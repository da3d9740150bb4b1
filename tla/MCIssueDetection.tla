-------------------------- MODULE MCIssueDetection --------------------------
(***************************************************************************)
(* Instances of IssueDetection for TLC.  Kinds bounds the event types; the *)
(* events of a behaviour are chosen in its initial state.                  *)
(***************************************************************************)
EXTENDS IssueDetection, TLC

CONSTANT Kinds   \* bound: the event types of this instance

MCInit == Init /\ \A e \in Events : canon[e].type \in Kinds

MCSpec == MCInit /\ [][Next]_vars

\* Bound: events grow old and sources fall silent as long as nothing else has
\* happened only.  MCSafeguards plays the two scans that look at it.
Calm ==
  \/ silent = {} /\ \A e \in Events : age[e] = "recent"
  \/ ent = [row \in Rows |-> "none"] /\ Quiet /\ issues = <<>> /\ reports = <<>>

Symmetry == Permutations(Events) \cup Permutations(Runs)
=============================================================================
