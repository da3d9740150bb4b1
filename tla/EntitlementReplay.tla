------------------------- MODULE EntitlementReplay -------------------------
(***************************************************************************)
(* The claim at the head of src/src/entitlement/engine.ts (lines 12-14):   *)
(* the row of a user, product and source is "a deterministic state that    *)
(* represents what access the user should have based on all known billing  *)
(* events".  The reference is the replay of the known events in the order  *)
(* of their eventTime.                                                     *)
(*                                                                         *)
(* The variable calm, of no weight to the program, tells the behaviours in  *)
(* which events came in that order, one call at a time and none cut short. *)
(* In other orders the claim does not hold: see EndedHasNoAccess of the    *)
(* module Backfill.                                                        *)
(***************************************************************************)
EXTENDS EntitlementEngine

CONSTANTS
  Timeline    \* the events in the order of their eventTime

ASSUME TimelineAssumption ==
  /\ Timeline \in Seq(Events)
  /\ \A i, j \in DOMAIN Timeline : Timeline[i] = Timeline[j] => i = j

VARIABLE calm   \* so far each call began after those of all earlier events

ReplayStep(s, e) ==
  IF HasTransition(s, canon[e].type) THEN NextState(s, canon[e].type) ELSE s

\* The events of source s, one after the other.
Replay(s) ==
  LET state[n \in 0..Len(Timeline)] ==
        IF n = 0 THEN "inactive"
        ELSE IF canon[Timeline[n]].source = s THEN ReplayStep(state[n - 1], Timeline[n])
        ELSE state[n - 1]
  IN  state[Len(Timeline)]

HasSettled(e) == outcome[e] \in {"applied", "noTransition"}
Settled == \A e \in Events : HasSettled(e)

\* Begin(p, e) is calm when all that is earlier than e in the timeline was
\* settled, and nothing that is later was begun.
Orderly(e) ==
  \E j \in DOMAIN Timeline :
    /\ Timeline[j] = e
    /\ \A i \in DOMAIN Timeline : /\ i < j => HasSettled(Timeline[i])
                                  /\ i > j => outcome[Timeline[i]] = "new"

ReplayInit == Init /\ calm = TRUE
ReplayNext ==
  /\ Next
  /\ calm' = (calm /\ \A e \in Events :
                 outcome[e] = "new" /\ outcome'[e] = "running" => Orderly(e))
ReplaySpec == ReplayInit /\ [][ReplayNext]_<<vars, calm>>
-----------------------------------------------------------------------------
\* When every known event went through processEvent, in the order in which
\* they happened, the state of the row is the replay of the events.
StateIsTheReplay ==
  Settled /\ calm => \A s \in Sources : LedgerState[s] = Replay(s)
=============================================================================
