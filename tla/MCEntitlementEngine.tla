------------------------ MODULE MCEntitlementEngine ------------------------
(***************************************************************************)
(* Instances of EntitlementEngine and EntitlementReplay for TLC.  Kinds    *)
(* bounds the types of the events; the events of a behaviour are chosen in *)
(* its initial state.                                                      *)
(***************************************************************************)
EXTENDS EntitlementReplay

CONSTANTS
  Kinds,        \* bound: the event types of this instance
  e1, e2, e3

ASSUME KindsAssumption == Kinds \subseteq EventTypes

MCTimeline == <<e1, e2, e3>>

MCInit == ReplayInit /\ \A e \in Events : canon[e].type \in Kinds

MCSpec == MCInit /\ [][ReplayNext]_<<vars, calm>>
=============================================================================
