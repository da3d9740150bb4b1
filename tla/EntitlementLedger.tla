------------------------- MODULE EntitlementLedger -------------------------
(***************************************************************************)
(* What EntitlementEngine.processEvent promises, without its database      *)
(* round trips: an event takes effect in one indivisible step on the state *)
(* of its row, by an entry of STATE_TRANSITIONS, or it never does.         *)
(***************************************************************************)
EXTENDS EntitlementTable

CONSTANTS Sources, Events

VARIABLES
  canon,     \* canon[e]: type and source of canonical event e
  state,     \* state[s]: entitlement state of the row of source s
  fate       \* fate[e]: what became of event e

vars == <<canon, state, fate>>

Init ==
  /\ canon \in [Events -> [type : EventTypes, source : Sources]]
  /\ state = [s \in Sources |-> "inactive"]
  /\ fate = [e \in Events |-> "pending"]

Settle(e, f) ==
  /\ fate[e] = "pending"
  /\ fate' = [fate EXCEPT ![e] = f]
  /\ UNCHANGED canon

\* The event moves its row.
Apply(e) ==
  LET s == canon[e].source IN
  /\ Settle(e, "applied")
  /\ HasTransition(state[s], canon[e].type)
  /\ state' = [state EXCEPT ![s] = NextState(@, canon[e].type)]

\* The table has no entry for the event in the state its row is in.
Reject(e) ==
  /\ Settle(e, "rejected")
  /\ ~HasTransition(state[canon[e].source], canon[e].type)
  /\ UNCHANGED state

\* The event is dropped, whatever the state of its row.
Abandon(e) == Settle(e, "abandoned") /\ UNCHANGED state

Next == \E e \in Events : Apply(e) \/ Reject(e) \/ Abandon(e)

Spec == Init /\ [][Next]_vars
=============================================================================
