---------------------------- MODULE MCIngestion ----------------------------
(***************************************************************************)
(* Instances of Ingestion for TLC: one webhook that normalizes to two      *)
(* events (a Stripe subscription update does), the second of them without  *)
(* product, and one that normalizes to a single event.                     *)
(***************************************************************************)
EXTENDS Ingestion, TLC

CONSTANTS update, payment, e1, e2, e3, s1

MCContents == update :> <<e1, e2>> @@ payment :> <<e3>>
MCBodies == {update, payment}

\* ... and the first webhook alone, for the liveness properties.
MCUpdateOnly == update :> <<e1, e2>>

\* The events of the instance: bounds the choice of canon in Init.
MCInit ==
  /\ Init
  /\ canon = [e \in Events |->
        [source |-> s1, type |-> IF e = e1 THEN "purchase" ELSE "renewal"]]

\* Deliveries and runs are interchangeable; used only for safety properties.
Symmetry == Permutations(Logs) \cup Permutations(Slots)

MCSpec == MCInit /\ [][Next]_vars
MCFairSpec == MCSpec /\ Fairness
=============================================================================
