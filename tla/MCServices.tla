----------------------------- MODULE MCServices -----------------------------
(***************************************************************************)
(* An instance of Services for TLC.  A behaviour is a scene of one of the  *)
(* six, in which the others stay as they began.                           *)
(***************************************************************************)
EXTENDS Services, TLC

CONSTANTS Scenes, c1, c2, c3, c4, a1, a2, eva, t1, t2

VARIABLE scene

all == <<scene, vars, limiter, bot, list, reporting, breaker>>

\* Three issues in the list, four in the reports.
ListSeverity == <<"critical", "warning", "critical">>
ListCategory == <<"revenue", "revenue", "access">>
ReportType == <<"a", "b", "a", "a">>
ReportSeverity == <<"warning", "critical", "critical", "critical">>
ReportUser == <<"eva", "", "gus", "ida">>
ReportCents == <<1, 0, 3, 9>>

\* Which of the calls begins first makes no difference, as their events are any.
Order == (c1 :> 1) @@ (c2 :> 2) @@ (c3 :> 3) @@ (c4 :> 4)

\* The last event comes again; one start of the scenes that are not played.
AllInit ==
  /\ scene \in Scenes
  /\ Init /\ Limiter!Init /\ Bot!Init /\ List!Init /\ Reports!Init /\ Breaker!Init
  /\ scene # "resolver" => hints = [c \in Calls |-> Identities] /\ external = [c \in Calls |-> NoProduct]
  /\ \E c \in {c1, c2, c3} : hints[c] = hints[c4] /\ external[c] = external[c4]
  /\ scene # "list" => \A i \in DOMAIN marked : marked[i] = "none"

InOrder == \A c, d \in Calls : Order[c] < Order[d] /\ pc[c] = "new" => pc'[d] = "new"

AllNext ==
  /\ UNCHANGED scene
  /\ \/ scene = "resolver" /\ Next /\ InOrder /\ UNCHANGED <<limiter, bot, list, reporting, breaker>>
     \/ scene = "limiter" /\ Limiter!Next /\ UNCHANGED <<vars, bot, list, reporting, breaker>>
     \/ scene = "bot" /\ Bot!Next /\ UNCHANGED <<vars, limiter, list, reporting, breaker>>
     \/ scene = "list" /\ List!Next /\ UNCHANGED <<vars, limiter, bot, reporting, breaker>>
     \/ scene = "reports" /\ Reports!Next /\ UNCHANGED <<vars, limiter, bot, list, breaker>>
     \/ scene = "breaker" /\ Breaker!Next /\ UNCHANGED <<vars, limiter, bot, list, reporting>>

AllSpec == AllInit /\ [][AllNext]_all

\* The types of the six, of the one that is played.
TypesOK ==
  CASE scene = "resolver" -> TypeOK         [] scene = "limiter" -> Limiter!TypeOK
    [] scene = "bot"      -> Bot!TypeOK     [] scene = "list"    -> List!TypeOK
    [] scene = "reports"  -> Reports!TypeOK [] scene = "breaker" -> Breaker!TypeOK
=============================================================================
