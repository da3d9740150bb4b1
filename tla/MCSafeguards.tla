---------------------------- MODULE MCSafeguards ----------------------------
(***************************************************************************)
(* An instance of three components for TLC: CircuitBreaker, Monitoring and *)
(* the scans of IssueDetection.  They share no state, and each of them has *)
(* to get over faults in the end; a behaviour is a scene of one of them,   *)
(* in which the others stay as they began.                                 *)
(***************************************************************************)
EXTENDS CircuitBreaker

CONSTANTS
  Scenes,
  acme, emca,              \* two connections, of two organizations
  p1, s1, e1, e2, r1       \* a product, a source, two events and a run

VARIABLES
  scene,
  conn, renewals, subs, board, schedules, scans, scan, watch, scanFaults, manual,
  canon, ent, fate, age, reports, silent, issues, closed, pc, plan, found, item, event, budget

monitoring == <<conn, renewals, subs, board, schedules, scans, scan, watch, scanFaults, manual>>
detection == <<canon, ent, fate, age, reports, silent, issues, closed, pc, plan, found, item, event, budget>>
all == <<scene, vars, monitoring, detection>>

Watching == INSTANCE Monitoring WITH
  Connections <- {acme, emca}, Owner <- [c \in {acme, emca} |-> c],
  Warning <- 0, Critical <- 1, NeverHours <- 0, Baseline <- 2, MinAverage <- 1, MinActive <- 2,
  Watched <- {"webhook_delivery_gap", "renewal_anomaly", "data_freshness"} \X {acme},
  ByHand <- {"all"}, MaxRenewals <- 2, MaxSubs <- 2, MaxScanFaults <- 1, MaxManual <- 1

Scanning == INSTANCE IssueDetection WITH
  Products <- {p1}, Sources <- {s1}, Events <- {e1, e2}, Runs <- {r1}, NoEvent <- Never,
  Watched <- {"unrevoked_refund", "webhook_delivery_gap"},
  MaxReports <- 0, MaxClosed <- 1, MaxFaults <- 1, MaxIssues <- 1

ASSUME Watching!Parameters

\* The kinds of events of the scans; one start of the scenes that are not played.
Kinds == {"chargeback", "purchase"}
AllInit ==
  /\ scene \in Scenes
  /\ Init /\ Watching!Init
  /\ scene # "monitoring" => schedules = {} /\ watch = <<"webhook_delivery_gap", acme>>
  /\ Scanning!Init
  /\ \A e \in {e1, e2} : canon[e].type \in (IF scene = "scans" THEN Kinds ELSE {"purchase"})

Breaks(A) == scene = "breaker" /\ A /\ UNCHANGED <<scene, monitoring, detection>>
Watches(A) == scene = "monitoring" /\ A /\ UNCHANGED <<scene, vars, detection>>
Scans(A) == scene = "scans" /\ A /\ UNCHANGED <<scene, vars, monitoring>>

AllNext == Breaks(Next) \/ Watches(Watching!Next) \/ Scans(Scanning!Next)

\* The fairness of the three.  Only one of them is played, so that an action of
\* one may share its formula with an action of another.
DueOf(i) == Watches(Watching!Due(Watching!SCAN_SCHEDULES[i]))
Taken(i) == Watches(Watching!TakeScan(<<Watching!SCAN_SCHEDULES[i], "all">>))
AllFairness ==
  /\ WF_all(Breaks(Tick) \/ Watches(Watching!Hour))
  /\ WF_all(Breaks(\E c \in Calls : Call(c)) \/ Watches(Watching!Work) \/ Scans(Scanning!RunStep(r1)))
  /\ WF_all(Breaks(\E c \in Calls : Answered(c)) \/ DueOf(1)) /\ WF_all(DueOf(2)) /\ WF_all(DueOf(3))
  /\ SF_all(Taken(1) \/ Scans(Scanning!ScanOne(r1, "unrevoked_refund")))
  /\ SF_all(Taken(2) \/ Scans(Scanning!ScanOne(r1, "webhook_delivery_gap")))
  /\ SF_all(Taken(3))

AllSpec == AllInit /\ [][AllNext]_all /\ AllFairness

\* The types of the three, of the one that is played.
TypesOK ==
  CASE scene = "breaker" -> TypeOK            [] scene = "monitoring" -> Watching!TypeOK
    [] scene = "scans"   -> Scanning!TypeOK

\* The properties of the instances, under their own names.
OutageIsFlagged == Watching!OutageIsFlagged
UnrevokedIsFlagged == Scanning!UnrevokedIsFlagged
=============================================================================
