----------------------------- MODULE Monitoring -----------------------------
(***************************************************************************)
(* The scans that watch the billing connections themselves: the schedule   *)
(* (queue/scan-scheduler.ts), the queue and its worker                     *)
(* (queue/scan-worker.ts), manual scans (api/scans.ts) and the aggregate   *)
(* detectors webhook_delivery_gap, renewal_anomaly and data_freshness.     *)
(*                                                                         *)
(* A connection is an organization's one at one source.  A tick is the     *)
(* time the thresholds are counted in.  Issues are kept per type and       *)
(* connection, as the severities that are open: every scan inserts them    *)
(* anew (see IssueDetection).                                              *)
(***************************************************************************)
EXTENDS Naturals, Sequences, FiniteSets

CONSTANTS
  Connections, Owner,           \* Owner[c]: the organization of connection c
  Warning, Critical, NeverHours,\* thresholds of the gap, of silence and of the first webhook
  Baseline, MinAverage,         \* windows of the baseline, renewals per window it takes
  MinActive,                    \* subscriptions a source needs to be judged
  Never,                        \* lastWebhookAt = null
  Watched,                      \* bound: detectors and connections that have something to do
  ByHand,                       \* bound: the scans people start, a detector's or "all"
  MaxRenewals, MaxSubs, MaxScanFaults, MaxManual   \* bounds: the first on renewals in all windows

\* What the parameters have to be.
Parameters ==
  /\ {Warning, Critical, NeverHours, MinAverage, MinActive, MaxRenewals, MaxSubs, MaxScanFaults, MaxManual} \subseteq Nat
  /\ Watched \subseteq {"webhook_delivery_gap", "renewal_anomaly", "data_freshness"} \X Connections
  /\ ByHand \subseteq {"webhook_delivery_gap", "renewal_anomaly", "data_freshness", "all"}
  /\ Warning < Critical /\ Baseline \in Nat \ {0}

VARIABLES
  conn,        \* conn[c]: isActive, age of the connection, time since its last webhook
  renewals,    \* renewals[c][i]: successful renewals i - 1 ticks ago
  subs,        \* subs[c]: subscriptions that give access, and those of them not updated in 35 days
  board,       \* open issues of the aggregate detectors
  schedules,   \* the repeatable jobs in Redis
  scans,       \* jobs waiting: detector and organization
  scan,        \* the job the worker is at: organizations left, detectors left, issues found
  watch,       \* the one of Watched in this behaviour
  scanFaults, manual

vars == <<conn, renewals, subs, board, schedules, scans, scan, watch, scanFaults, manual>>
world == <<conn, renewals, subs>>

Orgs == {Owner[c] : c \in Connections}
Aggregates == {"webhook_delivery_gap", "renewal_anomaly", "data_freshness"}
\* SCAN_SCHEDULES: one per detector, for all organizations, in this order.
SCAN_SCHEDULES == <<"webhook_delivery_gap", "renewal_anomaly", "data_freshness">>
Schedules == {SCAN_SCHEDULES[i] : i \in DOMAIN SCAN_SCHEDULES}
Issue == [type : Aggregates, of : Connections, severity : {"warning", "critical"}]
NoJob == <<"none", "none">>
Idle == [job |-> NoJob, orgs |-> {}, org |-> "none", plan |-> {}, found |-> {}]
AtMost(n, max) == IF n > max THEN max ELSE n
NoRenewals == [i \in 1..(Baseline + 1) |-> 0]
NoSubs == [active |-> 0, stale |-> 0]
OldAge == NeverHours + 1
LongAgo == Critical + 1

TypeOK ==
  /\ conn \in [Connections -> [isActive : BOOLEAN, age : 0..OldAge, quiet : 0..LongAgo \cup {Never}]]
  /\ renewals \in [Connections -> [1..(Baseline + 1) -> 0..MaxRenewals]]
  /\ subs \in [Connections -> [active : 0..MaxSubs, stale : 0..MaxSubs]]
  /\ board \subseteq Issue
  /\ schedules \subseteq Schedules \cup {"retired"}
  /\ scans \subseteq (Aggregates \cup {"all"}) \X (Orgs \cup {"all"})
  /\ scan.orgs \subseteq Orgs /\ scan.plan \subseteq Aggregates /\ scan.found \subseteq Issue
  /\ watch \in Watched /\ scanFaults \in Nat /\ manual \in Nat

Init ==
  /\ conn = [c \in Connections |-> [isActive |-> TRUE, age |-> 0, quiet |-> Never]]
  /\ renewals = [c \in Connections |-> NoRenewals] /\ subs = [c \in Connections |-> NoSubs]
  /\ board = {} /\ scans = {} /\ scan = Idle
  /\ schedules \in {{}, {"retired"}}
  /\ watch \in Watched
  /\ scanFaults = 0 /\ manual = 0
-----------------------------------------------------------------------------
(***************************************************************************)
(* What the detectors report of a connection.                              *)
(***************************************************************************)
\* Mutant: a connection without a first webhook is left alone.
Gap_SkipNever(c) ==
  IF conn[c].quiet = Never THEN {}
  ELSE IF conn[c].quiet > Critical THEN {"critical"}
  ELSE IF conn[c].quiet > Warning THEN {"warning"} ELSE {}

Gap(c) ==
  IF conn[c].quiet = Never
  THEN IF conn[c].age > NeverHours THEN {"critical"} ELSE {}
  ELSE IF conn[c].quiet > Critical THEN {"critical"}
  ELSE IF conn[c].quiet > Warning THEN {"warning"} ELSE {}

\* The recent window is part of the baseline; shares are compared crosswise.
Total(c) ==
  LET upTo[i \in 0..(Baseline + 1)] == IF i = 0 THEN 0 ELSE upTo[i - 1] + renewals[c][i]
  IN upTo[Baseline + 1]
LastWindow(c) == renewals[c][1] + renewals[c][2]

RenewalDrop(c) ==
  LET total == Total(c) missing == 10 * total - 10 * Baseline * LastWindow(c) IN
  IF total < MinAverage * Baseline \/ total < Baseline * LastWindow(c) THEN {}
  ELSE IF missing >= 6 * total THEN {"critical"}
  ELSE IF missing >= 3 * total THEN {"warning"} ELSE {}

Freshness(c) ==
  IF subs[c].active < MinActive THEN {}
  ELSE IF 4 * subs[c].stale >= subs[c].active THEN {"critical"}
  ELSE IF 10 * subs[c].stale >= subs[c].active THEN {"warning"} ELSE {}

Severity(d, c) ==
  IF d = "webhook_delivery_gap" THEN Gap(c)
  ELSE IF d = "renewal_anomaly" THEN RenewalDrop(c) ELSE Freshness(c)

\* scheduledScan of detector d for an organization.
Findings(d, org) ==
  {i \in Issue : i.type = d /\ Owner[i.of] = org /\ conn[i.of].isActive /\ i.severity \in Severity(d, i.of)}
-----------------------------------------------------------------------------
(***************************************************************************)
(* The connections.                                                        *)
(***************************************************************************)
Unscanned == UNCHANGED <<board, schedules, scans, scan, watch, scanFaults, manual>>

\* A verified webhook, also one that then could not be queued.
WebhookArrives(c) ==
  /\ watch = <<"webhook_delivery_gap", c>> /\ conn[c].isActive
  /\ conn' = [conn EXCEPT ![c].quiet = 0] /\ Unscanned /\ UNCHANGED <<renewals, subs>>

\* For good: what is measured of the connection from here on is left out.
Disconnect(c) ==
  /\ watch[2] = c /\ conn[c].isActive
  /\ conn' = [conn EXCEPT ![c] = [isActive |-> FALSE, age |-> 0, quiet |-> Never]]
  /\ renewals' = [renewals EXCEPT ![c] = NoRenewals] /\ subs' = [subs EXCEPT ![c] = NoSubs]
  /\ Unscanned

Renew(c) ==
  /\ watch = <<"renewal_anomaly", c>> /\ conn[c].isActive /\ Total(c) < MaxRenewals
  /\ renewals' = [renewals EXCEPT ![c][1] = @ + 1] /\ Unscanned /\ UNCHANGED <<conn, subs>>

\* A subscription begins, ends, is updated, or has not been for too long.
SubsMove(c) ==
  /\ watch = <<"data_freshness", c>> /\ conn[c].isActive
  /\ \E s \in [active : 0..MaxSubs, stale : 0..MaxSubs] :
       /\ s.stale <= s.active
       /\ \/ s.active = subs[c].active + 1 /\ s.stale = subs[c].stale
          \/ s.active + 1 = subs[c].active /\ s.stale \in {subs[c].stale, subs[c].stale - 1}
          \/ s.active = subs[c].active /\ s.stale \in {subs[c].stale - 1, subs[c].stale + 1}
       /\ subs' = [subs EXCEPT ![c] = s]
  /\ Unscanned /\ UNCHANGED <<conn, renewals>>

Older(c) ==
  IF ~conn[c].isActive THEN conn[c] ELSE
  [conn[c] EXCEPT !.age = AtMost(@ + 1, OldAge),
                  !.quiet = IF @ = Never THEN Never ELSE AtMost(@ + 1, LongAgo)]
Hour ==
  /\ conn' = IF watch[1] = "webhook_delivery_gap" THEN [conn EXCEPT ![watch[2]] = Older(watch[2])] ELSE conn
  /\ renewals' = [c \in Connections |-> [i \in 1..(Baseline + 1) |-> IF i = 1 THEN 0 ELSE renewals[c][i - 1]]]
  /\ Unscanned /\ UNCHANGED subs
-----------------------------------------------------------------------------
(***************************************************************************)
(* The scans.                                                              *)
(***************************************************************************)
Faulty == scanFaults < MaxScanFaults /\ scanFaults' = scanFaults + 1

\* startScanScheduler, when the server starts: what is no longer scheduled goes
\* first; an error ends it where it is.
StartScheduler ==
  /\ schedules # Schedules
  /\ \/ schedules' = Schedules /\ UNCHANGED scanFaults
     \/ /\ Faulty
        /\ \/ UNCHANGED schedules
           \/ \E n \in 0..Len(SCAN_SCHEDULES) :
                schedules' = (schedules \cap Schedules) \cup {SCAN_SCHEDULES[i] : i \in 1..n}
  /\ UNCHANGED <<world, board, scans, scan, watch, manual>>

\* A schedule is due; one of an earlier version names a detector there no
\* longer is, and its job does nothing.
Due(name) ==
  /\ name \in schedules /\ scans' = scans \cup ({name} \cap Aggregates) \X {"all"}
  /\ UNCHANGED <<world, board, schedules, scan, watch, scanFaults, manual>>

\* POST /trigger and triggerScanNow
Trigger(d, org) ==
  /\ manual < MaxManual /\ manual' = manual + 1
  /\ scans' = scans \cup {<<d, org>>}
  /\ UNCHANGED <<world, board, schedules, scan, watch, scanFaults>>

\* processScanJob takes a job and resolves the organizations ...
TakeScan(job) ==
  /\ scan = Idle /\ job \in scans
  /\ scans' = scans \ {job}
  /\ scan' = [Idle EXCEPT !.job = job, !.orgs = IF job[2] = "all" THEN Orgs ELSE {job[2]}]
  /\ UNCHANGED <<world, board, schedules, watch, scanFaults, manual>>

\* A job is over with its last organization.
Onward(s) == IF s.orgs = {} /\ s.plan = {} /\ s.found = {} THEN Idle ELSE s

\* What is left of the job after an error: in a scan with all detectors the
\* others go on, otherwise the next organization is next.
Failed == [scan EXCEPT !.found = {}, !.plan = IF scan.job[1] = "all" THEN @ ELSE {}]

\* ... goes through them ...
NextOrg ==
  /\ scan # Idle /\ scan.plan = {} /\ scan.found = {}
  /\ \E org \in scan.orgs :
       scan' = [scan EXCEPT !.org = org, !.orgs = @ \ {org},
                  !.plan = IF scan.job[1] = "all" THEN Aggregates ELSE {scan.job[1]}]
  /\ UNCHANGED <<world, board, schedules, scans, watch, scanFaults, manual>>

\* ... asks a detector, which may fail ...
AskDetector ==
  /\ scan.plan # {} /\ scan.found = {}
  /\ \E d \in scan.plan :
       \/ /\ scan' = Onward([scan EXCEPT !.plan = @ \ {d}, !.found = Findings(d, scan.org)])
          /\ UNCHANGED scanFaults
       \/ /\ Faulty
          /\ scan' = Onward([Failed EXCEPT !.plan = @ \ {d}])
  /\ UNCHANGED <<world, board, schedules, scans, watch, manual>>

\* ... and inserts what it found, one by one; an error loses the rest.
InsertFound ==
  /\ scan.found # {}
  /\ \/ \E i \in scan.found :
          /\ board' = board \cup {i} /\ scan' = Onward([scan EXCEPT !.found = @ \ {i}])
          /\ UNCHANGED scanFaults
     \/ Faulty /\ scan' = Onward(Failed) /\ UNCHANGED board
  /\ UNCHANGED <<world, schedules, scans, watch, manual>>

\* The worker dies; BullMQ finds its job stalled and runs it again.
WorkerDies ==
  /\ scan # Idle /\ Faulty
  /\ scans' = scans \cup {scan.job} /\ scan' = Idle
  /\ UNCHANGED <<world, board, schedules, watch, manual>>

\* A person closes an issue.
Close(i) ==
  /\ i \in board /\ board' = board \ {i}
  /\ UNCHANGED <<world, schedules, scans, scan, watch, scanFaults, manual>>

Jobs == (Aggregates \cup {"all"}) \X (Orgs \cup {"all"})
Work == (\E job \in Jobs : TakeScan(job)) \/ NextOrg \/ AskDetector \/ InsertFound

Next ==
  \/ \E c \in Connections : WebhookArrives(c) \/ Disconnect(c) \/ Renew(c) \/ SubsMove(c)
  \/ Hour \/ StartScheduler \/ Work \/ WorkerDies
  \/ \E name \in Schedules \cup {"retired"} : Due(name)
  \/ \E d \in ByHand : Trigger(d, Owner[watch[2]])
  \/ \E i \in Issue : Close(i)

Spec == Init /\ [][Next]_vars

\* Schedules that are registered become due, the worker works and takes its jobs
\* in their order, time passes; nobody has to start a server again whose
\* scheduler failed.
Fairness ==
  /\ WF_vars(Hour) /\ WF_vars(Work)
  /\ \A name \in Schedules : WF_vars(Due(name)) /\ SF_vars(TakeScan(<<name, "all">>))
FairSpec == Spec /\ Fairness
-----------------------------------------------------------------------------
\* Of the detector and connection watched in this behaviour.
Outage ==
  LET c == watch[2] IN
  /\ conn[c].isActive
  /\ \/ watch[1] = "webhook_delivery_gap" /\ (conn[c].quiet = Never \/ conn[c].quiet > Critical)
     \/ watch[1] = "data_freshness" /\ subs[c].active >= MinActive /\ 4 * subs[c].stale >= subs[c].active

Flagged == [type |-> watch[1], of |-> watch[2], severity |-> "critical"] \in board

\* A connection that is silent for good, or was never heard from in its first
\* day, and a source with enough subscriptions a quarter of which stays stale
\* have a critical issue again and again, whatever people close and whichever
\* detector, insert, organization or worker fails meanwhile, once the schedule is
\* registered (webhook-gap.ts:49-90, data-freshness.ts:48-107, scan-worker.ts:55-95).
OutageIsFlagged ==
  <>[](schedules = Schedules /\ Outage) => []<>Flagged
=============================================================================
