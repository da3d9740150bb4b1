--------------------------- MODULE IssueDetection ---------------------------
(***************************************************************************)
(* The issue detection engine (detection/engine.ts), its detectors         *)
(* (detection/detectors) and the issue API (api/issues.ts) for one user:   *)
(* runs triggered by an event in the pipeline, scheduled and manual scans, *)
(* and people who acknowledge, resolve or dismiss issues, all at once.     *)
(*                                                                         *)
(* The entitlement engine appears as the ledger it implements (module      *)
(* EntitlementLedger): an event moves its row in one step.  The reads of   *)
(* one detector are one step; the two detectors that compare the rows of a *)
(* user make only one read.  The rows a query without ORDER BY returns     *)
(* come in any order.                                                      *)
(***************************************************************************)
EXTENDS EntitlementTable, Naturals, Sequences, FiniteSets

CONSTANTS
  Products, Sources,  \* the user has one entitlement row per product and source
  Events,             \* canonical events of the user
  Runs,               \* concurrent runs of the detection engine
  NoEvent,
  Watched,            \* bound: the detectors that have something to look at
  MaxReports,         \* bound: access checks reported by the app
  MaxClosed,          \* bound: calls of the issue API
  MaxFaults,          \* bound: runs that die, detectors that throw
  MaxIssues           \* bound: issues there are when an aggregate detector still looks

ASSUME DetectionAssumption ==
  /\ NoEvent \notin Events
  /\ {MaxReports, MaxClosed, MaxFaults, MaxIssues} \subseteq Nat

VARIABLES
  canon,     \* canon[e]: type, product and source of event e
  ent,       \* ent[row]: state of the entitlement row, or "none"
  fate,      \* fate[e]: what became of event e in the entitlement engine
  age,       \* age[e]: how old the eventTime of e is
  reports,   \* access_checks of the user, oldest first: hasAccess
  silent,    \* sources without a webhook for too long
  issues,    \* the issues table, in the order of insertion
  closed,    \* types of which an issue was closed since the last event
  pc,        \* pc[r]: the next round trip of run r
  plan,      \* plan[r]: the detectors run r has yet to ask
  found,     \* found[r]: issues detected and not yet created
  item,      \* item[r]: the one run r is creating, or NoFinding
  event,     \* event[r]: the event that triggered run r, or NoEvent
  budget     \* how many API calls and faults are left

vars == <<canon, ent, fate, age, reports, silent, issues, closed, pc, plan,
          found, item, event, budget>>
world == <<canon, ent, fate, age, reports, silent>>
run == <<pc, plan, found, item, event>>

Rows == Products \X Sources
RowOf(e) == <<canon[e].product, canon[e].source>>

UserDetectors == {"duplicate_billing", "unrevoked_refund", "cross_platform_conflict",
                  "verified_paid_no_access", "verified_access_no_payment"}
AggregateDetectors == {"webhook_delivery_gap"}
Detectors == UserDetectors \cup AggregateDetectors

\* What a detector reports, and the issue made of it: about is the product,
\* row, event or source in the evidence.
Finding == [type : Detectors, about : Products \cup Rows \cup Events \cup Sources]
NoFinding == [type |-> "none"]
Issue == [type : Detectors, about : Products \cup Rows \cup Events \cup Sources,
          status : {"open", "acknowledged", "resolved", "dismissed"}]

TypeOK ==
  /\ canon \in [Events -> [type : EventTypes, product : Products, source : Sources]]
  /\ ent \in [Rows -> States \cup {"none"}]
  /\ fate \in [Events -> {"pending", "applied", "rejected", "dropped"}]
  /\ age \in [Events -> {"recent", "hour", "day"}]
  /\ reports \in Seq(BOOLEAN)
  /\ silent \subseteq Sources
  /\ issues \in Seq(Issue)
  /\ closed \subseteq Detectors
  /\ pc \in [Runs -> {"idle", "detect", "create", "insert"}]
  /\ plan \in [Runs -> SUBSET Detectors]
  /\ found \in [Runs -> SUBSET Finding]
  /\ item \in [Runs -> Finding \cup {NoFinding}]
  /\ event \in [Runs -> Events \cup {NoEvent}]
  /\ budget \in [{"close", "fault"} -> Nat]

Init ==
  /\ canon \in [Events -> [type : EventTypes, product : Products, source : Sources]]
  /\ ent = [row \in Rows |-> "none"]
  /\ fate = [e \in Events |-> "pending"]
  /\ age = [e \in Events |-> "recent"]
  /\ reports = <<>>
  /\ silent = {}
  /\ issues = <<>>
  /\ closed = {}
  /\ pc = [r \in Runs |-> "idle"]
  /\ plan = [r \in Runs |-> {}]
  /\ found = [r \in Runs |-> {}]
  /\ item = [r \in Runs |-> NoFinding]
  /\ event = [r \in Runs |-> NoEvent]
  /\ budget = [close |-> MaxClosed, fault |-> MaxFaults]

Spend(k) == budget[k] > 0 /\ budget' = [budget EXCEPT ![k] = @ - 1]
-----------------------------------------------------------------------------
(***************************************************************************)
(* The detectors: what each would report now.                              *)
(***************************************************************************)
Inactive == {"inactive", "expired", "revoked", "refunded"}
Report(d, abouts) == {[type |-> d, about |-> a] : a \in abouts}
HasAccess(row) == ent[row] \in AccessStates

\* Active rows of one product at two sources.
BilledTwice(p) == \E s, t \in Sources : s # t /\ HasAccess(<<p, s>>) /\ HasAccess(<<p, t>>)
DuplicateBilling == Report("duplicate_billing", {p \in Products : BilledTwice(p)})

Conflicting(p) == \E s, t \in Sources : HasAccess(<<p, s>>) /\ ent[<<p, t>>] \in Inactive
CrossPlatformConflict ==
  Report("cross_platform_conflict", {p \in Products : Conflicting(p)})

\* Any one row of the event's product, of whatever source: LIMIT 1.
SomeRow(e) == {row \in Rows : row[1] = canon[e].product /\ ent[row] # "none"}
\* Mutant: chargebacks are forgotten.
IsRefund_RefundOnly(e) == canon[e].type = "refund"

IsRefund(e) == canon[e].type \in {"refund", "chargeback"}
StillActive(refunds) ==
  {Report("unrevoked_refund", {e \in refunds : SomeRow(e) # {} /\ HasAccess(pick[e])}) :
     pick \in {f \in [refunds -> Rows] :
                 \A e \in refunds : SomeRow(e) # {} => f[e] \in SomeRow(e)}}

LastReport == reports[Len(reports)]
PaidNoAccess ==
  Report("verified_paid_no_access",
    {row \in Rows : reports # <<>> /\ ~LastReport /\ ent[row] \in {"active", "trial"}})

\* Some report of the user says access, whatever the later ones say.
AccessNoPayment ==
  Report("verified_access_no_payment",
    {p \in Products : /\ \E i \in 1..Len(reports) : reports[i]
                      /\ \A row \in Rows : ent[row] \in Inactive \cup {"none"}})

WebhookGap ==
  Report("webhook_delivery_gap", {s \in silent : Len(issues) < MaxIssues})

\* What detector d may answer to run r.  An event asks about itself, and only
\* if it is an hour old; a scan asks about all events that are a day old.
Answers(r, d) ==
  LET e == event[r] IN
  CASE d = "duplicate_billing" -> {DuplicateBilling}
    [] d = "cross_platform_conflict" -> {CrossPlatformConflict}
    [] d = "unrevoked_refund" /\ e # NoEvent ->
         StillActive({f \in {e} : IsRefund(f) /\ age[f] # "recent"})
    [] d = "unrevoked_refund" /\ e = NoEvent ->
         StillActive({f \in Events : fate[f] # "pending" /\ IsRefund(f) /\ age[f] = "day"})
    [] d = "verified_paid_no_access" -> {PaidNoAccess}
    [] d = "verified_access_no_payment" -> {AccessNoPayment}
    [] d = "webhook_delivery_gap" -> {WebhookGap}

\* The registry in its order, less the detectors that answer an event or a
\* scan with an empty list without looking.
Registry == <<"webhook_delivery_gap", "duplicate_billing", "unrevoked_refund",
              "cross_platform_conflict", "verified_paid_no_access",
              "verified_access_no_payment">>
OnEvent == {"duplicate_billing", "unrevoked_refund", "cross_platform_conflict"}
OnScan == {"webhook_delivery_gap", "unrevoked_refund", "verified_paid_no_access",
           "verified_access_no_payment"}
Plan(ds) == ds \cap Watched

\* The one of ds that is asked first.
IsFirst(d, ds) ==
  \E i \in 1..Len(Registry) :
    Registry[i] = d /\ d \in ds /\ \A k \in 1..(i - 1) : Registry[k] \notin ds
-----------------------------------------------------------------------------
Start(r, e, ds) ==
  /\ pc[r] = "idle"
  /\ plan' = [plan EXCEPT ![r] = Plan(ds)]
  /\ event' = [event EXCEPT ![r] = IF Plan(ds) = {} THEN NoEvent ELSE e]
  /\ pc' = [pc EXCEPT ![r] = IF Plan(ds) = {} THEN "idle" ELSE "detect"]
  /\ UNCHANGED <<found, item>>

\* The entitlement engine settles e and the pipeline calls checkForIssues.
\* An event is dropped only when another event of its row was applied.
Process(r, e) ==
  LET row == RowOf(e)
      state == IF ent[row] = "none" THEN "inactive" ELSE ent[row] IN
  /\ fate[e] = "pending"
  /\ Start(r, e, OnEvent)
  /\ closed' = {}
  /\ \/ /\ HasTransition(state, canon[e].type)
        /\ ent' = [ent EXCEPT ![row] = NextState(state, canon[e].type)]
        /\ fate' = [fate EXCEPT ![e] = "applied"]
     \/ /\ ~HasTransition(state, canon[e].type)
        /\ ent' = [ent EXCEPT ![row] = state]
        /\ fate' = [fate EXCEPT ![e] = "rejected"]
     \/ /\ \E w \in Events : fate[w] = "applied" /\ RowOf(w) = row
        /\ fate' = [fate EXCEPT ![e] = "dropped"]
        /\ UNCHANGED ent
  /\ UNCHANGED <<canon, age, reports, silent, issues, budget>>

\* A scan of one detector (the schedules) or of all of them (a manual trigger).
Scan(r, ds) ==
  /\ Start(r, NoEvent, ds)
  /\ UNCHANGED <<world, issues, closed, budget>>
ScanOne(r, d) == d \in OnScan \cap Watched /\ Scan(r, {d})
ScanAll(r) == Scan(r, OnScan)

\* Where run r goes on with findings fs of its detector and detectors ds left.
Continue(r, fs, ds) ==
  /\ pc' = [pc EXCEPT ![r] = IF fs # {} THEN "create"
                             ELSE IF ds # {} THEN "detect" ELSE "idle"]
  /\ found' = [found EXCEPT ![r] = fs]
  /\ plan' = [plan EXCEPT ![r] = ds]
  /\ event' = [event EXCEPT ![r] = IF fs = {} /\ ds = {} THEN NoEvent ELSE @]
  /\ item' = [item EXCEPT ![r] = NoFinding]

Detect(r) ==
  /\ pc[r] = "detect"
  /\ \E d \in Detectors : /\ IsFirst(d, plan[r])
                         /\ \E fs \in Answers(r, d) : Continue(r, fs, plan[r] \ {d})
  /\ UNCHANGED <<world, issues, closed, budget>>

\* Mutant: the lookup does not ask for the status.
Open_AnyStatus(d) == \E i \in 1..Len(issues) : issues[i].type = d

Open(d) == \E i \in 1..Len(issues) : issues[i].type = d /\ issues[i].status = "open"

\* Only an issue of a user is looked up before it is inserted.
SkipKnown(r) ==
  /\ pc[r] = "create"
  /\ \E f \in found[r] : /\ f.type \in UserDetectors /\ Open(f.type)
                         /\ Continue(r, found[r] \ {f}, plan[r])
  /\ UNCHANGED <<world, issues, closed, budget>>

Create(r) ==
  /\ pc[r] = "create"
  /\ \E f \in found[r] :
       /\ f.type \in UserDetectors => ~Open(f.type)
       /\ found' = [found EXCEPT ![r] = @ \ {f}]
       /\ item' = [item EXCEPT ![r] = f]
  /\ pc' = [pc EXCEPT ![r] = "insert"]
  /\ UNCHANGED <<world, issues, closed, plan, event, budget>>

NewIssue(r) == [type |-> item[r].type, about |-> item[r].about, status |-> "open"]

\* Mutant: the index is missing.
Insert_NoIndex(r) ==
  /\ pc[r] = "insert"
  /\ issues' = Append(issues, NewIssue(r))
  /\ Continue(r, found[r], plan[r])
  /\ UNCHANGED <<world, closed, budget>>

\* The partial unique index on (org, user, type) of open issues lets the row
\* in; a row without user is never equal to another.
Insert(r) ==
  /\ pc[r] = "insert"
  /\ item[r].type \in UserDetectors => ~Open(item[r].type)
  /\ issues' = Append(issues, NewIssue(r))
  /\ Continue(r, found[r], plan[r])
  /\ UNCHANGED <<world, closed, budget>>

\* unique_violation: another run was first.
InsertConflict(r) ==
  /\ pc[r] = "insert"
  /\ item[r].type \in UserDetectors /\ Open(item[r].type)
  /\ Continue(r, found[r], plan[r])
  /\ UNCHANGED <<world, issues, closed, budget>>

\* A query throws: the rest of what this detector found is lost, and the run
\* goes on with the next one.
DetectorFails(r) ==
  /\ pc[r] # "idle"
  /\ Spend("fault")
  /\ \/ pc[r] = "detect" /\ \E d \in Detectors : IsFirst(d, plan[r]) /\ Continue(r, {}, plan[r] \ {d})
     \/ pc[r] # "detect" /\ Continue(r, {}, plan[r])
  /\ UNCHANGED <<world, issues, closed>>

\* The process dies.  The event is stored, so its job's next attempt will take
\* it for a duplicate and not come here again.
RunDies(r) ==
  /\ pc[r] # "idle"
  /\ Spend("fault")
  /\ Continue(r, {}, {})
  /\ UNCHANGED <<world, issues, closed>>

\* POST /issues/:id/{acknowledge,resolve,dismiss}: whatever the status was.
SetStatus(i, status) ==
  /\ Spend("close")
  /\ issues' = [issues EXCEPT ![i].status = status]
  /\ closed' = closed \cup {issues[i].type}
  /\ UNCHANGED <<world, run>>
-----------------------------------------------------------------------------
\* What happens around the engine: events grow old, the app reports, a
\* source's webhooks stop and start again.
GrowOld(e) ==
  /\ age[e] # "day"
  /\ age' = [age EXCEPT ![e] = IF @ = "recent" THEN "hour" ELSE "day"]
  /\ UNCHANGED <<canon, ent, fate, reports, silent, issues, closed, run, budget>>

ReportAccess(has) ==
  /\ Len(reports) < MaxReports
  /\ reports' = Append(reports, has)
  /\ UNCHANGED <<canon, ent, fate, age, silent, issues, closed, run, budget>>

Gap(s) ==
  /\ silent' = IF s \in silent THEN silent \ {s} ELSE silent \cup {s}
  /\ UNCHANGED <<canon, ent, fate, age, reports, issues, closed, run, budget>>

RunStep(r) == Detect(r) \/ SkipKnown(r) \/ Create(r) \/ Insert(r) \/ InsertConflict(r)

Next ==
  \/ \E r \in Runs : \/ \E e \in Events : Process(r, e)
                     \/ \E d \in OnScan : ScanOne(r, d)
                     \/ ScanAll(r) \/ RunStep(r) \/ DetectorFails(r) \/ RunDies(r)
  \/ \E i \in 1..Len(issues), status \in {"acknowledged", "resolved", "dismissed"} :
       SetStatus(i, status)
  \/ \E e \in Events : GrowOld(e)
  \/ \E has \in BOOLEAN : ReportAccess(has)
  \/ \E s \in Sources : Gap(s)

Spec == Init /\ [][Next]_vars

\* Runs make their next call and every schedule fires again and again.
Fairness ==
  \A r \in Runs :
    /\ WF_vars(RunStep(r))
    /\ \A d \in OnScan : SF_vars(ScanOne(r, d))
FairSpec == Spec /\ Fairness
-----------------------------------------------------------------------------
\* Runs that race detect the same thing at once; still a user has at most one
\* open issue of each type (detection/engine.ts:120-141, 177-184).
OneOpenPerUser ==
  \A i, j \in 1..Len(issues) :
    /\ issues[i].type = issues[j].type /\ issues[i].type \in UserDetectors
    /\ issues[i].status = "open" /\ issues[j].status = "open"
    => i = j

\* When nothing runs and nothing died, a user who is billed twice, or whose
\* sources contradict each other, has an open issue that says so, or somebody
\* closed it since the last event.  Whichever of two concurrent events is
\* settled last, its run reads both rows: no interleaving slips through, and
\* neither does an event that comes after an issue was closed.
Quiet == \A r \in Runs : pc[r] = "idle"
IsOpen(d) == \E i \in 1..Len(issues) : issues[i].type = d /\ issues[i].status = "open"
Flagged(d) == IsOpen(d) \/ d \in closed
CrossSourceIsFlagged ==
  Quiet /\ budget.fault = MaxFaults =>
    /\ DuplicateBilling # {} => Flagged("duplicate_billing")
    /\ CrossPlatformConflict # {} => Flagged("cross_platform_conflict")

\* A refund or chargeback that left its row active, and is a day old, gets an
\* open issue from the hourly scan unless the row leaves the active states.
Unrevoked(e) ==
  /\ fate[e] \in {"rejected", "dropped"} /\ age[e] = "day"
  /\ canon[e].type \in {"refund", "chargeback"}
  /\ ent[RowOf(e)] \in AccessStates
UnrevokedIsFlagged ==
  \A e \in Events : Unrevoked(e) ~> IsOpen("unrevoked_refund") \/ ~Unrevoked(e)
=============================================================================
