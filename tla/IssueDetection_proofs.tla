----------------------- MODULE IssueDetection_proofs -----------------------
(***************************************************************************)
(* However many runs race over however many events, products and sources,  *)
(* a user never has two open issues of one type, and as long as nothing    *)
(* fails, no contradiction between the sources goes without an issue.      *)
(*                                                                         *)
(* For the first, the lookup of a run (Open in Create) is stale by the     *)
(* time it inserts, and the proof does not use it: what keeps the issues   *)
(* apart is the partial unique index in Insert, and that nothing reopens   *)
(* an issue.                                                               *)
(*                                                                         *)
(* For the second, inductive is that a contradiction nobody was told of    *)
(* has a run that is going to look at it or already carries what it found  *)
(* (NothingSlips): an event moves its row and starts its run in one go, so *)
(* the run of the event that was settled last reads what all others left.  *)
(***************************************************************************)
EXTENDS IssueDetection, TLAPS

\* What a run is about to insert is a finding.
ItemsAreFindings == \A r \in Runs : pc[r] = "insert" => item[r] \in Finding

FaultsCount == budget["fault"] \in Nat /\ budget["fault"] <= MaxFaults

\* The detectors that compare the rows of a user, what each sees now, and that a
\* run has yet to ask it or to bring what it said to the table.
CrossSource == {"duplicate_billing", "cross_platform_conflict"}
Sees(d) == \/ d = "duplicate_billing" /\ DuplicateBilling # {}
           \/ d = "cross_platform_conflict" /\ CrossPlatformConflict # {}
WillTell(r, d) ==
  \/ pc[r] # "idle" /\ d \in plan[r]
  \/ pc[r] \in {"create", "insert"} /\ \E f \in found[r] : f.type = d
  \/ pc[r] = "insert" /\ item[r].type = d

NothingSlips ==
  budget["fault"] = MaxFaults =>
    \A d \in CrossSource : Sees(d) => Flagged(d) \/ \E r \in Runs : WillTell(r, d)

IInv == TypeOK /\ ItemsAreFindings /\ FaultsCount /\ OneOpenPerUser

LEMMA InitInvariant == Init => IInv
<1> SUFFICES ASSUME Init PROVE IInv
  OBVIOUS
<1>1. TypeOK
  <2>1. <<>> \in Seq(BOOLEAN) /\ <<>> \in Seq(Issue)
    OBVIOUS
  <2>2. budget \in [{"close", "fault"} -> Nat] /\ budget["fault"] = MaxFaults
    BY DetectionAssumption DEF Init, DetectionAssumption
  <2> QED BY <2>1, <2>2 DEF Init, TypeOK, States
<1>2. FaultsCount
  BY DetectionAssumption DEF Init, DetectionAssumption, FaultsCount
<1>3. OneOpenPerUser /\ ItemsAreFindings
  BY DEF Init, OneOpenPerUser, ItemsAreFindings
<1> QED BY <1>1, <1>2, <1>3 DEF IInv
-----------------------------------------------------------------------------
\* What the detectors report are findings (detection/detectors).
LEMMA ReportTyped ==
  ASSUME NEW d \in Detectors, NEW abouts,
         abouts \subseteq Products \cup Rows \cup Events \cup Sources
  PROVE  Report(d, abouts) \subseteq Finding
BY DEF Report, Finding

LEMMA StillActiveTyped ==
  ASSUME NEW refunds, refunds \subseteq Events, NEW fs \in StillActive(refunds)
  PROVE  fs \subseteq Finding
<1>1. PICK abouts : abouts \subseteq refunds /\ fs = Report("unrevoked_refund", abouts)
  BY DEF StillActive
<1>2. "unrevoked_refund" \in Detectors
  BY DEF Detectors, UserDetectors
<1> QED BY <1>1, <1>2, ReportTyped

LEMMA AnswersTyped ==
  ASSUME TypeOK, NEW r \in Runs, NEW d \in Detectors, NEW fs \in Answers(r, d)
  PROVE  fs \subseteq Finding
<1>0. event[r] \in Events \cup {NoEvent} /\ silent \subseteq Sources
  BY DEF TypeOK
<1>1. CASE d = "duplicate_billing"
  <2>1. fs = DuplicateBilling
    BY <1>1 DEF Answers
  <2> QED BY <1>1, <2>1, ReportTyped DEF DuplicateBilling
<1>2. CASE d = "cross_platform_conflict"
  <2>1. fs = CrossPlatformConflict
    BY <1>2 DEF Answers
  <2> QED BY <1>2, <2>1, ReportTyped DEF CrossPlatformConflict
<1>3. CASE d = "unrevoked_refund" /\ event[r] # NoEvent
  <2>1. fs \in StillActive({f \in {event[r]} : IsRefund(f) /\ age[f] # "recent"})
    BY <1>3 DEF Answers
  <2>2. {f \in {event[r]} : IsRefund(f) /\ age[f] # "recent"} \subseteq Events
    BY <1>0, <1>3
  <2> QED BY <2>1, <2>2, StillActiveTyped
<1>4. CASE d = "unrevoked_refund" /\ event[r] = NoEvent
  <2>1. fs \in StillActive({f \in Events : fate[f] # "pending" /\ IsRefund(f) /\ age[f] = "day"})
    BY <1>4 DEF Answers
  <2> QED BY <2>1, StillActiveTyped
<1>5. CASE d = "verified_paid_no_access"
  <2>1. fs = PaidNoAccess
    BY <1>5 DEF Answers
  <2> QED BY <1>5, <2>1, ReportTyped DEF PaidNoAccess
<1>6. CASE d = "verified_access_no_payment"
  <2>1. fs = AccessNoPayment
    BY <1>6 DEF Answers
  <2> QED BY <1>6, <2>1, ReportTyped DEF AccessNoPayment
<1>7. CASE d = "webhook_delivery_gap"
  <2>1. fs = WebhookGap
    BY <1>7 DEF Answers
  <2> QED BY <1>0, <1>7, <2>1, ReportTyped DEF WebhookGap
<1> QED
  BY <1>1, <1>2, <1>3, <1>4, <1>5, <1>6, <1>7 DEF Detectors, UserDetectors, AggregateDetectors
-----------------------------------------------------------------------------
\* The table after an insert.
LEMMA Inserted ==
  ASSUME TypeOK, NEW new \in Issue, issues' = Append(issues, new)
  PROVE  /\ issues' \in Seq(Issue) /\ Len(issues) \in Nat /\ Len(issues') = Len(issues) + 1
         /\ issues'[Len(issues) + 1] = new
         /\ \A i \in 1..Len(issues) : issues'[i] = issues[i]
<1>1. issues \in Seq(Issue)
  BY DEF TypeOK
<1> HIDE DEF Issue
<1> QED BY <1>1

\* What Continue does to its run, and to no other.
LEMMA Continues ==
  ASSUME TypeOK, NEW r \in Runs, NEW fs, NEW ds, Continue(r, fs, ds)
  PROVE  /\ pc'[r] = IF fs # {} THEN "create" ELSE IF ds # {} THEN "detect" ELSE "idle"
         /\ found'[r] = fs /\ plan'[r] = ds /\ item'[r] = NoFinding
         /\ \A q \in Runs \ {r} : /\ pc'[q] = pc[q] /\ found'[q] = found[q]
                                  /\ plan'[q] = plan[q] /\ item'[q] = item[q]
BY DEF TypeOK, Continue

LEMMA ContinueTyped ==
  ASSUME TypeOK, ItemsAreFindings, NEW r \in Runs, NEW fs \in SUBSET Finding,
         NEW ds \in SUBSET Detectors, Continue(r, fs, ds)
  PROVE  /\ pc' \in [Runs -> {"idle", "detect", "create", "insert"}]
         /\ plan' \in [Runs -> SUBSET Detectors]
         /\ found' \in [Runs -> SUBSET Finding]
         /\ item' \in [Runs -> Finding \cup {NoFinding}]
         /\ event' \in [Runs -> Events \cup {NoEvent}]
         /\ ItemsAreFindings'
<1> USE DEF TypeOK, Continue
<1>1. pc' \in [Runs -> {"idle", "detect", "create", "insert"}]
  OBVIOUS
<1>2. found' \in [Runs -> SUBSET Finding] /\ plan' \in [Runs -> SUBSET Detectors]
  OBVIOUS
<1>3. item' \in [Runs -> Finding \cup {NoFinding}] /\ event' \in [Runs -> Events \cup {NoEvent}]
  OBVIOUS
<1>4. ItemsAreFindings'
  BY Continues DEF ItemsAreFindings
<1> QED BY <1>1, <1>2, <1>3, <1>4

\* A step that spends nothing, or one of what is left.
LEMMA SpendTyped ==
  ASSUME TypeOK, FaultsCount, NEW k \in {"close", "fault"}, Spend(k)
  PROVE  /\ budget' \in [{"close", "fault"} -> Nat] /\ FaultsCount'
         /\ k = "fault" => budget'["fault"] < MaxFaults
<1>1. budget[k] \in Nat /\ budget[k] > 0 /\ budget' = [budget EXCEPT ![k] = budget[k] - 1]
  BY DEF TypeOK, Spend
<1>2. budget[k] - 1 \in Nat /\ MaxFaults \in Nat
  BY <1>1, DetectionAssumption DEF DetectionAssumption
<1>3. budget'[k] = budget[k] - 1 /\ \A j \in {"close", "fault"} \ {k} : budget'[j] = budget[j]
  BY <1>1 DEF TypeOK
<1>4. budget' \in [{"close", "fault"} -> Nat]
  BY <1>1, <1>2 DEF TypeOK
<1> QED BY <1>1, <1>2, <1>3, <1>4 DEF FaultsCount
-----------------------------------------------------------------------------
\* The invariant, action by action.
LEMMA ProcessStep ==
  ASSUME IInv, NEW r \in Runs, NEW e \in Events, Process(r, e)
  PROVE  IInv'
<1> USE DEF IInv
<1>1. ent' \in [Rows -> States \cup {"none"}]
  <2> DEFINE row == RowOf(e)
             state == IF ent[row] = "none" THEN "inactive" ELSE ent[row]
  <2>1. row \in Rows /\ state \in States
    BY DEF TypeOK, RowOf, Rows, States
  <2>2. HasTransition(state, canon[e].type) => NextState(state, canon[e].type) \in States
    BY DEF HasTransition, NextState
  <2>3. \/ ent' = [ent EXCEPT ![row] = NextState(state, canon[e].type)] /\ HasTransition(state, canon[e].type)
        \/ ent' = [ent EXCEPT ![row] = state] \/ ent' = ent
    BY DEF Process
  <2> HIDE DEF row, state
  <2> QED BY <2>1, <2>2, <2>3 DEF TypeOK
<1>2. fate' \in [Events -> {"pending", "applied", "rejected", "dropped"}]
  BY DEF TypeOK, Process
<1>3. /\ plan' \in [Runs -> SUBSET Detectors] /\ event' \in [Runs -> Events \cup {NoEvent}]
      /\ pc' \in [Runs -> {"idle", "detect", "create", "insert"}] /\ ItemsAreFindings'
      /\ UNCHANGED <<canon, age, reports, silent, issues, found, item, budget>> /\ closed' = {}
  BY DEF TypeOK, Process, Start, Plan, OnEvent, Detectors, UserDetectors, ItemsAreFindings
<1>4. TypeOK'
  BY <1>1, <1>2, <1>3 DEF TypeOK
<1>5. OneOpenPerUser' /\ FaultsCount'
  BY <1>3 DEF OneOpenPerUser, FaultsCount
<1> QED BY <1>3, <1>4, <1>5

LEMMA ScanStep ==
  ASSUME IInv, NEW r \in Runs, NEW ds, ds \subseteq OnScan, Scan(r, ds)
  PROVE  IInv'
<1> USE DEF IInv
<1>1. /\ plan' \in [Runs -> SUBSET Detectors] /\ event' \in [Runs -> Events \cup {NoEvent}]
      /\ pc' \in [Runs -> {"idle", "detect", "create", "insert"}] /\ ItemsAreFindings'
      /\ UNCHANGED <<world, issues, closed, found, item, budget>>
  BY DEF TypeOK, Scan, Start, Plan, OnScan, Detectors, UserDetectors, AggregateDetectors, ItemsAreFindings
<1> QED BY <1>1 DEF TypeOK, OneOpenPerUser, FaultsCount, world

\* A run goes on and inserts nothing.
LEMMA GoesOn ==
  ASSUME IInv, NEW r \in Runs, NEW fs \in SUBSET Finding, NEW ds \in SUBSET Detectors,
         Continue(r, fs, ds), UNCHANGED <<world, issues, closed>>,
         budget' \in [{"close", "fault"} -> Nat], FaultsCount'
  PROVE  IInv'
<1>1. TypeOK' /\ ItemsAreFindings'
  BY ContinueTyped DEF IInv, TypeOK, world
<1> QED BY <1>1 DEF IInv, OneOpenPerUser

\* The index lets a row in only when no open one has its user and type.
LEMMA InsertStep ==
  ASSUME IInv, NEW r \in Runs, Insert(r)
  PROVE  IInv'
<1> DEFINE new == NewIssue(r)
           n == Len(issues)
<1>1. new \in Issue /\ new.status = "open" /\ new.type = item[r].type
  BY DEF IInv, Insert, NewIssue, ItemsAreFindings, Finding, Issue
<1>2. /\ issues' = Append(issues, new) /\ UNCHANGED <<world, closed, budget>>
      /\ Continue(r, found[r], plan[r])
      /\ new.type \in UserDetectors => ~Open(new.type)
  BY <1>1 DEF Insert
<1> HIDE DEF new
<1>3. /\ issues' \in Seq(Issue) /\ n \in Nat /\ Len(issues') = n + 1 /\ issues'[n + 1] = new
      /\ \A i \in 1..n : issues'[i] = issues[i]
  BY <1>1, <1>2, Inserted DEF IInv
<1>4. found[r] \in SUBSET Finding /\ plan[r] \in SUBSET Detectors
  BY DEF IInv, TypeOK
<1>5. TypeOK' /\ ItemsAreFindings' /\ FaultsCount'
  BY <1>2, <1>3, <1>4, ContinueTyped DEF IInv, TypeOK, FaultsCount, world
<1>6. new.type \in UserDetectors => \A i \in 1..n : ~(issues[i].type = new.type /\ issues[i].status = "open")
  BY <1>2 DEF Open
<1>7. OneOpenPerUser'
  <2> SUFFICES ASSUME NEW i \in 1..(n + 1), NEW j \in 1..(n + 1),
                      issues'[i].type = issues'[j].type, issues'[i].type \in UserDetectors,
                      issues'[i].status = "open", issues'[j].status = "open"
               PROVE  i = j
    BY <1>3 DEF OneOpenPerUser
  <2>1. CASE i \in 1..n /\ j \in 1..n
    BY <1>3, <2>1 DEF IInv, OneOpenPerUser
  <2>2. CASE i \in 1..n /\ j = n + 1
    BY <1>3, <1>6, <2>2
  <2>3. CASE i = n + 1 /\ j \in 1..n
    BY <1>3, <1>6, <2>3
  <2>4. CASE i = n + 1 /\ j = n + 1
    BY <2>4
  <2> QED BY <1>3, <2>1, <2>2, <2>3, <2>4
<1> QED BY <1>5, <1>7 DEF IInv

LEMMA RunStepKeeps ==
  ASSUME IInv, NEW r \in Runs, RunStep(r)
  PROVE  IInv'
<1>1. found[r] \in SUBSET Finding /\ plan[r] \in SUBSET Detectors
  BY DEF IInv, TypeOK
<1>2. UNCHANGED budget => budget' \in [{"close", "fault"} -> Nat] /\ FaultsCount'
  BY DEF IInv, TypeOK, FaultsCount
<1>3. CASE Detect(r)
  <2>0. PICK d \in Detectors : \E fs \in Answers(r, d) : Continue(r, fs, plan[r] \ {d})
    BY <1>3 DEF Detect
  <2>1. PICK fs \in Answers(r, d) : Continue(r, fs, plan[r] \ {d})
    BY <2>0
  <2>2. fs \in SUBSET Finding /\ plan[r] \ {d} \in SUBSET Detectors
    BY <1>1, AnswersTyped DEF IInv
  <2> QED BY <1>2, <1>3, <2>1, <2>2, GoesOn DEF Detect
<1>4. CASE SkipKnown(r)
  <2>1. PICK f \in found[r] :
          Continue(r, found[r] \ {f}, plan[r]) /\ UNCHANGED <<world, issues, closed, budget>>
    BY <1>4 DEF SkipKnown
  <2>2. found[r] \ {f} \in SUBSET Finding
    BY <1>1
  <2> QED BY <1>1, <1>2, <2>1, <2>2, GoesOn
<1>5. CASE Create(r)
  <2>1. PICK f \in found[r] : found' = [found EXCEPT ![r] = @ \ {f}] /\ item' = [item EXCEPT ![r] = f]
    BY <1>5 DEF Create
  <2>2. /\ pc' = [pc EXCEPT ![r] = "insert"]
        /\ UNCHANGED <<world, issues, closed, plan, event, budget>>
    BY <1>5 DEF Create
  <2>3. f \in Finding /\ found' \in [Runs -> SUBSET Finding]
    BY <1>1, <2>1 DEF IInv, TypeOK
  <2>4. item' \in [Runs -> Finding \cup {NoFinding}] /\ pc' \in [Runs -> {"idle", "detect", "create", "insert"}]
    BY <2>1, <2>2, <2>3 DEF IInv, TypeOK
  <2>5. ItemsAreFindings'
    BY <2>1, <2>2, <2>3 DEF IInv, TypeOK, ItemsAreFindings
  <2> QED BY <1>2, <2>2, <2>3, <2>4, <2>5 DEF IInv, TypeOK, OneOpenPerUser, world
<1>6. CASE Insert(r)
  BY <1>6, InsertStep
<1>7. CASE InsertConflict(r)
  BY <1>1, <1>2, <1>7, GoesOn DEF InsertConflict
<1> QED BY <1>3, <1>4, <1>5, <1>6, <1>7 DEF RunStep

LEMMA FaultStep ==
  ASSUME IInv, NEW r \in Runs, DetectorFails(r) \/ RunDies(r)
  PROVE  IInv' /\ budget'["fault"] < MaxFaults
<1>1. Spend("fault") /\ UNCHANGED <<world, issues, closed>>
  BY DEF DetectorFails, RunDies
<1>2. budget' \in [{"close", "fault"} -> Nat] /\ FaultsCount' /\ budget'["fault"] < MaxFaults
  BY <1>1, SpendTyped DEF IInv
<1>3. PICK ds \in SUBSET Detectors : Continue(r, {}, ds)
  BY DEF IInv, TypeOK, DetectorFails, RunDies
<1> QED BY <1>1, <1>2, <1>3, GoesOn

\* People move an issue out of "open" or between the other statuses.
LEMMA SetStatusStep ==
  ASSUME IInv, NEW i \in 1..Len(issues),
         NEW status \in {"acknowledged", "resolved", "dismissed"}, SetStatus(i, status)
  PROVE  /\ IInv' /\ Len(issues') = Len(issues)
         /\ \A j \in 1..Len(issues) : issues'[j].type = issues[j].type /\ (j # i => issues'[j] = issues[j])
<1> DEFINE new == [issues[i] EXCEPT !.status = status]
<1>1. issues' = [issues EXCEPT ![i] = new] /\ issues \in Seq(Issue)
  BY DEF IInv, TypeOK, SetStatus
<1>2. issues[i] \in Issue
  BY <1>1
<1>3. new \in Issue /\ new.type = issues[i].type /\ new.status # "open"
  BY <1>2 DEF Issue
<1>4. /\ issues' \in Seq(Issue) /\ Len(issues') = Len(issues)
      /\ \A j \in 1..Len(issues) : issues'[j] = IF j = i THEN new ELSE issues[j]
  <2> HIDE DEF new, Issue
  <2> QED BY <1>1, <1>3
<1>5. \A j \in 1..Len(issues) :
        /\ issues'[j].type = issues[j].type
        /\ issues'[j].status = "open" => issues[j].status = "open"
  <2> HIDE DEF new
  <2> QED BY <1>3, <1>4
<1>6. OneOpenPerUser'
  BY <1>4, <1>5 DEF IInv, OneOpenPerUser
<1>7. closed' \subseteq Detectors
  BY <1>2 DEF IInv, TypeOK, SetStatus, Issue
<1>8. budget' \in [{"close", "fault"} -> Nat] /\ FaultsCount'
  BY SpendTyped DEF IInv, SetStatus
<1>9. TypeOK' /\ ItemsAreFindings'
  BY <1>4, <1>7, <1>8 DEF IInv, TypeOK, SetStatus, world, run, ItemsAreFindings
<1> QED BY <1>4, <1>5, <1>6, <1>8, <1>9 DEF IInv

\* What happens around the engine.
AroundIt == \/ \E e \in Events : GrowOld(e)
            \/ \E has \in BOOLEAN : ReportAccess(has)
            \/ \E s \in Sources : Gap(s)

LEMMA AroundStep ==
  ASSUME IInv, AroundIt
  PROVE  IInv' /\ UNCHANGED <<ent, issues, closed, run, budget>>
<1>1. UNCHANGED <<canon, ent, fate, issues, closed, run, budget>>
  BY DEF AroundIt, GrowOld, ReportAccess, Gap
<1>2. age' \in [Events -> {"recent", "hour", "day"}] /\ reports' \in Seq(BOOLEAN) /\ silent' \subseteq Sources
  <2>1. ASSUME NEW e \in Events, GrowOld(e) PROVE age' \in [Events -> {"recent", "hour", "day"}] /\ UNCHANGED <<reports, silent>>
    BY <2>1 DEF GrowOld, IInv, TypeOK
  <2>2. ASSUME NEW has \in BOOLEAN, ReportAccess(has) PROVE reports' \in Seq(BOOLEAN) /\ UNCHANGED <<age, silent>>
    BY <2>2 DEF ReportAccess, IInv, TypeOK
  <2>3. ASSUME NEW s \in Sources, Gap(s) PROVE silent' \subseteq Sources /\ UNCHANGED <<age, reports>>
    BY <2>3 DEF Gap, IInv, TypeOK
  <2> QED BY <2>1, <2>2, <2>3 DEF AroundIt, IInv, TypeOK
<1> QED BY <1>1, <1>2 DEF IInv, TypeOK, ItemsAreFindings, FaultsCount, OneOpenPerUser, run

LEMMA EveryStep ==
  ASSUME IInv, [Next]_vars
  PROVE  IInv'
<1>1. CASE UNCHANGED vars
  BY <1>1 DEF vars, IInv, TypeOK, ItemsAreFindings, FaultsCount, OneOpenPerUser
<1>2. ASSUME NEW r \in Runs, NEW e \in Events, Process(r, e) PROVE IInv'
  BY <1>2, ProcessStep
<1>3. ASSUME NEW r \in Runs, ScanAll(r) \/ \E d \in OnScan : ScanOne(r, d) PROVE IInv'
  BY <1>3, ScanStep DEF ScanAll, ScanOne
<1>4. ASSUME NEW r \in Runs, RunStep(r) PROVE IInv'
  BY <1>4, RunStepKeeps
<1>5. ASSUME NEW r \in Runs, DetectorFails(r) \/ RunDies(r) PROVE IInv'
  BY <1>5, FaultStep
<1>6. ASSUME NEW i \in 1..Len(issues),
             NEW status \in {"acknowledged", "resolved", "dismissed"}, SetStatus(i, status)
      PROVE  IInv'
  BY <1>6, SetStatusStep
<1>7. ASSUME AroundIt PROVE IInv'
  BY <1>7, AroundStep
<1> QED BY <1>1, <1>2, <1>3, <1>4, <1>5, <1>6, <1>7 DEF Next, AroundIt
-----------------------------------------------------------------------------
\* What is seen depends on the rows only.
LEMMA SeesTheRows ==
  ASSUME UNCHANGED ent, NEW d
  PROVE  Sees(d)' <=> Sees(d)
BY DEF Sees, DuplicateBilling, CrossPlatformConflict, BilledTwice, Conflicting, HasAccess

LEMMA OpenStays ==
  ASSUME IInv, NEW r \in Runs, Insert(r), NEW d, IsOpen(d) \/ item[r].type = d
  PROVE  IsOpen(d)'
<1> DEFINE new == NewIssue(r)
<1>1. new \in Issue /\ new.status = "open" /\ new.type = item[r].type /\ issues' = Append(issues, new)
  BY DEF IInv, Insert, NewIssue, ItemsAreFindings, Finding, Issue
<1> HIDE DEF new
<1>2. /\ Len(issues) \in Nat /\ Len(issues') = Len(issues) + 1 /\ issues'[Len(issues) + 1] = new
      /\ \A i \in 1..Len(issues) : issues'[i] = issues[i]
  BY <1>1, Inserted DEF IInv
<1>3. CASE item[r].type = d
  <2>1. Len(issues) + 1 \in 1..Len(issues')
    BY <1>2
  <2> QED BY <1>1, <1>2, <1>3, <2>1 DEF IsOpen
<1>4. CASE IsOpen(d)
  <2>1. PICK i \in 1..Len(issues) : issues[i].type = d /\ issues[i].status = "open"
    BY <1>4 DEF IsOpen
  <2>2. i \in 1..Len(issues') /\ issues'[i].type = d /\ issues'[i].status = "open"
    BY <1>2, <2>1
  <2> QED BY <2>2 DEF IsOpen
<1> QED BY <1>3, <1>4

\* Whichever step a run makes, it forgets of what it has seen only what is in
\* the table by then.
LEMMA RunTells ==
  ASSUME IInv, NEW r \in Runs, RunStep(r), NEW d \in CrossSource, Sees(d),
         Flagged(d) \/ \E q \in Runs : WillTell(q, d)
  PROVE  UNCHANGED <<ent, budget>> /\ (Flagged(d)' \/ \E q \in Runs : WillTell(q, d)')
<1>1. UNCHANGED <<ent, budget, closed>>
  BY DEF RunStep, Detect, SkipKnown, Create, Insert, InsertConflict, world
<1>2. Flagged(d) => Flagged(d)'
  BY <1>1, OpenStays
  DEF RunStep, Detect, SkipKnown, Create, InsertConflict, Flagged, IsOpen
<1>3. \A q \in Runs \ {r} : WillTell(q, d) => WillTell(q, d)'
  <2>1. \A q \in Runs \ {r} : /\ pc'[q] = pc[q] /\ found'[q] = found[q]
                              /\ plan'[q] = plan[q] /\ item'[q] = item[q]
    <3>1. ASSUME NEW fs, NEW ds, Continue(r, fs, ds) PROVE <2>1
      BY <3>1, Continues DEF IInv
    <3>2. CASE Create(r)
      BY <3>2 DEF Create, IInv, TypeOK
    <3> QED BY <3>1, <3>2 DEF RunStep, Detect, SkipKnown, Insert, InsertConflict
  <2> QED BY <2>1 DEF WillTell
<1>4. d \in Detectors /\ d \in UserDetectors
  BY DEF CrossSource, Detectors, UserDetectors
<1>5. ASSUME WillTell(r, d) PROVE Flagged(d)' \/ WillTell(r, d)'
  <2>1. CASE Detect(r)
    <3>0. PICK x \in Detectors : \E fs \in Answers(r, x) : Continue(r, fs, plan[r] \ {x})
      BY <2>1 DEF Detect
    <3>1. PICK fs \in Answers(r, x) : Continue(r, fs, plan[r] \ {x})
      BY <3>0
    <3>2. pc[r] = "detect" /\ d \in plan[r]
      BY <1>5, <2>1 DEF Detect, WillTell
    <3>3. /\ pc'[r] = IF fs # {} THEN "create" ELSE IF plan[r] \ {x} # {} THEN "detect" ELSE "idle"
          /\ found'[r] = fs /\ plan'[r] = plan[r] \ {x}
      BY <3>1, Continues DEF IInv
    <3>4. CASE x # d
      BY <3>2, <3>3, <3>4 DEF WillTell
    <3>5. CASE x = d
      <4>1. fs = IF d = "duplicate_billing" THEN DuplicateBilling ELSE CrossPlatformConflict
        BY <3>5 DEF CrossSource, Answers
      <4>2. fs # {} /\ \A f \in fs : f.type = d
        BY <4>1 DEF Sees, DuplicateBilling, CrossPlatformConflict, Report, CrossSource
      <4> QED BY <3>3, <4>2 DEF WillTell
    <3> QED BY <3>4, <3>5
  <2>2. CASE SkipKnown(r)
    <3>1. PICK f \in found[r] : Open(f.type) /\ Continue(r, found[r] \ {f}, plan[r])
      BY <2>2 DEF SkipKnown
    <3>2. /\ pc'[r] = IF found[r] \ {f} # {} THEN "create" ELSE IF plan[r] # {} THEN "detect" ELSE "idle"
          /\ found'[r] = found[r] \ {f} /\ plan'[r] = plan[r]
      BY <3>1, Continues DEF IInv
    <3>3. pc[r] = "create" /\ UNCHANGED issues
      BY <2>2 DEF SkipKnown
    <3>4. CASE f.type = d
      BY <3>1, <3>3, <3>4 DEF Open, IsOpen, Flagged
    <3>5. CASE f.type # d
      BY <1>5, <3>2, <3>3, <3>5 DEF WillTell
    <3> QED BY <3>4, <3>5
  <2>3. CASE Create(r)
    <3>1. PICK f \in found[r] : found' = [found EXCEPT ![r] = @ \ {f}] /\ item' = [item EXCEPT ![r] = f]
      BY <2>3 DEF Create
    <3>2. pc[r] = "create" /\ pc'[r] = "insert" /\ found'[r] = found[r] \ {f} /\ item'[r] = f /\ plan' = plan
      BY <2>3, <3>1 DEF Create, IInv, TypeOK
    <3> QED BY <1>5, <3>2 DEF WillTell
  <2>4. CASE Insert(r) \/ InsertConflict(r)
    <3>1. pc[r] = "insert" /\ Continue(r, found[r], plan[r])
      BY <2>4 DEF Insert, InsertConflict
    <3>2. /\ pc'[r] = IF found[r] # {} THEN "create" ELSE IF plan[r] # {} THEN "detect" ELSE "idle"
          /\ found'[r] = found[r] /\ plan'[r] = plan[r]
      BY <3>1, Continues DEF IInv
    <3>3. item[r].type = d => Flagged(d)'
      BY <2>4, OpenStays DEF InsertConflict, Open, IsOpen, Flagged
    <3> QED BY <1>5, <3>1, <3>2, <3>3 DEF WillTell
  <2> QED BY <2>1, <2>2, <2>3, <2>4 DEF RunStep
<1> QED BY <1>1, <1>2, <1>3, <1>5

\* Every step keeps track of what contradicts.
LEMMA SlipStep ==
  ASSUME IInv, IInv', CrossSource \subseteq Watched, NothingSlips, [Next]_vars
  PROVE  NothingSlips'
<1> DEFINE Told(d) == Flagged(d) \/ \E r \in Runs : WillTell(r, d)
<1> SUFFICES ASSUME budget'["fault"] = MaxFaults, NEW d \in CrossSource, Sees(d)'
             PROVE  Told(d)'
  BY DEF NothingSlips
<1>1. budget["fault"] = MaxFaults /\ Sees(d) => Told(d)
  BY DEF NothingSlips
<1> HIDE DEF NothingSlips
<1>2. ASSUME NEW r \in Runs, NEW e \in Events, Process(r, e) PROVE Told(d)'
  <2>1. d \in Plan(OnEvent)
    BY DEF Plan, OnEvent, CrossSource
  <2>2. Start(r, e, OnEvent)
    BY <1>2 DEF Process
  <2>3. plan'[r] = Plan(OnEvent) /\ pc'[r] = "detect"
    BY <2>1, <2>2 DEF Start, IInv, TypeOK
  <2> QED BY <2>1, <2>3 DEF WillTell
<1>3. ASSUME UNCHANGED <<ent, issues, closed, budget>>,
             \A r \in Runs : WillTell(r, d) => WillTell(r, d)'
      PROVE  Told(d)'
  BY <1>1, <1>3, SeesTheRows DEF Flagged, IsOpen
<1>4. ASSUME NEW r \in Runs, NEW ds, Scan(r, ds) PROVE Told(d)'
  <2>1. /\ pc[r] = "idle" /\ UNCHANGED <<ent, issues, closed, budget>>
        /\ \A q \in Runs \ {r} : /\ pc'[q] = pc[q] /\ found'[q] = found[q]
                                 /\ plan'[q] = plan[q] /\ item'[q] = item[q]
    BY <1>4 DEF Scan, Start, world, IInv, TypeOK, ItemsAreFindings
  <2>2. item' = item
    BY <1>4 DEF Scan, Start
  <2> QED BY <1>3, <2>1, <2>2 DEF WillTell
<1>5. ASSUME NEW r \in Runs, RunStep(r) PROVE Told(d)'
  <2>1. UNCHANGED <<ent, budget>>
    BY <1>5 DEF RunStep, Detect, SkipKnown, Create, Insert, InsertConflict, world
  <2>2. Sees(d) /\ Told(d)
    BY <1>1, <2>1, SeesTheRows
  <2> QED BY <1>5, <2>2, RunTells
<1>6. ASSUME NEW r \in Runs, DetectorFails(r) \/ RunDies(r) PROVE Told(d)'
  <2>1. budget'["fault"] < MaxFaults
    BY <1>6, FaultStep
  <2> QED BY <2>1, DetectionAssumption DEF DetectionAssumption
<1>7. ASSUME NEW i \in 1..Len(issues),
             NEW status \in {"acknowledged", "resolved", "dismissed"}, SetStatus(i, status)
      PROVE  Told(d)'
  <2>1. /\ UNCHANGED <<ent, pc, plan, found, item>> /\ closed' = closed \cup {issues[i].type}
        /\ Spend("close")
    BY <1>7 DEF SetStatus, world, run
  <2>2. budget'["fault"] = budget["fault"]
    BY <2>1 DEF Spend, IInv, TypeOK
  <2>3. Told(d)
    BY <1>1, <2>1, <2>2, SeesTheRows
  <2>4. ASSUME IsOpen(d) PROVE Flagged(d)'
    <3>1. PICK j \in 1..Len(issues) : issues[j].type = d /\ issues[j].status = "open"
      BY <2>4 DEF IsOpen
    <3>2. CASE j = i
      BY <2>1, <3>1, <3>2 DEF Flagged
    <3>3. CASE j # i
      BY <1>7, <3>1, <3>3, SetStatusStep DEF Flagged, IsOpen
    <3> QED BY <3>2, <3>3
  <2>5. (\E r \in Runs : WillTell(r, d)) => \E r \in Runs : WillTell(r, d)'
    BY <2>1 DEF WillTell
  <2>6. d \in closed => Flagged(d)'
    BY <2>1 DEF Flagged
  <2> QED BY <2>3, <2>4, <2>5, <2>6 DEF Flagged
<1>8. ASSUME AroundIt \/ UNCHANGED vars PROVE Told(d)'
  <2>1. UNCHANGED <<ent, issues, closed, run, budget>>
    BY <1>8, AroundStep DEF vars, run
  <2> QED BY <1>3, <2>1 DEF run, WillTell
<1> QED BY <1>2, <1>4, <1>5, <1>6, <1>7, <1>8 DEF Next, AroundIt, ScanOne, ScanAll
-----------------------------------------------------------------------------
\* Every reachable state is well typed; in particular what detectors report are
\* findings about something of the user (detection/detectors).
THEOREM DetectionInvariant == Spec => []IInv
<1>1. Init => IInv
  BY InitInvariant
<1>2. IInv /\ [Next]_vars => IInv'
  BY EveryStep
<1> QED BY <1>1, <1>2, PTL DEF Spec

\* A user has at most one open issue of each type (detection/engine.ts:120-141,
\* 177-184).
THEOREM OneOpenIssuePerUser == Spec => []OneOpenPerUser
<1>1. IInv => OneOpenPerUser
  BY DEF IInv
<1> QED BY <1>1, DetectionInvariant, PTL

\* With both comparing detectors registered (detection/engine.ts:40-57), and as
\* long as no run fails: when nothing runs, a user who is billed twice, or whose
\* sources contradict each other, has an open issue that says so, or somebody
\* closed it since the last event; in whatever order the events were settled and
\* the runs read, skipped and inserted.
THEOREM ContradictionsAreFlagged ==
  ASSUME CrossSource \subseteq Watched
  PROVE  Spec => []CrossSourceIsFlagged
<1>1. Init => NothingSlips
  <2> SUFFICES ASSUME Init, NEW d \in CrossSource PROVE ~Sees(d)
    BY DEF NothingSlips
  <2>1. \A row \in Rows : ~HasAccess(row)
    BY DEF Init, HasAccess, AccessStates
  <2> QED
    BY <2>1 DEF Sees, DuplicateBilling, CrossPlatformConflict, BilledTwice, Conflicting, Report, Rows
<1>2. IInv /\ IInv' /\ NothingSlips /\ [Next]_vars => NothingSlips'
  BY SlipStep
<1>3. IInv /\ NothingSlips => CrossSourceIsFlagged
  <2> SUFFICES ASSUME NothingSlips, Quiet, budget.fault = MaxFaults,
                      NEW d \in CrossSource, Sees(d)
               PROVE  Flagged(d)
    BY DEF CrossSourceIsFlagged, CrossSource, Sees
  <2>1. \A r \in Runs : ~WillTell(r, d)
    BY DEF Quiet, WillTell
  <2> QED BY <2>1 DEF NothingSlips
<1> QED BY <1>1, <1>2, <1>3, DetectionInvariant, PTL DEF Spec
=============================================================================
