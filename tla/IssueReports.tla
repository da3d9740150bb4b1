---------------------------- MODULE IssueReports ----------------------------
(***************************************************************************)
(* What is read off the issues of an organization: the incidents they are  *)
(* grouped into (agents/grouper.ts) and the report on a period, which is   *)
(* compared with the one before (agents/insights.ts).                      *)
(*                                                                         *)
(* The numbers of a report come from queries of their own, and issues are  *)
(* detected and closed between any two of them.  Issues are numbered in    *)
(* the order they are detected; those of a user whose data is erased are   *)
(* gone (api/data-management.ts).  What a report says of billing events is *)
(* left out: it moves nothing in the model.                                *)
(***************************************************************************)
EXTENDS Integers, Sequences, FiniteSets, FiniteSetsExt

CONSTANTS
  typeOf, severityOf, userOf, centsOf,  \* of issue 1, 2, ...
  NoUser, NoReport,                     \* an issue of a whole connection; nothing just answered
  Window, MinCluster, Horizon,          \* gap within an incident, its least size, how far back
  AiSize, AiTitles,                     \* an incident of 5 issues is shown to Claude; bound: its insights
  Period,                               \* length of a period
  SomeCents, SomeUsers, Few,            \* limits: 1000 and 10 times as much, 3 users, 5 issues
  MaxNow, MaxMoves, MaxReports          \* bounds

\* What the parameters have to be.
Parameters ==
  /\ \A domain \in {DOMAIN severityOf, DOMAIN userOf, DOMAIN centsOf} : domain = DOMAIN typeOf
  /\ {Window, MinCluster, Horizon, AiSize, Period, SomeCents, SomeUsers, Few,
      MaxNow, MaxMoves, MaxReports} \subseteq Nat
  /\ IsFiniteSet(DOMAIN typeOf)
  /\ \A i \in DOMAIN typeOf : centsOf[i] \in Nat

VARIABLES
  now,
  status,      \* of every issue, "none" before it is detected, "erased" with its user
  created, updated,
  metrics,     \* the report being made: when its period began and the answers so far
  truth,       \* history: what there was when the report was begun
  report,      \* the response just given: insights, or NoReport
  moves, reports

vars == <<now, status, created, updated, metrics, truth, report, moves, reports>>

Issues == DOMAIN typeOf
Live == {"open", "acknowledged"}
Closed == {"resolved", "dismissed"}
Types == {typeOf[i] : i \in Issues}
Severities == {"info", "warning", "critical"}
Level == [info |-> 1, warning |-> 2, critical |-> 3]
\* The queries, in their order.
Queries == <<"total", "critical", "resolved", "revenue", "byType", "prevTotal", "prevCritical">>
Rules == {"increased", "decreased", "spike", "revenue", "resolution", "dominant"}
Insight == [title : Rules, category : {"trend", "anomaly", "recommendation"}, severity : Severities,
            by : {"rules", "Claude"}]
Undone == [start |-> 0, asked |-> 0]
Nothing == [spike |-> FALSE, fewer |-> FALSE]

TypeOK ==
  /\ now \in 0..MaxNow
  /\ status \in [Issues -> {"none", "erased"} \cup Live \cup Closed]
  /\ created \in [Issues -> 0..MaxNow] /\ updated \in [Issues -> 0..MaxNow]
  /\ metrics.asked \in 0..Len(Queries) /\ (report = NoReport \/ report \subseteq Insight)
  /\ moves \in Nat /\ reports \in Nat

Init ==
  /\ now = 0
  /\ status = [i \in Issues |-> "none"]
  /\ created = [i \in Issues |-> 0] /\ updated = created
  /\ metrics = Undone /\ truth = Nothing /\ report = NoReport
  /\ moves = 0 /\ reports = 0
-----------------------------------------------------------------------------
(***************************************************************************)
(* Incidents.                                                              *)
(***************************************************************************)
Detected == {i \in Issues : status[i] \notin {"none", "erased"}}
Candidates == {i \in Detected : status[i] \in Live /\ created[i] >= now - Horizon}

\* Mutant: the issues are taken as the query returns them, newest first.
Begins_NewestFirst(ids, i) == \A j \in ids : created[j] <= created[i] \/ created[j] > created[i] + Window

\* A cluster begins with issue i: nothing in the window before.
Begins(ids, i) == \A j \in ids : created[j] >= created[i] \/ created[j] < created[i] - Window

\* findTemporalClusters: each goes on to where the next one begins.
Clusters(ids) ==
  LET starts == {created[i] : i \in {j \in ids : Begins(ids, j)}} IN
  {[start |-> s, issues |-> {i \in ids : /\ created[i] >= s
                                         /\ \A t \in starts : t > s => created[i] < t}] :
     s \in starts}

Cents(ids) == MapThenSumSet(LAMBDA i : centsOf[i], ids)
Users(ids) == Cardinality({userOf[i] : i \in ids} \ {NoUser})

SeverityOf(ids) ==
  IF Cents(ids) > 10 * SomeCents \/ Users(ids) > 3 * SomeUsers + 1 THEN "critical"
  ELSE IF Cents(ids) > SomeCents \/ Users(ids) > SomeUsers THEN "warning" ELSE "info"

\* What a severity may be: for a large incident it is what Claude says, if it answers.
SeveritiesOf(ids) == IF Cardinality(ids) >= AiSize THEN Severities ELSE {SeverityOf(ids)}

\* findIncidentClusters: an incident is named after its type and its first issue.
IncidentsOf(type) ==
  {[type |-> type, start |-> c.start, issues |-> c.issues, severities |-> SeveritiesOf(c.issues)] :
     c \in {d \in Clusters({i \in Candidates : typeOf[i] = type}) : Cardinality(d.issues) >= MinCluster}}
Incidents == UNION {IncidentsOf(type) : type \in Types}
-----------------------------------------------------------------------------
(***************************************************************************)
(* Reports.                                                                *)
(***************************************************************************)
Since(start) == {i \in Detected : created[i] >= start}

\* Mutant: the period before has no end.
Before_Open(start) == {i \in Detected : created[i] >= start - Period}

Before(start) == {i \in Detected : created[i] >= start - Period /\ created[i] < start}

Critical(ids) == {i \in ids : severityOf[i] = "critical"}

\* gatherMetrics
Answer(q, start) ==
  CASE q = "total" -> Cardinality(Since(start))
    [] q = "critical" -> Cardinality(Critical(Since(start)))
    [] q = "resolved" -> Cardinality({i \in Detected : status[i] = "resolved" /\ updated[i] >= start})
    [] q = "revenue" -> Cents({i \in Since(start) : status[i] = "open"})
    [] q = "byType" -> Max({Cardinality({i \in Since(start) : typeOf[i] = t}) : t \in Types})
    [] q = "prevTotal" -> Cardinality(Before(start))
    [] q = "prevCritical" -> Cardinality(Critical(Before(start)))

\* generateRuleBasedInsights: changes in per cent of the period before.
Volume(m) ==
  LET change == 100 * (m["total"] - m["prevTotal"]) p == m["prevTotal"] IN
  IF p = 0 \/ (change < 20 * p /\ change > -20 * p) THEN {}
  ELSE {[title |-> IF change > 0 THEN "increased" ELSE "decreased",
         category |-> IF change > 50 * p THEN "anomaly" ELSE "trend",
         severity |-> IF change > 100 * p THEN "critical" ELSE IF change > 50 * p THEN "warning" ELSE "info",
         by |-> "rules"]}

Spike(m) ==
  IF m["critical"] = 0 \/ m["critical"] <= 2 * m["prevCritical"] THEN {}
  ELSE {[title |-> "spike", category |-> "anomaly", severity |-> "critical", by |-> "rules"]}

AtRisk(m) ==
  IF m["revenue"] <= 10 * SomeCents THEN {}
  ELSE {[title |-> "revenue", category |-> "trend",
         severity |-> IF m["revenue"] > 100 * SomeCents THEN "critical" ELSE "warning", by |-> "rules"]}

Resolution(m) ==
  IF m["total"] <= Few \/ 100 * m["resolved"] >= 30 * m["total"] THEN {}
  ELSE {[title |-> "resolution", category |-> "recommendation", severity |-> "warning", by |-> "rules"]}

Dominant(m) ==
  IF m["byType"] < Few \/ 2 * m["byType"] <= m["total"] THEN {}
  ELSE {[title |-> "dominant", category |-> "recommendation",
         severity |-> IF m["byType"] > 4 * Few THEN "warning" ELSE "info", by |-> "rules"]}

RuleBased(m) == Volume(m) \cup Spike(m) \cup AtRisk(m) \cup Resolution(m) \cup Dominant(m)

\* deduplicateInsights: of two with one category and title the first stays, and
\* Claude's come first.
Merged(ai, rules) ==
  ai \cup {r \in rules : \A a \in ai : a.category # r.category \/ a.title # r.title}
-----------------------------------------------------------------------------
Move == moves < MaxMoves /\ moves' = moves + 1
Answered == report' = NoReport /\ truth' = IF metrics = Undone THEN Nothing ELSE truth
Reading == Answered /\ UNCHANGED <<metrics, reports>>

Tick ==
  /\ now < MaxNow /\ now' = now + 1
  /\ Reading /\ UNCHANGED <<status, created, updated, moves>>

Detect(i) ==
  /\ status[i] = "none" /\ \A j \in 1..(i - 1) : status[j] # "none"
  /\ status' = [status EXCEPT ![i] = "open"]
  /\ created' = [created EXCEPT ![i] = now] /\ updated' = [updated EXCEPT ![i] = now]
  /\ Reading /\ UNCHANGED <<now, moves>>

SpikeSince(start) ==
  LET c == Answer("critical", start) IN c > 0 /\ c > 2 * Answer("prevCritical", start)

\* The issues of a user are erased, and no more of them are detected.  What is
\* erased before a report has counted the critical issues is no spike of its.
Erase(u) ==
  /\ Move /\ u # NoUser
  /\ status' = [i \in Issues |-> IF userOf[i] = u THEN "erased" ELSE status[i]]
  /\ UNCHANGED <<now, created, updated, metrics, reports>>
  /\ report' = NoReport
  /\ truth' = IF metrics.asked = 1
              THEN [spike |-> truth.spike /\ SpikeSince(metrics.start)', fewer |-> truth.fewer]
              ELSE IF metrics = Undone THEN Nothing ELSE truth

\* Acknowledged, resolved or dismissed, whatever it was before.
Handle(i, s) ==
  /\ Move /\ i \in Detected
  /\ status' = [status EXCEPT ![i] = s] /\ updated' = [updated EXCEPT ![i] = now]
  /\ Reading /\ UNCHANGED <<now, created>>

\* generateInsights fixes the periods ...
BeginReport ==
  /\ metrics = Undone /\ reports < MaxReports
  /\ reports' = reports + 1
  /\ metrics' = [start |-> now - Period, asked |-> 1, total |-> Answer("total", now - Period)]
  /\ truth' = [spike |-> SpikeSince(now - Period),
               fewer |-> Answer("total", now - Period) < Answer("prevTotal", now - Period)]
  /\ report' = NoReport /\ UNCHANGED <<now, status, created, updated, moves>>

\* ... asks one question after the other ...
Ask ==
  /\ metrics.asked \in 1..(Len(Queries) - 1)
  /\ LET q == Queries[metrics.asked + 1] IN
       metrics' = [f \in DOMAIN metrics \cup {q} |->
                     IF f = q THEN Answer(q, metrics.start)
                     ELSE IF f = "asked" THEN metrics.asked + 1 ELSE metrics[f]]
  /\ UNCHANGED <<now, status, created, updated, truth, report, moves, reports>>

\* What Claude says, if it answers with insights; one of its own is enough to
\* hide one of the rules'.
AiInsights == {{}} \cup {{a} : a \in {n \in Insight : n.title \in AiTitles /\ n.by = "Claude" /\ n.severity = "info"}}

\* ... and adds what Claude says.
EndReport ==
  /\ metrics.asked = Len(Queries)
  /\ \E ai \in AiInsights : report' = Merged(ai, RuleBased(metrics))
  /\ metrics' = Undone
  /\ UNCHANGED <<now, status, created, updated, truth, moves, reports>>

Next ==
  \/ Tick \/ BeginReport \/ Ask \/ EndReport
  \/ \E u \in {userOf[i] : i \in Issues} : Erase(u)
  \/ \E i \in Issues : Detect(i) \/ \E s \in Closed \cup {"acknowledged"} : Handle(i, s)

Spec == Init /\ [][Next]_vars
-----------------------------------------------------------------------------
\* While no live issue is closed, erased or too old and no other is taken up
\* again, an incident keeps its name and its issues, whatever is detected: who
\* looks at it finds it again.  It gets no less severe either, as long as it is
\* too small for Claude to be asked.  When its first issue goes, so does its name
\* (grouper.ts:105-132, 163-177, 199-223).
IncidentKeepsItsName ==
  [][Candidates \subseteq Candidates' /\ Candidates' \cap Detected \subseteq Candidates
     => \A n \in Incidents : \E m \in Incidents' :
          /\ m.type = n.type /\ m.start = n.start /\ n.issues \subseteq m.issues
          /\ Cardinality(m.issues) < AiSize =>
               \A s \in n.severities, t \in m.severities : Level[t] >= Level[s]]_<<now, status>>

\* A report names a spike of critical issues that was there when it was begun,
\* unless an erasure made an end of it before they were counted; and its rules
\* speak of a decrease only where there was one, whatever is detected, closed or
\* erased between its queries.  What Claude says of a decrease is its own
\* (insights.ts:73-91, 378-418, 546-560).
ReportIsSound ==
  report # NoReport =>
    /\ truth.spike => \E n \in report : n.title = "spike"
    /\ truth.fewer \/ \A n \in report : n.title = "decreased" => n.by = "Claude"
-----------------------------------------------------------------------------
\* The inductive invariant behind it: until the critical issues are counted there
\* are no less of them, the period before is over and only loses issues; the
\* answers so far say the same.
Spiked(critical, prevCritical) == critical > 0 /\ critical > 2 * prevCritical
CountsHold ==
  metrics.asked >= 1 =>
    LET s == metrics.start
        before == Cardinality(Before(s))
        criticalBefore == Cardinality(Critical(Before(s))) IN
    /\ s \in Int /\ s <= now /\ report = NoReport
    /\ {"start", "asked", "total"} \subseteq DOMAIN metrics /\ metrics["total"] \in Nat
    /\ truth.fewer \/ metrics["total"] >= before
    /\ metrics.asked = 1 /\ truth.spike => Spiked(Cardinality(Critical(Since(s))), criticalBefore)
    /\ metrics.asked >= 2 => /\ "critical" \in DOMAIN metrics /\ metrics["critical"] \in Nat
                             /\ truth.spike => Spiked(metrics["critical"], criticalBefore)
    /\ metrics.asked >= 6 => /\ "prevTotal" \in DOMAIN metrics /\ metrics["prevTotal"] \in Nat
                             /\ truth.fewer \/ metrics["total"] >= metrics["prevTotal"]
    /\ metrics.asked = 7 => /\ "prevCritical" \in DOMAIN metrics /\ metrics["prevCritical"] \in Nat
                            /\ truth.spike => Spiked(metrics["critical"], metrics["prevCritical"])

IInv == TypeOK /\ CountsHold /\ ReportIsSound
=============================================================================
