-------------------------- MODULE Casework_proofs --------------------------
(***************************************************************************)
(* Proofs about Casework, for any number of investigations, requests,      *)
(* failed queries and milliseconds.                                        *)
(***************************************************************************)
EXTENDS Casework, Integers, TLAPS

Jobs == {"none", "waiting", "active", "completed", "failed"}

LEMMA FinishTyped ==
  ASSUME TypeOK, NEW c \in Calls, NEW result \in Jobs \cup {"answered"},
         call[c].by = "job" => result # "answered", Finish(c, result)
  PROVE  call' = [call EXCEPT ![c] = Idle] /\ job' \in Jobs
  BY DEF Finish, Enqueue, TypeOK, Jobs

LEMMA IdleIsIdle == Idle \notin Investigations /\ Idle \notin Reviews /\ Idle.at = "idle"
  BY DEF Idle, Investigations, Reviews

\* An investigation that is not idle has a record of what it has read.
LEMMA UnderWay ==
  ASSUME TypeOK, NEW c \in Calls
  PROVE  call[c].at # "idle" <=> call[c] \in Investigations
  BY IdleIsIdle DEF TypeOK, Investigations

LEMMA ReviewUnderWay ==
  ASSUME TypeOK
  PROVE  review.at # "idle" <=> review \in Reviews
  BY IdleIsIdle DEF TypeOK, Reviews

\* The issue an investigation writes back ...
LEMMA CachedIssue ==
  ASSUME TypeOK, NEW c \in Calls, call[c] \in Investigations
  PROVE  /\ Cache(c) \in Issues /\ Answer(c) \in Answers
         /\ Cache(c).status = issue.status /\ Cache(c).updated = clock
         /\ Cache(c).verdict = call[c].saw.verdict /\ Cache(c).ai = Answer(c)
         /\ Answer(c).at = call[c].stamp
         /\ Answer(c).on = <<call[c].saw.status, call[c].saw.verdict>>
  <1>1. /\ call[c].stamp \in Nat /\ call[c].saw.status \in Statuses
        /\ call[c].saw.verdict \in Verdicts
    BY DEF Investigations
  <1>2. Answer(c) \in Answers
    BY <1>1 DEF Answer, Answers
  <1>3. PICK a \in Answers : a = Answer(c)
    BY <1>2
  <1>4. Cache(c) = [issue EXCEPT !.verdict = call[c].saw.verdict, !.ai = a, !.updated = clock]
    BY <1>3 DEF Cache
  <1>5. /\ Cache(c) \in Issues
        /\ Cache(c).status = issue.status /\ Cache(c).updated = clock
        /\ Cache(c).verdict = call[c].saw.verdict /\ Cache(c).ai = a
    BY <1>1, <1>4 DEF TypeOK, Issues
  <1>6. QED
    BY <1>2, <1>3, <1>5 DEF Answer

\* ... and the one a status call leaves.
LEMMA StatusSet ==
  ASSUME TypeOK, NEW s \in Statuses, SetStatus(s)
  PROVE  /\ issue' \in Issues
         /\ issue'.status = s /\ issue'.updated = clock
         /\ issue'.verdict = issue.verdict /\ issue'.ai = issue.ai
  BY DEF SetStatus, TypeOK, Issues

LEMMA NewIssueTyped ==
  ASSUME TypeOK
  PROVE  NewIssue \in Issues
  BY DEF NewIssue, NoAnswer, Issues, Answers, Statuses, Verdicts, TypeOK

LEMMA OrderOfTables ==
  \A i \in 1..5 : Order[i] \in Tables \ {"user", "log"} /\ (Order[i] = "issue" <=> i = 2)
  BY DEF Order, Tables

LEMMA TypeOKStep ==
  ASSUME TypeOK, ErasureAgrees, [Next]_vars
  PROVE  TypeOK'
  <1> USE DEF assistant, data, people
  <1>0. CASE Tick
    BY <1>0 DEF Tick, TypeOK
  <1>1. CASE ADayLater
    <2>1. [issue.ai EXCEPT !.recent = FALSE] \in Answers
      BY DEF TypeOK, Issues, Answers
    <2>2. issue' = [issue EXCEPT !.ai = [issue.ai EXCEPT !.recent = FALSE]]
      BY <1>1 DEF ADayLater
    <2>3. issue' \in Issues
      BY <2>1, <2>2 DEF TypeOK, Issues
    <2>4. QED
      BY <1>1, <2>3 DEF ADayLater, TypeOK
  <1>2. ASSUME NEW c \in Calls, NEW by \in {"api", "slack", "job"}, Begin(c, by)
        PROVE  call' \in [Calls -> Investigations \cup {Idle}]
    <2>1. [verdict |-> issue.verdict, ai |-> issue.ai, status |-> issue.status] \in
            [verdict : Verdicts, ai : Answers, status : Statuses]
      BY DEF TypeOK, Issues
    <2>2. QED
      BY <1>2, <2>1 DEF Begin, TypeOK, Investigations
  <1>3. ASSUME NEW c \in Calls, Ask(c) \/ Work(c)
        PROVE  TypeOK'
    BY <1>2, <1>3 DEF Ask, Work, Request, TypeOK
  <1>4. CASE AskLater \/ Forget
    BY <1>4 DEF AskLater, Forget, Enqueue, Request, TypeOK
  <1>5. ASSUME NEW c \in Calls, NoReply(c) \/ Throws(c)
        PROVE  TypeOK'
    BY <1>5, FinishTyped DEF NoReply, Throws, TypeOK, Jobs
  <1>6. ASSUME NEW c \in Calls, Reply(c)
        PROVE  TypeOK'
    <2>1. call[c] \in Investigations
      BY <1>6, UnderWay DEF Reply
    <2>2. [[call[c] EXCEPT !.at = "writing"] EXCEPT !.stamp = clock] \in Investigations
      BY <2>1 DEF Investigations, TypeOK
    <2>3. call' = [call EXCEPT ![c] = [[call[c] EXCEPT !.at = "writing"] EXCEPT !.stamp = clock]]
      BY <1>6 DEF Reply
    <2>4. call' \in [Calls -> Investigations \cup {Idle}]
      BY <2>2, <2>3 DEF TypeOK
    <2>5. QED
      BY <1>6, <2>4 DEF Reply, TypeOK
  <1>7. ASSUME NEW c \in Calls, Write(c)
        PROVE  TypeOK'
    <2>1. call[c] \in Investigations
      BY <1>7, UnderWay DEF Write
    <2>2. issue' \in Issues
      BY <1>7, <2>1, CachedIssue DEF Write, TypeOK
    <2>3. call' = [call EXCEPT ![c] = Idle] /\ job' \in Jobs
      BY <1>7, FinishTyped DEF Write, Jobs
    <2>4. QED
      BY <1>7, <2>2, <2>3 DEF Write, TypeOK, Jobs
  <1>8. ASSUME NEW verdict \in {"real", "false"}, StartReview(verdict)
        PROVE  TypeOK'
    <2>1. Evidence \in [verdict : Verdicts, ai : Answers]
      BY DEF Evidence, TypeOK, Issues
    <2>2. review' \in Reviews
      BY <1>8, <2>1 DEF StartReview, Reviews, Verdicts
    <2>3. QED
      BY <1>8, <2>2 DEF StartReview, Request, TypeOK
  <1>9. CASE GiveVerdict
    <2>1. review \in Reviews
      BY <1>9, ReviewUnderWay DEF GiveVerdict
    <2>2. /\ issue' \in Issues
          /\ given' \in Verdicts
      BY <1>9, <2>1 DEF GiveVerdict, Reviews, Issues, Verdicts, Statuses, TypeOK
    <2>3. crossed' \in BOOLEAN
      BY <1>9, Zenon DEF GiveVerdict, Crosses, TypeOK
    <2>4. QED
      BY <1>9, <2>2, <2>3 DEF GiveVerdict, TypeOK
  <1>10. ASSUME NEW s \in {"acknowledged", "resolved", "dismissed"}, SetStatus(s)
         PROVE  TypeOK'
    <2>1. issue' \in Issues
      BY <1>10, StatusSet DEF Statuses
    <2>2. crossed' \in BOOLEAN
      BY <1>10, Zenon DEF SetStatus, Crosses, TypeOK
    <2>3. QED
      BY <1>10, <2>1, <2>2 DEF SetStatus, Request, Verdicts, TypeOK
  <1>11. CASE Resolve \/ ReportAccess
    BY <1>11 DEF Resolve, ReportAccess, Request, TypeOK
  <1>12. CASE Store
    <2>1. writer' \in {"idle", "identity", "event", "entitlement", "issue"}
      BY <1>12 DEF Store, After, TypeOK
    <2>2. rows' \in [Tables -> Nat]
      BY <1>12 DEF Store, Insert, TypeOK, Tables
    <2>3. QED
      BY <1>12, <2>1, <2>2, NewIssueTyped DEF Store, Verdicts, TypeOK
  <1>13. CASE LogAlert \/ StoreCheck
    BY <1>13 DEF LogAlert, StoreCheck, Request, Insert, Tables, TypeOK
  <1>14. CASE Erase
    BY <1>14 DEF Erase, None, TypeOK
  <1>15. CASE Delete
    BY <1>15, OrderOfTables DEF Delete, Rollback, None, TypeOK
  <1>16. CASE Commit
    <2>1. CASE Rollback
      BY <1>16, <2>1 DEF Commit, Rollback, None, TypeOK
    <2>2. CASE ~Rollback
      <3>1. \A t \in Tables : Left(t) \in Nat
        BY DEF Left, ErasureAgrees, TypeOK
      <3>2. /\ rows' = [[t \in Tables |-> Left(t)] EXCEPT !["user"] = 0]
            /\ erased' = TRUE /\ erasure' = [at |-> 0, deleted |-> None]
        BY <1>16, <2>2 DEF Commit
      <3>3. rows' \in [Tables -> Nat]
        BY <3>1, <3>2
      <3>4. erasure' \in [at : 0..6, deleted : [Tables -> Nat]]
        BY <3>2 DEF None
      <3>5. QED
        BY <1>16, <3>2, <3>3, <3>4 DEF Commit, TypeOK
    <2>3. QED
      BY <2>1, <2>2
  <1>17. CASE UNCHANGED vars
    BY <1>17 DEF vars, TypeOK
  <1>18. QED
    BY <1>0, <1>1, <1>3, <1>4, <1>5, <1>6, <1>7, <1>8, <1>9, <1>10, <1>11, <1>12, <1>13,
       <1>14, <1>15, <1>16, <1>17 DEF Next
-----------------------------------------------------------------------------
\* What is said of the issue, the investigations and the feedback.
IssueAgrees == /\ VerdictStands /\ FeedbackIsKept /\ AnswersAreCurrent
               /\ TimesAgree /\ Untouched /\ CallsAgree

LEMMA IssueAgreesStep ==
  ASSUME IInv, [Next]_vars
  PROVE  IssueAgrees'
  <1> USE DEF assistant, data, people
  <1>0. IssueAgrees /\ TypeOK
    BY DEF IInv, IssueAgrees
  <1> DEFINE Seen == <<clock, issue, given, crossed, call, review>>
  <1>1. ASSUME UNCHANGED Seen, Exists' = Exists, Known' = Known
        PROVE  IssueAgrees'
    BY <1>0, <1>1 DEF IssueAgrees, VerdictStands, FeedbackIsKept, AnswersAreCurrent,
       TimesAgree, Untouched, CallsAgree, Fresh
  <1>2. CASE AskLater \/ Forget \/ Resolve \/ ReportAccess \/ Erase \/ Delete \/ UNCHANGED vars
    BY <1>1, <1>2 DEF AskLater, Forget, Resolve, ReportAccess, Erase, Delete, Rollback,
       vars, Exists, Known
  <1>3. CASE LogAlert \/ StoreCheck
    BY <1>0, <1>1, <1>3 DEF LogAlert, StoreCheck, Insert, Exists, Known, Tables, TypeOK
  <1>4. CASE Tick
    <2>1. /\ clock \in Nat /\ issue.updated \in Nat /\ issue.ai.at \in Nat
          /\ \A c \in Calls : call[c].at # "idle" => call[c].stamp \in Nat
          /\ review.at # "idle" => review.saw.ai.at \in Nat
      BY <1>0, UnderWay, ReviewUnderWay
         DEF TypeOK, Issues, Answers, Investigations, Reviews
    <2>2. TimesAgree'
      BY <1>0, <1>4, <2>1 DEF Tick, IssueAgrees, TimesAgree
    <2>3. QED
      BY <1>0, <1>4, <2>2 DEF Tick, IssueAgrees, VerdictStands, FeedbackIsKept,
         AnswersAreCurrent, Untouched, CallsAgree, Fresh, Exists, Known
  <1>5. CASE ADayLater
    <2>1. /\ issue'.status = issue.status /\ issue'.verdict = issue.verdict
          /\ issue'.updated = issue.updated /\ issue'.ai.at = issue.ai.at
          /\ issue'.ai.recent = FALSE
      BY <1>0, <1>5 DEF ADayLater, TypeOK, Issues, Answers
    <2>2. QED
      BY <1>0, <1>5, <2>1 DEF ADayLater, IssueAgrees, VerdictStands, FeedbackIsKept,
         AnswersAreCurrent, TimesAgree, Untouched, CallsAgree, Fresh, Exists, Known
  <1>6. ASSUME UNCHANGED <<clock, issue, given, crossed, review, rows>>,
               NEW c \in Calls, NEW r, call' = [call EXCEPT ![c] = r],
               r.at # "idle" => /\ Exists /\ r.stamp <= clock
                                /\ ~crossed => /\ r.saw.verdict = issue.verdict
                                               /\ r.saw.status = issue.status
        PROVE  IssueAgrees'
    BY <1>0, <1>6 DEF IssueAgrees, VerdictStands, FeedbackIsKept, AnswersAreCurrent,
       TimesAgree, Untouched, CallsAgree, Fresh, Exists, Known, TypeOK
  <1>7. ASSUME NEW c \in Calls, Ask(c) \/ Work(c)
        PROVE  IssueAgrees'
    <2>1. ASSUME NEW by, Begin(c, by), UNCHANGED <<clock, issue, given, crossed, review, rows>>
          PROVE  IssueAgrees'
      <3> DEFINE r == [at |-> "asking", by |-> by, stamp |-> 0,
                       saw |-> [verdict |-> issue.verdict, ai |-> issue.ai,
                                status |-> issue.status]]
      <3>1. Exists /\ call' = [call EXCEPT ![c] = r]
        BY <2>1 DEF Begin
      <3>2. r.stamp <= clock /\ r.saw.verdict = issue.verdict /\ r.saw.status = issue.status
        BY <1>0 DEF TypeOK
      <3> HIDE DEF r
      <3>3. QED
        BY <1>6, <2>1, <3>1, <3>2
    <2>2. CASE UNCHANGED <<clock, issue, given, crossed, review, rows, call>>
      BY <1>1, <2>2 DEF Exists, Known
    <2>3. QED
      BY <1>7, <2>1, <2>2 DEF Ask, Work
  <1>8. ASSUME NEW c \in Calls, NoReply(c) \/ Throws(c)
        PROVE  IssueAgrees'
    <2>1. call' = [call EXCEPT ![c] = Idle]
      BY <1>8 DEF NoReply, Throws, Finish
    <2>2. QED
      BY <1>6, <1>8, <2>1, IdleIsIdle DEF NoReply, Throws
  <1>9. ASSUME NEW c \in Calls, Reply(c)
        PROVE  IssueAgrees'
    <2>1. call[c] \in Investigations
      BY <1>0, <1>9, UnderWay DEF Reply
    <2>2. PICK r : r = [[call[c] EXCEPT !.at = "writing"] EXCEPT !.stamp = clock]
      OBVIOUS
    <2>3. call' = [call EXCEPT ![c] = r] /\ r.saw = call[c].saw /\ r.stamp = clock
      BY <1>9, <2>1, <2>2 DEF Reply, Investigations
    <2>4. CASE Exists
      <3>1. ~crossed => r.saw.verdict = issue.verdict /\ r.saw.status = issue.status
        BY <1>0, <1>9, <2>3, <2>4 DEF Reply, IssueAgrees, CallsAgree
      <3>2. r.stamp <= clock
        BY <1>0, <2>3 DEF TypeOK
      <3>3. UNCHANGED <<clock, issue, given, crossed, review, rows>>
        BY <1>9 DEF Reply
      <3>4. QED
        BY <1>6, <2>3, <2>4, <3>1, <3>2, <3>3
    <2>5. CASE ~Exists
      <3>1. \A d \in Calls : call'[d].at # "idle" => call[d].at # "idle" /\ call'[d].stamp <= clock
        BY <1>0, <1>9, <2>3 DEF Reply, TypeOK, IssueAgrees, TimesAgree
      <3>2. QED
        BY <1>0, <1>9, <2>5, <3>1 DEF Reply, IssueAgrees, VerdictStands, FeedbackIsKept,
           AnswersAreCurrent, TimesAgree, Untouched, CallsAgree, Exists, Known
    <2>6. QED
      BY <2>4, <2>5
  <1>10. ASSUME NEW c \in Calls, Write(c)
         PROVE  IssueAgrees'
    <2>1. call[c] \in Investigations /\ call' = [call EXCEPT ![c] = Idle]
      BY <1>0, <1>10, UnderWay DEF Write, Finish
    <2>2. CASE ~Exists
      <3>1. \A d \in Calls : call'[d].at # "idle" => call[d].at # "idle" /\ call'[d].stamp = call[d].stamp
        BY <1>0, <2>1, IdleIsIdle DEF TypeOK
      <3>2. QED
        BY <1>0, <1>10, <2>2, <3>1 DEF Write, IssueAgrees, VerdictStands, FeedbackIsKept,
           AnswersAreCurrent, TimesAgree, Untouched, CallsAgree, Exists, Known
    <2>3. CASE Exists
      <3>1. /\ issue'.status = issue.status /\ issue'.updated = clock
            /\ issue'.verdict = call[c].saw.verdict /\ issue'.ai.at = call[c].stamp
            /\ issue'.ai.on = <<call[c].saw.status, call[c].saw.verdict>>
        BY <1>0, <1>10, <2>1, <2>3, CachedIssue DEF Write
      <3>2. ~crossed => /\ call[c].saw.verdict = issue.verdict
                        /\ call[c].saw.status = issue.status
        BY <1>0, <1>10, <2>3 DEF Write, IssueAgrees, CallsAgree
      <3>3. call[c].stamp <= clock
        BY <1>0, <1>10 DEF Write, IssueAgrees, TimesAgree
      <3>4. \A d \in Calls : call'[d].at # "idle" => call'[d] = call[d] /\ call[d].at # "idle"
        BY <1>0, <2>1, IdleIsIdle DEF TypeOK
      <3>5. QED
        BY <1>0, <1>10, <2>3, <3>1, <3>2, <3>3, <3>4 DEF Write, IssueAgrees,
           VerdictStands, FeedbackIsKept, AnswersAreCurrent, TimesAgree, Untouched,
           CallsAgree, Exists, Known, TypeOK
    <2>4. QED
      BY <2>2, <2>3
  <1>11. ASSUME NEW verdict \in {"real", "false"}, StartReview(verdict)
         PROVE  IssueAgrees'
    BY <1>0, <1>11 DEF StartReview, Evidence, IssueAgrees, VerdictStands, FeedbackIsKept,
       AnswersAreCurrent, TimesAgree, Untouched, CallsAgree, Fresh, Exists, Known
  \* A person changes the issue: whatever was read of it before is crossed.
  <1>12. ASSUME Crosses, Exists, UNCHANGED <<clock, rows, call>>,
                issue'.updated = clock, issue'.ai.at <= clock,
                review' = review \/ review' = Idle,
                given' = "none" \/ /\ issue'.verdict = given'
                                   /\ issue'.status = IF given' = "real" THEN "resolved"
                                                                        ELSE "dismissed"
         PROVE  IssueAgrees'
    <2>1. ~crossed' => ~crossed /\ issue'.ai.at # clock /\ \A c \in Calls : call[c].at = "idle"
      BY <1>12 DEF Crosses
    <2>2. issue'.ai.at \in Nat /\ clock \in Nat
      BY <1>0, TypeOKStep DEF TypeOK, Issues, Answers, IInv
    <2>3. QED
      BY <1>0, <1>12, <2>1, <2>2, IdleIsIdle DEF IssueAgrees, VerdictStands,
         FeedbackIsKept, AnswersAreCurrent, TimesAgree, Untouched, CallsAgree, Fresh,
         Exists, Known
  <1>13. CASE GiveVerdict
    <2>1. review \in Reviews /\ review.saw.ai.at <= clock
      BY <1>0, <1>13, ReviewUnderWay DEF GiveVerdict, IssueAgrees, TimesAgree
    <2>2. CASE Exists
      BY <1>12, <1>13, <2>1, <2>2 DEF GiveVerdict
    <2>3. CASE ~Exists
      BY <1>0, <1>13, <2>3, IdleIsIdle DEF GiveVerdict, IssueAgrees, VerdictStands,
         FeedbackIsKept, AnswersAreCurrent, TimesAgree, Untouched, CallsAgree, Exists, Known
    <2>4. QED
      BY <2>2, <2>3
  <1>14. ASSUME NEW s \in {"acknowledged", "resolved", "dismissed"}, SetStatus(s)
         PROVE  IssueAgrees'
    BY <1>0, <1>12, <1>14, StatusSet DEF SetStatus, Statuses, IssueAgrees, TimesAgree
  <1>15. CASE Store
    <2>1. CASE writer = "issue" /\ rows' # rows
      <3>1. /\ Known /\ ~Exists /\ Exists' /\ Known'
            /\ issue' = NewIssue /\ given' = "none"
            /\ UNCHANGED <<clock, call, review, crossed>>
        BY <1>0, <1>15, <2>1 DEF Store, Insert, Exists, Known, TypeOK, Tables
      <3>2. review.at = "idle" /\ \A c \in Calls : call[c].at = "idle"
        BY <1>0, <3>1 DEF IssueAgrees, Untouched
      <3>3. issue'.updated = clock /\ issue'.ai.at = 0
        BY <3>1 DEF NewIssue, NoAnswer
      <3>4. QED
        BY <1>0, <3>1, <3>2, <3>3 DEF IssueAgrees, VerdictStands, FeedbackIsKept,
           AnswersAreCurrent, TimesAgree, Untouched, CallsAgree, Fresh, TypeOK
    <2>2. CASE ~(writer = "issue" /\ rows' # rows)
      <3>1. UNCHANGED Seen
        BY <1>15, <2>2 DEF Store
      <3>2. rows'["issue"] = rows["issue"] /\ rows'["user"] = rows["user"]
        BY <1>0, <1>15, <2>2 DEF Store, Insert, TypeOK, Tables
      <3>3. QED
        BY <1>1, <3>1, <3>2 DEF Exists, Known
    <2>3. QED
      BY <2>1, <2>2
  <1>16. CASE Commit
    <2>1. CASE Rollback
      BY <1>1, <1>16, <2>1 DEF Commit, Rollback, Exists, Known
    <2>2. CASE ~Rollback
      <3>1. UNCHANGED Seen
        BY <1>16 DEF Commit
      <3>2. Left("issue") <= 0 /\ Left("issue") \in Int
        BY <1>0, <1>16, <2>2 DEF Commit, Referred, Tables, Left, TypeOK
      <3>3. /\ rows' = [[t \in Tables |-> Left(t)] EXCEPT !["user"] = 0]
            /\ "issue" \in Tables /\ "user" \in Tables
        BY <1>16, <2>2 DEF Commit, Tables
      <3>4. ~Exists' /\ ~Known'
        BY <3>2, <3>3 DEF Exists, Known
      <3>5. QED
        BY <1>0, <3>1, <3>4 DEF IssueAgrees, VerdictStands, FeedbackIsKept,
           AnswersAreCurrent, TimesAgree, Untouched, CallsAgree
    <2>3. QED
      BY <2>1, <2>2
  <1>17. QED
    BY <1>2, <1>3, <1>4, <1>5, <1>7, <1>8, <1>9, <1>10, <1>11, <1>13, <1>14, <1>15,
       <1>16 DEF Next
-----------------------------------------------------------------------------
LEMMA RowsGrow ==
  ASSUME IInv, NEW t \in Tables, Insert(t)
  PROVE  /\ rows'[t] = rows[t] + 1
         /\ \A u \in Tables : rows'[u] >= rows[u] /\ (u # t => rows'[u] = rows[u])
  BY DEF Insert, IInv, TypeOK

LEMMA ErasureAgreesStep ==
  ASSUME IInv, [Next]_vars
  PROVE  ErasureAgrees'
  <1> USE DEF assistant, data, people
  <1>0. ErasureAgrees /\ TypeOK
    BY DEF IInv
  <1>1. CASE UNCHANGED <<rows, erasure>>
    BY <1>0, <1>1 DEF ErasureAgrees, Left, Exists
  <1>2. ASSUME NEW t \in Tables, Insert(t), UNCHANGED erasure, t = "log" => Exists /\ Free("issue")
        PROVE  ErasureAgrees'
    <2>1. /\ rows'[t] = rows[t] + 1
          /\ \A u \in Tables : rows'[u] >= rows[u] /\ (u # t => rows'[u] = rows[u])
          /\ {"log", "issue", "user"} \subseteq Tables
      BY <1>2, RowsGrow DEF Tables
    <2>2. rows \in [Tables -> Nat] /\ erasure.deleted \in [Tables -> Nat] /\ erasure.at \in 0..6
      BY <1>0 DEF TypeOK
    <2>3. \A u \in Tables : rows'[u] \in Nat
      BY <2>1, <2>2, TypeOKStep, <1>0 DEF TypeOK
    <2>4. rows'["log"] > 0 => IF erasure.at > 2 THEN Left("issue")' > 0 ELSE Exists'
      <3>1. CASE t = "log"
        BY <1>2, <2>1, <2>2, <2>3, <3>1 DEF Exists, Free, Left
      <3>2. CASE t # "log"
        BY <1>0, <1>2, <2>1, <2>2, <2>3, <3>2 DEF ErasureAgrees, Exists, Left
      <3>3. QED
        BY <3>1, <3>2
    <2>5. \A u \in Tables : erasure.deleted[u] <= rows'[u]
      BY <1>0, <2>1, <2>2, <2>3 DEF ErasureAgrees
    <2>6. QED
      BY <1>0, <1>2, <2>4, <2>5 DEF ErasureAgrees
  <1>3. CASE Store
    <2>1. UNCHANGED erasure /\ (UNCHANGED rows \/ \E t \in Tables \ {"log"} : Insert(t))
      BY <1>0, <1>3 DEF Store, TypeOK, Tables
    <2>2. QED
      BY <1>1, <1>2, <2>1
  <1>4. CASE LogAlert
    <2>1. "log" \in Tables
      BY DEF Tables
    <2>2. QED
      BY <1>2, <1>4, <2>1 DEF LogAlert
  <1>5. CASE StoreCheck
    <2>1. "check" \in Tables
      BY DEF Tables
    <2>2. QED
      BY <1>1, <1>2, <1>5, <2>1 DEF StoreCheck
  <1>6. ASSUME UNCHANGED rows, erasure'.at \in 0..1, erasure'.deleted = None,
               erasure.at \in 3..6 \/ erasure.at \in 0..2
        PROVE  ErasureAgrees'
    <2>1. \A t \in Tables : erasure'.deleted[t] = 0
      BY <1>6 DEF None
    <2>2. /\ {"log", "issue", "user"} \subseteq Tables /\ rows \in [Tables -> Nat]
          /\ erasure.deleted["issue"] \in Nat
      BY <1>0 DEF TypeOK, Tables
    <2>3. rows["log"] > 0 => Exists
      BY <1>0, <2>2 DEF ErasureAgrees, Exists, Left
    <2>4. QED
      BY <1>6, <2>1, <2>2, <2>3 DEF ErasureAgrees, Exists
  <1>7. CASE Erase
    BY <1>6, <1>7 DEF Erase
  <1>8. CASE Delete
    <2>1. erasure.at \in 1..5 /\ rows' = rows
      BY <1>8 DEF Delete, Rollback
    <2>2. CASE Rollback
      BY <1>6, <2>1, <2>2 DEF Rollback
    <2>3. CASE ~Rollback
      <3>1. PICK t : t = Order[erasure.at]
        OBVIOUS
      <3>2. t \in Tables \ {"user", "log"} /\ (t = "issue" <=> erasure.at = 2)
        BY <2>1, <3>1, OrderOfTables
      <3>3. /\ ~(Referred(t) /\ rows[t] > 0)
            /\ erasure'.at = erasure.at + 1
            /\ erasure'.deleted = [erasure.deleted EXCEPT ![t] = rows[t]]
        BY <1>8, <2>3, <3>1 DEF Delete
      <3>4. /\ {"log", "issue", "user"} \subseteq Tables /\ rows \in [Tables -> Nat]
            /\ erasure.deleted \in [Tables -> Nat]
        BY <1>0 DEF TypeOK, Tables
      <3>5. \A u \in Tables : erasure'.deleted[u] <= rows'[u]
        BY <1>0, <2>1, <3>2, <3>3, <3>4 DEF ErasureAgrees
      <3>6. erasure'.deleted["user"] = 0 /\ erasure'.deleted["log"] = 0
        BY <1>0, <3>2, <3>3, <3>4 DEF ErasureAgrees
      <3>7. erasure'.at \in 1..2 => erasure'.deleted["issue"] = 0
        BY <1>0, <2>1, <3>2, <3>3, <3>4 DEF ErasureAgrees
      <3>8. rows["log"] > 0 => IF erasure'.at > 2 THEN Left("issue")' > 0 ELSE Exists'
        <4>1. CASE erasure.at = 1
          BY <1>0, <2>1, <3>3, <4>1 DEF ErasureAgrees, Exists
        <4>2. CASE erasure.at = 2
          BY <1>0, <2>1, <3>2, <3>3, <3>4, <4>2 DEF ErasureAgrees, Exists, Referred
        <4>3. CASE erasure.at > 2
          BY <1>0, <2>1, <3>2, <3>3, <3>4, <4>3 DEF ErasureAgrees, Left
        <4>4. QED
          BY <2>1, <4>1, <4>2, <4>3
      <3>9. erasure'.at # 0
        BY <2>1, <3>3
      <3>10. QED
        BY <2>1, <3>5, <3>6, <3>7, <3>8, <3>9 DEF ErasureAgrees
    <2>4. QED
      BY <2>2, <2>3
  <1>9. CASE Commit
    <2>1. CASE Rollback
      BY <1>6, <1>9, <2>1 DEF Commit, Rollback
    <2>2. CASE ~Rollback
      <3>1. /\ ~Referred("user")
            /\ rows' = [[t \in Tables |-> Left(t)] EXCEPT !["user"] = 0]
            /\ erasure'.at = 0 /\ erasure'.deleted = None /\ erasure.at = 6
        BY <1>9, <2>2 DEF Commit
      <3>2. /\ rows \in [Tables -> Nat] /\ erasure.deleted \in [Tables -> Nat]
            /\ {"log", "issue", "user"} \subseteq Tables
        BY <1>0 DEF TypeOK, Tables
      <3>3. \A t \in Tables : Left(t) \in Nat
        BY <1>0, <3>2 DEF ErasureAgrees, Left
      <3>4. Left("issue") = 0
        BY <3>1, <3>2, <3>3 DEF Referred, Tables
      <3>5. rows'["log"] = 0
        <4>1. rows["log"] = 0 /\ erasure.deleted["log"] = 0
          BY <1>0, <3>1, <3>2, <3>4 DEF ErasureAgrees
        <4>2. rows'["log"] = Left("log")
          BY <3>1, <3>2
        <4>3. QED
          BY <4>1, <4>2 DEF Left
      <3>6. \A t \in Tables : rows'[t] \in Nat
        BY <3>1, <3>3
      <3>7. QED
        BY <3>1, <3>2, <3>5, <3>6 DEF ErasureAgrees, None
    <2>3. QED
      BY <2>1, <2>2
  <1>10. QED
    BY <1>1, <1>3, <1>4, <1>5, <1>7, <1>8, <1>9 DEF Next, vars, Tick, ADayLater, Ask,
       AskLater, Work, NoReply, Throws, Reply, Write, Forget, StartReview, GiveVerdict,
       SetStatus, Resolve, ReportAccess

\* Without the user no statement puts a row in, and none was left.
LEMMA GoneStep ==
  ASSUME IInv, [Next]_vars
  PROVE  ErasedIsErased' /\ Gone'
  <1> USE DEF assistant, data, people
  <1>0. TypeOK /\ ErasureAgrees /\ Gone /\ ErasedIsErased /\ {"issue", "user", "log", "check"} \subseteq Tables
    BY DEF IInv, Tables
  <1>1. CASE UNCHANGED <<rows, erasure, erased>>
    BY <1>0, <1>1 DEF Gone, ErasedIsErased, Known
  <1>2. ASSUME NEW t \in Tables, Insert(t), Known, UNCHANGED <<erasure, erased>>
        PROVE  ErasedIsErased' /\ Gone'
    <2>1. ~erased
      BY <1>0, <1>2 DEF ErasedIsErased, Known
    <2>2. rows'["user"] >= rows["user"] /\ rows'["user"] \in Nat /\ rows["user"] \in Nat
      BY <1>0, <1>2, RowsGrow, TypeOKStep DEF TypeOK
    <2>3. QED
      BY <1>0, <1>2, <2>1, <2>2 DEF Gone, ErasedIsErased, Known
  <1>3. CASE Store
    <2>1. UNCHANGED rows \/ \E t \in Tables : Insert(t) /\ Known
      BY <1>0, <1>3 DEF Store, TypeOK, Tables
    <2>2. QED
      BY <1>1, <1>2, <1>3, <2>1 DEF Store
  <1>4. CASE LogAlert
    <2>1. Known
      BY <1>0, <1>4 DEF LogAlert, Exists, Known, Gone, ErasedIsErased
    <2>2. QED
      BY <1>0, <1>2, <1>4, <2>1 DEF LogAlert
  <1>5. CASE StoreCheck
    BY <1>0, <1>1, <1>2, <1>5 DEF StoreCheck
  <1>6. CASE Erase
    BY <1>0, <1>6 DEF Erase, Known, Gone, ErasedIsErased
  <1>7. CASE Delete
    <2>1. erasure.at \in 1..5 /\ rows' = rows /\ erased' = erased
      BY <1>7 DEF Delete, Rollback
    <2>2. QED
      BY <1>0, <2>1 DEF Gone, ErasedIsErased, Known
  <1>8. CASE Commit
    <2>1. CASE Rollback
      BY <1>0, <1>8, <2>1 DEF Commit, Rollback, Gone, ErasedIsErased, Known
    <2>2. CASE ~Rollback
      <3>1. /\ ~Referred("user") /\ erasure.at = 6 /\ erasure'.at = 0
            /\ rows' = [[t \in Tables |-> Left(t)] EXCEPT !["user"] = 0]
        BY <1>8, <2>2 DEF Commit
      <3>2. rows \in [Tables -> Nat] /\ erasure.deleted \in [Tables -> Nat]
        BY <1>0 DEF TypeOK
      <3>3. \A t \in Tables : Left(t) \in Nat
        BY <1>0, <3>2 DEF ErasureAgrees, Left
      <3>4. \A t \in Tables \ {"user", "log"} : Left(t) = 0
        BY <3>1, <3>3 DEF Referred
      <3>5. Left("log") = 0
        BY <1>0, <3>1, <3>2, <3>4 DEF ErasureAgrees, Left, Tables
      <3>6. \A t \in Tables : rows'[t] = 0
        BY <3>1, <3>4, <3>5
      <3>7. erased' = TRUE
        BY <1>8, <2>2 DEF Commit
      <3>8. QED
        BY <3>1, <3>6, <3>7 DEF Gone, ErasedIsErased
    <2>3. QED
      BY <2>1, <2>2
  <1>9. QED
    BY <1>1, <1>3, <1>4, <1>5, <1>6, <1>7, <1>8 DEF Next, vars, Tick, ADayLater, Ask,
       AskLater, Work, NoReply, Throws, Reply, Write, Forget, StartReview, GiveVerdict,
       SetStatus, Resolve, ReportAccess

LEMMA InitIInv == Init => IInv
  <1> SUFFICES ASSUME Init PROVE IInv
    OBVIOUS
  <1>1. /\ rows \in [Tables -> Nat] /\ rows["user"] = 1 /\ rows["log"] = 0
        /\ erasure = [at |-> 0, deleted |-> [t \in Tables |-> 0]] /\ erased = FALSE
        /\ {"user", "log", "issue"} \subseteq Tables
    BY DEF Init, None, Tables
  <1>2. issue \in Issues /\ issue.updated = 1 /\ issue.ai.at = 0 /\ clock = 1 /\ given = "none"
    BY DEF Init, NewIssue, NoAnswer, Issues, Answers, Statuses, Verdicts
  <1>3. TypeOK
    <2>1. left \in [requests : Nat, faults : Nat]
      BY CaseworkAssumption DEF Init
    <2>2. erasure \in [at : 0..6, deleted : [Tables -> Nat]]
      BY <1>1
    <2>3. call \in [Calls -> Investigations \cup {Idle}] /\ review \in Reviews \cup {Idle}
      BY DEF Init
    <2>4. {erased, crossed} \subseteq BOOLEAN
      BY <1>1, Zenon DEF Init
    <2>5. /\ clock \in Nat \ {0} /\ job = "none" /\ writer = "idle" /\ check = "idle"
          /\ given \in Verdicts
      BY <1>2 DEF Init, Verdicts
    <2>6. QED
      BY <1>1, <1>2, <2>1, <2>2, <2>3, <2>4, <2>5 DEF TypeOK
  <1>4. VerdictStands /\ FeedbackIsKept /\ AnswersAreCurrent /\ TimesAgree
    BY <1>2, IdleIsIdle DEF Init, VerdictStands, FeedbackIsKept, AnswersAreCurrent, Fresh,
       TimesAgree
  <1>5. Untouched /\ CallsAgree
    BY IdleIsIdle DEF Init, Untouched, CallsAgree
  <1>6. ErasureAgrees /\ ErasedIsErased /\ Gone
    BY <1>1 DEF ErasureAgrees, ErasedIsErased, Gone, Known
  <1>7. QED
    BY <1>3, <1>4, <1>5, <1>6 DEF IInv
-----------------------------------------------------------------------------
\* The inductive invariant holds of every behaviour of people, assistant,
\* pipeline and erasure.
THEOREM CaseworkInvariant == Spec => []IInv
  <1>1. IInv /\ [Next]_vars => IInv'
    BY TypeOKStep, IssueAgreesStep, ErasureAgreesStep, GoneStep DEF IInv, IssueAgrees
  <1>2. QED
    BY <1>1, InitIInv, PTL DEF Spec

\* The status people decided on stands, whatever investigations write over the
\* evidence; their feedback is kept, but for one that came while an investigation
\* was asking the model, which the code overwrites (learner.ts:68-85,
\* investigator.ts:121-130).
THEOREM PeopleDecide == Spec => []DecisionsStand
  <1>1. IInv => DecisionsStand
    BY DEF IInv, DecisionsStand
  <1>2. QED
    BY <1>1, CaseworkInvariant, PTL

\* An answer served from the cache is about the issue as it is, unless a person
\* changed it while the model was thinking or in the millisecond of the answer:
\* a change after the answer is never missed (investigator.ts:73-84, ai.ts:67-80).
THEOREM AnswersCurrent == Spec => []AnswersAreCurrent
  <1>1. IInv => AnswersAreCurrent
    BY DEF IInv
  <1>2. QED
    BY <1>1, CaseworkInvariant, PTL

\* Erased is erased: what was under way when the transaction committed brings
\* nothing back (data-management.ts:52-97).
THEOREM NothingComesBack == Spec => []ErasedIsErased
  <1>1. IInv => ErasedIsErased
    BY DEF IInv
  <1>2. QED
    BY <1>1, CaseworkInvariant, PTL
=============================================================================
