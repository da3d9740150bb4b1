------------------------------ MODULE Casework ------------------------------
(***************************************************************************)
(* An issue of a user and what is done with it: the investigations of the  *)
(* assistant (agents/investigator.ts), asked for over the API, from Slack  *)
(* and by the queue; the feedback (agents/learner.ts) and status calls of  *)
(* people; the pipeline and the app that store more about the user; and    *)
(* the erasure of the user's data (api/data-management.ts).                *)
(*                                                                         *)
(* An investigation reads the issue, waits for the language model and      *)
(* writes back the evidence it read with the answer in it.  The erasure is *)
(* a transaction of one DELETE per table; what others commit in between    *)
(* its later statements see.  Foreign keys refuse rows without their user, *)
(* and deletions of rows that others still refer to.                       *)
(***************************************************************************)
EXTENDS Naturals, Sequences, FiniteSets

CONSTANTS
  Calls,      \* runs of investigateIssue at the same time
  MaxTime,    \* bound: milliseconds that are told apart
  MaxRequests, \* bound: requests, webhooks and reports other than erasures
  MaxFaults   \* bound: queries that throw in an investigation

ASSUME CaseworkAssumption == {MaxTime, MaxRequests, MaxFaults} \subseteq Nat

VARIABLES
  clock,     \* the time in milliseconds
  issue,     \* the issue: status, updatedAt, and in its evidence verdict and ai
  rows,      \* rows[t]: how many rows about the user table t has
  call,      \* call[c]: where investigation c is, for whom, what it has read
  job,       \* the job investigate-<issue> of the queue
  review,    \* a feedback under way: what it has read and says
  writer,    \* the pipeline: which row it stores next
  check,     \* an access check under way: the user is known, or not
  erasure,   \* the DELETE request: its next statement and what it has deleted
  erased,    \* was an erasure answered with ok?
  left,      \* requests and faults that may still happen
  given,     \* history: the last verdict, unless a status call came after it
  crossed    \* history: has a person changed the issue while a call that had
             \* read it was under way, or in the millisecond of its answer?

vars == <<clock, issue, rows, call, job, review, writer, check, erasure, erased,
          left, given, crossed>>
assistant == <<call, job>>
data == <<rows, writer, check, erasure, erased>>
people == <<review, given, crossed>>

Tables == {"user", "identity", "event", "entitlement", "issue", "check", "log"}
NoAnswer == [at |-> 0, recent |-> FALSE, on |-> <<>>]
Idle == [at |-> "idle", by |-> "nobody", saw |-> <<>>, stamp |-> 0]
None == [t \in Tables |-> 0]

Statuses == {"open", "acknowledged", "resolved", "dismissed"}
Verdicts == {"none", "real", "false"}
Answers == [at : Nat, recent : BOOLEAN, on : {<<>>} \cup (Statuses \X Verdicts)]
Issues == [status : Statuses, updated : Nat, verdict : Verdicts, ai : Answers]
Investigations == [at : {"asking", "writing"}, by : {"api", "slack", "job"}, stamp : Nat,
                   saw : [verdict : Verdicts, ai : Answers, status : Statuses]]
Reviews == [at : {"writing"}, by : Verdicts \ {"none"}, stamp : {0},
            saw : [verdict : Verdicts, ai : Answers]]

TypeOK ==
  /\ clock \in Nat \ {0}
  /\ issue \in Issues
  /\ rows \in [Tables -> Nat]
  /\ call \in [Calls -> Investigations \cup {Idle}]
  /\ job \in {"none", "waiting", "active", "completed", "failed"}
  /\ review \in Reviews \cup {Idle}
  /\ writer \in {"idle", "identity", "event", "entitlement", "issue"}
  /\ check \in {"idle", "known"}
  /\ erasure \in [at : 0..6, deleted : [Tables -> Nat]]
  /\ left \in [requests : Nat, faults : Nat]
  /\ given \in Verdicts /\ {erased, crossed} \subseteq BOOLEAN

NewIssue == [status |-> "open", updated |-> clock, verdict |-> "none", ai |-> NoAnswer]

Init ==
  /\ clock = 1 /\ issue = NewIssue
  /\ rows \in {[None EXCEPT !["user"] = 1, !["identity"] = 1],
               [None EXCEPT !["user"] = 1, !["identity"] = 1, !["event"] = 1,
                            !["entitlement"] = 1, !["issue"] = 1]}
  /\ call = [c \in Calls |-> Idle] /\ job = "none"
  /\ review = Idle /\ writer = "idle" /\ check = "idle"
  /\ erasure = [at |-> 0, deleted |-> None] /\ erased = FALSE
  /\ left = [requests |-> MaxRequests, faults |-> MaxFaults] /\ given = "none" /\ crossed = FALSE

Tick ==
  /\ clock <= MaxTime /\ clock' = clock + 1
  /\ UNCHANGED <<issue, left, assistant, data, people>>

\* Something is asked of the program or told to it.
Request == left.requests > 0 /\ left' = [left EXCEPT !.requests = @ - 1]

\* There is an issue to be read or updated; an update waits for a deletion.
Exists == rows["issue"] > 0
Free(t) == erasure.deleted[t] = 0
-----------------------------------------------------------------------------
(***************************************************************************)
(* The assistant.                                                          *)
(***************************************************************************)
Evidence == [verdict |-> issue.verdict, ai |-> issue.ai]

\* Mutant: an answer is good for a day, whatever became of the issue.
Fresh_ForADay == issue.ai.at # 0 /\ issue.ai.recent

\* An answer is kept for a day, unless the issue was updated since.
Fresh == issue.ai.at # 0 /\ issue.ai.recent /\ ~(issue.updated > issue.ai.at)

ADayLater ==
  /\ issue.ai.recent /\ issue' = [issue EXCEPT !.ai.recent = FALSE]
  /\ UNCHANGED <<clock, left, assistant, data, people>>

Begin(c, by) ==
  /\ call[c].at = "idle" /\ Exists /\ ~Fresh
  /\ call' = [call EXCEPT ![c] =
       [at |-> "asking", by |-> by, stamp |-> 0,
        saw |-> [verdict |-> issue.verdict, ai |-> issue.ai, status |-> issue.status]]]

\* GET /issues/:id/investigation and /rb investigate.
Ask(c) ==
  /\ Request /\ \E by \in {"api", "slack"} : Begin(c, by)
  /\ UNCHANGED <<clock, issue, job, data, people>>

\* A job of this name, even one that is over, makes a new one vanish.
Enqueue == job' = IF job = "none" THEN "waiting" ELSE job
AskLater ==
  /\ Request /\ Exists /\ ~Fresh /\ Enqueue
  /\ UNCHANGED <<clock, issue, call, data, people>>

\* The worker takes the job: an issue that is gone or answered ends it at once.
Work(c) ==
  /\ job = "waiting"
  /\ \/ Begin(c, "job") /\ job' = "active"
     \/ (~Exists \/ Fresh) /\ job' = "completed" /\ UNCHANGED call
  /\ UNCHANGED <<clock, issue, left, data, people>>

Finish(c, result) ==
  /\ call' = [call EXCEPT ![c] = Idle]
  /\ CASE call[c].by = "job"  -> job' = result
       [] call[c].by = "api" /\ result # "answered" -> Enqueue
       [] OTHER -> UNCHANGED job

\* callClaude: rate limits, overload and malformed answers make no answer.
NoReply(c) ==
  /\ call[c].at = "asking"
  /\ Finish(c, "completed")
  /\ UNCHANGED <<clock, issue, left, data, people>>

\* A query throws: the job has another attempt, or had it.
Throws(c) ==
  /\ call[c].at # "idle" /\ left.faults > 0 /\ left' = [left EXCEPT !.faults = @ - 1]
  /\ \E result \in {"waiting", "failed"} : Finish(c, result)
  /\ UNCHANGED <<clock, issue, data, people>>

Reply(c) ==
  /\ call[c].at = "asking"
  /\ call' = [call EXCEPT ![c].at = "writing", ![c].stamp = clock]
  /\ UNCHANGED <<clock, issue, job, left, data, people>>

Answer(c) == [at |-> call[c].stamp, recent |-> TRUE,
              on |-> <<call[c].saw.status, call[c].saw.verdict>>]

\* Mutant: the issue is written as it was read.
Cache_WholeRow(c) ==
  [issue EXCEPT !.verdict = call[c].saw.verdict, !.status = call[c].saw.status,
                !.ai = Answer(c), !.updated = clock]

\* The evidence that was read, with the answer in it.
Cache(c) ==
  [issue EXCEPT !.verdict = call[c].saw.verdict, !.ai = Answer(c), !.updated = clock]

Write(c) ==
  /\ call[c].at = "writing" /\ Free("issue")
  /\ issue' = IF Exists THEN Cache(c) ELSE issue
  /\ IF call[c].by = "job" THEN Finish(c, "completed") ELSE Finish(c, "answered")
  /\ UNCHANGED <<clock, left, data, people>>

\* Only a job that completed is removed, an hour later.
Forget ==
  /\ job = "completed" /\ job' = "none"
  /\ UNCHANGED <<clock, issue, call, left, data, people>>
-----------------------------------------------------------------------------
(***************************************************************************)
(* People.                                                                 *)
(***************************************************************************)
Crosses == crossed' = (crossed \/ (\E c \in Calls : call[c].at # "idle")
                               \/ clock \in {issue.ai.at, issue'.ai.at})

StartReview(verdict) ==
  /\ Request /\ review.at = "idle" /\ Exists
  /\ review' = [at |-> "writing", by |-> verdict, saw |-> Evidence, stamp |-> 0]
  /\ UNCHANGED <<clock, issue, assistant, data, given, crossed>>

\* recordFeedback: what was read of the evidence, with the verdict.
GiveVerdict ==
  /\ review.at = "writing" /\ Free("issue")
  /\ IF Exists
       THEN /\ issue' = [status |-> IF review.by = "real" THEN "resolved" ELSE "dismissed",
                         updated |-> clock, verdict |-> review.by, ai |-> review.saw.ai]
            /\ given' = review.by /\ Crosses
       ELSE UNCHANGED <<issue, given, crossed>>
  /\ review' = Idle
  /\ UNCHANGED <<clock, left, assistant, data>>

SetStatus(status) ==
  /\ Request /\ Exists /\ Free("issue")
  /\ issue' = [issue EXCEPT !.status = status, !.updated = clock]
  /\ given' = "none" /\ Crosses
  /\ UNCHANGED <<clock, assistant, data, review>>
-----------------------------------------------------------------------------
(***************************************************************************)
(* What is stored about the user, by id.                                   *)
(***************************************************************************)
Known == rows["user"] > 0
Insert(t) == rows' = [rows EXCEPT ![t] = @ + 1]

\* The pipeline has found the user and goes on with the id ...
Resolve ==
  /\ Request /\ writer = "idle" /\ Known
  /\ writer' = "identity"
  /\ UNCHANGED <<clock, issue, rows, check, erasure, erased, assistant, people>>

After(t) == CASE t = "identity" -> "event" [] t = "event" -> "entitlement"
              [] t = "entitlement" -> "issue" [] t = "issue" -> "idle"

\* ... storing what is not there, or waiting for a row that is being deleted.
Store ==
  LET t == writer IN
  /\ t # "idle" /\ (t \in {"identity", "entitlement"} => Free(t))
  /\ IF Known THEN writer' = After(t) ELSE writer' = "idle"
  /\ \/ Known /\ (t = "event" \/ rows[t] = 0) /\ Insert(t)
     \/ (~Known \/ (t # "event" /\ (rows[t] > 0 \/ t \in {"identity", "issue"})))
        /\ UNCHANGED rows
  /\ issue' = IF t = "issue" /\ rows' # rows THEN NewIssue ELSE issue
  /\ IF t = "issue" /\ rows' # rows THEN given' = "none" ELSE UNCHANGED given
  /\ UNCHANGED <<clock, left, check, erasure, erased, assistant, review, crossed>>

\* An alert or a webhook about the issue was sent and logged.
LogAlert ==
  /\ Request /\ Exists /\ Free("issue") /\ Insert("log")
  /\ UNCHANGED <<clock, issue, writer, check, erasure, erased, assistant, people>>

\* POST /access-checks: the check of a user that is not known is kept without it.
ReportAccess ==
  /\ Request /\ check = "idle" /\ Known /\ check' = "known"
  /\ UNCHANGED <<clock, issue, rows, writer, erasure, erased, assistant, people>>
StoreCheck ==
  /\ check # "idle" /\ check' = "idle"
  /\ IF Known THEN Insert("check") ELSE UNCHANGED rows
  /\ UNCHANGED <<clock, issue, left, writer, erasure, erased, assistant, people>>
-----------------------------------------------------------------------------
(***************************************************************************)
(* DELETE /users/:userId/data.                                             *)
(***************************************************************************)
\* Mutant: the events go before the entitlements.
Order_EventsFirst == <<"check", "issue", "event", "entitlement", "identity">>

Order == <<"check", "issue", "entitlement", "event", "identity">>

Left(t) == rows[t] - erasure.deleted[t]

\* Rows that refer to rows of t which are about to go.
Referred(t) ==
  CASE t = "issue" -> rows["log"] > 0
    [] t = "event" -> Left("entitlement") > 0
    [] t = "user"  -> \E u \in Tables \ {"user", "log"} : Left(u) > 0
    [] OTHER -> FALSE

Rollback == erasure' = [at |-> 0, deleted |-> None] /\ UNCHANGED <<rows, erased>>

Erase ==
  /\ erasure.at = 0 /\ Known
  /\ erasure' = [at |-> 1, deleted |-> None]
  /\ UNCHANGED <<clock, issue, rows, left, writer, check, erased, assistant, people>>

Delete ==
  LET t == Order[erasure.at] IN
  /\ erasure.at \in 1..5
  /\ IF Referred(t) /\ rows[t] > 0
       THEN Rollback
       ELSE /\ erasure' = [at |-> erasure.at + 1, deleted |-> [erasure.deleted EXCEPT ![t] = rows[t]]]
            /\ UNCHANGED <<rows, erased>>
  /\ UNCHANGED <<clock, issue, left, writer, check, assistant, people>>

\* Mutant: the user stays.
Commit_KeepsUser ==
  /\ erasure.at = 6
  /\ rows' = [t \in Tables |-> Left(t)] /\ erased' = TRUE
  /\ erasure' = [at |-> 0, deleted |-> None]
  /\ UNCHANGED <<clock, issue, left, writer, check, assistant, people>>

\* The user itself, and the end of the transaction.
Commit ==
  /\ erasure.at = 6
  /\ IF Referred("user")
       THEN Rollback
       ELSE /\ rows' = [[t \in Tables |-> Left(t)] EXCEPT !["user"] = 0] /\ erased' = TRUE
            /\ erasure' = [at |-> 0, deleted |-> None]
  /\ UNCHANGED <<clock, issue, left, writer, check, assistant, people>>
-----------------------------------------------------------------------------
Next ==
  \/ Tick \/ ADayLater \/ AskLater \/ Forget
  \/ \E c \in Calls : Ask(c) \/ Work(c) \/ NoReply(c) \/ Throws(c) \/ Reply(c) \/ Write(c)
  \/ \E verdict \in {"real", "false"} : StartReview(verdict)
  \/ GiveVerdict \/ \E s \in {"acknowledged", "resolved", "dismissed"} : SetStatus(s)
  \/ Resolve \/ Store \/ LogAlert \/ ReportAccess \/ StoreCheck
  \/ Erase \/ Delete \/ Commit

Spec == Init /\ [][Next]_vars

\* What is under way goes on, and an erasure that failed is asked for again.
Fairness ==
  /\ WF_vars(Delete) /\ WF_vars(Commit) /\ WF_vars(Erase)
  /\ WF_vars(Store) /\ WF_vars(StoreCheck)
FairSpec == Spec /\ Fairness
-----------------------------------------------------------------------------
\* No investigation undoes what people decided: once feedback was given, and no
\* status call came after it, the issue has the status that goes with it
\* (learner.ts:68-85, investigator.ts:121-130).
VerdictStands ==
  Exists /\ given # "none" => issue.status = (IF given = "real" THEN "resolved" ELSE "dismissed")

\* ... and the feedback itself stays in the evidence, however often the issue
\* is investigated afterwards; one that crosses an investigation may be lost,
\* as the evidence it read is written back.
FeedbackIsKept == Exists /\ ~crossed /\ given # "none" => issue.verdict = given

\* What people said of an issue stands.
DecisionsStand == TypeOK /\ VerdictStands /\ FeedbackIsKept

\* The answer a request is given from the cache is about the issue as it is,
\* unless a person changed it while the model was thinking or in the very
\* millisecond of the answer (investigator.ts:73-84, ai.ts:67-80).
AnswersAreCurrent ==
  Exists /\ Fresh /\ ~crossed => issue.ai.on = <<issue.status, issue.verdict>>

\* After an erasure was answered with ok there is nothing about the user, and
\* nothing comes back from a webhook, an investigation, a feedback or an access
\* check that had begun before (data-management.ts:52-97).
ErasedIsErased == erased => \A t \in Tables : rows[t] = 0

\* An erasure that is asked for gets through, whatever is stored meanwhile; the
\* exception is a user with an issue of which an alert was logged.
ErasureEnds == erasure.at # 0 ~> rows["user"] = 0 \/ rows["log"] > 0
-----------------------------------------------------------------------------
\* The inductive invariant behind the safety properties.  No time lies ahead of
\* the clock; what is under way is about the issue there is, and what an
\* investigation has seen of it is still so unless a person crossed it.
TimesAgree ==
  /\ issue.updated <= clock /\ issue.ai.at <= clock
  /\ \A c \in Calls : call[c].at # "idle" => call[c].stamp <= clock
  /\ review.at # "idle" => review.saw.ai.at <= clock

Untouched == ~Exists /\ Known => review.at = "idle" /\ \A c \in Calls : call[c].at = "idle"

CallsAgree ==
  Exists /\ ~crossed => \A c \in Calls : call[c].at # "idle" =>
    call[c].saw.verdict = issue.verdict /\ call[c].saw.status = issue.status

\* A transaction deletes what is there, and once it is past the issues, an
\* alert belongs to an issue that came later.
ErasureAgrees ==
  /\ \A t \in Tables : erasure.deleted[t] <= rows[t]
  /\ erasure.deleted["user"] = 0 /\ erasure.deleted["log"] = 0
  /\ erasure.at = 0 => \A t \in Tables : erasure.deleted[t] = 0
  /\ erasure.at \in 1..2 => erasure.deleted["issue"] = 0
  /\ rows["log"] > 0 => IF erasure.at > 2 THEN Left("issue") > 0 ELSE Exists

Gone == /\ ~Known => erased
        /\ erased => erasure.at = 0

IInv == /\ TypeOK /\ VerdictStands /\ FeedbackIsKept /\ AnswersAreCurrent /\ ErasedIsErased
        /\ TimesAgree /\ Untouched /\ CallsAgree /\ ErasureAgrees /\ Gone
=============================================================================
