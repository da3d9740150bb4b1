----------------------------- MODULE Ingestion -----------------------------
(***************************************************************************)
(* The path of a billing webhook from the provider to the entitlements:    *)
(* the HTTP handler (api/webhooks.ts), the BullMQ queue and its worker     *)
(* (queue/webhook-worker.ts), the pipeline (ingestion/pipeline.ts) and the *)
(* entitlement engine (module EntitlementEngine), with the admin retry of  *)
(* failed jobs (queue/dlq.ts).                                             *)
(*                                                                         *)
(* What goes wrong: the provider delivers a webhook again as long as it    *)
(* was not answered, and sometimes after; a call to the database or to     *)
(* Redis throws; an HTTP request or a worker dies between two calls; a     *)
(* worker that is alive loses the lock of its job, which then runs twice.  *)
(*                                                                         *)
(* A webhook is a body; Contents gives the canonical events it normalizes  *)
(* to.  The canonical event table is the set of stored idempotency keys.   *)
(***************************************************************************)
EXTENDS EntitlementTable, Naturals, Sequences, FiniteSets

CONSTANTS
  Logs,       \* identifiers of webhook_logs rows, one per delivery
  Bodies,     \* webhooks the provider has to deliver
  Contents,   \* Contents[b]: the sequence of events that b normalizes to
  Events,     \* canonical events, named by their idempotency keys
  Identified, \* the events that resolve to a user
  Entitled,   \* ... and to a product
  Sources,    \* billing sources
  Slots,      \* concurrent runs of the webhook processor
  NoEvent, NoLog, NoSlot, NoBody,
  MaxFaults,    \* bound: calls to the database or to Redis that throw
  MaxCrashes,   \* bound: requests and runs that die
  MaxLost,      \* bound: runs that lose the lock of their job
  MaxRetries    \* bound: retries of a failed job by the admin

ASSUME IngestionAssumption ==
  /\ Contents \in [Bodies -> Seq(Events)]
  /\ Entitled \subseteq Identified /\ Identified \subseteq Events
  /\ NoEvent \notin Events /\ NoLog \notin Logs
  /\ NoSlot \notin Slots /\ NoBody \notin Bodies
  /\ {MaxFaults, MaxCrashes, MaxLost, MaxRetries} \subseteq Nat

ATTEMPTS == 3       \* enqueueWebhookJob
MAX_STALLED == 1    \* BullMQ's default maxStalledCount

VARIABLES
  http,       \* http[l]: where the request that owns log row l is
  body,       \* body[l]: the webhook it carries
  acked,      \* webhooks the provider has a 200 for
  status,     \* status[l]: processing_status of the log row
  queue,      \* queue[l]: the BullMQ job webhook-<l>
  failNote,   \* jobs whose 'failed' event the worker has yet to handle
  at,         \* at[w]: the next call of run w
  log,        \* log[w]: the log row run w works on
  idx,        \* idx[w]: the event of the body run w is at
  errs,       \* errs[w]: some event of run w failed
  stored,     \* canonical_events: the idempotency keys stored
  checked,    \* events on which checkForIssues ran
  budget,     \* how many faults, crashes, lost locks and retries are left
  canon, rows, outcome, call, job, seen   \* the entitlement engine

engine == <<canon, rows, outcome, call, job, seen>>
request == <<http, body, acked>>
run == <<at, log, idx, errs>>
vars == <<request, status, queue, failNote, run, stored, checked, budget, engine>>

Engine == INSTANCE EntitlementEngine WITH Procs <- Slots, pc <- call

NoJob == [state |-> "none", attempts |-> 0, stalls |-> 0, owner |-> NoSlot]
Job == [state : {"none", "waiting", "active", "completed", "failed"},
        attempts : Nat, stalls : Nat, owner : Slots \cup {NoSlot}]

TypeOK ==
  /\ http \in [Logs -> {"none", "log", "enqueue", "unqueued", "reply", "done", "dead"}]
  /\ body \in [Logs -> Bodies \cup {NoBody}]
  /\ acked \subseteq Bodies
  /\ status \in [Logs -> {"none", "queued", "processing", "processed",
                          "skipped", "failed", "dlq"}]
  /\ queue \in [Logs -> Job]
  /\ failNote \subseteq Logs
  /\ at \in [Slots -> {"free", "mark", "normalize", "reject", "throw", "event",
                       "engine", "detect", "return"}]
  /\ log \in [Slots -> Logs \cup {NoLog}]
  /\ idx \in [Slots -> Nat \ {0}]
  /\ errs \in [Slots -> BOOLEAN]
  /\ stored \subseteq Events
  /\ checked \subseteq Events
  /\ budget \in [{"fault", "crash", "lost", "retry"} -> Nat]
  /\ Engine!TypeOK

Bounds == [fault |-> MaxFaults, crash |-> MaxCrashes, lost |-> MaxLost, retry |-> MaxRetries]

Init ==
  /\ http = [l \in Logs |-> "none"]
  /\ body = [l \in Logs |-> NoBody]
  /\ acked = {}
  /\ status = [l \in Logs |-> "none"]
  /\ queue = [l \in Logs |-> NoJob]
  /\ failNote = {}
  /\ at = [w \in Slots |-> "free"]
  /\ log = [w \in Slots |-> NoLog]
  /\ idx = [w \in Slots |-> 1]
  /\ errs = [w \in Slots |-> FALSE]
  /\ stored = {}
  /\ checked = {}
  /\ budget = Bounds
  /\ Engine!Init

\* A bounded misfortune of kind k happens.
Spend(k) == budget[k] > 0 /\ budget' = [budget EXCEPT ![k] = @ - 1]
-----------------------------------------------------------------------------
(***************************************************************************)
(* The HTTP handler.                                                       *)
(***************************************************************************)

\* A delivery of b passes the signature check; deliveries that do not, and
\* those answered 404 or 500 before the log row, leave no trace.
Receive(l, b) ==
  /\ http[l] = "none"
  /\ http' = [http EXCEPT ![l] = "log"]
  /\ body' = [body EXCEPT ![l] = b]
  /\ UNCHANGED <<acked, status, queue, failNote, run, stored, checked, budget, engine>>

InsertLog(l) ==
  /\ http[l] = "log"
  /\ http' = [http EXCEPT ![l] = "enqueue"]
  /\ status' = [status EXCEPT ![l] = "queued"]
  /\ UNCHANGED <<body, acked, queue, failNote, run, stored, checked, budget, engine>>

\* The insert throws: the handler answers 200 all the same.
InsertLogFails(l) ==
  /\ http[l] = "log"
  /\ Spend("fault")
  /\ http' = [http EXCEPT ![l] = "done"]
  /\ acked' = acked \cup {body[l]}
  /\ UNCHANGED <<body, status, queue, failNote, run, stored, checked, engine>>

Waiting == [NoJob EXCEPT !.state = "waiting"]

Enqueue(l) ==
  /\ http[l] = "enqueue"
  /\ http' = [http EXCEPT ![l] = "reply"]
  /\ queue' = [queue EXCEPT ![l] = Waiting]
  /\ UNCHANGED <<body, acked, status, failNote, run, stored, checked, budget, engine>>

\* queue.add throws; Redis may have taken the job before the error, and a run may
\* be through with it before the row is marked failed ...
EnqueueFails(l) ==
  /\ http[l] = "enqueue"
  /\ Spend("fault")
  /\ http' = [http EXCEPT ![l] = "unqueued"]
  /\ \E q \in {NoJob, Waiting} : queue' = [queue EXCEPT ![l] = q]
  /\ UNCHANGED <<body, acked, status, failNote, run, stored, checked, engine>>

MarkUnqueued(l) ==
  /\ http[l] = "unqueued"
  /\ http' = [http EXCEPT ![l] = "reply"]
  /\ status' = [status EXCEPT ![l] = "failed"]
  /\ UNCHANGED <<body, acked, queue, failNote, run, stored, checked, budget, engine>>

\* ... which is tried once.
MarkUnqueuedFails(l) ==
  /\ http[l] = "unqueued"
  /\ Spend("fault")
  /\ http' = [http EXCEPT ![l] = "reply"]
  /\ UNCHANGED <<body, acked, status, queue, failNote, run, stored, checked, engine>>

Reply(l) ==
  /\ http[l] = "reply"
  /\ http' = [http EXCEPT ![l] = "done"]
  /\ acked' = acked \cup {body[l]}
  /\ UNCHANGED <<body, status, queue, failNote, run, stored, checked, budget, engine>>

RequestDies(l) ==
  /\ http[l] \in {"log", "enqueue", "unqueued", "reply"}
  /\ Spend("crash")
  /\ http' = [http EXCEPT ![l] = "dead"]
  /\ UNCHANGED <<body, acked, status, queue, failNote, run, stored, checked, engine>>
-----------------------------------------------------------------------------
(***************************************************************************)
(* BullMQ's side of a job.                                                 *)
(***************************************************************************)
Take(w, l) ==
  /\ at[w] = "free"
  /\ queue[l].state = "waiting"
  /\ queue' = [queue EXCEPT ![l].state = "active", ![l].owner = w]
  /\ at' = [at EXCEPT ![w] = "mark"]
  /\ log' = [log EXCEPT ![w] = l]
  /\ idx' = [idx EXCEPT ![w] = 1]
  /\ errs' = [errs EXCEPT ![w] = FALSE]
  /\ UNCHANGED <<request, status, failNote, stored, checked, budget, engine>>

Owns(w) == queue[log[w]].state = "active" /\ queue[log[w]].owner = w

Release(w) ==
  /\ at' = [at EXCEPT ![w] = "free"]
  /\ log' = [log EXCEPT ![w] = NoLog]
  /\ UNCHANGED <<idx, errs>>

\* The processor returned; the job is completed unless its lock was lost.
Complete(w) ==
  /\ at[w] = "return"
  /\ queue' = IF Owns(w)
              THEN [queue EXCEPT ![log[w]].state = "completed", ![log[w]].owner = NoSlot]
              ELSE queue
  /\ Release(w)
  /\ UNCHANGED <<request, status, failNote, stored, checked, budget, engine>>

\* The processor threw, after the worker's catch had tried to mark the row
\* failed; the job waits for its next attempt until it has none left.
Throw(w) ==
  /\ at[w] = "throw"
  /\ IF Owns(w)
     THEN LET l == log[w] n == queue[l].attempts + 1 IN
          /\ queue' = [queue EXCEPT ![l] =
               [@ EXCEPT !.attempts = n, !.owner = NoSlot,
                         !.state = IF n >= ATTEMPTS THEN "failed" ELSE "waiting"]]
          /\ failNote' = failNote \cup {l}
     ELSE UNCHANGED <<queue, failNote>>
  /\ Release(w)
  /\ UNCHANGED <<request, status, stored, checked, budget, engine>>

\* worker.on('failed'): an asynchronous handler of its own.
HandleFailed(l) ==
  /\ l \in failNote
  /\ failNote' = failNote \ {l}
  /\ status' = IF queue[l].attempts >= ATTEMPTS
               THEN [status EXCEPT ![l] = "dlq"] ELSE status
  /\ UNCHANGED <<request, queue, run, stored, checked, budget, engine>>

\* Its update throws, which it only logs, or its process dies.
HandleFailedFails(l) ==
  /\ l \in failNote
  /\ Spend("fault")
  /\ failNote' = failNote \ {l}
  /\ UNCHANGED <<request, status, queue, run, stored, checked, engine>>

\* The stalled check gives the job of an expired lock back to the queue, and
\* fails it when that happened once too often.
Expire(l) ==
  LET n == queue[l].stalls + 1 IN
  /\ queue' = [queue EXCEPT ![l] =
       [@ EXCEPT !.stalls = n, !.owner = NoSlot,
                 !.state = IF n > MAX_STALLED THEN "failed" ELSE "waiting"]]
  /\ failNote' = IF n > MAX_STALLED THEN failNote \cup {l} ELSE failNote

\* The owner of the job died.
Stall(l) ==
  /\ queue[l].state = "active"
  /\ log[queue[l].owner] # l
  /\ Expire(l)
  /\ UNCHANGED <<request, status, run, stored, checked, budget, engine>>

\* The owner of the job lives on, too slow to renew its lock.
LoseLock(l) ==
  /\ queue[l].state = "active"
  /\ log[queue[l].owner] = l
  /\ Spend("lost")
  /\ Expire(l)
  /\ UNCHANGED <<request, status, run, stored, checked, engine>>

\* POST /admin/dlq/:id/retry, and retry-all one job after the other
RetryFailed(l) ==
  /\ queue[l].state = "failed"
  /\ Spend("retry")
  /\ queue' = [queue EXCEPT ![l].state = "waiting"]
  /\ UNCHANGED <<request, status, failNote, run, stored, checked, engine>>
-----------------------------------------------------------------------------
(***************************************************************************)
(* processWebhookJob and the pipeline.                                     *)
(***************************************************************************)
Goto(w, pc) == at' = [at EXCEPT ![w] = pc] /\ UNCHANGED <<log, idx, errs>>

SetStatus(w, s) == status' = [status EXCEPT ![log[w]] = s]

MarkProcessing(w) ==
  /\ at[w] = "mark"
  /\ SetStatus(w, "processing")
  /\ Goto(w, "normalize")
  /\ UNCHANGED <<request, queue, failNote, stored, checked, budget, engine>>

\* The update of the status is outside the try: the processor throws.
MarkProcessingFails(w) ==
  /\ at[w] = "mark"
  /\ Spend("fault")
  /\ Goto(w, "throw")
  /\ UNCHANGED <<request, status, queue, failNote, stored, checked, engine>>

Body(w) == Contents[body[log[w]]]

Normalize(w) ==
  /\ at[w] = "normalize"
  /\ IF Body(w) = <<>>
     THEN SetStatus(w, "skipped") /\ Goto(w, "return")
     ELSE Goto(w, "event") /\ UNCHANGED status
  /\ UNCHANGED <<request, queue, failNote, stored, checked, budget, engine>>

\* The connection is gone, the signature is too old by now, the normalizer or
\* the database throws.
NormalizeFails(w) ==
  /\ at[w] = "normalize"
  /\ Spend("fault")
  /\ Goto(w, "reject")
  /\ UNCHANGED <<request, status, queue, failNote, stored, checked, engine>>

\* The pipeline's own catch keeps the error: the job will complete.
Reject(w) ==
  /\ at[w] = "reject"
  /\ SetStatus(w, "failed")
  /\ Goto(w, "return")
  /\ UNCHANGED <<request, queue, failNote, stored, checked, budget, engine>>

\* The update in the catch throws: the worker's catch tries it once more.
RejectFails(w) ==
  /\ at[w] = "reject"
  /\ Spend("fault")
  /\ SetStatus(w, "failed") \/ UNCHANGED status
  /\ Goto(w, "throw")
  /\ UNCHANGED <<request, queue, failNote, stored, checked, engine>>

AtEvent(w) == at[w] = "event" /\ idx[w] <= Len(Body(w))
Event(w) == Body(w)[idx[w]]

Advance(w, failed) ==
  /\ at' = [at EXCEPT ![w] = "event"]
  /\ idx' = [idx EXCEPT ![w] = @ + 1]
  /\ errs' = [errs EXCEPT ![w] = @ \/ failed]
  /\ UNCHANGED log

\* processEvent is called.  Nothing here looks at what became of the event
\* before: that it is new follows from the insert.
StartCall(w, e) ==
  /\ outcome' = [outcome EXCEPT ![e] = "running"]
  /\ call' = [call EXCEPT ![w] = "upsert"]
  /\ job' = [job EXCEPT ![w] = e]
  /\ UNCHANGED <<canon, rows, seen>>

\* What follows the insert: the entitlement engine when user and product are
\* known, else the detectors when the user is.
StoredThen(w) ==
  \/ /\ Event(w) \in Entitled
     /\ StartCall(w, Event(w)) /\ Goto(w, "engine")
  \/ /\ Event(w) \in Identified \ Entitled
     /\ Goto(w, "detect") /\ UNCHANGED engine
  \/ /\ Event(w) \notin Identified
     /\ Advance(w, FALSE) /\ UNCHANGED engine

\* Mutant: the pipeline asks whether the event was checked, instead of relying
\* on the insert, to tell a duplicate.
Store_CheckThenAct(w) ==
  /\ AtEvent(w)
  /\ Event(w) \notin checked
  /\ stored' = stored \cup {Event(w)}
  /\ StoredThen(w)
  /\ UNCHANGED <<request, status, queue, failNote, checked, budget>>

\* The insert stores the event; nothing is awaited before the next call.
Store(w) ==
  /\ AtEvent(w)
  /\ Event(w) \notin stored
  /\ stored' = stored \cup {Event(w)}
  /\ StoredThen(w)
  /\ UNCHANGED <<request, status, queue, failNote, checked, budget>>

\* ON CONFLICT (idempotency_key) DO NOTHING
SkipDuplicate(w) ==
  /\ AtEvent(w)
  /\ Event(w) \in stored
  /\ Advance(w, FALSE)
  /\ UNCHANGED <<request, status, queue, failNote, stored, checked, budget, engine>>

\* Identity, product or insert throws: the loop notes it and goes on.
StoreFails(w) ==
  /\ AtEvent(w)
  /\ Spend("fault")
  /\ Advance(w, TRUE)
  /\ UNCHANGED <<request, status, queue, failNote, stored, checked, engine>>

EngineStep(w) ==
  /\ at[w] = "engine"
  /\ Engine!Step(w) /\ ~Engine!Abort(w)
  /\ IF call'[w] = "idle" THEN Goto(w, "detect") ELSE UNCHANGED run
  /\ UNCHANGED <<request, status, queue, failNote, stored, checked, budget>>

EngineFails(w) ==
  /\ at[w] = "engine"
  /\ Spend("fault")
  /\ Engine!Abort(w)
  /\ Advance(w, TRUE)
  /\ UNCHANGED <<request, status, queue, failNote, stored, checked>>

\* Mutant: a run that lost its lock stops before the detectors.
Detect_Owner(w) ==
  /\ at[w] = "detect"
  /\ Owns(w)
  /\ checked' = checked \cup {Event(w)}
  /\ Advance(w, FALSE)
  /\ UNCHANGED <<request, status, queue, failNote, stored, budget, engine>>

Detect(w) ==
  /\ at[w] = "detect"
  /\ checked' = checked \cup {Event(w)}
  /\ Advance(w, FALSE)
  /\ UNCHANGED <<request, status, queue, failNote, stored, budget, engine>>

AtEnd(w) == at[w] = "event" /\ idx[w] > Len(Body(w))

\* Mutant: the errors of the loop do not reach the status.
Finish_NoErrors(w) ==
  /\ AtEnd(w)
  /\ SetStatus(w, "processed")
  /\ Goto(w, "return")
  /\ UNCHANGED <<request, queue, failNote, stored, checked, budget, engine>>

Finish(w) ==
  /\ AtEnd(w)
  /\ SetStatus(w, IF errs[w] THEN "failed" ELSE "processed")
  /\ Goto(w, "return")
  /\ UNCHANGED <<request, queue, failNote, stored, checked, budget, engine>>

FinishFails(w) ==
  /\ AtEnd(w)
  /\ Spend("fault")
  /\ Goto(w, "reject")
  /\ UNCHANGED <<request, status, queue, failNote, stored, checked, engine>>

\* The process of run w dies.  Its job stays active until the stalled check.
RunDies(w) ==
  /\ at[w] # "free"
  /\ Spend("crash")
  /\ IF call[w] = "idle" THEN UNCHANGED engine ELSE Engine!Abort(w)
  /\ Release(w)
  /\ UNCHANGED <<request, status, queue, failNote, stored, checked>>
-----------------------------------------------------------------------------
\* What the requests and the runs do when nothing goes wrong ...
RequestStep(l) == InsertLog(l) \/ Enqueue(l) \/ MarkUnqueued(l) \/ Reply(l)
RunStep(w) ==
  \/ MarkProcessing(w) \/ Normalize(w) \/ Reject(w) \/ Store(w) \/ SkipDuplicate(w)
  \/ EngineStep(w) \/ Detect(w) \/ Finish(w) \/ Complete(w) \/ Throw(w)

\* ... and when something does.
RequestFault(l) ==
  InsertLogFails(l) \/ EnqueueFails(l) \/ MarkUnqueuedFails(l) \/ RequestDies(l)
RunFault(w) ==
  \/ MarkProcessingFails(w) \/ NormalizeFails(w) \/ RejectFails(w) \/ StoreFails(w)
  \/ EngineFails(w) \/ FinishFails(w) \/ RunDies(w)

JobStep(l) == (\E w \in Slots : Take(w, l)) \/ Stall(l) \/ HandleFailed(l)

Next ==
  \/ \E l \in Logs : \/ \E b \in Bodies : Receive(l, b)
                     \/ RequestStep(l) \/ RequestFault(l)
                     \/ JobStep(l) \/ HandleFailedFails(l)
                     \/ LoseLock(l) \/ RetryFailed(l)
  \/ \E w \in Slots : RunStep(w) \/ RunFault(w)

Spec == Init /\ [][Next]_vars

\* A request or a run that is not dead makes its next call, the workers take
\* waiting jobs, and the stalled check and the failed handler run: all of them
\* are loops of live processes.  The provider, the admin and the faults owe
\* nothing.
Fairness ==
  /\ \A l \in Logs : WF_vars(RequestStep(l)) /\ WF_vars(JobStep(l))
  /\ \A w \in Slots : WF_vars(RunStep(w))

FairSpec == Spec /\ Fairness
-----------------------------------------------------------------------------
\* The calls of processEvent that returned.
Settled == {"applied", "noTransition", "conflict"}

\* The pipeline keeps the guard that EntitlementEngine asks of its caller: the
\* unique idempotency key lets exactly one run call processEvent for an event,
\* however often the provider delivers it and however often its job runs
\* (pipeline.ts:240-281).  Every property of EntitlementEngine follows.
ImplementsEngine == Engine!Spec

\* A log row says "processed" only once every event of its webhook is in
\* canonical_events, whichever run, job or delivery stored it
\* (pipeline.ts:131-151).
ProcessedIsStored ==
  \A l \in Logs : status[l] = "processed" =>
    \A i \in 1..Len(Contents[body[l]]) : Contents[body[l]][i] \in stored

\* The detectors look at an event only after its transition was made, refused
\* or lost to another event, never while it is pending or after it threw
\* (pipeline.ts:279-286).
CheckedIsSettled ==
  \A e \in checked : e \in stored /\ (e \in Entitled => outcome[e] \in Settled)

\* What the rows of the log say of the events is true.
StatusIsTrue == TypeOK /\ ProcessedIsStored /\ CheckedIsSettled

\* A job that is waiting or running comes to an end, in the completed or in the
\* failed set, whatever runs die or lose their lock.
JobsEnd ==
  \A l \in Logs : queue[l].state \in {"waiting", "active"} ~>
                   queue[l].state \in {"completed", "failed"}

\* What went wrong so far.
Had(k) == budget[k] < Bounds[k]
Accidents == {k \in {"fault", "crash", "lost"} : Had(k)}

\* A webhook the provider got a 200 for has all its events stored in the end.
\* This is what the queue is for: it holds while the database and Redis answer,
\* and survives the death of a request or a run, or the loss of a lock, though
\* not both: maxStalledCount is 1.
AckedIsStored ==
  \A b \in Bodies : b \in acked ~>
    \/ Had("fault") \/ Cardinality(Accidents) > 1
    \/ \A i \in 1..Len(Contents[b]) : Contents[b][i] \in stored

\* ... and when nothing dies either, has taken its effect on the entitlements
\* and was looked at by the detectors, even if its job ran twice.
TookEffect(e) ==
  /\ e \in stored
  /\ e \in Identified => e \in checked
  /\ e \in Entitled => outcome[e] \in Settled
AckedTakesEffect ==
  \A b \in Bodies : b \in acked ~>
    \/ Had("fault") \/ Had("crash")
    \/ \A i \in 1..Len(Contents[b]) : TookEffect(Contents[b][i])

\* Webhooks get through.
WebhooksGetThrough == JobsEnd /\ AckedIsStored /\ AckedTakesEffect
-----------------------------------------------------------------------------
\* The inductive invariant behind StatusIsTrue and ImplementsEngine.  A run is
\* in a call of the engine exactly when the slot of that name is, for the event
\* it is at, which is stored; an event that went through the engine before the
\* detectors is settled; and without an error every event behind the run is
\* stored.
RunAgrees(w) ==
  /\ at[w] = "free" <=> log[w] = NoLog
  /\ at[w] # "free" => http[log[w]] # "none"
  /\ at[w] \in {"mark", "normalize"} => idx[w] = 1
  /\ at[w] = "engine" <=> call[w] # "idle"
  /\ at[w] \in {"engine", "detect"} => idx[w] <= Len(Body(w)) /\ Event(w) \in stored
  /\ at[w] = "engine" => job[w] = Event(w)
  /\ at[w] = "detect" /\ Event(w) \in Entitled => outcome[Event(w)] \in Settled
  /\ at[w] \in {"event", "engine", "detect"} /\ ~errs[w] =>
       \A i \in 1..Len(Body(w)) : i < idx[w] => Body(w)[i] \in stored

\* A row has a webhook once its delivery was received, and never before that a
\* job or an outcome.
LogAgrees(l) ==
  /\ http[l] = "none" <=> body[l] = NoBody
  /\ queue[l].state # "none" \/ status[l] = "processed" => http[l] # "none"

\* The engine worked on no event that is not stored.
EngineAgrees == \A e \in Events : outcome[e] # "new" => e \in stored

IInv ==
  /\ TypeOK /\ ProcessedIsStored /\ CheckedIsSettled
  /\ \A w \in Slots : RunAgrees(w)
  /\ \A l \in Logs : LogAgrees(l)
  /\ EngineAgrees /\ Engine!IInv
-----------------------------------------------------------------------------
\* A row counted as "Successfully processed" (dashboard WebhookLogs.tsx:190-191)
\* has no event whose entitlement update was cut short.  It does not hold: the
\* second attempt of a run that died between the insert and the update finds
\* the events stored and skips them.
ProcessedTookEffect ==
  \A l \in Logs : status[l] = "processed" =>
    \A i \in 1..Len(Contents[body[l]]) : outcome[Contents[body[l]][i]] # "aborted"
=============================================================================
