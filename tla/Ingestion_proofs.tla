-------------------------- MODULE Ingestion_proofs --------------------------
(***************************************************************************)
(* Proofs about Ingestion, for any webhooks, deliveries, concurrent runs   *)
(* and bounds on what goes wrong.                                          *)
(***************************************************************************)
EXTENDS Ingestion, TLAPS

\* The engine of this module with what EntitlementEngine_proofs proves of it;
\* the timeline of EntitlementReplay is of no matter here.
Proved == INSTANCE EntitlementEngine_proofs WITH Procs <- Slots, pc <- call,
            Timeline <- <<>>, calm <- FALSE

\* What the proofs of the engine assume.
LEMMA EngineIsSetUp ==
  /\ NoEvent \notin Events
  /\ <<>> \in Seq(Events) /\ \A i, j \in DOMAIN <<>> : <<>>[i] = <<>>[j] => i = j
  BY IngestionAssumption

\* Proved is Engine under another name.
LEMMA SameTable ==
  /\ Proved!States = Engine!States
  /\ Proved!EventTypes = Engine!EventTypes
  /\ Proved!STATE_TRANSITIONS = Engine!STATE_TRANSITIONS
  /\ \A s, type : /\ Proved!HasTransition(s, type) <=> Engine!HasTransition(s, type)
                  /\ Proved!NextState(s, type) = Engine!NextState(s, type)
  <1>1. Proved!STATE_TRANSITIONS = Engine!STATE_TRANSITIONS
    BY DEF Proved!STATE_TRANSITIONS, Engine!STATE_TRANSITIONS, Proved!On, Engine!On
  <1>2. Proved!States = Engine!States /\ Proved!EventTypes = Engine!EventTypes
    BY DEF Proved!States, Engine!States, Proved!EventTypes, Engine!EventTypes
  <1>3. QED
    BY <1>1, <1>2 DEF Proved!HasTransition, Engine!HasTransition,
       Proved!NextState, Engine!NextState

LEMMA SameRows ==
  /\ Proved!Canon = Engine!Canon /\ Proved!Entry = Engine!Entry
  /\ Proved!Row = Engine!Row /\ Proved!NoRow = Engine!NoRow
  /\ Proved!EmptyRow = Engine!EmptyRow
  BY SameTable DEF Proved!Canon, Engine!Canon, Proved!Entry, Engine!Entry,
     Proved!Row, Engine!Row, Proved!NoRow, Engine!NoRow,
     Proved!EmptyRow, Engine!EmptyRow

LEMMA SameInit == Proved!Init <=> Engine!Init
  BY SameRows DEF Proved!Init, Engine!Init

LEMMA SameTypeOK == Proved!TypeOK <=> Engine!TypeOK
  BY SameRows DEF Proved!TypeOK, Engine!TypeOK

LEMMA SameNewRow ==
  \A p : /\ Proved!Type(p) = Engine!Type(p) /\ Proved!Source(p) = Engine!Source(p)
         /\ Proved!Transition(p) = Engine!Transition(p)
         /\ Proved!NewRow(p) = Engine!NewRow(p)
  BY SameTable DEF Proved!Type, Engine!Type, Proved!Source, Engine!Source,
     Proved!Transition, Engine!Transition, Proved!NewRow, Engine!NewRow

LEMMA SameStep ==
  \A p : /\ Proved!Step(p) <=> Engine!Step(p)
         /\ \A e : Proved!Begin(p, e) <=> Engine!Begin(p, e)
  <1>1. \A p, f : Proved!Return(p, f) <=> Engine!Return(p, f)
    BY SameRows DEF Proved!Return, Engine!Return
  <1>2. \A p : Proved!Upsert(p) <=> Engine!Upsert(p)
    BY SameRows, SameNewRow DEF Proved!Upsert, Engine!Upsert
  <1>3. \A p : Proved!SelectTransition(p) <=> Engine!SelectTransition(p)
    BY SameTable, SameNewRow DEF Proved!SelectTransition, Engine!SelectTransition
  <1>4. \A p : Proved!SelectNoTransition(p) <=> Engine!SelectNoTransition(p)
    BY <1>1, SameTable, SameNewRow
       DEF Proved!SelectNoTransition, Engine!SelectNoTransition
  <1>5. \A p : Proved!UpdateApplied(p) <=> Engine!UpdateApplied(p)
    BY <1>1, SameNewRow DEF Proved!UpdateApplied, Engine!UpdateApplied
  <1>6. \A p : Proved!UpdateConflict(p) <=> Engine!UpdateConflict(p)
    BY <1>1, SameNewRow DEF Proved!UpdateConflict, Engine!UpdateConflict
  <1>7. \A p : Proved!Abort(p) <=> Engine!Abort(p)
    BY <1>1 DEF Proved!Abort, Engine!Abort
  <1>8. QED
    BY <1>2, <1>3, <1>4, <1>5, <1>6, <1>7
       DEF Proved!Step, Engine!Step, Proved!Begin, Engine!Begin

LEMMA SameNext == [Proved!Next]_(Proved!vars) <=> [Engine!Next]_(Engine!vars)
  BY SameStep DEF Proved!Next, Engine!Next, Proved!vars, Engine!vars

LEMMA SameIInv == Proved!IInv <=> Engine!IInv
  <1>1. \A row : Proved!Chained(row) <=> Engine!Chained(row)
    BY DEF Proved!Chained, Engine!Chained
  <1>2. \A row, s : Proved!Faithful(row, s) <=> Engine!Faithful(row, s)
    BY SameTable DEF Proved!Faithful, Engine!Faithful
  <1>3. Proved!SlotsAgree <=> Engine!SlotsAgree
    BY SameNewRow, SameRows DEF Proved!SlotsAgree, Engine!SlotsAgree
  <1>4. Proved!SnapshotsAgree <=> Engine!SnapshotsAgree
    BY <1>1, <1>2, SameNewRow, SameRows, SameTable
       DEF Proved!SnapshotsAgree, Engine!SnapshotsAgree
  <1>5. Proved!HistoryIsAPath <=> Engine!HistoryIsAPath
    BY <1>1 DEF Proved!HistoryIsAPath, Engine!HistoryIsAPath
  <1>6. Proved!HistoryIsFaithful <=> Engine!HistoryIsFaithful
    BY <1>2 DEF Proved!HistoryIsFaithful, Engine!HistoryIsFaithful
  <1>7. Proved!ConflictHasAWinner <=> Engine!ConflictHasAWinner
    BY DEF Proved!ConflictHasAWinner, Engine!ConflictHasAWinner
  <1>8. QED
    BY <1>3, <1>4, <1>5, <1>6, <1>7, SameTypeOK DEF Proved!IInv, Engine!IInv
-----------------------------------------------------------------------------
\* A run that has a log row works on a webhook, whose events are canonical
\* events.
LEMMA BodyOfARun ==
  ASSUME IInv, NEW w \in Slots, at[w] # "free"
  PROVE  /\ log[w] \in Logs /\ http[log[w]] # "none"
         /\ body[log[w]] \in Bodies /\ Body(w) \in Seq(Events)
         /\ Len(Body(w)) \in Nat /\ \A i \in 1..Len(Body(w)) : Body(w)[i] \in Events
  <1>1. log[w] \in Logs /\ http[log[w]] # "none"
    BY DEF IInv, RunAgrees, TypeOK
  <1>2. body[log[w]] \in Bodies
    BY <1>1 DEF IInv, LogAgrees, TypeOK
  <1>3. Body(w) \in Seq(Events)
    BY <1>2, IngestionAssumption DEF Body
  <1>4. QED
    BY <1>1, <1>2, <1>3

LEMMA EventOfARun ==
  ASSUME IInv, NEW w \in Slots,
         AtEvent(w) \/ at[w] \in {"engine", "detect"}
  PROVE  idx[w] \in 1..Len(Body(w)) /\ Event(w) \in Events
  <1>1. at[w] # "free" /\ idx[w] <= Len(Body(w)) /\ idx[w] \in Nat \ {0}
    BY DEF IInv, RunAgrees, AtEvent, TypeOK
  <1>2. QED
    BY <1>1, BodyOfARun DEF Event

\* What one round trip of a call of processEvent does to the calls and to the
\* fates of the events.
LEMMA RoundTrip ==
  ASSUME IInv, NEW w \in Slots, Engine!Step(w)
  PROVE  /\ call[w] # "idle" /\ job[w] \in Events /\ outcome[job[w]] = "running"
         /\ \A v \in Slots \ {w} : call'[v] = call[v] /\ job'[v] = job[v]
         /\ \A e \in Events \ {job[w]} : outcome'[e] = outcome[e]
         /\ \/ call'[w] # "idle" /\ job'[w] = job[w] /\ outcome' = outcome
            \/ call'[w] = "idle" /\ outcome'[job[w]] \in Settled
            \/ call'[w] = "idle" /\ outcome'[job[w]] = "aborted" /\ Engine!Abort(w)
  <1>1. call[w] # "idle" /\ job[w] \in Events /\ outcome[job[w]] = "running"
    BY DEF IInv, Engine!IInv, Engine!SlotsAgree, Engine!Step, Engine!Upsert,
       Engine!SelectTransition, Engine!SelectNoTransition, Engine!UpdateApplied,
       Engine!UpdateConflict, Engine!Abort
  <1>2. Engine!TypeOK
    BY DEF IInv, TypeOK
  <1>3. ASSUME NEW f, Engine!Return(w, f)
        PROVE  /\ \A v \in Slots \ {w} : call'[v] = call[v] /\ job'[v] = job[v]
               /\ \A e \in Events \ {job[w]} : outcome'[e] = outcome[e]
               /\ call'[w] = "idle" /\ outcome'[job[w]] = f
    BY <1>1, <1>2, <1>3 DEF Engine!Return, Engine!TypeOK
  <1>4. CASE Engine!Upsert(w) \/ Engine!SelectTransition(w)
    BY <1>1, <1>2, <1>4 DEF Engine!Upsert, Engine!SelectTransition, Engine!TypeOK
  <1>5. CASE Engine!SelectNoTransition(w) \/ Engine!UpdateApplied(w) \/ Engine!UpdateConflict(w)
    BY <1>1, <1>3, <1>5
       DEF Engine!SelectNoTransition, Engine!UpdateApplied, Engine!UpdateConflict, Settled
  <1>6. CASE Engine!Abort(w)
    BY <1>1, <1>3, <1>6 DEF Engine!Abort
  <1>7. QED
    BY <1>4, <1>5, <1>6 DEF Engine!Step

\* The unique idempotency key hands an event to the engine once.
LEMMA CallIsABegin ==
  ASSUME IInv, NEW w \in Slots, AtEvent(w), Event(w) \notin stored,
         StartCall(w, Event(w))
  PROVE  Engine!Begin(w, Event(w)) /\ Event(w) \in Events
  <1>1. Event(w) \in Events /\ outcome[Event(w)] = "new"
    BY EventOfARun DEF IInv, EngineAgrees
  <1>2. call[w] = "idle"
    BY DEF IInv, RunAgrees, AtEvent
  <1>3. QED
    BY <1>1, <1>2 DEF StartCall, Engine!Begin

\* Every step of a request, the queue, a run, a fault or the admin is a step
\* of the engine or leaves it alone.
LEMMA EngineNext ==
  ASSUME IInv, [Next]_vars
  PROVE  [Engine!Next]_(Engine!vars)
  <1> USE DEF engine, Engine!vars
  <1>1. ASSUME NEW w \in Slots, Store(w)
        PROVE  [Engine!Next]_(Engine!vars)
    BY <1>1, CallIsABegin DEF Store, StoredThen, Engine!Next
  <1>2. ASSUME NEW w \in Slots, EngineStep(w) \/ EngineFails(w) \/ RunDies(w)
        PROVE  [Engine!Next]_(Engine!vars)
    BY <1>2 DEF EngineStep, EngineFails, RunDies, Engine!Next, Engine!Step
  <1>3. ASSUME NEW w \in Slots, RunStep(w) \/ RunFault(w)
        PROVE  [Engine!Next]_(Engine!vars)
    BY <1>1, <1>2, <1>3 DEF RunStep, RunFault, MarkProcessing, Normalize, Reject,
       SkipDuplicate, Detect, Finish, Complete, Throw, MarkProcessingFails,
       NormalizeFails, RejectFails, StoreFails, FinishFails
  <1>4. ASSUME NEW l \in Logs, NEW b \in Bodies, Receive(l, b)
        PROVE  [Engine!Next]_(Engine!vars)
    BY <1>4 DEF Receive
  <1>5. ASSUME NEW l \in Logs, RequestStep(l) \/ RequestFault(l)
        PROVE  [Engine!Next]_(Engine!vars)
    BY <1>5 DEF RequestStep, RequestFault, InsertLog, Enqueue, Reply, InsertLogFails,
       EnqueueFails, MarkUnqueued, MarkUnqueuedFails, RequestDies
  <1>6. ASSUME NEW l \in Logs,
               JobStep(l) \/ HandleFailedFails(l) \/ LoseLock(l) \/ RetryFailed(l)
        PROVE  [Engine!Next]_(Engine!vars)
    BY <1>6 DEF JobStep, Take, Stall, HandleFailed, HandleFailedFails, LoseLock,
       RetryFailed
  <1>7. QED
    BY <1>3, <1>4, <1>5, <1>6 DEF Next, vars

LEMMA EngineIInvStep ==
  ASSUME IInv, [Next]_vars
  PROVE  Engine!IInv'
  <1>1. Proved!IInv /\ [Proved!Next]_(Proved!vars)
    BY EngineNext, SameIInv, SameNext DEF IInv
  <1>2. Proved!IInv'
    BY <1>1, EngineIsSetUp, Proved!IInvStep
  <1>3. QED
    BY <1>2, SameIInv, PTL
-----------------------------------------------------------------------------
\* What the provider, the requests, the queue and the admin do: none of it
\* touches the events or the engine, and only Take touches a run.
Outside ==
  \E l \in Logs : \/ \E b \in Bodies : Receive(l, b)
                 \/ RequestStep(l) \/ RequestFault(l)
                 \/ JobStep(l) \/ HandleFailedFails(l)
                 \/ LoseLock(l) \/ RetryFailed(l)

LEMMA OutsideKeeps ==
  ASSUME IInv, Outside
  PROVE  /\ UNCHANGED <<stored, checked, engine>>
         /\ \A l \in Logs : http[l] # "none" => http'[l] # "none" /\ body'[l] = body[l]
         /\ \A l \in Logs : status'[l] = "processed" => status[l] = "processed"
         /\ UNCHANGED run \/ \E l \in Logs, w \in Slots : Take(w, l)
  <1> USE DEF IInv, TypeOK, request
  <1>1. ASSUME NEW l \in Logs, NEW b \in Bodies, Receive(l, b)
        PROVE  /\ UNCHANGED <<stored, checked, engine, run, status>>
               /\ \A k \in Logs : http[k] # "none" => http'[k] # "none" /\ body'[k] = body[k]
    BY <1>1 DEF Receive
  <1>2. ASSUME NEW l \in Logs, RequestStep(l) \/ RequestFault(l)
        PROVE  /\ UNCHANGED <<stored, checked, engine, run>>
               /\ \A k \in Logs : http[k] # "none" => http'[k] # "none" /\ body'[k] = body[k]
               /\ \A k \in Logs : status'[k] = "processed" => status[k] = "processed"
    BY <1>2 DEF RequestStep, RequestFault, InsertLog, InsertLogFails, Enqueue,
       EnqueueFails, MarkUnqueued, MarkUnqueuedFails, Reply, RequestDies
  <1>3. ASSUME NEW l \in Logs,
               \/ Stall(l) \/ HandleFailed(l) \/ HandleFailedFails(l)
               \/ LoseLock(l) \/ RetryFailed(l)
        PROVE  /\ UNCHANGED <<stored, checked, engine, run, request>>
               /\ \A k \in Logs : status'[k] = "processed" => status[k] = "processed"
    BY <1>3 DEF Stall, HandleFailed, HandleFailedFails, LoseLock, RetryFailed
  <1>4. ASSUME NEW l \in Logs, NEW w \in Slots, Take(w, l)
        PROVE  UNCHANGED <<stored, checked, engine, request, status>>
    BY <1>4 DEF Take
  <1>5. QED
    BY <1>1, <1>2, <1>3, <1>4 DEF Outside, JobStep

LEMMA StepOutsideOrRun ==
  ASSUME [Next]_vars
  PROVE  Outside \/ (\E w \in Slots : RunStep(w) \/ RunFault(w)) \/ UNCHANGED vars
  BY DEF Next, Outside

\* What the steps of a run leave alone.
LEMMA RunKeeps ==
  ASSUME IInv, NEW w \in Slots, RunStep(w) \/ RunFault(w)
  PROVE  /\ UNCHANGED request
         /\ stored \subseteq stored'
         /\ \A v \in Slots \ {w} : /\ at'[v] = at[v] /\ log'[v] = log[v]
                                  /\ idx'[v] = idx[v] /\ errs'[v] = errs[v]
  BY DEF IInv, TypeOK, run, Goto, Advance, Release, RunStep, RunFault, MarkProcessing,
     Normalize, Reject, Store, StoredThen, SkipDuplicate, EngineStep, Detect, Finish,
     Complete, Throw, MarkProcessingFails, NormalizeFails, RejectFails, StoreFails,
     EngineFails, FinishFails, RunDies

\* ... and of the engine: a run calls it only for its own event.
LEMMA RunKeepsCalls ==
  ASSUME IInv, NEW w \in Slots, RunStep(w) \/ RunFault(w)
  PROVE  /\ \A v \in Slots \ {w} : call'[v] = call[v] /\ job'[v] = job[v]
         /\ \A e \in Events : outcome[e] \in Settled => outcome'[e] = outcome[e]
         /\ \A e \in Events : outcome'[e] # "new" => e \in stored'
  <1>1. ASSUME Store(w)
        PROVE  /\ \A v \in Slots \ {w} : call'[v] = call[v] /\ job'[v] = job[v]
               /\ \A e \in Events : outcome[e] \in Settled => outcome'[e] = outcome[e]
               /\ \A e \in Events : outcome'[e] # "new" => e \in stored'
    <2>1. CASE StartCall(w, Event(w))
      <3>1. Event(w) \in Events /\ outcome[Event(w)] = "new"
        BY <1>1, <2>1, CallIsABegin DEF Store, Engine!Begin
      <3>2. QED
        BY <1>1, <2>1, <3>1 DEF Store, StartCall, IInv, TypeOK, Engine!TypeOK,
           EngineAgrees, Settled
    <2>2. CASE UNCHANGED engine
      BY <1>1, <2>2 DEF Store, engine, IInv, EngineAgrees
    <2>3. QED
      BY <1>1, <2>1, <2>2 DEF Store, StoredThen
  <1>2. ASSUME Engine!Step(w), stored' = stored
        PROVE  /\ \A v \in Slots \ {w} : call'[v] = call[v] /\ job'[v] = job[v]
               /\ \A e \in Events : outcome[e] \in Settled => outcome'[e] = outcome[e]
               /\ \A e \in Events : outcome'[e] # "new" => e \in stored'
    BY <1>2, RoundTrip DEF Settled, IInv, EngineAgrees
  <1>3. CASE EngineStep(w) \/ EngineFails(w) \/ RunDies(w)
    BY <1>2, <1>3 DEF EngineStep, EngineFails, RunDies, Engine!Step, engine, IInv,
       EngineAgrees
  <1>4. CASE UNCHANGED <<stored, engine>>
    BY <1>4 DEF engine, IInv, EngineAgrees
  <1>5. QED
    BY <1>1, <1>3, <1>4 DEF RunStep, RunFault, MarkProcessing, Normalize, Reject,
       SkipDuplicate, Detect, Finish, Complete, Throw, MarkProcessingFails,
       NormalizeFails, RejectFails, StoreFails, FinishFails

\* Nothing that is stored, received or settled is undone.
LEMMA Monotone ==
  ASSUME IInv, [Next]_vars
  PROVE  /\ stored \subseteq stored'
         /\ \A l \in Logs : http[l] # "none" => http'[l] # "none" /\ body'[l] = body[l]
         /\ \A e \in Events : outcome[e] \in Settled => outcome'[e] = outcome[e]
         /\ EngineAgrees'
  <1>1. CASE Outside
    BY <1>1, OutsideKeeps DEF engine, IInv, EngineAgrees
  <1>2. ASSUME NEW w \in Slots, RunStep(w) \/ RunFault(w)
        PROVE  /\ stored \subseteq stored'
               /\ UNCHANGED request
               /\ \A e \in Events : outcome[e] \in Settled => outcome'[e] = outcome[e]
               /\ EngineAgrees'
    BY <1>2, RunKeeps, RunKeepsCalls DEF EngineAgrees
  <1>3. CASE UNCHANGED vars
    BY <1>3 DEF vars, request, engine, IInv, EngineAgrees
  <1>4. QED
    BY <1>1, <1>2, <1>3, StepOutsideOrRun DEF request
-----------------------------------------------------------------------------
LEMMA LogAgreesStep ==
  ASSUME IInv, [Next]_vars, NEW l \in Logs
  PROVE  LogAgrees(l)'
  <1> USE DEF IInv, TypeOK, LogAgrees
  <1>1. ASSUME NEW k \in Logs, NEW b \in Bodies, Receive(k, b)
        PROVE  LogAgrees(l)'
    BY <1>1, IngestionAssumption DEF Receive
  <1>2. ASSUME NEW k \in Logs, RequestStep(k) \/ RequestFault(k)
        PROVE  LogAgrees(l)'
    BY <1>2 DEF RequestStep, RequestFault, InsertLog, InsertLogFails, Enqueue,
       EnqueueFails, MarkUnqueued, MarkUnqueuedFails, Reply, RequestDies
  <1>3. ASSUME NEW k \in Logs, NEW w \in Slots, Take(w, k)
        PROVE  LogAgrees(l)'
    BY <1>3 DEF Take, request
  <1>4. ASSUME NEW k \in Logs,
               \/ Stall(k) \/ HandleFailed(k) \/ HandleFailedFails(k)
               \/ LoseLock(k) \/ RetryFailed(k)
        PROVE  LogAgrees(l)'
    BY <1>4 DEF Stall, HandleFailed, HandleFailedFails, LoseLock, RetryFailed, Expire,
       request
  <1>5. ASSUME NEW w \in Slots, RunStep(w) \/ RunFault(w)
        PROVE  LogAgrees(l)'
    <2>1. UNCHANGED request
      BY <1>5, RunKeeps
    <2>2. at[w] # "free"
      BY <1>5 DEF RunStep, RunFault, MarkProcessing, Normalize, Reject, Store, AtEvent,
         SkipDuplicate, EngineStep, Detect, Finish, AtEnd, Complete, Throw,
         MarkProcessingFails, NormalizeFails, RejectFails, StoreFails, EngineFails,
         FinishFails, RunDies
    <2>3. http[log[w]] # "none" /\ log[w] \in Logs
      BY <2>2, BodyOfARun
    <2>4. queue'[l].state # "none" => queue[l].state # "none" \/ l = log[w]
      BY <1>5, <2>3 DEF RunStep, RunFault, MarkProcessing, Normalize, Reject, Store,
         SkipDuplicate, EngineStep, Detect, Finish, Complete, Throw,
         MarkProcessingFails, NormalizeFails, RejectFails, StoreFails, EngineFails,
         FinishFails, RunDies
    <2>5. status'[l] = status[l] \/ l = log[w]
      BY <1>5, <2>3 DEF RunStep, RunFault, MarkProcessing, Normalize, Reject, Store,
         SkipDuplicate, EngineStep, Detect, Finish, Complete, Throw, SetStatus,
         MarkProcessingFails, NormalizeFails, RejectFails, StoreFails, EngineFails,
         FinishFails, RunDies
    <2>6. QED
      BY <2>1, <2>3, <2>4, <2>5 DEF request
  <1>6. CASE UNCHANGED vars
    BY <1>6 DEF vars, request
  <1>7. QED
    BY <1>1, <1>2, <1>3, <1>4, <1>5, <1>6 DEF Next, JobStep

\* What RunAgrees says of a run holds on while others move.
LEMMA RunStays ==
  ASSUME IInv, [Next]_vars, NEW w \in Slots,
         at'[w] = at[w], log'[w] = log[w], idx'[w] = idx[w], errs'[w] = errs[w],
         call'[w] = call[w], job'[w] = job[w]
  PROVE  RunAgrees(w)'
  <1>1. CASE at[w] = "free"
    BY <1>1 DEF IInv, RunAgrees
  <1>2. CASE at[w] # "free"
    <2>1. /\ log[w] \in Logs /\ http[log[w]] # "none"
          /\ Len(Body(w)) \in Nat
          /\ \A i \in 1..Len(Body(w)) : Body(w)[i] \in Events
      BY <1>2, BodyOfARun
    <2>2. /\ http'[log[w]] # "none" /\ Body(w)' = Body(w) /\ Event(w)' = Event(w)
          /\ stored \subseteq stored'
          /\ \A e \in Events : outcome[e] \in Settled => outcome'[e] = outcome[e]
      BY <2>1, Monotone DEF Body, Event
    <2>3. at[w] = "detect" => Event(w) \in Events
      BY EventOfARun
    <2>4. RunAgrees(w)
      BY DEF IInv
    <2>5. QED
      BY <1>2, <2>1, <2>2, <2>3, <2>4 DEF RunAgrees
  <1>3. QED
    BY <1>1, <1>2

\* A run that goes on to the next event leaves a stored one behind, or an error.
LEMMA AdvanceAgrees ==
  ASSUME IInv, [Next]_vars, NEW w \in Slots, NEW failed \in BOOLEAN,
         AtEvent(w) \/ at[w] \in {"engine", "detect"},
         Advance(w, failed), call'[w] = "idle",
         failed \/ Event(w) \in stored'
  PROVE  RunAgrees(w)'
  <1>1. /\ log[w] \in Logs /\ http'[log[w]] # "none" /\ Body(w)' = Body(w)
        /\ stored \subseteq stored' /\ at[w] \in {"event", "engine", "detect"}
    BY BodyOfARun, Monotone DEF AtEvent, Body, Advance
  <1>2. /\ at'[w] = "event" /\ log'[w] = log[w] /\ idx'[w] = idx[w] + 1
        /\ errs'[w] = (errs[w] \/ failed) /\ idx[w] \in Nat
        /\ Len(Body(w)) \in Nat
    BY <1>1, BodyOfARun DEF Advance, IInv, TypeOK
  <1>3. log[w] # NoLog
    BY <1>1, IngestionAssumption
  <1>4. ASSUME ~errs'[w], NEW i \in 1..Len(Body(w)), i < idx[w] + 1
        PROVE  Body(w)[i] \in stored'
    <2>1. ~errs[w] /\ ~failed
      BY <1>2, <1>4, Zenon
    <2>2. CASE i = idx[w]
      BY <2>1, <2>2 DEF Event
    <2>3. CASE i < idx[w]
      BY <1>1, <2>1, <2>3 DEF IInv, RunAgrees
    <2>4. QED
      BY <1>2, <1>4, <2>2, <2>3
  <1>5. QED
    BY <1>1, <1>2, <1>3, <1>4 DEF RunAgrees

LEMMA RunAgreesStep ==
  ASSUME IInv, [Next]_vars, NEW w \in Slots
  PROVE  RunAgrees(w)'
  <1>1. CASE UNCHANGED <<run, engine>>
    BY <1>1, RunStays DEF run, engine
  <1>2. ASSUME NEW l \in Logs, NEW v \in Slots, Take(v, l)
        PROVE  RunAgrees(w)'
    <2>1. CASE v = w
      <3>1. /\ at'[w] = "mark" /\ log'[w] = l /\ idx'[w] = 1 /\ UNCHANGED <<call, http>>
            /\ at[w] = "free"
        BY <1>2, <2>1 DEF Take, engine, request, IInv, TypeOK
      <3>2. http[l] # "none" /\ call[w] = "idle" /\ l # NoLog
        BY <1>2, <3>1, IngestionAssumption DEF Take, IInv, RunAgrees, LogAgrees
      <3>3. QED
        BY <3>1, <3>2 DEF RunAgrees
    <2>2. CASE v # w
      BY <1>2, <2>2, RunStays DEF Take, engine, IInv, TypeOK
    <2>3. QED
      BY <2>1, <2>2
  <1>3. ASSUME NEW v \in Slots \ {w}, RunStep(v) \/ RunFault(v)
        PROVE  RunAgrees(w)'
    BY <1>3, RunKeeps, RunKeepsCalls, RunStays
  <1>4. ASSUME RunStep(w) \/ RunFault(w)
        PROVE  RunAgrees(w)'
    <2>1. ASSUME at[w] # "free", Release(w), call'[w] = "idle"
          PROVE  RunAgrees(w)'
      BY <2>1 DEF Release, RunAgrees, IInv, TypeOK
    <2>2. ASSUME NEW pc \in {"normalize", "throw", "return", "reject"},
                 at[w] # "free", Goto(w, pc), UNCHANGED engine, at[w] # "engine",
                 pc = "normalize" => at[w] = "mark"
          PROVE  RunAgrees(w)'
      <3>1. log[w] \in Logs /\ http'[log[w]] # "none" /\ log[w] # NoLog
        BY <2>2, BodyOfARun, Monotone, IngestionAssumption
      <3>2. /\ at'[w] = pc /\ log' = log /\ idx' = idx /\ call' = call
            /\ call[w] = "idle" /\ (pc = "normalize" => idx[w] = 1)
        BY <2>2 DEF Goto, engine, IInv, TypeOK, RunAgrees
      <3>3. QED
        BY <3>1, <3>2 DEF RunAgrees
    <2>3. ASSUME MarkProcessing(w) \/ MarkProcessingFails(w) \/ NormalizeFails(w)
                 \/ Reject(w) \/ RejectFails(w) \/ Finish(w) \/ FinishFails(w)
                 \/ (Normalize(w) /\ Body(w) = <<>>)
          PROVE  RunAgrees(w)'
      BY <2>2, <2>3 DEF MarkProcessing, MarkProcessingFails, NormalizeFails, Reject,
         RejectFails, Finish, FinishFails, AtEnd, Normalize
    <2>4. ASSUME Normalize(w), Body(w) # <<>>
          PROVE  RunAgrees(w)'
      <3>1. /\ at[w] = "normalize" /\ at'[w] = "event" /\ log' = log /\ idx' = idx
            /\ errs' = errs /\ UNCHANGED engine
        BY <2>4 DEF Normalize, Goto, IInv, TypeOK
      <3>2. log[w] \in Logs /\ http'[log[w]] # "none" /\ log[w] # NoLog
        BY <3>1, BodyOfARun, Monotone, IngestionAssumption
      <3>3. call'[w] = "idle" /\ idx[w] = 1
        BY <3>1 DEF engine, IInv, RunAgrees
      <3>4. QED
        BY <3>1, <3>2, <3>3 DEF RunAgrees
    <2>5. ASSUME SkipDuplicate(w) \/ StoreFails(w) \/ Detect(w)
          PROVE  RunAgrees(w)'
      <3>1. call'[w] = "idle"
        BY <2>5 DEF SkipDuplicate, StoreFails, Detect, AtEvent, engine, IInv, RunAgrees
      <3>2. Detect(w) => Event(w) \in stored
        BY DEF Detect, IInv, RunAgrees
      <3>3. QED
        BY <2>5, <3>1, <3>2, AdvanceAgrees DEF SkipDuplicate, StoreFails, Detect
    <2>6. ASSUME Store(w)
          PROVE  RunAgrees(w)'
      <3>1. /\ at[w] = "event" /\ idx[w] <= Len(Body(w)) /\ call[w] = "idle"
            /\ Event(w) \in stored'
        BY <2>6 DEF Store, AtEvent, IInv, RunAgrees
      <3>2. CASE Advance(w, FALSE) /\ UNCHANGED engine
        BY <2>6, <3>1, <3>2, AdvanceAgrees DEF engine, Store
      <3>3. ASSUME NEW pc \in {"engine", "detect"}, Goto(w, pc),
                   pc = "engine" <=> call'[w] # "idle",
                   pc = "engine" => job'[w] = Event(w),
                   pc = "detect" => Event(w) \notin Entitled
            PROVE  RunAgrees(w)'
        <4>1. /\ at'[w] = pc /\ log' = log /\ idx' = idx /\ errs' = errs
          BY <3>3 DEF Goto, IInv, TypeOK
        <4>2. /\ log[w] \in Logs /\ http'[log[w]] # "none" /\ log[w] # NoLog
              /\ Body(w)' = Body(w) /\ Event(w)' = Event(w) /\ stored \subseteq stored'
          BY <3>1, <4>1, BodyOfARun, Monotone, IngestionAssumption DEF Body, Event
        <4>3. ~errs[w] => \A i \in 1..Len(Body(w)) : i < idx[w] => Body(w)[i] \in stored
          BY <3>1 DEF IInv, RunAgrees
        <4>4. QED
          BY <3>1, <3>3, <4>1, <4>2, <4>3 DEF RunAgrees
      <3>4. StartCall(w, Event(w)) => call'[w] = "upsert" /\ job'[w] = Event(w)
        BY DEF StartCall, IInv, TypeOK, Engine!TypeOK
      <3>5. QED
        BY <2>6, <3>1, <3>2, <3>3, <3>4 DEF Store, StoredThen, engine
    <2>7. ASSUME EngineStep(w)
          PROVE  RunAgrees(w)'
      <3>1. /\ at[w] = "engine" /\ Event(w) \in stored /\ job[w] = Event(w)
            /\ idx[w] <= Len(Body(w))
        BY <2>7 DEF EngineStep, IInv, RunAgrees
      <3>2. CASE call'[w] # "idle"
        <4>1. UNCHANGED run /\ job'[w] = job[w] /\ call[w] # "idle"
          BY <2>7, <3>2, RoundTrip DEF EngineStep
        <4>2. /\ log[w] \in Logs /\ http'[log[w]] # "none" /\ log[w] # NoLog
              /\ Body(w)' = Body(w) /\ Event(w)' = Event(w) /\ stored \subseteq stored'
          BY <3>1, <4>1, BodyOfARun, Monotone, IngestionAssumption DEF Body, Event, run
        <4>3. QED
          BY <3>1, <3>2, <4>1, <4>2 DEF IInv, RunAgrees, run
      <3>3. CASE call'[w] = "idle"
        <4>1. outcome'[Event(w)] \in Settled
          BY <2>7, <3>1, <3>3, RoundTrip DEF EngineStep
        <4>2. at'[w] = "detect" /\ log' = log /\ idx' = idx /\ errs' = errs
          BY <2>7, <3>3 DEF EngineStep, Goto, IInv, TypeOK
        <4>3. /\ log[w] \in Logs /\ http'[log[w]] # "none" /\ log[w] # NoLog
              /\ Body(w)' = Body(w) /\ Event(w)' = Event(w) /\ stored \subseteq stored'
          BY <3>1, <4>2, BodyOfARun, Monotone, IngestionAssumption DEF Body, Event
        <4>4. QED
          BY <3>1, <3>3, <4>1, <4>2, <4>3 DEF IInv, RunAgrees
      <3>4. QED
        BY <3>2, <3>3
    <2>8. ASSUME EngineFails(w)
          PROVE  RunAgrees(w)'
      <3>1. call'[w] = "idle"
        BY <2>8 DEF EngineFails, Engine!Abort, Engine!Return, IInv, TypeOK, Engine!TypeOK
      <3>2. QED
        BY <2>8, <3>1, AdvanceAgrees DEF EngineFails
    <2>9. ASSUME Complete(w) \/ Throw(w) \/ RunDies(w)
          PROVE  RunAgrees(w)'
      <3>1. call'[w] = "idle"
        BY <2>9 DEF Complete, Throw, RunDies, Engine!Abort, Engine!Return, engine, IInv,
           RunAgrees, TypeOK, Engine!TypeOK
      <3>2. QED
        BY <2>1, <2>9, <3>1 DEF Complete, Throw, RunDies
    <2>10. QED
      BY <1>4, <2>3, <2>4, <2>5, <2>6, <2>7, <2>8, <2>9 DEF RunStep, RunFault
  <1>5. QED
    BY <1>1, <1>2, <1>3, <1>4, StepOutsideOrRun, OutsideKeeps DEF vars
-----------------------------------------------------------------------------
\* A status becomes "processed" only at the end of a run without errors.
LEMMA BecomesProcessed ==
  ASSUME IInv, [Next]_vars, NEW l \in Logs, status'[l] = "processed",
         status[l] # "processed"
  PROVE  \E w \in Slots : /\ AtEnd(w) /\ ~errs[w] /\ log[w] = l
                         /\ UNCHANGED <<request, stored>>
  <1> USE DEF IInv, TypeOK
  <1>1. PICK w \in Slots : RunStep(w) \/ RunFault(w)
    BY StepOutsideOrRun, OutsideKeeps DEF vars
  <1>2. Finish(w)
    BY <1>1 DEF RunStep, RunFault, SetStatus, MarkProcessing, Normalize, Reject, Store,
       SkipDuplicate, EngineStep, Detect, Complete, Throw, MarkProcessingFails,
       NormalizeFails, RejectFails, StoreFails, EngineFails, FinishFails, RunDies
  <1>3. ~errs[w] /\ log[w] = l
    BY <1>2 DEF Finish, SetStatus
  <1>4. QED
    BY <1>2, <1>3 DEF Finish

LEMMA ProcessedIsStoredStep ==
  ASSUME IInv, [Next]_vars
  PROVE  ProcessedIsStored'
  <1> SUFFICES ASSUME NEW l \in Logs, status'[l] = "processed"
               PROVE  \A i \in 1..Len(Contents[body'[l]]) : Contents[body'[l]][i] \in stored'
    BY DEF ProcessedIsStored
  <1>1. CASE status[l] = "processed"
    <2>1. body'[l] = body[l] /\ stored \subseteq stored'
      BY <1>1, Monotone DEF IInv, LogAgrees
    <2>2. QED
      BY <1>1, <2>1 DEF IInv, ProcessedIsStored
  <1>2. CASE status[l] # "processed"
    <2>1. PICK w \in Slots : /\ AtEnd(w) /\ ~errs[w] /\ log[w] = l
                             /\ UNCHANGED <<request, stored>>
      BY <1>2, BecomesProcessed
    <2>2. /\ idx[w] > Len(Body(w)) /\ Body(w) = Contents[body'[l]]
          /\ idx[w] \in Nat /\ Len(Body(w)) \in Nat
      BY <2>1, BodyOfARun DEF AtEnd, Body, request, IInv, TypeOK
    <2>3. \A i \in 1..Len(Body(w)) : i < idx[w] => Body(w)[i] \in stored
      BY <2>1 DEF AtEnd, IInv, RunAgrees
    <2>4. QED
      BY <2>1, <2>2, <2>3
  <1>3. QED
    BY <1>1, <1>2

LEMMA CheckedIsSettledStep ==
  ASSUME IInv, [Next]_vars
  PROVE  CheckedIsSettled'
  <1> SUFFICES ASSUME NEW e \in checked'
               PROVE  e \in stored' /\ (e \in Entitled => outcome'[e] \in Settled)
    BY DEF CheckedIsSettled
  <1>1. ASSUME NEW w \in Slots, Detect(w), e = Event(w)
        PROVE  e \in stored' /\ (e \in Entitled => outcome'[e] \in Settled)
    BY <1>1 DEF Detect, IInv, RunAgrees, engine
  <1>2. CASE e \in checked
    <2>1. e \in Events
      BY <1>2 DEF IInv, TypeOK
    <2>2. QED
      BY <1>2, <2>1, Monotone DEF IInv, CheckedIsSettled
  <1>3. e \in checked \/ \E w \in Slots : Detect(w) /\ e = Event(w)
    <2>1. ASSUME NEW w \in Slots, RunStep(w) \/ RunFault(w)
          PROVE  checked' = checked \/ (Detect(w) /\ checked' = checked \cup {Event(w)})
      BY <2>1 DEF RunStep, RunFault, MarkProcessing, Normalize, Reject, Store,
         SkipDuplicate, EngineStep, Detect, Finish, Complete, Throw,
         MarkProcessingFails, NormalizeFails, RejectFails, StoreFails, EngineFails,
         FinishFails, RunDies
    <2>2. QED
      BY <2>1, StepOutsideOrRun, OutsideKeeps DEF vars
  <1>4. QED
    BY <1>1, <1>2, <1>3

LEMMA SpendTyped ==
  ASSUME IInv, NEW k \in {"fault", "crash", "lost", "retry"}, Spend(k)
  PROVE  budget' \in [{"fault", "crash", "lost", "retry"} -> Nat]
  BY DEF IInv, TypeOK, Spend

LEMMA NewJobTyped == NoJob \in Job /\ Waiting \in Job
  BY DEF NoJob, Waiting, Job

LEMMA JobFieldsTyped ==
  ASSUME NEW q \in Job
  PROVE  q.attempts \in Nat /\ q.stalls \in Nat
  BY DEF Job

LEMMA JobFields ==
  ASSUME NEW q \in Job, NEW s \in {"waiting", "active", "completed", "failed"},
         NEW o \in Slots \cup {NoSlot}
  PROVE  /\ [q EXCEPT !.state = s] \in Job
         /\ [[q EXCEPT !.state = s] EXCEPT !.owner = o] \in Job
  BY DEF Job

LEMMA JobCounters ==
  ASSUME NEW q \in Job, NEW s \in {"waiting", "failed"}, NEW n \in Nat
  PROVE  /\ [q EXCEPT !.attempts = n, !.owner = NoSlot, !.state = s] \in Job
         /\ [q EXCEPT !.stalls = n, !.owner = NoSlot, !.state = s] \in Job
  BY DEF Job

\* The job of a row changes to another job: the queue keeps its type.
LEMMA QueueTyped ==
  ASSUME IInv, NEW l \in Logs, NEW q \in Job, queue' = [queue EXCEPT ![l] = q]
  PROVE  queue' \in [Logs -> Job]
  BY DEF IInv, TypeOK

LEMMA ExpireTyped ==
  ASSUME IInv, NEW l \in Logs, Expire(l)
  PROVE  queue' \in [Logs -> Job] /\ failNote' \subseteq Logs
  <1> DEFINE n == queue[l].stalls + 1
             s == IF n > MAX_STALLED THEN "failed" ELSE "waiting"
  <1>1. queue[l] \in Job /\ failNote \subseteq Logs
    BY DEF IInv, TypeOK
  <1>2. [queue[l] EXCEPT !.stalls = n, !.owner = NoSlot, !.state = s] \in Job
    <2>1. n \in Nat /\ s \in {"waiting", "failed"}
      BY <1>1, JobFieldsTyped
    <2> HIDE DEF n, s
    <2>2. QED
      BY <1>1, <2>1, JobCounters
  <1>3. queue' = [queue EXCEPT ![l] =
                    [queue[l] EXCEPT !.stalls = n, !.owner = NoSlot, !.state = s]]
    BY DEF Expire
  <1>4. failNote' \subseteq Logs
    BY <1>1 DEF Expire
  <1> HIDE DEF n, s
  <1>5. QED
    BY <1>2, <1>3, <1>4, QueueTyped

LEMMA TypeOKStep ==
  ASSUME IInv, [Next]_vars
  PROVE  TypeOK'
  <1>0. Engine!TypeOK'
    BY EngineIInvStep DEF Engine!IInv
  <1> USE DEF IInv, TypeOK, request, run
  <1>1. ASSUME NEW l \in Logs, NEW b \in Bodies, Receive(l, b)
        PROVE  TypeOK'
    BY <1>0, <1>1 DEF Receive
  <1>2. ASSUME NEW l \in Logs, RequestStep(l)
        PROVE  TypeOK'
    <2>1. CASE InsertLog(l)
      BY <1>0, <2>1 DEF InsertLog
    <2>2. CASE Enqueue(l)
      <3>1. queue' \in [Logs -> Job]
        BY <2>2, NewJobTyped, QueueTyped DEF Enqueue
      <3>2. QED
        BY <1>0, <2>2, <3>1 DEF Enqueue
    <2>3. CASE Reply(l)
      <3>1. body[l] \in Bodies
        BY <2>3 DEF Reply, LogAgrees
      <3>2. QED
        BY <1>0, <2>3, <3>1 DEF Reply
    <2>4. CASE MarkUnqueued(l)
      BY <1>0, <2>4 DEF MarkUnqueued
    <2>5. QED
      BY <1>2, <2>1, <2>2, <2>3, <2>4 DEF RequestStep
  <1>3. ASSUME NEW l \in Logs, RequestFault(l)
        PROVE  TypeOK'
    <2>1. CASE InsertLogFails(l)
      <3>1. body[l] \in Bodies
        BY <2>1 DEF InsertLogFails, LogAgrees
      <3>2. QED
        BY <1>0, <2>1, <3>1, SpendTyped DEF InsertLogFails
    <2>2. CASE EnqueueFails(l)
      <3>1. queue' \in [Logs -> Job]
        BY <2>2, NewJobTyped, QueueTyped DEF EnqueueFails
      <3>2. QED
        BY <1>0, <2>2, <3>1, SpendTyped DEF EnqueueFails
    <2>3. CASE RequestDies(l)
      BY <1>0, <2>3, SpendTyped DEF RequestDies
    <2>4. CASE MarkUnqueuedFails(l)
      BY <1>0, <2>4, SpendTyped DEF MarkUnqueuedFails
    <2>5. QED
      BY <1>3, <2>1, <2>2, <2>3, <2>4 DEF RequestFault
  <1>4. ASSUME NEW l \in Logs, NEW w \in Slots, Take(w, l)
        PROVE  TypeOK'
    <2>1. queue' = [queue EXCEPT ![l] =
                      [[queue[l] EXCEPT !.state = "active"] EXCEPT !.owner = w]]
      BY <1>4 DEF Take
    <2>2. queue[l] \in Job
      OBVIOUS
    <2>3. [[queue[l] EXCEPT !.state = "active"] EXCEPT !.owner = w] \in Job
      BY <2>2, JobFields
    <2>4. queue' \in [Logs -> Job]
      BY <2>1, <2>3, QueueTyped
    <2>5. QED
      BY <1>0, <1>4, <2>4 DEF Take
  <1>5. ASSUME NEW l \in Logs, RetryFailed(l)
        PROVE  TypeOK'
    <2>1. queue' = [queue EXCEPT ![l] = [queue[l] EXCEPT !.state = "waiting"]]
      BY <1>5 DEF RetryFailed
    <2>2. queue[l] \in Job
      OBVIOUS
    <2>3. [queue[l] EXCEPT !.state = "waiting"] \in Job
      BY <2>2, JobFields
    <2>4. queue' \in [Logs -> Job]
      BY <2>1, <2>3, QueueTyped
    <2>5. QED
      BY <1>0, <1>5, <2>4, SpendTyped DEF RetryFailed
  <1>6. ASSUME NEW l \in Logs,
               \/ Stall(l) \/ HandleFailed(l) \/ HandleFailedFails(l)
               \/ LoseLock(l)
        PROVE  TypeOK'
    BY <1>0, <1>6, SpendTyped, ExpireTyped DEF Stall, HandleFailed,
       HandleFailedFails, LoseLock
  <1>7. ASSUME NEW w \in Slots, RunStep(w) \/ RunFault(w)
        PROVE  TypeOK'
    <2> USE <1>0
    <2>1. at[w] # "free" => log[w] \in Logs
      BY BodyOfARun
    <2>2. CASE MarkProcessing(w) \/ Normalize(w) \/ Reject(w) \/ Finish(w)
      BY <2>1, <2>2 DEF MarkProcessing, Normalize, Reject, Finish, Goto, SetStatus, AtEnd
    <2>3. CASE MarkProcessingFails(w) \/ NormalizeFails(w) \/ RejectFails(w) \/ FinishFails(w)
      BY <2>1, <2>3, SpendTyped DEF MarkProcessingFails, NormalizeFails, RejectFails, FinishFails, Goto,
         SetStatus, AtEnd
    <2>4. ASSUME NEW failed \in BOOLEAN, Advance(w, failed)
          PROVE  /\ at' \in [Slots -> {"free", "mark", "normalize", "reject", "throw",
                                       "event", "engine", "detect", "return"}]
                 /\ idx' \in [Slots -> Nat \ {0}] /\ errs' \in [Slots -> BOOLEAN]
                 /\ log' = log
      <3>1. errs' \in [Slots -> BOOLEAN]
        BY <2>4, Zenon DEF Advance
      <3>2. QED
        BY <2>4, <3>1 DEF Advance
    <2>5. CASE SkipDuplicate(w) \/ StoreFails(w) \/ EngineFails(w)
      BY <2>4, <2>5, SpendTyped DEF SkipDuplicate, StoreFails, EngineFails
    <2>6. CASE Detect(w)
      BY <2>4, <2>6, EventOfARun DEF Detect
    <2>7. CASE Store(w)
      BY <2>4, <2>7, EventOfARun DEF Store, StoredThen, Goto
    <2>8. CASE EngineStep(w)
      BY <2>8 DEF EngineStep, Goto
    <2>9. CASE Complete(w)
      <3>1. log[w] \in Logs /\ queue[log[w]] \in Job
        BY <2>1, <2>9 DEF Complete
      <3>2. [[queue[log[w]] EXCEPT !.state = "completed"] EXCEPT !.owner = NoSlot] \in Job
        BY <3>1, JobFields
      <3>3. \/ queue' = queue
            \/ queue' = [queue EXCEPT ![log[w]] =
                 [[queue[log[w]] EXCEPT !.state = "completed"] EXCEPT !.owner = NoSlot]]
        BY <2>9 DEF Complete
      <3>4. queue' \in [Logs -> Job]
        BY <3>1, <3>2, <3>3, QueueTyped
      <3>5. QED
        BY <2>9, <3>4 DEF Complete, Release
    <2>10. CASE Throw(w)
      <3>1. log[w] \in Logs /\ queue[log[w]] \in Job
        BY <2>1, <2>10 DEF Throw
      <3>2. queue' \in [Logs -> Job] /\ failNote' \subseteq Logs
        <4>1. CASE UNCHANGED <<queue, failNote>>
          BY <4>1
        <4>2. CASE ~UNCHANGED <<queue, failNote>>
          <5> DEFINE n == queue[log[w]].attempts + 1
                     s == IF n >= ATTEMPTS THEN "failed" ELSE "waiting"
          <5>1. /\ queue' = [queue EXCEPT ![log[w]] = [queue[log[w]] EXCEPT
                                !.attempts = n, !.owner = NoSlot, !.state = s]]
                /\ failNote' = failNote \cup {log[w]}
            BY <2>10, <4>2 DEF Throw
          <5>2. n \in Nat /\ s \in {"waiting", "failed"}
            BY <3>1, JobFieldsTyped
          <5> HIDE DEF n, s
          <5>3. [queue[log[w]] EXCEPT !.attempts = n, !.owner = NoSlot, !.state = s] \in Job
            BY <3>1, <5>2, JobCounters
          <5>4. QED
            BY <3>1, <5>1, <5>3, QueueTyped
        <4>3. QED
          BY <4>1, <4>2
      <3>3. QED
        BY <2>10, <3>2 DEF Throw, Release
    <2>11. CASE RunDies(w)
      BY <2>11, SpendTyped DEF RunDies, Release
    <2>12. QED
      BY <1>7, <2>2, <2>3, <2>5, <2>6, <2>7, <2>8, <2>9, <2>10, <2>11 DEF RunStep, RunFault
  <1>8. CASE UNCHANGED vars
    BY <1>0, <1>8 DEF vars
  <1>9. QED
    BY <1>1, <1>2, <1>3, <1>4, <1>5, <1>6, <1>7, <1>8 DEF Next, JobStep

LEMMA InitIInv == Init => IInv
  <1> SUFFICES ASSUME Init PROVE IInv
    OBVIOUS
  <1>1. Engine!IInv
    BY EngineIsSetUp, Proved!InitIInv, SameInit, SameIInv DEF Init
  <1>2. TypeOK
    BY <1>1, IngestionAssumption DEF Init, TypeOK, NoJob, Job, Bounds, Engine!IInv
  <1>3. EngineAgrees
    BY DEF Init, Engine!Init, EngineAgrees
  <1>4. \A w \in Slots : RunAgrees(w)
    BY DEF Init, Engine!Init, RunAgrees
  <1>5. \A l \in Logs : LogAgrees(l)
    BY DEF Init, LogAgrees, NoJob
  <1>6. ProcessedIsStored /\ CheckedIsSettled
    BY DEF Init, ProcessedIsStored, CheckedIsSettled
  <1>7. QED
    BY <1>1, <1>2, <1>3, <1>4, <1>5, <1>6 DEF IInv
-----------------------------------------------------------------------------
\* The inductive invariant holds whatever requests and runs die, whatever calls
\* throw, and however often a webhook is delivered or its job runs.
THEOREM InductiveInvariant == Spec => []IInv
  <1>1. IInv /\ [Next]_vars => IInv'
    BY TypeOKStep, ProcessedIsStoredStep, CheckedIsSettledStep, RunAgreesStep,
       LogAgreesStep, Monotone, EngineIInvStep DEF IInv
  <1>2. QED
    BY <1>1, InitIInv, PTL DEF Spec

\* A log row that says "processed" has all events of its webhook stored, and
\* the detectors ran only on stored events whose entitlement update returned
\* (pipeline.ts:131-151, 279-286).
THEOREM StatusTrue == Spec => []StatusIsTrue
  <1>1. IInv => StatusIsTrue
    BY DEF IInv, StatusIsTrue
  <1>2. QED
    BY <1>1, InductiveInvariant, PTL

\* The pipeline, the queue and every fault together are a caller that
\* EntitlementEngine allows: no event is handed to processEvent twice
\* (pipeline.ts:240-281).
THEOREM EngineIsCalledOnce == Spec => ImplementsEngine
  <1>1. Init => Engine!Init
    BY DEF Init
  <1>2. QED
    BY <1>1, EngineNext, InductiveInvariant, PTL DEF Spec, ImplementsEngine, Engine!Spec

\* So what EntitlementEngine_proofs proves holds of the whole intake: however
\* often a webhook is delivered and whatever dies on the way, the history of a
\* row is one path through the state machine and names an event once.
THEOREM HistoriesOfTheIntake ==
  Spec => [](Engine!HistoryIsAPath /\ Engine!HistoryIsFaithful)
  <1>1. IInv => Engine!HistoryIsAPath /\ Engine!HistoryIsFaithful
    BY DEF IInv, Engine!IInv
  <1>2. QED
    BY <1>1, InductiveInvariant, PTL

\* ... rows move only by STATE_TRANSITIONS from the state they are in, and each
\* canonical event of the intake takes effect on the entitlements in one
\* indivisible step, or never (engine.ts:113-220 under pipeline.ts:240-281).
THEOREM IntakeImplementsLedger ==
  Spec => Proved!MovesByTable /\ Proved!ImplementsLedger
  <1>1. Engine!Spec => Proved!Spec
    BY SameInit, SameNext, PTL DEF Engine!Spec, Proved!Spec
  <1>2. Proved!Spec => Proved!MovesByTable
    BY Proved!RowsMoveByTable, EngineIsSetUp
  <1>3. Proved!Spec => Proved!ImplementsLedger
    BY Proved!EngineImplementsLedger, EngineIsSetUp
  <1>4. QED
    BY <1>1, <1>2, <1>3, EngineIsCalledOnce DEF ImplementsEngine
=============================================================================
