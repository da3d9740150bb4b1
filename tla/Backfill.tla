------------------------------ MODULE Backfill ------------------------------
(***************************************************************************)
(* The historical backfill from Stripe (ingestion/backfill/stripe-         *)
(* backfill.ts), the route that starts it (api/onboarding.ts) and the      *)
(* progress and lock it keeps in Redis; the ones from Recurly and Google   *)
(* have the same frame around their imports.                               *)
(*                                                                         *)
(* One subscription of one user.  It has a status at Stripe and a history  *)
(* of events; webhooks bring some of them too, in any order.  A run first  *)
(* feeds an event made up from the status into the pipeline, then the      *)
(* events of the list, page by page.  The pipeline appears as what it      *)
(* promises: an event is stored once and then moves the row by the table.  *)
(* Writing progress never fails a run: it is part of the next step.        *)
(***************************************************************************)
EXTENDS EntitlementTable, Naturals, Sequences, FiniteSets

CONSTANTS
  Runs,         \* requests to start a backfill, a run each
  NoRun,        \* the lock is free
  PageSize,     \* limit of events.list, 100 in the code
  MaxEvents,    \* bound: events in the history of the subscription
  MaxAccidents  \* bound: queries that throw, runs that die or outlive the lock

ASSUME BackfillAssumption ==
  /\ NoRun \notin Runs
  /\ PageSize \in Nat \ {0} /\ {MaxEvents, MaxAccidents} \subseteq Nat

VARIABLES
  status,    \* of the subscription at Stripe
  history,   \* types of its events, oldest first; an event is its place here
  stored,    \* events in canonical_events
  ent,       \* state of the entitlement row
  progress,  \* status in Redis under backfill:<org>, or "none"
  lock,      \* owner of backfill-lock:<org>, or NoRun
  sync,      \* syncStatus of the connection
  pc,        \* pc[r]: the next round trip of run r
  holds,     \* holds[r]: run r knows a Redis connection, and so the lock
  listed,    \* listed[r]: the status run r was given, or "none"
  cursor,    \* cursor[r]: the event the next page starts after, 0 before the first
  first,     \* first[r]: history variable, how many events there were then
  page,      \* page[r]: events of the present page still to process
  accidents  \* which kinds of accident happened so far, in order

vars == <<status, history, stored, ent, progress, lock, sync, pc, holds, listed,
          cursor, first, page, accidents>>
stripe == <<status, history>>
db == <<stored, ent, sync>>
redis == <<progress, lock>>
list == <<listed, cursor, first, page>>

Kinds == {"renewal", "billing_retry", "cancellation", "expiration"}
Busy == {"counting", "importing_subscriptions", "importing_events"}
UnderWay(r) == pc[r] \notin {"idle", "done", "dead"}

TypeOK ==
  /\ status \in {"active", "past_due", "canceled"}
  /\ history \in Seq(Kinds)
  /\ stored \subseteq 1..Len(history)
  /\ ent \in States
  /\ progress \in Busy \cup {"none", "completed", "failed"}
  /\ lock \in Runs \cup {NoRun}
  /\ sync \in {"none", "completed", "failed"}
  /\ pc \in [Runs -> {"idle", "lock", "counting", "connect", "count", "subs", "sub", "events",
                      "item", "sync", "report", "fail", "reportFail", "release", "done", "dead"}]
  /\ holds \in [Runs -> BOOLEAN]
  /\ listed \in [Runs -> {"none", "active", "past_due", "canceled"}]
  /\ cursor \in [Runs -> 0..(Len(history) + 1)]
  /\ first \in [Runs -> 0..Len(history)]
  /\ page \in [Runs -> Seq(1..Len(history))]
  /\ accidents \in Seq({"database", "redis", "stripe", "item", "death", "expiry"})

Init ==
  /\ status = "active" /\ history = <<>>
  /\ stored = {} /\ ent \in {"inactive", "active"}
  /\ progress = "none" /\ lock = NoRun /\ sync = "none"
  /\ pc = [r \in Runs |-> "idle"] /\ holds = [r \in Runs |-> FALSE]
  /\ listed = [r \in Runs |-> "none"]
  /\ cursor = [r \in Runs |-> 0] /\ first = [r \in Runs |-> 0]
  /\ page = [r \in Runs |-> <<>>]
  /\ accidents = <<>>

Had(kinds) == \E i \in 1..Len(accidents) : accidents[i] \in kinds
Accident(kind) == Len(accidents) < MaxAccidents /\ accidents' = Append(accidents, kind)
-----------------------------------------------------------------------------
(***************************************************************************)
(* Stripe, the webhooks and the clock.                                     *)
(***************************************************************************)
\* What happens to the subscription, as the normalizer names it.
Happens(kind) ==
  /\ Len(history) < MaxEvents
  /\ status # "canceled"
  /\ history' = Append(history, kind)
  /\ status' = CASE kind = "renewal" -> "active"
                 [] kind = "billing_retry" -> "past_due"
                 [] kind = "cancellation" -> status
                 [] kind = "expiration" -> "canceled"
  /\ UNCHANGED <<db, redis, pc, holds, list, accidents>>

Move(kind) == ent' = IF HasTransition(ent, kind) THEN NextState(ent, kind) ELSE ent

\* processNormalizedEvent for event i of the history.
Ingest(i) ==
  IF i \in stored THEN UNCHANGED <<stored, ent>>
                  ELSE stored' = stored \cup {i} /\ Move(history[i])

Webhook(i) ==
  /\ i \notin stored
  /\ Ingest(i)
  /\ UNCHANGED <<stripe, sync, redis, pc, holds, list, accidents>>

\* The lock lives for an hour, longer than its run ...
LockExpires ==
  /\ lock # NoRun
  /\ lock' = NoRun
  /\ IF UnderWay(lock) THEN Accident("expiry") ELSE UNCHANGED accidents
  /\ UNCHANGED <<stripe, db, progress, pc, holds, list>>

\* Mutant: only the last write of a run has a time to live.
ProgressExpires_Ended ==
  /\ progress \in {"completed", "failed"} /\ \A r \in Runs : ~UnderWay(r)
  /\ progress' = "none"
  /\ UNCHANGED <<stripe, db, lock, pc, holds, list, accidents>>

\* ... the progress for a day after it was last written.
ProgressExpires ==
  /\ progress # "none" /\ \A r \in Runs : ~UnderWay(r)
  /\ progress' = "none"
  /\ UNCHANGED <<stripe, db, lock, pc, holds, list, accidents>>
-----------------------------------------------------------------------------
Goto(r, label) == pc' = [pc EXCEPT ![r] = label]

\* Run r writes s as its progress, if Redis takes it.
Progress(s) ==
  \/ progress' = s /\ UNCHANGED accidents
  \/ Accident("redis") /\ UNCHANGED progress

\* POST /setup/backfill/stripe reads the progress, or fails to and goes on.
Request(r) ==
  /\ pc[r] = "idle"
  /\ \/ progress \notin Busy /\ UNCHANGED accidents
     \/ progress \in Busy /\ Accident("redis")
  /\ Goto(r, "lock")
  /\ UNCHANGED <<stripe, db, redis, holds, list>>

\* Mutant: SET without NX.
AcquireLock_Always(r) ==
  /\ pc[r] = "lock"
  /\ lock' = r /\ holds' = [holds EXCEPT ![r] = TRUE]
  /\ Goto(r, "counting")
  /\ UNCHANGED <<stripe, db, progress, list, accidents>>

AcquireLock(r) ==
  /\ pc[r] = "lock" /\ lock = NoRun
  /\ lock' = r /\ holds' = [holds EXCEPT ![r] = TRUE]
  /\ Goto(r, "counting")
  /\ UNCHANGED <<stripe, db, progress, list, accidents>>

\* run throws, before its try.
LockTaken(r) ==
  /\ pc[r] = "lock" /\ lock # NoRun
  /\ Goto(r, "done")
  /\ UNCHANGED <<stripe, db, redis, holds, list, accidents>>

\* Without a connection to Redis a run goes on without lock; if the connection
\* is lost at the SET, run throws.
LockUnavailable(r) ==
  /\ pc[r] = "lock" /\ Accident("redis")
  /\ Goto(r, "counting") \/ Goto(r, "done")
  /\ UNCHANGED <<stripe, db, redis, holds, list>>

Count(r) ==
  /\ pc[r] = "counting" /\ Progress("counting")
  /\ Goto(r, "connect")
  /\ UNCHANGED <<stripe, db, lock, holds, list>>

\* The connection is read and the subscriptions are counted.
Connect(r) ==
  /\ pc[r] = "connect" /\ Progress("importing_subscriptions")
  /\ Goto(r, "subs")
  /\ UNCHANGED <<stripe, db, lock, holds, list>>

\* The select throws outside of the inner try: only the finally runs.
ConnectFails(r) ==
  /\ pc[r] = "connect" /\ Accident("database")
  /\ Goto(r, "release")
  /\ UNCHANGED <<stripe, db, redis, holds, list>>

ListSubscriptions(r) ==
  /\ pc[r] = "subs"
  /\ listed' = [listed EXCEPT ![r] = status]
  /\ Goto(r, "sub")
  /\ UNCHANGED <<stripe, db, redis, holds, cursor, first, page, accidents>>

\* Mutant: the types are swapped.
Synthetic_Swapped(s) == IF s = "active" THEN "expiration" ELSE "purchase"

\* The event made up for a subscription: customer.subscription.created when it
\* is active or trialing, else customer.subscription.deleted.
Synthetic(s) == IF s = "active" THEN "purchase" ELSE "expiration"

\* Its id contains the id of the run, so that it is new to the pipeline.
ImportSubscription(r) ==
  /\ pc[r] = "sub"
  /\ \/ Move(Synthetic(listed[r])) /\ Progress("importing_events")
     \/ UNCHANGED ent /\ Accident("item") /\ progress' = "importing_events"
  /\ Goto(r, "events")
  /\ UNCHANGED <<stripe, stored, sync, lock, holds, list>>

Least(a, b) == IF a < b THEN a ELSE b
From(r) == IF cursor[r] = 0 THEN Len(history) + 1 ELSE cursor[r]

\* Mutant: the next page starts one event further down.
NextPage_Skips(r) ==
  [i \in 1..Least(PageSize, From(r) - 1) |-> IF From(r) > i + 1 THEN From(r) - i - 1 ELSE 1]

\* The newest events before the cursor, newest first.
NextPage(r) == [i \in 1..Least(PageSize, From(r) - 1) |-> From(r) - i]

\* Events that are new meanwhile come before the first page.
ListEvents(r) ==
  /\ pc[r] = "events"
  /\ page' = [page EXCEPT ![r] = NextPage(r)]
  /\ cursor' = [cursor EXCEPT ![r] = From(r) - Len(NextPage(r))]
  /\ first' = IF cursor[r] = 0 THEN [first EXCEPT ![r] = Len(history)] ELSE first
  /\ Goto(r, "item")
  /\ UNCHANGED <<stripe, db, redis, holds, listed, accidents>>

\* processTrustedWebhook does not throw: what fails there is lost.
ImportEvent(r) ==
  /\ pc[r] = "item" /\ page[r] # <<>>
  /\ \/ Ingest(Head(page[r])) /\ UNCHANGED accidents
     \/ Accident("item") /\ stored' \in {stored, stored \cup {Head(page[r])}} /\ UNCHANGED ent
  /\ page' = [page EXCEPT ![r] = Tail(@)]
  /\ UNCHANGED <<stripe, sync, redis, pc, holds, listed, cursor, first>>

EndOfPage(r) ==
  /\ pc[r] = "item" /\ page[r] = <<>>
  /\ Goto(r, IF cursor[r] > 1 THEN "events" ELSE "sync")
  /\ UNCHANGED <<stripe, db, redis, holds, list, accidents>>

\* A call to Stripe throws, or the breaker refuses it.
ListFails(r) ==
  /\ pc[r] \in {"subs", "events"} /\ Accident("stripe")
  /\ Goto(r, "fail")
  /\ UNCHANGED <<stripe, db, redis, holds, list>>

\* The connection is marked completed, then the progress.
Sync(r) ==
  /\ pc[r] = "sync"
  /\ sync' = "completed" /\ Goto(r, "report")
  /\ UNCHANGED <<stripe, stored, ent, redis, holds, list, accidents>>
SyncFails(r) ==
  /\ pc[r] = "sync" /\ Accident("database")
  /\ Goto(r, "fail")
  /\ UNCHANGED <<stripe, db, redis, holds, list>>
Report(r) ==
  /\ pc[r] = "report" /\ Progress("completed")
  /\ Goto(r, "release")
  /\ UNCHANGED <<stripe, db, lock, holds, list>>

\* The catch does the same with failed; a query that throws there leaves
\* it, as all do while the database is down.
Fail(r) ==
  /\ pc[r] = "fail"
  /\ sync' = "failed" /\ Goto(r, "reportFail")
  /\ UNCHANGED <<stripe, stored, ent, redis, holds, list, accidents>>
FailFails(r) ==
  /\ pc[r] = "fail"
  /\ IF Had({"database"}) THEN UNCHANGED accidents ELSE Accident("database")
  /\ Goto(r, "release")
  /\ UNCHANGED <<stripe, db, redis, holds, list>>

ReportFail(r) ==
  /\ pc[r] = "reportFail" /\ Progress("failed")
  /\ Goto(r, "release")
  /\ UNCHANGED <<stripe, db, lock, holds, list>>

\* The finally deletes the lock, whoever has it; an error there is caught.
Release(r) ==
  /\ pc[r] = "release"
  /\ \/ holds[r] /\ lock' = NoRun /\ UNCHANGED accidents
     \/ holds[r] /\ Accident("redis") /\ UNCHANGED lock
     \/ ~holds[r] /\ UNCHANGED <<lock, accidents>>
  /\ Goto(r, "done")
  /\ UNCHANGED <<stripe, db, progress, holds, list>>

Die(r) ==
  /\ UnderWay(r) /\ Accident("death")
  /\ Goto(r, "dead")
  /\ UNCHANGED <<stripe, db, redis, holds, list>>

RunStep(r) ==
  \/ AcquireLock(r) \/ LockTaken(r) \/ Count(r) \/ Connect(r) \/ ListSubscriptions(r)
  \/ ImportSubscription(r) \/ ListEvents(r) \/ ImportEvent(r) \/ EndOfPage(r)
  \/ Sync(r) \/ Report(r) \/ Fail(r) \/ ReportFail(r) \/ Release(r)
RunFault(r) ==
  LockUnavailable(r) \/ ConnectFails(r) \/ ListFails(r) \/ SyncFails(r) \/ FailFails(r) \/ Die(r)

Next ==
  \/ \E r \in Runs : Request(r) \/ RunStep(r) \/ RunFault(r)
  \/ \E kind \in Kinds : Happens(kind)
  \/ \E i \in 1..Len(history) : Webhook(i)
  \/ LockExpires \/ ProgressExpires

Spec == Init /\ [][Next]_vars

\* A run that is alive goes on, and keys with a time to live expire.
Fairness ==
  /\ \A r \in Runs : WF_vars(RunStep(r))
  /\ WF_vars(LockExpires) /\ WF_vars(ProgressExpires)
FairSpec == Spec /\ Fairness
-----------------------------------------------------------------------------
\* Runs do not overlap, and none releases the lock of another, as long as
\* Redis answers and no run outlives its lock; requests that read the progress
\* at the same time are told apart by the lock (stripe-backfill.ts:177-182).
Importing(r) == UnderWay(r) /\ pc[r] # "lock"
OneRunAtATime ==
  ~Had({"redis", "expiry", "death"}) =>
    \A r, q \in Runs : Importing(r) /\ Importing(q) => r = q

\* A progress that turns requests away has a run behind it, unless a query
\* threw outside of the catch or the run died (onboarding.ts:1008-1013).
BusyHasARun ==
  progress \in Busy /\ ~Had({"redis", "database", "death", "expiry"}) =>
    \E r \in Runs : UnderWay(r)

\* ... and even then it ends some time: one more request will be let in.
BusyEnds == progress \in Busy ~> progress \notin Busy

\* What the progress says is true, and does not turn requests away for ever.
ProgressIsTrue == []BusyHasARun /\ BusyEnds

\* A run that got through its pages has imported every event there was when
\* it asked for the first, though new ones came meanwhile and webhooks stored
\* some of them (stripe-backfill.ts:405-443).
NothingIsSkipped ==
  \A r \in Runs : pc[r] \in {"sync", "report"} /\ ~Had({"item"}) => 1..first[r] \subseteq stored

\* A subscription that was active whenever a run asked, and is not canceled,
\* has access once a run has imported it: no order in which webhooks and runs
\* feed its events takes the access away.
ActiveHasAccess ==
  /\ \E r \in Runs : pc[r] \in {"events", "item", "sync", "report"}
  /\ \A r \in Runs : listed[r] \in {"none", "active"}
  /\ status # "canceled" /\ ~Had({"item"})
  => ent \in AccessStates
=============================================================================
