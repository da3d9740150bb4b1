-------------------------- MODULE Backfill_proofs --------------------------
(***************************************************************************)
(* Backfill for any number of requests, any page size, any length of the   *)
(* history and any number of accidents: runs exclude each other, the pages *)
(* of a run miss no event, a progress that says busy has a run behind it,  *)
(* and an active subscription keeps its access.                            *)
(*                                                                         *)
(* What is inductive: a run that imports holds the lock it took, unless    *)
(* Redis failed, a run died or outlived its lock; every event between the  *)
(* cursor of a run and the newest one it asked for is stored or still in   *)
(* its page; and a subscription that nothing ended moves between three     *)
(* states, of which an import has left the first.                          *)
(***************************************************************************)
EXTENDS Backfill, TLAPS

LockIsHeld ==
  ~Had({"redis", "expiry", "death"}) =>
    \A r \in Runs : Importing(r) => lock = r /\ holds[r]

InPage(r, i) == \E k \in 1..Len(page[r]) : page[r][k] = i

PagesAreDone ==
  /\ \A r \in Runs : pc[r] \in {"sync", "report"} => cursor[r] = 1 /\ page[r] = <<>>
  /\ \A r \in Runs : pc[r] = "item" => cursor[r] # 0
  /\ \A r \in Runs :
       pc[r] \in {"idle", "lock", "counting", "connect", "subs", "sub", "events"} =>
         page[r] = <<>>

NothingIsLost ==
  ~Had({"item"}) =>
    \A r \in Runs : cursor[r] # 0 =>
      \A i \in cursor[r]..first[r] : i \in stored \/ InPage(r, i)

\* Whoever reads a progress that turns it away can see the run behind it: the
\* one that is importing, which writes the end before it lets go of the lock.
BusyIsBacked ==
  progress \in Busy /\ ~Had({"redis", "database", "death", "expiry"}) =>
    \E r \in Runs : Importing(r) /\ pc[r] # "release"

\* Without an expiration in its history, and imported as active, a subscription
\* moves between three states, and a run has taken it out of the first.
Imported(r) == pc[r] \in {"events", "item", "sync", "report"}
NoEndYet == status # "canceled" => \A i \in 1..Len(history) : history[i] # "expiration"
ListedOnce ==
  /\ \A r \in Runs : pc[r] = "sub" => listed[r] # "none"
  /\ \A r \in Runs :
       pc[r] \in {"idle", "lock", "counting", "connect", "subs"} => listed[r] = "none"
Lives == /\ status # "canceled" /\ ~Had({"item"})
         /\ \A r \in Runs : listed[r] \in {"none", "active"}
AccessIsKept ==
  Lives => /\ ent \in {"inactive", "active", "billing_retry"}
           /\ (\E r \in Runs : Imported(r)) => ent # "inactive"

IInv == /\ TypeOK /\ LockIsHeld /\ PagesAreDone /\ NothingIsLost
        /\ BusyIsBacked /\ NoEndYet /\ ListedOnce /\ AccessIsKept

\* The kinds of accident are remembered in order.
LEMMA AccidentIsRemembered ==
  ASSUME TypeOK, NEW kind \in {"database", "redis", "stripe", "item", "death", "expiry"},
         Accident(kind), NEW kinds
  PROVE  /\ accidents' \in Seq({"database", "redis", "stripe", "item", "death", "expiry"})
         /\ Had(kinds)' <=> Had(kinds) \/ kind \in kinds
<1>1. /\ accidents \in Seq({"database", "redis", "stripe", "item", "death", "expiry"})
      /\ accidents' = Append(accidents, kind)
  BY DEF TypeOK, Accident
<1>2. /\ Len(accidents') = Len(accidents) + 1 /\ Len(accidents) \in Nat
      /\ accidents'[Len(accidents) + 1] = kind
      /\ \A i \in 1..Len(accidents) : accidents'[i] = accidents[i]
  BY <1>1
<1>3. Had(kinds)' <=> Had(kinds) \/ kind \in kinds
  BY <1>2 DEF Had
<1> QED BY <1>1, <1>3

\* Pages of a shorter history are pages of a longer one.
LEMMA LongerSequences ==
  ASSUME NEW m \in Nat, NEW n \in Nat, m <= n, NEW s \in Seq(1..m)
  PROVE  s \in Seq(1..n)
  OBVIOUS

\* The page a run is given: at most PageSize events before the cursor, in a row
\* down from it (stripe-backfill.ts:402-412).
LEMMA PageIsTyped ==
  ASSUME TypeOK, NEW r \in Runs
  PROVE  /\ From(r) \in 1..(Len(history) + 1)
         /\ Len(history) \in Nat
         /\ NextPage(r) \in Seq(1..Len(history))
         /\ Len(NextPage(r)) = Least(PageSize, From(r) - 1)
         /\ Len(NextPage(r)) \in 0..(From(r) - 1)
         /\ \A i \in 1..Len(NextPage(r)) : NextPage(r)[i] = From(r) - i
<1> DEFINE n == Least(PageSize, From(r) - 1)
<1>1. Len(history) \in Nat /\ From(r) \in 1..(Len(history) + 1)
  BY DEF TypeOK, From
<1>2. n \in 0..(From(r) - 1) /\ n \in Nat
  BY <1>1, BackfillAssumption DEF BackfillAssumption, Least
<1>3. NextPage(r) = [i \in 1..n |-> From(r) - i]
  BY DEF NextPage
<1> HIDE DEF n
<1>4. \A i \in 1..n : From(r) - i \in 1..Len(history)
  BY <1>1, <1>2
<1>5. NextPage(r) \in [1..n -> 1..Len(history)]
  BY <1>3, <1>4
<1>6. NextPage(r) \in Seq(1..Len(history)) /\ Len(NextPage(r)) = n
  BY <1>2, <1>5
<1> QED BY <1>1, <1>2, <1>3, <1>6 DEF n
-----------------------------------------------------------------------------
\* Accidents stay typed, whichever of them a step adds.
AccidentKinds == {"database", "redis", "stripe", "item", "death", "expiry"}
Remembers == UNCHANGED accidents \/ \E kind \in AccidentKinds : Accident(kind)

LEMMA RemembersTyped ==
  ASSUME TypeOK, Remembers
  PROVE  accidents' \in Seq({"database", "redis", "stripe", "item", "death", "expiry"})
<1>1. CASE UNCHANGED accidents
  BY <1>1 DEF TypeOK
<1>2. ASSUME NEW kind \in AccidentKinds, Accident(kind)
      PROVE accidents' \in Seq({"database", "redis", "stripe", "item", "death", "expiry"})
  BY <1>2, AccidentIsRemembered DEF AccidentKinds
<1> QED BY <1>1, <1>2 DEF Remembers

LEMMA MoveTyped ==
  ASSUME ent \in States, NEW kind, Move(kind)
  PROVE  ent' \in States
<1>1. HasTransition(ent, kind) => NextState(ent, kind) \in States
  BY DEF HasTransition, NextState
<1> QED BY <1>1 DEF Move

LEMMA IngestTyped ==
  ASSUME TypeOK, NEW i \in 1..Len(history), Ingest(i)
  PROVE  stored' \subseteq 1..Len(history) /\ stored \subseteq stored' /\ i \in stored' /\ ent' \in States
<1>1. ent' \in States
  BY MoveTyped DEF TypeOK, Ingest
<1>2. stored' = stored \cup {i}
  BY DEF Ingest
<1> QED BY <1>1, <1>2 DEF TypeOK

LEMMA ProgressTyped ==
  ASSUME TypeOK, NEW s \in Busy \cup {"none", "completed", "failed"}, Progress(s)
  PROVE  progress' \in Busy \cup {"none", "completed", "failed"} /\ Remembers
BY DEF TypeOK, Progress, Remembers, AccidentKinds

\* The steps that leave the history and the lists of the runs alone.
LEMMA FrameTyped ==
  ASSUME TypeOK, UNCHANGED stripe, UNCHANGED list
  PROVE  /\ history' \in Seq(Kinds) /\ status' \in {"active", "past_due", "canceled"}
         /\ listed' \in [Runs -> {"none", "active", "past_due", "canceled"}]
         /\ cursor' \in [Runs -> 0..(Len(history') + 1)]
         /\ first' \in [Runs -> 0..Len(history')]
         /\ page' \in [Runs -> Seq(1..Len(history'))]
BY DEF TypeOK, stripe, list

LEMMA InitTyped == Init => TypeOK
<1> SUFFICES ASSUME Init PROVE TypeOK
  OBVIOUS
<1>1. Len(history) = 0 /\ <<>> \in Seq(1..Len(history)) /\ history \in Seq(Kinds)
  BY DEF Init
<1>2. accidents \in Seq({"database", "redis", "stripe", "item", "death", "expiry"})
  BY DEF Init
<1> QED BY <1>1, <1>2 DEF Init, TypeOK, States, Busy

\* Stripe and the webhooks.
LEMMA WorldTyped ==
  ASSUME TypeOK,
         \/ \E kind \in Kinds : Happens(kind)
         \/ \E i \in 1..Len(history) : Webhook(i)
         \/ LockExpires \/ ProgressExpires
  PROVE  TypeOK'
<1>1. ASSUME NEW kind \in Kinds, Happens(kind) PROVE TypeOK'
  <2>1. history' \in Seq(Kinds) /\ Len(history') = Len(history) + 1 /\ Len(history) \in Nat
    BY <1>1 DEF Happens, TypeOK
  <2>2. page' \in [Runs -> Seq(1..Len(history'))]
    <3>1. \A r \in Runs : page[r] \in Seq(1..Len(history'))
      BY <2>1, LongerSequences DEF TypeOK
    <3> QED BY <1>1, <3>1 DEF Happens, list, TypeOK
  <2>3. status' \in {"active", "past_due", "canceled"}
    BY <1>1 DEF Happens, TypeOK, Kinds
  <2>4. /\ stored' \subseteq 1..Len(history')
        /\ cursor' \in [Runs -> 0..(Len(history') + 1)]
        /\ first' \in [Runs -> 0..Len(history')]
    BY <1>1, <2>1 DEF Happens, TypeOK, db, list
  <2> QED BY <1>1, <2>1, <2>2, <2>3, <2>4 DEF Happens, TypeOK, db, redis, list
<1>2. ASSUME NEW i \in 1..Len(history), Webhook(i) PROVE TypeOK'
  <2>1. stored' \subseteq 1..Len(history) /\ ent' \in States
    BY <1>2, IngestTyped DEF Webhook
  <2> QED BY <1>2, <2>1, FrameTyped DEF Webhook, TypeOK, stripe, redis
<1>3. ASSUME LockExpires PROVE TypeOK'
  <2>1. Remembers
    BY <1>3 DEF LockExpires, Remembers, AccidentKinds
  <2> QED BY <1>3, <2>1, RemembersTyped, FrameTyped DEF LockExpires, TypeOK, stripe, db
<1>4. ASSUME ProgressExpires PROVE TypeOK'
  BY <1>4, FrameTyped DEF ProgressExpires, TypeOK, stripe, db
<1> QED BY <1>1, <1>2, <1>3, <1>4

\* What most steps of a run do: they go on, or stop, and touch nothing of the
\* lists and the history.
LEMMA RunTyped ==
  ASSUME TypeOK, NEW r \in Runs, Request(r) \/ RunStep(r) \/ RunFault(r)
  PROVE  TypeOK'
<1> DEFINE Labels == {"idle", "lock", "counting", "connect", "count", "subs", "sub", "events",
                      "item", "sync", "report", "fail", "reportFail", "release", "done", "dead"}
           Plain == /\ UNCHANGED stripe /\ UNCHANGED list
                    /\ \E p \in Labels : Goto(r, p)
                    /\ UNCHANGED stored /\ ent' \in States
                    /\ progress' \in Busy \cup {"none", "completed", "failed"}
                    /\ lock' \in Runs \cup {NoRun} /\ sync' \in {"none", "completed", "failed"}
                    /\ holds' \in [Runs -> BOOLEAN]
                    /\ Remembers
<1>0. ASSUME Plain PROVE TypeOK'
  <2>1. pc' \in [Runs -> Labels]
    BY <1>0 DEF TypeOK, Goto
  <2> QED BY <1>0, <2>1, FrameTyped, RemembersTyped DEF TypeOK, stripe
<1> USE DEF TypeOK, stripe, db, redis, list, Remembers, AccidentKinds, Busy
<1>1. CASE Request(r)
  BY <1>1, <1>0 DEF Request
<1>2. CASE AcquireLock(r)
  BY <1>2, <1>0 DEF AcquireLock
<1>3. CASE LockTaken(r)
  BY <1>3, <1>0 DEF LockTaken
<1>4. CASE LockUnavailable(r)
  BY <1>4, <1>0 DEF LockUnavailable
<1>5. CASE Count(r)
  BY <1>5, <1>0, ProgressTyped DEF Count
<1>6. CASE Connect(r)
  BY <1>6, <1>0, ProgressTyped DEF Connect
<1>7. CASE ConnectFails(r)
  BY <1>7, <1>0 DEF ConnectFails
<1>8. CASE ListFails(r)
  BY <1>8, <1>0 DEF ListFails
<1>9. CASE Sync(r) \/ SyncFails(r)
  BY <1>9, <1>0 DEF Sync, SyncFails
<1>10. CASE Report(r)
  BY <1>10, <1>0, ProgressTyped DEF Report
<1>11. CASE Fail(r) \/ FailFails(r)
  BY <1>11, <1>0 DEF Fail, FailFails
<1>12. CASE ReportFail(r)
  BY <1>12, <1>0, ProgressTyped DEF ReportFail
<1>13. CASE Release(r)
  BY <1>13, <1>0 DEF Release
<1>14. CASE Die(r)
  BY <1>14, <1>0 DEF Die
<1>15. CASE EndOfPage(r)
  BY <1>15, <1>0 DEF EndOfPage
<1>16. CASE ListSubscriptions(r)
  BY <1>16 DEF ListSubscriptions, Goto
<1>17. CASE ImportSubscription(r)
  <2>1. ent' \in States
    BY <1>17, MoveTyped DEF ImportSubscription
  <2>2. progress' \in Busy \cup {"none", "completed", "failed"} /\ Remembers
    BY <1>17, ProgressTyped DEF ImportSubscription
  <2> QED BY <1>17, <1>0, <2>1, <2>2 DEF ImportSubscription
<1>18. CASE ListEvents(r)
  <2>1. cursor' \in [Runs -> 0..(Len(history) + 1)]
    BY <1>18, PageIsTyped DEF ListEvents
  <2>2. first' \in [Runs -> 0..Len(history)]
    BY <1>18, PageIsTyped DEF ListEvents
  <2>3. page' \in [Runs -> Seq(1..Len(history))]
    BY <1>18, PageIsTyped DEF ListEvents
  <2> QED BY <1>18, <2>1, <2>2, <2>3 DEF ListEvents, Goto
<1>19. CASE ImportEvent(r)
  <2>1. page[r] \in Seq(1..Len(history)) /\ page[r] # <<>>
    BY <1>19 DEF ImportEvent
  <2>2. Head(page[r]) \in 1..Len(history) /\ Tail(page[r]) \in Seq(1..Len(history))
    BY <2>1
  <2>3. page' \in [Runs -> Seq(1..Len(history))]
    BY <1>19, <2>2 DEF ImportEvent
  <2>4. stored' \subseteq 1..Len(history) /\ ent' \in States /\ Remembers
    BY <1>19, <2>2, IngestTyped DEF ImportEvent
  <2>5. accidents' \in Seq({"database", "redis", "stripe", "item", "death", "expiry"})
    BY <2>4, RemembersTyped
  <2> QED BY <1>19, <2>3, <2>4, <2>5 DEF ImportEvent
<1> QED
  BY <1>1, <1>2, <1>3, <1>4, <1>5, <1>6, <1>7, <1>8, <1>9, <1>10, <1>11, <1>12, <1>13, <1>14,
     <1>15, <1>16, <1>17, <1>18, <1>19
  DEF RunStep, RunFault
-----------------------------------------------------------------------------
LEMMA StepsRemember ==
  ASSUME [Next]_vars
  PROVE  Remembers
<1> USE DEF Remembers, AccidentKinds
<1>1. ASSUME NEW r \in Runs, Request(r) PROVE Remembers
  BY <1>1 DEF Request
<1>2. ASSUME NEW r \in Runs, RunStep(r) PROVE Remembers
  BY <1>2
  DEF RunStep, AcquireLock, LockTaken, Count, Connect, ListSubscriptions, ImportSubscription,
      ListEvents, ImportEvent, EndOfPage, Sync, Report, Fail, ReportFail, Release, Progress
<1>3. ASSUME NEW r \in Runs, RunFault(r) PROVE Remembers
  BY <1>3 DEF RunFault, LockUnavailable, ConnectFails, ListFails, SyncFails, FailFails, Die
<1>4. ASSUME NEW kind \in Kinds, Happens(kind) PROVE Remembers
  BY <1>4 DEF Happens
<1>5. ASSUME NEW i \in 1..Len(history), Webhook(i) PROVE Remembers
  BY <1>5 DEF Webhook
<1>6. ASSUME LockExpires \/ ProgressExpires \/ UNCHANGED vars PROVE Remembers
  BY <1>6 DEF LockExpires, ProgressExpires, vars
<1> QED BY <1>1, <1>2, <1>3, <1>4, <1>5, <1>6 DEF Next

\* No accident is ever forgotten.
LEMMA HadStays ==
  ASSUME TypeOK, Remembers, NEW kinds, Had(kinds)
  PROVE  Had(kinds)'
<1>1. CASE UNCHANGED accidents
  BY <1>1 DEF Had
<1>2. ASSUME NEW kind \in AccidentKinds, Accident(kind) PROVE Had(kinds)'
  BY <1>2, AccidentIsRemembered DEF AccidentKinds
<1> QED BY <1>1, <1>2 DEF Remembers

\* A run that imports keeps the lock it took.
LEMMA LockStep ==
  ASSUME TypeOK, LockIsHeld, [Next]_vars
  PROVE  LockIsHeld'
<1> DEFINE K == {"redis", "expiry", "death"}
           Held == \A q \in Runs : Importing(q)' => lock' = q /\ holds'[q]
<1>1. SUFFICES ASSUME ~Had(K)' PROVE Held
  BY DEF LockIsHeld
<1>2. \A q \in Runs : Importing(q) => lock = q /\ holds[q]
  BY <1>1, StepsRemember, HadStays DEF LockIsHeld
<1>3. ASSUME NEW kind \in K, Accident(kind) PROVE FALSE
  BY <1>1, <1>3, AccidentIsRemembered
<1> HIDE DEF K
<1>4. ASSUME UNCHANGED redis, UNCHANGED holds,
             \A q \in Runs : Importing(q)' => Importing(q)
      PROVE  Held
  BY <1>2, <1>4 DEF redis
<1>5. ASSUME UNCHANGED lock, UNCHANGED holds, UNCHANGED pc PROVE Held
  BY <1>2, <1>5 DEF Importing, UnderWay
\* The steps of a run after it has the lock leave the other runs where they are.
<1>6. ASSUME NEW r \in Runs, Importing(r), \A q \in Runs : q # r => pc'[q] = pc[q],
             UNCHANGED lock, UNCHANGED holds
      PROVE  Held
  BY <1>2, <1>6 DEF Importing, UnderWay
<1>7. ASSUME NEW r \in Runs, Request(r) PROVE Held
  BY <1>2, <1>7 DEF Request, Importing, UnderWay, Goto, TypeOK, redis
<1>8. ASSUME NEW r \in Runs, AcquireLock(r) PROVE Held
  <2>1. \A q \in Runs : ~Importing(q)
    BY <1>2, <1>8, BackfillAssumption DEF AcquireLock, BackfillAssumption
  <2> QED BY <1>8, <2>1 DEF AcquireLock, Importing, UnderWay, Goto, TypeOK
<1>9. ASSUME NEW r \in Runs, LockTaken(r) PROVE Held
  BY <1>2, <1>9 DEF LockTaken, Importing, UnderWay, Goto, TypeOK, redis
<1>10. ASSUME NEW r \in Runs, LockUnavailable(r) \/ Die(r) PROVE Held
  BY <1>3, <1>10 DEF LockUnavailable, Die, K
<1>11. ASSUME NEW r \in Runs,
              \/ Count(r) \/ Connect(r) \/ ConnectFails(r) \/ ListSubscriptions(r)
              \/ ImportSubscription(r) \/ ListEvents(r) \/ EndOfPage(r) \/ ListFails(r)
              \/ Sync(r) \/ SyncFails(r) \/ Report(r) \/ Fail(r) \/ FailFails(r) \/ ReportFail(r)
       PROVE  Held
  <2>1. Importing(r)
    BY <1>11
    DEF Importing, UnderWay, Count, Connect, ConnectFails, ListSubscriptions, ImportSubscription,
        ListEvents, EndOfPage, ListFails, Sync, SyncFails, Report, Fail, FailFails, ReportFail
  <2>2. UNCHANGED lock /\ UNCHANGED holds /\ \A q \in Runs : q # r => pc'[q] = pc[q]
    BY <1>11
    DEF TypeOK, Goto, redis, Count, Connect, ConnectFails, ListSubscriptions, ImportSubscription,
        ListEvents, EndOfPage, ListFails, Sync, SyncFails, Report, Fail, FailFails, ReportFail
  <2> QED BY <1>6, <2>1, <2>2
<1>12. ASSUME NEW r \in Runs, ImportEvent(r) PROVE Held
  BY <1>5, <1>12 DEF ImportEvent, redis
<1>13. ASSUME NEW r \in Runs, Release(r) PROVE Held
  <2>1. Importing(r)
    BY <1>13 DEF Release, Importing, UnderWay
  <2>2. \A q \in Runs : q # r => ~Importing(q)
    BY <1>2, <2>1
  <2> QED BY <1>13, <2>2 DEF Release, Importing, UnderWay, Goto, TypeOK
<1>14. ASSUME LockExpires PROVE Held
  <2>1. ~UnderWay(lock)
    BY <1>3, <1>14 DEF LockExpires, K
  <2>2. \A q \in Runs : ~Importing(q)
    BY <1>2, <2>1 DEF Importing
  <2> QED BY <1>14, <2>2 DEF LockExpires, Importing, UnderWay
<1>15. ASSUME \/ \E kind \in Kinds : Happens(kind)
              \/ \E i \in 1..Len(history) : Webhook(i)
              \/ ProgressExpires \/ UNCHANGED vars
       PROVE  Held
  BY <1>5, <1>15 DEF Happens, Webhook, ProgressExpires, vars, redis
<1> QED
  BY <1>7, <1>8, <1>9, <1>10, <1>11, <1>12, <1>13, <1>14, <1>15 DEF Next, RunStep, RunFault
-----------------------------------------------------------------------------
\* A run that passed its pages asked for all of them.
LEMMA PagesStep ==
  ASSUME TypeOK, PagesAreDone, [Next]_vars
  PROVE  PagesAreDone'
<1> DEFINE Early == {"idle", "lock", "counting", "connect", "subs", "sub", "events"}
\* Steps that touch neither page nor cursor and bring no run to these labels.
<1>1. ASSUME UNCHANGED list,
             \A q \in Runs : pc'[q] \in {"sync", "report", "item"} \cup Early =>
               \/ pc'[q] = pc[q]
               \/ pc'[q] \in Early /\ pc[q] \in Early
               \/ pc'[q] = "report" /\ pc[q] = "sync"
      PROVE  PagesAreDone'
  BY <1>1 DEF PagesAreDone, list
<1> USE DEF TypeOK, Goto, list
<1>2. ASSUME NEW r \in Runs, Request(r) \/ LockTaken(r) \/ AcquireLock(r) \/ LockUnavailable(r)
      PROVE  PagesAreDone'
  BY <1>1, <1>2 DEF Request, LockTaken, AcquireLock, LockUnavailable
<1>3. ASSUME NEW r \in Runs, Count(r) \/ Connect(r) \/ ConnectFails(r) \/ ImportSubscription(r)
      PROVE  PagesAreDone'
  BY <1>1, <1>3 DEF Count, Connect, ConnectFails, ImportSubscription
<1>4. ASSUME NEW r \in Runs, ListFails(r) \/ Sync(r) \/ SyncFails(r) \/ Report(r)
      PROVE  PagesAreDone'
  BY <1>1, <1>4 DEF ListFails, Sync, SyncFails, Report
<1>5. ASSUME NEW r \in Runs, Fail(r) \/ FailFails(r) \/ ReportFail(r) \/ Release(r) \/ Die(r)
      PROVE  PagesAreDone'
  BY <1>1, <1>5 DEF Fail, FailFails, ReportFail, Release, Die
<1>6. ASSUME NEW r \in Runs, ListSubscriptions(r) PROVE PagesAreDone'
  BY <1>6 DEF ListSubscriptions, PagesAreDone
<1>7. ASSUME NEW r \in Runs, ListEvents(r) PROVE PagesAreDone'
  <2>1. cursor'[r] # 0 /\ pc'[r] = "item"
    BY <1>7, PageIsTyped DEF ListEvents
  <2>2. \A q \in Runs : q # r => cursor'[q] = cursor[q] /\ page'[q] = page[q] /\ pc'[q] = pc[q]
    BY <1>7 DEF ListEvents
  <2> QED BY <2>1, <2>2 DEF PagesAreDone
<1>8. ASSUME NEW r \in Runs, ImportEvent(r) PROVE PagesAreDone'
  BY <1>8 DEF ImportEvent, PagesAreDone
<1>9. ASSUME NEW r \in Runs, EndOfPage(r) PROVE PagesAreDone'
  <2>1. cursor[r] \in Nat /\ cursor[r] # 0 /\ page[r] = <<>>
    BY <1>9 DEF EndOfPage, PagesAreDone
  <2>2. pc'[r] = "sync" => cursor[r] = 1
    BY <1>9, <2>1 DEF EndOfPage
  <2>3. \A q \in Runs : q # r => pc'[q] = pc[q]
    BY <1>9 DEF EndOfPage
  <2>4. UNCHANGED <<cursor, page>> /\ pc'[r] \in {"events", "sync"}
    BY <1>9 DEF EndOfPage
  <2> QED BY <2>1, <2>2, <2>3, <2>4 DEF PagesAreDone
<1>10. ASSUME \/ \E kind \in Kinds : Happens(kind)
              \/ \E i \in 1..Len(history) : Webhook(i)
              \/ LockExpires \/ ProgressExpires \/ UNCHANGED vars
       PROVE  PagesAreDone'
  BY <1>1, <1>10 DEF Happens, Webhook, LockExpires, ProgressExpires, vars
<1> QED
  BY <1>2, <1>3, <1>4, <1>5, <1>6, <1>7, <1>8, <1>9, <1>10 DEF Next, RunStep, RunFault

\* Nothing between the cursor of a run and its newest event is lost.
LEMMA NothingIsLostStep ==
  ASSUME TypeOK, PagesAreDone, NothingIsLost, [Next]_vars
  PROVE  NothingIsLost'
<1> DEFINE Safe == \A q \in Runs : cursor'[q] # 0 =>
                     \A i \in cursor'[q]..first'[q] : i \in stored' \/ InPage(q, i)'
<1>1. SUFFICES ASSUME ~Had({"item"})' PROVE Safe
  BY DEF NothingIsLost
<1>2. \A q \in Runs : cursor[q] # 0 =>
        \A i \in cursor[q]..first[q] : i \in stored \/ InPage(q, i)
  BY <1>1, StepsRemember, HadStays DEF NothingIsLost
<1>3. ASSUME Accident("item") PROVE FALSE
  BY <1>1, <1>3, AccidentIsRemembered
<1>4. ASSUME UNCHANGED <<cursor, first, page>>, stored \subseteq stored' PROVE Safe
  BY <1>2, <1>4 DEF InPage
<1>5. ASSUME NEW r \in Runs, ListEvents(r) PROVE Safe
  <2>1. \A q \in Runs : q # r =>
          cursor'[q] = cursor[q] /\ first'[q] = first[q] /\ page'[q] = page[q]
    BY <1>5 DEF ListEvents, TypeOK
  <2>2. ASSUME NEW q \in Runs, q # r, cursor'[q] # 0, NEW i \in cursor'[q]..first'[q]
        PROVE  i \in stored' \/ InPage(q, i)'
    BY <1>2, <1>5, <2>1, <2>2 DEF InPage, ListEvents, db
  <2>3. ASSUME NEW i \in cursor'[r]..first'[r]
        PROVE  i \in stored' \/ InPage(r, i)'
    <3> DEFINE n == Len(NextPage(r))
    <3>1. /\ From(r) \in 1..(Len(history) + 1) /\ Len(history) \in Nat
          /\ n \in 0..(From(r) - 1)
          /\ \A k \in 1..n : NextPage(r)[k] = From(r) - k
      BY PageIsTyped
    <3>2. /\ cursor'[r] = From(r) - n /\ page'[r] = NextPage(r) /\ stored' = stored
          /\ first'[r] = IF cursor[r] = 0 THEN Len(history) ELSE first[r]
      BY <1>5 DEF ListEvents, TypeOK, db
    <3> HIDE DEF n
    <3>3. i \in Nat /\ first'[r] \in Nat
      BY <2>3, <3>1, <3>2 DEF TypeOK
    <3>4. CASE i < From(r)
      <4>1. From(r) - i \in 1..n /\ From(r) - (From(r) - i) = i
        BY <2>3, <3>1, <3>2, <3>3, <3>4
      <4>2. page'[r][From(r) - i] = i
        BY <3>1, <3>2, <4>1
      <4> QED BY <3>2, <4>1, <4>2 DEF InPage, n
    <3>5. CASE i >= From(r)
      <4>1. cursor[r] # 0 /\ cursor[r] = From(r) /\ i \in cursor[r]..first[r]
        BY <2>3, <3>1, <3>2, <3>3, <3>5 DEF From, TypeOK
      <4>2. page[r] = <<>>
        BY <1>5 DEF ListEvents, PagesAreDone
      <4>3. ~InPage(r, i)
        BY <4>2 DEF InPage
      <4> QED BY <1>2, <3>2, <4>1, <4>3
    <3> QED BY <3>1, <3>3, <3>4, <3>5
  <2> QED BY <2>2, <2>3
<1>6. ASSUME NEW r \in Runs, ImportEvent(r) PROVE Safe
  <2>1. /\ page[r] \in Seq(1..Len(history)) /\ page[r] # <<>>
        /\ Ingest(Head(page[r]))
    BY <1>3, <1>6 DEF ImportEvent, TypeOK
  <2>2. stored \subseteq stored' /\ Head(page[r]) \in stored'
    BY <2>1, IngestTyped
  <2>3. /\ cursor' = cursor /\ first' = first
        /\ page'[r] = Tail(page[r]) /\ \A q \in Runs : q # r => page'[q] = page[q]
    BY <1>6 DEF ImportEvent, TypeOK
  <2>4. ASSUME NEW q \in Runs, q # r, cursor'[q] # 0, NEW i \in cursor'[q]..first'[q]
        PROVE  i \in stored' \/ InPage(q, i)'
    BY <1>2, <2>2, <2>3, <2>4 DEF InPage
  <2>5. ASSUME cursor'[r] # 0, NEW i \in cursor'[r]..first'[r]
        PROVE  i \in stored' \/ InPage(r, i)'
    <3>1. i \in stored \/ InPage(r, i)
      BY <1>2, <2>3, <2>5
    <3>2. ASSUME NEW k \in 1..Len(page[r]), page[r][k] = i
          PROVE  i \in stored' \/ InPage(r, i)'
      <4>1. k = 1 => page[r][k] = Head(page[r])
        BY <2>1
      <4>2. k # 1 => k - 1 \in 1..Len(Tail(page[r])) /\ Tail(page[r])[k - 1] = page[r][k]
        BY <2>1, <3>2
      <4> QED BY <2>2, <2>3, <3>2, <4>1, <4>2 DEF InPage
    <3> QED BY <2>2, <3>1, <3>2 DEF InPage
  <2> QED BY <2>4, <2>5
<1>7. ASSUME NEW i \in 1..Len(history), Webhook(i) PROVE Safe
  BY <1>4, <1>7, IngestTyped DEF Webhook, list
<1>8. ASSUME \/ \E kind \in Kinds : Happens(kind)
             \/ LockExpires \/ ProgressExpires \/ UNCHANGED vars
      PROVE  Safe
  BY <1>4, <1>8 DEF Happens, LockExpires, ProgressExpires, vars, db, list
<1>9. ASSUME NEW r \in Runs, Request(r) \/ RunFault(r) PROVE Safe
  BY <1>4, <1>9
  DEF Request, RunFault, LockUnavailable, ConnectFails, ListFails, SyncFails, FailFails, Die, db, list
<1>10. ASSUME NEW r \in Runs, RunStep(r), ~ListEvents(r), ~ImportEvent(r) PROVE Safe
  BY <1>4, <1>10
  DEF RunStep, AcquireLock, LockTaken, Count, Connect, ListSubscriptions, ImportSubscription,
      EndOfPage, Sync, Report, Fail, ReportFail, Release, db, list
<1> QED
  BY <1>5, <1>6, <1>7, <1>8, <1>9, <1>10 DEF Next, RunStep
-----------------------------------------------------------------------------
\* A progress that says busy is never left behind.
LEMMA BusyStep ==
  ASSUME TypeOK, LockIsHeld, LockIsHeld', BusyIsBacked, [Next]_vars
  PROVE  BusyIsBacked'
<1> DEFINE K == {"redis", "database", "death", "expiry"}
           Backed == \E r \in Runs : Importing(r) /\ pc[r] # "release"
<1>1. SUFFICES ASSUME progress' \in Busy, ~Had(K)' PROVE Backed'
  BY DEF BusyIsBacked
<1>2. ~Had(K)
  BY <1>1, StepsRemember, HadStays
<1>3. progress \in Busy => Backed
  BY <1>2 DEF BusyIsBacked
<1>4. \A r, q \in Runs : Importing(r) /\ Importing(q) => r = q
  BY <1>2 DEF LockIsHeld, Had
<1>5. ASSUME NEW kind \in K, Accident(kind) PROVE FALSE
  BY <1>1, <1>5, AccidentIsRemembered
<1>6. ~Had({"database"})
  BY <1>2 DEF Had
<1> HIDE DEF K
<1>7. ASSUME NEW s, s \notin Busy, Progress(s) PROVE FALSE
  BY <1>1, <1>5, <1>7 DEF Progress, K
<1> USE DEF TypeOK, Goto, Importing, UnderWay, redis
\* The run that steps is importing before and after.
<1>8. ASSUME NEW r \in Runs, Importing(r)', pc'[r] # "release" PROVE Backed'
  BY <1>8
\* A run that does not import steps, or none does.
<1>9. ASSUME UNCHANGED progress, NEW r \in Runs, ~Importing(r),
             \A q \in Runs \ {r} : pc'[q] = pc[q]
      PROVE  Backed'
  BY <1>1, <1>3, <1>9
<1>10. ASSUME UNCHANGED progress, UNCHANGED pc PROVE Backed'
  BY <1>1, <1>3, <1>10
<1>11. ASSUME NEW r \in Runs, Request(r) \/ LockTaken(r) PROVE Backed'
  <2>1. /\ UNCHANGED progress /\ ~Importing(r)
        /\ \A q \in Runs \ {r} : pc'[q] = pc[q]
    BY <1>11 DEF Request, LockTaken
  <2> QED BY <2>1, <1>9
<1>12. ASSUME NEW r \in Runs,
              \/ AcquireLock(r) \/ Count(r) \/ Connect(r) \/ ListSubscriptions(r)
              \/ ImportSubscription(r) \/ ListEvents(r) \/ EndOfPage(r) \/ ListFails(r)
              \/ Sync(r) \/ Fail(r)
       PROVE  Backed'
  <2>1. pc'[r] \in {"counting", "connect", "subs", "sub", "events", "item", "sync", "report",
                    "fail", "reportFail"}
    BY <1>12
    DEF AcquireLock, Count, Connect, ListSubscriptions, ImportSubscription, ListEvents, EndOfPage,
        ListFails, Sync, Fail
  <2> QED BY <2>1, <1>8
<1>13. ASSUME NEW r \in Runs, ImportEvent(r) PROVE Backed'
  BY <1>10, <1>13 DEF ImportEvent
<1>14. ASSUME NEW r \in Runs, Report(r) \/ ReportFail(r) PROVE FALSE
  BY <1>7, <1>14 DEF Report, ReportFail, Busy
<1>15. ASSUME NEW r \in Runs, Release(r) PROVE FALSE
  <2>1. Importing(r) /\ pc[r] = "release" /\ UNCHANGED progress
    BY <1>15 DEF Release
  <2> QED BY <1>1, <1>3, <1>4, <2>1
<1>16. ASSUME NEW r \in Runs,
              LockUnavailable(r) \/ ConnectFails(r) \/ SyncFails(r) \/ FailFails(r) \/ Die(r)
       PROVE  FALSE
  BY <1>5, <1>6, <1>16 DEF LockUnavailable, ConnectFails, SyncFails, FailFails, Die, K
<1>17. ASSUME \/ \E kind \in Kinds : Happens(kind)
              \/ \E i \in 1..Len(history) : Webhook(i)
              \/ LockExpires \/ UNCHANGED vars
       PROVE  Backed'
  BY <1>10, <1>17 DEF Happens, Webhook, LockExpires, vars
<1>18. ASSUME ProgressExpires PROVE FALSE
  BY <1>1, <1>18 DEF ProgressExpires, Busy
<1> QED
  BY <1>11, <1>12, <1>13, <1>14, <1>15, <1>16, <1>17, <1>18 DEF Next, RunStep, RunFault
-----------------------------------------------------------------------------
\* What the table does to a subscription that lives (entitlement/engine.ts:39-104).
LEMMA TableKeepsAccess ==
  ASSUME ent \in {"inactive", "active", "billing_retry"},
         NEW kind \in {"renewal", "billing_retry", "cancellation", "purchase"}, Move(kind)
  PROVE  /\ ent' \in {"inactive", "active", "billing_retry"}
         /\ ent # "inactive" \/ kind = "purchase" => ent' # "inactive"
<1>1. ASSUME NEW t, <<ent, kind, t>> \in STATE_TRANSITIONS
      PROVE  t \in {"active", "billing_retry"}
  BY <1>1 DEF STATE_TRANSITIONS, On
<1>2. HasTransition(ent, kind) => NextState(ent, kind) \in {"active", "billing_retry"}
  BY <1>1 DEF HasTransition, NextState
<1>3. ent = "inactive" /\ kind = "purchase" => HasTransition(ent, kind)
  <2>1. <<"inactive", "purchase", "active">> \in STATE_TRANSITIONS
    <3>1. <<"inactive", "purchase", "active">> \in
            On("inactive", {"purchase", "offer_redeemed", "renewal"}, "active")
      BY DEF On
    <3> QED BY <3>1 DEF STATE_TRANSITIONS
  <2> QED BY <2>1 DEF HasTransition, States
<1> QED BY <1>2, <1>3 DEF Move
LEMMA HistoryStep ==
  ASSUME TypeOK, NoEndYet, [Next]_vars
  PROVE  NoEndYet' /\ (status' # "canceled" => status # "canceled")
<1>1. ASSUME UNCHANGED stripe PROVE NoEndYet' /\ (status' # "canceled" => status # "canceled")
  BY <1>1 DEF NoEndYet, stripe
<1>2. ASSUME NEW kind \in Kinds, Happens(kind)
      PROVE  NoEndYet' /\ (status' # "canceled" => status # "canceled")
  <2>1. /\ Len(history) \in Nat /\ Len(history') = Len(history) + 1 /\ history'[Len(history) + 1] = kind
        /\ \A i \in 1..Len(history) : history'[i] = history[i]
    BY <1>2 DEF Happens, TypeOK
  <2>2. status # "canceled" /\ (status' # "canceled" => kind # "expiration")
    BY <1>2 DEF Happens, Kinds
  <2> QED BY <2>1, <2>2 DEF NoEndYet
<1>3. CASE UNCHANGED vars
  BY <1>1, <1>3 DEF vars, stripe
<1>4. ASSUME NEW r \in Runs, Request(r) \/ RunFault(r) PROVE UNCHANGED stripe
  BY <1>4
  DEF Request, RunFault, LockUnavailable, ConnectFails, ListFails, SyncFails, FailFails, Die
<1>5. ASSUME NEW r \in Runs, RunStep(r) PROVE UNCHANGED stripe
  BY <1>5
  DEF RunStep, AcquireLock, LockTaken, Count, Connect, ListSubscriptions, ImportSubscription,
      ListEvents, ImportEvent, EndOfPage, Sync, Report, Fail, ReportFail, Release
<1>6. ASSUME (\E i \in 1..Len(history) : Webhook(i)) \/ LockExpires \/ ProgressExpires
      PROVE  UNCHANGED stripe
  BY <1>6 DEF Webhook, LockExpires, ProgressExpires
<1> QED BY <1>1, <1>2, <1>3, <1>4, <1>5, <1>6 DEF Next

\* Steps that neither ask for the subscription nor import it.
Aside(r) ==
  \/ Request(r) \/ LockTaken(r) \/ AcquireLock(r) \/ Count(r) \/ Connect(r) \/ ListEvents(r)
  \/ EndOfPage(r) \/ Sync(r) \/ Report(r) \/ Fail(r) \/ ReportFail(r) \/ Release(r) \/ RunFault(r)

LEMMA AsideStep ==
  ASSUME TypeOK, NEW r \in Runs, Aside(r)
  PROVE  /\ UNCHANGED listed /\ UNCHANGED ent /\ UNCHANGED stripe
         /\ \A q \in Runs \ {r} : pc'[q] = pc[q]
         /\ pc'[r] # "sub"
         /\ pc'[r] \in {"idle", "lock", "counting", "connect", "subs"} =>
              pc[r] \in {"idle", "lock", "counting", "connect", "subs"}
         /\ Imported(r)' => Imported(r)
<1> USE DEF TypeOK, Goto, list, db, Imported
<1>1. CASE Request(r) \/ LockTaken(r) \/ AcquireLock(r) \/ Count(r) \/ Connect(r)
  BY <1>1 DEF Request, LockTaken, AcquireLock, Count, Connect
<1>2. CASE ListEvents(r) \/ EndOfPage(r)
  BY <1>2 DEF ListEvents, EndOfPage
<1>3. CASE Sync(r) \/ Report(r) \/ Fail(r) \/ ReportFail(r) \/ Release(r)
  BY <1>3 DEF Sync, Report, Fail, ReportFail, Release
<1>4. CASE RunFault(r)
  BY <1>4 DEF RunFault, LockUnavailable, ConnectFails, ListFails, SyncFails, FailFails, Die
<1> QED BY <1>1, <1>2, <1>3, <1>4 DEF Aside

\* A subscription that lives and was imported has access.
LEMMA AccessStep ==
  ASSUME TypeOK, NoEndYet, ListedOnce, AccessIsKept, [Next]_vars
  PROVE  ListedOnce' /\ AccessIsKept'
<1> DEFINE Kept == ListedOnce' /\ AccessIsKept'
\* The steps that change neither what is listed nor who imported.
<1>1. ASSUME UNCHANGED listed, UNCHANGED pc, Lives' => Lives,
             Lives => \/ UNCHANGED ent
                      \/ \E kind \in {"renewal", "billing_retry", "cancellation"} : Move(kind)
      PROVE  Kept
  <2>1. ListedOnce'
    BY <1>1 DEF ListedOnce
  <2>2. AccessIsKept'
    BY <1>1, TableKeepsAccess DEF AccessIsKept, Imported
  <2> QED BY <2>1, <2>2
<1>2. status' # "canceled" => status # "canceled"
  BY HistoryStep
<1>3. ~Had({"item"})' => ~Had({"item"})
  BY StepsRemember, HadStays
<1>4. UNCHANGED listed => (Lives' => Lives)
  BY <1>2, <1>3 DEF Lives
\* An event of the history is no expiration.
<1>5. ASSUME NEW i \in 1..Len(history), Ingest(i), Lives
      PROVE  \/ UNCHANGED ent
             \/ \E kind \in {"renewal", "billing_retry", "cancellation"} : Move(kind)
  <2>1. history[i] \in {"renewal", "billing_retry", "cancellation"}
    BY <1>5 DEF NoEndYet, Lives, TypeOK, Kinds
  <2> QED BY <1>5, <2>1 DEF Ingest
<1>6. ASSUME NEW r \in Runs, Aside(r) PROVE Kept
  <2>1. /\ UNCHANGED listed /\ UNCHANGED ent
        /\ \A q \in Runs \ {r} : pc'[q] = pc[q]
        /\ pc'[r] # "sub"
        /\ pc'[r] \in {"idle", "lock", "counting", "connect", "subs"} =>
             pc[r] \in {"idle", "lock", "counting", "connect", "subs"}
        /\ Imported(r)' => Imported(r)
    BY <1>6, AsideStep
  <2>2. \A q \in Runs : Imported(q)' => Imported(q)
    BY <2>1 DEF Imported
  <2>3. ListedOnce'
    BY <2>1 DEF ListedOnce
  <2>4. AccessIsKept'
    BY <1>4, <2>1, <2>2 DEF AccessIsKept
  <2> QED BY <2>3, <2>4
<1>7. ASSUME NEW r \in Runs, ListSubscriptions(r) PROVE Kept
  <2>1. /\ pc[r] = "subs" /\ pc'[r] = "sub" /\ listed[r] = "none" /\ listed'[r] = status
        /\ \A q \in Runs \ {r} : pc'[q] = pc[q] /\ listed'[q] = listed[q]
        /\ UNCHANGED ent /\ status \in {"active", "past_due", "canceled"}
    BY <1>7 DEF ListSubscriptions, Goto, TypeOK, ListedOnce, db
  <2>2. ListedOnce'
    BY <2>1 DEF ListedOnce
  <2>3. Lives' => Lives
    BY <1>2, <1>3, <2>1 DEF Lives
  <2>4. \A q \in Runs : Imported(q)' => Imported(q)
    BY <2>1 DEF Imported
  <2>5. AccessIsKept'
    BY <2>1, <2>3, <2>4 DEF AccessIsKept
  <2> QED BY <2>2, <2>5
<1>8. ASSUME NEW r \in Runs, ImportSubscription(r) PROVE Kept
  <2>1. /\ pc[r] = "sub" /\ pc'[r] = "events" /\ UNCHANGED listed
        /\ \A q \in Runs \ {r} : pc'[q] = pc[q]
    BY <1>8 DEF ImportSubscription, Goto, TypeOK, list
  <2>2. ListedOnce'
    BY <2>1 DEF ListedOnce
  <2>3. ASSUME Lives'
        PROVE  ent' \in {"inactive", "active", "billing_retry"} /\ ent' # "inactive"
    <3>1. Lives /\ listed[r] = "active"
      BY <1>4, <2>1, <2>3 DEF Lives, ListedOnce
    <3>2. ~Accident("item")
      BY <2>3, AccidentIsRemembered DEF Lives
    <3>3. Move("purchase")
      BY <1>8, <3>1, <3>2 DEF ImportSubscription, Synthetic
    <3> QED BY <3>1, <3>3, TableKeepsAccess DEF AccessIsKept
  <2> QED BY <2>2, <2>3 DEF AccessIsKept
<1>9. ASSUME NEW r \in Runs, ImportEvent(r) PROVE Kept
  <2>1. page[r] \in Seq(1..Len(history)) /\ page[r] # <<>> /\ UNCHANGED listed /\ UNCHANGED pc
    BY <1>9 DEF ImportEvent, TypeOK
  <2>2. Head(page[r]) \in 1..Len(history)
    BY <2>1
  <2>3. Ingest(Head(page[r])) \/ UNCHANGED ent
    BY <1>9 DEF ImportEvent
  <2> QED BY <1>1, <1>4, <1>5, <2>1, <2>2, <2>3
<1>10. ASSUME NEW i \in 1..Len(history), Webhook(i) PROVE Kept
  BY <1>1, <1>4, <1>5, <1>10 DEF Webhook, list
<1>11. ASSUME (\E kind \in Kinds : Happens(kind)) \/ LockExpires \/ ProgressExpires \/ UNCHANGED vars
       PROVE  Kept
  <2>1. UNCHANGED listed /\ UNCHANGED pc /\ UNCHANGED ent
    BY <1>11 DEF Happens, LockExpires, ProgressExpires, vars, db, list
  <2> QED BY <1>1, <1>4, <2>1
<1> QED
  BY <1>6, <1>7, <1>8, <1>9, <1>10, <1>11 DEF Next, RunStep, Aside
-----------------------------------------------------------------------------
\* The inductive invariant of the backfill.
THEOREM BackfillInvariant == Spec => []IInv
<1>1. ASSUME Init PROVE IInv
  <2>1. TypeOK
    BY <1>1, InitTyped
  <2>2. LockIsHeld /\ PagesAreDone /\ NothingIsLost
    BY <1>1 DEF Init, LockIsHeld, Importing, UnderWay, PagesAreDone, NothingIsLost
  <2>3. BusyIsBacked /\ NoEndYet /\ ListedOnce /\ AccessIsKept
    BY <1>1 DEF Init, BusyIsBacked, Busy, NoEndYet, ListedOnce, AccessIsKept, Imported
  <2> QED BY <2>1, <2>2, <2>3 DEF IInv
<1>2. ASSUME IInv, [Next]_vars PROVE IInv'
  <2>1. TypeOK'
    <3>1. CASE UNCHANGED vars
      BY <1>2, <3>1 DEF IInv, TypeOK, vars
    <3> QED BY <1>2, <3>1, WorldTyped, RunTyped DEF IInv, Next
  <2>2. LockIsHeld' /\ PagesAreDone' /\ NothingIsLost'
    BY <1>2, LockStep, PagesStep, NothingIsLostStep DEF IInv
  <2>3. BusyIsBacked'
    BY <1>2, <2>2, BusyStep DEF IInv
  <2>4. NoEndYet' /\ ListedOnce' /\ AccessIsKept'
    BY <1>2, HistoryStep, AccessStep DEF IInv
  <2> QED BY <2>1, <2>2, <2>3, <2>4 DEF IInv
<1> QED BY <1>1, <1>2, PTL DEF Spec

\* Every reachable state is well typed: the cursor and the pages of a run stay
\* within the history (stripe-backfill.ts:399-443).
THEOREM BackfillTypes == Spec => []TypeOK
<1>1. IInv => TypeOK
  BY DEF IInv
<1> QED BY <1>1, BackfillInvariant, PTL

\* Runs exclude each other by the lock (stripe-backfill.ts:175-182, 293-298).
THEOREM RunsExcludeEachOther == Spec => []OneRunAtATime
<1>1. IInv => OneRunAtATime
  BY DEF IInv, LockIsHeld, OneRunAtATime
<1> QED BY <1>1, BackfillInvariant, PTL

\* The paging misses no event there was when the first page was asked for
\* (stripe-backfill.ts:402-443).
THEOREM PagingIsComplete == Spec => []NothingIsSkipped
<1>1. ASSUME IInv PROVE NothingIsSkipped
  <2> SUFFICES ASSUME NEW r \in Runs, pc[r] \in {"sync", "report"}, ~Had({"item"}),
                      NEW i \in 1..first[r]
               PROVE  i \in stored
    BY DEF NothingIsSkipped
  <2>1. cursor[r] = 1 /\ page[r] = <<>>
    BY <1>1 DEF IInv, PagesAreDone
  <2>2. ~InPage(r, i)
    BY <2>1 DEF InPage
  <2> QED BY <1>1, <2>1, <2>2 DEF IInv, NothingIsLost
<1> QED BY <1>1, BackfillInvariant, PTL

\* A progress that turns requests away has a run behind it, unless a query threw
\* outside of the catch or the run died (onboarding.ts:1008-1013).
THEOREM BusyMeansARun == Spec => []BusyHasARun
<1>1. IInv => BusyHasARun
  BY DEF IInv, BusyIsBacked, BusyHasARun, Importing
<1> QED BY <1>1, BackfillInvariant, PTL

\* A subscription that every run finds active and that is not canceled has access
\* once it is imported, in whatever order webhooks and any number of runs feed
\* its events.  Of one that is past due or has ended this says nothing: the first
\* is imported as ended, the last may get its access back
\* (stripe-backfill.ts:328-443, entitlement/engine.ts:39-104).
THEOREM ImportKeepsAccess == Spec => []ActiveHasAccess
<1>1. IInv => ActiveHasAccess
  BY DEF IInv, AccessIsKept, Lives, Imported, ActiveHasAccess, AccessStates
<1> QED BY <1>1, BackfillInvariant, PTL
=============================================================================
