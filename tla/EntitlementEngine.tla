------------------------- MODULE EntitlementEngine -------------------------
(***************************************************************************)
(* EntitlementEngine.processEvent (src/src/entitlement/engine.ts) run by   *)
(* several workers at once against the entitlements table.                 *)
(*                                                                         *)
(* The rows are those of one user and product, one per billing source (the *)
(* unique index is on user, product and source).  A call makes three       *)
(* database round trips, each a step of its own: the upsert of the row,    *)
(* the select that takes a snapshot, and the update guarded by the state   *)
(* of the snapshot.  The call may be cut short between any two of them, by *)
(* a crash of the worker or by a database error that processEvent lets     *)
(* through to its caller.                                                  *)
(*                                                                         *)
(* A call is started at most once per event: the pipeline calls            *)
(* processEvent only after the insert that stored the event.  Module       *)
(* Ingestion, which models the pipeline, is checked to keep that guard.    *)
(***************************************************************************)
EXTENDS EntitlementTable, Naturals, Sequences

CONSTANTS
  Sources,   \* billing sources, one entitlement row each
  Events,    \* identifiers of canonical events of this user and product
  Procs,     \* concurrent calls of processEvent
  NoEvent    \* what a slot without a call works on

ASSUME NoEventAssumption == NoEvent \notin Events

VARIABLES
  canon,     \* canon[e]: type and source of canonical event e
  rows,      \* rows[s]: the entitlement row of source s, or NoRow
  outcome,   \* outcome[e]: what became of the call for event e
  pc,        \* pc[p]: the round trip slot p makes next
  job,       \* job[p]: the event slot p processes, or NoEvent
  seen       \* seen[p]: the row slot p's select returned, or NoRow

vars == <<canon, rows, outcome, pc, job, seen>>

Canon == [type : EventTypes, source : Sources]
Entry == [from : States, to : States, event : Events]
Row == [state : States, history : Seq(Entry)]
NoRow == [state |-> "none", history |-> <<>>]
EmptyRow == [state |-> "inactive", history |-> <<>>]

TypeOK ==
  /\ canon \in [Events -> Canon]
  /\ rows \in [Sources -> Row \cup {NoRow}]
  /\ outcome \in [Events -> {"new", "running", "applied", "noTransition",
                             "conflict", "aborted"}]
  /\ pc \in [Procs -> {"idle", "upsert", "select", "update"}]
  /\ job \in [Procs -> Events \cup {NoEvent}]
  /\ seen \in [Procs -> Row \cup {NoRow}]

Init ==
  /\ canon \in [Events -> Canon]
  /\ rows = [s \in Sources |-> NoRow]
  /\ outcome = [e \in Events |-> "new"]
  /\ pc = [p \in Procs |-> "idle"]
  /\ job = [p \in Procs |-> NoEvent]
  /\ seen = [p \in Procs |-> NoRow]
-----------------------------------------------------------------------------
Type(p) == canon[job[p]].type
Source(p) == canon[job[p]].source

\* The entry that slot p appends to the history, and the row it writes: both
\* are computed from the snapshot, not from the row in the table.
Transition(p) == [from  |-> seen[p].state,
                  to    |-> NextState(seen[p].state, Type(p)),
                  event |-> job[p]]
NewRow(p) == [state   |-> Transition(p).to,
              history |-> Append(seen[p].history, Transition(p))]

\* The call of slot p ends and its event's fate is f.
Return(p, f) ==
  /\ outcome' = [outcome EXCEPT ![job[p]] = f]
  /\ pc' = [pc EXCEPT ![p] = "idle"]
  /\ job' = [job EXCEPT ![p] = NoEvent]
  /\ seen' = [seen EXCEPT ![p] = NoRow]

\* Mutant: the caller starts a call for an event it already processed.
Begin_Again(p, e) ==
  /\ pc[p] = "idle"
  /\ outcome[e] \in {"new", "applied"}
  /\ outcome' = [outcome EXCEPT ![e] = "running"]
  /\ pc' = [pc EXCEPT ![p] = "upsert"]
  /\ job' = [job EXCEPT ![p] = e]
  /\ UNCHANGED <<canon, rows, seen>>

Begin(p, e) ==
  /\ pc[p] = "idle"
  /\ outcome[e] = "new"
  /\ outcome' = [outcome EXCEPT ![e] = "running"]
  /\ pc' = [pc EXCEPT ![p] = "upsert"]
  /\ job' = [job EXCEPT ![p] = e]
  /\ UNCHANGED <<canon, rows, seen>>

\* Mutant: ON CONFLICT DO UPDATE SET state = 'inactive'.
Upsert_Overwrite(p) ==
  /\ pc[p] = "upsert"
  /\ rows' = [rows EXCEPT ![Source(p)].state = "inactive"]
  /\ pc' = [pc EXCEPT ![p] = "select"]
  /\ UNCHANGED <<canon, outcome, job, seen>>

\* INSERT ... ON CONFLICT DO NOTHING
Upsert(p) ==
  /\ pc[p] = "upsert"
  /\ rows' = [rows EXCEPT ![Source(p)] = IF @ = NoRow THEN EmptyRow ELSE @]
  /\ pc' = [pc EXCEPT ![p] = "select"]
  /\ UNCHANGED <<canon, outcome, job, seen>>

SelectTransition(p) ==
  /\ pc[p] = "select"
  /\ HasTransition(rows[Source(p)].state, Type(p))
  /\ seen' = [seen EXCEPT ![p] = rows[Source(p)]]
  /\ pc' = [pc EXCEPT ![p] = "update"]
  /\ UNCHANGED <<canon, rows, outcome, job>>

SelectNoTransition(p) ==
  /\ pc[p] = "select"
  /\ ~HasTransition(rows[Source(p)].state, Type(p))
  /\ Return(p, "noTransition")
  /\ UNCHANGED <<canon, rows>>

\* UPDATE ... WHERE state = currentState matches the row
UpdateApplied(p) ==
  /\ pc[p] = "update"
  /\ rows[Source(p)].state = seen[p].state
  /\ rows' = [rows EXCEPT ![Source(p)] = NewRow(p)]
  /\ Return(p, "applied")
  /\ UNCHANGED canon

\* Mutant: the update compares the row with the new state.
UpdateConflict_NewState(p) ==
  /\ pc[p] = "update"
  /\ rows[Source(p)].state # NewRow(p).state
  /\ Return(p, "conflict")
  /\ UNCHANGED <<canon, rows>>

\* ... and matches nothing: the event is dropped.
UpdateConflict(p) ==
  /\ pc[p] = "update"
  /\ rows[Source(p)].state # seen[p].state
  /\ Return(p, "conflict")
  /\ UNCHANGED <<canon, rows>>

\* The worker dies, or the round trip it was about to make throws.
Abort(p) ==
  /\ pc[p] # "idle"
  /\ Return(p, "aborted")
  /\ UNCHANGED <<canon, rows>>

Step(p) ==
  \/ Upsert(p)
  \/ SelectTransition(p)
  \/ SelectNoTransition(p)
  \/ UpdateApplied(p)
  \/ UpdateConflict(p)
  \/ Abort(p)

Next == \E p \in Procs : Step(p) \/ \E e \in Events : Begin(p, e)

Spec == Init /\ [][Next]_vars
-----------------------------------------------------------------------------
\* The history of a row is one path through the state machine: it starts in
\* inactive, every entry starts where the one before it ended, and it ends in
\* the state the row is in (state and stateHistory are written together from
\* one snapshot, engine.ts:170-188).
Chained(row) ==
  LET h == row.history IN
  /\ \A i \in 1..Len(h) : i > 1 => h[i].from = h[i - 1].to
  /\ Len(h) > 0 => h[1].from = "inactive" /\ h[Len(h)].to = row.state
  /\ Len(h) = 0 => row.state \in {"inactive", "none"}

HistoryIsAPath == \A s \in Sources : Chained(rows[s])

\* Every entry of a row's history is an entry of STATE_TRANSITIONS taken by an
\* event of that source whose call returned the transition, and no event is in
\* a history twice: concurrent calls and retries never replay an event.
Faithful(row, s) ==
  LET h == row.history IN
  \A i \in 1..Len(h) :
    /\ outcome[h[i].event] = "applied"
    /\ canon[h[i].event].source = s
    /\ <<h[i].from, canon[h[i].event].type, h[i].to>> \in STATE_TRANSITIONS
    /\ \A j \in 1..Len(h) : h[j].event = h[i].event => j = i

HistoryIsFaithful == \A s \in Sources : Faithful(rows[s], s)

\* The optimistic lock drops an event only in favour of another event of the
\* same row that did take effect (engine.ts:202-209): calls that race cannot
\* all come away with nothing.
ConflictHasAWinner ==
  \A e \in Events : outcome[e] = "conflict" =>
    \E w \in Events : /\ w # e
                      /\ outcome[w] = "applied"
                      /\ canon[w].source = canon[e].source

\* A row changes state only by an entry of STATE_TRANSITIONS for the event
\* whose call returns "applied" in that very step, from the state the row is
\* really in: a stale snapshot never moves a row (engine.ts:195-198).
MovesByTable ==
  [][\A s \in Sources :
       rows'[s] # rows[s] =>
         \/ rows[s] = NoRow /\ rows'[s] = EmptyRow
         \/ \E e \in Events :
              /\ outcome[e] = "running" /\ outcome'[e] = "applied"
              /\ canon[e].source = s
              /\ <<rows[s].state, canon[e].type, rows'[s].state>>
                   \in STATE_TRANSITIONS]_vars

\* processEvent implements EntitlementLedger: under every interleaving it
\* behaves as if each event took effect in one indivisible step, or not at all.
LedgerState == [s \in Sources |->
                  IF rows[s] = NoRow THEN "inactive" ELSE rows[s].state]
FateOf(o) ==
  CASE o \in {"new", "running"} -> "pending"
    [] o = "applied" -> "applied"
    [] o = "noTransition" -> "rejected"
    [] OTHER -> "abandoned"
Ledger == INSTANCE EntitlementLedger
            WITH state <- LedgerState,
                 fate <- [e \in Events |-> FateOf(outcome[e])]
ImplementsLedger == Ledger!Spec
-----------------------------------------------------------------------------
\* The inductive invariant behind the properties above.  A slot in a call works
\* on a running event of its own; its row exists once it was upserted; the
\* snapshot it writes back is a path of its row's source; and if the row left
\* the state of the snapshot, another event took effect.
SlotsAgree ==
  /\ \A p \in Procs : pc[p] # "idle" =>
       /\ job[p] \in Events
       /\ outcome[job[p]] = "running"
       /\ \A q \in Procs : pc[q] # "idle" /\ job[q] = job[p] => q = p
  /\ \A p \in Procs : pc[p] \in {"select", "update"} => rows[Source(p)] # NoRow

SnapshotsAgree ==
  \A p \in Procs : pc[p] = "update" =>
    /\ seen[p] \in Row
    /\ HasTransition(seen[p].state, Type(p))
    /\ Chained(seen[p])
    /\ Faithful(seen[p], Source(p))
    /\ rows[Source(p)].state # seen[p].state =>
         \E w \in Events : outcome[w] = "applied" /\ canon[w].source = Source(p)

IInv == /\ TypeOK /\ SlotsAgree /\ SnapshotsAgree
        /\ HistoryIsAPath /\ HistoryIsFaithful /\ ConflictHasAWinner
=============================================================================
