---------------------- MODULE EntitlementEngine_proofs ----------------------
(***************************************************************************)
(* Proofs about EntitlementEngine, for any set of events, sources and      *)
(* concurrent calls; and about EntitlementReplay, for any timeline.        *)
(***************************************************************************)
EXTENDS EntitlementReplay, TLAPS

\* What a lookup in STATE_TRANSITIONS returns: a state of the machine, by an
\* entry of the table.
LEMMA NextStateIsAnEntry ==
  ASSUME NEW s, NEW type, HasTransition(s, type)
  PROVE  /\ NextState(s, type) \in States
         /\ <<s, type, NextState(s, type)>> \in STATE_TRANSITIONS
  BY DEF HasTransition, NextState

\* A row that was not created is no row of the table.
LEMMA NoRowIsNoRow == NoRow \notin Row
  <1>1. NoRow.state \notin States
    BY DEF NoRow, States
  <1>2. QED
    BY <1>1 DEF Row

LEMMA EmptyRowIsARow == EmptyRow \in Row /\ EmptyRow # NoRow
  BY DEF EmptyRow, Row, NoRow, States

\* The row a call writes extends the path of its snapshot by one entry.
LEMMA NewRowIsARow ==
  ASSUME TypeOK, NEW p \in Procs, job[p] \in Events,
         seen[p] \in Row, HasTransition(seen[p].state, Type(p))
  PROVE  /\ NewRow(p) \in Row
         /\ Transition(p) \in Entry
         /\ <<seen[p].state, Type(p), NewRow(p).state>> \in STATE_TRANSITIONS
         /\ NewRow(p).history = Append(seen[p].history, Transition(p))
  <1>1. /\ NextState(seen[p].state, Type(p)) \in States
        /\ <<seen[p].state, Type(p), NextState(seen[p].state, Type(p))>>
             \in STATE_TRANSITIONS
    BY NextStateIsAnEntry
  <1>2. seen[p].state \in States /\ seen[p].history \in Seq(Entry)
    BY DEF Row
  <1>3. Transition(p) \in Entry
    BY <1>1, <1>2 DEF Transition, Entry
  <1>4. NewRow(p).state = NextState(seen[p].state, Type(p))
    BY DEF NewRow, Transition
  <1>5. Append(seen[p].history, Transition(p)) \in Seq(Entry)
    BY <1>2, <1>3
  <1>6. NewRow(p) \in Row
    BY <1>1, <1>4, <1>5 DEF NewRow, Row
  <1>7. QED
    BY <1>1, <1>3, <1>4, <1>6 DEF NewRow

LEMMA InitTyped == Init => TypeOK
  BY NoRowIsNoRow DEF Init, TypeOK

\* Type correctness is inductive together with the agreement of the slots.
LEMMA TypeOKStep ==
  ASSUME TypeOK, SlotsAgree, SnapshotsAgree, [Next]_vars
  PROVE  TypeOK'
  <1> USE DEF TypeOK
  <1>1. ASSUME NEW p \in Procs, NEW e \in Events, Begin(p, e)
        PROVE  TypeOK'
    BY <1>1 DEF Begin
  <1>2. ASSUME NEW p \in Procs, Upsert(p)
        PROVE  TypeOK'
    BY <1>2, EmptyRowIsARow DEF Upsert, Source, SlotsAgree, Canon
  <1>3. ASSUME NEW p \in Procs, SelectTransition(p)
        PROVE  TypeOK'
    <2>1. job[p] \in Events /\ Source(p) \in Sources
      BY <1>3 DEF SelectTransition, SlotsAgree, Source, Canon
    <2>2. QED
      BY <1>3, <2>1 DEF SelectTransition
  <1>4. ASSUME NEW p \in Procs, SelectNoTransition(p)
        PROVE  TypeOK'
    BY <1>4 DEF SelectNoTransition, Return
  <1>5. ASSUME NEW p \in Procs, UpdateApplied(p)
        PROVE  TypeOK'
    <2>1. job[p] \in Events /\ NewRow(p) \in Row
      BY <1>5, NewRowIsARow DEF UpdateApplied, SlotsAgree, SnapshotsAgree
    <2>2. QED
      BY <1>5, <2>1 DEF UpdateApplied, Return
  <1>6. ASSUME NEW p \in Procs, UpdateConflict(p)
        PROVE  TypeOK'
    BY <1>6 DEF UpdateConflict, Return
  <1>7. ASSUME NEW p \in Procs, Abort(p)
        PROVE  TypeOK'
    BY <1>7 DEF Abort, Return
  <1>8. CASE UNCHANGED vars
    BY <1>8 DEF vars
  <1>9. QED
    BY <1>1, <1>2, <1>3, <1>4, <1>5, <1>6, <1>7, <1>8 DEF Next, Step
-----------------------------------------------------------------------------
\* Extending a path by an entry that starts where it ended gives a path, and
\* a history of applied events gains one that was running.
LEMMA NewRowIsChained ==
  ASSUME TypeOK, NEW p \in Procs, job[p] \in Events, seen[p] \in Row,
         HasTransition(seen[p].state, Type(p)), Chained(seen[p])
  PROVE  Chained(NewRow(p))
  <1> DEFINE h == seen[p].history
             t == Transition(p)
  <1>1. /\ h \in Seq(Entry) /\ seen[p].state \in States
        /\ t \in Entry /\ NewRow(p).history = Append(h, t)
    BY NewRowIsARow DEF Row
  <1>2. t.from = seen[p].state /\ NewRow(p).state = t.to
    BY DEF NewRow, Transition
  <1>3. /\ Len(Append(h, t)) = Len(h) + 1 /\ Len(h) \in Nat
        /\ Append(h, t)[Len(h) + 1] = t
        /\ \A i \in 1..Len(h) : Append(h, t)[i] = h[i]
    BY <1>1
  <1>4. Len(h) > 0 => h[1].from = "inactive" /\ h[Len(h)].to = seen[p].state
    BY DEF Chained
  <1>5. Len(h) = 0 => seen[p].state = "inactive"
    BY <1>1 DEF Chained, States
  <1>6. \A i \in 1..Len(h) : i > 1 => h[i].from = h[i - 1].to
    BY DEF Chained
  <1> HIDE DEF h, t
  <1>7. \A i \in 1..(Len(h) + 1) : i > 1 =>
          Append(h, t)[i].from = Append(h, t)[i - 1].to
    <2> SUFFICES ASSUME NEW i \in 1..(Len(h) + 1), i > 1
                 PROVE  Append(h, t)[i].from = Append(h, t)[i - 1].to
      OBVIOUS
    <2>1. Len(h) > 0 /\ i - 1 \in 1..Len(h)
      BY <1>3
    <2>2. CASE i = Len(h) + 1
      BY <1>2, <1>3, <1>4, <2>1, <2>2
    <2>3. CASE i \in 1..Len(h)
      BY <1>3, <1>6, <2>1, <2>3
    <2>4. QED
      BY <2>2, <2>3, <1>3
  <1>8. Append(h, t)[1].from = "inactive"
    <2>1. CASE Len(h) = 0
      BY <1>2, <1>3, <1>5, <2>1
    <2>2. CASE Len(h) > 0
      BY <1>3, <1>4, <2>2
    <2>3. QED
      BY <2>1, <2>2, <1>3
  <1>9. QED
    BY <1>1, <1>2, <1>3, <1>7, <1>8 DEF Chained

\* No call undoes the fate of an event that was applied, or stores another
\* type or source for it.
LEMMA AppliedStays ==
  ASSUME TypeOK, SlotsAgree, [Next]_vars
  PROVE  /\ canon' = canon
         /\ \A e \in Events : outcome[e] = "applied" => outcome'[e] = "applied"
  <1>1. ASSUME NEW p \in Procs, NEW f, pc[p] # "idle", Return(p, f)
        PROVE  \A e \in Events : outcome[e] = "applied" => outcome'[e] = "applied"
    BY <1>1 DEF Return, SlotsAgree, TypeOK
  <1>2. ASSUME NEW p \in Procs, NEW e \in Events, Begin(p, e)
        PROVE  \A d \in Events : outcome[d] = "applied" => outcome'[d] = "applied"
    BY <1>2 DEF Begin, TypeOK
  <1>3. QED
    BY <1>1, <1>2 DEF Next, Step, vars, Begin, Upsert, SelectTransition,
       SelectNoTransition, UpdateApplied, UpdateConflict, Abort

LEMMA EntriesOfAHistory ==
  ASSUME NEW h \in Seq(Entry), NEW i \in 1..Len(h)
  PROVE  h[i] \in Entry /\ h[i].event \in Events
  <1>1. h[i] \in Entry
    OBVIOUS
  <1>2. QED
    BY <1>1 DEF Entry

\* A history of applied events stays one.
LEMMA FaithfulStays ==
  ASSUME TypeOK, SlotsAgree, [Next]_vars, NEW row \in Row \cup {NoRow}, NEW s,
         Faithful(row, s)
  PROVE  Faithful(row, s)'
  <1>1. \A i \in 1..Len(row.history) : row.history[i].event \in Events
    <2>1. CASE row = NoRow
      BY <2>1 DEF NoRow
    <2>2. CASE row \in Row
      <3>1. row.history \in Seq(Entry)
        BY <2>2 DEF Row
      <3>2. QED
        BY <3>1, EntriesOfAHistory
    <2>3. QED
      BY <2>1, <2>2
  <1>2. QED
    BY <1>1, AppliedStays DEF Faithful

LEMMA NewRowIsFaithful ==
  ASSUME TypeOK, SlotsAgree, SnapshotsAgree, NEW p \in Procs, UpdateApplied(p),
         NEW row, row = NewRow(p), NEW s, s = Source(p)
  PROVE  Faithful(row, s)'
  <1> DEFINE h == seen[p].history
             t == Transition(p)
             g == Append(h, t)
  <1>1. /\ job[p] \in Events /\ outcome[job[p]] = "running"
        /\ seen[p] \in Row /\ HasTransition(seen[p].state, Type(p))
        /\ Faithful(seen[p], Source(p))
    BY DEF UpdateApplied, SlotsAgree, SnapshotsAgree
  <1>2. /\ h \in Seq(Entry) /\ t \in Entry
        /\ <<seen[p].state, Type(p), NewRow(p).state>> \in STATE_TRANSITIONS
        /\ NewRow(p).history = g
    BY <1>1, NewRowIsARow DEF Row
  <1>3. /\ outcome' = [outcome EXCEPT ![job[p]] = "applied"]
        /\ canon' = canon
    BY DEF UpdateApplied, Return
  <1>4. /\ t.event = job[p] /\ t.from = seen[p].state /\ t.to = NewRow(p).state
    BY DEF Transition, NewRow
  <1>5. /\ Len(g) = Len(h) + 1 /\ Len(h) \in Nat /\ g[Len(h) + 1] = t
        /\ \A i \in 1..Len(h) : g[i] = h[i] /\ h[i].event \in Events
    BY <1>2, EntriesOfAHistory
  <1>6. \A i \in 1..Len(h) :
          /\ outcome[h[i].event] = "applied"
          /\ canon[h[i].event].source = Source(p)
          /\ <<h[i].from, canon[h[i].event].type, h[i].to>> \in STATE_TRANSITIONS
          /\ \A j \in 1..Len(h) : h[j].event = h[i].event => j = i
    BY <1>1 DEF Faithful
  <1>7. \A i \in 1..Len(h) : h[i].event # job[p]
    BY <1>1, <1>6
  <1> HIDE DEF h, t, g
  <1>8. ASSUME NEW i \in 1..Len(g)
        PROVE  /\ outcome'[g[i].event] = "applied"
               /\ canon'[g[i].event].source = Source(p)
               /\ <<g[i].from, canon'[g[i].event].type, g[i].to>> \in STATE_TRANSITIONS
               /\ \A j \in 1..Len(g) : g[j].event = g[i].event => j = i
    <2>1. CASE i = Len(h) + 1
      <3>1. g[i].event = job[p]
        BY <1>4, <1>5, <2>1
      <3>2. outcome'[job[p]] = "applied"
        BY <1>1, <1>3 DEF TypeOK
      <3>3. <<g[i].from, canon'[g[i].event].type, g[i].to>> \in STATE_TRANSITIONS
        BY <1>2, <1>3, <1>4, <1>5, <2>1 DEF Type
      <3>4. \A j \in 1..Len(g) : g[j].event = g[i].event => j = i
        BY <1>5, <1>7, <2>1, <3>1
      <3>5. QED
        BY <1>3, <3>1, <3>2, <3>3, <3>4 DEF Source
    <2>2. CASE i \in 1..Len(h)
      <3>1. g[i] = h[i] /\ h[i].event # job[p] /\ h[i].event \in Events
        BY <1>5, <1>7, <2>2
      <3>2. outcome'[h[i].event] = outcome[h[i].event]
        BY <1>3, <3>1 DEF TypeOK
      <3>3. \A j \in 1..Len(g) : g[j].event = g[i].event => j = i
        <4> SUFFICES ASSUME NEW j \in 1..Len(g), g[j].event = g[i].event
                     PROVE  j = i
          OBVIOUS
        <4>1. j # Len(h) + 1
          BY <1>4, <1>5, <3>1
        <4>2. j \in 1..Len(h)
          BY <1>5, <4>1
        <4>3. h[j].event = h[i].event
          BY <1>5, <3>1, <4>2
        <4>4. QED
          BY <1>6, <2>2, <4>2, <4>3
      <3>4. QED
        BY <1>3, <1>6, <2>2, <3>1, <3>2, <3>3
    <2>3. QED
      BY <1>5, <2>1, <2>2
  <1>9. row.history = g
    BY <1>2
  <1>10. QED
    BY <1>8, <1>9 DEF Faithful
-----------------------------------------------------------------------------
LEMMA SlotsAgreeStep ==
  ASSUME TypeOK, SlotsAgree, SnapshotsAgree, [Next]_vars
  PROVE  SlotsAgree'
  <1> USE DEF TypeOK, SlotsAgree, Source
  <1>1. ASSUME NEW p \in Procs, NEW e \in Events, Begin(p, e)
        PROVE  SlotsAgree'
    BY <1>1 DEF Begin
  <1>2. ASSUME NEW p \in Procs, Upsert(p)
        PROVE  SlotsAgree'
    <2>1. \A s \in Sources : rows[s] # NoRow => rows'[s] # NoRow
      BY <1>2, EmptyRowIsARow DEF Upsert
    <2>2. rows'[Source(p)] # NoRow
      BY <1>2, EmptyRowIsARow DEF Upsert, Canon
    <2>3. QED
      BY <1>2, <2>1, <2>2 DEF Upsert, Canon
  <1>3. ASSUME NEW p \in Procs, SelectTransition(p)
        PROVE  SlotsAgree'
    BY <1>3 DEF SelectTransition
  <1>4. ASSUME NEW p \in Procs, NEW f, Return(p, f), pc[p] # "idle",
               UNCHANGED <<canon, rows>>
        PROVE  SlotsAgree'
    BY <1>4 DEF Return
  <1>5. ASSUME NEW p \in Procs, UpdateApplied(p)
        PROVE  SlotsAgree'
    <2>1. NewRow(p) \in Row
      BY <1>5, NewRowIsARow DEF UpdateApplied, SnapshotsAgree
    <2>2. \A s \in Sources : rows[s] # NoRow => rows'[s] # NoRow
      BY <1>5, <2>1, NoRowIsNoRow DEF UpdateApplied
    <2>3. QED
      BY <1>5, <2>2 DEF UpdateApplied, Return, Canon
  <1>6. CASE UNCHANGED vars
    BY <1>6 DEF vars
  <1>7. QED
    BY <1>1, <1>2, <1>3, <1>4, <1>5, <1>6 DEF Next, Step, SelectNoTransition,
       UpdateConflict, Abort

\* What SnapshotsAgree says of slot q survives a step that leaves the slot
\* alone, unless the step moves the row of q without an event taking effect.
LEMMA SnapshotStays ==
  ASSUME TypeOK, SlotsAgree, SnapshotsAgree, [Next]_vars,
         NEW q \in Procs, pc[q] = "update", job'[q] = job[q], seen'[q] = seen[q],
         \/ rows'[Source(q)].state = rows[Source(q)].state
         \/ \E w \in Events : outcome'[w] = "applied" /\ canon[w].source = Source(q)
  PROVE  /\ seen'[q] \in Row
         /\ HasTransition(seen'[q].state, Type(q)')
         /\ Chained(seen[q])'
         /\ Faithful(seen[q], Source(q))'
         /\ rows'[Source(q)'].state # seen'[q].state =>
              \E w \in Events : outcome'[w] = "applied" /\ canon'[w].source = Source(q)'
  <1>1. canon' = canon /\ Type(q)' = Type(q) /\ Source(q)' = Source(q)
    BY AppliedStays DEF Type, Source
  <1>2. /\ seen[q] \in Row /\ HasTransition(seen[q].state, Type(q))
        /\ Chained(seen[q]) /\ Faithful(seen[q], Source(q))
    BY DEF SnapshotsAgree
  <1>3. Chained(seen[q])'
    BY <1>2 DEF Chained
  <1>4. Faithful(seen[q], Source(q))'
    <2>1. PICK row : row = seen[q]
      OBVIOUS
    <2>2. PICK s : s = Source(q)
      OBVIOUS
    <2>3. row \in Row /\ Faithful(row, s)
      BY <1>2, <2>1, <2>2
    <2>4. Faithful(row, s)'
      BY <2>3, FaithfulStays
    <2>5. seen'[q] = row /\ Source(q)' = s
      BY <1>1, <2>1, <2>2
    <2>6. QED
      BY <2>4, <2>5 DEF Faithful
  <1>5. QED
    BY <1>1, <1>2, <1>3, <1>4, AppliedStays DEF SnapshotsAgree

LEMMA SnapshotsAgreeStep ==
  ASSUME IInv, [Next]_vars
  PROVE  SnapshotsAgree'
  <1> USE DEF IInv
  <1>0. canon' = canon
    BY AppliedStays
  <1>1. ASSUME NEW p \in Procs, NEW e \in Events, Begin(p, e)
        PROVE  SnapshotsAgree'
    <2>1. \A q \in Procs : pc'[q] = "update" =>
            pc[q] = "update" /\ job'[q] = job[q] /\ seen'[q] = seen[q]
      BY <1>1 DEF Begin, TypeOK
    <2>2. rows' = rows
      BY <1>1 DEF Begin
    <2>3. QED
      BY <2>1, <2>2, SnapshotStays DEF SnapshotsAgree
  <1>2. ASSUME NEW p \in Procs, Upsert(p)
        PROVE  SnapshotsAgree'
    <2>1. \A q \in Procs : pc'[q] = "update" =>
            /\ pc[q] = "update" /\ job'[q] = job[q] /\ seen'[q] = seen[q]
            /\ rows'[Source(q)] = rows[Source(q)]
      BY <1>2 DEF Upsert, TypeOK, SlotsAgree
    <2>2. QED
      BY <2>1, SnapshotStays DEF SnapshotsAgree
  <1>3. ASSUME NEW p \in Procs, SelectTransition(p)
        PROVE  SnapshotsAgree'
    <2>1. rows' = rows /\ \A q \in Procs \ {p} : pc'[q] = "update" =>
            pc[q] = "update" /\ job'[q] = job[q] /\ seen'[q] = seen[q]
      BY <1>3 DEF SelectTransition, TypeOK
    <2>2. /\ seen'[p] = rows[Source(p)] /\ Type(p)' = Type(p) /\ Source(p)' = Source(p)
          /\ HasTransition(rows[Source(p)].state, Type(p))
      BY <1>0, <1>3 DEF SelectTransition, TypeOK, Type, Source
    <2>3. Source(p) \in Sources /\ rows[Source(p)] \in Row
      BY <1>3 DEF SelectTransition, TypeOK, SlotsAgree, Source, Canon
    <2>4. Chained(seen[p])'
      <3>1. Chained(rows[Source(p)])
        BY <2>3 DEF HistoryIsAPath
      <3>2. QED
        BY <2>2, <3>1 DEF Chained
    <2>5. Faithful(seen[p], Source(p))'
      <3>1. PICK row : row = rows[Source(p)]
        OBVIOUS
      <3>2. PICK s : s = Source(p)
        OBVIOUS
      <3>3. Faithful(row, s)'
        BY <2>3, <3>1, <3>2, FaithfulStays DEF HistoryIsFaithful
      <3>4. seen'[p] = row /\ Source(p)' = s
        BY <2>2, <3>1, <3>2
      <3>5. QED
        BY <3>3, <3>4 DEF Faithful
    <2>6. ASSUME NEW q \in Procs \ {p}, pc'[q] = "update"
          PROVE  /\ seen'[q] \in Row
                 /\ HasTransition(seen'[q].state, Type(q)')
                 /\ Chained(seen[q])'
                 /\ Faithful(seen[q], Source(q))'
                 /\ rows'[Source(q)'].state # seen'[q].state =>
                      \E w \in Events :
                        outcome'[w] = "applied" /\ canon'[w].source = Source(q)'
      BY <2>1, <2>6, SnapshotStays
    <2>7. QED
      BY <2>1, <2>2, <2>3, <2>4, <2>5, <2>6 DEF SnapshotsAgree
  <1>4. ASSUME NEW p \in Procs, NEW f, Return(p, f), UNCHANGED rows
        PROVE  SnapshotsAgree'
    <2>1. \A q \in Procs : pc'[q] = "update" =>
            pc[q] = "update" /\ job'[q] = job[q] /\ seen'[q] = seen[q]
      BY <1>4 DEF Return, TypeOK
    <2>2. QED
      BY <1>4, <2>1, SnapshotStays DEF SnapshotsAgree
  <1>5. ASSUME NEW p \in Procs, UpdateApplied(p)
        PROVE  SnapshotsAgree'
    <2>1. \A q \in Procs : pc'[q] = "update" =>
            pc[q] = "update" /\ job'[q] = job[q] /\ seen'[q] = seen[q]
      BY <1>5 DEF UpdateApplied, Return, TypeOK
    <2>2. job[p] \in Events /\ outcome'[job[p]] = "applied"
      BY <1>5 DEF UpdateApplied, Return, TypeOK, SlotsAgree
    <2>3. \A s \in Sources : rows'[s] = rows[s] \/ s = canon[job[p]].source
      BY <1>5 DEF UpdateApplied, TypeOK, Source
    <2>4. \A q \in Procs : pc[q] = "update" => Source(q) \in Sources
      BY DEF TypeOK, SlotsAgree, Source, Canon
    <2>5. QED
      BY <2>1, <2>2, <2>3, <2>4, SnapshotStays DEF SnapshotsAgree
  <1>6. CASE UNCHANGED vars
    BY <1>6, SnapshotStays DEF vars, SnapshotsAgree
  <1>7. QED
    BY <1>1, <1>2, <1>3, <1>4, <1>5, <1>6 DEF Next, Step, SelectNoTransition,
       UpdateConflict, Abort

\* How a step changes the rows: not at all, by creating an empty one, or by
\* writing the row of the snapshot of a call that returns "applied".
LEMMA RowsStep ==
  ASSUME TypeOK, SlotsAgree, SnapshotsAgree, [Next]_vars, NEW s \in Sources
  PROVE  \/ rows'[s] = rows[s]
         \/ rows[s] = NoRow /\ rows'[s] = EmptyRow
         \/ \E p \in Procs :
              /\ UpdateApplied(p) /\ s = Source(p) /\ rows'[s] = NewRow(p)
              /\ job[p] \in Events /\ seen[p] \in Row
              /\ HasTransition(seen[p].state, Type(p))
              /\ Chained(seen[p]) /\ rows[s].state = seen[p].state
  <1>1. ASSUME NEW p \in Procs, Upsert(p)
        PROVE  rows'[s] = rows[s] \/ (rows[s] = NoRow /\ rows'[s] = EmptyRow)
    BY <1>1 DEF Upsert, TypeOK
  <1>2. ASSUME NEW p \in Procs, UpdateApplied(p)
        PROVE  \/ rows'[s] = rows[s]
               \/ /\ s = Source(p) /\ rows'[s] = NewRow(p)
                  /\ job[p] \in Events /\ seen[p] \in Row
                  /\ HasTransition(seen[p].state, Type(p))
                  /\ Chained(seen[p]) /\ rows[s].state = seen[p].state
    BY <1>2 DEF UpdateApplied, TypeOK, SlotsAgree, SnapshotsAgree
  <1>3. QED
    BY <1>1, <1>2 DEF Next, Step, vars, Begin, SelectTransition,
       SelectNoTransition, UpdateConflict, Abort

LEMMA HistoryIsAPathStep ==
  ASSUME IInv, [Next]_vars
  PROVE  HistoryIsAPath'
  <1> SUFFICES ASSUME NEW s \in Sources
               PROVE  Chained(rows'[s])
    BY DEF HistoryIsAPath, Chained
  <1>1. CASE rows'[s] = rows[s]
    BY <1>1 DEF IInv, HistoryIsAPath
  <1>2. CASE rows'[s] = EmptyRow
    BY <1>2 DEF Chained, EmptyRow
  <1>3. ASSUME NEW p \in Procs, rows'[s] = NewRow(p), job[p] \in Events,
               seen[p] \in Row, HasTransition(seen[p].state, Type(p)), Chained(seen[p])
        PROVE  Chained(rows'[s])
    BY <1>3, NewRowIsChained DEF IInv
  <1>4. QED
    BY <1>1, <1>2, <1>3, RowsStep DEF IInv

LEMMA HistoryIsFaithfulStep ==
  ASSUME IInv, [Next]_vars
  PROVE  HistoryIsFaithful'
  <1> SUFFICES ASSUME NEW s \in Sources
               PROVE  Faithful(rows[s], s)'
    BY DEF HistoryIsFaithful
  <1> USE DEF IInv
  <1>1. PICK row : row = rows'[s]
    OBVIOUS
  <1>2. Faithful(row, s)'
    <2>1. CASE rows'[s] = rows[s]
      <3>1. row \in Row \cup {NoRow} /\ Faithful(row, s)
        BY <1>1, <2>1 DEF HistoryIsFaithful, TypeOK
      <3>2. QED
        BY <3>1, FaithfulStays
    <2>2. CASE rows'[s] = EmptyRow
      BY <1>1, <2>2 DEF Faithful, EmptyRow
    <2>3. ASSUME NEW p \in Procs, UpdateApplied(p), s = Source(p), row = NewRow(p)
          PROVE  Faithful(row, s)'
      BY <2>3, NewRowIsFaithful
    <2>4. QED
      BY <1>1, <2>1, <2>2, <2>3, RowsStep
  <1>3. QED
    BY <1>1, <1>2 DEF Faithful

LEMMA ConflictHasAWinnerStep ==
  ASSUME IInv, [Next]_vars
  PROVE  ConflictHasAWinner'
  <1> USE DEF IInv
  <1>1. SUFFICES ASSUME NEW e \in Events, outcome'[e] = "conflict"
                 PROVE  \E w \in Events : /\ w # e /\ outcome[w] = "applied"
                                         /\ canon[w].source = canon[e].source
    BY AppliedStays DEF ConflictHasAWinner
  <1>2. CASE outcome[e] = "conflict"
    BY <1>2 DEF ConflictHasAWinner
  <1>3. ASSUME NEW p \in Procs, UpdateConflict(p), e = job[p]
        PROVE  \E w \in Events : /\ w # e /\ outcome[w] = "applied"
                                /\ canon[w].source = canon[e].source
    BY <1>3 DEF UpdateConflict, SlotsAgree, SnapshotsAgree, Source
  <1>4. outcome[e] = "conflict" \/ \E p \in Procs : UpdateConflict(p) /\ e = job[p]
    BY <1>1 DEF Next, Step, vars, Begin, Upsert, SelectTransition, SelectNoTransition,
       UpdateApplied, UpdateConflict, Abort, Return, TypeOK
  <1>5. QED
    BY <1>2, <1>3, <1>4

LEMMA InitIInv == Init => IInv
  <1> SUFFICES ASSUME Init PROVE IInv
    OBVIOUS
  <1>1. TypeOK
    BY InitTyped
  <1>2. SlotsAgree /\ SnapshotsAgree /\ ConflictHasAWinner
    BY DEF Init, SlotsAgree, SnapshotsAgree, ConflictHasAWinner
  <1>3. HistoryIsAPath
    BY DEF Init, HistoryIsAPath, Chained, NoRow
  <1>4. HistoryIsFaithful
    BY DEF Init, HistoryIsFaithful, Faithful, NoRow
  <1>5. QED
    BY <1>1, <1>2, <1>3, <1>4 DEF IInv
-----------------------------------------------------------------------------
\* The inductive invariant survives every step of a call.
LEMMA IInvStep == IInv /\ [Next]_vars => IInv'
  BY TypeOKStep, SlotsAgreeStep, SnapshotsAgreeStep, HistoryIsAPathStep,
     HistoryIsFaithfulStep, ConflictHasAWinnerStep DEF IInv

\* The inductive invariant holds of every behaviour of concurrent processEvent
\* calls (engine.ts:113-220).
THEOREM InductiveInvariant == Spec => []IInv
  BY IInvStep, InitIInv, PTL DEF Spec

\* Every variable keeps its type: in particular a row is always in a state of
\* the state machine.
THEOREM TypeCorrect == Spec => []TypeOK
  <1>1. IInv => TypeOK
    BY DEF IInv
  <1>2. QED
    BY <1>1, InductiveInvariant, PTL

\* The stored history of a row is one path through the state machine that ends
\* in the stored state, whatever calls raced to write it (engine.ts:170-188).
THEOREM HistoryPath == Spec => []HistoryIsAPath
  <1>1. IInv => HistoryIsAPath
    BY DEF IInv
  <1>2. QED
    BY <1>1, InductiveInvariant, PTL

\* The history names only events that took effect, each at most once, and only
\* transitions of STATE_TRANSITIONS.
THEOREM FaithfulHistory == Spec => []HistoryIsFaithful
  <1>1. IInv => HistoryIsFaithful
    BY DEF IInv
  <1>2. QED
    BY <1>1, InductiveInvariant, PTL

\* An event the optimistic lock drops lost to one that took effect
\* (engine.ts:195-209).
THEOREM ConflictWinner == Spec => []ConflictHasAWinner
  <1>1. IInv => ConflictHasAWinner
    BY DEF IInv
  <1>2. QED
    BY <1>1, InductiveInvariant, PTL

LEMMA MovesByTableStep ==
  ASSUME TypeOK, SlotsAgree, SnapshotsAgree, [Next]_vars, NEW s \in Sources,
         rows'[s] # rows[s]
  PROVE  \/ rows[s] = NoRow /\ rows'[s] = EmptyRow
         \/ \E e \in Events :
              /\ outcome[e] = "running" /\ outcome'[e] = "applied"
              /\ canon[e].source = s
              /\ <<rows[s].state, canon[e].type, rows'[s].state>> \in STATE_TRANSITIONS
  <1>1. ASSUME NEW p \in Procs, UpdateApplied(p), s = Source(p), rows'[s] = NewRow(p),
               job[p] \in Events, seen[p] \in Row,
               HasTransition(seen[p].state, Type(p)), rows[s].state = seen[p].state
        PROVE  \E e \in Events :
                 /\ outcome[e] = "running" /\ outcome'[e] = "applied"
                 /\ canon[e].source = s
                 /\ <<rows[s].state, canon[e].type, rows'[s].state>> \in STATE_TRANSITIONS
    <2>1. outcome[job[p]] = "running" /\ outcome'[job[p]] = "applied"
      BY <1>1 DEF UpdateApplied, Return, TypeOK, SlotsAgree
    <2>2. <<rows[s].state, canon[job[p]].type, rows'[s].state>> \in STATE_TRANSITIONS
      BY <1>1, NewRowIsARow DEF Type
    <2>3. QED
      BY <1>1, <2>1, <2>2 DEF Source
  <1>2. QED
    BY <1>1, RowsStep

\* A row moves only by an entry of STATE_TRANSITIONS, from the state it is
\* really in and for the event whose call returns the transition: the guard
\* WHERE state = currentState keeps stale snapshots out (engine.ts:195-198).
THEOREM RowsMoveByTable == Spec => MovesByTable
  <1>1. IInv /\ [Next]_vars =>
          [\A s \in Sources :
             rows'[s] # rows[s] =>
               \/ rows[s] = NoRow /\ rows'[s] = EmptyRow
               \/ \E e \in Events :
                    /\ outcome[e] = "running" /\ outcome'[e] = "applied"
                    /\ canon[e].source = s
                    /\ <<rows[s].state, canon[e].type, rows'[s].state>>
                         \in STATE_TRANSITIONS]_vars
    BY MovesByTableStep DEF IInv
  <1>2. QED
    BY <1>1, InductiveInvariant, PTL DEF Spec, MovesByTable
-----------------------------------------------------------------------------
\* The refinement: a step of a call is a step of EntitlementLedger or leaves
\* the ledger alone.
LEMMA SameTable ==
  /\ Ledger!EventTypes = EventTypes
  /\ \A s, type : /\ Ledger!HasTransition(s, type) <=> HasTransition(s, type)
                  /\ Ledger!NextState(s, type) = NextState(s, type)
  <1>1. Ledger!STATE_TRANSITIONS = STATE_TRANSITIONS
    BY DEF Ledger!STATE_TRANSITIONS, STATE_TRANSITIONS, Ledger!On, On
  <1>2. Ledger!States = States /\ Ledger!EventTypes = EventTypes
    BY DEF Ledger!States, States, Ledger!EventTypes, EventTypes
  <1>3. QED
    BY <1>1, <1>2 DEF Ledger!HasTransition, HasTransition, Ledger!NextState, NextState

LEMMA LedgerInit == Init => Ledger!Init
  <1> SUFFICES ASSUME Init PROVE Ledger!Init
    OBVIOUS
  <1>1. canon \in [Events -> [type : Ledger!EventTypes, source : Sources]]
    BY SameTable DEF Init, Canon
  <1>2. LedgerState = [s \in Sources |-> "inactive"]
    BY DEF Init, LedgerState
  <1>3. [e \in Events |-> FateOf(outcome[e])] = [e \in Events |-> "pending"]
    BY DEF Init, FateOf
  <1>4. QED
    BY <1>1, <1>2, <1>3 DEF Ledger!Init

LEMMA LedgerStateOf ==
  ASSUME TypeOK, NEW s \in Sources
  PROVE  /\ rows[s] # NoRow => LedgerState[s] = rows[s].state
         /\ rows[s] = NoRow => LedgerState[s] = "inactive"
  BY DEF LedgerState

LEMMA SettleStep ==
  ASSUME IInv, NEW p \in Procs, NEW f, pc[p] # "idle", Return(p, f), canon' = canon
  PROVE  /\ job[p] \in Events
         /\ Ledger!Settle(job[p], FateOf(f))
  <1>1. job[p] \in Events /\ outcome[job[p]] = "running"
    BY DEF IInv, SlotsAgree
  <1>2. outcome' = [outcome EXCEPT ![job[p]] = f] /\ outcome = [e \in Events |-> outcome[e]]
    BY DEF Return, IInv, TypeOK
  <1>3. [e \in Events |-> FateOf(outcome'[e])] =
          [[e \in Events |-> FateOf(outcome[e])] EXCEPT ![job[p]] = FateOf(f)]
    <2>1. \A e \in Events : outcome'[e] = IF e = job[p] THEN f ELSE outcome[e]
      BY <1>2
    <2>2. QED
      BY <1>1, <2>1
  <1>4. FateOf(outcome[job[p]]) = "pending"
    BY <1>1 DEF FateOf
  <1>5. QED
    BY <1>1, <1>3, <1>4 DEF Ledger!Settle

LEMMA LedgerStep ==
  ASSUME IInv, [Next]_vars
  PROVE  [Ledger!Next]_(Ledger!vars)
  <1> USE DEF IInv
  <1>1. ASSUME NEW p \in Procs, NEW e \in Events, Begin(p, e)
        PROVE  UNCHANGED Ledger!vars
    <2>1. \A d \in Events : FateOf(outcome'[d]) = FateOf(outcome[d])
      BY <1>1 DEF Begin, FateOf, TypeOK
    <2>2. QED
      BY <1>1, <2>1 DEF Begin, Ledger!vars, LedgerState
  <1>2. ASSUME NEW p \in Procs, Upsert(p)
        PROVE  UNCHANGED Ledger!vars
    <2>1. \A s \in Sources : LedgerState'[s] = LedgerState[s]
      BY <1>2 DEF Upsert, LedgerState, TypeOK, EmptyRow, NoRow
    <2>2. LedgerState' = LedgerState
      BY <2>1 DEF LedgerState
    <2>3. QED
      BY <1>2, <2>2 DEF Upsert, Ledger!vars
  <1>3. ASSUME NEW p \in Procs, SelectTransition(p)
        PROVE  UNCHANGED Ledger!vars
    BY <1>3 DEF SelectTransition, Ledger!vars, LedgerState
  <1>4. ASSUME NEW p \in Procs, SelectNoTransition(p)
        PROVE  Ledger!Next
    <2>1. job[p] \in Events /\ Ledger!Settle(job[p], "rejected")
      BY <1>4, SettleStep DEF SelectNoTransition, FateOf
    <2>2. Source(p) \in Sources /\ rows[Source(p)] # NoRow
      BY <1>4, <2>1 DEF SelectNoTransition, SlotsAgree, Source, TypeOK, Canon
    <2>3. ~HasTransition(LedgerState[canon[job[p]].source], canon[job[p]].type)
      BY <1>4, <2>2, LedgerStateOf DEF SelectNoTransition, Source, Type
    <2>4. LedgerState' = LedgerState
      BY <1>4 DEF SelectNoTransition, LedgerState
    <2>5. Ledger!Reject(job[p])
      BY <2>1, <2>3, <2>4, SameTable DEF Ledger!Reject
    <2>6. QED
      BY <2>1, <2>5 DEF Ledger!Next
  <1>5. ASSUME NEW p \in Procs, UpdateApplied(p)
        PROVE  Ledger!Next
    <2>1. job[p] \in Events /\ Ledger!Settle(job[p], "applied")
      BY <1>5, SettleStep DEF UpdateApplied, FateOf
    <2>2. /\ Source(p) \in Sources /\ rows[Source(p)] \in Row
          /\ seen[p] \in Row /\ HasTransition(seen[p].state, Type(p))
          /\ rows[Source(p)].state = seen[p].state
      BY <1>5, <2>1 DEF UpdateApplied, SlotsAgree, SnapshotsAgree, Source, TypeOK, Canon
    <2>3. /\ LedgerState[Source(p)] = seen[p].state
          /\ NewRow(p) \in Row
      BY <1>5, <2>1, <2>2, LedgerStateOf, NoRowIsNoRow, NewRowIsARow
    <2>4. LedgerState' = [LedgerState EXCEPT ![Source(p)] = NextState(@, Type(p))]
      <3>1. \A s \in Sources : LedgerState'[s] =
              IF s = Source(p) THEN NewRow(p).state ELSE LedgerState[s]
        BY <1>5, <2>3, NoRowIsNoRow DEF UpdateApplied, LedgerState, TypeOK
      <3>2. NewRow(p).state = NextState(seen[p].state, Type(p))
        BY DEF NewRow, Transition
      <3>3. LedgerState' = [s \in Sources |-> LedgerState'[s]]
        BY DEF LedgerState
      <3>4. LedgerState = [s \in Sources |-> LedgerState[s]]
        BY DEF LedgerState
      <3>5. QED
        BY <2>2, <2>3, <3>1, <3>2, <3>3, <3>4
    <2>5. Ledger!Apply(job[p])
      BY <2>1, <2>2, <2>3, <2>4, SameTable DEF Ledger!Apply, Source, Type
    <2>6. QED
      BY <2>1, <2>5 DEF Ledger!Next
  <1>6. ASSUME NEW p \in Procs, NEW f \in {"conflict", "aborted"}, pc[p] # "idle",
               Return(p, f), UNCHANGED <<canon, rows>>
        PROVE  Ledger!Next
    <2>1. job[p] \in Events /\ Ledger!Settle(job[p], "abandoned")
      BY <1>6, SettleStep DEF FateOf
    <2>2. LedgerState' = LedgerState
      BY <1>6 DEF LedgerState
    <2>3. QED
      BY <2>1, <2>2 DEF Ledger!Next, Ledger!Abandon
  <1>7. CASE UNCHANGED vars
    BY <1>7 DEF vars, Ledger!vars, LedgerState
  <1>8. QED
    BY <1>1, <1>2, <1>3, <1>4, <1>5, <1>6, <1>7 DEF Next, Step, UpdateConflict, Abort

\* processEvent implements EntitlementLedger: each event takes effect in one
\* indivisible step, by an entry of the table, or never.
THEOREM EngineImplementsLedger == Spec => ImplementsLedger
  BY LedgerInit, LedgerStep, InductiveInvariant, PTL
     DEF Spec, ImplementsLedger, Ledger!Spec
-----------------------------------------------------------------------------
(***************************************************************************)
(* The replay.  While it is calm, the events up to some place of the       *)
(* timeline are settled, the next may be under way, none later was begun,  *)
(* and the rows are the replay up to that place.  That every function that *)
(* fits the recursion of the replay ends in the state of the row takes the *)
(* place of an induction over the timeline.                                *)
(***************************************************************************)
\* state is the replay of the first n events for source s.
Replays(state, s, n) ==
  state = [i \in 0..n |-> IF i = 0 THEN "inactive"
                         ELSE IF canon[Timeline[i]].source = s
                         THEN ReplayStep(state[i - 1], Timeline[i])
                         ELSE state[i - 1]]

UpTo(n) == {Timeline[i] : i \in {j \in DOMAIN Timeline : j <= n}}

SettledUpTo(n) ==
  \A e \in Events : /\ HasSettled(e) <=> e \in UpTo(n)
                    /\ outcome[e] = "new" \/ e \in UpTo(n + 1)

RowsAreReplayed(n) ==
  \A s \in Sources : /\ \E state : Replays(state, s, n)
                     /\ \A state : Replays(state, s, n) => LedgerState[s] = state[n]

\* Nothing overtakes a snapshot.
SnapshotsAreFresh == \A p \in Procs : pc[p] = "update" => seen[p] = rows[Source(p)]

CalmlyReplayed ==
  calm => /\ SnapshotsAreFresh
          /\ \E n \in 0..Len(Timeline) : SettledUpTo(n) /\ RowsAreReplayed(n)

LEMMA TimelineOf ==
  /\ Len(Timeline) \in Nat /\ DOMAIN Timeline = 1..Len(Timeline)
  /\ \A i \in DOMAIN Timeline : Timeline[i] \in Events
  BY TimelineAssumption

\* What an event is never changes, so neither does what a replay is.
LEMMA ReplaysStay ==
  ASSUME canon' = canon, NEW state, NEW s, NEW n
  PROVE  Replays(state, s, n)' <=> Replays(state, s, n)
  <1>1. \A old, e : ReplayStep(old, e)' = ReplayStep(old, e)
    BY DEF ReplayStep
  <1> QED BY <1>1 DEF Replays

\* The replay of one event more is the replay so far and what the event makes
\* of its last state.
MovedBy(state, s, e) == IF canon[e].source = s THEN ReplayStep(state, e) ELSE state

LEMMA ReplayOfOneMore ==
  ASSUME NEW s, NEW n \in Nat
  PROVE  /\ (\E state : Replays(state, s, n)) => \E state : Replays(state, s, n + 1)
         /\ \A state : Replays(state, s, n + 1) =>
              \E before : /\ Replays(before, s, n)
                         /\ state[n + 1] = MovedBy(before[n], s, Timeline[n + 1])
  <1>1. \A state, m : Replays(state, s, m) <=>
          state = [i \in 0..m |-> IF i = 0 THEN "inactive" ELSE MovedBy(state[i - 1], s, Timeline[i])]
    BY DEF Replays, MovedBy
  <1>2. ASSUME NEW before, Replays(before, s, n) PROVE \E state : Replays(state, s, n + 1)
    <2>1. PICK next : next = MovedBy(before[n], s, Timeline[n + 1])
      OBVIOUS
    <2> DEFINE state == [i \in 0..(n + 1) |-> IF i = n + 1 THEN next ELSE before[i]]
    <2>2. before = [i \in 0..n |-> IF i = 0 THEN "inactive" ELSE MovedBy(before[i - 1], s, Timeline[i])]
      BY <1>1, <1>2
    <2>3. state[0] = "inactive"
      BY <2>2
    <2>4. ASSUME NEW i \in 1..(n + 1)
          PROVE  state[i] = MovedBy(state[i - 1], s, Timeline[i])
      <3>1. state[i - 1] = before[i - 1]
        OBVIOUS
      <3>2. CASE i = n + 1
        BY <2>1, <3>1, <3>2
      <3>3. CASE i # n + 1
        <4>1. i \in 1..n /\ state[i] = before[i]
          BY <3>3
        <4> QED BY <2>2, <3>1, <4>1
      <3> QED BY <3>2, <3>3
    <2>5. state = [i \in 0..(n + 1) |-> state[i]]
      OBVIOUS
    <2> HIDE DEF state
    <2>6. state = [i \in 0..(n + 1) |-> IF i = 0 THEN "inactive" ELSE MovedBy(state[i - 1], s, Timeline[i])]
      <3>1. \A i \in 0..(n + 1) :
              state[i] = IF i = 0 THEN "inactive" ELSE MovedBy(state[i - 1], s, Timeline[i])
        BY <2>3, <2>4
      <3> QED BY <2>5, <3>1
    <2> QED BY <1>1, <2>6
  <1>3. ASSUME NEW state, Replays(state, s, n + 1)
        PROVE  \E before : /\ Replays(before, s, n)
                           /\ state[n + 1] = MovedBy(before[n], s, Timeline[n + 1])
    <2> DEFINE before == [i \in 0..n |-> state[i]]
    <2>1. state = [i \in 0..(n + 1) |-> IF i = 0 THEN "inactive" ELSE MovedBy(state[i - 1], s, Timeline[i])]
      BY <1>1, <1>3
    <2>2. state[0] = "inactive" /\ \A i \in 1..(n + 1) : state[i] = MovedBy(state[i - 1], s, Timeline[i])
      BY <2>1
    <2>3. /\ before[0] = "inactive" /\ before[n] = state[n]
          /\ \A i \in 1..n : before[i] = state[i] /\ before[i - 1] = state[i - 1]
          /\ before = [i \in 0..n |-> before[i]]
      BY <2>2
    <2> HIDE DEF before
    <2>4. before = [i \in 0..n |-> IF i = 0 THEN "inactive" ELSE MovedBy(before[i - 1], s, Timeline[i])]
      BY <2>2, <2>3
    <2>5. n + 1 \in 1..(n + 1) /\ (n + 1) - 1 = n
      OBVIOUS
    <2> QED BY <1>1, <2>2, <2>3, <2>4, <2>5
  <1> QED BY <1>2, <1>3

\* A step leaves the rows where they were in the replay ...
LEMMA RowsStayReplayed ==
  ASSUME canon' = canon, NEW n \in Nat, RowsAreReplayed(n),
         \A s \in Sources : LedgerState'[s] = LedgerState[s]
  PROVE  RowsAreReplayed(n)'
  BY ReplaysStay DEF RowsAreReplayed

\* ... or moves them by the next event.
LEMMA RowsMoveOn ==
  ASSUME canon' = canon, NEW n \in Nat, RowsAreReplayed(n),
         \A s \in Sources : LedgerState'[s] = MovedBy(LedgerState[s], s, Timeline[n + 1])
  PROVE  RowsAreReplayed(n + 1)'
  <1> SUFFICES ASSUME NEW s \in Sources
               PROVE  /\ \E state : Replays(state, s, n + 1)
                      /\ \A state : Replays(state, s, n + 1) => LedgerState'[s] = state[n + 1]
    BY ReplaysStay DEF RowsAreReplayed
  <1>1. /\ \E state : Replays(state, s, n)
        /\ \A state : Replays(state, s, n) => LedgerState[s] = state[n]
    BY DEF RowsAreReplayed
  <1>2. \E state : Replays(state, s, n + 1)
    BY <1>1, ReplayOfOneMore
  <1>3. ASSUME NEW state, Replays(state, s, n + 1) PROVE LedgerState'[s] = state[n + 1]
    <2>1. PICK before : /\ Replays(before, s, n)
                        /\ state[n + 1] = MovedBy(before[n], s, Timeline[n + 1])
      BY <1>3, ReplayOfOneMore
    <2>2. LedgerState[s] = before[n]
      BY <1>1, <2>1
    <2> QED BY <2>1, <2>2
  <1> QED BY <1>2, <1>3

\* The place after n holds the only event that UpTo(n + 1) has and UpTo(n) has not.
LEMMA UpToOneMore ==
  ASSUME NEW n \in 0..Len(Timeline)
  PROVE  /\ UpTo(n) \subseteq UpTo(n + 1) /\ UpTo(n + 1) \subseteq UpTo(n + 2)
         /\ \A e : e \in UpTo(n + 1) \ UpTo(n) => n + 1 \in DOMAIN Timeline /\ Timeline[n + 1] = e
         /\ n + 1 \in DOMAIN Timeline => Timeline[n + 1] \in UpTo(n + 1) \ UpTo(n)
  <1>1. \A m, e : e \in UpTo(m) <=> \E i \in DOMAIN Timeline : i <= m /\ Timeline[i] = e
    BY DEF UpTo
  <1>2. UpTo(n) \subseteq UpTo(n + 1) /\ UpTo(n + 1) \subseteq UpTo(n + 2)
    BY <1>1, TimelineOf
  <1>3. ASSUME NEW e, e \in UpTo(n + 1) \ UpTo(n)
        PROVE  n + 1 \in DOMAIN Timeline /\ Timeline[n + 1] = e
    BY <1>1, <1>3, TimelineOf
  <1>4. ASSUME n + 1 \in DOMAIN Timeline
        PROVE  Timeline[n + 1] \in UpTo(n + 1) \ UpTo(n)
    BY <1>1, <1>4, TimelineOf, TimelineAssumption
  <1> QED BY <1>2, <1>3, <1>4

\* While it is calm, only the event at the next place can be under way.
LEMMA NextIsUnderWay ==
  ASSUME NEW n \in 0..Len(Timeline), SettledUpTo(n), NEW e \in Events,
         outcome[e] \in {"running", "conflict", "aborted"}
  PROVE  n + 1 \in DOMAIN Timeline /\ Timeline[n + 1] = e
  <1>1. e \in UpTo(n + 1) \ UpTo(n)
    BY DEF SettledUpTo, HasSettled
  <1> QED BY <1>1, UpToOneMore

\* What the fate of the next event makes of the place.
LEMMA NextSettles ==
  ASSUME TypeOK, NEW n \in 0..Len(Timeline), SettledUpTo(n), n + 1 \in DOMAIN Timeline,
         NEW f, outcome' = [outcome EXCEPT ![Timeline[n + 1]] = f]
  PROVE  /\ f \in {"running", "conflict", "aborted"} => SettledUpTo(n)'
         /\ f \in {"applied", "noTransition"} => /\ n + 1 \in 0..Len(Timeline)
                                               /\ SettledUpTo(n + 1)'
  <1>1. PICK e \in Events : e = Timeline[n + 1]
    BY TimelineOf
  <1>2. e \in UpTo(n + 1) \ UpTo(n) /\ UpTo(n) \subseteq UpTo(n + 1)
        /\ UpTo(n + 1) \subseteq UpTo(n + 2)
        /\ \A d : d \in UpTo(n + 1) \ UpTo(n) => d = e
    BY <1>1, UpToOneMore
  <1>3. \A d \in Events : outcome'[d] = IF d = e THEN f ELSE outcome[d]
    BY <1>1 DEF TypeOK
  <1>4. ASSUME f \in {"running", "conflict", "aborted"} PROVE SettledUpTo(n)'
    BY <1>2, <1>3, <1>4 DEF SettledUpTo, HasSettled, UpTo
  <1>5. ASSUME f \in {"applied", "noTransition"} PROVE SettledUpTo(n + 1)'
    <2> SUFFICES ASSUME NEW d \in Events
                 PROVE  /\ outcome'[d] \in {"applied", "noTransition"} <=> d \in UpTo(n + 1)
                        /\ outcome'[d] = "new" \/ d \in UpTo(n + 2)
      <3>1. (n + 1) + 1 = n + 2
        BY TimelineOf
      <3> QED BY <3>1 DEF SettledUpTo, HasSettled, UpTo
    <2> QED BY <1>2, <1>3, <1>5 DEF SettledUpTo, HasSettled
  <1> QED BY <1>4, <1>5, TimelineOf
\* What a row is to the ledger.
LEMMA StateOfARow ==
  ASSUME TypeOK
  PROVE  /\ \A s \in Sources : rows[s] # NoRow => LedgerState[s] = rows[s].state
         /\ \A s \in Sources : LedgerState'[s] = IF rows'[s] = NoRow THEN "inactive" ELSE rows'[s].state
         /\ rows' = rows => \A s \in Sources : LedgerState'[s] = LedgerState[s]
  BY DEF LedgerState

\* A call that begins calmly is for the event at the next place.
LEMMA CalmBegin ==
  ASSUME IInv, NEW n \in 0..Len(Timeline), SettledUpTo(n), NEW p \in Procs, NEW e \in Events,
         Begin(p, e), Orderly(e)
  PROVE  n + 1 \in DOMAIN Timeline /\ Timeline[n + 1] = e
  <1>1. PICK j \in DOMAIN Timeline :
          /\ Timeline[j] = e
          /\ \A i \in DOMAIN Timeline : /\ i < j => HasSettled(Timeline[i])
                                        /\ i > j => outcome[Timeline[i]] = "new"
    BY DEF Orderly
  <1>2. outcome[e] = "new" /\ ~HasSettled(e)
    BY DEF Begin, HasSettled
  <1>3. j > n
    BY <1>1, <1>2, TimelineOf DEF SettledUpTo, UpTo
  <1>4. j <= n + 1
    <2> SUFFICES ASSUME j > n + 1 PROVE FALSE
      BY TimelineOf
    <2>1. n + 1 \in DOMAIN Timeline
      BY <1>1, TimelineOf
    <2>2. HasSettled(Timeline[n + 1]) /\ Timeline[n + 1] \in Events
      BY <1>1, <2>1, TimelineOf
    <2> QED BY <2>1, <2>2, UpToOneMore DEF SettledUpTo
  <1>5. j = n + 1
    BY <1>3, <1>4, TimelineOf
  <1> QED BY <1>1, <1>5

LEMMA CalmStep ==
  ASSUME IInv, CalmlyReplayed, [ReplayNext]_<<vars, calm>>
  PROVE  CalmlyReplayed'
  <1> SUFFICES ASSUME calm'
               PROVE  /\ SnapshotsAreFresh'
                      /\ \E m \in 0..Len(Timeline) : SettledUpTo(m)' /\ RowsAreReplayed(m)'
    BY DEF CalmlyReplayed
  <1>1. calm /\ [Next]_vars
    BY DEF ReplayNext
  <1>2. SnapshotsAreFresh
    BY <1>1 DEF CalmlyReplayed
  <1>3. PICK n \in 0..Len(Timeline) : SettledUpTo(n) /\ RowsAreReplayed(n)
    BY <1>1 DEF CalmlyReplayed
  <1>4. n \in Nat /\ TypeOK /\ SlotsAgree /\ SnapshotsAgree
    BY TimelineOf DEF IInv
  <1>5. canon' = canon
    BY <1>1, <1>4, AppliedStays
  \* A slot in a call works on the next event, and it is the only one.
  <1>6. ASSUME NEW p \in Procs, pc[p] # "idle"
        PROVE  /\ n + 1 \in DOMAIN Timeline /\ Timeline[n + 1] = job[p] /\ job[p] \in Events
               /\ \A q \in Procs \ {p} : pc[q] = "idle"
    <2>1. job[p] \in Events /\ outcome[job[p]] = "running"
      BY <1>4, <1>6 DEF SlotsAgree
    <2>2. \A q \in Procs : pc[q] # "idle" => job[q] \in Events /\ outcome[job[q]] = "running"
      BY <1>4 DEF SlotsAgree
    <2>3. \A q \in Procs : pc[q] # "idle" => n + 1 \in DOMAIN Timeline /\ Timeline[n + 1] = job[q]
      BY <1>3, <2>2, NextIsUnderWay
    <2> QED BY <1>4, <1>6, <2>1, <2>3 DEF SlotsAgree
  \* A call that returns without having moved its row.
  <1>7. ASSUME NEW p \in Procs, pc[p] # "idle", NEW f \in {"conflict", "aborted"}, Return(p, f),
               rows' = rows
        PROVE  SnapshotsAreFresh' /\ SettledUpTo(n)' /\ RowsAreReplayed(n)'
    <2>1. SettledUpTo(n)'
      BY <1>3, <1>4, <1>6, <1>7, NextSettles DEF Return
    <2>2. RowsAreReplayed(n)'
      BY <1>3, <1>4, <1>5, <1>7, StateOfARow, RowsStayReplayed
    <2>3. SnapshotsAreFresh'
      BY <1>4, <1>6, <1>7 DEF SnapshotsAreFresh, Return, TypeOK
    <2> QED BY <2>1, <2>2, <2>3
  <1>8. ASSUME NEW p \in Procs, NEW e \in Events, Begin(p, e)
        PROVE  SnapshotsAreFresh' /\ SettledUpTo(n)' /\ RowsAreReplayed(n)'
    <2>1. outcome[e] = "new" /\ outcome' = [outcome EXCEPT ![e] = "running"] /\ outcome'[e] = "running"
      BY <1>4, <1>8 DEF Begin, TypeOK
    <2>2. ReplayNext
      BY <2>1 DEF vars
    <2>3. Orderly(e)
      BY <2>1, <2>2 DEF ReplayNext
    <2>4. n + 1 \in DOMAIN Timeline /\ Timeline[n + 1] = e
      BY <1>3, <1>8, <2>3, CalmBegin
    <2>5. SettledUpTo(n)'
      BY <1>3, <1>4, <2>1, <2>4, NextSettles
    <2>6. RowsAreReplayed(n)'
      BY <1>3, <1>4, <1>5, <1>8, StateOfARow, RowsStayReplayed DEF Begin
    <2>7. SnapshotsAreFresh'
      BY <1>2, <1>4, <1>8 DEF SnapshotsAreFresh, Begin, TypeOK, Source
    <2> QED BY <2>5, <2>6, <2>7
  <1>9. ASSUME NEW p \in Procs, Upsert(p)
        PROVE  SnapshotsAreFresh' /\ SettledUpTo(n)' /\ RowsAreReplayed(n)'
    <2>1. SettledUpTo(n)'
      BY <1>3, <1>9 DEF Upsert, SettledUpTo, HasSettled, UpTo
    <2>2. \A s \in Sources : rows'[s] = rows[s] \/ (rows[s] = NoRow /\ rows'[s] = EmptyRow)
      BY <1>4, <1>9 DEF Upsert, TypeOK
    <2>3. \A s \in Sources : LedgerState'[s] = LedgerState[s]
      BY <2>2 DEF LedgerState, EmptyRow, NoRow
    <2>4. RowsAreReplayed(n)'
      BY <1>3, <1>4, <1>5, <2>3, RowsStayReplayed
    <2>5. SnapshotsAreFresh'
      BY <1>4, <1>6, <1>9 DEF SnapshotsAreFresh, Upsert, TypeOK
    <2> QED BY <2>1, <2>4, <2>5
  <1>10. ASSUME NEW p \in Procs, SelectTransition(p)
         PROVE  SnapshotsAreFresh' /\ SettledUpTo(n)' /\ RowsAreReplayed(n)'
    <2>1. SettledUpTo(n)'
      BY <1>3, <1>10 DEF SelectTransition, SettledUpTo, HasSettled, UpTo
    <2>2. RowsAreReplayed(n)'
      BY <1>3, <1>4, <1>5, <1>10, StateOfARow, RowsStayReplayed DEF SelectTransition
    <2>3. SnapshotsAreFresh'
      BY <1>2, <1>4, <1>10 DEF SnapshotsAreFresh, SelectTransition, TypeOK, Source
    <2> QED BY <2>1, <2>2, <2>3
  <1>11. ASSUME NEW p \in Procs, SelectNoTransition(p)
         PROVE  /\ SnapshotsAreFresh' /\ n + 1 \in 0..Len(Timeline)
                /\ SettledUpTo(n + 1)' /\ RowsAreReplayed(n + 1)'
    <2>1. /\ pc[p] = "select" /\ rows' = rows /\ outcome' = [outcome EXCEPT ![job[p]] = "noTransition"]
          /\ ~HasTransition(rows[Source(p)].state, Type(p))
      BY <1>11 DEF SelectNoTransition, Return
    <2>2. /\ n + 1 \in DOMAIN Timeline /\ Timeline[n + 1] = job[p] /\ job[p] \in Events
          /\ \A q \in Procs \ {p} : pc[q] = "idle"
      BY <1>6, <2>1
    <2>3. n + 1 \in 0..Len(Timeline) /\ SettledUpTo(n + 1)'
      BY <1>3, <1>4, <2>1, <2>2, NextSettles
    <2>4. Source(p) \in Sources /\ rows[Source(p)] # NoRow
      BY <1>4, <2>1, <2>2 DEF SlotsAgree, TypeOK, Source, Canon
    <2>5. \A s \in Sources : LedgerState'[s] = LedgerState[s]
      BY <1>4, <2>1, StateOfARow
    <2>6. ReplayStep(LedgerState[Source(p)], job[p]) = LedgerState[Source(p)]
      BY <1>4, <2>1, <2>4, StateOfARow DEF ReplayStep, Type
    <2>7. RowsAreReplayed(n + 1)'
      BY <1>3, <1>4, <1>5, <2>2, <2>5, <2>6, RowsMoveOn DEF Source, MovedBy
    <2>8. SnapshotsAreFresh'
      BY <1>4, <1>11, <2>2 DEF SnapshotsAreFresh, SelectNoTransition, Return, TypeOK
    <2> QED BY <2>3, <2>7, <2>8
  <1>12. ASSUME NEW p \in Procs, UpdateApplied(p)
         PROVE  /\ SnapshotsAreFresh' /\ n + 1 \in 0..Len(Timeline)
                /\ SettledUpTo(n + 1)' /\ RowsAreReplayed(n + 1)'
    <2>1. /\ pc[p] = "update" /\ rows' = [rows EXCEPT ![Source(p)] = NewRow(p)]
          /\ outcome' = [outcome EXCEPT ![job[p]] = "applied"]
          /\ rows[Source(p)].state = seen[p].state
      BY <1>12 DEF UpdateApplied, Return
    <2>2. /\ n + 1 \in DOMAIN Timeline /\ Timeline[n + 1] = job[p] /\ job[p] \in Events
          /\ \A q \in Procs \ {p} : pc[q] = "idle"
      BY <1>6, <2>1
    <2>3. n + 1 \in 0..Len(Timeline) /\ SettledUpTo(n + 1)'
      BY <1>3, <1>4, <2>1, <2>2, NextSettles
    <2>4. /\ Source(p) \in Sources /\ rows[Source(p)] # NoRow
          /\ seen[p] \in Row /\ HasTransition(seen[p].state, Type(p))
      BY <1>4, <2>1, <2>2 DEF SlotsAgree, SnapshotsAgree, TypeOK, Source, Canon
    <2>5. NewRow(p) \in Row /\ NewRow(p) # NoRow /\ NewRow(p).state = NextState(seen[p].state, Type(p))
      BY <1>4, <2>2, <2>4, NewRowIsARow, NoRowIsNoRow DEF NewRow, Transition
    <2>6. NewRow(p).state = ReplayStep(LedgerState[Source(p)], job[p])
      BY <1>4, <2>1, <2>4, <2>5, StateOfARow DEF ReplayStep, Type
    <2>7. \A s \in Sources : LedgerState'[s] = IF s = Source(p) THEN NewRow(p).state ELSE LedgerState[s]
      <3>1. \A s \in Sources : rows'[s] = IF s = Source(p) THEN NewRow(p) ELSE rows[s]
        BY <1>4, <2>1 DEF TypeOK
      <3> QED BY <2>5, <3>1 DEF LedgerState
    <2>8. RowsAreReplayed(n + 1)'
      BY <1>3, <1>4, <1>5, <2>2, <2>6, <2>7, RowsMoveOn DEF Source, MovedBy
    <2>9. SnapshotsAreFresh'
      BY <1>4, <1>12, <2>2 DEF SnapshotsAreFresh, UpdateApplied, Return, TypeOK
    <2> QED BY <2>3, <2>8, <2>9
  <1>13. ASSUME NEW p \in Procs, UpdateConflict(p) \/ Abort(p)
         PROVE  SnapshotsAreFresh' /\ SettledUpTo(n)' /\ RowsAreReplayed(n)'
    BY <1>7, <1>13 DEF UpdateConflict, Abort
  <1>14. CASE UNCHANGED vars
    <2>1. SettledUpTo(n)' /\ SnapshotsAreFresh'
      BY <1>2, <1>3, <1>14 DEF vars, SettledUpTo, HasSettled, UpTo, SnapshotsAreFresh, Source
    <2>2. RowsAreReplayed(n)'
      BY <1>3, <1>4, <1>5, <1>14, StateOfARow, RowsStayReplayed DEF vars
    <2> QED BY <2>1, <2>2
  <1> QED BY <1>1, <1>3, <1>8, <1>9, <1>10, <1>11, <1>12, <1>13, <1>14 DEF Next, Step
-----------------------------------------------------------------------------
LEMMA CalmInit == ReplayInit => CalmlyReplayed
  <1> SUFFICES ASSUME ReplayInit PROVE CalmlyReplayed
    OBVIOUS
  <1>1. SnapshotsAreFresh /\ 0 \in 0..Len(Timeline)
    BY TimelineOf DEF ReplayInit, Init, SnapshotsAreFresh
  <1>2. SettledUpTo(0)
    BY TimelineOf DEF ReplayInit, Init, SettledUpTo, HasSettled, UpTo
  <1>3. RowsAreReplayed(0)
    <2> SUFFICES ASSUME NEW s \in Sources
                 PROVE  /\ \E state : Replays(state, s, 0)
                        /\ \A state : Replays(state, s, 0) => LedgerState[s] = state[0]
      BY DEF RowsAreReplayed
    <2> DEFINE inactive == [i \in 0..0 |-> "inactive"]
    <2>1. inactive = [i \in 0..0 |-> IF i = 0 THEN "inactive"
                                     ELSE IF canon[Timeline[i]].source = s
                                     THEN ReplayStep(inactive[i - 1], Timeline[i])
                                     ELSE inactive[i - 1]]
      OBVIOUS
    <2>2. Replays(inactive, s, 0)
      BY <2>1 DEF Replays
    <2>3. LedgerState[s] = "inactive"
      BY DEF ReplayInit, Init, LedgerState
    <2>4. \A state : Replays(state, s, 0) => state[0] = "inactive"
      <3>1. 0 \in 0..0
        OBVIOUS
      <3> QED BY <3>1 DEF Replays
    <2> QED BY <2>2, <2>3, <2>4
  <1> QED BY <1>1, <1>2, <1>3 DEF CalmlyReplayed

LEMMA CalmNow == IInv /\ CalmlyReplayed => StateIsTheReplay
  <1> SUFFICES ASSUME IInv, CalmlyReplayed, Settled, calm, NEW s \in Sources
               PROVE  LedgerState[s] = Replay(s)
    BY DEF StateIsTheReplay
  <1>1. PICK n \in 0..Len(Timeline) : SettledUpTo(n) /\ RowsAreReplayed(n)
    BY DEF CalmlyReplayed
  <1>2. n = Len(Timeline)
    <2>1. ASSUME n + 1 \in DOMAIN Timeline PROVE FALSE
      <3>1. HasSettled(Timeline[n + 1]) /\ Timeline[n + 1] \in Events
        BY <2>1, TimelineOf DEF Settled
      <3> QED BY <1>1, <2>1, <3>1, UpToOneMore DEF SettledUpTo
    <2>2. PICK last \in Nat : last = Len(Timeline) /\ DOMAIN Timeline = 1..last
      BY TimelineOf
    <2>3. ~(n + 1 \in 1..last)
      BY <2>1, <2>2
    <2>4. n \in 0..last
      BY <2>2
    <2> QED BY <2>2, <2>3, <2>4
  <1> DEFINE Fits(f) == f = [m \in 0..Len(Timeline) |->
                              IF m = 0 THEN "inactive"
                              ELSE IF canon[Timeline[m]].source = s
                              THEN ReplayStep(f[m - 1], Timeline[m])
                              ELSE f[m - 1]]
             R == CHOOSE f : Fits(f)
  <1>3. Replay(s) = R[Len(Timeline)]
    BY DEF Replay
  <1>4. PICK state : Replays(state, s, n)
    BY <1>1 DEF RowsAreReplayed
  <1>5. Fits(state)
    BY <1>2, <1>4 DEF Replays
  <1>6. Fits(R)
    BY <1>5
  <1> HIDE DEF R
  <1>7. Replays(R, s, n)
    BY <1>2, <1>6 DEF Replays
  <1> QED BY <1>1, <1>2, <1>3, <1>7 DEF RowsAreReplayed

\* When every known event was processed in the order of the timeline, one call
\* at a time, the row of each source is the replay of its events
\* (engine.ts:12-14), for any timeline.
THEOREM RowsAreTheReplay == ReplaySpec => []StateIsTheReplay
  <1>1. ReplaySpec => Spec
    <2>1. ReplayInit => Init
      BY DEF ReplayInit
    <2>2. [ReplayNext]_<<vars, calm>> => [Next]_vars
      BY DEF ReplayNext
    <2> QED BY <2>1, <2>2, PTL DEF ReplaySpec, Spec
  <1>2. ReplayInit => CalmlyReplayed
    BY CalmInit
  <1>3. IInv /\ CalmlyReplayed /\ [ReplayNext]_<<vars, calm>> => CalmlyReplayed'
    BY CalmStep
  <1>4. IInv /\ CalmlyReplayed => StateIsTheReplay
    BY CalmNow
  <1> QED BY <1>1, <1>2, <1>3, <1>4, InductiveInvariant, PTL DEF ReplaySpec
=============================================================================
