------------------------ MODULE Notifications_proofs ------------------------
(***************************************************************************)
(* Proofs about Notifications, for any number of issues, configurations,   *)
(* edits, attempts and faults.                                             *)
(***************************************************************************)
EXTENDS Notifications, TLAPS

LEMMA NewRowIsTyped ==
  NewRow \in ConfRow /\ NewRow.on /\ NewRow.wants = Issues /\ NewRow.events = {} /\ NewRow.agreed
  BY DEF NewRow, ConfRow

\* What a PUT leaves is a row again, under the secret agreed on.
LEMMA MergedIsTyped ==
  ASSUME NotificationsAssumption, NEW row \in ConfRow, NEW body \in Bodies, NEW secret \in BOOLEAN
  PROVE  /\ Merged(row, body, secret) \in ConfRow
         /\ row.agreed /\ secret => Merged(row, body, secret).agreed
  <1> DEFINE m == Merged(row, body, secret)
  <1>1. DOMAIN row = {"on", "wants", "events", "agreed"}
    BY DEF ConfRow
  <1>2. m = [f \in {"on", "wants", "events", "agreed"} |-> m[f]]
    BY <1>1 DEF Merged
  <1>3. m["on"] \in BOOLEAN
    BY <1>1, Zenon DEF Merged, ConfRow, NotificationsAssumption
  <1>4. m["wants"] \in SUBSET Issues
    BY <1>1 DEF Merged, ConfRow, NotificationsAssumption
  <1>5. m["events"] \in SUBSET Events
    BY <1>1 DEF Merged, ConfRow, NotificationsAssumption, Events
  <1>6. m["agreed"] = row["agreed"] \/ m["agreed"] = secret
    BY <1>1 DEF Merged, NotificationsAssumption
  <1>7. row["agreed"] \in BOOLEAN
    BY DEF ConfRow
  <1> HIDE DEF m
  <1>8. m = [on |-> m["on"], wants |-> m["wants"], events |-> m["events"], agreed |-> m["agreed"]]
    BY <1>2
  <1>9. m["agreed"] \in BOOLEAN
    BY <1>6, <1>7
  <1>10. m \in ConfRow
    BY <1>3, <1>4, <1>5, <1>8, <1>9 DEF ConfRow
  <1>11. row.agreed /\ secret => m.agreed
    BY <1>6
  <1>12. QED
    BY <1>10, <1>11 DEF m

LEMMA NewRunIsTyped ==
  ASSUME NotificationsAssumption, TypeOK, NEW i \in Issues, issue[i] < MaxUpdates,
         NEW event \in Events, NEW row \in Maybe(Row), NEW step \in {"read", "select"}
  PROVE  /\ NewRun(i, event, row, step) \in Run
         /\ NewRun(i, event, row, step).issue = i /\ NewRun(i, event, row, step).row = row
         /\ NewRun(i, event, row, step).step = step
         /\ Rest(NewRun(i, event, row, step)) = {}
         /\ NewRun(i, event, row, step).wanted = {} /\ NewRun(i, event, row, step).served = {}
  <1>1. <<>> \in [{} -> ConfRow] /\ DOMAIN <<>> = {}
    OBVIOUS
  <1>2. <<>> \in UNION {[S -> ConfRow] : S \in SUBSET Configs}
    BY <1>1
  <1>3. issue[i] + 1 \in Row
    BY DEF TypeOK, Row, NotificationsAssumption
  <1>4. QED
    BY <1>1, <1>2, <1>3 DEF NewRun, Run, Rest
-----------------------------------------------------------------------------
(***************************************************************************)
(* What a step of a run, of a job and of a call have in common.            *)
(***************************************************************************)
\* A run goes on: what it was about to do for a webhook is done or still to do.
LEMMA RunGoesOn ==
  ASSUME NotificationsAssumption, IInv, NEW r \in runs, NEW s \in Run,
         Goes(r, s), s.issue = r.issue, RunIsSound(s),
         \A c \in Rest(s) : s.snap[c].agreed,
         UNCHANGED <<conf, calls, touched, edits, issue, told>>,
         logged' \subseteq Configs, faults' \in 0..MaxFaults,
         queue \subseteq queue', \A j \in queue' : j \in Job /\ JobIsSound(j),
         \A c \in Webhooks \ touched :
           conf[c] # None /\ (r.broken \/ r.step = "read"
                              \/ ((r.step = "select" \/ c \in Rest(r)) /\ r.row >= told[r.issue]))
           => \/ s.broken \/ s.step = "read"
              \/ (s.step = "select" \/ c \in Rest(s)) /\ s.row >= told[r.issue]
              \/ \E j \in queue' : j.cfg = c /\ j.issue = r.issue /\ j.row >= told[r.issue]
  PROVE  IInv'
  <1>1. runs' = (runs \ {r}) \cup {s} /\ s \in runs'
    BY DEF Goes
  <1>2. TypeOK'
    BY <1>1 DEF IInv, TypeOK
  <1>3. (\A q \in runs' : RunIsSound(q)') /\ \A j \in queue' : JobIsSound(j)
    BY <1>1 DEF IInv, RunIsSound, Rest
  <1>4. SecretsAgree'
    BY <1>1 DEF IInv, SecretsAgree, Rest
  <1>5. CallsAgree'
    BY DEF IInv, CallsAgree
  <1>6. ASSUME NEW i \in Issues, NEW c \in Webhooks \ touched, issue[i] # 0, conf[c] # None
        PROVE  OnItsWay(i, c)'
    <2>1. OnItsWay(i, c)
      BY <1>6 DEF IInv, LastWordComes
    <2>2. CASE \E j \in queue : j.cfg = c /\ j.issue = i /\ j.row >= told[i]
      BY <2>2 DEF OnItsWay
    <2>3. CASE \E q \in runs :
                 /\ q.issue = i
                 /\ \/ q.broken \/ q.step = "read"
                    \/ (q.step = "select" \/ c \in Rest(q)) /\ q.row >= told[i]
      <3>1. PICK q \in runs :
              /\ q.issue = i
              /\ \/ q.broken \/ q.step = "read"
                 \/ (q.step = "select" \/ c \in Rest(q)) /\ q.row >= told[i]
        BY <2>3
      <3>2. CASE q # r
        BY <1>1, <3>1, <3>2 DEF OnItsWay, Rest
      <3>3. CASE q = r
        <4>0. \/ r.broken \/ r.step = "read"
              \/ (r.step = "select" \/ c \in Rest(r)) /\ r.row >= told[r.issue]
          BY <3>1, <3>3 DEF Rest
        <4>1. \/ s.broken \/ s.step = "read"
              \/ (s.step = "select" \/ c \in Rest(s)) /\ s.row >= told[r.issue]
              \/ \E j \in queue' : j.cfg = c /\ j.issue = r.issue /\ j.row >= told[r.issue]
          BY <1>6, <4>0, Zenon
        <4>2. QED
          BY <1>1, <3>1, <3>3, <4>1 DEF OnItsWay, Rest
      <3>4. QED
        BY <3>2, <3>3
    <2>4. QED
      BY <2>1, <2>2, <2>3 DEF OnItsWay
  <1>7. LastWordComes'
    BY <1>6 DEF LastWordComes
  <1>8. QED
    BY <1>2, <1>3, <1>4, <1>5, <1>7 DEF IInv

\* A job goes on, about the same issue as before.
LEMMA JobGoesOn ==
  ASSUME NotificationsAssumption, IInv, NEW j \in queue, NEW k \in Job,
         Settles(j, k), k.cfg = j.cfg, k.issue = j.issue, k.row = j.row, JobIsSound(k),
         UNCHANGED <<conf, calls, touched, edits, issue, told, runs>>,
         logged' \subseteq Configs, faults' \in 0..MaxFaults
  PROVE  IInv'
  <1>1. queue' = (queue \ {j}) \cup {k}
    BY DEF Settles
  <1>2. TypeOK'
    BY <1>1 DEF IInv, TypeOK
  <1>3. (\A q \in runs' : RunIsSound(q)') /\ \A q \in queue' : JobIsSound(q)
    BY <1>1 DEF IInv, RunIsSound, Rest
  <1>4. SecretsAgree'
    BY <1>1 DEF IInv, SecretsAgree, Rest
  <1>5. CallsAgree'
    BY DEF IInv, CallsAgree
  <1>6. ASSUME NEW i \in Issues, NEW c \in Webhooks \ touched, OnItsWay(i, c)
        PROVE  OnItsWay(i, c)'
    BY <1>1, <1>6 DEF OnItsWay, Rest
  <1>7. LastWordComes'
    BY <1>6 DEF IInv, LastWordComes
  <1>8. QED
    BY <1>2, <1>3, <1>4, <1>5, <1>7 DEF IInv

\* A call goes on, and changes at most the row of a configuration it touched.
LEMMA CallGoesOn ==
  ASSUME NotificationsAssumption, IInv,
         UNCHANGED <<issue, told, runs, queue, faults>>,
         logged' \subseteq Configs, edits' \in 0..MaxEdits,
         touched' \subseteq Configs, touched \subseteq touched',
         conf' \in [Configs -> Maybe(ConfRow)],
         \A c \in Configs : conf'[c] # None => conf'[c].agreed,
         \A c \in Configs \ touched' : conf'[c] = conf[c],
         \A x \in calls' : x \in Call /\ x.cfg \in touched' /\ (x.step # "sent" => x.kept)
                           /\ (x.op = "put" => x.body \in Bodies)
  PROVE  IInv'
  <1>1. TypeOK'
    BY DEF IInv, TypeOK
  <1>2. (\A q \in runs' : RunIsSound(q)') /\ \A j \in queue' : JobIsSound(j)
    BY DEF IInv, RunIsSound, Rest
  <1>3. SecretsAgree'
    BY DEF IInv, SecretsAgree, Rest
  <1>4. CallsAgree'
    BY DEF IInv, CallsAgree
  <1>5. LastWordComes'
    BY DEF IInv, LastWordComes, OnItsWay, Rest, Configs
  <1>6. QED
    BY <1>1, <1>2, <1>3, <1>4, <1>5 DEF IInv
-----------------------------------------------------------------------------
(***************************************************************************)
(* The actions.                                                            *)
(***************************************************************************)
\* The status of an issue was written: what the runs and the issues are told
\* stays sound ...
LEMMA StatusWritten ==
  ASSUME NotificationsAssumption, IInv, NEW i \in Issues, issue[i] < MaxUpdates,
         issue' = [issue EXCEPT ![i] = @ + 1],
         UNCHANGED <<alerts, queue, faults>>
  PROVE  /\ issue' \in [Issues -> 0..MaxUpdates] /\ issue'[i] = issue[i] + 1
         /\ \A k \in Issues : issue'[k] >= issue[k] /\ (k # i => issue'[k] = issue[k])
         /\ issue[i] + 1 \in Row /\ issue[i] \in Nat
         /\ \A k \in Issues : told[k] \in 0..MaxUpdates /\ told[k] <= issue[k] /\ told[k] <= issue'[k]
         /\ \A q \in runs : RunIsSound(q)'
         /\ CallsAgree'
  <1> USE DEF alerts
  <1>1. /\ issue' \in [Issues -> 0..MaxUpdates] /\ issue'[i] = issue[i] + 1
        /\ \A k \in Issues : issue'[k] >= issue[k] /\ (k # i => issue'[k] = issue[k])
        /\ issue[i] + 1 \in Row /\ issue[i] \in Nat
    BY DEF IInv, TypeOK, NotificationsAssumption, Row
  <1>2. ASSUME NEW k \in Issues
        PROVE  told[k] \in 0..MaxUpdates /\ told[k] <= issue[k] /\ told[k] <= issue'[k]
    <2>1. told[k] \in 0..MaxUpdates /\ issue[k] \in Nat /\ issue'[k] \in Nat /\ MaxUpdates \in Nat
      BY <1>1 DEF IInv, TypeOK, NotificationsAssumption
    <2>2. told[k] <= issue[k] /\ issue[k] <= issue'[k]
      BY <1>1, <2>1 DEF IInv
    <2>3. QED
      BY <2>1, <2>2
  <1>3. ASSUME NEW q \in runs PROVE RunIsSound(q)'
    <2>1. q.issue \in Issues
      BY DEF IInv, TypeOK, Run
    <2>2. issue[q.issue] \in Nat /\ issue'[q.issue] \in Nat
      BY <1>1, <2>1 DEF IInv, TypeOK
    <2>3. issue'[q.issue] > 0
      BY <1>1, <2>1, <2>2 DEF IInv, RunIsSound
    <2>4. QED
      BY <2>3 DEF IInv, RunIsSound, Rest
  <1>4. CallsAgree'
    BY DEF IInv, CallsAgree
  <1>5. QED
    BY <1>1, <1>2, <1>3, <1>4

\* ... and when a run starts with it, that run has what was written, or is going
\* to read it; those of other issues have what they had.
LEMMA IssueWritten ==
  ASSUME NotificationsAssumption, IInv, NEW i \in Issues, issue[i] < MaxUpdates,
         issue' = [issue EXCEPT ![i] = @ + 1], told' = [told EXCEPT ![i] = issue[i] + 1],
         NEW s \in Run, s.issue = i, Rest(s) = {}, s.wanted = {}, s.served = {},
         s.step = "read" \/ (s.step = "select" /\ s.row = issue[i] + 1),
         runs' = runs \cup {s}, UNCHANGED <<alerts, queue, faults>>
  PROVE  IInv'
  <1> USE DEF alerts
  <1>1. /\ issue' \in [Issues -> 0..MaxUpdates] /\ issue'[i] = issue[i] + 1
        /\ \A k \in Issues : issue'[k] >= issue[k] /\ (k # i => issue'[k] = issue[k])
        /\ issue[i] + 1 \in Row /\ issue[i] \in Nat
        /\ \A k \in Issues : told[k] \in 0..MaxUpdates /\ told[k] <= issue[k] /\ told[k] <= issue'[k]
        /\ \A q \in runs : RunIsSound(q)'
        /\ CallsAgree'
    BY StatusWritten
  <1>2. told' \in [Issues -> 0..MaxUpdates] /\ told'[i] = issue'[i] /\ \A k \in Issues : k # i => told'[k] = told[k]
    BY <1>1 DEF IInv, TypeOK, Row
  <1>3. TypeOK'
    BY <1>1, <1>2 DEF IInv, TypeOK
  <1>4. RunIsSound(s)'
    BY <1>1 DEF RunIsSound, Rest
  <1>5. SecretsAgree'
    BY DEF IInv, SecretsAgree, Rest
  <1>6. ASSUME NEW k \in Issues PROVE told'[k] <= issue'[k]
    BY <1>1, <1>2
  <1>7. ASSUME NEW k \in Issues, NEW c \in Webhooks \ touched, issue'[k] # 0, conf[c] # None
        PROVE  OnItsWay(k, c)'
    <2>1. CASE k = i
      BY <1>1, <1>2, <2>1 DEF OnItsWay
    <2>2. CASE k # i
      <3>1. OnItsWay(k, c)
        BY <1>1, <1>7, <2>2 DEF IInv, LastWordComes
      <3>2. QED
        BY <1>1, <1>2, <2>2, <3>1 DEF OnItsWay, Rest
    <2>3. QED
      BY <2>1, <2>2
  <1>8. LastWordComes'
    BY <1>7 DEF LastWordComes
  <1>9. QED
    BY <1>1, <1>3, <1>4, <1>5, <1>6, <1>8 DEF IInv

LEMMA DetectKeeps ==
  ASSUME NotificationsAssumption, IInv, NEW i \in Issues, Detect(i)
  PROVE  IInv'
  <1> DEFINE s == NewRun(i, "issue.created", 1, "select")
  <1>1. issue[i] = 0 /\ issue[i] < MaxUpdates /\ 1 \in Row /\ "issue.created" \in Events
    BY DEF Detect, NotificationsAssumption, Row, Events
  <1>2. /\ s \in Run /\ s.issue = i /\ s.row = issue[i] + 1 /\ s.step = "select"
        /\ Rest(s) = {} /\ s.wanted = {} /\ s.served = {}
    BY <1>1, NewRunIsTyped DEF IInv, Maybe
  <1>3. /\ issue' = [issue EXCEPT ![i] = @ + 1] /\ told' = [told EXCEPT ![i] = issue[i] + 1]
        /\ runs' = runs \cup {s}
    BY <1>1 DEF Detect
  <1> HIDE DEF s
  <1>4. QED
    BY <1>1, <1>2, <1>3, IssueWritten DEF Detect

LEMMA SetStatusKeeps ==
  ASSUME NotificationsAssumption, IInv, NEW i \in Issues, NEW event \in Changes,
         SetStatus(i, event)
  PROVE  IInv'
  <1> DEFINE s == NewRun(i, event, None, "read")
  <1>1. issue[i] < MaxUpdates /\ event \in Events
    BY DEF SetStatus, NotificationsAssumption, Events
  <1>2. /\ s \in Run /\ s.issue = i /\ s.step = "read"
        /\ Rest(s) = {} /\ s.wanted = {} /\ s.served = {}
    BY <1>1, NewRunIsTyped DEF IInv, Maybe
  <1>3. /\ issue' = [issue EXCEPT ![i] = @ + 1] /\ told' = [told EXCEPT ![i] = issue[i] + 1]
        /\ runs' = runs \cup {s}
    BY DEF SetStatus
  <1> HIDE DEF s
  <1>4. QED
    BY <1>1, <1>2, <1>3, IssueWritten DEF SetStatus

\* Feedback starts no run, and what was last told stays what it was.
LEMMA FeedbackKeeps ==
  ASSUME NotificationsAssumption, IInv, NEW i \in Issues, Feedback(i)
  PROVE  IInv'
  <1> USE DEF alerts
  <1>1. /\ issue[i] < MaxUpdates /\ issue[i] # 0 /\ issue' = [issue EXCEPT ![i] = @ + 1]
        /\ UNCHANGED <<alerts, told, runs, queue, faults>>
    BY DEF Feedback, NotificationsAssumption
  <1>2. /\ issue' \in [Issues -> 0..MaxUpdates]
        /\ \A k \in Issues : k # i => issue'[k] = issue[k]
        /\ \A k \in Issues : told[k] <= issue'[k]
        /\ \A q \in runs : RunIsSound(q)'
        /\ CallsAgree'
    BY <1>1, StatusWritten
  <1>3. TypeOK'
    BY <1>1, <1>2 DEF IInv, TypeOK
  <1>4. SecretsAgree'
    BY <1>1 DEF IInv, SecretsAgree, Rest
  <1>5. ASSUME NEW k \in Issues, NEW c \in Webhooks \ touched, conf[c] # None, issue[k] # 0
        PROVE  OnItsWay(k, c)'
    <2>1. OnItsWay(k, c)
      BY <1>5 DEF IInv, LastWordComes
    <2>2. QED
      BY <1>1, <2>1 DEF OnItsWay, Rest
  <1>6. \A k \in Issues : issue'[k] # 0 => issue[k] # 0
    BY <1>1, <1>2
  <1>7. LastWordComes'
    BY <1>1, <1>5, <1>6 DEF LastWordComes
  <1>8. QED
    BY <1>1, <1>2, <1>3, <1>4, <1>7 DEF IInv, JobIsSound

LEMMA ReadIssueKeeps ==
  ASSUME NotificationsAssumption, IInv, NEW r \in runs, ReadIssue(r)
  PROVE  IInv'
  <1> DEFINE s == [r EXCEPT !.step = "select", !.row = issue[r.issue]]
  <1>1. r \in Run /\ RunIsSound(r) /\ r.step = "read" /\ Rest(r) = {}
    BY DEF IInv, TypeOK, ReadIssue, RunIsSound
  <1>2. r.issue \in Issues /\ issue[r.issue] \in Row
    BY <1>1 DEF IInv, TypeOK, Run, RunIsSound, Row
  <1>3. /\ s \in Run /\ s.issue = r.issue /\ s.row = issue[r.issue] /\ s.step = "select"
        /\ s.snap = r.snap /\ s.wanted = r.wanted /\ s.served = r.served /\ s.broken = r.broken
    BY <1>1, <1>2 DEF Run, Maybe
  <1>9. s.row >= told[r.issue]
    BY <1>2, <1>3 DEF IInv, TypeOK
  <1>4. Goes(r, s)
    BY DEF ReadIssue
  <1> HIDE DEF s
  <1>5. Rest(s) = {} /\ RunIsSound(s)
    BY <1>1, <1>2, <1>3 DEF RunIsSound, Rest
  <1>6. UNCHANGED <<conf, calls, touched, edits, issue, told, logged, queue, faults>>
    BY DEF ReadIssue, alerts
  <1>7. logged' \subseteq Configs /\ faults' \in 0..MaxFaults /\ queue \subseteq queue'
        /\ \A j \in queue' : j \in Job /\ JobIsSound(j)
    BY <1>6 DEF IInv, TypeOK
  <1>8. QED
    BY <1>3, <1>4, <1>5, <1>6, <1>7, <1>9, RunGoesOn

\* What a run takes to be its snapshot are rows that were there, under the
\* secrets agreed on, and an untouched webhook is among them.
LEMMA ReadConfigsKeeps ==
  ASSUME NotificationsAssumption, IInv, NEW r \in runs, ReadConfigs(r)
  PROVE  IInv'
  <1> DEFINE wanted == {c \in Configs : Matches(r, c)}
             snap == [c \in wanted |-> conf[c]]
             s == [r EXCEPT !.snap = snap, !.wanted = wanted,
                            !.step = IF wanted = {} THEN "done" ELSE "loop"]
  <1>1. /\ r \in Run /\ r.step = "select" /\ r.row \in Row /\ issue[r.issue] > 0
        /\ r.served = {}
    BY DEF IInv, TypeOK, ReadConfigs, RunIsSound
  <1>2. \A c \in wanted : conf[c] \in ConfRow /\ conf[c].agreed
    BY DEF IInv, TypeOK, Maybe, Matches, SecretsAgree
  <1>3. snap \in [wanted -> ConfRow] /\ DOMAIN snap = wanted /\ wanted \in SUBSET Configs
    BY <1>2
  <1>4. snap \in UNION {[S -> ConfRow] : S \in SUBSET Configs}
    BY <1>3
  <1>5. \A c \in wanted : snap[c].agreed
    BY <1>2
  <1>6. \A c \in Webhooks \ touched : conf[c] # None => c \in wanted
    <2>1. ASSUME NEW c \in Webhooks \ touched, conf[c] # None PROVE Matches(r, c)
      <3>1. conf[c] = NewRow
        BY <2>1 DEF IInv, CallsAgree, Configs
      <3>2. r.issue \in Issues
        BY <1>1 DEF Run
      <3>3. QED
        BY <2>1, <3>1, <3>2, NewRowIsTyped DEF Matches
    <2>2. QED
      BY <2>1 DEF Configs
  <1>7. Goes(r, s)
    BY DEF ReadConfigs
  <1> HIDE DEF wanted, snap
  <1>8. /\ s \in Run /\ s.issue = r.issue /\ s.row = r.row /\ s.broken = r.broken
        /\ s.snap = snap /\ s.wanted = wanted /\ s.served = r.served
        /\ s.step = IF wanted = {} THEN "done" ELSE "loop"
    BY <1>1, <1>3, <1>4 DEF Run
  <1> HIDE DEF s
  <1>9. Rest(s) = wanted
    BY <1>3, <1>8 DEF Rest
  <1>10. RunIsSound(s)
    BY <1>1, <1>8, <1>9 DEF RunIsSound
  <1>11. UNCHANGED <<conf, calls, touched, edits, issue, told, logged, queue, faults>>
    BY DEF ReadConfigs, alerts
  <1>12. logged' \subseteq Configs /\ faults' \in 0..MaxFaults /\ queue \subseteq queue'
         /\ \A j \in queue' : j \in Job /\ JobIsSound(j)
    BY <1>11 DEF IInv, TypeOK
  <1>13. \A c \in Rest(s) : s.snap[c].agreed
    BY <1>5, <1>8, <1>9
  <1>14. \A c \in Webhooks \ touched : conf[c] # None => c \in Rest(s)
    BY <1>6, <1>9
  <1>15. QED
    BY <1>1, <1>7, <1>8, <1>10, <1>11, <1>12, <1>13, <1>14, RunGoesOn

\* A run that has seen to c: the rest of the snapshot is as it was.
LEMMA ServesIsTyped ==
  ASSUME NotificationsAssumption, IInv, NEW r \in runs, NEW c \in Rest(r)
  PROVE  /\ c \in Configs /\ r.snap[c] \in ConfRow /\ r.row \in Row
         /\ Serves(r, c) \in Run /\ RunIsSound(Serves(r, c))
         /\ Serves(r, c).issue = r.issue /\ Serves(r, c).row = r.row
         /\ Serves(r, c).broken = r.broken
         /\ Rest(Serves(r, c)) = Rest(r) \ {c}
         /\ \A d \in Rest(Serves(r, c)) : Serves(r, c).snap[d] = r.snap[d]
  <1> DEFINE rest == Rest(r) \ {c}
             snap == Restrict(r.snap, rest)
             s == Serves(r, c)
  <1>1. r \in Run /\ RunIsSound(r) /\ r.step = "loop"
    BY DEF IInv, TypeOK, RunIsSound
  <1>2. PICK S \in SUBSET Configs : r.snap \in [S -> ConfRow]
    BY <1>1 DEF Run
  <1>3. Rest(r) = S
    BY <1>2 DEF Rest
  <1>4. /\ snap \in [rest -> ConfRow] /\ DOMAIN snap = rest /\ rest \in SUBSET Configs
        /\ \A d \in rest : snap[d] = r.snap[d]
    BY <1>2, <1>3 DEF Restrict
  <1>5. snap \in UNION {[T -> ConfRow] : T \in SUBSET Configs}
    BY <1>4
  <1>6. s = [r EXCEPT !.snap = snap, !.served = @ \cup {c},
                      !.step = IF rest = {} THEN "done" ELSE "loop"]
    BY DEF Serves
  <1>7. c \in Configs /\ r.snap[c] \in ConfRow
    BY <1>2, <1>3
  <1> HIDE DEF snap, s
  <1>8. /\ s \in Run /\ s.issue = r.issue /\ s.row = r.row /\ s.broken = r.broken
        /\ s.snap = snap /\ s.wanted = r.wanted /\ s.served = r.served \cup {c}
        /\ s.step = IF rest = {} THEN "done" ELSE "loop"
    BY <1>1, <1>5, <1>6, <1>7 DEF Run
  <1>9. Rest(s) = rest
    BY <1>4, <1>8 DEF Rest
  <1>10. r.row \in Row /\ RunIsSound(s)
    BY <1>1, <1>8, <1>9 DEF RunIsSound
  <1>11. QED
    BY <1>4, <1>7, <1>8, <1>9, <1>10 DEF s

LEMMA SendItselfKeeps ==
  ASSUME NotificationsAssumption, IInv, NEW r \in runs, NEW c \in Configs, SendItself(r, c)
  PROVE  IInv'
  <1> DEFINE s == Serves(r, c)
  <1>1. c \in Rest(r) /\ c \in Slack
    BY DEF SendItself
  <1>2. /\ s \in Run /\ RunIsSound(s) /\ s.issue = r.issue /\ s.row = r.row
        /\ s.broken = r.broken /\ Rest(s) = Rest(r) \ {c}
        /\ \A d \in Rest(s) : s.snap[d] = r.snap[d]
    BY <1>1, ServesIsTyped
  <1>3. Goes(r, s)
    BY DEF SendItself
  <1> HIDE DEF s
  <1>4. \A d \in Rest(s) : s.snap[d].agreed
    BY <1>2 DEF IInv, SecretsAgree
  <1>5. r.step \notin {"read", "select"}
    BY <1>1 DEF IInv, RunIsSound
  <1>6. \A d \in Webhooks : d \in Rest(r) => d \in Rest(s)
    BY <1>1, <1>2 DEF NotificationsAssumption
  <1>7. UNCHANGED <<conf, calls, touched, edits, issue, told, queue>> /\ logged' \subseteq Configs
        /\ faults' \in 0..MaxFaults
    BY DEF SendItself, IInv, TypeOK, NotificationsAssumption
  <1>8. queue \subseteq queue' /\ \A j \in queue' : j \in Job /\ JobIsSound(j)
    BY <1>7 DEF IInv, TypeOK
  <1>9. QED
    BY <1>2, <1>3, <1>4, <1>5, <1>6, <1>7, <1>8, RunGoesOn

LEMMA EnqueueKeeps ==
  ASSUME NotificationsAssumption, IInv, NEW r \in runs, NEW c \in Configs, Enqueue(r, c)
  PROVE  IInv'
  <1> DEFINE s == Serves(r, c)
             j == [cfg |-> c, issue |-> r.issue, event |-> r.event, of |-> r.of,
                   row |-> r.row, conf |-> r.snap[c], tries |-> 0, stalls |-> 0,
                   state |-> "waiting", ok |-> FALSE, got |-> FALSE]
  <1>1. c \in Rest(r) /\ c \in Webhooks /\ r \in Run
    BY DEF Enqueue, IInv, TypeOK
  <1>2. /\ s \in Run /\ RunIsSound(s) /\ s.issue = r.issue /\ s.row = r.row
        /\ s.broken = r.broken /\ Rest(s) = Rest(r) \ {c}
        /\ \A d \in Rest(s) : s.snap[d] = r.snap[d]
        /\ r.snap[c] \in ConfRow /\ r.row \in Row
    BY <1>1, ServesIsTyped
  <1>3. Goes(r, s) /\ queue' = queue \cup {j}
    BY DEF Enqueue
  <1>4. r.issue \in Issues /\ r.event \in Events /\ r.of \in Row
    BY <1>1 DEF Run
  <1>5. j \in Job
    BY <1>1, <1>2, <1>4 DEF Job, NotificationsAssumption
  <1>6. JobIsSound(j) /\ j.cfg = c /\ j.issue = r.issue /\ j.row = r.row
    BY <1>1 DEF IInv, SecretsAgree, JobIsSound, NotificationsAssumption
  <1> HIDE DEF s, j
  <1>7. \A d \in Rest(s) : s.snap[d].agreed
    BY <1>2 DEF IInv, SecretsAgree
  <1>8. r.step \notin {"read", "select"}
    BY <1>1 DEF IInv, RunIsSound
  <1>9. \A d \in Webhooks : d \in Rest(r) => d \in Rest(s) \/ (j \in queue' /\ j.cfg = d)
    BY <1>2, <1>3, <1>6
  <1>10. UNCHANGED <<conf, calls, touched, edits, issue, told, logged, faults>>
    BY DEF Enqueue, alerts
  <1>11. logged' \subseteq Configs /\ faults' \in 0..MaxFaults
    BY <1>10 DEF IInv, TypeOK
  <1>12. queue \subseteq queue' /\ \A k \in queue' : k \in Job /\ JobIsSound(k)
    BY <1>3, <1>5, <1>6 DEF IInv, TypeOK
  <1>13. QED
    BY <1>2, <1>3, <1>6, <1>7, <1>8, <1>9, <1>10, <1>11, <1>12, RunGoesOn

LEMMA RunBreaksKeeps ==
  ASSUME NotificationsAssumption, IInv, NEW r \in runs, RunBreaks(r)
  PROVE  IInv'
  <1> DEFINE s == [r EXCEPT !.step = "done", !.snap = <<>>, !.broken = TRUE]
  <1>1. r \in Run /\ RunIsSound(r)
    BY DEF IInv, TypeOK
  <1>2. <<>> \in [{} -> ConfRow] /\ DOMAIN <<>> = {}
    OBVIOUS
  <1>3. <<>> \in UNION {[S -> ConfRow] : S \in SUBSET Configs}
    BY <1>2
  <1>4. Goes(r, s)
    BY DEF RunBreaks
  <1>5. /\ s \in Run /\ s.issue = r.issue /\ s.step = "done" /\ s.broken
        /\ DOMAIN s.snap = {}
    BY <1>1, <1>2, <1>3 DEF Run
  <1> HIDE DEF s
  <1>6. Rest(s) = {} /\ RunIsSound(s)
    BY <1>1, <1>5 DEF RunIsSound, Rest
  <1>7. UNCHANGED <<conf, calls, touched, edits, issue, told, logged, queue>> /\ faults' \in 0..MaxFaults
    BY DEF RunBreaks, alerts, IInv, TypeOK, NotificationsAssumption
  <1>8. logged' \subseteq Configs /\ queue \subseteq queue'
        /\ \A j \in queue' : j \in Job /\ JobIsSound(j)
    BY <1>7 DEF IInv, TypeOK
  <1>9. QED
    BY <1>4, <1>5, <1>6, <1>7, <1>8, RunGoesOn

-----------------------------------------------------------------------------
LEMMA WorkKeeps ==
  ASSUME NotificationsAssumption, IInv, NEW j \in queue,
         Work(j) \/ DeliveryFails(j) \/ WorkerDies(j)
  PROVE  IInv'
  <1>1. j \in Job /\ JobIsSound(j) /\ j.tries \in Nat /\ j.stalls \in Nat
    BY DEF IInv, TypeOK, Job
  <1>2. CASE Deliver(j)
    <2> DEFINE k == [j EXCEPT !.state = "answered", !.ok = TRUE, !.got = @ \/ Listed(j)]
    <2>1. j.state = "waiting" /\ Settles(j, k)
      BY <1>2 DEF Deliver
    <2>2. (j.got \/ Listed(j)) \in BOOLEAN
      OBVIOUS
    <2>3. /\ k \in Job /\ k.cfg = j.cfg /\ k.issue = j.issue /\ k.row = j.row
          /\ k.conf = j.conf /\ k.tries = j.tries /\ k.stalls = j.stalls
      BY <1>1, <2>2 DEF Job
    <2> HIDE DEF k
    <2>4. JobIsSound(k)
      BY <1>1, <2>1, <2>3 DEF JobIsSound
    <2>5. UNCHANGED <<conf, calls, touched, edits, issue, told, runs, logged, faults>>
      BY <1>2 DEF Deliver, alerts
    <2>6. QED
      BY <2>1, <2>3, <2>4, <2>5, JobGoesOn DEF IInv, TypeOK
  <1>3. CASE Settle(j)
    <2> DEFINE k == IF j.ok THEN [j EXCEPT !.state = "done"]
                    ELSE [j EXCEPT !.tries = @ + 1,
                                   !.state = IF j.tries + 1 = MaxAttempts THEN "failed" ELSE "waiting"]
    <2>1. j.state = "answered" /\ Settles(j, k)
      BY <1>3 DEF Settle
    <2>2. j.tries + 1 \in 0..MaxAttempts /\ j.stalls < 2 /\ j.conf.agreed
      BY <1>1, <2>1 DEF JobIsSound, NotificationsAssumption
    <2>3. /\ k \in Job /\ k.cfg = j.cfg /\ k.issue = j.issue /\ k.row = j.row
          /\ k.conf = j.conf /\ k.stalls = j.stalls
          /\ k.state = "waiting" => k.tries = j.tries + 1 /\ k.tries # MaxAttempts
          /\ k.state # "answered"
      BY <1>1, <2>2 DEF Job
    <2> HIDE DEF k
    <2>4. JobIsSound(k)
      BY <1>1, <2>2, <2>3 DEF JobIsSound, NotificationsAssumption
    <2>5. UNCHANGED <<conf, calls, touched, edits, issue, told, runs, faults>> /\ logged' \subseteq Configs
      BY <1>1, <1>3 DEF Settle, IInv, TypeOK, Job, Configs
    <2>6. QED
      BY <2>1, <2>3, <2>4, <2>5, JobGoesOn DEF IInv, TypeOK
  <1>4. CASE DeliveryFails(j)
    <2>1. PICK got \in {j.got, TRUE} :
            Settles(j, [j EXCEPT !.state = "answered", !.ok = FALSE, !.got = got])
      BY <1>4 DEF DeliveryFails
    <2> DEFINE k == [j EXCEPT !.state = "answered", !.ok = FALSE, !.got = got]
    <2>2. j.state = "waiting" /\ got \in BOOLEAN
      BY <1>1, <1>4 DEF DeliveryFails, Job
    <2>3. /\ k \in Job /\ k.cfg = j.cfg /\ k.issue = j.issue /\ k.row = j.row
          /\ k.conf = j.conf /\ k.tries = j.tries /\ k.stalls = j.stalls
      BY <1>1, <2>2 DEF Job
    <2>4. Settles(j, k)
      BY <2>1
    <2> HIDE DEF k
    <2>5. JobIsSound(k)
      BY <1>1, <2>2, <2>3 DEF JobIsSound
    <2>6. /\ UNCHANGED <<conf, calls, touched, edits, issue, told, runs, logged>>
          /\ faults' \in 0..MaxFaults
      BY <1>4 DEF DeliveryFails, alerts, IInv, TypeOK, NotificationsAssumption
    <2>7. QED
      BY <2>3, <2>4, <2>5, <2>6, JobGoesOn DEF IInv, TypeOK
  <1>5. CASE WorkerDies(j)
    <2> DEFINE k == [j EXCEPT !.stalls = @ + 1, !.ok = FALSE,
                              !.state = IF j.stalls = 1 THEN "failed" ELSE "waiting"]
    <2>1. j.state \in {"waiting", "answered"} /\ Settles(j, k)
      BY <1>5 DEF WorkerDies
    <2>2. j.tries < MaxAttempts /\ j.stalls < 2 /\ j.conf.agreed /\ j.stalls + 1 \in 0..2
      BY <1>1, <2>1 DEF JobIsSound
    <2>3. /\ k \in Job /\ k.cfg = j.cfg /\ k.issue = j.issue /\ k.row = j.row
          /\ k.conf = j.conf /\ k.tries = j.tries /\ k.stalls = j.stalls + 1
          /\ k.state = IF j.stalls = 1 THEN "failed" ELSE "waiting"
      BY <1>1, <2>2 DEF Job
    <2> HIDE DEF k
    <2>4. JobIsSound(k)
      BY <1>1, <2>2, <2>3 DEF JobIsSound
    <2>5. /\ UNCHANGED <<conf, calls, touched, edits, issue, told, runs, logged>>
          /\ faults' \in 0..MaxFaults
      BY <1>5 DEF WorkerDies, alerts, IInv, TypeOK, NotificationsAssumption
    <2>6. QED
      BY <2>1, <2>3, <2>4, <2>5, JobGoesOn DEF IInv, TypeOK
  <1>6. QED
    BY <1>2, <1>3, <1>4, <1>5 DEF Work

LEMMA CreateKeeps ==
  ASSUME NotificationsAssumption, IInv, NEW c \in Configs, Create(c)
  PROVE  IInv'
  <1>1. /\ UNCHANGED <<issue, told, runs, queue, faults, logged, calls>>
        /\ edits' \in 0..MaxEdits /\ touched' = touched \cup {c}
    BY DEF Create, IInv, TypeOK, NotificationsAssumption
  <1>2. /\ conf' \in [Configs -> Maybe(ConfRow)]
        /\ \A d \in Configs : conf'[d] = IF d = c THEN NewRow ELSE conf[d]
    BY NewRowIsTyped DEF Create, IInv, TypeOK, Maybe
  <1>3. \A d \in Configs : conf'[d] # None => conf'[d].agreed
    BY <1>2, NewRowIsTyped DEF IInv, SecretsAgree
  <1>4. \A x \in calls' : x \in Call /\ x.cfg \in touched' /\ (x.step # "sent" => x.kept)
                          /\ (x.op = "put" => x.body \in Bodies)
    BY <1>1 DEF IInv, TypeOK, SecretsAgree, CallsAgree
  <1>5. logged' \subseteq Configs /\ touched' \subseteq Configs /\ touched \subseteq touched'
    BY <1>1 DEF IInv, TypeOK
  <1>6. \A d \in Configs \ touched' : conf'[d] = conf[d]
    BY <1>1, <1>2
  <1>7. QED
    BY <1>1, <1>2, <1>3, <1>4, <1>5, <1>6, CallGoesOn

LEMMA AskKeeps ==
  ASSUME NotificationsAssumption, IInv, NEW c \in Configs,
         NEW op \in {"put", "delete", "test"}, NEW body \in Maybe(Bodies),
         op = "put" => body \in Bodies, Ask(op, c, body)
  PROVE  IInv'
  <1> DEFINE x == [op |-> op, cfg |-> c, body |-> body, kept |-> FALSE, step |-> "sent"]
  <1>1. /\ UNCHANGED <<issue, told, runs, queue, faults, logged, conf>>
        /\ edits' \in 0..MaxEdits /\ touched' = touched \cup {c} /\ calls' = calls \cup {x}
    BY DEF Ask, IInv, TypeOK, NotificationsAssumption
  <1>2. x \in Call /\ x.cfg = c /\ x.step = "sent" /\ (x.op = "put" => x.body \in Bodies)
    BY DEF Call
  <1> HIDE DEF x
  <1>3. \A y \in calls' : y \in Call /\ y.cfg \in touched' /\ (y.step # "sent" => y.kept)
                          /\ (y.op = "put" => y.body \in Bodies)
    BY <1>1, <1>2 DEF IInv, TypeOK, SecretsAgree, CallsAgree
  <1>4. logged' \subseteq Configs /\ touched' \subseteq Configs /\ touched \subseteq touched'
    BY <1>1 DEF IInv, TypeOK
  <1>5. /\ conf' \in [Configs -> Maybe(ConfRow)]
        /\ \A d \in Configs : conf'[d] # None => conf'[d].agreed
    BY <1>1 DEF IInv, TypeOK, SecretsAgree
  <1>6. QED
    BY <1>1, <1>3, <1>4, <1>5, CallGoesOn

\* A call that was sent finds the row under the secret agreed on; what it
\* writes, deletes or logs is about the configuration it touched.
LEMMA EditKeeps ==
  ASSUME NotificationsAssumption, IInv, NEW x \in calls, Edit(x)
  PROVE  IInv'
  <1>1. /\ x \in Call /\ x.cfg \in touched /\ x.cfg \in Configs /\ (x.step # "sent" => x.kept)
        /\ (x.op = "put" => x.body \in Bodies) /\ x.kept \in BOOLEAN
    BY DEF IInv, TypeOK, SecretsAgree, CallsAgree, Call
  <1>2. \A y \in calls : y \in Call /\ y.cfg \in touched /\ (y.step # "sent" => y.kept)
                         /\ (y.op = "put" => y.body \in Bodies)
    BY DEF IInv, TypeOK, SecretsAgree, CallsAgree
  <1>3. /\ touched \subseteq Configs /\ edits \in 0..MaxEdits /\ logged \subseteq Configs
        /\ conf \in [Configs -> Maybe(ConfRow)]
        /\ \A c \in Configs : conf[c] # None => conf[c].agreed
    BY DEF IInv, TypeOK, SecretsAgree
  <1>4. UNCHANGED <<issue, told, runs, queue, faults, touched, edits>>
    BY DEF Edit, LookUp, Put, DeleteLogs, DeleteConfig, Test
  <1>5. ASSUME NEW y \in Call, y.cfg = x.cfg, y.op = x.op, y.body = x.body,
               y.step # "sent" => y.kept, CallGoes(x, y),
               UNCHANGED conf, logged' \subseteq Configs
        PROVE  IInv'
    <2>1. calls' = (calls \ {x}) \cup {y}
      BY <1>5 DEF CallGoes
    <2>2. \A z \in calls' : z \in Call /\ z.cfg \in touched' /\ (z.step # "sent" => z.kept)
                            /\ (z.op = "put" => z.body \in Bodies)
      BY <1>1, <1>2, <1>4, <1>5, <2>1
    <2>3. QED
      BY <1>3, <1>4, <1>5, <2>2, CallGoesOn
  <1>6. ASSUME CallEnds(x), logged' \subseteq Configs, conf' \in [Configs -> Maybe(ConfRow)],
               \A c \in Configs : conf'[c] # None => conf'[c].agreed,
               \A c \in Configs : c # x.cfg => conf'[c] = conf[c]
        PROVE  IInv'
    <2>1. calls' \subseteq calls
      BY <1>6 DEF CallEnds
    <2>2. \A z \in calls' : z \in Call /\ z.cfg \in touched' /\ (z.step # "sent" => z.kept)
                            /\ (z.op = "put" => z.body \in Bodies)
      BY <1>2, <1>4, <2>1
    <2>3. QED
      BY <1>1, <1>3, <1>4, <1>6, <2>2, CallGoesOn
  <1>7. CASE LookUp(x)
    <2>1. CASE conf[x.cfg] = None
      BY <1>3, <1>6, <1>7, <2>1 DEF LookUp
    <2>2. CASE conf[x.cfg] # None
      <3> DEFINE y == [x EXCEPT !.step = "read", !.kept = conf[x.cfg].agreed]
      <3>1. conf[x.cfg].agreed = TRUE
        <4>1. conf[x.cfg] \in ConfRow /\ conf[x.cfg].agreed
          BY <1>1, <1>3, <2>2 DEF Maybe
        <4>2. QED
          BY <4>1, Zenon DEF ConfRow
      <3>2. y = [x EXCEPT !.step = "read", !.kept = TRUE]
        BY <3>1
      <3>3. CallGoes(x, y) /\ UNCHANGED <<conf, logged>>
        BY <1>7, <2>2 DEF LookUp
      <3> HIDE DEF y
      <3>4. y \in Call /\ y.cfg = x.cfg /\ y.op = x.op /\ y.body = x.body /\ y.kept
        BY <1>1, <3>2 DEF Call
      <3>5. QED
        BY <1>3, <1>5, <3>3, <3>4
    <2>3. QED
      BY <2>1, <2>2
  <1>8. CASE Put(x)
    <2>1. CASE conf[x.cfg] = None
      BY <1>3, <1>6, <1>8, <2>1 DEF Put
    <2>2. CASE conf[x.cfg] # None
      <3> DEFINE row == Merged(conf[x.cfg], x.body, x.kept)
      <3>1. conf[x.cfg] \in ConfRow /\ conf[x.cfg].agreed
        BY <1>1, <1>3, <2>2 DEF Maybe
      <3>2. x.body \in Bodies /\ x.kept
        BY <1>1, <1>8 DEF Put
      <3>3. row \in ConfRow /\ row.agreed
        BY <1>1, <3>1, <3>2, MergedIsTyped
      <3>4. conf' = [conf EXCEPT ![x.cfg] = row] /\ CallEnds(x) /\ logged' = logged
        BY <1>8, <2>2 DEF Put
      <3> HIDE DEF row
      <3>5. conf' \in [Configs -> Maybe(ConfRow)]
        BY <1>3, <3>3, <3>4 DEF Maybe
      <3>6. \A c \in Configs : conf'[c] = IF c = x.cfg THEN row ELSE conf[c]
        BY <1>3, <3>4
      <3>7. QED
        BY <1>3, <1>6, <3>3, <3>4, <3>5, <3>6
    <2>3. QED
      BY <2>1, <2>2
  <1>9. CASE DeleteLogs(x)
    <2> DEFINE y == [x EXCEPT !.step = "unlogged"]
    <2>1. CallGoes(x, y) /\ conf' = conf /\ logged' \subseteq Configs /\ x.kept
      BY <1>1, <1>3, <1>9 DEF DeleteLogs
    <2>2. y \in Call /\ y.cfg = x.cfg /\ y.op = x.op /\ y.body = x.body /\ y.kept = x.kept
      BY <1>1 DEF Call
    <2> HIDE DEF y
    <2>3. QED
      BY <1>5, <2>1, <2>2
  <1>10. CASE DeleteConfig(x)
    <2>1. conf' \in [Configs -> Maybe(ConfRow)] /\ CallEnds(x) /\ logged' = logged
      BY <1>3, <1>10 DEF DeleteConfig, Maybe
    <2>2. \A c \in Configs : conf'[c] = conf[c] \/ (c = x.cfg /\ conf'[c] = None)
      BY <1>3, <1>10 DEF DeleteConfig
    <2>3. QED
      BY <1>3, <1>6, <2>1, <2>2
  <1>11. CASE Test(x)
    BY <1>1, <1>3, <1>6, <1>11 DEF Test
  <1>12. QED
    BY <1>7, <1>8, <1>9, <1>10, <1>11 DEF Edit
-----------------------------------------------------------------------------
LEMMA InitIInv == NotificationsAssumption /\ Init => IInv
  <1> SUFFICES ASSUME NotificationsAssumption, Init PROVE IInv
    OBVIOUS
  <1>1. conf \in [Configs -> Maybe(ConfRow)] /\ \A c \in Configs : conf[c] \in {NewRow, None}
    BY NewRowIsTyped DEF Init, Maybe
  <1>2. TypeOK
    BY <1>1 DEF Init, TypeOK, NotificationsAssumption
  <1>3. SecretsAgree
    BY <1>1, NewRowIsTyped DEF Init, SecretsAgree
  <1>4. CallsAgree /\ LastWordComes
    BY <1>1 DEF Init, CallsAgree, LastWordComes
  <1>5. \A i \in Issues : told[i] <= issue[i]
    BY DEF Init
  <1>6. QED
    BY <1>2, <1>3, <1>4, <1>5 DEF Init, IInv

LEMMA IInvStep == NotificationsAssumption /\ IInv /\ [Next]_vars => IInv'
  <1> SUFFICES ASSUME NotificationsAssumption, IInv, [Next]_vars PROVE IInv'
    OBVIOUS
  <1>1. ASSUME NEW i \in Issues, Detect(i) PROVE IInv'
    BY <1>1, DetectKeeps
  <1>2. ASSUME NEW i \in Issues, NEW event \in Changes, SetStatus(i, event) PROVE IInv'
    BY <1>2, SetStatusKeeps
  <1>12. ASSUME NEW i \in Issues, Feedback(i) PROVE IInv'
    BY <1>12, FeedbackKeeps
  <1>3. ASSUME NEW r \in runs, Dispatch(r) PROVE IInv'
    BY <1>3, ReadIssueKeeps, ReadConfigsKeeps, SendItselfKeeps, EnqueueKeeps DEF Dispatch
  <1>4. ASSUME NEW r \in runs, RunBreaks(r) PROVE IInv'
    BY <1>4, RunBreaksKeeps
  <1>5. ASSUME NEW j \in queue, Work(j) \/ DeliveryFails(j) \/ WorkerDies(j) PROVE IInv'
    BY <1>5, WorkKeeps
  <1>6. ASSUME NEW c \in Configs, Create(c) PROVE IInv'
    BY <1>6, CreateKeeps
  <1>7. ASSUME NEW c \in Configs, NEW body \in Bodies, Ask("put", c, body) PROVE IInv'
    BY <1>7, AskKeeps DEF Maybe
  <1>8. ASSUME NEW c \in Configs, Ask("delete", c, None) \/ Ask("test", c, None) PROVE IInv'
    BY <1>8, AskKeeps DEF Maybe
  <1>9. ASSUME NEW x \in calls, Edit(x) PROVE IInv'
    BY <1>9, EditKeeps
  <1>10. CASE UNCHANGED vars
    BY <1>10 DEF vars, IInv, TypeOK, RunIsSound, Rest, SecretsAgree, CallsAgree,
                 LastWordComes, OnItsWay
  <1>11. QED
    BY <1>1, <1>2, <1>3, <1>4, <1>5, <1>6, <1>7, <1>8, <1>9, <1>10, <1>12 DEF Next

\* What runs, jobs and calls know of each other is kept by every step.
THEOREM NotificationsInvariant == Spec => []IInv
  <1>1. Init => IInv
    BY InitIInv, NotificationsAssumption
  <1>2. IInv /\ [Next]_vars => IInv'
    BY IInvStep, NotificationsAssumption
  <1>3. QED
    BY <1>1, <1>2, PTL DEF Spec

\* No channel silences another, however many there are and whatever is edited
\* meanwhile (alerts/dispatcher.ts:42-126).
THEOREM EveryChannelIsTried == Spec => []NobodyIsSilenced
  <1>1. IInv => NobodyIsSilenced
    BY DEF IInv, RunIsSound, NobodyIsSilenced
  <1>2. QED
    BY <1>1, NotificationsInvariant, PTL

\* The status that was set last, or one feedback has put in its place, is on its
\* way to every webhook nobody touched, and what arrives is signed with the
\* secret agreed on, however many status calls and edits overlap
\* (alerts/webhook-events.ts:24-28, api/alerts.ts:275-277).
THEOREM WhatIsSentHolds == Spec => []DeliveriesAreTrue
  <1>1. ASSUME IInv, NEW i \in Issues, NEW c \in Webhooks,
               issue[i] # 0, c \notin touched, conf[c] # None
        PROVE  \/ \E r \in runs : r.issue = i /\ (r.broken \/ r.step # "done")
               \/ \E j \in queue : j.cfg = c /\ j.issue = i /\ j.row >= told[i]
    <2>1. OnItsWay(i, c)
      BY <1>1 DEF IInv, LastWordComes
    <2>2. \A r \in runs : r.step = "done" => c \notin Rest(r)
      BY <1>1 DEF IInv, RunIsSound
    <2>3. QED
      BY <2>1, <2>2 DEF OnItsWay
  <1>2. IInv => LastWordIsSent
    BY <1>1 DEF LastWordIsSent
  <1>3. IInv => SignedAsAgreed
    BY DEF IInv, JobIsSound, SignedAsAgreed
  <1>4. IInv => DeliveriesAreTrue
    BY <1>2, <1>3 DEF IInv, DeliveriesAreTrue
  <1>5. QED
    BY <1>4, NotificationsInvariant, PTL
=============================================================================
