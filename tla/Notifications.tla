---------------------------- MODULE Notifications ---------------------------
(***************************************************************************)
(* What leaves the system about an issue.  A new issue starts a run of     *)
(* dispatchAlert (alerts/dispatcher.ts), a status set through the API or   *)
(* the MCP server a run of dispatchWebhookEvent (alerts/webhook-events.ts);*)
(* nobody waits for either.  A run reads the enabled configurations and    *)
(* sends to each that wants the issue: Slack, e-mail and PagerDuty by      *)
(* itself, a webhook through a queue whose worker tries again              *)
(* (queue/webhook-delivery-worker.ts).  Configurations are edited, tested  *)
(* and deleted meanwhile (api/alerts.ts), by calls of several round trips  *)
(* each.                                                                   *)
(*                                                                         *)
(* An organization is fixed.  The filters of a configuration, severities   *)
(* and types, are the set of issues they let through.                      *)
(***************************************************************************)
EXTENDS Naturals, FiniteSets, Functions

CONSTANTS
  Issues,      \* issues that may be detected
  Slack,       \* configurations of a channel that the run sends to itself
  Webhooks,    \* configurations of a webhook
  Changes,     \* events of a status set through the API
  Bodies,      \* what a PUT may ask for
  None,        \* no row
  MaxAttempts, \* tries of a delivery job (7 in the code)
  MaxUpdates,  \* bound: versions of an issue
  MaxEdits,    \* bound: calls of the alert API
  MaxFaults    \* bound: sends, queue calls and queries that fail, workers that die

ASSUME NotificationsAssumption ==
  /\ Slack \cap Webhooks = {} /\ None \notin Issues \cup Slack \cup Webhooks
  /\ {MaxAttempts, MaxUpdates} \subseteq Nat \ {0} /\ {MaxEdits, MaxFaults} \subseteq Nat
  /\ \A body \in Bodies :  \* the fields a PUT may name
       /\ DOMAIN body \subseteq {"on", "wants", "events"}
       /\ "on" \in DOMAIN body => body["on"] \in BOOLEAN
       /\ "wants" \in DOMAIN body => body["wants"] \subseteq Issues
       /\ "events" \in DOMAIN body => body["events"] \subseteq Changes \cup {"issue.created"}

VARIABLES
  conf,     \* conf[c]: the row of alert_configurations, or None
  logged,   \* configurations with rows in alert_delivery_logs
  issue,    \* issue[i]: how often its status was written; 0, there is none
  told,     \* told[i]: the last of these writes that started a run
  runs,     \* dispatch runs, also those that have ended
  queue,    \* delivery jobs, also those that have ended
  calls,    \* calls of the alert API under way
  touched,  \* configurations that a call was ever about
  edits,    \* calls that may still be made
  faults    \* faults that may still happen

alerts == <<conf, logged, calls, touched, edits>>
vars == <<conf, logged, issue, told, runs, queue, calls, touched, edits, faults>>

Configs == Slack \cup Webhooks
Events == Changes \cup {"issue.created"}
Row == 1..MaxUpdates  \* an issue as one of its writes left it

\* events = {}: all of them.  agreed: the secret in the row is the one its
\* creator was told.
ConfRow == [on : BOOLEAN, wants : SUBSET Issues, events : SUBSET Events, agreed : BOOLEAN]
Maybe(S) == S \cup {None}

\* snap: the rows still to be served; wanted: those there were at first.
Run == [issue : Issues, event : Events, of : Row, row : Maybe(Row),
        snap : UNION {[S -> ConfRow] : S \in SUBSET Configs},
        wanted : SUBSET Configs, served : SUBSET Configs,
        step : {"read", "select", "loop", "done"}, broken : BOOLEAN]
\* got: the receiver has it.
Job == [cfg : Webhooks, issue : Issues, event : Events, of : Row, row : Row,
        conf : ConfRow, tries : 0..MaxAttempts, stalls : 0..2,
        state : {"waiting", "answered", "done", "failed"}, ok : BOOLEAN, got : BOOLEAN]
Call == [op : {"put", "delete", "test"}, cfg : Configs, body : Maybe(Bodies),
         kept : BOOLEAN, step : {"sent", "read", "unlogged"}]

TypeOK ==
  /\ conf \in [Configs -> Maybe(ConfRow)]
  /\ logged \subseteq Configs
  /\ issue \in [Issues -> 0..MaxUpdates] /\ told \in [Issues -> 0..MaxUpdates]
  /\ \A r \in runs : r \in Run
  /\ \A j \in queue : j \in Job
  /\ \A x \in calls : x \in Call
  /\ touched \subseteq Configs
  /\ edits \in 0..MaxEdits /\ faults \in 0..MaxFaults

\* As the API creates them: enabled, for every severity, type and event.
NewRow == [on |-> TRUE, wants |-> Issues, events |-> {}, agreed |-> TRUE]

Init ==
  /\ conf \in [Configs -> {NewRow, None}]
  /\ logged = {}
  /\ issue = [i \in Issues |-> 0] /\ told = issue
  /\ runs = {} /\ queue = {} /\ calls = {} /\ touched = {}
  /\ edits = MaxEdits /\ faults = MaxFaults
-----------------------------------------------------------------------------
NewRun(i, event, row, step) ==
  [issue |-> i, event |-> event, of |-> issue[i] + 1, row |-> row, snap |-> <<>>,
   wanted |-> {}, served |-> {}, step |-> step, broken |-> FALSE]

\* The detection engine has inserted the issue: the run gets the row.
Detect(i) ==
  /\ issue[i] = 0
  /\ issue' = [issue EXCEPT ![i] = 1] /\ told' = [told EXCEPT ![i] = 1]
  /\ runs' = runs \cup {NewRun(i, "issue.created", 1, "select")}
  /\ UNCHANGED <<alerts, queue, faults>>

\* Mutant: the run gets the row as it was before the status was set.
SetStatus_OldRow(i, event) ==
  /\ issue[i] \in 1..(MaxUpdates - 1)
  /\ issue' = [issue EXCEPT ![i] = @ + 1] /\ told' = [told EXCEPT ![i] = issue[i] + 1]
  /\ runs' = runs \cup {NewRun(i, event, issue[i], "select")}
  /\ UNCHANGED <<alerts, queue, faults>>

\* acknowledge, resolve, dismiss, through the API or the MCP server: whatever
\* the status was.
SetStatus(i, event) ==
  /\ issue[i] \in 1..(MaxUpdates - 1)
  /\ issue' = [issue EXCEPT ![i] = @ + 1] /\ told' = [told EXCEPT ![i] = issue[i] + 1]
  /\ runs' = runs \cup {NewRun(i, event, None, "read")}
  /\ UNCHANGED <<alerts, queue, faults>>

\* Feedback resolves or dismisses the issue as well, and tells nobody.
Feedback(i) ==
  /\ issue[i] \in 1..(MaxUpdates - 1)
  /\ issue' = [issue EXCEPT ![i] = @ + 1]
  /\ UNCHANGED <<alerts, told, runs, queue, faults>>

Goes(r, s) == runs' = (runs \ {r}) \cup {s}

\* dispatchWebhookEvent reads the issue it is about.
ReadIssue(r) ==
  /\ r.step = "read"
  /\ Goes(r, [r EXCEPT !.step = "select", !.row = issue[r.issue]])
  /\ UNCHANGED <<alerts, issue, told, queue, faults>>

\* Is a configuration for this run?  dispatchAlert knows every channel and
\* leaves the event types to the worker; dispatchWebhookEvent knows webhooks
\* and asks for the event type first.
Matches(r, c) ==
  /\ conf[c] # None /\ conf[c].on /\ r.issue \in conf[c].wants
  /\ r.event # "issue.created" =>
       c \in Webhooks /\ (conf[c].events = {} \/ r.event \in conf[c].events)

ReadConfigs(r) ==
  LET wanted == {c \in Configs : Matches(r, c)} IN
  /\ r.step = "select"
  /\ Goes(r, [r EXCEPT !.snap = [c \in wanted |-> conf[c]], !.wanted = wanted,
                       !.step = IF wanted = {} THEN "done" ELSE "loop"])
  /\ UNCHANGED <<alerts, issue, told, queue, faults>>

\* The run has seen to c.
Rest(r) == DOMAIN r.snap
Serves(r, c) ==
  LET rest == Rest(r) \ {c} IN
  [r EXCEPT !.snap = Restrict(@, rest), !.served = @ \cup {c},
            !.step = IF rest = {} THEN "done" ELSE "loop"]

\* Mutant: a channel that fails throws.
SendItself_Throws(r, c) ==
  /\ c \in Rest(r) \cap Slack
  /\ \E ok \in BOOLEAN :
       /\ ok \/ faults > 0
       /\ faults' = IF ok THEN faults ELSE faults - 1
       /\ Goes(r, IF ok THEN Serves(r, c) ELSE [r EXCEPT !.step = "done", !.snap = <<>>])
  /\ logged' = IF conf[c] = None THEN logged ELSE logged \cup {c}
  /\ UNCHANGED <<conf, calls, touched, edits, issue, told, queue>>

\* Slack, e-mail, PagerDuty: sent or failed, the run goes on.  The outcome is
\* logged, unless the configuration is gone by now.
SendItself(r, c) ==
  /\ c \in Rest(r) \cap Slack
  /\ Goes(r, Serves(r, c))
  /\ faults' \in {faults, faults - 1} \cap Nat
  /\ logged' = IF conf[c] = None THEN logged ELSE logged \cup {c}
  /\ UNCHANGED <<conf, calls, touched, edits, issue, told, queue>>

\* A webhook gets a job, which takes the row of the configuration along.
Enqueue(r, c) ==
  /\ c \in Rest(r) \cap Webhooks
  /\ queue' = queue \cup {[cfg |-> c, issue |-> r.issue, event |-> r.event, of |-> r.of,
                           row |-> r.row, conf |-> r.snap[c], tries |-> 0, stalls |-> 0,
                           state |-> "waiting", ok |-> FALSE, got |-> FALSE]}
  /\ Goes(r, Serves(r, c))
  /\ UNCHANGED <<alerts, issue, told, faults>>

\* A query or the queue throws: the one catch of the run ends it.
RunBreaks(r) ==
  /\ faults > 0
  /\ r.step \in {"read", "select"} \/ Rest(r) \cap Webhooks # {}
  /\ faults' = faults - 1
  /\ Goes(r, [r EXCEPT !.step = "done", !.snap = <<>>, !.broken = TRUE])
  /\ UNCHANGED <<alerts, issue, told, queue>>
-----------------------------------------------------------------------------
\* The worker.  Event types the configuration does not list count as sent.
Settles(j, k) == queue' = (queue \ {j}) \cup {k}
Listed(j) == j.conf.events = {} \/ j.event \in j.conf.events

Deliver(j) ==
  /\ j.state = "waiting"
  /\ Settles(j, [j EXCEPT !.state = "answered", !.ok = TRUE, !.got = @ \/ Listed(j)])
  /\ UNCHANGED <<alerts, issue, told, runs, faults>>

\* The receiver is down, answers with an error, or answers too late.
DeliveryFails(j) ==
  /\ j.state = "waiting" /\ Listed(j) /\ faults > 0
  /\ faults' = faults - 1
  /\ \E got \in {j.got, TRUE} : Settles(j, [j EXCEPT !.state = "answered", !.ok = FALSE, !.got = got])
  /\ UNCHANGED <<alerts, issue, told, runs>>

\* Mutant: the result is logged and the job completes.
Settle_Completes(j) ==
  /\ j.state = "answered"
  /\ Settles(j, [j EXCEPT !.state = "done"])
  /\ logged' = IF conf[j.cfg] = None THEN logged ELSE logged \cup {j.cfg}
  /\ UNCHANGED <<conf, calls, touched, edits, issue, told, runs, faults>>

\* The attempt is logged; a failed one throws, and the queue tries again.
Settle(j) ==
  /\ j.state = "answered"
  /\ Settles(j, IF j.ok THEN [j EXCEPT !.state = "done"]
                ELSE [j EXCEPT !.tries = @ + 1,
                               !.state = IF j.tries + 1 = MaxAttempts THEN "failed" ELSE "waiting"])
  /\ logged' = IF conf[j.cfg] = None THEN logged ELSE logged \cup {j.cfg}
  /\ UNCHANGED <<conf, calls, touched, edits, issue, told, runs, faults>>

\* The worker dies: another one takes the job up again, once.
WorkerDies(j) ==
  /\ j.state \in {"waiting", "answered"} /\ faults > 0
  /\ faults' = faults - 1
  /\ Settles(j, [j EXCEPT !.stalls = @ + 1, !.ok = FALSE,
                          !.state = IF j.stalls = 1 THEN "failed" ELSE "waiting"])
  /\ UNCHANGED <<alerts, issue, told, runs>>
-----------------------------------------------------------------------------
\* The alert API.  Somebody creates a configuration, under a new id ...
Create(c) ==
  /\ edits > 0 /\ conf[c] = None /\ c \notin touched
  /\ edits' = edits - 1 /\ touched' = touched \cup {c}
  /\ conf' = [conf EXCEPT ![c] = NewRow]
  /\ UNCHANGED <<logged, calls, issue, told, runs, queue, faults>>

\* ... or sends a call about one.  A PUT names the fields it changes.
Ask(op, c, body) ==
  /\ edits > 0 /\ conf[c] # None
  /\ edits' = edits - 1 /\ touched' = touched \cup {c}
  /\ calls' = calls \cup {[op |-> op, cfg |-> c, body |-> body, kept |-> FALSE, step |-> "sent"]}
  /\ UNCHANGED <<conf, logged, issue, told, runs, queue, faults>>

CallGoes(x, y) == calls' = (calls \ {x}) \cup {y}
CallEnds(x) == calls' = calls \ {x}

\* Every call looks the configuration up first.
LookUp(x) ==
  /\ x.step = "sent"
  /\ IF conf[x.cfg] = None THEN CallEnds(x)
     ELSE CallGoes(x, [x EXCEPT !.step = "read", !.kept = conf[x.cfg].agreed])
  /\ UNCHANGED <<conf, logged, touched, edits, issue, told, runs, queue, faults>>

\* What a PUT leaves: a field it names, else the field as it is now.  A new
\* config of a webhook (here, its event types) keeps the secret of the old.
Merged(row, body, secret) ==
  [f \in DOMAIN row |-> CASE f \in DOMAIN body -> body[f]
                         [] f = "agreed" /\ "events" \in DOMAIN body -> secret
                         [] OTHER -> row[f]]

\* Nothing is left to update when the row was deleted meanwhile.
Put(x) ==
  /\ x.op = "put" /\ x.step = "read"
  /\ conf' = IF conf[x.cfg] = None THEN conf
             ELSE [conf EXCEPT ![x.cfg] = Merged(@, x.body, x.kept)]
  /\ CallEnds(x)
  /\ UNCHANGED <<logged, touched, edits, issue, told, runs, queue, faults>>

\* DELETE: first the rows of the log, which refer to the configuration, then
\* the configuration, unless a delivery was logged in between.
DeleteLogs(x) ==
  /\ x.op = "delete" /\ x.step = "read"
  /\ logged' = logged \ {x.cfg}
  /\ CallGoes(x, [x EXCEPT !.step = "unlogged"])
  /\ UNCHANGED <<conf, touched, edits, issue, told, runs, queue, faults>>

DeleteConfig(x) ==
  /\ x.step = "unlogged"
  /\ conf' = IF x.cfg \in logged THEN conf ELSE [conf EXCEPT ![x.cfg] = None]
  /\ CallEnds(x)
  /\ UNCHANGED <<logged, touched, edits, issue, told, runs, queue, faults>>

\* POST /test sends one message, whether the configuration is enabled or not,
\* and logs how it went.
Test(x) ==
  /\ x.op = "test" /\ x.step = "read"
  /\ logged' = IF conf[x.cfg] = None THEN logged ELSE logged \cup {x.cfg}
  /\ CallEnds(x)
  /\ UNCHANGED <<conf, touched, edits, issue, told, runs, queue, faults>>
-----------------------------------------------------------------------------
Dispatch(r) ==
  \/ ReadIssue(r) \/ ReadConfigs(r)
  \/ \E c \in Configs : SendItself(r, c) \/ Enqueue(r, c)
Work(j) == Deliver(j) \/ Settle(j)
Edit(x) == LookUp(x) \/ Put(x) \/ DeleteLogs(x) \/ DeleteConfig(x) \/ Test(x)

Next ==
  \/ \E i \in Issues : \/ Detect(i) \/ Feedback(i)
                       \/ \E event \in Changes : SetStatus(i, event)
  \/ \E r \in runs : Dispatch(r) \/ RunBreaks(r)
  \/ \E j \in queue : Work(j) \/ DeliveryFails(j) \/ WorkerDies(j)
  \/ \E c \in Configs : Create(c)
  \/ \E c \in Configs :
       \/ \E body \in Bodies : Ask("put", c, body)
       \/ Ask("delete", c, None) \/ Ask("test", c, None)
  \/ \E x \in calls : Edit(x)

Spec == Init /\ [][Next]_vars

\* Runs go on and the worker works.  Nobody need edit anything.
Fairness ==
  /\ WF_vars(\E r \in runs : Dispatch(r))
  /\ WF_vars(\E j \in queue : Work(j))
FairSpec == Spec /\ Fairness
-----------------------------------------------------------------------------
\* No channel silences another: a run that the queue and the database served
\* has tried every configuration that was enabled and wanted the issue,
\* whatever the others did (alerts/dispatcher.ts:42-126, the senders return
\* their errors and never throw).
NobodyIsSilenced ==
  \A r \in runs : r.step = "done" /\ ~r.broken => r.wanted = r.served

\* The last word is sent: the runs of several status calls overlap and read the
\* issue when they come to it, so their events may tell a later status than
\* their own; but once they are through, the status that was set last, or one
\* that feedback has put in its place since, is on its way to every webhook
\* nobody touched (api/issues.ts:163-170, alerts/webhook-events.ts:24-28).
\* Feedback by itself is no word: it changes the status and sends nothing
\* (agents/learner.ts:76-85).
LastWordIsSent ==
  \A i \in Issues, c \in Webhooks :
    \/ issue[i] = 0 \/ c \in touched \/ conf[c] = None
    \/ \E r \in runs : r.issue = i /\ (r.broken \/ r.step # "done")
    \/ \E j \in queue : j.cfg = c /\ j.issue = i /\ j.row >= told[i]

\* What arrives is signed with the secret the receiver was told when it was
\* configured: through edits, and in deliveries that were queued before them
\* (api/alerts.ts:275-277).
SignedAsAgreed == \A j \in queue : j.got => j.conf.agreed

\* What is sent is what holds, under the signature that was agreed on.
DeliveriesAreTrue == TypeOK /\ LastWordIsSent /\ SignedAsAgreed

\* An event in the queue arrives, however often the receiver is down, as long
\* as no job used up its attempts and no worker died twice over one
\* (queue/webhook-delivery-worker.ts:30-36 and 77-79).
Pending(c, i, n) ==
  \E j \in queue : j.cfg = c /\ j.issue = i /\ j.of = n /\ Listed(j)
Ended(c, i, n) ==
  \E j \in queue : /\ j.cfg = c /\ j.issue = i /\ j.of = n
                   /\ j.got \/ j.tries = MaxAttempts \/ j.stalls = 2
EventsArrive ==
  \A c \in Webhooks, i \in Issues, n \in Row : Pending(c, i, n) ~> Ended(c, i, n)
-----------------------------------------------------------------------------
(***************************************************************************)
(* The inductive invariant behind the safety properties.                   *)
(***************************************************************************)
\* A run is about an issue there is; it has seen to what it wanted, but for
\* what is left of the snapshot.
RunIsSound(r) ==
  /\ issue[r.issue] > 0
  /\ r.step \in {"select", "loop"} => r.row \in Row
  /\ r.step # "loop" => Rest(r) = {}
  /\ r.step \in {"read", "select"} => r.served = {}
  /\ ~r.broken => r.wanted = r.served \cup Rest(r)

\* A job has an attempt left until it ends, and signs with the secret agreed on.
JobIsSound(j) ==
  /\ j.conf.agreed
  /\ j.state \in {"waiting", "answered"} => j.tries < MaxAttempts /\ j.stalls < 2

\* That secret is in the row, in every copy of it, and in what a PUT is going
\* to write.
SecretsAgree ==
  /\ \A c \in Configs : conf[c] # None => conf[c].agreed
  /\ \A r \in runs : \A c \in Rest(r) : r.snap[c].agreed
  /\ \A x \in calls : x.step # "sent" => x.kept

\* Rows change by calls, and a call is about a configuration it touched.
CallsAgree ==
  /\ \A x \in calls : x.cfg \in touched /\ (x.op = "put" => x.body \in Bodies)
  /\ \A c \in Configs \ touched : conf[c] \in {NewRow, None}

\* The status issue i was last said to have, or a later one, is in the queue for
\* c, or a run has it, or is going to read it.
OnItsWay(i, c) ==
  \/ \E r \in runs :
       /\ r.issue = i
       /\ \/ r.broken \/ r.step = "read"
          \/ (r.step = "select" \/ c \in Rest(r)) /\ r.row >= told[i]
  \/ \E j \in queue : j.cfg = c /\ j.issue = i /\ j.row >= told[i]

LastWordComes ==
  \A i \in Issues, c \in Webhooks \ touched : issue[i] # 0 /\ conf[c] # None => OnItsWay(i, c)

IInv ==
  /\ TypeOK /\ (\A r \in runs : RunIsSound(r)) /\ (\A j \in queue : JobIsSound(j))
  /\ SecretsAgree /\ CallsAgree /\ LastWordComes /\ \A i \in Issues : told[i] <= issue[i]
=============================================================================
