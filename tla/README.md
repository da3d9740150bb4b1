# RevBook in TLA+

RevBook takes the billing webhooks of Stripe, Apple, Google and Recurly, turns
them into canonical events, keeps one entitlement row per user, product and
billing source, and opens issues where billing and access disagree. This
directory holds TLA+ models of that server (`src/src`) and of the pages of its
dashboard that keep state of their own (`src/dashboard`), TLC configurations that
check them on small instances, and TLAPS proofs for instances of any size.
Paths below are relative to `src/src` unless they start with `src/`.

## How to read and run it

| File | What it is |
|---|---|
| `<Component>.tla` | the model of a component: variables, `Init`, one action per step of the code, `Next`, `Spec`, and its properties at the end |
| `MC<Component>.tla` | what a TLC instance needs beyond constants (the choice of inputs, symmetry); `Services` composes five small components, `MCSafeguards` and `MCServices` put several into one instance |
| `<Component>_<question>.cfg` | one run: the instance and the properties it checks |
| `<Component>_proofs.tla` | theorems and their proofs, for every value of the constants |
| `PROJECT.json` | components, runs, mutants, the map of definitions to source lines, findings, hazards, theorems |

`tlc -config Backfill_race.cfg Backfill` runs a check, `tlapm
Backfill_proofs.tla` a proof; PROJECT.json names the module of each run.
Definitions named `Action_What` directly above an action are mutants: the action
with a plausible bug (a dropped guard, a missing reset). No specification uses
them; they stand there so that each property can be seen to fail when the code
is wrong.

## The system

### Components, their state and their operations

**Webhook intake** (`api/webhooks.ts`). `POST /webhooks/:org/:source` verifies
the signature, inserts a `webhook_logs` row, adds a BullMQ job
`webhook-<log id>` and notes the time on the connection; from then on it answers
200 whatever fails. State: the log row's `processing_status`, the job,
`lastWebhookAt`.

**Queue and worker** (`config/queue.ts`, `queue/webhook-worker.ts`,
`queue/dlq.ts`). BullMQ gives a job to a worker, which holds a lock that it
renews; a job of an expired lock goes back to the queue (stalled), a job that
throws is tried up to three times. An admin retries failed jobs. State: jobs,
attempts, locks.

**Normalizers** (`ingestion/providers`). One per source, made once per process:
what a notification means as events. The Google one also holds credentials and an
access token, which it uses to fetch the purchase.

**Pipeline** (`ingestion/pipeline.ts`). Normalizes the raw webhook to events;
for each resolves user and product, stores the event under its unique
idempotency key, and if the insert went in, moves the entitlement and asks the
detectors. State: `canonical_events`, the log row.

**Identity and product resolution** (`identity/resolver.ts`, `resolveProduct`).
Looks hints up one by one, takes the oldest user found or creates one, links the
remaining hints. State: `users`, `user_identities`, `products`.

**Entitlement engine** (`entitlement/engine.ts`). Upserts the row, selects it,
looks the transition up in `STATE_TRANSITIONS`, and updates under the condition
that the state is still the one it read. State: `entitlements` with its
`stateHistory`.

**Issue detection** (`detection/engine.ts`, `detection/detectors`,
`api/issues.ts`). Detectors run on every event and on schedules; a lookup and a
partial unique index keep an issue from being opened twice, people set the
status. State: `issues`, and `access_checks` reported by the app
(`api/access-checks.ts`).

**Scans** (`queue/scan-scheduler.ts`, `queue/scan-worker.ts`, `api/scans.ts`).
Repeatable jobs, one per detector, registered at start-up; a worker goes through
the organizations. State: the repeatable jobs and the queue in Redis.

**Backfill** (`ingestion/backfill`, started by `api/onboarding.ts`). Imports
subscriptions and up to 30 days of events through the pipeline. State: the
progress and the lock in Redis, `syncStatus` of the connection.

**Notifications** (`alerts/*`, `queue/webhook-delivery-worker.ts`, `api/alerts.ts`). A
new issue goes to Slack, e-mail and PagerDuty directly and to webhooks through a queue
with seven attempts; a status set through the API or the MCP server (`mcp/tools.ts`)
goes to webhooks. State: `alert_configurations`, `alert_delivery_logs`, delivery jobs.

**Assistant** (`agents/*`, `api/ai.ts`). Investigates an issue with a language
model and caches the answer in the issue's evidence, takes feedback, groups
issues into incidents, writes reports.

**Data management** (`api/data-management.ts`). Erases a user in one
transaction.

**Slack bot** (`slack/*`). Commands and conversations for engineers on an
allow list. State: conversations in Redis, two rate limits in memory.

**Circuit breakers** (`security/circuit-breaker.ts`) around provider APIs, and
the **rate limiter** (`queue/rate-limiter.ts`, `middleware/rate-limit.ts`), a
token bucket in a Lua script with a middleware that fails open.

**Setup** (`api/onboarding.ts` with `src/dashboard/src/pages/Onboarding.tsx`).
Creates an organization and its key, tests and stores credentials, starts
imports. The page walks through four sections with requests of each under way.
**Issue list** (`src/dashboard/src/pages/Issues.tsx`): filters, pages, a selection
and bulk actions over data fetched every 15 seconds.

The remaining parts (authentication, encryption, the MCP server but for its tool that
sets a status, read APIs, the other pages) keep no state of their own or only talk to
the outside; PROJECT.json lists every one with its reason.

### How they interact

```
 provider ──HTTP──▶ intake ──job──▶ worker ─▶ normalizer ─▶ pipeline ─▶ resolver ─▶ users, products
                      │                │                        ├─────▶ canonical_events (unique key)
                 webhook_logs ◀─status─┘                        ├─────▶ entitlement engine ─▶ entitlements
 admin ── retry of a failed job ──▶ queue                       └─────▶ detection engine ─▶ issues ─▶ dispatch ─▶ channels
 provider API ◀─pages─ backfill ─ the same pipeline                          ▲    ▲   ▲           └─▶ delivery queue ─▶ receivers
        ▲ through breakers, limiter   ▲ started by setup                     │    │   └── people: list, API, feedback
        └────────────────────────────┘         schedules ── scans ───────────┘    └────── assistant: evidence
                                                                    erasure: everything about a user
```

Everything meets in PostgreSQL. Apart from the erasure no transaction spans two
statements, so every round trip is a step, and what keeps racing steps apart is
always a key or a condition in one statement: the unique idempotency key, the
guard on the state in the engine's update, the partial unique index on open
issues, the unique identity, the unique slug, foreign keys, and the `SET NX` lock
in Redis. The properties below say what each of them is good for.

### What is hard, and what makes each part correct

| Part | Hard | Correct when |
|---|---|---|
| intake, queue, pipeline | redelivery, runs that die half-way, a job that runs twice because its live owner lost the lock, one event of several failing | the engine is called once per event; a status tells the truth; what was acknowledged is stored and takes effect; every job ends |
| normalizers and providers | a year of legal notifications in an odd order, an import in the middle of it, one client shared by organizations, details that cannot be fetched | who pays has access, who lapsed has none; customers and organizations are kept apart |
| entitlement engine | stale snapshot written back, calls dropped by the optimistic lock, events out of order | concurrent calls behave like single steps; the history is the path that led to the state; an event is dropped only for another that was applied |
| resolver | look first, create later, by queries of their own | a hint that is known leads to its user again, whoever races for the others; the same hints lead to the same user |
| detection | runs that see the same thing at once; issues closed meanwhile; a detector that throws | one open issue per user and type; nothing slips between two runs; what persists is flagged in the end |
| scans | a scheduler that fails or is started twice, a worker that dies, an organization or a detector that throws | an outage that lasts is flagged again and again |
| backfill | two requests at once, a progress that outlives its run, pages that move while they are read, events newest first | one run at a time; nothing is skipped; requests are let in again; the access is what Stripe says |
| notifications | configurations edited under a run, one channel failing among several, status calls that overlap, attempts that time out | nobody is silenced; the last status that was set through the API or the MCP server is sent; deliveries are signed as agreed and arrive |
| assistant and people | an answer that was asked for half a minute ago is written over what people did meanwhile; it is cached for a day | decisions stand; an answer is about the issue as it is; incidents keep their names, reports are sound |
| erasure | rows about the user stored between its statements, rows that refer to others | erased is erased, and an erasure ends |
| breaker | answers that arrive in another state than their call was made in | it opens on a streak only, cools down, and recovers |
| rate limiter | times from several clocks, in any order | no more is given than the limit; a caller told to wait finds its tokens |
| Slack bot | turns of one thread that overlap, are delivered twice or lose Redis | what is sent takes turns; a quiet thread is remembered whole; the limits hold |
| setup page | answers lost or overtaken, sections that advance by themselves, a key typed meanwhile, two sign-ins at once | a source called ready is connected, for the right organization; one owner per slug |
| issue list | selection kept through pages, refetches, changes by others, requests that fail | what a bulk action applies to was seen and is meant |

PROJECT.json lists the hazards line by line with the properties that cover them.

## The models

Rules followed everywhere: a database or Redis round trip is one step; what
happens in memory between two of them belongs to the step before or after it.
A process may die, and a query may throw, before any step; how often is a
constant named `Max...`. Payloads are names; times are what the code's
comparisons tell apart. A variable whose comment says "history" belongs to the
properties, not to the program.

### EntitlementTable, EntitlementEngine, EntitlementLedger, EntitlementReplay

`EntitlementTable` is `STATE_TRANSITIONS` as a set of triples, entry by entry.
`past_due` is in the table and nothing leads to it: no entry has it as its
target.

`EntitlementEngine` has one user and product, rows per source (`rows[s]`) and
calls of `processEvent` in slots (`pc`, `job`, `seen`). `Upsert` is the insert
with `ON CONFLICT DO NOTHING`; `SelectTransition` and `SelectNoTransition` take
the snapshot and decide; `UpdateApplied` and `UpdateConflict` are the guarded
update that finds the row or does not; `Abort` is a crash or an error.
`outcome[e]` is what the call returned. A call is begun once per event, which is
what the pipeline guarantees and `Ingestion` is checked for.

`EntitlementLedger` is the abstract specification: an event takes effect in one
step by a table entry, is rejected by the table, or is abandoned. The refinement
mapping (`Ledger!Spec` under `LedgerState` and `FateOf`) forgets slots, snapshots
and history. `EntitlementReplay` adds a history variable and the reference to
compare with: the table applied to the events in the order of their time.

### Ingestion

Requests (`http`, `body`), log rows (`status`), jobs (`queue`, `failNote`), runs
of the processor (`at`, `log`, `idx`, `errs`), the stored keys, and the whole of
`EntitlementEngine` as an instance whose slots are the runs: `EngineStep` is a
step of that instance, so crashes of a run fall between the round trips of
`processEvent` too. A job that cannot be queued (`EnqueueFails`) is noted in the log row
by a query of its own (`MarkUnqueued`, `MarkUnqueuedFails`); Redis may have taken the job
even so. BullMQ is external and modelled from how the code
configures it: three attempts, one stall, a failed handler that runs
asynchronously after the job moved. `Ingestion!ImplementsEngine` says that the
composition keeps the guard of the engine's module.

### Normalizers, Providers

`Normalizers` has the maps of the four providers as tables and the conditions
around them: which events a notification makes, whether a product is found for
them, and which hints name the customer. `Providers` lets subscriptions live
(trial, failure, recovery, scheduled end, pause, resubscription, refund),
sends what the provider would send at each change, and takes every notification
through `SetCredentials`, `Token`, `Exchange`, `Fetch` (Google, with the client all
organizations share) to the entitlement table; a voided purchase takes a token like the
others and fetches nothing (`Void`). The imports of Recurly (`Page`,
`ImportSubscription`) and Google (`ImportToken`, `ImportVoided`) run next to them. An
item that fails is noted and passed over (`ItemFails`, remembered in `lost`); a page or a
token that cannot be had ends the run (`PageFails`, `StartFails`).
Notifications of one subscription are processed in order and once: what else
happens to them is the subject of `Ingestion`.

### Resolver

One call per event: `Lookup` once per hint in any order, then `Match` or
`Create`, `Link` once per remaining hint, then the select and the insert of the
product. Users are numbered in the order of creation, which is `created_at`.
Reads of a call are spread over steps, so other calls link hints between them.

### IssueDetection, Monitoring

`IssueDetection` has one user. The entitlement engine appears as its ledger (`Process`
moves a row in one step and starts a run of the event detectors). A run asks the
detectors of its `plan` in the order of the registry (`IsFirst`, `Detect`), and for each
finding looks for an open issue (`SkipKnown`, `Create`) and inserts (`Insert`,
`InsertConflict`). People change statuses at any time. `DetectorFails` is the
per-detector catch.

`Monitoring` has the scans of whole connections: `StartScheduler` replaces the
repeatable jobs, `Due` and `Trigger` put scans into the queue, `TakeScan`,
`AskDetector`, `InsertFound`, `Faulty` and `NextOrg` are the worker. The detectors
`webhook_delivery_gap`, `renewal_anomaly` and `data_freshness` are translated with
their thresholds, counted in ticks. `watch` picks the detector and the connection
a behaviour is about; the others have nothing to find.

### Backfill

One organization and one subscription with a status and a history at Stripe.
Webhooks bring some of its events, runs import the listing: first an event made
up from the status, then the pages, newest first. `progress` and `lock` are
the Redis keys with their expiry; `accidents` remembers which kinds of thing went
wrong, so that each property can say what it survives. The pipeline appears as
`Ingest`: an event is stored once and then moves the row.

### Notifications

A new issue starts a run of `dispatchAlert` that has the row (`Detect`), a status
set through the API or the MCP server a run of `dispatchWebhookEvent` that reads it
(`ReadIssue`). Feedback sets a status too and starts no run (`Feedback`); `told` is the
last status that did.
`ReadConfigs` takes the snapshot of the configurations; `SendItself` and
`Enqueue` serve them one by one, `RunBreaks` is the one catch around the loop.
Jobs carry the configuration as it was; `Deliver`, `DeliveryFails`, `Settle` and
`WorkerDies` are the worker. Calls of `api/alerts.ts` are a look-up and then
`Put`, `DeleteLogs` and `DeleteConfig`, or `Test`.

### Casework

One user with one issue. `Ask`, `Reply` and `Write` are an investigation with the
wait in the middle; `AskLater`, `Work` and `Forget` the job of a fixed name;
`StartReview` and `GiveVerdict` the feedback; `Resolve` and `Store` the pipeline
on its way through the tables; `ReportAccess` and `StoreCheck` an access check.
`Erase`, `Delete` and `Commit` are the transaction, in PostgreSQL's READ COMMITTED:
later statements see what was committed in between, updates wait for rows that are
being deleted (`Free`), foreign keys refuse (`Referred`).

### CircuitBreaker, RateLimiter

The breaker is `execute` split at its await: `Start` or `StartHalfOpen`, later
`Succeed` or `Fail` in whatever state the breaker is in by then. Time and failures
are counted up to the thresholds that the code compares them with. `reset()` is
modelled as the class has it; no route calls it.

In `RateLimiter` a caller first reads a clock (`Ask`) and later meets the script
(`Grant`, `Refuse`), which fills the bucket to the time it is told (`Filled`);
`Wake` is the loop of `consume`, `FailOpen` the middleware without Redis,
`Expire` the time to live of the key.

### SlackBot, IssueList, IssueReports, Services

`SlackBot`: a turn is `Deliver`, `Load`, `CallClaude` (with its tool rounds), `Save`
and `Post`; `Command` and `Deliver` pass the limits, which count attempts: a delivery
and its time. `IssueList`: what SWR has in
its cache, the clicks (`PickFilter`, `GoTo`, `ToggleOne`, `ToggleAll`, `Clear`,
`BulkAction`), the requests of a bulk action, and `Fetch`. `IssueReports`:
`Incidents` is the grouping as an operator on the table; a report is made of
queries (`Ask`) that are steps of their own, and between any two of them issues are
detected, handled, or erased with their user (`Erase`). `Services` has these three, the limiter,
the resolver and the breaker side by side: they share no state, and their properties stand there
under names of their own.

### Onboarding, SetupWizard

`Onboarding` is the server: a request (`net`) is served in its round trips
(`SlugIsFree`, `InsertOrg`, `InsertKey`; `Validate`, `Upsert`; ...) and may fail or
lose its answer. `SetupWizard` extends it with the page: what the user does
(`Create`, `EnterKey`, `Pick`, `Connect`, `StartImport`, `Skip`, `Leave`, `LogIn`), what
comes back (`Created`, `ConnectAnswered`, `VerifyAnswered`, ...), and what the
page does by itself (`AutoAdvance`, `Poll`). The buttons of the first section wait
for the answer under way and the Enter key does not, so two sign-ins may overlap;
`Room` bounds how many requests of one sort are on their way (two, the second one
marked `twin`), and `switched` remembers that a late one has replaced the key behind
the first section.

`Accounts` has `Providers` and an instance of `SetupWizard` side by side, the two ends
of an organization's account: they share no state, but have their runs and proofs there.

## The runs

| Run | Instance | What it shows |
|---|---|---|
| `EntitlementEngine_race` | one row, three events of any of six types, three calls at once, any of them cut short | `HistoryIsFaithful`, `ConflictHasAWinner`; `ImplementsLedger`: the calls behave as single steps; `StateIsTheReplay`: in order, the row is the replay |
| `Ingestion_faults` | two deliveries (a webhook of two events and one of one), two runs, a throw, a death and a lost lock | `StatusIsTrue`, `ImplementsEngine` |
| `Ingestion_live` | one delivery, two runs, three throws, a death, a lost lock, an admin retry | `WebhooksGetThrough`: jobs end, what was acknowledged is stored and takes effect |
| `Ingestion_lost_transition` | one delivery, one death | violated: `ProcessedTookEffect` |
| `IssueDetection_race` | three events at two sources, two runs, four detectors, a closed issue, a fault | `OneOpenPerUser`, `CrossSourceIsFlagged` |
| `Backfill_race` | two requests, two events in pages of one, one accident of any kind | `OneRunAtATime`, `NothingIsSkipped`, `ActiveHasAccess`, `ProgressIsTrue` |
| `Accounts_setup` | two organizations, one perhaps set up before with Stripe, a web and an app store, one visit, one fault | `SetupIsSound`: one owner, and a source called ready is connected |
| `Notifications_mixed` | an issue that is detected and set twice, a channel of each kind, one edit and one fault | `NobodyIsSilenced`, `DeliveriesAreTrue`, `EventsArrive` |
| `Accounts_billing` | two subscriptions of one organization at any provider, or of two at Google; four changes, one failed call | `AccessFollowsPayment`, `CustomersAreApart`, `ImportIsComplete` |
| `Casework_erasure` | two investigations at a time, three requests, one query that throws, erasures | `DecisionsStand`, `AnswersAreCurrent`, `ErasedIsErased`, `ErasureEnds` |
| `Safeguards_live` | three scenes: six calls of a breaker with the thresholds of the code; a connection watched by three schedules; two events and scans of one user | `Recovers`; `OutageIsFlagged`; `UnrevokedIsFlagged`; `TypesOK` |
| `Services_safe` | six scenes: four calls of the resolver; two callers of a bucket; two turns of a thread; three issues in a list; four issues in reports; six calls of a breaker | `KnownIsFound`, `SameRow`; `LimiterKeepsItsWord`; `ConversationsHold`; `SelectionIsMeant`; `ReportIsSound`, `IncidentKeepsItsName`; `OpensOnStreak`, `CoolsDown`; `TypesOK` |

`MCSafeguards` and `MCServices` play one component per behaviour, chosen in the
initial state (`scene`), while the others stay as they began: the components
share no state, so the behaviours of a scene are those of the component.
`MCAccounts` has a specification for each of its two (`SetupSpec`, `BillingSpec`). In
`MCSafeguards` an action of one scene shares a fairness conjunct with an action of
another; only one of the two can ever be enabled, so each keeps the fairness of its
own module.

Several properties are conjunctions of named parts that one instance shows
together (`StatusIsTrue`, `WebhooksGetThrough`, `ProgressIsTrue`, `DeliveriesAreTrue`,
`AccessFollowsPayment`, `CustomersAreApart`, `DecisionsStand`, `LimiterKeepsItsWord`,
`ConversationsHold`, `SelectionIsMeant`, `SetupIsSound`); the parts stand above them
with a comment each. The module's `TypeOK` is a part of one of them or of `TypesOK`;
those of `EntitlementEngine` and `Backfill` are proved instead.

### Why the bounds are enough

- *Engine.* Three calls are what it takes for one to have its snapshot overtaken
  by two others (the ABA case: the state leaves the snapshot's value and comes
  back). The six event types reach active, expired, refunded and paused and
  include two that keep the state; the table as a whole is data, and the proofs
  cover all of it.
- *Ingestion.* A webhook of two events is the smallest that can fail half-way, and
  a run that dies with its successor on the other slot, or a job run twice, needs
  two slots. Three throws use up the three attempts; a lost lock and a death use up
  the one stall; the admin's retry comes after.
- *Detection.* Two runs race; three events make a duplicate, end it and start
  again. `MaxIssues` keeps aggregate detectors from filling the table: they
  stop looking, in the model, when there are that many issues. `Watched` names the
  detectors that have work in an instance; detectors look at different things and
  share only the issue table. In the race, events grow old and sources fall silent
  only before anything else (`Calm`); the two scans that look at it are in `Safeguards_live`.
- *Backfill.* Two requests race; pages of one make every event a page boundary,
  and an event may arrive before, between and after them.
- *Providers.* Four changes are a purchase, a failure or scheduled end, what
  follows it, and a refund or an import in between; two subscriptions show what is
  shared. What tells customers apart is proved for lives of any length; the access that
  follows payment is checked for these. A row of the table has no memory beyond its
  state, but a life has: with one subscription and six changes, an instance met the
  revocation while unpaid that `LapsedHaveNone` now grants (`odd`), and with two
  fetches failing the second user that `PayersHaveAccess` does (`lame`). The one
  failed call may be an item or a page of an import.
- *Notifications.* Three versions of an issue let two status calls overlap after
  the detection; one edit meets a run, a queued job or both; two attempts are one
  that fails and one more, which is what seven are.
- *Casework.* Two investigations cross each other and a person; three requests are
  an investigation, a verdict and something stored by others.
- *Breaker.* Six calls are one more than the threshold: five to open it, one that is
  late. Ticks beyond the timeout are not distinguished by the code.
- *Monitoring.* A warning and a critical tick, a baseline of two windows, and one
  fault; two organizations so that one can fail before the other. By hand somebody
  starts a scan of all detectors, which is the longest (`ByHand`).
- *Resolver.* Four events make two that see hints apart, one that sees them
  together, and one more that has to agree with it: the last repeats the hints of
  an earlier one. Calls begin in the order of their names, which loses nothing as
  their events are any. `MaxOverlaps` bounds how many begin while another is under
  way; the proofs have no such bound.
- *Limiter.* Two tokens, one per two ticks, clocks one tick apart: a request
  may come with an older time after a refill, which is the case the script has to
  get right. Five ticks let three intervals pass, enough for a bucket that is not
  capped to overflow.
- *Bot.* Three messages are two of one thread and one of another, or a message
  delivered twice next to a third; two turns overlap.
- *List.* Pages of one issue make any move of the list a move across pages; three
  clicks are a selection, a move and a bulk action.
- *Reports.* Four issues of two types; an incident is at least two, is shown to
  Claude from three (`AiSize`, five in the code), and Claude may say anything of
  `AiTitles`.
- *Setup.* Two organizations are what it takes to mix two keys up; one fault is one
  lost answer, failed query or refused credential. Two requests of one sort are what
  it takes for a late sign-in to replace the key of an earlier one; the proof has no
  bound on visits and faults, and the same bound on requests (`Room`).

### Fairness

Safety properties use none. For liveness: a request, a run or a call that is
alive makes its next step (weak fairness: an await on a query or an HTTP call
returns or throws); workers take waiting jobs, the stalled check and the failed
handler run (loops of a live BullMQ worker); schedules that are registered fire
again and again, and find the worker (strong fairness per schedule: a cron entry
is repeated for ever and its worker is free between two scans, not always); keys
with a time to live expire; time passes; a person whose erasure failed asks again.
Providers, people and faults owe nothing else, and nobody has to restart a server
whose scheduler failed to start. Where a property holds only up to a number of
accidents, it says so itself: `AckedIsStored` speaks of behaviours in which the
database and Redis answer and at most one other kind of accident happens, because
`maxStalledCount` is 1; `AckedTakesEffect` of those without a death;
`EventsArrive` of jobs that have neither used up their attempts nor stalled twice.

## What the violated run shows

**A transition can be lost** (`Ingestion_lost_transition`, `ingestion/pipeline.ts:264`).
The event is stored before the entitlement is moved. After a death between the
two, the retry takes the event for a duplicate, skips engine and detectors, and
the row says `processed`, which the dashboard counts as "Successfully
processed".

## What else came up while modelling

No run refutes these; each is in the model as the code has it, and the property
nearest to it says where it stops.

*Pipeline and engine.* Aggregate issues are opened again by every scan: neither the
lookup nor the unique index applies to an issue without user
(`detection/engine.ts:120`, `src/migrations/0000_initial.sql:326`). Two first events of
a user may each create one, and the second is given a user that owns none of its
hints (`identity/resolver.ts:108`). A backfill can give an ended subscription its
access back: the listing is newest first, the deletion finds an inactive row, and
then the payment before it counts as a renewal (`stripe-backfill.ts:413`). A history
entry can be lost when two calls whose transitions keep the state both pass the
guard. A webhook whose log insert or enqueue failed is answered 200 and lost. The
catch of the pipeline marks a failed webhook and lets its job complete, so most
failures never reach the failed set that `queue/dlq.ts:11-12` describes. Recurly's
import reports "completed" also when items failed: an error of an item is only counted
(`recurly-backfill.ts:361`), and what the pipeline throws it only logs
(`ingestion/pipeline.ts:209`). A notification of Apple with a subtype that is not in the
map, of a type that is there without one, finds the fallback and does not use it, so
that its processing throws (`ingestion/providers/apple.ts:195-204`, `222`).

*Detection and scans.* `verified_access_no_payment` believes any report that says
access, whatever the later ones say. `unrevoked_refund` looks a row up without
source and with `LIMIT 1`, and flags a refund that was followed by a new purchase.
The renewal baseline includes the recent window it is compared with. When
registering the schedules fails at start-up there are no scans until the next
restart. `acknowledge`, `resolve` and `dismiss` do not look at the status.

*Notifications.* The Slack sender's "max 1 message per second"
(`alerts/slack.ts:8`) reads the time of the last message before it sleeps, so
runs that overlap wake together. An enqueue that throws leaves the configurations
after it silent. Every attempt of a delivery has an id of its own, so a receiver
cannot tell a repetition. Feedback resolves or dismisses an issue and dispatches nothing
(`agents/learner.ts:76`), so receivers go on believing the status they were told last.
Deleting a configuration fails when a delivery is logged
between its two statements (`api/alerts.ts:339`).

*Setup.* The page reads `data.status` of a progress that the API answers per
source (`api/onboarding.ts:1165`, `Onboarding.tsx:1286`), so the import section is
left by skipping it. Enter in either form of the first section signs in while a sign-in
is under way, which the disabled buttons rule out (`Onboarding.tsx:439`, `:466`); the
later answer replaces the key, also under a source that is already called ready.
Connecting Stripe again clears the webhook secret
(`api/onboarding.ts:248`). The Apple proxy reads `originalNotificationUrl` off the
stored credentials without `readCredentials` (`ingestion/proxy/apple-proxy.ts:82`):
with encryption switched on it finds none and forwards nothing. A second backfill
request that passes the check is answered "started" and fails at the lock, where
`src/docs/api/setup.md:452` promises a 409.

*Issue list.* The page sends `issueType` (`Issues.tsx:101`), the API reads `type`
(`api/issues.ts:36`). After a bulk action the page number stays, and may be
beyond the end. A request of a failed bulk action that is still under way can
override a later choice.

*Assistant and Slack.* An issue with a logged alert cannot be erased, nor can its user,
after the audit log has said it was (`api/data-management.ts:48`). A failed
investigation job stays in the queue under its id, and no other is added
(`config/queue.ts:66`). The numbers of a report come from separate queries, so shares
can exceed 100 %. An incident takes another id when an older issue is taken up again.
`learner.ts` speaks of a prior of 0.5 and uses 0.7, `grouper.ts` of two hours and
defaults to four. A mention that Slack delivers twice is answered twice. A caller whose
clock is behind the last refill of a bucket is told to wait too short a time
(`queue/rate-limiter.ts:79-84`). `consume()` with Apple's limits would wait 60 s and
gives up after 30 s; it is not called. The retention job reads `rowCount`, which the
postgres driver used here does not set, so a run clears one batch of payloads.

## What is proved

Each theorem holds for every value of the constants that satisfies the module's
named assumption, with no bound on how many calls race, how often people interfere
or what fails. The assumptions say that marker values (`NoEvent`, `NoRun`, `Never`,
`NoProduct`, `NoLog`, `NoSlot`, `NoBody`, `None`, `Empty`) are not members of the sets
beside them, that numbers are naturals and thresholds, intervals and page sizes
positive, that a conversation is cut to an even number of messages (10 in the code),
that a source is one of the four and no subscription is called like the app,
that a `PUT` names fields of a configuration with values the schema admits,
that what makes an entitlement (`Entitled`) has a user and a product
(`Identified`), that the timeline a replay follows names no event twice, and that
no issue is about a negative amount (the code stores whatever total a provider
states). One theorem has a hypothesis of its own:
`ContradictionsAreFlagged` needs both comparing detectors among those that have work
(`Watched`), as they are in the registry.

| Module | Theorems | Along which argument |
|---|---|---|
| `EntitlementEngine_proofs` | `InductiveInvariant`, `TypeCorrect`, `HistoryPath`, `FaithfulHistory`, `ConflictWinner`, `RowsMoveByTable`, `EngineImplementsLedger`, `RowsAreTheReplay` | The update compares only the state, so a history written back may be older than the one it replaces. Inductive is therefore a statement about snapshots (`SnapshotsAgree`): each is itself a faithful path of its row, and if the row left its state, another event was applied. With `SlotsAgree` (a slot works on an event of its own) every conjunct is preserved step by step. The refinement maps the guarded update to `Apply`, the rejected select to `Reject`, a conflict or an abort to `Abandon`, all else to stuttering. Replay (`CalmlyReplayed`): while it is calm, the events up to a place of the timeline are settled and only the next may be under way, so its snapshot is fresh; and whatever function fits the recursion of the replay so far ends in the state of the row. A call that returns takes that one place further, which stands in for an induction over the timeline. |
| `Ingestion_proofs` | `InductiveInvariant`, `StatusTrue`, `EngineIsCalledOnce`, `HistoriesOfTheIntake`, `IntakeImplementsLedger` | `RunAgrees`: what a run has gone through without an error is stored; `LogAgrees` carries that to the log row when the run writes its status. `EngineAgrees`: an event in a slot of the engine, or that has left one, has its key stored. So an insert that goes in hands the engine an event it has never seen, which is the guard of `Begin`: `ImplementsEngine`. The last two instantiate `EntitlementEngine_proofs` for the composition: histories are faithful, and the whole intake, with redeliveries, stalls and retries, implements the ledger. |
| `IssueDetection_proofs` | `DetectionInvariant`, `OneOpenIssuePerUser`, `ContradictionsAreFlagged` | One open issue: nothing but the table is used, the index lets a row in only when no open one has its type, and no status change reopens one; the lookup of the code plays no part. Nothing slips through: a contradiction that nobody was told of has a run that is going to look at it or already carries what it found (`NothingSlips`), because an event moves its row and starts its run in one go, and the run of the event that was settled last reads what all others left. |
| `Services_proofs` | `ResolverInvariant`, `ResolverTypes`, `ResolvedHintsAreOwned`, `KnownUsersAreFound`, `SameHintsSameRow`; `LimiterInvariant`, `LimiterHolds`; `SelectionHolds`; `BotInvariant`, `BotHolds`; `ReportsInvariant`, `ReportHolds`, `IncidentsKeepTheirNames`; `BreakerInvariant`, `BreakerTypes`, `OpenBreakerHasAClock`, `BreakerOpensOnStreak`, `BreakerCoolsDown` | Resolver: `LookupsAgree`, the users a call matched own hints of its event and every known hint it has looked up is among them; `LinksAgree`, the hints it has dealt with have owners; both survive other calls because `Link` leaves an identity that has an owner alone. `SameRow` adds that with calls in turn, the user of a call that is done is the oldest owner of its hints, and stays so. Limiter: what was given out plus what is left never exceeds the full bucket plus what its whole refill intervals brought (`SpentIsCovered`), although clocks differ and requests arrive with older times; the tokens a refused caller needs come with the intervals it is told to wait, counted from when it asked or from the last refill, if a faster clock made that later. List: what is on the page was seen under the filters that are set, the selection and in it what failed are part of that, and a bulk action begins with nothing that failed. Slack bot: a thread that nothing disturbed has at most one turn behind its look-up, and that turn holds the last exchanges people saw and its own message (`ThreadAgrees`); trimming what was trimmed before and one exchange more is trimming the whole thread (`OneExchangeMore`); whatever disturbs a thread, Redis keeps whole exchanges (`StoredInPairs`), so that the next turn begins with a person; and the attempts of the window that passed are among those counted. Reports: until the critical issues are counted they are no fewer than the spike needs, or an erasure has made an end of the spike; the period before is over and only loses issues to erasures; so the answers bear out what there was (`CountsHold`). An insight of Claude hides only one of the same title. Incidents: nothing was detected later than now (`DetectedByNow`), so a new issue begins a cluster only when no older one is within the window before it, and takes none of them out of theirs (`ClustersGrow`); and since what issues come to does not depend on the order they are summed in (`CentsOfOne`), an issue more makes none less severe (`SeverityGrows`). Breaker: while closed, `failureCount` is the real streak; while open, the clock is no older than the opening, though late failures restart it. |
| `Notifications_proofs` | `NotificationsInvariant`, `EveryChannelIsTried`, `WhatIsSentHolds` | For every run, what the event called for when the run read the configurations is served already or still in its snapshot; every copy of a configuration, in a snapshot or in a job, carries the secret agreed on for as long as the row does; and the last status that started a run, or a later one, is in a job or in a run that carries it or has yet to read it (`LastWordComes`). |
| `Casework_proofs` | `CaseworkInvariant`, `PeopleDecide`, `AnswersCurrent`, `NothingComesBack` | `CallsAgree`: unless a person crossed it, which both properties grant, an investigation has read the verdict and the status the issue has; `TimesAgree`: what is stamped lies in the past, so a change after an answer makes the answer older than `updatedAt`. `ErasureAgrees`: a transaction deletes no more than there is, and an alert refers to an issue that the transaction has not deleted; so the commit leaves the tables of the user empty, and without the user (`Gone`, `Untouched`) every insert is refused by a foreign key. |
| `Accounts_proofs` | `ProvidersInvariant`, `CustomersApart`, `ImportBringsAll`, `AccessFollows`; `SetupInvariant`, `SetupHolds` | Billing: what waits for a subscription is about it and about a purchase it made (`WiresAgree`), a row of `user_identities` is of the subscription it names (`RowsAgree`), an id has one user and a user one customer (`UsersAgree`). That a customer is one user rests on the order of the wires: when a notification comes to its turn, the purchase before the one it names is known already or named by one ahead of it (`PurchasesAreMet`), unless details were missing (`lame`), so no purchase is ever met as a stranger. An import's subscriptions have a user, are lost to an item that failed, are at hand or are not yet listed (`ImportsAgree`). While webhooks of one organization only are under way, credentials and token are its own (`CredentialsAgree`). Access (`AccessAgrees`): what waits for a subscription leads from the state its user has (`Has`) to one that is owed for what the subscription is (`Due`). `Leads` says so without a fold: there is a set of states before and behind every notification of the wire, each closed under what the next one does, so serving the first drops a set and a change appends one. Google's imports put purchases ahead of the wire, so its sets are closed under a purchase for as long as an event is to come. What each provider sends at each change is gone through one by one against the table (`Table`). The theorem makes the exceptions of the property and no other. Setup: at the server, one creation at most has inserted an organization and not yet its key (`OneCreation`). At the first section nothing is connected yet; beyond it, a request that connects or verifies is for the key the page holds, unless an answer to a sign-in has replaced that one since (`Belongs`, `switched`), and however many sign-ins overlap, only such an answer does; a request past its insert has its connection (`RequestIsSound`), and connections stay. So an answer that makes a source ready finds it connected (`ConnectingFollows`). |
| `Backfill_proofs` | `BackfillInvariant`, `BackfillTypes`, `RunsExcludeEachOther`, `PagingIsComplete`, `BusyMeansARun`, `ImportKeepsAccess` | `LockIsHeld`: an importing run owns the lock unless Redis failed or a run died or outlived it; `NothingIsLost`: whatever lies between the cursor and the newest event there was at the first page is stored or still in the page; `BusyIsBacked`: a busy progress belongs to a run that has yet to write another; `AccessIsKept`: a subscription that nothing ended moves between three states, and the event an import makes up takes it out of the only one without access, to which no event leads back. |

`HistoryIsAPath`, `MovesByTable`, `HintsAreOwned` and `OpenHasAClock` are proved and
not part of a run: what the runs check is stronger or rests on them. `BusyHasARun` is
the safety half of `ProgressIsTrue`, which a run checks.

Checked by TLC only:

* Liveness (`WebhooksGetThrough`, `UnrevokedIsFlagged`, `OutageIsFlagged`,
  `Recovers`, `EventsArrive`, `ErasureEnds`, `BusyEnds`), which needs ENABLED.
* `TypesOK` of the composed instances. The types of the resolver, the limiter, the
  bot, the reports, the breaker and the scans are part of the inductive invariants
  proved above. What is left is the issue list, whose pages come from the
  library's sort, of which the library proves nothing, and `Monitoring`, the one
  component without a module of proofs: what its run is about is liveness.

## What the models leave out, and known limits

* Overlapping calls create a product twice, there being no unique key; `SameRow` is
  therefore stated for behaviours without overlap.
* `UnrevokedIsFlagged` has one source. With two, the detector may ask the row of
  another source (`SomeRow`). The 30-day window of the scan is not modelled.
* Late successes of calls made before a breaker opened count towards closing
  it, as in the code; `src/SECURITY.md:162` speaks of calls in half-open.
* The reads of one detector are a single step. Six detector files that no engine
  registers are not modelled.
* Backfill: an error outside the inner try, or in the catch itself, leaves a
  progress that turns requests away until it expires after a day (`BusyHasARun`
  excludes that case, `BusyEnds` includes it). A listing that is stale when its
  event is made up can revive an expired row; `ActiveHasAccess` covers the opposite
  direction. A past-due subscription is imported as ended. Errors of single items
  are swallowed and counted as imported. Charges are not modelled.
* Providers: amounts, plan names and the times of events are left out, and with them the
  idempotency keys that Ingestion has. The exceptions the properties make are named in
  them: Recurly's events find no product, the bundle id merges Apple's customers,
  webhooks of two organizations that overlap share Google's credentials and token, an
  item that fails is missing from an import that says completed, an import from Google
  is a purchase whatever its state, a revocation while unpaid has no entry in the table,
  and a customer who is two users after failed fetches may pay and have access as
  neither.
* Casework: one user and one issue. Whatever a person changes while the model is asked
  (10 to 30 seconds), and not only in the millisecond of the answer, makes the answer
  stale at once: `AnswersAreCurrent` grants it (`crossed`) and speaks of later changes.
  Feedback given in that time is overwritten with the older evidence, which
  `FeedbackIsKept` grants. A user with a logged alert cannot be erased, though
  `src/SECURITY.md:148` promises it: `ErasureEnds` leaves out such a user.
* Notifications: a status that feedback set is told to nobody; `LastWordIsSent` is about
  the statuses that were set through the API or the MCP server.
* Setup: `ReadyIsConnected` grants the case in which the answer to a sign-in replaces
  the key behind the first section (`switched`), because it overlapped `autoAdvance` or,
  by the Enter key, another sign-in; it asks then that some other organization has the
  source. No more than two requests of one sort are on their way at a time.
* Engine: only events that arrive in order are compared with the replay. Out of order the
  row may be in a state of its own, of which no property speaks.
* Limiter: a caller with a clock behind the last refill waits too short a time, by the
  difference; `RetryAfterIsEnough` counts its wait from the refill.
* Slack bot: turns that overlap lose one of the exchanges, which
  `ConversationsHold` grants (`disturbed`).
* Reports: the rule on failed events and everything that is read from billing events
  is left out. What Claude says of a decrease is its own; `ReportIsSound` speaks of the
  rules' decrease, and of a spike unless an erasure ended it before it was counted. That
  shares of separate queries add up is not stated. An incident whose first issue is
  closed, erased or too old, or that an older issue rejoins, changes its id, which
  `IncidentKeepsItsName` grants.

## Not modelled

* `ingestion/proxy/apple-proxy.ts`: one HTTP call that nobody waits for, with a
  log row of its own.
* `middleware/auth.ts`, scopes: a look-up per request. The key check of the setup
  routes is in `Onboarding`.
* Encryption, sanitizing, audit log: functions of one payload; entries that are
  written and forgotten.
* Read APIs, the tools of the MCP server that read, the pages that show one query: no
  state. The tool that sets a status (`mcp/tools.ts:341`) does what the issue API does,
  dispatch included, and is `SetStatus` in `Notifications`.
* The pages for team and API keys: mock-ups whose state never leaves the browser.
* `queue/retention-worker.ts`: it deletes what nothing in the models reads any more.
* Start-up and shutdown (`index.ts`): deaths and restarts of requests and runs are in
  the models, the order of the calls is linear.

## Plan

Done: entitlement engine with its ledger (everything else rests on it), ingestion
composed with the engine, detection over the ledger, resolver, breaker, backfill with
proofs; then providers with their normalizers, notifications, casework, monitoring,
setup with its page, rate limiter, Slack bot, issue list and reports.

Proofs, done: ingestion with its engine, notifications, casework, detection, backfill,
the limiter, the issue list, the Slack bot, the reports, the breaker, the setup and the
providers, with the access.
