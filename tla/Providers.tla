----------------------------- MODULE Providers -----------------------------
(***************************************************************************)
(* Subscriptions at Stripe, Apple, Google and Recurly, the notifications   *)
(* their providers send, and the access the entitlement table gives the    *)
(* user the pipeline finds for them (ingestion/providers/, ingestion/      *)
(* pipeline.ts, identity/resolver.ts), together with the imports of        *)
(* purchases from Google and of subscriptions from Recurly (ingestion/     *)
(* backfill/).                                                             *)
(*                                                                         *)
(* The notifications of a subscription are processed one after the other,  *)
(* each once: what retries, duplicates and overlaps do is the subject of   *)
(* Ingestion.  Those of two subscriptions interleave.  All Google webhooks *)
(* share one normalizer, with the credentials and the access token in it.  *)
(***************************************************************************)
EXTENDS Normalizers, EntitlementTable, FiniteSets

CONSTANTS
  Subs,       \* subscriptions, a customer each
  Worlds,     \* what a subscription may be of: an organization and a source
  None,       \* no organization
  MaxUsers,   \* bound: users
  MaxChanges, \* bound: changes of subscriptions, refunds and imports
  MaxFaults   \* bound: calls to a provider that fail, and items an import fails to process

ASSUME ProvidersAssumption ==
  /\ \A w \in Worlds : w \in [Subs -> [org : {w[s].org : s \in Subs} \ {None},
                                     source : {"stripe", "apple", "google", "recurly"}]]
  /\ "app" \notin Subs /\ None \notin Subs
  /\ {MaxUsers, MaxChanges, MaxFaults} \subseteq Nat

VARIABLES
  world,    \* world[s]: organization and source of subscription s
  sub,      \* sub[s]: the subscription as its provider has it
  voided,   \* subscriptions and tokens of the purchases Google has voided
  wire,     \* wire[s]: notifications to be processed, oldest first
  owner,    \* rows of user_identities: organization, source, id and user
  ent,      \* ent[u]: state of the entitlement row of user u
  client,   \* the Google normalizer: whose credentials, whose token
  proc,     \* proc[s]: where the webhook of s is, and the key or token it took
  runs,     \* runs[w]: the import of an organization's source: where it is, what
            \* it has to do, has seen and has lost, the webhook it waits for
  changes,  \* changes that may still happen
  faults,   \* faults that may still happen
  lame,     \* subscriptions with a notification that names no purchase known
  odd,      \* subscriptions brought back by an import, or revoked while unpaid
  overlap   \* were Google webhooks of two organizations ever under way at once?

vars == <<world, sub, voided, wire, owner, ent, client, proc, runs, changes, faults, lame, odd,
          overlap>>
webhooks == <<client, proc, lame, overlap>>
google == <<webhooks, runs, faults>>

Users == 1..MaxUsers
Statuses == {"none", "trialing", "active", "grace", "past_due", "paused", "ended"}
Sub == [status : Statuses, cancel : BOOLEAN, price : {1, 2}, token : Nat]
Owners == {None} \cup {world[s].org : s \in Subs}
Purchases == Subs \X Nat
Run(w) ==
  [at : {"none", "pages", "tokens", "voided", "completed", "failed"}, more : BOOLEAN,
   todo : SUBSET (IF w.source = "recurly" THEN Subs \X {"active", "expired"} ELSE Purchases),
   seen : SUBSET (IF w.source = "recurly" THEN Subs ELSE Purchases),
   waits : Subs \cup {None}, all : SUBSET Subs, lost : SUBSET Subs]
NoRun == [at |-> "none", more |-> FALSE, todo |-> {}, seen |-> {}, waits |-> None, all |-> {},
          lost |-> {}]

Typed ==
  /\ world \in Worlds
  /\ sub \in [Subs -> Sub]
  /\ voided \subseteq Purchases
  /\ \A row \in owner : row.user \in Users
  /\ client \in [creds : Owners, token : Owners]
  /\ proc \in [Subs -> [at : {"idle", "token", "sign", "exchange", "fetch"}, held : Owners]]
  /\ DOMAIN runs = {world[s] : s \in Subs} /\ \A w \in DOMAIN runs : runs[w] \in Run(w)
  /\ lame \subseteq Subs

TypeOK ==
  /\ Typed /\ ent \in [Users -> States]
  /\ changes \in 0..MaxChanges /\ faults \in 0..MaxFaults
  /\ odd \subseteq Subs /\ overlap \in BOOLEAN

Idle == [at |-> "idle", held |-> None]

Init ==
  /\ world \in Worlds
  /\ sub = [s \in Subs |-> [status |-> "none", cancel |-> FALSE, price |-> 1, token |-> 0]]
  /\ wire = [s \in Subs |-> <<>>]
  /\ owner = {} /\ ent = [u \in Users |-> "inactive"]
  /\ voided = {}
  /\ runs = [w \in {world[s] : s \in Subs} |-> NoRun]
  /\ client = [creds |-> None, token |-> None] /\ proc = [s \in Subs |-> Idle]
  /\ changes = MaxChanges /\ faults = MaxFaults
  /\ lame = {} /\ odd = {} /\ overlap = FALSE
-----------------------------------------------------------------------------
(***************************************************************************)
(* The providers, as the tables of the normalizers understand them.        *)
(***************************************************************************)
Live == {"trialing", "active", "grace", "past_due"}

\* What may happen to a subscription: from, change, to.
Life ==
  UNION {
    {<<"none", "Buy", "active">>, <<"none", "Try", "trialing">>, <<"ended", "Buy", "active">>},
    {<<"trialing", "Convert", "active">>, <<"active", "Renew", "active">>},
    {<<"active", "Fail", "past_due">>, <<"active", "FailWithGrace", "grace">>},
    {<<"grace", "GraceEnds", "past_due">>},
    {"grace", "past_due"} \X {"Recover"} \X {"active"},
    {<<"active", "Pause", "paused">>, <<"paused", "Resume", "active">>},
    {<<s, "TurnOff", s>> : s \in {"trialing", "active"}},
    {<<s, "TurnOn", s>> : s \in {"trialing", "active"}},
    {<<"active", "ChangePlan", "active">>},
    (Live \cup {"paused"}) \X {"End"} \X {"ended"},
    {"active", "past_due"} \X {"Revoke"} \X {"ended"} }

StripeUpdated(s, old, new, changed) ==
  [of |-> s, type |-> "customer.subscription.updated", object |-> "subscription", now |-> new,
   prev |-> [a \in changed |-> old[a]]]
StripeSends(s, change, old, new) ==
  LET of(object, type) == [of |-> s, type |-> type, object |-> object]
      paid == of("invoice", "invoice.payment_succeeded")
      updated(changed) == StripeUpdated(s, old, new, changed) IN
  CASE change = "Buy"     -> <<of("session", "checkout.session.completed"),
                               of("subscription", "customer.subscription.created"), paid>>
    [] change = "Try"     -> <<of("subscription", "customer.subscription.created")>>
    [] change = "Convert" -> <<updated({"status"}), paid>>
    [] change = "Renew"   -> <<paid>>
    [] change = "Fail"    -> <<of("invoice", "invoice.payment_failed"), updated({"status"})>>
    [] change = "Recover" -> <<paid, updated({"status"})>>
    [] change \in {"TurnOff", "TurnOn"} -> <<updated({"cancel"})>>
    [] change = "ChangePlan" -> <<updated({"price"})>>
    [] change = "Pause"   -> <<of("subscription", "customer.subscription.paused")>>
    [] change = "Resume"  -> <<of("subscription", "customer.subscription.resumed")>>
    [] change = "End"     -> <<of("subscription", "customer.subscription.deleted")>>
    [] OTHER              -> <<>>

AppleSends(s, change, old) ==
  LET of(type, subtype) == <<[of |-> s, type |-> <<type, subtype>>]>> IN
  CASE change = "Buy" /\ old.status = "none" -> of("SUBSCRIBED", "INITIAL_BUY")
    [] change = "Buy" /\ old.status # "none" -> of("SUBSCRIBED", "RESUBSCRIBE")
    [] change = "Try"       -> of("OFFER_REDEEMED", "INITIAL_BUY")
    [] change \in {"Renew", "Convert"} -> of("DID_RENEW", "")
    [] change = "Fail"      -> of("DID_FAIL_TO_RENEW", "")
    [] change = "FailWithGrace" -> of("DID_FAIL_TO_RENEW", "GRACE_PERIOD")
    [] change = "GraceEnds" -> of("GRACE_PERIOD_EXPIRED", "")
    [] change = "Recover"   -> of("DID_RENEW", "BILLING_RECOVERY")
    [] change = "TurnOff"   -> of("DID_CHANGE_RENEWAL_STATUS", "AUTO_RENEW_DISABLED")
    [] change = "TurnOn"    -> of("DID_CHANGE_RENEWAL_STATUS", "AUTO_RENEW_ENABLED")
    [] change = "ChangePlan" -> of("PRICE_INCREASE", "ACCEPTED")
    [] change = "End"       -> of("EXPIRED", "VOLUNTARY")
    [] change = "Revoke"    -> of("REVOKE", "")
    [] OTHER                -> <<>>

GoogleTypes ==
  [Buy |-> "PURCHASED", Try |-> "PURCHASED", Renew |-> "RENEWED", Convert |-> "RENEWED",
   Fail |-> "ON_HOLD", FailWithGrace |-> "IN_GRACE_PERIOD", GraceEnds |-> "ON_HOLD",
   Recover |-> "RECOVERED", TurnOff |-> "CANCELED", TurnOn |-> "RESTARTED",
   ChangePlan |-> "PRICE_CHANGE_CONFIRMED", Pause |-> "PAUSED", Resume |-> "RESTARTED",
   End |-> "EXPIRED", Revoke |-> "REVOKED"]
GoogleSubscription(s, type, token) ==
  [of |-> s, kind |-> "subscription", type |-> type, token |-> token]
GoogleVoided(s, token) == [of |-> s, kind |-> "voided", type |-> "FULL_REFUND", token |-> token]
GoogleSends(s, change, new) == <<GoogleSubscription(s, GoogleTypes[change], new.token)>>

\* Recurly: the payment of a renewal is a notification of its own.
RecurlySends(s, change, old, new) ==
  LET of(type) == [of |-> s, type |-> type]
      paid == of("successful_payment_notification") IN
  CASE change \in {"Buy", "Try"} -> <<of("new_subscription_notification"), paid>>
    [] change \in {"Renew", "Convert", "Recover"} -> <<of("renewed_subscription_notification"), paid>>
    [] change = "Fail"   -> <<of("failed_payment_notification"), of("past_due_invoice_notification"),
                              of("new_dunning_event_notification")>>
    [] change = "TurnOff" -> <<of("canceled_subscription_notification")>>
    [] change = "TurnOn" -> <<of("reactivated_account_notification")>>
    [] change = "ChangePlan" -> <<[of |-> s, type |-> "updated_subscription_notification",
                                   prev |-> [plan |-> old.price, price |-> old.price],
                                   now |-> [plan |-> new.price, price |-> new.price]]>>
    [] change = "Pause"  -> <<of("paused_subscription_notification")>>
    [] change = "Resume" -> <<of("resumed_subscription_notification")>>
    [] change = "End"    -> <<of("expired_subscription_notification")>>
    [] OTHER             -> <<>>

Sends(s, change, old, new) ==
  CASE world[s].source = "stripe"  -> StripeSends(s, change, old, new)
    [] world[s].source = "apple"   -> AppleSends(s, change, old)
    [] world[s].source = "google"  -> GoogleSends(s, change, new)
    [] world[s].source = "recurly" -> RecurlySends(s, change, old, new)

\* A refund leaves the subscription as it is, except at Apple, where it is over.
Refunds(s) ==
  CASE world[s].source = "stripe"  -> <<[of |-> s, type |-> "charge.refunded", object |-> "charge"]>>
    [] world[s].source = "apple"   -> <<[of |-> s, type |-> <<"REFUND", "">>]>>
    [] world[s].source = "google"  -> <<GoogleVoided(s, sub[s].token)>>
    [] world[s].source = "recurly" -> <<[of |-> s, type |-> "successful_refund_notification"]>>

\* A purchase at Google has a token of its own.
Change(s, change, status) ==
  LET old == sub[s]
      new == [old EXCEPT !.status = status, !.cancel = change = "TurnOff" \/ (@ /\ change # "TurnOn" /\ status \in Live),
                         !.price = IF change = "ChangePlan" THEN 3 - @ ELSE @,
                         !.token = IF change \in {"Buy", "Try"} THEN @ + 1 ELSE @]
  IN
  /\ changes > 0 /\ <<old.status, change, status>> \in Life
  /\ change \in {"TurnOff", "TurnOn"} => new.cancel # old.cancel
  /\ Sends(s, change, old, new) # <<>>
  /\ changes' = changes - 1
  /\ sub' = [sub EXCEPT ![s] = new]
  /\ wire' = [wire EXCEPT ![s] = @ \o Sends(s, change, old, new)]
  /\ odd' = IF change = "Revoke" /\ old.status # "active" THEN odd \cup {s} ELSE odd
  /\ UNCHANGED <<world, voided, owner, ent, google>>

Refund(s) ==
  /\ changes > 0 /\ sub[s].status \in {"active", "past_due", "grace"}
  /\ changes' = changes - 1
  /\ wire' = [wire EXCEPT ![s] = @ \o Refunds(s)]
  /\ sub' = IF world[s].source = "apple" THEN [sub EXCEPT ![s].status = "ended"] ELSE sub
  /\ voided' = IF world[s].source = "google" THEN voided \cup {<<s, sub[s].token>>} ELSE voided
  /\ UNCHANGED <<world, owner, ent, google, odd>>
-----------------------------------------------------------------------------
(***************************************************************************)
(* The pipeline.                                                           *)
(***************************************************************************)
Normalize(s, n) ==
  CASE world[s].source = "stripe"  -> StripeNormalize(n)
    [] world[s].source = "apple"   -> AppleNormalize(n)
    [] world[s].source = "google"  -> GoogleNormalize(n)
    [] world[s].source = "recurly" -> RecurlyNormalize(n)
HasProduct(s, n) ==
  CASE world[s].source = "stripe"  -> StripeHasProduct(n)
    [] world[s].source = "apple"   -> AppleHasProduct(n)
    [] world[s].source = "google"  -> GoogleHasProduct(n)
    [] world[s].source = "recurly" -> RecurlyHasProduct(n)
Hints(s, n, enriched) ==
  CASE world[s].source = "stripe"  -> StripeHints(n)
    [] world[s].source = "apple"   -> AppleHints(n)
    [] world[s].source = "google"  -> GoogleHints(n, enriched)
    [] world[s].source = "recurly" -> RecurlyHints(n)

\* resolve: the oldest user one of the ids belongs to, or a new one, who gets
\* the ids that are still free.
Matched(s, hints) ==
  {row.user : row \in {row \in owner : row.org = world[s].org /\ row.source = world[s].source
                                       /\ row.id \in hints}}
Candidates(s, hints) ==
  IF Matched(s, hints) # {} THEN Matched(s, hints) ELSE Users \ {row.user : row \in owner}
Resolves(s, hints, user) ==
  user \in Candidates(s, hints) /\ \A u \in Candidates(s, hints) : user <= u
Linked(s, hints, user) ==
  owner \cup [org : {world[s].org}, source : {world[s].source},
              id : {id \in hints : Matched(s, {id}) = {}}, user : {user}]

Move(state, type) == IF HasTransition(state, type) THEN NextState(state, type) ELSE state
Moves(state, types) ==
  LET after[k \in 0..Len(types)] == IF k = 0 THEN state ELSE Move(after[k - 1], types[k])
  IN after[Len(types)]

\* processNormalizedEvent for the events of notification n.
Process(s, n, enriched) ==
  LET types == Normalize(s, n)
      hints == Hints(s, n, enriched) IN
  \/ types = <<>> /\ UNCHANGED <<owner, ent>>
  \/ /\ types # <<>>
     /\ \E user \in Users :
          /\ Resolves(s, hints, user)
          /\ owner' = Linked(s, hints, user)
          /\ ent' = IF HasProduct(s, n) THEN [ent EXCEPT ![user] = Moves(@, types)] ELSE ent

Webhook(s) ==
  /\ world[s].source # "google" /\ wire[s] # <<>>
  /\ Process(s, Head(wire[s]), TRUE)
  /\ wire' = [wire EXCEPT ![s] = Tail(@)]
  /\ UNCHANGED <<world, sub, voided, changes, google, odd>>
-----------------------------------------------------------------------------
(***************************************************************************)
(* A webhook of Google's: the details of the subscription are fetched with *)
(* a token, which costs a call of its own.  What is read after a call may  *)
(* be what another webhook left there.                                     *)
(***************************************************************************)
At(s, at, held) == proc' = [proc EXCEPT ![s] = [at |-> at, held |-> held]]
Underway(s) == world[s].source = "google" /\ proc[s].at # "idle"

\* Mutant: a token that is there is kept.
SetCredentials_KeepsToken(s) ==
  /\ world[s].source = "google" /\ wire[s] # <<>> /\ proc[s].at = "idle"
  /\ client' = [client EXCEPT !.creds = world[s].org]
  /\ At(s, "token", None)
  /\ overlap' = (overlap \/ \E t \in Subs : Underway(t) /\ world[t].org # world[s].org)
  /\ UNCHANGED <<world, sub, voided, wire, owner, ent, runs, changes, faults, lame, odd>>

SetCredentials(s) ==
  /\ world[s].source = "google" /\ wire[s] # <<>> /\ proc[s].at = "idle"
  /\ client' = [creds |-> world[s].org, token |-> None]
  /\ At(s, "token", None)
  /\ overlap' = (overlap \/ \E t \in Subs : Underway(t) /\ world[t].org # world[s].org)
  /\ UNCHANGED <<world, sub, voided, wire, owner, ent, runs, changes, faults, lame, odd>>

\* getAccessToken: the token in the normalizer, or the key of whose credentials
\* are there now ...
Token(s) ==
  /\ proc[s].at = "token" /\ Head(wire[s]).kind = "subscription"
  /\ IF client.token # None THEN At(s, "fetch", client.token) ELSE At(s, "sign", client.creds)
  /\ UNCHANGED <<world, sub, voided, wire, owner, ent, client, runs, changes, faults, lame, odd, overlap>>

\* ... which signs for the account whose credentials are there once it is
\* imported; Google refuses the one with the name of the other.
Sign(s) ==
  /\ proc[s].at = "sign"
  /\ At(s, "exchange", IF client.creds = proc[s].held THEN proc[s].held ELSE None)
  /\ UNCHANGED <<world, sub, voided, wire, owner, ent, client, runs, changes, faults, lame, odd, overlap>>

Exchange(s) ==
  /\ proc[s].at = "exchange" /\ proc[s].held # None
  /\ client' = [client EXCEPT !.token = proc[s].held]
  /\ At(s, "fetch", proc[s].held)
  /\ UNCHANGED <<world, sub, voided, wire, owner, ent, runs, changes, faults, lame, odd, overlap>>

ExchangeFails(s) ==
  /\ proc[s].at = "exchange"
  /\ proc[s].held = None \/ faults > 0
  /\ faults' = IF proc[s].held = None THEN faults ELSE faults - 1
  /\ At(s, "fetch", None)
  /\ UNCHANGED <<world, sub, voided, wire, owner, ent, client, runs, changes, lame, odd, overlap>>

Handled(s, enriched) ==
  /\ Process(s, Head(wire[s]), enriched)
  /\ wire' = [wire EXCEPT ![s] = Tail(@)]
  /\ runs' = [w \in DOMAIN runs |-> IF runs[w].waits = s THEN [runs[w] EXCEPT !.waits = None]
                                                        ELSE runs[w]]
  /\ At(s, "idle", None)
  /\ UNCHANGED <<world, sub, voided, client, changes, odd, overlap>>

\* The details come with the token of the organization; without them, or when
\* the call fails, the notification is processed all the same.
Fetched(s, enriched) ==
  /\ proc[s].at = "fetch"
  /\ Handled(s, enriched)
  /\ lame' = IF enriched THEN lame ELSE lame \cup {s}
Fetch(s) == proc[s].held = world[s].org /\ Fetched(s, TRUE) /\ UNCHANGED faults
FetchFails(s) ==
  /\ proc[s].held # world[s].org \/ faults > 0
  /\ faults' = IF proc[s].held # world[s].org THEN faults ELSE faults - 1
  /\ Fetched(s, FALSE)

\* A purchase that is voided is processed as the notification tells it: nothing
\* is fetched.
Void(s) ==
  /\ proc[s].at = "token" /\ Head(wire[s]).kind = "voided"
  /\ Handled(s, TRUE)
  /\ UNCHANGED <<lame, faults>>
-----------------------------------------------------------------------------
(***************************************************************************)
(* The imports, one at a time for each organization and source: pages of   *)
(* Recurly's subscriptions; the tokens that Google is asked for, and then  *)
(* the purchases it has voided.  The pipeline takes what they make up for  *)
(* notifications, ahead of those that wait.                                *)
(***************************************************************************)
Existing(w) == {s \in Subs : world[s] = w /\ sub[s].status # "none"}
Working(w) == runs[w].at \in {"pages", "tokens", "voided"}
Ready(w) == Working(w) /\ runs[w].todo = {} /\ runs[w].waits = None
Over(w, how) == runs' = [runs EXCEPT ![w] = [@ EXCEPT !.at = how, !.seen = {}]]

\* The route turns a request away while the progress is that of a run.
StartImport(w) ==
  /\ changes > 0 /\ ~Working(w) /\ Existing(w) # {} /\ changes' = changes - 1
  /\ \E asked \in SUBSET Existing(w) :
       runs' = [runs EXCEPT ![w] =
         [at |-> IF w.source = "recurly" THEN "pages" ELSE "tokens",
          todo |-> IF w.source = "recurly" THEN {} ELSE {<<s, sub[s].token>> : s \in asked},
          more |-> TRUE, seen |-> {}, waits |-> None, lost |-> {},
          all |-> IF w.source = "recurly" THEN Existing(w) ELSE {}]]
  /\ w.source \in {"recurly", "google"}
  /\ UNCHANGED <<world, sub, voided, wire, owner, ent, webhooks, faults, odd>>

\* Google gives no token for the purchases that are asked for.
StartFails(w) ==
  /\ w.source = "google"
  /\ changes > 0 /\ ~Working(w) /\ Existing(w) # {} /\ changes' = changes - 1
  /\ faults > 0 /\ faults' = faults - 1
  /\ runs' = [runs EXCEPT ![w] = [NoRun EXCEPT !.at = "failed"]]
  /\ UNCHANGED <<world, sub, voided, wire, owner, ent, webhooks, odd>>

\* A page has what Recurly's subscriptions are when it is read, or what Google
\* has voided, and tells whether there are more.
Unseen(w) ==
  (IF w.source = "recurly" THEN Existing(w) ELSE {v \in voided : world[v[1]] = w}) \ runs[w].seen
StateOf(s) == IF sub[s].status \in Live /\ ~sub[s].cancel THEN "active" ELSE "expired"
Item(w, x) == IF w.source = "recurly" THEN <<x, StateOf(x)>> ELSE x

\* Mutant: the page that is read first is taken for the last one.
Turned_First(w, page, more) ==
  runs' = [runs EXCEPT ![w].at = IF @ = "tokens" THEN "voided" ELSE @,
                       ![w].todo = {Item(w, x) : x \in page},
                       ![w].seen = @ \cup page, ![w].more = FALSE]

Turned(w, page, more) ==
  runs' = [runs EXCEPT ![w].at = IF @ = "tokens" THEN "voided" ELSE @,
                       ![w].todo = {Item(w, x) : x \in page},
                       ![w].seen = @ \cup page, ![w].more = more]
Page(w) ==
  /\ Ready(w) /\ runs[w].more
  /\ \E page \in SUBSET Unseen(w) :
       (page = {} => Unseen(w) = {}) /\ Turned(w, page, page # Unseen(w))
  /\ UNCHANGED <<world, sub, voided, wire, owner, ent, webhooks, faults, changes, odd>>

ImportEnds(w) ==
  /\ Ready(w) /\ ~runs[w].more /\ Over(w, "completed")
  /\ UNCHANGED <<world, sub, voided, wire, owner, ent, webhooks, faults, changes, odd>>

\* A call that fails ends the run: as failed, but for a page of the purchases
\* Google has voided.  A token is asked for before the first of these.
PageFails(w) ==
  /\ Ready(w) /\ runs[w].more /\ faults > 0 /\ faults' = faults - 1
  /\ \E how \in {"failed", "completed"} :
       /\ runs[w].at = "pages" => how = "failed"
       /\ runs[w].at = "voided" => how = "completed"
       /\ Over(w, how)
  /\ UNCHANGED <<world, sub, voided, wire, owner, ent, webhooks, changes, odd>>

\* An item that fails, before it has left anything behind, is noted among the
\* errors and the run goes on; what the pipeline throws it keeps to itself.
ItemFails(w) == \E item \in runs[w].todo :
  /\ Working(w) /\ runs[w].waits = None /\ faults > 0 /\ faults' = faults - 1
  /\ runs' = [runs EXCEPT ![w].todo = @ \ {item}, ![w].lost = @ \cup {item[1]}]
  /\ UNCHANGED <<world, sub, voided, wire, owner, ent, webhooks, changes, odd>>

Imported(s, state) ==
  [of |-> s, type |-> IF state = "active" THEN "new_subscription_notification"
                                          ELSE "expired_subscription_notification"]
ImportSubscription(w) == \E item \in runs[w].todo :
  /\ runs[w].at = "pages"
  /\ Process(item[1], Imported(item[1], item[2]), TRUE)
  /\ runs' = [runs EXCEPT ![w].todo = @ \ {item}]
  /\ UNCHANGED <<world, sub, voided, wire, webhooks, faults, changes, odd>>

Pipe(w, s, n) ==
  /\ wire' = [wire EXCEPT ![s] = <<n>> \o @]
  /\ runs' = [runs EXCEPT ![w].todo = @ \ {<<s, n.token>>}, ![w].waits = s]

\* Is there a user with the purchase?
Known(s, token) == Matched(s, {<<s, token>>}) # {}

\* The details of a token are fetched first.  They name the purchase before,
\* which may be new to the pipeline.
ImportToken(w) == \E item \in runs[w].todo :
  /\ runs[w].at = "tokens" /\ runs[w].waits = None /\ proc[item[1]].at = "idle"
  /\ Pipe(w, item[1], GoogleSubscription(item[1], "PURCHASED", item[2]))
  /\ odd' = IF sub[item[1]].status \in Live THEN odd ELSE odd \cup {item[1]}
  /\ lame' = IF item[2] > 2 /\ ~Known(item[1], item[2] - 1) THEN lame \cup {item[1]} ELSE lame
  /\ UNCHANGED <<world, sub, voided, owner, ent, client, proc, overlap, faults, changes>>

\* A purchase that is voided may be new to the pipeline.
ImportVoided(w) == \E item \in runs[w].todo :
  /\ runs[w].at = "voided" /\ runs[w].waits = None /\ proc[item[1]].at = "idle"
  /\ Pipe(w, item[1], GoogleVoided(item[1], item[2]))
  /\ lame' = IF Known(item[1], item[2]) THEN lame ELSE lame \cup {item[1]}
  /\ UNCHANGED <<world, sub, voided, owner, ent, client, proc, overlap, faults, changes, odd>>
-----------------------------------------------------------------------------
Next == \E s \in Subs :
  \/ \E step \in Life : Change(s, step[2], step[3])
  \/ Refund(s) \/ Webhook(s)
  \/ SetCredentials(s) \/ Token(s) \/ Sign(s) \/ Exchange(s) \/ ExchangeFails(s)
  \/ Fetch(s) \/ FetchFails(s) \/ Void(s)
  \/ LET w == world[s] IN
     StartImport(w) \/ StartFails(w) \/ Page(w) \/ ImportEnds(w) \/ PageFails(w) \/ ItemFails(w)
     \/ ImportSubscription(w) \/ ImportToken(w) \/ ImportVoided(w)

Spec == Init /\ [][Next]_vars
-----------------------------------------------------------------------------
UsersOf(s) == {row.user : row \in {row \in owner : row.org = world[s].org
                 /\ row.source = world[s].source /\ row.id[1] = s}}
Followed(s) == wire[s] = <<>> /\ world[s].source # "recurly"
Alone(s) == \A t \in Subs \ {s} : world[t] # world[s] \/ world[s].source # "apple"

\* Who pays has access: once the notifications of a live subscription are
\* processed, the entitlement of its user gives access, whatever came before
\* and whatever was imported.  The exceptions: Recurly, whose events find no
\* product (pipeline.ts:298-310), and a subscription whose details were not
\* fetched, so that it may have two users.
PayersHaveAccess ==
  \A s \in Subs \ lame : Followed(s) /\ Alone(s) /\ sub[s].status \in Live =>
    \E u \in UsersOf(s) : ent[u] \in AccessStates

\* Who has lapsed has none.  The exceptions: a subscription Google was asked
\* to import, which is a purchase whatever its state (google-backfill.ts:342);
\* one that was revoked while unpaid, for which the table has no entry; and
\* one whose details were not fetched, so that it may have two users.
LapsedHaveNone ==
  \A s \in Subs : Followed(s) /\ Alone(s) /\ s \notin odd \cup lame /\ sub[s].status \in {"paused", "ended"} =>
    \A u \in UsersOf(s) : ent[u] \notin AccessStates

\* A customer is one user, from purchase to purchase, as long as the details
\* that name the purchase before could be fetched (google.ts:286-300).
OneUser == \A s \in Subs \ lame : \A u, v \in UsersOf(s) : u = v

\* An import of Recurly's that says it is completed has come to every
\* subscription there was when it began, however they changed from page to
\* page (recurly-backfill.ts:308-383): its customer is known, or the item
\* failed.  "Completed" does not tell which (recurly-backfill.test.ts:214-233):
\* a failure is only noted among the errors, or by the pipeline in the log.
ImportIsComplete ==
  \A w \in DOMAIN runs : runs[w].at = "completed" =>
    \A s \in runs[w].all : UsersOf(s) # {} \/ s \in runs[w].lost

\* Customers are kept apart, except at Apple, where the bundle id of the app is
\* taken for an id of the customer (apple.ts:273-280).
KeptApart ==
  \A s, t \in Subs : s # t /\ (world[s] = world[t] => world[s].source # "apple") =>
    UsersOf(s) \cap UsersOf(t) = {}

\* A request about an organization's purchases carries the organization's own
\* token, as long as no webhook of another is under way (google.ts:148-153).
OwnToken ==
  \A s \in Subs : ~overlap /\ proc[s].at = "fetch" => proc[s].held \in {world[s].org, None}

\* Access follows what is paid for, at every provider.
AccessFollowsPayment == TypeOK /\ PayersHaveAccess /\ LapsedHaveNone

\* Customers and organizations are told apart, and each is one.
CustomersAreApart == OneUser /\ KeptApart /\ OwnToken
-----------------------------------------------------------------------------
(***************************************************************************)
(* The inductive invariant behind CustomersAreApart and ImportIsComplete.  *)
(***************************************************************************)
\* What waits for a subscription is about it, and about a purchase it made.
GoogleNote(s, n) ==
  /\ n.token \in 1..sub[s].token
  /\ \/ n.kind = "subscription" /\ Mapped(SUBSCRIPTION_NOTIFICATION_MAP, n.type)
     \/ n.kind = "voided"
WiresAgree ==
  /\ wire = [s \in Subs |-> wire[s]]
  /\ \A s \in Subs :
       /\ wire[s] \in Seq({wire[s][i] : i \in DOMAIN wire[s]})
       /\ \A i \in DOMAIN wire[s] :
            wire[s][i].of = s /\ (world[s].source = "google" => GoogleNote(s, wire[s][i]))
       /\ proc[s].at # "idle" => world[s].source = "google" /\ wire[s] # <<>>
       /\ sub[s].status # "none" => sub[s].token > 0

\* A row is of the subscription it names, or of the app.
OwnRow(row, s) ==
  /\ row.org = world[s].org /\ row.source = world[s].source
  /\ CASE row.source = "stripe"  -> row.id[2] = "customer_id"
       [] row.source = "apple"   -> row.id[2] = "original_transaction_id"
       [] row.source = "google"  -> row.id[2] \in Nat \ {0}
       [] row.source = "recurly" -> row.id[2] \in {"account_code", "subscription_id"}
RowsAgree ==
  \A row \in owner :
    /\ row.id = <<row.id[1], row.id[2]>>
    /\ IF row.id[1] \in Subs THEN OwnRow(row, row.id[1])
                             ELSE row.source = "apple" /\ row.id = <<"app", "bundle_id">>

\* An id has one user, and a user one customer, but for those of an app.
UsersAgree ==
  \A row, other \in owner :
    IF row.user = other.user
      THEN /\ row.org = other.org /\ row.source = other.source
           /\ row.source = "apple" \/ row.id[1] = other.id[1]
      ELSE ~(row.org = other.org /\ row.source = other.source /\ row.id = other.id)

\* When notification i of a wire comes to its turn, the purchase has been met,
\* or is met by one before it; and in the end all that were made have been.
KnownOf(s) == {token \in Nat : Known(s, token)}
Met(known, q, token, i) ==
  token \in known \/ \E h \in 1..(i - 1) : q[h].kind = "subscription" /\ q[h].token = token
Gapless(known, q, made) ==
  /\ \A token \in 1..made : Met(known, q, token, Len(q) + 1)
  /\ \A i \in 1..Len(q) : IF q[i].kind = "subscription"
                            THEN q[i].token > 2 => Met(known, q, q[i].token - 1, i)
                            ELSE Met(known, q, q[i].token, i)
PurchasesAreMet ==
  \A s \in Subs \ lame : world[s].source = "google" =>
    /\ Gapless(KnownOf(s), wire[s], sub[s].token)
    /\ \A row \in owner : row.id[1] = s => \A token \in 1..(row.id[2] - 1) : Known(s, token)

\* What an import has to bring is brought, lost, at hand, or still to be listed.
Brought(w, s) ==
  \/ UsersOf(s) # {}
  \/ s \in runs[w].lost
  \/ \E item \in runs[w].todo : item[1] = s
  \/ runs[w].more /\ s \in Existing(w) \ runs[w].seen
ImportsAgree ==
  /\ \A v \in voided : world[v[1]].source = "google" /\ v[2] \in 1..sub[v[1]].token
  /\ \A w \in DOMAIN runs :
       /\ runs[w].at = "pages" => w.source = "recurly" /\ \A s \in runs[w].all : Brought(w, s)
       /\ runs[w].at \in {"tokens", "voided"} => w.source = "google"
       /\ w.source = "google" => runs[w].all = {}
       /\ \A item \in runs[w].todo :
            world[item[1]] = w /\ (w.source = "google" => item[2] \in 1..sub[item[1]].token)

\* The webhooks under way share the credentials of their organization.
CredentialsAgree ==
  ~overlap => \A s \in Subs : Underway(s) =>
    /\ client.creds = world[s].org
    /\ {client.token, proc[s].held} \subseteq {world[s].org, None}

IInv == /\ Typed /\ WiresAgree /\ RowsAgree /\ UsersAgree /\ OneUser /\ PurchasesAreMet
        /\ ImportsAgree /\ ImportIsComplete /\ CredentialsAgree
=============================================================================
