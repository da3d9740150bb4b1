----------------------------- MODULE Onboarding -----------------------------
(***************************************************************************)
(* The server side of setting up an organization (api/onboarding.ts):      *)
(* POST /setup/org with its three database calls, the middleware that      *)
(* reads the key, POST /setup/<source> that tests credentials and stores   *)
(* them, /setup/verify/<source>, /setup/status, the start of a backfill    *)
(* and its progress.  The client is module SetupWizard.                    *)
(*                                                                         *)
(* An organization is its slug, and so is the one key that is issued with  *)
(* it.  What a backfill does while it runs is module Backfill.             *)
(***************************************************************************)
EXTENDS Naturals, FiniteSets

CONSTANTS
  Slugs,      \* organizations somebody may want to create
  NoKey,      \* no API key
  WrongKey,   \* a key nobody issued: mistyped, or the mock key of the login page
  Offered,    \* the billing sources that are connected in this instance
  MaxFaults,  \* bound: requests whose answer is lost or that meet an error
  MaxIssued   \* bound: keys of one organization

ServerParameters ==
  /\ NoKey \notin Slugs /\ WrongKey \notin Slugs \cup {NoKey}
  /\ Offered \subseteq {"stripe", "apple", "recurly", "google"} /\ Offered # {}
  /\ MaxFaults \in Nat /\ MaxIssued \in Nat \ {0}

VARIABLES
  orgs,    \* slugs of the rows of organizations
  issued,  \* issued[o]: keys made for o
  conn,    \* conn[<<o, s>>]: the credentials stored for source s of o
  job,     \* job[<<o, s>>]: what the progress says of the backfill
  events,  \* the organizations that have canonical events
  net,     \* requests on their way and answers on their way back
  faults   \* faults that may still happen

server == <<orgs, issued, conn, job, events>>

Ops == {"org", "auto", "login", "connect", "verify", "start", "progress", "look"}
Credentials == {"good", "bad"}
Exchange ==
  [op : Ops, key : Slugs \cup {NoKey, WrongKey}, src : Offered \cup {"none"},
   cred : Credentials, step : {"sent", "free", "inserted", "valid", "answered"},
   ans : {"none", "ok", "error", "ready", "connected", "empty", "verified", "unverified",
          "not_started", "nested"},
   page : BOOLEAN,   \* FALSE: nobody waits for the answer any more
   twin : BOOLEAN]   \* TRUE: the second of its sort on its way

Keyed(k) == k \in Slugs /\ issued[k] > 0
Connected(o) == \E s \in Offered : conn[<<o, s>>] # "none"

\* Organization k, if it is one, was created before, and any source of it may
\* have been connected and have brought events.
ServerInit(k) ==
  /\ orgs = {k} \cap Slugs
  /\ issued = [o \in Slugs |-> IF o = k THEN 1 ELSE 0]
  /\ conn \in {f \in [Slugs \X Offered -> {"none", "good"}] :
                \A os \in Slugs \X Offered : os[1] # k => f[os] = "none"}
  /\ job = [os \in Slugs \X Offered |-> "none"]
  /\ events \in SUBSET {o \in {k} \cap Slugs : Connected(o)}
  /\ net = {}
  /\ faults = MaxFaults

ServerTypeOK ==
  /\ orgs \subseteq Slugs
  /\ issued \in [Slugs -> 0..MaxIssued]
  /\ conn \in [Slugs \X Offered -> Credentials \cup {"none"}]
  /\ job \in [Slugs \X Offered -> {"none", "running", "completed", "failed"}]
  /\ events \subseteq Slugs
  /\ net \subseteq Exchange
  /\ faults \in 0..MaxFaults

At(x, op, step) == x.op \in op /\ x.step = step
Goes(x, step) == net' = (net \ {x}) \cup {[x EXCEPT !.step = step]}
Answers(x, a) ==
  net' = (net \ {x}) \cup
         (IF x.page THEN {[x EXCEPT !.step = "answered", !.ans = a]} ELSE {})
-----------------------------------------------------------------------------
\* POST /org: look the slug up, insert the organization, insert its key.
SlugIsFree(x) ==
  /\ At(x, {"org"}, "sent")
  /\ IF x.key \in orgs THEN Answers(x, "error") ELSE Goes(x, "free")
  /\ UNCHANGED <<server, faults>>

InsertOrg(x) ==
  /\ At(x, {"org"}, "free")
  /\ IF x.key \in orgs
       THEN Answers(x, "error") /\ UNCHANGED orgs
       ELSE Goes(x, "inserted") /\ orgs' = orgs \cup {x.key}
  /\ UNCHANGED <<issued, conn, job, events, faults>>

InsertKey(x) ==
  /\ At(x, {"org"}, "inserted")
  /\ issued[x.key] < MaxIssued
  /\ issued' = [issued EXCEPT ![x.key] = @ + 1]
  /\ Answers(x, "ok")
  /\ UNCHANGED <<orgs, conn, job, events, faults>>

\* Every other route of /setup goes through the middleware first.
Unauthorized(x) ==
  /\ At(x, Ops \ {"org"}, "sent") /\ ~Keyed(x.key)
  /\ Answers(x, "error")
  /\ UNCHANGED <<server, faults>>

Serves(x, op) == At(x, op, "sent") /\ Keyed(x.key)

\* What POST /<source> finds fault with.  Stripe and Recurly are asked to list
\* one customer or account; with Google's service account a token is signed,
\* which shows the form of the key only; Apple's is stored as it comes.
StripeRefuses(cred) == cred = "bad"
RecurlyRefuses(cred) == cred = "bad"
GoogleRefuses(cred) == FALSE
AppleRefuses(cred) == FALSE
Refuses(s, cred) ==
  CASE s = "stripe" -> StripeRefuses(cred) [] s = "recurly" -> RecurlyRefuses(cred)
    [] s = "google" -> GoogleRefuses(cred) [] s = "apple" -> AppleRefuses(cred)

Validate(x) ==
  /\ Serves(x, {"connect"})
  /\ IF Refuses(x.src, x.cred) THEN Answers(x, "error") ELSE Goes(x, "valid")
  /\ UNCHANGED <<server, faults>>

Upsert(x) ==
  /\ At(x, {"connect"}, "valid")
  /\ conn' = [conn EXCEPT ![<<x.key, x.src>>] = x.cred]
  /\ Answers(x, "ok")
  /\ UNCHANGED <<orgs, issued, job, events, faults>>

\* POST /verify/<source> asks the provider with what is stored, Google's too.
StripeAccepts(cred) == cred = "good"
RecurlyAccepts(cred) == cred = "good"
GoogleAccepts(cred) == cred = "good"
Accepts(s, cred) ==
  CASE s = "stripe" -> StripeAccepts(cred) [] s = "recurly" -> RecurlyAccepts(cred)
    [] s = "google" -> GoogleAccepts(cred)

Verify(x) ==
  /\ Serves(x, {"verify"})
  /\ Answers(x, IF Accepts(x.src, conn[<<x.key, x.src>>]) THEN "verified" ELSE "unverified")
  /\ UNCHANGED <<server, faults>>

Status(x) ==
  /\ Serves(x, {"auto", "login"})
  /\ Answers(x, IF ~Connected(x.key) THEN "empty"
                ELSE IF x.key \in events THEN "ready" ELSE "connected")
  /\ UNCHANGED <<server, faults>>

\* POST /backfill/<source>: there is no such route for Apple.
StartBackfill(x) ==
  /\ Serves(x, {"start"})
  /\ IF x.src = "apple" \/ conn[<<x.key, x.src>>] = "none" \/ job[<<x.key, x.src>>] = "running"
       THEN Answers(x, "error") /\ UNCHANGED job
       ELSE Answers(x, "ok") /\ job' = [job EXCEPT ![<<x.key, x.src>>] = "running"]
  /\ UNCHANGED <<orgs, issued, conn, events, faults>>

\* GET /backfill/progress: a status of its own when nothing was ever started,
\* else one progress per source, {stripe, recurly, google}.
GetProgress(x) ==
  /\ Serves(x, {"progress"})
  /\ Answers(x, IF \A s \in Offered : job[<<x.key, s>>] = "none" THEN "not_started" ELSE "nested")
  /\ UNCHANGED <<server, faults>>

FirstLook(x) ==
  /\ Serves(x, {"look"})
  /\ Answers(x, "ok")
  /\ UNCHANGED <<server, faults>>

\* A query throws or the provider does not answer: 500 or 400.  Or the answer
\* is lost, and the server may go on with the request.  (A read that fails
\* leaves the page as it is.)
RequestFails(x) ==
  /\ x.step # "answered" /\ x.op \in {"org", "connect", "verify", "start"} /\ faults > 0
  /\ faults' = faults - 1
  /\ \/ Answers(x, "error")
     \/ /\ x.page
        /\ net' = (net \ {x}) \cup {[x EXCEPT !.step = "answered", !.ans = "error"],
                                    [x EXCEPT !.page = FALSE]}
  /\ UNCHANGED server
-----------------------------------------------------------------------------
\* The backfill ends; webhooks bring events.
JobEnds(o, s) ==
  /\ job[<<o, s>>] = "running"
  /\ \E status \in {"completed", "failed"} :
       job' = [job EXCEPT ![<<o, s>>] = status]
  /\ UNCHANGED <<orgs, issued, conn, events, net, faults>>

EventsArrive(o) ==
  /\ Connected(o) /\ o \notin events
  /\ events' = events \cup {o}
  /\ UNCHANGED <<orgs, issued, conn, job, net, faults>>

Serve(x) ==
  \/ SlugIsFree(x) \/ InsertOrg(x) \/ InsertKey(x)
  \/ Unauthorized(x) \/ Validate(x) \/ Upsert(x) \/ Verify(x) \/ Status(x)
  \/ StartBackfill(x) \/ GetProgress(x) \/ FirstLook(x)

ServerNext ==
  \/ \E x \in net : Serve(x) \/ RequestFails(x)
  \/ \E o \in Slugs : EventsArrive(o) \/ \E s \in Offered : JobEnds(o, s)
-----------------------------------------------------------------------------
\* Two creations of one slug that both found it free: one of them gets the
\* organization, so no organization has two owners with a key each
\* (api/onboarding.ts:159-186, the unique index of organizations.slug).
OneOwner == \A o \in Slugs : issued[o] <= 1

=============================================================================
