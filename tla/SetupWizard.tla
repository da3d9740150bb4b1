---------------------------- MODULE SetupWizard -----------------------------
(***************************************************************************)
(* The setup page of the dashboard (dashboard/src/pages/Onboarding.tsx):   *)
(* create an organization or enter a key, connect a billing source, import *)
(* its history, read the first report.  Its sections are mounted as the    *)
(* phase reaches them and stay mounted; each has its own requests on their *)
(* way while the user goes on clicking.  Module Onboarding is the server.  *)
(*                                                                         *)
(* The pauses that reveal the check list line by line are left out, and so *)
(* is the rate limit on /setup.                                            *)
(***************************************************************************)
EXTENDS Onboarding

CONSTANT MaxVisits  \* bound: times the page is opened

\* What the parameters have to be.
Parameters == ServerParameters /\ MaxVisits \in Nat

VARIABLES
  open,      \* the page is open
  visits,    \* times it was opened
  stored,    \* the key in the browser's storage
  key,       \* apiKeyValue
  shown,     \* createdKey: the new key on display
  phase,     \* currentPhase
  choice,    \* the provider picked in the connect section
  via,       \* connectedProvider: the provider the import is for
  form,      \* form[s]: the form of source s, or the state of its check list
  busy,      \* the sections whose spinner turns
  progress,  \* what the import section knows of the backfill
  polls,     \* the key the interval of pollRef polls the progress with
  report,    \* the report section
  switched   \* history: a sign-in has replaced the key behind section 1

page == <<open, visits, stored, key, shown, phase, choice, via, form, busy,
          progress, polls, report, switched>>
vars == <<server, net, faults, page>>

Phases == <<"auth", "connect", "import", "report">>
Index(p) == CHOOSE i \in 1..4 : Phases[i] = p
Choices == Offered \cup IF {"stripe", "apple"} \subseteq Offered THEN {"both"} ELSE {}
Shows(c) == IF c = "both" THEN {"stripe", "apple"} ELSE {c}
Ready(c) == \A s \in Shows(c) : form[s] = "ready"
FirstChoice == CHOOSE c \in Offered : c = "stripe" \/ "stripe" \notin Offered
Fresh == [s \in Offered |-> "form"]

TypeOK ==
  /\ ServerTypeOK
  /\ open \in BOOLEAN /\ visits \in 0..MaxVisits
  /\ {stored, key, shown} \subseteq Slugs \cup {NoKey, WrongKey}
  /\ phase \in {Phases[i] : i \in 1..4}
  /\ {choice, via} \subseteq Choices
  /\ form \in [Offered -> {"form", "checking", "error", "ready"}]
  /\ busy \subseteq {"connect", "import"}
  /\ progress \in {"none", "ok"}
  /\ polls \in Slugs \cup {NoKey}
  /\ report \in {"loading", "shown", "error"}
  /\ switched \in BOOLEAN

Init ==
  /\ stored \in Slugs \cup {NoKey}
  /\ ServerInit(stored)
  /\ open = FALSE /\ visits = 0
  /\ key = NoKey /\ shown = NoKey
  /\ phase = "auth"
  /\ choice = FirstChoice /\ via = FirstChoice
  /\ form = Fresh
  /\ busy = {}
  /\ progress = "none"
  /\ polls = NoKey
  /\ report = "loading"
  /\ switched = FALSE

Request(op, k, s, c) ==
  [op |-> op, key |-> k, src |-> s, cred |-> c, step |-> "sent", ans |-> "none", page |-> TRUE,
   twin |-> \E x \in net : x.op = op /\ x.src = s /\ ~x.twin]
Simple(op, k) == Request(op, k, "none", "good")
Waiting(op) == \E x \in net : x.page /\ x.op \in op

\* Bound: two requests of one sort at a time, where the page does not wait for
\* the answer before it sends the next.
Room(op, s) == ~\E x \in net : x.op \in op /\ x.src = s /\ x.twin
-----------------------------------------------------------------------------
\* What is sent because a section appears: the import section polls once, the
\* report section fetches the report.
Mounts(p, k) ==
  {Simple(op, k) : op \in {o \in {"progress", "look"} :
     /\ ~Waiting({o})
     /\ Index(p) >= (IF o = "progress" THEN 3 ELSE 4)
     /\ Index(phase) < (IF o = "progress" THEN 3 ELSE 4)}}

\* What section 3 and section 4 wait for when phase p takes them off the page:
\* a read is of no use to anybody, a start goes on at the server.  (An answered
\* start begins an interval even so, whose answers nobody looks at.)
Unmounts(p, x) ==
  /\ x.page
  /\ \/ x.op \in {"start", "progress"} /\ Index(p) < 3
     \/ x.op = "look" /\ Index(p) < 4
StaysOn(p, N) ==
  {x \in N : ~Unmounts(p, x)} \cup
  {[x EXCEPT !.page = FALSE] :
     x \in {y \in N : Unmounts(p, y) /\ y.op = "start" /\ y.step # "answered"}}

\* setCurrentPhase, forwards or back, with N on the line: sections appear and
\* ask, or disappear with what they knew.
TurnTo(p, N) ==
  /\ phase' = p
  /\ net' = StaysOn(p, N) \cup Mounts(p, key)
  /\ progress' = IF Index(p) < 3 THEN "none" ELSE progress
  /\ polls' = IF Index(p) < 3 THEN NoKey ELSE polls
  /\ busy' = IF Index(p) < 3 THEN busy \ {"import"} ELSE busy
  /\ report' = IF Index(p) < 4 THEN "loading" ELSE report

\* setApiKeyValue with the key of an answered sign-in, in whatever phase.
TakesKey(k) ==
  /\ key' = k
  /\ switched' = (switched \/ (phase # "auth" /\ k # key))

\* A page without a user in front of it.
Blank ==
  /\ phase' = "auth" /\ shown' = NoKey
  /\ choice' = FirstChoice /\ via' = FirstChoice
  /\ form' = Fresh /\ busy' = {} /\ progress' = "none" /\ polls' = NoKey
  /\ report' = "loading" /\ switched' = FALSE

\* The page opens with the key the browser has kept; autoAdvance asks for the
\* status of its organization.
Open ==
  /\ ~open /\ visits < MaxVisits
  /\ open' = TRUE /\ visits' = visits + 1 /\ key' = stored
  /\ Blank
  /\ net' = net \cup IF stored = NoKey THEN {} ELSE {Simple("auto", stored)}
  /\ UNCHANGED <<server, faults, stored>>

\* The user leaves or reloads.  Nobody waits for the answers then, and of the
\* requests on their way only those matter that change something.
Leave ==
  /\ open
  /\ open' = FALSE /\ key' = NoKey
  /\ Blank
  /\ net' = {[x EXCEPT !.page = FALSE] :
               x \in {y \in net : y.step # "answered" /\ y.op \in {"org", "connect", "start"}}}
  /\ UNCHANGED <<server, faults, visits, stored>>

\* The login page accepts anybody and stores a key that no server knows.
LogIn ==
  /\ ~open /\ visits < MaxVisits
  /\ stored' = WrongKey
  /\ UNCHANGED <<server, net, faults, open, visits, key, shown, phase, choice, via, form, busy,
                 progress, polls, report, switched>>

AutoAdvance(x) ==
  /\ At(x, {"auto"}, "answered")
  /\ IF x.ans = "error"
       THEN /\ net' = net \ {x}
            /\ UNCHANGED <<phase, busy, progress, polls, report>>
       ELSE TurnTo(CASE x.ans = "ready" -> "report"
                     [] x.ans = "connected" -> "import"
                     [] OTHER -> "connect", net \ {x})
  /\ UNCHANGED <<server, faults, open, visits, stored, key, shown, choice, via, form, switched>>
-----------------------------------------------------------------------------
\* Section 1.  The two forms of it are gone once a key is on display.  While
\* the page loads their buttons are disabled; the Enter key is not, so that
\* nothing keeps a second sign-in from overlapping the first.
InAuth == open /\ phase = "auth"
SignIns == {"org", "login"}

Create(o) ==
  /\ InAuth /\ shown = NoKey /\ Room(SignIns, "none")
  /\ net' = net \cup {Simple("org", o)}
  /\ UNCHANGED <<server, faults, page>>

\* The report section fetches its report again when it is given another key.
Created(x) ==
  /\ At(x, {"org"}, "answered")
  /\ IF x.ans = "ok"
       THEN /\ TakesKey(x.key) /\ shown' = x.key /\ stored' = x.key
            /\ net' = (net \ {x}) \cup
                      IF phase = "report" /\ x.key # key THEN {Simple("look", x.key)} ELSE {}
       ELSE net' = net \ {x} /\ UNCHANGED <<key, switched, shown, stored>>
  /\ UNCHANGED <<server, faults, open, visits, phase, choice, via, form, busy, progress, polls,
                 report>>

\* "Continue" under the new key.
ContinueWithKey ==
  /\ InAuth /\ shown # NoKey
  /\ key' = shown /\ phase' = "connect"
  /\ UNCHANGED <<server, net, faults, open, visits, stored, shown, choice, via, form, busy,
                 progress, polls, report, switched>>

\* A key that was issued earlier, a wrong one or none, typed into the other form.
TypeKey(k) ==
  /\ InAuth /\ shown = NoKey /\ k # key
  /\ Keyed(k) \/ k \in {WrongKey, NoKey}
  /\ key' = k
  /\ UNCHANGED <<server, net, faults, open, visits, stored, shown, phase, choice, via, form, busy,
                 progress, polls, report, switched>>

EnterKey ==
  /\ InAuth /\ shown = NoKey /\ key # NoKey /\ Room(SignIns, "none")
  /\ stored' = key
  /\ net' = net \cup {Simple("login", key)}
  /\ UNCHANGED <<server, faults, open, visits, key, shown, phase, choice, via, form, busy,
                 progress, polls, report, switched>>

\* onAuthenticated, which leads to section 2 from wherever the page is.
KeyChecked(x) ==
  /\ At(x, {"login"}, "answered")
  /\ IF x.ans # "error"
       THEN TakesKey(x.key) /\ TurnTo("connect", net \ {x})
       ELSE /\ net' = net \ {x}
            /\ UNCHANGED <<key, switched, phase, busy, progress, polls, report>>
  /\ UNCHANGED <<server, faults, open, visits, stored, shown, choice, via, form>>
-----------------------------------------------------------------------------
\* Section 2.
InConnect == open /\ phase = "connect"

Pick(c) ==
  /\ InConnect /\ "connect" \notin busy /\ choice # c
  /\ choice' = c
  /\ UNCHANGED <<server, net, faults, open, visits, stored, key, shown, phase, via, form, busy,
                 progress, polls, report, switched>>

\* The forms of the picked sources that still are forms.  Their buttons wait for
\* the answer that is under way; the Enter key in Stripe's does not.
MayConnect(s) ==
  /\ InConnect /\ s \in Shows(choice) /\ form[s] = "form"
  /\ s = "stripe" \/ "connect" \notin busy
  /\ Room({"connect"}, s)

\* Every source but Apple's shows a check list from here on, and never again
\* its form.
Connect(s, cred) ==
  /\ s # "apple" /\ MayConnect(s)
  /\ busy' = busy \cup {"connect"}
  /\ form' = [form EXCEPT ![s] = "checking"]
  /\ net' = net \cup {Request("connect", key, s, cred)}
  /\ UNCHANGED <<server, faults, open, visits, stored, key, shown, phase, choice, via, progress,
                 polls, report, switched>>

\* Nothing is asked about Apple's credentials: any will do.
ConnectApple ==
  /\ "apple" \in Offered /\ MayConnect("apple")
  /\ busy' = busy \cup {"connect"}
  /\ net' = net \cup {Request("connect", key, "apple", "good")}
  /\ UNCHANGED <<server, faults, open, visits, stored, key, shown, phase, choice, via, form,
                 progress, polls, report, switched>>

\* Mutant: the answer is taken for a success whatever its status.
ConnectAnswered_Unchecked(x) ==
  /\ At(x, {"connect"}, "answered")
  /\ busy' = IF x.src # "apple" THEN busy ELSE busy \ {"connect"}
  /\ form' = IF x.src = "apple" THEN [form EXCEPT ![x.src] = "ready"] ELSE form
  /\ net' = (net \ {x}) \cup IF x.src # "apple"
                               THEN {Request("verify", x.key, x.src, "good")} ELSE {}
  /\ UNCHANGED <<server, faults, open, visits, stored, key, shown, phase, choice, via, progress,
                 polls, report, switched>>

\* Connected: verify it, unless it is Apple.  Not connected: the check list
\* shows the error; Apple's form stays.
ConnectAnswered(x) ==
  LET goesOn == x.ans = "ok" /\ x.src # "apple" IN
  /\ At(x, {"connect"}, "answered")
  /\ busy' = IF goesOn THEN busy ELSE busy \ {"connect"}
  /\ form' = IF x.ans = "ok"
               THEN IF x.src = "apple" THEN [form EXCEPT ![x.src] = "ready"] ELSE form
               ELSE IF x.src = "apple" THEN form ELSE [form EXCEPT ![x.src] = "error"]
  /\ net' = (net \ {x}) \cup IF goesOn THEN {Request("verify", x.key, x.src, "good")} ELSE {}
  /\ UNCHANGED <<server, faults, open, visits, stored, key, shown, phase, choice, via, progress,
                 polls, report, switched>>

\* The status of the answer is not looked at: a source that could not be
\* verified is ready as well.  Only an answer that is lost is an error.
VerifyAnswered(x) ==
  /\ At(x, {"verify"}, "answered")
  /\ busy' = busy \ {"connect"}
  /\ form' = [form EXCEPT ![x.src] = IF x.ans = "error" THEN "error" ELSE "ready"]
  /\ net' = net \ {x}
  /\ UNCHANGED <<server, faults, open, visits, stored, key, shown, phase, choice, via, progress,
                 polls, report, switched>>

ContinueToImport ==
  /\ InConnect /\ Ready(choice)
  /\ via' = choice /\ TurnTo("import", net)
  /\ UNCHANGED <<server, faults, open, visits, stored, key, shown, choice, form, switched>>
-----------------------------------------------------------------------------
\* Section 3.
InImport == open /\ phase = "import"

StartImport ==
  /\ InImport /\ progress = "none" /\ "import" \notin busy
  /\ busy' = busy \cup {"import"}
  /\ net' = net \cup {Request("start", key, IF via = "both" THEN "stripe" ELSE via, "good")}
  /\ UNCHANGED <<server, faults, open, visits, stored, key, shown, phase, choice, via, form,
                 progress, polls, report, switched>>

\* The interval in pollRef is replaced, not cleared: an old one goes on and
\* asks the same thing.
ImportStarted(x) ==
  /\ At(x, {"start"}, "answered")
  /\ busy' = busy \ {"import"}
  /\ polls' = IF x.ans = "ok" THEN x.key ELSE polls
  /\ net' = (net \ {x}) \cup
            IF x.ans = "ok" /\ ~Waiting({"progress"}) THEN {Simple("progress", x.key)} ELSE {}
  /\ UNCHANGED <<server, faults, open, visits, stored, key, shown, phase, choice, via, form,
                 progress, report, switched>>

\* One request for the progress at a time.
Poll ==
  /\ polls # NoKey /\ ~Waiting({"progress"})
  /\ net' = net \cup {Simple("progress", polls)}
  /\ UNCHANGED <<server, faults, page>>

\* What the page takes for a progress is an answer with a status other than
\* not_started; a completed one brings the report, after a pause.
SeeProgress(x) ==
  LET completed == x.ans = "ok" IN
  /\ At(x, {"progress"}, "answered")
  /\ progress' = IF completed THEN "ok" ELSE progress
  /\ polls' = IF completed THEN NoKey ELSE polls
  /\ phase' = IF completed THEN "report" ELSE phase
  /\ net' = (net \ {x}) \cup IF completed THEN Mounts("report", key) ELSE {}
  /\ UNCHANGED <<server, faults, open, visits, stored, key, shown, choice, via, form, busy, report, switched>>

Skip ==
  /\ InImport /\ progress = "none"
  /\ TurnTo("report", net)
  /\ UNCHANGED <<server, faults, open, visits, stored, key, shown, choice, via, form, switched>>

\* Section 4.
SeeReport(x) ==
  /\ At(x, {"look"}, "answered")
  /\ report' = IF x.ans = "ok" /\ report # "error" THEN "shown" ELSE "error"
  /\ net' = net \ {x}
  /\ UNCHANGED <<server, faults, open, visits, stored, key, shown, phase, choice, via, form, busy,
                 progress, polls, switched>>
-----------------------------------------------------------------------------
Hears(x) ==
  /\ x.page
  /\ \/ AutoAdvance(x) \/ Created(x) \/ KeyChecked(x) \/ ConnectAnswered(x) \/ VerifyAnswered(x)
     \/ ImportStarted(x) \/ SeeProgress(x) \/ SeeReport(x)

User ==
  \/ Open \/ Leave \/ LogIn \/ ContinueWithKey \/ ConnectApple \/ ContinueToImport
  \/ StartImport \/ Skip \/ EnterKey
  \/ \E o \in Slugs : Create(o)
  \/ \E k \in Slugs \cup {WrongKey, NoKey} : TypeKey(k)
  \/ \E c \in Choices : Pick(c)
  \/ \E s \in Offered, cred \in Credentials : Connect(s, cred)

Next ==
  \/ ServerNext /\ UNCHANGED page
  \/ \E x \in net : Hears(x)
  \/ Poll
  \/ User

Spec == Init /\ [][Next]_vars

-----------------------------------------------------------------------------
\* A source the page calls ready to import is connected at the server, for
\* the organization whose key the page would start the import with: through
\* lost answers, pages that were left and keys typed meanwhile
\* (Onboarding.tsx:841-846 against api/onboarding.ts).  The exception is a key
\* that changes behind section 1: a sign-in was still under way when autoAdvance
\* or another sign-in led on to section 2, and its answer then puts its key in
\* the place of the one the source was connected for, which some organization
\* still has.
ReadyIsConnected ==
  \A s \in Offered : form[s] = "ready" =>
    \/ conn[<<key, s>>] # "none"
    \/ switched /\ \E o \in Slugs \ {key} : conn[<<o, s>>] # "none"

\* The state is well typed, an organization has one owner, and what the page
\* says of a source is true.
SetupIsSound == TypeOK /\ OneOwner /\ ReadyIsConnected
-----------------------------------------------------------------------------
\* The inductive invariant behind it.  At the server: a key is issued by the
\* one creation that inserted the organization ...
Inserting(o) == {x \in net : x.step = "inserted" /\ x.key = o}
OneCreation ==
  \A o \in Slugs :
    /\ issued[o] <= 1
    /\ o \notin orgs => issued[o] = 0 /\ Inserting(o) = {}
    /\ issued[o] = 1 => Inserting(o) = {}
    /\ \A x, y \in Inserting(o) : x = y

\* ... and what is on the line or comes back is true of the server.
RequestIsSound(x) ==
  /\ x.op = "org" => x.key \in Slugs
  /\ x.step = "inserted" => x.op = "org"
  /\ x.op \in {"connect", "verify", "start"} => x.src \in Offered
  /\ x.op = "connect" /\ x.step = "valid" => x.key \in Slugs
  /\ x.op = "start" /\ x.ans = "ok" => x.key \in Slugs
  /\ x.op = "verify" \/ (x.op = "connect" /\ x.ans = "ok") =>
       x.key \in Slugs /\ conn[<<x.key, x.src>>] # "none"
  /\ x.page => open

\* At the page: what section 2 waits for and what it calls ready began with the
\* key the page has, or with the one that a sign-in has replaced since.
Connects(x) == x.page /\ x.op \in {"connect", "verify"}
Belongs(o) == o = key \/ switched
ConnectingFollows ==
  /\ phase = "auth" => form = Fresh /\ ~switched /\ \A x \in net : ~Connects(x)
  /\ \A x \in net : Connects(x) => Belongs(x.key)
  /\ \A s \in Offered : form[s] = "ready" =>
       \E o \in Slugs : conn[<<o, s>>] # "none" /\ Belongs(o)

IInv ==
  /\ TypeOK /\ OneCreation /\ ConnectingFollows
  /\ \A x \in net : RequestIsSound(x)
  /\ polls # NoKey => open
=============================================================================
