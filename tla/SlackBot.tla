------------------------------ MODULE SlackBot ------------------------------
(***************************************************************************)
(* slack/: the bot of the customer experience engineers.  A message that   *)
(* mentions it starts a turn: the handler answers Slack at once and goes   *)
(* on by itself, reads the conversation of the thread from Redis, asks     *)
(* Claude, which may ask back for data, stores the conversation with the   *)
(* new answer and posts it.  Turns overlap, also those of one thread, and  *)
(* Slack delivers a message again (as app_mention and as message).         *)
(*                                                                         *)
(* A conversation is a sequence of roles with the message they belong to;  *)
(* what Claude says is text, a call of tools, or both.  The tools only     *)
(* read.  An attempt that a limit counts is a delivery and its time.       *)
(***************************************************************************)
EXTENDS Integers, Sequences, FiniteSets

CONSTANTS
  Engineers, Guests,    \* on the allowlist or not
  Turns,                \* turns at a time
  HistoryLimit,         \* messages kept of a conversation (10): whole exchanges
  MaxConversations,     \* MAX_AI_CONVERSATIONS_PER_HOUR
  MaxCommands,          \* MAX_COMMANDS_PER_MIN
  ToolRounds,           \* 3
  Window,               \* the window both limits look back
  MaxMessages, MaxClock, MaxFaults   \* bounds: messages in Slack, time, faults

\* What the parameters have to be.
Parameters ==
  /\ {HistoryLimit, MaxConversations, MaxCommands, Window, MaxMessages} \subseteq Nat \ {0}
  /\ {ToolRounds, MaxClock, MaxFaults} \subseteq Nat
  /\ HistoryLimit % 2 = 0 /\ Engineers \cap Guests = {}

VARIABLES
  messages,    \* what people wrote, to the bot or as commands: by whom, the message
               \* their thread began with, how often Slack delivered it
  turn,        \* turn[t]: where it is, its message, its conversation, the rounds, what Claude said
  stored,      \* stored[k]: the conversation of thread k in Redis
  rate,        \* rate[kind][u]: the attempts kept by checkAiRate and checkCommandRate
  clock,
  shown,       \* shown[k]: the messages answered in thread k, in order
  disturbed,   \* history: threads whose turns overlapped or met a fault or expired
  passed,      \* history: passed[kind][u]: the attempts of the window that passed
  slackFaults

vars == <<messages, turn, stored, rate, clock, shown, disturbed, passed, slackFaults>>

People == Engineers \cup Guests
Ids == 1..MaxMessages
Kinds == {"conversation", "command"}
MaxOf(kind) == IF kind = "command" THEN MaxCommands ELSE MaxConversations
Entries == [role : {"user", "assistant"}, msg : Ids]
Attempts == [of : Ids, came : 1..2, at : Nat]
Contents == {"text", "tools", "both"}
Resting == [at |-> "idle", msg |-> 1, history |-> <<>>, round |-> 0, content |-> "text"]

TypeOK ==
  /\ messages \in Seq([user : People, thread : Ids, came : 0..2])
  /\ turn \in [Turns -> [at : {"idle", "loading", "calling", "saving", "posting"}, msg : Ids,
                         history : Seq(Entries), round : 0..ToolRounds, content : Contents]]
  /\ stored \in [Ids -> Seq(Entries)]
  /\ {rate, passed} \subseteq [Kinds -> [People -> SUBSET Attempts]]
  /\ clock \in Nat /\ slackFaults \in Nat
  /\ shown \in [Ids -> Seq(Ids)] /\ disturbed \subseteq Ids

Init ==
  /\ messages = <<>>
  /\ turn = [t \in Turns |-> Resting]
  /\ stored = [k \in Ids |-> <<>>] /\ shown = [k \in Ids |-> <<>>]
  /\ rate = [kind \in Kinds |-> [u \in People |-> {}]] /\ passed = rate
  /\ clock = 0 /\ disturbed = {} /\ slackFaults = 0

\* conversationKey
Key(m) == messages[m].thread
End(t) == turn' = [turn EXCEPT ![t] = Resting]
Fault == slackFaults < MaxFaults /\ slackFaults' = slackFaults + 1
-----------------------------------------------------------------------------
\* Someone writes to the bot, in a thread or to begin one.
Say(u) ==
  LET m == Len(messages) + 1 IN
  /\ m <= MaxMessages
  /\ \E k \in {Key(i) : i \in 1..(m - 1)} \cup {m} :
       messages' = Append(messages, [user |-> u, thread |-> k, came |-> 0])
  /\ UNCHANGED <<turn, stored, rate, clock, shown, disturbed, passed, slackFaults>>

Recent(attempts) == {a \in attempts : a.at > clock - Window}

\* checkAiRate, checkCommandRate: attempts count, also the refused ones.
Passes(kind, u) == Cardinality(Recent(rate[kind][u])) + 1 <= MaxOf(kind)

Attempt(kind, u, m, came) ==
  LET a == [of |-> m, came |-> came, at |-> clock] IN
  /\ rate' = [rate EXCEPT ![kind][u] = Recent(@) \cup {a}]
  /\ passed' = IF Passes(kind, u) THEN [passed EXCEPT ![kind][u] = @ \cup {a}] ELSE passed

IsCxEngineer(u) == u \in Engineers

\* POST /events and the beginning of handleConversation, up to its first wait;
\* who is not on the list or over the limit gets a refusal.
Deliver(m) ==
  LET u == messages[m].user
      free == {o \in Turns : turn[o].at = "idle"}
      t == CHOOSE o \in free : TRUE IN
  /\ messages[m].came < 2 /\ free # {}
  /\ IF messages[m].came = 0 THEN UNCHANGED slackFaults ELSE Fault
  /\ messages' = [messages EXCEPT ![m].came = @ + 1]
  /\ IF IsCxEngineer(u) THEN Attempt("conversation", u, m, messages[m].came + 1) ELSE UNCHANGED <<rate, passed>>
  /\ turn' = IF IsCxEngineer(u) /\ Passes("conversation", u)
             THEN [turn EXCEPT ![t] = [Resting EXCEPT !.at = "loading", !.msg = m]]
             ELSE turn
  /\ UNCHANGED <<stored, clock, shown, disturbed>>

\* POST /commands: /rb
Command(u) ==
  LET m == Len(messages) + 1 IN
  /\ m <= MaxMessages
  /\ messages' = Append(messages, [user |-> u, thread |-> m, came |-> 2])
  /\ IF IsCxEngineer(u) THEN Attempt("command", u, m, 1) ELSE UNCHANGED <<rate, passed>>
  /\ UNCHANGED <<turn, stored, clock, shown, disturbed, slackFaults>>

\* Mutant: the conversation is looked up under the message, not the thread.
Loaded_OfMessage(m) == stored[m]

Loaded(m) == stored[Key(m)]

Overlaps(t) ==
  \E o \in Turns \ {t} : turn[o].at \in {"calling", "saving", "posting"} /\ Key(turn[o].msg) = Key(turn[t].msg)

\* loadConversationHistory: without Redis the conversation begins anew.
Load(t) ==
  LET m == turn[t].msg IN
  /\ turn[t].at = "loading"
  /\ \E answers \in BOOLEAN :
       /\ turn' = [turn EXCEPT ![t].at = "calling",
                     ![t].history = Append(IF answers THEN Loaded(m) ELSE <<>>, [role |-> "user", msg |-> m])]
       /\ IF answers THEN UNCHANGED slackFaults ELSE Fault
       /\ disturbed' = IF answers /\ ~Overlaps(t) THEN disturbed ELSE disturbed \cup {Key(m)}
  /\ UNCHANGED <<messages, stored, rate, clock, shown, passed>>

\* An answer that is nothing but calls of tools is no answer: Slack sees none.
Answered(t, content) ==
  IF content = "tools" THEN End(t)
  ELSE turn' = [turn EXCEPT ![t] = [@ EXCEPT !.at = "saving", !.round = 0, !.content = "text"]]

\* runConversationTurn: one call of Claude, and the tools it asks for.  When
\* Claude fails after some rounds what it said before is the answer.  The calls
\* after the first send its reply and the results as well, an exchange of
\* "assistant" and "user" that is forgotten with the turn.
CallClaude(t) ==
  /\ turn[t].at = "calling"
  /\ \/ \E content \in Contents :
          IF content # "text" /\ turn[t].round < ToolRounds
          THEN turn' = [turn EXCEPT ![t].round = @ + 1, ![t].content = content]
          ELSE Answered(t, content)
     \/ IF turn[t].round = 0 THEN End(t) ELSE Answered(t, turn[t].content)
  /\ UNCHANGED <<messages, stored, rate, clock, shown, disturbed, passed, slackFaults>>

LastOf(s, n) == SubSeq(s, IF Len(s) > n THEN Len(s) - n + 1 ELSE 1, Len(s))

Trimmed(h) == LastOf(h, HistoryLimit)

\* saveConversationHistory: an error is swallowed.
Save(t) ==
  LET k == Key(turn[t].msg) IN
  /\ turn[t].at = "saving"
  /\ turn' = [turn EXCEPT ![t] = [@ EXCEPT !.at = "posting", !.history = <<>>]]
  /\ \/ /\ stored' = [stored EXCEPT ![k] = Trimmed(Append(turn[t].history, [role |-> "assistant", msg |-> turn[t].msg]))]
        /\ UNCHANGED <<disturbed, slackFaults>>
     \/ /\ Fault /\ disturbed' = disturbed \cup {k}
        /\ UNCHANGED stored
  /\ UNCHANGED <<messages, rate, clock, shown, passed>>

\* postMessage: so is this one.
Post(t) ==
  LET k == Key(turn[t].msg) IN
  /\ turn[t].at = "posting" /\ End(t)
  /\ \/ shown' = [shown EXCEPT ![k] = Append(@, turn[t].msg)] /\ UNCHANGED <<disturbed, slackFaults>>
     \/ Fault /\ disturbed' = disturbed \cup {k} /\ UNCHANGED shown
  /\ UNCHANGED <<messages, stored, rate, clock, passed>>

\* CONVERSATION_TTL
Forget(k) ==
  /\ stored[k] # <<>> /\ stored' = [stored EXCEPT ![k] = <<>>]
  /\ disturbed' = disturbed \cup {k}
  /\ UNCHANGED <<messages, turn, rate, clock, shown, passed, slackFaults>>

\* The process restarts: its turns are gone, and so is what it counted.
Restart ==
  /\ Fault
  /\ turn' = [t \in Turns |-> Resting]
  /\ rate' = [kind \in Kinds |-> [u \in People |-> {}]] /\ passed' = rate'
  /\ disturbed' = disturbed \cup {Key(turn[t].msg) : t \in {o \in Turns : turn[o].at = "posting"}}
  /\ UNCHANGED <<messages, stored, clock, shown>>

Pass ==
  /\ clock < MaxClock /\ clock' = clock + 1
  /\ passed' = [kind \in Kinds |-> [u \in People |->
                  {a \in passed[kind][u] : a.at > clock' - Window}]]
  /\ UNCHANGED <<messages, turn, stored, rate, shown, disturbed, slackFaults>>

Next ==
  \/ \E u \in People : Say(u) \/ Command(u)
  \/ \E m \in 1..Len(messages) : Deliver(m)
  \/ \E t \in Turns : Load(t) \/ CallClaude(t) \/ Save(t) \/ Post(t)
  \/ \E k \in Ids : Forget(k)
  \/ Restart \/ Pass

Spec == Init /\ [][Next]_vars
-----------------------------------------------------------------------------
Exchanges(ms) ==
  [i \in 1..(2 * Len(ms)) |->
     [role |-> IF i % 2 = 1 THEN "user" ELSE "assistant", msg |-> ms[(i + 1) \div 2]]]

\* In a thread whose turns came one after the other the bot remembers the last
\* exchanges people see there, and nothing else (conversation.ts:150-172, 440-465).
RemembersThread ==
  \A k \in Ids \ disturbed :
    (\A t \in Turns : turn[t].at = "posting" => Key(turn[t].msg) # k) =>
      stored[k] = Trimmed(Exchanges(shown[k]))

\* Whatever overlaps, is lost or expires, what a turn sends to Claude first begins
\* with a person, takes turns, ends with the message at hand, and is no longer than
\* what is kept and that message (conversation.ts:153-154, 207-212, 455-459).
TakesTurns ==
  \A t \in Turns : turn[t].at = "calling" =>
    LET h == turn[t].history IN
    /\ Len(h) % 2 = 1 /\ Len(h) <= HistoryLimit + 1
    /\ \A i \in 1..Len(h) : h[i].role = (IF i % 2 = 1 THEN "user" ELSE "assistant")
    /\ h[Len(h)].msg = turn[t].msg

\* In no window of an hour does an engineer start more turns than the limit, nor
\* in a minute more commands, as long as the process lives (conversation.ts:24-33,
\* handler.ts:18-29).
RateIsBounded ==
  \A kind \in Kinds, u \in People : Cardinality(passed[kind][u]) <= MaxOf(kind)

\* Conversations hold together and the limits hold.
ConversationsHold == RemembersThread /\ TakesTurns /\ RateIsBounded
-----------------------------------------------------------------------------
\* The inductive invariant behind it.  What Redis has of a thread is whole
\* exchanges, and a turn adds its message ...
Alternates(h) ==
  \A i \in 1..Len(h) : h[i].role = (IF i % 2 = 1 THEN "user" ELSE "assistant")

StoredInPairs ==
  \A k \in Ids : Len(stored[k]) % 2 = 0 /\ Len(stored[k]) <= HistoryLimit /\ Alternates(stored[k])

Asks(t) == turn[t].at \in {"calling", "saving"}
AskedInTurn ==
  \A t \in Turns : Asks(t) =>
    LET h == turn[t].history IN
    /\ Len(h) % 2 = 1 /\ Len(h) <= HistoryLimit + 1 /\ Alternates(h)
    /\ h[Len(h)].msg = turn[t].msg

\* ... and a thread that nothing disturbed has at most one turn behind its
\* look-up, which knows what people saw.
Works(t, k) == turn[t].at \in {"calling", "saving", "posting"} /\ Key(turn[t].msg) = k
Remembered(ms) == Trimmed(Exchanges(ms))
ThreadAgrees(k) ==
  /\ \A t, o \in Turns : Works(t, k) /\ Works(o, k) => t = o
  /\ \A t \in Turns : Works(t, k) /\ Asks(t) =>
       turn[t].history = Append(Remembered(shown[k]), [role |-> "user", msg |-> turn[t].msg])
  /\ \A t \in Turns : Works(t, k) /\ turn[t].at = "posting" =>
       stored[k] = Remembered(Append(shown[k], turn[t].msg))
  /\ (\A t \in Turns : Works(t, k) => Asks(t)) => stored[k] = Remembered(shown[k])

\* What passed within the window was counted, and still is.
AttemptsAreCounted ==
  \A kind \in Kinds, u \in People :
    /\ IsFiniteSet(rate[kind][u]) /\ passed[kind][u] \subseteq Recent(rate[kind][u])
    /\ Cardinality(passed[kind][u]) <= MaxOf(kind)

TurnsHaveMessages ==
  /\ \A t \in Turns : turn[t].at # "idle" => turn[t].msg \in 1..Len(messages)
  /\ Len(messages) <= MaxMessages

IInv ==
  /\ TypeOK /\ TurnsHaveMessages /\ StoredInPairs /\ AskedInTurn /\ AttemptsAreCounted
  /\ \A k \in Ids \ disturbed : ThreadAgrees(k)
=============================================================================
