---------------------------- MODULE RateLimiter ----------------------------
(***************************************************************************)
(* queue/rate-limiter.ts and middleware/rate-limit.ts: a bucket of tokens  *)
(* in Redis that the requests of several servers draw on.  A server reads  *)
(* its own clock, sends it along and the script, which Redis runs in one   *)
(* piece, fills the bucket up to that time and takes the tokens: so the    *)
(* times a bucket sees come from different clocks and in any order.        *)
(*                                                                         *)
(* A caller is a request of the API (tryConsume, once) or one that waits   *)
(* for its tokens (consume).                                               *)
(***************************************************************************)
EXTENDS Integers, FiniteSets

CONSTANTS
  Callers,          \* requests at a time
  maxTokens, refillRate, refillIntervalMs,
  maxWaitMs,        \* how long consume waits altogether
  MaxSkew,          \* how far two clocks may be apart
  Empty,            \* no bucket in Redis
  MaxTime           \* bound: time

\* What the parameters have to be.
Parameters ==
  /\ {maxTokens, refillRate, refillIntervalMs} \subseteq Nat \ {0}
  /\ {maxWaitMs, MaxSkew, MaxTime} \subseteq Nat
  /\ Empty \notin [tokens : Int, lastRefill : Int]

VARIABLES
  now,       \* the time
  bucket,    \* HMGET tokens, lastRefill
  caller,    \* caller[c]: where c is, the tokens and time it has sent, how long it has waited
  since,     \* history: lastRefill when the counting began
  spent      \* history: tokens given out from then on

vars == <<now, bucket, caller, since, spent>>

Requests == 1..maxTokens
Resting == [at |-> "idle", tokens |-> 1, time |-> 0, waited |-> 0]
CallerStates ==
  [at : {"idle", "asking", "waiting", "asleep"}, tokens : Requests,
   time : Nat, waited : Nat]

TypeOK ==
  /\ now \in Nat
  /\ bucket \in [tokens : 0..maxTokens, lastRefill : Nat] \cup {Empty}
  /\ caller \in [Callers -> CallerStates]
  /\ since \in Nat /\ spent \in Nat

Init ==
  /\ now = 0
  /\ bucket = Empty
  /\ caller = [c \in Callers |-> Resting]
  /\ since = 0 /\ spent = 0

Tick ==
  /\ now < MaxTime /\ now' = now + 1
  /\ UNCHANGED <<bucket, caller, since, spent>>

AtMost(n, max) == IF n > max THEN max ELSE n
-----------------------------------------------------------------------------
\* Mutant: the time of the last request is the time of the last refill.
Filled_OldClock(b, time) ==
  LET k == (time - b.lastRefill) \div refillIntervalMs IN
  IF k > 0 THEN [tokens |-> AtMost(b.tokens + k * refillRate, maxTokens),
                 lastRefill |-> b.lastRefill + k * refillIntervalMs]
           ELSE [b EXCEPT !.lastRefill = time]

\* Mutant: the bucket overflows.
Filled_NoCap(b, time) ==
  LET k == (time - b.lastRefill) \div refillIntervalMs IN
  IF k > 0 THEN [tokens |-> b.tokens + k * refillRate,
                 lastRefill |-> b.lastRefill + k * refillIntervalMs]
           ELSE b

\* The bucket at that time: full intervals only, and never for a time before
\* the last one.
Filled(b, time) ==
  LET k == (time - b.lastRefill) \div refillIntervalMs IN
  IF k > 0 THEN [tokens |-> AtMost(b.tokens + k * refillRate, maxTokens),
                 lastRefill |-> b.lastRefill + k * refillIntervalMs]
           ELSE b

Bucket(time) ==
  IF bucket = Empty THEN [tokens |-> maxTokens, lastRefill |-> time] ELSE Filled(bucket, time)

\* As many intervals as it takes to fill in what is missing.
WaitMs(b, n) == ((n - b.tokens + refillRate - 1) \div refillRate) * refillIntervalMs

Clocks == now..(now + MaxSkew)

\* tryConsume reads the clock and sends the script: of a request, of a waiter.
Ask(c) ==
  /\ caller[c].at = "idle"
  /\ \E at \in {"asking", "waiting"}, n \in Requests, time \in Clocks :
       caller' = [caller EXCEPT ![c] = [at |-> at, tokens |-> n, time |-> time, waited |-> 0]]
  /\ UNCHANGED <<now, bucket, since, spent>>

\* The script ...
Asking(c) == caller[c].at \in {"asking", "waiting"}
Saves(b) ==
  /\ bucket' = b
  /\ since' = IF bucket = Empty THEN b.lastRefill ELSE since

Grant(c) ==
  LET b == Bucket(caller[c].time) n == caller[c].tokens IN
  /\ Asking(c) /\ b.tokens >= n
  /\ Saves([b EXCEPT !.tokens = @ - n])
  /\ spent' = spent + n
  /\ caller' = [caller EXCEPT ![c] = Resting]
  /\ UNCHANGED now

\* ... which tells a caller it refuses how long to wait: a request is answered
\* with it, a waiter sleeps, if not longer than it may.
Refuse(c) ==
  LET b == Bucket(caller[c].time)
      wait == AtMost(WaitMs(b, caller[c].tokens), maxWaitMs - caller[c].waited) IN
  /\ Asking(c) /\ b.tokens < caller[c].tokens
  /\ Saves(b)
  /\ caller' = IF caller[c].at = "asking" \/ wait <= 0 THEN [caller EXCEPT ![c] = Resting]
               ELSE [caller EXCEPT ![c].at = "asleep", ![c].time = now + wait, ![c].waited = @ + wait]
  /\ UNCHANGED <<now, spent>>

\* consume tries again, but for a waiter who has waited long enough: it throws.
Wake(c) ==
  /\ caller[c].at = "asleep" /\ now >= caller[c].time
  /\ IF caller[c].waited < maxWaitMs
     THEN \E time \in Clocks :
            caller' = [caller EXCEPT ![c].at = "waiting", ![c].time = time]
     ELSE caller' = [caller EXCEPT ![c] = Resting]
  /\ UNCHANGED <<now, bucket, since, spent>>

\* Redis does not answer: a request passes uncounted, a waiter gets an error.
FailOpen(c) ==
  /\ Asking(c) /\ caller' = [caller EXCEPT ![c] = Resting]
  /\ UNCHANGED <<now, bucket, since, spent>>

\* A bucket is gone five minutes after its last use, or with its Redis.
Expire ==
  /\ bucket # Empty /\ bucket' = Empty
  /\ spent' = 0
  /\ UNCHANGED <<now, caller, since>>

\* History: counting begins anew at any moment.
Count ==
  /\ bucket # Empty /\ spent > 0
  /\ since' = bucket.lastRefill /\ spent' = 0
  /\ UNCHANGED <<now, bucket, caller>>

Next ==
  \/ Tick \/ Expire \/ Count
  \/ \E c \in Callers : Ask(c) \/ Grant(c) \/ Refuse(c) \/ Wake(c) \/ FailOpen(c)

Spec == Init /\ [][Next]_vars
-----------------------------------------------------------------------------
\* From whatever moment one counts, no more is given out than a full bucket and
\* what the full intervals since its last refill bring, by the fastest of the
\* servers' clocks: neither a request that comes late, with an older time than
\* the one before, nor a bucket that was long unused gives out tokens twice
\* (rate-limiter.ts:52-90).
BurstIsBounded ==
  spent <= maxTokens + refillRate * ((now + MaxSkew - since) \div refillIntervalMs)

\* A caller that is told to wait finds the tokens it asked for, if nobody else
\* takes them, that long after it asked: the Retry-After of the API is no vain
\* promise.  One whose clock was behind the last refill, which a faster server
\* made, finds them that long after the refill: it is told to wait too short a
\* time, by the difference of the clocks (rate-limiter.ts:64-84,
\* rate-limit.ts:54-58).
Later(time, other) == IF time < other THEN other ELSE time
RetryAfterIsEnough ==
  \A time \in Clocks, n \in Requests :
    LET b == Bucket(time) IN
    b.tokens < n => Filled(b, Later(time, b.lastRefill) + WaitMs(b, n)).tokens >= n

\* Nobody gets more than the limit, nor is kept waiting for nothing.
LimiterKeepsItsWord == BurstIsBounded /\ RetryAfterIsEnough
-----------------------------------------------------------------------------
\* The inductive invariant behind BurstIsBounded.  No time a bucket has seen or
\* is going to see lies ahead of the fastest clock ...
TimesAgree ==
  /\ since <= now + MaxSkew
  /\ bucket # Empty => bucket.lastRefill <= now + MaxSkew
  /\ \A c \in Callers : Asking(c) => caller[c].time <= now + MaxSkew

\* ... and what was given out and what is left came with the k intervals the
\* bucket was filled up for.
SpentIsCovered ==
  IF bucket = Empty THEN spent = 0
  ELSE \E k \in Nat : /\ bucket.lastRefill = since + k * refillIntervalMs
                      /\ spent + bucket.tokens <= maxTokens + refillRate * k

IInv == TypeOK /\ TimesAgree /\ SpentIsCovered
=============================================================================
