--------------------------- MODULE CircuitBreaker ---------------------------
(***************************************************************************)
(* security/circuit-breaker.ts: the breaker around the calls to the        *)
(* billing providers' APIs.  Calls overlap: a call is let through in one   *)
(* state of the breaker and its result arrives in another.                 *)
(*                                                                         *)
(* Time is the number of ticks since the last failure, counted up to the   *)
(* reset timeout, beyond which the code tells no times apart; likewise     *)
(* failureCount is counted up to the threshold.                            *)
(***************************************************************************)
EXTENDS Naturals

CONSTANTS
  Calls,                \* concurrent calls
  failureThreshold, resetTimeout, halfOpenMaxAttempts,
  Never,                \* lastFailureTime = null
  MaxResets             \* bound: calls of reset()

\* What the parameters have to be.
Parameters ==
  /\ {failureThreshold, resetTimeout, halfOpenMaxAttempts} \subseteq Nat \ {0}
  /\ Never \notin Nat /\ MaxResets \in Nat

ASSUME BreakerAssumption == Parameters

VARIABLES
  state, failureCount, successCount,
  lastFailure,   \* ticks since lastFailureTime, or Never
  running,       \* the calls let through and not yet answered
  healthy,       \* the provider answers again, for good
  streak,        \* history: failures in a row since the breaker was last closed
  opened,        \* history: ticks since the breaker last opened
  resets

vars == <<state, failureCount, successCount, lastFailure, running,
          healthy, streak, opened, resets>>
fields == <<state, failureCount, successCount, lastFailure>>

TypeOK ==
  /\ state \in {"CLOSED", "OPEN", "HALF_OPEN"}
  /\ failureCount \in 0..failureThreshold
  /\ successCount \in 0..(halfOpenMaxAttempts - 1)
  /\ lastFailure \in 0..resetTimeout \cup {Never}
  /\ running \subseteq Calls
  /\ healthy \in BOOLEAN
  /\ streak \in 0..failureThreshold
  /\ opened \in 0..resetTimeout
  /\ resets \in Nat

Init ==
  /\ state = "CLOSED" /\ failureCount = 0 /\ successCount = 0
  /\ lastFailure = Never
  /\ running = {} /\ healthy = FALSE
  /\ streak = 0 /\ opened = 0
  /\ resets = MaxResets

UpTo(n, max) == IF n > max THEN max ELSE n
-----------------------------------------------------------------------------
\* Mutant: closing does not reset the count of failures.
TransitionTo_KeepCount(s, fails) ==
  /\ state' = s
  /\ successCount' = 0
  /\ failureCount' = fails

\* transitionTo, with fails the failureCount so far.
TransitionTo(s, fails) ==
  /\ state' = s
  /\ successCount' = 0
  /\ failureCount' = IF s = "CLOSED" THEN 0 ELSE fails

TimedOut == lastFailure # Never /\ lastFailure >= resetTimeout

\* execute lets a call through ...
Start(c) ==
  /\ c \notin running
  /\ state # "OPEN"
  /\ running' = running \cup {c}
  /\ UNCHANGED <<fields, healthy, streak, opened, resets>>

\* ... also as the first one after the timeout; every other one is refused.
StartHalfOpen(c) ==
  /\ c \notin running
  /\ state = "OPEN" /\ TimedOut
  /\ TransitionTo("HALF_OPEN", failureCount)
  /\ running' = running \cup {c}
  /\ UNCHANGED <<lastFailure, healthy, streak, opened, resets>>

Answer(c) == c \in running /\ running' = running \ {c}

\* Mutant: successes are not counted while half-open.
OnSuccess_NotCounted ==
  \/ /\ state # "CLOSED"
     /\ UNCHANGED <<state, failureCount, successCount>>
  \/ /\ state = "CLOSED"
     /\ failureCount' = 0
     /\ UNCHANGED <<state, successCount>>

\* Mutant: the breaker closes one success too late.
OnSuccess_OneMore ==
  \/ /\ state = "HALF_OPEN" /\ successCount + 1 > halfOpenMaxAttempts
     /\ TransitionTo("CLOSED", failureCount)
  \/ /\ state = "HALF_OPEN" /\ successCount + 1 <= halfOpenMaxAttempts
     /\ successCount' = successCount + 1
     /\ UNCHANGED <<state, failureCount>>
  \/ /\ state = "CLOSED"
     /\ failureCount' = 0
     /\ UNCHANGED <<state, successCount>>
  \/ /\ state = "OPEN"
     /\ UNCHANGED <<state, failureCount, successCount>>

OnSuccess ==
  \/ /\ state = "HALF_OPEN" /\ successCount + 1 >= halfOpenMaxAttempts
     /\ TransitionTo("CLOSED", failureCount)
  \/ /\ state = "HALF_OPEN" /\ successCount + 1 < halfOpenMaxAttempts
     /\ successCount' = successCount + 1
     /\ UNCHANGED <<state, failureCount>>
  \/ /\ state = "CLOSED"
     /\ failureCount' = 0
     /\ UNCHANGED <<state, successCount>>
  \/ /\ state = "OPEN"
     /\ UNCHANGED <<state, failureCount, successCount>>

Succeed(c) ==
  /\ Answer(c)
  /\ OnSuccess
  /\ streak' = 0
  /\ UNCHANGED <<lastFailure, healthy, opened, resets>>

\* Mutant: the clock is not restarted by a failure in half-open.
OnFailure_OldClock ==
  /\ lastFailure' = IF state = "HALF_OPEN" THEN lastFailure ELSE 0
  /\ \/ /\ state = "HALF_OPEN"
        /\ TransitionTo("OPEN", failureCount)
     \/ /\ state # "HALF_OPEN" /\ failureCount + 1 >= failureThreshold
        /\ TransitionTo("OPEN", failureThreshold)
     \/ /\ state # "HALF_OPEN" /\ failureCount + 1 < failureThreshold
        /\ failureCount' = failureCount + 1
        /\ UNCHANGED <<state, successCount>>

\* What the code calls the closed state is also reached while open, by the
\* failure of a call that was let through before.
OnFailure ==
  /\ lastFailure' = 0
  /\ \/ /\ state = "HALF_OPEN"
        /\ TransitionTo("OPEN", failureCount)
     \/ /\ state # "HALF_OPEN" /\ failureCount + 1 >= failureThreshold
        /\ TransitionTo("OPEN", failureThreshold)
     \/ /\ state # "HALF_OPEN" /\ failureCount + 1 < failureThreshold
        /\ failureCount' = failureCount + 1
        /\ UNCHANGED <<state, successCount>>

Fail(c) ==
  /\ Answer(c)
  /\ OnFailure
  /\ streak' = UpTo(streak + 1, failureThreshold)
  /\ opened' = IF state # "OPEN" /\ state' = "OPEN" THEN 0 ELSE opened
  /\ UNCHANGED <<healthy, resets>>

\* reset()
Reset ==
  /\ resets > 0
  /\ resets' = resets - 1
  /\ TransitionTo("CLOSED", failureCount)
  /\ lastFailure' = Never
  /\ streak' = 0
  /\ UNCHANGED <<running, healthy, opened>>

Tick ==
  /\ lastFailure # Never
  /\ lastFailure' = UpTo(lastFailure + 1, resetTimeout)
  /\ opened' = UpTo(opened + 1, resetTimeout)
  /\ UNCHANGED <<state, failureCount, successCount, running, healthy,
                 streak, resets>>

\* From here on the provider answers.
Heal ==
  /\ ~healthy /\ healthy' = TRUE
  /\ UNCHANGED <<fields, running, streak, opened, resets>>

Call(c) == Start(c) \/ StartHalfOpen(c)
Answered(c) == Succeed(c) \/ (~healthy /\ Fail(c))

Next ==
  \/ \E c \in Calls : Call(c) \/ Answered(c)
  \/ Reset \/ Tick \/ Heal

Spec == Init /\ [][Next]_vars

\* Time passes, work keeps coming and calls are answered, one or another.
Fairness ==
  /\ WF_vars(Tick)
  /\ WF_vars(\E c \in Calls : Call(c)) /\ WF_vars(\E c \in Calls : Answered(c))
FairSpec == Spec /\ Fairness
-----------------------------------------------------------------------------
\* The breaker goes from closed to open only on failureThreshold failures in a
\* row: answers to calls of an earlier open or half-open period leave nothing
\* behind (circuit-breaker.ts:79-93, 101-103).
OpensOnStreak ==
  [][state = "CLOSED" /\ state' = "OPEN" => streak' = failureThreshold]_vars

\* No call is let through before the reset timeout has passed since the
\* breaker opened, however late failures arrive (circuit-breaker.ts:48-55).
CoolsDown ==
  [][running' \ running # {} /\ state = "OPEN" => opened = resetTimeout]_vars

\* An open breaker has a clock that will let a call through: a reset in the
\* middle never leaves it open for ever (circuit-breaker.ts:50, 131-134).
OpenHasAClock == state = "OPEN" => lastFailure # Never

\* Once the provider answers for good, the breaker is closed for good.
Recovers == <>healthy => <>[](state = "CLOSED")
-----------------------------------------------------------------------------
\* The inductive invariant: while the breaker is closed failureCount is the real
\* streak, and while it is open its clock is no older than its opening, though
\* late failures restart the clock.
CountsTheStreak == state = "CLOSED" => failureCount = streak /\ streak < failureThreshold
ClockSinceOpening == state = "OPEN" => lastFailure # Never /\ lastFailure <= opened

IInv == TypeOK /\ CountsTheStreak /\ ClockSinceOpening
=============================================================================
