------------------------------ MODULE Services ------------------------------
(***************************************************************************)
(* Six services that people and programs wait for and that share no state: *)
(* the resolver of users and products, the rate limiter, the Slack bot,    *)
(* the issue list of the dashboard, the reports made from the issues and   *)
(* the circuit breaker, side by side for their instances and their proofs. *)
(***************************************************************************)
EXTENDS Resolver

CONSTANTS
  Callers, maxTokens, refillRate, refillIntervalMs, maxWaitMs, MaxSkew, Empty, MaxTime,
  Engineers, Guests, Turns, HistoryLimit, MaxConversations, MaxCommands, ToolRounds,
  RateWindow, MaxMessages, MaxClock, MaxSlackFaults,
  listSeverity, categoryOf, PAGE_SIZE, MaxClicks, MaxOthers,
  typeOf, severityOf, userOf, centsOf, NoUser, NoReport, Window, MinCluster, Horizon,
  AiSize, AiTitles, Period, SomeCents, SomeUsers, Few, MaxNow, MaxMoves, MaxReports,
  ProviderCalls, failureThreshold, resetTimeout, halfOpenMaxAttempts, Never, MaxResets

VARIABLES
  now, bucket, caller, since, spent,
  messages, turn, stored, rate, clock, shown, disturbed, passed, slackFaults,
  marked, filter, page, cache, selected, posts, bulk, failed, seen, clicks, others,
  today, status, created, updated, metrics, truth, report, moves, reports,
  state, failureCount, successCount, lastFailure, running, healthy, streak, opened, resets

limiter == <<now, bucket, caller, since, spent>>
bot == <<messages, turn, stored, rate, clock, shown, disturbed, passed, slackFaults>>
list == <<marked, filter, page, cache, selected, posts, bulk, failed, seen, clicks, others>>
reporting == <<today, status, created, updated, metrics, truth, report, moves, reports>>
breaker == <<state, failureCount, successCount, lastFailure, running, healthy, streak, opened, resets>>

Limiter == INSTANCE RateLimiter

Bot == INSTANCE SlackBot WITH Window <- RateWindow, MaxFaults <- MaxSlackFaults

List == INSTANCE IssueList WITH status <- marked, severityOf <- listSeverity

Reports == INSTANCE IssueReports WITH now <- today

Breaker == INSTANCE CircuitBreaker WITH Calls <- ProviderCalls

ASSUME ServicesAssumption ==
  /\ Limiter!Parameters /\ Bot!Parameters /\ List!Parameters /\ Reports!Parameters
  /\ Breaker!Parameters

\* The properties of the instances, under their own names.
LimiterKeepsItsWord == Limiter!LimiterKeepsItsWord
ConversationsHold == Bot!ConversationsHold
SelectionIsMeant == List!SelectionIsMeant
IncidentKeepsItsName == Reports!IncidentKeepsItsName
ReportIsSound == Reports!ReportIsSound
OpensOnStreak == Breaker!OpensOnStreak
CoolsDown == Breaker!CoolsDown
=============================================================================
