-------------------------- MODULE EntitlementTable --------------------------
(***************************************************************************)
(* The entitlement state machine of src/src/entitlement/engine.ts as data: *)
(* the states, the canonical event types and the table STATE_TRANSITIONS,  *)
(* one triple <<state, event type, next state>> per entry of the table.    *)
(***************************************************************************)

\* EntitlementState, models/types.ts
States == {"inactive", "trial", "active", "grace_period", "billing_retry",
           "past_due", "paused", "expired", "revoked", "refunded"}

\* EventType, models/types.ts
EventTypes == {"purchase", "renewal", "cancellation", "refund", "chargeback",
               "grace_period_start", "grace_period_end", "billing_retry",
               "expiration", "trial_start", "trial_conversion", "upgrade",
               "downgrade", "crossgrade", "pause", "resume", "revoke",
               "offer_redeemed", "price_change"}

\* Entries of one row of the table that lead to the same state.
On(s, types, t) == {<<s, type, t>> : type \in types}

STATE_TRANSITIONS ==
  UNION {
    On("inactive", {"purchase", "offer_redeemed", "renewal"}, "active"),
    On("inactive", {"trial_start"}, "trial"),
    On("trial", {"trial_conversion", "purchase"}, "active"),
    On("trial", {"cancellation"}, "trial"),
    On("trial", {"expiration"}, "expired"),
    On("trial", {"refund"}, "refunded"),
    On("active", {"renewal", "cancellation", "upgrade", "downgrade",
                  "crossgrade", "price_change"}, "active"),
    On("active", {"grace_period_start"}, "grace_period"),
    On("active", {"billing_retry"}, "billing_retry"),
    On("active", {"expiration"}, "expired"),
    On("active", {"refund", "chargeback"}, "refunded"),
    On("active", {"revoke"}, "revoked"),
    On("active", {"pause"}, "paused"),
    On("grace_period", {"renewal"}, "active"),
    On("grace_period", {"grace_period_end", "billing_retry"}, "billing_retry"),
    On("grace_period", {"expiration"}, "expired"),
    On("grace_period", {"refund"}, "refunded"),
    On("billing_retry", {"renewal"}, "active"),
    On("billing_retry", {"billing_retry"}, "billing_retry"),
    On("billing_retry", {"expiration"}, "expired"),
    On("billing_retry", {"refund"}, "refunded"),
    On("past_due", {"renewal", "purchase"}, "active"),
    On("past_due", {"expiration"}, "expired"),
    On("past_due", {"refund"}, "refunded"),
    On("paused", {"resume"}, "active"),
    On("paused", {"expiration", "cancellation"}, "expired"),
    On("expired", {"purchase", "renewal", "offer_redeemed"}, "active"),
    On("expired", {"trial_start"}, "trial"),
    On("revoked", {"purchase"}, "active"),
    On("refunded", {"purchase"}, "active") }

HasTransition(s, type) == \E t \in States : <<s, type, t>> \in STATE_TRANSITIONS

NextState(s, type) == CHOOSE t \in States : <<s, type, t>> \in STATE_TRANSITIONS

\* The states in which the user should have access (shouldHaveAccess of the
\* table's targets, and hasAccess()).
AccessStates == {"trial", "active", "grace_period", "billing_retry"}
=============================================================================
