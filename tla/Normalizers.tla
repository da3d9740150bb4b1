---------------------------- MODULE Normalizers ----------------------------
(***************************************************************************)
(* What the four normalizers (ingestion/providers/) make of the            *)
(* notification of a provider: the types of its canonical events, in       *)
(* order, whether the pipeline finds a product for them (resolveProduct of *)
(* ingestion/pipeline.ts), and the identifiers by which it finds the user. *)
(*                                                                         *)
(* A notification is a record with the fields that are looked at.  Money,  *)
(* plan names and times of the events are left out.  n.of is the           *)
(* subscription a notification is about.                                   *)
(***************************************************************************)
EXTENDS Naturals, Sequences

When(condition, type) == IF condition THEN <<type>> ELSE <<>>

\* A table from keys to event types; a notification it skips is not in it.
Rows(keys, type) == {<<key, type>> : key \in keys}
Mapped(table, key) == \E row \in table : row[1] = key
TypeOf(table, key) == (CHOOSE row \in table : row[1] = key)[2]
LookUp(table, key) == IF Mapped(table, key) THEN <<TypeOf(table, key)>> ELSE <<>>
-----------------------------------------------------------------------------
STRIPE_EVENT_MAP ==
  UNION {
    Rows({"customer.subscription.created", "checkout.session.completed"}, "purchase"),
    Rows({"invoice.payment_succeeded"}, "renewal"),
    Rows({"invoice.payment_failed"}, "billing_retry"),
    Rows({"customer.subscription.deleted"}, "expiration"),
    Rows({"customer.subscription.paused"}, "pause"),
    Rows({"customer.subscription.resumed"}, "resume"),
    Rows({"charge.refunded"}, "refund"),
    Rows({"charge.dispute.created"}, "chargeback") }

\* prev: the attributes that changed, as they were.  An attribute that is not
\* there is undefined, and !undefined holds: an update of anything repeats the
\* cancellation of a subscription that is to end.
StripeUpdate(n) ==
  LET had(attribute) == attribute \in DOMAIN n.prev IN
       When(n.now.cancel /\ (had("cancel") => ~n.prev.cancel), "cancellation")
    \o When(n.now.status = "past_due" /\ had("status"), "billing_retry")
    \o When(n.now.status = "active" /\ had("status") /\ n.prev.status = "trialing",
            "trial_conversion")
    \o (IF had("price") THEN <<IF n.now.price > n.prev.price THEN "upgrade" ELSE "downgrade">>
                        ELSE <<>>)

\* Mutant: the end that was scheduled is expected with an update.
StripeNormalize_NoDeleted(n) ==
  CASE n.type = "customer.subscription.updated" -> StripeUpdate(n)
    [] n.type = "customer.subscription.deleted" -> <<>>
    [] OTHER -> LookUp(STRIPE_EVENT_MAP, n.type)

StripeNormalize(n) ==
  IF n.type = "customer.subscription.updated" THEN StripeUpdate(n)
                                              ELSE LookUp(STRIPE_EVENT_MAP, n.type)

\* The product stands in the items of a subscription and the lines of an
\* invoice, not in a charge or a checkout session.
StripeHasProduct(n) == n.object \in {"subscription", "invoice"}
StripeHints(n) == {<<n.of, "customer_id">>}
-----------------------------------------------------------------------------
APPLE_EVENT_MAP ==
  UNION {
    Rows({<<"SUBSCRIBED", "INITIAL_BUY">>, <<"SUBSCRIBED", "RESUBSCRIBE">>}, "purchase"),
    Rows({<<"DID_RENEW", "">>, <<"DID_RENEW", "BILLING_RECOVERY">>, <<"RENEWAL_EXTENDED", "">>},
         "renewal"),
    Rows({<<"DID_FAIL_TO_RENEW", "">>}, "billing_retry"),
    Rows({<<"DID_FAIL_TO_RENEW", "GRACE_PERIOD">>}, "grace_period_start"),
    Rows({<<"GRACE_PERIOD_EXPIRED", "">>}, "grace_period_end"),
    Rows({<<"DID_CHANGE_RENEWAL_STATUS", "AUTO_RENEW_DISABLED">>}, "cancellation"),
    Rows({<<"DID_CHANGE_RENEWAL_STATUS", "AUTO_RENEW_ENABLED">>}, "resume"),
    Rows({"EXPIRED"} \X {"VOLUNTARY", "BILLING_RETRY", "PRICE_INCREASE", "PRODUCT_NOT_FOR_SALE"},
         "expiration"),
    Rows({<<"REFUND", "">>}, "refund"),
    Rows({<<"REVOKE", "">>}, "revoke"),
    Rows({"OFFER_REDEEMED"} \X {"INITIAL_BUY", "RESUBSCRIBE", "UPGRADE", "DOWNGRADE"},
         "offer_redeemed"),
    Rows({"PRICE_INCREASE"} \X {"PENDING", "ACCEPTED"}, "price_change") }

\* Of a type that is mapped only without a subtype a new subtype finds no
\* mapping either: the call throws instead of returning nothing (apple.ts:195-204,
\* 222).  No event comes of it; the attempts of its job are module Ingestion's.
AppleNormalize(n) == LookUp(APPLE_EVENT_MAP, n.type)
AppleHasProduct(n) == TRUE
AppleHints(n) == {<<n.of, "original_transaction_id">>, <<"app", "bundle_id">>}
-----------------------------------------------------------------------------
SUBSCRIPTION_NOTIFICATION_MAP ==
  UNION {
    Rows({"RECOVERED", "RENEWED"}, "renewal"),
    Rows({"CANCELED"}, "cancellation"),
    Rows({"PURCHASED"}, "purchase"),
    Rows({"ON_HOLD"}, "billing_retry"),
    Rows({"IN_GRACE_PERIOD"}, "grace_period_start"),
    Rows({"RESTARTED"}, "resume"),
    Rows({"PRICE_CHANGE_CONFIRMED"}, "price_change"),
    Rows({"PAUSED"}, "pause"),
    Rows({"REVOKED"}, "revoke"),
    Rows({"EXPIRED"}, "expiration") }
ONE_TIME_MAP == Rows({"ONE_TIME_PRODUCT_PURCHASED"}, "purchase")
           \cup Rows({"ONE_TIME_PRODUCT_CANCELED"}, "cancellation")

GoogleNormalize(n) ==
  CASE n.kind = "subscription" -> LookUp(SUBSCRIPTION_NOTIFICATION_MAP, n.type)
    [] n.kind = "voided"       -> <<IF n.type = "FULL_REFUND" THEN "refund" ELSE "chargeback">>
    [] n.kind = "oneTime"      -> LookUp(ONE_TIME_MAP, n.type)
    [] OTHER                   -> <<>>

\* A voided purchase names its order and no product.
GoogleHasProduct(n) == n.kind \in {"subscription", "oneTime"}

\* The token of the purchase; the one it followed only if the details of the
\* subscription could be fetched.
GoogleHints(n, enriched) ==
  {<<n.of, k>> : k \in {n.token} \cup (IF enriched /\ n.kind = "subscription"
                                       THEN {n.token - 1} \cap 1..n.token ELSE {})}
-----------------------------------------------------------------------------
RECURLY_EVENT_MAP ==
  UNION {
    Rows({"new_subscription_notification"}, "purchase"),
    Rows({"renewed_subscription_notification", "successful_payment_notification"}, "renewal"),
    Rows({"canceled_subscription_notification"}, "cancellation"),
    Rows({"expired_subscription_notification"}, "expiration"),
    Rows({"paused_subscription_notification"}, "pause"),
    Rows({"resumed_subscription_notification", "reactivated_account_notification"}, "resume"),
    Rows({"failed_payment_notification", "past_due_invoice_notification",
          "new_dunning_event_notification"}, "billing_retry"),
    Rows({"successful_refund_notification"}, "refund") }

RecurlyUpdate(n) ==
  LET type == IF n.now.price > n.prev.price THEN "upgrade" ELSE "downgrade" IN
  When(n.prev.plan # n.now.plan \/ n.prev.price # n.now.price, type)

RecurlyNormalize(n) ==
  IF n.type = "updated_subscription_notification" THEN RecurlyUpdate(n)
                                                  ELSE LookUp(RECURLY_EVENT_MAP, n.type)

\* The pipeline does not look for the product of a Recurly event.
RecurlyHasProduct(n) == FALSE
RecurlyHints(n) == {<<n.of, "account_code">>, <<n.of, "subscription_id">>}
=============================================================================
