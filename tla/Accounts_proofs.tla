--------------------------- MODULE Accounts_proofs ---------------------------
(***************************************************************************)
(* The two ends of an account for any value of their parameters.           *)
(*                                                                         *)
(* Billing, module Providers, first.  CustomersAreApart rests on what is   *)
(* in between: the notifications on a wire are of its own subscription,    *)
(* the rows of user_identities of the subscription they name, no two rows  *)
(* share a user unless they share a customer, and of the purchases of a    *)
(* subscription whose details were fetched the one before has always been  *)
(* met before the next.  ImportIsComplete rests on what an import still    *)
(* has to bring: brought, lost, at hand or not yet listed.                 *)
(*                                                                         *)
(* Then setting up, module SetupWizard: whatever the server, the pages and *)
(* the person do in between, an organization has one owner, and what the   *)
(* page calls connected is connected.  Inductive is what is under way: a   *)
(* request that connects a source is for the organization the page has,    *)
(* unless a sign-in has taken over from it since; so is what is already    *)
(* connected; and at most one creation has inserted its organization and   *)
(* not yet its key.                                                        *)
(***************************************************************************)
EXTENDS Accounts, SequenceTheorems, TLAPS

(***************************************************************************)
(* Billing.                                                                *)
(***************************************************************************)
\* The tables have a row for what Google sends and for what imports make up.
LEMMA GoogleTypesMapped ==
  ASSUME NEW change \in DOMAIN GoogleTypes
  PROVE  Mapped(SUBSCRIPTION_NOTIFICATION_MAP, GoogleTypes[change])
  <1>1. GoogleTypes[change] \in {"RECOVERED", "RENEWED", "CANCELED", "PURCHASED", "ON_HOLD",
          "IN_GRACE_PERIOD", "RESTARTED", "PRICE_CHANGE_CONFIRMED", "PAUSED", "REVOKED", "EXPIRED"}
    BY DEF GoogleTypes
  <1>2. \A type : Rows({"RECOVERED", "RENEWED"}, type) = {<<"RECOVERED", type>>, <<"RENEWED", type>>}
    BY DEF Rows
  <1>3. \A k, type : Rows({k}, type) = {<<k, type>>}
    BY DEF Rows
  <1>4. \A row : row[1] = row[1]
    OBVIOUS
  <1> DEFINE table == SUBSCRIPTION_NOTIFICATION_MAP
  <1>5. /\ <<"RECOVERED", "renewal">> \in table
        /\ <<"RENEWED", "renewal">> \in table
        /\ <<"CANCELED", "cancellation">> \in table
        /\ <<"PURCHASED", "purchase">> \in table
        /\ <<"ON_HOLD", "billing_retry">> \in table
        /\ <<"IN_GRACE_PERIOD", "grace_period_start">> \in table
        /\ <<"RESTARTED", "resume">> \in table
        /\ <<"PRICE_CHANGE_CONFIRMED", "price_change">> \in table
        /\ <<"PAUSED", "pause">> \in table
        /\ <<"REVOKED", "revoke">> \in table
        /\ <<"EXPIRED", "expiration">> \in table
    <2>1. <<"RECOVERED", "renewal">> \in table
      BY <1>2, <1>3 DEF SUBSCRIPTION_NOTIFICATION_MAP
    <2>2. <<"RENEWED", "renewal">> \in table
      BY <1>2, <1>3 DEF SUBSCRIPTION_NOTIFICATION_MAP
    <2>3. <<"CANCELED", "cancellation">> \in table
      BY <1>2, <1>3 DEF SUBSCRIPTION_NOTIFICATION_MAP
    <2>4. <<"PURCHASED", "purchase">> \in table
      BY <1>2, <1>3 DEF SUBSCRIPTION_NOTIFICATION_MAP
    <2>5. <<"ON_HOLD", "billing_retry">> \in table
      BY <1>2, <1>3 DEF SUBSCRIPTION_NOTIFICATION_MAP
    <2>6. <<"IN_GRACE_PERIOD", "grace_period_start">> \in table
      BY <1>2, <1>3 DEF SUBSCRIPTION_NOTIFICATION_MAP
    <2>7. <<"RESTARTED", "resume">> \in table
      BY <1>2, <1>3 DEF SUBSCRIPTION_NOTIFICATION_MAP
    <2>8. <<"PRICE_CHANGE_CONFIRMED", "price_change">> \in table
      BY <1>2, <1>3 DEF SUBSCRIPTION_NOTIFICATION_MAP
    <2>9. <<"PAUSED", "pause">> \in table
      BY <1>2, <1>3 DEF SUBSCRIPTION_NOTIFICATION_MAP
    <2>10. <<"REVOKED", "revoke">> \in table
      BY <1>2, <1>3 DEF SUBSCRIPTION_NOTIFICATION_MAP
    <2>11. <<"EXPIRED", "expiration">> \in table
      BY <1>2, <1>3 DEF SUBSCRIPTION_NOTIFICATION_MAP
    <2> QED BY <2>1, <2>2, <2>3, <2>4, <2>5, <2>6, <2>7, <2>8, <2>9, <2>10, <2>11
  <1>6. \A k, type : <<k, type>> \in table => Mapped(table, k)
    BY DEF Mapped
  <1> QED BY <1>1, <1>5, <1>6

LEMMA LookUpFinds ==
  ASSUME NEW table, NEW k, Mapped(table, k)
  PROVE  LookUp(table, k) # <<>>
  BY DEF LookUp

LEMMA GoogleMakesEvents ==
  ASSUME NEW s \in Subs, world[s].source = "google", NEW n, GoogleNote(s, n)
  PROVE  Normalize(s, n) # <<>>
  <1>1. Normalize(s, n) = GoogleNormalize(n)
    BY DEF Normalize
  <1>2. CASE n.kind = "subscription" /\ Mapped(SUBSCRIPTION_NOTIFICATION_MAP, n.type)
    BY <1>1, <1>2, LookUpFinds DEF GoogleNormalize
  <1>3. CASE n.kind = "voided"
    BY <1>1, <1>3 DEF GoogleNormalize
  <1> QED BY <1>2, <1>3 DEF GoogleNote

LEMMA ImportsMakeEvents ==
  ASSUME NEW s \in Subs, world[s].source = "recurly", NEW state
  PROVE  Normalize(s, Imported(s, state)) # <<>>
  <1> DEFINE n == Imported(s, state)
  <1>1. n.type \in {"new_subscription_notification", "expired_subscription_notification"}
    BY DEF Imported
  <1>2. \A k, type : Rows({k}, type) = {<<k, type>>}
    BY DEF Rows
  <1>3. /\ <<"new_subscription_notification", "purchase">> \in RECURLY_EVENT_MAP
        /\ <<"expired_subscription_notification", "expiration">> \in RECURLY_EVENT_MAP
    BY <1>2 DEF RECURLY_EVENT_MAP
  <1>4. Mapped(RECURLY_EVENT_MAP, n.type)
    BY <1>1, <1>3 DEF Mapped
  <1>5. LookUp(RECURLY_EVENT_MAP, n.type) # <<>>
    BY <1>4, LookUpFinds
  <1> QED BY <1>1, <1>5 DEF Normalize, RecurlyNormalize

-----------------------------------------------------------------------------
\* The ids in a notification of s are of s, or the app's.
OwnId(s, id) ==
  /\ id = <<s, id[2]>>
  /\ CASE world[s].source = "stripe"  -> id[2] = "customer_id"
       [] world[s].source = "apple"   -> id[2] = "original_transaction_id"
       [] world[s].source = "google"  -> id[2] \in Nat \ {0}
       [] world[s].source = "recurly" -> id[2] \in {"account_code", "subscription_id"}
AppId(s, id) == world[s].source = "apple" /\ id = <<"app", "bundle_id">>

About(s, n) == n.of = s /\ (world[s].source = "google" => GoogleNote(s, n))

LEMMA OwnIdIsOwn ==
  ASSUME NEW s, NEW id, OwnId(s, id) \/ AppId(s, id)
  PROVE  world[s].source = "apple" \/ id[1] = s
  <1>1. ASSUME id = <<s, id[2]>> PROVE id[1] = s
    BY <1>1
  <1> QED BY <1>1 DEF OwnId, AppId

LEMMA SourceIsOne ==
  ASSUME ProvidersAssumption, Typed, NEW s \in Subs
  PROVE  /\ world[s] \in [org : {world[t].org : t \in Subs} \ {None},
                          source : {"stripe", "apple", "google", "recurly"}]
         /\ world[s].source \in {"stripe", "apple", "google", "recurly"}
         /\ world[s].org # None /\ world[s].org \in Owners
  BY DEF Typed, ProvidersAssumption, Owners

LEMMA GoogleHint ==
  ASSUME ProvidersAssumption, Typed, NEW s \in Subs, NEW n, About(s, n), NEW enriched \in BOOLEAN,
         world[s].source = "google"
  PROVE  /\ n.token \in Nat \ {0}
         /\ <<s, n.token>> \in Hints(s, n, enriched)
         /\ \A id \in Hints(s, n, enriched) :
              \/ id = <<s, n.token>>
              \/ /\ enriched /\ n.kind = "subscription" /\ n.token > 1
                 /\ id = <<s, n.token - 1>>
         /\ enriched /\ n.kind = "subscription" /\ n.token > 1 =>
              <<s, n.token - 1>> \in Hints(s, n, enriched)
  <1>1. sub[s].token \in Nat
    BY DEF Typed, Sub
  <1>2. n.token \in Nat \ {0} /\ n.of = s
    BY <1>1 DEF About, GoogleNote
  <1>3. Hints(s, n, enriched) = GoogleHints(n, enriched)
    BY DEF Hints
  <1>4. {n.token - 1} \cap 1..n.token = IF n.token > 1 THEN {n.token - 1} ELSE {}
    BY <1>2
  <1> QED BY <1>2, <1>3, <1>4 DEF GoogleHints

LEMMA HintsAreOwn ==
  ASSUME ProvidersAssumption, Typed, NEW s \in Subs, NEW n, About(s, n), NEW enriched \in BOOLEAN
  PROVE  /\ \A id \in Hints(s, n, enriched) : OwnId(s, id) \/ AppId(s, id)
         /\ \E id \in Hints(s, n, enriched) : OwnId(s, id)
  <1>1. n.of = s /\ world[s].source \in {"stripe", "apple", "google", "recurly"}
    BY SourceIsOne DEF About
  <1>0. \A k : <<s, k>>[1] = s /\ <<s, k>>[2] = k
    OBVIOUS
  <1>2. CASE world[s].source = "stripe"
    <2>1. Hints(s, n, enriched) = {<<s, "customer_id">>}
      BY <1>1, <1>2 DEF Hints, StripeHints
    <2>2. OwnId(s, <<s, "customer_id">>)
      BY <1>0, <1>2 DEF OwnId
    <2> QED BY <2>1, <2>2
  <1>3. CASE world[s].source = "apple"
    <2>1. Hints(s, n, enriched) = {<<s, "original_transaction_id">>, <<"app", "bundle_id">>}
      BY <1>1, <1>3 DEF Hints, AppleHints
    <2>2. OwnId(s, <<s, "original_transaction_id">>)
      BY <1>0, <1>3 DEF OwnId
    <2> QED BY <1>3, <2>1, <2>2 DEF AppId
  <1>4. CASE world[s].source = "recurly"
    <2>1. Hints(s, n, enriched) = {<<s, "account_code">>, <<s, "subscription_id">>}
      BY <1>1, <1>4 DEF Hints, RecurlyHints
    <2>2. OwnId(s, <<s, "account_code">>) /\ OwnId(s, <<s, "subscription_id">>)
      BY <1>0, <1>4 DEF OwnId
    <2> QED BY <2>1, <2>2
  <1>5. CASE world[s].source = "google"
    <2>1. \A k \in Nat \ {0} : OwnId(s, <<s, k>>)
      BY <1>0, <1>5 DEF OwnId
    <2>2. n.token \in Nat \ {0} /\ (n.token > 1 => n.token - 1 \in Nat \ {0})
      <3>1. n.token \in Nat \ {0}
        BY <1>5, GoogleHint
      <3> QED BY <3>1
    <2>3. \A id \in Hints(s, n, enriched) : OwnId(s, id)
      BY <1>5, GoogleHint, <2>1, <2>2
    <2> QED BY <2>1, <2>2, <2>3, <1>5, GoogleHint
  <1> QED BY <1>1, <1>2, <1>3, <1>4, <1>5
-----------------------------------------------------------------------------
\* What the pipeline does to the rows: it takes the user of a hint that has one,
\* or a new user, and gives the hints that are free to that user.
Names(row, s, id) == row.org = world[s].org /\ row.source = world[s].source /\ row.id = id

Links(s, hints, user) ==
  /\ user \in Users /\ owner \subseteq owner'
  /\ \A row \in owner' : row \in owner \/
       /\ row.user = user /\ row.id \in hints /\ Names(row, s, row.id)
       /\ \A other \in owner : ~Names(other, s, row.id)
  /\ \A id \in hints : \E row \in owner' : Names(row, s, id)
  /\ \/ \E row \in owner, id \in hints : Names(row, s, id) /\ row.user = user
     \/ \A row \in owner : row.user # user /\ \A id \in hints : ~Names(row, s, id)

LEMMA MatchedRows ==
  ASSUME NEW s, NEW ids
  PROVE  /\ \A u \in Matched(s, ids) : \E row \in owner, id \in ids : Names(row, s, id) /\ row.user = u
         /\ \A row \in owner, id \in ids : Names(row, s, id) => row.user \in Matched(s, ids)
  BY DEF Matched, Names

LEMMA ResolvedLinks ==
  ASSUME NEW s \in Subs, NEW hints, NEW user \in Users,
         Resolves(s, hints, user), owner' = Linked(s, hints, user)
  PROVE  Links(s, hints, user)
  <1>1. \A id : Matched(s, {id}) = {} <=> \A row \in owner : ~Names(row, s, id)
    <2>1. ASSUME NEW id, Matched(s, {id}) # {} PROVE \E row \in owner : Names(row, s, id)
      BY <2>1, MatchedRows
    <2>2. ASSUME NEW id, NEW row \in owner, Names(row, s, id) PROVE Matched(s, {id}) # {}
      BY <2>2, MatchedRows
    <2> QED BY <2>1, <2>2
  <1> DEFINE new == [org : {world[s].org}, source : {world[s].source},
                     id : {id \in hints : Matched(s, {id}) = {}}, user : {user}]
  <1>2. owner' = owner \cup new
    BY DEF Linked
  <1>3. \A row \in new : /\ row.user = user /\ row.id \in hints /\ Names(row, s, row.id)
                         /\ \A other \in owner : ~Names(other, s, row.id)
    BY <1>1 DEF Names
  <1>4. ASSUME NEW id \in hints PROVE \E row \in owner' : Names(row, s, id)
    <2>1. CASE Matched(s, {id}) = {}
      <3> DEFINE row == [org |-> world[s].org, source |-> world[s].source, id |-> id, user |-> user]
      <3>1. row \in new /\ Names(row, s, id)
        BY <2>1 DEF Names
      <3> QED BY <3>1, <1>2
    <2>2. CASE Matched(s, {id}) # {}
      BY <1>1, <1>2, <2>2
    <2> QED BY <2>1, <2>2
  <1>5. CASE Matched(s, hints) # {}
    <2>1. user \in Matched(s, hints)
      BY <1>5 DEF Resolves, Candidates
    <2>2. \E row \in owner, id \in hints : Names(row, s, id) /\ row.user = user
      BY <2>1, MatchedRows
    <2> QED BY <1>2, <1>3, <1>4, <2>2 DEF Links
  <1>6. CASE Matched(s, hints) = {}
    <2>1. user \notin {row.user : row \in owner}
      BY <1>6 DEF Resolves, Candidates
    <2>2. \A row \in owner : row.user # user /\ \A id \in hints : ~Names(row, s, id)
      BY <1>6, <2>1, MatchedRows
    <2> QED BY <1>2, <1>3, <1>4, <2>2 DEF Links
  <1> QED BY <1>5, <1>6

LEMMA ProcessLinks ==
  ASSUME NEW s \in Subs, NEW n, NEW enriched, Process(s, n, enriched)
  PROVE  \/ Normalize(s, n) = <<>> /\ owner' = owner
         \/ \E user \in Users : Links(s, Hints(s, n, enriched), user)
  <1> DEFINE hints == Hints(s, n, enriched)
  <1>1. CASE Normalize(s, n) = <<>> /\ owner' = owner
    BY <1>1
  <1>2. ASSUME NEW user \in Users, Resolves(s, hints, user), owner' = Linked(s, hints, user)
        PROVE  Links(s, hints, user)
    <2> HIDE DEF hints
    <2> QED BY <1>2, ResolvedLinks
  <1> QED BY <1>1, <1>2 DEF Process

-----------------------------------------------------------------------------
\* Whatever is processed, rows stay rows of their subscription, an id keeps its
\* user, and a user is of one customer.
LEMMA LinkingKeepsRows ==
  ASSUME ProvidersAssumption, Typed, RowsAgree, UsersAgree, NEW s \in Subs, NEW hints,
         \A id \in hints : OwnId(s, id) \/ AppId(s, id),
         NEW user \in Users, Links(s, hints, user), world' = world
  PROVE  RowsAgree' /\ UsersAgree' /\ \A row \in owner' : row.user \in Users
  <1>0. "app" \notin Subs
    BY DEF ProvidersAssumption
  <1>1. ASSUME NEW row \in owner', row \notin owner
        PROVE  /\ row.user = user /\ row.org = world[s].org /\ row.source = world[s].source
               /\ row.id \in hints
               /\ OwnId(s, row.id) \/ AppId(s, row.id)
               /\ \A other \in owner : ~Names(other, s, row.id)
    BY <1>1 DEF Links, Names
  <1>2. \A row \in owner' : row.user \in Users
    BY <1>1 DEF Typed
  <1>3. RowsAgree'
    <2> SUFFICES ASSUME NEW row \in owner', row \notin owner
                 PROVE  /\ row.id = <<row.id[1], row.id[2]>>
                        /\ IF row.id[1] \in Subs THEN OwnRow(row, row.id[1])
                           ELSE row.source = "apple" /\ row.id = <<"app", "bundle_id">>
      BY DEF RowsAgree, OwnRow
    <2>1. CASE OwnId(s, row.id)
      <3>1. row.id = <<s, row.id[2]>> /\ row.id[1] = s
        BY <2>1 DEF OwnId
      <3>2. OwnRow(row, s)
        BY <2>1, <1>1 DEF OwnRow, OwnId
      <3> QED BY <3>1, <3>2
    <2>2. CASE AppId(s, row.id)
      BY <2>2, <1>0, <1>1 DEF AppId
    <2> QED BY <2>1, <2>2, <1>1
  <1>4. UsersAgree'
    <2> DEFINE Apart(row, other) ==
          IF row.user = other.user
            THEN /\ row.org = other.org /\ row.source = other.source
                 /\ row.source = "apple" \/ row.id[1] = other.id[1]
            ELSE ~(row.org = other.org /\ row.source = other.source /\ row.id = other.id)
    <2>1. \A row, other \in owner : Apart(row, other)
      BY DEF UsersAgree
    <2>2. ASSUME NEW row \in owner', row \notin owner, NEW other \in owner', other \notin owner
          PROVE  Apart(row, other)
      <3>1. row.source = "apple" \/ (row.id[1] = s /\ other.id[1] = s)
        BY <1>1, <2>2, OwnIdIsOwn
      <3> QED BY <1>1, <2>2, <3>1
    <2>3. ASSUME NEW row \in owner', row \notin owner, NEW other \in owner
          PROVE  Apart(row, other) /\ Apart(other, row)
      <3>1. ~(row.org = other.org /\ row.source = other.source /\ row.id = other.id)
        BY <1>1, <2>3 DEF Names
      <3>2. CASE other.user = user
        <4>1. PICK found \in owner : /\ found.user = user /\ found.org = world[s].org
                                     /\ found.source = world[s].source /\ found.id \in hints
          BY <3>2 DEF Links, Names
        <4>2. /\ found.org = other.org /\ found.source = other.source
              /\ found.source = "apple" \/ found.id[1] = other.id[1]
          BY <2>1, <3>2, <4>1
        <4>3. found.source = "apple" \/ found.id[1] = s
          BY <4>1, OwnIdIsOwn
        <4>4. row.source = "apple" \/ row.id[1] = s
          BY <1>1, <2>3, OwnIdIsOwn
        <4> QED BY <1>1, <2>3, <3>2, <4>1, <4>2, <4>3, <4>4
      <3>3. CASE other.user # user
        BY <1>1, <2>3, <3>1, <3>3
      <3> QED BY <3>2, <3>3
    <2>4. \A row, other \in owner' : Apart(row, other)
      BY <2>1, <2>2, <2>3
    <2> QED BY <2>4 DEF UsersAgree
  <1> QED BY <1>2, <1>3, <1>4
-----------------------------------------------------------------------------
\* One user: said of the rows.
OneRow(t) == \A row, other \in owner : row.id[1] = t /\ other.id[1] = t => row.user = other.user

LEMMA UsersAreRows ==
  ASSUME RowsAgree, NEW t \in Subs
  PROVE  /\ \A u \in UsersOf(t) : \E row \in owner : row.id[1] = t /\ row.user = u
         /\ \A row \in owner : row.id[1] = t => row.user \in UsersOf(t)
  BY DEF UsersOf, RowsAgree, OwnRow

LEMMA OneUserOfRows ==
  ASSUME RowsAgree
  PROVE  OneUser <=> \A t \in Subs \ lame : OneRow(t)
  <1>1. ASSUME NEW t \in Subs, OneRow(t), NEW u \in UsersOf(t), NEW v \in UsersOf(t)
        PROVE  u = v
    BY <1>1, UsersAreRows DEF OneRow
  <1>2. ASSUME NEW t \in Subs, \A u, v \in UsersOf(t) : u = v
        PROVE  OneRow(t)
    BY <1>2, UsersAreRows DEF OneRow
  <1> QED BY <1>1, <1>2 DEF OneUser

LEMMA KnownIsARow ==
  ASSUME NEW t, NEW k
  PROVE  Known(t, k) <=> \E row \in owner : Names(row, t, <<t, k>>)
  <1>1. ASSUME Known(t, k) PROVE \E row \in owner : Names(row, t, <<t, k>>)
    BY <1>1, MatchedRows DEF Known
  <1>2. ASSUME NEW row \in owner, Names(row, t, <<t, k>>) PROVE Known(t, k)
    BY <1>2, MatchedRows DEF Known
  <1> QED BY <1>1, <1>2

\* Nobody loses a row.
LEMMA RowsAreKept ==
  ASSUME owner \subseteq owner', world' = world, NEW t
  PROVE  /\ UsersOf(t) \subseteq UsersOf(t)'
         /\ \A k : Known(t, k) => Known(t, k)'
  <1>1. UsersOf(t) \subseteq UsersOf(t)'
    BY DEF UsersOf
  <1>2. ASSUME NEW k PROVE Matched(t, {<<t, k>>}) \subseteq Matched(t, {<<t, k>>})'
    BY DEF Matched
  <1> QED BY <1>1, <1>2 DEF Known

\* A row that is new is of the customer of the notification, or of an app.
LEMMA NewRows ==
  ASSUME "app" \notin Subs, NEW s \in Subs, NEW hints, \A id \in hints : OwnId(s, id) \/ AppId(s, id),
         NEW user, Links(s, hints, user),
         NEW row \in owner', row \notin owner, row.id[1] \in Subs
  PROVE  /\ row.user = user /\ row.id[1] = s /\ row.id \in hints /\ OwnId(s, row.id)
         /\ \A other \in owner : ~Names(other, s, row.id)
  <1>1. /\ row.user = user /\ row.id \in hints
        /\ \A other \in owner : ~Names(other, s, row.id)
    BY DEF Links
  <1>2. ~AppId(s, row.id)
    BY DEF AppId
  <1>3. OwnId(s, row.id)
    BY <1>1, <1>2
  <1>4. row.id[1] = s
    <2>1. ASSUME row.id = <<s, row.id[2]>> PROVE row.id[1] = s
      BY <2>1
    <2> QED BY <1>3, <2>1 DEF OwnId
  <1> QED BY <1>1, <1>3, <1>4

LEMMA LinkingKeepsOne ==
  ASSUME RowsAgree, NEW s \in Subs, NEW hints, "app" \notin Subs,
         \A id \in hints : OwnId(s, id) \/ AppId(s, id),
         NEW user \in Users, Links(s, hints, user), world' = world,
         NEW t \in Subs, OneRow(t),
         t = s /\ (\E row \in owner : row.id[1] = s) =>
           \/ \A id \in hints : OwnId(s, id) => \E row \in owner : Names(row, s, id)
           \/ world[s].source # "apple" /\ \E row \in owner, id \in hints : Names(row, s, id)
  PROVE  OneRow(t)'
  <1>1. ASSUME NEW row \in owner', row \notin owner, row.id[1] \in Subs
        PROVE  /\ row.user = user /\ row.id[1] = s /\ row.id \in hints /\ OwnId(s, row.id)
               /\ \A other \in owner : ~Names(other, s, row.id)
    BY <1>1, NewRows
  <1>2. CASE t # s
    <2>1. \A row \in owner' : row.id[1] = t => row \in owner
      BY <1>1, <1>2
    <2> QED BY <2>1 DEF OneRow
  <1>3. CASE t = s /\ ~\E row \in owner : row.id[1] = s
    <2>1. \A row \in owner' : row.id[1] = s => row.user = user
      BY <1>1, <1>3
    <2> QED BY <1>3, <2>1 DEF OneRow
  <1>4. CASE t = s /\ \A id \in hints : OwnId(s, id) => \E row \in owner : Names(row, s, id)
    <2>1. \A row \in owner' : row.id[1] = s => row \in owner
      BY <1>1, <1>4
    <2> QED BY <1>4, <2>1 DEF OneRow
  <1>5. CASE t = s /\ world[s].source # "apple" /\ \E row \in owner, id \in hints : Names(row, s, id)
    <2>1. PICK row \in owner : /\ row.user = user
                               /\ \E id \in hints : Names(row, s, id)
      BY <1>5 DEF Links
    <2>2. row.id \in hints
      BY <2>1 DEF Names
    <2>3. row.id[1] = s
      BY <1>5, <2>2, OwnIdIsOwn
    <2>4. \A other \in owner' : other.id[1] = s => other.user = user
      BY <1>1, <1>5, <2>1, <2>3 DEF OneRow
    <2> QED BY <1>5, <2>4 DEF OneRow
  <1> QED BY <1>2, <1>3, <1>4, <1>5
-----------------------------------------------------------------------------
\* Every purchase before one that is known is known.
Below(s) == \A row \in owner : row.id[1] = s => \A token \in 1..(row.id[2] - 1) : Known(s, token)

\* A notification whose turn it is names a purchase that is known, if any is.
InTurn(s, n) ==
  IF n.kind = "subscription" THEN n.token > 2 => Known(s, n.token - 1) ELSE Known(s, n.token)

LEMMA RowNames ==
  ASSUME RowsAgree, NEW s \in Subs, NEW row \in owner, row.id[1] = s
  PROVE  /\ Names(row, s, row.id) /\ row.id = <<s, row.id[2]>> /\ OwnId(s, row.id)
         /\ world[s].source = "google" => row.id[2] \in Nat \ {0} /\ Known(s, row.id[2])
  <1>1. /\ Names(row, s, row.id) /\ row.id = <<s, row.id[2]>> /\ OwnRow(row, s)
    BY DEF RowsAgree, OwnRow, Names
  <1>2. world[s].source = "google" => row.id[2] \in Nat \ {0} /\ Known(s, row.id[2])
    BY <1>1, KnownIsARow DEF OwnRow
  <1> QED BY <1>1, <1>2 DEF OwnRow, OwnId

LEMMA GoogleIsMet ==
  ASSUME ProvidersAssumption, Typed, RowsAgree, NEW s \in Subs, NEW n, About(s, n),
         world[s].source = "google", Below(s), InTurn(s, n), NEW row \in owner, row.id[1] = s
  PROVE  \E other \in owner, id \in Hints(s, n, TRUE) : Names(other, s, id)
  <1> DEFINE hints == Hints(s, n, TRUE)
  <1>1. /\ n.token \in Nat \ {0} /\ <<s, n.token>> \in hints
        /\ n.kind = "subscription" /\ n.token > 1 => <<s, n.token - 1>> \in hints
    BY GoogleHint
  <1> SUFFICES \E other \in owner, id \in hints : Names(other, s, id)
    OBVIOUS
  <1> HIDE DEF hints
  <1>2. \A k : Known(s, k) /\ <<s, k>> \in hints => \E other \in owner, id \in hints : Names(other, s, id)
    BY KnownIsARow
  <1>3. row.id[2] \in Nat \ {0} /\ Known(s, row.id[2])
    BY RowNames
  <1>4. Known(s, 1)
    <2>1. CASE row.id[2] = 1
      BY <1>3, <2>1
    <2>2. CASE row.id[2] # 1
      <3>1. 1 \in 1..(row.id[2] - 1)
        BY <1>3, <2>2
      <3> QED BY <3>1 DEF Below
    <2> QED BY <2>1, <2>2
  <1>5. CASE n.kind # "subscription"
    BY <1>1, <1>2, <1>5 DEF InTurn
  <1>6. CASE n.kind = "subscription" /\ n.token > 2
    <2>1. n.token > 1
      BY <1>1, <1>6
    <2> QED BY <1>1, <1>2, <1>6, <2>1 DEF InTurn
  <1>7. CASE n.kind = "subscription" /\ n.token = 2
    <2>1. n.token - 1 = 1 /\ n.token > 1
      BY <1>7
    <2> QED BY <1>1, <1>2, <1>4, <1>7, <2>1
  <1>8. CASE n.kind = "subscription" /\ n.token = 1
    <2>1. <<s, 1>> \in hints
      BY <1>1, <1>8
    <2> QED BY <1>2, <1>4, <2>1
  <1>9. PICK t \in Nat \ {0} : t = n.token
    BY <1>1
  <1>10. t = 1 \/ t = 2 \/ t > 2
    OBVIOUS
  <1> QED BY <1>5, <1>6, <1>7, <1>8, <1>9, <1>10

LEMMA CustomerIsMet ==
  ASSUME ProvidersAssumption, Typed, RowsAgree, NEW s \in Subs, NEW n, About(s, n),
         NEW enriched \in BOOLEAN,
         world[s].source = "google" => enriched = TRUE /\ Below(s) /\ InTurn(s, n),
         NEW row \in owner, row.id[1] = s
  PROVE  \/ \A id \in Hints(s, n, enriched) : OwnId(s, id) => \E other \in owner : Names(other, s, id)
         \/ /\ world[s].source # "apple"
            /\ \E other \in owner, id \in Hints(s, n, enriched) : Names(other, s, id)
  <1>1. n.of = s /\ world[s].source \in {"stripe", "apple", "google", "recurly"}
    BY SourceIsOne DEF About
  <1>2. Names(row, s, row.id) /\ row.id = <<s, row.id[2]>> /\ OwnId(s, row.id)
    BY RowNames
  <1>3. CASE world[s].source \in {"stripe", "apple"}
    <2>1. ASSUME NEW id, OwnId(s, id) PROVE id = row.id
      <3>1. id = <<s, id[2]>> /\ id[2] = row.id[2]
        BY <1>2, <1>3, <2>1 DEF OwnId
      <3> QED BY <1>2, <3>1
    <2> QED BY <1>2, <2>1
  <1>4. CASE world[s].source = "recurly"
    <2>1. Hints(s, n, enriched) = {<<s, "account_code">>, <<s, "subscription_id">>}
      BY <1>1, <1>4 DEF Hints, RecurlyHints
    <2>2. row.id[2] \in {"account_code", "subscription_id"}
      BY <1>2, <1>4 DEF OwnId
    <2>3. row.id \in Hints(s, n, enriched)
      BY <1>2, <2>1, <2>2
    <2> QED BY <1>2, <1>4, <2>3
  <1>5. CASE world[s].source = "google"
    BY <1>5, GoogleIsMet
  <1> QED BY <1>1, <1>3, <1>4, <1>5
-----------------------------------------------------------------------------
\* Processing the first notification of a Google subscription with its details
\* makes its purchase known and leaves no gap.
LEMMA LinkingLeavesNoGap ==
  ASSUME ProvidersAssumption, Typed, RowsAgree, NEW s \in Subs, NEW n, About(s, n),
         world[s].source = "google", Below(s), InTurn(s, n), NEW user \in Users,
         Links(s, Hints(s, n, TRUE), user), world' = world
  PROVE  Below(s)' /\ Known(s, n.token)'
  <1> DEFINE hints == Hints(s, n, TRUE)
  <1>1. /\ n.token \in Nat \ {0} /\ <<s, n.token>> \in hints
        /\ n.kind = "subscription" /\ n.token > 1 => <<s, n.token - 1>> \in hints
        /\ \A id \in hints : \/ id = <<s, n.token>>
                             \/ id = <<s, n.token - 1>> /\ n.kind = "subscription" /\ n.token > 1
    BY GoogleHint
  <1>2. Links(s, hints, user)
    OBVIOUS
  <1> HIDE DEF hints
  <1>3. \A k : <<s, k>> \in hints => Known(s, k)'
    <2>1. \A k : <<s, k>> \in hints => \E row \in owner' : Names(row, s, <<s, k>>)'
      BY <1>2 DEF Links, Names
    <2>2. ASSUME NEW k, NEW row \in owner', Names(row, s, <<s, k>>)' PROVE Known(s, k)'
      <3>1. row.user \in Matched(s, {<<s, k>>})'
        BY <2>2 DEF Matched, Names
      <3> QED BY <3>1 DEF Known
    <2> QED BY <2>1, <2>2
  <1>4. \A k : Known(s, k) => Known(s, k)'
    BY <1>2, RowsAreKept DEF Links
  <1>5. ASSUME NEW k \in Nat, k < n.token, <<s, n.token>> \in hints, ~Known(s, n.token)
        PROVE  k > 0 => Known(s, k)'
    <2>0. n.kind = "subscription"
      BY <1>5 DEF InTurn
    <2>1. CASE k = n.token - 1
      <3>1. k > 0 => n.token > 1
        BY <1>1, <1>5, <2>1
      <3>2. k > 0 => <<s, k>> \in hints
        BY <1>1, <2>0, <2>1, <3>1
      <3> QED BY <1>3, <3>2
    <2>2. CASE k # n.token - 1 /\ k > 0
      <3>0. PICK t \in Nat : t = n.token
        BY <1>1
      <3>1. n.token > 2 /\ k \in 1..(n.token - 2)
        <4>1. k < t /\ k # t - 1 /\ k > 0
          BY <3>0, <1>5, <2>2
        <4>2. t > 2 /\ k \in 1..(t - 2)
          BY <4>1
        <4> QED BY <3>0, <4>2
      <3>2. Known(s, n.token - 1)
        BY <2>0, <3>1 DEF InTurn
      <3>3. PICK row \in owner : Names(row, s, <<s, n.token - 1>>)
        BY <3>2, KnownIsARow
      <3>4. row.id[1] = s /\ row.id[2] = n.token - 1
        BY <3>3 DEF Names
      <3>5. k \in 1..(row.id[2] - 1)
        BY <1>1, <3>1, <3>4
      <3> QED BY <1>4, <3>4, <3>5 DEF Below
    <2> QED BY <2>1, <2>2
  <1>6. ASSUME NEW row \in owner', row.id[1] = s, NEW k \in 1..(row.id[2] - 1)
        PROVE  Known(s, k)'
    <2>1. CASE row \in owner
      BY <1>4, <1>6, <2>1 DEF Below
    <2>2. CASE row \notin owner
      <3>1. row.id \in hints /\ \A other \in owner : ~Names(other, s, row.id)
        BY <1>2, <2>2 DEF Links
      <3>2. CASE row.id = <<s, n.token>>
        <4>1. ~Known(s, n.token) /\ row.id[2] = n.token
          BY <3>1, <3>2, KnownIsARow
        <4>2. k \in Nat /\ k < n.token /\ k > 0
          BY <1>1, <1>6, <4>1
        <4> QED BY <1>1, <1>5, <4>1, <4>2
      <3>3. CASE row.id = <<s, n.token - 1>> /\ n.kind = "subscription" /\ n.token > 1
        <4>1. ~Known(s, n.token - 1) /\ row.id[2] = n.token - 1
          BY <3>1, <3>3, KnownIsARow
        <4>2. ~(n.token > 2)
          BY <3>3, <4>1 DEF InTurn
        <4> QED BY <1>1, <1>6, <4>1, <4>2
      <3> QED BY <1>1, <3>1, <3>2, <3>3
    <2> QED BY <2>1, <2>2
  <1> QED BY <1>1, <1>3, <1>6 DEF Below
-----------------------------------------------------------------------------
\* Sequences of notifications of s.
IsSequence(q) == q \in Seq({q[i] : i \in DOMAIN q})
AllOf(q, s) == IsSequence(q) /\ \A i \in 1..Len(q) : q[i].of = s

LEMMA SequencesAre ==
  ASSUME NEW C, NEW q \in Seq(C)
  PROVE  IsSequence(q)
  <1>1. Len(q) \in Nat /\ q \in [1..Len(q) -> C]
    OBVIOUS
  <1>2. q \in [1..Len(q) -> {q[i] : i \in DOMAIN q}]
    BY <1>1
  <1> QED BY <1>1, <1>2, SeqDef DEF IsSequence

LEMMA Joined ==
  ASSUME NEW q, NEW r, IsSequence(q), IsSequence(r)
  PROVE  /\ IsSequence(q \o r) /\ Len(q \o r) = Len(q) + Len(r)
         /\ \A i \in 1..Len(q \o r) : (q \o r)[i] = IF i <= Len(q) THEN q[i] ELSE r[i - Len(q)]
         /\ Len(q) \in Nat /\ Len(r) \in Nat
  <1> DEFINE C == {q[i] : i \in DOMAIN q} \cup {r[i] : i \in DOMAIN r}
  <1>1. q \in Seq(C) /\ r \in Seq(C)
    BY SeqDef DEF IsSequence
  <1>2. q \o r \in Seq(C)
    BY <1>1
  <1>3. IsSequence(q \o r)
    BY <1>2, SequencesAre
  <1> QED BY <1>1, <1>3

LEMMA Shorter ==
  ASSUME NEW q, IsSequence(q), q # <<>>
  PROVE  /\ IsSequence(Tail(q)) /\ Len(Tail(q)) = Len(q) - 1 /\ Len(q) \in Nat \ {0}
         /\ \A i \in 1..Len(Tail(q)) : Tail(q)[i] = q[i + 1]
         /\ Head(q) = q[1]
  <1> DEFINE C == {q[i] : i \in DOMAIN q}
  <1>1. q \in Seq(C)
    BY DEF IsSequence
  <1> HIDE DEF C
  <1>2. Tail(q) \in Seq(C) /\ Len(Tail(q)) = Len(q) - 1 /\ Len(q) \in Nat \ {0}
    BY <1>1
  <1>3. /\ \A i \in 1..Len(Tail(q)) : Tail(q)[i] = q[i + 1]
        /\ Head(q) = q[1]
    BY <1>1, HeadTailProperties
  <1> QED BY <1>2, <1>3, SequencesAre

LEMMA Few ==
  ASSUME NEW s
  PROVE  /\ AllOf(<<>>, s)
         /\ \A a : a.of = s => AllOf(<<a>>, s)
         /\ \A a, b : a.of = s /\ b.of = s => AllOf(<<a, b>>, s)
         /\ \A a, b, c : a.of = s /\ b.of = s /\ c.of = s => AllOf(<<a, b, c>>, s)
  <1>1. ASSUME NEW a, NEW b, NEW c
        PROVE  IsSequence(<<>>) /\ IsSequence(<<a>>) /\ IsSequence(<<a, b>>) /\ IsSequence(<<a, b, c>>)
    <2>1. <<>> \in Seq({a, b, c}) /\ <<a>> \in Seq({a, b, c}) /\ <<a, b>> \in Seq({a, b, c})
          /\ <<a, b, c>> \in Seq({a, b, c})
      OBVIOUS
    <2> QED BY <2>1, SequencesAre
  <1>2. AllOf(<<>>, s)
    <2>1. Len(<<>>) = 0
      OBVIOUS
    <2>2. \A i \in 1..Len(<<>>) : FALSE
      BY <2>1
    <2> QED BY <1>1, <2>2 DEF AllOf
  <1>3. ASSUME NEW a, a.of = s PROVE AllOf(<<a>>, s)
    <2>1. Len(<<a>>) = 1 /\ \A i \in 1..1 : i = 1
      OBVIOUS
    <2>2. <<a>>[1] = a
      OBVIOUS
    <2>3. \A i \in 1..Len(<<a>>) : <<a>>[i].of = s
      BY <1>3, <2>1, <2>2
    <2> QED BY <1>1, <2>3 DEF AllOf
  <1>4. ASSUME NEW a, NEW b, a.of = s, b.of = s PROVE AllOf(<<a, b>>, s)
    <2>1. Len(<<a, b>>) = 2 /\ \A i \in 1..2 : i = 1 \/ i = 2
      OBVIOUS
    <2>2. <<a, b>>[1] = a /\ <<a, b>>[2] = b
      OBVIOUS
    <2>3. \A i \in 1..Len(<<a, b>>) : <<a, b>>[i].of = s
      BY <1>4, <2>1, <2>2
    <2> QED BY <1>1, <2>3 DEF AllOf
  <1>5. ASSUME NEW a, NEW b, NEW c, a.of = s, b.of = s, c.of = s PROVE AllOf(<<a, b, c>>, s)
    <2>1. Len(<<a, b, c>>) = 3 /\ \A i \in 1..3 : i = 1 \/ i = 2 \/ i = 3
      OBVIOUS
    <2>2. <<a, b, c>>[1] = a /\ <<a, b, c>>[2] = b /\ <<a, b, c>>[3] = c
      OBVIOUS
    <2>3. \A i \in 1..Len(<<a, b, c>>) : <<a, b, c>>[i].of = s
      BY <1>5, <2>1, <2>2
    <2> QED BY <1>1, <2>3 DEF AllOf
  <1> QED BY <1>2, <1>3, <1>4, <1>5

\* A life goes from having none to some status, and never back.
LEMMA LifeSteps ==
  ASSUME NEW old, NEW change, NEW status, <<old, change, status>> \in Life
  PROVE  /\ change \in DOMAIN GoogleTypes /\ status \in Statuses \ {"none"}
         /\ old = "none" => change \in {"Buy", "Try"}
  BY DEF Life, Statuses, GoogleTypes, Live

LEMMA StripeSendsOf ==
  ASSUME NEW s, NEW change, NEW old, NEW new
  PROVE  AllOf(StripeSends(s, change, old, new), s)
  <1> DEFINE note(object, type) == [of |-> s, type |-> type, object |-> object]
  <1>1. /\ \A object, type : note(object, type).of = s
        /\ \A changed : StripeUpdated(s, old, new, changed).of = s
    BY DEF StripeUpdated
  <1> HIDE DEF note
  <1>2. CASE change = "Buy"
    <2>1. StripeSends(s, change, old, new) =
            <<note("session", "checkout.session.completed"),
              note("subscription", "customer.subscription.created"),
              note("invoice", "invoice.payment_succeeded")>>
      BY <1>2 DEF StripeSends, note
    <2> QED BY <1>1, <2>1, Few
  <1> QED BY <1>1, <1>2, Few DEF StripeSends

LEMMA AppleSendsOf ==
  ASSUME NEW s, NEW change, NEW old
  PROVE  AllOf(AppleSends(s, change, old), s)
  <1>1. \A type, subtype : [of |-> s, type |-> <<type, subtype>>].of = s
    OBVIOUS
  <1> QED BY <1>1, Few DEF AppleSends

LEMMA RecurlySendsOf ==
  ASSUME NEW s, NEW change, NEW old, NEW new
  PROVE  AllOf(RecurlySends(s, change, old, new), s)
  BY Few DEF RecurlySends

LEMMA SendsOf ==
  ASSUME ProvidersAssumption, Typed, NEW s \in Subs, NEW change, NEW old, NEW new
  PROVE  /\ AllOf(Sends(s, change, old, new), s)
         /\ world[s].source = "google" =>
              Sends(s, change, old, new) = <<GoogleSubscription(s, GoogleTypes[change], new.token)>>
  <1>1. world[s].source \in {"stripe", "apple", "google", "recurly"}
    BY SourceIsOne
  <1>2. CASE world[s].source = "stripe"
    BY <1>2, StripeSendsOf DEF Sends
  <1>3. CASE world[s].source = "apple"
    BY <1>3, AppleSendsOf DEF Sends
  <1>4. CASE world[s].source = "recurly"
    BY <1>4, RecurlySendsOf DEF Sends
  <1>5. CASE world[s].source = "google"
    BY <1>5, Few DEF Sends, GoogleSends, GoogleSubscription
  <1> QED BY <1>1, <1>2, <1>3, <1>4, <1>5

LEMMA RefundsOf ==
  ASSUME ProvidersAssumption, Typed, NEW s \in Subs
  PROVE  /\ AllOf(Refunds(s), s)
         /\ world[s].source = "google" => Refunds(s) = <<GoogleVoided(s, sub[s].token)>>
  <1>1. world[s].source \in {"stripe", "apple", "google", "recurly"}
    BY SourceIsOne
  <1> QED BY <1>1, Few DEF Refunds, GoogleVoided
-----------------------------------------------------------------------------
\* What a change does to the subscription and what it adds to the wire.
Grows(s) ==
  /\ sub' = [sub EXCEPT ![s] = sub'[s]] /\ sub'[s] \in Sub
  /\ sub[s].token \in Nat /\ sub'[s].token \in Nat /\ sub'[s].token > 0
  /\ sub'[s].token \in {sub[s].token, sub[s].token + 1}
  /\ sub'[s].status # "none"

LEMMA ChangeGrows ==
  ASSUME ProvidersAssumption, Typed, WiresAgree, NEW s \in Subs, NEW change, NEW status,
         Change(s, change, status)
  PROVE  /\ Grows(s)
         /\ \E q : /\ AllOf(q, s) /\ wire' = [wire EXCEPT ![s] = wire[s] \o q]
                   /\ world[s].source = "google" =>
                        \E type : /\ Mapped(SUBSCRIPTION_NOTIFICATION_MAP, type)
                                  /\ q = <<GoogleSubscription(s, type, sub'[s].token)>>
  <1> DEFINE old == sub[s]
  <1>1. old \in Sub
    BY DEF Typed
  <1>2. PICK c : c = (change = "TurnOff" \/ (old.cancel /\ change # "TurnOn" /\ status \in Live))
    OBVIOUS
  <1>3. c \in BOOLEAN
    BY <1>2, Zenon
  <1>4. PICK p : p = IF change = "ChangePlan" THEN 3 - old.price ELSE old.price
    OBVIOUS
  <1>5. p \in {1, 2}
    BY <1>1, <1>4 DEF Sub
  <1>6. PICK k : k = IF change \in {"Buy", "Try"} THEN old.token + 1 ELSE old.token
    OBVIOUS
  <1>7. old.token \in Nat /\ k \in Nat /\ k \in {old.token, old.token + 1}
    BY <1>1, <1>6 DEF Sub
  <1>8. PICK new : new = [old EXCEPT !.status = status, !.cancel = c, !.price = p, !.token = k]
    OBVIOUS
  <1>9. /\ <<old.status, change, status>> \in Life
        /\ sub' = [sub EXCEPT ![s] = new]
        /\ wire' = [wire EXCEPT ![s] = @ \o Sends(s, change, old, new)]
    BY <1>2, <1>4, <1>6, <1>8 DEF Change
  <1>10. status \in Statuses \ {"none"} /\ change \in DOMAIN GoogleTypes
    BY <1>9, LifeSteps
  <1>11. new \in Sub /\ new.status = status /\ new.token = k
    BY <1>1, <1>3, <1>5, <1>7, <1>8, <1>10 DEF Sub
  <1>12. sub'[s] = new /\ sub' = [sub EXCEPT ![s] = sub'[s]]
    BY <1>9 DEF Typed
  <1>13. k > 0
    <2>1. CASE old.status = "none"
      BY <2>1, <1>6, <1>7, <1>9, LifeSteps
    <2>2. CASE old.status # "none"
      <3>1. sub[s].token > 0
        BY <2>2 DEF WiresAgree
      <3>2. PICK t : t = old.token
        OBVIOUS
      <3>3. t \in Nat /\ t > 0 /\ (k = t \/ k = t + 1)
        BY <1>7, <3>1, <3>2
      <3> QED BY <3>3
    <2> QED BY <2>1, <2>2
  <1>14. Grows(s)
    <2>1. sub'[s] \in Sub /\ sub'[s].token = k /\ sub'[s].status # "none"
      BY <1>10, <1>11, <1>12
    <2>2. sub[s].token = old.token
      OBVIOUS
    <2> HIDE DEF old
    <2> QED BY <1>7, <1>12, <1>13, <2>1, <2>2 DEF Grows
  <1>15. Mapped(SUBSCRIPTION_NOTIFICATION_MAP, GoogleTypes[change])
    BY <1>10, GoogleTypesMapped
  <1>16. /\ AllOf(Sends(s, change, old, new), s)
         /\ world[s].source = "google" =>
              Sends(s, change, old, new) = <<GoogleSubscription(s, GoogleTypes[change], new.token)>>
    BY SendsOf
  <1>17. PICK q : q = Sends(s, change, old, new)
    OBVIOUS
  <1>18. /\ AllOf(q, s) /\ wire' = [wire EXCEPT ![s] = wire[s] \o q]
         /\ world[s].source = "google" => q = <<GoogleSubscription(s, GoogleTypes[change], sub'[s].token)>>
    BY <1>9, <1>12, <1>16, <1>17
  <1> HIDE DEF old
  <1> QED BY <1>14, <1>15, <1>18

LEMMA RefundGrows ==
  ASSUME ProvidersAssumption, Typed, WiresAgree, NEW s \in Subs, Refund(s)
  PROVE  /\ Grows(s) /\ sub'[s].token = sub[s].token
         /\ AllOf(Refunds(s), s) /\ wire' = [wire EXCEPT ![s] = @ \o Refunds(s)]
         /\ world[s].source = "google" => Refunds(s) = <<GoogleVoided(s, sub[s].token)>>
         /\ \/ voided' = voided
            \/ world[s].source = "google" /\ voided' = voided \cup {<<s, sub[s].token>>}
  <1>1. sub[s] \in Sub /\ sub \in [Subs -> Sub] /\ sub[s].token \in Nat /\ sub[s].status # "none"
    BY DEF Typed, Sub, Refund
  <1>2. sub[s].token > 0
    BY <1>1 DEF WiresAgree
  <1>5. /\ wire' = [wire EXCEPT ![s] = @ \o Refunds(s)]
        /\ \/ voided' = voided
           \/ world[s].source = "google" /\ voided' = voided \cup {<<s, sub[s].token>>}
    BY DEF Refund
  <1>3. CASE sub' = sub
    <2>1. sub' = [sub EXCEPT ![s] = sub'[s]]
      BY <1>1, <1>3
    <2>2. Grows(s) /\ sub'[s].token = sub[s].token
      BY <1>1, <1>2, <1>3, <2>1 DEF Grows
    <2> QED BY <1>5, <2>2, RefundsOf
  <1>4. CASE sub' = [sub EXCEPT ![s].status = "ended"]
    <2>1. PICK new : new = [sub[s] EXCEPT !.status = "ended"]
      OBVIOUS
    <2>2. new \in Sub /\ new.status = "ended" /\ new.token = sub[s].token
      BY <1>1, <2>1 DEF Sub, Statuses
    <2>3. sub' = [sub EXCEPT ![s] = new] /\ sub'[s] = new
      BY <1>1, <1>4, <2>1
    <2>4. Grows(s) /\ sub'[s].token = sub[s].token
      BY <1>1, <1>2, <2>2, <2>3 DEF Grows
    <2> QED BY <1>5, <2>4, RefundsOf
  <1> QED BY <1>3, <1>4 DEF Refund
-----------------------------------------------------------------------------
\* The runs of the imports: what a step makes of the one of w.
Turn(w, r) == runs' = [runs EXCEPT ![w] = r] /\ r \in Run(w)

LEMMA RunIsOne ==
  ASSUME Typed, NEW w \in DOMAIN runs
  PROVE  /\ runs[w] \in Run(w) /\ DOMAIN runs = {world[s] : s \in Subs}
         /\ \E s \in Subs : w = world[s]
  BY DEF Typed

LEMMA TurnTyped ==
  ASSUME Typed, NEW w \in DOMAIN runs, NEW r, Turn(w, r), world' = world
  PROVE  /\ DOMAIN runs' = DOMAIN runs /\ runs'[w] = r
         /\ \A v \in DOMAIN runs : v # w => runs'[v] = runs[v]
         /\ DOMAIN runs' = {world'[s] : s \in Subs} /\ \A v \in DOMAIN runs' : runs'[v] \in Run(v)'
  <1>1. \A v : Run(v)' = Run(v)
    BY DEF Run, Purchases
  <1> QED BY <1>1 DEF Turn, Typed

LEMMA StartTurns ==
  ASSUME Typed, NEW w \in DOMAIN runs, StartImport(w)
  PROVE  \E r : /\ Turn(w, r) /\ r.more = TRUE /\ r.seen = {}
                /\ \/ w.source = "recurly" /\ r.at = "pages" /\ r.todo = {} /\ r.all = Existing(w)
                   \/ /\ w.source = "google" /\ r.at = "tokens" /\ r.all = {}
                      /\ \A item \in r.todo : item[1] \in Existing(w) /\ item = <<item[1], sub[item[1]].token>>
  <1>1. PICK asked \in SUBSET Existing(w) :
          runs' = [runs EXCEPT ![w] =
            [at |-> IF w.source = "recurly" THEN "pages" ELSE "tokens",
             todo |-> IF w.source = "recurly" THEN {} ELSE {<<s, sub[s].token>> : s \in asked},
             more |-> TRUE, seen |-> {}, waits |-> None, lost |-> {},
             all |-> IF w.source = "recurly" THEN Existing(w) ELSE {}]]
    BY DEF StartImport
  <1>2. w.source \in {"recurly", "google"} /\ Existing(w) \subseteq Subs
    BY DEF StartImport, Existing
  <1>3. CASE w.source = "recurly"
    <2>0. PICK r : r = [at |-> "pages", todo |-> {}, more |-> TRUE, seen |-> {}, waits |-> None,
                        lost |-> {}, all |-> Existing(w)]
      OBVIOUS
    <2>1. runs' = [runs EXCEPT ![w] = r]
      BY <1>1, <1>3, <2>0
    <2>2. r \in Run(w)
      BY <1>2, <1>3, <2>0 DEF Run
    <2>3. r.more = TRUE /\ r.seen = {} /\ r.at = "pages" /\ r.todo = {} /\ r.all = Existing(w)
      BY <2>0
    <2> QED BY <1>3, <2>1, <2>2, <2>3 DEF Turn
  <1>4. CASE w.source = "google"
    <2> DEFINE todo == {<<s, sub[s].token>> : s \in asked}
               r == [at |-> "tokens", todo |-> todo, more |-> TRUE, seen |-> {}, waits |-> None,
                     lost |-> {}, all |-> {}]
    <2>1. runs' = [runs EXCEPT ![w] = r]
      BY <1>1, <1>4
    <2>2. \A s \in Subs : sub[s].token \in Nat
      BY DEF Typed, Sub
    <2>3. todo \subseteq Purchases
      BY <1>2, <2>2 DEF Purchases
    <2>4. r \in Run(w)
      BY <1>4, <2>3 DEF Run
    <2>5. \A item \in r.todo : item[1] \in Existing(w) /\ item = <<item[1], sub[item[1]].token>>
      OBVIOUS
    <2> QED BY <1>4, <2>1, <2>4, <2>5 DEF Turn
  <1> QED BY <1>2, <1>3, <1>4

LEMMA PageTurns ==
  ASSUME Typed, NEW w \in DOMAIN runs, Page(w)
  PROVE  \E r, page : /\ Turn(w, r) /\ page \subseteq Unseen(w)
                      /\ r.at = (IF runs[w].at = "tokens" THEN "voided" ELSE runs[w].at)
                      /\ r.todo = {Item(w, x) : x \in page} /\ r.seen = runs[w].seen \cup page
                      /\ r.more = (page # Unseen(w)) /\ r.all = runs[w].all
                      /\ r.lost = runs[w].lost
  <1>1. PICK page \in SUBSET Unseen(w) : Turned(w, page, page # Unseen(w))
    BY DEF Page
  <1>2. PICK more : more = (page # Unseen(w))
    OBVIOUS
  <1>3. more \in BOOLEAN
    BY <1>2, Zenon
  <1>4. PICK at : at = IF runs[w].at = "tokens" THEN "voided" ELSE runs[w].at
    OBVIOUS
  <1>5. PICK todo : todo = {Item(w, x) : x \in page}
    OBVIOUS
  <1>6. PICK seen : seen = runs[w].seen \cup page
    OBVIOUS
  <1>7. PICK r : r = [runs[w] EXCEPT !.at = at, !.todo = todo, !.seen = seen, !.more = more]
    OBVIOUS
  <1>8. runs' = [runs EXCEPT ![w] = r]
    <2>1. runs' = [runs EXCEPT ![w] =
                     [runs[w] EXCEPT !.at = IF runs[w].at = "tokens" THEN "voided" ELSE runs[w].at,
                                     !.todo = {Item(w, x) : x \in page},
                                     !.seen = runs[w].seen \cup page, !.more = (page # Unseen(w))]]
      BY <1>1 DEF Turned
    <2> QED BY <2>1, <1>2, <1>4, <1>5, <1>6, <1>7
  <1>9. runs[w] \in Run(w)
    BY RunIsOne
  <1>10. at \in {"none", "pages", "tokens", "voided", "completed", "failed"}
    BY <1>4, <1>9 DEF Run
  <1>11. CASE w.source = "recurly"
    <2>1. page \subseteq Subs
      BY <1>11 DEF Unseen, Existing
    <2>2. \A x \in Subs : Item(w, x) \in Subs \X {"active", "expired"}
      BY <1>11 DEF Item, StateOf
    <2>3. todo \subseteq Subs \X {"active", "expired"} /\ seen \subseteq Subs
      BY <1>5, <1>6, <1>9, <1>11, <2>1, <2>2 DEF Run
    <2>4. /\ r \in Run(w) /\ r.at = at /\ r.todo = todo /\ r.seen = seen /\ r.more = more
          /\ r.all = runs[w].all /\ r.lost = runs[w].lost
      BY <1>3, <1>7, <1>9, <1>10, <1>11, <2>3 DEF Run
    <2> QED BY <1>2, <1>4, <1>5, <1>6, <1>8, <2>4 DEF Turn
  <1>12. CASE w.source # "recurly"
    <2>1. page \subseteq Purchases
      BY <1>12 DEF Unseen, Typed
    <2>2. todo \subseteq Purchases /\ seen \subseteq Purchases
      BY <1>5, <1>6, <1>9, <1>12, <2>1 DEF Run, Item
    <2>3. /\ r \in Run(w) /\ r.at = at /\ r.todo = todo /\ r.seen = seen /\ r.more = more
          /\ r.all = runs[w].all /\ r.lost = runs[w].lost
      BY <1>3, <1>7, <1>9, <1>10, <1>12, <2>2 DEF Run
    <2> QED BY <1>2, <1>4, <1>5, <1>6, <1>8, <2>3 DEF Turn
  <1> QED BY <1>11, <1>12

\* The run ends, or drops an item and may wait for its webhook.
LEMMA OverTurns ==
  ASSUME Typed, NEW w \in DOMAIN runs, NEW how \in {"completed", "failed"}, Over(w, how)
  PROVE  \E r : /\ Turn(w, r) /\ r.at = how /\ r.todo = runs[w].todo /\ r.all = runs[w].all
                /\ r.lost = runs[w].lost
  <1>1. PICK r : r = [runs[w] EXCEPT !.at = how, !.seen = {}]
    OBVIOUS
  <1>2. runs' = [runs EXCEPT ![w] = r] /\ runs[w] \in Run(w)
    BY <1>1, RunIsOne DEF Over
  <1>3. /\ r \in Run(w) /\ r.at = how /\ r.todo = runs[w].todo /\ r.all = runs[w].all
        /\ r.lost = runs[w].lost
    BY <1>1, <1>2 DEF Run
  <1> QED BY <1>2, <1>3 DEF Turn

LEMMA DropTurns ==
  ASSUME Typed, NEW w \in DOMAIN runs, NEW item, NEW waits \in Subs \cup {None},
         \/ runs' = [runs EXCEPT ![w].todo = @ \ {item}]
         \/ runs' = [runs EXCEPT ![w].todo = @ \ {item}, ![w].waits = waits]
  PROVE  \E r : /\ Turn(w, r) /\ r.at = runs[w].at /\ r.todo = runs[w].todo \ {item}
                /\ r.all = runs[w].all /\ r.more = runs[w].more /\ r.seen = runs[w].seen
                /\ r.lost = runs[w].lost
  <1>1. PICK todo : todo = runs[w].todo \ {item}
    OBVIOUS
  <1>2. PICK r : r = [runs[w] EXCEPT !.todo = todo]
    OBVIOUS
  <1>3. PICK q : q = [runs[w] EXCEPT !.todo = todo, !.waits = waits]
    OBVIOUS
  <1>4. runs[w] \in Run(w)
    BY RunIsOne
  <1>5. /\ r \in Run(w) /\ r.at = runs[w].at /\ r.todo = todo
        /\ r.all = runs[w].all /\ r.more = runs[w].more /\ r.seen = runs[w].seen
        /\ r.lost = runs[w].lost
    BY <1>1, <1>2, <1>4 DEF Run
  <1>6. /\ q \in Run(w) /\ q.at = runs[w].at /\ q.todo = todo
        /\ q.all = runs[w].all /\ q.more = runs[w].more /\ q.seen = runs[w].seen
        /\ q.lost = runs[w].lost
    BY <1>1, <1>3, <1>4 DEF Run
  <1>7. runs' = [runs EXCEPT ![w] = r] \/ runs' = [runs EXCEPT ![w] = q]
    BY <1>1, <1>2, <1>3
  <1> QED BY <1>1, <1>5, <1>6, <1>7 DEF Turn

\* ... or loses one: what it is about is noted.
LEMMA LoseTurns ==
  ASSUME Typed, NEW w \in DOMAIN runs, NEW item \in runs[w].todo,
         runs' = [runs EXCEPT ![w].todo = @ \ {item}, ![w].lost = @ \cup {item[1]}]
  PROVE  \E r : /\ Turn(w, r) /\ r.at = runs[w].at /\ r.todo = runs[w].todo \ {item}
                /\ r.all = runs[w].all /\ r.more = runs[w].more /\ r.seen = runs[w].seen
                /\ r.lost = runs[w].lost \cup {item[1]}
  <1>1. PICK todo, lost : todo = runs[w].todo \ {item} /\ lost = runs[w].lost \cup {item[1]}
    OBVIOUS
  <1>2. PICK r : r = [runs[w] EXCEPT !.todo = todo, !.lost = lost]
    OBVIOUS
  <1>3. runs[w] \in Run(w)
    BY RunIsOne
  <1>6. item[1] \in Subs
    BY <1>3 DEF Run, Purchases
  <1>4. /\ r \in Run(w) /\ r.at = runs[w].at /\ r.todo = todo
        /\ r.all = runs[w].all /\ r.more = runs[w].more /\ r.seen = runs[w].seen
        /\ r.lost = lost
    BY <1>1, <1>2, <1>3, <1>6 DEF Run
  <1>5. runs' = [runs EXCEPT ![w] = r]
    BY <1>1, <1>2
  <1> QED BY <1>1, <1>4, <1>5 DEF Turn

\* A run that does not begin is over, and has nothing to do.
LEMMA StartFailsTurns ==
  ASSUME Typed, NEW w \in DOMAIN runs, StartFails(w)
  PROVE  \E r : Turn(w, r) /\ r.at = "failed" /\ r.todo = {} /\ r.all = {}
  <1>1. PICK r : r = [NoRun EXCEPT !.at = "failed"]
    OBVIOUS
  <1>2. runs' = [runs EXCEPT ![w] = r]
    BY <1>1 DEF StartFails
  <1>3. r \in Run(w) /\ r.at = "failed" /\ r.todo = {} /\ r.all = {}
    BY <1>1 DEF NoRun, Run
  <1> QED BY <1>2, <1>3 DEF Turn

\* A webhook that is over lets the run that waits for it go on.
LEMMA WaitsTurn ==
  ASSUME Typed, NEW s \in Subs, world' = world,
         runs' = [w \in DOMAIN runs |-> IF runs[w].waits = s THEN [runs[w] EXCEPT !.waits = None]
                                                            ELSE runs[w]]
  PROVE  /\ DOMAIN runs' = DOMAIN runs
         /\ \A w \in DOMAIN runs :
              /\ runs'[w] \in Run(w) /\ Run(w)' = Run(w)
              /\ runs'[w].at = runs[w].at /\ runs'[w].todo = runs[w].todo
              /\ runs'[w].more = runs[w].more /\ runs'[w].seen = runs[w].seen
              /\ runs'[w].all = runs[w].all /\ runs'[w].lost = runs[w].lost
  <1> SUFFICES ASSUME NEW w \in DOMAIN runs
               PROVE  /\ runs'[w] \in Run(w) /\ Run(w)' = Run(w)
                      /\ runs'[w].at = runs[w].at /\ runs'[w].todo = runs[w].todo
                      /\ runs'[w].more = runs[w].more /\ runs'[w].seen = runs[w].seen
                      /\ runs'[w].all = runs[w].all /\ runs'[w].lost = runs[w].lost
    OBVIOUS
  <1>1. PICK r : r = [runs[w] EXCEPT !.waits = None]
    OBVIOUS
  <1>2. runs[w] \in Run(w)
    BY RunIsOne
  <1>3. /\ r \in Run(w) /\ r.at = runs[w].at /\ r.todo = runs[w].todo /\ r.more = runs[w].more
        /\ r.seen = runs[w].seen /\ r.all = runs[w].all /\ r.lost = runs[w].lost
    BY <1>1, <1>2 DEF Run
  <1>4. runs'[w] = r \/ runs'[w] = runs[w]
    BY <1>1
  <1>5. Run(w)' = Run(w)
    BY DEF Run, Purchases
  <1> QED BY <1>2, <1>3, <1>4, <1>5
-----------------------------------------------------------------------------
\* The client and the webhooks that call Google with it.
Places == {"idle", "token", "sign", "exchange", "fetch"}

LEMMA AtPlace ==
  ASSUME Typed, NEW s \in Subs, NEW at \in Places, NEW held \in Owners, At(s, at, held)
  PROVE  /\ proc' \in [Subs -> [at : Places, held : Owners]]
         /\ proc'[s].at = at /\ proc'[s].held = held
         /\ \A t \in Subs : t # s => proc'[t] = proc[t]
  BY DEF Typed, At, Places

\* A step of such a webhook, before it is processed.
Calling(s) ==
  SetCredentials(s) \/ Token(s) \/ Sign(s) \/ Exchange(s) \/ ExchangeFails(s)

LEMMA CallingSteps ==
  ASSUME ProvidersAssumption, Typed, NEW s \in Subs, Calling(s)
  PROVE  /\ \E at \in Places \ {"idle"}, held \in Owners : At(s, at, held)
         /\ client' \in [creds : Owners, token : Owners]
         /\ UNCHANGED <<world, sub, voided, wire, owner, runs, lame>>
  <1>0. /\ None \in Owners /\ world[s].org \in Owners
        /\ proc[s].held \in Owners /\ client \in [creds : Owners, token : Owners]
    BY SourceIsOne DEF Owners, Typed
  <1>1. CASE SetCredentials(s)
    BY <1>0, <1>1 DEF SetCredentials, Places
  <1>2. CASE Token(s)
    BY <1>0, <1>2 DEF Token, Places
  <1>3. CASE Sign(s)
    BY <1>0, <1>3 DEF Sign, Places
  <1>4. CASE Exchange(s)
    BY <1>0, <1>4 DEF Exchange, Places
  <1>5. CASE ExchangeFails(s)
    BY <1>0, <1>5 DEF ExchangeFails, Places
  <1> QED BY <1>1, <1>2, <1>3, <1>4, <1>5 DEF Calling

LEMMA OwnersStay ==
  ASSUME world' = world
  PROVE  Owners' = Owners /\ \A w : Run(w)' = Run(w)
  BY DEF Owners, Run, Purchases
-----------------------------------------------------------------------------
\* Steps that turn a run and leave users, webhooks and subscriptions alone.
Importing(w) ==
  \/ StartImport(w) \/ StartFails(w) \/ Page(w)
  \/ ImportEnds(w) \/ PageFails(w) \/ ItemFails(w)

LEMMA ImportingTurns ==
  ASSUME Typed, NEW w \in DOMAIN runs, Importing(w)
  PROVE  (\E r : Turn(w, r)) /\ UNCHANGED <<world, sub, voided, wire, owner, client, proc, lame, overlap>>
  <1> USE DEF webhooks
  <1>1. CASE StartImport(w)
    BY <1>1, StartTurns DEF StartImport
  <1>2. CASE Page(w)
    BY <1>2, PageTurns DEF Page
  <1>3. CASE ImportEnds(w)
    BY <1>3, OverTurns DEF ImportEnds
  <1>6. CASE StartFails(w)
    BY <1>6, StartFailsTurns DEF StartFails
  <1>4. CASE PageFails(w)
    <2>1. \E how \in {"completed", "failed"} : Over(w, how)
      BY <1>4 DEF PageFails
    <2> QED BY <1>4, <2>1, OverTurns DEF PageFails
  <1>5. CASE ItemFails(w)
    BY <1>5, LoseTurns DEF ItemFails
  <1> QED BY <1>1, <1>2, <1>3, <1>4, <1>5, <1>6 DEF Importing
-----------------------------------------------------------------------------
\* What is processed, and what the pipeline makes of it.
LEMMA HeadIsAbout ==
  ASSUME WiresAgree, NEW s \in Subs, wire[s] # <<>>
  PROVE  /\ About(s, Head(wire[s])) /\ IsSequence(wire[s]) /\ 1 \in 1..Len(wire[s])
         /\ Head(wire[s]) = wire[s][1]
  <1>1. IsSequence(wire[s])
    BY DEF WiresAgree, IsSequence
  <1>2. Len(wire[s]) \in Nat \ {0} /\ Head(wire[s]) = wire[s][1]
    BY <1>1, Shorter
  <1>3. 1 \in DOMAIN wire[s] /\ 1 \in 1..Len(wire[s])
    BY <1>1, <1>2 DEF IsSequence
  <1> QED BY <1>1, <1>2, <1>3 DEF WiresAgree, About

LEMMA ImportedIsAbout ==
  ASSUME NEW s \in Subs, world[s].source = "recurly", NEW state
  PROVE  About(s, Imported(s, state))
  BY DEF About, Imported

LEMMA Processed ==
  ASSUME ProvidersAssumption, Typed, RowsAgree, UsersAgree, NEW s \in Subs, NEW n, About(s, n),
         NEW enriched \in BOOLEAN, Process(s, n, enriched), world' = world
  PROVE  /\ RowsAgree' /\ UsersAgree' /\ \A row \in owner' : row.user \in Users
         /\ owner \subseteq owner'
         /\ Normalize(s, n) # <<>> => UsersOf(s)' # {}
  <1>1. CASE owner' = owner /\ Normalize(s, n) = <<>>
    BY <1>1 DEF RowsAgree, OwnRow, UsersAgree, Typed
  <1>2. ASSUME NEW user \in Users, Links(s, Hints(s, n, enriched), user)
        PROVE  /\ RowsAgree' /\ UsersAgree' /\ \A row \in owner' : row.user \in Users
               /\ owner \subseteq owner' /\ UsersOf(s)' # {}
    <2>1. \A id \in Hints(s, n, enriched) : OwnId(s, id) \/ AppId(s, id)
      BY HintsAreOwn
    <2>2. RowsAgree' /\ UsersAgree' /\ \A row \in owner' : row.user \in Users
      BY <1>2, <2>1, LinkingKeepsRows
    <2>3. PICK id \in Hints(s, n, enriched) : OwnId(s, id)
      BY HintsAreOwn
    <2>4. PICK row \in owner' : Names(row, s, id)
      BY <1>2 DEF Links
    <2>5. row.id[1] = s
      <3>1. ASSUME id = <<s, id[2]>> PROVE id[1] = s
        BY <3>1
      <3> QED BY <2>3, <2>4, <3>1 DEF Names, OwnId
    <2>6. row.user \in UsersOf(s)'
      BY <2>4, <2>5 DEF UsersOf, Names
    <2> QED BY <1>2, <2>2, <2>6 DEF Links
  <1> QED BY <1>1, <1>2, ProcessLinks

\* The ways in which a step is one of a customer, the pipeline or an import.
Kept == UNCHANGED <<world, sub, voided>>
FetchedOne(s) ==
  \E enriched \in BOOLEAN :
    /\ Kept /\ UNCHANGED <<client, overlap>>
    /\ proc[s].at # "idle" /\ Process(s, Head(wire[s]), enriched)
    /\ wire' = [wire EXCEPT ![s] = Tail(@)]
    /\ lame' = IF enriched THEN lame ELSE lame \cup {s}
    /\ At(s, "idle", None)
    /\ runs' = [w \in DOMAIN runs |-> IF runs[w].waits = s THEN [runs[w] EXCEPT !.waits = None]
                                                          ELSE runs[w]]
Delivered(s) ==
  /\ Kept /\ UNCHANGED <<client, overlap, proc, lame, runs>>
  /\ world[s].source # "google" /\ wire[s] # <<>>
  /\ Process(s, Head(wire[s]), TRUE) /\ wire' = [wire EXCEPT ![s] = Tail(@)]
Listed(w) ==
  \E item \in runs[w].todo :
    /\ Kept /\ UNCHANGED <<client, overlap, proc, lame, wire>>
    /\ runs[w].at = "pages" /\ Process(item[1], Imported(item[1], item[2]), TRUE)
    /\ runs' = [runs EXCEPT ![w].todo = @ \ {item}]
Piped(w) ==
  \E item, n :
    /\ item \in runs[w].todo
    /\ Kept /\ UNCHANGED <<client, overlap, proc, owner>>
    /\ runs[w].at \in {"tokens", "voided"} /\ proc[item[1]].at = "idle" /\ n.token = item[2]
    /\ Pipe(w, item[1], n)
    /\ \/ /\ n = GoogleSubscription(item[1], "PURCHASED", item[2])
          /\ lame' = IF item[2] > 2 /\ ~Known(item[1], item[2] - 1) THEN lame \cup {item[1]} ELSE lame
       \/ /\ n = GoogleVoided(item[1], item[2])
          /\ lame' = IF Known(item[1], item[2]) THEN lame ELSE lame \cup {item[1]}

LEMMA Steps ==
  ASSUME [Next]_vars
  PROVE  \/ UNCHANGED vars
         \/ \E s \in Subs :
              \/ (\E change, status : Change(s, change, status)) \/ Refund(s)
              \/ Delivered(s) \/ Calling(s) \/ FetchedOne(s)
              \/ Importing(world[s]) \/ Listed(world[s]) \/ Piped(world[s])
  <1> USE DEF google, webhooks
  <1> SUFFICES ASSUME NEW s \in Subs,
                      \/ \E step \in Life : Change(s, step[2], step[3])
                      \/ Refund(s) \/ Webhook(s) \/ Calling(s) \/ Fetch(s) \/ FetchFails(s) \/ Void(s)
                      \/ Importing(world[s]) \/ ImportSubscription(world[s])
                      \/ ImportToken(world[s]) \/ ImportVoided(world[s])
               PROVE  \/ (\E change, status : Change(s, change, status)) \/ Refund(s)
                      \/ Delivered(s) \/ Calling(s) \/ FetchedOne(s)
                      \/ Importing(world[s]) \/ Listed(world[s]) \/ Piped(world[s])
    BY DEF Next, Calling, Importing
  <1>1. CASE Webhook(s)
    BY <1>1 DEF Webhook, Delivered, Kept
  <1>2. CASE Fetch(s) \/ FetchFails(s)
    BY <1>2 DEF Fetch, FetchFails, Fetched, Handled, FetchedOne, Kept
  <1>6. CASE Void(s)
    BY <1>6 DEF Void, Handled, FetchedOne, Kept
  <1>3. CASE ImportSubscription(world[s])
    BY <1>3 DEF ImportSubscription, Listed, Kept
  <1>4. CASE ImportToken(world[s])
    <2>1. \A t, k : GoogleSubscription(t, "PURCHASED", k).token = k
      BY DEF GoogleSubscription
    <2> QED BY <1>4, <2>1 DEF ImportToken, Piped, Kept
  <1>5. CASE ImportVoided(world[s])
    <2>1. PICK item \in runs[world[s]].todo :
            /\ runs[world[s]].at = "voided" /\ proc[item[1]].at = "idle"
            /\ Pipe(world[s], item[1], GoogleVoided(item[1], item[2]))
            /\ lame' = IF Known(item[1], item[2]) THEN lame ELSE lame \cup {item[1]}
            /\ UNCHANGED <<world, sub, voided, owner, client, proc, overlap>>
      BY <1>5 DEF ImportVoided
    <2>2. PICK n : n = GoogleVoided(item[1], item[2])
      OBVIOUS
    <2>3. n.token = item[2]
      BY <2>2 DEF GoogleVoided
    <2> QED BY <2>1, <2>2, <2>3 DEF Piped, Kept
  <1> QED BY <1>1, <1>2, <1>3, <1>4, <1>5, <1>6
-----------------------------------------------------------------------------
\* A subscription changes at its provider, which tells of it; and the pipeline
\* takes the first notification of those that wait.
Tells(s, n) ==
  /\ n.of = s /\ n.token = sub'[s].token
  /\ \/ n.kind = "subscription" /\ Mapped(SUBSCRIPTION_NOTIFICATION_MAP, n.type)
     \/ n.kind = "voided" /\ sub'[s].token = sub[s].token
Grown(s) ==
  /\ UNCHANGED <<world, owner, client, proc, runs, lame, overlap>> /\ Grows(s)
  /\ \A v \in voided' :
       v \in voided \/ (world[s].source = "google" /\ v = <<s, sub[s].token>> /\ sub[s].token > 0)
  /\ \E q : /\ AllOf(q, s) /\ wire' = [wire EXCEPT ![s] = wire[s] \o q]
            /\ world[s].source = "google" => \E n : q = <<n>> /\ Tells(s, n)

SameRun(w) ==
  /\ runs'[w] \in Run(w) /\ Run(w)' = Run(w)
  /\ runs'[w].at = runs[w].at /\ runs'[w].todo = runs[w].todo /\ runs'[w].more = runs[w].more
  /\ runs'[w].seen = runs[w].seen /\ runs'[w].all = runs[w].all /\ runs'[w].lost = runs[w].lost
Taken(s) ==
  \E enriched \in BOOLEAN :
    /\ Kept /\ UNCHANGED <<client, overlap>>
    /\ wire[s] # <<>> /\ wire' = [wire EXCEPT ![s] = Tail(@)]
    /\ Process(s, Head(wire[s]), enriched)
    /\ lame' = IF enriched THEN lame ELSE lame \cup {s}
    /\ \/ proc' = proc /\ world[s].source # "google" /\ enriched = TRUE
       \/ At(s, "idle", None) /\ world[s].source = "google"
    /\ DOMAIN runs' = DOMAIN runs /\ \A w \in DOMAIN runs : SameRun(w)

LEMMA ChangeIsGrown ==
  ASSUME ProvidersAssumption, Typed, WiresAgree, NEW s \in Subs, NEW change, NEW status,
         Change(s, change, status)
  PROVE  Grown(s)
  <1>1. /\ UNCHANGED <<world, owner, client, proc, runs, lame, overlap>> /\ voided' = voided
    BY DEF Change, google, webhooks
  <1>2. Grows(s)
    BY ChangeGrows
  <1>3. PICK q : /\ AllOf(q, s) /\ wire' = [wire EXCEPT ![s] = wire[s] \o q]
                 /\ world[s].source = "google" =>
                      \E type : /\ Mapped(SUBSCRIPTION_NOTIFICATION_MAP, type)
                                /\ q = <<GoogleSubscription(s, type, sub'[s].token)>>
    BY ChangeGrows
  <1>4. ASSUME NEW type, Mapped(SUBSCRIPTION_NOTIFICATION_MAP, type)
        PROVE  Tells(s, GoogleSubscription(s, type, sub'[s].token))
    BY <1>4 DEF Tells, GoogleSubscription
  <1>5. world[s].source = "google" => \E n : q = <<n>> /\ Tells(s, n)
    BY <1>3, <1>4
  <1> QED BY <1>1, <1>2, <1>3, <1>5 DEF Grown

LEMMA RefundIsGrown ==
  ASSUME ProvidersAssumption, Typed, WiresAgree, NEW s \in Subs, Refund(s)
  PROVE  Grown(s)
  <1>1. UNCHANGED <<world, owner, client, proc, runs, lame, overlap>>
    BY DEF Refund, google, webhooks
  <1>2. /\ Grows(s) /\ sub'[s].token = sub[s].token
        /\ AllOf(Refunds(s), s) /\ wire' = [wire EXCEPT ![s] = @ \o Refunds(s)]
        /\ world[s].source = "google" => Refunds(s) = <<GoogleVoided(s, sub[s].token)>>
        /\ \/ voided' = voided
           \/ world[s].source = "google" /\ voided' = voided \cup {<<s, sub[s].token>>}
    BY RefundGrows
  <1>3. Tells(s, GoogleVoided(s, sub[s].token))
    BY <1>2 DEF Tells, GoogleVoided
  <1>4. sub[s].token > 0
    BY <1>2 DEF Grows
  <1>5. PICK q : q = Refunds(s)
    OBVIOUS
  <1>6. world[s].source = "google" => \E n : q = <<n>> /\ Tells(s, n)
    BY <1>2, <1>3, <1>5
  <1>7. \A v \in voided' :
          v \in voided \/ (world[s].source = "google" /\ v = <<s, sub[s].token>> /\ sub[s].token > 0)
    BY <1>2, <1>4
  <1> QED BY <1>1, <1>2, <1>5, <1>6, <1>7 DEF Grown

LEMMA DeliveredIsTaken ==
  ASSUME Typed, NEW s \in Subs, Delivered(s)
  PROVE  Taken(s)
  <1>1. \A w \in DOMAIN runs : SameRun(w)
    BY RunIsOne, OwnersStay DEF Delivered, Kept, SameRun
  <1> QED BY <1>1 DEF Delivered, Taken

LEMMA FetchedIsTaken ==
  ASSUME Typed, WiresAgree, NEW s \in Subs, FetchedOne(s)
  PROVE  Taken(s)
  <1>1. world[s].source = "google" /\ wire[s] # <<>>
    BY DEF FetchedOne, WiresAgree
  <1>2. DOMAIN runs' = DOMAIN runs /\ \A w \in DOMAIN runs : SameRun(w)
    BY WaitsTurn DEF FetchedOne, Kept, SameRun
  <1> QED BY <1>1, <1>2 DEF FetchedOne, Taken

LEMMA Forms ==
  ASSUME ProvidersAssumption, Typed, WiresAgree, [Next]_vars
  PROVE  \/ UNCHANGED vars
         \/ \E s \in Subs : \/ Grown(s) \/ Taken(s) \/ Calling(s)
                            \/ Importing(world[s]) \/ Listed(world[s]) \/ Piped(world[s])
  BY Steps, ChangeIsGrown, RefundIsGrown, DeliveredIsTaken, FetchedIsTaken
-----------------------------------------------------------------------------
\* What is processed gives the rows users, and takes none away.
LEMMA TakenRows ==
  ASSUME ProvidersAssumption, Typed, WiresAgree, RowsAgree, UsersAgree, NEW s \in Subs, Taken(s)
  PROVE  /\ RowsAgree' /\ UsersAgree' /\ \A row \in owner' : row.user \in Users
         /\ owner \subseteq owner'
  <1>1. About(s, Head(wire[s])) /\ world' = world
    BY HeadIsAbout DEF Taken, Kept
  <1> QED BY <1>1, Processed DEF Taken

LEMMA ListedItem ==
  ASSUME ProvidersAssumption, Typed, ImportsAgree, NEW w \in DOMAIN runs, NEW item \in runs[w].todo
  PROVE  item[1] \in Subs /\ world[item[1]] = w
  <1>1. runs[w] \in Run(w)
    BY RunIsOne
  <1>2. item[1] \in Subs
    BY <1>1 DEF Run, Purchases
  <1> QED BY <1>2 DEF ImportsAgree

LEMMA ListedRows ==
  ASSUME ProvidersAssumption, Typed, RowsAgree, UsersAgree, ImportsAgree,
         NEW w \in DOMAIN runs, Listed(w)
  PROVE  /\ RowsAgree' /\ UsersAgree' /\ \A row \in owner' : row.user \in Users
         /\ owner \subseteq owner'
         /\ \E item \in runs[w].todo : UsersOf(item[1])' # {} /\ runs' = [runs EXCEPT ![w].todo = @ \ {item}]
  <1>1. PICK item \in runs[w].todo :
          /\ world' = world /\ runs[w].at = "pages" /\ Process(item[1], Imported(item[1], item[2]), TRUE)
          /\ runs' = [runs EXCEPT ![w].todo = @ \ {item}]
    BY DEF Listed, Kept
  <1>2. item[1] \in Subs /\ world[item[1]] = w /\ w.source = "recurly"
    BY <1>1, ListedItem DEF ImportsAgree
  <1>3. About(item[1], Imported(item[1], item[2])) /\ Normalize(item[1], Imported(item[1], item[2])) # <<>>
    BY <1>2, ImportedIsAbout, ImportsMakeEvents
  <1> QED BY <1>1, <1>2, <1>3, Processed

LEMMA ListedTurns ==
  ASSUME Typed, NEW w \in DOMAIN runs, Listed(w)
  PROVE  (\E r : Turn(w, r)) /\ UNCHANGED <<world, sub, voided, wire, client, proc, lame, overlap>>
  BY DropTurns DEF Listed, Kept

\* A webhook made up by an import comes first.
LEMMA PipedNote ==
  ASSUME ProvidersAssumption, Typed, ImportsAgree, NEW w \in DOMAIN runs, Piped(w)
  PROVE  \E t, n :
           /\ t \in Subs /\ world[t] = w /\ w.source = "google" /\ proc[t].at = "idle" /\ About(t, n)
           /\ (n.kind = "subscription" \/ n.kind = "voided")
           /\ wire' = [wire EXCEPT ![t] = <<n>> \o wire[t]]
           /\ lame' = IF InTurn(t, n) THEN lame ELSE lame \cup {t}
           /\ \E r : Turn(w, r) /\ r.at = runs[w].at /\ r.todo \subseteq runs[w].todo
                     /\ r.all = runs[w].all
           /\ UNCHANGED <<world, sub, voided, owner, client, proc, overlap>>
  <1>1. PICK item, n :
          /\ item \in runs[w].todo
          /\ Kept /\ UNCHANGED <<client, overlap, proc, owner>>
          /\ runs[w].at \in {"tokens", "voided"} /\ proc[item[1]].at = "idle" /\ n.token = item[2]
          /\ Pipe(w, item[1], n)
          /\ \/ /\ n = GoogleSubscription(item[1], "PURCHASED", item[2])
                /\ lame' = IF item[2] > 2 /\ ~Known(item[1], item[2] - 1) THEN lame \cup {item[1]} ELSE lame
             \/ /\ n = GoogleVoided(item[1], item[2])
                /\ lame' = IF Known(item[1], item[2]) THEN lame ELSE lame \cup {item[1]}
    BY DEF Piped
  <1>2. PICK t \in Subs : t = item[1]
    BY <1>1, ListedItem
  <1>3. world[t] = w /\ w.source = "google" /\ item[2] \in 1..sub[t].token
    BY <1>1, <1>2, ListedItem DEF ImportsAgree
  <1>4. Mapped(SUBSCRIPTION_NOTIFICATION_MAP, "PURCHASED")
    BY GoogleTypesMapped DEF GoogleTypes
  <1>5. About(t, n) /\ (n.kind = "subscription" \/ n.kind = "voided")
    BY <1>1, <1>2, <1>3, <1>4 DEF About, GoogleNote, GoogleSubscription, GoogleVoided
  <1>6. lame' = IF InTurn(t, n) THEN lame ELSE lame \cup {t}
    <2>1. CASE /\ n = GoogleSubscription(item[1], "PURCHASED", item[2])
               /\ lame' = IF item[2] > 2 /\ ~Known(item[1], item[2] - 1) THEN lame \cup {item[1]} ELSE lame
      <3>1. n.kind = "subscription"
        BY <2>1 DEF GoogleSubscription
      <3> QED BY <1>1, <1>2, <2>1, <3>1 DEF InTurn
    <2>2. CASE /\ n = GoogleVoided(item[1], item[2])
               /\ lame' = IF Known(item[1], item[2]) THEN lame ELSE lame \cup {item[1]}
      <3>1. n.kind = "voided"
        BY <2>2 DEF GoogleVoided
      <3> QED BY <1>1, <1>2, <2>2, <3>1 DEF InTurn
    <2> QED BY <1>1, <2>1, <2>2
  <1>7. \E r : Turn(w, r) /\ r.at = runs[w].at /\ r.todo \subseteq runs[w].todo
               /\ r.all = runs[w].all
    <2>1. PICK x : x = <<item[1], n.token>>
      OBVIOUS
    <2>2. runs' = [runs EXCEPT ![w].todo = @ \ {x}, ![w].waits = t]
      BY <1>1, <1>2, <2>1 DEF Pipe
    <2>3. t \in Subs \cup {None}
      OBVIOUS
    <2>4. \E r : /\ Turn(w, r) /\ r.at = runs[w].at /\ r.todo = runs[w].todo \ {x}
                 /\ r.all = runs[w].all /\ r.more = runs[w].more /\ r.seen = runs[w].seen
                 /\ r.lost = runs[w].lost
      BY <2>2, <2>3, DropTurns
    <2> QED BY <2>4
  <1>8. wire' = [wire EXCEPT ![t] = <<n>> \o wire[t]]
    BY <1>1, <1>2 DEF Pipe
  <1> QED BY <1>1, <1>2, <1>3, <1>5, <1>6, <1>7, <1>8 DEF Kept
-----------------------------------------------------------------------------
\* The types hold of what a step leaves.
LEMMA TypedIsKept ==
  ASSUME Typed, world' = world, \A row \in owner' : row.user \in Users,
         sub' \in [Subs -> Sub], voided' \subseteq Purchases, lame' \subseteq Subs,
         client' \in [creds : Owners, token : Owners],
         proc' \in [Subs -> [at : Places, held : Owners]],
         DOMAIN runs' = DOMAIN runs, \A w \in DOMAIN runs : runs'[w] \in Run(w)
  PROVE  Typed'
  <1>1. Owners' = Owners /\ \A w : Run(w)' = Run(w)
    BY OwnersStay
  <1>2. DOMAIN runs' = {world[t] : t \in Subs} /\ \A w \in DOMAIN runs' : runs'[w] \in Run(w)'
    BY <1>1 DEF Typed
  <1> QED BY <1>1, <1>2 DEF Typed, Purchases, Places

LEMMA TypedStep ==
  ASSUME ProvidersAssumption, Typed, WiresAgree, RowsAgree, UsersAgree, ImportsAgree, [Next]_vars
  PROVE  Typed'
  <1>0. /\ \A row \in owner : row.user \in Users
        /\ sub \in [Subs -> Sub] /\ voided \subseteq Purchases /\ lame \subseteq Subs
        /\ client \in [creds : Owners, token : Owners]
        /\ proc \in [Subs -> [at : Places, held : Owners]]
        /\ \A w \in DOMAIN runs : runs[w] \in Run(w)
        /\ \A t \in Subs : world[t] \in DOMAIN runs
    BY DEF Typed, Places
  <1>1. CASE UNCHANGED vars
    <2>1. UNCHANGED <<world, sub, voided, owner, client, proc, runs, lame>>
      BY <1>1 DEF vars
    <2> QED BY <1>0, <2>1, TypedIsKept
  <1>2. ASSUME NEW s \in Subs, Grown(s) PROVE Typed'
    <2>1. sub' \in [Subs -> Sub]
      BY <1>0, <1>2 DEF Grown, Grows
    <2>2. voided' \subseteq Purchases
      BY <1>0, <1>2 DEF Grown, Grows, Purchases
    <2> QED BY <1>0, <1>2, <2>1, <2>2, TypedIsKept DEF Grown
  <1>3. ASSUME NEW s \in Subs, Taken(s) PROVE Typed'
    <2>1. \A row \in owner' : row.user \in Users
      BY <1>3, TakenRows
    <2>2. proc' \in [Subs -> [at : Places, held : Owners]]
      <3>1. "idle" \in Places /\ None \in Owners
        BY DEF Places, Owners
      <3> QED BY <1>0, <1>3, <3>1, AtPlace DEF Taken
    <2>3. lame' \subseteq Subs /\ UNCHANGED <<world, sub, voided, client>>
      BY <1>0, <1>3 DEF Taken, Kept
    <2>4. DOMAIN runs' = DOMAIN runs /\ \A w \in DOMAIN runs : runs'[w] \in Run(w)
      BY <1>3 DEF Taken, SameRun
    <2> QED BY <1>0, <2>1, <2>2, <2>3, <2>4, TypedIsKept
  <1>4. ASSUME NEW s \in Subs, Calling(s) PROVE Typed'
    <2>1. client' \in [creds : Owners, token : Owners]
      BY <1>4, CallingSteps
    <2>2. UNCHANGED <<world, sub, voided, wire, owner, runs, lame>>
      BY <1>4, CallingSteps
    <2>3. PICK at \in Places, held \in Owners : At(s, at, held)
      BY <1>4, CallingSteps
    <2>4. proc' \in [Subs -> [at : Places, held : Owners]]
      BY <2>3, AtPlace
    <2> QED BY <1>0, <2>1, <2>2, <2>4, TypedIsKept
  <1>5. ASSUME NEW w \in DOMAIN runs, NEW r, Turn(w, r), world' = world
        PROVE  DOMAIN runs' = DOMAIN runs /\ \A v \in DOMAIN runs : runs'[v] \in Run(v)
    BY <1>0, <1>5 DEF Turn
  <1>6. ASSUME NEW w \in DOMAIN runs, Importing(w) PROVE Typed'
    <2>1. (\E r : Turn(w, r)) /\ UNCHANGED <<world, sub, voided, wire, owner, client, proc, lame, overlap>>
      BY <1>6, ImportingTurns
    <2> QED BY <1>0, <1>5, <2>1, TypedIsKept
  <1>7. ASSUME NEW w \in DOMAIN runs, Listed(w) PROVE Typed'
    <2>1. (\E r : Turn(w, r)) /\ UNCHANGED <<world, sub, voided, wire, client, proc, lame, overlap>>
      BY <1>7, ListedTurns
    <2>2. \A row \in owner' : row.user \in Users
      BY <1>7, ListedRows
    <2> QED BY <1>0, <1>5, <2>1, <2>2, TypedIsKept
  <1>8. ASSUME NEW w \in DOMAIN runs, Piped(w) PROVE Typed'
    <2>1. PICK t, n :
            /\ t \in Subs
            /\ lame' = IF InTurn(t, n) THEN lame ELSE lame \cup {t}
            /\ \E r : Turn(w, r)
            /\ UNCHANGED <<world, sub, voided, owner, client, proc, overlap>>
      BY <1>8, PipedNote
    <2>2. lame' \subseteq Subs
      BY <1>0, <2>1
    <2> QED BY <1>0, <1>5, <2>1, <2>2, TypedIsKept
  <1> QED BY <1>0, <1>1, <1>2, <1>3, <1>4, <1>6, <1>7, <1>8, Forms
-----------------------------------------------------------------------------
\* The wires, one at a time.
Notes(s, q) == IsSequence(q) /\ \A i \in 1..Len(q) : About(s, q[i])

LEMMA WiresAre ==
  ASSUME WiresAgree
  PROVE  /\ wire = [s \in Subs |-> wire[s]]
         /\ \A s \in Subs : /\ Notes(s, wire[s])
                            /\ proc[s].at # "idle" => world[s].source = "google" /\ wire[s] # <<>>
                            /\ sub[s].status # "none" => sub[s].token > 0
  <1>1. \A s \in Subs : IsSequence(wire[s]) /\ DOMAIN wire[s] = 1..Len(wire[s])
    BY DEF WiresAgree, IsSequence
  <1> QED BY <1>1 DEF WiresAgree, Notes, About

LEMMA WiresAgreeNext ==
  ASSUME wire' = [s \in Subs |-> wire'[s]],
         \A s \in Subs : /\ Notes(s, wire[s])'
                         /\ proc'[s].at # "idle" => world'[s].source = "google" /\ wire'[s] # <<>>
                         /\ sub'[s].status # "none" => sub'[s].token > 0
  PROVE  WiresAgree'
  <1>1. \A s \in Subs : IsSequence(wire'[s]) /\ DOMAIN wire'[s] = 1..Len(wire'[s])
    BY DEF Notes, IsSequence
  <1> QED BY <1>1 DEF WiresAgree, Notes, About, IsSequence

LEMMA OneWire ==
  ASSUME WiresAgree, NEW s \in Subs, NEW q, wire' = [wire EXCEPT ![s] = q]
  PROVE  /\ wire'[s] = q /\ \A t \in Subs : t # s => wire'[t] = wire[t]
         /\ wire' = [t \in Subs |-> wire'[t]]
  BY DEF WiresAgree

\* What is about a subscription stays so: tokens only grow.
LEMMA NotesStay ==
  ASSUME world' = world, NEW s \in Subs, sub[s].token \in Nat, sub'[s].token \in Nat,
         sub[s].token <= sub'[s].token
  PROVE  /\ \A n : About(s, n) => About(s, n)'
         /\ \A q : Notes(s, q) => Notes(s, q)'
  <1>1. \A n : GoogleNote(s, n) => GoogleNote(s, n)'
    BY DEF GoogleNote
  <1> QED BY <1>1 DEF About, Notes

LEMMA TokensGrow ==
  ASSUME Typed, NEW s \in Subs, Grown(s), NEW t \in Subs
  PROVE  /\ sub[t].token \in Nat /\ sub'[t].token \in Nat /\ sub[t].token <= sub'[t].token
         /\ sub'[t].token \in {sub[t].token, sub[t].token + 1}
         /\ t # s => sub'[t] = sub[t]
         /\ sub[t].status # "none" => sub'[t].status # "none"
  <1>1. sub[t].token \in Nat /\ sub \in [Subs -> Sub]
    BY DEF Typed, Sub
  <1>2. CASE t # s
    BY <1>1, <1>2 DEF Grown, Grows
  <1>3. CASE t = s
    BY <1>1, <1>3 DEF Grown, Grows
  <1> QED BY <1>2, <1>3

LEMMA GrownWire ==
  ASSUME Typed, WiresAgree, NEW s \in Subs, Grown(s)
  PROVE  /\ wire' = [t \in Subs |-> wire'[t]] /\ \A t \in Subs : t # s => wire'[t] = wire[t]
         /\ Notes(s, wire[s])' /\ Len(wire[s]) \in Nat /\ Len(wire'[s]) >= Len(wire[s])
         /\ \A i \in 1..Len(wire[s]) : wire'[s][i] = wire[s][i]
         /\ world[s].source = "google" =>
              Len(wire'[s]) = Len(wire[s]) + 1 /\ Tells(s, wire'[s][Len(wire[s]) + 1])
  <1>1. PICK q : /\ AllOf(q, s) /\ wire' = [wire EXCEPT ![s] = wire[s] \o q]
                 /\ world[s].source = "google" => \E n : q = <<n>> /\ Tells(s, n)
    BY DEF Grown
  <1>2. wire'[s] = wire[s] \o q
    BY <1>1, OneWire
  <1>3. Notes(s, wire[s]) /\ IsSequence(wire[s]) /\ IsSequence(q)
    BY <1>1, WiresAre DEF Notes, AllOf
  <1>4. /\ IsSequence(wire'[s]) /\ Len(wire'[s]) = Len(wire[s]) + Len(q)
        /\ \A i \in 1..Len(wire'[s]) : wire'[s][i] = IF i <= Len(wire[s]) THEN wire[s][i] ELSE q[i - Len(wire[s])]
        /\ Len(wire[s]) \in Nat /\ Len(q) \in Nat
    BY <1>2, <1>3, Joined
  <1>5. world' = world /\ sub[s].token \in Nat /\ sub'[s].token \in Nat /\ sub[s].token <= sub'[s].token
    BY TokensGrow DEF Grown
  <1>6. \A i \in 1..Len(wire[s]) : wire'[s][i] = wire[s][i]
    BY <1>4
  <1>7. ASSUME world[s].source = "google"
        PROVE  /\ Len(q) = 1 /\ Len(wire'[s]) = Len(wire[s]) + 1
               /\ Tells(s, wire'[s][Len(wire[s]) + 1]) /\ Tells(s, q[1])
    <2>1. PICK n : q = <<n>> /\ Tells(s, n)
      BY <1>1, <1>7
    <2>2. Len(q) = 1 /\ q[1] = n
      BY <2>1
    <2> QED BY <1>4, <2>1, <2>2
  <1>8. \A n : About(s, n) => About(s, n)'
    BY <1>5, NotesStay
  <1>9. ASSUME NEW i \in 1..Len(q) PROVE About(s, q[i])'
    <2>1. q[i].of = s
      BY <1>1 DEF AllOf
    <2>2. CASE world[s].source = "google"
      <3>9. Len(q) = 1
        BY <1>7, <2>2
      <3>0. i = 1
        BY <3>9
      <3>1. Tells(s, q[i])
        BY <1>7, <2>2, <3>0
      <3>2. PICK k : k = sub'[s].token
        OBVIOUS
      <3>3. k \in Nat /\ k > 0
        BY <3>2 DEF Grown, Grows
      <3>4. k \in 1..k
        BY <3>3
      <3>5. q[i].token \in 1..sub'[s].token
        BY <3>1, <3>2, <3>4 DEF Tells
      <3> QED BY <2>1, <3>1, <3>5 DEF About, GoogleNote, Tells
    <2>3. CASE world[s].source # "google"
      BY <1>5, <2>1, <2>3 DEF About
    <2> QED BY <2>2, <2>3
  <1>10. PICK new : new = wire'[s]
    OBVIOUS
  <1>11. ASSUME NEW i \in 1..Len(new) PROVE About(s, new[i])'
    <2>1. CASE i <= Len(wire[s])
      <3>1. i \in 1..Len(wire[s])
        BY <1>4, <1>10, <2>1
      <3>2. new[i] = wire[s][i] /\ About(s, wire[s][i])
        BY <1>3, <1>6, <1>10, <3>1 DEF Notes
      <3>3. PICK n : n = new[i]
        OBVIOUS
      <3>4. About(s, n)'
        BY <1>8, <3>2, <3>3
      <3> QED BY <3>3, <3>4
    <2>2. CASE ~(i <= Len(wire[s]))
      <3>1. i - Len(wire[s]) \in 1..Len(q) /\ new[i] = q[i - Len(wire[s])]
        BY <1>4, <1>10, <2>2
      <3>2. PICK k \in 1..Len(q) : new[i] = q[k]
        BY <3>1
      <3>3. About(s, q[k])'
        BY <1>9
      <3> QED BY <3>2, <3>3
    <2> QED BY <2>1, <2>2
  <1>12. Notes(s, new)'
    BY <1>4, <1>10, <1>11 DEF Notes, IsSequence
  <1>13. Notes(s, wire[s])'
    BY <1>10, <1>12
  <1>14. /\ wire' = [t \in Subs |-> wire'[t]] /\ \A t \in Subs : t # s => wire'[t] = wire[t]
    BY <1>1, OneWire
  <1>15. Len(wire'[s]) >= Len(wire[s])
    BY <1>4
  <1> QED BY <1>4, <1>6, <1>7, <1>13, <1>14, <1>15

LEMMA TakenWire ==
  ASSUME WiresAgree, NEW s \in Subs, wire[s] # <<>>, wire' = [wire EXCEPT ![s] = Tail(@)],
         world' = world, sub' = sub
  PROVE  /\ wire' = [t \in Subs |-> wire'[t]] /\ \A t \in Subs : t # s => wire'[t] = wire[t]
         /\ Notes(s, wire[s])' /\ Len(wire'[s]) = Len(wire[s]) - 1 /\ Len(wire[s]) \in Nat \ {0}
         /\ \A i \in 1..Len(wire'[s]) : wire'[s][i] = wire[s][i + 1]
         /\ Head(wire[s]) = wire[s][1]
  <1>1. PICK new : new = Tail(wire[s])
    OBVIOUS
  <1>2. wire' = [wire EXCEPT ![s] = new]
    BY <1>1
  <1>3. wire'[s] = new
    BY <1>2, OneWire
  <1>4. Notes(s, wire[s]) /\ IsSequence(wire[s])
    BY WiresAre DEF Notes
  <1>5. /\ IsSequence(new) /\ Len(new) = Len(wire[s]) - 1 /\ Len(wire[s]) \in Nat \ {0}
        /\ \A i \in 1..Len(new) : new[i] = wire[s][i + 1]
        /\ Head(wire[s]) = wire[s][1]
    BY <1>1, <1>4, Shorter
  <1>6. ASSUME NEW i \in 1..Len(new) PROVE About(s, new[i])'
    <2>1. i + 1 \in 1..Len(wire[s])
      BY <1>5
    <2>2. About(s, new[i])
      BY <1>4, <1>5, <2>1 DEF Notes
    <2>3. PICK n : n = new[i]
      OBVIOUS
    <2>4. About(s, n)'
      BY <2>2, <2>3 DEF About, GoogleNote
    <2> QED BY <2>3, <2>4
  <1>7. Notes(s, new)'
    BY <1>5, <1>6 DEF Notes, IsSequence
  <1>8. Notes(s, wire[s])'
    BY <1>3, <1>7
  <1> QED BY <1>2, <1>3, <1>5, <1>8, OneWire

LEMMA PipedWire ==
  ASSUME WiresAgree, NEW s \in Subs, NEW n, About(s, n), wire' = [wire EXCEPT ![s] = <<n>> \o wire[s]],
         world' = world, sub' = sub
  PROVE  /\ wire' = [t \in Subs |-> wire'[t]] /\ \A t \in Subs : t # s => wire'[t] = wire[t]
         /\ Notes(s, wire[s])' /\ Len(wire'[s]) = Len(wire[s]) + 1 /\ Len(wire[s]) \in Nat
         /\ \A i \in 1..Len(wire'[s]) : wire'[s][i] = IF i = 1 THEN n ELSE wire[s][i - 1]
  <1>1. PICK new : new = <<n>> \o wire[s]
    OBVIOUS
  <1>2. wire' = [wire EXCEPT ![s] = new]
    BY <1>1
  <1>3. wire'[s] = new
    BY <1>2, OneWire
  <1>4. Notes(s, wire[s]) /\ IsSequence(wire[s])
    BY WiresAre DEF Notes
  <1>5. PICK one : one = <<n>>
    OBVIOUS
  <1>6. IsSequence(one) /\ Len(one) = 1 /\ one[1] = n
    <2>1. one \in Seq({n})
      BY <1>5
    <2> QED BY <1>5, <2>1, SequencesAre
  <1>7. /\ IsSequence(new) /\ Len(new) = 1 + Len(wire[s]) /\ Len(wire[s]) \in Nat
        /\ \A i \in 1..Len(new) : new[i] = IF i <= 1 THEN one[i] ELSE wire[s][i - 1]
    <2>1. new = one \o wire[s]
      BY <1>1, <1>5
    <2> QED BY <1>4, <1>6, <2>1, Joined
  <1>8. Len(new) = Len(wire[s]) + 1 /\ \A i \in 1..Len(new) : new[i] = IF i = 1 THEN n ELSE wire[s][i - 1]
    BY <1>6, <1>7
  <1>9. ASSUME NEW i \in 1..Len(new) PROVE About(s, new[i])'
    <2>1. i = 1 \/ i - 1 \in 1..Len(wire[s])
      BY <1>7
    <2>2. About(s, new[i])
      BY <1>4, <1>8, <2>1 DEF Notes
    <2>3. PICK m : m = new[i]
      OBVIOUS
    <2>4. About(s, m)'
      BY <2>2, <2>3 DEF About, GoogleNote
    <2> QED BY <2>3, <2>4
  <1>10. Notes(s, new)'
    BY <1>7, <1>9 DEF Notes, IsSequence
  <1>11. Notes(s, wire[s])'
    BY <1>3, <1>10
  <1> QED BY <1>2, <1>3, <1>7, <1>8, <1>11, OneWire

LEMMA CallingStep ==
  ASSUME ProvidersAssumption, Typed, WiresAgree, NEW s \in Subs, Calling(s)
  PROVE  /\ world[s].source = "google" /\ wire[s] # <<>> /\ proc'[s].at # "idle"
         /\ \A t \in Subs : t # s => proc'[t] = proc[t]
         /\ UNCHANGED <<world, sub, voided, wire, owner, runs, lame>>
  <1>1. PICK at \in Places \ {"idle"}, held \in Owners : At(s, at, held)
    BY CallingSteps
  <1>2. proc'[s].at # "idle" /\ \A t \in Subs : t # s => proc'[t] = proc[t]
    BY <1>1, AtPlace
  <1>3. world[s].source = "google" /\ wire[s] # <<>>
    <2>1. CASE SetCredentials(s)
      BY <2>1 DEF SetCredentials
    <2>2. CASE proc[s].at # "idle"
      BY <2>2, WiresAre
    <2> QED BY <2>1, <2>2 DEF Calling, Token, Sign, Exchange, ExchangeFails
  <1> QED BY <1>2, <1>3, CallingSteps

LEMMA WiresStep ==
  ASSUME ProvidersAssumption, Typed, WiresAgree, ImportsAgree, [Next]_vars
  PROVE  WiresAgree'
  <1> DEFINE Fine(t) == /\ Notes(t, wire[t])'
                        /\ proc'[t].at # "idle" => world'[t].source = "google" /\ wire'[t] # <<>>
                        /\ sub'[t].status # "none" => sub'[t].token > 0
             Total == wire' = [t \in Subs |-> wire'[t]]
  <1> SUFFICES Total /\ \A t \in Subs : Fine(t)
    BY WiresAgreeNext
  <1>0. ASSUME NEW t \in Subs, world' = world, sub'[t] = sub[t], wire'[t] = wire[t],
               proc'[t].at = proc[t].at \/ proc'[t].at = "idle" \/ (world[t].source = "google" /\ wire[t] # <<>>)
        PROVE  Fine(t)
    <2>1. sub[t].token \in Nat /\ sub[t].token <= sub'[t].token /\ sub'[t].token \in Nat
      BY <1>0 DEF Typed, Sub
    <2>2. PICK q : q = wire[t]
      OBVIOUS
    <2>3. Notes(t, q)'
      BY <1>0, <2>1, <2>2, WiresAre, NotesStay
    <2>4. Notes(t, wire[t])'
      BY <1>0, <2>2, <2>3
    <2> QED BY <1>0, <2>4, WiresAre
  <1>1. CASE UNCHANGED <<world, sub, wire, proc>>
    <2>1. Total
      BY <1>1, WiresAre
    <2>2. \A t \in Subs : Fine(t)
      <3>1. world' = world /\ sub' = sub /\ wire' = wire /\ proc' = proc
        BY <1>1
      <3> QED BY <1>0, <3>1
    <2> QED BY <2>1, <2>2
  <1>2. ASSUME NEW s \in Subs, Grown(s) PROVE Total /\ \A t \in Subs : Fine(t)
    <2>1. Total /\ \A t \in Subs : t # s => wire'[t] = wire[t]
      BY <1>2, GrownWire
    <2>2. world' = world /\ proc' = proc /\ \A t \in Subs : t # s => sub'[t] = sub[t]
      BY <1>2, TokensGrow DEF Grown
    <2>3. ASSUME NEW t \in Subs, t # s PROVE Fine(t)
      BY <1>0, <2>1, <2>2, <2>3
    <2>4. Fine(s)
      <3>1. Notes(s, wire[s])' /\ Len(wire[s]) \in Nat /\ Len(wire'[s]) >= Len(wire[s])
        BY <1>2, GrownWire
      <3>2. sub'[s].token > 0
        BY <1>2 DEF Grown, Grows
      <3>3. ASSUME wire[s] # <<>> PROVE wire'[s] # <<>>
        <4>1. Len(wire[s]) \in Nat \ {0}
          BY <3>3, WiresAre, Shorter DEF Notes
        <4>2. Len(<<>>) = 0
          OBVIOUS
        <4> QED BY <3>1, <4>1, <4>2
      <3> QED BY <2>2, <3>1, <3>2, <3>3, WiresAre
    <2> QED BY <2>1, <2>3, <2>4
  <1>3. ASSUME NEW s \in Subs, Taken(s) PROVE Total /\ \A t \in Subs : Fine(t)
    <2>1. world' = world /\ sub' = sub /\ wire[s] # <<>> /\ wire' = [wire EXCEPT ![s] = Tail(@)]
      BY <1>3 DEF Taken, Kept
    <2>2. Total /\ Notes(s, wire[s])' /\ \A t \in Subs : t # s => wire'[t] = wire[t]
      BY <2>1, TakenWire
    <2>3. /\ \A t \in Subs : t # s => proc'[t] = proc[t]
          /\ proc'[s].at = "idle" \/ (world[s].source # "google" /\ proc'[s] = proc[s])
      <3>1. CASE proc' = proc /\ world[s].source # "google"
        BY <3>1
      <3>2. CASE At(s, "idle", None)
        <4>1. "idle" \in Places /\ None \in Owners
          BY DEF Places, Owners
        <4> QED BY <3>2, <4>1, AtPlace
      <3> QED BY <1>3, <3>1, <3>2 DEF Taken
    <2>4. ASSUME NEW t \in Subs, t # s PROVE Fine(t)
      BY <1>0, <2>1, <2>2, <2>3, <2>4
    <2>5. Fine(s)
      BY <2>1, <2>2, <2>3, WiresAre
    <2> QED BY <2>2, <2>4, <2>5
  <1>4. ASSUME NEW s \in Subs, Calling(s) PROVE Total /\ \A t \in Subs : Fine(t)
    <2>1. /\ world[s].source = "google" /\ wire[s] # <<>>
          /\ \A t \in Subs : t # s => proc'[t] = proc[t]
          /\ world' = world /\ sub' = sub /\ wire' = wire
      BY <1>4, CallingStep
    <2>2. Total
      BY <2>1, WiresAre
    <2> QED BY <1>0, <2>1, <2>2
  <1>5. ASSUME NEW w \in DOMAIN runs, Piped(w) PROVE Total /\ \A t \in Subs : Fine(t)
    <2>1. PICK s, n :
            /\ s \in Subs
            /\ proc[s].at = "idle" /\ About(s, n) /\ wire' = [wire EXCEPT ![s] = <<n>> \o wire[s]]
            /\ UNCHANGED <<world, sub, proc>>
      BY <1>5, PipedNote
    <2>2. Total /\ Notes(s, wire[s])' /\ \A t \in Subs : t # s => wire'[t] = wire[t]
      BY <2>1, PipedWire
    <2>3. ASSUME NEW t \in Subs, t # s PROVE Fine(t)
      BY <1>0, <2>1, <2>2, <2>3
    <2>4. Fine(s)
      BY <2>1, <2>2, WiresAre
    <2> QED BY <2>2, <2>3, <2>4
  <1>6. \A s \in Subs : world[s] \in DOMAIN runs
    BY DEF Typed
  <1>7. ASSUME NEW w \in DOMAIN runs, Importing(w) \/ Listed(w) PROVE UNCHANGED <<world, sub, wire, proc>>
    BY <1>7, ImportingTurns, ListedTurns
  <1> HIDE DEF Fine, Total
  <1>8. CASE UNCHANGED vars
    BY <1>1, <1>8 DEF vars
  <1> QED BY <1>1, <1>2, <1>3, <1>4, <1>5, <1>6, <1>7, <1>8, Forms
-----------------------------------------------------------------------------
LEMMA RowsStep ==
  ASSUME ProvidersAssumption, Typed, WiresAgree, RowsAgree, UsersAgree, ImportsAgree, [Next]_vars
  PROVE  RowsAgree' /\ UsersAgree' /\ owner \subseteq owner' /\ world' = world
  <1>0. ASSUME owner' = owner, world' = world
        PROVE  RowsAgree' /\ UsersAgree' /\ owner \subseteq owner' /\ world' = world
    BY <1>0 DEF RowsAgree, OwnRow, UsersAgree
  <1>1. \A s \in Subs : world[s] \in DOMAIN runs
    BY DEF Typed
  <1>2. CASE UNCHANGED vars
    <2>1. owner' = owner /\ world' = world
      BY <1>2 DEF vars
    <2> QED BY <1>0, <2>1
  <1>3. CASE \E s \in Subs : Grown(s)
    BY <1>0, <1>3 DEF Grown
  <1>4. CASE \E s \in Subs : Taken(s)
    BY <1>4, TakenRows DEF Taken, Kept
  <1>5. CASE \E s \in Subs : Calling(s)
    <2>1. owner' = owner /\ world' = world
      BY <1>5, CallingStep
    <2> QED BY <1>0, <2>1
  <1>6. CASE \E s \in Subs : Importing(world[s])
    <2>1. owner' = owner /\ world' = world
      BY <1>1, <1>6, ImportingTurns
    <2> QED BY <1>0, <2>1
  <1>7. CASE \E s \in Subs : Listed(world[s])
    BY <1>1, <1>7, ListedRows, ListedTurns
  <1>8. CASE \E s \in Subs : Piped(world[s])
    <2>1. owner' = owner /\ world' = world
      BY <1>1, <1>8, PipedNote
    <2> QED BY <1>0, <2>1
  <1> QED BY <1>2, <1>3, <1>4, <1>5, <1>6, <1>7, <1>8, Forms
-----------------------------------------------------------------------------
LEMMA HeadInTurn ==
  ASSUME WiresAgree, NEW s \in Subs, world[s].source = "google", wire[s] # <<>>,
         Gapless(KnownOf(s), wire[s], sub[s].token)
  PROVE  InTurn(s, Head(wire[s]))
  <1>1. 1 \in 1..Len(wire[s]) /\ Head(wire[s]) = wire[s][1]
    BY HeadIsAbout
  <1>2. \A k : Met(KnownOf(s), wire[s], k, 1) => Known(s, k)
    BY DEF Met, KnownOf
  <1>3. PICK n : n = wire[s][1]
    OBVIOUS
  <1>4. IF n.kind = "subscription" THEN n.token > 2 => Met(KnownOf(s), wire[s], n.token - 1, 1)
                                   ELSE Met(KnownOf(s), wire[s], n.token, 1)
    BY <1>1, <1>3 DEF Gapless
  <1> QED BY <1>1, <1>2, <1>3, <1>4 DEF InTurn

\* Rows of another customer are as they were.
LEMMA OthersStay ==
  ASSUME ProvidersAssumption, NEW s \in Subs, NEW hints,
         \A id \in hints : OwnId(s, id) \/ AppId(s, id),
         NEW user \in Users, Links(s, hints, user), world' = world, NEW t \in Subs, t # s
  PROVE  /\ \A row \in owner' : row.id[1] = t => row \in owner
         /\ OneRow(t) => OneRow(t)'
         /\ Below(t) => Below(t)'
  <1>1. \A row \in owner' : row.id[1] = t => row \in owner
    BY NewRows DEF ProvidersAssumption
  <1>2. owner \subseteq owner'
    BY DEF Links
  <1>3. \A k : Known(t, k) => Known(t, k)'
    BY <1>2, RowsAreKept
  <1>4. OneRow(t) => OneRow(t)'
    BY <1>1 DEF OneRow
  <1>5. Below(t) => Below(t)'
    BY <1>1, <1>3 DEF Below
  <1> QED BY <1>1, <1>4, <1>5

LEMMA ProcessedOne ==
  ASSUME ProvidersAssumption, Typed, RowsAgree, NEW s \in Subs, NEW n, About(s, n),
         NEW enriched \in BOOLEAN, Process(s, n, enriched), world' = world,
         NEW t \in Subs, OneRow(t),
         t = s /\ world[s].source = "google" => enriched = TRUE /\ Below(s) /\ InTurn(s, n)
  PROVE  OneRow(t)'
  <1>1. CASE owner' = owner
    BY <1>1 DEF OneRow
  <1>2. ASSUME NEW user \in Users, Links(s, Hints(s, n, enriched), user)
        PROVE  OneRow(t)'
    <2> DEFINE hints == Hints(s, n, enriched)
    <2>1. \A id \in hints : OwnId(s, id) \/ AppId(s, id)
      BY HintsAreOwn
    <2>2. CASE t # s
      BY <1>2, <2>1, <2>2, OthersStay
    <2>3. CASE t = s
      <3>1. (\E row \in owner : row.id[1] = s) =>
              \/ \A id \in hints : OwnId(s, id) => \E row \in owner : Names(row, s, id)
              \/ world[s].source # "apple" /\ \E row \in owner, id \in hints : Names(row, s, id)
        BY <2>3, CustomerIsMet
      <3>2. "app" \notin Subs
        BY DEF ProvidersAssumption
      <3> HIDE DEF hints
      <3>3. Links(s, hints, user)
        BY <1>2 DEF hints
      <3> QED BY <2>1, <2>3, <3>1, <3>2, <3>3, LinkingKeepsOne
    <2> QED BY <2>2, <2>3
  <1> QED BY <1>1, <1>2, ProcessLinks

LEMMA OneUserNext ==
  ASSUME \A t \in Subs \ lame' : OneRow(t)'
  PROVE  OneUser'
  BY DEF OneUser, OneRow, UsersOf

LEMMA OneUserStep ==
  ASSUME ProvidersAssumption, Typed, WiresAgree, RowsAgree, UsersAgree, OneUser, PurchasesAreMet,
         ImportsAgree, [Next]_vars
  PROVE  OneUser'
  <1> SUFFICES ASSUME NEW t \in Subs \ lame' PROVE OneRow(t)'
    BY OneUserNext
  <1>0. \A u \in Subs \ lame : OneRow(u)
    BY OneUserOfRows
  <1>1. \A s \in Subs : world[s] \in DOMAIN runs
    BY DEF Typed
  <1>2. CASE owner' = owner /\ lame \subseteq lame'
    BY <1>0, <1>2 DEF OneRow
  <1>3. ASSUME NEW s \in Subs, Taken(s) PROVE OneRow(t)'
    <2>1. PICK enriched \in BOOLEAN :
            /\ world' = world /\ wire[s] # <<>> /\ Process(s, Head(wire[s]), enriched)
            /\ lame' = IF enriched THEN lame ELSE lame \cup {s}
      BY <1>3 DEF Taken, Kept
    <2>2. t \notin lame /\ (t = s => enriched = TRUE)
      BY <2>1
    <2>3. t = s /\ world[s].source = "google" => enriched = TRUE /\ Below(s) /\ InTurn(s, Head(wire[s]))
      BY <2>1, <2>2, HeadInTurn DEF PurchasesAreMet, Below
    <2>4. About(s, Head(wire[s]))
      BY <2>1, HeadIsAbout
    <2>5. PICK n : n = Head(wire[s])
      OBVIOUS
    <2>6. About(s, n) /\ Process(s, n, enriched) /\ world' = world /\ t \in Subs /\ OneRow(t)
      BY <1>0, <2>1, <2>2, <2>4, <2>5
    <2>7. t = s /\ world[s].source = "google" => enriched = TRUE /\ Below(s) /\ InTurn(s, n)
      BY <2>3, <2>5
    <2> QED BY <2>6, <2>7, ProcessedOne
  <1>4. ASSUME NEW w \in DOMAIN runs, Listed(w) PROVE OneRow(t)'
    <2>1. PICK item \in runs[w].todo :
            /\ world' = world /\ lame' = lame /\ runs[w].at = "pages"
            /\ Process(item[1], Imported(item[1], item[2]), TRUE)
      BY <1>4 DEF Listed, Kept
    <2>2. item[1] \in Subs /\ world[item[1]] = w /\ w.source = "recurly"
      BY <2>1, ListedItem DEF ImportsAgree
    <2>3. About(item[1], Imported(item[1], item[2]))
      BY <2>2, ImportedIsAbout
    <2> QED BY <1>0, <2>1, <2>2, <2>3, ProcessedOne
  <1>5. CASE \E s \in Subs : Grown(s)
    BY <1>2, <1>5 DEF Grown
  <1>6. CASE \E s \in Subs : Calling(s)
    BY <1>2, <1>6, CallingStep
  <1>7. CASE \E s \in Subs : Importing(world[s])
    BY <1>1, <1>2, <1>7, ImportingTurns
  <1>8. CASE \E s \in Subs : Piped(world[s])
    <2>1. \E u, n : u \in Subs /\ owner' = owner /\ lame' = IF InTurn(u, n) THEN lame ELSE lame \cup {u}
      BY <1>1, <1>8, PipedNote
    <2> QED BY <1>2, <2>1
  <1>9. CASE UNCHANGED vars
    BY <1>2, <1>9 DEF vars
  <1> QED BY <1>1, <1>3, <1>4, <1>5, <1>6, <1>7, <1>8, <1>9, Forms
-----------------------------------------------------------------------------
\* What a wire without gaps becomes as it grows, is served, or is put a purchase first.
LEMMA MetLater ==
  ASSUME NEW known, NEW more, known \subseteq more, NEW q, NEW r, NEW k,
         NEW i \in Nat, NEW j \in Nat, Met(known, q, k, i),
         \A h \in 1..(i - 1) : \/ q[h].kind = "subscription" /\ q[h].token = k => k \in more
                               \/ \E g \in 1..(j - 1) : r[g] = q[h]
  PROVE  Met(more, r, k, j)
  <1>1. CASE k \in known
    BY <1>1 DEF Met
  <1>2. ASSUME NEW h \in 1..(i - 1), q[h].kind = "subscription", q[h].token = k
        PROVE  Met(more, r, k, j)
    <2>1. CASE k \in more
      BY <2>1 DEF Met
    <2>2. ASSUME NEW g \in 1..(j - 1), r[g] = q[h] PROVE Met(more, r, k, j)
      BY <1>2, <2>2 DEF Met
    <2> QED BY <1>2, <2>1, <2>2
  <1> QED BY <1>1, <1>2 DEF Met

LEMMA GaplessKnowsMore ==
  ASSUME NEW known, NEW more, known \subseteq more, NEW q, NEW made, Gapless(known, q, made)
  PROVE  Gapless(more, q, made)
  <1>1. \A k, i : Met(known, q, k, i) => Met(more, q, k, i)
    BY DEF Met
  <1> QED BY <1>1 DEF Gapless

LEMMA GaplessGrows ==
  ASSUME NEW known, NEW q, NEW r, NEW l \in Nat, Len(q) = l, Len(r) = l + 1,
         \A i \in 1..l : r[i] = q[i],
         NEW k \in Nat, NEW m \in Nat, m = k \/ m = k + 1, m > 0, r[l + 1].token = m,
         r[l + 1].kind = "subscription" \/ (r[l + 1].kind # "subscription" /\ m = k),
         Gapless(known, q, k)
  PROVE  Gapless(known, r, m)
  <1>1. ASSUME NEW token, NEW i \in 1..(l + 1), Met(known, q, token, i)
        PROVE  Met(known, r, token, i) /\ Met(known, r, token, l + 2)
    <2>1. i \in Nat /\ i - 1 \in 0..l
      OBVIOUS
    <2>2. \A h \in 1..(i - 1) : h \in 1..(l + 2 - 1) /\ r[h] = q[h]
      OBVIOUS
    <2>3. \A h \in 1..(i - 1) : \E g \in 1..(i - 1) : r[g] = q[h]
      BY <2>2
    <2>4. \A h \in 1..(i - 1) : \E g \in 1..(l + 2 - 1) : r[g] = q[h]
      BY <2>2
    <2>5. PICK j \in Nat : j = l + 2
      OBVIOUS
    <2>6. Met(known, r, token, i)
      BY <1>1, <2>1, <2>3, MetLater
    <2>7. \A h \in 1..(i - 1) : \E g \in 1..(j - 1) : r[g] = q[h]
      BY <2>4, <2>5
    <2>8. Met(known, r, token, j)
      BY <1>1, <2>1, <2>7, MetLater
    <2> QED BY <2>5, <2>6, <2>8
  <1>2. \A token \in 1..k : Met(known, q, token, l + 1)
    BY DEF Gapless
  <1>3. l + 1 \in 1..(l + 1)
    OBVIOUS
  <1>4. ASSUME NEW token \in 1..m PROVE Met(known, r, token, l + 2)
    <2>1. CASE token \in 1..k
      BY <1>1, <1>2, <1>3, <2>1
    <2>2. CASE token \notin 1..k
      <3>1. token = m /\ m # k
        BY <2>2
      <3>2. r[l + 1].kind = "subscription" /\ r[l + 1].token = token
        BY <3>1
      <3>3. l + 1 \in 1..(l + 2 - 1)
        OBVIOUS
      <3> QED BY <3>2, <3>3 DEF Met
    <2> QED BY <2>1, <2>2
  <1>5. ASSUME NEW i \in 1..(l + 1)
        PROVE  IF r[i].kind = "subscription" THEN r[i].token > 2 => Met(known, r, r[i].token - 1, i)
                                             ELSE Met(known, r, r[i].token, i)
    <2>1. CASE i \in 1..l
      <3>1. PICK o : o = q[i]
        OBVIOUS
      <3>2. r[i] = o
        BY <2>1, <3>1
      <3>3. IF o.kind = "subscription" THEN o.token > 2 => Met(known, q, o.token - 1, i)
                                       ELSE Met(known, q, o.token, i)
        BY <2>1, <3>1 DEF Gapless
      <3> QED BY <1>1, <3>2, <3>3
    <2>2. CASE i = l + 1
      <3>1. PICK n : n = r[i]
        OBVIOUS
      <3>2. n.token = m /\ (n.kind = "subscription" \/ (n.kind # "subscription" /\ m = k))
        BY <2>2, <3>1
      <3>3. ASSUME m > 2 PROVE Met(known, r, m - 1, l + 1)
        <4>1. m - 1 \in 1..k
          BY <3>3
        <4> QED BY <1>1, <1>2, <1>3, <4>1
      <3>4. ASSUME m = k PROVE Met(known, r, m, l + 1)
        <4>1. m \in 1..k
          BY <3>4
        <4> QED BY <1>1, <1>2, <1>3, <4>1
      <3> QED BY <2>2, <3>1, <3>2, <3>3, <3>4
    <2>3. i \in 1..l \/ i = l + 1
      OBVIOUS
    <2> QED BY <2>1, <2>2, <2>3
  <1>6. Len(r) + 1 = l + 2
    OBVIOUS
  <1> QED BY <1>4, <1>5, <1>6 DEF Gapless

LEMMA GaplessIsServed ==
  ASSUME NEW known, NEW more, known \subseteq more, NEW q, NEW r, NEW l \in Nat,
         Len(q) = l + 1, Len(r) = l, \A i \in 1..l : r[i] = q[i + 1],
         q[1].kind = "subscription" => q[1].token \in more,
         NEW made, Gapless(known, q, made)
  PROVE  Gapless(more, r, made)
  <1>1. ASSUME NEW token, NEW i \in 1..(l + 1), Met(known, q, token, i + 1)
        PROVE  Met(more, r, token, i)
    <2>1. PICK j \in Nat : j = i + 1
      OBVIOUS
    <2>2. ASSUME NEW h \in 1..(j - 1)
          PROVE  \/ q[h].kind = "subscription" /\ q[h].token = token => token \in more
                 \/ \E g \in 1..(i - 1) : r[g] = q[h]
      <3>1. CASE h = 1
        BY <3>1
      <3>2. CASE h # 1
        <4>1. h - 1 \in 1..(i - 1) /\ h - 1 \in 1..l /\ (h - 1) + 1 = h
          BY <2>1, <3>2
        <4>2. r[h - 1] = q[h]
          BY <4>1
        <4> QED BY <4>1, <4>2
      <3> QED BY <3>1, <3>2
    <2>3. Met(known, q, token, j) /\ i \in Nat
      BY <1>1, <2>1
    <2> QED BY <2>2, <2>3, MetLater
  <1>2. ASSUME NEW token \in 1..made PROVE Met(more, r, token, l + 1)
    <2>1. Met(known, q, token, l + 1 + 1)
      BY DEF Gapless
    <2>2. l + 1 \in 1..(l + 1)
      OBVIOUS
    <2> QED BY <1>1, <2>1, <2>2
  <1>3. ASSUME NEW i \in 1..l
        PROVE  IF r[i].kind = "subscription" THEN r[i].token > 2 => Met(more, r, r[i].token - 1, i)
                                             ELSE Met(more, r, r[i].token, i)
    <2>1. PICK o : o = q[i + 1]
      OBVIOUS
    <2>2. r[i] = o /\ i + 1 \in 1..(l + 1) /\ i \in 1..(l + 1)
      BY <2>1
    <2>3. IF o.kind = "subscription" THEN o.token > 2 => Met(known, q, o.token - 1, i + 1)
                                     ELSE Met(known, q, o.token, i + 1)
      BY <2>1, <2>2 DEF Gapless
    <2> QED BY <1>1, <2>2, <2>3
  <1> QED BY <1>2, <1>3 DEF Gapless

LEMMA GaplessIsPut ==
  ASSUME NEW known, NEW q, NEW r, NEW l \in Nat, Len(q) = l, Len(r) = l + 1, NEW n, r[1] = n,
         \A i \in 1..l : r[i + 1] = q[i],
         IF n.kind = "subscription" THEN n.token > 2 => n.token - 1 \in known ELSE n.token \in known,
         NEW made, Gapless(known, q, made)
  PROVE  Gapless(known, r, made)
  <1>1. ASSUME NEW token, NEW i \in 1..(l + 1), Met(known, q, token, i)
        PROVE  Met(known, r, token, i + 1)
    <2>1. i \in Nat /\ i + 1 \in Nat
      OBVIOUS
    <2>2. ASSUME NEW h \in 1..(i - 1) PROVE \E g \in 1..(i + 1 - 1) : r[g] = q[h]
      <3>1. h + 1 \in 1..(i + 1 - 1) /\ h \in 1..l
        OBVIOUS
      <3> QED BY <3>1
    <2> QED BY <1>1, <2>1, <2>2, MetLater
  <1>2. ASSUME NEW token \in 1..made PROVE Met(known, r, token, l + 1 + 1)
    <2>1. Met(known, q, token, l + 1)
      BY DEF Gapless
    <2>2. l + 1 \in 1..(l + 1)
      OBVIOUS
    <2> QED BY <1>1, <2>1, <2>2
  <1>3. ASSUME NEW i \in 1..(l + 1)
        PROVE  IF r[i].kind = "subscription" THEN r[i].token > 2 => Met(known, r, r[i].token - 1, i)
                                             ELSE Met(known, r, r[i].token, i)
    <2>1. CASE i = 1
      BY <2>1 DEF Met
    <2>2. CASE i # 1
      <3>1. PICK j : j = i - 1
        OBVIOUS
      <3>2. j \in 1..l /\ j \in 1..(l + 1) /\ j + 1 = i
        BY <2>2, <3>1
      <3>3. PICK o : o = q[j]
        OBVIOUS
      <3>4. r[i] = o
        BY <3>2, <3>3
      <3>5. IF o.kind = "subscription" THEN o.token > 2 => Met(known, q, o.token - 1, j)
                                       ELSE Met(known, q, o.token, j)
        BY <3>2, <3>3 DEF Gapless
      <3> QED BY <1>1, <3>2, <3>4, <3>5
    <2> QED BY <2>1, <2>2
  <1> QED BY <1>2, <1>3 DEF Gapless
-----------------------------------------------------------------------------
\* The purchases of a subscription are met, now and after the step.
Met1(t) == Gapless(KnownOf(t), wire[t], sub[t].token) /\ Below(t)
Met2(t) ==
  /\ \E known, q, made : /\ known = KnownOf(t)' /\ q = wire'[t] /\ made = sub'[t].token
                         /\ Gapless(known, q, made)
  /\ Below(t)'

LEMMA PurchasesNow ==
  PurchasesAreMet <=> \A t \in Subs \ lame : world[t].source = "google" => Met1(t)
  BY DEF PurchasesAreMet, Met1, Below

LEMMA PurchasesNext ==
  ASSUME \A t \in Subs \ lame' : world'[t].source = "google" => Met2(t)
  PROVE  PurchasesAreMet'
  <1>1. ASSUME NEW t \in Subs \ lame', world'[t].source = "google"
        PROVE  /\ Gapless(KnownOf(t), wire[t], sub[t].token)'
               /\ \A row \in owner' : row.id[1] = t => \A token \in 1..(row.id[2] - 1) : Known(t, token)'
    <2>1. PICK known, q, made : /\ known = KnownOf(t)' /\ q = wire'[t] /\ made = sub'[t].token
                                /\ Gapless(known, q, made)
      BY <1>1 DEF Met2
    <2>2. Gapless(KnownOf(t), wire[t], sub[t].token)'
      BY <2>1
    <2> QED BY <1>1, <2>2 DEF Met2, Below
  <1> QED BY <1>1 DEF PurchasesAreMet

LEMMA KnownsGrow ==
  ASSUME owner \subseteq owner', world' = world, NEW t
  PROVE  /\ KnownOf(t) \subseteq KnownOf(t)'
         /\ \A k \in Nat : k \in KnownOf(t)' <=> Known(t, k)'
  BY RowsAreKept DEF KnownOf

LEMMA Unmoved ==
  ASSUME owner \subseteq owner', world' = world, NEW t \in Subs, Met1(t), Below(t)',
         sub'[t] = sub[t], wire'[t] = wire[t]
  PROVE  Met2(t)
  <1>1. PICK more : more = KnownOf(t)'
    OBVIOUS
  <1>2. KnownOf(t) \subseteq more
    BY <1>1, KnownsGrow
  <1>3. Gapless(more, wire[t], sub[t].token)
    BY <1>2, GaplessKnowsMore DEF Met1
  <1> QED BY <1>1, <1>3 DEF Met2

LEMMA GrownMet ==
  ASSUME Typed, WiresAgree, NEW s \in Subs, Grown(s), world[s].source = "google", Met1(s)
  PROVE  Met2(s)
  <1>1. PICK known : known = KnownOf(s)
    OBVIOUS
  <1>2. PICK q : q = wire[s]
    OBVIOUS
  <1>3. PICK r : r = wire'[s]
    OBVIOUS
  <1>4. PICK l : l = Len(q)
    OBVIOUS
  <1>5. PICK k : k = sub[s].token
    OBVIOUS
  <1>6. PICK m : m = sub'[s].token
    OBVIOUS
  <1>7. /\ l \in Nat /\ Len(q) = l /\ Len(r) = l + 1 /\ Tells(s, r[l + 1])
        /\ \A i \in 1..l : r[i] = q[i]
    BY <1>2, <1>3, <1>4, GrownWire
  <1>8. k \in Nat /\ m \in Nat /\ (m = k \/ m = k + 1) /\ m > 0
    <2>1. /\ sub[s].token \in Nat /\ sub'[s].token \in Nat /\ sub'[s].token > 0
          /\ sub'[s].token \in {sub[s].token, sub[s].token + 1}
      BY DEF Grown, Grows
    <2> QED BY <1>5, <1>6, <2>1
  <1>9. PICK n : n = r[l + 1]
    OBVIOUS
  <1>10. n.token = m /\ (n.kind = "subscription" \/ (n.kind = "voided" /\ m = k))
    BY <1>5, <1>6, <1>7, <1>9 DEF Tells
  <1>11. r[l + 1].token = m /\ (r[l + 1].kind = "subscription" \/ (r[l + 1].kind # "subscription" /\ m = k))
    BY <1>9, <1>10
  <1>12. Gapless(known, q, k)
    BY <1>1, <1>2, <1>5 DEF Met1
  <1>13. Gapless(known, r, m)
    BY <1>7, <1>8, <1>11, <1>12, GaplessGrows
  <1>14. owner' = owner /\ world' = world
    BY DEF Grown
  <1>15. Below(s)' /\ known = KnownOf(s)'
    BY <1>1, <1>14 DEF Met1, Below, Known, Matched, KnownOf
  <1> QED BY <1>3, <1>6, <1>13, <1>15 DEF Met2

LEMMA TakenMet ==
  ASSUME ProvidersAssumption, Typed, WiresAgree, RowsAgree, NEW s \in Subs, world[s].source = "google",
         Kept, wire[s] # <<>>, wire' = [wire EXCEPT ![s] = Tail(@)], Process(s, Head(wire[s]), TRUE),
         Met1(s)
  PROVE  Met2(s)
  <1>1. PICK n : n = Head(wire[s])
    OBVIOUS
  <1>2. About(s, n) /\ InTurn(s, n) /\ Below(s) /\ world' = world /\ sub' = sub
    BY <1>1, HeadIsAbout, HeadInTurn DEF Met1, Kept
  <1>3. Normalize(s, n) # <<>>
    BY <1>2, GoogleMakesEvents DEF About
  <1>4. PICK user \in Users : Links(s, Hints(s, n, TRUE), user)
    BY <1>1, <1>3, ProcessLinks
  <1>5. Below(s)' /\ Known(s, n.token)'
    BY <1>2, <1>4, LinkingLeavesNoGap
  <1>6. owner \subseteq owner' /\ n.token \in Nat
    BY <1>2, <1>4, GoogleHint DEF Links
  <1>7. PICK q : q = wire[s]
    OBVIOUS
  <1>8. PICK r : r = wire'[s]
    OBVIOUS
  <1>9. PICK l : l = Len(q) - 1
    OBVIOUS
  <1>10. l \in Nat /\ Len(q) = l + 1 /\ Len(r) = l /\ (\A i \in 1..l : r[i] = q[i + 1]) /\ n = q[1]
    <2>1. /\ Len(wire'[s]) = Len(wire[s]) - 1 /\ Len(wire[s]) \in Nat \ {0}
          /\ \A i \in 1..Len(wire'[s]) : wire'[s][i] = wire[s][i + 1]
          /\ Head(wire[s]) = wire[s][1]
      BY <1>2, TakenWire
    <2> QED BY <1>1, <1>7, <1>8, <1>9, <2>1
  <1>11. PICK known : known = KnownOf(s)
    OBVIOUS
  <1>12. PICK more : more = KnownOf(s)'
    OBVIOUS
  <1>13. known \subseteq more /\ n.token \in more
    BY <1>2, <1>5, <1>6, <1>11, <1>12, KnownsGrow
  <1>14. Gapless(known, q, sub[s].token)
    BY <1>7, <1>11 DEF Met1
  <1>15. Gapless(more, r, sub[s].token)
    BY <1>10, <1>13, <1>14, GaplessIsServed
  <1> QED BY <1>2, <1>5, <1>8, <1>12, <1>15 DEF Met2

LEMMA PipedMet ==
  ASSUME ProvidersAssumption, Typed, WiresAgree, NEW s \in Subs, NEW n, About(s, n),
         world[s].source = "google", wire' = [wire EXCEPT ![s] = <<n>> \o wire[s]],
         UNCHANGED <<world, sub, owner>>, InTurn(s, n), Met1(s)
  PROVE  Met2(s)
  <1>1. PICK q : q = wire[s]
    OBVIOUS
  <1>2. PICK r : r = wire'[s]
    OBVIOUS
  <1>3. PICK l : l = Len(q)
    OBVIOUS
  <1>4. /\ l \in Nat /\ Len(r) = l + 1
        /\ \A i \in 1..(l + 1) : r[i] = IF i = 1 THEN n ELSE q[i - 1]
    <2>1. /\ Len(wire'[s]) = Len(wire[s]) + 1 /\ Len(wire[s]) \in Nat
          /\ \A i \in 1..Len(wire'[s]) : wire'[s][i] = IF i = 1 THEN n ELSE wire[s][i - 1]
      BY PipedWire
    <2> QED BY <1>1, <1>2, <1>3, <2>1
  <1>5. r[1] = n /\ \A i \in 1..l : r[i + 1] = q[i]
    <2>1. 1 \in 1..(l + 1)
      BY <1>4
    <2>2. ASSUME NEW i \in 1..l PROVE r[i + 1] = q[i]
      <3>1. i + 1 \in 1..(l + 1) /\ i + 1 # 1 /\ (i + 1) - 1 = i
        BY <1>4
      <3> QED BY <1>4, <3>1
    <2> QED BY <1>4, <2>1, <2>2
  <1>6. PICK known : known = KnownOf(s)
    OBVIOUS
  <1>7. n.token \in Nat \ {0}
    BY GoogleHint
  <1>8. IF n.kind = "subscription" THEN n.token > 2 => n.token - 1 \in known ELSE n.token \in known
    <2>1. PICK t \in Nat \ {0} : t = n.token
      BY <1>7
    <2>2. t - 1 \in Nat
      OBVIOUS
    <2> QED BY <1>6, <2>1, <2>2 DEF InTurn, KnownOf
  <1>9. Gapless(known, q, sub[s].token)
    BY <1>1, <1>6 DEF Met1
  <1>10. Gapless(known, r, sub[s].token)
    BY <1>3, <1>4, <1>5, <1>8, <1>9, GaplessIsPut
  <1>11. Below(s)' /\ known = KnownOf(s)'
    BY <1>6 DEF Met1, Below, Known, Matched, KnownOf
  <1> QED BY <1>2, <1>10, <1>11 DEF Met2

LEMMA PurchasesStep ==
  ASSUME ProvidersAssumption, Typed, WiresAgree, RowsAgree, UsersAgree, PurchasesAreMet,
         ImportsAgree, [Next]_vars
  PROVE  PurchasesAreMet'
  <1> SUFFICES ASSUME NEW t \in Subs \ lame', world'[t].source = "google" PROVE Met2(t)
    BY PurchasesNext
  <1>0. owner \subseteq owner' /\ world' = world /\ world[t].source = "google"
    BY RowsStep
  <1>1. \A s \in Subs : world[s] \in DOMAIN runs
    BY DEF Typed
  <1>2. t \notin lame => Met1(t)
    BY <1>0, PurchasesNow
  <1>3. ASSUME Below(t), owner' = owner PROVE Below(t)'
    BY <1>0, <1>3 DEF Below, Known, Matched
  <1>4. ASSUME owner' = owner, lame \subseteq lame', sub'[t] = sub[t], wire'[t] = wire[t] PROVE Met2(t)
    <2>1. Met1(t)
      BY <1>2, <1>4
    <2>2. Below(t)'
      BY <1>3, <1>4, <2>1 DEF Met1
    <2> QED BY <1>0, <1>4, <2>1, <2>2, Unmoved
  <1>5. ASSUME NEW s \in Subs, NEW n, About(s, n), NEW enriched \in BOOLEAN, Process(s, n, enriched), t # s,
               lame \subseteq lame', sub'[t] = sub[t], wire'[t] = wire[t]
        PROVE  Met2(t)
    <2>1. Met1(t)
      BY <1>2, <1>5
    <2>2. CASE owner' = owner
      BY <1>4, <1>5, <2>2
    <2>3. ASSUME NEW user \in Users, Links(s, Hints(s, n, enriched), user) PROVE Met2(t)
      <3>1. \A id \in Hints(s, n, enriched) : OwnId(s, id) \/ AppId(s, id)
        BY <1>5, HintsAreOwn
      <3>2. Below(t)'
        BY <1>0, <1>5, <2>1, <2>3, <3>1, OthersStay DEF Met1
      <3> QED BY <1>0, <1>5, <2>1, <3>2, Unmoved
    <2> QED BY <1>5, <2>2, <2>3, ProcessLinks
  <1>6. ASSUME NEW s \in Subs, Grown(s) PROVE Met2(t)
    <2>1. lame' = lame /\ owner' = owner
      BY <1>6 DEF Grown
    <2>2. CASE t # s
      <3>1. sub'[t] = sub[t] /\ wire'[t] = wire[t]
        BY <1>6, <2>2, TokensGrow, GrownWire
      <3> QED BY <1>4, <2>1, <3>1
    <2>3. CASE t = s
      BY <1>0, <1>2, <1>6, <2>1, <2>3, GrownMet
    <2> QED BY <2>2, <2>3
  <1>7. ASSUME NEW s \in Subs, Taken(s) PROVE Met2(t)
    <2>1. PICK enriched \in BOOLEAN :
            /\ Kept /\ wire[s] # <<>> /\ wire' = [wire EXCEPT ![s] = Tail(@)]
            /\ Process(s, Head(wire[s]), enriched)
            /\ lame' = IF enriched THEN lame ELSE lame \cup {s}
      BY <1>7 DEF Taken
    <2>2. sub' = sub /\ lame \subseteq lame'
      BY <2>1 DEF Kept
    <2>3. CASE t # s
      <3>1. wire'[t] = wire[t]
        BY <1>0, <2>1, <2>2, <2>3, TakenWire
      <3>2. PICK n : n = Head(wire[s])
        OBVIOUS
      <3>3. About(s, n) /\ Process(s, n, enriched)
        BY <2>1, <3>2, HeadIsAbout
      <3> QED BY <1>5, <2>2, <2>3, <3>1, <3>3
    <2>4. CASE t = s
      <3>1. enriched = TRUE /\ t \notin lame
        BY <2>1, <2>4
      <3> QED BY <1>0, <1>2, <2>1, <2>4, <3>1, TakenMet
    <2> QED BY <2>3, <2>4
  <1>8. ASSUME NEW s \in Subs, Calling(s) PROVE Met2(t)
    BY <1>4, <1>8, CallingStep
  <1>9. ASSUME NEW w \in DOMAIN runs, Importing(w) PROVE Met2(t)
    BY <1>4, <1>9, ImportingTurns
  <1>10. ASSUME NEW w \in DOMAIN runs, Listed(w) PROVE Met2(t)
    <2>1. PICK item \in runs[w].todo :
            /\ runs[w].at = "pages" /\ Process(item[1], Imported(item[1], item[2]), TRUE)
            /\ lame' = lame /\ wire' = wire /\ sub' = sub
      BY <1>10 DEF Listed, Kept
    <2>2. PICK s \in Subs : s = item[1] /\ world[s] = w /\ w.source = "recurly"
      BY <2>1, ListedItem DEF ImportsAgree
    <2>3. PICK n : n = Imported(s, item[2])
      OBVIOUS
    <2>4. About(s, n) /\ Process(s, n, TRUE) /\ t # s
      BY <1>0, <2>1, <2>2, <2>3, ImportedIsAbout
    <2> QED BY <1>5, <2>1, <2>4
  <1>11. ASSUME NEW w \in DOMAIN runs, Piped(w) PROVE Met2(t)
    <2>1. PICK s, n :
            /\ s \in Subs
            /\ About(s, n) /\ wire' = [wire EXCEPT ![s] = <<n>> \o wire[s]]
            /\ lame' = IF InTurn(s, n) THEN lame ELSE lame \cup {s}
            /\ UNCHANGED <<world, sub, owner>>
      BY <1>11, PipedNote
    <2>2. CASE t # s
      <3>1. wire'[t] = wire[t] /\ lame \subseteq lame' /\ sub'[t] = sub[t]
        BY <2>1, <2>2, PipedWire
      <3> QED BY <1>4, <2>1, <3>1
    <2>3. CASE t = s
      <3>1. InTurn(s, n) /\ t \notin lame
        BY <2>1, <2>3
      <3> QED BY <1>0, <1>2, <2>1, <2>3, <3>1, PipedMet
    <2> QED BY <2>2, <2>3
  <1>12. CASE UNCHANGED vars
    BY <1>4, <1>12 DEF vars
  <1> QED BY <1>1, <1>6, <1>7, <1>8, <1>9, <1>10, <1>11, <1>12, Forms
-----------------------------------------------------------------------------
\* A run of an import, and what the run of a step becomes.
FineRun(w) ==
  /\ runs[w].at = "pages" => w.source = "recurly" /\ \A s \in runs[w].all : Brought(w, s)
  /\ runs[w].at \in {"tokens", "voided"} => w.source = "google"
  /\ w.source = "google" => runs[w].all = {}
  /\ \A item \in runs[w].todo :
       world[item[1]] = w /\ (w.source = "google" => item[2] \in 1..sub[item[1]].token)
  /\ runs[w].at = "completed" => \A s \in runs[w].all : UsersOf(s) # {} \/ s \in runs[w].lost
FineVoided == \A v \in voided : world[v[1]].source = "google" /\ v[2] \in 1..sub[v[1]].token

LEMMA RunsAreFine ==
  ImportsAgree /\ ImportIsComplete <=> FineVoided /\ \A w \in DOMAIN runs : FineRun(w)
  BY DEF ImportsAgree, ImportIsComplete, FineRun, FineVoided

LEMMA RunsStayFine ==
  ASSUME FineVoided', \A w \in DOMAIN runs' : FineRun(w)'
  PROVE  ImportsAgree' /\ ImportIsComplete'
  BY DEF ImportsAgree, ImportIsComplete, FineRun, FineVoided

LEMMA RunStays ==
  ASSUME Typed, owner \subseteq owner', world' = world, NEW w \in DOMAIN runs,
         runs'[w].at = runs[w].at, runs'[w].todo = runs[w].todo, runs'[w].more = runs[w].more,
         runs'[w].seen = runs[w].seen, runs'[w].all = runs[w].all, runs'[w].lost = runs[w].lost,
         \A t \in Subs : /\ sub[t].status # "none" => sub'[t].status # "none"
                         /\ \A k : k \in 1..sub[t].token => k \in 1..sub'[t].token,
         \A item \in runs[w].todo : item[1] \in Subs,
         FineRun(w)
  PROVE  FineRun(w)'
  <1>1. \A s : UsersOf(s) # {} => UsersOf(s)' # {}
    BY RowsAreKept
  <1>2. Existing(w) \subseteq Existing(w)'
    BY DEF Existing
  <1>3. \A s : Brought(w, s) => Brought(w, s)'
    BY <1>1, <1>2 DEF Brought
  <1> QED BY <1>1, <1>3 DEF FineRun

LEMMA ExistingHasToken ==
  ASSUME Typed, WiresAgree, NEW w, NEW s \in Existing(w)
  PROVE  s \in Subs /\ world[s] = w /\ sub[s].token \in 1..sub[s].token
  <1>1. s \in Subs /\ world[s] = w /\ sub[s].status # "none"
    BY DEF Existing
  <1>2. sub[s].token \in Nat /\ sub[s].token > 0
    BY <1>1 DEF Typed, Sub, WiresAgree
  <1>3. PICK k \in Nat : k = sub[s].token
    BY <1>2
  <1>4. k \in 1..k
    BY <1>2, <1>3
  <1> QED BY <1>1, <1>3, <1>4

LEMMA StartedFine ==
  ASSUME Typed, WiresAgree, NEW w \in DOMAIN runs, StartImport(w)
  PROVE  FineRun(w)'
  <1>1. PICK r : /\ Turn(w, r) /\ r.more = TRUE /\ r.seen = {}
                 /\ \/ w.source = "recurly" /\ r.at = "pages" /\ r.todo = {} /\ r.all = Existing(w)
                    \/ /\ w.source = "google" /\ r.at = "tokens" /\ r.all = {}
                       /\ \A item \in r.todo : item[1] \in Existing(w) /\ item = <<item[1], sub[item[1]].token>>
    BY StartTurns
  <1>2. UNCHANGED <<world, sub, voided, owner>>
    BY ImportingTurns DEF Importing
  <1>3. runs'[w] = r
    BY <1>1, <1>2, TurnTyped
  <1>4. CASE w.source = "recurly"
    <2>1. r.at = "pages" /\ r.todo = {} /\ r.all = Existing(w) /\ w.source # "google"
      BY <1>1, <1>4
    <2>2. Existing(w)' = Existing(w)
      BY <1>2 DEF Existing
    <2>3. \A s \in Existing(w) : Brought(w, s)'
      BY <1>1, <1>3, <2>2 DEF Brought
    <2> QED BY <1>3, <1>4, <2>1, <2>3 DEF FineRun
  <1>5. CASE w.source = "google"
    <2>1. /\ r.at = "tokens" /\ r.all = {}
          /\ \A item \in r.todo : item[1] \in Existing(w) /\ item = <<item[1], sub[item[1]].token>>
      BY <1>1, <1>5
    <2>2. ASSUME NEW item \in r.todo PROVE world[item[1]] = w /\ item[2] \in 1..sub[item[1]].token
      <3>1. item[1] \in Existing(w) /\ item = <<item[1], sub[item[1]].token>>
        BY <2>1
      <3>2. PICK s \in Existing(w) : s = item[1]
        BY <3>1
      <3>3. item[2] = sub[s].token
        BY <3>1, <3>2
      <3> QED BY <3>2, <3>3, ExistingHasToken
    <2> QED BY <1>2, <1>3, <1>5, <2>1, <2>2 DEF FineRun
  <1> QED BY <1>1, <1>4, <1>5

LEMMA PagedFine ==
  ASSUME Typed, WiresAgree, NEW w \in DOMAIN runs, Page(w), FineRun(w), FineVoided
  PROVE  FineRun(w)'
  <1>1. PICK r, page : /\ Turn(w, r) /\ page \subseteq Unseen(w)
                       /\ r.at = (IF runs[w].at = "tokens" THEN "voided" ELSE runs[w].at)
                       /\ r.todo = {Item(w, x) : x \in page} /\ r.seen = runs[w].seen \cup page
                       /\ r.more = (page # Unseen(w)) /\ r.all = runs[w].all
                       /\ r.lost = runs[w].lost
    BY PageTurns
  <1>2. UNCHANGED <<world, sub, voided, owner>>
    BY ImportingTurns DEF Importing
  <1>3. runs'[w] = r
    BY <1>1, <1>2, TurnTyped
  <1>4. runs[w].at \in {"pages", "tokens", "voided"} /\ runs[w].todo = {}
    BY DEF Page, Ready, Working
  <1>5. CASE runs[w].at = "pages"
    <2>1. r.at = "pages" /\ w.source = "recurly" /\ \A s \in runs[w].all : Brought(w, s)
      BY <1>1, <1>5 DEF FineRun
    <2>2. Unseen(w) = Existing(w) \ runs[w].seen
      BY <2>1 DEF Unseen
    <2>3. \A x : Item(w, x) = <<x, StateOf(x)>> /\ Item(w, x)[1] = x
      BY <2>1 DEF Item
    <2>4. Existing(w)' = Existing(w) /\ \A s : UsersOf(s)' = UsersOf(s)
      BY <1>2 DEF UsersOf, Existing
    <2>5. ASSUME NEW s \in r.all PROVE Brought(w, s)'
      <3>1. Brought(w, s)
        BY <1>1, <2>1
      <3>2. CASE UsersOf(s) # {} \/ s \in runs[w].lost
        BY <1>1, <1>3, <2>4, <3>2 DEF Brought
      <3>3. CASE s \in page
        <4>1. Item(w, s) \in r.todo /\ Item(w, s)[1] = s
          BY <1>1, <2>3, <3>3
        <4> QED BY <1>3, <4>1 DEF Brought
      <3>4. CASE s \in Unseen(w) /\ s \notin page
        <4>1. r.more /\ s \in Existing(w) \ r.seen
          BY <1>1, <2>2, <3>4
        <4> QED BY <1>3, <2>4, <4>1 DEF Brought
      <3> QED BY <1>4, <2>2, <3>1, <3>2, <3>3, <3>4 DEF Brought
    <2>6. \A item \in r.todo : world[item[1]] = w
      <3>1. \A x \in page : world[x] = w
        BY <1>1, <2>2 DEF Existing
      <3> QED BY <1>1, <2>3, <3>1
    <2> QED BY <1>2, <1>3, <2>1, <2>5, <2>6 DEF FineRun
  <1>6. CASE runs[w].at \in {"tokens", "voided"}
    <2>1. r.at = "voided" /\ w.source = "google" /\ r.all = {}
      BY <1>1, <1>6 DEF FineRun
    <2>2. \A x : Item(w, x) = x
      BY <2>1 DEF Item
    <2>3. \A v \in page : v \in voided /\ world[v[1]] = w
      BY <1>1, <2>1 DEF Unseen
    <2>4. \A item \in r.todo : world[item[1]] = w /\ item[2] \in 1..sub[item[1]].token
      BY <1>1, <2>2, <2>3 DEF FineVoided
    <2> QED BY <1>2, <1>3, <2>1, <2>4 DEF FineRun
  <1> QED BY <1>4, <1>5, <1>6

LEMMA OverFine ==
  ASSUME Typed, NEW w \in DOMAIN runs, ImportEnds(w) \/ PageFails(w), FineRun(w)
  PROVE  FineRun(w)'
  <1>1. PICK how \in {"completed", "failed"} :
          Over(w, how) /\ (how = "completed" => ~runs[w].more \/ runs[w].at # "pages")
    BY DEF ImportEnds, PageFails
  <1>2. PICK r : /\ Turn(w, r) /\ r.at = how /\ r.todo = runs[w].todo /\ r.all = runs[w].all
                 /\ r.lost = runs[w].lost
    BY <1>1, OverTurns
  <1>3. UNCHANGED <<world, sub, voided, owner>>
    BY ImportingTurns DEF Importing
  <1>4. runs'[w] = r
    BY <1>2, <1>3, TurnTyped
  <1>5. runs[w].at \in {"pages", "tokens", "voided"} /\ runs[w].todo = {}
    BY DEF ImportEnds, PageFails, Ready, Working
  <1>6. \A s : UsersOf(s)' = UsersOf(s)
    BY <1>3 DEF UsersOf
  <1>7. ASSUME how = "completed", NEW s \in runs[w].all PROVE UsersOf(s) # {} \/ s \in runs[w].lost
    <2>1. CASE runs[w].at = "pages"
      BY <1>1, <1>5, <1>7, <2>1 DEF FineRun, Brought
    <2>2. CASE runs[w].at # "pages"
      BY <1>5, <1>7, <2>2 DEF FineRun
    <2> QED BY <2>1, <2>2
  <1> QED BY <1>2, <1>3, <1>4, <1>6, <1>7 DEF FineRun

LEMMA StartFailsFine ==
  ASSUME Typed, NEW w \in DOMAIN runs, StartFails(w)
  PROVE  FineRun(w)'
  <1>1. PICK r : Turn(w, r) /\ r.at = "failed" /\ r.todo = {} /\ r.all = {}
    BY StartFailsTurns
  <1>2. UNCHANGED <<world, sub, voided, owner>>
    BY ImportingTurns DEF Importing
  <1>3. runs'[w] = r
    BY <1>1, <1>2, TurnTyped
  <1> QED BY <1>1, <1>3 DEF FineRun

LEMMA ItemFailsFine ==
  ASSUME Typed, NEW w \in DOMAIN runs, ItemFails(w), FineRun(w)
  PROVE  FineRun(w)'
  <1>1. PICK item \in runs[w].todo :
          runs' = [runs EXCEPT ![w].todo = @ \ {item}, ![w].lost = @ \cup {item[1]}]
    BY DEF ItemFails
  <1>2. PICK r : /\ Turn(w, r) /\ r.at = runs[w].at /\ r.todo = runs[w].todo \ {item}
                 /\ r.all = runs[w].all /\ r.more = runs[w].more /\ r.seen = runs[w].seen
                 /\ r.lost = runs[w].lost \cup {item[1]}
    BY <1>1, LoseTurns
  <1>3. UNCHANGED <<world, sub, voided, owner>>
    BY ImportingTurns DEF Importing
  <1>4. runs'[w] = r
    BY <1>2, <1>3, TurnTyped
  <1>5. runs[w].at \in {"pages", "tokens", "voided"}
    BY DEF ItemFails, Working
  <1>6. Existing(w)' = Existing(w) /\ \A s : UsersOf(s)' = UsersOf(s)
    BY <1>3 DEF Existing, UsersOf
  <1>7. ASSUME NEW s, Brought(w, s) PROVE Brought(w, s)'
    <2>1. CASE UsersOf(s) # {} \/ s \in runs[w].lost
      BY <1>2, <1>4, <1>6, <2>1 DEF Brought
    <2>2. ASSUME NEW other \in runs[w].todo, other[1] = s PROVE Brought(w, s)'
      <3>1. CASE other = item
        BY <1>2, <1>4, <2>2, <3>1 DEF Brought
      <3>2. CASE other # item
        BY <1>2, <1>4, <2>2, <3>2 DEF Brought
      <3> QED BY <3>1, <3>2
    <2>3. CASE runs[w].more /\ s \in Existing(w) \ runs[w].seen
      BY <1>2, <1>4, <1>6, <2>3 DEF Brought
    <2> QED BY <1>7, <2>1, <2>2, <2>3 DEF Brought
  <1> QED BY <1>2, <1>3, <1>4, <1>5, <1>7 DEF FineRun

LEMMA ListedFine ==
  ASSUME ProvidersAssumption, Typed, RowsAgree, UsersAgree, ImportsAgree,
         NEW w \in DOMAIN runs, Listed(w), FineRun(w)
  PROVE  FineRun(w)'
  <1>1. PICK item \in runs[w].todo : UsersOf(item[1])' # {} /\ runs' = [runs EXCEPT ![w].todo = @ \ {item}]
    BY ListedRows
  <1>2. PICK r : /\ Turn(w, r) /\ r.at = runs[w].at /\ r.todo = runs[w].todo \ {item}
                 /\ r.all = runs[w].all /\ r.more = runs[w].more /\ r.seen = runs[w].seen
                 /\ r.lost = runs[w].lost
    BY <1>1, DropTurns
  <1>3. world' = world /\ sub' = sub /\ runs[w].at = "pages"
    BY DEF Listed, Kept
  <1>4. runs'[w] = r
    BY <1>2, <1>3, TurnTyped
  <1>5. Existing(w)' = Existing(w)
    BY <1>3 DEF Existing
  <1>6. owner \subseteq owner'
    BY ListedRows
  <1>7. \A s : UsersOf(s) # {} => UsersOf(s)' # {}
    BY <1>3, <1>6, RowsAreKept
  <1>8. ASSUME NEW s \in runs[w].all PROVE Brought(w, s)'
    <2>1. Brought(w, s)
      BY <1>3 DEF FineRun
    <2>2. CASE UsersOf(s) # {} \/ s \in runs[w].lost
      BY <1>2, <1>4, <1>7, <2>2 DEF Brought
    <2>3. ASSUME NEW other \in runs[w].todo, other[1] = s PROVE Brought(w, s)'
      <3>1. CASE other = item
        BY <1>1, <2>3, <3>1 DEF Brought
      <3>2. CASE other # item
        BY <1>2, <1>4, <2>3, <3>2 DEF Brought
      <3> QED BY <3>1, <3>2
    <2>4. CASE runs[w].more /\ s \in Existing(w) \ runs[w].seen
      BY <1>2, <1>4, <1>5, <2>4 DEF Brought
    <2> QED BY <2>1, <2>2, <2>3, <2>4 DEF Brought
  <1> QED BY <1>2, <1>3, <1>4, <1>8 DEF FineRun

LEMMA PipedFine ==
  ASSUME ProvidersAssumption, Typed, ImportsAgree, NEW w \in DOMAIN runs, Piped(w), FineRun(w)
  PROVE  FineRun(w)'
  <1>1. runs[w].at \in {"tokens", "voided"}
    BY DEF Piped
  <1>2. PICK r : Turn(w, r) /\ r.at = runs[w].at /\ r.todo \subseteq runs[w].todo
                 /\ r.all = runs[w].all
    BY PipedNote
  <1>3. world' = world /\ sub' = sub
    BY PipedNote
  <1>4. runs'[w] = r
    BY <1>2, <1>3, TurnTyped
  <1> QED BY <1>1, <1>2, <1>3, <1>4 DEF FineRun

LEMMA VoidedStays ==
  ASSUME Typed, WiresAgree, FineVoided, [Next]_vars, ProvidersAssumption, ImportsAgree
  PROVE  FineVoided'
  <1>1. CASE UNCHANGED <<world, sub, voided>>
    BY <1>1 DEF FineVoided
  <1>2. ASSUME NEW s \in Subs, Grown(s) PROVE FineVoided'
    <2>1. world' = world /\ \A t \in Subs : sub[t].token \in Nat /\ sub'[t].token \in Nat /\ sub[t].token <= sub'[t].token
      BY <1>2, TokensGrow DEF Grown
    <2>2. ASSUME NEW v \in voided' PROVE world[v[1]].source = "google" /\ v[2] \in 1..sub'[v[1]].token
      <3>1. CASE v \in voided
        <4>1. v[1] \in Subs
          BY <3>1 DEF Typed, Purchases
        <4>2. world[v[1]].source = "google" /\ v[2] \in 1..sub[v[1]].token
          BY <3>1 DEF FineVoided
        <4> QED BY <2>1, <4>1, <4>2
      <3>2. CASE world[s].source = "google" /\ v = <<s, sub[s].token>> /\ sub[s].token > 0
        <4>1. v[1] = s /\ v[2] = sub[s].token
          BY <3>2
        <4>2. PICK k : k = sub[s].token
          OBVIOUS
        <4>3. PICK m : m = sub'[s].token
          OBVIOUS
        <4>4. k \in 1..m
          BY <2>1, <3>2, <4>2, <4>3
        <4> QED BY <3>2, <4>1, <4>2, <4>3, <4>4
      <3> QED BY <1>2, <3>1, <3>2 DEF Grown
    <2> QED BY <2>1, <2>2 DEF FineVoided
  <1>3. \A s \in Subs : world[s] \in DOMAIN runs
    BY DEF Typed
  <1>4. ASSUME NEW s \in Subs, Taken(s) PROVE UNCHANGED <<world, sub, voided>>
    BY <1>4 DEF Taken, Kept
  <1>5. ASSUME NEW s \in Subs, Calling(s) PROVE UNCHANGED <<world, sub, voided>>
    BY <1>5, CallingStep
  <1>6. ASSUME NEW w \in DOMAIN runs, Importing(w) \/ Listed(w) \/ Piped(w)
        PROVE  UNCHANGED <<world, sub, voided>>
    BY <1>6, ImportingTurns, ListedTurns, PipedNote
  <1>7. CASE UNCHANGED vars
    BY <1>1, <1>7 DEF vars
  <1> QED BY <1>1, <1>2, <1>3, <1>4, <1>5, <1>6, <1>7, Forms

LEMMA ImportsStep ==
  ASSUME ProvidersAssumption, Typed, WiresAgree, RowsAgree, UsersAgree, ImportsAgree,
         ImportIsComplete, [Next]_vars
  PROVE  ImportsAgree' /\ ImportIsComplete'
  <1>1. FineVoided /\ \A w \in DOMAIN runs : FineRun(w)
    BY RunsAreFine
  <1>2. FineVoided'
    BY <1>1, VoidedStays
  <1> SUFFICES \A w \in DOMAIN runs' : FineRun(w)'
    BY <1>2, RunsStayFine
  <1>3. owner \subseteq owner' /\ world' = world
    BY RowsStep
  <1>4. \A s \in Subs : world[s] \in DOMAIN runs
    BY DEF Typed
  <1>5. \A w \in DOMAIN runs : \A item \in runs[w].todo : item[1] \in Subs
    BY ListedItem
  <1>6. ASSUME NEW w \in DOMAIN runs, runs'[w] = runs[w], sub' = sub
        PROVE  FineRun(w)'
    <2>1. \A t \in Subs : /\ sub[t].status # "none" => sub'[t].status # "none"
                          /\ \A k : k \in 1..sub[t].token => k \in 1..sub'[t].token
      BY <1>6
    <2> QED BY <1>1, <1>3, <1>5, <1>6, <2>1, RunStays
  <1>7. CASE sub' = sub /\ runs' = runs
    BY <1>6, <1>7
  <1>8. ASSUME NEW s \in Subs, Grown(s), NEW w \in DOMAIN runs PROVE FineRun(w)' /\ runs' = runs
    <2>1. ASSUME NEW t \in Subs
          PROVE  /\ sub[t].status # "none" => sub'[t].status # "none"
                 /\ \A k : k \in 1..sub[t].token => k \in 1..sub'[t].token
      BY <1>8, TokensGrow
    <2>2. runs' = runs
      BY <1>8 DEF Grown
    <2> QED BY <1>1, <1>3, <1>5, <2>1, <2>2, RunStays
  <1>9. ASSUME NEW s \in Subs, Taken(s) PROVE \A w \in DOMAIN runs' : FineRun(w)'
    <2>1. DOMAIN runs' = DOMAIN runs /\ sub' = sub
      BY <1>9 DEF Taken, Kept
    <2>2. ASSUME NEW w \in DOMAIN runs PROVE FineRun(w)'
      <3>1. /\ runs'[w].at = runs[w].at /\ runs'[w].todo = runs[w].todo /\ runs'[w].more = runs[w].more
            /\ runs'[w].seen = runs[w].seen /\ runs'[w].all = runs[w].all
            /\ runs'[w].lost = runs[w].lost
        BY <1>9 DEF Taken, SameRun
      <3>2. \A t \in Subs : /\ sub[t].status # "none" => sub'[t].status # "none"
                            /\ \A k : k \in 1..sub[t].token => k \in 1..sub'[t].token
        BY <2>1
      <3> QED BY <1>1, <1>3, <1>5, <3>1, <3>2, RunStays
    <2> QED BY <2>1, <2>2
  <1>10. CASE \E s \in Subs : Calling(s)
    BY <1>7, <1>10, CallingStep
  <1>11. ASSUME NEW v \in DOMAIN runs, NEW r, Turn(v, r), sub' = sub, FineRun(v)'
         PROVE  \A w \in DOMAIN runs' : FineRun(w)'
    <2>1. DOMAIN runs' = DOMAIN runs /\ \A w \in DOMAIN runs : w # v => runs'[w] = runs[w]
      BY <1>3, <1>11, TurnTyped
    <2> QED BY <1>6, <1>11, <2>1
  <1>12. ASSUME NEW v \in DOMAIN runs, Importing(v) PROVE \A w \in DOMAIN runs' : FineRun(w)'
    <2>1. (\E r : Turn(v, r)) /\ sub' = sub
      BY <1>12, ImportingTurns
    <2>2. FineRun(v)'
      BY <1>1, <1>12, StartedFine, StartFailsFine, PagedFine, OverFine, ItemFailsFine DEF Importing
    <2> QED BY <1>11, <2>1, <2>2
  <1>13. ASSUME NEW v \in DOMAIN runs, Listed(v) PROVE \A w \in DOMAIN runs' : FineRun(w)'
    <2>1. (\E r : Turn(v, r)) /\ sub' = sub
      BY <1>13, ListedTurns
    <2>2. FineRun(v)'
      BY <1>1, <1>13, ListedFine
    <2> QED BY <1>11, <2>1, <2>2
  <1>14. ASSUME NEW v \in DOMAIN runs, Piped(v) PROVE \A w \in DOMAIN runs' : FineRun(w)'
    <2>1. (\E r : Turn(v, r)) /\ sub' = sub
      BY <1>14, PipedNote
    <2>2. FineRun(v)'
      BY <1>1, <1>14, PipedFine
    <2> QED BY <1>11, <2>1, <2>2
  <1>15. CASE UNCHANGED vars
    BY <1>7, <1>15 DEF vars
  <1> QED BY <1>4, <1>8, <1>9, <1>10, <1>12, <1>13, <1>14, <1>15, Forms
-----------------------------------------------------------------------------
\* The webhooks under way share the client; what one leaves there the next may use.
LEMMA CredentialsStep ==
  ASSUME ProvidersAssumption, Typed, WiresAgree, ImportsAgree, CredentialsAgree, [Next]_vars
  PROVE  CredentialsAgree'
  <1> DEFINE Fine(t) == /\ client.creds = world[t].org
                        /\ {client.token, proc[t].held} \subseteq {world[t].org, None}
  <1>0. ~overlap => \A t \in Subs : Underway(t) => Fine(t)
    BY DEF CredentialsAgree
  <1>1. ASSUME UNCHANGED <<client, overlap, world>>,
               \A t \in Subs : proc'[t] = proc[t] \/ proc'[t].at = "idle"
        PROVE  CredentialsAgree'
    BY <1>1 DEF CredentialsAgree, Underway
  <1>2. \A s \in Subs : world[s] \in DOMAIN runs
    BY DEF Typed
  <1>3. CASE \E s \in Subs : Grown(s)
    BY <1>1, <1>3 DEF Grown
  <1>4. ASSUME NEW s \in Subs, Taken(s) PROVE CredentialsAgree'
    <2>1. UNCHANGED <<client, overlap, world>>
      BY <1>4 DEF Taken, Kept
    <2>2. CASE proc' = proc
      BY <1>1, <2>1, <2>2
    <2>3. CASE At(s, "idle", None)
      <3>1. "idle" \in Places /\ None \in Owners
        BY DEF Places, Owners
      <3> QED BY <1>1, <2>1, <2>3, <3>1, AtPlace
    <2> QED BY <1>4, <2>2, <2>3 DEF Taken
  <1>5. CASE \E s \in Subs : Importing(world[s]) \/ Listed(world[s]) \/ Piped(world[s])
    BY <1>1, <1>2, <1>5, ImportingTurns, ListedTurns, PipedNote
  <1>6. CASE UNCHANGED vars
    BY <1>1, <1>6 DEF vars
  <1>7. ASSUME NEW s \in Subs, Calling(s) PROVE CredentialsAgree'
    <2>0. /\ world' = world /\ world[s].source = "google"
          /\ None \in Owners /\ world[s].org \in Owners /\ proc[s].held \in Owners
          /\ client \in [creds : Owners, token : Owners]
          /\ {"token", "sign", "exchange", "fetch"} \subseteq Places
      BY <1>7, CallingStep, SourceIsOne DEF Typed, Owners, Places
    <2>1. ASSUME NEW at \in Places, NEW held \in Owners, At(s, at, held), ~overlap', ~overlap,
                 client'.creds = world[s].org, {client'.token, held} \subseteq {world[s].org, None},
                 \A t \in Subs : t # s /\ Underway(t) =>
                   client'.creds = world[t].org /\ client'.token \in {world[t].org, None}
          PROVE  CredentialsAgree'
      <3>1. proc'[s].held = held /\ \A t \in Subs : t # s => proc'[t] = proc[t]
        BY <2>1, AtPlace
      <3>2. ASSUME NEW t \in Subs, Underway(t)' PROVE Fine(t)'
        <4>1. CASE t = s
          BY <2>0, <2>1, <3>1, <4>1
        <4>2. CASE t # s
          <5>1. Underway(t)
            BY <2>0, <3>1, <3>2, <4>2 DEF Underway
          <5> QED BY <1>0, <2>0, <2>1, <3>1, <4>2, <5>1
        <4> QED BY <4>1, <4>2
      <3> QED BY <3>2 DEF CredentialsAgree
    <2>2. ASSUME proc[s].at # "idle", ~overlap
          PROVE  /\ client.creds = world[s].org /\ {client.token, proc[s].held} \subseteq {world[s].org, None}
                 /\ \A t \in Subs : Underway(t) => world[t].org = world[s].org
      BY <1>0, <2>0, <2>2 DEF Underway
    <2>3. CASE overlap'
      BY <2>3 DEF CredentialsAgree
    <2>4. CASE SetCredentials(s) /\ ~overlap'
      <3>1. ~overlap /\ \A t \in Subs : Underway(t) => world[t].org = world[s].org
        BY <2>4 DEF SetCredentials
      <3>2. client' = [creds |-> world[s].org, token |-> None] /\ At(s, "token", None)
        BY <2>4 DEF SetCredentials
      <3>3. client'.creds = world[s].org /\ client'.token = None
        BY <3>2
      <3> QED BY <2>0, <2>1, <2>4, <3>1, <3>2, <3>3
    <2>5. CASE Token(s) /\ ~overlap'
      <3>1. ~overlap /\ client' = client /\ proc[s].at # "idle"
        BY <2>5 DEF Token
      <3>2. At(s, "fetch", client.token) \/ At(s, "sign", client.creds)
        BY <2>5 DEF Token
      <3>3. client.token \in Owners /\ client.creds \in Owners
        BY <2>0
      <3> QED BY <1>0, <2>0, <2>1, <2>2, <2>5, <3>1, <3>2, <3>3
    <2>6. CASE Sign(s) /\ ~overlap'
      <3>1. ~overlap /\ client' = client /\ proc[s].at # "idle"
        BY <2>6 DEF Sign
      <3>2. At(s, "exchange", proc[s].held) \/ At(s, "exchange", None)
        BY <2>6 DEF Sign
      <3> QED BY <1>0, <2>0, <2>1, <2>2, <2>6, <3>1, <3>2
    <2>7. CASE Exchange(s) /\ ~overlap'
      <3>1. ~overlap /\ client' = [client EXCEPT !.token = proc[s].held] /\ proc[s].at # "idle"
        BY <2>7 DEF Exchange
      <3>2. client'.creds = client.creds /\ client'.token = proc[s].held
        BY <2>0, <3>1
      <3>3. At(s, "fetch", proc[s].held)
        BY <2>7 DEF Exchange
      <3> QED BY <1>0, <2>0, <2>1, <2>2, <2>7, <3>1, <3>2, <3>3
    <2>8. CASE ExchangeFails(s) /\ ~overlap'
      <3>1. ~overlap /\ client' = client /\ proc[s].at # "idle" /\ At(s, "fetch", None)
        BY <2>8 DEF ExchangeFails
      <3> QED BY <1>0, <2>0, <2>1, <2>2, <2>8, <3>1
    <2> QED BY <1>7, <2>3, <2>4, <2>5, <2>6, <2>7, <2>8 DEF Calling
  <1> QED BY <1>3, <1>4, <1>5, <1>6, <1>7, Forms
-----------------------------------------------------------------------------
\* The invariant holds at the start, every step keeps it, and it is enough.
LEMMA IInvInit ==
  ASSUME ProvidersAssumption, Init
  PROVE  IInv
  <1>1. /\ world \in Worlds /\ owner = {} /\ voided = {} /\ lame = {} /\ overlap = FALSE
        /\ sub = [s \in Subs |-> [status |-> "none", cancel |-> FALSE, price |-> 1, token |-> 0]]
        /\ wire = [s \in Subs |-> <<>>]
        /\ client = [creds |-> None, token |-> None] /\ proc = [s \in Subs |-> Idle]
        /\ runs = [w \in {world[s] : s \in Subs} |->
                    [at |-> "none", more |-> FALSE, todo |-> {}, seen |-> {}, waits |-> None,
                     all |-> {}, lost |-> {}]]
    BY DEF Init, NoRun
  <1>2. Typed
    <2>1. sub \in [Subs -> Sub]
      BY <1>1 DEF Sub, Statuses
    <2>2. /\ client \in [creds : Owners, token : Owners]
          /\ proc \in [Subs -> [at : {"idle", "token", "sign", "exchange", "fetch"}, held : Owners]]
      BY <1>1 DEF Owners, Idle
    <2>3. DOMAIN runs = {world[s] : s \in Subs} /\ \A w \in DOMAIN runs : runs[w] \in Run(w)
      BY <1>1 DEF Run
    <2> QED BY <1>1, <2>1, <2>2, <2>3 DEF Typed
  <1>3. WiresAgree
    <2>1. Len(<<>>) = 0 /\ IsSequence(<<>>) /\ DOMAIN <<>> = {}
      <3>1. IsSequence(<<>>)
        BY Few DEF AllOf
      <3>2. Len(<<>>) = 0
        OBVIOUS
      <3>3. DOMAIN <<>> = {}
        OBVIOUS
      <3> QED BY <3>1, <3>2, <3>3
    <2>2. \A s \in Subs : wire[s] = <<>> /\ proc[s].at = "idle" /\ sub[s].status = "none"
      BY <1>1 DEF Idle
    <2> QED BY <1>1, <2>1, <2>2 DEF WiresAgree, IsSequence
  <1>4. RowsAgree /\ UsersAgree /\ \A s \in Subs : UsersOf(s) = {}
    BY <1>1 DEF RowsAgree, UsersAgree, UsersOf
  <1>5. OneUser
    BY <1>4 DEF OneUser
  <1>6. PurchasesAreMet
    <2>1. Len(<<>>) = 0
      OBVIOUS
    <2>2. \A s \in Subs : wire[s] = <<>> /\ sub[s].token = 0
      BY <1>1
    <2>3. \A known : Gapless(known, <<>>, 0)
      BY <2>1 DEF Gapless
    <2> QED BY <1>1, <2>2, <2>3 DEF PurchasesAreMet
  <1>7. ImportsAgree /\ ImportIsComplete
    BY <1>1 DEF ImportsAgree, ImportIsComplete
  <1>8. CredentialsAgree
    BY <1>1 DEF CredentialsAgree, Underway, Idle
  <1> QED BY <1>2, <1>3, <1>4, <1>5, <1>6, <1>7, <1>8 DEF IInv

LEMMA IInvNext ==
  ASSUME ProvidersAssumption, IInv, [Next]_vars
  PROVE  IInv'
  BY TypedStep, WiresStep, RowsStep, OneUserStep, PurchasesStep, ImportsStep, CredentialsStep DEF IInv

LEMMA CustomersApartNow ==
  ASSUME ProvidersAssumption, IInv
  PROVE  CustomersAreApart
  <1>1. KeptApart
    <2> SUFFICES ASSUME NEW s \in Subs, NEW t \in Subs, s # t,
                        world[s] = world[t] => world[s].source # "apple",
                        NEW u \in UsersOf(s), u \in UsersOf(t)
                 PROVE  FALSE
      BY DEF KeptApart
    <2>1. PICK row \in owner : /\ row.org = world[s].org /\ row.source = world[s].source
                               /\ row.id[1] = s /\ row.user = u
      BY DEF UsersOf
    <2>2. PICK other \in owner : /\ other.org = world[t].org /\ other.source = world[t].source
                                 /\ other.id[1] = t /\ other.user = u
      BY DEF UsersOf
    <2>3. /\ row.org = other.org /\ row.source = other.source
          /\ row.source = "apple" \/ row.id[1] = other.id[1]
      BY <2>1, <2>2 DEF IInv, UsersAgree
    <2>4. world[s] = world[t]
      <3>1. Typed
        BY DEF IInv
      <3>2. \A v \in Subs : world[v] \in [org : {world[x].org : x \in Subs} \ {None},
                                          source : {"stripe", "apple", "google", "recurly"}]
        BY <3>1, SourceIsOne
      <3>3. world[s] = [org |-> world[s].org, source |-> world[s].source]
        BY <3>2
      <3>4. world[t] = [org |-> world[t].org, source |-> world[t].source]
        BY <3>2
      <3>5. world[s].org = world[t].org /\ world[s].source = world[t].source
        BY <2>1, <2>2, <2>3
      <3> QED BY <3>3, <3>4, <3>5
    <2> QED BY <2>1, <2>2, <2>3, <2>4
  <1>2. OwnToken
    <2> SUFFICES ASSUME NEW s \in Subs, ~overlap, proc[s].at = "fetch"
                 PROVE  proc[s].held \in {world[s].org, None}
      BY DEF OwnToken
    <2>1. Underway(s)
      BY WiresAre DEF IInv, Underway
    <2> QED BY <2>1 DEF IInv, CredentialsAgree
  <1> QED BY <1>1, <1>2 DEF IInv, CustomersAreApart

\* The inductive invariant of the providers, the pipeline and the imports: every
\* step keeps what waits, the rows and the runs in agreement.
THEOREM ProvidersInvariant == Spec => []IInv
  <1>1. Init => IInv
    BY IInvInit, ProvidersAssumption
  <1>2. IInv /\ [Next]_vars => IInv'
    BY IInvNext, ProvidersAssumption
  <1> QED BY <1>1, <1>2, PTL DEF Spec

\* A customer is one user as long as the details of the purchases could be
\* fetched; two customers are never one user, but for Apple's, whom the bundle id
\* of their app merges; and while no webhooks of two organizations overlap, Google
\* is asked with the token of the organization (google.ts:148-153, 286-300,
\* apple.ts:273-280).
THEOREM CustomersApart == Spec => []CustomersAreApart
  <1>1. IInv => CustomersAreApart
    BY CustomersApartNow, ProvidersAssumption
  <1> QED BY <1>1, ProvidersInvariant, PTL

\* An import of Recurly's that is reported as completed has come to every
\* subscription there was when it began, whatever changed between its pages and
\* whichever of them failed: it is known, or its item failed
\* (recurly-backfill.ts:308-383).
THEOREM ImportBringsAll == Spec => []ImportIsComplete
  <1>1. IInv => ImportIsComplete
    BY DEF IInv
  <1> QED BY <1>1, ProvidersInvariant, PTL

-----------------------------------------------------------------------------
(***************************************************************************)
(* Access follows payment.  What waits for a subscription is a sequence of *)
(* events that leads from the state its user has to a state that is owed   *)
(* for what the subscription is; also when the import puts purchases ahead *)
(* of it, which come back as long as there is an event to come.            *)
(***************************************************************************)
\* What an event makes of a state: the table STATE_TRANSITIONS by event type.
LEMMA Table ==
  ASSUME NEW a \in States
  PROVE
    /\ Move(a, "purchase") =
         IF a \in {"inactive", "trial", "past_due", "expired", "revoked", "refunded"} THEN "active" ELSE a
    /\ Move(a, "offer_redeemed") = IF a \in {"inactive", "expired"} THEN "active" ELSE a
    /\ Move(a, "renewal") =
         IF a \in {"inactive", "grace_period", "billing_retry", "past_due", "expired"} THEN "active" ELSE a
    /\ Move(a, "trial_conversion") = IF a \in {"trial"} THEN "active" ELSE a
    /\ Move(a, "cancellation") = IF a \in {"paused"} THEN "expired" ELSE a
    /\ Move(a, "upgrade") = a
    /\ Move(a, "downgrade") = a
    /\ Move(a, "price_change") = a
    /\ Move(a, "grace_period_start") = IF a \in {"active"} THEN "grace_period" ELSE a
    /\ Move(a, "grace_period_end") = IF a \in {"grace_period"} THEN "billing_retry" ELSE a
    /\ Move(a, "billing_retry") = IF a \in {"active", "grace_period"} THEN "billing_retry" ELSE a
    /\ Move(a, "expiration") =
         IF a \in {"trial", "active", "grace_period", "billing_retry", "past_due", "paused"} THEN "expired" ELSE a
    /\ Move(a, "refund") =
         IF a \in {"trial", "active", "grace_period", "billing_retry", "past_due"} THEN "refunded" ELSE a
    /\ Move(a, "revoke") = IF a \in {"active"} THEN "revoked" ELSE a
    /\ Move(a, "pause") = IF a \in {"active"} THEN "paused" ELSE a
    /\ Move(a, "resume") = IF a \in {"paused"} THEN "active" ELSE a
  <1>1. \A b, c, s, types, t : <<a, b, c>> \in On(s, types, t) <=> a = s /\ b \in types /\ c = t
    BY DEF On
  <1>2. Move(a, "purchase") =
          IF a \in {"inactive", "trial", "past_due", "expired", "revoked", "refunded"} THEN "active" ELSE a
    <2>1. \A c : <<a, "purchase", c>> \in STATE_TRANSITIONS <=>
            (a \in {"inactive", "trial", "past_due", "expired", "revoked", "refunded"} /\ c = "active")
      BY <1>1 DEF STATE_TRANSITIONS
    <2> QED BY <2>1 DEF Move, HasTransition, NextState, States
  <1>3. Move(a, "offer_redeemed") = IF a \in {"inactive", "expired"} THEN "active" ELSE a
    <2>1. \A c : <<a, "offer_redeemed", c>> \in STATE_TRANSITIONS <=>
            (a \in {"inactive", "expired"} /\ c = "active")
      BY <1>1 DEF STATE_TRANSITIONS
    <2> QED BY <2>1 DEF Move, HasTransition, NextState, States
  <1>4. Move(a, "renewal") =
          IF a \in {"inactive", "grace_period", "billing_retry", "past_due", "expired"} THEN "active" ELSE a
    <2>1. \A c : <<a, "renewal", c>> \in STATE_TRANSITIONS <=>
            (a \in {"inactive", "active", "grace_period", "billing_retry", "past_due", "expired"} /\ c = "active")
      BY <1>1 DEF STATE_TRANSITIONS
    <2> QED BY <2>1 DEF Move, HasTransition, NextState, States
  <1>5. Move(a, "trial_conversion") = IF a \in {"trial"} THEN "active" ELSE a
    <2>1. \A c : <<a, "trial_conversion", c>> \in STATE_TRANSITIONS <=> (a \in {"trial"} /\ c = "active")
      BY <1>1 DEF STATE_TRANSITIONS
    <2> QED BY <2>1 DEF Move, HasTransition, NextState, States
  <1>6. Move(a, "cancellation") = IF a \in {"paused"} THEN "expired" ELSE a
    <2>1. \A c : <<a, "cancellation", c>> \in STATE_TRANSITIONS <=>
            \/ a \in {"trial"} /\ c = "trial"
            \/ a \in {"active"} /\ c = "active"
            \/ a \in {"paused"} /\ c = "expired"
      BY <1>1 DEF STATE_TRANSITIONS
    <2> QED BY <2>1 DEF Move, HasTransition, NextState, States
  <1>7. Move(a, "upgrade") = a
    <2>1. \A c : <<a, "upgrade", c>> \in STATE_TRANSITIONS <=> (a \in {"active"} /\ c = "active")
      BY <1>1 DEF STATE_TRANSITIONS
    <2> QED BY <2>1 DEF Move, HasTransition, NextState, States
  <1>8. Move(a, "downgrade") = a
    <2>1. \A c : <<a, "downgrade", c>> \in STATE_TRANSITIONS <=> (a \in {"active"} /\ c = "active")
      BY <1>1 DEF STATE_TRANSITIONS
    <2> QED BY <2>1 DEF Move, HasTransition, NextState, States
  <1>9. Move(a, "price_change") = a
    <2>1. \A c : <<a, "price_change", c>> \in STATE_TRANSITIONS <=> (a \in {"active"} /\ c = "active")
      BY <1>1 DEF STATE_TRANSITIONS
    <2> QED BY <2>1 DEF Move, HasTransition, NextState, States
  <1>10. Move(a, "grace_period_start") = IF a \in {"active"} THEN "grace_period" ELSE a
    <2>1. \A c : <<a, "grace_period_start", c>> \in STATE_TRANSITIONS <=>
            (a \in {"active"} /\ c = "grace_period")
      BY <1>1 DEF STATE_TRANSITIONS
    <2> QED BY <2>1 DEF Move, HasTransition, NextState, States
  <1>11. Move(a, "grace_period_end") = IF a \in {"grace_period"} THEN "billing_retry" ELSE a
    <2>1. \A c : <<a, "grace_period_end", c>> \in STATE_TRANSITIONS <=>
            (a \in {"grace_period"} /\ c = "billing_retry")
      BY <1>1 DEF STATE_TRANSITIONS
    <2> QED BY <2>1 DEF Move, HasTransition, NextState, States
  <1>12. Move(a, "billing_retry") = IF a \in {"active", "grace_period"} THEN "billing_retry" ELSE a
    <2>1. \A c : <<a, "billing_retry", c>> \in STATE_TRANSITIONS <=>
            (a \in {"active", "grace_period", "billing_retry"} /\ c = "billing_retry")
      BY <1>1 DEF STATE_TRANSITIONS
    <2> QED BY <2>1 DEF Move, HasTransition, NextState, States
  <1>13. Move(a, "expiration") =
           IF a \in {"trial", "active", "grace_period", "billing_retry", "past_due", "paused"} THEN "expired" ELSE a
    <2>1. \A c : <<a, "expiration", c>> \in STATE_TRANSITIONS <=>
            (a \in {"trial", "active", "grace_period", "billing_retry", "past_due", "paused"} /\ c = "expired")
      BY <1>1 DEF STATE_TRANSITIONS
    <2> QED BY <2>1 DEF Move, HasTransition, NextState, States
  <1>14. Move(a, "refund") =
           IF a \in {"trial", "active", "grace_period", "billing_retry", "past_due"} THEN "refunded" ELSE a
    <2>1. \A c : <<a, "refund", c>> \in STATE_TRANSITIONS <=>
            (a \in {"trial", "active", "grace_period", "billing_retry", "past_due"} /\ c = "refunded")
      BY <1>1 DEF STATE_TRANSITIONS
    <2> QED BY <2>1 DEF Move, HasTransition, NextState, States
  <1>15. Move(a, "revoke") = IF a \in {"active"} THEN "revoked" ELSE a
    <2>1. \A c : <<a, "revoke", c>> \in STATE_TRANSITIONS <=> (a \in {"active"} /\ c = "revoked")
      BY <1>1 DEF STATE_TRANSITIONS
    <2> QED BY <2>1 DEF Move, HasTransition, NextState, States
  <1>16. Move(a, "pause") = IF a \in {"active"} THEN "paused" ELSE a
    <2>1. \A c : <<a, "pause", c>> \in STATE_TRANSITIONS <=> (a \in {"active"} /\ c = "paused")
      BY <1>1 DEF STATE_TRANSITIONS
    <2> QED BY <2>1 DEF Move, HasTransition, NextState, States
  <1>17. Move(a, "resume") = IF a \in {"paused"} THEN "active" ELSE a
    <2>1. \A c : <<a, "resume", c>> \in STATE_TRANSITIONS <=> (a \in {"paused"} /\ c = "active")
      BY <1>1 DEF STATE_TRANSITIONS
    <2> QED BY <2>1 DEF Move, HasTransition, NextState, States
  <1> QED BY <1>2, <1>3, <1>4, <1>5, <1>6, <1>7, <1>8, <1>9, <1>10, <1>11, <1>12, <1>13, <1>14, <1>15, <1>16,
    <1>17

\* Moves, for as many events as a notification has here.
LEMMA FewMoves ==
  ASSUME NEW e, NEW a, NEW b
  PROVE  /\ Moves(e, <<>>) = e
         /\ Moves(e, <<a>>) = Move(e, a)
         /\ Moves(e, <<a, b>>) = Move(Move(e, a), b)
  <1>1. ASSUME NEW types, NEW f, f = [k \in 0..Len(types) |-> IF k = 0 THEN e ELSE Move(f[k - 1], types[k])]
        PROVE  \E g : g = [k \in 0..Len(types) |-> IF k = 0 THEN e ELSE Move(g[k - 1], types[k])]
                     /\ Moves(e, types) = g[Len(types)]
    <2> DEFINE Fits(g) == g = [k \in 0..Len(types) |-> IF k = 0 THEN e ELSE Move(g[k - 1], types[k])]
    <2>1. Fits(CHOOSE g : Fits(g))
      BY <1>1
    <2>2. Moves(e, types) = (CHOOSE g : Fits(g))[Len(types)]
      BY DEF Moves
    <2> QED BY <2>1, <2>2
  <1>2. Moves(e, <<>>) = e
    <2>1. Len(<<>>) = 0
      OBVIOUS
    <2> DEFINE f == [k \in 0..0 |-> e]
    <2>2. f = [k \in 0..Len(<<>>) |-> IF k = 0 THEN e ELSE Move(f[k - 1], <<>>[k])]
      BY <2>1
    <2>3. PICK g : g = [k \in 0..Len(<<>>) |-> IF k = 0 THEN e ELSE Move(g[k - 1], <<>>[k])]
                     /\ Moves(e, <<>>) = g[Len(<<>>)]
      BY <1>1, <2>2
    <2> QED BY <2>1, <2>3
  <1>3. Moves(e, <<a>>) = Move(e, a)
    <2>1. Len(<<a>>) = 1 /\ <<a>>[1] = a
      OBVIOUS
    <2> DEFINE f == [k \in 0..1 |-> IF k = 0 THEN e ELSE Move(e, a)]
    <2>2. f = [k \in 0..Len(<<a>>) |-> IF k = 0 THEN e ELSE Move(f[k - 1], <<a>>[k])]
      BY <2>1
    <2>3. PICK g : g = [k \in 0..Len(<<a>>) |-> IF k = 0 THEN e ELSE Move(g[k - 1], <<a>>[k])]
                     /\ Moves(e, <<a>>) = g[Len(<<a>>)]
      BY <1>1, <2>2
    <2> QED BY <2>1, <2>3
  <1>4. Moves(e, <<a, b>>) = Move(Move(e, a), b)
    <2>1. Len(<<a, b>>) = 2 /\ <<a, b>>[1] = a /\ <<a, b>>[2] = b
      OBVIOUS
    <2> DEFINE f == [k \in 0..2 |-> IF k = 0 THEN e ELSE IF k = 1 THEN Move(e, a) ELSE Move(Move(e, a), b)]
    <2>2. f = [k \in 0..Len(<<a, b>>) |-> IF k = 0 THEN e ELSE Move(f[k - 1], <<a, b>>[k])]
      BY <2>1
    <2>3. PICK g : g = [k \in 0..Len(<<a, b>>) |-> IF k = 0 THEN e ELSE Move(g[k - 1], <<a, b>>[k])]
                     /\ Moves(e, <<a, b>>) = g[Len(<<a, b>>)]
      BY <1>1, <2>2
    <2> QED BY <2>1, <2>3
  <1> QED BY <1>2, <1>3, <1>4

\* What notification n of s makes of a state, and what a purchase may make of
\* states that Google's import puts before it.
After(s, n, state) == IF HasProduct(s, n) THEN Moves(state, Normalize(s, n)) ELSE state

Bought(s, states) ==
  IF world[s].source = "google" THEN states \cup {Move(e, "purchase") : e \in states} ELSE states

\* The notifications q of s lead from states to others, also when imports put
\* purchases before those that move anything.
ToCome(s, q, i) == \E j \in (i + 1)..Len(q) : HasProduct(s, q[j])

Traces(s, q, from, to, f) ==
  /\ f \in [0..Len(q) -> SUBSET States] /\ from \subseteq f[0]
  /\ \A i \in 1..Len(q) : \A e \in f[i - 1] : After(s, q[i], e) \in f[i]
  /\ \A i \in 0..Len(q) : IF ToCome(s, q, i) THEN Bought(s, f[i]) \subseteq f[i] ELSE f[i] \subseteq to

Leads(s, q, from, to) == \E f : Traces(s, q, from, to, f)

\* A purchase leaves what was bought bought.
LEMMA Buying ==
  ASSUME NEW s, NEW states \in SUBSET States
  PROVE  /\ states \subseteq Bought(s, states) /\ Bought(s, states) \subseteq States
         /\ Bought(s, Bought(s, states)) \subseteq Bought(s, states)
         /\ \A more \in SUBSET States : states \subseteq more => Bought(s, states) \subseteq Bought(s, more)
  <1>1. \A e \in States : /\ Move(e, "purchase") \in States
                          /\ Move(Move(e, "purchase"), "purchase") = Move(e, "purchase")
    BY Table DEF States
  <1> QED BY <1>1 DEF Bought

\* What leads to some states leads to more.
LEMMA LeadsOn ==
  ASSUME NEW s, NEW from, NEW to, NEW more, to \subseteq more, NEW q, Leads(s, q, from, to)
  PROVE  Leads(s, q, from, more)
  <1>1. PICK f : Traces(s, q, from, to, f)
    BY DEF Leads
  <1>2. Traces(s, q, from, more, f)
    BY <1>1 DEF Traces
  <1> QED BY <1>2 DEF Leads

\* Nothing that waits leads nowhere else.
LEMMA LeadsAtOnce ==
  ASSUME NEW s, NEW from, NEW to
  PROVE  /\ Leads(s, <<>>, from, to) => from \subseteq to
         /\ from \subseteq to /\ to \subseteq States => Leads(s, <<>>, from, to)
  <1>1. Len(<<>>) = 0 /\ 0..0 = {0} /\ 1..0 = {} /\ ~ToCome(s, <<>>, 0)
    BY DEF ToCome
  <1>2. ASSUME NEW f, Traces(s, <<>>, from, to, f) PROVE from \subseteq to
    BY <1>1, <1>2 DEF Traces
  <1>3. ASSUME from \subseteq to, to \subseteq States PROVE Leads(s, <<>>, from, to)
    <2> DEFINE f == [i \in {0} |-> to]
    <2>1. Traces(s, <<>>, from, to, f)
      BY <1>1, <1>3 DEF Traces
    <2> QED BY <2>1 DEF Leads
  <1> QED BY <1>2, <1>3 DEF Leads

\* The pipeline takes the first.
LEMMA LeadsWhenServed ==
  ASSUME NEW s, NEW from, NEW to, NEW q, IsSequence(q), q # <<>>, Leads(s, q, from, to),
         NEW then, \A e \in then : \E old \in from : e = After(s, q[1], old)
  PROVE  Leads(s, Tail(q), then, to)
  <1>1. PICK f : Traces(s, q, from, to, f)
    BY DEF Leads
  <1>2. PICK r : r = Tail(q)
    OBVIOUS
  <1>3. PICK n \in Nat : n = Len(r)
    BY <1>2, Shorter DEF IsSequence
  <1>4. Len(q) = n + 1 /\ \A i \in 1..n : r[i] = q[i + 1]
    BY <1>2, <1>3, Shorter
  <1>5. \A i \in 0..n : ToCome(s, r, i) <=> ToCome(s, q, i + 1)
    <2> SUFFICES ASSUME NEW i \in 0..n PROVE ToCome(s, r, i) <=> ToCome(s, q, i + 1)
      OBVIOUS
    <2>1. ASSUME NEW j \in (i + 1)..n, HasProduct(s, r[j]) PROVE ToCome(s, q, i + 1)
      <3>1. j + 1 \in (i + 1 + 1)..(n + 1) /\ r[j] = q[j + 1]
        BY <1>4
      <3> QED BY <1>4, <2>1, <3>1 DEF ToCome
    <2>2. ASSUME NEW j \in (i + 1 + 1)..(n + 1), HasProduct(s, q[j]) PROVE ToCome(s, r, i)
      <3>1. j - 1 \in (i + 1)..n /\ r[j - 1] = q[j]
        BY <1>4
      <3> QED BY <1>3, <2>2, <3>1 DEF ToCome
    <2> QED BY <1>3, <1>4, <2>1, <2>2 DEF ToCome
  <1> DEFINE g == [i \in 0..n |-> f[i + 1]]
  <1>6. /\ f \in [0..(n + 1) -> SUBSET States] /\ from \subseteq f[0]
        /\ \A i \in 1..(n + 1) : \A e \in f[i - 1] : After(s, q[i], e) \in f[i]
        /\ \A i \in 0..(n + 1) : IF ToCome(s, q, i) THEN Bought(s, f[i]) \subseteq f[i] ELSE f[i] \subseteq to
    BY <1>1, <1>4 DEF Traces
  <1>7. g \in [0..n -> SUBSET States]
    BY <1>6
  <1>8. then \subseteq g[0]
    <2>1. 1 \in 1..(n + 1) /\ 0 \in 0..n
      OBVIOUS
    <2>2. \A e \in f[0] : After(s, q[1], e) \in f[1]
      BY <1>6, <2>1
    <2> QED BY <1>6, <2>1, <2>2
  <1>9. ASSUME NEW i \in 1..n, NEW e \in g[i - 1] PROVE After(s, r[i], e) \in g[i]
    <2>1. i + 1 \in 1..(n + 1) /\ i \in 0..n /\ i - 1 \in 0..n /\ (i + 1) - 1 = i /\ (i - 1) + 1 = i
      OBVIOUS
    <2>2. e \in f[i] /\ g[i] = f[i + 1]
      BY <2>1
    <2> QED BY <1>4, <1>6, <2>1, <2>2
  <1>10. ASSUME NEW i \in 0..n
         PROVE  IF ToCome(s, r, i) THEN Bought(s, g[i]) \subseteq g[i] ELSE g[i] \subseteq to
    <2>1. PICK j \in 0..(n + 1) : j = i + 1
      OBVIOUS
    <2>2. g[i] = f[j] /\ (ToCome(s, r, i) <=> ToCome(s, q, j))
      BY <1>5, <2>1
    <2> HIDE DEF g
    <2> QED BY <1>6, <2>2
  <1>11. Traces(s, r, then, to, g)
    <2> HIDE DEF g
    <2> QED BY <1>3, <1>7, <1>8, <1>9, <1>10 DEF Traces
  <1> HIDE DEF g
  <1> QED BY <1>2, <1>11 DEF Leads

\* A notification more, told of last.
LEMMA LeadsWhenTold ==
  ASSUME NEW s, NEW from, NEW to \in SUBSET States, NEW q, IsSequence(q), Leads(s, q, from, to),
         NEW note, NEW then \in SUBSET States,
         \A e \in IF HasProduct(s, note) THEN Bought(s, to) ELSE to : After(s, note, e) \in then
  PROVE  Leads(s, q \o <<note>>, from, then)
  <1>1. PICK f : Traces(s, q, from, to, f)
    BY DEF Leads
  <1>2. PICK r : r = q \o <<note>>
    OBVIOUS
  <1>3. PICK n \in Nat : n = Len(q)
    BY Joined, Few DEF AllOf, IsSequence
  <1>4. Len(r) = n + 1 /\ r[n + 1] = note /\ \A i \in 1..n : r[i] = q[i]
    <2>1. PICK one : one = <<note>>
      OBVIOUS
    <2>2. IsSequence(one) /\ Len(one) = 1 /\ one[1] = note
      <3>1. one \in Seq({note})
        BY <2>1
      <3> QED BY <2>1, <3>1, SequencesAre
    <2>3. /\ Len(r) = n + 1
          /\ \A i \in 1..Len(r) : r[i] = IF i <= n THEN q[i] ELSE one[i - n]
      BY <1>2, <1>3, <2>1, <2>2, Joined
    <2>4. r[n + 1] = one[(n + 1) - n] /\ (n + 1) - n = 1
      BY <2>3
    <2> QED BY <2>2, <2>3, <2>4
  <1>5. /\ f \in [0..n -> SUBSET States] /\ from \subseteq f[0]
        /\ \A i \in 1..n : \A e \in f[i - 1] : After(s, q[i], e) \in f[i]
        /\ \A i \in 0..n : IF ToCome(s, q, i) THEN Bought(s, f[i]) \subseteq f[i] ELSE f[i] \subseteq to
    BY <1>1, <1>3 DEF Traces
  <1>6. ~ToCome(s, r, n + 1) /\ ~ToCome(s, q, n)
    BY <1>3, <1>4 DEF ToCome
  <1>7. f[n] \subseteq to
    BY <1>5, <1>6
  <1>8. CASE ~HasProduct(s, note)
    <2>1. \A i \in 0..n : ToCome(s, r, i) <=> ToCome(s, q, i)
      <3>1. \A i \in 0..n : \A j \in (i + 1)..(n + 1) : j = n + 1 \/ j \in (i + 1)..n
        OBVIOUS
      <3>2. \A i \in 0..n : \A j \in (i + 1)..n : j \in 1..n /\ j \in (i + 1)..(n + 1)
        OBVIOUS
      <3> QED BY <1>3, <1>4, <1>8, <3>1, <3>2 DEF ToCome
    <2>2. to \subseteq then
      BY <1>8 DEF After
    <2> DEFINE g == [i \in 0..(n + 1) |-> IF i = n + 1 THEN then ELSE f[i]]
    <2>3. g \in [0..(n + 1) -> SUBSET States] /\ g[0] = f[0]
      BY <1>5
    <2>4. g[n + 1] = then /\ \A i \in 0..n : g[i] = f[i]
      OBVIOUS
    <2> HIDE DEF g
    <2>5. ASSUME NEW i \in 1..(n + 1), NEW e \in g[i - 1] PROVE After(s, r[i], e) \in g[i]
      <3>1. CASE i = n + 1
        <4>1. i - 1 = n /\ n \in 0..n
          BY <3>1
        <4>2. e \in to
          BY <1>7, <2>4, <2>5, <4>1
        <4> QED BY <1>4, <1>8, <2>4, <3>1, <4>2
      <3>2. CASE i \in 1..n
        <4>1. i - 1 \in 0..n /\ i \in 0..n
          BY <3>2
        <4> QED BY <1>4, <1>5, <2>4, <2>5, <3>2, <4>1
      <3> QED BY <3>1, <3>2
    <2>6. ASSUME NEW i \in 0..(n + 1)
          PROVE  IF ToCome(s, r, i) THEN Bought(s, g[i]) \subseteq g[i] ELSE g[i] \subseteq then
      <3>1. CASE i = n + 1
        BY <1>6, <2>4, <3>1
      <3>2. CASE i \in 0..n
        BY <1>5, <2>1, <2>2, <2>4, <3>2
      <3> QED BY <3>1, <3>2
    <2>7. Traces(s, r, from, then, g)
      BY <1>4, <1>5, <2>3, <2>5, <2>6 DEF Traces
    <2> QED BY <1>2, <2>7 DEF Leads
  <1>9. CASE HasProduct(s, note)
    <2>1. ASSUME NEW i \in 0..n PROVE ToCome(s, r, i)
      <3>1. n + 1 \in (i + 1)..(n + 1)
        OBVIOUS
      <3> QED BY <1>4, <1>9, <3>1 DEF ToCome
    <2> DEFINE g == [i \in 0..(n + 1) |-> IF i = n + 1 THEN then ELSE Bought(s, f[i])]
    <2>2. \A i \in 0..n : /\ f[i] \subseteq Bought(s, f[i]) /\ Bought(s, f[i]) \in SUBSET States
                         /\ Bought(s, Bought(s, f[i])) \subseteq Bought(s, f[i])
      <3>1. \A i \in 0..n : f[i] \in SUBSET States
        BY <1>5
      <3> QED BY <3>1, Buying
    <2>3. g \in [0..(n + 1) -> SUBSET States]
      BY <2>2
    <2>4. g[n + 1] = then /\ \A i \in 0..n : g[i] = Bought(s, f[i])
      OBVIOUS
    <2> HIDE DEF g
    <2>5. ASSUME NEW i \in 1..(n + 1), NEW e \in g[i - 1] PROVE After(s, r[i], e) \in g[i]
      <3>1. CASE i = n + 1
        <4>1. i - 1 = n /\ n \in 0..n
          BY <3>1
        <4>2. e \in Bought(s, f[n])
          BY <2>4, <2>5, <4>1
        <4>3. e \in Bought(s, to)
          BY <1>7, <4>2 DEF Bought
        <4> QED BY <1>4, <1>9, <2>4, <3>1, <4>3
      <3>2. CASE i \in 1..n
        <4>1. i - 1 \in 0..n /\ i \in 0..n /\ (i - 1) + 1 = i /\ i \in i..n
          BY <3>2
        <4>2. /\ r[i] = q[i] /\ e \in Bought(s, f[i - 1])
              /\ g[i] = Bought(s, f[i]) /\ f[i] \subseteq Bought(s, f[i])
          BY <1>4, <2>2, <2>4, <2>5, <3>2, <4>1
        <4>3. \A x \in f[i - 1] : After(s, q[i], x) \in f[i]
          BY <1>5, <3>2
        <4>4. CASE HasProduct(s, q[i])
          <5>1. ToCome(s, q, i - 1)
            BY <1>3, <4>1, <4>4 DEF ToCome
          <5>2. e \in f[i - 1]
            BY <1>5, <4>1, <4>2, <5>1
          <5> QED BY <4>2, <4>3, <5>2
        <4>5. CASE ~HasProduct(s, q[i])
          <5>1. f[i - 1] \subseteq f[i] /\ After(s, q[i], e) = e
            BY <4>3, <4>5 DEF After
          <5>2. e \in Bought(s, f[i])
            BY <4>2, <5>1 DEF Bought
          <5> QED BY <4>2, <5>1, <5>2
        <4> QED BY <4>4, <4>5
      <3> QED BY <3>1, <3>2
    <2>6. ASSUME NEW i \in 0..(n + 1)
          PROVE  IF ToCome(s, r, i) THEN Bought(s, g[i]) \subseteq g[i] ELSE g[i] \subseteq then
      <3>1. CASE i = n + 1
        BY <1>6, <2>4, <3>1
      <3>2. CASE i \in 0..n
        BY <2>1, <2>2, <2>4, <3>2
      <3> QED BY <3>1, <3>2
    <2>7. from \subseteq g[0]
      <3>1. 0 \in 0..n
        OBVIOUS
      <3> QED BY <1>5, <2>2, <2>4, <3>1
    <2>8. Traces(s, r, from, then, g)
      BY <1>4, <2>3, <2>5, <2>6, <2>7 DEF Traces
    <2> QED BY <1>2, <2>8 DEF Leads
  <1> QED BY <1>8, <1>9

\* A notification more, which an import puts first.
LEMMA LeadsWhenPut ==
  ASSUME NEW s, NEW from, NEW to \in SUBSET States, NEW q, IsSequence(q), Leads(s, q, from, to),
         NEW note,
         HasProduct(s, note) => /\ world[s].source = "google" /\ Bought(s, to) \subseteq to
                                /\ \A e \in States : After(s, note, e) = Move(e, "purchase")
  PROVE  Leads(s, <<note>> \o q, from, to)
  <1>1. PICK f : Traces(s, q, from, to, f)
    BY DEF Leads
  <1>2. PICK r : r = <<note>> \o q
    OBVIOUS
  <1>3. PICK n \in Nat : n = Len(q)
    BY Joined, Few DEF AllOf, IsSequence
  <1>4. Len(r) = n + 1 /\ r[1] = note /\ \A i \in 1..n : r[i + 1] = q[i]
    <2>1. PICK one : one = <<note>>
      OBVIOUS
    <2>2. IsSequence(one) /\ Len(one) = 1 /\ one[1] = note
      <3>1. one \in Seq({note})
        BY <2>1
      <3> QED BY <2>1, <3>1, SequencesAre
    <2>3. /\ Len(r) = 1 + n
          /\ \A i \in 1..Len(r) : r[i] = IF i <= 1 THEN one[i] ELSE q[i - 1]
      BY <1>2, <1>3, <2>1, <2>2, Joined
    <2>4. \A i \in 1..n : i + 1 \in 1..(1 + n) /\ ~(i + 1 <= 1) /\ (i + 1) - 1 = i
      OBVIOUS
    <2>5. \A i \in 1..n : r[i + 1] = q[i]
      BY <2>3, <2>4
    <2> QED BY <2>2, <2>3, <2>5
  <1>5. /\ f \in [0..n -> SUBSET States] /\ from \subseteq f[0]
        /\ \A i \in 1..n : \A e \in f[i - 1] : After(s, q[i], e) \in f[i]
        /\ \A i \in 0..n : IF ToCome(s, q, i) THEN Bought(s, f[i]) \subseteq f[i] ELSE f[i] \subseteq to
    BY <1>1, <1>3 DEF Traces
  <1>6. \A i \in 0..n : ToCome(s, r, i + 1) <=> ToCome(s, q, i)
    <2> SUFFICES ASSUME NEW i \in 0..n PROVE ToCome(s, r, i + 1) <=> ToCome(s, q, i)
      OBVIOUS
    <2>1. ASSUME NEW j \in (i + 1)..n, HasProduct(s, q[j]) PROVE ToCome(s, r, i + 1)
      <3>1. j + 1 \in (i + 1 + 1)..(n + 1) /\ r[j + 1] = q[j]
        BY <1>4
      <3> QED BY <1>4, <2>1, <3>1 DEF ToCome
    <2>2. ASSUME NEW j \in (i + 1 + 1)..(n + 1), HasProduct(s, r[j]) PROVE ToCome(s, q, i)
      <3>1. j - 1 \in (i + 1)..n /\ r[(j - 1) + 1] = q[j - 1] /\ (j - 1) + 1 = j
        BY <1>4
      <3> QED BY <1>3, <2>2, <3>1 DEF ToCome
    <2> QED BY <1>3, <1>4, <2>1, <2>2 DEF ToCome
  <1>7. ToCome(s, r, 0) <=> HasProduct(s, note) \/ ToCome(s, q, 0)
    <2>1. ToCome(s, r, 0) <=> HasProduct(s, r[1]) \/ ToCome(s, r, 1)
      <3>1. \A j \in 1..(n + 1) : j = 1 \/ j \in 2..(n + 1)
        OBVIOUS
      <3>2. 1 \in 1..(n + 1) /\ \A j \in 2..(n + 1) : j \in 1..(n + 1)
        OBVIOUS
      <3> QED BY <1>4, <3>1, <3>2 DEF ToCome
    <2>2. 0 \in 0..n /\ 0 + 1 = 1
      OBVIOUS
    <2>3. ToCome(s, r, 1) <=> ToCome(s, q, 0)
      BY <1>6, <2>2
    <2> QED BY <1>4, <2>1, <2>3
  \* Where it leads to, and where the others lead to from there.
  <1>8. \E g0 \in SUBSET States, h \in [0..n -> SUBSET States] :
          /\ from \subseteq g0 /\ \A e \in g0 : After(s, note, e) \in h[0]
          /\ IF HasProduct(s, note) \/ ToCome(s, q, 0) THEN Bought(s, g0) \subseteq g0 ELSE g0 \subseteq to
          /\ \A i \in 1..n : \A e \in h[i - 1] : After(s, q[i], e) \in h[i]
          /\ \A i \in 0..n : IF ToCome(s, q, i) THEN Bought(s, h[i]) \subseteq h[i] ELSE h[i] \subseteq to
    <2>0. 0 \in 0..n /\ f[0] \in SUBSET States
      BY <1>5
    <2>1. CASE ~HasProduct(s, note)
      <3>1. \A e \in f[0] : After(s, note, e) \in f[0]
        BY <2>1 DEF After
      <3>2. IF ToCome(s, q, 0) THEN Bought(s, f[0]) \subseteq f[0] ELSE f[0] \subseteq to
        BY <1>5, <2>0
      <3> QED BY <1>5, <2>0, <2>1, <3>1, <3>2
    <2>2. CASE HasProduct(s, note) /\ ToCome(s, q, 0)
      <3>1. Bought(s, f[0]) \subseteq f[0]
        BY <1>5, <2>0, <2>2
      <3>2. \A e \in f[0] : After(s, note, e) \in f[0]
        BY <2>0, <2>2, <3>1 DEF Bought
      <3> QED BY <1>5, <2>0, <2>2, <3>1, <3>2
    <2>3. CASE HasProduct(s, note) /\ ~ToCome(s, q, 0)
      <3>1. \A i \in 0..n : ~ToCome(s, q, i)
        <4>1. \A i \in 0..n : \A j \in (i + 1)..n : j \in 1..n
          OBVIOUS
        <4> QED BY <1>3, <2>3, <4>1 DEF ToCome
      <3>2. \A i \in 1..n : ~HasProduct(s, q[i])
        BY <1>3, <2>3 DEF ToCome
      <3>3. \A i \in 1..n, e \in to : After(s, q[i], e) = e
        BY <3>2 DEF After
      <3>4. \A e \in to : After(s, note, e) \in to
        BY <2>3 DEF Bought
      <3>5. from \subseteq to
        BY <1>5, <2>0, <3>1
      <3> DEFINE h == [i \in 0..n |-> to]
      <3>6. h \in [0..n -> SUBSET States] /\ \A i \in 0..n : h[i] = to
        OBVIOUS
      <3> HIDE DEF h
      <3>7. \A i \in 1..n : \A e \in h[i - 1] : After(s, q[i], e) \in h[i]
        <4>1. \A i \in 1..n : i \in 0..n /\ i - 1 \in 0..n
          OBVIOUS
        <4> QED BY <3>3, <3>6, <4>1
      <3> QED BY <2>0, <2>3, <3>1, <3>4, <3>5, <3>6, <3>7
    <2> QED BY <2>1, <2>2, <2>3
  <1>9. PICK g0 \in SUBSET States, h \in [0..n -> SUBSET States] :
          /\ from \subseteq g0 /\ \A e \in g0 : After(s, note, e) \in h[0]
          /\ IF HasProduct(s, note) \/ ToCome(s, q, 0) THEN Bought(s, g0) \subseteq g0 ELSE g0 \subseteq to
          /\ \A i \in 1..n : \A e \in h[i - 1] : After(s, q[i], e) \in h[i]
          /\ \A i \in 0..n : IF ToCome(s, q, i) THEN Bought(s, h[i]) \subseteq h[i] ELSE h[i] \subseteq to
    BY <1>8
  <1> DEFINE g == [i \in 0..(n + 1) |-> IF i = 0 THEN g0 ELSE h[i - 1]]
  <1>10. g \in [0..(n + 1) -> SUBSET States] /\ g[0] = g0
    <2>1. \A i \in 0..(n + 1) : i = 0 \/ i - 1 \in 0..n
      OBVIOUS
    <2> QED BY <2>1
  <1>11. \A i \in 0..n : g[i + 1] = h[i]
    OBVIOUS
  <1> HIDE DEF g
  <1>12. ASSUME NEW i \in 1..(n + 1), NEW e \in g[i - 1] PROVE After(s, r[i], e) \in g[i]
    <2>1. CASE i = 1
      <3>1. i - 1 = 0 /\ 0 \in 0..n /\ 0 + 1 = 1
        BY <2>1
      <3>2. e \in g0 /\ g[i] = h[0]
        BY <1>10, <1>11, <1>12, <2>1, <3>1
      <3> QED BY <1>4, <1>9, <2>1, <3>2
    <2>2. CASE i # 1
      <3>0. PICK k : k = i - 1
        OBVIOUS
      <3>1. k \in 1..n /\ i = k + 1
        BY <2>2, <3>0
      <3>2. k - 1 \in 0..n /\ k \in 0..n /\ i - 1 = (k - 1) + 1
        BY <3>1
      <3>3. e \in h[k - 1] /\ g[i] = h[k] /\ r[i] = q[k]
        BY <1>4, <1>11, <1>12, <3>1, <3>2
      <3> QED BY <1>9, <3>1, <3>3
    <2> QED BY <2>1, <2>2
  <1>13. ASSUME NEW i \in 0..(n + 1)
         PROVE  IF ToCome(s, r, i) THEN Bought(s, g[i]) \subseteq g[i] ELSE g[i] \subseteq to
    <2>1. CASE i = 0
      BY <1>7, <1>9, <1>10, <2>1
    <2>2. CASE i # 0
      <3>0. PICK k : k = i - 1
        OBVIOUS
      <3>1. k \in 0..n /\ i = k + 1
        BY <2>2, <3>0
      <3>2. g[i] = h[k] /\ (ToCome(s, r, i) <=> ToCome(s, q, k))
        BY <1>6, <1>11, <3>1
      <3> QED BY <1>9, <3>1, <3>2
    <2> QED BY <2>1, <2>2
  <1>14. Traces(s, r, from, to, g)
    BY <1>4, <1>9, <1>10, <1>12, <1>13 DEF Traces
  <1> QED BY <1>2, <1>14 DEF Leads

\* The states an entitlement may be in once all that was told of its
\* subscription is processed.  Strange is one brought back by an import, or
\* revoked while unpaid.
Owed(status, strange) ==
  (CASE status = "none"     -> {"inactive"}
     [] status = "trialing" -> {"active"}
     [] status = "active"   -> {"active"}
     [] status = "grace"    -> {"grace_period"}
     [] status = "past_due" -> {"billing_retry"}
     [] status = "paused"   -> {"paused"}
     [] status = "ended"    -> {"expired", "revoked", "refunded"})
  \cup (IF ~strange THEN {}
        ELSE {"billing_retry"} \cup IF status \in Live \cup {"paused"} THEN {} ELSE {"active"})

\* What is owed are states, and a purchase leaves them so.
LEMMA OwedStates ==
  ASSUME NEW status \in Statuses, NEW strange \in BOOLEAN
  PROVE  /\ Owed(status, strange) \in SUBSET States
         /\ Owed(status, FALSE) \subseteq Owed(status, strange)
         /\ status \in Live \/ strange =>
              \A e \in Owed(status, strange) : Move(e, "purchase") \in Owed(status, strange)
  <1>1. Owed(status, strange) \in SUBSET States /\ Owed(status, FALSE) \subseteq Owed(status, strange)
    BY DEF Owed, Statuses, States, Live
  <1>2. \A e \in Owed(status, strange) : /\ e \in States
                                         /\ Move(e, "purchase") =
                                              IF e \in {"inactive", "trial", "past_due", "expired", "revoked", "refunded"}
                                                  THEN "active" ELSE e
    BY <1>1, Table
  <1>3. ASSUME status \in Live \/ strange, NEW e \in Owed(status, strange)
        PROVE Move(e, "purchase") \in Owed(status, strange)
    BY <1>2, <1>3 DEF Owed, Statuses, Live
  <1> QED BY <1>1, <1>3

\* A revocation the table has no entry for.
Turns(change, old) == change = "Revoke" /\ old # "active"

\* The event a change makes at Apple, and what is owed then.
AppleEvents ==
  [Buy |-> "purchase", Try |-> "offer_redeemed", Renew |-> "renewal", Convert |-> "renewal",
   Fail |-> "billing_retry", FailWithGrace |-> "grace_period_start", GraceEnds |-> "grace_period_end",
   Recover |-> "renewal", TurnOff |-> "cancellation", TurnOn |-> "resume",
   ChangePlan |-> "price_change", End |-> "expiration", Revoke |-> "revoke"]

LEMMA AppleLife ==
  ASSUME NEW old, NEW change \in DOMAIN AppleEvents, NEW new, <<old, change, new>> \in Life,
         NEW strange \in BOOLEAN,
         NEW later \in BOOLEAN, strange \/ Turns(change, old) => later, NEW e \in Owed(old, strange)
  PROVE  Move(e, AppleEvents[change]) \in Owed(new, later)
  <1>1. old \in Statuses /\ new \in Statuses
    BY DEF Life, Live, Statuses
  <1>2. e \in States
    BY <1>1, OwedStates
  <1>3. e \in {"billing_retry", "active"} => strange \/ old \in {"trialing", "active", "past_due"}
    BY <1>1 DEF Owed, Statuses, Live
  <1> QED BY <1>1, <1>2, Table DEF AppleEvents, Life, Owed, Turns, Statuses, Live

\* The event a change makes at Google, also after a purchase that is put first.
GoogleEvents ==
  [Buy |-> "purchase", Try |-> "purchase", Renew |-> "renewal", Convert |-> "renewal",
   Fail |-> "billing_retry", FailWithGrace |-> "grace_period_start", GraceEnds |-> "billing_retry",
   Recover |-> "renewal", TurnOff |-> "cancellation", TurnOn |-> "resume",
   ChangePlan |-> "price_change", Pause |-> "pause", Resume |-> "resume", End |-> "expiration",
   Revoke |-> "revoke"]

LEMMA GoogleLife ==
  ASSUME NEW old, NEW change, NEW new, <<old, change, new>> \in Life, NEW strange \in BOOLEAN,
         NEW later \in BOOLEAN, strange \/ Turns(change, old) => later, NEW e \in Owed(old, strange)
  PROVE  /\ Move(e, GoogleEvents[change]) \in Owed(new, later)
         /\ Move(Move(e, "purchase"), GoogleEvents[change]) \in Owed(new, later)
  <1>1. old \in Statuses /\ new \in Statuses
    BY DEF Life, Live, Statuses
  <1>2. e \in States
    BY <1>1, OwedStates
  <1>3. Move(e, "purchase") =
          IF e \in {"inactive", "trial", "past_due", "expired", "revoked", "refunded"} THEN "active" ELSE e
    BY <1>2, Table
  <1>4. Move(e, "purchase") \in States
    BY <1>2, <1>3 DEF States
  <1>5. Move(e, GoogleEvents[change]) \in Owed(new, later)
    BY <1>1, <1>2, Table DEF GoogleEvents, Life, Owed, Turns, Statuses, Live
  <1>6. Move(Move(e, "purchase"), GoogleEvents[change]) \in Owed(new, later)
    BY <1>1, <1>2, <1>3, <1>4, Table DEF GoogleEvents, Life, Owed, Turns, Statuses, Live
  <1> QED BY <1>5, <1>6

\* Tables of the normalizers: the one row of a key.
Sole(table, k, type) == /\ <<k, type>> \in table
                        /\ \A row \in table : row[1] = k => row[2] = type

LEMMA LookedUp ==
  ASSUME NEW table, NEW k, NEW type, Sole(table, k, type)
  PROVE  LookUp(table, k) = <<type>>
  <1>1. Mapped(table, k)
    <2>1. <<k, type>> \in table /\ <<k, type>>[1] = k
      BY DEF Sole
    <2> QED BY <2>1 DEF Mapped
  <1>3. TypeOf(table, k) = type
    BY <1>1 DEF TypeOf, Mapped, Sole
  <1> QED BY <1>1, <1>3 DEF LookUp

LEMMA RowsAre ==
  ASSUME NEW keys, NEW type, NEW row \in Rows(keys, type)
  PROVE  row[1] \in keys /\ row[2] = type
  BY DEF Rows

LEMMA InRows ==
  ASSUME NEW keys, NEW type, NEW k \in keys
  PROVE  <<k, type>> \in Rows(keys, type)
  BY DEF Rows

\* Apple's table, row by row.
LEMMA AppleRows ==
  ASSUME NEW row \in APPLE_EVENT_MAP, NEW a, NEW b, row[1] = <<a, b>>
  PROVE
    \/ a = "SUBSCRIBED" /\ row[2] = "purchase"
    \/ a \in {"DID_RENEW", "RENEWAL_EXTENDED"} /\ row[2] = "renewal"
    \/ a = "DID_FAIL_TO_RENEW" /\ b = "" /\ row[2] = "billing_retry"
    \/ a = "DID_FAIL_TO_RENEW" /\ b = "GRACE_PERIOD" /\ row[2] = "grace_period_start"
    \/ a = "GRACE_PERIOD_EXPIRED" /\ row[2] = "grace_period_end"
    \/ a = "DID_CHANGE_RENEWAL_STATUS" /\ b = "AUTO_RENEW_DISABLED" /\ row[2] = "cancellation"
    \/ a = "DID_CHANGE_RENEWAL_STATUS" /\ b = "AUTO_RENEW_ENABLED" /\ row[2] = "resume"
    \/ a = "EXPIRED" /\ row[2] = "expiration"
    \/ a = "REFUND" /\ row[2] = "refund"
    \/ a = "REVOKE" /\ row[2] = "revoke"
    \/ a = "OFFER_REDEEMED" /\ row[2] = "offer_redeemed"
    \/ a = "PRICE_INCREASE" /\ row[2] = "price_change"
  <1> DEFINE subscribed == {<<"SUBSCRIBED", "INITIAL_BUY">>, <<"SUBSCRIBED", "RESUBSCRIBE">>}
             renewed == {<<"DID_RENEW", "">>, <<"DID_RENEW", "BILLING_RECOVERY">>, <<"RENEWAL_EXTENDED", "">>}
             expired == {"EXPIRED"} \X {"VOLUNTARY", "BILLING_RETRY", "PRICE_INCREASE", "PRODUCT_NOT_FOR_SALE"}
             redeemed == {"OFFER_REDEEMED"} \X {"INITIAL_BUY", "RESUBSCRIBE", "UPGRADE", "DOWNGRADE"}
             increase == {"PRICE_INCREASE"} \X {"PENDING", "ACCEPTED"}
             one(x, y) == {<<x, y>>}
  <1>1. APPLE_EVENT_MAP = UNION {
         Rows(subscribed, "purchase"), Rows(renewed, "renewal"),
         Rows(one("DID_FAIL_TO_RENEW", ""), "billing_retry"),
         Rows(one("DID_FAIL_TO_RENEW", "GRACE_PERIOD"), "grace_period_start"),
         Rows(one("GRACE_PERIOD_EXPIRED", ""), "grace_period_end"),
         Rows(one("DID_CHANGE_RENEWAL_STATUS", "AUTO_RENEW_DISABLED"), "cancellation"),
         Rows(one("DID_CHANGE_RENEWAL_STATUS", "AUTO_RENEW_ENABLED"), "resume"),
         Rows(expired, "expiration"), Rows(one("REFUND", ""), "refund"), Rows(one("REVOKE", ""), "revoke"),
         Rows(redeemed, "offer_redeemed"), Rows(increase, "price_change")}
    BY DEF APPLE_EVENT_MAP
  <1>0. PICK k : k = <<a, b>>
    OBVIOUS
  <1>2. /\ k \in subscribed => a = "SUBSCRIBED"
        /\ k \in renewed => a \in {"DID_RENEW", "RENEWAL_EXTENDED"}
        /\ k \in expired => a = "EXPIRED"
        /\ k \in redeemed => a = "OFFER_REDEEMED"
        /\ k \in increase => a = "PRICE_INCREASE"
        /\ \A x, y : k \in one(x, y) => a = x
        /\ \A x, y : k \in one(x, y) => b = y
    BY <1>0
  <1> HIDE DEF subscribed, renewed, expired, redeemed, increase, one
  <1>3. \/ row \in Rows(subscribed, "purchase")
        \/ row \in Rows(renewed, "renewal")
        \/ row \in Rows(one("DID_FAIL_TO_RENEW", ""), "billing_retry")
        \/ row \in Rows(one("DID_FAIL_TO_RENEW", "GRACE_PERIOD"), "grace_period_start")
        \/ row \in Rows(one("GRACE_PERIOD_EXPIRED", ""), "grace_period_end")
        \/ row \in Rows(one("DID_CHANGE_RENEWAL_STATUS", "AUTO_RENEW_DISABLED"), "cancellation")
        \/ row \in Rows(one("DID_CHANGE_RENEWAL_STATUS", "AUTO_RENEW_ENABLED"), "resume")
        \/ row \in Rows(expired, "expiration")
        \/ row \in Rows(one("REFUND", ""), "refund")
        \/ row \in Rows(one("REVOKE", ""), "revoke")
        \/ row \in Rows(redeemed, "offer_redeemed")
        \/ row \in Rows(increase, "price_change")
    BY <1>1
  <1>4. \A keys, type : row \in Rows(keys, type) => k \in keys /\ row[2] = type
    BY <1>0, RowsAre
  <1>5. CASE row \in Rows(subscribed, "purchase")
    BY <1>2, <1>4, <1>5
  <1>6. CASE row \in Rows(renewed, "renewal")
    BY <1>2, <1>4, <1>6
  <1>7. CASE row \in Rows(one("DID_FAIL_TO_RENEW", ""), "billing_retry")
    <2>1. k \in one("DID_FAIL_TO_RENEW", "")
      BY <1>4, <1>7
    <2>2. a = "DID_FAIL_TO_RENEW"
      BY <1>2, <2>1
    <2>3. b = ""
      BY <1>2, <2>1
    <2> QED BY <1>4, <1>7, <2>2, <2>3
  <1>8. CASE row \in Rows(one("DID_FAIL_TO_RENEW", "GRACE_PERIOD"), "grace_period_start")
    <2>1. k \in one("DID_FAIL_TO_RENEW", "GRACE_PERIOD")
      BY <1>4, <1>8
    <2>2. a = "DID_FAIL_TO_RENEW"
      BY <1>2, <2>1
    <2>3. b = "GRACE_PERIOD"
      BY <1>2, <2>1
    <2> QED BY <1>4, <1>8, <2>2, <2>3
  <1>9. CASE row \in Rows(one("GRACE_PERIOD_EXPIRED", ""), "grace_period_end")
    BY <1>2, <1>4, <1>9
  <1>10. CASE row \in Rows(one("DID_CHANGE_RENEWAL_STATUS", "AUTO_RENEW_DISABLED"), "cancellation")
    <2>1. k \in one("DID_CHANGE_RENEWAL_STATUS", "AUTO_RENEW_DISABLED")
      BY <1>4, <1>10
    <2>2. a = "DID_CHANGE_RENEWAL_STATUS"
      BY <1>2, <2>1
    <2>3. b = "AUTO_RENEW_DISABLED"
      BY <1>2, <2>1
    <2> QED BY <1>4, <1>10, <2>2, <2>3
  <1>11. CASE row \in Rows(one("DID_CHANGE_RENEWAL_STATUS", "AUTO_RENEW_ENABLED"), "resume")
    <2>1. k \in one("DID_CHANGE_RENEWAL_STATUS", "AUTO_RENEW_ENABLED")
      BY <1>4, <1>11
    <2>2. a = "DID_CHANGE_RENEWAL_STATUS"
      BY <1>2, <2>1
    <2>3. b = "AUTO_RENEW_ENABLED"
      BY <1>2, <2>1
    <2> QED BY <1>4, <1>11, <2>2, <2>3
  <1>12. CASE row \in Rows(expired, "expiration")
    BY <1>2, <1>4, <1>12
  <1>13. CASE row \in Rows(one("REFUND", ""), "refund")
    BY <1>2, <1>4, <1>13
  <1>14. CASE row \in Rows(one("REVOKE", ""), "revoke")
    BY <1>2, <1>4, <1>14
  <1>15. CASE row \in Rows(redeemed, "offer_redeemed")
    BY <1>2, <1>4, <1>15
  <1>16. CASE row \in Rows(increase, "price_change")
    BY <1>2, <1>4, <1>16
  <1> QED BY <1>3, <1>5, <1>6, <1>7, <1>8, <1>9, <1>10, <1>11, <1>12, <1>13, <1>14, <1>15, <1>16

\* What a notification of Google makes of a state.
LEMMA GoogleAfter ==
  ASSUME NEW s, world[s].source = "google", NEW change \in DOMAIN GoogleTypes, NEW token, NEW e
  PROVE  /\ HasProduct(s, GoogleSubscription(s, GoogleTypes[change], token))
         /\ After(s, GoogleSubscription(s, GoogleTypes[change], token), e) = Move(e, GoogleEvents[change])
         /\ ~HasProduct(s, GoogleVoided(s, token))
  <1>1. \A k \in {"RECOVERED", "RENEWED", "CANCELED", "PURCHASED", "ON_HOLD", "IN_GRACE_PERIOD",
                  "RESTARTED", "PRICE_CHANGE_CONFIRMED", "PAUSED", "REVOKED", "EXPIRED"} :
          Sole(SUBSCRIPTION_NOTIFICATION_MAP, k,
               CASE k \in {"RECOVERED", "RENEWED"} -> "renewal"
                 [] k = "CANCELED" -> "cancellation" [] k = "PURCHASED" -> "purchase"
                 [] k = "ON_HOLD" -> "billing_retry" [] k = "IN_GRACE_PERIOD" -> "grace_period_start"
                 [] k = "RESTARTED" -> "resume" [] k = "PRICE_CHANGE_CONFIRMED" -> "price_change"
                 [] k = "PAUSED" -> "pause" [] k = "REVOKED" -> "revoke" [] k = "EXPIRED" -> "expiration")
    BY RowsAre, InRows DEF SUBSCRIPTION_NOTIFICATION_MAP, Sole
  <1>2. PICK k : k = GoogleTypes[change]
    OBVIOUS
  <1>3. Sole(SUBSCRIPTION_NOTIFICATION_MAP, k, GoogleEvents[change])
    BY <1>1, <1>2 DEF GoogleTypes, GoogleEvents
  <1>4. LookUp(SUBSCRIPTION_NOTIFICATION_MAP, k) = <<GoogleEvents[change]>>
    BY <1>3, LookedUp
  <1>5. PICK n : n = GoogleSubscription(s, k, token)
    OBVIOUS
  <1>6. n.kind = "subscription" /\ n.type = k /\ GoogleVoided(s, token).kind = "voided"
    BY <1>5 DEF GoogleSubscription, GoogleVoided
  <1>7. HasProduct(s, n) /\ ~HasProduct(s, GoogleVoided(s, token))
    BY <1>6 DEF HasProduct, GoogleHasProduct
  <1>8. Normalize(s, n) = <<GoogleEvents[change]>>
    BY <1>4, <1>6 DEF Normalize, GoogleNormalize
  <1> QED BY <1>2, <1>5, <1>7, <1>8, FewMoves DEF After

\* One notification is sent, and it is of an event of this type.
Heard(s, sent, type) == \E n : sent = <<n>> /\ \A e : After(s, n, e) = Move(e, type)

\* What a change sends at Apple, and what it makes of a state.
LEMMA AppleAfter ==
  ASSUME NEW s, world[s].source = "apple", NEW change, NEW old
  PROVE  /\ AppleSends(s, change, old) # <<>> =>
              /\ change \in DOMAIN AppleEvents
              /\ Heard(s, AppleSends(s, change, old), AppleEvents[change])
         /\ \A n : HasProduct(s, n)
         /\ \A e : After(s, [of |-> s, type |-> <<"REFUND", "">>], e) = Move(e, "refund")
  <1> DEFINE sent(type, subtype) == [of |-> s, type |-> <<type, subtype>>]
  <1>0. \A n : HasProduct(s, n)
    BY DEF HasProduct, AppleHasProduct
  <1>1. ASSUME NEW type, NEW subtype, NEW event, Sole(APPLE_EVENT_MAP, <<type, subtype>>, event), NEW e
        PROVE  After(s, sent(type, subtype), e) = Move(e, event)
    <2>1. LookUp(APPLE_EVENT_MAP, <<type, subtype>>) = <<event>>
      BY <1>1, LookedUp
    <2>2. Normalize(s, sent(type, subtype)) = <<event>>
      BY <2>1 DEF Normalize, AppleNormalize
    <2> QED BY <1>0, <2>2, FewMoves DEF After
  <1> DEFINE heard(type, subtype, event) == \A e : After(s, sent(type, subtype), e) = Move(e, event)
  <1> HIDE DEF sent, heard
  <1>7. ASSUME NEW type, NEW subtype, NEW event, Sole(APPLE_EVENT_MAP, <<type, subtype>>, event)
        PROVE  heard(type, subtype, event)
    BY <1>1, <1>7 DEF heard
  <1>2. /\ heard("SUBSCRIBED", "INITIAL_BUY", "purchase")
        /\ heard("SUBSCRIBED", "RESUBSCRIBE", "purchase")
        /\ heard("OFFER_REDEEMED", "INITIAL_BUY", "offer_redeemed")
        /\ heard("DID_RENEW", "", "renewal")
        /\ heard("DID_FAIL_TO_RENEW", "", "billing_retry")
        /\ heard("DID_FAIL_TO_RENEW", "GRACE_PERIOD", "grace_period_start")
        /\ heard("GRACE_PERIOD_EXPIRED", "", "grace_period_end")
        /\ heard("DID_RENEW", "BILLING_RECOVERY", "renewal")
        /\ heard("DID_CHANGE_RENEWAL_STATUS", "AUTO_RENEW_DISABLED", "cancellation")
        /\ heard("DID_CHANGE_RENEWAL_STATUS", "AUTO_RENEW_ENABLED", "resume")
        /\ heard("PRICE_INCREASE", "ACCEPTED", "price_change")
        /\ heard("EXPIRED", "VOLUNTARY", "expiration")
        /\ heard("REVOKE", "", "revoke")
        /\ heard("REFUND", "", "refund")
    <2> DEFINE event(a, b) ==
          CASE a = "SUBSCRIBED" -> "purchase"
            [] a = "OFFER_REDEEMED" -> "offer_redeemed"
            [] a = "DID_RENEW" -> "renewal"
            [] a = "DID_FAIL_TO_RENEW" -> IF b = "" THEN "billing_retry" ELSE "grace_period_start"
            [] a = "GRACE_PERIOD_EXPIRED" -> "grace_period_end"
            [] a = "DID_CHANGE_RENEWAL_STATUS" -> IF b = "AUTO_RENEW_DISABLED" THEN "cancellation" ELSE "resume"
            [] a = "PRICE_INCREASE" -> "price_change"
            [] a = "EXPIRED" -> "expiration"
            [] a = "REVOKE" -> "revoke"
            [] a = "REFUND" -> "refund"
    <2>0. ASSUME NEW row \in APPLE_EVENT_MAP, NEW a, NEW b, row[1] = <<a, b>>, a # "RENEWAL_EXTENDED"
          PROVE  row[2] = event(a, b)
      BY <2>0, AppleRows
    <2> HIDE DEF event
    <2>1. ASSUME NEW a, NEW b, a # "RENEWAL_EXTENDED", <<<<a, b>>, event(a, b)>> \in APPLE_EVENT_MAP
          PROVE  Sole(APPLE_EVENT_MAP, <<a, b>>, event(a, b))
      BY <2>0, <2>1 DEF Sole
    <2>2. heard("SUBSCRIBED", "INITIAL_BUY", "purchase")
      <3>1. event("SUBSCRIBED", "INITIAL_BUY") = "purchase"
        BY DEF event
      <3>2. <<<<"SUBSCRIBED", "INITIAL_BUY">>, "purchase">> \in APPLE_EVENT_MAP
        BY InRows DEF APPLE_EVENT_MAP
      <3> QED BY <1>7, <2>1, <3>1, <3>2
    <2>3. heard("SUBSCRIBED", "RESUBSCRIBE", "purchase")
      <3>1. event("SUBSCRIBED", "RESUBSCRIBE") = "purchase"
        BY DEF event
      <3>2. <<<<"SUBSCRIBED", "RESUBSCRIBE">>, "purchase">> \in APPLE_EVENT_MAP
        BY InRows DEF APPLE_EVENT_MAP
      <3> QED BY <1>7, <2>1, <3>1, <3>2
    <2>4. heard("OFFER_REDEEMED", "INITIAL_BUY", "offer_redeemed")
      <3>1. event("OFFER_REDEEMED", "INITIAL_BUY") = "offer_redeemed"
        BY DEF event
      <3>2. <<<<"OFFER_REDEEMED", "INITIAL_BUY">>, "offer_redeemed">> \in APPLE_EVENT_MAP
        BY InRows DEF APPLE_EVENT_MAP
      <3> QED BY <1>7, <2>1, <3>1, <3>2
    <2>5. heard("DID_RENEW", "", "renewal")
      <3>1. event("DID_RENEW", "") = "renewal"
        BY DEF event
      <3>2. <<<<"DID_RENEW", "">>, "renewal">> \in APPLE_EVENT_MAP
        BY InRows DEF APPLE_EVENT_MAP
      <3> QED BY <1>7, <2>1, <3>1, <3>2
    <2>6. heard("DID_FAIL_TO_RENEW", "", "billing_retry")
      <3>1. event("DID_FAIL_TO_RENEW", "") = "billing_retry"
        BY DEF event
      <3>2. <<<<"DID_FAIL_TO_RENEW", "">>, "billing_retry">> \in APPLE_EVENT_MAP
        BY InRows DEF APPLE_EVENT_MAP
      <3> QED BY <1>7, <2>1, <3>1, <3>2
    <2>7. heard("DID_FAIL_TO_RENEW", "GRACE_PERIOD", "grace_period_start")
      <3>1. event("DID_FAIL_TO_RENEW", "GRACE_PERIOD") = "grace_period_start"
        BY DEF event
      <3>2. <<<<"DID_FAIL_TO_RENEW", "GRACE_PERIOD">>, "grace_period_start">> \in APPLE_EVENT_MAP
        BY InRows DEF APPLE_EVENT_MAP
      <3> QED BY <1>7, <2>1, <3>1, <3>2
    <2>8. heard("GRACE_PERIOD_EXPIRED", "", "grace_period_end")
      <3>1. event("GRACE_PERIOD_EXPIRED", "") = "grace_period_end"
        BY DEF event
      <3>2. <<<<"GRACE_PERIOD_EXPIRED", "">>, "grace_period_end">> \in APPLE_EVENT_MAP
        BY InRows DEF APPLE_EVENT_MAP
      <3> QED BY <1>7, <2>1, <3>1, <3>2
    <2>9. heard("DID_RENEW", "BILLING_RECOVERY", "renewal")
      <3>1. event("DID_RENEW", "BILLING_RECOVERY") = "renewal"
        BY DEF event
      <3>2. <<<<"DID_RENEW", "BILLING_RECOVERY">>, "renewal">> \in APPLE_EVENT_MAP
        BY InRows DEF APPLE_EVENT_MAP
      <3> QED BY <1>7, <2>1, <3>1, <3>2
    <2>10. heard("DID_CHANGE_RENEWAL_STATUS", "AUTO_RENEW_DISABLED", "cancellation")
      <3>1. event("DID_CHANGE_RENEWAL_STATUS", "AUTO_RENEW_DISABLED") = "cancellation"
        BY DEF event
      <3>2. <<<<"DID_CHANGE_RENEWAL_STATUS", "AUTO_RENEW_DISABLED">>, "cancellation">> \in APPLE_EVENT_MAP
        BY InRows DEF APPLE_EVENT_MAP
      <3> QED BY <1>7, <2>1, <3>1, <3>2
    <2>11. heard("DID_CHANGE_RENEWAL_STATUS", "AUTO_RENEW_ENABLED", "resume")
      <3>1. event("DID_CHANGE_RENEWAL_STATUS", "AUTO_RENEW_ENABLED") = "resume"
        BY DEF event
      <3>2. <<<<"DID_CHANGE_RENEWAL_STATUS", "AUTO_RENEW_ENABLED">>, "resume">> \in APPLE_EVENT_MAP
        BY InRows DEF APPLE_EVENT_MAP
      <3> QED BY <1>7, <2>1, <3>1, <3>2
    <2>12. heard("PRICE_INCREASE", "ACCEPTED", "price_change")
      <3>1. event("PRICE_INCREASE", "ACCEPTED") = "price_change"
        BY DEF event
      <3>2. <<<<"PRICE_INCREASE", "ACCEPTED">>, "price_change">> \in APPLE_EVENT_MAP
        BY InRows DEF APPLE_EVENT_MAP
      <3> QED BY <1>7, <2>1, <3>1, <3>2
    <2>13. heard("EXPIRED", "VOLUNTARY", "expiration")
      <3>1. event("EXPIRED", "VOLUNTARY") = "expiration"
        BY DEF event
      <3>2. <<<<"EXPIRED", "VOLUNTARY">>, "expiration">> \in APPLE_EVENT_MAP
        BY InRows DEF APPLE_EVENT_MAP
      <3> QED BY <1>7, <2>1, <3>1, <3>2
    <2>14. heard("REVOKE", "", "revoke")
      <3>1. event("REVOKE", "") = "revoke"
        BY DEF event
      <3>2. <<<<"REVOKE", "">>, "revoke">> \in APPLE_EVENT_MAP
        BY InRows DEF APPLE_EVENT_MAP
      <3> QED BY <1>7, <2>1, <3>1, <3>2
    <2>15. heard("REFUND", "", "refund")
      <3>1. event("REFUND", "") = "refund"
        BY DEF event
      <3>2. <<<<"REFUND", "">>, "refund">> \in APPLE_EVENT_MAP
        BY InRows DEF APPLE_EVENT_MAP
      <3> QED BY <1>7, <2>1, <3>1, <3>2
    <2> QED BY <2>2, <2>3, <2>4, <2>5, <2>6, <2>7, <2>8, <2>9, <2>10, <2>11, <2>12, <2>13, <2>14, <2>15
  <1>3. AppleSends(s, change, old) # <<>> => change \in DOMAIN AppleEvents
    BY DEF AppleSends, AppleEvents
  <1>4. ASSUME AppleSends(s, change, old) # <<>>
        PROVE  \E type, subtype : /\ AppleSends(s, change, old) = <<sent(type, subtype)>>
                                  /\ heard(type, subtype, AppleEvents[change])
    <2>1. \A type, subtype : [of |-> s, type |-> <<type, subtype>>] = sent(type, subtype)
      BY DEF sent
    <2>2. CASE change = "Buy" /\ old.status = "none"
      <3>1. AppleSends(s, change, old) = <<sent("SUBSCRIBED", "INITIAL_BUY")>>
        BY <2>2 DEF AppleSends, sent
      <3>2. AppleEvents[change] = "purchase"
        BY <2>2 DEF AppleEvents
      <3> QED BY <1>2, <3>1, <3>2
    <2>3. CASE change = "Buy" /\ old.status # "none"
      <3>1. AppleSends(s, change, old) = <<sent("SUBSCRIBED", "RESUBSCRIBE")>>
        BY <2>3 DEF AppleSends, sent
      <3>2. AppleEvents[change] = "purchase"
        BY <2>3 DEF AppleEvents
      <3> QED BY <1>2, <3>1, <3>2
    <2>4. CASE change = "Try"
      <3>1. AppleSends(s, change, old) = <<sent("OFFER_REDEEMED", "INITIAL_BUY")>>
        BY <2>4 DEF AppleSends, sent
      <3>2. AppleEvents[change] = "offer_redeemed"
        BY <2>4 DEF AppleEvents
      <3> QED BY <1>2, <3>1, <3>2
    <2>5. CASE change \in {"Renew", "Convert"}
      <3>1. AppleSends(s, change, old) = <<sent("DID_RENEW", "")>>
        BY <2>5 DEF AppleSends, sent
      <3>2. AppleEvents[change] = "renewal"
        BY <2>5 DEF AppleEvents
      <3> QED BY <1>2, <3>1, <3>2
    <2>6. CASE change = "Fail"
      <3>1. AppleSends(s, change, old) = <<sent("DID_FAIL_TO_RENEW", "")>>
        BY <2>6 DEF AppleSends, sent
      <3>2. AppleEvents[change] = "billing_retry"
        BY <2>6 DEF AppleEvents
      <3> QED BY <1>2, <3>1, <3>2
    <2>7. CASE change = "FailWithGrace"
      <3>1. AppleSends(s, change, old) = <<sent("DID_FAIL_TO_RENEW", "GRACE_PERIOD")>>
        BY <2>7 DEF AppleSends, sent
      <3>2. AppleEvents[change] = "grace_period_start"
        BY <2>7 DEF AppleEvents
      <3> QED BY <1>2, <3>1, <3>2
    <2>8. CASE change = "GraceEnds"
      <3>1. AppleSends(s, change, old) = <<sent("GRACE_PERIOD_EXPIRED", "")>>
        BY <2>8 DEF AppleSends, sent
      <3>2. AppleEvents[change] = "grace_period_end"
        BY <2>8 DEF AppleEvents
      <3> QED BY <1>2, <3>1, <3>2
    <2>9. CASE change = "Recover"
      <3>1. AppleSends(s, change, old) = <<sent("DID_RENEW", "BILLING_RECOVERY")>>
        BY <2>9 DEF AppleSends, sent
      <3>2. AppleEvents[change] = "renewal"
        BY <2>9 DEF AppleEvents
      <3> QED BY <1>2, <3>1, <3>2
    <2>10. CASE change = "TurnOff"
      <3>1. AppleSends(s, change, old) = <<sent("DID_CHANGE_RENEWAL_STATUS", "AUTO_RENEW_DISABLED")>>
        BY <2>10 DEF AppleSends, sent
      <3>2. AppleEvents[change] = "cancellation"
        BY <2>10 DEF AppleEvents
      <3> QED BY <1>2, <3>1, <3>2
    <2>11. CASE change = "TurnOn"
      <3>1. AppleSends(s, change, old) = <<sent("DID_CHANGE_RENEWAL_STATUS", "AUTO_RENEW_ENABLED")>>
        BY <2>11 DEF AppleSends, sent
      <3>2. AppleEvents[change] = "resume"
        BY <2>11 DEF AppleEvents
      <3> QED BY <1>2, <3>1, <3>2
    <2>12. CASE change = "ChangePlan"
      <3>1. AppleSends(s, change, old) = <<sent("PRICE_INCREASE", "ACCEPTED")>>
        BY <2>12 DEF AppleSends, sent
      <3>2. AppleEvents[change] = "price_change"
        BY <2>12 DEF AppleEvents
      <3> QED BY <1>2, <3>1, <3>2
    <2>13. CASE change = "End"
      <3>1. AppleSends(s, change, old) = <<sent("EXPIRED", "VOLUNTARY")>>
        BY <2>13 DEF AppleSends, sent
      <3>2. AppleEvents[change] = "expiration"
        BY <2>13 DEF AppleEvents
      <3> QED BY <1>2, <3>1, <3>2
    <2>14. CASE change = "Revoke"
      <3>1. AppleSends(s, change, old) = <<sent("REVOKE", "")>>
        BY <2>14 DEF AppleSends, sent
      <3>2. AppleEvents[change] = "revoke"
        BY <2>14 DEF AppleEvents
      <3> QED BY <1>2, <3>1, <3>2
    <2> QED BY <1>3, <1>4, <2>2, <2>3, <2>4, <2>5, <2>6, <2>7, <2>8, <2>9, <2>10, <2>11, <2>12, <2>13,
      <2>14 DEF AppleEvents
  <1>5. [of |-> s, type |-> <<"REFUND", "">>] = sent("REFUND", "")
    BY DEF sent
  <1>6. \A e : After(s, sent("REFUND", ""), e) = Move(e, "refund")
    BY <1>2 DEF heard
  <1>8. AppleSends(s, change, old) # <<>> => Heard(s, AppleSends(s, change, old), AppleEvents[change])
    BY <1>4 DEF heard, Heard
  <1> QED BY <1>0, <1>3, <1>5, <1>6, <1>8

\* Two sequences are the same when they have the same members.
LEMMA SameSequence ==
  ASSUME NEW q, NEW r, IsSequence(q), IsSequence(r), Len(q) = Len(r), \A i \in 1..Len(q) : q[i] = r[i]
  PROVE  q = r
  <1> DEFINE C == {q[i] : i \in DOMAIN q} \cup {r[i] : i \in DOMAIN r}
  <1>1. q \in Seq(C) /\ r \in Seq(C)
    BY SeqDef DEF IsSequence
  <1> HIDE DEF C
  <1> QED BY <1>1

\* A sequence with one more, with two and with three.
One(q, a) == q \o <<a>>

Two(q, a, b) == q \o <<a, b>>

Three(q, a, b, c) == q \o <<a, b, c>>

LEMMA More ==
  ASSUME NEW q, IsSequence(q), NEW a, NEW b, NEW c
  PROVE  /\ IsSequence(One(q, a)) /\ Two(q, a, b) = One(One(q, a), b)
         /\ Three(q, a, b, c) = One(Two(q, a, b), c)
  <1>1. ASSUME NEW d PROVE IsSequence(<<d>>) /\ Len(<<d>>) = 1 /\ <<d>>[1] = d
    <2>1. <<d>> \in Seq({d})
      OBVIOUS
    <2> QED BY <2>1, SequencesAre
  <1>2. IsSequence(<<a, b>>) /\ Len(<<a, b>>) = 2 /\ <<a, b>>[1] = a /\ <<a, b>>[2] = b
    <2>1. <<a, b>> \in Seq({a, b})
      OBVIOUS
    <2> QED BY <2>1, SequencesAre
  <1>3. /\ IsSequence(<<a, b, c>>) /\ Len(<<a, b, c>>) = 3
        /\ <<a, b, c>>[1] = a /\ <<a, b, c>>[2] = b /\ <<a, b, c>>[3] = c
    <2>1. <<a, b, c>> \in Seq({a, b, c})
      OBVIOUS
    <2> QED BY <2>1, SequencesAre
  <1>4. PICK one, two, three, x, y, z :
          /\ one = <<a>> /\ two = <<b>> /\ three = <<c>>
          /\ x = q \o one /\ y = x \o two /\ z = y \o three
    OBVIOUS
  <1>5. PICK n \in Nat : n = Len(q)
    BY <1>1, Joined
  <1>6. /\ IsSequence(one) /\ IsSequence(two) /\ IsSequence(three)
        /\ Len(one) = 1 /\ Len(two) = 1 /\ Len(three) = 1
        /\ one[1] = a /\ two[1] = b /\ three[1] = c
    BY <1>1, <1>4
  <1>7. /\ IsSequence(x) /\ Len(x) = n + 1
        /\ \A i \in 1..(n + 1) : x[i] = IF i <= n THEN q[i] ELSE one[i - n]
    <2>1. /\ IsSequence(x) /\ Len(x) = Len(q) + Len(one)
          /\ \A i \in 1..Len(x) : x[i] = IF i <= Len(q) THEN q[i] ELSE one[i - Len(q)]
      BY <1>4, <1>6, Joined
    <2> QED BY <1>5, <1>6, <2>1
  <1>8. /\ IsSequence(y) /\ Len(y) = n + 2
        /\ \A i \in 1..(n + 2) : y[i] = IF i <= n + 1 THEN x[i] ELSE two[i - (n + 1)]
    <2>1. /\ IsSequence(y) /\ Len(y) = Len(x) + Len(two)
          /\ \A i \in 1..Len(y) : y[i] = IF i <= Len(x) THEN x[i] ELSE two[i - Len(x)]
      <3>1. y = x \o two
        BY <1>4
      <3>2. IsSequence(x) /\ IsSequence(two)
        BY <1>6, <1>7
      <3> QED BY <3>1, <3>2, Joined
    <2> QED BY <1>6, <1>7, <2>1
  <1>9. /\ IsSequence(z) /\ Len(z) = n + 3
        /\ \A i \in 1..(n + 3) : z[i] = IF i <= n + 2 THEN y[i] ELSE three[i - (n + 2)]
    <2>1. /\ IsSequence(z) /\ Len(z) = Len(y) + Len(three)
          /\ \A i \in 1..Len(z) : z[i] = IF i <= Len(y) THEN y[i] ELSE three[i - Len(y)]
      <3>1. z = y \o three
        BY <1>4
      <3>2. IsSequence(y) /\ IsSequence(three)
        BY <1>6, <1>8
      <3> QED BY <3>1, <3>2, Joined
    <2> QED BY <1>6, <1>8, <2>1
  <1>10. PICK p, t : p = <<a, b>> /\ t = <<a, b, c>>
    OBVIOUS
  <1>11. q \o p = y
    <2>1. PICK r : r = q \o p
      OBVIOUS
    <2>2. /\ IsSequence(r) /\ Len(r) = Len(q) + Len(p)
          /\ \A i \in 1..Len(r) : r[i] = IF i <= Len(q) THEN q[i] ELSE p[i - Len(q)]
      BY <1>2, <1>10, <2>1, Joined
    <2>3. Len(r) = n + 2 /\ \A i \in 1..(n + 2) : r[i] = IF i <= n THEN q[i] ELSE p[i - n]
      BY <1>2, <1>5, <1>10, <2>2
    <2>4. ASSUME NEW i \in 1..(n + 2) PROVE r[i] = y[i]
      <3>1. CASE i <= n
        BY <1>7, <1>8, <2>3, <3>1
      <3>2. CASE i = n + 1
        BY <1>2, <1>6, <1>7, <1>8, <1>10, <2>3, <3>2
      <3>3. CASE i = n + 2
        BY <1>2, <1>6, <1>8, <1>10, <2>3, <3>3
      <3> QED BY <3>1, <3>2, <3>3
    <2> QED BY <1>8, <2>1, <2>2, <2>3, <2>4, SameSequence
  <1>12. q \o t = z
    <2>1. PICK r : r = q \o t
      OBVIOUS
    <2>2. /\ IsSequence(r) /\ Len(r) = Len(q) + Len(t)
          /\ \A i \in 1..Len(r) : r[i] = IF i <= Len(q) THEN q[i] ELSE t[i - Len(q)]
      BY <1>3, <1>10, <2>1, Joined
    <2>3. Len(r) = n + 3 /\ \A i \in 1..(n + 3) : r[i] = IF i <= n THEN q[i] ELSE t[i - n]
      BY <1>3, <1>5, <1>10, <2>2
    <2>4. ASSUME NEW i \in 1..(n + 3) PROVE r[i] = z[i]
      <3>1. CASE i <= n
        BY <1>7, <1>8, <1>9, <2>3, <3>1
      <3>2. CASE i = n + 1
        BY <1>3, <1>6, <1>7, <1>8, <1>9, <1>10, <2>3, <3>2
      <3>3. CASE i = n + 2
        BY <1>3, <1>6, <1>8, <1>9, <1>10, <2>3, <3>3
      <3>4. CASE i = n + 3
        BY <1>3, <1>6, <1>9, <1>10, <2>3, <3>4
      <3> QED BY <3>1, <3>2, <3>3, <3>4
    <2> QED BY <1>9, <2>1, <2>2, <2>3, <2>4, SameSequence
  <1>13. x = One(q, a) /\ y = One(x, b) /\ z = One(y, c)
    BY <1>4 DEF One
  <1>14. y = Two(q, a, b) /\ z = Three(q, a, b, c)
    BY <1>10, <1>11, <1>12 DEF Two, Three
  <1> QED BY <1>7, <1>13, <1>14

\* What a notification of Stripe makes of a state.
StripeNote(s, object, type) == [of |-> s, type |-> type, object |-> object]

LEMMA StripeAfter ==
  ASSUME NEW s, world[s].source = "stripe", NEW e
  PROVE  /\ After(s, StripeNote(s, "session", "checkout.session.completed"), e) = e
         /\ After(s, StripeNote(s, "charge", "charge.refunded"), e) = e
         /\ After(s, StripeNote(s, "subscription", "customer.subscription.created"), e) = Move(e, "purchase")
         /\ After(s, StripeNote(s, "invoice", "invoice.payment_succeeded"), e) = Move(e, "renewal")
         /\ After(s, StripeNote(s, "invoice", "invoice.payment_failed"), e) = Move(e, "billing_retry")
         /\ After(s, StripeNote(s, "subscription", "customer.subscription.paused"), e) = Move(e, "pause")
         /\ After(s, StripeNote(s, "subscription", "customer.subscription.resumed"), e) = Move(e, "resume")
         /\ After(s, StripeNote(s, "subscription", "customer.subscription.deleted"), e) =
              Move(e, "expiration")
  <1>1. ASSUME NEW object, NEW type, object \notin {"subscription", "invoice"}
        PROVE  After(s, StripeNote(s, object, type), e) = e
    BY <1>1 DEF After, HasProduct, StripeHasProduct, StripeNote
  <1>2. ASSUME NEW object \in {"subscription", "invoice"}, NEW type, NEW event,
               type # "customer.subscription.updated", Sole(STRIPE_EVENT_MAP, type, event)
        PROVE  After(s, StripeNote(s, object, type), e) = Move(e, event)
    <2>1. LookUp(STRIPE_EVENT_MAP, type) = <<event>>
      BY <1>2, LookedUp
    <2>2. Normalize(s, StripeNote(s, object, type)) = <<event>>
      BY <1>2, <2>1 DEF Normalize, StripeNormalize, StripeNote
    <2>3. HasProduct(s, StripeNote(s, object, type))
      BY <1>2 DEF HasProduct, StripeHasProduct, StripeNote
    <2> QED BY <2>2, <2>3, FewMoves DEF After
  <1>3. /\ Sole(STRIPE_EVENT_MAP, "customer.subscription.created", "purchase")
        /\ Sole(STRIPE_EVENT_MAP, "invoice.payment_succeeded", "renewal")
        /\ Sole(STRIPE_EVENT_MAP, "invoice.payment_failed", "billing_retry")
        /\ Sole(STRIPE_EVENT_MAP, "customer.subscription.paused", "pause")
        /\ Sole(STRIPE_EVENT_MAP, "customer.subscription.resumed", "resume")
        /\ Sole(STRIPE_EVENT_MAP, "customer.subscription.deleted", "expiration")
    BY RowsAre, InRows DEF STRIPE_EVENT_MAP, Sole
  <1>4. /\ After(s, StripeNote(s, "session", "checkout.session.completed"), e) = e
        /\ After(s, StripeNote(s, "charge", "charge.refunded"), e) = e
        /\ After(s, StripeNote(s, "subscription", "customer.subscription.created"), e) = Move(e, "purchase")
        /\ After(s, StripeNote(s, "invoice", "invoice.payment_succeeded"), e) = Move(e, "renewal")
        /\ After(s, StripeNote(s, "invoice", "invoice.payment_failed"), e) = Move(e, "billing_retry")
        /\ After(s, StripeNote(s, "subscription", "customer.subscription.paused"), e) = Move(e, "pause")
        /\ After(s, StripeNote(s, "subscription", "customer.subscription.resumed"), e) = Move(e, "resume")
        /\ After(s, StripeNote(s, "subscription", "customer.subscription.deleted"), e) = Move(e, "expiration")
    BY <1>1, <1>2, <1>3
  <1> QED BY <1>4

\* An update of a subscription may hold two events.
LEMMA StripeUpdatedAfter ==
  ASSUME NEW s, world[s].source = "stripe", NEW old \in Sub, NEW new \in Sub,
         NEW e \in States, e # "paused"
  PROVE  /\ After(s, StripeUpdated(s, old, new, {"status"}), e) =
              IF new.status = "past_due" THEN Move(e, "billing_retry")
              ELSE IF new.status = "active" /\ old.status = "trialing" THEN Move(e, "trial_conversion")
              ELSE e
         /\ After(s, StripeUpdated(s, old, new, {"cancel"}), e) = e
         /\ After(s, StripeUpdated(s, old, new, {"price"}), e) = e
  <1>1. ASSUME NEW a, NEW b
        PROVE  /\ <<>> \o <<>> = <<>> /\ <<a>> \o <<>> = <<a>>
               /\ <<>> \o <<a>> = <<a>> /\ <<a>> \o <<b>> = <<a, b>>
    <2> DEFINE C == {a, b}
    <2>1. <<>> \in Seq(C) /\ <<a>> \in Seq(C) /\ <<b>> \in Seq(C) /\ <<a, b>> \in Seq(C)
      OBVIOUS
    <2>2. \A q \in Seq(C) : q \o <<>> = q /\ <<>> \o q = q
      OBVIOUS
    <2>3. <<a>> \o <<b>> = <<a, b>>
      <3>0. PICK x, y, z : x = <<a>> /\ y = <<b>> /\ z = <<a, b>>
        OBVIOUS
      <3>1. x \in Seq(C) /\ y \in Seq(C) /\ z \in Seq(C)
        BY <2>1, <3>0
      <3>2. Len(x) = 1 /\ Len(y) = 1 /\ Len(z) = 2 /\ x[1] = a /\ y[1] = b /\ z[1] = a /\ z[2] = b
        BY <3>0
      <3> HIDE DEF C
      <3>3. PICK q : q = x \o y
        OBVIOUS
      <3>4. q \in Seq(C) /\ Len(q) = 2 /\ \A i \in 1..2 : q[i] = IF i <= 1 THEN x[i] ELSE y[i - 1]
        <4>1. IsSequence(x) /\ IsSequence(y)
          BY <3>1, SequencesAre
        <4>2. Len(q) = 2 /\ \A i \in 1..2 : q[i] = IF i <= 1 THEN x[i] ELSE y[i - 1]
          <5>1. /\ Len(q) = Len(x) + Len(y)
                /\ \A i \in 1..Len(q) : q[i] = IF i <= Len(x) THEN x[i] ELSE y[i - Len(x)]
            BY <3>3, <4>1, Joined
          <5> QED BY <3>2, <5>1
        <4> QED BY <3>1, <3>3, <4>2
      <3>5. q[1] = a /\ q[2] = b
        BY <3>2, <3>4
      <3>6. \A i \in 1..2 : q[i] = z[i]
        BY <3>2, <3>5
      <3>7. q = z
        BY <3>1, <3>2, <3>4, <3>6
      <3> QED BY <3>0, <3>3, <3>7
    <2> QED BY <2>1, <2>2, <2>3
  <1>2. Move(e, "cancellation") = e /\ Move(e, "upgrade") = e /\ Move(e, "downgrade") = e
    BY Table
  <1>7. /\ Moves(e, <<>>) = e
        /\ \A a : Moves(e, <<a>>) = Move(e, a)
        /\ \A a : Moves(e, <<"cancellation", a>>) = Move(e, a)
    <2>1. ASSUME NEW a, NEW b
          PROVE  /\ Moves(e, <<>>) = e /\ Moves(e, <<a>>) = Move(e, a)
                 /\ Moves(e, <<a, b>>) = Move(Move(e, a), b)
      BY FewMoves
    <2> QED BY <1>2, <2>1
  <1>3. ASSUME NEW changed
        PROVE  LET n == StripeUpdated(s, old, new, changed) IN
               HasProduct(s, n) /\ Normalize(s, n) = StripeUpdate(n) /\ n.now = new
               /\ DOMAIN n.prev = changed /\ \A a \in changed : n.prev[a] = old[a]
    BY DEF HasProduct, StripeHasProduct, Normalize, StripeNormalize, StripeUpdated
  <1>4. ASSUME NEW n, n.now = new, HasProduct(s, n), Normalize(s, n) = StripeUpdate(n),
               DOMAIN n.prev = {"status"}, n.prev["status"] = old["status"]
        PROVE  After(s, n, e) = IF new.status = "past_due" THEN Move(e, "billing_retry")
              ELSE IF new.status = "active" /\ old.status = "trialing" THEN Move(e, "trial_conversion")
              ELSE e
    <2>1. StripeUpdate(n) = When(new.cancel, "cancellation")
             \o When(new.status = "past_due", "billing_retry")
             \o When(new.status = "active" /\ old.status = "trialing", "trial_conversion") \o <<>>
      BY <1>4 DEF StripeUpdate, When
    <2>2. StripeUpdate(n) =
            IF new.status = "past_due"
              THEN IF new.cancel THEN <<"cancellation", "billing_retry">> ELSE <<"billing_retry">>
            ELSE IF new.status = "active" /\ old.status = "trialing"
              THEN IF new.cancel THEN <<"cancellation", "trial_conversion">> ELSE <<"trial_conversion">>
            ELSE IF new.cancel THEN <<"cancellation">> ELSE <<>>
      BY <1>1, <2>1 DEF When
    <2>3. After(s, n, e) = Moves(e, StripeUpdate(n))
      BY <1>4 DEF After
    <2>4. CASE new.status = "past_due"
      BY <1>7, <2>2, <2>3, <2>4
    <2>5. CASE new.status # "past_due" /\ new.status = "active" /\ old.status = "trialing"
      BY <1>7, <2>2, <2>3, <2>5
    <2>6. CASE new.status # "past_due" /\ ~(new.status = "active" /\ old.status = "trialing")
      <3>1. StripeUpdate(n) \in {<<"cancellation">>, <<>>}
        BY <2>2, <2>6
      <3> QED BY <1>2, <1>7, <2>3, <2>6, <3>1
    <2> QED BY <2>4, <2>5, <2>6
  <1>5. ASSUME NEW n, n.now = new, HasProduct(s, n), Normalize(s, n) = StripeUpdate(n),
               DOMAIN n.prev = {"cancel"}
        PROVE  After(s, n, e) = e
    <2>1. StripeUpdate(n) = When(new.cancel /\ ~n.prev.cancel, "cancellation") \o <<>> \o <<>> \o <<>>
      BY <1>5 DEF StripeUpdate, When
    <2>2. StripeUpdate(n) \in {<<"cancellation">>, <<>>}
      BY <1>1, <2>1 DEF When
    <2>3. After(s, n, e) = Moves(e, StripeUpdate(n))
      BY <1>5 DEF After
    <2> QED BY <1>2, <1>7, <2>2, <2>3
  <1>6. ASSUME NEW n, n.now = new, HasProduct(s, n), Normalize(s, n) = StripeUpdate(n),
               DOMAIN n.prev = {"price"}
        PROVE  After(s, n, e) = e
    <2>1. StripeUpdate(n) = When(new.cancel, "cancellation") \o <<>> \o <<>>
            \o <<IF new.price > n.prev.price THEN "upgrade" ELSE "downgrade">>
      BY <1>6 DEF StripeUpdate, When
    <2>2. StripeUpdate(n) \in {<<"cancellation", "upgrade">>, <<"cancellation", "downgrade">>,
                               <<"upgrade">>, <<"downgrade">>}
      BY <1>1, <2>1 DEF When
    <2>3. After(s, n, e) = Moves(e, StripeUpdate(n))
      BY <1>6 DEF After
    <2> QED BY <1>2, <1>7, <2>2, <2>3
  <1> QED BY <1>3, <1>4, <1>5, <1>6

\* What is owed after a change at Stripe: by its notifications, one by one.
LEMMA StripeLife ==
  ASSUME NEW old, NEW change, NEW new, <<old, change, new>> \in Life, NEW strange \in BOOLEAN
  PROVE  /\ \A e \in Owed(old, strange) :
              /\ change \in {"Buy", "Try"} => Move(e, "purchase") \in Owed(new, strange)
              /\ change \in {"Renew", "Recover"} => Move(e, "renewal") \in Owed(new, strange)
              /\ change = "Convert" => /\ e # "paused" /\ Move(e, "trial_conversion") \in Owed(new, strange)
                                       /\ old = "trialing" /\ new = "active"
              /\ change = "Fail" => Move(e, "billing_retry") \in Owed(new, strange) /\ new = "past_due"
              /\ change = "Recover" => new = "active" /\ old # "trialing"
              /\ change \in {"TurnOff", "TurnOn", "ChangePlan"} => e # "paused" /\ e \in Owed(new, strange)
              /\ change = "Pause" => Move(e, "pause") \in Owed(new, strange)
              /\ change = "Resume" => Move(e, "resume") \in Owed(new, strange)
              /\ change = "End" => Move(e, "expiration") \in Owed(new, strange)
         /\ \A e \in Owed(new, strange) :
              /\ change \in {"Buy", "Convert"} => Move(e, "renewal") \in Owed(new, strange)
              /\ change \in {"Fail", "Recover"} => e # "paused"
              /\ change = "Fail" => Move(e, "billing_retry") \in Owed(new, strange)
  <1>1. old \in Statuses /\ new \in Statuses
    BY DEF Life, Live, Statuses
  <1>2. Owed(old, strange) \in SUBSET States /\ Owed(new, strange) \in SUBSET States
    BY <1>1, OwedStates
  <1>3. ASSUME NEW e \in Owed(old, strange)
        PROVE /\ change \in {"Buy", "Try"} => Move(e, "purchase") \in Owed(new, strange)
              /\ change \in {"Renew", "Recover"} => Move(e, "renewal") \in Owed(new, strange)
              /\ change = "Convert" => /\ e # "paused" /\ Move(e, "trial_conversion") \in Owed(new, strange)
                                       /\ old = "trialing" /\ new = "active"
              /\ change = "Fail" => Move(e, "billing_retry") \in Owed(new, strange) /\ new = "past_due"
              /\ change = "Recover" => new = "active" /\ old # "trialing"
              /\ change \in {"TurnOff", "TurnOn", "ChangePlan"} => e # "paused" /\ e \in Owed(new, strange)
              /\ change = "Pause" => Move(e, "pause") \in Owed(new, strange)
              /\ change = "Resume" => Move(e, "resume") \in Owed(new, strange)
              /\ change = "End" => Move(e, "expiration") \in Owed(new, strange)
    <2>1. e \in States
      BY <1>2
    <2> QED BY <1>1, <1>3, <2>1, Table DEF Owed, Statuses, Live, Life
  <1>4. ASSUME NEW e \in Owed(new, strange)
        PROVE /\ change \in {"Buy", "Convert"} => Move(e, "renewal") \in Owed(new, strange)
              /\ change \in {"Fail", "Recover"} => e # "paused"
              /\ change = "Fail" => Move(e, "billing_retry") \in Owed(new, strange)
    <2>1. e \in States
      BY <1>2
    <2> QED BY <1>1, <1>4, <2>1, Table DEF Owed, Statuses, Live, Life
  <1> QED BY <1>3, <1>4

\* A notification is told of last; two are, and three.
LEMMA Told ==
  ASSUME NEW s, world[s].source # "google", NEW from, NEW to \in SUBSET States, NEW q, IsSequence(q),
         Leads(s, q, from, to), NEW note, NEW then \in SUBSET States, \A e \in to : After(s, note, e) \in then
  PROVE  Leads(s, One(q, note), from, then)
  BY LeadsWhenTold DEF Bought, One

LEMMA ToldTwo ==
  ASSUME NEW s, world[s].source # "google", NEW q, IsSequence(q), NEW from,
         NEW was \in SUBSET States, NEW mid \in SUBSET States, NEW is \in SUBSET States,
         Leads(s, q, from, was), NEW a, NEW b,
         \A e \in was : After(s, a, e) \in mid, \A e \in mid : After(s, b, e) \in is
  PROVE  Leads(s, Two(q, a, b), from, is)
  <1>1. IsSequence(One(q, a)) /\ Two(q, a, b) = One(One(q, a), b)
    BY More
  <1>2. Leads(s, One(q, a), from, mid)
    BY Told
  <1> QED BY <1>1, <1>2, Told

LEMMA ToldThree ==
  ASSUME NEW s, world[s].source # "google", NEW q, IsSequence(q), NEW from,
         NEW was \in SUBSET States, NEW is \in SUBSET States,
         Leads(s, q, from, was), NEW a, NEW b, NEW c,
         \A e \in was : After(s, a, e) \in was, \A e \in was : After(s, b, e) \in is,
         \A e \in is : After(s, c, e) \in is
  PROVE  Leads(s, Three(q, a, b, c), from, is)
  <1>1. /\ IsSequence(One(q, a)) /\ Two(q, a, b) = One(One(q, a), b)
        /\ Three(q, a, b, c) = One(Two(q, a, b), c)
    BY More
  <1>2. IsSequence(Two(q, a, b))
    BY <1>1, More
  <1>3. Leads(s, One(q, a), from, was)
    BY Told
  <1>4. Leads(s, Two(q, a, b), from, is)
    BY <1>1, <1>3, Told
  <1> QED BY <1>1, <1>2, <1>4, Told

\* A change leads on at Stripe.
LEMMA StripeTold ==
  ASSUME NEW s, world[s].source = "stripe", NEW old \in Sub, NEW new \in Sub, NEW change,
         <<old.status, change, new.status>> \in Life, StripeSends(s, change, old, new) # <<>>,
         NEW strange \in BOOLEAN, NEW q, IsSequence(q), NEW from,
         Leads(s, q, from, Owed(old.status, strange))
  PROVE  Leads(s, q \o StripeSends(s, change, old, new), from, Owed(new.status, strange))
  <1> DEFINE was == Owed(old.status, strange)
             is == Owed(new.status, strange)
             status == StripeUpdated(s, old, new, {"status"})
  <1>1. was \in SUBSET States /\ is \in SUBSET States
    <2>1. old.status \in Statuses /\ new.status \in Statuses
      BY DEF Sub
    <2> QED BY <2>1, OwedStates
  <1>2. ASSUME NEW e
        PROVE  /\ After(s, StripeNote(s, "session", "checkout.session.completed"), e) = e
               /\ After(s, StripeNote(s, "subscription", "customer.subscription.created"), e) =
                    Move(e, "purchase")
               /\ After(s, StripeNote(s, "invoice", "invoice.payment_succeeded"), e) = Move(e, "renewal")
               /\ After(s, StripeNote(s, "invoice", "invoice.payment_failed"), e) = Move(e, "billing_retry")
               /\ After(s, StripeNote(s, "subscription", "customer.subscription.paused"), e) =
                    Move(e, "pause")
               /\ After(s, StripeNote(s, "subscription", "customer.subscription.resumed"), e) =
                    Move(e, "resume")
               /\ After(s, StripeNote(s, "subscription", "customer.subscription.deleted"), e) =
                    Move(e, "expiration")
    BY StripeAfter
  <1>3. \A e \in States \ {"paused"} :
          /\ After(s, status, e) = IF new.status = "past_due" THEN Move(e, "billing_retry")
               ELSE IF new.status = "active" /\ old.status = "trialing" THEN Move(e, "trial_conversion")
               ELSE e
          /\ After(s, StripeUpdated(s, old, new, {"cancel"}), e) = e
          /\ After(s, StripeUpdated(s, old, new, {"price"}), e) = e
    BY StripeUpdatedAfter
  <1>4. Leads(s, q, from, was)
    OBVIOUS
  <1>5. PICK session, created, paid, failed, paused, resumed, deleted :
          /\ session = StripeNote(s, "session", "checkout.session.completed")
          /\ created = StripeNote(s, "subscription", "customer.subscription.created")
          /\ paid = StripeNote(s, "invoice", "invoice.payment_succeeded")
          /\ failed = StripeNote(s, "invoice", "invoice.payment_failed")
          /\ paused = StripeNote(s, "subscription", "customer.subscription.paused")
          /\ resumed = StripeNote(s, "subscription", "customer.subscription.resumed")
          /\ deleted = StripeNote(s, "subscription", "customer.subscription.deleted")
    OBVIOUS
  <1>6. StripeSends(s, change, old, new) =
          CASE change = "Buy"     -> <<session, created, paid>>
            [] change = "Try"     -> <<created>>
            [] change = "Convert" -> <<status, paid>>
            [] change = "Renew"   -> <<paid>>
            [] change = "Fail"    -> <<failed, status>>
            [] change = "Recover" -> <<paid, status>>
            [] change \in {"TurnOff", "TurnOn"} -> <<StripeUpdated(s, old, new, {"cancel"})>>
            [] change = "ChangePlan" -> <<StripeUpdated(s, old, new, {"price"})>>
            [] change = "Pause"   -> <<paused>>
            [] change = "Resume"  -> <<resumed>>
            [] change = "End"     -> <<deleted>>
            [] OTHER              -> <<>>
    BY <1>5 DEF StripeSends, StripeNote
  <1>7. PICK sent : sent = StripeSends(s, change, old, new)
    OBVIOUS
  <1>8. /\ \A e \in was :
              /\ change \in {"Buy", "Try"} => Move(e, "purchase") \in is
              /\ change \in {"Renew", "Recover"} => Move(e, "renewal") \in is
              /\ change = "Convert" => /\ e # "paused" /\ Move(e, "trial_conversion") \in is
                                       /\ old.status = "trialing" /\ new.status = "active"
              /\ change = "Fail" => Move(e, "billing_retry") \in is /\ new.status = "past_due"
              /\ change = "Recover" => new.status = "active" /\ old.status # "trialing"
              /\ change \in {"TurnOff", "TurnOn", "ChangePlan"} => e # "paused" /\ e \in is
              /\ change = "Pause" => Move(e, "pause") \in is
              /\ change = "Resume" => Move(e, "resume") \in is
              /\ change = "End" => Move(e, "expiration") \in is
        /\ \A e \in is :
              /\ change \in {"Buy", "Convert"} => Move(e, "renewal") \in is
              /\ change \in {"Fail", "Recover"} => e # "paused"
              /\ change = "Fail" => Move(e, "billing_retry") \in is
    BY StripeLife
  <1>9. /\ change = "Fail" => new.status = "past_due"
        /\ change = "Recover" => new.status = "active" /\ old.status # "trialing"
    BY DEF Life, Live
  <1> HIDE DEF was, is, status
  \* One notification, two and three.
  <1>11. ASSUME NEW a, \A e \in was : After(s, a, e) \in is
         PROVE  Leads(s, q \o <<a>>, from, is)
    BY <1>1, <1>4, <1>11, Told DEF One
  <1>12. ASSUME NEW a, NEW b, NEW mid \in SUBSET States,
                \A e \in was : After(s, a, e) \in mid, \A e \in mid : After(s, b, e) \in is
         PROVE  Leads(s, q \o <<a, b>>, from, is)
    BY <1>1, <1>4, <1>12, ToldTwo DEF Two
  <1>13. CASE change = "Buy"
    <2>1. \A e \in was : After(s, session, e) \in was
      BY <1>2, <1>5
    <2>2. \A e \in was : After(s, created, e) \in is
      BY <1>2, <1>5, <1>8, <1>13
    <2>3. \A e \in is : After(s, paid, e) \in is
      BY <1>2, <1>5, <1>8, <1>13
    <2>4. Leads(s, q \o <<session, created, paid>>, from, is)
      BY <1>1, <1>4, <2>1, <2>2, <2>3, ToldThree DEF Three
    <2> QED BY <1>6, <1>13, <2>4 DEF is
  <1>14. CASE change = "Convert"
    <2>1. \A e \in was : After(s, status, e) \in is
      BY <1>1, <1>3, <1>8, <1>14
    <2>2. \A e \in is : After(s, paid, e) \in is
      BY <1>2, <1>5, <1>8, <1>14
    <2>3. Leads(s, q \o <<status, paid>>, from, is)
      BY <1>1, <1>12, <2>1, <2>2
    <2> QED BY <1>6, <1>14, <2>3 DEF is
  <1>15. CASE change = "Fail"
    <2>1. \A e \in was : After(s, failed, e) \in is
      BY <1>2, <1>5, <1>8, <1>15
    <2>2. \A e \in is : After(s, status, e) \in is
      BY <1>1, <1>3, <1>8, <1>9, <1>15
    <2>3. Leads(s, q \o <<failed, status>>, from, is)
      BY <1>1, <1>12, <2>1, <2>2
    <2> QED BY <1>6, <1>15, <2>3 DEF is
  <1>16. CASE change = "Recover"
    <2>1. \A e \in was : After(s, paid, e) \in is
      BY <1>2, <1>5, <1>8, <1>16
    <2>2. \A e \in is : After(s, status, e) \in is
      BY <1>1, <1>3, <1>8, <1>9, <1>16
    <2>3. Leads(s, q \o <<paid, status>>, from, is)
      BY <1>1, <1>12, <2>1, <2>2
    <2> QED BY <1>6, <1>16, <2>3 DEF is
  <1>17. CASE change = "Try"
    <2>1. \A e \in was : After(s, created, e) \in is
      BY <1>2, <1>5, <1>8, <1>17
    <2> QED BY <1>6, <1>11, <1>17, <2>1 DEF is
  <1>18. CASE change = "Renew"
    <2>1. \A e \in was : After(s, paid, e) \in is
      BY <1>2, <1>5, <1>8, <1>18
    <2> QED BY <1>6, <1>11, <1>18, <2>1 DEF is
  <1>19. CASE change \in {"TurnOff", "TurnOn"}
    <2>1. \A e \in was : After(s, StripeUpdated(s, old, new, {"cancel"}), e) \in is
      BY <1>1, <1>3, <1>8, <1>19
    <2> QED BY <1>6, <1>11, <1>19, <2>1 DEF is
  <1>20. CASE change = "ChangePlan"
    <2>1. \A e \in was : After(s, StripeUpdated(s, old, new, {"price"}), e) \in is
      BY <1>1, <1>3, <1>8, <1>20
    <2> QED BY <1>6, <1>11, <1>20, <2>1 DEF is
  <1>21. CASE change = "Pause"
    <2>1. \A e \in was : After(s, paused, e) \in is
      BY <1>2, <1>5, <1>8, <1>21
    <2> QED BY <1>6, <1>11, <1>21, <2>1 DEF is
  <1>22. CASE change = "Resume"
    <2>1. \A e \in was : After(s, resumed, e) \in is
      BY <1>2, <1>5, <1>8, <1>22
    <2> QED BY <1>6, <1>11, <1>22, <2>1 DEF is
  <1>23. CASE change = "End"
    <2>1. \A e \in was : After(s, deleted, e) \in is
      BY <1>2, <1>5, <1>8, <1>23
    <2> QED BY <1>6, <1>11, <1>23, <2>1 DEF is
  <1>24. change \in {"Buy", "Try", "Convert", "Renew", "Fail", "Recover", "TurnOff", "TurnOn", "ChangePlan",
                     "Pause", "Resume", "End"}
    BY <1>6
  <1> QED BY <1>13, <1>14, <1>15, <1>16, <1>17, <1>18, <1>19, <1>20, <1>21, <1>22, <1>23, <1>24

\* What is owed to the user of a subscription.
Due(s) == IF s \in odd THEN Owed(sub[s].status, TRUE) ELSE Owed(sub[s].status, FALSE)

LEMMA DueIs ==
  ASSUME Typed, NEW s \in Subs
  PROVE  /\ \E strange \in BOOLEAN : (strange <=> s \in odd) /\ Due(s) = Owed(sub[s].status, strange)
         /\ Due(s) \in SUBSET States
         /\ sub[s].status \in Live \/ s \in odd => \A e \in Due(s) : Move(e, "purchase") \in Due(s)
  <1>1. PICK strange : strange = IF s \in odd THEN TRUE ELSE FALSE
    OBVIOUS
  <1>2. strange \in BOOLEAN /\ (strange <=> s \in odd) /\ Due(s) = Owed(sub[s].status, strange)
    BY <1>1 DEF Due
  <1>3. sub[s].status \in Statuses
    BY DEF Typed, Sub
  <1> QED BY <1>2, <1>3, OwedStates

\* A change leads from where the wire leads to what is owed then.
LEMMA ChangeLeads ==
  ASSUME ProvidersAssumption, Typed, WiresAgree, NEW s \in Subs, NEW change, NEW status,
         Change(s, change, status), world[s].source # "recurly",
         NEW from, Leads(s, wire[s], from, Due(s))
  PROVE  Leads(s, wire'[s], from, Due(s)')
  <1> DEFINE old == sub[s]
  <1>1. old \in Sub /\ sub \in [Subs -> Sub]
    BY DEF Typed
  <1>2. PICK c : c = (change = "TurnOff" \/ (old.cancel /\ change # "TurnOn" /\ status \in Live))
    OBVIOUS
  <1>3. c \in BOOLEAN
    BY <1>2, Zenon
  <1>4. PICK p : p = IF change = "ChangePlan" THEN 3 - old.price ELSE old.price
    OBVIOUS
  <1>5. p \in {1, 2}
    BY <1>1, <1>4 DEF Sub
  <1>6. PICK k : k = IF change \in {"Buy", "Try"} THEN old.token + 1 ELSE old.token
    OBVIOUS
  <1>7. k \in Nat
    BY <1>1, <1>6 DEF Sub
  <1>8. PICK new : new = [old EXCEPT !.status = status, !.cancel = c, !.price = p, !.token = k]
    OBVIOUS
  <1>9. /\ <<old.status, change, status>> \in Life
        /\ Sends(s, change, old, new) # <<>>
        /\ sub' = [sub EXCEPT ![s] = new]
        /\ wire' = [wire EXCEPT ![s] = @ \o Sends(s, change, old, new)]
        /\ odd' = IF Turns(change, old.status) THEN odd \cup {s} ELSE odd
    BY <1>2, <1>4, <1>6, <1>8 DEF Change, Turns
  <1>10. status \in Statuses \ {"none"} /\ change \in DOMAIN GoogleTypes
    BY <1>9, LifeSteps
  <1>11. new \in Sub /\ new.status = status
    BY <1>1, <1>3, <1>5, <1>7, <1>8, <1>10 DEF Sub
  <1>12. PICK q, sent : q = wire[s] /\ sent = Sends(s, change, old, new)
    OBVIOUS
  <1>13. IsSequence(q) /\ wire'[s] = q \o sent
    <2>1. wire = [t \in Subs |-> wire[t]] /\ IsSequence(wire[s])
      BY DEF WiresAgree, IsSequence
    <2> QED BY <1>9, <1>12, <2>1
  <1>14. PICK strange \in BOOLEAN : (strange <=> s \in odd) /\ Due(s) = Owed(old.status, strange)
    BY DueIs
  <1>15. PICK later : later = IF s \in odd \/ Turns(change, old.status) THEN TRUE ELSE FALSE
    OBVIOUS
  <1>16. /\ later \in BOOLEAN /\ (strange \/ Turns(change, old.status) => later)
         /\ (~Turns(change, old.status) => later = strange)
    BY <1>14, <1>15
  <1>17. Due(s)' = Owed(status, later)
    <2>1. sub'[s] = new
      BY <1>1, <1>9
    <2>2. s \in odd' <=> later
      BY <1>9, <1>15
    <2>3. Due(s)' = IF s \in odd' THEN Owed(sub'[s].status, TRUE) ELSE Owed(sub'[s].status, FALSE)
      BY DEF Due
    <2> QED BY <1>11, <1>15, <2>1, <2>2, <2>3
  <1>18. /\ Owed(old.status, strange) \in SUBSET States /\ Owed(status, later) \in SUBSET States
         /\ Leads(s, q, from, Owed(old.status, strange))
    <2>1. old.status \in Statuses
      BY <1>1 DEF Sub
    <2> QED BY <1>10, <1>12, <1>14, <1>16, <2>1, OwedStates
  <1> HIDE DEF old
  <1>19. CASE world[s].source = "stripe"
    <2>1. sent = StripeSends(s, change, old, new) /\ sent # <<>>
      BY <1>9, <1>12, <1>19 DEF Sends
    <2>2. later = strange
      BY <1>16, <2>1 DEF StripeSends, Turns
    <2>3. Leads(s, q \o sent, from, Owed(new.status, strange))
      BY <1>1, <1>9, <1>11, <1>13, <1>18, <1>19, <2>1, StripeTold
    <2> QED BY <1>11, <1>13, <1>17, <2>2, <2>3
  <1>20. CASE world[s].source = "apple"
    <2>1. sent = AppleSends(s, change, old) /\ sent # <<>>
      BY <1>9, <1>12, <1>20 DEF Sends
    <2>2. PICK n : sent = <<n>> /\ \A e : After(s, n, e) = Move(e, AppleEvents[change])
      <3>1. Heard(s, AppleSends(s, change, old), AppleEvents[change])
        BY <1>20, <2>1, AppleAfter
      <3> QED BY <2>1, <3>1 DEF Heard
    <2>3. change \in DOMAIN AppleEvents
      BY <1>20, <2>1, AppleAfter
    <2>4. \A e \in Owed(old.status, strange) : After(s, n, e) \in Owed(status, later)
      BY <1>9, <1>16, <2>2, <2>3, AppleLife
    <2>5. Leads(s, One(q, n), from, Owed(status, later))
      BY <1>13, <1>18, <1>20, <2>4, Told
    <2> QED BY <1>13, <1>17, <2>2, <2>5 DEF One
  <1>21. CASE world[s].source = "google"
    <2>1. sent = <<GoogleSubscription(s, GoogleTypes[change], new.token)>>
      BY <1>9, <1>12, <1>21 DEF Sends, GoogleSends
    <2>2. PICK n : n = GoogleSubscription(s, GoogleTypes[change], new.token)
      OBVIOUS
    <2>3. \A e : After(s, n, e) = Move(e, GoogleEvents[change])
      BY <1>10, <1>21, <2>2, GoogleAfter
    <2>4. HasProduct(s, n)
      BY <1>10, <1>21, <2>2, GoogleAfter
    <2>5. \A e \in Owed(old.status, strange) :
            /\ Move(e, GoogleEvents[change]) \in Owed(status, later)
            /\ Move(Move(e, "purchase"), GoogleEvents[change]) \in Owed(status, later)
      BY <1>9, <1>16, GoogleLife
    <2>6. \A e \in Bought(s, Owed(old.status, strange)) : After(s, n, e) \in Owed(status, later)
      BY <2>3, <2>5 DEF Bought
    <2>7. Leads(s, q \o <<n>>, from, Owed(status, later))
      BY <1>13, <1>18, <2>4, <2>6, LeadsWhenTold
    <2> QED BY <1>13, <1>17, <2>1, <2>2, <2>7
  <1>22. world[s].source \in {"stripe", "apple", "google", "recurly"}
    BY SourceIsOne
  <1> QED BY <1>19, <1>20, <1>21, <1>22

\* A refund ends a subscription at Apple, and only there.
LEMMA RefundLeads ==
  ASSUME ProvidersAssumption, Typed, WiresAgree, NEW s \in Subs, Refund(s),
         world[s].source # "recurly", NEW from, Leads(s, wire[s], from, Due(s))
  PROVE  Leads(s, wire'[s], from, Due(s)')
  <1>1. sub \in [Subs -> Sub] /\ sub[s].status \in {"active", "past_due", "grace"}
    BY DEF Typed, Refund
  <1>2. PICK q, sent : q = wire[s] /\ sent = Refunds(s)
    OBVIOUS
  <1>3. IsSequence(q) /\ wire'[s] = q \o sent
    <2>1. wire = [t \in Subs |-> wire[t]] /\ IsSequence(wire[s])
      BY DEF WiresAgree, IsSequence
    <2> QED BY <1>2, <2>1 DEF Refund
  <1>4. PICK strange \in BOOLEAN : (strange <=> s \in odd) /\ Due(s) = Owed(sub[s].status, strange)
    BY DueIs
  <1>5. odd' = odd /\ sub' = IF world[s].source = "apple" THEN [sub EXCEPT ![s].status = "ended"] ELSE sub
    BY DEF Refund
  <1>6. PICK note :
          note = CASE world[s].source = "stripe" -> [of |-> s, type |-> "charge.refunded", object |-> "charge"]
                   [] world[s].source = "apple"  -> [of |-> s, type |-> <<"REFUND", "">>]
                   [] world[s].source = "google" -> GoogleVoided(s, sub[s].token)
    OBVIOUS
  <1>7. world[s].source \in {"stripe", "apple", "google"}
    BY SourceIsOne
  <1>8. sent = <<note>>
    BY <1>2, <1>6, <1>7 DEF Refunds
  <1>9. Due(s) \in SUBSET States
    BY DueIs
  <1>10. CASE world[s].source # "apple"
    <2>1. Due(s)' = Due(s)
      BY <1>5, <1>10 DEF Due
    <2>2. CASE world[s].source = "stripe"
      <3>1. note = StripeNote(s, "charge", "charge.refunded")
        BY <1>6, <2>2 DEF StripeNote
      <3>2. \A e \in Due(s) : After(s, note, e) \in Due(s)
        <4>1. ASSUME NEW e PROVE After(s, note, e) = e
          BY <2>2, <3>1, StripeAfter
        <4> QED BY <4>1
      <3>3. Leads(s, One(q, note), from, Due(s))
        BY <1>2, <1>3, <1>9, <2>2, <3>2, Told
      <3> QED BY <1>3, <1>8, <2>1, <3>3 DEF One
    <2>3. CASE world[s].source = "google"
      <3>1. note = GoogleVoided(s, sub[s].token)
        BY <1>6, <2>3
      <3>2. ~HasProduct(s, note)
        BY <2>3, <3>1 DEF HasProduct, GoogleHasProduct, GoogleVoided
      <3>3. \A e \in Due(s) : After(s, note, e) \in Due(s)
        BY <3>2 DEF After
      <3>4. Leads(s, q \o <<note>>, from, Due(s))
        BY <1>2, <1>3, <1>9, <3>2, <3>3, LeadsWhenTold
      <3> QED BY <1>3, <1>8, <2>1, <3>4
    <2> QED BY <1>7, <1>10, <2>2, <2>3
  <1>11. CASE world[s].source = "apple"
    <2>1. Due(s)' = Owed("ended", strange)
      <3>1. sub'[s].status = "ended"
        BY <1>1, <1>5, <1>11
      <3>2. Due(s)' = IF s \in odd' THEN Owed(sub'[s].status, TRUE) ELSE Owed(sub'[s].status, FALSE)
        BY DEF Due
      <3> QED BY <1>4, <1>5, <3>1, <3>2
    <2>2. Owed("ended", strange) \in SUBSET States
      BY OwedStates DEF Statuses
    <2>3. \A e : After(s, note, e) = Move(e, "refund")
      BY <1>6, <1>11, AppleAfter
    <2>4. \A e \in Due(s) : Move(e, "refund") \in Owed("ended", strange)
      <3>1. ASSUME NEW e \in Due(s) PROVE Move(e, "refund") \in Owed("ended", strange)
        <4>1. e \in States
          BY <1>9
        <4> QED BY <1>1, <1>4, <4>1, Table DEF Owed, Live
      <3> QED BY <3>1
    <2>5. Leads(s, One(q, note), from, Owed("ended", strange))
      BY <1>2, <1>3, <1>9, <1>11, <2>2, <2>3, <2>4, Told
    <2> QED BY <1>3, <1>8, <2>1, <2>5 DEF One
  <1> QED BY <1>10, <1>11

\* Whatever the events, a state becomes a state.
LEMMA MoveIsAState ==
  ASSUME NEW e \in States, NEW type
  PROVE  Move(e, type) \in States
  BY DEF Move, HasTransition, NextState

Brief(types) == IsSequence(types) /\ Len(types) <= 4

LEMMA MovesAreStates ==
  ASSUME NEW e \in States, NEW types, Brief(types)
  PROVE  Moves(e, types) \in States
  <1>1. PICK n \in 0..4 : n = Len(types)
    <2>1. PICK C : types \in Seq(C)
      BY DEF Brief, IsSequence
    <2>2. Len(types) \in Nat
      BY <2>1
    <2>3. PICK k \in Nat : k = Len(types)
      BY <2>2
    <2>4. k <= 4
      BY <2>3 DEF Brief
    <2>5. k \in 0..4
      BY <2>4
    <2> QED BY <2>3, <2>5
  <1> DEFINE Fits(g) == g = [k \in 0..n |-> IF k = 0 THEN e ELSE Move(g[k - 1], types[k])]
             m1 == Move(e, types[1])
             m2 == Move(m1, types[2])
             m3 == Move(m2, types[3])
             m4 == Move(m3, types[4])
             f == [k \in 0..n |-> IF k = 0 THEN e ELSE IF k = 1 THEN m1 ELSE IF k = 2 THEN m2
                                  ELSE IF k = 3 THEN m3 ELSE m4]
  <1>2. Fits(f)
    <2>1. ASSUME NEW k \in 0..n PROVE f[k] = IF k = 0 THEN e ELSE Move(f[k - 1], types[k])
      <3>1. k = 0 \/ k = 1 \/ k = 2 \/ k = 3 \/ k = 4
        OBVIOUS
      <3>2. CASE k = 0
        BY <3>2
      <3>3. CASE k = 1
        BY <3>3
      <3>4. CASE k = 2
        BY <3>4
      <3>5. CASE k = 3
        BY <3>5
      <3>6. CASE k = 4
        BY <3>6
      <3> QED BY <3>1, <3>2, <3>3, <3>4, <3>5, <3>6
    <2>2. f = [k \in 0..n |-> f[k]]
      OBVIOUS
    <2> HIDE DEF f
    <2> QED BY <2>1, <2>2
  <1> HIDE DEF f
  <1>3. PICK g : Fits(g) /\ Moves(e, types) = g[n]
    <2>1. Fits(CHOOSE g : Fits(g))
      BY <1>2
    <2>2. Moves(e, types) = (CHOOSE g : Fits(g))[n]
      BY <1>1 DEF Moves
    <2> QED BY <2>1, <2>2
  <1>4. \A k \in 0..n : g[k] = IF k = 0 THEN e ELSE Move(g[k - 1], types[k])
    BY <1>3
  <1> HIDE DEF Fits
  <1>5. g[0] \in States
    BY <1>4
  <1>6. ASSUME NEW k \in 0..n, k # 0, g[k - 1] \in States PROVE g[k] \in States
    BY <1>4, <1>6, MoveIsAState
  <1>7. n >= 1 => g[1] \in States
    BY <1>5, <1>6
  <1>8. n >= 2 => g[2] \in States
    BY <1>6, <1>7
  <1>9. n >= 3 => g[3] \in States
    BY <1>6, <1>8
  <1>10. n >= 4 => g[4] \in States
    BY <1>6, <1>9
  <1> QED BY <1>3, <1>5, <1>7, <1>8, <1>9, <1>10

\* The events of a notification are four at most.
LEMMA OneOrNone ==
  /\ IsSequence(<<>>) /\ Len(<<>>) = 0
  /\ \A type : IsSequence(<<type>>) /\ Len(<<type>>) = 1
  <1>1. ASSUME NEW type PROVE <<>> \in Seq({type}) /\ <<type>> \in Seq({type})
    OBVIOUS
  <1> QED BY <1>1, SequencesAre

LEMMA NormalizeIsBrief ==
  ASSUME ProvidersAssumption, Typed, NEW s \in Subs, NEW n
  PROVE  Brief(Normalize(s, n))
  <1>1. Brief(<<>>) /\ \A type : Brief(<<type>>)
    <2>1. ASSUME NEW q, IsSequence(q), Len(q) = 0 \/ Len(q) = 1 PROVE Brief(q)
      <3>1. PICK k : k = Len(q)
        OBVIOUS
      <3>2. k <= 4
        BY <2>1, <3>1
      <3> QED BY <2>1, <3>1, <3>2 DEF Brief
    <2> QED BY <2>1, OneOrNone
  <1>2. \A table, k : Brief(LookUp(table, k))
    BY <1>1 DEF LookUp
  <1>3. Brief(StripeUpdate(n))
    <2>1. ASSUME NEW c, NEW type
          PROVE  IsSequence(When(c, type)) /\ Len(When(c, type)) <= 1 /\ Len(When(c, type)) \in Nat
      BY OneOrNone DEF When
    <2> DEFINE had(attribute) == attribute \in DOMAIN n.prev
    <2>2. PICK a : a = When(n.now.cancel /\ (had("cancel") => ~n.prev.cancel), "cancellation")
      OBVIOUS
    <2>3. PICK b : b = When(n.now.status = "past_due" /\ had("status"), "billing_retry")
      OBVIOUS
    <2>4. PICK c : c = When(n.now.status = "active" /\ had("status") /\ n.prev.status = "trialing",
                              "trial_conversion")
      OBVIOUS
    <2>5. PICK d : d = IF had("price")
                         THEN <<IF n.now.price > n.prev.price THEN "upgrade" ELSE "downgrade">> ELSE <<>>
      OBVIOUS
    <2>6. StripeUpdate(n) = a \o b \o c \o d
      BY <2>2, <2>3, <2>4, <2>5 DEF StripeUpdate
    <2>7. IsSequence(a) /\ Len(a) <= 1 /\ Len(a) \in Nat
      BY <2>1, <2>2
    <2>8. IsSequence(b) /\ Len(b) <= 1 /\ Len(b) \in Nat
      BY <2>1, <2>3
    <2>9. IsSequence(c) /\ Len(c) <= 1 /\ Len(c) \in Nat
      BY <2>1, <2>4
    <2>10. IsSequence(d) /\ Len(d) <= 1 /\ Len(d) \in Nat
      BY <2>5, OneOrNone
    <2>11. PICK ab : ab = a \o b
      OBVIOUS
    <2>12. IsSequence(ab) /\ Len(ab) <= 2
      BY <2>7, <2>8, <2>11, Joined
    <2>13. PICK abc : abc = ab \o c
      OBVIOUS
    <2>14. IsSequence(abc) /\ Len(abc) <= 3
      BY <2>9, <2>12, <2>13, Joined
    <2>15. IsSequence(abc \o d) /\ Len(abc \o d) <= 4
      BY <2>10, <2>14, Joined
    <2> QED BY <2>6, <2>11, <2>13, <2>15 DEF Brief
  <1>4. Brief(StripeNormalize(n))
    BY <1>2, <1>3 DEF StripeNormalize
  <1>5. Brief(AppleNormalize(n))
    BY <1>2 DEF AppleNormalize
  <1>6. Brief(GoogleNormalize(n))
    BY <1>1, <1>2 DEF GoogleNormalize
  <1>7. Brief(RecurlyNormalize(n))
    BY <1>1, <1>2 DEF RecurlyNormalize, RecurlyUpdate, When
  <1> QED BY <1>4, <1>5, <1>6, <1>7, SourceIsOne DEF Normalize

LEMMA AfterIsAState ==
  ASSUME ProvidersAssumption, Typed, NEW s \in Subs, NEW n, NEW e \in States
  PROVE  After(s, n, e) \in States
  BY NormalizeIsBrief, MovesAreStates DEF After

\* Where notifications lead does not change with time.
LEMMA SameAfter ==
  ASSUME world' = world, NEW s, NEW n
  PROVE  (HasProduct(s, n)' <=> HasProduct(s, n)) /\ \A e : After(s, n, e)' = After(s, n, e)
  BY DEF After, HasProduct, Normalize

LEMMA LeadsNext ==
  ASSUME world' = world, NEW s, NEW q, NEW from, NEW to
  PROVE  Leads(s, q, from, to)' <=> Leads(s, q, from, to)
  BY DEF Leads, Traces, ToCome, Bought, After, HasProduct, Normalize

\* A notification gives the user it finds what it makes of the user's state.
LEMMA ProcessUser ==
  ASSUME ent \in [Users -> States], NEW s \in Subs, NEW n, NEW enriched, Process(s, n, enriched)
  PROVE  \/ Normalize(s, n) = <<>> /\ owner' = owner /\ ent' = ent
         \/ \E user \in Users : /\ Links(s, Hints(s, n, enriched), user)
                                /\ ent' = [ent EXCEPT ![user] = After(s, n, ent[user])]
  <1> DEFINE hints == Hints(s, n, enriched)
  <1>1. ASSUME NEW user \in Users, Resolves(s, hints, user), owner' = Linked(s, hints, user),
               ent' = IF HasProduct(s, n) THEN [ent EXCEPT ![user] = Moves(@, Normalize(s, n))] ELSE ent
        PROVE  Links(s, hints, user) /\ ent' = [ent EXCEPT ![user] = After(s, n, ent[user])]
    <2>1. ent = [ent EXCEPT ![user] = ent[user]]
      OBVIOUS
    <2>2. ent' = [ent EXCEPT ![user] = After(s, n, ent[user])]
      BY <1>1, <2>1 DEF After
    <2> HIDE DEF hints
    <2> QED BY <1>1, <2>2, ResolvedLinks
  <1> QED BY <1>1 DEF Process

\* Users, and the apps they are known by.
Has(s) == IF UsersOf(s) = {} THEN {"inactive"} ELSE {ent[u] : u \in UsersOf(s)}
IsOf(u, s, t) == world[t].org = world[s].org /\ world[t].source = world[s].source /\ u \in UsersOf(t)
Fresh == \A u \in Users : (\A row \in owner : row.user # u) => ent[u] = "inactive"
AppRows ==
  \A row \in owner : row.id[1] = "app" =>
    \E t \in Subs : /\ world[t].org = row.org /\ world[t].source = row.source
                    /\ row.user \in UsersOf(t)

LEMMA SameWorld ==
  ASSUME ProvidersAssumption, Typed, NEW s \in Subs, NEW t \in Subs,
         world[s].org = world[t].org, world[s].source = world[t].source
  PROVE  world[s] = world[t]
  <1>1. \A v \in Subs : world[v] \in [org : {world[x].org : x \in Subs} \ {None},
                                      source : {"stripe", "apple", "google", "recurly"}]
    BY SourceIsOne
  <1>2. world[s] = [org |-> world[s].org, source |-> world[s].source]
    BY <1>1
  <1>3. world[t] = [org |-> world[t].org, source |-> world[t].source]
    BY <1>1
  <1> QED BY <1>2, <1>3

LEMMA ApartNext == IInv' => KeptApart'
  <1>1. IInv => KeptApart
    BY CustomersApartNow, ProvidersAssumption DEF CustomersAreApart
  <1> QED BY <1>1, PTL

\* The user a notification finds is of its subscription, or at Apple of another
\* of the organization; or new.
LEMMA FoundUser ==
  ASSUME ProvidersAssumption, Typed, RowsAgree, AppRows, world' = world, NEW s \in Subs,
         NEW hints, \A id \in hints : OwnId(s, id) \/ AppId(s, id), \E id \in hints : OwnId(s, id),
         NEW user \in Users, Links(s, hints, user)
  PROVE  \/ user \in UsersOf(s)
         \/ world[s].source = "apple" /\ \E t \in Subs : IsOf(user, s, t)
         \/ user \in UsersOf(s)' /\ \A row \in owner : row.user # user
  <1>0. ASSUME NEW id, id = <<s, id[2]>> PROVE id[1] = s
    BY <1>0
  <1>1. ASSUME NEW row \in owner, NEW id \in hints, Names(row, s, id), row.user = user, OwnId(s, id)
        PROVE  user \in UsersOf(s)
    <2>1. row.id[1] = s
      BY <1>0, <1>1 DEF Names, OwnId
    <2> QED BY <1>1, <2>1 DEF UsersOf, Names
  <1>2. ASSUME NEW row \in owner, NEW id \in hints, Names(row, s, id), row.user = user, AppId(s, id)
        PROVE  world[s].source = "apple" /\ \E t \in Subs : IsOf(user, s, t)
    <2>1. row.id[1] = "app" /\ row.org = world[s].org /\ row.source = world[s].source
      BY <1>2 DEF Names, AppId
    <2>2. PICK t \in Subs : /\ world[t].org = row.org /\ world[t].source = row.source
                            /\ row.user \in UsersOf(t)
      BY <2>1 DEF AppRows
    <2> QED BY <1>2, <2>1, <2>2 DEF IsOf, AppId
  <1>3. ASSUME \A row \in owner : row.user # user /\ \A id \in hints : ~Names(row, s, id)
        PROVE  user \in UsersOf(s)' /\ \A row \in owner : row.user # user
    <2>1. PICK id \in hints : OwnId(s, id)
      OBVIOUS
    <2>2. PICK row \in owner' : Names(row, s, id)
      BY DEF Links
    <2>3. row \notin owner
      BY <1>3, <2>2
    <2>4. row.user = user /\ row.id[1] = s
      BY <1>0, <2>1, <2>2, <2>3 DEF Links, Names, OwnId
    <2>5. user \in UsersOf(s)'
      BY <2>2, <2>4 DEF UsersOf, Names
    <2> QED BY <1>3, <2>5
  <1> QED BY <1>1, <1>2, <1>3 DEF Links

LEMMA ProcessedUsers ==
  ASSUME ProvidersAssumption, Typed, RowsAgree, ent \in [Users -> States], Fresh, AppRows,
         world' = world, NEW s \in Subs, NEW n, About(s, n), NEW enriched \in BOOLEAN,
         Process(s, n, enriched)
  PROVE  ent' \in [Users -> States] /\ Fresh' /\ AppRows'
  <1>1. CASE owner' = owner /\ ent' = ent
    BY <1>1 DEF Fresh, AppRows, UsersOf
  <1>2. ASSUME NEW user \in Users, Links(s, Hints(s, n, enriched), user),
               ent' = [ent EXCEPT ![user] = After(s, n, ent[user])]
        PROVE  ent' \in [Users -> States] /\ Fresh' /\ AppRows'
    <2>1. After(s, n, ent[user]) \in States
      BY AfterIsAState
    <2>2. PICK hints : hints = Hints(s, n, enriched)
      OBVIOUS
    <2>3. /\ \A id \in hints : OwnId(s, id) \/ AppId(s, id)
          /\ \E id \in hints : OwnId(s, id)
          /\ Links(s, hints, user)
      BY <1>2, <2>2, HintsAreOwn
    <2>4. /\ owner \subseteq owner'
          /\ \A t : UsersOf(t) \subseteq UsersOf(t)'
      BY <2>3, RowsAreKept DEF Links
    <2>5. \/ user \in UsersOf(s)
          \/ world[s].source = "apple" /\ \E t \in Subs : IsOf(user, s, t)
          \/ user \in UsersOf(s)' /\ \A row \in owner : row.user # user
      BY <2>3, FoundUser
    <2>6. \E row \in owner' : row.user = user
      BY <2>4, <2>5 DEF IsOf, UsersOf
    <2>7. Fresh'
      <3> SUFFICES ASSUME NEW u \in Users, \A row \in owner' : row.user # u
                   PROVE  ent'[u] = "inactive"
        BY DEF Fresh, Users
      <3>1. u # user /\ ent[u] = "inactive"
        BY <2>4, <2>6 DEF Fresh
      <3> QED BY <1>2, <3>1
    <2>8. ASSUME NEW row \in owner', row.id[1] = "app"
          PROVE  \E t \in Subs : /\ world[t].org = row.org /\ world[t].source = row.source
                                 /\ row.user \in UsersOf(t)'
      <3>1. CASE row \in owner
        BY <2>4, <2>8, <3>1 DEF AppRows
      <3>2. CASE row \notin owner
        <4>1. /\ row.user = user /\ row.org = world[s].org /\ row.source = world[s].source
          BY <2>3, <3>2 DEF Links, Names
        <4>2. user \in UsersOf(s)' \/ \E t \in Subs : IsOf(user, s, t)
          BY <2>4, <2>5
        <4> QED BY <2>4, <4>1, <4>2 DEF IsOf
      <3> QED BY <3>1, <3>2
    <2>9. AppRows'
      BY <2>8 DEF AppRows
    <2> QED BY <1>2, <2>1, <2>7, <2>9
  <1> QED BY <1>1, <1>2, ProcessUser

\* The entitlements of the users of another subscription are as they were.
LEMMA OthersHave ==
  ASSUME ProvidersAssumption, Typed, RowsAgree, ent \in [Users -> States], AppRows, IInv',
         world' = world, NEW s \in Subs, NEW n, About(s, n), NEW enriched \in BOOLEAN,
         Process(s, n, enriched), NEW t \in Subs, t # s, Alone(t)
  PROVE  Has(t)' = Has(t)
  <1>1. CASE owner' = owner /\ ent' = ent
    BY <1>1 DEF Has, UsersOf
  <1>2. ASSUME NEW user \in Users, Links(s, Hints(s, n, enriched), user),
               ent' = [ent EXCEPT ![user] = After(s, n, ent[user])]
        PROVE  Has(t)' = Has(t)
    <2>1. PICK hints : hints = Hints(s, n, enriched)
      OBVIOUS
    <2>2. /\ \A id \in hints : OwnId(s, id) \/ AppId(s, id)
          /\ \E id \in hints : OwnId(s, id)
          /\ Links(s, hints, user)
      BY <1>2, <2>1, HintsAreOwn
    <2>3. owner \subseteq owner' /\ \A u : UsersOf(u) \subseteq UsersOf(u)'
      BY <2>2, RowsAreKept DEF Links
    <2>4. \A row \in owner' : row.id[1] = t => row \in owner
      BY <2>2, OthersStay
    <2>5. UsersOf(t)' = UsersOf(t)
      <3>1. UsersOf(t)' \subseteq UsersOf(t)
        BY <2>4 DEF UsersOf
      <3> QED BY <2>3, <3>1
    <2>6. PICK x \in Subs : x # t /\ user \in UsersOf(x)'
      <3>1. \/ user \in UsersOf(s)'
            \/ world[s].source = "apple" /\ \E x \in Subs : IsOf(user, s, x)
        BY <2>2, <2>3, FoundUser
      <3>2. ASSUME world[s].source = "apple", IsOf(user, s, t) PROVE FALSE
        <4>1. world[s] = world[t]
          BY <3>2, SameWorld DEF IsOf
        <4> QED BY <3>2, <4>1 DEF Alone
      <3> QED BY <2>3, <3>1, <3>2 DEF IsOf
    <2>7. UsersOf(x)' \cap UsersOf(t)' = {}
      <3>1. KeptApart'
        BY ApartNext
      <3>2. world[x] = world[t] => world[x].source # "apple"
        BY <2>6 DEF Alone
      <3> QED BY <2>6, <3>1, <3>2 DEF KeptApart
    <2>8. \A u \in UsersOf(t) : u \in Users /\ u # user
      <3>1. \A u \in UsersOf(t) : u \in Users
        BY DEF UsersOf, Typed
      <3>2. \A u \in UsersOf(t) : u # user
        BY <2>5, <2>6, <2>7
      <3> QED BY <3>1, <3>2
    <2>9. \A u \in UsersOf(t) : ent'[u] = ent[u]
      BY <1>2, <2>8
    <2>10. PICK users : users = UsersOf(t)
      OBVIOUS
    <2>11. {ent'[u] : u \in users} = {ent[u] : u \in users}
      BY <2>9, <2>10
    <2>12. Has(t)' = IF users = {} THEN {"inactive"} ELSE {ent'[u] : u \in users}
      BY <2>5, <2>10 DEF Has
    <2> QED BY <2>10, <2>11, <2>12 DEF Has
  <1> QED BY <1>1, <1>2, ProcessUser

\* Those of the subscription become what the notification makes of them.
LEMMA ItsUserHas ==
  ASSUME ProvidersAssumption, Typed, RowsAgree, ent \in [Users -> States], Fresh, AppRows, IInv',
         world' = world, NEW s \in Subs, s \notin lame', NEW n, About(s, n), NEW enriched \in BOOLEAN,
         Process(s, n, enriched), Alone(s)
  PROVE  \A e \in Has(s)' : \E old \in Has(s) : e = After(s, n, old)
  <1>1. CASE Normalize(s, n) = <<>> /\ owner' = owner /\ ent' = ent
    <2>1. Has(s)' = Has(s)
      BY <1>1 DEF Has, UsersOf
    <2>2. \A e : After(s, n, e) = e
      BY <1>1, FewMoves DEF After
    <2> QED BY <2>1, <2>2
  <1>2. ASSUME NEW user \in Users, Links(s, Hints(s, n, enriched), user),
               ent' = [ent EXCEPT ![user] = After(s, n, ent[user])]
        PROVE  \A e \in Has(s)' : \E old \in Has(s) : e = After(s, n, old)
    <2>1. PICK hints : hints = Hints(s, n, enriched)
      OBVIOUS
    <2>2. /\ \A id \in hints : OwnId(s, id) \/ AppId(s, id)
          /\ \E id \in hints : OwnId(s, id)
          /\ Links(s, hints, user)
      BY <1>2, <2>1, HintsAreOwn
    <2>3. UsersOf(s) \subseteq UsersOf(s)'
      BY <2>2, RowsAreKept DEF Links
    <2>4. user \in UsersOf(s) \/ (user \in UsersOf(s)' /\ \A row \in owner : row.user # user)
      <3>1. ASSUME world[s].source = "apple", NEW t \in Subs, IsOf(user, s, t) PROVE t = s
        <4>1. world[t] = world[s]
          BY <3>1, SameWorld DEF IsOf
        <4> QED BY <3>1, <4>1 DEF Alone
      <3>2. \/ user \in UsersOf(s)
            \/ world[s].source = "apple" /\ \E t \in Subs : IsOf(user, s, t)
            \/ user \in UsersOf(s)' /\ \A row \in owner : row.user # user
        BY <2>2, FoundUser
      <3> QED BY <3>1, <3>2 DEF IsOf
    <2>5. UsersOf(s)' = {user}
      <3>1. \A u, v \in UsersOf(s)' : u = v
        BY DEF IInv, OneUser
      <3> QED BY <2>3, <2>4, <3>1
    <2>6. ent'[user] = After(s, n, ent[user])
      BY <1>2
    <2>7. Has(s)' = {After(s, n, ent[user])}
      BY <2>5, <2>6 DEF Has
    <2>8. ent[user] \in Has(s)
      <3>1. CASE UsersOf(s) = {}
        BY <2>4, <3>1 DEF Has, Fresh
      <3>2. CASE UsersOf(s) # {}
        BY <2>3, <2>5, <3>2 DEF Has
      <3> QED BY <3>1, <3>2
    <2> QED BY <2>7, <2>8
  <1> QED BY <1>1, <1>2, ProcessUser

\* The invariant: where what waits for a subscription leads.
Access(s) == \A q, from, to : q = wire[s] /\ from = Has(s) /\ to = Due(s) => Leads(s, q, from, to)
Bounds ==
  /\ changes \in 0..MaxChanges /\ faults \in 0..MaxFaults
  /\ odd \subseteq Subs /\ overlap \in BOOLEAN
EntitlementsAgree == ent \in [Users -> States] /\ Bounds
Agreeing(s) == world[s].source # "recurly" /\ Alone(s)
AccessAgrees ==
  EntitlementsAgree /\ Fresh /\ AppRows /\ \A s \in Subs \ lame : Agreeing(s) => Access(s)

LEMMA AccessIs ==
  ASSUME NEW s
  PROVE  Access(s) <=> Leads(s, wire[s], Has(s), Due(s))
  BY DEF Access

LEMMA AccessNext ==
  ASSUME world' = world, NEW s
  PROVE  Access(s)' <=> Leads(s, wire'[s], Has(s)', Due(s)')
  <1>1. \A q, from, to : Leads(s, q, from, to)' <=> Leads(s, q, from, to)
    BY LeadsNext
  <1> QED BY <1>1 DEF Access

\* Nothing that the subscription and its user are changes.
LEMMA AccessStays ==
  ASSUME world' = world, NEW s \in Subs, wire'[s] = wire[s], Has(s)' = Has(s), sub'[s] = sub[s],
         s \in odd' <=> s \in odd, Access(s)
  PROVE  Access(s)'
  <1>1. Due(s)' = Due(s)
    BY DEF Due
  <1> QED BY <1>1, AccessIs, AccessNext

\* A notification is served.
LEMMA AccessServed ==
  ASSUME ProvidersAssumption, IInv, IInv', AccessAgrees, world' = world,
         NEW s \in Subs, s \notin lame', s \notin lame, Agreeing(s), wire[s] # <<>>, NEW enriched \in BOOLEAN,
         Process(s, Head(wire[s]), enriched), wire' = [wire EXCEPT ![s] = Tail(@)],
         sub' = sub, odd' = odd
  PROVE  Access(s)'
  <1>1. PICK n, q : n = Head(wire[s]) /\ q = wire[s]
    OBVIOUS
  <1>2. About(s, n) /\ IsSequence(q) /\ q # <<>> /\ n = q[1]
    BY <1>1, HeadIsAbout DEF IInv
  <1>3. \A e \in Has(s)' : \E old \in Has(s) : e = After(s, n, old)
    BY <1>1, <1>2, ItsUserHas DEF IInv, AccessAgrees, EntitlementsAgree, Agreeing
  <1>4. Leads(s, q, Has(s), Due(s))
    BY <1>1, AccessIs DEF AccessAgrees
  <1>5. Leads(s, Tail(q), Has(s)', Due(s))
    <2>1. PICK then, from, to : then = Has(s)' /\ from = Has(s) /\ to = Due(s)
      OBVIOUS
    <2>2. Leads(s, q, from, to) /\ \A e \in then : \E old \in from : e = After(s, q[1], old)
      BY <1>2, <1>3, <1>4, <2>1
    <2>3. Leads(s, Tail(q), then, to)
      BY <1>2, <2>2, LeadsWhenServed
    <2> QED BY <2>1, <2>3
  <1>6. wire'[s] = Tail(q)
    <2>1. wire = [t \in Subs |-> wire[t]]
      BY DEF IInv, WiresAgree
    <2> QED BY <1>1, <2>1
  <1>7. Due(s)' = Due(s)
    BY DEF Due
  <1> QED BY <1>5, <1>6, <1>7, AccessNext

\* The steps, by what they do to wires and entitlements.
Resting == UNCHANGED <<world, sub, wire, owner, ent, odd, lame>>
Serves(s) ==
  \E enriched \in BOOLEAN :
    /\ wire[s] # <<>> /\ Process(s, Head(wire[s]), enriched) /\ wire' = [wire EXCEPT ![s] = Tail(@)]
    /\ lame' = IF enriched THEN lame ELSE lame \cup {s}
    /\ UNCHANGED <<world, sub, odd>>
Lists(s) ==
  \E n : /\ world[s].source = "recurly" /\ About(s, n) /\ Process(s, n, TRUE)
         /\ UNCHANGED <<world, sub, wire, odd, lame>>
Puts(s) ==
  \E n, k :
    /\ world[s].source = "google" /\ wire' = [wire EXCEPT ![s] = <<n>> \o @]
    /\ lame \subseteq lame' /\ UNCHANGED <<world, sub, owner, ent>>
    /\ \/ /\ n = GoogleSubscription(s, "PURCHASED", k)
          /\ odd' = IF sub[s].status \in Live THEN odd ELSE odd \cup {s}
       \/ n = GoogleVoided(s, k) /\ odd' = odd

LEMMA Counts ==
  ASSUME ProvidersAssumption, Bounds
  PROVE  /\ changes > 0 => changes - 1 \in 0..MaxChanges
         /\ faults > 0 => faults - 1 \in 0..MaxFaults
  <1>1. MaxChanges \in Nat /\ MaxFaults \in Nat
    BY DEF ProvidersAssumption
  <1> QED BY <1>1 DEF Bounds

LEMMA CallingRests ==
  ASSUME ProvidersAssumption, Bounds, NEW s \in Subs, Calling(s)
  PROVE  Resting /\ Bounds'
  <1>1. CASE SetCredentials(s)
    <2>1. overlap' \in BOOLEAN
      BY <1>1, Zenon DEF SetCredentials
    <2> QED BY <1>1, <2>1 DEF SetCredentials, Resting, Bounds
  <1>2. CASE Token(s) \/ Sign(s) \/ Exchange(s)
    BY <1>2 DEF Token, Sign, Exchange, Resting, Bounds
  <1>3. CASE ExchangeFails(s)
    <2>1. faults' \in 0..MaxFaults
      BY <1>3, Counts DEF ExchangeFails, Bounds
    <2> QED BY <1>3, <2>1 DEF ExchangeFails, Resting, Bounds
  <1> QED BY <1>1, <1>2, <1>3 DEF Calling

LEMMA ImportingRests ==
  ASSUME ProvidersAssumption, Bounds, NEW w, Importing(w)
  PROVE  Resting /\ Bounds'
  <1> USE DEF webhooks, Resting, Bounds
  <1>1. CASE StartImport(w)
    <2>1. changes' \in 0..MaxChanges
      BY <1>1, Counts DEF StartImport
    <2> QED BY <1>1, <2>1 DEF StartImport
  <1>2. CASE Page(w)
    BY <1>2 DEF Page
  <1>3. CASE ImportEnds(w)
    BY <1>3 DEF ImportEnds
  <1>4. CASE PageFails(w)
    <2>1. faults' \in 0..MaxFaults
      BY <1>4, Counts DEF PageFails
    <2> QED BY <1>4, <2>1 DEF PageFails
  <1>5. CASE ItemFails(w)
    <2>1. faults' \in 0..MaxFaults
      BY <1>5, Counts DEF ItemFails
    <2> QED BY <1>5, <2>1 DEF ItemFails
  <1>6. CASE StartFails(w)
    <2>1. faults' \in 0..MaxFaults /\ changes' \in 0..MaxChanges
      BY <1>6, Counts DEF StartFails
    <2> QED BY <1>6, <2>1 DEF StartFails
  <1> QED BY <1>1, <1>2, <1>3, <1>4, <1>5, <1>6 DEF Importing

LEMMA AccessSteps ==
  ASSUME ProvidersAssumption, IInv, Bounds, [Next]_vars
  PROVE  /\ Bounds'
         /\ \/ Resting
            \/ \E s \in Subs : \/ (\E change, status : Change(s, change, status)) \/ Refund(s)
                               \/ Serves(s) \/ Lists(s) \/ Puts(s)
  <1> DEFINE Does(s) == \/ (\E change, status : Change(s, change, status)) \/ Refund(s)
                        \/ Serves(s) \/ Lists(s) \/ Puts(s)
  <1>1. CASE UNCHANGED vars
    BY <1>1 DEF vars, Resting, Bounds
  <1> SUFFICES ASSUME NEW s \in Subs,
                      \/ \E step \in Life : Change(s, step[2], step[3])
                      \/ Refund(s) \/ Webhook(s) \/ Calling(s) \/ Fetch(s) \/ FetchFails(s) \/ Void(s)
                      \/ Importing(world[s]) \/ ImportSubscription(world[s])
                      \/ ImportToken(world[s]) \/ ImportVoided(world[s])
               PROVE  Bounds' /\ (Resting \/ \E t \in Subs : Does(t))
    BY <1>1 DEF Next, Calling, Importing
  <1>2. CASE \E step \in Life : Change(s, step[2], step[3])
    <2>1. PICK change, status : Change(s, change, status)
      BY <1>2
    <2>2. changes' \in 0..MaxChanges
      BY <2>1, Counts DEF Change
    <2>3. Bounds'
      BY <2>1, <2>2 DEF Change, google, webhooks, Bounds
    <2> QED BY <2>1, <2>3
  <1>3. CASE Refund(s)
    <2>1. changes' \in 0..MaxChanges
      BY <1>3, Counts DEF Refund
    <2>2. Bounds'
      BY <1>3, <2>1 DEF Refund, google, webhooks, Bounds
    <2> QED BY <1>3, <2>2
  <1>4. CASE Webhook(s)
    BY <1>4 DEF Webhook, google, webhooks, Serves, Bounds
  <1>5. CASE Calling(s)
    BY <1>5, CallingRests
  <1>6. ASSUME NEW enriched \in BOOLEAN, Fetched(s, enriched), faults' \in 0..MaxFaults
        PROVE  Bounds' /\ Serves(s)
    <2>1. wire[s] # <<>>
      BY <1>6 DEF Fetched, IInv, WiresAgree
    <2>2. odd' = odd
      BY <1>6 DEF Fetched, Handled
    <2> QED BY <1>6, <2>1 DEF Fetched, Handled, Serves, Bounds
  <1>7. CASE Fetch(s)
    <2>1. faults' \in 0..MaxFaults
      BY <1>7 DEF Fetch, Bounds
    <2> QED BY <1>6, <1>7, <2>1 DEF Fetch
  <1>8. CASE FetchFails(s)
    <2>1. faults' \in 0..MaxFaults
      BY <1>8, Counts DEF FetchFails, Bounds
    <2> QED BY <1>6, <1>8, <2>1 DEF FetchFails
  <1>14. CASE Void(s)
    <2>1. wire[s] # <<>>
      BY <1>14 DEF Void, IInv, WiresAgree
    <2> QED BY <1>14, <2>1 DEF Void, Handled, Serves, Bounds
  <1>9. CASE Importing(world[s])
    BY <1>9, ImportingRests
  <1>10. world[s] \in DOMAIN runs
    BY DEF IInv, Typed
  <1>11. CASE ImportSubscription(world[s])
    <2>1. PICK item \in runs[world[s]].todo :
            /\ runs[world[s]].at = "pages"
            /\ Process(item[1], Imported(item[1], item[2]), TRUE)
            /\ UNCHANGED <<world, sub, voided, wire, webhooks, faults, changes, odd>>
      BY <1>11 DEF ImportSubscription
    <2>2. PICK t \in Subs : t = item[1]
      BY <1>10, ListedItem DEF IInv
    <2>3. world[t] = world[s] /\ world[t].source = "recurly"
      BY <1>10, <2>1, <2>2, ListedItem DEF IInv, ImportsAgree
    <2>4. About(t, Imported(t, item[2]))
      BY <2>3, ImportedIsAbout
    <2>5. Lists(t)
      BY <2>1, <2>2, <2>3, <2>4 DEF Lists, webhooks
    <2> QED BY <2>1, <2>5 DEF Bounds, webhooks
  <1>12. CASE ImportToken(world[s])
    <2>1. PICK item \in runs[world[s]].todo :
            /\ runs[world[s]].at = "tokens"
            /\ Pipe(world[s], item[1], GoogleSubscription(item[1], "PURCHASED", item[2]))
            /\ odd' = IF sub[item[1]].status \in Live THEN odd ELSE odd \cup {item[1]}
            /\ lame' = IF item[2] > 2 /\ ~Known(item[1], item[2] - 1) THEN lame \cup {item[1]} ELSE lame
            /\ UNCHANGED <<world, sub, voided, owner, ent, client, proc, overlap, faults, changes>>
      BY <1>12 DEF ImportToken
    <2>2. PICK t \in Subs : t = item[1]
      BY <1>10, ListedItem DEF IInv
    <2>3. world[t].source = "google"
      BY <1>10, <2>1, <2>2, ListedItem DEF IInv, ImportsAgree
    <2>4. Puts(t)
      BY <2>1, <2>2, <2>3 DEF Puts, Pipe
    <2> QED BY <2>1, <2>2, <2>4 DEF Bounds
  <1>13. CASE ImportVoided(world[s])
    <2>1. PICK item \in runs[world[s]].todo :
            /\ runs[world[s]].at = "voided"
            /\ Pipe(world[s], item[1], GoogleVoided(item[1], item[2]))
            /\ lame' = IF Known(item[1], item[2]) THEN lame ELSE lame \cup {item[1]}
            /\ UNCHANGED <<world, sub, voided, owner, ent, client, proc, overlap, faults, changes, odd>>
      BY <1>13 DEF ImportVoided
    <2>2. PICK t \in Subs : t = item[1]
      BY <1>10, ListedItem DEF IInv
    <2>3. world[t].source = "google"
      BY <1>10, <2>1, <2>2, ListedItem DEF IInv, ImportsAgree
    <2>4. Puts(t)
      BY <2>1, <2>2, <2>3 DEF Puts, Pipe
    <2> QED BY <2>1, <2>4 DEF Bounds
  <1> QED BY <1>2, <1>3, <1>4, <1>5, <1>7, <1>8, <1>9, <1>11, <1>12, <1>13, <1>14

\* What an import makes up comes first.
LEMMA AccessPut ==
  ASSUME ProvidersAssumption, IInv, NEW s \in Subs, Puts(s), Access(s)
  PROVE  Access(s)'
  <1>1. PICK n, k :
          /\ world[s].source = "google" /\ wire' = [wire EXCEPT ![s] = <<n>> \o @]
          /\ UNCHANGED <<world, sub, owner, ent>>
          /\ \/ /\ n = GoogleSubscription(s, "PURCHASED", k)
                /\ odd' = IF sub[s].status \in Live THEN odd ELSE odd \cup {s}
             \/ n = GoogleVoided(s, k) /\ odd' = odd
    BY DEF Puts
  <1>2. wire'[s] = <<n>> \o wire[s] /\ IsSequence(wire[s])
    BY <1>1 DEF IInv, WiresAgree, IsSequence
  <1>3. Has(s)' = Has(s)
    <2>1. UNCHANGED <<world, owner, ent>>
      BY <1>1
    <2> QED BY <2>1 DEF Has, UsersOf
  <1>4. sub[s].status \in Statuses
    BY DEF IInv, Typed, Sub
  <1>5. PICK strange \in BOOLEAN : (strange <=> s \in odd) /\ Due(s) = Owed(sub[s].status, strange)
    BY DueIs DEF IInv
  <1>6. PICK q, from, to : q = wire[s] /\ from = Has(s) /\ to = Due(s)
    OBVIOUS
  <1>7. Leads(s, q, from, to)
    BY <1>6, AccessIs
  <1>8. CASE n = GoogleVoided(s, k) /\ odd' = odd
    <2>1. "Buy" \in DOMAIN GoogleTypes
      BY DEF GoogleTypes
    <2>2. ~HasProduct(s, n)
      BY <1>1, <1>8, <2>1, GoogleAfter
    <2>3. to \in SUBSET States
      BY <1>6, DueIs DEF IInv
    <2>4. Leads(s, <<n>> \o q, from, to)
      BY <1>2, <1>6, <1>7, <2>2, <2>3, LeadsWhenPut
    <2>5. Due(s)' = to
      BY <1>1, <1>6, <1>8 DEF Due
    <2> QED BY <1>1, <1>2, <1>3, <1>6, <2>4, <2>5, AccessNext
  <1>9. CASE /\ n = GoogleSubscription(s, "PURCHASED", k)
             /\ odd' = IF sub[s].status \in Live THEN odd ELSE odd \cup {s}
    <2>1. PICK later : later = IF s \in odd' THEN TRUE ELSE FALSE
      OBVIOUS
    <2>2. later \in BOOLEAN /\ (strange => later) /\ (sub[s].status \in Live \/ later)
      BY <1>5, <1>9, <2>1
    <2>3. Due(s)' = Owed(sub[s].status, later)
      BY <1>1, <2>1 DEF Due
    <2>4. PICK then : then = Owed(sub[s].status, later)
      OBVIOUS
    <2>5. then \in SUBSET States /\ to \subseteq then /\ \A e \in then : Move(e, "purchase") \in then
      BY <1>4, <1>5, <1>6, <2>2, <2>4, OwedStates
    <2>6. Bought(s, then) \subseteq then
      BY <2>5 DEF Bought
    <2>7. \A e \in States : After(s, n, e) = Move(e, "purchase")
      <3>1. /\ "Buy" \in DOMAIN GoogleTypes
            /\ GoogleTypes["Buy"] = "PURCHASED" /\ GoogleEvents["Buy"] = "purchase"
        BY DEF GoogleTypes, GoogleEvents
      <3>2. ASSUME NEW e \in States PROVE After(s, n, e) = Move(e, "purchase")
        <4>1. After(s, GoogleSubscription(s, GoogleTypes["Buy"], k), e) = Move(e, GoogleEvents["Buy"])
          BY <1>1, <3>1, GoogleAfter
        <4> QED BY <1>9, <3>1, <4>1
      <3> QED BY <3>2
    <2>8. Leads(s, q, from, then)
      BY <1>7, <2>5, LeadsOn
    <2>9. Leads(s, <<n>> \o q, from, then)
      BY <1>1, <1>2, <1>6, <2>5, <2>6, <2>7, <2>8, LeadsWhenPut
    <2> QED BY <1>1, <1>2, <1>3, <1>6, <2>3, <2>4, <2>9, AccessNext
  <1> QED BY <1>1, <1>8, <1>9

LEMMA AccessStep ==
  ASSUME ProvidersAssumption, IInv, AccessAgrees, [Next]_vars
  PROVE  AccessAgrees'
  <1>1. IInv'
    BY IInvNext
  <1>2. /\ Typed /\ WiresAgree /\ RowsAgree /\ ent \in [Users -> States] /\ Bounds /\ Fresh /\ AppRows
        /\ wire = [t \in Subs |-> wire[t]] /\ sub \in [Subs -> Sub]
    BY DEF IInv, AccessAgrees, EntitlementsAgree, Typed, WiresAgree
  <1>3. /\ Bounds'
        /\ \/ Resting
           \/ \E s \in Subs : \/ (\E change, status : Change(s, change, status)) \/ Refund(s)
                              \/ Serves(s) \/ Lists(s) \/ Puts(s)
    BY <1>2, AccessSteps
  <1> DEFINE Good == /\ world' = world /\ lame \subseteq lame'
                     /\ ent' \in [Users -> States] /\ Fresh' /\ AppRows'
                     /\ \A t \in Subs \ lame' : Agreeing(t) /\ Access(t) => Access(t)'
  <1>4. ASSUME UNCHANGED <<world, owner, ent>>
        PROVE  /\ ent' \in [Users -> States] /\ Fresh' /\ AppRows'
               /\ \A t \in Subs : Has(t)' = Has(t)
    BY <1>2, <1>4 DEF Fresh, AppRows, UsersOf, Has
  <1>5. ASSUME Resting PROVE Good
    <2>1. \A t \in Subs : Access(t) => Access(t)'
      BY <1>4, <1>5, AccessStays DEF Resting
    <2> QED BY <1>4, <1>5, <2>1 DEF Resting
  <1>6. ASSUME NEW s \in Subs, (\E change, status : Change(s, change, status)) \/ Refund(s)
        PROVE  Good
    <2>1. /\ UNCHANGED <<world, owner, ent, lame>>
          /\ \A t \in Subs : t # s => wire'[t] = wire[t] /\ sub'[t] = sub[t] /\ (t \in odd' <=> t \in odd)
      <3>1. ASSUME NEW change, NEW status, Change(s, change, status)
            PROVE  /\ UNCHANGED <<world, owner, ent, lame>>
                   /\ \A t \in Subs : t # s =>
                        wire'[t] = wire[t] /\ sub'[t] = sub[t] /\ (t \in odd' <=> t \in odd)
        BY <1>2, <3>1 DEF Change, google, webhooks
      <3>2. ASSUME Refund(s)
            PROVE  /\ UNCHANGED <<world, owner, ent, lame>>
                   /\ \A t \in Subs : t # s =>
                        wire'[t] = wire[t] /\ sub'[t] = sub[t] /\ (t \in odd' <=> t \in odd)
        BY <1>2, <3>2 DEF Refund, google, webhooks
      <3> QED BY <1>6, <3>1, <3>2
    <2>2. ASSUME NEW t \in Subs, t # s, Access(t) PROVE Access(t)'
      BY <1>4, <2>1, <2>2, AccessStays
    <2>3. ASSUME Agreeing(s), Access(s) PROVE Access(s)'
      <3>1. PICK from : from = Has(s)
        OBVIOUS
      <3>2. Leads(s, wire[s], from, Due(s))
        BY <2>3, <3>1, AccessIs
      <3>3. world[s].source # "recurly"
        BY <2>3 DEF Agreeing
      <3>4. Leads(s, wire'[s], from, Due(s)')
        BY <1>2, <1>6, <3>2, <3>3, ChangeLeads, RefundLeads
      <3> QED BY <1>4, <2>1, <3>1, <3>4, AccessNext
    <2> QED BY <1>4, <2>1, <2>2, <2>3
  <1>7. ASSUME NEW s \in Subs, Serves(s) PROVE Good
    <2>1. PICK enriched \in BOOLEAN :
            /\ wire[s] # <<>> /\ Process(s, Head(wire[s]), enriched) /\ wire' = [wire EXCEPT ![s] = Tail(@)]
            /\ lame' = IF enriched THEN lame ELSE lame \cup {s}
            /\ UNCHANGED <<world, sub, odd>>
      BY <1>7 DEF Serves
    <2>2. PICK n : n = Head(wire[s])
      OBVIOUS
    <2>3. About(s, n) /\ Process(s, n, enriched)
      BY <1>2, <2>1, <2>2, HeadIsAbout
    <2>4. ent' \in [Users -> States] /\ Fresh' /\ AppRows'
      BY <1>2, <2>1, <2>3, ProcessedUsers
    <2>5. ASSUME NEW t \in Subs, t # s, Agreeing(t), Access(t) PROVE Access(t)'
      <3>1. Has(t)' = Has(t)
        BY <1>1, <1>2, <2>1, <2>3, <2>5, OthersHave DEF Agreeing
      <3>2. wire'[t] = wire[t]
        BY <1>2, <2>1, <2>5
      <3> QED BY <2>1, <2>5, <3>1, <3>2, AccessStays
    <2>6. ASSUME s \notin lame', Agreeing(s), Access(s) PROVE Access(s)'
      <3>1. s \notin lame
        BY <2>1, <2>6
      <3> QED BY <1>1, <2>1, <2>6, <3>1, AccessServed
    <2> QED BY <2>1, <2>4, <2>5, <2>6
  <1>8. ASSUME NEW s \in Subs, Lists(s) PROVE Good
    <2>1. PICK n : /\ world[s].source = "recurly" /\ About(s, n) /\ Process(s, n, TRUE)
                   /\ UNCHANGED <<world, sub, wire, odd, lame>>
      BY <1>8 DEF Lists
    <2>2. ent' \in [Users -> States] /\ Fresh' /\ AppRows'
      BY <1>2, <2>1, ProcessedUsers
    <2>3. ASSUME NEW t \in Subs, Agreeing(t), Access(t) PROVE Access(t)'
      <3>1. t # s
        BY <2>1, <2>3 DEF Agreeing
      <3>2. Has(t)' = Has(t)
        BY <1>1, <1>2, <2>1, <2>3, <3>1, OthersHave DEF Agreeing
      <3> QED BY <2>1, <2>3, <3>2, AccessStays
    <2> QED BY <2>1, <2>2, <2>3
  <1>9. ASSUME NEW s \in Subs, Puts(s) PROVE Good
    <2>1. /\ lame \subseteq lame' /\ UNCHANGED <<world, sub, owner, ent>>
          /\ \A t \in Subs : t # s => wire'[t] = wire[t] /\ (t \in odd' <=> t \in odd)
      BY <1>2, <1>9 DEF Puts
    <2>2. ASSUME NEW t \in Subs, t # s, Access(t) PROVE Access(t)'
      BY <1>4, <2>1, <2>2, AccessStays
    <2>3. Access(s) => Access(s)'
      BY <1>9, AccessPut
    <2> QED BY <1>4, <2>1, <2>2, <2>3
  <1>10. Good
    BY <1>3, <1>5, <1>6, <1>7, <1>8, <1>9 DEF Resting
  <1>11. \A t \in Subs : Agreeing(t)' <=> Agreeing(t)
    BY <1>10 DEF Agreeing, Alone
  <1>12. \A t \in Subs \ lame' : Agreeing(t) => Access(t)'
    BY <1>10 DEF AccessAgrees
  <1> QED BY <1>3, <1>10, <1>11, <1>12 DEF AccessAgrees, EntitlementsAgree, Users

LEMMA AccessInit ==
  ASSUME ProvidersAssumption, Init
  PROVE  AccessAgrees
  <1>1. /\ owner = {} /\ ent = [u \in Users |-> "inactive"] /\ wire = [s \in Subs |-> <<>>]
        /\ sub = [s \in Subs |-> [status |-> "none", cancel |-> FALSE, price |-> 1, token |-> 0]]
        /\ changes = MaxChanges /\ faults = MaxFaults /\ odd = {} /\ overlap = FALSE
    BY DEF Init
  <1>2. EntitlementsAgree
    <2>1. ent \in [Users -> States]
      BY <1>1 DEF States
    <2>2. MaxChanges \in Nat /\ MaxFaults \in Nat
      BY DEF ProvidersAssumption
    <2>3. changes \in 0..MaxChanges /\ faults \in 0..MaxFaults
      BY <1>1, <2>2
    <2> QED BY <1>1, <2>1, <2>3 DEF EntitlementsAgree, Bounds
  <1>3. Fresh /\ AppRows
    BY <1>1 DEF Fresh, AppRows
  <1>4. ASSUME NEW s \in Subs PROVE Access(s)
    <2>1. UsersOf(s) = {}
      BY <1>1 DEF UsersOf
    <2>2. wire[s] = <<>> /\ Has(s) = {"inactive"}
      BY <1>1, <2>1 DEF Has
    <2>3. Due(s) = {"inactive"}
      BY <1>1 DEF Due, Owed
    <2>4. Leads(s, <<>>, {"inactive"}, {"inactive"})
      BY LeadsAtOnce DEF States
    <2> QED BY <2>2, <2>3, <2>4, AccessIs
  <1> QED BY <1>2, <1>3, <1>4 DEF AccessAgrees

LEMMA AccessNow ==
  ASSUME ProvidersAssumption, IInv, AccessAgrees
  PROVE  AccessFollowsPayment
  <1>1. TypeOK
    BY DEF TypeOK, IInv, AccessAgrees, EntitlementsAgree, Bounds
  <1>2. ASSUME NEW s \in Subs \ lame, Followed(s), Alone(s)
        PROVE  Has(s) \subseteq Due(s)
    <2>1. Leads(s, wire[s], Has(s), Due(s)) /\ wire[s] = <<>>
      BY <1>2, AccessIs DEF AccessAgrees, Agreeing, Followed
    <2>2. Leads(s, <<>>, Has(s), Due(s))
      BY <2>1
    <2> QED BY <2>2, LeadsAtOnce
  <1>3. PayersHaveAccess
    <2> SUFFICES ASSUME NEW s \in Subs \ lame, Followed(s), Alone(s), sub[s].status \in Live
                 PROVE  \E u \in UsersOf(s) : ent[u] \in AccessStates
      BY DEF PayersHaveAccess
    <2>1. Due(s) \subseteq AccessStates
      BY DEF Due, Owed, Live, AccessStates
    <2>2. Has(s) \subseteq AccessStates
      BY <1>2, <2>1
    <2>3. UsersOf(s) # {}
      BY <2>2 DEF Has, AccessStates
    <2> QED BY <2>2, <2>3 DEF Has
  <1>4. LapsedHaveNone
    <2> SUFFICES ASSUME NEW s \in Subs, Followed(s), Alone(s), s \notin odd \cup lame,
                        sub[s].status \in {"paused", "ended"}, NEW u \in UsersOf(s)
                 PROVE  ent[u] \notin AccessStates
      BY DEF LapsedHaveNone
    <2>1. Due(s) \cap AccessStates = {}
      BY DEF Due, Owed, AccessStates
    <2>2. ent[u] \in Has(s)
      BY DEF Has
    <2> QED BY <1>2, <2>1, <2>2
  <1> QED BY <1>1, <1>3, <1>4 DEF AccessFollowsPayment

\* Who pays has access and who has lapsed has none, once what was told is
\* processed: at Stripe, Apple and Google, for any number of subscriptions and
\* users, whatever changes in whatever order.  Excepted are who lost the details
\* of a purchase, Apple's customers who share an app, and, from having none, who
\* was imported from Google or revoked while unpaid (the tables of the
\* normalizers and entitlement/engine.ts:85-197).
THEOREM AccessFollows == Spec => []AccessFollowsPayment
  <1>1. Init => AccessAgrees
    BY AccessInit, ProvidersAssumption
  <1>2. IInv /\ AccessAgrees /\ [Next]_vars => AccessAgrees'
    BY AccessStep, ProvidersAssumption
  <1>3. IInv /\ AccessAgrees => AccessFollowsPayment
    BY AccessNow, ProvidersAssumption
  <1> QED BY <1>1, <1>2, <1>3, ProvidersInvariant, PTL DEF Spec
-----------------------------------------------------------------------------
(***************************************************************************)
(* Setting up.                                                             *)
(***************************************************************************)
\* The offered sources can be picked, and an import is for an offered one.
LEMMA ChoicesAreOffered ==
  ASSUME Setup!Parameters
  PROVE  /\ Setup!FirstChoice \in Setup!Choices
         /\ \A c \in Setup!Choices : c # "both" => c \in Offered
         /\ "both" \in Setup!Choices => "stripe" \in Offered
         /\ \A c \in Setup!Choices : Setup!Shows(c) \subseteq Offered
  <1>1. "both" \notin Offered /\ Offered # {}
    BY DEF Setup!Parameters, Setup!ServerParameters
  <1>2. Setup!FirstChoice \in Offered
    <2>1. \E c \in Offered : c = "stripe" \/ "stripe" \notin Offered
      BY <1>1
    <2> QED BY <2>1 DEF Setup!FirstChoice
  <1> QED BY <1>1, <1>2 DEF Setup!Choices, Setup!Shows

\* What a request becomes: where it is and whether somebody waits may change.
Becomes(x, y) ==
  /\ y \in Setup!Exchange /\ y.op = x.op /\ y.key = x.key /\ y.src = x.src
  /\ y.page => x.page

LEMMA Answering ==
  ASSUME NEW x \in Setup!Exchange,
         NEW a \in {"none", "ok", "error", "ready", "connected", "empty", "verified", "unverified",
                    "not_started", "nested"}
  PROVE  LET y == [x EXCEPT !.step = "answered", !.ans = a] IN
         Becomes(x, y) /\ y.step = "answered" /\ y.ans = a
  BY DEF Setup!Exchange, Becomes

LEMMA Going ==
  ASSUME NEW x \in Setup!Exchange, NEW step \in {"sent", "free", "inserted", "valid", "answered"}
  PROVE  LET y == [x EXCEPT !.step = step] IN
         Becomes(x, y) /\ y.step = step /\ y.ans = x.ans
  BY DEF Setup!Exchange, Becomes

LEMMA Leaving ==
  ASSUME NEW x \in Setup!Exchange
  PROVE  LET y == [x EXCEPT !.page = FALSE] IN
         Becomes(x, y) /\ y.step = x.step /\ y.ans = x.ans /\ ~y.page
  BY DEF Setup!Exchange, Becomes

-----------------------------------------------------------------------------
(***************************************************************************)
(* The server.                                                             *)
(***************************************************************************)
\* A creation is as it was where no other key is issued and no other one inserts.
LEMMA CreationStays ==
  ASSUME Setup!OneCreation, UNCHANGED <<orgs, issued>>,
         \A y \in net' : y.step = "inserted" => y \in net
  PROVE  Setup!OneCreation'
  <1>1. \A o : Setup!Inserting(o)' \subseteq Setup!Inserting(o)
    BY DEF Setup!Inserting
  <1>2. \A o : Setup!Inserting(o) = {} => Setup!Inserting(o)' = {}
    BY <1>1
  <1> QED BY <1>1, <1>2 DEF Setup!OneCreation

\* A step of the server with request x, which becomes those of Y.
LEMMA PageStays ==
  ASSUME Setup!ConnectingFollows, UNCHANGED Setup!page, NEW x \in net, NEW Y,
         net' = (net \ {x}) \cup Y,
         \A y \in Y : Becomes(x, y),
         \A o \in Slugs, s \in Offered : conn[<<o, s>>] # "none" => conn'[<<o, s>>] # "none"
  PROVE  Setup!ConnectingFollows'
  <1> USE DEF Setup!page
  <1>1. \A y \in Y : (Setup!Connects(y) => Setup!Connects(x)) /\ y.key = x.key
    BY DEF Becomes, Setup!Connects
  <1>2. \A y \in net' : Setup!Connects(y) => phase # "auth" /\ Setup!Belongs(y.key)
    BY <1>1 DEF Setup!ConnectingFollows
  <1>3. Setup!Fresh' = Setup!Fresh
    BY DEF Setup!Fresh
  <1>4. \A s \in Offered : form[s] = "ready" =>
          \E o \in Slugs : conn'[<<o, s>>] # "none" /\ Setup!Belongs(o)
    BY DEF Setup!ConnectingFollows
  <1> QED BY <1>2, <1>3, <1>4 DEF Setup!ConnectingFollows, Setup!Connects, Setup!Belongs

LEMMA RequestsStay ==
  ASSUME \A x \in net : Setup!RequestIsSound(x), UNCHANGED open, net \subseteq Setup!Exchange,
         \A o \in Slugs, s \in Offered : conn[<<o, s>>] # "none" => conn'[<<o, s>>] # "none"
  PROVE  \A x \in net : Setup!RequestIsSound(x)'
  <1> SUFFICES ASSUME NEW x \in net PROVE Setup!RequestIsSound(x)'
    OBVIOUS
  <1>1. Setup!RequestIsSound(x) /\ x \in Setup!Exchange
    OBVIOUS
  <1> QED BY <1>1 DEF Setup!RequestIsSound, Setup!Exchange

\* The parts of the invariant that the server leaves alone follow from those.
LEMMA ServerStep ==
  ASSUME Setup!Parameters, Setup!IInv, UNCHANGED Setup!page, NEW x \in net, NEW Y,
         net' = (net \ {x}) \cup Y,
         \A y \in Y : Becomes(x, y),
         \A o \in Slugs, s \in Offered : conn[<<o, s>>] # "none" => conn'[<<o, s>>] # "none",
         Setup!ServerTypeOK', Setup!OneCreation', \A y \in Y : Setup!RequestIsSound(y)'
  PROVE  Setup!IInv'
  <1>1. Setup!ConnectingFollows'
    BY PageStays DEF Setup!IInv
  <1>2. \A y \in net : Setup!RequestIsSound(y)'
    BY RequestsStay DEF Setup!IInv, Setup!TypeOK, Setup!ServerTypeOK, Setup!page
  <1>3. Setup!TypeOK'
    BY DEF Setup!IInv, Setup!TypeOK, Setup!page, Setup!Choices
  <1> QED BY <1>1, <1>2, <1>3 DEF Setup!IInv, Setup!page

RowsTyped ==
  /\ orgs \subseteq Slugs
  /\ issued \in [Slugs -> 0..MaxIssued]
  /\ conn \in [Slugs \X Offered -> Setup!Credentials \cup {"none"}]
  /\ job \in [Slugs \X Offered -> {"none", "running", "completed", "failed"}]
  /\ events \subseteq Slugs
  /\ setupFaults \in 0..MaxSetupFaults

Replies == {"none", "ok", "error", "ready", "connected", "empty", "verified", "unverified",
            "not_started", "nested"}

LEMMA AnswerStep ==
  ASSUME Setup!Parameters, Setup!IInv, UNCHANGED Setup!page, NEW x \in net, NEW a \in Replies, Setup!Answers(x, a),
         \A o \in Slugs, s \in Offered : conn[<<o, s>>] # "none" => conn'[<<o, s>>] # "none",
         RowsTyped', Setup!OneCreation',
         a = "ok" /\ x.op \in {"connect", "start"} => x.key \in Slugs,
         a = "ok" /\ x.op = "connect" => conn'[<<x.key, x.src>>] # "none"
  PROVE  Setup!IInv'
  <1> DEFINE y == [x EXCEPT !.step = "answered", !.ans = a]
             Y == IF x.page THEN {y} ELSE {}
  <1>1. x \in Setup!Exchange /\ Setup!RequestIsSound(x) /\ net \subseteq Setup!Exchange
    BY DEF Setup!IInv, Setup!TypeOK, Setup!ServerTypeOK
  <1>2. Becomes(x, y) /\ y.step = "answered" /\ y.ans = a
    BY <1>1, Answering DEF Replies
  <1>3. net' = (net \ {x}) \cup Y
    BY DEF Setup!Answers
  <1>4. Setup!RequestIsSound(y)'
    <2>1. x.op \in Setup!Ops /\ (x.op = "verify" => conn'[<<x.key, x.src>>] # "none")
      BY <1>1 DEF Setup!Exchange, Setup!RequestIsSound
    <2> QED BY <1>1, <1>2, <2>1 DEF Setup!RequestIsSound, Becomes, Setup!page
  <1> HIDE DEF y
  <1>5. \A z \in Y : z = y
    OBVIOUS
  <1>6. Setup!ServerTypeOK'
    BY <1>1, <1>2, <1>3, <1>5 DEF Setup!ServerTypeOK, RowsTyped, Becomes
  <1>7. \A z \in Y : Becomes(x, z) /\ Setup!RequestIsSound(z)'
    BY <1>2, <1>4, <1>5
  <1> HIDE DEF Y
  <1> QED BY <1>3, <1>6, <1>7, ServerStep

LEMMA GoStep ==
  ASSUME Setup!Parameters, Setup!IInv, UNCHANGED Setup!page, NEW x \in net,
         NEW step \in {"free", "inserted", "valid"}, Setup!Goes(x, step),
         UNCHANGED conn, RowsTyped', Setup!OneCreation',
         step = "inserted" => x.op = "org", x.op = "connect" => x.key \in Slugs
  PROVE  Setup!IInv'
  <1> DEFINE y == [x EXCEPT !.step = step]
             Y == {y}
  <1>1. x \in Setup!Exchange /\ Setup!RequestIsSound(x) /\ net \subseteq Setup!Exchange
    BY DEF Setup!IInv, Setup!TypeOK, Setup!ServerTypeOK
  <1>2. Becomes(x, y) /\ y.step = step /\ y.ans = x.ans
    BY <1>1, Going
  <1>3. net' = (net \ {x}) \cup Y
    BY DEF Setup!Goes
  <1>4. Setup!RequestIsSound(y)'
    BY <1>1, <1>2 DEF Setup!RequestIsSound, Becomes, Setup!page
  <1> HIDE DEF y
  <1>6. Setup!ServerTypeOK'
    BY <1>1, <1>2, <1>3 DEF Setup!ServerTypeOK, RowsTyped, Becomes
  <1>7. \A z \in Y : Becomes(x, z) /\ Setup!RequestIsSound(z)'
    BY <1>2, <1>4
  <1> HIDE DEF Y
  <1> QED BY <1>3, <1>6, <1>7, ServerStep

LEMMA RowsStay ==
  ASSUME Setup!IInv, UNCHANGED Setup!server, setupFaults' \in 0..MaxSetupFaults
  PROVE  RowsTyped'
  BY DEF Setup!IInv, Setup!TypeOK, Setup!ServerTypeOK, RowsTyped, Setup!server

\* Questions that change nothing at the server.
LEMMA ReadStep ==
  ASSUME Setup!Parameters, Setup!IInv, UNCHANGED <<Setup!page, Setup!server, setupFaults>>, NEW x \in net,
         NEW a \in Replies, Setup!Answers(x, a), a = "ok" => x.op \notin {"connect", "start"}
  PROVE  Setup!IInv'
  <1>1. RowsTyped' /\ UNCHANGED <<orgs, issued, conn>>
    BY RowsStay DEF Setup!IInv, Setup!TypeOK, Setup!ServerTypeOK, Setup!server
  <1>2. \A y \in net' : y.step = "inserted" => y \in net
    <2>1. x \in Setup!Exchange
      BY DEF Setup!IInv, Setup!TypeOK, Setup!ServerTypeOK
    <2>2. [x EXCEPT !.step = "answered", !.ans = a].step = "answered"
      BY <2>1 DEF Setup!Exchange
    <2> QED BY <2>2 DEF Setup!Answers
  <1>3. Setup!OneCreation'
    BY <1>1, <1>2, CreationStays DEF Setup!IInv
  <1> QED BY <1>1, <1>3, AnswerStep

LEMMA ReadOnlySteps ==
  ASSUME Setup!Parameters, Setup!IInv, UNCHANGED Setup!page, NEW x \in net,
         \/ Setup!Unauthorized(x) \/ Setup!Verify(x) \/ Setup!Status(x) \/ Setup!GetProgress(x) \/ Setup!FirstLook(x)
  PROVE  Setup!IInv'
  <1>1. PICK a \in Replies : Setup!Answers(x, a) /\ (a = "ok" => x.op = "look")
    BY DEF Setup!Unauthorized, Setup!Verify, Setup!Status, Setup!GetProgress, Setup!FirstLook,
       Setup!Serves, Setup!At, Replies
  <1>2. UNCHANGED <<Setup!server, setupFaults>>
    BY DEF Setup!Unauthorized, Setup!Verify, Setup!Status, Setup!GetProgress, Setup!FirstLook
  <1> QED BY <1>1, <1>2, ReadStep

LEMMA SlugIsFreeStep ==
  ASSUME Setup!Parameters, Setup!IInv, UNCHANGED Setup!page, NEW x \in net, Setup!SlugIsFree(x)
  PROVE  Setup!IInv'
  <1>1. CASE Setup!Answers(x, "error")
    BY <1>1, ReadStep DEF Setup!SlugIsFree, Replies
  <1>2. CASE Setup!Goes(x, "free")
    <2>1. RowsTyped' /\ UNCHANGED <<orgs, issued, conn>>
      BY RowsStay DEF Setup!IInv, Setup!TypeOK, Setup!ServerTypeOK, Setup!server, Setup!SlugIsFree
    <2>2. \A y \in net' : y.step = "inserted" => y \in net
      <3>1. x \in Setup!Exchange
        BY DEF Setup!IInv, Setup!TypeOK, Setup!ServerTypeOK
      <3>2. [x EXCEPT !.step = "free"].step = "free"
        BY <3>1 DEF Setup!Exchange
      <3> QED BY <1>2, <3>2 DEF Setup!Goes
    <2>3. Setup!OneCreation'
      BY <2>1, <2>2, CreationStays DEF Setup!IInv
    <2> QED BY <1>2, <2>1, <2>3, GoStep DEF Setup!SlugIsFree, Setup!At
  <1> QED BY <1>1, <1>2 DEF Setup!SlugIsFree

LEMMA ValidateStep ==
  ASSUME Setup!Parameters, Setup!IInv, UNCHANGED Setup!page, NEW x \in net, Setup!Validate(x)
  PROVE  Setup!IInv'
  <1>1. CASE Setup!Answers(x, "error")
    BY <1>1, ReadStep DEF Setup!Validate, Replies
  <1>2. CASE Setup!Goes(x, "valid")
    <2>1. RowsTyped' /\ UNCHANGED <<orgs, issued, conn>>
      BY RowsStay DEF Setup!IInv, Setup!TypeOK, Setup!ServerTypeOK, Setup!server, Setup!Validate
    <2>2. \A y \in net' : y.step = "inserted" => y \in net
      <3>1. x \in Setup!Exchange
        BY DEF Setup!IInv, Setup!TypeOK, Setup!ServerTypeOK
      <3>2. [x EXCEPT !.step = "valid"].step = "valid"
        BY <3>1 DEF Setup!Exchange
      <3> QED BY <1>2, <3>2 DEF Setup!Goes
    <2>3. Setup!OneCreation'
      BY <2>1, <2>2, CreationStays DEF Setup!IInv
    <2> QED BY <1>2, <2>1, <2>3, GoStep DEF Setup!Validate, Setup!Serves, Setup!At, Setup!Keyed
  <1> QED BY <1>1, <1>2 DEF Setup!Validate

LEMMA InsertOrgStep ==
  ASSUME Setup!Parameters, Setup!IInv, UNCHANGED Setup!page, NEW x \in net, Setup!InsertOrg(x)
  PROVE  Setup!IInv'
  <1>1. /\ x \in Setup!Exchange /\ x.op = "org" /\ x.step = "free" /\ x.key \in Slugs
        /\ UNCHANGED <<issued, conn, job, events, setupFaults>>
    BY DEF Setup!InsertOrg, Setup!At, Setup!IInv, Setup!TypeOK, Setup!ServerTypeOK, Setup!RequestIsSound
  <1>2. CASE x.key \in orgs
    BY <1>1, <1>2, ReadStep DEF Setup!InsertOrg, Replies, Setup!server
  <1>3. CASE x.key \notin orgs
    <2> DEFINE y == [x EXCEPT !.step = "inserted"]
    <2>1. Setup!Goes(x, "inserted") /\ orgs' = orgs \cup {x.key}
      BY <1>3 DEF Setup!InsertOrg
    <2>2. RowsTyped'
      BY <1>1, <2>1 DEF Setup!IInv, Setup!TypeOK, Setup!ServerTypeOK, RowsTyped
    <2>3. y.step = "inserted" /\ y.key = x.key
      BY <1>1 DEF Setup!Exchange
    <2> HIDE DEF y
    <2>4. net' = (net \ {x}) \cup {y}
      BY <2>1 DEF Setup!Goes, y
    <2>5. Setup!OneCreation'
      <3> SUFFICES ASSUME NEW o \in Slugs
                   PROVE  /\ issued[o] <= 1
                          /\ o \notin orgs' => issued[o] = 0 /\ Setup!Inserting(o)' = {}
                          /\ issued[o] = 1 => Setup!Inserting(o)' = {}
                          /\ \A v, w \in Setup!Inserting(o)' : v = w
        BY <1>1 DEF Setup!OneCreation
      <3>1. CASE o = x.key
        <4>1. Setup!Inserting(o) = {} /\ issued[o] = 0
          BY <1>1, <1>3, <3>1 DEF Setup!IInv, Setup!OneCreation
        <4>2. Setup!Inserting(o)' = {y}
          BY <2>3, <2>4, <3>1, <4>1 DEF Setup!Inserting
        <4> QED BY <2>1, <3>1, <4>1, <4>2
      <3>2. CASE o # x.key
        <4>1. Setup!Inserting(o)' = Setup!Inserting(o)
          BY <1>1, <2>3, <2>4, <3>2 DEF Setup!Inserting
        <4> QED BY <2>1, <3>2, <4>1 DEF Setup!IInv, Setup!OneCreation
      <3> QED BY <3>1, <3>2
    <2> QED BY <1>1, <2>1, <2>2, <2>5, GoStep
  <1> QED BY <1>2, <1>3

LEMMA InsertKeyStep ==
  ASSUME Setup!Parameters, Setup!IInv, UNCHANGED Setup!page, NEW x \in net, Setup!InsertKey(x)
  PROVE  Setup!IInv'
  <1>1. /\ x \in Setup!Exchange /\ x.op = "org" /\ x.step = "inserted" /\ x.key \in Slugs
        /\ UNCHANGED <<orgs, conn, job, events, setupFaults>>
    BY DEF Setup!InsertKey, Setup!At, Setup!IInv, Setup!TypeOK, Setup!ServerTypeOK, Setup!RequestIsSound
  <1>2. issued[x.key] = 0 /\ x.key \in orgs
    <2>1. x \in Setup!Inserting(x.key)
      BY <1>1 DEF Setup!Inserting
    <2>2. issued[x.key] \in Nat /\ issued[x.key] <= 1
      BY <1>1 DEF Setup!IInv, Setup!OneCreation, Setup!TypeOK, Setup!ServerTypeOK
    <2> QED BY <1>1, <2>1, <2>2 DEF Setup!IInv, Setup!OneCreation
  <1>3. issued \in [Slugs -> 0..MaxIssued] /\ issued' = [issued EXCEPT ![x.key] = @ + 1]
    BY DEF Setup!InsertKey, Setup!IInv, Setup!TypeOK, Setup!ServerTypeOK
  <1>4. RowsTyped'
    <2>1. 1 \in 0..MaxIssued
      BY DEF Setup!Parameters, Setup!ServerParameters
    <2>2. issued' \in [Slugs -> 0..MaxIssued]
      BY <1>1, <1>2, <1>3, <2>1
    <2> QED BY <1>1, <2>2 DEF Setup!IInv, Setup!TypeOK, Setup!ServerTypeOK, RowsTyped
  <1>5. Setup!OneCreation'
    <2>1. \A z \in net' : z.step = "inserted" => z \in net /\ z # x
      <3>1. [x EXCEPT !.step = "answered", !.ans = "ok"].step = "answered"
        BY <1>1 DEF Setup!Exchange
      <3> QED BY <3>1 DEF Setup!InsertKey, Setup!Answers
    <2> SUFFICES ASSUME NEW o \in Slugs
                 PROVE  /\ issued'[o] <= 1
                        /\ o \notin orgs => issued'[o] = 0 /\ Setup!Inserting(o)' = {}
                        /\ issued'[o] = 1 => Setup!Inserting(o)' = {}
                        /\ \A v, w \in Setup!Inserting(o)' : v = w
      BY <1>1 DEF Setup!OneCreation
    <2>2. Setup!Inserting(o)' \subseteq Setup!Inserting(o) \ {x}
      BY <2>1 DEF Setup!Inserting
    <2>3. CASE o = x.key
      <3>1. x \in Setup!Inserting(o) /\ \A v, w \in Setup!Inserting(o) : v = w
        BY <1>1, <2>3 DEF Setup!Inserting, Setup!IInv, Setup!OneCreation
      <3>2. issued'[o] = 1
        BY <1>1, <1>2, <1>3, <2>3
      <3> QED BY <1>2, <2>2, <2>3, <3>1, <3>2
    <2>4. CASE o # x.key
      <3>1. issued'[o] = issued[o]
        BY <1>3, <2>4
      <3> QED BY <2>2, <3>1 DEF Setup!IInv, Setup!OneCreation
    <2> QED BY <2>3, <2>4
  <1> QED BY <1>1, <1>4, <1>5, AnswerStep DEF Setup!InsertKey, Replies

LEMMA UpsertStep ==
  ASSUME Setup!Parameters, Setup!IInv, UNCHANGED Setup!page, NEW x \in net, Setup!Upsert(x)
  PROVE  Setup!IInv'
  <1>1. /\ x \in Setup!Exchange /\ x.op = "connect" /\ x.step = "valid" /\ x.key \in Slugs /\ x.src \in Offered
        /\ UNCHANGED <<orgs, issued, job, events, setupFaults>> /\ x.cred \in Setup!Credentials
    BY DEF Setup!Upsert, Setup!At, Setup!IInv, Setup!TypeOK, Setup!ServerTypeOK,
       Setup!RequestIsSound, Setup!Exchange
  <1>2. /\ conn \in [Slugs \X Offered -> Setup!Credentials \cup {"none"}]
        /\ conn' = [conn EXCEPT ![<<x.key, x.src>>] = x.cred]
    BY DEF Setup!Upsert, Setup!IInv, Setup!TypeOK, Setup!ServerTypeOK
  <1>3. RowsTyped'
    BY <1>1, <1>2 DEF Setup!IInv, Setup!TypeOK, Setup!ServerTypeOK, RowsTyped
  <1>4. x.cred # "none"
    BY <1>1 DEF Setup!Credentials
  <1>5. conn'[<<x.key, x.src>>] # "none"
    BY <1>1, <1>2, <1>4
  <1>6. \A o \in Slugs, s \in Offered : conn[<<o, s>>] # "none" => conn'[<<o, s>>] # "none"
    BY <1>1, <1>2, <1>4
  <1>7. Setup!OneCreation'
    <2>1. [x EXCEPT !.step = "answered", !.ans = "ok"].step = "answered"
      BY <1>1 DEF Setup!Exchange
    <2>2. \A y \in net' : y.step = "inserted" => y \in net
      BY <2>1 DEF Setup!Upsert, Setup!Answers
    <2> QED BY <1>1, <2>2, CreationStays DEF Setup!IInv
  <1> QED BY <1>1, <1>3, <1>5, <1>6, <1>7, AnswerStep DEF Setup!Upsert, Replies

LEMMA StartBackfillStep ==
  ASSUME Setup!Parameters, Setup!IInv, UNCHANGED Setup!page, NEW x \in net, Setup!StartBackfill(x)
  PROVE  Setup!IInv'
  <1>1. /\ x \in Setup!Exchange /\ x.op = "start" /\ x.key \in Slugs /\ x.src \in Offered
        /\ UNCHANGED <<orgs, issued, conn, events, setupFaults>>
    BY DEF Setup!StartBackfill, Setup!Serves, Setup!Keyed, Setup!At, Setup!IInv, Setup!TypeOK,
       Setup!ServerTypeOK, Setup!RequestIsSound
  <1>2. PICK a \in {"ok", "error"} : Setup!Answers(x, a)
    BY DEF Setup!StartBackfill
  <1>3. job' = job \/ job' = [job EXCEPT ![<<x.key, x.src>>] = "running"]
    BY DEF Setup!StartBackfill
  <1>4. RowsTyped'
    BY <1>1, <1>3 DEF Setup!IInv, Setup!TypeOK, Setup!ServerTypeOK, RowsTyped
  <1>5. Setup!OneCreation'
    <2>1. [x EXCEPT !.step = "answered", !.ans = a].step = "answered"
      BY <1>1 DEF Setup!Exchange
    <2>2. \A y \in net' : y.step = "inserted" => y \in net
      BY <1>2, <2>1 DEF Setup!Answers
    <2> QED BY <1>1, <2>2, CreationStays DEF Setup!IInv
  <1> QED BY <1>1, <1>2, <1>4, <1>5, AnswerStep DEF Replies

LEMMA RequestFailsStep ==
  ASSUME Setup!Parameters, Setup!IInv, UNCHANGED Setup!page, NEW x \in net, Setup!RequestFails(x)
  PROVE  Setup!IInv'
  <1>1. /\ x \in Setup!Exchange /\ UNCHANGED Setup!server /\ Setup!RequestIsSound(x) /\ net \subseteq Setup!Exchange
        /\ setupFaults' = setupFaults - 1 /\ setupFaults > 0 /\ setupFaults \in Nat /\ setupFaults <= MaxSetupFaults
    BY DEF Setup!RequestFails, Setup!IInv, Setup!TypeOK, Setup!ServerTypeOK, Setup!Parameters,
       Setup!ServerParameters
  <1>2. setupFaults' \in 0..MaxSetupFaults
    BY <1>1 DEF Setup!Parameters, Setup!ServerParameters
  <1>3. RowsTyped' /\ UNCHANGED <<orgs, issued, conn, job, events>>
    BY <1>1, <1>2, RowsStay DEF Setup!server
  <1>4. CASE Setup!Answers(x, "error")
    <2>1. [x EXCEPT !.step = "answered", !.ans = "error"].step = "answered"
      BY <1>1 DEF Setup!Exchange
    <2>2. \A y \in net' : y.step = "inserted" => y \in net
      BY <1>4, <2>1 DEF Setup!Answers
    <2>3. Setup!OneCreation'
      BY <1>3, <2>2, CreationStays DEF Setup!IInv
    <2> QED BY <1>3, <1>4, <2>3, AnswerStep DEF Replies
  <1>5. CASE /\ x.page
             /\ net' = (net \ {x}) \cup {[x EXCEPT !.step = "answered", !.ans = "error"],
                                         [x EXCEPT !.page = FALSE]}
    <2> DEFINE y == [x EXCEPT !.step = "answered", !.ans = "error"]
               z == [x EXCEPT !.page = FALSE]
               Y == {y, z}
    <2>1. Becomes(x, y) /\ y.step = "answered" /\ y.ans = "error"
      BY <1>1, Answering
    <2>2. Becomes(x, z) /\ z.step = x.step /\ z.ans = x.ans /\ ~z.page
      BY <1>1, Leaving
    <2>3. net' = (net \ {x}) \cup Y
      BY <1>5
    <2> HIDE DEF y, z
    <2>4. Setup!RequestIsSound(y)' /\ Setup!RequestIsSound(z)'
      BY <1>1, <1>3, <2>1, <2>2 DEF Setup!RequestIsSound, Becomes, Setup!page
    <2>5. Setup!OneCreation'
      <3> SUFFICES ASSUME NEW o \in Slugs
                   PROVE  /\ Setup!Inserting(o) = {} => Setup!Inserting(o)' = {}
                          /\ \A v, w \in Setup!Inserting(o)' : v = w
        BY <1>3 DEF Setup!OneCreation, Setup!IInv
      <3>1. \A v \in Setup!Inserting(o)' : v \in Setup!Inserting(o) \ {x} \/ (v = z /\ x \in Setup!Inserting(o))
        BY <2>1, <2>2, <2>3 DEF Setup!Inserting, Becomes
      <3>2. \A v, w \in Setup!Inserting(o) : v = w
        BY DEF Setup!IInv, Setup!OneCreation
      <3> QED BY <3>1, <3>2
    <2>6. Setup!ServerTypeOK'
      BY <1>1, <1>3, <2>1, <2>2, <2>3 DEF Setup!ServerTypeOK, RowsTyped, Becomes
    <2>7. \A v \in Y : Becomes(x, v) /\ Setup!RequestIsSound(v)'
      BY <2>1, <2>2, <2>4
    <2> HIDE DEF Y
    <2> QED BY <1>3, <2>3, <2>5, <2>6, <2>7, ServerStep
  <1> QED BY <1>4, <1>5 DEF Setup!RequestFails

\* What happens at the server without a request.
LEMMA OwnStep ==
  ASSUME Setup!Parameters, Setup!IInv, UNCHANGED Setup!page, NEW o \in Slugs,
         Setup!EventsArrive(o) \/ \E s \in Offered : Setup!JobEnds(o, s)
  PROVE  Setup!IInv'
  <1>1. UNCHANGED <<orgs, issued, conn, net, setupFaults, Setup!page>>
    BY DEF Setup!EventsArrive, Setup!JobEnds
  <1>2. RowsTyped'
    <2>1. CASE Setup!EventsArrive(o)
      BY <2>1 DEF Setup!EventsArrive, Setup!IInv, Setup!TypeOK, Setup!ServerTypeOK, RowsTyped
    <2>2. CASE \E s \in Offered : Setup!JobEnds(o, s)
      <3>1. PICK s \in Offered : Setup!JobEnds(o, s)
        BY <2>2
      <3>2. PICK status \in {"completed", "failed"} : job' = [job EXCEPT ![<<o, s>>] = status]
        BY <3>1 DEF Setup!JobEnds
      <3> QED BY <3>1, <3>2 DEF Setup!JobEnds, Setup!IInv, Setup!TypeOK, Setup!ServerTypeOK, RowsTyped
    <2> QED BY <2>1, <2>2
  <1>3. Setup!OneCreation'
    BY <1>1, CreationStays DEF Setup!IInv
  <1>4. Setup!ConnectingFollows' /\ \A x \in net' : Setup!RequestIsSound(x)'
    <2>1. UNCHANGED <<open, key, phase, form, switched>>
      BY DEF Setup!page
    <2>2. Setup!ConnectingFollows'
      BY <1>1, <2>1 DEF Setup!IInv, Setup!ConnectingFollows, Setup!Connects, Setup!Belongs, Setup!Fresh
    <2>3. \A x \in net : Setup!RequestIsSound(x)'
      BY <1>1, <2>1, RequestsStay DEF Setup!IInv, Setup!TypeOK, Setup!ServerTypeOK
    <2> QED BY <1>1, <2>2, <2>3
  <1>5. Setup!TypeOK'
    BY <1>1, <1>2 DEF Setup!page, Setup!IInv, Setup!TypeOK, Setup!ServerTypeOK, RowsTyped, Setup!Choices
  <1> QED BY <1>3, <1>4, <1>5 DEF Setup!IInv, Setup!page

PageTyped ==
  /\ open \in BOOLEAN /\ visits \in 0..MaxVisits
  /\ {stored, key, shown} \subseteq Slugs \cup {NoKey, WrongKey}
  /\ phase \in {Setup!Phases[i] : i \in 1..4}
  /\ {choice, via} \subseteq Setup!Choices
  /\ form \in [Offered -> {"form", "checking", "error", "ready"}]
  /\ busy \subseteq {"connect", "import"}
  /\ progress \in {"none", "ok"}
  /\ polls \in Slugs \cup {NoKey}
  /\ report \in {"loading", "shown", "error"}
  /\ switched \in BOOLEAN

LEMMA PhasesAre == {Setup!Phases[i] : i \in 1..4} = {"auth", "connect", "import", "report"}
  <1>1. Setup!Phases[1] = "auth" /\ Setup!Phases[2] = "connect" /\ Setup!Phases[3] = "import" /\ Setup!Phases[4] = "report"
    BY DEF Setup!Phases
  <1>2. \A i \in 1..4 : i = 1 \/ i = 2 \/ i = 3 \/ i = 4
    OBVIOUS
  <1> HIDE DEF Setup!Phases
  <1> QED BY <1>1, <1>2

\* A request that the page sends.
LEMMA Sending ==
  ASSUME NEW op \in Setup!Ops, NEW k \in Slugs \cup {NoKey, WrongKey}, NEW s \in Offered \cup {"none"},
         NEW c \in Setup!Credentials
  PROVE  LET y == Setup!Request(op, k, s, c) IN
         /\ y \in Setup!Exchange /\ y.op = op /\ y.key = k /\ y.src = s
         /\ y.step = "sent" /\ y.ans = "none" /\ y.page
  BY DEF Setup!Request, Setup!Exchange

LEMMA SendingSimple ==
  ASSUME NEW op \in Setup!Ops, NEW k \in Slugs \cup {NoKey, WrongKey}
  PROVE  LET y == Setup!Simple(op, k) IN
         y \in Setup!Exchange /\ y.op = op /\ y.key = k /\ y.step = "sent" /\ y.ans = "none" /\ y.page
  <1>1. "good" \in Setup!Credentials
    BY DEF Setup!Credentials
  <1> QED BY <1>1, Sending DEF Setup!Simple

\* What the sections that appear ask for.
LEMMA MountsAre ==
  ASSUME NEW p, NEW k \in Slugs \cup {NoKey, WrongKey}
  PROVE  \A y \in Setup!Mounts(p, k) :
           y \in Setup!Exchange /\ y.op \in {"progress", "look"} /\ y.step = "sent" /\ y.ans = "none"
  <1> SUFFICES ASSUME NEW op \in {"progress", "look"}
               PROVE  LET y == Setup!Simple(op, k) IN
                      /\ y \in Setup!Exchange /\ y.op \in {"progress", "look"} /\ y.step = "sent"
                      /\ y.ans = "none"
    BY DEF Setup!Mounts
  <1>1. op \in Setup!Ops
    BY DEF Setup!Ops
  <1> QED BY <1>1, SendingSimple

\* A step of the page: it sends requests and takes answers off the line.
LEMMA PageStep ==
  ASSUME Setup!Parameters, Setup!IInv, UNCHANGED <<Setup!server, setupFaults, open>>, PageTyped',
         \A y \in net' :
           y \in net \/ (y \in Setup!Exchange /\ y.step # "inserted" /\ Setup!RequestIsSound(y)'),
         Setup!ConnectingFollows', polls' # NoKey => open
  PROVE  Setup!IInv'
  <1>1. UNCHANGED <<orgs, issued, conn, job, events, setupFaults>>
    BY DEF Setup!server
  <1>2. Setup!OneCreation'
    BY <1>1, CreationStays DEF Setup!IInv
  <1>3. \A y \in net : Setup!RequestIsSound(y)'
    BY <1>1, RequestsStay DEF Setup!IInv, Setup!TypeOK, Setup!ServerTypeOK
  <1>4. net' \subseteq Setup!Exchange
    BY DEF Setup!IInv, Setup!TypeOK, Setup!ServerTypeOK
  <1>5. Setup!TypeOK'
    BY <1>1, <1>4 DEF Setup!IInv, Setup!TypeOK, Setup!ServerTypeOK, PageTyped
  <1> QED BY <1>2, <1>3, <1>5 DEF Setup!IInv

\* Section 2 goes on as it was, with the same key.
LEMMA ConnectingStays ==
  ASSUME Setup!ConnectingFollows, UNCHANGED <<conn, key, form, switched>>, phase' = "auth" => phase = "auth",
         \A y \in net' : Setup!Connects(y) => y \in net
  PROVE  Setup!ConnectingFollows'
  BY DEF Setup!ConnectingFollows, Setup!Connects, Setup!Belongs, Setup!Fresh

\* What a step that has to do with neither section 1 nor section 2 may add.
Aside(y) ==
  /\ y \in Setup!Exchange /\ y.step # "inserted"
  /\ y.op \in {"start", "progress", "look"}
  /\ y.op = "start" => y.src \in Offered /\ (y.ans = "ok" => y.key \in Slugs)

LEMMA AsideIsSound ==
  ASSUME NEW y, Aside(y), open'
  PROVE  Setup!RequestIsSound(y)' /\ ~Setup!Connects(y) /\ y \in Setup!Exchange /\ y.step # "inserted"
  BY DEF Aside, Setup!RequestIsSound, Setup!Connects

LEMMA AsideStep ==
  ASSUME Setup!Parameters, Setup!IInv, UNCHANGED <<Setup!server, setupFaults, open, key, form, switched>>, PageTyped',
         phase' = "auth" => phase = "auth",
         \A y \in net' : y \in net \/ (Aside(y) /\ open),
         polls' # NoKey => open
  PROVE  Setup!IInv'
  <1>1. UNCHANGED conn
    BY DEF Setup!server
  <1>2. Setup!ConnectingFollows'
    <2>1. \A y \in net' : Setup!Connects(y) => y \in net
      BY AsideIsSound
    <2> QED BY <1>1, <2>1, ConnectingStays DEF Setup!IInv
  <1>3. \A y \in net' :
          y \in net \/ (y \in Setup!Exchange /\ y.step # "inserted" /\ Setup!RequestIsSound(y)')
    BY AsideIsSound
  <1> QED BY <1>2, <1>3, PageStep

-----------------------------------------------------------------------------
(***************************************************************************)
(* The page and the person.                                                *)
(***************************************************************************)
LEMMA HeardIsOpen ==
  ASSUME Setup!IInv, NEW x \in net, x.page
  PROVE  open /\ x \in Setup!Exchange /\ Setup!RequestIsSound(x)
  BY DEF Setup!IInv, Setup!TypeOK, Setup!ServerTypeOK, Setup!RequestIsSound

LEMMA PageIsTyped ==
  ASSUME Setup!IInv
  PROVE  PageTyped /\ key \in Slugs \cup {NoKey, WrongKey}
  BY DEF Setup!IInv, Setup!TypeOK, PageTyped

\* What is left on the line when sections disappear, and what others ask for.
LEMMA TurningAround ==
  ASSUME Setup!IInv, NEW p, NEW N, N \subseteq net, net' = Setup!StaysOn(p, N) \cup Setup!Mounts(p, key)
  PROVE  \A y \in net' : y \in net \/ Aside(y)
  <1> SUFFICES ASSUME NEW y \in net', y \notin net
               PROVE  Aside(y)
    OBVIOUS
  <1>1. CASE y \in Setup!Mounts(p, key)
    <2>1. y \in Setup!Exchange /\ y.op \in {"progress", "look"} /\ y.step = "sent" /\ y.ans = "none"
      BY <1>1, PageIsTyped, MountsAre
    <2> QED BY <2>1 DEF Aside
  <1>2. CASE y \notin Setup!Mounts(p, key)
    <2>1. PICK x \in N : x.op = "start" /\ x.step # "answered" /\ y = [x EXCEPT !.page = FALSE]
      BY <1>2 DEF Setup!StaysOn
    <2>2. x \in Setup!Exchange /\ Setup!RequestIsSound(x)
      BY DEF Setup!IInv, Setup!TypeOK, Setup!ServerTypeOK
    <2>3. Becomes(x, y) /\ y.step = x.step /\ y.ans = x.ans
      BY <2>1, <2>2, Leaving
    <2> QED BY <2>1, <2>2, <2>3 DEF Aside, Becomes, Setup!RequestIsSound
  <1> QED BY <1>1, <1>2

\* setCurrentPhase and the sections that come and go by it are well typed.
LEMMA TurningTyped ==
  ASSUME Setup!Parameters, Setup!IInv, NEW p \in {"connect", "import", "report"}, NEW N, Setup!TurnTo(p, N)
  PROVE  /\ phase' \in {Setup!Phases[i] : i \in 1..4} /\ phase' # "auth"
         /\ progress' \in {"none", "ok"} /\ polls' \in Slugs \cup {NoKey}
         /\ busy' \subseteq {"connect", "import"} /\ report' \in {"loading", "shown", "error"}
         /\ polls' # NoKey => open
  BY PageIsTyped, PhasesAre DEF PageTyped, Setup!TurnTo, Setup!IInv

LEMMA TurnStep ==
  ASSUME Setup!Parameters, Setup!IInv, NEW p \in {"connect", "import", "report"}, NEW N, N \subseteq net,
         Setup!TurnTo(p, N), open, via' \in Setup!Choices,
         UNCHANGED <<Setup!server, setupFaults, open, visits, stored, key, shown, choice, form, switched>>
  PROVE  Setup!IInv'
  <1>1. PageTyped'
    BY TurningTyped, PageIsTyped DEF PageTyped, Setup!Choices
  <1>2. net' = Setup!StaysOn(p, N) \cup Setup!Mounts(p, key)
    BY DEF Setup!TurnTo
  <1>3. \A y \in net' : y \in net \/ Aside(y)
    BY <1>2, TurningAround
  <1> QED BY <1>1, <1>3, TurningTyped, AsideStep

LEMMA AutoAdvanceStep ==
  ASSUME Setup!Parameters, Setup!IInv, NEW x \in net, x.page, Setup!AutoAdvance(x)
  PROVE  Setup!IInv'
  <1>1. /\ open /\ x.op = "auto" /\ x.step = "answered" /\ via \in Setup!Choices
        /\ UNCHANGED <<Setup!server, setupFaults, open, visits, stored, key, shown, choice, via, form, switched>>
    BY HeardIsOpen, PageIsTyped DEF Setup!AutoAdvance, Setup!At, PageTyped
  <1>2. CASE x.ans = "error"
    <2>1. PageTyped'
      BY <1>1, <1>2, PageIsTyped DEF PageTyped, Setup!Choices, Setup!AutoAdvance
    <2> QED BY <1>1, <1>2, <2>1, AsideStep DEF Setup!AutoAdvance, Setup!IInv
  <1>3. CASE x.ans # "error"
    <2>2. PICK p \in {"connect", "import", "report"} : Setup!TurnTo(p, net \ {x})
      BY <1>3 DEF Setup!AutoAdvance
    <2>3. net \ {x} \subseteq net
      OBVIOUS
    <2> QED BY <1>1, <2>2, <2>3, TurnStep
  <1> QED BY <1>2, <1>3

LEMMA PickStep ==
  ASSUME Setup!Parameters, Setup!IInv, NEW c \in Setup!Choices, Setup!Pick(c)
  PROVE  Setup!IInv'
  <1>1. PageTyped'
    BY PageIsTyped DEF PageTyped, Setup!Pick, Setup!Choices
  <1> QED BY <1>1, AsideStep DEF Setup!Pick, Setup!IInv

LEMMA ContinueToImportStep ==
  ASSUME Setup!Parameters, Setup!IInv, Setup!ContinueToImport
  PROVE  Setup!IInv'
  <1>1. choice \in Setup!Choices
    BY PageIsTyped DEF PageTyped
  <1> QED BY <1>1, TurnStep DEF Setup!ContinueToImport, Setup!InConnect

LEMMA StartImportStep ==
  ASSUME Setup!Parameters, Setup!IInv, Setup!StartImport
  PROVE  Setup!IInv'
  <1> DEFINE s == IF via = "both" THEN "stripe" ELSE via
             y == Setup!Request("start", key, s, "good")
  <1>1. PageTyped'
    BY PageIsTyped DEF PageTyped, Setup!StartImport, Setup!Choices
  <1>2. s \in Offered
    BY PageIsTyped, ChoicesAreOffered DEF PageTyped
  <1>3. Aside(y)
    BY <1>2, PageIsTyped, Sending DEF Setup!Ops, Setup!Credentials, Aside
  <1>4. net' = net \cup {y}
    BY DEF Setup!StartImport
  <1> HIDE DEF y
  <1> QED BY <1>1, <1>3, <1>4, AsideStep DEF Setup!StartImport, Setup!InImport, Setup!IInv

LEMMA ImportStartedStep ==
  ASSUME Setup!Parameters, Setup!IInv, NEW x \in net, x.page, Setup!ImportStarted(x)
  PROVE  Setup!IInv'
  <1>1. open /\ x \in Setup!Exchange /\ (x.ans = "ok" => x.key \in Slugs)
    BY HeardIsOpen DEF Setup!ImportStarted, Setup!At, Setup!RequestIsSound
  <1>2. polls' = polls \/ (x.ans = "ok" /\ polls' = x.key)
    BY DEF Setup!ImportStarted
  <1>3. PageTyped'
    BY <1>1, <1>2, PageIsTyped DEF PageTyped, Setup!ImportStarted, Setup!Choices
  <1>4. \A y \in net' : y \in net \/ (y = Setup!Simple("progress", x.key) /\ x.ans = "ok")
    BY DEF Setup!ImportStarted
  <1>5. x.ans = "ok" => Aside(Setup!Simple("progress", x.key))
    BY <1>1, SendingSimple DEF Setup!Ops, Aside
  <1> QED BY <1>1, <1>3, <1>4, <1>5, AsideStep DEF Setup!ImportStarted

LEMMA PollStep ==
  ASSUME Setup!Parameters, Setup!IInv, Setup!Poll
  PROVE  Setup!IInv'
  <1> DEFINE y == Setup!Simple("progress", polls)
  <1>1. open /\ polls \in Slugs
    BY DEF Setup!Poll, Setup!IInv, Setup!TypeOK
  <1>2. Aside(y)
    BY <1>1, SendingSimple DEF Setup!Ops, Aside
  <1>3. net' = net \cup {y} /\ UNCHANGED <<Setup!server, setupFaults, Setup!page>>
    BY DEF Setup!Poll
  <1> HIDE DEF y
  <1>4. PageTyped'
    BY <1>3, PageIsTyped DEF PageTyped, Setup!page, Setup!Choices
  <1> QED BY <1>1, <1>2, <1>3, <1>4, AsideStep DEF Setup!page

LEMMA SeeProgressStep ==
  ASSUME Setup!Parameters, Setup!IInv, NEW x \in net, x.page, Setup!SeeProgress(x)
  PROVE  Setup!IInv'
  <1>1. phase' \in {phase, "report"} /\ progress' \in {progress, "ok"} /\ polls' \in {polls, NoKey}
    BY DEF Setup!SeeProgress
  <1>2. UNCHANGED <<Setup!server, setupFaults, open, visits, stored, key, shown, choice, via, form, busy, report, switched>>
    BY DEF Setup!SeeProgress
  <1>3. PageTyped'
    BY <1>1, <1>2, PageIsTyped, PhasesAre DEF PageTyped, Setup!Choices
  <1>4. \A y \in net' : y \in net \/ y \in Setup!Mounts("report", key)
    BY DEF Setup!SeeProgress
  <1>5. \A y \in Setup!Mounts("report", key) : Aside(y)
    <2>1. \A y \in Setup!Mounts("report", key) :
            y \in Setup!Exchange /\ y.op \in {"progress", "look"} /\ y.step = "sent" /\ y.ans = "none"
      BY PageIsTyped, MountsAre
    <2> QED BY <2>1 DEF Aside
  <1>6. open /\ (polls' # NoKey => open)
    BY <1>1, HeardIsOpen DEF Setup!IInv
  <1>7. phase' = "auth" => phase = "auth"
    BY <1>1
  <1> QED BY <1>2, <1>3, <1>4, <1>5, <1>6, <1>7, AsideStep

LEMMA SkipStep ==
  ASSUME Setup!Parameters, Setup!IInv, Setup!Skip
  PROVE  Setup!IInv'
  <1>1. via \in Setup!Choices
    BY PageIsTyped DEF PageTyped
  <1> QED BY <1>1, TurnStep DEF Setup!Skip, Setup!InImport

LEMMA SeeReportStep ==
  ASSUME Setup!Parameters, Setup!IInv, NEW x \in net, x.page, Setup!SeeReport(x)
  PROVE  Setup!IInv'
  <1>1. PageTyped'
    BY PageIsTyped DEF PageTyped, Setup!SeeReport, Setup!Choices
  <1> QED BY <1>1, HeardIsOpen, AsideStep DEF Setup!SeeReport

LEMMA LogInStep ==
  ASSUME Setup!Parameters, Setup!IInv, Setup!LogIn
  PROVE  Setup!IInv'
  <1>1. PageTyped'
    BY PageIsTyped DEF PageTyped, Setup!LogIn, Setup!Choices
  <1> QED BY <1>1, AsideStep DEF Setup!LogIn, Setup!IInv

\* In section 1 nothing of section 2 has begun, whatever the key.
LEMMA SectionOne ==
  ASSUME Setup!Parameters, Setup!IInv, open, phase = "auth", PageTyped', phase' = "auth" \/ phase' = "connect",
         UNCHANGED <<Setup!server, setupFaults, open, form, switched, polls>>,
         \A y \in net' : \/ y \in net
                         \/ /\ y \in Setup!Exchange /\ y.op \in {"org", "login"} /\ y.step = "sent"
                            /\ y.op = "org" => y.key \in Slugs
  PROVE  Setup!IInv'
  <1>1. form = Setup!Fresh /\ ~switched /\ \A x \in net : ~Setup!Connects(x)
    BY DEF Setup!IInv, Setup!ConnectingFollows
  <1>2. Setup!ConnectingFollows'
    <2>1. \A y \in net' : ~Setup!Connects(y)'
      BY <1>1 DEF Setup!Connects
    <2>2. form' = Setup!Fresh /\ Setup!Fresh' = Setup!Fresh
      BY <1>1 DEF Setup!Fresh
    <2>3. \A s \in Offered : form'[s] # "ready"
      BY <2>2 DEF Setup!Fresh
    <2> QED BY <1>1, <2>1, <2>2, <2>3 DEF Setup!ConnectingFollows
  <1>3. \A y \in net' :
          y \in net \/ (y \in Setup!Exchange /\ y.step # "inserted" /\ Setup!RequestIsSound(y)')
    BY DEF Setup!RequestIsSound
  <1> QED BY <1>2, <1>3, PageStep DEF Setup!IInv

LEMMA CreateStep ==
  ASSUME Setup!Parameters, Setup!IInv, NEW o \in Slugs, Setup!Create(o)
  PROVE  Setup!IInv'
  <1> DEFINE y == Setup!Simple("org", o)
  <1>1. PageTyped'
    BY PageIsTyped DEF PageTyped, Setup!Create, Setup!Choices, Setup!page
  <1>2. y \in Setup!Exchange /\ y.op = "org" /\ y.step = "sent" /\ y.key \in Slugs
    BY SendingSimple DEF Setup!Ops
  <1>3. net' = net \cup {y}
    BY DEF Setup!Create
  <1> HIDE DEF y
  <1> QED BY <1>1, <1>2, <1>3, SectionOne DEF Setup!Create, Setup!InAuth, Setup!page

LEMMA TypeKeyStep ==
  ASSUME Setup!Parameters, Setup!IInv, NEW k \in Slugs \cup {WrongKey, NoKey}, Setup!TypeKey(k)
  PROVE  Setup!IInv'
  <1>1. PageTyped'
    BY PageIsTyped DEF PageTyped, Setup!TypeKey, Setup!Choices
  <1> QED BY <1>1, SectionOne DEF Setup!TypeKey, Setup!InAuth

LEMMA EnterKeyStep ==
  ASSUME Setup!Parameters, Setup!IInv, Setup!EnterKey
  PROVE  Setup!IInv'
  <1> DEFINE y == Setup!Simple("login", key)
  <1>1. PageTyped'
    BY PageIsTyped DEF PageTyped, Setup!EnterKey, Setup!Choices
  <1>2. y \in Setup!Exchange /\ y.op = "login" /\ y.step = "sent"
    BY PageIsTyped, SendingSimple DEF Setup!Ops
  <1>3. net' = net \cup {y}
    BY DEF Setup!EnterKey
  <1> HIDE DEF y
  <1> QED BY <1>1, <1>2, <1>3, SectionOne DEF Setup!EnterKey, Setup!InAuth

\* The key of an answered sign-in: section 2 has begun nothing, or the key it
\* began with is known to be replaced.
LEMMA KeyTaken ==
  ASSUME Setup!IInv, NEW k, Setup!TakesKey(k), UNCHANGED <<conn, form>>,
         \A y \in net' : Setup!Connects(y) => y \in net, phase' = "auth" => phase = "auth"
  PROVE  Setup!ConnectingFollows' /\ switched' \in BOOLEAN
  <1>1. /\ key' = k /\ switched' = (switched \/ (phase # "auth" /\ k # key))
        /\ switched \in BOOLEAN /\ Setup!ConnectingFollows /\ Setup!Fresh' = Setup!Fresh
    BY DEF Setup!TakesKey, Setup!IInv, Setup!TypeOK, Setup!Fresh
  <1>2. CASE phase = "auth"
    <2>1. form = Setup!Fresh /\ ~switched' /\ \A x \in net : ~Setup!Connects(x)
      BY <1>1, <1>2 DEF Setup!ConnectingFollows
    <2>2. \A s \in Offered : form'[s] # "ready"
      BY <2>1 DEF Setup!Fresh
    <2> QED BY <1>1, <2>1, <2>2 DEF Setup!ConnectingFollows, Setup!Connects
  <1>3. CASE phase # "auth"
    <2>1. \A o : Setup!Belongs(o) => Setup!Belongs(o)'
      BY <1>1, <1>3 DEF Setup!Belongs
    <2>2. \A y \in net' : Setup!Connects(y)' => Setup!Belongs(y.key)'
      BY <1>1, <2>1 DEF Setup!ConnectingFollows, Setup!Connects
    <2>3. \A s \in Offered : form'[s] = "ready" =>
            \E o \in Slugs : conn'[<<o, s>>] # "none" /\ Setup!Belongs(o)'
      BY <1>1, <2>1 DEF Setup!ConnectingFollows
    <2> QED BY <1>1, <1>3, <2>2, <2>3 DEF Setup!ConnectingFollows
  <1> QED BY <1>2, <1>3

LEMMA CreatedStep ==
  ASSUME Setup!Parameters, Setup!IInv, NEW x \in net, x.page, Setup!Created(x)
  PROVE  Setup!IInv'
  <1>1. /\ open /\ x.key \in Slugs /\ x.op = "org"
        /\ UNCHANGED <<Setup!server, setupFaults, open, visits, phase, choice, via, form, busy, progress, polls, report>>
    BY HeardIsOpen DEF Setup!Created, Setup!At, Setup!RequestIsSound
  <1>2. CASE x.ans = "ok"
    <2> DEFINE y == Setup!Simple("look", x.key)
    <2>1. Aside(y)
      BY <1>1, SendingSimple DEF Setup!Ops, Aside
    <2>2. \A z \in net' : z \in net \/ z = y
      BY <1>2 DEF Setup!Created
    <2> HIDE DEF y
    <2>3. Setup!TakesKey(x.key) /\ shown' = x.key /\ stored' = x.key
      BY <1>2 DEF Setup!Created
    <2>4. Setup!ConnectingFollows' /\ switched' \in BOOLEAN
      <3>1. \A z \in net' : Setup!Connects(z) => z \in net
        BY <1>1, <2>1, <2>2, AsideIsSound
      <3>2. UNCHANGED conn
        BY <1>1 DEF Setup!server
      <3> QED BY <1>1, <2>3, <3>1, <3>2, KeyTaken
    <2>5. key' = x.key
      BY <2>3 DEF Setup!TakesKey
    <2>6. PageTyped'
      BY <1>1, <2>3, <2>4, <2>5, PageIsTyped DEF PageTyped, Setup!Choices
    <2>7. \A z \in net' : z \in net \/ (z \in Setup!Exchange /\ z.step # "inserted" /\ Setup!RequestIsSound(z)')
      BY <1>1, <2>1, <2>2, AsideIsSound
    <2> QED BY <1>1, <2>4, <2>6, <2>7, PageStep DEF Setup!IInv
  <1>3. CASE x.ans # "ok"
    <2>1. net' \subseteq net /\ UNCHANGED <<key, switched, shown, stored>>
      BY <1>3 DEF Setup!Created
    <2>2. PageTyped'
      BY <1>1, <2>1, PageIsTyped DEF PageTyped, Setup!Choices
    <2> QED BY <1>1, <2>1, <2>2, AsideStep DEF Setup!IInv
  <1> QED BY <1>2, <1>3

LEMMA KeyCheckedStep ==
  ASSUME Setup!Parameters, Setup!IInv, NEW x \in net, x.page, Setup!KeyChecked(x)
  PROVE  Setup!IInv'
  <1>1. /\ open /\ x.key \in Slugs \cup {NoKey, WrongKey}
        /\ UNCHANGED <<Setup!server, setupFaults, open, visits, stored, shown, choice, via, form>>
    BY HeardIsOpen DEF Setup!KeyChecked, Setup!Exchange
  <1>2. CASE x.ans # "error"
    <2>1. Setup!TakesKey(x.key) /\ Setup!TurnTo("connect", net \ {x})
      BY <1>2 DEF Setup!KeyChecked
    <2>2. net' = Setup!StaysOn("connect", net \ {x}) \cup Setup!Mounts("connect", key)
      BY <2>1 DEF Setup!TurnTo
    <2>3. net \ {x} \subseteq net
      OBVIOUS
    <2>4. \A y \in net' : y \in net \/ Aside(y)
      BY <2>2, <2>3, TurningAround
    <2>5. Setup!ConnectingFollows' /\ switched' \in BOOLEAN
      <3>1. \A z \in net' : Setup!Connects(z) => z \in net
        BY <1>1, <2>4, AsideIsSound
      <3>2. UNCHANGED conn /\ phase' = "connect"
        BY <1>1, <2>1 DEF Setup!server, Setup!TurnTo
      <3> QED BY <1>1, <2>1, <3>1, <3>2, KeyTaken
    <2>6. key' = x.key
      BY <2>1 DEF Setup!TakesKey
    <2>7. PageTyped'
      BY <1>1, <2>1, <2>5, <2>6, TurningTyped, PageIsTyped DEF PageTyped, Setup!Choices
    <2>8. \A z \in net' : z \in net \/ (z \in Setup!Exchange /\ z.step # "inserted" /\ Setup!RequestIsSound(z)')
      BY <1>1, <2>4, AsideIsSound
    <2>9. polls' # NoKey => open
      BY <1>1
    <2> QED BY <1>1, <2>5, <2>7, <2>8, <2>9, PageStep
  <1>3. CASE x.ans = "error"
    <2>1. net' \subseteq net /\ UNCHANGED <<key, switched, phase, busy, progress, polls, report>>
      BY <1>3 DEF Setup!KeyChecked
    <2>2. PageTyped'
      BY <1>1, <2>1, PageIsTyped DEF PageTyped, Setup!Choices
    <2> QED BY <1>1, <2>1, <2>2, AsideStep DEF Setup!IInv
  <1> QED BY <1>2, <1>3

LEMMA ContinueWithKeyStep ==
  ASSUME Setup!Parameters, Setup!IInv, Setup!ContinueWithKey
  PROVE  Setup!IInv'
  <1>1. PageTyped'
    BY PageIsTyped, PhasesAre DEF PageTyped, Setup!ContinueWithKey, Setup!Choices
  <1> QED BY <1>1, SectionOne DEF Setup!ContinueWithKey, Setup!InAuth

\* Section 2 sends a request about the key it has, or hears of one that belongs.
LEMMA ConnectStep ==
  ASSUME Setup!Parameters, Setup!IInv, NEW s \in Offered, NEW cred \in Setup!Credentials,
         Setup!Connect(s, cred) \/ (s = "apple" /\ cred = "good" /\ Setup!ConnectApple)
  PROVE  Setup!IInv'
  <1>1. PICK y : y = Setup!Request("connect", key, s, cred)
    OBVIOUS
  <1>2. /\ y \in Setup!Exchange /\ y.op = "connect" /\ y.key = key /\ y.src = s
        /\ y.step = "sent" /\ y.ans = "none"
    <2>1. key \in Slugs \cup {NoKey, WrongKey} /\ "connect" \in Setup!Ops
      BY PageIsTyped DEF PageTyped, Setup!Ops
    <2> QED BY <1>1, <2>1, Sending
  <1>3. /\ open /\ phase = "connect" /\ busy' = busy \cup {"connect"} /\ net' = net \cup {y}
        /\ UNCHANGED <<Setup!server, setupFaults, open, visits, stored, key, shown, phase, choice, via, progress,
                       polls, report, switched>>
        /\ form' \in {form, [form EXCEPT ![s] = "checking"]}
    BY <1>1 DEF Setup!Connect, Setup!ConnectApple, Setup!MayConnect, Setup!InConnect
  <1>4. PageTyped'
    BY <1>3, PageIsTyped DEF PageTyped, Setup!Choices
  <1>6. UNCHANGED conn
    BY <1>3 DEF Setup!server
  <1>7. Setup!ConnectingFollows'
    <2>1. \A x \in net' : Setup!Connects(x)' => Setup!Belongs(x.key)'
      BY <1>3, <1>2 DEF Setup!IInv, Setup!ConnectingFollows, Setup!Connects, Setup!Belongs
    <2>2. \A v \in Offered : form'[v] = "ready" => form[v] = "ready"
      BY <1>3, PageIsTyped DEF PageTyped
    <2> QED BY <1>3, <1>6, <2>1, <2>2 DEF Setup!IInv, Setup!ConnectingFollows, Setup!Belongs
  <1>8. Setup!RequestIsSound(y)'
    BY <1>3, <1>2 DEF Setup!RequestIsSound
  <1> QED BY <1>3, <1>2, <1>4, <1>7, <1>8, PageStep DEF Setup!IInv

LEMMA AppleConnectStep ==
  ASSUME Setup!Parameters, Setup!IInv, Setup!ConnectApple
  PROVE  Setup!IInv'
  <1>1. "apple" \in Offered /\ "good" \in Setup!Credentials
    BY DEF Setup!ConnectApple, Setup!Credentials
  <1> QED BY <1>1, ConnectStep

\* An answer about a source whose row is there, or was not asked for.
LEMMA HeardOfSource ==
  ASSUME Setup!Parameters, Setup!IInv, NEW x \in net, x.page, x.op \in {"connect", "verify"},
         NEW New, net' = (net \ {x}) \cup New,
         \A y \in New : /\ y \in Setup!Exchange /\ y.op = "verify" /\ y.key = x.key /\ y.src = x.src
                        /\ y.step = "sent" /\ y.ans = "none",
         NEW what \in {"form", "checking", "error", "ready"},
         form' = [form EXCEPT ![x.src] = what],
         what = "ready" \/ New # {} =>
           form[x.src] = "ready" \/ (x.key \in Slugs /\ conn[<<x.key, x.src>>] # "none"),
         New # {} => x.key \in Slugs /\ conn[<<x.key, x.src>>] # "none",
         busy' \in {busy, busy \ {"connect"}},
         UNCHANGED <<Setup!server, setupFaults, open, visits, stored, key, shown, phase, choice, via, progress,
                     polls, report, switched>>
  PROVE  Setup!IInv'
  <1>1. open /\ x \in Setup!Exchange /\ x.src \in Offered /\ Setup!Connects(x)
    BY HeardIsOpen DEF Setup!RequestIsSound, Setup!Connects
  <1>2. Setup!Belongs(x.key) /\ phase # "auth"
    BY <1>1 DEF Setup!IInv, Setup!ConnectingFollows
  <1>3. PageTyped'
    BY <1>1, PageIsTyped DEF PageTyped, Setup!Choices
  <1>5. UNCHANGED conn
    BY DEF Setup!server
  <1>6. Setup!ConnectingFollows'
    <2>1. \A y \in net' : Setup!Connects(y)' => Setup!Belongs(y.key)'
      BY <1>2 DEF Setup!IInv, Setup!ConnectingFollows, Setup!Connects, Setup!Belongs
    <2>2. ASSUME NEW v \in Offered, form'[v] = "ready"
          PROVE  \E o \in Slugs : conn'[<<o, v>>] # "none" /\ Setup!Belongs(o)'
      <3>1. CASE form[v] = "ready"
        BY <1>5, <3>1 DEF Setup!IInv, Setup!ConnectingFollows, Setup!Belongs
      <3>2. CASE form[v] # "ready"
        <4>1. v = x.src /\ what = "ready"
          BY <1>1, <2>2, <3>2, PageIsTyped DEF PageTyped
        <4>2. x.key \in Slugs /\ conn[<<x.key, v>>] # "none"
          BY <3>2, <4>1
        <4> QED BY <1>2, <1>5, <4>2 DEF Setup!Belongs
      <3> QED BY <3>1, <3>2
    <2> QED BY <1>2, <2>1, <2>2 DEF Setup!ConnectingFollows
  <1>7. \A y \in New : Setup!RequestIsSound(y)'
    BY <1>1, <1>5 DEF Setup!RequestIsSound
  <1> QED BY <1>3, <1>6, <1>7, PageStep DEF Setup!IInv

LEMMA ConnectAnsweredStep ==
  ASSUME Setup!Parameters, Setup!IInv, NEW x \in net, x.page, Setup!ConnectAnswered(x)
  PROVE  Setup!IInv'
  <1> DEFINE goesOn == x.ans = "ok" /\ x.src # "apple"
             New == IF goesOn THEN {Setup!Request("verify", x.key, x.src, "good")} ELSE {}
  <1>1. x.op = "connect" /\ x \in Setup!Exchange /\ Setup!RequestIsSound(x) /\ x.src \in Offered
    BY HeardIsOpen DEF Setup!ConnectAnswered, Setup!At, Setup!RequestIsSound
  <1>2. x.ans = "ok" => x.key \in Slugs /\ conn[<<x.key, x.src>>] # "none"
    BY <1>1 DEF Setup!RequestIsSound
  <1>3. form \in [Offered -> {"form", "checking", "error", "ready"}]
    BY PageIsTyped DEF PageTyped
  <1>4. PICK what \in {"form", "checking", "error", "ready"} :
          /\ form' = [form EXCEPT ![x.src] = what]
          /\ what = "ready" => x.ans = "ok" \/ form[x.src] = "ready"
    <2>1. CASE form' = form
      <3>1. form' = [form EXCEPT ![x.src] = form[x.src]]
        BY <1>1, <1>3, <2>1
      <3> QED BY <1>1, <1>3, <3>1
    <2>2. CASE form' = [form EXCEPT ![x.src] = "error"]
      BY <2>2
    <2>3. CASE x.ans = "ok" /\ form' = [form EXCEPT ![x.src] = "ready"]
      BY <2>3
    <2> QED BY <2>1, <2>2, <2>3 DEF Setup!ConnectAnswered
  <1>5. \A y \in New : /\ y \in Setup!Exchange /\ y.op = "verify" /\ y.key = x.key /\ y.src = x.src
                       /\ y.step = "sent" /\ y.ans = "none"
    <2>1. x.key \in Slugs \cup {NoKey, WrongKey} /\ x.src \in Offered \cup {"none"}
      BY <1>1 DEF Setup!Exchange
    <2> QED BY <2>1, Sending DEF Setup!Ops, Setup!Credentials
  <1>6. New # {} => x.ans = "ok"
    OBVIOUS
  <1>7. /\ net' = (net \ {x}) \cup New /\ busy' \in {busy, busy \ {"connect"}}
        /\ UNCHANGED <<Setup!server, setupFaults, open, visits, stored, key, shown, phase, choice, via, progress,
                       polls, report, switched>>
    BY DEF Setup!ConnectAnswered
  <1> HIDE DEF New
  <1> QED BY <1>1, <1>2, <1>4, <1>5, <1>6, <1>7, HeardOfSource

LEMMA VerifyAnsweredStep ==
  ASSUME Setup!Parameters, Setup!IInv, NEW x \in net, x.page, Setup!VerifyAnswered(x)
  PROVE  Setup!IInv'
  <1>1. x.op = "verify" /\ x.key \in Slugs /\ conn[<<x.key, x.src>>] # "none"
    BY HeardIsOpen DEF Setup!VerifyAnswered, Setup!At, Setup!RequestIsSound
  <1>2. PICK New : New = {}
    OBVIOUS
  <1>3. PICK what \in {"form", "checking", "error", "ready"} : form' = [form EXCEPT ![x.src] = what]
    BY DEF Setup!VerifyAnswered
  <1>4. /\ net' = (net \ {x}) \cup New /\ busy' \in {busy, busy \ {"connect"}}
        /\ UNCHANGED <<Setup!server, setupFaults, open, visits, stored, key, shown, phase, choice, via, progress,
                       polls, report, switched>>
    BY <1>2 DEF Setup!VerifyAnswered
  <1>5. /\ \A y \in New : /\ y \in Setup!Exchange /\ y.op = "verify" /\ y.key = x.key /\ y.src = x.src
                          /\ y.step = "sent" /\ y.ans = "none"
        /\ what = "ready" \/ New # {} =>
             form[x.src] = "ready" \/ (x.key \in Slugs /\ conn[<<x.key, x.src>>] # "none")
        /\ New # {} => x.key \in Slugs /\ conn[<<x.key, x.src>>] # "none"
        /\ x.op \in {"connect", "verify"}
    BY <1>1, <1>2
  <1> QED BY <1>3, <1>4, <1>5, HeardOfSource

\* The page opens, or is left: nothing of it stays but the key in the browser.
LEMMA BlankPage ==
  ASSUME Setup!Parameters, Setup!Blank, visits' \in 0..MaxVisits, open' \in BOOLEAN,
         {stored', key'} \subseteq Slugs \cup {NoKey, WrongKey}
  PROVE  PageTyped'
  <1>1. Setup!FirstChoice \in Setup!Choices
    BY ChoicesAreOffered
  <1>2. Setup!Choices' = Setup!Choices
    BY DEF Setup!Choices
  <1> QED BY <1>1, <1>2, PhasesAre DEF PageTyped, Setup!Blank, Setup!Fresh

LEMMA BlankSections ==
  ASSUME Setup!Blank, \A x \in net' : ~Setup!Connects(x)'
  PROVE  Setup!ConnectingFollows'
  <1>1. form' = Setup!Fresh' /\ ~switched'
    BY DEF Setup!Blank, Setup!Fresh
  <1>2. \A s \in Offered : form'[s] # "ready"
    BY <1>1 DEF Setup!Fresh
  <1> QED BY <1>1, <1>2 DEF Setup!ConnectingFollows

LEMMA OpenStep ==
  ASSUME Setup!Parameters, Setup!IInv, Setup!Open
  PROVE  Setup!IInv'
  <1> DEFINE New == IF stored = NoKey THEN {} ELSE {Setup!Simple("auto", stored)}
  <1>1. \A x \in net : ~x.page
    BY DEF Setup!Open, Setup!IInv, Setup!RequestIsSound
  <1>2. stored \in Slugs \cup {NoKey, WrongKey} /\ visits \in 0..MaxVisits /\ MaxVisits \in Nat
    BY DEF Setup!IInv, Setup!TypeOK, Setup!Parameters
  <1>3. \A y \in New : y \in Setup!Exchange /\ y.op = "auto" /\ y.step = "sent" /\ y.ans = "none"
    BY <1>2, SendingSimple DEF Setup!Ops
  <1>4. /\ net' = net \cup New /\ open' = TRUE /\ Setup!Blank /\ UNCHANGED <<Setup!server, setupFaults, stored>>
        /\ key' = stored /\ visits' = visits + 1 /\ visits < MaxVisits
    BY DEF Setup!Open
  <1> HIDE DEF New
  <1>5. PageTyped'
    BY <1>2, <1>4, BlankPage
  <1>6. Setup!ConnectingFollows'
    <2>1. \A x \in net' : ~Setup!Connects(x)'
      BY <1>1, <1>3, <1>4 DEF Setup!Connects
    <2> QED BY <1>4, <2>1, BlankSections
  <1>7. UNCHANGED <<orgs, issued, conn, job, events, setupFaults>>
    BY <1>4 DEF Setup!server
  <1>8. Setup!OneCreation'
    BY <1>3, <1>4, <1>7, CreationStays DEF Setup!IInv
  <1>9. \A x \in net' : Setup!RequestIsSound(x)'
    BY <1>1, <1>3, <1>4, <1>7 DEF Setup!IInv, Setup!RequestIsSound
  <1>10. Setup!TypeOK'
    BY <1>3, <1>4, <1>5, <1>7 DEF Setup!IInv, Setup!TypeOK, Setup!ServerTypeOK, PageTyped
  <1> QED BY <1>4, <1>6, <1>8, <1>9, <1>10 DEF Setup!IInv

LEMMA LeaveStep ==
  ASSUME Setup!Parameters, Setup!IInv, Setup!Leave
  PROVE  Setup!IInv'
  <1> DEFINE Left(x) == [x EXCEPT !.page = FALSE]
             Carried == {y \in net : y.step # "answered" /\ y.op \in {"org", "connect", "start"}}
  <1>1. /\ net' = {Left(x) : x \in Carried} /\ open' = FALSE /\ key' = NoKey /\ Setup!Blank
        /\ UNCHANGED <<Setup!server, setupFaults, visits, stored>>
    BY DEF Setup!Leave
  <1>2. \A x \in net : /\ Becomes(x, Left(x)) /\ Left(x).step = x.step /\ Left(x).ans = x.ans
                       /\ ~Left(x).page /\ Setup!RequestIsSound(x)
    BY Leaving DEF Setup!IInv, Setup!TypeOK, Setup!ServerTypeOK
  <1> HIDE DEF Left
  <1>3. PageTyped'
    <2>1. visits \in 0..MaxVisits /\ stored \in Slugs \cup {NoKey, WrongKey}
      BY DEF Setup!IInv, Setup!TypeOK
    <2> QED BY <1>1, <2>1, BlankPage
  <1>4. Setup!ConnectingFollows'
    <2>1. \A x \in net' : ~Setup!Connects(x)'
      BY <1>1, <1>2 DEF Setup!Connects
    <2> QED BY <1>1, <2>1, BlankSections
  <1>5. UNCHANGED <<orgs, issued, conn, job, events, setupFaults>>
    BY <1>1 DEF Setup!server
  <1>6. Setup!OneCreation'
    <2> SUFFICES ASSUME NEW o \in Slugs
                 PROVE  /\ Setup!Inserting(o) = {} => Setup!Inserting(o)' = {}
                        /\ \A v, w \in Setup!Inserting(o)' : v = w
      BY <1>5 DEF Setup!OneCreation, Setup!IInv
    <2>1. \A v \in Setup!Inserting(o)' : \E x \in Setup!Inserting(o) : v = Left(x)
      BY <1>1, <1>2 DEF Setup!Inserting, Becomes
    <2>2. \A v, w \in Setup!Inserting(o) : v = w
      BY DEF Setup!IInv, Setup!OneCreation
    <2> QED BY <2>1, <2>2
  <1>7. \A x \in net' : Setup!RequestIsSound(x)'
    <2> SUFFICES ASSUME NEW x \in net PROVE Setup!RequestIsSound(Left(x))'
      BY <1>1
    <2> QED BY <1>2, <1>5 DEF Setup!RequestIsSound, Becomes
  <1>8. Setup!TypeOK'
    <2>1. net' \subseteq Setup!Exchange
      BY <1>1, <1>2 DEF Becomes
    <2> QED BY <1>3, <1>5, <2>1 DEF Setup!IInv, Setup!TypeOK, Setup!ServerTypeOK, PageTyped
  <1> QED BY <1>1, <1>4, <1>6, <1>7, <1>8 DEF Setup!IInv, Setup!Blank

LEMMA SetupStep ==
  ASSUME Setup!Parameters, Setup!IInv, [Setup!Next]_(Setup!vars)
  PROVE  Setup!IInv'
  <1>1. CASE UNCHANGED Setup!vars
    <2>1. UNCHANGED <<orgs, issued, conn, job, events, net, setupFaults, Setup!page>>
      BY <1>1 DEF Setup!vars, Setup!server
    <2>2. Setup!OneCreation'
      BY <2>1, CreationStays DEF Setup!IInv
    <2>3. UNCHANGED <<open, visits, stored, key, shown, phase, choice, via, form, busy, progress, polls, report,
                      switched>>
      BY <2>1 DEF Setup!page
    <2>4. PageTyped'
      BY <2>3, PageIsTyped DEF PageTyped, Setup!Choices
    <2>5. Setup!IInv'
      BY <2>1, <2>3, <2>4, AsideStep DEF Setup!server, Setup!IInv
    <2> QED BY <2>5
  <1>2. CASE Setup!ServerNext /\ UNCHANGED Setup!page
    <2>1. CASE \E x \in net : Setup!Serve(x) \/ Setup!RequestFails(x)
      <3>1. PICK x \in net : Setup!Serve(x) \/ Setup!RequestFails(x)
        BY <2>1
      <3> QED BY <1>2, <3>1, SlugIsFreeStep, InsertOrgStep, InsertKeyStep, ReadOnlySteps, ValidateStep,
                 UpsertStep, StartBackfillStep, RequestFailsStep DEF Setup!Serve
    <2>2. CASE \E o \in Slugs : Setup!EventsArrive(o) \/ \E s \in Offered : Setup!JobEnds(o, s)
      BY <1>2, <2>2, OwnStep
    <2> QED BY <1>2, <2>1, <2>2 DEF Setup!ServerNext
  <1>3. CASE \E x \in net : Setup!Hears(x)
    <2>1. PICK x \in net : Setup!Hears(x)
      BY <1>3
    <2> QED BY <2>1, AutoAdvanceStep, CreatedStep, KeyCheckedStep, ConnectAnsweredStep,
               VerifyAnsweredStep, ImportStartedStep, SeeProgressStep, SeeReportStep DEF Setup!Hears
  <1>4. CASE Setup!Poll
    BY <1>4, PollStep
  <1>5. CASE Setup!User
    BY <1>5, OpenStep, LeaveStep, LogInStep, ContinueWithKeyStep, AppleConnectStep, ContinueToImportStep,
       StartImportStep, SkipStep, CreateStep, TypeKeyStep, EnterKeyStep, PickStep, ConnectStep DEF Setup!User
  <1> QED BY <1>1, <1>2, <1>3, <1>4, <1>5 DEF Setup!Next

LEMMA SetupInit ==
  ASSUME Setup!Parameters, Setup!Init
  PROVE  Setup!IInv
  <1>1. stored \in Slugs \cup {NoKey} /\ Setup!ServerInit(stored) /\ net = {} /\ key = NoKey /\ shown = NoKey
    BY DEF Setup!Init, Setup!ServerInit
  <1>2. Setup!FirstChoice \in Setup!Choices /\ 0 \in 0..MaxVisits /\ MaxSetupFaults \in 0..MaxSetupFaults
        /\ {0, 1} \subseteq 0..MaxIssued
    BY ChoicesAreOffered DEF Setup!Parameters, Setup!ServerParameters
  <1>3. PageTyped
    BY <1>1, <1>2, PhasesAre DEF Setup!Init, PageTyped, Setup!Fresh
  <1>4. Setup!ServerTypeOK
    <2>1. issued \in [Slugs -> 0..MaxIssued]
      BY <1>1, <1>2 DEF Setup!ServerInit
    <2>2. conn \in [Slugs \X Offered -> Setup!Credentials \cup {"none"}]
      BY <1>1 DEF Setup!ServerInit, Setup!Credentials
    <2> QED BY <1>1, <1>2, <2>1, <2>2 DEF Setup!ServerInit, Setup!ServerTypeOK
  <1>5. Setup!OneCreation
    <2>1. \A o : Setup!Inserting(o) = {}
      BY <1>1 DEF Setup!Inserting
    <2> QED BY <1>1, <2>1 DEF Setup!ServerInit, Setup!OneCreation
  <1>7. Setup!ConnectingFollows
    <2>1. form = Setup!Fresh /\ ~switched /\ \A s \in Offered : form[s] # "ready"
      BY DEF Setup!Init, Setup!Fresh
    <2> QED BY <1>1, <2>1 DEF Setup!ConnectingFollows
  <1> QED BY <1>1, <1>3, <1>4, <1>5, <1>7 DEF Setup!IInv, Setup!TypeOK, PageTyped, Setup!Init

-----------------------------------------------------------------------------
\* The inductive invariant: every step of the server, the page and the person
\* keeps it.
THEOREM SetupInvariant == Setup!Spec => []Setup!IInv
<1>1. Setup!Parameters
  BY AccountsAssumption DEF AccountsAssumption
<1>2. Setup!Init => Setup!IInv
  BY <1>1, SetupInit
<1>3. Setup!IInv /\ [Setup!Next]_(Setup!vars) => Setup!IInv'
  BY <1>1, SetupStep
<1> QED BY <1>2, <1>3, PTL DEF Setup!Spec

\* An organization has one owner, and a source the page calls ready to import is
\* connected for the organization the page would start the import with, through
\* lost answers, pages that were left and keys typed meanwhile
\* (Onboarding.tsx:841-846, api/onboarding.ts:49-151).  The exception: a sign-in
\* that overlapped another one, or autoAdvance, has put its key in that one's
\* place; the source is then connected for some organization.
THEOREM SetupHolds == Setup!Spec => []SetupIsSound
<1>1. ASSUME Setup!IInv PROVE Setup!ReadyIsConnected
  <2> SUFFICES ASSUME NEW s \in Offered, form[s] = "ready"
               PROVE  \/ conn[<<key, s>>] # "none"
                      \/ switched /\ \E o \in Slugs \ {key} : conn[<<o, s>>] # "none"
    BY DEF Setup!ReadyIsConnected
  <2> QED BY <1>1 DEF Setup!IInv, Setup!ConnectingFollows, Setup!Belongs
<1>2. Setup!IInv => SetupIsSound
  BY <1>1 DEF Setup!IInv, Setup!OneCreation, Setup!OneOwner, Setup!SetupIsSound, SetupIsSound
<1> QED BY <1>2, SetupInvariant, PTL
=============================================================================
