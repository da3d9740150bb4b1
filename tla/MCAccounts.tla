----------------------------- MODULE MCAccounts -----------------------------
(***************************************************************************)
(* Accounts for TLC, one end at a time while the other stays as it began:  *)
(* SetupSpec, somebody sets up one of the Slugs; BillingSpec, two          *)
(* subscriptions, of one organization at one source or of two              *)
(* organizations at Google.                                                *)
(***************************************************************************)
EXTENDS Accounts, TLC

Together(org, source) == [s \in Subs |-> [org |-> org, source |-> source]]
OneWorld == {Together("acme", "stripe")}
McWorlds ==
  {Together("acme", source) : source \in {"stripe", "apple", "recurly"}}
  \cup {w \in [Subs -> [org : {"acme", "emca"}, source : {"google"}]] :
          \A s, t \in Subs : s # t => w[s].org # w[t].org}

all == <<vars, setting>>

\* Who was set up before has Stripe at most.
SetupInit == Init /\ Setup!Init /\ \A os \in DOMAIN conn : os[2] = "apple" => conn[os] = "none"
OnTheLine == 2  \* bound: requests and answers on their way at a time
SetupNext == Setup!Next /\ Cardinality(net') <= OnTheLine /\ UNCHANGED vars
SetupSpec == SetupInit /\ [][SetupNext]_all

BillingInit == Init /\ Setup!Init /\ stored = NoKey
BillingNext == Next /\ UNCHANGED setting
BillingSpec == BillingInit /\ [][BillingNext]_all

Symmetry == Permutations(Slugs) \cup Permutations(Subs)
=============================================================================
