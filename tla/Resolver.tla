------------------------------ MODULE Resolver ------------------------------
(***************************************************************************)
(* Whose event is it?  Before an event is stored the pipeline resolves its *)
(* user from identity hints (identity/resolver.ts) and its product from    *)
(* the external product id (resolveProduct in ingestion/pipeline.ts), both *)
(* by looking first and creating what is missing.                          *)
(*                                                                         *)
(* One call per event.  Every query is a step of its own: one look-up per  *)
(* hint, the insert of the user, one insert per identity, the select of    *)
(* the products and the insert of a product.                               *)
(***************************************************************************)
EXTENDS Naturals, Sequences, FiniteSets

CONSTANTS
  Calls,       \* events whose user and product are resolved
  Identities,  \* pairs of billing source and external id
  ExternalIds, \* external product ids
  NoProduct,   \* the event names no product
  MaxFaults,   \* bound: calls that throw or whose process dies
  MaxOverlaps  \* bound: calls that begin while another is under way

ASSUME ResolverAssumption ==
  /\ NoProduct \notin ExternalIds
  /\ {MaxFaults, MaxOverlaps} \subseteq Nat

VARIABLES
  hints,     \* hints[c]: the identity hints of event c
  external,  \* external[c]: the external product id of event c
  users,     \* how many users exist; a user is its place in order of creation
  owner,     \* owner[i]: user that user_identities says has i, or 0
  products,  \* the products table: external ids in order of insertion
  pc,        \* pc[c]: the next query of call c
  todo,      \* todo[c]: hints still to look up or to insert
  matched,   \* matched[c]: users the look-ups found
  user,      \* user[c]: the user resolved, or 0
  product,   \* product[c]: the product resolved, or 0
  known,     \* history: hints of c that had an owner when the call began
  overlaps,  \* history: how many calls began while another was under way
  faults     \* how many faults are left

vars == <<hints, external, users, owner, products, pc, todo, matched, user,
          product, known, overlaps, faults>>
event == <<hints, external>>

TypeOK ==
  /\ hints \in [Calls -> (SUBSET Identities) \ {{}}]
  /\ external \in [Calls -> ExternalIds \cup {NoProduct}]
  /\ users \in Nat
  /\ owner \in [Identities -> 0..users]
  /\ products \in Seq(ExternalIds)
  /\ pc \in [Calls -> {"new", "lookup", "create", "link", "product",
                       "insertProduct", "done", "dead"}]
  /\ todo \in [Calls -> SUBSET Identities]
  /\ matched \in [Calls -> SUBSET (1..users)]
  /\ user \in [Calls -> 0..users]
  /\ product \in [Calls -> 0..Len(products)]
  /\ known \in [Calls -> SUBSET Identities]
  /\ overlaps \in Nat
  /\ faults \in Nat

Init ==
  /\ hints \in [Calls -> (SUBSET Identities) \ {{}}]
  /\ external \in [Calls -> ExternalIds \cup {NoProduct}]
  /\ users = 0
  /\ owner = [i \in Identities |-> 0]
  /\ products = <<>>
  /\ pc = [c \in Calls |-> "new"]
  /\ todo = [c \in Calls |-> {}]
  /\ matched = [c \in Calls |-> {}]
  /\ user = [c \in Calls |-> 0]
  /\ product = [c \in Calls |-> 0]
  /\ known = [c \in Calls |-> {}]
  /\ overlaps = 0
  /\ faults = MaxFaults
-----------------------------------------------------------------------------
Goto(c, label) == pc' = [pc EXCEPT ![c] = label]

UnderWay(c) == pc[c] \notin {"new", "done", "dead"}

Begin(c) ==
  /\ pc[c] = "new"
  /\ IF \E d \in Calls : UnderWay(d)
     THEN overlaps < MaxOverlaps /\ overlaps' = overlaps + 1
     ELSE UNCHANGED overlaps
  /\ Goto(c, "lookup")
  /\ todo' = [todo EXCEPT ![c] = hints[c]]
  /\ known' = [known EXCEPT ![c] = {i \in hints[c] : owner[i] # 0}]
  /\ UNCHANGED <<event, users, owner, products, matched, user, product, faults>>

\* The look-up of one hint; the last one is not yet followed by a decision.
Lookup(c) ==
  /\ pc[c] = "lookup"
  /\ \E i \in todo[c] :
       /\ todo' = [todo EXCEPT ![c] = @ \ {i}]
       /\ matched' = [matched EXCEPT ![c] = IF owner[i] = 0 THEN @ ELSE @ \cup {owner[i]}]
  /\ UNCHANGED <<event, users, owner, products, pc, user, product, known, overlaps, faults>>

\* ORDER BY created_at LIMIT 1
Oldest(u, us) == u \in us /\ \A v \in us : u <= v

\* Some hint was known: the oldest user matched is taken, the rest is linked.
Match(c) ==
  /\ pc[c] = "lookup" /\ todo[c] = {}
  /\ \E u \in matched[c] : Oldest(u, matched[c]) /\ user' = [user EXCEPT ![c] = u]
  /\ todo' = [todo EXCEPT ![c] = hints[c]]
  /\ Goto(c, "link")
  /\ UNCHANGED <<event, users, owner, products, matched, product, known, overlaps, faults>>

\* Mutant: the hints are not linked to the user created.
Create_NoLink(c) ==
  /\ pc[c] = "lookup" /\ todo[c] = {} /\ matched[c] = {}
  /\ users' = users + 1
  /\ user' = [user EXCEPT ![c] = users + 1]
  /\ Goto(c, "link")
  /\ UNCHANGED <<event, owner, products, todo, matched, product, known, overlaps, faults>>

\* Mutant: the first hint that is not found decides.
Create_FirstMiss(c) ==
  /\ pc[c] = "lookup" /\ todo[c] # hints[c] /\ matched[c] = {}
  /\ users' = users + 1
  /\ user' = [user EXCEPT ![c] = users + 1]
  /\ todo' = [todo EXCEPT ![c] = hints[c]]
  /\ Goto(c, "link")
  /\ UNCHANGED <<event, owner, products, matched, product, known, overlaps, faults>>

\* createUser
Create(c) ==
  /\ pc[c] = "lookup" /\ todo[c] = {} /\ matched[c] = {}
  /\ users' = users + 1
  /\ user' = [user EXCEPT ![c] = users + 1]
  /\ todo' = [todo EXCEPT ![c] = hints[c]]
  /\ Goto(c, "link")
  /\ UNCHANGED <<event, owner, products, matched, product, known, overlaps, faults>>

\* INSERT INTO user_identities ... ON CONFLICT DO NOTHING
Link(c) ==
  /\ pc[c] = "link"
  /\ \E i \in todo[c] :
       /\ todo' = [todo EXCEPT ![c] = @ \ {i}]
       /\ owner' = [owner EXCEPT ![i] = IF @ = 0 THEN user[c] ELSE @]
  /\ UNCHANGED <<event, users, products, pc, matched, user, product, known, overlaps, faults>>

Linked(c) ==
  /\ pc[c] = "link" /\ todo[c] = {}
  /\ Goto(c, IF external[c] = NoProduct THEN "done" ELSE "product")
  /\ UNCHANGED <<event, users, owner, products, todo, matched, user, product, known, overlaps, faults>>

\* Any product with the external id: the select has no order.
FindProduct(c) ==
  /\ pc[c] = "product"
  /\ \E p \in 1..Len(products) :
       products[p] = external[c] /\ product' = [product EXCEPT ![c] = p]
  /\ Goto(c, "done")
  /\ UNCHANGED <<event, users, owner, products, todo, matched, user, known, overlaps, faults>>

NoSuchProduct(c) ==
  /\ pc[c] = "product"
  /\ \A p \in 1..Len(products) : products[p] # external[c]
  /\ Goto(c, "insertProduct")
  /\ UNCHANGED <<event, users, owner, products, todo, matched, user, product, known, overlaps, faults>>

InsertProduct(c) ==
  /\ pc[c] = "insertProduct"
  /\ products' = Append(products, external[c])
  /\ product' = [product EXCEPT ![c] = Len(products) + 1]
  /\ Goto(c, "done")
  /\ UNCHANGED <<event, users, owner, todo, matched, user, known, overlaps, faults>>

\* A query throws or the process dies; what was inserted stays.
Die(c) ==
  /\ UnderWay(c)
  /\ faults > 0
  /\ faults' = faults - 1
  /\ Goto(c, "dead")
  /\ UNCHANGED <<event, users, owner, products, todo, matched, user, product, known, overlaps>>

Step(c) ==
  \/ Begin(c) \/ Lookup(c) \/ Match(c) \/ Create(c) \/ Link(c) \/ Linked(c)
  \/ FindProduct(c) \/ NoSuchProduct(c) \/ InsertProduct(c) \/ Die(c)

Next == \E c \in Calls : Step(c)

Spec == Init /\ [][Next]_vars
-----------------------------------------------------------------------------
\* When a call has its user, all the hints of the event have an owner: the
\* next event with any of them will not create a user.
Resolved(c) == pc[c] \in {"product", "insertProduct", "done"}
HintsAreOwned == \A c \in Calls : Resolved(c) => \A i \in hints[c] : owner[i] # 0

\* A call one of whose hints was known when it began takes a user that owns
\* one of its hints; only calls that race for new hints may come away with a
\* user nobody will find again.
KnownIsFound ==
  \A c \in Calls : user[c] # 0 /\ known[c] # {} => \E i \in hints[c] : owner[i] = user[c]

\* When calls do not overlap, events with the same hints and product belong to
\* the same user and product, also after calls that died half-way and after
\* hints that were first seen apart.
SameRow == \A c, d \in Calls :
  /\ pc[c] = "done" /\ pc[d] = "done" /\ overlaps = 0
  /\ hints[c] = hints[d] /\ external[c] = external[d]
  => user[c] = user[d] /\ product[c] = product[d]
=============================================================================
