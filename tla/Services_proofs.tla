-------------------------- MODULE Services_proofs --------------------------
(***************************************************************************)
(* Services for any values of its constants: the resolver for any number   *)
(* of events, identities and products, the rate limiter for any callers,   *)
(* sizes and clocks, the issue list for any issues, the Slack bot for any  *)
(* people, turns and limits, the reports on any issues, and the circuit    *)
(* breaker for any calls, thresholds and timeouts.                         *)
(*                                                                         *)
(* Resolver: however many calls race, throw or die, identities never       *)
(* change hands, a call that has its user left no hint without owner, and  *)
(* one of whose hints was known takes a user that will be found again.     *)
(* Inductive is what a call carries from query to query: the users it      *)
(* matched own some hint of its event, every known hint it looked up is    *)
(* among them, and every hint it is done with has an owner.                *)
(*                                                                         *)
(* Slack bot: a thread that nothing disturbed has at most one turn behind  *)
(* its look-up, and that turn knows what people saw; what Redis keeps is   *)
(* whole exchanges; the attempts of the window that passed are counted.    *)
(*                                                                         *)
(* Reports: what the queries of a report count only grows after its        *)
(* beginning, and the period it is compared with is over. An incident is   *)
(* begun by an issue that none precedes within the window, and what is     *)
(* detected later changes neither that nor where the incidents before it   *)
(* end; with an issue more it comes to no less.                            *)
(***************************************************************************)
EXTENDS Services, Integers, SequenceTheorems, FiniteSetTheorems, TLAPS

\* What the call knows before it decides.
LookupsAgree ==
  \A c \in Calls :
    /\ todo[c] \subseteq hints[c] /\ known[c] \subseteq hints[c]
    /\ \A i \in known[c] : owner[i] # 0
    /\ \A u \in matched[c] : \E i \in hints[c] : owner[i] = u
    /\ pc[c] = "new" => user[c] = 0 /\ known[c] = {}
    /\ pc[c] = "lookup" => /\ user[c] = 0
                           /\ \A i \in known[c] \ todo[c] : owner[i] \in matched[c]

\* ... and what it leaves behind.
LinksAgree ==
  \A c \in Calls :
    /\ pc[c] \in {"link", "product", "insertProduct", "done"} => user[c] # 0
    /\ pc[c] = "link" => \A i \in hints[c] \ todo[c] : owner[i] # 0
    /\ pc[c] \in {"product", "insertProduct"} => external[c] # NoProduct

IInv == TypeOK /\ LookupsAgree /\ LinksAgree /\ HintsAreOwned /\ KnownIsFound

LEMMA InitInvariant == Init => IInv
<1> SUFFICES ASSUME Init PROVE IInv
  OBVIOUS
<1>1. TypeOK
  <2>1. <<>> \in Seq(ExternalIds) /\ 0 \in 0..users /\ 0 \in 0..Len(products) /\ faults \in Nat
    BY ResolverAssumption DEF Init, ResolverAssumption
  <2> QED BY <2>1 DEF Init, TypeOK
<1>2. LookupsAgree /\ LinksAgree /\ HintsAreOwned /\ KnownIsFound
  BY DEF Init, LookupsAgree, LinksAgree, HintsAreOwned, Resolved, KnownIsFound
<1> QED BY <1>1, <1>2 DEF IInv
-----------------------------------------------------------------------------
\* Every step keeps what identities say, and the parts of the invariant.
Kept == IInv' /\ \A i \in Identities : owner[i] # 0 => owner'[i] = owner[i]

LEMMA BeginStep ==
  ASSUME IInv, NEW c \in Calls, Begin(c)
  PROVE  Kept
<1> USE DEF IInv, Begin, Goto, event
<1>1. TypeOK'
  BY DEF TypeOK
<1>2. LookupsAgree' /\ LinksAgree'
  BY DEF TypeOK, LookupsAgree, LinksAgree
<1>3. HintsAreOwned' /\ KnownIsFound'
  BY DEF TypeOK, LookupsAgree, HintsAreOwned, Resolved, KnownIsFound
<1> QED BY <1>1, <1>2, <1>3 DEF Kept

LEMMA LookupStep ==
  ASSUME IInv, NEW c \in Calls, Lookup(c)
  PROVE  Kept
<1> USE DEF IInv, event
<1>1. PICK i \in todo[c] :
        /\ todo' = [todo EXCEPT ![c] = @ \ {i}]
        /\ matched' = [matched EXCEPT ![c] = IF owner[i] = 0 THEN @ ELSE @ \cup {owner[i]}]
  BY DEF Lookup
<1>2. i \in hints[c] /\ i \in Identities /\ owner[i] \in 0..users
  BY DEF TypeOK, LookupsAgree
<1>3. TypeOK'
  BY <1>1, <1>2 DEF TypeOK, Lookup
<1>4. LookupsAgree'
  <2>1. \A d \in Calls : d # c => todo'[d] = todo[d] /\ matched'[d] = matched[d]
    BY <1>1 DEF TypeOK
  <2>2. todo'[c] = todo[c] \ {i}
    BY <1>1 DEF TypeOK
  <2>3. matched'[c] = IF owner[i] = 0 THEN matched[c] ELSE matched[c] \cup {owner[i]}
    BY <1>1 DEF TypeOK
  <2> QED BY <1>2, <2>1, <2>2, <2>3 DEF LookupsAgree, Lookup
<1>5. LinksAgree' /\ HintsAreOwned' /\ KnownIsFound'
  BY <1>1 DEF TypeOK, Lookup, LinksAgree, HintsAreOwned, Resolved, KnownIsFound
<1> QED BY <1>3, <1>4, <1>5 DEF Kept, Lookup

LEMMA MatchStep ==
  ASSUME IInv, NEW c \in Calls, Match(c)
  PROVE  Kept
<1> USE DEF IInv, event, Match, Goto
<1>1. matched[c] \subseteq 1..users /\ users \in Nat
  BY DEF TypeOK
<1>2. PICK u \in matched[c] : user' = [user EXCEPT ![c] = u]
  OBVIOUS
<1>3. TypeOK'
  BY <1>1, <1>2 DEF TypeOK
<1>4. LookupsAgree' /\ LinksAgree'
  BY <1>1, <1>2 DEF TypeOK, LookupsAgree, LinksAgree
<1>5. /\ \E i \in hints[c] : owner[i] = u
      /\ user'[c] = u /\ \A d \in Calls \ {c} : user'[d] = user[d] /\ pc'[d] = pc[d]
      /\ pc'[c] = "link" /\ pc[c] = "lookup"
      /\ owner' = owner /\ known' = known /\ UNCHANGED event
  BY <1>2 DEF TypeOK, LookupsAgree
<1> HIDE DEF Match
<1>6. HintsAreOwned'
  BY <1>5 DEF HintsAreOwned, Resolved
<1>7. KnownIsFound'
  BY <1>5 DEF KnownIsFound, Resolved
<1> QED BY <1>3, <1>4, <1>5, <1>6, <1>7 DEF Kept

LEMMA CreateStep ==
  ASSUME IInv, NEW c \in Calls, Create(c)
  PROVE  Kept
<1> USE DEF IInv, event, Create, Goto
<1>1. users \in Nat /\ users' = users + 1
  BY DEF TypeOK
<1>2. 0..users \subseteq 0..(users + 1) /\ 1..users \subseteq 1..(users + 1)
      /\ users + 1 \in 0..(users + 1)
  BY <1>1
<1>3. TypeOK'
  BY <1>1, <1>2 DEF TypeOK
<1>4. LookupsAgree' /\ LinksAgree'
  BY <1>1 DEF TypeOK, LookupsAgree, LinksAgree
<1>5. known[c] = {}
  BY DEF LookupsAgree
<1>6. HintsAreOwned' /\ KnownIsFound'
  BY <1>5 DEF TypeOK, HintsAreOwned, Resolved, KnownIsFound
<1> QED BY <1>3, <1>4, <1>6 DEF Kept

LEMMA LinkStep ==
  ASSUME IInv, NEW c \in Calls, Link(c)
  PROVE  Kept
<1> USE DEF IInv, event
<1>1. PICK i \in todo[c] :
        /\ todo' = [todo EXCEPT ![c] = @ \ {i}]
        /\ owner' = [owner EXCEPT ![i] = IF @ = 0 THEN user[c] ELSE @]
  BY DEF Link
<1>2. i \in hints[c] /\ i \in Identities /\ user[c] \in 0..users /\ user[c] # 0
  BY DEF TypeOK, LookupsAgree, LinksAgree, Link
<1>3. TypeOK'
  BY <1>1, <1>2 DEF TypeOK, Link
<1>4. /\ \A j \in Identities : owner[j] # 0 => owner'[j] = owner[j]
      /\ owner'[i] # 0
  BY <1>1, <1>2 DEF TypeOK
<1>5. /\ \A d \in Calls : d # c => todo'[d] = todo[d]
      /\ todo'[c] = todo[c] \ {i}
      /\ \A d \in Calls : hints[d] \subseteq Identities /\ matched[d] \subseteq 1..users
  BY <1>1 DEF TypeOK
<1>6. LookupsAgree'
  <2> SUFFICES ASSUME NEW d \in Calls PROVE
        /\ todo'[d] \subseteq hints[d] /\ known[d] \subseteq hints[d]
        /\ \A j \in known[d] : owner'[j] # 0
        /\ \A u \in matched[d] : \E j \in hints[d] : owner'[j] = u
        /\ pc[d] = "new" => user[d] = 0 /\ known[d] = {}
        /\ pc[d] = "lookup" => /\ user[d] = 0
                               /\ \A j \in known[d] \ todo'[d] : owner'[j] \in matched[d]
    BY DEF LookupsAgree, Link
  <2>1. todo'[d] \subseteq hints[d] /\ known[d] \subseteq hints[d]
        /\ \A j \in known[d] : owner'[j] # 0
    BY <1>4, <1>5 DEF LookupsAgree
  <2>2. \A u \in matched[d] : \E j \in hints[d] : owner'[j] = u
    <3> SUFFICES ASSUME NEW u \in matched[d] PROVE \E j \in hints[d] : owner'[j] = u
      OBVIOUS
    <3>1. PICK j \in hints[d] : owner[j] = u
      BY DEF LookupsAgree
    <3>2. u # 0
      BY <1>5, 0 \notin 1..users DEF TypeOK
    <3> QED BY <1>4, <1>5, <3>1, <3>2
  <2>3. pc[d] = "lookup" => d # c
    BY DEF Link
  <2>4. pc[d] = "lookup" => \A j \in known[d] \ todo'[d] : owner'[j] \in matched[d]
    BY <1>4, <1>5, <2>3 DEF LookupsAgree
  <2> QED BY <2>1, <2>2, <2>4 DEF LookupsAgree
<1>7. LinksAgree' /\ HintsAreOwned'
  BY <1>4, <1>5 DEF LinksAgree, HintsAreOwned, Resolved, Link
<1>8. KnownIsFound'
  BY <1>4, <1>5 DEF KnownIsFound, Link
<1> QED BY <1>3, <1>4, <1>6, <1>7, <1>8 DEF Kept

\* The steps of a call after its user is settled, and its death.
LEMMA RestStep ==
  ASSUME IInv, NEW c \in Calls,
         Linked(c) \/ FindProduct(c) \/ NoSuchProduct(c) \/ InsertProduct(c) \/ Die(c)
  PROVE  Kept
<1> USE DEF IInv, event, Goto
<1> DEFINE Frame == UNCHANGED <<hints, external, users, owner, todo, matched, user, known>>
\* These steps move the call on, or stop it, and leave the identities alone.
<1>1. ASSUME Frame, \A d \in Calls : d # c => pc'[d] = pc[d],
             \/ pc'[c] = "dead"
             \/ /\ pc'[c] \in {"product", "insertProduct", "done"}
                /\ Resolved(c) \/ (pc[c] = "link" /\ todo[c] = {})
                /\ pc'[c] # "done" => external[c] # NoProduct
      PROVE  LookupsAgree' /\ LinksAgree' /\ HintsAreOwned' /\ KnownIsFound'
  <2>1. LookupsAgree'
    BY <1>1 DEF LookupsAgree
  <2>2. LinksAgree' /\ HintsAreOwned'
    BY <1>1 DEF LinksAgree, HintsAreOwned, Resolved
  <2>3. KnownIsFound'
    BY <1>1 DEF KnownIsFound
  <2> QED BY <2>1, <2>2, <2>3
<1>2. CASE Linked(c)
  BY <1>1, <1>2 DEF Linked, TypeOK, Kept
<1>3. CASE FindProduct(c)
  BY <1>1, <1>3 DEF FindProduct, TypeOK, Kept, Resolved
<1>4. CASE NoSuchProduct(c)
  BY <1>1, <1>4 DEF NoSuchProduct, TypeOK, Kept, Resolved, LinksAgree
<1>5. CASE InsertProduct(c)
  <2>1. Len(products) \in Nat /\ pc[c] = "insertProduct"
    BY <1>5 DEF InsertProduct, TypeOK
  <2>2. TypeOK'
    <3>1. external[c] \in ExternalIds
      BY <2>1 DEF LinksAgree, TypeOK
    <3>2. /\ products' \in Seq(ExternalIds) /\ Len(products') = Len(products) + 1
          /\ 0..Len(products) \subseteq 0..Len(products')
          /\ Len(products) + 1 \in 0..Len(products')
      BY <1>5, <2>1, <3>1 DEF InsertProduct, TypeOK
    <3> QED BY <1>5, <2>1, <3>2 DEF InsertProduct, TypeOK
  <2> QED BY <1>1, <1>5, <2>1, <2>2 DEF InsertProduct, TypeOK, Kept, Resolved
<1>6. CASE Die(c)
  BY <1>1, <1>6 DEF Die, TypeOK, Kept
<1> QED BY <1>2, <1>3, <1>4, <1>5, <1>6

LEMMA EveryStep ==
  ASSUME IInv, [Next]_vars
  PROVE  Kept
<1>1. CASE UNCHANGED vars
  <2>1. TypeOK'
    BY <1>1 DEF IInv, TypeOK, vars, event
  <2>2. LookupsAgree' /\ LinksAgree' /\ HintsAreOwned' /\ KnownIsFound'
    BY <1>1
    DEF IInv, vars, event, LookupsAgree, LinksAgree, HintsAreOwned, Resolved, KnownIsFound
  <2> QED BY <1>1, <2>1, <2>2 DEF Kept, IInv, vars
<1>2. CASE Next
  BY <1>2, BeginStep, LookupStep, MatchStep, CreateStep, LinkStep, RestStep DEF Next, Step
<1> QED BY <1>1, <1>2
-----------------------------------------------------------------------------
\* The inductive invariant of resolution.
THEOREM ResolverInvariant == Spec => []IInv
<1>1. Init => IInv
  BY InitInvariant
<1>2. IInv /\ [Next]_vars => IInv'
  BY EveryStep DEF Kept
<1> QED BY <1>1, <1>2, PTL DEF Spec

\* Every reachable state is well typed: users, identities and products refer to
\* rows that exist.
THEOREM ResolverTypes == Spec => []TypeOK
<1>1. IInv => TypeOK
  BY DEF IInv
<1> QED BY <1>1, ResolverInvariant, PTL

\* A call that has its user left every hint of its event with an owner
\* (resolver.ts:78-91, 108-141).
THEOREM ResolvedHintsAreOwned == Spec => []HintsAreOwned
<1>1. IInv => HintsAreOwned
  BY DEF IInv
<1> QED BY <1>1, ResolverInvariant, PTL

\* An event with a known hint goes to a user that its hints lead to again
\* (resolver.ts:56-76).
THEOREM KnownUsersAreFound == Spec => []KnownIsFound
<1>1. IInv => KnownIsFound
  BY DEF IInv
<1> QED BY <1>1, ResolverInvariant, PTL

-----------------------------------------------------------------------------
(***************************************************************************)
(* Calls that take turns.                                                  *)
(***************************************************************************)
LookedUp(c) ==
  pc[c] = "lookup" => \A i \in hints[c] \ todo[c] : owner[i] # 0 => owner[i] \in matched[c]

OldestIsTaken(c) ==
  pc[c] \in {"link", "product", "insertProduct", "done"} =>
    /\ \A i \in hints[c] : owner[i] # 0 => user[c] <= owner[i]
    /\ \/ \E i \in hints[c] : owner[i] = user[c]
       \/ pc[c] = "link" /\ \A i \in hints[c] : owner[i] = 0

NoTwoProducts == \A p, q \in 1..Len(products) : products[p] = products[q] => p = q

\* While no call has begun during another: a call in flight is alone, has
\* matched whoever owns a hint it has looked up, and takes the oldest owner
\* there is of its hints, and a product it inserts is new.
InTurn ==
  /\ \A c, d \in Calls : UnderWay(c) /\ UnderWay(d) => c = d
  /\ \A c \in Calls : LookedUp(c) /\ OldestIsTaken(c)
  /\ NoTwoProducts
  /\ \A c \in Calls : pc[c] = "insertProduct" =>
       \A p \in 1..Len(products) : products[p] # external[c]

\* A call that is through has a product of its external id, if it names one.
ProductsAgree ==
  \A c \in Calls :
    /\ pc[c] \notin {"done", "dead"} \/ external[c] = NoProduct => product[c] = 0
    /\ pc[c] = "done" /\ external[c] # NoProduct =>
         product[c] \in 1..Len(products) /\ products[product[c]] = external[c]

TurnsAgree == ProductsAgree /\ (overlaps = 0 => InTurn)

LEMMA InitTurns == Init => TurnsAgree
<1> SUFFICES ASSUME Init PROVE TurnsAgree
  OBVIOUS
<1>1. Len(products) = 0
  BY DEF Init
<1> QED
  BY <1>1 DEF Init, TurnsAgree, ProductsAgree, InTurn, LookedUp, OldestIsTaken, NoTwoProducts, UnderWay

LEMMA ProductsStep ==
  ASSUME IInv, ProductsAgree, NEW c \in Calls, Step(c)
  PROVE  ProductsAgree'
<1> USE DEF IInv, event, Goto
<1>1. external \in [Calls -> ExternalIds \cup {NoProduct}] /\ external' = external
  BY DEF TypeOK, Step, Begin, Lookup, Match, Create, Link, Linked, FindProduct, NoSuchProduct,
         InsertProduct, Die
<1>2. CASE Begin(c) \/ Lookup(c) \/ Match(c) \/ Create(c) \/ Link(c) \/ Die(c)
  BY <1>2 DEF TypeOK, ProductsAgree, Begin, Lookup, Match, Create, Link, Die, UnderWay
<1>3. CASE Linked(c) \/ NoSuchProduct(c)
  BY <1>3 DEF TypeOK, ProductsAgree, Linked, NoSuchProduct, LinksAgree
<1>4. CASE FindProduct(c)
  BY <1>4 DEF TypeOK, ProductsAgree, FindProduct, LinksAgree
<1>5. CASE InsertProduct(c)
  <2>1. /\ pc[c] = "insertProduct" /\ external[c] # NoProduct /\ external[c] \in ExternalIds
        /\ products \in Seq(ExternalIds) /\ Len(products) \in Nat
        /\ products' = Append(products, external[c])
    BY <1>1, <1>5 DEF InsertProduct, LinksAgree, TypeOK
  <2>2. /\ Len(products') = Len(products) + 1 /\ products'[Len(products) + 1] = external[c]
        /\ \A p \in 1..Len(products) : products'[p] = products[p]
    BY <2>1
  <2>3. /\ product'[c] = Len(products) + 1 /\ pc'[c] = "done"
        /\ \A d \in Calls \ {c} : product'[d] = product[d] /\ pc'[d] = pc[d]
    BY <1>5 DEF InsertProduct, TypeOK
  <2>4. ASSUME NEW d \in Calls
        PROVE  /\ pc'[d] \notin {"done", "dead"} \/ external'[d] = NoProduct => product'[d] = 0
               /\ pc'[d] = "done" /\ external'[d] # NoProduct =>
                    product'[d] \in 1..Len(products') /\ products'[product'[d]] = external'[d]
    <3>1. CASE d = c
      BY <1>1, <2>1, <2>2, <2>3, <3>1
    <3>2. CASE d # c
      <4>1. /\ pc[d] \notin {"done", "dead"} \/ external[d] = NoProduct => product[d] = 0
            /\ pc[d] = "done" /\ external[d] # NoProduct =>
                 product[d] \in 1..Len(products) /\ products[product[d]] = external[d]
        BY DEF ProductsAgree
      <4> QED BY <1>1, <2>1, <2>2, <2>3, <3>2, <4>1
    <3> QED BY <3>1, <3>2
  <2> QED BY <2>4 DEF ProductsAgree
<1> QED BY <1>2, <1>3, <1>4, <1>5 DEF Step

\* The call that makes a step is the only one under way, before and after.
LEMMA AloneStep ==
  ASSUME IInv, TurnsAgree, NEW c \in Calls, Step(c), overlaps' = 0
  PROVE  /\ overlaps = 0 /\ InTurn
         /\ \A d \in Calls \ {c} : pc'[d] = pc[d] /\ ~UnderWay(d)
         /\ \A d, e \in Calls : UnderWay(d)' /\ UnderWay(e)' => d = e
<1> USE DEF IInv, Goto
<1>1. \A d \in Calls \ {c} : pc'[d] = pc[d]
  BY DEF TypeOK, Step, Begin, Lookup, Match, Create, Link, Linked, FindProduct, NoSuchProduct,
         InsertProduct, Die
<1>2. CASE Begin(c)
  <2>1. overlaps = 0 /\ \A d \in Calls : ~UnderWay(d)
    BY <1>2 DEF Begin, TypeOK
  <2> QED BY <1>1, <2>1 DEF TurnsAgree, UnderWay
<1>3. CASE ~Begin(c)
  <2>1. overlaps = 0 /\ UnderWay(c)
    BY <1>3 DEF Step, Lookup, Match, Create, Link, Linked, FindProduct, NoSuchProduct,
                InsertProduct, Die, UnderWay
  <2> QED BY <1>1, <2>1 DEF TurnsAgree, InTurn, UnderWay
<1> QED BY <1>2, <1>3

\* The steps of the look-ups and the choice of the user.
LEMMA ChoiceInTurn ==
  ASSUME IInv, InTurn, NEW c \in Calls, Begin(c) \/ Lookup(c) \/ Match(c) \/ Create(c),
         \A d \in Calls \ {c} : pc'[d] = pc[d] /\ ~UnderWay(d)
  PROVE  \A d \in Calls : LookedUp(d)' /\ OldestIsTaken(d)'
<1> USE DEF IInv, Goto, event
<1>1. UNCHANGED <<hints, owner>>
  BY DEF Begin, Lookup, Match, Create
<1>2. ASSUME NEW d \in Calls \ {c} PROVE LookedUp(d)' /\ OldestIsTaken(d)'
  <2>1. pc[d] # "lookup" /\ pc'[d] = pc[d] /\ (pc[d] = "done" => user'[d] = user[d])
    BY DEF UnderWay, TypeOK, Begin, Lookup, Match, Create
  <2>2. pc[d] \notin {"link", "product", "insertProduct"}
    BY DEF UnderWay
  <2> QED BY <1>1, <2>1, <2>2 DEF InTurn, LookedUp, OldestIsTaken
<1> SUFFICES LookedUp(c)' /\ OldestIsTaken(c)'
  BY <1>2, Zenon
<1>3. CASE Begin(c)
  BY <1>1, <1>3 DEF Begin, TypeOK, LookedUp, OldestIsTaken
<1>4. CASE Lookup(c)
  <2>1. PICK i \in todo[c] :
          /\ todo' = [todo EXCEPT ![c] = @ \ {i}]
          /\ matched' = [matched EXCEPT ![c] = IF owner[i] = 0 THEN @ ELSE @ \cup {owner[i]}]
    BY <1>4 DEF Lookup
  <2>2. /\ pc[c] = "lookup" /\ pc' = pc
        /\ todo'[c] = todo[c] \ {i}
        /\ matched'[c] = IF owner[i] = 0 THEN matched[c] ELSE matched[c] \cup {owner[i]}
    BY <1>4, <2>1 DEF Lookup, TypeOK
  <2> QED BY <1>1, <2>2 DEF InTurn, LookedUp, OldestIsTaken
<1>5. CASE Match(c)
  <2>1. PICK u \in matched[c] : Oldest(u, matched[c]) /\ user' = [user EXCEPT ![c] = u]
    BY <1>5 DEF Match
  <2>2. pc[c] = "lookup" /\ todo[c] = {} /\ pc'[c] = "link" /\ user'[c] = u
    BY <1>5, <2>1 DEF Match, TypeOK
  <2>3. \E i \in hints[c] : owner[i] = u
    BY DEF LookupsAgree
  <2>4. \A i \in hints[c] : owner[i] # 0 => u <= owner[i]
    BY <2>1, <2>2 DEF InTurn, LookedUp, Oldest
  <2> QED BY <1>1, <2>2, <2>3, <2>4 DEF LookedUp, OldestIsTaken
<1>6. CASE Create(c)
  <2>1. pc[c] = "lookup" /\ todo[c] = {} /\ matched[c] = {} /\ pc'[c] = "link"
    BY <1>6 DEF Create, TypeOK
  <2>2. \A i \in hints[c] : owner[i] = 0
    BY <2>1 DEF InTurn, LookedUp
  <2> QED BY <1>1, <2>1, <2>2 DEF LookedUp, OldestIsTaken
<1> QED BY <1>3, <1>4, <1>5, <1>6

\* The steps after: hints of calls that are through keep their owners, and the
\* first link of a new user makes it the owner of a hint.
LEMMA LinksInTurn ==
  ASSUME IInv, InTurn, NEW c \in Calls, Link(c) \/ Linked(c) \/ FindProduct(c) \/ NoSuchProduct(c)
                                        \/ InsertProduct(c) \/ Die(c),
         \A d \in Calls \ {c} : pc'[d] = pc[d] /\ ~UnderWay(d)
  PROVE  \A d \in Calls : LookedUp(d)' /\ OldestIsTaken(d)'
<1> USE DEF IInv, Goto, event
<1>1. /\ UNCHANGED <<hints, user>> /\ hints[c] # {}
      /\ \A d \in Calls : hints[d] \subseteq Identities /\ user[d] \in Nat
      /\ \A i \in Identities : owner[i] \in Nat
  <2>1. UNCHANGED <<hints, user>>
    BY DEF Link, Linked, FindProduct, NoSuchProduct, InsertProduct, Die
  <2>2. \A d \in Calls : hints[d] \in (SUBSET Identities) \ {{}}
    BY DEF TypeOK
  <2>3. (\A d \in Calls : user[d] \in Nat) /\ \A i \in Identities : owner[i] \in Nat
    BY DEF TypeOK
  <2>4. hints[c] # {} /\ \A d \in Calls : hints[d] \subseteq Identities
    BY <2>2
  <2> QED BY <2>1, <2>3, <2>4
<1>2. \A d \in Calls \ {c} : pc'[d] \in {"new", "done", "dead"}
  BY DEF UnderWay
<1>3. CASE Link(c)
  <2>1. PICK i \in todo[c] : owner' = [owner EXCEPT ![i] = IF @ = 0 THEN user[c] ELSE @]
    BY <1>3 DEF Link
  <2>2. /\ i \in hints[c] /\ i \in Identities /\ pc[c] = "link" /\ pc' = pc
        /\ \A j \in Identities : owner'[j] = IF j = i /\ owner[i] = 0 THEN user[c] ELSE owner[j]
    BY <1>3, <2>1 DEF Link, TypeOK, LookupsAgree
  <2>3. ASSUME NEW d \in Calls \ {c} PROVE LookedUp(d)' /\ OldestIsTaken(d)'
    <3>1. pc[d] = "done" => \A j \in hints[d] : owner[j] # 0 /\ owner'[j] = owner[j]
      BY <1>1, <2>2 DEF HintsAreOwned, Resolved
    <3> QED BY <1>1, <1>2, <2>2, <3>1 DEF InTurn, LookedUp, OldestIsTaken
  <2>4. LookedUp(c)' /\ OldestIsTaken(c)'
    <3>1. /\ \A j \in hints[c] : owner[j] # 0 => user[c] <= owner[j]
          /\ (\E j \in hints[c] : owner[j] = user[c]) \/ \A j \in hints[c] : owner[j] = 0
      BY <2>2 DEF InTurn, OldestIsTaken
    <3>2. \A j \in hints[c] : owner'[j] # 0 => user[c] <= owner'[j]
      BY <1>1, <2>2, <3>1
    <3>3. \E j \in hints[c] : owner'[j] = user[c]
      <4>1. CASE owner[i] = 0
        BY <2>2, <4>1
      <4>2. CASE owner[i] # 0
        BY <1>1, <2>2, <3>1, <4>2
      <4> QED BY <4>1, <4>2
    <3> QED BY <1>1, <2>2, <3>2, <3>3 DEF LookedUp, OldestIsTaken
  <2> QED BY <2>3, <2>4, Zenon
<1>4. CASE ~Link(c)
  <2>1. UNCHANGED owner
    BY <1>4 DEF Linked, FindProduct, NoSuchProduct, InsertProduct, Die
  <2>2. ASSUME NEW d \in Calls \ {c} PROVE LookedUp(d)' /\ OldestIsTaken(d)'
    BY <1>1, <1>2, <2>1 DEF InTurn, LookedUp, OldestIsTaken
  <2>3. \/ pc'[c] = "dead"
        \/ /\ pc'[c] \in {"product", "insertProduct", "done"}
           /\ Resolved(c) \/ (pc[c] = "link" /\ todo[c] = {})
    BY <1>4 DEF Linked, FindProduct, NoSuchProduct, InsertProduct, Die, Resolved, TypeOK
  <2> SUFFICES LookedUp(c)' /\ OldestIsTaken(c)'
    BY <2>2, Zenon
  <2>4. CASE pc'[c] = "dead"
    BY <2>4 DEF LookedUp, OldestIsTaken
  <2>5. CASE pc'[c] # "dead"
    <3>1. pc'[c] \in {"product", "insertProduct", "done"} /\ \A i \in hints[c] : owner[i] # 0
      BY <2>3, <2>5 DEF LinksAgree, HintsAreOwned
    <3>2. /\ \A i \in hints[c] : owner[i] # 0 => user[c] <= owner[i]
          /\ (\E i \in hints[c] : owner[i] = user[c]) \/ \A i \in hints[c] : owner[i] = 0
      BY <2>3, <2>5 DEF InTurn, OldestIsTaken, Resolved
    <3> QED BY <1>1, <2>1, <3>1, <3>2 DEF LookedUp, OldestIsTaken
  <2> QED BY <2>4, <2>5
<1> QED BY <1>3, <1>4

\* A product is inserted by the call that found none.
LEMMA ProductsInTurn ==
  ASSUME IInv, InTurn, NEW c \in Calls, Step(c),
         \A d \in Calls \ {c} : pc'[d] = pc[d] /\ ~UnderWay(d)
  PROVE  /\ NoTwoProducts'
         /\ \A d \in Calls : pc'[d] = "insertProduct" =>
              \A p \in 1..Len(products') : products'[p] # external'[d]
<1> USE DEF IInv, Goto, event
<1>1. \A d \in Calls \ {c} : pc'[d] # "insertProduct"
  BY DEF UnderWay
<1>2. external' = external
  BY DEF Step, Begin, Lookup, Match, Create, Link, Linked, FindProduct, NoSuchProduct,
         InsertProduct, Die
<1>3. CASE InsertProduct(c)
  <2>1. /\ pc[c] = "insertProduct" /\ external[c] \in ExternalIds
        /\ products \in Seq(ExternalIds) /\ Len(products) \in Nat
        /\ products' = Append(products, external[c]) /\ pc'[c] = "done"
    BY <1>3 DEF InsertProduct, LinksAgree, TypeOK
  <2>2. /\ Len(products') = Len(products) + 1 /\ products'[Len(products) + 1] = external[c]
        /\ \A p \in 1..Len(products) : products'[p] = products[p] /\ products[p] # external[c]
    BY <2>1 DEF InTurn
  <2>3. ASSUME NEW p \in 1..Len(products'), NEW q \in 1..Len(products'), products'[p] = products'[q]
        PROVE  p = q
    BY <2>1, <2>2, <2>3 DEF InTurn, NoTwoProducts
  <2> QED BY <1>1, <2>1, <2>3 DEF NoTwoProducts
<1>4. CASE NoSuchProduct(c)
  BY <1>1, <1>2, <1>4 DEF NoSuchProduct, InTurn, NoTwoProducts
<1>5. CASE ~InsertProduct(c) /\ ~NoSuchProduct(c)
  <2>1. UNCHANGED products /\ pc'[c] # "insertProduct"
    BY <1>5 DEF Step, Begin, Lookup, Match, Create, Link, Linked, FindProduct, Die, TypeOK
  <2> QED BY <1>1, <2>1 DEF InTurn, NoTwoProducts
<1> QED BY <1>3, <1>4, <1>5

LEMMA TurnsStep ==
  ASSUME IInv, TurnsAgree, [Next]_vars
  PROVE  TurnsAgree'
<1>1. CASE UNCHANGED vars
  BY <1>1 DEF vars, event, TurnsAgree, ProductsAgree, InTurn, LookedUp, OldestIsTaken,
              NoTwoProducts, UnderWay
<1>2. CASE Next
  <2>1. PICK c \in Calls : Step(c)
    BY <1>2 DEF Next
  <2>2. ProductsAgree'
    BY <2>1, ProductsStep DEF TurnsAgree
  <2>3. ASSUME overlaps' = 0 PROVE InTurn'
    <3>1. /\ InTurn /\ \A d \in Calls \ {c} : pc'[d] = pc[d] /\ ~UnderWay(d)
          /\ \A d, e \in Calls : UnderWay(d)' /\ UnderWay(e)' => d = e
      BY <2>1, <2>3, AloneStep
    <3>2. \A d \in Calls : LookedUp(d)' /\ OldestIsTaken(d)'
      BY <2>1, <3>1, ChoiceInTurn, LinksInTurn, Zenon DEF Step
    <3>3. /\ NoTwoProducts'
          /\ \A d \in Calls : pc'[d] = "insertProduct" =>
               \A p \in 1..Len(products') : products'[p] # external'[d]
      BY <2>1, <3>1, ProductsInTurn
    <3> QED BY <3>1, <3>2, <3>3, Zenon DEF InTurn
  <2> QED BY <2>2, <2>3 DEF TurnsAgree
<1> QED BY <1>1, <1>2

\* Calls that take turns and have the same hints and product belong to the same
\* user, the oldest owner of the hints, and to the same product
\* (resolver.ts:67-91, ingestion/pipeline.ts:293-338).
THEOREM SameHintsSameRow == Spec => []SameRow
<1>1. ASSUME IInv, TurnsAgree PROVE SameRow
  <2> SUFFICES ASSUME NEW c \in Calls, NEW d \in Calls, pc[c] = "done", pc[d] = "done",
                      overlaps = 0, hints[c] = hints[d], external[c] = external[d]
               PROVE  user[c] = user[d] /\ product[c] = product[d]
    BY DEF SameRow
  <2>1. /\ user[c] # 0 /\ user[d] # 0 /\ user[c] \in Nat /\ user[d] \in Nat
    BY <1>1 DEF IInv, TypeOK, LinksAgree
  <2>2. /\ \E i \in hints[c] : owner[i] = user[c]
        /\ \E i \in hints[d] : owner[i] = user[d]
        /\ \A i \in hints[c] : owner[i] # 0 => user[c] <= owner[i]
        /\ \A i \in hints[d] : owner[i] # 0 => user[d] <= owner[i]
    BY <1>1 DEF TurnsAgree, InTurn, OldestIsTaken
  <2>3. user[c] <= user[d] /\ user[d] <= user[c]
    BY <2>1, <2>2
  <2>4. user[c] = user[d]
    BY <2>1, <2>3
  <2>5. product[c] = product[d]
    BY <1>1 DEF TurnsAgree, ProductsAgree, InTurn, NoTwoProducts
  <2> QED BY <2>4, <2>5
<1>2. Init => TurnsAgree
  BY InitTurns
<1>3. IInv /\ TurnsAgree /\ [Next]_vars => TurnsAgree'
  BY TurnsStep
<1>4. IInv /\ TurnsAgree => SameRow
  BY <1>1
<1> QED BY <1>2, <1>3, <1>4, ResolverInvariant, PTL DEF Spec
-----------------------------------------------------------------------------
(***************************************************************************)
(* The rate limiter, for any limit, interval, number of callers and        *)
(* distance of the clocks.                                                 *)
(***************************************************************************)
LEMMA WholeIntervals ==
  ASSUME NEW a \in Int, NEW b \in Nat \ {0}
  PROVE  a \div b \in Int /\ b * (a \div b) <= a /\ a < b * (a \div b) + b
  OBVIOUS

LEMMA IntervalsFit ==
  ASSUME NEW a \in Int, NEW b \in Nat \ {0}, NEW k \in Int, k * b <= a
  PROVE  k <= a \div b
  <1> DEFINE d == a \div b
  <1>1. d \in Int /\ a < b * d + b
    BY WholeIntervals
  <1> HIDE DEF d
  <1>2. k * b < (d + 1) * b
    BY <1>1
  <1>3. k < d + 1
    BY <1>1, <1>2
  <1>4. QED
    BY <1>1, <1>3 DEF d

LEMMA Scaled ==
  ASSUME NEW k \in Int, NEW d \in Int, NEW b \in Nat \ {0}, k <= d
  PROVE  b * k <= b * d
  OBVIOUS

LEMMA FilledIs ==
  ASSUME NEW b, NEW t, NEW k, k = (t - b.lastRefill) \div refillIntervalMs
  PROVE  Limiter!Filled(b, t) =
           IF k > 0 THEN [tokens |-> Limiter!AtMost(b.tokens + k * refillRate, maxTokens),
                          lastRefill |-> b.lastRefill + k * refillIntervalMs]
           ELSE b
  BY DEF Limiter!Filled

\* What filling a bucket up leaves.
LEMMA FilledUp ==
  ASSUME Limiter!Parameters, NEW b \in [tokens : 0..maxTokens, lastRefill : Nat], NEW time \in Nat
  PROVE  /\ Limiter!Filled(b, time) \in [tokens : 0..maxTokens, lastRefill : Nat]
         /\ Limiter!Filled(b, time).lastRefill <= IF b.lastRefill > time THEN b.lastRefill ELSE time
         /\ \E k \in Nat :
              /\ Limiter!Filled(b, time).lastRefill = b.lastRefill + k * refillIntervalMs
              /\ Limiter!Filled(b, time).tokens <= b.tokens + k * refillRate
  <1> DEFINE k == (time - b.lastRefill) \div refillIntervalMs
             full == Limiter!AtMost(b.tokens + k * refillRate, maxTokens)
             f == Limiter!Filled(b, time)
  <1>1. /\ maxTokens \in Nat \ {0} /\ refillRate \in Nat \ {0} /\ refillIntervalMs \in Nat \ {0}
        /\ b.tokens \in 0..maxTokens /\ b.lastRefill \in Nat
    BY DEF Limiter!Parameters
  <1>2. k \in Int /\ refillIntervalMs * k <= time - b.lastRefill
    BY <1>1, WholeIntervals
  <1>3. f = IF k > 0 THEN [tokens |-> full, lastRefill |-> b.lastRefill + k * refillIntervalMs] ELSE b
    BY DEF Limiter!Filled
  <1>4. CASE k > 0
    <2>1. k * refillRate \in Nat /\ k * refillIntervalMs \in Nat
          /\ b.lastRefill + k * refillIntervalMs <= time
      BY <1>1, <1>2, <1>4
    <2>2. full \in 0..maxTokens /\ full <= b.tokens + k * refillRate
      BY <1>1, <2>1 DEF Limiter!AtMost
    <2> HIDE DEF k, full
    <2>3. f.tokens = full /\ f.lastRefill = b.lastRefill + k * refillIntervalMs
      BY <1>3, <1>4
    <2>4. f = [tokens |-> full, lastRefill |-> b.lastRefill + k * refillIntervalMs]
      BY <1>3, <1>4
    <2>5. f \in [tokens : 0..maxTokens, lastRefill : Nat]
      BY <1>1, <2>1, <2>2, <2>4
    <2>6. k \in Nat
      BY <1>2, <1>4
    <2> HIDE DEF f
    <2>7. \E n \in Nat : f.lastRefill = b.lastRefill + n * refillIntervalMs
                         /\ f.tokens <= b.tokens + n * refillRate
      BY <2>2, <2>3, <2>6
    <2>8. f.lastRefill <= IF b.lastRefill > time THEN b.lastRefill ELSE time
      BY <1>1, <2>1, <2>3
    <2>9. QED
      BY <2>5, <2>7, <2>8 DEF f
  <1>5. CASE ~(k > 0)
    <2> HIDE DEF k
    <2>1. f = b
      BY <1>3, <1>5
    <2> HIDE DEF f
    <2>2. f.lastRefill = b.lastRefill + 0 * refillIntervalMs /\ f.tokens <= b.tokens + 0 * refillRate
      BY <1>1, <2>1
    <2>3. f.lastRefill <= IF b.lastRefill > time THEN b.lastRefill ELSE time
      BY <1>1, <2>1
    <2>4. QED
      BY <2>1, <2>2, <2>3 DEF f
  <1>6. QED
    BY <1>4, <1>5

Buckets == [tokens : 0..maxTokens, lastRefill : Nat]

\* The bucket a script finds: what is in it and what was given out is covered.
LEMMA BucketFound ==
  ASSUME Limiter!Parameters, Limiter!IInv, NEW time \in Nat, time <= now + MaxSkew,
         NEW b, b = Limiter!Bucket(time),
         NEW s, s = IF bucket = Empty THEN b.lastRefill ELSE since
  PROVE  /\ b \in Buckets /\ b.lastRefill <= now + MaxSkew
         /\ s \in Nat /\ s <= now + MaxSkew
         /\ \E k \in Nat : /\ b.lastRefill = s + k * refillIntervalMs
                           /\ spent + b.tokens <= maxTokens + refillRate * k
  <1>1. /\ maxTokens \in Nat \ {0} /\ refillRate \in Nat \ {0} /\ refillIntervalMs \in Nat \ {0}
        /\ MaxSkew \in Nat /\ now \in Nat /\ since \in Nat /\ spent \in Nat
    BY DEF Limiter!Parameters, Limiter!IInv, Limiter!TypeOK
  <1>2. CASE bucket = Empty
    <2>1. b = [tokens |-> maxTokens, lastRefill |-> time] /\ spent = 0
      BY <1>2 DEF Limiter!Bucket, Limiter!IInv, Limiter!SpentIsCovered
    <2>2. b \in Buckets /\ b.lastRefill = time /\ b.tokens = maxTokens /\ s = time
      BY <1>1, <1>2, <2>1 DEF Buckets
    <2>3. b.lastRefill = s + 0 * refillIntervalMs /\ spent + b.tokens <= maxTokens + refillRate * 0
      BY <1>1, <2>1, <2>2
    <2>4. QED
      BY <2>2, <2>3
  <1>3. CASE bucket # Empty
    <2>1. /\ bucket \in Buckets /\ bucket.tokens \in Nat /\ bucket.lastRefill \in Nat
          /\ bucket.lastRefill <= now + MaxSkew /\ since <= now + MaxSkew
      BY <1>3 DEF Limiter!IInv, Limiter!TypeOK, Limiter!TimesAgree, Buckets
    <2>2. b = Limiter!Filled(bucket, time) /\ s = since
      BY <1>3 DEF Limiter!Bucket
    <2>3. PICK k \in Nat : /\ bucket.lastRefill = since + k * refillIntervalMs
                           /\ spent + bucket.tokens <= maxTokens + refillRate * k
      BY <1>3 DEF Limiter!IInv, Limiter!SpentIsCovered
    <2>4. /\ b \in Buckets
          /\ b.lastRefill <= IF bucket.lastRefill > time THEN bucket.lastRefill ELSE time
      BY <2>1, <2>2, FilledUp DEF Buckets
    <2>5. PICK n \in Nat : /\ b.lastRefill = bucket.lastRefill + n * refillIntervalMs
                           /\ b.tokens <= bucket.tokens + n * refillRate
      BY <2>1, <2>2, FilledUp DEF Buckets
    <2>6. b.tokens \in Nat /\ b.lastRefill \in Nat
      BY <2>4 DEF Buckets
    <2>7. b.lastRefill = since + (k + n) * refillIntervalMs
      BY <1>1, <2>3, <2>5
    <2>8. spent + b.tokens <= maxTokens + refillRate * (k + n)
      BY <1>1, <2>1, <2>3, <2>5, <2>6
    <2>9. b.lastRefill <= now + MaxSkew
      BY <1>1, <2>1, <2>4, <2>6
    <2>10. k + n \in Nat
      OBVIOUS
    <2>11. QED
      BY <1>1, <2>1, <2>2, <2>4, <2>7, <2>8, <2>9, <2>10
  <1>4. QED
    BY <1>2, <1>3

\* A caller that keeps to the clocks keeps the types and the times.
LEMMA CallerGoesOn ==
  ASSUME Limiter!Parameters, Limiter!IInv, NEW c \in Callers, NEW x \in Limiter!CallerStates,
         caller' = [caller EXCEPT ![c] = x], now' = now,
         x.at \in {"asking", "waiting"} => x.time <= now + MaxSkew
  PROVE  /\ caller' \in [Callers -> Limiter!CallerStates]
         /\ \A d \in Callers : Limiter!Asking(d)' => caller'[d].time <= now' + MaxSkew
  BY DEF Limiter!IInv, Limiter!TypeOK, Limiter!TimesAgree, Limiter!Asking

LEMMA RestingCaller == ASSUME Limiter!Parameters
  PROVE Limiter!Resting \in Limiter!CallerStates /\ Limiter!Resting.at = "idle"
  BY DEF Limiter!Resting, Limiter!CallerStates, Limiter!Requests, Limiter!Parameters

LEMMA GrantKeeps ==
  ASSUME Limiter!Parameters, Limiter!IInv, NEW c \in Callers, Limiter!Grant(c)
  PROVE  Limiter!IInv'
  <1> DEFINE b == Limiter!Bucket(caller[c].time)
             n == caller[c].tokens
             s == IF bucket = Empty THEN b.lastRefill ELSE since
             after == [b EXCEPT !.tokens = @ - n]
  <1>1. /\ caller[c].time \in Nat /\ caller[c].time <= now + MaxSkew /\ n \in Limiter!Requests
    BY DEF Limiter!Grant, Limiter!IInv, Limiter!TypeOK, Limiter!TimesAgree, Limiter!CallerStates
  <1>2. /\ b \in Buckets /\ b.lastRefill <= now + MaxSkew
        /\ s \in Nat /\ s <= now + MaxSkew
        /\ \E k \in Nat : /\ b.lastRefill = s + k * refillIntervalMs
                          /\ spent + b.tokens <= maxTokens + refillRate * k
    BY <1>1, BucketFound
  <1>3. /\ b.tokens >= n /\ bucket' = after /\ spent' = spent + n /\ now' = now
        /\ since' = IF bucket = Empty THEN after.lastRefill ELSE since
        /\ caller' = [caller EXCEPT ![c] = Limiter!Resting]
    BY DEF Limiter!Grant, Limiter!Saves
  <1>4. /\ maxTokens \in Nat \ {0} /\ refillRate \in Nat \ {0} /\ refillIntervalMs \in Nat \ {0}
        /\ MaxSkew \in Nat /\ now \in Nat /\ spent \in Nat /\ n \in Nat /\ n > 0
        /\ Empty \notin [tokens : Int, lastRefill : Int]
    BY <1>1 DEF Limiter!Parameters, Limiter!IInv, Limiter!TypeOK, Limiter!Requests
  <1> HIDE DEF b, n
  <1>5. /\ after \in Buckets /\ after.tokens = b.tokens - n /\ after.lastRefill = b.lastRefill
        /\ b.tokens \in Nat /\ b.lastRefill \in Nat
    BY <1>2, <1>3, <1>4 DEF Buckets
  <1> HIDE DEF after
  <1>6. after # Empty
    BY <1>4, <1>5 DEF Buckets
  <1>7. since' = s
    BY <1>3, <1>5
  <1> HIDE DEF s
  <1>8. /\ caller' \in [Callers -> Limiter!CallerStates]
        /\ \A d \in Callers : Limiter!Asking(d)' => caller'[d].time <= now' + MaxSkew
    BY <1>3, RestingCaller, CallerGoesOn
  <1>9. Limiter!TypeOK'
    BY <1>2, <1>3, <1>4, <1>5, <1>7, <1>8 DEF Limiter!TypeOK, Buckets
  <1>10. Limiter!TimesAgree'
    BY <1>2, <1>3, <1>5, <1>7, <1>8 DEF Limiter!TimesAgree
  <1>11. \E k \in Nat : /\ bucket'.lastRefill = since' + k * refillIntervalMs
                        /\ spent' + bucket'.tokens <= maxTokens + refillRate * k
    <2>1. PICK k \in Nat : /\ b.lastRefill = s + k * refillIntervalMs
                           /\ spent + b.tokens <= maxTokens + refillRate * k
      BY <1>2
    <2>2. spent' + bucket'.tokens = spent + b.tokens
      BY <1>3, <1>4, <1>5
    <2>3. QED
      BY <1>3, <1>5, <1>7, <2>1, <2>2
  <1>12. Limiter!SpentIsCovered'
    BY <1>3, <1>6, <1>11 DEF Limiter!SpentIsCovered
  <1>13. QED
    BY <1>9, <1>10, <1>12 DEF Limiter!IInv

\* How long a caller has to wait is a whole number of intervals, which bring
\* what is missing.
LEMMA WaitIsEnough ==
  ASSUME Limiter!Parameters, NEW b \in Buckets, NEW n \in Limiter!Requests, b.tokens < n
  PROVE  \E m \in Nat : /\ Limiter!WaitMs(b, n) = m * refillIntervalMs
                        /\ b.tokens + m * refillRate >= n
  <1> DEFINE m == (n - b.tokens + refillRate - 1) \div refillRate
  <1>1. /\ maxTokens \in Nat \ {0} /\ refillRate \in Nat \ {0} /\ refillIntervalMs \in Nat \ {0}
        /\ n \in Nat /\ b.tokens \in Nat
    BY DEF Limiter!Parameters, Limiter!Requests, Buckets
  <1>2. m \in Int /\ n - b.tokens + refillRate - 1 < refillRate * m + refillRate
    <2>1. n - b.tokens + refillRate - 1 \in Int
      BY <1>1
    <2>2. QED
      BY <1>1, <2>1, WholeIntervals
  <1>3. 1 <= m
    <2>1. n - b.tokens + refillRate - 1 \in Int /\ 1 * refillRate <= n - b.tokens + refillRate - 1
      BY <1>1
    <2>2. QED
      BY <1>1, <2>1, IntervalsFit
  <1>4. Limiter!WaitMs(b, n) = m * refillIntervalMs
    BY DEF Limiter!WaitMs
  <1> HIDE DEF m
  <1>5. b.tokens + m * refillRate >= n
    BY <1>1, <1>2
  <1>6. QED
    BY <1>2, <1>3, <1>4, <1>5

LEMMA RefuseKeeps ==
  ASSUME Limiter!Parameters, Limiter!IInv, NEW c \in Callers, Limiter!Refuse(c)
  PROVE  Limiter!IInv'
  <1> DEFINE b == Limiter!Bucket(caller[c].time)
             s == IF bucket = Empty THEN b.lastRefill ELSE since
             wait == Limiter!AtMost(Limiter!WaitMs(b, caller[c].tokens), maxWaitMs - caller[c].waited)
             later == [caller[c] EXCEPT !.at = "asleep", !.time = now + wait, !.waited = @ + wait]
  <1>1. /\ caller[c] \in Limiter!CallerStates /\ caller[c].time \in Nat
        /\ caller[c].time <= now + MaxSkew /\ caller[c].tokens \in Limiter!Requests
        /\ caller[c].waited \in Nat /\ caller \in [Callers -> Limiter!CallerStates]
    BY DEF Limiter!Refuse, Limiter!IInv, Limiter!TypeOK, Limiter!TimesAgree, Limiter!CallerStates
  <1>2. /\ b \in Buckets /\ b.lastRefill <= now + MaxSkew
        /\ s \in Nat /\ s <= now + MaxSkew
        /\ \E k \in Nat : /\ b.lastRefill = s + k * refillIntervalMs
                          /\ spent + b.tokens <= maxTokens + refillRate * k
    BY <1>1, BucketFound
  <1>3. /\ bucket' = b /\ spent' = spent /\ now' = now /\ since' = s
        /\ b.tokens < caller[c].tokens
    BY DEF Limiter!Refuse, Limiter!Saves
  <1>4. /\ maxTokens \in Nat \ {0} /\ refillIntervalMs \in Nat \ {0} /\ maxWaitMs \in Nat
        /\ MaxSkew \in Nat /\ now \in Nat /\ spent \in Nat
        /\ Empty \notin [tokens : Int, lastRefill : Int]
    BY DEF Limiter!Parameters, Limiter!IInv, Limiter!TypeOK
  <1>5. PICK m \in Nat : Limiter!WaitMs(b, caller[c].tokens) = m * refillIntervalMs
    BY <1>1, <1>2, <1>3, WaitIsEnough
  <1>6. wait \in Int
    BY <1>1, <1>4, <1>5 DEF Limiter!AtMost
  <1>7. caller' = IF caller[c].at = "asking" \/ wait <= 0 THEN [caller EXCEPT ![c] = Limiter!Resting]
                  ELSE [caller EXCEPT ![c].at = "asleep", ![c].time = now + wait, ![c].waited = @ + wait]
    BY DEF Limiter!Refuse
  <1> HIDE DEF b, wait
  <1>8. CASE caller[c].at = "asking" \/ wait <= 0
    <2>1. caller' = [caller EXCEPT ![c] = Limiter!Resting]
      BY <1>7, <1>8
    <2>2. /\ caller' \in [Callers -> Limiter!CallerStates]
          /\ \A d \in Callers : Limiter!Asking(d)' => caller'[d].time <= now' + MaxSkew
      BY <1>3, <2>1, RestingCaller, CallerGoesOn
    <2> QED
      BY <1>2, <1>3, <1>4, <2>2
      DEF Limiter!IInv, Limiter!TypeOK, Limiter!TimesAgree, Limiter!SpentIsCovered, Buckets
  <1>9. CASE ~(caller[c].at = "asking" \/ wait <= 0)
    <2>1. caller' = [caller EXCEPT ![c] = later]
      BY <1>1, <1>7, <1>9
    <2>2. now + wait \in Nat /\ caller[c].waited + wait \in Nat
      BY <1>1, <1>4, <1>6, <1>9
    <2>3. later \in Limiter!CallerStates /\ later.at = "asleep"
      BY <1>1, <2>2 DEF Limiter!CallerStates
    <2> HIDE DEF later
    <2>4. /\ caller' \in [Callers -> Limiter!CallerStates]
          /\ \A d \in Callers : Limiter!Asking(d)' => caller'[d].time <= now' + MaxSkew
      BY <1>3, <2>1, <2>3, CallerGoesOn
    <2> QED
      BY <1>2, <1>3, <1>4, <2>4
      DEF Limiter!IInv, Limiter!TypeOK, Limiter!TimesAgree, Limiter!SpentIsCovered, Buckets
  <1>10. QED
    BY <1>8, <1>9

\* The steps that leave the bucket alone.
LEMMA CallerKeeps ==
  ASSUME Limiter!Parameters, Limiter!IInv, NEW c \in Callers,
         Limiter!Ask(c) \/ Limiter!Wake(c) \/ Limiter!FailOpen(c)
  PROVE  Limiter!IInv'
  <1>1. UNCHANGED <<now, bucket, since, spent>>
    BY DEF Limiter!Ask, Limiter!Wake, Limiter!FailOpen
  <1>2. \E x \in Limiter!CallerStates :
          /\ caller' = [caller EXCEPT ![c] = x]
          /\ x.at \in {"asking", "waiting"} => x.time <= now + MaxSkew
    <2>1. now \in Nat /\ MaxSkew \in Nat /\ caller[c] \in Limiter!CallerStates
          /\ caller \in [Callers -> Limiter!CallerStates]
      BY DEF Limiter!IInv, Limiter!TypeOK, Limiter!Parameters
    <2>2. CASE Limiter!Ask(c)
      <3>1. PICK at \in {"asking", "waiting"}, n \in Limiter!Requests, t \in Limiter!Clocks :
              caller' = [caller EXCEPT ![c] = [at |-> at, tokens |-> n, time |-> t, waited |-> 0]]
        BY <2>2 DEF Limiter!Ask
      <3>2. t \in Nat /\ t <= now + MaxSkew
        BY <2>1 DEF Limiter!Clocks
      <3>3. [at |-> at, tokens |-> n, time |-> t, waited |-> 0] \in Limiter!CallerStates
        BY <3>2 DEF Limiter!CallerStates
      <3>4. QED
        BY <3>1, <3>2, <3>3
    <2>3. CASE caller' = [caller EXCEPT ![c] = Limiter!Resting]
      BY <2>3, RestingCaller
    <2>4. CASE \E t \in Limiter!Clocks : caller' = [caller EXCEPT ![c].at = "waiting", ![c].time = t]
      <3>1. PICK t \in Limiter!Clocks : caller' = [caller EXCEPT ![c].at = "waiting", ![c].time = t]
        BY <2>4
      <3> DEFINE x == [caller[c] EXCEPT !.at = "waiting", !.time = t]
      <3>2. t \in Nat /\ t <= now + MaxSkew
        BY <2>1 DEF Limiter!Clocks
      <3>3. x \in Limiter!CallerStates /\ x.time = t
        BY <2>1, <3>2 DEF Limiter!CallerStates
      <3>4. caller' = [caller EXCEPT ![c] = x]
        BY <2>1, <3>1
      <3>5. QED
        BY <3>2, <3>3, <3>4
    <2>5. QED
      BY <2>2, <2>3, <2>4 DEF Limiter!Wake, Limiter!FailOpen
  <1>3. /\ caller' \in [Callers -> Limiter!CallerStates]
        /\ \A d \in Callers : Limiter!Asking(d)' => caller'[d].time <= now' + MaxSkew
    BY <1>1, <1>2, CallerGoesOn
  <1>4. QED
    BY <1>1, <1>3 DEF Limiter!IInv, Limiter!TypeOK, Limiter!TimesAgree, Limiter!SpentIsCovered

LEMMA LimiterStep ==
  ASSUME Limiter!Parameters, Limiter!IInv, [Limiter!Next]_(Limiter!vars)
  PROVE  Limiter!IInv'
  <1> USE DEF Limiter!IInv
  <1>1. /\ maxTokens \in Nat \ {0} /\ refillIntervalMs \in Nat \ {0} /\ MaxSkew \in Nat /\ now \in Nat
        /\ since \in Nat /\ spent \in Nat
    BY DEF Limiter!Parameters, Limiter!TypeOK
  <1>2. CASE Limiter!Tick
    <2>1. now' = now + 1 /\ UNCHANGED <<bucket, caller, since, spent>>
      BY <1>2 DEF Limiter!Tick
    <2>2. Limiter!TypeOK' /\ Limiter!SpentIsCovered'
      BY <1>1, <2>1 DEF Limiter!TypeOK, Limiter!SpentIsCovered
    <2>3. /\ bucket # Empty => bucket.lastRefill \in Nat
          /\ \A c \in Callers : caller[c].time \in Nat
      BY DEF Limiter!TypeOK, Limiter!CallerStates
    <2>4. Limiter!TimesAgree'
      BY <1>1, <2>1, <2>3 DEF Limiter!TimesAgree, Limiter!Asking
    <2>5. QED
      BY <2>2, <2>4
  <1>3. CASE Limiter!Expire
    BY <1>1, <1>3 DEF Limiter!Expire, Limiter!TypeOK, Limiter!TimesAgree, Limiter!SpentIsCovered,
                      Limiter!Asking
  <1>4. CASE Limiter!Count
    <2>1. /\ bucket # Empty /\ since' = bucket.lastRefill /\ spent' = 0
          /\ UNCHANGED <<now, bucket, caller>>
      BY <1>4 DEF Limiter!Count
    <2>2. bucket.lastRefill \in Nat /\ bucket.tokens \in 0..maxTokens
      BY <2>1 DEF Limiter!TypeOK
    <2>3. Limiter!TypeOK' /\ Limiter!TimesAgree'
      BY <1>1, <2>1, <2>2 DEF Limiter!TypeOK, Limiter!TimesAgree, Limiter!Asking
    <2>4. /\ bucket'.lastRefill = since' + 0 * refillIntervalMs
          /\ spent' + bucket'.tokens <= maxTokens + refillRate * 0
      BY <1>1, <2>1, <2>2 DEF Limiter!Parameters
    <2>5. Limiter!SpentIsCovered'
      BY <2>1, <2>4 DEF Limiter!SpentIsCovered
    <2>6. QED
      BY <2>3, <2>5
  <1>5. CASE UNCHANGED Limiter!vars
    BY <1>5 DEF Limiter!vars, Limiter!TypeOK, Limiter!TimesAgree, Limiter!SpentIsCovered,
                Limiter!Asking
  <1>6. QED
    BY <1>2, <1>3, <1>4, <1>5, GrantKeeps, RefuseKeeps, CallerKeeps DEF Limiter!Next

\* What was given out since any moment is covered by the bucket and the whole
\* intervals the clocks have gone through.
LEMMA BurstBounded ==
  ASSUME Limiter!Parameters, Limiter!IInv
  PROVE  Limiter!BurstIsBounded
  <1> DEFINE d == (now + MaxSkew - since) \div refillIntervalMs
  <1>1. /\ maxTokens \in Nat \ {0} /\ refillRate \in Nat \ {0} /\ refillIntervalMs \in Nat \ {0}
        /\ MaxSkew \in Nat /\ now \in Nat /\ since \in Nat /\ spent \in Nat
        /\ since <= now + MaxSkew
    BY DEF Limiter!Parameters, Limiter!IInv, Limiter!TypeOK, Limiter!TimesAgree
  <1>2. \E k \in Nat : k * refillIntervalMs <= now + MaxSkew - since /\ spent <= maxTokens + refillRate * k
    <2>1. CASE bucket = Empty
      <3>1. 0 * refillIntervalMs <= now + MaxSkew - since /\ spent <= maxTokens + refillRate * 0
        BY <1>1, <2>1 DEF Limiter!IInv, Limiter!SpentIsCovered
      <3>2. QED
        BY <3>1
    <2>2. CASE bucket # Empty
      <3>1. /\ bucket.tokens \in Nat /\ bucket.lastRefill \in Nat
            /\ bucket.lastRefill <= now + MaxSkew
        BY <2>2 DEF Limiter!IInv, Limiter!TypeOK, Limiter!TimesAgree
      <3>2. PICK k \in Nat : /\ bucket.lastRefill = since + k * refillIntervalMs
                             /\ spent + bucket.tokens <= maxTokens + refillRate * k
        BY <2>2 DEF Limiter!IInv, Limiter!SpentIsCovered
      <3>3. k * refillIntervalMs <= now + MaxSkew - since /\ spent <= maxTokens + refillRate * k
        BY <1>1, <3>1, <3>2
      <3>4. QED
        BY <3>3
    <2>3. QED
      BY <2>1, <2>2
  <1>3. PICK k \in Nat : k * refillIntervalMs <= now + MaxSkew - since /\ spent <= maxTokens + refillRate * k
    BY <1>2
  <1>4. d \in Int /\ k <= d
    BY <1>1, <1>3, WholeIntervals, IntervalsFit
  <1> HIDE DEF d
  <1>5. refillRate * k <= refillRate * d
    BY <1>1, <1>4, Scaled
  <1>6. spent <= maxTokens + refillRate * d
    BY <1>1, <1>3, <1>4, <1>5
  <1>7. QED
    BY <1>6 DEF Limiter!BurstIsBounded, d

\* A bucket that was too empty has the tokens when the wait is over.
LEMMA RetryFinds ==
  ASSUME Limiter!Parameters, NEW b \in Buckets, NEW time \in Nat, NEW n \in Limiter!Requests,
         b.tokens < n, b.lastRefill <= time
  PROVE  Limiter!Filled(b, time + Limiter!WaitMs(b, n)).tokens >= n
  <1>1. PICK m \in Nat : Limiter!WaitMs(b, n) = m * refillIntervalMs /\ b.tokens + m * refillRate >= n
    BY WaitIsEnough
  <1> DEFINE w == Limiter!WaitMs(b, n)
             k == (time + w - b.lastRefill) \div refillIntervalMs
  <1>2. /\ maxTokens \in Nat \ {0} /\ refillRate \in Nat \ {0} /\ refillIntervalMs \in Nat \ {0}
        /\ n \in 1..maxTokens /\ b.tokens \in Nat /\ b.lastRefill \in Nat
    BY DEF Limiter!Parameters, Limiter!Requests, Buckets
  <1>3. w = m * refillIntervalMs /\ w \in Nat
    BY <1>1, <1>2
  <1> HIDE DEF w
  <1>4. m * refillIntervalMs <= time + w - b.lastRefill /\ time + w - b.lastRefill \in Int
    BY <1>2, <1>3
  <1>5. k \in Int /\ m <= k
    BY <1>2, <1>4, WholeIntervals, IntervalsFit
  <1>6. Limiter!Filled(b, time + w) =
          IF k > 0 THEN [tokens |-> Limiter!AtMost(b.tokens + k * refillRate, maxTokens),
                         lastRefill |-> b.lastRefill + k * refillIntervalMs]
          ELSE b
    BY <1>2, <1>3, FilledIs
  <1> HIDE DEF k
  <1>7. m > 0
    BY <1>1, <1>2
  <1>8. refillRate * m <= refillRate * k
    BY <1>2, <1>5, Scaled
  <1>9. b.tokens + k * refillRate >= n
    BY <1>1, <1>2, <1>5, <1>8
  <1>10. Limiter!AtMost(b.tokens + k * refillRate, maxTokens) >= n
    BY <1>2, <1>9 DEF Limiter!AtMost
  <1>11. QED
    BY <1>5, <1>6, <1>7, <1>10 DEF w

\* What was given out and what is left was brought by the bucket and the
\* intervals it was filled up for.
THEOREM LimiterInvariant == Limiter!Spec => []Limiter!IInv
<1> Limiter!Parameters
  BY ServicesAssumption DEF ServicesAssumption
<1>1. Limiter!Init => Limiter!IInv
  <2> SUFFICES ASSUME Limiter!Init PROVE Limiter!IInv
    OBVIOUS
  <2>1. MaxSkew \in Nat /\ Limiter!Resting \in Limiter!CallerStates /\ Limiter!Resting.at = "idle"
    BY RestingCaller DEF Limiter!Parameters
  <2>2. Limiter!TypeOK
    BY <2>1 DEF Limiter!Init, Limiter!TypeOK
  <2> QED
    BY <2>1, <2>2
    DEF Limiter!Init, Limiter!IInv, Limiter!TimesAgree, Limiter!SpentIsCovered, Limiter!Asking
<1>2. Limiter!IInv /\ [Limiter!Next]_(Limiter!vars) => Limiter!IInv'
  BY LimiterStep
<1> QED BY <1>1, <1>2, PTL DEF Limiter!Spec

\* From whatever moment one counts, no more is given out than a full bucket and
\* the refills since; and whoever is told to wait finds its tokens that long
\* after it asked, or after a refill that was ahead of its clock
\* (queue/rate-limiter.ts:52-90, middleware/rate-limit.ts:54-58).
THEOREM LimiterHolds == Limiter!Spec => []LimiterKeepsItsWord
<1> Limiter!Parameters
  BY ServicesAssumption DEF ServicesAssumption
<1>1. ASSUME Limiter!IInv PROVE Limiter!RetryAfterIsEnough
  <2> SUFFICES ASSUME NEW time \in Limiter!Clocks, NEW n \in Limiter!Requests,
                      Limiter!Bucket(time).tokens < n
               PROVE  Limiter!Filled(Limiter!Bucket(time),
                        Limiter!Later(time, Limiter!Bucket(time).lastRefill)
                          + Limiter!WaitMs(Limiter!Bucket(time), n)).tokens >= n
    BY DEF Limiter!RetryAfterIsEnough
  <2>1. time \in Nat /\ time <= now + MaxSkew
    BY <1>1 DEF Limiter!IInv, Limiter!TypeOK, Limiter!Parameters, Limiter!Clocks
  <2>2. Limiter!Bucket(time) \in Buckets
    BY <1>1, <2>1, BucketFound
  <2>3. PICK b : b = Limiter!Bucket(time)
    OBVIOUS
  <2>4. PICK later : later = Limiter!Later(time, b.lastRefill)
    OBVIOUS
  <2>5. later \in Nat /\ b.lastRefill <= later
    BY <2>1, <2>2, <2>3, <2>4 DEF Buckets, Limiter!Later
  <2>6. Limiter!Filled(b, later + Limiter!WaitMs(b, n)).tokens >= n
    BY <2>2, <2>3, <2>5, RetryFinds
  <2> QED BY <2>3, <2>4, <2>6
<1>2. Limiter!IInv => LimiterKeepsItsWord
  BY <1>1, BurstBounded DEF LimiterKeepsItsWord, Limiter!LimiterKeepsItsWord
<1> QED BY <1>2, LimiterInvariant, PTL
-----------------------------------------------------------------------------
(***************************************************************************)
(* The issue list, for any number of issues, clicks and changes by others. *)
(***************************************************************************)
LEMMA ListStep ==
  ASSUME List!IInv, [List!Next]_(List!vars)
  PROVE  List!IInv'
<1> USE DEF List!IInv, List!SelectedWereSeen, List!FailedStaySelected, List!Stays, List!Click
<1>1. ASSUME NEW f \in List!Filters, List!PickFilter(f) PROVE List!IInv'
  <2>1. /\ filter' = f /\ page' = 0 /\ f # filter /\ selected' = {} /\ failed' = {}
        /\ UNCHANGED cache
        /\ seen' = List!ShownOf(List!Cached(List!QueryOf(f, 0)), f)
    BY <1>1 DEF List!PickFilter, List!Reselected
  <2>2. List!Shown' = seen'
    BY <2>1 DEF List!Shown, List!Data, List!Cached
  <2> QED BY <2>1, <2>2
<1>2. ASSUME NEW p \in List!Pages, List!GoTo(p) PROVE List!IInv'
  <2>1. /\ page' = p /\ UNCHANGED <<filter, cache, selected, bulk, failed>>
        /\ seen' = seen \cup List!ShownOf(List!Cached(List!QueryOf(filter, p)), filter)
    BY <1>2 DEF List!GoTo, List!Show
  <2>2. List!Shown' \subseteq seen'
    BY <2>1 DEF List!Shown, List!Data, List!Cached
  <2> QED BY <2>1, <2>2
<1>3. CASE List!Fetch
  <2> DEFINE q == List!QueryOf(filter, page)
  <2>1. /\ UNCHANGED <<filter, page, selected, bulk, failed>>
        /\ cache' = [k \in DOMAIN cache \cup {q} |-> IF k = q THEN List!ListOf(q) ELSE cache[k]]
        /\ seen' = seen \cup List!ShownOf(List!ListOf(q), filter)
    BY <1>3 DEF List!Fetch
  <2>2. List!Data' = List!ListOf(q)
    BY <2>1 DEF List!Data, List!Cached
  <2>3. List!Shown' \subseteq seen'
    BY <2>1, <2>2 DEF List!Shown
  <2> QED BY <2>1, <2>3
<1>4. ASSUME UNCHANGED <<filter, page, cache, seen>>, selected' \subseteq selected \cup List!Shown,
             failed' \subseteq selected', bulk' # {} => failed' = {}
      PROVE  List!IInv'
  BY <1>4 DEF List!Shown, List!Data, List!Cached
<1>5. ASSUME NEW i \in List!Numbers, List!ToggleOne(i) \/ List!Others(i) PROVE List!IInv'
  BY <1>4, <1>5 DEF List!ToggleOne, List!Select, List!Others
<1>6. CASE List!ToggleAll \/ List!Clear
  BY <1>4, <1>6 DEF List!ToggleAll, List!Clear, List!Select
<1>7. ASSUME NEW a \in List!Actions, List!BulkAction(a) PROVE List!IInv'
  BY <1>4, <1>7 DEF List!BulkAction
<1>8. ASSUME NEW p \in posts, List!PostDone(p) PROVE List!IInv'
  <2>1. /\ UNCHANGED <<filter, page, cache, seen, failed>> /\ bulk' = bulk \ {p}
        /\ selected' = IF bulk = {p} THEN {} ELSE selected
    BY <1>8 DEF List!PostDone
  <2> QED BY <1>4, <2>1
<1>9. ASSUME NEW p \in posts, List!PostFails(p) PROVE List!IInv'
  BY <1>4, <1>9 DEF List!PostFails, List!AfterFailure
<1>10. CASE UNCHANGED List!vars
  BY <1>4, <1>10 DEF List!vars
<1> QED BY <1>1, <1>2, <1>3, <1>5, <1>6, <1>7, <1>8, <1>9, <1>10 DEF List!Next

\* What a bulk action would be applied to was shown under the filters that are
\* set, and what failed stays selected until somebody looks after it, however
\* filters, pages, refetches and answers follow each other (Issues.tsx:110-196).
THEOREM SelectionHolds == List!Spec => []SelectionIsMeant
<1>1. List!Init => List!IInv
  <2> SUFFICES ASSUME List!Init PROVE List!IInv
    OBVIOUS
  <2>1. cache = <<>> /\ DOMAIN cache = {}
    BY DEF List!Init
  <2>2. List!Data = List!Nothing
    BY <2>1 DEF List!Data, List!Cached
  <2>3. List!Shown = {}
    BY <2>2 DEF List!Shown, List!ShownOf, List!Nothing, List!ToSet
  <2> QED BY <2>3 DEF List!Init, List!IInv, List!SelectedWereSeen, List!FailedStaySelected
<1>2. List!IInv /\ [List!Next]_(List!vars) => List!IInv'
  BY ListStep
<1>3. List!IInv => SelectionIsMeant
  BY DEF List!IInv, SelectionIsMeant, List!SelectionIsMeant
<1> QED BY <1>1, <1>2, <1>3, PTL DEF List!Spec
-----------------------------------------------------------------------------
\* The Slack bot, for any people, turns, limits and messages.

\* What the last n of a sequence are.
LEMMA LastOnes ==
  ASSUME NEW S, NEW s \in Seq(S), NEW n \in Nat \ {0}
  PROVE  /\ Bot!LastOf(s, n) \in Seq(S)
         /\ Len(Bot!LastOf(s, n)) = IF Len(s) > n THEN n ELSE Len(s)
         /\ \A i \in 1..Len(Bot!LastOf(s, n)) :
              Bot!LastOf(s, n)[i] = s[Len(s) - Len(Bot!LastOf(s, n)) + i]
  <1>1. Len(s) \in Nat
    OBVIOUS
  <1> DEFINE first == IF Len(s) > n THEN Len(s) - n + 1 ELSE 1
  <1>2. first \in 1..(Len(s) + 1) /\ Len(s) - first + 1 = IF Len(s) > n THEN n ELSE Len(s)
    BY <1>1
  <1>3. Bot!LastOf(s, n) = SubSeq(s, first, Len(s))
    BY DEF Bot!LastOf
  <1> HIDE DEF first
  <1>4. /\ SubSeq(s, first, Len(s)) \in Seq(S)
        /\ Len(SubSeq(s, first, Len(s))) = Len(s) - first + 1
        /\ \A i \in 1..(Len(s) - first + 1) : SubSeq(s, first, Len(s))[i] = s[first + i - 1]
    BY <1>1, <1>2, SubSeqProperties
  <1>5. \A i \in 1..(Len(s) - first + 1) : first + i - 1 = Len(s) - (Len(s) - first + 1) + i
    BY <1>1, <1>2
  <1> QED BY <1>2, <1>3, <1>4, <1>5

LEMMA Appended ==
  ASSUME NEW S, NEW s \in Seq(S), NEW a \in S
  PROVE  /\ Append(s, a) \in Seq(S) /\ Len(Append(s, a)) = Len(s) + 1
         /\ Append(s, a)[Len(s) + 1] = a
         /\ \A i \in 1..Len(s) : Append(s, a)[i] = s[i]
  OBVIOUS

LEMMA SameSequence ==
  ASSUME NEW S, NEW s \in Seq(S), NEW t \in Seq(S), Len(s) = Len(t),
         \A i \in 1..Len(s) : s[i] = t[i]
  PROVE  s = t
  OBVIOUS

\* What is cut off twice could have been cut off at once.
LEMMA CutOnce ==
  ASSUME NEW S, NEW s \in Seq(S), NEW n \in Nat \ {0}, NEW a \in S, NEW b \in S
  PROVE  Bot!LastOf(Append(Append(Bot!LastOf(s, n), a), b), n) =
         Bot!LastOf(Append(Append(s, a), b), n)
  <1> DEFINE r == Bot!LastOf(s, n)
             x == Append(Append(r, a), b)
             y == Append(Append(s, a), b)
             u == Bot!LastOf(x, n)
             v == Bot!LastOf(y, n)
  <1>1. /\ r \in Seq(S) /\ Len(r) = IF Len(s) > n THEN n ELSE Len(s)
        /\ \A i \in 1..Len(r) : r[i] = s[Len(s) - Len(r) + i]
        /\ Len(s) \in Nat
    BY LastOnes
  <1> HIDE DEF r
  <1>2. /\ x \in Seq(S) /\ Len(x) = Len(r) + 2 /\ x[Len(r) + 1] = a /\ x[Len(r) + 2] = b
        /\ \A i \in 1..Len(r) : x[i] = r[i]
    <2>1. /\ Append(r, a) \in Seq(S) /\ Len(Append(r, a)) = Len(r) + 1
          /\ Append(r, a)[Len(r) + 1] = a
          /\ \A i \in 1..Len(r) : Append(r, a)[i] = r[i]
      BY <1>1, Appended
    <2> QED BY <1>1, <2>1, Appended
  <1>3. /\ y \in Seq(S) /\ Len(y) = Len(s) + 2 /\ y[Len(s) + 1] = a /\ y[Len(s) + 2] = b
        /\ \A i \in 1..Len(s) : y[i] = s[i]
    <2>1. /\ Append(s, a) \in Seq(S) /\ Len(Append(s, a)) = Len(s) + 1
          /\ Append(s, a)[Len(s) + 1] = a
          /\ \A i \in 1..Len(s) : Append(s, a)[i] = s[i]
      BY <1>1, Appended
    <2> QED BY <1>1, <2>1, Appended
  <1> HIDE DEF x, y
  <1>4. /\ u \in Seq(S) /\ Len(u) = IF Len(x) > n THEN n ELSE Len(x)
        /\ \A i \in 1..Len(u) : u[i] = x[Len(x) - Len(u) + i]
    BY <1>2, LastOnes
  <1>5. /\ v \in Seq(S) /\ Len(v) = IF Len(y) > n THEN n ELSE Len(y)
        /\ \A i \in 1..Len(v) : v[i] = y[Len(y) - Len(v) + i]
    BY <1>3, LastOnes
  <1> HIDE DEF u, v
  <1>6. Len(u) = Len(v) /\ Len(u) \in Nat
    BY <1>1, <1>2, <1>3, <1>4, <1>5
  <1>7. ASSUME NEW i \in 1..Len(u) PROVE u[i] = v[i]
    <2> DEFINE j == Len(x) - Len(u) + i
               k == Len(y) - Len(u) + i
    <2>1. /\ Len(u) \in Nat /\ Len(x) \in Nat /\ Len(y) \in Nat /\ Len(r) \in Nat /\ i \in Int
          /\ Len(u) <= Len(x) /\ Len(u) <= Len(y) /\ i >= 1 /\ i <= Len(u)
          /\ Len(x) = Len(r) + 2 /\ Len(y) = Len(s) + 2 /\ Len(r) <= Len(s)
      BY <1>1, <1>2, <1>3, <1>4, <1>5, <1>6
    <2>2. j \in 1..Len(x) /\ k \in 1..Len(y) /\ k = Len(s) - Len(r) + j
      BY <1>1, <2>1
    <2>3. u[i] = x[j] /\ v[i] = y[k]
      BY <1>4, <1>5, <1>6
    <2> HIDE DEF j, k
    <2>4. CASE j \in 1..Len(r)
      <3>1. k \in 1..Len(s)
        BY <1>1, <2>1, <2>2, <2>4
      <3>2. x[j] = r[j] /\ r[j] = s[Len(s) - Len(r) + j] /\ y[k] = s[k]
        BY <1>1, <1>2, <1>3, <2>4, <3>1
      <3> QED BY <2>2, <2>3, <3>2
    <2>5. CASE j = Len(r) + 1
      BY <1>1, <1>2, <1>3, <2>1, <2>2, <2>3, <2>5
    <2>6. CASE j = Len(r) + 2
      BY <1>1, <1>2, <1>3, <2>1, <2>2, <2>3, <2>6
    <2>7. j \in 1..Len(r) \/ j = Len(r) + 1 \/ j = Len(r) + 2
      BY <2>1, <2>2
    <2> QED BY <2>4, <2>5, <2>6, <2>7
  <1>8. u = v
    BY <1>4, <1>5, <1>6, <1>7, SameSequence
  <1> QED BY <1>8 DEF u, v, x, y, r

\* One more message answered is one more exchange.
LEMMA ExchangesAre ==
  ASSUME NEW ms \in Seq(Bot!Ids)
  PROVE  /\ Bot!Exchanges(ms) \in Seq(Bot!Entries) /\ Len(Bot!Exchanges(ms)) = 2 * Len(ms)
         /\ \A i \in 1..(2 * Len(ms)) : Bot!Exchanges(ms)[i] =
              [role |-> IF i % 2 = 1 THEN "user" ELSE "assistant", msg |-> ms[(i + 1) \div 2]]
  <1>1. Len(ms) \in Nat /\ 2 * Len(ms) \in Nat
    OBVIOUS
  <1>2. ASSUME NEW i \in 1..(2 * Len(ms))
        PROVE  [role |-> IF i % 2 = 1 THEN "user" ELSE "assistant",
                msg |-> ms[(i + 1) \div 2]] \in Bot!Entries
    <2>1. (i + 1) \div 2 \in 1..Len(ms)
      BY <1>1
    <2>2. ms[(i + 1) \div 2] \in Bot!Ids
      BY <2>1
    <2> QED BY <2>2 DEF Bot!Entries
  <1> QED BY <1>1, <1>2 DEF Bot!Exchanges

LEMMA ExchangesGrow ==
  ASSUME NEW ms \in Seq(Bot!Ids), NEW m \in Bot!Ids
  PROVE  Bot!Exchanges(Append(ms, m)) =
           Append(Append(Bot!Exchanges(ms), [role |-> "user", msg |-> m]),
                  [role |-> "assistant", msg |-> m])
  <1> DEFINE e == Bot!Exchanges(ms)
             a == [role |-> "user", msg |-> m]
             b == [role |-> "assistant", msg |-> m]
             x == Bot!Exchanges(Append(ms, m))
             y == Append(Append(e, a), b)
             n == Len(ms)
  <1>1. n \in Nat /\ a \in Bot!Entries /\ b \in Bot!Entries
    BY DEF Bot!Entries
  <1>2. /\ Append(ms, m) \in Seq(Bot!Ids) /\ Len(Append(ms, m)) = n + 1
        /\ Append(ms, m)[n + 1] = m /\ \A i \in 1..n : Append(ms, m)[i] = ms[i]
    BY Appended
  <1>3. /\ e \in Seq(Bot!Entries) /\ Len(e) = 2 * n
        /\ \A i \in 1..(2 * n) : e[i] =
              [role |-> IF i % 2 = 1 THEN "user" ELSE "assistant", msg |-> ms[(i + 1) \div 2]]
    BY ExchangesAre
  <1>4. /\ x \in Seq(Bot!Entries) /\ Len(x) = 2 * (n + 1)
        /\ \A i \in 1..(2 * (n + 1)) : x[i] =
              [role |-> IF i % 2 = 1 THEN "user" ELSE "assistant",
               msg |-> Append(ms, m)[(i + 1) \div 2]]
    BY <1>2, ExchangesAre
  <1> HIDE DEF e, x, n, a, b
  <1>5. /\ y \in Seq(Bot!Entries) /\ Len(y) = 2 * n + 2 /\ y[2 * n + 1] = a /\ y[2 * n + 2] = b
        /\ \A i \in 1..(2 * n) : y[i] = e[i]
    <2>1. /\ Append(e, a) \in Seq(Bot!Entries) /\ Len(Append(e, a)) = 2 * n + 1
          /\ Append(e, a)[2 * n + 1] = a /\ \A i \in 1..(2 * n) : Append(e, a)[i] = e[i]
      BY <1>1, <1>3, Appended
    <2> QED BY <1>1, <2>1, Appended
  <1> HIDE DEF y
  <1>6. ASSUME NEW i \in 1..(2 * n + 2) PROVE x[i] = y[i]
    <2>1. CASE i \in 1..(2 * n)
      <3> DEFINE k == (i + 1) \div 2
      <3>1. k \in 1..n /\ i \in 1..(2 * (n + 1))
        BY <1>1, <2>1
      <3>2. /\ x[i] = [role |-> IF i % 2 = 1 THEN "user" ELSE "assistant", msg |-> Append(ms, m)[k]]
            /\ y[i] = [role |-> IF i % 2 = 1 THEN "user" ELSE "assistant", msg |-> ms[k]]
        BY <1>3, <1>4, <1>5, <2>1, <3>1
      <3> HIDE DEF k
      <3> QED BY <1>2, <3>1, <3>2
    <2>2. CASE i = 2 * n + 1
      <3>1. i % 2 = 1 /\ (i + 1) \div 2 = n + 1
        BY <1>1, <2>2
      <3>2. i \in 1..(2 * (n + 1)) /\ y[i] = a
        BY <1>1, <1>5, <2>2
      <3>3. x[i] = [role |-> IF i % 2 = 1 THEN "user" ELSE "assistant", msg |-> Append(ms, m)[(i + 1) \div 2]]
        BY <1>4, <3>2
      <3>4. x[i] = [role |-> "user", msg |-> Append(ms, m)[n + 1]]
        BY <3>1, <3>3
      <3> QED BY <1>2, <3>2, <3>4 DEF a
    <2>3. CASE i = 2 * n + 2
      <3>1. i % 2 # 1 /\ (i + 1) \div 2 = n + 1
        BY <1>1, <2>3
      <3>2. i \in 1..(2 * (n + 1)) /\ y[i] = b
        BY <1>1, <1>5, <2>3
      <3>3. x[i] = [role |-> IF i % 2 = 1 THEN "user" ELSE "assistant", msg |-> Append(ms, m)[(i + 1) \div 2]]
        BY <1>4, <3>2
      <3>4. x[i] = [role |-> "assistant", msg |-> Append(ms, m)[n + 1]]
        BY <3>1, <3>3, Zenon
      <3> QED BY <1>2, <3>2, <3>4 DEF b
    <2> QED BY <1>1, <2>1, <2>2, <2>3
  <1>7. x = y
    BY <1>1, <1>4, <1>5, <1>6, SameSequence
  <1> QED BY <1>7 DEF x, y, e, a, b

TurnStates == [at : {"idle", "loading", "calling", "saving", "posting"}, msg : Bot!Ids,
               history : Seq(Bot!Entries), round : 0..ToolRounds, content : Bot!Contents]

\* The instance has operators of FiniteSets of its own.
LEMMA SameFinite == \A S : Bot!IsFiniteSet(S) <=> IsFiniteSet(S)
  BY DEF Bot!IsFiniteSet, IsFiniteSet

LEMMA SameCardinality == \A S : Bot!Cardinality(S) = Cardinality(S)
  BY DEF Bot!Cardinality, Cardinality

LEMMA AttemptsCounted ==
  Bot!AttemptsAreCounted <=>
    \A kind \in Bot!Kinds, u \in Bot!People :
      /\ IsFiniteSet(rate[kind][u]) /\ passed[kind][u] \subseteq Bot!Recent(rate[kind][u])
      /\ Cardinality(passed[kind][u]) <= Bot!MaxOf(kind)
  BY SameFinite, SameCardinality DEF Bot!AttemptsAreCounted

LEMMA AttemptsCountedNext ==
  Bot!AttemptsAreCounted' <=>
    \A kind \in Bot!Kinds, u \in Bot!People :
      /\ IsFiniteSet(rate'[kind][u]) /\ passed'[kind][u] \subseteq Bot!Recent(rate[kind][u])'
      /\ Cardinality(passed'[kind][u]) <= Bot!MaxOf(kind)
  BY SameFinite, SameCardinality DEF Bot!AttemptsAreCounted, Bot!MaxOf

\* A new attempt goes to the ones of the window, and passes if there is room.
LEMMA AttemptCounted ==
  ASSUME Bot!IInv, NEW kind \in Bot!Kinds, NEW u \in Bot!People, NEW m \in Bot!Ids, NEW came \in 1..2,
         Bot!Attempt(kind, u, m, came), UNCHANGED clock
  PROVE  /\ Bot!AttemptsAreCounted'
         /\ {rate', passed'} \subseteq [Bot!Kinds -> [Bot!People -> SUBSET Bot!Attempts]]
  <1> DEFINE a == [of |-> m, came |-> came, at |-> clock]
             old == Bot!Recent(rate[kind][u])
  <1>1. /\ rate \in [Bot!Kinds -> [Bot!People -> SUBSET Bot!Attempts]]
        /\ passed \in [Bot!Kinds -> [Bot!People -> SUBSET Bot!Attempts]]
        /\ clock \in Nat
    BY DEF Bot!IInv, Bot!TypeOK
  <1>2. a \in Bot!Attempts
    BY <1>1 DEF Bot!Attempts
  <1>3. /\ rate' = [rate EXCEPT ![kind][u] = old \cup {a}]
        /\ passed' = IF Bot!Passes(kind, u) THEN [passed EXCEPT ![kind][u] = passed[kind][u] \cup {a}]
                     ELSE passed
    BY <1>1 DEF Bot!Attempt
  <1>4. old \in SUBSET Bot!Attempts /\ passed[kind][u] \cup {a} \in SUBSET Bot!Attempts
    BY <1>1, <1>2 DEF Bot!Recent
  <1>5. {rate', passed'} \subseteq [Bot!Kinds -> [Bot!People -> SUBSET Bot!Attempts]]
    BY <1>1, <1>2, <1>3, <1>4
  <1>6. \A k \in Bot!Kinds, v \in Bot!People :
          /\ IsFiniteSet(rate[k][v]) /\ passed[k][v] \subseteq Bot!Recent(rate[k][v])
          /\ Cardinality(passed[k][v]) <= Bot!MaxOf(k)
    BY AttemptsCounted DEF Bot!IInv
  <1>7. /\ IsFiniteSet(old) /\ IsFiniteSet(passed[kind][u])
        /\ Cardinality(passed[kind][u]) <= Cardinality(old)
    <2>1. old \in SUBSET rate[kind][u] /\ passed[kind][u] \in SUBSET old
      BY <1>6 DEF Bot!Recent
    <2>2. IsFiniteSet(rate[kind][u])
      BY <1>6
    <2>3. IsFiniteSet(old)
      BY <2>1, <2>2, FS_Subset
    <2> QED BY <2>1, <2>3, FS_Subset
  <1>8. a.at > clock - RateWindow
    BY <1>1, ServicesAssumption DEF ServicesAssumption, Bot!Parameters
  <1> HIDE DEF a, old
  <1>9. IsFiniteSet(old \cup {a}) /\ IsFiniteSet(passed[kind][u] \cup {a})
    BY <1>7, FS_AddElement
  <1>10. /\ Cardinality(passed[kind][u]) \in Nat /\ Cardinality(old) \in Nat
         /\ Cardinality(passed[kind][u] \cup {a}) <= Cardinality(passed[kind][u]) + 1
    <2>1. Cardinality(passed[kind][u]) \in Nat /\ Cardinality(old) \in Nat
      BY <1>7, FS_CardinalityType
    <2>2. Cardinality(passed[kind][u] \cup {a}) =
            IF a \in passed[kind][u] THEN Cardinality(passed[kind][u])
            ELSE Cardinality(passed[kind][u]) + 1
      BY <1>7, FS_AddElement
    <2> QED BY <2>1, <2>2
  <1>11. Bot!MaxOf(kind) \in Nat
    BY ServicesAssumption DEF ServicesAssumption, Bot!Parameters, Bot!MaxOf
  <1>12. ASSUME Bot!Passes(kind, u)
         PROVE  Cardinality(passed[kind][u] \cup {a}) <= Bot!MaxOf(kind)
    <2>1. Cardinality(old) + 1 <= Bot!MaxOf(kind)
      BY <1>12, SameCardinality DEF Bot!Passes, old
    <2>2. Cardinality(passed[kind][u] \cup {a}) \in Nat
      BY <1>9, FS_CardinalityType
    <2> QED BY <1>7, <1>10, <1>11, <2>1, <2>2
  <1>13. ASSUME NEW k \in Bot!Kinds, NEW v \in Bot!People
         PROVE  /\ IsFiniteSet(rate'[k][v]) /\ passed'[k][v] \subseteq Bot!Recent(rate'[k][v])
                /\ Cardinality(passed'[k][v]) <= Bot!MaxOf(k)
    <2>1. CASE k = kind /\ v = u
      <3>1. rate'[k][v] = old \cup {a}
        BY <1>1, <1>3, <2>1
      <3>2. passed'[k][v] = IF Bot!Passes(kind, u) THEN passed[kind][u] \cup {a} ELSE passed[kind][u]
        BY <1>1, <1>3, <2>1
      <3>3. Bot!Recent(old \cup {a}) = old \cup {a}
        BY <1>8 DEF Bot!Recent, old
      <3>4. passed[kind][u] \subseteq old
        BY <1>6 DEF old
      <3>5. CASE Bot!Passes(kind, u)
        BY <1>9, <1>12, <2>1, <3>1, <3>2, <3>3, <3>4, <3>5
      <3>6. CASE ~Bot!Passes(kind, u)
        BY <1>6, <1>9, <2>1, <3>1, <3>2, <3>3, <3>4, <3>6
      <3> QED BY <3>5, <3>6
    <2>2. CASE ~(k = kind /\ v = u)
      <3>1. rate'[k][v] = rate[k][v] /\ passed'[k][v] = passed[k][v]
        BY <1>1, <1>3, <2>2
      <3> QED BY <1>6, <3>1
    <2> QED BY <2>1, <2>2
  <1>14. Bot!AttemptsAreCounted'
    BY <1>13, AttemptsCountedNext DEF Bot!Recent
  <1> QED BY <1>5, <1>14

\* Time forgets attempts that passed, and a restart all of them.
LEMMA PassCounts ==
  ASSUME Bot!IInv, Bot!Pass
  PROVE  Bot!AttemptsAreCounted' /\ Bot!TypeOK'
  <1>1. /\ rate \in [Bot!Kinds -> [Bot!People -> SUBSET Bot!Attempts]]
        /\ passed \in [Bot!Kinds -> [Bot!People -> SUBSET Bot!Attempts]]
        /\ clock \in Nat /\ clock' = clock + 1 /\ rate' = rate
        /\ \A k \in Bot!Kinds, v \in Bot!People :
             passed'[k][v] = {a \in passed[k][v] : a.at > clock' - RateWindow}
        /\ passed' = [k \in Bot!Kinds |-> [v \in Bot!People |->
                        {a \in passed[k][v] : a.at > clock' - RateWindow}]]
    BY DEF Bot!IInv, Bot!TypeOK, Bot!Pass
  <1>2. Bot!TypeOK'
    <2>1. passed' \in [Bot!Kinds -> [Bot!People -> SUBSET Bot!Attempts]]
      BY <1>1
    <2> QED BY <1>1, <2>1 DEF Bot!IInv, Bot!TypeOK, Bot!Pass
  <1>3. ASSUME NEW k \in Bot!Kinds, NEW v \in Bot!People
        PROVE  /\ IsFiniteSet(rate'[k][v]) /\ passed'[k][v] \subseteq Bot!Recent(rate[k][v])'
               /\ Cardinality(passed'[k][v]) <= Bot!MaxOf(k)
    <2>1. /\ IsFiniteSet(rate[k][v]) /\ passed[k][v] \subseteq Bot!Recent(rate[k][v])
          /\ Cardinality(passed[k][v]) <= Bot!MaxOf(k)
      BY AttemptsCounted DEF Bot!IInv
    <2>2. passed'[k][v] \in SUBSET passed[k][v] /\ passed[k][v] \in SUBSET rate[k][v]
      BY <1>1, <2>1 DEF Bot!Recent
    <2>3. passed'[k][v] \subseteq Bot!Recent(rate[k][v])'
      BY <1>1, <2>2 DEF Bot!Recent
    <2>4. IsFiniteSet(passed[k][v])
      BY <2>1, <2>2, FS_Subset
    <2>5. /\ Cardinality(passed'[k][v]) <= Cardinality(passed[k][v])
          /\ Cardinality(passed'[k][v]) \in Nat /\ Cardinality(passed[k][v]) \in Nat
      BY <2>2, <2>4, FS_Subset, FS_CardinalityType
    <2>6. Bot!MaxOf(k) \in Nat
      BY ServicesAssumption DEF ServicesAssumption, Bot!Parameters, Bot!MaxOf
    <2> QED BY <1>1, <2>1, <2>3, <2>5, <2>6
  <1> QED BY <1>2, <1>3, AttemptsCountedNext

LEMMA RestingTurn == Bot!Parameters => Bot!Resting \in TurnStates
  <1> SUFFICES ASSUME Bot!Parameters PROVE Bot!Resting \in TurnStates
    OBVIOUS
  <1>1. 1 \in Bot!Ids
    BY DEF Bot!Parameters, Bot!Ids
  <1>2. <<>> \in Seq(Bot!Entries) /\ 0 \in 0..ToolRounds
    BY DEF Bot!Parameters
  <1> QED BY <1>1, <1>2 DEF Bot!Resting, TurnStates, Bot!Contents

\* The variables by their types.
LEMMA BotTypes ==
  ASSUME Bot!TypeOK
  PROVE  /\ messages \in Seq([user : Bot!People, thread : Bot!Ids, came : 0..2])
         /\ turn \in [Turns -> TurnStates] /\ stored \in [Bot!Ids -> Seq(Bot!Entries)]
         /\ rate \in [Bot!Kinds -> [Bot!People -> SUBSET Bot!Attempts]]
         /\ passed \in [Bot!Kinds -> [Bot!People -> SUBSET Bot!Attempts]]
         /\ clock \in Nat /\ slackFaults \in Nat
         /\ shown \in [Bot!Ids -> Seq(Bot!Ids)] /\ disturbed \subseteq Bot!Ids
  BY DEF Bot!TypeOK, TurnStates

\* Messages keep the thread they belong to.
LEMMA KeysOf ==
  ASSUME Bot!TypeOK, Bot!TurnsHaveMessages
  PROVE  /\ Len(messages) \in Nat /\ 1..Len(messages) \subseteq Bot!Ids
         /\ \A m \in 1..Len(messages) : Bot!Key(m) \in Bot!Ids
         /\ \A t \in Turns : turn[t].at # "idle" => /\ turn[t].msg \in 1..Len(messages)
                                                    /\ Bot!Key(turn[t].msg) \in Bot!Ids
  <1>1. messages \in Seq([user : Bot!People, thread : Bot!Ids, came : 0..2])
    BY DEF Bot!TypeOK
  <1>2. Len(messages) \in Nat /\ Len(messages) <= MaxMessages
    BY <1>1 DEF Bot!TurnsHaveMessages
  <1>3. MaxMessages \in Nat
    BY ServicesAssumption DEF ServicesAssumption, Bot!Parameters
  <1>4. \A m \in 1..Len(messages) : Bot!Key(m) \in Bot!Ids
    <2> DEFINE Message == [user : Bot!People, thread : Bot!Ids, came : 0..2]
    <2>1. \A m \in 1..Len(messages) : messages[m] \in Message
      <3> HIDE DEF Message
      <3>1. messages \in Seq(Message)
        BY <1>1 DEF Message
      <3> QED BY <3>1
    <2>2. \A m \in 1..Len(messages) : messages[m].thread \in Bot!Ids
      BY <2>1
    <2> QED BY <2>2 DEF Bot!Key
  <1> QED BY <1>2, <1>3, <1>4 DEF Bot!Ids, Bot!TurnsHaveMessages

\* What a turn may do to the turns: one of them moves.
LEMMA OneTurn ==
  ASSUME Bot!TypeOK, NEW t \in Turns, NEW new \in TurnStates, turn' = [turn EXCEPT ![t] = new]
  PROVE  /\ turn' \in [Turns -> TurnStates] /\ turn'[t] = new
         /\ \A o \in Turns \ {t} : turn'[o] = turn[o]
  BY BotTypes

LEMMA TrimmedTyped ==
  ASSUME NEW s \in Seq(Bot!Entries)
  PROVE  /\ Bot!Trimmed(s) \in Seq(Bot!Entries)
         /\ Len(Bot!Trimmed(s)) = IF Len(s) > HistoryLimit THEN HistoryLimit ELSE Len(s)
         /\ \A i \in 1..Len(Bot!Trimmed(s)) : Bot!Trimmed(s)[i] = s[Len(s) - Len(Bot!Trimmed(s)) + i]
  <1>1. HistoryLimit \in Nat \ {0}
    BY ServicesAssumption DEF ServicesAssumption, Bot!Parameters
  <1> QED BY <1>1, LastOnes DEF Bot!Trimmed

\* The conversation a turn stores is whole exchanges again.
LEMMA PairsAgain ==
  ASSUME NEW h \in Seq(Bot!Entries), Len(h) % 2 = 1, Len(h) <= HistoryLimit + 1, Bot!Alternates(h),
         NEW m \in Bot!Ids
  PROVE  LET s == Bot!Trimmed(Append(h, [role |-> "assistant", msg |-> m])) IN
         /\ s \in Seq(Bot!Entries)
         /\ Len(s) % 2 = 0 /\ Len(s) <= HistoryLimit /\ Bot!Alternates(s)
  <1> DEFINE b == [role |-> "assistant", msg |-> m]
             x == Append(h, b)
             s == Bot!Trimmed(x)
             d == Len(x) - Len(s)
  <1>1. b \in Bot!Entries
    BY DEF Bot!Entries
  <1>2. /\ x \in Seq(Bot!Entries) /\ Len(x) = Len(h) + 1 /\ x[Len(h) + 1] = b
        /\ \A i \in 1..Len(h) : x[i] = h[i]
    BY <1>1, Appended
  <1>3. Len(h) \in Nat /\ HistoryLimit \in Nat /\ HistoryLimit % 2 = 0
    BY ServicesAssumption DEF ServicesAssumption, Bot!Parameters
  <1> HIDE DEF x
  <1>4. /\ s \in Seq(Bot!Entries) /\ Len(s) = IF Len(x) > HistoryLimit THEN HistoryLimit ELSE Len(x)
        /\ \A i \in 1..Len(s) : s[i] = x[d + i]
    BY <1>2, TrimmedTyped
  <1>5. Len(x) \in Nat /\ Len(x) % 2 = 0 /\ Len(x) <= HistoryLimit + 2
    BY <1>2, <1>3
  <1>6. Len(s) \in Nat /\ Len(s) % 2 = 0 /\ Len(s) <= HistoryLimit /\ Len(s) <= Len(x) /\ d \in Nat
    <2> HIDE DEF s
    <2>1. Len(s) \in Nat
      BY <1>3, <1>4, <1>5
    <2>2. Len(s) % 2 = 0
      BY <1>3, <1>4, <1>5
    <2>3. Len(s) <= HistoryLimit /\ Len(s) <= Len(x)
      BY <1>3, <1>4, <1>5
    <2> QED BY <1>5, <2>1, <2>2, <2>3
  <1>7. d % 2 = 0
    BY <1>5, <1>6
  <1>8. ASSUME NEW i \in 1..Len(x)
        PROVE  x[i].role = IF i % 2 = 1 THEN "user" ELSE "assistant"
    <2>1. CASE i \in 1..Len(h)
      BY <1>2, <2>1 DEF Bot!Alternates
    <2>2. CASE i = Len(h) + 1
      <3>1. i % 2 = 0
        BY <1>2, <1>5, <2>2
      <3> QED BY <1>2, <2>2, <3>1 DEF b
    <2> QED BY <1>2, <1>3, <2>1, <2>2
  <1> HIDE DEF s
  <1>9. ASSUME NEW i \in 1..Len(s)
        PROVE  s[i].role = IF i % 2 = 1 THEN "user" ELSE "assistant"
    <2>1. d + i \in 1..Len(x) /\ (d + i) % 2 = i % 2
      BY <1>5, <1>6, <1>7
    <2>2. s[i] = x[d + i]
      BY <1>4
    <2> HIDE DEF d
    <2> QED BY <1>8, <2>1, <2>2
  <1>10. Bot!Alternates(s)
    BY <1>9 DEF Bot!Alternates
  <1> QED BY <1>4, <1>6, <1>10 DEF s, x

\* Messages come to the end, and what came before keeps its thread.
MessagesStay ==
  /\ messages' \in Seq([user : Bot!People, thread : Bot!Ids, came : 0..2])
  /\ Len(messages) <= Len(messages') /\ Len(messages') <= MaxMessages
  /\ \A m \in 1..Len(messages) : Bot!Key(m)' = Bot!Key(m)

LEMMA MessageComes ==
  ASSUME Bot!TypeOK, Bot!TurnsHaveMessages, NEW x \in [user : Bot!People, thread : Bot!Ids, came : 0..2],
         Len(messages) + 1 <= MaxMessages, messages' = Append(messages, x)
  PROVE  MessagesStay
  <1> DEFINE M == [user : Bot!People, thread : Bot!Ids, came : 0..2]
  <1>1. messages \in Seq(M) /\ x \in M
    BY BotTypes
  <1> HIDE DEF M
  <1>2. /\ messages' \in Seq(M) /\ Len(messages') = Len(messages) + 1 /\ Len(messages) \in Nat
        /\ \A m \in 1..Len(messages) : messages'[m] = messages[m]
    BY <1>1, Appended
  <1> QED BY <1>2 DEF MessagesStay, Bot!Key, M

LEMMA MessageDelivered ==
  ASSUME Bot!TypeOK, Bot!TurnsHaveMessages, NEW m \in 1..Len(messages), messages[m].came < 2,
         messages' = [messages EXCEPT ![m].came = @ + 1]
  PROVE  MessagesStay /\ messages[m].came + 1 \in 1..2 /\ messages[m].user \in Bot!People
  <1> DEFINE M == [user : Bot!People, thread : Bot!Ids, came : 0..2]
             new == [messages[m] EXCEPT !.came = messages[m].came + 1]
  <1>1. messages \in Seq(M) /\ Len(messages) \in Nat /\ Len(messages) <= MaxMessages
    BY BotTypes DEF Bot!TurnsHaveMessages
  <1>2. messages[m] \in M
    <2> HIDE DEF M
    <2> QED BY <1>1
  <1>3. messages[m].came + 1 \in 1..2 /\ messages[m].user \in Bot!People
    BY <1>2
  <1>4. new \in M /\ new.thread = messages[m].thread
    BY <1>2, <1>3
  <1>5. messages' = [messages EXCEPT ![m] = new]
    OBVIOUS
  <1> HIDE DEF M, new
  <1>6. /\ messages' \in Seq(M) /\ Len(messages') = Len(messages) /\ messages'[m] = new
        /\ \A n \in 1..Len(messages) : n # m => messages'[n] = messages[n]
    BY <1>1, <1>4, <1>5
  <1>7. \A n \in 1..Len(messages) : messages'[n].thread = messages[n].thread
    BY <1>4, <1>6
  <1> QED BY <1>1, <1>3, <1>6, <1>7 DEF MessagesStay, Bot!Key, M

\* Nothing happens to a thread when its turns go on asking or end.
LEMMA ThreadStays ==
  ASSUME NEW k \in Bot!Ids, Bot!ThreadAgrees(k), stored'[k] = stored[k], shown'[k] = shown[k],
         \A t \in Turns : Bot!Works(t, k)' =>
           /\ Bot!Works(t, k) /\ turn'[t].msg = turn[t].msg /\ (Bot!Asks(t)' <=> Bot!Asks(t))
           /\ Bot!Asks(t) => turn'[t].history = turn[t].history,
         \A t \in Turns : Bot!Works(t, k) /\ ~Bot!Asks(t) => Bot!Works(t, k)'
  PROVE  Bot!ThreadAgrees(k)'
  <1>1. \A t, o \in Turns : Bot!Works(t, k)' /\ Bot!Works(o, k)' => t = o
    BY DEF Bot!ThreadAgrees
  <1>2. ASSUME NEW t \in Turns, Bot!Works(t, k)', Bot!Asks(t)'
        PROVE  turn'[t].history = Append(Bot!Remembered(shown'[k]), [role |-> "user", msg |-> turn'[t].msg])
    BY <1>2 DEF Bot!ThreadAgrees
  <1>3. ASSUME NEW t \in Turns, Bot!Works(t, k)', turn'[t].at = "posting"
        PROVE  stored'[k] = Bot!Remembered(Append(shown'[k], turn'[t].msg))
    <2>1. Bot!Works(t, k) /\ ~Bot!Asks(t) /\ turn'[t].msg = turn[t].msg
      BY <1>3 DEF Bot!Asks
    <2>2. turn[t].at = "posting"
      BY <2>1 DEF Bot!Works, Bot!Asks
    <2> QED BY <2>1, <2>2 DEF Bot!ThreadAgrees
  <1>4. ASSUME \A t \in Turns : Bot!Works(t, k)' => Bot!Asks(t)'
        PROVE  stored'[k] = Bot!Remembered(shown'[k])
    BY <1>4 DEF Bot!ThreadAgrees
  <1> QED
    BY <1>1, <1>2, <1>3, <1>4
    DEF Bot!ThreadAgrees, Bot!Remembered, Bot!Trimmed, Bot!LastOf, Bot!Exchanges

\* The parts about turns and threads.
TurnParts ==
  /\ Bot!TurnsHaveMessages /\ Bot!StoredInPairs /\ Bot!AskedInTurn
  /\ \A k \in Bot!Ids \ disturbed : Bot!ThreadAgrees(k)

\* Messages that come disturb no turn.
LEMMA MessagesDisturbNone ==
  ASSUME Bot!IInv, MessagesStay, UNCHANGED <<turn, stored, shown, disturbed>>
  PROVE  TurnParts'
  <1>1. Bot!TypeOK /\ Bot!TurnsHaveMessages
    BY DEF Bot!IInv
  <1>2. Bot!TurnsHaveMessages'
    <2>1. Len(messages) \in Nat /\ Len(messages') \in Nat
      BY <1>1, KeysOf DEF MessagesStay
    <2> QED BY <1>1, <2>1 DEF Bot!TurnsHaveMessages, MessagesStay
  <1>3. Bot!StoredInPairs' /\ Bot!AskedInTurn'
    BY DEF Bot!IInv, Bot!StoredInPairs, Bot!AskedInTurn, Bot!Asks, Bot!Alternates
  <1>4. ASSUME NEW k \in Bot!Ids \ disturbed PROVE Bot!ThreadAgrees(k)'
    <2>1. \A t \in Turns : Bot!Works(t, k)' <=> Bot!Works(t, k)
      BY <1>1, KeysOf DEF Bot!Works, MessagesStay
    <2>2. \A t \in Turns : Bot!Asks(t)' <=> Bot!Asks(t)
      BY DEF Bot!Asks
    <2>3. Bot!ThreadAgrees(k)
      BY DEF Bot!IInv
    <2> QED BY <2>1, <2>2, <2>3, ThreadStays
  <1> QED BY <1>2, <1>3, <1>4 DEF TurnParts, Bot!Ids

\* A turn moves on, after its message is known, and asks as it did, if it asks;
\* threads in which a turn posts stay as they are.
LEMMA TurnMoves ==
  ASSUME Bot!IInv, MessagesStay, UNCHANGED <<stored, shown, disturbed>>,
         NEW t \in Turns, NEW new \in TurnStates, turn' = [turn EXCEPT ![t] = new],
         turn[t].at # "posting",
         new.at # "idle" => new.msg \in 1..Len(messages),
         new.at \in {"idle", "loading"} \/
           /\ Bot!Asks(t) /\ new.at \in {"calling", "saving"} /\ new.msg = turn[t].msg
           /\ new.history = turn[t].history
  PROVE  TurnParts'
  <1>1. Bot!TypeOK /\ Bot!TurnsHaveMessages
    BY DEF Bot!IInv
  <1>2. /\ turn' \in [Turns -> TurnStates] /\ turn'[t] = new
        /\ \A o \in Turns \ {t} : turn'[o] = turn[o]
    BY <1>1, OneTurn
  <1>3. Len(messages) \in Nat /\ Len(messages') \in Nat
    BY <1>1, KeysOf DEF MessagesStay
  <1>4. Bot!TurnsHaveMessages'
    <2>1. \A o \in Turns : turn'[o].at # "idle" => turn'[o].msg \in 1..Len(messages)
      BY <1>1, <1>2 DEF Bot!TurnsHaveMessages
    <2> QED BY <1>3, <2>1 DEF Bot!TurnsHaveMessages, MessagesStay
  <1>5. Bot!StoredInPairs'
    BY DEF Bot!IInv, Bot!StoredInPairs, Bot!Alternates
  <1>6. Bot!AskedInTurn'
    <2> SUFFICES ASSUME NEW o \in Turns, Bot!Asks(o)'
                 PROVE  LET h == turn'[o].history IN
                        /\ Len(h) % 2 = 1 /\ Len(h) <= HistoryLimit + 1 /\ Bot!Alternates(h)
                        /\ h[Len(h)].msg = turn'[o].msg
      BY DEF Bot!AskedInTurn, Bot!Alternates
    <2>1. Bot!Asks(o) /\ turn'[o].history = turn[o].history /\ turn'[o].msg = turn[o].msg
      BY <1>2 DEF Bot!Asks
    <2> QED BY <2>1 DEF Bot!IInv, Bot!AskedInTurn
  <1>7. ASSUME NEW k \in Bot!Ids \ disturbed PROVE Bot!ThreadAgrees(k)'
    <2>1. ASSUME NEW o \in Turns, Bot!Works(o, k)'
          PROVE  /\ Bot!Works(o, k) /\ turn'[o].msg = turn[o].msg /\ (Bot!Asks(o)' <=> Bot!Asks(o))
                 /\ Bot!Asks(o) => turn'[o].history = turn[o].history
      <3>1. turn'[o].msg = turn[o].msg /\ turn[o].at \in {"calling", "saving", "posting"}
            /\ (Bot!Asks(o)' <=> Bot!Asks(o)) /\ (Bot!Asks(o) => turn'[o].history = turn[o].history)
        BY <1>2, <2>1 DEF Bot!Works, Bot!Asks
      <3>2. turn[o].msg \in 1..Len(messages)
        BY <1>1, <3>1 DEF Bot!TurnsHaveMessages
      <3>3. Bot!Key(turn[o].msg)' = Bot!Key(turn[o].msg)
        BY <3>1, <3>2 DEF MessagesStay, Bot!Key
      <3> QED BY <2>1, <3>1, <3>3 DEF Bot!Works
    <2>2. ASSUME NEW o \in Turns, Bot!Works(o, k), ~Bot!Asks(o) PROVE Bot!Works(o, k)'
      <3>1. turn[o].at = "posting" /\ turn[o].msg \in 1..Len(messages)
        BY <1>1, <2>2 DEF Bot!Works, Bot!Asks, Bot!TurnsHaveMessages
      <3>2. o # t
        BY <3>1
      <3>3. turn'[o] = turn[o]
        BY <1>2, <3>2
      <3>4. Bot!Key(turn[o].msg)' = Bot!Key(turn[o].msg)
        BY <3>1, <3>3 DEF MessagesStay, Bot!Key
      <3> QED BY <2>2, <3>3, <3>4 DEF Bot!Works
    <2>3. Bot!ThreadAgrees(k)
      BY DEF Bot!IInv
    <2> QED BY <2>1, <2>2, <2>3, ThreadStays
  <1> QED BY <1>4, <1>5, <1>6, <1>7 DEF TurnParts, Bot!Ids

\* Attempts that are left alone stay counted.
LEMMA AttemptsStay ==
  ASSUME Bot!IInv, UNCHANGED <<rate, passed, clock>>
  PROVE  Bot!AttemptsAreCounted'
  BY DEF Bot!IInv, Bot!AttemptsAreCounted, Bot!Recent, Bot!MaxOf

LEMMA SayStep ==
  ASSUME Bot!IInv, NEW u \in Bot!People, Bot!Say(u)
  PROVE  Bot!IInv'
  <1> DEFINE m == Len(messages) + 1
  <1>1. Bot!TypeOK /\ Bot!TurnsHaveMessages
    BY DEF Bot!IInv
  <1>2. /\ m <= MaxMessages
        /\ UNCHANGED <<turn, stored, rate, clock, shown, disturbed, passed, slackFaults>>
    BY DEF Bot!Say
  <1>3. m \in Bot!Ids /\ \A i \in 1..(m - 1) : Bot!Key(i) \in Bot!Ids
    BY <1>1, <1>2, KeysOf DEF Bot!Ids
  <1>4. PICK k \in {Bot!Key(i) : i \in 1..(m - 1)} \cup {m} :
          messages' = Append(messages, [user |-> u, thread |-> k, came |-> 0])
    BY DEF Bot!Say
  <1>5. k \in Bot!Ids
    BY <1>3, <1>4
  <1>6. MessagesStay
    <2>1. [user |-> u, thread |-> k, came |-> 0] \in [user : Bot!People, thread : Bot!Ids, came : 0..2]
      BY <1>5
    <2> QED BY <1>1, <1>2, <1>4, <2>1, MessageComes
  <1>7. Bot!TypeOK'
    BY <1>1, <1>2, <1>6 DEF MessagesStay, Bot!TypeOK
  <1>8. TurnParts' /\ Bot!AttemptsAreCounted'
    BY <1>2, <1>6, MessagesDisturbNone, AttemptsStay
  <1> QED BY <1>7, <1>8 DEF Bot!IInv, TurnParts

LEMMA CommandStep ==
  ASSUME Bot!IInv, NEW u \in Bot!People, Bot!Command(u)
  PROVE  Bot!IInv'
  <1> DEFINE m == Len(messages) + 1
  <1>1. Bot!TypeOK /\ Bot!TurnsHaveMessages
    BY DEF Bot!IInv
  <1>2. /\ m <= MaxMessages /\ messages' = Append(messages, [user |-> u, thread |-> m, came |-> 2])
        /\ UNCHANGED <<turn, stored, clock, shown, disturbed, slackFaults>>
        /\ Bot!Attempt("command", u, m, 1) \/ UNCHANGED <<rate, passed>>
    BY DEF Bot!Command
  <1>3. m \in Bot!Ids
    BY <1>1, <1>2, KeysOf DEF Bot!Ids
  <1>4. MessagesStay
    <2>1. [user |-> u, thread |-> m, came |-> 2] \in [user : Bot!People, thread : Bot!Ids, came : 0..2]
      BY <1>3
    <2> QED BY <1>1, <1>2, <2>1, MessageComes
  <1>5. /\ Bot!AttemptsAreCounted'
        /\ {rate', passed'} \subseteq [Bot!Kinds -> [Bot!People -> SUBSET Bot!Attempts]]
    <2>1. CASE Bot!Attempt("command", u, m, 1)
      <3>1. "command" \in Bot!Kinds /\ 1 \in 1..2
        BY DEF Bot!Kinds
      <3> QED BY <1>2, <1>3, <2>1, <3>1, AttemptCounted
    <2>2. CASE UNCHANGED <<rate, passed>>
      BY <1>1, <1>2, <2>2, AttemptsStay, BotTypes
    <2> QED BY <1>2, <2>1, <2>2
  <1>6. Bot!TypeOK'
    BY <1>1, <1>2, <1>4, <1>5 DEF MessagesStay, Bot!TypeOK
  <1>7. TurnParts'
    BY <1>2, <1>4, MessagesDisturbNone
  <1> QED BY <1>5, <1>6, <1>7 DEF Bot!IInv, TurnParts

LEMMA DeliverStep ==
  ASSUME Bot!IInv, NEW m \in 1..Len(messages), Bot!Deliver(m)
  PROVE  Bot!IInv'
  <1> DEFINE u == messages[m].user
             free == {o \in Turns : turn[o].at = "idle"}
             t == CHOOSE o \in free : TRUE
             new == [Bot!Resting EXCEPT !.at = "loading", !.msg = m]
  <1>1. Bot!TypeOK /\ Bot!TurnsHaveMessages
    BY DEF Bot!IInv
  <1>2. /\ messages[m].came < 2 /\ free # {}
        /\ slackFaults' = slackFaults \/ slackFaults' = slackFaults + 1
        /\ messages' = [messages EXCEPT ![m].came = @ + 1]
        /\ \/ Bot!Attempt("conversation", u, m, messages[m].came + 1)
           \/ UNCHANGED <<rate, passed>>
        /\ turn' = [turn EXCEPT ![t] = new] \/ turn' = turn
        /\ UNCHANGED <<stored, clock, shown, disturbed>>
    BY DEF Bot!Deliver, Bot!Fault
  <1>3. m \in Bot!Ids
    BY <1>1, KeysOf
  <1>4. MessagesStay /\ messages[m].came + 1 \in 1..2 /\ u \in Bot!People
    BY <1>1, <1>2, MessageDelivered
  <1>5. /\ Bot!AttemptsAreCounted'
        /\ {rate', passed'} \subseteq [Bot!Kinds -> [Bot!People -> SUBSET Bot!Attempts]]
    <2>1. CASE Bot!Attempt("conversation", u, m, messages[m].came + 1)
      <3>1. "conversation" \in Bot!Kinds
        BY DEF Bot!Kinds
      <3> QED BY <1>2, <1>3, <1>4, <2>1, <3>1, AttemptCounted
    <2>2. CASE UNCHANGED <<rate, passed>>
      BY <1>1, <1>2, <2>2, AttemptsStay, BotTypes
    <2> QED BY <1>2, <2>1, <2>2
  <1>6. new \in TurnStates /\ new.at = "loading" /\ new.msg = m
    <2>1. Bot!Resting \in TurnStates
      BY ServicesAssumption, RestingTurn DEF ServicesAssumption
    <2> QED BY <1>3, <2>1 DEF TurnStates
  <1>7. t \in Turns /\ turn[t].at = "idle"
    BY <1>2
  <1> HIDE DEF t, new
  <1>8. TurnParts' /\ turn' \in [Turns -> TurnStates]
    <2>1. CASE turn' = [turn EXCEPT ![t] = new]
      <3>1. turn' \in [Turns -> TurnStates]
        BY <1>1, <1>6, <1>7, <2>1, OneTurn
      <3>2. UNCHANGED <<stored, shown, disturbed>> /\ turn[t].at # "posting"
        BY <1>2, <1>7
      <3>3. TurnParts'
        BY <1>4, <1>6, <1>7, <2>1, <3>2, TurnMoves
      <3> QED BY <3>1, <3>3
    <2>2. CASE turn' = turn
      BY <1>1, <1>2, <1>4, <2>2, MessagesDisturbNone, BotTypes
    <2> QED BY <1>2, <2>1, <2>2
  <1>9. Bot!TypeOK'
    <2>1. slackFaults' \in Nat
      BY <1>1, <1>2, BotTypes
    <2> QED BY <1>1, <1>2, <1>4, <1>5, <1>8, <2>1 DEF MessagesStay, Bot!TypeOK, TurnStates
  <1> QED BY <1>5, <1>8, <1>9 DEF Bot!IInv, TurnParts

\* Only the turn, the conversations and what people see change.
LEMMA MessagesUnchanged ==
  ASSUME Bot!TypeOK, Bot!TurnsHaveMessages, messages' = messages
  PROVE  MessagesStay
  BY BotTypes, KeysOf DEF MessagesStay, Bot!Key, Bot!TurnsHaveMessages

LEMMA CallStep ==
  ASSUME Bot!IInv, NEW t \in Turns, Bot!CallClaude(t)
  PROVE  Bot!IInv'
  <1>1. Bot!TypeOK /\ Bot!TurnsHaveMessages /\ turn[t] \in TurnStates
    BY BotTypes DEF Bot!IInv
  <1>2. /\ turn[t].at = "calling" /\ turn[t].msg \in 1..Len(messages)
        /\ UNCHANGED <<messages, stored, rate, clock, shown, disturbed, passed, slackFaults>>
    BY <1>1 DEF Bot!CallClaude, Bot!TurnsHaveMessages
  <1>3. Bot!Resting \in TurnStates /\ Bot!Resting.at = "idle"
    BY ServicesAssumption, RestingTurn DEF ServicesAssumption, Bot!Resting
  <1>4. \E new \in TurnStates :
          /\ turn' = [turn EXCEPT ![t] = new]
          /\ new.at # "idle" => new.msg \in 1..Len(messages)
          /\ new.at \in {"idle", "loading"} \/
               /\ new.at \in {"calling", "saving"} /\ new.msg = turn[t].msg
               /\ new.history = turn[t].history
    <2>1. CASE Bot!End(t)
      BY <1>3, <2>1 DEF Bot!End
    <2>2. ASSUME NEW c \in Bot!Contents, turn[t].round < ToolRounds,
                 turn' = [turn EXCEPT ![t].round = @ + 1, ![t].content = c]
          PROVE  \E new \in TurnStates :
                   /\ turn' = [turn EXCEPT ![t] = new]
                   /\ new.at # "idle" => new.msg \in 1..Len(messages)
                   /\ new.at \in {"idle", "loading"} \/
                        /\ new.at \in {"calling", "saving"} /\ new.msg = turn[t].msg
                        /\ new.history = turn[t].history
      <3> DEFINE new == [turn[t] EXCEPT !.round = turn[t].round + 1, !.content = c]
      <3>1. turn[t].round + 1 \in 0..ToolRounds
        <4>1. ToolRounds \in Nat
          BY ServicesAssumption DEF ServicesAssumption, Bot!Parameters
        <4>2. turn[t].round \in 0..ToolRounds
          BY <1>1 DEF TurnStates
        <4> QED BY <2>2, <4>1, <4>2
      <3>2. new \in TurnStates /\ new.at = "calling" /\ new.msg = turn[t].msg
            /\ new.history = turn[t].history
        BY <1>1, <1>2, <3>1 DEF TurnStates
      <3>3. turn' = [turn EXCEPT ![t] = new]
        BY <1>1, <2>2, BotTypes
      <3> QED BY <1>2, <3>2, <3>3
    <2>3. CASE turn' = [turn EXCEPT ![t] = [@ EXCEPT !.at = "saving", !.round = 0, !.content = "text"]]
      <3> DEFINE new == [turn[t] EXCEPT !.at = "saving", !.round = 0, !.content = "text"]
      <3>1. 0 \in 0..ToolRounds /\ "text" \in Bot!Contents
        BY ServicesAssumption DEF ServicesAssumption, Bot!Parameters, Bot!Contents
      <3>2. new \in TurnStates /\ new.at = "saving" /\ new.msg = turn[t].msg
            /\ new.history = turn[t].history
        BY <1>1, <3>1 DEF TurnStates
      <3>3. turn' = [turn EXCEPT ![t] = new]
        BY <2>3
      <3> QED BY <1>2, <3>2, <3>3
    <2> QED BY <2>1, <2>2, <2>3 DEF Bot!CallClaude, Bot!Answered
  <1>5. PICK new \in TurnStates :
          /\ turn' = [turn EXCEPT ![t] = new]
          /\ new.at # "idle" => new.msg \in 1..Len(messages)
          /\ new.at \in {"idle", "loading"} \/
               /\ new.at \in {"calling", "saving"} /\ new.msg = turn[t].msg
               /\ new.history = turn[t].history
    BY <1>4
  <1>6. turn' \in [Turns -> TurnStates]
    BY <1>1, <1>5, OneTurn
  <1>7. TurnParts'
    <2>1. Bot!Asks(t) /\ turn[t].at # "posting" /\ UNCHANGED <<stored, shown, disturbed>>
      BY <1>2 DEF Bot!Asks
    <2>2. MessagesStay
      BY <1>1, <1>2, MessagesUnchanged
    <2> QED BY <1>5, <2>1, <2>2, TurnMoves
  <1>8. Bot!TypeOK'
    BY <1>1, <1>2, <1>6 DEF Bot!TypeOK, TurnStates
  <1> QED BY <1>2, <1>7, <1>8, AttemptsStay DEF Bot!IInv, TurnParts

\* Attempts and messages are left alone by what follows.
LEMMA PartsOfIInv ==
  ASSUME Bot!IInv, Bot!TypeOK', TurnParts', UNCHANGED <<rate, passed, clock>>
  PROVE  Bot!IInv'
  BY AttemptsStay DEF Bot!IInv, TurnParts

\* A turn that is alone finds what people saw, and adds its message.
LEMMA LoadStep ==
  ASSUME Bot!IInv, NEW t \in Turns, Bot!Load(t)
  PROVE  Bot!IInv'
  <1> DEFINE m == turn[t].msg
             key == Bot!Key(m)
             a == [role |-> "user", msg |-> m]
  <1>1. Bot!TypeOK /\ Bot!TurnsHaveMessages /\ turn[t] \in TurnStates
    BY BotTypes DEF Bot!IInv
  <1>2. PICK answers \in BOOLEAN :
          /\ turn' = [turn EXCEPT ![t].at = "calling",
                        ![t].history = Append(IF answers THEN Bot!Loaded(m) ELSE <<>>, a)]
          /\ IF answers THEN UNCHANGED slackFaults ELSE Bot!Fault
          /\ disturbed' = IF answers /\ ~Bot!Overlaps(t) THEN disturbed ELSE disturbed \cup {key}
    BY DEF Bot!Load
  <1>3. /\ turn[t].at = "loading" /\ m \in 1..Len(messages) /\ m \in Bot!Ids /\ key \in Bot!Ids
        /\ UNCHANGED <<messages, stored, rate, clock, shown, passed>>
        /\ slackFaults' \in Nat
    BY <1>1, <1>2, KeysOf, BotTypes DEF Bot!Load, Bot!Fault, Bot!TurnsHaveMessages
  <1> DEFINE old == IF answers THEN Bot!Loaded(m) ELSE <<>>
             new == [turn[t] EXCEPT !.at = "calling", !.history = Append(old, a)]
  <1>4. /\ old \in Seq(Bot!Entries) /\ Len(old) % 2 = 0 /\ Len(old) <= HistoryLimit
        /\ Bot!Alternates(old)
    <2>1. CASE answers
      <3>1. old = stored[key]
        BY <2>1 DEF Bot!Loaded
      <3> QED BY <1>1, <1>3, <3>1, BotTypes DEF Bot!IInv, Bot!StoredInPairs
    <2>2. CASE ~answers
      <3>1. old = <<>> /\ Len(<<>>) = 0
        BY <2>2
      <3>2. HistoryLimit \in Nat
        BY ServicesAssumption DEF ServicesAssumption, Bot!Parameters
      <3>3. <<>> \in Seq(Bot!Entries) /\ 0 % 2 = 0
        OBVIOUS
      <3> HIDE DEF old
      <3> QED BY <3>1, <3>2, <3>3 DEF Bot!Alternates
    <2> HIDE DEF old
    <2> QED BY <2>1, <2>2
  <1>5. a \in Bot!Entries
    BY <1>3 DEF Bot!Entries
  <1>6. turn' = [turn EXCEPT ![t] = new]
    BY <1>1, <1>2, BotTypes
  <1>7. answers /\ ~Bot!Overlaps(t) => old = stored[key]
    BY DEF Bot!Loaded
  <1> HIDE DEF old
  <1> DEFINE h == Append(old, a)
  <1>8. /\ h \in Seq(Bot!Entries) /\ Len(h) = Len(old) + 1 /\ h[Len(old) + 1] = a
        /\ \A i \in 1..Len(old) : h[i] = old[i]
    BY <1>4, <1>5, Appended
  <1>9. Len(h) % 2 = 1 /\ Len(h) <= HistoryLimit + 1 /\ Bot!Alternates(h) /\ h[Len(h)].msg = m
    <2>1. Len(old) \in Nat /\ Len(h) % 2 = 1
      BY <1>4, <1>8
    <2>2. HistoryLimit \in Nat
      BY ServicesAssumption DEF ServicesAssumption, Bot!Parameters
    <2>3. h[Len(h)].msg = m /\ h[Len(h)].role = "user"
      BY <1>8
    <2>4. ASSUME NEW i \in 1..Len(h)
          PROVE  h[i].role = IF i % 2 = 1 THEN "user" ELSE "assistant"
      <3>1. CASE i \in 1..Len(old)
        BY <1>4, <1>8, <3>1 DEF Bot!Alternates
      <3>2. CASE i = Len(h)
        BY <2>1, <2>3, <3>2
      <3> HIDE DEF h
      <3> QED BY <1>8, <2>1, <3>1, <3>2
    <2> HIDE DEF h
    <2> QED BY <1>4, <1>8, <2>1, <2>2, <2>3, <2>4 DEF Bot!Alternates
  <1> HIDE DEF h
  <1>10. new \in TurnStates /\ new.at = "calling" /\ new.msg = m /\ new.history = h
    BY <1>1, <1>8 DEF TurnStates, h
  <1> HIDE DEF new
  <1>11. /\ turn' \in [Turns -> TurnStates] /\ turn'[t] = new
         /\ \A o \in Turns \ {t} : turn'[o] = turn[o]
    BY <1>1, <1>6, <1>10, OneTurn
  <1>12. Bot!TypeOK'
    <2>1. disturbed' \subseteq Bot!Ids
      BY <1>1, <1>2, <1>3, BotTypes
    <2> QED BY <1>1, <1>3, <1>11, <2>1 DEF Bot!TypeOK, TurnStates
  <1>13. Bot!TurnsHaveMessages' /\ Bot!StoredInPairs'
    BY <1>1, <1>3, <1>10, <1>11 DEF Bot!IInv, Bot!TurnsHaveMessages, Bot!StoredInPairs, Bot!Alternates
  <1>14. Bot!AskedInTurn'
    <2> SUFFICES ASSUME NEW o \in Turns, Bot!Asks(o)'
                 PROVE  LET g == turn'[o].history IN
                        /\ Len(g) % 2 = 1 /\ Len(g) <= HistoryLimit + 1 /\ Bot!Alternates(g)
                        /\ g[Len(g)].msg = turn'[o].msg
      BY DEF Bot!AskedInTurn, Bot!Alternates
    <2>1. CASE o = t
      BY <1>9, <1>10, <1>11, <2>1
    <2>2. CASE o # t
      <3>1. turn'[o] = turn[o] /\ Bot!Asks(o)
        BY <1>11, <2>2 DEF Bot!Asks
      <3> QED BY <3>1 DEF Bot!IInv, Bot!AskedInTurn
    <2> QED BY <2>1, <2>2
  <1>15. \A o \in Turns \ {t}, k \in Bot!Ids : Bot!Works(o, k)' <=> Bot!Works(o, k)
    BY <1>3, <1>11 DEF Bot!Works, Bot!Key
  <1>16. \A k \in Bot!Ids : Bot!Works(t, k)' <=> k = key
    BY <1>3, <1>10, <1>11 DEF Bot!Works, Bot!Key
  <1>17. ASSUME NEW k \in Bot!Ids \ disturbed' PROVE Bot!ThreadAgrees(k)'
    <2>1. Bot!ThreadAgrees(k)
      BY <1>2 DEF Bot!IInv
    <2>2. CASE k = key
      <3>1. answers /\ ~Bot!Overlaps(t)
        BY <1>2, <2>2
      <3>2. \A o \in Turns : ~Bot!Works(o, k)
        BY <1>3, <2>2, <3>1 DEF Bot!Overlaps, Bot!Works
      <3>3. old = Bot!Remembered(shown[k])
        BY <1>7, <2>1, <2>2, <3>1, <3>2 DEF Bot!ThreadAgrees
      <3>4. \A o \in Turns : Bot!Works(o, k)' => o = t
        BY <1>15, <3>2
      <3>5. turn'[t].at = "calling" /\ turn'[t].msg = m /\ turn'[t].history = Append(old, a)
        BY <1>10, <1>11 DEF h
      <3>6. Bot!Asks(t)'
        BY <3>5 DEF Bot!Asks
      <3>7. stored'[k] = Bot!Remembered(shown'[k])
        BY <1>3, <2>1, <3>2 DEF Bot!ThreadAgrees
      <3> QED
        BY <1>3, <3>3, <3>4, <3>5, <3>6, <3>7
        DEF Bot!ThreadAgrees, Bot!Remembered, Bot!Trimmed, Bot!LastOf, Bot!Exchanges
    <2>3. CASE k # key
      <3>1. \A o \in Turns : Bot!Works(o, k)' => o # t /\ Bot!Works(o, k) /\ turn'[o] = turn[o]
        BY <1>11, <1>15, <1>16, <2>3
      <3>2. \A o \in Turns : Bot!Works(o, k) => Bot!Works(o, k)'
        BY <1>3, <1>15 DEF Bot!Works
      <3>3. \A o \in Turns : Bot!Works(o, k)' => (Bot!Asks(o)' <=> Bot!Asks(o))
        BY <3>1 DEF Bot!Asks
      <3> QED BY <1>3, <2>1, <3>1, <3>2, <3>3, ThreadStays
    <2> QED BY <2>2, <2>3
  <1> QED BY <1>3, <1>12, <1>13, <1>14, <1>17, PartsOfIInv DEF TurnParts, Bot!Ids

\* What is stored is what people will have seen.
LEMMA OneExchangeMore ==
  ASSUME NEW ms \in Seq(Bot!Ids), NEW m \in Bot!Ids
  PROVE  Bot!Trimmed(Append(Append(Bot!Remembered(ms), [role |-> "user", msg |-> m]),
                            [role |-> "assistant", msg |-> m])) =
         Bot!Remembered(Append(ms, m))
  <1> DEFINE a == [role |-> "user", msg |-> m]
             b == [role |-> "assistant", msg |-> m]
             e == Bot!Exchanges(ms)
  <1>1. a \in Bot!Entries /\ b \in Bot!Entries /\ e \in Seq(Bot!Entries)
    BY ExchangesAre DEF Bot!Entries
  <1>2. HistoryLimit \in Nat \ {0}
    BY ServicesAssumption DEF ServicesAssumption, Bot!Parameters
  <1>3. Bot!Exchanges(Append(ms, m)) = Append(Append(e, a), b)
    BY ExchangesGrow
  <1> HIDE DEF a, b, e
  <1>4. Bot!LastOf(Append(Append(Bot!LastOf(e, HistoryLimit), a), b), HistoryLimit) =
        Bot!LastOf(Append(Append(e, a), b), HistoryLimit)
    BY <1>1, <1>2, CutOnce
  <1> QED BY <1>3, <1>4 DEF Bot!Trimmed, Bot!Remembered, a, b, e

LEMMA SaveStep ==
  ASSUME Bot!IInv, NEW t \in Turns, Bot!Save(t)
  PROVE  Bot!IInv'
  <1> DEFINE m == turn[t].msg
             key == Bot!Key(m)
             h == turn[t].history
             s == Bot!Trimmed(Append(h, [role |-> "assistant", msg |-> m]))
             new == [turn[t] EXCEPT !.at = "posting", !.history = <<>>]
  <1>1. Bot!TypeOK /\ Bot!TurnsHaveMessages /\ turn[t] \in TurnStates
    BY BotTypes DEF Bot!IInv
  <1>2. /\ turn[t].at = "saving" /\ m \in 1..Len(messages) /\ m \in Bot!Ids /\ key \in Bot!Ids
        /\ turn' = [turn EXCEPT ![t] = new]
        /\ UNCHANGED <<messages, rate, clock, shown, passed>>
        /\ \/ stored' = [stored EXCEPT ![key] = s] /\ UNCHANGED <<disturbed, slackFaults>>
           \/ /\ slackFaults' = slackFaults + 1 /\ disturbed' = disturbed \cup {key}
              /\ UNCHANGED stored
    BY <1>1, KeysOf DEF Bot!Save, Bot!Fault, Bot!TurnsHaveMessages
  <1>3. /\ h \in Seq(Bot!Entries) /\ Len(h) % 2 = 1 /\ Len(h) <= HistoryLimit + 1
        /\ Bot!Alternates(h)
    BY <1>1, <1>2 DEF Bot!IInv, Bot!AskedInTurn, Bot!Asks, TurnStates
  <1>4. /\ s \in Seq(Bot!Entries)
        /\ Len(s) % 2 = 0 /\ Len(s) <= HistoryLimit /\ Bot!Alternates(s)
    BY <1>2, <1>3, PairsAgain
  <1>5. new \in TurnStates /\ new.at = "posting" /\ new.msg = m
    <2>1. <<>> \in Seq(Bot!Entries)
      OBVIOUS
    <2> QED BY <1>1, <2>1 DEF TurnStates
  <1> HIDE DEF new, s
  <1>6. /\ turn' \in [Turns -> TurnStates] /\ turn'[t] = new
        /\ \A o \in Turns \ {t} : turn'[o] = turn[o]
    BY <1>1, <1>2, <1>5, OneTurn
  <1>7. /\ stored' \in [Bot!Ids -> Seq(Bot!Entries)]
        /\ \A k \in Bot!Ids : stored'[k] = stored[k] \/ (k = key /\ stored'[k] = s)
        /\ slackFaults' \in Nat /\ disturbed' \subseteq Bot!Ids /\ disturbed \subseteq disturbed'
    <2>1. /\ stored \in [Bot!Ids -> Seq(Bot!Entries)] /\ disturbed \subseteq Bot!Ids
          /\ slackFaults \in Nat /\ key \in Bot!Ids
      BY <1>1, <1>2, BotTypes
    <2> HIDE DEF key, m
    <2>2. CASE stored' = [stored EXCEPT ![key] = s] /\ UNCHANGED <<disturbed, slackFaults>>
      BY <1>4, <2>1, <2>2
    <2>3. CASE UNCHANGED stored /\ slackFaults' = slackFaults + 1 /\ disturbed' = disturbed \cup {key}
      BY <2>1, <2>3
    <2> QED BY <1>2, <2>2, <2>3
  <1>8. Bot!TypeOK'
    BY <1>1, <1>2, <1>6, <1>7 DEF Bot!TypeOK, TurnStates
  <1>9. Bot!TurnsHaveMessages'
    BY <1>1, <1>2, <1>5, <1>6 DEF Bot!TurnsHaveMessages
  <1>10. Bot!StoredInPairs'
    <2>1. \A k \in Bot!Ids : /\ Len(stored'[k]) % 2 = 0 /\ Len(stored'[k]) <= HistoryLimit
                             /\ Bot!Alternates(stored'[k])
      BY <1>4, <1>7 DEF Bot!IInv, Bot!StoredInPairs
    <2> QED BY <2>1 DEF Bot!StoredInPairs, Bot!Alternates, Bot!Ids
  <1>11. Bot!AskedInTurn'
    <2> SUFFICES ASSUME NEW o \in Turns, Bot!Asks(o)'
                 PROVE  LET g == turn'[o].history IN
                        /\ Len(g) % 2 = 1 /\ Len(g) <= HistoryLimit + 1 /\ Bot!Alternates(g)
                        /\ g[Len(g)].msg = turn'[o].msg
      BY DEF Bot!AskedInTurn, Bot!Alternates
    <2>1. o # t /\ turn'[o] = turn[o]
      BY <1>5, <1>6 DEF Bot!Asks
    <2> QED BY <2>1 DEF Bot!IInv, Bot!AskedInTurn, Bot!Asks
  <1>12. \A o \in Turns \ {t}, k \in Bot!Ids : Bot!Works(o, k)' <=> Bot!Works(o, k)
    BY <1>2, <1>6 DEF Bot!Works, Bot!Key
  <1>13. \A k \in Bot!Ids : /\ Bot!Works(t, k)' <=> k = key
                            /\ Bot!Works(t, k) <=> k = key
    BY <1>2, <1>5, <1>6 DEF Bot!Works, Bot!Key
  <1>14. ASSUME NEW k \in Bot!Ids \ disturbed' PROVE Bot!ThreadAgrees(k)'
    <2>1. Bot!ThreadAgrees(k)
      BY <1>7 DEF Bot!IInv
    <2>2. CASE k = key
      <3>1. stored' = [stored EXCEPT ![key] = s]
        BY <1>2, <2>2
      <3>2. stored'[k] = s
        BY <1>1, <1>2, <2>2, <3>1, BotTypes
      <3>3. h = Append(Bot!Remembered(shown[k]), [role |-> "user", msg |-> m])
        BY <1>2, <1>13, <2>1, <2>2 DEF Bot!ThreadAgrees, Bot!Asks
      <3>4. shown[k] \in Seq(Bot!Ids)
        BY <1>1, BotTypes
      <3>5. stored'[k] = Bot!Remembered(Append(shown[k], m))
        BY <1>2, <3>2, <3>3, <3>4, OneExchangeMore DEF s
      <3>6. \A o \in Turns : Bot!Works(o, k)' => o = t
        BY <1>12, <1>13, <2>1, <2>2 DEF Bot!ThreadAgrees
      <3>7. Bot!Works(t, k)' /\ ~Bot!Asks(t)' /\ turn'[t].msg = m
        BY <1>5, <1>6, <1>13, <2>2 DEF Bot!Asks
      <3> QED
        BY <1>2, <3>5, <3>6, <3>7
        DEF Bot!ThreadAgrees, Bot!Remembered, Bot!Trimmed, Bot!LastOf, Bot!Exchanges
    <2>3. CASE k # key
      <3>1. \A o \in Turns : Bot!Works(o, k)' => o # t /\ Bot!Works(o, k) /\ turn'[o] = turn[o]
        BY <1>6, <1>12, <1>13, <2>3
      <3>2. \A o \in Turns : Bot!Works(o, k) => Bot!Works(o, k)'
        BY <1>12, <1>13, <2>3
      <3>3. \A o \in Turns : Bot!Works(o, k)' => (Bot!Asks(o)' <=> Bot!Asks(o))
        BY <3>1 DEF Bot!Asks
      <3>4. stored'[k] = stored[k] /\ shown'[k] = shown[k]
        BY <1>2, <1>7, <2>3
      <3> QED BY <2>1, <3>1, <3>2, <3>3, <3>4, ThreadStays
    <2> QED BY <2>2, <2>3
  <1> QED BY <1>2, <1>8, <1>9, <1>10, <1>11, <1>14, PartsOfIInv DEF TurnParts, Bot!Ids

\* A turn ends, and people see its answer or the thread counts as disturbed.
LEMMA PostStep ==
  ASSUME Bot!IInv, NEW t \in Turns, Bot!Post(t)
  PROVE  Bot!IInv'
  <1> DEFINE m == turn[t].msg
             key == Bot!Key(m)
  <1>1. Bot!TypeOK /\ Bot!TurnsHaveMessages
    BY DEF Bot!IInv
  <1>2. /\ turn[t].at = "posting" /\ m \in Bot!Ids /\ key \in Bot!Ids
        /\ turn' = [turn EXCEPT ![t] = Bot!Resting]
        /\ UNCHANGED <<messages, stored, rate, clock, passed>>
        /\ \/ shown' = [shown EXCEPT ![key] = Append(shown[key], m)] /\ UNCHANGED <<disturbed, slackFaults>>
           \/ /\ slackFaults' = slackFaults + 1 /\ disturbed' = disturbed \cup {key}
              /\ UNCHANGED shown
    BY <1>1, KeysOf DEF Bot!Post, Bot!Fault, Bot!End
  <1>3. Bot!Resting \in TurnStates /\ Bot!Resting.at = "idle"
    BY ServicesAssumption, RestingTurn DEF ServicesAssumption, Bot!Resting
  <1>4. /\ turn' \in [Turns -> TurnStates] /\ turn'[t] = Bot!Resting
        /\ \A o \in Turns \ {t} : turn'[o] = turn[o]
    BY <1>1, <1>2, <1>3, OneTurn
  <1>5. /\ shown' \in [Bot!Ids -> Seq(Bot!Ids)]
        /\ \A k \in Bot!Ids : k # key => shown'[k] = shown[k]
        /\ slackFaults' \in Nat /\ disturbed' \subseteq Bot!Ids /\ disturbed \subseteq disturbed'
    <2>1. shown[key] \in Seq(Bot!Ids)
      BY <1>1, <1>2, BotTypes
    <2>2. Append(shown[key], m) \in Seq(Bot!Ids)
      BY <1>2, <2>1, Appended
    <2>3. /\ shown \in [Bot!Ids -> Seq(Bot!Ids)] /\ disturbed \subseteq Bot!Ids /\ slackFaults \in Nat
          /\ key \in Bot!Ids
      BY <1>1, <1>2, BotTypes
    <2> HIDE DEF key, m
    <2>4. CASE UNCHANGED <<disturbed, slackFaults>>
      <3>1. shown' = [shown EXCEPT ![key] = Append(shown[key], m)] \/ UNCHANGED shown
        BY <1>2
      <3> QED BY <2>2, <2>3, <2>4, <3>1
    <2>5. CASE UNCHANGED shown /\ slackFaults' = slackFaults + 1 /\ disturbed' = disturbed \cup {key}
      BY <2>3, <2>5
    <2> QED BY <1>2, <2>4, <2>5
  <1>6. Bot!TypeOK'
    BY <1>1, <1>2, <1>4, <1>5 DEF Bot!TypeOK, TurnStates
  <1>7. Bot!TurnsHaveMessages'
    BY <1>1, <1>2, <1>3, <1>4 DEF Bot!TurnsHaveMessages
  <1>8. Bot!StoredInPairs'
    BY <1>2 DEF Bot!IInv, Bot!StoredInPairs, Bot!Alternates
  <1>9. Bot!AskedInTurn'
    <2> SUFFICES ASSUME NEW o \in Turns, Bot!Asks(o)'
                 PROVE  LET g == turn'[o].history IN
                        /\ Len(g) % 2 = 1 /\ Len(g) <= HistoryLimit + 1 /\ Bot!Alternates(g)
                        /\ g[Len(g)].msg = turn'[o].msg
      BY DEF Bot!AskedInTurn, Bot!Alternates
    <2>1. o # t /\ turn'[o] = turn[o]
      BY <1>3, <1>4 DEF Bot!Asks
    <2> QED BY <2>1 DEF Bot!IInv, Bot!AskedInTurn, Bot!Asks
  <1>10. \A o \in Turns \ {t}, k \in Bot!Ids : Bot!Works(o, k)' <=> Bot!Works(o, k)
    BY <1>2, <1>4 DEF Bot!Works, Bot!Key
  <1>11. \A k \in Bot!Ids : ~Bot!Works(t, k)' /\ (Bot!Works(t, k) <=> k = key)
    BY <1>2, <1>3, <1>4 DEF Bot!Works, Bot!Key
  <1>12. ASSUME NEW k \in Bot!Ids \ disturbed' PROVE Bot!ThreadAgrees(k)'
    <2>1. Bot!ThreadAgrees(k)
      BY <1>5 DEF Bot!IInv
    <2>2. CASE k = key
      <3>1. shown' = [shown EXCEPT ![key] = Append(shown[key], m)]
        BY <1>2, <2>2
      <3>2. shown'[k] = Append(shown[k], m)
        BY <1>1, <1>2, <2>2, <3>1, BotTypes
      <3>3. \A o \in Turns : ~Bot!Works(o, k)'
        BY <1>10, <1>11, <2>1, <2>2 DEF Bot!ThreadAgrees
      <3>4. stored'[k] = Bot!Remembered(shown'[k])
        BY <1>2, <1>11, <2>1, <2>2, <3>2 DEF Bot!ThreadAgrees
      <3> QED
        BY <3>3, <3>4
        DEF Bot!ThreadAgrees, Bot!Remembered, Bot!Trimmed, Bot!LastOf, Bot!Exchanges
    <2>3. CASE k # key
      <3>1. \A o \in Turns : Bot!Works(o, k)' => o # t /\ Bot!Works(o, k) /\ turn'[o] = turn[o]
        BY <1>4, <1>10, <1>11
      <3>2. \A o \in Turns : Bot!Works(o, k) => Bot!Works(o, k)'
        BY <1>10, <1>11, <2>3
      <3>3. \A o \in Turns : Bot!Works(o, k)' => (Bot!Asks(o)' <=> Bot!Asks(o))
        BY <3>1 DEF Bot!Asks
      <3>4. stored'[k] = stored[k] /\ shown'[k] = shown[k]
        BY <1>2, <1>5, <2>3
      <3> QED BY <2>1, <3>1, <3>2, <3>3, <3>4, ThreadStays
    <2> QED BY <2>2, <2>3
  <1> QED BY <1>2, <1>6, <1>7, <1>8, <1>9, <1>12, PartsOfIInv DEF TurnParts, Bot!Ids

LEMMA ForgetStep ==
  ASSUME Bot!IInv, NEW key \in Bot!Ids, Bot!Forget(key)
  PROVE  Bot!IInv'
  <1>1. Bot!TypeOK /\ Bot!TurnsHaveMessages
    BY DEF Bot!IInv
  <1>2. /\ stored' = [stored EXCEPT ![key] = <<>>] /\ disturbed' = disturbed \cup {key}
        /\ UNCHANGED <<messages, turn, rate, clock, shown, passed, slackFaults>>
    BY DEF Bot!Forget
  <1>3. /\ stored' \in [Bot!Ids -> Seq(Bot!Entries)] /\ disturbed' \subseteq Bot!Ids
        /\ \A k \in Bot!Ids : stored'[k] = IF k = key THEN <<>> ELSE stored[k]
    BY <1>1, <1>2, BotTypes
  <1>4. Bot!TypeOK' /\ Bot!TurnsHaveMessages'
    BY <1>1, <1>2, <1>3 DEF Bot!TypeOK, Bot!TurnsHaveMessages
  <1>5. Bot!StoredInPairs'
    <2>1. HistoryLimit \in Nat
      BY ServicesAssumption DEF ServicesAssumption, Bot!Parameters
    <2>2. ASSUME NEW k \in Bot!Ids
          PROVE  /\ Len(stored'[k]) % 2 = 0 /\ Len(stored'[k]) <= HistoryLimit
                 /\ Bot!Alternates(stored'[k])
      <3>1. CASE k = key
        <4>1. Len(stored'[k]) = 0
          BY <1>3, <3>1
        <4> QED BY <2>1, <4>1 DEF Bot!Alternates
      <3>2. CASE k # key
        <4>1. stored'[k] = stored[k]
          BY <1>3, <3>2
        <4> QED BY <4>1 DEF Bot!IInv, Bot!StoredInPairs
      <3> QED BY <3>1, <3>2
    <2> QED BY <2>2 DEF Bot!StoredInPairs, Bot!Alternates, Bot!Ids
  <1>6. Bot!AskedInTurn'
    BY <1>2 DEF Bot!IInv, Bot!AskedInTurn, Bot!Asks, Bot!Alternates
  <1>7. ASSUME NEW k \in Bot!Ids \ disturbed' PROVE Bot!ThreadAgrees(k)'
    <2>1. Bot!ThreadAgrees(k) /\ stored'[k] = stored[k] /\ shown'[k] = shown[k]
      BY <1>2, <1>3 DEF Bot!IInv
    <2>2. \A t \in Turns : (Bot!Works(t, k)' <=> Bot!Works(t, k)) /\ (Bot!Asks(t)' <=> Bot!Asks(t))
      BY <1>2 DEF Bot!Works, Bot!Asks, Bot!Key
    <2> QED BY <1>2, <2>1, <2>2, ThreadStays
  <1> QED BY <1>2, <1>4, <1>5, <1>6, <1>7, PartsOfIInv DEF TurnParts, Bot!Ids

LEMMA RestartStep ==
  ASSUME Bot!IInv, Bot!Restart
  PROVE  Bot!IInv'
  <1>1. Bot!TypeOK /\ Bot!TurnsHaveMessages
    BY DEF Bot!IInv
  <1>2. /\ slackFaults' = slackFaults + 1 /\ turn' = [t \in Turns |-> Bot!Resting]
        /\ rate' = [kind \in Bot!Kinds |-> [u \in Bot!People |-> {}]] /\ passed' = rate'
        /\ disturbed' = disturbed \cup {Bot!Key(turn[t].msg) : t \in {o \in Turns : turn[o].at = "posting"}}
        /\ UNCHANGED <<messages, stored, clock, shown>>
    BY DEF Bot!Restart, Bot!Fault
  <1>3. Bot!Resting \in TurnStates /\ Bot!Resting.at = "idle"
    BY ServicesAssumption, RestingTurn DEF ServicesAssumption, Bot!Resting
  <1>4. \A t \in Turns : turn'[t].at = "idle"
    BY <1>2, <1>3
  <1>5. Bot!TypeOK'
    <2>1. turn' \in [Turns -> TurnStates] /\ slackFaults' \in Nat
      BY <1>1, <1>2, <1>3, BotTypes
    <2>2. {rate', passed'} \subseteq [Bot!Kinds -> [Bot!People -> SUBSET Bot!Attempts]]
      BY <1>2
    <2>3. disturbed' \subseteq Bot!Ids
      BY <1>1, <1>2, KeysOf, BotTypes
    <2> QED BY <1>1, <1>2, <2>1, <2>2, <2>3 DEF Bot!TypeOK, TurnStates
  <1>6. Bot!TurnsHaveMessages' /\ Bot!AskedInTurn' /\ Bot!StoredInPairs'
    BY <1>1, <1>2, <1>4 DEF Bot!IInv, Bot!TurnsHaveMessages, Bot!AskedInTurn, Bot!Asks,
       Bot!StoredInPairs, Bot!Alternates
  <1>7. Bot!AttemptsAreCounted'
    <2>1. IsFiniteSet({}) /\ Cardinality({}) = 0
      BY FS_EmptySet
    <2>2. \A kind \in Bot!Kinds : 0 <= Bot!MaxOf(kind)
      BY ServicesAssumption DEF ServicesAssumption, Bot!Parameters, Bot!MaxOf
    <2>3. \A kind \in Bot!Kinds, u \in Bot!People : rate'[kind][u] = {} /\ passed'[kind][u] = {}
      BY <1>2
    <2> QED BY <2>1, <2>2, <2>3, AttemptsCountedNext
  <1>8. ASSUME NEW k \in Bot!Ids \ disturbed' PROVE Bot!ThreadAgrees(k)'
    <2>1. Bot!ThreadAgrees(k) /\ stored'[k] = stored[k] /\ shown'[k] = shown[k]
      BY <1>2 DEF Bot!IInv
    <2>2. \A t \in Turns : ~Bot!Works(t, k)'
      BY <1>4 DEF Bot!Works
    <2>3. \A t \in Turns : Bot!Works(t, k) => Bot!Asks(t)
      BY <1>2 DEF Bot!Works, Bot!Asks
    <2> QED BY <2>1, <2>2, <2>3, ThreadStays
  <1> QED BY <1>5, <1>6, <1>7, <1>8 DEF Bot!IInv, Bot!Ids

LEMMA PassStep ==
  ASSUME Bot!IInv, Bot!Pass
  PROVE  Bot!IInv'
  <1>1. Bot!TypeOK /\ Bot!TurnsHaveMessages
    BY DEF Bot!IInv
  <1>2. UNCHANGED <<messages, turn, stored, rate, shown, disturbed, slackFaults>>
    BY DEF Bot!Pass
  <1>3. TurnParts'
    BY <1>1, <1>2, MessagesUnchanged, MessagesDisturbNone
  <1> QED BY <1>3, PassCounts DEF Bot!IInv, TurnParts

LEMMA BotStep ==
  ASSUME Bot!IInv, [Bot!Next]_(Bot!vars)
  PROVE  Bot!IInv'
  <1>1. CASE UNCHANGED Bot!vars
    <2>1. /\ UNCHANGED <<turn, stored, shown, disturbed>> /\ UNCHANGED <<rate, passed, clock>>
          /\ messages' = messages /\ slackFaults' = slackFaults
      BY <1>1 DEF Bot!vars
    <2>2. Bot!TypeOK /\ Bot!TurnsHaveMessages
      BY DEF Bot!IInv
    <2>3. TurnParts'
      BY <2>1, <2>2, MessagesUnchanged, MessagesDisturbNone
    <2>4. Bot!TypeOK'
      BY <2>1, <2>2 DEF Bot!TypeOK
    <2> QED BY <2>1, <2>3, <2>4, PartsOfIInv
  <1> QED
    BY <1>1, SayStep, CommandStep, DeliverStep, LoadStep, CallStep, SaveStep, PostStep, ForgetStep,
       RestartStep, PassStep DEF Bot!Next

\* What the bot remembers of a thread is what people saw there, as long as
\* nothing disturbed it (slack/conversation.ts:150-172, 440-465).
THEOREM BotInvariant == Bot!Spec => []Bot!IInv
<1>1. Bot!Init => Bot!IInv
  <2> SUFFICES ASSUME Bot!Init PROVE Bot!IInv
    OBVIOUS
  <2>1. /\ messages = <<>> /\ turn = [t \in Turns |-> Bot!Resting]
        /\ stored = [k \in Bot!Ids |-> <<>>] /\ shown = [k \in Bot!Ids |-> <<>>]
        /\ rate = [kind \in Bot!Kinds |-> [u \in Bot!People |-> {}]] /\ passed = rate
        /\ clock = 0 /\ disturbed = {} /\ slackFaults = 0
    BY DEF Bot!Init
  <2>2. Bot!Resting \in TurnStates /\ Bot!Resting.at = "idle"
    BY ServicesAssumption, RestingTurn DEF ServicesAssumption, Bot!Resting
  <2>3. /\ HistoryLimit \in Nat \ {0} /\ MaxMessages \in Nat
        /\ \A kind \in Bot!Kinds : 0 <= Bot!MaxOf(kind)
    BY ServicesAssumption DEF ServicesAssumption, Bot!Parameters, Bot!MaxOf
  <2>4. \A t \in Turns : turn[t].at = "idle"
    BY <2>1, <2>2
  <2>5. Bot!TypeOK
    <3>1. turn \in [Turns -> TurnStates]
      BY <2>1, <2>2
    <3>2. {rate, passed} \subseteq [Bot!Kinds -> [Bot!People -> SUBSET Bot!Attempts]]
      BY <2>1
    <3>3. /\ stored \in [Bot!Ids -> Seq(Bot!Entries)] /\ shown \in [Bot!Ids -> Seq(Bot!Ids)]
          /\ messages \in Seq([user : Bot!People, thread : Bot!Ids, came : 0..2])
      BY <2>1
    <3> QED BY <2>1, <3>1, <3>2, <3>3 DEF Bot!TypeOK, TurnStates
  <2>6. Bot!TurnsHaveMessages /\ Bot!AskedInTurn
    <3>1. Len(messages) <= MaxMessages
      <4>1. Len(messages) = 0
        BY <2>1
      <4> QED BY <2>3, <4>1
    <3>2. \A t \in Turns : ~Bot!Asks(t) /\ ~(turn[t].at # "idle")
      BY <2>4 DEF Bot!Asks
    <3>3. Bot!TurnsHaveMessages
      BY <3>1, <3>2 DEF Bot!TurnsHaveMessages
    <3>4. Bot!AskedInTurn
      BY <3>2, Zenon DEF Bot!AskedInTurn
    <3> QED BY <3>3, <3>4
  <2>7. Bot!StoredInPairs
    <3>1. ASSUME NEW k \in Bot!Ids
          PROVE  Len(stored[k]) % 2 = 0 /\ Len(stored[k]) <= HistoryLimit /\ Bot!Alternates(stored[k])
      <4>1. Len(stored[k]) = 0
        BY <2>1
      <4>2. \A i \in 1..Len(stored[k]) : FALSE
        BY <4>1
      <4>3. Len(stored[k]) % 2 = 0 /\ Len(stored[k]) <= HistoryLimit
        BY <2>3, <4>1
      <4> QED BY <4>2, <4>3 DEF Bot!Alternates
    <3> QED BY <3>1, Zenon DEF Bot!StoredInPairs
  <2>8. Bot!AttemptsAreCounted
    <3>1. \A kind \in Bot!Kinds, u \in Bot!People : rate[kind][u] = {} /\ passed[kind][u] = {}
      BY <2>1
    <3> QED BY <2>3, <3>1, FS_EmptySet, AttemptsCounted
  <2>9. ASSUME NEW k \in Bot!Ids PROVE Bot!ThreadAgrees(k)
    <3>1. \A t \in Turns : ~Bot!Works(t, k)
      BY <2>4 DEF Bot!Works
    <3>2. stored[k] = <<>> /\ shown[k] = <<>>
      BY <2>1
    <3>3. Bot!Remembered(<<>>) = <<>>
      <4>1. <<>> \in Seq(Bot!Ids)
        OBVIOUS
      <4>2. Bot!Exchanges(<<>>) \in Seq(Bot!Entries) /\ Len(Bot!Exchanges(<<>>)) = 0
        <5> DEFINE none == <<>>
        <5>1. none \in Seq(Bot!Ids) /\ Len(none) = 0
          OBVIOUS
        <5> HIDE DEF none
        <5>2. Bot!Exchanges(none) \in Seq(Bot!Entries) /\ Len(Bot!Exchanges(none)) = 2 * Len(none)
          BY <5>1, ExchangesAre
        <5>3. Len(Bot!Exchanges(none)) = 0
          <6> DEFINE n == Len(none) m == Len(Bot!Exchanges(none))
          <6>1. n = 0 /\ m = 2 * n
            BY <5>1, <5>2
          <6> HIDE DEF n, m
          <6>2. m = 0
            BY <6>1
          <6> QED BY <6>2 DEF m
        <5> QED BY <5>2, <5>3 DEF none
      <4>3. Bot!Trimmed(Bot!Exchanges(<<>>)) \in Seq(Bot!Entries)
            /\ Len(Bot!Trimmed(Bot!Exchanges(<<>>))) = 0
        BY <2>3, <4>2, TrimmedTyped
      <4> QED BY <4>3 DEF Bot!Remembered
    <3> QED BY <3>1, <3>2, <3>3 DEF Bot!ThreadAgrees
  <2> QED BY <2>5, <2>6, <2>7, <2>8, <2>9 DEF Bot!IInv
<1>2. Bot!IInv /\ [Bot!Next]_(Bot!vars) => Bot!IInv'
  BY BotStep
<1> QED BY <1>1, <1>2, PTL DEF Bot!Spec

\* A thread whose turns came one after the other is remembered as people see it;
\* what is sent to Claude takes turns, whatever overlaps, is lost or expires; and
\* nobody passes the limits of an hour and a minute (slack/conversation.ts:24-33,
\* 150-172, 207-212, 440-465, slack/handler.ts:18-29).
THEOREM BotHolds == Bot!Spec => []ConversationsHold
<1>1. ASSUME Bot!IInv PROVE Bot!RemembersThread
  <2> SUFFICES ASSUME NEW k \in Bot!Ids \ disturbed,
                      \A t \in Turns : turn[t].at = "posting" => Bot!Key(turn[t].msg) # k
               PROVE  stored[k] = Bot!Remembered(shown[k])
    BY DEF Bot!RemembersThread, Bot!Remembered
  <2>1. \A t \in Turns : Bot!Works(t, k) => Bot!Asks(t)
    BY DEF Bot!Works, Bot!Asks
  <2> QED BY <1>1, <2>1 DEF Bot!IInv, Bot!ThreadAgrees
<1>2. ASSUME Bot!IInv PROVE Bot!TakesTurns
  BY <1>2 DEF Bot!IInv, Bot!AskedInTurn, Bot!Asks, Bot!TakesTurns, Bot!Alternates
<1>3. ASSUME Bot!IInv PROVE Bot!RateIsBounded
  BY <1>3 DEF Bot!IInv, Bot!AttemptsAreCounted, Bot!RateIsBounded
<1>4. Bot!IInv => ConversationsHold
  BY <1>1, <1>2, <1>3 DEF ConversationsHold, Bot!ConversationsHold
<1> QED BY <1>4, BotInvariant, PTL
-----------------------------------------------------------------------------
(***************************************************************************)
(* Reports, for any issues, periods and limits.                            *)
(***************************************************************************)
\* The instance has operators of FiniteSets of its own.
LEMMA ReportsFinite == \A S : Reports!IsFiniteSet(S) <=> IsFiniteSet(S)
  BY DEF Reports!IsFiniteSet, IsFiniteSet

LEMMA ReportsCardinality == \A S : Reports!Cardinality(S) = Cardinality(S)
  BY DEF Reports!Cardinality, Cardinality

LEMMA ReportsParameters ==
  /\ Period \in Nat /\ Few \in Nat /\ MaxNow \in Nat /\ IsFiniteSet(DOMAIN typeOf)
  BY ServicesAssumption, ReportsFinite DEF ServicesAssumption, Reports!Parameters

\* What is counted are issues, so there are finitely many of them.
LEMMA CountsAreNumbers ==
  ASSUME NEW S \in SUBSET DOMAIN typeOf
  PROVE  IsFiniteSet(S) /\ Cardinality(S) \in Nat /\ Reports!Cardinality(S) \in Nat
  BY ReportsParameters, ReportsCardinality, FS_Subset, FS_CardinalityType

LEMMA CountsGrow ==
  ASSUME NEW S \in SUBSET DOMAIN typeOf, NEW T \in SUBSET S
  PROVE  Reports!Cardinality(T) <= Reports!Cardinality(S)
  BY CountsAreNumbers, ReportsCardinality, FS_Subset

LEMMA ReportsInit == Reports!Init => Reports!IInv
<1> SUFFICES ASSUME Reports!Init PROVE Reports!IInv
  OBVIOUS
<1>1. Reports!TypeOK
  BY ReportsParameters DEF Reports!Init, Reports!TypeOK, Reports!Issues, Reports!Undone, Reports!Queries
<1>2. Reports!CountsHold /\ Reports!ReportIsSound
  BY DEF Reports!Init, Reports!CountsHold, Reports!ReportIsSound, Reports!Undone
<1> QED BY <1>1, <1>2 DEF Reports!IInv
-----------------------------------------------------------------------------
\* What a step does that is none of a report's: time passes, issues are detected
\* now, and none is detected twice.
Elsewhere ==
  /\ metrics' = metrics /\ report' = NoReport
  /\ truth' = IF metrics = Reports!Undone THEN Reports!Nothing ELSE truth
  /\ today' \in Int /\ today <= today'
  /\ \A i \in DOMAIN typeOf : 
       IF status[i] = "none" THEN status'[i] = "none" \/ created'[i] = today
       ELSE /\ status'[i] # "none" /\ created'[i] = created[i]
            /\ status'[i] = "erased" <=> status[i] = "erased"

LEMMA SetsGrow ==
  ASSUME Reports!TypeOK, Elsewhere, NEW CONSTANT s \in Int, s <= today
  PROVE  /\ Reports!Before(s)' = Reports!Before(s)
         /\ Reports!Critical(Reports!Before(s))' = Reports!Critical(Reports!Before(s))
         /\ Reports!Critical(Reports!Since(s)) \subseteq Reports!Critical(Reports!Since(s))'
         /\ Reports!Critical(Reports!Since(s))' \subseteq DOMAIN typeOf
<1> USE DEF Reports!Before, Reports!Since, Reports!Critical, Reports!Detected, Reports!Issues
<1>1. today \in Int /\ Period \in Int /\ \A i \in DOMAIN typeOf : created[i] \in Int
  BY ReportsParameters DEF Reports!TypeOK
<1>2. \A i \in DOMAIN typeOf : (i \in Reports!Before(s))' <=> i \in Reports!Before(s)
  BY <1>1 DEF Elsewhere
<1>3. \A i \in DOMAIN typeOf : i \in Reports!Since(s) => (i \in Reports!Since(s))'
  BY <1>1 DEF Elsewhere
<1>4. Reports!Before(s)' = Reports!Before(s) /\ Reports!Since(s) \subseteq Reports!Since(s)'
  BY <1>2, <1>3
<1> QED BY <1>4

LEMMA CountsHoldElsewhere ==
  ASSUME Reports!IInv, Elsewhere
  PROVE  Reports!CountsHold' /\ Reports!ReportIsSound'
<1>1. Reports!ReportIsSound'
  BY DEF Elsewhere, Reports!ReportIsSound
<1>2. SUFFICES ASSUME metrics.asked >= 1 PROVE Reports!CountsHold'
  BY <1>1 DEF Elsewhere, Reports!CountsHold
<1>3. PICK s : s = metrics.start
  OBVIOUS
<1>4. s \in Int /\ s <= today /\ today' \in Int /\ today <= today' /\ today \in Int
  BY <1>2, <1>3 DEF Reports!IInv, Reports!TypeOK, Reports!CountsHold, Elsewhere
<1>5. metrics # Reports!Undone
  BY <1>2 DEF Reports!Undone
<1>6. truth' = truth /\ metrics' = metrics /\ report' = NoReport
  BY <1>5 DEF Elsewhere
<1>7. /\ Reports!Before(s)' = Reports!Before(s)
      /\ Reports!Critical(Reports!Before(s))' = Reports!Critical(Reports!Before(s))
      /\ Reports!Critical(Reports!Since(s)) \subseteq Reports!Critical(Reports!Since(s))'
      /\ Reports!Critical(Reports!Since(s))' \subseteq DOMAIN typeOf
  BY <1>4, SetsGrow DEF Reports!IInv
<1>8. PICK c, d, p :
        /\ c = Reports!Cardinality(Reports!Critical(Reports!Since(s)))
        /\ d = Reports!Cardinality(Reports!Critical(Reports!Since(s))')
        /\ p = Reports!Cardinality(Reports!Critical(Reports!Before(s)))
  OBVIOUS
<1>9. c \in Nat /\ d \in Nat /\ c <= d /\ p \in Nat
  <2>1. Reports!Critical(Reports!Before(s)) \subseteq DOMAIN typeOf
    BY DEF Reports!Critical, Reports!Before, Reports!Detected, Reports!Issues
  <2> QED BY <1>7, <1>8, <2>1, CountsAreNumbers, CountsGrow
<1>10. Reports!Spiked(c, p) => Reports!Spiked(d, p)
  BY <1>9 DEF Reports!Spiked
<1>11. Reports!CountsHold
  BY DEF Reports!IInv
<1>12. s <= today'
  BY <1>4
<1> QED BY <1>2, <1>3, <1>4, <1>6, <1>7, <1>8, <1>10, <1>11, <1>12 DEF Reports!CountsHold
-----------------------------------------------------------------------------
LEMMA TickReports ==
  ASSUME Reports!IInv, Reports!Tick
  PROVE  Reports!IInv'
<1>1. Reports!TypeOK'
  BY ReportsParameters DEF Reports!IInv, Reports!TypeOK, Reports!Tick, Reports!Reading, Reports!Answered,
     Reports!Issues
<1>2. Elsewhere
  BY DEF Reports!IInv, Reports!TypeOK, Reports!Tick, Reports!Reading, Reports!Answered, Reports!Issues, Elsewhere
<1> QED BY <1>1, <1>2, CountsHoldElsewhere DEF Reports!IInv

LEMMA DetectIssue ==
  ASSUME Reports!IInv, NEW i \in Reports!Issues, Reports!Detect(i)
  PROVE  Reports!IInv'
<1> USE DEF Reports!Issues
<1>1. Reports!TypeOK'
  BY ReportsParameters DEF Reports!IInv, Reports!TypeOK, Reports!Detect, Reports!Reading, Reports!Answered,
     Reports!Live
<1>2. Elsewhere
  BY DEF Reports!IInv, Reports!TypeOK, Reports!Detect, Reports!Reading, Reports!Answered, Elsewhere
<1> QED BY <1>1, <1>2, CountsHoldElsewhere DEF Reports!IInv

LEMMA HandleIssue ==
  ASSUME Reports!IInv, NEW i \in Reports!Issues, NEW s \in Reports!Closed \cup {"acknowledged"},
         Reports!Handle(i, s)
  PROVE  Reports!IInv'
<1> USE DEF Reports!Issues
<1>1. Reports!TypeOK'
  BY ReportsParameters DEF Reports!IInv, Reports!TypeOK, Reports!Handle, Reports!Move, Reports!Reading,
     Reports!Answered, Reports!Live, Reports!Closed, Reports!Detected
<1>2. Elsewhere
  BY DEF Reports!IInv, Reports!TypeOK, Reports!Handle, Reports!Reading, Reports!Answered, Elsewhere,
     Reports!Closed, Reports!Detected
<1> QED BY <1>1, <1>2, CountsHoldElsewhere DEF Reports!IInv

\* An erasure takes issues from either period.
LEMMA EraseIssues ==
  ASSUME Reports!IInv, NEW u, Reports!Erase(u)
  PROVE  Reports!IInv'
<1> USE DEF Reports!Issues
<1>1. /\ UNCHANGED <<today, created, updated, metrics, reports>> /\ report' = NoReport
      /\ moves' = moves + 1
      /\ status' = [i \in DOMAIN typeOf |-> IF userOf[i] = u THEN "erased" ELSE status[i]]
  BY DEF Reports!Erase, Reports!Move
<1>2. Reports!TypeOK'
  BY <1>1 DEF Reports!IInv, Reports!TypeOK
<1>3. Reports!ReportIsSound'
  BY <1>1 DEF Reports!ReportIsSound
<1>4. ASSUME metrics.asked >= 1 PROVE Reports!CountsHold'
  <2>1. PICK s : s = metrics.start
    OBVIOUS
  <2>2. Reports!CountsHold
    BY DEF Reports!IInv
  <2>3. /\ Reports!Before(s)' \subseteq Reports!Before(s) /\ Reports!Before(s) \subseteq DOMAIN typeOf
        /\ Reports!Critical(Reports!Before(s))' \subseteq Reports!Critical(Reports!Before(s))
        /\ Reports!Critical(Reports!Before(s)) \subseteq DOMAIN typeOf
    BY <1>1 DEF Reports!Before, Reports!Detected, Reports!Critical
  <2>4. PICK b, before, c, criticalBefore, critical :
          /\ b = Reports!Cardinality(Reports!Before(s)')
          /\ before = Reports!Cardinality(Reports!Before(s))
          /\ c = Reports!Cardinality(Reports!Critical(Reports!Before(s))')
          /\ criticalBefore = Reports!Cardinality(Reports!Critical(Reports!Before(s)))
          /\ critical = Reports!Cardinality(Reports!Critical(Reports!Since(s))')
    OBVIOUS
  <2>5. /\ b \in Nat /\ before \in Nat /\ c \in Nat /\ criticalBefore \in Nat
        /\ b <= before /\ c <= criticalBefore
    BY <2>3, <2>4, CountsAreNumbers, CountsGrow
  <2>6. /\ s \in Int /\ s <= today /\ today' = today /\ metrics' = metrics
        /\ {"start", "asked", "total"} \subseteq DOMAIN metrics /\ metrics["total"] \in Nat
        /\ truth.fewer \/ metrics["total"] >= before
        /\ metrics.asked >= 2 => /\ "critical" \in DOMAIN metrics /\ metrics["critical"] \in Nat
                                 /\ truth.spike => Reports!Spiked(metrics["critical"], criticalBefore)
        /\ metrics.asked >= 6 => /\ "prevTotal" \in DOMAIN metrics /\ metrics["prevTotal"] \in Nat
                                 /\ truth.fewer \/ metrics["total"] >= metrics["prevTotal"]
        /\ metrics.asked = 7 => /\ "prevCritical" \in DOMAIN metrics /\ metrics["prevCritical"] \in Nat
                                /\ truth.spike => Reports!Spiked(metrics["critical"], metrics["prevCritical"])
    BY <1>1, <1>4, <2>1, <2>2, <2>4 DEF Reports!CountsHold
  <2>7. metrics # Reports!Undone
    BY <1>4 DEF Reports!Undone
  <2>8. truth'.fewer = truth.fewer /\ (truth'.spike => truth.spike)
    BY <2>7 DEF Reports!Erase
  <2>9. metrics.asked = 1 /\ truth'.spike => Reports!Spiked(critical, c)
    <3>1. Reports!SpikeSince(metrics.start)' <=> critical > 0 /\ critical > 2 * c
      BY <2>1, <2>4, <2>6 DEF Reports!SpikeSince, Reports!Answer
    <3> QED BY <3>1 DEF Reports!Erase, Reports!Spiked
  <2>10. ASSUME metrics.asked >= 2, truth'.spike PROVE Reports!Spiked(metrics["critical"], c)
    BY <2>5, <2>6, <2>8, <2>10 DEF Reports!Spiked
  <2>11. truth'.fewer \/ metrics["total"] >= b
    BY <2>5, <2>6, <2>8
  <2> QED BY <1>1, <2>1, <2>4, <2>6, <2>8, <2>9, <2>10, <2>11 DEF Reports!CountsHold
<1>5. Reports!CountsHold'
  BY <1>1, <1>4 DEF Reports!CountsHold
<1> QED BY <1>2, <1>3, <1>5 DEF Reports!IInv

\* The first question is asked in the moment the truth is taken.
LEMMA BeginReportStep ==
  ASSUME Reports!IInv, Reports!BeginReport
  PROVE  Reports!IInv'
<1> DEFINE start == today - Period
<1>1. today \in Int /\ start \in Int /\ start <= today
  BY ReportsParameters DEF Reports!IInv, Reports!TypeOK
<1>2. PICK s : s = start
  OBVIOUS
<1>3. PICK total, before, critical, criticalBefore :
        /\ total = Reports!Cardinality(Reports!Since(s))
        /\ before = Reports!Cardinality(Reports!Before(s))
        /\ critical = Reports!Cardinality(Reports!Critical(Reports!Since(s)))
        /\ criticalBefore = Reports!Cardinality(Reports!Critical(Reports!Before(s)))
  OBVIOUS
<1>4. total \in Nat /\ before \in Nat /\ critical \in Nat /\ criticalBefore \in Nat
  BY <1>3, CountsAreNumbers DEF Reports!Since, Reports!Before, Reports!Critical, Reports!Detected, Reports!Issues
<1>5. /\ metrics' = [start |-> s, asked |-> 1, total |-> total]
      /\ truth' = [spike |-> critical > 0 /\ critical > 2 * criticalBefore, fewer |-> total < before]
      /\ report' = NoReport /\ UNCHANGED <<today, status, created, updated, moves>>
      /\ reports' = reports + 1
  BY <1>2, <1>3 DEF Reports!BeginReport, Reports!Answer, Reports!SpikeSince
<1>6. /\ (Reports!Before(s))' = Reports!Before(s) /\ (Reports!Since(s))' = Reports!Since(s)
      /\ (Reports!Critical(Reports!Before(s)))' = Reports!Critical(Reports!Before(s))
      /\ (Reports!Critical(Reports!Since(s)))' = Reports!Critical(Reports!Since(s))
  BY <1>5 DEF Reports!Since, Reports!Before, Reports!Critical, Reports!Detected
<1>7. Reports!TypeOK'
  BY <1>5 DEF Reports!IInv, Reports!TypeOK, Reports!Queries
<1>8. metrics'.asked = 1 /\ metrics'.start = s /\ metrics'["total"] = total
      /\ DOMAIN metrics' = {"start", "asked", "total"}
  BY <1>5
<1>9. Reports!CountsHold'
  <2>1. s \in Int /\ s <= today'
    BY <1>1, <1>2, <1>5
  <2>2. truth'.spike => Reports!Spiked(critical, criticalBefore)
    BY <1>5 DEF Reports!Spiked
  <2>3. truth'.fewer \/ total >= before
    <3>1. total < before \/ total >= before
      BY <1>4
    <3>2. truth'.fewer = (total < before)
      BY <1>5, Zenon
    <3> QED BY <3>1, <3>2, Zenon
  <2>4. ~ (metrics'.asked >= 2) /\ ~ (metrics'.asked >= 6) /\ metrics'.asked # 7
    BY <1>8
  <2> QED BY <1>3, <1>4, <1>5, <1>6, <1>8, <2>1, <2>2, <2>3, <2>4 DEF Reports!CountsHold
<1>10. Reports!ReportIsSound'
  BY <1>5 DEF Reports!ReportIsSound
<1> QED BY <1>7, <1>9, <1>10 DEF Reports!IInv

LEMMA AskStep ==
  ASSUME Reports!IInv, Reports!Ask
  PROVE  Reports!IInv'
<1> DEFINE a == metrics.asked
<1>1. a \in 1..6 /\ Reports!CountsHold
  BY DEF Reports!Ask, Reports!Queries, Reports!IInv
<1>2. PICK s, before, critical, criticalBefore :
        /\ s = metrics.start
        /\ before = Reports!Cardinality(Reports!Before(s))
        /\ critical = Reports!Cardinality(Reports!Critical(Reports!Since(s)))
        /\ criticalBefore = Reports!Cardinality(Reports!Critical(Reports!Before(s)))
  OBVIOUS
<1>3. s \in Int /\ s <= today /\ report = NoReport
      /\ {"start", "asked", "total"} \subseteq DOMAIN metrics /\ metrics["total"] \in Nat
      /\ (a = 1 /\ truth.spike => Reports!Spiked(critical, criticalBefore))
      /\ (truth.fewer \/ metrics["total"] >= before)
      /\ (a >= 2 => /\ "critical" \in DOMAIN metrics /\ metrics["critical"] \in Nat
                    /\ truth.spike => Reports!Spiked(metrics["critical"], criticalBefore))
      /\ (a >= 6 => /\ "prevTotal" \in DOMAIN metrics /\ metrics["prevTotal"] \in Nat
                    /\ truth.fewer \/ metrics["total"] >= metrics["prevTotal"])
  BY <1>1, <1>2 DEF Reports!CountsHold
<1>4. PICK q : q = Reports!Queries[a + 1]
  OBVIOUS
<1>5. PICK v : v = Reports!Answer(q, s)
  OBVIOUS
<1>6. /\ metrics' = [f \in DOMAIN metrics \cup {q} |->
                       IF f = q THEN v ELSE IF f = "asked" THEN a + 1 ELSE metrics[f]]
      /\ UNCHANGED <<today, status, created, updated, truth, report, moves, reports>>
  BY <1>2, <1>4, <1>5 DEF Reports!Ask
<1>7. /\ (Reports!Before(s))' = Reports!Before(s)
      /\ (Reports!Critical(Reports!Before(s)))' = Reports!Critical(Reports!Before(s))
      /\ (Reports!Critical(Reports!Since(s)))' = Reports!Critical(Reports!Since(s))
  BY <1>6 DEF Reports!Since, Reports!Before, Reports!Critical, Reports!Detected
<1>8. /\ q \in {"critical", "resolved", "revenue", "byType", "prevTotal", "prevCritical"}
      /\ q = "critical" <=> a = 1
      /\ q = "prevTotal" <=> a = 5
      /\ q = "prevCritical" <=> a = 6
  BY <1>1, <1>4 DEF Reports!Queries
<1>9. /\ metrics'["asked"] = a + 1 /\ metrics'["start"] = s /\ metrics'["total"] = metrics["total"]
      /\ DOMAIN metrics' = DOMAIN metrics \cup {q} /\ metrics'[q] = v
      /\ \A f \in DOMAIN metrics : f # q /\ f # "asked" => metrics'[f] = metrics[f]
  BY <1>2, <1>3, <1>6, <1>8
<1>10. /\ (a = 1 => v = critical) /\ (a = 5 => v = before) /\ (a = 6 => v = criticalBefore)
  BY <1>2, <1>5, <1>8 DEF Reports!Answer
<1>11. Reports!TypeOK'
  BY <1>1, <1>6, <1>9 DEF Reports!IInv, Reports!TypeOK, Reports!Queries
<1>12. /\ metrics'.asked = a + 1 /\ metrics'.start = s /\ today' = today /\ report' = NoReport
       /\ truth' = truth
  BY <1>3, <1>6, <1>9
<1>13. /\ "critical" \in DOMAIN metrics' /\ metrics'["critical"] \in Nat
       /\ (truth.spike => Reports!Spiked(metrics'["critical"], criticalBefore))
  <2>1. critical \in Nat
    BY <1>2, CountsAreNumbers DEF Reports!Since, Reports!Critical, Reports!Detected, Reports!Issues
  <2> QED BY <1>1, <1>3, <1>8, <1>9, <1>10, <2>1
<1>14. /\ (a + 1 >= 6 => /\ "prevTotal" \in DOMAIN metrics' /\ metrics'["prevTotal"] \in Nat
                         /\ truth.fewer \/ metrics'["total"] >= metrics'["prevTotal"])
       /\ (a + 1 = 7 => /\ "prevCritical" \in DOMAIN metrics' /\ metrics'["prevCritical"] \in Nat
                        /\ truth.spike => Reports!Spiked(metrics'["critical"], metrics'["prevCritical"]))
  <2>1. before \in Nat /\ criticalBefore \in Nat
    BY <1>2, CountsAreNumbers DEF Reports!Before, Reports!Critical, Reports!Detected, Reports!Issues
  <2> QED BY <1>1, <1>3, <1>8, <1>9, <1>10, <1>13, <2>1
<1>15. Reports!CountsHold'
  <2>1. PICK n, c : n = a + 1 /\ c = Reports!Cardinality((Reports!Critical(Reports!Since(s)))')
    OBVIOUS
  <2>2. n # 1 /\ metrics'.asked = n
    BY <1>1, <1>12, <2>1
  <2>3. /\ s \in Int /\ s <= today' /\ report' = NoReport /\ metrics'.start = s
        /\ {"start", "asked", "total"} \subseteq DOMAIN metrics' /\ metrics'["total"] \in Nat
        /\ truth'.fewer \/ metrics'["total"] >= before
    BY <1>3, <1>9, <1>12
  <2>4. n >= 2 => /\ "critical" \in DOMAIN metrics' /\ metrics'["critical"] \in Nat
                  /\ truth'.spike => Reports!Spiked(metrics'["critical"], criticalBefore)
    BY <1>12, <1>13
  <2> HIDE DEF a
  <2>5. n >= 6 => /\ "prevTotal" \in DOMAIN metrics' /\ metrics'["prevTotal"] \in Nat
                  /\ truth'.fewer \/ metrics'["total"] >= metrics'["prevTotal"]
    BY <1>12, <1>14, <2>1
  <2>6. n = 7 => /\ "prevCritical" \in DOMAIN metrics' /\ metrics'["prevCritical"] \in Nat
                 /\ truth'.spike => Reports!Spiked(metrics'["critical"], metrics'["prevCritical"])
    BY <1>12, <1>14, <2>1
  <2> QED BY <1>2, <1>7, <2>2, <2>3, <2>4, <2>5, <2>6 DEF Reports!CountsHold
<1> HIDE DEF a
<1>16. Reports!ReportIsSound'
  BY <1>12 DEF Reports!ReportIsSound
<1> QED BY <1>11, <1>15, <1>16 DEF Reports!IInv

\* What is asked agrees with what there was, so the rules do, and what Claude
\* adds hides at most an insight of the same title.
LEMMA EndReportStep ==
  ASSUME Reports!IInv, Reports!EndReport
  PROVE  Reports!IInv'
<1>1. metrics.asked = 7 /\ Reports!CountsHold
  BY DEF Reports!EndReport, Reports!Queries, Reports!IInv
<1>3. /\ metrics["total"] \in Nat /\ metrics["critical"] \in Nat
      /\ metrics["prevTotal"] \in Nat /\ metrics["prevCritical"] \in Nat
      /\ truth.spike => Reports!Spiked(metrics["critical"], metrics["prevCritical"])
      /\ truth.fewer \/ metrics["total"] >= metrics["prevTotal"]
  BY <1>1 DEF Reports!CountsHold
<1>5. PICK ai \in Reports!AiInsights : report' = Reports!Merged(ai, Reports!RuleBased(metrics))
  BY DEF Reports!EndReport
<1>6. ai \subseteq Reports!Insight /\ \A n \in ai : n.by = "Claude"
  BY <1>5 DEF Reports!AiInsights
<1>7. \A n \in Reports!RuleBased(metrics) : n \in Reports!Insight
  BY DEF Reports!RuleBased, Reports!Volume, Reports!Spike, Reports!AtRisk, Reports!Resolution,
     Reports!Dominant, Reports!Insight, Reports!Rules, Reports!Severities
<1>8. report' \subseteq Reports!Insight
  BY <1>5, <1>6, <1>7 DEF Reports!Merged
<1>9. ASSUME truth.spike
      PROVE  \E n \in report' : n.title = "spike"
  <2> DEFINE spike == [title |-> "spike", category |-> "anomaly", severity |-> "critical", by |-> "rules"]
  <2>1. ~ (metrics["critical"] = 0 \/ metrics["critical"] <= 2 * metrics["prevCritical"])
    BY <1>3, <1>9 DEF Reports!Spiked
  <2>2. spike \in Reports!RuleBased(metrics)
    BY <2>1 DEF Reports!RuleBased, Reports!Spike
  <2>3. spike \in report' \/ \E a \in ai : a.title = "spike"
    BY <1>5, <2>2 DEF Reports!Merged
  <2> QED BY <1>5, <2>3 DEF Reports!Merged
<1>10. ASSUME ~ truth.fewer, NEW n \in report', n.title = "decreased"
       PROVE  n.by = "Claude"
  <2>1. CASE n \in ai
    BY <1>6, <2>1
  <2>2. CASE n \in Reports!RuleBased(metrics)
    <3>1. n \in Reports!Volume(metrics)
      BY <1>10, <2>2 DEF Reports!RuleBased, Reports!Spike, Reports!AtRisk, Reports!Resolution, Reports!Dominant
    <3>2. 100 * (metrics["total"] - metrics["prevTotal"]) <= 0 /\ metrics["prevTotal"] # 0
          /\ ~ (100 * (metrics["total"] - metrics["prevTotal"]) < 20 * metrics["prevTotal"]
                /\ 100 * (metrics["total"] - metrics["prevTotal"]) > -20 * metrics["prevTotal"])
      BY <1>3, <1>10, <3>1 DEF Reports!Volume
    <3> QED BY <1>3, <1>10, <3>2
  <2> QED BY <1>5, <2>1, <2>2 DEF Reports!Merged
<1>11. /\ metrics' = Reports!Undone /\ truth' = truth
       /\ UNCHANGED <<today, status, created, updated, moves, reports>>
  BY DEF Reports!EndReport
<1>12. Reports!TypeOK'
  BY <1>8, <1>11 DEF Reports!IInv, Reports!TypeOK, Reports!Undone, Reports!Queries
<1>13. Reports!CountsHold'
  BY <1>11 DEF Reports!CountsHold, Reports!Undone
<1>14. Reports!ReportIsSound'
  BY <1>9, <1>10, <1>11 DEF Reports!ReportIsSound
<1> QED BY <1>12, <1>13, <1>14 DEF Reports!IInv
-----------------------------------------------------------------------------
\* Until they are counted there are no less critical issues than make the spike
\* there was when the report was begun, or an erasure made an end of it; the
\* period before only loses issues, and the answers so far agree
\* (insights.ts:73-91, 280-380, api/data-management.ts:61-64).
THEOREM ReportsInvariant == Reports!Spec => []Reports!IInv
<1>1. Reports!IInv /\ [Reports!Next]_Reports!vars => Reports!IInv'
  <2> SUFFICES ASSUME Reports!IInv, [Reports!Next]_Reports!vars PROVE Reports!IInv'
    OBVIOUS
  <2>1. CASE Reports!Tick
    BY <2>1, TickReports
  <2>2. CASE Reports!BeginReport
    BY <2>2, BeginReportStep
  <2>3. CASE Reports!Ask
    BY <2>3, AskStep
  <2>4. CASE Reports!EndReport
    BY <2>4, EndReportStep
  <2>5. CASE \E i \in Reports!Issues : Reports!Detect(i)
    BY <2>5, DetectIssue
  <2>6. CASE \E i \in Reports!Issues : \E s \in Reports!Closed \cup {"acknowledged"} : Reports!Handle(i, s)
    BY <2>6, HandleIssue
  <2>8. CASE \E u \in {userOf[i] : i \in Reports!Issues} : Reports!Erase(u)
    BY <2>8, EraseIssues
  <2>7. CASE UNCHANGED Reports!vars
    BY <2>7 DEF Reports!vars, Reports!IInv, Reports!TypeOK, Reports!CountsHold, Reports!ReportIsSound,
       Reports!Before, Reports!Since, Reports!Critical, Reports!Detected
  <2> QED BY <2>1, <2>2, <2>3, <2>4, <2>5, <2>6, <2>7, <2>8 DEF Reports!Next
<1> QED BY <1>1, ReportsInit, PTL DEF Reports!Spec

\* A report names the spike that was there when it was begun, unless an erasure
\* made an end of it before the critical issues were counted, and its rules speak
\* of a decrease only where there was one, whatever is detected, closed or erased
\* between its queries; what Claude says of one is not vouched for
\* (insights.ts:73-91, 378-418, 546-560).
THEOREM ReportHolds == Reports!Spec => []ReportIsSound
<1>1. Reports!IInv => ReportIsSound
  BY DEF Reports!IInv, ReportIsSound
<1> QED BY <1>1, ReportsInvariant, PTL

-----------------------------------------------------------------------------
\* Of finite sets, one has none of the others as a part.
LEMMA LeastSet ==
  ASSUME NEW C, C # {}, \A S \in C : IsFiniteSet(S)
  PROVE  \E S \in C : \A T \in C : T \subseteq S => T = S
<1> DEFINE U == UNION C
<1>1. C \subseteq FiniteSubsetsOf(U)
  BY DEF FiniteSubsetsOf
<1>2. PICK S \in C : \A T \in C : <<T, S>> \notin StrictSubsetOrdering(U)
  BY <1>1, FS_StrictSubsetOrderingWellFounded, WFMin
<1>3. ASSUME NEW T \in C, T \subseteq S PROVE T = S
  BY <1>2, <1>3 DEF StrictSubsetOrdering
<1> QED BY <1>3

\* The sums over the parts of S as the library makes them: one of its elements
\* and the sum of the others.
Any(S) == CHOOSE x \in S : TRUE
Adds(sum, S) ==
  sum = [T \in SUBSET S |-> IF T = {} THEN 0 ELSE centsOf[Any(T)] + sum[T \ {Any(T)}]]

LEMMA CentsAre ==
  ASSUME NEW S
  PROVE  Reports!Cents(S) = (CHOOSE sum : Adds(sum, S))[S]
<1> DEFINE Fits(sum) == sum = [T \in SUBSET S |->
                                IF T = {} THEN 0
                                ELSE LET x == CHOOSE x \in T : TRUE IN centsOf[x] + sum[T \ {x}]]
<1>1. Reports!Cents(S) = (CHOOSE sum : Fits(sum))[S]
  BY DEF Reports!Cents, Reports!MapThenSumSet, Reports!MapThenFoldSet
<1>2. \A sum : Fits(sum) <=> Adds(sum, S)
  BY DEF Adds, Any
<1> HIDE DEF Fits
<1>3. (CHOOSE sum : Fits(sum)) = (CHOOSE sum : Adds(sum, S))
  BY <1>2
<1> QED BY <1>1, <1>3

LEMMA AnyIsOne == \A S : S # {} => Any(S) \in S
  BY DEF Any

\* There is one sum at most.
LEMMA OneSum ==
  ASSUME NEW R, NEW S, NEW sum, NEW other, Adds(sum, R), Adds(other, S),
         NEW T \in SUBSET R, T \subseteq S, IsFiniteSet(T)
  PROVE  sum[T] = other[T]
<1> DEFINE C == {U \in SUBSET T : sum[U] # other[U]}
<1> SUFFICES ASSUME C # {} PROVE FALSE
  OBVIOUS
<1>0. \A U : U \in C <=> U \in SUBSET T /\ (sum[U] # other[U])
  OBVIOUS
<1> HIDE DEF C
<1>1. \A U \in C : IsFiniteSet(U)
  BY <1>0, FS_Subset
<1>2. PICK U \in C : \A V \in C : V \subseteq U => V = U
  BY <1>1, LeastSet
<1>3. /\ sum[U] = IF U = {} THEN 0 ELSE centsOf[Any(U)] + sum[U \ {Any(U)}]
      /\ other[U] = IF U = {} THEN 0 ELSE centsOf[Any(U)] + other[U \ {Any(U)}]
  <2>1. U \in SUBSET R /\ U \in SUBSET S
    BY <1>0
  <2> QED BY <2>1 DEF Adds
<1>4. U # {}
  BY <1>0, <1>3
<1>5. U \ {Any(U)} \notin C
  BY <1>2, <1>4, AnyIsOne
<1>6. sum[U \ {Any(U)}] = other[U \ {Any(U)}]
  BY <1>0, <1>5
<1> QED BY <1>0, <1>3, <1>6

\* ... and there is one.
LEMMA SomeSum ==
  ASSUME NEW S, IsFiniteSet(S)
  PROVE  \E sum : Adds(sum, S)
<1> DEFINE C == {T \in SUBSET S : ~ \E sum : Adds(sum, T)}
<1> SUFFICES ASSUME C # {} PROVE FALSE
  OBVIOUS
<1>0. \A T : T \in C <=> T \in SUBSET S /\ (~ \E sum : Adds(sum, T))
  OBVIOUS
<1> HIDE DEF C
<1>1. \A T \in C : IsFiniteSet(T)
  BY <1>0, FS_Subset
<1>2. PICK T \in C : \A U \in C : U \subseteq T => U = T
  BY <1>1, LeastSet
<1>3. \A U \in SUBSET T : U # T => \E sum : Adds(sum, U)
  BY <1>0, <1>2
<1> DEFINE Of(U) == CHOOSE sum : Adds(sum, U)
<1>4. \A U \in SUBSET T : U # T => Adds(Of(U), U)
  BY <1>3
<1> HIDE DEF Of
<1>5. ASSUME NEW U \in SUBSET T, U # T
      PROVE  Of(U)[U] = IF U = {} THEN 0 ELSE centsOf[Any(U)] + Of(U \ {Any(U)})[U \ {Any(U)}]
  <2>1. Of(U)[U] = IF U = {} THEN 0 ELSE centsOf[Any(U)] + Of(U)[U \ {Any(U)}]
    BY <1>4, <1>5 DEF Adds
  <2>2. CASE U # {}
    <3>1. U \ {Any(U)} \in SUBSET T /\ U \ {Any(U)} # T /\ U \ {Any(U)} \in SUBSET U
      BY <1>5, <2>2
    <3>2. IsFiniteSet(U \ {Any(U)})
      BY <3>1, <1>1, FS_Subset
    <3>3. Adds(Of(U), U) /\ Adds(Of(U \ {Any(U)}), U \ {Any(U)})
      BY <1>4, <1>5, <3>1
    <3>4. Of(U)[U \ {Any(U)}] = Of(U \ {Any(U)})[U \ {Any(U)}]
      BY <3>1, <3>2, <3>3, OneSum
    <3> QED BY <2>1, <3>4
  <2> QED BY <2>1, <2>2
<1> DEFINE last == IF T = {} THEN 0 ELSE centsOf[Any(T)] + Of(T \ {Any(T)})[T \ {Any(T)}]
           sum == [U \in SUBSET T |-> IF U = T THEN last ELSE Of(U)[U]]
<1>6. ASSUME NEW U \in SUBSET T
      PROVE  sum[U] = IF U = {} THEN 0 ELSE centsOf[Any(U)] + sum[U \ {Any(U)}]
  <2>1. U # {} => U \ {Any(U)} \in SUBSET T /\ U \ {Any(U)} # T
    BY AnyIsOne
  <2>2. U # {} => sum[U \ {Any(U)}] = Of(U \ {Any(U)})[U \ {Any(U)}]
    BY <2>1
  <2>3. CASE U = T
    BY <2>2, <2>3
  <2>4. CASE U # T
    BY <1>5, <2>2, <2>4
  <2> QED BY <2>3, <2>4
<1>7. sum = [U \in SUBSET T |-> sum[U]]
  OBVIOUS
<1> HIDE DEF sum
<1>8. Adds(sum, T)
  BY <1>6, <1>7 DEF Adds
<1> QED BY <1>0, <1>8

\* What a set of issues comes to is what one of them does and what the others do.
LEMMA CentsOfAny ==
  ASSUME NEW S, IsFiniteSet(S)
  PROVE  Reports!Cents(S) = IF S = {} THEN 0
                            ELSE centsOf[Any(S)] + Reports!Cents(S \ {Any(S)})
<1> DEFINE Of(T) == CHOOSE sum : Adds(sum, T)
<1>1. \A T \in SUBSET S : Adds(Of(T), T) /\ IsFiniteSet(T)
  BY SomeSum, FS_Subset
<1>2. \A T : Reports!Cents(T) = Of(T)[T]
  BY CentsAre
<1> HIDE DEF Of
<1>3. Of(S)[S] = IF S = {} THEN 0 ELSE centsOf[Any(S)] + Of(S)[S \ {Any(S)}]
  <2>1. Adds(Of(S), S)
    BY <1>1
  <2> QED BY <2>1 DEF Adds
<1>4. Of(S)[S \ {Any(S)}] = Of(S \ {Any(S)})[S \ {Any(S)}]
  BY <1>1, OneSum
<1> QED BY <1>2, <1>3, <1>4

LEMMA CentsAreNumbers ==
  ASSUME NEW S, IsFiniteSet(S), \A i \in S : centsOf[i] \in Nat
  PROVE  Reports!Cents(S) \in Nat
<1> DEFINE C == {T \in SUBSET S : Reports!Cents(T) \notin Nat}
<1> SUFFICES ASSUME C # {} PROVE FALSE
  OBVIOUS
<1>0. \A T : T \in C <=> T \in SUBSET S /\ (Reports!Cents(T) \notin Nat)
  OBVIOUS
<1> HIDE DEF C
<1>1. \A T \in SUBSET S : IsFiniteSet(T)
  BY FS_Subset
<1>2. PICK T \in C : \A U \in C : U \subseteq T => U = T
  BY <1>0, <1>1, LeastSet
<1>3. Reports!Cents(T) = IF T = {} THEN 0 ELSE centsOf[Any(T)] + Reports!Cents(T \ {Any(T)})
  BY <1>0, <1>1, CentsOfAny
<1>4. T # {} /\ Any(T) \in S
  BY <1>0, <1>3, AnyIsOne
<1>5. Reports!Cents(T \ {Any(T)}) \in Nat
  BY <1>0, <1>2, <1>4, AnyIsOne
<1>6. centsOf[Any(T)] + Reports!Cents(T \ {Any(T)}) \in Nat
  BY <1>4, <1>5
<1> QED BY <1>0, <1>3, <1>4, <1>6

\* ... whichever is taken first.
LEMMA CentsOfOne ==
  ASSUME NEW S, IsFiniteSet(S), \A i \in S : centsOf[i] \in Nat, NEW x \in S
  PROVE  Reports!Cents(S) = centsOf[x] + Reports!Cents(S \ {x})
<1> DEFINE C == {T \in SUBSET S : \E i \in T : Reports!Cents(T) # centsOf[i] + Reports!Cents(T \ {i})}
<1> SUFFICES ASSUME C # {} PROVE FALSE
  OBVIOUS
<1>0. \A T : T \in C <=> T \in SUBSET S /\ (\E i \in T : Reports!Cents(T) # centsOf[i] + Reports!Cents(T \ {i}))
  OBVIOUS
<1> HIDE DEF C
<1>1. \A T \in SUBSET S : IsFiniteSet(T) /\ Reports!Cents(T) \in Nat
  BY FS_Subset, CentsAreNumbers
<1>2. PICK T \in C : \A U \in C : U \subseteq T => U = T
  BY <1>0, <1>1, LeastSet
<1>3. PICK i \in T : Reports!Cents(T) # centsOf[i] + Reports!Cents(T \ {i})
  BY <1>0
<1>4. PICK y : y = Any(T)
  OBVIOUS
<1>5. y \in T
  BY <1>3, <1>4, AnyIsOne
<1>6. Reports!Cents(T) = centsOf[y] + Reports!Cents(T \ {y})
  BY <1>0, <1>1, <1>4, <1>5, CentsOfAny
<1>7. y # i
  BY <1>3, <1>6
<1>8. T \ {y} \notin C /\ T \ {i} \notin C /\ i \in T \ {y} /\ y \in T \ {i}
  BY <1>0, <1>2, <1>3, <1>5, <1>7
<1>9. Reports!Cents(T \ {y}) = centsOf[i] + Reports!Cents((T \ {y}) \ {i})
  BY <1>0, <1>8
<1>10. Reports!Cents(T \ {i}) = centsOf[y] + Reports!Cents((T \ {i}) \ {y})
  BY <1>0, <1>8
<1>11. (T \ {y}) \ {i} = (T \ {i}) \ {y}
  OBVIOUS
<1>12. PICK rest : rest = Reports!Cents((T \ {y}) \ {i})
  OBVIOUS
<1>13. centsOf[i] \in Nat /\ centsOf[y] \in Nat /\ rest \in Nat
  BY <1>0, <1>1, <1>3, <1>5, <1>12
<1>14. PICK ci \in Nat, cy \in Nat : ci = centsOf[i] /\ cy = centsOf[y]
  BY <1>13
<1>15. Reports!Cents(T) = cy + (ci + rest) /\ centsOf[i] + Reports!Cents(T \ {i}) = ci + (cy + rest)
  BY <1>6, <1>9, <1>10, <1>11, <1>12, <1>14
<1>16. cy + (ci + rest) = ci + (cy + rest)
  BY <1>13, <1>14
<1> QED BY <1>3, <1>15, <1>16

\* Clusters as functions of the times d of detection: what begins one, and what
\* is in the one that begins at s.
Starts(d, ids) ==
  {d[i] : i \in {j \in ids : \A k \in ids : d[k] >= d[j] \/ d[k] < d[j] - Window}}
Stretch(d, ids, s) == {i \in ids : d[i] >= s /\ \A t \in Starts(d, ids) : t > s => d[i] < t}

\* A cluster that grows at its end keeps its beginning and its issues.
LEMMA ClustersGrow ==
  ASSUME NEW d, NEW e, NEW ids, NEW more, ids \subseteq more, Window \in Nat,
         \A i \in ids : d[i] \in Int /\ e[i] = d[i],
         NEW last \in Int, \A i \in more \ ids : e[i] = last,
         \A i \in ids : d[i] <= last,
         NEW s \in Starts(d, ids)
  PROVE  /\ s \in Starts(e, more)
         /\ Stretch(d, ids, s) \subseteq Stretch(e, more, s)
         /\ Stretch(e, more, s) \cap ids \subseteq Stretch(d, ids, s)
<1>1. \A t : t \in Starts(d, ids) <=>
        \E i \in ids : t = d[i] /\ \A k \in ids : d[k] >= d[i] \/ d[k] < d[i] - Window
  BY DEF Starts
<1>2. \A t : t \in Starts(e, more) <=>
        \E i \in more : t = e[i] /\ \A k \in more : e[k] >= e[i] \/ e[k] < e[i] - Window
  BY DEF Starts
<1>3. Starts(d, ids) \subseteq Starts(e, more)
  <2> SUFFICES ASSUME NEW t \in Starts(d, ids) PROVE t \in Starts(e, more)
    OBVIOUS
  <2>1. PICK i \in ids : t = d[i] /\ \A k \in ids : d[k] >= d[i] \/ d[k] < d[i] - Window
    BY <1>1
  <2>2. e[i] = d[i] /\ i \in more
    OBVIOUS
  <2>3. \A k \in more : e[k] >= e[i] \/ e[k] < e[i] - Window
    <3> SUFFICES ASSUME NEW k \in more PROVE e[k] >= e[i] \/ e[k] < e[i] - Window
      OBVIOUS
    <3>1. CASE k \in ids
      BY <2>1, <2>2, <3>1
    <3>2. CASE k \notin ids
      BY <2>2, <3>2
    <3> QED BY <3>1, <3>2
  <2> QED BY <1>2, <2>1, <2>2, <2>3
<1>4. ASSUME NEW i \in Stretch(d, ids, s) PROVE i \in Stretch(e, more, s)
  <2>1. i \in ids /\ d[i] >= s /\ \A t \in Starts(d, ids) : t > s => d[i] < t
    BY DEF Stretch
  <2>2. i \in more /\ e[i] = d[i] /\ d[i] \in Int /\ d[i] <= last
    BY <2>1
  <2>3. ASSUME NEW t \in Starts(e, more), t > s PROVE e[i] < t
    <3>1. PICK j \in more : t = e[j] /\ \A k \in more : e[k] >= e[j] \/ e[k] < e[j] - Window
      BY <1>2
    \* A cluster that begins with a new issue has no older one in its window.
    <3>2. CASE j \notin ids
      <4>1. t = last
        BY <3>1, <3>2
      <4>2. CASE d[i] = last
        <5>1. \A k \in ids : d[k] >= d[i] \/ d[k] < d[i] - Window
          BY <3>1, <4>1, <4>2
        <5>2. t \in Starts(d, ids)
          BY <1>1, <2>1, <4>1, <4>2, <5>1
        <5> QED BY <2>1, <2>2, <2>3, <5>2
      <4>3. CASE d[i] # last
        BY <2>2, <4>1, <4>3
      <4> QED BY <4>2, <4>3
    <3>3. CASE j \in ids
      <4>1. t = d[j] /\ \A k \in ids : d[k] >= d[j] \/ d[k] < d[j] - Window
        BY <3>1, <3>3
      <4>2. t \in Starts(d, ids)
        BY <1>1, <3>3, <4>1
      <4> QED BY <2>1, <2>2, <2>3, <4>2
    <3> QED BY <3>2, <3>3
  <2> QED BY <2>1, <2>2, <2>3 DEF Stretch
<1>5. Stretch(e, more, s) \cap ids \subseteq Stretch(d, ids, s)
  BY <1>3 DEF Stretch
<1> QED BY <1>3, <1>4, <1>5

\* An incident that gains an issue is of more cents and no fewer users, and so
\* no less severe.
LEMMA SeverityGrows ==
  ASSUME NEW T \in SUBSET DOMAIN typeOf, NEW S \in SUBSET T, NEW i, T \subseteq S \cup {i},
         Reports!Cardinality(T) < AiSize,
         NEW a \in Reports!SeveritiesOf(S), NEW b \in Reports!SeveritiesOf(T)
  PROVE  Reports!Level[b] >= Reports!Level[a]
<1>1. /\ IsFiniteSet(S) /\ IsFiniteSet(T) /\ \A j \in T : centsOf[j] \in Nat
      /\ {AiSize, SomeCents, SomeUsers} \subseteq Nat
  BY CountsAreNumbers, ServicesAssumption DEF ServicesAssumption, Reports!Parameters
<1>2. Reports!Cardinality(S) < AiSize
  BY <1>1, CountsAreNumbers, CountsGrow
<1>3. Reports!Cents(S) \in Nat /\ Reports!Cents(T) \in Nat /\ Reports!Cents(S) <= Reports!Cents(T)
  <2>1. Reports!Cents(S) \in Nat /\ Reports!Cents(T) \in Nat
    BY <1>1, CentsAreNumbers
  <2>2. CASE T = S
    BY <2>1, <2>2
  <2>3. CASE T # S
    <3>1. i \in T /\ T \ {i} = S
      BY <2>3
    <3>2. Reports!Cents(T) = centsOf[i] + Reports!Cents(S)
      BY <1>1, <3>1, CentsOfOne
    <3> QED BY <1>1, <2>1, <3>1, <3>2
  <2> QED BY <2>2, <2>3
<1>4. Reports!Users(S) \in Nat /\ Reports!Users(T) \in Nat /\ Reports!Users(S) <= Reports!Users(T)
  <2> DEFINE U == {userOf[j] : j \in T}
             V == {userOf[j] : j \in S} \ {NoUser}
             f == [j \in T |-> userOf[j]]
  <2>1. f \in Surjection(T, U)
    BY DEF Surjection
  <2>2. IsFiniteSet(U)
    BY <1>1, <2>1, FS_Surjection
  <2>3. V \in SUBSET (U \ {NoUser}) /\ U \ {NoUser} \in SUBSET U
    OBVIOUS
  <2>4. Reports!Users(S) = Cardinality(V) /\ Reports!Users(T) = Cardinality(U \ {NoUser})
    BY ReportsCardinality DEF Reports!Users
  <2> HIDE DEF U, V
  <2> QED BY <2>2, <2>3, <2>4, FS_Subset, FS_CardinalityType
<1>5. a = Reports!SeverityOf(S) /\ b = Reports!SeverityOf(T)
  BY <1>1, <1>2, CountsAreNumbers DEF Reports!SeveritiesOf
<1>6. PICK c \in Nat, d \in Nat, u \in Nat, v \in Nat, k \in Nat, m \in Nat :
        /\ c = Reports!Cents(S) /\ d = Reports!Cents(T) /\ c <= d
        /\ u = Reports!Users(S) /\ v = Reports!Users(T) /\ u <= v
        /\ k = SomeCents /\ m = SomeUsers
  BY <1>1, <1>3, <1>4
<1>7. /\ a = IF c > 10 * k \/ u > 3 * m + 1 THEN "critical"
             ELSE IF c > k \/ u > m THEN "warning" ELSE "info"
      /\ b = IF d > 10 * k \/ v > 3 * m + 1 THEN "critical"
             ELSE IF d > k \/ v > m THEN "warning" ELSE "info"
  BY <1>5, <1>6 DEF Reports!SeverityOf
<1>8. Reports!Level["info"] = 1 /\ Reports!Level["warning"] = 2 /\ Reports!Level["critical"] = 3
  BY DEF Reports!Level
<1> QED BY <1>6, <1>7, <1>8

\* The incidents, from the times of detection and the issues that count.
IncidentAt(type, s, ids) ==
  [type |-> type, start |-> s, issues |-> ids, severities |-> Reports!SeveritiesOf(ids)]
OfType(ids, type) == {i \in ids : typeOf[i] = type}

IncidentsAre(incidents, d, ids) ==
  \A n : n \in incidents <=>
    \E type \in Reports!Types : \E s \in Starts(d, OfType(ids, type)) :
      /\ Reports!Cardinality(Stretch(d, OfType(ids, type), s)) >= MinCluster
      /\ n = IncidentAt(type, s, Stretch(d, OfType(ids, type), s))

LEMMA Incidents == IncidentsAre(Reports!Incidents, created, Reports!Candidates)
<1>1. \A ids : Reports!Clusters(ids) =
        {[start |-> s, issues |-> Stretch(created, ids, s)] : s \in Starts(created, ids)}
  BY DEF Reports!Clusters, Reports!Begins, Starts, Stretch
<1>2. \A type : Reports!IncidentsOf(type) =
        {[type |-> type, start |-> c.start, issues |-> c.issues, severities |-> Reports!SeveritiesOf(c.issues)] :
           c \in {x \in Reports!Clusters(OfType(Reports!Candidates, type)) :
                    Reports!Cardinality(x.issues) >= MinCluster}}
  BY DEF Reports!IncidentsOf, OfType
<1>3. ASSUME NEW type, NEW n
      PROVE  n \in Reports!IncidentsOf(type) <=>
               \E s \in Starts(created, OfType(Reports!Candidates, type)) :
                 /\ Reports!Cardinality(Stretch(created, OfType(Reports!Candidates, type), s)) >= MinCluster
                 /\ n = IncidentAt(type, s, Stretch(created, OfType(Reports!Candidates, type), s))
  <2>1. PICK ids : ids = OfType(Reports!Candidates, type)
    OBVIOUS
  <2>2. n \in Reports!IncidentsOf(type) <=>
          \E c \in Reports!Clusters(ids) :
            /\ Reports!Cardinality(c.issues) >= MinCluster
            /\ n = IncidentAt(type, c.start, c.issues)
    BY <1>2, <2>1 DEF IncidentAt
  <2>3. \A c : c \in Reports!Clusters(ids) <=>
          \E s \in Starts(created, ids) : c = [start |-> s, issues |-> Stretch(created, ids, s)]
    BY <1>1
  <2>4. (\E c \in Reports!Clusters(ids) :
            /\ Reports!Cardinality(c.issues) >= MinCluster
            /\ n = IncidentAt(type, c.start, c.issues))
         <=> \E s \in Starts(created, ids) :
               /\ Reports!Cardinality(Stretch(created, ids, s)) >= MinCluster
               /\ n = IncidentAt(type, s, Stretch(created, ids, s))
    <3>1. ASSUME NEW c \in Reports!Clusters(ids), Reports!Cardinality(c.issues) >= MinCluster,
                 n = IncidentAt(type, c.start, c.issues)
          PROVE  \E s \in Starts(created, ids) :
                   /\ Reports!Cardinality(Stretch(created, ids, s)) >= MinCluster
                   /\ n = IncidentAt(type, s, Stretch(created, ids, s))
      <4>1. PICK s \in Starts(created, ids) : c = [start |-> s, issues |-> Stretch(created, ids, s)]
        BY <2>3
      <4>2. c.start = s /\ c.issues = Stretch(created, ids, s)
        BY <4>1
      <4> QED BY <3>1, <4>2
    <3>2. ASSUME NEW s \in Starts(created, ids),
                 Reports!Cardinality(Stretch(created, ids, s)) >= MinCluster,
                 n = IncidentAt(type, s, Stretch(created, ids, s))
          PROVE  \E c \in Reports!Clusters(ids) :
                   /\ Reports!Cardinality(c.issues) >= MinCluster
                   /\ n = IncidentAt(type, c.start, c.issues)
      <4>1. PICK c : c = [start |-> s, issues |-> Stretch(created, ids, s)]
        OBVIOUS
      <4>2. c \in Reports!Clusters(ids) /\ c.start = s /\ c.issues = Stretch(created, ids, s)
        BY <2>3, <4>1
      <4> QED BY <3>2, <4>2
    <3> QED BY <3>1, <3>2
  <2> QED BY <2>1, <2>2, <2>4
<1> QED BY <1>3 DEF Reports!Incidents, IncidentsAre

\* From the issues ids to the issues more, which are these and maybe i: what is
\* new was detected last.
Grows(d, e, ids, more, i, last) ==
  /\ ids \subseteq more /\ more \subseteq DOMAIN typeOf /\ more \subseteq ids \cup {i}
  /\ last \in Int
  /\ \A j \in ids : d[j] \in Int /\ e[j] = d[j] /\ d[j] <= last
  /\ \A j \in more \ ids : e[j] = last

\* The incident m is the incident n at a later look.
IsStill(m, n) ==
  /\ m.type = n.type /\ m.start = n.start /\ n.issues \subseteq m.issues
  /\ Reports!Cardinality(m.issues) < AiSize =>
       \A s \in n.severities, t \in m.severities : Reports!Level[t] >= Reports!Level[s]

\* What is detected keeps its incident, whatever is detected next.
LEMMA IncidentsGrow ==
  ASSUME NEW old, NEW new, NEW d, NEW e, NEW ids, NEW more, NEW i, NEW last,
         Grows(d, e, ids, more, i, last),
         IncidentsAre(old, d, ids), IncidentsAre(new, e, more), NEW n \in old
  PROVE  \E m \in new : IsStill(m, n)
<1>0. /\ ids \subseteq more /\ more \subseteq DOMAIN typeOf /\ more \subseteq ids \cup {i}
      /\ last \in Int
      /\ \A j \in ids : d[j] \in Int /\ e[j] = d[j] /\ d[j] <= last
      /\ \A j \in more \ ids : e[j] = last
  BY DEF Grows
<1>1. PICK type \in Reports!Types : \E s \in Starts(d, OfType(ids, type)) :
        /\ Reports!Cardinality(Stretch(d, OfType(ids, type), s)) >= MinCluster
        /\ n = IncidentAt(type, s, Stretch(d, OfType(ids, type), s))
  BY DEF IncidentsAre
<1>2. PICK these, those : these = OfType(ids, type) /\ those = OfType(more, type)
  OBVIOUS
<1>3. PICK s \in Starts(d, these) :
        /\ Reports!Cardinality(Stretch(d, these, s)) >= MinCluster
        /\ n = IncidentAt(type, s, Stretch(d, these, s))
  BY <1>1, <1>2
<1>4. these \subseteq those /\ those \subseteq these \cup {i} /\ those \in SUBSET DOMAIN typeOf
      /\ \A j \in those : j \in these <=> j \in ids
  BY <1>0, <1>2 DEF OfType
<1>5. Window \in Nat /\ MinCluster \in Nat
  BY ServicesAssumption DEF ServicesAssumption, Reports!Parameters
<1>6. PICK R, S : R = Stretch(d, these, s) /\ S = Stretch(e, those, s)
  OBVIOUS
<1>7. /\ s \in Starts(e, those) /\ R \subseteq S /\ S \cap these \subseteq R
  <2>1. \A j \in these : d[j] \in Int /\ e[j] = d[j] /\ d[j] <= last
    BY <1>0, <1>2 DEF OfType
  <2>2. \A j \in those \ these : e[j] = last
    BY <1>0, <1>2, <1>4 DEF OfType
  <2> QED BY <1>0, <1>4, <1>5, <1>6, <2>1, <2>2, ClustersGrow
<1>8. S \subseteq those
  BY <1>6 DEF Stretch
<1>9. S \in SUBSET DOMAIN typeOf /\ R \in SUBSET S /\ S \subseteq R \cup {i}
  BY <1>4, <1>7, <1>8
<1>10. Reports!Cardinality(S) >= MinCluster
  BY <1>3, <1>5, <1>6, <1>9, CountsGrow, CountsAreNumbers
<1>11. PICK m : m = IncidentAt(type, s, S)
  OBVIOUS
<1>12. m \in new
  BY <1>2, <1>6, <1>7, <1>10, <1>11 DEF IncidentsAre
<1>13. /\ m.type = type /\ m.start = s /\ m.issues = S /\ m.severities = Reports!SeveritiesOf(S)
       /\ n.type = type /\ n.start = s /\ n.issues = R /\ n.severities = Reports!SeveritiesOf(R)
  BY <1>3, <1>6, <1>11 DEF IncidentAt
<1>14. ASSUME Reports!Cardinality(S) < AiSize, NEW a \in Reports!SeveritiesOf(R),
              NEW b \in Reports!SeveritiesOf(S)
       PROVE  Reports!Level[b] >= Reports!Level[a]
  BY <1>9, <1>14, SeverityGrows
<1> QED BY <1>7, <1>12, <1>13, <1>14 DEF IsStill

\* Nothing was detected after now.
DetectedByNow == \A i \in DOMAIN typeOf : created[i] <= today

LEMMA DetectedByNowStep ==
  ASSUME Reports!IInv, DetectedByNow, [Reports!Next]_Reports!vars
  PROVE  DetectedByNow'
<1>1. today \in Int /\ created \in [DOMAIN typeOf -> Int]
  BY ReportsParameters DEF Reports!IInv, Reports!TypeOK, Reports!Issues
<1>2. ASSUME NEW i \in Reports!Issues, Reports!Detect(i) PROVE DetectedByNow'
  BY <1>1, <1>2 DEF Reports!Detect, DetectedByNow, Reports!Issues
<1>3. CASE Reports!Tick
  BY <1>1, <1>3 DEF Reports!Tick, DetectedByNow
<1>4. CASE Reports!BeginReport \/ Reports!Ask \/ Reports!EndReport \/ UNCHANGED Reports!vars
  BY <1>4 DEF Reports!BeginReport, Reports!Ask, Reports!EndReport, Reports!vars, DetectedByNow
<1>5. ASSUME NEW i \in Reports!Issues, NEW s, Reports!Handle(i, s) PROVE DetectedByNow'
  BY <1>5 DEF Reports!Handle, DetectedByNow
<1>6. ASSUME NEW u, Reports!Erase(u) PROVE DetectedByNow'
  BY <1>6 DEF Reports!Erase, DetectedByNow
<1> QED BY <1>2, <1>3, <1>4, <1>5, <1>6 DEF Reports!Next

\* What may happen between two looks at the incidents: one issue is detected,
\* or none, and what was detected is not detected again.
LEMMA DetectedNext ==
  ASSUME Reports!IInv, DetectedByNow, [Reports!Next]_Reports!vars,
         ~ (today' = today /\ status' = status)
  PROVE  \E i : /\ Reports!Detected' \subseteq Reports!Detected \cup {i}
                /\ \A j \in Reports!Detected : created'[j] = created[j]
                /\ \A j \in Reports!Detected' \ Reports!Detected : created'[j] = today
<1>1. status \in [DOMAIN typeOf -> {"none", "erased"} \cup Reports!Live \cup Reports!Closed]
      /\ created \in [DOMAIN typeOf -> Nat]
  BY ReportsParameters DEF Reports!IInv, Reports!TypeOK, Reports!Issues
<1>2. ASSUME NEW i \in Reports!Issues, Reports!Detect(i)
      PROVE  /\ Reports!Detected' \subseteq Reports!Detected \cup {i}
             /\ \A j \in Reports!Detected : created'[j] = created[j]
             /\ \A j \in Reports!Detected' \ Reports!Detected : created'[j] = today
  BY <1>1, <1>2 DEF Reports!Detect, Reports!Detected, Reports!Issues
<1>3. ASSUME NEW i \in Reports!Issues, NEW s, Reports!Handle(i, s)
      PROVE  /\ Reports!Detected' \subseteq Reports!Detected
             /\ created' = created
  BY <1>1, <1>3 DEF Reports!Handle, Reports!Detected, Reports!Issues
<1>4. ASSUME Reports!Tick
      PROVE  /\ Reports!Detected' \subseteq Reports!Detected
             /\ created' = created
  BY <1>4 DEF Reports!Tick, Reports!Detected
<1>5. CASE Reports!BeginReport \/ Reports!Ask \/ Reports!EndReport \/ UNCHANGED Reports!vars
  BY <1>5 DEF Reports!BeginReport, Reports!Ask, Reports!EndReport, Reports!vars
<1>6. ASSUME NEW u, Reports!Erase(u)
      PROVE  /\ Reports!Detected' \subseteq Reports!Detected
             /\ created' = created
  BY <1>1, <1>6 DEF Reports!Erase, Reports!Detected, Reports!Issues
<1> QED BY <1>2, <1>3, <1>4, <1>5, <1>6 DEF Reports!Next

\* Between two moments at which no live issue was closed, erased or too old and
\* none taken up again, an incident keeps its name and its issues, whatever was
\* detected; while it is too small for Claude it gets no less severe.  What
\* alters an incident's name, its first issue gone or one taken up before it, is
\* outside (grouper.ts:105-132, 163-177, 199-223).
THEOREM IncidentsKeepTheirNames == Reports!Spec => IncidentKeepsItsName
<1>1. Reports!Init => DetectedByNow
  BY DEF Reports!Init, DetectedByNow, Reports!Issues
<1>2. Reports!IInv /\ DetectedByNow /\ [Reports!Next]_Reports!vars => DetectedByNow'
  BY DetectedByNowStep
<1>3. IncidentsAre(Reports!Incidents, created, Reports!Candidates)'
  BY Incidents, PTL
<1>4. ASSUME Reports!IInv, DetectedByNow, [Reports!Next]_Reports!vars,
             ~ (today' = today /\ status' = status),
             Reports!Candidates \subseteq Reports!Candidates',
             Reports!Candidates' \cap Reports!Detected \subseteq Reports!Candidates,
             NEW n \in Reports!Incidents
      PROVE  \E m \in Reports!Incidents' : IsStill(m, n)
  <2>1. PICK i : /\ Reports!Detected' \subseteq Reports!Detected \cup {i}
                 /\ \A j \in Reports!Detected : created'[j] = created[j]
                 /\ \A j \in Reports!Detected' \ Reports!Detected : created'[j] = today
    BY <1>4, DetectedNext
  <2>2. PICK old, new, d, e, ids, more, last :
          /\ old = Reports!Incidents /\ new = Reports!Incidents'
          /\ d = created /\ e = created'
          /\ ids = Reports!Candidates /\ more = Reports!Candidates' /\ last = today
    OBVIOUS
  <2>3. IncidentsAre(old, d, ids) /\ IncidentsAre(new, e, more)
    BY <1>3, <2>2, Incidents
  <2>4. /\ ids \subseteq Reports!Detected /\ more \subseteq Reports!Detected'
        /\ Reports!Detected \subseteq DOMAIN typeOf /\ Reports!Detected' \subseteq DOMAIN typeOf
    BY <2>2 DEF Reports!Candidates, Reports!Detected, Reports!Issues
  <2>5. more \subseteq DOMAIN typeOf /\ ids \subseteq more /\ more \subseteq ids \cup {i}
    BY <1>4, <2>1, <2>2, <2>4
  <2>6. last \in Int /\ \A j \in ids : d[j] \in Int /\ e[j] = d[j] /\ d[j] <= last
    BY <1>4, <2>1, <2>2, <2>4, ReportsParameters
       DEF Reports!IInv, Reports!TypeOK, Reports!Issues, DetectedByNow
  <2>7. \A j \in more \ ids : e[j] = last
    BY <1>4, <2>1, <2>2, <2>4
  <2>8. Grows(d, e, ids, more, i, last)
    BY <2>5, <2>6, <2>7 DEF Grows
  <2>9. n \in old
    BY <1>4, <2>2
  <2>10. \E m \in new : IsStill(m, n)
    BY <2>3, <2>8, <2>9, IncidentsGrow
  <2> QED BY <2>2, <2>10
<1>5. Reports!IInv /\ DetectedByNow /\ [Reports!Next]_Reports!vars =>
        [Reports!Candidates \subseteq Reports!Candidates'
           /\ Reports!Candidates' \cap Reports!Detected \subseteq Reports!Candidates
         => \A n \in Reports!Incidents : \E m \in Reports!Incidents' :
              /\ m.type = n.type /\ m.start = n.start /\ n.issues \subseteq m.issues
              /\ Reports!Cardinality(m.issues) < AiSize =>
                   \A s \in n.severities, t \in m.severities :
                     Reports!Level[t] >= Reports!Level[s]]_<<today, status>>
  BY <1>4 DEF IsStill
<1> QED BY <1>1, <1>2, <1>5, ReportsInvariant, PTL
        DEF Reports!Spec, IncidentKeepsItsName, Reports!IncidentKeepsItsName
-----------------------------------------------------------------------------
(***************************************************************************)
(* The circuit breaker, for any number of calls, any thresholds and any    *)
(* timeout.                                                                *)
(***************************************************************************)
Thresholds ==
  /\ failureThreshold \in Nat \ {0} /\ resetTimeout \in Nat \ {0}
  /\ halfOpenMaxAttempts \in Nat \ {0}
  /\ Never \notin Nat /\ MaxResets \in Nat

\* The parameters, one by one (the thresholds of the breaker).
LEMMA ThresholdsAreNaturals == Thresholds
BY ServicesAssumption DEF ServicesAssumption, Breaker!Parameters, Thresholds

\* A failure moves the fields of the breaker to well-typed ones, and opens a
\* closed breaker only at the threshold (circuit-breaker.ts:79-93).
LEMMA BreakerFailureStep ==
  ASSUME Breaker!IInv, NEW c \in ProviderCalls, Breaker!Fail(c)
  PROVE  Breaker!IInv' /\ (state = "CLOSED" /\ state' = "OPEN" => streak' = failureThreshold)
<1> USE ThresholdsAreNaturals DEF Thresholds
<1>1. /\ running' \subseteq ProviderCalls /\ healthy' \in BOOLEAN /\ resets' \in Nat
      /\ lastFailure' = 0 /\ streak' \in 0..failureThreshold
      /\ opened' \in 0..resetTimeout
  BY DEF Breaker!IInv, Breaker!TypeOK, Breaker!Fail, Breaker!Answer, Breaker!OnFailure, Breaker!UpTo
<1>2. CASE state = "HALF_OPEN" /\ Breaker!TransitionTo("OPEN", failureCount)
  BY <1>1, <1>2
  DEF Breaker!IInv, Breaker!TypeOK, Breaker!Fail, Breaker!TransitionTo, Breaker!CountsTheStreak,
    Breaker!ClockSinceOpening
<1>3. CASE /\ state # "HALF_OPEN" /\ failureCount + 1 >= failureThreshold
           /\ Breaker!TransitionTo("OPEN", failureThreshold)
  <2>1. Breaker!TypeOK' /\ Breaker!CountsTheStreak'
    BY <1>1, <1>3 DEF Breaker!IInv, Breaker!TypeOK, Breaker!TransitionTo, Breaker!CountsTheStreak
  <2>2. Breaker!ClockSinceOpening'
    BY <1>1, <1>3, 0 <= opened' DEF Breaker!TransitionTo, Breaker!ClockSinceOpening
  <2>3. state = "CLOSED" => streak' = failureThreshold
    BY <1>3 DEF Breaker!IInv, Breaker!TypeOK, Breaker!Fail, Breaker!UpTo, Breaker!CountsTheStreak
  <2> QED BY <2>1, <2>2, <2>3 DEF Breaker!IInv
<1>4. CASE /\ state # "HALF_OPEN" /\ failureCount + 1 < failureThreshold
           /\ failureCount' = failureCount + 1
           /\ UNCHANGED <<state, successCount>>
  <2>1. Breaker!TypeOK'
    BY <1>1, <1>4 DEF Breaker!IInv, Breaker!TypeOK
  <2>2. Breaker!CountsTheStreak'
    BY <1>4 DEF Breaker!IInv, Breaker!TypeOK, Breaker!Fail, Breaker!UpTo, Breaker!CountsTheStreak
  <2>3. Breaker!ClockSinceOpening'
    BY <1>1, <1>4 DEF Breaker!ClockSinceOpening
  <2> QED BY <1>4, <2>1, <2>2, <2>3 DEF Breaker!IInv
<1> QED BY <1>2, <1>3, <1>4 DEF Breaker!Fail, Breaker!OnFailure

\* A success forgets the streak, in whatever state it arrives
\* (circuit-breaker.ts:67-77).
LEMMA BreakerSuccessStep ==
  ASSUME Breaker!IInv, NEW c \in ProviderCalls, Breaker!Succeed(c)
  PROVE  Breaker!IInv' /\ (state # "OPEN" => state' # "OPEN")
<1> USE ThresholdsAreNaturals DEF Thresholds
<1>1. Breaker!TypeOK'
  BY DEF Breaker!IInv, Breaker!TypeOK, Breaker!Succeed, Breaker!Answer, Breaker!OnSuccess,
    Breaker!TransitionTo
<1>2. Breaker!CountsTheStreak' /\ Breaker!ClockSinceOpening' /\ (state # "OPEN" => state' # "OPEN")
  BY DEF Breaker!IInv, Breaker!TypeOK, Breaker!Succeed, Breaker!OnSuccess, Breaker!TransitionTo,
    Breaker!CountsTheStreak, Breaker!ClockSinceOpening
<1> QED BY <1>1, <1>2 DEF Breaker!IInv

\* Letting calls through, ticks, resets and the recovery of the provider.
LEMMA BreakerOtherSteps ==
  ASSUME Breaker!IInv,
         \/ \E c \in ProviderCalls : Breaker!Call(c)
         \/ Breaker!Reset \/ Breaker!Tick \/ Breaker!Heal \/ UNCHANGED Breaker!vars
  PROVE  Breaker!IInv' /\ (state # "OPEN" => state' # "OPEN")
<1> USE ThresholdsAreNaturals DEF Thresholds
<1> DEFINE Goal == Breaker!IInv' /\ (state # "OPEN" => state' # "OPEN")
<1>1. ASSUME NEW c \in ProviderCalls, Breaker!Start(c) PROVE Goal
  BY <1>1
  DEF Breaker!IInv, Breaker!TypeOK, Breaker!CountsTheStreak, Breaker!ClockSinceOpening,
    Breaker!Start, Breaker!fields
<1>2. ASSUME NEW c \in ProviderCalls, Breaker!StartHalfOpen(c) PROVE Goal
  BY <1>2
  DEF Breaker!IInv, Breaker!TypeOK, Breaker!CountsTheStreak, Breaker!ClockSinceOpening,
    Breaker!StartHalfOpen, Breaker!TransitionTo
<1>3. ASSUME Breaker!Reset PROVE Goal
  BY <1>3
  DEF Breaker!IInv, Breaker!TypeOK, Breaker!CountsTheStreak, Breaker!ClockSinceOpening,
    Breaker!Reset, Breaker!TransitionTo
<1>4. ASSUME Breaker!Tick PROVE Goal
  BY <1>4
  DEF Breaker!IInv, Breaker!TypeOK, Breaker!CountsTheStreak, Breaker!ClockSinceOpening,
    Breaker!Tick, Breaker!UpTo
<1>5. ASSUME Breaker!Heal PROVE Goal
  BY <1>5
  DEF Breaker!IInv, Breaker!TypeOK, Breaker!CountsTheStreak, Breaker!ClockSinceOpening,
    Breaker!Heal, Breaker!fields
<1>6. ASSUME UNCHANGED Breaker!vars PROVE Goal
  BY <1>6 DEF Breaker!IInv, Breaker!TypeOK, Breaker!CountsTheStreak, Breaker!ClockSinceOpening, Breaker!vars
<1> QED BY <1>1, <1>2, <1>3, <1>4, <1>5, <1>6 DEF Breaker!Call

\* The inductive invariant: every step of the breaker keeps it.
THEOREM BreakerInvariant == Breaker!Spec => []Breaker!IInv
<1>1. ASSUME Breaker!Init PROVE Breaker!IInv
  <2>1. 0 \in 0..failureThreshold /\ 0 \in 0..(halfOpenMaxAttempts - 1) /\ 0 \in 0..resetTimeout
    BY ThresholdsAreNaturals DEF Thresholds
  <2>2. Breaker!TypeOK
    BY <1>1, <2>1, ThresholdsAreNaturals DEF Thresholds, Breaker!Init, Breaker!TypeOK
  <2>3. Breaker!CountsTheStreak /\ Breaker!ClockSinceOpening
    BY <1>1, ThresholdsAreNaturals
    DEF Thresholds, Breaker!Init, Breaker!CountsTheStreak, Breaker!ClockSinceOpening
  <2> QED BY <2>2, <2>3 DEF Breaker!IInv
<1>2. Breaker!IInv /\ [Breaker!Next]_Breaker!vars => Breaker!IInv'
  BY BreakerFailureStep, BreakerSuccessStep, BreakerOtherSteps DEF Breaker!Next, Breaker!Answered
<1> QED BY <1>1, <1>2, PTL DEF Breaker!Spec

\* Every reachable state is well typed (the fields of circuit-breaker.ts:32-37).
THEOREM BreakerTypes == Breaker!Spec => []Breaker!TypeOK
<1>1. Breaker!IInv => Breaker!TypeOK
  BY DEF Breaker!IInv
<1> QED BY <1>1, BreakerInvariant, PTL

\* An open breaker has a clock that will let a call through
\* (circuit-breaker.ts:50, 131-134).
THEOREM OpenBreakerHasAClock == Breaker!Spec => []Breaker!OpenHasAClock
<1>1. Breaker!IInv => Breaker!OpenHasAClock
  BY DEF Breaker!IInv, Breaker!ClockSinceOpening, Breaker!OpenHasAClock
<1> QED BY <1>1, BreakerInvariant, PTL

\* The breaker opens from closed only on a real streak of failures, whatever
\* answers to older calls arrive meanwhile (circuit-breaker.ts:79-93).
THEOREM BreakerOpensOnStreak == Breaker!Spec => OpensOnStreak
<1>1. Breaker!IInv /\ [Breaker!Next]_Breaker!vars
        => [state = "CLOSED" /\ state' = "OPEN" => streak' = failureThreshold]_Breaker!vars
  BY BreakerFailureStep, BreakerSuccessStep, BreakerOtherSteps DEF Breaker!Next, Breaker!Answered
<1> QED BY <1>1, BreakerInvariant, PTL DEF Breaker!Spec, OpensOnStreak, Breaker!OpensOnStreak

\* No call is let through before the timeout has passed since the breaker
\* opened (circuit-breaker.ts:48-55).
THEOREM BreakerCoolsDown == Breaker!Spec => CoolsDown
<1>1. ASSUME Breaker!IInv, [Breaker!Next]_Breaker!vars
      PROVE  [running' \ running # {} /\ state = "OPEN" => opened = resetTimeout]_Breaker!vars
  <2>1. ASSUME NEW c \in ProviderCalls, Breaker!StartHalfOpen(c) PROVE opened = resetTimeout
    BY <1>1, <2>1, ThresholdsAreNaturals
   
    DEF Thresholds, Breaker!IInv, Breaker!TypeOK, Breaker!ClockSinceOpening, Breaker!StartHalfOpen,
      Breaker!TimedOut
  <2>2. ASSUME NEW c \in ProviderCalls, Breaker!Start(c) PROVE state # "OPEN"
    BY <2>2 DEF Breaker!Start
  <2>3. ASSUME NEW c \in ProviderCalls, Breaker!Succeed(c) \/ Breaker!Fail(c) PROVE running' \ running = {}
    BY <2>3 DEF Breaker!Succeed, Breaker!Fail, Breaker!Answer
  <2>4. ASSUME Breaker!Reset \/ Breaker!Tick \/ Breaker!Heal PROVE running' = running
    BY <2>4 DEF Breaker!Reset, Breaker!Tick, Breaker!Heal
  <2> QED BY <1>1, <2>1, <2>2, <2>3, <2>4 DEF Breaker!Next, Breaker!Call, Breaker!Answered
<1> QED BY <1>1, BreakerInvariant, PTL DEF Breaker!Spec, CoolsDown, Breaker!CoolsDown
=============================================================================
