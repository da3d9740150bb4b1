----------------------------- MODULE IssueList -----------------------------
(***************************************************************************)
(* The issue list of the dashboard (pages/Issues.tsx) on top of the list   *)
(* of the API (GET / of api/issues.ts): filters, pages, a selection and    *)
(* bulk actions, over data that is fetched anew every 15 seconds and that  *)
(* others change meanwhile.                                                *)
(*                                                                         *)
(* Severity is filtered by the server, category by the page; the type that *)
(* can be picked as well is sent under a name the API does not read and is *)
(* left out.  Issues are numbered in the order of their creation.          *)
(***************************************************************************)
EXTENDS Naturals, Sequences, FiniteSets, SequencesExt

CONSTANTS
  severityOf, categoryOf,     \* of issue 1, 2, ...
  PAGE_SIZE,
  MaxClicks, MaxOthers        \* bounds: clicks on the page, changes by others

\* What the parameters have to be.
Parameters ==
  /\ severityOf \in Seq(STRING) /\ Len(categoryOf) = Len(severityOf)
  /\ PAGE_SIZE \in Nat \ {0} /\ {MaxClicks, MaxOthers} \subseteq Nat

VARIABLES
  status,      \* status[i]: of issue i in the database, or "none"
  filter,      \* status, severity and category picked
  page,
  cache,       \* cache[query]: what SWR has of a query: the issues and their count
  selected,    \* selectedIds
  posts,       \* requests under way: issue, action and the click they belong to
  bulk,        \* the requests the bulk action waits for, while bulkActionLoading
  failed,      \* history: issues whose request failed and that nobody looked after since
  seen,        \* history: issues the page showed since the filters were last changed
  clicks, others

vars == <<status, filter, page, cache, selected, posts, bulk, failed, seen, clicks, others>>

Numbers == DOMAIN severityOf
All == ""
StatusOf == [acknowledge |-> "acknowledged", resolve |-> "resolved", dismiss |-> "dismissed"]
Actions == DOMAIN StatusOf
Statuses == {"open"} \cup {StatusOf[a] : a \in Actions}
Filters == [status : Statuses, severity : {All} \cup {severityOf[i] : i \in Numbers},
            category : {All} \cup {categoryOf[i] : i \in Numbers}]
Pages == 0..Len(severityOf)
Nothing == [issues |-> <<>>, count |-> 0, loaded |-> FALSE]

QueryOf(f, p) == <<f.status, f.severity, p>>
Queries == {QueryOf(f, p) : f \in Filters, p \in Pages}

TypeOK ==
  /\ status \in [Numbers -> Statuses \cup {"none"}]
  /\ filter \in Filters /\ page \in Pages
  /\ DOMAIN cache \subseteq Queries
  /\ selected \subseteq Numbers /\ posts \subseteq Numbers \X Actions \X Nat
  /\ bulk \subseteq posts /\ failed \subseteq Numbers /\ seen \subseteq Numbers
  /\ clicks \in Nat /\ others \in Nat

Init ==
  /\ status \in [Numbers -> {"none", "open"}]
  /\ filter = [status |-> "open", severity |-> All, category |-> All]
  /\ page = 0
  /\ cache = <<>>
  /\ selected = {} /\ posts = {} /\ bulk = {} /\ failed = {} /\ seen = {}
  /\ clicks = 0 /\ others = 0
-----------------------------------------------------------------------------
\* GET /: the issues of a status and severity, newest first, a page of them and
\* how many there are.
ListOf(q) ==
  LET matching == {i \in Numbers : status[i] = q[1] /\ q[2] \in {All, severityOf[i]}}
      newestFirst == Reverse(SetToSortSeq(matching, <))
  IN [issues |-> SubSeq(newestFirst, q[3] * PAGE_SIZE + 1,
                        IF (q[3] + 1) * PAGE_SIZE < Len(newestFirst) THEN (q[3] + 1) * PAGE_SIZE
                                                                    ELSE Len(newestFirst)),
      count |-> Cardinality(matching), loaded |-> TRUE]

Cached(q) == IF q \in DOMAIN cache THEN cache[q] ELSE Nothing

\* What the page shows of a query: categoryFiltered.
ShownOf(c, f) == {i \in ToSet(c.issues) : f.category \in {All, categoryOf[i]}}
Data == Cached(QueryOf(filter, page))
Shown == ShownOf(Data, filter)
TotalPages == (Data.count + PAGE_SIZE - 1) \div PAGE_SIZE

Click == clicks < MaxClicks /\ clicks' = clicks + 1
Stays == UNCHANGED <<status, posts, others>>

\* Mutant: the selection outlives the change of a filter.
Reselected_Kept(f) == selected

Reselected(f) == IF f = filter THEN selected ELSE {}

\* Someone picks another status, severity or category: the first page, and
\* nothing selected.  SWR shows what it has of that query until it has news.
PickFilter(f) ==
  /\ Click /\ f # filter
  /\ \E k \in DOMAIN f : \A l \in DOMAIN f \ {k} : f[l] = filter[l]
  /\ filter' = f /\ page' = 0
  /\ selected' = Reselected(f)
  /\ failed' = {} /\ seen' = ShownOf(Cached(QueryOf(f, 0)), f)
  /\ Stays /\ UNCHANGED <<cache, bulk>>

Show(p) ==
  /\ page' = p /\ seen' = seen \cup ShownOf(Cached(QueryOf(filter, p)), filter)
  /\ Stays /\ UNCHANGED <<filter, cache, selected, bulk, failed>>

\* The buttons of the pages, which are there if there is more than one.
GoTo(p) ==
  /\ Click /\ TotalPages > 1 /\ p < TotalPages /\ p # page /\ Show(p)

\* The page mounts, 15 seconds have passed, or mutate().
Fetch ==
  LET q == QueryOf(filter, page) IN
  /\ cache' = [k \in DOMAIN cache \cup {q} |-> IF k = q THEN ListOf(q) ELSE cache[k]]
  /\ seen' = seen \cup ShownOf(ListOf(q), filter)
  /\ Stays /\ UNCHANGED <<filter, page, selected, bulk, failed, clicks>>

Select(ids) ==
  /\ Click /\ selected' = ids /\ failed' = failed \cap ids
  /\ Stays /\ UNCHANGED <<filter, page, cache, bulk, seen>>

ToggleOne(i) == i \in Shown /\ Select(IF i \in selected THEN selected \ {i} ELSE selected \cup {i})

\* toggleAll: all that are shown, in place of what was selected before.
ToggleAll == Shown # {} /\ Select(IF Shown \subseteq selected THEN {} ELSE Shown)

Clear == selected # {} /\ Select({})

\* handleBulkAction
BulkAction(a) ==
  /\ Click /\ filter.status = "open" /\ selected # {} /\ bulk = {}
  /\ bulk' = selected \X {a} \X {clicks} /\ posts' = posts \cup bulk'
  /\ failed' = failed \ selected
  /\ UNCHANGED <<status, filter, page, cache, selected, seen, others>>

\* A request is done: the status changes whatever it was.  With the last one of
\* the action nothing is selected any more and the list is fetched.
PostDone(p) ==
  /\ posts' = posts \ {p} /\ bulk' = bulk \ {p}
  /\ status' = [status EXCEPT ![p[1]] = StatusOf[p[2]]]
  /\ selected' = IF bulk = {p} THEN {} ELSE selected
  /\ UNCHANGED <<filter, page, cache, failed, seen, clicks, others>>

AfterFailure == selected

\* One fails: Promise.all does not wait for the others, which go on.
PostFails(p) ==
  /\ posts' = posts \ {p}
  /\ IF p \notin bulk THEN UNCHANGED <<selected, bulk, failed>>
     ELSE /\ selected' = AfterFailure /\ bulk' = {}
          /\ failed' = failed \cup ({p[1]} \cap selected)
  /\ UNCHANGED <<status, filter, page, cache, seen, clicks, others>>

\* The detectors find an issue; someone else sets the status of one.
Others(i) ==
  /\ others < MaxOthers /\ others' = others + 1
  /\ \E s \in IF status[i] = "none" THEN {"open"} ELSE Statuses \ {"open"} :
       status' = [status EXCEPT ![i] = s]
  /\ UNCHANGED <<filter, page, cache, selected, posts, bulk, failed, seen, clicks>>

Next ==
  \/ \E f \in Filters : PickFilter(f)
  \/ \E p \in Pages : GoTo(p)
  \/ \E i \in Numbers : ToggleOne(i) \/ Others(i)
  \/ \E a \in Actions : BulkAction(a)
  \/ \E p \in posts : PostDone(p) \/ PostFails(p)
  \/ ToggleAll \/ Clear \/ Fetch

Spec == Init /\ [][Next]_vars
-----------------------------------------------------------------------------
\* What a bulk action would be applied to are issues the page has shown under
\* the filters that are set, on whatever page and whatever has become of them
\* since (Issues.tsx:110-114, 162-178).
SelectedWereSeen == selected \subseteq seen

\* An issue whose request failed stays selected until the person does something
\* about it, so that nothing that was asked for is dropped without a sign
\* (Issues.tsx:180-196).
FailedStaySelected == failed \subseteq selected

\* The selection is what the person means.
SelectionIsMeant == SelectedWereSeen /\ FailedStaySelected
-----------------------------------------------------------------------------
\* The inductive invariant behind it: what is shown counts as seen, and a bulk
\* action begins with nothing that failed.
IInv ==
  /\ Shown \subseteq seen
  /\ SelectedWereSeen /\ FailedStaySelected
  /\ bulk # {} => failed = {}
=============================================================================
