------------------------------ MODULE Listing ------------------------------
(***************************************************************************)
(* The listings: JobsService.findAll, ApplicationsService.findAll and      *)
(* findMine, and WebhooksService.findLogsForEmployer.                      *)
(*                                                                         *)
(* All four are the same three queries: a count of the rows that match,    *)
(* the ids of the page, which is an offset and a limit into the rows that  *)
(* match at that time, newest first, and the rows with these ids that      *)
(* still match.  A client walks through the pages of a listing as          *)
(* DESIGN.md:497 describes, up to meta.totalPages, while rows come and go  *)
(* under it.                                                               *)
(***************************************************************************)
EXTENDS Naturals, FiniteSets

CONSTANTS
  Limit,      \* rows per page
  MaxRows,    \* bound: rows that are ever created
  MaxChanges  \* bound: rows that come or go under a walk

ASSUME LimitAssumption == Limit \in Nat \ {0}
ASSUME BoundsAssumption == MaxRows \in Nat /\ MaxChanges \in Nat

VARIABLES
  created,  \* rows created so far; row n is the n-th, and created_at grows
  removed,  \* rows that were deleted
  listed,   \* rows that match the filters of the listing
  walk      \* the walk of a client

vars == <<created, removed, listed, walk>>

\* page, total and ids belong to the request under way.  The rest is history: the
\* rows seen, the times a row was seen again, the rows listed all along, how
\* many rows came and went, and how many came since the last count.
Walks ==
  [pc : {"idle", "count", "fetch", "rows", "done"}, page : Nat \ {0},
   total : Nat, ids : SUBSET (1..MaxRows),
   seen : SUBSET (1..MaxRows), again : Nat, stay : SUBSET (1..MaxRows),
   came : Nat, gone : Nat, late : Nat]

NewWalk ==
  [pc |-> "idle", page |-> 1, total |-> 0, ids |-> {}, seen |-> {},
   again |-> 0, stay |-> {}, came |-> 0, gone |-> 0, late |-> 0]

Walking == walk.pc \in {"count", "fetch", "rows"}

\* Any table: what happens before a walk is of no concern to it.
Init ==
  /\ created \in 0..MaxRows
  /\ removed = {}
  /\ listed \in SUBSET (1..created)
  /\ walk = NewWalk

-----------------------------------------------------------------------------
\* Mutant of TotalPages: rounded down.
TotalPagesDown(total) == total \div Limit

\* Math.ceil(total / limit)
TotalPages(total) == (total + Limit - 1) \div Limit

\* The position of a row in a listing: ORDER BY created_at DESC.
Position(i) == Cardinality({k \in listed : k >= i})

\* Mutant of Page: skip(page - 1).
PageUnscaled(page) ==
  {i \in listed : page - 1 < Position(i) /\ Position(i) <= page - 1 + Limit}

\* skip((page - 1) * limit), take(limit)
Page(page) ==
  {i \in listed : /\ (page - 1) * Limit < Position(i)
                  /\ Position(i) <= page * Limit}

\* Mutant of Start: pages are counted from 0.
StartAtZero ==
  /\ ~Walking
  /\ walk' = [NewWalk EXCEPT !.pc = "count", !.page = 0, !.stay = listed]
  /\ UNCHANGED <<created, removed, listed>>

\* A client asks for the listing without a page, which is page 1.
Start ==
  /\ ~Walking
  /\ walk' = [NewWalk EXCEPT !.pc = "count", !.stay = listed]
  /\ UNCHANGED <<created, removed, listed>>

\* getCount()
Count ==
  /\ walk.pc = "count"
  /\ walk' = [walk EXCEPT !.pc = "fetch", !.total = Cardinality(listed),
                          !.late = 0]
  /\ UNCHANGED <<created, removed, listed>>

\* The first query of getMany(), which with joins asks for the ids of the page
\* only.
Fetch ==
  /\ walk.pc = "fetch"
  /\ walk' = [walk EXCEPT !.pc = "rows", !.ids = Page(walk.page)]
  /\ UNCHANGED <<created, removed, listed>>

\* The second query: of those ids, the rows that still match the filters.
Data == walk.ids \cap listed

\* The answer; the client asks for the next page if it says that there is one.
Rows ==
  LET last == walk.page >= TotalPages(walk.total) IN
  /\ walk.pc = "rows"
  /\ walk' = [walk EXCEPT !.pc = IF last THEN "done" ELSE "count",
                          !.page = IF last THEN @ ELSE @ + 1,
                          !.ids = {},
                          !.seen = @ \cup Data,
                          !.again = @ + Cardinality(Data \cap walk.seen)]
  /\ UNCHANGED <<created, removed, listed>>

-----------------------------------------------------------------------------
\* Writes of other requests under a walk, one query each.
Room == Walking /\ walk.came + walk.gone < MaxChanges

\* History of a walk under which a row comes into or goes from the listing.
Come == walk' = [walk EXCEPT !.came = @ + 1, !.late = @ + 1]
Go(i) == walk' = [walk EXCEPT !.gone = @ + 1, !.stay = @ \ {i}]

\* INSERT of a row, which matches the filters or not.
Create ==
  /\ Room
  /\ created < MaxRows
  /\ created' = created + 1
  /\ \/ listed' = listed \cup {created + 1} /\ Come
     \/ UNCHANGED <<listed, walk>>
  /\ UNCHANGED removed

\* UPDATE of a row which makes it match,
Enter(i) ==
  /\ Room
  /\ i \notin listed \cup removed
  /\ listed' = listed \cup {i}
  /\ Come
  /\ UNCHANGED <<created, removed>>

\* or match no more.
Leave(i) ==
  /\ Room
  /\ i \in listed
  /\ listed' = listed \ {i}
  /\ Go(i)
  /\ UNCHANGED <<created, removed>>

\* DELETE of a row, by itself or by a cascade.
Remove(i) ==
  /\ Room
  /\ i \in listed
  /\ listed' = listed \ {i}
  /\ removed' = removed \cup {i}
  /\ Go(i)
  /\ UNCHANGED created

Next ==
  \/ Start \/ Count \/ Fetch \/ Rows
  \/ Create
  \/ \E i \in 1..created : Enter(i) \/ Leave(i) \/ Remove(i)

Spec == Init /\ [][Next]_vars

-----------------------------------------------------------------------------
\* Every variable has its type, pages are numbered from 1 as the DTOs demand,
\* and what a walk has seen exists or existed.
TypeOK ==
  /\ created \in 0..MaxRows
  /\ removed \subseteq 1..created
  /\ listed \subseteq (1..created) \ removed
  /\ walk \in Walks
  /\ walk.seen \cup walk.ids \subseteq 1..created
  /\ walk.stay \subseteq listed
  /\ walk.late <= walk.came

\* Offsets into a table that changes skip rows, and a total that is counted
\* before its page ends a walk early, but neither at random: of the rows that
\* were listed all along, a walk misses at most one for each row that went
\* under it and one for each that came between its last count and its last
\* answer.
MissedExplained ==
  walk.pc = "done" =>
    Cardinality(walk.stay \ walk.seen) <= walk.gone + walk.late

\* A walk shows a row again at most once for each row that came under it,
\* wherever in the order it came and however many pages are left.
RepeatsExplained == walk.again <= walk.came
=============================================================================
