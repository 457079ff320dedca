--------------------------- MODULE ListingProofs ---------------------------
(***************************************************************************)
(* What a walk through the pages misses and repeats, for pages of any size *)
(* and any number of rows and of changes.                                  *)
(***************************************************************************)
EXTENDS Listing, TLAPS, FiniteSetTheorems

-----------------------------------------------------------------------------
(***************************************************************************)
(* The position of a row among any rows.                                   *)
(***************************************************************************)

Rank(S, i) == Cardinality({k \in S : k >= i})

\* Ranks go from 1 to the number of rows,
LEMMA RankType ==
  ASSUME NEW S \in SUBSET Nat, IsFiniteSet(S), NEW i \in S
  PROVE  Rank(S, i) \in Nat /\ Cardinality(S) \in Nat
         /\ 1 <= Rank(S, i) /\ Rank(S, i) <= Cardinality(S)
<1> DEFINE T == {k \in S : k >= i}
<1>1. T \subseteq S /\ {i} \subseteq T
  OBVIOUS
<1>2. IsFiniteSet(T) /\ Cardinality(T) <= Cardinality(S)
  BY <1>1, FS_Subset
<1>3. Cardinality({i}) <= Cardinality(T) /\ Cardinality({i}) = 1
  BY <1>1, <1>2, FS_Subset, FS_Singleton
<1>4. Cardinality(T) \in Nat /\ Cardinality(S) \in Nat
  BY <1>2, FS_CardinalityType
<1> HIDE DEF T
<1>5. Rank(S, i) = Cardinality(T)
  BY DEF Rank, T
<1>6. QED
  BY <1>2, <1>3, <1>4, <1>5

\* newer rows come first,
LEMMA RankOrder ==
  ASSUME NEW S \in SUBSET Nat, IsFiniteSet(S), NEW i \in S, NEW j \in S, i < j
  PROVE  Rank(S, j) < Rank(S, i)
<1> DEFINE T == {k \in S : k >= i}
           U == {k \in S : k >= j}
<1>1. U \subseteq T \ {i} /\ i \in T /\ T \subseteq S
  <2>1. i \in Nat /\ j \in Nat /\ \A k \in S : k \in Nat
    OBVIOUS
  <2>2. \A k \in S : k >= j => k >= i /\ k # i
    BY <2>1
  <2>3. U \subseteq T \ {i}
    BY <2>2
  <2>4. i \in T
    BY <2>1
  <2>5. QED
    BY <2>3, <2>4
<1> HIDE DEF T, U
<1>2. IsFiniteSet(T)
  BY <1>1, FS_Subset
<1>3. IsFiniteSet(T \ {i}) /\ Cardinality(T \ {i}) = Cardinality(T) - 1
  BY <1>1, <1>2, FS_RemoveElement
<1>4. IsFiniteSet(U) /\ Cardinality(U) <= Cardinality(T \ {i})
  BY <1>1, <1>3, FS_Subset
<1>5. Cardinality(U) \in Nat /\ Cardinality(T) \in Nat
  BY <1>2, <1>4, FS_CardinalityType
<1>6. Rank(S, i) = Cardinality(T) /\ Rank(S, j) = Cardinality(U)
  BY DEF Rank, T, U
<1>7. QED
  BY <1>3, <1>4, <1>5, <1>6

LEMMA RankDistinct ==
  ASSUME NEW S \in SUBSET Nat, IsFiniteSet(S), NEW i \in S, NEW j \in S,
         Rank(S, i) = Rank(S, j)
  PROVE  i = j
<1>1. i \in Nat /\ j \in Nat /\ Rank(S, i) \in Nat
  BY RankType
<1>2. ~(i < j) /\ ~(j < i)
  BY <1>1, RankOrder
<1>3. QED
  BY <1>1, <1>2

\* and a row that comes moves those behind it by one.
LEMMA RankAdd ==
  ASSUME NEW S \in SUBSET Nat, IsFiniteSet(S), NEW x \in Nat \ S, NEW i \in S
  PROVE  /\ i < x => Rank(S \cup {x}, i) = Rank(S, i) + 1
         /\ ~(i < x) => Rank(S \cup {x}, i) = Rank(S, i)
<1> DEFINE T == {k \in S : k >= i}
           U == {k \in S \cup {x} : k >= i}
<1>1. T \subseteq S /\ x \notin T
  OBVIOUS
<1>2. i < x => U = T \cup {x}
  OBVIOUS
<1>3. ~(i < x) => U = T
  OBVIOUS
<1>4. Rank(S, i) = Cardinality(T) /\ Rank(S \cup {x}, i) = Cardinality(U)
  BY DEF Rank
<1> HIDE DEF T, U
<1>5. IsFiniteSet(T)
  BY <1>1, FS_Subset
<1>6. Cardinality(T \cup {x}) = Cardinality(T) + 1
  BY <1>1, <1>5, FS_AddElement
<1>7. QED
  BY <1>2, <1>3, <1>4, <1>6

LEMMA RankRemove ==
  ASSUME NEW S \in SUBSET Nat, IsFiniteSet(S), NEW x \in S, NEW i \in S \ {x}
  PROVE  /\ i < x => Rank(S, i) = Rank(S \ {x}, i) + 1
         /\ ~(i < x) => Rank(S, i) = Rank(S \ {x}, i)
         /\ Rank(S \ {x}, i) \in Nat
<1> DEFINE R == S \ {x}
<1>1. R \in SUBSET Nat /\ x \in Nat \ R /\ i \in R /\ R \cup {x} = S
  OBVIOUS
<1>2. IsFiniteSet(R)
  BY FS_RemoveElement
<1> HIDE DEF R
<1>3. /\ i < x => Rank(S, i) = Rank(R, i) + 1
      /\ ~(i < x) => Rank(S, i) = Rank(R, i)
      /\ Rank(R, i) \in Nat
  <2>1. Rank(R, i) \in Nat
    BY <1>1, <1>2, RankType
  <2>2. /\ i < x => Rank(R \cup {x}, i) = Rank(R, i) + 1
        /\ ~(i < x) => Rank(R \cup {x}, i) = Rank(R, i)
    BY <1>1, <1>2, RankAdd
  <2>3. QED
    BY <1>1, <2>1, <2>2
<1>4. QED
  BY <1>3 DEF R

\* Rows of a set up to a position, and those of another behind it.
Passed(S, U, o) == {i \in U : Rank(S, i) <= o}
Behind(S, V, o) == {i \in V \cap S : Rank(S, i) > o}

\* There are as many rows behind a position as there are positions left.
LEMMA BehindBounded ==
  ASSUME NEW S \in SUBSET Nat, IsFiniteSet(S), NEW m \in Nat, NEW n \in Nat,
         Cardinality(S) <= m + n
  PROVE  /\ IsFiniteSet(Behind(S, S, m)) /\ Cardinality(Behind(S, S, m)) \in Nat
         /\ Cardinality(Behind(S, S, m)) <= n
<1> DEFINE Rest == Behind(S, S, m)
           Left == (m + 1)..(m + n)
           f == [i \in Rest |-> Rank(S, i)]
<1>1. IsFiniteSet(Left) /\ Cardinality(Left) = n
  <2>1. m + 1 \in Int /\ m + n \in Int
    OBVIOUS
  <2>2. /\ IsFiniteSet(Left)
        /\ Cardinality(Left) = IF m + 1 > m + n THEN 0 ELSE (m + n) - (m + 1) + 1
    BY <2>1, FS_Interval
  <2> HIDE DEF Left
  <2>3. QED
    BY <2>2
<1>2. \A i \in Rest : Rank(S, i) \in Left
  BY RankType DEF Behind
<1>3. \A i, j \in Rest : Rank(S, i) = Rank(S, j) => i = j
  BY RankDistinct DEF Behind
<1>4. f \in Injection(Rest, Left)
  BY <1>2, <1>3 DEF Injection, IsInjective
<1>5. Cardinality(Rest) <= Cardinality(Left)
  <2> HIDE DEF f, Rest, Left
  <2> QED
    BY <1>1, <1>4, FS_Injection
<1>6. IsFiniteSet(Rest) /\ Cardinality(Rest) \in Nat
  BY FS_Subset, FS_CardinalityType DEF Behind
<1>7. QED
  BY <1>1, <1>5, <1>6

-----------------------------------------------------------------------------
(***************************************************************************)
(* The arithmetic of pages.                                                *)
(***************************************************************************)

\* totalPages pages hold every row that was counted.
LEMMA PagesHoldAll ==
  ASSUME NEW page \in Nat, NEW total \in Nat, page >= TotalPages(total)
  PROVE  page * Limit >= total
<1> DEFINE pages == TotalPages(total)
<1>0. Limit \in Nat /\ Limit >= 1
  BY LimitAssumption
<1>1. \A L, t \in Nat : L >= 1 =>
         /\ (t + L - 1) \div L \in Nat
         /\ t + L - 1 < (((t + L - 1) \div L) + 1) * L
  OBVIOUS
<1>2. pages \in Nat /\ total + Limit - 1 < (pages + 1) * Limit
  BY <1>0, <1>1 DEF TotalPages
<1>3. \A p, q, L \in Nat : p >= q => p * L >= q * L
  OBVIOUS
<1>4. \A q, L \in Nat : (q + 1) * L = q * L + L /\ q * L \in Nat
  OBVIOUS
<1> HIDE DEF pages
<1>5. page * Limit >= pages * Limit
  BY <1>0, <1>2, <1>3 DEF pages
<1>6. QED
  BY <1>0, <1>2, <1>4, <1>5

LEMMA NextOffset ==
  ASSUME NEW page \in Nat \ {0}
  PROVE  /\ (page - 1) * Limit \in Nat /\ page * Limit \in Nat
         /\ page * Limit = (page - 1) * Limit + Limit
         /\ Limit \in Nat \ {0}
<1>1. Limit \in Nat \ {0} /\ page - 1 \in Nat
  BY LimitAssumption
<1>2. \A q, L \in Nat : (q + 1) * L = q * L + L /\ q * L \in Nat
  OBVIOUS
<1>3. (page - 1) + 1 = page
  OBVIOUS
<1>4. QED
  BY <1>1, <1>2, <1>3


-----------------------------------------------------------------------------
(***************************************************************************)
(* What a row that comes or goes does to the rows passed and behind.       *)
(***************************************************************************)

LEMMA OneMore ==
  ASSUME NEW A, NEW B, IsFiniteSet(A), \A a, b \in B \ A : a = b
  PROVE  /\ IsFiniteSet(B) /\ Cardinality(B) \in Nat /\ Cardinality(A) \in Nat
         /\ Cardinality(B) <= Cardinality(A) + 1
<1>1. Cardinality(A) \in Nat
  BY FS_CardinalityType
<1>2. CASE B \subseteq A
  BY <1>1, <1>2, FS_Subset, FS_CardinalityType
<1>3. CASE ~(B \subseteq A)
  <2>1. PICK c \in B : c \notin A
    BY <1>3
  <2>2. B \subseteq A \cup {c}
    BY <2>1
  <2>3. /\ IsFiniteSet(A \cup {c})
        /\ Cardinality(A \cup {c}) = Cardinality(A) + 1
    BY <2>1, FS_AddElement
  <2>4. IsFiniteSet(B) /\ Cardinality(B) <= Cardinality(A \cup {c})
    BY <2>2, <2>3, FS_Subset
  <2>5. Cardinality(B) \in Nat
    BY <2>4, FS_CardinalityType
  <2>6. QED
    BY <1>1, <2>3, <2>4, <2>5
<1>4. QED
  BY <1>2, <1>3

LEMMA ComePassed ==
  ASSUME NEW S \in SUBSET Nat, IsFiniteSet(S), NEW x \in Nat \ S, NEW o \in Nat,
         NEW U \in SUBSET S
  PROVE  Passed(S \cup {x}, U, o) \subseteq Passed(S, U, o)
<1>1. ASSUME NEW i \in U, Rank(S \cup {x}, i) <= o
      PROVE  Rank(S, i) <= o
  BY <1>1, RankAdd, RankType
<1>2. QED
  BY <1>1 DEF Passed

\* Either the row that came is behind, or the one that was pushed over is.
LEMMA ComeBehind ==
  ASSUME NEW S \in SUBSET Nat, IsFiniteSet(S), NEW x \in Nat \ S, NEW o \in Nat,
         NEW V
  PROVE  /\ Cardinality(Behind(S, V, o)) \in Nat
         /\ Cardinality(Behind(S \cup {x}, V, o)) \in Nat
         /\ Cardinality(Behind(S \cup {x}, V, o)) <= Cardinality(Behind(S, V, o)) + 1
<1> DEFINE T == S \cup {x}
<1>0. /\ T \in SUBSET Nat /\ IsFiniteSet(T) /\ S \subseteq T /\ x \in T /\ x \in Nat
      /\ IsFiniteSet(Behind(S, V, o))
  BY FS_AddElement, FS_Subset DEF Behind
<1>1. ASSUME NEW a \in S, a \in Behind(T, V, o) \ Behind(S, V, o)
      PROVE  a < x /\ Rank(T, a) = o + 1
  <2>1. Rank(S, a) <= o /\ Rank(T, a) > o /\ Rank(S, a) \in Nat
    BY <1>1, RankType DEF Behind
  <2>2. /\ a < x => Rank(T, a) = Rank(S, a) + 1
        /\ ~(a < x) => Rank(T, a) = Rank(S, a)
    BY RankAdd
  <2> HIDE DEF T
  <2>3. QED
    BY <2>1, <2>2
<1>2. ASSUME NEW a \in S, a \in Behind(T, V, o) \ Behind(S, V, o)
      PROVE  x \notin Behind(T, V, o)
  <2>1. a < x /\ Rank(T, a) = o + 1
    BY <1>1, <1>2
  <2>2. Rank(T, x) < Rank(T, a) /\ Rank(T, x) \in Nat
    BY <1>0, <2>1, RankOrder, RankType
  <2> HIDE DEF T
  <2>3. QED
    BY <2>1, <2>2 DEF Behind
<1>3. ASSUME NEW a \in Behind(T, V, o) \ Behind(S, V, o),
             NEW b \in Behind(T, V, o) \ Behind(S, V, o)
      PROVE  a = b
  <2>1. a \in S \/ a = x
    BY DEF Behind
  <2>2. b \in S \/ b = x
    BY DEF Behind
  <2>3. CASE a \in S /\ b \in S
    <3>1. Rank(T, a) = Rank(T, b)
      BY <1>1, <2>3
    <3>2. QED
      BY <1>0, <2>3, <3>1, RankDistinct
  <2>4. QED
    BY <1>2, <2>1, <2>2, <2>3
<1> HIDE DEF T
<1>4. /\ Cardinality(Behind(S, V, o)) \in Nat
      /\ Cardinality(Behind(T, V, o)) \in Nat
      /\ Cardinality(Behind(T, V, o)) <= Cardinality(Behind(S, V, o)) + 1
  BY <1>0, <1>3, OneMore
<1>5. QED
  BY <1>4 DEF T

LEMMA GoBehind ==
  ASSUME NEW S \in SUBSET Nat, IsFiniteSet(S), NEW x \in S, NEW o \in Nat, NEW V
  PROVE  Behind(S \ {x}, V, o) \subseteq Behind(S, V, o)
<1>1. ASSUME NEW i \in S \ {x}, Rank(S \ {x}, i) > o
      PROVE  Rank(S, i) > o
  BY <1>1, RankRemove
<1>2. QED
  BY <1>1 DEF Behind

\* The row at the first position behind may be pulled over it.
LEMMA GoPassed ==
  ASSUME NEW S \in SUBSET Nat, IsFiniteSet(S), NEW x \in S, NEW o \in Nat,
         NEW U \in SUBSET S
  PROVE  /\ Cardinality(Passed(S, U, o)) \in Nat
         /\ Cardinality(Passed(S \ {x}, U \ {x}, o)) \in Nat
         /\ Cardinality(Passed(S \ {x}, U \ {x}, o)) <= Cardinality(Passed(S, U, o)) + 1
<1> DEFINE A == Passed(S, U, o)
           B == Passed(S \ {x}, U \ {x}, o)
<1>1. IsFiniteSet(A)
  BY FS_Subset DEF Passed
<1>2. ASSUME NEW a \in B \ A
      PROVE  a \in S /\ Rank(S, a) = o + 1
  <2>1. /\ a \in S \ {x} /\ Rank(S \ {x}, a) <= o
        /\ ~(Rank(S, a) <= o)
    BY DEF Passed
  <2>2. QED
    BY <2>1, RankRemove, RankType
<1>3. ASSUME NEW a \in B \ A, NEW b \in B \ A
      PROVE  a = b
  <2>1. a \in S /\ b \in S /\ Rank(S, a) = Rank(S, b)
    BY <1>2
  <2> HIDE DEF A, B
  <2>2. QED
    BY <2>1, RankDistinct
<1> HIDE DEF A, B
<1>4. Cardinality(A) \in Nat /\ Cardinality(B) \in Nat
      /\ Cardinality(B) <= Cardinality(A) + 1
  BY <1>1, <1>3, OneMore
<1>5. QED
  BY <1>4 DEF A, B


-----------------------------------------------------------------------------
(***************************************************************************)
(* Types.                                                                  *)
(***************************************************************************)

LEMMA Facts ==
  ASSUME TypeOK
  PROVE  /\ created \in Nat /\ MaxRows \in Nat /\ created <= MaxRows
         /\ listed \in SUBSET Nat /\ IsFiniteSet(listed)
         /\ Cardinality(listed) \in Nat
         /\ walk.page \in Nat \ {0} /\ walk.total \in Nat /\ walk.again \in Nat
         /\ walk.came \in Nat /\ walk.gone \in Nat /\ walk.late \in Nat
         /\ walk.seen \in SUBSET (1..MaxRows)
         /\ walk.ids \in SUBSET (1..MaxRows) /\ walk.stay \in SUBSET listed
         /\ \A i \in listed : i \in 1..created /\ Position(i) = Rank(listed, i)
<1>1. /\ created \in Nat /\ MaxRows \in Nat /\ created <= MaxRows
      /\ listed \subseteq 1..created
  BY BoundsAssumption DEF TypeOK
<1>2. IsFiniteSet(1..created)
  BY <1>1, FS_Interval
<1>3. IsFiniteSet(listed) /\ Cardinality(listed) \in Nat
  BY <1>1, <1>2, FS_Subset, FS_CardinalityType
<1>4. \A i \in listed : Position(i) = Rank(listed, i)
  BY DEF Position, Rank
<1>5. QED
  BY <1>1, <1>3, <1>4 DEF TypeOK, Walks

LEMMA FetchType ==
  ASSUME TypeOK, Fetch
  PROVE  TypeOK'
<1> DEFINE data == Page(walk.page)
<1>1. data \subseteq listed /\ listed \subseteq 1..created
  BY DEF Page, TypeOK
<1>2. /\ walk \in Walks /\ data \in SUBSET (1..MaxRows)
      /\ walk' = [walk EXCEPT !.pc = "rows", !.ids = data]
      /\ UNCHANGED <<created, removed, listed>>
  BY <1>1, Facts DEF Fetch, TypeOK
<1> HIDE DEF data
<1>3. /\ walk' \in Walks /\ walk'.ids = data /\ walk'.seen = walk.seen
      /\ walk'.stay = walk.stay /\ walk'.late = walk.late
      /\ walk'.came = walk.came
  BY <1>2 DEF Walks
<1>4. QED
  BY <1>1, <1>2, <1>3 DEF TypeOK

LEMMA RowsType ==
  ASSUME TypeOK, Rows
  PROVE  TypeOK'
<1> DEFINE again == walk.again + Cardinality(Data \cap walk.seen)
<1>1. Data \subseteq listed
  BY DEF Data
<1>2. Cardinality(Data \cap walk.seen) \in Nat
  BY <1>1, Facts, FS_Subset, FS_CardinalityType
<1>3. walk.seen \cup Data \subseteq 1..created
  BY <1>1 DEF TypeOK
<1>4. \E stage \in {"done", "count"}, page \in Nat \ {0} :
        walk' = [walk EXCEPT !.pc = stage, !.page = page, !.ids = {},
                   !.seen = @ \cup Data, !.again = again]
  <2>1. walk.page \in Nat \ {0} /\ walk.page + 1 \in Nat \ {0}
    BY Facts
  <2>2. CASE walk.page >= TotalPages(walk.total)
    <3>1. walk' = [walk EXCEPT !.pc = "done", !.page = walk.page, !.ids = {},
                     !.seen = @ \cup Data, !.again = again]
      BY <2>2 DEF Rows
    <3>2. QED
      BY <2>1, <3>1
  <2>3. CASE ~(walk.page >= TotalPages(walk.total))
    <3>1. walk' = [walk EXCEPT !.pc = "count", !.page = walk.page + 1,
                     !.ids = {}, !.seen = @ \cup Data, !.again = again]
      BY <2>3 DEF Rows
    <3>2. QED
      BY <2>1, <3>1
  <2>4. QED
    BY <2>2, <2>3
<1>5. UNCHANGED <<created, removed, listed>>
  BY DEF Rows
<1>6. /\ again \in Nat /\ walk.seen \cup Data \in SUBSET (1..MaxRows)
      /\ {} \in SUBSET (1..MaxRows)
  BY <1>2, <1>3, Facts
<1> HIDE DEF again
<1>7. PICK stage \in {"done", "count"}, page \in Nat \ {0} :
        walk' = [walk EXCEPT !.pc = stage, !.page = page, !.ids = {},
                   !.seen = walk.seen \cup Data, !.again = again]
  BY <1>4
<1>8. /\ walk' \in Walks /\ walk'.ids = {}
      /\ walk'.seen = walk.seen \cup Data /\ walk'.stay = walk.stay
      /\ walk'.late = walk.late /\ walk'.came = walk.came
  BY <1>6, <1>7 DEF TypeOK, Walks
<1>9. QED
  BY <1>3, <1>5, <1>8 DEF TypeOK

\* The history of a walk under which a row comes or goes.
LEMMA ComeType ==
  ASSUME TypeOK, Come
  PROVE  /\ walk' \in Walks /\ walk'.pc = walk.pc /\ walk'.page = walk.page
         /\ walk'.total = walk.total /\ walk'.seen = walk.seen
         /\ walk'.again = walk.again /\ walk'.stay = walk.stay
         /\ walk'.ids = walk.ids
         /\ walk'.came = walk.came + 1 /\ walk'.gone = walk.gone
         /\ walk'.late = walk.late + 1
<1>1. /\ walk \in Walks /\ walk.came + 1 \in Nat /\ walk.late + 1 \in Nat
      /\ walk' = [walk EXCEPT !.came = walk.came + 1, !.late = walk.late + 1]
  BY Facts DEF TypeOK, Come
<1>2. walk' \in Walks
  BY <1>1 DEF Walks
<1>3. QED
  BY <1>1, <1>2 DEF Walks

LEMMA GoType ==
  ASSUME TypeOK, NEW i, Go(i)
  PROVE  /\ walk' \in Walks /\ walk'.pc = walk.pc /\ walk'.page = walk.page
         /\ walk'.total = walk.total /\ walk'.seen = walk.seen
         /\ walk'.again = walk.again /\ walk'.stay = walk.stay \ {i}
         /\ walk'.ids = walk.ids
         /\ walk'.came = walk.came /\ walk'.gone = walk.gone + 1
         /\ walk'.late = walk.late
<1>1. /\ walk \in Walks /\ walk.gone + 1 \in Nat
      /\ walk' = [walk EXCEPT !.gone = walk.gone + 1, !.stay = walk.stay \ {i}]
  BY Facts DEF TypeOK, Go
<1>2. walk.stay \ {i} \in SUBSET (1..MaxRows)
  BY <1>1 DEF Walks
<1>3. walk' \in Walks
  BY <1>1, <1>2 DEF Walks
<1>4. QED
  BY <1>1, <1>3 DEF Walks

LEMMA TypeStep ==
  ASSUME TypeOK, [Next]_vars
  PROVE  TypeOK'
<1>0. created \in Nat /\ MaxRows \in Nat /\ created <= MaxRows
  BY Facts
<1>1. CASE Start
  <2>1. /\ walk' = [NewWalk EXCEPT !.pc = "count", !.stay = listed]
        /\ UNCHANGED <<created, removed, listed>>
    BY <1>1 DEF Start
  <2>2. listed \in SUBSET (1..MaxRows)
    BY <1>0 DEF TypeOK
  <2>3. walk' \in Walks
    <3>1. walk' = [pc |-> "count", page |-> 1, total |-> 0, ids |-> {},
                   seen |-> {}, again |-> 0, stay |-> listed, came |-> 0, gone |-> 0, late |-> 0]
      BY <2>1 DEF NewWalk
    <3>2. {} \in SUBSET (1..MaxRows) /\ 1 \in Nat \ {0} /\ 0 \in Nat
      OBVIOUS
    <3>3. QED
      BY <2>2, <3>1, <3>2 DEF Walks
  <2>4. /\ walk'.seen = {} /\ walk'.ids = {} /\ walk'.stay = listed
        /\ walk'.late = 0 /\ walk'.came = 0
    BY <2>1 DEF NewWalk
  <2>5. QED
    BY <2>1, <2>3, <2>4 DEF TypeOK
<1>2. CASE Count
  <2>1. /\ walk \in Walks /\ Cardinality(listed) \in Nat
        /\ walk' = [walk EXCEPT !.pc = "fetch", !.total = Cardinality(listed),
                               !.late = 0]
        /\ UNCHANGED <<created, removed, listed>>
    BY <1>2, Facts DEF Count, TypeOK
  <2>2. /\ walk' \in Walks /\ walk'.seen = walk.seen /\ walk'.stay = walk.stay
        /\ walk'.ids = walk.ids /\ walk'.late = 0 /\ walk'.came \in Nat
    BY <2>1 DEF Walks
  <2>3. QED
    BY <2>1, <2>2 DEF TypeOK
<1>3. CASE Fetch
  BY <1>3, FetchType
<1>3a. CASE Rows
  BY <1>3a, RowsType
<1>4. CASE Create
  <2>1. /\ created' = created + 1 /\ created < MaxRows /\ UNCHANGED removed
        /\ \/ listed' = listed \cup {created + 1} /\ Come
           \/ UNCHANGED <<listed, walk>>
    BY <1>4 DEF Create
  <2>2. created' \in 0..MaxRows
    BY <1>0, <2>1
  <2>3. 1..created \subseteq 1..created' /\ created + 1 \in 1..created'
        /\ created + 1 \notin 1..created
    BY <1>0, <2>1
  <2>4. listed' \subseteq (1..created') \ removed' /\ removed' \subseteq 1..created'
    BY <2>1, <2>3 DEF TypeOK
  <2>5. CASE listed' = listed \cup {created + 1} /\ Come
    BY <2>2, <2>3, <2>4, <2>5, ComeType, Facts DEF TypeOK
  <2>6. CASE UNCHANGED <<listed, walk>>
    BY <2>2, <2>3, <2>4, <2>6 DEF TypeOK
  <2>7. QED
    BY <2>1, <2>5, <2>6
<1>5. ASSUME NEW i \in 1..created, Enter(i)
      PROVE  TypeOK'
  BY <1>5, ComeType, Facts DEF Enter, TypeOK
<1>6. ASSUME NEW i \in 1..created, Leave(i)
      PROVE  TypeOK'
  BY <1>6, GoType DEF Leave, TypeOK
<1>7. ASSUME NEW i \in 1..created, Remove(i)
      PROVE  TypeOK'
  BY <1>7, GoType DEF Remove, TypeOK
<1>8. CASE UNCHANGED vars
  BY <1>8 DEF vars, TypeOK
<1>9. QED
  BY <1>1, <1>2, <1>3, <1>3a, <1>4, <1>5, <1>6, <1>7, <1>8 DEF Next

\* Every variable has its type, and pages are numbered from 1.
THEOREM TypeCorrect == Spec => []TypeOK
<1>1. Init => TypeOK
  <2> SUFFICES ASSUME Init PROVE TypeOK
    OBVIOUS
  <2>1. NewWalk \in Walks /\ NewWalk.seen = {} /\ NewWalk.stay = {}
        /\ NewWalk.ids = {}
        /\ NewWalk.late = 0 /\ NewWalk.came = 0
    BY DEF NewWalk, Walks
  <2>2. QED
    BY <2>1 DEF Init, TypeOK
<1>2. QED
  BY <1>1, TypeStep, PTL DEF Spec

-----------------------------------------------------------------------------
(***************************************************************************)
(* The walk.  Of the rows listed all along, those on the positions behind  *)
(* the client that it has not seen were pulled there by rows that went;    *)
(* of the rows it has seen, those still before it were pushed there by     *)
(* rows that came, and have not been shown again yet.  The rows whose ids  *)
(* a request has are taken for seen already.                               *)
(***************************************************************************)

Shown == walk.seen \cup walk.ids
Offset == (IF walk.pc = "rows" THEN walk.page ELSE walk.page - 1) * Limit
Skipped == Passed(listed, walk.stay \ Shown, Offset)
Pushed == Behind(listed, Shown, Offset)
Repeated == walk.again + Cardinality(walk.ids \cap walk.seen)

WalkInv ==
  /\ Walking => /\ Cardinality(Skipped) <= walk.gone
                /\ Cardinality(Pushed) + Repeated <= walk.came
  /\ walk.pc # "rows" => walk.ids = {}
  /\ walk.pc \in {"fetch", "rows"} =>
       Cardinality(listed) <= walk.total + walk.late
  /\ MissedExplained
  /\ RepeatsExplained

LEMMA OffsetType ==
  ASSUME TypeOK
  PROVE  /\ Offset \in Nat /\ IsFiniteSet(walk.ids \cap walk.seen)
         /\ Cardinality(walk.ids \cap walk.seen) \in Nat /\ Repeated \in Nat
<1>1. Offset \in Nat
  BY Facts, NextOffset DEF Offset
<1>2. MaxRows \in Nat
  BY BoundsAssumption
<1>3. IsFiniteSet(1..MaxRows)
  BY <1>2, FS_Interval
<1>4. walk.ids \cap walk.seen \subseteq 1..MaxRows
  BY Facts
<1>5. /\ IsFiniteSet(walk.ids \cap walk.seen)
      /\ Cardinality(walk.ids \cap walk.seen) \in Nat
  BY <1>3, <1>4, FS_Subset, FS_CardinalityType
<1>6. QED
  BY <1>1, <1>5, Facts DEF Repeated

LEMMA WalkCome ==
  ASSUME TypeOK, WalkInv, Walking, NEW x \in Nat \ listed,
         listed' = listed \cup {x}, Come
  PROVE  WalkInv'
<1> DEFINE o == Offset
<1>1. /\ walk.page \in Nat \ {0} /\ o \in Nat /\ Offset' = o
  BY Facts, OffsetType, ComeType DEF Offset
<1>2. /\ listed \in SUBSET Nat /\ IsFiniteSet(listed)
      /\ walk.stay \ Shown \in SUBSET listed
      /\ walk.again \in Nat /\ Repeated \in Nat /\ walk.came \in Nat /\ walk.gone \in Nat
      /\ walk.total \in Nat /\ walk.late \in Nat
  BY Facts, OffsetType DEF Shown
<1>3. /\ walk'.pc = walk.pc /\ walk'.seen = walk.seen /\ walk'.stay = walk.stay
      /\ walk'.again = walk.again /\ walk'.total = walk.total
      /\ walk'.came = walk.came + 1 /\ walk'.gone = walk.gone
      /\ walk'.late = walk.late + 1
  BY ComeType
<1>3a. walk'.ids = walk.ids /\ Shown' = Shown /\ Repeated' = Repeated
  BY ComeType DEF Shown, Repeated
<1>4. /\ Skipped = Passed(listed, walk.stay \ Shown, o)
      /\ Skipped' = Passed(listed \cup {x}, walk.stay \ Shown, o)
      /\ Pushed = Behind(listed, Shown, o)
      /\ Pushed' = Behind(listed \cup {x}, Shown, o)
  BY <1>1, <1>3, <1>3a DEF Skipped, Pushed
<1>5. Walking /\ Walking' /\ walk'.pc # "done"
  BY <1>3 DEF Walking
<1> HIDE DEF o
<1>6. Cardinality(Skipped') <= walk'.gone
  <2>1. Skipped' \subseteq Skipped
    BY <1>1, <1>2, <1>4, ComePassed
  <2>2. IsFiniteSet(Skipped)
    BY <1>2, <1>4, FS_Subset DEF Passed
  <2>3. /\ Cardinality(Skipped') <= Cardinality(Skipped)
        /\ Cardinality(Skipped') \in Nat /\ Cardinality(Skipped) \in Nat
    BY <2>1, <2>2, FS_Subset, FS_CardinalityType
  <2>4. QED
    BY <1>2, <1>3, <1>5, <2>3 DEF WalkInv
<1>7. Cardinality(Pushed') + Repeated' <= walk'.came /\ walk'.again <= walk'.came
  <2>1. /\ Cardinality(Pushed) \in Nat /\ Cardinality(Pushed') \in Nat
        /\ Cardinality(Pushed') <= Cardinality(Pushed) + 1
    BY <1>1, <1>2, <1>4, ComeBehind
  <2>2. QED
    BY <1>2, <1>3, <1>3a, <1>5, <2>1 DEF WalkInv, RepeatsExplained
<1>8. walk'.pc \in {"fetch", "rows"} =>
        Cardinality(listed') <= walk'.total + walk'.late
  <2>1. Cardinality(listed') = Cardinality(listed) + 1 /\ Cardinality(listed) \in Nat
    BY <1>2, FS_AddElement, FS_CardinalityType
  <2>2. QED
    BY <1>2, <1>3, <2>1 DEF WalkInv
<1>9. QED
  BY <1>3, <1>3a, <1>5, <1>6, <1>7, <1>8 DEF WalkInv, MissedExplained, RepeatsExplained

LEMMA WalkGo ==
  ASSUME TypeOK, WalkInv, Walking, NEW x \in listed, listed' = listed \ {x}, Go(x)
  PROVE  WalkInv'
<1> DEFINE o == Offset
<1>1. /\ walk.page \in Nat \ {0} /\ o \in Nat /\ Offset' = o
  BY Facts, OffsetType, GoType DEF Offset
<1>2. /\ listed \in SUBSET Nat /\ IsFiniteSet(listed)
      /\ walk.stay \ Shown \in SUBSET listed
      /\ walk.again \in Nat /\ Repeated \in Nat /\ walk.came \in Nat /\ walk.gone \in Nat
      /\ walk.total \in Nat /\ walk.late \in Nat
  BY Facts, OffsetType DEF Shown
<1>3. /\ walk'.pc = walk.pc /\ walk'.seen = walk.seen
      /\ walk'.stay = walk.stay \ {x}
      /\ walk'.again = walk.again /\ walk'.total = walk.total
      /\ walk'.came = walk.came /\ walk'.gone = walk.gone + 1
      /\ walk'.late = walk.late
  BY GoType
<1>3a. walk'.ids = walk.ids /\ Shown' = Shown /\ Repeated' = Repeated
  BY GoType DEF Shown, Repeated
<1>4. /\ Skipped = Passed(listed, walk.stay \ Shown, o)
      /\ Skipped' = Passed(listed \ {x}, (walk.stay \ Shown) \ {x}, o)
      /\ Pushed = Behind(listed, Shown, o)
      /\ Pushed' = Behind(listed \ {x}, Shown, o)
  <2>1. (walk.stay \ {x}) \ Shown = (walk.stay \ Shown) \ {x}
    OBVIOUS
  <2>2. QED
    BY <1>1, <1>3, <1>3a, <2>1 DEF Skipped, Pushed
<1>5. Walking /\ Walking' /\ walk'.pc # "done"
  BY <1>3 DEF Walking
<1> HIDE DEF o
<1>6. Cardinality(Skipped') <= walk'.gone
  <2>1. /\ Cardinality(Skipped) \in Nat /\ Cardinality(Skipped') \in Nat
        /\ Cardinality(Skipped') <= Cardinality(Skipped) + 1
    BY <1>1, <1>2, <1>4, GoPassed
  <2>2. QED
    BY <1>2, <1>3, <1>5, <2>1 DEF WalkInv
<1>7. Cardinality(Pushed') + Repeated' <= walk'.came /\ walk'.again <= walk'.came
  <2>1. Pushed' \subseteq Pushed
    BY <1>1, <1>2, <1>4, GoBehind
  <2>2. IsFiniteSet(Pushed)
    BY <1>2, <1>4, FS_Subset DEF Behind
  <2>3. /\ Cardinality(Pushed') <= Cardinality(Pushed)
        /\ Cardinality(Pushed') \in Nat /\ Cardinality(Pushed) \in Nat
    BY <2>1, <2>2, FS_Subset, FS_CardinalityType
  <2>4. QED
    BY <1>2, <1>3, <1>3a, <1>5, <2>3 DEF WalkInv, RepeatsExplained
<1>8. walk'.pc \in {"fetch", "rows"} =>
        Cardinality(listed') <= walk'.total + walk'.late
  <2>1. Cardinality(listed') = Cardinality(listed) - 1 /\ Cardinality(listed) \in Nat
    BY <1>2, FS_RemoveElement, FS_CardinalityType
  <2>2. QED
    BY <1>2, <1>3, <2>1 DEF WalkInv
<1>9. QED
  BY <1>3, <1>3a, <1>5, <1>6, <1>7, <1>8 DEF WalkInv, MissedExplained, RepeatsExplained

\* The page that is fetched leaves nothing unseen on its positions, and shows
\* again what had been pushed onto them.
LEMMA WalkFetch ==
  ASSUME TypeOK, WalkInv, Fetch
  PROVE  WalkInv'
<1> DEFINE o == Offset
           data == Page(walk.page)
           twice == data \cap walk.seen
<1>0. /\ Walking /\ Walking' /\ walk.pc = "fetch" /\ listed' = listed
      /\ walk'.pc = "rows" /\ walk'.ids = data /\ walk'.page = walk.page
      /\ walk'.seen = walk.seen /\ walk'.again = walk.again
      /\ walk'.stay = walk.stay /\ walk'.came = walk.came
      /\ walk'.gone = walk.gone /\ walk'.late = walk.late
      /\ walk'.total = walk.total
  BY DEF Fetch, Walking, TypeOK, Walks
<1>1. /\ o \in Nat /\ Limit \in Nat \ {0} /\ o + Limit \in Nat
      /\ o = (walk.page - 1) * Limit /\ walk.page * Limit = o + Limit
      /\ Offset' = o + Limit
  <2>1. /\ walk.page \in Nat \ {0} /\ (walk.page - 1) * Limit \in Nat
        /\ walk.page * Limit = (walk.page - 1) * Limit + Limit
        /\ Limit \in Nat \ {0} /\ walk.page * Limit \in Nat
    BY Facts, NextOffset
  <2>2. o = (walk.page - 1) * Limit /\ Offset' = walk.page * Limit
    BY <1>0 DEF Offset
  <2>3. QED
    BY <2>1, <2>2
<1>2. /\ listed \in SUBSET Nat /\ IsFiniteSet(listed)
      /\ walk.stay \in SUBSET listed
      /\ walk.again \in Nat /\ walk.came \in Nat /\ walk.gone \in Nat
  BY Facts
<1>3. data = {i \in listed : o < Rank(listed, i) /\ Rank(listed, i) <= o + Limit}
  BY <1>1, Facts DEF Page
<1>4. /\ walk.ids = {} /\ Shown = walk.seen /\ Shown' = walk.seen \cup data
      /\ Repeated' = walk.again + Cardinality(twice)
  BY <1>0 DEF WalkInv, Shown, Repeated
<1>4a. Repeated = walk.again
  <2>1. walk.ids \cap walk.seen = {}
    BY <1>4
  <2>2. QED
    BY <1>2, <2>1, FS_EmptySet DEF Repeated
<1>5. /\ Cardinality(Skipped) <= walk.gone
      /\ Cardinality(Pushed) + walk.again <= walk.came
      /\ Skipped = Passed(listed, walk.stay \ walk.seen, o)
      /\ Pushed = Behind(listed, walk.seen, o)
      /\ Skipped' = Passed(listed, walk.stay \ (walk.seen \cup data), o + Limit)
      /\ Pushed' = Behind(listed, walk.seen \cup data, o + Limit)
  BY <1>0, <1>1, <1>4, <1>4a DEF WalkInv, Skipped, Pushed
<1>6. \A i \in listed : Rank(listed, i) \in Nat
  BY <1>2, RankType
<1> HIDE DEF o, data
<1>8. /\ IsFiniteSet(Skipped) /\ Cardinality(Skipped) \in Nat
      /\ IsFiniteSet(twice) /\ Cardinality(twice) \in Nat
  BY <1>2, <1>3, <1>5, FS_Subset, FS_CardinalityType DEF Passed
\* What is seen now is passed, and what was seen and passed before stays so.
<1>9. Cardinality(Skipped') <= walk'.gone
  <2>1. ASSUME NEW i \in walk.stay \ (walk.seen \cup data),
               Rank(listed, i) <= o + Limit
        PROVE  Rank(listed, i) <= o
    BY <1>1, <1>2, <1>3, <1>6, <2>1
  <2>2. Skipped' \subseteq Skipped
    BY <1>5, <2>1 DEF Passed
  <2>3. Cardinality(Skipped') <= Cardinality(Skipped) /\ Cardinality(Skipped') \in Nat
    BY <1>8, <2>2, FS_Subset, FS_CardinalityType
  <2>4. QED
    BY <1>0, <1>2, <1>5, <1>8, <2>3
<1>10. Cardinality(Pushed') + Repeated' <= walk'.came
  <2>1. Pushed' \cup twice \subseteq Pushed /\ Pushed' \cap twice = {}
    <3>1. \A i \in listed : Rank(listed, i) > o + Limit =>
                              Rank(listed, i) > o /\ i \notin data
      BY <1>1, <1>3, <1>6
    <3>2. \A i \in data : i \in listed /\ Rank(listed, i) > o
      BY <1>1, <1>3, <1>6
    <3>3. QED
      BY <1>5, <3>1, <3>2 DEF Behind
  <2>2. IsFiniteSet(Pushed) /\ IsFiniteSet(Pushed')
    BY <1>2, <1>5, <2>1, FS_Subset DEF Behind
  <2> HIDE DEF twice
  <2>3. /\ Cardinality(Pushed' \cup twice) = Cardinality(Pushed') + Cardinality(twice)
        /\ Cardinality(Pushed') \in Nat
    <3>1. Cardinality(Pushed') \in Nat
      BY <2>2, FS_CardinalityType
    <3>2. Cardinality(Pushed' \cup twice)
            = Cardinality(Pushed') + Cardinality(twice) - Cardinality(Pushed' \cap twice)
      BY <1>8, <2>2, FS_Union
    <3>3. Cardinality(Pushed' \cap twice) = 0
      BY <2>1, FS_EmptySet
    <3>4. QED
      BY <1>8, <3>1, <3>2, <3>3
  <2>4. Cardinality(Pushed' \cup twice) <= Cardinality(Pushed)
        /\ Cardinality(Pushed) \in Nat
    BY <2>1, <2>2, FS_Subset, FS_CardinalityType
  <2>5. QED
    BY <1>0, <1>2, <1>4, <1>5, <1>8, <2>3, <2>4
<1>11. Cardinality(listed') <= walk'.total + walk'.late
  BY <1>0 DEF WalkInv
<1>12. QED
  BY <1>0, <1>9, <1>10, <1>11
  DEF WalkInv, MissedExplained, RepeatsExplained

\* The rows of the page that are still there are answered: the others were not
\* listed all along.  After the last page the rest lies behind the total.
LEMMA WalkRows ==
  ASSUME TypeOK, WalkInv, Rows
  PROVE  WalkInv'
<1> DEFINE o == Offset
           twice == Data \cap walk.seen
           ends == walk.page >= TotalPages(walk.total)
<1>1. /\ Walking /\ walk.pc = "rows" /\ listed' = listed
      /\ walk'.pc = IF ends THEN "done" ELSE "count"
      /\ walk'.page = IF ends THEN walk.page ELSE walk.page + 1
      /\ walk'.ids = {} /\ walk'.seen = walk.seen \cup Data
      /\ walk'.again = walk.again + Cardinality(twice)
      /\ walk'.stay = walk.stay /\ walk'.came = walk.came
      /\ walk'.gone = walk.gone /\ walk'.late = walk.late
  BY DEF Rows, Walking, TypeOK, Walks
<1>2. /\ listed \in SUBSET Nat /\ IsFiniteSet(listed) /\ Cardinality(listed) \in Nat
      /\ walk.stay \in SUBSET listed
      /\ walk.again \in Nat /\ walk.came \in Nat /\ walk.gone \in Nat
      /\ walk.total \in Nat /\ walk.late \in Nat
      /\ walk.page \in Nat \ {0}
  BY Facts
<1>3. o \in Nat /\ o = walk.page * Limit
  BY <1>1, OffsetType DEF Offset
<1>4. /\ Shown = walk.seen \cup walk.ids
      /\ walk'.stay \ walk'.seen = walk.stay \ Shown
      /\ Shown' = walk.seen \cup Data
      /\ Skipped = Passed(listed, walk.stay \ Shown, o)
      /\ Pushed = Behind(listed, Shown, o)
      /\ Pushed = Behind(listed, Shown', o)
  BY <1>1, <1>2 DEF Data, Shown, Skipped, Pushed, Behind
<1>5. /\ Cardinality(Skipped) <= walk.gone
      /\ Cardinality(Pushed) + Repeated <= walk.came
      /\ Cardinality(listed) <= walk.total + walk.late
  BY <1>1 DEF WalkInv
<1>6. /\ IsFiniteSet(Skipped) /\ Cardinality(Skipped) \in Nat
      /\ IsFiniteSet(Pushed) /\ Cardinality(Pushed) \in Nat
  BY <1>2, <1>4, FS_Subset, FS_CardinalityType DEF Passed, Behind
<1>7. walk'.again \in Nat /\ walk'.again <= Repeated /\ Repeated \in Nat
  <2>1. twice \subseteq walk.ids \cap walk.seen
    BY DEF Data
  <2>2. /\ Cardinality(twice) <= Cardinality(walk.ids \cap walk.seen)
        /\ Cardinality(twice) \in Nat
    BY <2>1, OffsetType, FS_Subset, FS_CardinalityType
  <2>3. QED
    BY <1>1, <1>2, <2>2, OffsetType DEF Repeated
<1>8. walk'.again <= walk'.came /\ Cardinality(Pushed) + walk'.again <= walk'.came
  BY <1>1, <1>2, <1>5, <1>6, <1>7
<1>9. ends => o >= walk.total
  BY <1>2, <1>3, PagesHoldAll
<1> HIDE DEF o, ends
<1>10. CASE ends
  <2> DEFINE missed == walk.stay \ Shown
             rest == Behind(listed, listed, o)
  <2>1. Cardinality(listed) <= o + walk.late
    BY <1>2, <1>3, <1>5, <1>9, <1>10
  <2>2. /\ IsFiniteSet(rest) /\ Cardinality(rest) \in Nat
        /\ Cardinality(rest) <= walk.late
    BY <1>2, <1>3, <2>1, BehindBounded
  <2>3. missed \subseteq Skipped \cup rest
    <3>1. \A i \in missed : i \in listed /\ Rank(listed, i) \in Nat
      BY <1>2, RankType
    <3>2. QED
      BY <1>3, <1>4, <3>1 DEF Passed, Behind
  <2> HIDE DEF rest, missed
  <2>4. /\ IsFiniteSet(Skipped \cup rest)
        /\ Cardinality(Skipped \cup rest) <= Cardinality(Skipped) + Cardinality(rest)
    <3>1. Cardinality(Skipped \cap rest) \in Nat
      BY <1>6, <2>2, FS_Intersection, FS_CardinalityType
    <3>2. Cardinality(Skipped \cup rest)
            = Cardinality(Skipped) + Cardinality(rest) - Cardinality(Skipped \cap rest)
      BY <1>6, <2>2, FS_Union
    <3>3. QED
      BY <1>6, <2>2, <3>1, <3>2, FS_Union
  <2>5. /\ Cardinality(missed) <= Cardinality(Skipped \cup rest)
        /\ Cardinality(missed) \in Nat /\ Cardinality(Skipped \cup rest) \in Nat
    BY <2>3, <2>4, FS_Subset, FS_CardinalityType
  <2>6. Cardinality(missed) <= walk.gone + walk.late
    BY <1>2, <1>5, <1>6, <2>2, <2>4, <2>5
  <2>7. walk'.stay \ walk'.seen = missed
    BY <1>4 DEF missed
  <2>8. walk'.pc = "done"
    BY <1>1, <1>10
  <2>9. QED
    BY <1>1, <1>8, <2>6, <2>7, <2>8
    DEF WalkInv, Walking, MissedExplained, RepeatsExplained
<1>11. CASE ~ends
  <2>1. walk'.pc = "count" /\ walk'.page = walk.page + 1
    BY <1>1, <1>11
  <2>2. Offset' = o
    <3>1. Offset' = ((walk.page + 1) - 1) * Limit
      BY <2>1 DEF Offset
    <3>2. (walk.page + 1) - 1 = walk.page
      BY <1>2
    <3>3. QED
      BY <1>3, <3>1, <3>2
  <2>3. Skipped' = Skipped /\ Pushed' = Pushed
    <3>1. Shown' = walk'.seen
      BY <1>1, <1>4
    <3>2. QED
      BY <1>1, <1>4, <2>2, <3>1 DEF Skipped, Pushed
  <2>4. Repeated' = walk'.again
    <3>1. walk'.ids \cap walk'.seen = {}
      BY <1>1
    <3>2. QED
      BY <1>7, <3>1, FS_EmptySet DEF Repeated
  <2>5. QED
    BY <1>1, <1>5, <1>8, <2>1, <2>3, <2>4
    DEF WalkInv, MissedExplained, RepeatsExplained
<1>12. QED
  BY <1>10, <1>11

LEMMA WalkStep ==
  ASSUME TypeOK, WalkInv, [Next]_vars
  PROVE  WalkInv'
<1>1. CASE Start
  <2>1. /\ walk' = [NewWalk EXCEPT !.pc = "count", !.stay = listed]
        /\ UNCHANGED listed
    BY <1>1 DEF Start
  <2>2. /\ walk'.pc = "count" /\ walk'.page = 1 /\ walk'.seen = {}
        /\ walk'.ids = {} /\ walk'.again = 0 /\ walk'.came = 0 /\ walk'.gone = 0
    BY <2>1 DEF NewWalk
  <2>3. Offset' = 0 /\ Shown' = {} /\ Pushed' = {}
    BY <2>2, LimitAssumption DEF Offset, Shown, Pushed, Behind
  <2>3a. Repeated' = 0
    <3>1. walk'.ids \cap walk'.seen = {}
      BY <2>2
    <3>2. QED
      BY <2>2, <3>1, FS_EmptySet DEF Repeated
  <2>4. Skipped' = {}
    <3>1. \A i \in listed : 1 <= Rank(listed, i) /\ Rank(listed, i) \in Nat
      BY Facts, RankType
    <3>2. walk'.stay = listed
      BY <2>1 DEF NewWalk
    <3>3. QED
      BY <2>1, <2>3, <3>1, <3>2 DEF Skipped, Passed
  <2>5. QED
    BY <2>2, <2>3, <2>3a, <2>4, FS_EmptySet
       DEF WalkInv, MissedExplained, RepeatsExplained
<1>2. CASE Count
  <2>1. /\ Walking /\ walk'.pc = "fetch" /\ UNCHANGED listed
        /\ walk'.page = walk.page /\ walk'.seen = walk.seen
        /\ walk.pc = "count" /\ walk'.ids = walk.ids
        /\ walk'.stay = walk.stay /\ walk'.again = walk.again
        /\ walk'.came = walk.came /\ walk'.gone = walk.gone
        /\ walk'.total = Cardinality(listed) /\ walk'.late = 0
    BY <1>2 DEF Count, Walking, TypeOK, Walks
  <2>2. UNCHANGED <<Skipped, Pushed, Repeated>>
    BY <2>1 DEF Skipped, Pushed, Repeated, Shown, Offset
  <2>3. Cardinality(listed') <= walk'.total + walk'.late
    BY <2>1, Facts
  <2>4. QED
    BY <2>1, <2>2, <2>3 DEF WalkInv, MissedExplained, RepeatsExplained
<1>3. CASE Fetch
  BY <1>3, WalkFetch
<1>3a. CASE Rows
  BY <1>3a, WalkRows
<1>4. CASE UNCHANGED <<listed, walk>>
  BY <1>4 DEF WalkInv, Walking, Skipped, Pushed, Repeated, Shown, Offset,
              MissedExplained, RepeatsExplained
<1>5. CASE Create
  <2>1. created + 1 \in Nat \ listed
    <3>1. created \in Nat /\ listed \subseteq 1..created
      BY Facts DEF TypeOK
    <3>2. QED
      BY <3>1
  <2>2. QED
    BY <1>4, <1>5, <2>1, WalkCome DEF Create, Room
<1>6. ASSUME NEW i \in 1..created, Enter(i)
      PROVE  WalkInv'
  BY <1>6, WalkCome DEF Enter, Room
<1>7. ASSUME NEW i \in 1..created, Leave(i) \/ Remove(i)
      PROVE  WalkInv'
  BY <1>7, WalkGo DEF Leave, Remove, Room
<1>8. QED
  BY <1>1, <1>2, <1>3, <1>3a, <1>4, <1>5, <1>6, <1>7 DEF Next, vars

LEMMA WalkAlways == Spec => []WalkInv
<1>1. Init => WalkInv
  BY FS_EmptySet
     DEF Init, WalkInv, Walking, NewWalk, MissedExplained, RepeatsExplained
<1>2. QED
  BY <1>1, WalkStep, TypeCorrect, PTL DEF Spec

\* Of the rows that are listed all along, a walk misses at most one for each
\* row that goes under it and one for each that comes between its last count
\* and its last answer.
THEOREM MissesExplained == Spec => []MissedExplained
<1>1. WalkInv => MissedExplained
  BY DEF WalkInv
<1>2. QED
  BY <1>1, WalkAlways, PTL

\* A walk shows a row again at most once for each row that comes under it.
THEOREM RepetitionsExplained == Spec => []RepeatsExplained
<1>1. WalkInv => RepeatsExplained
  BY DEF WalkInv
<1>2. QED
  BY <1>1, WalkAlways, PTL
=============================================================================
