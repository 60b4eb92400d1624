---------------------------- MODULE Query_proofs ----------------------------
(***************************************************************************)
(* What the query surface answers: its pages (PagedRead) and its totals    *)
(* (Totals, as M).                                                         *)
(*                                                                         *)
(* The three properties of PagedRead hold for any rows, days, requests and *)
(* page sizes.  What carries them is where the walk stands: the pages      *)
(* handed over come down one order, the cursor is the last row of them, a  *)
(* row the walk found and nobody touched keeps the place it was read at,   *)
(* and one of them that was not handed over yet is still further down.     *)
(*                                                                         *)
(* The page itself is the order's first rows, by rank.  That every rank up *)
(* to the size of the set is taken is a pigeonhole: ranks are distinct and *)
(* below that size.                                                        *)
(*                                                                         *)
(* The theorems about Totals, for any banks, accounts and movements, go    *)
(* from the invariant MInv to what a summary counts in three steps.  Of    *)
(* the rows of a movement one is of the newest generation, older ones      *)
(* give way to it, and it gives way to none: each movement is counted      *)
(* once.  A sum over a finite set does not depend on the order it is       *)
(* taken in, so the groups of an answer add up to the rows, and the rows,  *)
(* one for one, to the movements. A pair id is where the pass over the     *)
(* table as it stands puts it, and that pass is a matching                 *)
(* (PairsAreMaximal).                                                      *)
(***************************************************************************)
EXTENDS PagedRead, Summary, FiniteSetTheorems, TLAPS

Places == [day : Days \cup {None}, id : Ids]
AnyRequest == Requests \cup {Quiet.request}
Walk == [phase : Assembling \cup {"idle", "over"}, request : AnyRequest,
         limit : Limits \cup {1}, after : Places \cup {NoPosition}, spans : SUBSET Ids,
         page : Seq(Places), end : Places \cup {NoPosition}, remaining : Nat, matching : Nat]
WhatWasSeen == [asked : AnyRequest, delivered : Seq(Places), steady : SUBSET Ids,
                split : BOOLEAN]
Reading == {"page", "remaining", "matching"}

\* Strictly further down: the order of Beyond, between two places.
Down(a, b) == a.day > b.day \/ (a.day = b.day /\ a.id > b.id)
InOrder(s) == \A m, n \in DOMAIN s : m < n => Down(s[m], s[n])
Given(i) == \E n \in DOMAIN seen.delivered : seen.delivered[n].id = i

-----------------------------------------------------------------------------
(* The invariant, by named parts *)

Types ==
    /\ rows \in [Ids -> Row]
    /\ walk \in Walk
    /\ seen \in WhatWasSeen

\* An answer is assembled for the request the walk began with, and the cursor
\* beside an answer was issued for that request, at the last row handed over.
OneQuestion ==
    /\ walk.phase \in Assembling => walk.request = seen.asked /\ seen.asked \in Requests
    /\ answer.kind = "none" => answer = NoAnswer
    /\ answer.cursor # NoCursor =>
          /\ seen.asked \in Requests
          /\ answer.cursor = IssuedFor(seen.asked, answer.cursor.position)
          /\ seen.delivered # <<>> /\ answer.cursor.position = Last(seen.delivered)
          /\ answer.cursor.position.day # None

\* Where the page being read starts, and that it goes down from there.
PageGoesDown ==
    /\ walk.phase \in Assembling =>
          IF walk.after = NoPosition THEN seen.delivered = <<>>
          ELSE /\ seen.delivered # <<>> /\ walk.after = Last(seen.delivered)
               /\ walk.after.day # None
    /\ walk.phase \notin Reading => walk.page = <<>>
    /\ walk.end = (IF walk.page = <<>> THEN NoPosition ELSE Last(walk.page))
    /\ InOrder(walk.page) /\ InOrder(seen.delivered)
    /\ walk.phase \in Reading /\ walk.after # NoPosition =>
          \A n \in DOMAIN walk.page : Down(walk.after, walk.page[n])

\* A row nobody touched is still at the place it was handed over at.
PlacesHold ==
    /\ \A n \in DOMAIN seen.delivered :
          seen.delivered[n].id \in seen.steady => seen.delivered[n] = Position(seen.delivered[n].id)
    /\ \A n \in DOMAIN walk.page :
          walk.page[n].id \in seen.steady => walk.page[n] = Position(walk.page[n].id)

\* A row nobody touched still matches the request, and no newer Item covers it.
SteadyMatches ==
    \A i \in seen.steady : /\ Selects(i, seen.asked, {})
                           /\ seen.asked.tool = "query_transactions" => ~rows[i].superseded

\* As long as no write lands inside an answer, the page and its count are what
\* the table holds, and a steady row not yet handed over is still ahead.
StillAhead ==
    ~seen.split =>
        /\ walk.phase \in Reading =>
              walk.page = Page(walk.request, walk.after, walk.spans, walk.limit)
        /\ walk.phase \in {"remaining", "matching"} =>
              walk.remaining = Cardinality(Selected(walk.request, walk.after, walk.spans))
        /\ \A i \in Stamped : ~Given(i) =>
              /\ walk.phase = "idle" => Beyond(i, answer.cursor.position)
              /\ walk.phase = "asked" => walk.after # NoPosition /\ Beyond(i, walk.after)
              /\ walk.phase \in Reading \cup {"spans"} =>
                    i \in Selected(walk.request, walk.after, walk.spans)
              /\ walk.phase = "over" => answer.kind # "rows"

IInv == /\ Types /\ OneQuestion /\ PageGoesDown /\ PlacesHold /\ SteadyMatches /\ StillAhead
        /\ WindowHoldsTheRows

-----------------------------------------------------------------------------
(* Ranks in a finite strict total order, given as its set of pairs *)

Before(R, S, i) == {j \in S : <<j, i>> \in R}
IsStrictOrder(R, S) ==
    /\ \A i \in S : <<i, i>> \notin R
    /\ \A i, j, k \in S : <<i, j>> \in R /\ <<j, k>> \in R => <<i, k>> \in R
    /\ \A i, j \in S : i # j => <<i, j>> \in R \/ <<j, i>> \in R

\* A rank counts others of the set, so it is below the set's size.
LEMMA RankIsBelow ==
    ASSUME NEW S, NEW R, IsFiniteSet(S), IsStrictOrder(R, S), NEW i \in S
    PROVE  /\ IsFiniteSet(Before(R, S, i))
           /\ Cardinality(Before(R, S, i)) \in 0 .. Cardinality(S) - 1
<1>1. Before(R, S, i) \in SUBSET (S \ {i})
  BY DEF Before, IsStrictOrder
<1>2. IsFiniteSet(S \ {i}) /\ Cardinality(S \ {i}) = Cardinality(S) - 1
  BY FS_RemoveElement
<1>3. /\ IsFiniteSet(Before(R, S, i))
      /\ Cardinality(Before(R, S, i)) <= Cardinality(S \ {i})
  BY <1>1, <1>2, FS_Subset
<1>4. Cardinality(Before(R, S, i)) \in Nat /\ Cardinality(S) \in Nat
  BY <1>3, FS_CardinalityType
<1> QED
  BY <1>2, <1>3, <1>4

\* Ranks follow the order.
LEMMA RankGrows ==
    ASSUME NEW S, NEW R, IsFiniteSet(S), IsStrictOrder(R, S), NEW i \in S, NEW k \in S,
           <<i, k>> \in R
    PROVE  Cardinality(Before(R, S, i)) < Cardinality(Before(R, S, k))
<1> DEFINE mine == Before(R, S, i)
           others == Before(R, S, k)
<1>1. IsFiniteSet(mine) /\ IsFiniteSet(others)
  BY RankIsBelow
<1>2. i \notin mine /\ mine \cup {i} \in SUBSET others
  BY DEF Before, IsStrictOrder
<1>3. Cardinality(mine \cup {i}) = Cardinality(mine) + 1
  BY <1>1, <1>2, FS_AddElement
<1>4. Cardinality(mine \cup {i}) <= Cardinality(others)
  BY <1>1, <1>2, FS_Subset
<1>5. Cardinality(mine) \in Nat /\ Cardinality(others) \in Nat
  BY <1>1, FS_CardinalityType
<1> QED
  BY <1>3, <1>4, <1>5

\* Every rank below the size is somebody's: distinct ranks fill the range.
LEMMA EveryRankIsTaken ==
    ASSUME NEW S, NEW R, IsFiniteSet(S), IsStrictOrder(R, S), NEW n \in 1 .. Cardinality(S)
    PROVE  \E i \in S : Cardinality(Before(R, S, i)) = n - 1
<1> DEFINE size == Cardinality(S)
           range == 0 .. size - 1
           rank == [i \in S |-> Cardinality(Before(R, S, i))]
<1>1. size \in Nat
  BY FS_CardinalityType
<1>2. IsFiniteSet(range) /\ Cardinality(range) = size
  <2>1. 0 \in Int /\ size - 1 \in Int
    BY <1>1
  <2>2. /\ IsFiniteSet(range)
        /\ Cardinality(range) = IF 0 > size - 1 THEN 0 ELSE (size - 1) - 0 + 1
    BY <2>1, FS_Interval
  <2> QED
    BY <2>2, <1>1
<1>3. rank \in [S -> range]
  BY RankIsBelow
<1>4. \A i, k \in S : rank[i] = rank[k] => i = k
  <2> SUFFICES ASSUME NEW i \in S, NEW k \in S, i # k PROVE rank[i] # rank[k]
    OBVIOUS
  <2>1. rank[i] \in Int /\ rank[k] \in Int
    BY <1>3, <1>1
  <2>2. rank[i] < rank[k] \/ rank[k] < rank[i]
    BY RankGrows DEF IsStrictOrder
  <2> QED
    BY <2>1, <2>2
<1>5. rank \in Injection(S, range)
  BY <1>3, <1>4 DEF Injection, IsInjective
<1>6. rank \in Surjection(S, range)
  BY <1>5, <1>2, FS_Injection
<1>7. n - 1 \in range
  BY <1>1
<1> QED
  BY <1>6, <1>7 DEF Surjection

\* Max and Min of finite sets of naturals are what they say.
LEMMA Extremes ==
    ASSUME NEW S \in SUBSET Nat, IsFiniteSet(S), S # {}
    PROVE  /\ Max(S) \in S /\ \A j \in S : Max(S) >= j
           /\ Min(S) \in S /\ \A j \in S : Min(S) <= j
<1> DEFINE R == {p \in S \X S : p[1] < p[2]}
           size == Cardinality(S)
<1>0. \A i, j \in S : <<i, j>> \in R <=> i < j
  OBVIOUS
<1>1. IsStrictOrder(R, S)
  BY <1>0 DEF IsStrictOrder
<1>2. size \in Nat /\ size # 0
  BY FS_CardinalityType, FS_EmptySet
<1> HIDE DEF R
<1>8. \A n \in 1 .. size : \E i \in S : Cardinality(Before(R, S, i)) = n - 1
  BY <1>1, EveryRankIsTaken
<1> HIDE DEF size
<1>3. PICK top \in S : Cardinality(Before(R, S, top)) = size - 1
  BY <1>2, <1>8
<1>4. PICK bottom \in S : Cardinality(Before(R, S, bottom)) = 1 - 1
  <2>1. 1 \in 1 .. size
    BY <1>2
  <2> QED
    BY <2>1, <1>8
<1>5. \A j \in S : top >= j
  <2> SUFFICES ASSUME NEW j \in S, top < j PROVE FALSE
    OBVIOUS
  <2>1. Cardinality(Before(R, S, top)) < Cardinality(Before(R, S, j))
    BY <1>0, <1>1, RankGrows
  <2>2. Cardinality(Before(R, S, j)) \in 0 .. size - 1
    BY <1>1, RankIsBelow DEF size
  <2> QED
    BY <1>2, <1>3, <2>1, <2>2
<1>6. \A j \in S : bottom <= j
  <2> SUFFICES ASSUME NEW j \in S, j < bottom PROVE FALSE
    OBVIOUS
  <2>1. Cardinality(Before(R, S, j)) < Cardinality(Before(R, S, bottom))
    BY <1>0, <1>1, RankGrows
  <2>2. Cardinality(Before(R, S, j)) \in 0 .. size - 1
    BY <1>1, RankIsBelow DEF size
  <2> QED
    BY <1>2, <1>4, <2>1, <2>2
<1>7. Max(S) \in S /\ \A j \in S : Max(S) >= j
  BY <1>5 DEF Max
<1>9. Min(S) \in S /\ \A j \in S : Min(S) <= j
  BY <1>6 DEF Min
<1> QED
  BY <1>7, <1>9

\* Of two numbers.
LEMMA OfTwo ==
    ASSUME NEW m \in Nat, NEW n \in Nat
    PROVE  /\ Max({m, n}) = (IF m >= n THEN m ELSE n)
           /\ Min({m, n}) = (IF m <= n THEN m ELSE n)
<1>1. IsFiniteSet({m, n})
  <2>1. {m, n} = {m} \cup {n} /\ IsFiniteSet({m})
    BY FS_Singleton
  <2> QED
    BY <2>1, FS_AddElement
<1>2. /\ Max({m, n}) \in {m, n} /\ \A j \in {m, n} : Max({m, n}) >= j
      /\ Min({m, n}) \in {m, n} /\ \A j \in {m, n} : Min({m, n}) <= j
  BY <1>1, Extremes
<1> QED
  BY <1>2

-----------------------------------------------------------------------------
(* The page: the first rows of what a statement selects *)

Typed == rows \in [Ids -> Row]

LEMMA Selection ==
    ASSUME NEW r, NEW after, NEW spans
    PROVE  /\ Selected(r, after, spans) \in SUBSET Ids
           /\ IsFiniteSet(Selected(r, after, spans))
           /\ Cardinality(Selected(r, after, spans)) \in Nat
<1>1. Selected(r, after, spans) \in SUBSET Ids
  BY DEF Selected, TransactionFilters, TradeFilters
<1> QED
  BY <1>1, FS_Subset, FS_CardinalityType, ReadAssumption

LEMMA Numbers ==
           /\ IsFiniteSet(Ids) /\ Ids \subseteq Nat /\ 0 \notin Ids
           /\ Days \subseteq Nat /\ None \notin Days /\ None = 0
           /\ Today \in Days
<1>1. IsFiniteSet(Ids) /\ Ids \subseteq Nat \ {0} /\ Days \subseteq Nat \ {0} /\ Today \in Days
  BY ReadAssumption
<1> QED
  BY <1>1 DEF None

LEMMA RowsAreTyped ==
    ASSUME Typed, NEW i \in Ids
    PROVE  /\ i \in Nat /\ i # 0 /\ rows[i].day \in Days \cup {None} /\ rows[i].day \in Nat
           /\ rows[i].posted \in Days /\ rows[i].day <= rows[i].posted
           /\ Position(i) \in Places /\ Position(i).id = i /\ Position(i).day = rows[i].day
<1>1. rows[i] \in Row
  BY DEF Typed
<1>2. rows[i].day \in Days \cup {None} /\ rows[i].posted \in Days /\ rows[i].day <= rows[i].posted
  BY <1>1 DEF Row
<1>3. i \in Nat /\ i # 0
  BY Numbers
<1>4. 0 \in Nat
  OBVIOUS
<1>5. rows[i].day \in Nat
  BY <1>2, <1>4, Numbers
<1>6. Position(i) \in Places
  BY <1>2 DEF Position, Places
<1> QED
  BY <1>2, <1>3, <1>5, <1>6 DEF Position

LEMMA PlacesAreNumbers ==
    ASSUME NEW place \in Places \cup {NoPosition}
    PROVE  place.day \in Nat /\ place.id \in Nat
<1>1. place.day \in Days \cup {0} /\ place.id \in Ids \cup {0}
  BY Numbers DEF Places, NoPosition
<1>2. 0 \in Nat
  OBVIOUS
<1> QED
  BY <1>1, <1>2, Numbers

\* Beyond is Down, for a row that has a day.
LEMMA BeyondIsDown ==
    ASSUME Typed, NEW i \in Ids, NEW place \in Places \cup {NoPosition}
    PROVE  Beyond(i, place) <=> rows[i].day # None /\ Down(place, Position(i))
<1>1. rows[i].day \in Nat /\ i \in Nat
  BY RowsAreTyped
<1>2. place.day \in Nat /\ place.id \in Nat
  BY PlacesAreNumbers
<1> QED
  BY <1>1, <1>2 DEF Beyond, Down, Position

Newest(set) == {p \in set \X set : NewestFirst(p[1], p[2])}

LEMMA NewestIsStrict ==
    ASSUME Typed, NEW found \in SUBSET Ids
    PROVE  /\ IsStrictOrder(Newest(found), found)
           /\ \A i, j \in found : <<i, j>> \in Newest(found) <=> NewestFirst(i, j)
           /\ \A i \in found : Before(Newest(found), found, i) = {j \in found : NewestFirst(j, i)}
<1>1. \A i \in found : rows[i].day \in Nat /\ i \in Nat
  BY RowsAreTyped
<1>2. \A i, j \in found : <<i, j>> \in Newest(found) <=> NewestFirst(i, j)
  BY DEF Newest
<1>3. IsStrictOrder(Newest(found), found)
  BY <1>1, <1>2 DEF IsStrictOrder, NewestFirst
<1> QED
  BY <1>2, <1>3 DEF Before

\* The first rows of a set, each at its place, in order; the set's other rows
\* are further down than all of them.
LEMMA FirstOnes ==
    ASSUME Typed, NEW found \in SUBSET Ids,
           NEW size \in Nat, size <= Cardinality(found),
           NEW page, page = [n \in 1 .. size |-> Position(Nth(found, n))]
    PROVE  /\ page \in Seq(Places) /\ Len(page) = size
           /\ \A n \in DOMAIN page : page[n].id \in found /\ page[n] = Position(page[n].id)
           /\ InOrder(page)
           /\ \A i \in found : \/ \E n \in DOMAIN page : page[n].id = i
                               \/ /\ \A n \in DOMAIN page : Down(page[n], Position(i))
                                  /\ size < Cardinality(found)
<1> DEFINE R == Newest(found)
           rank(i) == Cardinality(Before(R, found, i))
           all == Cardinality(found)
<1>1. IsFiniteSet(found)
  BY FS_Subset, ReadAssumption
<1>2. all \in Nat
  BY <1>1, FS_CardinalityType
<1>3. /\ IsStrictOrder(R, found)
      /\ \A i, j \in found : <<i, j>> \in R <=> NewestFirst(i, j)
      /\ \A i \in found : Before(R, found, i) = {j \in found : NewestFirst(j, i)}
  BY NewestIsStrict
<1> HIDE DEF R
<1>4. \A i \in found : rank(i) \in 0 .. all - 1
  BY <1>1, <1>3, RankIsBelow
<1>5. \A i, k \in found : NewestFirst(i, k) => rank(i) < rank(k)
  BY <1>1, <1>3, RankGrows
<1>6. \A n \in 1 .. all : \E i \in found : rank(i) = n - 1
  <2>1. IsStrictOrder(R, found)
    BY <1>3
  <2>2. \A n \in 1 .. Cardinality(found) :
           \E i \in found : Cardinality(Before(R, found, i)) = n - 1
    BY <1>1, <2>1, EveryRankIsTaken
  <2> QED
    BY <2>2
<1> HIDE DEF rank, all
<1>7. \A i, k \in found : i # k => NewestFirst(i, k) \/ NewestFirst(k, i)
  BY <1>3 DEF IsStrictOrder
<1>8. \A i, k \in found : rank(i) < rank(k) => NewestFirst(i, k)
  BY <1>2, <1>4, <1>5, <1>7
<1>9. \A i, k \in found : rank(i) = rank(k) => i = k
  BY <1>2, <1>4, <1>5, <1>7
<1>10. \A n \in 1 .. size : Nth(found, n) \in found /\ rank(Nth(found, n)) = n - 1
  <2> TAKE n \in 1 .. size
  <2>1. n \in 1 .. all
    BY <1>2 DEF all
  <2>2. \A i \in found : Cardinality({j \in found : NewestFirst(j, i)}) = rank(i)
    BY <1>3 DEF rank
  <2>3. \E i \in found : Cardinality({j \in found : NewestFirst(j, i)}) = n - 1
    BY <1>6, <2>1, <2>2
  <2>4. /\ Nth(found, n) \in found
        /\ Cardinality({j \in found : NewestFirst(j, Nth(found, n))}) = n - 1
    BY <2>3 DEF Nth
  <2> QED
    BY <2>2, <2>4
<1>11. \A i \in found : Position(i) \in Places /\ Position(i).id = i
  BY RowsAreTyped
<1>12. /\ page \in Seq(Places) /\ Len(page) = size /\ DOMAIN page = 1 .. size
       /\ \A n \in 1 .. size : page[n] = Position(Nth(found, n)) /\ page[n].id = Nth(found, n)
  <2>1. \A n \in 1 .. size : page[n] = Position(Nth(found, n))
    OBVIOUS
  <2>2. page \in [1 .. size -> Places]
    BY <1>10, <1>11
  <2>3. page \in Seq(Places) /\ Len(page) = size /\ DOMAIN page = 1 .. size
    BY <2>2
  <2> QED
    BY <2>1, <2>3, <1>10, <1>11
<1>13. \A i, k \in found : NewestFirst(i, k) => Down(Position(i), Position(k))
  BY DEF NewestFirst, Down, Position
<1>14. InOrder(page)
  <2> SUFFICES ASSUME NEW m \in 1 .. size, NEW n \in 1 .. size, m < n
               PROVE  Down(page[m], page[n])
    BY <1>12 DEF InOrder
  <2>1. rank(Nth(found, m)) < rank(Nth(found, n))
    BY <1>10
  <2> QED
    BY <2>1, <1>8, <1>10, <1>12, <1>13
<1>15. ASSUME NEW i \in found, ~ \E n \in 1 .. size : page[n].id = i
       PROVE  /\ \A n \in 1 .. size : Down(page[n], Position(i))
              /\ size < all
  <2>1. rank(i) \in Nat /\ rank(i) < all
    BY <1>2, <1>4
  <2>2. rank(i) >= size
    <3> SUFFICES ASSUME rank(i) < size PROVE FALSE
      BY <2>1
    <3>1. rank(i) + 1 \in 1 .. size
      BY <2>1
    <3>2. rank(Nth(found, rank(i) + 1)) = rank(i)
      BY <3>1, <2>1, <1>10
    <3>3. Nth(found, rank(i) + 1) = i
      BY <3>1, <3>2, <1>9, <1>10
    <3> QED
      BY <3>1, <3>3, <1>12, <1>15
  <2>3. ASSUME NEW n \in 1 .. size PROVE Down(page[n], Position(i))
    <3>1. rank(Nth(found, n)) < rank(i)
      BY <2>1, <2>2, <1>10
    <3> QED
      BY <3>1, <1>8, <1>10, <1>12, <1>13
  <2> QED
    BY <2>1, <2>2, <2>3, <1>2
<1> QED
  BY <1>10, <1>12, <1>14, <1>15 DEF all

\* What a page holds of what its statement selects.
LEMMA PageIs ==
    ASSUME Typed, NEW r, NEW after, NEW spans, NEW limit \in Nat
    PROVE  LET found == Selected(r, after, spans)
               page == Page(r, after, spans, limit)
           IN /\ page \in Seq(Places) /\ Len(page) <= Cardinality(found)
              /\ found # {} => page # <<>>
              /\ \A n \in DOMAIN page : page[n].id \in found /\ page[n] = Position(page[n].id)
              /\ InOrder(page)
              /\ \A i \in found : \/ \E n \in DOMAIN page : page[n].id = i
                                  \/ /\ \A n \in DOMAIN page : Down(page[n], Position(i))
                                     /\ Len(page) < Cardinality(found)
<1> DEFINE found == Selected(r, after, spans)
           page == Page(r, after, spans, limit)
           cap == Max({1, Min({limit, MaxRows})})
           size == Min({cap, Cardinality(found)})
<1>1. found \in SUBSET Ids /\ IsFiniteSet(found) /\ Cardinality(found) \in Nat
  BY Selection
<1>2. cap \in Nat /\ cap >= 1
  <2>1. MaxRows \in Nat
    BY ReadAssumption
  <2>2. Min({limit, MaxRows}) \in Nat
    BY <2>1, OfTwo
  <2> QED
    BY <2>2, OfTwo
<1> HIDE DEF cap
<1>3. size \in Nat /\ size <= Cardinality(found) /\ (Cardinality(found) # 0 => size # 0)
  BY <1>1, <1>2, OfTwo
<1>4. page = [n \in 1 .. size |-> Position(Nth(found, n))]
  BY DEF Page, cap
<1>5. found # {} => Cardinality(found) # 0
  BY <1>1, FS_EmptySet
<1> HIDE DEF found, page, size
<1>6. /\ page \in Seq(Places) /\ Len(page) = size
      /\ \A n \in DOMAIN page : page[n].id \in found /\ page[n] = Position(page[n].id)
      /\ InOrder(page)
      /\ \A i \in found : \/ \E n \in DOMAIN page : page[n].id = i
                          \/ /\ \A n \in DOMAIN page : Down(page[n], Position(i))
                             /\ size < Cardinality(found)
  BY <1>1, <1>3, <1>4, FirstOnes
<1>7. found # {} => page # <<>>
  BY <1>3, <1>5, <1>6
<1> QED
  BY <1>3, <1>6, <1>7 DEF found, page

-----------------------------------------------------------------------------
(* Cursors name their request *)

LEMMA FourWords ==
    ASSUME NEW a1, NEW a2, NEW a3, NEW a4, NEW b1, NEW b2, NEW b3, NEW b4,
           <<a1, a2, a3>> \o <<a4>> = <<b1, b2, b3>> \o <<b4>>
    PROVE  a1 = b1 /\ a2 = b2 /\ a3 = b3 /\ a4 = b4
<1> DEFINE a == <<a1, a2, a3>> \o <<a4>>
           b == <<b1, b2, b3>> \o <<b4>>
<1>1. a[1] = a1 /\ a[2] = a2 /\ a[3] = a3 /\ a[4] = a4
  OBVIOUS
<1>2. b[1] = b1 /\ b[2] = b2 /\ b[3] = b3 /\ b[4] = b4
  OBVIOUS
<1> QED
  BY <1>1, <1>2

LEMMA FiveWords ==
    ASSUME NEW a1, NEW a2, NEW a3, NEW a4, NEW a5, NEW b1, NEW b2, NEW b3, NEW b4, NEW b5,
           <<a1, a2, a3, a4, a5>> = <<b1, b2, b3, b4, b5>>
    PROVE  a2 = b2 /\ a3 = b3 /\ a4 = b4 /\ a5 = b5
  OBVIOUS

\* A cursor that was issued for one request is taken for no other.
LEMMA CursorNamesItsRequest ==
    ASSUME NEW q \in Requests, NEW r \in Requests, NEW place,
           CursorIsOf(IssuedFor(q, place), r)
    PROVE  r = q
<1>1. q \in Request /\ r \in Request
  BY ReadAssumption
<1>2. Scheme(q.tool) = Scheme(r.tool) /\ Fingerprint(q) = Fingerprint(r)
  BY DEF CursorIsOf, IssuedFor
<1>3. q.tool = r.tool
  BY <1>1, <1>2 DEF Request, Tools, Scheme
<1>4. q.since = r.since /\ q.until = r.until /\ q.account = r.account /\ q.kind = r.kind
  <2>1. CASE q.tool = "query_transactions"
    <3> DEFINE fix(x) == <<x.since, x.until, x.account>>
               tail(x) == IF x.kind = None THEN <<>> ELSE <<x.kind>>
    <3>1. fix(q) \o tail(q) = fix(r) \o tail(r)
      BY <1>2, <1>3, <2>1 DEF Fingerprint, RequestFingerprint
    <3>2. CASE q.kind = None /\ r.kind = None
      BY <3>1, <3>2
    <3>3. CASE q.kind # None /\ r.kind # None
      <4>1. <<q.since, q.until, q.account>> \o <<q.kind>>
            = <<r.since, r.until, r.account>> \o <<r.kind>>
        BY <3>1, <3>3
      <4> QED
        BY <4>1, FourWords
    <3>4. CASE ~(q.kind = None <=> r.kind = None)
      <4>1. Len(fix(q) \o tail(q)) # Len(fix(r) \o tail(r))
        BY <3>4
      <4> QED
        BY <3>1, <4>1
    <3> QED
      BY <3>2, <3>3, <3>4
  <2>2. CASE q.tool # "query_transactions"
    <3>1. /\ Fingerprint(q) = <<"trades", q.since, q.until, q.account, q.kind>>
          /\ Fingerprint(r) = <<"trades", r.since, r.until, r.account, r.kind>>
      BY <1>3, <2>2 DEF Fingerprint, TradeFingerprint
    <3>2. <<"trades", q.since, q.until, q.account, q.kind>>
          = <<"trades", r.since, r.until, r.account, r.kind>>
      BY <1>2, <3>1
    <3> QED
      BY <3>2, FiveWords
  <2> QED
    BY <2>1, <2>2
<1> QED
  BY <1>1, <1>3, <1>4 DEF Request

LEMMA IssuedIsACursor ==
    ASSUME NEW r, NEW place
    PROVE  IssuedFor(r, place) # NoCursor /\ IssuedFor(r, place).position = place
  BY DEF IssuedFor, NoCursor, Scheme

-----------------------------------------------------------------------------
(* The effective window *)

\* The window over the days a table covers, if there is one, holds of each row one
\* of its two dates on either side: day, by which the request selects, and d, which
\* is one of the days covered; when no caveat says so, it is the window asked for.
IsWindow(w, r, days) ==
    /\ w.since # None =>
          \A day \in Nat, d \in days :
              /\ day <= d
              /\ (r.since = None \/ day >= r.since) /\ (r.until = None \/ day <= r.until)
              => w.since <= d /\ day <= w.until
    /\ days # {} /\ w.caveats = {} =>
          /\ w.since # None /\ w.until # None
          /\ r.since \in {None, w.since} /\ r.until \in {None, w.until}

LEMMA WindowIs ==
    ASSUME NEW r \in Requests, NEW days \in SUBSET Days, IsFiniteSet(days)
    PROVE  IsWindow(ResolveWindow(r, days), r, days)
<1> DEFINE w == ResolveWindow(r, days)
           earliest == Min(days)
           latest == Max(days)
           end == Max({Today, latest})
           since == IF r.since = None THEN earliest ELSE Max({r.since, earliest})
           until == IF r.until = None THEN end ELSE Min({r.until, end})
           before == \/ r.since # None /\ r.since < earliest
                     \/ r.until # None /\ r.until < earliest
           beyond == \/ r.until # None /\ r.until > end
                     \/ r.since # None /\ r.since > end
           covers == since <= until
<1>1. CASE days = {}
  BY <1>1 DEF ResolveWindow, IsWindow
<1>2. CASE days # {}
  <2>1. days \in SUBSET Nat /\ IsFiniteSet(days) /\ None \notin days
    BY Numbers
  <2>2. /\ earliest \in days /\ \A d \in days : earliest <= d
        /\ latest \in days /\ \A d \in days : d <= latest
    BY <2>1, <1>2, Extremes
  <2> HIDE DEF earliest, latest
  <2>3. r.since \in Nat /\ r.until \in Nat
    <3>1. r \in Request
      BY ReadAssumption
    <3>2. r.since \in Days \cup {0} /\ r.until \in Days \cup {0} /\ 0 \in Nat
      BY <3>1, Numbers DEF Request
    <3> QED
      BY <3>2, Numbers
  <2>4. r.since # None /\ r.until # None => r.since <= r.until
    BY ReadAssumption
  <2>5. earliest \in Nat /\ latest \in Nat /\ Today \in Nat /\ earliest # 0 /\ latest # 0
    BY <2>1, <2>2, Numbers
  <2>6. end \in Nat /\ end >= latest /\ end >= Today
    BY <2>5, OfTwo
  <2> HIDE DEF end
  <2>7. since = (IF r.since = None THEN earliest ELSE IF r.since >= earliest THEN r.since ELSE earliest)
    BY <2>3, <2>5, OfTwo
  <2>8. until = (IF r.until = None THEN end ELSE IF r.until <= end THEN r.until ELSE end)
    BY <2>3, <2>6, OfTwo
  <2> HIDE DEF since, until
  <2>9. w = [since |-> IF covers THEN since ELSE None,
             until |-> IF covers THEN until ELSE None,
             caveats |-> (IF before THEN {"window_starts_before_coverage"} ELSE {})
                         \cup (IF beyond THEN {"window_extends_past_coverage"} ELSE {})]
    BY <1>2 DEF ResolveWindow, earliest, latest, end, since, until
  <2>10. /\ w.since = (IF covers THEN since ELSE None) /\ w.until = (IF covers THEN until ELSE None)
         /\ w.caveats = {} => ~before /\ ~beyond
    BY <2>9
  <2> HIDE DEF w
  <2>11. ASSUME w.since # None, NEW day \in Nat, NEW d \in days, day <= d,
                r.since = None \/ day >= r.since, r.until = None \/ day <= r.until
         PROVE  w.since <= d /\ day <= w.until
    <3>1. d \in Nat /\ earliest <= d /\ d <= latest
      BY <2>1, <2>2
    <3>2. since <= d /\ day <= until
      BY <3>1, <2>3, <2>5, <2>6, <2>7, <2>8, <2>11
    <3> QED
      BY <3>2, <2>10, <2>11, Numbers
  <2>12. ASSUME w.caveats = {}
         PROVE  /\ w.since # None /\ w.until # None
                /\ r.since \in {None, w.since} /\ r.until \in {None, w.until}
    <3>1. ~before /\ ~beyond
      BY <2>10, <2>12
    <3>2. earliest <= latest
      BY <2>2
    <3>3. since <= until /\ since # 0 /\ until # 0 /\ since \in Nat /\ until \in Nat
          /\ (r.since # 0 => since = r.since) /\ (r.until # 0 => until = r.until)
      BY <3>1, <3>2, <2>3, <2>4, <2>5, <2>6, <2>7, <2>8, Numbers
    <3> QED
      BY <3>3, <2>10, Numbers
  <2> QED
    BY <2>11, <2>12 DEF w, IsWindow
<1> QED
  BY <1>1, <1>2

LEMMA CoveringIs ==
    ASSUME Typed, NEW tool
    PROVE  /\ Covering(tool) \in SUBSET Days /\ IsFiniteSet(Covering(tool))
           /\ \A i \in Ids : rows[i].state = "live" /\ rows[i].tool = tool
                            => rows[i].posted \in Covering(tool)
<1> DEFINE live == {j \in Ids : rows[j].state = "live" /\ rows[j].tool = tool}
           days == {rows[i].posted : i \in live}
           day == [i \in live |-> rows[i].posted]
<1>1. Covering(tool) = days
  BY DEF Covering
<1>2. IsFiniteSet(live)
  BY Numbers, FS_Subset
<1>3. day \in Surjection(live, days)
  BY DEF Surjection
<1>4. IsFiniteSet(days)
  BY <1>2, <1>3, FS_Surjection
<1>5. \A i \in Ids : rows[i].posted \in Days
  BY RowsAreTyped
<1> QED
  BY <1>1, <1>4, <1>5

-----------------------------------------------------------------------------
(* The writer *)

\* Whatever a writer does is one write of a whole table.
LEMMA WriterWrites ==
    ASSUME Typed, Writer
    PROVE  \E table \in [Ids -> Row] : Write(table)
<1>1. ASSUME NEW i \in Ids, Insert(i)
      PROVE  \E table \in [Ids -> Row] : Write(table)
  <2>1. PICK day \in Days, posted \in Days :
          /\ IF rows[i].tool = "query_transactions" THEN day <= posted ELSE day = posted
          /\ Write([rows EXCEPT ![i] = [rows[i] EXCEPT !.state = "live", !.day = day, !.posted = posted]])
    BY <1>1 DEF Insert, Typed
  <2>2. day <= posted
    BY <2>1, Numbers
  <2>3. [rows[i] EXCEPT !.state = "live", !.day = day, !.posted = posted] \in Row
    BY <2>2 DEF Typed, Row
  <2>4. [rows EXCEPT ![i] = [rows[i] EXCEPT !.state = "live", !.day = day, !.posted = posted]]
        \in [Ids -> Row]
    BY <2>3 DEF Typed
  <2> QED
    BY <2>1, <2>4
<1>2. ASSUME NEW i \in Ids, SoftDelete(i)
      PROVE  \E table \in [Ids -> Row] : Write(table)
  <2>1. [rows EXCEPT ![i].state = "removed"] \in [Ids -> Row]
    BY DEF Typed, Row
  <2> QED
    BY <2>1, <1>2 DEF SoftDelete
<1>3. ASSUME NEW i \in Ids, Supersede(i)
      PROVE  \E table \in [Ids -> Row] : Write(table)
  <2>1. [rows EXCEPT ![i].superseded = TRUE] \in [Ids -> Row]
    BY DEF Typed, Row
  <2> QED
    BY <2>1, <1>3 DEF Supersede
<1>4. ASSUME NEW i \in Ids, NEW kind \in Kinds, NEW posted \in Days, Modify(i, kind, posted)
      PROVE  \E table \in [Ids -> Row] : Write(table)
  <2> DEFINE sent == [rows[i] EXCEPT !.state = "live", !.kind = kind, !.posted = posted]
  <2>1. sent \in Row
    BY <1>4 DEF Typed, Row, Modify
  <2>2. [rows EXCEPT ![i] = sent] \in [Ids -> Row]
    BY <2>1 DEF Typed
  <2>3. Write([rows EXCEPT ![i] = sent])
    BY <1>4 DEF Modify, Typed
  <2> QED
    BY <2>2, <2>3
<1>5. ASSUME NEW i \in Ids, NEW kind \in Kinds, NEW day \in Days, ModifyTrade(i, kind, day)
      PROVE  \E table \in [Ids -> Row] : Write(table)
  <2>1. day <= day
    BY Numbers
  <2> DEFINE sent == [rows[i] EXCEPT !.state = "live", !.kind = kind, !.day = day, !.posted = day]
  <2>2. sent \in Row
    BY <2>1 DEF Typed, Row
  <2>3. [rows EXCEPT ![i] = sent] \in [Ids -> Row]
    BY <2>2 DEF Typed
  <2>4. Write([rows EXCEPT ![i] = sent])
    BY <1>5 DEF ModifyTrade, Typed
  <2> QED
    BY <2>3, <2>4
<1>6. ASSUME Stamp
      PROVE  \E table \in [Ids -> Row] : Write(table)
  <2>1. PICK days \in [Ids -> Days] :
          /\ \A i \in Ids : days[i] <= rows[i].posted
          /\ Write([i \in Ids |-> IF rows[i].day = None THEN [rows[i] EXCEPT !.day = days[i]]
                                                       ELSE rows[i]])
    BY <1>6 DEF Stamp
  <2>2. [i \in Ids |-> IF rows[i].day = None THEN [rows[i] EXCEPT !.day = days[i]] ELSE rows[i]]
        \in [Ids -> Row]
    BY <2>1 DEF Typed, Row
  <2> QED
    BY <2>1, <2>2
<1> QED
  BY <1>1, <1>2, <1>3, <1>4, <1>5, <1>6 DEF Writer

LEMMA WriteStep ==
    ASSUME IInv, NEW table \in [Ids -> Row], Write(table)
    PROVE  IInv'
<1> USE DEF IInv
<1>1. /\ rows' = table /\ walk' = walk /\ answer' = answer
      /\ seen' = [seen EXCEPT !.steady = {i \in @ : table[i] = rows[i]},
                               !.split = @ \/ walk.phase \in Assembling \ {"asked"}]
  BY DEF Write, Observe
<1>2. /\ seen'.asked = seen.asked /\ seen'.delivered = seen.delivered
      /\ seen'.steady = {i \in seen.steady : table[i] = rows[i]}
      /\ seen'.split = (seen.split \/ walk.phase \in Assembling \ {"asked"})
      /\ seen'.steady \in SUBSET seen.steady /\ seen.steady \in SUBSET Ids
  BY <1>1 DEF Types, WhatWasSeen
<1>3. \A i \in seen'.steady : rows'[i] = rows[i]
  BY <1>1, <1>2
<1>4. Types'
  BY <1>1, <1>2 DEF Types, WhatWasSeen
<1>5. OneQuestion'
  BY <1>1, <1>2 DEF OneQuestion
<1>6. PageGoesDown'
  BY <1>1, <1>2 DEF PageGoesDown
<1>7. PlacesHold'
  BY <1>1, <1>2, <1>3 DEF PlacesHold, Position
<1>8. SteadyMatches'
  BY <1>1, <1>2, <1>3 DEF SteadyMatches, Selects, OnOrAfter, OnOrBefore
<1>9. StillAhead'
  <2> SUFFICES ASSUME ~seen'.split PROVE StillAhead'
    BY DEF StillAhead
  <2>1. ~seen.split /\ walk.phase \notin Assembling \ {"asked"}
    BY <1>2
  <2>2. walk.phase \notin Reading \cup {"spans"} /\ walk.phase \notin {"remaining", "matching"}
    BY <2>1 DEF Assembling, Reading
  <2>3. \A i \in Stamped' : i \in Stamped /\ rows'[i] = rows[i]
    BY <1>2, <1>3 DEF Stamped
  <2>4. \A i : Given(i)' <=> Given(i)
    BY <1>2 DEF Given
  <2>5. ASSUME NEW i \in Stamped', ~Given(i)'
        PROVE  /\ walk.phase = "idle" => Beyond(i, answer.cursor.position)'
               /\ walk.phase = "asked" => walk.after # NoPosition /\ Beyond(i, walk.after)'
               /\ walk.phase = "over" => answer.kind # "rows"
    <3>1. i \in Stamped /\ ~Given(i) /\ rows'[i] = rows[i]
      BY <2>3, <2>4, <2>5
    <3> QED
      BY <1>1, <2>1, <3>1 DEF StillAhead, Beyond
  <2> QED
    BY <1>1, <2>2, <2>5 DEF StillAhead
<1>10. WindowHoldsTheRows'
  BY <1>1, <1>2 DEF WindowHoldsTheRows
<1> QED
  BY <1>4, <1>5, <1>6, <1>7, <1>8, <1>9, <1>10

-----------------------------------------------------------------------------
(* The caller *)

\* What the caller's record is as an answer is asked for, and as a walk ends.
Fresh(w, p, r, after) ==
    /\ w \in Walk /\ w.phase = p /\ w.request = r /\ w.after = after
    /\ w.page = <<>> /\ w.end = NoPosition

LEMMA QuietIs ==
    /\ \A p \in Assembling \cup {"idle", "over"} :
          Fresh([Quiet EXCEPT !.phase = p], p, Quiet.request, NoPosition)
    /\ \A r \in Requests, limit \in Limits :
          Fresh([Quiet EXCEPT !.phase = "asked", !.request = r, !.limit = limit],
                "asked", r, NoPosition)
    /\ \A r \in Requests, limit \in Limits, after \in Places :
          Fresh([Quiet EXCEPT !.phase = "asked", !.request = r, !.limit = limit, !.after = after],
                "asked", r, after)
<1>1. Quiet.request \in AnyRequest /\ "asked" \in Assembling
  BY DEF AnyRequest, Assembling
<1>2. Fresh(Quiet, "idle", Quiet.request, NoPosition)
  BY <1>1 DEF Fresh, Walk, Quiet, AnyRequest
<1>3. \A p \in Assembling \cup {"idle", "over"} :
         Fresh([Quiet EXCEPT !.phase = p], p, Quiet.request, NoPosition)
  BY <1>2 DEF Fresh, Walk
<1>4. \A r \in Requests, limit \in Limits :
         Fresh([Quiet EXCEPT !.phase = "asked", !.request = r, !.limit = limit],
               "asked", r, NoPosition)
  BY <1>1, <1>2 DEF Fresh, Walk, AnyRequest
<1>5. \A r \in Requests, limit \in Limits, after \in Places :
         Fresh([Quiet EXCEPT !.phase = "asked", !.request = r, !.limit = limit, !.after = after],
               "asked", r, after)
  BY <1>1, <1>2 DEF Fresh, Walk, AnyRequest
<1> QED
  BY <1>3, <1>4, <1>5

\* An answer without rows carries no cursor.
LEMMA NoAnswerIs ==
    /\ NoAnswer.kind = "none" /\ NoAnswer.cursor = NoCursor
    /\ \A kind : /\ [NoAnswer EXCEPT !.kind = kind].kind = kind
                 /\ [NoAnswer EXCEPT !.kind = kind].cursor = NoCursor
  BY DEF NoAnswer

LEMMA AskStep ==
    ASSUME IInv, NEW r \in Requests, NEW limit \in Limits, Ask(r, limit)
    PROVE  IInv'
<1> USE DEF IInv
<1>1. answer = NoAnswer /\ answer' = answer /\ rows' = rows
  BY DEF Ask, OneQuestion
<1>2. /\ walk' \in Walk /\ walk'.phase = "asked" /\ walk'.request = r /\ walk'.after = NoPosition
      /\ walk'.page = <<>> /\ walk'.end = NoPosition
  <2>1. Fresh(walk', "asked", r, NoPosition)
    BY QuietIs DEF Ask
  <2> QED
    BY <2>1 DEF Fresh
<1>3. /\ seen' \in WhatWasSeen /\ seen'.asked = r /\ seen'.delivered = <<>>
      /\ seen'.steady = {} /\ seen'.split = FALSE
  <2>1. /\ NothingSeen \in WhatWasSeen /\ NothingSeen.delivered = <<>>
        /\ NothingSeen.steady = {} /\ NothingSeen.split = FALSE
    BY DEF NothingSeen, WhatWasSeen, AnyRequest
  <2>2. seen' = [NothingSeen EXCEPT !.asked = r] /\ r \in AnyRequest
    BY DEF Ask, AnyRequest
  <2> QED
    BY <2>1, <2>2 DEF WhatWasSeen
<1>4. answer.kind = "none" /\ answer.cursor = NoCursor
  BY <1>1, NoAnswerIs
<1>5. Types'
  BY <1>1, <1>2, <1>3 DEF Types
<1>6. OneQuestion'
  BY <1>1, <1>2, <1>3, <1>4 DEF OneQuestion
<1>7. PageGoesDown'
  BY <1>1, <1>2, <1>3 DEF PageGoesDown, InOrder, Reading
<1>8. PlacesHold' /\ SteadyMatches'
  BY <1>1, <1>2, <1>3 DEF PlacesHold, SteadyMatches
<1>9. StillAhead'
  BY <1>1, <1>2, <1>3 DEF StillAhead, Stamped, Reading
<1>10. WindowHoldsTheRows'
  BY <1>1, <1>4 DEF WindowHoldsTheRows
<1> QED
  BY <1>5, <1>6, <1>7, <1>8, <1>9, <1>10

\* What a statement that opens a walk finds, or one that goes on finds again.
SteadyFound(spans) ==
    /\ seen' \in WhatWasSeen
    /\ seen'.asked = seen.asked /\ seen'.delivered = seen.delivered /\ seen'.split = seen.split
    /\ \A n \in DOMAIN seen.delivered :
          seen.delivered[n].id \in seen'.steady => seen.delivered[n] = Position(seen.delivered[n].id)
    /\ SteadyMatches'
    /\ ~seen.split => \A i \in Stamped' : ~Given(i) => i \in Selected(walk.request, walk.after, spans)

LEMMA SteadyIsFound ==
    ASSUME IInv, walk.phase = "asked", rows' = rows, NEW spans,
           walk.request.tool = "query_transactions" =>
              spans = {i \in Ids : rows[i].state # "absent" /\ rows[i].superseded},
           seen' = IF walk.after = NoPosition
                   THEN [seen EXCEPT !.steady = Selected(walk.request, NoPosition, spans)]
                   ELSE seen
    PROVE  SteadyFound(spans)
<1> USE DEF IInv
<1>1. walk.request = seen.asked /\ seen \in WhatWasSeen /\ seen.steady \in SUBSET Ids
  BY DEF OneQuestion, Types, Assembling, WhatWasSeen
<1>2. CASE walk.after = NoPosition
  <2> DEFINE found == Selected(walk.request, NoPosition, spans)
  <2>1. seen' = [seen EXCEPT !.steady = found] /\ found \in SUBSET Ids
    BY <1>2, Selection
  <2>2. \A i \in found : /\ Selects(i, walk.request, {})
                         /\ walk.request.tool = "query_transactions" => ~rows[i].superseded
    BY DEF Selected, TransactionFilters, TradeFilters, Selects
  <2> HIDE DEF found
  <2>3. /\ seen' \in WhatWasSeen
        /\ seen'.asked = seen.asked /\ seen'.delivered = seen.delivered /\ seen'.split = seen.split
        /\ seen'.steady = found
    BY <1>1, <2>1 DEF WhatWasSeen
  <2>4. seen.delivered = <<>>
    BY <1>2 DEF PageGoesDown, Assembling
  <2>5. SteadyMatches'
    BY <1>1, <2>2, <2>3 DEF SteadyMatches, Selects, OnOrAfter, OnOrBefore
  <2>6. Stamped' \in SUBSET found
    BY <2>3 DEF Stamped
  <2> QED
    BY <1>2, <2>3, <2>4, <2>5, <2>6 DEF SteadyFound, found
<1>3. CASE walk.after # NoPosition
  <2>1. seen' = seen
    BY <1>3
  <2>2. SteadyMatches'
    BY <2>1 DEF SteadyMatches, Selects, OnOrAfter, OnOrBefore
  <2>3. ASSUME ~seen.split, NEW i \in Stamped', ~Given(i)
        PROVE  i \in Selected(walk.request, walk.after, spans)
    <3>1. i \in Stamped /\ i \in seen.steady /\ i \in Ids
      BY <2>1, <2>3, <1>1 DEF Stamped
    <3>2. Beyond(i, walk.after)
      BY <2>3, <3>1 DEF StillAhead
    <3>3. /\ Selects(i, walk.request, {})
          /\ walk.request.tool = "query_transactions" => ~rows[i].superseded
      BY <1>1, <3>1 DEF SteadyMatches
    <3>4. walk.request.tool = "query_transactions" => i \notin spans
      BY <3>3
    <3>5. Selects(i, walk.request, {}) /\ i \notin spans => Selects(i, walk.request, spans)
      BY DEF Selects
    <3> QED
      BY <3>1, <3>2, <3>3, <3>4, <3>5 DEF Selected, TransactionFilters, TradeFilters
  <2> QED
    BY <1>1, <2>1, <2>2, <2>3 DEF SteadyFound, PlacesHold
<1> QED
  BY <1>2, <1>3

\* A refusal ends the walk; what was handed over stands.
LEMMA RefuseStep ==
    ASSUME IInv, Refuse, rows' = rows, seen' \in WhatWasSeen,
           seen'.asked = seen.asked, seen'.delivered = seen.delivered, seen'.split = seen.split,
           \A n \in DOMAIN seen.delivered :
              seen.delivered[n].id \in seen'.steady
              => seen.delivered[n] = Position(seen.delivered[n].id),
           SteadyMatches'
    PROVE  IInv'
<1> USE DEF IInv
<1>1. /\ walk' \in Walk /\ walk'.phase = "over" /\ walk'.page = <<>> /\ walk'.end = NoPosition
  BY QuietIs DEF Refuse, Fresh
<1>2. answer'.kind = "invalid_argument" /\ answer'.cursor = NoCursor
  BY NoAnswerIs DEF Refuse
<1>3. Types'
  BY <1>1 DEF Types
<1>4. OneQuestion'
  BY <1>1, <1>2 DEF OneQuestion, Assembling
<1>5. PageGoesDown'
  BY <1>1 DEF PageGoesDown, InOrder, Reading, Assembling
<1>6. PlacesHold'
  <2>1. walk'.page = <<>>
    BY <1>1
  <2>2. \A i : Position(i)' = Position(i)
    BY DEF Position
  <2> QED
    BY <2>1, <2>2 DEF PlacesHold
<1>7. StillAhead'
  BY <1>1, <1>2 DEF StillAhead, Reading
<1>8. WindowHoldsTheRows'
  BY <1>2 DEF WindowHoldsTheRows
<1> QED
  BY <1>3, <1>4, <1>5, <1>6, <1>7, <1>8

\* Following the cursor with the request it names goes on below it.
LEMMA FollowStep ==
    ASSUME IInv, NEW r \in Requests, NEW limit \in Limits, Follow(r, limit)
    PROVE  IInv'
<1> USE DEF IInv
<1> DEFINE place == answer.cursor.position
<1>1. /\ rows' = rows /\ seen' = seen /\ walk.phase = "idle" /\ answer.cursor # NoCursor
  BY DEF Follow
<1>2. SteadyMatches'
  BY <1>1 DEF SteadyMatches, Selects, OnOrAfter, OnOrBefore
<1>3. CASE ~CursorIsOf(answer.cursor, r)
  <2>1. Refuse
    BY <1>3 DEF Follow
  <2> QED
    BY <1>1, <1>2, <2>1, RefuseStep DEF Types, PlacesHold
<1>4. CASE CursorIsOf(answer.cursor, r)
  <2>1. /\ seen.asked \in Requests /\ answer.cursor = IssuedFor(seen.asked, place)
        /\ seen.delivered # <<>> /\ place = Last(seen.delivered) /\ place.day # None
    BY <1>1 DEF OneQuestion
  <2>2. r = seen.asked
    BY <1>4, <2>1, CursorNamesItsRequest
  <2>3. place \in Places
    <3>1. seen.delivered \in Seq(Places)
      BY DEF Types, WhatWasSeen
    <3> QED
      BY <2>1, <3>1 DEF Last
  <2>4. /\ walk' \in Walk /\ walk'.phase = "asked" /\ walk'.request = r /\ walk'.after = place
        /\ walk'.page = <<>> /\ walk'.end = NoPosition /\ answer' = answer
    <3>1. Fresh(walk', "asked", r, place) /\ answer' = answer
      BY <1>4, <2>3, QuietIs DEF Follow
    <3> QED
      BY <3>1 DEF Fresh
  <2>5. Types'
    BY <1>1, <2>4 DEF Types
  <2>6. OneQuestion'
    BY <1>1, <2>2, <2>4 DEF OneQuestion
  <2>7. PageGoesDown'
    <3>1. place # NoPosition
      BY <2>1 DEF NoPosition
    <3> QED
      BY <1>1, <2>1, <2>4, <3>1 DEF PageGoesDown, InOrder, Reading
  <2>8. PlacesHold'
    <3>1. \A i : Position(i)' = Position(i)
      BY <1>1 DEF Position
    <3> QED
      BY <1>1, <2>4, <3>1 DEF PlacesHold
  <2>9. StillAhead'
    <3>1. ASSUME ~seen.split, NEW i \in Stamped, ~Given(i)
          PROVE  place # NoPosition /\ Beyond(i, place)
      BY <1>1, <2>1, <3>1 DEF StillAhead, NoPosition
    <3>2. Stamped' = Stamped /\ \A i : (Given(i)' <=> Given(i))
      BY <1>1 DEF Stamped, Given
    <3> QED
      BY <1>1, <2>4, <3>1, <3>2 DEF StillAhead, Reading, Beyond
  <2>10. WindowHoldsTheRows'
    BY <1>1, <2>4 DEF WindowHoldsTheRows
  <2> QED
    BY <1>2, <2>5, <2>6, <2>7, <2>8, <2>9, <2>10
<1> QED
  BY <1>3, <1>4

LEMMA ReadSpansStep ==
    ASSUME IInv, ReadSpans
    PROVE  IInv'
<1> USE DEF IInv
<1> DEFINE spans == {i \in Ids : rows[i].state # "absent" /\ rows[i].superseded}
<1>1. /\ rows' = rows /\ answer' = answer /\ walk.phase = "asked"
      /\ walk' = [walk EXCEPT !.phase = "spans", !.spans = spans]
  BY DEF ReadSpans
<1> HIDE DEF spans
<1>2. /\ walk'.phase = "spans" /\ walk'.request = walk.request /\ walk'.limit = walk.limit
      /\ walk'.after = walk.after /\ walk'.spans = spans /\ walk'.page = walk.page
      /\ walk'.end = walk.end
  BY <1>1 DEF Types, Walk
<1>3. SteadyFound(spans)
  <2>1. seen' = IF walk.after = NoPosition
                THEN [seen EXCEPT !.steady = Selected(walk.request, NoPosition, spans)]
                ELSE seen
    BY <1>2 DEF ReadSpans, spans
  <2> QED
    BY <1>1, <2>1, SteadyIsFound DEF spans
<1>4. walk.page = <<>>
  BY <1>1 DEF PageGoesDown, Reading
<1>5. Types'
  <2>1. spans \in SUBSET Ids
    BY DEF spans
  <2> QED
    BY <1>1, <1>3, <2>1 DEF Types, SteadyFound, Assembling, Walk
<1>6. OneQuestion'
  BY <1>1, <1>2, <1>3 DEF OneQuestion, SteadyFound, Assembling
<1>7. PageGoesDown'
  BY <1>1, <1>2, <1>3 DEF PageGoesDown, SteadyFound, Assembling, Reading
<1>8. PlacesHold'
  <2>1. \A i : Position(i)' = Position(i)
    BY <1>1 DEF Position
  <2> QED
    BY <1>2, <1>3, <1>4, <2>1 DEF PlacesHold, SteadyFound
<1>9. SteadyMatches'
  BY <1>3 DEF SteadyFound
<1>10. StillAhead'
  <2>1. \A i : Given(i)' <=> Given(i)
    BY <1>3 DEF Given, SteadyFound
  <2>2. Selected(walk.request, walk.after, walk.spans)' = Selected(walk.request, walk.after, spans)
    BY <1>1, <1>2 DEF Selected, TransactionFilters, TradeFilters, Selects, OnOrAfter, OnOrBefore, Beyond
  <2> QED
    BY <1>2, <1>3, <2>1, <2>2 DEF StillAhead, SteadyFound, Reading
<1>11. WindowHoldsTheRows'
  BY <1>1, <1>3 DEF WindowHoldsTheRows, SteadyFound
<1> QED
  BY <1>5, <1>6, <1>7, <1>8, <1>9, <1>10, <1>11

\* A page is taken as the table stands, from the cursor down.
LEMMA TakePageStep ==
    ASSUME IInv, walk.phase \in {"asked", "spans"}, rows' = rows, SteadyFound(walk.spans),
           TakePage(Page(walk.request, walk.after, walk.spans, walk.limit))
    PROVE  IInv'
<1> USE DEF IInv
<1> DEFINE page == Page(walk.request, walk.after, walk.spans, walk.limit)
           found == Selected(walk.request, walk.after, walk.spans)
           last == IF page = <<>> THEN NoPosition ELSE Last(page)
<1>1. walk' = [walk EXCEPT !.phase = "page", !.page = page, !.end = last] /\ answer' = answer
  BY DEF TakePage
<1>2. Typed /\ walk.limit \in Nat
  <2>1. walk.limit \in Limits \cup {1} /\ Limits \subseteq Nat
    BY ReadAssumption DEF Types, Walk
  <2>2. 1 \in Nat
    OBVIOUS
  <2> QED
    BY <2>1, <2>2 DEF Typed, Types
<1>3. /\ page \in Seq(Places)
      /\ \A n \in DOMAIN page : page[n].id \in found /\ page[n] = Position(page[n].id)
      /\ InOrder(page)
  BY <1>2, PageIs
<1>4. found \in SUBSET Ids
  BY Selection
<1>5. \A i \in found : walk.after # NoPosition => Beyond(i, walk.after)
  BY DEF Selected, TransactionFilters, TradeFilters
<1> HIDE DEF page, found, last
<1>6. last \in Places \cup {NoPosition}
  BY <1>3 DEF last, Last
<1>7. /\ walk'.phase = "page" /\ walk'.request = walk.request /\ walk'.limit = walk.limit
      /\ walk'.after = walk.after /\ walk'.spans = walk.spans /\ walk'.page = page
      /\ walk'.end = last
  BY <1>1 DEF Types, Walk
<1>8. Types'
  BY <1>1, <1>3, <1>6 DEF Types, SteadyFound, Assembling, Walk
<1>9. OneQuestion'
  BY <1>1, <1>7 DEF OneQuestion, SteadyFound, Assembling
<1>10. PageGoesDown'
  <2>1. ASSUME walk.after # NoPosition, NEW n \in DOMAIN page PROVE Down(walk.after, page[n])
    <3>1. page[n].id \in found /\ page[n] = Position(page[n].id) /\ page[n].id \in Ids
      BY <1>3, <1>4
    <3>2. walk.after \in Places \cup {NoPosition}
      BY DEF Types, Walk
    <3> QED
      BY <1>2, <1>5, <2>1, <3>1, <3>2, BeyondIsDown
  <2>2. InOrder(walk'.page) /\ InOrder(seen'.delivered)
    BY <1>3, <1>7 DEF SteadyFound, PageGoesDown
  <2>3. walk'.end = (IF walk'.page = <<>> THEN NoPosition ELSE Last(walk'.page))
    BY <1>7 DEF last
  <2> QED
    BY <1>7, <2>1, <2>2, <2>3 DEF PageGoesDown, SteadyFound, Assembling, Reading
<1>11. PlacesHold'
  <2>1. \A i : Position(i)' = Position(i)
    BY DEF Position
  <2> QED
    BY <1>3, <1>7, <2>1 DEF PlacesHold, SteadyFound
<1>12. SteadyMatches'
  BY DEF SteadyFound
<1>13. StillAhead'
  <2>1. \A i : Given(i)' <=> Given(i)
    BY DEF Given, SteadyFound
  <2>2. Selected(walk.request, walk.after, walk.spans)' = found
    BY <1>7 DEF found, Selected, TransactionFilters, TradeFilters, Selects, OnOrAfter, OnOrBefore, Beyond
  <2>3. \A set, n : Nth(set, n)' = Nth(set, n)
    BY DEF Nth, NewestFirst
  <2>4. Page(walk.request, walk.after, walk.spans, walk.limit)' = page
    BY <1>7, <2>2, <2>3 DEF Page, page, found, Position
  <2> QED
    BY <1>7, <2>1, <2>2, <2>4 DEF StillAhead, SteadyFound, Reading, found
<1>14. WindowHoldsTheRows'
  BY <1>1 DEF WindowHoldsTheRows, SteadyFound
<1> QED
  BY <1>8, <1>9, <1>10, <1>11, <1>12, <1>13, <1>14

LEMMA ReadTransactionsStep ==
    ASSUME IInv, ReadTransactions
    PROVE  IInv'
<1> USE DEF IInv
<1>1. walk.phase = "spans" /\ rows' = rows /\ seen' = seen
  BY DEF ReadTransactions
<1>2. SteadyMatches'
  BY <1>1 DEF SteadyMatches, Selects, OnOrAfter, OnOrBefore
<1>3. Stamped' = Stamped
  BY <1>1 DEF Stamped
<1>4. SteadyFound(walk.spans)
  BY <1>1, <1>2, <1>3 DEF SteadyFound, Types, PlacesHold, StillAhead
<1>5. CASE Refuse
  BY <1>1, <1>2, <1>5, RefuseStep DEF Types, PlacesHold
<1>6. CASE TakePage(Page(walk.request, walk.after, walk.spans, walk.limit))
  BY <1>1, <1>4, <1>6, TakePageStep
<1> QED
  BY <1>5, <1>6 DEF ReadTransactions

LEMMA ReadTradesStep ==
    ASSUME IInv, ReadTrades
    PROVE  IInv'
<1> USE DEF IInv
<1>1. walk.phase = "asked" /\ rows' = rows /\ walk.request.tool # "query_transactions"
  BY DEF ReadTrades
<1>2. \A after : Selected(walk.request, after, {}) = Selected(walk.request, after, walk.spans)
  BY <1>1 DEF Selected
<1>3. SteadyFound(walk.spans)
  <2>1. seen' = IF walk.after = NoPosition
                THEN [seen EXCEPT !.steady = Selected(walk.request, NoPosition, walk.spans)]
                ELSE seen
    BY <1>2 DEF ReadTrades
  <2> QED
    BY <1>1, <2>1, SteadyIsFound
<1>4. CASE Refuse
  BY <1>1, <1>3, <1>4, RefuseStep DEF SteadyFound
<1>5. CASE TakePage(Page(walk.request, walk.after, {}, walk.limit))
  <2>1. Page(walk.request, walk.after, {}, walk.limit)
        = Page(walk.request, walk.after, walk.spans, walk.limit)
    <3> DEFINE cap == Max({1, Min({walk.limit, MaxRows})})
               first(set) == [n \in 1 .. Min({cap, Cardinality(set)}) |-> Position(Nth(set, n))]
    <3>1. \A spans : Page(walk.request, walk.after, spans, walk.limit)
                    = first(Selected(walk.request, walk.after, spans))
      BY DEF Page
    <3> HIDE DEF first
    <3> QED
      BY <1>2, <3>1
  <2> QED
    BY <1>1, <1>3, <1>5, <2>1, TakePageStep
<1> QED
  BY <1>4, <1>5 DEF ReadTrades

\* A count changes nothing but what the answer will say of its rows.
LEMMA CountStep ==
    ASSUME IInv, walk.phase \in Reading, rows' = rows, answer' = answer, seen' = seen,
           NEW phase \in {"remaining", "matching"}, NEW remaining \in Nat, NEW matching \in Nat,
           walk' = [walk EXCEPT !.phase = phase, !.remaining = remaining, !.matching = matching],
           ~seen.split => remaining = Cardinality(Selected(walk.request, walk.after, walk.spans))
    PROVE  IInv'
<1> USE DEF IInv
<1>1. /\ walk'.phase = phase /\ walk'.request = walk.request /\ walk'.limit = walk.limit
      /\ walk'.after = walk.after /\ walk'.spans = walk.spans /\ walk'.page = walk.page
      /\ walk'.end = walk.end /\ walk'.remaining = remaining
  BY DEF Types, Walk
<1>2. Types'
  BY DEF Types, Walk, Assembling
<1>3. OneQuestion'
  BY <1>1 DEF OneQuestion, Assembling, Reading
<1>4. PageGoesDown'
  BY <1>1 DEF PageGoesDown, Assembling, Reading
<1>5. PlacesHold' /\ SteadyMatches'
  <2>1. \A i : Position(i)' = Position(i)
    BY DEF Position
  <2> QED
    BY <1>1, <2>1 DEF PlacesHold, SteadyMatches, Selects, OnOrAfter, OnOrBefore
<1>6. StillAhead'
  <2>1. Stamped' = Stamped /\ \A i : Given(i)' <=> Given(i)
    BY DEF Stamped, Given
  <2>2. Selected(walk.request, walk.after, walk.spans)' = Selected(walk.request, walk.after, walk.spans)
    BY <1>1 DEF Selected, TransactionFilters, TradeFilters, Selects, OnOrAfter, OnOrBefore, Beyond
  <2>3. \A set, n : Nth(set, n)' = Nth(set, n)
    BY DEF Nth, NewestFirst
  <2>4. Page(walk.request, walk.after, walk.spans, walk.limit)'
        = Page(walk.request, walk.after, walk.spans, walk.limit)
    BY <1>1, <2>2, <2>3 DEF Page, Position
  <2> QED
    BY <1>1, <2>1, <2>2, <2>4 DEF StillAhead, Reading
<1>7. WindowHoldsTheRows'
  BY DEF WindowHoldsTheRows
<1> QED
  BY <1>2, <1>3, <1>4, <1>5, <1>6, <1>7

LEMMA CountRemainingStep ==
    ASSUME IInv, CountRemaining
    PROVE  IInv'
<1> DEFINE n == Cardinality(Selected(walk.request, walk.after, walk.spans))
           phase == IF walk.after = NoPosition THEN "matching" ELSE "remaining"
<1>1. /\ walk.phase \in Reading /\ rows' = rows /\ answer' = answer /\ seen' = seen
      /\ walk' = [walk EXCEPT !.phase = phase, !.remaining = n, !.matching = n]
  BY DEF CountRemaining, Reading
<1>2. n \in Nat
  BY Selection
<1>3. phase \in {"remaining", "matching"}
  OBVIOUS
<1> HIDE DEF phase
<1> QED
  BY <1>1, <1>2, <1>3, CountStep

LEMMA CountMatchingStep ==
    ASSUME IInv, CountMatching
    PROVE  IInv'
<1> DEFINE n == Cardinality(Selected(walk.request, NoPosition, walk.spans))
<1>1. /\ walk.phase = "remaining" /\ rows' = rows /\ answer' = answer /\ seen' = seen
      /\ walk' = [walk EXCEPT !.phase = "matching", !.matching = n]
  BY DEF CountMatching
<1>2. n \in Nat
  BY Selection
<1>3. walk \in Walk /\ walk.remaining \in Nat
  BY DEF IInv, Types, Walk
<1>4. walk' = [walk EXCEPT !.phase = "matching", !.remaining = walk.remaining, !.matching = n]
  BY <1>1, <1>3 DEF Walk
<1>5. ~seen.split => walk.remaining = Cardinality(Selected(walk.request, walk.after, walk.spans))
  BY <1>1 DEF IInv, StillAhead
<1> HIDE DEF n
<1> QED
  BY <1>1, <1>2, <1>3, <1>4, <1>5, CountStep DEF Reading

\* Two runs of places that go down, the second below the first's last one.
LEMMA JoinedInOrder ==
    ASSUME NEW s \in Seq(Places), NEW p \in Seq(Places), InOrder(s), InOrder(p),
           s # <<>> => \A n \in DOMAIN p : Down(Last(s), p[n])
    PROVE  InOrder(s \o p)
<1> DEFINE both == s \o p
<1>1. \A a, b, c \in Places : Down(a, b) /\ Down(b, c) => Down(a, c)
  BY PlacesAreNumbers DEF Down
<1>2. /\ DOMAIN both = 1 .. Len(s) + Len(p) /\ DOMAIN s = 1 .. Len(s) /\ DOMAIN p = 1 .. Len(p)
      /\ Len(s) \in Nat /\ Len(p) \in Nat
      /\ \A n \in 1 .. Len(s) : both[n] = s[n] /\ s[n] \in Places
      /\ \A n \in Len(s) + 1 .. Len(s) + Len(p) :
            both[n] = p[n - Len(s)] /\ n - Len(s) \in 1 .. Len(p) /\ p[n - Len(s)] \in Places
  OBVIOUS
<1> HIDE DEF both
<1> SUFFICES ASSUME NEW m \in DOMAIN both, NEW n \in DOMAIN both, m < n
             PROVE  Down(both[m], both[n])
  BY DEF InOrder, both
<1>3. CASE n <= Len(s)
  BY <1>2, <1>3 DEF InOrder
<1>4. CASE m > Len(s)
  <2>1. /\ m \in Len(s) + 1 .. Len(s) + Len(p) /\ n \in Len(s) + 1 .. Len(s) + Len(p)
        /\ m - Len(s) < n - Len(s)
    BY <1>2, <1>4
  <2> QED
    BY <1>2, <2>1 DEF InOrder
<1>5. CASE m <= Len(s) /\ n > Len(s)
  <2>1. m \in 1 .. Len(s) /\ n \in Len(s) + 1 .. Len(s) + Len(p)
    BY <1>2, <1>5
  <2>2. s # <<>> /\ Last(s) = s[Len(s)] /\ Len(s) \in 1 .. Len(s)
    BY <1>2, <2>1 DEF Last
  <2>3. Down(s[Len(s)], both[n])
    BY <1>2, <2>1, <2>2
  <2>4. m = Len(s) \/ Down(s[m], s[Len(s)])
    BY <1>2, <2>1, <2>2 DEF InOrder
  <2> QED
    BY <1>1, <1>2, <2>1, <2>2, <2>3, <2>4
<1> QED
  BY <1>2, <1>3, <1>4, <1>5

IsJoin(s, p, T) ==
    /\ s \o p \in Seq(T) /\ Len(s) \in Nat /\ Len(p) \in Nat
    /\ DOMAIN (s \o p) = 1 .. Len(s) + Len(p)
    /\ DOMAIN s = 1 .. Len(s) /\ DOMAIN p = 1 .. Len(p)
    /\ \A n \in 1 .. Len(s) : (s \o p)[n] = s[n] /\ n \in DOMAIN (s \o p)
    /\ \A n \in 1 .. Len(p) : (s \o p)[Len(s) + n] = p[n] /\ Len(s) + n \in DOMAIN (s \o p)
    /\ \A n \in DOMAIN (s \o p) :
          \/ \E m \in 1 .. Len(s) : (s \o p)[n] = s[m]
          \/ \E m \in 1 .. Len(p) : (s \o p)[n] = p[m]
    /\ p # <<>> => /\ s \o p # <<>> /\ Last(s \o p) = Last(p) /\ Last(p) \in T
                   /\ Len(p) \in 1 .. Len(p) /\ Last(p) = p[Len(p)]

LEMMA JoinedIs ==
    ASSUME NEW T, NEW s \in Seq(T), NEW p \in Seq(T)
    PROVE  IsJoin(s, p, T)
<1>1. /\ s \o p \in Seq(T) /\ Len(s) \in Nat /\ Len(p) \in Nat
      /\ DOMAIN (s \o p) = 1 .. Len(s) + Len(p) /\ Len(s \o p) = Len(s) + Len(p)
      /\ DOMAIN s = 1 .. Len(s) /\ DOMAIN p = 1 .. Len(p)
      /\ \A n \in 1 .. Len(s) : (s \o p)[n] = s[n] /\ n \in DOMAIN (s \o p)
  OBVIOUS
<1>2. ASSUME NEW n \in 1 .. Len(p)
      PROVE  (s \o p)[Len(s) + n] = p[n] /\ Len(s) + n \in DOMAIN (s \o p)
  OBVIOUS
<1>3. ASSUME NEW n \in DOMAIN (s \o p)
      PROVE  \/ \E m \in 1 .. Len(s) : (s \o p)[n] = s[m]
             \/ \E m \in 1 .. Len(p) : (s \o p)[n] = p[m]
  <2>1. CASE n <= Len(s)
    <3>1. n \in 1 .. Len(s)
      BY <1>1, <2>1
    <3> QED
      BY <1>1, <3>1
  <2>2. CASE n > Len(s)
    <3>1. n - Len(s) \in 1 .. Len(p) /\ Len(s) + (n - Len(s)) = n
      BY <1>1, <2>2
    <3> QED
      BY <1>2, <3>1
  <2> QED
    BY <1>1, <2>1, <2>2
<1>4. ASSUME p # <<>>
      PROVE  /\ s \o p # <<>> /\ Last(s \o p) = Last(p) /\ Last(p) \in T
             /\ Len(p) \in 1 .. Len(p) /\ Last(p) = p[Len(p)]
  <2>1. Len(p) \in 1 .. Len(p) /\ p[Len(p)] \in T
    BY <1>4
  <2>2. (s \o p)[Len(s) + Len(p)] = p[Len(p)]
    BY <1>2, <2>1
  <2> QED
    BY <1>1, <2>1, <2>2 DEF Last
<1> QED
  BY <1>1, <1>2, <1>3, <1>4 DEF IsJoin

\* What Reply writes out: the page is handed over and, where rows are left, a
\* cursor at its last row beside it; or that cursor cannot be written.
LEMMA ReplyIs ==
    ASSUME IInv, Reply
    PROVE  LET r == walk.request
               left == Len(walk.page) < walk.remaining
           IN /\ rows' = rows /\ walk.phase = "matching" /\ r = seen.asked /\ r \in Requests
              /\ Types' /\ walk'.page = <<>> /\ walk'.end = NoPosition
              /\ seen'.asked = seen.asked /\ seen'.steady = seen.steady /\ seen'.split = seen.split
              /\ \/ /\ walk'.phase = "over" /\ seen' = seen
                    /\ answer'.kind = "internal_error" /\ answer'.cursor = NoCursor
                 \/ /\ seen'.delivered = seen.delivered \o walk.page
                    /\ answer'.kind = "rows" /\ answer'.page = walk.page
                    /\ answer'.window = ResolveWindow(r, Covering(r.tool))
                    /\ answer'.covered = Covering(r.tool)
                    /\ answer'.posted = [n \in DOMAIN walk.page |-> rows[walk.page[n].id].posted]
                    /\ ResolveWindow(r, Covering(r.tool)).caveats \subseteq answer'.caveats
                    /\ \/ /\ walk'.phase = "over" /\ answer'.cursor = NoCursor
                          /\ ~left \/ walk.page = <<>>
                       \/ /\ walk'.phase = "idle" /\ left /\ walk.page # <<>>
                          /\ answer'.cursor = IssuedFor(r, walk.end) /\ walk.end.day # None
<1> USE DEF IInv
<1> DEFINE r == walk.request
           left == Len(walk.page) < walk.remaining
           t == Over(Len(walk.page), walk.remaining, walk.matching)
           cursor == NextCursor(t)
           window == ResolveWindow(r, Covering(r.tool))
           failed == cursor # NoCursor /\ walk.end.day = None
           caveats == window.caveats
                      \cup (IF t.changed THEN {"counted_during_change"} ELSE {})
                      \cup (IF Truncated(t) THEN {"rows_truncated"} ELSE {})
                      \cup (IF Unstamped THEN {"partial"} ELSE {})
           full == [kind |-> "rows", page |-> walk.page, truncation |-> t, cursor |-> cursor,
                    window |-> window, caveats |-> caveats, covered |-> Covering(r.tool),
                    posted |-> [n \in DOMAIN walk.page |-> rows[walk.page[n].id].posted]]
<1>1. /\ rows' = rows /\ walk.phase = "matching"
      /\ answer' = (IF failed THEN [NoAnswer EXCEPT !.kind = "internal_error"] ELSE full)
      /\ walk' = [Quiet EXCEPT !.phase = IF cursor = NoCursor \/ failed THEN "over" ELSE "idle"]
      /\ seen' = (IF failed THEN seen ELSE [seen EXCEPT !.delivered = @ \o walk.page])
  BY DEF Reply
<1>2. r = seen.asked /\ r \in Requests
  BY <1>1 DEF OneQuestion, Assembling
<1>3. Truncated(t) <=> left
  <2>1. Len(walk.page) \in Nat /\ walk.remaining \in Nat
    BY DEF Types, Walk
  <2>2. Max({walk.remaining, Len(walk.page)})
        = (IF walk.remaining >= Len(walk.page) THEN walk.remaining ELSE Len(walk.page))
    BY <2>1, OfTwo
  <2>3. t.returned = Len(walk.page) /\ t.remaining = Max({walk.remaining, Len(walk.page)})
    BY DEF Over
  <2> QED
    BY <2>1, <2>2, <2>3 DEF Truncated
<1>4. cursor = (IF ~left \/ walk.page = <<>> THEN NoCursor ELSE IssuedFor(r, walk.end))
  BY <1>3 DEF NextCursor
<1>5. cursor # NoCursor <=> left /\ walk.page # <<>>
  BY <1>4, IssuedIsACursor
<1>6. /\ full.kind = "rows" /\ full.page = walk.page /\ full.window = window
      /\ full.covered = Covering(r.tool) /\ full.cursor = cursor
      /\ full.posted = [n \in DOMAIN walk.page |-> rows[walk.page[n].id].posted]
      /\ full.caveats = caveats /\ window.caveats \subseteq caveats
  OBVIOUS
<1> HIDE DEF full, window, caveats, t, cursor
<1>7. /\ walk' \in Walk /\ walk'.page = <<>> /\ walk'.end = NoPosition
      /\ walk'.phase = (IF cursor = NoCursor \/ failed THEN "over" ELSE "idle")
  <2> DEFINE phase == IF cursor = NoCursor \/ failed THEN "over" ELSE "idle"
  <2>1. phase \in {"idle", "over"} /\ walk' = [Quiet EXCEPT !.phase = phase]
    BY <1>1
  <2> HIDE DEF phase
  <2>2. Fresh(walk', phase, Quiet.request, NoPosition)
    BY <2>1, QuietIs
  <2> QED
    BY <2>2 DEF Fresh, phase
<1>8. /\ seen' \in WhatWasSeen
      /\ seen'.asked = seen.asked /\ seen'.steady = seen.steady /\ seen'.split = seen.split
      /\ ~failed => seen'.delivered = seen.delivered \o walk.page
  <2>1. seen.delivered \o walk.page \in Seq(Places)
    BY DEF Types, Walk, WhatWasSeen
  <2> QED
    BY <1>1, <2>1 DEF Types, WhatWasSeen
<1>9. Types'
  BY <1>1, <1>7, <1>8 DEF Types
<1>10. CASE failed
  <2>1. answer'.kind = "internal_error" /\ answer'.cursor = NoCursor
    BY <1>1, <1>10, NoAnswerIs
  <2> QED
    BY <1>1, <1>2, <1>7, <1>8, <1>9, <1>10, <2>1
<1>11. CASE ~failed /\ cursor = NoCursor
  BY <1>1, <1>2, <1>5, <1>6, <1>7, <1>8, <1>9, <1>11 DEF window
<1>12. CASE ~failed /\ cursor # NoCursor
  BY <1>1, <1>2, <1>4, <1>5, <1>6, <1>7, <1>8, <1>9, <1>12 DEF window
<1> QED
  BY <1>10, <1>11, <1>12

LEMMA ReplyStep ==
    ASSUME IInv, Reply
    PROVE  IInv'
<1> USE DEF IInv
<1> DEFINE r == walk.request
           page == walk.page
           left == Len(page) < walk.remaining
           found == Selected(r, walk.after, walk.spans)
           joined == seen.delivered \o page
           Failed == /\ walk'.phase = "over" /\ seen' = seen
                     /\ answer'.kind = "internal_error" /\ answer'.cursor = NoCursor
           Answered == /\ seen'.delivered = joined
                       /\ answer'.kind = "rows" /\ answer'.page = page
                       /\ answer'.window = ResolveWindow(r, Covering(r.tool))
                       /\ answer'.covered = Covering(r.tool)
                       /\ answer'.posted = [n \in DOMAIN page |-> rows[page[n].id].posted]
                       /\ ResolveWindow(r, Covering(r.tool)).caveats \subseteq answer'.caveats
           Ends == /\ walk'.phase = "over" /\ answer'.cursor = NoCursor
                   /\ ~left \/ page = <<>>
           GoesOn == /\ walk'.phase = "idle" /\ left /\ page # <<>>
                     /\ answer'.cursor = IssuedFor(r, walk.end) /\ walk.end.day # None
<1>1. /\ rows' = rows /\ walk.phase = "matching" /\ r = seen.asked /\ r \in Requests
      /\ Types' /\ walk'.page = <<>> /\ walk'.end = NoPosition
      /\ seen'.asked = seen.asked /\ seen'.steady = seen.steady /\ seen'.split = seen.split
      /\ Failed \/ (Answered /\ (Ends \/ GoesOn))
  BY ReplyIs
<1> HIDE DEF Failed, Answered, Ends, GoesOn
<1>2. Typed /\ page \in Seq(Places) /\ seen.delivered \in Seq(Places) /\ seen.steady \in SUBSET Ids
  BY DEF Typed, Types, Walk, WhatWasSeen
<1>3. walk'.phase \in {"idle", "over"}
  BY <1>1 DEF Failed, Ends, GoesOn
<1>4. \A i : Position(i)' = Position(i)
  BY <1>1 DEF Position
<1>5. SteadyMatches'
  BY <1>1 DEF SteadyMatches, Selects, OnOrAfter, OnOrBefore
<1>6. Stamped' = Stamped /\ Stamped \in SUBSET seen.steady
      /\ \A i \in Stamped : rows[i].day # None
  BY <1>1 DEF Stamped
<1>7. InOrder(page) /\ InOrder(seen.delivered)
      /\ (walk.after # NoPosition => \A n \in DOMAIN page : Down(walk.after, page[n]))
      /\ walk.end = (IF page = <<>> THEN NoPosition ELSE Last(page))
      /\ (walk.after = NoPosition => seen.delivered = <<>>)
      /\ (walk.after # NoPosition => walk.after = Last(seen.delivered))
  BY <1>1 DEF PageGoesDown, Reading, Assembling
<1>8. InOrder(joined)
  BY <1>2, <1>7, JoinedInOrder
<1>9. IsJoin(seen.delivered, page, Places)
  BY <1>2, JoinedIs
<1>10. page # <<>> => joined # <<>> /\ Last(joined) = Last(page) /\ Len(page) \in DOMAIN page
                      /\ Last(page) = page[Len(page)] /\ Last(page) \in Places
  BY <1>9 DEF IsJoin
<1>11. /\ joined \in Seq(Places)
       /\ \A n \in DOMAIN joined :
             \/ \E m \in DOMAIN seen.delivered : joined[n] = seen.delivered[m]
             \/ \E m \in DOMAIN page : joined[n] = page[m]
       /\ \A m \in DOMAIN seen.delivered : \E n \in DOMAIN joined : joined[n] = seen.delivered[m]
       /\ \A m \in DOMAIN page : \E n \in DOMAIN joined : joined[n] = page[m]
  <2>1. joined \in Seq(Places)
    BY <1>9 DEF IsJoin
  <2>2. ASSUME NEW n \in DOMAIN joined
        PROVE  \/ \E m \in DOMAIN seen.delivered : joined[n] = seen.delivered[m]
               \/ \E m \in DOMAIN page : joined[n] = page[m]
    BY <1>9 DEF IsJoin
  <2>3. \A m \in DOMAIN seen.delivered : \E n \in DOMAIN joined : joined[n] = seen.delivered[m]
    BY <1>9 DEF IsJoin
  <2>4. \A m \in DOMAIN page : \E n \in DOMAIN joined : joined[n] = page[m]
    BY <1>9 DEF IsJoin
  <2> QED
    BY <2>1, <2>2, <2>3, <2>4
<1> HIDE DEF joined
<1>12. CASE Failed
  <2> USE DEF Failed
  <2>1. OneQuestion'
    BY <1>1, <1>12 DEF OneQuestion, Assembling
  <2>2. PageGoesDown'
    BY <1>1, <1>7, <1>12 DEF PageGoesDown, Assembling, Reading, InOrder
  <2>3. PlacesHold'
    BY <1>1, <1>4, <1>12 DEF PlacesHold
  <2>4. StillAhead'
    BY <1>12 DEF StillAhead, Reading
  <2>5. WindowHoldsTheRows'
    BY <1>12 DEF WindowHoldsTheRows
  <2> QED
    BY <1>1, <1>5, <2>1, <2>2, <2>3, <2>4, <2>5
<1>13. CASE Answered /\ (Ends \/ GoesOn)
  <2>1. OneQuestion'
    <3>1. GoesOn => answer'.cursor.position = walk.end
      BY IssuedIsACursor DEF GoesOn
    <3>2. CASE Ends
      BY <1>1, <1>3, <1>13, <3>2 DEF OneQuestion, Assembling, Answered, Ends
    <3>3. CASE GoesOn
      BY <1>1, <1>3, <1>7, <1>10, <1>13, <3>1, <3>3 DEF OneQuestion, Assembling, Answered, GoesOn
    <3> QED
      BY <1>13, <3>2, <3>3
  <2>2. PageGoesDown'
    <3>1. seen'.delivered = joined /\ InOrder(walk'.page)
      BY <1>1, <1>13 DEF Answered, InOrder
    <3> QED
      BY <1>1, <1>3, <1>8, <3>1 DEF PageGoesDown, Assembling, Reading
  <2>3. PlacesHold'
    <3>1. ASSUME NEW n \in DOMAIN joined, joined[n].id \in seen.steady
          PROVE  joined[n] = Position(joined[n].id)
      BY <1>11, <3>1 DEF PlacesHold
    <3> QED
      BY <1>1, <1>4, <1>13, <3>1 DEF PlacesHold, Answered
  <2>4. ASSUME ~seen.split
        PROVE  /\ page = Page(r, walk.after, walk.spans, walk.limit)
               /\ walk.remaining = Cardinality(found)
               /\ \A n \in DOMAIN page : page[n].id \in found /\ page[n] = Position(page[n].id)
               /\ \A i \in found : \/ \E n \in DOMAIN page : page[n].id = i
                                   \/ /\ \A n \in DOMAIN page : Down(page[n], Position(i))
                                      /\ left /\ page # <<>>
    <3>1. page = Page(r, walk.after, walk.spans, walk.limit) /\ walk.remaining = Cardinality(found)
      BY <1>1, <2>4 DEF StillAhead, Reading
    <3>2. walk.limit \in Nat
      <4>1. walk.limit \in Limits \cup {1} /\ Limits \subseteq Nat
        BY ReadAssumption DEF Types, Walk
      <4>2. 1 \in Nat
        OBVIOUS
      <4> QED
        BY <4>1, <4>2
    <3> QED
      BY <1>2, <3>1, <3>2, PageIs
  <2>5. StillAhead'
    <3> SUFFICES ASSUME ~seen.split PROVE StillAhead'
      BY <1>1 DEF StillAhead
    <3>1. ASSUME NEW i \in Stamped, ~Given(i)'
          PROVE  /\ walk'.phase = "idle" => Beyond(i, answer'.cursor.position)
                 /\ walk'.phase # "over"
      <4>1. ~Given(i) /\ ~ \E n \in DOMAIN page : page[n].id = i
        BY <1>11, <1>13, <3>1 DEF Given, Answered
      <4>2. i \in found
        BY <1>1, <3>1, <4>1 DEF StillAhead, Reading
      <4>3. left /\ page # <<>> /\ \A n \in DOMAIN page : Down(page[n], Position(i))
        BY <2>4, <4>1, <4>2
      <4>4. GoesOn
        BY <1>13, <4>3 DEF Ends
      <4>5. answer'.cursor.position = Last(page)
        BY <1>7, <4>3, <4>4, IssuedIsACursor DEF GoesOn
      <4>6. Down(Last(page), Position(i)) /\ i \in Ids /\ rows[i].day # None
        BY <1>2, <1>6, <1>10, <3>1, <4>3
      <4>7. Beyond(i, Last(page))
        BY <1>2, <1>10, <4>3, <4>6, BeyondIsDown
      <4> QED
        BY <4>4, <4>5, <4>7 DEF GoesOn
    <3>2. \A i, place : Beyond(i, place)' <=> Beyond(i, place)
      BY <1>1 DEF Beyond
    <3> QED
      BY <1>1, <1>3, <1>6, <3>1, <3>2 DEF StillAhead, Reading
  <2>6. WindowHoldsTheRows'
    <3> DEFINE days == Covering(r.tool)
               w == ResolveWindow(r, days)
    <3>1. days \in SUBSET Days /\ IsFiniteSet(days)
      BY <1>2, CoveringIs
    <3> HIDE DEF days
    <3>2. IsWindow(w, r, days)
      BY <1>1, <3>1, WindowIs
    <3>3. ASSUME ~seen.split, w.since # None, NEW n \in DOMAIN page, page[n].day # None
          PROVE  w.since <= rows[page[n].id].posted /\ page[n].day <= w.until
      <4> DEFINE i == page[n].id
      <4>1. i \in found /\ page[n] = Position(i) /\ i \in Ids
        BY <2>4, <3>3, Selection
      <4>2. /\ rows[i].state = "live" /\ rows[i].tool = r.tool
            /\ OnOrAfter(i, r.since) /\ OnOrBefore(i, r.until)
        BY <4>1 DEF Selected, TransactionFilters, TradeFilters, Selects
      <4>3. page[n].day = rows[i].day
        BY <4>1 DEF Position
      <4>4. rows[i].posted \in days /\ rows[i].day \in Nat /\ rows[i].day <= rows[i].posted
        BY <1>2, <4>1, <4>2, CoveringIs, RowsAreTyped DEF days
      <4> QED
        BY <3>2, <3>3, <4>2, <4>3, <4>4 DEF OnOrAfter, OnOrBefore, IsWindow
    <3> HIDE DEF w
    <3>4. answer'.window = w /\ answer'.covered = days /\ w.caveats \subseteq answer'.caveats
          /\ answer'.page = page /\ answer'.posted = [n \in DOMAIN page |-> rows[page[n].id].posted]
      BY <1>13 DEF Answered, w, days
    <3> QED
      BY <1>1, <3>2, <3>3, <3>4 DEF WindowHoldsTheRows, IsWindow
  <2> QED
    BY <1>1, <1>5, <2>1, <2>2, <2>3, <2>5, <2>6
<1> QED
  BY <1>1, <1>12, <1>13

-----------------------------------------------------------------------------
(* The theorems *)

LEMMA InitIInv ==
    ASSUME Init
    PROVE  IInv
<1>1. walk = Quiet /\ answer = NoAnswer /\ seen = NothingSeen
  BY DEF Init
<1>2. rows \in [Ids -> Row]
  <2>1. PICK tool \in Tools :
          rows \in [Ids -> {r \in Row :
              /\ r.tool = tool /\ ~r.superseded
              /\ r.state = "live" \/ r.state = "absent"
              /\ r.state = "absent" => r.day = Today /\ r.posted = Today /\ r.kind = Min(Kinds)
              /\ tool # "query_transactions" => r.day = r.posted}]
    BY DEF Init
  <2> QED
    BY <2>1
<1>3. /\ walk \in Walk /\ walk.phase = "idle" /\ walk.page = <<>> /\ walk.end = NoPosition
  BY <1>1 DEF Quiet, Walk, AnyRequest
<1>4. /\ seen \in WhatWasSeen /\ seen.delivered = <<>> /\ seen.steady = {}
  BY <1>1 DEF NothingSeen, WhatWasSeen, AnyRequest
<1>5. answer.kind = "none" /\ answer.cursor = NoCursor
  BY <1>1, NoAnswerIs
<1>6. Types
  BY <1>2, <1>3, <1>4 DEF Types
<1>7. OneQuestion
  BY <1>1, <1>3, <1>5 DEF OneQuestion, Assembling
<1>8. PageGoesDown
  BY <1>3, <1>4 DEF PageGoesDown, Assembling, Reading, InOrder
<1>9. PlacesHold /\ SteadyMatches
  BY <1>3, <1>4 DEF PlacesHold, SteadyMatches
<1>10. StillAhead
  BY <1>3, <1>4 DEF StillAhead, Reading, Stamped
<1>11. WindowHoldsTheRows
  BY <1>5 DEF WindowHoldsTheRows
<1> QED
  BY <1>6, <1>7, <1>8, <1>9, <1>10, <1>11 DEF IInv

LEMMA NextIInv ==
    ASSUME IInv, Next
    PROVE  IInv'
<1>1. ASSUME NEW r \in Requests, NEW limit \in Limits, Ask(r, limit) PROVE IInv'
  BY <1>1, AskStep
<1>2. ASSUME NEW r \in Requests, NEW limit \in Limits, Follow(r, limit) PROVE IInv'
  BY <1>2, FollowStep
<1>3. CASE ReadSpans
  BY <1>3, ReadSpansStep
<1>4. CASE ReadTransactions
  BY <1>4, ReadTransactionsStep
<1>5. CASE ReadTrades
  BY <1>5, ReadTradesStep
<1>6. CASE CountRemaining
  BY <1>6, CountRemainingStep
<1>7. CASE CountMatching
  BY <1>7, CountMatchingStep
<1>8. CASE Reply
  BY <1>8, ReplyStep
<1>9. CASE Writer
  <2>1. Typed
    BY DEF IInv, Types, Typed
  <2>2. PICK table \in [Ids -> Row] : Write(table)
    BY <1>9, <2>1, WriterWrites
  <2> QED
    BY <2>2, WriteStep
<1> QED
  BY <1>1, <1>2, <1>3, <1>4, <1>5, <1>6, <1>7, <1>8, <1>9 DEF Next, Reader

LEMMA StutterIInv ==
    ASSUME IInv, UNCHANGED vars
    PROVE  IInv'
<1>1. rows' = rows /\ walk' = walk /\ answer' = answer /\ seen' = seen
  BY DEF vars
<1>2. /\ Types' /\ OneQuestion' /\ PageGoesDown'
  BY <1>1 DEF IInv, Types, OneQuestion, PageGoesDown
<1>3. PlacesHold' /\ SteadyMatches'
  BY <1>1 DEF IInv, PlacesHold, SteadyMatches, Position, Selects, OnOrAfter, OnOrBefore
<1>4. StillAhead'
  <2>1. Stamped' = Stamped /\ \A i : Given(i)' <=> Given(i)
    BY <1>1 DEF Stamped, Given
  <2>2. \A r, after, spans : Selected(r, after, spans)' = Selected(r, after, spans)
    BY <1>1 DEF Selected, TransactionFilters, TradeFilters, Selects, OnOrAfter, OnOrBefore, Beyond
  <2>3. \A set, n : Nth(set, n)' = Nth(set, n)
    BY <1>1 DEF Nth, NewestFirst
  <2>4. Page(walk.request, walk.after, walk.spans, walk.limit)'
        = Page(walk.request, walk.after, walk.spans, walk.limit)
    BY <1>1, <2>2, <2>3 DEF Page, Position
  <2>5. \A i, place : Beyond(i, place)' <=> Beyond(i, place)
    BY <1>1 DEF Beyond
  <2> QED
    BY <1>1, <2>1, <2>2, <2>4, <2>5 DEF IInv, StillAhead
<1>5. WindowHoldsTheRows'
  BY <1>1 DEF IInv, WindowHoldsTheRows
<1> QED
  BY <1>2, <1>3, <1>4, <1>5 DEF IInv

LEMMA Invariant == Spec => []IInv
<1>1. Init => IInv
  BY InitIInv
<1>2. IInv /\ [Next]_vars => IInv'
  BY NextIInv, StutterIInv
<1> QED
  BY <1>1, <1>2, PTL DEF Spec

\* A walk answers one question: a page is only ever read for the request the
\* walk began with (a cursor presented with another one is refused), and the
\* pages come down one order without a step back, whatever was written between.
THEOREM OneAnswerByPages == Spec => []PagesAreOneAnswer
<1>1. IInv => PagesAreOneAnswer
  BY DEF IInv, PagesAreOneAnswer, OneQuestion, PageGoesDown, InOrder, Down
<1> QED
  BY <1>1, Invariant, PTL

\* Keyset paging: a row the walk selected as it began and nothing touched since
\* is handed over at most once, and once the walk ended with no write inside an
\* answer, exactly once.
THEOREM KeysetReadsOnce == Spec => []SteadyRowReadOnce
<1>1. ASSUME IInv PROVE SteadyRowReadOnce
  <2> DEFINE at(i) == {n \in DOMAIN seen.delivered : seen.delivered[n].id = i}
  <2>1. Typed /\ seen.delivered \in Seq(Places) /\ seen.steady \in SUBSET Ids
    BY <1>1 DEF IInv, Types, Typed, WhatWasSeen
  <2>2. DOMAIN seen.delivered \in SUBSET Nat
    BY <2>1
  <2>3. ASSUME NEW i \in seen.steady, NEW m \in at(i), NEW n \in at(i)
        PROVE  m = n
    <3> SUFFICES ASSUME m < n \/ n < m PROVE FALSE
      BY <2>2
    <3>1. seen.delivered[m] = Position(i) /\ seen.delivered[n] = Position(i)
      BY <1>1, <2>3 DEF IInv, PlacesHold
    <3>2. Down(Position(i), Position(i))
      BY <1>1, <3>1 DEF IInv, PageGoesDown, InOrder
    <3>3. i \in Nat /\ Position(i).day \in Nat /\ Position(i).id = i
      BY <2>1, RowsAreTyped
    <3> QED
      BY <3>2, <3>3 DEF Down
  <2>4. ASSUME NEW i \in seen.steady
        PROVE  Handed(i) <= 1 /\ (Given(i) => Handed(i) = 1)
    <3>1. Handed(i) = Cardinality(at(i))
      BY DEF Handed
    <3>2. CASE at(i) = {}
      <4>1. Cardinality(at(i)) = 0
        BY <3>2, FS_EmptySet
      <4>2. ~Given(i)
        BY <3>2 DEF Given
      <4> QED
        BY <3>1, <4>1, <4>2
    <3>3. CASE at(i) # {}
      <4>1. PICK n \in at(i) : at(i) = {n}
        BY <2>3, <3>3
      <4>2. Cardinality(at(i)) = 1
        BY <4>1, FS_Singleton
      <4> QED
        BY <3>1, <4>2
    <3> QED
      BY <3>2, <3>3
  <2>5. ASSUME Ended, ~seen.split, NEW i \in Stamped PROVE Handed(i) = 1
    <3>1. Given(i)
      BY <1>1, <2>5 DEF IInv, StillAhead, Ended
    <3>2. i \in seen.steady
      BY DEF Stamped
    <3> QED
      BY <2>4, <3>1, <3>2
  <2> QED
    BY <2>4, <2>5 DEF SteadyRowReadOnce
<1> QED
  BY <1>1, Invariant, PTL

\* No row handed over lies after the effective window by its ledger date, and none
\* has posted before it; without a caveat it is the window that was asked for.
THEOREM WindowIsHonest == Spec => []WindowHoldsTheRows
<1>1. IInv => WindowHoldsTheRows
  BY DEF IInv
<1> QED
  BY <1>1, Invariant, PTL

-----------------------------------------------------------------------------
(* What a summary counts.  The actions that fill its tables are those of M. *)

M == INSTANCE Totals

-----------------------------------------------------------------------------
(* Finite sets *)

\* A non-empty set of naturals has a least element.
LEMMA LeastOf ==
    ASSUME NEW S \in SUBSET Nat, S # {}
    PROVE  \E n \in S : \A d \in S : n <= d
<1> DEFINE R == OpToRel(<, Nat)
<1>1. IsWellFoundedOn(R, Nat)
  BY NatLessThanWellFounded
<1>2. \A y, x \in Nat : y < x => <<y, x>> \in R
  BY DEF OpToRel
<1> HIDE DEF R
<1>3. PICK n \in S : \A y \in S : ~ (<<y, n>> \in R)
  BY <1>1, WFMin
<1>4. ASSUME NEW d \in S PROVE n <= d
  <2>1. n \in Nat /\ d \in Nat /\ ~ (d < n)
    BY <1>2, <1>3
  <2> QED
    BY <2>1
<1> QED
  BY <1>3, <1>4

\* Induction over the subsets of a finite set, one element at a time.
LEMMA SubsetInduction ==
    ASSUME NEW S, IsFiniteSet(S), NEW H, {} \in H,
           \A T \in SUBSET S : T # {} => \E x \in T : T \ {x} \in H => T \in H
    PROVE  \A T \in SUBSET S : T \in H
<1> DEFINE Sizes == {n \in Nat : \E T \in SUBSET S : T \notin H /\ Cardinality(T) = n}
<1>1. \A T \in SUBSET S : IsFiniteSet(T) /\ Cardinality(T) \in Nat
  BY FS_Subset, FS_CardinalityType
<1>2. SUFFICES ASSUME NEW U \in SUBSET S, U \notin H PROVE FALSE
  OBVIOUS
<1>3. Sizes \in SUBSET Nat /\ Sizes # {}
  BY <1>1, <1>2
<1>4. PICK n \in Sizes : \A d \in Sizes : n <= d
  <2> HIDE DEF Sizes
  <2> QED
    BY <1>3, LeastOf
<1>5. PICK T \in SUBSET S : T \notin H /\ Cardinality(T) = n
  BY <1>4
<1>6. PICK x \in T : T \ {x} \in H => T \in H
  BY <1>5, ZenonT(40)
<1>7. T \ {x} \in SUBSET S /\ T \ {x} \notin H
  BY <1>5, <1>6
<1>8. Cardinality(T \ {x}) = n - 1 /\ n \in Nat
  BY <1>1, <1>4, <1>5, <1>6, FS_RemoveElement
<1>9. n - 1 \in Sizes
  BY <1>1, <1>7, <1>8
<1> QED
  BY <1>4, <1>8, <1>9

\* A finite set that is ordered has a last element.
LEMMA LastExists ==
    ASSUME NEW S, IsFiniteSet(S), S # {}, NEW R,
           \A x, y \in S : x # y => <<x, y>> \in R \/ <<y, x>> \in R,
           \A x, y, z \in S : <<x, y>> \in R /\ <<y, z>> \in R => <<x, z>> \in R
    PROVE  \E x \in S : \A y \in S \ {x} : <<y, x>> \in R
<1> DEFINE HasLast(T) == \E x \in T : \A y \in T \ {x} : <<y, x>> \in R
           H == {T \in SUBSET S : T = {} \/ HasLast(T)}
<1>1. ASSUME NEW T \in SUBSET S, T # {}
      PROVE  \E x \in T : T \ {x} \in H => T \in H
  <2>1. PICK x \in T : TRUE
    BY <1>1
  <2>2. ASSUME T \ {x} \in H PROVE HasLast(T)
    <3>1. CASE T \ {x} = {}
      BY <3>1
    <3>2. CASE HasLast(T \ {x})
      <4>1. PICK y \in T \ {x} : \A z \in (T \ {x}) \ {y} : <<z, y>> \in R
        BY <3>2
      <4>2. CASE <<x, y>> \in R
        BY <4>1, <4>2
      <4>3. CASE <<y, x>> \in R
        <5>1. \A z \in T \ {x} : <<z, x>> \in R
          BY <4>1, <4>3
        <5> QED
          BY <5>1
      <4> QED
        BY <4>1, <4>2, <4>3
    <3> QED
      BY <2>2, <3>1, <3>2
  <2> QED
    BY <2>2
<1>2. {} \in H
  OBVIOUS
<1>3. \A T \in SUBSET S : T \in H
  <2> HIDE DEF H
  <2> QED
    BY <1>1, <1>2, SubsetInduction
<1> QED
  BY <1>3


\* Of two naturals the least, and the greatest.
LEMMA LeastOfTwo ==
    \A a, b \in Nat : Min({a, b}) \in Nat /\ \A d \in Nat : d <= Min({a, b}) <=> d <= a /\ d <= b
<1> SUFFICES ASSUME NEW a \in Nat, NEW b \in Nat
             PROVE  Min({a, b}) \in Nat /\ \A d \in Nat : d <= Min({a, b}) <=> d <= a /\ d <= b
  OBVIOUS
<1>1. Min({a, b}) \in {a, b} /\ \A d \in {a, b} : Min({a, b}) <= d
  BY LeastOf DEF Min
<1> QED
  BY <1>1

\* The greater of two naturals.
LEMMA GreatestOfTwo ==
    \A a, b \in Nat : Max({a, b}) \in Nat /\ \A d \in Nat : Max({a, b}) <= d <=> a <= d /\ b <= d
<1> SUFFICES ASSUME NEW a \in Nat, NEW b \in Nat
             PROVE  Max({a, b}) \in Nat /\ \A d \in Nat : Max({a, b}) <= d <=> a <= d /\ b <= d
  OBVIOUS
<1>1. Max({a, b}) \in {a, b} /\ \A d \in {a, b} : Max({a, b}) >= d
  BY DEF Max
<1> QED
  BY <1>1

-----------------------------------------------------------------------------
(* Sequences *)

\* The places of a sequence.
LEMMA SeqIs ==
    ASSUME NEW V, NEW q \in Seq(V)
    PROVE  /\ Len(q) \in Nat /\ DOMAIN q = 1 .. Len(q)
           /\ \A i \in DOMAIN q : i \in Nat /\ i # 0 /\ i <= Len(q) /\ q[i] \in V
OBVIOUS

\* A sequence and one element more.
LEMMA AppendIs ==
    ASSUME NEW V, NEW q \in Seq(V), NEW v \in V
    PROVE  /\ Append(q, v) \in Seq(V) /\ Len(Append(q, v)) = Len(q) + 1
           /\ DOMAIN Append(q, v) = DOMAIN q \cup {Len(q) + 1}
           /\ Append(q, v)[Len(q) + 1] = v /\ Len(q) + 1 \notin DOMAIN q
           /\ \A i \in DOMAIN q : Append(q, v)[i] = q[i]
OBVIOUS

\* A sequence with one element replaced.
LEMMA ExceptIs ==
    ASSUME NEW V, NEW q \in Seq(V), NEW i \in DOMAIN q, NEW v \in V
    PROVE  /\ [q EXCEPT ![i] = v] \in Seq(V) /\ Len([q EXCEPT ![i] = v]) = Len(q)
           /\ DOMAIN [q EXCEPT ![i] = v] = DOMAIN q
           /\ \A j \in DOMAIN q : [q EXCEPT ![i] = v][j] = IF j = i THEN v ELSE q[j]
OBVIOUS

-----------------------------------------------------------------------------
(* Loops *)

\* The loop whose step for x is F[x], taking pick[T] last of T.
Loops(it, S, G, base, F, pick) ==
    /\ it \in [SUBSET S -> G]
    /\ \A T \in SUBSET S : it[T] = IF T = {} THEN base ELSE F[pick[T]][it[T \ {pick[T]}]]

\* A loop over a finite set, each step of which leads from G to G, is well
\* defined, whichever element it takes last.
LEMMA FoldExists ==
    ASSUME NEW S, IsFiniteSet(S), NEW G, NEW base \in G, NEW F \in [S -> [G -> G]],
           NEW pick, \A T \in SUBSET S : T # {} => pick[T] \in T
    PROVE  \E it : Loops(it, S, G, base, F, pick)
<1> DEFINE After(it, T) == IF T = {} THEN base ELSE F[pick[T]][it[T \ {pick[T]}]]
           Upto(n) == \E it \in [SUBSET S -> G] : \A T \in SUBSET S :
                         Cardinality(T) <= n => it[T] = After(it, T)
           Failing == {n \in Nat : ~ Upto(n)}
<1>1. \A T \in SUBSET S : /\ IsFiniteSet(T) /\ Cardinality(T) \in Nat
                          /\ Cardinality(T) = 0 <=> T = {}
                          /\ Cardinality(T) <= Cardinality(S)
  BY FS_Subset, FS_CardinalityType, FS_EmptySet
<1>2. \A T \in SUBSET S : T # {} => /\ T \ {pick[T]} \in SUBSET S
                                    /\ Cardinality(T \ {pick[T]}) = Cardinality(T) - 1
  BY <1>1, FS_RemoveElement
<1>3. Upto(0)
  <2> DEFINE first == [T \in SUBSET S |-> base]
  <2>1. first \in [SUBSET S -> G]
    OBVIOUS
  <2>2. \A T \in SUBSET S : Cardinality(T) <= 0 => first[T] = After(first, T)
    BY <1>1
  <2> HIDE DEF first, After
  <2> QED
    BY <2>1, <2>2
<1>4. ASSUME NEW n \in Nat, Upto(n) PROVE Upto(n + 1)
  <2>1. PICK it \in [SUBSET S -> G] : \A T \in SUBSET S :
           Cardinality(T) <= n => it[T] = After(it, T)
    BY <1>4
  <2> DEFINE more == [T \in SUBSET S |-> IF Cardinality(T) <= n THEN it[T] ELSE After(it, T)]
  <2>2. \A T \in SUBSET S : After(it, T) \in G
    BY <1>2
  <2>3. more \in [SUBSET S -> G]
    <3> HIDE DEF After
    <3> QED
      BY <2>2
  <2>4. ASSUME NEW T \in SUBSET S, Cardinality(T) <= n + 1
        PROVE  more[T] = After(more, T)
    <3>1. more[T] = After(it, T)
      BY <2>1
    <3>2. After(more, T) = After(it, T)
      <4>1. T # {} => more[T \ {pick[T]}] = it[T \ {pick[T]}]
        BY <1>1, <1>2, <2>4
      <4> HIDE DEF more
      <4> QED
        BY <4>1
    <3> QED
      BY <3>1, <3>2
  <2> HIDE DEF more, After
  <2> QED
    BY <2>3, <2>4
<1>5. Upto(Cardinality(S))
  <2>1. CASE Failing = {}
    BY <1>1, <2>1
  <2>2. CASE Failing # {}
    <3>1. Failing \in SUBSET Nat
      OBVIOUS
    <3>2. PICK n \in Failing : \A d \in Failing : n <= d
      <4> HIDE DEF Failing
      <4> QED
        BY <2>2, <3>1, LeastOf
    <3> HIDE DEF Upto
    <3>3. n # 0 /\ n \in Nat /\ ~ Upto(n)
      BY <1>3, <3>2
    <3>4. n - 1 \in Nat /\ ~ (n <= n - 1)
      BY <3>3
    <3>5. Upto(n - 1)
      BY <3>2, <3>4
    <3>6. Upto((n - 1) + 1)
      BY <1>4, <3>4, <3>5
    <3>7. (n - 1) + 1 = n
      BY <3>3
    <3> QED
      BY <3>3, <3>6, <3>7
  <2> QED
    BY <2>1, <2>2
<1>6. PICK it \in [SUBSET S -> G] : \A T \in SUBSET S :
         Cardinality(T) <= Cardinality(S) => it[T] = After(it, T)
  BY <1>5
<1>7. \A T \in SUBSET S : it[T] = After(it, T)
  <2> HIDE DEF After
  <2> QED
    BY <1>1, <1>6
<1> QED
  BY <1>7 DEF Loops

-----------------------------------------------------------------------------
(* Sums over finite sets *)

\* Induction over the subsets of a finite set, from all smaller ones.
LEMMA SmallerSubsets ==
    ASSUME NEW S, IsFiniteSet(S), NEW H,
           \A T \in SUBSET S : (\A U \in SUBSET T : U # T => U \in H) => T \in H
    PROVE  \A T \in SUBSET S : T \in H
<1> DEFINE Sizes == {n \in Nat : \E T \in SUBSET S : T \notin H /\ Cardinality(T) = n}
<1>1. \A T \in SUBSET S : IsFiniteSet(T) /\ Cardinality(T) \in Nat
  BY FS_Subset, FS_CardinalityType
<1>2. SUFFICES ASSUME NEW U \in SUBSET S, U \notin H PROVE FALSE
  OBVIOUS
<1>3. Sizes \in SUBSET Nat /\ Sizes # {}
  BY <1>1, <1>2
<1>4. PICK n \in Sizes : \A d \in Sizes : n <= d
  <2> HIDE DEF Sizes
  <2> QED
    BY <1>3, LeastOf
<1>5. PICK T \in SUBSET S : T \notin H /\ Cardinality(T) = n
  BY <1>4
<1>6. PICK V \in SUBSET T : V # T /\ V \notin H
  BY <1>5
<1>7. /\ Cardinality(V) <= Cardinality(T) /\ Cardinality(V) # Cardinality(T)
      /\ V \in SUBSET S /\ Cardinality(V) \in Nat /\ Cardinality(T) \in Nat
  BY <1>1, <1>5, <1>6, FS_Subset
<1>8. Cardinality(V) \in Sizes
  BY <1>6, <1>7
<1> QED
  BY <1>4, <1>5, <1>7, <1>8

\* The sums of f over the subsets of S, adding some element of each last.
Adds(sum, f, S) ==
    /\ sum \in [SUBSET S -> Int] /\ sum[{}] = 0
    /\ \A T \in SUBSET S : T # {} =>
          sum[T] = f[CHOOSE x \in T : TRUE] + sum[T \ {CHOOSE x \in T : TRUE}]

\* The sum over a finite set is a loop that adds.
LEMMA SumIsLoop ==
    ASSUME NEW S, IsFiniteSet(S), NEW f, \A x \in S : f[x] \in Int
    PROVE  \E sum : Adds(sum, f, S) /\ SumFunctionOnSet(f, S) = sum[S]
<1> DEFINE any(T) == CHOOSE x \in T : TRUE
           pick == [T \in SUBSET S |-> any(T)]
           F == [x \in S |-> [n \in Int |-> f[x] + n]]
           Loop(it) == it = [T \in SUBSET S |-> IF T = {} THEN 0 ELSE f[any(T)] + it[T \ {any(T)}]]
           it == CHOOSE it : Loop(it)
<1>1. \A T \in SUBSET S : T # {} => any(T) \in T
  OBVIOUS
<1> HIDE DEF any
<1>2. F \in [S -> [Int -> Int]]
  OBVIOUS
<1>3. \A T \in SUBSET S : T # {} => pick[T] \in T
  BY <1>1
<1>4. PICK g : Loops(g, S, Int, 0, F, pick)
  <2>1. 0 \in Int
    OBVIOUS
  <2> HIDE DEF F, pick
  <2> QED
    BY <1>2, <1>3, <2>1, FoldExists
<1>5. \A T \in SUBSET S : g[T] = IF T = {} THEN 0 ELSE f[any(T)] + g[T \ {any(T)}]
  <2> SUFFICES ASSUME NEW T \in SUBSET S
               PROVE  g[T] = IF T = {} THEN 0 ELSE f[any(T)] + g[T \ {any(T)}]
    OBVIOUS
  <2>1. g[T] = IF T = {} THEN 0 ELSE F[pick[T]][g[T \ {pick[T]}]]
    BY <1>4 DEF Loops
  <2>2. CASE T # {}
    <3>1. any(T) \in S /\ g[T \ {any(T)}] \in Int
      BY <1>1, <1>4, <2>2 DEF Loops
    <3> QED
      BY <2>1, <2>2, <3>1
  <2> QED
    BY <2>1, <2>2
<1>6. g \in [SUBSET S -> Int]
  BY <1>4 DEF Loops
<1>7. Loop(g)
  <2> HIDE DEF F, pick
  <2> QED
    BY <1>5, <1>6
<1>8. Loop(it)
  <2> HIDE DEF Loop
  <2> QED
    BY <1>7
<1>9. SumFunctionOnSet(f, S) = it[S]
  BY DEF SumFunctionOnSet, FoldFunctionOnSet, MapThenFoldSet, any
<1> HIDE DEF it
<1>10. \A T \in SUBSET S : it[T] = IF T = {} THEN 0 ELSE f[any(T)] + it[T \ {any(T)}]
  BY <1>8
<1> DEFINE H == {T \in SUBSET S : it[T] = g[T]}
<1>11. \A T \in SUBSET S : T \in H
  <2>1. {} \in H
    BY <1>5, <1>10
  <2>2. ASSUME NEW T \in SUBSET S, T # {} PROVE \E x \in T : T \ {x} \in H => T \in H
    <3>1. any(T) \in T
      BY <1>1, <2>2
    <3>2. it[T] = f[any(T)] + it[T \ {any(T)}] /\ g[T] = f[any(T)] + g[T \ {any(T)}]
      BY <1>5, <1>10, <2>2
    <3> QED
      BY <3>1, <3>2
  <2> HIDE DEF H
  <2> QED
    BY <2>1, <2>2, SubsetInduction
<1>12. Adds(g, f, S)
  BY <1>5, <1>6 DEF Adds, any
<1>13. SumFunctionOnSet(f, S) = g[S]
  BY <1>9, <1>11
<1> QED
  BY <1>12, <1>13

\* A sum is that of its parts: all sums of the subsets of S are of one loop.
LEMMA SumsAdd ==
    ASSUME NEW S, IsFiniteSet(S), NEW f, \A x \in S : f[x] \in Int
    PROVE  Adds([T \in SUBSET S |-> SumFunctionOnSet(f, T)], f, S)
<1>1. PICK sum : Adds(sum, f, S)
  BY SumIsLoop
<1>2. ASSUME NEW T \in SUBSET S PROVE SumFunctionOnSet(f, T) = sum[T]
  <2>1. IsFiniteSet(T)
    BY FS_Subset
  <2>2. PICK part : Adds(part, f, T) /\ SumFunctionOnSet(f, T) = part[T]
    BY <2>1, SumIsLoop
  <2> DEFINE H == {U \in SUBSET T : part[U] = sum[U]}
             any(U) == CHOOSE x \in U : TRUE
  <2>3. {} \in H
    BY <1>1, <2>2 DEF Adds
  <2>4. ASSUME NEW U \in SUBSET T, U # {} PROVE \E x \in U : U \ {x} \in H => U \in H
    <3>1. any(U) \in U
      BY <2>4
    <3>2. part[U] = f[any(U)] + part[U \ {any(U)}] /\ sum[U] = f[any(U)] + sum[U \ {any(U)}]
      BY <1>1, <2>2, <2>4 DEF Adds
    <3> QED
      BY <3>1, <3>2
  <2>5. \A U \in SUBSET T : U \in H
    <3> HIDE DEF H
    <3> QED
      BY <2>1, <2>3, <2>4, SubsetInduction
  <2> QED
    BY <2>2, <2>5
<1>3. sum = [T \in SUBSET S |-> SumFunctionOnSet(f, T)]
  BY <1>1, <1>2 DEF Adds
<1> QED
  BY <1>1, <1>3

\* A sum is an integer, of nothing 0, and of a set any element and the rest.
LEMMA SumIs ==
    ASSUME NEW S, IsFiniteSet(S), NEW f, \A x \in S : f[x] \in Int
    PROVE  /\ SumFunctionOnSet(f, S) \in Int
           /\ SumFunctionOnSet(f, {}) = 0
           /\ \A x \in S : SumFunctionOnSet(f, S) = f[x] + SumFunctionOnSet(f, S \ {x})
<1> DEFINE sum(T) == SumFunctionOnSet(f, T)
           any(T) == CHOOSE x \in T : TRUE
           H == {T \in SUBSET S : \A x \in T : sum(T) = f[x] + sum(T \ {x})}
<1>1. /\ \A T \in SUBSET S : sum(T) \in Int
      /\ sum({}) = 0
      /\ \A T \in SUBSET S : T # {} => sum(T) = f[any(T)] + sum(T \ {any(T)})
  <2> DEFINE g == [T \in SUBSET S |-> sum(T)]
  <2>1. Adds(g, f, S)
    BY SumsAdd
  <2>2. \A T \in SUBSET S : g[T] = sum(T)
    OBVIOUS
  <2>3. {} \in SUBSET S /\ \A T \in SUBSET S : T \ {any(T)} \in SUBSET S
    OBVIOUS
  <2>4. /\ g \in [SUBSET S -> Int] /\ g[{}] = 0
        /\ \A T \in SUBSET S : T # {} => g[T] = f[any(T)] + g[T \ {any(T)}]
    BY <2>1 DEF Adds
  <2> HIDE DEF sum, any, g
  <2> QED
    BY <2>2, <2>3, <2>4
<1>2. \A T \in SUBSET S : T # {} => any(T) \in T
  OBVIOUS
<1> HIDE DEF sum, any
<1>3. ASSUME NEW T \in SUBSET S, \A U \in SUBSET T : U # T => U \in H PROVE T \in H
  <2>1. ASSUME NEW x \in T, x # any(T) PROVE sum(T) = f[x] + sum(T \ {x})
    <3> DEFINE y == any(T)
               rest == T \ {x, y}
    <3>1. y \in T /\ sum(T) = f[y] + sum(T \ {y})
      BY <1>1, <1>2
    <3>2. T \ {x} \in H /\ T \ {y} \in H /\ y \in T \ {x} /\ x \in T \ {y}
      BY <1>3, <2>1, <3>1
    <3>3. (T \ {x}) \ {y} = rest /\ (T \ {y}) \ {x} = rest
      OBVIOUS
    <3>4. sum(T \ {x}) = f[y] + sum(rest) /\ sum(T \ {y}) = f[x] + sum(rest)
      BY <3>2, <3>3
    <3>5. f[x] \in Int /\ f[y] \in Int /\ sum(rest) \in Int
      BY <1>1, <3>1
    <3> HIDE DEF y, rest
    <3> QED
      BY <3>1, <3>4, <3>5
  <2>2. ASSUME NEW x \in T, x = any(T) PROVE sum(T) = f[x] + sum(T \ {x})
    BY <1>1, <2>2
  <2> QED
    BY <2>1, <2>2
<1>4. \A T \in SUBSET S : T \in H
  <2> HIDE DEF H
  <2> QED
    BY <1>3, SmallerSubsets
<1> QED
  BY <1>1, <1>4 DEF sum

\* Two functions that agree on a set have one sum.
LEMMA SumsAgree ==
    ASSUME NEW S, IsFiniteSet(S), NEW f, NEW g, \A x \in S : f[x] \in Int /\ g[x] = f[x]
    PROVE  SumFunctionOnSet(f, S) = SumFunctionOnSet(g, S)
<1> DEFINE H == {T \in SUBSET S : SumFunctionOnSet(f, T) = SumFunctionOnSet(g, T)}
<1>1. {} \in H
  BY SumIs
<1>2. ASSUME NEW T \in SUBSET S, T # {} PROVE \E x \in T : T \ {x} \in H => T \in H
  <2>1. PICK x \in T : TRUE
    BY <1>2
  <2>2. IsFiniteSet(T)
    BY FS_Subset
  <2>3. /\ SumFunctionOnSet(f, T) = f[x] + SumFunctionOnSet(f, T \ {x})
        /\ SumFunctionOnSet(g, T) = g[x] + SumFunctionOnSet(g, T \ {x})
    BY <2>2, SumIs
  <2> QED
    BY <2>3
<1>3. \A T \in SUBSET S : T \in H
  <2> HIDE DEF H
  <2> QED
    BY <1>1, <1>2, SubsetInduction
<1> QED
  BY <1>3

\* The sum over two sets apart.
LEMMA SumOfTwo ==
    ASSUME NEW S, IsFiniteSet(S), NEW f, \A x \in S : f[x] \in Int,
           NEW A \in SUBSET S, NEW B \in SUBSET S, A \cap B = {}
    PROVE  SumFunctionOnSet(f, A \cup B) = SumFunctionOnSet(f, A) + SumFunctionOnSet(f, B)
<1> DEFINE sum(T) == SumFunctionOnSet(f, T)
           H == {T \in SUBSET B : sum(A \cup T) = sum(A) + sum(T)}
<1>1. \A T \in SUBSET S : /\ sum(T) \in Int
                          /\ \A x \in T : sum(T) = f[x] + sum(T \ {x})
  <2> SUFFICES ASSUME NEW T \in SUBSET S
               PROVE  sum(T) \in Int /\ \A x \in T : sum(T) = f[x] + sum(T \ {x})
    OBVIOUS
  <2>1. IsFiniteSet(T) /\ \A x \in T : f[x] \in Int
    BY FS_Subset
  <2> QED
    BY <2>1, SumIs
<1>2. sum({}) = 0
  BY SumIs
<1>3. IsFiniteSet(B)
  BY FS_Subset
<1> HIDE DEF sum
<1>4. {} \in H
  <2>1. A \cup {} = A /\ sum(A) \in Int
    BY <1>1
  <2> QED
    BY <1>2, <2>1
<1>5. ASSUME NEW T \in SUBSET B, T # {} PROVE \E x \in T : T \ {x} \in H => T \in H
  <2>1. PICK x \in T : TRUE
    BY <1>5
  <2>2. (A \cup T) \ {x} = A \cup (T \ {x}) /\ A \cup T \in SUBSET S /\ T \in SUBSET S /\ T \ {x} \in SUBSET S
    BY <2>1
  <2>3. sum(A \cup T) = f[x] + sum(A \cup (T \ {x})) /\ sum(T) = f[x] + sum(T \ {x})
    BY <1>1, <2>2
  <2>4. f[x] \in Int /\ sum(A) \in Int /\ sum(T \ {x}) \in Int
    BY <1>1, <2>2
  <2>5. ASSUME T \ {x} \in H PROVE T \in H
    <3>1. sum(A \cup (T \ {x})) = sum(A) + sum(T \ {x})
      BY <2>5
    <3>2. sum(A \cup T) = sum(A) + sum(T)
      BY <2>3, <2>4, <3>1
    <3> QED
      BY <3>2
  <2> HIDE DEF H
  <2> QED
    BY <2>1, <2>5
<1>6. \A T \in SUBSET B : T \in H
  <2> HIDE DEF H
  <2> QED
    BY <1>3, <1>4, <1>5, SubsetInduction
<1> QED
  BY <1>6 DEF sum

\* The sum over the image of a set, under a map that keeps its elements apart.
LEMMA SumOfImage ==
    ASSUME NEW S, IsFiniteSet(S), NEW f, \A x \in S : f[x] \in Int,
           NEW h, \A x, y \in S : h[x] = h[y] => x = y, NEW g, \A x \in S : g[h[x]] = f[x]
    PROVE  SumFunctionOnSet(f, S) = SumFunctionOnSet(g, {h[x] : x \in S})
<1> DEFINE Image(T) == {h[x] : x \in T}
           H == {T \in SUBSET S : SumFunctionOnSet(f, T) = SumFunctionOnSet(g, Image(T))}
<1>1. \A T \in SUBSET S : IsFiniteSet(T) /\ IsFiniteSet(Image(T))
  <2> SUFFICES ASSUME NEW T \in SUBSET S PROVE IsFiniteSet(T) /\ IsFiniteSet(Image(T))
    OBVIOUS
  <2> DEFINE onto == [x \in T |-> h[x]]
  <2>1. IsFiniteSet(T)
    BY FS_Subset
  <2>2. onto \in Surjection(T, Image(T))
    BY DEF Surjection
  <2> HIDE DEF onto, Image
  <2> QED
    BY <2>1, <2>2, FS_Surjection
<1>2. {} \in H
  <2>1. Image({}) = {}
    OBVIOUS
  <2>2. IsFiniteSet({}) /\ SumFunctionOnSet(f, {}) = 0 /\ SumFunctionOnSet(g, {}) = 0
    <3>1. IsFiniteSet({})
      BY FS_EmptySet
    <3> QED
      BY <3>1, SumIs
  <2> QED
    BY <2>1, <2>2
<1>3. ASSUME NEW T \in SUBSET S, T # {} PROVE \E x \in T : T \ {x} \in H => T \in H
  <2>1. PICK x \in T : TRUE
    BY <1>3
  <2>2. Image(T) \ {h[x]} = Image(T \ {x}) /\ h[x] \in Image(T) /\ \A y \in Image(T) : g[y] \in Int
    OBVIOUS
  <2>3. SumFunctionOnSet(f, T) = f[x] + SumFunctionOnSet(f, T \ {x})
    <3>1. IsFiniteSet(T) /\ \A y \in T : f[y] \in Int
      BY <1>1
    <3> QED
      BY <3>1, SumIs
  <2>4. SumFunctionOnSet(g, Image(T)) = g[h[x]] + SumFunctionOnSet(g, Image(T) \ {h[x]})
    <3>1. IsFiniteSet(Image(T))
      BY <1>1
    <3> HIDE DEF Image
    <3> QED
      BY <2>2, <3>1, SumIs
  <2> HIDE DEF Image
  <2> QED
    BY <2>1, <2>2, <2>3, <2>4
<1>4. \A T \in SUBSET S : T \in H
  <2> HIDE DEF H
  <2> QED
    BY <1>2, <1>3, SubsetInduction
<1> QED
  BY <1>4

\* A sum taken by groups, one per key.
LEMMA SumOfGroups ==
    ASSUME NEW S, IsFiniteSet(S), NEW f, \A x \in S : f[x] \in Int, NEW key
    PROVE  /\ IsFiniteSet({key[x] : x \in S})
           /\ \A k : SumFunctionOnSet(f, {x \in S : key[x] = k}) \in Int
           /\ SumFunctionOnSet([k \in {key[x] : x \in S} |-> SumFunctionOnSet(f, {x \in S : key[x] = k})],
                               {key[x] : x \in S})
              = SumFunctionOnSet(f, S)
<1> DEFINE keys == {key[x] : x \in S}
           of(k) == {x \in S : key[x] = k}
           by == [k \in keys |-> SumFunctionOnSet(f, of(k))]
           within(L) == {x \in S : key[x] \in L}
           H == {L \in SUBSET keys : SumFunctionOnSet(by, L) = SumFunctionOnSet(f, within(L))}
<1>1. IsFiniteSet(keys)
  <2> DEFINE onto == [x \in S |-> key[x]]
  <2>1. onto \in Surjection(S, keys)
    BY DEF Surjection
  <2> HIDE DEF onto, keys
  <2> QED
    BY <2>1, FS_Surjection
<1>2. \A T \in SUBSET S : SumFunctionOnSet(f, T) \in Int
  <2> SUFFICES ASSUME NEW T \in SUBSET S PROVE SumFunctionOnSet(f, T) \in Int
    OBVIOUS
  <2>1. IsFiniteSet(T) /\ \A x \in T : f[x] \in Int
    BY FS_Subset
  <2> QED
    BY <2>1, SumIs
<1>3. \A k : of(k) \in SUBSET S
  OBVIOUS
<1>4. \A k \in keys : by[k] = SumFunctionOnSet(f, of(k)) /\ by[k] \in Int
  BY <1>2, <1>3
<1>5. {} \in H
  <2>1. within({}) = {}
    OBVIOUS
  <2>2. SumFunctionOnSet(f, {}) = 0
    BY SumIs
  <2>3. SumFunctionOnSet(by, {}) = 0
    <3> HIDE DEF keys, by
    <3> QED
      BY <1>1, <1>4, SumIs
  <2> HIDE DEF by, within
  <2> QED
    BY <2>1, <2>2, <2>3
<1>6. ASSUME NEW L \in SUBSET keys, L # {} PROVE \E k \in L : L \ {k} \in H => L \in H
  <2>1. PICK k \in L : TRUE
    BY <1>6
  <2>2. /\ within(L) = within(L \ {k}) \cup of(k) /\ within(L \ {k}) \cap of(k) = {}
        /\ within(L \ {k}) \in SUBSET S /\ of(k) \in SUBSET S
    BY <2>1
  <2>3. SumFunctionOnSet(f, within(L)) = SumFunctionOnSet(f, within(L \ {k})) + SumFunctionOnSet(f, of(k))
    <3> DEFINE A == within(L \ {k})
               B == of(k)
    <3>1. A \in SUBSET S /\ B \in SUBSET S /\ A \cap B = {} /\ within(L) = A \cup B
      BY <2>2
    <3> HIDE DEF within, A, B
    <3>2. SumFunctionOnSet(f, A \cup B) = SumFunctionOnSet(f, A) + SumFunctionOnSet(f, B)
      BY <3>1, SumOfTwo
    <3> QED
      BY <3>1, <3>2 DEF A, B
  <2>4. SumFunctionOnSet(by, L) = by[k] + SumFunctionOnSet(by, L \ {k})
    <3>1. IsFiniteSet(L) /\ \A l \in L : by[l] \in Int
      <4> HIDE DEF by, keys
      <4> QED
        BY <1>1, <1>4, FS_Subset
    <3> HIDE DEF by
    <3> QED
      BY <3>1, SumIs
  <2>5. SumFunctionOnSet(f, within(L \ {k})) \in Int /\ SumFunctionOnSet(f, of(k)) \in Int
    BY <1>2, <2>2
  <2>6. by[k] = SumFunctionOnSet(f, of(k))
    BY <1>4
  <2> HIDE DEF by, of, within
  <2>7. ASSUME L \ {k} \in H PROVE L \in H
    <3>1. SumFunctionOnSet(by, L \ {k}) = SumFunctionOnSet(f, within(L \ {k}))
      BY <2>7
    <3>2. SumFunctionOnSet(by, L) = SumFunctionOnSet(f, within(L))
      BY <2>3, <2>4, <2>5, <2>6, <3>1
    <3> QED
      BY <3>2
  <2> HIDE DEF H
  <2> QED
    BY <2>1, <2>7
<1>7. \A L \in SUBSET keys : L \in H
  <2> HIDE DEF H, keys
  <2> QED
    BY <1>1, <1>5, <1>6, SubsetInduction
<1>8. within(keys) = S
  OBVIOUS
<1>9. SumFunctionOnSet(by, keys) = SumFunctionOnSet(f, S)
  <2>1. keys \in SUBSET keys
    OBVIOUS
  <2> HIDE DEF by, within, keys
  <2> QED
    BY <1>7, <1>8, <2>1
<1> QED
  BY <1>1, <1>2, <1>3, <1>9

-----------------------------------------------------------------------------
(* The totals over the groups of an answer *)

Classes == {"internal_transfer", "debt_service", "external_spend"}
TotalsRecord == [inflow : Int, outflow : Int, internal_transfer : Int, debt_service : Int,
                 external_spend : Int]
Sound(g) == g.inflow \in Int /\ g.outflow \in Int /\ g.class \in Classes
InClasses(t) == t.internal_transfer + t.debt_service + t.external_spend

\* One group more, as FlowClassTotals adds it.
With(g, t) == [t EXCEPT !.inflow = @ + g.inflow, !.outflow = @ + g.outflow,
                        ![g.class] = @ + g.outflow]

\* One group more: what comes in, what goes out, and the parts of it.
LEMMA WithIs ==
    ASSUME NEW g, Sound(g), NEW t \in TotalsRecord
    PROVE  /\ With(g, t) \in TotalsRecord
           /\ With(g, t).inflow = t.inflow + g.inflow
           /\ With(g, t).outflow = t.outflow + g.outflow
           /\ InClasses(With(g, t)) = InClasses(t) + g.outflow
<1>1. /\ t.inflow \in Int /\ t.outflow \in Int /\ t.internal_transfer \in Int
      /\ t.debt_service \in Int /\ t.external_spend \in Int /\ g.inflow \in Int /\ g.outflow \in Int
  BY DEF TotalsRecord, Sound
<1>2. CASE g.class = "internal_transfer"
  <2> DEFINE u == [t EXCEPT !.inflow = @ + g.inflow, !.outflow = @ + g.outflow,
                            !.internal_transfer = @ + g.outflow]
  <2>1. With(g, t) = u
    BY <1>2 DEF With
  <2>2. u \in TotalsRecord
    <3> DEFINE a == t.inflow + g.inflow
               b == t.outflow + g.outflow
               d == t.internal_transfer + g.outflow
    <3>1. a \in Int /\ b \in Int /\ d \in Int
      BY <1>1
    <3>2. u = [t EXCEPT !.inflow = a, !.outflow = b, !.internal_transfer = d]
      OBVIOUS
    <3> HIDE DEF a, b, d, u
    <3>3. [t EXCEPT !.inflow = a, !.outflow = b, !.internal_transfer = d] \in TotalsRecord
      BY <3>1 DEF TotalsRecord
    <3> QED
      BY <3>2, <3>3
  <2>3. u.inflow = t.inflow + g.inflow /\ u.outflow = t.outflow + g.outflow
    BY <1>1 DEF TotalsRecord
  <2>4. u.internal_transfer = t.internal_transfer + g.outflow
    BY <1>1 DEF TotalsRecord
  <2>5. u.debt_service = t.debt_service /\ u.external_spend = t.external_spend
    BY <1>1 DEF TotalsRecord
  <2> HIDE DEF u
  <2>6. InClasses(u) = InClasses(t) + g.outflow
    BY <1>1, <2>4, <2>5 DEF InClasses
  <2> QED
    BY <2>1, <2>2, <2>3, <2>6
<1>3. CASE g.class = "debt_service"
  <2> DEFINE u == [t EXCEPT !.inflow = @ + g.inflow, !.outflow = @ + g.outflow,
                            !.debt_service = @ + g.outflow]
  <2>1. With(g, t) = u
    BY <1>3 DEF With
  <2>2. u \in TotalsRecord
    <3> DEFINE a == t.inflow + g.inflow
               b == t.outflow + g.outflow
               d == t.debt_service + g.outflow
    <3>1. a \in Int /\ b \in Int /\ d \in Int
      BY <1>1
    <3>2. u = [t EXCEPT !.inflow = a, !.outflow = b, !.debt_service = d]
      OBVIOUS
    <3> HIDE DEF a, b, d, u
    <3>3. [t EXCEPT !.inflow = a, !.outflow = b, !.debt_service = d] \in TotalsRecord
      BY <3>1 DEF TotalsRecord
    <3> QED
      BY <3>2, <3>3
  <2>3. u.inflow = t.inflow + g.inflow /\ u.outflow = t.outflow + g.outflow
    BY <1>1 DEF TotalsRecord
  <2>4. u.debt_service = t.debt_service + g.outflow
    BY <1>1 DEF TotalsRecord
  <2>5. u.internal_transfer = t.internal_transfer /\ u.external_spend = t.external_spend
    BY <1>1 DEF TotalsRecord
  <2> HIDE DEF u
  <2>6. InClasses(u) = InClasses(t) + g.outflow
    BY <1>1, <2>4, <2>5 DEF InClasses
  <2> QED
    BY <2>1, <2>2, <2>3, <2>6
<1>4. CASE g.class = "external_spend"
  <2> DEFINE u == [t EXCEPT !.inflow = @ + g.inflow, !.outflow = @ + g.outflow,
                            !.external_spend = @ + g.outflow]
  <2>1. With(g, t) = u
    BY <1>4 DEF With
  <2>2. u \in TotalsRecord
    <3> DEFINE a == t.inflow + g.inflow
               b == t.outflow + g.outflow
               d == t.external_spend + g.outflow
    <3>1. a \in Int /\ b \in Int /\ d \in Int
      BY <1>1
    <3>2. u = [t EXCEPT !.inflow = a, !.outflow = b, !.external_spend = d]
      OBVIOUS
    <3> HIDE DEF a, b, d, u
    <3>3. [t EXCEPT !.inflow = a, !.outflow = b, !.external_spend = d] \in TotalsRecord
      BY <3>1 DEF TotalsRecord
    <3> QED
      BY <3>2, <3>3
  <2>3. u.inflow = t.inflow + g.inflow /\ u.outflow = t.outflow + g.outflow
    BY <1>1 DEF TotalsRecord
  <2>4. u.external_spend = t.external_spend + g.outflow
    BY <1>1 DEF TotalsRecord
  <2>5. u.internal_transfer = t.internal_transfer /\ u.debt_service = t.debt_service
    BY <1>1 DEF TotalsRecord
  <2> HIDE DEF u
  <2>6. InClasses(u) = InClasses(t) + g.outflow
    BY <1>1, <2>4, <2>5 DEF InClasses
  <2> QED
    BY <2>1, <2>2, <2>3, <2>6
<1> QED
  BY <1>2, <1>3, <1>4 DEF Sound, Classes

\* _flow_class_totals: what came in and what went out is summed over the groups,
\* and what went out is parted among the classes.
LEMMA FlowClassTotalsAre ==
    ASSUME NEW groups, IsFiniteSet(groups), \A g \in groups : Sound(g)
    PROVE  LET t == FlowClassTotals(groups) IN
           /\ t.inflow = SumFunctionOnSet([g \in groups |-> g.inflow], groups)
           /\ t.outflow = SumFunctionOnSet([g \in groups |-> g.outflow], groups)
           /\ t.outflow = t.internal_transfer + t.debt_service + t.external_spend
<1> DEFINE any(T) == CHOOSE x \in T : TRUE
           pick == [T \in SUBSET groups |-> any(T)]
           F == [g \in groups |-> [t \in TotalsRecord |-> With(g, t)]]
           Loop(it) == it = [T \in SUBSET groups |-> IF T = {} THEN NoTotals
                                                     ELSE With(any(T), it[T \ {any(T)}])]
           it == CHOOSE it : Loop(it)
           ins == [g \in groups |-> g.inflow]
           outs == [g \in groups |-> g.outflow]
<1>1. \A T \in SUBSET groups : T # {} => any(T) \in T
  OBVIOUS
<1> HIDE DEF any
<1>2. NoTotals \in TotalsRecord /\ NoTotals.inflow = 0 /\ NoTotals.outflow = 0 /\ InClasses(NoTotals) = 0
  BY DEF NoTotals, TotalsRecord, InClasses
<1>3. \A g \in groups : \A t \in TotalsRecord : With(g, t) \in TotalsRecord
  BY WithIs
<1>4. PICK h : Loops(h, groups, TotalsRecord, NoTotals, F, pick)
  <2>1. F \in [groups -> [TotalsRecord -> TotalsRecord]]
    BY <1>3
  <2>2. \A T \in SUBSET groups : T # {} => pick[T] \in T
    BY <1>1
  <2> HIDE DEF F, pick
  <2> QED
    BY <1>2, <2>1, <2>2, FoldExists
<1>5. h \in [SUBSET groups -> TotalsRecord]
  BY <1>4 DEF Loops
<1>6. ASSUME NEW T \in SUBSET groups
      PROVE  h[T] = IF T = {} THEN NoTotals ELSE With(any(T), h[T \ {any(T)}])
  <2>1. h[T] = IF T = {} THEN NoTotals ELSE F[pick[T]][h[T \ {pick[T]}]]
    BY <1>4 DEF Loops
  <2>2. CASE T # {}
    <3>1. any(T) \in groups /\ h[T \ {any(T)}] \in TotalsRecord
      BY <1>1, <1>5, <2>2
    <3> QED
      BY <2>1, <2>2, <3>1
  <2> QED
    BY <2>1, <2>2
<1>7. Loop(h)
  <2> HIDE DEF F, pick
  <2> QED
    BY <1>5, <1>6
<1>8. Loop(it)
  <2> HIDE DEF Loop
  <2> QED
    BY <1>7
<1>9. FlowClassTotals(groups) = it[groups]
  BY DEF FlowClassTotals, FoldSet, MapThenFoldSet, With, any
<1> HIDE DEF it, F, pick
<1>10. /\ it[{}] = NoTotals
       /\ \A T \in SUBSET groups : T # {} => it[T] = With(any(T), it[T \ {any(T)}])
  BY <1>8
<1> HIDE DEF Loop
<1> DEFINE Right(t, T) == /\ t \in TotalsRecord
                          /\ t.inflow = SumFunctionOnSet(ins, T)
                          /\ t.outflow = SumFunctionOnSet(outs, T)
                          /\ t.outflow = InClasses(t)
           H == {T \in SUBSET groups : Right(it[T], T)}
<1>11. \A g \in groups : ins[g] = g.inflow /\ outs[g] = g.outflow /\ ins[g] \in Int /\ outs[g] \in Int
  BY DEF Sound
<1> HIDE DEF ins, outs
<1>12. {} \in H
  <2>1. SumFunctionOnSet(ins, {}) = 0 /\ SumFunctionOnSet(outs, {}) = 0
    BY <1>11, SumIs
  <2> QED
    BY <1>2, <1>10, <2>1
<1>13. ASSUME NEW T \in SUBSET groups, T # {} PROVE \E x \in T : T \ {x} \in H => T \in H
  <2> DEFINE g == any(T)
             t == it[T \ {g}]
  <2>1. g \in T /\ g \in groups /\ Sound(g)
    BY <1>1, <1>13
  <2>2. it[T] = With(g, t)
    BY <1>10, <1>13
  <2>3. /\ SumFunctionOnSet(ins, T) = ins[g] + SumFunctionOnSet(ins, T \ {g})
        /\ SumFunctionOnSet(outs, T) = outs[g] + SumFunctionOnSet(outs, T \ {g})
    <3>1. IsFiniteSet(T) /\ \A x \in T : ins[x] \in Int /\ outs[x] \in Int
      BY <1>11, FS_Subset
    <3> QED
      BY <2>1, <3>1, SumIs
  <2>4. ASSUME T \ {g} \in H PROVE T \in H
    <3>1. Right(t, T \ {g})
      BY <2>4
    <3> HIDE DEF t, g
    <3>2. /\ With(g, t) \in TotalsRecord
          /\ With(g, t).inflow = t.inflow + g.inflow
          /\ With(g, t).outflow = t.outflow + g.outflow
          /\ InClasses(With(g, t)) = InClasses(t) + g.outflow
      BY <2>1, <3>1, WithIs
    <3>3. /\ ins[g] = g.inflow /\ outs[g] = g.outflow /\ g.inflow \in Int /\ g.outflow \in Int
          /\ t.inflow \in Int /\ t.outflow \in Int
      BY <1>11, <2>1, <3>1 DEF Sound, TotalsRecord
    <3>4. With(g, t).inflow = SumFunctionOnSet(ins, T) /\ With(g, t).outflow = SumFunctionOnSet(outs, T)
      BY <2>3, <3>1, <3>2, <3>3
    <3>5. With(g, t).outflow = InClasses(With(g, t))
      BY <3>1, <3>2
    <3>6. Right(it[T], T)
      BY <2>2, <3>2, <3>4, <3>5
    <3> QED
      BY <3>6
  <2> HIDE DEF H
  <2> QED
    BY <2>1, <2>4
<1>14. \A T \in SUBSET groups : T \in H
  <2> HIDE DEF H
  <2> QED
    BY <1>12, <1>13, SubsetInduction
<1>15. Right(it[groups], groups)
  BY <1>14
<1> QED
  BY <1>9, <1>15 DEF InClasses, ins, outs

-----------------------------------------------------------------------------
(* Pairing *)

\* Legs as the callers of pair_transfers hand them over.
AreLegs(legs) ==
    /\ IsFiniteSet(legs)
    /\ \A l \in legs : l.id \in Nat /\ l.day \in Nat /\ l.amount \in Int
    /\ \A l, m \in legs : l.id = m.id => l = m

\* Pairs of matching legs, of which no two share a leg.
Matchings(legs) ==
    {pairs \in SUBSET SUBSET Nat :
        /\ \A p \in pairs : \E l, m \in legs : p = {l.id, m.id} /\ l.id # m.id /\ M!Matches(l, m)
        /\ \A p, q \in pairs : p = q \/ p \cap q = {}}

\* A leg left over when its turn came has no match after it that is left over.
Settled(legs, l, pairs) ==
    \/ l.id \in M!Taken(pairs)
    \/ \A m \in legs : M!LegBefore(l, m) /\ M!Matches(l, m) => m.id \in M!Taken(pairs)

\* Some leg is the nearest of those that are free.
LEMMA BestExists ==
    ASSUME NEW legs, AreLegs(legs), NEW left \in legs, NEW free \in SUBSET legs, free # {}
    PROVE  \E r \in free : \A o \in free \ {r} : M!Nearer(left, r, o)
<1> DEFINE R == {p \in free \X free : M!Nearer(left, p[2], p[1])}
<1>1. /\ \A l \in free : l.id \in Nat /\ M!Distance(left, l) \in Nat
      /\ \A l, m \in free : l.id = m.id => l = m
  BY DEF AreLegs, M!Distance
<1>2. \A x, y \in free : <<x, y>> \in R <=> M!Nearer(left, y, x)
  OBVIOUS
<1>3. \A x, y \in free : x # y => <<x, y>> \in R \/ <<y, x>> \in R
  BY <1>1, <1>2 DEF M!Nearer
<1>4. \A x, y, z \in free : <<x, y>> \in R /\ <<y, z>> \in R => <<x, z>> \in R
  BY <1>1, <1>2 DEF M!Nearer
<1>5. IsFiniteSet(free)
  BY FS_Subset DEF AreLegs
<1> HIDE DEF R
<1>6. PICK r \in free : \A o \in free \ {r} : <<o, r>> \in R
  BY <1>3, <1>4, <1>5, LastExists
<1> QED
  BY <1>2, <1>6

\* Some leg comes last.
LEMMA LastLegIn ==
    ASSUME NEW legs, AreLegs(legs), NEW T \in SUBSET legs, T # {}
    PROVE  M!LastLeg(T) \in T
<1> DEFINE R == {p \in T \X T : M!LegBefore(p[1], p[2])}
<1>1. /\ \A l \in T : l.id \in Nat /\ l.day \in Nat
      /\ \A l, m \in T : l.id = m.id => l = m
  BY DEF AreLegs
<1>2. \A x, y \in T : <<x, y>> \in R <=> M!LegBefore(x, y)
  OBVIOUS
<1>3. \A x, y \in T : x # y => <<x, y>> \in R \/ <<y, x>> \in R
  BY <1>1, <1>2 DEF M!LegBefore
<1>4. \A x, y, z \in T : <<x, y>> \in R /\ <<y, z>> \in R => <<x, z>> \in R
  BY <1>1, <1>2 DEF M!LegBefore
<1>5. IsFiniteSet(T)
  BY FS_Subset DEF AreLegs
<1> HIDE DEF R
<1>6. PICK x \in T : \A y \in T \ {x} : <<y, x>> \in R
  BY <1>3, <1>4, <1>5, LastExists
<1>7. \A y \in T \ {x} : M!LegBefore(y, x)
  BY <1>2, <1>6
<1> QED
  BY <1>7 DEF M!LastLeg

\* A leg takes a free partner, and no pair it takes shares a leg with another.
LEMMA PairOneKeeps ==
    ASSUME NEW legs, AreLegs(legs), NEW left \in legs, NEW pairs \in Matchings(legs)
    PROVE  /\ M!PairOne(left, legs, pairs) \in Matchings(legs)
           /\ Settled(legs, left, M!PairOne(left, legs, pairs))
           /\ \A l : Settled(legs, l, pairs) => Settled(legs, l, M!PairOne(left, legs, pairs))
<1> DEFINE free == M!Partners(left, legs, pairs)
           best == CHOOSE r \in free : \A o \in free \ {r} : M!Nearer(left, r, o)
<1>1. CASE left.id \in M!Taken(pairs) \/ free = {}
  <2>1. M!PairOne(left, legs, pairs) = pairs
    BY <1>1 DEF M!PairOne
  <2>2. Settled(legs, left, pairs)
    BY <1>1 DEF Settled, M!Partners
  <2> QED
    BY <2>1, <2>2
<1>2. CASE left.id \notin M!Taken(pairs) /\ free # {}
  <2>1. free \in SUBSET legs
    BY DEF M!Partners
  <2>2. \E r \in free : \A o \in free \ {r} : M!Nearer(left, r, o)
    <3> HIDE DEF free
    <3> QED
      BY <1>2, <2>1, BestExists
  <2>3. best \in free
    <3> HIDE DEF free
    <3> QED
      BY <2>2
  <2>4. M!PairOne(left, legs, pairs) = pairs \cup {{left.id, best.id}}
    BY <1>2 DEF M!PairOne
  <2> HIDE DEF best
  <2>5. /\ best \in legs /\ best.id \notin M!Taken(pairs) /\ M!Matches(left, best)
        /\ M!LegBefore(left, best)
    BY <2>3 DEF M!Partners
  <2>6. left.id \in Nat /\ best.id \in Nat /\ left.id # best.id
    BY <2>5 DEF AreLegs, M!LegBefore
  <2>7. /\ pairs \in SUBSET SUBSET Nat
        /\ \A p \in pairs : \E l, m \in legs : p = {l.id, m.id} /\ l.id # m.id /\ M!Matches(l, m)
        /\ \A p, q \in pairs : p = q \/ p \cap q = {}
        /\ \A p \in pairs : p \cap {left.id, best.id} = {}
    BY <1>2, <2>5 DEF Matchings, M!Taken
  <2>8. /\ pairs \cup {{left.id, best.id}} \in SUBSET SUBSET Nat
        /\ \A p \in pairs \cup {{left.id, best.id}} :
              \E l, m \in legs : p = {l.id, m.id} /\ l.id # m.id /\ M!Matches(l, m)
        /\ \A p, q \in pairs \cup {{left.id, best.id}} : p = q \/ p \cap q = {}
    BY <2>5, <2>6, <2>7
  <2>9. /\ left.id \in M!Taken(pairs \cup {{left.id, best.id}})
        /\ M!Taken(pairs) \subseteq M!Taken(pairs \cup {{left.id, best.id}})
    BY DEF M!Taken
  <2>10. M!PairOne(left, legs, pairs) \in Matchings(legs)
    BY <2>4, <2>8 DEF Matchings
  <2>11. Settled(legs, left, M!PairOne(left, legs, pairs))
    BY <2>4, <2>9 DEF Settled
  <2>12. \A l : Settled(legs, l, pairs) => Settled(legs, l, M!PairOne(left, legs, pairs))
    BY <2>4, <2>9 DEF Settled
  <2> QED
    BY <2>10, <2>11, <2>12
<1> QED
  BY <1>1, <1>2

\* pair_transfers (store/transfers.py) pairs matching legs, each at most once,
\* and leaves no two legs unpaired that match: of any legs, on any days.
LEMMA PairsAreMaximal ==
    ASSUME NEW legs, AreLegs(legs)
    PROVE  LET pairs == M!PairTransfers(legs) IN
           /\ pairs \in Matchings(legs)
           /\ \A l, m \in legs : M!Matches(l, m) => l.id \in M!Taken(pairs) \/ m.id \in M!Taken(pairs)
<1> DEFINE G == Matchings(legs)
           Step(l, pairs) == M!PairOne(l, legs, pairs)
           F == [l \in legs |-> [pairs \in G |-> Step(l, pairs)]]
           pick == [T \in SUBSET legs |-> M!LastLeg(T)]
           Loop(it) == it = [T \in SUBSET legs |-> IF T = {} THEN {}
                                                   ELSE LET x == M!LastLeg(T) IN Step(x, it[T \ {x}])]
           it == CHOOSE it : Loop(it)
           H == {T \in SUBSET legs : it[T] \in G /\ \A l \in T : Settled(legs, l, it[T])}
<1>1. IsFiniteSet(legs)
  BY DEF AreLegs
<1>2. \A T \in SUBSET legs : T # {} => M!LastLeg(T) \in T
  BY LastLegIn
<1>3. {} \in G
  BY DEF Matchings
<1>4. \A l \in legs : \A pairs \in G :
         /\ Step(l, pairs) \in G /\ Settled(legs, l, Step(l, pairs))
         /\ \A m : Settled(legs, m, pairs) => Settled(legs, m, Step(l, pairs))
  BY PairOneKeeps
<1>5. \E f : Loop(f)
  <2>1. F \in [legs -> [G -> G]]
    <3> HIDE DEF G, Step
    <3> QED
      BY <1>4
  <2>2. \A T \in SUBSET legs : T # {} => pick[T] \in T
    BY <1>2
  <2>3. PICK f : Loops(f, legs, G, {}, F, pick)
    <3> HIDE DEF F, G, pick
    <3> QED
      BY <1>1, <1>3, <2>1, <2>2, FoldExists
  <2>4. ASSUME NEW T \in SUBSET legs
        PROVE  f[T] = IF T = {} THEN {} ELSE Step(M!LastLeg(T), f[T \ {M!LastLeg(T)}])
    <3> HIDE DEF G, Step
    <3> QED
      BY <1>2, <2>3 DEF Loops
  <2>5. Loop(f)
    <3> HIDE DEF G, Step, F, pick
    <3> QED
      BY <2>3, <2>4 DEF Loops
  <2> QED
    BY <2>5
<1>6. Loop(it)
  <2> HIDE DEF Loop
  <2> QED
    BY <1>5
<1>7. M!PairTransfers(legs) = it[legs]
  BY DEF M!PairTransfers, M!MapThenFoldSet
<1> HIDE DEF it, G, Step
<1>8. {} \in H
  BY <1>3, <1>6
<1>9. ASSUME NEW T \in SUBSET legs, T # {}
      PROVE  \E x \in T : T \ {x} \in H => T \in H
  <2>1. M!LastLeg(T) \in T /\ T \ {M!LastLeg(T)} \in SUBSET legs
    BY <1>2, <1>9
  <2>2. it[T] = Step(M!LastLeg(T), it[T \ {M!LastLeg(T)}])
    BY <1>6, <1>9
  <2>3. T \ {M!LastLeg(T)} \in H => T \in H
    BY <1>4, <2>1, <2>2
  <2> QED
    BY <2>1, <2>3
<1>10. legs \in H
  <2> HIDE DEF H
  <2> QED
    BY <1>1, <1>8, <1>9, SubsetInduction, ZenonT(40)
<1> DEFINE pairs == M!PairTransfers(legs)
<1>11. pairs \in Matchings(legs) /\ \A l \in legs : Settled(legs, l, pairs)
  BY <1>7, <1>10 DEF G
<1>12. ASSUME NEW l \in legs, NEW m \in legs, M!Matches(l, m)
       PROVE  l.id \in M!Taken(pairs) \/ m.id \in M!Taken(pairs)
  <2>1. /\ l.id \in Nat /\ l.day \in Nat /\ l.amount \in Int
        /\ m.id \in Nat /\ m.day \in Nat /\ m.amount \in Int
    BY DEF AreLegs
  <2>2. M!Matches(m, l)
    BY <1>12, <2>1 DEF M!Matches, M!Distance
  <2>3. l.id # m.id
    BY <1>12 DEF AreLegs, M!Matches
  <2>4. M!LegBefore(l, m) \/ M!LegBefore(m, l)
    BY <2>1, <2>3 DEF M!LegBefore
  <2> HIDE DEF pairs
  <2> QED
    BY <1>11, <1>12, <2>2, <2>4 DEF Settled
<1> QED
  BY <1>11, <1>12

\* A row that is in a pair has the id of the older row of that pair.
LEMMA PairIdIs ==
    ASSUME NEW legs, AreLegs(legs), NEW pairs \in Matchings(legs), NEW k \in Nat
    PROVE  /\ M!PairId(k, pairs) \in Nat /\ M!PairId(k, pairs) <= k
           /\ k \notin M!Taken(pairs) => M!PairId(k, pairs) = 0
           /\ \A p \in pairs : k \in p => /\ M!PairId(k, pairs) = M!Min(p)
                                         /\ M!Min(p) \in p /\ \A j \in p : M!Min(p) <= j
<1>1. ASSUME NEW p \in pairs, k \in p
      PROVE  /\ M!PairId(k, pairs) = M!Min(p)
             /\ M!Min(p) \in p /\ \A j \in p : M!Min(p) <= j /\ j \in Nat
  <2>1. k \in M!Taken(pairs)
    BY <1>1 DEF M!Taken
  <2>2. \A q \in pairs : k \in q => q = p
    BY <1>1 DEF Matchings
  <2>3. (CHOOSE q \in pairs : k \in q) = p
    BY <1>1, <2>2
  <2>4. M!PairId(k, pairs) = M!Min(p)
    BY <2>1, <2>3 DEF M!PairId
  <2>5. PICK l \in legs, m \in legs : p = {l.id, m.id}
    BY DEF Matchings
  <2>6. l.id \in Nat /\ m.id \in Nat
    BY DEF AreLegs
  <2>7. M!Min(p) \in p /\ \A j \in p : M!Min(p) <= j
    BY <2>5, <2>6, LeastOf DEF M!Min
  <2> QED
    BY <2>4, <2>5, <2>6, <2>7
<1>2. CASE k \in M!Taken(pairs)
  <2>1. PICK p \in pairs : k \in p
    BY <1>2 DEF M!Taken
  <2> QED
    BY <1>1, <1>2, <2>1
<1>3. CASE k \notin M!Taken(pairs)
  <2>1. M!PairId(k, pairs) = 0 /\ \A p \in pairs : k \notin p
    BY <1>3 DEF M!PairId, M!Taken
  <2> QED
    BY <2>1
<1> QED
  BY <1>2, <1>3

-----------------------------------------------------------------------------
(* The invariant of Totals, by named parts *)

Connection == [bank : M!Banks, item : Nat, retired : BOOLEAN, roster : Nat]
AccountRow == [real : Real, conn : Nat, item : Nat, last : Nat]
LedgerRow == [account : Nat, lineage : Nat, move : DOMAIN Moves, gen : Nat, shape : Shapes,
              removed : BOOLEAN, pair : Nat]

\* Of n Items.  An Item is of one connection, and a bank has one that is live,
\* the newest, under its newest Item.
LinksAre(cs, n) ==
    /\ cs \in Seq(Connection)
    /\ \A c \in DOMAIN cs : cs[c].item \in 1 .. n
    /\ \A c, d \in DOMAIN cs : c < d /\ cs[c].bank = cs[d].bank =>
          cs[c].retired /\ cs[c].item < cs[d].item
    /\ \A c, d \in DOMAIN cs : cs[c].item = cs[d].item => c = d

\* An account has one row where its persistent id is known, and else one per
\* Item that listed it; of those under one connection the later was seen last.
AccountsAre(cs, tab, now) ==
    /\ tab \in Seq(AccountRow)
    /\ \A i \in DOMAIN tab :
        /\ tab[i].conn \in DOMAIN cs /\ Bank[tab[i].real] = cs[tab[i].conn].bank
        /\ tab[i].item \in 1 .. cs[tab[i].conn].item /\ tab[i].last \in 1 .. now
        /\ \A c \in DOMAIN cs : tab[i].item = cs[c].item => tab[i].conn = c
    /\ \A i, j \in DOMAIN tab : i < j /\ tab[i].real = tab[j].real =>
        /\ tab[i].real \notin persists /\ tab[i].item < tab[j].item
        /\ tab[i].conn = tab[j].conn => tab[i].last <= tab[j].last

\* Row i answers for r under Item x.
Answers(tab, x, r, i) == tab[i].real = r /\ (r \in persists \/ tab[i].item = x)

\* What an Item has yet to deliver is of accounts that have a row.
OwedAre(cs, tab, owing) ==
    /\ owing \in Seq(SUBSET DOMAIN Moves)
    /\ \A c \in DOMAIN cs : \A m \in owing[cs[c].item] :
        /\ Bank[Moves[m].real] = cs[c].bank
        /\ \E i \in DOMAIN tab : Answers(tab, cs[c].item, Moves[m].real, i)

\* A transaction is on the row of its account, and its Item is of the
\* connection it came by.
RowsAre(cs, tab, rs, n) ==
    /\ rs \in Seq(LedgerRow)
    /\ \A k \in DOMAIN rs :
        /\ rs[k].account \in DOMAIN tab /\ rs[k].lineage \in DOMAIN cs /\ rs[k].gen \in 1 .. n
        /\ Bank[Moves[rs[k].move].real] = cs[rs[k].lineage].bank
        /\ Answers(tab, rs[k].gen, Moves[rs[k].move].real, rs[k].account)
        /\ Moves[rs[k].move].real \in persists \/ tab[rs[k].account].conn = rs[k].lineage
        /\ \A c \in DOMAIN cs : rs[k].gen = cs[c].item => rs[k].lineage = c
    /\ \A j, k \in DOMAIN rs : rs[j].gen = rs[k].gen => rs[j].lineage = rs[k].lineage

\* The movement came under Item g, or will.
Came(rs, g, m) == \E k \in DOMAIN rs : rs[k].gen = g /\ rs[k].move = m
Comes(rs, owing, g, m) == m \in owing[g] \/ Came(rs, g, m)

\* An Item delivers each movement of an account once, newest first.
Delivery(rs, owing) ==
    /\ \A j, k \in DOMAIN rs : rs[j].gen = rs[k].gen /\ rs[j].move = rs[k].move => j = k
    /\ \A k \in DOMAIN rs : \A m \in owing[rs[k].gen] : m < rs[k].move
    /\ \A g \in DOMAIN owing : \A m \in owing[g] : \A l \in DOMAIN Moves :
          Moves[l].real = Moves[m].real => Comes(rs, owing, g, l)
    /\ \A k \in DOMAIN rs : \A l \in DOMAIN Moves :
          Moves[l].real = Moves[rs[k].move].real => Comes(rs, owing, rs[k].gen, l)

\* The pair ids are those of the rows as they stand; a row that left its
\* category keeps the id it had.
PairsAre(rs) ==
    \A k \in DOMAIN rs :
        /\ rs[k].pair <= k
        /\ rs[k].shape # "other" => rs[k].pair = M!PairId(k, M!PairTransfers(M!Candidates(rs)))

Rosters == \A c \in DOMAIN conns : conns[c].roster \in 1 .. today

MInv ==
    /\ today \in Nat \ {0} /\ persists \subseteq Real /\ closed \subseteq Real
    /\ LinksAre(conns, M!Items) /\ Rosters
    /\ AccountsAre(conns, accounts, today)
    /\ OwedAre(conns, accounts, owed)
    /\ RowsAre(conns, accounts, entries, M!Items)
    /\ Delivery(entries, owed)
    /\ PairsAre(entries)

-----------------------------------------------------------------------------
(* What a roster does to the accounts *)

\* Row i answers for its account on connection c, under Item x.
Own(tab, c, x, i) == tab[i].real \in persists \/ (tab[i].conn = c /\ tab[i].item = x)

Listed(c, x, r) == [real |-> r, conn |-> c, item |-> x, last |-> today]

\* t is what becomes of the accounts when connection c lists T under Item x.
SeenBy(tab, t, c, x, T) ==
    /\ t \in Seq(AccountRow) /\ DOMAIN tab \subseteq DOMAIN t
    /\ \A i \in DOMAIN tab : \/ t[i] = tab[i]
                            \/ /\ tab[i].real \in T /\ Own(tab, c, x, i)
                               /\ t[i] = Listed(c, x, tab[i].real)
    /\ \A i \in (DOMAIN t) \ (DOMAIN tab) :
          /\ t[i].real \in T /\ t[i] = Listed(c, x, t[i].real)
          /\ \A j \in DOMAIN tab : tab[j].real = t[i].real => ~ Own(tab, c, x, j)
    /\ \A i, j \in (DOMAIN t) \ (DOMAIN tab) : t[i].real = t[j].real => i = j
    /\ \A r \in T : \E i \in DOMAIN t : t[i] = Listed(c, x, r)

\* RowFor is the row that answers for the account, or 0 and there is none.
LEMMA RowForIs ==
    ASSUME NEW tab \in Seq(AccountRow), NEW c, NEW x, NEW r
    PROVE  LET i == M!RowFor(tab, c, x, r) IN
           /\ i = 0 => \A j \in DOMAIN tab : tab[j].real = r => ~ Own(tab, c, x, j)
           /\ i # 0 => i \in DOMAIN tab /\ tab[i].real = r /\ Own(tab, c, x, i)
<1> DEFINE own == {i \in DOMAIN tab : tab[i].real = r /\ tab[i].conn = c /\ tab[i].item = x}
           held == {i \in DOMAIN tab : tab[i].real = r /\ r \in persists}
           i == M!RowFor(tab, c, x, r)
<1>1. own \in SUBSET Nat /\ held \in SUBSET Nat /\ \A j \in DOMAIN tab : j \in Nat /\ j # 0
  BY SeqIs
<1>2. i = IF own # {} THEN M!Min(own) ELSE IF held # {} THEN M!Min(held) ELSE 0
  BY DEF M!RowFor
<1>3. \A S \in SUBSET Nat : S # {} => M!Min(S) \in S
  BY LeastOf DEF M!Min
<1>4. \A j \in DOMAIN tab : tab[j].real = r => (Own(tab, c, x, j) <=> j \in own \cup held)
  BY DEF Own
<1>5. \A j \in own \cup held : j \in DOMAIN tab /\ tab[j].real = r
  OBVIOUS
<1> HIDE DEF own, held, i
<1>6. CASE own = {} /\ held = {}
  BY <1>2, <1>4, <1>6 DEF i
<1>7. CASE ~ (own = {} /\ held = {})
  <2>1. i \in own \cup held
    BY <1>1, <1>2, <1>3, <1>7
  <2> QED
    BY <1>1, <1>4, <1>5, <2>1 DEF i
<1> QED
  BY <1>6, <1>7

\* u is t with the row for r, the i-th or a new one, seen today.
SeenIn(t, u, i, c, x, r) ==
    /\ u \in Seq(AccountRow)
    /\ i = 0 => /\ DOMAIN u = DOMAIN t \cup {Len(t) + 1} /\ Len(t) + 1 \notin DOMAIN t
                /\ u[Len(t) + 1] = Listed(c, x, r)
                /\ \A j \in DOMAIN t : u[j] = t[j]
    /\ i # 0 => /\ DOMAIN u = DOMAIN t /\ u[i] = Listed(c, x, r)
                /\ \A j \in DOMAIN t : j # i => u[j] = t[j]

\* What an account listed on a roster does to the table.
LEMMA SeenOnIs ==
    ASSUME today \in Nat, NEW tab \in Seq(AccountRow), NEW c \in Nat, NEW x \in Nat, NEW r \in Real
    PROVE  SeenIn(tab, M!SeenOn(tab, c, x, r), M!RowFor(tab, c, x, r), c, x, r)
<1> DEFINE i == M!RowFor(tab, c, x, r)
           t == M!SeenOn(tab, c, x, r)
<1>1. Listed(c, x, r) \in AccountRow
  BY DEF Listed, AccountRow
<1>2. t = IF i = 0 THEN Append(tab, Listed(c, x, r)) ELSE [tab EXCEPT ![i] = Listed(c, x, r)]
  BY DEF M!SeenOn, Listed
<1>3. i # 0 => i \in DOMAIN tab
  BY RowForIs
<1> HIDE DEF i, t
<1>4. CASE i = 0
  <2>1. t = Append(tab, Listed(c, x, r))
    BY <1>2, <1>4
  <2>2. /\ t \in Seq(AccountRow) /\ DOMAIN t = DOMAIN tab \cup {Len(tab) + 1}
        /\ t[Len(tab) + 1] = Listed(c, x, r) /\ Len(tab) + 1 \notin DOMAIN tab
        /\ \A j \in DOMAIN tab : t[j] = tab[j]
    BY <1>1, <2>1, AppendIs
  <2> QED
    BY <1>4, <2>2 DEF SeenIn, i, t
<1>5. CASE i # 0
  <2>1. t = [tab EXCEPT ![i] = Listed(c, x, r)] /\ i \in DOMAIN tab
    BY <1>2, <1>3, <1>5
  <2>2. /\ t \in Seq(AccountRow) /\ DOMAIN t = DOMAIN tab
        /\ \A j \in DOMAIN tab : t[j] = IF j = i THEN Listed(c, x, r) ELSE tab[j]
    BY <1>1, <2>1, ExceptIs
  <2> QED
    BY <1>5, <2>1, <2>2 DEF SeenIn, i, t
<1> QED
  BY <1>4, <1>5

\* What a roster with one account more does to it.
LEMMA SeenOneMore ==
    ASSUME today \in Nat, NEW tab \in Seq(AccountRow), NEW c \in Nat, NEW x \in Nat,
           NEW T \in SUBSET Real, NEW t, SeenBy(tab, t, c, x, T), NEW r \in Real \ T
    PROVE  SeenBy(tab, M!SeenOn(t, c, x, r), c, x, T \cup {r})
<1> DEFINE i == M!RowFor(t, c, x, r)
           u == M!SeenOn(t, c, x, r)
<1>1. t \in Seq(AccountRow) /\ DOMAIN tab \subseteq DOMAIN t
  BY DEF SeenBy
<1>2. \A j \in DOMAIN t : t[j].real = r => j \in DOMAIN tab /\ t[j] = tab[j]
  <2>1. \A q : Listed(c, x, q).real = q
    BY DEF Listed
  <2>2. \A j \in DOMAIN tab : t[j] = tab[j] \/ (tab[j].real \in T /\ t[j] = Listed(c, x, tab[j].real))
    BY DEF SeenBy
  <2>3. \A j \in (DOMAIN t) \ (DOMAIN tab) : t[j].real \in T
    BY DEF SeenBy
  <2> QED
    BY <2>1, <2>2, <2>3
<1>3. \A j \in DOMAIN tab : tab[j].real = r => t[j] = tab[j]
  BY DEF SeenBy
<1>4. /\ u \in Seq(AccountRow)
      /\ i = 0 => /\ DOMAIN u = DOMAIN t \cup {Len(t) + 1} /\ Len(t) + 1 \notin DOMAIN t
                  /\ u[Len(t) + 1] = Listed(c, x, r)
                  /\ \A j \in DOMAIN t : u[j] = t[j]
      /\ i # 0 => /\ DOMAIN u = DOMAIN t /\ u[i] = Listed(c, x, r)
                  /\ \A j \in DOMAIN t : j # i => u[j] = t[j]
  <2>1. r \in Real /\ t \in Seq(AccountRow) /\ c \in Nat /\ x \in Nat /\ today \in Nat
    BY <1>1
  <2>2. SeenIn(t, u, i, c, x, r)
    BY <2>1, SeenOnIs
  <2> QED
    BY <2>2 DEF SeenIn
<1>5. /\ i = 0 => \A j \in DOMAIN t : t[j].real = r => ~ Own(t, c, x, j)
      /\ i # 0 => i \in DOMAIN t /\ t[i].real = r /\ Own(t, c, x, i)
  BY <1>1, RowForIs
<1>6. Listed(c, x, r).real = r
  BY DEF Listed
<1> HIDE DEF i, u
<1>7. CASE i = 0
  <2>1. \A j \in DOMAIN tab : tab[j].real = r => ~ Own(tab, c, x, j)
    BY <1>1, <1>3, <1>5, <1>7 DEF Own
  <2>2. DOMAIN u = DOMAIN t \cup {Len(t) + 1}
    BY <1>1, <1>4, <1>7
  <2>3. DOMAIN tab \subseteq DOMAIN u /\ Len(t) + 1 \notin DOMAIN tab /\ Len(t) + 1 \notin DOMAIN t
    BY <1>1, <1>4, <1>7
  <2>4. \A j \in (DOMAIN u) \ (DOMAIN tab) : j \in (DOMAIN t) \ (DOMAIN tab) \/ j = Len(t) + 1
    BY <2>2
  <2>5. \A j \in (DOMAIN t) \ (DOMAIN tab) : u[j] = t[j] /\ t[j].real # r
    BY <1>2, <1>4, <1>7
  <2>6. u[Len(t) + 1] = Listed(c, x, r) /\ \A j \in DOMAIN t : u[j] = t[j]
    BY <1>4, <1>7
  <2>7. \A j \in DOMAIN tab : u[j] = t[j]
    BY <1>1, <2>6
  <2> QED
    BY <1>4, <1>6, <2>1, <2>2, <2>3, <2>4, <2>5, <2>6, <2>7 DEF SeenBy, u
<1>8. CASE i # 0
  <2>1. i \in DOMAIN tab /\ t[i] = tab[i] /\ tab[i].real = r /\ Own(tab, c, x, i)
    BY <1>2, <1>5, <1>8 DEF Own
  <2>2. DOMAIN u = DOMAIN t /\ DOMAIN tab \subseteq DOMAIN u
    BY <1>1, <1>4, <1>8
  <2>3. \A j \in (DOMAIN t) \ (DOMAIN tab) : u[j] = t[j]
    BY <1>4, <1>8, <2>1
  <2>4. u[i] = Listed(c, x, r) /\ \A j \in DOMAIN t : j # i => u[j] = t[j]
    BY <1>4, <1>8
  <2>5. \A j \in DOMAIN tab : j # i => u[j] = t[j]
    BY <1>1, <2>4
  <2>6. \A q \in T : \E j \in DOMAIN u : u[j] = Listed(c, x, q)
    <3> SUFFICES ASSUME NEW q \in T PROVE \E j \in DOMAIN u : u[j] = Listed(c, x, q)
      OBVIOUS
    <3>1. PICK j \in DOMAIN t : t[j] = Listed(c, x, q)
      BY DEF SeenBy
    <3>2. t[j].real = q /\ q # r
      BY <3>1 DEF Listed
    <3> QED
      BY <2>1, <2>2, <2>4, <3>1, <3>2
  <2> QED
    BY <1>4, <1>6, <1>8, <2>1, <2>2, <2>3, <2>4, <2>5, <2>6 DEF SeenBy, u
<1> QED
  BY <1>7, <1>8

\* The roster a bank states today.
Roster(bank) == {r \in Real \ closed : Bank[r] = bank}

\* The accounts after the roster is taken in, an account at a time.
LEMMA ObserveIs ==
    ASSUME today \in Nat, accounts \in Seq(AccountRow), NEW c \in Nat, NEW x \in Nat, NEW held, NEW bank,
           M!Observe(c, x, held, bank)
    PROVE  SeenBy(accounts, accounts', c, x, Roster(bank)) /\ conns' = [held EXCEPT ![c].roster = today]
<1> DEFINE S == Roster(bank)
           G == Seq(AccountRow)
           F == [r \in S |-> [u \in G |-> M!SeenOn(u, c, x, r)]]
           pick == [T \in SUBSET S |-> M!Max(T)]
           Loop(it) == it = [T \in SUBSET S |-> IF T = {} THEN accounts
                                ELSE M!SeenOn(it[T \ {M!Max(T)}], c, x, M!Max(T))]
           it == CHOOSE it : Loop(it)
           H == {T \in SUBSET S : SeenBy(accounts, it[T], c, x, T)}
<1>1. S \in SUBSET Real /\ IsFiniteSet(S)
  BY MovesAssumption, FS_Subset DEF Roster
<1>2. \A T \in SUBSET S : T # {} => M!Max(T) \in T
  BY <1>1, MovesAssumption, FS_Subset, Extremes DEF M!Max
<1>3. \A r \in S : \A u \in G : M!SeenOn(u, c, x, r) \in G
  <2> SUFFICES ASSUME NEW r \in S, NEW u \in G PROVE M!SeenOn(u, c, x, r) \in G
    OBVIOUS
  <2>1. SeenIn(u, M!SeenOn(u, c, x, r), M!RowFor(u, c, x, r), c, x, r)
    BY <1>1, SeenOnIs
  <2> QED
    BY <2>1 DEF SeenIn
<1>4. \E f : Loop(f)
  <2>1. F \in [S -> [G -> G]]
    <3> HIDE DEF G, S
    <3> QED
      BY <1>3
  <2>2. \A T \in SUBSET S : T # {} => pick[T] \in T
    BY <1>2
  <2>3. PICK f : Loops(f, S, G, accounts, F, pick)
    <3>1. accounts \in G
      OBVIOUS
    <3> HIDE DEF F, G, pick, S
    <3> QED
      BY <1>1, <2>1, <2>2, <3>1, FoldExists
  <2>4. ASSUME NEW T \in SUBSET S
        PROVE  f[T] = IF T = {} THEN accounts ELSE M!SeenOn(f[T \ {M!Max(T)}], c, x, M!Max(T))
    <3> HIDE DEF G, S
    <3> QED
      BY <1>2, <2>3 DEF Loops
  <2>5. Loop(f)
    <3> HIDE DEF G, S, F, pick
    <3> QED
      BY <2>3, <2>4 DEF Loops
  <2> QED
    BY <2>5
<1>5. Loop(it)
  <2> HIDE DEF Loop
  <2> QED
    BY <1>4
<1>6. accounts' = it[S]
  BY DEF M!Observe, M!MapThenFoldSet, Roster
<1>7. conns' = [held EXCEPT ![c].roster = today]
  BY DEF M!Observe
<1> HIDE DEF it, G, S
<1>8. {} \in H
  <2>1. it[{}] = accounts
    BY <1>5
  <2> QED
    BY <2>1 DEF SeenBy
<1>9. ASSUME NEW T \in SUBSET S, T # {}
      PROVE  \E x_ \in T : T \ {x_} \in H => T \in H
  <2> DEFINE r == M!Max(T)
             before == it[T \ {r}]
  <2>1. r \in T /\ r \in S /\ T \ {r} \in SUBSET S /\ T \ {r} \in SUBSET Real /\ r \in Real \ (T \ {r})
    BY <1>1, <1>2, <1>9
  <2>2. it[T] = M!SeenOn(before, c, x, r)
    BY <1>5, <1>9
  <2> HIDE DEF r, before
  <2>3. ASSUME T \ {r} \in H PROVE T \in H
    <3>1. SeenBy(accounts, before, c, x, T \ {r})
      BY <2>3 DEF before
    <3>2. SeenBy(accounts, M!SeenOn(before, c, x, r), c, x, (T \ {r}) \cup {r})
      BY <2>1, <3>1, SeenOneMore
    <3>3. (T \ {r}) \cup {r} = T
      BY <2>1
    <3> QED
      BY <2>2, <3>2, <3>3
  <2> QED
    BY <2>1, <2>3
<1>10. S \in H
  <2> HIDE DEF H
  <2>1. \A T \in SUBSET S : T \in H
    BY <1>1, <1>8, <1>9, SubsetInduction
  <2> QED
    BY <2>1
<1> QED
  BY <1>6, <1>7, <1>10 DEF S

-----------------------------------------------------------------------------
(* What enrolling, re-linking and looking at a roster keep *)

\* The connections grow: a new one, or a new Item under an old one.
Grown(cs, n, ds, o) ==
    /\ n \in Nat /\ o \in Nat /\ n <= o
    /\ \A d \in DOMAIN cs : d \in DOMAIN ds /\ ds[d].bank = cs[d].bank /\ cs[d].item <= ds[d].item
    /\ \A d \in DOMAIN ds : ds[d].item <= n => d \in DOMAIN cs /\ ds[d].item = cs[d].item

\* The accounts stand: a row stays with its account, and but for an account
\* whose persistent id is known with its Item.
Stand(tab, t) ==
    \A i \in DOMAIN tab :
        /\ i \in DOMAIN t /\ t[i].real = tab[i].real
        /\ tab[i].real \in persists \/ (t[i].conn = tab[i].conn /\ t[i].item = tab[i].item)

\* The accounts stay sound as connections and Items are added.
LEMMA AccountsStay ==
    ASSUME NEW cs, NEW n, NEW ds, NEW o, NEW tab, NEW now,
           LinksAre(cs, n), LinksAre(ds, o), Grown(cs, n, ds, o), AccountsAre(cs, tab, now)
    PROVE  AccountsAre(ds, tab, now)
<1>1. /\ \A c \in DOMAIN cs : cs[c].item \in Nat /\ cs[c].item <= n
      /\ \A c \in DOMAIN ds : ds[c].item \in Nat
      /\ n \in Nat
  BY DEF LinksAre, Grown
<1>2. ASSUME NEW i \in DOMAIN tab
      PROVE  /\ tab[i].conn \in DOMAIN ds /\ Bank[tab[i].real] = ds[tab[i].conn].bank
             /\ tab[i].item \in 1 .. ds[tab[i].conn].item /\ tab[i].last \in 1 .. now
             /\ \A c \in DOMAIN ds : tab[i].item = ds[c].item => tab[i].conn = c
  <2>1. /\ tab[i].conn \in DOMAIN cs /\ Bank[tab[i].real] = cs[tab[i].conn].bank
        /\ tab[i].item \in 1 .. cs[tab[i].conn].item /\ tab[i].last \in 1 .. now
        /\ \A c \in DOMAIN cs : tab[i].item = cs[c].item => tab[i].conn = c
    BY <1>2 DEF AccountsAre
  <2>2. /\ tab[i].conn \in DOMAIN ds /\ ds[tab[i].conn].bank = cs[tab[i].conn].bank
        /\ cs[tab[i].conn].item <= ds[tab[i].conn].item
    BY <2>1 DEF Grown
  <2>3. tab[i].item <= n /\ tab[i].item \in Nat /\ tab[i].item \in 1 .. ds[tab[i].conn].item
    BY <1>1, <2>1, <2>2
  <2>4. \A c \in DOMAIN ds : tab[i].item = ds[c].item => tab[i].conn = c
    BY <2>1, <2>3 DEF Grown
  <2> QED
    BY <2>1, <2>2, <2>3, <2>4
<1>3. /\ tab \in Seq(AccountRow)
      /\ \A i, j \in DOMAIN tab : i < j /\ tab[i].real = tab[j].real =>
          /\ tab[i].real \notin persists /\ tab[i].item < tab[j].item
          /\ tab[i].conn = tab[j].conn => tab[i].last <= tab[j].last
  BY DEF AccountsAre
<1> QED
  BY <1>2, <1>3 DEF AccountsAre

\* So do the transactions.
LEMMA RowsStay ==
    ASSUME NEW cs, NEW n, NEW ds, NEW o, NEW tab, NEW t, NEW rs,
           Grown(cs, n, ds, o), Stand(tab, t), RowsAre(cs, tab, rs, n)
    PROVE  RowsAre(ds, t, rs, o)
<1>1. ASSUME NEW k \in DOMAIN rs
      PROVE  /\ rs[k].account \in DOMAIN t /\ rs[k].lineage \in DOMAIN ds /\ rs[k].gen \in 1 .. o
             /\ Bank[Moves[rs[k].move].real] = ds[rs[k].lineage].bank
             /\ Answers(t, rs[k].gen, Moves[rs[k].move].real, rs[k].account)
             /\ Moves[rs[k].move].real \in persists \/ t[rs[k].account].conn = rs[k].lineage
             /\ \A c \in DOMAIN ds : rs[k].gen = ds[c].item => rs[k].lineage = c
  <2>1. /\ rs[k].account \in DOMAIN tab /\ rs[k].lineage \in DOMAIN cs /\ rs[k].gen \in 1 .. n
        /\ Bank[Moves[rs[k].move].real] = cs[rs[k].lineage].bank
        /\ Answers(tab, rs[k].gen, Moves[rs[k].move].real, rs[k].account)
        /\ Moves[rs[k].move].real \in persists \/ tab[rs[k].account].conn = rs[k].lineage
        /\ \A c \in DOMAIN cs : rs[k].gen = cs[c].item => rs[k].lineage = c
    BY <1>1 DEF RowsAre
  <2>2. n \in Nat /\ o \in Nat /\ n <= o
    BY DEF Grown
  <2>3. rs[k].gen <= n /\ rs[k].gen \in 1 .. o
    BY <2>1, <2>2
  <2>4. rs[k].lineage \in DOMAIN ds /\ Bank[Moves[rs[k].move].real] = ds[rs[k].lineage].bank
    BY <2>1 DEF Grown
  <2>5. \A c \in DOMAIN ds : rs[k].gen = ds[c].item => rs[k].lineage = c
    BY <2>1, <2>3 DEF Grown
  <2>6. /\ rs[k].account \in DOMAIN t
        /\ Answers(t, rs[k].gen, Moves[rs[k].move].real, rs[k].account)
        /\ Moves[rs[k].move].real \in persists \/ t[rs[k].account].conn = rs[k].lineage
    BY <2>1 DEF Stand, Answers
  <2> QED
    BY <2>3, <2>4, <2>5, <2>6
<1>2. /\ rs \in Seq(LedgerRow)
      /\ \A j, k \in DOMAIN rs : rs[j].gen = rs[k].gen => rs[j].lineage = rs[k].lineage
  BY DEF RowsAre
<1> QED
  BY <1>1, <1>2 DEF RowsAre

\* What an Item that was there before still owes has a row.
LEMMA OwedStay ==
    ASSUME NEW cs, NEW n, NEW ds, NEW o, NEW tab, NEW t, NEW owing,
           Grown(cs, n, ds, o), Stand(tab, t), OwedAre(cs, tab, owing),
           NEW d \in DOMAIN ds, ds[d].item <= n, NEW m \in owing[ds[d].item]
    PROVE  /\ Bank[Moves[m].real] = ds[d].bank
           /\ \E i \in DOMAIN t : Answers(t, ds[d].item, Moves[m].real, i)
<1>1. d \in DOMAIN cs /\ ds[d].item = cs[d].item /\ ds[d].bank = cs[d].bank
  BY DEF Grown
<1>2. Bank[Moves[m].real] = cs[d].bank
  BY <1>1 DEF OwedAre
<1>3. PICK i \in DOMAIN tab : Answers(tab, cs[d].item, Moves[m].real, i)
  BY <1>1 DEF OwedAre
<1>4. i \in DOMAIN t /\ Answers(t, cs[d].item, Moves[m].real, i)
  BY <1>3 DEF Stand, Answers
<1> QED
  BY <1>1, <1>2, <1>4

\* No account of a bank is of a later Item than that of its live connection.
LEMMA NewestItem ==
    ASSUME NEW cs, NEW n, NEW tab, NEW now, LinksAre(cs, n), AccountsAre(cs, tab, now),
           NEW c \in DOMAIN cs, ~ cs[c].retired, NEW i \in DOMAIN tab, Bank[tab[i].real] = cs[c].bank
    PROVE  /\ tab[i].item \in Nat /\ tab[i].item <= cs[c].item
           /\ tab[i].item = cs[c].item => tab[i].conn = c
<1>1. /\ tab[i].conn \in DOMAIN cs /\ Bank[tab[i].real] = cs[tab[i].conn].bank
      /\ tab[i].item \in 1 .. cs[tab[i].conn].item
      /\ tab[i].item = cs[c].item => tab[i].conn = c
  BY DEF AccountsAre
<1>2. \A d \in DOMAIN cs : d \in Nat /\ cs[d].item \in Nat
  BY SeqIs DEF LinksAre
<1>3. \A a, b \in DOMAIN cs : a < b /\ cs[a].bank = cs[b].bank => cs[a].retired /\ cs[a].item < cs[b].item
  BY DEF LinksAre
<1>4. tab[i].conn = c \/ cs[tab[i].conn].item < cs[c].item
  <2> DEFINE d == tab[i].conn
  <2>1. d \in DOMAIN cs /\ cs[d].bank = cs[c].bank /\ d \in Nat /\ c \in Nat
    BY <1>1, <1>2
  <2>2. ~ (c < d)
    BY <1>3, <2>1
  <2>3. d < c => cs[d].item < cs[c].item
    BY <1>3, <2>1
  <2> HIDE DEF d
  <2>4. d = c \/ d < c
    BY <2>1, <2>2
  <2> QED
    BY <2>3, <2>4 DEF d
<1> QED
  BY <1>1, <1>2, <1>4

\* A live connection lists accounts T of its bank, and tab becomes t.
Lists(cs, n, tab, t, c, T) ==
    /\ c \in DOMAIN cs /\ today \in Nat \ {0} /\ persists \subseteq Real
    /\ LinksAre(cs, n) /\ AccountsAre(cs, tab, today) /\ ~ cs[c].retired
    /\ \A r \in T : r \in Real /\ Bank[r] = cs[c].bank
    /\ SeenBy(tab, t, c, cs[c].item, T)

\* A roster leaves the accounts sound, each with a row that answers for it.
LEMMA AccountsSeen ==
    ASSUME NEW cs, NEW n, NEW tab, NEW t, NEW c, NEW T, Lists(cs, n, tab, t, c, T)
    PROVE  /\ AccountsAre(cs, t, today) /\ Stand(tab, t)
           /\ \A r \in T : \E i \in DOMAIN t : Answers(t, cs[c].item, r, i)
<1> DEFINE x == cs[c].item
<1>0. /\ c \in DOMAIN cs /\ today \in Nat \ {0} /\ persists \subseteq Real
      /\ LinksAre(cs, n) /\ AccountsAre(cs, tab, today) /\ ~ cs[c].retired
      /\ \A r \in T : r \in Real /\ Bank[r] = cs[c].bank
      /\ SeenBy(tab, t, c, x, T)
  BY DEF Lists
<1>1. x \in 1 .. n /\ \A d \in DOMAIN cs : cs[d].item = x => d = c
  BY <1>0 DEF LinksAre
<1>2. \A r : /\ Listed(c, x, r).real = r /\ Listed(c, x, r).conn = c
             /\ Listed(c, x, r).item = x /\ Listed(c, x, r).last = today
  BY DEF Listed
<1>3. /\ t \in Seq(AccountRow) /\ DOMAIN tab \subseteq DOMAIN t
      /\ \A i \in DOMAIN tab : \/ t[i] = tab[i]
                               \/ /\ tab[i].real \in T /\ Own(tab, c, x, i)
                                  /\ t[i] = Listed(c, x, tab[i].real)
      /\ \A i \in (DOMAIN t) \ (DOMAIN tab) :
            /\ t[i].real \in T /\ t[i] = Listed(c, x, t[i].real)
            /\ \A j \in DOMAIN tab : tab[j].real = t[i].real => ~ Own(tab, c, x, j)
      /\ \A i, j \in (DOMAIN t) \ (DOMAIN tab) : t[i].real = t[j].real => i = j
      /\ \A r \in T : \E i \in DOMAIN t : t[i] = Listed(c, x, r)
  BY <1>0 DEF SeenBy
<1>4. tab \in Seq(AccountRow)
  BY <1>0 DEF AccountsAre
<1>5. Stand(tab, t)
  BY <1>2, <1>3 DEF Stand, Own
<1>6. \A r \in T : \E i \in DOMAIN t : Answers(t, x, r, i)
  BY <1>2, <1>3 DEF Answers
<1>7. ASSUME NEW i \in DOMAIN t
      PROVE  /\ t[i].conn \in DOMAIN cs /\ Bank[t[i].real] = cs[t[i].conn].bank
             /\ t[i].item \in 1 .. cs[t[i].conn].item /\ t[i].last \in 1 .. today
             /\ \A d \in DOMAIN cs : t[i].item = cs[d].item => t[i].conn = d
  <2>1. CASE i \in DOMAIN tab /\ t[i] = tab[i]
    BY <1>0, <2>1 DEF AccountsAre
  <2>2. CASE ~ (i \in DOMAIN tab /\ t[i] = tab[i])
    <3>1. PICK r \in T : t[i] = Listed(c, x, r)
      BY <1>3, <1>7, <2>2
    <3>2. t[i].conn = c /\ t[i].real = r /\ t[i].item = x /\ t[i].last = today
      BY <1>2, <3>1
    <3>3. x \in 1 .. cs[c].item /\ today \in 1 .. today /\ Bank[r] = cs[c].bank
      BY <1>0, <1>1
    <3> HIDE DEF x
    <3> QED
      BY <1>0, <1>1, <3>2, <3>3
  <2> QED
    BY <2>1, <2>2
<1>8. ASSUME NEW i \in DOMAIN t, NEW j \in DOMAIN t, i < j, t[i].real = t[j].real
      PROVE  /\ t[i].real \notin persists /\ t[i].item < t[j].item
             /\ t[i].conn = t[j].conn => t[i].last <= t[j].last
  <2>1. i \in DOMAIN tab
    <3>1. CASE j \in DOMAIN tab
      BY <1>3, <1>4, <1>8, <3>1, SeqIs
    <3>2. CASE j \notin DOMAIN tab
      BY <1>3, <1>8, <3>2, SeqIs
    <3> QED
      BY <3>1, <3>2
  <2>2. t[i].real = tab[i].real /\ t[i].last \in Nat /\ t[i].last <= today /\ today \in Nat
    BY <1>0, <1>5, <1>7, <2>1 DEF Stand
  <2>3. CASE j \in DOMAIN tab
    <3>1. tab[j].real = tab[i].real
      BY <1>5, <1>8, <2>2, <2>3 DEF Stand
    <3>2. /\ tab[i].real \notin persists /\ tab[i].item < tab[j].item
          /\ tab[i].conn = tab[j].conn => tab[i].last <= tab[j].last
      BY <1>0, <1>8, <2>1, <2>3, <3>1 DEF AccountsAre
    <3>3. /\ t[i].conn = tab[i].conn /\ t[i].item = tab[i].item
          /\ t[j].conn = tab[j].conn /\ t[j].item = tab[j].item
      BY <1>5, <2>1, <2>3, <3>1, <3>2 DEF Stand
    <3>4. CASE t[j] = tab[j]
      <4>1. t[i] = tab[i]
        <5> SUFFICES ASSUME t[i] # tab[i] PROVE FALSE
          OBVIOUS
        <5>1. tab[i].real \in T /\ tab[i].item = x
          BY <1>3, <2>1, <3>2 DEF Own
        <5>2. tab[j].item \in Nat /\ tab[j].item <= x
          BY <1>0, <2>3, <3>1, <5>1, NewestItem
        <5>3. x \in Nat
          BY <1>1
        <5> HIDE DEF x
        <5> QED
          BY <3>2, <5>1, <5>2, <5>3
      <4> QED
        BY <2>2, <3>2, <3>4, <4>1
    <3>5. CASE t[j] # tab[j]
      <4>1. t[j].last = today
        BY <1>2, <1>3, <2>3, <3>5
      <4> QED
        BY <2>2, <3>2, <3>3, <4>1
    <3> QED
      BY <3>4, <3>5
  <2>4. CASE j \notin DOMAIN tab
    <3>1. /\ t[j].real \in T /\ t[j].item = x /\ t[j].last = today
          /\ tab[i].real = t[j].real /\ ~ Own(tab, c, x, i)
      <4>1. t[j].real \in T /\ t[j] = Listed(c, x, t[j].real)
        BY <1>3, <2>4
      <4>2. tab[i].real = t[j].real
        BY <1>8, <2>2
      <4>3. ~ Own(tab, c, x, i)
        BY <1>3, <2>1, <2>4, <4>2
      <4> QED
        BY <1>2, <4>1, <4>2, <4>3
    <3>2. t[i] = tab[i]
      BY <1>3, <2>1, <3>1
    <3>3. /\ tab[i].item \in Nat /\ tab[i].item <= x
          /\ tab[i].item = x => tab[i].conn = c
      BY <1>0, <2>1, <3>1, NewestItem
    <3>4. tab[i].real \notin persists /\ tab[i].item # x
      BY <3>1, <3>3 DEF Own
    <3>5. x \in Nat
      BY <1>1
    <3> HIDE DEF x
    <3> QED
      BY <2>2, <3>1, <3>2, <3>3, <3>4, <3>5
  <2> QED
    BY <2>3, <2>4
<1> QED
  BY <1>3, <1>5, <1>6, <1>7, <1>8 DEF AccountsAre

-----------------------------------------------------------------------------
(* The steps keep the invariant *)

\* A movement, and the order of their days.
LEMMA MoveIs ==
    /\ \A m \in DOMAIN Moves : /\ m \in Nat /\ Moves[m].real \in Real /\ Moves[m].day \in Nat
                               /\ Moves[m].amount \in Int /\ Moves[m].shape \in Shapes
    /\ \A m, n \in DOMAIN Moves : m < n => Moves[m].day <= Moves[n].day
    /\ IsFiniteSet(DOMAIN Moves) /\ DOMAIN Moves \in SUBSET Nat
<1>1. Moves \in Seq(Movement)
  BY MovesAssumption
<1>2. /\ \A m \in DOMAIN Moves : m \in Nat /\ Moves[m] \in Movement
      /\ DOMAIN Moves = 1 .. Len(Moves) /\ Len(Moves) \in Nat
  BY <1>1, SeqIs
<1>3. IsFiniteSet(1 .. Len(Moves))
  BY <1>2, FS_Interval
<1> QED
  BY <1>2, <1>3, MovesAssumption DEF Movement

\* The invariant after a step, part by part.
LEMMA PrimedInv ==
    ASSUME persists' = persists, persists \subseteq Real, closed' \subseteq Real,
           today' \in Nat \ {0}, Rosters',
           LinksAre(conns', Len(owed')),
           AccountsAre(conns', accounts', today'),
           OwedAre(conns', accounts', owed'),
           RowsAre(conns', accounts', entries', Len(owed')),
           Delivery(entries', owed'), PairsAre(entries')
    PROVE  MInv'
<1>1. LinksAre(conns, M!Items)'
  BY DEF LinksAre, M!Items
<1>2. AccountsAre(conns, accounts, today)'
  BY DEF AccountsAre
<1>3. OwedAre(conns, accounts, owed)'
  BY DEF OwedAre, Answers
<1>4. RowsAre(conns, accounts, entries, M!Items)'
  BY DEF RowsAre, Answers, M!Items
<1>5. Delivery(entries, owed)' /\ PairsAre(entries)'
  BY DEF Delivery, PairsAre, Comes, Came
<1> QED
  BY <1>1, <1>2, <1>3, <1>4, <1>5 DEF MInv

\* What the accounts of a bank report.
Reports(bank) == {m \in DOMAIN Moves : Bank[Moves[m].real] = bank /\ Moves[m].real \notin closed}

\* The Items owe what they did, and a new one all its bank reports.
Owing(bank) ==
    /\ owed' \in Seq(SUBSET DOMAIN Moves)
    /\ \A g \in DOMAIN owed : g \in DOMAIN owed' /\ owed'[g] = owed[g]
    /\ \A g \in (DOMAIN owed') \ (DOMAIN owed) : owed'[g] = Reports(bank)

\* A step that lists a roster, of a new connection, a new Item or neither.
LEMMA RosterKeeps ==
    ASSUME MInv, NEW c \in DOMAIN conns', Rosters',
           UNCHANGED <<entries, persists, closed, today>>,
           Grown(conns, Len(owed), conns', Len(owed')), LinksAre(conns', Len(owed')),
           ~ conns'[c].retired, Owing(conns'[c].bank),
           \A d \in DOMAIN conns' : conns'[d].item <= Len(owed) \/ d = c,
           SeenBy(accounts, accounts', c, conns'[c].item, Roster(conns'[c].bank))
    PROVE  MInv'
<1>1. /\ today \in Nat \ {0} /\ persists \subseteq Real /\ closed \subseteq Real
      /\ LinksAre(conns, Len(owed)) /\ AccountsAre(conns, accounts, today)
      /\ OwedAre(conns, accounts, owed) /\ RowsAre(conns, accounts, entries, Len(owed))
      /\ Delivery(entries, owed) /\ PairsAre(entries)
  BY DEF MInv, M!Items
<1>2. AccountsAre(conns', accounts, today)
  BY <1>1, AccountsStay
<1>3. \A r \in Roster(conns'[c].bank) : r \in Real /\ Bank[r] = conns'[c].bank
  BY DEF Roster
<1>4. /\ AccountsAre(conns', accounts', today) /\ Stand(accounts, accounts')
      /\ \A r \in Roster(conns'[c].bank) : \E i \in DOMAIN accounts' : Answers(accounts', conns'[c].item, r, i)
  <2> DEFINE cs == conns'
             T == Roster(conns'[c].bank)
             n == Len(owed')
             t == accounts'
  <2>1. /\ LinksAre(cs, n) /\ AccountsAre(cs, accounts, today) /\ c \in DOMAIN cs /\ ~ cs[c].retired
        /\ \A r \in T : r \in Real /\ Bank[r] = cs[c].bank
        /\ SeenBy(accounts, t, c, cs[c].item, T) /\ today \in Nat \ {0} /\ persists \subseteq Real
    BY <1>1, <1>2, <1>3
  <2> HIDE DEF cs, T, n, t
  <2>0. Lists(cs, n, accounts, t, c, T)
    BY <2>1 DEF Lists
  <2>2. /\ AccountsAre(cs, t, today) /\ Stand(accounts, t)
        /\ \A r \in T : \E i \in DOMAIN t : Answers(t, cs[c].item, r, i)
    BY <2>0, AccountsSeen
  <2> QED
    BY <2>2 DEF cs, T, t
<1>5. RowsAre(conns', accounts', entries, Len(owed'))
  BY <1>1, <1>4, RowsStay
<1>6. /\ owed' \in Seq(SUBSET DOMAIN Moves)
      /\ \A g \in DOMAIN owed : g \in DOMAIN owed' /\ owed'[g] = owed[g]
      /\ \A g \in (DOMAIN owed') \ (DOMAIN owed) : owed'[g] = Reports(conns'[c].bank)
  BY DEF Owing
<1>7. owed \in Seq(SUBSET DOMAIN Moves)
  BY <1>1 DEF OwedAre
<1>8. /\ \A d \in DOMAIN conns' : conns'[d].item \in 1 .. Len(owed')
      /\ DOMAIN owed' = 1 .. Len(owed') /\ DOMAIN owed = 1 .. Len(owed)
      /\ Len(owed) \in Nat /\ Len(owed') \in Nat
  BY <1>6, <1>7, SeqIs DEF LinksAre
<1>9. OwedAre(conns', accounts', owed')
  <2> SUFFICES ASSUME NEW d \in DOMAIN conns', NEW m \in owed'[conns'[d].item]
               PROVE  /\ Bank[Moves[m].real] = conns'[d].bank
                      /\ \E i \in DOMAIN accounts' : Answers(accounts', conns'[d].item, Moves[m].real, i)
    BY <1>6 DEF OwedAre
  <2>1. CASE conns'[d].item <= Len(owed)
    <3>1. conns'[d].item \in DOMAIN owed
      BY <1>8, <2>1
    <3>2. m \in owed[conns'[d].item]
      BY <1>6, <3>1
    <3> QED
      BY <1>1, <1>4, <2>1, <3>2, OwedStay
  <2>2. CASE ~ (conns'[d].item <= Len(owed))
    <3>1. d = c /\ conns'[c].item \in (DOMAIN owed') \ (DOMAIN owed)
      BY <1>8, <2>2
    <3>2. m \in Reports(conns'[c].bank)
      BY <1>6, <3>1
    <3>3. Moves[m].real \in Roster(conns'[c].bank) /\ Bank[Moves[m].real] = conns'[c].bank
      BY <3>2, MoveIs DEF Reports, Roster
    <3> QED
      BY <1>4, <3>1, <3>3
  <2> QED
    BY <2>1, <2>2
<1>10. Delivery(entries, owed')
  <2>1. \A k \in DOMAIN entries : entries[k].gen \in DOMAIN owed
    BY <1>1, <1>8 DEF RowsAre
  <2>2. \A k \in DOMAIN entries : \A m \in owed'[entries[k].gen] : m < entries[k].move
    BY <1>1, <1>6, <2>1 DEF Delivery
  <2>3. \A k \in DOMAIN entries : \A l \in DOMAIN Moves :
           Moves[l].real = Moves[entries[k].move].real => Comes(entries, owed', entries[k].gen, l)
    BY <1>1, <1>6, <2>1 DEF Delivery, Comes
  <2>4. ASSUME NEW g \in DOMAIN owed', NEW m \in owed'[g], NEW l \in DOMAIN Moves,
               Moves[l].real = Moves[m].real
        PROVE  Comes(entries, owed', g, l)
    <3>1. CASE g \in DOMAIN owed
      BY <1>1, <1>6, <2>4, <3>1 DEF Delivery, Comes
    <3>2. CASE g \notin DOMAIN owed
      BY <1>6, <2>4, <3>2 DEF Comes, Reports
    <3> QED
      BY <3>1, <3>2
  <2>5. \A j, k \in DOMAIN entries :
           entries[j].gen = entries[k].gen /\ entries[j].move = entries[k].move => j = k
    BY <1>1 DEF Delivery
  <2> QED
    BY <2>2, <2>3, <2>4, <2>5 DEF Delivery
<1> QED
  BY <1>1, <1>4, <1>5, <1>9, <1>10, PrimedInv

\* A connection with one field replaced.
LEMMA ConnectionIs ==
    ASSUME NEW v \in Connection, NEW n \in Nat
    PROVE  /\ LET u == [v EXCEPT !.roster = n] IN
              u \in Connection /\ u.bank = v.bank /\ u.item = v.item /\ u.retired = v.retired /\ u.roster = n
           /\ LET u == [v EXCEPT !.item = n] IN
              u \in Connection /\ u.bank = v.bank /\ u.item = n /\ u.retired = v.retired /\ u.roster = v.roster
           /\ LET u == [v EXCEPT !.retired = TRUE] IN
              u \in Connection /\ u.bank = v.bank /\ u.item = v.item /\ u.retired = TRUE /\ u.roster = v.roster
<1>1. v = [bank |-> v.bank, item |-> v.item, retired |-> v.retired, roster |-> v.roster]
  BY DEF Connection
<1>2. v.bank \in M!Banks /\ v.item \in Nat /\ v.retired \in BOOLEAN /\ v.roster \in Nat
  BY DEF Connection
<1>3. LET u == [v EXCEPT !.roster = n] IN
      u \in Connection /\ u.bank = v.bank /\ u.item = v.item /\ u.retired = v.retired /\ u.roster = n
  BY <1>1, <1>2 DEF Connection
<1>4. LET u == [v EXCEPT !.item = n] IN
      u \in Connection /\ u.bank = v.bank /\ u.item = n /\ u.retired = v.retired /\ u.roster = v.roster
  BY <1>1, <1>2 DEF Connection
<1>5. LET u == [v EXCEPT !.retired = TRUE] IN
      u \in Connection /\ u.bank = v.bank /\ u.item = v.item /\ u.retired = TRUE /\ u.roster = v.roster
  BY <1>1, <1>2 DEF Connection
<1> QED
  BY <1>3, <1>4, <1>5

\* A step that only adds or re-words connections, and has the live one of a bank
\* look at its roster.
LEMMA LooksKeeps ==
    ASSUME MInv, NEW c \in Nat, NEW bank, NEW held \in Seq(Connection), NEW x \in Nat, M!Observe(c, x, held, bank),
           c \in DOMAIN held, held[c].bank = bank, held[c].item = x, ~ held[c].retired,
           \A d \in DOMAIN held : d # c => d \in DOMAIN conns /\ held[d].roster = conns[d].roster,
           UNCHANGED <<entries, persists, closed, today>>,
           Grown(conns, Len(owed), held, Len(owed')), LinksAre(held, Len(owed')), Owing(bank),
           \A d \in DOMAIN held : held[d].item <= Len(owed) \/ d = c
    PROVE  MInv'
<1>1. today \in Nat \ {0} /\ accounts \in Seq(AccountRow) /\ Rosters
  BY DEF MInv, AccountsAre
<1>2. /\ SeenBy(accounts, accounts', c, x, Roster(bank))
      /\ conns' = [held EXCEPT ![c].roster = today]
  BY <1>1, ObserveIs
<1> DEFINE new == [held[c] EXCEPT !.roster = today]
<1>3. /\ new \in Connection /\ new.bank = held[c].bank /\ new.item = held[c].item
      /\ new.retired = held[c].retired /\ new.roster = today
  <2>1. held[c] \in Connection /\ today \in Nat
    BY <1>1, SeqIs
  <2> DEFINE v == held[c]
  <2>2. new = [v EXCEPT !.roster = today]
    OBVIOUS
  <2>3. v \in Connection
    BY <2>1
  <2> HIDE DEF new, v
  <2>4. /\ new \in Connection /\ new.bank = v.bank /\ new.item = v.item
        /\ new.retired = v.retired /\ new.roster = today
    <3>1. new \in Connection
      BY <2>1, <2>2, <2>3, ConnectionIs
    <3>2. new.bank = v.bank
      BY <2>1, <2>2, <2>3, ConnectionIs
    <3>3. new.item = v.item
      BY <2>1, <2>2, <2>3, ConnectionIs
    <3>4. new.retired = v.retired
      BY <2>1, <2>2, <2>3, ConnectionIs
    <3>5. new.roster = today
      BY <2>1, <2>2, <2>3, ConnectionIs
    <3> QED
      BY <3>1, <3>2, <3>3, <3>4, <3>5
  <2> QED
    BY <2>4 DEF v
<1>4. /\ conns' \in Seq(Connection) /\ DOMAIN conns' = DOMAIN held
      /\ \A d \in DOMAIN held : conns'[d] = IF d = c THEN new ELSE held[d]
  <2>1. conns' = [held EXCEPT ![c] = new]
    BY <1>2
  <2> HIDE DEF new
  <2> QED
    BY <1>3, <2>1, ExceptIs
<1> HIDE DEF new
<1>5. /\ \A d \in DOMAIN held : /\ conns'[d].bank = held[d].bank /\ conns'[d].item = held[d].item
                                /\ conns'[d].retired = held[d].retired
      /\ conns'[c].roster = today
      /\ \A d \in DOMAIN held : d # c => conns'[d].roster = conns[d].roster
  BY <1>3, <1>4
<1>6. Rosters'
  <2>1. \A d \in DOMAIN conns' : conns'[d].roster \in 1 .. today
    BY <1>1, <1>4, <1>5 DEF Rosters
  <2> QED
    BY <2>1 DEF Rosters
<1>7. LinksAre(conns', Len(owed')) /\ Grown(conns, Len(owed), conns', Len(owed'))
  BY <1>4, <1>5 DEF LinksAre, Grown
<1>8. conns'[c].bank = bank /\ conns'[c].item = x
  BY <1>4, <1>5
<1>9. /\ SeenBy(accounts, accounts', c, conns'[c].item, Roster(conns'[c].bank))
      /\ Owing(conns'[c].bank)
  BY <1>2, <1>8
<1>10. ~ conns'[c].retired /\ c \in DOMAIN conns'
  BY <1>4, <1>5
<1>11. \A d \in DOMAIN conns' : conns'[d].item <= Len(owed) \/ d = c
  BY <1>4, <1>5
<1> QED
  BY <1>6, <1>7, <1>9, <1>10, <1>11, RosterKeeps

\* What enroll and enroll --relink add to what is owed.
LEMMA NewItemOwes ==
    ASSUME MInv, NEW bank, M!NewItem(bank)
    PROVE  Owing(bank) /\ Len(owed) \in Nat /\ Len(owed') = Len(owed) + 1
<1>1. owed \in Seq(SUBSET DOMAIN Moves) /\ Reports(bank) \in SUBSET DOMAIN Moves
  BY DEF MInv, OwedAre, Reports
<1>2. owed' = Append(owed, Reports(bank))
  BY DEF M!NewItem, Reports
<1> QED
  BY <1>1, <1>2, AppendIs, SeqIs DEF Owing

\* Each step that writes no transaction keeps the invariant.
LEMMA EnrollKeeps ==
    ASSUME MInv, NEW bank \in M!Banks, M!Enroll(bank)
    PROVE  MInv'
<1> DEFINE c == Len(conns) + 1
           n == Len(owed)
           new == [bank |-> bank, item |-> n + 1, retired |-> FALSE, roster |-> 0]
           held == Append(conns, new)
<1>1. LinksAre(conns, n) /\ conns \in Seq(Connection)
  BY DEF MInv, LinksAre, M!Items
<1>2. Owing(bank) /\ n \in Nat /\ Len(owed') = n + 1
  BY NewItemOwes DEF M!Enroll
<1>3. /\ M!Observe(c, n + 1, held, bank) /\ UNCHANGED <<entries, persists, closed, today>>
      /\ \A d \in DOMAIN conns : ~ conns[d].retired => conns[d].bank # bank
  BY DEF M!Enroll, M!Items, M!LiveConns
<1>4. new \in Connection
  BY <1>2 DEF Connection
<1>5. new.bank = bank /\ new.item = n + 1 /\ new.retired = FALSE
  OBVIOUS
<1> HIDE DEF new
<1>6. /\ held \in Seq(Connection) /\ DOMAIN held = DOMAIN conns \cup {c} /\ held[c] = new
      /\ c \notin DOMAIN conns /\ \A d \in DOMAIN conns : held[d] = conns[d] /\ d < c
      /\ c \in Nat
  BY <1>1, <1>4, AppendIs, SeqIs
<1> HIDE DEF c, held
<1>7. \A d \in DOMAIN conns : conns[d].item \in Nat /\ conns[d].item <= n /\ conns[d].item >= 1 /\ d \in Nat
  BY <1>1, <1>2, SeqIs DEF LinksAre
<1>8. LinksAre(held, n + 1)
  <2>1. \A a \in DOMAIN held : held[a].item \in 1 .. n + 1
    BY <1>2, <1>5, <1>6, <1>7
  <2>2. ASSUME NEW a \in DOMAIN held, NEW b \in DOMAIN held, a < b, held[a].bank = held[b].bank
        PROVE  held[a].retired /\ held[a].item < held[b].item
    <3>1. a \in DOMAIN conns
      BY <1>6, <1>7, <2>2
    <3>2. CASE b \in DOMAIN conns
      BY <1>1, <1>6, <2>2, <3>1, <3>2 DEF LinksAre
    <3>3. CASE b = c
      BY <1>2, <1>3, <1>5, <1>6, <1>7, <2>2, <3>1, <3>3
    <3> QED
      BY <1>6, <3>2, <3>3
  <2>3. \A a, b \in DOMAIN held : held[a].item = held[b].item => a = b
    <3>1. \A a, b \in DOMAIN conns : conns[a].item = conns[b].item => a = b
      BY <1>1 DEF LinksAre
    <3>2. \A a \in DOMAIN conns : conns[a].item # n + 1
      BY <1>2, <1>7
    <3> QED
      BY <1>5, <1>6, <3>1, <3>2
  <2> QED
    BY <1>6, <2>1, <2>2, <2>3 DEF LinksAre
<1>9. Grown(conns, n, held, n + 1)
  <2>1. ~ (n + 1 <= n) /\ n <= n + 1 /\ n + 1 \in Nat
    BY <1>2
  <2> QED
    BY <1>2, <1>5, <1>6, <1>7, <2>1 DEF Grown
<1>10. /\ \A d \in DOMAIN held : d # c => d \in DOMAIN conns /\ held[d].roster = conns[d].roster
       /\ \A d \in DOMAIN held : held[d].item <= n \/ d = c
       /\ held[c].bank = bank /\ held[c].item = n + 1 /\ ~ held[c].retired /\ n + 1 \in Nat
  BY <1>2, <1>5, <1>6, <1>7
<1> QED
  BY <1>2, <1>3, <1>6, <1>8, <1>9, <1>10, LooksKeeps

LEMMA ReLinkKeeps ==
    ASSUME MInv, NEW c \in DOMAIN conns, M!ReLink(c)
    PROVE  MInv'
<1> DEFINE n == Len(owed)
           bank == conns[c].bank
           new == [conns[c] EXCEPT !.item = n + 1]
           held == [conns EXCEPT ![c] = new]
<1>1. LinksAre(conns, n) /\ conns \in Seq(Connection)
  BY DEF MInv, LinksAre, M!Items
<1>2. Owing(bank) /\ n \in Nat /\ Len(owed') = n + 1
  BY NewItemOwes DEF M!ReLink
<1>3. /\ M!Observe(c, n + 1, held, bank) /\ UNCHANGED <<entries, persists, closed, today>>
      /\ ~ conns[c].retired
  BY DEF M!ReLink, M!Items, M!LiveConns
<1>4. conns[c] \in Connection /\ n + 1 \in Nat
  BY <1>1, <1>2, SeqIs
<1>5. /\ new \in Connection /\ new.bank = bank /\ new.item = n + 1
      /\ new.retired = conns[c].retired /\ new.roster = conns[c].roster
  BY <1>4, ConnectionIs
<1> HIDE DEF new, bank
<1>6. /\ held \in Seq(Connection) /\ DOMAIN held = DOMAIN conns
      /\ \A d \in DOMAIN conns : held[d] = IF d = c THEN new ELSE conns[d]
  BY <1>1, <1>5, ExceptIs
<1> HIDE DEF held
<1>7. \A d \in DOMAIN conns : conns[d].item \in Nat /\ conns[d].item <= n /\ conns[d].item >= 1 /\ d \in Nat
  BY <1>1, <1>2, SeqIs DEF LinksAre
<1>8. /\ \A d \in DOMAIN conns : held[d].bank = conns[d].bank /\ held[d].retired = conns[d].retired
      /\ held[c].item = n + 1 /\ \A d \in DOMAIN conns : d # c => held[d].item = conns[d].item
  BY <1>5, <1>6 DEF bank
<1>9. LinksAre(held, n + 1)
  <2>1. \A a \in DOMAIN held : held[a].item \in 1 .. n + 1
    BY <1>2, <1>6, <1>7, <1>8
  <2>2. ASSUME NEW a \in DOMAIN held, NEW b \in DOMAIN held, a < b, held[a].bank = held[b].bank
        PROVE  held[a].retired /\ held[a].item < held[b].item
    <3>1. conns[a].retired /\ conns[a].item < conns[b].item /\ a \in DOMAIN conns /\ b \in DOMAIN conns
      BY <1>1, <1>6, <1>8, <2>2 DEF LinksAre
    <3>2. a # c
      BY <1>3, <3>1
    <3> QED
      BY <1>2, <1>7, <1>8, <3>1, <3>2
  <2>3. \A a, b \in DOMAIN held : held[a].item = held[b].item => a = b
    <3>1. \A a, b \in DOMAIN conns : conns[a].item = conns[b].item => a = b
      BY <1>1 DEF LinksAre
    <3>2. \A a \in DOMAIN conns : conns[a].item # n + 1
      BY <1>2, <1>7
    <3> QED
      BY <1>6, <1>8, <3>1, <3>2
  <2> QED
    BY <1>6, <2>1, <2>2, <2>3 DEF LinksAre
<1>10. Grown(conns, n, held, n + 1)
  <2>1. ~ (n + 1 <= n) /\ n <= n + 1 /\ n + 1 \in Nat /\ \A d \in DOMAIN conns : conns[d].item <= n + 1
    BY <1>2, <1>7
  <2>2. \A d \in DOMAIN conns : conns[d].item <= held[d].item
    BY <1>7, <1>8, <2>1
  <2> QED
    BY <1>2, <1>6, <1>8, <2>1, <2>2 DEF Grown
<1>11. /\ \A d \in DOMAIN held : d # c => d \in DOMAIN conns /\ held[d].roster = conns[d].roster
       /\ \A d \in DOMAIN held : held[d].item <= n \/ d = c
       /\ held[c].bank = bank /\ held[c].item = n + 1 /\ ~ held[c].retired /\ n + 1 \in Nat
       /\ c \in Nat /\ c \in DOMAIN held
  BY <1>2, <1>3, <1>5, <1>6, <1>7, <1>8 DEF bank
<1> QED
  BY <1>2, <1>3, <1>6, <1>9, <1>10, <1>11, LooksKeeps

LEMMA SyncKeeps ==
    ASSUME MInv, NEW c \in DOMAIN conns, M!Sync(c)
    PROVE  MInv'
<1>1. /\ LinksAre(conns, Len(owed)) /\ conns \in Seq(Connection)
      /\ owed \in Seq(SUBSET DOMAIN Moves)
  BY DEF MInv, LinksAre, OwedAre, M!Items
<1>2. /\ M!Observe(c, conns[c].item, conns, conns[c].bank) /\ ~ conns[c].retired
      /\ UNCHANGED <<entries, persists, closed, today, owed>>
  BY DEF M!Sync, M!LiveConns
<1>3. /\ \A d \in DOMAIN conns : conns[d].item \in Nat /\ conns[d].item <= Len(owed) /\ d \in Nat
      /\ Len(owed) \in Nat
  BY <1>1, SeqIs DEF LinksAre
<1>4. Grown(conns, Len(owed), conns, Len(owed'))
  BY <1>2, <1>3 DEF Grown
<1>5. Owing(conns[c].bank) /\ LinksAre(conns, Len(owed'))
  BY <1>1, <1>2 DEF Owing
<1> QED
  BY <1>1, <1>2, <1>3, <1>4, <1>5, LooksKeeps

LEMMA RetireKeeps ==
    ASSUME MInv, NEW c \in DOMAIN conns, M!Retire(c)
    PROVE  MInv'
<1> DEFINE n == Len(owed)
           new == [conns[c] EXCEPT !.retired = TRUE]
<1>1. /\ today \in Nat \ {0} /\ persists \subseteq Real /\ closed \subseteq Real
      /\ LinksAre(conns, n) /\ AccountsAre(conns, accounts, today)
      /\ OwedAre(conns, accounts, owed) /\ RowsAre(conns, accounts, entries, n)
      /\ Delivery(entries, owed) /\ PairsAre(entries) /\ Rosters
      /\ conns \in Seq(Connection) /\ owed \in Seq(SUBSET DOMAIN Moves)
  BY DEF MInv, M!Items, LinksAre, OwedAre
<1>2. /\ conns' = [conns EXCEPT ![c] = new]
      /\ UNCHANGED <<accounts, entries, owed, persists, closed, today>>
  BY DEF M!Retire
<1>3. /\ conns[c] \in Connection /\ new \in Connection
      /\ new.bank = conns[c].bank /\ new.item = conns[c].item /\ new.roster = conns[c].roster
      /\ new.retired = TRUE
  <2>1. conns[c] \in Connection /\ 0 \in Nat
    BY <1>1, SeqIs
  <2> QED
    BY <2>1, ConnectionIs
<1> HIDE DEF new
<1>4. /\ conns' \in Seq(Connection) /\ DOMAIN conns' = DOMAIN conns
      /\ \A d \in DOMAIN conns : conns'[d] = IF d = c THEN new ELSE conns[d]
  BY <1>1, <1>2, <1>3, ExceptIs
<1>5. \A d \in DOMAIN conns : /\ conns'[d].bank = conns[d].bank /\ conns'[d].item = conns[d].item
                              /\ conns'[d].roster = conns[d].roster
                              /\ conns[d].retired => conns'[d].retired
  BY <1>3, <1>4
<1>6. LinksAre(conns', n)
  BY <1>1, <1>4, <1>5 DEF LinksAre
<1>7. Rosters'
  <2>1. \A d \in DOMAIN conns' : conns'[d].roster \in 1 .. today
    BY <1>1, <1>4, <1>5 DEF Rosters
  <2> QED
    BY <1>2, <2>1 DEF Rosters
<1>8. \A d \in DOMAIN conns : conns[d].item \in Nat /\ n \in Nat /\ conns[d].item <= n
  BY <1>1, SeqIs DEF LinksAre
<1>9. Grown(conns, n, conns', n) /\ Stand(accounts, accounts)
  <2>1. n \in Nat
    BY <1>1, SeqIs
  <2> QED
    BY <1>4, <1>5, <1>8, <2>1 DEF Grown, Stand
<1>10. AccountsAre(conns', accounts, today) /\ RowsAre(conns', accounts, entries, n)
  BY <1>1, <1>6, <1>9, AccountsStay, RowsStay
<1>11. OwedAre(conns', accounts, owed)
  BY <1>1, <1>4, <1>5 DEF OwedAre
<1> QED
  BY <1>1, <1>2, <1>6, <1>7, <1>10, <1>11, PrimedInv

LEMMA CloseKeeps ==
    ASSUME MInv, NEW r \in Real, M!Close(r)
    PROVE  MInv'
<1>1. /\ UNCHANGED <<conns, accounts, entries, owed, persists, today>> /\ closed' = closed \cup {r}
  BY DEF M!Close
<1>2. /\ today' \in Nat \ {0} /\ persists \subseteq Real /\ closed' \subseteq Real
      /\ LinksAre(conns', Len(owed')) /\ AccountsAre(conns', accounts', today')
      /\ OwedAre(conns', accounts', owed') /\ RowsAre(conns', accounts', entries', Len(owed'))
      /\ Delivery(entries', owed') /\ PairsAre(entries')
  BY <1>1 DEF MInv, M!Items
<1>3. Rosters'
  BY <1>1 DEF MInv, Rosters
<1> QED
  BY <1>1, <1>2, <1>3, PrimedInv

LEMMA NextDayKeeps ==
    ASSUME MInv, M!NextDay
    PROVE  MInv'
<1>1. /\ UNCHANGED <<conns, accounts, entries, owed, persists, closed>> /\ today' = today + 1
  BY DEF M!NextDay
<1>2. /\ today \in Nat \ {0} /\ persists \subseteq Real /\ closed' \subseteq Real
      /\ LinksAre(conns', Len(owed')) /\ AccountsAre(conns, accounts, today) /\ Rosters
      /\ OwedAre(conns', accounts', owed') /\ RowsAre(conns', accounts', entries', Len(owed'))
      /\ Delivery(entries', owed') /\ PairsAre(entries')
  BY <1>1 DEF MInv, M!Items
<1>3. \A n \in 1 .. today : n \in 1 .. today'
  BY <1>1, <1>2
<1>4. AccountsAre(conns', accounts', today')
  BY <1>1, <1>2, <1>3 DEF AccountsAre
<1>5. Rosters'
  BY <1>1, <1>2, <1>3 DEF Rosters
<1>6. today' \in Nat \ {0}
  BY <1>1, <1>2
<1> QED
  BY <1>1, <1>2, <1>4, <1>5, <1>6, PrimedInv

-----------------------------------------------------------------------------
(* Pairing over the rows *)

\* u is the row v under another pair id.
Repaired(v, u, n) ==
    /\ u \in LedgerRow /\ u.account = v.account /\ u.lineage = v.lineage /\ u.move = v.move
    /\ u.gen = v.gen /\ u.shape = v.shape /\ u.removed = v.removed /\ u.pair = n

\* A row under another pair id is that row.
LEMMA RepairedIs ==
    ASSUME NEW v \in LedgerRow, NEW n \in Nat
    PROVE  Repaired(v, [v EXCEPT !.pair = n], n)
<1>1. v = [account |-> v.account, lineage |-> v.lineage, move |-> v.move, gen |-> v.gen,
           shape |-> v.shape, removed |-> v.removed, pair |-> v.pair]
  BY DEF LedgerRow
<1>2. /\ v.account \in Nat /\ v.lineage \in Nat /\ v.move \in DOMAIN Moves /\ v.gen \in Nat
      /\ v.shape \in Shapes /\ v.removed \in BOOLEAN /\ v.pair \in Nat
  BY DEF LedgerRow
<1> QED
  BY <1>1, <1>2 DEF Repaired, LedgerRow

\* The rows are of the same movements, by the same Items, under the same accounts.
SameMoves(rs, ps) ==
    /\ ps \in Seq(LedgerRow) /\ DOMAIN ps = DOMAIN rs
    /\ \A k \in DOMAIN rs : /\ ps[k].account = rs[k].account /\ ps[k].lineage = rs[k].lineage
                            /\ ps[k].move = rs[k].move /\ ps[k].gen = rs[k].gen

\* Pair ids and categories are nothing to the other parts of the invariant.
LEMMA SameMovesKeep ==
    ASSUME NEW rs, NEW ps, SameMoves(rs, ps), NEW cs, NEW tab, NEW n, NEW owing
    PROVE  /\ RowsAre(cs, tab, rs, n) => RowsAre(cs, tab, ps, n)
           /\ Delivery(rs, owing) => Delivery(ps, owing)
<1>1. RowsAre(cs, tab, rs, n) => RowsAre(cs, tab, ps, n)
  BY DEF SameMoves, RowsAre
<1>2. \A g, m : Came(rs, g, m) <=> Came(ps, g, m)
  BY DEF SameMoves, Came
<1>3. \A g, m : Comes(rs, owing, g, m) <=> Comes(ps, owing, g, m)
  BY <1>2 DEF Comes
<1>4. ASSUME Delivery(rs, owing) PROVE Delivery(ps, owing)
  <2>1. \A j, k \in DOMAIN ps : ps[j].gen = ps[k].gen /\ ps[j].move = ps[k].move => j = k
    BY <1>4 DEF Delivery, SameMoves
  <2>2. \A k \in DOMAIN ps : \A m \in owing[ps[k].gen] : m < ps[k].move
    BY <1>4 DEF Delivery, SameMoves
  <2>3. \A g \in DOMAIN owing : \A m \in owing[g] : \A l \in DOMAIN Moves :
          Moves[l].real = Moves[m].real => Comes(ps, owing, g, l)
    BY <1>3, <1>4 DEF Delivery
  <2>4. \A k \in DOMAIN ps : \A l \in DOMAIN Moves :
          Moves[l].real = Moves[ps[k].move].real => Comes(ps, owing, ps[k].gen, l)
    BY <1>3, <1>4 DEF Delivery, SameMoves
  <2> QED
    BY <2>1, <2>2, <2>3, <2>4 DEF Delivery
<1> QED
  BY <1>1, <1>4

\* The leg a row is read as.
LegOf(rs, k) == [id |-> k, account |-> rs[k].account, day |-> Moves[rs[k].move].day,
                 amount |-> Moves[rs[k].move].amount, currency |-> "USD"]
LegRows(rs) == {k \in DOMAIN rs : ~ rs[k].removed /\ rs[k].shape # "other"}

\* The candidates for pairing are a leg per row.
LEMMA CandidatesAre ==
    ASSUME NEW rs \in Seq(LedgerRow)
    PROVE  /\ M!Candidates(rs) = {LegOf(rs, k) : k \in LegRows(rs)}
           /\ AreLegs(M!Candidates(rs))
<1> DEFINE S == LegRows(rs)
           F == [k \in S |-> LegOf(rs, k)]
<1>1. M!Candidates(rs) = {LegOf(rs, k) : k \in S}
  BY DEF M!Candidates, LegOf, LegRows
<1>2. /\ \A k \in DOMAIN rs : k \in Nat /\ rs[k] \in LedgerRow
      /\ DOMAIN rs = 1 .. Len(rs) /\ Len(rs) \in Nat
  BY SeqIs
<1>3. \A k \in S : k \in Nat /\ k \in DOMAIN rs /\ rs[k].move \in DOMAIN Moves
  BY <1>2 DEF LegRows, LedgerRow
<1>4. \A k \in S : LegOf(rs, k).id = k /\ LegOf(rs, k).day \in Nat /\ LegOf(rs, k).amount \in Int
  BY <1>3, MoveIs DEF LegOf
<1>5. IsFiniteSet(M!Candidates(rs))
  <2>1. IsFiniteSet(S)
    <3>1. IsFiniteSet(1 .. Len(rs)) /\ S \subseteq 1 .. Len(rs)
      BY <1>2, FS_Interval DEF LegRows
    <3> QED
      BY <3>1, FS_Subset
  <2>2. F \in Surjection(S, M!Candidates(rs))
    <3> HIDE DEF S
    <3> QED
      BY <1>1 DEF Surjection
  <2> HIDE DEF S, F
  <2> QED
    BY <2>1, <2>2, FS_Surjection
<1>6. \A l \in M!Candidates(rs) : \E k \in S : l = LegOf(rs, k)
  BY <1>1
<1>7. \A l, m \in M!Candidates(rs) : l.id = m.id => l = m
  <2> HIDE DEF S
  <2> QED
    BY <1>4, <1>6
<1>8. \A l \in M!Candidates(rs) : l.id \in Nat /\ l.day \in Nat /\ l.amount \in Int
  <2> HIDE DEF S
  <2> QED
    BY <1>3, <1>4, <1>6
<1> QED
  BY <1>1, <1>5, <1>7, <1>8 DEF AreLegs

\* Pairing changes the pair ids only, to those of the rows as they stand.
LEMMA PairedIs ==
    ASSUME NEW rs \in Seq(LedgerRow),
           \A k \in DOMAIN rs : rs[k].shape = "other" => rs[k].pair <= k
    PROVE  SameMoves(rs, M!Paired(rs)) /\ PairsAre(M!Paired(rs))
<1> DEFINE pairs == M!PairTransfers(M!Candidates(rs))
           ps == M!Paired(rs)
<1>1. pairs \in Matchings(M!Candidates(rs))
  BY CandidatesAre, PairsAreMaximal
<1>2. \A k \in DOMAIN rs : k \in Nat /\ rs[k] \in LedgerRow
  BY SeqIs
<1>3. \A k \in Nat : M!PairId(k, pairs) \in Nat /\ M!PairId(k, pairs) <= k
  BY <1>1, CandidatesAre, PairIdIs
<1>4. ps = [k \in DOMAIN rs |-> IF rs[k].shape # "other"
                                THEN [rs[k] EXCEPT !.pair = M!PairId(k, pairs)] ELSE rs[k]]
  BY DEF M!Paired
<1> HIDE DEF pairs, ps
<1>5. DOMAIN ps = DOMAIN rs
  BY <1>4
<1>6. \A k \in DOMAIN rs : /\ rs[k].shape # "other" => Repaired(rs[k], ps[k], M!PairId(k, pairs))
                           /\ rs[k].shape = "other" => ps[k] = rs[k]
  <2> SUFFICES ASSUME NEW k \in DOMAIN rs
               PROVE  /\ rs[k].shape # "other" => Repaired(rs[k], ps[k], M!PairId(k, pairs))
                      /\ rs[k].shape = "other" => ps[k] = rs[k]
    OBVIOUS
  <2>1. Repaired(rs[k], [rs[k] EXCEPT !.pair = M!PairId(k, pairs)], M!PairId(k, pairs))
    BY <1>2, <1>3, RepairedIs
  <2>2. /\ rs[k].shape # "other" => ps[k] = [rs[k] EXCEPT !.pair = M!PairId(k, pairs)]
        /\ rs[k].shape = "other" => ps[k] = rs[k]
    BY <1>4
  <2> QED
    BY <2>1, <2>2
<1>7. \A k \in DOMAIN rs :
         /\ ps[k] \in LedgerRow /\ ps[k].account = rs[k].account /\ ps[k].lineage = rs[k].lineage
         /\ ps[k].move = rs[k].move /\ ps[k].gen = rs[k].gen /\ ps[k].shape = rs[k].shape
  BY <1>2, <1>6 DEF Repaired
<1>8. \A k \in DOMAIN rs : ps[k].removed = rs[k].removed
  BY <1>6 DEF Repaired
<1>9. ps \in Seq(LedgerRow)
  <2>1. ps \in [1 .. Len(rs) -> LedgerRow] /\ Len(rs) \in Nat
    BY <1>4, <1>7, SeqIs
  <2> QED
    BY <2>1
<1>10. M!Candidates(ps) = M!Candidates(rs)
  <2>1. LegRows(ps) = LegRows(rs)
    BY <1>5, <1>7, <1>8 DEF LegRows
  <2>2. \A k \in LegRows(rs) : LegOf(ps, k) = LegOf(rs, k)
    BY <1>7 DEF LegOf, LegRows
  <2>3. M!Candidates(ps) = {LegOf(ps, k) : k \in LegRows(ps)} /\ M!Candidates(rs) = {LegOf(rs, k) : k \in LegRows(rs)}
    BY <1>9, CandidatesAre
  <2> QED
    BY <2>1, <2>2, <2>3
<1>11. ASSUME NEW k \in DOMAIN rs
       PROVE  ps[k].pair <= k /\ (ps[k].shape # "other" => ps[k].pair = M!PairId(k, pairs))
  BY <1>2, <1>3, <1>6, <1>7 DEF Repaired
<1>12. PairsAre(ps)
  BY <1>5, <1>10, <1>11 DEF PairsAre, pairs
<1> QED
  BY <1>5, <1>7, <1>9, <1>12 DEF SameMoves, ps

-----------------------------------------------------------------------------
(* Rows *)

\* The row that answers for an account that has one.
LEMMA RowForAnswers ==
    ASSUME NEW cs, NEW tab, NEW now, AccountsAre(cs, tab, now), NEW c \in DOMAIN cs, NEW r,
           \E i \in DOMAIN tab : Answers(tab, cs[c].item, r, i)
    PROVE  LET i == M!RowFor(tab, c, cs[c].item, r) IN
           i \in DOMAIN tab /\ Answers(tab, cs[c].item, r, i) /\ (r \in persists \/ tab[i].conn = c)
<1>1. PICK j \in DOMAIN tab : Answers(tab, cs[c].item, r, j)
  OBVIOUS
<1>2. tab[j].real = r /\ (r \in persists \/ (tab[j].item = cs[c].item /\ tab[j].conn = c))
  BY <1>1 DEF Answers, AccountsAre
<1>3. tab \in Seq(AccountRow)
  BY DEF AccountsAre
<1> DEFINE i == M!RowFor(tab, c, cs[c].item, r)
<1>4. /\ i = 0 => \A k \in DOMAIN tab : tab[k].real = r => ~ Own(tab, c, cs[c].item, k)
      /\ i # 0 => i \in DOMAIN tab /\ tab[i].real = r /\ Own(tab, c, cs[c].item, i)
  BY <1>3, RowForIs
<1>5. Own(tab, c, cs[c].item, j)
  BY <1>2 DEF Own
<1> HIDE DEF i
<1>6. i # 0 /\ i \in DOMAIN tab /\ tab[i].real = r /\ Own(tab, c, cs[c].item, i)
  BY <1>1, <1>2, <1>4, <1>5
<1> QED
  BY <1>6 DEF Own, Answers, i

\* A row that has just arrived.
LEMMA NewRowIs ==
    ASSUME NEW i \in Nat, NEW c \in Nat, NEW m \in DOMAIN Moves, NEW x \in Nat
    PROVE  LET v == [account |-> i, lineage |-> c, move |-> m, gen |-> x, shape |-> Moves[m].shape,
                     removed |-> FALSE, pair |-> 0] IN
           /\ v \in LedgerRow /\ v.account = i /\ v.lineage = c /\ v.move = m /\ v.gen = x
           /\ v.pair = 0
BY MoveIs DEF LedgerRow

\* A page of the newest movements an Item still owes keeps the invariant.
LEMMA DeliverKeeps ==
    ASSUME MInv, NEW c \in DOMAIN conns, M!Deliver(c)
    PROVE  MInv'
<1> DEFINE n == Len(owed)
           x == conns[c].item
           m == M!Max(owed[x])
           r == Moves[m].real
           i == M!RowFor(accounts, c, x, r)
           new == [account |-> i, lineage |-> c, move |-> m, gen |-> x, shape |-> Moves[m].shape,
                   removed |-> FALSE, pair |-> 0]
           rs == Append(entries, new)
           later == owed[x] \ {m}
<1>1. /\ today \in Nat \ {0} /\ persists \subseteq Real /\ closed \subseteq Real
      /\ LinksAre(conns, n) /\ AccountsAre(conns, accounts, today)
      /\ OwedAre(conns, accounts, owed) /\ RowsAre(conns, accounts, entries, n)
      /\ Delivery(entries, owed) /\ PairsAre(entries) /\ Rosters
      /\ conns \in Seq(Connection) /\ owed \in Seq(SUBSET DOMAIN Moves)
      /\ entries \in Seq(LedgerRow) /\ accounts \in Seq(AccountRow)
  BY DEF MInv, M!Items, LinksAre, OwedAre, RowsAre, AccountsAre
<1>2. /\ owed[x] # {} /\ owed' = [owed EXCEPT ![x] = later]
      /\ entries' = M!Paired(rs)
      /\ UNCHANGED <<conns, accounts, persists, closed, today>>
  BY DEF M!Deliver
<1>3. x \in 1 .. n /\ n \in Nat /\ x \in DOMAIN owed /\ owed[x] \in SUBSET DOMAIN Moves /\ c \in Nat
  BY <1>1, SeqIs DEF LinksAre
<1>4. m \in owed[x] /\ (\A l \in owed[x] : l <= m) /\ m \in DOMAIN Moves
  <2> DEFINE S == owed[x]
  <2>1. S \in SUBSET Nat /\ IsFiniteSet(S) /\ S # {}
    BY <1>2, <1>3, MoveIs, FS_Subset
  <2> HIDE DEF S
  <2>2. M!Max(S) \in S /\ \A l \in S : M!Max(S) >= l
    BY <2>1, Extremes DEF M!Max
  <2>3. \A l \in S : l <= M!Max(S)
    BY <2>1, <2>2
  <2> QED
    BY <1>3, <2>2, <2>3 DEF S
<1> HIDE DEF m
<1>5. Bank[r] = conns[c].bank /\ \E j \in DOMAIN accounts : Answers(accounts, x, r, j)
  BY <1>1, <1>4 DEF OwedAre
<1>6. i \in DOMAIN accounts /\ Answers(accounts, x, r, i) /\ (r \in persists \/ accounts[i].conn = c)
  BY <1>1, <1>5, RowForAnswers
<1> HIDE DEF i
<1>7. i \in Nat /\ x \in Nat
  BY <1>1, <1>3, <1>6, SeqIs
<1>8. /\ new \in LedgerRow /\ new.account = i /\ new.lineage = c /\ new.move = m /\ new.gen = x
      /\ new.pair = 0
  <2> HIDE DEF x
  <2> QED
    BY <1>3, <1>4, <1>7, NewRowIs
<1> HIDE DEF new
<1>9. /\ rs \in Seq(LedgerRow) /\ DOMAIN rs = DOMAIN entries \cup {Len(entries) + 1}
      /\ rs[Len(entries) + 1] = new /\ Len(entries) + 1 \notin DOMAIN entries
      /\ \A k \in DOMAIN entries : rs[k] = entries[k]
  BY <1>1, <1>8, AppendIs
<1>10. Len(entries) + 1 \in Nat /\ \A k \in DOMAIN entries : k \in Nat
  BY <1>1, SeqIs
<1> DEFINE p == Len(entries) + 1
<1> HIDE DEF rs, p
<1>11. /\ p \in DOMAIN rs /\ rs[p] = new /\ DOMAIN rs = DOMAIN entries \cup {p} /\ p \in Nat
       /\ \A k \in DOMAIN entries : rs[k] = entries[k]
  BY <1>9, <1>10 DEF p
<1>12. later \in SUBSET DOMAIN Moves
  BY <1>3
<1>13. /\ owed' \in Seq(SUBSET DOMAIN Moves) /\ Len(owed') = n /\ DOMAIN owed' = DOMAIN owed
       /\ \A g \in DOMAIN owed : owed'[g] = IF g = x THEN later ELSE owed[g]
  <2> HIDE DEF later, x
  <2> QED
    BY <1>1, <1>2, <1>3, <1>12, ExceptIs
<1>14. \A g \in DOMAIN owed : owed'[g] \subseteq owed[g]
  BY <1>13
<1>15. owed'[x] = owed[x] \ {m} /\ \A g \in DOMAIN owed : g # x => owed'[g] = owed[g]
  BY <1>3, <1>13
<1> HIDE DEF later, n
<1>16. OwedAre(conns, accounts, owed')
  <2>1. \A d \in DOMAIN conns : conns[d].item \in DOMAIN owed
    BY <1>1, SeqIs DEF LinksAre, n
  <2> QED
    BY <1>1, <1>13, <1>14, <2>1 DEF OwedAre
<1>17. RowsAre(conns, accounts, rs, n)
  <2>1. /\ i \in DOMAIN accounts /\ c \in DOMAIN conns /\ x \in 1 .. n
        /\ Bank[Moves[m].real] = conns[c].bank
        /\ Answers(accounts, x, Moves[m].real, i)
        /\ Moves[m].real \in persists \/ accounts[i].conn = c
        /\ \A d \in DOMAIN conns : x = conns[d].item => c = d
    BY <1>1, <1>3, <1>5, <1>6 DEF LinksAre, n
  <2>2. \A k \in DOMAIN entries : entries[k].gen = x => entries[k].lineage = c
    BY <1>1 DEF RowsAre
  <2>3. \A j, k \in DOMAIN rs : rs[j].gen = rs[k].gen => rs[j].lineage = rs[k].lineage
    <3>1. \A j, k \in DOMAIN entries :
             entries[j].gen = entries[k].gen => entries[j].lineage = entries[k].lineage
      BY <1>1 DEF RowsAre
    <3> HIDE DEF x
    <3> QED
      BY <1>8, <1>11, <2>2, <3>1
  <2>4. \A k \in DOMAIN rs :
          /\ rs[k].account \in DOMAIN accounts /\ rs[k].lineage \in DOMAIN conns /\ rs[k].gen \in 1 .. n
          /\ Bank[Moves[rs[k].move].real] = conns[rs[k].lineage].bank
          /\ Answers(accounts, rs[k].gen, Moves[rs[k].move].real, rs[k].account)
          /\ Moves[rs[k].move].real \in persists \/ accounts[rs[k].account].conn = rs[k].lineage
          /\ \A d \in DOMAIN conns : rs[k].gen = conns[d].item => rs[k].lineage = d
    <3> SUFFICES ASSUME NEW k \in DOMAIN rs
                 PROVE
          /\ rs[k].account \in DOMAIN accounts /\ rs[k].lineage \in DOMAIN conns /\ rs[k].gen \in 1 .. n
          /\ Bank[Moves[rs[k].move].real] = conns[rs[k].lineage].bank
          /\ Answers(accounts, rs[k].gen, Moves[rs[k].move].real, rs[k].account)
          /\ Moves[rs[k].move].real \in persists \/ accounts[rs[k].account].conn = rs[k].lineage
          /\ \A d \in DOMAIN conns : rs[k].gen = conns[d].item => rs[k].lineage = d
      OBVIOUS
    <3>1. CASE k \in DOMAIN entries
      BY <1>1, <1>11, <3>1 DEF RowsAre
    <3>2. CASE k = p
      <4> HIDE DEF x, r
      <4> QED
        BY <1>8, <1>11, <2>1, <3>2
    <3> QED
      BY <1>11, <3>1, <3>2
  <2> QED
    BY <1>9, <2>3, <2>4 DEF RowsAre, rs
<1>18. Delivery(rs, owed')
  <2>1. ASSUME NEW g \in DOMAIN owed, NEW l, Comes(entries, owed, g, l)
        PROVE  Comes(rs, owed', g, l)
    <3>1. CASE l \in owed[g]
      <4>1. l \in owed'[g] \/ (g = x /\ l = m)
        BY <1>15, <3>1
      <4>2. Came(rs, x, m)
        <5> HIDE DEF x
        <5> QED
          BY <1>8, <1>11 DEF Came
      <4> QED
        BY <4>1, <4>2 DEF Comes
    <3>2. CASE Came(entries, g, l)
      BY <1>11, <3>2 DEF Came, Comes
    <3> QED
      BY <2>1, <3>1, <3>2 DEF Comes
  <2>2. \A k \in DOMAIN entries : entries[k].gen \in DOMAIN owed
    BY <1>1, SeqIs DEF RowsAre, n
  <2>3. \A k \in DOMAIN entries : /\ entries[k].move \in Nat
                                  /\ entries[k].gen = x => m < entries[k].move
    <3>1. \A k \in DOMAIN entries : entries[k].move \in DOMAIN Moves
      <4>1. \A k \in DOMAIN entries : entries[k] \in LedgerRow
        BY <1>1, SeqIs
      <4> QED
        BY <4>1 DEF LedgerRow
    <3> QED
      BY <1>1, <1>4, <3>1, MoveIs DEF Delivery
  <2>4. ASSUME NEW j \in DOMAIN rs, NEW k \in DOMAIN rs, rs[j].gen = rs[k].gen, rs[j].move = rs[k].move
        PROVE  j = k
    <3>1. m \in Nat
      BY <1>4, MoveIs
    <3>2. CASE j \in DOMAIN entries /\ k \in DOMAIN entries
      BY <1>1, <1>11, <2>4, <3>2 DEF Delivery
    <3>3. CASE j = p /\ k \in DOMAIN entries
      <4>1. entries[k].gen = x /\ entries[k].move = m
        <5> HIDE DEF x
        <5> QED
          BY <1>8, <1>11, <2>4, <3>3
      <4> QED
        BY <2>3, <3>1, <3>3, <4>1
    <3>4. CASE k = p /\ j \in DOMAIN entries
      <4>1. entries[j].gen = x /\ entries[j].move = m
        <5> HIDE DEF x
        <5> QED
          BY <1>8, <1>11, <2>4, <3>4
      <4> QED
        BY <2>3, <3>1, <3>4, <4>1
    <3> QED
      BY <1>11, <3>2, <3>3, <3>4
  <2>5. ASSUME NEW k \in DOMAIN rs, NEW l \in owed'[rs[k].gen] PROVE l < rs[k].move
    <3>1. CASE k \in DOMAIN entries
      <4>1. l \in owed[entries[k].gen] /\ rs[k] = entries[k]
        BY <1>11, <1>14, <2>2, <2>5, <3>1
      <4> QED
        BY <1>1, <3>1, <4>1 DEF Delivery
    <3>2. CASE k = p
      <4>1. rs[k].gen = x /\ rs[k].move = m
        <5> HIDE DEF x
        <5> QED
          BY <1>8, <1>11, <3>2
      <4>2. l \in owed[x] /\ l # m
        BY <1>15, <2>5, <4>1
      <4>3. l <= m /\ l \in Nat /\ m \in Nat
        BY <1>3, <1>4, <4>2, MoveIs
      <4> QED
        BY <4>1, <4>2, <4>3
    <3> QED
      BY <1>11, <3>1, <3>2
  <2>6. ASSUME NEW g \in DOMAIN owed', NEW q \in owed'[g], NEW l \in DOMAIN Moves,
               Moves[l].real = Moves[q].real
        PROVE  Comes(rs, owed', g, l)
    <3>1. g \in DOMAIN owed /\ q \in owed[g]
      BY <1>13, <1>14, <2>6
    <3>2. Comes(entries, owed, g, l)
      BY <1>1, <2>6, <3>1 DEF Delivery
    <3> QED
      BY <2>1, <3>1, <3>2
  <2>7. ASSUME NEW k \in DOMAIN rs, NEW l \in DOMAIN Moves, Moves[l].real = Moves[rs[k].move].real
        PROVE  Comes(rs, owed', rs[k].gen, l)
    <3>1. CASE k \in DOMAIN entries
      <4>1. Comes(entries, owed, entries[k].gen, l) /\ rs[k] = entries[k]
        BY <1>1, <1>11, <2>7, <3>1 DEF Delivery
      <4> QED
        BY <2>1, <2>2, <3>1, <4>1
    <3>2. CASE k = p
      <4>1. rs[k].gen = x /\ rs[k].move = m
        <5> HIDE DEF x
        <5> QED
          BY <1>8, <1>11, <3>2
      <4>2. Comes(entries, owed, x, l)
        BY <1>1, <1>3, <1>4, <2>7, <4>1 DEF Delivery
      <4> QED
        BY <1>3, <2>1, <4>1, <4>2
    <3> QED
      BY <1>11, <3>1, <3>2
  <2> QED
    BY <2>4, <2>5, <2>6, <2>7 DEF Delivery
<1>19. \A k \in DOMAIN rs : rs[k].shape = "other" => rs[k].pair <= k
  <2>1. \A k \in DOMAIN entries : entries[k].pair <= k
    BY <1>1 DEF PairsAre
  <2>2. 0 <= p
    BY <1>11
  <2> QED
    BY <1>8, <1>11, <2>1, <2>2
<1>20. SameMoves(rs, entries') /\ PairsAre(entries')
  <2>1. rs \in Seq(LedgerRow)
    BY <1>9 DEF rs
  <2>2. entries' = M!Paired(rs)
    BY <1>2 DEF rs
  <2> QED
    BY <1>19, <2>1, <2>2, PairedIs
<1>21. RowsAre(conns, accounts, entries', n) /\ Delivery(entries', owed')
  BY <1>17, <1>18, <1>20, SameMovesKeep
<1>22. Rosters'
  BY <1>1, <1>2 DEF Rosters
<1> QED
  BY <1>1, <1>2, <1>13, <1>16, <1>20, <1>21, <1>22, PrimedInv DEF n

\* u is the row v withdrawn, or restated.
LEMMA WithdrawnIs ==
    ASSUME NEW v \in LedgerRow
    PROVE  LET u == [v EXCEPT !.removed = TRUE] IN
           /\ u \in LedgerRow /\ u.account = v.account /\ u.lineage = v.lineage
           /\ u.move = v.move /\ u.gen = v.gen /\ u.pair = v.pair
<1>1. v = [account |-> v.account, lineage |-> v.lineage, move |-> v.move, gen |-> v.gen,
           shape |-> v.shape, removed |-> v.removed, pair |-> v.pair]
  BY DEF LedgerRow
<1>2. /\ v.account \in Nat /\ v.lineage \in Nat /\ v.move \in DOMAIN Moves /\ v.gen \in Nat
      /\ v.shape \in Shapes /\ v.pair \in Nat
  BY DEF LedgerRow
<1> QED
  BY <1>1, <1>2 DEF LedgerRow

\* A row that left its category.
LEMMA RestatedIs ==
    ASSUME NEW v \in LedgerRow
    PROVE  LET u == [v EXCEPT !.shape = "other"] IN
           /\ u \in LedgerRow /\ u.account = v.account /\ u.lineage = v.lineage
           /\ u.move = v.move /\ u.gen = v.gen /\ u.pair = v.pair
<1>1. v = [account |-> v.account, lineage |-> v.lineage, move |-> v.move, gen |-> v.gen,
           shape |-> v.shape, removed |-> v.removed, pair |-> v.pair]
  BY DEF LedgerRow
<1>2. /\ v.account \in Nat /\ v.lineage \in Nat /\ v.move \in DOMAIN Moves /\ v.gen \in Nat
      /\ v.removed \in BOOLEAN /\ v.pair \in Nat /\ "other" \in Shapes
  BY DEF LedgerRow, Shapes
<1> QED
  BY <1>1, <1>2 DEF LedgerRow

\* A row put in the place of another of the same movement.
LEMMA ChangedKeeps ==
    ASSUME MInv, NEW k \in DOMAIN entries, NEW v \in LedgerRow,
           v.account = entries[k].account, v.lineage = entries[k].lineage, v.move = entries[k].move,
           v.gen = entries[k].gen, v.pair = entries[k].pair,
           entries' = M!Paired([entries EXCEPT ![k] = v]),
           UNCHANGED <<conns, accounts, owed, persists, closed, today>>
    PROVE  MInv'
<1> DEFINE rs == [entries EXCEPT ![k] = v]
<1>1. /\ today \in Nat \ {0} /\ persists \subseteq Real /\ closed \subseteq Real
      /\ LinksAre(conns, Len(owed)) /\ AccountsAre(conns, accounts, today)
      /\ OwedAre(conns, accounts, owed) /\ RowsAre(conns, accounts, entries, Len(owed))
      /\ Delivery(entries, owed) /\ PairsAre(entries) /\ Rosters
      /\ entries \in Seq(LedgerRow)
  BY DEF MInv, M!Items, RowsAre
<1>2. /\ rs \in Seq(LedgerRow) /\ DOMAIN rs = DOMAIN entries
      /\ \A j \in DOMAIN entries : rs[j] = IF j = k THEN v ELSE entries[j]
  BY <1>1, ExceptIs
<1>3. entries' = M!Paired(rs)
  OBVIOUS
<1> HIDE DEF rs
<1>4. SameMoves(entries, rs)
  BY <1>2 DEF SameMoves
<1>5. \A j \in DOMAIN rs : rs[j].shape = "other" => rs[j].pair <= j
  <2>1. \A j \in DOMAIN entries : entries[j].pair <= j
    BY <1>1 DEF PairsAre
  <2> QED
    BY <1>2, <2>1
<1>6. SameMoves(rs, entries') /\ PairsAre(entries')
  BY <1>2, <1>3, <1>5, PairedIs
<1>7. RowsAre(conns, accounts, entries', Len(owed)) /\ Delivery(entries', owed)
  BY <1>1, <1>4, <1>6, SameMovesKeep
<1>8. Rosters'
  BY <1>1 DEF Rosters
<1> QED
  BY <1>1, <1>6, <1>7, <1>8, PrimedInv

\* So do a withdrawal and a restated category.
LEMMA WithdrawKeeps ==
    ASSUME MInv, NEW k \in DOMAIN entries, M!Withdraw(k)
    PROVE  MInv'
<1> DEFINE v == [entries[k] EXCEPT !.removed = TRUE]
<1>1. entries[k] \in LedgerRow
  BY SeqIs DEF MInv, RowsAre
<1>2. /\ v \in LedgerRow /\ v.account = entries[k].account /\ v.lineage = entries[k].lineage
      /\ v.move = entries[k].move /\ v.gen = entries[k].gen /\ v.pair = entries[k].pair
  BY <1>1, WithdrawnIs
<1>3. /\ entries' = M!Paired([entries EXCEPT ![k] = v])
      /\ UNCHANGED <<conns, accounts, owed, persists, closed, today>>
  BY DEF M!Withdraw
<1> HIDE DEF v
<1> QED
  BY <1>2, <1>3, ChangedKeeps

LEMMA RestateKeeps ==
    ASSUME MInv, NEW k \in DOMAIN entries, M!Restate(k)
    PROVE  MInv'
<1> DEFINE v == [entries[k] EXCEPT !.shape = "other"]
<1>1. entries[k] \in LedgerRow
  BY SeqIs DEF MInv, RowsAre
<1>2. /\ v \in LedgerRow /\ v.account = entries[k].account /\ v.lineage = entries[k].lineage
      /\ v.move = entries[k].move /\ v.gen = entries[k].gen /\ v.pair = entries[k].pair
  BY <1>1, RestatedIs
<1>3. /\ entries' = M!Paired([entries EXCEPT ![k] = v])
      /\ UNCHANGED <<conns, accounts, owed, persists, closed, today>>
  BY DEF M!Restate
<1> HIDE DEF v
<1> QED
  BY <1>2, <1>3, ChangedKeeps

\* M!TypeOK is of the invariant: the steps keep every reference.
THEOREM SummariesInvariant == M!Spec => []MInv
<1>1. M!Init => MInv
  <2> SUFFICES ASSUME M!Init PROVE MInv
    OBVIOUS
  <2>1. /\ conns = <<>> /\ accounts = <<>> /\ entries = <<>> /\ owed = <<>>
        /\ persists \subseteq Real /\ closed = {} /\ today = 1
    BY DEF M!Init
  <2>2. LinksAre(conns, M!Items) /\ Rosters
    BY <2>1 DEF LinksAre, Rosters
  <2>3. AccountsAre(conns, accounts, today)
    BY <2>1 DEF AccountsAre
  <2>4. OwedAre(conns, accounts, owed)
    BY <2>1 DEF OwedAre
  <2>5. RowsAre(conns, accounts, entries, M!Items)
    BY <2>1 DEF RowsAre
  <2>6. Delivery(entries, owed) /\ PairsAre(entries)
    BY <2>1 DEF Delivery, PairsAre
  <2> QED
    BY <2>1, <2>2, <2>3, <2>4, <2>5, <2>6 DEF MInv
<1>2. MInv /\ [M!Next]_M!vars => MInv'
  <2> SUFFICES ASSUME MInv, [M!Next]_M!vars PROVE MInv'
    OBVIOUS
  <2>1. ASSUME NEW bank \in M!Banks, M!Enroll(bank) PROVE MInv'
    BY <2>1, EnrollKeeps
  <2>2. ASSUME NEW c \in DOMAIN conns, M!ReLink(c) PROVE MInv'
    BY <2>2, ReLinkKeeps
  <2>3. ASSUME NEW c \in DOMAIN conns, M!Sync(c) PROVE MInv'
    BY <2>3, SyncKeeps
  <2>4. ASSUME NEW c \in DOMAIN conns, M!Retire(c) PROVE MInv'
    BY <2>4, RetireKeeps
  <2>5. ASSUME NEW c \in DOMAIN conns, M!Deliver(c) PROVE MInv'
    BY <2>5, DeliverKeeps
  <2>6. ASSUME NEW r \in Real, M!Close(r) PROVE MInv'
    BY <2>6, CloseKeeps
  <2>7. ASSUME M!NextDay PROVE MInv'
    BY <2>7, NextDayKeeps
  <2>8. ASSUME NEW k \in DOMAIN entries, M!Withdraw(k) PROVE MInv'
    BY <2>8, WithdrawKeeps
  <2>9. ASSUME NEW k \in DOMAIN entries, M!Restate(k) PROVE MInv'
    BY <2>9, RestateKeeps
  <2>10. CASE UNCHANGED M!vars
    <3>1. UNCHANGED <<conns, accounts, entries, owed, persists, closed, today, events>>
      BY <2>10 DEF M!vars
    <3>2. /\ today' \in Nat \ {0} /\ persists \subseteq Real /\ closed' \subseteq Real
          /\ LinksAre(conns', Len(owed')) /\ AccountsAre(conns', accounts', today')
          /\ OwedAre(conns', accounts', owed') /\ RowsAre(conns', accounts', entries', Len(owed'))
          /\ Delivery(entries', owed') /\ PairsAre(entries')
      BY <3>1 DEF MInv, M!Items
    <3>3. Rosters'
      BY <3>1 DEF MInv, Rosters
    <3> QED
      BY <3>1, <3>2, <3>3, PrimedInv
  <2> QED
    BY <2>1, <2>2, <2>3, <2>4, <2>5, <2>6, <2>7, <2>8, <2>9, <2>10 DEF M!Next
<1> QED
  BY <1>1, <1>2, PTL DEF M!Spec

\* Type correctness (store/schema: every reference between the tables resolves,
\* ids only point back), whatever is linked, retired, delivered and withdrawn.
THEOREM SummariesTypeCorrect == M!Spec => []TypeOK
<1>1. ASSUME MInv PROVE TypeOK
  <2>1. /\ LinksAre(conns, M!Items) /\ AccountsAre(conns, accounts, today) /\ Rosters
        /\ RowsAre(conns, accounts, entries, M!Items) /\ PairsAre(entries)
        /\ accounts \in Seq(AccountRow) /\ entries \in Seq(LedgerRow) /\ M!Items \in Nat
    BY <1>1, SeqIs DEF MInv, AccountsAre, RowsAre, OwedAre, M!Items
  <2>2. \A c \in DOMAIN conns : conns[c].item \in Nat /\ conns[c].item \in 1 .. M!Items
    BY <2>1 DEF LinksAre
  <2>3. ASSUME NEW i \in DOMAIN accounts
        PROVE  /\ accounts[i].real \in Real /\ accounts[i].conn \in DOMAIN conns
               /\ accounts[i].item \in 1 .. M!Items /\ accounts[i].last \in 1 .. today
    <3>1. accounts[i] \in AccountRow
      BY <2>1, SeqIs
    <3>2. /\ accounts[i].conn \in DOMAIN conns /\ accounts[i].last \in 1 .. today
          /\ accounts[i].item \in 1 .. conns[accounts[i].conn].item
      BY <2>1 DEF AccountsAre
    <3>3. conns[accounts[i].conn].item \in 1 .. M!Items
      BY <2>2, <3>2
    <3>4. accounts[i].item \in 1 .. M!Items
      BY <2>1, <3>2, <3>3
    <3> QED
      BY <3>1, <3>2, <3>4 DEF AccountRow
  <2>4. ASSUME NEW k \in DOMAIN entries
        PROVE  /\ entries[k].account \in DOMAIN accounts /\ entries[k].lineage \in DOMAIN conns
               /\ accounts[entries[k].account].real = Moves[entries[k].move].real
               /\ entries[k].pair \in 0 .. Len(entries)
    <3>1. entries[k] \in LedgerRow /\ k \in Nat /\ k <= Len(entries) /\ Len(entries) \in Nat
      BY <2>1, SeqIs
    <3>2. entries[k].pair \in Nat /\ entries[k].pair <= k
      BY <2>1, <3>1 DEF LedgerRow, PairsAre
    <3>3. entries[k].pair \in 0 .. Len(entries)
      BY <3>1, <3>2
    <3>4. /\ entries[k].account \in DOMAIN accounts /\ entries[k].lineage \in DOMAIN conns
          /\ accounts[entries[k].account].real = Moves[entries[k].move].real
      BY <2>1 DEF RowsAre, Answers
    <3> QED
      BY <3>3, <3>4
  <2>5. \A c \in DOMAIN conns : conns[c].roster \in 1 .. today
    BY <2>1 DEF Rosters
  <2> QED
    BY <2>2, <2>3, <2>4, <2>5 DEF TypeOK, Items, M!Items
<1> QED
  BY <1>1, SummariesInvariant, PTL

\* Pairing is a matching of the legs that stand, and leaves no two that match
\* (store/transfers.py, pair_transfers), however rows came, went and changed.
THEOREM SummariesPairLegs == M!Spec => []PairsAreAMatching
<1>1. ASSUME MInv PROVE PairsAreAMatching
  <2> DEFINE S == LegRows(entries)
             legs == M!Candidates(entries)
             pairs == M!PairTransfers(legs)
             LegAt(k) == LegOf(entries, k)
  <2>1. /\ entries \in Seq(LedgerRow)
        /\ \A k \in S : k \in DOMAIN entries /\ k \in Nat /\ k # 0 /\ entries[k].pair = M!PairId(k, pairs)
    <3>1. entries \in Seq(LedgerRow) /\ PairsAre(entries)
      BY <1>1 DEF MInv, RowsAre
    <3> QED
      BY <3>1, SeqIs DEF PairsAre, LegRows
  <2>2. AreLegs(legs) /\ legs = {LegAt(k) : k \in S}
    BY <2>1, CandidatesAre
  <2>3. /\ pairs \in Matchings(legs)
        /\ \A l, m \in legs : M!Matches(l, m) => l.id \in M!Taken(pairs) \/ m.id \in M!Taken(pairs)
    BY <2>2, PairsAreMaximal
  <2>4. \A k \in S : LegAt(k).id = k
    BY DEF LegOf
  <2>5. \A l \in legs : l.id \in S /\ l = LegAt(l.id)
    <3> HIDE DEF legs, S, LegAt
    <3> QED
      BY <2>2, <2>4
  <2>6. S = Pairable /\ \A k \in S : Leg(k) = LegAt(k)
    BY DEF LegRows, Pairable, LiveRows, Leg, LegOf, DayOfRow
  <2>7. \A j, k \in S : M!Matches(LegAt(j), LegAt(k)) => M!Matches(LegAt(k), LegAt(j))
    <3>1. \A k \in S : /\ LegAt(k) \in legs /\ LegAt(k).day \in Nat /\ LegAt(k).amount \in Int
      BY <2>2 DEF AreLegs
    <3> HIDE DEF LegAt, S
    <3> QED
      BY <3>1 DEF M!Matches, M!Distance
  <2>8. \A k \in S : /\ k \notin M!Taken(pairs) => M!PairId(k, pairs) = 0
                     /\ \A p \in pairs : k \in p => /\ M!PairId(k, pairs) = M!Min(p)
                                                   /\ M!Min(p) \in p /\ \A j \in p : M!Min(p) <= j
    BY <2>1, <2>2, <2>3, PairIdIs
  <2>9. \A p \in pairs : \E j, k \in S : p = {j, k} /\ j # k /\ M!Matches(LegAt(j), LegAt(k))
    <3>1. \A p \in pairs : \E l, m \in legs : p = {l.id, m.id} /\ l.id # m.id /\ M!Matches(l, m)
      BY <2>3 DEF Matchings
    <3> HIDE DEF legs, S, LegAt, pairs
    <3> QED
      BY <2>5, <3>1
  <2>10. \A p, q \in pairs : p = q \/ p \cap q = {}
    BY <2>3 DEF Matchings
  <2>11. \A k : k \in M!Taken(pairs) <=> \E p \in pairs : k \in p
    BY DEF M!Taken
  <2> HIDE DEF S, legs, pairs, LegAt
  <2>12. ASSUME NEW k \in S, entries[k].pair # 0
         PROVE  \E j \in S \ {k} :
                  /\ {i \in S : entries[i].pair = entries[k].pair} = {j, k}
                  /\ entries[k].pair = M!Min({j, k}) /\ M!Matches(LegAt(j), LegAt(k))
    <3>1. k \in M!Taken(pairs)
      BY <2>1, <2>8, <2>12
    <3>2. PICK p \in pairs : k \in p
      BY <2>11, <3>1
    <3>3. PICK j \in S \ {k} : p = {j, k} /\ M!Matches(LegAt(j), LegAt(k))
      BY <2>7, <2>9, <3>2
    <3>4. /\ entries[k].pair = M!Min(p) /\ entries[j].pair = M!Min(p) /\ M!Min(p) \in p
      BY <2>1, <2>8, <3>2, <3>3
    <3>5. ASSUME NEW i \in S, entries[i].pair = entries[k].pair PROVE i \in {j, k}
      <4>1. i \in M!Taken(pairs)
        BY <2>1, <2>8, <2>12, <3>5
      <4>2. PICK q \in pairs : i \in q
        BY <2>11, <4>1
      <4>3. M!Min(q) = M!Min(p) /\ M!Min(q) \in q
        BY <2>1, <2>8, <3>4, <3>5, <4>2
      <4>4. p = q
        BY <2>10, <3>4, <4>3
      <4> QED
        BY <3>3, <4>2, <4>4
    <3>6. {i \in S : entries[i].pair = entries[k].pair} = {j, k}
      BY <3>3, <3>4, <3>5
    <3> QED
      BY <3>3, <3>4, <3>6
  <2>13. ASSUME NEW j \in S, NEW k \in S, entries[j].pair = 0, entries[k].pair = 0
         PROVE  ~ M!Matches(LegAt(j), LegAt(k))
    <3>1. ASSUME NEW i \in S, i \in M!Taken(pairs) PROVE entries[i].pair # 0
      <4>1. PICK p \in pairs : i \in p
        BY <2>11, <3>1
      <4>2. entries[i].pair \in p /\ p \subseteq S
        BY <2>1, <2>8, <2>9, <4>1
      <4> QED
        BY <2>1, <4>2
    <3>2. LegAt(j) \in legs /\ LegAt(k) \in legs /\ LegAt(j).id = j /\ LegAt(k).id = k
      BY <2>2, <2>4
    <3> QED
      BY <2>3, <2>13, <3>1, <3>2
  <2>14. ASSUME NEW k \in Pairable, entries[k].pair # 0
         PROVE  \E j \in Pairable \ {k} :
                  /\ {i \in Pairable : entries[i].pair = entries[k].pair} = {j, k}
                  /\ entries[k].pair = M!Min({j, k}) /\ M!Matches(Leg(j), Leg(k))
    <3>1. k \in S /\ S = Pairable
      BY <2>6
    <3>2. PICK j \in S \ {k} :
            /\ {i \in S : entries[i].pair = entries[k].pair} = {j, k}
            /\ entries[k].pair = M!Min({j, k}) /\ M!Matches(LegAt(j), LegAt(k))
      BY <2>12, <2>14, <3>1
    <3>3. {i \in Pairable : entries[i].pair = entries[k].pair} = {j, k}
      BY <3>1, <3>2
    <3>4. Leg(j) = LegAt(j) /\ Leg(k) = LegAt(k)
      BY <2>6, <3>1
    <3> QED
      BY <3>1, <3>2, <3>3, <3>4
  <2>15. ASSUME NEW j \in Pairable, NEW k \in Pairable, entries[j].pair = 0, entries[k].pair = 0
         PROVE  ~ M!Matches(Leg(j), Leg(k))
    BY <2>6, <2>13, <2>15
  <2>16. /\ \A l, m : M!Matches(l, m) <=> Matches(l, m)
         /\ \A p : M!Min(p) = Min(p)
    BY DEF M!Matches, Matches, M!Distance, Distance, M!Min, Min
  <2> QED
    BY <2>14, <2>15, <2>16 DEF PairsAreAMatching
<1> QED
  BY <1>1, SummariesInvariant, PTL

-----------------------------------------------------------------------------
(* What a summary counts *)

\* Row s is of a newer generation of the account of row k, and k gives way to it.
Newer(s, k) == \/ entries[s].lineage > entries[k].lineage
               \/ /\ entries[s].lineage = entries[k].lineage
                  /\ entries[s].account > entries[k].account
RealOf(k) == accounts[entries[k].account].real
Gives(s, k) ==
    /\ SameIdentity(entries[s].account, entries[k].account)
    /\ Newer(s, k)
    /\ entries[s].account = entries[k].account \/ ~ StillReported(entries[k].account)
SameKey(j, k) == entries[j].account = entries[k].account /\ entries[j].lineage = entries[k].lineage

\* A row is not counted where rows of a newer generation lie about its day.
Passed(k) == \E s, e \in LiveRows :
                /\ SameKey(s, e) /\ Gives(s, k)
                /\ DayOfRow(s) <= DayOfRow(k) /\ DayOfRow(k) <= DayOfRow(e)

\* A row, its account, its connection and its Item.
LEMMA LiveRowsAre ==
    ASSUME MInv
    PROVE  /\ IsFiniteSet(LiveRows) /\ LiveRows \subseteq DOMAIN entries
           /\ \A k \in DOMAIN entries :
                /\ k \in Nat /\ entries[k].move \in DOMAIN Moves /\ DayOfRow(k) \in Nat
                /\ entries[k].account \in DOMAIN accounts /\ entries[k].account \in Nat
                /\ entries[k].lineage \in DOMAIN conns /\ entries[k].lineage \in Nat
                /\ RealOf(k) = Moves[entries[k].move].real /\ entries[k].gen \in DOMAIN owed
<1>1. /\ RowsAre(conns, accounts, entries, M!Items)
      /\ entries \in Seq(LedgerRow) /\ accounts \in Seq(AccountRow) /\ conns \in Seq(Connection)
      /\ owed \in Seq(SUBSET DOMAIN Moves)
  BY DEF MInv, RowsAre, AccountsAre, LinksAre, OwedAre
<1>2. /\ \A k \in DOMAIN entries : k \in Nat /\ entries[k] \in LedgerRow
      /\ DOMAIN entries = 1 .. Len(entries) /\ Len(entries) \in Nat
      /\ \A i \in DOMAIN accounts : i \in Nat
      /\ \A c \in DOMAIN conns : c \in Nat
      /\ DOMAIN owed = 1 .. Len(owed)
  BY <1>1, SeqIs
<1>3. ASSUME NEW k \in DOMAIN entries
      PROVE  /\ k \in Nat /\ entries[k].move \in DOMAIN Moves /\ DayOfRow(k) \in Nat
             /\ entries[k].account \in DOMAIN accounts /\ entries[k].account \in Nat
             /\ entries[k].lineage \in DOMAIN conns /\ entries[k].lineage \in Nat
             /\ RealOf(k) = Moves[entries[k].move].real /\ entries[k].gen \in DOMAIN owed
  <2>1. k \in Nat /\ entries[k].move \in DOMAIN Moves
    BY <1>2 DEF LedgerRow
  <2>2. DayOfRow(k) \in Nat
    BY <2>1, MoveIs DEF DayOfRow
  <2>3. /\ entries[k].account \in DOMAIN accounts /\ entries[k].lineage \in DOMAIN conns
        /\ RealOf(k) = Moves[entries[k].move].real /\ entries[k].gen \in DOMAIN owed
    BY <1>1, <1>2 DEF RowsAre, Answers, RealOf, M!Items
  <2> QED
    BY <1>2, <2>1, <2>2, <2>3
<1>4. IsFiniteSet(LiveRows) /\ LiveRows \subseteq DOMAIN entries
  <2>1. IsFiniteSet(1 .. Len(entries)) /\ LiveRows \subseteq 1 .. Len(entries)
    BY <1>2, FS_Interval DEF LiveRows
  <2> QED
    BY <1>2, <2>1, FS_Subset
<1> QED
  BY <1>3, <1>4

\* The days an account has rows of under a connection, and the span of them.
DaysOf(k) == {DayOfRow(j) : j \in {i \in LiveRows : SameKey(i, k)}}
SpanOf(k) == [account |-> entries[k].account, lineage |-> entries[k].lineage,
              start |-> Min(DaysOf(k)), end |-> Max(DaysOf(k))]

\* Each span covers the days of the rows under its key, and no longer ones.
LEMMA CoverageIs ==
    ASSUME MInv
    PROVE  /\ Coverage = {SpanOf(k) : k \in LiveRows}
           /\ \A k \in LiveRows :
                /\ SpanOf(k).start <= DayOfRow(k) /\ DayOfRow(k) <= SpanOf(k).end
                /\ \E s \in LiveRows : SameKey(s, k) /\ DayOfRow(s) = SpanOf(k).start
                /\ \E e \in LiveRows : SameKey(e, k) /\ DayOfRow(e) = SpanOf(k).end
                /\ SpanOf(k).account = entries[k].account /\ SpanOf(k).lineage = entries[k].lineage
                /\ SpanOf(k).start \in Nat /\ SpanOf(k).end \in Nat
<1>1. /\ IsFiniteSet(LiveRows)
      /\ \A k \in LiveRows : DayOfRow(k) \in Nat
  BY LiveRowsAre
<1> DEFINE keys == {<<entries[k].account, entries[k].lineage>> : k \in LiveRows}
           days(key) == {DayOfRow(k) : k \in {j \in LiveRows :
                                           <<entries[j].account, entries[j].lineage>> = key}}
           span(key) == [account |-> key[1], lineage |-> key[2],
                         start |-> Min(days(key)), end |-> Max(days(key))]
<1>2. Coverage = {span(key) : key \in keys}
  BY DEF Coverage
<1>3. \A k \in LiveRows : span(<<entries[k].account, entries[k].lineage>>) = SpanOf(k)
  <2> SUFFICES ASSUME NEW k \in LiveRows
               PROVE  span(<<entries[k].account, entries[k].lineage>>) = SpanOf(k)
    OBVIOUS
  <2>1. {j \in LiveRows : <<entries[j].account, entries[j].lineage>>
                            = <<entries[k].account, entries[k].lineage>>}
        = {i \in LiveRows : SameKey(i, k)}
    BY DEF SameKey
  <2>2. days(<<entries[k].account, entries[k].lineage>>) = DaysOf(k)
    BY <2>1 DEF DaysOf
  <2> HIDE DEF days
  <2> QED
    BY <2>2 DEF SpanOf
<1>4. Coverage = {SpanOf(k) : k \in LiveRows}
  <2> HIDE DEF span
  <2> QED
    BY <1>2, <1>3
<1>5. ASSUME NEW k \in LiveRows
      PROVE  /\ SpanOf(k).start <= DayOfRow(k) /\ DayOfRow(k) <= SpanOf(k).end
             /\ \E s \in LiveRows : SameKey(s, k) /\ DayOfRow(s) = SpanOf(k).start
             /\ \E e \in LiveRows : SameKey(e, k) /\ DayOfRow(e) = SpanOf(k).end
             /\ SpanOf(k).account = entries[k].account /\ SpanOf(k).lineage = entries[k].lineage
             /\ SpanOf(k).start \in Nat /\ SpanOf(k).end \in Nat
  <2> DEFINE mine == {i \in LiveRows : SameKey(i, k)}
             day == [j \in mine |-> DayOfRow(j)]
             D == DaysOf(k)
  <2>1. IsFiniteSet(mine) /\ k \in mine
    <3>1. k \in mine
      BY DEF SameKey
    <3>2. mine \subseteq LiveRows
      OBVIOUS
    <3> QED
      BY <1>1, <3>1, <3>2, FS_Subset
  <2>2. IsFiniteSet(D)
    <3>1. day \in Surjection(mine, D)
      BY DEF Surjection, DaysOf
    <3> HIDE DEF mine, day, D
    <3> QED
      BY <2>1, <3>1, FS_Surjection
  <2>3. /\ D \in SUBSET Nat /\ DayOfRow(k) \in D
        /\ \A d \in D : \E j \in LiveRows : SameKey(j, k) /\ DayOfRow(j) = d
    BY <1>1, <2>1 DEF DaysOf
  <2> HIDE DEF D
  <2>4. /\ Max(D) \in D /\ \A j \in D : Max(D) >= j
        /\ Min(D) \in D /\ \A j \in D : Min(D) <= j
    BY <2>2, <2>3, Extremes DEF Max, Min
  <2>5. SpanOf(k) = [account |-> entries[k].account, lineage |-> entries[k].lineage,
                     start |-> Min(D), end |-> Max(D)]
    BY DEF SpanOf, D
  <2>6. Max(D) \in Nat /\ DayOfRow(k) \in Nat /\ DayOfRow(k) <= Max(D)
    BY <2>3, <2>4
  <2>7. /\ SpanOf(k).account = entries[k].account /\ SpanOf(k).lineage = entries[k].lineage
        /\ SpanOf(k).start = Min(D) /\ SpanOf(k).end = Max(D)
    BY <2>5
  <2>8. /\ \E s \in LiveRows : SameKey(s, k) /\ DayOfRow(s) = SpanOf(k).start
        /\ \E e \in LiveRows : SameKey(e, k) /\ DayOfRow(e) = SpanOf(k).end
    BY <2>3, <2>4, <2>7
  <2> QED
    BY <2>3, <2>4, <2>6, <2>7, <2>8
<1> QED
  BY <1>4, <1>5

\* counts_once: a row is counted unless a newer generation answers for its day.
LEMMA CountedIs ==
    ASSUME MInv
    PROVE  /\ Counted \subseteq LiveRows
           /\ \A k \in LiveRows : k \in Counted <=> ~ Passed(k)
<1> DEFINE gives(newer, older) ==
               /\ SameIdentity(newer.account, older.account) /\ Supersedes(newer, older)
               /\ Max({newer.start, older.start}) <= Min({newer.end, older.end})
           within(p) == [account |-> p[2].account, lineage |-> p[2].lineage,
                         start |-> Max({p[1].start, p[2].start}), end |-> Min({p[1].end, p[2].end})]
           lies(k, span) == /\ entries[k].account = span.account /\ entries[k].lineage = span.lineage
                            /\ DayOfRow(k) \in span.start .. span.end
<1>1. Counted = {k \in LiveRows : ~ \E span \in SupersededSpans : lies(k, span)}
  BY DEF Counted, CountsOnce
<1>2. \A span : span \in SupersededSpans <=>
         \E p \in Coverage \X Coverage : gives(p[1], p[2]) /\ span = within(p)
  BY DEF SupersededSpans
<1>3. /\ Coverage = {SpanOf(k) : k \in LiveRows}
      /\ \A k \in LiveRows :
           /\ SpanOf(k).start <= DayOfRow(k) /\ DayOfRow(k) <= SpanOf(k).end
           /\ \E s \in LiveRows : SameKey(s, k) /\ DayOfRow(s) = SpanOf(k).start
           /\ \E e \in LiveRows : SameKey(e, k) /\ DayOfRow(e) = SpanOf(k).end
           /\ SpanOf(k).account = entries[k].account /\ SpanOf(k).lineage = entries[k].lineage
           /\ SpanOf(k).start \in Nat /\ SpanOf(k).end \in Nat
  BY CoverageIs
<1>4. \A k \in LiveRows : DayOfRow(k) \in Nat
  BY LiveRowsAre
<1>5. \A a, b, d \in Nat : d <= Min({a, b}) <=> d <= a /\ d <= b
  BY LeastOfTwo
<1>6. \A a, b, d \in Nat : Max({a, b}) <= d <=> a <= d /\ b <= d
  BY GreatestOfTwo
<1> HIDE DEF gives, within
<1>7. ASSUME NEW k \in LiveRows, NEW span \in SupersededSpans, lies(k, span)
      PROVE  Passed(k)
  <2>1. PICK p \in Coverage \X Coverage : gives(p[1], p[2]) /\ span = within(p)
    BY <1>2
  <2>2. PICK a \in LiveRows, b \in LiveRows : p[1] = SpanOf(a) /\ p[2] = SpanOf(b)
    BY <1>3
  <2>3. /\ entries[k].account = p[2].account /\ entries[k].lineage = p[2].lineage
        /\ DayOfRow(k) \in Max({p[1].start, p[2].start}) .. Min({p[1].end, p[2].end})
    BY <1>7, <2>1 DEF within
  <2>4. SameKey(k, b)
    BY <1>3, <2>2, <2>3 DEF SameKey
  <2>5. Max({SpanOf(a).start, SpanOf(b).start}) <= DayOfRow(k)
        /\ DayOfRow(k) <= Min({SpanOf(a).end, SpanOf(b).end})
    BY <2>2, <2>3
  <2>6. SpanOf(a).start <= DayOfRow(k) /\ DayOfRow(k) <= SpanOf(a).end
    BY <1>3, <1>4, <1>5, <1>6, <2>5
  <2>7. SameIdentity(SpanOf(a).account, SpanOf(b).account) /\ Supersedes(SpanOf(a), SpanOf(b))
    BY <2>1, <2>2 DEF gives
  <2>8. PICK s \in LiveRows : SameKey(s, a) /\ DayOfRow(s) = SpanOf(a).start
    BY <1>3
  <2>9. PICK e \in LiveRows : SameKey(e, a) /\ DayOfRow(e) = SpanOf(a).end
    BY <1>3
  <2>10. /\ SpanOf(a).account = entries[s].account /\ SpanOf(a).lineage = entries[s].lineage
         /\ SpanOf(b).account = entries[k].account /\ SpanOf(b).lineage = entries[k].lineage
    BY <1>3, <2>4, <2>8 DEF SameKey
  <2>11. Gives(s, k)
    BY <2>7, <2>10 DEF Supersedes, NewerGeneration, Gives, Newer
  <2>12. SameKey(s, e)
    BY <2>8, <2>9 DEF SameKey
  <2> QED
    BY <2>6, <2>8, <2>9, <2>11, <2>12 DEF Passed
<1>8. ASSUME NEW k \in LiveRows, Passed(k)
      PROVE  \E span \in SupersededSpans : lies(k, span)
  <2>1. PICK s \in LiveRows, e \in LiveRows :
           /\ SameKey(s, e) /\ Gives(s, k)
           /\ DayOfRow(s) <= DayOfRow(k) /\ DayOfRow(k) <= DayOfRow(e)
    BY <1>8 DEF Passed
  <2> DEFINE a == SpanOf(s)
             b == SpanOf(k)
             p == <<a, b>>
  <2>2. SpanOf(e) = a
    BY <2>1 DEF SpanOf, DaysOf, SameKey
  <2>3. /\ a.start <= DayOfRow(k) /\ DayOfRow(k) <= a.end
        /\ b.start <= DayOfRow(k) /\ DayOfRow(k) <= b.end
        /\ a.start \in Nat /\ a.end \in Nat /\ b.start \in Nat /\ b.end \in Nat
        /\ DayOfRow(k) \in Nat
    <3>1. /\ a.start <= DayOfRow(s) /\ a.start \in Nat /\ a.end \in Nat
          /\ b.start <= DayOfRow(k) /\ DayOfRow(k) <= b.end /\ b.start \in Nat /\ b.end \in Nat
      BY <1>3
    <3>2. DayOfRow(e) <= a.end
      BY <1>3, <2>2
    <3>3. DayOfRow(s) \in Nat /\ DayOfRow(k) \in Nat /\ DayOfRow(e) \in Nat
      BY <1>4
    <3> HIDE DEF a, b
    <3> QED
      BY <2>1, <3>1, <3>2, <3>3
  <2>4. /\ a.account = entries[s].account /\ a.lineage = entries[s].lineage
        /\ b.account = entries[k].account /\ b.lineage = entries[k].lineage
    BY <1>3
  <2>5. SameIdentity(a.account, b.account) /\ Supersedes(a, b)
    <3> HIDE DEF a, b
    <3> QED
      BY <2>1, <2>4 DEF Supersedes, NewerGeneration, Gives, Newer
  <2>6. p \in Coverage \X Coverage /\ p[1] = a /\ p[2] = b
    BY <1>3
  <2> HIDE DEF a, b, p
  <2>7. Max({a.start, b.start}) <= DayOfRow(k) /\ DayOfRow(k) <= Min({a.end, b.end})
    BY <1>5, <1>6, <2>3
  <2>8. Max({a.start, b.start}) \in Nat /\ Min({a.end, b.end}) \in Nat
    BY <2>3, LeastOfTwo, GreatestOfTwo
  <2>9. gives(p[1], p[2])
    BY <2>3, <2>5, <2>6, <2>7, <2>8 DEF gives
  <2>10. within(p) \in SupersededSpans
    BY <1>2, <2>6, <2>9
  <2>11. lies(k, within(p))
    BY <2>3, <2>4, <2>6, <2>7, <2>8 DEF within
  <2> QED
    BY <2>10, <2>11
<1> HIDE DEF lies
<1> QED
  BY <1>1, <1>7, <1>8

\* What is known of a row of an account that stands.
RowFacts(r) ==
    \A k \in RowsOf(r) :
        /\ k \in LiveRows /\ RealOf(k) = r /\ Bank[r] = conns[entries[k].lineage].bank
        /\ r \in persists \/ accounts[entries[k].account].conn = entries[k].lineage

\* What the invariant knows of the rows of an account.
LEMMA RowsOfAre ==
    ASSUME MInv, NEW r
    PROVE  RowFacts(r) /\ \A m : Moves[m].real = r => RowsOfMove(m) \subseteq RowsOf(r)
<1>1. \A k \in RowsOf(r) : k \in LiveRows /\ Moves[entries[k].move].real = r /\ k \in DOMAIN entries
  BY DEF RowsOf, LiveRows
<1>2. \A k \in RowsOf(r) : /\ Bank[r] = conns[entries[k].lineage].bank /\ RealOf(k) = r
                           /\ r \in persists \/ accounts[entries[k].account].conn = entries[k].lineage
  BY <1>1, LiveRowsAre DEF MInv, RowsAre
<1>3. ASSUME NEW m, Moves[m].real = r PROVE RowsOfMove(m) \subseteq RowsOf(r)
  BY <1>3 DEF RowsOfMove, RowsOf
<1> QED
  BY <1>1, <1>2, <1>3 DEF RowFacts

\* Of two rows of an account under two keys one is of the newer generation.
LEMMA NewerIsTotal ==
    ASSUME MInv, NEW j \in DOMAIN entries, NEW k \in DOMAIN entries
    PROVE  /\ SameKey(j, k) \/ Newer(j, k) \/ Newer(k, j)
           /\ Newer(j, k) => ~ Newer(k, j) /\ ~ SameKey(j, k)
<1>1. /\ entries[j].account \in Nat /\ entries[j].lineage \in Nat
      /\ entries[k].account \in Nat /\ entries[k].lineage \in Nat
  BY LiveRowsAre
<1> QED
  BY <1>1 DEF SameKey, Newer

\* The older of two generations of an account gives way to the newer.
LEMMA OlderGivesWay ==
    ASSUME MInv, NEW r, ~ NotYetPassedOver(r), ~ Unrecognised(r),
           NEW s \in RowsOf(r), NEW k \in RowsOf(r), Newer(s, k)
    PROVE  Gives(s, k)
<1> DEFINE i == entries[k].account
           j == entries[s].account
<1>1. /\ RealOf(s) = r /\ RealOf(k) = r
      /\ Bank[r] = conns[entries[k].lineage].bank /\ Bank[r] = conns[entries[s].lineage].bank
      /\ r \in persists \/ accounts[i].conn = entries[k].lineage
      /\ r \in persists \/ accounts[j].conn = entries[s].lineage
      /\ s \in DOMAIN entries /\ k \in DOMAIN entries
  BY RowsOfAre, LiveRowsAre DEF RowFacts
<1>2. /\ i \in DOMAIN accounts /\ j \in DOMAIN accounts /\ i \in Nat /\ j \in Nat
      /\ accounts[i].real = r /\ accounts[j].real = r
      /\ entries[k].lineage \in DOMAIN conns /\ entries[s].lineage \in DOMAIN conns
      /\ entries[k].lineage \in Nat /\ entries[s].lineage \in Nat
  BY <1>1, LiveRowsAre DEF RealOf
<1>3. /\ LinksAre(conns, M!Items) /\ AccountsAre(conns, accounts, today) /\ Rosters /\ today \in Nat
  BY DEF MInv
<1>4. ASSUME i # j, StillReported(i) PROVE FALSE
  <2>1. r \notin persists /\ accounts[i].conn = entries[k].lineage /\ accounts[j].conn = entries[s].lineage
    <3>1. i < j \/ j < i
      BY <1>2, <1>4
    <3>2. \A a, b \in DOMAIN accounts : a < b /\ accounts[a].real = accounts[b].real =>
             accounts[a].real \notin persists
      BY <1>3 DEF AccountsAre
    <3>3. r \notin persists
      BY <1>2, <3>1, <3>2
    <3> QED
      BY <1>1, <3>3
  <2>2. /\ ~ conns[entries[k].lineage].retired
        /\ \/ conns[entries[k].lineage].roster = 0
           \/ accounts[i].last >= conns[entries[k].lineage].roster
    BY <1>4, <2>1 DEF StillReported
  <2>3. CASE entries[s].lineage > entries[k].lineage
    BY <1>1, <1>2, <1>3, <2>2, <2>3 DEF LinksAre
  <2>4. CASE entries[s].lineage = entries[k].lineage /\ j > i
    <3>1. accounts[i].last <= accounts[j].last
      BY <1>2, <1>3, <2>1, <2>4 DEF AccountsAre
    <3>2. /\ accounts[i].last \in Nat /\ accounts[j].last \in Nat
          /\ conns[entries[k].lineage].roster \in Nat /\ conns[entries[k].lineage].roster # 0
      BY <1>2, <1>3 DEF AccountsAre, Rosters
    <3>3. accounts[j].last >= conns[entries[k].lineage].roster
      BY <2>2, <3>1, <3>2
    <3>4. StillReported(j)
      BY <2>1, <2>2, <2>4, <3>3 DEF StillReported
    <3> QED
      BY <1>2, <1>4, <3>4 DEF NotYetPassedOver
  <2> QED
    BY <2>3, <2>4 DEF Newer
<1>5. SameIdentity(j, i)
  BY <1>2 DEF Unrecognised
<1> QED
  BY <1>1, <1>4, <1>5 DEF Gives

\* Of the rows of a movement no more than one is counted.
LEMMA CountedAtMostOnce ==
    ASSUME MInv, NEW r, ~ NotYetPassedOver(r), ~ Unrecognised(r), ~ Indistinct(r),
           NEW m, Moves[m].real = r,
           NEW j \in RowsOfMove(m) \cap Counted, NEW k \in RowsOfMove(m) \cap Counted
    PROVE  j = k
<1> SUFFICES ASSUME j # k PROVE FALSE
  OBVIOUS
<1>1. j \in RowsOf(r) /\ k \in RowsOf(r) /\ entries[j].move = m /\ entries[k].move = m
  BY RowsOfAre DEF RowsOfMove
<1>2. /\ j \in LiveRows /\ k \in LiveRows /\ j \in DOMAIN entries /\ k \in DOMAIN entries
      /\ DayOfRow(j) = DayOfRow(k) /\ DayOfRow(j) \in Nat
  BY <1>1, RowsOfAre, LiveRowsAre DEF RowFacts, DayOfRow
<1>3. entries[j].gen # entries[k].gen
  BY <1>1, <1>2 DEF MInv, Delivery
<1>4. ~ SameKey(j, k)
  BY <1>1, <1>3 DEF Indistinct, SameKey
<1>5. ~ Passed(j) /\ ~ Passed(k)
  BY <1>2, CountedIs
<1>6. \A a, b \in {j, k} : Newer(a, b) => Passed(b)
  <2> SUFFICES ASSUME NEW a \in {j, k}, NEW b \in {j, k}, Newer(a, b) PROVE Passed(b)
    OBVIOUS
  <2>1. Gives(a, b)
    BY <1>1, OlderGivesWay
  <2>2. SameKey(a, a) /\ DayOfRow(a) <= DayOfRow(b) /\ DayOfRow(b) <= DayOfRow(a)
    BY <1>2 DEF SameKey
  <2> QED
    BY <1>2, <2>1, <2>2 DEF Passed
<1> QED
  BY <1>2, <1>4, <1>5, <1>6, NewerIsTotal

\* Two rows of an Item for one account are under one key.
LEMMA OneKeyPerItem ==
    ASSUME MInv, NEW r, NEW s \in DOMAIN entries, NEW x \in DOMAIN entries,
           entries[s].gen = entries[x].gen, RealOf(s) = r, RealOf(x) = r
    PROVE  SameKey(s, x)
<1> DEFINE g == entries[s].gen
           i == entries[s].account
           j == entries[x].account
<1>1. entries[s].lineage = entries[x].lineage
  BY DEF MInv, RowsAre
<1>2. /\ i \in DOMAIN accounts /\ j \in DOMAIN accounts /\ i \in Nat /\ j \in Nat
      /\ accounts[i].real = r /\ accounts[j].real = r
  BY LiveRowsAre DEF RealOf
<1>3. /\ r \in persists \/ accounts[i].item = g
      /\ r \in persists \/ accounts[j].item = g
  <2>1. /\ Answers(accounts, entries[s].gen, Moves[entries[s].move].real, i)
        /\ Answers(accounts, entries[x].gen, Moves[entries[x].move].real, j)
    BY DEF MInv, RowsAre
  <2> QED
    BY <1>2, <2>1 DEF Answers
<1>4. ASSUME i # j PROVE FALSE
  <2>1. \A a, b \in DOMAIN accounts : a < b /\ accounts[a].real = accounts[b].real =>
             /\ accounts[a].real \notin persists /\ accounts[a].item < accounts[b].item
             /\ accounts[a].item \in Nat /\ accounts[b].item \in Nat
    <3>1. AccountsAre(conns, accounts, today) /\ accounts \in Seq(AccountRow)
      BY DEF MInv, AccountsAre
    <3>2. \A a \in DOMAIN accounts : accounts[a].item \in Nat
      <4>1. \A a \in DOMAIN accounts : accounts[a] \in AccountRow
        BY <3>1, SeqIs
      <4> QED
        BY <4>1 DEF AccountRow
    <3> QED
      BY <3>1, <3>2 DEF AccountsAre
  <2>2. i < j \/ j < i
    BY <1>2, <1>4
  <2> HIDE DEF i, j, g
  <2> QED
    BY <1>2, <1>3, <2>1, <2>2
<1> QED
  BY <1>1, <1>4 DEF SameKey

\* Of the rows of a movement one is of the newest generation.
LEMMA NewestRow ==
    ASSUME MInv, NEW r, ~ Indistinct(r), NEW m, Moves[m].real = r, RowsOfMove(m) # {}
    PROVE  \E k \in RowsOfMove(m) : \A x \in RowsOfMove(m) \ {k} : Newer(k, x)
<1> DEFINE S == RowsOfMove(m)
           R == {p \in S \X S : Newer(p[2], p[1])}
<1>1. /\ S \subseteq RowsOf(r) /\ S \subseteq LiveRows /\ S \subseteq DOMAIN entries
      /\ IsFiniteSet(S)
  <2>1. S \subseteq RowsOf(r) /\ S \subseteq LiveRows
    BY RowsOfAre DEF RowsOfMove
  <2> QED
    BY <2>1, LiveRowsAre, FS_Subset
<1>2. \A x, y \in S : <<x, y>> \in R <=> Newer(y, x)
  OBVIOUS
<1>3. ASSUME NEW x \in S, NEW y \in S, x # y PROVE Newer(y, x) \/ Newer(x, y)
  <2>1. entries[x].move = m /\ entries[y].move = m
    BY DEF RowsOfMove
  <2>2. entries[x].gen # entries[y].gen
    BY <1>1, <1>3, <2>1 DEF MInv, Delivery
  <2>3. ~ SameKey(x, y)
    BY <1>1, <2>2 DEF Indistinct, SameKey
  <2> QED
    BY <1>1, <2>3, NewerIsTotal
<1>4. ASSUME NEW x \in S, NEW y \in S, NEW z \in S, Newer(y, x), Newer(z, y) PROVE Newer(z, x)
  <2>1. \A k \in S : entries[k].account \in Nat /\ entries[k].lineage \in Nat
    BY <1>1, LiveRowsAre
  <2> QED
    BY <1>4, <2>1 DEF Newer
<1> HIDE DEF S, R
<1>5. PICK k \in S : \A y \in S \ {k} : <<y, k>> \in R
  <2>1. \A x, y \in S : x # y => <<x, y>> \in R \/ <<y, x>> \in R
    BY <1>2, <1>3
  <2>2. \A x, y, z \in S : <<x, y>> \in R /\ <<y, z>> \in R => <<x, z>> \in R
    BY <1>2, <1>4
  <2>3. S # {}
    BY DEF S
  <2> QED
    BY <1>1, <2>1, <2>2, <2>3, LastExists
<1> QED
  BY <1>2, <1>5 DEF S

\* A newer generation that lies about the newest row of a movement has a row of
\* that movement itself: its Item delivered it, or holds part of the day only.
LEMMA NewestIsCounted ==
    ASSUME MInv, NEW r, ~ TwinUnlisted(r), ~ Indistinct(r), Whole(r), r \in Real,
           NEW m \in DOMAIN Moves, Moves[m].real = r, ~ WithdrawnSomewhere(m),
           NEW k \in RowsOfMove(m), \A x \in RowsOfMove(m) \ {k} : Newer(k, x)
    PROVE  k \in Counted
<1>1. /\ k \in RowsOf(r) /\ k \in LiveRows /\ k \in DOMAIN entries /\ entries[k].move = m
      /\ RealOf(k) = r /\ DayOfRow(k) = Moves[m].day
  BY RowsOfAre, LiveRowsAre DEF RowFacts, RowsOfMove, DayOfRow
<1> SUFFICES ASSUME Passed(k) PROVE FALSE
  BY <1>1, CountedIs
<1>2. PICK s \in LiveRows : Gives(s, k) /\ DayOfRow(s) <= DayOfRow(k)
  BY DEF Passed
<1>3. /\ s \in DOMAIN entries /\ entries[s].move \in DOMAIN Moves
      /\ RealOf(s) = Moves[entries[s].move].real
      /\ entries[s].account \in DOMAIN accounts /\ entries[k].account \in DOMAIN accounts
      /\ DayOfRow(s) = Moves[entries[s].move].day
  BY <1>1, LiveRowsAre DEF DayOfRow
<1>4. RealOf(s) = r
  <2> SUFFICES ASSUME RealOf(s) # r PROVE FALSE
    OBVIOUS
  <2>1. SameIdentity(entries[k].account, entries[s].account)
    BY <1>2 DEF Gives, SameIdentity
  <2>2. entries[s].account # entries[k].account
    BY <1>1 DEF RealOf
  <2>3. ~ StillReported(entries[k].account)
    BY <1>2, <2>2 DEF Gives
  <2> QED
    BY <1>1, <1>3, <2>1, <2>3 DEF TwinUnlisted, RealOf
<1>5. s \in RowsOf(r)
  BY <1>3, <1>4 DEF RowsOf
<1>6. Comes(entries, owed, entries[s].gen, m)
  BY <1>3, <1>4 DEF MInv, Delivery
<1>7. CASE Came(entries, entries[s].gen, m)
  <2>1. PICK x \in DOMAIN entries : entries[x].gen = entries[s].gen /\ entries[x].move = m
    BY <1>7 DEF Came
  <2>2. x \in RowsOfMove(m) /\ RealOf(x) = r
    BY <2>1, LiveRowsAre DEF WithdrawnSomewhere, RowsOfMove, LiveRows
  <2>3. SameKey(s, x)
    BY <1>3, <1>4, <2>1, <2>2, OneKeyPerItem
  <2>4. Newer(x, k)
    BY <1>2, <2>3 DEF Gives, Newer, SameKey
  <2>5. x # k
    BY <1>1, <2>4, NewerIsTotal
  <2>6. Newer(k, x)
    BY <2>2, <2>5
  <2> QED
    BY <1>1, <2>1, <2>4, <2>6, NewerIsTotal
<1>8. CASE m \in owed[entries[s].gen]
  <2>1. m < entries[s].move /\ \A x \in DOMAIN entries : entries[x].gen = entries[s].gen => m < entries[x].move
    BY <1>3, <1>8 DEF MInv, Delivery
  <2>2. m \in Nat /\ Moves[m].day \in Nat /\ Moves[entries[s].move].day \in Nat
        /\ Moves[m].day <= Moves[entries[s].move].day
    BY <1>3, <2>1, MoveIs
  <2>3. Moves[m].day = Moves[entries[s].move].day
    BY <1>1, <1>2, <1>3, <2>2
  <2> DEFINE g == entries[s].gen
             moves == {l \in DOMAIN Moves : Moves[l].real = r}
             held == moves \cap {entries[x].move : x \in {j \in DOMAIN entries : entries[j].gen = g}}
  <2>4. m \in moves \ held
    BY <2>1, <2>2
  <2>5. entries[s].move \in held
    BY <1>3, <1>4
  <2>6. g \in {entries[x].gen : x \in RowsOf(r)}
    BY <1>5
  <2>7. \A a \in moves \ held, b \in held : Moves[b].day # Moves[a].day
    BY <2>6 DEF Whole
  <2> HIDE DEF held, moves
  <2> QED
    BY <2>3, <2>4, <2>5, <2>7
<1> QED
  BY <1>6, <1>7, <1>8 DEF Comes

\* A movement is counted once, by any sequence of enrolments, re-links and
\* retirements, unless the store cannot tell (store/lineage.py,
\* superseded_spans).
THEOREM SummariesCountOnce == M!Spec => []MovementCountsOnce
<1>1. ASSUME MInv PROVE MovementCountsOnce
  <2> DEFINE Once(r, m) ==
        /\ Cardinality(RowsOfMove(m) \cap Counted) <= 1
        /\ RowsOfMove(m) # {} /\ ~ WithdrawnSomewhere(m) => RowsOfMove(m) \cap Counted # {}
  <2>1. ASSUME NEW r \in Real, ~ Explained(r), NEW m \in DOMAIN Moves, Moves[m].real = r
        PROVE  Once(r, m)
    <3>1. /\ ~ NotYetPassedOver(r) /\ ~ TwinUnlisted(r) /\ ~ Unrecognised(r)
          /\ ~ Indistinct(r) /\ Whole(r)
      BY <2>1 DEF Explained
    <3>2. Cardinality(RowsOfMove(m) \cap Counted) <= 1
      <4> DEFINE S == RowsOfMove(m) \cap Counted
      <4>1. ASSUME NEW j \in S, NEW k \in S PROVE j = k
        BY <1>1, <2>1, <3>1, CountedAtMostOnce
      <4> HIDE DEF S
      <4>2. CASE S = {}
        <5>1. Cardinality(S) = 0
          BY <4>2, FS_EmptySet
        <5> QED
          BY <5>1 DEF S
      <4>3. CASE S # {}
        <5>1. PICK k \in S : TRUE
          BY <4>3
        <5>2. S = {k}
          BY <4>1, <5>1
        <5>3. Cardinality(S) = 1
          BY <5>2, FS_Singleton
        <5> QED
          BY <5>3 DEF S
      <4> QED
        BY <4>2, <4>3
    <3>3. ASSUME RowsOfMove(m) # {}, ~ WithdrawnSomewhere(m)
          PROVE  RowsOfMove(m) \cap Counted # {}
      <4>1. PICK k \in RowsOfMove(m) : \A x \in RowsOfMove(m) \ {k} : Newer(k, x)
        BY <1>1, <2>1, <3>1, <3>3, NewestRow
      <4>2. k \in Counted
        BY <1>1, <2>1, <3>1, <3>3, <4>1, NewestIsCounted
      <4> QED
        BY <4>1, <4>2
    <3> QED
      BY <3>2, <3>3
  <2> HIDE DEF Once
  <2>2. \A r \in Real : Explained(r) \/ \A m \in {n \in DOMAIN Moves : Moves[n].real = r} : Once(r, m)
    BY <2>1
  <2> QED
    BY <2>2 DEF MovementCountsOnce, Once
<1> QED
  BY <1>1, SummariesInvariant, PTL

\* What a row adds to the sums of its group.
LEMMA FlowsAre ==
    ASSUME MInv
    PROVE  \A k \in DOMAIN entries :
             /\ Inflow[k] = Max({Moves[entries[k].move].amount, 0}) /\ Inflow[k] \in Int
             /\ Outflow[k] = Max({-Moves[entries[k].move].amount, 0}) /\ Outflow[k] \in Int
<1>1. \A a \in Int : Max({a, 0}) \in Int
  BY DEF Max
<1>2. \A k \in DOMAIN entries : /\ Moves[entries[k].move].amount \in Int
                                /\ -Moves[entries[k].move].amount \in Int
  BY LiveRowsAre, MoveIs
<1>3. \A k \in DOMAIN entries : /\ Inflow[k] = Max({Moves[entries[k].move].amount, 0})
                                /\ Outflow[k] = Max({-Moves[entries[k].move].amount, 0})
  BY DEF Inflow, Outflow
<1> QED
  BY <1>1, <1>2, <1>3

\* money_summary: by whatever the rows are grouped, the totals are of the rows.
LEMMA GroupsAddUp ==
    ASSUME MInv, NEW summed \in SUBSET DOMAIN entries, IsFiniteSet(summed), NEW by
    PROVE  LET t == Totals(by, summed) IN
           /\ t.inflow = SumFunctionOnSet(Inflow, summed)
           /\ t.outflow = SumFunctionOnSet(Outflow, summed)
           /\ t.outflow = t.internal_transfer + t.debt_service + t.external_spend
<1> DEFINE key == [k \in summed |-> <<GroupKey(k, by), FlowClass(k)>>]
           K == {key[k] : k \in summed}
           of(g) == {k \in summed : key[k] = g}
           byIn == [g \in K |-> SumFunctionOnSet(Inflow, of(g))]
           byOut == [g \in K |-> SumFunctionOnSet(Outflow, of(g))]
           group == [g \in K |-> [key |-> g[1], class |-> g[2], inflow |-> byIn[g], outflow |-> byOut[g]]]
           groups == {group[g] : g \in K}
           ins == [x \in groups |-> x.inflow]
           outs == [x \in groups |-> x.outflow]
<1>1. \A k \in summed : key[k] = <<GroupKey(k, by), FlowClass(k)>> /\ FlowClass(k) \in Classes
  BY DEF FlowClass, Classes
<1>2. EveryGroup(by, summed) = groups
  <2>1. K = {<<GroupKey(k, by), FlowClass(k)>> : k \in summed}
    OBVIOUS
  <2>2. \A g : of(g) = {k \in summed : <<GroupKey(k, by), FlowClass(k)>> = g}
    OBVIOUS
  <2>3. groups = {[key |-> g[1], class |-> g[2], inflow |-> SumFunctionOnSet(Inflow, of(g)),
                   outflow |-> SumFunctionOnSet(Outflow, of(g))] : g \in K}
    <3> HIDE DEF K, of
    <3> QED
      OBVIOUS
  <2> HIDE DEF groups, K, of, key
  <2> QED
    BY <2>1, <2>2, <2>3 DEF EveryGroup
<1>3. \A k \in summed : Inflow[k] \in Int /\ Outflow[k] \in Int
  BY FlowsAre
<1> HIDE DEF key
<1>4. /\ IsFiniteSet(K)
      /\ \A g : SumFunctionOnSet(Inflow, of(g)) \in Int
      /\ SumFunctionOnSet(byIn, K) = SumFunctionOnSet(Inflow, summed)
  BY <1>3, SumOfGroups
<1>5. /\ IsFiniteSet(K)
      /\ \A g : SumFunctionOnSet(Outflow, of(g)) \in Int
      /\ SumFunctionOnSet(byOut, K) = SumFunctionOnSet(Outflow, summed)
  BY <1>3, SumOfGroups
<1>6. \A g \in K : byIn[g] \in Int /\ byOut[g] \in Int
  BY <1>4, <1>5
<1>7. \A g \in K : g = <<g[1], g[2]>> /\ g[2] \in Classes
  BY <1>1
<1> HIDE DEF byIn, byOut, K, of
<1>8. \A g \in K : /\ group[g].key = g[1] /\ group[g].class = g[2]
                   /\ group[g].inflow = byIn[g] /\ group[g].outflow = byOut[g]
  OBVIOUS
<1>9. \A g \in K : group[g] \in groups
  OBVIOUS
<1>10. \A x \in groups : Sound(x)
  BY <1>6, <1>7, <1>8 DEF Sound
<1>11. IsFiniteSet(groups)
  <2>1. group \in Surjection(K, groups)
    BY DEF Surjection
  <2> HIDE DEF group, groups
  <2> QED
    BY <1>4, <2>1, FS_Surjection
<1> HIDE DEF group
<1>12. \A g, h \in K : group[g] = group[h] => g = h
  BY <1>7, <1>8
<1>13. \A g \in K : ins[group[g]] = byIn[g] /\ outs[group[g]] = byOut[g]
  BY <1>8, <1>9
<1> HIDE DEF ins, outs
<1>14. SumFunctionOnSet(byIn, K) = SumFunctionOnSet(ins, groups)
  BY <1>4, <1>6, <1>12, <1>13, SumOfImage
<1>15. SumFunctionOnSet(byOut, K) = SumFunctionOnSet(outs, groups)
  BY <1>4, <1>6, <1>12, <1>13, SumOfImage
<1> HIDE DEF groups
<1> DEFINE t == FlowClassTotals(groups)
<1>16. /\ t.inflow = SumFunctionOnSet(ins, groups)
       /\ t.outflow = SumFunctionOnSet(outs, groups)
       /\ t.outflow = t.internal_transfer + t.debt_service + t.external_spend
  BY <1>10, <1>11, FlowClassTotalsAre DEF ins, outs
<1>17. Totals(by, summed) = t
  BY <1>2 DEF Totals
<1> HIDE DEF t
<1> QED
  BY <1>4, <1>5, <1>14, <1>15, <1>16, <1>17

\* A summary's totals are those of the movements, each once, by whatever they are
\* grouped and however few groups the answer shows (query.py, money_summary).
THEOREM SummariesAddUp == M!Spec => []TotalsAreOfTheMovements
<1>1. ASSUME MInv PROVE TotalsAreOfTheMovements
  <2> DEFINE In == [m \in DOMAIN Moves |-> Max({Moves[m].amount, 0})]
             Out == [m \in DOMAIN Moves |-> Max({-Moves[m].amount, 0})]
             of == [k \in Summed |-> entries[k].move]
  <2>1. /\ Summed \subseteq Counted /\ Summed \subseteq LiveRows /\ Summed \subseteq DOMAIN entries
        /\ IsFiniteSet(Summed)
    <3>1. Summed \subseteq Counted /\ Counted \subseteq LiveRows
      BY <1>1, CountedIs DEF Summed
    <3>2. IsFiniteSet(LiveRows) /\ LiveRows \subseteq DOMAIN entries
      BY <1>1, LiveRowsAre
    <3> QED
      BY <3>1, <3>2, FS_Subset
  <2>2. ASSUME \A r \in Real : ~ Explained(r), \A m \in DOMAIN Moves : ~ WithdrawnSomewhere(m)
        PROVE  /\ SumFunctionOnSet(Inflow, Summed) = SumFunctionOnSet(In, Delivered)
               /\ SumFunctionOnSet(Outflow, Summed) = SumFunctionOnSet(Out, Delivered)
    <3>1. ASSUME NEW k \in Summed
          PROVE  /\ entries[k].move \in DOMAIN Moves /\ Moves[entries[k].move].real \in Real
                 /\ k \in RowsOfMove(entries[k].move) /\ RealOf(k) = Moves[entries[k].move].real
      BY <1>1, <2>1, LiveRowsAre, MoveIs DEF RowsOfMove
    <3>2. \A r \in Real : /\ ~ NotYetPassedOver(r) /\ ~ Unrecognised(r) /\ ~ Indistinct(r)
                          /\ ~ TwinUnlisted(r) /\ Whole(r)
      BY <2>2 DEF Explained
    <3>3. ASSUME NEW j \in Summed, NEW k \in Summed, of[j] = of[k] PROVE j = k
      <4> DEFINE m == entries[k].move
                 r == Moves[m].real
      <4>1. /\ j \in RowsOfMove(m) \cap Counted /\ k \in RowsOfMove(m) \cap Counted
            /\ ~ NotYetPassedOver(r) /\ ~ Unrecognised(r) /\ ~ Indistinct(r)
        BY <2>1, <3>1, <3>2, <3>3
      <4> HIDE DEF m
      <4> QED
        BY <1>1, <4>1, CountedAtMostOnce
    <3>4. ASSUME NEW k \in Summed PROVE of[k] \in Delivered
      BY <3>1, <3>4 DEF Summed, Delivered, RealOf
    <3>5. ASSUME NEW m \in Delivered PROVE \E k \in Summed : of[k] = m
      <4> DEFINE r == Moves[m].real
      <4>1. m \in DOMAIN Moves /\ RowsOfMove(m) # {} /\ r \in Denominable /\ r \in Real
        BY MoveIs DEF Delivered
      <4>2. ~ Indistinct(r) /\ ~ TwinUnlisted(r) /\ Whole(r) /\ ~ WithdrawnSomewhere(m)
        BY <2>2, <3>2, <4>1
      <4>3. PICK k \in RowsOfMove(m) : \A x \in RowsOfMove(m) \ {k} : Newer(k, x)
        BY <1>1, <4>1, <4>2, NewestRow
      <4>4. k \in Counted
        BY <1>1, <4>1, <4>2, <4>3, NewestIsCounted
      <4>5. entries[k].move = m /\ k \in DOMAIN entries
        BY DEF RowsOfMove, LiveRows
      <4>6. k \in Summed
        BY <1>1, <4>1, <4>4, <4>5, LiveRowsAre DEF Summed, RealOf
      <4> QED
        BY <4>5, <4>6
    <3>6. Delivered = {of[k] : k \in Summed}
      <4> HIDE DEF of
      <4> QED
        BY <3>4, <3>5
    <3>7. \A k \in Summed : /\ Inflow[k] \in Int /\ Outflow[k] \in Int
                            /\ In[of[k]] = Inflow[k] /\ Out[of[k]] = Outflow[k]
      BY <1>1, <2>1, <3>1, FlowsAre
    <3> HIDE DEF In, Out, of
    <3>8. SumFunctionOnSet(Inflow, Summed) = SumFunctionOnSet(In, {of[k] : k \in Summed})
      BY <2>1, <3>3, <3>7, SumOfImage
    <3>9. SumFunctionOnSet(Outflow, Summed) = SumFunctionOnSet(Out, {of[k] : k \in Summed})
      BY <2>1, <3>3, <3>7, SumOfImage
    <3> QED
      BY <3>6, <3>8, <3>9
  <2>3. \A by : LET t == Totals(by, Summed) IN
          /\ t.inflow = SumFunctionOnSet(Inflow, Summed)
          /\ t.outflow = SumFunctionOnSet(Outflow, Summed)
          /\ t.outflow = t.internal_transfer + t.debt_service + t.external_spend
    BY <1>1, <2>1, GroupsAddUp
  <2> QED
    BY <2>2, <2>3 DEF TotalsAreOfTheMovements
<1> QED
  BY <1>1, SummariesInvariant, PTL
=============================================================================
