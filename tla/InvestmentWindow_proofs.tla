----------------------- MODULE InvestmentWindow_proofs -----------------------
(***************************************************************************)
(* Theorems about InvestmentWindow, for any trades, dates, page size,      *)
(* ceiling and bounds, with one pull at a time over a listing that is      *)
(* still while it is paged.  Neither is enforced by the code, and without  *)
(* either they are false.  RebuildIsFaithful needs the first only: that a  *)
(* replay gives what the live passes gave says nothing of the listing.     *)
(***************************************************************************)
EXTENDS InvestmentWindow, FiniteSetTheorems, WellFoundedInduction, TLAPS

\* At most one process runs the command.
OnePullAtATime == \A r, s \in Runs : r = s

-----------------------------------------------------------------------------
(***************************************************************************)
(* Paging by offset.                                                       *)
(***************************************************************************)

\* What comes before a trade in a listing.
Before(listing, i) == {j \in listing : Rank[j] < Rank[i]}

\* A place in a listing is a number below the size of the listing.
LEMMA PlaceBounded ==
  ASSUME NEW listing \in SUBSET Trades, NEW i \in listing
  PROVE  /\ IsFiniteSet(listing)
         /\ Cardinality(listing) \in Nat
         /\ Place(listing, i) \in Nat
         /\ Place(listing, i) < Cardinality(listing)
<1>1. IsFiniteSet(listing)
  BY FS_Subset, WindowAssumption DEF WindowAssumption
<1>2. Before(listing, i) \in SUBSET listing /\ i \notin Before(listing, i)
  BY WindowAssumption DEF Before, WindowAssumption
<1>3. /\ IsFiniteSet(Before(listing, i))
      /\ Cardinality(Before(listing, i)) <= Cardinality(listing)
      /\ Cardinality(listing) = Cardinality(Before(listing, i)) => listing = Before(listing, i)
  BY <1>1, <1>2, FS_Subset
<1>4. Cardinality(listing) \in Nat /\ Cardinality(Before(listing, i)) \in Nat
  BY <1>1, <1>3, FS_CardinalityType
<1>5. Place(listing, i) = Cardinality(Before(listing, i))
  BY DEF Place, Before
<1>6. QED
  BY <1>1, <1>2, <1>3, <1>4, <1>5

\* A trade comes at a later place than those listed before it.
LEMMA PlaceMonotone ==
  ASSUME NEW listing \in SUBSET Trades, NEW i \in listing, NEW j \in listing,
         Rank[i] < Rank[j]
  PROVE  Place(listing, i) < Place(listing, j)
<1>1. IsFiniteSet(Before(listing, j))
  <2>1. IsFiniteSet(listing)
    BY PlaceBounded
  <2>2. QED
    BY <2>1, FS_Subset DEF Before
<1>2. Before(listing, i) \in SUBSET Before(listing, j)
  BY WindowAssumption DEF Before, WindowAssumption
<1>3. i \in Before(listing, j) /\ i \notin Before(listing, i)
  BY WindowAssumption DEF Before, WindowAssumption
<1>4. /\ IsFiniteSet(Before(listing, i))
      /\ Cardinality(Before(listing, i)) <= Cardinality(Before(listing, j))
      /\ Cardinality(Before(listing, i)) # Cardinality(Before(listing, j))
  BY <1>1, <1>2, <1>3, FS_Subset
<1>5. Cardinality(Before(listing, i)) \in Nat /\ Cardinality(Before(listing, j)) \in Nat
  BY <1>1, <1>4, FS_CardinalityType
<1>6. QED
  BY <1>4, <1>5 DEF Place, Before

\* Two trades of a listing are at two places.
LEMMA PlacesDistinct ==
  ASSUME NEW listing \in SUBSET Trades, NEW i \in listing, NEW j \in listing,
         Place(listing, i) = Place(listing, j)
  PROVE  i = j
<1>1. SUFFICES ASSUME i # j PROVE FALSE
  OBVIOUS
<1>2. /\ Rank[i] \in Nat /\ Rank[j] \in Nat /\ Rank[i] # Rank[j]
      /\ Place(listing, i) \in Nat /\ Place(listing, j) \in Nat
  BY <1>1, PlaceBounded, WindowAssumption DEF WindowAssumption
<1>3. CASE Rank[i] < Rank[j]
  BY <1>2, <1>3, PlaceMonotone
<1>4. CASE Rank[j] < Rank[i]
  BY <1>2, <1>4, PlaceMonotone
<1>5. QED
  BY <1>2, <1>3, <1>4

\* A page carries at most PAGE_SIZE rows.
LEMMA PageFits ==
  ASSUME NEW listing \in SUBSET Trades, NEW offset \in Nat
  PROVE  /\ Cardinality(RowsAt(listing, offset)) \in Nat
         /\ Cardinality(RowsAt(listing, offset)) <= PAGE_SIZE
<1> DEFINE rows   == RowsAt(listing, offset)
           places == offset .. offset + PAGE_SIZE - 1
           place  == [i \in rows |-> Place(listing, i)]
<1>1. PAGE_SIZE \in Nat \ {0}
  BY WindowAssumption DEF WindowAssumption
<1>2. rows \subseteq listing
  BY DEF RowsAt
<1>3. ASSUME NEW i \in rows PROVE Place(listing, i) \in places
  <2>1. i \in listing /\ offset <= Place(listing, i) /\ Place(listing, i) < offset + PAGE_SIZE
    BY DEF RowsAt
  <2>2. Place(listing, i) \in Nat
    BY <2>1, PlaceBounded
  <2>3. QED
    BY <1>1, <2>1, <2>2
<1>4. place \in Injection(rows, places)
  BY <1>2, <1>3, PlacesDistinct DEF Injection, IsInjective
<1>5. IsFiniteSet(places) /\ Cardinality(places) = PAGE_SIZE
  BY <1>1, FS_Interval
<1>6. IsFiniteSet(rows) /\ Cardinality(rows) <= PAGE_SIZE
  BY <1>4, <1>5, FS_Injection
<1>7. QED
  BY <1>6, FS_CardinalityType

(***************************************************************************)
(* A page that reaches a total no smaller than the listing leaves none of  *)
(* it behind (window_is_exhausted).                                        *)
(***************************************************************************)
LEMMA ExhaustedReachesAll ==
  ASSUME NEW listing \in SUBSET Trades, NEW offset \in Nat, NEW i \in listing,
         offset + Cardinality(RowsAt(listing, offset)) >= Cardinality(listing)
  PROVE  Place(listing, i) < offset \/ i \in RowsAt(listing, offset)
<1>1. Place(listing, i) \in Nat /\ Cardinality(listing) \in Nat
      /\ Place(listing, i) < Cardinality(listing)
  BY PlaceBounded
<1>2. /\ Cardinality(RowsAt(listing, offset)) \in Nat
      /\ Cardinality(RowsAt(listing, offset)) <= PAGE_SIZE
  BY PageFits
<1>3. PAGE_SIZE \in Nat
  BY WindowAssumption DEF WindowAssumption
<1>4. Place(listing, i) < offset + PAGE_SIZE
  BY <1>1, <1>2, <1>3
<1>5. QED
  BY <1>1, <1>3, <1>4 DEF RowsAt

\* The rows counted through a page come from that page or the pages before it.
LEMMA SeenIsPaged ==
  ASSUME NEW listing \in SUBSET Trades, NEW offset \in Nat, NEW i \in listing,
         Place(listing, i) < offset + Cardinality(RowsAt(listing, offset))
  PROVE  Place(listing, i) < offset \/ i \in RowsAt(listing, offset)
<1>1. Place(listing, i) \in Nat
  BY PlaceBounded
<1>2. /\ Cardinality(RowsAt(listing, offset)) \in Nat
      /\ Cardinality(RowsAt(listing, offset)) <= PAGE_SIZE
  BY PageFits
<1>3. PAGE_SIZE \in Nat
  BY WindowAssumption DEF WindowAssumption
<1>4. QED
  BY <1>1, <1>2, <1>3 DEF RowsAt

-----------------------------------------------------------------------------
(***************************************************************************)
(* Types.                                                                  *)
(***************************************************************************)

\* What a process remembers, apart from where its response ids may point.
PullRecord ==
  [phase : {"idle", "fetch", "archive", "derive", "done"}, start : Dates, end : Dates,
   fetched : Nat, seen : Nat, window : [opened : BOOLEAN, pages : SUBSET Nat],
   page : Page, response : Nat, whole : BOOLEAN, listing : SUBSET Trades]

\* The types the proofs need.
Typed ==
  /\ reported \subseteq Trades
  /\ today \in Nat
  /\ archive \in Seq(Page)
  /\ trades \in [Trades -> Row \cup {NoRow}]
  /\ pull \in [Runs -> PullRecord]
  /\ missing \subseteq Trades
  /\ restated \subseteq Trades

\* A pull with a page fetched is a pull.
LEMMA FetchedPull ==
  ASSUME NEW p \in PullRecord, NEW page \in Page, NEW listing \in SUBSET Trades
  PROVE  [p EXCEPT !.phase = "archive", !.page = page, !.listing = listing] \in PullRecord
BY DEF PullRecord

\* A pull with a page derived is a pull.
LEMMA DerivedPull ==
  ASSUME NEW p \in PullRecord, NEW phase \in {"fetch", "done"}, NEW fetched \in Nat,
         NEW seen \in Nat, NEW window \in [opened : BOOLEAN, pages : SUBSET Nat],
         NEW whole \in BOOLEAN
  PROVE  [p EXCEPT !.phase = phase, !.fetched = fetched, !.seen = seen, !.window = window,
                   !.whole = whole] \in PullRecord
BY DEF PullRecord

\* The pages of the window in hand are archived pages, that in hand among them.
LEMMA OpenedTyped ==
  ASSUME NEW window \in [opened : BOOLEAN, pages : SUBSET Nat], NEW n \in Nat,
         NEW page \in Page
  PROVE  /\ Opened(window, n, page) \in [opened : BOOLEAN, pages : SUBSET Nat]
         /\ n \in Opened(window, n, page).pages
         /\ page.offset = 0 => Opened(window, n, page) = [opened |-> TRUE, pages |-> {n}]
         /\ page.offset # 0 => /\ Opened(window, n, page).opened = window.opened
                               /\ Opened(window, n, page).pages = window.pages \cup {n}
BY DEF Opened

(***************************************************************************)
(* What deriving a page does to one trade: a row written is shown, and one *)
(* that is not written is left alone unless a window concluded without it. *)
(***************************************************************************)
LEMMA ObservedRow ==
  ASSUME NEW table \in [Trades -> Row \cup {NoRow}], NEW n \in Nat, NEW page \in Page,
         NEW window \in [opened : BOOLEAN, pages : SUBSET Nat], NEW i \in Trades
  PROVE  LET opened == Opened(window, n, page)
             after  == Observed([table |-> table, window |-> window], n, page).table
             retired == /\ Concludes(opened, page)
                        /\ i \in Shown(table) \cap Dated(page.start, page.end)
                        /\ table[i].raw \notin opened.pages
         IN /\ i \in Converted(page) => after[i] = [raw |-> n, removed |-> 0]
            /\ i \notin Converted(page) /\ retired =>
                  after[i] = [raw |-> table[i].raw, removed |-> n]
            /\ i \notin Converted(page) /\ ~ retired => after[i] = table[i]
<1> DEFINE opened  == Opened(window, n, page)
           written == Written(table, n, page)
           after   == Observed([table |-> table, window |-> window], n, page).table
           row     == [raw |-> n, removed |-> 0]
<1>1. n \in opened.pages
  BY OpenedTyped
<1>2. row \in Row /\ row # NoRow
  BY NoRowAssumption DEF Row
<1>3. written[i] = IF i \in Converted(page) THEN row ELSE table[i]
  BY DEF Written
<1>4. after = IF Concludes(opened, page) THEN Reconciled(written, n, page, opened.pages)
              ELSE written
  BY DEF Observed
<1>5. i \in Absent(written, page, opened.pages) <=>
        /\ written[i] # NoRow
        /\ written[i].removed = 0
        /\ i \in Dated(page.start, page.end)
        /\ written[i].raw \notin opened.pages
  BY DEF Absent, Shown, Held
<1>6. i \in Shown(table) <=> table[i] # NoRow /\ table[i].removed = 0
  BY DEF Shown, Held
<1>7. CASE i \in Converted(page)
  <2>1. i \notin Absent(written, page, opened.pages)
    BY <1>1, <1>3, <1>5, <1>7
  <2>2. after[i] = row
    BY <1>3, <1>4, <1>7, <2>1 DEF Reconciled
  <2>3. QED
    BY <1>7, <2>2
<1>8. CASE i \notin Converted(page)
  <2>1. written[i] = table[i]
    BY <1>3, <1>8
  <2>2. CASE i \in Absent(written, page, opened.pages) /\ Concludes(opened, page)
    <3>1. table[i] \in Row
      BY <1>5, <2>1, <2>2
    <3>2. after[i] = [table[i] EXCEPT !.removed = n]
      BY <1>4, <2>1, <2>2 DEF Reconciled
    <3>3. after[i] = [raw |-> table[i].raw, removed |-> n]
      BY <3>1, <3>2 DEF Row
    <3>4. QED
      BY <1>5, <1>6, <1>8, <2>1, <2>2, <3>3
  <2>3. CASE ~ (i \in Absent(written, page, opened.pages) /\ Concludes(opened, page))
    <3>1. after[i] = table[i]
      BY <1>4, <2>1, <2>3 DEF Reconciled
    <3>2. QED
      BY <1>5, <1>6, <1>8, <2>1, <2>3, <3>1
  <2>4. QED
    BY <2>2, <2>3
<1>9. QED
  BY <1>7, <1>8

\* Deriving a page leaves a table and a window in progress.
LEMMA ObservedTyped ==
  ASSUME NEW table \in [Trades -> Row \cup {NoRow}], NEW n \in Nat, NEW page \in Page,
         NEW window \in [opened : BOOLEAN, pages : SUBSET Nat]
  PROVE  LET state  == Observed([table |-> table, window |-> window], n, page)
             opened == Opened(window, n, page)
         IN /\ state.table \in [Trades -> Row \cup {NoRow}]
            /\ state.window \in [opened : BOOLEAN, pages : SUBSET Nat]
            /\ ~ WindowIsExhausted(page) => state.window = opened
<1> DEFINE state  == Observed([table |-> table, window |-> window], n, page)
           opened == Opened(window, n, page)
<1>1. state.window \in {NoWindow, opened} /\ (~ WindowIsExhausted(page) => state.window = opened)
  BY DEF Observed, Concludes
<1>2. opened \in [opened : BOOLEAN, pages : SUBSET Nat]
  BY OpenedTyped
<1>3. NoWindow \in [opened : BOOLEAN, pages : SUBSET Nat]
  BY DEF NoWindow
<1>4. \A i \in Trades : state.table[i] \in Row \cup {NoRow}
  <2> SUFFICES ASSUME NEW i \in Trades PROVE state.table[i] \in Row \cup {NoRow}
    OBVIOUS
  <2>1. state.table[i] \in {[raw |-> n, removed |-> 0], table[i]} \/
          (table[i] # NoRow /\ state.table[i] = [raw |-> table[i].raw, removed |-> n])
    BY ObservedRow DEF Shown, Held
  <2>2. QED
    BY <2>1 DEF Row
<1>5. state.table = [i \in Trades |-> state.table[i]]
  <2>1. Written(table, n, page) = [i \in Trades |-> Written(table, n, page)[i]]
    BY DEF Written
  <2>2. \A pages : Reconciled(Written(table, n, page), n, page, pages) =
          [i \in Trades |-> Reconciled(Written(table, n, page), n, page, pages)[i]]
    BY DEF Reconciled
  <2>3. state.table \in {Written(table, n, page),
                         Reconciled(Written(table, n, page), n, page, opened.pages)}
    BY DEF Observed
  <2>4. QED
    BY <2>1, <2>2, <2>3
<1>6. state.table \in [Trades -> Row \cup {NoRow}]
  BY <1>4, <1>5
<1>7. QED
  BY <1>1, <1>2, <1>3, <1>6

\* The pull a fetched page is put into hand of.
LEMMA FetchEffect ==
  ASSUME Typed, NEW r \in Runs, Fetch(r)
  PROVE  \E total \in Nat \cup {NoTotal}, unknown \in SUBSET Trades :
           LET page == [start |-> pull[r].start, end |-> pull[r].end, offset |-> pull[r].seen,
                        rows |-> RowsAt(Listing(r), pull[r].seen), unknown |-> unknown,
                        total |-> total]
           IN /\ page \in Page
              /\ unknown \subseteq page.rows
              /\ total # NoTotal => total >= Cardinality(Listing(r))
              /\ Listing(r) \in SUBSET Trades
              /\ pull' = [pull EXCEPT ![r] = [pull[r] EXCEPT !.phase = "archive", !.page = page,
                                                            !.listing = Listing(r)]]
              /\ pull'[r] \in PullRecord
              /\ pull' \in [Runs -> PullRecord]
<1>1. Listing(r) \in SUBSET Trades /\ pull[r] \in PullRecord
  BY DEF Listing, Typed
<1>2. Cardinality(Listing(r)) \in Nat
  BY <1>1, FS_Subset, FS_CardinalityType, WindowAssumption DEF WindowAssumption
<1>3. PICK total \in Totals(r) : \E page \in Answers(r, total) :
        pull' = [pull EXCEPT ![r] = [@ EXCEPT !.phase = "archive", !.page = page,
                                              !.listing = Listing(r)]]
  BY DEF Fetch
<1>4. PICK page \in Answers(r, total) :
        pull' = [pull EXCEPT ![r] = [@ EXCEPT !.phase = "archive", !.page = page,
                                              !.listing = Listing(r)]]
  BY <1>3
<1>5. total \in Nat \cup {NoTotal} /\ (total # NoTotal => total >= Cardinality(Listing(r)))
  BY <1>2, <1>3 DEF Totals
<1>6. PICK unknown \in SUBSET (RowsAt(Listing(r), pull[r].seen) \cap Restatable) :
        page = [start |-> pull[r].start, end |-> pull[r].end, offset |-> pull[r].seen,
                rows |-> RowsAt(Listing(r), pull[r].seen), unknown |-> unknown, total |-> total]
  BY <1>4 DEF Answers
<1>7. /\ RowsAt(Listing(r), pull[r].seen) \in SUBSET Trades
      /\ unknown \subseteq RowsAt(Listing(r), pull[r].seen)
      /\ unknown \in SUBSET Trades
  BY <1>1, <1>6 DEF RowsAt
<1>8. page \in Page
  BY <1>1, <1>5, <1>6, <1>7 DEF PullRecord, Page
<1>9. /\ pull' = [pull EXCEPT ![r] = [pull[r] EXCEPT !.phase = "archive", !.page = page,
                                                     !.listing = Listing(r)]]
      /\ pull'[r] = [pull[r] EXCEPT !.phase = "archive", !.page = page, !.listing = Listing(r)]
  BY <1>4 DEF Typed
<1>10. pull'[r] \in PullRecord
  <2>1. [pull[r] EXCEPT !.phase = "archive", !.page = page, !.listing = Listing(r)] \in PullRecord
    BY <1>1, <1>8, FetchedPull
  <2>2. QED
    BY <1>9, <2>1, Zenon
<1>11. pull' \in [Runs -> PullRecord]
  BY <1>9, <1>10 DEF Typed
<1>12. QED
  BY <1>1, <1>5, <1>6, <1>7, <1>8, <1>9, <1>10, <1>11

\* The pull once its page is derived.
LEMMA DeriveEffect ==
  ASSUME Typed, NEW r \in Runs, Derive(r)
  PROVE  LET page   == pull[r].page
             opened == Opened(pull[r].window, pull[r].response, page)
         IN /\ pull[r].phase = "derive"
            /\ pull' \in [Runs -> PullRecord]
            /\ \A s \in Runs \ {r} : pull'[s] = pull[s]
            /\ pull'[r].phase = "done" \/ (pull'[r].phase = "fetch" /\ ~ LastPage(page))
            /\ pull'[r].start = pull[r].start /\ pull'[r].end = pull[r].end
            /\ pull'[r].listing = pull[r].listing
            /\ pull'[r].seen = RowsThroughThisPage(page)
            /\ pull'[r].whole = Concludes(opened, page)
            /\ ~ WindowIsExhausted(page) => pull'[r].window = opened
            /\ trades' = Observed([table |-> trades, window |-> pull[r].window],
                                  pull[r].response, page).table
            /\ trades' \in [Trades -> Row \cup {NoRow}]
<1> DEFINE page   == pull[r].page
           opened == Opened(pull[r].window, pull[r].response, page)
           state  == Observed([table |-> trades, window |-> pull[r].window], pull[r].response, page)
           turn   == IF LastPage(page) \/ pull[r].fetched + 1 = MAX_PAGES_PER_RUN THEN "done"
                     ELSE "fetch"
<1>1. /\ pull[r].phase = "derive"
      /\ trades' = state.table
      /\ pull' = [pull EXCEPT ![r] =
           [@ EXCEPT !.phase = turn, !.fetched = pull[r].fetched + 1,
                     !.seen = RowsThroughThisPage(page), !.window = state.window,
                     !.whole = Concludes(opened, page)]]
  BY DEF Derive
<1>2. /\ pull[r] \in PullRecord
      /\ page \in Page
      /\ pull[r].window \in [opened : BOOLEAN, pages : SUBSET Nat]
      /\ pull[r].response \in Nat
      /\ trades \in [Trades -> Row \cup {NoRow}]
  BY DEF Typed, PullRecord
<1>3. /\ state.table \in [Trades -> Row \cup {NoRow}]
      /\ state.window \in [opened : BOOLEAN, pages : SUBSET Nat]
      /\ ~ WindowIsExhausted(page) => state.window = opened
  BY <1>2, ObservedTyped
<1>4. RowsThroughThisPage(page) \in Nat
  <2>1. page.rows \in SUBSET Trades /\ page.offset \in Nat
    BY <1>2 DEF Page
  <2>2. Cardinality(page.rows) \in Nat
    BY <2>1, FS_Subset, FS_CardinalityType, WindowAssumption DEF WindowAssumption
  <2>3. QED
    BY <2>1, <2>2 DEF RowsThroughThisPage
<1>5. Concludes(opened, page) \in BOOLEAN
  <2>1. opened.opened \in BOOLEAN
    BY <1>2, OpenedTyped
  <2>2. QED
    BY <2>1 DEF Concludes, WindowIsExhausted
<1>6. pull'[r] = [pull[r] EXCEPT !.phase = turn, !.fetched = pull[r].fetched + 1,
                     !.seen = RowsThroughThisPage(page), !.window = state.window,
                     !.whole = Concludes(opened, page)]
  BY <1>1 DEF Typed
<1>7. turn = "done" \/ (turn = "fetch" /\ ~ LastPage(page))
  OBVIOUS
<1>8. /\ pull'[r].phase = turn
      /\ pull'[r].start = pull[r].start /\ pull'[r].end = pull[r].end
      /\ pull'[r].listing = pull[r].listing
      /\ pull'[r].seen = RowsThroughThisPage(page)
      /\ pull'[r].window = state.window
      /\ pull'[r].whole = Concludes(opened, page)
  BY <1>2, <1>6 DEF PullRecord
<1>9. pull'[r] \in PullRecord
  <2>1. turn \in {"done", "fetch"} /\ pull[r].fetched + 1 \in Nat
    BY <1>2 DEF PullRecord
  <2> HIDE DEF turn, state, opened, page
  <2>2. [pull[r] EXCEPT !.phase = turn, !.fetched = pull[r].fetched + 1,
                        !.seen = RowsThroughThisPage(page), !.window = state.window,
                        !.whole = Concludes(opened, page)] \in PullRecord
    BY <1>2, <1>3, <1>4, <1>5, <2>1, DerivedPull
  <2>3. QED
    BY <1>6, <2>2, Zenon
<1>10. /\ pull' \in [Runs -> PullRecord]
       /\ \A s \in Runs \ {r} : pull'[s] = pull[s]
  <2>1. \A s \in Runs \ {r} : pull'[s] = pull[s]
    BY <1>1 DEF Typed
  <2>2. pull' = [s \in Runs |-> pull'[s]]
    BY <1>1 DEF Typed
  <2>3. QED
    BY <1>9, <2>1, <2>2 DEF Typed
<1>11. QED
  BY <1>1, <1>3, <1>7, <1>8, <1>10

\* What a step deriving a page does to one trade.
LEMMA DerivedRow ==
  ASSUME Typed, NEW r \in Runs, Derive(r), NEW i \in Trades
  PROVE  LET page   == pull[r].page
             n      == pull[r].response
             opened == Opened(pull[r].window, n, page)
             retired == /\ Concludes(opened, page)
                        /\ i \in Shown(trades) \cap Dated(page.start, page.end)
                        /\ trades[i].raw \notin opened.pages
         IN /\ i \in Converted(page) => trades'[i] = [raw |-> n, removed |-> 0]
            /\ i \notin Converted(page) /\ retired =>
                  trades'[i] = [raw |-> trades[i].raw, removed |-> n]
            /\ i \notin Converted(page) /\ ~ retired => trades'[i] = trades[i]
<1> DEFINE page == pull[r].page
           n    == pull[r].response
           window == pull[r].window
<1>1. /\ page \in Page /\ n \in Nat
      /\ window \in [opened : BOOLEAN, pages : SUBSET Nat]
      /\ trades \in [Trades -> Row \cup {NoRow}]
  BY DEF Typed, PullRecord
<1>2. trades' = Observed([table |-> trades, window |-> window], n, page).table
  BY DeriveEffect
<1> HIDE DEF page, n, window
<1>3. LET opened  == Opened(window, n, page)
          after   == Observed([table |-> trades, window |-> window], n, page).table
          retired == /\ Concludes(opened, page)
                     /\ i \in Shown(trades) \cap Dated(page.start, page.end)
                     /\ trades[i].raw \notin opened.pages
      IN /\ i \in Converted(page) => after[i] = [raw |-> n, removed |-> 0]
         /\ i \notin Converted(page) /\ retired =>
               after[i] = [raw |-> trades[i].raw, removed |-> n]
         /\ i \notin Converted(page) /\ ~ retired => after[i] = trades[i]
  BY <1>1, ObservedRow
<1>4. QED
  BY <1>2, <1>3 DEF page, n, window

\* Every step preserves the types.
LEMMA TypedStep ==
  ASSUME Typed, [Next]_vars
  PROVE  Typed'
<1>1. CASE UNCHANGED vars
  BY <1>1 DEF Typed, vars, store
<1>2. CASE DayPasses
  BY <1>2 DEF Typed, DayPasses, store, history
<1>3. ASSUME NEW i \in Trades, List(i) PROVE Typed'
  BY <1>3 DEF Typed, List, store, history
<1>4. ASSUME NEW i \in Trades, Withdraw(i) PROVE Typed'
  BY <1>4 DEF Typed, Withdraw, store
<1>5. ASSUME NEW r \in Runs, Start(r) PROVE Typed'
  <2> DEFINE opening == [IdlePull EXCEPT !.phase = "fetch", !.start = today - HISTORY_DAYS,
                                        !.end = today]
  <2>1. opening \in PullRecord
    <3>1. today \in Dates /\ today - HISTORY_DAYS \in Dates
      BY WindowAssumption DEF Typed, WindowAssumption, Dates
    <3>2. NoPage \in Page
      BY DEF NoPage, Page, Dates
    <3>3. NoWindow \in [opened : BOOLEAN, pages : SUBSET Nat]
      BY DEF NoWindow
    <3>4. QED
      BY <3>1, <3>2, <3>3 DEF IdlePull, PullRecord
  <2>2. pull' \in [Runs -> PullRecord]
    BY <1>5, <2>1 DEF Start, Typed
  <2>3. QED
    BY <1>5, <2>2 DEF Typed, Start, store, history
<1>6. ASSUME NEW r \in Runs, Fetch(r) PROVE Typed'
  <2>1. pull' \in [Runs -> PullRecord]
    BY <1>6, FetchEffect
  <2>2. QED
    BY <1>6, <2>1 DEF Typed, Fetch, store, history
<1>7. ASSUME NEW r \in Runs, Archive(r) PROVE Typed'
  <2>1. pull[r] \in PullRecord /\ pull[r].page \in Page
    BY DEF Typed, PullRecord
  <2>2. archive' \in Seq(Page) /\ Len(archive') \in Nat
    BY <1>7, <2>1 DEF Typed, Archive
  <2>3. pull' = [pull EXCEPT ![r] = [pull[r] EXCEPT !.phase = "derive", !.response = Len(archive')]]
    BY <1>7, <2>1 DEF Archive, Typed, PullRecord
  <2>4. [pull[r] EXCEPT !.phase = "derive", !.response = Len(archive')] \in PullRecord
    BY <2>1, <2>2 DEF PullRecord
  <2>5. pull' \in [Runs -> PullRecord]
    BY <2>3, <2>4 DEF Typed
  <2>6. QED
    BY <1>7, <2>2, <2>5 DEF Typed, Archive, history
<1>8. ASSUME NEW r \in Runs, Derive(r) PROVE Typed'
  <2>1. pull' \in [Runs -> PullRecord] /\ trades' \in [Trades -> Row \cup {NoRow}]
    BY <1>8, DeriveEffect
  <2>2. pull[r].page.rows \subseteq Trades /\ pull[r].page.unknown \subseteq Trades
    BY DEF Typed, PullRecord, Page
  <2>3. missing' \subseteq Trades /\ restated' \subseteq Trades
    BY <1>8, <2>2 DEF Derive, Typed, Converted
  <2>4. UNCHANGED <<reported, today, archive>>
    BY <1>8 DEF Derive
  <2>5. QED
    BY <2>1, <2>3, <2>4 DEF Typed
<1>9. ASSUME NEW r \in Runs, Stop(r) PROVE Typed'
  <2>1. IdlePull \in PullRecord
    <3>1. NoPage \in Page
      BY DEF NoPage, Page, Dates
    <3>2. NoWindow \in [opened : BOOLEAN, pages : SUBSET Nat]
      BY DEF NoWindow
    <3>3. QED
      BY <3>1, <3>2 DEF IdlePull, PullRecord, Dates
  <2>2. pull' \in [Runs -> PullRecord]
    BY <1>9, <2>1 DEF Stop, Typed
  <2>3. QED
    BY <1>9, <2>2 DEF Typed, Stop, store, history
<1>10. QED
  BY <1>1, <1>2, <1>3, <1>4, <1>5, <1>6, <1>7, <1>8, <1>9 DEF Next
-----------------------------------------------------------------------------
(***************************************************************************)
(* The inductive invariant.                                                *)
(***************************************************************************)

\* What the aggregator does not list, it did not list at some time since its row was written.
UnlistedIsMissing == Trades \ reported \subseteq missing

\* A page of the window in progress brought trade i, or brought it in an unknown unit.
Returned(i, pages) ==
  i \in restated \/ (i \in Shown(trades) /\ trades[i].raw \in pages)

\* The pages of a pull's window brought the first rows of a listing and nothing else.
Paged(p, listing) ==
  /\ \A i \in listing : Place(listing, i) < p.seen => Returned(i, p.window.pages)
  /\ \A i \in Held(trades) : trades[i].raw \in p.window.pages => i \in listing

\* Between two pages, what was paged is the beginning of what is listed now.
BetweenPages(p) ==
  /\ p.seen = 0 => p.window = NoWindow
  /\ p.seen > 0 => Paged(p, reported \cap Dated(p.start, p.end))

\* The page in hand is the next one of the listing it was fetched from.
PageInHand(p) ==
  /\ p.page.start = p.start /\ p.page.end = p.end /\ p.page.offset = p.seen
  /\ p.page.rows = RowsAt(p.listing, p.seen)
  /\ p.page.unknown \subseteq p.page.rows
  /\ p.page.total # NoTotal => p.page.total >= Cardinality(p.listing)
  /\ p.listing \subseteq Dated(p.start, p.end)
  /\ ~ LastPage(p.page) => reported \cap Dated(p.start, p.end) = p.listing
  /\ Dated(p.start, p.end) \ p.listing \subseteq missing
  /\ Paged(p, p.listing)

\* The page to be derived is the latest archived one, and no row is from it yet.
LatestArchived(p) ==
  /\ p.response = Len(archive) /\ p.response >= 1
  /\ \A i \in Held(trades) : trades[i].raw < p.response

PullInv(p) ==
  /\ p.phase = "fetch" => BetweenPages(p)
  /\ p.phase \in {"archive", "derive"} => PageInHand(p)
  /\ p.phase = "derive" => LatestArchived(p)

WindowInv ==
  /\ Typed
  /\ UnlistedIsMissing
  /\ \A i \in Held(trades) : trades[i].raw <= Len(archive)
  /\ \A r \in Runs : PullInv(pull[r])
  /\ OnlyUnreturnedIsRetired
  /\ WholeWindowIsExact

(***************************************************************************)
(* Deriving a page.                                                        *)
(***************************************************************************)

\* What a page, or the pages before it, brought of a listing is returned once it is derived.
LEMMA DerivedReturns ==
  ASSUME WindowInv, NEW r \in Runs, Derive(r), NEW i \in pull[r].listing,
         Place(pull[r].listing, i) < pull[r].seen \/ i \in pull[r].page.rows
  PROVE  LET opened == Opened(pull[r].window, pull[r].response, pull[r].page)
         IN i \in restated' \/ (i \in Shown(trades') /\ trades'[i].raw \in opened.pages)
<1> DEFINE page   == pull[r].page
           n      == pull[r].response
           window == pull[r].window
           opened == Opened(window, n, page)
<1>1. /\ page \in Page /\ n \in Nat /\ i \in Trades
      /\ window \in [opened : BOOLEAN, pages : SUBSET Nat]
      /\ trades \in [Trades -> Row \cup {NoRow}]
  BY DEF WindowInv, Typed, PullRecord
<1>2. PageInHand(pull[r])
  BY DEF WindowInv, PullInv, Derive
<1>3. LET retired == /\ Concludes(opened, page)
                     /\ i \in Shown(trades) \cap Dated(page.start, page.end)
                     /\ trades[i].raw \notin opened.pages
      IN /\ i \in Converted(page) => trades'[i] = [raw |-> n, removed |-> 0]
         /\ i \notin Converted(page) /\ retired => trades'[i] = [raw |-> trades[i].raw, removed |-> n]
         /\ i \notin Converted(page) /\ ~ retired => trades'[i] = trades[i]
  BY <1>1, DerivedRow DEF WindowInv
<1>4. restated' = (restated \ Converted(page)) \cup page.unknown
  BY DEF Derive
<1>5. n \in opened.pages
  BY <1>1, OpenedTyped
<1>6. CASE i \in Converted(page)
  <2>1. trades'[i] = [raw |-> n, removed |-> 0]
    BY <1>3, <1>6
  <2>2. trades'[i] # NoRow
    BY <1>1, <2>1, NoRowAssumption DEF Row
  <2>3. i \in Shown(trades') /\ trades'[i].raw \in opened.pages
    BY <1>1, <1>5, <2>1, <2>2 DEF Shown, Held
  <2>4. QED
    BY <2>3
<1>7. CASE i \in page.rows /\ i \notin Converted(page)
  BY <1>4, <1>7 DEF Converted
<1>8. CASE i \notin page.rows
  <2>1. Place(pull[r].listing, i) < pull[r].seen
    BY <1>8
  <2>2. Returned(i, window.pages)
    BY <1>2, <2>1 DEF PageInHand, Paged
  <2>3. i \notin Converted(page)
    BY <1>8 DEF Converted
  <2>4. CASE i \in restated
    BY <1>4, <2>3, <2>4
  <2>5. CASE i \in Shown(trades) /\ trades[i].raw \in window.pages
    <3>1. page.offset # 0
      <4>1. Place(pull[r].listing, i) \in Nat
        BY PlaceBounded DEF WindowInv, Typed, PullRecord
      <4>2. page.offset = pull[r].seen
        BY <1>2 DEF PageInHand
      <4>3. QED
        BY <2>1, <4>1, <4>2
    <3>2. trades[i].raw \in opened.pages
      BY <1>1, <2>5, <3>1, OpenedTyped
    <3>3. trades'[i] = trades[i]
      BY <1>3, <2>3, <3>2
    <3>4. i \in Shown(trades') /\ trades'[i].raw \in opened.pages
      BY <2>5, <3>2, <3>3 DEF Shown, Held
    <3>5. QED
      BY <3>4
  <2>6. QED
    BY <2>2, <2>4, <2>5 DEF Returned
<1>9. QED
  BY <1>6, <1>7, <1>8

\* A row of the window's pages, once the page is derived, is of the listing.
LEMMA DerivedIsListed ==
  ASSUME WindowInv, NEW r \in Runs, Derive(r), NEW i \in Held(trades'),
         trades'[i].raw \in Opened(pull[r].window, pull[r].response, pull[r].page).pages
  PROVE  i \in pull[r].listing
<1> DEFINE page   == pull[r].page
           n      == pull[r].response
           window == pull[r].window
           opened == Opened(window, n, page)
<1>1. /\ page \in Page /\ n \in Nat /\ i \in Trades
      /\ window \in [opened : BOOLEAN, pages : SUBSET Nat]
      /\ trades \in [Trades -> Row \cup {NoRow}]
  BY DEF WindowInv, Typed, PullRecord, Held
<1>2. PageInHand(pull[r]) /\ LatestArchived(pull[r])
  BY DEF WindowInv, PullInv, Derive
<1>3. LET retired == /\ Concludes(opened, page)
                     /\ i \in Shown(trades) \cap Dated(page.start, page.end)
                     /\ trades[i].raw \notin opened.pages
      IN /\ i \in Converted(page) => trades'[i] = [raw |-> n, removed |-> 0]
         /\ i \notin Converted(page) /\ retired => trades'[i] = [raw |-> trades[i].raw, removed |-> n]
         /\ i \notin Converted(page) /\ ~ retired => trades'[i] = trades[i]
  BY <1>1, DerivedRow DEF WindowInv
<1>4. CASE i \in Converted(page)
  BY <1>2, <1>4 DEF PageInHand, Converted, RowsAt
<1>5. CASE i \notin Converted(page)
  <2>1. i \in Held(trades) /\ trades'[i].raw = trades[i].raw
    <3>1. \/ trades'[i] = trades[i]
          \/ i \in Shown(trades) /\ trades'[i] = [raw |-> trades[i].raw, removed |-> n]
      BY <1>3, <1>5
    <3>2. QED
      BY <1>1, <3>1 DEF Held, Shown
  <2>2. trades[i].raw # n
    <3>1. trades[i].raw \in Nat
      BY <1>1, <2>1 DEF Held, Row
    <3>2. QED
      BY <1>1, <1>2, <2>1, <3>1 DEF LatestArchived
  <2>3. page.offset # 0 /\ trades[i].raw \in window.pages
    BY <1>1, <2>1, <2>2, OpenedTyped
  <2>4. QED
    BY <1>2, <2>1, <2>3 DEF PageInHand, Paged
<1>6. QED
  BY <1>4, <1>5
\* Everything a whole listing holds is returned by the page that reaches its total.
LEMMA ConcludedReturnsAll ==
  ASSUME WindowInv, NEW r \in Runs, Derive(r), WindowIsExhausted(pull[r].page),
         NEW i \in pull[r].listing
  PROVE  LET opened == Opened(pull[r].window, pull[r].response, pull[r].page)
         IN i \in restated' \/ (i \in Shown(trades') /\ trades'[i].raw \in opened.pages)
<1>1. PageInHand(pull[r])
  BY DEF WindowInv, PullInv, Derive
<1>2. pull[r].listing \in SUBSET Trades /\ pull[r].seen \in Nat
  BY DEF WindowInv, Typed, PullRecord
<1>3. pull[r].page.total # NoTotal /\ pull[r].page.total \in Nat
  BY DEF WindowInv, Typed, PullRecord, Page, WindowIsExhausted
<1>4. Cardinality(pull[r].listing) \in Nat /\ Cardinality(pull[r].page.rows) \in Nat
  BY <1>1, <1>2, PlaceBounded, PageFits DEF PageInHand
<1>5. pull[r].seen + Cardinality(RowsAt(pull[r].listing, pull[r].seen))
        >= Cardinality(pull[r].listing)
  BY <1>1, <1>2, <1>3, <1>4 DEF PageInHand, WindowIsExhausted, RowsThroughThisPage
<1>6. Place(pull[r].listing, i) < pull[r].seen \/ i \in RowsAt(pull[r].listing, pull[r].seen)
  BY <1>2, <1>5, ExhaustedReachesAll
<1>7. Place(pull[r].listing, i) < pull[r].seen \/ i \in pull[r].page.rows
  BY <1>1, <1>6 DEF PageInHand
<1>8. QED
  BY <1>7, DerivedReturns

\* A derived page retires nothing the aggregator returned.
LEMMA DeriveRetires ==
  ASSUME WindowInv, NEW r \in Runs, Derive(r)
  PROVE  OnlyUnreturnedIsRetired'
<1> SUFFICES ASSUME NEW i \in Held(trades') \ Shown(trades')
             PROVE  i \in missing' \cup restated'
  BY DEF OnlyUnreturnedIsRetired, Held, Shown
<1> DEFINE page   == pull[r].page
           n      == pull[r].response
           opened == Opened(pull[r].window, n, page)
           retired == /\ Concludes(opened, page)
                      /\ i \in Shown(trades) \cap Dated(page.start, page.end)
                      /\ trades[i].raw \notin opened.pages
<1>1. i \in Trades /\ n \in Nat
  BY DEF Held, WindowInv, Typed, PullRecord
<1>2. PageInHand(pull[r])
  BY DEF WindowInv, PullInv, Derive
<1>3. /\ i \in Converted(page) => trades'[i] = [raw |-> n, removed |-> 0]
      /\ i \notin Converted(page) /\ retired =>
            trades'[i] = [raw |-> trades[i].raw, removed |-> n]
      /\ i \notin Converted(page) /\ ~ retired => trades'[i] = trades[i]
  BY <1>1, DerivedRow DEF WindowInv
<1>4. /\ missing' = (missing \ Converted(page)) \cup (Converted(page) \ reported)
      /\ restated' = (restated \ Converted(page)) \cup page.unknown
  BY DEF Derive
<1>5. i \notin Converted(page)
  BY <1>1, <1>3 DEF Held, Shown
<1>6. CASE ~ retired
  <2>1. i \in Held(trades) \ Shown(trades)
    BY <1>3, <1>5, <1>6 DEF Held, Shown
  <2>2. QED
    BY <1>4, <1>5, <2>1 DEF WindowInv, OnlyUnreturnedIsRetired
<1>7. CASE retired
  <2>1. i \in Dated(pull[r].start, pull[r].end)
    BY <1>2, <1>7 DEF PageInHand
  <2>2. CASE i \notin pull[r].listing
    BY <1>2, <1>4, <1>5, <2>1, <2>2 DEF PageInHand
  <2>3. CASE i \in pull[r].listing
    <3>1. i \in restated' \/ i \in Shown(trades')
      BY <1>7, <2>3, ConcludedReturnsAll DEF Concludes
    <3>2. QED
      BY <3>1
  <2>4. QED
    BY <2>2, <2>3
<1>8. QED
  BY <1>6, <1>7

\* A pull that concludes shows what was listed in its window.
LEMMA DeriveConcludes ==
  ASSUME OnePullAtATime, WindowInv, NEW r \in Runs, Derive(r)
  PROVE  WholeWindowIsExact'
<1> DEFINE page   == pull[r].page
           n      == pull[r].response
           opened == Opened(pull[r].window, n, page)
           shown  == Shown(trades') \cap Dated(pull[r].start, pull[r].end)
<1>1. /\ pull'[r].start = pull[r].start /\ pull'[r].end = pull[r].end
      /\ pull'[r].listing = pull[r].listing
      /\ pull'[r].whole = Concludes(opened, page)
  BY DeriveEffect DEF WindowInv
<1>2. SUFFICES ASSUME Concludes(opened, page)
               PROVE  shown \subseteq pull[r].listing /\ pull[r].listing \ shown \subseteq restated'
  BY <1>1 DEF WholeWindowIsExact, OnePullAtATime, Shown, Held
<1>3. PageInHand(pull[r]) /\ LatestArchived(pull[r])
  BY DEF WindowInv, PullInv, Derive
<1>4. n \in Nat /\ n >= 1 /\ pull[r].window \in [opened : BOOLEAN, pages : SUBSET Nat]
      /\ page \in Page
  BY <1>3 DEF WindowInv, Typed, PullRecord, LatestArchived
<1>5. ASSUME NEW i \in shown PROVE i \in pull[r].listing
  <2> DEFINE retired == /\ Concludes(opened, page)
                        /\ i \in Shown(trades) \cap Dated(page.start, page.end)
                        /\ trades[i].raw \notin opened.pages
  <2>1. i \in Trades
    BY DEF Shown, Held
  <2>2. /\ i \in Converted(page) => trades'[i] = [raw |-> n, removed |-> 0]
        /\ i \notin Converted(page) /\ retired =>
              trades'[i] = [raw |-> trades[i].raw, removed |-> n]
        /\ i \notin Converted(page) /\ ~ retired => trades'[i] = trades[i]
    BY <2>1, DerivedRow DEF WindowInv
  <2>3. trades'[i].removed = 0 /\ i \in Held(trades')
    BY DEF Shown
  <2>4. trades'[i].raw \in opened.pages
    <3>1. CASE i \in Converted(page)
      BY <1>4, <2>2, <3>1, OpenedTyped
    <3>2. CASE i \notin Converted(page)
      <4>1. ~ retired
        BY <1>4, <2>2, <2>3, <3>2
      <4>2. trades'[i] = trades[i] /\ i \in Shown(trades)
        BY <2>1, <2>2, <2>3, <3>2, <4>1 DEF Shown, Held
      <4>3. i \in Dated(page.start, page.end)
        BY <1>3 DEF PageInHand
      <4>4. QED
        BY <1>2, <4>1, <4>2, <4>3
    <3>3. QED
      BY <3>1, <3>2
  <2>5. QED
    BY <2>3, <2>4, DerivedIsListed
<1>6. ASSUME NEW i \in pull[r].listing, i \notin shown PROVE i \in restated'
  <2>1. i \in Dated(pull[r].start, pull[r].end)
    BY <1>3 DEF PageInHand
  <2>2. i \in restated' \/ i \in Shown(trades')
    BY <1>2, ConcludedReturnsAll DEF Concludes
  <2>3. QED
    BY <1>6, <2>1, <2>2
<1>7. QED
  BY <1>5, <1>6
\* A derived page that is not the last leaves the window paged so far.
LEMMA DerivePages ==
  ASSUME WindowInv, StillWhilePaged, NEW r \in Runs, Derive(r)
  PROVE  PullInv(pull[r])'
<1> DEFINE page   == pull[r].page
           n      == pull[r].response
           window == pull[r].window
           opened == Opened(window, n, page)
           listing == pull[r].listing
<1>1. /\ pull'[r].phase = "done" \/ (pull'[r].phase = "fetch" /\ ~ LastPage(page))
      /\ pull'[r].start = pull[r].start /\ pull'[r].end = pull[r].end
      /\ pull'[r].seen = RowsThroughThisPage(page)
      /\ ~ WindowIsExhausted(page) => pull'[r].window = opened
  BY DeriveEffect DEF WindowInv
<1>2. CASE pull'[r].phase = "done"
  BY <1>2 DEF PullInv
<1>3. CASE pull'[r].phase = "fetch" /\ ~ LastPage(page)
  <2>1. PageInHand(pull[r]) /\ LatestArchived(pull[r])
    BY DEF WindowInv, PullInv, Derive
  <2>2. /\ page \in Page /\ n \in Nat /\ listing \in SUBSET Trades /\ pull[r].seen \in Nat
        /\ window \in [opened : BOOLEAN, pages : SUBSET Nat]
    BY DEF WindowInv, Typed, PullRecord
  <2>3. /\ reported' \cap Dated(pull'[r].start, pull'[r].end) = listing
        /\ pull'[r].window = opened
        /\ pull'[r].seen = pull[r].seen + Cardinality(RowsAt(listing, pull[r].seen))
    BY <1>1, <1>3, <2>1 DEF Derive, PageInHand, LastPage, RowsThroughThisPage
  <2>4. pull'[r].seen > 0
    <3>1. IsFiniteSet(page.rows) /\ page.rows # {}
      BY <1>3, <2>2, FS_Subset, WindowAssumption DEF LastPage, Page, WindowAssumption
    <3>2. Cardinality(page.rows) \in Nat /\ Cardinality(page.rows) # 0
      BY <3>1, FS_CardinalityType, FS_EmptySet
    <3>3. QED
      BY <2>1, <2>2, <2>3, <3>2 DEF PageInHand
  <2>5. ASSUME NEW i \in listing, Place(listing, i) < pull'[r].seen
        PROVE  i \in restated' \/ (i \in Shown(trades') /\ trades'[i].raw \in opened.pages)
    <3>1. Place(listing, i) < pull[r].seen \/ i \in RowsAt(listing, pull[r].seen)
      BY <2>2, <2>3, <2>5, SeenIsPaged
    <3>2. Place(listing, i) < pull[r].seen \/ i \in page.rows
      BY <2>1, <3>1 DEF PageInHand
    <3>3. QED
      BY <3>2, DerivedReturns
  <2>6. ASSUME NEW i \in Held(trades'), trades'[i].raw \in opened.pages
        PROVE  i \in listing
    BY <2>6, DerivedIsListed
  <2>7. BetweenPages(pull[r])'
    BY <2>3, <2>4, <2>5, <2>6
       DEF BetweenPages, Paged, Returned, Held, Shown, Place
  <2>8. QED
    BY <1>3, <2>7 DEF PullInv
<1>4. QED
  BY <1>1, <1>2, <1>3

\* No row is from a page that is not archived.
LEMMA RawsStayArchived ==
  ASSUME WindowInv, NEW r \in Runs, Derive(r), NEW i \in Held(trades')
  PROVE  trades'[i].raw <= Len(archive')
<1>1. i \in Trades
  BY DEF Held
<1>2. LatestArchived(pull[r]) /\ archive' = archive
  BY DEF WindowInv, PullInv, Derive
<1>3. \/ trades'[i] = [raw |-> pull[r].response, removed |-> 0]
      \/ /\ i \in Shown(trades)
         /\ trades'[i] = [raw |-> trades[i].raw, removed |-> pull[r].response]
      \/ trades'[i] = trades[i]
  BY <1>1, DerivedRow DEF WindowInv
<1>4. CASE trades'[i] = [raw |-> pull[r].response, removed |-> 0]
  BY <1>2, <1>4 DEF LatestArchived, WindowInv, Typed
<1>5. CASE i \in Held(trades) /\ trades'[i].raw = trades[i].raw
  BY <1>2, <1>5 DEF WindowInv
<1>6. QED
  BY <1>1, <1>3, <1>4, <1>5 DEF Held, Shown

\* Deriving a page preserves the invariant.
LEMMA DeriveStep ==
  ASSUME OnePullAtATime, StillWhilePaged, WindowInv, NEW r \in Runs, Derive(r)
  PROVE  WindowInv'
<1>1. Typed'
  BY TypedStep DEF WindowInv, Next
<1>2. UnlistedIsMissing'
  <2>1. /\ missing' = (missing \ Converted(pull[r].page)) \cup (Converted(pull[r].page) \ reported)
        /\ reported' = reported
    BY DEF Derive
  <2>2. QED
    BY <2>1 DEF WindowInv, UnlistedIsMissing
<1>3. (\A i \in Held(trades) : trades[i].raw <= Len(archive))'
  BY RawsStayArchived DEF Held
<1>4. (\A s \in Runs : PullInv(pull[s]))'
  <2>1. Runs = {r}
    BY DEF OnePullAtATime
  <2>2. PullInv(pull[r])'
    BY DerivePages
  <2>3. QED
    BY <2>1, <2>2
<1>5. QED
  BY <1>1, <1>2, <1>3, <1>4, DeriveRetires, DeriveConcludes DEF WindowInv

-----------------------------------------------------------------------------
(***************************************************************************)
(* The other steps.                                                        *)
(***************************************************************************)

\* Without a derivation the rows stay as they are, and so does what is said of them.
LEMMA RowsUntouched ==
  ASSUME WindowInv, UNCHANGED <<trades, restated>>, missing \subseteq missing',
         Len(archive') >= Len(archive), Len(archive') \in Nat
  PROVE  /\ OnlyUnreturnedIsRetired'
         /\ (\A i \in Held(trades) : trades[i].raw <= Len(archive))'
         /\ \A p, listing : Paged(p, listing) <=> Paged(p, listing)'
<1>1. OnlyUnreturnedIsRetired'
  BY DEF WindowInv, OnlyUnreturnedIsRetired, Held, Shown
<1>2. ASSUME NEW i \in Held(trades) PROVE trades[i].raw <= Len(archive')
  <2>1. trades[i].raw \in Nat
    BY DEF WindowInv, Typed, Held, Row
  <2>2. Len(archive) \in Nat /\ trades[i].raw <= Len(archive)
    BY DEF WindowInv, Typed
  <2>3. QED
    BY <2>1, <2>2
<1>3. QED
  BY <1>1, <1>2 DEF Paged, Returned, Held, Shown, Place
\* A step of the aggregator or the calendar: a listing that is being paged stands still.
LEMMA OutsideStep ==
  ASSUME WindowInv, StillWhilePaged, Typed', UnlistedIsMissing',
         UNCHANGED <<store, pull, restated>>, missing \subseteq missing',
         reported' = reported \/ ListingMayMove
  PROVE  WindowInv'
<1>1. trades' = trades /\ archive' = archive /\ pull' = pull /\ restated' = restated
  BY DEF store
<1>2. Len(archive') \in Nat /\ Len(archive') >= Len(archive)
  BY <1>1 DEF WindowInv, Typed
<1>3. /\ OnlyUnreturnedIsRetired'
      /\ (\A i \in Held(trades) : trades[i].raw <= Len(archive))'
      /\ \A p, listing : Paged(p, listing) <=> Paged(p, listing)'
  BY <1>1, <1>2, RowsUntouched
<1>4. WholeWindowIsExact'
  BY <1>1 DEF WindowInv, WholeWindowIsExact, Shown, Held
<1>5. ASSUME NEW r \in Runs PROVE PullInv(pull[r])'
  <2> DEFINE p == pull[r]
  <2>1. PullInv(p) /\ p \in PullRecord
    BY DEF WindowInv, Typed
  <2>2. CASE p.phase = "fetch"
    <3>1. p.seen > 0 => reported' = reported
      BY <2>2 DEF ListingMayMove, Paging
    <3>2. BetweenPages(p)
      BY <2>1, <2>2 DEF PullInv
    <3>3. BetweenPages(pull[r])'
      BY <1>1, <3>1, <3>2 DEF BetweenPages, Paged, Returned, Held, Shown, Place
    <3>4. QED
      BY <1>1, <2>2, <3>3 DEF PullInv
  <2>3. CASE p.phase \in {"archive", "derive"}
    <3>1. ~ LastPage(p.page) => reported' = reported
      BY <2>3 DEF ListingMayMove, Paging
    <3>2. PageInHand(p)
      BY <2>1, <2>3 DEF PullInv
    <3>3. PageInHand(pull[r])'
      BY <1>1, <3>1, <3>2 DEF PageInHand, Paged, Returned, Held, Shown, Place, RowsAt, LastPage,
         WindowIsExhausted, RowsThroughThisPage, Dated
    <3>4. p.phase = "derive" => LatestArchived(pull[r])'
      BY <1>1, <2>1 DEF PullInv, LatestArchived, Held
    <3>5. QED
      BY <1>1, <2>3, <3>3, <3>4 DEF PullInv
  <2>4. CASE p.phase \notin {"fetch", "archive", "derive"}
    BY <1>1, <2>4 DEF PullInv
  <2>5. QED
    BY <2>2, <2>3, <2>4
<1>6. QED
  BY <1>3, <1>4, <1>5 DEF WindowInv

\* A step of the pull that neither derives nor concludes.
LEMMA PullStep ==
  ASSUME OnePullAtATime, WindowInv, NEW r \in Runs, Typed',
         UNCHANGED <<reported, trades, missing, restated>>,
         Len(archive') >= Len(archive), Len(archive') \in Nat,
         pull'[r].phase # "done", PullInv(pull[r])'
  PROVE  WindowInv'
<1>1. /\ OnlyUnreturnedIsRetired'
      /\ (\A i \in Held(trades) : trades[i].raw <= Len(archive))'
  BY RowsUntouched
<1>2. Runs = {r}
  BY DEF OnePullAtATime
<1>3. WholeWindowIsExact'
  BY <1>2 DEF WholeWindowIsExact
<1>4. UnlistedIsMissing'
  BY DEF WindowInv, UnlistedIsMissing
<1>5. QED
  BY <1>1, <1>2, <1>3, <1>4 DEF WindowInv

\* A pull begins with no window.
LEMMA StartStep ==
  ASSUME OnePullAtATime, WindowInv, NEW r \in Runs, Start(r), Typed'
  PROVE  WindowInv'
<1>1. pull'[r].phase = "fetch" /\ pull'[r].seen = 0 /\ pull'[r].window = NoWindow
  BY DEF Start, WindowInv, Typed, IdlePull
<1>2. PullInv(pull[r])'
  BY <1>1 DEF PullInv, BetweenPages
<1>3. UNCHANGED <<reported, trades, archive, missing, restated>> /\ Len(archive) \in Nat
  BY DEF Start, store, history, WindowInv, Typed
<1>4. QED
  BY <1>1, <1>2, <1>3, PullStep

\* A fetched page is the next one of what is listed now.
LEMMA FetchStep ==
  ASSUME OnePullAtATime, WindowInv, NEW r \in Runs, Fetch(r), Typed'
  PROVE  WindowInv'
<1>1. UNCHANGED <<reported, trades, archive, missing, restated>> /\ Len(archive) \in Nat
  BY DEF Fetch, store, history, WindowInv, Typed
<1> DEFINE p == pull[r]
           listing == reported \cap Dated(p.start, p.end)
<1>2. Listing(r) = listing /\ listing \in SUBSET Trades
  BY DEF Listing, WindowInv, Typed
<1>3. PICK total \in Nat \cup {NoTotal}, unknown \in SUBSET Trades :
        LET page == [start |-> p.start, end |-> p.end, offset |-> p.seen,
                     rows |-> RowsAt(listing, p.seen), unknown |-> unknown, total |-> total]
        IN /\ unknown \subseteq page.rows
           /\ total # NoTotal => total >= Cardinality(listing)
           /\ pull' = [pull EXCEPT ![r] = [p EXCEPT !.phase = "archive", !.page = page,
                                                    !.listing = listing]]
  BY <1>2, FetchEffect DEF WindowInv
<1> DEFINE page == [start |-> p.start, end |-> p.end, offset |-> p.seen,
                    rows |-> RowsAt(listing, p.seen), unknown |-> unknown, total |-> total]
<1>4. p \in PullRecord /\ p.phase = "fetch"
  BY DEF WindowInv, Typed, Fetch
<1>5. /\ pull'[r].phase = "archive" /\ pull'[r].page = page /\ pull'[r].listing = listing
      /\ pull'[r].start = p.start /\ pull'[r].end = p.end
      /\ pull'[r].seen = p.seen /\ pull'[r].window = p.window
  BY <1>3, <1>4 DEF WindowInv, Typed, PullRecord
<1>6. BetweenPages(p)
  BY <1>4 DEF WindowInv, PullInv
<1>7. Paged(p, listing)
  <2>1. CASE p.seen = 0
    <3>1. \A i \in listing : Place(listing, i) \in Nat
      BY <1>2, PlaceBounded
    <3>2. p.window.pages = {}
      BY <1>6, <2>1 DEF BetweenPages, NoWindow
    <3>3. QED
      BY <2>1, <3>1, <3>2 DEF Paged
  <2>2. CASE p.seen # 0
    BY <1>4, <1>6, <2>2 DEF BetweenPages, PullRecord
  <2>3. QED
    BY <2>1, <2>2
<1>8. Dated(p.start, p.end) \ listing \subseteq missing
  BY DEF WindowInv, UnlistedIsMissing, Dated
<1>9. PageInHand(pull[r])'
  <2>1. Paged(pull'[r], listing)
    BY <1>5, <1>7 DEF Paged
  <2>2. Paged(pull[r], pull[r].listing)'
    BY <1>1, <1>5, <2>1 DEF Paged, Returned, Held, Shown, Place
  <2>3. /\ page.start = p.start /\ page.end = p.end /\ page.offset = p.seen
        /\ page.rows = RowsAt(listing, p.seen)
        /\ page.unknown \subseteq page.rows
        /\ page.total # NoTotal => page.total >= Cardinality(listing)
        /\ listing \subseteq Dated(p.start, p.end)
    BY <1>3
  <2> HIDE DEF page
  <2>4. QED
    BY <1>1, <1>5, <1>8, <2>2, <2>3 DEF PageInHand, RowsAt, Place, Dated
<1>10. PullInv(pull[r])'
  BY <1>5, <1>9 DEF PullInv
<1>11. QED
  BY <1>1, <1>5, <1>10, PullStep

\* Archiving keeps the page in hand and makes it the latest.
LEMMA ArchiveStep ==
  ASSUME OnePullAtATime, WindowInv, NEW r \in Runs, Archive(r), Typed'
  PROVE  WindowInv'
<1>1. UNCHANGED <<reported, trades, missing, restated>>
  BY DEF Archive, history
<1>2. Len(archive') = Len(archive) + 1 /\ Len(archive) \in Nat
  BY DEF Archive, WindowInv, Typed
<1>3. /\ pull'[r].phase = "derive" /\ pull'[r].response = Len(archive')
      /\ pull'[r].page = pull[r].page /\ pull'[r].listing = pull[r].listing
      /\ pull'[r].start = pull[r].start /\ pull'[r].end = pull[r].end
      /\ pull'[r].seen = pull[r].seen /\ pull'[r].window = pull[r].window
  BY DEF Archive, WindowInv, Typed, PullRecord
<1>4. PageInHand(pull[r])
  BY DEF Archive, WindowInv, PullInv
<1>5. PageInHand(pull[r])'
  BY <1>1, <1>3, <1>4 DEF PageInHand, Paged, Returned, Held, Shown, Place, RowsAt, LastPage,
     WindowIsExhausted, RowsThroughThisPage, Dated
<1>6. LatestArchived(pull[r])'
  <2>1. ASSUME NEW i \in Held(trades) PROVE trades[i].raw < Len(archive')
    <3>1. trades[i].raw \in Nat /\ trades[i].raw <= Len(archive)
      BY DEF WindowInv, Typed, Held, Row
    <3>2. QED
      BY <1>2, <3>1
  <2>2. QED
    BY <1>1, <1>2, <1>3, <2>1 DEF LatestArchived, Held
<1>7. PullInv(pull[r])'
  BY <1>3, <1>5, <1>6 DEF PullInv
<1>8. QED
  BY <1>1, <1>2, <1>3, <1>7, PullStep

\* A pull that is stopped leaves nothing in hand.
LEMMA StopStep ==
  ASSUME OnePullAtATime, WindowInv, NEW r \in Runs, Stop(r), Typed'
  PROVE  WindowInv'
<1>1. pull'[r].phase = "idle"
  BY DEF Stop, WindowInv, Typed, IdlePull
<1>2. PullInv(pull[r])'
  BY <1>1 DEF PullInv
<1>3. UNCHANGED <<reported, trades, archive, missing, restated>> /\ Len(archive) \in Nat
  BY DEF Stop, store, history, WindowInv, Typed
<1>4. QED
  BY <1>1, <1>2, <1>3, PullStep

-----------------------------------------------------------------------------
(***************************************************************************)
(* The theorems.                                                           *)
(***************************************************************************)

\* The types hold at the start.
LEMMA TypedInit ==
  ASSUME Init
  PROVE  Typed
<1>1. NoPage \in Page
  BY DEF NoPage, Page, Dates
<1>2. NoWindow \in [opened : BOOLEAN, pages : SUBSET Nat]
  BY DEF NoWindow
<1>3. IdlePull \in PullRecord
  BY <1>1, <1>2 DEF IdlePull, PullRecord, Dates
<1>4. QED
  BY <1>3 DEF Init, Typed, NoTrades

\* Nothing is in hand at the start.
LEMMA WindowInit ==
  ASSUME Init
  PROVE  WindowInv
<1>1. Typed
  BY TypedInit
<1>2. Held(trades) = {}
  BY DEF Init, NoTrades, Held
<1>3. \A r \in Runs : pull[r].phase = "idle"
  BY DEF Init, IdlePull
<1>4. QED
  BY <1>1, <1>2, <1>3
     DEF Init, WindowInv, UnlistedIsMissing, PullInv, OnlyUnreturnedIsRetired, WholeWindowIsExact

\* Every step preserves the invariant.
LEMMA WindowStep ==
  ASSUME OnePullAtATime, StillWhilePaged, WindowInv, [Next]_vars
  PROVE  WindowInv'
<1>1. Typed'
  BY TypedStep DEF WindowInv
<1>2. CASE UNCHANGED vars
  BY <1>1, <1>2, OutsideStep DEF WindowInv, UnlistedIsMissing, vars, store
<1>3. CASE DayPasses
  BY <1>1, <1>3, OutsideStep DEF WindowInv, UnlistedIsMissing, DayPasses, history
<1>4. ASSUME NEW i \in Trades, List(i) PROVE WindowInv'
  BY <1>1, <1>4, OutsideStep DEF WindowInv, UnlistedIsMissing, List, history
<1>5. ASSUME NEW i \in Trades, Withdraw(i) PROVE WindowInv'
  BY <1>1, <1>5, OutsideStep DEF WindowInv, UnlistedIsMissing, Withdraw
<1>6. ASSUME NEW r \in Runs, Start(r) PROVE WindowInv'
  BY <1>1, <1>6, StartStep
<1>7. ASSUME NEW r \in Runs, Fetch(r) PROVE WindowInv'
  BY <1>1, <1>7, FetchStep
<1>8. ASSUME NEW r \in Runs, Archive(r) PROVE WindowInv'
  BY <1>1, <1>8, ArchiveStep
<1>9. ASSUME NEW r \in Runs, Derive(r) PROVE WindowInv'
  BY <1>9, DeriveStep
<1>10. ASSUME NEW r \in Runs, Stop(r) PROVE WindowInv'
  BY <1>1, <1>10, StopStep
<1>11. QED
  BY <1>2, <1>3, <1>4, <1>5, <1>6, <1>7, <1>8, <1>9, <1>10 DEF Next

(***************************************************************************)
(* With one pull at a time over listings that stand still while they are   *)
(* paged, a trade is retired only when the aggregator ceased to list it or *)
(* returned it in an unknown unit: never because a window was seen in      *)
(* part, was abandoned, or has moved past its date.                        *)
(***************************************************************************)
THEOREM NothingReturnedIsRetired ==
  ASSUME OnePullAtATime, StillWhilePaged
  PROVE  Spec => []OnlyUnreturnedIsRetired
<1>1. Init => WindowInv
  BY WindowInit
<1>2. WindowInv /\ [Next]_vars => WindowInv'
  BY WindowStep
<1>3. WindowInv => OnlyUnreturnedIsRetired
  BY DEF WindowInv
<1>4. QED
  BY <1>1, <1>2, <1>3, PTL DEF Spec

(***************************************************************************)
(* Under the same assumptions, a pull that ends having concluded shows of  *)
(* its window what the aggregator listed there, less what came in an       *)
(* unknown unit.                                                           *)
(***************************************************************************)
THEOREM ConcludedWindowIsExact ==
  ASSUME OnePullAtATime, StillWhilePaged
  PROVE  Spec => []WholeWindowIsExact
<1>1. Init => WindowInv
  BY WindowInit
<1>2. WindowInv /\ [Next]_vars => WindowInv'
  BY WindowStep
<1>3. WindowInv => WholeWindowIsExact
  BY DEF WindowInv
<1>4. QED
  BY <1>1, <1>2, <1>3, PTL DEF Spec

-----------------------------------------------------------------------------
(***************************************************************************)
(* The measured range, and what points into the archive.                   *)
(***************************************************************************)

\* A set of days that is not empty has an earliest one.
LEMMA EarliestOf ==
  ASSUME NEW S \in SUBSET Nat, S # {}
  PROVE  Earliest(S) \in S /\ \A d \in S : Earliest(S) <= d
<1> DEFINE R == OpToRel(<, Nat)
<1>1. IsWellFoundedOn(R, Nat)
  BY NatLessThanWellFounded
<1>2. \A y, x \in Nat : y < x => <<y, x>> \in R
  BY DEF OpToRel
<1> HIDE DEF R
<1>3. PICK x \in S : \A y \in S : ~ (<<y, x>> \in R)
  BY <1>1, WFMin
<1>4. \A y \in S : x <= y
  <2> SUFFICES ASSUME NEW y \in S PROVE x <= y
    OBVIOUS
  <2>1. x \in Nat /\ y \in Nat /\ ~ (y < x)
    BY <1>2, <1>3
  <2>2. QED
    BY <2>1
<1>5. QED
  BY <1>3, <1>4 DEF Earliest

\* A measured range starts on a day that is shown, and on the earliest one.
LEMMA MeasuredIsEarliest ==
  ASSUME NEW start, NEW old, NEW table, NEW page
  PROVE  LET dates == DatesShown(table, page)
         IN /\ dates \in SUBSET Nat
            /\ dates = {} => Measured(start, old, table, page) = start
            /\ dates # {} => /\ Measured(start, old, table, page) \in dates
                             /\ \A d \in dates : Measured(start, old, table, page) <= d
<1> DEFINE dates == DatesShown(table, page)
<1>1. dates \in SUBSET Nat
  BY WindowAssumption DEF DatesShown, Shown, Held, WindowAssumption
<1>2. Measured(start, old, table, page) = IF dates = {} THEN start ELSE Earliest(dates)
  BY DEF Measured
<1> HIDE DEF dates
<1>3. QED
  BY <1>1, <1>2, EarliestOf DEF dates

\* A page that is in hand is of the pull's own window.
PageIsOfPull(p) ==
  p.phase \in {"archive", "derive"} => p.page.start = p.start /\ p.page.end = p.end

RangeInv ==
  /\ Typed
  /\ \A r \in Runs : PageIsOfPull(pull[r])
  /\ RangeIsOfWhatIsShown

\* A step that derives nothing and ends no pull leaves the range as it is.
LEMMA RangeUntouched ==
  ASSUME OnePullAtATime, RangeInv, Typed', UNCHANGED <<trades, historyStart>>, NEW r \in Runs,
         pull'[r].phase = "done" => pull'[r] = pull[r], PageIsOfPull(pull[r])'
  PROVE  RangeInv'
BY DEF OnePullAtATime, RangeInv, RangeIsOfWhatIsShown, Shown, Held

LEMMA RangeStep ==
  ASSUME OnePullAtATime, RangeInv, [Next]_vars
  PROVE  RangeInv'
<1>1. Typed /\ Typed'
  BY TypedStep DEF RangeInv
<1>2. ASSUME UNCHANGED <<trades, historyStart, pull>> PROVE RangeInv'
  BY <1>1, <1>2 DEF RangeInv, PageIsOfPull, RangeIsOfWhatIsShown, Shown, Held
<1>3. ASSUME NEW r \in Runs, Start(r) \/ Stop(r) PROVE RangeInv'
  <2>1. pull'[r].phase \in {"fetch", "idle"} /\ UNCHANGED <<trades, historyStart>>
    <3>1. CASE Start(r)
      BY <1>1, <3>1 DEF Start, Typed, IdlePull, store
    <3>2. CASE Stop(r)
      BY <1>1, <3>2 DEF Stop, Typed, IdlePull, store
    <3>3. QED
      BY <1>3, <3>1, <3>2
  <2>2. QED
    BY <1>1, <2>1, RangeUntouched DEF PageIsOfPull
<1>4. ASSUME NEW r \in Runs, Fetch(r) PROVE RangeInv'
  <2>1. UNCHANGED <<trades, historyStart>> /\ pull[r] \in PullRecord
    <3>1. pull[r] \in PullRecord
      BY <1>1 DEF Typed
    <3>2. UNCHANGED store
      BY <1>4 DEF Fetch
    <3>3. QED
      BY <3>1, <3>2 DEF store
  <2> DEFINE p == pull[r]
             listing == Listing(r)
  <2>2. PICK total \in Nat \cup {NoTotal}, unknown \in SUBSET Trades :
          LET page == [start |-> p.start, end |-> p.end, offset |-> p.seen,
                       rows |-> RowsAt(listing, p.seen), unknown |-> unknown, total |-> total]
          IN pull' = [pull EXCEPT ![r] = [p EXCEPT !.phase = "archive", !.page = page,
                                                   !.listing = listing]]
    BY <1>1, <1>4, FetchEffect
  <2> DEFINE page == [start |-> p.start, end |-> p.end, offset |-> p.seen,
                      rows |-> RowsAt(listing, p.seen), unknown |-> unknown, total |-> total]
  <2>3. page.start = p.start /\ page.end = p.end
    OBVIOUS
  <2>4. /\ pull'[r].phase = "archive" /\ pull'[r].page = page
        /\ pull'[r].start = p.start /\ pull'[r].end = p.end
    BY <1>1, <2>1, <2>2 DEF Typed, PullRecord
  <2>5. QED
    BY <1>1, <2>1, <2>3, <2>4, RangeUntouched DEF PageIsOfPull
<1>5. ASSUME NEW r \in Runs, Archive(r) PROVE RangeInv'
  <2>1. UNCHANGED <<trades, historyStart>> /\ PageIsOfPull(pull[r]) /\ pull[r].phase = "archive"
    BY <1>5 DEF Archive, RangeInv
  <2>2. /\ pull'[r].phase = "derive" /\ pull'[r].page = pull[r].page
        /\ pull'[r].start = pull[r].start /\ pull'[r].end = pull[r].end
    BY <1>1, <1>5 DEF Archive, Typed, PullRecord
  <2>3. QED
    BY <1>1, <2>1, <2>2, RangeUntouched DEF PageIsOfPull
<1>6. ASSUME NEW r \in Runs, Derive(r) PROVE RangeInv'
  <2> DEFINE page == pull[r].page
             opened == Opened(pull[r].window, pull[r].response, page)
  <2>1. /\ pull'[r].phase \in {"done", "fetch"}
        /\ pull'[r].start = pull[r].start /\ pull'[r].end = pull[r].end
        /\ pull'[r].whole = Concludes(opened, page)
    BY <1>1, <1>6, DeriveEffect
  <2>2. page.start = pull[r].start /\ page.end = pull[r].end
    BY <1>6 DEF RangeInv, PageIsOfPull, Derive
  <2>3. pull'[r].whole => historyStart' = Measured(historyStart, trades, trades', page)
    BY <1>6, <2>1 DEF Derive
  <2> DEFINE dates == {TradeDate[i] : i \in Shown(trades') \cap Dated(pull'[r].start, pull'[r].end)}
  <2>4. dates = DatesShown(trades', page)
    BY <2>1, <2>2 DEF DatesShown
  <2>5. pull'[r].whole /\ dates # {} =>
          historyStart' \in dates /\ \A d \in dates : historyStart' <= d
    BY <2>3, <2>4, MeasuredIsEarliest
  <2>6. RangeIsOfWhatIsShown'
    BY <2>5 DEF RangeIsOfWhatIsShown, OnePullAtATime, Shown, Held
  <2>7. QED
    BY <1>1, <2>1, <2>6 DEF RangeInv, PageIsOfPull, OnePullAtATime
<1>7. CASE DayPasses \/ (\E i \in Trades : List(i) \/ Withdraw(i)) \/ UNCHANGED vars
  BY <1>2, <1>7 DEF DayPasses, List, Withdraw, vars, store
<1>8. QED
  BY <1>3, <1>4, <1>5, <1>6, <1>7 DEF Next

(***************************************************************************)
(* With one pull at a time, the recorded start of the history is the       *)
(* earliest date a concluded pull leaves shown in its window, whether or   *)
(* not the listing moved while it was paged (AC-3.3).                      *)
(***************************************************************************)
THEOREM RangeIsTrue ==
  ASSUME OnePullAtATime
  PROVE  Spec => []RangeIsOfWhatIsShown
<1>1. Init => RangeInv
  BY TypedInit DEF Init, IdlePull, RangeInv, PageIsOfPull, RangeIsOfWhatIsShown
<1>2. RangeInv /\ [Next]_vars => RangeInv'
  BY RangeStep
<1>3. RangeInv => RangeIsOfWhatIsShown
  BY DEF RangeInv
<1>4. QED
  BY <1>1, <1>2, <1>3, PTL DEF Spec

\* Where a pull's response ids point, and how many pages it has fetched.
PullPoints(p) ==
  /\ p.fetched <= MAX_PAGES_PER_RUN
  /\ p.phase \in {"fetch", "archive", "derive"} => p.fetched < MAX_PAGES_PER_RUN
  /\ p.window.pages \subseteq DOMAIN archive
  /\ p.response \in 0 .. Len(archive)
  /\ p.phase = "derive" => p.response \in DOMAIN archive

\* A row is of a page that was derived, and so is its removal.
RowsAreDerived ==
  \A i \in Held(trades) : trades[i].raw \in derived /\ trades[i].removed \in {0} \cup derived

TypeInv ==
  /\ Typed /\ today \in 0 .. MaxDay /\ faults \in 0 .. MaxFaults
  /\ historyStart \in Nat \cup {NoTotal} /\ derived \subseteq DOMAIN archive
  /\ RowsAreDerived
  /\ \A r \in Runs : PullPoints(pull[r])

\* A step of one pull that leaves the rows and what was derived alone.
LEMMA PointsUntouched ==
  ASSUME TypeInv, Typed', NEW r \in Runs, \A s \in Runs \ {r} : pull'[s] = pull[s],
         UNCHANGED <<today, trades, historyStart, derived>>, faults' \in 0 .. MaxFaults,
         DOMAIN archive \subseteq DOMAIN archive', Len(archive) <= Len(archive'),
         PullPoints(pull[r])'
  PROVE  TypeInv'
<1>1. Len(archive) \in Nat /\ Len(archive') \in Nat
  BY DEF TypeInv, Typed
<1>2. ASSUME NEW s \in Runs PROVE PullPoints(pull[s])'
  <2>1. CASE s # r
    BY <1>1, <1>2, <2>1 DEF TypeInv, PullPoints
  <2>2. QED
    BY <2>1
<1>3. RowsAreDerived'
  BY DEF TypeInv, RowsAreDerived, Held
<1>4. QED
  BY <1>2, <1>3 DEF TypeInv

LEMMA DerivePoints ==
  ASSUME TypeInv, Typed', NEW r \in Runs, Derive(r)
  PROVE  TypeInv'
<1> DEFINE page   == pull[r].page
           n      == pull[r].response
           opened == Opened(pull[r].window, n, page)
<1>1. /\ Typed /\ pull[r] \in PullRecord /\ n \in DOMAIN archive /\ n \in Nat /\ page \in Page
      /\ pull[r].window \in [opened : BOOLEAN, pages : SUBSET Nat] /\ PullPoints(pull[r])
      /\ UNCHANGED <<today, archive, faults>> /\ derived' = derived \cup {n}
      /\ pull[r].phase = "derive"
  BY DEF TypeInv, Typed, PullRecord, PullPoints, Derive
<1>2. RowsAreDerived'
  <2> SUFFICES ASSUME NEW i \in Held(trades')
               PROVE  trades'[i].raw \in derived' /\ trades'[i].removed \in {0} \cup derived'
    BY DEF RowsAreDerived
  <2>1. i \in Trades
    BY DEF Held
  <2>2. \/ trades'[i] = [raw |-> n, removed |-> 0]
        \/ i \in Shown(trades) /\ trades'[i] = [raw |-> trades[i].raw, removed |-> n]
        \/ trades'[i] = trades[i]
    BY <1>1, <2>1, DerivedRow
  <2>3. CASE trades'[i] = [raw |-> n, removed |-> 0]
    BY <1>1, <2>3
  <2>4. CASE i \in Shown(trades) /\ trades'[i] = [raw |-> trades[i].raw, removed |-> n]
    <3>1. trades[i].raw \in derived
      BY <2>4 DEF TypeInv, RowsAreDerived, Shown
    <3>2. QED
      BY <1>1, <2>4, <3>1
  <2>5. CASE trades'[i] = trades[i]
    <3>1. i \in Held(trades)
      BY <2>1, <2>5 DEF Held
    <3>2. QED
      BY <1>1, <2>5, <3>1 DEF TypeInv, RowsAreDerived
  <2>6. QED
    BY <2>2, <2>3, <2>4, <2>5
<1>3. historyStart' \in Nat \cup {NoTotal}
  <2>1. historyStart' = historyStart
        \/ historyStart' = Measured(historyStart, trades, trades', page)
    BY DEF Derive
  <2>2. historyStart \in Nat \cup {NoTotal}
    BY DEF TypeInv
  <2>3. QED
    BY <2>1, <2>2, MeasuredIsEarliest
<1>4. PullPoints(pull[r])'
  <2> DEFINE state == Observed([table |-> trades, window |-> pull[r].window], n, page)
             turn == IF LastPage(page) \/ pull[r].fetched + 1 = MAX_PAGES_PER_RUN THEN "done"
                     ELSE "fetch"
  <2>1. pull'[r] = [pull[r] EXCEPT !.phase = turn, !.fetched = pull[r].fetched + 1,
                       !.seen = RowsThroughThisPage(page), !.window = state.window,
                       !.whole = Concludes(opened, page)]
    BY <1>1 DEF Derive, Typed
  <2>2. /\ pull'[r].phase = turn /\ pull'[r].fetched = pull[r].fetched + 1
        /\ pull'[r].window = state.window /\ pull'[r].response = n
    BY <1>1, <2>1 DEF PullRecord
  <2>3. pull[r].fetched \in Nat /\ pull[r].fetched < MAX_PAGES_PER_RUN
        /\ MAX_PAGES_PER_RUN \in Nat
    BY <1>1, WindowAssumption DEF PullRecord, PullPoints, WindowAssumption
  <2>4. state.window \in {NoWindow, opened}
    BY DEF Observed
  <2>5. opened.pages \subseteq pull[r].window.pages \cup {n}
    BY <1>1, OpenedTyped
  <2>6. state.window.pages \subseteq DOMAIN archive
    BY <1>1, <2>4, <2>5 DEF NoWindow, PullPoints
  <2>7. turn # "derive" /\ (turn = "fetch" => pull[r].fetched + 1 # MAX_PAGES_PER_RUN)
        /\ turn \in {"done", "fetch"}
    OBVIOUS
  <2> HIDE DEF turn, state
  <2>8. QED
    BY <1>1, <2>2, <2>3, <2>6, <2>7 DEF PullPoints
<1>5. ASSUME NEW s \in Runs PROVE PullPoints(pull[s])'
  <2>1. CASE s # r
    BY <1>1, <1>5, <2>1, DeriveEffect DEF TypeInv, PullPoints
  <2>2. QED
    BY <1>4, <2>1
<1>6. QED
  BY <1>1, <1>2, <1>3, <1>5 DEF TypeInv

LEMMA TypeStep ==
  ASSUME TypeInv, [Next]_vars
  PROVE  TypeInv'
<1>1. Typed /\ Typed'
  BY TypedStep DEF TypeInv
<1>2. MaxFaults \in Nat /\ MaxDay \in Nat /\ MAX_PAGES_PER_RUN \in Nat \ {0}
      /\ faults \in 0 .. MaxFaults /\ Len(archive) \in Nat
  BY <1>1, WindowAssumption DEF WindowAssumption, TypeInv, Typed
<1>3. CASE DayPasses \/ (\E i \in Trades : List(i) \/ Withdraw(i)) \/ UNCHANGED vars
  <2>1. UNCHANGED <<trades, archive, historyStart, pull, faults, derived>>
    BY <1>3 DEF DayPasses, List, Withdraw, vars, store, history
  <2>2. today' \in 0 .. MaxDay
    BY <1>2, <1>3 DEF DayPasses, List, Withdraw, vars, TypeInv
  <2>3. QED
    BY <1>1, <2>1, <2>2 DEF TypeInv, RowsAreDerived, PullPoints, Held
<1>4. ASSUME NEW r \in Runs, Start(r) PROVE TypeInv'
  <2>1. /\ pull'[r].phase = "fetch" /\ pull'[r].fetched = 0 /\ pull'[r].window = NoWindow
        /\ pull'[r].response = 0 /\ \A s \in Runs \ {r} : pull'[s] = pull[s]
    BY <1>1, <1>4 DEF Start, Typed, IdlePull
  <2>2. UNCHANGED <<today, trades, historyStart, derived, faults, archive>>
    BY <1>4 DEF Start, store, history
  <2>3. QED
    BY <1>1, <1>2, <2>1, <2>2, PointsUntouched DEF PullPoints, NoWindow
<1>5. ASSUME NEW r \in Runs, Fetch(r) PROVE TypeInv'
  <2>1. UNCHANGED store /\ UNCHANGED history /\ UNCHANGED today
    BY <1>5 DEF Fetch
  <2>2. UNCHANGED <<today, trades, historyStart, derived, archive>>
    BY <2>1 DEF store, history
  <2>3. faults' \in 0 .. MaxFaults
    BY <1>2, <1>5 DEF Fetch
  <2>4. PICK total \in Nat \cup {NoTotal}, unknown \in SUBSET Trades :
          LET page == [start |-> pull[r].start, end |-> pull[r].end, offset |-> pull[r].seen,
                       rows |-> RowsAt(Listing(r), pull[r].seen), unknown |-> unknown,
                       total |-> total]
          IN pull' = [pull EXCEPT ![r] = [pull[r] EXCEPT !.phase = "archive", !.page = page,
                                                        !.listing = Listing(r)]]
    BY <1>1, <1>5, FetchEffect
  <2>5. /\ pull'[r].phase = "archive" /\ pull'[r].fetched = pull[r].fetched
        /\ pull'[r].window = pull[r].window /\ pull'[r].response = pull[r].response
        /\ \A s \in Runs \ {r} : pull'[s] = pull[s]
    BY <1>1, <2>4 DEF Typed, PullRecord
  <2>6. PullPoints(pull[r]) /\ pull[r].phase = "fetch"
    BY <1>5 DEF TypeInv, Fetch
  <2>7. PullPoints(pull[r])'
    BY <2>2, <2>5, <2>6 DEF PullPoints
  <2>8. QED
    BY <1>1, <1>2, <2>2, <2>3, <2>5, <2>7, PointsUntouched
<1>6. ASSUME NEW r \in Runs, Archive(r) PROVE TypeInv'
  <2>1. /\ UNCHANGED <<today, trades, historyStart, derived, faults>>
        /\ archive' = Append(archive, pull[r].page) /\ pull[r].page \in Page
        /\ PullPoints(pull[r]) /\ pull[r].phase = "archive"
    BY <1>1, <1>6 DEF Archive, history, TypeInv, Typed, PullRecord
  <2>2. Len(archive') = Len(archive) + 1 /\ DOMAIN archive' = 1 .. Len(archive')
        /\ DOMAIN archive = 1 .. Len(archive)
    BY <1>1, <2>1 DEF Typed
  <2>3. /\ pull'[r].phase = "derive" /\ pull'[r].response = Len(archive')
        /\ pull'[r].fetched = pull[r].fetched /\ pull'[r].window = pull[r].window
        /\ \A s \in Runs \ {r} : pull'[s] = pull[s]
    BY <1>1, <1>6 DEF Archive, Typed, PullRecord
  <2>4. PullPoints(pull[r])'
    BY <1>2, <2>1, <2>2, <2>3 DEF PullPoints
  <2>5. DOMAIN archive \subseteq DOMAIN archive' /\ Len(archive) <= Len(archive')
    BY <1>2, <2>2
  <2>6. QED
    BY <1>1, <1>2, <2>1, <2>3, <2>4, <2>5, PointsUntouched
<1>7. ASSUME NEW r \in Runs, Derive(r) PROVE TypeInv'
  BY <1>1, <1>7, DerivePoints
<1>8. ASSUME NEW r \in Runs, Stop(r) PROVE TypeInv'
  <2>1. /\ pull'[r].phase = "idle" /\ pull'[r].fetched = 0 /\ pull'[r].window = NoWindow
        /\ pull'[r].response = 0 /\ \A s \in Runs \ {r} : pull'[s] = pull[s]
    BY <1>1, <1>8 DEF Stop, Typed, IdlePull
  <2>2. UNCHANGED <<today, trades, historyStart, derived, archive>> /\ faults' \in 0 .. MaxFaults
    BY <1>2, <1>8 DEF Stop, store, history
  <2>3. QED
    BY <1>1, <1>2, <2>1, <2>2, PointsUntouched DEF PullPoints, NoWindow
<1>9. QED
  BY <1>3, <1>4, <1>5, <1>6, <1>7, <1>8 DEF Next

(***************************************************************************)
(* Every variable keeps its type, and what points at a response points at  *)
(* an archived one: a row, or its removal, is never of a page that was not *)
(* derived (apply_response).                                               *)
(***************************************************************************)
THEOREM TypeCorrect == Spec => []TypeOK
<1>1. Init => TypeInv
  <2> SUFFICES ASSUME Init PROVE TypeInv
    OBVIOUS
  <2>1. Typed /\ Held(trades) = {} /\ \A r \in Runs : PullPoints(pull[r])
    BY TypedInit, WindowAssumption
       DEF Init, NoTrades, Held, PullPoints, IdlePull, NoWindow, WindowAssumption
  <2>2. QED
    BY <2>1, WindowAssumption DEF Init, TypeInv, RowsAreDerived, WindowAssumption
<1>2. TypeInv /\ [Next]_vars => TypeInv'
  BY TypeStep
<1>3. TypeInv => TypeOK
  <2> SUFFICES ASSUME TypeInv PROVE TypeOK
    OBVIOUS
  <2>1. ASSUME NEW r \in Runs PROVE pull[r] \in PullState
    <3>1. pull[r] \in PullRecord /\ PullPoints(pull[r]) /\ MAX_PAGES_PER_RUN \in Nat
      BY WindowAssumption DEF TypeInv, Typed, WindowAssumption
    <3>2. QED
      BY <3>1 DEF PullRecord, PullState, PullPoints
  <2>2. QED
    BY <2>1 DEF TypeInv, Typed, TypeOK, RowsAreDerived
<1>4. QED
  BY <1>1, <1>2, <1>3, PTL DEF Spec

-----------------------------------------------------------------------------
(***************************************************************************)
(* The replay of an archive.                                               *)
(***************************************************************************)

\* What a replay has made of the first n pages, for each n.
ReplayStates(pages) ==
  CHOOSE state : state = [n \in 0 .. Len(pages) |->
                            IF n = 0 THEN [table |-> NoTrades, window |-> NoWindow]
                            ELSE Observed(state[n - 1], n, pages[n])]

\* A replay is well defined: it can be carried one page further as long as
\* there is one.
LEMMA ReplayExists ==
  ASSUME NEW pages, Len(pages) \in Nat
  PROVE  \E state : state = [n \in 0 .. Len(pages) |->
                               IF n = 0 THEN [table |-> NoTrades, window |-> NoWindow]
                               ELSE Observed(state[n - 1], n, pages[n])]
<1> DEFINE IsReplay(state, m) ==
             state = [n \in 0 .. m |-> IF n = 0 THEN [table |-> NoTrades, window |-> NoWindow]
                                       ELSE Observed(state[n - 1], n, pages[n])]
           Failing == {m \in 0 .. Len(pages) : ~ \E state : IsReplay(state, m)}
<1>1. CASE Failing = {}
  <2>1. \E state : IsReplay(state, Len(pages))
    BY <1>1
  <2>2. QED
    BY <2>1
<1>2. CASE Failing # {}
  <2>1. Failing \in SUBSET Nat
    OBVIOUS
  <2> DEFINE m == Earliest(Failing)
  <2>2. m \in Failing /\ \A d \in Failing : m <= d
    <3> HIDE DEF Failing
    <3>1. QED
      BY <1>2, <2>1, EarliestOf
  <2> HIDE DEF m
  <2>3. m # 0
    <3> DEFINE start == [n \in 0 .. 0 |-> [table |-> NoTrades, window |-> NoWindow]]
    <3>1. IsReplay(start, 0)
      OBVIOUS
    <3> HIDE DEF IsReplay
    <3>2. \E state : IsReplay(state, 0)
      BY <3>1
    <3>3. QED
      BY <2>2, <3>2
  <2>4. m \in 0 .. Len(pages) /\ m - 1 \in 0 .. Len(pages) /\ m \in Nat \ {0}
    BY <2>2, <2>3
  <2>5. m - 1 \notin Failing
    <3> HIDE DEF Failing
    <3>1. QED
      BY <2>2, <2>4
  <2>6. PICK state : IsReplay(state, m - 1)
    BY <2>4, <2>5
  <2> DEFINE longer == [n \in 0 .. m |-> IF n = m THEN Observed(state[m - 1], m, pages[m])
                                         ELSE state[n]]
  <2>7. ASSUME NEW n \in 0 .. m
        PROVE  longer[n] = IF n = 0 THEN [table |-> NoTrades, window |-> NoWindow]
                           ELSE Observed(longer[n - 1], n, pages[n])
    <3>1. CASE n = m
      <4>1. longer[n - 1] = state[m - 1]
        BY <2>4, <3>1
      <4>2. longer[n] = Observed(state[m - 1], m, pages[m])
        BY <3>1
      <4>3. QED
        BY <2>4, <3>1, <4>1, <4>2
    <3>2. CASE n # m
      <4>1. n \in 0 .. (m - 1)
        BY <2>4, <3>2
      <4>2. longer[n] = state[n]
        BY <3>2
      <4>3. n # 0 => longer[n - 1] = state[n - 1]
        BY <2>4, <4>1
      <4>4. state[n] = IF n = 0 THEN [table |-> NoTrades, window |-> NoWindow]
                       ELSE Observed(state[n - 1], n, pages[n])
        BY <2>6, <4>1
      <4>5. QED
        BY <4>2, <4>3, <4>4
    <3>3. QED
      BY <3>1, <3>2
  <2>8. IsReplay(longer, m)
    BY <2>7
  <2>9. \E s : IsReplay(s, m)
    <3> HIDE DEF IsReplay, longer
    <3>1. QED
      BY <2>8
  <2>10. QED
    BY <2>2, <2>9
<1>3. QED
  BY <1>1, <1>2

\* The replay's states, page by page.
LEMMA ReplaySteps ==
  ASSUME NEW pages, Len(pages) \in Nat
  PROVE  /\ ReplayStates(pages)[0] = [table |-> NoTrades, window |-> NoWindow]
         /\ \A n \in 1 .. Len(pages) :
               ReplayStates(pages)[n] = Observed(ReplayStates(pages)[n - 1], n, pages[n])
         /\ Replayed(pages) = ReplayStates(pages)[Len(pages)].table
<1> DEFINE states == ReplayStates(pages)
<1>1. states = [n \in 0 .. Len(pages) |-> IF n = 0 THEN [table |-> NoTrades, window |-> NoWindow]
                                          ELSE Observed(states[n - 1], n, pages[n])]
  BY ReplayExists DEF ReplayStates
<1>2. Replayed(pages) = states[Len(pages)].table
  BY DEF Replayed, ReplayStates
<1> HIDE DEF states
<1>3. states[0] = [table |-> NoTrades, window |-> NoWindow]
  BY <1>1
<1>4. ASSUME NEW n \in 1 .. Len(pages)
      PROVE  states[n] = Observed(states[n - 1], n, pages[n])
  <2>1. n \in 0 .. Len(pages) /\ n # 0
    OBVIOUS
  <2>2. QED
    BY <1>1, <2>1
<1>5. QED
  BY <1>2, <1>3, <1>4 DEF states

\* A page more does not change what the pages before it come to.
LEMMA ReplayOfPrefix ==
  ASSUME NEW pages \in Seq(Page), NEW page \in Page, NEW n \in 0 .. Len(pages)
  PROVE  ReplayStates(Append(pages, page))[n] = ReplayStates(pages)[n]
<1> DEFINE longer == Append(pages, page)
           Differing == {k \in 0 .. Len(pages) : ReplayStates(longer)[k] # ReplayStates(pages)[k]}
<1>1. Len(pages) \in Nat /\ Len(longer) = Len(pages) + 1 /\ \A k \in 1 .. Len(pages) : longer[k] = pages[k]
  OBVIOUS
<1> HIDE DEF longer
<1>2. /\ ReplayStates(longer)[0] = ReplayStates(pages)[0]
      /\ \A k \in 1 .. Len(longer) :
            ReplayStates(longer)[k] = Observed(ReplayStates(longer)[k - 1], k, longer[k])
      /\ \A k \in 1 .. Len(pages) :
            ReplayStates(pages)[k] = Observed(ReplayStates(pages)[k - 1], k, pages[k])
  <2>1. Len(longer) \in Nat
    BY <1>1
  <2>2. /\ ReplayStates(longer)[0] = [table |-> NoTrades, window |-> NoWindow]
        /\ \A k \in 1 .. Len(longer) :
              ReplayStates(longer)[k] = Observed(ReplayStates(longer)[k - 1], k, longer[k])
    BY <2>1, ReplaySteps
  <2>3. /\ ReplayStates(pages)[0] = [table |-> NoTrades, window |-> NoWindow]
        /\ \A k \in 1 .. Len(pages) :
              ReplayStates(pages)[k] = Observed(ReplayStates(pages)[k - 1], k, pages[k])
    BY <1>1, ReplaySteps
  <2>4. QED
    BY <2>2, <2>3
<1>3. SUFFICES ASSUME Differing # {} PROVE FALSE
  BY DEF longer
<1>4. Differing \in SUBSET Nat
  BY <1>1
<1> DEFINE k == Earliest(Differing)
<1>5. k \in Differing /\ \A d \in Differing : k <= d
  <2> HIDE DEF Differing
  <2>1. QED
    BY <1>3, <1>4, EarliestOf
<1> HIDE DEF k
<1>6. k \in 1 .. Len(pages) /\ k \in 1 .. Len(longer) /\ k - 1 \in 0 .. Len(pages) /\ k \in Nat
  BY <1>1, <1>2, <1>5
<1>7. ReplayStates(longer)[k - 1] = ReplayStates(pages)[k - 1]
  BY <1>5, <1>6
<1>8. QED
  BY <1>1, <1>2, <1>5, <1>6, <1>7

\* What a page does depends on the window in hand only past its first page.
LEMMA ObservedAlike ==
  ASSUME NEW s, NEW t, NEW n, NEW page, s.table = t.table,
         page.offset = 0 \/ s.window = t.window
  PROVE  Observed(s, n, page) = Observed(t, n, page)
<1>1. Opened(s.window, n, page) = Opened(t.window, n, page)
  BY DEF Opened
<1>2. QED
  BY <1>1 DEF Observed

-----------------------------------------------------------------------------
(***************************************************************************)
(* A rebuild reproduces the rows.                                          *)
(***************************************************************************)

\* The replay of the first n pages has come to the table and, where the pull
\* is past its first page, to the window that the pull has in hand.
ReplayAt(p, n) ==
  derived = 1 .. n =>
    /\ ReplayStates(archive)[n].table = trades
    /\ p.phase \in {"fetch", "archive", "derive"} /\ p.seen # 0 =>
          ReplayStates(archive)[n].window = p.window

\* The page in hand is the next of its window and, once archived, the last of
\* the archive and not derived.
PageOfPull(p) ==
  /\ p.phase \in {"archive", "derive"} => p.page.offset = p.seen
  /\ p.phase = "derive" => /\ p.response = Len(archive) /\ Len(archive) # 0
                           /\ archive[Len(archive)] = p.page
                           /\ Len(archive) \notin derived

ReplayInv ==
  /\ Typed /\ derived \subseteq DOMAIN archive
  /\ \A r \in Runs : /\ PageOfPull(pull[r])
                     /\ pull[r].phase = "derive" => ReplayAt(pull[r], Len(archive) - 1)
                     /\ pull[r].phase # "derive" => ReplayAt(pull[r], Len(archive))

\* A step that archives and derives nothing.
LEMMA ReplayUntouched ==
  ASSUME OnePullAtATime, ReplayInv, Typed', UNCHANGED <<trades, archive, derived>>,
         NEW r \in Runs, pull'[r].phase \in {"idle", "done"} \/ pull'[r].seen = 0 \/
                         (pull'[r].seen = pull[r].seen /\ pull'[r].window = pull[r].window
                          /\ pull[r].phase \in {"fetch", "archive", "derive"}),
         pull'[r].phase # "derive", pull'[r].phase = "archive" => pull'[r].page.offset = pull'[r].seen
  PROVE  ReplayInv'
<1>1. Runs = {r}
  BY DEF OnePullAtATime
<1>2. /\ PageOfPull(pull[r])
      /\ pull[r].phase = "derive" => ReplayAt(pull[r], Len(archive) - 1)
      /\ pull[r].phase # "derive" => ReplayAt(pull[r], Len(archive))
  BY DEF ReplayInv
<1>3. PageOfPull(pull[r])'
  BY DEF PageOfPull
<1>4. ReplayAt(pull[r], Len(archive))'
  <2>1. CASE pull[r].phase = "derive"
    <3>1. Len(archive) \in 1 .. Len(archive) /\ Len(archive) \notin derived
      BY <1>2, <2>1 DEF PageOfPull, ReplayInv, Typed
    <3>2. QED
      BY <3>1 DEF ReplayAt
  <2>2. CASE pull[r].phase # "derive"
    BY <1>2, <2>2 DEF ReplayAt
  <2>3. QED
    BY <2>1, <2>2
<1>5. derived' \subseteq DOMAIN archive'
  BY DEF ReplayInv
<1>6. QED
  BY <1>1, <1>3, <1>4, <1>5 DEF ReplayInv

\* The page that is archived is not derived yet, and what it follows is as it was.
LEMMA ReplayArchives ==
  ASSUME OnePullAtATime, ReplayInv, Typed', NEW r \in Runs, Archive(r)
  PROVE  ReplayInv'
<1>1. Runs = {r}
  BY DEF OnePullAtATime
<1>2. /\ pull[r] \in PullRecord /\ pull[r].phase = "archive" /\ pull[r].page \in Page
      /\ archive \in Seq(Page) /\ archive' = Append(archive, pull[r].page)
      /\ UNCHANGED <<trades, derived>>
  BY DEF Archive, history, ReplayInv, Typed, PullRecord
<1>3. /\ pull'[r].phase = "derive" /\ pull'[r].response = Len(archive')
      /\ pull'[r].page = pull[r].page /\ pull'[r].seen = pull[r].seen
      /\ pull'[r].window = pull[r].window
  BY DEF Archive, ReplayInv, Typed, PullRecord
<1>4. /\ Len(archive') = Len(archive) + 1 /\ Len(archive) \in Nat
      /\ archive'[Len(archive')] = pull[r].page
      /\ derived \subseteq 1 .. Len(archive) /\ derived \subseteq DOMAIN archive'
  BY <1>2 DEF ReplayInv
<1>5. PageOfPull(pull[r])'
  BY <1>2, <1>3, <1>4 DEF ReplayInv, PageOfPull
<1>6. ReplayStates(archive')[Len(archive)] = ReplayStates(archive)[Len(archive)]
  BY <1>2, <1>4, ReplayOfPrefix
<1>7. ReplayAt(pull[r], Len(archive))
  BY <1>2 DEF ReplayInv
<1>8. ReplayAt(pull[r], Len(archive) - 1)'
  <2>1. Len(archive') - 1 = Len(archive)
    BY <1>4
  <2>2. SUFFICES ASSUME derived = 1 .. Len(archive)
                 PROVE  /\ ReplayStates(archive')[Len(archive)].table = trades
                        /\ pull'[r].seen # 0 =>
                             ReplayStates(archive')[Len(archive)].window = pull'[r].window
    BY <1>2, <2>1 DEF ReplayAt
  <2>3. QED
    BY <1>2, <1>3, <1>6, <1>7, <2>2 DEF ReplayAt
<1>9. QED
  BY <1>1, <1>2, <1>3, <1>4, <1>5, <1>8 DEF ReplayInv

\* Live and replayed, a page is observed in the same state.
LEMMA ReplayDerives ==
  ASSUME OnePullAtATime, ReplayInv, Typed', NEW r \in Runs, Derive(r)
  PROVE  ReplayInv'
<1> DEFINE p == pull[r]
           n == Len(archive)
           live == [table |-> trades, window |-> p.window]
<1>1. Runs = {r}
  BY DEF OnePullAtATime
<1>2. /\ p.phase = "derive" /\ p.response = n /\ archive[n] = p.page /\ n \notin derived
      /\ p.page.offset = p.seen /\ n \in Nat \ {0} /\ derived \subseteq 1 .. n
      /\ ReplayAt(p, n - 1)
  BY DEF Derive, ReplayInv, PageOfPull, Typed
<1>3. /\ trades' = Observed(live, n, p.page).table /\ UNCHANGED archive
      /\ derived' = derived \cup {n}
      /\ pull'[r].window = Observed(live, n, p.page).window
      /\ pull'[r].phase \in {"fetch", "done"}
  BY <1>2 DEF Derive, ReplayInv, Typed
<1>4. ReplayStates(archive)[n] = Observed(ReplayStates(archive)[n - 1], n, p.page)
  BY <1>2, ReplaySteps
<1>5. ReplayAt(pull[r], Len(archive))'
  <2> SUFFICES ASSUME derived' = 1 .. n
               PROVE  /\ ReplayStates(archive)[n].table = trades'
                      /\ ReplayStates(archive)[n].window = pull'[r].window
    BY <1>3 DEF ReplayAt
  <2>1. derived = 1 .. (n - 1)
    <3>1. \A k \in 1 .. n : k # n => k \in derived
      BY <1>3
    <3>2. \A k \in derived : k \in 1 .. n /\ k # n
      BY <1>2
    <3>3. \A k \in 1 .. n : k \in 1 .. (n - 1) <=> k # n
      BY <1>2
    <3>4. 1 .. (n - 1) \subseteq 1 .. n
      BY <1>2
    <3> HIDE DEF n
    <3>5. QED
      BY <3>1, <3>2, <3>3, <3>4
  <2>2. /\ ReplayStates(archive)[n - 1].table = trades
        /\ p.seen # 0 => ReplayStates(archive)[n - 1].window = p.window
    BY <1>2, <2>1 DEF ReplayAt
  <2>3. Observed(ReplayStates(archive)[n - 1], n, p.page) = Observed(live, n, p.page)
    BY <1>2, <2>2, ObservedAlike
  <2>4. QED
    BY <1>3, <1>4, <2>3
<1>6. PageOfPull(pull[r])' /\ pull'[r].phase # "derive"
  BY <1>3 DEF PageOfPull
<1>7. derived' \subseteq DOMAIN archive'
  BY <1>2, <1>3 DEF ReplayInv, Typed
<1>8. QED
  BY <1>1, <1>5, <1>6, <1>7 DEF ReplayInv

LEMMA ReplayStep ==
  ASSUME OnePullAtATime, ReplayInv, [Next]_vars
  PROVE  ReplayInv'
<1>1. Typed'
  BY TypedStep DEF ReplayInv
<1>2. CASE DayPasses \/ (\E i \in Trades : List(i) \/ Withdraw(i)) \/ UNCHANGED vars
  <2>1. UNCHANGED <<trades, archive, pull, derived>>
    BY <1>2 DEF DayPasses, List, Withdraw, vars, store, history
  <2>2. QED
    BY <1>1, <2>1 DEF ReplayInv, ReplayAt, PageOfPull
<1>3. ASSUME NEW r \in Runs, Start(r) \/ Stop(r) PROVE ReplayInv'
  <2>1. pull'[r].phase \in {"fetch", "idle"} /\ pull'[r].seen = 0
    <3>1. pull \in [Runs -> PullRecord]
      BY DEF ReplayInv, Typed
    <3>2. CASE Start(r)
      BY <3>1, <3>2 DEF Start, IdlePull
    <3>3. CASE Stop(r)
      BY <3>1, <3>3 DEF Stop, IdlePull
    <3>4. QED
      BY <1>3, <3>2, <3>3
  <2>2. UNCHANGED <<trades, archive, derived>>
    BY <1>3 DEF Start, Stop, store, history
  <2>3. QED
    BY <1>1, <2>1, <2>2, ReplayUntouched
<1>4. ASSUME NEW r \in Runs, Fetch(r) PROVE ReplayInv'
  <2>1. Typed
    BY DEF ReplayInv
  <2>2. PICK total \in Nat \cup {NoTotal}, unknown \in SUBSET Trades :
          LET page == [start |-> pull[r].start, end |-> pull[r].end, offset |-> pull[r].seen,
                       rows |-> RowsAt(Listing(r), pull[r].seen), unknown |-> unknown,
                       total |-> total]
          IN pull' = [pull EXCEPT ![r] = [pull[r] EXCEPT !.phase = "archive", !.page = page,
                                                        !.listing = Listing(r)]]
    BY <1>4, <2>1, FetchEffect
  <2>3. /\ pull'[r].phase = "archive" /\ pull'[r].page.offset = pull[r].seen
        /\ pull'[r].seen = pull[r].seen /\ pull'[r].window = pull[r].window
    BY <2>1, <2>2 DEF Typed, PullRecord
  <2>4. UNCHANGED <<trades, archive, derived>> /\ pull[r].phase = "fetch"
    BY <1>4 DEF Fetch, store, history
  <2>5. QED
    BY <1>1, <2>3, <2>4, ReplayUntouched
<1>5. ASSUME NEW r \in Runs, Archive(r) PROVE ReplayInv'
  BY <1>1, <1>5, ReplayArchives
<1>6. ASSUME NEW r \in Runs, Derive(r) PROVE ReplayInv'
  BY <1>1, <1>6, ReplayDerives
<1>7. QED
  BY <1>2, <1>3, <1>4, <1>5, <1>6 DEF Next

(***************************************************************************)
(* With one pull at a time, a rebuild from an archive whose every page was *)
(* derived reproduces the table row by row, retired rows included,         *)
(* whatever was stopped, cut short or never told a total, and whether or   *)
(* not listings moved (store/rebuild.py, connector/plaid/window.py).       *)
(***************************************************************************)
THEOREM RebuildIsFaithful ==
  ASSUME OnePullAtATime, Runs # {}
  PROVE  Spec => []RebuildReproduces
<1>1. Init => ReplayInv
  <2> SUFFICES ASSUME Init PROVE ReplayInv
    OBVIOUS
  <2>1. Typed /\ \A r \in Runs : pull[r].phase = "idle"
    BY TypedInit DEF Init, IdlePull
  <2>2. ReplayStates(<<>>)[0].table = NoTrades
    BY ReplaySteps
  <2>3. QED
    BY <2>1, <2>2 DEF Init, ReplayInv, ReplayAt, PageOfPull
<1>2. ReplayInv /\ [Next]_vars => ReplayInv'
  BY ReplayStep
<1>3. ReplayInv => RebuildReproduces
  <2> SUFFICES ASSUME ReplayInv, derived = DOMAIN archive PROVE Replayed(archive) = trades
    BY DEF RebuildReproduces
  <2>1. Len(archive) \in Nat /\ DOMAIN archive = 1 .. Len(archive)
    BY DEF ReplayInv, Typed
  <2>2. PICK r \in Runs : TRUE
    OBVIOUS
  <2>3. pull[r].phase # "derive"
    BY <2>1 DEF ReplayInv, PageOfPull
  <2>4. ReplayStates(archive)[Len(archive)].table = trades
    BY <2>1, <2>3 DEF ReplayInv, ReplayAt
  <2>5. QED
    BY <2>1, <2>4, ReplaySteps
<1>4. QED
  BY <1>1, <1>2, <1>3, PTL DEF Spec
=============================================================================
