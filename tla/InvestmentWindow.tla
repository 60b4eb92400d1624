-------------------------- MODULE InvestmentWindow --------------------------
(***************************************************************************)
(* One connection's investment transactions: a window of dates, paged by   *)
(* offset against a stated total (_pull_investment_transactions), with no  *)
(* cursor and no tombstones.  A trade is retired because a window that was *)
(* seen whole did not return it (store/investments.py), and the conclusion *)
(* commits with the page that closed the window (connector/plaid/          *)
(* window.py).  A rebuild runs the same pass over the archived pages.      *)
(*                                                                         *)
(* A raw response id is an index into `archive`, and so is the instant it  *)
(* was received at.                                                        *)
(***************************************************************************)
EXTENDS Integers, Sequences, FiniteSets

CONSTANTS
  Trades,             \* the aggregator's investment_transaction_ids
  TradeDate,          \* the day of each
  Rank,               \* the order the aggregator lists them in, newest first
  Restatable,         \* trades the aggregator may state in an unknown unit
  Runs,               \* processes running `sync run`
  HISTORY_DAYS,       \* config.history_days
  PAGE_SIZE,          \* rows of a full page
  MAX_PAGES_PER_RUN,  \* page ceiling of one pull
  StillWhilePaged,    \* the listing does not move while a window is paged
  MaxDay,             \* bound: the last day
  MaxFaults,          \* bound: pulls that are stopped, and totals not stated truly
  MaxArchive,         \* bound: no pull begins on an archive this long
  NoRow, NoTotal

ASSUME WindowAssumption ==
  /\ IsFiniteSet(Trades)
  /\ TradeDate \in [Trades -> Nat]
  /\ Rank \in [Trades -> Nat]
  /\ \A i, j \in Trades : Rank[i] = Rank[j] => i = j
  /\ \A i, j \in Trades : Rank[i] < Rank[j] => TradeDate[i] >= TradeDate[j]
  /\ Restatable \subseteq Trades
  /\ HISTORY_DAYS \in Nat \ {0}
  /\ PAGE_SIZE \in Nat \ {0}
  /\ MAX_PAGES_PER_RUN \in Nat \ {0}
  /\ StillWhilePaged \in BOOLEAN
  /\ MaxDay \in Nat
  /\ MaxFaults \in Nat
  /\ MaxArchive \in Nat
  /\ NoTotal \notin Int
  /\ NoTotal \notin Nat

VARIABLES
  \* the aggregator
  reported,      \* the trades it lists
  today,
  \* the datastore
  archive,       \* raw_responses: the pages, in the order they were archived
  trades,        \* investment_transactions
  historyStart,  \* sync_state.history_start_date, or NoTotal if never measured
  \* the running processes
  pull,
  faults,
  \* history
  missing,       \* trades not listed at some time since their row was last written
  restated,      \* trades returned in an unknown unit since their row was last written
  derived        \* the archived pages that were derived

store == <<archive, trades, historyStart>>
vars  == <<reported, today, store, pull, faults, missing, restated, derived>>
history == <<missing, restated, derived>>

Dates == Int

\* A page as the archive states it: request_context, rows, those of them in a
\* unit this build cannot express, and the total.
Page == [start : Dates, end : Dates, offset : Nat, rows : SUBSET Trades,
         unknown : SUBSET Trades, total : Nat \cup {NoTotal}]

\* raw_response_id, and the response that retired it, 0 while it is not removed.
Row == [raw : Nat, removed : Nat]

ASSUME NoRowAssumption == NoRow \notin Row

NoTrades == [i \in Trades |-> NoRow]

Held(table) == {i \in Trades : table[i] # NoRow}

Shown(table) == {i \in Held(table) : table[i].removed = 0}

Dated(start, end) == {i \in Trades : start <= TradeDate[i] /\ TradeDate[i] <= end}

-----------------------------------------------------------------------------
(***************************************************************************)
(* Pages.                                                                  *)
(***************************************************************************)

\* How many trades of the listing come before i.
Place(listing, i) == Cardinality({j \in listing : Rank[j] < Rank[i]})

\* The rows at one offset of a listing.
RowsAt(listing, offset) ==
  {i \in listing : offset <= Place(listing, i) /\ Place(listing, i) < offset + PAGE_SIZE}

RowsThroughThisPage(page) == page.offset + Cardinality(page.rows)

\* An unstated total is never exhausted.
WindowIsExhausted(page) == page.total # NoTotal /\ RowsThroughThisPage(page) >= page.total

\* The three exits of the paging loop, short of its ceiling.
LastPage(page) == page.rows = {} \/ page.total = NoTotal \/ WindowIsExhausted(page)

-----------------------------------------------------------------------------
(***************************************************************************)
(* What an archived page does to the table, live or replayed.              *)
(***************************************************************************)

\* One row's unit costs that row and not the page.
Converted(page) == page.rows \ page.unknown

\* Faulty variant of Written: a row that came back keeps its removal.
WrittenStillRemoved(table, n, page) ==
  [i \in Trades |->
     IF i \notin Converted(page) THEN table[i]
     ELSE IF table[i] = NoRow THEN [raw |-> n, removed |-> 0] ELSE [table[i] EXCEPT !.raw = n]]

\* derive_investment_transactions: every row written is present at the source.
Written(table, n, page) ==
  [i \in Trades |-> IF i \in Converted(page) THEN [raw |-> n, removed |-> 0]
                    ELSE table[i]]

\* Faulty variant of Absent: whatever the date.
AbsentAnyDate(table, page, pages) == {i \in Shown(table) : table[i].raw \notin pages}

\* The rows in the window's dates that none of its pages returned.
Absent(table, page, pages) ==
  {i \in Shown(table) \cap Dated(page.start, page.end) : table[i].raw \notin pages}

\* record_investment_transaction_window: a soft delete of the absent rows.
Reconciled(table, n, page, pages) ==
  [i \in Trades |-> IF i \in Absent(table, page, pages) THEN [table[i] EXCEPT !.removed = n]
                    ELSE table[i]]

NoWindow == [opened |-> FALSE, pages |-> {}]

\* The pages of the window in progress once page n is in.
Opened(window, n, page) ==
  IF page.offset = 0 THEN [opened |-> TRUE, pages |-> {n}]
  ELSE [window EXCEPT !.pages = @ \cup {n}]

\* A window is concluded by the page that closes it, if its opening was seen.
Concludes(window, page) == WindowIsExhausted(page) /\ window.opened

\* Faulty variant of Observed: the opening page does not clear what an abandoned window left.
ObservedOverAbandoned(state, n, page) ==
  LET window == [opened |-> state.window.opened \/ page.offset = 0,
                 pages |-> state.window.pages \cup {n}]
      table  == Written(state.table, n, page)
  IN IF Concludes(window, page)
     THEN [table |-> Reconciled(table, n, page, window.pages), window |-> NoWindow]
     ELSE [table |-> table, window |-> IF WindowIsExhausted(page) THEN NoWindow ELSE window]

\* The deriver, then InvestmentWindowReplay.observe, in one transaction.
Observed(state, n, page) ==
  LET window == Opened(state.window, n, page)
      table  == Written(state.table, n, page)
  IN IF Concludes(window, page)
     THEN [table |-> Reconciled(table, n, page, window.pages), window |-> NoWindow]
     ELSE [table |-> table, window |-> IF WindowIsExhausted(page) THEN NoWindow ELSE window]

\* store rebuild: the archive replayed in order, with a pass of its own.
Replayed(pages) ==
  LET state[n \in 0 .. Len(pages)] ==
        IF n = 0 THEN [table |-> NoTrades, window |-> NoWindow]
        ELSE Observed(state[n - 1], n, pages[n])
  IN state[Len(pages)].table

-----------------------------------------------------------------------------
(***************************************************************************)
(* The aggregator.                                                         *)
(***************************************************************************)
NoPage == [start |-> 0, end |-> 0, offset |-> 0, rows |-> {}, unknown |-> {}, total |-> NoTotal]

\* What a process remembers of the pull it is in; `listing` is what the
\* aggregator listed of the window when the page in hand was fetched.
IdlePull == [phase |-> "idle", start |-> 0, end |-> 0, fetched |-> 0, seen |-> 0,
             window |-> NoWindow, page |-> NoPage, response |-> 0, whole |-> FALSE,
             listing |-> {}]

Init ==
  /\ reported = {}
  /\ today = 0
  /\ archive = <<>>
  /\ trades = NoTrades
  /\ historyStart = NoTotal
  /\ pull = [r \in Runs |-> IdlePull]
  /\ faults = 0
  /\ missing = Trades
  /\ restated = {}
  /\ derived = {}

\* A window is open at the aggregator: some of its pages are still to be fetched.
Paging(r) ==
  \/ pull[r].phase = "fetch" /\ pull[r].seen > 0
  \/ pull[r].phase \in {"archive", "derive"} /\ ~ LastPage(pull[r].page)

ListingMayMove == StillWhilePaged => \A r \in Runs : ~ Paging(r)

List(i) ==
  /\ ListingMayMove
  /\ i \notin reported
  /\ TradeDate[i] <= today
  /\ reported' = reported \cup {i}
  /\ UNCHANGED <<today, store, pull, faults, history>>

Withdraw(i) ==
  /\ ListingMayMove
  /\ i \in reported
  /\ reported' = reported \ {i}
  /\ missing' = missing \cup {i}
  /\ UNCHANGED <<today, store, pull, faults, restated, derived>>

DayPasses ==
  /\ today < MaxDay
  /\ today' = today + 1
  /\ UNCHANGED <<reported, store, pull, faults, history>>

-----------------------------------------------------------------------------
(***************************************************************************)
(* The pull (_pull_investment_transactions).                               *)
(***************************************************************************)
Start(r) ==
  /\ pull[r].phase \in {"idle", "done"}
  /\ Len(archive) < MaxArchive
  /\ pull' = [pull EXCEPT ![r] = [IdlePull EXCEPT !.phase = "fetch",
                                                  !.start = today - HISTORY_DAYS,
                                                  !.end = today]]
  /\ UNCHANGED <<reported, today, store, faults, history>>

Listing(r) == reported \cap Dated(pull[r].start, pull[r].end)

\* What the aggregator may answer: the rows at the offset, and the listing's size.
Answers(r, total) ==
  {[start |-> pull[r].start, end |-> pull[r].end, offset |-> pull[r].seen,
    rows |-> RowsAt(Listing(r), pull[r].seen), unknown |-> unknown, total |-> total] :
     unknown \in SUBSET (RowsAt(Listing(r), pull[r].seen) \cap Restatable)}

\* It may state no total, or one too high (the case the empty page is an exit for).
Totals(r) == {Cardinality(Listing(r)), Cardinality(Listing(r)) + 1, NoTotal}

Fetch(r) ==
  /\ pull[r].phase = "fetch"
  /\ \E total \in Totals(r) :
       /\ total # Cardinality(Listing(r)) => faults < MaxFaults
       /\ faults' = IF total = Cardinality(Listing(r)) THEN faults ELSE faults + 1
       /\ \E page \in Answers(r, total) :
            pull' = [pull EXCEPT ![r] = [@ EXCEPT !.phase = "archive", !.page = page,
                                                  !.listing = Listing(r)]]
  /\ UNCHANGED <<reported, today, store, history>>

\* apply_response, first commit: the page is archived before anything is derived.
Archive(r) ==
  /\ pull[r].phase = "archive"
  /\ archive' = Append(archive, pull[r].page)
  /\ pull' = [pull EXCEPT ![r].phase = "derive", ![r].response = Len(archive')]
  /\ UNCHANGED <<reported, today, trades, historyStart, faults, history>>

Earliest(S) == CHOOSE d \in S : \A e \in S : d <= e

DatesShown(table, page) ==
  {TradeDate[i] : i \in Shown(table) \cap Dated(page.start, page.end)}

\* The range a whole window returned; an empty one leaves the range as it was.
Measured(start, old, table, page) ==
  IF DatesShown(table, page) = {} THEN start ELSE Earliest(DatesShown(table, page))

\* apply_response, second commit: the rows, and at the closing page what the window
\* establishes.
Derive(r) ==
  LET page      == pull[r].page
      n         == pull[r].response
      state     == Observed([table |-> trades, window |-> pull[r].window], n, page)
      concluded == Concludes(Opened(pull[r].window, n, page), page)
      fetched   == pull[r].fetched + 1
  IN /\ pull[r].phase = "derive"
     /\ trades' = state.table
     /\ historyStart' = IF concluded THEN Measured(historyStart, trades, trades', page)
                        ELSE historyStart
     /\ pull' = [pull EXCEPT ![r] =
          [@ EXCEPT !.phase = IF LastPage(page) \/ fetched = MAX_PAGES_PER_RUN THEN "done"
                              ELSE "fetch",
                    !.fetched = fetched,
                    !.seen = RowsThroughThisPage(page),
                    !.window = state.window,
                    !.whole = concluded]]
     /\ missing' = (missing \ Converted(page)) \cup (Converted(page) \ reported)
     /\ restated' = (restated \ Converted(page)) \cup page.unknown
     /\ derived' = derived \cup {n}
     /\ UNCHANGED <<reported, today, archive, faults>>

\* A failed call, a refused derivation, a lock that is held, or a kill.
Stop(r) ==
  /\ pull[r].phase \in {"fetch", "archive", "derive"}
  /\ faults < MaxFaults
  /\ faults' = faults + 1
  /\ pull' = [pull EXCEPT ![r] = IdlePull]
  /\ UNCHANGED <<reported, today, store, history>>

Next ==
  \/ DayPasses
  \/ \E i \in Trades : List(i) \/ Withdraw(i)
  \/ \E r \in Runs : Start(r) \/ Fetch(r) \/ Archive(r) \/ Derive(r) \/ Stop(r)

Spec == Init /\ [][Next]_vars
-----------------------------------------------------------------------------
(***************************************************************************)
(* Properties.                                                             *)
(***************************************************************************)

PullState ==
  [phase : {"idle", "fetch", "archive", "derive", "done"}, start : Dates, end : Dates,
   fetched : 0 .. MAX_PAGES_PER_RUN, seen : Nat,
   window : [opened : BOOLEAN, pages : SUBSET DOMAIN archive],
   page : Page, response : 0 .. Len(archive), whole : BOOLEAN, listing : SUBSET Trades]

\* Every variable has its type, and what points at a response points at an archived one.
TypeOK ==
  /\ reported \subseteq Trades
  /\ today \in 0 .. MaxDay
  /\ archive \in Seq(Page)
  /\ trades \in [Trades -> Row \cup {NoRow}]
  /\ \A i \in Held(trades) : trades[i].raw \in derived /\ trades[i].removed \in {0} \cup derived
  /\ historyStart \in Nat \cup {NoTotal}
  /\ pull \in [Runs -> PullState]
  /\ faults \in 0 .. MaxFaults
  /\ missing \subseteq Trades
  /\ restated \subseteq Trades
  /\ derived \subseteq DOMAIN archive

(***************************************************************************)
(* A trade is retired only on the aggregator's word: since its row was     *)
(* last written the aggregator ceased to list it, or returned it in a unit *)
(* the deriver cannot write.  A prefix, an abandoned window, a stale total *)
(* or a window that has moved past its date retires nothing.               *)
(***************************************************************************)
OnlyUnreturnedIsRetired ==
  \A i \in Held(trades) \ Shown(trades) : i \in missing \cup restated

(***************************************************************************)
(* What a pull concludes is the window: when it ends having concluded, the *)
(* rows shown between its dates are those the aggregator listed there,     *)
(* less what it stated in a unit this build cannot express.                *)
(***************************************************************************)
WholeWindowIsExact ==
  \A r \in Runs : pull[r].phase = "done" /\ pull[r].whole =>
    LET shown == Shown(trades) \cap Dated(pull[r].start, pull[r].end)
    IN shown \subseteq pull[r].listing /\ pull[r].listing \ shown \subseteq restated

(***************************************************************************)
(* The measured range and the rows agree: when a pull ends having          *)
(* concluded, the recorded start is the earliest date shown in its window, *)
(* unless nothing is shown there (AC-3.3).                                 *)
(***************************************************************************)
RangeIsOfWhatIsShown ==
  \A r \in Runs : pull[r].phase = "done" /\ pull[r].whole =>
    LET dates == {TradeDate[i] : i \in Shown(trades) \cap Dated(pull[r].start, pull[r].end)}
    IN dates # {} => historyStart \in dates /\ \A d \in dates : historyStart <= d

(***************************************************************************)
(* A rebuild reproduces the table, the retired rows and the responses that *)
(* retired them, from any archive whose every page was derived: whatever   *)
(* pulls were stopped, stopped short or never told a total (AC-5.2).       *)
(***************************************************************************)
RebuildReproduces == derived = DOMAIN archive => Replayed(archive) = trades
=============================================================================
