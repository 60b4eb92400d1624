----------------------------- MODULE LedgerRows -----------------------------
(***************************************************************************)
(* One connection's `transactions` table, and what the change lists of one *)
(* /transactions/sync page do to it (connector/plaid/derivers.py).         *)
(*                                                                         *)
(* The table is a function from a source transaction id to the row that    *)
(* answers to it: the unique index on (account, source_transaction_id) is  *)
(* the domain of the function.  A row keeps the id it was inserted under   *)
(* in `origin`, which stands for everything stamped once at insertion: the *)
(* local transaction_id, first_seen_at, ledger_date and lineage_id.        *)
(*                                                                         *)
(* The aggregator's own view at one instant is a ledger: which ids it      *)
(* reports, and with which content.  A page is the change from one ledger  *)
(* to a later one.                                                         *)
(***************************************************************************)
EXTENDS Naturals, FiniteSets

CONSTANTS
  Ids,         \* the source transaction ids the aggregator may issue
  Versions,    \* the contents a transaction may have
  PendingOf,   \* pending_transaction_id: the hold a posting settles, or NoId
  Unwritable,  \* ids stated in a unit this build cannot express exactly
  NoId, NoRow, Absent

(***************************************************************************)
(* A posting settles one hold, a hold is settled by one posting, and a     *)
(* posting is not itself a hold.                                           *)
(***************************************************************************)
ASSUME PendingAssumption ==
  /\ PendingOf \in [Ids -> Ids \cup {NoId}]
  /\ NoId \notin Ids
  /\ \A p \in Ids : PendingOf[p] # NoId =>
        /\ PendingOf[PendingOf[p]] = NoId
        /\ \A q \in Ids : PendingOf[q] = PendingOf[p] => q = p

ASSUME UnwritableAssumption == Unwritable \subseteq Ids

ASSUME AbsentAssumption == Absent \notin Versions

Ledger == [Ids -> Versions \cup {Absent}]

Live(ledger) == {i \in Ids : ledger[i] # Absent}

EmptyLedger == [i \in Ids |-> Absent]

Row == [origin : Ids, content : Versions, removed : BOOLEAN]

Rows == [Ids -> Row \cup {NoRow}]

ASSUME NoRowAssumption == NoRow \notin Row

NoRows == [i \in Ids |-> NoRow]

Held(rows) == {i \in Ids : rows[i] # NoRow}

\* The rows every sum counts: held and not soft-deleted.
Shown(rows) == {i \in Held(rows) : ~ rows[i].removed}

-----------------------------------------------------------------------------

(***************************************************************************)
(* The added and modified lists (`put`) and the removed list (`gone`) of   *)
(* the page that leads from ledger `old` to ledger `new`.                  *)
(***************************************************************************)
Change(old, new) ==
  [put     |-> {i \in Live(new) : old[i] # new[i]},
   gone    |-> Live(old) \ Live(new),
   content |-> new]

\* _write_one_change refuses the one row it cannot denominate and no more.
Written(page) == page.put \ Unwritable

\* _row_that_absorbed: the posting of this hold is already in the table.
Absorbed(rows, h) == \E p \in Held(rows) : PendingOf[p] = h

\* The postings on this page that settle the hold h.
SettledBy(page, h) == {p \in Written(page) : PendingOf[p] = h}

\* Faulty variant of Rewritten: a hold is written over the posting that settled it.
RewrittenOverPosting(rows, page, i) == i \in Written(page) /\ SettledBy(page, i) = {}

\* i's entry is written to a row that answers to i afterwards.
Rewritten(rows, page, i) ==
  /\ i \in Written(page)
  /\ ~ Absorbed(rows, i)
  /\ SettledBy(page, i) = {}

\* A posting new to the table takes over the row of the hold i.
Overtaken(rows, page, i) == SettledBy(page, i) \ Held(rows) # {}

(***************************************************************************)
(* Where a written id finds its row: its own, else the hold it posts --    *)
(* held already, or earlier on the same page, because the lists are in the *)
(* order the aggregator issued the ids -- else a new one.                  *)
(***************************************************************************)
OriginOf(rows, page, i) ==
  IF i \in Held(rows) THEN rows[i].origin
  ELSE IF PendingOf[i] \in Held(rows) THEN rows[PendingOf[i]].origin
  ELSE IF PendingOf[i] \in Written(page) THEN PendingOf[i]
  ELSE i

\* _write_transaction over both lists; removed_at is cleared on every write.
PutRows(rows, page) ==
  [i \in Ids |->
     IF Rewritten(rows, page, i)
     THEN [origin  |-> OriginOf(rows, page, i),
           content |-> page.content[i],
           removed |-> FALSE]
     ELSE IF Overtaken(rows, page, i) THEN NoRow
     ELSE rows[i]]

\* _mark_removed: a soft delete of the rows still answering to those ids.
MarkRemoved(rows, gone) ==
  [i \in Ids |->
     IF i \in gone \cap Held(rows) THEN [rows[i] EXCEPT !.removed = TRUE]
     ELSE rows[i]]

\* Faulty variant of ApplyPage: the removed list is ignored.
ApplyWithoutRemovals(rows, page) == PutRows(rows, page)

\* _apply_transaction_changes: added, modified, then removed.
ApplyPage(rows, page) == MarkRemoved(PutRows(rows, page), page.gone)

-----------------------------------------------------------------------------

(***************************************************************************)
(* What the table should show of a ledger: every id it can denominate,     *)
(* except a hold whose posting is there beside it.                         *)
(***************************************************************************)
Countable(ledger) ==
  {i \in Live(ledger) \ Unwritable :
      \A p \in Live(ledger) \ Unwritable : PendingOf[p] # i}

\* A hold never stands beside the posting that settled it.
SettledOnce(rows) == \A p \in Held(rows) : PendingOf[p] \notin Held(rows)

Mirrors(rows, ledger) ==
  /\ Shown(rows) = Countable(ledger)
  /\ \A i \in Shown(rows) : rows[i].content = ledger[i]
=============================================================================
