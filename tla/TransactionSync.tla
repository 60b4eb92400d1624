--------------------------- MODULE TransactionSync ---------------------------
(***************************************************************************)
(* `bankmachine sync run` for one connection's transactions: the page loop *)
(* of cli/sync_run.py over store/derivation.py and the transactions        *)
(* deriver, against an aggregator whose data moves while it is paged.      *)
(*                                                                         *)
(* `feed` is the aggregator's history of ledgers; a cursor is a position   *)
(* in it.  Position 1 is the empty ledger, which is also what no cursor    *)
(* means.  A run holds nothing between pages but what is in run[r]: the    *)
(* cursor is re-read from the store before every fetch, the raw body is    *)
(* committed before it is derived, and the cursor is derived with the rows.*)
(*                                                                         *)
(* Nothing in the code keeps a second run from starting while one is in    *)
(* flight, so the runs are a set.                                          *)
(***************************************************************************)
EXTENDS LedgerRows, Sequences

CONSTANTS
  Runs,                     \* processes running `sync run`
  MAX_PAGES_PER_RUN,        \* page ceiling of one run
  MAX_PAGINATION_RESTARTS,  \* restarts of one run's paging
  PAGE_SIZE,                \* changes one page may carry
  MAX_POLLS,                \* Len(NOT_READY_DELAYS); 0 under --no-wait
  MaxFeed,                  \* bound: ledgers the aggregator publishes
  MaxFaults,                \* bound: crashes, refusals and failed calls
  NoCursor

ASSUME BoundsAssumption ==
  /\ MAX_PAGES_PER_RUN \in Nat \ {0}
  /\ MAX_PAGINATION_RESTARTS \in Nat
  /\ PAGE_SIZE \in Nat \ {0}
  /\ MAX_POLLS \in Nat
  /\ MaxFeed \in Nat \ {0}
  /\ MaxFaults \in Nat

ASSUME NoCursorAssumption == NoCursor \notin Nat

VARIABLES
  \* the aggregator
  feed,         \* the ledgers published so far, oldest first
  backfill,     \* transactions_update_status: "none", "initial" or "historical"
  backfillEnd,  \* position at which the backfill was complete, 0 before
  \* the datastore
  archive,      \* raw_responses: the change each archived page carries
  rows,         \* transactions
  cursor,       \* sync_state.cursor
  landed,       \* sync_state.last_success_at is stamped
  status,       \* connections.status
  lastSuccess,  \* position held when connections.last_success_at was stamped, 0 if null
  granted,      \* position held when granted_history_days was measured, 0 if null
  \* the running processes
  run,
  faults        \* faults so far

aggregator == <<feed, backfill, backfillEnd>>
store      == <<archive, rows, cursor, landed, status, lastSuccess, granted>>
vars       == <<aggregator, store, run, faults>>

Position == IF cursor = NoCursor THEN 1 ELSE cursor

Positions == 1 .. Len(feed)

Phases == {"idle", "page", "archive", "derive", "measure", "stamp"}

\* What a run remembers: ConnectionOutcome and the loop's own locals.
RunState ==
  [phase : Phases, pages : Nat, restarts : Nat, polls : Nat,
   historical : BOOLEAN,      \* outcome.historical_complete
   from : Nat, to : Nat,      \* the page in hand: the change from one position to another
   more : BOOLEAN,            \* its has_more
   complete : BOOLEAN]        \* its status was HISTORICAL_UPDATE_COMPLETE

IdleRun ==
  [phase |-> "idle", pages |-> 0, restarts |-> 0, polls |-> 0,
   historical |-> FALSE, from |-> 1, to |-> 1, more |-> FALSE, complete |-> FALSE]

Init ==
  /\ feed = <<EmptyLedger>>
  /\ backfill = "none"
  /\ backfillEnd = 0
  /\ archive = {}
  /\ rows = NoRows
  /\ cursor = NoCursor
  /\ landed = FALSE
  /\ status = "active"
  /\ lastSuccess = 0
  /\ granted = 0
  /\ run = [r \in Runs |-> IdleRun]
  /\ faults = 0

Idle(r) == run[r].phase = "idle"

EndRun(r) == run' = [run EXCEPT ![r] = IdleRun]

-----------------------------------------------------------------------------
(***************************************************************************)
(* The aggregator.  It may add, change, settle or withdraw a transaction   *)
(* at any time.  It never withdraws a posting before the hold it settled,  *)
(* and never reports a hold anew once its posting has been reported.       *)
(***************************************************************************)
EverLive(i) == \E k \in Positions : i \in Live(feed[k])

Settled(h) == \E p \in Ids : PendingOf[p] = h /\ EverLive(p)

LegalNext(old, new) ==
  /\ \A h \in Live(new) \ Live(old) : ~ Settled(h)
  /\ \A p \in Live(old) \ Live(new) : PendingOf[p] \notin Live(new)

\* Report i with content v, withdrawing the hold it settles at once or later.
Reports(old, i, v) ==
  LET reported == [old EXCEPT ![i] = v]
  IN {reported} \cup
     {[reported EXCEPT ![h] = Absent] : h \in {PendingOf[i]} \ {NoId}}

Publish ==
  /\ Len(feed) < MaxFeed
  /\ \E i \in Ids, v \in Versions \cup {Absent} :
       \E new \in IF v = Absent THEN {[feed[Len(feed)] EXCEPT ![i] = v]}
                  ELSE Reports(feed[Len(feed)], i, v) :
         /\ new # feed[Len(feed)]
         /\ LegalNext(feed[Len(feed)], new)
         /\ feed' = Append(feed, new)
  /\ UNCHANGED <<backfill, backfillEnd, store, run, faults>>

\* The first days of history are there, then all of it.
Materialize ==
  /\ \/ /\ backfill = "none"
        /\ backfill' = "initial"
        /\ UNCHANGED backfillEnd
     \/ /\ backfill = "initial"
        /\ backfill' = "historical"
        /\ backfillEnd' = Len(feed)
  /\ UNCHANGED <<feed, store, run, faults>>

-----------------------------------------------------------------------------
(***************************************************************************)
(* The page loop of _sync_one.                                             *)
(***************************************************************************)

\* The credential is read and the account roster refreshed; paging begins.
Start(r) ==
  /\ Idle(r)
  /\ run' = [run EXCEPT ![r].phase = "page"]
  /\ UNCHANGED <<aggregator, store, faults>>

\* The run with the page up to `to` in hand.
PageFetched(state, to) ==
  [state EXCEPT !.phase = "archive",
                !.polls = 0,
                !.from = Position,
                !.to = to,
                !.more = (to < Len(feed)),
                !.complete = (backfill = "historical"),
                !.historical = (@ \/ backfill = "historical")]

\* A page is fetched from the cursor the store holds now.
Fetch(r) ==
  /\ run[r].phase = "page"
  /\ backfill # "none"
  /\ \E to \in Position .. Len(feed) :
       /\ to = Position => Position = Len(feed)
       /\ to - Position <= PAGE_SIZE
       /\ run' = [run EXCEPT ![r] = PageFetched(@, to)]
  /\ UNCHANGED <<aggregator, store, faults>>

\* NOT_READY is a state: polled, then left for another run with nothing recorded.
FetchNotReady(r) ==
  /\ run[r].phase = "page"
  /\ backfill = "none"
  /\ IF run[r].polls < MAX_POLLS
     THEN run' = [run EXCEPT ![r].polls = @ + 1]
     ELSE EndRun(r)
  /\ UNCHANGED <<aggregator, store, faults>>

\* _degrade records the failure on the connection's row and ends its run.
Degrade(r) ==
  /\ status' = "degraded"
  /\ EndRun(r)
  /\ UNCHANGED <<archive, rows, cursor, landed, lastSuccess, granted>>

\* TransactionsPaginationRestartError: the feed moved under a page run in flight.
FetchRestart(r) ==
  /\ run[r].phase = "page"
  /\ backfill # "none"
  /\ faults < MaxFaults
  /\ faults' = faults + 1
  /\ IF run[r].restarts < MAX_PAGINATION_RESTARTS
     THEN /\ run' = [run EXCEPT ![r].restarts = @ + 1]
          /\ UNCHANGED store
     ELSE Degrade(r)
  /\ UNCHANGED aggregator

\* Faulty variant of Archive: the body is derived without having been archived.
ArchiveNothing(r) ==
  /\ run[r].phase = "archive"
  /\ run' = [run EXCEPT ![r].phase = "derive"]
  /\ UNCHANGED <<aggregator, store, faults>>

\* _persist, first commit: the body is archived before anything is derived.
Archive(r) ==
  /\ run[r].phase = "archive"
  /\ archive' = archive \cup {<<run[r].from, run[r].to>>}
  /\ run' = [run EXCEPT ![r].phase = "derive"]
  /\ UNCHANGED <<aggregator, rows, cursor, landed, status, lastSuccess, granted, faults>>

\* Where the loop goes once a page has been applied.
AfterPage(r) ==
  LET pages == run[r].pages + 1
      turn  == IF run[r].more /\ pages < MAX_PAGES_PER_RUN THEN "page"
               ELSE IF run[r].historical THEN "measure"
               ELSE "stamp"
  IN run' = [run EXCEPT ![r] = [@ EXCEPT !.phase = turn, !.pages = pages]]

\* Faulty variant of Derive: the rows are committed and the cursor is not.
DeriveWithoutCursor(r) ==
  /\ run[r].phase = "derive"
  /\ rows' = ApplyPage(rows, Change(feed[run[r].from], feed[run[r].to]))
  /\ landed' = TRUE
  /\ AfterPage(r)
  /\ UNCHANGED <<aggregator, archive, cursor, status, lastSuccess, granted, faults>>

\* derive_transactions_sync, second commit: rows and cursor in one transaction.
Derive(r) ==
  /\ run[r].phase = "derive"
  /\ rows' = ApplyPage(rows, Change(feed[run[r].from], feed[run[r].to]))
  /\ IF run[r].to = 1   \* nothing to hand over yet, so next_cursor is empty
     THEN /\ landed' = (landed \/ run[r].complete)
          /\ UNCHANGED cursor
     ELSE /\ landed' = TRUE
          /\ cursor' = run[r].to
  /\ AfterPage(r)
  /\ UNCHANGED <<aggregator, archive, status, lastSuccess, granted, faults>>

\* Faulty variant of StoppedShort: never.
NeverShort(r) == FALSE

\* The page loop ended on its ceiling with more to fetch.
StoppedShort(r) == run[r].more

\* _record_granted_window: measured once, on whatever rows are held by then.
MeasureGrantedWindow(r) ==
  /\ run[r].phase = "measure"
  /\ granted' = IF granted = 0 /\ Held(rows) # {} THEN Position ELSE granted
  /\ run' = [run EXCEPT ![r].phase = "stamp"]
  /\ UNCHANGED <<aggregator, archive, rows, cursor, landed, status, lastSuccess, faults>>

\* _record_success: the error clears; the freshness stamp needs the whole history.
RecordSuccess(r) ==
  /\ run[r].phase = "stamp"
  /\ status' = "active"
  /\ lastSuccess' = IF run[r].historical /\ ~ StoppedShort(r) THEN Position ELSE lastSuccess
  /\ EndRun(r)
  /\ UNCHANGED <<aggregator, archive, rows, cursor, landed, granted, faults>>

\* A ConnectorError or StoreError inside the run: nothing of the step in hand commits.
Fail(r) ==
  /\ run[r].phase \in {"page", "archive", "derive"}
  /\ faults < MaxFaults
  /\ faults' = faults + 1
  /\ Degrade(r)
  /\ UNCHANGED aggregator

\* The process dies, or an error leaves the command: nothing is recorded.
Crash(r) ==
  /\ ~ Idle(r)
  /\ faults < MaxFaults
  /\ faults' = faults + 1
  /\ EndRun(r)
  /\ UNCHANGED <<aggregator, store>>

Progress(r) ==
  \/ Start(r)
  \/ Fetch(r)
  \/ FetchNotReady(r)
  \/ Archive(r)
  \/ Derive(r)
  \/ MeasureGrantedWindow(r)
  \/ RecordSuccess(r)

Next ==
  \/ Publish
  \/ Materialize
  \/ \E r \in Runs : Progress(r) \/ FetchRestart(r) \/ Fail(r) \/ Crash(r)

Spec == Init /\ [][Next]_vars

(***************************************************************************)
(* The operator or a scheduler keeps running the command, and a run keeps  *)
(* going unless something in it fails.                                     *)
(***************************************************************************)
FairSpec == Spec /\ \A r \in Runs : WF_vars(Progress(r))
-----------------------------------------------------------------------------
(***************************************************************************)
(* Properties.                                                             *)
(***************************************************************************)

\* Every variable has its type, and a page in hand lies between published ledgers.
TypeOK ==
  /\ feed \in Seq(Ledger)
  /\ Len(feed) >= 1
  /\ backfill \in {"none", "initial", "historical"}
  /\ backfillEnd \in 0 .. Len(feed)
  /\ archive \subseteq Positions \X Positions
  /\ rows \in Rows
  /\ cursor \in Positions \cup {NoCursor}
  /\ landed \in BOOLEAN
  /\ status \in {"active", "degraded"}
  /\ lastSuccess \in 0 .. Len(feed)
  /\ granted \in 0 .. Len(feed)
  /\ run \in [Runs -> RunState]
  /\ \A r \in Runs : run[r].from \in Positions /\ run[r].to \in Positions
  /\ faults \in Nat

(***************************************************************************)
(* The table shows exactly what the aggregator reported at the stored      *)
(* cursor: no page half applied, skipped, or applied over a later one,     *)
(* through crashes, refused derivations and restarts (AC-2.1, 2.2, 2.5).   *)
(***************************************************************************)
StoreMirrorsCursor == Mirrors(rows, feed[Position])

(***************************************************************************)
(* Every change at or before the cursor is in some archived body, whatever *)
(* run fetched it: the archive can rebuild all the cursor claims (AC-5.1). *)
(***************************************************************************)
ArchiveCoversCursor ==
  \A k \in 2 .. Position : \E a \in archive : a[1] < k /\ k <= a[2]

(***************************************************************************)
(* A purchase is in the table once: never as a hold and as the posting     *)
(* that settled it, whatever order or however often pages arrive (AC-2.3). *)
(***************************************************************************)
SettledHoldIsGone == SettledOnce(rows)

(***************************************************************************)
(* Two rows never share the local identity one of them was inserted with.  *)
(***************************************************************************)
OriginsDistinct ==
  \A i, j \in Held(rows) : rows[i].origin = rows[j].origin => i = j

(***************************************************************************)
(* A local row outlives everything the feed does to it: what points at it  *)
(* (a category override) stays attached through a settlement or a removal. *)
(***************************************************************************)
NoRowForgotten ==
  [][\A i \in Held(rows) : \E j \in Held(rows)' : rows'[j].origin = rows[i].origin]_vars

(***************************************************************************)
(* connections.last_success_at is stamped only over a store that holds the *)
(* whole backfill (the docstring of _record_success).                      *)
(***************************************************************************)
FreshMeansHistoryIsIn ==
  lastSuccess # 0 => backfillEnd # 0 /\ lastSuccess >= backfillEnd

(***************************************************************************)
(* Every change the aggregator has published reaches the store, across     *)
(* page ceilings, restarts, failures and crashes.                          *)
(***************************************************************************)
EveryChangeArrives ==
  \A k \in 1 .. MaxFeed : (Len(feed) >= k /\ backfill # "none") ~> (Position >= k)

(***************************************************************************)
(* The refinement mapping: the store is at the position its cursor names   *)
(* and shows the rows no sum leaves out.                                   *)
(***************************************************************************)
Mirror ==
  INSTANCE LedgerMirror WITH
    published <- feed,
    position  <- Position,
    shown     <- [i \in Shown(rows) |-> rows[i].content]

\* One run at a time implements the mirror: cursor and rows only move together.
ImplementsMirror == Mirror!MirrorSpec
=============================================================================
