# A verification of bankmachine

`bankmachine` keeps a household's bank history in one encrypted SQLite file.  It
links institutions through an aggregator (Plaid), pulls their accounts,
transactions, holdings and investment transactions, archives every response
verbatim, derives normalized tables from the archive, and answers questions over
MCP, read-only.  There is no server: each CLI command is a process, any two of
them may overlap, and each may die between any two commits.  What has to be true
is then mostly about *order*: which of two facts is committed first, what a
process re-reads, what a later run makes of what an earlier one left behind.

This directory holds TLA+ modules of that program, TLC runs that check them on
small instances, and proofs that TLAPS checks for every value of the constants.
Paths are relative to the repository root below `src/`; `PROJECT.json` maps every
definition to the lines it stands for.

    tlc -workers 2 -config MCTransactionSync.cfg MCTransactionSync.tla
    tlapm TransactionSync_proofs.tla

## The parts of the system

| part | state it keeps | operations | what is hard | what makes it correct |
|---|---|---|---|---|
| Transaction sync (`cli/sync_run.py`, `store/derivation.py`, `connector/plaid/derivers.py`) | `raw_responses`, `transactions`, `sync_state`, the granted window | page loop, archive, derive, restart, stop at the ceiling, measure, stamp | a feed that moves while it is paged; a crash between the two commits; two runs at once; holds that post | table and cursor never part; the archive covers the cursor; one row per purchase; fresh only with the history in |
| Sync run over all connections (`cli/sync_run.py`, `store/sync_domains.py`) | `connections.status`, `last_success_at`, `sync_state` error and attempt | one connection after another, domain by domain; exit code; `--until-ready` | one failure among many; the lock taken by something else between any two writes | exit code and store agree; one broken connection costs no other; the command ends |
| Investment window (`store/investments.py`, `connector/plaid/window.py`) | `investment_transactions` | page by offset, conclude on the closing page | no cursor, no tombstones: removal is inferred from absence | nothing the aggregator still reports is retired |
| Writer lock and connection roles (`store/connection.py`) | a lock file; open handles | `reader`, `writer`, `initializing_writer`, `copying_writer`, `inspect` | non-waiting exclusion between processes; kill | one writer at a time, and only over a schema it understands |
| Backup (`store/backup.py`) | the copy | copy, verify, discard | holds the lock for long; leaves partial files | a file that is left is a whole copy or is said not to be |
| Rebuild (`store/rebuild.py`) | every derived table | delete, replay, pair, restore operator state, compare digests | the archive holds more than was ever derived | reproduces the store, or changes nothing |
| Migrations (`store/migrations/`) | the schema version | one transaction per step | a kill between steps | resumable; never served half-way |
| Enrollment, retirement, re-authorisation (`cli/enroll.py`, `cli/connections.py`) | `connections`, credentials, Items at the aggregator | link, exchange, record, release, retire, repair | an Item that exists and bills before anything here records it | no Item is left billing without a record of it |
| Account identity and lineage (`derivers.py`, `store/lineage.py`) | `accounts` | match, re-point, roster, supersede | a re-link re-issues every id | one account, counted once |
| Daily balances and holdings (`derivers.py`) | `balances_daily`, `holdings`, `refused_holdings` | claim a capture day | replay in another order | the first capture of a day wins in every order |
| Transfer pairing (`store/transfers.py`) | `transfer_pair_id` | clear and re-pair on every page | pages in any order | a function of the table |
| Query surface and envelope (`query*.py`, `envelope.py`) | none: one snapshot per statement | answers with caveats, page cursors, totals | a store that changes between two pages, and between two statements of one answer | no silent gap, nothing invented, totals of what moved |
| MCP server (`mcp.py`, `mcp_resources.py`) | one session | the read loop, batches, tool calls over the read role | one bad message among many; a datastore that is lost, re-keyed or migrated under it | one reply per request, and no unreadable store answered as an empty one |
| Key custody (`secrets.py`) | keychain entries | mint, read, import, delete | a kill between the key and the file | an entry that is there opens the file that is there |
| Client, configuration (`connector/`, `config.py`) | - | calls | - | - |

Processes meet in six places: the writer lock (one transaction at a time, never
waited for), `sync_state.cursor` (read by a run before each page, written by the
deriver), `connections.status` (written by a run, by `reauth` and by `retire`),
the raw archive (written by every run, replayed by a rebuild), the datastore file
with its key and its schema version, and every table an answer reads, statement by
statement, without a transaction around them.

The modules build on one another as the parts do:

    LedgerRows <- LedgerMirror <= TransactionSync     one connection's feed
    SyncRun                                           all connections, one run
    InvestmentWindow                                  removal by absence, and its replay
    Enrollment                                        Items, credentials, rows
    TransferPairs <- AccountRows <- Rebuild           what a body derives; archive and replay
    TransferPairs <- Summary <- Totals                generations, pairs and what is summed
    StoreRoles <- McpServer                           file, key, lock, schema; the session over it
    PagedRead, Answers                                what an answer reads, in which order

`<-` is EXTENDS and `<=` a refinement.  Each `X_proofs` holds the theorems about X;
`Query_proofs` those about PagedRead and about Summary and Totals.

## What is modelled

### LedgerRows - one connection's `transactions` table

`rows` is a function from a source transaction id to the row that answers to it
(the unique index) or `NoRow`.  A row carries `origin`, the id it was inserted
under, which stands for all that is stamped once at insertion (local id,
`first_seen_at`, `ledger_date`, `lineage_id`); `content`, which stands for the
columns every write replaces; and `removed`, for `removed_at`.  `ApplyPage` is
`_apply_transaction_changes`: the added and modified entries in the order the
aggregator issued them, then the removed ones.  A posting takes over the row of
the hold it settles; a hold whose posting is already there is not written again;
an entry in a unit that cannot be converted costs that row and not the page.
A *ledger* is what the aggregator reports at one instant, and a page is the
`Change` from one ledger to a later one.

### TransactionSync - the page loop

| model | code |
|---|---|
| `feed`, `backfill`, `Publish`, `Materialize` | the aggregator (external): a sequence of ledgers, a cursor is a position in it; `transactions_update_status` |
| `cursor`, `landed` | `sync_state.cursor`, `sync_state.last_success_at` |
| `status`, `lastSuccess`, `granted` | `connections.status`, `.last_success_at`, `.granted_history_days`; the two stamps are modelled by the position the store held when they were written |
| `archive` | `raw_responses`: which change each archived body carries |
| `run[r]` | what one process remembers: `ConnectionOutcome` and the loop's locals |
| `Fetch`, `FetchNotReady`, `FetchRestart` | one `/transactions/sync` call from the cursor the store holds now: a page, `NOT_READY`, or a pagination restart |
| `Archive`, `Derive` | the two commits of `apply_response` |
| `MeasureGrantedWindow`, `RecordSuccess`, `Degrade` | the writes after the loop |
| `Fail`, `Crash` | an error the run catches, and one it does not or a kill |

A fetched page goes from the stored cursor to any later position within
`PAGE_SIZE` changes, `has_more` says whether the feed goes on, and the feed may
move between any two steps.  `Runs` is a set because nothing in the code stops a
second process: the lock is taken page by page.

### LedgerMirror - what transaction sync promises

The store shows one of the ledgers the aggregator has published, moves only
forward through them, and changes content and position in one step.
`TransactionSync` implements it under the mapping that takes the rows not
soft-deleted for what is shown and the cursor for the position.

### SyncRun - one run over all connections

One connection after another, and every write of a run as a step of its own,
because each takes the writer lock for itself and does not wait: `Refused` is
what it meets while a backup holds the lock.  The investments domain has its own
attempt, failure, incomplete and success records; the page loop is one step with
the outcomes TransactionSync gives it.  `Escape` is an error that leaves the run:
`main()` reports it and exits 2.  `success` and `invSuccess` say whether a stamp
was never written, was written before, or by the run in hand.

### InvestmentWindow - removal inferred from absence

| model | code |
|---|---|
| `reported`, `today`, `List`, `Withdraw`, `DayPasses` | the aggregator's listing of trades, newest first, and the calendar (external) |
| `RowsAt`, `Answers`, `Totals` | one page of `/investments/transactions/get`: the rows at an offset and a total, true, missing or one too high |
| `archive` | `raw_responses`; a response id is an index into it, and stands for `received_at` |
| `trades` | `investment_transactions`: the response each row was last written from, and the one that retired it |
| `historyStart` | `sync_state.history_start_date` |
| `pull[r]` | the locals of `_pull_investment_transactions` and its own `InvestmentWindowReplay` |
| `Fetch`, `Archive`, `Derive` | one turn of the paging loop: the call and the two commits; the window is concluded inside the second commit of its closing page |
| `Stop` | a failed call, a refused derivation, a held lock, a kill |
| `Observed`, `Replayed` | the same pass over one page, live, and over the whole archive in a rebuild |

`missing` and `restated` remember why a row may be retired: the aggregator did not
list the trade at some time since the row was last written, or returned it in a
unit the deriver cannot write.  `StillWhilePaged` is the assumption the code states
("the total does not move between pages"); what happens without it is below.

### Enrollment - an Item, its credential and its row

Three stores have to agree about a connection and no transaction spans them.

| model | code |
|---|---|
| `far` | the aggregator's Items (external): not minted, live and billed, removed |
| `keychain` | which Items' access tokens are stored; the entry's name is made from the Item's id |
| `rows` | the `connections` table; `cursor` and `stamp` say which Item's sync left `sync_state` and `last_success_at` |
| `cmd[p]` | what one process has in hand, where it stands and what it exited with |
| `EnrollStarts` to `Keep` | `cmd_enroll` up to the transaction: the cap, the session, the exchange, `item_get`, `set_access_token` |
| `RecordNew`, `RecordExisting`, `RecordRefused`, `RecordClashes` | `_record_connection`: a new row, a converging re-run or a re-link, the cap and re-link refusals, and a row that names the Item already |
| `Remove`, `Forget`, `NothingToRemove`, ... | `release_at_aggregator`, and `Confirmed` / `Unconfirmed`: what each of its four callers does with the answer |
| `OrphanRecorded` | `_record_orphan`, the retired row from which `connections retire` can try again |
| `RetireStarts`, `RetireRetries`, `RetireAgain`, `Mark` | `cmd_retire`: read, mark in a transaction of its own, release; a surviving credential means try again |
| `runs[s]`, `SyncReads` | a sync run of one connection and what it holds of the row it read: its `connection_id` and its Item's credential |
| `SyncFetches`, `SyncCommits`, `SyncStamps`, `SyncEnds` | a page fetched with that credential from the row's cursor, which the aggregator refuses when another Item issued it; `_persist` and `_record_success`, each a commit of its own that asks for no Item; a failure, a kill or a history still to come |
| `Killed` and the `...Fails` | a process that dies; a call or a commit that fails, each counted by `faults` |

`told`, `lost`, `unheld` and `contested` remember what the properties have to
excuse: an error that named the Item, a handle that died with a process or a reply,
a token that never reached the keychain, and a live connection whose Item another
command was already removing, or whose own failed re-run removed it.  `overtaken`
remembers the rows whose latest re-link came while a sync was under way that had read
them.  The pages of a sync and its stamp are separate commits, so any step of any command
may fall between the read of the row, a fetch and a commit.  `granted_history_days` is
left out: it is measured on every row of the connection, whichever Item brought it.

### AccountRows - what one archived body derives

A store is one record, so that a replay is a fold of these operators over the archive.
`Each` is a loop of a deriver: a step for every entry of a body, in their order.

| model | code |
|---|---|
| `accounts`, `MatchAccount`, `UpsertAccount`, `Roster` | `_match_account`, `_upsert_account`, `_record_roster_observation`: the persistent id first, then the source id of this connection; only an accounts reply is a roster |
| `balances`, `holdings`, `refused`, `Claims` | `_claim_capture_day`: the earliest capture of a day takes it, and a position is priced or refused |
| `ledger`, `ApplyChange`, `MarkRemoved` | the transactions of a page, as far as account, category and pair go |
| `domain`, `RecordDomainSuccess` | `sync_state`: the cursor, the response and the instant a page left; a page without a cursor (`Endings`) leaves the instant when it ends a complete history and nothing otherwise |
| `security`, `UpsertSecurity` | the one row that is written over and not emptied by a rebuild |
| `PairedStore` | `pair_transfers`, after every body that is derived |

A real account is what the aggregator reports, and a source id is an Item and an
account, so that a re-link issues every id anew.  `offers` is bookkeeping of the model:
every capture any body put forward, for `EarliestCaptureStands`.

### Rebuild - the archive, live and replayed

Two processes fetch, persist and derive; a body's instant is stamped when it is fetched
and the archive keeps the order bodies were persisted in, so the two may differ.  `Die`
is a process that ends between the two transactions of `apply_response`; `derived` names
the bodies that got through the second one, then or in a rebuild since; `Attempt` is a
run that stops after it wrote its progress; `Override` is the operator's own category;
`OtherBuild` derives rows another derivation version left.  `RunRebuild` is
`store/rebuild.py`: clear, replay by instant, pair, put the overrides back, compare the
digests, and change nothing when they differ and no difference was to be expected.

### TransferPairs, Summary and Totals - what a summary counts

`PairTransfers` is the greedy pass of `store/transfers.py`: legs in day and id order,
each taking the nearest day and then the lowest id.

`Summary` holds the tables and what an answer makes of them.  Each movement of money
has a number, and every Item reports it anew: `entries` keeps one row per Item that
delivered it, `accounts` one per account row, `conns` the connections with the day of
their last roster, `owed` what each Item has yet to deliver.  `SupersededSpans` is
`store/lineage.py` (same identity, later generation, the span it covers); `FlowClass`,
`EveryGroup`, `Capped` and `Totals` are `money_summary`.  A summary is taken on one
snapshot.

`Identity` gives the mask, name, type and subtype of an account as each Item states them,
and `Unstated` where the mask or the subtype is null: `SameIdentity` is
`identity_partition`, under which an unstated account is of the same partition as itself
alone.  An Item states an account alike for as long as it is in use.

`Totals` says how the tables come to stand so.  Its actions are `Enroll`, `ReLink`,
`Sync`, `Retire`, `Deliver`, `Withdraw`, `Restate`, `Close` and the calendar, and each
that touches a row pairs the table anew.

### PagedRead - two paged tools over a changing table

`walk` is the caller and the answer being assembled, statement by statement: the
superseded rows, the page, the count from the cursor onward, the count of the whole
request, the coverage.  A write may land between any two.  `Page` is the keyset query
(`day DESC, id DESC`, strictly beyond the cursor; `Nth` is the row at a rank of that
order), `Fingerprint` what a cursor is bound
to, `Over` the truncation counts, `ResolveWindow` the effective window.  A row has two
dates: `day`, the ledger date, stamped once, by which rows are filtered, ordered and paged,
and `posted`, which moves until the row settles and over which `Covering` takes the days
the window is cut to (`_coverage`).  A row is authorised no later than it posts; a trade
has one date for both.  The caller may
present its cursor with any request.  `seen` is what the walk has handed over and which
rows nothing touched meanwhile.

### Answers - one answer, many snapshots

`list_accounts`, `get_coverage_report` and `get_pipeline_health` are sequences of
statements (`Statements`), each reading its own snapshot of `conns`, `accts`, `recorded`
and `versions`; `ask` is what the earlier ones left for the later ones: the roster, the
days rosters were observed, the connection rows the domains statement looks up
(`ask.read`).  Between any two, a run, an enrollment, a retirement or a rebuild commits.
`held` and `warranted` say what has been wrong at every instant, and at some instant,
since the question was put.  `get_pipeline_health` reads the versions and the rosters
before the connections and their domains, and of a roster says only that it came back
empty (`EmptyRosterFindings`); the lifecycle of single accounts is the other two tools'.

### StoreRoles - file, key, lock and schema

| model | code |
|---|---|
| `file`, `chain`, `lock`, `copy` | the datastore with its key and `schema_version`; the keychain entry; the lock file; a backup's destination |
| `proc[p]` | the command a process runs, where it stands, the key it holds, and its last exit |
| `CheckPresent`, `ObtainKey`, `SetDatastoreKey`, `ExclusiveLock`, `CreateFile`, `KeyAndPrepare`, `Migrate`, `Migrated`, `RequireSupportedSchema`, `Commit` | `store init` and `_writer`: the mint, the lock that is not waited for, the first page, one transaction per migration, the schema check, the write |
| `CheckDestination`, `Vacuum`, `VacuumDone`, `VacuumFails`, `Verify` | `back_up` |
| `ImportKey`, `SetImportedKey` | `store key import` |
| `InspectPresent`, `WriterLockHeld`, `ProbeReleased`, `InspectRead` | `inspect`, whose probe takes the lock for an instant, unless there is no lock file; one that cannot be opened makes the store unreadable |
| `Kill`, `LoseKey` | a process that dies anywhere; a keychain entry that is gone |

### McpServer - a session over the read role

`script` is what a client sends: lines that are blank, cannot be decoded, are no JSON,
or carry one message or a batch.  `session` reads a line, handles its messages one after
another, and for a tool call inspects the datastore and opens it, both steps of
StoreRoles, while the operator's commands go on beside it.  What a tool puts in its rows
is the business of PagedRead, Answers and Summary.

## What the runs check

| run | instance | shows |
|---|---|---|
| `sync` | one process, a hold and its posting, two contents, three ledgers, a ceiling of one page, one restart, two faults, fair | `StoreMirrorsCursor`: the table is exactly the ledger at the cursor; `FreshMeansHistoryIsIn`; the refinement `ImplementsMirror`; `EveryChangeArrives` |
| `two` | two processes, three ledgers, one fault | `ArchiveCoversCursor` and `SettledHoldIsGone` hold even where the mirror does not |
| `connections` | two connections, one with investments, two attempts, one failed call, lost login or crash, one backup, a run that may end on its ceiling, fair | `CleanExitMeansCurrent`, `ProblemExitIsOnRecord`, `HealthyConnectionBecomesFresh`, `CommandEnds` |
| `window` | one process, three trades on three days, a window of two, pages of one row, a ceiling of two pages, one fault, three archived pages | `OnlyUnreturnedIsRetired`, `WholeWindowIsExact`, `RebuildReproduces` |
| `enroll` | two enrollments, one process that retires and one that syncs a connection time after time, three Items of one institution and one of another, room for one connection, two faults; a new store or one connection enrolled | `NothingBillsUnseen`, `CapHolds`, `LiveRowKeepsItsItem`, `ProgressIsOfItsItem`, `SaidRemovedIsGone` |
| `reads` | either tool, three rows, each with a ledger day and a posted day among two days of which one is ahead of today, seven requests, pages of one row, two writes | `SteadyRowReadOnce`, `PagesAreOneAnswer`, `WindowHoldsTheRows` |
| `answers` | three tools, one connection, one account, two days, four commits | `StandingProblemIsNamed`, `NothingIsInvented`, `FrozenBalanceIsTold`, `EmptyAnswerIsExplained` |
| `server` | two operator processes of different builds, the server, two keys, one commit of data, four commands, kills or losses, four sessions | `KeyOpensTheFile`, `WriteMeetsItsSchema`, `BackupIsWhole`, `RepliesMatchRequests`, `EmptyMeansMissing` |
| `rebuild` | two real accounts with one leg of a transfer each, two connections, two Items, two processes, seven replies of which three are fetched, one fault | types; `EarliestCaptureStands`, `OneRowPerAccount`, `DelistedIsNotReported`, `RefusedOnlyForAReason`, `RebuildRestampsEverything` |
| `totals` | three accounts of one bank, two of them alike until the third Item, one without a mask, four movements, three Items, two days, one withdrawal, restated category or closed account, answers of one group | types; `PairsAreAMatching`, `MovementCountsOnce`, `TotalsAreOfTheMovements` |
| `spent`, `probe` | the smallest instance that shows it, or that of the run beside it | two places where the program does not do what it says, below |

Why these bounds are enough.  A hold and its posting are the only two ids whose
rows depend on one another, and every other id behaves as either of them does
alone; two contents tell a stale row from a current one; three ledgers with a
ceiling of one page put a restart, a crash and a ceiling before, between and
after applied pages.  Two faults let one hit what the run after the first one
left behind.  In `window`, the window slides over three days so that each trade
enters it and leaves it, two-page windows put a stop before, between and after
their pages, and three archived pages are a whole window beside an abandoned one.  In
`connections`, two connections are one that fails and one that must not notice, in both
orders, and two attempts are one that repeats and one that gives up.

In `enroll`, three Items of one institution are two re-links in a row, and one of another
competes with them for the one place there is; two enrollments race for it or for one
row, and a retirement beside them reads a row before it moves and writes it after.  More
places would only add rows that no command of another institution touches but to count
them.  Two faults put
a second failure, or a kill, into the clean-up after the first.  The sync runs as often as
it likes, so that one re-link may find it before, between and after its commits and the
next put the row in order again.

In `reads`, pages of one row and three rows are a first page, one from a cursor and a
last one, with a write before, inside and after each; two rows on one day make the
tie-break matter, and the day ahead of today the end of coverage.  A ledger day and a
posted day of each let a row be authorised before the coverage starts, or post after
today.  The rows have one category: the filter by it makes another question over the same
rows, which a cursor of the first must not answer.  In `answers`, one
connection and one account are enough because no statement compares two of them; four
commits bring a connection into being, list its account and change it twice, and a
`STALE_AFTER` of no days makes the second day stale.  The theorems remove these bounds.  In `server`,
two builds are one that is behind and one that is ahead, two keys a minted and an
imported one, and the sessions hold every kind of line and of message; the code's limit of
three undecodable lines is two here.  In `rebuild`, three bodies are two of one day and
one of the next, or one before and one after a re-link, and the two processes put them in
the archive in either order.  In `totals`, three Items are an account, its re-link and
its re-enrollment, and the fourth movement gives one account a second day, so that one
generation can cover a day another does not.  The second account has a twin under the
first two Items and a name of its own under the third, and the third account is never
stated, so each of the ways an identity can fail to be recognised occurs beside one that
is.

`MaxFeed`, `MaxFaults`, `MaxArchive`, `MaxDay`, `MaxBacklog`, `MaxEvents`, `MaxBackups`,
`MaxWrites`, `MaxKeys`, `MaxData`, `MaxCommands`, `MaxBodies`, `MaxItems` and `MaxLinks`
are the bounds that are not constants of the program.

Deadlock is checked in `sync`, `two`, `connections` and `window`.  In the others the
commands, the writes or the client's lines run out, and the system is then at rest.

Fairness.  In `sync`, `WF(Progress(r))`: the operator or a scheduler keeps running
the command, and a run that is not killed goes on; faults, and the aggregator's
own steps, are not fair, and the faults are bounded because a run that fails for
ever shows nothing.  In `connections`, the steps of a run that has begun, the
beginning of another some time later, and the end of a backup (one `VACUUM INTO`)
are weakly fair; logins, histories and crashes are not.  Nothing else is assumed fair.

Each property of a passing run has a mutant in `PROJECT.json`: a change to one
definition, of the kind a bug in that code would be, under which the run finds the
property violated.

## Where the program and its documents part

* **A transfer counted as spending** (`spent`).  `store/transfers.py` begins with "A
  transfer between two accounts the household holds is not spending".  Its candidates
  include rows of a generation that lineage supersedes, and the pass offers a leg to the
  lowest id first: after a re-enrollment the superseded row takes the other account's
  leg, and the row that counts is summed as `external_spend`.
* **A probe that is a writer for an instant** (`probe`).  `architecture.md` says that the
  MCP server never takes the writer lock.  Every tool call goes through `inspect`, whose
  `writer_lock_held` answers by taking it, and a command that asks in that instant is
  refused, because the lock is not waited for.
* **A re-link that a sync in flight undoes.**  `_record_connection`
  clears the cursor and the stamps of the old Item in the transaction that repoints the
  row, and its docstring says why (`cli/enroll.py:721-727`): a cursor replayed against
  another Item "is refused for the life of the connection -- a wedge no command could
  clear".  A sync takes its connections and credentials when it starts and commits by
  `connection_id` alone (`cli/sync_run.py:646`, `:785`, `:1149`): a page fetched with the
  old token and committed after the re-link puts the old cursor back.
  `ProgressIsOfItsItem` is what is left: no other sequence does.
* **A row before the window that is stated over it.**  The API contract
  says that every returned row's `ledger_date` lies inside the effective window
  (`.prawduct/artifacts/api-contract.md:1132`).  The window is cut to the days of
  `posted_date` (`query.py:759`) while rows are chosen by `ledger_date`, so a row
  authorised before the first day any row posted is returned before the window's start.
  `WindowHoldsTheRows` is what is left: it is not after the window's end, has posted
  inside it, and nothing is cut without a caveat.

## What the code does not promise

These were met while modelling.  No property claims the opposite; each is in a model as
the code has it, or named as left out.

Sync.

* The writer lock is held per page, not per run (`cli/sync_run.py:798`), although
  `architecture.md` says for the duration of a run.  Two overlapping runs can leave a
  caught-up store that shows what the aggregator does not report, and two overlapping
  pulls of a window can retire a row that is listed.  `OneRunAtATime` is therefore an
  assumption of the mirror theorems, and the properties of `two` are what is left without it.
* A run that stops at its page ceiling after the aggregator called the history complete
  measures `granted_history_days` on part of the backfill and keeps that
  (`sync_run.py:679`).
* `_degrade`, `_record_success` and `_record_granted_window` take the lock outside every
  catch: a backup at that moment ends the run and skips the later connections
  (`sync_run.py:1140`).
* A window whose listing moves between two pages can be closed with a live row never
  returned, which it then retires; the next whole window brings it back
  (`sync_run.py:1046`).  A held trade that comes back in an unknown unit is not written
  and is retired by its own window (`restated` excuses it).
* A run that finds the history not ready leaves an earlier run's degraded status
  standing and says that nothing is wrong with the connections.

Enrollment.

* `item_get` stands before the `try` that promises a way back from every failure
  (`cli/enroll.py:476`): when it fails, the Item bills, its only token is gone, and no
  error names it.
* When the keychain refused the token, the release looks for it there, finds nothing and
  answers that nothing is left to remove (`cli/connections.py:612`).
* A re-link clears the cursor and the stamps and leaves `consent_expires_at` and
  `source_error_code`, which are of the old Item.
* A rebuild revives the cursor of a replaced Item (`enroll.py:809-820`), and a page in
  flight across a re-link does so without one (above).
* The window that is granted a re-linked connection is measured on all its rows, those of
  the Item before included (`sync_run.py:740-744`), so a shortfall of the new Item goes
  unsaid.

Store.

* The destination of a backup is checked before the lock: when a second backup to the
  same name fails, its clean-up removes the first one's copy (`store/backup.py:172`),
  and the first may verify what the second is writing.
* Two concurrent `store init` each mint a key and the later entry need not open the file
  (`secrets.py:162-166`).  `KeyOpensTheFile` is checked and proved for one process that
  may initialise.
* A rebuild is refused after ordinary sequences, the six that `RefusedOnlyForAReason`
  names, where AC-11.5 (`docs/system-requirements.md:1132`) speaks of reproducing the
  store.  The sixth takes four bodies, one more than the run has, and was found on the way
  to a proof: a page about an account its Item has not listed is refused when it is
  fetched, but a rebuild replays it over the accounts table, which it keeps and which by
  then may hold the account, and `accept` stores what it derives; once that account's row
  is re-linked to a new Item, every later replay refuses the old page again.

Answers.

* `counted_during_change` is said to tell of a walk that ended early
  (`envelope.py:1307`), and one case is untold: when a row in hand is itself removed before
  the count, the count can equal the page, and no cursor and no caveat is given although a
  row is left.  A page that ends on a row no rebuild has stamped cannot write its cursor and
  is an `internal_error`.
* The domains of a connection enrolled between two statements are looked up in a table
  that has no entry for it (`query.py:519`): `ReadDomainsOfNewcomer`.
* An account listed between the roster statement and the observations statement is called
  `no_longer_reported` although it never was (`query.py:1693`).
* A pair id that stays on a row which left the pairable categories can come to be shared
  by three rows; a comment in `store/derivation.py` still says that the pass considers
  unpaired rows only.
* An account re-linked in place counts twice until a roster of a later day has passed
  over its old row.  One whose mask or subtype is null, or that the new Item describes
  otherwise, is recognised in no later generation and counts twice from then on
  (`store/lineage.py:348`); `Unrecognised` excuses it by name.

## What is proved

Eight modules, checked by TLAPS, for every value of the constants that their assumptions
allow.

**`TransactionSync_proofs`**: any finite
or infinite sets of ids and contents, any pairing of holds and postings that
satisfies `PendingAssumption`, any set of unwritable ids and any bounds.

For any number of overlapping runs:

* `TypeCorrect`.
* `ArchiveAlwaysCoversCursor`.  `ArchiveCoversCursor` is not inductive: a page that
  is about to be derived must already be in the archive, and must not start
  beyond what the archive covers, however far back another run has moved the
  cursor meanwhile.  `ArchiveInv` adds both.
* `HoldNeverBesidePosting`, `RowIdentitiesDistinct`, `RowsKeepTheirIdentity`.  They
  follow from what `ApplyPage` does to any table, whatever page it is given:
  `RowsInv` says that a row's origin is its own id or the id of the hold it
  settled (`OriginsOwn`) and that a hold never stands beside its posting, from
  which distinctness follows.

With one run at a time (`OneRunAtATime`, the document's claim about the lock):

* `StoreAlwaysMirrorsCursor`.  `MirrorInv` adds that the page in hand starts at the
  cursor the store still has, that every id ever held has been reported, and that a
  hold whose posting was ever reported is not reported anew.  The last is the
  aggregator's promise (`LegalNext`), and without it the theorem is false.
* `SyncImplementsMirror`, from the same invariant.
* `FreshOnlyWithHistory`.  `FreshInv` carries, for a run that has seen
  `HISTORICAL_UPDATE_COMPLETE` and no more pages, that its position is past the end
  of the backfill.

**`SyncRun_proofs`**: any number of connections, institutions, attempts, failures and
backups.

* `CleanExitIsCurrent`, `ProblemExitIsRecorded`, `DomainErrorIsCurrent`,
  `AttemptIsAlwaysOnRecord`, `TypeCorrect`.  An exit code is about connections the run
  left long ago, so the invariant is about each of them: `Settled(c)` says that the
  outcome the run remembers of a connection and the row it left agree, `AllSettled` that
  this is so for all it is done with, `InHand` what the one in hand may already have in
  its outcome, phase by phase, and no step writes on another (`SameElsewhere`).

**`InvestmentWindow_proofs`**: any finite set of trades, any dates, page size and
ceiling, and any answers a fetch may get; one pull at a time and listings that stand
still while they are paged.

* `NothingReturnedIsRetired` and `ConcludedWindowIsExact`.  The arithmetic is in
  `ExhaustedReachesAll`: places in a listing are distinct and below its size, a page
  holds at most `PAGE_SIZE` of them, so a page that brings the count up to a total no
  smaller than the listing leaves nothing behind.  `WindowInv` adds that the pages of
  the window in progress brought the first rows of the listing and nothing else
  (`Paged`), that the page in hand is the next one, that no row is yet from a page that
  is not derived, and that what is not listed was not listed since its row was written.
* `RebuildIsFaithful` needs no listing that stands still: a rebuild of
  pages that were all derived gives the rows the live passes gave.  `ReplayInv` says that
  the replay of the archive, up to the page in hand, gives the table as it is, and that
  the window it has open then is the one of the pull in hand, unless that begins anew
  (`ReplayAt`).  The replay is a recursive function
  over the archive, so `ReplayExists` and `ReplaySteps` first show that it is one, by the
  earliest counterexample (`EarliestOf`).
* `RangeIsTrue`: the start of the range a concluded window records is the earliest trade
  it shows there.  `TypeCorrect`, for any number of overlapping pulls.

**`Enrollment_proofs`**: any Items and institutions,
any cap, and any number of commands at once, failing or dying anywhere.

* `TypeCorrect`, which includes that no two connections name one Item.
* `EveryBillIsAccountedFor` and `SaidIsTrue`, from one invariant, `IInv`.  Neither is
  inductive: that an Item is on record says nothing of its token, and that a command has
  it in hand says nothing of what the command will do.  `Held` and `RowsHeld` say that
  the token of an Item is stored for as long as the Item lives, from the moment some row
  names it or some release works on it; `Shape` says which Item a command is about at
  each point; `Owed` says that a live Item is on record, said, lost, or *owed* by a
  command that has not finished - a retirement owes nothing, because its row stays; and
  `Said` is the claim itself.  A step of one command then keeps what another owes.
* `CapIsKept`, from what one step can do to the table: add a row without progress, and a
  live one only with room, or change one without reviving it (`RowsStep`).
* `ProgressIsFresh`, for any number of syncs beside the commands.  `ProgressIsOfItsItem` is
  not inductive: a row in order may have a sync under way with another Item in hand.
  `FreshInv` adds that it has not, unless the row is `overtaken`; a step of a sync writes
  the Item it has in hand (`SyncDoes`), and a re-link clears the row and notes whether a
  sync had read it.
* `LiveConnectionKeepsItsItem` needs a second invariant, `BInv`, about what a command
  may be about to remove: at one live row per institution, the Item in its hand is named
  by no live row but the one it is retiring, or is one that an exchange answered with
  while a live row named it (`contested`, the case the code does not guard).

**`McpServer_proofs`**: any processes, builds, keys, commits, commands and sessions.

* `BackupIsAlwaysWhole` and `SchemaIsMet`.  The lock goes with the step: a process is at
  one of `HolderSteps` exactly when the lock is its own, so the file and the copy are
  written by one process, and what it has checked or copied stays so while it is there.
  `Licit` is what a move must see to, shown once per action and used by every invariant.
* `KeyAlwaysOpensTheFile`, with at most one process that may initialise (`Sole`): the key
  in the hand of a process that is about to create the file is the one in the keychain,
  the one an import is about to set opens the file, and nobody else writes either.
* `EmptyIsTruthful`: the server is inside a call exactly when the reader is at work
  (`Link`), the reader concludes `missing` only for a file that was not there, and the
  replies written and held back are all truthful.  `TypeCorrect`.
* `RepliesAnswerRequests`: while the pipe is open, what the session has written is what
  the lines it has read are owed, and what it holds back is what the messages it has
  handled of the line in hand are owed (`SentInv`).  The replies owed
  are a `FlattenSeq` over the script, of which only two facts are needed: that of an
  empty line's replies and that of one line more.

**`Answers_proofs`**: any connections, accounts, days, `STALE_AFTER`, and commits.

* `ProblemIsAlwaysNamed`, `NothingIsEverInvented`, `FrozenIsAlwaysTold`,
  `EmptyIsAlwaysExplained`, `TypeCorrect`.  `held` only shrinks, so each statement answers
  for the part of it that it reads, and a later one may rely on what an earlier one left
  in `ask`: that a domain is left unsaid only when its connection's caveat was said
  (`ReadsSaid`), that a domain stale throughout was stale when the connections were read
  (`ConnectionsSaid`, since only a success on a new day un-stales it), that an account
  frozen throughout is frozen as the roster and the observations were read (`RosterTold`).
  `Ordered` is the order of the statements that this relies on, and `StatementsOrdered`
  shows that each tool has it.

**`Query_proofs`**, of PagedRead: any rows, days, requests, page sizes and writes, for
either tool.

* `KeysetReadsOnce`, `OneAnswerByPages`, `WindowIsHonest`.  `IInv` says where the walk
  stands: the pages come down one order (`PageGoesDown`), the cursor is the last row
  handed over and was issued for the walk's request (`OneQuestion`), a row that nothing
  touched keeps the place it was read at (`PlacesHold`) and, if it matched when the walk
  began, matches still (`SteadyMatches`); one of them that was not handed over yet lies
  beyond the cursor (`StillAhead`).  A page is the first rows of the order by rank, so
  that every rank up to the number of rows is taken (`EveryRankIsTaken`, a pigeonhole)
  carries what a page that is not full leaves behind.  Nothing is assumed but that there
  are finitely many ids.
  For `WindowIsHonest`, `IInv` also carries that a row's ledger day is no later than its
  posted day, whatever the writes, from which the page's days and the coverage are compared.

**`Query_proofs`**, of Totals: any banks, any identities as any Item states them or none, any finite set of accounts, any
movements in the order of their days, any cap on groups, and any Items, days and events.
`MovesAssumption` says that and no more.

* The invariant, `MInv`, is what the tables know of one another.  `LinksAre`: a bank has
  one live connection, its newest, under its newest Item.  `AccountsAre`: an account has
  one row where its persistent id is known, and otherwise one per Item that listed it, in
  that order.  `RowsAre`: a row is on the account row that answers for it under the Item
  it came by.  `OwedAre` and `Delivery`: what an Item has yet to deliver is of accounts
  that have a row, is older than what it has delivered, and with that makes up the whole
  of each account.  `PairsAre`: a pair id is the one that the pass over the table as it
  stands gives the row, unless it left the pairable categories since.  A roster is a loop
  over a set of accounts, taken as a fold (`FoldExists`).
* `SummariesTypeCorrect`.
* `SummariesPairLegs`: `PairsAreMaximal`, which is about any legs, over `PairsAre`.
* `SummariesCountOnce`.  `CountedIs` turns the spans, which are about days, into a fact
  about rows: a row is passed over exactly when a newer generation that it gives way to has
  rows on both sides of its day.  Of two rows of a movement the older gives way
  (`OlderGivesWay`), and its day is covered because the newer generation holds that same
  movement: at most one counts (`CountedAtMostOnce`).  The newest is passed over by
  nothing (`NewestIsCounted`): a newer generation that covers its day has a row
  no later than it and so, newest first and no day by half (`Whole`), delivered the
  movement too.
  The excuses of `MovementCountsOnce` are where this argument stops and nowhere else.
* `SummariesAddUp`.  `SumFunctionOnSet` is a fold that picks its elements by `CHOOSE`;
  `SumIs` shows that any element may be taken last, from which a sum is that of its image
  (`SumOfImage`) and that of its groups (`SumOfGroups`).  `FlowClassTotalsAre` and
  `GroupsAddUp` bring the totals of an answer down to the rows that count, and counting
  once makes these rows the movements, one for one.

**`Rebuild_proofs`**: any finite set of accounts, any transactions and connections, any
replies, processes, Items and faults, and any order replies are persisted in.

* The invariant, `IInv`, is mostly `Sound`: what the tables and the archive know of one
  another.  It speaks of *an* archive and *a* store and not of the variables, because a
  replay derives bodies that are long past into tables that are not the store yet:
  `Sound` is kept by the deriving of any body of any archive into any sound store
  (`DeriveKeeps`), and so holds after a body that has just arrived and all through a
  replay, in whatever order it takes the bodies.  The order is needed for what a replay
  yields, and so for `RebuildsReproduce` alone.
* The loops - the entries of a body, the legs, the archive - are folds over sets.
  `FoldExists` and `SubsetInduction` show once that such a fold is well defined and that
  what each step keeps the loop keeps; which element a step takes does not matter.
* `TypeCorrect`.  Row numbers only grow, so a reference that resolved still does.
* `EarliestCapture`: no capture is later than an offer for its day, every day offered has
  its one capture, and a refused position has a refused offer behind it, under one
  archived body (`FirstOfEachDay`, `OnePositionADay`, `PositionsAreOfBodies`).  A body that
  is derived a second time offers what it offered before.
* `AccountsAreOneRow`: an account whose id every body states has a row only under that id
  (`IdentityKnown`), so `MatchAccount` finds the row it has.  `AlwaysStated` speaks of the
  archive, which includes bodies that were never derived.
* `DelistedAreNotReported`: what a row and its connection last saw is what the derived
  rosters say (`SeenOnARoster`, `RostersAreIn`).
* `RebuildLeavesOneBuild`: after the tables are emptied every capture and transaction is
  of this build, and the security is once a holdings body has been replayed; that there is
  one whenever there is a security is the invariant's `SecuritySound`.
* `RebuildsReproduce` (`RefusedOnlyForAReason`) compares two runs of the derivers over one
  archive: the one that lived through it and the one that replays it.  A second
  invariant, `RInv`, says of an archive that gives none of the reasons (`Plain`) that one
  row answers for each account (`Table`) and, when all of it was derived, that the tables
  read as the archive does (`Read`) and that the archive, taken again into the rows the
  store has, is taken whole and makes the same transactions (`Repeats`).  `Repeats` is
  about every start, build and longer archive, which is what lets a body that has just
  arrived add its own step to it; the replay is one such run (`Chain`), since replaying by
  instant is then the archive's order.  During it the account rows stand still as far as
  what they tell of the bodies (`Still`); afterwards two stores that both read as the
  archive does agree table by table (`Twins`), and their ledgers once both are paired
  (`PairsCurrent`) and the overrides are put back (`SameLedger`).  `ItemsOnce`, that an
  Item is of one connection, is what makes the archive's Items name connections.
  `Repeats` ranges over more than TLC can enumerate; what it is for, the property, is
  what the `rebuild` run checks.
* `PairingIsMaximal` is about `PairTransfers`, for any legs on any days: it is a matching
  of legs that match, and no two legs are left that could have been paired.

Proved and not among the runs' properties, because the theorem says more:
`OriginsDistinct` and `NoRowForgotten` (TransactionSync), `DomainErrorIsOfLastAttempt` and
`AttemptIsOnRecord` (SyncRun), `RangeIsOfWhatIsShown` (InvestmentWindow), and the type
invariants of the modules above.

Only model-checked:

* `EveryChangeArrives`, `HealthyConnectionBecomesFresh` and `CommandEnds`: liveness.
* The two findings, `spent` and `probe`, which are counterexamples.

## What is not modelled

Amounts in the store's own units, exchange of signs, dates, names, categories and
wording: pure functions with tables of tests of their own, and no step of the system
depends on what they give (`store/types.py`, `signs.py`).  HTTP and the client's error
mapping, beyond which outcomes a caller tells apart.  SQL as such and DDL: a migration is
its transaction and its version stamp.  Configuration, logging, argument parsing and
printing.  The layout of answers, the MCP server's schemas and reference documents.  Row
order inside a page is the order the aggregator issued the ids in; nothing in the code
sorts.

Of components that are otherwise modelled: the repair in place (`connections reauth`), and
a sync in flight beside it; `granted_history_days` across a re-link; an account that its
bank renames while one Item is in use; the wait for the hosted session; the SQL shell; the tools for
balance and holding histories, recurring charges, search and reconciliation, whose
statements are of the kinds that PagedRead and Answers have; and
`unmatched_transfer_shaped`.
