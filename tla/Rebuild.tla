------------------------------- MODULE Rebuild -------------------------------
(***************************************************************************)
(* The archive, the tables derived from it as bodies arrive                *)
(* (store/derivation.py, apply_response) and `store rebuild`, which derives *)
(* them again from the archive alone (store/rebuild.py).  Connections are  *)
(* enrolled, re-linked and retired meanwhile, two processes may each hold  *)
(* a reply they have not persisted yet, and a process may die between the  *)
(* two transactions of apply_response.                                     *)
(*                                                                         *)
(* A body's instant is stamped when it is fetched.  The archive keeps the  *)
(* order bodies were persisted in, a replay takes them by instant.         *)
(***************************************************************************)
EXTENDS AccountRows, TLC

CONSTANTS
    Templates,  \* what a reply may say, but for its connection, Item and instant
    Procs,      \* processes that fetch and persist
    MaxBodies,  \* replies fetched in one behaviour
    MaxItems,   \* Items created
    MaxFaults   \* deaths, attempts that end before a page, and other-build steps

Template ==
    [kind : Kinds, listed : SUBSET Real, stated : BOOLEAN, quoted : BOOLEAN,
     positions : SUBSET Real, refused : BOOLEAN,
     changes : [Moves -> {"none", "removed", "transfer", "other"}], ends : Endings]

ASSUME RepliesAssumption == Templates \subseteq Template /\ MaxItems \in Nat

VARIABLES
    archive,   \* raw_responses
    derived,   \* those that were derived when they were archived, or by a rebuild since
    store,     \* the derived tables
    conns,     \* connections: state and Item
    items,     \* Items created so far
    clock,     \* the last instant handed out
    build,     \* DERIVATION_VERSION of the build in use
    inflight,  \* the reply each process holds
    faults     \* faults so far
vars == <<archive, derived, store, conns, items, clock, build, inflight, faults>>

NoReply == [kind |-> "none"]

Live == {c \in Conns : conns[c].state = "live"}

Init ==
    /\ archive = <<>> /\ derived = {} /\ store = EmptyStore
    /\ conns = [c \in Conns |-> [state |-> "none", item |-> 0]]
    /\ items = 0 /\ clock = 0 /\ build = 1
    /\ inflight = [p \in Procs |-> NoReply]
    /\ faults = 0

Fault == faults < MaxFaults /\ faults' = faults + 1

-----------------------------------------------------------------------------
(* Connections *)

\* enroll_connection, a new row: one live connection per institution.
Enroll(c) ==
    /\ Live = {} /\ conns[c].state = "none" /\ items < MaxItems
    /\ \A d \in Conns : d < c => conns[d].state # "none"
    /\ items' = items + 1
    /\ conns' = [conns EXCEPT ![c] = [state |-> "live", item |-> items + 1]]
    /\ UNCHANGED <<archive, derived, store, clock, build, inflight, faults>>

\* enroll_connection with --relink: the Item is replaced in place, and its
\* sync_state rows are deleted.
ReLink(c) ==
    /\ c \in Live /\ items < MaxItems
    /\ items' = items + 1
    /\ conns' = [conns EXCEPT ![c].item = items + 1]
    /\ store' = [store EXCEPT !.domain[c] = NoDomain]
    /\ UNCHANGED <<archive, derived, clock, build, inflight, faults>>

\* _mark_retired: the accounts it still holds are closed.
Retire(c) ==
    /\ c \in Live
    /\ conns' = [conns EXCEPT ![c].state = "retired"]
    /\ store' = [store EXCEPT !.accounts = [i \in DOMAIN @ |->
                    IF @[i].conn = c THEN [@[i] EXCEPT !.active = FALSE] ELSE @[i]]]
    /\ UNCHANGED <<archive, derived, items, clock, build, inflight, faults>>

-----------------------------------------------------------------------------
(* Replies *)

Fetched == Len(archive) + Cardinality({p \in Procs : inflight[p] # NoReply})

\* A run asks for the accounts first, so an Item's first body is that one.
\* Later runs start with it as well; the repetition is left out.
Opened(c) == \E k \in DOMAIN archive :
    k \in derived /\ archive[k].says.kind = "accounts" /\ archive[k].item = conns[c].item

\* accounts_get, investments_holdings_get, transactions_sync: a reply is
\* stamped as it arrives.
Fetch(p, c, t) ==
    /\ c \in Live /\ inflight[p] = NoReply /\ Fetched < MaxBodies
    /\ t.kind = "accounts" \/ Opened(c)
    /\ clock' = clock + 1
    /\ inflight' = [inflight EXCEPT ![p] =
            [says |-> t, conn |-> c, item |-> conns[c].item, at |-> clock + 1]]
    /\ UNCHANGED <<archive, derived, store, conns, items, build, faults>>

Archived(p) ==
    [says |-> inflight[p].says, conn |-> inflight[p].conn, item |-> inflight[p].item,
     at |-> inflight[p].at, raw |-> Len(archive) + 1]

\* apply_response: archived in one transaction, derived and paired in the
\* next.  A body its deriver refuses stays archived.
Apply(p) ==
    /\ inflight[p] # NoReply
    /\ archive' = Append(archive, Archived(p))
    /\ LET after == Derive(store, Archived(p), build) IN
        IF after.ok THEN store' = PairedStore(after) /\ derived' = derived \cup {Len(archive) + 1}
                    ELSE UNCHANGED <<store, derived>>
    /\ inflight' = [inflight EXCEPT ![p] = NoReply]
    /\ UNCHANGED <<conns, items, clock, build, faults>>

\* The process dies between the two transactions.
Die(p) ==
    /\ inflight[p] # NoReply /\ Fault
    /\ archive' = Append(archive, Archived(p))
    /\ inflight' = [inflight EXCEPT ![p] = NoReply]
    /\ UNCHANGED <<derived, store, conns, items, clock, build>>

\* _record_attempt and, when the attempt failed, record_domain_failure: the
\* row of the transactions domain is written with no body behind it.
Attempt(c, failed) ==
    /\ c \in Live /\ Opened(c) /\ Fault
    /\ clock' = clock + 1
    /\ LET d == store.domain[c] IN
       store' = [store EXCEPT !.domain[c] =
                    [d EXCEPT !.at = clock + 1, !.error = failed \/ d.error]]
    /\ UNCHANGED <<archive, derived, conns, items, build, inflight>>

\* category_override: nothing in the program writes it, the operator does.
Override(k) ==
    /\ k \in DOMAIN store.ledger /\ ~ store.ledger[k].override /\ Fault
    /\ store' = [store EXCEPT !.ledger[k].override = TRUE]
    /\ UNCHANGED <<archive, derived, conns, items, clock, build, inflight>>

\* The operator runs the next build, or goes back to the one before.
OtherBuild ==
    /\ Fault /\ build' = 3 - build
    /\ UNCHANGED <<archive, derived, store, conns, items, clock, inflight>>

-----------------------------------------------------------------------------
(* store rebuild *)

\* derivation_versions_present.
VersionsPresent(s) ==
    {h.build : h \in s.balances \cup s.holdings \cup s.refused}
        \cup {s.ledger[k].build : k \in DOMAIN s.ledger}
        \cup (IF s.security = NoSecurity THEN {} ELSE {s.security.build})

\* content_digest: every table, without the row numbers of its own.
Content(s) ==
    [accounts |-> s.accounts, balances |-> s.balances, holdings |-> s.holdings,
     refused |-> s.refused, ledger |-> ToSet(s.ledger), domain |-> s.domain,
     roster |-> s.roster, security |-> s.security]

\* _capture_operator_state.
Preserved(s) == {<<s.ledger[k].account, s.ledger[k].source>> :
                    k \in {j \in DOMAIN s.ledger : s.ledger[j].override}}

\* _restore_operator_state: an override whose row was not recreated is lost.
RestoreOperatorState(s, held) ==
    [s EXCEPT !.ledger = [k \in DOMAIN @ |->
        [@[k] EXCEPT !.override = <<s.ledger[k].account, s.ledger[k].source>> \in held]]]

\* rebuild's deletions: the rows that come from a body.
Cleared(s) ==
    [s EXCEPT !.balances = {}, !.holdings = {}, !.refused = {}, !.ledger = <<>>, !.offers = {}]

\* iter_responses: by instant, then by raw_response_id.
LastOf(ids) == CHOOSE k \in ids : \A j \in ids : NotAfter(archive[j], archive[k])

\* The replay loop: every archived body, into emptied tables.
Rederived(s) ==
    MapThenFoldSet(LAMBDA k, u : Derive(u, archive[k], build), Cleared(s),
                   LAMBDA k : k, LastOf, DOMAIN archive)

\* Faulty variant of Replayed: the transfers are not paired again.
ReplayedUnpaired(s) ==
    RestoreOperatorState(Rederived(s), Preserved(s))

\* The body of rebuild's transaction, up to its verdict.
Replayed(s) ==
    RestoreOperatorState(PairedStore(Rederived(s)), Preserved(s))

Newer == \E v \in VersionsPresent(store) : v > build

\* change_was_expected: the rows replaced were not all this build's.
Expected == VersionsPresent(store) # {build}

\* One transaction.  No row may be a newer build's (RebuildByAnOlderBuildError),
\* every deriver must take its body, and content may change only where that
\* was to be expected or the operator accepts it (RebuildNotReproducibleError):
\* otherwise all of it is rolled back.
RunRebuild(accept) ==
    LET after == Replayed(store) IN
    /\ ~ Newer /\ after.ok
    /\ Expected \/ accept \/ Content(after) = Content(store)
    /\ store' = after
    /\ derived' = DOMAIN archive
    /\ UNCHANGED <<archive, conns, items, clock, build, inflight, faults>>

Next ==
    \/ \E c \in Conns : Enroll(c) \/ ReLink(c) \/ Retire(c)
    \/ \E p \in Procs : \E c \in Conns, t \in Templates : Fetch(p, c, t)
    \/ \E p \in Procs : Apply(p) \/ Die(p)
    \/ \E c \in Conns, failed \in BOOLEAN : Attempt(c, failed)
    \/ \E k \in DOMAIN store.ledger : Override(k)
    \/ OtherBuild
    \/ \E accept \in BOOLEAN : RunRebuild(accept)

Spec == Init /\ [][Next]_vars

-----------------------------------------------------------------------------
(* Correctness *)

AccountRow ==
    [conn : Conns, source : (1 .. MaxItems) \X Real, persistent : Real \cup {0},
     first : Nat, last : Nat, active : BOOLEAN, touched : 1 .. clock]

\* Type correctness of the tables, with every reference between them: a
\* capture and a transaction belong to an account that exists, and to an
\* archived body, and the two halves of a pair carry the id of the older one.
TypeOK ==
    /\ store.accounts \in Seq(AccountRow)
    /\ \A h \in store.balances \cup store.holdings \cup store.refused :
        h.key[1] \in DOMAIN store.accounts /\ h.raw \in DOMAIN archive /\ h.build \in {1, 2}
    /\ \A k \in DOMAIN store.ledger :
        /\ store.ledger[k].account \in DOMAIN store.accounts
        /\ store.ledger[k].raw \in DOMAIN archive
        /\ store.ledger[k].pair \in {0} \cup (1 .. k)
    /\ \A c \in Conns : store.domain[c].raw \in {0} \cup DOMAIN archive

Positions == store.holdings \cup store.refused

\* Whether no capture put forward for the same day is earlier than h.
Earliest(h, offers) ==
    \A o \in offers : o.key = h.key => NotAfter(h, o)

Offers(what) == {o \in store.offers : o.what = what}

\* A day's balance and a day's position are those of the first reply of that
\* day, in whatever order the replies of two runs were persisted and however
\* often they are replayed; every day that was offered one has one; and a
\* position is priced or refused, never both (derivers.py,
\* _claim_capture_day over balances_daily, holdings and refused_holdings).
EarliestCaptureStands ==
    /\ \A h \in store.balances : Earliest(h, Offers("balance"))
    /\ \A h \in Positions : Earliest(h, Offers("position"))
    /\ {h.key : h \in store.balances} = {o.key : o \in Offers("balance")}
    /\ {h.key : h \in Positions} = {o.key : o \in Offers("position")}
    /\ Cardinality(Positions) = Cardinality({h.key : h \in Positions})
    /\ \A h \in Positions : h \in store.refused <=>
            Offer("position", h.key, h, TRUE) \in store.offers

RowsOf(r) == {i \in DOMAIN store.accounts : store.accounts[i].source[2] = r}

Bodies == {archive[k] : k \in DOMAIN archive}

AlwaysStated(r) == \A b \in Bodies : r \in b.says.listed => b.says.stated

\* An account whose persistent id every body states is one row, through
\* re-linked Items, retired and new connections, replies persisted late and
\* rebuilds (derivers.py, _match_account).
OneRowPerAccount == \A r \in Real : AlwaysStated(r) => Cardinality(RowsOf(r)) <= 1

Rosters(r) == {archive[k] : k \in {j \in derived : /\ archive[j].says.kind = "accounts"
                                                   /\ r \in archive[j].says.listed}}

\* lineage._still_reported and query._account_lifecycle, of a live holder.
StillReported(i) ==
    LET a == store.accounts[i] IN
    a.conn \in Live /\ (store.roster[a.conn] = 0 \/ (a.last # 0 /\ a.last >= store.roster[a.conn]))

\* An account reads as still reported exactly when a roster of its
\* connection's last observed day or later listed it: the accounts a page or
\* a holdings reply carries along do not count (derivers.py,
\* _record_roster_observation, _upsert_account).
DelistedIsNotReported ==
    \A r \in Real : \A i \in RowsOf(r) :
        LET c == store.accounts[i].conn
            lists == {b \in Rosters(r) : DayOf(b.at) >= store.roster[c]} IN
        /\ StillReported(i) /\ store.roster[c] # 0 => lists # {}
        /\ AlwaysStated(r) /\ c \in Live /\ lists # {} => StillReported(i)

\* Why a replay may differ from the store it replaces.
Underived == derived # DOMAIN archive
OutOfOrder == \E j, k \in DOMAIN archive : j < k /\ archive[k].at < archive[j].at
IsPage(b, c, ends) == b.says.kind = "page" /\ b.conn = c /\ b.says.ends \in ends
LastPage(c, ends) == LET pages == {b \in Bodies : IsPage(b, c, ends)}
                     IN {b \in pages : \A o \in pages : o.at <= b.at}
ProgressWrittenSince ==
    \E c \in Conns :
        \/ \E b \in LastPage(c, {"cursor"}) :
              store.domain[c].item # b.item \/ store.domain[c].raw # b.raw
        \/ \E b \in LastPage(c, {"cursor", "complete"}) :
              store.domain[c].at # b.at \/ store.domain[c].error
StalePair == \E k \in DOMAIN store.ledger : store.ledger[k].pair # 0 /\ ~ store.ledger[k].pairable
LateIdentity == \E r \in Real : \E b, o \in Bodies :
    r \in b.says.listed /\ r \in o.says.listed /\ ~ b.says.stated /\ o.says.stated /\ b.item # o.item

\* The accounts a body writes a transaction or a position of.
Used(b) ==
    CASE b.says.kind = "page" -> {t \in Moves : b.says.changes[t] \in {"transfer", "other"}}
      [] b.says.kind = "holdings" -> b.says.positions
      [] OTHER -> {}
UsedUnlisted == \E k \in DOMAIN archive : \E r \in Used(archive[k]) : \A j \in 1 .. k :
    archive[j].item # archive[k].item \/ r \notin archive[j].says.listed

Reproducible ==
    LET after == Replayed(store) IN after.ok /\ Content(after) = Content(store)

\* A rebuild by the build that derived every row reproduces the store, the
\* operator's overrides included, unless one of six things happened: a body
\* was archived and not derived, bodies were persisted in another order than
\* they were fetched in, the progress row of a connection was written after
\* its last page, a transaction left its category while it was paired, an
\* account's persistent id was not stated from the start, or a body was about
\* an account its Item had not listed yet (store/rebuild.py).
RefusedOnlyForAReason ==
    VersionsPresent(store) = {build} =>
        Underived \/ OutOfOrder \/ ProgressWrittenSince \/ StalePair \/ LateIdentity
            \/ UsedUnlisted \/ Reproducible

\* No other action leaves all of these alone.
RebuildStep == UNCHANGED <<conns, items, clock, build, inflight, faults>>

\* A rebuild that goes through leaves no row another build derived: not in
\* the tables it empties, and not the security, which is written over
\* (store/rebuild.py:372, derivers.py _upsert_security).
RebuildRestampsEverything ==
    [][RebuildStep => VersionsPresent(store') \subseteq {build}]_vars
==============================================================================
