----------------------------- MODULE AccountRows -----------------------------
(***************************************************************************)
(* What one archived body does to the derived tables                       *)
(* (connector/plaid/derivers.py): the accounts it lists, the balances and  *)
(* positions of its day, the transactions of a sync page and the progress  *)
(* the page records.  A store is one record, so that a replay of the whole *)
(* archive is a fold of these operators.  One institution.                 *)
(*                                                                         *)
(* A real account r is what the aggregator reports.  Its source id is      *)
(* <<item, r>>: every Item issues its own.  Its persistent id is r, when a *)
(* body states one, and 0 stands for none.  An account_id is a position in *)
(* accounts, a transaction_id a position in ledger: rows are only added.   *)
(***************************************************************************)
EXTENDS TransferPairs

CONSTANTS
    Real,    \* accounts as the aggregator knows them
    Conns,   \* connections
    Moves    \* transactions as the aggregator knows them

\* The two transactions of a transfer are each in an account of their own.
ASSUME RealAssumption ==
    /\ Real \subseteq Nat \ {0} /\ IsFiniteSet(Real)
    /\ Moves \subseteq Real /\ Conns \subseteq Nat \ {0}

Kinds == {"accounts", "page", "holdings"}

\* How a page ends: with a cursor, or without one, and then with the history
\* it is the last page of complete or still to come.
Endings == {"cursor", "complete", "open"}

NoDomain == [item |-> 0, raw |-> 0, at |-> 0, error |-> FALSE]

NoSecurity == [created |-> 0, at |-> 0, build |-> 0]

\* offers is bookkeeping of the model: every capture any body put forward.
EmptyStore ==
    [accounts |-> <<>>, balances |-> {}, holdings |-> {}, refused |-> {}, ledger |-> <<>>,
     domain |-> [c \in Conns |-> NoDomain], roster |-> [c \in Conns |-> 0],
     security |-> NoSecurity, offers |-> {}, ok |-> TRUE]

\* Two instants to a calendar day.
DayOf(at) == (at + 1) \div 2

\* A loop of a deriver: a step for each entry, in their order.
Each(step(_, _), s, entries) ==
    MapThenFoldSet(LAMBDA r, t : step(t, r), s, LAMBDA r : r, Max, entries)

-----------------------------------------------------------------------------
(* Accounts *)

Own(s, body, r) ==
    {i \in DOMAIN s.accounts : s.accounts[i].conn = body.conn
                               /\ s.accounts[i].source = <<body.item, r>>}

PersistentHolders(s, r) == {i \in DOMAIN s.accounts : s.accounts[i].persistent = r}

\* Faulty variant of MatchAccount: the persistent identity is looked for only
\* on the connection the body came through.
MatchAccountOfConnection(s, body, r) ==
    LET own == Own(s, body, r)
        held == {i \in PersistentHolders(s, r) : s.accounts[i].conn = body.conn}
    IN IF own # {} THEN Min(own)
       ELSE IF body.says.stated /\ held # {} THEN Min(held) ELSE 0

\* _match_account: the row that answers for r, or 0.  The earliest holder of
\* the persistent id wins, unless this connection already has another row
\* under the source id: then neither moves.
MatchAccount(s, body, r) ==
    LET own == Own(s, body, r)
        held == PersistentHolders(s, r)
    IN IF own # {} THEN Min(own)
       ELSE IF body.says.stated /\ held # {} THEN Min(held) ELSE 0

Roster(body) == body.says.kind = "accounts"

\* Faulty variant of UpsertAccount: an account carried by a page or by a
\* holdings reply counts as seen on the roster.
UpsertAccountAlwaysSeen(s, body, r) ==
    LET i == MatchAccount(s, body, r)
        day == DayOf(body.at)
    IN IF i = 0
       THEN [s EXCEPT !.accounts = Append(@,
               [conn |-> body.conn, source |-> <<body.item, r>>,
                persistent |-> IF body.says.stated THEN r ELSE 0,
                first |-> day, last |-> day, active |-> TRUE, touched |-> body.at])]
       ELSE LET a == s.accounts[i] IN
            [s EXCEPT !.accounts[i] =
               [a EXCEPT !.conn = body.conn, !.source = <<body.item, r>>,
                         !.persistent = IF body.says.stated THEN r ELSE a.persistent,
                         !.first = Min({a.first, day}), !.last = Max({a.last, day}),
                         !.touched = body.at]]

\* _upsert_account: the lifecycle a row was retired with is never rewritten.
UpsertAccount(s, body, r) ==
    LET i == MatchAccount(s, body, r)
        day == DayOf(body.at)
    IN IF i = 0
       THEN [s EXCEPT !.accounts = Append(@,
               [conn |-> body.conn, source |-> <<body.item, r>>,
                persistent |-> IF body.says.stated THEN r ELSE 0,
                first |-> day, last |-> IF Roster(body) THEN day ELSE 0,
                active |-> TRUE, touched |-> body.at])]
       ELSE LET a == s.accounts[i] IN
            [s EXCEPT !.accounts[i] =
               [a EXCEPT !.conn = body.conn, !.source = <<body.item, r>>,
                         !.persistent = IF body.says.stated THEN r ELSE a.persistent,
                         !.first = Min({a.first, day}),
                         !.last = IF Roster(body) THEN Max({a.last, day}) ELSE a.last,
                         !.touched = body.at]]

-----------------------------------------------------------------------------
(* One capture per day *)

Capture(key, body, build) == [key |-> key, at |-> body.at, raw |-> body.raw, build |-> build]

Offer(what, key, body, refused) ==
    [what |-> what, key |-> key, at |-> body.at, raw |-> body.raw, refused |-> refused]

\* _claim_capture_day's comparison: a body archived at another instant, or
\* the other one archived at the same instant.
NotAfter(held, body) == held.at < body.at \/ (held.at = body.at /\ held.raw <= body.raw)

Held(table, key) == {h \in table : h.key = key}

\* Faulty variant of Claims: whoever derives first keeps the day.
ClaimsFirstDerived(tables, key, body) == Held(tables, key) = {}

\* _claim_capture_day: the day is ours unless a row held under any of the
\* tables was captured no later.
Claims(tables, key, body) == \A h \in Held(tables, key) : ~ NotAfter(h, body)

\* _write_balance, for a balance in a stated currency.
WriteBalance(s, body, i, build) ==
    LET key == <<i, DayOf(body.at)>>
        s1 == [s EXCEPT !.offers = @ \cup {Offer("balance", key, body, FALSE)}]
    IN IF Claims(s.balances, key, body)
       THEN [s1 EXCEPT !.balances = (@ \ Held(@, key)) \cup {Capture(key, body, build)}]
       ELSE s1

\* _write_holding and _record_refused_holding: one position, priced or in a
\* unit this build cannot express, in one of two tables and never in both.
WriteHolding(s, body, i, build) ==
    LET key == <<i, DayOf(body.at)>>
        s1 == [s EXCEPT !.offers = @ \cup {Offer("position", key, body, body.says.refused)}]
        mine == {Capture(key, body, build)}
    IN IF ~ Claims(s.holdings \cup s.refused, key, body) THEN s1
       ELSE [s1 EXCEPT
               !.holdings = (@ \ Held(@, key)) \cup (IF body.says.refused THEN {} ELSE mine),
               !.refused  = (@ \ Held(@, key)) \cup (IF body.says.refused THEN mine ELSE {})]

\* _derive_one_account, for each account the body lists: a body that quotes
\* no currency leaves no balance.
DeriveOneAccount(s, body, r, build) ==
    LET s1 == UpsertAccount(s, body, r)
        matched == MatchAccount(s, body, r)
        i == IF matched = 0 THEN Len(s1.accounts) ELSE matched
    IN IF body.says.quoted THEN WriteBalance(s1, body, i, build) ELSE s1

\* _derive_account_entries.
DeriveAccountEntries(s, body, build) ==
    Each(LAMBDA t, r : DeriveOneAccount(t, body, r, build), s, body.says.listed)

-----------------------------------------------------------------------------
(* A sync page *)

\* _account_ids: the row this connection has under the source id, or 0.
AccountId(s, body, r) == LET own == Own(s, body, r) IN IF own = {} THEN 0 ELSE Min(own)

TxRow(s, i, t) == {k \in DOMAIN s.ledger : s.ledger[k].account = i /\ s.ledger[k].source = t}

\* _write_transaction: an update leaves the pair id and the operator's
\* override as they are.
WriteTransaction(s, body, t, build) ==
    LET i == AccountId(s, body, t)
        row == TxRow(s, i, t)
        pairable == body.says.changes[t] = "transfer"
    IN IF row = {}
       THEN [s EXCEPT !.ledger = Append(@,
               [account |-> i, source |-> t, pairable |-> pairable, removed |-> FALSE, pair |-> 0,
                override |-> FALSE, at |-> body.at, raw |-> body.raw, build |-> build])]
       ELSE [s EXCEPT !.ledger[Min(row)] =
               [@ EXCEPT !.pairable = pairable, !.removed = FALSE,
                         !.at = body.at, !.raw = body.raw, !.build = build]]

\* _mark_removed: a removal of an unknown account or row is nothing to do.
MarkRemoved(s, body, t) ==
    LET row == {k \in TxRow(s, AccountId(s, body, t), t) : ~ s.ledger[k].removed}
    IN IF row = {} THEN s
       ELSE [s EXCEPT !.ledger[Min(row)] = [@ EXCEPT !.removed = TRUE, !.at = body.at]]

\* Faulty variant of ApplyChange: an account the connection has no row for is
\* not looked at.
ApplyChangeUnknown(s, body, t, build) ==
    CASE body.says.changes[t] = "none" -> s
      [] body.says.changes[t] = "removed" -> MarkRemoved(s, body, t)
      [] OTHER -> WriteTransaction(s, body, t, build)

\* _write_one_change and _apply_transaction_changes: a change to an account
\* the connection has no row for refuses the body.
ApplyChange(s, body, t, build) ==
    IF body.says.changes[t] = "none" THEN s
    ELSE IF body.says.changes[t] = "removed" THEN MarkRemoved(s, body, t)
    ELSE IF AccountId(s, body, t) = 0 THEN [s EXCEPT !.ok = FALSE]
    ELSE WriteTransaction(s, body, t, build)

\* record_domain_success: the cursor of the page, if it has one, and the error
\* cleared.
RecordDomainSuccess(s, body) ==
    [s EXCEPT !.domain[body.conn] =
        IF body.says.ends = "cursor"
        THEN [item |-> body.item, raw |-> body.raw, at |-> body.at, error |-> FALSE]
        ELSE [@ EXCEPT !.at = body.at, !.error = FALSE]]

DeriveTransactionsSync(s, body, build) ==
    LET s1 == DeriveAccountEntries(s, body, build)
        s2 == Each(LAMBDA u, t : ApplyChange(u, body, t, build), s1, Moves)
    IN IF body.says.ends = "open" THEN s2 ELSE RecordDomainSuccess(s2, body)

\* derive_accounts, with _record_roster_observation.
DeriveAccounts(s, body, build) ==
    [DeriveAccountEntries(s, body, build) EXCEPT
        !.roster[body.conn] = Max({@, DayOf(body.at)})]

\* Faulty variant of UpsertSecurity: the body that wrote the row last does not
\* write it again.
UpsertSecurityOnce(s, body, build) ==
    IF s.security.at # 0 /\ body.at <= s.security.at
    THEN [s EXCEPT !.security.created = Min({@, body.at})]
    ELSE [s EXCEPT !.security =
            [created |-> IF @.at = 0 THEN body.at ELSE Min({@.created, body.at}),
             at |-> body.at, build |-> build]]

\* _upsert_security, of the one security all positions are in: an older body
\* does not overwrite what a newer one said.
UpsertSecurity(s, body, build) ==
    IF s.security.at # 0 /\ body.at < s.security.at
    THEN [s EXCEPT !.security.created = Min({@, body.at})]
    ELSE [s EXCEPT !.security =
            [created |-> IF @.at = 0 THEN body.at ELSE Min({@.created, body.at}),
             at |-> body.at, build |-> build]]

\* A position in an account the connection has no row for refuses the body.
DeriveOnePosition(s, body, r, build) ==
    LET i == AccountId(s, body, r) IN
    IF i = 0 THEN [s EXCEPT !.ok = FALSE] ELSE WriteHolding(s, body, i, build)

\* derive_investments_holdings: the carried accounts and the security, then a
\* position in each of the accounts that hold one.
DeriveInvestmentsHoldings(s, body, build) ==
    LET s1 == UpsertSecurity(DeriveAccountEntries(s, body, build), body, build) IN
    Each(LAMBDA u, r : DeriveOnePosition(u, body, r, build), s1, body.says.positions)

\* derive: what one body does to the store, or ok = FALSE when its deriver
\* refuses it.
Derive(s, body, build) ==
    CASE body.says.kind = "accounts" -> DeriveAccounts(s, body, build)
      [] body.says.kind = "page" -> DeriveTransactionsSync(s, body, build)
      [] OTHER -> DeriveInvestmentsHoldings(s, body, build)

-----------------------------------------------------------------------------
(* Pairing over the whole ledger *)

\* _candidates: the live rows whose category is pairable now.
Legs(s) ==
    {[id |-> k, account |-> s.ledger[k].account, day |-> 1, currency |-> "USD",
      amount |-> IF s.ledger[k].source = Min(Moves) THEN 1 ELSE -1] :
        k \in {j \in DOMAIN s.ledger : s.ledger[j].pairable /\ ~ s.ledger[j].removed}}

\* pair_transfers: only a row whose category is pairable now is cleared.
PairedStore(s) ==
    LET pairs == PairTransfers(Legs(s)) IN
    [s EXCEPT !.ledger = [k \in DOMAIN @ |->
        IF @[k].pairable THEN [@[k] EXCEPT !.pair = PairId(k, pairs)] ELSE @[k]]]
==============================================================================
