------------------------------- MODULE Summary --------------------------------
(***************************************************************************)
(* What a money summary counts (query.py, money_summary) of the tables as  *)
(* they stand: which generation of history answers for a day               *)
(* (store/lineage.py) and how the rows are classed and summed.  Totals     *)
(* says how the tables come to stand so.                                   *)
(*                                                                         *)
(* A movement is money the bank moved once.  Every Item reports it anew,   *)
(* under ids of its own, so the store holds one row of it per Item that    *)
(* delivered it.  A row keeps the Item in gen, for the properties only.    *)
(* Connections, accounts and rows are numbered in the order they were      *)
(* created: the numbers stand for enrolled_at, created_at and the ids.     *)
(***************************************************************************)
EXTENDS TransferPairs

CONSTANTS
    Real,        \* accounts as the banks know them, numbered as a bank lists them
    Bank,        \* the institution of an account
    Identity,    \* its mask, name, type and subtype, as each Item states them;
                 \* two accounts may share them
    Publishing,  \* which banks may publish persistent account ids
    Denominable, \* accounts in a currency whose minor unit is known
    Moves,       \* movements, numbered from the oldest
    MAX_GROUPS,  \* the cap on the groups of an answer
    MaxLinks,    \* Items created
    MaxDay,      \* calendar days
    MaxEvents    \* withdrawals, restated categories, closed accounts

\* Identity where a mask or a subtype is null.
Unstated == "unstated"

Shapes == {"transfer", "debt", "other"}
Movement == [real : Real, day : Nat, amount : Int, shape : Shapes]

ASSUME MovesAssumption ==
    /\ IsFiniteSet(Real) /\ Real \subseteq Nat
    /\ Moves \in Seq(Movement)
    /\ \A m, n \in DOMAIN Moves : m < n => Moves[m].day <= Moves[n].day
    /\ MAX_GROUPS \in Nat \ {0}

VARIABLES
    conns,     \* connections: bank, Item, retired, the day of the last roster
    accounts,  \* accounts: real account, holder, Item of the source id, last seen
    entries,   \* transactions
    owed,      \* movements each Item has yet to deliver
    persists,  \* accounts whose persistent id their bank publishes
    closed,    \* accounts their bank no longer lists
    today,     \* the calendar
    events     \* events so far

Items == Len(owed)

-----------------------------------------------------------------------------
(* Which generation answers for a day *)

LiveRows == {k \in DOMAIN entries : ~ entries[k].removed}

DayOfRow(k) == Moves[entries[k].move].day

\* _still_reported.
StillReported(i) ==
    LET holder == conns[accounts[i].conn] IN
    ~ holder.retired /\ (holder.roster = 0 \/ accounts[i].last >= holder.roster)

\* _coverage: the days each account has rows of under each connection.
Coverage ==
    LET keys == {<<entries[k].account, entries[k].lineage>> : k \in LiveRows}
        days(key) == {DayOfRow(k) : k \in {j \in LiveRows :
                                            <<entries[j].account, entries[j].lineage>> = key}}
    IN {[account |-> key[1], lineage |-> key[2], start |-> Min(days(key)), end |-> Max(days(key))] :
            key \in keys}

\* The four strings of an account row are those of the Item it was last seen by.
Stated(i) == Identity[accounts[i].real][accounts[i].item]

\* identity_partition: an account whose strings are not all stated is alone in its own.
SameIdentity(i, j) ==
    \/ i = j
    \/ /\ Stated(i) # Unstated /\ Stated(i) = Stated(j)
       /\ Bank[accounts[i].real] = Bank[accounts[j].real]

NewerGeneration(a, b) ==
    a.lineage > b.lineage \/ (a.lineage = b.lineage /\ a.account > b.account)

\* Faulty variant of Supersedes: any older account of that identity gives way.
SupersedesListed(newer, older) == NewerGeneration(newer, older)

\* _supersedes.
Supersedes(newer, older) ==
    /\ NewerGeneration(newer, older)
    /\ newer.account = older.account \/ ~ StillReported(older.account)

\* superseded_spans: the days of an older generation a newer one covers.
SupersededSpans ==
    LET gives(newer, older) == /\ SameIdentity(newer.account, older.account)
                               /\ Supersedes(newer, older)
                               /\ Max({newer.start, older.start}) <= Min({newer.end, older.end})
    IN {[account |-> p[2].account, lineage |-> p[2].lineage,
         start |-> Max({p[1].start, p[2].start}), end |-> Min({p[1].end, p[2].end})] :
            p \in {q \in Coverage \X Coverage : gives(q[1], q[2])}}

\* counts_once, and _transaction_filters.
CountsOnce(k, spans) ==
    ~ \E span \in spans : /\ entries[k].account = span.account /\ entries[k].lineage = span.lineage
                          /\ DayOfRow(k) \in span.start .. span.end

Counted == LET spans == SupersededSpans IN {k \in LiveRows : CountsOnce(k, spans)}

-----------------------------------------------------------------------------
(* The summary *)

\* _flow_class: a shape without a leg in this store is money gone.
FlowClass(k) ==
    CASE entries[k].pair # 0 /\ entries[k].shape = "transfer" -> "internal_transfer"
      [] entries[k].pair # 0 /\ entries[k].shape = "debt" -> "debt_service"
      [] OTHER -> "external_spend"

Groupings == {"account", "flow_class", "month"}  \* a day stands for a month

GroupKey(k, by) == CASE by = "account" -> entries[k].account
                     [] by = "month" -> DayOfRow(k)
                     [] OTHER -> FlowClass(k)

\* _undenominable_accounts.
Summed == {k \in Counted : accounts[entries[k].account].real \in Denominable}

Inflow == [k \in DOMAIN entries |-> Max({Moves[entries[k].move].amount, 0})]
Outflow == [k \in DOMAIN entries |-> Max({-Moves[entries[k].move].amount, 0})]

\* The statement of money_summary: a group per key and flow class.
EveryGroup(by, summed) ==
    {LET group == {k \in summed : <<GroupKey(k, by), FlowClass(k)>> = g} IN
     [key |-> g[1], class |-> g[2],
      inflow |-> SumFunctionOnSet(Inflow, group), outflow |-> SumFunctionOnSet(Outflow, group)] :
        g \in {<<GroupKey(k, by), FlowClass(k)>> : k \in summed}}

NoTotals == [inflow |-> 0, outflow |-> 0, internal_transfer |-> 0, debt_service |-> 0,
             external_spend |-> 0]

\* _flow_class_totals.
FlowClassTotals(groups) ==
    FoldSet(LAMBDA g, t : [t EXCEPT !.inflow = @ + g.inflow, !.outflow = @ + g.outflow,
                                    ![g.class] = @ + g.outflow],
            NoTotals, groups)

Capped(groups) ==
    ToSet(SubSeq(SetToSortSeq(groups, LAMBDA g, h : g.inflow - g.outflow < h.inflow - h.outflow),
                 1, Min({MAX_GROUPS, Cardinality(groups)})))

\* Faulty variant of Totals: summed over the groups the answer has room for.
TotalsOfShown(by, summed) == FlowClassTotals(Capped(EveryGroup(by, summed)))

\* money_summary's totals: over every group, whatever was cut from the list.
Totals(by, summed) == FlowClassTotals(EveryGroup(by, summed))

-----------------------------------------------------------------------------
(* Correctness *)

\* Type correctness: every reference between the tables resolves, a row's
\* account is of the movement's real account, and ids only point back.
TypeOK ==
    /\ \A i \in DOMAIN accounts :
        /\ accounts[i].real \in Real /\ accounts[i].conn \in DOMAIN conns
        /\ accounts[i].item \in 1 .. Items /\ accounts[i].last \in 1 .. today
    /\ \A k \in DOMAIN entries :
        /\ entries[k].account \in DOMAIN accounts /\ entries[k].lineage \in DOMAIN conns
        /\ accounts[entries[k].account].real = Moves[entries[k].move].real
        /\ entries[k].pair \in 0 .. Len(entries)
    /\ \A c \in DOMAIN conns : conns[c].roster \in 1 .. today /\ conns[c].item \in 1 .. Items

Leg(k) == [id |-> k, account |-> entries[k].account, day |-> DayOfRow(k),
           amount |-> Moves[entries[k].move].amount, currency |-> "USD"]

Pairable == {k \in LiveRows : entries[k].shape # "other"}

\* Pairing is a matching: a leg that carries a pair id shares it with exactly
\* one other leg it matches, the id is the older leg's, and no two legs that
\* match are both left over, however rows were added, withdrawn and restated
\* since (store/transfers.py, pair_transfers).
PairsAreAMatching ==
    /\ \A k \in Pairable : entries[k].pair # 0 =>
        \E j \in Pairable \ {k} :
            /\ {i \in Pairable : entries[i].pair = entries[k].pair} = {j, k}
            /\ entries[k].pair = Min({j, k}) /\ Matches(Leg(j), Leg(k))
    /\ \A j, k \in Pairable :
        entries[j].pair = 0 /\ entries[k].pair = 0 => ~ Matches(Leg(j), Leg(k))

RowsOfMove(m) == {k \in LiveRows : entries[k].move = m}

RowsOf(r) == {k \in LiveRows : Moves[entries[k].move].real = r}

\* Two Items' rows under one account and one connection: nothing tells them
\* apart (store/lineage.py:30-36).
Indistinct(r) ==
    \E j, k \in RowsOf(r) :
        /\ entries[j].gen # entries[k].gen
        /\ entries[j].account = entries[k].account /\ entries[j].lineage = entries[k].lineage

\* An account row that an Item replaced and no roster of a later day has
\* passed over yet.
NotYetPassedOver(r) ==
    \E i, j \in DOMAIN accounts :
        i # j /\ accounts[i].real = r /\ accounts[j].real = r /\ StillReported(i) /\ StillReported(j)

\* An unlisted row of the account that looks like a row of another account.
TwinUnlisted(r) ==
    \E i, j \in DOMAIN accounts :
        /\ accounts[i].real = r /\ accounts[j].real # r
        /\ SameIdentity(i, j) /\ ~ StillReported(i)

\* Two rows of the account that nothing shows to be one: the bank left a string
\* out, or states another since (store/lineage.py:348-349).
Unrecognised(r) ==
    \E i, j \in DOMAIN accounts :
        accounts[i].real = r /\ accounts[j].real = r /\ ~ SameIdentity(i, j)

\* No Item of r holds part of a day's movements only.
Whole(r) ==
    LET moves == {m \in DOMAIN Moves : Moves[m].real = r} IN
    \A g \in {entries[k].gen : k \in RowsOf(r)} :
        LET held == moves \cap {entries[k].move : k \in {j \in DOMAIN entries : entries[j].gen = g}} IN
        \A m \in moves \ held, n \in held : Moves[n].day # Moves[m].day

Explained(r) ==
    NotYetPassedOver(r) \/ TwinUnlisted(r) \/ Unrecognised(r) \/ Indistinct(r) \/ ~ Whole(r)

WithdrawnSomewhere(m) == \E k \in DOMAIN entries : entries[k].move = m /\ entries[k].removed

\* A movement several Items delivered is counted exactly once, by any sequence
\* of enrolments, re-links and retirements, unless the store cannot tell: two
\* Items under one account and one connection, a re-link no later roster has
\* followed, an unlisted account that shares its identity with another, an
\* account whose old row and new are not stated alike, or a day only half
\* delivered (store/lineage.py, identity_partition and superseded_spans).
MovementCountsOnce ==
    LET counted == Counted IN
    \A r \in Real : Explained(r) \/ \A m \in {n \in DOMAIN Moves : Moves[n].real = r} :
        /\ Cardinality(RowsOfMove(m) \cap counted) <= 1
        /\ RowsOfMove(m) # {} /\ ~ WithdrawnSomewhere(m) => RowsOfMove(m) \cap counted # {}

Delivered == {m \in DOMAIN Moves : RowsOfMove(m) # {} /\ Moves[m].real \in Denominable}

\* The totals of a summary are those of the movements, each once, under every
\* grouping and however few groups the answer shows (query.py:4337-4671).
TotalsAreOfTheMovements ==
    (\A r \in Real : ~ Explained(r)) /\ (\A m \in DOMAIN Moves : ~ WithdrawnSomewhere(m)) =>
        LET summed == Summed IN
        \A by \in Groupings :
            LET t == Totals(by, summed) IN
            /\ t.inflow = SumFunctionOnSet([m \in DOMAIN Moves |-> Max({Moves[m].amount, 0})], Delivered)
            /\ t.outflow = SumFunctionOnSet([m \in DOMAIN Moves |-> Max({-Moves[m].amount, 0})], Delivered)
            /\ t.outflow = t.internal_transfer + t.debt_service + t.external_spend

\* store/transfers.py:3-4: "A transfer between two accounts the household holds
\* is not spending".  A counted row that is reported as spent has no counted leg
\* opposite it, but one whose own pair is counted too.
TransferIsNotSpending ==
    LET legs == Counted \cap Pairable IN
    \A k, j \in legs :
        /\ FlowClass(k) = "external_spend" /\ Outflow[k] > 0
        /\ Matches(Leg(j), Leg(k))
        => \E i \in legs \ {j} : entries[i].pair = entries[j].pair
===============================================================================
