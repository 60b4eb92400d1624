-------------------------------- MODULE Totals --------------------------------
(***************************************************************************)
(* How the tables that a summary reads come to stand as they do, when      *)
(* accounts are linked again: enrollment, re-links, retirements, rosters   *)
(* and pages of transactions (connector/plaid/derivers.py), and after      *)
(* each page which rows are the two legs of one transfer                   *)
(* (store/transfers.py).                                                   *)
(***************************************************************************)
EXTENDS Summary

vars == <<conns, accounts, entries, owed, persists, closed, today, events>>

Banks == {Bank[r] : r \in Real}
LiveConns == {c \in DOMAIN conns : ~ conns[c].retired}

Init ==
    /\ conns = <<>> /\ accounts = <<>> /\ entries = <<>> /\ owed = <<>>
    /\ \E banks \in Publishing : persists = {r \in Real : Bank[r] \in banks}
    /\ closed = {} /\ today = 1 /\ events = 0

Event == events < MaxEvents /\ events' = events + 1

-----------------------------------------------------------------------------
(* Pairing, over the rows as they stand *)

\* _candidates.
Candidates(table) ==
    {[id |-> k, account |-> table[k].account, day |-> Moves[table[k].move].day,
      amount |-> Moves[table[k].move].amount, currency |-> "USD"] :
        k \in {j \in DOMAIN table : ~ table[j].removed /\ table[j].shape # "other"}}

\* pair_transfers, run after every body.
Paired(table) ==
    LET pairs == PairTransfers(Candidates(table)) IN
    [k \in DOMAIN table |-> IF table[k].shape # "other"
                            THEN [table[k] EXCEPT !.pair = PairId(k, pairs)] ELSE table[k]]

-----------------------------------------------------------------------------
(* Linking *)

\* Faulty variant of RowFor: an account with the same four strings will do.
RowForAlike(table, c, item, r) ==
    LET alike == {i \in DOMAIN table : /\ table[i].conn = c
                                     /\ Identity[table[i].real][item] = Identity[r][item]}
    IN IF alike # {} THEN Min(alike) ELSE 0

\* The account row that answers for r on connection c: its own under this
\* Item's id, the holder of its persistent id, or none (_match_account).
RowFor(table, c, item, r) ==
    LET own == {i \in DOMAIN table : table[i].real = r /\ table[i].conn = c /\ table[i].item = item}
        held == {i \in DOMAIN table : table[i].real = r /\ r \in persists}
    IN IF own # {} THEN Min(own) ELSE IF held # {} THEN Min(held) ELSE 0

SeenOn(table, c, item, r) ==
    LET i == RowFor(table, c, item, r)
        row == [real |-> r, conn |-> c, item |-> item, last |-> today]
    IN IF i = 0 THEN Append(table, row) ELSE [table EXCEPT ![i] = row]

\* derive_accounts, of the roster a bank states today, in its order.
Observe(c, item, held, bank) ==
    /\ accounts' = MapThenFoldSet(LAMBDA r, table : SeenOn(table, c, item, r), accounts,
                                  LAMBDA r : r, Max, {r \in Real \ closed : Bank[r] = bank})
    /\ conns' = [held EXCEPT ![c].roster = today]

\* A new Item has everything its bank reports still to deliver.
NewItem(bank) ==
    /\ Items < MaxLinks
    /\ owed' = Append(owed, {m \in DOMAIN Moves : /\ Bank[Moves[m].real] = bank
                                                  /\ Moves[m].real \notin closed})

\* enroll, and the accounts body its first sync derives: a connection of its
\* own for the bank.
Enroll(bank) ==
    /\ \A c \in LiveConns : conns[c].bank # bank
    /\ NewItem(bank)
    /\ LET c == Len(conns) + 1 IN
       Observe(c, Items + 1,
               Append(conns, [bank |-> bank, item |-> Items + 1, retired |-> FALSE, roster |-> 0]),
               bank)
    /\ UNCHANGED <<entries, persists, closed, today, events>>

\* enroll --relink, and the accounts body its first sync derives: the Item is
\* replaced under the connection.
ReLink(c) ==
    /\ c \in LiveConns /\ NewItem(conns[c].bank)
    /\ Observe(c, Items + 1, [conns EXCEPT ![c].item = Items + 1], conns[c].bank)
    /\ UNCHANGED <<entries, persists, closed, today, events>>

\* A later sync looks at the roster again.
Sync(c) ==
    /\ c \in LiveConns /\ conns[c].roster < today
    /\ Observe(c, conns[c].item, conns, conns[c].bank)
    /\ UNCHANGED <<entries, owed, persists, closed, today, events>>

Retire(c) ==
    /\ c \in LiveConns
    /\ conns' = [conns EXCEPT ![c].retired = TRUE]
    /\ UNCHANGED <<accounts, entries, owed, persists, closed, today, events>>

\* The bank closes the account: later rosters do not list it.
Close(r) ==
    /\ r \notin closed /\ Event
    /\ closed' = closed \cup {r}
    /\ UNCHANGED <<conns, accounts, entries, owed, persists, today>>

NextDay ==
    /\ today < MaxDay /\ today' = today + 1
    /\ UNCHANGED <<conns, accounts, entries, owed, persists, closed, events>>

-----------------------------------------------------------------------------
(* Rows *)

\* derive_transactions_sync: an Item delivers its movements newest first, one
\* page each.
Deliver(c) ==
    LET item == conns[c].item
        m == Max(owed[item])
        row == [account |-> RowFor(accounts, c, item, Moves[m].real), lineage |-> c, move |-> m,
                gen |-> item, shape |-> Moves[m].shape, removed |-> FALSE, pair |-> 0]
    IN
    /\ c \in LiveConns /\ owed[item] # {}
    /\ owed' = [owed EXCEPT ![item] = @ \ {m}]
    /\ entries' = Paired(Append(entries, row))
    /\ UNCHANGED <<conns, accounts, persists, closed, today, events>>

Current(k) == entries[k].lineage \in LiveConns /\ entries[k].gen = conns[entries[k].lineage].item

\* The Item withdraws a movement, or restates what it was for.
Withdraw(k) ==
    /\ k \in DOMAIN entries /\ Current(k) /\ ~ entries[k].removed /\ Event
    /\ entries' = Paired([entries EXCEPT ![k].removed = TRUE])
    /\ UNCHANGED <<conns, accounts, owed, persists, closed, today>>

Restate(k) ==
    /\ k \in DOMAIN entries /\ Current(k) /\ ~ entries[k].removed /\ entries[k].shape # "other" /\ Event
    /\ entries' = Paired([entries EXCEPT ![k].shape = "other"])
    /\ UNCHANGED <<conns, accounts, owed, persists, closed, today>>

Next ==
    \/ \E bank \in Banks : Enroll(bank)
    \/ \E c \in DOMAIN conns : ReLink(c) \/ Sync(c) \/ Retire(c) \/ Deliver(c)
    \/ \E r \in Real : Close(r)
    \/ NextDay
    \/ \E k \in DOMAIN entries : Withdraw(k) \/ Restate(k)

Spec == Init /\ [][Next]_vars
===============================================================================
