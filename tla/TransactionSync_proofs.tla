------------------------ MODULE TransactionSync_proofs ------------------------
(***************************************************************************)
(* Theorems about TransactionSync, for any ids, contents, holds, runs and  *)
(* bounds.  Those about what the cursor claims assume that one run is in   *)
(* flight at a time (OneRunAtATime): the code does not enforce it, and     *)
(* without it they are false.  What a page does to the table comes first.  *)
(***************************************************************************)
EXTENDS TransactionSync, TLAPS

\* At most one process runs the command.
OneRunAtATime == \A r, s \in Runs : r = s

-----------------------------------------------------------------------------
(***************************************************************************)
(* What applying one page to the transactions table preserves and yields,  *)
(* for any page.                                                           *)
(***************************************************************************)

\* An entry that is written gets a row of its own, with the content it carried.
LEMMA RewrittenRow ==
  ASSUME NEW table \in Rows, NEW old \in Ledger, NEW new \in Ledger, NEW i \in Ids,
         Rewritten(table, Change(old, new), i)
  PROVE  /\ PutRows(table, Change(old, new))[i] \in Row
         /\ PutRows(table, Change(old, new))[i] =
              [origin  |-> OriginOf(table, Change(old, new), i),
               content |-> new[i], removed |-> FALSE]
         /\ i \in Live(new) \ Unwritable
<1> DEFINE page == Change(old, new)
<1>1. i \in Live(new) \ Unwritable
  BY DEF Rewritten, Written, Change
<1>2. OriginOf(table, page, i) \in Ids
  BY DEF OriginOf, Held, Rows, Row, Written, Change, Live
<1>3. new[i] \in Versions
  BY <1>1 DEF Live, Ledger
<1>4. PutRows(table, page)[i] =
        [origin |-> OriginOf(table, page, i), content |-> new[i], removed |-> FALSE]
  BY DEF PutRows, Change
<1>5. QED
  BY <1>1, <1>2, <1>3, <1>4 DEF Row

\* Writing and marking keep the table a table.
LEMMA ApplyPageType ==
  ASSUME NEW table \in Rows, NEW old \in Ledger, NEW new \in Ledger
  PROVE  /\ PutRows(table, Change(old, new)) \in Rows
         /\ ApplyPage(table, Change(old, new)) \in Rows
<1> DEFINE page == Change(old, new)
           put  == PutRows(table, page)
<1>1. ASSUME NEW i \in Ids
      PROVE  put[i] \in Row \cup {NoRow}
  <2>1. CASE Rewritten(table, page, i)
    BY <2>1, RewrittenRow
  <2>2. CASE ~ Rewritten(table, page, i)
    BY <2>2 DEF PutRows, Rows
  <2>3. QED
    BY <2>1, <2>2
<1>2. put \in Rows
  BY <1>1 DEF PutRows, Rows
<1>3. ASSUME NEW i \in Ids
      PROVE  MarkRemoved(put, page.gone)[i] \in Row \cup {NoRow}
  <2>1. CASE i \in page.gone \cap Held(put)
    BY <1>1, <2>1, NoRowAssumption DEF MarkRemoved, Held, Row
  <2>2. CASE i \notin page.gone \cap Held(put)
    BY <1>1, <2>2 DEF MarkRemoved
  <2>3. QED
    BY <2>1, <2>2
<1>4. QED
  BY <1>2, <1>3 DEF ApplyPage, Rows, MarkRemoved

\* Removing is soft: it changes neither which rows are held nor whose they are.
LEMMA MarkRemovedKeeps ==
  ASSUME NEW table \in Rows, NEW gone
  PROVE  /\ Held(MarkRemoved(table, gone)) = Held(table)
         /\ \A i \in Held(table) :
              /\ MarkRemoved(table, gone)[i].origin = table[i].origin
              /\ MarkRemoved(table, gone)[i].content = table[i].content
         /\ Shown(MarkRemoved(table, gone)) = Shown(table) \ gone
<1> DEFINE after == MarkRemoved(table, gone)
<1>1. ASSUME NEW i \in Ids, i \in Held(table)
      PROVE  /\ after[i] # NoRow
             /\ after[i].origin = table[i].origin
             /\ after[i].content = table[i].content
             /\ after[i].removed = (i \in gone \/ table[i].removed)
  <2>1. table[i] \in Row
    BY <1>1 DEF Held, Rows
  <2>2. CASE i \in gone
    <3>1. after[i] = [table[i] EXCEPT !.removed = TRUE]
      BY <1>1, <2>2 DEF MarkRemoved
    <3>2. after[i] \in Row
      BY <2>1, <3>1 DEF Row
    <3>3. QED
      BY <2>1, <2>2, <3>1, <3>2, NoRowAssumption DEF Row
  <2>3. CASE i \notin gone
    <3>1. after[i] = table[i]
      BY <2>3 DEF MarkRemoved
    <3>2. QED
      BY <1>1, <2>1, <2>3, <3>1 DEF Held, Row
  <2>4. QED
    BY <2>2, <2>3
<1>2. ASSUME NEW i \in Ids, i \notin Held(table)
      PROVE  after[i] = NoRow
  BY <1>2 DEF MarkRemoved, Held
<1>3. Held(after) = Held(table)
  BY <1>1, <1>2 DEF Held
<1>4. Shown(after) = Shown(table) \ gone
  BY <1>1, <1>2, <1>3 DEF Shown, Held
<1>5. QED
  BY <1>1, <1>3, <1>4 DEF Held

-----------------------------------------------------------------------------

\* Which ids are held once both write lists are in.
LEMMA HeldAfterPut ==
  ASSUME NEW table \in Rows, NEW old \in Ledger, NEW new \in Ledger, NEW i \in Ids
  PROVE  i \in Held(PutRows(table, Change(old, new))) <=>
           \/ Rewritten(table, Change(old, new), i)
           \/ i \in Held(table) /\ ~ Overtaken(table, Change(old, new), i)
<1> DEFINE page == Change(old, new)
           put  == PutRows(table, page)
<1>1. CASE Rewritten(table, page, i)
  <2>1. put[i] \in Row
    BY <1>1, RewrittenRow
  <2>2. put[i] # NoRow
    BY <2>1, NoRowAssumption
  <2>3. QED
    BY <1>1, <2>2 DEF Held
<1>2. CASE ~ Rewritten(table, page, i)
  BY <1>2 DEF PutRows, Held
<1>3. QED
  BY <1>1, <1>2

\* A page never leaves a hold beside the posting that settled it.
LEMMA ApplyPageSettles ==
  ASSUME NEW table \in Rows, NEW old \in Ledger, NEW new \in Ledger, SettledOnce(table)
  PROVE  SettledOnce(ApplyPage(table, Change(old, new)))
<1> DEFINE page == Change(old, new)
           put  == PutRows(table, page)
<1>1. Held(ApplyPage(table, page)) = Held(put)
  BY ApplyPageType, MarkRemovedKeeps DEF ApplyPage
<1>2. ASSUME NEW p \in Held(put), PendingOf[p] \in Held(put)
      PROVE  FALSE
  <2> DEFINE h == PendingOf[p]
  <2>1. p \in Ids /\ h \in Ids
    BY <1>2 DEF Held
  <2>2. ASSUME Rewritten(table, page, h)
        PROVE  FALSE
    <3>1. p \notin Written(page)
      BY <2>1, <2>2 DEF Rewritten, SettledBy
    <3>2. p \in Held(table)
      BY <2>1, <3>1, HeldAfterPut DEF Rewritten
    <3>3. QED
      BY <2>2, <3>2 DEF Rewritten, Absorbed
  <2>3. h \in Held(table) /\ ~ Overtaken(table, page, h)
    BY <1>2, <2>1, <2>2, HeldAfterPut
  <2>4. p \notin Held(table)
    BY <2>3 DEF SettledOnce
  <2>5. p \in Written(page)
    BY <2>1, <2>4, HeldAfterPut DEF Rewritten
  <2>6. QED
    BY <2>3, <2>4, <2>5 DEF Overtaken, SettledBy
<1>3. QED
  BY <1>1, <1>2 DEF SettledOnce

(***************************************************************************)
(* A row's identity survives: what was held under an origin still is.      *)
(***************************************************************************)
LEMMA ApplyPageKeepsOrigins ==
  ASSUME NEW table \in Rows, NEW old \in Ledger, NEW new \in Ledger, SettledOnce(table),
         NEW i \in Held(table)
  PROVE  \E j \in Held(ApplyPage(table, Change(old, new))) :
            ApplyPage(table, Change(old, new))[j].origin = table[i].origin
<1> DEFINE page  == Change(old, new)
           put   == PutRows(table, page)
           after == ApplyPage(table, page)
<1>1. SUFFICES \E j \in Held(put) : put[j].origin = table[i].origin
  BY ApplyPageType, MarkRemovedKeeps DEF ApplyPage
<1>2. i \in Ids
  BY DEF Held
<1>3. CASE Rewritten(table, page, i)
  <2>1. put[i] = [origin  |-> OriginOf(table, page, i), content |-> new[i],
                  removed |-> FALSE]
    BY <1>2, <1>3, RewrittenRow
  <2>2. put[i].origin = table[i].origin
    BY <2>1 DEF OriginOf
  <2>3. QED
    BY <1>2, <1>3, <2>2, HeldAfterPut
<1>4. CASE ~ Rewritten(table, page, i) /\ ~ Overtaken(table, page, i)
  <2>1. put[i] = table[i]
    BY <1>2, <1>4 DEF PutRows
  <2>2. QED
    BY <1>2, <1>4, <2>1, HeldAfterPut
<1>5. CASE ~ Rewritten(table, page, i) /\ Overtaken(table, page, i)
  <2>1. PICK p \in Written(page) \ Held(table) : PendingOf[p] = i
    BY <1>5 DEF Overtaken, SettledBy
  <2>2. p \in Ids
    BY DEF Written, Change, Live
  <2>3. \A q \in Ids : PendingOf[q] # p
    BY <1>2, <2>1, <2>2, PendingAssumption
  <2>4. Rewritten(table, page, p)
    BY <2>1, <2>3 DEF Rewritten, Absorbed, SettledBy, Held, Written, Change, Live
  <2>5. put[p] = [origin  |-> OriginOf(table, page, p), content |-> new[p],
                  removed |-> FALSE]
    BY <2>2, <2>4, RewrittenRow
  <2>6. put[p].origin = table[i].origin
    BY <2>1, <2>5 DEF OriginOf
  <2>7. QED
    BY <2>2, <2>4, <2>6, HeldAfterPut
<1>6. QED
  BY <1>3, <1>4, <1>5

-----------------------------------------------------------------------------

\* A posting is never itself a hold.
LEMMA PostingIsNoHold ==
  ASSUME NEW p \in Ids, PendingOf[p] \in Ids
  PROVE  \A q \in Ids : PendingOf[q] # p
BY PendingAssumption

(***************************************************************************)
(* Applying the page from `old` to `new` to a table that mirrors `old`     *)
(* yields one that mirrors `new`.  The last assumption is what the feed    *)
(* owes: a posting is not withdrawn while its hold is still reported.      *)
(***************************************************************************)
LEMMA ApplyPageMirrors ==
  ASSUME NEW table \in Rows, NEW old \in Ledger, NEW new \in Ledger,
         Mirrors(table, old), SettledOnce(table), Held(table) \cap Unwritable = {},
         \A p \in Held(table) : PendingOf[p] \in Live(new) => p \in Live(new)
  PROVE  Mirrors(ApplyPage(table, Change(old, new)), new)
<1> DEFINE page  == Change(old, new)
           put   == PutRows(table, page)
           after == ApplyPage(table, page)
<1>1. /\ Held(after) = Held(put)
      /\ \A i \in Held(put) : after[i].content = put[i].content
      /\ Shown(after) = Shown(put) \ page.gone
  BY ApplyPageType, MarkRemovedKeeps DEF ApplyPage
<1>2. page.gone = Live(old) \ Live(new)
  BY DEF Change
<1>3. Written(page) = {i \in Live(new) \ Unwritable : old[i] # new[i]}
  BY DEF Written, Change
<1>4. /\ Shown(table) = Countable(old)
      /\ \A i \in Shown(table) : table[i].content = old[i]
  BY DEF Mirrors
<1>5. ASSUME NEW p \in Live(old) \ Unwritable, PendingOf[p] \in Ids
      PROVE  p \in Held(table)
  BY <1>4, <1>5, PostingIsNoHold DEF Countable, Live, Shown
<1>6. ASSUME NEW i \in Ids, Rewritten(table, page, i)
      PROVE  i \in Shown(put) /\ i \in Live(new) \ Unwritable /\ put[i].content = new[i]
  <2>1. /\ put[i] \in Row
        /\ put[i] = [origin  |-> OriginOf(table, page, i), content |-> new[i],
                     removed |-> FALSE]
        /\ i \in Live(new) \ Unwritable
    BY <1>6, RewrittenRow
  <2>2. i \in Held(put)
    BY <1>6, HeldAfterPut
  <2>3. QED
    BY <2>1, <2>2 DEF Shown
<1>7. ASSUME NEW i \in Ids, ~ Rewritten(table, page, i), i \in Held(put)
      PROVE  i \in Held(table) /\ put[i] = table[i] /\ ~ Overtaken(table, page, i)
  <2>1. i \in Held(table) /\ ~ Overtaken(table, page, i)
    BY <1>7, HeldAfterPut
  <2>2. QED
    BY <1>7, <2>1 DEF PutRows
<1>8. ASSUME NEW i \in Shown(after)
      PROVE  i \in Countable(new) /\ after[i].content = new[i]
  <2>1. i \in Ids /\ i \in Held(put) /\ ~ put[i].removed /\ i \notin page.gone
    BY <1>1, <1>8 DEF Shown, Held
  <2>2. CASE Rewritten(table, page, i)
    <3>1. ASSUME NEW p \in Live(new) \ Unwritable, PendingOf[p] = i
          PROVE  FALSE
      <4>1. p \in Ids
        BY DEF Live
      <4>2. p \notin Written(page)
        BY <2>2, <3>1 DEF Rewritten, SettledBy
      <4>3. p \in Live(old) \ Unwritable
        BY <1>3, <4>1, <4>2 DEF Live
      <4>4. p \in Held(table)
        BY <1>5, <2>1, <3>1, <4>3
      <4>5. QED
        BY <2>2, <3>1, <4>4 DEF Rewritten, Absorbed
    <3>2. QED
      BY <1>1, <1>6, <2>1, <2>2, <3>1 DEF Countable
  <2>3. CASE ~ Rewritten(table, page, i)
    <3>1. i \in Shown(table) /\ put[i] = table[i] /\ ~ Overtaken(table, page, i)
      BY <1>7, <2>1, <2>3 DEF Shown
    <3>2. i \in Countable(old) /\ table[i].content = old[i] /\ i \in Live(new) \ Unwritable
      BY <1>2, <1>4, <2>1, <3>1 DEF Countable
    <3>3. ASSUME NEW p \in Live(new) \ Unwritable, PendingOf[p] = i
          PROVE  FALSE
      <4>1. p \in Ids
        BY DEF Live
      <4>2. CASE p \in Written(page)
        BY <3>1, <3>3, <4>2 DEF Overtaken, SettledBy, SettledOnce, Shown
      <4>3. CASE p \notin Written(page)
        BY <1>3, <3>2, <3>3, <4>1, <4>3 DEF Live, Countable
      <4>4. QED
        BY <4>2, <4>3
    <3>4. i \notin Written(page)
      <4>1. ~ Absorbed(table, i)
        BY <3>1 DEF Absorbed, SettledOnce, Shown
      <4>2. SettledBy(page, i) = {}
        BY <1>3, <3>3 DEF SettledBy
      <4>3. QED
        BY <2>3, <4>1, <4>2 DEF Rewritten
    <3>5. old[i] = new[i]
      BY <1>3, <3>2, <3>4
    <3>6. QED
      BY <1>1, <2>1, <3>1, <3>2, <3>3, <3>5 DEF Countable
  <2>4. QED
    BY <2>2, <2>3
<1>9. ASSUME NEW i \in Countable(new)
      PROVE  i \in Shown(after)
  <2>1. /\ i \in Ids /\ i \in Live(new) \ Unwritable /\ i \notin page.gone
        /\ \A p \in Live(new) \ Unwritable : PendingOf[p] # i
    BY <1>2 DEF Countable, Live
  <2>2. \A p \in Held(table) : PendingOf[p] # i
    BY <2>1 DEF Held
  <2>3. SettledBy(page, i) = {}
    BY <1>3, <2>1 DEF SettledBy
  <2>4. CASE i \in Written(page)
    BY <1>1, <1>6, <2>1, <2>2, <2>3, <2>4 DEF Rewritten, Absorbed
  <2>5. CASE i \notin Written(page)
    <3>1. i \in Live(old) \ Unwritable
      BY <1>3, <2>1, <2>5 DEF Live
    <3>2. i \in Shown(table)
      BY <1>4, <1>5, <2>1, <2>2, <3>1 DEF Countable
    <3>3. i \in Held(table) /\ ~ table[i].removed
      BY <3>2 DEF Shown
    <3>4. ~ Rewritten(table, page, i) /\ ~ Overtaken(table, page, i)
      BY <2>3, <2>5 DEF Rewritten, Overtaken
    <3>5. put[i] = table[i] /\ i \in Held(put)
      BY <2>1, <3>3, <3>4, HeldAfterPut DEF PutRows
    <3>6. QED
      BY <1>1, <2>1, <3>3, <3>5 DEF Shown
  <2>6. QED
    BY <2>4, <2>5
<1>10. Shown(after) = Countable(new)
  BY <1>8, <1>9
<1>11. QED
  BY <1>8, <1>10 DEF Mirrors

\* The ids held after a page were held before it or were reported by it.
LEMMA ApplyPageHolds ==
  ASSUME NEW table \in Rows, NEW old \in Ledger, NEW new \in Ledger
  PROVE  Held(ApplyPage(table, Change(old, new))) \subseteq
           Held(table) \cup (Live(new) \ Unwritable)
<1> DEFINE put == PutRows(table, Change(old, new))
<1>1. Held(ApplyPage(table, Change(old, new))) = Held(put)
  BY ApplyPageType, MarkRemovedKeeps DEF ApplyPage
<1>2. \A i \in Held(put) : i \in Ids
  BY DEF Held
<1>3. \A i \in Ids : Rewritten(table, Change(old, new), i) => i \in Live(new) \ Unwritable
  BY RewrittenRow
<1>4. QED
  BY <1>1, <1>2, <1>3, HeldAfterPut

-----------------------------------------------------------------------------

\* A row was inserted under its own id, or under that of the hold it settles.
OriginsOwn(table) == \A i \in Held(table) : table[i].origin \in {i, PendingOf[i]}

LEMMA ApplyPageOriginsOwn ==
  ASSUME NEW table \in Rows, NEW old \in Ledger, NEW new \in Ledger, OriginsOwn(table)
  PROVE  OriginsOwn(ApplyPage(table, Change(old, new)))
<1> DEFINE page == Change(old, new)
           put  == PutRows(table, page)
<1>1. SUFFICES OriginsOwn(put)
  BY ApplyPageType, MarkRemovedKeeps DEF ApplyPage, OriginsOwn
<1>2. \A i \in Held(table) : i \in Ids /\ table[i] \in Row
  BY DEF Held, Rows
<1>3. ASSUME NEW i \in Ids, Rewritten(table, page, i)
      PROVE  put[i].origin \in {i, PendingOf[i]}
  <2>1. put[i].origin = OriginOf(table, page, i)
    <3>1. put[i] = [origin  |-> OriginOf(table, page, i), content |-> new[i],
                    removed |-> FALSE]
      BY <1>3, RewrittenRow
    <3>2. QED
      BY <3>1
  <2>2. CASE i \in Held(table)
    BY <2>1, <2>2 DEF OriginOf, OriginsOwn
  <2>3. CASE i \notin Held(table) /\ PendingOf[i] \in Held(table)
    <3>1. table[PendingOf[i]].origin \in {PendingOf[i], PendingOf[PendingOf[i]]}
      BY <2>3 DEF OriginsOwn
    <3>2. table[PendingOf[i]].origin \in Ids /\ PendingOf[i] # NoId
      BY <1>2, <2>3, PendingAssumption DEF Row
    <3>3. PendingOf[PendingOf[i]] = NoId /\ NoId \notin Ids
      BY <3>2, PendingAssumption
    <3>4. QED
      BY <2>1, <2>3, <3>1, <3>2, <3>3 DEF OriginOf
  <2>4. CASE i \notin Held(table) /\ PendingOf[i] \notin Held(table)
    BY <2>1, <2>4 DEF OriginOf
  <2>5. QED
    BY <2>2, <2>3, <2>4
<1>4. ASSUME NEW i \in Ids, i \in Held(put), ~ Rewritten(table, page, i)
      PROVE  put[i].origin \in {i, PendingOf[i]}
  <2>1. i \in Held(table) /\ ~ Overtaken(table, page, i)
    BY <1>4, HeldAfterPut
  <2>2. put[i] = table[i]
    BY <1>4, <2>1 DEF PutRows
  <2>3. QED
    BY <2>1, <2>2 DEF OriginsOwn
<1>5. QED
  BY <1>3, <1>4 DEF OriginsOwn, Held

\* Where no hold stands beside its posting, own origins are distinct ones.
LEMMA OwnOriginsAreDistinct ==
  ASSUME NEW table \in Rows, SettledOnce(table), OriginsOwn(table),
         NEW i \in Held(table), NEW j \in Held(table), table[i].origin = table[j].origin
  PROVE  i = j
<1>1. i \in Ids /\ j \in Ids /\ table[i].origin \in Ids
  BY DEF Held, Rows, Row
<1>2. /\ table[i].origin \in {i, PendingOf[i]} /\ table[j].origin \in {j, PendingOf[j]}
      /\ PendingOf[i] \notin Held(table) /\ PendingOf[j] \notin Held(table)
  BY DEF OriginsOwn, SettledOnce
<1>3. CASE table[i].origin = PendingOf[i] /\ table[j].origin = PendingOf[j]
  BY <1>1, <1>3, PendingAssumption
<1>4. QED
  BY <1>2, <1>3

-----------------------------------------------------------------------------
(***************************************************************************)
(* Type correctness.                                                       *)
(***************************************************************************)

\* What the aggregator may publish next is a ledger.
LEMMA ReportsLedgers ==
  ASSUME NEW old \in Ledger, NEW i \in Ids, NEW v \in Versions,
         NEW new \in Reports(old, i, v)
  PROVE  new \in Ledger
<1> DEFINE reported == [old EXCEPT ![i] = v]
<1>1. reported \in Ledger
  BY DEF Ledger
<1>2. CASE new = reported
  BY <1>1, <1>2
<1>3. CASE new # reported
  <2>1. PICK h \in {PendingOf[i]} \ {NoId} : new = [reported EXCEPT ![h] = Absent]
    BY <1>3 DEF Reports
  <2>2. QED
    BY <1>1, <2>1 DEF Ledger
<1>4. QED
  BY <1>2, <1>3

\* Publishing appends one legal ledger and leaves the rest alone.
LEMMA PublishAppends ==
  ASSUME TypeOK, Publish
  PROVE  \E new \in Ledger :
           /\ LegalNext(feed[Len(feed)], new)
           /\ feed' = Append(feed, new)
           /\ feed' \in Seq(Ledger)
           /\ Len(feed') = Len(feed) + 1
           /\ feed'[Len(feed) + 1] = new
           /\ \A k \in Positions : feed'[k] = feed[k]
<1> DEFINE old == feed[Len(feed)]
<1>1. old \in Ledger
  BY DEF TypeOK
<1>2. PICK i \in Ids, v \in Versions \cup {Absent} :
        \E new \in IF v = Absent THEN {[old EXCEPT ![i] = v]} ELSE Reports(old, i, v) :
           LegalNext(old, new) /\ feed' = Append(feed, new)
  BY DEF Publish
<1>3. PICK new \in IF v = Absent THEN {[old EXCEPT ![i] = v]} ELSE Reports(old, i, v) :
        LegalNext(old, new) /\ feed' = Append(feed, new)
  BY <1>2
<1>4. new \in Ledger
  <2>1. CASE v = Absent
    BY <1>1, <1>3, <2>1 DEF Ledger
  <2>2. CASE v # Absent
    BY <1>1, <1>3, <2>2, ReportsLedgers
  <2>3. QED
    BY <2>1, <2>2
<1>5. feed \in Seq(Ledger)
  BY DEF TypeOK
<1>6. /\ feed' \in Seq(Ledger)
      /\ Len(feed') = Len(feed) + 1
      /\ feed'[Len(feed) + 1] = new
      /\ \A k \in Positions : feed'[k] = feed[k]
  BY <1>3, <1>4, <1>5 DEF Positions
<1>7. QED
  BY <1>3, <1>4, <1>6

\* The position the cursor names is one of the published ledgers.
LEMMA PositionPublished ==
  ASSUME TypeOK
  PROVE  Position \in Positions /\ Position \in Nat /\ Position >= 1 /\ Positions \subseteq Nat
BY NoCursorAssumption DEF TypeOK, Position, Positions

\* A run with another page in hand is a run.
LEMMA FetchedRun ==
  ASSUME TypeOK, NEW s \in RunState, NEW to \in Positions
  PROVE  /\ PageFetched(s, to) \in RunState
         /\ PageFetched(s, to).phase = "archive"
         /\ PageFetched(s, to).from = Position
         /\ PageFetched(s, to).to = to
         /\ PageFetched(s, to).more <=> to < Len(feed)
         /\ PageFetched(s, to).historical <=> s.historical \/ backfill = "historical"
<1>1. PICK more \in BOOLEAN : more = (to < Len(feed))
  <2>1. (to < Len(feed)) \in BOOLEAN
    OBVIOUS
  <2>2. QED
    BY <2>1, Zenon
<1>2. PICK complete \in BOOLEAN : complete = (backfill = "historical")
  OBVIOUS
<1>3. PICK historical \in BOOLEAN : historical = (s.historical \/ backfill = "historical")
  OBVIOUS
<1> DEFINE page == [s EXCEPT !.phase = "archive", !.polls = 0, !.from = Position,
                             !.to = to, !.more = more, !.complete = complete,
                             !.historical = historical]
<1>4. PageFetched(s, to) = page
  BY <1>1, <1>2, <1>3, Zenon DEF PageFetched
<1>5. Position \in Nat /\ to \in Nat
  BY PositionPublished
<1>6. /\ page \in RunState
      /\ page.phase = "archive" /\ page.from = Position /\ page.to = to
      /\ page.more = more /\ page.historical = historical
  BY <1>5 DEF RunState, Phases
<1>7. QED
  BY <1>1, <1>3, <1>4, <1>6

\* A page ends the run's turn in one of three ways.
LEMMA AfterPageType ==
  ASSUME TypeOK, NEW r \in Runs, AfterPage(r)
  PROVE  /\ run' \in [Runs -> RunState]
         /\ \A s \in Runs : run'[s].from = run[s].from /\ run'[s].to = run[s].to
<1>1. PICK turn \in {"page", "measure", "stamp"} :
        run' = [run EXCEPT ![r] = [run[r] EXCEPT !.phase = turn, !.pages = run[r].pages + 1]]
  BY DEF AfterPage
<1> DEFINE next == [run[r] EXCEPT !.phase = turn, !.pages = run[r].pages + 1]
<1>2. run \in [Runs -> RunState] /\ run[r] \in RunState
  BY DEF TypeOK
<1>3. turn \in Phases /\ run[r].pages + 1 \in Nat
  BY <1>2 DEF Phases, RunState
<1>4. next \in RunState /\ next.from = run[r].from /\ next.to = run[r].to
  BY <1>2, <1>3 DEF RunState
<1>5. QED
  BY <1>1, <1>2, <1>4

LEMMA TypeInit == Init => TypeOK
<1> SUFFICES ASSUME Init PROVE TypeOK
  OBVIOUS
<1>1. EmptyLedger \in Ledger
  BY DEF EmptyLedger, Ledger
<1>2. feed \in Seq(Ledger) /\ Len(feed) = 1
  BY <1>1 DEF Init
<1>3. NoRows \in Rows
  BY DEF NoRows, Rows
<1>4. IdleRun \in RunState
  BY DEF IdleRun, RunState, Phases
<1>5. \A r \in Runs : run[r] = IdleRun
  BY DEF Init
<1>6. run \in [Runs -> RunState]
  BY <1>4 DEF Init
<1>7. \A r \in Runs : run[r].from \in Positions /\ run[r].to \in Positions
  BY <1>2, <1>5 DEF IdleRun, Positions
<1>8. /\ backfillEnd \in 0 .. Len(feed) /\ lastSuccess \in 0 .. Len(feed)
      /\ granted \in 0 .. Len(feed) /\ faults \in Nat
  BY <1>2 DEF Init
<1>9. /\ archive \subseteq Positions \X Positions /\ rows \in Rows
      /\ cursor \in Positions \cup {NoCursor}
  BY <1>3 DEF Init
<1>10. backfill \in {"none", "initial", "historical"} /\ landed \in BOOLEAN
       /\ status \in {"active", "degraded"}
  BY DEF Init
<1>11. QED
  BY <1>2, <1>6, <1>7, <1>8, <1>9, <1>10 DEF TypeOK

\* Ending a run, or starting none, keeps every run a run.
LEMMA EndRunType ==
  ASSUME TypeOK, NEW r \in Runs, EndRun(r)
  PROVE  /\ run' \in [Runs -> RunState]
         /\ \A s \in Runs : run'[s].from \in Positions /\ run'[s].to \in Positions
<1>1. IdleRun \in RunState /\ IdleRun.from = 1 /\ IdleRun.to = 1
  BY DEF IdleRun, RunState, Phases
<1>2. 1 \in Positions
  BY DEF TypeOK, Positions
<1>3. run' \in [Runs -> RunState]
  BY <1>1 DEF EndRun, TypeOK
<1>4. ASSUME NEW s \in Runs
      PROVE  run'[s].from \in Positions /\ run'[s].to \in Positions
  <2>1. run'[s] = IF s = r THEN IdleRun ELSE run[s]
    BY DEF EndRun, TypeOK
  <2>2. QED
    BY <1>1, <1>2, <2>1 DEF TypeOK
<1>5. QED
  BY <1>3, <1>4

LEMMA TypeStep == TypeOK /\ [Next]_vars => TypeOK'
<1> SUFFICES ASSUME TypeOK, [Next]_vars PROVE TypeOK'
  OBVIOUS
<1> USE DEF store, aggregator
<1>1. CASE UNCHANGED vars
  BY <1>1 DEF vars, TypeOK, Positions
<1>2. CASE Publish
  <2>1. feed' \in Seq(Ledger) /\ Len(feed') = Len(feed) + 1
    BY <1>2, PublishAppends
  <2>2. Positions \subseteq Positions' /\ Len(feed) \in Nat
    BY <2>1 DEF TypeOK, Positions
  <2>3. QED
    BY <1>2, <2>1, <2>2 DEF TypeOK, Publish
<1>3. CASE Materialize
  BY <1>3 DEF TypeOK, Materialize, Positions
<1>4. ASSUME NEW r \in Runs, Start(r)
      PROVE  TypeOK'
  <2>1. run' \in [Runs -> RunState]
    BY <1>4 DEF Start, TypeOK, RunState, Phases
  <2>2. \A s \in Runs : run'[s].from = run[s].from /\ run'[s].to = run[s].to
    BY <1>4 DEF Start, TypeOK, RunState
  <2>3. QED
    BY <1>4, <2>1, <2>2 DEF Start, TypeOK, Positions
<1>5. ASSUME NEW r \in Runs, Fetch(r)
      PROVE  TypeOK'
  <2>1. PICK to \in Position .. Len(feed) : run' = [run EXCEPT ![r] = PageFetched(run[r], to)]
    BY <1>5 DEF Fetch
  <2>2. to \in Positions
    BY <2>1, PositionPublished DEF Positions
  <2>3. /\ PageFetched(run[r], to) \in RunState
        /\ PageFetched(run[r], to).from = Position /\ PageFetched(run[r], to).to = to
    BY <2>2, FetchedRun DEF TypeOK
  <2>4. run' \in [Runs -> RunState]
    BY <2>1, <2>3 DEF TypeOK
  <2>5. \A s \in Runs : run'[s].from \in Positions /\ run'[s].to \in Positions
    BY <2>1, <2>2, <2>3, PositionPublished DEF TypeOK
  <2>6. QED
    BY <1>5, <2>4, <2>5 DEF Fetch, TypeOK, Positions
<1>6. ASSUME NEW r \in Runs, FetchNotReady(r)
      PROVE  TypeOK'
  <2>1. CASE run[r].polls < MAX_POLLS
    <3>1. run' = [run EXCEPT ![r].polls = run[r].polls + 1]
      BY <1>6, <2>1 DEF FetchNotReady
    <3>2. run' \in [Runs -> RunState]
      <4>1. run \in [Runs -> RunState] /\ run[r].polls + 1 \in Nat
        BY DEF TypeOK, RunState
      <4>2. QED
        BY <3>1, <4>1 DEF RunState
    <3>3. \A s \in Runs : run'[s].from = run[s].from /\ run'[s].to = run[s].to
      BY <3>1 DEF TypeOK, RunState
    <3>4. QED
      BY <1>6, <3>2, <3>3 DEF FetchNotReady, TypeOK, Positions
  <2>2. CASE ~ (run[r].polls < MAX_POLLS)
    BY <1>6, <2>2, EndRunType DEF FetchNotReady, TypeOK, Positions
  <2>3. QED
    BY <2>1, <2>2
<1>7. ASSUME NEW r \in Runs, Degrade(r), UNCHANGED aggregator, faults' = faults + 1
      PROVE  TypeOK'
  BY <1>7, EndRunType DEF Degrade, TypeOK, Positions
<1>8. ASSUME NEW r \in Runs, FetchRestart(r)
      PROVE  TypeOK'
  <2>1. CASE run[r].restarts < MAX_PAGINATION_RESTARTS
    <3>1. run' = [run EXCEPT ![r].restarts = run[r].restarts + 1] /\ UNCHANGED store
      BY <1>8, <2>1 DEF FetchRestart
    <3>2. run' \in [Runs -> RunState]
      <4>1. run \in [Runs -> RunState] /\ run[r].restarts + 1 \in Nat
        BY DEF TypeOK, RunState
      <4>2. QED
        BY <3>1, <4>1 DEF RunState
    <3>3. \A s \in Runs : run'[s].from = run[s].from /\ run'[s].to = run[s].to
      BY <3>1 DEF TypeOK, RunState
    <3>4. QED
      BY <1>8, <3>1, <3>2, <3>3 DEF FetchRestart, TypeOK, Positions
  <2>2. CASE ~ (run[r].restarts < MAX_PAGINATION_RESTARTS)
    BY <1>7, <1>8, <2>2 DEF FetchRestart
  <2>3. QED
    BY <2>1, <2>2
<1>9. ASSUME NEW r \in Runs, Archive(r)
      PROVE  TypeOK'
  <2>1. run' \in [Runs -> RunState]
    BY <1>9 DEF Archive, TypeOK, RunState, Phases
  <2>2. \A s \in Runs : run'[s].from = run[s].from /\ run'[s].to = run[s].to
    BY <1>9 DEF Archive, TypeOK, RunState
  <2>3. archive' \subseteq Positions \X Positions
    BY <1>9 DEF Archive, TypeOK
  <2>4. QED
    BY <1>9, <2>1, <2>2, <2>3 DEF Archive, TypeOK, Positions
<1>10. ASSUME NEW r \in Runs, Derive(r)
      PROVE  TypeOK'
  <2>1. feed[run[r].from] \in Ledger /\ feed[run[r].to] \in Ledger
    BY DEF TypeOK, Positions
  <2>2. rows' \in Rows
    BY <1>10, <2>1, ApplyPageType DEF Derive, TypeOK
  <2>3. cursor' \in Positions \cup {NoCursor} /\ landed' \in BOOLEAN
    BY <1>10 DEF Derive, TypeOK, RunState
  <2>4. QED
    BY <1>10, <2>2, <2>3, AfterPageType DEF Derive, TypeOK, Positions
<1>11. ASSUME NEW r \in Runs, MeasureGrantedWindow(r)
      PROVE  TypeOK'
  <2>1. run' \in [Runs -> RunState]
    BY <1>11 DEF MeasureGrantedWindow, TypeOK, RunState, Phases
  <2>2. \A s \in Runs : run'[s].from = run[s].from /\ run'[s].to = run[s].to
    BY <1>11 DEF MeasureGrantedWindow, TypeOK, RunState
  <2>3. granted' \in 0 .. Len(feed)
    BY <1>11, PositionPublished DEF MeasureGrantedWindow, TypeOK, Positions
  <2>4. QED
    BY <1>11, <2>1, <2>2, <2>3 DEF MeasureGrantedWindow, TypeOK, Positions
<1>12. ASSUME NEW r \in Runs, RecordSuccess(r)
      PROVE  TypeOK'
  <2>1. lastSuccess' \in 0 .. Len(feed)
    BY <1>12, PositionPublished DEF RecordSuccess, TypeOK, Positions
  <2>2. QED
    BY <1>12, <2>1, EndRunType DEF RecordSuccess, TypeOK, Positions
<1>13. ASSUME NEW r \in Runs, Fail(r)
      PROVE  TypeOK'
  BY <1>7, <1>13 DEF Fail
<1>14. ASSUME NEW r \in Runs, Crash(r)
      PROVE  TypeOK'
  BY <1>14, EndRunType DEF Crash, TypeOK, Positions
<1>15. QED
  BY <1>1, <1>2, <1>3, <1>4, <1>5, <1>6, <1>8, <1>9, <1>10, <1>11, <1>12, <1>13, <1>14
     DEF Next, Progress

(***************************************************************************)
(* Every variable keeps its type, and every page in hand lies between      *)
(* ledgers the aggregator published.                                       *)
(***************************************************************************)
THEOREM TypeCorrect == Spec => []TypeOK
BY TypeInit, TypeStep, PTL DEF Spec

-----------------------------------------------------------------------------
(***************************************************************************)
(* What each kind of step does to the store and to the page in hand.       *)
(***************************************************************************)

\* Run r moves without touching a page, the table, the cursor or the archive.
Quiet(r) ==
  /\ UNCHANGED <<aggregator, archive, rows, cursor>>
  /\ \A s \in Runs \ {r} : run'[s] = run[s]
  /\ run'[r].phase \notin {"archive", "derive", "measure"}
  /\ run'[r].phase = "stamp" => /\ run[r].phase = "measure"
                                /\ run'[r].more = run[r].more
  /\ run'[r].historical => run[r].historical
  /\ \/ lastSuccess' = lastSuccess
     \/ /\ run[r].phase = "stamp" /\ run[r].historical /\ ~ run[r].more
        /\ lastSuccess' = Position

LEMMA EndRunEffect ==
  ASSUME TypeOK, NEW r \in Runs, EndRun(r)
  PROVE  /\ \A s \in Runs \ {r} : run'[s] = run[s]
         /\ run'[r].phase = "idle" /\ ~ run'[r].historical
BY DEF EndRun, TypeOK, IdleRun

LEMMA QuietSteps ==
  ASSUME TypeOK, NEW r \in Runs,
         \/ Start(r) \/ FetchNotReady(r) \/ FetchRestart(r) \/ MeasureGrantedWindow(r)
         \/ RecordSuccess(r) \/ Fail(r) \/ Crash(r)
  PROVE  Quiet(r)
<1> USE DEF aggregator, store
<1>0. run \in [Runs -> RunState] /\ run[r] \in RunState
  BY DEF TypeOK
<1>1. CASE Start(r)
  BY <1>0, <1>1 DEF Start, Quiet, RunState
<1>2. CASE FetchNotReady(r)
  <2>1. CASE run[r].polls < MAX_POLLS
    <3>1. run' = [run EXCEPT ![r].polls = run[r].polls + 1] /\ run[r].phase = "page"
      BY <1>2, <2>1 DEF FetchNotReady
    <3>2. run'[r].phase = "page" /\ run'[r].historical = run[r].historical
      BY <1>0, <3>1 DEF RunState
    <3>3. \A s \in Runs \ {r} : run'[s] = run[s]
      BY <1>0, <3>1
    <3>4. QED
      BY <1>2, <3>2, <3>3 DEF FetchNotReady, Quiet
  <2>2. CASE ~ (run[r].polls < MAX_POLLS)
    BY <1>2, <2>2, EndRunEffect DEF FetchNotReady, Quiet
  <2>3. QED
    BY <2>1, <2>2
<1>3. CASE FetchRestart(r)
  <2>1. CASE run[r].restarts < MAX_PAGINATION_RESTARTS
    <3>1. run' = [run EXCEPT ![r].restarts = run[r].restarts + 1] /\ run[r].phase = "page"
      BY <1>3, <2>1 DEF FetchRestart
    <3>2. run'[r].phase = "page" /\ run'[r].historical = run[r].historical
      BY <1>0, <3>1 DEF RunState
    <3>3. \A s \in Runs \ {r} : run'[s] = run[s]
      BY <1>0, <3>1
    <3>4. QED
      BY <1>3, <2>1, <3>2, <3>3 DEF FetchRestart, Quiet
  <2>2. CASE ~ (run[r].restarts < MAX_PAGINATION_RESTARTS)
    BY <1>3, <2>2, EndRunEffect DEF FetchRestart, Degrade, Quiet
  <2>3. QED
    BY <2>1, <2>2
<1>4. CASE MeasureGrantedWindow(r)
  BY <1>0, <1>4 DEF MeasureGrantedWindow, Quiet, RunState
<1>5. CASE RecordSuccess(r)
  BY <1>5, EndRunEffect DEF RecordSuccess, StoppedShort, Quiet
<1>6. CASE Fail(r)
  BY <1>6, EndRunEffect DEF Fail, Degrade, Quiet
<1>7. CASE Crash(r)
  BY <1>7, EndRunEffect DEF Crash, Quiet
<1>8. QED
  BY <1>1, <1>2, <1>3, <1>4, <1>5, <1>6, <1>7

LEMMA FetchEffect ==
  ASSUME TypeOK, NEW r \in Runs, Fetch(r)
  PROVE  /\ UNCHANGED <<aggregator, archive, rows, cursor, lastSuccess>>
         /\ \A s \in Runs \ {r} : run'[s] = run[s]
         /\ run'[r].phase = "archive"
         /\ run'[r].from = Position
         /\ run'[r].to \in Position .. Len(feed)
         /\ ~ run'[r].more => run'[r].to = Len(feed)
         /\ run'[r].historical => run[r].historical \/ backfill = "historical"
<1>1. PICK to \in Position .. Len(feed) : run' = [run EXCEPT ![r] = PageFetched(run[r], to)]
  BY DEF Fetch
<1>2. to \in Positions /\ run[r] \in RunState /\ to <= Len(feed) /\ Len(feed) \in Nat /\ to \in Nat
  BY <1>1, PositionPublished DEF Positions, TypeOK
<1>3. run'[r] = PageFetched(run[r], to) /\ \A s \in Runs \ {r} : run'[s] = run[s]
  BY <1>1 DEF TypeOK
<1>4. /\ run'[r].phase = "archive" /\ run'[r].from = Position /\ run'[r].to = to
      /\ run'[r].more <=> to < Len(feed)
      /\ run'[r].historical <=> run[r].historical \/ backfill = "historical"
  BY <1>2, <1>3, FetchedRun
<1>5. ~ run'[r].more => run'[r].to = Len(feed)
  BY <1>2, <1>4
<1>6. UNCHANGED <<aggregator, archive, rows, cursor, lastSuccess>>
  BY DEF Fetch, store, aggregator
<1>7. QED
  BY <1>1, <1>3, <1>4, <1>5, <1>6

LEMMA ArchiveEffect ==
  ASSUME TypeOK, NEW r \in Runs, Archive(r)
  PROVE  /\ UNCHANGED <<aggregator, rows, cursor, lastSuccess>>
         /\ archive' = archive \cup {<<run[r].from, run[r].to>>}
         /\ \A s \in Runs \ {r} : run'[s] = run[s]
         /\ run[r].phase = "archive" /\ run'[r].phase = "derive"
         /\ run'[r].from = run[r].from /\ run'[r].to = run[r].to
         /\ run'[r].more = run[r].more /\ run'[r].historical = run[r].historical
BY DEF Archive, TypeOK, RunState, aggregator

LEMMA DeriveEffect ==
  ASSUME TypeOK, NEW r \in Runs, Derive(r)
  PROVE  /\ UNCHANGED <<aggregator, archive, lastSuccess>>
         /\ rows' = ApplyPage(rows, Change(feed[run[r].from], feed[run[r].to]))
         /\ Position' = IF run[r].to = 1 THEN Position ELSE run[r].to
         /\ \A s \in Runs \ {r} : run'[s] = run[s]
         /\ run[r].phase = "derive" /\ run'[r].phase \in {"page", "measure", "stamp"}
         /\ run'[r].from = run[r].from /\ run'[r].to = run[r].to
         /\ run'[r].more = run[r].more /\ run'[r].historical = run[r].historical
<1>1. PICK turn \in {"page", "measure", "stamp"} :
        run' = [run EXCEPT ![r] = [run[r] EXCEPT !.phase = turn, !.pages = run[r].pages + 1]]
  BY DEF Derive, AfterPage
<1>2. run \in [Runs -> RunState] /\ run[r] \in RunState /\ run[r].to \in Positions
  BY DEF TypeOK
<1>3. Position' = IF run[r].to = 1 THEN Position ELSE run[r].to
  BY <1>2, PositionPublished, NoCursorAssumption DEF Derive, Position
<1>4. /\ run'[r].phase = turn
      /\ run'[r].from = run[r].from /\ run'[r].to = run[r].to
      /\ run'[r].more = run[r].more /\ run'[r].historical = run[r].historical
      /\ \A s \in Runs \ {r} : run'[s] = run[s]
  BY <1>1, <1>2 DEF RunState
<1>5. QED
  BY <1>1, <1>3, <1>4 DEF Derive, aggregator

\* Every step is one of these.
LEMMA StepKinds ==
  ASSUME TypeOK, Next
  PROVE  \/ Publish
         \/ Materialize
         \/ \E r \in Runs : Fetch(r) \/ Archive(r) \/ Derive(r) \/ Quiet(r)
BY QuietSteps DEF Next, Progress

-----------------------------------------------------------------------------
(***************************************************************************)
(* The archive covers the cursor, whatever runs interleave.  A page may be *)
(* applied long after it was fetched, by when the cursor may stand before  *)
(* its start; so the invariant says that everything up to the start of a   *)
(* page in hand is archived too, and the page itself before it is derived. *)
(***************************************************************************)
Covered(k) == \A n \in 2 .. k : \E a \in archive : a[1] < n /\ n <= a[2]

ArchiveAhead ==
  \A r \in Runs :
    /\ run[r].phase \in {"archive", "derive"} => Covered(run[r].from)
    /\ run[r].phase = "derive" => <<run[r].from, run[r].to>> \in archive

ArchiveInv == TypeOK /\ Covered(Position) /\ ArchiveAhead

LEMMA ArchiveInvInit == Init => ArchiveInv
<1> SUFFICES ASSUME Init PROVE ArchiveInv
  OBVIOUS
<1>1. Position = 1 /\ \A r \in Runs : run[r].phase = "idle"
  BY DEF Init, Position, IdleRun
<1>2. Covered(Position) /\ ArchiveAhead
  BY <1>1 DEF Covered, ArchiveAhead
<1>3. QED
  BY <1>2, TypeInit DEF ArchiveInv

LEMMA ArchiveInvStep == ArchiveInv /\ [Next]_vars => ArchiveInv'
<1> SUFFICES ASSUME ArchiveInv, [Next]_vars PROVE ArchiveInv'
  OBVIOUS
<1>1. TypeOK /\ TypeOK'
  BY TypeStep DEF ArchiveInv
<1>2. CASE UNCHANGED vars
  BY <1>1, <1>2 DEF vars, store, aggregator, ArchiveInv, Covered, ArchiveAhead, Position
<1>3. CASE Publish \/ Materialize
  <2>1. UNCHANGED <<archive, cursor, run>>
    BY <1>3 DEF Publish, Materialize, store
  <2>2. QED
    BY <1>1, <2>1 DEF ArchiveInv, Covered, ArchiveAhead, Position
<1>4. ASSUME NEW r \in Runs, Quiet(r)
      PROVE  ArchiveInv'
  <2>1. UNCHANGED <<archive, cursor>>
    BY <1>4 DEF Quiet
  <2>2. Position' = Position
    BY <2>1 DEF Position
  <2>3. \A s \in Runs : run'[s].phase \in {"archive", "derive"} => run'[s] = run[s]
    BY <1>4 DEF Quiet
  <2>4. QED
    BY <1>1, <2>1, <2>2, <2>3 DEF ArchiveInv, Covered, ArchiveAhead
<1>5. ASSUME NEW r \in Runs, Fetch(r)
      PROVE  ArchiveInv'
  <2>1. UNCHANGED <<archive, cursor>>
    BY <1>1, <1>5, FetchEffect
  <2>2. Position' = Position
    BY <2>1 DEF Position
  <2>3. /\ \A s \in Runs \ {r} : run'[s] = run[s]
        /\ run'[r].phase = "archive" /\ run'[r].from = Position
    BY <1>1, <1>5, FetchEffect
  <2>4. QED
    BY <1>1, <2>1, <2>2, <2>3 DEF ArchiveInv, Covered, ArchiveAhead
<1>6. ASSUME NEW r \in Runs, Archive(r)
      PROVE  ArchiveInv'
  <2>1. /\ UNCHANGED cursor
        /\ archive' = archive \cup {<<run[r].from, run[r].to>>}
        /\ \A s \in Runs \ {r} : run'[s] = run[s]
        /\ run[r].phase = "archive" /\ run'[r].phase = "derive"
        /\ run'[r].from = run[r].from /\ run'[r].to = run[r].to
    BY <1>1, <1>6, ArchiveEffect
  <2>2. Position' = Position
    BY <2>1 DEF Position
  <2>3. \A k : Covered(k) => Covered(k)'
    BY <2>1 DEF Covered
  <2>4. Covered(Position)' /\ ArchiveAhead'
    BY <2>1, <2>2, <2>3 DEF ArchiveInv, ArchiveAhead, Covered
  <2>5. QED
    BY <1>1, <2>4 DEF ArchiveInv
<1>7. ASSUME NEW r \in Runs, Derive(r)
      PROVE  ArchiveInv'
  <2>1. /\ UNCHANGED archive
        /\ Position' = IF run[r].to = 1 THEN Position ELSE run[r].to
        /\ \A s \in Runs \ {r} : run'[s] = run[s]
        /\ run[r].phase = "derive" /\ run'[r].phase \in {"page", "measure", "stamp"}
    BY <1>1, <1>7, DeriveEffect
  <2>2. Covered(run[r].from) /\ <<run[r].from, run[r].to>> \in archive
    BY <2>1 DEF ArchiveInv, ArchiveAhead
  <2>3. run[r].from \in Nat /\ run[r].to \in Nat
    BY <1>1, PositionPublished DEF TypeOK
  <2>4. Covered(run[r].to)
    <3> SUFFICES ASSUME NEW n \in 2 .. run[r].to
                 PROVE  \E a \in archive : a[1] < n /\ n <= a[2]
      BY DEF Covered
    <3>1. CASE n <= run[r].from
      BY <2>2, <2>3, <3>1 DEF Covered
    <3>2. CASE n > run[r].from
      BY <2>2, <2>3, <3>2
    <3>3. QED
      BY <2>3, <3>1, <3>2
  <2>5. Covered(Position)'
    BY <2>1, <2>4 DEF ArchiveInv, Covered
  <2>6. ArchiveAhead'
    BY <2>1 DEF ArchiveInv, ArchiveAhead, Covered
  <2>7. QED
    BY <1>1, <2>5, <2>6 DEF ArchiveInv
<1>8. QED
  BY <1>1, <1>2, <1>3, <1>4, <1>5, <1>6, <1>7, StepKinds

(***************************************************************************)
(* Whatever the runs do to each other, no cursor is ever stored that the   *)
(* archived bodies do not account for.                                     *)
(***************************************************************************)
THEOREM ArchiveAlwaysCoversCursor == Spec => []ArchiveCoversCursor
<1>1. ArchiveInv => ArchiveCoversCursor
  BY DEF ArchiveInv, Covered, ArchiveCoversCursor
<1>2. QED
  BY <1>1, ArchiveInvInit, ArchiveInvStep, PTL DEF Spec

-----------------------------------------------------------------------------
(***************************************************************************)
(* The rows keep their identity, whatever runs interleave and however      *)
(* stale or repeated the pages are: only Derive writes the table, and      *)
(* applying any page between any two ledgers preserves these.              *)
(***************************************************************************)
RowsInv == TypeOK /\ SettledHoldIsGone /\ OriginsOwn(rows)

\* Only Derive changes the table.
LEMMA OnlyDeriveWrites ==
  ASSUME TypeOK, [Next]_vars
  PROVE  \/ UNCHANGED rows
         \/ \E old, new \in Ledger : rows' = ApplyPage(rows, Change(old, new))
<1>1. CASE UNCHANGED vars
  BY <1>1 DEF vars, store
<1>2. CASE Publish \/ Materialize
  BY <1>2 DEF Publish, Materialize, store
<1>3. ASSUME NEW r \in Runs, Fetch(r) \/ Archive(r) \/ Quiet(r)
      PROVE  UNCHANGED rows
  BY <1>3, FetchEffect, ArchiveEffect DEF Quiet
<1>4. ASSUME NEW r \in Runs, Derive(r)
      PROVE  \E old, new \in Ledger : rows' = ApplyPage(rows, Change(old, new))
  <2>1. feed[run[r].from] \in Ledger /\ feed[run[r].to] \in Ledger
    BY DEF TypeOK, Positions
  <2>2. QED
    BY <1>4, <2>1, DeriveEffect
<1>5. QED
  BY <1>1, <1>2, <1>3, <1>4, StepKinds

LEMMA RowsInvInit == Init => RowsInv
<1> SUFFICES ASSUME Init PROVE RowsInv
  OBVIOUS
<1>1. Held(rows) = {}
  BY DEF Init, NoRows, Held
<1>2. SettledHoldIsGone /\ OriginsOwn(rows)
  BY <1>1 DEF SettledHoldIsGone, SettledOnce, OriginsOwn
<1>3. QED
  BY <1>2, TypeInit DEF RowsInv

LEMMA RowsInvStep == RowsInv /\ [Next]_vars => RowsInv'
<1> SUFFICES ASSUME RowsInv, [Next]_vars PROVE RowsInv'
  OBVIOUS
<1>1. TypeOK /\ TypeOK' /\ rows \in Rows
  BY TypeStep DEF RowsInv, TypeOK
<1>2. CASE UNCHANGED rows
  BY <1>1, <1>2 DEF RowsInv, SettledHoldIsGone
<1>3. ASSUME NEW old \in Ledger, NEW new \in Ledger,
             rows' = ApplyPage(rows, Change(old, new))
      PROVE  RowsInv'
  <2>1. SettledOnce(ApplyPage(rows, Change(old, new)))
    BY <1>1, ApplyPageSettles DEF RowsInv, SettledHoldIsGone
  <2>2. OriginsOwn(ApplyPage(rows, Change(old, new)))
    BY <1>1, ApplyPageOriginsOwn DEF RowsInv
  <2>3. QED
    BY <1>1, <1>3, <2>1, <2>2 DEF RowsInv, SettledHoldIsGone
<1>4. QED
  BY <1>1, <1>2, <1>3, OnlyDeriveWrites

(***************************************************************************)
(* A hold is never counted beside the posting that settled it.             *)
(***************************************************************************)
THEOREM HoldNeverBesidePosting == Spec => []SettledHoldIsGone
<1>1. RowsInv => SettledHoldIsGone
  BY DEF RowsInv
<1>2. QED
  BY <1>1, RowsInvInit, RowsInvStep, PTL DEF Spec

(***************************************************************************)
(* No two rows share the identity one of them was inserted with.           *)
(***************************************************************************)
THEOREM RowIdentitiesDistinct == Spec => []OriginsDistinct
<1>1. RowsInv => OriginsDistinct
  <2> SUFFICES ASSUME RowsInv, NEW i \in Held(rows), NEW j \in Held(rows),
                      rows[i].origin = rows[j].origin
               PROVE  i = j
    BY DEF OriginsDistinct
  <2>1. rows \in Rows /\ SettledOnce(rows) /\ OriginsOwn(rows)
    BY DEF RowsInv, TypeOK, SettledHoldIsGone
  <2>2. QED
    BY <2>1, OwnOriginsAreDistinct
<1>2. QED
  BY <1>1, RowsInvInit, RowsInvStep, PTL DEF Spec

(***************************************************************************)
(* What a local row was known by, some row is known by ever after.         *)
(***************************************************************************)
THEOREM RowsKeepTheirIdentity == Spec => NoRowForgotten
<1>1. RowsInv /\ [Next]_vars =>
        [\A i \in Held(rows) : \E j \in Held(rows)' : rows'[j].origin = rows[i].origin]_vars
  <2> SUFFICES ASSUME RowsInv, [Next]_vars, NEW i \in Held(rows)
               PROVE  \E j \in Held(rows)' : rows'[j].origin = rows[i].origin
    OBVIOUS
  <2>1. TypeOK /\ rows \in Rows /\ SettledOnce(rows)
    BY DEF RowsInv, TypeOK, SettledHoldIsGone
  <2>2. CASE UNCHANGED rows
    BY <2>2
  <2>3. ASSUME NEW old \in Ledger, NEW new \in Ledger,
               rows' = ApplyPage(rows, Change(old, new))
        PROVE  \E j \in Held(rows)' : rows'[j].origin = rows[i].origin
    BY <2>1, <2>3, ApplyPageKeepsOrigins
  <2>4. QED
    BY <2>1, <2>2, <2>3, OnlyDeriveWrites
<1>2. QED
  BY <1>1, RowsInvInit, RowsInvStep, PTL DEF Spec, NoRowForgotten

-----------------------------------------------------------------------------
(***************************************************************************)
(* One run at a time.  The page in hand then starts where the cursor       *)
(* stands until it is applied.                                             *)
(***************************************************************************)
PageInHand ==
  \A r \in Runs : run[r].phase \in {"archive", "derive"} =>
     run[r].from = Position /\ run[r].to \in Position .. Len(feed)

LEMMA PageInHandStep ==
  ASSUME OneRunAtATime, TypeOK, PageInHand, [Next]_vars
  PROVE  PageInHand'
<1>1. CASE UNCHANGED vars
  BY <1>1 DEF vars, store, aggregator, PageInHand, Position
<1>2. CASE Publish
  <2>1. UNCHANGED <<cursor, run>> /\ Len(feed') = Len(feed) + 1 /\ Len(feed) \in Nat
    BY <1>2, PublishAppends DEF Publish, store, TypeOK
  <2>2. QED
    BY <2>1, PositionPublished DEF PageInHand, Position
<1>3. CASE Materialize
  BY <1>3 DEF Materialize, store, PageInHand, Position
<1>4. ASSUME NEW r \in Runs, Quiet(r)
      PROVE  PageInHand'
  <2>1. UNCHANGED <<feed, cursor>> /\ \A s \in Runs : s = r
    BY <1>4 DEF Quiet, aggregator, OneRunAtATime
  <2>2. QED
    BY <1>4, <2>1 DEF Quiet, PageInHand
<1>5. ASSUME NEW r \in Runs, Fetch(r)
      PROVE  PageInHand'
  <2>1. UNCHANGED <<feed, cursor>> /\ \A s \in Runs : s = r
    BY <1>5, FetchEffect DEF aggregator, OneRunAtATime
  <2>2. Position' = Position
    BY <2>1 DEF Position
  <2>3. run'[r].from = Position /\ run'[r].to \in Position .. Len(feed)
    BY <1>5, FetchEffect
  <2>4. QED
    BY <2>1, <2>2, <2>3 DEF PageInHand
<1>6. ASSUME NEW r \in Runs, Archive(r)
      PROVE  PageInHand'
  <2>1. UNCHANGED <<feed, cursor>> /\ \A s \in Runs : s = r
    BY <1>6, ArchiveEffect DEF aggregator, OneRunAtATime
  <2>2. Position' = Position
    BY <2>1 DEF Position
  <2>3. QED
    BY <1>6, <2>1, <2>2, ArchiveEffect DEF PageInHand
<1>7. ASSUME NEW r \in Runs, Derive(r)
      PROVE  PageInHand'
  <2>1. \A s \in Runs : s = r
    BY DEF OneRunAtATime
  <2>2. QED
    BY <1>7, <2>1, DeriveEffect DEF PageInHand
<1>8. QED
  BY <1>1, <1>2, <1>3, <1>4, <1>5, <1>6, <1>7, StepKinds

(***************************************************************************)
(* What the feed owes for a posting to be able to replace its hold: once   *)
(* reported, a posting is reported as long as its hold is.                 *)
(***************************************************************************)
PostingsOutlast ==
  \A j \in Positions : \A k \in 1 .. j : \A p \in Live(feed[k]) :
     PendingOf[p] \in Live(feed[j]) => p \in Live(feed[j])

LEMMA PostingsOutlastStep ==
  ASSUME TypeOK, PostingsOutlast, [Next]_vars
  PROVE  PostingsOutlast'
<1>1. CASE UNCHANGED feed
  BY <1>1 DEF PostingsOutlast, Positions
<1>2. CASE Publish
  <2>1. PICK new \in Ledger :
           /\ LegalNext(feed[Len(feed)], new)
           /\ feed' \in Seq(Ledger)
           /\ Len(feed') = Len(feed) + 1
           /\ feed'[Len(feed) + 1] = new
           /\ \A k \in Positions : feed'[k] = feed[k]
    BY <1>2, PublishAppends
  <2> DEFINE n == Len(feed)
             old == feed[n]
  <2>2. n \in Nat /\ n >= 1 /\ n \in Positions
    BY DEF TypeOK, Positions
  <2>3. ASSUME NEW j \in Positions', NEW k \in 1 .. j, NEW p \in Live(feed'[k]),
               PendingOf[p] \in Live(feed'[j])
        PROVE  p \in Live(feed'[j])
    <3>1. CASE j <= n
      <4>1. j \in Positions /\ k \in Positions
        BY <2>2, <3>1 DEF Positions
      <4>2. QED
        BY <2>1, <2>3, <4>1 DEF PostingsOutlast
    <3>2. CASE j = n + 1 /\ k = n + 1
      BY <3>2
    <3>3. CASE j = n + 1 /\ k <= n
      <4>1. k \in Positions /\ k \in 1 .. n /\ p \in Live(feed[k]) /\ p \in Ids
        BY <2>1, <2>2, <3>3 DEF Positions, Live
      <4>2. PendingOf[p] \in Live(new) /\ PendingOf[p] \in Ids
        BY <2>1, <2>3, <3>3 DEF Live
      <4>3. Settled(PendingOf[p])
        BY <4>1 DEF Settled, EverLive
      <4>4. PendingOf[p] \in Live(old)
        BY <2>1, <4>2, <4>3 DEF LegalNext
      <4>5. p \in Live(old)
        BY <2>2, <4>1, <4>4 DEF PostingsOutlast
      <4>6. p \in Live(new)
        BY <2>1, <4>2, <4>5 DEF LegalNext
      <4>7. QED
        BY <2>1, <3>3, <4>6
    <3>4. QED
      BY <2>1, <2>2, <3>1, <3>2, <3>3 DEF Positions
  <2>4. QED
    BY <2>3 DEF PostingsOutlast
<1>3. Next => Publish \/ UNCHANGED feed
  BY StepKinds, FetchEffect, ArchiveEffect, DeriveEffect DEF Quiet, aggregator, Materialize
<1>4. QED
  BY <1>1, <1>2, <1>3 DEF vars, aggregator

-----------------------------------------------------------------------------
(***************************************************************************)
(* The table mirrors the ledger at the cursor.  Replacing a hold needs its *)
(* posting to outlast it, for every row the table has ever taken in; hence *)
(* RowsReported, that each row was reported at or before the cursor.       *)
(***************************************************************************)
RowsReported ==
  \A p \in Held(rows) :
    p \notin Unwritable /\ \E k \in 1 .. Position : p \in Live(feed[k])

MirrorInv ==
  /\ TypeOK
  /\ PageInHand
  /\ PostingsOutlast
  /\ RowsReported
  /\ SettledHoldIsGone
  /\ StoreMirrorsCursor

LEMMA MirrorInvInit == Init => MirrorInv
<1> SUFFICES ASSUME Init PROVE MirrorInv
  OBVIOUS
<1>1. /\ Position = 1 /\ \A r \in Runs : run[r].phase = "idle"
      /\ feed[1] = EmptyLedger /\ Len(feed) = 1 /\ Held(rows) = {}
  BY DEF Init, Position, IdleRun, NoRows, Held
<1>2. Live(EmptyLedger) = {}
  BY DEF Live, EmptyLedger
<1>3. Shown(rows) = {} /\ Countable(EmptyLedger) = {}
  BY <1>1, <1>2 DEF Shown, Countable
<1>4. StoreMirrorsCursor
  BY <1>1, <1>3 DEF StoreMirrorsCursor, Mirrors
<1>5. PageInHand /\ RowsReported /\ SettledHoldIsGone
  BY <1>1 DEF PageInHand, RowsReported, SettledHoldIsGone, SettledOnce
<1>6. PostingsOutlast
  BY <1>1, <1>2 DEF PostingsOutlast, Positions
<1>7. QED
  BY <1>4, <1>5, <1>6, TypeInit DEF MirrorInv

\* The page that is applied: what it leads to, and what the table then shows.
LEMMA DeriveMirrors ==
  ASSUME MirrorInv, NEW r \in Runs, Derive(r)
  PROVE  /\ UNCHANGED feed
         /\ Position' \in Position .. Len(feed)
         /\ RowsReported'
         /\ StoreMirrorsCursor'
<1>1. TypeOK /\ rows \in Rows
  BY DEF MirrorInv, TypeOK
<1>2. /\ UNCHANGED feed
      /\ rows' = ApplyPage(rows, Change(feed[run[r].from], feed[run[r].to]))
      /\ Position' = IF run[r].to = 1 THEN Position ELSE run[r].to
      /\ run[r].phase = "derive"
  BY <1>1, DeriveEffect DEF aggregator
<1>3. /\ run[r].from = Position /\ run[r].to \in Position .. Len(feed)
      /\ Position \in Nat /\ Position >= 1 /\ run[r].to \in Positions
  BY <1>1, <1>2, PositionPublished DEF MirrorInv, PageInHand, TypeOK
<1>4. Position' = run[r].to
  BY <1>2, <1>3
<1> DEFINE old == feed[Position]
           new == feed[run[r].to]
<1>5. old \in Ledger /\ new \in Ledger
  BY <1>1, PositionPublished, <1>3 DEF TypeOK, Positions
<1>6. rows' = ApplyPage(rows, Change(old, new))
  BY <1>2, <1>3
<1>7. ASSUME NEW p \in Held(rows), PendingOf[p] \in Live(new)
      PROVE  p \in Live(new)
  <2>1. PICK k \in 1 .. Position : p \in Live(feed[k])
    BY DEF MirrorInv, RowsReported
  <2>2. k \in 1 .. run[r].to
    BY <1>3
  <2>3. QED
    BY <1>3, <1>7, <2>1, <2>2 DEF MirrorInv, PostingsOutlast
<1>8. Mirrors(rows, old) /\ SettledOnce(rows) /\ Held(rows) \cap Unwritable = {}
  BY DEF MirrorInv, StoreMirrorsCursor, SettledHoldIsGone, RowsReported
<1>9. Mirrors(rows', new)
  BY <1>1, <1>5, <1>6, <1>7, <1>8, ApplyPageMirrors
<1>10. StoreMirrorsCursor'
  BY <1>2, <1>4, <1>9 DEF StoreMirrorsCursor
<1>11. ASSUME NEW p \in Held(rows')
       PROVE  p \notin Unwritable /\ \E k \in 1 .. run[r].to : p \in Live(feed[k])
  <2>1. p \in Held(rows) \cup (Live(new) \ Unwritable)
    BY <1>1, <1>5, <1>6, <1>11, ApplyPageHolds
  <2>2. CASE p \in Held(rows)
    BY <1>3, <2>2 DEF MirrorInv, RowsReported
  <2>3. CASE p \in Live(new) \ Unwritable
    BY <1>3, <2>3 DEF Positions
  <2>4. QED
    BY <2>1, <2>2, <2>3
<1>12. RowsReported'
  BY <1>2, <1>4, <1>11 DEF RowsReported
<1>13. QED
  BY <1>2, <1>3, <1>4, <1>10, <1>12

LEMMA MirrorInvStep ==
  ASSUME OneRunAtATime, MirrorInv, [Next]_vars
  PROVE  MirrorInv'
<1>1. TypeOK /\ TypeOK' /\ PageInHand' /\ PostingsOutlast' /\ SettledHoldIsGone'
  <2>1. TypeOK /\ TypeOK' /\ PageInHand' /\ PostingsOutlast'
    BY TypeStep, PageInHandStep, PostingsOutlastStep DEF MirrorInv
  <2>2. rows \in Rows /\ SettledOnce(rows)
    BY DEF MirrorInv, TypeOK, SettledHoldIsGone
  <2>3. SettledHoldIsGone'
    BY <2>1, <2>2, OnlyDeriveWrites, ApplyPageSettles DEF SettledHoldIsGone
  <2>4. QED
    BY <2>1, <2>3
<1>2. CASE UNCHANGED <<feed, rows, cursor>>
  <2>1. Position' = Position
    BY <1>2 DEF Position
  <2>2. RowsReported' /\ StoreMirrorsCursor'
    BY <1>2, <2>1 DEF MirrorInv, RowsReported, StoreMirrorsCursor
  <2>3. QED
    BY <1>1, <2>2 DEF MirrorInv
<1>3. CASE Publish
  <2>1. /\ UNCHANGED <<rows, cursor>>
        /\ \A k \in Positions : feed'[k] = feed[k]
    BY <1>1, <1>3, PublishAppends DEF Publish, store
  <2>2. Position' = Position /\ Position \in Positions /\ 1 .. Position \subseteq Positions
    BY <1>1, <2>1, PositionPublished DEF Position, Positions
  <2>3. RowsReported' /\ StoreMirrorsCursor'
    BY <2>1, <2>2 DEF MirrorInv, RowsReported, StoreMirrorsCursor
  <2>4. QED
    BY <1>1, <2>3 DEF MirrorInv
<1>4. ASSUME NEW r \in Runs, Derive(r)
      PROVE  MirrorInv'
  BY <1>1, <1>4, DeriveMirrors DEF MirrorInv
<1>5. Next => Publish \/ (\E r \in Runs : Derive(r)) \/ UNCHANGED <<feed, rows, cursor>>
  BY <1>1, StepKinds, FetchEffect, ArchiveEffect DEF Quiet, aggregator, Materialize, store
<1>6. QED
  BY <1>2, <1>3, <1>4, <1>5 DEF vars, aggregator, store

(***************************************************************************)
(* With one run at a time, through any crashes, refusals, restarts and     *)
(* page ceilings, the table shows exactly what the aggregator reported at  *)
(* the stored cursor.                                                      *)
(***************************************************************************)
THEOREM StoreAlwaysMirrorsCursor ==
  ASSUME OneRunAtATime
  PROVE  Spec => []StoreMirrorsCursor
<1>1. MirrorInv => StoreMirrorsCursor
  BY DEF MirrorInv
<1>2. MirrorInv /\ [Next]_vars => MirrorInv'
  BY MirrorInvStep
<1>3. QED
  BY <1>1, <1>2, MirrorInvInit, PTL DEF Spec

(***************************************************************************)
(* One run at a time implements the mirror: a derived page is an Advance   *)
(* or changes nothing shown, a published ledger is an Issue, and no other  *)
(* step is visible.                                                        *)
(***************************************************************************)
LEMMA SameLedgers ==
  /\ Mirror!Ledger = Ledger
  /\ Mirror!EmptyLedger = EmptyLedger
  /\ \A ledger : Mirror!Countable(ledger) = Countable(ledger)
BY DEF Mirror!Ledger, Ledger, Mirror!EmptyLedger, EmptyLedger,
       Mirror!Countable, Countable, Mirror!Live, Live

LEMMA ShownIsProjection ==
  ASSUME NEW held, NEW ledger, Mirrors(held, ledger)
  PROVE  [i \in Shown(held) |-> held[i].content] = Mirror!Projection(ledger)
BY SameLedgers DEF Mirrors, Mirror!Projection

LEMMA MirrorInitMaps == Init => Mirror!MirrorInit
<1> SUFFICES ASSUME Init PROVE Mirror!MirrorInit
  OBVIOUS
<1>1. Mirrors(rows, feed[Position])
  BY MirrorInvInit DEF MirrorInv, StoreMirrorsCursor
<1>2. Position = 1 /\ feed = <<EmptyLedger>> /\ feed[Position] = EmptyLedger
  BY DEF Init, Position
<1>3. QED
  BY <1>1, <1>2, ShownIsProjection, SameLedgers DEF Mirror!MirrorInit

LEMMA MirrorStepMaps ==
  ASSUME MirrorInv, [Next]_vars, MirrorInv'
  PROVE  [Mirror!MirrorNext]_(Mirror!mirrorVars)
<1>1. TypeOK /\ Mirrors(rows, feed[Position]) /\ Mirrors(rows', feed'[Position'])
  BY DEF MirrorInv, StoreMirrorsCursor
<1>2. CASE UNCHANGED <<feed, rows, cursor>>
  BY <1>2 DEF Mirror!mirrorVars, Position, Shown, Held
<1>3. CASE Publish
  <2>1. PICK new \in Ledger : feed' = Append(feed, new)
    BY <1>1, <1>3, PublishAppends
  <2>2. UNCHANGED <<rows, cursor>>
    BY <1>3 DEF Publish, store
  <2>3. Mirror!Issue
    BY <2>1, <2>2, SameLedgers DEF Mirror!Issue, Position, Shown, Held
  <2>4. QED
    BY <2>3 DEF Mirror!MirrorNext
<1>4. ASSUME NEW r \in Runs, Derive(r)
      PROVE  [Mirror!MirrorNext]_(Mirror!mirrorVars)
  <2>1. /\ UNCHANGED feed
        /\ Position' \in Position .. Len(feed) /\ Position \in Nat /\ Len(feed) \in Nat
    BY <1>1, <1>4, DeriveMirrors, PositionPublished DEF TypeOK
  <2>2. [i \in Shown(rows') |-> rows'[i].content] = Mirror!Projection(feed'[Position'])
    BY <1>1, ShownIsProjection
  <2>3. [i \in Shown(rows) |-> rows[i].content] = Mirror!Projection(feed[Position])
    BY <1>1, ShownIsProjection
  <2>4. CASE Position' = Position
    BY <2>1, <2>2, <2>3, <2>4 DEF Mirror!mirrorVars, Mirror!Projection
  <2>5. CASE Position' # Position
    <3>1. Position' \in Position + 1 .. Len(feed)
      BY <2>1, <2>5
    <3>2. Mirror!Advance
      BY <2>1, <2>2, <3>1 DEF Mirror!Advance, Mirror!Projection
    <3>3. QED
      BY <3>2 DEF Mirror!MirrorNext
  <2>6. QED
    BY <2>4, <2>5
<1>5. Next => Publish \/ (\E r \in Runs : Derive(r)) \/ UNCHANGED <<feed, rows, cursor>>
  BY <1>1, StepKinds, FetchEffect, ArchiveEffect DEF Quiet, aggregator, Materialize, store
<1>6. QED
  BY <1>2, <1>3, <1>4, <1>5 DEF vars, aggregator, store

\* With one run at a time every step of transaction sync is a step of LedgerMirror,
\* or leaves what it shows alone.
THEOREM SyncImplementsMirror ==
  ASSUME OneRunAtATime
  PROVE  Spec => ImplementsMirror
<1>1. MirrorInv /\ [Next]_vars => MirrorInv'
  BY MirrorInvStep
<1>2. MirrorInv /\ MirrorInv' /\ [Next]_vars => [Mirror!MirrorNext]_(Mirror!mirrorVars)
  BY MirrorStepMaps
<1>3. QED
  BY <1>1, <1>2, MirrorInvInit, MirrorInitMaps, PTL DEF Spec, ImplementsMirror, Mirror!MirrorSpec

-----------------------------------------------------------------------------
(***************************************************************************)
(* Freshness.  A run that ended its page loop with nothing more to fetch   *)
(* and has seen the complete status stands at or past the end of the       *)
(* backfill: the last page it fetched reached the end of a feed that       *)
(* already held all of it.                                                 *)
(***************************************************************************)
PastBackfill ==
  /\ backfill = "historical" <=> backfillEnd # 0
  /\ backfillEnd \in 0 .. Len(feed)
  /\ \A r \in Runs :
       /\ run[r].historical => backfill = "historical"
       /\ run[r].historical /\ ~ run[r].more =>
            /\ run[r].phase \in {"archive", "derive"} => run[r].to >= backfillEnd
            /\ run[r].phase \in {"measure", "stamp"} => Position >= backfillEnd

FreshInv == TypeOK /\ PageInHand /\ PastBackfill /\ FreshMeansHistoryIsIn

LEMMA FreshInvInit == Init => FreshInv
<1> SUFFICES ASSUME Init PROVE FreshInv
  OBVIOUS
<1>1. /\ \A r \in Runs : run[r].phase = "idle" /\ ~ run[r].historical
      /\ Len(feed) = 1 /\ backfill = "none" /\ backfillEnd = 0 /\ lastSuccess = 0
  BY DEF Init, IdleRun
<1>2. PageInHand /\ PastBackfill /\ FreshMeansHistoryIsIn
  BY <1>1 DEF PageInHand, PastBackfill, FreshMeansHistoryIsIn
<1>3. QED
  BY <1>2, TypeInit DEF FreshInv

LEMMA FreshInvStep ==
  ASSUME OneRunAtATime, FreshInv, [Next]_vars
  PROVE  FreshInv'
<1>1. TypeOK /\ TypeOK' /\ PageInHand /\ PageInHand' /\ PastBackfill /\ FreshMeansHistoryIsIn
  BY TypeStep, PageInHandStep DEF FreshInv
<1>2. /\ Len(feed) \in Nat /\ Len(feed) >= 1 /\ backfillEnd \in Nat /\ lastSuccess \in Nat
      /\ Position \in 1 .. Len(feed)
  BY <1>1, PositionPublished DEF TypeOK, Positions
<1>3. CASE UNCHANGED vars
  BY <1>1, <1>3
     DEF vars, store, aggregator, FreshInv, PastBackfill, FreshMeansHistoryIsIn, Position
<1>4. CASE Publish
  <2>1. UNCHANGED <<backfill, backfillEnd, cursor, lastSuccess, run>>
        /\ Len(feed') = Len(feed) + 1
    BY <1>1, <1>4, PublishAppends DEF Publish, store
  <2>2. PastBackfill' /\ FreshMeansHistoryIsIn'
    BY <1>1, <1>2, <2>1 DEF PastBackfill, FreshMeansHistoryIsIn, Position
  <2>3. QED
    BY <1>1, <2>2 DEF FreshInv
<1>5. CASE Materialize
  <2>1. /\ UNCHANGED <<feed, cursor, lastSuccess, run>>
        /\ backfill # "historical"
        /\ backfill' = "historical" => backfillEnd' = Len(feed)
        /\ backfill' # "historical" => backfillEnd' = backfillEnd
    BY <1>5 DEF Materialize, store
  <2>2. lastSuccess = 0 /\ \A r \in Runs : ~ run[r].historical
    BY <1>1, <2>1 DEF PastBackfill, FreshMeansHistoryIsIn
  <2>3. PastBackfill' /\ FreshMeansHistoryIsIn'
    BY <1>1, <1>2, <2>1, <2>2 DEF PastBackfill, FreshMeansHistoryIsIn
  <2>4. QED
    BY <1>1, <2>3 DEF FreshInv
<1>6. ASSUME NEW r \in Runs, Quiet(r)
      PROVE  FreshInv'
  <2>1. UNCHANGED <<feed, backfill, backfillEnd, cursor>> /\ \A s \in Runs : s = r
    BY <1>6 DEF Quiet, aggregator, OneRunAtATime
  <2>2. Position' = Position
    BY <2>1 DEF Position
  <2>3. PastBackfill'
    BY <1>1, <1>6, <2>1, <2>2 DEF Quiet, PastBackfill
  <2>4. FreshMeansHistoryIsIn'
    <3>1. CASE lastSuccess' = lastSuccess
      BY <1>1, <2>1, <3>1 DEF FreshMeansHistoryIsIn
    <3>2. CASE lastSuccess' # lastSuccess
      <4>1. /\ run[r].phase = "stamp" /\ run[r].historical /\ ~ run[r].more
            /\ lastSuccess' = Position
        BY <1>6, <3>2 DEF Quiet
      <4>2. backfillEnd # 0 /\ Position >= backfillEnd
        BY <1>1, <4>1 DEF PastBackfill
      <4>3. QED
        BY <2>1, <4>1, <4>2 DEF FreshMeansHistoryIsIn
    <3>3. QED
      BY <3>1, <3>2
  <2>5. QED
    BY <1>1, <2>3, <2>4 DEF FreshInv
<1>7. ASSUME NEW r \in Runs, Fetch(r)
      PROVE  FreshInv'
  <2>1. /\ UNCHANGED <<feed, backfill, backfillEnd, cursor, lastSuccess>>
        /\ \A s \in Runs : s = r
        /\ run'[r].phase = "archive"
        /\ ~ run'[r].more => run'[r].to = Len(feed)
        /\ run'[r].historical => run[r].historical \/ backfill = "historical"
    BY <1>1, <1>7, FetchEffect DEF aggregator, OneRunAtATime
  <2>2. PastBackfill' /\ FreshMeansHistoryIsIn'
    BY <1>1, <1>2, <2>1 DEF PastBackfill, FreshMeansHistoryIsIn
  <2>3. QED
    BY <1>1, <2>2 DEF FreshInv
<1>8. ASSUME NEW r \in Runs, Archive(r)
      PROVE  FreshInv'
  <2>1. /\ UNCHANGED <<feed, backfill, backfillEnd, cursor, lastSuccess>>
        /\ \A s \in Runs : s = r
        /\ run[r].phase = "archive" /\ run'[r].phase = "derive"
        /\ run'[r].to = run[r].to
        /\ run'[r].more = run[r].more /\ run'[r].historical = run[r].historical
    BY <1>1, <1>8, ArchiveEffect DEF aggregator, OneRunAtATime
  <2>2. PastBackfill' /\ FreshMeansHistoryIsIn'
    BY <1>1, <2>1 DEF PastBackfill, FreshMeansHistoryIsIn
  <2>3. QED
    BY <1>1, <2>2 DEF FreshInv
<1>9. ASSUME NEW r \in Runs, Derive(r)
      PROVE  FreshInv'
  <2>1. /\ UNCHANGED <<feed, backfill, backfillEnd, lastSuccess>>
        /\ Position' = IF run[r].to = 1 THEN Position ELSE run[r].to
        /\ \A s \in Runs : s = r
        /\ run[r].phase = "derive" /\ run'[r].phase \in {"page", "measure", "stamp"}
        /\ run'[r].more = run[r].more /\ run'[r].historical = run[r].historical
    BY <1>1, <1>9, DeriveEffect DEF aggregator, OneRunAtATime
  <2>2. Position' = run[r].to
    BY <1>1, <1>2, <2>1 DEF PageInHand
  <2>3. PastBackfill' /\ FreshMeansHistoryIsIn'
    BY <1>1, <2>1, <2>2 DEF PastBackfill, FreshMeansHistoryIsIn
  <2>4. QED
    BY <1>1, <2>3 DEF FreshInv
<1>10. QED
  BY <1>1, <1>3, <1>4, <1>5, <1>6, <1>7, <1>8, <1>9, StepKinds

(***************************************************************************)
(* With one run at a time, a connection is stamped fresh only over a store *)
(* that holds the whole backfill, whatever pages the run stopped at.       *)
(***************************************************************************)
THEOREM FreshOnlyWithHistory ==
  ASSUME OneRunAtATime
  PROVE  Spec => []FreshMeansHistoryIsIn
<1>1. FreshInv => FreshMeansHistoryIsIn
  BY DEF FreshInv
<1>2. FreshInv /\ [Next]_vars => FreshInv'
  BY FreshInvStep
<1>3. QED
  BY <1>1, <1>2, FreshInvInit, PTL DEF Spec
=============================================================================
