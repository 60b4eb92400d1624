----------------------------- MODULE LedgerMirror -----------------------------
(***************************************************************************)
(* What transaction sync promises, without pages, runs or cursors: the     *)
(* store shows one of the ledgers the aggregator has published, and moves  *)
(* only forward through them, content and position in one step.            *)
(***************************************************************************)
EXTENDS LedgerRows, Sequences

VARIABLES
  published,  \* the ledgers the aggregator has published
  position,   \* which of them the store has reached
  shown       \* the transactions the store shows, with their contents

mirrorVars == <<published, position, shown>>

\* The part of a ledger that is shown: a function on the countable ids.
Projection(ledger) == [i \in Countable(ledger) |-> ledger[i]]

MirrorInit ==
  /\ published = <<EmptyLedger>>
  /\ position = 1
  /\ shown = Projection(EmptyLedger)

\* The aggregator's side: any further ledger.
Issue ==
  /\ \E new \in Ledger : published' = Append(published, new)
  /\ UNCHANGED <<position, shown>>

\* The store moves to a later ledger, content and position in one step.
Advance ==
  /\ \E k \in position + 1 .. Len(published) :
       /\ position' = k
       /\ shown' = Projection(published[k])
  /\ UNCHANGED published

MirrorNext == Issue \/ Advance

MirrorSpec == MirrorInit /\ [][MirrorNext]_mirrorVars
=============================================================================
