---------------------------- MODULE TransferPairs ----------------------------
(***************************************************************************)
(* Pairing the two legs of one internal transfer (store/transfers.py).  A  *)
(* leg is [id, account, day, amount, currency]; the caller decides which   *)
(* rows are candidates.  Pairing is greedy, in (ledger day, row id) order, *)
(* each leg taking the nearest day and then the lowest id.                 *)
(***************************************************************************)
EXTENDS Integers, Sequences, FiniteSets, SequencesExt, FiniteSetsExt, Folds, TLC

CONSTANT TRANSFER_WINDOW_DAYS

ASSUME WindowDaysAssumption == TRANSFER_WINDOW_DAYS \in Nat

Distance(a, b) == IF a.day <= b.day THEN b.day - a.day ELSE a.day - b.day

LegBefore(a, b) == a.day < b.day \/ (a.day = b.day /\ a.id < b.id)

\* _matches.
Matches(left, right) ==
    /\ left.account # right.account /\ left.currency = right.currency
    /\ left.amount = -right.amount /\ left.amount # 0
    /\ Distance(left, right) <= TRANSFER_WINDOW_DAYS

\* Whether right is the better partner for left than other is.
Nearer(left, right, other) ==
    \/ Distance(left, right) < Distance(left, other)
    \/ Distance(left, right) = Distance(left, other) /\ right.id < other.id

Taken(pairs) == UNION pairs

\* Faulty variant of Partners: a leg already taken is offered again.
PartnersTaken(left, legs, pairs) == {right \in legs : LegBefore(left, right) /\ Matches(left, right)}

\* The later legs left may still be paired with.
Partners(left, legs, pairs) ==
    {right \in legs : LegBefore(left, right) /\ Matches(left, right)
                      /\ right.id \notin Taken(pairs)}

\* One step of the outer loop: left takes its nearest free partner.
PairOne(left, legs, pairs) ==
    LET free == Partners(left, legs, pairs) IN
    IF left.id \in Taken(pairs) \/ free = {} THEN pairs
    ELSE LET best == CHOOSE r \in free : \A o \in free \ {r} : Nearer(left, r, o)
         IN pairs \cup {{left.id, best.id}}

\* The leg read after all others.
LastLeg(legs) == CHOOSE leg \in legs : \A o \in legs \ {leg} : LegBefore(o, leg)

\* pair_transfers: the pairs, as sets of two row ids, after a pass over the
\* legs in the order they are read in.
PairTransfers(legs) ==
    MapThenFoldSet(LAMBDA left, pairs : PairOne(left, legs, pairs), {},
                   LAMBDA leg : leg, LastLeg, legs)

\* transfer_pair_id of a row: the lowest id of its pair, or 0.
PairId(id, pairs) ==
    IF id \in Taken(pairs) THEN Min(CHOOSE p \in pairs : id \in p) ELSE 0
==============================================================================
