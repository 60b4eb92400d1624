-------------------------- MODULE Enrollment_proofs --------------------------
(***************************************************************************)
(* Theorems about Enrollment for any Items, institutions, cap and number   *)
(* of commands.                                                            *)
(*                                                                         *)
(* The inductive invariant is IInv.  It says, beyond the types, what a     *)
(* command in hand is about (Shape), that the token of every Item a row    *)
(* names or a release works on is in the keychain until the Item is gone   *)
(* (RowsHeld, Held), and that an Item no row names is owed by a command    *)
(* that has not finished (Owed).  BInv, beside it, says that what a        *)
(* command is about to remove no live row names, unless it is contested;   *)
(* FreshInv, that a sync under way holds the Item its row names unless the *)
(* row was re-linked since.                                                *)
(***************************************************************************)
EXTENDS Enrollment, SequenceTheorems, FiniteSetTheorems, TLAPS

-----------------------------------------------------------------------------
(***************************************************************************)
(* The inductive invariant.                                                *)
(***************************************************************************)
Releasing == {"remove", "forget", "orphan"}

\* The Items that no row need name because p has still to deal with them.
Owes(p) ==
  IF \/ cmd[p].phase \in {"itemGet", "keep", "record"}
     \/ cmd[p].phase \in Releasing /\ cmd[p].why # "retired"
  THEN {Target(p)} ELSE {}

\* The token of i is stored until i is gone.
Kept(i) == far[i] = "removed" \/ (far[i] = "live" /\ i \in keychain)

ShapeOf(p) ==
  /\ cmd[p].phase \in {"link", "itemGet", "keep", "record"} => cmd[p].why = "none"
  /\ cmd[p].phase \in {"itemGet", "keep", "record"} => cmd[p].item \in Items
  /\ cmd[p].phase \in {"mark"} \cup Releasing =>
       cmd[p].why # "none" /\ Target(p) \in Items
  /\ cmd[p].phase = "mark" => cmd[p].why = "retired" /\ cmd[p].row \in RowIds
  /\ cmd[p].phase = "orphan" => cmd[p].why \in {"refused", "superseded"}

Shape == \A p \in Procs : ShapeOf(p)

HeldBy(p) ==
  /\ cmd[p].phase \in {"itemGet", "keep"} => far[cmd[p].item] # "none"
  /\ cmd[p].phase \in {"record", "mark"} => Kept(Target(p))
  /\ cmd[p].phase \in Releasing /\ cmd[p].why # "undo" => Kept(Target(p))
  /\ cmd[p].phase \in Releasing /\ cmd[p].why = "undo" =>
       Kept(Target(p)) \/ (far[Target(p)] = "live" /\ Target(p) \in unheld)
  /\ cmd[p].phase = "forget" => far[Target(p)] = "removed"

Held == \A p \in Procs : HeldBy(p)

RowsHeld == \A r \in RowIds : Kept(rows[r].item)

Accounted(i) ==
  \/ \E r \in RowIds : rows[r].item = i
  \/ \E p \in Procs : i \in Owes(p)
  \/ i \in told \cup lost \cup unheld

Owed == \A i \in Items : far[i] = "live" => Accounted(i)

SaidOf(p) ==
  SaysRemoved(p) =>
    Target(p) \in Items /\ (far[Target(p)] = "removed" \/ Target(p) \in unheld)

Said == \A p \in Procs : SaidOf(p)

IInv == TypeOK /\ Shape /\ Held /\ RowsHeld /\ Owed /\ Said

-----------------------------------------------------------------------------
(***************************************************************************)
(* What a step of p leaves alone.                                          *)
(***************************************************************************)
Steady(p) ==
  /\ \A i \in Items : far[i] = "removed" => far'[i] = "removed"
  /\ \A i \in Items : far[i] = "live" => far'[i] \in {"live", "removed"}
  /\ \A i \in Items : Kept(i) => Kept(i)'
  /\ told \subseteq told' /\ lost \subseteq lost' /\ unheld \subseteq unheld'
  /\ RowIds \subseteq RowIds'
  /\ \A q \in Procs \ {p} : cmd'[q] = cmd[q]

\* What is said of a command stays true while another one moves.
LEMMA OthersStay ==
  ASSUME NEW p, NEW q \in Procs \ {p}, IInv, Steady(p), TypeOK'
  PROVE  ShapeOf(q)' /\ HeldBy(q)' /\ SaidOf(q)' /\ Owes(q)' = Owes(q)
<1>1. cmd'[q] = cmd[q] /\ Target(q)' = Target(q)
  BY DEF Steady, Target
<1>2. ShapeOf(q) /\ HeldBy(q) /\ SaidOf(q)
  BY DEF IInv, Shape, Held, Said
<1>3. ShapeOf(q)'
  BY <1>1, <1>2 DEF ShapeOf, Steady
<1>4. Owes(q)' = Owes(q)
  BY <1>1 DEF Owes
<1>5. HeldBy(q)'
  <2>1. far \in [Items -> {"none", "live", "removed"}] /\ far' \in [Items -> {"none", "live", "removed"}]
    BY DEF IInv, TypeOK
  <2>2. ASSUME NEW i \in Items
        PROVE  /\ Kept(i) => Kept(i)'
               /\ far[i] = "removed" => far'[i] = "removed"
               /\ far[i] # "none" => far'[i] # "none"
               /\ far[i] = "live" /\ i \in unheld => Kept(i)' \/ (far'[i] = "live" /\ i \in unheld')
    BY <2>1 DEF Steady, Kept
  <2>3. cmd[q].phase \in {"itemGet", "keep", "record"} => cmd[q].item \in Items /\ Target(q) = cmd[q].item
    BY <1>2 DEF ShapeOf, Target
  <2>4. cmd[q].phase \in {"mark"} \cup Releasing => Target(q) \in Items
    BY <1>2 DEF ShapeOf
  <2> QED
    BY <1>1, <1>2, <2>2, <2>3, <2>4 DEF HeldBy, Releasing
<1>6. SaidOf(q)'
  <2>1. SaysRemoved(q)' => SaysRemoved(q)
    BY <1>1 DEF SaysRemoved, At, Steady
  <2> QED
    BY <1>1, <1>2, <2>1 DEF SaidOf, Steady
<1> QED
  BY <1>3, <1>4, <1>5, <1>6

\* A step of p keeps the invariant when it keeps p's own part of it, the rows'
\* and the account of the Items.
LEMMA StepOf ==
  ASSUME NEW p \in Procs, IInv, Steady(p), TypeOK',
         ShapeOf(p)', HeldBy(p)', SaidOf(p)', RowsHeld', Owed'
  PROVE  IInv'
<1>1. \A q \in Procs : ShapeOf(q)' /\ HeldBy(q)' /\ SaidOf(q)'
  BY OthersStay
<1> QED
  BY <1>1 DEF IInv, Shape, Held, Said

\* The account of the Items is kept when p accounts for what it owed, for what a
\* row it changed named, and for what it minted.
LEMMA OwedStep ==
  ASSUME NEW p \in Procs, IInv, Steady(p), TypeOK',
         \A i \in Items :
           /\ far'[i] = "live"
           /\ far[i] # "live" \/ i \in Owes(p) \/ \E r \in RowIds : rows[r].item = i
           => Accounted(i)'
  PROVE  Owed'
<1> SUFFICES ASSUME NEW i \in Items, far'[i] = "live" PROVE Accounted(i)'
  BY DEF Owed
<1>1. CASE far[i] # "live" \/ i \in Owes(p) \/ \E r \in RowIds : rows[r].item = i
  BY <1>1
<1>2. CASE \E q \in Procs \ {p} : i \in Owes(q)
  BY <1>2, OthersStay DEF Accounted
<1>3. CASE i \in told \cup lost \cup unheld
  BY <1>3 DEF Accounted, Steady
<1> QED
  BY <1>1, <1>2, <1>3 DEF IInv, Owed, Accounted

-----------------------------------------------------------------------------
(***************************************************************************)
(* Steps that change neither the aggregator, nor the keychain, nor a row.  *)
(***************************************************************************)
\* Only p's command changes, into another command.
Moves(p) ==
  /\ cmd'[p] \in Command
  /\ cmd' = [cmd EXCEPT ![p] = cmd'[p]]

Quiet ==
  /\ UNCHANGED <<far, keychain, rows, contested>>
  /\ told \subseteq told' /\ lost \subseteq lost' /\ unheld \subseteq unheld'

\* The parts of the invariant that are about one command.
LEMMA InvariantOf ==
  ASSUME NEW p \in Procs, IInv
  PROVE  TypeOK /\ cmd[p] \in Command /\ ShapeOf(p) /\ HeldBy(p) /\ SaidOf(p) /\ RowsHeld
  BY DEF IInv, Shape, Held, Said, TypeOK

\* A fault is counted within its bound.
LEMMA FaultCounts ==
  ASSUME TypeOK, Fault
  PROVE  faults' \in 0 .. MaxFaults
BY EnrollmentAssumption DEF TypeOK, Fault

\* The table is a sequence of rows.
LEMMA RowIsTyped ==
  ASSUME TypeOK, NEW r \in RowIds
  PROVE  r \in Nat /\ rows[r] \in Row
<1>1. rows \in Seq(Row)
  BY DEF TypeOK
<1>2. r \in 1 .. Len(rows)
  BY <1>1 DEF RowIds
<1> QED
  BY <1>1, <1>2

\* A quiet step has to account for what p owed before it.
LEMMA QuietStep ==
  ASSUME NEW p \in Procs, IInv, Moves(p), Quiet,
         faults' \in 0 .. MaxFaults, told' \cup lost' \cup unheld' \subseteq Items,
         ShapeOf(p)', HeldBy(p)', SaidOf(p)',
         \A j \in Owes(p) : far[j] = "live" => Accounted(j)'
  PROVE  IInv'
<1>1. TypeOK /\ RowsHeld
  BY DEF IInv
<1>2. TypeOK'
  BY <1>1 DEF TypeOK, Moves, Quiet, RowIds
<1>3. Steady(p)
  BY <1>1 DEF TypeOK, Moves, Quiet, Steady, Kept, RowIds
<1>4. RowsHeld'
  BY <1>1 DEF RowsHeld, Kept, Quiet, RowIds
<1>5. Owed'
  BY <1>2, <1>3, OwedStep DEF Accounted, Quiet, RowIds
<1> QED
  BY <1>2, <1>3, <1>4, <1>5, StepOf

\* What Unconfirmed makes of a command that is releasing.
LEMMA UnconfirmedDoes ==
  ASSUME NEW p \in Procs, IInv, At(p, "remove"), Unconfirmed(p)
  PROVE  /\ Moves(p) /\ told \subseteq told' /\ told' \subseteq Items
         /\ ShapeOf(p)' /\ SaidOf(p)'
         /\ cmd'[p].phase \in {"idle", "orphan"}
         /\ cmd'[p].why = cmd[p].why
         /\ Target(p)' = Target(p)
         /\ cmd'[p].phase = "orphan" => cmd[p].why # "undo"
         /\ \A j \in Owes(p) : Accounted(j)'
<1>1. TypeOK /\ cmd[p] \in Command /\ ShapeOf(p) /\ HeldBy(p)
  BY InvariantOf
<1>2. CASE cmd[p].why \in {"refused", "superseded"} /\ Goto(p, "orphan") /\ UNCHANGED told
  <2>1. Moves(p)
    BY <1>1, <1>2 DEF Moves, TypeOK, Goto, Command, Phases
  <2>2. cmd'[p] = [cmd[p] EXCEPT !.phase = "orphan"]
    BY <1>1, <1>2 DEF Goto, TypeOK
  <2>3. cmd'[p].phase = "orphan" /\ cmd'[p].why = cmd[p].why /\ Target(p)' = Target(p)
    BY <1>1, <2>2 DEF Target, Command
  <2>4. ShapeOf(p)' /\ SaidOf(p)' /\ Owes(p)' = Owes(p)
    BY <1>1, <1>2, <2>3 DEF ShapeOf, SaidOf, SaysRemoved, Owes, At, Releasing
  <2> QED
    BY <1>1, <1>2, <2>1, <2>3, <2>4 DEF Accounted, TypeOK
<1>3. CASE /\ cmd[p].why = "undo" /\ ExitsAfterRelease(p, "error")
           /\ told' = told \cup {cmd[p].item}
  <2>1. Moves(p)
    BY <1>1, <1>3 DEF Moves, TypeOK, ExitsAfterRelease, Command, Phases
  <2>2. /\ cmd'[p].phase = "idle" /\ cmd'[p].why = "undo" /\ cmd'[p].item = cmd[p].item
        /\ cmd'[p].old = cmd[p].old /\ cmd'[p].exit = "error"
    BY <1>1, <1>3 DEF ExitsAfterRelease, TypeOK, Command
  <2>3. Target(p) = cmd[p].item /\ Target(p)' = Target(p) /\ Target(p) \in Items
    BY <1>1, <1>3, <2>2 DEF Target, ShapeOf, At, Releasing
  <2>4. ShapeOf(p)' /\ SaidOf(p)'
    BY <1>3, <2>2 DEF ShapeOf, SaidOf, SaysRemoved, At, Releasing
  <2> QED
    BY <1>1, <1>3, <2>1, <2>2, <2>3, <2>4 DEF Accounted, Owes, TypeOK
<1>4. CASE cmd[p].why = "retired" /\ ExitsAfterRelease(p, "unhealthy") /\ UNCHANGED told
  <2>1. Moves(p)
    BY <1>1, <1>4 DEF Moves, TypeOK, ExitsAfterRelease, Command, Phases
  <2>2. /\ cmd'[p].phase = "idle" /\ cmd'[p].why = "retired" /\ cmd'[p].item = cmd[p].item
        /\ cmd'[p].old = cmd[p].old /\ cmd'[p].exit = "unhealthy"
    BY <1>1, <1>4 DEF ExitsAfterRelease, TypeOK, Command
  <2>3. Owes(p) = {} /\ Target(p)' = Target(p)
    BY <1>4, <2>2 DEF Owes, Target, At
  <2>4. ShapeOf(p)' /\ SaidOf(p)'
    BY <1>4, <2>2 DEF ShapeOf, SaidOf, SaysRemoved, At, Releasing
  <2> QED
    BY <1>1, <1>4, <2>1, <2>2, <2>3, <2>4 DEF TypeOK
<1> QED
  BY <1>2, <1>3, <1>4 DEF Unconfirmed

\* A release that is not confirmed keeps the invariant when it changes nothing
\* else.
LEMMA UnconfirmedKeeps ==
  ASSUME NEW p \in Procs, IInv, At(p, "remove"), Unconfirmed(p),
         UNCHANGED <<far, keychain, rows, lost, unheld, contested>>,
         faults' \in 0 .. MaxFaults
  PROVE  IInv'
<1>1. TypeOK /\ HeldBy(p)
  BY InvariantOf
<1>2. HeldBy(p)'
  BY <1>1, UnconfirmedDoes DEF HeldBy, Kept, At, Releasing
<1>3. Quiet /\ told' \cup lost' \cup unheld' \subseteq Items
  BY <1>1, UnconfirmedDoes DEF Quiet, TypeOK
<1> QED
  BY <1>2, <1>3, UnconfirmedDoes, QuietStep

\* The removal was not made, or made and its answer lost, or made long ago: the
\* command goes on as Unconfirmed says.
LEMMA RemoveFailsKeeps ==
  ASSUME NEW p \in Procs, IInv, RemoveFails(p)
  PROVE  IInv'
BY FaultCounts, UnconfirmedKeeps, InvariantOf DEF RemoveFails

LEMMA AlreadyRemovedKeeps ==
  ASSUME NEW p \in Procs, IInv, AlreadyRemoved(p)
  PROVE  IInv'
BY UnconfirmedKeeps, InvariantOf DEF AlreadyRemoved, TypeOK

\* The Item of the row that is read is kept, and a retirement owes nothing.
LEMMA RetireReadsKeeps ==
  ASSUME NEW p \in Procs, NEW r \in RowIds, NEW phase \in {"mark", "remove", "idle"},
         NEW exit \in {"none", "ok"}, IInv, RetireReads(p, r, phase, "retired", exit),
         phase = "idle" => rows[r].item \notin keychain, exit = "ok" => phase = "idle",
         faults' \in 0 .. MaxFaults
  PROVE  IInv'
<1>1. TypeOK /\ cmd[p] \in Command /\ RowsHeld
  BY InvariantOf
<1>2. r \in Nat /\ rows[r].item \in Items /\ Kept(rows[r].item)
  BY <1>1, RowIsTyped DEF RowsHeld, Row
<1>3. cmd' = [cmd EXCEPT ![p] = [NoCommand EXCEPT !.phase = phase, !.why = "retired", !.exit = exit,
                 !.item = rows[r].item, !.row = IF phase = "mark" THEN r ELSE 0]]
  BY DEF RetireReads
<1>4. /\ cmd'[p] = [phase |-> phase, why |-> "retired", item |-> rows[r].item, old |-> None,
                    row |-> IF phase = "mark" THEN r ELSE 0, relink |-> FALSE, exit |-> exit]
      /\ Owes(p) = {}
  BY <1>1, <1>3 DEF NoCommand, TypeOK, RetireReads, Owes, At, Releasing
<1>5. Moves(p)
  <2>1. cmd'[p] \in Command
    <3> DEFINE row == IF phase = "mark" THEN r ELSE 0
    <3>1. row \in Nat
      BY <1>2
    <3> HIDE DEF row
    <3>2. cmd'[p] = [phase |-> phase, why |-> "retired", item |-> rows[r].item, old |-> None,
                     row |-> row, relink |-> FALSE, exit |-> exit]
      BY <1>4 DEF row
    <3> QED
      BY <1>2, <3>1, <3>2 DEF Command, Phases, Whys
  <2>2. cmd' = [cmd EXCEPT ![p] = cmd'[p]]
    BY <1>1, <1>3 DEF TypeOK
  <2> QED
    BY <2>1, <2>2 DEF Moves
<1>6. UNCHANGED <<far, keychain, rows, history>>
  BY DEF RetireReads
<1>7. Target(p)' = rows[r].item
  BY <1>4 DEF Target
<1>8. ShapeOf(p)'
  BY <1>2, <1>4, <1>6, <1>7 DEF ShapeOf, Releasing, RowIds
<1>9. HeldBy(p)' /\ SaidOf(p)'
  BY <1>2, <1>4, <1>6, <1>7 DEF HeldBy, SaidOf, SaysRemoved, At, Kept, Releasing
<1>10. Quiet /\ told' \cup lost' \cup unheld' \subseteq Items
  BY <1>1, <1>6 DEF Quiet, history, TypeOK
<1> QED
  BY <1>4, <1>5, <1>8, <1>9, <1>10, QuietStep

\* A retirement holds the Item its row names when it reads it.
LEMMA RetireStartsKeeps ==
  ASSUME NEW p \in Procs, NEW r \in RowIds, IInv,
         RetireStarts(p, r) \/ RetireRetries(p, r) \/ RetireAgain(p, r)
  PROVE  IInv'
BY FaultCounts, InvariantOf, RetireReadsKeeps
   DEF RetireStarts, RetireRetries, RetireAgain, TypeOK

\* An enrollment begins with nothing in hand.
LEMMA EnrollStartsKeeps ==
  ASSUME NEW p \in Procs, IInv, EnrollStarts(p)
  PROVE  IInv'
<1>1. TypeOK /\ cmd[p] = NoCommand
  BY InvariantOf DEF EnrollStarts
<1>2. PICK relink \in BOOLEAN :
        cmd' = [cmd EXCEPT ![p] = IF Room THEN [NoCommand EXCEPT !.phase = "link", !.relink = relink]
                                  ELSE [NoCommand EXCEPT !.exit = "unhealthy"]]
  BY DEF EnrollStarts
<1>3. Moves(p) /\ cmd'[p].phase \in {"link", "idle"} /\ cmd'[p].why = "none"
  <2>1. CASE Room
    BY <1>1, <1>2, <2>1 DEF Moves, NoCommand, Command, Phases, Whys, TypeOK
  <2>2. CASE ~ Room
    BY <1>1, <1>2, <2>2 DEF Moves, NoCommand, Command, Phases, Whys, TypeOK
  <2> QED
    BY <2>1, <2>2
<1>4. ShapeOf(p)' /\ HeldBy(p)' /\ SaidOf(p)' /\ Owes(p) = {}
  BY <1>1, <1>3 DEF ShapeOf, HeldBy, SaidOf, SaysRemoved, At, Owes, Releasing, NoCommand
<1>5. Quiet /\ told' \cup lost' \cup unheld' \subseteq Items /\ faults' \in 0 .. MaxFaults
  BY <1>1 DEF EnrollStarts, Quiet, history, TypeOK
<1> QED
  BY <1>3, <1>4, <1>5, QuietStep

\* What only the killed process held goes to lost; the rest some row names.
LEMMA KilledKeeps ==
  ASSUME NEW p \in Procs, IInv, Killed(p)
  PROVE  IInv'
<1>1. TypeOK /\ cmd[p] \in Command /\ ShapeOf(p) /\ HeldBy(p)
  BY InvariantOf
<1>2. Moves(p) /\ cmd'[p] = [NoCommand EXCEPT !.exit = "killed"]
  BY <1>1 DEF Killed, Exits, Moves, TypeOK, Command, NoCommand, Phases, Whys
<1>3. ShapeOf(p)' /\ HeldBy(p)' /\ SaidOf(p)'
  BY <1>2 DEF ShapeOf, HeldBy, SaidOf, SaysRemoved, At, Releasing, NoCommand
<1>4. ASSUME NEW j \in Owes(p), far[j] = "live"
      PROVE  Accounted(j)'
  <2>1. j = Target(p) /\ j \in Items /\ j \in InHand(p)
    BY <1>1, EnrollmentAssumption DEF Owes, ShapeOf, Releasing, Target, InHand, At
  <2>2. CASE OnRecord(j)
    BY <2>2 DEF OnRecord, Accounted, Killed, RowIds
  <2>3. CASE ~ OnRecord(j)
    BY <1>4, <2>1, <2>3 DEF Accounted, Killed
  <2> QED
    BY <2>2, <2>3
<1>5. Quiet /\ told' \cup lost' \cup unheld' \subseteq Items
  BY <1>1, EnrollmentAssumption DEF Quiet, Killed, InHand, At, Command, TypeOK
<1>6. faults' \in 0 .. MaxFaults
  BY <1>1, FaultCounts DEF Killed
<1> QED
  BY <1>2, <1>3, <1>4, <1>5, <1>6, QuietStep

\* Nothing is in hand yet.
LEMMA AbandonedKeeps ==
  ASSUME NEW p \in Procs, IInv, Abandoned(p)
  PROVE  IInv'
<1>1. TypeOK /\ cmd[p] \in Command /\ ShapeOf(p) /\ HeldBy(p)
  BY InvariantOf
<1>2. Moves(p)
  BY <1>1 DEF Moves, TypeOK, Command, NoCommand, Phases, Whys, Abandoned, Exits
<1>3. ShapeOf(p)' /\ HeldBy(p)' /\ SaidOf(p)'
  BY <1>1 DEF ShapeOf, HeldBy, SaidOf, SaysRemoved, Kept, Releasing, At, Target, TypeOK, Command, NoCommand, Phases, Whys, Abandoned, Exits
<1>4. \A j \in Owes(p) : far[j] = "live" => Accounted(j)'
  BY <1>1 DEF Owes, Accounted, ShapeOf, HeldBy, Kept, Releasing, At, Target, TypeOK, Command, NoCommand, Phases, Whys, Abandoned, Exits
<1>5. Quiet /\ told' \cup lost' \cup unheld' \subseteq Items
  BY <1>1 DEF Quiet, TypeOK, ShapeOf, Releasing, Target, At, history, Abandoned, Exits
<1>6. faults' \in 0 .. MaxFaults
  BY <1>1, FaultCounts DEF TypeOK, history, Abandoned, Exits
<1> QED
  BY <1>2, <1>3, <1>4, <1>5, <1>6, QuietStep

\* The Item that came back is one a row names.
LEMMA ReturnedKeeps ==
  ASSUME NEW p \in Procs, NEW i \in Items, IInv, Returned(p, i)
  PROVE  IInv'
<1>0. far[i] = "live"
  BY DEF Returned
<1>1. TypeOK /\ cmd[p] \in Command /\ ShapeOf(p) /\ HeldBy(p)
  BY InvariantOf
<1>2. Moves(p)
  BY <1>1, <1>0 DEF Moves, TypeOK, RowIds, Command, NoCommand, Phases, Whys, Returned
<1>3. ShapeOf(p)' /\ HeldBy(p)' /\ SaidOf(p)'
  BY <1>1, <1>0 DEF ShapeOf, HeldBy, SaidOf, SaysRemoved, Kept, Releasing, At, Target, TypeOK, Command, NoCommand, Phases, Whys, Returned
<1>4. \A j \in Owes(p) : far[j] = "live" => Accounted(j)'
  BY <1>1, <1>0 DEF Owes, Accounted, ShapeOf, HeldBy, Kept, Releasing, At, Target, TypeOK, Command, NoCommand, Phases, Whys, Returned
<1>5. Quiet /\ told' \cup lost' \cup unheld' \subseteq Items
  BY <1>1, <1>0 DEF Quiet, TypeOK, ShapeOf, Releasing, Target, At, history, Returned
<1>6. faults' \in 0 .. MaxFaults
  BY <1>1, <1>0, FaultCounts DEF TypeOK, history, Returned
<1> QED
  BY <1>2, <1>3, <1>4, <1>5, <1>6, QuietStep

\* The Item stays in hand.
LEMMA GetItemKeeps ==
  ASSUME NEW p \in Procs, IInv, GetItem(p)
  PROVE  IInv'
<1>1. TypeOK /\ cmd[p] \in Command /\ ShapeOf(p) /\ HeldBy(p)
  BY InvariantOf
<1>2. Moves(p)
  BY <1>1 DEF Moves, TypeOK, Command, NoCommand, Phases, Whys, GetItem, Goto
<1>3. ShapeOf(p)' /\ HeldBy(p)' /\ SaidOf(p)'
  BY <1>1 DEF ShapeOf, HeldBy, SaidOf, SaysRemoved, Kept, Releasing, At, Target, TypeOK, Command, NoCommand, Phases, Whys, GetItem, Goto
<1>4. \A j \in Owes(p) : far[j] = "live" => Accounted(j)'
  BY <1>1 DEF Owes, Accounted, ShapeOf, HeldBy, Kept, Releasing, At, Target, TypeOK, Command, NoCommand, Phases, Whys, GetItem, Goto
<1>5. Quiet /\ told' \cup lost' \cup unheld' \subseteq Items
  BY <1>1 DEF Quiet, TypeOK, ShapeOf, Releasing, Target, At, history, GetItem, Goto
<1>6. faults' \in 0 .. MaxFaults
  BY <1>1, FaultCounts DEF TypeOK, history, GetItem, Goto
<1> QED
  BY <1>2, <1>3, <1>4, <1>5, <1>6, QuietStep

\* The Item goes to unheld.
LEMMA GetItemFailsKeeps ==
  ASSUME NEW p \in Procs, IInv, GetItemFails(p)
  PROVE  IInv'
<1>1. TypeOK /\ cmd[p] \in Command /\ ShapeOf(p) /\ HeldBy(p)
  BY InvariantOf
<1>2. Moves(p)
  BY <1>1 DEF Moves, TypeOK, Command, NoCommand, Phases, Whys, GetItemFails, Exits, Fault
<1>3. ShapeOf(p)' /\ HeldBy(p)' /\ SaidOf(p)'
  BY <1>1 DEF ShapeOf, HeldBy, SaidOf, SaysRemoved, Kept, Releasing, At, Target, TypeOK, Command, NoCommand, Phases, Whys, GetItemFails, Exits, Fault
<1>4. \A j \in Owes(p) : far[j] = "live" => Accounted(j)'
  BY <1>1 DEF Owes, Accounted, ShapeOf, HeldBy, Kept, Releasing, At, Target, TypeOK, Command, NoCommand, Phases, Whys, GetItemFails, Exits, Fault
<1>5. Quiet /\ told' \cup lost' \cup unheld' \subseteq Items
  BY <1>1 DEF Quiet, TypeOK, ShapeOf, Releasing, Target, At, history, GetItemFails, Exits, Fault
<1>6. faults' \in 0 .. MaxFaults
  BY <1>1, FaultCounts DEF TypeOK, history, GetItemFails, Exits
<1> QED
  BY <1>2, <1>3, <1>4, <1>5, <1>6, QuietStep

\* Its token is missing: the Item goes to unheld.
LEMMA KeepFailsKeeps ==
  ASSUME NEW p \in Procs, IInv, KeepFails(p)
  PROVE  IInv'
<1>1. TypeOK /\ cmd[p] \in Command /\ ShapeOf(p) /\ HeldBy(p)
  BY InvariantOf
<1>2. Moves(p)
  BY <1>1 DEF Moves, TypeOK, Command, NoCommand, Phases, Whys, KeepFails, Undo, Fault
<1>3. ShapeOf(p)' /\ HeldBy(p)' /\ SaidOf(p)'
  BY <1>1 DEF ShapeOf, HeldBy, SaidOf, SaysRemoved, Kept, Releasing, At, Target, TypeOK, Command, NoCommand, Phases, Whys, KeepFails, Undo, Fault
<1>4. \A j \in Owes(p) : far[j] = "live" => Accounted(j)'
  BY <1>1 DEF Owes, Accounted, ShapeOf, HeldBy, Kept, Releasing, At, Target, TypeOK, Command, NoCommand, Phases, Whys, KeepFails, Undo, Fault
<1>5. Quiet /\ told' \cup lost' \cup unheld' \subseteq Items
  BY <1>1 DEF Quiet, TypeOK, ShapeOf, Releasing, Target, At, history, KeepFails, Undo, Fault
<1>6. faults' \in 0 .. MaxFaults
  BY <1>1, FaultCounts DEF TypeOK, history, KeepFails, Undo
<1> QED
  BY <1>2, <1>3, <1>4, <1>5, <1>6, QuietStep

\* The Item is to be released, its token is kept.
LEMMA RecordFailsKeeps ==
  ASSUME NEW p \in Procs, IInv, RecordFails(p)
  PROVE  IInv'
<1>1. TypeOK /\ cmd[p] \in Command /\ ShapeOf(p) /\ HeldBy(p)
  BY InvariantOf
<1>2. Moves(p)
  BY <1>1 DEF Moves, TypeOK, Command, NoCommand, Phases, Whys, RecordFails, Undo, Fault
<1>3. ShapeOf(p)' /\ HeldBy(p)' /\ SaidOf(p)'
  BY <1>1 DEF ShapeOf, HeldBy, SaidOf, SaysRemoved, Kept, Releasing, At, Target, TypeOK, Command, NoCommand, Phases, Whys, RecordFails, Undo, Fault
<1>4. \A j \in Owes(p) : far[j] = "live" => Accounted(j)'
  BY <1>1 DEF Owes, Accounted, ShapeOf, HeldBy, Kept, Releasing, At, Target, TypeOK, Command, NoCommand, Phases, Whys, RecordFails, Undo, Fault
<1>5. Quiet /\ told' \cup lost' \cup unheld' \subseteq Items
  BY <1>1 DEF Quiet, TypeOK, ShapeOf, Releasing, Target, At, history, RecordFails, Undo, Fault
<1>6. faults' \in 0 .. MaxFaults
  BY <1>1, FaultCounts DEF TypeOK, history, RecordFails, Undo
<1> QED
  BY <1>2, <1>3, <1>4, <1>5, <1>6, QuietStep

\* The same.
LEMMA RecordRefusedKeeps ==
  ASSUME NEW p \in Procs, IInv, RecordRefused(p)
  PROVE  IInv'
<1>1. TypeOK /\ cmd[p] \in Command /\ ShapeOf(p) /\ HeldBy(p)
  BY InvariantOf
<1>2. Moves(p)
  BY <1>1 DEF Moves, TypeOK, Command, NoCommand, Phases, Whys, RecordRefused, Refuse
<1>3. ShapeOf(p)' /\ HeldBy(p)' /\ SaidOf(p)'
  BY <1>1 DEF ShapeOf, HeldBy, SaidOf, SaysRemoved, Kept, Releasing, At, Target, TypeOK, Command, NoCommand, Phases, Whys, RecordRefused, Refuse
<1>4. \A j \in Owes(p) : far[j] = "live" => Accounted(j)'
  BY <1>1 DEF Owes, Accounted, ShapeOf, HeldBy, Kept, Releasing, At, Target, TypeOK, Command, NoCommand, Phases, Whys, RecordRefused, Refuse
<1>5. Quiet /\ told' \cup lost' \cup unheld' \subseteq Items
  BY <1>1 DEF Quiet, TypeOK, ShapeOf, Releasing, Target, At, history, RecordRefused, Refuse
<1>6. faults' \in 0 .. MaxFaults
  BY <1>1, FaultCounts DEF TypeOK, history, RecordRefused, Refuse
<1> QED
  BY <1>2, <1>3, <1>4, <1>5, <1>6, QuietStep

\* The same.
LEMMA RecordClashesKeeps ==
  ASSUME NEW p \in Procs, IInv, RecordClashes(p)
  PROVE  IInv'
<1>1. TypeOK /\ cmd[p] \in Command /\ ShapeOf(p) /\ HeldBy(p)
  BY InvariantOf
<1>2. Moves(p)
  BY <1>1 DEF Moves, TypeOK, Command, NoCommand, Phases, Whys, RecordClashes, Undo
<1>3. ShapeOf(p)' /\ HeldBy(p)' /\ SaidOf(p)'
  BY <1>1 DEF ShapeOf, HeldBy, SaidOf, SaysRemoved, Kept, Releasing, At, Target, TypeOK, Command, NoCommand, Phases, Whys, RecordClashes, Undo
<1>4. \A j \in Owes(p) : far[j] = "live" => Accounted(j)'
  BY <1>1 DEF Owes, Accounted, ShapeOf, HeldBy, Kept, Releasing, At, Target, TypeOK, Command, NoCommand, Phases, Whys, RecordClashes, Undo
<1>5. Quiet /\ told' \cup lost' \cup unheld' \subseteq Items
  BY <1>1 DEF Quiet, TypeOK, ShapeOf, Releasing, Target, At, history, RecordClashes, Undo
<1>6. faults' \in 0 .. MaxFaults
  BY <1>1, FaultCounts DEF TypeOK, history, RecordClashes, Undo
<1> QED
  BY <1>2, <1>3, <1>4, <1>5, <1>6, QuietStep

\* A retirement owes nothing: the row still names the Item.
LEMMA MarkFailsKeeps ==
  ASSUME NEW p \in Procs, IInv, MarkFails(p)
  PROVE  IInv'
<1>1. TypeOK /\ cmd[p] \in Command /\ ShapeOf(p) /\ HeldBy(p)
  BY InvariantOf
<1>2. Moves(p)
  BY <1>1 DEF Moves, TypeOK, Command, NoCommand, Phases, Whys, MarkFails, Exits, Fault
<1>3. ShapeOf(p)' /\ HeldBy(p)' /\ SaidOf(p)'
  BY <1>1 DEF ShapeOf, HeldBy, SaidOf, SaysRemoved, Kept, Releasing, At, Target, TypeOK, Command, NoCommand, Phases, Whys, MarkFails, Exits, Fault
<1>4. \A j \in Owes(p) : far[j] = "live" => Accounted(j)'
  BY <1>1 DEF Owes, Accounted, ShapeOf, HeldBy, Kept, Releasing, At, Target, TypeOK, Command, NoCommand, Phases, Whys, MarkFails, Exits, Fault
<1>5. Quiet /\ told' \cup lost' \cup unheld' \subseteq Items
  BY <1>1 DEF Quiet, TypeOK, ShapeOf, Releasing, Target, At, history, MarkFails, Exits, Fault
<1>6. faults' \in 0 .. MaxFaults
  BY <1>1, FaultCounts DEF TypeOK, history, MarkFails, Exits
<1> QED
  BY <1>2, <1>3, <1>4, <1>5, <1>6, QuietStep

\* A missing token means a removed Item, or one in unheld.
LEMMA NothingToRemoveKeeps ==
  ASSUME NEW p \in Procs, IInv, NothingToRemove(p)
  PROVE  IInv'
<1>1. TypeOK /\ cmd[p] \in Command /\ ShapeOf(p) /\ HeldBy(p)
  BY InvariantOf
<1>2. Moves(p)
  BY <1>1 DEF Moves, TypeOK, Command, NoCommand, Phases, Whys, NothingToRemove, Confirmed, ExitsAfterRelease
<1>3. ShapeOf(p)' /\ HeldBy(p)' /\ SaidOf(p)'
  BY <1>1 DEF ShapeOf, HeldBy, SaidOf, SaysRemoved, Kept, Releasing, At, Target, TypeOK, Command, NoCommand, Phases, Whys, NothingToRemove, Confirmed, ExitsAfterRelease
<1>4. \A j \in Owes(p) : far[j] = "live" => Accounted(j)'
  BY <1>1 DEF Owes, Accounted, ShapeOf, HeldBy, Kept, Releasing, At, Target, TypeOK, Command, NoCommand, Phases, Whys, NothingToRemove, Confirmed, ExitsAfterRelease
<1>5. Quiet /\ told' \cup lost' \cup unheld' \subseteq Items
  BY <1>1 DEF Quiet, TypeOK, ShapeOf, Releasing, Target, At, history, NothingToRemove, Confirmed, ExitsAfterRelease
<1>6. faults' \in 0 .. MaxFaults
  BY <1>1, FaultCounts DEF TypeOK, history, NothingToRemove, Confirmed, ExitsAfterRelease
<1> QED
  BY <1>2, <1>3, <1>4, <1>5, <1>6, QuietStep

\* The Item is gone already.
LEMMA ForgetFailsKeeps ==
  ASSUME NEW p \in Procs, IInv, ForgetFails(p)
  PROVE  IInv'
<1>1. TypeOK /\ cmd[p] \in Command /\ ShapeOf(p) /\ HeldBy(p)
  BY InvariantOf
<1>2. Moves(p)
  BY <1>1 DEF Moves, TypeOK, Command, NoCommand, Phases, Whys, ForgetFails, Confirmed, ExitsAfterRelease, Fault
<1>3. ShapeOf(p)' /\ HeldBy(p)' /\ SaidOf(p)'
  BY <1>1 DEF ShapeOf, HeldBy, SaidOf, SaysRemoved, Kept, Releasing, At, Target, TypeOK, Command, NoCommand, Phases, Whys, ForgetFails, Confirmed, ExitsAfterRelease, Fault
<1>4. \A j \in Owes(p) : far[j] = "live" => Accounted(j)'
  BY <1>1 DEF Owes, Accounted, ShapeOf, HeldBy, Kept, Releasing, At, Target, TypeOK, Command, NoCommand, Phases, Whys, ForgetFails, Confirmed, ExitsAfterRelease, Fault
<1>5. Quiet /\ told' \cup lost' \cup unheld' \subseteq Items
  BY <1>1 DEF Quiet, TypeOK, ShapeOf, Releasing, Target, At, history, ForgetFails, Confirmed, ExitsAfterRelease, Fault
<1>6. faults' \in 0 .. MaxFaults
  BY <1>1, FaultCounts DEF TypeOK, history, ForgetFails, Confirmed, ExitsAfterRelease
<1> QED
  BY <1>2, <1>3, <1>4, <1>5, <1>6, QuietStep

\* The Item goes to told.
LEMMA OrphanNotRecordedKeeps ==
  ASSUME NEW p \in Procs, IInv, OrphanNotRecorded(p)
  PROVE  IInv'
<1>1. TypeOK /\ cmd[p] \in Command /\ ShapeOf(p) /\ HeldBy(p)
  BY InvariantOf
<1>2. Moves(p)
  BY <1>1 DEF Moves, TypeOK, Command, NoCommand, Phases, Whys, OrphanNotRecorded, Exits, Fault
<1>3. ShapeOf(p)' /\ HeldBy(p)' /\ SaidOf(p)'
  BY <1>1 DEF ShapeOf, HeldBy, SaidOf, SaysRemoved, Kept, Releasing, At, Target, TypeOK, Command, NoCommand, Phases, Whys, OrphanNotRecorded, Exits, Fault
<1>4. \A j \in Owes(p) : far[j] = "live" => Accounted(j)'
  BY <1>1 DEF Owes, Accounted, ShapeOf, HeldBy, Kept, Releasing, At, Target, TypeOK, Command, NoCommand, Phases, Whys, OrphanNotRecorded, Exits, Fault
<1>5. Quiet /\ told' \cup lost' \cup unheld' \subseteq Items
  BY <1>1 DEF Quiet, TypeOK, ShapeOf, Releasing, Target, At, history, OrphanNotRecorded, Exits, Fault
<1>6. faults' \in 0 .. MaxFaults
  BY <1>1, FaultCounts DEF TypeOK, history, OrphanNotRecorded, Exits
<1> QED
  BY <1>2, <1>3, <1>4, <1>5, <1>6, QuietStep

-----------------------------------------------------------------------------
(***************************************************************************)
(* Steps that change the aggregator or the keychain.                       *)
(***************************************************************************)
\* p's own part of a step that leaves the rows alone.
LEMMA FarStep ==
  ASSUME NEW p \in Procs, IInv, Moves(p), UNCHANGED <<rows>>,
         far' \in [Items -> {"none", "live", "removed"}], keychain' \subseteq Items,
         contested' \subseteq Items, faults' \in 0 .. MaxFaults,
         told' \cup lost' \cup unheld' \subseteq Items,
         told \subseteq told', lost \subseteq lost', unheld \subseteq unheld',
         \A i \in Items : far[i] = "removed" => far'[i] = "removed",
         \A i \in Items : far[i] = "live" => far'[i] \in {"live", "removed"},
         \A i \in Items : Kept(i) => Kept(i)',
         ShapeOf(p)', HeldBy(p)', SaidOf(p)',
         \A j \in Items : far'[j] = "live" /\ (far[j] # "live" \/ j \in Owes(p)) => Accounted(j)'
  PROVE  IInv'
<1>1. TypeOK /\ RowsHeld
  BY DEF IInv
<1>2. TypeOK'
  BY <1>1 DEF TypeOK, Moves, RowIds
<1>3. Steady(p)
  BY <1>1 DEF Steady, Moves, TypeOK, RowIds
<1>4. RowsHeld'
  BY <1>1, RowIsTyped DEF RowsHeld, RowIds, Row
<1>5. Owed'
  BY <1>2, <1>3, OwedStep DEF Accounted, RowIds
<1> QED
  BY <1>2, <1>3, <1>4, <1>5, StepOf

\* The command owes the Item it has minted.
LEMMA MintedKeeps ==
  ASSUME NEW p \in Procs, NEW i \in Items, IInv, Minted(p, i)
  PROVE  IInv'
<1>1. TypeOK /\ cmd[p] \in Command /\ ShapeOf(p) /\ cmd[p].phase = "link" /\ cmd[p].why = "none"
  BY InvariantOf DEF Minted, At, ShapeOf
<1>2. /\ far[i] = "none" /\ far' = [far EXCEPT ![i] = "live"]
      /\ UNCHANGED <<keychain, rows, history, faults>>
  BY DEF Minted
<1>3. Moves(p) /\ cmd'[p].phase = "itemGet" /\ cmd'[p].why = "none" /\ cmd'[p].item = i
  BY <1>1 DEF Minted, Moves, TypeOK, Command, Phases
<1>4. ShapeOf(p)' /\ HeldBy(p)' /\ SaidOf(p)' /\ Owes(p)' = {i} /\ Owes(p) = {}
  BY <1>1, <1>2, <1>3 DEF ShapeOf, HeldBy, SaidOf, SaysRemoved, Owes, Target, At, Releasing, TypeOK
<1>5. \A j \in Items : /\ j # i => far'[j] = far[j]
                       /\ Kept(j) => Kept(j)'
                       /\ far'[j] = "live" /\ far[j] # "live" => j = i
  BY <1>1, <1>2 DEF TypeOK, Kept
<1> QED
  BY <1>1, <1>2, <1>3, <1>4, <1>5, FarStep DEF TypeOK, history, Accounted

\* An Item whose reply is lost is on the list of the lost.
LEMMA ExchangeReplyLostKeeps ==
  ASSUME NEW p \in Procs, NEW i \in Items, IInv, ExchangeReplyLost(p, i)
  PROVE  IInv'
<1>1. TypeOK /\ cmd[p] \in Command /\ cmd[p].phase = "link" /\ Owes(p) = {}
  BY InvariantOf DEF ExchangeReplyLost, At, Owes, Releasing
<1>2. /\ far[i] = "none" /\ far' = [far EXCEPT ![i] = "live"] /\ lost' = lost \cup {i}
      /\ UNCHANGED <<keychain, rows, told, unheld, contested>>
      /\ faults' \in 0 .. MaxFaults
  BY <1>1, FaultCounts DEF ExchangeReplyLost
<1>3. Moves(p) /\ cmd'[p].phase = "idle" /\ cmd'[p].why = "none" /\ cmd'[p].exit = "error"
  BY <1>1 DEF ExchangeReplyLost, Exits, Moves, TypeOK, NoCommand, Command, Phases, Whys
<1>4. ShapeOf(p)' /\ HeldBy(p)' /\ SaidOf(p)'
  BY <1>3 DEF ShapeOf, HeldBy, SaidOf, SaysRemoved, At, Releasing
<1>5. \A j \in Items : /\ Kept(j) => Kept(j)'
                       /\ j # i => far'[j] = far[j]
                       /\ far'[j] = "live" /\ far[j] # "live" => j = i
  BY <1>1, <1>2 DEF TypeOK, Kept
<1> QED
  BY <1>1, <1>2, <1>3, <1>4, <1>5, FarStep DEF TypeOK, Accounted

\* Storing the token is what record relies on.
LEMMA KeepKeeps ==
  ASSUME NEW p \in Procs, IInv, Keep(p)
  PROVE  IInv'
<1>1. /\ TypeOK /\ cmd[p] \in Command /\ cmd[p].phase = "keep" /\ cmd[p].why = "none"
      /\ cmd[p].item \in Items /\ far[cmd[p].item] # "none"
  BY InvariantOf DEF Keep, At, ShapeOf, HeldBy
<1>2. /\ keychain' = keychain \cup {cmd[p].item}
      /\ UNCHANGED <<far, rows, history, faults>>
  BY DEF Keep
<1>3. Moves(p) /\ cmd'[p].phase = "record" /\ cmd'[p].why = "none" /\ cmd'[p].item = cmd[p].item
  BY <1>1 DEF Keep, Goto, Moves, TypeOK, Command, Phases
<1>4. Target(p)' = cmd[p].item /\ Owes(p)' = {cmd[p].item} /\ Owes(p) = {cmd[p].item}
  BY <1>1, <1>3 DEF Target, Owes, Releasing
<1>5. \A j \in Items : Kept(j) => Kept(j)'
  BY <1>2 DEF Kept
<1>6. ShapeOf(p)' /\ HeldBy(p)' /\ SaidOf(p)'
  BY <1>1, <1>2, <1>3, <1>4 DEF ShapeOf, HeldBy, SaidOf, SaysRemoved, Kept, At, Releasing, TypeOK
<1> QED
  BY <1>1, <1>2, <1>3, <1>4, <1>5, <1>6, FarStep DEF TypeOK, history, Accounted

\* An Item that is removed is no longer owed.
LEMMA RemovesDoes ==
  ASSUME NEW p \in Procs, IInv, Removes(p)
  PROVE  /\ cmd[p].phase = "remove" /\ Target(p) \in Items
         /\ far' \in [Items -> {"none", "live", "removed"}] /\ far'[Target(p)] = "removed"
         /\ contested' \subseteq Items
         /\ \A j \in Items : /\ far[j] = "removed" => far'[j] = "removed"
                             /\ far[j] = "live" => far'[j] \in {"live", "removed"}
                             /\ far'[j] = "live" => far[j] = "live" /\ j \notin Owes(p)
<1>1. TypeOK /\ ShapeOf(p) /\ cmd[p].phase = "remove"
  BY InvariantOf DEF Removes, At
<1>2. Target(p) \in Items /\ Owes(p) \subseteq {Target(p)}
  BY <1>1 DEF ShapeOf, Releasing, Owes
<1>3. far' = [far EXCEPT ![Target(p)] = "removed"] /\ contested' \subseteq contested \cup {Target(p)}
  BY DEF Removes
<1> QED
  BY <1>1, <1>2, <1>3 DEF TypeOK

\* An Item that is removed owes nothing to anybody.
LEMMA RemoveKeeps ==
  ASSUME NEW p \in Procs, IInv, Remove(p)
  PROVE  IInv'
<1>1. TypeOK /\ cmd[p] \in Command /\ ShapeOf(p) /\ Removes(p)
  BY InvariantOf DEF Remove
<1>2. UNCHANGED <<keychain, rows, told, lost, unheld, faults>>
  BY DEF Remove
<1>3. /\ Moves(p) /\ cmd'[p].phase = "forget" /\ cmd'[p].why = cmd[p].why
      /\ Target(p)' = Target(p)
  BY <1>1 DEF Remove, Goto, Moves, Target, TypeOK, Command, Phases
<1>4. \A j \in Items : Kept(j) => Kept(j)'
  BY <1>1, <1>2, RemovesDoes DEF Kept
<1>5. ShapeOf(p)' /\ HeldBy(p)' /\ SaidOf(p)'
  BY <1>1, <1>3, RemovesDoes DEF ShapeOf, HeldBy, SaidOf, SaysRemoved, Kept, At, Releasing
<1> QED
  BY <1>1, <1>2, <1>3, <1>4, <1>5, RemovesDoes, FarStep DEF TypeOK

LEMMA RemoveReplyLostKeeps ==
  ASSUME NEW p \in Procs, IInv, RemoveReplyLost(p)
  PROVE  IInv'
<1>1. TypeOK /\ Removes(p) /\ Unconfirmed(p) /\ At(p, "remove")
  BY InvariantOf DEF RemoveReplyLost, Removes
<1>2. UNCHANGED <<keychain, rows, lost, unheld>> /\ faults' \in 0 .. MaxFaults
  BY <1>1, FaultCounts DEF RemoveReplyLost
<1>3. \A j \in Items : Kept(j) => Kept(j)'
  BY <1>1, <1>2, RemovesDoes DEF Kept
<1>4. HeldBy(p)'
  BY <1>1, RemovesDoes, UnconfirmedDoes DEF HeldBy, Kept, Releasing
<1> QED
  BY <1>1, <1>2, <1>3, <1>4, RemovesDoes, UnconfirmedDoes, FarStep DEF TypeOK

\* The token goes only after its Item.
LEMMA ForgetKeeps ==
  ASSUME NEW p \in Procs, IInv, Forget(p)
  PROVE  IInv'
<1>1. /\ TypeOK /\ cmd[p] \in Command /\ cmd[p].phase = "forget" /\ far[Target(p)] = "removed"
      /\ Target(p) \in Items /\ Owes(p) \subseteq {Target(p)}
  BY InvariantOf DEF Forget, At, HeldBy, ShapeOf, Releasing, Owes
<1>2. keychain' = keychain \ {Target(p)} /\ UNCHANGED <<far, rows, lost, unheld, contested, faults, told>>
  BY DEF Forget, Confirmed
<1>3. Moves(p) /\ cmd'[p].phase = "idle" /\ Target(p)' = Target(p)
  BY <1>1 DEF Forget, Confirmed, ExitsAfterRelease, Moves, Target, TypeOK, Command, Phases
<1>4. \A j \in Items : Kept(j) => Kept(j)'
  BY <1>1, <1>2 DEF Kept
<1>5. ShapeOf(p)' /\ HeldBy(p)' /\ SaidOf(p)'
  BY <1>1, <1>2, <1>3 DEF ShapeOf, HeldBy, SaidOf, Releasing
<1> QED
  BY <1>1, <1>2, <1>3, <1>4, <1>5, FarStep DEF TypeOK

-----------------------------------------------------------------------------
(***************************************************************************)
(* Steps that write a row.                                                 *)
(***************************************************************************)
OneRowPerItem == \A r, s \in RowIds : rows[r].item = rows[s].item => r = s

\* What appending a row whose Item no row names does to the table.
LEMMA Appended ==
  ASSUME TypeOK, NEW row \in Row, rows' = Append(rows, row), Free(row.item, 0)
  PROVE  /\ rows' \in Seq(Row) /\ OneRowPerItem'
         /\ RowIds' = RowIds \cup {Len(rows) + 1} /\ Len(rows) + 1 \notin RowIds
         /\ \A r \in RowIds : rows'[r] = rows[r]
         /\ rows'[Len(rows) + 1] = row
<1>1. rows \in Seq(Row) /\ 0 \notin RowIds /\ RowIds = 1 .. Len(rows) /\ Len(rows) \in Nat
  BY DEF TypeOK, RowIds
<1>2. /\ rows' \in Seq(Row) /\ RowIds' = 1 .. Len(rows) + 1
      /\ \A r \in 1 .. Len(rows) : rows'[r] = rows[r]
      /\ rows'[Len(rows) + 1] = row
  BY <1>1 DEF RowIds
<1>3. RowIds' = RowIds \cup {Len(rows) + 1} /\ Len(rows) + 1 \notin RowIds
  BY <1>1, <1>2
<1>4. OneRowPerItem'
  BY <1>1, <1>2, <1>3 DEF OneRowPerItem, Free, TypeOK
<1> QED
  BY <1>1, <1>2, <1>3, <1>4

\* What rewriting one row does to it.
LEMMA Rewritten ==
  ASSUME TypeOK, NEW r \in RowIds, NEW row \in Row, rows' = [rows EXCEPT ![r] = row],
         Free(row.item, r)
  PROVE  /\ rows' \in Seq(Row) /\ OneRowPerItem' /\ RowIds' = RowIds
         /\ rows'[r] = row /\ \A s \in RowIds \ {r} : rows'[s] = rows[s]
<1>1. rows \in Seq(Row) /\ RowIds = 1 .. Len(rows) /\ Len(rows) \in Nat
  BY DEF TypeOK, RowIds
<1>2. rows' \in Seq(Row)
  BY <1>1, ExceptSeq
<1>3. RowIds' = RowIds /\ rows'[r] = row /\ \A s \in RowIds \ {r} : rows'[s] = rows[s]
  BY DEF RowIds
<1>4. OneRowPerItem'
  BY <1>3 DEF OneRowPerItem, Free, TypeOK
<1> QED
  BY <1>2, <1>3, <1>4

\* p's own part of a step that writes a row, whose Item has to be kept.
LEMMA RowStep ==
  ASSUME NEW p \in Procs, IInv, Moves(p), NEW r, UNCHANGED <<far, keychain, told, lost, unheld>>,
         rows' \in Seq(Row), OneRowPerItem', RowIds' = RowIds \cup {r},
         \A s \in RowIds \ {r} : rows'[s] = rows[s], Kept(rows'[r].item),
         contested' \subseteq Items, faults' \in 0 .. MaxFaults,
         ShapeOf(p)', HeldBy(p)', SaidOf(p)',
         \A j \in Items : far[j] = "live" /\ (j \in Owes(p) \/ (r \in RowIds /\ rows[r].item = j))
                          => Accounted(j)'
  PROVE  IInv'
<1>1. TypeOK /\ RowsHeld
  BY DEF IInv
<1>2. TypeOK'
  BY <1>1 DEF TypeOK, Moves, OneRowPerItem
<1>3. Steady(p)
  BY <1>1 DEF Steady, Moves, TypeOK, Kept
<1>4. RowsHeld'
  BY <1>1 DEF RowsHeld, Kept
<1>5. Owed'
  BY <1>2, <1>3, OwedStep DEF Accounted
<1> QED
  BY <1>2, <1>3, <1>4, <1>5, StepOf

\* The new row takes over the Item its command owed.
LEMMA RecordNewKeeps ==
  ASSUME NEW p \in Procs, IInv, RecordNew(p)
  PROVE  IInv'
<1>0. PICK i : i = cmd[p].item
  OBVIOUS
<1>1. /\ TypeOK /\ cmd[p] \in Command /\ i \in Items /\ cmd[p].phase = "record"
      /\ Kept(i) /\ Owes(p) = {i}
  BY <1>0, InvariantOf DEF RecordNew, At, ShapeOf, HeldBy, Owes, Target
<1>2. /\ rows' = Append(rows, NewRow(i)) /\ Free(NewRow(i).item, 0) /\ NewRow(i) \in Row
      /\ NewRow(i).item = i
      /\ UNCHANGED <<far, keychain, told, lost, unheld, faults>>
      /\ contested' \subseteq contested \cup {i}
  BY <1>0, <1>1 DEF RecordNew, NewRow, Row, Contest
<1>3. Moves(p) /\ cmd'[p].phase = "idle" /\ cmd'[p].why = "none"
  BY <1>1 DEF RecordNew, Exits, Moves, TypeOK, NoCommand, Command, Phases, Whys
<1>4. ShapeOf(p)' /\ HeldBy(p)' /\ SaidOf(p)'
  BY <1>3 DEF ShapeOf, HeldBy, SaidOf, SaysRemoved, Releasing
<1>5. /\ rows' \in Seq(Row) /\ OneRowPerItem'
      /\ RowIds' = RowIds \cup {Len(rows) + 1} /\ Len(rows) + 1 \notin RowIds
      /\ \A s \in RowIds : rows'[s] = rows[s]
      /\ rows'[Len(rows) + 1].item = i
  BY <1>1, <1>2, Appended
<1>6. Accounted(i)'
  BY <1>5 DEF Accounted
<1> QED
  BY <1>1, <1>2, <1>3, <1>4, <1>5, <1>6, RowStep DEF TypeOK

\* So does the retired row made for an Item that could not be removed.
LEMMA OrphanRecordedKeeps ==
  ASSUME NEW p \in Procs, IInv, OrphanRecorded(p)
  PROVE  IInv'
<1>0. PICK i : i = Target(p)
  OBVIOUS
<1>1. /\ TypeOK /\ cmd[p] \in Command /\ i \in Items /\ cmd[p].phase = "orphan"
      /\ Kept(i) /\ Owes(p) = {i}
  BY <1>0, InvariantOf DEF OrphanRecorded, At, ShapeOf, HeldBy, Owes, Releasing
<1>2. /\ rows' = Append(rows, OrphanRow(i)) /\ Free(OrphanRow(i).item, 0) /\ OrphanRow(i) \in Row
      /\ OrphanRow(i).item = i
      /\ UNCHANGED <<far, keychain, history, faults>>
  BY <1>0, <1>1 DEF OrphanRecorded, NewRow, OrphanRow, Row
<1>3. Moves(p) /\ cmd'[p].phase = "idle" /\ cmd'[p].why = "none"
  BY <1>1 DEF OrphanRecorded, Exits, Moves, TypeOK, NoCommand, Command, Phases, Whys
<1>4. ShapeOf(p)' /\ HeldBy(p)' /\ SaidOf(p)'
  BY <1>3 DEF ShapeOf, HeldBy, SaidOf, SaysRemoved, Releasing
<1>5. /\ rows' \in Seq(Row) /\ OneRowPerItem'
      /\ RowIds' = RowIds \cup {Len(rows) + 1} /\ Len(rows) + 1 \notin RowIds
      /\ \A s \in RowIds : rows'[s] = rows[s]
      /\ rows'[Len(rows) + 1].item = i
  BY <1>1, <1>2, Appended
<1>6. Accounted(i)'
  BY <1>5 DEF Accounted
<1> QED
  BY <1>1, <1>2, <1>3, <1>4, <1>5, <1>6, RowStep DEF TypeOK, history

\* The Item the row named before passes to the command, which owes it now.
LEMMA RecordExistingKeeps ==
  ASSUME NEW p \in Procs, IInv, RecordExisting(p)
  PROVE  IInv'
<1>0. PICK i, r, old : i = cmd[p].item /\ r = Existing(i) /\ old = rows[r].item
  OBVIOUS
<1>1. /\ TypeOK /\ cmd[p] \in Command /\ i \in Items /\ cmd[p].phase = "record"
      /\ cmd[p].why = "none" /\ Kept(i) /\ Owes(p) = {i} /\ RowsHeld
  BY <1>0, InvariantOf DEF RecordExisting, At, ShapeOf, HeldBy, Owes, Target
<1>2. r \in RowIds
  BY <1>0 DEF RecordExisting, Existing, LiveRows
<1>3. rows[r] \in Row /\ old \in Items /\ Kept(old)
  BY <1>0, <1>1, <1>2, RowIsTyped DEF Row, RowsHeld
<1>4. Repointed(rows[r], i) \in Row /\ Repointed(rows[r], i).item = i
  BY <1>1, <1>3 DEF Repointed, Row
<1>5. /\ rows' = [rows EXCEPT ![r] = Repointed(rows[r], i)] /\ Free(i, r)
      /\ UNCHANGED <<far, keychain, told, lost, unheld, faults>>
      /\ contested' \subseteq contested \cup {i}
  BY <1>0 DEF RecordExisting, Contest
<1>6. /\ rows' \in Seq(Row) /\ OneRowPerItem' /\ RowIds' = RowIds
      /\ rows'[r].item = i /\ \A s \in RowIds \ {r} : rows'[s] = rows[s]
  BY <1>1, <1>2, <1>4, <1>5, Rewritten
<1>7. CASE old = i
  <2>1. Exits(p, "ok")
    BY <1>0, <1>7 DEF RecordExisting, Superseded
  <2>2. Moves(p) /\ cmd'[p].phase = "idle" /\ cmd'[p].why = "none"
    BY <1>1, <2>1 DEF Exits, Moves, TypeOK, NoCommand, Command, Phases, Whys
  <2>3. ShapeOf(p)' /\ HeldBy(p)' /\ SaidOf(p)'
    BY <2>2 DEF ShapeOf, HeldBy, SaidOf, SaysRemoved, Releasing
  <2>4. Accounted(i)'
    BY <1>2, <1>6 DEF Accounted
  <2>5. \A j \in Items : j \in Owes(p) \/ rows[r].item = j => Accounted(j)'
    BY <1>0, <1>1, <1>7, <2>4
  <2>6. RowIds' = RowIds \cup {r} /\ contested' \subseteq Items /\ faults' \in 0 .. MaxFaults
    BY <1>1, <1>2, <1>5, <1>6 DEF TypeOK
  <2> QED
    BY <1>1, <1>5, <1>6, <2>2, <2>3, <2>5, <2>6, RowStep
<1>8. CASE old # i
  <2>1. cmd' = [cmd EXCEPT ![p].phase = "remove", ![p].why = "superseded", ![p].old = old]
    BY <1>0, <1>3, <1>8, EnrollmentAssumption DEF RecordExisting, Superseded
  <2>2. Moves(p) /\ cmd'[p].phase = "remove" /\ cmd'[p].why = "superseded" /\ cmd'[p].old = old
    BY <1>1, <1>3, <2>1 DEF Moves, TypeOK, Command, Phases, Whys
  <2>3. Target(p)' = old /\ Owes(p)' = {old}
    BY <2>2 DEF Target, Owes, Releasing
  <2>4. ShapeOf(p)' /\ HeldBy(p)' /\ SaidOf(p)'
    BY <1>3, <1>5, <2>2, <2>3 DEF ShapeOf, HeldBy, SaidOf, SaysRemoved, At, Kept, Releasing
  <2>5. Accounted(i)' /\ Accounted(old)'
    BY <1>2, <1>6, <2>3 DEF Accounted
  <2> QED
    BY <1>0, <1>1, <1>2, <1>5, <1>6, <2>2, <2>4, <2>5, RowStep DEF TypeOK
<1> QED
  BY <1>7, <1>8

\* Retiring a row leaves its Item on record.
LEMMA MarkKeeps ==
  ASSUME NEW p \in Procs, IInv, Mark(p)
  PROVE  IInv'
<1>0. PICK r, i : r = cmd[p].row /\ i = rows[r].item
  OBVIOUS
<1>1. /\ TypeOK /\ cmd[p] \in Command /\ cmd[p].phase = "mark" /\ cmd[p].why = "retired"
      /\ r \in RowIds /\ Target(p) \in Items /\ Kept(Target(p)) /\ Owes(p) = {} /\ RowsHeld
  BY <1>0, InvariantOf DEF Mark, At, ShapeOf, HeldBy, Owes, Releasing
<1>2. rows[r] \in Row /\ Kept(rows[r].item)
  BY <1>1, RowIsTyped DEF RowsHeld
<1>3. Retired(rows[r]) \in Row /\ Retired(rows[r]).item = rows[r].item
  BY <1>2 DEF Retired, Row
<1>4. rows' = [rows EXCEPT ![r] = Retired(rows[r])] /\ UNCHANGED <<far, keychain, history, faults>>
  BY <1>0, <1>1 DEF Mark
<1>5. Free(Retired(rows[r]).item, r)
  BY <1>1, <1>3 DEF TypeOK, Free
<1>6. /\ rows' \in Seq(Row) /\ OneRowPerItem' /\ RowIds' = RowIds
      /\ rows'[r].item = rows[r].item /\ \A s \in RowIds \ {r} : rows'[s] = rows[s]
  BY <1>1, <1>3, <1>4, <1>5, Rewritten
<1>7. /\ Moves(p) /\ cmd'[p].phase = "remove" /\ cmd'[p].why = "retired"
      /\ Target(p)' = Target(p)
  BY <1>1 DEF Mark, Goto, Moves, Target, TypeOK, Command, Phases
<1>8. ShapeOf(p)' /\ HeldBy(p)' /\ SaidOf(p)'
  BY <1>1, <1>4, <1>7 DEF ShapeOf, HeldBy, SaidOf, SaysRemoved, At, Kept, Releasing
<1>9. Accounted(i)'
  BY <1>0, <1>1, <1>6 DEF Accounted
<1> QED
  BY <1>0, <1>1, <1>2, <1>4, <1>6, <1>7, <1>8, <1>9, RowStep DEF TypeOK, history

\* A sync leaves what every row names and whether it is retired; it writes progress
\* of the Item it holds to the one row it read.
LEMMA SyncDoes ==
  ASSUME NEW s \in Syncers, IInv, RunsOK, Syncs(s)
  PROVE  /\ rows' \in Seq(Row) /\ OneRowPerItem' /\ RowIds' = RowIds
         /\ \A r \in RowIds : rows'[r].item = rows[r].item /\ rows'[r].retired = rows[r].retired
         /\ \A r \in RowIds : rows'[r] = rows[r] \/
              /\ InFlight(s) /\ r = runs[s].row
              /\ {rows'[r].cursor, rows'[r].stamp} \subseteq
                   {rows[r].cursor, rows[r].stamp, runs[s].item}
<1>1. TypeOK
  BY DEF IInv
<1>2. CASE rows' = rows
  BY <1>1, <1>2 DEF TypeOK, OneRowPerItem, RowIds
<1>3. CASE SyncCommits(s) \/ SyncStamps(s)
  <2>0. PICK r, i : r = runs[s].row /\ i = runs[s].item
    OBVIOUS
  <2>1. InFlight(s) /\ r \in RowIds /\ i \in Items /\ rows[r] \in Row
    BY <1>1, <1>3, <2>0, RowIsTyped DEF RunsOK, InFlight, Syncing, SyncCommits, SyncStamps
  <2>2. ASSUME NEW row \in Row, rows' = [rows EXCEPT ![r] = row], row.item = rows[r].item,
               row.retired = rows[r].retired,
               {row.cursor, row.stamp} \subseteq {rows[r].cursor, rows[r].stamp, i}
        PROVE  /\ rows' \in Seq(Row) /\ OneRowPerItem' /\ RowIds' = RowIds
               /\ rows'[r] = row /\ \A t \in RowIds \ {r} : rows'[t] = rows[t]
    <3>1. Free(row.item, r)
      BY <1>1, <2>1, <2>2 DEF TypeOK, Free
    <3> QED
      BY <1>1, <2>1, <2>2, <3>1, Rewritten
  <2>3. CASE SyncCommits(s)
    <3> DEFINE row == [rows[r] EXCEPT !.cursor = i]
    <3>1. /\ row \in Row /\ row.item = rows[r].item /\ row.retired = rows[r].retired
          /\ {row.cursor, row.stamp} \subseteq {rows[r].cursor, rows[r].stamp, i}
      BY <2>1 DEF Row
    <3>2. rows' = [rows EXCEPT ![r] = row]
      BY <2>0, <2>1, <2>3 DEF SyncCommits
    <3> HIDE DEF row
    <3>3. /\ rows' \in Seq(Row) /\ OneRowPerItem' /\ RowIds' = RowIds
          /\ rows'[r] = row /\ \A t \in RowIds \ {r} : rows'[t] = rows[t]
      BY <2>2, <3>1, <3>2
    <3> QED
      BY <2>0, <2>1, <3>1, <3>3
  <2>4. CASE SyncStamps(s)
    <3> DEFINE row == [rows[r] EXCEPT !.stamp = i]
    <3>1. /\ row \in Row /\ row.item = rows[r].item /\ row.retired = rows[r].retired
          /\ {row.cursor, row.stamp} \subseteq {rows[r].cursor, rows[r].stamp, i}
      BY <2>1 DEF Row
    <3>2. rows' = [rows EXCEPT ![r] = row]
      BY <2>0, <2>1, <2>4 DEF SyncStamps
    <3> HIDE DEF row
    <3>3. /\ rows' \in Seq(Row) /\ OneRowPerItem' /\ RowIds' = RowIds
          /\ rows'[r] = row /\ \A t \in RowIds \ {r} : rows'[t] = rows[t]
      BY <2>2, <3>1, <3>2
    <3> QED
      BY <2>0, <2>1, <3>1, <3>3
  <2> QED
    BY <1>3, <2>3, <2>4
<1> QED
  BY <1>2, <1>3 DEF Syncs, SyncReads, SyncFetches, SyncEnds

LEMMA SyncKeeps ==
  ASSUME NEW s \in Syncers, IInv, RunsOK, Syncs(s), UNCHANGED <<far, keychain, cmd, history, faults>>
  PROVE  IInv'
<1>1. TypeOK
  BY DEF IInv
<1>2. TypeOK'
  BY <1>1, SyncDoes DEF TypeOK, OneRowPerItem, history
<1>3. Shape' /\ Held' /\ Said'
  BY <1>1, SyncDoes DEF IInv, Shape, ShapeOf, Held, HeldBy, Said, SaidOf, SaysRemoved, At, Kept,
                        Target, history
<1>4. RowsHeld' /\ Owed'
  BY <1>1, SyncDoes DEF IInv, RowsHeld, Kept, Owed, Accounted, Owes, Target, history
<1> QED
  BY <1>2, <1>3, <1>4 DEF IInv

\* What the runs hold after a step of one of them.
LEMMA SyncRunsOK ==
  ASSUME NEW s \in Syncers, IInv, RunsOK, Syncs(s), UNCHANGED overtaken
  PROVE  /\ RunsOK'
         /\ \A q \in Syncers \ {s} : runs'[q] = runs[q]
         /\ InFlight(s)' =>
              \/ InFlight(s) /\ runs'[s].row = runs[s].row /\ runs'[s].item = runs[s].item
              \/ runs'[s].row \in RowIds /\ runs'[s].item = rows[runs'[s].row].item
<1>1. TypeOK /\ runs \in [Syncers -> SyncRun] /\ RowIds' = RowIds
  BY SyncDoes DEF IInv, RunsOK
<1>2. ASSUME NEW phase \in {"idle", "paging", "page", "whole"}, SyncGoto(s, phase), InFlight(s)
      PROVE  /\ runs' \in [Syncers -> SyncRun]
             /\ \A q \in Syncers \ {s} : runs'[q] = runs[q]
             /\ runs'[s].row = runs[s].row /\ runs'[s].item = runs[s].item
  BY <1>1, <1>2 DEF SyncGoto, SyncRun
<1>3. ASSUME NEW r \in RowIds, SyncReads(s, r)
      PROVE  /\ runs' \in [Syncers -> SyncRun]
             /\ \A q \in Syncers \ {s} : runs'[q] = runs[q]
             /\ runs'[s].row = r /\ runs'[s].item = rows[r].item /\ rows[r].item \in Items
  <2>1. r \in Nat /\ rows[r].item \in Items
    BY <1>1, RowIsTyped DEF Row
  <2> QED
    BY <1>1, <1>3, <2>1 DEF SyncReads, SyncRun
<1>4. CASE \E r \in RowIds : SyncReads(s, r)
  BY <1>1, <1>3, <1>4 DEF RunsOK, InFlight, Syncing
<1>5. CASE SyncFetches(s) \/ SyncCommits(s)
  <2>1. InFlight(s) /\ \E phase \in {"idle", "paging", "page", "whole"} : SyncGoto(s, phase)
    BY <1>5 DEF SyncFetches, SyncCommits, InFlight, Syncing
  <2> QED
    BY <1>1, <1>2, <2>1 DEF RunsOK, InFlight, Syncing
<1>6. CASE SyncStamps(s) \/ SyncEnds(s)
  <2>1. /\ runs' \in [Syncers -> SyncRun] /\ ~ InFlight(s)'
        /\ \A q \in Syncers \ {s} : runs'[q] = runs[q]
    BY <1>1, <1>6 DEF SyncStamps, SyncEnds, SyncLeaves, NoRun, SyncRun, InFlight, Syncing
  <2> QED
    BY <1>1, <2>1 DEF RunsOK, InFlight, Syncing
<1> QED
  BY <1>4, <1>5, <1>6 DEF Syncs

-----------------------------------------------------------------------------
(***************************************************************************)
(* What one command does to the table.                                     *)
(***************************************************************************)
Fresh(row) == {row.cursor, row.stamp} \subseteq {None, row.item}

\* One row is added, and a live one only while there is room.
Added(r) ==
  /\ rows' \in Seq(Row) /\ r \notin RowIds /\ RowIds' = RowIds \cup {r}
  /\ \A s \in RowIds : rows'[s] = rows[s]
  /\ Fresh(rows'[r])
  /\ rows'[r].retired \/ Cardinality(LiveRows) < Cap

\* One row changes and does not come back to life.
Changed(r) ==
  /\ r \in RowIds /\ RowIds' = RowIds
  /\ \A s \in RowIds \ {r} : rows'[s] = rows[s]
  /\ (Fresh(rows[r]) \/ rows'[r].item # rows[r].item) => Fresh(rows'[r])
  /\ rows[r].retired => rows'[r].retired

\* A recorded connection starts with no progress, and only while there is room.
LEMMA RecordNewAdds ==
  ASSUME NEW p \in Procs, IInv, RecordNew(p)
  PROVE  Added(Len(rows) + 1)
<1>1. TypeOK /\ cmd[p].item \in Items
  BY InvariantOf DEF RecordNew, At, ShapeOf
<1> DEFINE row == NewRow(cmd[p].item)
<1>2. row \in Row /\ Fresh(row) /\ row.item = cmd[p].item
  BY <1>1 DEF NewRow, Row, Fresh
<1>3. rows' = Append(rows, row) /\ Free(row.item, 0) /\ Cardinality(LiveRows) < Cap
  BY <1>2 DEF RecordNew, Room
<1> HIDE DEF row
<1> QED
  BY <1>1, <1>2, <1>3, Appended DEF Added

\* An orphan's row is retired from the start.
LEMMA OrphanRecordedAdds ==
  ASSUME NEW p \in Procs, IInv, OrphanRecorded(p)
  PROVE  Added(Len(rows) + 1)
<1>1. TypeOK /\ Target(p) \in Items
  BY InvariantOf DEF OrphanRecorded, At, ShapeOf, Releasing
<1> DEFINE row == OrphanRow(Target(p))
<1>2. row \in Row /\ Fresh(row) /\ row.item = Target(p) /\ row.retired
  BY <1>1 DEF OrphanRow, NewRow, Row, Fresh
<1>3. rows' = Append(rows, row) /\ Free(row.item, 0)
  BY <1>2 DEF OrphanRecorded
<1> HIDE DEF row
<1> QED
  BY <1>1, <1>2, <1>3, Appended DEF Added

\* A re-link clears what belonged to the Item before.
LEMMA RecordExistingChanges ==
  ASSUME NEW p \in Procs, IInv, RecordExisting(p)
  PROVE  \E r \in RowIds : Changed(r)
<1>0. PICK i, r : i = cmd[p].item /\ r = Existing(i)
  OBVIOUS
<1>1. TypeOK /\ i \in Items /\ r \in RowIds
  BY <1>0, InvariantOf DEF RecordExisting, At, ShapeOf, Existing, LiveRows
<1>2. rows[r] \in Row
  BY <1>1, RowIsTyped
<1> DEFINE row == Repointed(rows[r], i)
<1>3. /\ row \in Row /\ row.item = i /\ row.retired = rows[r].retired
      /\ (Fresh(rows[r]) \/ row.item # rows[r].item) => Fresh(row)
  BY <1>1, <1>2 DEF Repointed, Row, Fresh
<1>4. rows' = [rows EXCEPT ![r] = row] /\ Free(row.item, r)
  BY <1>0, <1>3 DEF RecordExisting
<1> HIDE DEF row
<1> QED
  BY <1>1, <1>3, <1>4, Rewritten DEF Changed

\* A retirement touches neither the Item nor its progress.
LEMMA MarkChanges ==
  ASSUME NEW p \in Procs, IInv, Mark(p)
  PROVE  \E r \in RowIds : Changed(r)
<1>0. PICK r : r = cmd[p].row
  OBVIOUS
<1>1. TypeOK /\ r \in RowIds
  BY <1>0, InvariantOf DEF Mark, At, ShapeOf
<1>2. rows[r] \in Row
  BY <1>1, RowIsTyped
<1> DEFINE row == Retired(rows[r])
<1>3. row \in Row /\ row.item = rows[r].item /\ row.retired /\ (Fresh(rows[r]) => Fresh(row))
  BY <1>2 DEF Retired, Row, Fresh
<1>4. rows' = [rows EXCEPT ![r] = row] /\ Free(row.item, r)
  BY <1>0, <1>1, <1>3 DEF Mark, TypeOK, Free
<1> HIDE DEF row
<1> QED
  BY <1>1, <1>3, <1>4, Rewritten DEF Changed

\* No other action touches the table.
LEMMA RowsStep ==
  ASSUME IInv, Commands
  PROVE  rows' = rows \/ \E r : Added(r) \/ Changed(r)
<1>2. ASSUME NEW p \in Enrollers, Enrolls(p)
      PROVE  rows' = rows \/ \E r : Added(r) \/ Changed(r)
  <2>1. p \in Procs
    BY DEF Procs
  <2>2. ASSUME ~ RecordNew(p), ~ RecordExisting(p), ~ OrphanRecorded(p) PROVE rows' = rows
    BY <1>2, <2>2 DEF Enrolls, EnrollStarts, Abandoned, Minted, Returned, ExchangeReplyLost, GetItem,
       GetItemFails, Keep, KeepFails, RecordFails, RecordRefused, RecordClashes, OrphanNotRecorded
  <2> QED
    BY <2>1, <2>2, RecordNewAdds, RecordExistingChanges, OrphanRecordedAdds
<1>3. ASSUME NEW p \in Retirers, Retires(p) PROVE rows' = rows \/ \E r : Changed(r)
  <2>1. p \in Procs
    BY DEF Procs
  <2>2. ASSUME ~ Mark(p) PROVE rows' = rows
    BY <1>3, <2>2 DEF Retires, RetireStarts, RetireRetries, RetireAgain, RetireReads, MarkFails
  <2> QED
    BY <2>1, <2>2, MarkChanges
<1>4. ASSUME NEW p \in Procs, Releases(p) \/ Killed(p) PROVE rows' = rows
  BY <1>4 DEF Releases, NothingToRemove, Remove, RemoveReplyLost, RemoveFails, AlreadyRemoved,
              Forget, ForgetFails, Killed
<1> QED
  BY <1>2, <1>3, <1>4 DEF Commands

-----------------------------------------------------------------------------
(***************************************************************************)
(* The theorems.                                                           *)
(***************************************************************************)
LEMMA InitHolds == Init => IInv
<1> SUFFICES ASSUME Init PROVE IInv
  OBVIOUS
<1> USE EnrollmentAssumption
<1>1. /\ cmd = [p \in Procs |-> NoCommand] /\ NoCommand \in Command
      /\ told = {} /\ lost = {} /\ unheld = {} /\ contested = {} /\ faults = 0
      /\ \A p \in Procs : cmd[p].phase = "idle" /\ cmd[p].exit = "none"
  BY DEF Init, NoCommand, Command, Phases, Whys
<1>2. Shape /\ Held /\ Said
  BY <1>1 DEF Shape, ShapeOf, Held, HeldBy, Said, SaidOf, SaysRemoved, At, Releasing
<1>3. CASE far = [i \in Items |-> "none"] /\ keychain = {} /\ rows = <<>>
  <2>1. RowIds = {} /\ rows \in Seq(Row)
    BY <1>3 DEF RowIds
  <2>2. TypeOK
    BY <1>1, <1>3, <2>1 DEF TypeOK
  <2>3. RowsHeld /\ Owed
    BY <1>3, <2>1 DEF RowsHeld, Owed
  <2> QED
    BY <1>2, <2>2, <2>3 DEF IInv
<1>4. CASE /\ far = [i \in Items |-> IF i = First THEN "live" ELSE "none"] /\ keychain = {First}
           /\ rows = <<[item |-> First, cursor |-> First, stamp |-> First,
                        retired |-> FALSE]>>
  <2>1. RowIds = {1} /\ rows \in Seq(Row) /\ rows[1].item = First
    BY <1>4 DEF RowIds, Row
  <2>2. TypeOK
    BY <1>1, <1>4, <2>1 DEF TypeOK
  <2>3. RowsHeld /\ Owed
    BY <1>4, <2>1 DEF RowsHeld, Kept, Owed, Accounted
  <2> QED
    BY <1>2, <2>2, <2>3 DEF IInv
<1> QED
  BY <1>3, <1>4 DEF Init

\* Every command keeps the invariant: one lemma for each action.
LEMMA CommandsKeep ==
  ASSUME IInv, Commands
  PROVE  IInv'
<1>2. ASSUME NEW p \in Enrollers, Enrolls(p) PROVE IInv'
  <2>1. p \in Procs
    BY DEF Procs
  <2> QED
    BY <1>2, <2>1, EnrollStartsKeeps, AbandonedKeeps, MintedKeeps, ReturnedKeeps,
       ExchangeReplyLostKeeps, GetItemKeeps, GetItemFailsKeeps, KeepKeeps, KeepFailsKeeps,
       RecordFailsKeeps, RecordNewKeeps, RecordRefusedKeeps, RecordExistingKeeps,
       RecordClashesKeeps, OrphanRecordedKeeps, OrphanNotRecordedKeeps DEF Enrolls
<1>3. ASSUME NEW p \in Retirers, Retires(p) PROVE IInv'
  <2>1. p \in Procs
    BY DEF Procs
  <2> QED
    BY <1>3, <2>1, RetireStartsKeeps, MarkKeeps, MarkFailsKeeps DEF Retires
<1>4. ASSUME NEW p \in Procs, Releases(p) \/ Killed(p) PROVE IInv'
  BY <1>4, NothingToRemoveKeeps, RemoveKeeps, RemoveReplyLostKeeps, RemoveFailsKeeps,
     AlreadyRemovedKeeps, ForgetKeeps, ForgetFailsKeeps, KilledKeeps DEF Releases
<1> QED
  BY <1>2, <1>3, <1>4 DEF Commands

\* The rows a run read are there still.
LEMMA CommandsRunsOK ==
  ASSUME IInv, RunsOK, Commands, NoteOvertaken, UNCHANGED runs
  PROVE  RunsOK'
<1>1. RowIds \subseteq RowIds'
  BY RowsStep DEF RowIds, Added, Changed
<1> QED
  BY <1>1 DEF RunsOK, NoteOvertaken, InFlight, Syncing

LEMMA StepKeeps == IInv /\ RunsOK /\ [Next]_vars => (IInv /\ RunsOK)'
<1> SUFFICES ASSUME IInv, RunsOK, [Next]_vars PROVE IInv' /\ RunsOK'
  OBVIOUS
<1>1. CASE Commands /\ NoteOvertaken /\ UNCHANGED runs
  BY <1>1, CommandsKeep, CommandsRunsOK
<1>2. ASSUME NEW s \in Syncers, Syncs(s), UNCHANGED <<far, keychain, cmd, history, overtaken, faults>>
      PROVE  IInv' /\ RunsOK'
  BY <1>2, SyncKeeps, SyncRunsOK
<1>3. CASE UNCHANGED vars
  BY <1>3 DEF vars, history, IInv, TypeOK, Shape, ShapeOf, Held, HeldBy, Said, SaidOf, SaysRemoved,
              At, Kept, Target, RowsHeld, RowIds, Owed, Accounted, Owes, RunsOK, InFlight, Syncing
<1> QED
  BY <1>1, <1>2, <1>3 DEF Next

\* The inductive invariant holds in every behaviour of any number of commands
\* and syncs.
THEOREM Invariant == Spec => [](IInv /\ RunsOK)
<1>1. Init => RunsOK
  BY DEF Init, RunsOK, NoRun, SyncRun, InFlight, Syncing
<1> QED
  BY <1>1, InitHolds, StepKeeps, PTL DEF Spec

\* Every variable keeps its type and no two connections name one Item.
THEOREM TypeCorrect == Spec => []TypeOK
<1>1. IInv => TypeOK
  BY DEF IInv
<1> QED
  BY <1>1, Invariant, PTL

\* An Item that bills is on record, in the hands of a running command, or was
\* named as beyond this product's reach, for any number of Items and commands;
\* it is lost only with a process, a reply, or a token never stored.
THEOREM EveryBillIsAccountedFor == Spec => []NothingBillsUnseen
<1>1. IInv => NothingBillsUnseen
  <2> SUFFICES ASSUME IInv, NEW i \in Items, far[i] = "live"
               PROVE  OnRecord(i) \/ (\E p \in Procs : i \in InHand(p)) \/ i \in told \cup lost \cup unheld
    BY DEF NothingBillsUnseen
  <2>1. Accounted(i)
    BY DEF IInv, Owed
  <2>2. ASSUME NEW r \in RowIds, rows[r].item = i PROVE OnRecord(i)
    BY <2>2 DEF IInv, RowsHeld, Kept, OnRecord
  <2>3. ASSUME NEW p \in Procs, i \in Owes(p) PROVE i \in InHand(p)
    BY <2>3, EnrollmentAssumption DEF Owes, InHand, Target, At, Releasing
  <2> QED
    BY <2>1, <2>2, <2>3 DEF Accounted
<1> QED
  BY <1>1, Invariant, PTL

\* What a command says is removed is removed, whatever failed, died or ran beside
\* it - but for a token that never reached the keychain.
THEOREM SaidIsTrue == Spec => []SaidRemovedIsGone
<1>1. IInv => SaidRemovedIsGone
  BY DEF IInv, Said, SaidOf, SaidRemovedIsGone
<1> QED
  BY <1>1, Invariant, PTL

-----------------------------------------------------------------------------
(***************************************************************************)
(* Progress and the cap.                                                   *)
(***************************************************************************)
\* What a run holds is of the Item the row names, or the row was re-linked since.
FreshInv ==
  /\ \A r \in RowIds \ overtaken : Fresh(rows[r])
  /\ \A s \in Syncers : InFlight(s) =>
       runs[s].row \in overtaken \/ runs[s].item = rows[runs[s].row].item

LEMMA CommandsKeepFresh ==
  ASSUME IInv, RunsOK, FreshInv, Commands, NoteOvertaken, UNCHANGED runs
  PROVE  FreshInv'
<1>1. ASSUME NEW r \in RowIds' \ overtaken'
      PROVE  Fresh(rows'[r])
  <2>1. CASE rows' = rows
    BY <1>1, <2>1 DEF FreshInv, NoteOvertaken, RowIds
  <2>2. ASSUME NEW t, Added(t) PROVE Fresh(rows'[r])
    BY <1>1, <2>2 DEF FreshInv, NoteOvertaken, Added
  <2>3. ASSUME NEW t, Changed(t) PROVE Fresh(rows'[r])
    BY <1>1, <2>3 DEF FreshInv, NoteOvertaken, Changed
  <2> QED
    BY <2>1, <2>2, <2>3, RowsStep
<1>2. ASSUME NEW s \in Syncers, InFlight(s)'
      PROVE  runs'[s].row \in overtaken' \/ runs'[s].item = rows'[runs'[s].row].item
  <2>1. InFlight(s) /\ runs[s].row \in RowIds /\ runs'[s] = runs[s]
    BY <1>2 DEF InFlight, Syncing, RunsOK
  <2> QED
    BY <2>1 DEF FreshInv, NoteOvertaken
<1>3. \A r \in RowIds' \ overtaken' : Fresh(rows[r])'
  BY <1>1 DEF Fresh
<1> QED
  BY <1>2, <1>3 DEF FreshInv

LEMMA SyncKeepsFresh ==
  ASSUME IInv, RunsOK, FreshInv, NEW s \in Syncers, Syncs(s), UNCHANGED overtaken
  PROVE  FreshInv'
<1>1. ASSUME NEW r \in RowIds' \ overtaken' PROVE Fresh(rows[r])'
  <2>1. r \in RowIds /\ r \notin overtaken /\ Fresh(rows[r]) /\ rows'[r].item = rows[r].item
    BY <1>1, SyncDoes DEF FreshInv
  <2>2. CASE rows'[r] = rows[r]
    BY <2>1, <2>2 DEF Fresh
  <2>3. CASE /\ InFlight(s) /\ r = runs[s].row
             /\ {rows'[r].cursor, rows'[r].stamp} \subseteq
                  {rows[r].cursor, rows[r].stamp, runs[s].item}
    <3>1. runs[s].item = rows[r].item
      BY <2>1, <2>3 DEF FreshInv
    <3> QED
      BY <2>1, <2>3, <3>1 DEF Fresh
  <2> QED
    BY <2>1, <2>2, <2>3, SyncDoes
<1>2. ASSUME NEW q \in Syncers, InFlight(q)'
      PROVE  (runs[q].row \in overtaken \/ runs[q].item = rows[runs[q].row].item)'
  <2>1. CASE q # s
    <3>1. InFlight(q) /\ runs'[q] = runs[q] /\ runs[q].row \in RowIds
      BY <1>2, <2>1, SyncRunsOK DEF InFlight, Syncing, RunsOK
    <3> QED
      BY <3>1, SyncDoes DEF FreshInv
  <2>2. CASE q = s
    <3>1. CASE InFlight(s) /\ runs'[s].row = runs[s].row /\ runs'[s].item = runs[s].item
      <4>1. runs[s].row \in RowIds
        BY <3>1 DEF RunsOK
      <4> QED
        BY <2>2, <3>1, <4>1, SyncDoes DEF FreshInv
    <3>2. CASE runs'[s].row \in RowIds /\ runs'[s].item = rows[runs'[s].row].item
      BY <2>2, <3>2, SyncDoes
    <3> QED
      BY <1>2, <2>2, <3>1, <3>2, SyncRunsOK
  <2> QED
    BY <2>1, <2>2
<1> QED
  BY <1>1, <1>2 DEF FreshInv

\* The cursor and the success stamp of a connection are of the Item it names,
\* through re-links, retirements and syncs in any order, unless the latest re-link
\* overtook a sync that had read the row.
THEOREM ProgressIsFresh == Spec => []ProgressIsOfItsItem
<1>1. Init => FreshInv
  BY DEF Init, RowIds, Fresh, FreshInv, InFlight, Syncing, NoRun
<1>2. IInv /\ RunsOK /\ FreshInv /\ [Next]_vars => FreshInv'
  <2> SUFFICES ASSUME IInv, RunsOK, FreshInv, [Next]_vars PROVE FreshInv'
    OBVIOUS
  <2>1. CASE Commands /\ NoteOvertaken /\ UNCHANGED runs
    BY <2>1, CommandsKeepFresh
  <2>2. ASSUME NEW s \in Syncers, Syncs(s), UNCHANGED overtaken PROVE FreshInv'
    BY <2>2, SyncKeepsFresh
  <2>3. CASE UNCHANGED vars
    BY <2>3 DEF vars, FreshInv, Fresh, RowIds, InFlight, Syncing
  <2> QED
    BY <2>1, <2>2, <2>3 DEF Next
<1>3. FreshInv => ProgressIsOfItsItem
  BY DEF ProgressIsOfItsItem, Fresh, FreshInv
<1> QED
  BY <1>1, <1>2, <1>3, Invariant, PTL DEF Spec

\* However many enrollments saw room for one more connection, the live connections
\* stay within the cap.
THEOREM CapIsKept == Spec => []CapHolds
<1>1. IInv => IsFiniteSet(LiveRows)
  <2> SUFFICES ASSUME IInv PROVE IsFiniteSet(LiveRows)
    OBVIOUS
  <2>1. RowIds = 1 .. Len(rows) /\ Len(rows) \in Nat
    BY DEF IInv, TypeOK, RowIds
  <2>2. IsFiniteSet(RowIds)
    BY <2>1, FS_Interval
  <2> QED
    BY <2>2, FS_Subset DEF LiveRows
<1>2. Init => CapHolds
  <2> SUFFICES ASSUME Init PROVE CapHolds
    OBVIOUS
  <2>1. LiveRows \subseteq {1}
    BY DEF Init, LiveRows, RowIds
  <2>2. Cardinality({1}) = 1 /\ IsFiniteSet({1})
    BY FS_Singleton
  <2>3. Cardinality(LiveRows) <= 1 /\ Cardinality(LiveRows) \in Nat
    BY <2>1, <2>2, FS_Subset, FS_CardinalityType
  <2> QED
    BY <2>3, EnrollmentAssumption DEF CapHolds
<1>3. IInv /\ RunsOK /\ CapHolds /\ [Next]_vars => CapHolds'
  <2> SUFFICES ASSUME IInv, RunsOK, CapHolds, [Next]_vars PROVE CapHolds'
    OBVIOUS
  <2>1. IsFiniteSet(LiveRows) /\ Cardinality(LiveRows) \in Nat /\ Cap \in Nat
    BY <1>1, FS_CardinalityType, EnrollmentAssumption
  <2>2. ASSUME LiveRows' \subseteq LiveRows PROVE CapHolds'
    <3>1. Cardinality(LiveRows') <= Cardinality(LiveRows) /\ Cardinality(LiveRows') \in Nat
      BY <2>1, <2>2, FS_Subset, FS_CardinalityType
    <3> QED
      BY <2>1, <3>1 DEF CapHolds
  <2>3. ASSUME NEW r, LiveRows' = LiveRows \cup {r}, Cardinality(LiveRows) < Cap
        PROVE  CapHolds'
    <3>1. /\ Cardinality(LiveRows \cup {r}) <= Cardinality(LiveRows) + 1
          /\ Cardinality(LiveRows \cup {r}) \in Nat
      <4>1. Cardinality(LiveRows \cup {r}) \in {Cardinality(LiveRows), Cardinality(LiveRows) + 1}
        BY <2>1, FS_AddElement
      <4> QED
        BY <2>1, <4>1
    <3> QED
      BY <2>1, <2>3, <3>1 DEF CapHolds
  <2>4. CASE rows' = rows
    BY <2>2, <2>4 DEF LiveRows, RowIds
  <2>5. ASSUME NEW r, Changed(r) PROVE CapHolds'
    <3>1. LiveRows' \subseteq LiveRows
      BY <2>5 DEF Changed, LiveRows
    <3> QED
      BY <3>1, <2>2
  <2>6. ASSUME NEW r, Added(r) PROVE CapHolds'
    <3>1. CASE rows'[r].retired
      <4>1. LiveRows' \subseteq LiveRows
        BY <2>6, <3>1 DEF Added, LiveRows
      <4> QED
        BY <4>1, <2>2
    <3>2. CASE ~ rows'[r].retired
      <4>1. LiveRows' = LiveRows \cup {r} /\ Cardinality(LiveRows) < Cap
        BY <2>6, <3>2 DEF Added, LiveRows
      <4> QED
        BY <4>1, <2>3
    <3> QED
      BY <3>1, <3>2
  <2>7. ASSUME NEW s \in Syncers, Syncs(s) PROVE CapHolds'
    <3>1. LiveRows' \subseteq LiveRows
      BY <2>7, SyncDoes DEF LiveRows
    <3> QED
      BY <3>1, <2>2
  <2> QED
    BY <2>4, <2>5, <2>6, <2>7, RowsStep DEF Next, vars
<1> QED
  BY <1>2, <1>3, Invariant, PTL DEF Spec

-----------------------------------------------------------------------------
(***************************************************************************)
(* The Item of a live connection.  A command that is to remove one, other  *)
(* than to undo its own recording, is about an Item no live row names: the *)
(* rows of one institution are one live row at most, so an Item that is    *)
(* refused is not the one that is live; a re-link has taken the superseded *)
(* one from its row; a retirement has retired the row it read.  Whoever    *)
(* names the Item after that finds it in another command's hand.           *)
(***************************************************************************)
OneLiveRowPerBank ==
  \A r, s \in LiveRows : Bank[rows[r].item] = Bank[rows[s].item] => r = s

\* No live row names what p is to remove, but the one it is about to retire.
Spares(p) ==
  cmd[p].phase \in {"mark", "remove"} /\ cmd[p].why # "undo" =>
    \A s \in LiveRows :
      rows[s].item = Target(p) =>
        Target(p) \in contested \/ (cmd[p].phase = "mark" /\ s = cmd[p].row)

LiveKept == \A r \in LiveRows : far[rows[r].item] # "removed" \/ rows[r].item \in contested

BInv == OneLiveRowPerBank /\ (\A p \in Procs : Spares(p)) /\ LiveKept

\* A step that names no Item anew: the live rows that are left name what they
\* named, and nothing a live row names is removed unless that is contested.
LEMMA NamingNothing ==
  ASSUME BInv,
         \A q \in Procs : cmd'[q] = cmd[q] \/ Spares(q)',
         LiveRows' \subseteq LiveRows, \A s \in LiveRows' : rows'[s].item = rows[s].item,
         contested \subseteq contested',
         \A s \in LiveRows' : far'[rows[s].item] = "removed" =>
           far[rows[s].item] = "removed" \/ rows[s].item \in contested'
  PROVE  BInv'
<1>1. OneLiveRowPerBank'
  BY DEF BInv, OneLiveRowPerBank
<1>2. ASSUME NEW q \in Procs, cmd'[q] = cmd[q] PROVE Spares(q)'
  BY <1>2 DEF BInv, Spares, Target
<1>3. LiveKept'
  BY DEF BInv, LiveKept
<1> QED
  BY <1>1, <1>2, <1>3 DEF BInv

\* A step by which a row comes to name p's Item: a command that is to remove that
\* Item has it in hand.
LEMMA NamingOne ==
  ASSUME IInv, BInv, NEW p \in Procs, NEW i \in Items, NEW r,
         \A q \in Procs \ {p} : cmd'[q] = cmd[q], Spares(p)', OneLiveRowPerBank',
         \A s \in LiveRows' \ {r} : s \in LiveRows /\ rows'[s].item = rows[s].item,
         r \in LiveRows' => rows'[r].item = i, Contest(p, i), far' = far
  PROVE  BInv'
<1>1. contested \subseteq contested' /\ (far[i] = "removed" => i \in contested')
  BY DEF Contest
<1>2. ASSUME NEW q \in Procs \ {p} PROVE Spares(q)'
  <2> SUFFICES ASSUME cmd[q].phase \in {"mark", "remove"}, cmd[q].why # "undo",
                      NEW s \in LiveRows', rows'[s].item = Target(q)
               PROVE  Target(q) \in contested' \/ (cmd[q].phase = "mark" /\ s = cmd[q].row)
    BY DEF Spares, Target
  <2>1. CASE s = r
    <3>1. ShapeOf(q)
      BY DEF IInv, Shape
    <3>2. Target(q) = i /\ i # None
      BY <2>1, EnrollmentAssumption
    <3>3. i \in InHand(q)
      BY <3>2 DEF InHand, At, Target
    <3> QED
      BY <3>2, <3>3 DEF Contest
  <2>2. CASE s # r
    <3>1. s \in LiveRows /\ rows[s].item = Target(q)
      BY <2>2
    <3> QED
      BY <1>1, <3>1 DEF BInv, Spares
  <2> QED
    BY <2>1, <2>2
<1>3. LiveKept'
  BY <1>1 DEF BInv, LiveKept
<1> QED
  BY <1>2, <1>3 DEF BInv

\* What p does is none of its business of removing: its next step is no removal,
\* or the undoing of its own recording.
Elsewhere(p) ==
  /\ \A q \in Procs \ {p} : cmd'[q] = cmd[q]
  /\ cmd'[p].phase \notin {"mark", "remove"} \/ cmd'[p].why = "undo"

\* A step that goes elsewhere and leaves the table.
LEMMA Elsewhither ==
  ASSUME BInv, NEW p \in Procs, Elsewhere(p), UNCHANGED rows, contested \subseteq contested',
         \A s \in LiveRows : far'[rows[s].item] = "removed" =>
           far[rows[s].item] = "removed" \/ rows[s].item \in contested'
  PROVE  BInv'
<1>1. Spares(p)'
  BY DEF Elsewhere, Spares
<1>2. LiveRows' = LiveRows
  BY DEF LiveRows, RowIds
<1> QED
  BY <1>1, <1>2, NamingNothing DEF Elsewhere

LEMMA EnrollStaysElsewhere ==
  ASSUME IInv, BInv, NEW p \in Procs,
         \/ EnrollStarts(p) \/ Abandoned(p) \/ GetItem(p) \/ GetItemFails(p) \/ Keep(p)
         \/ KeepFails(p) \/ RecordFails(p) \/ RecordClashes(p) \/ OrphanNotRecorded(p)
         \/ \E i \in Items : Minted(p, i) \/ Returned(p, i) \/ ExchangeReplyLost(p, i)
  PROVE  BInv'
<1>1. TypeOK /\ cmd \in [Procs -> Command]
  BY DEF IInv, TypeOK
<1>2. UNCHANGED <<rows, contested>>
  BY DEF EnrollStarts, Abandoned, GetItem, GetItemFails, Keep, KeepFails, RecordFails,
         RecordClashes, OrphanNotRecorded, Minted, Returned, ExchangeReplyLost, history
<1>3. ASSUME NEW i \in Items, far'[i] = "removed" PROVE far[i] = "removed"
  BY <1>1, <1>3 DEF TypeOK, EnrollStarts, Abandoned, GetItem, GetItemFails, Keep, KeepFails,
         RecordFails, RecordClashes, OrphanNotRecorded, Minted, Returned, ExchangeReplyLost
<1>4. Elsewhere(p)
  <2>1. EnrollStarts(p) => Elsewhere(p)
    BY <1>1 DEF EnrollStarts, NoCommand, Elsewhere
  <2>2. Abandoned(p) \/ GetItemFails(p) \/ OrphanNotRecorded(p) => Elsewhere(p)
    BY <1>1 DEF Abandoned, GetItemFails, OrphanNotRecorded, Exits, NoCommand, Elsewhere
  <2>3. GetItem(p) \/ Keep(p) => Elsewhere(p)
    BY <1>1 DEF GetItem, Keep, Goto, Elsewhere, Command
  <2>4. KeepFails(p) \/ RecordFails(p) \/ RecordClashes(p) => Elsewhere(p)
    BY <1>1 DEF KeepFails, RecordFails, RecordClashes, Undo, Elsewhere, Command
  <2>5. ASSUME NEW i \in Items, Minted(p, i) \/ Returned(p, i) \/ ExchangeReplyLost(p, i)
        PROVE  Elsewhere(p)
    BY <1>1, <2>5 DEF Minted, Returned, ExchangeReplyLost, Exits, NoCommand, Elsewhere, Command
  <2> QED
    BY <2>1, <2>2, <2>3, <2>4, <2>5
<1>5. \A s \in LiveRows : rows[s].item \in Items
  BY <1>1, RowIsTyped DEF LiveRows, Row
<1> QED
  BY <1>2, <1>3, <1>4, <1>5, Elsewhither

\* What is removed at the aggregator is named by no live row, or contested.
LEMMA RemovedIsNotLive ==
  ASSUME IInv, BInv, NEW p \in Procs, Removes(p), NEW s \in LiveRows,
         far'[rows[s].item] = "removed", far[rows[s].item] # "removed"
  PROVE  rows[s].item \in contested'
<1>1. TypeOK /\ rows[s].item \in Items
  BY RowIsTyped DEF IInv, LiveRows, Row
<1>2. rows[s].item = Target(p) /\ cmd[p].phase = "remove"
  BY <1>1 DEF Removes, TypeOK, At
<1>3. CASE cmd[p].why = "undo"
  BY <1>2, <1>3 DEF Removes
<1>4. CASE cmd[p].why # "undo"
  <2>1. Target(p) \in contested
    BY <1>2, <1>4 DEF BInv, Spares
  <2> QED
    BY <1>2, <2>1 DEF Removes
<1> QED
  BY <1>3, <1>4

LEMMA ReleaseSpares ==
  ASSUME IInv, BInv, NEW p \in Procs, Releases(p) \/ Killed(p)
  PROVE  BInv'
<1>1. TypeOK /\ cmd \in [Procs -> Command]
  BY DEF IInv, TypeOK
<1>2. UNCHANGED rows /\ contested \subseteq contested'
  BY DEF Releases, NothingToRemove, Remove, RemoveReplyLost, RemoveFails, AlreadyRemoved, Forget,
         ForgetFails, Killed, Removes
<1>3. Elsewhere(p)
  <2>1. Confirmed(p) => Elsewhere(p)
    BY <1>1 DEF Confirmed, ExitsAfterRelease, Elsewhere, Command
  <2>2. Unconfirmed(p) => Elsewhere(p)
    BY <1>1 DEF Unconfirmed, ExitsAfterRelease, Goto, Elsewhere, Command
  <2>3. Goto(p, "forget") => Elsewhere(p)
    BY <1>1 DEF Goto, Elsewhere, Command
  <2>4. Exits(p, "killed") => Elsewhere(p)
    BY <1>1 DEF Exits, NoCommand, Elsewhere
  <2> QED
    BY <2>1, <2>2, <2>3, <2>4 DEF Releases, NothingToRemove, Remove, RemoveReplyLost, RemoveFails,
       AlreadyRemoved, Forget, ForgetFails, Killed
<1>4. Removes(p) \/ far' = far
  BY DEF Releases, NothingToRemove, Remove, RemoveReplyLost, RemoveFails, AlreadyRemoved, Forget,
         ForgetFails, Killed
<1> QED
  BY <1>2, <1>3, <1>4, RemovedIsNotLive, Elsewhither

\* An Item that is refused is not the one that is live.
LEMMA RecordRefusedSpares ==
  ASSUME IInv, BInv, NEW p \in Procs, RecordRefused(p)
  PROVE  BInv'
<1>1. /\ cmd \in [Procs -> Command] /\ UNCHANGED <<far, rows, contested>>
      /\ cmd[p].phase = "record" /\ cmd[p].why = "none"
  BY InvariantOf DEF IInv, TypeOK, RecordRefused, history, At, ShapeOf
<1>2. /\ \A q \in Procs \ {p} : cmd'[q] = cmd[q]
      /\ cmd'[p].why = "refused" /\ cmd'[p].item = cmd[p].item /\ Target(p)' = cmd[p].item
  BY <1>1 DEF RecordRefused, Refuse, Command, Target
<1>3. LiveRows' = LiveRows
  BY <1>1 DEF LiveRows, RowIds
<1>4. ASSUME NEW s \in LiveRows, rows[s].item = cmd[p].item PROVE FALSE
  <2>1. Existing(cmd[p].item) = s
    BY <1>4 DEF Existing, BInv, OneLiveRowPerBank
  <2>2. s # 0
    BY <1>4, RowIsTyped DEF IInv, TypeOK, LiveRows, RowIds
  <2> QED
    BY <1>4, <2>1, <2>2 DEF RecordRefused
<1>5. Spares(p)'
  BY <1>1, <1>2, <1>3, <1>4 DEF Spares
<1> QED
  BY <1>1, <1>2, <1>3, <1>5, NamingNothing

LEMMA RecordNewSpares ==
  ASSUME IInv, BInv, NEW p \in Procs, RecordNew(p)
  PROVE  BInv'
<1>1. /\ TypeOK /\ cmd[p].item \in Items /\ cmd \in [Procs -> Command]
      /\ far' = far /\ Contest(p, cmd[p].item)
  BY InvariantOf DEF IInv, TypeOK, RecordNew, At, ShapeOf
<1> DEFINE i == cmd[p].item
           r == Len(rows) + 1
           row == NewRow(i)
<1>2. row \in Row /\ row.item = i
  BY <1>1 DEF NewRow, Row
<1>3. /\ RowIds' = RowIds \cup {r} /\ r \notin RowIds /\ rows'[r] = row
      /\ \A s \in RowIds : rows'[s] = rows[s]
  <2>1. rows' = Append(rows, row) /\ Free(row.item, 0)
    BY <1>2 DEF RecordNew
  <2> HIDE DEF row
  <2> QED
    BY <1>1, <1>2, <2>1, Appended
<1>4. ASSUME NEW s \in LiveRows' \ {r} PROVE s \in LiveRows /\ rows'[s].item = rows[s].item
  BY <1>3 DEF LiveRows
<1>5. ASSUME NEW s \in LiveRows PROVE Bank[rows[s].item] # Bank[i]
  <2>1. \A t \in LiveRows : t # 0
    BY <1>1 DEF LiveRows, TypeOK, RowIds
  <2>2. Existing(i) = 0
    BY DEF RecordNew
  <2> QED
    BY <2>1, <2>2 DEF Existing
<1>6. OneLiveRowPerBank'
  BY <1>2, <1>3, <1>4, <1>5 DEF BInv, OneLiveRowPerBank
<1>7. /\ \A q \in Procs \ {p} : cmd'[q] = cmd[q]
      /\ cmd'[p].phase = "idle"
  BY <1>1 DEF RecordNew, Exits, NoCommand
<1>8. Spares(p)'
  BY <1>7 DEF Spares
<1> HIDE DEF r, row
<1> QED
  BY <1>1, <1>2, <1>3, <1>4, <1>6, <1>7, <1>8, NamingOne

LEMMA OrphanRecordedSpares ==
  ASSUME IInv, BInv, NEW p \in Procs, OrphanRecorded(p)
  PROVE  BInv'
<1>1. /\ TypeOK /\ Target(p) \in Items /\ cmd \in [Procs -> Command]
      /\ UNCHANGED <<far, contested>>
  BY InvariantOf DEF IInv, TypeOK, OrphanRecorded, At, ShapeOf, Releasing, history
<1> DEFINE r == Len(rows) + 1
           row == OrphanRow(Target(p))
<1>2. row \in Row /\ row.item = Target(p) /\ row.retired
  BY <1>1 DEF OrphanRow, NewRow, Row
<1>3. /\ RowIds' = RowIds \cup {r} /\ r \notin RowIds /\ rows'[r] = row
      /\ \A s \in RowIds : rows'[s] = rows[s]
  <2>1. rows' = Append(rows, row) /\ Free(row.item, 0)
    BY <1>2 DEF OrphanRecorded
  <2> HIDE DEF row
  <2> QED
    BY <1>1, <1>2, <2>1, Appended
<1>4. LiveRows' = LiveRows /\ \A s \in LiveRows : rows'[s] = rows[s]
  BY <1>2, <1>3 DEF LiveRows
<1>5. (\A q \in Procs \ {p} : cmd'[q] = cmd[q]) /\ cmd'[p].phase = "idle"
  BY <1>1 DEF OrphanRecorded, Exits, NoCommand
<1>6. Spares(p)'
  BY <1>5 DEF Spares
<1> QED
  BY <1>1, <1>4, <1>5, <1>6, NamingNothing

\* A re-link leaves no row that names the Item it supersedes.
LEMMA RecordExistingSpares ==
  ASSUME IInv, BInv, NEW p \in Procs, RecordExisting(p)
  PROVE  BInv'
<1>0. PICK i, r : i = cmd[p].item /\ r = Existing(i)
  OBVIOUS
<1>1. /\ TypeOK /\ i \in Items /\ r \in LiveRows /\ cmd \in [Procs -> Command]
      /\ Bank[rows[r].item] = Bank[i] /\ far' = far /\ Contest(p, i)
      /\ cmd[p].phase = "record" /\ cmd[p].why = "none"
  BY <1>0, InvariantOf DEF IInv, TypeOK, RecordExisting, At, ShapeOf, Existing
<1>2. rows[r] \in Row /\ r \in RowIds
  BY <1>1, RowIsTyped DEF LiveRows
<1> DEFINE row == Repointed(rows[r], i)
           old == rows[r].item
<1>3. row \in Row /\ row.item = i /\ row.retired = rows[r].retired
  BY <1>1, <1>2 DEF Repointed, Row
<1>4. /\ RowIds' = RowIds /\ rows'[r] = row
      /\ \A s \in RowIds \ {r} : rows'[s] = rows[s]
  <2>1. rows' = [rows EXCEPT ![r] = row] /\ Free(row.item, r)
    BY <1>0, <1>3 DEF RecordExisting
  <2> HIDE DEF row
  <2> QED
    BY <1>1, <1>2, <1>3, <2>1, Rewritten
<1>5. LiveRows' = LiveRows
  BY <1>1, <1>3, <1>4 DEF LiveRows
<1>6. \A s \in LiveRows \ {r} : rows'[s] = rows[s]
  BY <1>4 DEF LiveRows
<1>7. OneLiveRowPerBank'
  BY <1>1, <1>3, <1>4, <1>5, <1>6 DEF BInv, OneLiveRowPerBank
<1>8. \A q \in Procs \ {p} : cmd'[q] = cmd[q]
  BY <1>1 DEF RecordExisting, Exits
<1>9. Spares(p)'
  <2>1. CASE old = i
    <3>1. Exits(p, "ok")
      BY <1>0, <1>2, <2>1, EnrollmentAssumption DEF RecordExisting, Superseded, Row
    <3>2. cmd'[p].phase = "idle"
      BY <1>1, <3>1 DEF Exits, NoCommand
    <3> QED
      BY <3>2 DEF Spares
  <2>2. CASE old # i
    <3>1. cmd' = [cmd EXCEPT ![p].phase = "remove", ![p].why = "superseded", ![p].old = old]
      BY <1>0, <1>2, <2>2, EnrollmentAssumption DEF RecordExisting, Superseded, Row
    <3>2. Target(p)' = old
      BY <1>1, <3>1 DEF Target, Command
    <3>3. ASSUME NEW s \in LiveRows' PROVE rows'[s].item # old
      <4>1. CASE s = r
        BY <1>3, <1>4, <2>2, <4>1
      <4>2. CASE s # r
        BY <1>1, <1>2, <1>5, <1>6, <4>2 DEF TypeOK, LiveRows
      <4> QED
        BY <4>1, <4>2
    <3> QED
      BY <3>2, <3>3 DEF Spares
  <2> QED
    BY <2>1, <2>2
<1> HIDE DEF row
<1> QED
  BY <1>1, <1>3, <1>4, <1>5, <1>6, <1>7, <1>8, <1>9, NamingOne

\* A retirement reads the one row that names its Item.
LEMMA RetireReadsSpares ==
  ASSUME IInv, BInv, NEW p \in Procs, NEW r \in RowIds,
         RetireStarts(p, r) \/ RetireRetries(p, r) \/ RetireAgain(p, r)
  PROVE  BInv'
<1>1. /\ TypeOK /\ cmd \in [Procs -> Command] /\ UNCHANGED <<far, rows, contested>>
  BY DEF IInv, TypeOK, RetireStarts, RetireRetries, RetireAgain, RetireReads, history
<1>2. LiveRows' = LiveRows /\ \A q \in Procs \ {p} : cmd'[q] = cmd[q]
  BY <1>1 DEF LiveRows, RowIds, RetireStarts, RetireRetries, RetireAgain, RetireReads
<1>3. \A s \in LiveRows : rows[s].item = rows[r].item => s = r
  BY <1>1 DEF TypeOK, LiveRows
<1>4. CASE RetireStarts(p, r)
  <2>1. cmd'[p].phase = "mark" /\ cmd'[p].why = "retired" /\ cmd'[p].row = r
        /\ Target(p)' = rows[r].item
    BY <1>1, <1>4 DEF RetireStarts, RetireReads, NoCommand, Target
  <2>2. Spares(p)'
    BY <1>1, <1>2, <1>3, <2>1 DEF Spares
  <2> QED
    BY <1>1, <1>2, <2>2, NamingNothing
<1>5. CASE RetireRetries(p, r)
  <2>1. Target(p)' = rows[r].item /\ r \notin LiveRows
    BY <1>1, <1>5 DEF RetireRetries, RetireReads, NoCommand, Target, LiveRows
  <2>2. Spares(p)'
    BY <1>1, <1>2, <1>3, <2>1 DEF Spares
  <2> QED
    BY <1>1, <1>2, <2>2, NamingNothing
<1>6. CASE RetireAgain(p, r)
  <2>1. cmd'[p].phase = "idle"
    BY <1>1, <1>6 DEF RetireAgain, RetireReads, NoCommand
  <2>2. Spares(p)'
    BY <2>1 DEF Spares
  <2> QED
    BY <1>1, <1>2, <2>2, NamingNothing
<1> QED
  BY <1>4, <1>5, <1>6

\* The row that was read is retired before its Item is removed.
LEMMA MarkSpares ==
  ASSUME IInv, BInv, NEW p \in Procs, Mark(p) \/ MarkFails(p)
  PROVE  BInv'
<1>1. TypeOK /\ cmd \in [Procs -> Command] /\ UNCHANGED <<far, contested>> /\ At(p, "mark")
  BY DEF IInv, TypeOK, Mark, MarkFails, history
<1>2. CASE MarkFails(p)
  <2>1. UNCHANGED rows /\ Elsewhere(p)
    BY <1>1, <1>2 DEF MarkFails, Exits, NoCommand, Elsewhere
  <2> QED
    BY <1>1, <2>1, Elsewhither
<1>3. CASE Mark(p)
  <2>0. PICK r : r = cmd[p].row
    OBVIOUS
  <2>1. r \in RowIds /\ rows[r] \in Row
    BY <1>1, <2>0, InvariantOf, RowIsTyped DEF At, ShapeOf
  <2> DEFINE row == Retired(rows[r])
  <2>2. row \in Row /\ row.item = rows[r].item /\ row.retired
    BY <2>1 DEF Retired, Row
  <2>3. /\ RowIds' = RowIds /\ rows'[r] = row
        /\ \A s \in RowIds \ {r} : rows'[s] = rows[s]
    <3>1. rows' = [rows EXCEPT ![r] = row] /\ Free(row.item, r)
      BY <1>1, <1>3, <2>0, <2>1, <2>2 DEF Mark, TypeOK, Free
    <3> HIDE DEF row
    <3> QED
      BY <1>1, <2>1, <2>2, <3>1, Rewritten
  <2>4. LiveRows' = LiveRows \ {r} /\ \A s \in LiveRows' : rows'[s] = rows[s]
    BY <2>2, <2>3 DEF LiveRows
  <2>5. (\A q \in Procs \ {p} : cmd'[q] = cmd[q]) /\ Target(p)' = Target(p)
        /\ cmd'[p].why = cmd[p].why
    BY <1>1, <1>3 DEF Mark, Goto, Command, Target
  <2>6. Spares(p)'
    BY <1>1, <2>0, <2>4, <2>5 DEF BInv, Spares, At
  <2> QED
    BY <1>1, <2>4, <2>5, <2>6, NamingNothing
<1> QED
  BY <1>2, <1>3

LEMMA SyncSpares ==
  ASSUME IInv, RunsOK, BInv, NEW s \in Syncers, Syncs(s), UNCHANGED <<far, cmd, contested>>
  PROVE  BInv'
<1>1. LiveRows' = LiveRows /\ \A r \in LiveRows : rows'[r].item = rows[r].item
  BY SyncDoes DEF LiveRows
<1> QED
  BY <1>1, NamingNothing

LEMMA BInvStep == IInv /\ RunsOK /\ BInv /\ [Next]_vars => BInv'
<1> SUFFICES ASSUME IInv, RunsOK, BInv, [Next]_vars PROVE BInv'
  OBVIOUS
<1>1. Enrollers \subseteq Procs /\ Retirers \subseteq Procs
  BY DEF Procs
<1>2. ASSUME NEW s \in Syncers, Syncs(s), UNCHANGED <<far, cmd, contested>> PROVE BInv'
  BY <1>2, SyncSpares
<1>3. ASSUME NEW p \in Enrollers, Enrolls(p) PROVE BInv'
  BY <1>1, <1>3, EnrollStaysElsewhere, RecordNewSpares, RecordRefusedSpares, RecordExistingSpares,
     OrphanRecordedSpares DEF Enrolls
<1>4. ASSUME NEW p \in Retirers, Retires(p) PROVE BInv'
  BY <1>1, <1>4, RetireReadsSpares, MarkSpares DEF Retires
<1>5. ASSUME NEW p \in Procs, Releases(p) \/ Killed(p) PROVE BInv'
  BY <1>5, ReleaseSpares
<1>6. CASE UNCHANGED vars
  BY <1>6, NamingNothing DEF vars, history, LiveRows, RowIds
<1> QED
  BY <1>2, <1>3, <1>4, <1>5, <1>6 DEF Next, Commands, history

\* The Item of a live connection is there and its token is stored, whatever else
\* is refused, superseded, retired or undone beside it - but for an Item an
\* exchange answered with again, which the failure of that enrollment takes.
THEOREM LiveConnectionKeepsItsItem == Spec => []LiveRowKeepsItsItem
<1>1. Init => BInv
  <2> SUFFICES ASSUME Init PROVE BInv
    OBVIOUS
  <2>1. LiveRows \subseteq {1} /\ \A r \in LiveRows : rows[r].item = First /\ far[First] = "live"
    BY EnrollmentAssumption DEF Init, LiveRows, RowIds
  <2>2. \A p \in Procs : cmd[p].phase = "idle"
    BY DEF Init, NoCommand
  <2> QED
    BY <2>1, <2>2 DEF BInv, OneLiveRowPerBank, Spares, LiveKept
<1>2. IInv /\ BInv => LiveRowKeepsItsItem
  BY DEF IInv, RowsHeld, Kept, BInv, LiveKept, LiveRowKeepsItsItem, LiveRows
<1> QED
  BY <1>1, <1>2, BInvStep, Invariant, PTL DEF Spec
=============================================================================
