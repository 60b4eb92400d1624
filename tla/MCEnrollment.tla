---------------------------- MODULE MCEnrollment ----------------------------
(***************************************************************************)
(* A small instance of Enrollment: three Items of one institution, so that *)
(* its connection can be re-linked twice, and one of another; and room for *)
(* one connection.                                                         *)
(***************************************************************************)
EXTENDS Enrollment, TLC

CONSTANTS a1, a2, a3, b1

MCItems == {a1, a2, a3, b1}

\* An institution is named by the first of its Items.
MCBank == (a1 :> a1) @@ (a2 :> a1) @@ (a3 :> a1) @@ (b1 :> b1)

MCSymmetry == Permutations(Enrollers) \cup Permutations({a2, a3})
=============================================================================
