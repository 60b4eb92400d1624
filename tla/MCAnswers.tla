----------------------------- MODULE MCAnswers -----------------------------
(* One connection, one account, two days. *)
EXTENDS Answers
=============================================================================
