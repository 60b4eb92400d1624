------------------------------- MODULE MCTotals -------------------------------
(* Two accounts that look alike and one with the other side of a transfer, at *)
(* one bank or, in MCTwoBanks, at two.  The third Item's bank calls the second *)
(* account by another name, and never states the card's mask.                  *)
EXTENDS Totals

MCBank == <<"a", "a", "a">>
MCTwoBanks == <<"a", "a", "b">>
MCIdentity == << <<"checking", "checking", "checking">>,
                 <<"checking", "checking", "saver">>,
                 <<Unstated, Unstated, Unstated>> >>
MCPublishing == {{}, {"a"}}
Move(real, d, amount, shape) == [real |-> real, day |-> d, amount |-> amount, shape |-> shape]
MCMoves == <<Move(1, 1, -5, "transfer"), Move(2, 1, -5, "transfer"), Move(3, 2, 5, "debt"),
             Move(1, 3, -2, "other")>>
===============================================================================
