------------------------------ MODULE MCRebuild ------------------------------
(* Two real accounts, each with one leg of a transfer, and two connections. *)
EXTENDS Rebuild

Reply(kind, listed, stated, quoted, positions, refused, changes, ends) ==
    [kind |-> kind, listed |-> listed, stated |-> stated, quoted |-> quoted,
     positions |-> positions, refused |-> refused, changes |-> changes, ends |-> ends]

NoChange == [t \in Moves |-> "none"]

MCTemplates ==
    {Reply("accounts", {1, 2}, TRUE, TRUE, {}, FALSE, NoChange, "open"),
     Reply("accounts", {1}, FALSE, FALSE, {}, FALSE, NoChange, "open"),
     Reply("page", {1, 2}, TRUE, TRUE, {}, FALSE, [t \in Moves |-> "transfer"], "cursor"),
     Reply("page", {}, TRUE, FALSE, {}, FALSE,
           [t \in Moves |-> IF t = 1 THEN "other" ELSE "removed"], "open"),
     Reply("page", {}, TRUE, FALSE, {}, FALSE, NoChange, "complete"),
     Reply("holdings", {1}, TRUE, TRUE, {1}, FALSE, NoChange, "open"),
     Reply("holdings", {1}, TRUE, FALSE, {1}, TRUE, NoChange, "open")}

MCSymmetry == Permutations(Procs)
==============================================================================
