-------------------------- MODULE MCTransactionSync --------------------------
(***************************************************************************)
(* Small instances of TransactionSync: a hold, the posting that settles it *)
(* and one unrelated transaction.                                          *)
(***************************************************************************)
EXTENDS TransactionSync

CONSTANTS hold, posting, other

MCPendingOf == [i \in Ids |-> IF i = posting THEN hold ELSE NoId]

MCOnePending == [i \in Ids |-> NoId]
=============================================================================
