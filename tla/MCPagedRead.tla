---------------------------- MODULE MCPagedRead ----------------------------
(* Three rows, two days and one of them ahead of today. *)
EXTENDS PagedRead

Ask0(tool) == [tool |-> tool, since |-> None, until |-> None, account |-> None, kind |-> None]
MCRequests ==
    {Ask0(t) : t \in Tools}
    \cup {[Ask0(t) EXCEPT !.kind = 1] : t \in Tools}
    \cup {[Ask0(t) EXCEPT !.since = 2] : t \in Tools}
    \cup {[Ask0("query_transactions") EXCEPT !.until = 1]}
=============================================================================
