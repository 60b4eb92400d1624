------------------------------ MODULE MCSyncRun ------------------------------
(***************************************************************************)
(* Small instances of SyncRun: two connections, one of them with           *)
(* investments.                                                            *)
(***************************************************************************)
EXTENDS SyncRun
=============================================================================
