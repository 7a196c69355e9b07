---------------------------- MODULE MCSyncLifecycle ----------------------------
(* An instance of SyncLifecycle for TLC. *)
EXTENDS SyncLifecycle
MCFleet == <<"a", "b">>
=============================================================================
