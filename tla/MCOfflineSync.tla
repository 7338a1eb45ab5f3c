---------------------------- MODULE MCOfflineSync ----------------------------
(***************************************************************************)
(* OfflineSync for TLC.                                                    *)
(***************************************************************************)
EXTENDS OfflineSync
=============================================================================
