---------------------------- MODULE MCTaskEvents ----------------------------
(* An instance of TaskEvents for TLC.                                      *)
EXTENDS TaskEvents
=============================================================================
