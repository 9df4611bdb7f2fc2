---------------------------- MODULE MCConnection ----------------------------
(* Small instances of Connection: see the .cfg files. *)
EXTENDS Connection
=============================================================================
