------------------------------ MODULE MCServer ------------------------------
(* Small instances of Server: see the .cfg files. *)
EXTENDS Server
=============================================================================
