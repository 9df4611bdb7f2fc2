----------------------------- MODULE MCReadPath -----------------------------
(* Small instances of ReadPath: see the .cfg files. *)
EXTENDS ReadPath
=============================================================================
