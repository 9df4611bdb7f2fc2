---------------------------- MODULE MCWriteQueue ----------------------------
(* Small instances of WriteQueue: see the .cfg files. *)
EXTENDS WriteQueue
=============================================================================
