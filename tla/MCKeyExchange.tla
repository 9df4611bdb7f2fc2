--------------------------- MODULE MCKeyExchange ----------------------------
(* Small instances of KeyExchange: see the .cfg files. *)
EXTENDS KeyExchange
=============================================================================
