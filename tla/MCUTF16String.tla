--------------------------- MODULE MCUTF16String ----------------------------
(* Small instances of UTF16String: see the .cfg files. *)
EXTENDS UTF16String, TLC

\* A char above 127, and the sign that begins an answer to a ping.
SomeTexts == {<<>>, <<195>>, <<65, 66>>}
SomeCodes == {167}
Symmetry == Permutations(Strings) \cup Permutations(Blocks)
=============================================================================
