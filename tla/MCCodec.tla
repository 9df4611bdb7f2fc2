------------------------------ MODULE MCCodec -------------------------------
(* Small instances of Codec: see the .cfg files. *)
EXTENDS Codec

\* Values at the ends of their range, and with all bytes different; strings that
\* are empty, that fit, and that are one char too long.
MCValues == [t \in Types |->
  CASE t = "byte" -> {0, 255}
    [] t = "bool" -> BOOLEAN
    [] t = "int" -> {-2147483647 - 1, -1, 66051}
    [] t = "double" -> {[i \in 1..8 |-> i], [i \in 1..8 |-> 256 - i]}
    [] t = "string255" -> {<<>>, <<65, 255>>}
    [] t \in StringTypes -> {<<65, 255>>, Repeat(66, MaxString[t] + 1)}
    [] t = "text" -> {<<65535>>, ServerInfo(<<<<49>>, <<>>, <<53, 49>>>>)}
    [] t = "bytes" -> {<<>>, <<1, 2, 255>>}]

\* A new buffer, and one in which earlier packets lay.
MCBuffers == {[i \in 1..BufferSize |-> 0], [i \in 1..BufferSize |-> i % 2]}
=============================================================================
