------------------------------- MODULE Codec --------------------------------
(***************************************************************************)
(* packet::Buffer as a codec, and the packets' writeData and readData over *)
(* it: one message is written field by field, comes into the read buffer   *)
(* whole or cut, and is read field by field as the packet's readData (or,  *)
(* for the packets the server sends, their reader) asks for them.  The     *)
(* read buffer always has the same size: behind the bytes that came lie    *)
(* zeros, or what earlier reads left, and a read goes on into them.        *)
(* Integers have the width the code gives them; a double is its eight      *)
(* bytes, as memcpy sees them.  What handleClientInfo and                  *)
(* handlePositionPacket read goes on to the Player.                        *)
(***************************************************************************)
EXTENDS Integers, Sequences, SequencesExt

CONSTANTS
  Kinds,            \* the kinds of packet, of AllKinds
  Values,           \* bound: the values of the fields of each type
  BufferSize,       \* bound: READ_BUFFER_SIZE
  Buffers,          \* bound: what can lie in the read buffer before a read
  Starts            \* bound: where in the buffer a packet's fields can start

VARIABLES
  kind, values,     \* the packet and its fields, as they were written
  written,          \* Buffer::data of the writer
  ends,             \* history: its length after each field
  arrived,          \* the message, or a part of it, has come
  start, came,      \* history: where in data its fields start, how many bytes came
  data, readPos,    \* Buffer::data and Buffer::readPos of the reader
  got,              \* the fields read so far
  thrown,           \* a read threw std::runtime_error
  player            \* what the handlers set of the Player

writer == <<kind, values, written, ends>>
arrival == <<arrived, start, came, data>>
reader == <<readPos, got, thrown>>
vars == <<writer, arrival, reader, player>>

Byte == 0..255
Unit == {n \in Nat : n < 65536}     \* a char of UTF-16
Repeat(t, n) == [i \in 1..n |-> t]

\* The fields readData reads of the packets a client sends (the id is read
\* before; a ping has none in an empty buffer, see ToRead) ...
ServerPingFields == <<"byte">>
ClientProtocolFields == <<"byte", "string16", "string255", "int">>
SharedKeyFields == <<"bytes", "bytes">>
ClientInfoFields == <<"string7", "int", "int", "byte", "bool">>
ClientPositionFields == Repeat("double", 4) \o <<"bool">>

\* ... and those writeData writes of the packets the server sends.
KickFields == <<"byte", "text">>
AuthDataFields == <<"byte", "string16", "bytes", "bytes">>
LoginFields == <<"byte", "int", "string16">> \o Repeat("byte", 5)
SpawnPointFields == <<"byte", "int", "int", "int">>
PositionFields == <<"byte">> \o Repeat("double", 6) \o <<"bool">>
KeepAliveFields == <<"byte", "int">>

Layout == [
  ServerPing     |-> ServerPingFields,
  ClientProtocol |-> ClientProtocolFields,
  SharedKey      |-> SharedKeyFields,
  ClientInfo     |-> ClientInfoFields,
  ClientPosition |-> ClientPositionFields,
  Kick           |-> KickFields,
  AuthData       |-> AuthDataFields,
  Login          |-> LoginFields,
  SpawnPoint     |-> SpawnPointFields,
  Position       |-> PositionFields,
  KeepAlive      |-> KeepAliveFields]

AllKinds == DOMAIN Layout
FromClient == {"ServerPing", "ClientProtocol", "SharedKey", "ClientInfo", "ClientPosition"}

MaxString == [string7 |-> 7, string16 |-> 16, string255 |-> 255]
StringTypes == DOMAIN MaxString

\* What is read of each type: a length is a short, a string is no longer than
\* its reader takes, and a char is one byte.
MaxShort == 32767
Texts(S, max) == {s \in Seq(S) : Len(s) <= max}
Valid == [
  byte      |-> Byte,
  bool      |-> BOOLEAN,
  int       |-> {n \in Int : -2147483647 - 1 <= n /\ n <= 2147483647},
  double    |-> [1..8 -> Byte],
  string7   |-> Texts(Byte, MaxString.string7),
  string16  |-> Texts(Byte, MaxString.string16),
  string255 |-> Texts(Byte, MaxString.string255),
  text      |-> Texts(Unit, MaxShort),
  bytes     |-> Texts(Byte, MaxShort)]
Types == DOMAIN Valid

\* What can be sent of each type: a string may be longer than its reader takes.
Sendable == [t \in Types |-> IF t \in StringTypes THEN Texts(Byte, MaxShort) ELSE Valid[t]]

ASSUME CodecAssumption ==
  /\ Kinds \subseteq AllKinds
  /\ \A t \in Types : Values[t] \subseteq Sendable[t]
  /\ BufferSize \in Nat \ {0}
  /\ Buffers \subseteq [1..BufferSize -> Byte]
  /\ Starts \subseteq 0..BufferSize

-----------------------------------------------------------------------------
(* Writing: a number goes out with its high byte first.                    *)

\* Variant with a bug: the low byte first.
ShortBytesLow(n) == <<n % 256, (n \div 256) % 256>>

\* Variant with a bug: the number is not cut to bytes.
ShortBytesWide(n) == <<n \div 256, n>>

ShortBytes(n) == <<(n \div 256) % 256, n % 256>>
IntBytes(n) == ShortBytes((n \div 65536) % 65536) \o ShortBytes(n % 65536)

\* writeString widens every char, writeUTF16String does not need to.
StringBytes(s) ==
  ShortBytes(Len(s)) \o
    [i \in 1..2 * Len(s) |-> IF i % 2 = 1 THEN 0 ELSE s[i \div 2]]
TextBytes(s) ==
  ShortBytes(Len(s)) \o
    [i \in 1..2 * Len(s) |-> IF i % 2 = 1 THEN s[(i + 1) \div 2] \div 256
                                          ELSE s[i \div 2] % 256]
ArrayBytes(s) == ShortBytes(Len(s)) \o s

Bytes(t, v) ==
  CASE t = "byte" -> <<v>>
    [] t = "bool" -> IF v THEN <<1>> ELSE <<0>>
    [] t = "int" -> IntBytes(v)
    [] t = "double" -> v
    [] t \in StringTypes -> StringBytes(v)
    [] t = "text" -> TextBytes(v)
    [] t = "bytes" -> ArrayBytes(v)

-----------------------------------------------------------------------------
(* Reading: the value and the new position, or an exception.               *)

Underflow == [ok |-> FALSE]
Got(v, p) == [ok |-> TRUE, value |-> v, pos |-> p]

Signed(n, top) == IF n >= top THEN n - 2 * top ELSE n

\* Variant with a bug: the end of the buffer reads as zero.
ReadByteZero(d, p) == IF p >= Len(d) THEN Got(0, p) ELSE Got(d[p + 1], p + 1)

ReadByte(d, p) == IF p >= Len(d) THEN Underflow ELSE Got(d[p + 1], p + 1)

ReadShort(d, p) ==
  IF p + 2 > Len(d) THEN Underflow
                    ELSE Got(Signed(d[p + 1] * 256 + d[p + 2], 32768), p + 2)

\* Four calls of readByte; the sign is that of the first.
ReadInt(d, p) ==
  IF p + 4 > Len(d) THEN Underflow
  ELSE Got(Signed(d[p + 1], 128) * 16777216 + d[p + 2] * 65536
             + d[p + 3] * 256 + d[p + 4], p + 4)

ReadBool(d, p) ==
  LET b == ReadByte(d, p) IN IF b.ok THEN Got(b.value # 0, b.pos) ELSE b

ReadDouble(d, p) ==
  IF p + 8 > Len(d) THEN Underflow ELSE Got(SubSeq(d, p + 1, p + 8), p + 8)

\* A length that is negative or above the maximum gives the empty string, and
\* leaves the characters where they are.
ReadString(d, p, max) ==
  LET n == ReadShort(d, p) IN
  IF ~n.ok THEN Underflow
  ELSE IF n.value \notin 0..max THEN Got(<<>>, n.pos)
  ELSE IF n.pos + 2 * n.value > Len(d) THEN Underflow
  ELSE Got([i \in 1..n.value |-> d[n.pos + 2 * i]], n.pos + 2 * n.value)

\* The length is compared with the size of the whole buffer, not with what is
\* left of it: memcpy may run past the end, over bytes that are not the
\* buffer's (0 here).
ReadBytes(d, p) ==
  LET n == ReadShort(d, p) IN
  IF ~n.ok THEN Underflow
  ELSE IF n.value < 0 \/ n.value > Len(d) THEN Underflow
  ELSE Got([i \in 1..n.value |-> IF n.pos + i <= Len(d) THEN d[n.pos + i] ELSE 0],
           n.pos + n.value)

\* The client's side of writeUTF16String.
ReadText(d, p) ==
  LET n == ReadShort(d, p) IN
  IF ~n.ok THEN Underflow
  ELSE IF n.value < 0 \/ n.pos + 2 * n.value > Len(d) THEN Underflow
  ELSE Got([i \in 1..n.value |-> d[n.pos + 2 * i - 1] * 256 + d[n.pos + 2 * i]],
           n.pos + 2 * n.value)

Read(t, d, p) ==
  CASE t = "byte" -> ReadByte(d, p)
    [] t = "bool" -> ReadBool(d, p)
    [] t = "int" -> ReadInt(d, p)
    [] t = "double" -> ReadDouble(d, p)
    [] t \in StringTypes -> ReadString(d, p, MaxString[t])
    [] t = "text" -> ReadText(d, p)
    [] t = "bytes" -> ReadBytes(d, p)

-----------------------------------------------------------------------------
(* A message is written, arrives and is read.                              *)

\* The text that answers a ping: every field ends in a null character.
ServerInfo(fields) == <<167>> \o FlattenSeq([i \in DOMAIN fields |-> fields[i] \o <<0>>])

Place(x, y, z) == <<x, y, z>>
Origin == LET zero == Repeat(0, 8) IN Place(zero, zero, zero)
NewPlayer == [language |-> <<>>, renderDistance |-> 20, showCape |-> TRUE,
              location |-> Origin]

\* The orders in which three arguments can be evaluated.
Orders == {k \in [1..3 -> 1..3] : \A i, j \in 1..3 : k[i] = k[j] => i = j}

Written == Len(values) = Len(Layout[kind])

\* readData of a ping reads nothing of a buffer without data.
ToRead == IF kind = "ServerPing" /\ data = <<>> THEN <<>> ELSE Layout[kind]
Done == arrived /\ Len(got) = Len(ToRead)

Init ==
  /\ kind \in Kinds
  /\ values = <<>> /\ written = <<>> /\ ends = [i \in {0} |-> 0]
  /\ arrived = FALSE /\ start = 0 /\ came = 0 /\ data = <<>>
  /\ readPos = 0 /\ got = <<>> /\ thrown = FALSE
  /\ player = NewPlayer

WriteField ==
  /\ ~Written
  /\ LET n == Len(values) + 1
         type == Layout[kind][n]
     IN \E v \in Values[type] :
          /\ values' = Append(values, v)
          /\ written' = written \o Bytes(type, v)
          /\ ends' = [i \in 0..n |-> IF i = n THEN Len(written') ELSE ends[i]]
  /\ UNCHANGED <<kind, arrival, reader, player>>

\* mutableBuffer gives the socket what is left of the buffer, and the first bytes
\* of the message come into it, behind what was read before.
Receive ==
  /\ Written /\ ~arrived
  /\ kind \in FromClient
  /\ \E buffer \in Buffers, s \in Starts :
       \E n \in 0..Len(written) :
         /\ s + n <= BufferSize
         /\ data' = [i \in 1..BufferSize |->
                       IF i \in s + 1..s + n THEN written[i - s] ELSE buffer[i]]
         /\ start' = s /\ came' = n /\ readPos' = s
  /\ arrived' = TRUE
  /\ UNCHANGED <<writer, got, thrown, player>>

\* A client waits for all of a packet.
ReceiveByClient ==
  /\ Written /\ ~arrived
  /\ kind \notin FromClient
  /\ arrived' = TRUE
  /\ data' = written /\ came' = Len(written)
  /\ UNCHANGED <<writer, start, reader, player>>

\* Variant with a bug: readData sets the Player's members as it reads them.
ReadFieldIntoPlayer ==
  /\ arrived /\ ~thrown
  /\ ~Done
  /\ LET r == Read(ToRead[Len(got) + 1], data, readPos) IN
     IF r.ok THEN /\ got' = Append(got, r.value)
                  /\ readPos' = r.pos
                  /\ player' = IF kind = "ClientInfo" /\ got = <<>>
                                 THEN [player EXCEPT !.language = r.value]
                                 ELSE player
                  /\ UNCHANGED thrown
             ELSE thrown' = TRUE /\ UNCHANGED <<got, readPos, player>>
  /\ UNCHANGED <<writer, arrival>>

ReadField ==
  /\ arrived /\ ~thrown
  /\ ~Done
  /\ LET r == Read(ToRead[Len(got) + 1], data, readPos) IN
     IF r.ok THEN /\ got' = Append(got, r.value)
                  /\ readPos' = r.pos
                  /\ UNCHANGED thrown
             ELSE thrown' = TRUE /\ UNCHANGED <<got, readPos>>
  /\ UNCHANGED <<writer, arrival, player>>

\* The handlers go on only when readData has returned.
HandleClientInfo ==
  /\ kind = "ClientInfo" /\ Done
  /\ player' = [player EXCEPT !.language = got[1], !.renderDistance = got[2],
                              !.showCape = got[5]]
  /\ UNCHANGED <<writer, arrival, reader>>

\* Variant with a bug: the stance is taken for a coordinate.
SetWithStance(k) ==
  player' = [player EXCEPT !.location = Place(got[1], got[2], got[4])]

\* location.set(readDouble(), readDouble(), readDouble()): k[i] is the rank of
\* argument i in the order in which the build evaluates the three.
SetLocation(k) ==
  player' = [player EXCEPT !.location = Place(got[k[1]], got[k[2]], got[k[3]])]

HandlePosition ==
  /\ kind = "ClientPosition" /\ Done
  /\ player = NewPlayer
  /\ \E k \in Orders : SetLocation(k)
  /\ UNCHANGED <<writer, arrival, reader>>

Next ==
  WriteField \/ Receive \/ ReceiveByClient \/ ReadField \/ HandleClientInfo \/ HandlePosition

Spec == Init /\ [][Next]_vars

-----------------------------------------------------------------------------
\* A string that is longer than its reader takes.
Refused(i) ==
  /\ Layout[kind][i] \in StringTypes
  /\ Len(values[i]) > MaxString[Layout[kind][i]]

\* The first i fields came whole, and none of them is refused.
Came(i) == ends[i] <= came /\ \A j \in 1..i : ~Refused(j)

Whole == arrived /\ Came(Len(values))

TypeOK ==
  /\ kind \in Kinds
  /\ Len(values) <= Len(Layout[kind])
  /\ \A i \in DOMAIN values : values[i] \in Values[Layout[kind][i]]
  /\ written \in Seq(Byte) /\ data \in Seq(Byte)
  /\ ends \in [0..Len(values) -> Nat]
  /\ arrived \in BOOLEAN /\ thrown \in BOOLEAN
  /\ start \in Nat /\ came \in Nat /\ readPos \in Nat
  /\ Len(got) <= Len(values)
  /\ \A i \in DOMAIN got : got[i] \in Valid[Layout[kind][i]]
  /\ player \in [language : Seq(Byte), renderDistance : Int, showCape : BOOLEAN,
                 location : [1..3 -> [1..8 -> Byte]]]

\* Whatever lies before and behind it in the buffer, and however much of the
\* packet is missing: a field that came, behind fields that came, is read as it
\* was written; a string that is too long is read as an empty one; and a packet
\* that came whole is read to its end and not further.
\* Code: the read and write functions of Buffer, over mutableBuffer's bytes.
ReadBack ==
  /\ \A i \in DOMAIN got :
       /\ Came(i) => got[i] = values[i]
       /\ Came(i - 1) /\ ends[i] <= came /\ Refused(i) => got[i] = <<>>
  /\ Whole => ~thrown
  /\ Whole /\ Done => readPos = start + Len(written)

\* A packet that runs over the end of the buffer is never taken for a whole one:
\* some read throws.  Char arrays are excepted, readBytes does not look at what is
\* left of the buffer (InsideBuffer); so are strings that are refused, whose
\* characters are read as the next fields.  (What TCP cuts off elsewhere is not
\* noticed: AllDataCame.)  Code: the checks of Buffer's read functions.
EndNoticed ==
  Done /\ came < Len(written) /\ start + came = Len(data) =>
    \E i \in DOMAIN values : Layout[kind][i] = "bytes" \/ Refused(i)

\* A Player takes a client's settings all at once or not at all: wherever a read
\* throws, it never has the new language and the old view distance; and of a
\* packet that came whole it takes what the client sent.
\* Code: readData before the setters in handleClientInfo.
SettingsAllOrNone ==
  LET settings == <<player.language, player.renderDistance, player.showCape>>
  IN  settings # <<<<>>, 20, TRUE>> =>
        /\ kind = "ClientInfo" /\ Done
        /\ settings = <<got[1], got[2], got[5]>>
        /\ Whole => settings = <<values[1], values[2], values[5]>>

\* The place of a Player is made of the first three doubles of one packet that was
\* read to its end, each once, in whatever order the compiler evaluates the three
\* reads: the stance never is a coordinate; and of a packet that came whole they
\* are those the client sent.  (Which is x and which is z depends on the build:
\* PlayerIsWhereItSays.)  Code: PlayerPositionPacket::readData.
PlaceIsSent ==
  player.location # NewPlayer.location =>
    /\ kind = "ClientPosition" /\ Done
    /\ \E k \in Orders : \A i \in 1..3 :
         /\ player.location[i] = got[k[i]]
         /\ Whole => player.location[i] = values[k[i]]

-----------------------------------------------------------------------------
(* What the repository says of the codec and the code does not do.         *)

\* readData is given a buffer that contains all the data of the packet
\* (ClientProtocolPacket.cpp:24): what is read to its end has come.
AllDataCame == Done => came = Len(written)

\* A char array is read only when enough chars are left in the packet
\* (Buffer.cpp:176).
InsideBuffer == readPos <= Len(data)

\* The first double is x, the second y and the third z, as writeData has them
\* and setPosition(getX(), getY(), getZ()) takes them (Connection.cpp:290).
PlayerIsWhereItSays ==
  player.location # NewPlayer.location =>
    player.location = SubSeq(got, 1, 3)
=============================================================================
