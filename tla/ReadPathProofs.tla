--------------------------- MODULE ReadPathProofs ---------------------------
(***************************************************************************)
(* Theorems about the receiving half, for every size of the buffer and of  *)
(* the cipher's block, and every way TCP may cut the client's stream.      *)
(***************************************************************************)
EXTENDS ReadPath, SequenceTheorems, TLAPS

(***************************************************************************)
(* The client's stream: packets that follow on each other.                 *)
(***************************************************************************)

Packets == [kind : Kinds, start : Nat, length : Lengths]
StreamType == stream \in Seq(Packets)

\* The packets are in order, and every byte belongs to one.
StreamInv ==
  /\ Len(stream) <= MaxPackets
  /\ \A p \in DOMAIN stream : End(p) <= Total
  /\ \A p, q \in DOMAIN stream : p < q => End(p) <= Start(q)
  /\ \A n \in 1..Total : \E p \in DOMAIN stream : Start(p) < n /\ n <= End(p)

LEMMA StreamShape ==
  ASSUME StreamType
  PROVE  /\ Len(stream) \in Nat /\ DOMAIN stream = 1..Len(stream)
         /\ Total \in Nat
         /\ \A p \in DOMAIN stream :
              /\ stream[p].kind \in Kinds
              /\ Start(p) \in Nat /\ End(p) \in Nat
              /\ stream[p].length \in Nat /\ Start(p) < End(p)
              /\ End(p) = Start(p) + stream[p].length
<1>1. Len(stream) \in Nat /\ DOMAIN stream = 1..Len(stream)
  BY DEF StreamType
<1>2. \A n \in Lengths : n \in Nat /\ n > 0
  BY ReadPathAssumption
<1>3. ASSUME NEW p \in DOMAIN stream
      PROVE  /\ stream[p].kind \in Kinds
             /\ Start(p) \in Nat /\ End(p) \in Nat
             /\ stream[p].length \in Nat /\ Start(p) < End(p)
             /\ End(p) = Start(p) + stream[p].length
  <2>1. stream[p] \in Packets
    BY <1>1 DEF StreamType
  <2>2. stream[p].start \in Nat /\ stream[p].length \in Nat /\ stream[p].length > 0
        /\ stream[p].kind \in Kinds
    BY <1>2, <2>1 DEF Packets
  <2>. QED
    BY <2>2 DEF Start, End
<1>4. Total \in Nat
  <2>1. CASE stream = <<>>
    BY <2>1 DEF Total
  <2>2. CASE stream # <<>>
    <3>1. Len(stream) \in DOMAIN stream
      BY <1>1, <2>2 DEF StreamType
    <3>. QED
      BY <1>3, <2>2, <3>1 DEF Total
  <2>. QED
    BY <2>1, <2>2
<1>. QED
  BY <1>1, <1>3, <1>4

\* The packet of a byte.
LEMMA PacketShape ==
  ASSUME StreamType, StreamInv, NEW n \in 1..Total
  PROVE  /\ PacketOf(n) \in DOMAIN stream
         /\ Start(PacketOf(n)) < n /\ n <= End(PacketOf(n))
<1>1. \E p \in DOMAIN stream : Start(p) < n /\ n <= End(p)
  BY DEF StreamInv
<1>. QED
  BY <1>1 DEF PacketOf

LEMMA PacketsMonotone ==
  ASSUME StreamType, StreamInv, NEW m \in 1..Total, NEW n \in 1..Total, m <= n
  PROVE  PacketOf(m) <= PacketOf(n)
<1>. DEFINE p == PacketOf(m)
            q == PacketOf(n)
<1>1. /\ p \in DOMAIN stream /\ Start(p) < m /\ m <= End(p)
      /\ q \in DOMAIN stream /\ Start(q) < n /\ n <= End(q)
  BY PacketShape
<1>2. q < p => End(q) <= Start(p)
  BY <1>1 DEF StreamInv
<1>3. p \in Nat /\ q \in Nat /\ Start(p) \in Nat /\ End(q) \in Nat
  BY <1>1, StreamShape
<1>. HIDE DEF p, q
<1>4. p <= q
  BY <1>1, <1>2, <1>3
<1>. QED
  BY <1>4 DEF p, q

\* What the client sends after its key, it sends encrypted.
LEMMA ClearMonotone ==
  ASSUME StreamType, StreamInv, NEW m \in 1..Total, NEW n \in 1..Total, m <= n,
         ~InClear(m)
  PROVE  ~InClear(n)
<1>1. PICK q \in 1..(PacketOf(m) - 1) : stream[q].kind = "key"
  BY DEF InClear
<1>2. PacketOf(m) \in Nat /\ PacketOf(n) \in Nat
  BY PacketShape, StreamShape
<1>3. q \in 1..(PacketOf(n) - 1)
  BY <1>1, <1>2, PacketsMonotone
<1>. QED
  BY <1>1, <1>3 DEF InClear

\* What a step does to the stream: it may grow by a packet.
LEMMA StreamNext ==
  ASSUME StreamType, StreamInv, [Next]_vars
  PROVE  /\ StreamType' /\ StreamInv'
         /\ Total' \in Nat /\ Total <= Total'
         /\ \A p \in DOMAIN stream : p \in DOMAIN stream' /\ stream'[p] = stream[p]
<1>1. CASE UNCHANGED stream
  <2>1. Total' = Total /\ StreamType' /\ StreamInv'
    BY <1>1 DEF Total, End, Start, StreamType, StreamInv
  <2>. QED
    BY <1>1, <2>1, StreamShape
<1>2. CASE Send
  <2>1. PICK k \in Kinds, n \in Lengths :
          stream' = Append(stream, [kind |-> k, start |-> Total, length |-> n])
    BY <1>2 DEF Send
  <2>. DEFINE r == [kind |-> k, start |-> Total, length |-> n]
  <2>l. PICK L \in Nat : L = Len(stream)
    BY StreamShape
  <2>2. /\ L \in Nat /\ Total \in Nat /\ DOMAIN stream = 1..L
        /\ n \in Nat /\ n > 0
    BY <2>l, StreamShape, ReadPathAssumption
  <2>3. r \in Packets
    BY <2>2 DEF Packets
  <2>4. /\ StreamType' /\ Len(stream') = L + 1 /\ DOMAIN stream' = 1..(L + 1)
        /\ stream'[L + 1] = r /\ stream' # <<>>
        /\ \A p \in 1..L : stream'[p] = stream[p]
    BY <2>l, <2>1, <2>2, <2>3 DEF StreamType
  <2>5. Start(L + 1)' = Total /\ End(L + 1)' = Total + n
    BY <2>4 DEF Start, End
  <2>6. Total' = Total + n
    BY <2>4, <2>5 DEF Total, End, Start
  <2>7. \A p \in 1..L : Start(p)' = Start(p) /\ End(p)' = End(p)
    BY <2>4 DEF Start, End
  <2>8. \A p \in 1..L : Start(p) \in Nat /\ End(p) \in Nat /\ End(p) <= Total
    BY <2>2, StreamShape DEF StreamInv
  <2>. HIDE DEF r
  <2>9. Len(stream') <= MaxPackets
    BY <1>2, <2>l, <2>2, <2>4, ReadPathAssumption DEF Send
  <2>10. \A p \in DOMAIN stream' : End(p)' <= Total'
    <3>1. \A p \in 1..(L + 1) : p \in 1..L \/ p = L + 1
      BY <2>2
    <3>. QED
      BY <2>2, <2>4, <2>5, <2>6, <2>7, <2>8, <3>1
  <2>11. ASSUME NEW p \in DOMAIN stream', NEW q \in DOMAIN stream', p < q
         PROVE  End(p)' <= Start(q)'
    <3>1. p \in 1..L
      BY <2>2, <2>4, <2>11
    <3>2. CASE q \in 1..L
      BY <2>2, <2>7, <2>11, <3>1, <3>2 DEF StreamInv
    <3>3. CASE q = L + 1
      BY <2>5, <2>7, <2>8, <3>1, <3>3
    <3>. QED
      BY <2>2, <2>4, <3>2, <3>3
  <2>12. ASSUME NEW m \in 1..Total'
         PROVE  \E p \in DOMAIN stream' : Start(p)' < m /\ m <= End(p)'
    <3>1. CASE m <= Total
      <4>1. m \in 1..Total
        BY <2>2, <2>6, <3>1
      <4>2. PICK p \in DOMAIN stream : Start(p) < m /\ m <= End(p)
        BY <4>1 DEF StreamInv
      <4>. QED
        BY <2>2, <2>4, <2>7, <4>2
    <3>2. CASE m > Total
      <4>1. Start(L + 1)' < m /\ m <= End(L + 1)' /\ L + 1 \in DOMAIN stream'
        BY <2>2, <2>4, <2>5, <2>6, <3>2
      <4>. QED
        BY <4>1
    <3>. QED
      BY <2>2, <2>6, <3>1, <3>2
  <2>13. StreamInv'
    BY <2>9, <2>10, <2>11, <2>12 DEF StreamInv
  <2>. QED
    BY <2>2, <2>4, <2>6, <2>13
<1>. QED
  BY <1>1, <1>2 DEF Next, vars, HandleRead, HandlePacket, HandleCutPacket, HandleStray,
                    UnknownId, Throw, EndLoop

(***************************************************************************)
(* The read buffer.                                                        *)
(***************************************************************************)

\* The cells whose byte the server may have been sent.
Forms == {"plain", "cipher", "junk", "iv"}
CellsTo(n) == [byte : 0..n, form : Forms]

BufferType ==
  /\ arrived \in 0..Total
  /\ data \in [1..ReadBufferSize -> CellsTo(arrived)]
  /\ window \in [1..Block -> CellsTo(arrived)]
  /\ readPos \in 0..(ReadBufferSize + 1)
  /\ size \in 0..ReadBufferSize
  /\ processing \in BOOLEAN /\ cipher \in BOOLEAN /\ split \in BOOLEAN

LEMMA CellShape ==
  ASSUME NEW hi \in Nat, NEW n \in 0..hi, NEW form \in Forms
  PROVE  Cell(n, form) \in CellsTo(hi) /\ Cell(n, form).byte = n
BY DEF Cell, CellsTo

LEMMA CellsGrow ==
  ASSUME NEW m \in Nat, NEW n \in Nat, m <= n, NEW c \in CellsTo(m)
  PROVE  c \in CellsTo(n) /\ c.byte \in 0..m
<1>1. c = [byte |-> c.byte, form |-> c.form] /\ c.byte \in 0..m /\ c.form \in Forms
  BY DEF CellsTo
<1>2. c.byte \in 0..n
  BY <1>1
<1>. QED
  BY <1>1, <1>2 DEF CellsTo

LEMMA ZeroShape == \A n \in Nat : Zero \in CellsTo(n)
BY CellShape DEF Zero, Forms

\* A buffer is a sequence.
LEMMA ArrayShape ==
  ASSUME NEW S, NEW n \in Nat, NEW f \in [1..n -> S]
  PROVE  f \in Seq(S) /\ Len(f) = n /\ DOMAIN f = 1..n
OBVIOUS

\* Some bytes in a row.
LEMMA RowShape ==
  ASSUME NEW S, NEW s \in Seq(S), NEW i \in Nat \ {0}, NEW k \in Nat,
         i + k - 1 <= Len(s)
  PROVE  /\ SubSeq(s, i, i + k - 1) \in [1..k -> S]
         /\ \A j \in 1..k : SubSeq(s, i, i + k - 1)[j] = s[i + j - 1]
<1>1. Len(s) \in Nat /\ \A j \in 1..Len(s) : s[j] \in S
  BY ElementOfSeq, LenProperties
<1>2. \A j \in i..(i + k - 1) : s[j] \in S
  BY <1>1
<1>. DEFINE last == i + k - 1
<1>3. last \in Int /\ i \in Int /\ last - i + 1 = k
      /\ (IF i <= last THEN last - i + 1 ELSE 0) = k
  OBVIOUS
<1>. HIDE DEF last
<1>4. /\ SubSeq(s, i, last) \in Seq(S) /\ Len(SubSeq(s, i, last)) = k
      /\ \A j \in 1..k : SubSeq(s, i, last)[j] = s[i + j - 1]
  <2>1. \A j \in i..last : s[j] \in S
    BY <1>2 DEF last
  <2>. QED
    BY <1>3, <2>1, SubSeqProperties
<1>. DEFINE row == SubSeq(s, i, last)
<1>5. \A r : r \in Seq(S) /\ Len(r) = k => r \in [1..k -> S]
  OBVIOUS
<1>6. row \in [1..k -> S]
  BY <1>4, <1>5
<1>. QED
  BY <1>4, <1>6 DEF last

LEMMA ResizedShape ==
  ASSUME NEW S, Zero \in S, NEW bytes \in Seq(S)
  PROVE  Resized(bytes) \in [1..ReadBufferSize -> S]
<1>1. \A i \in 1..ReadBufferSize : i <= Len(bytes) => bytes[i] \in S
  BY ReadPathAssumption
<1>. QED
  BY <1>1 DEF Resized

\* start_read leaves a buffer of the full size, with room behind the position.
LEMMA StartReadShape ==
  ASSUME BufferType, StreamType, NEW bytes, NEW pos,
         StartRead(bytes, pos),
         \/ bytes = data /\ pos \in 0..(ReadBufferSize + 1)
         \/ bytes = <<>> /\ pos = 0
  PROVE  /\ data' \in [1..ReadBufferSize -> CellsTo(arrived)]
         /\ readPos' \in 0..(ReadBufferSize + 1) /\ readPos' < ReadBufferSize
         /\ processing' = FALSE
<1>1. arrived \in Nat /\ ReadBufferSize \in Nat \ {0}
  BY StreamShape, ReadPathAssumption DEF BufferType
<1>2. Zero \in CellsTo(arrived)
  BY <1>1, ZeroShape
<1>3. data \in Seq(CellsTo(arrived)) /\ Len(data) = ReadBufferSize
  BY <1>1, ArrayShape DEF BufferType
<1>4. /\ Resized(<<>>) \in [1..ReadBufferSize -> CellsTo(arrived)]
      /\ Resized(data) \in [1..ReadBufferSize -> CellsTo(arrived)]
  <2>1. <<>> \in Seq(CellsTo(arrived))
    OBVIOUS
  <2>. QED
    BY <1>2, <1>3, <2>1, ResizedShape
<1>5. CASE bytes = data
  BY <1>1, <1>3, <1>4, <1>5 DEF StartRead
<1>6. CASE bytes = <<>> /\ pos = 0
  BY <1>1, <1>4, <1>6 DEF StartRead
<1>. QED
  BY <1>5, <1>6

\* What the socket hands over goes behind the bytes used up.
LEMMA FilledShape ==
  ASSUME StreamType, BufferType, NEW n \in 1..ReadBufferSize,
         n <= ReadBufferSize - readPos, n <= Total - arrived
  PROVE  /\ Filled(n) \in [1..ReadBufferSize -> CellsTo(arrived + n)]
         /\ \A i \in 1..n : Filled(n)[readPos + i] = Sent(arrived + i)
<1>1. /\ arrived \in Nat /\ Total \in Nat /\ readPos \in Nat
      /\ ReadBufferSize \in Nat /\ n \in Nat
  BY StreamShape, ReadPathAssumption DEF BufferType
<1>2. DOMAIN data = 1..ReadBufferSize
  BY DEF BufferType
<1>3. ASSUME NEW m \in 0..(arrived + n)
      PROVE  Sent(m) \in CellsTo(arrived + n)
  BY <1>1, CellShape DEF Sent, Forms
<1>4. ASSUME NEW i \in 1..ReadBufferSize
      PROVE  (IF i \in (readPos + 1)..(readPos + n)
                THEN Sent(arrived + i - readPos) ELSE data[i]) \in CellsTo(arrived + n)
  <2>1. CASE i \in (readPos + 1)..(readPos + n)
    <3>1. arrived + i - readPos \in 0..(arrived + n)
      BY <1>1, <2>1
    <3>. QED
      BY <1>3, <2>1, <3>1
  <2>2. CASE i \notin (readPos + 1)..(readPos + n)
    <3>1. data[i] \in CellsTo(arrived)
      BY DEF BufferType
    <3>. QED
      BY <1>1, <2>2, <3>1, CellsGrow
  <2>. QED
    BY <2>1, <2>2
<1>5. ASSUME NEW i \in 1..n
      PROVE  Filled(n)[readPos + i] = Sent(arrived + i)
  <2>1. /\ readPos + i \in 1..ReadBufferSize
        /\ readPos + i \in (readPos + 1)..(readPos + n)
        /\ arrived + (readPos + i) - readPos = arrived + i
    BY <1>1
  <2>. QED
    BY <1>2, <2>1 DEF Filled
<1>. QED
  BY <1>2, <1>4, <1>5 DEF Filled

\* Decryption keeps the bytes where they are.
LEMMA OutputShape ==
  ASSUME NEW hi \in Nat, NEW w \in [1..Block -> CellsTo(hi)],
         NEW bytes \in [1..ReadBufferSize -> CellsTo(hi)]
  PROVE  /\ Output(w \o bytes) \in [1..ReadBufferSize -> CellsTo(hi)]
         /\ \A i \in 1..ReadBufferSize :
              Output(w \o bytes)[i] =
                Cell(bytes[i].byte,
                     IF /\ bytes[i].form = "cipher"
                        /\ SubSeq(w \o bytes, i, i + Block - 1) = Before(bytes[i].byte)
                       THEN "plain" ELSE "junk")
         /\ LastBlock(w \o bytes) \in [1..Block -> CellsTo(hi)]
<1>. DEFINE input == w \o bytes
            cells == CellsTo(hi)
<1>1. Block \in Nat \ {0} /\ ReadBufferSize \in Nat \ {0}
  BY ReadPathAssumption
<1>2. /\ w \in Seq(cells) /\ Len(w) = Block
      /\ bytes \in Seq(cells) /\ Len(bytes) = ReadBufferSize
  BY <1>1, ArrayShape
<1>3. \A c \in cells : c.byte \in 0..hi
  BY CellsGrow
<1>. HIDE DEF cells
<1>4. /\ input \in Seq(cells) /\ Len(input) = Block + ReadBufferSize
      /\ \A i \in 1..ReadBufferSize : input[Block + i] = bytes[i]
  BY <1>1, <1>2
<1>5. LastBlock(input) \in [1..Block -> cells]
  <2>. DEFINE first == Len(input) - Block + 1
  <2>1. /\ first \in Nat \ {0} /\ Block \in Nat /\ input \in Seq(cells)
        /\ first + Block - 1 = Len(input) /\ first + Block - 1 <= Len(input)
    BY <1>1, <1>4
  <2>. HIDE DEF first, input
  <2>2. SubSeq(input, first, first + Block - 1) \in [1..Block -> cells]
    BY <2>1, RowShape
  <2>. QED
    BY <2>1, <2>2 DEF LastBlock, first
<1>7. Len(input) - Block = ReadBufferSize
  BY <1>1, <1>4
<1>. DEFINE out(i) ==
       Cell(bytes[i].byte,
            IF /\ bytes[i].form = "cipher"
               /\ SubSeq(input, i, i + Block - 1) = Before(bytes[i].byte)
              THEN "plain" ELSE "junk")
<1>8. Output(input) = [i \in 1..ReadBufferSize |-> out(i)]
  BY <1>4, <1>7 DEF Output
<1>9. \A i \in 1..ReadBufferSize : out(i) \in cells
  <2>1. \A b \in 0..hi : Cell(b, "plain") \in cells /\ Cell(b, "junk") \in cells
    BY CellShape DEF Forms, cells
  <2>2. \A i \in 1..ReadBufferSize : bytes[i].byte \in 0..hi
    BY <1>2, <1>3
  <2>. QED
    BY <2>1, <2>2
<1>. HIDE DEF input, out
<1>10. /\ Output(input) \in [1..ReadBufferSize -> cells]
       /\ \A i \in 1..ReadBufferSize : Output(input)[i] = out(i)
  BY <1>8, <1>9
<1>. QED
  BY <1>5, <1>10 DEF input, out, cells

\* After a read the buffer holds the bytes it held and the new ones, decrypted
\* or not.
LEMMA ReadShape ==
  ASSUME StreamType, BufferType, NEW n \in 1..ReadBufferSize, HandleRead(n)
  PROVE  /\ readPos + n <= ReadBufferSize /\ arrived + n <= Total
         /\ data' \in [1..ReadBufferSize -> CellsTo(arrived + n)]
         /\ window' \in [1..Block -> CellsTo(arrived + n)]
         /\ \A i \in 1..n : data'[readPos + i].byte = arrived + i
<1>1. /\ arrived \in Nat /\ Total \in Nat /\ readPos \in Nat /\ n \in Nat
      /\ ReadBufferSize \in Nat \ {0} /\ Len(data) = ReadBufferSize
  BY StreamShape, ReadPathAssumption, ArrayShape DEF BufferType
<1>2. n <= ReadBufferSize - readPos /\ n <= Total - arrived
  BY <1>1 DEF HandleRead
<1>3. /\ Filled(n) \in [1..ReadBufferSize -> CellsTo(arrived + n)]
      /\ \A i \in 1..n : Filled(n)[readPos + i] = Sent(arrived + i)
  BY <1>2, FilledShape
<1>4. \A i \in 1..n : Filled(n)[readPos + i].byte = arrived + i
  <2>1. \A i \in 1..n : Sent(arrived + i).byte = arrived + i
    BY DEF Sent, Cell
  <2>. QED
    BY <1>3, <2>1
<1>5. window \in [1..Block -> CellsTo(arrived + n)]
  <2>1. \A i \in 1..Block : window[i] \in CellsTo(arrived + n)
    BY <1>1, CellsGrow DEF BufferType
  <2>. QED
    BY <2>1 DEF BufferType
<1>6. CASE cipher
  <2>1. /\ data' = Output(window \o Filled(n))
        /\ window' = LastBlock(window \o Filled(n))
    BY <1>6 DEF HandleRead, Decrypt
  <2>. DEFINE bytes == Filled(n)
  <2>2. arrived + n \in Nat
    BY <1>1
  <2>3. bytes \in [1..ReadBufferSize -> CellsTo(arrived + n)]
    BY <1>3
  <2>. HIDE DEF bytes
  <2>4. /\ data' \in [1..ReadBufferSize -> CellsTo(arrived + n)]
        /\ window' \in [1..Block -> CellsTo(arrived + n)]
        /\ \A i \in 1..ReadBufferSize : data'[i].byte = bytes[i].byte
    <3>1. data' = Output(window \o bytes) /\ window' = LastBlock(window \o bytes)
      BY <2>1 DEF bytes
    <3>2. /\ Output(window \o bytes) \in [1..ReadBufferSize -> CellsTo(arrived + n)]
          /\ LastBlock(window \o bytes) \in [1..Block -> CellsTo(arrived + n)]
          /\ \A i \in 1..ReadBufferSize : \E form \in {"plain", "junk"} :
               Output(window \o bytes)[i] = Cell(bytes[i].byte, form)
      BY <1>5, <2>2, <2>3, OutputShape
    <3>3. \A b, form : Cell(b, form).byte = b
      BY DEF Cell
    <3>. QED
      BY <3>1, <3>2, <3>3
  <2>5. \A i \in 1..n : readPos + i \in 1..ReadBufferSize
    BY <1>1, <1>2
  <2>6. \A i \in 1..n : data'[readPos + i].byte = arrived + i
    BY <1>4, <2>4, <2>5 DEF bytes
  <2>. QED
    BY <1>1, <1>2, <2>4, <2>6
<1>7. CASE ~cipher
  <2>1. data' = Filled(n) /\ window' = window
    BY <1>7 DEF HandleRead
  <2>. QED
    BY <1>1, <1>2, <1>3, <1>4, <1>5, <2>1
<1>. QED
  BY <1>6, <1>7

(***************************************************************************)
(* The loop over the bytes of a read.                                      *)
(***************************************************************************)

\* The read that process_packets works on began at base: the new bytes stand
\* there, in order, and the packets handled so far began before the position.
InRead(base) ==
  /\ base <= readPos /\ base + size <= ReadBufferSize /\ size <= arrived
  /\ \A i \in 1..size : data[base + i].byte + size = arrived + i
  /\ \A h \in DOMAIN handled : Start(handled[h]) + size + base < arrived + readPos

HandledInv ==
  /\ handled \in Seq(DOMAIN stream)
  /\ \A h \in DOMAIN handled : Start(handled[h]) < arrived
  /\ HandledInOrder

Inv ==
  /\ StreamType /\ StreamInv /\ BufferType
  /\ HandledInv
  /\ processing => \E base \in Nat : InRead(base)
  /\ RoomToRead

\* The numbers in a state of the invariant.
LEMMA InvShape ==
  ASSUME Inv
  PROVE  /\ arrived \in Nat /\ size \in Nat /\ readPos \in Nat
         /\ ReadBufferSize \in Nat /\ Len(data) = ReadBufferSize
         /\ Total \in Nat /\ arrived <= Total
         /\ data \in Seq(CellsTo(arrived))
         /\ Len(handled) \in Nat /\ DOMAIN handled = 1..Len(handled)
         /\ \A h \in DOMAIN handled :
              /\ handled[h] \in DOMAIN stream /\ handled[h] \in Nat
              /\ Start(handled[h]) \in Nat
<1>1. /\ arrived \in Nat /\ size \in Nat /\ readPos \in Nat /\ ReadBufferSize \in Nat
      /\ Total \in Nat /\ arrived <= Total
  BY StreamShape, ReadPathAssumption DEF Inv, BufferType
<1>2. data \in Seq(CellsTo(arrived)) /\ Len(data) = ReadBufferSize
  BY <1>1, ArrayShape DEF Inv, BufferType
<1>3. /\ Len(handled) \in Nat /\ DOMAIN handled = 1..Len(handled)
      /\ \A h \in DOMAIN handled : handled[h] \in DOMAIN stream
  BY DEF Inv, HandledInv
<1>4. \A h \in DOMAIN handled : handled[h] \in Nat /\ Start(handled[h]) \in Nat
  BY <1>3, StreamShape DEF Inv
<1>. QED
  BY <1>1, <1>2, <1>3, <1>4

\* The byte the loop looks at is one of those just read.
LEMMA CurrentIsNew ==
  ASSUME Inv, More, NEW base \in Nat, InRead(base)
  PROVE  /\ Current.byte \in Nat /\ Current.byte <= arrived
         /\ Current.byte + size + base = arrived + readPos + 1
         /\ Current.byte > arrived - size
<1>1. /\ arrived \in Nat /\ size \in Nat /\ readPos \in Nat /\ ReadBufferSize \in Nat
      /\ Len(data) = ReadBufferSize
  BY InvShape
<1>2. readPos < size /\ readPos < ReadBufferSize
  BY <1>1 DEF More
<1>3. base <= readPos /\ \A i \in 1..size : data[base + i].byte + size = arrived + i
  BY DEF InRead
<1>4. PICK i \in 1..size : base + i = readPos + 1
  <2>1. readPos + 1 - base \in 1..size /\ base + (readPos + 1 - base) = readPos + 1
    BY <1>1, <1>2, <1>3
  <2>. QED
    BY <2>1
<1>5. data[readPos + 1] \in CellsTo(arrived)
  BY <1>1, <1>2 DEF Inv, BufferType
<1>6. Current.byte \in 0..arrived
  BY <1>1, <1>5, CellsGrow DEF Current
<1>7. Current.byte + size = arrived + i
  BY <1>3, <1>4 DEF Current
<1>. QED
  BY <1>1, <1>4, <1>6, <1>7

\* A packet handled now comes after those handled before.
LEMMA PacketIsNext ==
  ASSUME Inv, More, AtPacket, NEW base \in Nat, InRead(base)
  PROVE  /\ Packet \in DOMAIN stream
         /\ Start(Packet) < arrived
         /\ Start(Packet) + size + base = arrived + readPos
         /\ \A h \in DOMAIN handled : handled[h] < Packet
<1>1. /\ arrived \in Nat /\ size \in Nat /\ readPos \in Nat
      /\ Total \in Nat /\ arrived <= Total
      /\ \A h \in DOMAIN handled :
           /\ handled[h] \in DOMAIN stream /\ handled[h] \in Nat
           /\ Start(handled[h]) \in Nat
  BY InvShape
<1>2. /\ Current.byte \in Nat /\ Current.byte <= arrived
      /\ Current.byte + size + base = arrived + readPos + 1
  BY CurrentIsNew
<1>3. Current.byte # 0 /\ Current.byte = Start(Packet) + 1
  BY DEF AtPacket
<1>4. Current.byte \in 1..Total
  BY <1>1, <1>2, <1>3
<1>5. Packet \in DOMAIN stream
  BY <1>4, PacketShape DEF Packet, Inv
<1>6. Packet \in Nat /\ Start(Packet) \in Nat
  BY <1>5, StreamShape DEF Inv
<1>7. Start(Packet) + size + base = arrived + readPos /\ Start(Packet) < arrived
  BY <1>1, <1>2, <1>3, <1>6
<1>8. ASSUME NEW h \in DOMAIN handled
      PROVE  handled[h] < Packet
  <2>. DEFINE g == handled[h]
  <2>1. g \in DOMAIN stream /\ g \in Nat /\ Start(g) \in Nat
    BY <1>1
  <2>2. Start(g) + size + base < arrived + readPos
    BY DEF InRead
  <2>3. Start(g) < Start(Packet)
    BY <1>1, <1>6, <1>7, <2>1, <2>2
  <2>4. Start(Packet) < End(Packet) /\ End(Packet) \in Nat
    BY <1>5, StreamShape DEF Inv
  <2>5. Packet < g => End(Packet) <= Start(g)
    BY <1>5, <2>1 DEF Inv, StreamInv
  <2>6. g # Packet
    BY <1>6, <2>3
  <2>. HIDE DEF g
  <2>7. g < Packet
    BY <1>6, <2>1, <2>3, <2>4, <2>5, <2>6
  <2>. QED
    BY <2>7 DEF g
<1>. QED
  BY <1>5, <1>7, <1>8

\* What a handler that runs does to the list of those that ran.
HandledNow ==
  \/ handled' = handled
  \/ AtPacket /\ handled' = Append(handled, Packet)

LEMMA HandledNext ==
  ASSUME Inv, More, HandledNow, NEW base \in Nat, InRead(base),
         UNCHANGED <<stream, arrived>>
  PROVE  /\ HandledInv'
         /\ \A h \in DOMAIN handled' :
              /\ Start(handled'[h]) \in Nat
              /\ Start(handled'[h]) + size + base <= arrived + readPos
<1>. DEFINE S == DOMAIN stream
<1>1. /\ arrived \in Nat /\ size \in Nat /\ readPos \in Nat
      /\ handled \in Seq(S) /\ Len(handled) \in Nat /\ DOMAIN handled = 1..Len(handled)
      /\ \A h \in DOMAIN handled :
           /\ handled[h] \in S /\ handled[h] \in Nat /\ Start(handled[h]) \in Nat
           /\ Start(handled[h]) + size + base < arrived + readPos
           /\ Start(handled[h]) < arrived
  BY InvShape DEF Inv, HandledInv, InRead
<1>2. \A i, j \in DOMAIN handled : i < j => handled[i] < handled[j]
  BY DEF Inv, HandledInv, HandledInOrder
<1>3. CASE handled' = handled
  <2>1. HandledInv'
    BY <1>1, <1>2, <1>3 DEF HandledInv, HandledInOrder, Start
  <2>. QED
    BY <1>1, <1>3, <2>1
<1>4. CASE AtPacket /\ handled' = Append(handled, Packet)
  <2>1. /\ Packet \in S /\ Start(Packet) < arrived
        /\ Start(Packet) + size + base = arrived + readPos
        /\ \A h \in DOMAIN handled : handled[h] < Packet
    BY <1>4, PacketIsNext
  <2>2. Start(Packet) \in Nat /\ Packet \in Nat
    BY <2>1, StreamShape DEF Inv
  <2>3. PICK q \in S : q = Packet
    BY <2>1
  <2>4. PICK L \in Nat : L = Len(handled)
    BY <1>1
  <2>. HIDE DEF S
  <2>5. /\ handled' \in Seq(S) /\ DOMAIN handled' = 1..(L + 1)
        /\ handled'[L + 1] = q
        /\ \A h \in 1..L : handled'[h] = handled[h] /\ h \in DOMAIN handled
    BY <1>1, <1>4, <2>3, <2>4
  <2>6. \A h \in DOMAIN handled' : h \in 1..L \/ h = L + 1
    BY <2>4, <2>5
  <2>7. \A h \in DOMAIN handled' :
          /\ Start(handled'[h]) \in Nat /\ Start(handled'[h]) < arrived
          /\ Start(handled'[h]) + size + base <= arrived + readPos
    BY <1>1, <2>1, <2>2, <2>3, <2>5, <2>6
  <2>8. ASSUME NEW i \in DOMAIN handled', NEW j \in DOMAIN handled', i < j
        PROVE  handled'[i] < handled'[j]
    <3>1. i \in 1..L
      BY <2>4, <2>5, <2>8
    <3>2. CASE j \in 1..L
      BY <1>2, <2>5, <2>8, <3>1, <3>2
    <3>3. CASE j = L + 1
      BY <2>1, <2>3, <2>5, <3>1, <3>3
    <3>. QED
      BY <2>6, <3>2, <3>3
  <2>9. HandledInv'
    BY <2>5, <2>7, <2>8 DEF HandledInv, HandledInOrder, S, Start
  <2>. QED
    BY <2>7, <2>9
<1>. QED
  BY <1>3, <1>4 DEF HandledNow

(***************************************************************************)
(* Each step keeps the invariant.                                          *)
(***************************************************************************)

LEMMA InvInit == Init => Inv
<1>. SUFFICES ASSUME Init
              PROVE  Inv
  OBVIOUS
<1>1. stream = <<>> /\ Total = 0 /\ arrived = 0 /\ handled = <<>> /\ processing = FALSE
  BY DEF Init, Total
<1>2. StreamType /\ StreamInv
  BY <1>1, ReadPathAssumption DEF StreamType, StreamInv
<1>3. data \in [1..ReadBufferSize -> CellsTo(0)]
  <2>1. <<>> \in Seq(CellsTo(0)) /\ Zero \in CellsTo(0)
    BY ZeroShape
  <2>. QED
    BY <2>1, ResizedShape DEF Init
<1>4. window \in [1..Block -> CellsTo(0)]
  <2>1. Cell(0, "iv") \in CellsTo(0)
    BY CellShape DEF Forms
  <2>. QED
    BY <2>1 DEF Init, IV
<1>5. readPos = 0 /\ ReadBufferSize \in Nat \ {0} /\ Len(data) = ReadBufferSize
  BY <1>3, ReadPathAssumption, ArrayShape DEF Init
<1>6. BufferType
  <2>1. 0 \in 0..0 /\ 0 \in 0..(ReadBufferSize + 1) /\ 0 \in 0..ReadBufferSize
    BY <1>5
  <2>2. size = 0 /\ cipher = FALSE /\ split = FALSE
    BY DEF Init
  <2>. QED
    BY <1>1, <1>3, <1>4, <1>5, <2>1, <2>2 DEF BufferType
<1>7. HandledInv
  BY <1>1 DEF HandledInv, HandledInOrder
<1>8. RoomToRead
  BY <1>5 DEF RoomToRead
<1>. QED
  BY <1>1, <1>2, <1>6, <1>7, <1>8 DEF Inv

LEMMA SendNext ==
  ASSUME Inv, Send
  PROVE  Inv'
<1>1. UNCHANGED <<arrived, data, readPos, size, processing, cipher, window, handled, split>>
  BY DEF Send
<1>2. /\ StreamType' /\ StreamInv' /\ Total' \in Nat /\ Total <= Total'
      /\ \A p \in DOMAIN stream : p \in DOMAIN stream' /\ stream'[p] = stream[p]
  BY StreamNext DEF Next, Inv
<1>3. Total \in Nat /\ Total' \in Nat /\ arrived \in Nat /\ arrived <= Total
  BY <1>2, InvShape
<1>4. BufferType'
  BY <1>1, <1>2, <1>3 DEF Inv, BufferType
<1>5. \A h \in DOMAIN handled :
        handled[h] \in DOMAIN stream' /\ Start(handled[h])' = Start(handled[h])
  BY <1>1, <1>2, InvShape DEF Start
<1>6. handled \in Seq(DOMAIN stream')
  <2>1. \A h \in 1..Len(handled) : handled[h] \in DOMAIN stream'
    BY <1>5, InvShape
  <2>2. handled \in Seq(DOMAIN stream)
    BY DEF Inv, HandledInv
  <2>. QED
    BY <2>1, <2>2
<1>7. HandledInv'
  BY <1>1, <1>5, <1>6 DEF Inv, HandledInv, HandledInOrder
<1>8. (processing => \E base \in Nat : InRead(base))'
  BY <1>1, <1>5 DEF Inv, InRead
<1>9. RoomToRead'
  BY <1>1 DEF Inv, RoomToRead
<1>. QED
  BY <1>2, <1>4, <1>7, <1>8, <1>9 DEF Inv

LEMMA HandleReadNext ==
  ASSUME Inv, NEW n \in 1..ReadBufferSize, HandleRead(n)
  PROVE  Inv'
<1>1. /\ UNCHANGED <<stream, readPos, cipher, handled>>
      /\ arrived' = arrived + n /\ size' = n /\ processing' = TRUE
      /\ split' \in BOOLEAN
  BY DEF HandleRead
<1>2. /\ arrived \in Nat /\ readPos \in Nat /\ ReadBufferSize \in Nat /\ n \in Nat
      /\ Total \in Nat
      /\ \A h \in DOMAIN handled : Start(handled[h]) \in Nat
  BY InvShape
<1>3. /\ readPos + n <= ReadBufferSize /\ arrived + n <= Total
      /\ data' \in [1..ReadBufferSize -> CellsTo(arrived + n)]
      /\ window' \in [1..Block -> CellsTo(arrived + n)]
      /\ \A i \in 1..n : data'[readPos + i].byte = arrived + i
  BY ReadShape DEF Inv
<1>4. Total' = Total /\ StreamType' /\ StreamInv'
  BY <1>1 DEF Inv, StreamType, StreamInv, Total, End, Start
<1>5. BufferType'
  BY <1>1, <1>2, <1>3, <1>4 DEF Inv, BufferType
<1>6. \A h \in DOMAIN handled : Start(handled[h]) < arrived
  BY DEF Inv, HandledInv
<1>7. HandledInv'
  <2>1. \A h \in DOMAIN handled : Start(handled[h]) < arrived + n
    BY <1>2, <1>6
  <2>. QED
    BY <1>1, <2>1 DEF Inv, HandledInv, HandledInOrder, Start
<1>8. InRead(readPos)'
  <2>1. \A i \in 1..n : data'[readPos + i].byte + n = (arrived + n) + i
    BY <1>2, <1>3
  <2>2. \A h \in DOMAIN handled :
          Start(handled[h]) + n + readPos < (arrived + n) + readPos
    BY <1>2, <1>6
  <2>3. readPos <= readPos /\ n <= arrived + n
    BY <1>2
  <2>. QED
    BY <1>1, <1>3, <2>1, <2>2, <2>3 DEF InRead, Start
<1>9. (processing => \E base \in Nat : InRead(base))'
  <2>1. PICK base \in Nat : base = readPos
    BY <1>2
  <2>2. InRead(base)'
    BY <1>1, <1>8, <2>1 DEF InRead
  <2>. QED
    BY <2>2
<1>10. RoomToRead'
  BY <1>1 DEF RoomToRead
<1>. QED
  BY <1>4, <1>5, <1>7, <1>9, <1>10 DEF Inv

\* A handler has run and the loop goes on.
LEMMA LoopGoesOn ==
  ASSUME Inv, More, HandledNow,
         readPos' \in (readPos + 1)..(ReadBufferSize + 1),
         cipher' \in BOOLEAN,
         UNCHANGED <<stream, arrived, data, size, processing, window, split>>
  PROVE  Inv'
<1>1. PICK base \in Nat : InRead(base)
  BY DEF Inv, More
<1>2. /\ HandledInv'
      /\ \A h \in DOMAIN handled' :
           /\ Start(handled'[h]) \in Nat
           /\ Start(handled'[h]) + size + base <= arrived + readPos
  BY <1>1, HandledNext
<1>3. /\ arrived \in Nat /\ size \in Nat /\ readPos \in Nat /\ ReadBufferSize \in Nat
      /\ readPos' \in Nat /\ readPos' >= readPos + 1
  BY InvShape
<1>4. Total' = Total /\ StreamType' /\ StreamInv'
  BY DEF Inv, StreamType, StreamInv, Total, End, Start
<1>5. BufferType'
  <2>1. readPos' \in 0..(ReadBufferSize + 1)
    BY <1>3
  <2>. QED
    BY <1>4, <2>1 DEF Inv, BufferType
<1>6. InRead(base)'
  <2>1. \A h \in DOMAIN handled' :
          Start(handled'[h]) + size + base < arrived + readPos'
    BY <1>2, <1>3
  <2>2. base <= readPos'
    BY <1>1, <1>3 DEF InRead
  <2>. QED
    BY <1>1, <2>1, <2>2 DEF InRead, Start
<1>7. RoomToRead'
  BY DEF RoomToRead, More
<1>. QED
  BY <1>2, <1>4, <1>5, <1>6, <1>7 DEF Inv

\* The loop has ended, with the buffer as it is or cleared.
LEMMA LoopEnds ==
  ASSUME Inv, HandledInv', NEW bytes, NEW pos, StartRead(bytes, pos),
         \/ bytes = data /\ pos \in 0..(ReadBufferSize + 1)
         \/ bytes = <<>> /\ pos = 0,
         UNCHANGED <<stream, arrived, size, cipher, window, split>>
  PROVE  Inv'
<1>1. Total' = Total /\ StreamType' /\ StreamInv'
  BY DEF Inv, StreamType, StreamInv, Total, End, Start
<1>2. /\ data' \in [1..ReadBufferSize -> CellsTo(arrived)]
      /\ readPos' \in 0..(ReadBufferSize + 1) /\ readPos' < ReadBufferSize
      /\ processing' = FALSE
  BY StartReadShape DEF Inv
<1>3. BufferType'
  BY <1>1, <1>2 DEF Inv, BufferType
<1>4. RoomToRead'
  <2>1. Len(data') = ReadBufferSize
    BY <1>2, ReadPathAssumption, ArrayShape
  <2>. QED
    BY <1>2, <2>1 DEF RoomToRead
<1>. QED
  BY <1>1, <1>2, <1>3, <1>4 DEF Inv

LEMMA HandledStays ==
  ASSUME Inv, UNCHANGED <<stream, arrived, handled>>
  PROVE  HandledInv'
BY DEF Inv, HandledInv, HandledInOrder, Start

LEMMA HandlePacketNext ==
  ASSUME Inv, HandlePacket
  PROVE  Inv'
<1>1. /\ More /\ AtPacket /\ handled' = Append(handled, Packet)
      /\ UNCHANGED <<stream, arrived, data, size, processing, window, split>>
  BY DEF HandlePacket
<1>2. readPos \in Nat /\ ReadBufferSize \in Nat /\ readPos < ReadBufferSize
      /\ Len(data) = ReadBufferSize
  BY <1>1, InvShape DEF More
<1>3. cipher' \in BOOLEAN
  BY DEF HandlePacket, Inv, BufferType
<1>4. CASE readPos' = readPos + 1
  <2>1. readPos' \in (readPos + 1)..(ReadBufferSize + 1)
    BY <1>2, <1>4
  <2>. QED
    BY <1>1, <1>3, <2>1, LoopGoesOn DEF HandledNow
<1>5. CASE Whole(Packet) /\ readPos' = readPos + stream[Packet].length
  <2>1. PICK base \in Nat : InRead(base)
    BY <1>1 DEF Inv, More
  <2>2. Packet \in DOMAIN stream
    BY <1>1, <2>1, PacketIsNext
  <2>3. stream[Packet].length \in Nat /\ stream[Packet].length > 0
    BY <2>2, StreamShape DEF Inv
  <2>4. readPos + stream[Packet].length <= ReadBufferSize
    BY <1>2, <1>5 DEF Whole
  <2>5. readPos' \in (readPos + 1)..(ReadBufferSize + 1)
    BY <1>2, <1>5, <2>3, <2>4
  <2>. QED
    BY <1>1, <1>3, <2>5, LoopGoesOn DEF HandledNow
<1>. QED
  BY <1>4, <1>5 DEF HandlePacket

LEMMA MisreadNext ==
  ASSUME Inv, HandleCutPacket \/ HandleStray
  PROVE  Inv'
<1>1. /\ More /\ HandledNow
      /\ readPos' \in (readPos + 1)..(Len(data) + 1)
      /\ UNCHANGED <<stream, arrived, data, size, processing, cipher, window, split>>
  BY DEF HandleCutPacket, HandleStray, Misread, HandledNow
<1>2. readPos' \in (readPos + 1)..(ReadBufferSize + 1)
  BY <1>1, InvShape
<1>3. cipher' \in BOOLEAN
  BY <1>1 DEF Inv, BufferType
<1>. QED
  BY <1>1, <1>2, <1>3, LoopGoesOn

LEMMA EndNext ==
  ASSUME Inv, UnknownId \/ EndLoop
  PROVE  Inv'
<1>1. UNCHANGED <<stream, arrived, size, cipher, window, handled, split>>
  BY DEF UnknownId, EndLoop, StartRead
<1>2. HandledInv'
  BY <1>1, HandledStays
<1>3. readPos \in 0..(ReadBufferSize + 1) /\ readPos \in Nat /\ ReadBufferSize \in Nat
      /\ Len(data) = ReadBufferSize
  BY InvShape DEF Inv, BufferType
<1>4. CASE UnknownId
  <2>1. StartRead(data, readPos + 1) /\ readPos + 1 \in 0..(ReadBufferSize + 1)
    BY <1>3, <1>4 DEF UnknownId, More
  <2>. QED
    BY <1>1, <1>2, <2>1, LoopEnds
<1>5. CASE EndLoop
  <2>1. StartRead(data, readPos)
    BY <1>5 DEF EndLoop
  <2>. QED
    BY <1>1, <1>2, <1>3, <2>1, LoopEnds
<1>. QED
  BY <1>4, <1>5

LEMMA ThrowNext ==
  ASSUME Inv, Throw
  PROVE  Inv'
<1>1. /\ More /\ HandledNow /\ StartRead(<<>>, 0)
      /\ UNCHANGED <<stream, arrived, size, cipher, window, split>>
  BY DEF Throw, HandledNow
<1>2. PICK base \in Nat : InRead(base)
  BY <1>1 DEF Inv, More
<1>3. HandledInv'
  BY <1>1, <1>2, HandledNext
<1>. QED
  BY <1>1, <1>3, LoopEnds

LEMMA InvNext == Inv /\ [Next]_vars => Inv'
<1>. SUFFICES ASSUME Inv, [Next]_vars
              PROVE  Inv'
  OBVIOUS
<1>1. CASE UNCHANGED vars
  BY <1>1 DEF vars, Inv, StreamType, StreamInv, BufferType, HandledInv, InRead,
              RoomToRead, HandledInOrder, Total, Start, End
<1>2. CASE Next
  BY <1>2, SendNext, HandleReadNext, HandlePacketNext, MisreadNext, EndNext, ThrowNext
     DEF Next
<1>. QED
  BY <1>1, <1>2

LEMMA InvAlways == Spec => []Inv
BY InvInit, InvNext, PTL DEF Spec

(***************************************************************************)
(* What follows.                                                           *)
(***************************************************************************)

\* The receiving half keeps its types; above all, the read buffer its size, over
\* resets, decryptions and handlers that go past its end.
THEOREM ReadTypeCorrect == Spec => []TypeOK
<1>1. ASSUME Inv
      PROVE  TypeOK
  <2>1. \A c \in CellsTo(arrived) : c \in Cells
    BY <1>1, InvShape DEF CellsTo, Cells, Forms
  <2>. DEFINE old == CellsTo(arrived)
  <2>2. /\ data \in Seq(old) /\ Len(data) = ReadBufferSize
        /\ window \in [1..Block -> old]
    BY <1>1, InvShape DEF Inv, BufferType
  <2>. HIDE DEF old
  <2>3. \A c \in old : c \in Cells
    BY <2>1 DEF old
  <2>4. data \in Seq(Cells) /\ window \in [1..Block -> Cells]
    BY <2>2, <2>3
  <2>5. handled \in Seq(1..MaxPackets)
    <3>. DEFINE numbers == 1..MaxPackets
    <3>1. \A h \in 1..Len(handled) : handled[h] \in numbers
      BY <1>1, InvShape, StreamShape, ReadPathAssumption DEF Inv, StreamInv
    <3>2. handled \in Seq(DOMAIN stream)
      BY <1>1 DEF Inv, HandledInv
    <3>. HIDE DEF numbers
    <3>3. handled \in Seq(numbers)
      BY <3>1, <3>2
    <3>. QED
      BY <3>3 DEF numbers
  <2>6. stream \in Seq([kind : Kinds, start : Nat, length : Lengths])
    BY <1>1 DEF Inv, StreamType, Packets
  <2>. QED
    BY <1>1, <2>2, <2>4, <2>5, <2>6 DEF Inv, BufferType, TypeOK
<1>. QED
  BY <1>1, InvAlways, PTL

\* A pending read always has room for a byte.  Code: start_read, mutableBuffer.
THEOREM ReadsHaveRoom == Spec => []RoomToRead
<1>1. Inv => RoomToRead
  BY DEF Inv
<1>. QED
  BY <1>1, InvAlways, PTL

\* No packet is handled twice or after a later one, however TCP cuts the stream.
\* Code: process_packets, start_read.
THEOREM PacketsHandledInOrder == Spec => []HandledInOrder
<1>1. Inv => HandledInOrder
  BY DEF Inv, HandledInv
<1>. QED
  BY <1>1, InvAlways, PTL

\* The loop never takes a byte of an earlier read for the next packet.
\* Code: process_packets.
THEOREM LoopLooksAtNewBytes == Spec => []LooksAtNewBytes
<1>1. ASSUME Inv
      PROVE  LooksAtNewBytes
  <2>1. ASSUME More
        PROVE  Current.byte > arrived - size
    <3>1. PICK base \in Nat : InRead(base)
      BY <1>1, <2>1 DEF Inv, More
    <3>. QED
      BY <1>1, <2>1, <3>1, CurrentIsNew
  <2>. QED
    BY <2>1 DEF LooksAtNewBytes
<1>. QED
  BY <1>1, InvAlways, PTL

(***************************************************************************)
(* The decryption.                                                         *)
(***************************************************************************)

\* A byte of the read with Block encrypted bytes of the read before it.
LEMMA DecryptsBehindBlock ==
  ASSUME Inv, NEW n \in 1..ReadBufferSize, HandleRead(n), cipher,
         NEW i \in (Block + 1)..n, ~InClear(arrived + i - Block)
  PROVE  data'[readPos + i] = Cell(arrived + i, "plain")
<1>1. /\ arrived \in Nat /\ readPos \in Nat /\ ReadBufferSize \in Nat /\ n \in Nat
      /\ Block \in Nat \ {0} /\ Len(data) = ReadBufferSize /\ Total \in Nat
      /\ i \in Nat /\ i <= n /\ Block < i
  BY InvShape, ReadPathAssumption
<1>2. n <= ReadBufferSize - readPos /\ n <= Total - arrived
  BY <1>1 DEF HandleRead
<1>. DEFINE bytes == Filled(n)
            at == readPos + i
            hi == arrived + n
<1>3. /\ bytes \in [1..ReadBufferSize -> CellsTo(hi)]
      /\ \A j \in 1..n : bytes[readPos + j] = Sent(arrived + j)
  BY <1>2, FilledShape DEF Inv
<1>4. window \in [1..Block -> CellsTo(hi)]
  <2>1. \A j \in 1..Block : window[j] \in CellsTo(arrived + n)
    BY <1>1, CellsGrow DEF Inv, BufferType
  <2>. QED
    BY <2>1 DEF Inv, BufferType
<1>5. data' = Output(window \o bytes)
  BY DEF HandleRead, Decrypt
<1>6. at \in 1..ReadBufferSize /\ hi \in Nat
  BY <1>1, <1>2
<1>. HIDE DEF bytes, hi
<1>7. data'[at] = Cell(bytes[at].byte,
                       IF /\ bytes[at].form = "cipher"
                          /\ SubSeq(window \o bytes, at, at + Block - 1)
                               = Before(bytes[at].byte)
                         THEN "plain" ELSE "junk")
  BY <1>3, <1>4, <1>5, <1>6, OutputShape
\* From there on, all that the client sends is encrypted.
<1>8. ASSUME NEW j \in (i - Block)..n
      PROVE  /\ j \in 1..n /\ ~InClear(arrived + j)
             /\ bytes[readPos + j] = Cell(arrived + j, "cipher")
             /\ Sent(arrived + j) = Cell(arrived + j, "cipher")
  <2>1. /\ j \in 1..n /\ arrived + j \in 1..Total
        /\ arrived + i - Block \in 1..Total /\ arrived + i - Block <= arrived + j
    BY <1>1, <1>2
  <2>2. ~InClear(arrived + j)
    BY <2>1, ClearMonotone DEF Inv
  <2>. QED
    BY <1>3, <2>1, <2>2 DEF Sent
<1>9. bytes[at] = Cell(arrived + i, "cipher")
  BY <1>1, <1>8
\* What stands before the byte is what the client's cipher put out before it.
<1>10. SubSeq(window \o bytes, at, at + Block - 1) = Before(arrived + i)
  <2>. DEFINE input == window \o bytes
              cells == CellsTo(hi)
              row == SubSeq(input, at, at + Block - 1)
  <2>1. /\ input \in Seq(cells)
        /\ Len(input) = Block + ReadBufferSize
        /\ \A j \in 1..ReadBufferSize : input[Block + j] = bytes[j]
    <3>1. /\ window \in Seq(cells) /\ Len(window) = Block
          /\ bytes \in Seq(cells) /\ Len(bytes) = ReadBufferSize
      BY <1>1, <1>3, <1>4, ArrayShape
    <3>. HIDE DEF cells
    <3>. QED
      BY <1>1, <3>1
  <2>. HIDE DEF input, cells
  <2>2. /\ at \in Nat \ {0} /\ Block \in Nat
        /\ at + Block - 1 <= Len(input)
    BY <1>1, <1>6, <2>1
  <2>3. /\ row \in [1..Block -> cells]
        /\ \A k \in 1..Block : row[k] = input[at + k - 1]
    <3>. HIDE DEF at
    <3>. QED
      BY <2>1, <2>2, RowShape
  <2>4. ASSUME NEW k \in 1..Block
        PROVE  row[k] = Before(arrived + i)[k]
    <3>. DEFINE j == i + k - 1 - Block
                m == arrived + i + k - 1 - Block
    <3>1. /\ j \in (i - Block)..n /\ m = arrived + j /\ m > 0
          /\ readPos + j \in 1..ReadBufferSize
          /\ at + k - 1 = Block + (readPos + j)
      BY <1>1, <1>2
    <3>. HIDE DEF j, at
    <3>2. row[k] = Cell(arrived + j, "cipher")
      BY <1>8, <2>1, <2>3, <3>1
    <3>3. ~InClear(m) /\ Sent(m) = Cell(arrived + j, "cipher")
      BY <1>8, <3>1
    <3>4. Before(arrived + i)[k] = Sent(m)
      BY <3>1, <3>3 DEF Before
    <3>. QED
      BY <3>2, <3>3, <3>4
  <2>5. Before(arrived + i) = [k \in 1..Block |-> Before(arrived + i)[k]]
    BY DEF Before
  <2>. HIDE DEF row
  <2>6. row = Before(arrived + i)
    BY <2>3, <2>4, <2>5
  <2>. QED
    BY <2>6 DEF row, input
<1>11. Cell(arrived + i, "cipher").byte = arrived + i
       /\ Cell(arrived + i, "cipher").form = "cipher"
  BY DEF Cell
<1>. QED
  BY <1>7, <1>9, <1>10, <1>11

\* However far the two ciphers are out of step, they are in step again after one
\* block of every read.  Code: Buffer::decrypt, handle_read.
THEOREM DecryptionFindsBack == Spec => FindsBack
<1>1. ASSUME Inv, [Next]_vars, ~processing, processing', cipher,
             NEW i \in (Block + 1)..size', ~InClear(arrived + i - Block)
      PROVE  data'[readPos + i] = Cell(arrived + i, "plain")
  <2>1. PICK n \in 1..ReadBufferSize : HandleRead(n)
    BY <1>1 DEF Next, vars, Send, HandlePacket, HandleCutPacket, HandleStray, UnknownId,
                Throw, EndLoop, More
  <2>2. i \in (Block + 1)..n
    BY <1>1, <2>1 DEF HandleRead
  <2>. QED
    BY <1>1, <2>1, <2>2, DecryptsBehindBlock
<1>2. Inv /\ [Next]_vars =>
        [~processing /\ processing' /\ cipher =>
           \A i \in (Block + 1)..size' :
             ~InClear(arrived + i - Block) =>
               data'[readPos + i] = Cell(arrived + i, "plain")]_vars
  BY <1>1
<1>. QED
  BY <1>2, InvAlways, PTL DEF Spec, FindsBack
=============================================================================
