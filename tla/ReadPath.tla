------------------------------ MODULE ReadPath ------------------------------
(***************************************************************************)
(* The receiving half of network::Connection: start_read, handle_read and  *)
(* the loop of process_packets over a packet::Buffer whose size is fixed   *)
(* and whose read position is only reset when everything is used up, and   *)
(* the decryption of that buffer.  The network thread runs all of it; what *)
(* varies is how TCP cuts the client's stream into reads.                  *)
(*                                                                         *)
(* A byte of the buffer is the byte of the client's stream it came from    *)
(* and its form.  A handler that reads a whole packet from its first byte  *)
(* on uses exactly its bytes; what it makes of anything else is not        *)
(* determined here.                                                        *)
(***************************************************************************)
EXTENDS Naturals, Sequences

CONSTANTS
  ReadBufferSize,   \* READ_BUFFER_SIZE in Buffer::mutableBuffer (4096)
  Block,            \* AES_BLOCK_SIZE: how many bytes of CFB8's input a byte of
                    \* its output depends on (16)
  Lengths,          \* how long a packet of the client may be, id included
  Kinds,            \* of packets: the handler reads the payload ("read"), leaves
                    \* it ("unread"), throws ("bad"), or takes the key ("key"), or
                    \* PACKETS_HANDLERS has no handler for the id ("unknown")
  MaxPackets        \* bound: packets the client sends

ASSUME ReadPathAssumption ==
  /\ ReadBufferSize \in Nat \ {0} /\ Block \in Nat \ {0}
  /\ Lengths \subseteq 1..ReadBufferSize
  /\ Kinds \subseteq {"read", "unread", "bad", "key", "unknown"}
  /\ MaxPackets \in Nat

VARIABLES
  stream,           \* the packets the client sent, in order: their kind, the
                    \* bytes before them and their length
  arrived,          \* how many bytes of the stream were read from the socket
  data, readPos,    \* readBuffer: its bytes (data) and Buffer::readPos
  size,             \* the argument of process_packets
  processing,       \* whether process_packets runs, or a read is pending
  cipher,           \* Connection::cipher # nullptr
  window,           \* the last Block bytes decryptCtx was given
  handled,          \* history: the packets whose handler ran, in order
  split             \* history: a read ended inside a packet

vars == <<stream, arrived, data, readPos, size, processing, cipher, window,
          handled, split>>

\* A byte and its form: as the client means it, as its cipher made it, or what
\* decrypting it at the wrong moment makes of it.  Byte 0 is not the client's.
Cell(n, form) == [byte |-> n, form |-> form]
Zero == Cell(0, "plain")                \* data.resize() fills with zeros
IV == [i \in 1..Block |-> Cell(0, "iv")]

\* Packet p is the bytes Start(p) + 1 to End(p) of the stream.
Start(p) == stream[p].start
End(p) == Start(p) + stream[p].length
Total == IF stream = <<>> THEN 0 ELSE End(Len(stream))
PacketOf(n) == CHOOSE p \in DOMAIN stream : Start(p) < n /\ n <= End(p)

\* The client encrypts what it sends after its key.
InClear(n) == \A q \in 1..(PacketOf(n) - 1) : stream[q].kind # "key"
Sent(n) == Cell(n, IF InClear(n) THEN "plain" ELSE "cipher")

\* Variant with a bug: the buffer is reserved, not resized.
Reserved(bytes) == bytes

\* Buffer::clearBuffer in start_read, then mutableBuffer.
Resized(bytes) ==
  [i \in 1..ReadBufferSize |-> IF i <= Len(bytes) THEN bytes[i] ELSE Zero]

\* Variant with a bug: off by one where the buffer is used up.
StartReadLate(bytes, pos) ==
  /\ processing' = FALSE
  /\ IF pos > Len(bytes) THEN data' = Resized(<<>>) /\ readPos' = 0
                         ELSE data' = Resized(bytes) /\ readPos' = pos

StartRead(bytes, pos) ==
  /\ processing' = FALSE
  /\ IF pos >= Len(bytes) THEN data' = Resized(<<>>) /\ readPos' = 0
                          ELSE data' = Resized(bytes) /\ readPos' = pos

Init ==
  /\ stream = <<>> /\ arrived = 0
  /\ data = Resized(<<>>) /\ readPos = 0
  /\ size = 0 /\ processing = FALSE
  /\ cipher = FALSE /\ window = IV
  /\ handled = <<>> /\ split = FALSE

Send ==
  /\ Len(stream) < MaxPackets
  /\ \E k \in Kinds, n \in Lengths :
       stream' = Append(stream, [kind |-> k, start |-> Total, length |-> n])
  /\ UNCHANGED <<arrived, data, readPos, size, processing, cipher, window, handled,
                 split>>

\* The next n bytes of the stream, behind those the buffer has used up.
Filled(n) ==
  [i \in DOMAIN data |-> IF i \in (readPos + 1)..(readPos + n)
                           THEN Sent(arrived + i - readPos) ELSE data[i]]

\* What decryptCtx must have been given last for it to decrypt byte n.
Before(n) ==
  [i \in 1..Block |-> LET m == n + i - 1 - Block IN
                     IF m > 0 /\ ~InClear(m) THEN Sent(m) ELSE IV[i]]

\* What decryptCtx makes of the bytes behind the first Block of its input.
Output(input) ==
  [i \in 1..(Len(input) - Block) |-> LET c == input[Block + i] IN
     Cell(c.byte, IF /\ c.form = "cipher"
                     /\ SubSeq(input, i, i + Block - 1) = Before(c.byte)
                  THEN "plain" ELSE "junk")]
LastBlock(input) == SubSeq(input, Len(input) - Block + 1, Len(input))

\* Variant with a bug: as many bytes are decrypted as were read.
DecryptRead(bytes, n) ==
  /\ data' = Output(window \o SubSeq(bytes, 1, n)) \o SubSeq(bytes, n + 1, Len(bytes))
  /\ window' = LastBlock(window \o SubSeq(bytes, 1, n))

\* Buffer::decrypt: the whole buffer goes through decryptCtx, bytes that were
\* decrypted before or never encrypted and the zeros at the end included.
Decrypt(bytes, n) ==
  /\ data' = Output(window \o bytes)
  /\ window' = LastBlock(window \o bytes)

\* Variant with a bug: the whole buffer counts as read.
HandleFullRead(n) ==
  /\ ~processing
  /\ n <= Len(data) - readPos
  /\ n <= Total - arrived
  /\ IF cipher THEN Decrypt(Filled(n), n) ELSE data' = Filled(n) /\ UNCHANGED window
  /\ arrived' = arrived + n
  /\ size' = Len(data)
  /\ split' = (split \/ \A p \in DOMAIN stream : End(p) # arrived + n)
  /\ processing' = TRUE
  /\ UNCHANGED <<stream, readPos, cipher, handled>>

\* async_read_some hands over some of the bytes that have come; handle_read
\* decrypts and passes their number on.
HandleRead(n) ==
  /\ ~processing
  /\ n <= Len(data) - readPos
  /\ n <= Total - arrived
  /\ IF cipher THEN Decrypt(Filled(n), n) ELSE data' = Filled(n) /\ UNCHANGED window
  /\ arrived' = arrived + n
  /\ size' = n
  /\ split' = (split \/ \A p \in DOMAIN stream : End(p) # arrived + n)
  /\ processing' = TRUE
  /\ UNCHANGED <<stream, readPos, cipher, handled>>

-----------------------------------------------------------------------------
(* The loop of process_packets.  "size" is compared with a position in the *)
(* buffer although it counts from where the read began.                    *)

\* Variant with a bug: the loop ends with the buffer, not with the read.
MoreData == processing /\ readPos < Len(data)

More == processing /\ readPos < size /\ readPos < Len(data)
Current == data[readPos + 1]
Packet == PacketOf(Current.byte)
AtPacket == /\ Current.byte # 0 /\ Current.form = "plain"
            /\ Current.byte = Start(Packet) + 1
Whole(p) == /\ readPos + stream[p].length <= Len(data)
            /\ \A k \in 1..stream[p].length :
                 data[readPos + k] = Cell(Start(p) + k, "plain")

\* What the handler of p does with its payload: a key is only taken once.
Does(p) == IF stream[p].kind = "key" /\ cipher THEN "unread" ELSE stream[p].kind

\* The handler of the packet that begins here, if all of it is here or the
\* handler reads nothing of it.
HandlePacket ==
  /\ More /\ AtPacket
  /\ handled' = Append(handled, Packet)
  /\ \/ /\ Does(Packet) = "unread"
        /\ readPos' = readPos + 1
        /\ UNCHANGED cipher
     \/ /\ Does(Packet) \in {"read", "key"} /\ Whole(Packet)
        /\ readPos' = readPos + stream[Packet].length
        /\ cipher' = (cipher \/ Does(Packet) = "key")
  /\ UNCHANGED <<stream, arrived, data, size, processing, window, split>>

\* A handler on bytes that are not those of one whole packet: the lengths it
\* finds there are anything, and Buffer::readBytes may go past the end.
Misread == readPos' \in (readPos + 1)..(Len(data) + 1)

\* (Two arrays that are not the client's do not decrypt to a key.)
HandleCutPacket ==
  /\ More /\ AtPacket
  /\ Does(Packet) \in {"read", "bad"} /\ ~Whole(Packet)
  /\ handled' = Append(handled, Packet)
  /\ Misread
  /\ UNCHANGED <<stream, arrived, data, size, processing, cipher, window, split>>

\* A byte from inside a packet, or one that was not decrypted, is the id of
\* anything (here, and in UnknownId and Throw).
HandleStray ==
  /\ More /\ ~AtPacket
  /\ Misread
  /\ UNCHANGED <<stream, arrived, data, size, processing, cipher, window, handled,
                 split>>

\* An unknown id ends the loop, with the bytes behind it left where they are.
UnknownId ==
  /\ More
  /\ AtPacket => Does(Packet) = "unknown"
  /\ StartRead(data, readPos + 1)
  /\ UNCHANGED <<stream, arrived, size, cipher, window, handled, split>>

\* A handler threw: the buffer is cleared.
Throw ==
  /\ More
  /\ \/ /\ AtPacket
        /\ Does(Packet) \notin {"unread", "unknown"}
        /\ Does(Packet) = "bad" \/ ~Whole(Packet)
        /\ handled' = Append(handled, Packet)
     \/ ~AtPacket /\ UNCHANGED handled
  /\ StartRead(<<>>, 0)
  /\ UNCHANGED <<stream, arrived, size, cipher, window, split>>

EndLoop ==
  /\ processing /\ ~More
  /\ StartRead(data, readPos)
  /\ UNCHANGED <<stream, arrived, size, cipher, window, handled, split>>

Next ==
  \/ Send
  \/ \E n \in 1..ReadBufferSize : HandleRead(n)
  \/ HandlePacket \/ HandleCutPacket \/ HandleStray
  \/ UnknownId \/ Throw \/ EndLoop

Spec == Init /\ [][Next]_vars

-----------------------------------------------------------------------------
Cells == [byte : Nat, form : {"plain", "cipher", "junk", "iv"}]

TypeOK ==
  /\ stream \in Seq([kind : Kinds, start : Nat, length : Lengths])
  /\ arrived \in 0..Total
  /\ data \in Seq(Cells) /\ Len(data) = ReadBufferSize
  /\ readPos \in 0..(ReadBufferSize + 1)
  /\ size \in 0..ReadBufferSize
  /\ processing \in BOOLEAN /\ cipher \in BOOLEAN /\ split \in BOOLEAN
  /\ window \in [1..Block -> Cells]
  /\ handled \in Seq(1..MaxPackets)

\* A pending read always has room: a read of no bytes completes at once, and
\* handle_read and start_read would take turns for ever.
\* Code: start_read and mutableBuffer, after handlers that may go past the end.
RoomToRead == ~processing => readPos < Len(data)

\* No packet is handled twice or after a later one, although the buffer keeps
\* the bytes of earlier reads, handled and not, around the new ones.
\* Code: the bounds of the loop in process_packets, start_read.
HandledInOrder ==
  \A i, j \in DOMAIN handled : i < j => handled[i] < handled[j]

\* While a handler looks for the next packet it looks at bytes of the read that
\* has just completed, never at older ones.
\* Code: process_packets, whose bound is the size of that read.
LooksAtNewBytes == More => Current.byte > arrived - size

\* However out of step the two ciphers are when a read begins, all bytes of the
\* read but the first Block are decrypted, as CFB8 finds back to the stream by
\* itself.  Code: Buffer::decrypt, called by handle_read for the whole buffer.
FindsBack ==
  [][~processing /\ processing' /\ cipher =>
       \A i \in (Block + 1)..size' :
         ~InClear(arrived + i - Block) =>
           data'[readPos + i] = Cell(arrived + i, "plain")]_vars

-----------------------------------------------------------------------------
(* What the repository says of the reads and the code does not do.         *)

\* The buffer a handler reads from contains all the data of its packet
\* (ClientProtocolPacket.cpp:24).
AllDataIsThere == More /\ AtPacket /\ Does(Packet) # "unknown" => Whole(Packet)

\* As long as no packet is cut in two, every packet of the basic login procedure
\* (README.md:15) is handled before the next read.
EveryPacketHandled ==
  ~processing /\ ~split => \A p \in DOMAIN stream :
    stream[p].kind # "unknown" /\ End(p) <= arrived => \E i \in DOMAIN handled : handled[i] = p

\* Packets are encrypted (README.md:16) for the server to decrypt them: what it
\* reads once it has the cipher becomes what the client meant.
EncryptedIsRead ==
  [][~processing /\ processing' /\ cipher =>
       \A i \in 1..size' : data'[readPos + i] = Cell(arrived + i, "plain")]_vars
=============================================================================
