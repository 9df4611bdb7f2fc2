----------------------------- MODULE WriteQueue -----------------------------
(***************************************************************************)
(* The sending half of network::Connection: addPacketToQueue, start_write  *)
(* and handle_write, one action per access to a field that two threads     *)
(* share.  Net is the thread that runs the io_context (all completion      *)
(* handlers run there); the other threads are the main thread (tick) and   *)
(* the console thread, which also add packets when they kick a player.     *)
(*                                                                         *)
(* A packet is its position in "added"; the bytes it is serialised to are  *)
(* one entry [id, enc] of a buffer, enc counting how often those bytes     *)
(* went through AESCipher::encrypt.                                        *)
(***************************************************************************)
EXTENDS Naturals, Sequences

CONSTANTS
  Threads,          \* the threads that call addPacketToQueue
  Net,              \* the thread that runs the completion handlers
  NoThread,         \* the owner of a mutex nobody holds
  Kinds,            \* the kinds of packet
  MaxPackets        \* bound: packets added to one connection

ASSUME WriteQueueAssumption ==
  /\ Net \in Threads
  /\ NoThread \notin Threads
  /\ MaxPackets \in Nat

VARIABLES
  added,            \* history: the kind of every packet added, in order
  queue,            \* Connection::queue
  served,           \* history: the packets serialised (and deleted), in order
  queueMutex,       \* the thread that holds Connection::queueMutex
  isWriting,        \* Connection::isWriting
  writeBuffer,      \* Connection::writeBuffer
  cipher,           \* Connection::cipher # nullptr
  inflight,         \* asynchronous writes whose handler has not run yet
  wire,             \* history: what the peer was sent
  sock,             \* the socket: "open", "lost" (the peer left) or "closed"
  wpc               \* where each thread is in addPacketToQueue / handle_write

queueVars == <<added, queue, served, queueMutex>>
writeVars == <<queueVars, isWriting, writeBuffer, cipher, inflight, wire, sock, wpc>>

Garbage == [id |-> 0, enc |-> 0]        \* bytes that belong to no packet

WriteLabels == {"idle", "check", "claim", "lock", "drain", "erase",
                "encrypt", "post"}
DoneLabels == {"done", "doneEmpty", "tail", "mustClose"}

At(t, l) == wpc[t] = l
Goto(t, l) == wpc' = [wpc EXCEPT ![t] = l]

\* writeBuffer changes under the writes the kernel has not finished reading:
\* what they send is from now on unpredictable.
Tear == inflight' = [i \in DOMAIN inflight |->
          [inflight[i] EXCEPT !.torn = @ \/ inflight[i].state = "posted"]]

WriteInit ==
  /\ added = <<>> /\ queue = <<>> /\ served = <<>> /\ queueMutex = NoThread
  /\ isWriting = FALSE /\ writeBuffer = <<>> /\ cipher = FALSE
  /\ inflight = <<>> /\ wire = <<>> /\ sock = "open"
  /\ wpc = [t \in Threads |-> "idle"]

-----------------------------------------------------------------------------
(* addPacketToQueue and start_write, run by any thread.                    *)

Push(t, k) ==
  /\ At(t, "idle")
  /\ queueMutex = NoThread
  /\ Len(added) < MaxPackets
  /\ added' = Append(added, k)
  /\ queue' = Append(queue, Len(added) + 1)
  /\ Goto(t, "check")
  /\ UNCHANGED <<served, queueMutex, isWriting, writeBuffer, cipher, inflight,
                 wire, sock>>

\* Variant with a bug: isWriting is not tested.
CheckNothing(t) ==
  /\ At(t, "check")
  /\ Goto(t, "claim")
  /\ UNCHANGED <<queueVars, isWriting, writeBuffer, cipher, inflight, wire, sock>>

\* "if (!isWriting) start_write()" and start_write's own early return.
Check(t) ==
  /\ At(t, "check")
  /\ Goto(t, IF isWriting THEN "idle" ELSE "claim")
  /\ UNCHANGED <<queueVars, isWriting, writeBuffer, cipher, inflight, wire, sock>>

Claim(t) ==
  /\ At(t, "claim")
  /\ isWriting' = TRUE
  /\ Goto(t, "lock")
  /\ UNCHANGED <<queueVars, writeBuffer, cipher, inflight, wire, sock>>

\* Variant with a bug: start_write does not wait for queueMutex.
TakeQueue(t) ==
  /\ At(t, "lock")
  /\ queueMutex' = t
  /\ Goto(t, "drain")
  /\ UNCHANGED <<added, queue, served, isWriting, writeBuffer, cipher, inflight,
                 wire, sock>>

LockQueue(t) ==
  /\ At(t, "lock")
  /\ queueMutex = NoThread
  /\ queueMutex' = t
  /\ Goto(t, "drain")
  /\ UNCHANGED <<added, queue, served, isWriting, writeBuffer, cipher, inflight,
                 wire, sock>>

\* Serialise the first packet into writeBuffer and delete it ...
Serialise(t) ==
  /\ At(t, "drain")
  /\ queue # <<>>
  /\ served' = Append(served, Head(queue))
  /\ writeBuffer' = Append(writeBuffer, [id |-> Head(queue), enc |-> 0])
  /\ Tear
  /\ Goto(t, "erase")
  /\ UNCHANGED <<added, queue, queueMutex, isWriting, cipher, wire, sock>>

\* ... then erase it from the queue.
Erase(t) ==
  /\ At(t, "erase")
  /\ queue # <<>>
  /\ queue' = Tail(queue)
  /\ Goto(t, "drain")
  /\ UNCHANGED <<added, served, queueMutex, isWriting, writeBuffer, cipher,
                 inflight, wire, sock>>

UnlockQueue(t) ==
  /\ At(t, "drain")
  /\ queue = <<>>
  /\ queueMutex' = NoThread
  /\ Goto(t, "encrypt")
  /\ UNCHANGED <<added, queue, served, isWriting, writeBuffer, cipher, inflight,
                 wire, sock>>

\* Variant with a bug: decrypts what is to be encrypted.
DecryptAll(buf) == [i \in DOMAIN buf |-> [buf[i] EXCEPT !.enc = @ - 1]]

EncryptAll(buf) == [i \in DOMAIN buf |-> [buf[i] EXCEPT !.enc = @ + 1]]

\* The whole buffer is encrypted in place, when there is a cipher.
Encrypt(t) ==
  /\ At(t, "encrypt")
  /\ IF cipher THEN writeBuffer' = EncryptAll(writeBuffer) /\ Tear
               ELSE UNCHANGED <<writeBuffer, inflight>>
  /\ Goto(t, "post")
  /\ UNCHANGED <<queueVars, isWriting, cipher, wire, sock>>

\* async_write returns at once; the write it starts refers to writeBuffer.
Post(t) ==
  /\ At(t, "post")
  /\ inflight' = Append(inflight,
       [data |-> writeBuffer, state |-> "posted", torn |-> FALSE])
  /\ Goto(t, "idle")
  /\ UNCHANGED <<queueVars, isWriting, writeBuffer, cipher, wire, sock>>

\* handleSharedKeyPacket creates the cipher, on the network thread.
InstallCipher ==
  /\ At(Net, "idle")
  /\ cipher' = TRUE
  /\ UNCHANGED <<queueVars, isWriting, writeBuffer, inflight, wire, sock, wpc>>

-----------------------------------------------------------------------------
(* The transport (asio and TCP): a posted write is sent while the socket   *)
(* is open, and fails once it is not.                                      *)

Settle(i, s) == inflight' = [inflight EXCEPT ![i].state = s]

Transmit(i) ==
  /\ inflight[i].state = "posted"
  /\ sock = "open"
  /\ \/ wire' = wire \o inflight[i].data
     \/ inflight[i].torn /\ wire' = Append(wire, Garbage)
  /\ Settle(i, "sent")
  /\ UNCHANGED <<queueVars, isWriting, writeBuffer, cipher, sock, wpc>>

Fail(i) ==
  /\ inflight[i].state = "posted"
  /\ sock # "open"
  /\ Settle(i, "failed")
  /\ UNCHANGED <<queueVars, isWriting, writeBuffer, cipher, wire, sock, wpc>>

LosePeer ==
  /\ sock = "open"
  /\ sock' = "lost"
  /\ UNCHANGED <<queueVars, isWriting, writeBuffer, cipher, inflight, wire, wpc>>

-----------------------------------------------------------------------------
(* handle_write, run by the network thread.                                *)

Without(s, i) == SubSeq(s, 1, i - 1) \o SubSeq(s, i + 1, Len(s))

\* The handler starts: isWriting is reset before the buffer is looked at.
WriteDone(i) ==
  /\ At(Net, "idle")
  /\ inflight[i].state \in {"sent", "failed"}
  /\ inflight' = Without(inflight, i)
  /\ isWriting' = FALSE
  /\ Goto(Net, IF inflight[i].state = "failed" THEN "tail"
               ELSE IF inflight[i].data = <<>> THEN "doneEmpty" ELSE "done")
  /\ UNCHANGED <<queueVars, writeBuffer, cipher, wire, sock>>

\* Variant with a bug: the buffer is not cleared.
ClearNothing ==
  /\ wpc[Net] \in {"done", "doneEmpty"}
  /\ Goto(Net, "tail")
  /\ UNCHANGED <<queueVars, isWriting, writeBuffer, cipher, inflight, wire, sock>>

\* A write that succeeded clears the buffer ...
ClearWritten ==
  /\ wpc[Net] \in {"done", "doneEmpty"}
  /\ writeBuffer' = <<>>
  /\ Tear
  /\ Goto(Net, "tail")
  /\ UNCHANGED <<queueVars, isWriting, cipher, wire, sock>>

\* Variant with a bug: the connection goes on after the answer to a ping.
KeepOpen ==
  /\ At(Net, "done")
  /\ Goto(Net, "tail")
  /\ UNCHANGED <<queueVars, isWriting, writeBuffer, cipher, inflight, wire, sock>>

\* ... unless it answered a server list ping, which ends the connection.
KeepWritten ==
  /\ At(Net, "done")
  /\ Goto(Net, "mustClose")
  /\ UNCHANGED <<queueVars, isWriting, writeBuffer, cipher, inflight, wire, sock>>

CloseSocket ==
  /\ wpc[Net] \in {"tail", "mustClose"}
  /\ sock' = "closed"
  /\ Goto(Net, "idle")
  /\ UNCHANGED <<queueVars, isWriting, writeBuffer, cipher, inflight, wire>>

StayOpen ==
  /\ At(Net, "tail")
  /\ Goto(Net, "idle")
  /\ UNCHANGED <<queueVars, isWriting, writeBuffer, cipher, inflight, wire, sock>>

\* The last shared_ptr to the Connection goes: its socket is closed.  The
\* packets still in the queue are not deleted.
Destroy ==
  /\ inflight = <<>>
  /\ \A t \in Threads : At(t, "idle")
  /\ sock' = "closed"
  /\ UNCHANGED <<queueVars, isWriting, writeBuffer, cipher, inflight, wire, wpc>>

-----------------------------------------------------------------------------
WriteStep(t) ==
  \/ Check(t) \/ Claim(t) \/ LockQueue(t) \/ Serialise(t) \/ Erase(t)
  \/ UnlockQueue(t) \/ Encrypt(t) \/ Post(t)

Handler ==
  \/ \E i \in DOMAIN inflight : WriteDone(i)
  \/ ClearWritten \/ KeepWritten \/ CloseSocket \/ StayOpen

Transport ==
  \/ \E i \in DOMAIN inflight : Transmit(i) \/ Fail(i)
  \/ LosePeer

WriteNext ==
  \/ \E t \in Threads : WriteStep(t) \/ \E k \in Kinds : Push(t, k)
  \/ Handler \/ Transport \/ InstallCipher \/ Destroy

WriteSpec == WriteInit /\ [][WriteNext]_writeVars

-----------------------------------------------------------------------------
Entries == [id : Nat, enc : Nat]
Writes == [data : Seq(Entries), torn : BOOLEAN,
           state : {"posted", "sent", "failed"}]

TypeOK ==
  /\ added \in Seq(Kinds)
  /\ queue \in Seq(Nat) /\ served \in Seq(Nat)
  /\ queueMutex \in Threads \cup {NoThread}
  /\ isWriting \in BOOLEAN
  /\ writeBuffer \in Seq(Entries)
  /\ cipher \in BOOLEAN
  /\ inflight \in Seq(Writes)
  /\ wire \in Seq(Entries)
  /\ sock \in {"open", "lost", "closed"}
  /\ wpc \in [Threads -> WriteLabels \cup DoneLabels]
  /\ \A t \in Threads \ {Net} : wpc[t] \in WriteLabels
-----------------------------------------------------------------------------
(* Safety.                                                                 *)

\* Every packet is serialised, and deleted, exactly once, in the order of the
\* calls to addPacketToQueue: what is still queued are the packets that were
\* not.  Threads that push while another drains, two threads that both find
\* isWriting false, and handlers that clear the buffer must not break it.
\* Code: addPacketToQueue and the loop of start_write, both under queueMutex.
OnceSerialised ==
  LET gone == Len(added) - Len(queue) IN
  /\ \A i \in DOMAIN served : served[i] = i
  /\ \A i \in DOMAIN queue : queue[i] = gone + i
  /\ Len(served) \in {gone, gone + 1}

\* t is about to read or change writeBuffer.
Touching(t) == wpc[t] \in {"drain", "erase", "encrypt", "post", "done", "doneEmpty"}

\* isWriting does what it is for: one thread at a time works on writeBuffer,
\* and nobody does while the kernel still reads it, so that two asynchronous
\* writes never overlap.  Code: start_write (isWriting tested, then set) and
\* handle_write (isWriting reset before the buffer is cleared).
BufferExclusive ==
  /\ \A t, u \in Threads : Touching(t) /\ Touching(u) => t = u
  /\ \A t \in Threads : Touching(t) =>
       \A i \in DOMAIN inflight : inflight[i].state # "posted"

\* The peer sees the byte stream switch to encryption once: every packet
\* is encrypted at most once, and none is in the clear after an encrypted one.
\* Code: start_write encrypts the whole writeBuffer before each async_write,
\* handle_write empties it after.
SwitchedOnce ==
  \A i \in DOMAIN wire :
    /\ wire[i].enc <= 1
    /\ \A j \in 1..i : wire[j].enc <= wire[i].enc

\* The connection implements the pipe: the peer receives the packets in the
\* order of the calls to addPacketToQueue, without loss, repetition or damage
\* before the point where the stream ends.
Received == [i \in DOMAIN wire |-> wire[i].id]
Pipe == INSTANCE PacketPipe WITH sent <- Received
PipeSpec == Pipe!Spec
=============================================================================
