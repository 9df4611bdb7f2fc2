----------------------------- MODULE Connection -----------------------------
(***************************************************************************)
(* One network::Connection, the Player that owns it and the two threads    *)
(* that work on them: Net runs the completion handlers (handle_accept,     *)
(* handle_read, handle_write); Reg is whichever thread holds the server's  *)
(* playersMutex, that is the main thread in tick() or the console thread   *)
(* in requestKickPlayer().  The sending half is module WriteQueue.         *)
(*                                                                         *)
(* What a client sends is abstracted to the packet its bytes decode to;    *)
(* a wrong packet id or a buffer underflow ends the loop over the bytes    *)
(* read.  pc[t] is the step of a handler a thread is at, ret[t] where a    *)
(* call of disconnect() returns to, wpc[t] where it is in a nested call of *)
(* addPacketToQueue: the handler goes on once that is back to "idle".      *)
(***************************************************************************)
EXTENDS Naturals, Sequences

CONSTANTS
  Net, Reg, NoThread,
  MaxPackets,       \* bound: packets the server adds to the connection
  MaxIncoming,      \* bound: packets the client sends
  MaxKicks,         \* how often the console kicks this player
  Timeouts          \* whether 20 s may pass without a keep alive

ASSUME ConnectionAssumption ==
  /\ Net # Reg /\ NoThread \notin {Net, Reg}
  /\ MaxPackets \in Nat /\ MaxIncoming \in Nat /\ MaxKicks \in Nat
  /\ Timeouts \in BOOLEAN

Threads == {Net, Reg}
Labels == {"idle", "accept", "begin", "loop", "thrown", "clearRunning",
           "readName", "setMust", "quiet", "pingStatus", "setName", "auth",
           "loginStatus", "key", "login", "spawn", "position", "playStatus",
           "update", "keepAlive", "expire", "delete"}

Kinds == {"Kick", "PingResponse", "AuthData", "Login", "Spawn", "Position"}

VARIABLES
  added, queue, served, queueMutex, isWriting, writeBuffer, cipher, inflight,
  wire, sock, wpc,        \* the sending half, see WriteQueue
  status,           \* Connection::status
  running,          \* Connection::running
  mustDisconnect,   \* Connection::mustDisconnect
  timedOut,         \* time(nullptr) - lastActivity > 20
  hasPlayer,        \* Connection::player # nullptr
  player,           \* the Player: "fresh", "listed" (in players) or "freed"
  reading,          \* the asynchronous read: "none", "pending" or "ready"
  incoming,         \* packets received so far
  kicks,            \* kicks so far
  pc, ret

W == INSTANCE WriteQueue

writeVars == <<added, queue, served, queueMutex, isWriting, writeBuffer,
               cipher, inflight, wire, sock, wpc>>
flagVars == <<status, running, mustDisconnect, timedOut>>
envVars == <<reading, incoming, kicks>>
vars == <<writeVars, flagVars, hasPlayer, player, envVars, pc, ret>>

\* Thread t is at l, and not inside a call of addPacketToQueue.
At(t, l) == pc[t] = l /\ wpc[t] = "idle"
Goto(t, l) == pc' = [pc EXCEPT ![t] = l]

Init ==
  /\ W!WriteInit
  /\ status = "HANDSHAKE" /\ running = TRUE /\ mustDisconnect = FALSE
  /\ timedOut = FALSE
  /\ hasPlayer = FALSE /\ player = "fresh"
  /\ reading = "none" /\ incoming = 0 /\ kicks = 0
  /\ pc = [t \in Threads |-> IF t = Net THEN "accept" ELSE "idle"]
  /\ ret = [t \in Threads |-> "idle"]

-----------------------------------------------------------------------------
(* addPacketToQueue, called at l and returning to next.                    *)

Add(t, k, l, next) ==
  /\ At(t, l)
  /\ W!Push(t, k)
  /\ Goto(t, next)

(* disconnect(reason) adds a KickPacket, then clears running, then reads   *)
(* the player's name, then sets mustDisconnect.  disconnect() does neither *)
(* the first nor the third.                                                *)

KickStart(t, l, return) ==
  /\ Add(t, "Kick", l, "clearRunning")
  /\ ret' = [ret EXCEPT ![t] = return]

ClearRunning(t) ==
  /\ \/ At(t, "clearRunning") /\ Goto(t, "readName")
     \/ At(t, "quiet") /\ Goto(t, "setMust")
  /\ running' = FALSE
  /\ UNCHANGED <<writeVars, status, mustDisconnect, timedOut, hasPlayer,
                 player, envVars, ret>>

ReadName(t) ==
  /\ At(t, "readName")
  /\ Goto(t, "setMust")
  /\ UNCHANGED <<writeVars, flagVars, hasPlayer, player, envVars, ret>>

SetMust(t) ==
  /\ At(t, "setMust")
  /\ mustDisconnect' = TRUE
  /\ Goto(t, ret[t])
  /\ UNCHANGED <<writeVars, status, running, timedOut, hasPlayer, player,
                 envVars, ret>>

-----------------------------------------------------------------------------
(* handle_accept: the player is listed under playersMutex, then started.   *)

ListPlayer ==
  /\ At(Net, "accept")
  /\ At(Reg, "idle")
  /\ player' = "listed"
  /\ Goto(Net, "begin")
  /\ UNCHANGED <<writeVars, flagVars, hasPlayer, envVars, ret>>

\* player->handleConnection(): sets Connection::player and starts reading.
BeginConnection ==
  /\ At(Net, "begin")
  /\ hasPlayer' = TRUE
  /\ reading' = "pending"
  /\ Goto(Net, "idle")
  /\ UNCHANGED <<writeVars, flagVars, player, incoming, kicks, ret>>

-----------------------------------------------------------------------------
(* handle_read and the loop of process_packets.                            *)

Arrive ==
  /\ reading = "pending"
  /\ sock # "closed"
  /\ incoming < MaxIncoming
  /\ reading' = "ready"
  /\ UNCHANGED <<writeVars, flagVars, hasPlayer, player, incoming, kicks, pc, ret>>

HandleRead ==
  /\ At(Net, "idle")
  /\ reading = "ready"
  /\ reading' = "none"
  /\ Goto(Net, "loop")
  /\ UNCHANGED <<writeVars, flagVars, hasPlayer, player, incoming, kicks, ret>>

\* handle_read with an error returns without starting another read.
HandleReadError ==
  /\ At(Net, "idle")
  /\ reading = "pending"
  /\ sock # "open"
  /\ reading' = "none"
  /\ UNCHANGED <<writeVars, flagVars, hasPlayer, player, incoming, kicks, pc, ret>>

\* The bytes are used up, an id is unknown or a read of the buffer throws:
\* start_read.
StartRead ==
  /\ At(Net, "loop") \/ At(Net, "thrown")
  /\ reading' = "pending"
  /\ Goto(Net, "idle")
  /\ UNCHANGED <<writeVars, flagVars, hasPlayer, player, incoming, kicks, ret>>

\* The next packet of the loop.
Receive ==
  /\ At(Net, "loop")
  /\ incoming < MaxIncoming
  /\ incoming' = incoming + 1

-----------------------------------------------------------------------------
(* The packet handlers.  In any other status the handler of a login packet *)
(* returns at once.                                                        *)

HandleServerPing ==
  /\ Receive
  /\ status = "HANDSHAKE"
  /\ Add(Net, "PingResponse", "loop", "pingStatus")
  /\ UNCHANGED <<flagVars, hasPlayer, player, reading, kicks, ret>>

\* Variant with a bug: a second handshake is accepted in any status.
HandleHandshakeAgain ==
  /\ Receive
  /\ \/ KickStart(Net, "loop", "setName")
     \/ Goto(Net, "setName") /\ UNCHANGED <<writeVars, ret>>
  /\ UNCHANGED <<flagVars, hasPlayer, player, reading, kicks>>

\* A wrong protocol version disconnects, and the login goes on all the same.
HandleHandshake ==
  /\ Receive
  /\ status = "HANDSHAKE"
  /\ \/ KickStart(Net, "loop", "setName")
     \/ Goto(Net, "setName") /\ UNCHANGED <<writeVars, ret>>
  /\ UNCHANGED <<flagVars, hasPlayer, player, reading, kicks>>

SetName ==
  /\ At(Net, "setName")
  /\ Goto(Net, "auth")
  /\ UNCHANGED <<writeVars, flagVars, hasPlayer, player, envVars, ret>>

\* The key exchange: readData may throw; a wrong verify token disconnects,
\* and the login goes on all the same.
HandleSharedKey ==
  /\ Receive
  /\ status = "LOGIN"
  /\ \/ Goto(Net, "thrown") /\ UNCHANGED ret
     \/ Goto(Net, "key") /\ UNCHANGED ret
     \/ Goto(Net, "quiet") /\ ret' = [ret EXCEPT ![Net] = "key"]
  /\ UNCHANGED <<writeVars, flagVars, hasPlayer, player, reading, kicks>>

\* Variant with a bug: the login goes on without a cipher.
CreateNoCipher ==
  /\ At(Net, "key")
  /\ \/ W!InstallCipher \/ UNCHANGED writeVars
  /\ Goto(Net, "login")
  /\ UNCHANGED <<flagVars, hasPlayer, player, envVars, ret>>

\* AESCipher's constructor throws when the shared secret is not 16 bytes.
CreateCipher ==
  /\ At(Net, "key")
  /\ \/ W!InstallCipher /\ Goto(Net, "login")
     \/ UNCHANGED writeVars /\ Goto(Net, "thrown")
  /\ UNCHANGED <<flagVars, hasPlayer, player, envVars, ret>>

SendPacket ==
  /\ \/ Add(Net, "AuthData", "auth", "loginStatus")
     \/ Add(Net, "Login", "login", "spawn")
     \/ Add(Net, "Spawn", "spawn", "position")
     \/ Add(Net, "Position", "position", "playStatus")
  /\ UNCHANGED <<flagVars, hasPlayer, player, envVars, ret>>

\* The last line of a handler: the status changes after the packets are added.
SetStatus ==
  /\ \/ At(Net, "pingStatus") /\ status' = "PING"
     \/ At(Net, "loginStatus") /\ status' = "LOGIN"
     \/ At(Net, "playStatus") /\ status' = "PLAY"
  /\ Goto(Net, "loop")
  /\ UNCHANGED <<writeVars, running, mustDisconnect, timedOut, hasPlayer,
                 player, envVars, ret>>

\* ClientInfo and PlayerPosition, in any status: the player is updated.
HandlePlayerUpdate ==
  /\ Receive
  /\ Goto(Net, "update")
  /\ UNCHANGED <<writeVars, flagVars, hasPlayer, player, reading, kicks, ret>>

UpdatePlayer ==
  /\ At(Net, "update")
  /\ Goto(Net, "loop")
  /\ UNCHANGED <<writeVars, flagVars, hasPlayer, player, envVars, ret>>

HandleKeepAlive ==
  /\ Receive
  /\ timedOut' = FALSE
  /\ UNCHANGED <<writeVars, status, running, mustDisconnect, hasPlayer, player,
                 reading, kicks, pc, ret>>

-----------------------------------------------------------------------------
(* handle_write (the rest of it is WriteQueue's).                          *)

outer == <<flagVars, hasPlayer, player, envVars, ret>>

WriteDone ==
  /\ pc[Net] = "idle"
  /\ \E i \in DOMAIN inflight : W!WriteDone(i)
  /\ UNCHANGED <<outer, pc>>

\* Variant with a bug: the answer to a ping is like any other write.
AfterAnyWrite ==
  /\ status = "PING"
  /\ W!ClearWritten
  /\ UNCHANGED <<outer, pc>>

\* "size != 0 && status == PING": disconnect(), the buffer stays as it is.
AfterPing ==
  /\ status = "PING"
  /\ W!KeepWritten
  /\ running' = FALSE
  /\ UNCHANGED <<status, mustDisconnect, timedOut, hasPlayer, player, envVars,
                 pc, ret>>

AfterPingMust ==
  /\ wpc[Net] = "mustClose"
  /\ mustDisconnect = FALSE
  /\ mustDisconnect' = TRUE
  /\ UNCHANGED <<writeVars, status, running, timedOut, hasPlayer, player,
                 envVars, pc, ret>>

ClearWritten ==
  /\ wpc[Net] = "doneEmpty" \/ status # "PING"
  /\ W!ClearWritten
  /\ UNCHANGED <<outer, pc>>

\* Variant with a bug: only the answer to a ping ends in a close.
EndWritePing ==
  /\ IF mustDisconnect /\ status = "PING"
       THEN W!CloseSocket /\ running' = FALSE
       ELSE W!StayOpen /\ UNCHANGED running
  /\ UNCHANGED <<status, mustDisconnect, timedOut, hasPlayer, player, envVars,
                 pc, ret>>

EndWrite ==
  /\ IF mustDisconnect THEN W!CloseSocket /\ running' = FALSE
                       ELSE W!StayOpen /\ UNCHANGED running
  /\ UNCHANGED <<status, mustDisconnect, timedOut, hasPlayer, player, envVars,
                 pc, ret>>

-----------------------------------------------------------------------------
(* The holder of playersMutex.                                             *)

\* tick() on a connection that is not alive: print the name, delete, erase.
TickRemove ==
  /\ At(Reg, "idle")
  /\ player = "listed"
  /\ ~running
  /\ player' = "freed"
  /\ UNCHANGED <<writeVars, flagVars, hasPlayer, envVars, pc, ret>>

\* tick() on a connection that is alive: sendKeepAlive().
TickAlive ==
  /\ At(Reg, "idle")
  /\ player = "listed"
  /\ running
  /\ Goto(Reg, "keepAlive")
  /\ UNCHANGED <<writeVars, outer>>

KeepAliveTime ==
  /\ At(Reg, "keepAlive")
  /\ Goto(Reg, IF timedOut THEN "expire" ELSE "idle")
  /\ UNCHANGED <<writeVars, outer>>

\* Variant with a bug: only players who have logged in time out.
KeepAliveExpirePlay ==
  /\ At(Reg, "expire")
  /\ IF status = "PLAY" THEN KickStart(Reg, "expire", "idle")
                        ELSE Goto(Reg, "idle") /\ UNCHANGED <<writeVars, ret>>
  /\ UNCHANGED <<flagVars, hasPlayer, player, envVars>>

KeepAliveExpire ==
  /\ At(Reg, "expire")
  /\ IF status = "PLAY"
       THEN KickStart(Reg, "expire", "idle")
       ELSE /\ Goto(Reg, "quiet")
            /\ ret' = [ret EXCEPT ![Reg] = "idle"]
            /\ UNCHANGED writeVars
  /\ UNCHANGED <<flagVars, hasPlayer, player, envVars>>

\* Variant with a bug: the Player is deleted without a disconnect.
KickWithoutDisconnect ==
  /\ player = "listed"
  /\ kicks < MaxKicks
  /\ kicks' = kicks + 1
  /\ At(Reg, "idle")
  /\ Goto(Reg, "delete")
  /\ UNCHANGED <<writeVars, flagVars, hasPlayer, player, reading, incoming, ret>>

\* requestKickPlayer(): disconnect(reason), then delete and erase.
KickPlayer ==
  /\ player = "listed"
  /\ kicks < MaxKicks
  /\ kicks' = kicks + 1
  /\ KickStart(Reg, "idle", "delete")
  /\ UNCHANGED <<flagVars, hasPlayer, player, reading, incoming>>

DeletePlayer ==
  /\ At(Reg, "delete")
  /\ player' = "freed"
  /\ Goto(Reg, "idle")
  /\ UNCHANGED <<writeVars, flagVars, hasPlayer, envVars, ret>>

-----------------------------------------------------------------------------
(* The environment and the end of the connection's life.                   *)

Expire ==
  /\ Timeouts
  /\ ~timedOut
  /\ timedOut' = TRUE
  /\ UNCHANGED <<writeVars, status, running, mustDisconnect, hasPlayer, player,
                 envVars, pc, ret>>

Transport == W!Transport /\ UNCHANGED <<outer, pc>>

\* TCP takes or refuses a posted write.
Settled(i) == (W!Transmit(i) \/ W!Fail(i)) /\ UNCHANGED <<outer, pc>>

WriteCall(t) == W!WriteStep(t) /\ UNCHANGED <<outer, pc>>

\* Nothing refers to the Connection any more: neither its Player nor a
\* pending operation nor a handler that runs.
Unreferenced ==
  /\ player = "freed"
  /\ reading = "none"
  /\ inflight = <<>>
  /\ \A t \in Threads : At(t, "idle")

DestroyConnection ==
  /\ Unreferenced
  /\ W!Destroy
  /\ UNCHANGED <<outer, pc>>

DisconnectStep(t) == ClearRunning(t) \/ ReadName(t) \/ SetMust(t)

NetStep ==
  \/ ListPlayer \/ BeginConnection
  \/ HandleRead \/ HandleReadError \/ StartRead
  \/ SetName \/ CreateCipher \/ SendPacket \/ SetStatus \/ UpdatePlayer
  \/ AfterPing \/ AfterPingMust \/ ClearWritten \/ EndWrite
  \/ DisconnectStep(Net) \/ WriteCall(Net)

Client ==
  \/ HandleServerPing \/ HandleHandshake \/ HandleSharedKey
  \/ HandlePlayerUpdate \/ HandleKeepAlive

Tick == TickRemove \/ TickAlive

RegStep ==
  \/ KeepAliveTime \/ KeepAliveExpire \/ DeletePlayer
  \/ DisconnectStep(Reg) \/ WriteCall(Reg)

Next ==
  \/ NetStep \/ Client \/ WriteDone
  \/ Tick \/ RegStep \/ KickPlayer
  \/ Arrive \/ Expire \/ Transport \/ DestroyConnection

Spec == Init /\ [][Next]_vars
\* Threads keep running, a ready handler of the io_context is eventually
\* called, TCP takes or refuses what it is given, time passes.  The client
\* and the console owe nothing.
Fairness ==
  /\ WF_vars(NetStep) /\ SF_vars(WriteDone) /\ SF_vars(HandleReadError)
  /\ WF_vars(Tick) /\ WF_vars(RegStep)
  /\ WF_vars(\E i \in DOMAIN inflight : Settled(i))
  /\ WF_vars(Expire) /\ WF_vars(DestroyConnection)

FairSpec == Spec /\ Fairness

-----------------------------------------------------------------------------
TypeOK ==
  /\ W!TypeOK
  /\ status \in {"HANDSHAKE", "LOGIN", "PLAY", "PING"}
  /\ running \in BOOLEAN /\ mustDisconnect \in BOOLEAN
  /\ timedOut \in BOOLEAN /\ hasPlayer \in BOOLEAN
  /\ player \in {"fresh", "listed", "freed"}
  /\ reading \in {"none", "pending", "ready"}
  /\ incoming \in 0..MaxIncoming /\ kicks \in 0..MaxKicks
  /\ pc \in [Threads -> Labels] /\ ret \in [Threads -> Labels]

Sent(k) == \E i \in DOMAIN added : added[i] = k
LoginScript == <<"AuthData", "Login", "Spawn", "Position">>

\* However the client's packets, the ticks and the kicks interleave, what the
\* handlers add (kicks apart) is the beginning of one of two scripts: the
\* answer to a ping, or the login in its order, each packet once; and the status
\* says how far the script got.  Code: the status guards and the last lines of
\* handleServerPingPacket, handleHandshake and handleSharedKeyPacket.
ProtocolScript ==
  /\ \A i, j \in DOMAIN added : added[i] = added[j] /\ added[i] # "Kick" => i = j
  /\ Sent("PingResponse") => ~Sent("AuthData")
  /\ \A i \in DOMAIN added, n \in 2..4 : added[i] = LoginScript[n] =>
       \E j \in 1..(i - 1) : added[j] = LoginScript[n - 1]
  /\ status = "PING" => Sent("PingResponse")
  /\ status = "LOGIN" => Sent("AuthData")
  /\ status = "PLAY" => Sent("Position")

\* Two threads push and drain the queue at once, and still no packet is
\* serialised or deleted twice, or skipped.
OnceSerialised == W!OnceSerialised

\* Net is about to use the Player the connection points to.
UsesPlayer ==
  \/ pc[Net] = "begin"
  \/ hasPlayer /\ pc[Net] \in {"readName", "setName", "update"}

\* So does one whose client has gone silent, in any status: the 20 s limit is
\* the only way a client that vanished is noticed.  Code: sendKeepAlive, tick.
SilentIsRemoved == player = "listed" ~> player = "freed"

\* A status ping is over in the end: the server closes the socket once the
\* answer is out, unless the client was faster.  Code: handle_write.
PingEnds == status = "PING" ~> sock # "open"

\* While a connection is alive its Player is there, whoever kicks it and however
\* the handlers that use it interleave: a Player is deleted only once its
\* connection is dead.  (The handlers go on after that: NoUseAfterDelete.)
\* Code: the order in requestKickPlayer, the test of isAlive in tick.
LivePlayerExists == running => player # "freed"

\* A client that is refused, for its version or for its token, loses its socket,
\* although the handler goes on with the login: the writes of that login end in
\* the close.  (Not so if the handler throws before it has added a packet.)
\* Code: handleHandshake, handleSharedKeyPacket, disconnect, handle_write.
RefusedLeaves ==
  /\ mustDisconnect
  /\ status = "PLAY" \/ Sent("Kick")
  ~> sock # "open"

\* A handshake is answered, or the socket closes: the request for a key finds no
\* write under way, or one that ends in a close.
\* Code: handleHandshake, start_write.
HandshakeAnswered ==
  status = "LOGIN" ~> \/ sock # "open"
                      \/ \E i \in DOMAIN wire : added[wire[i].id] = "AuthData"

\* With nobody but the network thread at work, the connection implements the
\* pipe of PacketPipe ...
PipeSpec == W!PipeSpec

\* ... the write buffer has one user at a time ...
BufferExclusive == W!BufferExclusive

\* ... and the client sees the answers it must read in the clear in the clear,
\* and the packets after the key exchange encrypted exactly once.
\* Code: start_write, handleSharedKeyPacket.
EncryptedFromLogin ==
  \A i \in DOMAIN wire :
    CASE added[wire[i].id] \in {"PingResponse", "AuthData"} -> wire[i].enc = 0
      [] added[wire[i].id] \in {"Login", "Spawn", "Position"} -> wire[i].enc = 1
      [] OTHER -> wire[i].enc \in {0, 1}

-----------------------------------------------------------------------------
(* What the repository says of the connection and the code does not do.    *)

\* A handler never uses a Player that tick() or a kick has deleted
\* (README.md:89 promises no data races).
NoUseAfterDelete == UsesPlayer => player # "freed"

\* A packet given to addPacketToQueue is sent, unless the client leaves
\* (Connection.h:36 says that is what the call is for).
PlayerIsPlaced ==
  status = "PLAY" ~> \/ sock # "open"
                     \/ \E i \in DOMAIN wire : added[wire[i].id] = "Position"

\* A player the console has kicked does not keep its socket
\* (CommandHandler.cpp:52 reports it as kicked from the server).
KickedLeaves == kicks > 0 ~> sock # "open"

\* A connection that is gone leaves no packet undeleted (README.md:89).
NoPacketLeaked == Unreferenced /\ sock = "closed" => queue = <<>>

\* A client whose verify token is wrong is not sent the login packet
\* (Connection.cpp:259 reports that the exact token is expected).
RefusedIsNotLoggedIn == pc[Net] = "login" => ~mustDisconnect
=============================================================================
