# A TLA+ model of Carpet SRV

Carpet SRV is a small Minecraft 1.4.7 server: one process, three threads, one
asio `io_context`.  This directory holds a model of it in TLA+, the TLC runs
that check the model on small instances, and TLAPS proofs of every safety property
those runs check, for any instance; where one holds only as long as the network
thread alone sends, its theorem says so.  Paths such as `Connection.cpp:162` are relative to `src/src`
and `src/include`.

## The system

| part | state | operations | talks to |
|---|---|---|---|
| `Connection`, sending half | `queue`, `writeBuffer`, `isWriting`, `cipher` | `addPacketToQueue`, `start_write`, `handle_write` | asio (`async_write`), called by every thread that sends |
| `Connection`, receiving half | `readBuffer` (`data`, `readPos`), `cipher` | `start_read`, `handle_read`, `process_packets` | asio (`async_read_some`), `AESCipher`, the packet handlers |
| `Connection`, protocol and life | `status`, `running`, `mustDisconnect`, `lastActivity`, `player` | six packet handlers, `disconnect`, `sendKeepAlive` | its sending half, its `Player` |
| `VanillaMinecraftServer` | `players`, `playersMutex`, `running`, the `io_context` | `startServer`, `tick`, `handle_accept`, `requestKickPlayer`, `shutdown` | connections and Players, the console |
| `CommandHandler` | `running`, a snapshot of `players` | `CommandListener`: `list`, `kickall`, `stop` | the server, on a thread of its own |
| `main` | | `cleanup`, `handleSignal` | `shutdown` |
| `Buffer` and the packets | bytes and a position | read and write functions, `readData`, `writeData` | the two halves of a connection |
| `KeyPair`, `AESCipher` | objects taken from OpenSSL | the constructors, `decryptWithPrivateKey`, `getPublicKeychars`, `encrypt`, `decrypt` | OpenSSL; the two packets that carry keys |
| `UTF16String`, `createUTF16String` | an array of characters on the heap | constructors, destructor, `append`, `+`, `=`, `toString` | the packets that hold text |
| `Player`, `Location` | settings, a place | the setters that the handlers of a client call | `Connection` |
| `TimeUtils`, `ServerConfig`, `ConsoleUtils`' printing, tests | | | not modelled, see the end |

Three threads share this state.  *Main* creates the server and ticks every
20 ms, under `playersMutex`; *Net* runs `io_context.run()` and so every
completion handler; *Con* reads commands and is started by a static initialiser,
before `main`.  A signal handler runs on whichever of them the system picks.

What makes it hard, with the property that watches it (PROJECT.json lists all
the hazards with their lines):

- every thread may disconnect a player, and a disconnect adds a packet: two
  threads meet in `start_write`, where only `isWriting` keeps them apart
  (`BufferExclusive`, which `conn_race` shows to fail), and drain one queue
  (`OnceSerialised`);
- a write under way swallows the wish to write again (`HandshakeAnswered`; and
  `PlayerIsPlaced`, which the code does not keep);
- the cipher appears in the middle of the stream (`SwitchedOnce`,
  `EncryptedFromLogin`);
- `disconnect` sets its flags after it handed over the packet, and handlers go on
  after it (`PingEnds`, `RefusedLeaves`; `KickedLeaves` is not kept);
- a `Player` is owned by the list, and used through raw pointers by handlers
  and by the console (`RegistryOwns`, `LivePlayerExists`; `NoUseAfterDelete` and
  `ListedExist` are not kept);
- threads stop by different flags and share objects that one of them destroys
  (`StopEnds`; `StopsLiveContext` and `AllKicked` are not kept);
- a signal handler takes mutexes on a thread that may hold them
  (`SignalEndsUnlessHeld`; `SignalEnds` is not kept);
- TCP cuts the stream of packets anywhere (`HandledInOrder`, `LooksAtNewBytes`), and
  the read buffer is decrypted whole, bytes of earlier reads included (`FindsBack`);
- the read buffer has its full size before the bytes come, so that a cut packet is
  read on into zeros or old bytes; only the buffer's end makes a read throw
  (`ReadBack`, `EndNoticed`, `SettingsAllOrNone`; `AllDataCame` is not kept);
- a handler may be left half way by an exception, from the client's bytes or from
  OpenSSL (`ContextsOwned`, `PlayMeansCipher`, `LoginIsEncrypted`);
- a string deletes its array before it is through with it (`OwnsItsArray`,
  `OnlyEmptyLost`, `HoldsItsText`).

## Modules

| module | models | composes |
|---|---|---|
| `PacketPipe` | abstract: what a connection promises to those who add packets | |
| `WriteQueue` | the sending half, and TCP below it | implements `PacketPipe` |
| `Connection` | one connection with its Player, Net and the holder of `playersMutex` | contains `WriteQueue` by `INSTANCE`: its steps are `WriteQueue`'s or leave the sending half alone |
| `ReadPath` | the receiving half | |
| `Codec` | `Buffer`'s read and write functions, the packets' fields, what a Player takes from them | |
| `KeyExchange` | the key exchange and what every failure in it leaves behind | |
| `UTF16String` | the strings, and the heap under them | |
| `Roster` | abstract: what the server promises about its players | |
| `Server` | the list of players, the threads, console, shutdown, signals | implements `Roster` |
| `WriteQueueProofs` | theorems about `WriteQueue` | extends it |
| `ConnectionProofs` | theorems about `Connection` | extends it, and carries those of `WriteQueueProofs` over by `INSTANCE` |
| `ProtocolProofs` | theorems about the order of a connection's packets, and about a quiet connection | extends `ConnectionProofs`, and carries those of `WriteQueueProofs` for one thread over |
| `ReadPathProofs`, `KeyExchangeProofs`, `ServerProofs`, `UTF16StringProofs`, `CodecProofs` | theorems about these modules | extend them |
| `MC...` | the modules TLC runs | |

**WriteQueue.**  One action per access to a field that two threads share.  For a
thread `t`, `wpc[t]` is where it is: `Push` (lock, push, unlock), `Check` (the
two tests of `isWriting`), `Claim` (`isWriting = true`), `LockQueue`, then
`Serialise` and `Erase` for each packet, `UnlockQueue`, `Encrypt`, `Post`
(`async_write`).  `handle_write` is `WriteDone` (reset `isWriting`), then
`ClearWritten` or `KeepWritten` (the branch for a ping), then `CloseSocket` or
`StayOpen`.  A packet is its number in the history `added`; a serialised packet
is an entry `[id, enc]`, `enc` counting how often its bytes were encrypted.  asio
writes from `writeBuffer` itself, so a change of `writeBuffer` while a write is
posted *tears* that write (`Tear`), and what it sends is then unpredictable.  A
write is sent whole or fails whole; the part of a failed write that TCP took is
a prefix the peer cannot use.  `async_write` splits a long write into several
sends; no other write is posted meanwhile as long as `BufferExclusive` holds, so
one step is enough there.

**Connection.**  `pc[t]` is the step of a handler a thread is at; `ret[t]` where
a call of `disconnect` returns to.  Thread `Reg` is whoever holds `playersMutex`
(main in `tick`, the console in `requestKickPlayer`): one at a time, so one
thread is enough.  `ListPlayer` asks for `Reg` to be idle, which is the mutex.
What the client sends is the packet its bytes decode to; a throw of a `readData`
before anything changed is `StartRead`.  A login packet in the wrong status
changes nothing, hence has no action.  `timedOut` stands for "more than 20 s
since `lastActivity`".

**ReadPath.**  A byte of the buffer is a *cell*: the byte of the client's stream it
came from, and its form (`plain`, `cipher`, `junk` for what a decryption at the
wrong moment yields).  A packet of the stream carries the place where it starts.  A handler that reads a whole packet from its first byte
uses exactly its bytes; one that reads anything else may stop anywhere
(`Misread`) or throw.  Position, sizes and resets are the code's.  CFB8 makes each
byte of its output from a byte of input and the `Block` bytes before it: `window`
is what `decryptCtx` was given last, and a byte comes out `plain` exactly if what
stands before it is what the client's cipher put out before it.  `Decrypt` runs
over the whole buffer, as `Buffer::decrypt` does.

**Codec.**  `WriteField` appends a field to the message, of a value that `Values` has
for its type; a string may be longer than its reader takes.  A packet of a client
comes into the read buffer (`Receive`) whole or cut anywhere, wherever its fields
start: the buffer has `BufferSize` bytes before and after, as `mutableBuffer` always
gives it `READ_BUFFER_SIZE`, and around what came lies what was there.  `ReadField`
reads the next field, and goes on where nothing came; it throws only at the end of
the buffer.  A client waits for the bytes of a packet (`ReceiveByClient`).  `ToRead`
is the test of `ServerPingPacket::readData`, which reads nothing of a buffer without
data; a buffer that was received into is never that.  A short is two's complement in
16 bits, an `int` in 32; a double is its eight bytes.  `HandleClientInfo` and
`HandlePosition` are what the handlers then do to the Player.  The arguments of
`Location::set` are evaluated in any order (`Orders`), as the C++ standard has it;
the operands of `readShort`'s and `readInt`'s `|` are taken from left to right,
which the standard does not promise either.

**KeyExchange.**  `contexts` counts the objects taken from OpenSSL and not given
back.  `Fails(call)` lets a call fail by itself, if `Failing` has it, and counts it in
`failures`; what a client sends may decrypt to nothing (`Garbled`) or to a secret of the wrong size.
An exception goes to the `catch` of `process_packets` (`Catch`) or, from
`decrypt` and from the constructor of `KeyPair`, to nobody: the process ends.
Writes are atomic here up to what can throw; their interleaving is `WriteQueue`'s.

**UTF16String.**  The heap is a few blocks, an object is a pointer and a length.
`Seen` is what a loop over a string's characters finds: its characters, or
anything at all if the array is too short or was deleted.  `new` may find no
memory.  `misused` remembers that a string was appended or assigned to itself, or
that `new` threw in the middle of `=`: the array is lost then (no caller of the
repository does the first two).

**Server.**  A Player is the address it is allocated at, and addresses are used
again.  A connection is its number and its flag `running`.  A critical section of
`playersMutex` that changes only protected state is one step; `tick`, which reads
`running` flags that Net may reset meanwhile, is one step per player, and
`shutdown` one step per statement, because `running` and the `io_context` are
read without the lock.  `serverStateMutex` is only taken under `playersMutex`.
An interrupted thread does nothing until the handler is through; the signal may
find it inside a section that is one step otherwise, with `playersMutex` (`Locks`)
or with `consoleMutex`, a `queueMutex` or the `cipherMutex` (`Prints`, `leaf`).
Whoever prints, kicks or sends then waits.

A definition whose comment begins *Variant with a bug* is not part of the
model: PROJECT.json's `mutants` name it as a replacement for the definition
below it, under which the named property must fail.

## Runs

`tlc -config X.cfg MC...`; times are for two workers.

| run | instance | shows |
|---|---|---|
| `queue_net` | Net alone, 5 packets; 8 168 states | `BufferExclusive`, `SwitchedOnce`, refinement of `PacketPipe` |
| `conn_quiet` | 3 packets of the client, no kick, no timeout, fair; 6 385 | `EncryptedFromLogin`, refinement of the pipe, `PingEnds`, `RefusedLeaves`, `HandshakeAnswered` |
| `conn_threads` | 3 packets, one kick, ticks; 1.2 million, 60 s | type, `ProtocolScript`, `LivePlayerExists`; `OnceSerialised`, with two threads that push and drain |
| `conn_silent` | 2 packets, timeouts, fair; 21 062 | `SilentIsRemoved` |
| `server_signals` | 3 accepts, 2 addresses, 2 commands, 1 signal; 1.0 million, 30 s | type, `RegistryOwns`, refinement of `Roster` |
| `server_stop` | 2 accepts, 2 addresses, 1 command, 1 signal, fair; 97 746, 160 s | `StopEnds`, `SignalEndsUnlessHeld`, `DeadReaped` |
| `read_cuts` | 6 byte buffer, blocks of 2, 3 packets of 1 to 3 bytes, a packet of the client the server has no handler for among them; 3.7 million, 60 s | type, `RoomToRead`, `HandledInOrder`, `LooksAtNewBytes`, `FindsBack` |
| `codec_all` | every packet, fields at their extremes, in a buffer of 48 bytes, whole, cut anywhere or over its end; 191 311, 15 s | type, `ReadBack`, `EndNoticed`, `SettingsAllOrNone`, `PlaceIsSent` |
| `strings` | 3 strings of up to 3 characters, 4 blocks; 80 969, 50 s | type, `OwnsItsArray`, `OnlyEmptyLost`, `HoldsItsText` |
| `keys` | 4 packets, 2 keys, every call may fail, any number of times; 21 839 | type, `ContextsOwned`, `LoginIsEncrypted`, `PlayMeansCipher`, `PlayerKnewToken` |

Why the bounds are enough.  *Packets*: the longest script a connection sends is a
kick, the key request, three login packets, and a kick of the console's: six, so
`MaxPackets = 7` never binds in `Connection`; in `WriteQueue` five
let the network thread go through several writes, with a queue behind each.  *Incoming*: three packets are a whole login and one
more of anything (a repeated key, a late ping).  *Kicks*: the list holds a player
once, so there is one.  *Server*: three accepts over two addresses make an address
be used twice while another player is listed; two commands make a snapshot stale.
With fairness there is one command less: `stop`
or `kickall`, with the signal before, in or after it.
*Reads*: the buffer is shorter than what is sent, so it fills up and is reset; a
packet can be shorter than a block of the cipher, as long, or longer.
*Strings*: three let `+` have its operands and its result, and the fourth block is
what an operation needs before it deletes one; with the three others in use `new`
fails.  *Fields*: the values of a type are the ends of its range and one with all its bytes
different; lengths are zero, more, and one more than a reader takes.  The buffer is
longer than any packet of a client, and the starts lie so that each of them runs over
its end, in one field or another; it is new (zeros) or holds ones and zeros in turn,
which would be read as other numbers, lengths and bools.  *Keys*: four packets are a handshake and three tries of a key, one more
than it takes to repeat one after a refusal; two keys tell the old from the new.
`CHECK_DEADLOCK FALSE` stands where the system stops: a process that has ended,
a client that has sent everything, a message that has been read.

### Disagreements

Two runs are expected to fail; each checks one statement of the repository.

| run | what the trace shows |
|---|---|
| `conn_race` | two threads in `writeBuffer` (README.md:89) |
| `server_late` | a player accepted during `shutdown` is never kicked (VanillaMinecraftServer.cpp:56) |

`conn_race` is `BufferExclusive`, which `queue_net` shows to hold, and
`BufferIsExclusive` proves, as long as neither a kick nor a timeout makes a second
thread send: the property fails through exactly that second thread.

The modules hold more such statements, at their ends.  They have no run of their
own; put in the cfg of the third column in place of its properties, TLC finds
each of them violated within seconds.

| definition | what the trace shows | cfg |
|---|---|---|
| `PlayerIsPlaced` | the position packet is queued and never sent (Connection.h:36) | `MCConnection_quiet` |
| `NoUseAfterDelete` | a handler uses a deleted Player (README.md:89) | `MCConnection_threads` |
| `KickedLeaves` | a kicked client keeps its socket (CommandHandler.cpp:52) | `MCConnection_threads`, with `FairSpec` and `MaxIncoming = 1` |
| `NoPacketLeaked` | packets are left undeleted with the connection (README.md:89) | `MCConnection_race`, with `MaxKicks = 0` |
| `RefusedIsNotLoggedIn` | a wrong verify token is logged in (Connection.cpp:259) | `MCConnection_quiet` |
| `ListedExist` | `list` reads a deleted Player (README.md:89) | `MCServer_stop` |
| `SignalEnds` | a signal during `tick` hangs the process (main.cpp:14) | `MCServer_stop` |
| `StopsLiveContext` | `shutdown` stops a destroyed `io_context` (README.md:89) | `MCServer_late` |
| `ServerIsThere` | a command before there is a server (VanillaMinecraftServer.cpp:86) | `MCServer_late` |
| `AllDataIsThere` | a handler runs before its packet is there (ClientProtocolPacket.cpp:24) | `MCReadPath_cuts` |
| `EveryPacketHandled` | a packet that came whole is skipped (README.md:15) | `MCReadPath_cuts` |
| `EncryptedIsRead` | the first bytes of a read come out wrong (README.md:16) | `MCReadPath_cuts` |
| `AllDataCame` | a packet is read to its end of which bytes are missing (ClientProtocolPacket.cpp:24) | `MCCodec_all` |
| `InsideBuffer` | a char array is read past the buffer's end (Buffer.cpp:176) | `MCCodec_all` |
| `PlayerIsWhereItSays` | x and z are swapped in some builds (Connection.cpp:290) | `MCCodec_all` |
| `NothingLost` of `UTF16String` | `=` on an empty string that owns an array (README.md:89) | `MCUTF16String_strings` |
| `SameTextWidened` | a char above 127 widens to two different characters (ConsoleUtils.cpp:37) | `MCUTF16String_strings` |
| `NothingLost` of `KeyExchange` | a context is lost when its initialisation fails, or a cipher replaced when encryption did (README.md:89) | `MCKeyExchange_keys` |
| `WriterNeverStuck` | after an exception in `start_write` nothing is sent any more (Connection.h:36) | `MCKeyExchange_keys` |

`PlayerIsPlaced`, `KickedLeaves`, `SignalEnds` and `EncryptedIsRead` go in as
`PROPERTY`, the others as `INVARIANT`.

### Fairness

*Connection*: threads keep running (weak fairness of the steps of `NetStep`,
`Tick`, `RegStep`); asio keeps ready handlers in a queue and the network thread
takes them in turn, whatever else arrives (strong fairness of `WriteDone` and
`HandleReadError`, which other handlers disable for a moment); TCP takes or
refuses a posted write; time passes.  The client and the console owe nothing.
*Server*: threads keep running; a thread that waits for `playersMutex` gets it in
the end (strong fairness), as its holders keep it for microseconds and then sleep
or wait for input.  Accepts, commands, disconnects and signals have none.

## Proofs

`tlapm M.tla` proves, in each module below, its theorems for every value of the
constants, from nothing but the assumption the module it extends states of them.
Where TLC looks at two or three of a thing, these hold for any number.

`WriteQueueProofs`, from `WriteQueueAssumption`:

| theorem | statement | for |
|---|---|---|
| `TypeCorrect` | `WriteSpec => []TypeOK` | any threads |
| `SerialisedOnce` | `WriteSpec => []OnceSerialised` | any threads |
| `BufferIsExclusive` | `WriteSpec => []BufferExclusive` | `Threads = {Net}` |
| `ConnectionIsPipe` | `WriteSpec => PipeSpec` | `Threads = {Net}` |
| `EncryptionSwitchesOnce` | `WriteSpec => []SwitchedOnce` | `Threads = {Net}` |

*Once serialised.*  `OnceSerialised` is not inductive: it does not say who may
serialise.  `OnceInv` adds `MutexInv` (a thread between lock and unlock holds
`queueMutex`) and `ServedInv` (the last packet served is still the head of the
queue exactly when the holder is between `Serialise` and `Erase`).

*The buffer and the pipe.*  With one thread, `OneWrite` ties `isWriting`, `wpc`
and `inflight` together (at most one write, none while the thread works on the
buffer, none torn); `Delivered` and `InOrder` say where each packet is: on the
wire, in the write under way, in the buffer or in the queue, and that these four
in a row are `1..Len(added)` with the stream's end as the only gap.  Their
conjunction `PipeInv` gives `BufferExclusive`, and makes each step one of
`PacketPipe` or a stutter.

*Encryption.*  `Uniform` says the entries of a write are all in the clear or all
encrypted once, `EncInv` that the wire switches once, and `SwitchInv` puts them on
top of `PipeInv`.

The assumption `Threads = {Net}` is needed, not convenient: `conn_race` shows what
happens without it.

`ConnectionProofs`, from `ConnectionAssumption`:

| theorem | statement |
|---|---|
| `ConnectionSerialisesOnce` | `Spec => []OnceSerialised` |
| `ConnectionTypeCorrect` | `Spec => []TypeOK` |
| `LivePlayerStays` | `Spec => []LivePlayerExists` |

A connection is written with the actions of `WriteQueue`, so it holds of it
(`ConnectionSends`) what `WriteQueueProofs` shows for any threads: `OnceSerialised`,
and the types of the sending half.  `ControlTypeOK` is the rest of the types.  `LivePlayerExists` is not
inductive, as it does not say that a kick comes to its `delete` only after
`running = false`; `LiveInv` does.

`ProtocolProofs`, from `ConnectionAssumption`; *quiet* is `MaxKicks = 0 /\ Timeouts =
FALSE`, the instance of `conn_quiet`, in which no second thread adds a packet:

| theorem | statement | for |
|---|---|---|
| `ScriptsFollowed` | `Spec => []ProtocolScript` | any connection |
| `LoginNeedsCipher` | `Spec => [](Sent("Login") => cipher)` | any connection |
| `QuietBufferExclusive` | `Spec => []BufferExclusive` | quiet ones |
| `QuietIsPipe` | `Spec => PipeSpec` | quiet ones |
| `QuietEncrypts` | `Spec => []EncryptedFromLogin` | quiet ones |

*The script.*  `ProtocolScript` says what was added for a status, not for a handler
half way.  `ScriptInv` adds `StepStatus` (at which step of a handler the status is
still the one it was called in, `disconnect` and its return included) and `Progress`
(each packet of the script has been added exactly if the status or the step says
so).  A packet that may come next then has its predecessor in `added` and not itself
(`NextPacket`).  `CipherInv` says the same of the cipher, and `LoginNeedsCipher`
follows.

*Quiet connections.*  `ConnectionSends` is for two threads.  In a quiet connection
`Reg` takes no step of the sending half (`QuietReg`), so each step is one of the
sending half with `Threads = {Net}`, and what `WriteQueueProofs` shows of that carries
over.  Without the assumption `BufferExclusive` is false: `conn_race` has the trace.

*Encryption.*  The cipher is created while packets may be on their way, so that no
answer in the clear is encrypted has to follow from where they are.  `FirstPacket`
and `FirstWrite` follow the first packet: it is the answer to a ping, the request for
the key or the kick of a refused client, and it has left the buffer before there is a
cipher, or the socket is to be closed behind it.  `AnswersInv` is the property for the
wire and for what is about to be posted, `EncryptsNoAnswer` the step in which it could
go wrong.

`ReadPathProofs`, from `ReadPathAssumption`:

| theorem | statement |
|---|---|
| `ReadTypeCorrect` | `Spec => []TypeOK` |
| `ReadsHaveRoom` | `Spec => []RoomToRead` |
| `PacketsHandledInOrder` | `Spec => []HandledInOrder` |
| `LoopLooksAtNewBytes` | `Spec => []LooksAtNewBytes` |
| `DecryptionFindsBack` | `Spec => FindsBack` |

They are for any buffer, block and packets, any number of them and any cut of the
stream into reads.  None of the invariants is inductive: none says where in the
stream the bytes of the buffer are.  `InRead(base)` does: behind the first `base`
bytes of the buffer lie those of the read just completed, in the stream's order, and
every packet handled starts before the byte the loop stands at.  `StreamInv` says
that each packet starts where the one before it ends, so a packet that starts at
that byte was not handled yet (`PacketIsNext`).  `Inv` puts them together with the
types and `RoomToRead`.  `FindsBack` is about one step: `DecryptsBehindBlock` shows
that a byte of the read comes out plain when the `Block` bytes before it are of the
same read.

`KeyExchangeProofs`, from `KeyExchangeAssumption`:

| theorem | statement |
|---|---|
| `NoContextLost` | `Spec => []ContextsOwned` |
| `PlayersHaveCiphers` | `Spec => []PlayMeansCipher` |
| `PlayersKnowTheToken` | `Spec => []PlayerKnewToken` |
| `LoginNeverInClear` | `Spec => []LoginIsEncrypted` |
| `KeyExchangeTypeCorrect` | `Spec => []TypeOK` |

`CipherInv` says what is true of `status` and `cipher` at each step of a handler,
`TokenInv` what the handler has found out by then; `PlayMeansCipher` and
`PlayerKnewToken` follow.  For the login packet, `LoginInv` adds that until there is
a cipher no login packet is in the queue or the buffer, and that those on their way
are encrypted.

*What failures cost.*  `ContextsOwned` is an account: what is held is the key pair, the
cipher's two contexts, and what each call that failed by itself has cost, for any
number of failures; nothing a client sends costs anything.  It is not inductive.  A
failure to encrypt costs nothing at once, but leaves the status `LOGIN`, so that the
next key overwrites the pointer to a cipher; `AccountInv` says that a connection with
a cipher in status `LOGIN`, outside the handler, has had such a failure that is not
used up.  The only other way there would be a failure to write the public key while
the login packet is written, and `AuthInv` excludes it: once the request for a key was
posted there is no other in the queue, and if none could be posted none is ever
serialised again.

The types need `KeyTypeInv`: a token is drawn only for a packet
that was taken, which bounds the tokens, and the queue holds nothing but logins and
requests.

`ServerProofs`, from `ServerAssumption`:

| theorem | statement |
|---|---|
| `RegistryIsOwned` | `Spec => []RegistryOwns` |
| `ServerIsRoster` | `Spec => RosterSpec` |
| `ServerTypeCorrect` | `Spec => []TypeOK` |

`RegistryOwns` says that the list is in the order of the accepts; that it stays so
when `handle_accept` lists a Player needs `NewestInv`: between `NewPlayer` and
`PushPlayer` the newest connection is the one of `fresh`, and no two addresses hold
the same one.  `NewestInv` also says that nothing is accepted before there is a
server, without which `CreateServer` would forget a Player about to be listed.
For the roster, `LeaveStep` says which changes are a step of `Roster`, and each
action is brought under it (`OneDies`, `FreedOnline`) or leaves `heap`, `running`
and `accepted` alone.  Of the types one is not local: that the index of a `tick` stays
in range, while players are added behind it and removed under it.  `TickInv` bounds it
by way of the list: its `i`-th Player is not older than the `i`-th connection.

`UTF16StringProofs`, from `UTF16StringAssumption`:

| theorem | statement |
|---|---|
| `StringsTypeCorrect` | `Spec => []TypeOK` |
| `StringsOwnTheirArrays` | `Spec => []OwnsItsArray` |
| `OnlyEmptyArraysLost` | `Spec => []OnlyEmptyLost` |
| `StringsHoldTheirTexts` | `Spec => []HoldsItsText` |

Each operation gives a string a new array or none (`NewArray`, `NoArray`).  That
only empty arrays are lost needs `EmptyArrays`: a string of length 0 that has an
array has one without characters.  For the texts, `SeenText` says that a loop over
a string finds its text wherever its array is untouched, and `TextKept` that no
operation touches the array of another string.

`CodecProofs`, from `CodecAssumption` (each value of `Values` is one its type can
hold: a length is a short, a char of a string one byte):

| theorem | statement |
|---|---|
| `ShortsReadBack`, `IntsReadBack` | all of the 2^16 and 2^32 numbers are read back |
| `ArraysReadBack`, `StringsReadBack`, `TextsReadBack` | so are all arrays, strings that their reader takes, and texts |
| `LongStringsRefused` | a string longer than its reader takes is read as an empty one |
| `FieldsReadBack` | a field of any type is read back, and reading it ends where it does |
| `MissingIsNoticed` | reading a field over the end of the buffer throws, char arrays excepted |
| `ReadsHold` | of any bytes at all, a read that does not throw gives a value of its type |
| `CodecTypeCorrect` | `Spec => []TypeOK` |
| `MessagesReadBack` | `Spec => []ReadBack` |
| `EndsAreNoticed` | `Spec => []EndNoticed` |
| `SettingsAreWhole` | `Spec => []SettingsAllOrNone` |
| `PlacesAreSent` | `Spec => []PlaceIsSent` |

They are for a buffer of any size with anything in it, and any part of a packet
anywhere in it.  The first rows are about operators: for every value, wherever in a
buffer its bytes stand (`StandsAt`), of which the run has a few.  `FieldShape` and
`ReadEnds` are what they need to be put in a row.  The invariant of a message is
`CodecInv`.  `Laid` says where the fields of the message end (`ends`), `Holds` that the
bytes that came stand in the buffer; and as long as the fields read so far came, and
none was refused, the reader stands where the last of them ends.  A field that came is
then read as it was written (`FieldRead`).  A packet that the buffer's end cuts off and
that is otherwise sound (`EndCut`) is followed as far as it came and never to its last
field.  Behind a char array or a refused string the reader may be anywhere:
`InsideBuffer` has the trace.  Of a packet that TCP cuts elsewhere nothing of the kind
is true (`AllDataCame`): what the Player takes is then of one packet, read to its end,
but not what was sent, and `SettingsAllOrNone` and `PlaceIsSent` say so.

Only model-checked: liveness (`PingEnds`, `RefusedLeaves`, `HandshakeAnswered`,
`SilentIsRemoved`, `StopEnds`, `SignalEndsUnlessHeld`, `DeadReaped`), which is outside
what the prover handles, as fairness and `ENABLED` are.  `ServerInfo`, which is made by
a fold over its fields, has no theorem of its own: `TextsReadBack` holds of whatever
text it makes.

## Not modelled

- `KeyPair`'s functions that print a key as PEM, and `getPrivateKeychars`: nothing
  calls them.  OpenSSL itself is a set of calls that succeed or fail.
- `OPENSSL_cleanup` at the end of `main` (VanillaMinecraftServer.cpp:49), and a
  `cleanup` while the network thread is inside a handler (main.cpp:9): what the
  process does in its last moments.
- `ConsoleUtils`' printing and reading of lines: one holder of `consoleMutex` in
  `Server`'s `leaf` is all that matters of it; `inputMutex` has one user.
- `Location::add`, `Player::update`, `Entity::update`, `TimeUtils`, `ServerConfig`:
  stubs, or without a caller.
- The evaluation order of the operands of `|` in `readShort` and `readInt`.
- The tests assert `1 = 1`.

## Plan

1. *(done)* `PacketPipe`, `WriteQueue`, its proofs; `Connection`; `Roster`,
   `Server`; `ReadPath`; `Codec`.
2. *(done)* The cipher in `ReadPath`; `KeyExchange`; `UTF16String`; the Player in
   `Codec`; the signal handler and the mutexes below `playersMutex` in `Server`.
3. *(done)* Proofs: a connection's types, its sending half and its Player; the key
   exchange; the registry, and `Roster` as what it implements; the strings; numbers
   and arrays in the codec.
4. *(done)* Proofs: the script and the encryption of a connection; the receiving half;
   whole messages in the codec and what the Player takes of them; the types of
   `Server` and of `KeyExchange`.
5. What a kick or a timeout leaves of `EncryptedFromLogin`: which packets a second
   thread can get onto the wire in the wrong form, and which not.
