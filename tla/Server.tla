------------------------------- MODULE Server -------------------------------
(***************************************************************************)
(* The process: VanillaMinecraftServer's list of players, the three        *)
(* threads that share it and how they start and stop.                      *)
(*   Main  startServer: create the server, tick until it stops, then stop  *)
(*         and destroy the io_context and return from main                 *)
(*   Net   io_context.run: handle_accept and the packet handlers           *)
(*   Con   CommandHandler::CommandListener: list, kickall and stop         *)
(* and the signal handler, which interrupts one of them.                   *)
(*                                                                         *)
(* A connection is a number, in the order of the accepts; all that is left *)
(* of module Connection is its flag running.  A Player is the address it   *)
(* is allocated at: addresses are used again after a delete, and nothing   *)
(* else tells two Players apart.  A critical section of playersMutex in    *)
(* which only protected state changes is one step.  So is a kick, with the *)
(* mutexes it takes one by one to print and to queue a packet; a signal    *)
(* finds its thread inside such a step all the same (Interrupt).           *)
(***************************************************************************)
EXTENDS Naturals, Sequences, SequencesExt

CONSTANTS
  Main, Net, Con,   \* the threads
  Signal,           \* the signal handler, as one that runs shutdown()
  Nobody,           \* no thread, no connection, no address
  Addresses,        \* where the heap can put a Player
  MaxAccepts,       \* bound: connections accepted
  Commands,         \* what the console types: "list", "kickall", "stop", "unknown"
  MaxCommands,      \* bound: lines typed
  MaxSignals        \* bound: signals delivered

ASSUME ServerAssumption ==
  /\ Main # Net /\ Con \notin {Main, Net} /\ Signal \notin {Main, Net, Con}
  /\ Nobody \notin {Main, Net, Con, Signal}
  /\ Nobody \notin Addresses
  /\ Commands \subseteq {"list", "kickall", "stop", "unknown"}
  /\ MaxAccepts \in Nat /\ MaxCommands \in Nat /\ MaxSignals \in Nat

Conns == 1..MaxAccepts
Threads == {Main, Net, Con}
Stoppers == {Con, Signal}       \* who runs shutdown()
Unused == 0         \* an address with no Player

VARIABLES
  process,          \* "up", "exited" or "crashed"
  created,          \* VanillaMinecraftServer::server # nullptr
  serving,          \* VanillaMinecraftServer::running
  players,          \* VanillaMinecraftServer::players
  playersMutex,     \* the thread that keeps it from one step to the next
  heap,             \* the connection of the Player at each address, or Unused
  running,          \* Connection::running of each connection
  io,               \* the io_context: "none", "running", "stopped", "destroyed"
  pc,               \* where each thread is
  tickIndex,        \* i in tick()
  accepted,         \* connections so far
  fresh,            \* player in handle_accept
  listening,        \* CommandHandler::running
  command,          \* command in CommandListener
  snapshot,         \* playersSnapshot, each pointer with the Player it was then
  typed, signals,   \* how many commands and signals so far
  interrupted,      \* the thread a signal interrupted
  leaf,             \* that thread holds consoleMutex, or a queueMutex or
                    \* cipherMutex: none can print, kick or send
  teardown          \* where Con and the signal handler are in shutdown()

life == <<process, created, serving, io>>
registry == <<players, playersMutex, heap, running>>
accepts == <<accepted, fresh>>
console == <<listening, command, snapshot, typed>>
shut == <<signals, interrupted, leaf, teardown>>
vars == <<life, registry, pc, tickIndex, accepts, console, shut>>

Init ==
  /\ process = "up" /\ created = FALSE /\ serving = FALSE /\ io = "none"
  /\ players = <<>> /\ playersMutex = Nobody
  /\ heap = [a \in Addresses |-> Unused]
  /\ running = [c \in Conns |-> TRUE]
  /\ pc = [t \in Threads |-> CASE t = Main -> "create"
                               [] t = Net -> "off"
                               [] t = Con -> "getline"]
  /\ tickIndex = 1 /\ accepted = 0 /\ fresh = Nobody
  /\ listening = TRUE /\ command = "list" /\ snapshot = <<>> /\ typed = 0
  /\ signals = 0 /\ interrupted = Nobody /\ leaf = FALSE
  /\ teardown = [x \in Stoppers |-> "none"]

At(t, l) == process = "up" /\ pc[t] = l /\ interrupted # t
Goto(t, l) == pc' = [pc EXCEPT ![t] = l]

Listed == {players[i] : i \in DOMAIN players}
Free(a) == heap' = [heap EXCEPT ![a] = Unused]

-----------------------------------------------------------------------------
(* Main: startServer and tick.                                             *)

\* The io_context, the server and the first accept; then the network thread.
CreateServer ==
  /\ At(Main, "create")
  /\ created' = TRUE /\ serving' = TRUE /\ io' = "running"
  /\ pc' = [pc EXCEPT ![Main] = "loop", ![Net] = "idle"]
  /\ UNCHANGED <<process, registry, tickIndex, accepts, console, shut>>

TestServing ==
  /\ At(Main, "loop")
  /\ Goto(Main, IF serving THEN "tick" ELSE "stopIo")
  /\ UNCHANGED <<life, registry, tickIndex, accepts, console, shut>>

\* Variant with a bug: the first player is skipped.
BeginTickLate ==
  /\ At(Main, "tick")
  /\ playersMutex = Nobody
  /\ playersMutex' = Main
  /\ tickIndex' = 2
  /\ Goto(Main, "scan")
  /\ UNCHANGED <<life, players, heap, running, accepts, console, shut>>

BeginTick ==
  /\ At(Main, "tick")
  /\ playersMutex = Nobody
  /\ playersMutex' = Main
  /\ tickIndex' = 1
  /\ Goto(Main, "scan")
  /\ UNCHANGED <<life, players, heap, running, accepts, console, shut>>

Scanned == players[tickIndex]

RemoveDead ==
  /\ At(Main, "scan")
  /\ tickIndex <= Len(players)
  /\ ~running[heap[Scanned]]
  /\ ~leaf
  /\ Free(Scanned)
  /\ players' = RemoveAt(players, tickIndex)
  /\ UNCHANGED <<life, playersMutex, running, pc, tickIndex, accepts, console,
                 shut>>

\* sendKeepAlive() disconnects a client that has been silent for 20 s.
KeepAlive ==
  /\ At(Main, "scan")
  /\ tickIndex <= Len(players)
  /\ running[heap[Scanned]]
  /\ tickIndex' = tickIndex + 1
  /\ \/ UNCHANGED running
     \/ ~leaf /\ running' = [running EXCEPT ![heap[Scanned]] = FALSE]
  /\ UNCHANGED <<life, players, playersMutex, heap, pc, accepts, console,
                 shut>>

\* Variant with a bug: the mutex, locked by hand, is not released.
EndTickLocked ==
  /\ At(Main, "scan")
  /\ tickIndex > Len(players)
  /\ Goto(Main, "loop")
  /\ UNCHANGED <<life, registry, tickIndex, accepts, console, shut>>

EndTick ==
  /\ At(Main, "scan")
  /\ tickIndex > Len(players)
  /\ playersMutex' = Nobody
  /\ Goto(Main, "loop")
  /\ UNCHANGED <<life, players, heap, running, tickIndex, accepts, console,
                 shut>>

StopNetwork ==
  /\ At(Main, "stopIo")
  /\ io' = "stopped"
  /\ Goto(Main, "join")
  /\ UNCHANGED <<process, created, serving, registry, tickIndex, accepts,
                 console, shut>>

\* The network thread has ended; startServer returns and its io_context goes.
JoinNetwork ==
  /\ At(Main, "join")
  /\ pc[Net] = "ended"
  /\ io' = "destroyed"
  /\ Goto(Main, "return")
  /\ UNCHANGED <<process, created, serving, registry, tickIndex, accepts,
                 console, shut>>

\* main returns: cleanup() finds the server stopped and does nothing.
ReturnFromMain ==
  /\ At(Main, "return")
  /\ process' = "exited"
  /\ UNCHANGED <<created, serving, io, registry, pc, tickIndex, accepts,
                 console, shut>>

-----------------------------------------------------------------------------
(* Net: handle_accept, and what a handler may do to its connection.        *)

\* Variant with a bug: the pointer that is listed is not the new Player's.
NewPlayerUnset ==
  /\ At(Net, "idle")
  /\ io = "running" /\ ~leaf
  /\ accepted < MaxAccepts
  /\ accepted' = accepted + 1
  /\ \E a \in Addresses :
       heap[a] = Unused /\ heap' = [heap EXCEPT ![a] = accepted + 1]
  /\ Goto(Net, "push")
  /\ UNCHANGED <<life, players, playersMutex, running, fresh, tickIndex,
                 console, shut>>

NewPlayer ==
  /\ At(Net, "idle")
  /\ io = "running" /\ ~leaf
  /\ accepted < MaxAccepts
  /\ accepted' = accepted + 1
  /\ \E a \in Addresses :
       /\ heap[a] = Unused
       /\ heap' = [heap EXCEPT ![a] = accepted + 1]
       /\ fresh' = a
  /\ Goto(Net, "push")
  /\ UNCHANGED <<life, players, playersMutex, running, tickIndex, console,
                 shut>>

PushPlayer ==
  /\ At(Net, "push")
  /\ playersMutex = Nobody
  /\ players' = Append(players, fresh)
  /\ Goto(Net, "start")
  /\ UNCHANGED <<life, playersMutex, heap, running, tickIndex, accepts,
                 console, shut>>

\* player->handleConnection(), outside the lock; then start_accept().
StartPlayer ==
  /\ At(Net, "start")
  /\ Goto(Net, "idle")
  /\ UNCHANGED <<life, registry, tickIndex, accepts, console, shut>>

\* A packet handler or handle_write disconnects.
Disconnect(c) ==
  /\ At(Net, "idle")
  /\ io = "running" /\ ~leaf
  /\ c <= accepted
  /\ running[c]
  /\ running' = [running EXCEPT ![c] = FALSE]
  /\ UNCHANGED <<life, players, playersMutex, heap, pc, tickIndex, accepts,
                 console, shut>>

\* A stopped io_context runs no further handler.
EndNetwork ==
  /\ At(Net, "idle")
  /\ io # "running"
  /\ Goto(Net, "ended")
  /\ UNCHANGED <<life, registry, tickIndex, accepts, console, shut>>

-----------------------------------------------------------------------------
(* Con: CommandListener.                                                   *)

GetLine ==
  /\ At(Con, "getline")
  /\ listening
  /\ typed < MaxCommands
  /\ typed' = typed + 1
  /\ command' \in Commands
  /\ Goto(Con, "snapshot")
  /\ UNCHANGED <<life, registry, tickIndex, accepts, listening, snapshot,
                 shut>>

\* getServer() before the server is created: a null pointer is dereferenced.
NoServer ==
  /\ At(Con, "snapshot")
  /\ ~created
  /\ process' = "crashed"
  /\ UNCHANGED <<created, serving, io, registry, pc, tickIndex, accepts,
                 console, shut>>

TakeSnapshot ==
  /\ At(Con, "snapshot")
  /\ created
  /\ playersMutex = Nobody
  /\ snapshot' = [i \in DOMAIN players |->
                    [ptr |-> players[i], was |-> heap[players[i]]]]
  /\ Goto(Con, command)
  /\ UNCHANGED <<life, registry, tickIndex, accepts, listening, command,
                 typed, shut>>

\* list: the names are read through the snapshot, with no lock.
ListNext ==
  /\ At(Con, "list")
  /\ snapshot # <<>>
  /\ snapshot' = Tail(snapshot)
  /\ UNCHANGED <<life, registry, pc, tickIndex, accepts, listening, command,
                 typed, shut>>

\* Variant with a bug: the Player is deleted, its connection goes on.
KickNextAlive ==
  /\ At(Con, "kickall") /\ ~leaf
  /\ snapshot # <<>>
  /\ playersMutex = Nobody
  /\ snapshot' = Tail(snapshot)
  /\ LET target == Head(snapshot).ptr
         found == {i \in DOMAIN players : players[i] = target}
     IN  IF found = {} THEN UNCHANGED <<players, heap>>
         ELSE Free(target) /\ \E i \in found : players' = RemoveAt(players, i)
  /\ UNCHANGED <<life, playersMutex, running, pc, tickIndex, accepts,
                 listening,
                 command, typed, shut>>

\* kickall: requestKickPlayer looks for the address in the list, and if it
\* is there disconnects, deletes and erases the Player.
KickNext ==
  /\ At(Con, "kickall") /\ ~leaf
  /\ snapshot # <<>>
  /\ playersMutex = Nobody
  /\ snapshot' = Tail(snapshot)
  /\ LET target == Head(snapshot).ptr
         found == {i \in DOMAIN players : players[i] = target}
     IN  IF found = {} THEN UNCHANGED <<players, heap, running>>
         ELSE /\ running' = [running EXCEPT ![heap[target]] = FALSE]
              /\ Free(target)
              /\ \E i \in found : /\ \A j \in found : i <= j
                                  /\ players' = RemoveAt(players, i)
  /\ UNCHANGED <<life, playersMutex, pc, tickIndex, accepts, listening,
                 command, typed, shut>>

Stop ==
  /\ At(Con, "stop")
  /\ teardown[Con] = "none" /\ ~leaf
  /\ listening' = FALSE
  /\ teardown' = [teardown EXCEPT ![Con] = "kick"]
  /\ UNCHANGED <<life, registry, pc, tickIndex, accepts, command, snapshot,
                 typed,
                 signals, interrupted, leaf>>

\* The next turn of the loop, a second later.
CommandDone ==
  /\ \/ At(Con, "list") /\ snapshot = <<>>
     \/ At(Con, "kickall") /\ snapshot = <<>>
     \/ At(Con, "stop") /\ teardown[Con] = "done"
     \/ At(Con, "unknown")
  /\ ~leaf
  /\ Goto(Con, "getline")
  /\ UNCHANGED <<life, registry, tickIndex, accepts, console, shut>>

-----------------------------------------------------------------------------
(* shutdown(), run by Con or by the signal handler.                        *)

ShutdownAt(x, l) == process = "up" /\ teardown[x] = l /\ interrupted # x
ShutdownGoto(x, l) == teardown' = [teardown EXCEPT ![x] = l]

\* Variant with a bug: the list is not cleared.
ShutdownKickOnly(x) ==
  /\ ShutdownAt(x, "kick")
  /\ playersMutex = Nobody
  /\ leaf => players = <<>>
  /\ playersMutex' = x
  /\ running' = [c \in Conns |-> running[c] /\ c \notin {heap[a] : a \in Listed}]
  /\ heap' = [a \in Addresses |-> IF a \in Listed THEN Unused ELSE heap[a]]
  /\ ShutdownGoto(x, "flag")
  /\ UNCHANGED <<life, players, pc, tickIndex, accepts, console, signals,
                 interrupted, leaf>>

\* With playersMutex and serverStateMutex: every player is kicked and deleted.
ShutdownKick(x) ==
  /\ ShutdownAt(x, "kick")
  /\ playersMutex = Nobody
  /\ leaf => players = <<>>
  /\ playersMutex' = x
  /\ running' = [c \in Conns |-> running[c] /\ c \notin {heap[a] : a \in Listed}]
  /\ heap' = [a \in Addresses |-> IF a \in Listed THEN Unused ELSE heap[a]]
  /\ players' = <<>>
  /\ ShutdownGoto(x, "flag")
  /\ UNCHANGED <<life, pc, tickIndex, accepts, console, signals, interrupted,
                 leaf>>

\* Variant with a bug: running is not reset.
ShutdownNoFlag(x) ==
  /\ ShutdownAt(x, "flag")
  /\ ShutdownGoto(x, "io")
  /\ UNCHANGED <<life, registry, pc, tickIndex, accepts, console, signals,
                 interrupted, leaf>>

ShutdownFlag(x) ==
  /\ ShutdownAt(x, "flag")
  /\ serving' = FALSE
  /\ ShutdownGoto(x, "io")
  /\ UNCHANGED <<process, created, io, registry, pc, tickIndex, accepts,
                 console,
                 signals, interrupted, leaf>>

\* io_context_.stop(): on a destroyed io_context anything may happen.
ShutdownIo(x) ==
  /\ ShutdownAt(x, "io")
  /\ playersMutex' = Nobody
  /\ ShutdownGoto(x, "done")
  /\ IF io = "destroyed" THEN process' \in {"up", "crashed"} /\ UNCHANGED io
                         ELSE io' = "stopped" /\ UNCHANGED process
  /\ UNCHANGED <<created, serving, players, heap, running, pc, tickIndex,
                 accepts,
                 console, signals, interrupted,
                 leaf>>

-----------------------------------------------------------------------------
(* handleSignal, on the thread the system chose.                           *)

\* t may be inside a message or a send, or inside a critical section of
\* playersMutex that is one step here.
Prints(t) == \/ t = Net /\ pc[Net] = "idle" /\ io = "running"
             \/ t = Con /\ pc[Con] \in Commands
Locks(t) == \/ t = Net /\ pc[Net] = "push"
            \/ t = Con /\ created /\ pc[Con] \in {"snapshot", "kickall"}

Interrupt(t) ==
  /\ process = "up"
  /\ signals < MaxSignals
  /\ interrupted = Nobody
  /\ pc[t] \notin {"off", "ended"}
  /\ signals' = signals + 1
  /\ interrupted' = t
  /\ \/ UNCHANGED <<playersMutex, leaf>>
     \/ Prints(t) /\ leaf' = TRUE /\ UNCHANGED playersMutex
     \/ /\ Locks(t) /\ playersMutex = Nobody
        /\ playersMutex' = t /\ UNCHANGED leaf
  /\ UNCHANGED <<life, players, heap, running, pc, tickIndex, accepts, console,
                 teardown>>

Handling(l) == process = "up" /\ interrupted # Nobody /\ teardown[Signal] = l

\* cleanup(): shutdown() if the server runs.
SignalCleanup ==
  /\ Handling("none")
  /\ created /\ serving
  /\ ShutdownGoto(Signal, "kick")
  /\ UNCHANGED <<life, registry, pc, tickIndex, accepts, console, signals,
                 interrupted, leaf>>

\* _Exit; or a null pointer, when there is no server yet.
SignalExit ==
  /\ \/ Handling("none") /\ created /\ ~serving /\ process' = "exited"
     \/ Handling("none") /\ ~created /\ process' = "crashed"
     \/ Handling("done") /\ process' = "exited"
  /\ UNCHANGED <<created, serving, io, registry, pc, tickIndex, accepts,
                 console, shut>>

-----------------------------------------------------------------------------
MainStep ==
  \/ CreateServer \/ TestServing \/ RemoveDead \/ KeepAlive \/ EndTick
  \/ StopNetwork \/ JoinNetwork \/ ReturnFromMain

NetStep == StartPlayer \/ EndNetwork

ConStep == NoServer \/ ListNext \/ Stop \/ CommandDone

SignalStep == SignalCleanup \/ SignalExit

ShutdownStep(x) == ShutdownFlag(x) \/ ShutdownIo(x)

\* What the clients, the user and the system decide.
Outside ==
  \/ NewPlayer \/ GetLine
  \/ \E c \in Conns : Disconnect(c)
  \/ \E t \in Threads : Interrupt(t)

Next ==
  \/ MainStep \/ BeginTick
  \/ NetStep \/ PushPlayer
  \/ ConStep \/ TakeSnapshot \/ KickNext
  \/ SignalStep
  \/ \E x \in Stoppers : ShutdownKick(x) \/ ShutdownStep(x)
  \/ Outside

Spec == Init /\ [][Next]_vars

\* Threads keep running.  A thread that waits for playersMutex gets it in the
\* end: its holders keep it for a moment and then sleep or wait for input.
Fairness ==
  /\ WF_vars(MainStep) /\ SF_vars(BeginTick)
  /\ WF_vars(NetStep) /\ SF_vars(PushPlayer)
  /\ WF_vars(ConStep) /\ SF_vars(TakeSnapshot) /\ SF_vars(KickNext)
  /\ WF_vars(SignalStep)
  /\ \A x \in Stoppers : SF_vars(ShutdownKick(x)) /\ WF_vars(ShutdownStep(x))

FairSpec == Spec /\ Fairness

-----------------------------------------------------------------------------
TypeOK ==
  /\ process \in {"up", "exited", "crashed"}
  /\ created \in BOOLEAN /\ serving \in BOOLEAN
  /\ io \in {"none", "running", "stopped", "destroyed"}
  /\ players \in Seq(Addresses)
  /\ playersMutex \in Threads \cup {Signal, Nobody}
  /\ heap \in [Addresses -> Conns \cup {Unused}]
  /\ running \in [Conns -> BOOLEAN]
  /\ DOMAIN pc = Threads
  /\ pc[Main] \in {"create", "loop", "tick", "scan", "stopIo", "join", "return"}
  /\ pc[Net] \in {"off", "idle", "push", "start", "ended"}
  /\ pc[Con] \in {"getline", "snapshot"} \cup Commands
  /\ tickIndex \in 1..MaxAccepts + 1 /\ accepted \in 0..MaxAccepts
  /\ fresh \in Addresses \cup {Nobody}
  /\ listening \in BOOLEAN /\ typed \in 0..MaxCommands
  /\ snapshot \in Seq([ptr : Addresses, was : Conns])
  /\ leaf \in BOOLEAN
  /\ signals \in 0..MaxSignals /\ interrupted \in Threads \cup {Nobody}
  /\ teardown \in [Stoppers -> {"none", "kick", "flag", "io", "done"}]

Allocated == {a \in Addresses : heap[a] # Unused}

\* The list owns the Players: every pointer in it is to a Player, no Player is
\* in it twice, they stand in the order of the accepts, and no Player but one
\* that handle_accept is about to list is anywhere else.  A stale snapshot of
\* kickall, a tick, a shutdown and an accept in any order neither delete a
\* Player twice nor lose one.  Code: tick, requestKickPlayer, shutdown,
\* handle_accept, under playersMutex.
RegistryOwns ==
  /\ Listed \subseteq Allocated
  /\ \A i, j \in DOMAIN players : i < j => heap[players[i]] < heap[players[j]]
  /\ Allocated \ Listed = IF pc[Net] = "push" THEN {fresh} ELSE {}

\* The list of players implements the roster: each connection joins once, in
\* turn, leaves for good, and leaves only once it is disconnected.
\* Code: Player's owners, as above, and Connection::running.
Roster == INSTANCE Roster WITH
  joined <- accepted,
  online <- {heap[a] : a \in Allocated},
  alive <- {c \in Conns : running[c]}
RosterSpec == Roster!Spec

\* The signal handler waits for a mutex of the very thread it interrupted: for
\* playersMutex or, when there is a player to kick, for one of those below it.
SelfDeadlock ==
  interrupted # Nobody /\ (playersMutex = interrupted \/ (leaf /\ players # <<>>))

\* "stop" ends the process, whatever the clients do, whichever thread holds the
\* mutex then and whenever a signal comes, unless the handler of the signal
\* waits for its own thread.  Code: CommandListener, shutdown, startServer.
StopEnds == pc[Con] = "stop" ~> process # "up" \/ SelfDeadlock

\* A signal ends the process, with one exception: the thread it interrupted
\* holds a mutex that the handler needs.  Wherever else the three threads are, in
\* a shutdown of the console's included, the handler gets through.
\* Code: handleSignal, cleanup, shutdown.
SignalEndsUnlessHeld == interrupted # Nobody ~> process # "up" \/ SelfDeadlock

\* A Player whose connection is dead is deleted, however many connect and
\* disconnect meanwhile, unless the process ends first.  Code: tick.
DeadReaped ==
  \A c \in Conns :
    ~running[c] ~> \/ process # "up" \/ SelfDeadlock
                   \/ \A a \in Addresses : heap[a] # c

-----------------------------------------------------------------------------
(* What the repository says of the process and the code does not do.       *)

\* "list" reads the name of a Player that still exists: tick() and the end of
\* the snapshot's lock come first (README.md:89 promises no data races).
ListedExist ==
  pc[Con] = "list" /\ snapshot # <<>> => heap[Head(snapshot).ptr] # Unused

\* shutdown() stops an io_context that still exists: startServer destroys it
\* as soon as it sees running reset (README.md:89 promises no data races).
StopsLiveContext == \A x \in Stoppers : teardown[x] = "io" => io # "destroyed"

\* getServer() returns the instance of the running server to the console
\* (VanillaMinecraftServer.cpp:86).
ServerIsThere == pc[Con] = "snapshot" => created

\* When the process ends after a shutdown, every player has been kicked and
\* deleted (VanillaMinecraftServer.cpp:56).
AllKicked == process = "exited" => players = <<>>

\* A signal ends the process, whatever it interrupts: the handler says it is
\* cleaning up (main.cpp:14).
SignalEnds == interrupted # Nobody ~> process # "up"
=============================================================================
