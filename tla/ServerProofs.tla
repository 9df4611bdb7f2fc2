---------------------------- MODULE ServerProofs ----------------------------
(***************************************************************************)
(* Theorems about the server's list of players, for any number of          *)
(* connections and of addresses: it owns the Players, and it implements    *)
(* the roster.                                                             *)
(***************************************************************************)
EXTENDS Server, SequenceTheorems, TLAPS

\* RemoveAt closes the gap it makes.
LEMMA RemoveShape ==
  ASSUME NEW S, NEW s \in Seq(S), NEW k \in 1..Len(s)
  PROVE  /\ RemoveAt(s, k) \in Seq(S)
         /\ Len(RemoveAt(s, k)) = Len(s) - 1
         /\ \A i \in 1..(Len(s) - 1) :
              RemoveAt(s, k)[i] = IF i < k THEN s[i] ELSE s[i + 1]
<1>. DEFINE head == SubSeq(s, 1, k - 1)
            tail == SubSeq(s, k + 1, Len(s))
<1>1. head \in Seq(S) /\ Len(head) = k - 1
  OBVIOUS
<1>2. tail \in Seq(S) /\ Len(tail) = Len(s) - k
  OBVIOUS
<1>3. \A i \in 1..(k - 1) : head[i] = s[i]
  OBVIOUS
<1>4. \A i \in 1..(Len(s) - k) : tail[i] = s[i + k]
  OBVIOUS
<1>5. RemoveAt(s, k) = head \o tail
  BY DEF RemoveAt
<1>. HIDE DEF head, tail
<1>6. /\ RemoveAt(s, k) \in Seq(S)
      /\ Len(RemoveAt(s, k)) = Len(s) - 1
  BY <1>1, <1>2, <1>5
<1>7. ASSUME NEW i \in 1..(Len(s) - 1)
      PROVE  RemoveAt(s, k)[i] = IF i < k THEN s[i] ELSE s[i + 1]
  <2>1. CASE i < k
    BY <1>1, <1>2, <1>3, <1>5, <2>1
  <2>2. CASE ~(i < k)
    <3>1. RemoveAt(s, k)[i] = tail[i - (k - 1)]
      BY <1>1, <1>2, <1>5, <2>2
    <3>2. i - (k - 1) \in 1..(Len(s) - k) /\ (i - (k - 1)) + k = i + 1
      BY <2>2
    <3>. QED
      BY <1>4, <2>2, <3>1, <3>2
  <2>. QED
    BY <2>1, <2>2
<1>. QED
  BY <1>6, <1>7

(***************************************************************************)
(* The registry.                                                           *)
(***************************************************************************)

RegistryTypeOK ==
  /\ players \in Seq(Addresses)
  /\ heap \in [Addresses -> Conns \cup {Unused}]
  /\ accepted \in 0..MaxAccepts
  /\ tickIndex \in Nat \ {0}
  /\ DOMAIN pc = Threads

\* A connection has one Player, and the newest one's is the one that
\* handle_accept has made; until there is a server there is no handle_accept.
NewestInv ==
  /\ \A a \in Addresses : heap[a] <= accepted
  /\ \A a, b \in Allocated : heap[a] = heap[b] => a = b
  /\ pc[Net] = "push" => heap[fresh] = accepted
  /\ pc[Main] = "create" => pc[Net] = "off"

RegistryInv == RegistryTypeOK /\ NewestInv /\ RegistryOwns

LEMMA RegistryInit == Init => RegistryInv
<1>. SUFFICES ASSUME Init
              PROVE  RegistryInv
  OBVIOUS
<1>1. /\ players = <<>> /\ heap = [a \in Addresses |-> Unused]
      /\ accepted = 0 /\ tickIndex = 1
  BY DEF Init
<1>2. DOMAIN pc = Threads /\ pc[Net] = "off"
  BY ServerAssumption DEF Init, Threads
<1>3. Allocated = {} /\ Listed = {}
  BY <1>1 DEF Allocated, Listed
<1>4. RegistryTypeOK
  BY <1>1, <1>2, ServerAssumption DEF RegistryTypeOK
<1>5. NewestInv
  BY <1>1, <1>2, <1>3 DEF NewestInv, Unused
<1>6. RegistryOwns
  BY <1>1, <1>2, <1>3 DEF RegistryOwns
<1>. QED
  BY <1>4, <1>5, <1>6 DEF RegistryInv

\* The pointers in the list are different ones, and point to Players.
LEMMA ListedPlayers ==
  ASSUME RegistryInv
  PROVE  /\ DOMAIN players = 1..Len(players) /\ Len(players) \in Nat
         /\ \A i \in 1..Len(players) :
              /\ players[i] \in Listed /\ players[i] \in Addresses
              /\ heap[players[i]] \in Conns /\ heap[players[i]] # Unused
         /\ \A i, j \in 1..Len(players) : i # j => players[i] # players[j]
<1>1. DOMAIN players = 1..Len(players) /\ Len(players) \in Nat
  BY DEF RegistryInv, RegistryTypeOK
<1>2. ASSUME NEW i \in 1..Len(players)
      PROVE  /\ players[i] \in Listed /\ players[i] \in Addresses
             /\ heap[players[i]] \in Conns /\ heap[players[i]] # Unused
  <2>1. players[i] \in Listed /\ players[i] \in Addresses
    BY <1>1 DEF RegistryInv, RegistryTypeOK, Listed
  <2>2. players[i] \in Allocated
    BY <2>1 DEF RegistryInv, RegistryOwns
  <2>. QED
    BY <2>1, <2>2 DEF RegistryInv, RegistryTypeOK, Allocated
<1>3. ASSUME NEW i \in 1..Len(players), NEW j \in 1..Len(players), i < j
      PROVE  heap[players[i]] < heap[players[j]]
  BY <1>1, <1>3 DEF RegistryInv, RegistryOwns
<1>4. ASSUME NEW i \in 1..Len(players), NEW j \in 1..Len(players), i # j
      PROVE  players[i] # players[j]
  <2>1. i < j \/ j < i
    BY <1>1, <1>4
  <2>2. heap[players[i]] \in Nat /\ heap[players[j]] \in Nat
    BY <1>2, ServerAssumption DEF Conns
  <2>. QED
    BY <1>3, <2>1, <2>2
<1>. QED
  BY <1>1, <1>2, <1>4

\* A Player that is deleted and taken off the list leaves nothing behind.
LEMMA RemovalKeeps ==
  ASSUME RegistryInv,
         NEW k \in 1..Len(players),
         players' = RemoveAt(players, k),
         heap' = [heap EXCEPT ![players[k]] = Unused],
         UNCHANGED <<accepted, fresh, tickIndex, pc>>
  PROVE  RegistryInv'
<1>. DEFINE gone == players[k]
            old(i) == IF i < k THEN i ELSE i + 1
<1>1. /\ players \in Seq(Addresses) /\ heap \in [Addresses -> Conns \cup {Unused}]
      /\ Len(players) \in Nat /\ gone \in Addresses /\ gone \in Listed
  BY ListedPlayers DEF RegistryInv, RegistryTypeOK
<1>2. /\ players' \in Seq(Addresses)
      /\ Len(players') = Len(players) - 1
      /\ \A i \in 1..(Len(players) - 1) :
           players'[i] = IF i < k THEN players[i] ELSE players[i + 1]
  BY <1>1, RemoveShape
<1>3. DOMAIN players' = 1..(Len(players) - 1)
  BY <1>1, <1>2
<1>4. /\ \A i \in 1..(Len(players) - 1) :
           old(i) \in 1..Len(players) /\ old(i) # k /\ players'[i] = players[old(i)]
      /\ \A i, j \in 1..(Len(players) - 1) : i < j => old(i) < old(j)
  BY <1>1, <1>2
<1>. HIDE DEF old
<1>5. Listed' = Listed \ {gone}
  <2>1. ASSUME NEW i \in 1..(Len(players) - 1)
        PROVE  players'[i] \in Listed /\ players'[i] # gone
    BY <1>4, ListedPlayers
  <2>2. ASSUME NEW i \in 1..Len(players), i # k
        PROVE  players[i] \in Listed'
    <3>1. i < k => players'[i] = players[i] /\ i \in DOMAIN players'
      BY <1>1, <1>2, <1>3
    <3>2. i > k => players'[i - 1] = players[i] /\ i - 1 \in DOMAIN players'
      BY <1>1, <1>2, <1>3
    <3>. QED
      BY <1>1, <2>2, <3>1, <3>2 DEF Listed
  <2>. QED
    BY <1>3, <2>1, <2>2, ListedPlayers DEF Listed
<1>6. Allocated' = Allocated \ {gone}
  BY <1>1 DEF Allocated, Unused
<1>7. \A a \in Addresses : a # gone => heap'[a] = heap[a]
  BY <1>1
<1>8. RegistryTypeOK'
  BY <1>1, <1>2 DEF RegistryInv, RegistryTypeOK
<1>9. NewestInv'
  <2>1. pc[Net] = "push" => fresh # gone
    BY <1>1 DEF RegistryInv, RegistryOwns
  <2>2. pc[Net] = "push" => fresh \in Addresses
    BY DEF RegistryInv, RegistryOwns, Allocated
  <2>3. \A a \in Addresses : heap'[a] <= accepted
    BY <1>1, <1>7 DEF RegistryInv, RegistryTypeOK, NewestInv, Unused
  <2>. QED
    BY <1>6, <1>7, <2>1, <2>2, <2>3 DEF RegistryInv, NewestInv, Allocated
<1>10. RegistryOwns'
  <2>1. ASSUME NEW i \in 1..(Len(players) - 1), NEW j \in 1..(Len(players) - 1), i < j
        PROVE  heap'[players'[i]] < heap'[players'[j]]
    <3>1. /\ heap'[players'[i]] = heap[players[old(i)]]
          /\ heap'[players'[j]] = heap[players[old(j)]]
      BY <1>7, <1>4, ListedPlayers
    <3>. QED
      BY <1>4, <2>1, <3>1, ListedPlayers DEF RegistryInv, RegistryOwns
  <2>2. Listed' \subseteq Allocated'
    BY <1>5, <1>6 DEF RegistryInv, RegistryOwns
  <2>3. Allocated' \ Listed' = Allocated \ Listed
    BY <1>1, <1>5, <1>6
  <2>. QED
    BY <1>3, <2>1, <2>2, <2>3 DEF RegistryInv, RegistryOwns
<1>. QED
  BY <1>8, <1>9, <1>10 DEF RegistryInv

\* A Player that is new is the newest.
LEMMA NewPlayerKeeps ==
  ASSUME RegistryInv, NewPlayer
  PROVE  RegistryInv'
<1>. USE ServerAssumption
<1>1. /\ pc[Net] = "idle" /\ pc' = [pc EXCEPT ![Net] = "push"]
      /\ accepted < MaxAccepts /\ accepted' = accepted + 1
      /\ UNCHANGED <<players, tickIndex>>
  BY DEF NewPlayer, At, Goto
<1>2. PICK a \in Addresses :
        /\ heap[a] = Unused
        /\ heap' = [heap EXCEPT ![a] = accepted + 1]
        /\ fresh' = a
  BY DEF NewPlayer
<1>3. /\ heap \in [Addresses -> Conns \cup {Unused}] /\ accepted \in 0..MaxAccepts
      /\ DOMAIN pc = Threads
  BY DEF RegistryInv, RegistryTypeOK
<1>4. pc'[Net] = "push" /\ pc'[Main] = pc[Main] /\ DOMAIN pc' = Threads
  BY <1>1, <1>3 DEF Threads
<1>5. pc[Main] # "create"
  BY <1>1 DEF RegistryInv, NewestInv
<1>6. /\ heap'[a] = accepted + 1
      /\ \A b \in Addresses : b # a => heap'[b] = heap[b]
      /\ \A b \in Addresses : heap[b] <= accepted /\ heap[b] \in Nat
  BY <1>2, <1>3 DEF RegistryInv, NewestInv, Conns, Unused
<1>7. Allocated' = Allocated \cup {a} /\ Listed' = Listed /\ a \notin Allocated
  BY <1>1, <1>2, <1>3, <1>6 DEF Allocated, Listed, Unused
<1>8. RegistryTypeOK'
  BY <1>1, <1>2, <1>3, <1>4 DEF RegistryInv, RegistryTypeOK, Conns
<1>9. NewestInv'
  BY <1>1, <1>2, <1>3, <1>4, <1>5, <1>6, <1>7 DEF RegistryInv, NewestInv, Allocated
<1>10. RegistryOwns'
  <2>1. Listed \subseteq Allocated /\ Allocated \ Listed = {}
    BY <1>1 DEF RegistryInv, RegistryOwns
  <2>2. ASSUME NEW i \in DOMAIN players, NEW j \in DOMAIN players, i < j
        PROVE  heap'[players'[i]] < heap'[players'[j]]
    <3>1. players[i] \in Listed /\ players[j] \in Listed
      BY DEF Listed
    <3>2. players[i] # a /\ players[j] # a
      BY <1>7, <2>1, <3>1
    <3>. QED
      BY <1>1, <1>6, <2>2, <3>2, ListedPlayers DEF RegistryInv, RegistryOwns
  <2>. QED
    BY <1>1, <1>2, <1>4, <1>7, <2>1, <2>2 DEF RegistryOwns
<1>. QED
  BY <1>8, <1>9, <1>10 DEF RegistryInv

\* handle_accept lists the newest Player behind all others.
LEMMA PushPlayerKeeps ==
  ASSUME RegistryInv, PushPlayer
  PROVE  RegistryInv'
<1>. USE ServerAssumption
<1>1. /\ pc[Net] = "push" /\ pc' = [pc EXCEPT ![Net] = "start"]
      /\ players' = Append(players, fresh)
      /\ UNCHANGED <<heap, accepted, fresh, tickIndex>>
  BY DEF PushPlayer, At, Goto, accepts
<1>2. /\ players \in Seq(Addresses) /\ heap \in [Addresses -> Conns \cup {Unused}]
      /\ accepted \in 0..MaxAccepts /\ DOMAIN pc = Threads /\ Len(players) \in Nat
      /\ tickIndex \in Nat \ {0}
  BY DEF RegistryInv, RegistryTypeOK
<1>3. pc'[Net] = "start" /\ pc'[Main] = pc[Main] /\ DOMAIN pc' = Threads
  BY <1>1, <1>2 DEF Threads
<1>4. /\ fresh \in Allocated /\ fresh \notin Listed /\ fresh \in Addresses
      /\ Allocated \ Listed = {fresh} /\ heap[fresh] = accepted
  BY <1>1 DEF RegistryInv, RegistryOwns, NewestInv, Allocated
<1>5. /\ players' \in Seq(Addresses) /\ Len(players') = Len(players) + 1
      /\ \A i \in 1..Len(players) : players'[i] = players[i]
      /\ players'[Len(players) + 1] = fresh
      /\ DOMAIN players' = 1..(Len(players) + 1)
  BY <1>1, <1>2, <1>4
<1>6. Listed' = Listed \cup {fresh}
  BY <1>2, <1>5 DEF Listed
<1>7. Allocated' = Allocated
  BY <1>1 DEF Allocated
<1>8. RegistryTypeOK'
  BY <1>1, <1>2, <1>3, <1>5 DEF RegistryTypeOK
<1>9. NewestInv'
  BY <1>1, <1>3, <1>7 DEF RegistryInv, NewestInv
<1>10. RegistryOwns'
  <2>1. ASSUME NEW i \in 1..Len(players)
        PROVE  heap[players[i]] < accepted
    <3>1. /\ players[i] \in Allocated /\ players[i] \in Addresses
          /\ players[i] # fresh /\ heap[players[i]] \in Nat
      BY <1>4, ListedPlayers DEF RegistryInv, RegistryOwns, Conns
    <3>2. heap[players[i]] <= accepted /\ heap[players[i]] # accepted
      BY <1>4, <3>1 DEF RegistryInv, NewestInv
    <3>. QED
      BY <1>2, <3>1, <3>2
  <2>2. ASSUME NEW i \in DOMAIN players', NEW j \in DOMAIN players', i < j
        PROVE  heap'[players'[i]] < heap'[players'[j]]
    <3>1. i \in 1..Len(players)
      BY <1>2, <1>5, <2>2
    <3>2. CASE j \in 1..Len(players)
      BY <1>1, <1>5, <2>2, <3>1, <3>2, ListedPlayers DEF RegistryInv, RegistryOwns
    <3>3. CASE j = Len(players) + 1
      BY <1>1, <1>4, <1>5, <2>1, <3>1, <3>3
    <3>. QED
      BY <1>2, <1>5, <3>2, <3>3
  <2>3. Listed' \subseteq Allocated' /\ Allocated' \ Listed' = {}
    BY <1>4, <1>6, <1>7 DEF RegistryInv, RegistryOwns
  <2>. QED
    BY <1>3, <2>2, <2>3 DEF RegistryOwns
<1>. QED
  BY <1>8, <1>9, <1>10 DEF RegistryInv

\* shutdown deletes what is on the list, and clears it.
LEMMA ShutdownKeeps ==
  ASSUME RegistryInv, NEW x, ShutdownKick(x)
  PROVE  RegistryInv'
<1>1. /\ heap' = [a \in Addresses |-> IF a \in Listed THEN Unused ELSE heap[a]]
      /\ players' = <<>>
      /\ UNCHANGED <<accepted, fresh, tickIndex, pc>>
  BY DEF ShutdownKick, accepts
<1>2. heap \in [Addresses -> Conns \cup {Unused}] /\ accepted \in 0..MaxAccepts
  BY DEF RegistryInv, RegistryTypeOK
<1>3. Listed' = {} /\ Allocated' = Allocated \ Listed
  BY <1>1, <1>2 DEF Listed, Allocated
<1>4. RegistryTypeOK'
  BY <1>1, <1>2 DEF RegistryInv, RegistryTypeOK
<1>5. NewestInv'
  <2>1. pc[Net] = "push" => fresh \in Addresses /\ fresh \notin Listed
    BY DEF RegistryInv, RegistryOwns, Allocated
  <2>2. \A a \in Addresses : heap'[a] <= accepted
    BY <1>1, <1>2 DEF RegistryInv, NewestInv, Unused
  <2>3. \A a \in Allocated' : heap'[a] = heap[a] /\ a \in Allocated
    BY <1>1, <1>3 DEF Allocated
  <2>. QED
    BY <1>1, <2>1, <2>2, <2>3 DEF RegistryInv, NewestInv
<1>6. RegistryOwns'
  BY <1>1, <1>3 DEF RegistryInv, RegistryOwns
<1>. QED
  BY <1>4, <1>5, <1>6 DEF RegistryInv

LEMMA KickNextKeeps ==
  ASSUME RegistryInv, KickNext
  PROVE  RegistryInv'
<1>. DEFINE target == Head(snapshot).ptr
            found == {i \in DOMAIN players : players[i] = target}
<1>1. UNCHANGED <<accepted, fresh, tickIndex, pc>>
  BY DEF KickNext, accepts
<1>2. CASE found = {}
  <2>1. UNCHANGED <<players, heap>>
    BY <1>2 DEF KickNext
  <2>. QED
    BY <1>1, <2>1
    DEF RegistryInv, RegistryTypeOK, NewestInv, RegistryOwns, Listed, Allocated
<1>3. CASE found # {}
  <2>1. /\ heap' = [heap EXCEPT ![target] = Unused]
        /\ \E i \in found : players' = RemoveAt(players, i)
    BY <1>3 DEF KickNext, Free
  <2>2. PICK k \in 1..Len(players) :
          players[k] = target /\ players' = RemoveAt(players, k)
    BY <2>1, ListedPlayers
  <2>. QED
    BY <1>1, <2>1, <2>2, RemovalKeeps
<1>. QED
  BY <1>2, <1>3

LEMMA RemoveDeadKeeps ==
  ASSUME RegistryInv, RemoveDead
  PROVE  RegistryInv'
<1>1. /\ tickIndex \in 1..Len(players)
      /\ players' = RemoveAt(players, tickIndex)
      /\ heap' = [heap EXCEPT ![players[tickIndex]] = Unused]
      /\ UNCHANGED <<accepted, fresh, tickIndex, pc>>
  BY DEF RemoveDead, Scanned, Free, accepts, RegistryInv, RegistryTypeOK
<1>. QED
  BY <1>1, RemovalKeeps

\* What a step must leave alone not to concern the registry.
RegistryAlone ==
  /\ UNCHANGED <<players, heap, accepted, fresh>>
  /\ tickIndex' \in Nat \ {0}
  /\ DOMAIN pc' = Threads
  /\ pc'[Net] = "push" <=> pc[Net] = "push"
  /\ pc'[Main] = "create" => pc'[Net] = "off"

LEMMA AloneKeeps == RegistryInv /\ RegistryAlone => RegistryInv'
BY DEF RegistryInv, RegistryTypeOK, NewestInv, RegistryOwns, RegistryAlone, Listed,
       Allocated

LEMMA MainAlone ==
  ASSUME RegistryInv,
         \/ CreateServer \/ TestServing \/ BeginTick \/ KeepAlive \/ EndTick
         \/ StopNetwork \/ JoinNetwork \/ ReturnFromMain
  PROVE  RegistryAlone
<1>1. /\ tickIndex \in Nat \ {0} /\ DOMAIN pc = Threads
      /\ pc[Main] = "create" => pc[Net] = "off"
      /\ Main \in Threads /\ Net \in Threads /\ Main # Net
  BY ServerAssumption DEF RegistryInv, RegistryTypeOK, NewestInv, Threads
<1>2. CASE CreateServer
  BY <1>1, <1>2 DEF CreateServer, At, RegistryAlone, registry, accepts
<1>3. CASE TestServing
  BY <1>1, <1>3 DEF TestServing, At, Goto, RegistryAlone, registry, accepts
<1>4. CASE BeginTick \/ EndTick
  BY <1>1, <1>4 DEF BeginTick, EndTick, At, Goto, RegistryAlone, accepts
<1>5. CASE KeepAlive
  BY <1>1, <1>5 DEF KeepAlive, RegistryAlone, accepts
<1>6. CASE StopNetwork \/ JoinNetwork \/ ReturnFromMain
  BY <1>1, <1>6 DEF StopNetwork, JoinNetwork, ReturnFromMain, At, Goto, RegistryAlone,
                    registry, accepts
<1>. QED
  BY <1>2, <1>3, <1>4, <1>5, <1>6

LEMMA OtherAlone ==
  ASSUME RegistryInv,
         \/ NetStep \/ ConStep \/ TakeSnapshot \/ GetLine \/ SignalStep
         \/ (\E x \in Stoppers : ShutdownStep(x))
         \/ (\E c \in Conns : Disconnect(c))
         \/ (\E t \in Threads : Interrupt(t))
         \/ UNCHANGED vars
  PROVE  RegistryAlone
<1>1. /\ tickIndex \in Nat \ {0} /\ DOMAIN pc = Threads
      /\ pc[Main] = "create" => pc[Net] = "off"
      /\ {Main, Net, Con} \subseteq Threads
      /\ Main # Net /\ Con # Net /\ Con # Main
  BY ServerAssumption DEF RegistryInv, RegistryTypeOK, NewestInv, Threads
\* The console's steps move the console only.
<1>2. ASSUME NEW l, pc' = pc \/ pc' = [pc EXCEPT ![Con] = l]
      PROVE  /\ DOMAIN pc' = Threads
             /\ pc'[Net] = pc[Net] /\ pc'[Main] = pc[Main]
  BY <1>1, <1>2
<1>3. CASE NetStep
  <2>1. CASE StartPlayer
    BY <1>1, <2>1 DEF StartPlayer, At, Goto, RegistryAlone, registry, accepts
  <2>2. CASE EndNetwork
    BY <1>1, <2>2 DEF EndNetwork, At, Goto, RegistryAlone, registry, accepts
  <2>. QED
    BY <1>3, <2>1, <2>2 DEF NetStep
<1>4. CASE ConStep
  <2>1. UNCHANGED <<players, heap, accepted, fresh, tickIndex>>
    BY <1>4 DEF ConStep, NoServer, ListNext, Stop, CommandDone, registry, accepts
  <2>2. pc' = pc \/ pc' = [pc EXCEPT ![Con] = "getline"]
    BY <1>4 DEF ConStep, NoServer, ListNext, Stop, CommandDone, Goto
  <2>. QED
    BY <1>1, <1>2, <2>1, <2>2 DEF RegistryAlone
<1>5. CASE TakeSnapshot \/ GetLine
  <2>1. UNCHANGED <<players, heap, accepted, fresh, tickIndex>>
    BY <1>5 DEF TakeSnapshot, GetLine, registry, accepts
  <2>2. \/ pc' = [pc EXCEPT ![Con] = command]
        \/ pc' = [pc EXCEPT ![Con] = "snapshot"]
    BY <1>5 DEF TakeSnapshot, GetLine, Goto
  <2>. QED
    BY <1>1, <1>2, <2>1, <2>2 DEF RegistryAlone
<1>6. CASE SignalStep \/ (\E x \in Stoppers : ShutdownStep(x))
  BY <1>1, <1>6 DEF SignalStep, SignalCleanup, SignalExit, ShutdownStep, ShutdownFlag,
                    ShutdownIo, RegistryAlone, registry, accepts
<1>7. CASE \/ \E c \in Conns : Disconnect(c)
           \/ \E t \in Threads : Interrupt(t)
           \/ UNCHANGED vars
  BY <1>1, <1>7 DEF Disconnect, Interrupt, RegistryAlone, registry, accepts, vars
<1>. QED
  BY <1>3, <1>4, <1>5, <1>6, <1>7

LEMMA RegistryNext == RegistryInv /\ [Next]_vars => RegistryInv'
<1>. SUFFICES ASSUME RegistryInv, [Next]_vars
              PROVE  RegistryInv'
  OBVIOUS
<1>. QED
  BY NewPlayerKeeps, PushPlayerKeeps, ShutdownKeeps, KickNextKeeps, RemoveDeadKeeps,
     MainAlone, OtherAlone, AloneKeeps
  DEF Next, MainStep, Outside

\* However ticks, kicks, accepts, a shutdown and signals interleave, the list owns
\* the Players: none is deleted twice and none is lost.
THEOREM RegistryIsOwned == Spec => []RegistryOwns
<1>1. RegistryInv => RegistryOwns
  BY DEF RegistryInv
<1>. QED
  BY RegistryInit, RegistryNext, <1>1, PTL DEF Spec

(***************************************************************************)
(* The roster.                                                             *)
(***************************************************************************)

Online == {heap[a] : a \in Allocated}
Alive == {c \in Conns : running[c]}

RosterInv == RegistryInv /\ running \in [Conns -> BOOLEAN]

\* Whoever leaves the list is dead, and who dies was accepted.
LEMMA LeaveStep ==
  ASSUME accepted' = accepted,
         Alive' \subseteq Alive, Alive \ Alive' \subseteq 1..accepted,
         Online' \subseteq Online, (Online \ Online') \cap Alive' = {}
  PROVE  Roster!Next
<1>. DEFINE dying == Alive \ Alive'
            leaving == Online \ Online'
<1>1. dying \in SUBSET (Alive \cap 1..accepted) /\ Alive' = Alive \ dying
  OBVIOUS
<1>2. leaving \in SUBSET (Online \ Alive') /\ Online' = Online \ leaving
  OBVIOUS
<1>3. Roster!Leave
  BY <1>1, <1>2 DEF Roster!Leave, Online, Alive
<1>. QED
  BY <1>3 DEF Roster!Next

\* Deleted Players take their connections off the roster, and no others.
LEMMA FreedOnline ==
  ASSUME RegistryInv, NEW gone \in SUBSET Allocated,
         heap' = [a \in Addresses |-> IF a \in gone THEN Unused ELSE heap[a]]
  PROVE  Online' = Online \ {heap[a] : a \in gone}
<1>1. Allocated' = Allocated \ gone
  BY DEF RegistryInv, RegistryTypeOK, Allocated
<1>2. \A a \in Allocated \ gone : heap'[a] = heap[a]
  BY DEF Allocated
<1>3. \A a \in Allocated \ gone, b \in gone : heap[a] # heap[b]
  BY DEF RegistryInv, NewestInv
<1>. QED
  BY <1>1, <1>2, <1>3 DEF Online

LEMMA RosterInit == Init => Roster!Init /\ RosterInv
<1>. SUFFICES ASSUME Init
              PROVE  Roster!Init /\ RosterInv
  OBVIOUS
<1>1. /\ heap = [a \in Addresses |-> Unused] /\ accepted = 0
      /\ running = [c \in Conns |-> TRUE]
  BY DEF Init
<1>2. Allocated = {}
  BY <1>1 DEF Allocated
<1>. QED
  BY <1>1, <1>2, RegistryInit DEF Roster!Init, Roster!Conns, RosterInv, Conns

\* An accepted connection joins.
LEMMA NewPlayerJoins ==
  ASSUME RosterInv, NewPlayer
  PROVE  Roster!Next /\ running' = running
<1>1. /\ accepted < MaxAccepts /\ accepted' = accepted + 1 /\ running' = running
  BY DEF NewPlayer
<1>2. PICK a \in Addresses : heap[a] = Unused /\ heap' = [heap EXCEPT ![a] = accepted + 1]
  BY DEF NewPlayer
<1>3. heap \in [Addresses -> Conns \cup {Unused}] /\ accepted \in 0..MaxAccepts
  BY DEF RosterInv, RegistryInv, RegistryTypeOK
<1>4. /\ Allocated' = Allocated \cup {a} /\ heap'[a] = accepted + 1
      /\ \A b \in Allocated : heap'[b] = heap[b]
  BY <1>2, <1>3, ServerAssumption DEF Allocated, Unused
<1>5. Online' = Online \cup {accepted + 1}
  BY <1>4 DEF Online
<1>6. Roster!Join
  BY <1>1, <1>5 DEF Roster!Join, Online
<1>. QED
  BY <1>1, <1>6 DEF Roster!Next

\* tick() deletes a Player whose connection is dead.
LEMMA RemoveDeadLeaves ==
  ASSUME RosterInv, RemoveDead
  PROVE  Roster!Next /\ running' = running
<1>. DEFINE gone == players[tickIndex]
<1>1. /\ tickIndex \in 1..Len(players)
      /\ ~running[heap[gone]]
      /\ heap' = [heap EXCEPT ![gone] = Unused]
      /\ UNCHANGED <<accepted, running>>
  BY DEF RemoveDead, Scanned, Free, accepts, RosterInv, RegistryInv, RegistryTypeOK
<1>2. gone \in Allocated
  BY <1>1, ListedPlayers DEF RosterInv, Allocated
<1>3. heap' = [a \in Addresses |-> IF a \in {gone} THEN Unused ELSE heap[a]]
  BY <1>1 DEF RosterInv, RegistryInv, RegistryTypeOK
<1>4. Online' = Online \ {heap[a] : a \in {gone}}
  BY <1>2, <1>3, FreedOnline DEF RosterInv
<1>5. Alive' = Alive
  BY <1>1 DEF Alive
<1>6. (Online \ Online') \cap Alive' = {}
  BY <1>1, <1>4, <1>5 DEF Alive
<1>. QED
  BY <1>1, <1>4, <1>5, <1>6, LeaveStep

\* A connection in the list was accepted.
LEMMA ListedAccepted ==
  ASSUME RosterInv, NEW i \in 1..Len(players)
  PROVE  heap[players[i]] \in 1..accepted /\ players[i] \in Allocated
<1>1. /\ players[i] \in Addresses /\ heap[players[i]] \in Conns
      /\ heap[players[i]] # Unused
  BY ListedPlayers DEF RosterInv
<1>2. heap[players[i]] <= accepted /\ accepted \in Nat
  BY <1>1 DEF RosterInv, RegistryInv, RegistryTypeOK, NewestInv
<1>. QED
  BY <1>1, <1>2 DEF Allocated, Conns

\* One connection dies, and no Player is deleted.
LEMMA OneDies ==
  ASSUME RosterInv, NEW c \in 1..accepted,
         running' = [running EXCEPT ![c] = FALSE],
         UNCHANGED <<heap, accepted>>
  PROVE  Roster!Next /\ running' \in [Conns -> BOOLEAN]
<1>1. running \in [Conns -> BOOLEAN]
  BY DEF RosterInv
<1>2. Alive' = Alive \ {c}
  BY <1>1 DEF Alive
<1>3. Online' = Online
  BY DEF Online, Allocated
<1>. QED
  BY <1>1, <1>2, <1>3, LeaveStep

\* kickall disconnects the Player it deletes, or finds it gone.
LEMMA KickNextLeaves ==
  ASSUME RosterInv, KickNext
  PROVE  [Roster!Next]_(Roster!rosterVars) /\ running' \in [Conns -> BOOLEAN]
<1>. DEFINE target == Head(snapshot).ptr
            found == {i \in DOMAIN players : players[i] = target}
<1>1. UNCHANGED accepted
  BY DEF KickNext, accepts
<1>2. running \in [Conns -> BOOLEAN]
  BY DEF RosterInv
<1>3. CASE found = {}
  <2>1. UNCHANGED <<heap, running>>
    BY <1>3 DEF KickNext
  <2>2. UNCHANGED <<Online, Alive>>
    BY <2>1 DEF Online, Allocated, Alive
  <2>. QED
    BY <1>1, <1>2, <2>1, <2>2 DEF Roster!rosterVars, Online, Alive
<1>4. CASE found # {}
  <2>1. /\ running' = [running EXCEPT ![heap[target]] = FALSE]
        /\ heap' = [heap EXCEPT ![target] = Unused]
    BY <1>4 DEF KickNext, Free
  <2>2. PICK k \in 1..Len(players) : players[k] = target
    BY <1>4, ListedPlayers DEF RosterInv
  <2>3. heap[target] \in 1..accepted /\ target \in Allocated
    BY <2>2, ListedAccepted
  <2>4. heap' = [a \in Addresses |-> IF a \in {target} THEN Unused ELSE heap[a]]
    BY <2>1 DEF RosterInv, RegistryInv, RegistryTypeOK
  <2>5. Online' = Online \ {heap[a] : a \in {target}}
    BY <2>3, <2>4, FreedOnline DEF RosterInv
  <2>6. Alive' = Alive \ {heap[target]}
    BY <1>2, <2>1 DEF Alive
  <2>. QED
    BY <1>1, <1>2, <2>1, <2>3, <2>5, <2>6, LeaveStep
<1>. QED
  BY <1>3, <1>4

\* shutdown disconnects every Player it deletes.
LEMMA ShutdownLeaves ==
  ASSUME RosterInv, NEW x, ShutdownKick(x)
  PROVE  Roster!Next /\ running' \in [Conns -> BOOLEAN]
<1>1. /\ running' = [c \in Conns |-> running[c] /\ c \notin {heap[a] : a \in Listed}]
      /\ heap' = [a \in Addresses |-> IF a \in Listed THEN Unused ELSE heap[a]]
      /\ accepted' = accepted
  BY DEF ShutdownKick, accepts
<1>2. Listed \in SUBSET Allocated
  BY DEF RosterInv, RegistryInv, RegistryOwns
<1>3. Online' = Online \ {heap[a] : a \in Listed}
  BY <1>1, <1>2, FreedOnline DEF RosterInv
<1>4. Alive' = Alive \ {heap[a] : a \in Listed}
  BY <1>1 DEF Alive
<1>5. \A a \in Listed : heap[a] \in 1..accepted
  BY ListedAccepted, ListedPlayers DEF Listed, RosterInv
<1>6. running' \in [Conns -> BOOLEAN]
  BY <1>1 DEF RosterInv
<1>. QED
  BY <1>1, <1>3, <1>4, <1>5, <1>6, LeaveStep

\* A keep-alive disconnects a silent client, or passes it by.
LEMMA KeepAliveLeaves ==
  ASSUME RosterInv, KeepAlive
  PROVE  [Roster!Next]_(Roster!rosterVars) /\ running' \in [Conns -> BOOLEAN]
<1>1. tickIndex \in 1..Len(players) /\ UNCHANGED <<heap, accepted>>
  BY DEF KeepAlive, accepts, RosterInv, RegistryInv, RegistryTypeOK
<1>2. heap[players[tickIndex]] \in 1..accepted
  BY <1>1, ListedAccepted
<1>3. CASE UNCHANGED running
  BY <1>1, <1>3 DEF Roster!rosterVars, RosterInv, Allocated
<1>4. CASE running' = [running EXCEPT ![heap[players[tickIndex]]] = FALSE]
  BY <1>1, <1>2, <1>4, OneDies
<1>. QED
  BY <1>3, <1>4 DEF KeepAlive, Scanned

\* A handler disconnects.
LEMMA DisconnectLeaves ==
  ASSUME RosterInv, NEW c \in Conns, Disconnect(c)
  PROVE  Roster!Next /\ running' \in [Conns -> BOOLEAN]
<1>1. /\ c \in 1..accepted /\ running' = [running EXCEPT ![c] = FALSE]
      /\ UNCHANGED <<heap, accepted>>
  BY DEF Disconnect, accepts, Conns, RosterInv, RegistryInv, RegistryTypeOK
<1>. QED
  BY <1>1, OneDies

\* Every other step leaves the roster as it is.
LEMMA RosterStutters ==
  ASSUME RosterInv, UNCHANGED <<heap, running, accepted>>
  PROVE  [Roster!Next]_(Roster!rosterVars) /\ running' \in [Conns -> BOOLEAN]
BY DEF Roster!rosterVars, RosterInv, Allocated

LEMMA RosterNext ==
  RosterInv /\ [Next]_vars => RosterInv' /\ [Roster!Next]_(Roster!rosterVars)
<1>. SUFFICES ASSUME RosterInv, [Next]_vars
              PROVE  RosterInv' /\ [Roster!Next]_(Roster!rosterVars)
  OBVIOUS
<1>. SUFFICES [Roster!Next]_(Roster!rosterVars) /\ running' \in [Conns -> BOOLEAN]
  BY RegistryNext DEF RosterInv
<1>1. CASE NewPlayer
  BY <1>1, NewPlayerJoins DEF RosterInv
<1>2. CASE RemoveDead
  BY <1>2, RemoveDeadLeaves DEF RosterInv
<1>3. CASE KeepAlive
  BY <1>3, KeepAliveLeaves
<1>4. CASE KickNext
  BY <1>4, KickNextLeaves
<1>5. CASE \E x \in Stoppers : ShutdownKick(x)
  BY <1>5, ShutdownLeaves
<1>6. CASE \E c \in Conns : Disconnect(c)
  BY <1>6, DisconnectLeaves
<1>7. CASE \/ CreateServer \/ TestServing \/ BeginTick \/ EndTick
           \/ StopNetwork \/ JoinNetwork \/ ReturnFromMain
  <2>1. UNCHANGED <<heap, running, accepted>>
    BY <1>7 DEF CreateServer, TestServing, BeginTick, EndTick, StopNetwork,
                JoinNetwork, ReturnFromMain, registry, accepts
  <2>. QED
    BY <2>1, RosterStutters
<1>8. CASE NetStep \/ PushPlayer \/ ConStep \/ TakeSnapshot \/ GetLine
  <2>1. UNCHANGED <<heap, running, accepted>>
    BY <1>8 DEF NetStep, StartPlayer, EndNetwork, PushPlayer, ConStep, NoServer,
                ListNext, Stop, CommandDone, TakeSnapshot, GetLine, registry, accepts
  <2>. QED
    BY <2>1, RosterStutters
<1>9. CASE \/ SignalStep \/ (\E x \in Stoppers : ShutdownStep(x))
           \/ (\E t \in Threads : Interrupt(t)) \/ UNCHANGED vars
  <2>1. UNCHANGED <<heap, running, accepted>>
    BY <1>9 DEF SignalStep, SignalCleanup, SignalExit, ShutdownStep, ShutdownFlag,
                ShutdownIo, Interrupt, vars, registry, accepts
  <2>. QED
    BY <2>1, RosterStutters
<1>. QED
  BY <1>1, <1>2, <1>3, <1>4, <1>5, <1>6, <1>7, <1>8, <1>9
  DEF Next, MainStep, Outside

\* The list of players implements the roster, whatever the threads, the clients,
\* the user and the signals do.
THEOREM ServerIsRoster == Spec => RosterSpec
BY RosterInit, RosterNext, PTL DEF Spec, RosterSpec, Roster!Spec

(***************************************************************************)
(* The types, with their bounds.                                           *)
(***************************************************************************)

\* The i-th Player of the list is not older than the i-th connection: the list
\* never outgrows the connections accepted, and a tick never looks further.
TickInv ==
  /\ \A i \in 1..Len(players) : i <= heap[players[i]]
  /\ tickIndex \in 1..MaxAccepts + 1

LifeTypeOK ==
  /\ process \in {"up", "exited", "crashed"}
  /\ created \in BOOLEAN /\ serving \in BOOLEAN
  /\ io \in {"none", "running", "stopped", "destroyed"}
  /\ playersMutex \in Threads \cup {Signal, Nobody}

\* The console goes to a command that was typed.
PcTypeOK ==
  /\ DOMAIN pc = Threads
  /\ pc[Main] \in {"create", "loop", "tick", "scan", "stopIo", "join", "return"}
  /\ pc[Net] \in {"off", "idle", "push", "start", "ended"}
  /\ pc[Con] \in {"getline", "snapshot"} \cup Commands
  /\ pc[Con] = "snapshot" => command \in Commands

ConsoleTypeOK ==
  /\ fresh \in Addresses \cup {Nobody}
  /\ listening \in BOOLEAN /\ typed \in 0..MaxCommands
  /\ snapshot \in Seq([ptr : Addresses, was : Conns])

ShutTypeOK ==
  /\ leaf \in BOOLEAN
  /\ signals \in 0..MaxSignals /\ interrupted \in Threads \cup {Nobody}
  /\ teardown \in [Stoppers -> {"none", "kick", "flag", "io", "done"}]

\* The list is as long as there are connections, at most.
LEMMA ListedFit ==
  ASSUME RegistryInv, TickInv
  PROVE  Len(players) <= accepted
<1>1. CASE Len(players) = 0
  BY <1>1 DEF RegistryInv, RegistryTypeOK
<1>2. CASE Len(players) # 0
  <2>1. Len(players) \in 1..Len(players)
    BY <1>2, ListedPlayers
  <2>2. /\ Len(players) <= heap[players[Len(players)]]
        /\ heap[players[Len(players)]] <= accepted
        /\ heap[players[Len(players)]] \in Nat
    BY <2>1, ListedPlayers DEF TickInv, RegistryInv, NewestInv, Conns
  <2>. QED
    BY <2>2, ListedPlayers DEF RegistryInv, RegistryTypeOK
<1>. QED
  BY <1>1, <1>2

LEMMA TickInit == Init => TickInv
BY ServerAssumption DEF Init, TickInv

\* A Player that leaves the list moves the others forward.
LEMMA TickRemoval ==
  ASSUME RegistryInv, TickInv,
         NEW k \in 1..Len(players),
         players' = RemoveAt(players, k),
         heap' = [heap EXCEPT ![players[k]] = Unused],
         tickIndex' = tickIndex
  PROVE  TickInv'
<1>1. /\ players \in Seq(Addresses) /\ Len(players) \in Nat
      /\ heap \in [Addresses -> Conns \cup {Unused}]
  BY DEF RegistryInv, RegistryTypeOK
<1>2. /\ Len(players') = Len(players) - 1
      /\ \A i \in 1..(Len(players) - 1) :
           players'[i] = IF i < k THEN players[i] ELSE players[i + 1]
  BY <1>1, RemoveShape
<1>3. ASSUME NEW i \in 1..Len(players')
      PROVE  i <= heap'[players'[i]]
  <2>1. PICK j \in 1..Len(players) : j # k /\ i <= j /\ players'[i] = players[j]
    <3>0. i \in 1..(Len(players) - 1)
      BY <1>2
    <3>1. CASE i < k
      <4>1. i \in 1..Len(players) /\ i # k /\ i <= i /\ players'[i] = players[i]
        BY <1>1, <1>2, <3>0, <3>1
      <4>. QED
        BY <4>1
    <3>2. CASE ~(i < k)
      <4>1. /\ i + 1 \in 1..Len(players) /\ i + 1 # k /\ i <= i + 1
            /\ players'[i] = players[i + 1]
        BY <1>1, <1>2, <3>0, <3>2
      <4>. QED
        BY <4>1
    <3>. QED
      BY <3>1, <3>2
  <2>2. heap'[players'[i]] = heap[players[j]]
    BY <1>1, <2>1, ListedPlayers
  <2>3. j <= heap[players[j]] /\ heap[players[j]] \in Nat
    BY ListedPlayers DEF TickInv, Conns
  <2>. QED
    BY <1>1, <2>1, <2>2, <2>3
<1>. QED
  BY <1>3 DEF TickInv

LEMMA TickNext == RegistryInv /\ TickInv /\ [Next]_vars => TickInv'
<1>. SUFFICES ASSUME RegistryInv, TickInv, [Next]_vars
              PROVE  TickInv'
  OBVIOUS
<1>0. /\ players \in Seq(Addresses) /\ Len(players) \in Nat
      /\ heap \in [Addresses -> Conns \cup {Unused}]
      /\ accepted \in 0..MaxAccepts /\ MaxAccepts \in Nat /\ tickIndex \in Nat \ {0}
  BY ServerAssumption DEF RegistryInv, RegistryTypeOK
<1>1. CASE NewPlayer
  <2>1. PICK a \in Addresses : heap[a] = Unused /\ heap' = [heap EXCEPT ![a] = accepted + 1]
    BY <1>1 DEF NewPlayer
  <2>2. \A i \in 1..Len(players) : heap'[players[i]] = heap[players[i]]
    BY <1>0, <2>1, ListedPlayers
  <2>. QED
    BY <1>1, <2>2 DEF NewPlayer, TickInv
<1>2. CASE PushPlayer
  <2>1. /\ pc[Net] = "push" /\ players' = Append(players, fresh)
        /\ UNCHANGED <<heap, tickIndex>>
    BY <1>2 DEF PushPlayer, At
  <2>2. fresh \in Allocated /\ fresh \in Addresses /\ heap[fresh] = accepted
    BY <2>1 DEF RegistryInv, NewestInv, RegistryOwns, Allocated
  <2>3. /\ Len(players') = Len(players) + 1
        /\ \A i \in 1..Len(players) : players'[i] = players[i]
        /\ players'[Len(players) + 1] = fresh
    BY <1>0, <2>1, <2>2
  <2>4. Len(players) + 1 <= accepted
    <3>1. players' = Append(players, fresh) /\ RegistryInv'
      BY <1>2, <2>1, PushPlayerKeeps
    <3>2. CASE Len(players) = 0
      BY <1>0, <2>2, <3>2 DEF Allocated, Unused, Conns
    <3>3. CASE Len(players) # 0
      <4>1. Len(players) \in 1..Len(players')
        BY <1>0, <2>3, <3>3
      <4>2. heap[players[Len(players)]] < accepted
        <5>1. /\ DOMAIN players' = 1..(Len(players) + 1)
              /\ heap'[players'[Len(players)]] < heap'[players'[Len(players) + 1]]
          BY <1>0, <2>3, <3>1, <4>1, ListedPlayers
          DEF RegistryInv, RegistryOwns, RegistryTypeOK
        <5>. QED
          BY <1>0, <2>1, <2>2, <2>3, <3>3, <5>1
      <4>3. /\ Len(players) <= heap[players[Len(players)]]
            /\ heap[players[Len(players)]] \in Nat
        BY <1>0, <3>3, ListedPlayers DEF TickInv, Conns
      <4>. QED
        BY <1>0, <4>2, <4>3
    <3>. QED
      BY <3>2, <3>3
  <2>5. ASSUME NEW i \in 1..Len(players')
        PROVE  i <= heap'[players'[i]]
    <3>1. CASE i \in 1..Len(players)
      BY <2>1, <2>3, <3>1 DEF TickInv
    <3>2. CASE i = Len(players) + 1
      BY <2>1, <2>2, <2>3, <2>4, <3>2
    <3>. QED
      BY <1>0, <2>3, <3>1, <3>2
  <2>. QED
    BY <2>1, <2>5 DEF TickInv
<1>3. CASE \E x \in Stoppers : ShutdownKick(x)
  <2>1. players' = <<>> /\ tickIndex' = tickIndex
    BY <1>3 DEF ShutdownKick
  <2>2. 1..Len(players') = {}
    BY <2>1
  <2>. QED
    BY <2>1, <2>2 DEF TickInv
<1>4. CASE RemoveDead
  <2>1. /\ tickIndex \in 1..Len(players)
        /\ players' = RemoveAt(players, tickIndex)
        /\ heap' = [heap EXCEPT ![players[tickIndex]] = Unused]
        /\ tickIndex' = tickIndex
    BY <1>0, <1>4 DEF RemoveDead, Scanned, Free
  <2>. QED
    BY <2>1, TickRemoval
<1>5. CASE KickNext
  <2>. DEFINE target == Head(snapshot).ptr
              found == {i \in DOMAIN players : players[i] = target}
  <2>1. tickIndex' = tickIndex
    BY <1>5 DEF KickNext
  <2>2. CASE found = {}
    BY <1>5, <2>1, <2>2 DEF KickNext, TickInv
  <2>3. CASE found # {}
    <3>1. /\ heap' = [heap EXCEPT ![target] = Unused]
          /\ \E i \in found : players' = RemoveAt(players, i)
      BY <1>5, <2>3 DEF KickNext, Free
    <3>2. PICK k \in 1..Len(players) :
            players[k] = target /\ players' = RemoveAt(players, k)
      BY <3>1, ListedPlayers
    <3>. QED
      BY <2>1, <3>1, <3>2, TickRemoval
  <2>. QED
    BY <2>2, <2>3
<1>6. CASE BeginTick
  BY <1>0, <1>6 DEF BeginTick, TickInv
<1>7. CASE KeepAlive
  <2>1. tickIndex <= Len(players) /\ tickIndex' = tickIndex + 1 /\ UNCHANGED <<players, heap>>
    BY <1>7 DEF KeepAlive
  <2>2. Len(players) <= MaxAccepts
    BY <1>0, ListedFit
  <2>. QED
    BY <1>0, <2>1, <2>2 DEF TickInv
<1>8. CASE \/ CreateServer \/ TestServing \/ EndTick
           \/ StopNetwork \/ JoinNetwork \/ ReturnFromMain
  <2>1. UNCHANGED <<players, heap, tickIndex>>
    BY <1>8 DEF CreateServer, TestServing, EndTick, StopNetwork, JoinNetwork,
                ReturnFromMain, registry
  <2>. QED
    BY <2>1 DEF TickInv
<1>9. CASE \/ NetStep \/ ConStep \/ TakeSnapshot \/ GetLine \/ SignalStep
  <2>1. UNCHANGED <<players, heap, tickIndex>>
    BY <1>9 DEF NetStep, StartPlayer, EndNetwork, ConStep, NoServer, ListNext, Stop,
                CommandDone, TakeSnapshot, GetLine, SignalStep, SignalCleanup,
                SignalExit, registry
  <2>. QED
    BY <2>1 DEF TickInv
<1>10. CASE \/ \E x \in Stoppers : ShutdownStep(x)
            \/ \E c \in Conns : Disconnect(c)
            \/ \E t \in Threads : Interrupt(t)
            \/ UNCHANGED vars
  <2>1. UNCHANGED <<players, heap, tickIndex>>
    BY <1>10 DEF ShutdownStep, ShutdownFlag, ShutdownIo, Disconnect, Interrupt, vars,
                 registry
  <2>. QED
    BY <2>1 DEF TickInv
<1>. QED
  BY <1>1, <1>2, <1>3, <1>4, <1>5, <1>6, <1>7, <1>8, <1>9, <1>10
  DEF Next, MainStep, Outside

\* What TypeOK says and the registry's invariant and the tick's do not.
ControlTypeOK == LifeTypeOK /\ PcTypeOK /\ ConsoleTypeOK /\ ShutTypeOK

LEMMA ControlInit == Init => ControlTypeOK
<1>. SUFFICES ASSUME Init
              PROVE  ControlTypeOK
  OBVIOUS
<1>. USE ServerAssumption
<1>1. LifeTypeOK
  BY DEF Init, LifeTypeOK
<1>2. PcTypeOK
  BY DEF Init, PcTypeOK, Threads
<1>3. ConsoleTypeOK
  BY DEF Init, ConsoleTypeOK
<1>4. ShutTypeOK
  <2>1. teardown \in [Stoppers -> {"none", "kick", "flag", "io", "done"}]
    BY DEF Init
  <2>2. signals \in 0..MaxSignals /\ interrupted \in Threads \cup {Nobody}
    BY DEF Init
  <2>3. leaf \in BOOLEAN
    BY DEF Init
  <2>. QED
    BY <2>1, <2>2, <2>3 DEF ShutTypeOK
<1>. QED
  BY <1>1, <1>2, <1>3, <1>4 DEF ControlTypeOK

LEMMA LifeNext == LifeTypeOK /\ [Next]_vars => LifeTypeOK'
<1>. SUFFICES ASSUME LifeTypeOK, [Next]_vars
              PROVE  LifeTypeOK'
  OBVIOUS
<1>. USE DEF LifeTypeOK, Threads, Stoppers
<1>1. CASE MainStep
  BY <1>1 DEF MainStep, CreateServer, TestServing, RemoveDead, KeepAlive, EndTick,
              StopNetwork, JoinNetwork, ReturnFromMain, life, registry
<1>2. CASE BeginTick \/ NetStep \/ PushPlayer
  BY <1>2 DEF BeginTick, NetStep, StartPlayer, EndNetwork, PushPlayer, life, registry
<1>3. CASE ConStep \/ TakeSnapshot \/ KickNext
  BY <1>3 DEF ConStep, NoServer, ListNext, Stop, CommandDone, TakeSnapshot, KickNext,
              life, registry
<1>4. CASE SignalStep
  BY <1>4 DEF SignalStep, SignalCleanup, SignalExit, life, registry
<1>5. CASE \E x \in Stoppers : ShutdownKick(x) \/ ShutdownStep(x)
  BY <1>5 DEF ShutdownKick, ShutdownStep, ShutdownFlag, ShutdownIo, life, registry
<1>6. CASE Outside
  BY <1>6 DEF Outside, NewPlayer, GetLine, Disconnect, Interrupt, life, registry
<1>7. CASE UNCHANGED vars
  BY <1>7 DEF vars, life, registry
<1>. QED
  BY <1>1, <1>2, <1>3, <1>4, <1>5, <1>6, <1>7 DEF Next

LEMMA PcNext == PcTypeOK /\ [Next]_vars => PcTypeOK'
<1>. SUFFICES ASSUME PcTypeOK, [Next]_vars
              PROVE  PcTypeOK'
  OBVIOUS
<1>. USE ServerAssumption DEF PcTypeOK, Threads
\* A thread moves to a place of its own.
<1>1. ASSUME NEW l, Goto(Main, l), UNCHANGED command,
             l \in {"create", "loop", "tick", "scan", "stopIo", "join", "return"}
      PROVE  PcTypeOK'
  BY <1>1 DEF Goto
<1>2. ASSUME NEW l, Goto(Net, l), UNCHANGED command,
             l \in {"off", "idle", "push", "start", "ended"}
      PROVE  PcTypeOK'
  BY <1>2 DEF Goto
<1>3. ASSUME NEW l, Goto(Con, l),
             l \in {"getline", "snapshot"} \cup Commands,
             l = "snapshot" => command' \in Commands
      PROVE  PcTypeOK'
  BY <1>3 DEF Goto
<1>4. CASE CreateServer
  BY <1>4 DEF CreateServer, console
<1>5. CASE TestServing
  <2>1. PICK l \in {"tick", "stopIo"} : Goto(Main, l)
    BY <1>5 DEF TestServing
  <2>. QED
    BY <1>1, <1>5, <2>1 DEF TestServing, console
<1>6. CASE BeginTick \/ EndTick \/ StopNetwork \/ JoinNetwork
  BY <1>1, <1>6 DEF BeginTick, EndTick, StopNetwork, JoinNetwork, console
<1>7. CASE \/ StartPlayer \/ EndNetwork \/ PushPlayer \/ NewPlayer
  BY <1>2, <1>7 DEF StartPlayer, EndNetwork, PushPlayer, NewPlayer, console
<1>8. CASE GetLine
  BY <1>3, <1>8 DEF GetLine
<1>9. CASE TakeSnapshot
  <2>1. command \in Commands /\ UNCHANGED command /\ Goto(Con, command)
    BY <1>9 DEF TakeSnapshot, At
  <2>. QED
    BY <1>3, <2>1
<1>10. CASE CommandDone
  BY <1>3, <1>10 DEF CommandDone
<1>11. CASE \/ RemoveDead \/ KeepAlive \/ ReturnFromMain
            \/ NoServer \/ ListNext \/ Stop \/ KickNext \/ SignalStep
            \/ (\E x \in Stoppers : ShutdownKick(x) \/ ShutdownStep(x))
            \/ (\E c \in Conns : Disconnect(c))
            \/ (\E t \in Threads : Interrupt(t))
            \/ UNCHANGED vars
  <2>1. UNCHANGED <<pc, command>>
    BY <1>11
    DEF RemoveDead, KeepAlive, ReturnFromMain, NoServer, ListNext, Stop, KickNext,
        SignalStep, SignalCleanup, SignalExit, ShutdownKick, ShutdownStep,
        ShutdownFlag, ShutdownIo, Disconnect, Interrupt, vars, console
  <2>. QED
    BY <2>1
<1>. QED
  BY <1>4, <1>5, <1>6, <1>7, <1>8, <1>9, <1>10, <1>11
  DEF Next, MainStep, NetStep, ConStep, Outside

LEMMA ConsoleNext ==
  RegistryInv /\ ConsoleTypeOK /\ [Next]_vars => ConsoleTypeOK'
<1>. SUFFICES ASSUME RegistryInv, ConsoleTypeOK, [Next]_vars
              PROVE  ConsoleTypeOK'
  OBVIOUS
<1>. USE ServerAssumption DEF ConsoleTypeOK
<1>1. CASE NewPlayer
  BY <1>1 DEF NewPlayer, console
<1>2. CASE GetLine
  <2>1. typed' \in 0..MaxCommands
    BY <1>2 DEF GetLine
  <2>. QED
    BY <1>2, <2>1 DEF GetLine, accepts
<1>3. CASE TakeSnapshot
  <2>. DEFINE Pointers == [ptr : Addresses, was : Conns]
  <2>1. /\ snapshot' = [i \in DOMAIN players |->
                          [ptr |-> players[i], was |-> heap[players[i]]]]
        /\ UNCHANGED <<accepts, listening, typed>>
    BY <1>3 DEF TakeSnapshot
  <2>2. \A i \in 1..Len(players) :
          [ptr |-> players[i], was |-> heap[players[i]]] \in Pointers
    BY ListedPlayers
  <2>3. snapshot' \in [1..Len(players) -> Pointers] /\ Len(players) \in Nat
    BY <2>1, <2>2, ListedPlayers
  <2>4. snapshot' \in Seq(Pointers)
    <3>. HIDE DEF Pointers
    <3>. QED
      BY <2>3, SeqDef
  <2>. QED
    BY <2>1, <2>4 DEF accepts
<1>4. CASE ListNext \/ KickNext
  <2>1. /\ snapshot # <<>> /\ snapshot' = Tail(snapshot)
        /\ UNCHANGED <<accepts, listening, typed>>
    BY <1>4 DEF ListNext, KickNext
  <2>2. snapshot' \in Seq([ptr : Addresses, was : Conns])
    BY <2>1
  <2>. QED
    BY <2>1, <2>2 DEF accepts
<1>5. CASE Stop
  BY <1>5 DEF Stop, accepts
<1>6. CASE \/ MainStep \/ BeginTick \/ NetStep \/ PushPlayer
           \/ NoServer \/ CommandDone \/ SignalStep
           \/ (\E x \in Stoppers : ShutdownKick(x) \/ ShutdownStep(x))
           \/ (\E c \in Conns : Disconnect(c))
           \/ (\E t \in Threads : Interrupt(t))
           \/ UNCHANGED vars
  <2>1. UNCHANGED <<accepts, console>>
    BY <1>6
    DEF MainStep, CreateServer, TestServing, RemoveDead, KeepAlive, EndTick,
        StopNetwork, JoinNetwork, ReturnFromMain, BeginTick, NetStep, StartPlayer,
        EndNetwork, PushPlayer, NoServer, CommandDone, SignalStep, SignalCleanup,
        SignalExit, ShutdownKick, ShutdownStep, ShutdownFlag, ShutdownIo, Disconnect,
        Interrupt, vars
  <2>. QED
    BY <2>1 DEF accepts, console
<1>. QED
  BY <1>1, <1>2, <1>3, <1>4, <1>5, <1>6 DEF Next, ConStep, Outside

LEMMA ShutNext == ShutTypeOK /\ [Next]_vars => ShutTypeOK'
<1>. SUFFICES ASSUME ShutTypeOK, [Next]_vars
              PROVE  ShutTypeOK'
  OBVIOUS
<1>. USE ServerAssumption DEF ShutTypeOK
<1>1. ASSUME NEW x, NEW l \in {"none", "kick", "flag", "io", "done"},
             teardown' = [teardown EXCEPT ![x] = l],
             UNCHANGED <<signals, interrupted, leaf>>
      PROVE  ShutTypeOK'
  BY <1>1
<1>2. CASE Stop
  BY <1>1, <1>2 DEF Stop
<1>3. CASE SignalCleanup
  BY <1>1, <1>3 DEF SignalCleanup, ShutdownGoto
<1>4. CASE \E x \in Stoppers : ShutdownKick(x) \/ ShutdownStep(x)
  BY <1>1, <1>4 DEF ShutdownKick, ShutdownStep, ShutdownFlag, ShutdownIo, ShutdownGoto
<1>5. ASSUME NEW t \in Threads, Interrupt(t)
      PROVE  ShutTypeOK'
  <2>1. signals' \in 0..MaxSignals
    BY <1>5 DEF Interrupt
  <2>2. leaf' \in BOOLEAN
    BY <1>5 DEF Interrupt
  <2>. QED
    BY <1>5, <2>1, <2>2 DEF Interrupt
<1>6. CASE \/ MainStep \/ BeginTick \/ NetStep \/ PushPlayer
           \/ NoServer \/ ListNext \/ CommandDone \/ TakeSnapshot \/ KickNext
           \/ SignalExit \/ NewPlayer \/ GetLine
           \/ (\E c \in Conns : Disconnect(c))
           \/ UNCHANGED vars
  <2>1. UNCHANGED shut
    BY <1>6
    DEF MainStep, CreateServer, TestServing, RemoveDead, KeepAlive, EndTick,
        StopNetwork, JoinNetwork, ReturnFromMain, BeginTick, NetStep, StartPlayer,
        EndNetwork, PushPlayer, NoServer, ListNext, CommandDone, TakeSnapshot,
        KickNext, SignalExit, NewPlayer, GetLine, Disconnect, vars
  <2>. QED
    BY <2>1 DEF shut
<1>. QED
  BY <1>2, <1>3, <1>4, <1>5, <1>6 DEF Next, ConStep, SignalStep, Outside

\* Every member of the process and every local of its threads has its type: a
\* tick's index stays within the connections there can be, a snapshot only holds
\* addresses with the Player that was there, never an empty place, and the
\* console only runs commands that are typed.
\* Code: VanillaMinecraftServer's members, tick, CommandListener, shutdown.
THEOREM ServerTypeCorrect == Spec => []TypeOK
<1>. DEFINE TypeInv == RosterInv /\ TickInv /\ ControlTypeOK
<1>1. Init => TypeInv
  BY RosterInit, TickInit, ControlInit
<1>2. TypeInv /\ [Next]_vars => TypeInv'
  <2>1. ASSUME RosterInv, TickInv, ControlTypeOK, [Next]_vars
        PROVE  TypeInv'
    BY <2>1, RosterNext, TickNext, LifeNext, PcNext, ConsoleNext, ShutNext
    DEF RosterInv, ControlTypeOK
  <2>. QED
    BY <2>1
<1>3. TypeInv => TypeOK
  BY DEF TypeOK, RosterInv, RegistryInv, RegistryTypeOK, TickInv, ControlTypeOK,
         LifeTypeOK, PcTypeOK, ConsoleTypeOK, ShutTypeOK
<1>. HIDE DEF TypeInv
<1>. QED
  BY <1>1, <1>2, <1>3, PTL DEF Spec
=============================================================================
