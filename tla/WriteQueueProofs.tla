-------------------------- MODULE WriteQueueProofs --------------------------
(***************************************************************************)
(* Theorems about the sending half of a connection.                        *)
(***************************************************************************)
EXTENDS WriteQueue, SequenceTheorems, TLAPS

(***************************************************************************)
(* The three operators on sequences the actions are built from.            *)
(***************************************************************************)

\* Tear changes nothing of a write but its flag torn.
LEMMA TearShape ==
  ASSUME inflight \in Seq(Writes), Tear
  PROVE  /\ inflight' \in Seq(Writes)
         /\ Len(inflight') = Len(inflight)
         /\ \A i \in 1..Len(inflight) :
              /\ inflight'[i].data = inflight[i].data
              /\ inflight'[i].state = inflight[i].state
<1>1. DOMAIN inflight = 1..Len(inflight) /\ Len(inflight) \in Nat
  OBVIOUS
<1>2. inflight' = [i \in 1..Len(inflight) |->
                     [inflight[i] EXCEPT !.torn = @ \/ inflight[i].state = "posted"]]
  BY <1>1 DEF Tear
<1>3. ASSUME NEW i \in 1..Len(inflight)
      PROVE  /\ [inflight[i] EXCEPT !.torn = @ \/ inflight[i].state = "posted"] \in Writes
             /\ [inflight[i] EXCEPT !.torn = @ \/ inflight[i].state = "posted"].data
                  = inflight[i].data
             /\ [inflight[i] EXCEPT !.torn = @ \/ inflight[i].state = "posted"].state
                  = inflight[i].state
  <2>1. inflight[i] \in Writes
    OBVIOUS
  <2> QED
    BY <2>1 DEF Writes
<1>4. inflight' \in [1..Len(inflight) -> Writes]
  BY <1>2, <1>3
<1>5. inflight' \in Seq(Writes) /\ Len(inflight') = Len(inflight)
  BY <1>1, <1>4, SeqDef
<1> QED
  BY <1>2, <1>3, <1>5

\* Encrypting a buffer keeps its packets and counts one more encryption.
LEMMA EncryptShape ==
  ASSUME NEW buf \in Seq(Entries)
  PROVE  /\ EncryptAll(buf) \in Seq(Entries)
         /\ Len(EncryptAll(buf)) = Len(buf)
         /\ \A i \in 1..Len(buf) :
              EncryptAll(buf)[i] = [id |-> buf[i].id, enc |-> buf[i].enc + 1]
<1>1. DOMAIN buf = 1..Len(buf) /\ Len(buf) \in Nat
  OBVIOUS
<1>2. ASSUME NEW i \in 1..Len(buf)
      PROVE  /\ [buf[i] EXCEPT !.enc = @ + 1] \in Entries
             /\ [buf[i] EXCEPT !.enc = @ + 1]
                  = [id |-> buf[i].id, enc |-> buf[i].enc + 1]
  <2>1. buf[i] \in Entries
    OBVIOUS
  <2> QED
    BY <2>1 DEF Entries
<1>3. EncryptAll(buf) = [i \in 1..Len(buf) |-> [buf[i] EXCEPT !.enc = @ + 1]]
  BY <1>1 DEF EncryptAll
<1>4. EncryptAll(buf) \in [1..Len(buf) -> Entries]
  BY <1>2, <1>3
<1>5. EncryptAll(buf) \in Seq(Entries) /\ Len(EncryptAll(buf)) = Len(buf)
  BY <1>1, <1>4, SeqDef
<1> QED
  BY <1>2, <1>3, <1>5

\* Settling a write changes nothing of it but its state.
LEMMA SettleShape ==
  ASSUME inflight \in Seq(Writes), NEW i \in 1..Len(inflight),
         NEW st \in {"posted", "sent", "failed"}, Settle(i, st)
  PROVE  /\ inflight' \in Seq(Writes)
         /\ Len(inflight') = Len(inflight)
         /\ inflight'[i].state = st
         /\ inflight'[i].data = inflight[i].data
         /\ inflight'[i].torn = inflight[i].torn
         /\ \A j \in 1..Len(inflight) : j # i => inflight'[j] = inflight[j]
<1> DEFINE w == [inflight[i] EXCEPT !.state = st]
<1>1. w \in Writes
  <2>1. inflight[i] \in Writes
    OBVIOUS
  <2> QED
    BY <2>1 DEF Writes
<1>2. inflight' = [inflight EXCEPT ![i] = w]
  BY DEF Settle
<1> HIDE DEF w
<1>3. /\ inflight' \in Seq(Writes)
      /\ Len(inflight') = Len(inflight)
      /\ \A j \in 1..Len(inflight) :
           inflight'[j] = IF j = i THEN w ELSE inflight[j]
  BY <1>1, <1>2, ExceptSeq
<1>4. w.state = st /\ w.data = inflight[i].data /\ w.torn = inflight[i].torn
  <2>1. inflight[i] \in Writes
    OBVIOUS
  <2> QED
    BY <2>1 DEF Writes, w
<1> QED
  BY <1>3, <1>4

\* The two parts Without puts together.
LEMMA PartsShape ==
  ASSUME NEW S, NEW s \in Seq(S), NEW i \in 1..Len(s)
  PROVE  /\ SubSeq(s, 1, i - 1) \in Seq(S)
         /\ Len(SubSeq(s, 1, i - 1)) = i - 1
         /\ \A j \in 1..(i - 1) : SubSeq(s, 1, i - 1)[j] = s[j]
         /\ SubSeq(s, i + 1, Len(s)) \in Seq(S)
         /\ Len(SubSeq(s, i + 1, Len(s))) = Len(s) - i
         /\ \A j \in 1..(Len(s) - i) : SubSeq(s, i + 1, Len(s))[j] = s[i + j]
<1>1. Len(s) \in Nat /\ \A j \in 1..Len(s) : s[j] \in S
  BY ElementOfSeq, LenProperties
<1>2. /\ SubSeq(s, 1, i - 1) \in Seq(S)
      /\ Len(SubSeq(s, 1, i - 1)) = i - 1
      /\ \A j \in 1..(i - 1) : SubSeq(s, 1, i - 1)[j] = s[j]
  <2>1. \A j \in 1..(i - 1) : s[j] \in S
    BY <1>1
  <2>2. /\ SubSeq(s, 1, i - 1) \in Seq(S)
        /\ Len(SubSeq(s, 1, i - 1)) = IF 1 <= i - 1 THEN (i - 1) - 1 + 1 ELSE 0
        /\ \A j \in 1..((i - 1) - 1 + 1) : SubSeq(s, 1, i - 1)[j] = s[1 + j - 1]
    BY <1>1, <2>1, SubSeqProperties
  <2> QED
    BY <1>1, <2>2
<1>3. /\ SubSeq(s, i + 1, Len(s)) \in Seq(S)
      /\ Len(SubSeq(s, i + 1, Len(s))) = Len(s) - i
      /\ \A j \in 1..(Len(s) - i) : SubSeq(s, i + 1, Len(s))[j] = s[i + j]
  <2>1. \A j \in (i + 1)..Len(s) : s[j] \in S
    BY <1>1
  <2>2. /\ SubSeq(s, i + 1, Len(s)) \in Seq(S)
        /\ Len(SubSeq(s, i + 1, Len(s)))
             = IF i + 1 <= Len(s) THEN Len(s) - (i + 1) + 1 ELSE 0
        /\ \A j \in 1..(Len(s) - (i + 1) + 1) :
             SubSeq(s, i + 1, Len(s))[j] = s[(i + 1) + j - 1]
    BY <1>1, <2>1, SubSeqProperties
  <2> QED
    BY <1>1, <2>2
<1> QED
  BY <1>2, <1>3

\* Removing the i-th element leaves the others.
LEMMA WithoutShape ==
  ASSUME NEW S, NEW s \in Seq(S), NEW i \in 1..Len(s)
  PROVE  /\ Without(s, i) \in Seq(S)
         /\ Len(Without(s, i)) = Len(s) - 1
         /\ \A j \in 1..(Len(s) - 1) :
              Without(s, i)[j] = IF j < i THEN s[j] ELSE s[j + 1]
<1>1. ASSUME NEW a \in Seq(S), NEW b \in Seq(S),
             Len(a) = i - 1, \A j \in 1..(i - 1) : a[j] = s[j],
             Len(b) = Len(s) - i, \A j \in 1..(Len(s) - i) : b[j] = s[i + j]
      PROVE  /\ a \o b \in Seq(S) /\ Len(a \o b) = Len(s) - 1
             /\ \A j \in 1..(Len(s) - 1) :
                  (a \o b)[j] = IF j < i THEN s[j] ELSE s[j + 1]
  <2>1. /\ a \o b \in Seq(S)
        /\ Len(a \o b) = Len(a) + Len(b)
        /\ \A j \in 1..(Len(a) + Len(b)) :
             (a \o b)[j] = IF j <= Len(a) THEN a[j] ELSE b[j - Len(a)]
    BY ConcatProperties
  <2>2. Len(s) \in Nat
    BY LenProperties
  <2>3. ASSUME NEW j \in 1..(Len(s) - 1)
        PROVE  (a \o b)[j] = IF j < i THEN s[j] ELSE s[j + 1]
    <3>1. CASE j < i
      BY <1>1, <2>1, <2>2, <3>1
    <3>2. CASE ~(j < i)
      <4>1. j - (i - 1) \in 1..(Len(s) - i) /\ i + (j - (i - 1)) = j + 1
        BY <2>2, <3>2
      <4>2. b[j - (i - 1)] = s[j + 1]
        BY <1>1, <4>1
      <4> QED
        BY <1>1, <2>1, <2>2, <3>2, <4>2
    <3> QED
      BY <3>1, <3>2
  <2> QED
    BY <1>1, <2>1, <2>2, <2>3
<1> DEFINE before == SubSeq(s, 1, i - 1)
           after == SubSeq(s, i + 1, Len(s))
<1>2. Without(s, i) = before \o after
  BY DEF Without
<1>3. /\ before \in Seq(S) /\ after \in Seq(S)
      /\ Len(before) = i - 1 /\ \A j \in 1..(i - 1) : before[j] = s[j]
      /\ Len(after) = Len(s) - i /\ \A j \in 1..(Len(s) - i) : after[j] = s[i + j]
  BY PartsShape
<1> HIDE DEF before, after
<1>4. /\ before \o after \in Seq(S)
      /\ Len(before \o after) = Len(s) - 1
      /\ \A j \in 1..(Len(s) - 1) :
           (before \o after)[j] = IF j < i THEN s[j] ELSE s[j + 1]
  BY ONLY <1>1, <1>3, Zenon
<1> QED
  BY <1>2, <1>4

(***************************************************************************)
(* Type correctness.                                                       *)
(***************************************************************************)

LEMMA TypeInit == WriteInit => TypeOK
<1> SUFFICES ASSUME WriteInit PROVE TypeOK
  OBVIOUS
<1>1. \A S : <<>> \in Seq(S)
  BY EmptySeq
<1>2. wpc \in [Threads -> WriteLabels \cup DoneLabels]
  BY DEF WriteInit, WriteLabels
<1>3. \A t \in Threads \ {Net} : wpc[t] \in WriteLabels
  BY DEF WriteInit, WriteLabels
<1> QED
  BY <1>1, <1>2, <1>3 DEF WriteInit, TypeOK

\* A thread that moves to a label it may be at keeps wpc well typed.
LEMMA TypeNext == TypeOK /\ [WriteNext]_writeVars => TypeOK'
<1> SUFFICES ASSUME TypeOK, [WriteNext]_writeVars PROVE TypeOK'
  OBVIOUS
<1> USE WriteQueueAssumption DEF TypeOK, queueVars, Goto, At, WriteLabels, DoneLabels
<1>1. ASSUME NEW t \in Threads, NEW k \in Kinds, Push(t, k) PROVE TypeOK'
  BY <1>1 DEF Push
<1>2. ASSUME NEW t \in Threads, Check(t) PROVE TypeOK'
  BY <1>2 DEF Check
<1>3. ASSUME NEW t \in Threads, Claim(t) PROVE TypeOK'
  BY <1>3 DEF Claim
<1>4. ASSUME NEW t \in Threads, LockQueue(t) PROVE TypeOK'
  BY <1>4 DEF LockQueue
<1>5. ASSUME NEW t \in Threads, Serialise(t) PROVE TypeOK'
  <2>1. Head(queue) \in Nat
    BY <1>5 DEF Serialise
  <2>2. [id |-> Head(queue), enc |-> 0] \in Entries
    BY <2>1 DEF Entries
  <2>3. writeBuffer' \in Seq(Entries) /\ served' \in Seq(Nat)
    BY <1>5, <2>1, <2>2 DEF Serialise
  <2>4. inflight' \in Seq(Writes)
    BY <1>5, TearShape DEF Serialise
  <2> QED
    BY <1>5, <2>3, <2>4 DEF Serialise
<1>6. ASSUME NEW t \in Threads, UnlockQueue(t) PROVE TypeOK'
  BY <1>6 DEF UnlockQueue
<1>7. ASSUME NEW t \in Threads, Encrypt(t) PROVE TypeOK'
  <2>1. writeBuffer' \in Seq(Entries) /\ inflight' \in Seq(Writes)
    BY <1>7, TearShape, EncryptShape DEF Encrypt
  <2> QED
    BY <1>7, <2>1 DEF Encrypt
<1>8. ASSUME NEW t \in Threads, Post(t) PROVE TypeOK'
  <2>1. [data |-> writeBuffer, state |-> "posted", torn |-> FALSE] \in Writes
    BY DEF Writes
  <2>2. inflight' \in Seq(Writes)
    BY <1>8, <2>1 DEF Post
  <2> QED
    BY <1>8, <2>2 DEF Post
<1>9. ASSUME NEW i \in DOMAIN inflight, Transmit(i) PROVE TypeOK'
  <2>1. i \in 1..Len(inflight) /\ inflight[i] \in Writes
    OBVIOUS
  <2>2. inflight' \in Seq(Writes)
    BY <1>9, <2>1, SettleShape DEF Transmit
  <2>3. inflight[i].data \in Seq(Entries) /\ Garbage \in Entries
    BY <2>1 DEF Writes, Garbage, Entries
  <2>4. wire' \in Seq(Entries)
    <3>1. CASE wire' = wire \o inflight[i].data
      BY <2>3, <3>1, ConcatProperties
    <3>2. CASE wire' = Append(wire, Garbage)
      BY <2>3, <3>2, AppendProperties
    <3> QED
      BY <1>9, <3>1, <3>2 DEF Transmit
  <2> QED
    BY <1>9, <2>2, <2>4 DEF Transmit
<1>10. ASSUME NEW i \in DOMAIN inflight, Fail(i) PROVE TypeOK'
  <2>1. i \in 1..Len(inflight)
    OBVIOUS
  <2>2. inflight' \in Seq(Writes)
    BY <1>10, <2>1, SettleShape DEF Fail
  <2> QED
    BY <1>10, <2>2 DEF Fail
<1>11. ASSUME NEW i \in DOMAIN inflight, WriteDone(i) PROVE TypeOK'
  <2>1. i \in 1..Len(inflight) /\ inflight' = Without(inflight, i)
    BY <1>11, LenProperties DEF WriteDone
  <2>2. Without(inflight, i) \in Seq(Writes)
    BY <2>1, WithoutShape
  <2> QED
    BY <1>11, <2>1, <2>2 DEF WriteDone
<1>12. CASE ClearWritten
  BY <1>12, TearShape DEF ClearWritten
<1>13. CASE KeepWritten \/ CloseSocket \/ StayOpen
  BY <1>13 DEF KeepWritten, CloseSocket, StayOpen
<1>14. CASE LosePeer \/ InstallCipher \/ Destroy
  BY <1>14 DEF LosePeer, InstallCipher, Destroy
<1>15. CASE UNCHANGED writeVars
  BY <1>15 DEF writeVars
<1>16. ASSUME NEW t \in Threads, Erase(t) PROVE TypeOK'
  <2>1. queue \in Seq(Nat) /\ queue # <<>>
    BY <1>16 DEF Erase
  <2> QED
    BY <1>16, <2>1 DEF Erase
<1> QED
  BY <1>1, <1>2, <1>3, <1>4, <1>5, <1>6, <1>7, <1>8, <1>9, <1>10, <1>11,
     <1>12, <1>13, <1>14, <1>15, <1>16
  DEF WriteNext, WriteStep, Handler, Transport

\* Type correctness, for any set of threads and any number of packets.
THEOREM TypeCorrect == WriteSpec => []TypeOK
<1>1. QED
  BY TypeInit, TypeNext, PTL DEF WriteSpec

(***************************************************************************)
(* Every packet is serialised once, in order, whatever the threads do.     *)
(***************************************************************************)

\* The types, said of lengths and elements.
LEMMA Shapes ==
  TypeOK =>
    /\ Len(added) \in Nat /\ Len(queue) \in Nat /\ Len(writeBuffer) \in Nat
    /\ Len(wire) \in Nat /\ Len(inflight) \in Nat
    /\ Len(served) \in Nat /\ DOMAIN served = 1..Len(served)
    /\ DOMAIN queue = 1..Len(queue) /\ DOMAIN writeBuffer = 1..Len(writeBuffer)
    /\ DOMAIN wire = 1..Len(wire) /\ DOMAIN inflight = 1..Len(inflight)
    /\ \A i \in DOMAIN queue : queue[i] \in Nat
    /\ \A i \in DOMAIN writeBuffer : writeBuffer[i].id \in Nat /\ writeBuffer[i].enc \in Nat
    /\ \A i \in DOMAIN wire : wire[i].id \in Nat /\ wire[i].enc \in Nat
    /\ \A i \in DOMAIN inflight :
         /\ inflight[i].data \in Seq(Entries)
         /\ DOMAIN inflight[i].data = 1..Len(inflight[i].data)
         /\ Len(inflight[i].data) \in Nat
         /\ \A j \in DOMAIN inflight[i].data : inflight[i].data[j].id \in Nat
<1> SUFFICES ASSUME TypeOK PROVE Shapes!2
  OBVIOUS
<1>1. /\ Len(added) \in Nat /\ Len(queue) \in Nat /\ Len(writeBuffer) \in Nat
      /\ Len(wire) \in Nat /\ Len(inflight) \in Nat
      /\ Len(served) \in Nat /\ DOMAIN served = 1..Len(served)
      /\ DOMAIN queue = 1..Len(queue) /\ DOMAIN writeBuffer = 1..Len(writeBuffer)
      /\ DOMAIN wire = 1..Len(wire) /\ DOMAIN inflight = 1..Len(inflight)
  BY LenProperties DEF TypeOK
<1>2. ASSUME NEW s \in Seq(Entries), NEW j \in DOMAIN s
      PROVE  s[j].id \in Nat /\ s[j].enc \in Nat
  <2>1. s[j] \in Entries
    OBVIOUS
  <2> QED
    BY <2>1 DEF Entries
<1>3. \A i \in DOMAIN queue : queue[i] \in Nat
  BY DEF TypeOK
<1>4. \A i \in DOMAIN writeBuffer : writeBuffer[i].id \in Nat /\ writeBuffer[i].enc \in Nat
  BY <1>2 DEF TypeOK
<1>5. \A i \in DOMAIN wire : wire[i].id \in Nat /\ wire[i].enc \in Nat
  BY <1>2 DEF TypeOK
<1>6. ASSUME NEW i \in DOMAIN inflight
      PROVE  /\ inflight[i].data \in Seq(Entries)
             /\ DOMAIN inflight[i].data = 1..Len(inflight[i].data)
             /\ Len(inflight[i].data) \in Nat
             /\ \A j \in DOMAIN inflight[i].data : inflight[i].data[j].id \in Nat
  <2>1. inflight[i] \in Writes
    BY DEF TypeOK
  <2>2. inflight[i].data \in Seq(Entries)
    BY <2>1 DEF Writes
  <2> QED
    BY <2>2, <1>2, LenProperties
<1> QED
  BY <1>1, <1>3, <1>4, <1>5, <1>6

\* The loop of start_write runs under queueMutex.
MutexInv == \A t \in Threads : wpc[t] \in {"drain", "erase"} <=> queueMutex = t

\* The packets serialised are those that left the queue, and the first one in
\* it while it is about to be erased.
ServedInv ==
  /\ Len(queue) <= Len(added)
  /\ \A i \in DOMAIN served : served[i] = i
  /\ \A i \in DOMAIN queue : queue[i] = Len(added) - Len(queue) + i
  /\ \A t \in Threads : At(t, "erase")
       => queue # <<>> /\ Len(served) = Len(added) - Len(queue) + 1
  /\ (\A t \in Threads : ~At(t, "erase")) => Len(served) = Len(added) - Len(queue)

OnceInv == TypeOK /\ MutexInv /\ ServedInv

LEMMA OnceInit == WriteInit => OnceInv
<1> SUFFICES ASSUME WriteInit PROVE OnceInv
  OBVIOUS
<1>1. TypeOK
  BY TypeInit
<1>2. MutexInv
  BY WriteQueueAssumption DEF WriteInit, MutexInv
<1> QED
  BY <1>1, <1>2 DEF WriteInit, OnceInv, ServedInv, At

\* A thread enters the loop only with the mutex, and leaves it giving it back.
LEMMA MutexNext == TypeOK /\ MutexInv /\ [WriteNext]_writeVars => MutexInv'
<1> SUFFICES ASSUME TypeOK, MutexInv, [WriteNext]_writeVars PROVE MutexInv'
  OBVIOUS
<1>w. /\ wpc \in [Threads -> WriteLabels \cup DoneLabels]
      /\ Net \in Threads /\ NoThread \notin Threads
  BY WriteQueueAssumption DEF TypeOK
\* A step that neither enters nor leaves the loop.
<1>k. ASSUME NEW t \in Threads, NEW l, Goto(t, l), UNCHANGED queueMutex,
             wpc[t] \in {"drain", "erase"} <=> l \in {"drain", "erase"}
      PROVE  MutexInv'
  BY <1>k, <1>w DEF MutexInv, Goto
<1>1. ASSUME NEW t \in Threads, NEW k \in Kinds, Push(t, k) PROVE MutexInv'
  BY <1>1, <1>k DEF Push, At
<1>2. ASSUME NEW t \in Threads, Check(t) PROVE MutexInv'
  BY <1>2, <1>w DEF Check, At, Goto, queueVars, MutexInv
<1>3. ASSUME NEW t \in Threads, Claim(t) \/ Encrypt(t) \/ Post(t) PROVE MutexInv'
  BY <1>3, <1>k DEF Claim, Encrypt, Post, At, queueVars
<1>4. ASSUME NEW t \in Threads, LockQueue(t) PROVE MutexInv'
  BY <1>4, <1>w DEF LockQueue, At, Goto, MutexInv
<1>5. ASSUME NEW t \in Threads, UnlockQueue(t) PROVE MutexInv'
  BY <1>5, <1>w DEF UnlockQueue, At, Goto, MutexInv
<1>6. ASSUME NEW t \in Threads, Serialise(t) \/ Erase(t) PROVE MutexInv'
  BY <1>6, <1>k DEF Serialise, Erase, At
<1>7. ASSUME NEW i \in DOMAIN inflight, WriteDone(i) PROVE MutexInv'
  BY <1>7, <1>w DEF WriteDone, At, Goto, queueVars, MutexInv
<1>8. CASE ClearWritten \/ KeepWritten \/ CloseSocket \/ StayOpen
  BY <1>8, <1>w DEF ClearWritten, KeepWritten, CloseSocket, StayOpen, At, Goto,
                    queueVars, MutexInv
<1>9. CASE Transport \/ InstallCipher \/ Destroy \/ UNCHANGED writeVars
  BY <1>9 DEF Transport, Transmit, Fail, LosePeer, InstallCipher, Destroy,
              writeVars, queueVars, MutexInv
<1> QED
  BY <1>1, <1>2, <1>3, <1>4, <1>5, <1>6, <1>7, <1>8, <1>9
  DEF WriteNext, WriteStep, Handler

\* Only Push, Serialise and Erase change the queue or what was served.
LEMMA ServedNext == OnceInv /\ [WriteNext]_writeVars => ServedInv'
<1> SUFFICES ASSUME OnceInv, [WriteNext]_writeVars PROVE ServedInv'
  OBVIOUS
<1>t. TypeOK /\ TypeOK' /\ MutexInv /\ MutexInv' /\ ServedInv
  BY TypeNext, MutexNext DEF OnceInv
<1>a. Shapes!2 /\ Shapes!2'
  BY <1>t, Shapes, PTL
<1>s. /\ Len(added) \in Nat /\ Len(queue) \in Nat /\ Len(served) \in Nat
      /\ Len(queue') \in Nat /\ Len(served') \in Nat
      /\ DOMAIN queue = 1..Len(queue) /\ DOMAIN queue' = 1..Len(queue')
      /\ DOMAIN served = 1..Len(served) /\ DOMAIN served' = 1..Len(served')
      /\ added \in Seq(Kinds) /\ queue \in Seq(Nat) /\ served \in Seq(Nat)
  BY <1>a, <1>t DEF TypeOK
<1>i. /\ Len(queue) <= Len(added)
      /\ \A i \in 1..Len(served) : served[i] = i
      /\ \A i \in 1..Len(queue) : queue[i] = Len(added) - Len(queue) + i
  BY <1>t, <1>s DEF ServedInv
<1>w. wpc \in [Threads -> WriteLabels \cup DoneLabels] /\ Net \in Threads
  BY <1>t, WriteQueueAssumption DEF TypeOK
\* Only the holder of the mutex can be about to erase.
<1>m. ASSUME NEW t \in Threads, wpc[t] \in {"drain", "erase"}, NEW u \in Threads,
             At(u, "erase")
      PROVE  u = t
  BY <1>m, <1>t DEF MutexInv, At
<1>k. ASSUME UNCHANGED <<added, queue, served>>,
             \A t \in Threads : (wpc'[t] = "erase") <=> (wpc[t] = "erase")
      PROVE  ServedInv'
  BY <1>k, <1>t DEF ServedInv, At
<1>1. ASSUME NEW t \in Threads, NEW k \in Kinds, Push(t, k) PROVE ServedInv'
  <2>1. /\ Len(added') = Len(added) + 1 /\ Len(queue') = Len(queue) + 1
        /\ \A i \in 1..Len(queue) : queue'[i] = queue[i]
        /\ queue'[Len(queue) + 1] = Len(added) + 1 /\ queue' # <<>>
    <3>1. /\ added' = Append(added, k) /\ queue' = Append(queue, Len(added) + 1)
          /\ Len(added) + 1 \in Nat
      BY <1>1, <1>s DEF Push
    <3>2. Len(added') = Len(added) + 1
      BY <3>1, <1>s, AppendProperties
    <3> QED
      BY <3>1, <3>2, <1>s, AppendProperties
  <2>2. Len(added') - Len(queue') = Len(added) - Len(queue) /\ Len(queue') <= Len(added')
    BY <2>1, <1>s, <1>i
  <2>3. \A i \in 1..Len(queue') : queue'[i] = Len(added) - Len(queue) + i
    <3>1. \A i \in 1..Len(queue') : i \in 1..Len(queue) \/ i = Len(queue) + 1
      BY <2>1, <1>s
    <3>2. queue'[Len(queue) + 1] = Len(added) - Len(queue) + (Len(queue) + 1)
      BY <2>1, <1>s
    <3> QED
      BY <2>1, <3>1, <3>2, <1>i
  <2>4. \A u \in Threads : (wpc'[u] = "erase") <=> (wpc[u] = "erase")
    BY <1>1, <1>w DEF Push, Goto, At
  <2>5. UNCHANGED served
    BY <1>1 DEF Push
  <2> QED
    BY <2>1, <2>2, <2>3, <2>4, <2>5, <1>s, <1>t DEF ServedInv, At
<1>2. ASSUME NEW t \in Threads, Serialise(t) PROVE ServedInv'
  <2>1. /\ UNCHANGED <<added, queue>> /\ served' = Append(served, Head(queue))
        /\ queue # <<>> /\ Len(queue) > 0 /\ wpc[t] = "drain" /\ wpc'[t] = "erase"
    BY <1>2, <1>s, <1>w, EmptySeq DEF Serialise, At, Goto
  <2>2. Len(served) = Len(added) - Len(queue)
    <3>1. \A u \in Threads : ~At(u, "erase")
      BY <2>1, <1>m DEF At
    <3> QED
      BY <3>1, <1>t DEF ServedInv
  <2>3. Head(queue) = Len(served) + 1 /\ Head(queue) \in Nat
    <3>1. Head(queue) = queue[1] /\ 1 \in 1..Len(queue)
      BY <2>1, <1>s
    <3> QED
      BY <3>1, <2>2, <1>i, <1>s
  <2>4. /\ Len(served') = Len(served) + 1
        /\ \A i \in 1..Len(served) : served'[i] = served[i]
        /\ served'[Len(served) + 1] = Len(served) + 1
    BY <2>1, <2>3, <1>s, AppendProperties
  <2>5. \A i \in 1..Len(served') : served'[i] = i
    <3>1. \A i \in 1..Len(served') : i \in 1..Len(served) \/ i = Len(served) + 1
      BY <2>4, <1>s
    <3> QED
      BY <2>4, <3>1, <1>i
  <2> QED
    BY <2>1, <2>2, <2>4, <2>5, <1>i, <1>s DEF ServedInv, At
<1>3. ASSUME NEW t \in Threads, Erase(t) PROVE ServedInv'
  <2>1. /\ UNCHANGED <<added, served>> /\ queue # <<>> /\ wpc[t] = "erase"
        /\ queue' = Tail(queue) /\ Goto(t, "drain")
    BY <1>3 DEF Erase, At
  <2>2. /\ Len(queue') = Len(queue) - 1 /\ Len(queue) > 0
        /\ \A i \in 1..Len(queue') : queue'[i] = queue[i + 1]
    BY <2>1, <1>s, HeadTailProperties, EmptySeq
  <2>3. Len(served) = Len(added) - Len(queue) + 1
    BY <2>1, <1>t DEF ServedInv, At
  <2>4. \A u \in Threads : wpc'[u] # "erase"
    BY <2>1, <1>m, <1>w DEF At, Goto
  <2>5. \A i \in 1..Len(queue') : queue'[i] = Len(added) - Len(queue') + i
    <3> SUFFICES ASSUME NEW i \in 1..Len(queue')
                 PROVE  queue'[i] = Len(added) - Len(queue') + i
      OBVIOUS
    <3>1. i + 1 \in 1..Len(queue) /\ queue'[i] = queue[i + 1]
      BY <2>2, <1>s
    <3>2. queue[i + 1] = Len(added) - Len(queue) + (i + 1)
      BY <3>1, <1>i
    <3> QED
      BY <3>1, <3>2, <2>2, <1>s
  <2>6. Len(served') = Len(added') - Len(queue') /\ Len(queue') <= Len(added')
    BY <2>1, <2>2, <2>3, <1>i, <1>s
  <2>7. \A i \in DOMAIN served' : served'[i] = i
    BY <2>1, <1>i, <1>s
  <2>8. \A i \in DOMAIN queue' : queue'[i] = Len(added') - Len(queue') + i
    BY <2>1, <2>5, <1>s
  <2> QED
    BY <2>4, <2>6, <2>7, <2>8 DEF ServedInv, At
<1>4. ASSUME NEW t \in Threads,
             Check(t) \/ Claim(t) \/ LockQueue(t) \/ UnlockQueue(t) \/ Encrypt(t) \/ Post(t)
      PROVE  ServedInv'
  BY <1>4, <1>k, <1>w DEF Check, Claim, LockQueue, UnlockQueue, Encrypt, Post, At, Goto,
                          queueVars
<1>5. ASSUME NEW i \in DOMAIN inflight, WriteDone(i) PROVE ServedInv'
  BY <1>5, <1>k, <1>w DEF WriteDone, At, Goto, queueVars
<1>6. CASE ClearWritten \/ KeepWritten \/ CloseSocket \/ StayOpen
  BY <1>6, <1>k, <1>w DEF ClearWritten, KeepWritten, CloseSocket, StayOpen, At, Goto,
                          queueVars
<1>7. CASE Transport \/ InstallCipher \/ Destroy \/ UNCHANGED writeVars
  BY <1>7, <1>k DEF Transport, Transmit, Fail, LosePeer, InstallCipher, Destroy,
                    writeVars, queueVars
<1> QED
  BY <1>1, <1>2, <1>3, <1>4, <1>5, <1>6, <1>7 DEF WriteNext, WriteStep, Handler

LEMMA OnceNext == OnceInv /\ [WriteNext]_writeVars => OnceInv'
  BY TypeNext, MutexNext, ServedNext DEF OnceInv

\* However many threads add packets at once, each packet is serialised and
\* deleted exactly once, in the order of the queue: queueMutex is enough for
\* that, whatever becomes of isWriting.
THEOREM SerialisedOnce == WriteSpec => []OnceSerialised
<1>1. OnceInv => OnceSerialised
  <2> SUFFICES ASSUME OnceInv PROVE OnceSerialised
    OBVIOUS
  <2>1. Len(served) \in {Len(added) - Len(queue), Len(added) - Len(queue) + 1}
    BY DEF OnceInv, ServedInv
  <2> QED
    BY <2>1 DEF OnceInv, ServedInv, OnceSerialised
<1> QED
  BY <1>1, OnceInit, OnceNext, PTL DEF WriteSpec

(***************************************************************************)
(* The connection as a pipe, when only the network thread adds packets.    *)
(***************************************************************************)

\* isWriting is set exactly while a write is being built or is in flight, and
\* then there is one, whose data is the buffer.
OneWrite ==
  /\ Len(inflight) <= 1
  /\ isWriting <=> inflight # <<>> \/ wpc[Net] \in {"lock", "drain", "erase", "encrypt", "post"}
  /\ wpc[Net] \notin {"idle", "check"} => inflight = <<>>
  /\ \A i \in DOMAIN inflight :
       ~inflight[i].torn /\ (inflight[i].state = "posted" => inflight[i].data = writeBuffer)

\* What writeBuffer holds is on the wire already.
Delivered ==
  \/ \E i \in DOMAIN inflight : inflight[i].state = "sent"
  \/ wpc[Net] \in {"done", "doneEmpty", "mustClose"}

\* The wire, the buffer and the queue hold the packets added, in this order.
InOrder ==
  /\ \A i \in DOMAIN wire : wire[i].id = i
  /\ Len(wire) <= Len(served)
  /\ sock = "open" =>
       /\ \A i \in DOMAIN inflight : inflight[i].state # "failed"
       /\ Delivered => Len(served) = Len(wire)
       /\ ~Delivered => /\ Len(served) = Len(wire) + Len(writeBuffer)
                        /\ \A i \in DOMAIN writeBuffer :
                             writeBuffer[i].id = Len(wire) + i

PipeInv == OnceInv /\ OneWrite /\ InOrder

LEMMA PipeInit == WriteInit => PipeInv
<1> SUFFICES ASSUME WriteInit PROVE PipeInv
  OBVIOUS
<1>1. OnceInv
  BY OnceInit
<1> QED
  BY <1>1, WriteQueueAssumption
  DEF WriteInit, PipeInv, OneWrite, InOrder, Delivered, queueVars

\* Only Net adds packets: it claims the buffer when no write is in flight, and
\* its handlers run when it is not in start_write.
LEMMA OneWriteNext ==
  ASSUME Threads = {Net}, TypeOK, OneWrite, [WriteNext]_writeVars
  PROVE  OneWrite'
<1>t. TypeOK /\ TypeOK'
  BY TypeNext
<1>a. Shapes!2 /\ Shapes!2'
  BY <1>t, Shapes, PTL
<1>s. Shapes!2 /\ Shapes!2' /\ inflight \in Seq(Writes) /\ inflight' \in Seq(Writes)
  BY <1>t, <1>a DEF TypeOK
<1>w. /\ wpc \in [Threads -> WriteLabels \cup DoneLabels] /\ Net \in Threads
      /\ \A l : Goto(Net, l) => wpc'[Net] = l
      /\ \A t \in Threads : t = Net
  BY WriteQueueAssumption DEF TypeOK, Goto
<1>e. ASSUME NEW s \in Seq(Writes) PROVE s = <<>> <=> Len(s) = 0
  BY EmptySeq
<1>1. ASSUME NEW k \in Kinds, Push(Net, k) PROVE OneWrite'
  BY <1>1, <1>w DEF Push, OneWrite, At
<1>2. CASE Check(Net)
  BY <1>2, <1>w DEF Check, OneWrite, At
<1>3. CASE Claim(Net)
  BY <1>3, <1>w DEF Claim, OneWrite, At
<1>4. CASE LockQueue(Net) \/ Erase(Net) \/ UnlockQueue(Net)
  BY <1>4, <1>w DEF LockQueue, Erase, UnlockQueue, OneWrite, At
<1>5. CASE Serialise(Net) \/ Encrypt(Net) \/ ClearWritten
  <2>1. wpc[Net] \notin {"idle", "check"} /\ inflight = <<>> /\ UNCHANGED isWriting
    BY <1>5 DEF Serialise, Encrypt, ClearWritten, OneWrite, At
  <2>2. inflight' = <<>>
    <3>1. Tear \/ UNCHANGED inflight
      BY <1>5 DEF Serialise, Encrypt, ClearWritten
    <3>2. Len(inflight') = 0
      BY <2>1, <3>1, <1>s, <1>e, TearShape
    <3> QED
      BY <3>2, <1>s, <1>e
  <2>3. \/ wpc[Net] \in {"drain", "erase", "encrypt"} /\ wpc'[Net] \in {"erase", "post"}
        \/ wpc[Net] \in DoneLabels /\ wpc'[Net] \in DoneLabels
    BY <1>5, <1>w DEF Serialise, Encrypt, ClearWritten, At, DoneLabels
  <2> QED
    BY <2>1, <2>2, <2>3, <1>s DEF OneWrite, DoneLabels
<1>6. CASE Post(Net)
  <2> DEFINE w == [data |-> writeBuffer, state |-> "posted", torn |-> FALSE]
  <2>1. w \in Writes /\ w.data = writeBuffer /\ ~w.torn
    BY DEF Writes, TypeOK
  <2>2. inflight = <<>> /\ isWriting /\ inflight' = Append(inflight, w)
        /\ wpc'[Net] = "idle" /\ UNCHANGED <<isWriting, writeBuffer>>
    BY <1>6, <1>w DEF Post, OneWrite, At
  <2> HIDE DEF w
  <2>3. Len(inflight') = 1 /\ inflight'[1] = w
    BY <2>1, <2>2, <1>s, <1>e, AppendProperties
  <2> QED
    BY <2>1, <2>2, <2>3, <1>s DEF OneWrite
<1>7. ASSUME NEW i \in DOMAIN inflight, Transmit(i) \/ Fail(i) PROVE OneWrite'
  <2>1. /\ Len(inflight') = Len(inflight)
        /\ inflight'[i].state # "posted" /\ inflight'[i].torn = inflight[i].torn
        /\ \A j \in 1..Len(inflight) : j # i => inflight'[j] = inflight[j]
        /\ UNCHANGED <<isWriting, wpc, writeBuffer>>
    BY <1>7, <1>s, SettleShape DEF Transmit, Fail
  <2> QED
    BY <2>1, <1>s, <1>e DEF OneWrite
<1>8. ASSUME NEW i \in DOMAIN inflight, WriteDone(i) PROVE OneWrite'
  <2>1. Len(inflight') = Len(inflight) - 1
    BY <1>8, <1>s, WithoutShape DEF WriteDone
  <2>2. inflight' = <<>>
    BY <2>1, <1>s, <1>e DEF OneWrite
  <2>3. ~isWriting' /\ wpc'[Net] \in DoneLabels
    BY <1>8, <1>w DEF WriteDone, DoneLabels
  <2> QED
    BY <2>2, <2>3, <1>s DEF OneWrite, DoneLabels
<1>9. CASE KeepWritten \/ CloseSocket \/ StayOpen
  BY <1>9, <1>w DEF KeepWritten, CloseSocket, StayOpen, OneWrite, At
<1>10. CASE LosePeer \/ InstallCipher \/ Destroy \/ UNCHANGED writeVars
  BY <1>10 DEF LosePeer, InstallCipher, Destroy, writeVars, OneWrite
<1> QED
  BY <1>w, <1>1, <1>2, <1>3, <1>4, <1>5, <1>6, <1>7, <1>8, <1>9, <1>10
  DEF WriteNext, WriteStep, Handler, Transport

LEMMA InOrderNext ==
  ASSUME Threads = {Net}, PipeInv, OnceInv', OneWrite', [WriteNext]_writeVars
  PROVE  InOrder'
<1>t. TypeOK /\ TypeOK'
  BY DEF PipeInv, OnceInv
<1>s. Shapes!2 /\ Shapes!2'
  BY <1>t, Shapes, PTL
<1>l. /\ Len(wire) \in Nat /\ Len(writeBuffer) \in Nat /\ Len(inflight) \in Nat
      /\ DOMAIN inflight = 1..Len(inflight) /\ inflight \in Seq(Writes)
  BY <1>s, <1>t DEF TypeOK
<1>n. Len(served) \in Nat /\ ServedInv
  BY <1>s DEF PipeInv, OnceInv
<1>i. InOrder /\ OneWrite
  BY DEF PipeInv
<1>w. /\ \A l : Goto(Net, l) => wpc'[Net] = l
      /\ \A t \in Threads : t = Net
  BY <1>t, WriteQueueAssumption DEF TypeOK, Goto
\* A step that serialises and sends nothing, and does not reuse the buffer.
<1>k. ASSUME UNCHANGED <<wire, writeBuffer>>, Len(served') = Len(served),
             sock' = "open" => sock = "open", Delivered' <=> Delivered,
             sock = "open" => \A i \in DOMAIN inflight' : inflight'[i].state # "failed"
      PROVE  InOrder'
  BY <1>k, <1>i DEF InOrder
<1>1. ASSUME NEW k \in Kinds, Push(Net, k) PROVE InOrder'
  <2>1. Len(served') = Len(served)
    BY <1>1 DEF Push
  <2>2. Delivered' <=> Delivered
    BY <1>1, <1>w DEF Push, Delivered, At
  <2> QED
    BY <1>1, <1>k, <1>i, <2>1, <2>2 DEF Push, InOrder, queueVars
<1>2. CASE Check(Net) \/ Claim(Net) \/ LockQueue(Net) \/ Erase(Net) \/ UnlockQueue(Net)
  <2>1. Delivered' <=> Delivered
    BY <1>2, <1>w DEF Check, Claim, LockQueue, Erase, UnlockQueue, Delivered, At
  <2> QED
    BY <1>2, <1>k, <1>i, <2>1
    DEF Check, Claim, LockQueue, Erase, UnlockQueue, InOrder, queueVars
<1>3. CASE Serialise(Net)
  <2> DEFINE e == [id |-> Head(queue), enc |-> 0]
  <2>1. queue # <<>> /\ Head(queue) = queue[1] /\ 1 \in DOMAIN queue
    BY <1>3, <1>t, <1>s, EmptySeq DEF Serialise, TypeOK
  <2>2. Len(served') = Len(served) + 1 /\ Head(queue) = Len(served) + 1
    <3>1. \A t \in Threads : ~At(t, "erase")
      BY <1>3, <1>w DEF Serialise, At
    <3>2. Len(served) = Len(added) - Len(queue)
      BY <3>1, <1>n DEF ServedInv
    <3>3. queue[1] = Len(added) - Len(queue) + 1
      BY <2>1, <1>n DEF ServedInv
    <3>4. Head(queue) \in Nat /\ served \in Seq(Nat)
      BY <2>1, <1>t, <1>s DEF TypeOK
    <3>5. Len(served') = Len(served) + 1
      BY <1>3, <3>4, AppendProperties DEF Serialise
    <3> QED
      BY <2>1, <3>2, <3>3, <3>5, <1>s
  <2>3. e.id = Len(served) + 1 /\ e \in Entries
    BY <2>2, <1>n DEF Entries
  <2>4. writeBuffer' = Append(writeBuffer, e) /\ writeBuffer \in Seq(Entries)
    BY <1>3, <1>t DEF Serialise, TypeOK
  <2> HIDE DEF e
  <2>5. /\ Len(writeBuffer') = Len(writeBuffer) + 1
        /\ \A i \in 1..Len(writeBuffer) : writeBuffer'[i] = writeBuffer[i]
        /\ writeBuffer'[Len(writeBuffer) + 1] = e
    BY <2>3, <2>4, AppendProperties
  <2>6. inflight = <<>> /\ inflight' = <<>> /\ ~Delivered /\ ~Delivered'
    <3>1. wpc[Net] = "drain" /\ wpc'[Net] = "erase"
      BY <1>3, <1>w DEF Serialise, At
    <3>2. inflight = <<>> /\ inflight' = <<>>
      BY <3>1, <1>i DEF PipeInv, OneWrite
    <3> QED
      BY <3>1, <3>2 DEF Delivered
  <2>7. UNCHANGED <<wire, sock>>
    BY <1>3 DEF Serialise
  <2>8. ASSUME sock = "open"
        PROVE  /\ Len(served') = Len(wire') + Len(writeBuffer')
               /\ \A i \in DOMAIN writeBuffer' : writeBuffer'[i].id = Len(wire') + i
    <3>1. /\ Len(served) = Len(wire) + Len(writeBuffer)
          /\ \A i \in 1..Len(writeBuffer) : writeBuffer[i].id = Len(wire) + i
      BY <2>8, <2>6, <1>i, <1>s DEF InOrder
    <3>2. Len(served') = Len(wire') + Len(writeBuffer')
      BY <3>1, <2>2, <2>5, <2>7, <1>s
    <3>3. ASSUME NEW i \in 1..(Len(writeBuffer) + 1)
          PROVE  writeBuffer'[i].id = Len(wire) + i
      <4>1. CASE i \in 1..Len(writeBuffer)
        BY <4>1, <3>1, <2>5
      <4>2. CASE i = Len(writeBuffer) + 1
        BY <4>2, <3>1, <2>3, <2>5, <1>s
      <4> QED
        BY <4>1, <4>2, <1>l
    <3> QED
      BY <3>2, <3>3, <2>5, <2>7, <1>s
  <2>9. Len(wire') <= Len(served') /\ \A i \in DOMAIN wire' : wire'[i].id = i
    BY <2>2, <2>7, <1>i, <1>n, <1>l DEF InOrder
  <2> QED
    BY <2>6, <2>7, <2>8, <2>9 DEF InOrder
<1>4. CASE Encrypt(Net)
  <2>1. wpc[Net] = "encrypt" /\ wpc'[Net] = "post"
    BY <1>4, <1>w DEF Encrypt, At
  <2>2. inflight = <<>> /\ inflight' = <<>>
    BY <2>1, <1>i DEF OneWrite
  <2>3. ~Delivered /\ ~Delivered' /\ Len(served') = Len(served) /\ UNCHANGED <<wire, sock>>
    BY <1>4, <2>1, <2>2 DEF Delivered, queueVars, Encrypt
  <2>4. /\ Len(writeBuffer') = Len(writeBuffer)
        /\ \A i \in 1..Len(writeBuffer) : writeBuffer'[i].id = writeBuffer[i].id
    <3>1. CASE cipher
      <4>1. writeBuffer' = EncryptAll(writeBuffer) /\ writeBuffer \in Seq(Entries)
        BY <1>4, <1>t, <3>1 DEF Encrypt, TypeOK
      <4>2. ASSUME NEW i \in 1..Len(writeBuffer)
            PROVE  writeBuffer'[i].id = writeBuffer[i].id
        <5>1. writeBuffer'[i] = [id |-> writeBuffer[i].id, enc |-> writeBuffer[i].enc + 1]
          BY <4>1, EncryptShape
        <5> QED
          BY <5>1
      <4>3. Len(writeBuffer') = Len(writeBuffer)
        BY <4>1, EncryptShape
      <4> QED
        BY <4>2, <4>3
    <3>2. CASE ~cipher
      BY <1>4, <3>2 DEF Encrypt
    <3> QED
      BY <3>1, <3>2
  <2> QED
    BY <2>2, <2>3, <2>4, <1>i, <1>s DEF InOrder
<1>5. CASE Post(Net)
  <2> DEFINE w == [data |-> writeBuffer, state |-> "posted", torn |-> FALSE]
  <2>1. w \in Writes /\ w.state = "posted"
    BY <1>t DEF Writes, TypeOK
  <2>2. /\ inflight = <<>> /\ inflight \in Seq(Writes) /\ inflight' = Append(inflight, w)
        /\ wpc[Net] = "post" /\ wpc'[Net] = "idle"
    BY <1>5, <1>i, <1>t, <1>w DEF Post, OneWrite, At, TypeOK
  <2> HIDE DEF w
  <2>3. Len(inflight') = 1 /\ inflight'[1] = w
    BY <2>1, <2>2, EmptySeq, AppendProperties
  <2>4. \A i \in DOMAIN inflight' : inflight'[i].state = "posted"
    BY <2>1, <2>3, <1>s
  <2>5. ~Delivered /\ ~Delivered'
    BY <2>2, <2>4 DEF Delivered
  <2> QED
    BY <1>5, <1>k, <2>4, <2>5 DEF Post, queueVars
<1>6. ASSUME NEW i \in DOMAIN inflight, Transmit(i) PROVE InOrder'
  <2>1. /\ i = 1 /\ Len(inflight) = 1 /\ inflight # <<>>
        /\ inflight[i].data = writeBuffer /\ ~inflight[i].torn
    <3>1. inflight # <<>>
      BY <1>l, EmptySeq
    <3>2. Len(inflight) = 1 /\ i = 1
      BY <1>l, <1>i DEF OneWrite
    <3> QED
      BY <1>6, <1>i, <3>1, <3>2 DEF OneWrite, Transmit
  <2>2. sock = "open" /\ sock' = "open" /\ UNCHANGED <<writeBuffer, wpc>> /\ Len(served') = Len(served)
    BY <1>6 DEF Transmit, queueVars
  <2>3. ~Delivered
    <3>1. wpc[Net] \in {"idle", "check"}
      BY <2>1, <1>i DEF OneWrite
    <3>2. \A j \in DOMAIN inflight : inflight[j].state = "posted"
      BY <1>6, <2>1, <1>l DEF Transmit
    <3> QED
      BY <3>1, <3>2 DEF Delivered
  <2>4. /\ Len(inflight') = 1 /\ inflight'[1].state = "sent"
    BY <1>6, <2>1, <1>t, <1>s, SettleShape DEF Transmit, TypeOK
  <2>5. Delivered' /\ \A j \in DOMAIN inflight' : inflight'[j].state # "failed"
    BY <2>4, <1>s DEF Delivered
  <2>6. /\ Len(served) = Len(wire) + Len(writeBuffer)
        /\ \A j \in 1..Len(writeBuffer) : writeBuffer[j].id = Len(wire) + j
        /\ \A j \in 1..Len(wire) : wire[j].id = j
    BY <2>2, <2>3, <1>i, <1>s DEF InOrder
  <2>7. /\ Len(wire') = Len(wire) + Len(writeBuffer)
        /\ \A j \in 1..(Len(wire) + Len(writeBuffer)) :
             wire'[j] = IF j <= Len(wire) THEN wire[j] ELSE writeBuffer[j - Len(wire)]
    BY <1>6, <2>1, <1>t, ConcatProperties DEF Transmit, TypeOK
  <2>8. ASSUME NEW j \in 1..(Len(wire) + Len(writeBuffer)) PROVE wire'[j].id = j
    <3>1. CASE j <= Len(wire)
      BY <3>1, <2>6, <2>7, <1>s
    <3>2. CASE ~(j <= Len(wire))
      <4>1. j - Len(wire) \in 1..Len(writeBuffer) /\ Len(wire) + (j - Len(wire)) = j
        BY <3>2, <1>s
      <4> QED
        BY <3>2, <4>1, <2>6, <2>7
    <3> QED
      BY <3>1, <3>2
  <2> QED
    BY <2>2, <2>5, <2>6, <2>7, <2>8, <1>s, <1>n DEF InOrder
<1>7. ASSUME NEW i \in DOMAIN inflight, Fail(i) PROVE InOrder'
  <2>1. UNCHANGED <<wire, sock, served>> /\ sock # "open"
    BY <1>7 DEF Fail, queueVars
  <2> QED
    BY <2>1, <1>i DEF InOrder, queueVars
<1>8. ASSUME NEW i \in DOMAIN inflight, WriteDone(i) PROVE InOrder'
  <2>1. inflight' = <<>>
    <3>1. Len(inflight) <= 1 /\ Len(inflight') = Len(inflight) - 1
      BY <1>8, <1>t, <1>s, <1>i, WithoutShape DEF WriteDone, OneWrite, TypeOK
    <3> QED
      BY <3>1, <1>t, <1>s, EmptySeq DEF TypeOK
  <2>2. UNCHANGED <<wire, sock, writeBuffer, served>> /\ Len(served') = Len(served)
    BY <1>8 DEF WriteDone, queueVars
  <2>3. ASSUME sock = "open" PROVE Delivered /\ Delivered'
    <3>1. inflight[i].state = "sent"
      BY <1>8, <2>3, <1>i DEF InOrder, WriteDone
    <3>2. wpc'[Net] \in {"done", "doneEmpty"}
      BY <1>8, <3>1, <1>w DEF WriteDone
    <3> QED
      BY <3>1, <3>2 DEF Delivered
  <2> QED
    BY <2>1, <2>2, <2>3, <1>i DEF InOrder
<1>9. CASE ClearWritten
  <2>1. wpc[Net] \in {"done", "doneEmpty"} /\ wpc'[Net] = "tail"
    BY <1>9, <1>w DEF ClearWritten
  <2>2. inflight = <<>> /\ inflight' = <<>>
    BY <2>1, <1>i DEF OneWrite
  <2>3. Delivered /\ ~Delivered'
    BY <2>1, <2>2 DEF Delivered
  <2>4. writeBuffer' = <<>> /\ Len(writeBuffer') = 0
    BY <1>9, EmptySeq DEF ClearWritten
  <2>5. UNCHANGED <<wire, sock>> /\ Len(served') = Len(served)
    BY <1>9 DEF ClearWritten, queueVars
  <2>6. sock = "open" => Len(served') = Len(wire') + Len(writeBuffer')
    BY <2>3, <2>4, <2>5, <1>i, <1>l DEF InOrder
  <2> QED
    BY <2>2, <2>3, <2>4, <2>5, <2>6, <1>i DEF InOrder
<1>10. CASE KeepWritten
  <2>1. Delivered /\ Delivered'
    BY <1>10, <1>w DEF KeepWritten, At, Delivered
  <2> QED
    BY <1>10, <2>1, <1>k, <1>i DEF KeepWritten, InOrder, queueVars
<1>11. CASE CloseSocket \/ Destroy
  <2>1. sock' = "closed" /\ UNCHANGED <<wire, served>>
    BY <1>11 DEF CloseSocket, Destroy, queueVars
  <2> QED
    BY <2>1, <1>i DEF InOrder, queueVars
<1>12. CASE StayOpen
  <2>1. Delivered' <=> Delivered
    BY <1>12, <1>w DEF StayOpen, At, Delivered
  <2> QED
    BY <1>12, <2>1, <1>k, <1>i DEF StayOpen, InOrder, queueVars
<1>13. CASE LosePeer
  BY <1>13, <1>i DEF LosePeer, InOrder, queueVars
<1>14. CASE InstallCipher \/ UNCHANGED writeVars
  BY <1>14, <1>i DEF InstallCipher, writeVars, InOrder, queueVars, Delivered
<1> QED
  BY <1>w, <1>1, <1>2, <1>3, <1>4, <1>5, <1>6, <1>7, <1>8, <1>9, <1>10, <1>11,
     <1>12, <1>13, <1>14
  DEF WriteNext, WriteStep, Handler, Transport

LEMMA PipeNext ==
  ASSUME Threads = {Net}
  PROVE  PipeInv /\ [WriteNext]_writeVars => PipeInv'
<1> SUFFICES ASSUME PipeInv, [WriteNext]_writeVars PROVE PipeInv'
  OBVIOUS
<1>1. OnceInv'
  BY OnceNext DEF PipeInv
<1>2. OneWrite'
  BY OneWriteNext DEF PipeInv, OnceInv
<1> QED
  BY <1>1, <1>2, InOrderNext DEF PipeInv

\* While only the network thread adds packets, isWriting keeps every user of
\* writeBuffer apart from every other and from the kernel.
THEOREM BufferIsExclusive ==
  ASSUME Threads = {Net}
  PROVE  WriteSpec => []BufferExclusive
<1>1. PipeInv => BufferExclusive
  <2> SUFFICES ASSUME PipeInv PROVE BufferExclusive
    OBVIOUS
  <2>1. \A t, u \in Threads : t = u
    OBVIOUS
  <2>2. ASSUME NEW t \in Threads, Touching(t)
        PROVE  inflight = <<>>
    <3>1. t = Net /\ wpc[Net] \notin {"idle", "check"}
      BY <2>2 DEF Touching
    <3> QED
      BY <3>1 DEF PipeInv, OneWrite
  <2> QED
    BY <2>1, <2>2 DEF BufferExclusive
<1> QED
  BY <1>1, PipeInit, PipeNext, PTL DEF WriteSpec

(***************************************************************************)
(* The refinement: WriteQueue, with one thread, implements PacketPipe.     *)
(***************************************************************************)

LEMMA ReceivedPrefix ==
  PipeInv => /\ Received = Pipe!FirstPackets(Len(wire))
             /\ Len(Received) = Len(wire) /\ Len(wire) \in Nat
             /\ Len(wire) <= Len(added)
<1> SUFFICES ASSUME PipeInv PROVE ReceivedPrefix!2
  OBVIOUS
<1>1. Shapes!2
  BY Shapes DEF PipeInv, OnceInv
<1>2. /\ DOMAIN wire = 1..Len(wire) /\ \A i \in 1..Len(wire) : wire[i].id = i
      /\ Len(wire) \in Nat
  BY <1>1 DEF PipeInv, InOrder
<1>3. Received = [i \in 1..Len(wire) |-> i]
  BY <1>2 DEF Received
<1>4. Received \in Seq(Nat) /\ Len(Received) = Len(wire)
  <2>1. Received \in [1..Len(wire) -> Nat]
    BY <1>2, <1>3
  <2> QED
    BY <2>1, <1>2, SeqDef
<1>5. Len(wire) <= Len(added)
  <2>1. Len(wire) <= Len(served) /\ ServedInv
    BY DEF PipeInv, OnceInv, InOrder
  <2>2. Len(queue) > 0 \/ Len(served) = Len(added) - Len(queue)
    BY <1>1, <2>1, EmptySeq DEF ServedInv, PipeInv, OnceInv, TypeOK
  <2>3. Len(served) <= Len(added) - Len(queue) + 1
    BY <1>1, <2>1 DEF ServedInv
  <2> QED
    BY <1>1, <2>1, <2>2, <2>3
<1> QED
  BY <1>2, <1>3, <1>4, <1>5 DEF Pipe!FirstPackets

\* Push is the pipe's Add, Transmit its Deliver; every other step stutters.
LEMMA PipeStep ==
  ASSUME Threads = {Net}, PipeInv, PipeInv', [WriteNext]_writeVars
  PROVE  [Pipe!Next]_(Pipe!pipeVars)
<1>1. /\ Received = Pipe!FirstPackets(Len(wire)) /\ Len(Received) = Len(wire)
      /\ Received' = Pipe!FirstPackets(Len(wire')) /\ Len(wire') \in Nat
      /\ Len(wire') <= Len(added') /\ Len(wire) \in Nat
  <2>1. ReceivedPrefix!2 /\ ReceivedPrefix!2'
    BY ReceivedPrefix, PTL
  <2> QED
    BY <2>1
<1>i. OneWrite /\ inflight \in Seq(Writes) /\ DOMAIN inflight = 1..Len(inflight)
  BY Shapes DEF PipeInv, OnceInv, TypeOK
<1>s. Len(inflight) \in Nat /\ wire \in Seq(Entries) /\ writeBuffer \in Seq(Entries)
  BY Shapes DEF PipeInv, OnceInv, TypeOK
<1>2. CASE UNCHANGED <<added, wire>>
  BY <1>2 DEF Pipe!pipeVars, Received
<1>3. ASSUME NEW t \in Threads, NEW k \in Kinds, Push(t, k)
      PROVE  Pipe!Next
  BY <1>3 DEF Push, Pipe!Next, Pipe!Add, Received
<1>4. ASSUME NEW i \in DOMAIN inflight, Transmit(i)
      PROVE  Pipe!Next
  <2>1. inflight # <<>> /\ i = 1
    BY <1>s, <1>i, EmptySeq DEF OneWrite
  <2>2. wire' = wire \o writeBuffer
    BY <1>4, <2>1, <1>i DEF Transmit, OneWrite
  <2>3. Len(wire) <= Len(wire')
    BY <2>2, <1>s, ConcatProperties
  <2>4. Len(wire') \in Len(Received)..Len(added')
    BY <1>1, <2>3
  <2>5. UNCHANGED added
    BY <1>4 DEF Transmit, queueVars
  <2> QED
    BY <1>1, <2>4, <2>5 DEF Pipe!Next, Pipe!Deliver
<1>5. ASSUME NEW t \in Threads, WriteStep(t) PROVE UNCHANGED <<added, wire>>
  BY <1>5 DEF WriteStep, Check, Claim, LockQueue, Serialise, Erase, UnlockQueue,
              Encrypt, Post, queueVars
<1>6. ASSUME Handler \/ LosePeer \/ InstallCipher \/ Destroy
      PROVE  UNCHANGED <<added, wire>>
  BY <1>6 DEF Handler, WriteDone, ClearWritten, KeepWritten, CloseSocket, StayOpen,
              LosePeer, InstallCipher, Destroy, queueVars
<1>7. ASSUME NEW i \in DOMAIN inflight, Fail(i) PROVE UNCHANGED <<added, wire>>
  BY <1>7 DEF Fail, queueVars
<1> QED
  BY <1>2, <1>3, <1>4, <1>5, <1>6, <1>7 DEF WriteNext, Transport, writeVars, queueVars

\* Used by the network thread alone, the connection delivers the packets in the
\* order of the calls to addPacketToQueue, each once and undamaged.
THEOREM ConnectionIsPipe ==
  ASSUME Threads = {Net}
  PROVE  WriteSpec => PipeSpec
<1>1. WriteInit => Pipe!Init
  <2> SUFFICES ASSUME WriteInit PROVE Pipe!Init
    OBVIOUS
  <2>1. Received = <<>>
    BY EmptySeq DEF WriteInit, Received
  <2> QED
    BY <2>1 DEF WriteInit, Pipe!Init
<1>2. PipeInv /\ PipeInv' /\ [WriteNext]_writeVars => [Pipe!Next]_(Pipe!pipeVars)
  BY PipeStep
<1> QED
  BY <1>1, <1>2, PipeInit, PipeNext, PTL DEF WriteSpec, PipeSpec, Pipe!Spec

\* The buffer is in the clear until Encrypt, and then as a whole either
\* encrypted or, when nothing encrypted was sent yet, in the clear.
Uniform ==
  \E e \in {0, 1} :
    /\ \A i \in DOMAIN writeBuffer : writeBuffer[i].enc = e
    /\ e = 0 => \A i \in DOMAIN wire : wire[i].enc = 0
    /\ e = 1 => cipher

EncInv ==
  /\ SwitchedOnce
  /\ ~cipher => \A i \in DOMAIN wire : wire[i].enc = 0
  /\ sock = "open" /\ ~Delivered =>
       /\ inflight = <<>> /\ wpc[Net] \in {"idle", "check", "claim", "lock", "tail"}
            => writeBuffer = <<>>
       /\ wpc[Net] \in {"drain", "erase", "encrypt"}
            => \A i \in DOMAIN writeBuffer : writeBuffer[i].enc = 0
       /\ inflight # <<>> \/ wpc[Net] = "post" => Uniform

SwitchInv == PipeInv /\ EncInv

LEMMA SwitchInit == WriteInit => SwitchInv
<1> SUFFICES ASSUME WriteInit PROVE SwitchInv
  OBVIOUS
<1>1. PipeInv
  BY PipeInit
<1> QED
  BY <1>1, WriteQueueAssumption DEF WriteInit, SwitchInv, EncInv, SwitchedOnce

\* Encrypt decides for the whole buffer; nothing is added to it before it is
\* sent, and it is empty again before the next packet is drained.
LEMMA EncNext ==
  ASSUME Threads = {Net}, SwitchInv, PipeInv', [WriteNext]_writeVars
  PROVE  EncInv'
<1>t. TypeOK /\ TypeOK'
  BY DEF SwitchInv, PipeInv, OnceInv
<1>s. Shapes!2 /\ Shapes!2'
  BY <1>t, Shapes, PTL
<1>l. /\ Len(wire) \in Nat /\ Len(writeBuffer) \in Nat /\ Len(inflight) \in Nat
      /\ DOMAIN inflight = 1..Len(inflight) /\ inflight \in Seq(Writes)
      /\ DOMAIN wire = 1..Len(wire) /\ DOMAIN writeBuffer = 1..Len(writeBuffer)
      /\ wire \in Seq(Entries) /\ writeBuffer \in Seq(Entries) /\ cipher \in BOOLEAN
  BY <1>s, <1>t DEF TypeOK
<1>i. OneWrite /\ OneWrite' /\ InOrder /\ EncInv
  BY DEF SwitchInv, PipeInv
<1>w. /\ \A l : Goto(Net, l) => wpc'[Net] = l
      /\ \A t \in Threads : t = Net
  BY <1>t, WriteQueueAssumption DEF TypeOK, Goto
\* A step that sends nothing: the wire's conjuncts carry over.
<1>k. ASSUME UNCHANGED <<wire, cipher>> \/ (UNCHANGED wire /\ cipher'),
             sock' = "open" /\ ~Delivered' =>
               /\ inflight' = <<>> /\ wpc'[Net] \in {"idle", "check", "claim", "lock", "tail"}
                    => writeBuffer' = <<>>
               /\ wpc'[Net] \in {"drain", "erase", "encrypt"}
                    => \A i \in DOMAIN writeBuffer' : writeBuffer'[i].enc = 0
               /\ inflight' # <<>> \/ wpc'[Net] = "post" => Uniform'
      PROVE  EncInv'
  BY <1>k, <1>i DEF EncInv, SwitchedOnce
<1>1. ASSUME NEW k \in Kinds, Push(Net, k) PROVE EncInv'
  <2>1. /\ wpc[Net] = "idle" /\ wpc'[Net] = "check"
        /\ UNCHANGED <<wire, cipher, sock, inflight, writeBuffer>>
    BY <1>1, <1>w DEF Push, At
  <2>2. (Delivered' <=> Delivered) /\ (Uniform' <=> Uniform)
    BY <2>1 DEF Delivered, Uniform
  <2> QED
    BY <1>k, <1>i, <2>1, <2>2 DEF EncInv
<1>2. CASE Check(Net) \/ Claim(Net) \/ StayOpen
  <2>1. /\ UNCHANGED <<wire, cipher, sock, inflight, writeBuffer>>
        /\ wpc[Net] \in {"check", "claim", "tail"}
        /\ wpc'[Net] \in {"idle", "claim", "lock"}
    BY <1>2, <1>w DEF Check, Claim, StayOpen, At
  <2>2. (Delivered' <=> Delivered) /\ (Uniform' <=> Uniform)
    BY <2>1 DEF Delivered, Uniform
  <2> QED
    BY <1>k, <1>i, <2>1, <2>2 DEF EncInv
<1>3. CASE LockQueue(Net) \/ Erase(Net) \/ UnlockQueue(Net)
  <2>1. /\ UNCHANGED <<wire, cipher, sock, inflight, writeBuffer>>
        /\ \/ wpc[Net] = "lock" /\ wpc'[Net] = "drain"
           \/ wpc[Net] \in {"drain", "erase"} /\ wpc'[Net] \in {"drain", "encrypt"}
    BY <1>3, <1>w DEF LockQueue, Erase, UnlockQueue, At
  <2>2. (Delivered' <=> Delivered) /\ inflight = <<>>
    BY <2>1, <1>i DEF Delivered, OneWrite
  <2> QED
    BY <1>k, <1>i, <2>1, <2>2 DEF EncInv
<1>4. CASE Serialise(Net)
  <2>1. /\ UNCHANGED <<wire, cipher, sock>>
        /\ wpc[Net] = "drain" /\ wpc'[Net] = "erase"
    BY <1>4, <1>w DEF Serialise, At
  <2>2. inflight = <<>> /\ inflight' = <<>>
    BY <2>1, <1>i DEF OneWrite
  <2>3. Delivered' <=> Delivered
    BY <2>1, <2>2 DEF Delivered
  <2> DEFINE e == [id |-> Head(queue), enc |-> 0]
  <2>4. e \in Entries /\ e.enc = 0
    <3>1. Head(queue) \in Nat
      BY <1>4, <1>t, HeadTailProperties DEF Serialise, TypeOK
    <3> QED
      BY <3>1 DEF Entries
  <2>5. writeBuffer' = Append(writeBuffer, e)
    BY <1>4 DEF Serialise
  <2> HIDE DEF e
  <2>6. \A i \in DOMAIN writeBuffer' :
          (i \in DOMAIN writeBuffer /\ writeBuffer'[i] = writeBuffer[i])
          \/ writeBuffer'[i] = e
    BY <2>4, <2>5, <1>l, <1>s, AppendProperties
  <2>7. ASSUME sock = "open", ~Delivered
        PROVE  \A i \in DOMAIN writeBuffer' : writeBuffer'[i].enc = 0
    BY <2>1, <2>4, <2>6, <2>7, <1>i DEF EncInv
  <2> QED
    BY <1>k, <2>1, <2>2, <2>3, <2>7
<1>5. CASE Encrypt(Net)
  <2>1. /\ UNCHANGED <<wire, cipher, sock>>
        /\ wpc[Net] = "encrypt" /\ wpc'[Net] = "post"
    BY <1>5, <1>w DEF Encrypt, At
  <2>2. inflight = <<>> /\ inflight' = <<>>
    BY <2>1, <1>i DEF OneWrite
  <2>3. Delivered' <=> Delivered
    BY <2>1, <2>2 DEF Delivered
  <2>4. ASSUME sock = "open", ~Delivered PROVE Uniform'
    <3>1. \A i \in 1..Len(writeBuffer) : writeBuffer[i].enc = 0
      BY <2>1, <2>4, <1>i, <1>l DEF EncInv
    <3>2. CASE cipher
      <4>1. writeBuffer' = EncryptAll(writeBuffer)
        BY <1>5, <3>2 DEF Encrypt
      <4>2. ASSUME NEW i \in DOMAIN writeBuffer'
            PROVE  writeBuffer'[i].enc = 1
        <5>1. i \in 1..Len(writeBuffer)
          BY <4>1, <1>l, <1>s, EncryptShape
        <5>2. writeBuffer'[i] = [id |-> writeBuffer[i].id, enc |-> writeBuffer[i].enc + 1]
          BY <4>1, <5>1, <1>l, EncryptShape
        <5> QED
          BY <3>1, <5>1, <5>2
      <4> QED
        BY <2>1, <3>2, <4>2 DEF Uniform
    <3>3. CASE ~cipher
      <4>1. writeBuffer' = writeBuffer /\ \A i \in DOMAIN wire : wire[i].enc = 0
        BY <1>5, <3>3, <1>i DEF Encrypt, EncInv
      <4> QED
        BY <2>1, <3>1, <4>1, <1>l DEF Uniform
    <3> QED
      BY <3>2, <3>3
  <2> QED
    BY <1>k, <2>1, <2>2, <2>3, <2>4
<1>6. CASE Post(Net)
  <2>1. /\ UNCHANGED <<wire, cipher, sock, writeBuffer>>
        /\ wpc[Net] = "post" /\ wpc'[Net] = "idle"
        /\ inflight' = Append(inflight, [data |-> writeBuffer, state |-> "posted",
                                         torn |-> FALSE])
    BY <1>6, <1>w DEF Post, At
  <2>2. inflight = <<>>
    BY <2>1, <1>i DEF OneWrite
  <2>3. ~Delivered /\ inflight' # <<>>
    BY <2>1, <2>2 DEF Delivered
  <2>4. Uniform' <=> Uniform
    BY <2>1 DEF Uniform
  <2>5. ASSUME sock = "open" PROVE Uniform'
    BY <2>1, <2>3, <2>4, <2>5, <1>i DEF EncInv
  <2> QED
    BY <1>k, <2>1, <2>3, <2>5
<1>7. ASSUME NEW i \in DOMAIN inflight, Transmit(i) PROVE EncInv'
  <2>1. i = 1 /\ Len(inflight) = 1 /\ inflight # <<>>
    BY <1>l, <1>i, EmptySeq DEF OneWrite
  <2>2. wire' = wire \o writeBuffer /\ UNCHANGED <<cipher, wpc>> /\ sock = "open"
    BY <1>7, <2>1, <1>i DEF Transmit, OneWrite
  <2>3. Delivered'
    <3>1. Len(inflight') = 1 /\ inflight'[1].state = "sent"
      BY <1>7, <2>1, <1>l, SettleShape DEF Transmit
    <3> QED
      BY <3>1, <1>s DEF Delivered
  <2>4. ~Delivered
    <3>1. wpc[Net] \in {"idle", "check"}
      BY <2>1, <1>i DEF OneWrite
    <3>2. \A j \in DOMAIN inflight : inflight[j].state = "posted"
      BY <1>7, <2>1, <1>l DEF Transmit
    <3> QED
      BY <3>1, <3>2 DEF Delivered
  <2>5. PICK e \in {0, 1} :
          /\ \A j \in 1..Len(writeBuffer) : writeBuffer[j].enc = e
          /\ e = 0 => \A j \in 1..Len(wire) : wire[j].enc = 0
          /\ e = 1 => cipher
    <3>1. Uniform
      BY <2>1, <2>2, <2>4, <1>i DEF EncInv
    <3> QED
      BY <3>1, <1>l DEF Uniform
  <2>6. /\ Len(wire') = Len(wire) + Len(writeBuffer)
        /\ \A j \in 1..(Len(wire) + Len(writeBuffer)) :
             wire'[j] = IF j <= Len(wire) THEN wire[j] ELSE writeBuffer[j - Len(wire)]
    BY <2>2, <1>l, ConcatProperties
  <2>7. \A j \in 1..(Len(wire) + Len(writeBuffer)) :
          \/ j <= Len(wire) /\ wire'[j] = wire[j]
          \/ j > Len(wire) /\ wire'[j].enc = e
    <3> SUFFICES ASSUME NEW j \in 1..(Len(wire) + Len(writeBuffer)), j > Len(wire)
                 PROVE  wire'[j].enc = e
      BY <2>6, <1>l
    <3>1. j - Len(wire) \in 1..Len(writeBuffer) /\ ~(j <= Len(wire))
      BY <1>l
    <3> QED
      BY <3>1, <2>5, <2>6
  <2>8. \A j \in 1..Len(wire) :
          /\ wire[j].enc \in Nat /\ wire[j].enc <= 1
          /\ \A m \in 1..j : wire[m].enc <= wire[j].enc
    BY <1>i, <1>s DEF EncInv, SwitchedOnce
  <2>9. ASSUME NEW j \in 1..(Len(wire) + Len(writeBuffer))
        PROVE  /\ wire'[j].enc <= 1
               /\ \A m \in 1..j : wire'[m].enc <= wire'[j].enc
    <3>1. CASE j <= Len(wire)
      <4>1. \A m \in 1..j : m \in 1..Len(wire) /\ wire'[m] = wire[m]
        BY <3>1, <2>7, <1>l
      <4> QED
        BY <3>1, <4>1, <2>7, <2>8, <1>l
    <3>2. CASE j > Len(wire)
      <4>1. wire'[j].enc = e
        BY <3>2, <2>7, <1>l
      <4>2. ASSUME NEW m \in 1..j PROVE wire'[m].enc <= e
        <5>1. CASE m <= Len(wire)
          <6>1. m \in 1..Len(wire) /\ wire'[m] = wire[m]
            BY <5>1, <2>7, <1>l
          <6>2. wire[m].enc \in Nat /\ wire[m].enc <= 1 /\ (e = 0 => wire[m].enc = 0)
            BY <6>1, <2>5, <2>8
          <6> QED
            BY <6>1, <6>2
        <5>2. CASE m > Len(wire)
          <6>1. wire'[m].enc = e
            BY <5>2, <2>7, <1>l
          <6> QED
            BY <6>1
        <5> QED
          BY <5>1, <5>2, <1>l
      <4> QED
        BY <4>1, <4>2
    <3> QED
      BY <3>1, <3>2, <1>l
  <2>10. ~cipher' => \A j \in 1..(Len(wire) + Len(writeBuffer)) : wire'[j].enc = 0
    <3> SUFFICES ASSUME ~cipher, NEW j \in 1..(Len(wire) + Len(writeBuffer))
                 PROVE  wire'[j].enc = 0
      BY <2>2
    <3>1. e = 0 /\ \A m \in 1..Len(wire) : wire[m].enc = 0
      BY <2>5
    <3> QED
      BY <3>1, <2>7, <1>l
  <2>11. DOMAIN wire' = 1..(Len(wire) + Len(writeBuffer))
    BY <2>6, <1>s
  <2> QED
    BY <2>3, <2>9, <2>10, <2>11 DEF EncInv, SwitchedOnce
<1>8. ASSUME NEW i \in DOMAIN inflight, Fail(i) PROVE EncInv'
  BY <1>8, <1>k DEF Fail
<1>9. ASSUME NEW i \in DOMAIN inflight, WriteDone(i) PROVE EncInv'
  <2>1. ASSUME sock = "open" PROVE Delivered'
    <3>1. inflight[i].state = "sent"
      BY <1>9, <2>1, <1>i DEF InOrder, WriteDone
    <3> QED
      BY <1>9, <3>1, <1>w DEF WriteDone, Delivered
  <2> QED
    BY <1>9, <2>1, <1>k DEF WriteDone
<1>10. CASE ClearWritten
  <2>1. wpc[Net] \in {"done", "doneEmpty"} /\ wpc'[Net] = "tail" /\ writeBuffer' = <<>>
    BY <1>10, <1>w DEF ClearWritten
  <2>2. inflight' = <<>>
    BY <2>1, <1>i DEF OneWrite
  <2> QED
    BY <1>10, <2>1, <2>2, <1>k DEF ClearWritten
<1>11. CASE KeepWritten
  <2>1. Delivered'
    BY <1>11, <1>w DEF KeepWritten, Delivered
  <2> QED
    BY <1>11, <2>1, <1>k DEF KeepWritten
<1>12. CASE CloseSocket \/ Destroy \/ LosePeer
  BY <1>12, <1>k DEF CloseSocket, Destroy, LosePeer
<1>13. CASE InstallCipher
  <2>1. /\ UNCHANGED <<wire, sock, inflight, writeBuffer, wpc>> /\ cipher'
    BY <1>13 DEF InstallCipher
  <2>2. (Delivered' <=> Delivered) /\ (Uniform => Uniform')
    BY <2>1 DEF Delivered, Uniform
  <2> QED
    BY <1>k, <1>i, <2>1, <2>2 DEF EncInv
<1>14. CASE UNCHANGED writeVars
  <2>1. /\ UNCHANGED <<wire, sock, inflight, writeBuffer, wpc, cipher>>
    BY <1>14 DEF writeVars
  <2>2. (Delivered' <=> Delivered) /\ (Uniform => Uniform')
    BY <2>1 DEF Delivered, Uniform
  <2> QED
    BY <1>k, <1>i, <2>1, <2>2 DEF EncInv
<1> QED
  BY <1>w, <1>1, <1>2, <1>3, <1>4, <1>5, <1>6, <1>7, <1>8, <1>9, <1>10, <1>11,
     <1>12, <1>13, <1>14
  DEF WriteNext, WriteStep, Handler, Transport

LEMMA SwitchNext ==
  ASSUME Threads = {Net}
  PROVE  SwitchInv /\ [WriteNext]_writeVars => SwitchInv'
<1> SUFFICES ASSUME SwitchInv, [WriteNext]_writeVars PROVE SwitchInv'
  OBVIOUS
<1>1. PipeInv'
  BY PipeNext DEF SwitchInv
<1> QED
  BY <1>1, EncNext DEF SwitchInv

\* The peer of a connection used by the network thread alone sees the stream
\* switch to encryption once, between two packets.
THEOREM EncryptionSwitchesOnce ==
  ASSUME Threads = {Net}
  PROVE  WriteSpec => []SwitchedOnce
<1>1. SwitchInv => SwitchedOnce
  BY DEF SwitchInv, EncInv
<1> QED
  BY <1>1, SwitchNext, SwitchInit, PTL DEF WriteSpec
=============================================================================
