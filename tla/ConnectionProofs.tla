-------------------------- MODULE ConnectionProofs --------------------------
(***************************************************************************)
(* Theorems about a connection: each of its steps is a step of its sending *)
(* half, and what WriteQueueProofs shows of that for any threads therefore *)
(* holds of the connection.                                                *)
(***************************************************************************)
EXTENDS Connection, TLAPS

P == INSTANCE WriteQueueProofs

(***************************************************************************)
(* The steps, by what they do to the sending half.                         *)
(***************************************************************************)

LEMMA InitSends == Init => W!WriteInit
BY DEF Init

\* A step of the handlers, of the threads or of the environment that leaves the
\* sending half alone.
LEMMA SilentStep ==
  ASSUME \/ ListPlayer \/ BeginConnection \/ Arrive \/ HandleRead
         \/ HandleReadError \/ StartRead \/ SetName \/ HandleSharedKey
         \/ SetStatus \/ HandlePlayerUpdate \/ UpdatePlayer \/ HandleKeepAlive
         \/ AfterPingMust \/ Tick \/ KeepAliveTime \/ DeletePlayer \/ Expire
         \/ (\E t \in Threads : DisconnectStep(t))
  PROVE  UNCHANGED writeVars
BY DEF ListPlayer, BeginConnection, Arrive, HandleRead, HandleReadError, StartRead,
       SetName, HandleSharedKey, SetStatus, HandlePlayerUpdate, UpdatePlayer,
       HandleKeepAlive, AfterPingMust, Tick, TickRemove, TickAlive, KeepAliveTime,
       DeletePlayer, Expire, DisconnectStep, ClearRunning, ReadName, SetMust

\* A call of addPacketToQueue, by whatever handler, is a Push.
LEMMA KindsSent ==
  ASSUME NEW t \in Threads, NEW k \in Kinds, NEW l, NEW next, Add(t, k, l, next)
  PROVE  W!WriteNext
<1>1. W!Push(t, k)
  BY DEF Add
<1>. QED
  BY <1>1 DEF W!WriteNext

LEMMA KickSends ==
  ASSUME NEW t \in Threads, NEW l, NEW return, KickStart(t, l, return)
  PROVE  W!WriteNext
<1>1. "Kick" \in Kinds
  BY DEF Kinds
<1>. QED
  BY <1>1, KindsSent DEF KickStart

\* The other steps that touch the sending half.
LEMMA SendingStep ==
  ASSUME \/ HandleServerPing \/ HandleHandshake \/ CreateCipher \/ SendPacket
         \/ WriteDone \/ AfterPing \/ ClearWritten \/ EndWrite
         \/ KeepAliveExpire \/ KickPlayer \/ Transport \/ DestroyConnection
         \/ (\E t \in Threads : WriteCall(t))
  PROVE  W!WriteNext \/ UNCHANGED writeVars
<1>1. Net \in Threads /\ Reg \in Threads
  BY DEF Threads
<1>2. ASSUME HandleServerPing
      PROVE  W!WriteNext
  <2>1. Add(Net, "PingResponse", "loop", "pingStatus") /\ "PingResponse" \in Kinds
    BY <1>2 DEF HandleServerPing, Kinds
  <2>. QED
    BY <2>1, <1>1, KindsSent
<1>3. ASSUME HandleHandshake
      PROVE  W!WriteNext \/ UNCHANGED writeVars
  BY <1>3, <1>1, KickSends DEF HandleHandshake
<1>4. ASSUME CreateCipher
      PROVE  W!WriteNext \/ UNCHANGED writeVars
  BY <1>4 DEF CreateCipher, W!WriteNext
<1>5. ASSUME SendPacket
      PROVE  W!WriteNext
  <2>1. {"AuthData", "Login", "Spawn", "Position"} \subseteq Kinds
    BY DEF Kinds
  <2>2. \E k \in Kinds, l, next \in Labels : Add(Net, k, l, next)
    BY <1>5, <2>1 DEF SendPacket, Labels
  <2>. QED
    BY <2>2, <1>1, KindsSent
<1>6. ASSUME WriteDone
      PROVE  W!WriteNext
  BY <1>6 DEF WriteDone, W!WriteNext, W!Handler
<1>7. ASSUME AfterPing \/ ClearWritten
      PROVE  W!WriteNext
  BY <1>7 DEF AfterPing, ClearWritten, W!WriteNext, W!Handler
<1>8. ASSUME EndWrite
      PROVE  W!WriteNext
  BY <1>8 DEF EndWrite, W!WriteNext, W!Handler
<1>9. ASSUME KeepAliveExpire
      PROVE  W!WriteNext \/ UNCHANGED writeVars
  BY <1>9, <1>1, KickSends DEF KeepAliveExpire
<1>10. ASSUME KickPlayer
       PROVE  W!WriteNext
  BY <1>10, <1>1, KickSends DEF KickPlayer
<1>11. ASSUME Transport \/ DestroyConnection
       PROVE  W!WriteNext
  BY <1>11 DEF Transport, DestroyConnection, W!WriteNext
<1>12. ASSUME NEW t \in Threads, WriteCall(t)
       PROVE  W!WriteNext
  BY <1>12 DEF WriteCall, W!WriteNext
<1>. QED
  BY <1>2, <1>3, <1>4, <1>5, <1>6, <1>7, <1>8, <1>9, <1>10, <1>11, <1>12

LEMMA StepSends == [Next]_vars => [W!WriteNext]_(W!writeVars)
<1>. SUFFICES ASSUME [Next]_vars
              PROVE  W!WriteNext \/ UNCHANGED W!writeVars
  OBVIOUS
<1>1. UNCHANGED writeVars => UNCHANGED W!writeVars
  BY DEF writeVars, W!writeVars, W!queueVars
<1>2. CASE UNCHANGED vars
  BY <1>1, <1>2 DEF vars
<1>3. CASE Next
  BY <1>1, <1>3, SilentStep, SendingStep
     DEF Next, NetStep, Client, RegStep, Threads
<1>. QED
  BY <1>2, <1>3

\* Connection is written with the actions of WriteQueue, so that what holds of
\* WriteQueue for any threads can be carried to it.
LEMMA ConnectionSends == Spec => W!WriteSpec
BY InitSends, StepSends, PTL DEF Spec, W!WriteSpec

(***************************************************************************)
(* What holds of the sending half.                                         *)
(***************************************************************************)

\* The two instances of WriteQueue, one of them with its theorems, are the same.
LEMMA SameHalf == W!WriteSpec => P!WriteSpec
<1>1. W!WriteInit => P!WriteInit
  BY DEF W!WriteInit, P!WriteInit
<1>2. ASSUME NEW t \in Threads, W!WriteStep(t)
      PROVE  P!WriteStep(t)
  BY <1>2
  DEF W!WriteStep, P!WriteStep, W!Check, P!Check, W!Claim, P!Claim,
      W!LockQueue, P!LockQueue, W!Serialise, P!Serialise, W!Erase, P!Erase,
      W!UnlockQueue, P!UnlockQueue, W!Encrypt, P!Encrypt, W!Post, P!Post, W!At,
      P!At, W!Goto, P!Goto, W!queueVars, P!queueVars, W!Tear, P!Tear,
      W!EncryptAll, P!EncryptAll
<1>3. ASSUME NEW t \in Threads, NEW k \in Kinds, W!Push(t, k)
      PROVE  P!Push(t, k)
  BY <1>3
  DEF W!Push, P!Push, W!At, P!At, W!Goto, P!Goto
<1>4. ASSUME W!Handler
      PROVE  P!Handler
  BY <1>4
  DEF W!Handler, P!Handler, W!WriteDone, P!WriteDone, W!ClearWritten,
      P!ClearWritten, W!KeepWritten, P!KeepWritten, W!CloseSocket,
      P!CloseSocket, W!StayOpen, P!StayOpen, W!At, P!At, W!Goto, P!Goto,
      W!queueVars, P!queueVars, W!Tear, P!Tear, W!Without, P!Without
<1>5. ASSUME W!Transport
      PROVE  P!Transport
  BY <1>5
  DEF W!Transport, P!Transport, W!Transmit, P!Transmit, W!Fail, P!Fail,
      W!LosePeer, P!LosePeer, W!Settle, P!Settle, W!queueVars, P!queueVars,
      W!Garbage, P!Garbage
<1>6. ASSUME W!InstallCipher \/ W!Destroy
      PROVE  P!InstallCipher \/ P!Destroy
  BY <1>6
  DEF W!InstallCipher, P!InstallCipher, W!Destroy, P!Destroy, W!At, P!At,
      W!queueVars, P!queueVars
<1>7. W!WriteNext => P!WriteNext
  BY <1>2, <1>3, <1>4, <1>5, <1>6 DEF W!WriteNext, P!WriteNext
<1>8. UNCHANGED W!writeVars => UNCHANGED P!writeVars
  BY DEF W!writeVars, P!writeVars, W!queueVars, P!queueVars
<1>. QED
  BY <1>1, <1>7, <1>8, PTL DEF W!WriteSpec, P!WriteSpec

\* However the handlers, ticks and kicks of a connection interleave, each packet
\* is serialised and deleted once, in the order of the calls.
THEOREM ConnectionSerialisesOnce == Spec => []OnceSerialised
<1>1. P!WriteQueueAssumption
  BY ConnectionAssumption DEF P!WriteQueueAssumption, Threads
<1>2. P!WriteSpec => []P!OnceSerialised
  BY <1>1, P!SerialisedOnce
<1>3. P!OnceSerialised => OnceSerialised
  BY DEF OnceSerialised, W!OnceSerialised, P!OnceSerialised
<1>. QED
  BY <1>2, <1>3, ConnectionSends, SameHalf, PTL

(***************************************************************************)
(* Type correctness.                                                       *)
(***************************************************************************)

ControlTypeOK ==
  /\ status \in {"HANDSHAKE", "LOGIN", "PLAY", "PING"}
  /\ running \in BOOLEAN /\ mustDisconnect \in BOOLEAN
  /\ timedOut \in BOOLEAN /\ hasPlayer \in BOOLEAN
  /\ player \in {"fresh", "listed", "freed"}
  /\ reading \in {"none", "pending", "ready"}
  /\ incoming \in 0..MaxIncoming /\ kicks \in 0..MaxKicks
  /\ pc \in [Threads -> Labels] /\ ret \in [Threads -> Labels]

LEMMA ControlInit == Init => ControlTypeOK
<1>. SUFFICES ASSUME Init
              PROVE  ControlTypeOK
  OBVIOUS
<1>1. pc \in [Threads -> Labels] /\ ret \in [Threads -> Labels]
  BY DEF Init, Labels
<1>2. incoming \in 0..MaxIncoming /\ kicks \in 0..MaxKicks
  BY ConnectionAssumption DEF Init
<1>. QED
  BY <1>1, <1>2 DEF Init, ControlTypeOK

LEMMA ControlNext == ControlTypeOK /\ [Next]_vars => ControlTypeOK'
<1>. SUFFICES ASSUME ControlTypeOK, [Next]_vars
              PROVE  ControlTypeOK'
  OBVIOUS
<1>. USE ConnectionAssumption DEF ControlTypeOK
<1>t. Net \in Threads /\ Reg \in Threads
  BY DEF Threads
<1>1. CASE UNCHANGED vars
  BY <1>1 DEF vars, flagVars, envVars
<1>2. CASE ListPlayer
  BY <1>2, <1>t DEF ListPlayer, At, Goto, flagVars, envVars, Labels
<1>3. CASE BeginConnection
  BY <1>3, <1>t DEF BeginConnection, At, Goto, flagVars, Labels
<1>4. CASE HandleRead
  BY <1>4, <1>t DEF HandleRead, At, Goto, flagVars, Labels
<1>5. CASE HandleReadError
  BY <1>5, <1>t DEF HandleReadError, At, flagVars
<1>6. CASE StartRead
  BY <1>6, <1>t DEF StartRead, At, Goto, flagVars, Labels
<1>7. CASE SetName
  BY <1>7, <1>t DEF SetName, At, Goto, flagVars, envVars, Labels
<1>8. CASE CreateCipher
  BY <1>8, <1>t DEF CreateCipher, At, Goto, flagVars, envVars, Labels
<1>9. CASE SendPacket
  BY <1>9, <1>t DEF SendPacket, Add, At, Goto, flagVars, envVars, Labels
<1>10. CASE SetStatus
  BY <1>10, <1>t DEF SetStatus, At, Goto, envVars, Labels
<1>11. CASE UpdatePlayer
  BY <1>11, <1>t DEF UpdatePlayer, At, Goto, flagVars, envVars, Labels
<1>12. CASE AfterPing
  BY <1>12, <1>t DEF AfterPing, envVars
<1>13. CASE AfterPingMust
  BY <1>13, <1>t DEF AfterPingMust, envVars
<1>14. CASE ClearWritten
  BY <1>14, <1>t DEF ClearWritten, outer, flagVars, envVars
<1>15. CASE EndWrite
  BY <1>15, <1>t DEF EndWrite, envVars
<1>16. ASSUME NEW t \in Threads, DisconnectStep(t)
      PROVE  ControlTypeOK'
  <2>1. CASE ClearRunning(t)
    BY <2>1 DEF ClearRunning, At, Goto, envVars, Labels
  <2>2. CASE ReadName(t)
    BY <2>2 DEF ReadName, At, Goto, flagVars, envVars, Labels
  <2>3. CASE SetMust(t)
    <3>1. ret[t] \in Labels
      OBVIOUS
    <3>. QED
      BY <2>3, <3>1 DEF SetMust, At, Goto, envVars
  <2>. QED
    BY <1>16, <2>1, <2>2, <2>3 DEF DisconnectStep
<1>17. ASSUME NEW t \in Threads, WriteCall(t)
      PROVE  ControlTypeOK'
  BY <1>17, <1>t DEF WriteCall, outer, flagVars, envVars
<1>18. CASE HandleServerPing
  BY <1>18, <1>t DEF HandleServerPing, Receive, Add, At, Goto, flagVars,
      Labels
<1>19. CASE HandleHandshake
  BY <1>19, <1>t DEF HandleHandshake, Receive, Add, KickStart, At, Goto,
      flagVars, Labels
<1>20. CASE HandleSharedKey
  BY <1>20, <1>t DEF HandleSharedKey, Receive, At, Goto, flagVars, Labels
<1>21. CASE HandlePlayerUpdate
  BY <1>21, <1>t DEF HandlePlayerUpdate, Receive, At, Goto, flagVars, Labels
<1>22. CASE HandleKeepAlive
  <2>1. incoming' \in 0..MaxIncoming
    BY <1>22 DEF HandleKeepAlive, Receive
  <2>. QED
    BY <1>22, <2>1 DEF HandleKeepAlive
<1>23. CASE WriteDone
  BY <1>23, <1>t DEF WriteDone, outer, flagVars, envVars
<1>24. CASE TickRemove
  BY <1>24, <1>t DEF TickRemove, At, flagVars, envVars
<1>25. CASE TickAlive
  BY <1>25, <1>t DEF TickAlive, At, Goto, outer, flagVars, envVars, Labels
<1>26. CASE KeepAliveTime
  BY <1>26, <1>t DEF KeepAliveTime, At, Goto, outer, flagVars, envVars,
      Labels
<1>27. CASE KeepAliveExpire
  BY <1>27, <1>t DEF KeepAliveExpire, Add, KickStart, At, Goto, flagVars,
      envVars, Labels
<1>28. CASE DeletePlayer
  BY <1>28, <1>t DEF DeletePlayer, At, Goto, flagVars, envVars, Labels
<1>29. CASE KickPlayer
  BY <1>29, <1>t DEF KickPlayer, Add, KickStart, At, Goto, flagVars, Labels
<1>30. CASE Arrive
  BY <1>30, <1>t DEF Arrive, flagVars
<1>31. CASE Expire
  BY <1>31, <1>t DEF Expire, envVars
<1>32. CASE Transport
  BY <1>32, <1>t DEF Transport, outer, flagVars, envVars
<1>33. CASE DestroyConnection
  BY <1>33, <1>t DEF DestroyConnection, outer, flagVars, envVars
<1>. QED
  BY <1>1, <1>t, <1>2, <1>3, <1>4, <1>5, <1>6, <1>7, <1>8, <1>9, <1>10, <1>11,
     <1>12, <1>13, <1>14, <1>15, <1>16, <1>17, <1>18, <1>19, <1>20, <1>21,
     <1>22, <1>23, <1>24, <1>25, <1>26, <1>27, <1>28, <1>29, <1>30, <1>31,
     <1>32, <1>33
     DEF Next, NetStep, Client, Tick, RegStep

\* The state of a connection keeps its type, the sending half's included.
THEOREM ConnectionTypeCorrect == Spec => []TypeOK
<1>1. P!WriteQueueAssumption
  BY ConnectionAssumption DEF P!WriteQueueAssumption, Threads
<1>2. P!WriteSpec => []P!TypeOK
  BY <1>1, P!TypeCorrect
<1>3. P!TypeOK => W!TypeOK
  BY DEF W!TypeOK, P!TypeOK, W!Entries, P!Entries, W!Writes, P!Writes,
         W!WriteLabels, P!WriteLabels, W!DoneLabels, P!DoneLabels
<1>4. Spec => []ControlTypeOK
  BY ControlInit, ControlNext, PTL DEF Spec
<1>5. W!TypeOK /\ ControlTypeOK => TypeOK
  BY DEF TypeOK, ControlTypeOK
<1>. QED
  BY <1>2, <1>3, <1>4, <1>5, ConnectionSends, SameHalf, PTL

(***************************************************************************)
(* The Player of a live connection.                                        *)
(***************************************************************************)

\* Once the holder of playersMutex, in a call of disconnect, has cleared the
\* flag, and when that call has returned to a kick, the connection is dead.
LiveInv ==
  /\ ControlTypeOK
  /\ pc[Reg] \in {"readName", "setMust", "delete"} => ~running
  /\ LivePlayerExists

LEMMA LiveInit == Init => LiveInv
BY ControlInit, ConnectionAssumption DEF Init, LiveInv, Threads, LivePlayerExists

LEMMA LiveNext == LiveInv /\ [Next]_vars => LiveInv'
<1>. SUFFICES ASSUME LiveInv, [Next]_vars
              PROVE  LiveInv'
  OBVIOUS
<1>. USE ConnectionAssumption DEF LiveInv, LivePlayerExists
<1>c. ControlTypeOK'
  BY ControlNext
<1>t. Net \in Threads /\ Reg \in Threads /\ pc \in [Threads -> Labels] /\ Net # Reg
  BY DEF Threads, ControlTypeOK
<1>1. CASE UNCHANGED vars
  BY <1>1, <1>c DEF vars, flagVars, envVars
<1>2. CASE ListPlayer
  BY <1>2, <1>t, <1>c DEF ListPlayer, At, Goto, flagVars, envVars, Labels
<1>3. CASE BeginConnection
  BY <1>3, <1>t, <1>c DEF BeginConnection, At, Goto, flagVars, Labels
<1>4. CASE HandleRead
  BY <1>4, <1>t, <1>c DEF HandleRead, At, Goto, flagVars, Labels
<1>5. CASE HandleReadError
  BY <1>5, <1>t, <1>c DEF HandleReadError, At, flagVars
<1>6. CASE StartRead
  BY <1>6, <1>t, <1>c DEF StartRead, At, Goto, flagVars, Labels
<1>7. CASE SetName
  BY <1>7, <1>t, <1>c DEF SetName, At, Goto, flagVars, envVars, Labels
<1>8. CASE CreateCipher
  BY <1>8, <1>t, <1>c DEF CreateCipher, At, Goto, flagVars, envVars, Labels
<1>9. CASE SendPacket
  BY <1>9, <1>t, <1>c DEF SendPacket, Add, At, Goto, flagVars, envVars, Labels
<1>10. CASE SetStatus
  BY <1>10, <1>t, <1>c DEF SetStatus, At, Goto, envVars, Labels
<1>11. CASE UpdatePlayer
  BY <1>11, <1>t, <1>c DEF UpdatePlayer, At, Goto, flagVars, envVars, Labels
<1>12. CASE AfterPing
  BY <1>12, <1>t, <1>c DEF AfterPing, envVars
<1>13. CASE AfterPingMust
  BY <1>13, <1>t, <1>c DEF AfterPingMust, envVars
<1>14. CASE ClearWritten
  BY <1>14, <1>t, <1>c DEF ClearWritten, outer, flagVars, envVars
<1>15. CASE EndWrite
  BY <1>15, <1>t, <1>c DEF EndWrite, envVars
<1>16. ASSUME NEW t \in Threads, DisconnectStep(t)
      PROVE  LiveInv'
  BY <1>16, <1>t, <1>c DEF DisconnectStep, ClearRunning, ReadName, SetMust, At,
      Goto, flagVars, envVars, Labels
<1>17. ASSUME NEW t \in Threads, WriteCall(t)
      PROVE  LiveInv'
  BY <1>17, <1>t, <1>c DEF WriteCall, outer, flagVars, envVars
<1>18. CASE HandleServerPing
  BY <1>18, <1>t, <1>c DEF HandleServerPing, Receive, Add, At, Goto, flagVars,
      Labels
<1>19. CASE HandleHandshake
  BY <1>19, <1>t, <1>c DEF HandleHandshake, Receive, Add, KickStart, At, Goto,
      flagVars, Labels
<1>20. CASE HandleSharedKey
  BY <1>20, <1>t, <1>c DEF HandleSharedKey, Receive, At, Goto, flagVars, Labels
<1>21. CASE HandlePlayerUpdate
  BY <1>21, <1>t, <1>c DEF HandlePlayerUpdate, Receive, At, Goto, flagVars, Labels
<1>22. CASE HandleKeepAlive
  BY <1>22, <1>t, <1>c DEF HandleKeepAlive, Receive, At
<1>23. CASE WriteDone
  BY <1>23, <1>t, <1>c DEF WriteDone, outer, flagVars, envVars
<1>24. CASE TickRemove
  BY <1>24, <1>t, <1>c DEF TickRemove, At, flagVars, envVars
<1>25. CASE TickAlive
  BY <1>25, <1>t, <1>c DEF TickAlive, At, Goto, outer, flagVars, envVars, Labels
<1>26. CASE KeepAliveTime
  BY <1>26, <1>t, <1>c DEF KeepAliveTime, At, Goto, outer, flagVars, envVars,
      Labels
<1>27. CASE KeepAliveExpire
  BY <1>27, <1>t, <1>c DEF KeepAliveExpire, Add, KickStart, At, Goto, flagVars,
      envVars, Labels
<1>28. CASE DeletePlayer
  BY <1>28, <1>t, <1>c DEF DeletePlayer, At, Goto, flagVars, envVars, Labels
<1>29. CASE KickPlayer
  BY <1>29, <1>t, <1>c DEF KickPlayer, Add, KickStart, At, Goto, flagVars, Labels
<1>30. CASE Arrive
  BY <1>30, <1>t, <1>c DEF Arrive, flagVars
<1>31. CASE Expire
  BY <1>31, <1>t, <1>c DEF Expire, envVars
<1>32. CASE Transport
  BY <1>32, <1>t, <1>c DEF Transport, outer, flagVars, envVars
<1>33. CASE DestroyConnection
  BY <1>33, <1>t, <1>c DEF DestroyConnection, outer, flagVars, envVars
<1>. QED
  BY <1>1, <1>t, <1>2, <1>3, <1>4, <1>5, <1>6, <1>7, <1>8, <1>9, <1>10, <1>11,
     <1>12, <1>13, <1>14, <1>15, <1>16, <1>17, <1>18, <1>19, <1>20, <1>21,
     <1>22, <1>23, <1>24, <1>25, <1>26, <1>27, <1>28, <1>29, <1>30, <1>31,
     <1>32, <1>33
     DEF Next, NetStep, Client, Tick, RegStep

\* A Player is deleted only once its connection is dead, whoever deletes it.
THEOREM LivePlayerStays == Spec => []LivePlayerExists
<1>1. LiveInv => LivePlayerExists
  BY DEF LiveInv
<1>. QED
  BY LiveInit, LiveNext, <1>1, PTL DEF Spec
=============================================================================
