--------------------------- MODULE ProtocolProofs ---------------------------
(***************************************************************************)
(* Theorems about what a connection sends: the script of its handlers,     *)
(* whatever threads interleave with them, and, for a connection that       *)
(* nobody kicks and that does not time out, the pipe it implements and     *)
(* what of it is encrypted.                                                *)
(***************************************************************************)
EXTENDS ConnectionProofs, SequenceTheorems

(***************************************************************************)
(* The scripts of the protocol.                                            *)
(***************************************************************************)

\* A handler that adds packets runs in the status it was called in.
StepStatus ==
  /\ pc[Net] \in {"pingStatus", "setName", "auth", "loginStatus"} => status = "HANDSHAKE"
  /\ pc[Net] \in {"clearRunning", "readName"} =>
       status = "HANDSHAKE" /\ ret[Net] = "setName"
  /\ pc[Net] \in {"key", "login", "spawn", "position", "playStatus"} => status = "LOGIN"
  /\ pc[Net] = "quiet" => status = "LOGIN" /\ ret[Net] = "key"
  /\ pc[Net] = "setMust" => \/ status = "HANDSHAKE" /\ ret[Net] = "setName"
                            \/ status = "LOGIN" /\ ret[Net] = "key"

\* What was added, by the status and the step of the network thread.
Progress ==
  /\ Sent("PingResponse") <=> status = "PING" \/ pc[Net] = "pingStatus"
  /\ Sent("AuthData") <=> status \in {"LOGIN", "PLAY"} \/ pc[Net] = "loginStatus"
  /\ Sent("Login") <=>
       status = "PLAY" \/ pc[Net] \in {"spawn", "position", "playStatus"}
  /\ Sent("Spawn") <=> status = "PLAY" \/ pc[Net] \in {"position", "playStatus"}
  /\ Sent("Position") <=> status = "PLAY" \/ pc[Net] = "playStatus"

\* Each packet once, and each packet of the login after the one before it.
Ordered ==
  /\ \A i, j \in DOMAIN added : added[i] = added[j] /\ added[i] # "Kick" => i = j
  /\ \A i \in DOMAIN added, n \in 2..4 : added[i] = LoginScript[n] =>
       \E j \in 1..(i - 1) : added[j] = LoginScript[n - 1]

ScriptInv ==
  /\ added \in Seq(Kinds)
  /\ ControlTypeOK
  /\ StepStatus
  /\ Progress
  /\ Ordered

\* A packet that may come next keeps the order.
LEMMA NextPacket ==
  ASSUME added \in Seq(Kinds), Ordered, NEW k \in Kinds, added' = Append(added, k),
         k # "Kick" => ~Sent(k),
         \A n \in 2..4 : k = LoginScript[n] => Sent(LoginScript[n - 1])
  PROVE  /\ added' \in Seq(Kinds)
         /\ Ordered'
         /\ \A q : Sent(q)' <=> Sent(q) \/ q = k
<1> DEFINE N == Len(added)
<1>1. /\ N \in Nat /\ DOMAIN added = 1..N
      /\ added' \in Seq(Kinds) /\ DOMAIN added' = 1..(N + 1)
      /\ added'[N + 1] = k
      /\ \A i \in 1..N : added'[i] = added[i]
  BY AppendProperties, LenProperties
<1> HIDE DEF N
<1>2. ASSUME NEW q
      PROVE  Sent(q)' <=> Sent(q) \/ q = k
  <2>1. Sent(q)' <=> \E i \in 1..(N + 1) : added'[i] = q
    BY <1>1 DEF Sent
  <2>2. Sent(q) <=> \E i \in 1..N : added[i] = q
    BY <1>1 DEF Sent
  <2>. QED
    BY <1>1, <2>1, <2>2
<1>3. ASSUME NEW i \in 1..(N + 1), NEW j \in 1..(N + 1),
             added'[i] = added'[j], added'[i] # "Kick"
      PROVE  i = j
  <2>1. ASSUME NEW l \in 1..N PROVE added[l] # k \/ k = "Kick"
    BY <1>1 DEF Sent
  <2>. QED
    BY <1>1, <1>3, <2>1 DEF Ordered
<1>4. ASSUME NEW i \in 1..(N + 1), NEW n \in 2..4, added'[i] = LoginScript[n]
      PROVE  \E j \in 1..(i - 1) : added'[j] = LoginScript[n - 1]
  <2>1. CASE i \in 1..N
    <3>1. PICK j \in 1..(i - 1) : added[j] = LoginScript[n - 1]
      BY <1>1, <1>4, <2>1 DEF Ordered
    <3>. QED
      BY <1>1, <2>1, <3>1
  <2>2. CASE i = N + 1
    <3>1. Sent(LoginScript[n - 1])
      BY <1>1, <1>4, <2>2
    <3>2. PICK j \in 1..N : added[j] = LoginScript[n - 1]
      BY <1>1, <3>1 DEF Sent
    <3>. QED
      BY <1>1, <2>2, <3>2
  <2>. QED
    BY <1>1, <2>1, <2>2
<1>. QED
  BY <1>1, <1>2, <1>3, <1>4 DEF Ordered

\* The packets one may come next, by name.
LEMMA LoginOrder ==
  /\ \A n \in 2..4 : LoginScript[n] \in {"Login", "Spawn", "Position"}
  /\ LoginScript[1] = "AuthData" /\ LoginScript[2] = "Login"
  /\ LoginScript[3] = "Spawn" /\ LoginScript[4] = "Position"
BY DEF LoginScript

\* Adding k keeps the script when the table says so.
LEMMA AddsNext ==
  ASSUME ScriptInv, NEW t \in Threads, NEW k \in Kinds, W!Push(t, k),
         k # "Kick" => ~Sent(k),
         k = "Login" => Sent("AuthData"), k = "Spawn" => Sent("Login"),
         k = "Position" => Sent("Spawn")
  PROVE  /\ added' \in Seq(Kinds)
         /\ Ordered'
         /\ \A q : Sent(q)' <=> Sent(q) \/ q = k
<1>1. added' = Append(added, k)
  BY DEF W!Push
<1>2. \A n \in 2..4 : k = LoginScript[n] => Sent(LoginScript[n - 1])
  <2>1. \A n \in 2..4 : n = 2 \/ n = 3 \/ n = 4
    OBVIOUS
  <2>. QED
    BY <2>1, LoginOrder
<1>. QED
  BY <1>1, <1>2, NextPacket DEF ScriptInv

LEMMA ScriptInit == Init => ScriptInv
<1>. SUFFICES ASSUME Init
              PROVE  ScriptInv
  OBVIOUS
<1>1. added = <<>> /\ DOMAIN added = {} /\ added \in Seq(Kinds)
  BY EmptySeq DEF Init, W!WriteInit
<1>2. \A k : ~Sent(k)
  BY <1>1 DEF Sent
<1>3. Ordered
  BY <1>1 DEF Ordered
<1>4. pc[Net] = "accept" /\ status = "HANDSHAKE"
  BY DEF Init, Threads
<1>. QED
  BY <1>1, <1>2, <1>3, <1>4, ControlInit DEF ScriptInv, StepStatus, Progress

\* What the handlers add is what the table lets come next.
LEMMA ScriptNext == ScriptInv /\ [Next]_vars => ScriptInv'
<1>. SUFFICES ASSUME ScriptInv, [Next]_vars
              PROVE  ScriptInv'
  OBVIOUS
<1>c. ControlTypeOK'
  BY ControlNext DEF ScriptInv
<1>t. /\ Net \in Threads /\ Reg \in Threads /\ Net # Reg
      /\ pc \in [Threads -> Labels] /\ ret \in [Threads -> Labels]
  BY ConnectionAssumption DEF Threads, ScriptInv, ControlTypeOK
<1>i. StepStatus /\ Progress
  BY DEF ScriptInv
\* A step that adds nothing keeps what was sent.
<1>n. ASSUME UNCHANGED added
      PROVE  added' \in Seq(Kinds) /\ Ordered' /\ \A q : Sent(q)' <=> Sent(q)
  BY <1>n DEF ScriptInv, Ordered, Sent
\* A step of another thread, or of the sending half.
<1>q. ASSUME UNCHANGED <<added, status>>, pc'[Net] = pc[Net], ret'[Net] = ret[Net]
      PROVE  ScriptInv'
  <2>1. StepStatus'
    BY <1>q, <1>i DEF StepStatus
  <2>2. Progress'
    BY <1>q, <1>i, <1>n DEF Progress
  <2>. QED
    BY <1>c, <1>n, <1>q, <2>1, <2>2 DEF ScriptInv
\* A step of a handler that adds nothing.
<1>h. ASSUME UNCHANGED <<added, status>>, StepStatus',
             \A l \in {"pingStatus", "loginStatus", "spawn", "position", "playStatus"} :
               pc[Net] # l /\ pc'[Net] # l
      PROVE  ScriptInv'
  <2>1. Progress'
    BY <1>h, <1>i, <1>n DEF Progress
  <2>. QED
    BY <1>c, <1>n, <1>h, <2>1 DEF ScriptInv
\* A kick.
<1>k. ASSUME NEW t \in Threads, NEW l, NEW return, KickStart(t, l, return)
      PROVE  added' \in Seq(Kinds) /\ Ordered'
             /\ \A q : q # "Kick" => (Sent(q)' <=> Sent(q))
  <2>1. W!Push(t, "Kick") /\ "Kick" \in Kinds
    BY <1>k DEF KickStart, Add, Kinds
  <2>. QED
    BY <2>1, AddsNext
<1>1. CASE UNCHANGED vars
  BY <1>1, <1>q DEF vars, flagVars, writeVars
<1>2. CASE ListPlayer
  <2>1. UNCHANGED <<added, status, ret>> /\ pc[Net] = "accept" /\ pc'[Net] = "begin"
    BY <1>2, <1>t DEF ListPlayer, At, Goto, writeVars, flagVars
  <2>2. StepStatus'
    BY <2>1 DEF StepStatus
  <2>. QED
    BY <1>h, <2>1, <2>2
<1>3. CASE BeginConnection \/ HandleRead \/ StartRead \/ UpdatePlayer
  <2>1. UNCHANGED <<added, status, ret>>
        /\ pc[Net] \in {"begin", "idle", "loop", "thrown", "update"}
        /\ pc'[Net] \in {"idle", "loop"}
    BY <1>3, <1>t DEF BeginConnection, HandleRead, StartRead, UpdatePlayer, At, Goto,
       writeVars, flagVars
  <2>2. StepStatus'
    BY <2>1 DEF StepStatus
  <2>. QED
    BY <1>h, <2>1, <2>2
<1>4. CASE HandlePlayerUpdate
  <2>1. UNCHANGED <<added, status, ret>> /\ pc[Net] = "loop" /\ pc'[Net] = "update"
    BY <1>4, <1>t DEF HandlePlayerUpdate, Receive, At, Goto, writeVars, flagVars
  <2>2. StepStatus'
    BY <2>1 DEF StepStatus
  <2>. QED
    BY <1>h, <2>1, <2>2
<1>5. CASE HandleReadError \/ HandleKeepAlive
  BY <1>5, <1>q DEF HandleReadError, HandleKeepAlive, writeVars, flagVars
<1>6. CASE SetName
  <2>1. UNCHANGED <<added, status, ret>> /\ pc[Net] = "setName" /\ pc'[Net] = "auth"
    BY <1>6, <1>t DEF SetName, At, Goto, writeVars, flagVars
  <2>2. StepStatus'
    BY <1>i, <2>1 DEF StepStatus
  <2>. QED
    BY <1>h, <2>1, <2>2
<1>7. CASE CreateCipher
  <2>1. UNCHANGED <<added, status, ret>> /\ pc[Net] = "key"
        /\ pc'[Net] \in {"login", "thrown"}
    BY <1>7, <1>t DEF CreateCipher, At, Goto, writeVars, flagVars,
       W!InstallCipher, W!queueVars
  <2>2. StepStatus'
    BY <1>i, <2>1 DEF StepStatus
  <2>. QED
    BY <1>h, <2>1, <2>2
<1>8. CASE HandleSharedKey
  <2>1. /\ UNCHANGED <<added, status>> /\ status = "LOGIN" /\ pc[Net] = "loop"
        /\ \/ pc'[Net] \in {"thrown", "key"}
           \/ pc'[Net] = "quiet" /\ ret'[Net] = "key"
    BY <1>8, <1>t DEF HandleSharedKey, Receive, At, Goto, writeVars, flagVars
  <2>2. StepStatus'
    BY <2>1 DEF StepStatus
  <2>. QED
    BY <1>h, <2>1, <2>2
<1>9. CASE HandleHandshake
  <2>1. /\ status = "HANDSHAKE" /\ UNCHANGED status /\ pc[Net] = "loop"
        /\ \/ /\ KickStart(Net, "loop", "setName")
              /\ pc'[Net] = "clearRunning" /\ ret'[Net] = "setName"
           \/ UNCHANGED added /\ pc'[Net] = "setName"
    BY <1>9, <1>t DEF HandleHandshake, Receive, KickStart, Add, At, Goto, flagVars,
       writeVars
  <2>2. /\ added' \in Seq(Kinds) /\ Ordered'
        /\ \A q : q # "Kick" => (Sent(q)' <=> Sent(q))
    BY <1>k, <1>n, <1>t, <2>1
  <2>3. StepStatus'
    BY <2>1 DEF StepStatus
  <2>4. Progress'
    BY <1>i, <2>1, <2>2 DEF Progress
  <2>. QED
    BY <1>c, <2>2, <2>3, <2>4 DEF ScriptInv
<1>10. CASE HandleServerPing
  <2>1. /\ status = "HANDSHAKE" /\ UNCHANGED status /\ pc[Net] = "loop"
        /\ pc'[Net] = "pingStatus" /\ W!Push(Net, "PingResponse")
    BY <1>10, <1>t DEF HandleServerPing, Receive, Add, At, Goto, flagVars
  <2>2. ~Sent("PingResponse") /\ "PingResponse" \in Kinds
    BY <1>i, <2>1 DEF Progress, Kinds
  <2>3. /\ added' \in Seq(Kinds) /\ Ordered'
        /\ \A q : Sent(q)' <=> Sent(q) \/ q = "PingResponse"
    BY <1>t, <2>1, <2>2, AddsNext
  <2>4. StepStatus'
    BY <2>1 DEF StepStatus
  <2>5. Progress'
    BY <1>i, <2>1, <2>3 DEF Progress
  <2>. QED
    BY <1>c, <2>3, <2>4, <2>5 DEF ScriptInv
<1>11. CASE SendPacket
  <2>. DEFINE Sends(k, l, next) ==
         UNCHANGED status /\ pc[Net] = l /\ pc'[Net] = next /\ W!Push(Net, k)
  <2>1. \/ Sends("AuthData", "auth", "loginStatus") \/ Sends("Login", "login", "spawn")
        \/ Sends("Spawn", "spawn", "position")
        \/ Sends("Position", "position", "playStatus")
    BY <1>11, <1>t DEF SendPacket, Add, At, Goto, flagVars
  <2>2. {"AuthData", "Login", "Spawn", "Position"} \subseteq Kinds
    BY DEF Kinds
  <2>3. StepStatus'
    BY <1>i, <2>1 DEF StepStatus
  <2>4. ASSUME NEW k \in {"AuthData", "Login", "Spawn", "Position"}, W!Push(Net, k),
               ~Sent(k), k = "Login" => Sent("AuthData"), k = "Spawn" => Sent("Login"),
               k = "Position" => Sent("Spawn"),
               (\A q : Sent(q)' <=> Sent(q) \/ q = k) => Progress'
        PROVE  ScriptInv'
    <3>1. /\ added' \in Seq(Kinds) /\ Ordered'
          /\ \A q : Sent(q)' <=> Sent(q) \/ q = k
      BY <1>t, <2>2, <2>4, AddsNext
    <3>. QED
      BY <1>c, <2>3, <2>4, <3>1 DEF ScriptInv
  <2>5. CASE Sends("AuthData", "auth", "loginStatus")
    BY <1>i, <2>4, <2>5 DEF StepStatus, Progress
  <2>6. CASE Sends("Login", "login", "spawn")
    BY <1>i, <2>4, <2>6 DEF StepStatus, Progress
  <2>7. CASE Sends("Spawn", "spawn", "position")
    BY <1>i, <2>4, <2>7 DEF StepStatus, Progress
  <2>8. CASE Sends("Position", "position", "playStatus")
    BY <1>i, <2>4, <2>8 DEF StepStatus, Progress
  <2>. QED
    BY <2>1, <2>5, <2>6, <2>7, <2>8
<1>12. CASE SetStatus
  <2>1. /\ UNCHANGED added /\ pc'[Net] = "loop"
        /\ \/ pc[Net] = "pingStatus" /\ status' = "PING"
           \/ pc[Net] = "loginStatus" /\ status' = "LOGIN"
           \/ pc[Net] = "playStatus" /\ status' = "PLAY"
    BY <1>12, <1>t DEF SetStatus, At, Goto, writeVars
  <2>2. StepStatus'
    BY <2>1 DEF StepStatus
  <2>3. Progress'
    BY <1>i, <1>n, <2>1 DEF Progress, StepStatus
  <2>. QED
    BY <1>c, <1>n, <2>1, <2>2, <2>3 DEF ScriptInv
<1>13. CASE DisconnectStep(Net)
  <2>1. /\ UNCHANGED <<added, status, ret>>
        /\ \/ pc[Net] = "clearRunning" /\ pc'[Net] = "readName"
           \/ pc[Net] \in {"quiet", "readName"} /\ pc'[Net] = "setMust"
           \/ pc[Net] = "setMust" /\ pc'[Net] = ret[Net]
    BY <1>13, <1>t DEF DisconnectStep, ClearRunning, ReadName, SetMust, At, Goto,
       writeVars, flagVars
  <2>2. StepStatus'
    BY <1>i, <2>1 DEF StepStatus
  <2>3. \A l \in {"pingStatus", "loginStatus", "spawn", "position", "playStatus"} :
          pc[Net] # l /\ pc'[Net] # l
    BY <1>i, <2>1 DEF StepStatus
  <2>. QED
    BY <1>h, <2>1, <2>2, <2>3
<1>14. CASE DisconnectStep(Reg)
  BY <1>14, <1>q, <1>t DEF DisconnectStep, ClearRunning, ReadName, SetMust, At, Goto,
     writeVars, flagVars
<1>15. CASE AfterPing \/ AfterPingMust \/ ClearWritten \/ EndWrite \/ WriteDone
            \/ Transport \/ DestroyConnection
  <2>1. UNCHANGED <<added, status, pc, ret>>
    BY <1>15 DEF AfterPing, AfterPingMust, ClearWritten, EndWrite, WriteDone, Transport,
       DestroyConnection, outer, flagVars, writeVars, W!KeepWritten, W!ClearWritten,
       W!CloseSocket, W!StayOpen, W!WriteDone, W!Transport, W!Transmit, W!Fail,
       W!LosePeer, W!Destroy, W!queueVars
  <2>. QED
    BY <1>q, <2>1
<1>16. ASSUME NEW t \in Threads, WriteCall(t)
       PROVE  ScriptInv'
  <2>1. UNCHANGED <<added, status, pc, ret>>
    BY <1>16 DEF WriteCall, outer, flagVars, W!WriteStep, W!Check, W!Claim,
       W!LockQueue, W!Serialise, W!Erase, W!UnlockQueue, W!Encrypt, W!Post, W!queueVars
  <2>. QED
    BY <1>q, <2>1
<1>17. CASE TickRemove \/ TickAlive \/ KeepAliveTime \/ DeletePlayer \/ Arrive \/ Expire
  BY <1>17, <1>q, <1>t DEF TickRemove, TickAlive, KeepAliveTime, DeletePlayer, Arrive,
     Expire, At, Goto, outer, flagVars, writeVars
<1>18. CASE KeepAliveExpire \/ KickPlayer
  <2>1. UNCHANGED status /\ pc'[Net] = pc[Net] /\ ret'[Net] = ret[Net]
    BY <1>18, <1>t DEF KeepAliveExpire, KickPlayer, KickStart, Add, At, Goto, flagVars
  <2>2. \/ UNCHANGED added
        \/ \E l, return \in Labels : KickStart(Reg, l, return)
    BY <1>18 DEF KeepAliveExpire, KickPlayer, writeVars, Labels
  <2>3. /\ added' \in Seq(Kinds) /\ Ordered'
        /\ \A q : q # "Kick" => (Sent(q)' <=> Sent(q))
    BY <1>k, <1>n, <1>t, <2>2
  <2>4. StepStatus'
    BY <1>i, <2>1 DEF StepStatus
  <2>5. Progress'
    BY <1>i, <2>1, <2>3 DEF Progress
  <2>. QED
    BY <1>c, <2>3, <2>4, <2>5 DEF ScriptInv
<1>. QED
  BY <1>1, <1>t, <1>2, <1>3, <1>4, <1>5, <1>6, <1>7, <1>8, <1>9, <1>10, <1>11,
     <1>12, <1>13, <1>14, <1>15, <1>16, <1>17, <1>18
     DEF Next, NetStep, Client, Tick, RegStep

\* However the client's packets, the ticks and the kicks interleave, the handlers
\* send the answer to a ping or a beginning of the login, and the status says
\* how far it got.
THEOREM ScriptsFollowed == Spec => []ProtocolScript
<1>1. ScriptInv => ProtocolScript
  BY DEF ScriptInv, Ordered, Progress, StepStatus, ProtocolScript
<1>. QED
  BY ScriptInit, ScriptNext, <1>1, PTL DEF Spec

(***************************************************************************)
(* A connection that nobody kicks and that does not time out: only the     *)
(* network thread adds packets, and the theorems of WriteQueueProofs about *)
(* a sending half with that one thread hold of it.                         *)
(***************************************************************************)

Q == INSTANCE WriteQueueProofs
     WITH Threads <- {Net}, wpc <- [t \in {Net} |-> wpc[t]]

Quiet == MaxKicks = 0 /\ Timeouts = FALSE

\* The holder of playersMutex does not work on the connection.
QuietReg ==
  /\ ControlTypeOK
  /\ kicks = 0 /\ ~timedOut
  /\ pc[Reg] \in {"idle", "keepAlive"}
  /\ wpc \in [Threads -> W!WriteLabels \cup W!DoneLabels]
  /\ wpc[Reg] = "idle"

LEMMA QuietInit == Init => QuietReg
<1>. SUFFICES ASSUME Init
              PROVE  QuietReg
  OBVIOUS
<1>1. Reg \in Threads /\ Reg # Net
  BY ConnectionAssumption DEF Threads
<1>. QED
  BY <1>1, ControlInit DEF Init, W!WriteInit, QuietReg, W!WriteLabels

\* Net goes to l in the sending half, and so it does in the one-thread half.
LEMMA NetMoves ==
  ASSUME QuietReg, NEW l \in W!WriteLabels \cup W!DoneLabels, W!Goto(Net, l)
  PROVE  /\ Q!Goto(Net, l)
         /\ wpc' \in [Threads -> W!WriteLabels \cup W!DoneLabels]
         /\ wpc'[Reg] = "idle"
BY ConnectionAssumption DEF QuietReg, W!Goto, Q!Goto, Threads

LEMMA NetAt ==
  /\ \A l : Q!At(Net, l) <=> W!At(Net, l)
  /\ W!WriteLabels \cup W!DoneLabels =
       {"idle", "check", "claim", "lock", "drain", "erase", "encrypt", "post",
        "done", "doneEmpty", "tail", "mustClose"}
BY DEF Q!At, W!At, W!WriteLabels, W!DoneLabels

\* The steps of the sending half are the same in the one-thread half.
LEMMA NetPush ==
  ASSUME QuietReg, NEW k \in Kinds, W!Push(Net, k)
  PROVE  /\ Q!WriteNext
         /\ wpc' \in [Threads -> W!WriteLabels \cup W!DoneLabels]
         /\ wpc'[Reg] = "idle"
<1>1. Q!Push(Net, k)
  BY NetMoves, NetAt DEF W!Push, Q!Push
<1>2. Q!WriteNext
  BY <1>1 DEF Q!WriteNext
<1>. QED
  BY <1>2, NetMoves, NetAt DEF W!Push

LEMMA NetWrites ==
  ASSUME QuietReg, W!WriteStep(Net)
  PROVE  /\ Q!WriteNext
         /\ wpc' \in [Threads -> W!WriteLabels \cup W!DoneLabels]
         /\ wpc'[Reg] = "idle"
<1>. USE NetMoves, NetAt DEF W!queueVars, Q!queueVars
<1>1. CASE W!Check(Net)
  <2>1. PICK l \in {"idle", "claim"} :
          l = (IF isWriting THEN "idle" ELSE "claim") /\ W!Goto(Net, l)
    BY <1>1 DEF W!Check
  <2>2. Q!Goto(Net, l)
    BY <2>1
  <2>3. Q!Goto(Net, IF isWriting THEN "idle" ELSE "claim")
    BY <2>1, <2>2 DEF Q!Goto
  <2>4. Q!Check(Net)
    BY <1>1, <2>3 DEF W!Check, Q!Check
  <2>. QED
    BY <2>1, <2>4 DEF Q!WriteStep, Q!WriteNext
<1>2. CASE W!Claim(Net)
  BY <1>2 DEF W!Claim, Q!Claim, Q!WriteStep, Q!WriteNext
<1>3. CASE W!LockQueue(Net)
  BY <1>3 DEF W!LockQueue, Q!LockQueue, Q!WriteStep, Q!WriteNext
<1>4. CASE W!Serialise(Net)
  BY <1>4 DEF W!Serialise, Q!Serialise, W!Tear, Q!Tear, Q!WriteStep, Q!WriteNext
<1>5. CASE W!Erase(Net)
  BY <1>5 DEF W!Erase, Q!Erase, Q!WriteStep, Q!WriteNext
<1>6. CASE W!UnlockQueue(Net)
  BY <1>6 DEF W!UnlockQueue, Q!UnlockQueue, Q!WriteStep, Q!WriteNext
<1>7. CASE W!Encrypt(Net)
  BY <1>7 DEF W!Encrypt, Q!Encrypt, W!Tear, Q!Tear, W!EncryptAll, Q!EncryptAll,
     Q!WriteStep, Q!WriteNext
<1>8. CASE W!Post(Net)
  BY <1>8 DEF W!Post, Q!Post, Q!WriteStep, Q!WriteNext
<1>. QED
  BY <1>1, <1>2, <1>3, <1>4, <1>5, <1>6, <1>7, <1>8 DEF W!WriteStep

LEMMA NetHandles ==
  ASSUME QuietReg, W!Handler
  PROVE  /\ Q!WriteNext
         /\ wpc' \in [Threads -> W!WriteLabels \cup W!DoneLabels]
         /\ wpc'[Reg] = "idle"
<1>. USE NetMoves, NetAt DEF W!queueVars, Q!queueVars
<1>w. [t \in {Net} |-> wpc[t]][Net] = wpc[Net]
  OBVIOUS
<1>1. ASSUME NEW i \in DOMAIN inflight, W!WriteDone(i)
      PROVE  Q!WriteDone(i) /\ \E l \in W!DoneLabels : W!Goto(Net, l)
  <2>1. PICK l \in W!DoneLabels :
          /\ l = (IF inflight[i].state = "failed" THEN "tail"
                  ELSE IF inflight[i].data = <<>> THEN "doneEmpty" ELSE "done")
          /\ W!Goto(Net, l)
    BY <1>1 DEF W!WriteDone, W!DoneLabels
  <2>2. Q!Goto(Net, l)
    BY <2>1
  <2>3. Q!Goto(Net, IF inflight[i].state = "failed" THEN "tail"
                    ELSE IF inflight[i].data = <<>> THEN "doneEmpty" ELSE "done")
    BY <2>1, <2>2 DEF Q!Goto
  <2>. QED
    BY <1>1, <2>1, <2>3 DEF W!WriteDone, Q!WriteDone, W!Without, Q!Without
<1>2. ASSUME W!ClearWritten
      PROVE  Q!ClearWritten /\ W!Goto(Net, "tail")
  BY <1>2, <1>w DEF W!ClearWritten, Q!ClearWritten, W!Tear, Q!Tear
<1>3. ASSUME W!KeepWritten
      PROVE  Q!KeepWritten /\ W!Goto(Net, "mustClose")
  BY <1>3 DEF W!KeepWritten, Q!KeepWritten
<1>4. ASSUME W!CloseSocket
      PROVE  Q!CloseSocket /\ W!Goto(Net, "idle")
  BY <1>4, <1>w DEF W!CloseSocket, Q!CloseSocket
<1>5. ASSUME W!StayOpen
      PROVE  Q!StayOpen /\ W!Goto(Net, "idle")
  BY <1>5 DEF W!StayOpen, Q!StayOpen
<1>6. Q!Handler /\ \E l \in W!WriteLabels \cup W!DoneLabels : W!Goto(Net, l)
  BY <1>1, <1>2, <1>3, <1>4, <1>5 DEF W!Handler, Q!Handler
<1>7. Q!WriteNext
  BY <1>6 DEF Q!WriteNext
<1>. QED
  BY <1>6, <1>7

LEMMA NetRest ==
  ASSUME QuietReg, W!Transport \/ W!InstallCipher \/ W!Destroy
  PROVE  Q!WriteNext /\ UNCHANGED wpc
<1>. USE NetAt DEF W!queueVars, Q!queueVars
<1>1. ASSUME W!Transport
      PROVE  Q!Transport /\ UNCHANGED wpc
  BY <1>1 DEF W!Transport, Q!Transport, W!Transmit, Q!Transmit, W!Fail, Q!Fail,
     W!LosePeer, Q!LosePeer, W!Settle, Q!Settle, W!Garbage, Q!Garbage
<1>2. ASSUME W!InstallCipher
      PROVE  Q!InstallCipher /\ UNCHANGED wpc
  BY <1>2 DEF W!InstallCipher, Q!InstallCipher
<1>3. ASSUME W!Destroy
      PROVE  Q!Destroy /\ UNCHANGED wpc
  <2>1. \A t \in {Net} : Q!At(t, "idle")
    BY <1>3 DEF W!Destroy, Threads
  <2>. QED
    BY <1>3, <2>1 DEF W!Destroy, Q!Destroy
<1>. QED
  BY <1>1, <1>2, <1>3 DEF Q!WriteNext

\* Nobody but Net adds packets, and what it does is what one thread may do.
LEMMA QuietStep ==
  ASSUME Quiet, QuietReg, [Next]_vars
  PROVE  QuietReg' /\ (Q!WriteNext \/ UNCHANGED Q!writeVars)
<1>t. /\ Net \in Threads /\ Reg \in Threads /\ Net # Reg /\ Threads = {Net, Reg}
      /\ pc[Reg] \in {"idle", "keepAlive"} /\ wpc[Reg] = "idle"
      /\ kicks = 0 /\ ~timedOut
      /\ MaxKicks = 0 /\ Timeouts = FALSE
      /\ pc \in [Threads -> Labels]
  BY ConnectionAssumption DEF Threads, QuietReg, Quiet, ControlTypeOK
<1>c. ControlTypeOK'
  BY ControlNext DEF QuietReg
<1>. DEFINE Calm == /\ wpc' \in [Threads -> W!WriteLabels \cup W!DoneLabels]
                   /\ wpc'[Reg] = "idle"
            RegRests == kicks' = 0 /\ ~timedOut' /\ pc'[Reg] \in {"idle", "keepAlive"}
            Sends == Q!WriteNext \/ UNCHANGED Q!writeVars
<1>s. UNCHANGED writeVars => Calm /\ Sends
  BY DEF QuietReg, writeVars, Q!writeVars, Q!queueVars
<1>r. UNCHANGED <<kicks, timedOut, pc>> => RegRests
  BY <1>t
<1>. SUFFICES Calm /\ Sends /\ RegRests
  BY <1>c DEF QuietReg
<1>1. CASE UNCHANGED vars
  BY <1>1, <1>s, <1>r DEF vars, flagVars, envVars
<1>2. CASE ListPlayer \/ BeginConnection \/ HandleRead \/ StartRead \/ SetName
           \/ HandleSharedKey \/ SetStatus \/ HandlePlayerUpdate \/ UpdatePlayer
  <2>1. UNCHANGED <<writeVars, kicks, timedOut>> /\ \E l : Goto(Net, l)
    BY <1>2 DEF ListPlayer, BeginConnection, HandleRead, StartRead, SetName,
       HandleSharedKey, SetStatus, HandlePlayerUpdate, UpdatePlayer, flagVars, envVars
  <2>. QED
    BY <1>s, <1>t, <2>1 DEF Goto
<1>3. CASE HandleReadError \/ HandleKeepAlive \/ AfterPingMust \/ Arrive
           \/ TickRemove
  <2>1. UNCHANGED <<writeVars, kicks, pc>> /\ (timedOut' = timedOut \/ ~timedOut')
    BY <1>3 DEF HandleReadError, HandleKeepAlive, AfterPingMust, Arrive, TickRemove,
       flagVars, envVars
  <2>. QED
    BY <1>s, <1>t, <2>1
<1>4. CASE TickAlive \/ KeepAliveTime
  <2>1. UNCHANGED <<writeVars, kicks, timedOut>> /\ pc'[Reg] \in {"idle", "keepAlive"}
    BY <1>4, <1>t DEF TickAlive, KeepAliveTime, Goto, outer, flagVars, envVars
  <2>. QED
    BY <1>s, <1>t, <2>1
<1>5. CASE KeepAliveExpire \/ KickPlayer \/ DeletePlayer \/ Expire \/ DisconnectStep(Reg)
           \/ WriteCall(Reg)
  BY <1>5, <1>t DEF KeepAliveExpire, KickPlayer, DeletePlayer, Expire, DisconnectStep,
     ClearRunning, ReadName, SetMust, WriteCall, At, W!WriteStep, W!Check, W!Claim,
     W!LockQueue, W!Serialise, W!Erase, W!UnlockQueue, W!Encrypt, W!Post, W!At
<1>6. CASE DisconnectStep(Net)
  <2>1. UNCHANGED <<writeVars, kicks, timedOut>> /\ \E l : Goto(Net, l)
    BY <1>6 DEF DisconnectStep, ClearRunning, ReadName, SetMust, flagVars, envVars
  <2>. QED
    BY <1>s, <1>t, <2>1 DEF Goto
<1>7. CASE HandleServerPing \/ HandleHandshake \/ SendPacket
  <2>1. UNCHANGED <<kicks, timedOut>> /\ \E l : Goto(Net, l)
    BY <1>7 DEF HandleServerPing, HandleHandshake, SendPacket, KickStart, Add, flagVars,
       envVars
  <2>2. RegRests
    BY <1>t, <2>1 DEF Goto
  <2>3. UNCHANGED writeVars \/ \E k \in Kinds : W!Push(Net, k)
    BY <1>7 DEF HandleServerPing, HandleHandshake, SendPacket, KickStart, Add, Kinds
  <2>. QED
    BY <1>s, <2>2, <2>3, NetPush
<1>8. CASE CreateCipher
  <2>1. UNCHANGED <<kicks, timedOut>> /\ \E l : Goto(Net, l)
    BY <1>8 DEF CreateCipher, flagVars, envVars
  <2>2. RegRests
    BY <1>t, <2>1 DEF Goto
  <2>3. UNCHANGED writeVars \/ W!InstallCipher
    BY <1>8 DEF CreateCipher
  <2>. QED
    BY <1>s, <1>t, <2>2, <2>3, NetRest DEF QuietReg
<1>9. CASE AfterPing \/ ClearWritten \/ EndWrite \/ WriteDone
  <2>1. UNCHANGED <<kicks, timedOut, pc>> /\ W!Handler
    BY <1>9 DEF AfterPing, ClearWritten, EndWrite, WriteDone, outer, flagVars, envVars,
       W!Handler
  <2>. QED
    BY <1>r, <2>1, NetHandles
<1>10. CASE Transport \/ DestroyConnection
  <2>1. UNCHANGED <<kicks, timedOut, pc>> /\ (W!Transport \/ W!Destroy)
    BY <1>10 DEF Transport, DestroyConnection, outer, flagVars, envVars
  <2>. QED
    BY <1>r, <1>t, <2>1, NetRest DEF QuietReg
<1>11. CASE WriteCall(Net)
  <2>1. UNCHANGED <<kicks, timedOut, pc>> /\ W!WriteStep(Net)
    BY <1>11 DEF WriteCall, outer, flagVars, envVars
  <2>. QED
    BY <1>r, <2>1, NetWrites
<1>. QED
  BY <1>t, <1>1, <1>2, <1>3, <1>4, <1>5, <1>6, <1>7, <1>8, <1>9, <1>10, <1>11
     DEF Next, NetStep, Client, Tick, RegStep

\* So a quiet connection is a sending half used by one thread.
LEMMA QuietWriteInit == Init => Q!WriteInit
<1>. SUFFICES ASSUME Init
              PROVE  Q!WriteInit
  OBVIOUS
<1>1. [t \in {Net} |-> wpc[t]] = [t \in {Net} |-> "idle"]
  BY DEF Init, W!WriteInit, Threads
<1>. QED
  BY <1>1 DEF Init, W!WriteInit, Q!WriteInit

LEMMA QuietHalf ==
  ASSUME Quiet
  PROVE  Spec => []QuietReg /\ Q!WriteSpec
<1>1. Init => QuietReg /\ Q!WriteInit
  BY QuietInit, QuietWriteInit
<1>2. QuietReg /\ [Next]_vars => QuietReg' /\ [Q!WriteNext]_(Q!writeVars)
  BY QuietStep
<1>. QED
  BY <1>1, <1>2, PTL DEF Spec, Q!WriteSpec

LEMMA QuietAssumption == Q!WriteQueueAssumption
BY ConnectionAssumption DEF Q!WriteQueueAssumption

\* While nobody kicks the player and it does not time out, the write buffer has
\* one user at a time, and none while the kernel reads it.
THEOREM QuietBufferExclusive ==
  ASSUME Quiet
  PROVE  Spec => []BufferExclusive
<1>1. Q!WriteSpec => []Q!BufferExclusive
  BY QuietAssumption, Q!BufferIsExclusive
<1>2. ASSUME QuietReg, Q!BufferExclusive
      PROVE  BufferExclusive
  <2>1. \A t \in Threads : W!Touching(t) => t = Net /\ Q!Touching(Net)
    BY <1>2 DEF QuietReg, Threads, W!Touching, Q!Touching
  <2>. QED
    BY <1>2, <2>1 DEF BufferExclusive, W!BufferExclusive, Q!BufferExclusive
<1>. QED
  BY <1>1, <1>2, QuietHalf, PTL

\* And the client receives the packets in the order they were added, as the
\* abstract pipe promises.
THEOREM QuietIsPipe ==
  ASSUME Quiet
  PROVE  Spec => PipeSpec
<1>1. Q!WriteSpec => Q!PipeSpec
  BY QuietAssumption, Q!ConnectionIsPipe
<1>2. W!Received = Q!Received
  BY DEF W!Received, Q!Received
<1>3. Q!Pipe!Init => W!Pipe!Init
  BY <1>2 DEF Q!Pipe!Init, W!Pipe!Init
<1>4. [Q!Pipe!Next]_(Q!Pipe!pipeVars) => [W!Pipe!Next]_(W!Pipe!pipeVars)
  <2>1. UNCHANGED Q!Pipe!pipeVars => UNCHANGED W!Pipe!pipeVars
    BY <1>2 DEF Q!Pipe!pipeVars, W!Pipe!pipeVars, W!Received, Q!Received
  <2>2. Q!Pipe!Next => W!Pipe!Next
    BY DEF Q!Pipe!Next, W!Pipe!Next, Q!Pipe!Add, W!Pipe!Add, Q!Pipe!Deliver,
       W!Pipe!Deliver, Q!Pipe!FirstPackets, W!Pipe!FirstPackets, W!Received, Q!Received
  <2>. QED
    BY <2>1, <2>2
<1>. QED
  BY <1>1, <1>3, <1>4, QuietHalf, PTL
     DEF PipeSpec, W!PipeSpec, Q!PipeSpec, W!Pipe!Spec, Q!Pipe!Spec

(***************************************************************************)
(* What a quiet connection sends in the clear and what encrypted.          *)
(***************************************************************************)

\* The network thread serialises packets, or a write of the buffer is posted.
Building == \/ wpc[Net] \in {"drain", "erase", "encrypt", "post"}
            \/ Len(inflight) = 1 /\ inflight[1].state = "posted"

\* What WriteQueueProofs knows of the one-thread half, said of the connection.
OneThread ==
  /\ added \in Seq(Kinds) /\ inflight \in Seq(W!Writes)
  /\ wire \in Seq(W!Entries) /\ writeBuffer \in Seq(W!Entries)
  /\ Len(inflight) \in {0, 1}
  /\ isWriting <=> \/ Len(inflight) = 1
                   \/ wpc[Net] \in {"lock", "drain", "erase", "encrypt", "post"}
  /\ wpc[Net] \notin {"idle", "check"} => Len(inflight) = 0
  /\ Len(inflight) = 1 /\ inflight[1].state = "posted" =>
       ~inflight[1].torn /\ inflight[1].data = writeBuffer
  /\ Len(served) \in Nat /\ Len(wire) <= Len(served) /\ Len(served) <= Len(added)
  /\ wpc[Net] = "drain" /\ queue = <<>> => Len(served) = Len(added)
  /\ \A i \in 1..Len(wire) : wire[i].id = i /\ wire[i].enc \in {0, 1}
  /\ sock = "open" /\ Building =>
       /\ Len(served) = Len(wire) + Len(writeBuffer)
       /\ \A i \in 1..Len(writeBuffer) : writeBuffer[i].id = Len(wire) + i
  /\ sock = "open" /\ wpc[Net] \in {"drain", "erase", "encrypt"} =>
       \A i \in 1..Len(writeBuffer) : writeBuffer[i].enc = 0

LEMMA OneThreadHolds == Q!SwitchInv => OneThread
<1>. SUFFICES ASSUME Q!SwitchInv
              PROVE  OneThread
  OBVIOUS
<1>1. Q!TypeOK /\ Q!ServedInv /\ Q!OneWrite /\ Q!InOrder /\ Q!EncInv
  BY DEF Q!SwitchInv, Q!PipeInv, Q!OnceInv
<1>2. Q!Shapes!2
  BY <1>1, QuietAssumption, Q!Shapes
<1>3. /\ added \in Seq(Kinds) /\ inflight \in Seq(W!Writes)
      /\ wire \in Seq(W!Entries) /\ writeBuffer \in Seq(W!Entries)
  BY <1>1 DEF Q!TypeOK, Q!Writes, Q!Entries, W!Writes, W!Entries
<1>4. [t \in {Net} |-> wpc[t]][Net] = wpc[Net]
  OBVIOUS
<1>5. /\ Len(added) \in Nat /\ Len(queue) \in Nat /\ Len(served) \in Nat
      /\ Len(wire) \in Nat /\ Len(writeBuffer) \in Nat /\ Len(inflight) \in Nat
      /\ DOMAIN inflight = 1..Len(inflight) /\ DOMAIN wire = 1..Len(wire)
      /\ DOMAIN writeBuffer = 1..Len(writeBuffer)
      /\ \A i \in DOMAIN wire : wire[i].enc \in Nat
  BY <1>2
<1>6. /\ Len(inflight) \in {0, 1}
      /\ inflight = <<>> <=> Len(inflight) = 0
      /\ queue = <<>> <=> Len(queue) = 0
  <2>1. Len(inflight) <= 1
    BY <1>1 DEF Q!OneWrite
  <2>2. \A S : \A s \in Seq(S) : s = <<>> <=> Len(s) = 0
    BY EmptySeq
  <2>3. queue \in Seq(Nat)
    BY <1>1 DEF Q!TypeOK
  <2>. QED
    BY <1>3, <1>5, <2>1, <2>2, <2>3
<1>7. /\ isWriting <=> \/ Len(inflight) = 1
                       \/ wpc[Net] \in {"lock", "drain", "erase", "encrypt", "post"}
      /\ wpc[Net] \notin {"idle", "check"} => Len(inflight) = 0
      /\ Len(inflight) = 1 /\ inflight[1].state = "posted" =>
           ~inflight[1].torn /\ inflight[1].data = writeBuffer
  BY <1>1, <1>4, <1>5, <1>6 DEF Q!OneWrite
<1>8. /\ Len(served) <= Len(added)
      /\ wpc[Net] = "drain" /\ queue = <<>> => Len(served) = Len(added)
  <2>1. CASE wpc[Net] = "erase"
    BY <1>1, <1>4, <1>5, <1>6, <2>1 DEF Q!ServedInv, Q!At
  <2>2. CASE wpc[Net] # "erase"
    BY <1>1, <1>4, <1>5, <1>6, <2>2 DEF Q!ServedInv, Q!At
  <2>. QED
    BY <2>1, <2>2
<1>9. \A i \in 1..Len(wire) : wire[i].id = i /\ wire[i].enc \in {0, 1}
  BY <1>1, <1>5 DEF Q!InOrder, Q!EncInv, Q!SwitchedOnce
<1>10. Building => ~Q!Delivered
  BY <1>4, <1>5, <1>6, <1>7 DEF Building, Q!Delivered
<1>11. sock = "open" /\ Building =>
         /\ Len(served) = Len(wire) + Len(writeBuffer)
         /\ \A i \in 1..Len(writeBuffer) : writeBuffer[i].id = Len(wire) + i
  BY <1>1, <1>5, <1>10 DEF Q!InOrder
<1>12. sock = "open" /\ wpc[Net] \in {"drain", "erase", "encrypt"} =>
         \A i \in 1..Len(writeBuffer) : writeBuffer[i].enc = 0
  BY <1>1, <1>4, <1>5, <1>10 DEF Q!EncInv, Building
<1>13. Len(wire) <= Len(served)
  BY <1>1 DEF Q!InOrder
<1>. QED
  BY <1>3, <1>5, <1>6, <1>7, <1>8, <1>9, <1>11, <1>12, <1>13 DEF OneThread

(***************************************************************************)
(* The first packet: an answer in the clear, or the kick of a client that  *)
(* is refused, whose write ends in a close.                                *)
(***************************************************************************)

\* There is a cipher from handleSharedKeyPacket on (not only when quiet).
CipherInv ==
  cipher <=> \/ status = "PLAY"
             \/ pc[Net] \in {"login", "spawn", "position", "playStatus"}

LEMMA CipherNext ==
  ASSUME ScriptInv, CipherInv, [Next]_vars
  PROVE  CipherInv'
<1>t. /\ Net \in Threads /\ Reg \in Threads /\ Net # Reg
      /\ pc \in [Threads -> Labels] /\ StepStatus
  BY ConnectionAssumption DEF Threads, ScriptInv, ControlTypeOK
\* A step of another thread, or of the sending half.
<1>q. ASSUME UNCHANGED <<cipher, status>>, pc'[Net] = pc[Net]
      PROVE  CipherInv'
  BY <1>q DEF CipherInv
\* A step of a handler that is not the login's.
<1>h. ASSUME UNCHANGED <<cipher, status>>,
             pc[Net] \notin {"login", "spawn", "position", "playStatus"},
             pc'[Net] \notin {"login", "spawn", "position", "playStatus"}
      PROVE  CipherInv'
  BY <1>h DEF CipherInv
<1>1. CASE UNCHANGED vars
  BY <1>1, <1>q DEF vars, flagVars, writeVars
<1>2. CASE ListPlayer \/ BeginConnection \/ HandleRead \/ StartRead \/ SetName
           \/ HandleSharedKey \/ HandlePlayerUpdate \/ UpdatePlayer
  BY <1>2, <1>h, <1>t DEF ListPlayer, BeginConnection, HandleRead, StartRead, SetName,
     HandleSharedKey, Receive, HandlePlayerUpdate, UpdatePlayer, At, Goto, flagVars,
     writeVars
<1>3. CASE HandleReadError \/ HandleKeepAlive \/ AfterPingMust \/ Arrive \/ TickRemove
           \/ TickAlive \/ KeepAliveTime \/ DeletePlayer \/ Expire \/ DisconnectStep(Reg)
  BY <1>3, <1>q, <1>t DEF HandleReadError, HandleKeepAlive, AfterPingMust, Arrive,
     TickRemove, TickAlive, KeepAliveTime, DeletePlayer, Expire, DisconnectStep,
     ClearRunning, ReadName, SetMust, At, Goto, outer, flagVars, writeVars
<1>4. CASE DisconnectStep(Net)
  <2>1. /\ UNCHANGED <<cipher, status>>
        /\ \/ pc[Net] \in {"clearRunning", "quiet", "readName"}
              /\ pc'[Net] \in {"readName", "setMust"}
           \/ pc[Net] = "setMust" /\ pc'[Net] = ret[Net]
    BY <1>4, <1>t DEF DisconnectStep, ClearRunning, ReadName, SetMust, At, Goto,
       writeVars, flagVars
  <2>. QED
    BY <1>h, <1>t, <2>1 DEF StepStatus
<1>5. CASE CreateCipher
  <2>1. /\ pc[Net] = "key" /\ UNCHANGED status
        /\ \/ cipher' = TRUE /\ pc'[Net] = "login"
           \/ UNCHANGED cipher /\ pc'[Net] = "thrown"
    BY <1>5, <1>t DEF CreateCipher, At, Goto, flagVars, writeVars, W!InstallCipher
  <2>. QED
    BY <1>t, <2>1 DEF CipherInv, StepStatus
<1>6. CASE HandleServerPing \/ HandleHandshake
  BY <1>6, <1>h, <1>t DEF HandleServerPing, HandleHandshake, Receive, KickStart, Add,
     At, Goto, W!Push, flagVars, writeVars
<1>7. CASE SendPacket
  <2>1. /\ UNCHANGED <<cipher, status>>
        /\ \/ pc[Net] = "auth" /\ pc'[Net] = "loginStatus"
           \/ /\ pc[Net] \in {"login", "spawn", "position"}
              /\ pc'[Net] \in {"spawn", "position", "playStatus"}
    BY <1>7, <1>t DEF SendPacket, Add, At, Goto, W!Push, flagVars
  <2>. QED
    BY <2>1 DEF CipherInv
<1>8. CASE SetStatus
  <2>1. /\ UNCHANGED cipher /\ pc'[Net] = "loop"
        /\ \/ pc[Net] \in {"pingStatus", "loginStatus"} /\ status' \in {"PING", "LOGIN"}
           \/ pc[Net] = "playStatus" /\ status' = "PLAY"
    BY <1>8, <1>t DEF SetStatus, At, Goto, writeVars
  <2>. QED
    BY <1>t, <2>1 DEF CipherInv, StepStatus
<1>9. CASE AfterPing \/ ClearWritten \/ EndWrite \/ WriteDone \/ Transport
           \/ DestroyConnection
  <2>1. UNCHANGED <<cipher, status, pc>>
    BY <1>9 DEF AfterPing, ClearWritten, EndWrite, WriteDone, Transport,
       DestroyConnection, outer, flagVars, W!KeepWritten, W!ClearWritten, W!CloseSocket,
       W!StayOpen, W!WriteDone, W!Transport, W!Transmit, W!Fail, W!LosePeer, W!Destroy
  <2>. QED
    BY <1>q, <2>1
<1>10. ASSUME NEW t \in Threads, WriteCall(t)
       PROVE  CipherInv'
  <2>1. UNCHANGED <<cipher, status, pc>>
    BY <1>10 DEF WriteCall, outer, flagVars, W!WriteStep, W!Check, W!Claim,
       W!LockQueue, W!Serialise, W!Erase, W!UnlockQueue, W!Encrypt, W!Post
  <2>. QED
    BY <1>q, <2>1
<1>11. CASE KeepAliveExpire \/ KickPlayer
  BY <1>11, <1>q, <1>t DEF KeepAliveExpire, KickPlayer, KickStart, Add, At, Goto,
     W!Push, flagVars, writeVars
<1>. QED
  BY <1>t, <1>1, <1>2, <1>3, <1>4, <1>5, <1>6, <1>7, <1>8, <1>9, <1>10, <1>11
     DEF Next, NetStep, Client, Tick, RegStep

Kicked == Len(added) >= 1 /\ added[1] = "Kick"

\* What the handlers add first, and where a handler that kicks is.
FirstPacket ==
  /\ status = "HANDSHAKE" /\ pc[Net] \notin {"pingStatus", "loginStatus"} =>
       \/ Len(added) = 0
       \/ /\ Len(added) = 1 /\ added[1] = "Kick"
          /\ pc[Net] \in {"clearRunning", "readName", "setMust", "setName", "auth"}
  /\ Sent("PingResponse") => added[1] = "PingResponse"
  /\ Sent("AuthData") => added[1] \in {"AuthData", "Kick"}
  /\ Kicked => mustDisconnect \/ pc[Net] \in {"clearRunning", "readName", "setMust"}

LEMMA SentOne ==
  ASSUME added \in Seq(Kinds)
  PROVE  /\ Len(added) \in Nat /\ DOMAIN added = 1..Len(added)
         /\ \A k : Sent(k) <=> \E i \in 1..Len(added) : added[i] = k
         /\ \A k : Sent(k) => Len(added) >= 1
<1>1. Len(added) \in Nat /\ DOMAIN added = 1..Len(added)
  BY LenProperties
<1>2. \A k : Sent(k) <=> \E i \in 1..Len(added) : added[i] = k
  BY <1>1 DEF Sent
<1>. QED
  BY <1>1, <1>2

LEMMA Pushed ==
  ASSUME added \in Seq(Kinds), NEW t \in Threads, NEW k \in Kinds, W!Push(t, k)
  PROVE  /\ Len(added) \in Nat /\ Len(added') = Len(added) + 1
         /\ added'[Len(added) + 1] = k
         /\ \A i \in 1..Len(added) : added'[i] = added[i]
<1>1. added' = Append(added, k)
  BY DEF W!Push
<1>. QED
  BY <1>1, AppendProperties, LenProperties

LEMMA FirstPacketNext ==
  ASSUME Quiet, QuietReg, ScriptInv, ScriptInv', FirstPacket, [Next]_vars
  PROVE  FirstPacket'
<1>t. /\ Net \in Threads /\ Reg \in Threads /\ Net # Reg
      /\ pc \in [Threads -> Labels] /\ StepStatus /\ Progress /\ Progress'
      /\ added \in Seq(Kinds)
  BY ConnectionAssumption DEF Threads, ScriptInv, ControlTypeOK
<1>l. /\ Len(added) \in Nat
      /\ \A k : Sent(k) => Len(added) >= 1
  BY <1>t, SentOne
\* Nothing is added.
<1>n. ASSUME UNCHANGED added, mustDisconnect => mustDisconnect',
             \/ status' = status /\ pc'[Net] = pc[Net]
             \/ /\ status' = "HANDSHAKE" =>
                     /\ status = "HANDSHAKE"
                     /\ pc[Net] \notin {"pingStatus", "loginStatus"}
                     /\ pc[Net] \in {"clearRunning", "readName", "setMust", "setName", "auth"} =>
                          pc'[Net] \in {"clearRunning", "readName", "setMust", "setName", "auth"}
                /\ pc[Net] \in {"clearRunning", "readName", "setMust"} =>
                     pc'[Net] \in {"clearRunning", "readName", "setMust"} \/ mustDisconnect'
      PROVE  FirstPacket'
  <2>1. \A k : Sent(k)' <=> Sent(k)
    BY <1>n DEF Sent
  <2>. QED
    BY <1>n, <2>1 DEF FirstPacket, Kicked
<1>1. CASE UNCHANGED vars
  BY <1>1, <1>n DEF vars, flagVars, writeVars
<1>2. CASE ListPlayer \/ BeginConnection \/ HandleRead \/ StartRead \/ SetName
           \/ HandleSharedKey \/ HandlePlayerUpdate \/ UpdatePlayer
  <2>1. /\ UNCHANGED <<added, mustDisconnect, status>>
        /\ \/ pc[Net] \in {"accept", "begin", "idle", "loop", "thrown", "update"}
           \/ pc[Net] = "setName" /\ pc'[Net] = "auth"
    BY <1>2, <1>t DEF ListPlayer, BeginConnection, HandleRead, StartRead, SetName,
       HandleSharedKey, Receive, HandlePlayerUpdate, UpdatePlayer, At, Goto, flagVars,
       writeVars
  <2>. QED
    BY <1>n, <2>1
<1>3. CASE HandleReadError \/ HandleKeepAlive \/ AfterPingMust \/ Arrive \/ TickRemove
           \/ TickAlive \/ KeepAliveTime \/ DeletePlayer \/ Expire \/ DisconnectStep(Reg)
  BY <1>3, <1>n, <1>t DEF HandleReadError, HandleKeepAlive, AfterPingMust, Arrive,
     TickRemove, TickAlive, KeepAliveTime, DeletePlayer, Expire, DisconnectStep,
     ClearRunning, ReadName, SetMust, At, Goto, outer, flagVars, writeVars
<1>4. CASE DisconnectStep(Net)
  <2>1. /\ UNCHANGED <<added, status>>
        /\ \/ /\ pc[Net] \in {"clearRunning", "quiet", "readName"}
              /\ pc'[Net] \in {"readName", "setMust"} /\ UNCHANGED mustDisconnect
           \/ pc[Net] = "setMust" /\ pc'[Net] = ret[Net] /\ mustDisconnect'
    BY <1>4, <1>t DEF DisconnectStep, ClearRunning, ReadName, SetMust, At, Goto,
       writeVars, flagVars
  <2>. QED
    BY <1>n, <1>t, <2>1 DEF StepStatus
<1>5. CASE CreateCipher
  <2>1. UNCHANGED <<added, status, mustDisconnect>> /\ pc[Net] = "key"
    BY <1>5, <1>t DEF CreateCipher, At, Goto, flagVars, writeVars, W!InstallCipher,
       W!queueVars
  <2>. QED
    BY <1>n, <2>1
<1>6. CASE HandleServerPing
  <2>1. /\ status = "HANDSHAKE" /\ pc[Net] = "loop" /\ UNCHANGED status
        /\ pc'[Net] = "pingStatus"
        /\ W!Push(Net, "PingResponse") /\ "PingResponse" \in Kinds
    BY <1>6, <1>t DEF HandleServerPing, Receive, Add, At, Goto, flagVars, Kinds
  <2>2. Len(added') = 1 /\ added'[1] = "PingResponse"
    BY <1>t, <1>l, <2>1, Pushed DEF FirstPacket
  <2>3. ~Sent("AuthData")'
    BY <1>t, <2>1 DEF Progress
  <2>. QED
    BY <2>1, <2>2, <2>3 DEF FirstPacket, Kicked
<1>7. CASE HandleHandshake
  <2>1. /\ status = "HANDSHAKE" /\ pc[Net] = "loop"
        /\ UNCHANGED <<status, mustDisconnect>>
        /\ \/ /\ W!Push(Net, "Kick") /\ pc'[Net] = "clearRunning"
           \/ UNCHANGED added /\ pc'[Net] = "setName"
    BY <1>7, <1>t DEF HandleHandshake, Receive, KickStart, Add, At, Goto, flagVars,
       writeVars
  <2>2. CASE UNCHANGED added /\ pc'[Net] = "setName"
    BY <1>n, <2>1, <2>2
  <2>3. CASE W!Push(Net, "Kick") /\ pc'[Net] = "clearRunning"
    <3>1. Len(added') = 1 /\ added'[1] = "Kick"
      <4>1. "Kick" \in Kinds
        BY DEF Kinds
      <4>. QED
        BY <1>t, <1>l, <2>1, <2>3, <4>1, Pushed DEF FirstPacket
    <3>2. ~Sent("AuthData")' /\ ~Sent("PingResponse")'
      BY <1>t, <2>1, <2>3 DEF Progress
    <3>. QED
      BY <2>1, <2>3, <3>1, <3>2 DEF FirstPacket
  <2>. QED
    BY <2>1, <2>2, <2>3
<1>8. CASE SendPacket
  <2>1. PICK k \in {"AuthData", "Login", "Spawn", "Position"} :
          /\ W!Push(Net, k) /\ UNCHANGED <<status, mustDisconnect>>
          /\ \/ k = "AuthData" /\ pc[Net] = "auth" /\ pc'[Net] = "loginStatus"
             \/ k # "AuthData" /\ pc[Net] \in {"login", "spawn", "position"}
    BY <1>8, <1>t DEF SendPacket, Add, At, Goto, flagVars
  <2>2. k \in Kinds
    BY DEF Kinds
  <2>3. /\ Len(added') = Len(added) + 1
        /\ added'[1] = IF Len(added) = 0 THEN k ELSE added[1]
    BY <1>t, <1>l, <2>1, <2>2, Pushed
  <2>4. CASE k = "AuthData"
    <3>1. status = "HANDSHAKE" /\ (Len(added) = 0 \/ added[1] = "Kick")
      BY <1>t, <2>1, <2>4 DEF StepStatus, FirstPacket
    <3>2. ~Sent("PingResponse")'
      BY <1>t, <2>1, <2>4, <3>1 DEF Progress
    <3>. QED
      BY <1>l, <2>1, <2>3, <2>4, <3>1, <3>2 DEF FirstPacket, Kicked
  <2>5. CASE k # "AuthData"
    <3>1. status = "LOGIN" /\ Sent("AuthData")
      BY <1>t, <2>1, <2>5 DEF StepStatus, Progress
    <3>2. ~Sent("PingResponse")'
      <4>1. status' = "LOGIN" /\ pc'[Net] # "pingStatus"
        BY <1>t, <2>1, <3>1 DEF ScriptInv, StepStatus
      <4>. QED
        BY <1>t, <4>1 DEF Progress
    <3>. QED
      BY <1>l, <2>1, <2>3, <2>5, <3>1, <3>2 DEF FirstPacket, Kicked
  <2>. QED
    BY <2>4, <2>5
<1>9. CASE SetStatus
  <2>1. /\ UNCHANGED <<added, mustDisconnect>> /\ status' # "HANDSHAKE"
        /\ pc[Net] \in {"pingStatus", "loginStatus", "playStatus"}
    BY <1>9, <1>t DEF SetStatus, At, Goto, writeVars
  <2>. QED
    BY <1>n, <2>1
<1>10. CASE AfterPing \/ ClearWritten \/ EndWrite \/ WriteDone \/ Transport
            \/ DestroyConnection
  <2>1. UNCHANGED <<added, status, pc, mustDisconnect>>
    BY <1>10 DEF AfterPing, ClearWritten, EndWrite, WriteDone, Transport,
       DestroyConnection, outer, flagVars, W!KeepWritten, W!ClearWritten, W!CloseSocket,
       W!StayOpen, W!WriteDone, W!Transport, W!Transmit, W!Fail, W!LosePeer, W!Destroy,
       W!queueVars
  <2>. QED
    BY <1>n, <2>1
<1>11. ASSUME NEW t \in Threads, WriteCall(t)
       PROVE  FirstPacket'
  <2>1. UNCHANGED <<added, status, pc, mustDisconnect>>
    BY <1>11 DEF WriteCall, outer, flagVars, W!WriteStep, W!Check, W!Claim,
       W!LockQueue, W!Serialise, W!Erase, W!UnlockQueue, W!Encrypt, W!Post, W!queueVars
  <2>. QED
    BY <1>n, <2>1
<1>12. CASE KeepAliveExpire \/ KickPlayer
  <2>1. FALSE
    BY <1>12 DEF KeepAliveExpire, KickPlayer, QuietReg, Quiet, At
  <2>. QED
    BY <2>1
<1>. QED
  BY <1>t, <1>1, <1>2, <1>3, <1>4, <1>5, <1>6, <1>7, <1>8, <1>9, <1>10, <1>11, <1>12
     DEF Next, NetStep, Client, Tick, RegStep

Busy == wpc[Net] \in {"check", "claim", "lock", "drain", "erase", "encrypt", "post"}

\* The first packet is on its way to the buffer, which nothing uses.
FirstGoes ==
  /\ Len(added) = 1 /\ Busy /\ Len(inflight) = 0
  /\ wpc[Net] = "check" => ~isWriting

\* While nothing has been sent, the first packet is being written; and when that
\* is a kick, its write ends in a close of the socket.
FirstWrite ==
  /\ Len(added) = 0 => wpc[Net] = "idle" /\ Len(inflight) = 0 /\ ~isWriting
  /\ wpc[Net] \in {"encrypt", "post"} \/ Len(inflight) = 1 => Len(served) >= 1
  /\ cipher /\ Len(added) = 1 => ~Busy
  /\ sock = "open" /\ Len(added) >= 1 /\ Len(wire) = 0 =>
       FirstGoes \/ (Len(inflight) = 1 /\ inflight[1].state = "posted")
  /\ sock = "open" /\ Kicked =>
       \/ FirstGoes \/ Len(inflight) = 1
       \/ mustDisconnect /\ wpc[Net] \in {"done", "doneEmpty", "tail"}

\* The steps of a connection, by what they do to its sending half, when nobody
\* but the network thread makes such steps.
LEMMA QuietSteps ==
  ASSUME Quiet, QuietReg, ControlTypeOK', [Next]_vars
  PROVE  \/ UNCHANGED writeVars /\ (mustDisconnect => mustDisconnect')
         \/ UNCHANGED mustDisconnect /\ \E k \in Kinds : W!Push(Net, k)
         \/ UNCHANGED mustDisconnect /\ W!WriteStep(Net)
         \/ UNCHANGED mustDisconnect /\ pc[Net] = "idle"
             /\ \E i \in DOMAIN inflight : W!WriteDone(i)
         \/ UNCHANGED mustDisconnect /\ W!ClearWritten
         \/ UNCHANGED mustDisconnect /\ status = "PING" /\ W!KeepWritten
         \/ UNCHANGED mustDisconnect /\ mustDisconnect /\ W!CloseSocket
         \/ UNCHANGED mustDisconnect /\ ~mustDisconnect /\ W!StayOpen
         \/ UNCHANGED mustDisconnect /\ W!Transport
         \/ UNCHANGED mustDisconnect /\ W!InstallCipher
         \/ UNCHANGED mustDisconnect /\ W!Destroy
<1>1. CASE UNCHANGED vars
  BY <1>1 DEF vars, flagVars
<1>2. CASE NetStep
  <2>1. CASE ListPlayer \/ BeginConnection \/ HandleRead \/ HandleReadError \/ StartRead
             \/ SetName \/ SetStatus \/ UpdatePlayer \/ AfterPingMust
             \/ DisconnectStep(Net)
    BY <2>1 DEF ListPlayer, BeginConnection, HandleRead, HandleReadError, StartRead,
       SetName, SetStatus, UpdatePlayer, AfterPingMust, DisconnectStep, ClearRunning,
       ReadName, SetMust, flagVars
  <2>2. CASE CreateCipher
    BY <2>2 DEF CreateCipher, flagVars
  <2>3. CASE SendPacket
    BY <2>3 DEF SendPacket, Add, Kinds, flagVars
  <2>4. CASE AfterPing \/ ClearWritten \/ EndWrite
    BY <2>4 DEF AfterPing, ClearWritten, EndWrite, outer, flagVars
  <2>5. CASE WriteCall(Net)
    BY <2>5 DEF WriteCall, outer, flagVars
  <2>. QED
    BY <1>2, <2>1, <2>2, <2>3, <2>4, <2>5 DEF NetStep
<1>3. CASE Client
  BY <1>3 DEF Client, HandleServerPing, HandleHandshake, HandleSharedKey,
     HandlePlayerUpdate, HandleKeepAlive, KickStart, Add, Kinds, flagVars
<1>4. CASE WriteDone
  BY <1>4 DEF WriteDone, outer, flagVars
<1>5. CASE Tick \/ KeepAliveTime \/ DeletePlayer \/ DisconnectStep(Reg) \/ Arrive \/ Expire
  BY <1>5 DEF Tick, TickRemove, TickAlive, KeepAliveTime, DeletePlayer, DisconnectStep,
     ClearRunning, ReadName, SetMust, Arrive, Expire, outer, flagVars
<1>6. CASE KeepAliveExpire \/ KickPlayer \/ WriteCall(Reg)
  BY <1>6 DEF KeepAliveExpire, KickPlayer, WriteCall, At, QuietReg, Quiet,
     W!WriteStep, W!Check, W!Claim, W!LockQueue, W!Serialise, W!Erase, W!UnlockQueue,
     W!Encrypt, W!Post, W!At
<1>7. CASE Transport \/ DestroyConnection
  BY <1>7 DEF Transport, DestroyConnection, outer, flagVars
<1>. QED
  BY <1>1, <1>2, <1>3, <1>4, <1>5, <1>6, <1>7 DEF Next, RegStep

\* A quiet connection between two handlers: what the steps below rely on.
QuietState ==
  QuietReg /\ ScriptInv /\ CipherInv /\ FirstPacket /\ OneThread

\* A connection with a cipher has sent the request for the key.
LEMMA CipherMeansAuth ==
  ASSUME QuietState
  PROVE  /\ cipher => Sent("AuthData") /\ ~Sent("PingResponse") /\ Len(added) >= 1
         /\ ~cipher => ~Sent("Login") /\ ~Sent("Spawn") /\ ~Sent("Position")
         /\ status = "PING" => ~Kicked
<1>1. added \in Seq(Kinds) /\ StepStatus /\ Progress /\ CipherInv /\ FirstPacket
  BY DEF QuietState, ScriptInv
<1>2. cipher => Sent("AuthData") /\ ~Sent("PingResponse")
  BY <1>1 DEF StepStatus, Progress, CipherInv
<1>3. ~cipher => ~Sent("Login") /\ ~Sent("Spawn") /\ ~Sent("Position")
  BY <1>1 DEF StepStatus, Progress, CipherInv
<1>4. status = "PING" => ~Kicked
  BY <1>1 DEF Progress, FirstPacket, Kicked
<1>. QED
  BY <1>1, <1>2, <1>3, <1>4, SentOne

\* The steps that change the list of writes, by its length.
LEMMA InflightSteps ==
  ASSUME OneThread
  PROVE  /\ DOMAIN inflight = 1..Len(inflight)
         /\ W!Post(Net) /\ Len(inflight) = 0 =>
              Len(inflight') = 1 /\ inflight'[1].state = "posted"
         /\ W!Tear => Len(inflight') = Len(inflight)
         /\ \A i \in DOMAIN inflight : W!WriteDone(i) =>
              i = 1 /\ Len(inflight) = 1 /\ Len(inflight') = 0
         /\ \A i \in DOMAIN inflight, st \in {"sent", "failed"} : W!Settle(i, st) =>
              /\ i = 1 /\ Len(inflight) = 1
              /\ Len(inflight') = 1 /\ inflight'[1].state = st
<1>1. /\ inflight \in Seq(W!Writes) /\ Len(inflight) \in {0, 1}
      /\ DOMAIN inflight = 1..Len(inflight)
      /\ inflight \in Seq(Q!Writes)
  BY LenProperties DEF OneThread, W!Writes, Q!Writes, W!Entries, Q!Entries
<1>2. ASSUME W!Post(Net), Len(inflight) = 0
      PROVE  Len(inflight') = 1 /\ inflight'[1].state = "posted"
  <2>. DEFINE write == [data |-> writeBuffer, state |-> "posted", torn |-> FALSE]
  <2>1. write \in W!Writes /\ write.state = "posted"
    BY DEF OneThread, W!Writes
  <2>2. inflight' = Append(inflight, write)
    BY <1>2 DEF W!Post
  <2>. HIDE DEF write
  <2>3. Len(inflight') = 1 /\ inflight'[1] = write
    BY <1>1, <1>2, <2>1, <2>2, AppendProperties
  <2>. QED
    BY <2>1, <2>3
<1>3. ASSUME W!Tear
      PROVE  Len(inflight') = Len(inflight)
  <2>1. Q!Tear
    BY <1>3 DEF W!Tear, Q!Tear
  <2>. QED
    BY <1>1, <2>1, QuietAssumption, Q!TearShape
<1>4. ASSUME NEW i \in DOMAIN inflight, W!WriteDone(i)
      PROVE  i = 1 /\ Len(inflight) = 1 /\ Len(inflight') = 0
  <2>1. i = 1 /\ Len(inflight) = 1 /\ i \in 1..Len(inflight)
    BY <1>1
  <2>2. inflight' = Q!Without(inflight, i)
    BY <1>4 DEF W!WriteDone, W!Without, Q!Without
  <2>3. Len(Q!Without(inflight, i)) = Len(inflight) - 1
    BY <1>1, <2>1, QuietAssumption, Q!WithoutShape
  <2>. QED
    BY <2>1, <2>2, <2>3
<1>5. ASSUME NEW i \in DOMAIN inflight, NEW st \in {"sent", "failed"}, W!Settle(i, st)
      PROVE  /\ i = 1 /\ Len(inflight) = 1
             /\ Len(inflight') = 1 /\ inflight'[1].state = st
  <2>1. i = 1 /\ Len(inflight) = 1 /\ i \in 1..Len(inflight)
    BY <1>1
  <2>2. Q!Settle(i, st)
    BY <1>5 DEF W!Settle, Q!Settle
  <2>3. Len(inflight') = Len(inflight) /\ inflight'[i].state = st
    BY <1>1, <2>1, <2>2, QuietAssumption, Q!SettleShape
  <2>. QED
    BY <2>1, <2>3
<1>. QED
  BY <1>1, <1>2, <1>3, <1>4, <1>5

LEMMA FirstWriteNext ==
  ASSUME Quiet, QuietState, QuietState', FirstWrite, [Next]_vars
  PROVE  FirstWrite'
<1>t. /\ added \in Seq(Kinds) /\ Len(added) \in Nat /\ Len(wire) \in Nat
      /\ Len(inflight) \in {0, 1} /\ Len(served) \in Nat /\ Len(writeBuffer) \in Nat
      /\ Len(served') \in Nat /\ Len(wire') \in Nat
      /\ wire \in Seq(W!Entries) /\ writeBuffer \in Seq(W!Entries)
      /\ Net \in Threads /\ wpc \in [Threads -> W!WriteLabels \cup W!DoneLabels]
  BY LenProperties DEF QuietState, OneThread, ScriptInv, QuietReg, Threads
<1>o. OneThread /\ OneThread'
  BY DEF QuietState
<1>w. \A l : W!Goto(Net, l) => wpc'[Net] = l
  BY <1>t DEF W!Goto
<1>1. CASE UNCHANGED writeVars /\ (mustDisconnect => mustDisconnect')
  BY <1>1 DEF FirstWrite, FirstGoes, Busy, Kicked, writeVars
<1>2. ASSUME UNCHANGED mustDisconnect, NEW k \in Kinds, W!Push(Net, k)
      PROVE  FirstWrite'
  <2>1. /\ wpc[Net] = "idle" /\ wpc'[Net] = "check"
        /\ UNCHANGED <<served, isWriting, cipher, inflight, wire, sock>>
    BY <1>2, <1>w DEF W!Push, W!At
  <2>2. /\ Len(added') = Len(added) + 1
        /\ Len(added) >= 1 => added'[1] = added[1]
    BY <1>2, <1>t, Pushed
  <2>3. cipher => Len(added) >= 1
    BY CipherMeansAuth
  <2>. QED
    BY <1>2, <1>t, <2>1, <2>2, <2>3 DEF FirstWrite, FirstGoes, Busy, Kicked
<1>3. CASE UNCHANGED mustDisconnect /\ W!WriteStep(Net)
  <2>0. UNCHANGED <<added, cipher, wire, sock, mustDisconnect>>
    BY <1>3 DEF W!WriteStep, W!Check, W!Claim, W!LockQueue, W!Serialise, W!Erase,
       W!UnlockQueue, W!Encrypt, W!Post, W!queueVars
  <2>1. CASE W!Check(Net)
    <3>1. /\ wpc[Net] = "check" /\ UNCHANGED <<served, isWriting, inflight>>
          /\ wpc'[Net] = IF isWriting THEN "idle" ELSE "claim"
      BY <2>1, <1>w DEF W!Check, W!At, W!queueVars
    <3>2. isWriting <=> Len(inflight) = 1
      BY <1>o, <3>1 DEF OneThread
    <3>. QED
      BY <1>t, <2>0, <3>1, <3>2 DEF FirstWrite, FirstGoes, Busy, Kicked
  <2>2. CASE W!Claim(Net) \/ W!LockQueue(Net) \/ W!Serialise(Net) \/ W!Erase(Net)
             \/ W!UnlockQueue(Net) \/ W!Encrypt(Net)
    <3>1. /\ wpc[Net] \in {"claim", "lock", "drain", "erase", "encrypt"}
          /\ wpc'[Net] \in {"lock", "drain", "erase", "encrypt", "post"}
      BY <2>2, <1>w DEF W!Claim, W!LockQueue, W!Serialise, W!Erase, W!UnlockQueue,
         W!Encrypt, W!At
    <3>2. Len(inflight) = 0 /\ Len(inflight') = 0
      BY <1>o, <3>1 DEF OneThread
    <3>3. wpc'[Net] \in {"encrypt", "post"} => Len(served') >= 1
      <4>1. CASE W!UnlockQueue(Net)
        <5>1. wpc[Net] = "drain" /\ queue = <<>> /\ UNCHANGED served
          BY <4>1 DEF W!UnlockQueue, W!At
        <5>2. Len(served) = Len(added)
          BY <1>o, <5>1 DEF OneThread
        <5>. QED
          BY <1>t, <3>1, <5>1, <5>2 DEF FirstWrite
      <4>2. CASE W!Encrypt(Net)
        BY <4>2 DEF W!Encrypt, W!At, W!queueVars, FirstWrite
      <4>3. CASE W!Claim(Net) \/ W!LockQueue(Net) \/ W!Serialise(Net) \/ W!Erase(Net)
        BY <4>3, <1>w DEF W!Claim, W!LockQueue, W!Serialise, W!Erase
      <4>. QED
        BY <2>2, <4>1, <4>2, <4>3
    <3>. QED
      BY <1>t, <2>0, <3>1, <3>2, <3>3 DEF FirstWrite, FirstGoes, Busy, Kicked
  <2>3. CASE W!Post(Net)
    <3>1. wpc[Net] = "post" /\ wpc'[Net] = "idle" /\ UNCHANGED <<served, isWriting>>
      BY <2>3, <1>w DEF W!Post, W!At, W!queueVars
    <3>2. Len(inflight) = 0
      BY <1>o, <3>1 DEF OneThread
    <3>3. Len(inflight') = 1 /\ inflight'[1].state = "posted"
      BY <1>o, <2>3, <3>2, InflightSteps
    <3>. QED
      BY <1>t, <2>0, <3>1, <3>2, <3>3 DEF FirstWrite, FirstGoes, Busy, Kicked
  <2>. QED
    BY <1>3, <2>1, <2>2, <2>3 DEF W!WriteStep
<1>4. ASSUME UNCHANGED mustDisconnect, pc[Net] = "idle",
             NEW i \in DOMAIN inflight, W!WriteDone(i)
      PROVE  FirstWrite'
  <2>1. i = 1 /\ Len(inflight) = 1 /\ Len(inflight') = 0
    BY <1>4, <1>o, InflightSteps
  <2>2. /\ wpc[Net] = "idle" /\ inflight[1].state # "posted"
        /\ wpc'[Net] \in {"done", "doneEmpty", "tail"}
        /\ UNCHANGED <<added, served, cipher, wire, sock>>
    BY <1>4, <1>w, <2>1 DEF W!WriteDone, W!At, W!queueVars
  <2>3. Kicked => mustDisconnect
    BY <1>4 DEF QuietState, FirstPacket
  <2>. QED
    BY <1>4, <1>t, <2>1, <2>2, <2>3 DEF FirstWrite, FirstGoes, Busy, Kicked
<1>5. CASE /\ UNCHANGED mustDisconnect
           /\ W!ClearWritten \/ (status = "PING" /\ W!KeepWritten)
  <2>1. /\ wpc[Net] \in {"done", "doneEmpty"}
        /\ \/ wpc'[Net] = "tail"
           \/ wpc'[Net] = "mustClose" /\ status = "PING"
        /\ UNCHANGED <<added, served, cipher, wire, sock>>
        /\ W!Tear \/ UNCHANGED inflight
    BY <1>5, <1>w DEF W!ClearWritten, W!KeepWritten, W!At, W!queueVars
  <2>2. Len(inflight) = 0 /\ Len(inflight') = 0
    BY <1>o, <2>1, InflightSteps DEF OneThread
  <2>3. status = "PING" => ~Kicked
    BY CipherMeansAuth
  <2>. QED
    BY <1>5, <1>t, <2>1, <2>2, <2>3 DEF FirstWrite, FirstGoes, Busy, Kicked
<1>6. CASE /\ UNCHANGED mustDisconnect
           /\ (mustDisconnect /\ W!CloseSocket) \/ (~mustDisconnect /\ W!StayOpen)
  <2>1. /\ wpc[Net] \in {"tail", "mustClose"} /\ wpc'[Net] = "idle"
        /\ UNCHANGED <<added, served, isWriting, cipher, inflight, wire>>
        /\ sock' = "open" => ~mustDisconnect /\ sock = "open"
    BY <1>6, <1>w DEF W!CloseSocket, W!StayOpen, W!At, W!queueVars
  <2>2. Len(inflight) = 0 /\ Len(inflight') = 0
    BY <1>o, <2>1 DEF OneThread
  <2>. QED
    BY <1>6, <1>t, <2>1, <2>2 DEF FirstWrite, FirstGoes, Busy, Kicked
<1>7. CASE UNCHANGED mustDisconnect /\ W!Transport
  <2>1. UNCHANGED <<added, served, isWriting, cipher, wpc, mustDisconnect>>
    BY <1>7 DEF W!Transport, W!Transmit, W!Fail, W!LosePeer, W!queueVars
  <2>2. ASSUME NEW i \in DOMAIN inflight, W!Transmit(i)
        PROVE  FirstWrite'
    <3>1. /\ i = 1 /\ Len(inflight) = 1 /\ Len(inflight') = 1
          /\ inflight[1].state = "posted" /\ sock = "open" /\ UNCHANGED sock
      BY <2>2, <1>o, InflightSteps DEF W!Transmit
    <3>2. Len(served) = Len(wire) + Len(writeBuffer) /\ Len(served) >= 1
      BY <1>o, <3>1 DEF OneThread, Building, FirstWrite
    <3>3. wire' = wire \o writeBuffer
      BY <1>o, <2>2, <3>1 DEF OneThread, W!Transmit
    <3>4. Len(wire') = Len(wire) + Len(writeBuffer)
      BY <1>t, <3>3, ConcatProperties
    <3>. QED
      BY <1>t, <2>1, <3>1, <3>2, <3>4 DEF FirstWrite, FirstGoes, Busy, Kicked
  <2>3. ASSUME NEW i \in DOMAIN inflight, W!Fail(i)
        PROVE  FirstWrite'
    <3>1. /\ Len(inflight) = 1 /\ Len(inflight') = 1 /\ sock' # "open"
      BY <2>3, <1>o, InflightSteps DEF W!Fail
    <3>. QED
      BY <1>t, <2>1, <3>1 DEF FirstWrite, FirstGoes, Busy, Kicked
  <2>4. CASE W!LosePeer
    BY <2>1, <2>4 DEF W!LosePeer, FirstWrite, FirstGoes, Busy, Kicked
  <2>. QED
    BY <1>7, <2>2, <2>3, <2>4 DEF W!Transport
<1>8. CASE UNCHANGED mustDisconnect /\ (W!InstallCipher \/ W!Destroy)
  BY <1>8 DEF W!InstallCipher, W!Destroy, W!At, W!queueVars, FirstWrite, FirstGoes, Busy,
     Kicked
<1>. QED
  BY <1>1, <1>2, <1>3, <1>4, <1>5, <1>6, <1>7, <1>8, QuietSteps DEF QuietState, QuietReg

\* An entry of the buffer or the wire: the answers in the clear, the packets
\* after the key exchange encrypted once.
EntryOK(e) ==
  /\ e.enc \in {0, 1}
  /\ added[e.id] \in {"PingResponse", "AuthData"} => e.enc = 0
  /\ added[e.id] \in {"Login", "Spawn", "Position"} => e.enc = 1

AnswersInv ==
  /\ \A i \in 1..Len(wire) : EntryOK(wire[i])
  /\ sock = "open" /\ Building /\ wpc[Net] \notin {"drain", "erase", "encrypt"} =>
       \A i \in 1..Len(writeBuffer) : EntryOK(writeBuffer[i])

\* What is encrypted is no answer: the request for the key is the first packet,
\* and it is on the wire or the first packet was the kick of a refused client,
\* which no write follows.
LEMMA EncryptsNoAnswer ==
  ASSUME QuietState, FirstWrite, sock = "open", cipher, wpc[Net] = "encrypt",
         NEW i \in (Len(wire) + 1)..Len(added)
  PROVE  added[i] \notin {"PingResponse", "AuthData"}
<1>1. /\ added \in Seq(Kinds) /\ Ordered /\ OneThread /\ FirstPacket
  BY DEF QuietState, ScriptInv
<1>2. /\ Sent("AuthData") /\ ~Sent("PingResponse") /\ Len(added) >= 1
  BY CipherMeansAuth
<1>3. Len(wire) \in Nat /\ Len(added) \in Nat /\ DOMAIN added = 1..Len(added)
  BY <1>1, LenProperties DEF OneThread
<1>4. Len(inflight) = 0
  BY <1>1 DEF OneThread
<1>5. ~(Len(added) = 1)
  BY DEF FirstWrite, Busy
<1>6. Len(wire) >= 1 /\ ~Kicked
  BY <1>2, <1>3, <1>4, <1>5 DEF FirstWrite, FirstGoes
<1>7. added[1] = "AuthData"
  BY <1>1, <1>2, <1>6 DEF FirstPacket, Kicked
<1>8. added[i] # "AuthData"
  <2>1. i \in DOMAIN added /\ 1 \in DOMAIN added /\ i # 1
    BY <1>2, <1>3, <1>6
  <2>. QED
    BY <1>1, <1>7, <2>1 DEF Ordered
<1>9. added[i] # "PingResponse"
  BY <1>2, <1>3 DEF Sent
<1>. QED
  BY <1>8, <1>9

LEMMA AnswersNext ==
  ASSUME Quiet, QuietState, QuietState', FirstWrite, AnswersInv, [Next]_vars
  PROVE  AnswersInv'
<1>t. /\ added \in Seq(Kinds) /\ Len(added) \in Nat /\ Len(wire) \in Nat
      /\ Len(inflight) \in {0, 1} /\ Len(served) \in Nat /\ Len(writeBuffer) \in Nat
      /\ wire \in Seq(W!Entries) /\ writeBuffer \in Seq(W!Entries)
      /\ Net \in Threads /\ wpc \in [Threads -> W!WriteLabels \cup W!DoneLabels]
      /\ DOMAIN writeBuffer = 1..Len(writeBuffer)
  BY LenProperties DEF QuietState, OneThread, ScriptInv, QuietReg, Threads
<1>o. OneThread /\ OneThread'
  BY DEF QuietState
<1>w. \A l : W!Goto(Net, l) => wpc'[Net] = l
  BY <1>t DEF W!Goto
\* Nothing is sent and no write is about to be posted or under way.
<1>n. ASSUME UNCHANGED <<added, wire>>,
             sock' = "open" => wpc'[Net] # "post" /\
                               ~(Len(inflight') = 1 /\ inflight'[1].state = "posted")
      PROVE  AnswersInv'
  BY <1>n DEF AnswersInv, EntryOK, Building
<1>1. CASE UNCHANGED writeVars
  BY <1>1 DEF AnswersInv, EntryOK, Building, writeVars
<1>2. ASSUME NEW k \in Kinds, W!Push(Net, k)
      PROVE  AnswersInv'
  <2>1. /\ wpc[Net] = "idle" /\ wpc'[Net] = "check"
        /\ UNCHANGED <<wire, writeBuffer, inflight, sock>>
    BY <1>2, <1>w DEF W!Push, W!At
  <2>2. \A i \in 1..Len(added) : added'[i] = added[i]
    BY <1>2, <1>t, Pushed
  <2>3. \A i \in 1..Len(wire) : wire[i].id \in 1..Len(added)
    <3>1. /\ Len(wire) <= Len(added)
          /\ \A i \in 1..Len(wire) : wire[i].id = i
      BY <1>o, <1>t DEF OneThread
    <3>. QED
      BY <1>t, <3>1
  <2>4. sock = "open" /\ Building =>
          \A i \in 1..Len(writeBuffer) : writeBuffer[i].id \in 1..Len(added)
    BY <1>o, <1>t DEF OneThread
  <2>. QED
    BY <2>1, <2>2, <2>3, <2>4 DEF AnswersInv, EntryOK, Building
<1>3. CASE W!WriteStep(Net)
  <2>1. CASE W!Check(Net)
    BY <2>1, <1>w DEF W!Check, W!At, W!queueVars, AnswersInv, EntryOK, Building
  <2>2. CASE W!Claim(Net) \/ W!LockQueue(Net) \/ W!Serialise(Net) \/ W!Erase(Net)
             \/ W!UnlockQueue(Net)
    <3>1. /\ wpc'[Net] \in {"lock", "drain", "erase", "encrypt"}
          /\ UNCHANGED <<added, wire>>
      BY <2>2, <1>w DEF W!Claim, W!LockQueue, W!Serialise, W!Erase, W!UnlockQueue,
         W!queueVars
    <3>2. Len(inflight') = 0
      BY <1>o, <3>1 DEF OneThread
    <3>. QED
      BY <1>n, <3>1, <3>2
  <2>3. CASE W!Encrypt(Net)
    <3>1. /\ wpc[Net] = "encrypt" /\ UNCHANGED <<added, wire, sock>>
          /\ writeBuffer' = IF cipher THEN W!EncryptAll(writeBuffer) ELSE writeBuffer
      BY <2>3 DEF W!Encrypt, W!At, W!queueVars
    <3>2. ASSUME sock = "open", NEW i \in 1..Len(writeBuffer)
          PROVE  /\ writeBuffer[i].id \in (Len(wire) + 1)..Len(added)
                 /\ writeBuffer[i].enc = 0
      BY <1>o, <1>t, <3>1, <3>2 DEF OneThread, Building
    <3>3. CASE cipher
      <4>1. /\ Len(writeBuffer') = Len(writeBuffer)
            /\ \A i \in 1..Len(writeBuffer) : writeBuffer'[i] =
                 [id |-> writeBuffer[i].id, enc |-> writeBuffer[i].enc + 1]
        <5>1. /\ writeBuffer \in Seq(Q!Entries)
              /\ writeBuffer' = Q!EncryptAll(writeBuffer)
          BY <1>t, <3>1, <3>3 DEF W!Entries, Q!Entries, W!EncryptAll, Q!EncryptAll
        <5>. QED
          BY <5>1, QuietAssumption, Q!EncryptShape
      <4>2. ASSUME sock = "open", NEW i \in 1..Len(writeBuffer)
            PROVE  EntryOK(writeBuffer[i])'
        <5>1. added[writeBuffer[i].id] \notin {"PingResponse", "AuthData"}
          BY <3>1, <3>2, <3>3, <4>2, EncryptsNoAnswer
        <5>2. writeBuffer'[i].id = writeBuffer[i].id /\ writeBuffer'[i].enc = 1
          <6>1. writeBuffer'[i] = [id |-> writeBuffer[i].id, enc |-> writeBuffer[i].enc + 1]
            BY <4>1
          <6>2. writeBuffer[i].enc = 0
            BY <3>2, <4>2
          <6>. QED
            BY <6>1, <6>2
        <5>. QED
          BY <3>1, <5>1, <5>2 DEF EntryOK
      <4>. QED
        BY <3>1, <4>1, <4>2 DEF AnswersInv, EntryOK
    <3>4. CASE ~cipher
      <4>1. ASSUME sock = "open", NEW i \in 1..Len(writeBuffer)
            PROVE  EntryOK(writeBuffer[i])
        <5>1. /\ writeBuffer[i].id \in DOMAIN added /\ writeBuffer[i].enc = 0
          BY <1>t, <3>2, <4>1, SentOne
        <5>2. added[writeBuffer[i].id] \notin {"Login", "Spawn", "Position"}
          BY <3>4, <5>1, CipherMeansAuth DEF Sent
        <5>. QED
          BY <5>1, <5>2 DEF EntryOK
      <4>. QED
        BY <3>1, <3>4, <4>1 DEF AnswersInv, EntryOK
    <3>. QED
      BY <3>3, <3>4
  <2>4. CASE W!Post(Net)
    <3>1. wpc[Net] = "post" /\ UNCHANGED <<added, wire, writeBuffer, sock>>
      BY <2>4 DEF W!Post, W!At, W!queueVars
    <3>. QED
      BY <3>1 DEF AnswersInv, EntryOK, Building
  <2>. QED
    BY <1>3, <2>1, <2>2, <2>3, <2>4 DEF W!WriteStep
<1>4. CASE \/ \E i \in DOMAIN inflight : W!WriteDone(i)
           \/ W!ClearWritten \/ W!KeepWritten \/ W!CloseSocket \/ W!StayOpen
  <2>1. /\ wpc'[Net] \in {"done", "doneEmpty", "tail", "mustClose", "idle"}
        /\ UNCHANGED <<added, wire>>
    BY <1>4, <1>w DEF W!WriteDone, W!ClearWritten, W!KeepWritten, W!CloseSocket,
       W!StayOpen, W!queueVars
  <2>2. Len(inflight') = 0
    <3>1. CASE \E i \in DOMAIN inflight : W!WriteDone(i)
      BY <1>o, <3>1, InflightSteps
    <3>2. CASE W!ClearWritten \/ W!KeepWritten \/ W!CloseSocket \/ W!StayOpen
      <4>1. wpc[Net] \in {"done", "doneEmpty", "tail", "mustClose"}
            /\ (W!Tear \/ UNCHANGED inflight)
        BY <3>2 DEF W!ClearWritten, W!KeepWritten, W!CloseSocket, W!StayOpen, W!At
      <4>. QED
        BY <1>o, <4>1, InflightSteps DEF OneThread
    <3>. QED
      BY <1>4, <3>1, <3>2
  <2>. QED
    BY <1>n, <2>1, <2>2
<1>5. CASE W!Transport
  <2>1. UNCHANGED <<added, writeBuffer, wpc>>
    BY <1>5 DEF W!Transport, W!Transmit, W!Fail, W!LosePeer, W!queueVars
  <2>2. ASSUME NEW i \in DOMAIN inflight, W!Transmit(i)
        PROVE  AnswersInv'
    <3>1. /\ i = 1 /\ Len(inflight) = 1 /\ Len(inflight') = 1
          /\ inflight[1].state = "posted" /\ inflight'[1].state = "sent"
          /\ sock = "open"
      BY <2>2, <1>o, InflightSteps DEF W!Transmit
    <3>2. wire' = wire \o writeBuffer
      BY <1>o, <2>2, <3>1 DEF OneThread, W!Transmit
    <3>3. \A j \in 1..Len(writeBuffer) : EntryOK(writeBuffer[j])
      BY <1>o, <3>1 DEF AnswersInv, Building, OneThread
    <3>4. /\ Len(wire') = Len(wire) + Len(writeBuffer)
          /\ \A j \in 1..Len(wire) : wire'[j] = wire[j]
          /\ \A j \in (Len(wire) + 1)..Len(wire') : wire'[j] = writeBuffer[j - Len(wire)]
      BY <1>t, <3>2, ConcatProperties
    <3>5. ASSUME NEW j \in 1..Len(wire')
          PROVE  EntryOK(wire'[j])
      BY <1>t, <3>3, <3>4 DEF AnswersInv
    <3>6. wpc'[Net] \notin {"drain", "erase", "encrypt", "post"}
      BY <1>o, <2>1, <3>1 DEF OneThread
    <3>. QED
      BY <2>1, <3>1, <3>5, <3>6 DEF AnswersInv, Building, EntryOK
  <2>3. ASSUME NEW i \in DOMAIN inflight, W!Fail(i)
        PROVE  AnswersInv'
    BY <1>n, <2>1, <2>3 DEF W!Fail
  <2>4. CASE W!LosePeer
    BY <1>n, <2>1, <2>4 DEF W!LosePeer
  <2>. QED
    BY <1>5, <2>2, <2>3, <2>4 DEF W!Transport
<1>6. CASE W!InstallCipher \/ W!Destroy
  BY <1>6 DEF W!InstallCipher, W!Destroy, W!queueVars, AnswersInv, EntryOK, Building
<1>. QED
  BY <1>1, <1>2, <1>3, <1>4, <1>5, <1>6, QuietSteps DEF QuietState, QuietReg

(***************************************************************************)
(* The theorem, and the general one about the cipher.                      *)
(***************************************************************************)

\* Whoever kicks and whenever it times out, a login packet is only added once
\* the connection has a cipher.
THEOREM LoginNeedsCipher == Spec => [](Sent("Login") => cipher)
<1>1. Init => CipherInv
  <2>1. Init => pc[Net] = "accept" /\ status = "HANDSHAKE" /\ cipher = FALSE
    BY DEF Init, Threads, W!WriteInit
  <2>. QED
    BY <2>1 DEF CipherInv
<1>2. ScriptInv /\ CipherInv => (Sent("Login") => cipher)
  BY DEF ScriptInv, Progress, CipherInv
<1>. QED
  BY <1>1, <1>2, ScriptInit, ScriptNext, CipherNext, PTL DEF Spec

\* While nobody kicks the player and it does not time out, the client sees what
\* it must read in the clear in the clear, and the login encrypted exactly once,
\* however it repeats, pipelines or orders its packets.
THEOREM QuietEncrypts ==
  ASSUME Quiet
  PROVE  Spec => []EncryptedFromLogin
<1>. DEFINE Inv == QuietState /\ Q!SwitchInv /\ FirstWrite /\ AnswersInv
<1>1. ASSUME Init
      PROVE  Inv
  <2>1. QuietReg /\ ScriptInv
    BY <1>1, QuietInit, ScriptInit
  <2>2. Q!WriteInit
    BY <1>1, QuietWriteInit
  <2>3. Q!SwitchInv /\ OneThread
    BY <2>2, QuietAssumption, Q!SwitchInit, OneThreadHolds
  <2>4. /\ added = <<>> /\ Len(added) = 0 /\ \A k : ~Sent(k)
        /\ inflight = <<>> /\ Len(inflight) = 0 /\ wire = <<>> /\ Len(wire) = 0
        /\ writeBuffer = <<>> /\ Len(writeBuffer) = 0
        /\ ~isWriting /\ cipher = FALSE /\ wpc[Net] = "idle"
        /\ pc[Net] = "accept" /\ status = "HANDSHAKE"
    BY <1>1, EmptySeq DEF Init, W!WriteInit, Threads, Sent
  <2>5. CipherInv /\ FirstPacket /\ FirstWrite /\ AnswersInv
    BY <2>4 DEF CipherInv, FirstPacket, Kicked, FirstWrite, AnswersInv
  <2>. QED
    BY <2>1, <2>3, <2>5 DEF QuietState
<1>2. ASSUME Inv, [Next]_vars
      PROVE  Inv'
  <2>1. QuietReg' /\ [Q!WriteNext]_(Q!writeVars)
    BY <1>2, QuietStep DEF QuietState
  <2>2. Q!SwitchInv'
    BY <1>2, <2>1, QuietAssumption, Q!SwitchNext
  <2>3. OneThread'
    BY <2>2, OneThreadHolds, PTL
  <2>4. ScriptInv' /\ CipherInv' /\ FirstPacket'
    BY <1>2, ScriptNext, CipherNext, FirstPacketNext DEF QuietState
  <2>5. QuietState'
    BY <2>1, <2>3, <2>4 DEF QuietState
  <2>. QED
    BY <1>2, <2>2, <2>5, FirstWriteNext, AnswersNext
<1>3. ASSUME Inv
      PROVE  EncryptedFromLogin
  <2>1. DOMAIN wire = 1..Len(wire)
    BY <1>3, LenProperties DEF QuietState, OneThread
  <2>. QED
    BY <1>3, <2>1 DEF AnswersInv, EntryOK, EncryptedFromLogin
<1>. HIDE DEF Inv
<1>. QED
  BY <1>1, <1>2, <1>3, PTL DEF Spec
=============================================================================
