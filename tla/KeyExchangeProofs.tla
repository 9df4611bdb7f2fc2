------------------------- MODULE KeyExchangeProofs --------------------------
(***************************************************************************)
(* Theorems about the key exchange, for any keys, any number of packets    *)
(* and any set of OpenSSL calls that may fail.                             *)
(***************************************************************************)
EXTENDS KeyExchange, SequenceTheorems, TLAPS

(***************************************************************************)
(* The handlers: where one is says what is known of the connection.        *)
(***************************************************************************)

Reading == {"secret", "token", "compare", "cipher"}
LoggingIn == {"login", "writeLogin", "playStatus"}
Answering == {"writeAuth", "authStatus"}
Steps ==
  {"start", "idle", "dead", "gone"} \cup Reading \cup LoggingIn \cup Answering

ConnTypeOK ==
  /\ pc \in Steps
  /\ status \in {"HANDSHAKE", "LOGIN", "PLAY"}
  /\ cipher \in Keys \cup {NoCipher}
  /\ packet.secret \in Secrets
  /\ contexts \in Nat
  /\ failures \in [Calls -> Nat]

\* A call of OpenSSL has failed by itself.
Failed == \E call \in Calls : failures[call] > 0

\* A cipher is made when the login begins, and only a failure of OpenSSL leaves
\* one behind in a handler that ends before the status is set.
CipherInv ==
  /\ pc \in {"start", "gone"} => cipher = NoCipher
  /\ pc = "start" => contexts = 0
  /\ cipher # NoCipher => contexts >= 2
  /\ pc \in Answering => status = "HANDSHAKE"
  /\ pc \in Reading \cup LoggingIn => status = "LOGIN"
  /\ pc \in LoggingIn => cipher # NoCipher
  /\ pc # "gone" /\ status = "PLAY" => cipher # NoCipher
  /\ status = "HANDSHAKE" => cipher = NoCipher
  /\ cipher # NoCipher => status = "PLAY" \/ pc \in LoggingIn \/ Failed

\* What the steps of handleSharedKeyPacket have found out about the packet.
TokenInv ==
  /\ pc \in {"token", "compare", "cipher"} => packet.secret # Garbled
  /\ pc \in {"cipher"} \cup LoggingIn /\ ~mustDisconnect =>
       packet.token = verifyToken
  /\ pc \in LoggingIn => packet.secret \in Keys

ExchangeInv == ConnTypeOK /\ CipherInv /\ TokenInv /\ PlayerKnewToken

\* A failure is counted, and never forgotten.
LEMMA FailureCounts ==
  ASSUME failures \in [Calls -> Nat], NEW call, Fails(call)
  PROVE  failures' \in [Calls -> Nat] /\ Failed'
<1>1. call \in Calls
  BY KeyExchangeAssumption DEF Fails
<1>2. failures' = [failures EXCEPT ![call] = failures[call] + 1]
  BY DEF Fails
<1>3. failures' \in [Calls -> Nat] /\ failures'[call] > 0
  BY <1>1, <1>2
<1>. QED
  BY <1>1, <1>3 DEF Failed

LEMMA ExchangeInit == Init => ExchangeInv
BY KeyExchangeAssumption
DEF Init, ExchangeInv, ConnTypeOK, CipherInv, TokenInv, PlayerKnewToken, Reading,
    LoggingIn, Answering, Steps, Secrets

LEMMA ExchangeNext == ExchangeInv /\ [Next]_vars => ExchangeInv'
<1>. SUFFICES ASSUME ExchangeInv, [Next]_vars
              PROVE  ExchangeInv'
  OBVIOUS
<1>a. failures \in [Calls -> Nat]
  BY DEF ExchangeInv, ConnTypeOK
<1>b. \A call : Fails(call) => failures' \in [Calls -> Nat] /\ Failed'
  BY <1>a, FailureCounts
<1>c. Works => failures' \in [Calls -> Nat] /\ (Failed => Failed')
  BY <1>a DEF Works, Failed
<1>d. UNCHANGED failures => failures' \in [Calls -> Nat] /\ (Failed => Failed')
  BY <1>a DEF Failed
<1>. USE KeyExchangeAssumption, <1>a, <1>b, <1>c, <1>d
     DEF ExchangeInv, ConnTypeOK, CipherInv, TokenInv, PlayerKnewToken, Reading,
         LoggingIn, Answering, Steps, Secrets
<1>1. CASE UNCHANGED vars
  BY <1>1 DEF vars, connVars, sendVars
<1>2. CASE KeyPair
  BY <1>2 DEF KeyPair, connVars, sendVars
<1>3. CASE Serialise
  BY <1>3 DEF Serialise, Writing, After, Catch, connVars
<1>4. CASE Post
  BY <1>4 DEF Post, Writing, After, Catch, connVars
<1>5. CASE WriteDone
  BY <1>5 DEF WriteDone, connVars
<1>6. CASE DecryptRead
  BY <1>6 DEF DecryptRead, Receive, connVars, sendVars
<1>7. CASE HandleHandshake
  BY <1>7 DEF HandleHandshake, Receive, AddPacket, After, Catch, sendVars
<1>8. CASE HandleSharedKey
  BY <1>8 DEF HandleSharedKey, Receive, sendVars
<1>9. CASE ReadData
  BY <1>9 DEF ReadData, DecryptWithPrivateKey, Catch, connVars, sendVars
<1>10. CASE CompareToken
  BY <1>10 DEF CompareToken, sendVars
<1>11. CASE CreateCipher
  BY <1>11 DEF CreateCipher, CipherThrows, Catch, sendVars
<1>12. CASE AddLogin
  BY <1>12 DEF AddLogin, AddPacket, After, connVars
<1>13. CASE SetStatus
  BY <1>13 DEF SetStatus, sendVars
<1>14. CASE Destroy
  BY <1>14 DEF Destroy, sendVars
<1>. QED
  BY <1>1, <1>2, <1>3, <1>4, <1>5, <1>6, <1>7, <1>8, <1>9, <1>10, <1>11, <1>12,
     <1>13, <1>14 DEF Next

LEMMA ExchangeAlways == Spec => []ExchangeInv
BY ExchangeInit, ExchangeNext, PTL DEF Spec

\* A client that plays has a cipher, and one that has a cipher plays, unless one
\* of its key packets failed.
THEOREM PlayersHaveCiphers == Spec => []PlayMeansCipher
<1>1. ExchangeInv => PlayMeansCipher
  BY DEF ExchangeInv, CipherInv, PlayMeansCipher, LoggingIn, Failed
<1>. QED
  BY ExchangeAlways, <1>1, PTL

\* A client that plays, and stays, has sent the token of this connection.
THEOREM PlayersKnowTheToken == Spec => []PlayerKnewToken
BY ExchangeAlways, PTL DEF ExchangeInv

(***************************************************************************)
(* The login packet: it is only added once there is a cipher, and what is  *)
(* posted while there is one is encrypted.                                 *)
(***************************************************************************)

Packets == [kind : {"AuthData", "Login"}, token : Nat]
Written == [packet : Packets, key : Keys \cup {NoCipher}]

SendTypeOK ==
  /\ tokens \in Nat
  /\ queue \in Seq(Packets)
  /\ writeBuffer \in Seq(Written) /\ inflight \in Seq(Written)
  /\ sent \in Seq(Written)

NoLoginYet ==
  /\ \A i \in 1..Len(queue) : queue[i] # Login
  /\ \A i \in 1..Len(writeBuffer) : writeBuffer[i].packet # Login

Concealed(s) == \A i \in 1..Len(s) : s[i].packet = Login => s[i].key \in Keys

LoginInv ==
  /\ ExchangeInv
  /\ SendTypeOK
  /\ pc # "gone" /\ cipher = NoCipher => NoLoginYet
  /\ Concealed(inflight) /\ Concealed(sent)

LEMMA LoginInit == Init => LoginInv
BY ExchangeInit DEF Init, LoginInv, SendTypeOK, NoLoginYet, Concealed

LEMMA EncryptedShape ==
  ASSUME LoginInv
  PROVE  /\ Encrypted \in Seq(Written)
         /\ cipher # NoCipher => Concealed(Encrypted)
         /\ cipher = NoCipher => Encrypted = writeBuffer
<1>0. writeBuffer \in Seq(Written) /\ cipher \in Keys \cup {NoCipher}
  BY DEF LoginInv, ExchangeInv, ConnTypeOK, SendTypeOK
<1>1. CASE cipher = NoCipher
  BY <1>0, <1>1 DEF Encrypted
<1>2. CASE cipher # NoCipher
  <2>1. /\ Len(writeBuffer) \in Nat /\ DOMAIN writeBuffer = 1..Len(writeBuffer)
        /\ cipher \in Keys
    BY <1>0, <1>2
  <2>2. ASSUME NEW i \in 1..Len(writeBuffer)
        PROVE  LET entry == [writeBuffer[i] EXCEPT !.key = cipher]
               IN  entry \in Written /\ entry.key = cipher
    <3>1. writeBuffer[i] \in Written
      BY <1>0
    <3>. QED
      BY <2>1, <3>1 DEF Written
  <2>3. Encrypted = [i \in 1..Len(writeBuffer) |->
                       [writeBuffer[i] EXCEPT !.key = cipher]]
    BY <1>2, <2>1 DEF Encrypted
  <2>4. Encrypted \in [1..Len(writeBuffer) -> Written]
    BY <2>2, <2>3
  <2>5. Encrypted \in Seq(Written) /\ Len(Encrypted) = Len(writeBuffer)
    BY <2>1, <2>4, SeqDef
  <2>6. \A i \in 1..Len(Encrypted) : Encrypted[i].key \in Keys
    BY <2>1, <2>2, <2>3, <2>5
  <2>. QED
    BY <1>2, <2>5, <2>6 DEF Concealed
<1>. QED
  BY <1>1, <1>2

LEMMA LoginNext == LoginInv /\ [Next]_vars => LoginInv'
<1>. SUFFICES ASSUME LoginInv, [Next]_vars
              PROVE  LoginInv'
  OBVIOUS
<1>0. ExchangeInv /\ ExchangeInv'
  BY ExchangeNext DEF LoginInv
<1>. USE KeyExchangeAssumption DEF SendTypeOK, LoginInv
\* Steps that leave the sending half and the cipher alone.
<1>1. ASSUME UNCHANGED <<sendVars, tokens>>, cipher' = cipher, pc # "gone"
      PROVE  LoginInv'
  BY <1>0, <1>1 DEF sendVars, NoLoginYet, Concealed
<1>2. CASE UNCHANGED vars
  BY <1>0, <1>2 DEF vars, connVars, sendVars, NoLoginYet, Concealed
<1>3. CASE \/ KeyPair \/ DecryptRead \/ HandleSharedKey \/ ReadData
           \/ CompareToken \/ SetStatus
  BY <1>1, <1>3
  DEF KeyPair, DecryptRead, HandleSharedKey, ReadData, CompareToken, SetStatus,
      Receive, connVars
<1>4. CASE CreateCipher
  <2>1. cipher' # NoCipher \/ cipher' = cipher
    BY <1>0, <1>4
    DEF CreateCipher, KeyExchangeAssumption, ExchangeInv, TokenInv, ConnTypeOK,
        Secrets
  <2>. QED
    BY <1>0, <1>4, <2>1 DEF CreateCipher, sendVars, NoLoginYet, Concealed
<1>5. CASE Destroy
  BY <1>0, <1>5 DEF Destroy, sendVars, Concealed
<1>6. CASE Serialise
  <2>1. CASE UNCHANGED <<writeBuffer, queue>>
    BY <1>0, <1>6, <2>1
    DEF Serialise, Writing, After, connVars, NoLoginYet, Concealed
  <2>2. CASE /\ writeBuffer' =
                  Append(writeBuffer, [packet |-> Head(queue), key |-> NoCipher])
             /\ queue' = Tail(queue)
    <3>1. queue # <<>> /\ Head(queue) = queue[1] /\ queue[1] \in Packets
      BY <1>6 DEF Serialise
    <3>2. [packet |-> Head(queue), key |-> NoCipher] \in Written
      BY <3>1 DEF Written
    <3>3. queue' \in Seq(Packets) /\ writeBuffer' \in Seq(Written)
      BY <2>2, <3>1, <3>2
    <3>4. NoLoginYet => NoLoginYet'
      BY <2>2, <3>1 DEF NoLoginYet
    <3>5. UNCHANGED <<cipher, inflight, sent, tokens>> /\ pc # "gone"
      BY <1>6 DEF Serialise, Writing, After, connVars
    <3>. QED
      BY <1>0, <3>3, <3>4, <3>5 DEF Concealed
  <2>. QED
    BY <1>6, <2>1, <2>2 DEF Serialise
<1>7. CASE Post
  <2>1. UNCHANGED <<cipher, queue, sent, tokens>> /\ pc # "gone"
    BY <1>7 DEF Post, Writing, After, connVars
  <2>2. CASE UNCHANGED <<writeBuffer, inflight>>
    BY <1>0, <2>1, <2>2 DEF NoLoginYet, Concealed
  <2>3. CASE writeBuffer' = Encrypted /\ inflight' = Encrypted
    <3>1. CASE cipher = NoCipher
      <4>1. NoLoginYet /\ Encrypted = writeBuffer
        BY <2>1, <3>1, EncryptedShape
      <4>2. NoLoginYet' /\ Concealed(inflight')
        BY <2>1, <2>3, <4>1 DEF NoLoginYet, Concealed
      <4>. QED
        BY <1>0, <2>1, <2>3, <4>1, <4>2 DEF Concealed
    <3>2. CASE cipher # NoCipher
      BY <1>0, <2>1, <2>3, <3>2, EncryptedShape DEF Concealed
    <3>. QED
      BY <3>1, <3>2
  <2>. QED
    BY <1>7, <2>2, <2>3 DEF Post
<1>8. CASE WriteDone
  <2>1. sent' \in Seq(Written) /\ Concealed(sent')
    BY <1>8 DEF WriteDone, Concealed
  <2>. QED
    BY <1>0, <1>8, <2>1 DEF WriteDone, connVars, NoLoginYet, Concealed
<1>9. CASE HandleHandshake
  <2>1. UNCHANGED <<cipher, writeBuffer, inflight, sent>> /\ pc # "gone"
    BY <1>9 DEF HandleHandshake, Receive, AddPacket, sendVars
  <2>2. CASE UNCHANGED <<queue, tokens>>
    BY <1>0, <2>1, <2>2 DEF NoLoginYet, Concealed
  <2>3. CASE tokens' = tokens + 1 /\ queue' = Append(queue, Auth(tokens'))
    <3>1. Auth(tokens') \in Packets /\ Auth(tokens') # Login
      BY <2>3 DEF Auth, Login, Packets
    <3>2. queue' \in Seq(Packets) /\ (NoLoginYet => NoLoginYet')
      BY <2>1, <2>3, <3>1 DEF NoLoginYet
    <3>. QED
      BY <1>0, <2>1, <2>3, <3>2 DEF Concealed
  <2>. QED
    BY <1>9, <2>2, <2>3 DEF HandleHandshake, AddPacket, sendVars
<1>10. CASE AddLogin
  <2>1. cipher' # NoCipher
    BY <1>0, <1>10 DEF AddLogin, connVars, ExchangeInv, CipherInv, LoggingIn
  <2>2. Login \in Packets
    BY DEF Login, Packets
  <2>3. queue' \in Seq(Packets)
    BY <1>10, <2>2 DEF AddLogin, AddPacket
  <2>. QED
    BY <1>0, <1>10, <2>1, <2>3 DEF AddLogin, AddPacket, Concealed
<1>. QED
  BY <1>2, <1>3, <1>4, <1>5, <1>6, <1>7, <1>8, <1>9, <1>10 DEF Next

\* The login packet never goes out in the clear, whatever fails and wherever.
THEOREM LoginNeverInClear == Spec => []LoginIsEncrypted
<1>1. LoginInv => LoginIsEncrypted
  BY DEF LoginInv, SendTypeOK, Concealed, LoginIsEncrypted
<1>. QED
  BY LoginInit, LoginNext, <1>1, PTL DEF Spec

(***************************************************************************)
(* The objects of OpenSSL, and what each failure has cost.                 *)
(***************************************************************************)

Owned == IF cipher = NoCipher THEN 1 ELSE 3
Lost(f) == f["EVP_PKEY_decrypt_init"] + f["EVP_EncryptInit_ex"]
             + 2 * f["EVP_DecryptInit_ex"]
Maybe(f) == f["EVP_CIPHER_CTX_new"] + 2 * f["EVP_EncryptUpdate"]

LostBy(call) ==
  IF call \in {"EVP_PKEY_decrypt_init", "EVP_EncryptInit_ex"} THEN 1
  ELSE IF call = "EVP_DecryptInit_ex" THEN 2 ELSE 0
MaybeBy(call) ==
  IF call = "EVP_CIPHER_CTX_new" THEN 1
  ELSE IF call = "EVP_EncryptUpdate" THEN 2 ELSE 0

Costs(lost, maybe) ==
  /\ Lost(failures') = Lost(failures) + lost
  /\ Maybe(failures') = Maybe(failures) + maybe

\* One failure costs what its call costs.
LEMMA FailureCosts ==
  ASSUME failures \in [Calls -> Nat], NEW call, Fails(call)
  PROVE  Costs(LostBy(call), MaybeBy(call))
<1>1. call \in Calls
  BY KeyExchangeAssumption DEF Fails
<1>2. \A c \in Calls : /\ failures[c] \in Nat
                       /\ failures'[c] = IF c = call THEN failures[c] + 1
                                         ELSE failures[c]
  BY <1>1 DEF Fails
<1>. QED
  BY <1>1, <1>2 DEF Costs, Lost, Maybe, LostBy, MaybeBy, Calls

\* No key is asked for once there is a cipher: the answer to the handshake was
\* posted before, or nothing will ever be.
NoAuth == \A i \in 1..Len(queue) : queue[i].kind # "AuthData"

AuthInv ==
  /\ inflight # <<>> => NoAuth
  /\ ~isWriting \/ pc = "writeLogin" => NoAuth
  /\ status = "HANDSHAKE" /\ pc # "authStatus" => inflight = <<>>

\* What is held is what is owned and what the failures have cost.  A failure to
\* encrypt leaves a client in status LOGIN with a cipher; its next key drops that
\* one, and the failure has paid for it.
AccountInv ==
  /\ pc = "start" => Lost(failures) = 0 /\ Maybe(failures) = 0
  /\ pc # "start" => /\ Owned + Lost(failures) <= contexts
                     /\ contexts <= Owned + Lost(failures) + Maybe(failures)
  /\ status = "LOGIN" /\ cipher # NoCipher /\ pc \notin LoggingIn =>
       contexts + 2 <= Owned + Lost(failures) + Maybe(failures)

HeldInv == LoginInv /\ AuthInv /\ AccountInv

LEMMA HeldInit == Init => HeldInv
BY LoginInit, KeyExchangeAssumption
DEF HeldInv, AuthInv, AccountInv, NoAuth, Owned, Lost, Maybe, Calls, Init

LEMMA AuthNext == HeldInv /\ [Next]_vars => AuthInv'
<1>. SUFFICES ASSUME HeldInv, [Next]_vars
              PROVE  AuthInv'
  OBVIOUS
<1>0. /\ queue \in Seq(Packets) /\ AuthInv
      /\ pc \in Reading \cup LoggingIn => status = "LOGIN"
      /\ pc \in Answering => status = "HANDSHAKE"
  BY DEF HeldInv, LoginInv, SendTypeOK, ExchangeInv, CipherInv
<1>. USE <1>0 DEF AuthInv, Reading, LoggingIn, Answering
<1>1. CASE UNCHANGED vars
  BY <1>1 DEF vars, connVars, sendVars, NoAuth
<1>2. CASE KeyPair \/ DecryptRead \/ HandleSharedKey \/ ReadData \/ CompareToken
           \/ CreateCipher \/ SetStatus \/ Destroy
  BY <1>2
  DEF KeyPair, DecryptRead, HandleSharedKey, ReadData, DecryptWithPrivateKey,
      CompareToken, CreateCipher, SetStatus, Destroy, Receive, Catch, connVars,
      sendVars, NoAuth
<1>3. CASE Serialise
  <2>1. CASE UNCHANGED <<writeBuffer, queue>>
    BY <1>3, <2>1 DEF Serialise, Writing, After, Catch, connVars, NoAuth
  <2>2. CASE queue' = Tail(queue) /\ UNCHANGED pc
    <3>1. NoAuth => NoAuth'
      BY <1>3, <2>2 DEF Serialise, NoAuth
    <3>. QED
      BY <1>3, <2>2, <3>1 DEF Serialise, connVars
  <2>. QED
    BY <1>3, <2>1, <2>2 DEF Serialise
<1>4. CASE Post
  BY <1>4 DEF Post, Writing, After, Catch, connVars, NoAuth
<1>5. CASE WriteDone
  BY <1>5 DEF WriteDone, connVars, NoAuth
<1>6. CASE HandleHandshake
  <2>1. CASE UNCHANGED sendVars /\ pc' = "idle"
    BY <1>6, <2>1 DEF HandleHandshake, Receive, sendVars, NoAuth
  <2>2. CASE AddPacket(Auth(tokens'), "writeAuth")
    BY <1>6, <2>2 DEF HandleHandshake, Receive, AddPacket, After
  <2>. QED
    BY <1>6, <2>1, <2>2 DEF HandleHandshake, Catch
<1>7. CASE AddLogin
  <2>1. Login \in Packets /\ Login.kind # "AuthData"
    BY DEF Login, Packets
  <2>2. NoAuth => NoAuth'
    BY <1>7, <2>1 DEF AddLogin, AddPacket, NoAuth
  <2>. QED
    BY <1>7, <2>2 DEF AddLogin, AddPacket, After, connVars
<1>. QED
  BY <1>1, <1>2, <1>3, <1>4, <1>5, <1>6, <1>7 DEF Next

LEMMA AccountNext == HeldInv /\ [Next]_vars => AccountInv'
<1>. SUFFICES ASSUME HeldInv, [Next]_vars
              PROVE  AccountInv'
  OBVIOUS
<1>0. /\ ExchangeInv /\ AuthInv /\ AccountInv
      /\ queue \in Seq(Packets)
  BY DEF HeldInv, LoginInv, SendTypeOK
<1>a. failures \in [Calls -> Nat]
  BY <1>0 DEF ExchangeInv, ConnTypeOK
<1>b. /\ \A call \in {"EVP_PKEY_keygen", "RAND_bytes", "i2d_PUBKEY",
                       "EVP_PKEY_CTX_new", "EVP_DecryptUpdate"} :
           Fails(call) => Costs(0, 0)
      /\ Fails("EVP_PKEY_decrypt_init") => Costs(1, 0)
      /\ Fails("EVP_EncryptInit_ex") => Costs(1, 0)
      /\ Fails("EVP_DecryptInit_ex") => Costs(2, 0)
      /\ Fails("EVP_CIPHER_CTX_new") => Costs(0, 1)
      /\ Fails("EVP_EncryptUpdate") => Costs(0, 2)
  <2>1. \A call : Fails(call) => Costs(LostBy(call), MaybeBy(call))
    BY <1>a, FailureCosts
  <2>. QED
    BY <2>1 DEF LostBy, MaybeBy
<1>c. Lost(failures) \in Nat /\ Maybe(failures) \in Nat
  BY <1>a DEF Lost, Maybe, Calls
<1>d. UNCHANGED failures => Costs(0, 0)
  BY <1>c DEF Costs
<1>. USE KeyExchangeAssumption, <1>0, <1>b, <1>c, <1>d
     DEF ExchangeInv, ConnTypeOK, CipherInv, AccountInv, Owned, Costs, Reading,
         LoggingIn, Answering, Steps, Works, Catch
<1>. HIDE DEF Lost, Maybe
<1>1. CASE UNCHANGED vars
  BY <1>1 DEF vars, connVars, sendVars
<1>2. CASE KeyPair
  BY <1>2 DEF KeyPair, connVars
<1>3. CASE Serialise
  <2>1. CASE Works /\ UNCHANGED pc
    BY <1>3, <2>1 DEF Serialise, connVars
  <2>2. CASE Head(queue).kind = "AuthData" /\ Fails("i2d_PUBKEY") /\ pc' = "idle"
    <3>1. pc # "writeLogin"
      BY <1>3, <2>2 DEF Serialise, AuthInv, NoAuth
    <3>2. pc = "writeAuth" /\ status = "HANDSHAKE" /\ cipher = NoCipher
      BY <1>3, <3>1 DEF Serialise, Writing, After
    <3>. QED
      BY <1>3, <2>2, <3>2 DEF Serialise, connVars
  <2>. QED
    BY <1>3, <2>1, <2>2 DEF Serialise
<1>4. CASE Post
  BY <1>4 DEF Post, Writing, After, connVars
<1>5. CASE WriteDone
  BY <1>5 DEF WriteDone, connVars
<1>6. CASE DecryptRead
  BY <1>6 DEF DecryptRead, Receive, connVars
<1>7. CASE HandleHandshake
  BY <1>7 DEF HandleHandshake, Receive, AddPacket, After
<1>8. CASE HandleSharedKey
  BY <1>8 DEF HandleSharedKey, Receive
<1>9. CASE ReadData
  <2>1. /\ pc \in {"secret", "token"} /\ status = "LOGIN"
        /\ pc' \in {"token", "compare", "idle"}
        /\ UNCHANGED <<status, cipher>>
    BY <1>9 DEF ReadData, DecryptWithPrivateKey, connVars
  <2>2. \/ UNCHANGED <<contexts, failures>>
        \/ UNCHANGED contexts /\ Fails("EVP_PKEY_CTX_new")
        \/ contexts' = contexts + 1 /\ Fails("EVP_PKEY_decrypt_init")
    BY <1>9 DEF ReadData, DecryptWithPrivateKey
  <2>. QED
    BY <2>1, <2>2
<1>10. CASE CompareToken
  BY <1>10 DEF CompareToken
<1>11. CASE CreateCipher
  <2>1. CASE CipherThrows /\ pc' = "idle" /\ UNCHANGED cipher
    <3>1. /\ pc = "cipher" /\ status = "LOGIN"
          /\ UNCHANGED <<status, cipher>>
      BY <1>11, <2>1 DEF CreateCipher
    <3>2. \/ UNCHANGED <<contexts, failures>>
          \/ /\ contexts' \in {contexts, contexts + 1}
             /\ Fails("EVP_CIPHER_CTX_new")
          \/ contexts' = contexts + 1 /\ Fails("EVP_EncryptInit_ex")
          \/ contexts' = contexts + 2 /\ Fails("EVP_DecryptInit_ex")
      BY <2>1 DEF CipherThrows
    <3>3. CASE UNCHANGED <<contexts, failures>>
      BY <2>1, <3>1, <3>3
    <3>4. CASE contexts' \in {contexts, contexts + 1} /\ Costs(0, 1)
      BY <2>1, <3>1, <3>4
    <3>5. CASE contexts' = contexts + 1 /\ Costs(1, 0)
      BY <2>1, <3>1, <3>5
    <3>6. CASE contexts' = contexts + 2 /\ Costs(2, 0)
      BY <2>1, <3>1, <3>6
    <3>. HIDE DEF AccountInv, Costs
    <3>. QED
      BY <3>2, <3>3, <3>4, <3>5, <3>6
  <2>2. CASE /\ Works /\ packet.secret # WrongSize /\ cipher' = packet.secret
             /\ contexts' = contexts + 2 /\ pc' = "login"
    <3>1. cipher' # NoCipher
      BY <1>11, <2>2 DEF TokenInv, Secrets
    <3>. QED
      BY <1>11, <2>2, <3>1 DEF CreateCipher
  <2>. QED
    BY <1>11, <2>1, <2>2 DEF CreateCipher
<1>12. CASE AddLogin
  BY <1>12 DEF AddLogin, AddPacket, After, connVars
<1>13. CASE SetStatus
  BY <1>13 DEF SetStatus
<1>14. CASE Destroy
  BY <1>14 DEF Destroy
<1>. QED
  BY <1>1, <1>2, <1>3, <1>4, <1>5, <1>6, <1>7, <1>8, <1>9, <1>10, <1>11, <1>12,
     <1>13, <1>14 DEF Next

\* Whatever a client sends, and however often, no object of OpenSSL is lost or
\* freed twice; and a call that fails by itself, whichever it is and wherever it
\* strikes, loses what ContextsOwned says of it and no more.
\* Code: decryptWithPrivateKey, AESCipher, handleSharedKeyPacket's guard.
THEOREM NoContextLost == Spec => []ContextsOwned
<1>1. HeldInv => ContextsOwned
  BY DEF HeldInv, AccountInv, ContextsOwned, Owned, Lost, Maybe
<1>2. HeldInv /\ [Next]_vars => HeldInv'
  BY LoginNext, AuthNext, AccountNext DEF HeldInv
<1>. QED
  BY HeldInit, <1>1, <1>2, PTL DEF Spec

(***************************************************************************)
(* The types, with their bounds: a token costs the client a packet.        *)
(***************************************************************************)

Contents == {Login} \cup {Auth(t) : t \in 1..MaxPackets}

KeyTypeInv ==
  /\ TypeOK
  /\ tokens <= packets
  /\ queue \in Seq(Contents)

\* Encryption changes the key of every entry, and nothing else.
LEMMA EncryptedEntries ==
  ASSUME writeBuffer \in Seq(Entries), cipher \in Keys \cup {NoCipher}
  PROVE  Encrypted \in Seq(Entries)
<1>1. CASE cipher = NoCipher
  BY <1>1 DEF Encrypted
<1>2. CASE cipher # NoCipher
  <2>1. Len(writeBuffer) \in Nat /\ DOMAIN writeBuffer = 1..Len(writeBuffer)
    OBVIOUS
  <2>2. ASSUME NEW i \in 1..Len(writeBuffer)
        PROVE  [writeBuffer[i] EXCEPT !.key = cipher] \in Entries
    <3>1. writeBuffer[i] \in Entries
      OBVIOUS
    <3>. QED
      BY <3>1 DEF Entries
  <2>3. Encrypted \in [1..Len(writeBuffer) -> Entries]
    BY <1>2, <2>1, <2>2 DEF Encrypted
  <2>. QED
    BY <2>1, <2>3, SeqDef
<1>. QED
  BY <1>1, <1>2

LEMMA KeyTypeInit == Init => KeyTypeInv
<1>. SUFFICES ASSUME Init
              PROVE  KeyTypeInv
  OBVIOUS
<1>1. packet \in [secret : Secrets, token : {Garbled} \cup 0..MaxPackets]
  <2>1. Garbled \in Secrets /\ 0 \in 0..MaxPackets
    BY KeyExchangeAssumption DEF Secrets
  <2>. QED
    BY <2>1 DEF Init
<1>2. /\ verifyToken \in 0..tokens /\ tokens \in 0..MaxPackets
      /\ packets \in 0..MaxPackets /\ tokens <= packets /\ contexts \in Nat
  BY KeyExchangeAssumption DEF Init
<1>3. mustDisconnect \in BOOLEAN /\ isWriting \in BOOLEAN
      /\ failures \in [Calls -> Nat]
  BY DEF Init
<1>4. /\ queue \in Seq(Contents) /\ writeBuffer \in Seq(Entries)
      /\ inflight \in Seq(Entries) /\ sent \in Seq(Entries)
  BY DEF Init
<1>. QED
  BY <1>1, <1>2, <1>3, <1>4 DEF Init, KeyTypeInv, TypeOK

LEMMA KeyTypeNext == ExchangeInv /\ KeyTypeInv /\ [Next]_vars => KeyTypeInv'
<1>. SUFFICES ASSUME ExchangeInv, KeyTypeInv, [Next]_vars
              PROVE  KeyTypeInv'
  OBVIOUS
<1>0. contexts' \in Nat /\ failures' \in [Calls -> Nat]
  BY ExchangeNext DEF ExchangeInv, ConnTypeOK
<1>. USE KeyExchangeAssumption DEF KeyTypeInv, TypeOK
\* Steps of the handlers that leave the sending half alone.
<1>1. CASE KeyPair \/ ReadData \/ CompareToken \/ SetStatus \/ Destroy
  BY <1>0, <1>1
  DEF KeyPair, ReadData, DecryptWithPrivateKey, CompareToken, SetStatus, Destroy,
      connVars, sendVars
<1>2. CASE UNCHANGED vars
  BY <1>2 DEF vars, connVars, sendVars
<1>3. CASE CreateCipher
  <2>1. cipher' \in Keys \cup {NoCipher}
    BY <1>3 DEF CreateCipher, ExchangeInv, TokenInv, ConnTypeOK, Secrets
  <2>. QED
    BY <1>0, <1>3, <2>1 DEF CreateCipher, sendVars
<1>4. CASE DecryptRead
  BY <1>0, <1>4 DEF DecryptRead, Receive, connVars, sendVars
<1>5. CASE HandleSharedKey
  <2>1. packet' \in [secret : Secrets, token : {Garbled} \cup 0..MaxPackets]
    <3>1. /\ packet' \in [secret : Secrets, token : {Garbled} \cup 0..tokens]
          /\ tokens \in 0..MaxPackets
      BY <1>5 DEF HandleSharedKey
    <3>. QED
      BY <3>1
  <2>. QED
    BY <1>5, <2>1 DEF HandleSharedKey, Receive, sendVars
<1>6. CASE HandleHandshake
  <2>1. /\ packets' \in 0..MaxPackets /\ packets' = packets + 1
        /\ UNCHANGED <<status, mustDisconnect, cipher, packet, contexts>>
    BY <1>6 DEF HandleHandshake, Receive
  <2>2. CASE UNCHANGED <<sendVars, verifyToken, tokens>>
    BY <1>0, <2>1, <2>2 DEF sendVars
  <2>3. CASE /\ tokens' = tokens + 1 /\ verifyToken' = tokens'
             /\ AddPacket(Auth(tokens'), "writeAuth")
    <3>1. tokens' \in 1..MaxPackets
      BY <2>1, <2>3
    <3>2. Auth(tokens') \in Contents
      BY <3>1 DEF Contents
    <3>3. queue' \in Seq(Contents)
      BY <2>3, <3>2 DEF AddPacket
    <3>. QED
      BY <1>0, <2>1, <2>3, <3>1, <3>3 DEF AddPacket
  <2>. QED
    BY <1>6, <2>2, <2>3 DEF HandleHandshake
<1>7. CASE AddLogin
  <2>1. queue' \in Seq(Contents)
    BY <1>7 DEF AddLogin, AddPacket, Contents
  <2>. QED
    BY <1>7, <2>1 DEF AddLogin, AddPacket, connVars
<1>8. CASE Serialise
  <2>1. UNCHANGED <<connVars, isWriting, inflight, sent, contexts, tokens, packets>>
    BY <1>8 DEF Serialise
  <2>2. CASE UNCHANGED <<writeBuffer, queue>>
    BY <1>0, <2>1, <2>2 DEF connVars
  <2>3. CASE /\ writeBuffer' =
                  Append(writeBuffer, [packet |-> Head(queue), key |-> NoCipher])
             /\ queue' = Tail(queue)
    <3>1. queue # <<>> /\ Head(queue) \in Contents
      BY <1>8 DEF Serialise
    <3>2. [packet |-> Head(queue), key |-> NoCipher] \in Entries
      BY <3>1 DEF Entries, Contents
    <3>3. queue' \in Seq(Contents) /\ writeBuffer' \in Seq(Entries)
      BY <2>3, <3>1, <3>2
    <3>. QED
      BY <1>0, <2>1, <3>3 DEF connVars
  <2>. QED
    BY <1>8, <2>2, <2>3 DEF Serialise
<1>9. CASE Post
  <2>1. UNCHANGED <<connVars, queue, isWriting, sent, contexts, tokens, packets>>
    BY <1>9 DEF Post
  <2>2. writeBuffer' \in Seq(Entries) /\ inflight' \in Seq(Entries)
    BY <1>9, EncryptedEntries DEF Post
  <2>. QED
    BY <1>0, <2>1, <2>2 DEF connVars
<1>10. CASE WriteDone
  <2>1. sent' \in Seq(Entries)
    BY <1>10 DEF WriteDone
  <2>2. <<>> \in Seq(Entries)
    OBVIOUS
  <2>3. /\ UNCHANGED <<connVars, queue, pc, contexts, tokens, packets, failures>>
        /\ inflight' = <<>> /\ writeBuffer' = <<>> /\ isWriting' = FALSE
    BY <1>10 DEF WriteDone
  <2>. QED
    BY <2>1, <2>2, <2>3, Zenon DEF connVars
<1>. QED
  BY <1>1, <1>2, <1>3, <1>4, <1>5, <1>6, <1>7, <1>8, <1>9, <1>10 DEF Next

\* Every member of the exchange has its type within the bounds: what is posted
\* and what arrives are entries of packets made, each in the clear or under a
\* key of 16 bytes, and no more objects are given back than were taken.
\* Code: Connection's members, AESCipher's and KeyPair's.
THEOREM KeyExchangeTypeCorrect == Spec => []TypeOK
<1>1. KeyTypeInv => TypeOK
  BY DEF KeyTypeInv
<1>. QED
  BY ExchangeInit, ExchangeNext, KeyTypeInit, KeyTypeNext, <1>1, PTL DEF Spec
=============================================================================
