---------------------------- MODULE KeyExchange -----------------------------
(***************************************************************************)
(* The key exchange of one connection and the wrappers of OpenSSL it uses: *)
(* crypto::KeyPair, crypto::AESCipher and the two packets that carry keys. *)
(* Whatever a client sends may be wrong and any call of OpenSSL may fail;  *)
(* both end in an exception, and what matters is what a handler that ends  *)
(* half way leaves behind.  The handlers run on the network thread, one    *)
(* after the other; an exception reaches the catch of process_packets, or  *)
(* nobody.                                                                 *)
(*                                                                         *)
(* The spawn and position packets that follow Login are left out: a write  *)
(* is under way by then, so that they are only queued.  So are a refused   *)
(* version and the close of the socket, which are Connection's; without    *)
(* them the client can do more here, never less.                           *)
(***************************************************************************)
EXTENDS Naturals, Sequences

CONSTANTS
  Keys,             \* secrets of 16 bytes
  WrongSize,        \* a secret of another size
  Garbled,          \* what does not decrypt
  NoCipher,
  Failing,          \* the OpenSSL calls that may fail by themselves
  MaxPackets        \* bound: packets the client sends

Secrets == Keys \cup {WrongSize, Garbled}

\* The calls of OpenSSL whose failure the code asks for.
Calls == {"EVP_PKEY_keygen", "RAND_bytes", "i2d_PUBKEY", "EVP_PKEY_CTX_new",
          "EVP_PKEY_decrypt_init", "EVP_CIPHER_CTX_new", "EVP_EncryptInit_ex",
          "EVP_DecryptInit_ex", "EVP_EncryptUpdate", "EVP_DecryptUpdate"}

ASSUME KeyExchangeAssumption ==
  /\ {WrongSize, Garbled, NoCipher} \cap Keys = {}
  /\ Failing \subseteq Calls
  /\ WrongSize # Garbled /\ NoCipher \notin {WrongSize, Garbled}
  /\ MaxPackets \in Nat

VARIABLES
  status, verifyToken, mustDisconnect,    \* Connection's members
  cipher,           \* Connection::cipher: NoCipher or the key of an AESCipher
  packet,           \* the SharedKeyPacket handled last: secret and token
  queue, isWriting, \* the sending half: packets,
  writeBuffer,      \* serialised packets and the key they are encrypted with,
  inflight, sent,   \* those given to async_write, those the client got
  pc,               \* the step of a handler; "dead" without a process,
                    \* "gone" after the connection's end
  contexts,         \* objects taken from OpenSSL and not given back
  tokens, packets,  \* tokens made and packets received so far
  failures          \* history: how often each call of OpenSSL failed by itself

connVars == <<status, verifyToken, mustDisconnect, cipher, packet>>
sendVars == <<queue, isWriting, writeBuffer, inflight, sent>>
vars == <<connVars, sendVars, pc, contexts, tokens, packets, failures>>

Auth(token) == [kind |-> "AuthData", token |-> token]
Login == [kind |-> "Login", token |-> 0]

Works == UNCHANGED failures
Fails(call) == call \in Failing /\ failures' = [failures EXCEPT ![call] = @ + 1]

\* process_packets catches what a handler throws.
Catch == pc' = "idle"

Init ==
  /\ status = "HANDSHAKE" /\ verifyToken = 0 /\ mustDisconnect = FALSE
  /\ cipher = NoCipher /\ packet = [secret |-> Garbled, token |-> 0]
  /\ queue = <<>> /\ isWriting = FALSE /\ writeBuffer = <<>>
  /\ inflight = <<>> /\ sent = <<>>
  /\ pc = "start" /\ contexts = 0 /\ tokens = 0 /\ packets = 0
  /\ failures = [call \in Calls |-> 0]

\* KeyPair's constructor keeps one object.  Nobody catches what it throws, and
\* the process ends.
KeyPair ==
  /\ pc = "start"
  /\ contexts' = contexts + 1
  /\ \/ Works /\ pc' = "idle"
     \/ Fails("EVP_PKEY_keygen") /\ pc' = "dead"
  /\ UNCHANGED <<connVars, sendVars, tokens, packets>>

-----------------------------------------------------------------------------
(* addPacketToQueue and start_write, with what writeData and encrypt throw. *)

\* Where the handler goes on after start_write.
After == [writeAuth |-> "authStatus", writeLogin |-> "playStatus"]
Writing == pc \in DOMAIN After

AddPacket(p, write) ==
  /\ queue' = Append(queue, p)
  /\ isWriting' = TRUE
  /\ pc' = IF isWriting THEN After[write] ELSE write
  /\ UNCHANGED <<writeBuffer, inflight, sent>>

\* writeData of the packet at the head; a ServerAuthDataPacket asks the KeyPair
\* for the public key.
Serialise ==
  /\ Writing /\ queue # <<>>
  /\ \/ /\ Works
        /\ writeBuffer' = Append(writeBuffer, [packet |-> Head(queue), key |-> NoCipher])
        /\ queue' = Tail(queue)
        /\ UNCHANGED pc
     \/ /\ Head(queue).kind = "AuthData" /\ Fails("i2d_PUBKEY")
        /\ Catch
        /\ UNCHANGED <<writeBuffer, queue>>
  /\ UNCHANGED <<connVars, isWriting, inflight, sent, contexts, tokens, packets>>

\* AESCipher::encrypt, when there is one.
Encrypted ==
  IF cipher = NoCipher THEN writeBuffer
  ELSE [i \in DOMAIN writeBuffer |-> [writeBuffer[i] EXCEPT !.key = cipher]]

\* Variant with a bug: what could not be encrypted is posted.
PostAnyway ==
  /\ Writing /\ queue = <<>>
  /\ \/ Works /\ writeBuffer' = Encrypted
     \/ cipher # NoCipher /\ Fails("EVP_EncryptUpdate") /\ UNCHANGED writeBuffer
  /\ inflight' = writeBuffer'
  /\ pc' = After[pc]
  /\ UNCHANGED <<connVars, queue, isWriting, sent, contexts, tokens, packets>>

Post ==
  /\ Writing /\ queue = <<>>
  /\ \/ /\ Works
        /\ writeBuffer' = Encrypted /\ inflight' = Encrypted
        /\ pc' = After[pc]
     \/ /\ cipher # NoCipher /\ Fails("EVP_EncryptUpdate")
        /\ Catch
        /\ UNCHANGED <<writeBuffer, inflight>>
  /\ UNCHANGED <<connVars, queue, isWriting, sent, contexts, tokens, packets>>

\* handle_write, after a write that succeeded.
WriteDone ==
  /\ pc = "idle" /\ inflight # <<>>
  /\ sent' = sent \o inflight
  /\ inflight' = <<>> /\ writeBuffer' = <<>> /\ isWriting' = FALSE
  /\ UNCHANGED <<connVars, queue, pc, contexts, tokens, packets, failures>>

-----------------------------------------------------------------------------
(* handle_read, handleHandshake and handleSharedKeyPacket.                 *)

Receive ==
  /\ pc = "idle"
  /\ packets < MaxPackets
  /\ packets' = packets + 1

\* AESCipher::decrypt is called outside the try of process_packets.
DecryptRead ==
  /\ Receive
  /\ cipher # NoCipher /\ Fails("EVP_DecryptUpdate")
  /\ pc' = "dead"
  /\ UNCHANGED <<connVars, sendVars, contexts, tokens>>

\* ServerAuthDataPacket's constructor makes the token.
HandleHandshake ==
  /\ Receive
  /\ status = "HANDSHAKE"
  /\ \/ /\ Works
        /\ tokens' = tokens + 1
        /\ verifyToken' = tokens'
        /\ AddPacket(Auth(tokens'), "writeAuth")
     \/ /\ Fails("RAND_bytes")
        /\ Catch
        /\ UNCHANGED <<sendVars, verifyToken, tokens>>
  /\ UNCHANGED <<status, mustDisconnect, cipher, packet, contexts>>

HandleSharedKey ==
  /\ Receive
  /\ status = "LOGIN"
  /\ packet' \in [secret : Secrets, token : {Garbled} \cup 0..tokens]
  /\ pc' = "secret"
  /\ UNCHANGED <<status, verifyToken, mustDisconnect, cipher, sendVars, contexts,
                 tokens, failures>>

\* Variant with a bug: the context is not freed when the data is bad.
DecryptLeaky(data, next) ==
  \/ Works /\ data # Garbled /\ pc' = next /\ UNCHANGED contexts
  \/ Works /\ data = Garbled /\ Catch /\ contexts' = contexts + 1
  \/ Fails("EVP_PKEY_CTX_new") /\ Catch /\ UNCHANGED contexts
  \/ Fails("EVP_PKEY_decrypt_init") /\ Catch /\ contexts' = contexts + 1

\* KeyPair::decryptWithPrivateKey frees its context except when the
\* initialisation fails.
DecryptWithPrivateKey(data, next) ==
  \/ Works /\ data # Garbled /\ pc' = next /\ UNCHANGED contexts
  \/ Works /\ data = Garbled /\ Catch /\ UNCHANGED contexts
  \/ Fails("EVP_PKEY_CTX_new") /\ Catch /\ UNCHANGED contexts
  \/ Fails("EVP_PKEY_decrypt_init") /\ Catch /\ contexts' = contexts + 1

\* SharedKeyPacket::readData.
ReadData ==
  /\ \/ pc = "secret" /\ DecryptWithPrivateKey(packet.secret, "token")
     \/ pc = "token" /\ DecryptWithPrivateKey(packet.token, "compare")
  /\ UNCHANGED <<connVars, sendVars, tokens, packets>>

\* Variant with a bug: the token is not compared.
CompareNothing ==
  /\ pc = "compare"
  /\ pc' = "cipher"
  /\ UNCHANGED <<connVars, sendVars, contexts, tokens, packets, failures>>

\* A wrong token disconnects, and the login goes on all the same.
CompareToken ==
  /\ pc = "compare"
  /\ mustDisconnect' = (mustDisconnect \/ packet.token # verifyToken)
  /\ pc' = "cipher"
  /\ UNCHANGED <<status, verifyToken, cipher, packet, sendVars, contexts, tokens,
                 packets, failures>>

\* What AESCipher's constructor has taken when it throws stays taken, as its
\* destructor does not run.
CipherThrows ==
  \/ Works /\ packet.secret = WrongSize /\ UNCHANGED contexts
  \/ /\ packet.secret # WrongSize
     /\ \/ Fails("EVP_CIPHER_CTX_new") /\ contexts' \in {contexts, contexts + 1}
        \/ Fails("EVP_EncryptInit_ex") /\ contexts' = contexts + 1
        \/ Fails("EVP_DecryptInit_ex") /\ contexts' = contexts + 2

\* Variant with a bug: the status is set before the cipher is there.
CreateCipherLate ==
  /\ pc = "cipher"
  /\ status' = "PLAY"
  /\ \/ /\ Works /\ packet.secret # WrongSize
        /\ cipher' = packet.secret
        /\ contexts' = contexts + 2
        /\ pc' = "login"
     \/ CipherThrows /\ Catch /\ UNCHANGED cipher
  /\ UNCHANGED <<verifyToken, mustDisconnect, packet, sendVars, tokens, packets>>

CreateCipher ==
  /\ pc = "cipher"
  /\ \/ /\ Works /\ packet.secret # WrongSize
        /\ cipher' = packet.secret
        /\ contexts' = contexts + 2
        /\ pc' = "login"
     \/ CipherThrows /\ Catch /\ UNCHANGED cipher
  /\ UNCHANGED <<status, verifyToken, mustDisconnect, packet, sendVars, tokens,
                 packets>>

AddLogin ==
  /\ pc = "login"
  /\ AddPacket(Login, "writeLogin")
  /\ UNCHANGED <<connVars, contexts, tokens, packets, failures>>

SetStatus ==
  /\ \/ pc = "authStatus" /\ status' = "LOGIN"
     \/ pc = "playStatus" /\ status' = "PLAY"
  /\ pc' = "idle"
  /\ UNCHANGED <<verifyToken, mustDisconnect, cipher, packet, sendVars, contexts,
                 tokens, packets, failures>>

\* Variant with a bug: the cipher is deleted whether there is one or not.
DestroyAlways ==
  /\ pc = "idle" /\ inflight = <<>>
  /\ pc' = "gone"
  /\ cipher' = NoCipher
  /\ contexts' = contexts - 2
  /\ UNCHANGED <<status, verifyToken, mustDisconnect, packet, sendVars, tokens,
                 packets, failures>>

\* ~Connection deletes the cipher, whose destructor frees both contexts.
Destroy ==
  /\ pc = "idle" /\ inflight = <<>>
  /\ pc' = "gone"
  /\ cipher' = NoCipher
  /\ contexts' = IF cipher = NoCipher THEN contexts ELSE contexts - 2
  /\ UNCHANGED <<status, verifyToken, mustDisconnect, packet, sendVars, tokens,
                 packets, failures>>

Next ==
  \/ KeyPair
  \/ Serialise \/ Post \/ WriteDone
  \/ DecryptRead \/ HandleHandshake \/ HandleSharedKey
  \/ ReadData \/ CompareToken \/ CreateCipher \/ AddLogin \/ SetStatus
  \/ Destroy

Spec == Init /\ [][Next]_vars

-----------------------------------------------------------------------------
Entries == [packet : {Login} \cup {Auth(t) : t \in 1..MaxPackets},
            key : Keys \cup {NoCipher}]

TypeOK ==
  /\ status \in {"HANDSHAKE", "LOGIN", "PLAY"}
  /\ verifyToken \in 0..tokens /\ tokens \in 0..MaxPackets
  /\ mustDisconnect \in BOOLEAN /\ isWriting \in BOOLEAN
  /\ failures \in [Calls -> Nat]
  /\ cipher \in Keys \cup {NoCipher}
  /\ packet \in [secret : Secrets, token : {Garbled} \cup 0..MaxPackets]
  /\ writeBuffer \in Seq(Entries) /\ inflight \in Seq(Entries)
  /\ sent \in Seq(Entries)
  /\ contexts \in Nat /\ packets \in 0..MaxPackets

\* Nothing a client sends, whatever it repeats, makes the server lose an object of
\* OpenSSL or free one twice: each is the key pair or one of the two contexts of the
\* cipher, or a call that failed by itself has cost it.  One goes where decrypt_init
\* or EncryptInit fails, two where DecryptInit does; the second context of a cipher
\* that gets none costs the first; and after a failure to encrypt the client is
\* still in status LOGIN, and its next key replaces the cipher.  No other failure
\* costs anything.
\* Code: decryptWithPrivateKey, AESCipher, handleSharedKeyPacket's guard.
ContextsOwned ==
  LET owned == IF cipher = NoCipher THEN 1 ELSE 3
      lost == failures["EVP_PKEY_decrypt_init"] + failures["EVP_EncryptInit_ex"]
                + 2 * failures["EVP_DecryptInit_ex"]
      maybe == failures["EVP_CIPHER_CTX_new"] + 2 * failures["EVP_EncryptUpdate"]
  IN  pc # "start" => owned + lost <= contexts /\ contexts <= owned + lost + maybe

\* Whatever fails, the login packet never goes out in the clear: a failure to
\* create a cipher or to encrypt ends in silence.
\* Code: start_write, AESCipher::encrypt, handleSharedKeyPacket.
LoginIsEncrypted ==
  \A i \in DOMAIN sent : sent[i].packet = Login => sent[i].key \in Keys

\* Between two handlers a client is in status PLAY if and only if it has a
\* cipher, however many of its key packets were refused half way.
\* Code: the order of the steps of handleSharedKeyPacket.
PlayMeansCipher ==
  pc = "idle" => /\ status = "PLAY" => cipher # NoCipher
                 /\ cipher # NoCipher =>
                      status = "PLAY" \/ \E call \in Calls : failures[call] > 0

\* A client that plays and is not about to be disconnected has sent the token,
\* in the packet its key came with.  Code: handleSharedKeyPacket.
PlayerKnewToken ==
  status = "PLAY" /\ ~mustDisconnect =>
    packet.token = verifyToken /\ packet.secret \in Keys

-----------------------------------------------------------------------------
(* What the repository says of the key exchange and the code does not do.  *)

\* There is no memory leak (README.md:89), even when a call fails.
NothingLost == pc \in {"idle", "gone"} => contexts = IF cipher = NoCipher THEN 1 ELSE 3

\* A packet that was added can be sent (Connection.h:36), even after a failure.
WriterNeverStuck == pc = "idle" /\ isWriting => inflight # <<>>
=============================================================================
