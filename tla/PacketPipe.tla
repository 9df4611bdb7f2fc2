----------------------------- MODULE PacketPipe -----------------------------
(***************************************************************************)
(* What a Connection promises the code that calls addPacketToQueue: the    *)
(* packets reach the peer in the order they were added, none twice and     *)
(* none out of turn.  Nothing is promised about WHEN a packet is sent; the *)
(* pipe may stop after any prefix (the peer left, the socket was closed).  *)
(***************************************************************************)
EXTENDS Naturals, Sequences

CONSTANT Kinds      \* the kinds of packet the server sends

VARIABLES
  added,            \* the packets given to addPacketToQueue, in order
  sent              \* the packets the peer received, by position in "added"

pipeVars == <<added, sent>>

\* The first n packets, as the peer numbers them.
FirstPackets(n) == [i \in 1..n |-> i]

Init ==
  /\ added = <<>>
  /\ sent = <<>>

Add(k) ==
  /\ added' = Append(added, k)
  /\ UNCHANGED sent

\* The peer receives some more of the packets added so far.
Deliver ==
  /\ \E n \in Len(sent)..Len(added) : sent' = FirstPackets(n)
  /\ UNCHANGED added

Next == Deliver \/ \E k \in Kinds : Add(k)

Spec == Init /\ [][Next]_pipeVars
=============================================================================
