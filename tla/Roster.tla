------------------------------- MODULE Roster -------------------------------
(***************************************************************************)
(* What the server promises about the players it keeps: every connection   *)
(* joins once, in the order of the accepts, and leaves for good; it leaves *)
(* only once it is no longer alive, and it never comes back to life.       *)
(* Nothing is promised about when a dead connection leaves.                *)
(***************************************************************************)
EXTENDS Naturals

CONSTANT MaxAccepts     \* bound: connections accepted

VARIABLES
  joined,           \* how many connections have joined
  online,           \* the connections that have a Player
  alive             \* the connections that were not disconnected

rosterVars == <<joined, online, alive>>

Conns == 1..MaxAccepts

Init ==
  /\ joined = 0
  /\ online = {}
  /\ alive = Conns

Join ==
  /\ joined < MaxAccepts
  /\ joined' = joined + 1
  /\ online' = online \cup {joined + 1}
  /\ UNCHANGED alive

\* Some connections are disconnected, and some of the dead leave: a kick does
\* both at once.
Leave ==
  /\ \E dying \in SUBSET (alive \cap 1..joined) : alive' = alive \ dying
  /\ \E leaving \in SUBSET (online \ alive') : online' = online \ leaving
  /\ UNCHANGED joined

Next == Join \/ Leave

Spec == Init /\ [][Next]_rosterVars
=============================================================================
