---------------------------------- MODULE Link ---------------------------------
(***************************************************************************)
(* What the emulated Ethernet promises the guest about packets from the     *)
(* network: a packet may be lost, but what is received was sent, is whole,  *)
(* comes in the order of sending and never twice.  Packets are numbered in  *)
(* the order in which the network sends them.                               *)
(***************************************************************************)
EXTENDS Integers, Sequences

VARIABLES
  offered,    \* number of the last packet sent by the network
  received    \* numbers of the packets received, in order

linkVars == <<offered, received>>

LinkInit == offered = 0 /\ received = <<>>

LastReceived == IF received = <<>> THEN 0 ELSE received[Len(received)]

(* Packets are sent, and at most one is received *)
LinkNext ==
  /\ offered' \in Nat /\ offered' >= offered
  /\ \/ received' = received
     \/ \E p \in 1..offered : p > LastReceived /\ received' = Append(received, p)

LinkSpec == LinkInit /\ [][LinkNext]_linkVars
================================================================================
