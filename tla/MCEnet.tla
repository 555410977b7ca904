--------------------------------- MODULE MCEnet --------------------------------
(***************************************************************************)
(* Instances of Enet: packets of one unit and a checksum, a queue of one,   *)
(* receive buffers that hold half of it, so that two chained ones hold it   *)
(* and one does not, a transmit buffer that ends a packet and one that      *)
(* leaves it open.                                                          *)
(***************************************************************************)
EXTENDS Enet

MCTxBuffers == {[n |-> 1, eop |-> FALSE], [n |-> 2, eop |-> TRUE]}
MCOneBuffer == {[n |-> 2, eop |-> TRUE]}
MCBothChips == {TRUE, FALSE}
MCFujitsu == {FALSE}
================================================================================
