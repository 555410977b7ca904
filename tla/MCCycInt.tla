------------------------------ MODULE MCCycInt ------------------------------
(* Instances of CycInt: display timer 1, event loop 3, device timers 2    *)
(* and, where two devices must compete, 4.                                *)
EXTENDS CycInt

MCIds == 1..3
MCIdsTwo == 1..4
MCRemovable == {2}
MCCycleDelays == {1, 3}
MCUsDelays == {1}
MCCycleCounts == {1, 2}
MCCycleCountsOne == {1}
=============================================================================
