---------------------------- MODULE MCInterrupts ----------------------------
(* Instances of Interrupts: the timer, which SCR2 can move from level 6 to  *)
(* level 7, alone for the JIT; for the interpreter a device below it and    *)
(* the NMI line as well.                                                    *)
EXTENDS Interrupts

MCLines == {"timer", "scc", "nmi"}
MCLevelOf == [s \in MCLines |-> CASE s = "timer" -> 6 [] s = "scc" -> 5 [] s = "nmi" -> 7]
MCMasks == {{}, MCLines}
MCTimer == {"timer"}
MCLevelOfTimer == [s \in MCTimer |-> 6]
MCMasksTimer == {{}, MCTimer}
MCStats == {{}}
MCIpls == {0, 5, 7}
MCIplsTimer == {0, 6, 7}
=============================================================================
