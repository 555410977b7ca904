---------------------------- MODULE MCBlockCache ----------------------------
(* Instances of BlockCache: two code locations, in one cache line or two,  *)
(* on one page or two.                                                     *)
EXTENDS BlockCache

MCAddr == {1, 2}
MCNone == {}
MCRom == {2}
MCVal == {1, 2}
MCValZero == {0, 1}
MCSpan == [a \in MCAddr |-> {a}]
MCSpanOverlap == [a \in MCAddr |-> a .. 2]
MCApart == [a \in MCAddr |-> a]
MCShared == [a \in MCAddr |-> 1]
MCCpuMo == {"cpu", "mo"}
MCCpuJitScsi == {"cpu", "jit", "scsi"}
MCJit == {"jit"}
MCMo == {"mo"}

(* The view of a run whose properties do not mention unflushed: the ghost   *)
(* is read by no action, so states that differ in it alone are equivalent.  *)
WithoutUnflushed == <<mem, unseen, cacheVars, at, pc, tr, slot, target, checkVars>>
=============================================================================
