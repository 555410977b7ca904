----------------------------- MODULE Interrupts -----------------------------
(***************************************************************************)
(* Interrupt delivery.  Devices raise and lower lines in the interrupt     *)
(* status register (sysReg.c); intlev() turns status and mask into a level *)
(* that the CPU polls.  The interpreter (cpu/newcpu.c) polls after every   *)
(* instruction.  The JIT polls at several places, each with its own static *)
(* lastintr, and every one of them only sets SPCFLAG_INT; the exception is *)
(* taken by m68k_do_specialties (cpu/uae2026_linker_stubs.cpp), which      *)
(* reads the level again.                                                  *)
(*                                                                         *)
(* `at` is the CPU thread's control point.  Interpreter: insn, drain,      *)
(* poll, special, stopped.  JIT: entry (about to enter generated code),    *)
(* native, normal (execute_normal), blockTick, and back in the C           *)
(* dispatcher left, charge, due, tick, poll, special.  faulted: after a    *)
(* bus error, about to run the access-error handler.                       *)
(***************************************************************************)
EXTENDS Naturals

CONSTANTS
  Src,        \* the lines of the interrupt status register
  LevelOf,    \* the level of a line (INT_L1_MASK .. INT_L7_MASK)
  TIMER,      \* INT_TIMER, which SCR2_TIMERIPL7 moves to level 7
  Masks,      \* the mask register values the guest writes
  Stats,      \* the status register values the guest writes
  Ipls,       \* the interrupt masks the guest loads into SR (MOVE, RTE, STOP)
  Jit,        \* the JIT runs the guest
  RamJit      \* PREVIOUS_UAE2026_JIT_RAM

ASSUME SourceAssumption ==
  /\ LevelOf \in [Src -> 1 .. 7]
  /\ TIMER \in Src /\ LevelOf[TIMER] = 6
  /\ Masks \subseteq SUBSET Src /\ Stats \subseteq SUBSET Src /\ Ipls \subseteq 0 .. 7
ASSUME EngineAssumption == Jit \in BOOLEAN /\ RamJit \in BOOLEAN

VARIABLES
  intStat, intMask,  \* the registers, as sets of lines
  timerIpl7,         \* SCR2_TIMERIPL7
  intmask,           \* regs.intmask
  spcflags,          \* SPCFLAG_INT, SPCFLAG_DOINT and SPCFLAG_STOP
  lastintr,          \* what each poller saw last
  at,
  edge               \* ghost: since level 7 was last taken, a poll at an
                     \* instruction or dispatch boundary has seen less than 7

lines == <<intStat, intMask, timerIpl7>>
vars == <<lines, intmask, spcflags, lastintr, at, edge>>

Pollers == {"pins", "charge", "tick", "special"}

-----------------------------------------------------------------------------
(* get_interrupt_level.                                                     *)

Active(n) ==
  \E s \in intStat \cap intMask :
    LevelOf[s] = n \/ (n = 7 /\ s = TIMER /\ timerIpl7)

intlev ==
  IF Active(7) THEN 7 ELSE IF Active(6) THEN 6 ELSE IF Active(5) THEN 5 ELSE
  IF Active(4) THEN 4 ELSE IF Active(3) THEN 3 ELSE IF Active(2) THEN 2 ELSE
  IF Active(1) THEN 1 ELSE 0

(* The test all pollers make: above the mask, or level 7 has just risen.    *)
(* Fault: an interrupt is recognised only when its level rises.             *)
Deliverable_rising(who) == intlev > intmask /\ intlev > lastintr[who]
Deliverable(who) == intlev > intmask \/ (intlev = 7 /\ intlev > lastintr[who])

See(who) == lastintr' = [lastintr EXCEPT ![who] = intlev]

-----------------------------------------------------------------------------
(* The lines, moved by device handlers, the DSP, the i860 and register      *)
(* accesses of guest instructions.                                          *)

set_interrupt(s, on) ==
  /\ intStat' = IF on THEN intStat \cup {s} ELSE intStat \ {s}
  /\ UNCHANGED <<intMask, timerIpl7>>

(* Where handlers, DSP_Run and i860_Run are called.                         *)
Serviced == at \in {"drain", "stopped", "charge", "tick", "blockTick"}

Device(s, on) ==
  /\ Serviced
  /\ set_interrupt(s, on)
  /\ UNCHANGED <<intmask, spcflags, lastintr, at, edge>>

-----------------------------------------------------------------------------
(* A guest instruction.                                                     *)

Executing == at \in {"insn", "native", "faulted"}
Retired == at' = IF Jit THEN "native" ELSE "drain"

(* A register access, or nothing this module knows of.                      *)
Access ==
  /\ Executing /\ Retired
  /\ \/ UNCHANGED lines
     \/ \E s \in Src, on \in BOOLEAN : set_interrupt(s, on)
     \/ \E m \in Masks : intMask' = m /\ UNCHANGED <<intStat, timerIpl7>>
     \/ \E m \in Stats : intStat' = m /\ UNCHANGED <<intMask, timerIpl7>>
     \/ \E b \in BOOLEAN : timerIpl7' = b /\ UNCHANGED <<intStat, intMask>>
  /\ UNCHANGED <<intmask, spcflags, lastintr, edge>>

(* MakeFromSR calls doint() unless nothing changed; translated code has an  *)
(* inline form that never does.                                             *)
MakeFromSR(m, flags) ==
  /\ intmask' = m
  /\ \/ spcflags' = flags \cup {"DOINT"}
     \/ (Jit \/ m = intmask) /\ spcflags' = flags

SetSr(m) ==
  /\ Executing /\ Retired
  /\ MakeFromSR(m, spcflags)
  /\ UNCHANGED <<lines, lastintr, edge>>

(* STOP: m68k_setstopped; a translated block or a trace ends there.         *)
Stop(m) ==
  /\ Executing /\ at' = IF Jit THEN "left" ELSE "drain"
  /\ MakeFromSR(m, spcflags \cup {"STOP"})
  /\ UNCHANGED <<lines, lastintr, edge>>

(* The instruction takes a bus error: Exception, and the loop goes on with  *)
(* neither a drain nor a poll.                                              *)
Fault ==
  /\ Executing
  /\ at' = "faulted"
  /\ UNCHANGED <<lines, intmask, spcflags, lastintr, edge>>

-----------------------------------------------------------------------------
(* The interpreter loop.                                                    *)

EndDrain ==
  /\ at = "drain"
  /\ at' = "poll"
  /\ UNCHANGED <<lines, intmask, spcflags, lastintr, edge>>

(* Fault: the mask is loaded with the autovector, level + 24.               *)
do_interrupt_autovector(flags) ==
  /\ intmask' = intlev + 24
  /\ spcflags' = (flags \ {"STOP"}) \cup {"DOINT"}

(* do_interrupt: STOP ends, and SR's mask becomes the level.                *)
do_interrupt(flags) ==
  /\ intmask' = intlev
  /\ spcflags' = (flags \ {"STOP"}) \cup {"DOINT"}

(* The ghost, where an interrupt is begun and where the pins are polled.    *)
Begun == edge' = (edge /\ intlev < 7)
Polled == edge' = (edge \/ intlev < 7)

InterpreterPoll ==
  /\ ~Jit /\ at = "poll"
  /\ \/ /\ Deliverable("pins")
        /\ do_interrupt(spcflags \cup {"INT"})
        /\ edge' = (intlev < 7)
     \/ ~Deliverable("pins") /\ Polled /\ UNCHANGED <<intmask, spcflags>>
  /\ See("pins")
  /\ at' = "special"
  /\ UNCHANGED lines

(* The exception's own stack access faults: STOP has ended already, SR and  *)
(* lastintr are untouched.                                                  *)
InterpreterPollFaults ==
  /\ ~Jit /\ at = "poll" /\ Deliverable("pins")
  /\ spcflags' = spcflags \ {"STOP"}
  /\ at' = "faulted"
  /\ Begun
  /\ UNCHANGED <<lines, intmask, lastintr>>

(* Fault: the flag is reported to the caller, which goes on.                *)
do_specialties_returns ==
  /\ ~Jit /\ at = "special" /\ at' = "insn"
  /\ spcflags' = IF "DOINT" \in spcflags THEN (spcflags \ {"DOINT"}) \cup {"INT"} ELSE spcflags
  /\ UNCHANGED <<lines, intmask, lastintr, edge>>

(* do_specialties; a stopped CPU stays in its loop, which calls timer       *)
(* handlers and never polls the pins.                                       *)
do_specialties ==
  /\ ~Jit /\ at = "special"
  /\ IF "STOP" \in spcflags
     THEN at' = "stopped" /\ UNCHANGED spcflags
     ELSE /\ at' = "insn"
          /\ spcflags' = IF "DOINT" \in spcflags THEN {"INT"} ELSE spcflags
  /\ UNCHANGED <<lines, intmask, lastintr, edge>>

(* One round of the STOP loop.                                              *)
StopLoop ==
  /\ at = "stopped"
  /\ UNCHANGED vars

-----------------------------------------------------------------------------
(* The JIT.                                                                 *)

Goto(from, to) ==
  /\ at = from
  /\ at' = to
  /\ UNCHANGED <<lines, intmask, spcflags, lastintr, edge>>

(* Generated code runs a block, or calls execute_normal; translated code    *)
(* under the MMU ends with a tick; and control returns to the dispatcher.   *)
Generated ==
  \/ Goto("entry", "native") \/ Goto("entry", "normal") \/ (Jit /\ Goto("faulted", "normal"))
  \/ Goto("native", "normal") \/ Goto("native", "blockTick") \/ Goto("native", "left")

(* Back in m68k_do_compile_execute: cycles were retired or not, a timer is  *)
(* due (or it is time for the wall-clock tick) or not.                      *)
Charge == Goto("left", "charge")
CheckTicks == Goto("due", "tick")
Dispatcher == Goto("left", "due") \/ Goto("due", "poll")

(* A poller of the JIT only sets SPCFLAG_INT.                               *)
Surface(who) ==
  /\ spcflags' = IF Deliverable(who) THEN spcflags \cup {"INT"} ELSE spcflags
  /\ See(who)

ChargeCyclesNoEvents ==
  /\ at = "charge" /\ at' = "due"
  /\ Surface("charge")
  /\ UNCHANGED <<lines, intmask, edge>>

(* The drain gave up after its limit of handlers, which sets the flag too.  *)
DrainLimit ==
  /\ "STOP" \notin spcflags
  /\ spcflags' = spcflags \cup {"INT"}
  /\ See("tick")

CpuCheckTicks ==
  /\ \/ at = "tick" /\ at' = "poll"
     \/ at = "blockTick" /\ at' = "normal"
  /\ Surface("tick") \/ DrainLimit
  /\ UNCHANGED <<lines, intmask, edge>>

(* jit_poll_interrupt_pins_for_dispatch.                                    *)
(* Fault: the dispatcher relies on the flags the device paths set.          *)
poll_interrupt_pins_none == UNCHANGED <<spcflags, lastintr, edge>>
poll_interrupt_pins ==
  IF RamJit THEN Surface("pins") /\ Polled
  ELSE UNCHANGED <<spcflags, lastintr, edge>>

DispatchPoll ==
  /\ Jit /\ at = "poll" /\ at' = "special"
  /\ poll_interrupt_pins
  /\ UNCHANGED <<lines, intmask>>

(* m68k_do_specialties, from the dispatcher (whose caller loops whatever it *)
(* returns) or on entry to execute_normal or do_nothing (which ignore its   *)
(* result).  STOP comes first and hides the other flags.                    *)
InSpecialties ==
  /\ Jit
  /\ \/ at = "special" /\ at' = "entry"
     \/ at = "normal" /\ at' = "native"

Asked == spcflags \cap {"INT", "DOINT"} # {} /\ "STOP" \notin spcflags

SpecialtiesSkip ==
  /\ InSpecialties /\ ~Asked
  /\ UNCHANGED <<lines, intmask, spcflags, lastintr, edge>>

(* The flags are cleared, and the level is read again.                      *)
SpecialtiesTake ==
  /\ InSpecialties /\ Asked
  /\ \/ Deliverable("special") /\ do_interrupt({}) /\ Begun
     \/ ~Deliverable("special") /\ spcflags' = {} /\ UNCHANGED <<intmask, edge>>
  /\ See("special")
  /\ UNCHANGED lines

(* Stacking the exception faults: the flags are gone, SR is untouched.      *)
SpecialtiesFault ==
  /\ Jit /\ at \in {"special", "normal"} /\ Asked /\ Deliverable("special")
  /\ spcflags' = {}
  /\ at' = "faulted"
  /\ Begun
  /\ UNCHANGED <<lines, intmask, lastintr>>

-----------------------------------------------------------------------------
Init ==
  /\ intStat = {} /\ intMask = {} /\ timerIpl7 = FALSE
  /\ intmask = 7 /\ spcflags = {} /\ lastintr = [w \in Pollers |-> 0]
  /\ at = IF Jit THEN "entry" ELSE "insn"
  /\ edge = TRUE

Guest ==
  \/ Access \/ Fault
  \/ \E m \in Ipls : SetSr(m) \/ Stop(m)

Interpreter ==
  EndDrain \/ InterpreterPoll \/ InterpreterPollFaults \/ do_specialties \/ StopLoop

Translator ==
  \/ Generated \/ Charge \/ CheckTicks \/ Dispatcher
  \/ ChargeCyclesNoEvents \/ CpuCheckTicks \/ DispatchPoll
  \/ SpecialtiesSkip \/ SpecialtiesTake \/ SpecialtiesFault

Devices == \E s \in Src, on \in BOOLEAN : Device(s, on)

Next == Guest \/ Interpreter \/ Translator \/ Devices
Spec == Init /\ [][Next]_vars

(* The CPU thread runs on and retires instructions: generated code returns  *)
(* to the dispatcher when its budget is spent, having retired cycles, and   *)
(* stacking an exception does not fault for ever.  Devices owe nothing.     *)
Fairness ==
  /\ WF_vars(Interpreter) /\ WF_vars(Translator)
  /\ SF_vars(Access) /\ SF_vars(Goto("native", "left")) /\ SF_vars(Charge)
  /\ SF_vars(InterpreterPoll) /\ SF_vars(SpecialtiesTake)

FairSpec == Spec /\ Fairness

-----------------------------------------------------------------------------
(* Properties.                                                              *)

Points ==
  IF Jit THEN {"entry", "native", "normal", "blockTick", "left", "charge", "due", "tick",
               "poll", "special", "faulted"}
  ELSE {"insn", "drain", "poll", "special", "stopped", "faulted"}

(* Every variable has its type, and the engine stays in its own loop.       *)
TypeOK ==
  /\ intStat \subseteq Src /\ intMask \subseteq Src /\ timerIpl7 \in BOOLEAN
  /\ intmask \in 0 .. 7
  /\ spcflags \subseteq {"INT", "DOINT", "STOP"}
  /\ lastintr \in [Pollers -> 0 .. 7]
  /\ at \in Points
  /\ edge \in BOOLEAN

(* No guest code starts while an interrupt above the mask is pending: not   *)
(* the interpreter's next instruction, and not generated code entered from  *)
(* the dispatcher, although device handlers "do not necessarily set         *)
(* spcflags themselves" (jit_poll_interrupt_pins_for_dispatch).             *)
PromptDelivery ==
  (at = "insn" \/ (RamJit /\ at = "entry" /\ "STOP" \notin spcflags)) => intlev <= intmask

(* An interrupt above the mask is not left pending for ever, whatever       *)
(* faults, flags already set or polls in another order come between: "the   *)
(* interrupt stays pending if it can't be executed yet" (intlev).           *)
Delivered == []<>(intlev <= intmask \/ "STOP" \in spcflags)

(* A stopped CPU executes nothing until an interrupt ends the stop.         *)
StopWaits == at \in {"insn", "entry"} => "STOP" \notin spcflags

(* A stopped CPU is woken by an interrupt above its mask: the interpreter   *)
(* holds timer handlers back when STOP is set lest they "prevent exiting    *)
(* the STOP state when calling do_specialties() after" (newcpu.c).          *)
StopWakes == []<>~("STOP" \in spcflags /\ intlev > intmask)

(* Level 7 interrupts on its rise even at mask 7: once the boundary poll    *)
(* has seen it rise, guest code does not run on before it was taken.  "The  *)
(* JIT must preserve the same interrupt progression as the interpreter"     *)
(* (docs/uae2026-jit-correctness-contract.md).                              *)
NmiTaken ==
  at \in {"insn", "entry"} /\ "STOP" \notin spcflags => ~(edge /\ lastintr["pins"] = 7)

=============================================================================
