-------------------------- MODULE InterruptsProofs --------------------------
(***************************************************************************)
(* Proofs about Interrupts, for every set of lines, levels and register    *)
(* values: the types, prompt delivery in both engines, and the             *)
(* interpreter's treatment of STOP and of level 7.                         *)
(***************************************************************************)
EXTENDS Interrupts, TLAPS

(* Where a poll has just been made, an interrupt above the mask is either   *)
(* taken (interpreter) or announced by SPCFLAG_INT (dispatcher).            *)
Announced ==
  at = "special" /\ intlev > intmask => Jit /\ (RamJit => "INT" \in spcflags)

(* In the interpreter a rise of level 7 is taken by the poll that sees it.  *)
EdgeTaken == ~Jit => ~(edge /\ lastintr["pins"] = 7)

(* The interpreter starts no instruction with STOP set.                     *)
InsnRuns == at = "insn" => "STOP" \notin spcflags

(* The inductive invariant.                                                 *)
Inv == TypeOK /\ PromptDelivery /\ Announced /\ EdgeTaken /\ InsnRuns

(* get_interrupt_level answers a level, and 7 only if it is the highest.    *)
LEMMA LevelType == intlev \in 0 .. 7
BY DEF intlev

(* The level depends on the registers alone.                                *)
LEMMA LevelStable == ASSUME UNCHANGED lines PROVE intlev' = intlev
<1>1. /\ intStat' = intStat
      /\ intMask' = intMask
      /\ timerIpl7' = timerIpl7
  BY DEF lines
<1>2. \A n \in 1 .. 7 : Active(n)' = Active(n)
  BY <1>1 DEF Active
<1> QED BY <1>2 DEF intlev

(* Moving a line keeps the registers' types.                                *)
LEMMA LineTypes ==
  ASSUME TypeOK, NEW s \in Src, NEW on \in BOOLEAN, set_interrupt(s, on)
  PROVE intStat' \subseteq Src /\ intMask' \subseteq Src /\ timerIpl7' \in BOOLEAN
BY DEF TypeOK, set_interrupt

(* A poller's memory holds a level.                                         *)
LEMMA SeeType ==
  ASSUME TypeOK, NEW w \in Pollers, See(w)
  PROVE /\ lastintr' \in [Pollers -> 0 .. 7]
        /\ lastintr'[w] = intlev
        /\ \A v \in Pollers \ {w} : lastintr'[v] = lastintr[v]
BY LevelType DEF TypeOK, See

(* The initial state, with every interrupt masked, satisfies the invariant. *)
LEMMA InitInv == Init => Inv
<1> SUFFICES ASSUME Init PROVE Inv OBVIOUS
<1>1. TypeOK
  <2>1. at \in Points
    BY EngineAssumption DEF Init, Points
  <2>2. lastintr \in [Pollers -> 0 .. 7]
    BY DEF Init
  <2>3. timerIpl7 \in BOOLEAN /\ edge \in BOOLEAN
    BY DEF Init
  <2> QED BY <2>1, <2>2, <2>3 DEF Init, TypeOK
<1>2. intlev <= intmask
  BY LevelType DEF Init
<1>3. lastintr["pins"] = 0
  BY DEF Init, Pollers
<1> QED BY <1>1, <1>2, <1>3 DEF Init, Inv, PromptDelivery, Announced, EdgeTaken, InsnRuns

(* Steps of the guest: they lead away from the points where delivery is     *)
(* promised.                                                                *)
LEMMA GuestInv == ASSUME Inv, Guest PROVE Inv'
<1> USE EngineAssumption, SourceAssumption
<1>1. lastintr' = lastintr /\ edge' = edge
  BY DEF Guest, Access, SetSr, Stop, Fault
<1>2. at' \notin {"insn", "entry", "special"} /\ at' \in Points
  BY DEF Guest, Access, SetSr, Stop, Fault, Retired, Executing, Points, Inv, TypeOK
<1>3. intmask' \in 0 .. 7
  BY DEF Guest, Access, SetSr, Stop, Fault, MakeFromSR, Inv, TypeOK
<1>4. spcflags' \subseteq {"INT", "DOINT", "STOP"}
  BY DEF Guest, Access, SetSr, Stop, Fault, MakeFromSR, Inv, TypeOK
<1>5. intStat' \subseteq Src /\ intMask' \subseteq Src /\ timerIpl7' \in BOOLEAN
  <2>1. CASE Access
    BY <2>1, LineTypes DEF Access, Inv, TypeOK, lines
  <2>2. CASE Fault \/ \E m \in Ipls : SetSr(m) \/ Stop(m)
    BY <2>2 DEF Fault, SetSr, Stop, Inv, TypeOK, lines
  <2> QED BY <2>1, <2>2 DEF Guest
<1> QED BY <1>1, <1>2, <1>3, <1>4, <1>5
        DEF Inv, TypeOK, PromptDelivery, Announced, EdgeTaken, InsnRuns

(* Devices move lines only where a poll still follows.                      *)
LEMMA DeviceInv == ASSUME Inv, Devices PROVE Inv'
<1>1. PICK s \in Src, on \in BOOLEAN : Device(s, on)
  BY DEF Devices
<1>2. at' = at /\ at \notin {"insn", "entry", "special"}
  BY <1>1 DEF Device, Serviced
<1>3. intStat' \subseteq Src /\ intMask' \subseteq Src /\ timerIpl7' \in BOOLEAN
  BY <1>1, LineTypes DEF Device, Inv
<1> QED BY <1>1, <1>2, <1>3
        DEF Device, Inv, TypeOK, Points, PromptDelivery, Announced, EdgeTaken, InsnRuns

(* The interpreter's poll takes what is above the mask, and every rise of   *)
(* level 7.                                                                 *)
LEMMA InterpreterInv == ASSUME Inv, Interpreter PROVE Inv'
<1> USE DEF Points
<1>a. UNCHANGED lines /\ intlev' = intlev
  BY LevelStable DEF Interpreter, EndDrain, InterpreterPoll, InterpreterPollFaults,
       do_specialties, StopLoop, vars
<1>b. intStat' \subseteq Src /\ intMask' \subseteq Src /\ timerIpl7' \in BOOLEAN
  BY <1>a DEF Inv, TypeOK, lines
<1>1. CASE EndDrain
  BY <1>1, <1>b DEF EndDrain, Inv, TypeOK, PromptDelivery, Announced, EdgeTaken, InsnRuns
<1>2. CASE InterpreterPoll
  <2>1. ~Jit /\ at' = "special"
    BY <1>2 DEF InterpreterPoll
  <2>2. /\ lastintr' \in [Pollers -> 0 .. 7]
        /\ lastintr'["pins"] = intlev
    BY <1>2, SeeType DEF InterpreterPoll, Inv, Pollers
  <2>3. CASE Deliverable("pins") /\ do_interrupt(spcflags \cup {"INT"}) /\ edge' = (intlev < 7)
    <3>1. intmask' = intlev /\ intmask' \in 0 .. 7
      BY <2>3, LevelType DEF do_interrupt
    <3>2. spcflags' \subseteq {"INT", "DOINT", "STOP"}
      BY <2>3 DEF do_interrupt, Inv, TypeOK
    <3>3. edge' \in BOOLEAN
      BY <2>3
    <3>4. ~(edge' /\ lastintr'["pins"] = 7)
      <4>1. ASSUME lastintr'["pins"] = 7 PROVE ~(intlev < 7)
        BY <2>2, <4>1
      <4> QED BY <2>3, <4>1
    <3> QED BY <1>a, <1>b, <2>1, <2>2, <3>1, <3>2, <3>3, <3>4, LevelType
            DEF Inv, TypeOK, PromptDelivery, Announced, EdgeTaken, InsnRuns
  <2>4. CASE ~Deliverable("pins") /\ Polled /\ UNCHANGED <<intmask, spcflags>>
    <3>1. intlev <= intmask /\ (intlev = 7 => lastintr["pins"] = 7)
      BY <2>4, LevelType DEF Deliverable, Inv, TypeOK, Pollers
    <3>2. edge' \in BOOLEAN
      BY <2>4 DEF Polled
    <3>3. ~(edge /\ lastintr["pins"] = 7)
      BY <2>1 DEF Inv, EdgeTaken
    <3>4. ~(edge' /\ lastintr'["pins"] = 7)
      <4>1. ASSUME lastintr'["pins"] = 7 PROVE ~(intlev < 7) /\ lastintr["pins"] = 7
        BY <2>2, <3>1, <4>1
      <4> QED BY <2>4, <3>3, <4>1 DEF Polled
    <3> QED BY <1>a, <1>b, <2>1, <2>2, <2>4, <3>1, <3>2, <3>4, LevelType
            DEF Inv, TypeOK, PromptDelivery, Announced, EdgeTaken, InsnRuns
  <2> QED BY <1>2, <2>3, <2>4 DEF InterpreterPoll
<1>3. CASE InterpreterPollFaults
  <2>1. ~Jit /\ at' = "faulted" /\ lastintr' = lastintr /\ intmask' = intmask
    BY <1>3 DEF InterpreterPollFaults
  <2>2. spcflags' \subseteq {"INT", "DOINT", "STOP"}
    BY <1>3 DEF InterpreterPollFaults, Inv, TypeOK
  <2>3. edge' \in BOOLEAN /\ (edge' => edge)
    BY <1>3 DEF InterpreterPollFaults, Begun, Inv, TypeOK
  <2> QED BY <1>b, <2>1, <2>2, <2>3
          DEF Inv, TypeOK, PromptDelivery, Announced, EdgeTaken, InsnRuns
<1>4. CASE do_specialties
  <2>1. ~Jit /\ at' \in {"stopped", "insn"} /\ intlev <= intmask /\ intmask' = intmask
    BY <1>4, LevelType DEF do_specialties, Inv, TypeOK, Announced
  <2>2. /\ spcflags' \subseteq {"INT", "DOINT", "STOP"}
        /\ at' = "insn" => "STOP" \notin spcflags'
    BY <1>4 DEF do_specialties, Inv, TypeOK
  <2> QED BY <1>4, <1>a, <1>b, <2>1, <2>2
          DEF do_specialties, Inv, TypeOK, PromptDelivery, Announced, EdgeTaken, InsnRuns
<1>5. CASE StopLoop
  BY <1>5, <1>a, <1>b DEF StopLoop, vars, Inv, TypeOK, PromptDelivery, Announced, EdgeTaken,
       InsnRuns
<1> QED BY <1>1, <1>2, <1>3, <1>4, <1>5 DEF Interpreter

(* In the JIT the dispatcher's poll announces what m68k_do_specialties then *)
(* takes, before generated code is entered.                                 *)
LEMMA TranslatorInv == ASSUME Inv, Translator, Jit PROVE Inv'
<1> USE DEF Points
<1>a. UNCHANGED lines /\ intlev' = intlev
  BY LevelStable DEF Translator, Generated, Goto, Charge, CheckTicks, Dispatcher,
       ChargeCyclesNoEvents, CpuCheckTicks, DispatchPoll, SpecialtiesSkip, SpecialtiesTake,
       SpecialtiesFault
<1>b. intStat' \subseteq Src /\ intMask' \subseteq Src /\ timerIpl7' \in BOOLEAN
  BY <1>a DEF Inv, TypeOK, lines
<1>c. intlev \in 0 .. 7 /\ intmask \in 0 .. 7
  BY LevelType DEF Inv, TypeOK
<1>1. CASE Generated \/ Charge \/ CheckTicks \/ Dispatcher
  <2>1. /\ at' \in {"native", "normal", "blockTick", "left", "charge", "tick", "due", "poll"}
        /\ UNCHANGED <<intmask, spcflags, lastintr, edge>>
    BY <1>1 DEF Generated, Charge, CheckTicks, Dispatcher, Goto
  <2> QED BY <1>b, <2>1 DEF Inv, TypeOK, PromptDelivery, Announced, EdgeTaken, InsnRuns
<1>2. CASE ChargeCyclesNoEvents \/ CpuCheckTicks
  <2>1. PICK w \in Pollers : See(w) /\ spcflags' \subseteq spcflags \cup {"INT"}
    BY <1>2 DEF ChargeCyclesNoEvents, CpuCheckTicks, Surface, DrainLimit, Pollers
  <2>2. lastintr' \in [Pollers -> 0 .. 7]
    BY <2>1, SeeType DEF Inv
  <2>3. spcflags' \subseteq {"INT", "DOINT", "STOP"}
    BY <2>1 DEF Inv, TypeOK
  <2>4. at' \in {"due", "poll", "normal"} /\ UNCHANGED <<intmask, edge>>
    BY <1>2 DEF ChargeCyclesNoEvents, CpuCheckTicks
  <2> QED BY <1>b, <2>2, <2>3, <2>4
          DEF Inv, TypeOK, PromptDelivery, Announced, EdgeTaken, InsnRuns
<1>3. CASE DispatchPoll
  <2>1. at' = "special" /\ intmask' = intmask
    BY <1>3 DEF DispatchPoll
  <2>2. CASE RamJit
    <3>1. Surface("pins") /\ Polled
      BY <1>3, <2>2 DEF DispatchPoll, poll_interrupt_pins
    <3>2. lastintr' \in [Pollers -> 0 .. 7]
      BY <3>1, SeeType DEF Surface, Inv, Pollers
    <3>3. /\ spcflags' \subseteq {"INT", "DOINT", "STOP"}
          /\ intlev > intmask => "INT" \in spcflags'
      BY <3>1 DEF Surface, Deliverable, Inv, TypeOK
    <3>4. edge' \in BOOLEAN
      BY <3>1 DEF Polled
    <3> QED BY <1>a, <1>b, <2>1, <3>2, <3>3, <3>4
            DEF Inv, TypeOK, PromptDelivery, Announced, EdgeTaken, InsnRuns
  <2>3. CASE ~RamJit
    <3>1. UNCHANGED <<spcflags, lastintr, edge>>
      BY <1>3, <2>3 DEF DispatchPoll, poll_interrupt_pins
    <3> QED BY <1>b, <2>1, <2>3, <3>1
            DEF Inv, TypeOK, PromptDelivery, Announced, EdgeTaken, InsnRuns
  <2> QED BY <2>2, <2>3
<1>4. CASE SpecialtiesSkip
  <2>1. /\ at' = "entry" \/ at' = "native"
        /\ at = "special" \/ at' # "entry"
        /\ ~Asked /\ UNCHANGED <<intmask, spcflags, lastintr, edge>>
    BY <1>4 DEF SpecialtiesSkip, InSpecialties
  <2>2. RamJit /\ at' = "entry" /\ "STOP" \notin spcflags => intlev <= intmask
    BY <1>c, <2>1 DEF Asked, Inv, Announced
  <2> QED BY <1>a, <1>b, <2>1, <2>2
          DEF Inv, TypeOK, PromptDelivery, Announced, EdgeTaken, InsnRuns
<1>5. CASE SpecialtiesTake
  <2>1. at' \in {"entry", "native"}
    BY <1>5 DEF SpecialtiesTake, InSpecialties
  <2>2. lastintr' \in [Pollers -> 0 .. 7]
    BY <1>5, SeeType DEF SpecialtiesTake, Inv, Pollers
  <2>3. spcflags' \subseteq {"INT", "DOINT", "STOP"}
    BY <1>5 DEF SpecialtiesTake, do_interrupt
  <2>4. edge' \in BOOLEAN
    <3>1. Begun \/ edge' = edge
      BY <1>5 DEF SpecialtiesTake
    <3> QED BY <3>1 DEF Begun, Inv, TypeOK
  <2>5. intmask' \in 0 .. 7 /\ intlev <= intmask'
    BY <1>5, <1>c DEF SpecialtiesTake, do_interrupt, Deliverable
  <2> QED BY <1>a, <1>b, <2>1, <2>2, <2>3, <2>4, <2>5
          DEF Inv, TypeOK, PromptDelivery, Announced, EdgeTaken, InsnRuns
<1>6. CASE SpecialtiesFault
  <2>1. edge' \in BOOLEAN
    BY <1>6 DEF SpecialtiesFault, Begun, Inv, TypeOK
  <2> QED BY <1>6, <1>b, <2>1
          DEF SpecialtiesFault, Inv, TypeOK, PromptDelivery, Announced, EdgeTaken, InsnRuns
<1> QED BY <1>1, <1>2, <1>3, <1>4, <1>5, <1>6 DEF Translator

(* The interpreter never enters the dispatcher's states.                    *)
LEMMA TranslatorIsJit == ASSUME Inv, Translator, ~Jit PROVE FALSE
<1>1. at \in {"insn", "drain", "poll", "special", "stopped", "faulted"}
  BY DEF Inv, TypeOK, Points
<1> QED BY <1>1 DEF Translator, Generated, Goto, Charge, CheckTicks, Dispatcher,
          ChargeCyclesNoEvents, CpuCheckTicks, DispatchPoll, SpecialtiesSkip, SpecialtiesTake,
          SpecialtiesFault, InSpecialties

(* Every step keeps the invariant.                                          *)
LEMMA NextInv == Inv /\ [Next]_vars => Inv'
<1> SUFFICES ASSUME Inv, [Next]_vars PROVE Inv' OBVIOUS
<1>1. CASE Guest BY <1>1, GuestInv
<1>2. CASE Interpreter BY <1>2, InterpreterInv
<1>3. CASE Translator BY <1>3, TranslatorInv, TranslatorIsJit, EngineAssumption
<1>4. CASE Devices BY <1>4, DeviceInv
<1>5. CASE UNCHANGED vars
  <2>1. UNCHANGED lines BY <1>5 DEF vars
  <2>2. intlev' = intlev BY <2>1, LevelStable
  <2> QED BY <1>5, <2>1, <2>2 DEF vars, lines, Inv, TypeOK, Points, PromptDelivery, Announced,
            EdgeTaken, InsnRuns
<1> QED BY <1>1, <1>2, <1>3, <1>4, <1>5 DEF Next

(* Interrupt state keeps its types, and each engine its control points.     *)
THEOREM InterruptTypes == Spec => []TypeOK
<1>1. Inv => TypeOK BY DEF Inv
<1> QED BY InitInv, NextInv, <1>1, PTL DEF Spec

(* With any lines and levels, neither the interpreter's next instruction    *)
(* nor (with the dispatcher's poll) generated code starts while an          *)
(* interrupt above the mask is pending.                                     *)
THEOREM DeliveryIsPrompt == Spec => []PromptDelivery
<1>1. Inv => PromptDelivery BY DEF Inv
<1> QED BY InitInv, NextInv, <1>1, PTL DEF Spec

(* The interpreter executes nothing while stopped and takes every rise of   *)
(* level 7 that its poll sees, even at mask 7.                              *)
THEOREM InterpreterExact == ASSUME ~Jit PROVE Spec => [](StopWaits /\ NmiTaken)
<1>1. Inv => StopWaits /\ NmiTaken
  <2> SUFFICES ASSUME Inv PROVE StopWaits /\ NmiTaken OBVIOUS
  <2>1. at # "entry" BY DEF Inv, TypeOK, Points
  <2> QED BY <2>1 DEF Inv, InsnRuns, EdgeTaken, StopWaits, NmiTaken
<1> QED BY InitInv, NextInv, <1>1, PTL DEF Spec

(* The interpreter executes nothing while stopped (do_specialties, STOP).   *)
THEOREM StoppedWaits == ASSUME ~Jit PROVE Spec => []StopWaits
<1>1. StopWaits /\ NmiTaken => StopWaits OBVIOUS
<1> QED BY InterpreterExact, <1>1, PTL
=============================================================================
