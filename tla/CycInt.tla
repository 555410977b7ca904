------------------------------- MODULE CycInt -------------------------------
(***************************************************************************)
(* The cycle/microsecond interrupt queue of src/cycInt.c and the two       *)
(* engines that drive it: the interpreter loop of cpu/newcpu.c, which      *)
(* drains the queue after every instruction, and the JIT dispatcher, which *)
(* charges retired cycles first (m68000.c) and drains at block boundaries. *)
(*                                                                         *)
(* A device arms a timer with CycInt_AddRelativeInterrupt*; the queue      *)
(* keeps, per device, either the cycles left at the last table update      *)
(* (CYC_INT_CPU) or a host-clock deadline (CYC_INT_US).  The next CPU      *)
(* timer is copied to PendingInterrupt, which alone is decremented while   *)
(* instructions retire; nCyclesOver holds what the table still owes.       *)
(*                                                                         *)
(* A CYC_INT_US time is an absolute host_time_us() value in the code and   *)
(* is only ever compared with the clock; here it is kept relative to the   *)
(* clock, so "now > time" reads "time < 0".                                *)
(***************************************************************************)
EXTENDS Integers

CONSTANTS
    Ids,            \* interrupt_id values other than INTERRUPT_NULL
    VBL,            \* INTERRUPT_VIDEO_VBL: armed by reset, re-armed by its handler
    EVENT_LOOP,     \* INTERRUPT_EVENT_LOOP: re-armed by its handler
    Removable,      \* ids some driver cancels (INTERRUPT_MO, INTERRUPT_FLP_IO)
    Realtime,       \* ConfigureParams.System.bRealtime
    Jit,            \* the JIT dispatcher drives the queue
    CycleDelays,    \* delays drivers pass to ...Cycles()
    UsDelays,       \* delays drivers pass to ...Us()
    PeriodUs,       \* period of the two self-re-arming timers
    CpuFreq,        \* ConfigureParams.System.nCpuFreq, cycles per microsecond
    CycleCounts,    \* cycles one instruction or block may retire
    UsCheckPeriod,  \* 100 * nCpuFreq
    DrainLimit,     \* the 32 calls after which the JIT drain yields
    INT64_MAX,      \* LowestCycleCount start value
    MaxLate,        \* bound: how far a deadline may be overrun before a drain
    MaxOver         \* bound on nCyclesOver

INTERRUPT_NULL == 0

ASSUME IdsAssumption ==
    /\ Ids \subseteq Nat \ {INTERRUPT_NULL}
    /\ VBL \in Ids /\ EVENT_LOOP \in Ids /\ VBL # EVENT_LOOP
    /\ Removable \subseteq Ids \ {VBL, EVENT_LOOP}
ASSUME ModeAssumption == Realtime \in BOOLEAN /\ Jit \in BOOLEAN
ASSUME TimeAssumption ==
    /\ CycleDelays \subseteq Nat /\ UsDelays \subseteq Nat
    /\ PeriodUs \in Nat \ {0} /\ CpuFreq \in Nat \ {0}
    /\ CycleCounts \subseteq Nat \ {0}
    /\ UsCheckPeriod \in Nat /\ DrainLimit \in Nat /\ MaxLate \in Nat /\ MaxOver \in Nat
    /\ INT64_MAX \in Nat
    /\ \A d \in CycleDelays : d < INT64_MAX
    /\ \A d \in UsDelays \cup {PeriodUs} : d * CpuFreq < INT64_MAX

VARIABLES
    handlers,       \* InterruptHandlers[]: type and time of every id
    pending,        \* PendingInterrupt: type, time and whose pFunction
    active,         \* ActiveInterrupt
    nCyclesOver,    \* cycles retired since the table was last brought up to date
    usCheckCycles,  \* countdown to the next look at the host clock
    engine,         \* "run": retiring; "drain": in the pending loop; "handler"
    current,        \* the id whose pFunction is being called, else INTERRUPT_NULL
    calls,          \* tick_handler_calls of the JIT drain
    due             \* history: cycles left until each CPU timer's true deadline

queue == <<handlers, pending, active, nCyclesOver>>
vars == <<queue, usCheckCycles, engine, current, calls, due>>

Types == {"none", "cpu", "us"}
NoHandler == [type |-> "none", time |-> INT64_MAX, fn |-> INTERRUPT_NULL]

(* Every variable holds a value of its kind, and nCyclesOver is a count of  *)
(* cycles, never a negative debt.                                           *)
TypeOK ==
    /\ handlers \in [Ids -> [type : Types, time : Int]]
    /\ pending \in [type : Types, time : Int, fn : Ids \cup {INTERRUPT_NULL}]
    /\ active \in Ids \cup {INTERRUPT_NULL}
    /\ nCyclesOver \in Nat
    /\ usCheckCycles \in Int
    /\ engine \in {"run", "drain", "handler"}
    /\ current \in Ids \cup {INTERRUPT_NULL}
    /\ calls \in Nat
    /\ due \in [Ids -> Int]

\* us * nCpuFreq
CyclesOf(us) == us * CpuFreq

-----------------------------------------------------------------------------
(* The queue's internal helpers.                                           *)

CpuArmed(h) == {i \in Ids : h[i].type = "cpu"}

\* Fault: the scan stops at the first timer that is due.
LowestInterrupt_firstDue(h) ==
    LET due0 == {i \in CpuArmed(h) : h[i].time <= 0}
        rest == IF due0 = {} THEN CpuArmed(h) ELSE due0
    IN IF CpuArmed(h) = {} THEN {INTERRUPT_NULL}
       ELSE {i \in rest : \A j \in rest :
                 IF due0 = {} THEN h[i].time < h[j].time \/ (h[i].time = h[j].time /\ i <= j)
                 ELSE i <= j}

\* The scan of CycInt_SetNewInterrupt keeps the first of the smallest times.
LowestInterrupt(h) ==
    IF CpuArmed(h) = {} THEN {INTERRUPT_NULL}
    ELSE {i \in CpuArmed(h) : \A j \in CpuArmed(h) :
              h[i].time < h[j].time \/ (h[i].time = h[j].time /\ i <= j)}

SetNewInterrupt(h) ==
    \E low \in LowestInterrupt(h) :
        /\ handlers' = h
        /\ active' = low
        /\ pending' = IF low = INTERRUPT_NULL THEN NoHandler
                      ELSE [type |-> h[low].type, time |-> h[low].time, fn |-> low]

\* The table with the cycles in nCyclesOver taken off every CPU timer.
UpdateInterrupt ==
    [i \in Ids |-> IF handlers[i].type = "cpu"
                   THEN [type |-> "cpu", time |-> handlers[i].time - nCyclesOver]
                   ELSE handlers[i]]

\* Clearing an entry's type; its time stays as it was.
Disarm(h, id) == [h EXCEPT ![id] = [type |-> "none", time |-> h[id].time]]

-----------------------------------------------------------------------------
(* The interface drivers call.                                             *)

\* The update is skipped when no CPU timer is active.
\* Fault: the table is never brought up to date when a timer is added.
UpdateIfActive_skipped == handlers
UpdateIfActive == IF active > 0 THEN UpdateInterrupt ELSE handlers
\* Fault: the owed cycles are kept although the table was updated.
OverIfActive_kept == nCyclesOver
OverIfActive == IF active > 0 THEN 0 ELSE nCyclesOver

AddRelativeInterruptCycles(d, id) ==
    /\ nCyclesOver' = OverIfActive
    /\ SetNewInterrupt([UpdateIfActive EXCEPT ![id] = [type |-> "cpu", time |-> d]])
    /\ due' = [due EXCEPT ![id] = d]

AddRelativeInterruptUs(us, id) ==
    IF Realtime
    THEN /\ nCyclesOver' = OverIfActive
         /\ SetNewInterrupt([UpdateIfActive EXCEPT ![id] = [type |-> "us", time |-> us]])
         /\ UNCHANGED due
    ELSE AddRelativeInterruptCycles(CyclesOf(us), id)

\* Fault: the pending copy is not chosen again after a removal.
RemovePendingInterrupt_noRefresh(id) ==
    /\ nCyclesOver' = 0
    /\ handlers' = Disarm(UpdateInterrupt, id)
    /\ UNCHANGED <<pending, active, due>>

RemovePendingInterrupt(id) ==
    /\ nCyclesOver' = 0
    /\ SetNewInterrupt(Disarm(UpdateInterrupt, id))
    /\ UNCHANGED due

AcknowledgeInterrupt ==
    /\ nCyclesOver' = 0
    /\ SetNewInterrupt(IF active = INTERRUPT_NULL THEN UpdateInterrupt
                       ELSE Disarm(UpdateInterrupt, active))

-----------------------------------------------------------------------------
(* Retiring cycles: M68000_AddCycles.                                      *)

ExpiredUs == {i \in Ids : handlers[i].type = "us" /\ handlers[i].time < 0}

\* Fault: the expired timer is published but not made the active one.
SetNewInterruptUs_inactive ==
    \E i \in ExpiredUs :
        /\ \A j \in ExpiredUs : i <= j
        /\ pending' = [type |-> "us", time |-> -1, fn |-> i]
        /\ UNCHANGED active

\* CycInt_SetNewInterruptUs takes the first expired host-clock timer.
SetNewInterruptUs ==
    \E i \in ExpiredUs :
        /\ \A j \in ExpiredUs : i <= j
        /\ pending' = [type |-> "us", time |-> -1, fn |-> i]
        /\ active' = i

\* Fault: the owed cycles are counted down.
OverAfter_down(c) == nCyclesOver - c
OverAfter(c) == nCyclesOver + c

AddCycles(c) ==
    /\ nCyclesOver' = OverAfter(c)
    /\ due' = [i \in Ids |-> IF handlers[i].type = "cpu" THEN due[i] - c ELSE due[i]]
    /\ LET counted == IF pending.type = "cpu" THEN [type |-> "cpu", time |-> pending.time - c, fn |-> pending.fn]
                      ELSE pending
       IN \/ /\ usCheckCycles < 0 /\ Realtime /\ ExpiredUs # {}
             /\ SetNewInterruptUs
             /\ UNCHANGED usCheckCycles
          \/ /\ usCheckCycles < 0 /\ (~Realtime \/ ExpiredUs = {})
             /\ usCheckCycles' = UsCheckPeriod
             /\ pending' = counted /\ UNCHANGED active
          \/ /\ usCheckCycles >= 0
             /\ usCheckCycles' = usCheckCycles - c
             /\ pending' = counted /\ UNCHANGED active
    /\ UNCHANGED handlers

PendingDue == pending.time <= 0 /\ pending.fn # INTERRUPT_NULL

\* Bounds: nCyclesOver does not grow without end, and charges that no drain
\* follows overrun a deadline only so far.
MayRetire == nCyclesOver < MaxOver
MayCharge == MayRetire /\ pending.time >= -MaxLate
-----------------------------------------------------------------------------
(* The engines.                                                            *)

\* Interpreter: one instruction, then the pending loop.
Instruction(c) ==
    /\ ~Jit /\ engine = "run" /\ MayRetire
    /\ AddCycles(c)
    /\ engine' = "drain" /\ calls' = 0
    /\ UNCHANGED current

\* Cycles charged with no drain: a DSP port access inside an instruction, or a
\* native block's Uae2026JitCpuChargeCyclesNoEvents.
ChargeCyclesNoEvents(c) ==
    /\ engine = "run" /\ MayCharge
    /\ AddCycles(c)
    /\ UNCHANGED <<engine, current, calls>>

\* The dispatcher drains at a block boundary only for a CPU deadline; charging
\* no cycles, M68000_AddCycles may still look at the host clock.
JitPendingDeadlineDue ==
    /\ Jit /\ engine = "run"
    /\ pending.type = "cpu" /\ pending.time <= 0
    /\ AddCycles(0)
    /\ engine' = "drain" /\ calls' = 0
    /\ UNCHANGED current

\* jit_one_tick: the wall-clock tick charges what was retired, if anything,
\* and drains.
JitOneTick(c) ==
    /\ Jit /\ engine = "run" /\ MayRetire
    /\ AddCycles(c)
    /\ engine' = "drain" /\ calls' = 0
    /\ UNCHANGED current

\* The JIT drain handles the event loop timer itself and does not count it:
\* acknowledged here, re-armed by HandlerReturn with no driver in between.
JitEventLoop ==
    /\ Jit /\ engine = "drain" /\ PendingDue /\ pending.fn = EVENT_LOOP
    /\ AcknowledgeInterrupt
    /\ engine' = "handler" /\ current' = EVENT_LOOP
    /\ UNCHANGED <<usCheckCycles, calls, due>>

\* CALL_VAR(PendingInterrupt.pFunction): every handler acknowledges first.
CallHandler ==
    /\ engine = "drain" /\ PendingDue
    /\ Jit => pending.fn # EVENT_LOOP /\ calls < DrainLimit
    /\ AcknowledgeInterrupt
    /\ engine' = "handler" /\ current' = pending.fn
    /\ calls' = IF Jit THEN calls + 1 ELSE calls
    /\ UNCHANGED <<usCheckCycles, due>>

\* Fault: the event loop timer is one-shot.
HandlerReturn_oneShot ==
    /\ engine = "handler"
    /\ engine' = "drain" /\ current' = INTERRUPT_NULL
    /\ IF current = VBL
       THEN AddRelativeInterruptUs(PeriodUs, current)
       ELSE UNCHANGED <<queue, due>>
    /\ UNCHANGED <<usCheckCycles, calls>>

\* The two periodic handlers end by arming themselves again.
HandlerReturn ==
    /\ engine = "handler"
    /\ engine' = "drain" /\ current' = INTERRUPT_NULL
    /\ IF current \in {VBL, EVENT_LOOP}
       THEN AddRelativeInterruptUs(PeriodUs, current)
       ELSE UNCHANGED <<queue, due>>
    /\ UNCHANGED <<usCheckCycles, calls>>

EndDrain ==
    /\ engine = "drain"
    /\ ~PendingDue \/ (Jit /\ pending.fn # EVENT_LOOP /\ calls >= DrainLimit)
    /\ engine' = "run"
    /\ UNCHANGED <<queue, usCheckCycles, current, calls, due>>

\* A driver arms or cancels its timer from a register access or a handler.
InDriver == engine = "run" \/ (engine = "handler" /\ ~(Jit /\ current = EVENT_LOOP))

Drivers == Ids \ {VBL, EVENT_LOOP}

ArmCycles(d, id) ==
    /\ InDriver
    /\ AddRelativeInterruptCycles(d, id)
    /\ UNCHANGED <<usCheckCycles, engine, current, calls>>

ArmUs(us, id) ==
    /\ InDriver
    /\ AddRelativeInterruptUs(us, id)
    /\ UNCHANGED <<usCheckCycles, engine, current, calls>>

Cancel(id) ==
    /\ InDriver
    /\ RemovePendingInterrupt(id)
    /\ UNCHANGED <<usCheckCycles, engine, current, calls>>

\* Host time passes; expired timers stay expired.
HostClock ==
    /\ Realtime
    /\ \E i \in Ids : handlers[i].type = "us" /\ handlers[i].time >= 0
    /\ handlers' = [i \in Ids |->
           IF handlers[i].type = "us" /\ handlers[i].time >= 0
           THEN [type |-> "us", time |-> handlers[i].time - 1] ELSE handlers[i]]
    /\ UNCHANGED <<pending, active, nCyclesOver, usCheckCycles, engine, current, calls, due>>

\* CycInt_Reset followed by Video_Reset, which arms the VBL with no timer active.
ResetTable ==
    [[i \in Ids |-> [type |-> "none", time |-> INT64_MAX]]
        EXCEPT ![VBL] = IF Realtime THEN [type |-> "us", time |-> PeriodUs]
                        ELSE [type |-> "cpu", time |-> CyclesOf(PeriodUs)]]

\* A reset runs from the host event handler, whose return re-arms EVENT_LOOP.
Reset ==
    /\ ~Jit /\ engine = "handler" /\ current = EVENT_LOOP
    /\ SetNewInterrupt(ResetTable)
    /\ due' = [due EXCEPT ![VBL] = CyclesOf(PeriodUs)]
    /\ nCyclesOver' = 0 /\ usCheckCycles' = 0
    /\ UNCHANGED <<engine, current, calls>>

\* Main start-up: a cold reset, then the first event loop timer.
Init ==
    /\ handlers = [ResetTable EXCEPT ![EVENT_LOOP] = ResetTable[VBL]]
    /\ active = IF Realtime THEN INTERRUPT_NULL ELSE
                IF VBL <= EVENT_LOOP THEN VBL ELSE EVENT_LOOP
    /\ pending = IF Realtime THEN NoHandler
                 ELSE [type |-> "cpu", time |-> CyclesOf(PeriodUs), fn |-> active]
    /\ nCyclesOver = 0 /\ usCheckCycles = 0
    /\ engine = "run" /\ current = INTERRUPT_NULL /\ calls = 0
    /\ due = [i \in Ids |-> CyclesOf(PeriodUs)]

Next ==
    \/ \E c \in CycleCounts : Instruction(c) \/ ChargeCyclesNoEvents(c)
    \/ \E c \in CycleCounts \cup {0} : JitOneTick(c)
    \/ JitPendingDeadlineDue \/ JitEventLoop \/ CallHandler \/ HandlerReturn \/ EndDrain
    \/ \E id \in Drivers : \/ \E d \in CycleDelays : ArmCycles(d, id)
                           \/ \E us \in UsDelays : ArmUs(us, id)
    \/ \E id \in Removable : Cancel(id)
    \/ HostClock \/ Reset

Spec == Init /\ [][Next]_vars

Retire == \E c \in CycleCounts : Instruction(c) \/ ChargeCyclesNoEvents(c) \/ JitOneTick(c)
Poll == (\E c \in CycleCounts : Instruction(c)) \/ (\E c \in CycleCounts \cup {0} : JitOneTick(c))

\* The CPU thread keeps executing: it retires guest cycles again and again
\* (for the JIT, what BlockCache calls Progress), polls at the wall-clock tick,
\* and runs its C code on.  Nothing is assumed of the drivers or the clock.
Fairness ==
    /\ SF_vars(Retire)
    /\ WF_vars(Poll)
    /\ WF_vars(JitPendingDeadlineDue)
    /\ WF_vars(JitEventLoop \/ CallHandler)
    /\ WF_vars(HandlerReturn)
    /\ WF_vars(EndDrain)

FairSpec == Spec /\ Fairness

-----------------------------------------------------------------------------
(* Properties.                                                             *)

\* A handler is never called before the deadline its driver asked for: "Add
\* interrupt to occur from now" (CycInt_AddRelativeInterruptCycles).
NeverEarly ==
    PendingDue /\ pending.type = "cpu" => due[pending.fn] <= 0

\* The single decremented copy in PendingInterrupt never hides a CPU timer
\* whose deadline has passed: if any is overdue, the drain loops will run.
NoneOverlooked ==
    (\E i \in Ids : handlers[i].type = "cpu" /\ due[i] <= 0) => PendingDue

\* CycInt_AcknowledgeInterrupt clears ActiveInterrupt, not the function being
\* called: the two must name the same armed timer whenever a handler is due.
AcknowledgesItself ==
    PendingDue => active = pending.fn /\ handlers[active].type = pending.type

Delays == CycleDelays \cup {CyclesOf(us) : us \in UsDelays \cup {PeriodUs}}

T == INSTANCE Timers WITH
        Timer <- Ids, Periodic <- {VBL, EVENT_LOOP}, Delay <- Delays,
        Count <- CycleCounts \cup {0}, Yields <- Jit, Limit <- DrainLimit,
        armed <- CpuArmed(handlers), left <- due, phase <- engine,
        serving <- current, served <- calls

\* In cycle mode the queue, with the one copy that is decremented and a table
\* that lags behind it, cannot be told from timers that each count down on
\* their own: CycInt_* and the engines implement Timers.
QueueIsTimers == T!TimersSpec

Rearmed(id) ==
    InDriver /\ ((\E d \in CycleDelays : ArmCycles(d, id)) \/ (\E us \in UsDelays : ArmUs(us, id)))

\* A driver's timer cannot stay armed for ever without its handler being called,
\* unless the driver itself keeps pushing the deadline away; the display and
\* event timers keep firing unless the machine is reset again and again.
Served ==
    /\ \A id \in Drivers :
          []<>(current = id \/ handlers[id].type = "none") \/ []<><<Rearmed(id)>>_vars
    /\ \A id \in {VBL, EVENT_LOOP} : []<>(current = id) \/ []<><<Reset>>_vars
=============================================================================
