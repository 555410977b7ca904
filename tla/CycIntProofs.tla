---------------------------- MODULE CycIntProofs ----------------------------
(***************************************************************************)
(* Proofs about CycInt.  TypeOK holds in both clock modes, and in both no  *)
(* overdue timer is overlooked.  In cycle mode (bRealtime off) the queue   *)
(* is exact: the pending copy counts down to the true deadline of the      *)
(* earliest armed timer, so no handler is called early and the queue       *)
(* implements Timers.                                                      *)
(***************************************************************************)
EXTENDS CycInt, TLAPS

Slots == [type : Types, time : Int]

\* us * nCpuFreq is a natural number.
LEMMA CyclesOfNat == \A us \in Nat : CyclesOf(us) \in Nat
BY TimeAssumption DEF CyclesOf

\* CycInt_Reset and Video_Reset leave a well-typed table.
LEMMA ResetTableType == ResetTable \in [Ids -> Slots]
BY CyclesOfNat, TimeAssumption, IdsAssumption DEF ResetTable, Slots, Types

\* CycInt_UpdateInterrupt keeps the table's type.
LEMMA UpdateType == TypeOK => UpdateInterrupt \in [Ids -> Slots]
BY DEF TypeOK, UpdateInterrupt, Slots

\* Choosing the next pending timer keeps the queue well typed.
LEMMA SetNewType ==
    ASSUME NEW h \in [Ids -> Slots], SetNewInterrupt(h)
    PROVE  /\ handlers' \in [Ids -> Slots]
           /\ pending' \in [type : Types, time : Int, fn : Ids \cup {INTERRUPT_NULL}]
           /\ active' \in Ids \cup {INTERRUPT_NULL}
<1>1. PICK low \in LowestInterrupt(h) :
          /\ handlers' = h /\ active' = low
          /\ pending' = IF low = INTERRUPT_NULL THEN NoHandler
                        ELSE [type |-> h[low].type, time |-> h[low].time, fn |-> low]
  BY DEF SetNewInterrupt
<1>2. low \in Ids \cup {INTERRUPT_NULL}
  BY DEF LowestInterrupt, CpuArmed
<1>3. NoHandler \in [type : Types, time : Int, fn : Ids \cup {INTERRUPT_NULL}]
  BY TimeAssumption DEF NoHandler, Types
<1>4. low # INTERRUPT_NULL => h[low] \in Slots
  BY <1>2
<1> QED
  BY <1>1, <1>2, <1>3, <1>4 DEF Slots

\* The part of the state every driver call writes.
QueueType ==
    /\ handlers \in [Ids -> Slots]
    /\ pending \in [type : Types, time : Int, fn : Ids \cup {INTERRUPT_NULL}]
    /\ active \in Ids \cup {INTERRUPT_NULL}
    /\ nCyclesOver \in Nat
    /\ due \in [Ids -> Int]

\* CycInt_AddRelativeInterruptCycles keeps the queue well typed.
LEMMA AddCyclesArgType ==
    ASSUME TypeOK, NEW id \in Ids, NEW d \in Nat, AddRelativeInterruptCycles(d, id)
    PROVE  QueueType'
<1>1. UpdateIfActive \in [Ids -> Slots]
  BY UpdateType DEF UpdateIfActive, TypeOK, Slots
<1>2. [UpdateIfActive EXCEPT ![id] = [type |-> "cpu", time |-> d]] \in [Ids -> Slots]
  BY <1>1 DEF Slots, Types
<1>3. nCyclesOver' \in Nat /\ due' \in [Ids -> Int]
  BY DEF AddRelativeInterruptCycles, OverIfActive, TypeOK
<1> QED
  BY <1>2, <1>3, SetNewType DEF AddRelativeInterruptCycles, QueueType

\* CycInt_AddRelativeInterruptUs keeps the queue well typed.
LEMMA AddUsArgType ==
    ASSUME TypeOK, NEW id \in Ids, NEW us \in Nat, AddRelativeInterruptUs(us, id)
    PROVE  QueueType'
<1>1. CASE ~Realtime
  BY <1>1, AddCyclesArgType, CyclesOfNat DEF AddRelativeInterruptUs
<1>2. CASE Realtime
  <2>1. UpdateIfActive \in [Ids -> Slots]
    BY UpdateType DEF UpdateIfActive, TypeOK, Slots
  <2>2. [UpdateIfActive EXCEPT ![id] = [type |-> "us", time |-> us]] \in [Ids -> Slots]
    BY <2>1 DEF Slots, Types
  <2>3. nCyclesOver' \in Nat /\ due' \in [Ids -> Int]
    BY <1>2 DEF AddRelativeInterruptUs, OverIfActive, TypeOK
  <2> QED
    BY <1>2, <2>2, <2>3, SetNewType DEF AddRelativeInterruptUs, QueueType
<1> QED
  BY <1>1, <1>2

\* CycInt_AcknowledgeInterrupt keeps the queue well typed.
LEMMA AcknowledgeType ==
    ASSUME TypeOK, AcknowledgeInterrupt, UNCHANGED due
    PROVE  QueueType'
<1> DEFINE h == IF active = INTERRUPT_NULL THEN UpdateInterrupt
                ELSE Disarm(UpdateInterrupt, active)
<1>1. h \in [Ids -> Slots]
  BY UpdateType DEF Disarm, TypeOK, Slots, Types
<1>2. SetNewInterrupt(h) /\ nCyclesOver' = 0 /\ due' \in [Ids -> Int]
  BY DEF AcknowledgeInterrupt, TypeOK
<1> HIDE DEF h
<1> QED
  BY <1>1, <1>2, SetNewType DEF QueueType

\* M68000_AddCycles keeps the queue well typed.
LEMMA AddCyclesType ==
    ASSUME TypeOK, NEW c \in Nat, AddCycles(c)
    PROVE  QueueType' /\ usCheckCycles' \in Int
<1>1. nCyclesOver' \in Nat /\ due' \in [Ids -> Int] /\ handlers' \in [Ids -> Slots]
  BY DEF AddCycles, OverAfter, TypeOK, Slots
<1>2. /\ pending' \in [type : Types, time : Int, fn : Ids \cup {INTERRUPT_NULL}]
      /\ active' \in Ids \cup {INTERRUPT_NULL} /\ usCheckCycles' \in Int
  BY TimeAssumption DEF AddCycles, TypeOK, SetNewInterruptUs, ExpiredUs, Types
<1> QED
  BY <1>1, <1>2 DEF QueueType

\* The steps of either engine that retire cycles, a charge of none included.
Charging ==
    \/ \E c \in CycleCounts : Instruction(c) \/ ChargeCyclesNoEvents(c)
    \/ \E c \in CycleCounts \cup {0} : JitOneTick(c)
    \/ JitPendingDeadlineDue

\* Every such step is M68000_AddCycles while the engine runs.
LEMMA ChargingSteps ==
    ASSUME Charging
    PROVE  \E c \in Nat : /\ engine = "run" /\ AddCycles(c)
                          /\ engine' \in {engine, "drain"} /\ calls' \in {calls, 0}
                          /\ UNCHANGED current
<1> CycleCounts \cup {0} \subseteq Nat
  BY TimeAssumption
<1>1. CASE \E c \in CycleCounts : Instruction(c) \/ ChargeCyclesNoEvents(c)
  BY <1>1 DEF Instruction, ChargeCyclesNoEvents
<1>2. CASE \E c \in CycleCounts \cup {0} : JitOneTick(c)
  BY <1>2 DEF JitOneTick
<1>3. CASE JitPendingDeadlineDue
  BY <1>3 DEF JitPendingDeadlineDue
<1> QED
  BY <1>1, <1>2, <1>3 DEF Charging

-----------------------------------------------------------------------------
(* Every variable of the queue, the engines and the history keeps its type, *)
(* whichever engine and clock mode is configured (cycInt.c, m68000.h).      *)
THEOREM TypeCorrect == Spec => []TypeOK
<1>1. Init => TypeOK
  <2> SUFFICES ASSUME Init PROVE TypeOK
    OBVIOUS
  <2>1. handlers \in [Ids -> Slots]
    BY ResetTableType, IdsAssumption DEF Init
  <2>2. CyclesOf(PeriodUs) \in Nat
    BY CyclesOfNat, TimeAssumption
  <2>3. /\ active \in Ids \cup {INTERRUPT_NULL}
        /\ pending \in [type : Types, time : Int, fn : Ids \cup {INTERRUPT_NULL}]
    BY <2>2, IdsAssumption, TimeAssumption DEF Init, NoHandler, Types
  <2> QED
    BY <2>1, <2>2, <2>3 DEF Init, TypeOK, Slots
<1>2. TypeOK /\ [Next]_vars => TypeOK'
  <2> SUFFICES ASSUME TypeOK, [Next]_vars PROVE TypeOK'
    OBVIOUS
  <2>1. CASE Charging
    <3>1. PICK c \in Nat : /\ engine = "run" /\ AddCycles(c)
                           /\ engine' \in {engine, "drain"} /\ calls' \in {calls, 0}
                           /\ UNCHANGED current
      BY <2>1, ChargingSteps
    <3>2. QueueType' /\ usCheckCycles' \in Int
      BY <3>1, AddCyclesType
    <3> QED
      BY <3>1, <3>2 DEF TypeOK, QueueType, Slots
  <2>3. CASE JitEventLoop
    <3>1. QueueType'
      BY <2>3, AcknowledgeType DEF JitEventLoop
    <3> QED
      BY <2>3, <3>1, IdsAssumption DEF TypeOK, QueueType, Slots, JitEventLoop
  <2>4. CASE CallHandler
    <3>1. QueueType'
      BY <2>4, AcknowledgeType DEF CallHandler
    <3> QED
      BY <2>4, <3>1 DEF TypeOK, QueueType, Slots, CallHandler
  <2>5. CASE HandlerReturn
    <3>1. CASE current \in {VBL, EVENT_LOOP}
      <4>1. QueueType'
        BY <2>5, <3>1, AddUsArgType, IdsAssumption, TimeAssumption DEF HandlerReturn
      <4> QED
        BY <2>5, <4>1 DEF TypeOK, QueueType, Slots, HandlerReturn
    <3>2. CASE current \notin {VBL, EVENT_LOOP}
      BY <2>5, <3>2 DEF TypeOK, HandlerReturn, queue
    <3> QED
      BY <3>1, <3>2
  <2>6. CASE EndDrain
    BY <2>6 DEF TypeOK, EndDrain, queue
  <2>7. CASE \E id \in Drivers : \/ \E d \in CycleDelays : ArmCycles(d, id)
                                 \/ \E us \in UsDelays : ArmUs(us, id)
    <3>1. QueueType'
      BY <2>7, AddCyclesArgType, AddUsArgType, TimeAssumption DEF Drivers, ArmCycles, ArmUs
    <3> QED
      BY <2>7, <3>1 DEF TypeOK, QueueType, Slots, ArmCycles, ArmUs
  <2>8. CASE \E id \in Removable : Cancel(id)
    <3>1. PICK id \in Removable : Cancel(id)
      BY <2>8
    <3>2. Disarm(UpdateInterrupt, id) \in [Ids -> Slots]
      BY UpdateType DEF Disarm, Slots, Types
    <3>3. QueueType'
      BY <3>1, <3>2, SetNewType DEF Cancel, RemovePendingInterrupt, QueueType, TypeOK
    <3> QED
      BY <3>1, <3>3 DEF TypeOK, QueueType, Slots, Cancel
  <2>9. CASE HostClock
    BY <2>9 DEF TypeOK, HostClock
  <2>10. CASE Reset
    <3>1. due' \in [Ids -> Int] /\ nCyclesOver' \in Nat
      <4>1. PICK p \in Nat : p = CyclesOf(PeriodUs)
        BY CyclesOfNat, TimeAssumption
      <4>2. due' = [due EXCEPT ![VBL] = p] /\ nCyclesOver' = 0
        BY <2>10, <4>1 DEF Reset
      <4> QED
        BY <4>2, IdsAssumption DEF TypeOK
    <3>2. QueueType'
      BY <2>10, <3>1, ResetTableType, SetNewType DEF Reset, QueueType
    <3> QED
      BY <2>10, <3>2 DEF TypeOK, QueueType, Slots, Reset
  <2>11. CASE UNCHANGED vars
    BY <2>11 DEF vars, queue, TypeOK
  <2> QED
    BY <2>1, <2>3, <2>4, <2>5, <2>6, <2>7, <2>8, <2>9, <2>10, <2>11 DEF Next, Charging
<1> QED
  BY <1>1, <1>2, PTL DEF Spec
-----------------------------------------------------------------------------
(* The inductive invariant of cycle mode.  QueueExact ties the three places *)
(* a deadline is kept (the table, nCyclesOver and the pending copy) to the  *)
(* true one; PeriodicArmed is what keeps a CPU timer active whenever cycles *)
(* retire, without which CycInt_AddRelativeInterruptCycles would skip the   *)
(* table update and leave nCyclesOver stale.                                *)

QueueExact ==
    /\ \A i \in Ids : handlers[i].type \in {"none", "cpu"}
    /\ \A i \in Ids : handlers[i].type = "cpu" => handlers[i].time - nCyclesOver = due[i]
    /\ active = INTERRUPT_NULL =>
          /\ nCyclesOver = 0 /\ pending = NoHandler
          /\ \A i \in Ids : handlers[i].type # "cpu"
    /\ active # INTERRUPT_NULL =>
          /\ handlers[active].type = "cpu"
          /\ pending = [type |-> "cpu", time |-> due[active], fn |-> active]
          /\ \A i \in Ids : handlers[i].type = "cpu" => due[active] <= due[i]

PeriodicArmed ==
    \A p \in {VBL, EVENT_LOOP} :
        handlers[p].type = "cpu" \/ (engine = "handler" /\ current = p)

CycleInv == TypeOK /\ QueueExact /\ PeriodicArmed

\* Choosing the next pending timer from an up-to-date table makes the queue exact.
LEMMA SetNewExact ==
    ASSUME NEW h \in [Ids -> Slots], SetNewInterrupt(h),
           nCyclesOver' = 0, due' \in [Ids -> Int],
           \A i \in Ids : h[i].type \in {"none", "cpu"},
           \A i \in Ids : h[i].type = "cpu" => h[i].time = due'[i]
    PROVE  QueueExact'
<1>1. PICK low \in LowestInterrupt(h) :
          /\ handlers' = h /\ active' = low
          /\ pending' = IF low = INTERRUPT_NULL THEN NoHandler
                        ELSE [type |-> h[low].type, time |-> h[low].time, fn |-> low]
  BY DEF SetNewInterrupt
<1>2. \A i \in Ids : h[i].time \in Int /\ i # INTERRUPT_NULL /\ i \in Nat
  BY IdsAssumption DEF Slots
<1>3. CASE CpuArmed(h) = {}
  <2>1. low = INTERRUPT_NULL
    BY <1>1, <1>3 DEF LowestInterrupt
  <2>2. \A i \in Ids : h[i].type # "cpu"
    BY <1>3 DEF CpuArmed
  <2> QED
    BY <1>1, <2>1, <2>2 DEF QueueExact, NoHandler
<1>4. CASE CpuArmed(h) # {}
  <2>1. low \in Ids /\ h[low].type = "cpu" /\ low # INTERRUPT_NULL
    BY <1>1, <1>2, <1>4 DEF LowestInterrupt, CpuArmed
  <2>2. \A i \in Ids : h[i].type = "cpu" => h[low].time <= h[i].time
    BY <1>1, <1>2, <1>4, <2>1 DEF LowestInterrupt, CpuArmed
  <2>3. pending' = [type |-> "cpu", time |-> due'[low], fn |-> low]
    BY <1>1, <2>1
  <2>4. \A i \in Ids : h[i].type = "cpu" => due'[low] <= due'[i]
    BY <2>1, <2>2
  <2>5. \A i \in Ids : h[i].type = "cpu" => h[i].time - 0 = due'[i]
    BY <1>2
  <2> QED
    BY <1>1, <2>1, <2>3, <2>4, <2>5 DEF QueueExact
<1> QED
  BY <1>3, <1>4

\* The updated table holds the true deadlines, whether or not a timer is active.
LEMMA UpdateExact ==
    ASSUME TypeOK, QueueExact
    PROVE  /\ \A i \in Ids : UpdateInterrupt[i].type = handlers[i].type
           /\ \A i \in Ids : handlers[i].type = "cpu" => UpdateInterrupt[i].time = due[i]
BY DEF UpdateInterrupt, QueueExact, TypeOK

\* The conditional update loses nothing in cycle mode.
LEMMA UpdateIfActiveExact ==
    ASSUME TypeOK, QueueExact
    PROVE  /\ UpdateIfActive \in [Ids -> Slots]
           /\ OverIfActive = 0
           /\ \A i \in Ids : UpdateIfActive[i].type = handlers[i].type
           /\ \A i \in Ids : handlers[i].type = "cpu" => UpdateIfActive[i].time = due[i]
<1>1. CASE active = INTERRUPT_NULL
  BY <1>1 DEF UpdateIfActive, OverIfActive, QueueExact, TypeOK, Slots, INTERRUPT_NULL
<1>2. CASE active # INTERRUPT_NULL
  <2>1. active > 0
    BY <1>2, IdsAssumption DEF TypeOK, INTERRUPT_NULL
  <2> QED
    BY <2>1, UpdateExact, UpdateType DEF UpdateIfActive, OverIfActive
<1> QED
  BY <1>1, <1>2

\* Adding a timer keeps the queue exact.
LEMMA ArmExact ==
    ASSUME TypeOK, QueueExact, NEW id \in Ids, NEW d \in Nat,
           AddRelativeInterruptCycles(d, id)
    PROVE  /\ QueueExact'
           /\ handlers'[id].type = "cpu"
           /\ \A i \in Ids : handlers[i].type = "cpu" => handlers'[i].type = "cpu"
<1> DEFINE h == [UpdateIfActive EXCEPT ![id] = [type |-> "cpu", time |-> d]]
<1>1. /\ h \in [Ids -> Slots]
      /\ h[id] = [type |-> "cpu", time |-> d]
      /\ \A i \in Ids \ {id} : h[i] = UpdateIfActive[i]
  BY UpdateIfActiveExact DEF Slots, Types
<1>2. /\ SetNewInterrupt(h) /\ nCyclesOver' = 0
      /\ due' \in [Ids -> Int] /\ due'[id] = d
      /\ \A i \in Ids \ {id} : due'[i] = due[i]
  BY UpdateIfActiveExact DEF AddRelativeInterruptCycles, TypeOK
<1>3. handlers' = h
  BY <1>2 DEF SetNewInterrupt
<1> HIDE DEF h
<1>4. \A i \in Ids : h[i].type \in {"none", "cpu"}
  <2>1. h[id].type = "cpu"
    BY <1>1
  <2>2. \A i \in Ids \ {id} : h[i].type = handlers[i].type
    BY <1>1, UpdateIfActiveExact
  <2>3. \A i \in Ids : handlers[i].type \in {"none", "cpu"}
    BY DEF QueueExact
  <2> QED
    BY <2>1, <2>2, <2>3
<1>5. \A i \in Ids : h[i].type = "cpu" => h[i].time = due'[i]
  BY <1>1, <1>2, UpdateIfActiveExact
<1> QED
  BY <1>1, <1>2, <1>3, <1>4, <1>5, SetNewExact, UpdateIfActiveExact

\* Acknowledging the active timer keeps the queue exact.
LEMMA AcknowledgeExact ==
    ASSUME TypeOK, QueueExact, AcknowledgeInterrupt, UNCHANGED due
    PROVE  /\ QueueExact'
           /\ \A i \in Ids \ {active} : handlers'[i].type = handlers[i].type
<1> DEFINE h == IF active = INTERRUPT_NULL THEN UpdateInterrupt
                ELSE Disarm(UpdateInterrupt, active)
<1>1. h \in [Ids -> Slots]
  BY UpdateType DEF Disarm, TypeOK, Slots, Types
<1>2. \A i \in Ids \ {active} : h[i] = UpdateInterrupt[i]
  BY UpdateType DEF Disarm
<1>3. active \in Ids => h[active].type = "none"
  BY UpdateType, IdsAssumption DEF Disarm, Slots, INTERRUPT_NULL
<1>4. SetNewInterrupt(h) /\ nCyclesOver' = 0 /\ due' = due /\ due' \in [Ids -> Int]
  BY DEF AcknowledgeInterrupt, TypeOK
<1>5. handlers' = h
  BY <1>4 DEF SetNewInterrupt
<1> HIDE DEF h
<1>6. \A i \in Ids : h[i].type \in {"none", "cpu"}
  BY <1>2, <1>3, UpdateExact DEF QueueExact
<1>7. \A i \in Ids : h[i].type = "cpu" => h[i].time = due'[i]
  BY <1>2, <1>3, <1>4, UpdateExact
<1> QED
  BY <1>1, <1>2, <1>4, <1>5, <1>6, <1>7, SetNewExact, UpdateExact

\* Cancelling a timer keeps the queue exact.
LEMMA RemoveExact ==
    ASSUME TypeOK, QueueExact, NEW id \in Ids, RemovePendingInterrupt(id)
    PROVE  /\ QueueExact'
           /\ \A i \in Ids \ {id} : handlers'[i].type = handlers[i].type
<1> DEFINE h == Disarm(UpdateInterrupt, id)
<1>1. /\ h \in [Ids -> Slots]
      /\ h[id].type = "none"
      /\ \A i \in Ids \ {id} : h[i] = UpdateInterrupt[i]
  BY UpdateType DEF Disarm, Slots, Types
<1>2. SetNewInterrupt(h) /\ nCyclesOver' = 0 /\ due' = due /\ due' \in [Ids -> Int]
  BY DEF RemovePendingInterrupt, TypeOK
<1>3. handlers' = h
  BY <1>2 DEF SetNewInterrupt
<1> HIDE DEF h
<1>4. \A i \in Ids : h[i].type \in {"none", "cpu"}
  <2>1. \A i \in Ids \ {id} : h[i].type = handlers[i].type
    BY <1>1, UpdateExact
  <2>2. \A i \in Ids : handlers[i].type \in {"none", "cpu"}
    BY DEF QueueExact
  <2> QED
    BY <1>1, <2>1, <2>2
<1>5. \A i \in Ids : h[i].type = "cpu" => h[i].time = due'[i]
  BY <1>1, <1>2, UpdateExact
<1> QED
  BY <1>1, <1>2, <1>3, <1>4, <1>5, SetNewExact, UpdateExact

\* A reset makes the queue exact.
LEMMA ResetExact ==
    ASSUME ~Realtime, TypeOK, Reset
    PROVE  QueueExact' /\ handlers'[VBL].type = "cpu"
<1>1. PICK p \in Nat : p = CyclesOf(PeriodUs)
  BY CyclesOfNat, TimeAssumption
<1>2. /\ ResetTable[VBL] = [type |-> "cpu", time |-> p]
      /\ \A i \in Ids \ {VBL} : ResetTable[i].type = "none"
  BY <1>1, IdsAssumption DEF ResetTable
<1>3. /\ SetNewInterrupt(ResetTable) /\ nCyclesOver' = 0
      /\ due' = [due EXCEPT ![VBL] = p]
  BY <1>1 DEF Reset
<1>4. due' \in [Ids -> Int] /\ due'[VBL] = p
  BY <1>3, IdsAssumption DEF TypeOK
<1>5. handlers' = ResetTable
  BY <1>3 DEF SetNewInterrupt
<1>6. \A i \in Ids : ResetTable[i].type \in {"none", "cpu"}
  <2>1. ResetTable[VBL].type = "cpu"
    BY <1>2
  <2> QED
    BY <1>2, <2>1
<1>7. \A i \in Ids : ResetTable[i].type = "cpu" => ResetTable[i].time = due'[i]
  BY <1>2, <1>4
<1> QED
  BY <1>2, <1>3, <1>4, <1>5, <1>6, <1>7, SetNewExact, ResetTableType

\* Cycles retire only while a CPU timer is active, so the pending copy, the
\* owed cycles and the true deadlines move together.
LEMMA AddCyclesExact ==
    ASSUME ~Realtime, TypeOK, QueueExact, PeriodicArmed, engine = "run",
           NEW c \in Nat, AddCycles(c)
    PROVE  QueueExact' /\ handlers' = handlers
<1>1. active # INTERRUPT_NULL
  BY IdsAssumption DEF QueueExact, PeriodicArmed
<1>2. active \in Ids /\ handlers[active].type = "cpu"
  BY <1>1 DEF TypeOK, QueueExact
<1>3. /\ handlers' = handlers /\ active' = active /\ nCyclesOver' = nCyclesOver + c
      /\ due' = [i \in Ids |-> IF handlers[i].type = "cpu" THEN due[i] - c ELSE due[i]]
      /\ pending' = [type |-> "cpu", time |-> pending.time - c, fn |-> pending.fn]
  BY <1>1 DEF AddCycles, OverAfter, QueueExact
<1>4. pending.time = due[active] /\ pending.fn = active
  BY <1>1 DEF QueueExact
<1>5. \A i \in Ids : handlers[i].type = "cpu" => due'[i] = due[i] - c
  BY <1>3
<1>6. \A i \in Ids : /\ due[i] \in Int /\ nCyclesOver \in Int
                     /\ handlers[i].time \in Int
  BY DEF TypeOK
<1>7. \A i \in Ids : handlers'[i].type = "cpu" => handlers'[i].time - nCyclesOver' = due'[i]
  BY <1>3, <1>5, <1>6 DEF QueueExact
<1>8. \A i \in Ids : handlers'[i].type = "cpu" => due'[active'] <= due'[i]
  BY <1>1, <1>2, <1>3, <1>5, <1>6 DEF QueueExact
<1>9. pending' = [type |-> "cpu", time |-> due'[active'], fn |-> active']
  BY <1>2, <1>3, <1>4, <1>5
<1> QED
  BY <1>1, <1>2, <1>3, <1>7, <1>8, <1>9 DEF QueueExact

\* Every step keeps the cycle-mode invariant.
LEMMA CycleInvInductive ==
    ASSUME ~Realtime, CycleInv, [Next]_vars, TypeOK'
    PROVE  CycleInv'
<1> USE DEF CycleInv
<1>1. CASE Charging
  <2>1. PICK c \in Nat : engine = "run" /\ AddCycles(c) /\ engine' \in {engine, "drain"} /\ UNCHANGED current
    BY <1>1, ChargingSteps
  <2>2. QueueExact' /\ handlers' = handlers
    BY <2>1, AddCyclesExact
  <2>3. PeriodicArmed'
    BY <2>1, <2>2 DEF PeriodicArmed
  <2> QED
    BY <2>2, <2>3
<1>3. CASE JitEventLoop \/ CallHandler
  <2>1. /\ AcknowledgeInterrupt /\ UNCHANGED due /\ engine = "drain"
        /\ engine' = "handler" /\ current' = pending.fn /\ pending.fn # INTERRUPT_NULL
    BY <1>3 DEF JitEventLoop, CallHandler, PendingDue
  <2>2. pending.fn = active
    BY <2>1 DEF QueueExact, NoHandler
  <2>3. QueueExact' /\ \A i \in Ids \ {active} : handlers'[i].type = handlers[i].type
    BY <2>1, AcknowledgeExact
  <2>4. PeriodicArmed'
    BY <2>1, <2>2, <2>3, IdsAssumption DEF PeriodicArmed
  <2> QED
    BY <2>3, <2>4
<1>4. CASE HandlerReturn
  <2>1. CASE current \in {VBL, EVENT_LOOP}
    <3>1. PICK p \in Nat : p = CyclesOf(PeriodUs)
      BY CyclesOfNat, TimeAssumption
    <3>2. AddRelativeInterruptCycles(p, current) /\ current \in Ids
      BY <1>4, <2>1, <3>1, IdsAssumption DEF HandlerReturn, AddRelativeInterruptUs
    <3>3. /\ QueueExact' /\ handlers'[current].type = "cpu"
          /\ \A i \in Ids : handlers[i].type = "cpu" => handlers'[i].type = "cpu"
      BY <3>2, ArmExact
    <3>4. PeriodicArmed'
      BY <3>3, IdsAssumption DEF PeriodicArmed
    <3> QED
      BY <3>3, <3>4
  <2>2. CASE current \notin {VBL, EVENT_LOOP}
    BY <1>4, <2>2 DEF HandlerReturn, queue, QueueExact, PeriodicArmed
  <2> QED
    BY <2>1, <2>2
<1>5. CASE EndDrain
  BY <1>5 DEF EndDrain, queue, QueueExact, PeriodicArmed
<1>6. CASE \E id \in Drivers : \/ \E d \in CycleDelays : ArmCycles(d, id)
                               \/ \E us \in UsDelays : ArmUs(us, id)
  <2>1. PICK id \in Ids, d \in Nat : AddRelativeInterruptCycles(d, id)
    <3>1. \A us \in UsDelays : CyclesOf(us) \in Nat
      BY CyclesOfNat, TimeAssumption
    <3> QED
      BY <1>6, <3>1, TimeAssumption DEF Drivers, ArmCycles, ArmUs, AddRelativeInterruptUs
  <2>2. UNCHANGED <<engine, current>>
    BY <1>6 DEF ArmCycles, ArmUs
  <2>3. /\ QueueExact'
        /\ \A i \in Ids : handlers[i].type = "cpu" => handlers'[i].type = "cpu"
    BY <2>1, ArmExact
  <2>4. PeriodicArmed'
    BY <2>2, <2>3, IdsAssumption DEF PeriodicArmed
  <2> QED
    BY <2>3, <2>4
<1>7. CASE \E id \in Removable : Cancel(id)
  <2>1. PICK id \in Removable : RemovePendingInterrupt(id) /\ UNCHANGED <<engine, current>>
    BY <1>7 DEF Cancel
  <2>2. id \in Ids /\ id # VBL /\ id # EVENT_LOOP
    BY IdsAssumption
  <2>3. QueueExact' /\ \A i \in Ids \ {id} : handlers'[i].type = handlers[i].type
    BY <2>1, <2>2, RemoveExact
  <2>4. PeriodicArmed'
    BY <2>1, <2>2, <2>3, IdsAssumption DEF PeriodicArmed
  <2> QED
    BY <2>3, <2>4
<1>8. CASE HostClock
  BY <1>8 DEF HostClock
<1>9. CASE Reset
  <2>1. QueueExact' /\ handlers'[VBL].type = "cpu"
    BY <1>9, ResetExact
  <2>2. PeriodicArmed'
    BY <1>9, <2>1 DEF Reset, PeriodicArmed
  <2> QED
    BY <2>1, <2>2
<1>10. CASE UNCHANGED vars
  BY <1>10 DEF vars, queue, QueueExact, PeriodicArmed
<1> QED
  BY <1>1, <1>3, <1>4, <1>5, <1>6, <1>7, <1>8, <1>9, <1>10 DEF Next, Charging

\* The cycle-mode invariant holds from start-up on.
LEMMA CycleModeInv == ASSUME ~Realtime PROVE Spec => []CycleInv
<1>1. Init => CycleInv
  <2> SUFFICES ASSUME Init PROVE QueueExact /\ PeriodicArmed /\ TypeOK
    BY DEF CycleInv
  <2>1. PICK p \in Nat : p = CyclesOf(PeriodUs)
    BY CyclesOfNat, TimeAssumption
  <2>2. /\ handlers \in [Ids -> Slots]
        /\ handlers[VBL] = [type |-> "cpu", time |-> p]
        /\ handlers[EVENT_LOOP] = [type |-> "cpu", time |-> p]
        /\ \A i \in Ids \ {VBL, EVENT_LOOP} : handlers[i].type = "none"
    BY <2>1, IdsAssumption, ResetTableType DEF Init, ResetTable
  <2>3. /\ active \in {VBL, EVENT_LOOP} /\ active # INTERRUPT_NULL /\ active \in Ids
        /\ pending = [type |-> "cpu", time |-> p, fn |-> active]
        /\ nCyclesOver = 0 /\ due = [i \in Ids |-> p]
    BY <2>1, IdsAssumption DEF Init
  <2>4. QueueExact
    BY <2>2, <2>3, IdsAssumption DEF QueueExact
  <2>5. PeriodicArmed
    BY <2>2 DEF PeriodicArmed
  <2>6. TypeOK
    BY <2>2, <2>3 DEF TypeOK, Slots, Init, Types
  <2> QED
    BY <2>4, <2>5, <2>6
<1>2. TypeOK' /\ CycleInv /\ [Next]_vars => CycleInv'
  BY CycleInvInductive
<1> QED
  BY <1>1, <1>2, TypeCorrect, PTL DEF Spec

\* In cycle mode no handler is called before the deadline its driver asked
\* for, whichever timers were armed, cancelled and served before
\* (CycInt_AddRelativeInterruptCycles, M68000_AddCycles).
THEOREM CycleModeExact ==
    ASSUME ~Realtime
    PROVE  Spec => []NeverEarly
<1>1. CycleInv => NeverEarly
  <2> SUFFICES ASSUME CycleInv, PendingDue PROVE due[pending.fn] <= 0
    BY DEF NeverEarly
  <2>1. active # INTERRUPT_NULL
    BY DEF CycleInv, QueueExact, NoHandler, PendingDue
  <2> QED
    BY <2>1 DEF CycleInv, QueueExact, PendingDue
<1> QED
  BY <1>1, CycleModeInv, PTL

-----------------------------------------------------------------------------
(* Both clock modes.  In realtime mode the table and the pending copy are   *)
(* not exact: a timer added while none is active does not settle the cycles *)
(* owed, so its row and, after the next update, its copy run ahead.  They   *)
(* only run ahead: QueueNotLate bounds both by the true deadline, and keeps *)
(* the pending copy and ActiveInterrupt on one armed timer.                 *)

\* No row of the table and no pending copy is behind the true deadline.
RowsNotLate(h, over, d) ==
    \A i \in Ids : h[i].type = "cpu" => h[i].time - over <= d[i]

CopyNotLate ==
    \A i \in Ids : handlers[i].type = "cpu" /\ pending.type = "cpu" => pending.time <= due[i]

CopyIsActive ==
    /\ pending.fn = active
    /\ active = INTERRUPT_NULL => /\ pending = NoHandler
                                  /\ \A i \in Ids : handlers[i].type # "cpu"
    /\ active # INTERRUPT_NULL => /\ handlers[active].type = pending.type
                                  /\ pending.type \in {"cpu", "us"}
    /\ pending.type = "us" => pending.time <= 0

QueueNotLate == RowsNotLate(handlers, nCyclesOver, due) /\ CopyNotLate /\ CopyIsActive

\* CycInt_SetNewInterrupt copies the least row, which is not late if none is.
LEMMA SetNewNotLate ==
    ASSUME NEW h \in [Ids -> Slots], SetNewInterrupt(h), nCyclesOver' \in Nat, due' \in [Ids -> Int],
           RowsNotLate(h, 0, due')
    PROVE  QueueNotLate'
<1>1. PICK low \in LowestInterrupt(h) :
          /\ handlers' = h /\ active' = low
          /\ pending' = IF low = INTERRUPT_NULL THEN NoHandler
                        ELSE [type |-> h[low].type, time |-> h[low].time, fn |-> low]
  BY DEF SetNewInterrupt
<1>2. \A i \in Ids : h[i].time \in Int /\ due'[i] \in Int /\ i # INTERRUPT_NULL /\ i \in Nat
  BY IdsAssumption DEF Slots
<1>3. RowsNotLate(h, nCyclesOver', due')
  BY <1>2 DEF RowsNotLate
<1>4. CASE CpuArmed(h) = {}
  <2>1. low = INTERRUPT_NULL
    BY <1>1, <1>4 DEF LowestInterrupt
  <2>2. \A i \in Ids : h[i].type # "cpu"
    BY <1>4 DEF CpuArmed
  <2> QED
    BY <1>1, <1>3, <2>1, <2>2 DEF QueueNotLate, CopyNotLate, CopyIsActive, NoHandler
<1>5. CASE CpuArmed(h) # {}
  <2>1. low \in Ids /\ h[low].type = "cpu" /\ low # INTERRUPT_NULL
    BY <1>1, <1>2, <1>5 DEF LowestInterrupt, CpuArmed
  <2>2. \A i \in Ids : h[i].type = "cpu" => h[low].time <= h[i].time
    BY <1>1, <1>2, <1>5, <2>1 DEF LowestInterrupt, CpuArmed
  <2>3. pending' = [type |-> "cpu", time |-> h[low].time, fn |-> low]
    BY <1>1, <2>1
  <2>4. \A i \in Ids : h[i].type = "cpu" => h[low].time <= due'[i]
    BY <1>2, <2>1, <2>2 DEF RowsNotLate
  <2> QED
    BY <1>1, <1>3, <2>1, <2>3, <2>4 DEF QueueNotLate, CopyNotLate, CopyIsActive
<1> QED
  BY <1>4, <1>5

\* The updated table is not late.
LEMMA UpdateNotLate ==
    ASSUME TypeOK, QueueNotLate
    PROVE  /\ UpdateInterrupt \in [Ids -> Slots]
           /\ RowsNotLate(UpdateInterrupt, 0, due)
<1>1. \A i \in Ids : handlers[i].time \in Int /\ due[i] \in Int /\ nCyclesOver \in Int
  BY DEF TypeOK
<1>2. \A i \in Ids : UpdateInterrupt[i].type = "cpu" =>
          handlers[i].type = "cpu" /\ UpdateInterrupt[i].time = handlers[i].time - nCyclesOver
  BY DEF UpdateInterrupt
<1> QED
  BY <1>1, <1>2, UpdateType DEF QueueNotLate, RowsNotLate

\* Where the conditional update is skipped no row is a CPU timer's.
LEMMA UpdateIfActiveNotLate ==
    ASSUME TypeOK, QueueNotLate
    PROVE  /\ UpdateIfActive \in [Ids -> Slots] /\ OverIfActive \in Nat
           /\ RowsNotLate(UpdateIfActive, 0, due)
<1>1. CASE active = INTERRUPT_NULL
  BY <1>1 DEF UpdateIfActive, OverIfActive, QueueNotLate, CopyIsActive, RowsNotLate, TypeOK,
              Slots, INTERRUPT_NULL
<1>2. CASE active # INTERRUPT_NULL
  <2>1. active > 0
    BY <1>2, IdsAssumption DEF TypeOK, INTERRUPT_NULL
  <2> QED
    BY <2>1, UpdateNotLate DEF UpdateIfActive, OverIfActive
<1> QED
  BY <1>1, <1>2

\* Adding a timer in cycles.
LEMMA ArmCyclesNotLate ==
    ASSUME TypeOK, QueueNotLate, NEW id \in Ids, NEW d \in Nat,
           AddRelativeInterruptCycles(d, id)
    PROVE  QueueNotLate'
<1> DEFINE h == [UpdateIfActive EXCEPT ![id] = [type |-> "cpu", time |-> d]]
<1>1. /\ h \in [Ids -> Slots] /\ h[id] = [type |-> "cpu", time |-> d]
      /\ \A i \in Ids \ {id} : h[i] = UpdateIfActive[i]
  BY UpdateIfActiveNotLate DEF Slots, Types
<1>2. /\ SetNewInterrupt(h) /\ nCyclesOver' \in Nat
      /\ due' \in [Ids -> Int] /\ due'[id] = d
      /\ \A i \in Ids \ {id} : due'[i] = due[i]
  BY UpdateIfActiveNotLate DEF AddRelativeInterruptCycles, TypeOK
<1> HIDE DEF h
<1>3. RowsNotLate(h, 0, due')
  BY <1>1, <1>2, UpdateIfActiveNotLate DEF RowsNotLate
<1> QED
  BY <1>1, <1>2, <1>3, SetNewNotLate

\* Adding a timer in microseconds, by either clock.
LEMMA ArmUsNotLate ==
    ASSUME TypeOK, QueueNotLate, NEW id \in Ids, NEW us \in Nat,
           AddRelativeInterruptUs(us, id)
    PROVE  QueueNotLate'
<1>1. CASE ~Realtime
  BY <1>1, ArmCyclesNotLate, CyclesOfNat DEF AddRelativeInterruptUs
<1>2. CASE Realtime
  <2> DEFINE h == [UpdateIfActive EXCEPT ![id] = [type |-> "us", time |-> us]]
  <2>1. /\ h \in [Ids -> Slots] /\ h[id] = [type |-> "us", time |-> us]
        /\ \A i \in Ids \ {id} : h[i] = UpdateIfActive[i]
    BY UpdateIfActiveNotLate DEF Slots, Types
  <2>2. SetNewInterrupt(h) /\ nCyclesOver' \in Nat /\ due' = due /\ due' \in [Ids -> Int]
    BY <1>2, UpdateIfActiveNotLate DEF AddRelativeInterruptUs, TypeOK
  <2> HIDE DEF h
  <2>3. RowsNotLate(h, 0, due')
    BY <2>1, <2>2, UpdateIfActiveNotLate DEF RowsNotLate
  <2> QED
    BY <2>1, <2>2, <2>3, SetNewNotLate
<1> QED
  BY <1>1, <1>2

\* CycInt_AcknowledgeInterrupt and CycInt_RemovePendingInterrupt: the updated
\* table with a row cleared, or with none.
LEMMA ClearNotLate ==
    ASSUME TypeOK, QueueNotLate, NEW id \in Ids \cup {INTERRUPT_NULL},
           nCyclesOver' = 0, UNCHANGED due,
           SetNewInterrupt(IF id = INTERRUPT_NULL THEN UpdateInterrupt ELSE Disarm(UpdateInterrupt, id))
    PROVE  QueueNotLate'
<1> DEFINE h == IF id = INTERRUPT_NULL THEN UpdateInterrupt ELSE Disarm(UpdateInterrupt, id)
<1>1. h \in [Ids -> Slots] /\ \A i \in Ids : h[i] = UpdateInterrupt[i] \/ h[i].type = "none"
  BY UpdateNotLate DEF Disarm, Slots, Types
<1>2. SetNewInterrupt(h) /\ nCyclesOver' \in Nat /\ due' = due /\ due' \in [Ids -> Int]
  BY DEF TypeOK
<1> HIDE DEF h
<1>3. RowsNotLate(h, 0, due')
  BY <1>1, <1>2, UpdateNotLate DEF RowsNotLate
<1> QED
  BY <1>1, <1>2, <1>3, SetNewNotLate

\* M68000_AddCycles moves the copy and the deadlines together, or publishes an
\* expired host-clock timer.
LEMMA AddCyclesNotLate ==
    ASSUME TypeOK, QueueNotLate, NEW c \in Nat, AddCycles(c)
    PROVE  QueueNotLate'
<1>1. /\ handlers' = handlers /\ nCyclesOver' = nCyclesOver + c
      /\ \A i \in Ids : handlers[i].type = "cpu" => due'[i] = due[i] - c
  BY DEF AddCycles, OverAfter
<1>2. \A i \in Ids : /\ due[i] \in Int /\ nCyclesOver \in Int /\ handlers[i].time \in Int
                     /\ i # INTERRUPT_NULL
  BY IdsAssumption DEF TypeOK
<1>3. RowsNotLate(handlers', nCyclesOver', due')
  BY <1>1, <1>2 DEF QueueNotLate, RowsNotLate
<1>4. CASE SetNewInterruptUs
  <2>1. PICK i \in Ids : /\ handlers[i].type = "us" /\ active' = i
                         /\ pending' = [type |-> "us", time |-> -1, fn |-> i]
    BY <1>4 DEF SetNewInterruptUs, ExpiredUs
  <2> QED
    BY <1>1, <1>2, <1>3, <2>1 DEF QueueNotLate, CopyNotLate, CopyIsActive
<1>5. CASE /\ active' = active
           /\ pending' = IF pending.type = "cpu"
                         THEN [type |-> "cpu", time |-> pending.time - c, fn |-> pending.fn]
                         ELSE pending
  <2>1. pending.time \in Int
    BY DEF TypeOK
  <2>2. CASE pending.type = "cpu"
    <3>1. pending' = [type |-> "cpu", time |-> pending.time - c, fn |-> pending.fn]
      BY <1>5, <2>2
    <3>2. active # INTERRUPT_NULL
      BY <2>2 DEF QueueNotLate, CopyIsActive, NoHandler
    <3>3. CopyNotLate'
      BY <1>1, <1>2, <2>1, <2>2, <3>1 DEF QueueNotLate, CopyNotLate
    <3>4. CopyIsActive'
      BY <1>1, <1>5, <2>2, <3>1, <3>2 DEF QueueNotLate, CopyIsActive
    <3> QED
      BY <1>3, <3>3, <3>4 DEF QueueNotLate
  <2>3. CASE pending.type # "cpu"
    BY <1>1, <1>3, <1>5, <2>3 DEF QueueNotLate, CopyNotLate, CopyIsActive
  <2> QED
    BY <2>2, <2>3
<1> QED
  BY <1>4, <1>5 DEF AddCycles

\* Every step, in either mode, leaves no row and no copy late.
LEMMA NotLateInductive ==
    ASSUME TypeOK, QueueNotLate, [Next]_vars
    PROVE  QueueNotLate'
<1>1. CASE Charging
  BY <1>1, ChargingSteps, AddCyclesNotLate
<1>2. CASE JitEventLoop \/ CallHandler
  <2>1. AcknowledgeInterrupt /\ UNCHANGED due
    BY <1>2 DEF JitEventLoop, CallHandler
  <2> QED
    BY <2>1, ClearNotLate DEF AcknowledgeInterrupt, TypeOK
<1>3. CASE HandlerReturn
  <2>1. CASE current \in {VBL, EVENT_LOOP}
    BY <1>3, <2>1, ArmUsNotLate, IdsAssumption, TimeAssumption DEF HandlerReturn
  <2>2. CASE current \notin {VBL, EVENT_LOOP}
    BY <1>3, <2>2 DEF HandlerReturn, queue, QueueNotLate, RowsNotLate, CopyNotLate, CopyIsActive
  <2> QED
    BY <2>1, <2>2
<1>4. CASE \E id \in Drivers : \/ \E d \in CycleDelays : ArmCycles(d, id)
                               \/ \E us \in UsDelays : ArmUs(us, id)
  BY <1>4, ArmCyclesNotLate, ArmUsNotLate, TimeAssumption DEF Drivers, ArmCycles, ArmUs
<1>5. CASE \E id \in Removable : Cancel(id)
  <2>1. PICK id \in Removable : RemovePendingInterrupt(id)
    BY <1>5 DEF Cancel
  <2>2. id \in Ids /\ id # INTERRUPT_NULL
    BY IdsAssumption
  <2> QED
    BY <2>1, <2>2, ClearNotLate DEF RemovePendingInterrupt
<1>6. CASE HostClock
  <2>1. \A i \in Ids : /\ handlers'[i].type = handlers[i].type
                       /\ handlers[i].type = "cpu" => handlers'[i] = handlers[i]
    BY <1>6 DEF HostClock
  <2>2. UNCHANGED <<pending, active, nCyclesOver, due>>
    BY <1>6 DEF HostClock
  <2>3. active # INTERRUPT_NULL => active \in Ids
    BY DEF TypeOK
  <2> QED
    BY <2>1, <2>2, <2>3 DEF QueueNotLate, RowsNotLate, CopyNotLate, CopyIsActive
<1>7. CASE Reset
  <2>1. PICK p \in Nat : p = CyclesOf(PeriodUs)
    BY CyclesOfNat, TimeAssumption
  <2>2. /\ \A i \in Ids : ResetTable[i].type = "cpu" =>
                             i = VBL /\ ResetTable[i].time = p
    BY <2>1, IdsAssumption DEF ResetTable
  <2>3. /\ SetNewInterrupt(ResetTable) /\ nCyclesOver' = 0
        /\ due' = [due EXCEPT ![VBL] = p]
    BY <1>7, <2>1 DEF Reset
  <2>4. due' \in [Ids -> Int] /\ due'[VBL] = p
    BY <2>3, IdsAssumption DEF TypeOK
  <2>5. RowsNotLate(ResetTable, 0, due')
    BY <2>2, <2>4 DEF RowsNotLate
  <2> QED
    BY <2>3, <2>4, <2>5, SetNewNotLate, ResetTableType
<1>8. CASE EndDrain \/ UNCHANGED vars
  BY <1>8 DEF EndDrain, vars, queue, QueueNotLate, RowsNotLate, CopyNotLate, CopyIsActive
<1> QED
  BY <1>1, <1>2, <1>3, <1>4, <1>5, <1>6, <1>7, <1>8 DEF Next, Charging

\* The queue is not late from start-up on, whichever the clock.
LEMMA NeverLate == Spec => []QueueNotLate
<1>1. Init => QueueNotLate
  <2> SUFFICES ASSUME Init PROVE QueueNotLate
    OBVIOUS
  <2>1. PICK p \in Nat : p = CyclesOf(PeriodUs)
    BY CyclesOfNat, TimeAssumption
  <2>2. CASE Realtime
    <3>1. \A i \in Ids : handlers[i].type # "cpu"
      BY <2>2, IdsAssumption DEF Init, ResetTable
    <3> QED
      BY <2>2, <3>1 DEF Init, NoHandler, QueueNotLate, RowsNotLate, CopyNotLate, CopyIsActive
  <2>3. CASE ~Realtime
    <3>1. \A i \in Ids : handlers[i].type = "cpu" => handlers[i].time = p
      BY <2>1, <2>3, IdsAssumption DEF Init, ResetTable
    <3>2. handlers[VBL].type = "cpu" /\ handlers[EVENT_LOOP].type = "cpu"
      BY <2>3, IdsAssumption DEF Init, ResetTable
    <3>3. /\ active \in {VBL, EVENT_LOOP} /\ active # INTERRUPT_NULL
          /\ pending = [type |-> "cpu", time |-> p, fn |-> active]
          /\ nCyclesOver = 0 /\ due = [i \in Ids |-> p]
      BY <2>1, <2>3, IdsAssumption DEF Init
    <3> QED
      BY <3>1, <3>2, <3>3 DEF QueueNotLate, RowsNotLate, CopyNotLate, CopyIsActive
  <2> QED
    BY <2>2, <2>3
<1>2. TypeOK /\ QueueNotLate /\ [Next]_vars => QueueNotLate'
  BY NotLateInductive
<1> QED
  BY <1>1, <1>2, TypeCorrect, PTL DEF Spec

\* In both clock modes no overdue timer is hidden behind the pending copy
\* (CycInt_SetNewInterrupt, CycInt_SetNewInterruptUs, M68000_AddCycles), though
\* in realtime mode the copy may be early.
THEOREM OverlooksNone == Spec => []NoneOverlooked
<1>1. TypeOK /\ QueueNotLate => NoneOverlooked
  <2> SUFFICES ASSUME TypeOK, QueueNotLate, NEW i \in Ids, handlers[i].type = "cpu", due[i] <= 0
               PROVE  PendingDue
    BY DEF NoneOverlooked
  <2>1. active # INTERRUPT_NULL /\ pending.fn = active /\ pending.type \in {"cpu", "us"}
    BY DEF QueueNotLate, CopyIsActive
  <2>2. pending.time <= 0
    BY <2>1 DEF TypeOK, QueueNotLate, CopyNotLate, CopyIsActive
  <2> QED
    BY <2>1, <2>2 DEF PendingDue
<1> QED BY <1>1, NeverLate, TypeCorrect, PTL

\* In both clock modes the timer that CycInt_AcknowledgeInterrupt clears is
\* the one whose handler is called, cancellations and re-arming included.
THEOREM Acknowledges == Spec => []AcknowledgesItself
<1>1. QueueNotLate => AcknowledgesItself
  BY DEF QueueNotLate, CopyIsActive, AcknowledgesItself, PendingDue
<1> QED BY <1>1, NeverLate, PTL

-----------------------------------------------------------------------------
(* Cycle mode implements Timers.  CpuArmed(handlers) are the timers that    *)
(* count and the history due is what is left of each, so every step of the  *)
(* queue is read off QueueExact: the one that is pending is the earliest.   *)

\* What a call of CycInt_AddRelativeInterruptCycles does to the timers.
LEMMA ArmStarts ==
    ASSUME TypeOK, QueueExact, NEW id \in Ids, NEW d \in Nat, d \in Delays,
           AddRelativeInterruptCycles(d, id)
    PROVE  T!Start(id)
<1>1. /\ handlers' = [UpdateIfActive EXCEPT ![id] = [type |-> "cpu", time |-> d]]
      /\ due' = [due EXCEPT ![id] = d]
  BY DEF AddRelativeInterruptCycles, SetNewInterrupt
<1>2. /\ handlers'[id].type = "cpu"
      /\ \A i \in Ids \ {id} : handlers'[i].type = handlers[i].type
  BY <1>1, UpdateIfActiveExact
<1>3. CpuArmed(handlers') = CpuArmed(handlers) \cup {id}
  BY <1>2 DEF CpuArmed
<1> QED
  BY <1>1, <1>3 DEF T!Start

\* The delays that drivers and the two periodic handlers ask for.
LEMMA DelaysNat ==
    /\ Delays \subseteq Nat
    /\ \A us \in UsDelays \cup {PeriodUs} : CyclesOf(us) \in Delays
    /\ CycleDelays \subseteq Delays
<1>1. \A us \in UsDelays \cup {PeriodUs} : CyclesOf(us) \in Nat
  BY CyclesOfNat, TimeAssumption
<1> QED
  BY <1>1, TimeAssumption DEF Delays

\* While a handler is due, it is that of the earliest timer, which is over.
LEMMA PendingIsEarliest ==
    ASSUME TypeOK, QueueExact, PendingDue
    PROVE  /\ pending.fn = active /\ active \in CpuArmed(handlers) /\ due[active] <= 0
           /\ \A j \in CpuArmed(handlers) : due[active] <= due[j]
<1>1. active # INTERRUPT_NULL
  BY DEF QueueExact, PendingDue, NoHandler
<1>2. active \in Ids
  BY <1>1 DEF TypeOK
<1> QED
  BY <1>1, <1>2 DEF QueueExact, PendingDue, CpuArmed

\* While none is due, no timer is over.
LEMMA NothingOver ==
    ASSUME TypeOK, QueueExact, ~PendingDue
    PROVE  \A i \in CpuArmed(handlers) : ~(due[i] <= 0)
<1> SUFFICES ASSUME NEW i \in Ids, handlers[i].type = "cpu" PROVE ~(due[i] <= 0)
  BY DEF CpuArmed
<1>1. active # INTERRUPT_NULL /\ active \in Ids
  BY DEF QueueExact, TypeOK
<1>2. ~(due[active] <= 0) /\ due[active] <= due[i]
  BY <1>1 DEF QueueExact, PendingDue
<1> QED
  BY <1>1, <1>2 DEF TypeOK

\* Every step of the queue and the engines is one of Timers.
LEMMA TimersStep ==
    ASSUME ~Realtime, CycleInv, [Next]_vars
    PROVE  [T!TimersNext]_(T!timerVars)
<1> TypeOK /\ QueueExact /\ PeriodicArmed
  BY DEF CycleInv
<1>1. CASE Charging
  <2>1. PICK c \in CycleCounts \cup {0} :
            /\ engine = "run" /\ AddCycles(c) /\ UNCHANGED current
            /\ UNCHANGED <<engine, calls>> \/ (engine' = "drain" /\ calls' = 0)
    BY <1>1 DEF Charging, Instruction, ChargeCyclesNoEvents, JitOneTick, JitPendingDeadlineDue
  <2>2. c \in Nat
    BY TimeAssumption
  <2>3. handlers' = handlers
    BY <2>1 DEF AddCycles
  <2>4. CpuArmed(handlers') = CpuArmed(handlers)
    BY <2>3
  <2>5. due' = [i \in Ids |-> IF i \in CpuArmed(handlers) THEN due[i] - c ELSE due[i]]
    BY <2>1 DEF AddCycles, CpuArmed
  <2> QED
    BY <2>1, <2>4, <2>5 DEF T!TimersNext, T!CountDown
<1>2. CASE JitEventLoop \/ CallHandler
  <2>1. /\ AcknowledgeInterrupt /\ UNCHANGED due /\ engine = "drain" /\ PendingDue
        /\ engine' = "handler" /\ current' = pending.fn
    BY <1>2 DEF JitEventLoop, CallHandler
  <2>2. calls' \in {calls, calls + 1}
    BY <1>2 DEF JitEventLoop, CallHandler
  <2>3. \A i \in Ids \ {active} : handlers'[i].type = handlers[i].type
    BY <2>1, AcknowledgeExact
  <2>4. active \in Ids /\ active # INTERRUPT_NULL
    BY <2>1, PendingIsEarliest, IdsAssumption DEF CpuArmed
  <2>5. handlers'[active].type = "none"
    <3>1. handlers' = Disarm(UpdateInterrupt, active)
      BY <2>1, <2>4 DEF AcknowledgeInterrupt, SetNewInterrupt
    <3> QED
      BY <2>4, <3>1, UpdateType DEF Disarm
  <2>6. CpuArmed(handlers') = CpuArmed(handlers) \ {active}
    BY <2>3, <2>4, <2>5 DEF CpuArmed
  <2>7. active \in T!Over /\ \A j \in CpuArmed(handlers) : due[active] <= due[j]
    BY <2>1, PendingIsEarliest DEF T!Over
  <2>8. current' = active
    BY <2>1, PendingIsEarliest
  <2> QED
    BY <2>1, <2>2, <2>6, <2>7, <2>8 DEF T!TimersNext, T!Serve
<1>3. CASE HandlerReturn
  <2>1. /\ engine = "handler" /\ engine' = "drain" /\ current' = INTERRUPT_NULL
        /\ UNCHANGED calls
    BY <1>3 DEF HandlerReturn
  <2>2. INTERRUPT_NULL \notin Ids
    BY IdsAssumption
  <2>3. CASE current \in {VBL, EVENT_LOOP}
    <3>1. PICK p \in Nat : p = CyclesOf(PeriodUs) /\ p \in Delays
      BY DelaysNat
    <3>2. AddRelativeInterruptCycles(p, current) /\ current \in Ids
      BY <1>3, <2>3, <3>1, IdsAssumption DEF HandlerReturn, AddRelativeInterruptUs
    <3>3. T!Start(current)
      BY <3>1, <3>2, ArmStarts
    <3> QED
      BY <2>1, <2>2, <2>3, <3>3 DEF T!TimersNext, T!Return
  <2>4. CASE current \notin {VBL, EVENT_LOOP}
    <3>1. UNCHANGED <<handlers, due>>
      BY <1>3, <2>4 DEF HandlerReturn, queue
    <3>2. CpuArmed(handlers') = CpuArmed(handlers)
      BY <3>1
    <3> QED
      BY <2>1, <2>2, <2>4, <3>1, <3>2 DEF T!TimersNext, T!Return
  <2> QED
    BY <2>3, <2>4
<1>4. CASE EndDrain
  <2>1. /\ engine = "drain" /\ engine' = "run" /\ UNCHANGED <<handlers, current, calls, due>>
        /\ ~PendingDue \/ (Jit /\ calls >= DrainLimit)
    BY <1>4 DEF EndDrain, queue
  <2>2. ~PendingDue => T!Over = {}
    BY NothingOver DEF T!Over
  <2>3. CpuArmed(handlers') = CpuArmed(handlers)
    BY <2>1
  <2> QED
    BY <2>1, <2>2, <2>3 DEF T!TimersNext, T!Resume
<1>5. CASE \E id \in Drivers : \/ \E d \in CycleDelays : ArmCycles(d, id)
                               \/ \E us \in UsDelays : ArmUs(us, id)
  <2>1. PICK id \in Ids, d \in Nat : AddRelativeInterruptCycles(d, id) /\ d \in Delays
    BY <1>5, DelaysNat DEF Drivers, ArmCycles, ArmUs, AddRelativeInterruptUs
  <2>2. engine \in {"run", "handler"} /\ UNCHANGED <<engine, current, calls>>
    BY <1>5 DEF ArmCycles, ArmUs, InDriver
  <2>3. T!Start(id)
    BY <2>1, ArmStarts
  <2> QED
    BY <2>2, <2>3 DEF T!TimersNext, T!Arm
<1>6. CASE \E id \in Removable : Cancel(id)
  <2>1. PICK id \in Removable : /\ RemovePendingInterrupt(id) /\ UNCHANGED <<engine, current, calls>>
                                /\ engine \in {"run", "handler"}
    BY <1>6 DEF Cancel, InDriver
  <2>2. id \in Ids
    BY IdsAssumption
  <2>3. \A i \in Ids \ {id} : handlers'[i].type = handlers[i].type
    BY <2>1, <2>2, RemoveExact
  <2>4. handlers'[id].type = "none" /\ due' = due
    <3>1. handlers' = Disarm(UpdateInterrupt, id) /\ due' = due
      BY <2>1 DEF RemovePendingInterrupt, SetNewInterrupt
    <3> QED
      BY <2>2, <3>1, UpdateType DEF Disarm
  <2>5. CpuArmed(handlers') = CpuArmed(handlers) \ {id}
    BY <2>2, <2>3, <2>4 DEF CpuArmed
  <2> QED
    BY <2>1, <2>2, <2>4, <2>5 DEF T!TimersNext, T!Disarm
<1>7. CASE HostClock
  BY <1>7 DEF HostClock
<1>8. CASE Reset
  <2>1. PICK p \in Nat : p = CyclesOf(PeriodUs) /\ p \in Delays
    BY DelaysNat
  <2>2. /\ engine = "handler" /\ UNCHANGED <<engine, current, calls>>
        /\ due' = [due EXCEPT ![VBL] = p] /\ handlers' = ResetTable
    BY <1>8, <2>1 DEF Reset, SetNewInterrupt
  <2>3. /\ ResetTable[VBL].type = "cpu"
        /\ \A i \in Ids \ {VBL} : ResetTable[i].type = "none"
    BY IdsAssumption DEF ResetTable
  <2>4. CpuArmed(handlers') = {VBL}
    BY <2>2, <2>3, IdsAssumption DEF CpuArmed
  <2> QED
    BY <2>1, <2>2, <2>4, IdsAssumption DEF T!TimersNext, T!Restart
<1>9. CASE UNCHANGED vars
  <2>1. UNCHANGED <<handlers, due, engine, current, calls>>
    BY <1>9 DEF vars, queue
  <2>2. CpuArmed(handlers') = CpuArmed(handlers)
    BY <2>1
  <2> QED
    BY <2>1, <2>2 DEF T!timerVars
<1> QED
  BY <1>1, <1>2, <1>3, <1>4, <1>5, <1>6, <1>7, <1>8, <1>9 DEF Next, Charging

\* In cycle mode the queue and either engine implement Timers: the table, the
\* pending copy and the cycles owed of cycInt.c cannot be told from timers
\* that each count down on their own and are served earliest first.
THEOREM ImplementsTimers ==
    ASSUME ~Realtime
    PROVE  Spec => QueueIsTimers
<1>1. Init => T!TimersInit
  <2> SUFFICES ASSUME Init PROVE T!TimersInit
    OBVIOUS
  <2>1. CyclesOf(PeriodUs) \in Nat
    BY CyclesOfNat, TimeAssumption
  <2>2. due \in [Ids -> Int] /\ engine = "run" /\ current \notin Ids /\ calls = 0
    BY <2>1, IdsAssumption DEF Init
  <2> QED
    BY <2>2 DEF T!TimersInit, CpuArmed
<1>2. CycleInv /\ [Next]_vars => [T!TimersNext]_(T!timerVars)
  BY TimersStep
<1> QED
  BY <1>1, <1>2, CycleModeInv, PTL DEF Spec, QueueIsTimers, T!TimersSpec
=============================================================================
