# A TLA+ model of Previous with its AArch64 JIT

Previous emulates NeXT workstations: a 68030/68040 CPU with its MMU, a DSP, DMA
channels, SCSI, optical and floppy drives, Ethernet, sound and a display. This
repository adds a just-in-time translator for AArch64, taken from BasiliskII
and adapted by a bridge, linker stubs and a dispatcher.

These modules model the parts whose correctness depends on the *order* of
events: the timer queue that drives every device, the cache of translated code
with the MMU off and on, the delivery of interrupts under the interpreter and
under the JIT, the SCSI controller with its DMA channel and disk, and Ethernet
with the host thread behind it. TLC checks the modules on small instances. TLAPS
proves the invariants, three refinements and what the DMA loops move, for every
instance.
`PROJECT.json` maps every definition to the lines it models.

Contents: [parts of the system](#parts-of-the-system),
[modules](#modules-and-the-code-they-model), [runs](#runs),
[bounds](#bounds-and-why-they-are-enough), [fairness](#fairness),
[proofs](#proofs), [divergences found](#divergences-between-the-code-and-its-documentation),
[what is left out](#what-is-left-out), [plan](#plan).

To repeat a check: `tlc -config MCBlockCache_smc.cfg MCBlockCache`, and
`tlapm BlockCacheProofs.tla`.

## Parts of the system

Almost everything runs on one thread, the CPU thread: guest instructions,
device register accesses, timer handlers, DMA, translation. The threads beside
it are the host's: SDL audio callbacks, SLiRP, the VNC server and the i860 of
the NeXTdimension board. What makes the program hard is therefore less the
locking than the interleaving of *callbacks*: a timer handler may arm or cancel
timers, raise interrupts and write guest memory, at any point where the engine
drains the queue; and native code embeds pointers that any of those writes may
invalidate.

| Part | State | Operations | Talks to | Hard behaviour | What makes it correct |
|---|---|---|---|---|---|
| Cycle interrupt queue (`cycInt.c`) | table of timers, one pending copy, cycles owed | add, remove, acknowledge, update, choose next | every device; both engines | one copy is decremented, the table lags; drivers call back into it | no handler early, none overlooked, each acknowledges itself, all served |
| Translated-block cache (`compemu_support_arm.cpp`) | block records, cache lines, patched jumps, checksums, page bits | compile, link, check, invalidate, flush | dispatcher, tracer, memory, DMA | self-modifying code; recursive validation; edges into blocks being replaced | nothing reaches stale or discarded code; control always gets on |
| Dispatcher and tracer (`compemu_support.cpp`, `compemu_legacy_arm64_compat.cpp`) | budget, trace history, retired cycles | dispatch, trace, charge, tick, poll | block cache, queue, interrupts | several polls and drains, in different places, for one contract | same progress and interrupts as the interpreter |
| Linker stubs (`uae2026_linker_stubs.cpp`) | its own `lastintr`, trace pending bit | specialties, banked loads and stores, ticks | engine, memory | flags cleared before the exception that may fault | interrupts neither lost nor early |
| JIT bridge (`uae2026_jit_bridge.cpp`) | helper phase, MMU transaction, continuation pc, flag copies | begin, commit, roll back, convert flags | interpreter core, MMU | a fault in the middle of a compiled instruction | the retry starts from the architectural state |
| Interpreter core (`newcpu.c`, `m68000.c`) | registers, SR, special flags | instruction, exception, STOP | MMU, queue, interrupts | bus errors by longjmp skip the rest of the loop | interrupts on every instruction boundary |
| MMU (`cpummu.c`, `cpummu030.c`) | translation tables, ATC | translate, flush | memory, block cache | native code fetches nothing, so nothing faults | a block runs only over pages that are still there |
| Memory (`memory.c`, `nextMemory.c`) | RAM, ROM, the JIT's shadow | put, get | all | two copies of RAM | shadow equals RAM |
| DMA (`dma.c`) | per channel: CSR, next, limit, start, stop; a burst buffer | register writes, device transfers, flush | SCSI, MO, floppy, Ethernet, sound, DSP | chaining, bursts cut short, bus errors part of the way | bytes leave in order, once, inside the buffer; the translator is told |
| SCSI (`esp.c`, `scsi.c`) | command register, FIFO, phase, targets, overlay | commands, DMA and PIO transfers, resets | DMA, timers, interrupts | two-deep command register; timers that outlive a reset | a command in progress always ends |
| Optical, floppy (`mo.c`, `floppy.c`) | drives, formatter, ECC | seek, read, write, eject | DMA, timers | two drives behind one formatter; cancel while in flight | completion belongs to the drive asked |
| Ethernet (`ethernet.c`, `enet_slirp.c`, `queue.c`) | packet queue and mutex, receiver and transmitter | send, receive, start, stop, reset | SLiRP thread, DMA, configuration | packets cross threads; the thread outlives the queue | what is received was sent, whole, in order, once |
| Sound (`snd.c`, `audio.c`) | ring buffers | callback, DMA | SDL thread | lock and ring at its limits | bounded latency, no overrun |
| System registers (`sysReg.c`) | interrupt status and mask, SCR, hardclock | register accesses, `set_interrupt` | CPU, RTC | one line, two possible levels | level is a function of status and mask |
| RTC, keyboard (`rtcnvram.c`, `kms.c`, `adb.c`) | shift registers, NVRAM | bit-serial accesses | SCR2 | protocol sequences | a transaction reads what was written |
| Host time (`host.c`) | real, virtual, unix time | switch modes, read | queue, sound, video | switching between clocks | time never runs backwards |
| NeXTdimension, DSP | own cores, message queues, host ports | messages, runs | CPU thread | a second emulated CPU on a thread | messages in order |
| GUI, VNC, debugger, tools | host-side | — | — | I/O | — |

`PROJECT.json` lists the parts with their files and, under `hazards`, the places
where the code is hard to test, with the properties that would notice.

## Modules and the code they model

### CycInt: the timer queue; Timers: what it promises

*State.* `handlers`, `pending`, `active`, `nCyclesOver`, `usCheckCycles` are the
variables of `cycInt.c` and `M68000_AddCycles`. `engine`, `current`, `calls` are
the point the CPU thread has reached. `due` is a history variable: the cycles
left until each timer's true deadline, counted from the call that armed it.

*Actions.* `ArmCycles`, `ArmUs`, `Cancel` are the interface that drivers call,
between instructions or inside a handler; `Instruction` is the interpreter's
step; `ChargeCyclesNoEvents`, `JitPendingDeadlineDue`, `JitOneTick`,
`JitEventLoop` are the JIT's; `CallHandler`, `HandlerReturn`, `EndDrain` the
drain loops; `Reset` a warm reset from the event handler; `HostClock` the clock.

*Abstractions.* A host-clock deadline is kept relative to the clock. Which
device a timer belongs to does not matter, except for the two that re-arm
themselves. There is no STOP state: a stopped CPU is in Interrupts.

*Refinement.* Timers has no table, no pending copy and no debt: each timer counts
down on its own while guest code runs, the earliest that is over is served, and
guest code goes on when none is left, or when the drain's limit is spent. The
mapping reads the armed timers from the table and what is left of each from
`due`. `QueueIsTimers` says that CycInt implements it in cycle mode; checked and
proved. In realtime mode it does not (see the first
[divergence](#divergences-between-the-code-and-its-documentation)).

### BlockCache: the translated-block cache

*State.* One blockinfo per code address: `status`, `hu` (`handler_to_use`),
`direct` (`direct_handler`), `xl` (what the checksum covers), `count`, `dep`, and
whether it is on the active list. Per cache line, `head` and `tag`. Per edge,
`linked`, `prefer` and `jmp`, the native jump itself. A code pointer is one of
the two stubs (`EN`, `CC`) or a record that says which block the code belongs
to, *what bytes it was made from* and whether it begins with a countdown.
`unseen` and `unflushed` are ghosts: locations written with no notification since
the last lazy flush, and since the guest's last cache instruction.

*Actions.* Stores and DMA (`InterpreterStore`, `NativeStore`, `ScsiDma`,
`MoDma`), cache control (`NativeCinv`, `TracedCinv`, `MmuTranslationChanged`),
control transfer (`Dispatch`, `FollowEdge`, `LeaveBlock`, over `Jump`), the
tracer (`check_for_cache_miss`, `BeginTrace`, `TraceNext`), `compile_block` split
where it calls the checksum walk (`CompileEntry` to `CompileReturn`), and the
recursive `block_check_checksum` with an explicit stack (`Check...`).

*Abstractions.* C code on the CPU thread is atomic with respect to guest stores,
so only the points where guest code runs, or a device may, admit a writer. RAM
and shadow are one variable, because they are written together. The checksum is
exact: the two 32-bit sums may collide, the model's comparison may not. The MMU
is off: a block is identified by its address alone. A location holds one value,
and a block is made from a fixed set of locations. The environment switches have
their default values, except the stable direct edges (`StableEdges`).

### Interrupts: delivery

*State.* `intStat`, `intMask`, `timerIpl7` of `sysReg.c`; `intmask` and
`spcflags` of the CPU; `lastintr`, one for each of the four places that keep a
static of that name; `at`, the control point; `edge`, a ghost: a boundary poll
has seen less than level 7 since level 7 was last taken.

*Actions.* `Device` moves lines where handlers run; `Access`, `SetSr`, `Stop`,
`Fault` are guest instructions; `EndDrain`, `InterpreterPoll`,
`InterpreterPollFaults`, `do_specialties`, `StopLoop` the interpreter loop;
`Generated`, `Charge`, `CheckTicks`, `Dispatcher` move control through the JIT;
`ChargeCyclesNoEvents`, `CpuCheckTicks`, `DispatchPoll` are its pollers, and
`SpecialtiesSkip`, `SpecialtiesTake`, `SpecialtiesFault` are
`m68k_do_specialties`, from the dispatcher and from `execute_normal`.

*Abstractions.* Trace flags, the debugger, BRK and `B2_JIT_IMMEDIATE_INTERRUPTS`
are left out. Stacking an exception either succeeds or faults; after a fault the
next thing executed is the access-error handler.

### MmuDispatch: finding blocks with the MMU on

With the MMU on a block is identified by its host address, its logical address,
the mode and a generation that every change of translation advances; a block on
one page is exempt from the generation, and a block that is found is given the
current one. But the lines (`cache_tags`) and the entry of native code compare
the host address alone. The module asks what that adds up to.

*State.* `table` and `avail`: what the guest's tables hold for a location (mode
and page), and what the MMU may answer for it, from its cache or from the
tables; `generation`; `blk`, the blockinfos in use, each with its identity, its
status and the pages its code was fetched from (`segs`); `head` and `tag`, per
line; the place of the CPU thread (`at`, `loc`, `pcp`) and of its trace.

*Actions.* `BridgeEnter` (translate, promote, enter), `EnterNormal`,
`EnterNative`, `EnterMiss`, `EnterCheck` (the four handlers a line may hold),
`Interrupt`, `LeaveLoop`, `ExecuteNormal`, the tracer (`TraceStep`, `TraceSetSr`,
`TraceFlushCache`, `TraceMmuOp`, `TraceFault`, `TraceEnd`), native code
(`NativeEnd` with the fast dispatcher, `NativeNothing`, `NativeFault`,
`NativeFlush`), and what changes beneath them (`GuestStore`,
`BlockNeedRecompile`).

*Abstractions.* One block may start on each page; what blocks contain is
BlockCache's subject, so whether checksums agree is left open. The opt-in
switches for revalidation and fast dispatch are open choices, not constants: a
behaviour may take either way at each step. A bus error is a jump to the
bridge's frame, which goes on in a handler; the registers it restores are not
modelled. The switch of the MMU on and off, ROM blocks, countdowns, the
zero-opcode path, trace traps (`trace_one_successor`) and the placeholder blocks
of successors are left out.

*Two assumptions.* `Careful`: no instruction takes away, in a trace, a page that
the trace ran on (Mach changes mappings from code that stays mapped). `NoAlias`
(in the proofs, and in the instance): no frame ever belongs to two logical
locations. Without either one `NoSkippedFault` fails; see
[divergences](#divergences-between-the-code-and-its-documentation).

### Dma, DmaLoop, Esp and Scsi: a SCSI transfer; Pipe: what a channel promises

*State.* Dma's channel is a record: CSR bits, the four address registers, the
bytes of the burst buffer that have not left it and how far it is filled. Esp
holds the controller (two-deep command register, interrupt and its causes,
state, counters, both timers) and the target (phase, operation, position,
overlay). Scsi composes them with guest memory, the interrupt line and the
translator; its history variables are what entered and left the burst buffer,
which written addresses the translator was not told of, and what the guest was
told the disk holds.

*Actions.* The guest's register writes (`ResetChannel`, `StartSingle`,
`StartAligned`, `StartChained`, `ContinueChaining`, `EndChaining`,
`ESP_Command_Write`, `ESP_IntStatus_Read`, `ControlReset`,
`dma_esp_flush_buffer`), and the two timer handlers (`ESP_IO_Handler`,
`ESP_InterruptHandler`). `esp_start_command` and what it calls are operators on
records, so that a step is the whole handler.

*Abstractions.* What one call of `dma_esp_write_memory` or `dma_esp_read_memory`
moves is a closed form. DmaLoop has the loops themselves, as steps of one byte or
one long word on a record of the burst buffer; `MCScsi` runs them to their end and
`LoopsAgree` compares the two in every state, for every supply and every point
where memory fails, and DmaLoopProofs proves the same of every call. A bus error may come at any word. The guest sets a channel's registers in one step
with the CSR write that makes the channel use them. A transfer in the direction
opposite to the channel's is excluded (`Matched`): the code only logs it. FIFO
contents, sense data, mode pages, a second target, eject and insert are left out.

*Refinement.* Pipe says that bytes leave in the order they entered, none lost or
doubled, with at most one burst inside, until a flush tears it. `ChannelIsPipe`
says that Scsi implements Pipe; it is checked and proved.

### Enet: Ethernet with its host thread; Link: what it promises

*State.* The controller (ports, modes, `busy`, `receiver_state`, the receive
buffer), both DMA channels as sequences of the guest's buffers, the packet queue,
its mutex, and two threads: where the CPU thread is inside `enet_slirp_stop`, and
where the tick thread is in its loop.

*Actions.* `Tick` (the steps of the thread between lock, select, output and
sleep), `Stopping` (destroy queue, destroy mutex, join, in the code's order),
`ENET_IO_Handler` (receiver and transmitter of both chips), the guest's register
writes, and the user's: connection, cable, machine reset.

*Abstractions.* A packet is its number and whom it is for. The CPU thread holds
the mutex only inside a step. The fill phase of the thread, which outputs
nothing, is one step. SLiRP answers a transmission with nothing in particular:
packets arrive when they arrive. Using a destroyed mutex either works or hangs.
Interrupt status and masks, and the marks that tell the guest where a packet
ended, are left out.

*Refinement.* Link is a lossy link: a subsequence of what was sent, in order,
each packet once. `LinkIsLossy` says that Enet implements it; checked and proved.

### How the modules meet

Dma, Esp and Scsi are composed by EXTENDS; Timers, Pipe and Link are instantiated.
DmaLoop is what Dma abstracts, and meets it in the proofs: Scsi's reachable calls
satisfy what the loop theorems ask for (`CallsFitLoops`). The others share no variable: each one's environment is the others' behaviour, and
the assumption each makes is discharged elsewhere. CycInt assumes that the CPU
thread retires cycles again and again; for the JIT that is `Progress` of
BlockCache and, with the MMU on, `DispatchDescends` of MmuDispatch. Interrupts
lets lines move wherever a handler may run; those places are the drains of
CycInt. Scsi and Enet assume that an armed timer fires, which is CycInt's
`Served`. BlockCache lets SCSI DMA write, announced, where a handler may run; that
it is announced is `ReportedUnlessFault` of Scsi. BlockCache and MmuDispatch
divide the translator: contents and chaining with the MMU off, identity with
the MMU on (where constant edges leave through the dispatcher).

## Runs

| Run | Checks | Shows |
|---|---|---|
| `cycint_jit` | `TypeOK`, `NeverEarly`, `NoneOverlooked`, `AcknowledgesItself`, `Served`, `QueueIsTimers` | the queue under the JIT, cycle mode: deadlines are exact although only one copy is decremented and the drain gives up after its limit, no timer starves, and the queue implements Timers |
| `cycint_realtime` | `NoneOverlooked`, `AcknowledgesItself` | the queue under the interpreter with host-clock and cycle timers together, and with resets |
| `blockcache_smc` | `TypeOK`, `NoStaleCode`, `PageBitsCover` | overlapping blocks on two pages in one cache line, rewritten by guest stores and by silent optical DMA at every point: the page bits always lead a store to the blocks it hits, and staleness is confined to what the silent writer wrote |
| `blockcache_progress` | `NoStaleCode`, `NoDanglingJump`, `Progress`, `EngineDescends` | ROM and RAM in one line, stable direct edges, countdowns, zero opcodes, all kinds of store and SCSI DMA: no jump into discarded code, and no dispatch, checksum or recompile livelock, because each of the engine's steps lowers a rank |
| `interrupts_interp` | `TypeOK`, `PromptDelivery`, `StopWaits`, `NmiTaken`, `Delivered` | the interpreter's delivery with three lines, STOP, SR loads and faults, also while stacking |
| `interrupts_jit` | `PromptDelivery`, `Delivered` | the JIT's delivery, from four pollers and a flag word |
| `mmu_dispatch` | `TypeOK`, `NoSkippedFault`, `DispatchDescends` | pages unmapped and remapped around the blocks made from them, PFLUSH traced and native, interrupts, faults, full code cache: no block runs over a page that is gone, and the dispatcher never circles (1.04 million states) |
| `scsi_channel` | `TypeOK`, `Conserved`, `WithinBuffer`, `ReportedUnlessFault`, `LoopsAgree`, `ChannelIsPipe` | aligned, unaligned and chained buffers, counts that stop inside a burst, flushes, a bus error at any word (484 thousand states) |
| `scsi_commands` | `NeverWedged`, `CommandsEnd` | every command at any moment, over commands in progress, waiting and unacknowledged (363 thousand states) |
| `enet_link` | `TypeOK`, `PollSafe`, `WaitsForNetwork`, `LinkIsLossy`, `StopDescends` | both controllers against the thread, with resets, reconnections, packets that do not fit, a full queue, and stops that end (1.09 million states) |
| `enet_live` | `Drained`, `StopReturns` | the receiver goes on, and stopping SLiRP returns (40 thousand states) |
| `enet_stop` | `QueueAlive`, *violated* | the queue and the mutex are destroyed while the thread uses them |

Every property of a passing run has a mutant in `PROJECT.json`: a named variant
of one definition (marked *Fault* or *Seeded fault* in the module) that is a plausible bug, under
which TLC finds the property violated.

## Bounds and why they are enough

*CycInt.* One device timer beside the two periodic ones (two in the realtime
run, so that devices compete), delays of 1 and 3 cycles against retirements of 1
or 2: deadlines that coincide, that are passed by one, and that lie between two
others all occur. `DrainLimit` is 1 instead of 32, so that the drain gives up
with work left. `MaxOver` bounds the cycles owed: in cycle mode the
display timer settles them long before 50, so the bound never cuts a behaviour;
in realtime mode they grow without end and the bound is real, which is why no
liveness is checked there. `MaxLate` bounds how many charges follow each other
with no drain once a deadline has passed.

*BlockCache.* Two code locations are the smallest world with a predecessor, a
successor, a self-loop, a cycle of two, a shared line and a shared page.
Contents are two values, one of them the zero opcode in `blockcache_progress`.
`blockcache_smc` is checked under a view that leaves out the ghost `unflushed`,
which no action and none of its properties reads. One
constant successor per block in TLC; two are covered by the proofs, which take
any number of locations and `MaxSuccs` up to 2.

*Interrupts.* The pollers see the lines only through the level, and act on its
order relative to the mask and to the level seen last. The JIT run has the timer
alone, which produces levels 0, 6 and 7 against masks 0, 6 and 7; the
interpreter run has three lines at 5, 6 and 7 against masks 0, 5 and 7. Below,
equal and above, rise and fall of level 7, and a level that falls from one line
to the next are all there.

*MmuDispatch.* Two pages in two modes, and two blocks that share one line: the
one that is meant and the one that is in the way. One page stays, one comes and
goes, one belongs to the user mode. Two generations (`MaxGen`) are one change of
translation, before which blocks are made and after which they are met; the
proofs take any number. Blocks are interchangeable, so the run uses symmetry
over `Ids`; no property of it is a liveness property.

*Scsi.* Bursts of two words of two bytes, sectors of one burst: buffers that
begin inside a burst and end on one, replies of 7 bytes that end in neither,
counts that stop short. One selection and two buffers handed over are enough for
a transfer that goes on in a chained or in a later buffer. `scsi_commands` has
one buffer and every command, at any time.

*Enet.* A queue of one is full when it is not empty; a receive buffer holds half a
packet, so that two chained ones hold it and one does not (the proofs take any
sizes); two packets tell order and duplication. Two resets or changes of
configuration are a stop and a restart, with a thread of each.

In the other modules no symmetry is used: addresses and timers are compared or
have roles. Deadlock is checked except in Scsi and Enet, where the bounds on
what the guest and the network do end every behaviour.

## Fairness

The CPU thread never waits for anything in these parts, so weak fairness is
assumed of its C code. Nothing is assumed of drivers, devices, guests or the
clock. Beyond that:

- *CycInt.* `SF(Retire)`: the guest retires cycles again and again. For the
  interpreter every step does; for the JIT it is BlockCache's `Progress`.
  `WF(Poll)`: the interpreter drains after every instruction, the dispatcher
  polls the wall clock every 256 dispatches.
- *BlockCache.* `WF(Engine)` only: dispatch, lookup, compile and check run on.
  Guest steps are not fair, so `Progress` says that control *reaches* a guest
  instruction whatever the guest does. The rest of `Progress` needs no fairness:
  `EngineDescends`, which is proved, says that a thread that keeps going gets
  there in at most `Rank` steps of its own.
- *Interrupts.* `SF` of an instruction that completes: the guest does not fault
  for ever. `SF` of the return to the dispatcher and of a charge: the dispatch
  budget (`countdown`) is spent by every block, and blocks retire cycles. `SF`
  of `InterpreterPoll` and `SpecialtiesTake`: stacking an exception does not
  fault for ever.

- *Scsi.* `WF` of each armed timer's handler: CycInt's `Served`.
- *Enet.* `WF(Tick)` and `WF(Stopping)`: the host schedules both threads.
  `SF(ENET_IO_Handler)`: the timer is armed again and again, but the handler needs
  the mutex; the tick thread sleeps 10 ms outside it on each round.
- *MmuDispatch.* None: `DispatchDescends` bounds the dispatcher by a rank that
  each of its steps lowers, so it needs no fairness. It asks that the MMU does
  not answer with different frames from one step to the next (`Settled`).

`Served` and `Delivered` exempt what the code cannot rule out: a driver that
keeps postponing its own timer, endless resets, a CPU that the guest stopped.
`CommandsEnd` exempts a transfer for which the guest never enables the channel,
`Drained` a machine reset within a reception, `StopReturns` a thread that met the
destroyed mutex.

## Proofs

Eight modules hold lemmas and theorems; each extends its component and is checked with
Z3, Zenon and, for the temporal step, LS4. The assumptions are the `ASSUME`s of
the components: shapes of the constants (levels are 1 to 7 and the timer's is 6,
a block does not mix ROM and RAM, delays fit in 64 bits) and nothing about sizes.

**CycIntProofs.** In every mode, for both engines: `TypeCorrect` (`TypeOK`),
`OverlooksNone` (`NoneOverlooked`) and `Acknowledges` (`AcknowledgesItself`). In
cycle mode: `CycleModeExact` (`NeverEarly`) and the refinement `ImplementsTimers`
(`QueueIsTimers`). None of these is inductive alone, and there are two invariants.
`CycleInv` says that for an armed timer the table's time less the cycles owed
*equals* its history deadline; that the pending copy equals that difference for
the active timer and is the least of all; and that a periodic timer not in its
handler is armed, so that a timer is always active and no debt survives an
addition. That last part fails in realtime mode, where a timer added while none
is active does not settle the debt. What is left there is `QueueNotLate`: the
table and the copy may run *ahead* of the deadlines but never behind them, and
the copy is that of the active timer, which is armed. An early copy overlooks
nothing, so the two properties need no more. For the refinement, each action maps
to one of Timers: the copy that is served is, by `CycleInv`, the earliest
deadline.

**BlockCacheProofs.** `NeverStale` (`NoStaleCode`), `JumpsCurrent`
(`NoDanglingJump`), `PagesCovered` (`PageBitsCover`), `BlockCacheTypes`
(`TypeOK`), for any set of locations, layout of lines and pages, set of writers
and edge policy. The inductive invariant (`Inductive`) is `TypeOK`, `ThreadOK`
and `CacheOK`. `CacheOK` says that every native pointer, in a tag, a handler or
a jump, *is* the `direct_handler` of its block, or code whose countdown is
spent; that a block that may run has a `direct_handler` made from exactly the
bytes the checksum covers, current except where unseen; that a block in any
other state is not reached by a native pointer that runs; that every jump is
recorded on its target's deplist; and that page bits cover. `ThreadOK` says what
is true in the middle of `compile_block` and of the checksum walk, where blocks
are in states the rest of the program never sees. One lemma per kind of change
of the cache (`CacheWritten`, `CacheFlushedLazy`, `CacheStarted`, `CacheLinked`,
`CacheEnded`, `CacheValidated`, ...) is used by one lemma per action.

`EngineProgress` (`EngineDescends`) is the safety half of `Progress`: outside
the tracer and native code every step of the engine lowers `Rank`, a natural
number, and no device raises it. `Rank` is 16 for each block in `NEED_CHECK`,
plus a number for the point the thread has reached: at the dispatcher, whether
the block is its line's primary one and whether the line asks for validation; in
`compile_block`, the successor slots left; in the checksum walk, the height of
the stack and what is left of its top frame. Validating a block pushes a frame
(8 and at most 4) and takes the block out of `NEED_CHECK` for good (16), which is
why the walk ends on cyclic graphs. It needs a second invariant, `Guided`: a
handler asks for validation only in a block that is to be validated
(`HandlerOK`); a line's tag is its primary block's handler unless that block is
being compiled or checked (`HeadOK`); and the walk that `check_checksum` starts
ends with the block it was started for primary and decided (`RootOK`). With the
last two a block that was validated, raised or marked for recompilation is not
handed back by the next look at the tag.

**InterruptsProofs.** `DeliveryIsPrompt` (`PromptDelivery`) for both engines,
`InterruptTypes` (`TypeOK`), and `InterpreterExact`: under the interpreter,
`StopWaits` and `NmiTaken` (`StoppedWaits` states the first alone). The strengthening says what holds between a poll and
the point it protects: after the dispatcher's poll a deliverable interrupt is
announced in the flags (`Announced`), after the interpreter's poll a risen level
7 was taken (`EdgeTaken`), and guest code at an instruction boundary is not
stopped (`InsnRuns`).

**MmuDispatchProofs.** For any pages, frames, layout of lines and number of blocks
and generations: `TypeCorrect` (`TypeOK`), with no further assumption, and,
assuming `NoAlias` and `Careful`, `NoFaultSkipped` (`NoSkippedFault`) and
`DispatchProgress` (`DispatchDescends`). Both need both: TLC
refutes each property when either assumption is dropped. (For `DispatchDescends`
without `Careful` the instance gives one location two frames: a running block
then returns to the loop with a frame the MMU no longer answers with.)
The invariant `Inv` says that every block has an entry whose frame its location
may have, and was traced in one mode; that a block of the current generation has
only frames the MMU still answers with; that an ACTIVE block *is* of the current
generation, which is what the flush at each change is for; that a line enters
its first block, if it is ACTIVE, or has it checked; and that a trace's frames
are current. `NoAlias` then makes the host address stand for the mode and the
logical address that the entry of native code does not compare. For the
dispatcher, the same facts about lines show that each step lowers `Distance`.

**DmaProofs, DmaLoopProofs.** DmaProofs has what one call of a transfer function
moves and leaves, from the arithmetic of bursts. DmaLoopProofs takes the loops as
state machines whose one variable is the loop's record. `WriteLoopMoves` and
`ReadLoopMoves`: when the loop has been left, it has taken, written and kept in
the burst buffer just the bytes that the closed form of Dma says, and has met a
bus error just when it says (`WriteAgrees`, `ReadAgrees`). `WriteLoopEnds` and
`ReadLoopEnds`: every step lowers a natural number (`Effort`: the bytes ahead, and
the place in the loop), so each call ends. The invariant `LoopOK` counts: at each
place of the loop, what was read less what was written is what the buffer holds,
a new burst begins at a multiple of its size, and the bytes in the buffer are
those of the pending ones followed by the source, in order and with none left
out. The theorems hold for every size of word and burst, any buffer contents, any
supply and any point where memory fails, from hypotheses on the call (`Writes`,
`Reads`) that `CallsFitLoops` of ScsiProofs shows of every call the modelled
controller makes.

**ScsiProofs.** `TypeCorrect`, `BytesConserved`, `NeverPastLimit`,
`TranslatorTold`, `ControllerLives`, `CallsFitLoops` and `ImplementsPipe`, for every
size of word, burst and sector and any buffers, commands and counts. The invariant
relates fill, pending bytes and debt of the burst buffer, keeps `next` and the
chained buffer inside what the guest gave, and says for each command in progress
which timer or interrupt it waits for.

**EnetProofs.** For any queue, packet and buffer sizes and any guest: `TypeCorrect`,
and `StopEnds` (`StopDescends`), the safety half of `StopReturns`. The invariant is
the types and that SLiRP is not started inside `enet_slirp_stop`; from the
moment the flag is cleared each step of either thread lowers a rank of at most
eight. That the step comes, which a thread hung on the destroyed mutex denies, is
left to `StopReturns`. Assuming `Careful`: `NeverIntoReception` (`WaitsForNetwork`),
`PollFindsQueue` (`PollSafe`) and `ImplementsLink` (`LinkIsLossy`); without it TLC
refutes the three. Their invariant: a packet being received holds the network busy and has a whole packet's worth written or left;
the last number received, the one in the buffer and those in the queue increase
and are at most what was offered; a running, connected controller has SLiRP
started, and SLiRP started has its queue and mutex.

*Only model-checked:* the liveness properties `Served`, `Progress`, `Delivered`,
`CommandsEnd`, `Drained` and `StopReturns`, because liveness under fairness is
outside the prover; and `LoopsAgree` as it stands, because it runs the loops with
recursive operators. The loop theorems state the same agreement of the loops as
state machines.

## Divergences between the code and its documentation

`enet_stop` is a run: `queue.h:65` says that a destroyed queue may not be used
again; `enet_slirp_stop` destroys the queue and the mutex before it waits for the
thread that uses them, and TLC finds both the lock of the destroyed mutex and
the packet entered into the destroyed queue.

The others are properties that stay in their modules and that TLC refutes under
the configuration given here; they are not among the runs.

1. `cycInt.c:232` "Add interrupt to occur from now": in realtime mode, with no
   cycle timer active, the debt is not settled and the new timer fires early.
   `NeverEarly` with `MCCycInt_realtime.cfg`, `Ids <- MCIds`, `PeriodUs = 2`,
   `CycleCounts <- MCCycleCounts`, `UsCheckPeriod = 2`, `MaxOver = 5`.
2. `mmu_common.h:132`, `phys_put_*` is the single sink of guest stores, JIT
   included: native stores with the MMU off go to the memory bank.
   `WritesInvalidate` with `MCBlockCache_progress.cfg`, `SPECIFICATION Spec`,
   `Rom <- MCNone`, `Val <- MCVal`, `LineOf <- MCApart`, `Writers <- MCJit`,
   `StableEdges = FALSE`.
3. `dma.c:31`, DMA that loads code notifies the JIT: the optical path
   (`dma.c:618`) does not. And `compemu_support_arm.cpp:6935`, CINV and CPUSH have
   one contract: interpreted by the tracer they call an empty macro
   (`newcpu.h:839`). `CinvInvalidates` with the configuration of 2 and
   `Writers <- MCMo`.
4. `newcpu.c:2088`, `do_specialties` leaves STOP when an interrupt comes: its
   loop never looks at the level. `StopWakes` with `MCInterrupts_interp.cfg`.
5. `docs/uae2026-jit-correctness-contract.md:148`, the JIT preserves the
   interpreter's interrupt progression: it runs past STOP (`StopWaits`), and a
   poller with its own `lastintr` can drop level 7 (`NmiTaken`).
   `MCInterrupts_jit.cfg` with `SPECIFICATION Spec` and that invariant.
6. `docs/uae2026-jit-mmu-implementation-20260720.md:68-77`, native code is entered
   only under the full key: from the loop a line is entered by its host address
   alone. Where user and supervisor mode both map a frame, a block of one mode
   runs in the other. `NoSkippedFault` with an `MCMay` that also gives
   `<<"user", p>>` the frame `f`.
7. `uae2026_jit_bridge.cpp:492-494`, the generation keeps a page "unmapped for
   demand paging" from being "re-entered through its old block": a PFLUSH inside
   the trace gives the block the new generation with the pages of the old one. `NoSkippedFault` with
   `Careful = FALSE`.
8. `esp.c`, `esp_transfer_done` "is called as part of transfer info or transfer
   pad": a reset leaves the transfer timer armed for the next command.
   `TransferOwned` with `MCScsi_commands.cfg` and `SPECIFICATION Spec`.
9. `scsi.c:802-816`: the first sector written allocates the overlay and is not
   stored in it. `ReadsBack` with the same configuration and `UseOverlay = TRUE`.
10. `reset.c:35` and `:59`, a reset resets the devices: `Ethernet_Reset` leaves
    `receiver_state`, so a reset within a reception ends all reception.
    `ResetReceives` with `MCEnet_live.cfg`.
11. A guest that resets the chip and is disconnected before it has stopped makes
    the CPU thread poll a destroyed queue: `PollSafe` with `MCEnet_link.cfg` and
    `Careful = FALSE`.

## What is left out

- *Instruction semantics*, code generation, register allocation, the FPU, the
  DSP and i860 cores: data of wide words, not control.
- *The bridge's transactions* with the MMU on: what a bus error restores.
  MmuDispatch has the control flow of the fault, not the registers.
- *Other devices*: optical and floppy drives, sound, the real-time clock,
  keyboard, serial port, NeXTdimension and the DSP's host port. In CycInt they
  are the nondeterministic drivers, in Interrupts the lines, in BlockCache the
  writers. Of `dma.c`, the channels other than SCSI and Ethernet.
- *Inside the modelled devices*: see the abstractions of each module.
- *Third-party and generated code*: SLiRP, softfloat, generated opcode handlers,
  and the x86 translator in `cpu/jit`, which the build does not enable.
- *GUI, debugger, file formats, probes and trace switches.*

## Plan

Each item is a component module, an MC module and, where an invariant is worth
it, a proof module.

1. **Bridge** (`uae2026_jit_bridge.cpp`): helper phases, MMU transactions and
   their rollback, the flag copies. Abstract specification: an instruction
   either retires or leaves the state it started from. Run: one instruction with
   two accesses, a fault at either, nested once.
2. **Clock** (`host.c`, `sysReg.c`, `rtcnvram.c`): real and virtual time across
   switches and pauses; the hardclock CSR against the timer across resets; the
   serial clock, whose seconds may change between two of its bytes. To prove:
   time never runs backwards. With CycInt and Interrupts composed, a timer's way
   from arming to the guest's handler.
3. **MO, floppy** over Dma's channel, with the ECC pipeline and two drives behind
   one formatter; **sound**, whose ring is shared with the host's callback; the
   **NeXTdimension** message queue between two threads.

Of the proofs, none is left that the modules and the prover allow.

The runs stay few: one passing run per question, so a new component's safety and
liveness share one where the instance allows it, and a refuted property becomes
a run only where a document or a comment says otherwise in so many words.

An abstract interrupt contract (a level above the mask is taken before the next
guest instruction that the engine *starts*), which the interpreter implements
step by step and the JIT at its dispatch boundaries, is worth stating as a
specification of its own once the registers are in.
