---------------------------------- MODULE Scsi ---------------------------------
(***************************************************************************)
(* A SCSI transfer: the guest's driver, the controller (Esp), the DMA       *)
(* channel (Dma), guest memory and the translator that must hear of every   *)
(* change to it.  Everything runs on the CPU thread; the interleaving is of *)
(* the guest's register accesses with the two timers of the controller.     *)
(***************************************************************************)
EXTENDS Esp

CONSTANTS
  Top,           \* guest memory is 0..Top-1
  Buffers,       \* <<first, limit>> pairs the guest programs
  Blocks,        \* the command blocks the guest sends
  Counts,        \* the transfer counts it writes
  GuestCommands, \* the commands it writes
  BusErrors,     \* guest memory may answer with a bus error
  MaxSelections, \* bound on the selections the guest makes
  MaxStarts      \* bound on the buffers it hands to the channel

ASSUME ScsiAssumption ==
  /\ Top \in Nat
  /\ \A b \in Buffers : /\ b[1] \in 0..Top /\ b[2] \in 0..Top /\ b[1] <= b[2]
                        /\ b[1] % Word = 0 /\ b[2] % Burst = 0
  /\ Blocks \subseteq Requests /\ Blocks # {}
  /\ \A r \in Blocks : r.op = "reply" => r.count > 0
  /\ Counts \subseteq Nat
  /\ GuestCommands \subseteq Commands
  /\ BusErrors \in BOOLEAN
  /\ MaxSelections \in Nat /\ MaxStarts \in Nat

VARIABLES
  ch,         \* the DMA channel
  esp,        \* the controller
  dev,        \* the bus and the target
  disk,       \* the image, as the target reads it
  dmaLine,    \* INT_SCSI_DMA
  selections, starts,
  \* history: what entered and left the burst buffer since it was initialised,
  \* whether a flush padded it, the addresses written of which
  \* Uae2026JitNotifyDeviceMemoryWrite was not told, and the image as the
  \* guest was told that it is
  inb, outb, torn, unreported, told

vars == <<ch, esp, dev, disk, dmaLine, selections, starts, inb, outb, torn,
          unreported, told>>
history == <<inb, outb, torn>>

Init ==
  /\ ch = ChannelReset
  /\ esp = EspReset
  /\ dev = DevReset
  /\ disk = [p \in 0..(DiskBytes - 1) |-> p]
  /\ dmaLine = FALSE
  /\ selections = 0 /\ starts = 0
  /\ inb = <<>> /\ outb = <<>> /\ torn = FALSE
  /\ unreported = {}
  /\ told = disk

Machine == [esp |-> esp, dev |-> dev, disk |-> disk, told |-> told]

Becomes(s) == esp' = s.esp /\ dev' = s.dev /\ disk' = s.disk /\ told' = s.told

(***************************************************************************)
(* The guest programs the channel.  A register of the channel matters only  *)
(* when the CSR bit that makes the channel use it is written, so the        *)
(* register writes are one step with the write of the CSR: a buffer and     *)
(* the enable bit, a chained buffer and the update bit.  The guest programs *)
(* a buffer while the channel is off, a chained one while none is set, and  *)
(* changes the direction with the burst buffer empty.                       *)
(***************************************************************************)
EmptyPipe == inb' = <<>> /\ outb' = <<>> /\ torn' = FALSE

Direction == IF ch.dev2m THEN {"DEV2M"} ELSE {}

CsrWrite(c, cmd) ==
  /\ ch' = DMA_CSR_Write(c, cmd)
  /\ dmaLine' = FALSE
  /\ UNCHANGED <<esp, dev, disk, selections, unreported, told>>

(* DMA reset and initialize buffers *)
ResetChannel(direction) ==
  /\ CsrWrite(ch, {"RESET", "INITBUF"} \cup direction)
  /\ EmptyPipe /\ UNCHANGED starts

(* The channel with its registers set; DMA_Init_Write also empties the      *)
(* burst buffer, which then begins at the offset of the address.            *)
DMA_Next_Limit_Write(b) == [ch EXCEPT !.next = b[1], !.limit = b[2]]

DMA_Init_Write(b) ==
  [dma_initialize_buffer(ch, b[1] % Burst) EXCEPT !.next = b[1], !.limit = b[2]]

DMA_Start_Stop_Write(c, b) == [c EXCEPT !.start = b[1], !.stop = b[2]]

HandsOver == starts < MaxStarts /\ starts' = starts + 1

(* DMA start single transfer *)
StartSingle(b) ==
  /\ ~ch.enable /\ HandsOver
  /\ CsrWrite(DMA_Next_Limit_Write(b), {"SETENABLE"} \cup Direction)
  /\ UNCHANGED history

StartAligned(b) ==
  /\ ~ch.enable /\ HandsOver
  /\ CsrWrite(DMA_Init_Write(b), {"SETENABLE"} \cup Direction)
  /\ EmptyPipe

(* DMA start chaining *)
StartChained(b, then) ==
  /\ ~ch.enable /\ HandsOver
  /\ CsrWrite(DMA_Start_Stop_Write(DMA_Next_Limit_Write(b), then),
              {"SETENABLE", "SETSUPDATE", "CLRCOMPLETE"} \cup Direction)
  /\ UNCHANGED history

(* DMA continue chaining *)
ContinueChaining(then) ==
  /\ ch.enable /\ ~ch.supdate /\ HandsOver
  /\ CsrWrite(DMA_Start_Stop_Write(ch, then),
              {"SETSUPDATE", "CLRCOMPLETE"} \cup Direction)
  /\ UNCHANGED history

(* DMA end chaining *)
EndChaining ==
  /\ ch.complete
  /\ CsrWrite(ch, {"CLRCOMPLETE"} \cup Direction)
  /\ UNCHANGED starts /\ UNCHANGED history

(***************************************************************************)
(* The guest programs the controller.                                       *)
(***************************************************************************)
(* The count is read when a DMA command starts: it is written with the command *)
ESP_TransCount_Write(c, n) == IF c \in {"TID", "PADD"} THEN n ELSE esp.count

(* The command that the writing of c starts, "NOP" for none *)
Starting(c) ==
  IF TopAfter(esp, c) \in {"RESET", "BUSRESET"} \/ ~esp.inprog
  THEN TopAfter(esp, c) ELSE "NOP"

ESP_Command_Write(c, n, r) ==
  /\ ~Aborts(Machine, Starting(c))
  /\ c = "SEL" => selections < MaxSelections
  /\ selections' = IF c = "SEL" THEN selections + 1 ELSE selections
  /\ Becomes(esp_command_write(
       [Machine EXCEPT !.esp = [esp EXCEPT !.count = ESP_TransCount_Write(c, n)]], c, r))
  /\ UNCHANGED <<ch, dmaLine, starts, unreported>>
  /\ UNCHANGED history

ESP_IntStatus_Read(r) ==
  /\ esp.int
  /\ esp.waiting => ~Aborts(Machine, esp.c1)
  /\ Becomes(esp_lower_irq([Machine EXCEPT !.esp = [esp EXCEPT !.causes = {}]], r))
  /\ UNCHANGED <<ch, dmaLine, selections, starts, unreported>>
  /\ UNCHANGED history

(* The reset bit of ESP_DMA_CTRL_Write *)
ControlReset(r) ==
  /\ "RESET" \in GuestCommands
  /\ Becomes(esp_finish_command([Machine EXCEPT !.esp = esp_reset_hard(esp)], r))
  /\ UNCHANGED <<ch, dmaLine, selections, starts, unreported>>
  /\ UNCHANGED history

(***************************************************************************)
(* Transfers.  reach is how far guest memory answers: to the limit, or up   *)
(* to a bus error before it.                                                *)
(***************************************************************************)
Reaches ==
  IF BusErrors THEN {n \in 0..(ch.limit - ch.next) : n % Word = 0}
  ELSE {ch.limit - ch.next}

Faulty(reach) == ch.next + reach < ch.limit

Written(bytes) == ch.next..(ch.next + Len(bytes) - 1)

(* The bytes of guest memory from an address on; those of different         *)
(* addresses are told apart, and from those of the image.                   *)
MemoryFrom(a, n) == [i \in 1..n |-> DiskBytes + a + i - 1]

(* Ends a transfer: c is the channel when its loop is left *)
EndTransfer(c) ==
  /\ ch' = dma_interrupt(c)
  /\ dmaLine' = (dmaLine \/ RaisesInterrupt(c))

(* dma_esp_write_memory; the device gives at most supply bytes.  The        *)
(* translator is told at the end, unless a bus error skips it.              *)
dma_esp_write_memory(supply, reach) ==
  LET n == BytesIn(ch, supply, reach)
      m == BytesOut(ch, supply, reach)
      bytes == DataFrom(Machine, n)
      out == Leaving(ch, bytes, m)
      fault == Overruns(ch, supply, reach) /\ Faulty(reach)
      moved == [Buffered(ch, bytes, m, FillAfter(ch, supply, reach))
                  EXCEPT !.next = ch.next + m]
  IN /\ EndTransfer(IF fault THEN BusError(moved) ELSE moved)
     /\ unreported' = IF fault THEN unreported \cup Written(out)
                      ELSE unreported \ Written(out)
     /\ inb' = inb \o bytes /\ outb' = outb \o out /\ UNCHANGED torn

(* dma_esp_read_memory; the device takes at most room bytes.  The loop is   *)
(* not entered when the buffer is at its limit.                             *)
dma_esp_read_memory(room, reach) ==
  LET supply == IF ch.next < ch.limit THEN reach ELSE 0
      space == IF ch.next < ch.limit THEN room ELSE 0
      n == IF ch.next < ch.limit THEN BytesIn(ch, supply, space) ELSE 0
      m == IF ch.next < ch.limit THEN BytesOut(ch, supply, space) ELSE 0
      fill == IF ch.next < ch.limit THEN FillAfter(ch, supply, space) ELSE ch.fill
      bytes == MemoryFrom(ch.next, n)
      fault == ~Overruns(ch, supply, space) /\ Faulty(supply)
      moved == [Buffered(ch, bytes, m, fill) EXCEPT !.next = ch.next + n]
  IN /\ EndTransfer(IF fault THEN BusError(moved) ELSE moved)
     /\ disk' = scsi_write_sector(disk, dev, Leaving(ch, bytes, m))
     /\ told' = AsTold(told, dev, Leaving(ch, bytes, m))
     /\ dev' = SCSIdisk_Receive_Data(dev, Leaving(ch, bytes, m))
     /\ inb' = inb \o bytes /\ outb' = outb \o Leaving(ch, bytes, m) /\ UNCHANGED torn

(* The guest has set the direction of the command it sends: with the wrong  *)
(* one the loops would run over the ends of the burst buffer.               *)
Matched == ch.enable => (ch.dev2m <=> dev.phase = "DI")

(* What the device can still move for this command *)
\* Fault: esp_counter is not compared in the filling loop.
Demand_all == dev.left
Demand == Smaller(esp.counter, dev.left)

(* The controller after n bytes, when the transfer is done and when it is not *)
IoAfter(e, phase, expected) ==
  LET done == TransferDone(e, phase, expected)
  IN [esp_transfer_done(e, phase, expected) EXCEPT
        !.io = IF done /\ expected = "DI" THEN "FLUSHING" ELSE e.io,
        !.ioT = ~(done /\ expected = "DO")]

TransferIn(reach) ==
  /\ esp.ioT /\ esp.io = "TRANSFERING" /\ dev.phase = "DI" /\ Matched
  /\ IF ch.enable
     THEN LET n == BytesIn(ch, Demand, reach)
              d == SCSIdisk_Send_Data(dev, n)
          IN /\ dma_esp_write_memory(Demand, reach)
             /\ dev' = d
             /\ esp' = IoAfter([esp EXCEPT !.counter = esp.counter - n], d.phase, "DI")
     ELSE /\ UNCHANGED <<ch, dmaLine, unreported, dev>> /\ UNCHANGED history
          /\ esp' = IoAfter(esp, dev.phase, "DI")
  /\ UNCHANGED <<disk, told, selections, starts>>

(* The device takes what leaves the buffer; nothing leaves it when the loop *)
(* is not entered.                                                          *)
TakenByDevice(reach) ==
  IF ch.enable /\ ch.next < ch.limit THEN BytesOut(ch, reach, Demand) ELSE 0

TransferOut(reach) ==
  /\ esp.ioT /\ esp.io = "TRANSFERING" /\ dev.phase = "DO" /\ Matched
  /\ IF ch.enable
     THEN dma_esp_read_memory(Demand, reach)
     ELSE UNCHANGED <<ch, dmaLine, disk, told, dev>> /\ UNCHANGED history
  /\ esp' = IoAfter([esp EXCEPT !.counter = esp.counter - TakenByDevice(reach)],
                    dev'.phase, "DO")
  /\ UNCHANGED <<unreported, selections, starts>>

(* Once more after the end, for a burst that had no room *)
TransferFlush(reach) ==
  /\ esp.ioT /\ esp.io = "FLUSHING" /\ (ch.enable => ch.dev2m)
  /\ LET supply == IF dev.phase = "DI" THEN Demand ELSE 0
         n == BytesIn(ch, supply, reach)
     IN IF ch.enable
        THEN /\ dma_esp_write_memory(supply, reach)
             /\ dev' = SCSIdisk_Send_Data(dev, n)
             /\ esp' = [esp EXCEPT !.ioT = FALSE, !.counter = esp.counter - n]
        ELSE /\ UNCHANGED <<ch, dmaLine, unreported, dev>> /\ UNCHANGED history
             /\ esp' = [esp EXCEPT !.ioT = FALSE]
  /\ UNCHANGED <<disk, told, selections, starts>>

(* In a phase without data the handler only arms its timer again *)
TransferPoll ==
  /\ esp.ioT /\ esp.io = "TRANSFERING" /\ dev.phase \notin {"DI", "DO"}
  /\ UNCHANGED vars

ESP_IO_Handler(reach) ==
  TransferIn(reach) \/ TransferOut(reach) \/ TransferFlush(reach) \/ TransferPoll

ESP_InterruptHandler ==
  /\ esp.irqT
  /\ esp' = esp_raise_irq([esp EXCEPT !.irqT = FALSE])
  /\ UNCHANGED <<ch, dev, disk, dmaLine, selections, starts, unreported, told>>
  /\ UNCHANGED history

(* The flush bit of ESP_DMA_CTRL_Write *)
dma_esp_flush_buffer(reach) ==
  /\ Flushes(ch)
  /\ LET bytes == FlushedBytes(ch)
         full == ch.next >= ch.limit
         fault == ~full /\ bytes # <<>> /\ reach = 0
         gone == Written([i \in 1..Word |-> Junk])
     IN IF full \/ fault
        THEN /\ EndTransfer(IF fault THEN BusError(ch) ELSE ch)
             /\ UNCHANGED unreported /\ UNCHANGED history
        ELSE /\ EndTransfer(Flushed(ch))
             /\ unreported' = unreported \ gone
             /\ inb' = inb /\ outb' = outb \o bytes
             /\ torn' = (torn \/ FlushPads(ch))
  /\ UNCHANGED <<esp, dev, disk, selections, starts, told>>

Next ==
  \/ \E direction \in {{}, {"DEV2M"}} : ResetChannel(direction)
  \/ \E b \in Buffers : StartSingle(b) \/ StartAligned(b) \/ ContinueChaining(b)
  \/ \E b, then \in Buffers : StartChained(b, then)
  \/ EndChaining
  \/ \E c \in GuestCommands, n \in Counts, r \in Blocks : ESP_Command_Write(c, n, r)
  \/ \E r \in Blocks : ESP_IntStatus_Read(r) \/ ControlReset(r)
  \/ \E reach \in Reaches : ESP_IO_Handler(reach) \/ dma_esp_flush_buffer(reach)
  \/ ESP_InterruptHandler

Spec == Init /\ [][Next]_vars

(* Every armed timer expires (CycInt) *)
FairSpec ==
  /\ Spec
  /\ WF_vars(\E reach \in Reaches : ESP_IO_Handler(reach))
  /\ WF_vars(ESP_InterruptHandler)

(***************************************************************************)
(* Properties.                                                              *)
(***************************************************************************)
EspType ==
  [c0 : Commands, c1 : Commands, inprog : BOOLEAN, waiting : BOOLEAN,
   int : BOOLEAN, causes : SUBSET Causes, state : {"DISCONNECTED", "INITIATOR"},
   count : Nat, counter : Nat, io : {"TRANSFERING", "FLUSHING"},
   irqT : BOOLEAN, ioT : BOOLEAN]

DevType ==
  [phase : Phases, op : {"read", "write", "reply", "none"}, pos : Nat,
   left : Nat, trunc : BOOLEAN, status : {"GOOD", "CHECK"}, held : Seq(Int),
   overlay : BOOLEAN]

(* Every variable has its type *)
TypeOK ==
  /\ ch \in Channel
  /\ esp \in EspType
  /\ dev \in DevType
  /\ disk \in [0..(DiskBytes - 1) -> Int]
  /\ told \in [0..(DiskBytes - 1) -> Int]
  /\ dmaLine \in BOOLEAN
  /\ selections \in Nat /\ starts \in Nat
  /\ inb \in Seq(Int) /\ outb \in Seq(Int) /\ torn \in BOOLEAN
  /\ unreported \subseteq Nat

(* No byte is lost, doubled or reordered in the burst buffer: whatever      *)
(* entered it since it was initialised has left it or is still pending, in  *)
(* order, across chained buffers, bus errors, transfers that stop in the    *)
(* middle of a burst and are taken up again, and commands of both           *)
(* directions (dma_esp_write_memory, dma_esp_read_memory).                  *)
Conserved == ~torn => inb = outb \o ch.pend

(* The channel never goes past the limit of the buffer it was given:        *)
(* whatever it is asked to move or to flush, next stays within the buffer.  *)
WithinBuffer == ch.next <= ch.limit

(* The translator hears of every address that the device writes, except     *)
(* when a bus error cut the transfer short (dma.c: the notification is the  *)
(* last statement of the TRY block).                                        *)
ReportedUnlessFault == unreported # {} => ch.busexc

(* A command in progress always has something to end it: the interrupt is   *)
(* raised and waits to be acknowledged, or a timer is armed that raises it, *)
(* or the transfer is being polled.  Otherwise the controller would queue   *)
(* every later command for ever.                                            *)
NeverWedged ==
  esp.inprog =>
    esp.int \/ esp.irqT \/ (esp.ioT /\ esp.io = "TRANSFERING")

(* The transfer polls for a channel that could serve it *)
Starved ==
  /\ esp.ioT /\ esp.io = "TRANSFERING"
  /\ ch.enable => ~Matched \/ dev.phase \notin {"DI", "DO"}

(* A command ends: unless from some time on its transfer waits for the      *)
(* guest to enable the channel, or is in a phase without data, the          *)
(* interrupt that ends it is raised again and again, or the controller is   *)
(* idle again and again.  In particular a transfer that has an enabled      *)
(* channel never stalls on a burst that cannot be completed.                *)
CommandsEnd ==
  <>[](esp.inprog /\ ~esp.int) => <>[]Starved

(* A transfer is driven only for the transfer command that started it       *)
(* (esp.c, on esp_transfer_done: "this is called as part of transfer info   *)
(* or transfer pad after DMA transfer has completed").                      *)
TransferOwned ==
  esp.ioT /\ esp.io = "TRANSFERING" => esp.inprog /\ esp.c0 = "TID"

(* The target reads back every sector it has acknowledged.                  *)
ReadsBack == disk = told

(* The detailed channel implements a pipe of one burst *)
P == INSTANCE Pipe WITH Capacity <- Burst
ChannelIsPipe == P!PipeSpec
================================================================================
