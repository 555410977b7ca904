---------------------------------- MODULE Esp ----------------------------------
(***************************************************************************)
(* The SCSI controller of src/src/esp.c and the target side of              *)
(* src/src/scsi.c, as pure operators on a record                            *)
(*   [esp |-> the controller, dev |-> the bus and the target, disk |-> the  *)
(*    image as the target reads it, told |-> the image as the guest was     *)
(*    told that it is].                                                     *)
(*                                                                          *)
(* The controller: c0, c1 are command[0], command[1]; inprog and waiting    *)
(* are esp_cmd_state; int is STAT_INT and causes is intstatus; count is     *)
(* the transfer count the guest wrote and counter is esp_counter; io is     *)
(* esp_io_state; irqT and ioT say whether the timers INTERRUPT_ESP and      *)
(* INTERRUPT_ESP_IO are armed.  The line INT_SCSI follows STAT_INT, with    *)
(* interrupts enabled in the control register.                              *)
(* Commands are named; one whose DMA bit is set ends in D.  The commands on *)
(* which the emulator calls abort() are left out.                           *)
(*                                                                          *)
(* The target: phase of the bus, op the kind of command it works on, pos    *)
(* the image position of the next byte to send or of the sector being       *)
(* received, left the bytes until the status phase, trunc whether the       *)
(* command ends in an error there (it runs off the end of the disk), status *)
(* the status byte, held the bytes of a sector received so far, overlay     *)
(* whether the shadow table exists.                                         *)
(***************************************************************************)
EXTENDS Dma

CONSTANTS
  Sector,        \* BLOCKSIZE
  Sectors,       \* size of the image in sectors
  MaxCounter,    \* what a transfer count of 0 stands for (0x10000)
  ResetReports,  \* CFG1_RESREPT is clear: a bus reset interrupts
  UseOverlay     \* ConfigureParams.SCSI.nWriteProtection = WRITEPROT_ON

ASSUME EspAssumption ==
  /\ Sector \in Nat \ {0}
  /\ Sectors \in Nat
  /\ MaxCounter \in Nat \ {0}
  /\ ResetReports \in BOOLEAN
  /\ UseOverlay \in BOOLEAN

DiskBytes == Sector * Sectors

Commands ==
  {"NOP", "FLUSH", "RESET", "BUSRESET", "SEL", "ENSEL", "TI", "TID", "PAD",
   "PADD", "ICCS", "MSGACC", "ILL"}
Causes == {"FC", "BS", "DC", "ILL", "RST"}
Phases == {"DO", "DI", "ST", "MI"}

(* A command descriptor block, by what the target does with it *)
Requests ==
  [op : {"read", "write", "reply", "none", "reject", "absent"},
   lba : Nat, count : Nat]

Smaller(a, b) == IF a < b THEN a ELSE b

EspReset ==
  [c0 |-> "NOP", c1 |-> "NOP", inprog |-> FALSE, waiting |-> FALSE,
   int |-> FALSE, causes |-> {},
   state |-> "DISCONNECTED", count |-> 0, counter |-> 0,
   io |-> "TRANSFERING", irqT |-> FALSE, ioT |-> FALSE]

DevReset ==
  [phase |-> "DO", op |-> "none", pos |-> 0, left |-> 0, trunc |-> FALSE,
   status |-> "GOOD", held |-> <<>>, overlay |-> FALSE]

(***************************************************************************)
(* The target.                                                              *)
(***************************************************************************)
InRange(r) == IF r.lba < Sectors THEN Smaller(r.count, Sectors - r.lba) ELSE 0

SCSI_ReadSector(d, r) ==
  IF InRange(r) = 0
  THEN [d EXCEPT !.op = "read", !.phase = "ST",
                 !.status = IF r.count = 0 THEN d.status ELSE "CHECK"]
  ELSE [d EXCEPT !.op = "read", !.phase = "DI", !.status = "GOOD",
                 !.pos = r.lba * Sector, !.left = InRange(r) * Sector,
                 !.trunc = InRange(r) < r.count]

(* blockcounter is decremented before it is compared with 0: a count of 0   *)
(* does not end before the image does.                                      *)
SCSI_WriteSector(d, r) ==
  LET whole == r.count # 0 /\ InRange(r) = r.count
      n == IF whole THEN r.count
           ELSE (IF r.lba < Sectors THEN Sectors - r.lba ELSE 0) + 1
  IN [d EXCEPT !.op = "write", !.phase = "DO", !.pos = r.lba * Sector,
               !.left = n * Sector, !.trunc = ~whole, !.held = <<>>]

SCSI_Emulate_Command(d, r) ==
  CASE r.op = "read"   -> SCSI_ReadSector(d, r)
    [] r.op = "write"  -> SCSI_WriteSector(d, r)
    [] r.op = "reply"  -> [d EXCEPT !.op = "reply", !.phase = "DI",
                             !.status = "GOOD", !.pos = 0, !.left = r.count,
                             !.trunc = FALSE]
    [] r.op = "none"   -> [d EXCEPT !.op = "none", !.phase = "ST", !.status = "GOOD"]
    [] r.op = "reject" -> [d EXCEPT !.op = "none", !.phase = "ST", !.status = "CHECK"]
    [] OTHER           -> [d EXCEPT !.phase = "ST"]     \* selection timeout

(* What it sends next; the bytes of a reply are told apart by being negative *)
DataFrom(s, n) ==
  [i \in 1..n |-> IF s.dev.op = "read" THEN s.disk[s.dev.pos + i - 1]
                  ELSE 0 - (s.dev.pos + i)]

SCSIdisk_Send_Data(d, n) ==
  LET end == n > 0 /\ n = d.left
  IN [d EXCEPT !.pos = d.pos + n, !.left = d.left - n,
               !.phase = IF end THEN "ST" ELSE d.phase,
               !.status = IF end /\ d.trunc THEN "CHECK" ELSE d.status]

(* Sectors are written when they are complete.  The overlay's table is      *)
(* allocated by the first sector written to it, which is not kept.          *)
Arrived(d, bytes) == d.held \o bytes
Complete(d, bytes) == Len(Arrived(d, bytes)) - (Len(Arrived(d, bytes)) % Sector)

FirstKept(d) == d.pos + (IF UseOverlay /\ ~d.overlay THEN Sector ELSE 0)

scsi_write_sector(disk, d, bytes) ==
  [p \in DOMAIN disk |->
     IF FirstKept(d) <= p /\ p < d.pos + Complete(d, bytes)
     THEN Arrived(d, bytes)[p - d.pos + 1] ELSE disk[p]]

(* What a completed sector tells the guest; kept to compare with            *)
AsTold(told, d, bytes) ==
  [p \in DOMAIN told |->
     IF d.pos <= p /\ p < d.pos + Complete(d, bytes)
     THEN Arrived(d, bytes)[p - d.pos + 1] ELSE told[p]]

SCSIdisk_Receive_Data(d, bytes) ==
  LET n == Len(bytes)
      end == n > 0 /\ n = d.left
      wrote == Complete(d, bytes) > 0 /\ d.pos < DiskBytes
  IN [d EXCEPT !.held = SubSeq(Arrived(d, bytes), Complete(d, bytes) + 1,
                               Len(Arrived(d, bytes))),
               !.pos = d.pos + Complete(d, bytes), !.left = d.left - n,
               !.overlay = d.overlay \/ (UseOverlay /\ wrote),
               !.phase = IF end THEN "ST" ELSE d.phase,
               !.status = IF end /\ d.trunc THEN "CHECK"
                          ELSE IF wrote THEN "GOOD" ELSE d.status]

(***************************************************************************)
(* The controller.                                                          *)
(***************************************************************************)
esp_command_clear(e) ==
  IF e.c1 = "RESET" THEN [e EXCEPT !.c0 = "NOP"]
  ELSE [e EXCEPT !.c0 = "NOP", !.c1 = "NOP", !.waiting = FALSE]

esp_reset_soft(e) ==
  esp_command_clear([e EXCEPT !.counter = 0, !.state = "DISCONNECTED"])

(* Without the esp_finish_command at its end *)
esp_reset_hard(e) ==
  esp_reset_soft([e EXCEPT !.int = FALSE, !.causes = {}])

(* Interrupt later with these causes *)
Answer(e, causes) == [e EXCEPT !.causes = causes, !.irqT = TRUE]

esp_raise_irq(e) ==
  [e EXCEPT !.int = TRUE]

IllegalNow(e, c) ==
  \/ c = "ILL"
  \/ e.state = "DISCONNECTED" /\ c \in {"TI", "TID", "PAD", "PADD", "ICCS", "MSGACC"}
  \/ e.state = "INITIATOR" /\ c \in {"SEL", "ENSEL"}

(* esp_transfer_done returns TRUE *)
TransferDone(e, phase, expected) == e.counter = 0 \/ phase # expected

\* Fault: a phase change ends the transfer without an interrupt.
esp_transfer_done_silent(e, phase, expected) ==
  IF e.counter = 0 THEN Answer(e, {"FC"})
  ELSE IF phase # expected THEN esp_command_clear(e)
  ELSE e
esp_transfer_done(e, phase, expected) ==
  IF e.counter = 0 THEN Answer(e, {"FC"})
  ELSE IF phase # expected THEN Answer(esp_command_clear(e), {"BS"})
  ELSE e

esp_select(s, r) ==
  LET d == SCSI_Emulate_Command(s.dev, r)
      e == esp_command_clear(s.esp)
  IN [s EXCEPT !.dev = d,
       !.esp = IF r.op = "absent"
               THEN Answer([e EXCEPT !.state = "DISCONNECTED"], {"DC"})
               ELSE Answer([e EXCEPT !.state = "INITIATOR"], {"BS", "FC"})]

esp_bus_reset(s) ==
  LET e == esp_reset_soft(s.esp)
  IN IF ResetReports
     THEN [s EXCEPT !.esp = Answer(e, {"RST"}), !.dev = [s.dev EXCEPT !.phase = "MI"]]
     ELSE [s EXCEPT !.esp = e]

(* One byte to the FIFO, or nothing; the causes stay what they were *)
PioTransfer(s) ==
  [s EXCEPT !.esp = [s.esp EXCEPT !.irqT = TRUE],
            !.dev = IF s.dev.phase = "DI" THEN SCSIdisk_Send_Data(s.dev, 1) ELSE s.dev]

esp_transfer_pad(s) ==
  LET n == Smaller(s.esp.counter, s.dev.left)
      zeros == [i \in 1..n |-> 0]
      e == [s.esp EXCEPT !.counter = s.esp.counter - n]
      in == SCSIdisk_Send_Data(s.dev, n)
      out == SCSIdisk_Receive_Data(s.dev, zeros)
  IN IF s.dev.phase = "DI"
     THEN [s EXCEPT !.esp = esp_transfer_done(e, in.phase, "DI"), !.dev = in]
     ELSE [s EXCEPT !.esp = esp_transfer_done(e, out.phase, "DO"), !.dev = out,
                    !.disk = scsi_write_sector(s.disk, s.dev, zeros),
                    !.told = AsTold(s.told, s.dev, zeros)]

esp_initiator_command_complete(s) ==
  [s EXCEPT !.dev = [s.dev EXCEPT !.phase = "MI"], !.esp = Answer(s.esp, {"FC"})]

esp_message_accepted(s) ==
  [s EXCEPT !.dev = [s.dev EXCEPT !.phase = "ST"],
            !.esp = Answer([s.esp EXCEPT !.state = "DISCONNECTED"], {"BS"})]

(* The emulator calls abort() *)
Aborts(s, c) ==
  /\ ~IllegalNow(s.esp, c)
  /\ \/ c = "TI" /\ s.dev.phase = "DO"
     \/ c \in {"PAD", "PADD"} /\ s.dev.phase \notin {"DI", "DO"}

(* Commands after which esp_start_command calls esp_finish_command *)
FinishesAtOnce(e, c) ==
  /\ ~IllegalNow(e, c)
  /\ c \in {"NOP", "FLUSH", "ENSEL", "RESET"} \/ (c = "BUSRESET" /\ ~ResetReports)

(* esp_start_command, up to that call.  r is the command block in the FIFO. *)
Start(s, c, r) ==
  LET e0 == [s.esp EXCEPT !.inprog = TRUE]
      e == IF c \in {"TID", "PADD"} /\ ~IllegalNow(s.esp, c)
           THEN [e0 EXCEPT !.counter = IF e0.count = 0 THEN MaxCounter ELSE e0.count]
           ELSE e0
      t == [s EXCEPT !.esp = e]
  IN IF IllegalNow(s.esp, c)
     THEN [s EXCEPT !.esp = Answer(esp_command_clear(e), e.causes \cup {"ILL"})]
     ELSE CASE c \in {"NOP", "FLUSH", "ENSEL"} -> t
            [] c = "RESET"    -> [s EXCEPT !.esp = esp_reset_hard(e)]
            [] c = "BUSRESET" -> esp_bus_reset(t)
            [] c = "SEL"      -> esp_select(t, r)
            [] c = "TID"      -> [s EXCEPT !.esp = [e EXCEPT !.io = "TRANSFERING",
                                                             !.ioT = TRUE]]
            [] c = "TI"       -> PioTransfer(t)
            [] c \in {"PAD", "PADD"} -> esp_transfer_pad(t)
            [] c = "ICCS"     -> esp_initiator_command_complete(t)
            [] c = "MSGACC"   -> esp_message_accepted(t)

(* esp_finish_command with no command waiting, and the command it starts    *)
(* otherwise.                                                               *)
Idle(s) == [s EXCEPT !.esp = [s.esp EXCEPT !.inprog = FALSE]]

Promoted(s) ==
  [s EXCEPT !.esp = [s.esp EXCEPT !.inprog = FALSE, !.c0 = s.esp.c1, !.c1 = "NOP",
                                  !.waiting = FALSE]]

(* A command started by esp_finish_command leaves none waiting *)
esp_finish_command(s, r) ==
  IF ~s.esp.waiting THEN Idle(s)
  ELSE LET c == s.esp.c1
           t == Start(Promoted(s), c, r)
       IN IF FinishesAtOnce(Promoted(s).esp, c) THEN Idle(t) ELSE t

esp_start_command(s, c, r) ==
  LET t == Start(s, c, r)
  IN IF FinishesAtOnce(s.esp, c) THEN esp_finish_command(t, r) ELSE t

(* What the command register holds after a write of c *)
TopAfter(e, c) == IF e.c1 = "RESET" /\ c # "NOP" THEN "RESET" ELSE c

esp_command_write(s, c, r) ==
  LET top == TopAfter(s.esp, c)
      t == [s EXCEPT !.esp = [s.esp EXCEPT !.c1 = top]]
  IN IF top \in {"RESET", "BUSRESET"} THEN esp_start_command(t, top, r)
     ELSE IF s.esp.inprog THEN [t EXCEPT !.esp = [t.esp EXCEPT !.waiting = TRUE]]
     ELSE esp_start_command([t EXCEPT !.esp = [t.esp EXCEPT !.c0 = top, !.c1 = "NOP"]],
                            top, r)

esp_lower_irq(s, r) ==
  esp_finish_command([s EXCEPT !.esp = [s.esp EXCEPT !.int = FALSE]], r)
================================================================================
