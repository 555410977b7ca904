------------------------------- MODULE ScsiProofs ------------------------------
(***************************************************************************)
(* Proofs about Scsi, for every size of burst, sector, image and memory and *)
(* every set of buffers, command blocks and transfer counts.                *)
(***************************************************************************)
EXTENDS Scsi, DmaLoopProofs

(***************************************************************************)
(* Arithmetic.                                                              *)
(***************************************************************************)
LEMMA Products ==
  ASSUME NEW a \in Nat, NEW b \in Nat, NEW c \in Nat
  PROVE  a * c \in Nat /\ (a <= b => a * c <= b * c)
OBVIOUS

LEMMA Distributes ==
  ASSUME NEW a \in Nat, NEW b \in Nat, NEW c \in Nat
  PROVE  (a + b) * c = a * c + b * c
OBVIOUS

LEMMA Positive ==
  ASSUME NEW a \in Nat \ {0}, NEW b \in Nat \ {0}
  PROVE  a * b \in Nat \ {0}
OBVIOUS

LEMMA DiskSize == DiskBytes \in Nat
BY EspAssumption, Products DEF DiskBytes

(***************************************************************************)
(* The target.  When it sends it has bytes to send, and what it reads lies  *)
(* in the image.  Before the first selection it seems to receive (PHASE_DO  *)
(* is 0) with nothing left to receive; a command leaves it Armed.           *)
(***************************************************************************)
DevSane(d) ==
  /\ d.phase = "DI" => d.left > 0
  /\ d.phase = "DI" /\ d.op = "read" => d.pos + d.left <= DiskBytes

Armed(d) == d.phase = "DO" => d.left > 0

Dev == {d \in DevType : DevSane(d)}
Image == [0..(DiskBytes - 1) -> Int]
Bytes == Seq(Int)
Sendable == {r \in Requests : r.op = "reply" => r.count > 0}

LEMMA BlocksSendable == Blocks \subseteq Sendable
BY ScsiAssumption DEF Sendable

LEMMA InRangeType ==
  ASSUME NEW r \in Requests
  PROVE  /\ InRange(r) \in Nat
         /\ InRange(r) > 0 => r.lba < Sectors /\ InRange(r) <= Sectors - r.lba
BY EspAssumption DEF InRange, Requests, Smaller

LEMMA ReadType ==
  ASSUME NEW d \in Dev, NEW r \in Requests
  PROVE  SCSI_ReadSector(d, r) \in Dev /\ Armed(SCSI_ReadSector(d, r))
<1>1. CASE InRange(r) = 0
  BY <1>1 DEF SCSI_ReadSector, Dev, DevType, DevSane, Phases, Armed
<1>2. CASE InRange(r) # 0
  <2>1. InRange(r) \in Nat \ {0} /\ InRange(r) <= Sectors - r.lba /\ r.lba \in Nat /\ r.lba < Sectors
    BY <1>2, InRangeType DEF Requests
  <2>2. r.lba * Sector \in Nat
    BY <2>1, Products, EspAssumption
  <2>3. InRange(r) * Sector \in Nat \ {0}
    BY <2>1, Positive, EspAssumption
  <2>4. (r.lba + InRange(r)) * Sector <= Sectors * Sector
    BY <2>1, Products, EspAssumption
  <2>5. (r.lba + InRange(r)) * Sector = r.lba * Sector + InRange(r) * Sector
    BY <2>1, Distributes, EspAssumption
  <2>6. Sectors * Sector = DiskBytes
    BY EspAssumption DEF DiskBytes
  <2>7. r.lba * Sector + InRange(r) * Sector <= DiskBytes
    BY <2>4, <2>5, <2>6
  <2>. DEFINE p == r.lba * Sector
              l == InRange(r) * Sector
              t == InRange(r) < r.count
  <2>8. p \in Nat /\ l \in Nat /\ l > 0 /\ p + l <= DiskBytes /\ t \in BOOLEAN
    BY <2>2, <2>3, <2>7
  <2>9. SCSI_ReadSector(d, r) =
          [d EXCEPT !.op = "read", !.phase = "DI", !.status = "GOOD",
                    !.pos = p, !.left = l, !.trunc = t]
    BY <1>2 DEF SCSI_ReadSector
  <2>. HIDE DEF p, l, t
  <2> QED BY <2>8, <2>9 DEF Dev, DevType, DevSane, Phases, Armed
<1> QED BY <1>1, <1>2

LEMMA WriteType ==
  ASSUME NEW d \in Dev, NEW r \in Requests
  PROVE  SCSI_WriteSector(d, r) \in Dev /\ Armed(SCSI_WriteSector(d, r))
<1>. DEFINE whole == r.count # 0 /\ InRange(r) = r.count
            n == IF whole THEN r.count
                 ELSE (IF r.lba < Sectors THEN Sectors - r.lba ELSE 0) + 1
            p == r.lba * Sector
            l == n * Sector
            t == ~whole
<1>1. n \in Nat \ {0} /\ r.lba \in Nat
  BY EspAssumption DEF Requests
<1>2. p \in Nat
  BY <1>1, Products, EspAssumption
<1>3. l \in Nat \ {0}
  <2>. HIDE DEF n
  <2> QED BY <1>1, Positive, EspAssumption
<1>4. t \in BOOLEAN
  OBVIOUS
<1>5. SCSI_WriteSector(d, r) =
        [d EXCEPT !.op = "write", !.phase = "DO", !.pos = p,
                  !.left = l, !.trunc = t, !.held = <<>>]
  BY DEF SCSI_WriteSector
<1>6. << >> \in Seq(Int)
  OBVIOUS
<1>. HIDE DEF p, l, t
<1>7. SCSI_WriteSector(d, r) \in DevType
  BY <1>2, <1>3, <1>4, <1>5, <1>6 DEF Dev, DevType, Phases
<1>8. DevSane(SCSI_WriteSector(d, r)) /\ Armed(SCSI_WriteSector(d, r))
  BY <1>3, <1>5 DEF Dev, DevType, DevSane, Armed
<1> QED BY <1>7, <1>8 DEF Dev

LEMMA CommandType ==
  ASSUME NEW d \in Dev, NEW r \in Sendable
  PROVE  SCSI_Emulate_Command(d, r) \in Dev /\ Armed(SCSI_Emulate_Command(d, r))
<1>. r \in Requests /\ r.op \in {"read", "write", "reply", "none", "reject", "absent"} /\ r.count \in Nat
  BY DEF Sendable, Requests
<1>1. CASE r.op = "read"
  BY <1>1, ReadType DEF SCSI_Emulate_Command
<1>2. CASE r.op = "write"
  BY <1>2, WriteType DEF SCSI_Emulate_Command
<1>3. CASE r.op = "reply"
  BY <1>3 DEF SCSI_Emulate_Command, Sendable, Dev, DevType, DevSane, Phases, Armed
<1>4. CASE r.op = "none"
  BY <1>4 DEF SCSI_Emulate_Command, Dev, DevType, DevSane, Phases, Armed
<1>5. CASE r.op = "reject"
  BY <1>5 DEF SCSI_Emulate_Command, Dev, DevType, DevSane, Phases, Armed
<1>6. CASE r.op = "absent"
  BY <1>6 DEF SCSI_Emulate_Command, Dev, DevType, DevSane, Phases, Armed
<1> QED BY <1>1, <1>2, <1>3, <1>4, <1>5, <1>6

LEMMA SendType ==
  ASSUME NEW d \in Dev, NEW n \in Nat, n <= d.left
  PROVE  /\ SCSIdisk_Send_Data(d, n) \in Dev
         /\ Armed(d) => Armed(SCSIdisk_Send_Data(d, n))
<1>. DEFINE end == n > 0 /\ n = d.left
            f == IF end THEN "ST" ELSE d.phase
            t == IF end /\ d.trunc THEN "CHECK" ELSE d.status
            p == d.pos + n
            l == d.left - n
<1>0. p \in Nat /\ l \in Nat
  BY DEF Dev, DevType
<1>1. /\ f \in Phases
      /\ f \in {"DI", "DO"} => f = d.phase /\ (n = 0 \/ n # d.left)
  BY DEF Dev, DevType, Phases
<1>2. t \in {"GOOD", "CHECK"}
  BY DEF Dev, DevType
<1>3. SCSIdisk_Send_Data(d, n) =
        [d EXCEPT !.pos = p, !.left = l, !.phase = f, !.status = t]
  BY DEF SCSIdisk_Send_Data
<1>. HIDE DEF f, t, p, l
<1>4. SCSIdisk_Send_Data(d, n) \in DevType
  BY <1>0, <1>1, <1>2, <1>3 DEF Dev, DevType
<1>5. DevSane(SCSIdisk_Send_Data(d, n)) /\ (Armed(d) => Armed(SCSIdisk_Send_Data(d, n)))
  <2>1. f = "DI" => d.phase = "DI"
    BY <1>1
  <2>2. (f = "DI" => l > 0) /\ (Armed(d) /\ f = "DO" => l > 0)
    BY <1>1 DEF Dev, DevType, DevSane, Armed, l
  <2>3. p + l = d.pos + d.left
    BY DEF Dev, DevType, p, l
  <2> QED BY <1>3, <2>1, <2>2, <2>3 DEF Dev, DevType, DevSane, Armed
<1> QED BY <1>4, <1>5 DEF Dev

LEMMA ConcatBytes ==
  ASSUME NEW a \in Bytes, NEW b \in Bytes
  PROVE  /\ a \o b \in Bytes
         /\ Len(a \o b) = Len(a) + Len(b)
         /\ \A i \in 1..(Len(a) + Len(b)) : (a \o b)[i] \in Int
BY DEF Bytes

LEMMA SubBytes ==
  ASSUME NEW a \in Bytes, NEW m \in 1..(Len(a) + 1), NEW n \in (m - 1)..Len(a)
  PROVE  SubSeq(a, m, n) \in Bytes /\ Len(SubSeq(a, m, n)) = n - m + 1
BY SubSeqProperties DEF Bytes

LEMMA ArrivedType ==
  ASSUME NEW d \in Dev, NEW bytes \in Bytes
  PROVE  /\ Arrived(d, bytes) \in Bytes
         /\ Complete(d, bytes) \in 0..Len(Arrived(d, bytes))
<1>1. d.held \in Bytes
  BY DEF Dev, DevType, Bytes
<1>2. Arrived(d, bytes) \in Bytes
  BY <1>1, ConcatBytes DEF Arrived
<1>3. Len(Arrived(d, bytes)) \in Nat
  BY <1>2 DEF Bytes
<1>. DEFINE n == Len(Arrived(d, bytes))
<1>4. n % Sector \in 0..(Sector - 1)
  BY <1>3, ModRange, EspAssumption
<1>5. n % Sector <= n
  BY <1>3, EspAssumption
<1> QED BY <1>2, <1>3, <1>4, <1>5 DEF Complete

LEMMA ReceiveType ==
  ASSUME NEW d \in Dev, NEW bytes \in Bytes, Len(bytes) <= d.left, d.phase # "DI"
  PROVE  /\ SCSIdisk_Receive_Data(d, bytes) \in Dev
         /\ Armed(d) => Armed(SCSIdisk_Receive_Data(d, bytes))
<1>. DEFINE n == Len(bytes)
            end == n > 0 /\ n = d.left
            wrote == Complete(d, bytes) > 0 /\ d.pos < DiskBytes
            h == SubSeq(Arrived(d, bytes), Complete(d, bytes) + 1, Len(Arrived(d, bytes)))
            p == d.pos + Complete(d, bytes)
            l == d.left - n
            o == d.overlay \/ (UseOverlay /\ wrote)
            f == IF end THEN "ST" ELSE d.phase
            t == IF end /\ d.trunc THEN "CHECK" ELSE IF wrote THEN "GOOD" ELSE d.status
<1>1. n \in Nat
  BY DEF Bytes
<1>2. /\ f \in Phases
      /\ f \in {"DI", "DO"} => f = d.phase /\ (n = 0 \/ n # d.left)
  BY DEF Dev, DevType, Phases
<1>3. t \in {"GOOD", "CHECK"} /\ o \in BOOLEAN
  BY DEF Dev, DevType
<1>4. h \in Bytes
  BY ArrivedType, SubBytes DEF Bytes
<1>5. Complete(d, bytes) \in Nat
  BY ArrivedType DEF Bytes
<1>0. p \in Nat /\ l \in Nat
  BY <1>1, <1>5 DEF Dev, DevType
<1>6. SCSIdisk_Receive_Data(d, bytes) =
        [d EXCEPT !.held = h, !.pos = p, !.left = l, !.overlay = o,
                  !.phase = f, !.status = t]
  BY DEF SCSIdisk_Receive_Data
<1>. HIDE DEF n, h, o, f, t, p, l
<1>7. SCSIdisk_Receive_Data(d, bytes) \in DevType
  BY <1>0, <1>2, <1>3, <1>4, <1>6 DEF Dev, DevType, Bytes
<1>8. DevSane(SCSIdisk_Receive_Data(d, bytes)) /\ (Armed(d) => Armed(SCSIdisk_Receive_Data(d, bytes)))
  <2>1. f # "DI"
    BY <1>2
  <2>2. Armed(d) /\ f = "DO" => l > 0
    BY <1>1, <1>2 DEF Dev, DevType, Armed, n, l
  <2> QED BY <1>6, <2>1, <2>2 DEF Dev, DevType, DevSane, Armed
<1> QED BY <1>7, <1>8 DEF Dev

(* Writing sectors keeps the image an image, and so does being told of it.  *)
LEMMA ImageType ==
  ASSUME NEW d \in Dev, NEW bytes \in Bytes, NEW image \in Image
  PROVE  /\ scsi_write_sector(image, d, bytes) \in Image
         /\ AsTold(image, d, bytes) \in Image
<1>1. /\ Arrived(d, bytes) \in Bytes
      /\ Complete(d, bytes) \in 0..Len(Arrived(d, bytes))
  BY ArrivedType
<1>2. /\ d.pos \in Nat
      /\ FirstKept(d) \in Int /\ d.pos <= FirstKept(d)
  BY EspAssumption DEF Dev, DevType, FirstKept
<1>3. \A p \in Int : d.pos <= p /\ p < d.pos + Complete(d, bytes)
                      => Arrived(d, bytes)[p - d.pos + 1] \in Int
  <2>. SUFFICES ASSUME NEW p \in Int, d.pos <= p, p < d.pos + Complete(d, bytes)
                PROVE  Arrived(d, bytes)[p - d.pos + 1] \in Int
    OBVIOUS
  <2>1. Len(Arrived(d, bytes)) \in Nat
    BY <1>1 DEF Bytes
  <2>2. p - d.pos + 1 \in 1..Len(Arrived(d, bytes))
    BY <1>1, <1>2, <2>1
  <2> QED BY <1>1, <2>2 DEF Bytes
<1>4. DOMAIN image = 0..(DiskBytes - 1) /\ \A p \in 0..(DiskBytes - 1) : image[p] \in Int
  BY DEF Image
<1>5. Complete(d, bytes) \in Int
  BY <1>1 DEF Bytes
<1>6. 0..(DiskBytes - 1) \subseteq Int
  BY DiskSize
<1>7. scsi_write_sector(image, d, bytes) \in Image
  BY <1>2, <1>3, <1>4, <1>5, <1>6 DEF scsi_write_sector, Image
<1>8. AsTold(image, d, bytes) \in Image
  BY <1>2, <1>3, <1>4, <1>5, <1>6 DEF AsTold, Image
<1> QED BY <1>7, <1>8

(***************************************************************************)
(* The controller.  A command in progress has something to end it.          *)
(***************************************************************************)
Lively(e) ==
  e.inprog => e.int \/ e.irqT \/ (e.ioT /\ e.io = "TRANSFERING")

LEMMA ClearType ==
  ASSUME NEW e \in EspType
  PROVE  /\ esp_command_clear(e) \in EspType
         /\ esp_command_clear(e).c1 = "RESET" \/ ~esp_command_clear(e).waiting
         /\ esp_command_clear(e).inprog = e.inprog
         /\ esp_command_clear(e).state = e.state
BY DEF EspType, esp_command_clear, Commands

LEMMA AnswerType ==
  ASSUME NEW e \in EspType, NEW c \in SUBSET Causes
  PROVE  /\ Answer(e, c) \in EspType /\ Answer(e, c).irqT /\ Lively(Answer(e, c))
         /\ Answer(e, c).state = e.state
BY DEF EspType, Answer, Lively

LEMMA SoftType ==
  ASSUME NEW e \in EspType
  PROVE  /\ esp_reset_soft(e) \in EspType
         /\ esp_reset_soft(e).c1 = "RESET" \/ ~esp_reset_soft(e).waiting
         /\ esp_reset_soft(e).state = "DISCONNECTED"
<1>. DEFINE f == [e EXCEPT !.counter = 0, !.state = "DISCONNECTED"]
<1>1. f \in EspType /\ f.state = "DISCONNECTED"
  BY DEF EspType
<1>. HIDE DEF f
<1>2. esp_reset_soft(e) = esp_command_clear(f)
  BY DEF esp_reset_soft, f
<1> QED BY <1>1, <1>2, ClearType

LEMMA HardType ==
  ASSUME NEW e \in EspType
  PROVE  /\ esp_reset_hard(e) \in EspType
         /\ esp_reset_hard(e).c1 = "RESET" \/ ~esp_reset_hard(e).waiting
         /\ esp_reset_hard(e).state = "DISCONNECTED"
<1>. DEFINE f == [e EXCEPT !.int = FALSE, !.causes = {}]
<1>1. f \in EspType
  BY DEF EspType
<1>. HIDE DEF f
<1>2. esp_reset_hard(e) = esp_reset_soft(f)
  BY DEF esp_reset_hard, f
<1> QED BY <1>1, <1>2, SoftType

(* The test for the end of a transfer answers when it finds it.             *)
LEMMA DoneType ==
  ASSUME NEW e \in EspType, NEW phase \in Phases, NEW expected \in Phases
  PROVE  LET f == esp_transfer_done(e, phase, expected)
         IN /\ f \in EspType
            /\ TransferDone(e, phase, expected) => f.irqT
            /\ ~TransferDone(e, phase, expected) => f = e
            /\ f.ioT = e.ioT /\ f.io = e.io /\ f.state = e.state
<1>1. CASE e.counter = 0
  <2>1. esp_transfer_done(e, phase, expected) = Answer(e, {"FC"})
    BY <1>1 DEF esp_transfer_done
  <2>2. Answer(e, {"FC"}).ioT = e.ioT /\ Answer(e, {"FC"}).io = e.io
    BY DEF Answer, EspType
  <2>3. {"FC"} \in SUBSET Causes
    BY DEF Causes
  <2> QED BY <1>1, <2>1, <2>2, <2>3, AnswerType DEF TransferDone
<1>2. CASE e.counter # 0 /\ phase # expected
  <2>. DEFINE f == esp_command_clear(e)
  <2>1. esp_transfer_done(e, phase, expected) = Answer(f, {"BS"})
    BY <1>2 DEF esp_transfer_done
  <2>2. f \in EspType /\ f.ioT = e.ioT /\ f.io = e.io /\ f.state = e.state
    BY ClearType DEF esp_command_clear, EspType
  <2>. HIDE DEF f
  <2>3. Answer(f, {"BS"}).ioT = e.ioT /\ Answer(f, {"BS"}).io = e.io
    BY <2>2 DEF Answer, EspType
  <2>4. {"BS"} \in SUBSET Causes
    BY DEF Causes
  <2> QED BY <1>2, <2>1, <2>2, <2>3, <2>4, AnswerType DEF TransferDone
<1>3. CASE ~TransferDone(e, phase, expected)
  BY <1>3 DEF TransferDone, esp_transfer_done
<1> QED BY <1>1, <1>2, <1>3 DEF TransferDone

(***************************************************************************)
(* The controller with its target.                                          *)
(***************************************************************************)
(* A connected target has been given a command                              *)
Connected(s) == s.esp.state = "DISCONNECTED" \/ Armed(s.dev)

Machines ==
  {s \in [esp : EspType, dev : Dev, disk : Image, told : Image] : Connected(s)}

LEMMA MachineParts ==
  ASSUME NEW s \in Machines
  PROVE  /\ s.esp \in EspType /\ s.dev \in Dev /\ s.disk \in Image /\ s.told \in Image
         /\ Connected(s)
BY DEF Machines

LEMMA WithEsp ==
  ASSUME NEW s \in Machines, NEW e \in EspType, e.state \in {s.esp.state, "DISCONNECTED"}
  PROVE  [s EXCEPT !.esp = e] \in Machines /\ [s EXCEPT !.esp = e].esp = e
                                            /\ [s EXCEPT !.esp = e].dev = s.dev
BY DEF Machines, Connected

LEMMA DevPhase ==
  ASSUME NEW d \in Dev, NEW f \in {"ST", "MI"}
  PROVE  [d EXCEPT !.phase = f] \in Dev /\ Armed([d EXCEPT !.phase = f])
BY DEF Dev, DevType, DevSane, Phases, Armed

LEMMA CauseSets ==
  /\ {"FC"} \in SUBSET Causes /\ {"BS"} \in SUBSET Causes /\ {"DC"} \in SUBSET Causes
  /\ {"RST"} \in SUBSET Causes /\ {"BS", "FC"} \in SUBSET Causes
BY DEF Causes

LEMMA StateType ==
  ASSUME NEW e \in EspType, NEW q \in {"DISCONNECTED", "INITIATOR"}
  PROVE  [e EXCEPT !.state = q] \in EspType
BY DEF EspType

LEMMA SelectType ==
  ASSUME NEW s \in Machines, NEW r \in Sendable
  PROVE  esp_select(s, r) \in Machines /\ esp_select(s, r).esp.irqT
<1>. DEFINE d == SCSI_Emulate_Command(s.dev, r)
            e == esp_command_clear(s.esp)
            a == Answer([e EXCEPT !.state = "DISCONNECTED"], {"DC"})
            b == Answer([e EXCEPT !.state = "INITIATOR"], {"BS", "FC"})
            f == IF r.op = "absent" THEN a ELSE b
<1>1. d \in Dev /\ Armed(d)
  BY MachineParts, CommandType
<1>2. e \in EspType
  BY MachineParts, ClearType
<1>. HIDE DEF e, d
<1>3. [e EXCEPT !.state = "DISCONNECTED"] \in EspType
      /\ [e EXCEPT !.state = "INITIATOR"] \in EspType
  BY <1>2, StateType
<1>4. a \in EspType /\ a.irqT /\ b \in EspType /\ b.irqT
  BY <1>3, AnswerType, CauseSets
<1>5. f \in EspType /\ f.irqT
  BY <1>4
<1>6. esp_select(s, r) = [s EXCEPT !.dev = d, !.esp = f]
  BY DEF esp_select, d, e
<1>. HIDE DEF f
<1> QED BY <1>1, <1>5, <1>6 DEF Machines, Connected

LEMMA BusResetType ==
  ASSUME NEW s \in Machines
  PROVE  /\ esp_bus_reset(s) \in Machines
         /\ ResetReports => esp_bus_reset(s).esp.irqT
         /\ ~ResetReports => esp_bus_reset(s).esp.c1 = "RESET" \/ ~esp_bus_reset(s).esp.waiting
<1>. DEFINE e == esp_reset_soft(s.esp)
            f == Answer(e, {"RST"})
            d == [s.dev EXCEPT !.phase = "MI"]
<1>1. e \in EspType /\ e.state = "DISCONNECTED" /\ (e.c1 = "RESET" \/ ~e.waiting)
  BY MachineParts, SoftType
<1>2. d \in Dev /\ Armed(d)
  BY MachineParts, DevPhase
<1>3. esp_bus_reset(s) = IF ResetReports THEN [s EXCEPT !.esp = f, !.dev = d]
                         ELSE [s EXCEPT !.esp = e]
  BY DEF esp_bus_reset
<1>. HIDE DEF e, d
<1>4. f \in EspType /\ f.irqT
  BY <1>1, AnswerType, CauseSets
<1>. HIDE DEF f
<1>5. CASE ResetReports
  BY <1>2, <1>3, <1>4, <1>5 DEF Machines, Connected
<1>6. CASE ~ResetReports
  BY <1>1, <1>3, <1>6, WithEsp
<1> QED BY <1>5, <1>6

LEMMA PioType ==
  ASSUME NEW s \in Machines
  PROVE  PioTransfer(s) \in Machines /\ PioTransfer(s).esp.irqT
<1>. DEFINE e == [s.esp EXCEPT !.irqT = TRUE]
            d == IF s.dev.phase = "DI" THEN SCSIdisk_Send_Data(s.dev, 1) ELSE s.dev
<1>1. e \in EspType /\ e.irqT /\ e.state = s.esp.state
  BY MachineParts DEF EspType
<1>2. d \in Dev /\ (Armed(s.dev) => Armed(d))
  <2>1. s.dev \in Dev
    BY MachineParts
  <2>2. s.dev.phase = "DI" => 1 <= s.dev.left
    BY <2>1 DEF Dev, DevType, DevSane
  <2> QED BY <2>1, <2>2, SendType
<1>3. PioTransfer(s) = [s EXCEPT !.esp = e, !.dev = d]
  BY DEF PioTransfer
<1>. HIDE DEF e, d
<1> QED BY <1>1, <1>2, <1>3 DEF Machines, Connected

LEMMA CompleteType ==
  ASSUME NEW s \in Machines
  PROVE  /\ esp_initiator_command_complete(s) \in Machines
         /\ esp_initiator_command_complete(s).esp.irqT
<1>. DEFINE d == [s.dev EXCEPT !.phase = "MI"]
            e == Answer(s.esp, {"FC"})
<1>1. d \in Dev /\ Armed(d)
  BY MachineParts, DevPhase
<1>2. e \in EspType /\ e.irqT
  BY MachineParts, AnswerType, CauseSets
<1>3. esp_initiator_command_complete(s) = [s EXCEPT !.dev = d, !.esp = e]
  BY DEF esp_initiator_command_complete
<1>. HIDE DEF e, d
<1> QED BY <1>1, <1>2, <1>3 DEF Machines, Connected

LEMMA AcceptedType ==
  ASSUME NEW s \in Machines
  PROVE  esp_message_accepted(s) \in Machines /\ esp_message_accepted(s).esp.irqT
<1>. DEFINE d == [s.dev EXCEPT !.phase = "ST"]
            q == [s.esp EXCEPT !.state = "DISCONNECTED"]
            e == Answer(q, {"BS"})
<1>1. d \in Dev /\ Armed(d)
  BY MachineParts, DevPhase
<1>2. q \in EspType
  BY MachineParts, StateType
<1>3. esp_message_accepted(s) = [s EXCEPT !.dev = d, !.esp = e]
  BY DEF esp_message_accepted
<1>. HIDE DEF q, d
<1>4. e \in EspType /\ e.irqT
  BY <1>2, AnswerType, CauseSets
<1>. HIDE DEF e
<1> QED BY <1>1, <1>3, <1>4 DEF Machines, Connected

LEMMA ZeroBytes == \A n \in Nat : [i \in 1..n |-> 0] \in Bytes /\ Len([i \in 1..n |-> 0]) = n
BY DEF Bytes

(* Padding ends at once: either count or the data of the target runs out.   *)
LEMMA PadType ==
  ASSUME NEW s \in Machines, s.dev.phase \in {"DI", "DO"}, s.esp.state = "INITIATOR"
  PROVE  esp_transfer_pad(s) \in Machines /\ esp_transfer_pad(s).esp.irqT
<1>. DEFINE n == Smaller(s.esp.counter, s.dev.left)
            zeros == [i \in 1..n |-> 0]
            e == [s.esp EXCEPT !.counter = s.esp.counter - n]
            in == SCSIdisk_Send_Data(s.dev, n)
            out == SCSIdisk_Receive_Data(s.dev, zeros)
<1>1. /\ s.esp \in EspType /\ s.dev \in Dev /\ s.disk \in Image /\ s.told \in Image
      /\ s.esp.counter \in Nat /\ s.dev.left \in Nat /\ s.dev.left > 0 /\ Armed(s.dev)
  BY MachineParts DEF EspType, Dev, DevType, DevSane, Connected, Armed
<1>2. /\ n \in Nat /\ n <= s.dev.left
      /\ (n = s.esp.counter \/ (n = s.dev.left /\ n > 0))
      /\ s.esp.counter - n \in Nat
  BY <1>1 DEF Smaller
<1>3. zeros \in Bytes /\ Len(zeros) = n
  <2>. HIDE DEF n
  <2> QED BY <1>2, ZeroBytes
<1>4. e \in EspType /\ e.counter = s.esp.counter - n
  <2>. HIDE DEF n
  <2>1. PICK k \in Nat : k = s.esp.counter - n
    BY <1>2
  <2> QED BY <1>1, <2>1 DEF EspType
<1>5. CASE s.dev.phase = "DI"
  <2>1. in \in Dev /\ Armed(in)
    <3>. HIDE DEF n
    <3> QED BY <1>1, <1>2, SendType
  <2>2. in.phase = IF n > 0 /\ n = s.dev.left THEN "ST" ELSE s.dev.phase
    <3>. HIDE DEF n
    <3> QED BY <1>1 DEF SCSIdisk_Send_Data, Dev, DevType
  <2>3. TransferDone(e, in.phase, "DI")
    BY <1>2, <1>4, <2>2 DEF TransferDone
  <2>4. esp_transfer_pad(s) = [s EXCEPT !.esp = esp_transfer_done(e, in.phase, "DI"), !.dev = in]
    BY <1>5 DEF esp_transfer_pad
  <2>. HIDE DEF e, in
  <2>5. in.phase \in Phases /\ "DI" \in Phases
    BY <2>1 DEF Dev, DevType, Phases
  <2>6. esp_transfer_done(e, in.phase, "DI") \in EspType /\ esp_transfer_done(e, in.phase, "DI").irqT
    BY <1>4, <2>3, <2>5, DoneType
  <2> QED BY <2>1, <2>4, <2>6 DEF Machines, Connected
<1>6. CASE s.dev.phase = "DO"
  <2>. HIDE DEF n
  <2>1. out \in Dev /\ Armed(out)
    BY <1>1, <1>2, <1>3, <1>6, ReceiveType
  <2>2. out.phase = IF n > 0 /\ n = s.dev.left THEN "ST" ELSE s.dev.phase
    BY <1>1, <1>3 DEF SCSIdisk_Receive_Data, Dev, DevType
  <2>3. TransferDone(e, out.phase, "DO")
    BY <1>2, <1>4, <1>6, <2>2 DEF TransferDone
  <2>4. esp_transfer_pad(s) =
          [s EXCEPT !.esp = esp_transfer_done(e, out.phase, "DO"), !.dev = out,
                    !.disk = scsi_write_sector(s.disk, s.dev, zeros),
                    !.told = AsTold(s.told, s.dev, zeros)]
    BY <1>6 DEF esp_transfer_pad, n
  <2>5. scsi_write_sector(s.disk, s.dev, zeros) \in Image /\ AsTold(s.told, s.dev, zeros) \in Image
    BY <1>1, <1>3, ImageType
  <2>. HIDE DEF e, out, zeros
  <2>6. out.phase \in Phases /\ "DO" \in Phases
    BY <2>1 DEF Dev, DevType, Phases
  <2>7. esp_transfer_done(e, out.phase, "DO") \in EspType /\ esp_transfer_done(e, out.phase, "DO").irqT
    BY <1>4, <2>3, <2>6, DoneType
  <2>8. PICK x \in EspType, y \in Image, z \in Image :
          /\ x = esp_transfer_done(e, out.phase, "DO")
          /\ y = scsi_write_sector(s.disk, s.dev, zeros)
          /\ z = AsTold(s.told, s.dev, zeros)
    BY <2>5, <2>7
  <2>9. esp_transfer_pad(s) = [s EXCEPT !.esp = x, !.dev = out, !.disk = y, !.told = z]
    BY <2>4, <2>8
  <2> QED BY <2>1, <2>7, <2>8, <2>9 DEF Machines, Connected
<1> QED BY <1>5, <1>6

(***************************************************************************)
(* Starting and finishing commands.                                         *)
(***************************************************************************)
(* The controller with the command in progress and, for a DMA command, the  *)
(* counter loaded                                                           *)
Begun(e, c) ==
  IF c \in {"TID", "PADD"} /\ ~IllegalNow(e, c)
  THEN [[e EXCEPT !.inprog = TRUE] EXCEPT !.counter = IF e.count = 0 THEN MaxCounter ELSE e.count]
  ELSE [e EXCEPT !.inprog = TRUE]

LEMMA BegunType ==
  ASSUME NEW e \in EspType, NEW c \in Commands
  PROVE  /\ Begun(e, c) \in EspType
         /\ Begun(e, c).c1 = e.c1 /\ Begun(e, c).waiting = e.waiting
         /\ Begun(e, c).state = e.state
<1>1. PICK k \in Nat : k = IF e.count = 0 THEN MaxCounter ELSE e.count
  BY EspAssumption DEF EspType
<1>2. Begun(e, c) = IF c \in {"TID", "PADD"} /\ ~IllegalNow(e, c)
                    THEN [[e EXCEPT !.inprog = TRUE] EXCEPT !.counter = k]
                    ELSE [e EXCEPT !.inprog = TRUE]
  BY <1>1 DEF Begun
<1>3. [e EXCEPT !.inprog = TRUE] \in EspType
  BY DEF EspType
<1>4. [[e EXCEPT !.inprog = TRUE] EXCEPT !.counter = k] \in EspType
  BY <1>3 DEF EspType
<1> QED BY <1>2, <1>3, <1>4 DEF EspType

LEMMA IllegalAnswer ==
  ASSUME NEW e \in EspType
  PROVE  LET f == Answer(esp_command_clear(e), e.causes \cup {"ILL"})
         IN f \in EspType /\ f.irqT /\ f.state = e.state
<1>1. e.causes \cup {"ILL"} \in SUBSET Causes
  BY DEF EspType, Causes
<1> QED BY <1>1, ClearType, AnswerType

LEMMA StartType ==
  ASSUME NEW s \in Machines, NEW c \in Commands, NEW r \in Sendable, ~Aborts(s, c)
  PROVE  /\ Start(s, c, r) \in Machines
         /\ ~FinishesAtOnce(s.esp, c) => Lively(Start(s, c, r).esp)
         /\ FinishesAtOnce(s.esp, c) =>
              \/ ~Start(s, c, r).esp.waiting
              \/ Start(s, c, r).esp.c1 \in {"RESET", s.esp.c1}
<1>. DEFINE e == Begun(s.esp, c)
            t == [s EXCEPT !.esp = e]
<1>1. s.esp \in EspType /\ s.dev \in Dev
  BY MachineParts
<1>2. e \in EspType /\ e.c1 = s.esp.c1 /\ e.waiting = s.esp.waiting /\ e.state = s.esp.state
  BY <1>1, BegunType
<1>3. t \in Machines /\ t.esp = e /\ t.dev = s.dev
  <2>. HIDE DEF e
  <2> QED BY <1>2, WithEsp
<1>4. CASE IllegalNow(s.esp, c)
  <2>. DEFINE f == Answer(esp_command_clear(e), e.causes \cup {"ILL"})
  <2>1. Start(s, c, r) = [s EXCEPT !.esp = f]
    BY <1>4 DEF Start, Begun
  <2>. HIDE DEF e
  <2>2. f \in EspType /\ f.irqT /\ f.state = s.esp.state
    BY <1>2, IllegalAnswer
  <2>. HIDE DEF f
  <2>3. Start(s, c, r) \in Machines /\ Start(s, c, r).esp = f
    BY <2>1, <2>2, WithEsp
  <2>4. ~FinishesAtOnce(s.esp, c)
    BY <1>4 DEF FinishesAtOnce
  <2> QED BY <2>2, <2>3, <2>4 DEF Lively
<1>5. CASE ~IllegalNow(s.esp, c) /\ c \in {"NOP", "FLUSH", "ENSEL"}
  <2>1. Start(s, c, r) = t
    BY <1>5 DEF Start, Begun
  <2>2. FinishesAtOnce(s.esp, c)
    BY <1>5 DEF FinishesAtOnce
  <2>. HIDE DEF t
  <2> QED BY <1>2, <1>3, <2>1, <2>2
<1>6. CASE ~IllegalNow(s.esp, c) /\ c = "RESET"
  <2>1. Start(s, c, r) = [s EXCEPT !.esp = esp_reset_hard(e)]
    BY <1>6 DEF Start, Begun
  <2>2. FinishesAtOnce(s.esp, c)
    BY <1>6 DEF FinishesAtOnce
  <2>. HIDE DEF e
  <2>3. esp_reset_hard(e) \in EspType /\ esp_reset_hard(e).state = "DISCONNECTED"
        /\ (esp_reset_hard(e).c1 = "RESET" \/ ~esp_reset_hard(e).waiting)
    BY <1>2, HardType
  <2>4. Start(s, c, r) \in Machines /\ Start(s, c, r).esp = esp_reset_hard(e)
    BY <2>1, <2>3, WithEsp
  <2> QED BY <2>2, <2>3, <2>4
<1>7. CASE ~IllegalNow(s.esp, c) /\ c = "BUSRESET"
  <2>1. Start(s, c, r) = esp_bus_reset(t)
    BY <1>7 DEF Start, Begun
  <2>. HIDE DEF t
  <2>2. FinishesAtOnce(s.esp, c) <=> ~ResetReports
    BY <1>7 DEF FinishesAtOnce
  <2> QED BY <1>3, <2>1, <2>2, BusResetType DEF Lively
<1>8. CASE ~IllegalNow(s.esp, c) /\ c = "SEL"
  <2>1. Start(s, c, r) = esp_select(t, r)
    BY <1>8 DEF Start, Begun
  <2>. HIDE DEF t
  <2>2. ~FinishesAtOnce(s.esp, c)
    BY <1>8 DEF FinishesAtOnce
  <2> QED BY <1>3, <2>1, <2>2, SelectType DEF Lively
<1>9. CASE ~IllegalNow(s.esp, c) /\ c = "TID"
  <2>. DEFINE f == [e EXCEPT !.io = "TRANSFERING", !.ioT = TRUE]
  <2>1. Start(s, c, r) = [s EXCEPT !.esp = f]
    BY <1>9 DEF Start, Begun
  <2>. HIDE DEF e
  <2>2. f \in EspType /\ f.ioT /\ f.io = "TRANSFERING" /\ f.state = s.esp.state
    BY <1>2 DEF EspType
  <2>. HIDE DEF f
  <2>3. Start(s, c, r) \in Machines /\ Start(s, c, r).esp = f
    BY <2>1, <2>2, WithEsp
  <2>4. ~FinishesAtOnce(s.esp, c)
    BY <1>9 DEF FinishesAtOnce
  <2> QED BY <2>2, <2>3, <2>4 DEF Lively
<1>10. CASE ~IllegalNow(s.esp, c) /\ c = "TI"
  <2>1. Start(s, c, r) = PioTransfer(t)
    BY <1>10 DEF Start, Begun
  <2>. HIDE DEF t
  <2>2. ~FinishesAtOnce(s.esp, c)
    BY <1>10 DEF FinishesAtOnce
  <2> QED BY <1>3, <2>1, <2>2, PioType DEF Lively
<1>11. CASE ~IllegalNow(s.esp, c) /\ c \in {"PAD", "PADD"}
  <2>1. Start(s, c, r) = esp_transfer_pad(t)
    BY <1>11 DEF Start, Begun
  <2>. HIDE DEF t
  <2>2. ~FinishesAtOnce(s.esp, c)
    BY <1>11 DEF FinishesAtOnce
  <2>3. t.dev.phase \in {"DI", "DO"} /\ t.esp.state = "INITIATOR"
    BY <1>1, <1>2, <1>3, <1>11 DEF Aborts, IllegalNow, EspType
  <2> QED BY <1>3, <2>1, <2>2, <2>3, PadType DEF Lively
<1>12. CASE ~IllegalNow(s.esp, c) /\ c = "ICCS"
  <2>1. Start(s, c, r) = esp_initiator_command_complete(t)
    BY <1>12 DEF Start, Begun
  <2>. HIDE DEF t
  <2>2. ~FinishesAtOnce(s.esp, c)
    BY <1>12 DEF FinishesAtOnce
  <2> QED BY <1>3, <2>1, <2>2, CompleteType DEF Lively
<1>13. CASE ~IllegalNow(s.esp, c) /\ c = "MSGACC"
  <2>1. Start(s, c, r) = esp_message_accepted(t)
    BY <1>13 DEF Start, Begun
  <2>. HIDE DEF t
  <2>2. ~FinishesAtOnce(s.esp, c)
    BY <1>13 DEF FinishesAtOnce
  <2> QED BY <1>3, <2>1, <2>2, AcceptedType DEF Lively
<1>14. c = "ILL" => IllegalNow(s.esp, c)
  BY DEF IllegalNow
<1> QED BY <1>4, <1>5, <1>6, <1>7, <1>8, <1>9, <1>10, <1>11, <1>12, <1>13, <1>14 DEF Commands

LEMMA IdleType ==
  ASSUME NEW s \in Machines
  PROVE  Idle(s) \in Machines /\ Lively(Idle(s).esp)
<1>. DEFINE e == [s.esp EXCEPT !.inprog = FALSE]
<1>1. e \in EspType /\ ~e.inprog /\ e.state = s.esp.state
  BY MachineParts DEF EspType
<1>2. Idle(s) = [s EXCEPT !.esp = e]
  BY DEF Idle
<1>. HIDE DEF e
<1> QED BY <1>1, <1>2, WithEsp DEF Lively

(* Unless the waiting command aborts, finishing a command leaves the        *)
(* controller idle or with a lively command.                                *)
LEMMA FinishType ==
  ASSUME NEW s \in Machines, NEW r \in Sendable,
         s.esp.waiting => ~Aborts(s, s.esp.c1)
  PROVE  esp_finish_command(s, r) \in Machines /\ Lively(esp_finish_command(s, r).esp)
<1>1. CASE ~s.esp.waiting
  BY <1>1, IdleType DEF esp_finish_command
<1>2. CASE s.esp.waiting
  <2>. DEFINE p == Promoted(s)
              e == [s.esp EXCEPT !.inprog = FALSE, !.c0 = s.esp.c1, !.c1 = "NOP",
                                 !.waiting = FALSE]
              t == Start(p, s.esp.c1, r)
  <2>1. s.esp \in EspType /\ s.esp.c1 \in Commands
    BY MachineParts DEF EspType
  <2>2. e \in EspType /\ e.state = s.esp.state
    BY <2>1 DEF EspType, Commands
  <2>3. p = [s EXCEPT !.esp = e]
    BY DEF Promoted
  <2>. HIDE DEF p, e
  <2>4. p \in Machines /\ p.esp = e /\ p.dev = s.dev
    BY <2>2, <2>3, WithEsp
  <2>5. ~Aborts(p, s.esp.c1)
    BY <1>2, <2>2, <2>4 DEF Aborts, IllegalNow
  <2>6. /\ t \in Machines
        /\ ~FinishesAtOnce(p.esp, s.esp.c1) => Lively(t.esp)
    BY <2>1, <2>4, <2>5, StartType
  <2>7. esp_finish_command(s, r) = IF FinishesAtOnce(p.esp, s.esp.c1) THEN Idle(t) ELSE t
    BY <1>2 DEF esp_finish_command, p
  <2>. HIDE DEF t
  <2> QED BY <2>6, <2>7, IdleType
<1> QED BY <1>1, <1>2

LEMMA StartCommandType ==
  ASSUME NEW s \in Machines, NEW c \in Commands, NEW r \in Sendable, ~Aborts(s, c),
         s.esp.c1 \in {"NOP", "RESET", "BUSRESET"}
  PROVE  esp_start_command(s, c, r) \in Machines /\ Lively(esp_start_command(s, c, r).esp)
<1>. DEFINE t == Start(s, c, r)
<1>1. /\ t \in Machines
      /\ ~FinishesAtOnce(s.esp, c) => Lively(t.esp)
      /\ FinishesAtOnce(s.esp, c) => ~t.esp.waiting \/ t.esp.c1 \in {"RESET", s.esp.c1}
  BY StartType
<1>2. esp_start_command(s, c, r) = IF FinishesAtOnce(s.esp, c) THEN esp_finish_command(t, r) ELSE t
  BY DEF esp_start_command
<1>. HIDE DEF t
<1>3. CASE FinishesAtOnce(s.esp, c)
  <2>1. t.esp.waiting => ~Aborts(t, t.esp.c1)
    BY <1>1, <1>3 DEF Aborts
  <2> QED BY <1>1, <1>2, <1>3, <2>1, FinishType
<1>4. CASE ~FinishesAtOnce(s.esp, c)
  BY <1>1, <1>2, <1>4
<1> QED BY <1>3, <1>4

LEMMA TopType ==
  ASSUME NEW e \in EspType, NEW c \in Commands
  PROVE  TopAfter(e, c) \in Commands
BY DEF TopAfter, Commands

(* A written command is started, queued behind a lively one, or resets.     *)
LEMMA CommandWriteType ==
  ASSUME NEW s \in Machines, NEW c \in Commands, NEW r \in Sendable, Lively(s.esp),
         ~s.esp.inprog => ~Aborts(s, TopAfter(s.esp, c))
  PROVE  esp_command_write(s, c, r) \in Machines /\ Lively(esp_command_write(s, c, r).esp)
<1>. DEFINE top == TopAfter(s.esp, c)
            f == [s.esp EXCEPT !.c1 = top]
            t == [s EXCEPT !.esp = f]
<1>1. s.esp \in EspType
  BY MachineParts
<1>2. top \in Commands
  BY <1>1, TopType
<1>. HIDE DEF top
<1>3. /\ f \in EspType /\ f.state = s.esp.state
      /\ f.c1 = top /\ f.inprog = s.esp.inprog /\ f.int = s.esp.int
      /\ f.irqT = s.esp.irqT /\ f.ioT = s.esp.ioT /\ f.io = s.esp.io
  BY <1>1, <1>2 DEF EspType
<1>. HIDE DEF f
<1>4. t \in Machines /\ t.esp = f /\ t.dev = s.dev
  BY <1>3, WithEsp
<1>. HIDE DEF t
<1>5. CASE top \in {"RESET", "BUSRESET"}
  <2>1. esp_command_write(s, c, r) = esp_start_command(t, top, r)
    BY <1>5 DEF esp_command_write, top, t, f
  <2>2. ~Aborts(t, top)
    BY <1>5 DEF Aborts
  <2> QED BY <1>2, <1>3, <1>4, <1>5, <2>1, <2>2, StartCommandType
<1>6. CASE top \notin {"RESET", "BUSRESET"} /\ s.esp.inprog
  <2>. DEFINE g == [f EXCEPT !.waiting = TRUE]
  <2>1. esp_command_write(s, c, r) = [t EXCEPT !.esp = [t.esp EXCEPT !.waiting = TRUE]]
    BY <1>6 DEF esp_command_write, top, t, f
  <2>2. esp_command_write(s, c, r) = [t EXCEPT !.esp = g]
    BY <1>4, <2>1
  <2>3. /\ g \in EspType /\ g.state = f.state /\ g.inprog = f.inprog /\ g.int = f.int
        /\ g.irqT = f.irqT /\ g.ioT = f.ioT /\ g.io = f.io
    BY <1>3 DEF EspType
  <2>. HIDE DEF g
  <2>4. [t EXCEPT !.esp = g] \in Machines /\ [t EXCEPT !.esp = g].esp = g
    BY <1>4, <2>3, WithEsp
  <2> QED BY <1>3, <2>2, <2>3, <2>4 DEF Lively
<1>7. CASE top \notin {"RESET", "BUSRESET"} /\ ~s.esp.inprog
  <2>. DEFINE g == [f EXCEPT !.c0 = top, !.c1 = "NOP"]
              u == [t EXCEPT !.esp = g]
  <2>1. esp_command_write(s, c, r) =
          esp_start_command([t EXCEPT !.esp = [t.esp EXCEPT !.c0 = top, !.c1 = "NOP"]], top, r)
    BY <1>7 DEF esp_command_write, top, t, f
  <2>2. esp_command_write(s, c, r) = esp_start_command(u, top, r)
    BY <1>4, <2>1
  <2>3. g \in EspType /\ g.c1 = "NOP" /\ g.state = s.esp.state
    BY <1>1, <1>2, <1>3 DEF EspType, Commands, f
  <2>. HIDE DEF g
  <2>4. u \in Machines /\ u.esp = g /\ u.dev = s.dev
    BY <1>3, <1>4, <2>3, WithEsp
  <2>. HIDE DEF u
  <2>5. ~Aborts(u, top)
    BY <1>7, <2>3, <2>4 DEF Aborts, IllegalNow, top
  <2> QED BY <1>2, <2>2, <2>3, <2>4, <2>5, StartCommandType
<1> QED BY <1>5, <1>6, <1>7

LEMMA LowerType ==
  ASSUME NEW s \in Machines, NEW r \in Sendable,
         s.esp.waiting => ~Aborts(s, s.esp.c1)
  PROVE  esp_lower_irq(s, r) \in Machines /\ Lively(esp_lower_irq(s, r).esp)
<1>. DEFINE f == [s.esp EXCEPT !.int = FALSE]
            t == [s EXCEPT !.esp = f]
<1>1. s.esp \in EspType
  BY MachineParts
<1>2. /\ f \in EspType /\ f.c1 = s.esp.c1 /\ f.waiting = s.esp.waiting
      /\ f.state = s.esp.state
  BY <1>1 DEF EspType
<1>3. esp_lower_irq(s, r) = esp_finish_command(t, r)
  BY DEF esp_lower_irq
<1>. HIDE DEF f
<1>4. t \in Machines /\ t.esp = f /\ t.dev = s.dev
  BY <1>2, WithEsp
<1>. HIDE DEF t
<1>5. t.esp.waiting => ~Aborts(t, t.esp.c1)
  BY <1>2, <1>4 DEF Aborts, IllegalNow
<1> QED BY <1>3, <1>4, <1>5, FinishType

(***************************************************************************)
(* What the transfers carry.                                                *)
(***************************************************************************)
LEMMA BytesOfFunction ==
  ASSUME NEW n \in Nat, NEW f, f \in [1..n -> Int]
  PROVE  f \in Bytes /\ Len(f) = n
BY DEF Bytes

LEMMA DataType ==
  ASSUME NEW s \in Machines, NEW n \in Nat,
         n = 0 \/ (s.dev.phase = "DI" /\ n <= s.dev.left)
  PROVE  DataFrom(s, n) \in Bytes /\ Len(DataFrom(s, n)) = n
<1>1. s.dev \in Dev /\ s.dev.pos \in Nat /\ s.dev.left \in Nat /\ s.disk \in Image
  BY MachineParts DEF Dev, DevType
<1>2. ASSUME NEW i \in 1..n
      PROVE  (IF s.dev.op = "read" THEN s.disk[s.dev.pos + i - 1] ELSE 0 - (s.dev.pos + i)) \in Int
  <2>1. CASE s.dev.op = "read"
    <3>1. s.dev.pos + s.dev.left <= DiskBytes
      BY <1>1, <1>2, <2>1 DEF Dev, DevSane
    <3>2. s.dev.pos + i - 1 \in 0..(DiskBytes - 1)
      BY <1>1, <1>2, <3>1, DiskSize
    <3> QED BY <1>1, <2>1, <3>2 DEF Image
  <2>2. CASE s.dev.op # "read"
    BY <1>1, <2>2
  <2> QED BY <2>1, <2>2
<1>3. DataFrom(s, n) \in [1..n -> Int]
  BY <1>2 DEF DataFrom
<1> QED BY <1>3, BytesOfFunction

LEMMA MemoryType ==
  ASSUME NEW a \in Nat, NEW n \in Nat
  PROVE  MemoryFrom(a, n) \in Bytes /\ Len(MemoryFrom(a, n)) = n
<1>1. MemoryFrom(a, n) \in [1..n -> Int]
  BY DiskSize DEF MemoryFrom
<1> QED BY <1>1, BytesOfFunction

LEMMA ReachType ==
  ASSUME Sane(ch), NEW reach \in Reaches
  PROVE  reach \in 0..(ch.limit - ch.next) /\ reach \in Nat /\ Multiple(reach)
<1>1. /\ ch.next \in Nat /\ ch.limit \in Nat /\ ch.next <= ch.limit
      /\ Multiple(ch.next) /\ Multiple(ch.limit)
  BY ChannelParts DEF Sane
<1>2. ch.next \in Int /\ ch.limit \in Int
  BY <1>1
<1>3. Multiple(ch.limit - ch.next)
  BY <1>1, <1>2, Multiples
<1>4. reach \in 0..(ch.limit - ch.next) /\ (reach % Word = 0 \/ reach = ch.limit - ch.next)
  BY <1>1 DEF Reaches
<1>5. reach \in Nat /\ reach \in Int
  BY <1>1, <1>4
<1> QED BY <1>3, <1>4, <1>5, MultipleMod

LEMMA BufferAddresses ==
  ASSUME NEW b \in Buffers
  PROVE  /\ b[1] \in Nat /\ b[2] \in Nat /\ b[1] <= b[2]
         /\ Multiple(b[1]) /\ Multiple(b[2])
<1>1. /\ b[1] \in Nat /\ b[2] \in Nat /\ b[1] <= b[2]
      /\ b[1] % Word = 0 /\ b[2] % Burst = 0
  BY ScsiAssumption
<1>2. b[1] \in Int /\ b[2] \in Int /\ Burst \in Nat \ {0}
  BY <1>1, DmaAssumption
<1>3. Multiple(b[1])
  BY <1>1, <1>2, MultipleMod
<1>4. PICK q \in Int : b[2] = q * Burst + (b[2] % Burst)
  BY <1>2, ModQuotient
<1>5. Multiple(q * Burst) /\ q * Burst \in Int
  BY TimesBurst
<1>6. b[2] = q * Burst
  BY <1>1, <1>4, <1>5
<1> QED BY <1>1, <1>3, <1>5, <1>6

(***************************************************************************)
(* The inductive invariant.  Beside what is to be shown, the channel is     *)
(* sane, owes nothing unless it is torn, and the target is sane.            *)
(***************************************************************************)
ChannelInv ==
  /\ Sane(ch)
  /\ ~torn => ch.debt = 0
  /\ inb \in Bytes /\ outb \in Bytes /\ torn \in BOOLEAN
  /\ unreported \subseteq Nat /\ dmaLine \in BOOLEAN
  /\ Conserved
  /\ ReportedUnlessFault

BusInv ==
  /\ esp \in EspType /\ dev \in Dev /\ disk \in Image /\ told \in Image
  /\ esp.state = "DISCONNECTED" \/ Armed(dev)
  /\ Lively(esp)

Counters == selections \in Nat /\ starts \in Nat

Inv == ChannelInv /\ BusInv /\ Counters

LEMMA InvImplies ==
  Inv => TypeOK /\ Conserved /\ WithinBuffer /\ ReportedUnlessFault /\ NeverWedged
<1>. SUFFICES ASSUME Inv
              PROVE  TypeOK /\ Conserved /\ WithinBuffer /\ ReportedUnlessFault /\ NeverWedged
  OBVIOUS
<1>1. TypeOK
  BY DEF Inv, ChannelInv, BusInv, Counters, TypeOK, Sane, Dev, Image, Bytes
<1>2. WithinBuffer
  BY DEF Inv, ChannelInv, Sane, WithinBuffer
<1>3. NeverWedged
  BY DEF Inv, BusInv, Lively, NeverWedged
<1> QED BY <1>1, <1>2, <1>3 DEF Inv, ChannelInv

LEMMA MachineType ==
  ASSUME BusInv
  PROVE  /\ Machine \in Machines /\ Machine.esp = esp /\ Machine.dev = dev
         /\ Machine.disk = disk /\ Machine.told = told
BY DEF BusInv, Machine, Machines, Connected

LEMMA InitInv == Init => Inv
<1>. SUFFICES ASSUME Init PROVE Inv
  OBVIOUS
<1>1. ChannelInv
  <2>1. Sane(ch) /\ ch.debt = 0 /\ ch.pend = <<>>
    BY ResetSane DEF Init, ChannelReset
  <2>2. << >> \in Bytes
    BY DEF Bytes
  <2>3. << >> \o << >> = << >>
    OBVIOUS
  <2> QED BY <2>1, <2>2, <2>3 DEF Init, ChannelInv, Conserved, ReportedUnlessFault
<1>2. BusInv
  <2>1. esp \in EspType /\ Lively(esp) /\ esp.state = "DISCONNECTED"
    BY DEF Init, EspReset, EspType, Commands, Causes, Lively
  <2>2. dev \in Dev
    <3>1. << >> \in Seq(Int)
      OBVIOUS
    <3> QED BY <3>1 DEF Init, DevReset, Dev, DevType, DevSane, Phases
  <2>3. disk \in Image /\ told \in Image
    BY DiskSize DEF Init, Image
  <2> QED BY <2>1, <2>2, <2>3 DEF BusInv
<1>3. Counters
  BY DEF Init, Counters
<1> QED BY <1>1, <1>2, <1>3 DEF Inv

(***************************************************************************)
(* Steps of the channel.                                                    *)
(***************************************************************************)
PipeStep == [P!PipeNext]_(P!pipeVars)

LEMMA PrecedesConcat ==
  ASSUME NEW a \in Bytes, NEW b \in Bytes
  PROVE  P!Precedes(a, a \o b)
<1>1. Len(a) \in Nat /\ Len(b) \in Nat /\ Len(a \o b) = Len(a) + Len(b)
  BY DEF Bytes
<1>2. SubSeq(a \o b, 1, Len(a)) = a
  BY SubSeqOfConcat1, SubSeqFull DEF Bytes
<1> QED BY <1>1, <1>2 DEF P!Precedes

(* A channel that moves bytes in order moves them like a pipe.              *)
LEMMA MoveIsPipe ==
  ASSUME ChannelInv, ChannelInv',
         NEW in \in Bytes, NEW out \in Bytes,
         inb' = inb \o in, outb' = outb \o out, torn' = torn
  PROVE  PipeStep
<1>1. CASE torn
  BY <1>1 DEF PipeStep, P!PipeNext, P!Tear, ChannelInv
<1>2. CASE ~torn
  <2>1. /\ inb \in Bytes /\ outb \in Bytes /\ outb' \in Bytes /\ ch' \in Channel
        /\ ch'.debt = 0 /\ inb' = outb' \o ch'.pend /\ Idx(ch') \in 0..Burst
    BY <1>2 DEF ChannelInv, Conserved, Sane
  <2>2. ch'.pend \in Bytes /\ Len(ch'.pend) \in Nat /\ ch'.fill \in 0..Burst
    BY <2>1, ChannelParts DEF Bytes
  <2>3. Len(ch'.pend) <= Burst
    BY <2>1, <2>2, DmaAssumption DEF Idx, BufSize
  <2>4. Len(inb') - Len(outb') <= Burst
    BY <2>1, <2>2, <2>3, ConcatBytes DEF Bytes
  <2>5. P!Precedes(inb, inb') /\ P!Precedes(outb, outb') /\ P!Precedes(outb', inb')
    BY <2>1, <2>2, PrecedesConcat
  <2>6. P!Move
    BY <1>2, <2>4, <2>5 DEF P!Move
  <2> QED BY <2>6 DEF PipeStep, P!PipeNext
<1> QED BY <1>1, <1>2

LEMMA StillPipe ==
  ASSUME UNCHANGED history
  PROVE  PipeStep
BY DEF history, PipeStep, P!pipeVars

LEMMA EmptyIsPipe ==
  ASSUME EmptyPipe
  PROVE  PipeStep
BY DEF EmptyPipe, PipeStep, P!PipeNext, P!Reset

(* A write to the CSR keeps the channel sane, and its bytes unless it says  *)
(* otherwise.                                                               *)
LEMMA CsrStep ==
  ASSUME ChannelInv, NEW c, Sane(c), NEW cmd, CsrWrite(c, cmd),
         "INITBUF" \in cmd \/ (c.dev2m <=> "DEV2M" \in cmd), c.busexc = ch.busexc,
         \/ "INITBUF" \notin cmd /\ c.pend = ch.pend /\ c.debt = ch.debt /\ UNCHANGED history
         \/ ("INITBUF" \in cmd \/ (c.pend = <<>> /\ c.debt = 0)) /\ EmptyPipe
  PROVE  ChannelInv' /\ PipeStep
<1>. DEFINE t == DMA_CSR_Write(c, cmd)
<1>1. /\ Sane(t) /\ t.busexc = ch.busexc
      /\ "INITBUF" \in cmd => t.pend = <<>> /\ t.debt = 0
      /\ "INITBUF" \notin cmd => t.pend = c.pend /\ t.debt = c.debt
  BY CsrSane
<1>2. ch' = t /\ dmaLine' = FALSE /\ unreported' = unreported
  BY DEF CsrWrite
<1>. HIDE DEF t
<1>3. CASE t.pend = ch.pend /\ t.debt = ch.debt /\ UNCHANGED history
  <2>1. ChannelInv'
    BY <1>1, <1>2, <1>3 DEF ChannelInv, Conserved, ReportedUnlessFault, history
  <2> QED BY <1>3, <2>1, StillPipe
<1>4. CASE t.pend = <<>> /\ t.debt = 0 /\ EmptyPipe
  <2>1. << >> \in Bytes /\ << >> \o << >> = << >>
    BY DEF Bytes
  <2>2. ChannelInv'
    BY <1>1, <1>2, <1>4, <2>1 DEF ChannelInv, Conserved, ReportedUnlessFault, EmptyPipe
  <2> QED BY <1>4, <2>2, EmptyIsPipe
<1> QED BY <1>1, <1>3, <1>4

LEMMA DirectionSame ==
  ASSUME NEW cmd, "DEV2M" \notin cmd
  PROVE  ch.dev2m <=> "DEV2M" \in cmd \cup Direction
BY DEF Direction

LEMMA GuestChannelStep ==
  ASSUME ChannelInv,
         \/ \E direction \in {{}, {"DEV2M"}} : ResetChannel(direction)
         \/ \E b \in Buffers : StartSingle(b) \/ StartAligned(b) \/ ContinueChaining(b)
         \/ \E b, then \in Buffers : StartChained(b, then)
         \/ EndChaining
  PROVE  ChannelInv' /\ PipeStep
<1>0. Sane(ch) /\ ch \in Channel
  BY DEF ChannelInv, Sane
<1>1. ASSUME NEW direction \in {{}, {"DEV2M"}}, ResetChannel(direction)
      PROVE  ChannelInv' /\ PipeStep
  BY <1>0, <1>1, CsrStep DEF ResetChannel
<1>2. ASSUME NEW b \in Buffers, StartSingle(b)
      PROVE  ChannelInv' /\ PipeStep
  <2>. DEFINE c == DMA_Next_Limit_Write(b)
              cmd == {"SETENABLE"} \cup Direction
  <2>1. Sane(c)
    BY <1>0, BufferAddresses, ProgramSane DEF DMA_Next_Limit_Write
  <2>2. c.busexc = ch.busexc /\ c.pend = ch.pend /\ c.debt = ch.debt /\ c.dev2m = ch.dev2m
    BY <1>0 DEF DMA_Next_Limit_Write, Channel
  <2>3. "INITBUF" \notin cmd /\ (ch.dev2m <=> "DEV2M" \in cmd)
    BY DirectionSame DEF Direction
  <2>4. CsrWrite(c, cmd) /\ UNCHANGED history
    BY <1>2 DEF StartSingle
  <2>. HIDE DEF c, cmd
  <2> QED BY <2>1, <2>2, <2>3, <2>4, CsrStep
<1>3. ASSUME NEW b \in Buffers, StartAligned(b)
      PROVE  ChannelInv' /\ PipeStep
  <2>. DEFINE k == b[1] % Burst
              i == dma_initialize_buffer(ch, k)
              c == [i EXCEPT !.next = b[1], !.limit = b[2]]
              cmd == {"SETENABLE"} \cup Direction
  <2>1. b[1] \in Int /\ Multiple(b[1]) /\ Burst \in Nat \ {0}
    BY BufferAddresses, DmaAssumption
  <2>2. k \in 0..Burst /\ Multiple(k)
    <3>1. k \in 0..(Burst - 1)
      BY <2>1, ModRange
    <3>2. Multiple(k)
      BY <2>1, MultipleRemainder
    <3> QED BY <2>1, <3>1, <3>2
  <2>. HIDE DEF k
  <2>3. Sane(i) /\ i.pend = <<>> /\ i.debt = 0 /\ i.busexc = ch.busexc
    BY <1>0, <2>2, InitializeSane
  <2>4. i.dev2m = ch.dev2m
    BY <1>0 DEF dma_initialize_buffer, Channel
  <2>. HIDE DEF i
  <2>5. Sane(c)
    BY <2>3, BufferAddresses, ProgramSane
  <2>6. c.busexc = i.busexc /\ c.pend = i.pend /\ c.debt = i.debt /\ c.dev2m = i.dev2m
    BY <2>3 DEF Sane, Channel
  <2>7. "INITBUF" \notin cmd /\ (ch.dev2m <=> "DEV2M" \in cmd)
    BY DirectionSame DEF Direction
  <2>8. CsrWrite(c, cmd) /\ EmptyPipe
    BY <1>3 DEF StartAligned, DMA_Init_Write, i, k
  <2>. HIDE DEF c, cmd
  <2> QED BY <2>3, <2>4, <2>5, <2>6, <2>7, <2>8, CsrStep
<1>4. ASSUME NEW b \in Buffers, ContinueChaining(b)
      PROVE  ChannelInv' /\ PipeStep
  <2>. DEFINE c == DMA_Start_Stop_Write(ch, b)
              cmd == {"SETSUPDATE", "CLRCOMPLETE"} \cup Direction
  <2>1. Sane(c)
    BY <1>0, BufferAddresses, ProgramSane DEF DMA_Start_Stop_Write
  <2>2. c.busexc = ch.busexc /\ c.pend = ch.pend /\ c.debt = ch.debt /\ c.dev2m = ch.dev2m
    BY <1>0 DEF DMA_Start_Stop_Write, Channel
  <2>3. "INITBUF" \notin cmd /\ (ch.dev2m <=> "DEV2M" \in cmd)
    BY DirectionSame DEF Direction
  <2>4. CsrWrite(c, cmd) /\ UNCHANGED history
    BY <1>4 DEF ContinueChaining
  <2>. HIDE DEF c, cmd
  <2> QED BY <2>1, <2>2, <2>3, <2>4, CsrStep
<1>5. ASSUME NEW b \in Buffers, NEW then \in Buffers, StartChained(b, then)
      PROVE  ChannelInv' /\ PipeStep
  <2>. DEFINE i == DMA_Next_Limit_Write(b)
              c == DMA_Start_Stop_Write(i, then)
              cmd == {"SETENABLE", "SETSUPDATE", "CLRCOMPLETE"} \cup Direction
  <2>1. Sane(i)
    BY <1>0, BufferAddresses, ProgramSane DEF DMA_Next_Limit_Write
  <2>2. i.busexc = ch.busexc /\ i.pend = ch.pend /\ i.debt = ch.debt /\ i.dev2m = ch.dev2m
    BY <1>0 DEF DMA_Next_Limit_Write, Channel
  <2>. HIDE DEF i
  <2>3. Sane(c)
    BY <2>1, BufferAddresses, ProgramSane DEF DMA_Start_Stop_Write
  <2>4. c.busexc = i.busexc /\ c.pend = i.pend /\ c.debt = i.debt /\ c.dev2m = i.dev2m
    BY <2>1 DEF DMA_Start_Stop_Write, Sane, Channel
  <2>5. "INITBUF" \notin cmd /\ (ch.dev2m <=> "DEV2M" \in cmd)
    BY DirectionSame DEF Direction
  <2>6. CsrWrite(c, cmd) /\ UNCHANGED history
    BY <1>5 DEF StartChained, i
  <2>. HIDE DEF c, cmd
  <2> QED BY <2>2, <2>3, <2>4, <2>5, <2>6, CsrStep
<1>6. ASSUME EndChaining
      PROVE  ChannelInv' /\ PipeStep
  <2>. DEFINE cmd == {"CLRCOMPLETE"} \cup Direction
  <2>1. "INITBUF" \notin cmd /\ (ch.dev2m <=> "DEV2M" \in cmd)
    BY DirectionSame DEF Direction
  <2>2. CsrWrite(ch, cmd) /\ UNCHANGED history
    BY <1>6 DEF EndChaining
  <2>. HIDE DEF cmd
  <2> QED BY <1>0, <2>1, <2>2, CsrStep
<1> QED BY <1>1, <1>2, <1>3, <1>4, <1>5, <1>6

LEMMA Associates ==
  ASSUME NEW a \in Seq(Int), NEW b \in Seq(Int), NEW c \in Seq(Int)
  PROVE  (a \o b) \o c = a \o (b \o c)
<1>. DEFINE l == (a \o b) \o c
            r == a \o (b \o c)
<1>1. /\ Len(a) \in Nat /\ Len(b) \in Nat /\ Len(c) \in Nat
      /\ a \o b \in Seq(Int) /\ b \o c \in Seq(Int)
      /\ Len(a \o b) = Len(a) + Len(b) /\ Len(b \o c) = Len(b) + Len(c)
  OBVIOUS
<1>2. /\ l \in Seq(Int) /\ r \in Seq(Int)
      /\ Len(l) = Len(a) + Len(b) + Len(c) /\ Len(r) = Len(a) + Len(b) + Len(c)
  BY <1>1
<1>3. ASSUME NEW i \in 1..(Len(a) + Len(b) + Len(c))
      PROVE  l[i] = r[i]
  <2>1. CASE i <= Len(a)
    <3>1. l[i] = (a \o b)[i] /\ (a \o b)[i] = a[i] /\ r[i] = a[i]
      BY <1>1, <2>1
    <3> QED BY <3>1
  <2>2. CASE Len(a) < i /\ i <= Len(a) + Len(b)
    <3>1. l[i] = (a \o b)[i] /\ (a \o b)[i] = b[i - Len(a)]
      BY <1>1, <2>2
    <3>2. r[i] = (b \o c)[i - Len(a)] /\ (b \o c)[i - Len(a)] = b[i - Len(a)]
      BY <1>1, <2>2
    <3> QED BY <3>1, <3>2
  <2>3. CASE Len(a) + Len(b) < i
    <3>1. l[i] = c[i - (Len(a) + Len(b))]
      BY <1>1, <2>3
    <3>2. r[i] = (b \o c)[i - Len(a)] /\ (b \o c)[i - Len(a)] = c[i - Len(a) - Len(b)]
      BY <1>1, <2>3
    <3>3. i - (Len(a) + Len(b)) = i - Len(a) - Len(b)
      BY <1>1
    <3> QED BY <3>1, <3>2, <3>3
  <2> QED BY <1>1, <2>1, <2>2, <2>3
<1>. HIDE DEF l, r
<1>4. l = r
  BY <1>2, <1>3, SeqEqual
<1> QED BY <1>4 DEF l, r

(* The end of a transfer: moved is the channel when the loop is left, fault *)
(* whether a bus error ended it, and gone the addresses written.            *)
LEMMA TransferStep ==
  ASSUME ChannelInv, NEW moved, Sane(moved), NEW fault \in BOOLEAN,
         moved.busexc = ch.busexc, ~torn => moved.debt = 0,
         NEW in \in Bytes, NEW out \in Bytes, NEW gone \in SUBSET Nat,
         ~torn => ch.pend \o in = out \o moved.pend,
         EndTransfer(IF fault THEN BusError(moved) ELSE moved),
         unreported' \subseteq unreported \/ (fault /\ unreported' \subseteq unreported \cup gone),
         inb' = inb \o in, outb' = outb \o out, torn' = torn
  PROVE  ChannelInv' /\ PipeStep
<1>. DEFINE c == IF fault THEN BusError(moved) ELSE moved
            t == dma_interrupt(c)
<1>1. /\ Sane(c) /\ c.pend = moved.pend /\ c.debt = moved.debt
      /\ (fault => c.busexc) /\ (~fault => c.busexc = ch.busexc) /\ (ch.busexc => c.busexc)
  BY BusErrorSane
<1>. HIDE DEF c
<1>2. Sane(t) /\ t.pend = c.pend /\ t.debt = c.debt /\ t.busexc = c.busexc
  BY <1>1, InterruptSane
<1>3. ch' = t /\ dmaLine' \in BOOLEAN
  BY DEF EndTransfer, c
<1>. HIDE DEF t
<1>4. inb' \in Bytes /\ outb' \in Bytes /\ unreported' \subseteq Nat
  BY ConcatBytes DEF ChannelInv
<1>5. Conserved'
  <2>. SUFFICES ASSUME ~torn PROVE inb' = outb' \o ch'.pend
    BY DEF Conserved
  <2>1. /\ inb = outb \o ch.pend /\ ch.pend \in Bytes /\ moved.pend \in Bytes
        /\ outb \in Bytes /\ ch'.pend = moved.pend
    BY <1>1, <1>2, <1>3, ChannelParts DEF ChannelInv, Conserved, Sane, Bytes
  <2>2. (outb \o ch.pend) \o in = (outb \o out) \o moved.pend
    <3>1. out \o moved.pend = ch.pend \o in
      OBVIOUS
    <3>2. /\ outb \in Seq(Int) /\ ch.pend \in Seq(Int) /\ moved.pend \in Seq(Int)
          /\ in \in Seq(Int) /\ out \in Seq(Int)
      BY <2>1 DEF Bytes
    <3>3. (outb \o ch.pend) \o in = outb \o (ch.pend \o in)
      BY <3>2, Associates
    <3>4. (outb \o out) \o moved.pend = outb \o (out \o moved.pend)
      BY <3>2, Associates
    <3> QED BY <3>1, <3>3, <3>4, Zenon
  <2> QED BY <2>1, <2>2
<1>6. ReportedUnlessFault'
  BY <1>1, <1>2, <1>3 DEF ChannelInv, ReportedUnlessFault
<1>7. ChannelInv'
  BY <1>1, <1>2, <1>3, <1>4, <1>5, <1>6 DEF ChannelInv
<1> QED BY <1>7, MoveIsPipe

LEMMA WriteMemoryStep ==
  ASSUME ChannelInv, BusInv, ch.dev2m, NEW supply \in Nat,
         supply = 0 \/ (dev.phase = "DI" /\ supply <= dev.left),
         NEW reach \in Reaches, dma_esp_write_memory(supply, reach)
  PROVE  /\ ChannelInv' /\ PipeStep
         /\ BytesIn(ch, supply, reach) \in 0..supply
<1>. DEFINE n == BytesIn(ch, supply, reach)
            m == BytesOut(ch, supply, reach)
            bytes == DataFrom(Machine, n)
            out == Leaving(ch, bytes, m)
            fault == Overruns(ch, supply, reach) /\ Faulty(reach)
            moved == [Buffered(ch, bytes, m, FillAfter(ch, supply, reach))
                        EXCEPT !.next = ch.next + m]
<1>1. Sane(ch) /\ ch \in Channel /\ Idx(ch) \in 0..Burst /\ ch.next \in Nat
  BY ChannelParts DEF ChannelInv, Sane
<1>2. reach \in 0..(ch.limit - ch.next) /\ reach \in Nat /\ Multiple(reach)
  BY <1>1, ReachType
<1>3. n \in 0..supply /\ m \in 0..reach /\ (m = 0 \/ m <= BufSize(ch) + n)
      /\ FillAfter(ch, supply, reach) \in 0..Burst
  BY <1>1, <1>2, MovedBounds
<1>4. n \in Nat /\ m \in Nat
  BY <1>3
<1>. HIDE DEF n, m
<1>5. bytes \in Bytes /\ Len(bytes) = n
  <2>1. n = 0 \/ (Machine.dev.phase = "DI" /\ n <= Machine.dev.left)
    BY <1>3, MachineType DEF BusInv, Dev, DevType
  <2> QED BY <1>4, <2>1, MachineType, DataType
<1>. HIDE DEF bytes
<1>6. bytes \in Seq(Int)
  BY <1>5 DEF Bytes
<1>7. /\ Sane(moved) /\ moved.pend = Staying(ch, bytes, m) /\ moved.busexc = ch.busexc
      /\ ch.debt = 0 => moved.debt = 0
  BY <1>1, <1>2, <1>5, <1>6, WriteSane DEF n, m
<1>8. out \in Bytes
  BY <1>1, <1>3, <1>4, <1>5, <1>6, BufferedType DEF Bytes
<1>9. ~torn => ch.pend \o bytes = out \o moved.pend
  <2>. SUFFICES ASSUME ~torn PROVE ch.pend \o bytes = out \o moved.pend
    OBVIOUS
  <2>1. ch.debt = 0
    BY DEF ChannelInv
  <2>2. m = 0 \/ m <= BufSize(ch) + Len(bytes)
    BY <1>1, <1>3, <1>4, <1>5, <1>6, <1>7
  <2>3. Leaving(ch, bytes, m) \o Staying(ch, bytes, m) = ch.pend \o bytes
    BY <1>1, <1>3, <1>4, <1>5, <1>6, <1>7, <2>1, <2>2, BufferedOrder
  <2> QED BY <1>7, <2>3
<1>10. /\ EndTransfer(IF fault THEN BusError(moved) ELSE moved)
       /\ unreported' = IF fault THEN unreported \cup Written(out) ELSE unreported \ Written(out)
       /\ inb' = inb \o bytes /\ outb' = outb \o out /\ torn' = torn
  BY DEF dma_esp_write_memory, n, m, bytes
<1>11. Written(out) \in SUBSET Nat
  <2>1. Len(out) \in Nat
    BY <1>8 DEF Bytes
  <2>. HIDE DEF out
  <2> QED BY <1>1, <2>1 DEF Written
<1>12. fault \in BOOLEAN
  BY DEF Overruns, Faulty
<1>13. ~torn => moved.debt = 0
  BY <1>7 DEF ChannelInv
<1>. HIDE DEF out, moved, fault
<1>14. unreported' \subseteq unreported \/ (fault /\ unreported' \subseteq unreported \cup Written(out))
  BY <1>10
<1>15. ChannelInv' /\ PipeStep
  BY <1>5, <1>7, <1>8, <1>9, <1>10, <1>11, <1>12, <1>13, <1>14, TransferStep
<1> QED BY <1>3, <1>15 DEF n

LEMMA BytesZero ==
  /\ << >> \in Bytes /\ Len(<< >>) = 0
  /\ \A a \in Bytes : Len(a) = 0 => a = << >>
  /\ \A a \in Bytes : a \o << >> = a /\ << >> \o a = a
BY EmptySeq, ConcatEmptySeq DEF Bytes

(* The device takes as many bytes as leave the buffer.                      *)
LEMMA ReadMemoryStep ==
  ASSUME ChannelInv, BusInv, ~ch.dev2m, NEW room \in Nat, NEW reach \in Reaches,
         dma_esp_read_memory(room, reach), unreported' = unreported,
         room <= dev.left, dev.phase # "DI"
  PROVE  LET k == IF ch.next < ch.limit THEN BytesOut(ch, reach, room) ELSE 0
         IN /\ ChannelInv' /\ PipeStep /\ k \in 0..room
            /\ \E out \in Bytes :
                 /\ Len(out) = k
                 /\ disk' = scsi_write_sector(disk, dev, out)
                 /\ told' = AsTold(told, dev, out)
                 /\ dev' = SCSIdisk_Receive_Data(dev, out)
<1>. DEFINE entered == ch.next < ch.limit
            supply == IF entered THEN reach ELSE 0
            space == IF entered THEN room ELSE 0
            n == IF entered THEN BytesIn(ch, supply, space) ELSE 0
            m == IF entered THEN BytesOut(ch, supply, space) ELSE 0
            fill == IF entered THEN FillAfter(ch, supply, space) ELSE ch.fill
            bytes == MemoryFrom(ch.next, n)
            out == Leaving(ch, bytes, m)
            fault == ~Overruns(ch, supply, space) /\ Faulty(supply)
            moved == [Buffered(ch, bytes, m, fill) EXCEPT !.next = ch.next + n]
<1>1. Sane(ch) /\ ch \in Channel /\ Idx(ch) \in 0..Burst /\ ch.next \in Nat /\ ch.fill \in 0..Burst
  BY ChannelParts DEF ChannelInv, Sane
<1>2. reach \in 0..(ch.limit - ch.next) /\ reach \in Nat /\ Multiple(reach)
  BY <1>1, ReachType
<1>3. entered => n = BytesIn(ch, reach, room) /\ m = BytesOut(ch, reach, room)
                 /\ fill = FillAfter(ch, reach, room)
  OBVIOUS
<1>4. /\ BytesIn(ch, reach, room) \in 0..reach /\ BytesOut(ch, reach, room) \in 0..room
      /\ (BytesOut(ch, reach, room) = 0 \/ BytesOut(ch, reach, room) <= BufSize(ch) + BytesIn(ch, reach, room))
      /\ FillAfter(ch, reach, room) \in 0..Burst
  BY <1>1, <1>2, MovedBounds
<1>5. n \in Nat /\ m \in 0..room /\ (m = 0 \/ m <= BufSize(ch) + n) /\ fill \in 0..Burst
  <2>1. CASE entered
    BY <1>2, <1>3, <1>4, <2>1
  <2>2. CASE ~entered
    BY <1>1, <2>2
  <2> QED BY <2>1, <2>2
<1>6. /\ EndTransfer(IF fault THEN BusError(moved) ELSE moved)
      /\ disk' = scsi_write_sector(disk, dev, out)
      /\ told' = AsTold(told, dev, out)
      /\ dev' = SCSIdisk_Receive_Data(dev, out)
      /\ inb' = inb \o bytes /\ outb' = outb \o out /\ torn' = torn
  BY DEF dma_esp_read_memory
<1>7. m = IF ch.next < ch.limit THEN BytesOut(ch, reach, room) ELSE 0
  OBVIOUS
<1>8. ~entered => n = 0 /\ m = 0 /\ fill = ch.fill
  OBVIOUS
<1>9. fault \in BOOLEAN
  BY DEF Overruns, Faulty
<1>. HIDE DEF entered, n, m, fill, fault
<1>10. bytes \in Bytes /\ Len(bytes) = n
  BY <1>1, <1>5, MemoryType
<1>. HIDE DEF bytes
<1>11. bytes \in Seq(Int) /\ m \in Nat
  BY <1>5, <1>10 DEF Bytes
<1>12. /\ Sane(moved) /\ moved.pend = Staying(ch, bytes, m) /\ moved.busexc = ch.busexc
       /\ ch.debt = 0 => moved.debt = 0
  <2>1. CASE entered
    <3>1. Len(bytes) = BytesIn(ch, reach, room)
      BY <1>3, <1>10, <2>1
    <3>2. moved = [Buffered(ch, bytes, BytesOut(ch, reach, room), FillAfter(ch, reach, room))
                     EXCEPT !.next = ch.next + Len(bytes)]
      BY <1>3, <1>10, <2>1
    <3>3. m = BytesOut(ch, reach, room)
      BY <1>3, <2>1
    <3>. HIDE DEF moved
    <3> QED BY <1>1, <1>2, <1>11, <3>1, <3>2, <3>3, ReadSane
  <2>2. CASE ~entered
    <3>1. n = 0 /\ m = 0 /\ fill = ch.fill /\ bytes = << >>
      BY <1>8, <1>10, <2>2, BytesZero
    <3>2. ch.pend \in Bytes /\ Len(ch.pend) \in Nat /\ ch.debt \in 0..Word
      BY <1>1, ChannelParts DEF Bytes
    <3>3. Swallowed(ch, bytes) = 0
      BY <3>1, <3>2, BytesZero, DmaAssumption DEF Swallowed
    <3>4. ch.pend \o bytes = ch.pend /\ Len(ch.pend) + Len(bytes) = Len(ch.pend)
      BY <3>1, <3>2, BytesZero
    <3>5. Staying(ch, bytes, m) = SubSeq(ch.pend, 0 + 0 + 1, Len(ch.pend))
      BY <3>1, <3>3, <3>4 DEF Staying
    <3>6. 0 + 0 + 1 = 1
      OBVIOUS
    <3>7. Staying(ch, bytes, m) = SubSeq(ch.pend, 1, Len(ch.pend))
      BY <3>5, <3>6, Zenon
    <3>8. Staying(ch, bytes, m) = ch.pend
      BY <3>2, <3>7, SubSeqFull DEF Bytes
    <3>9. ch.debt - Swallowed(ch, bytes) = ch.debt /\ ch.next + n = ch.next
      BY <1>1, <3>1, <3>2, <3>3, DmaAssumption
    <3>10. moved = [[ch EXCEPT !.pend = ch.pend, !.fill = ch.fill, !.debt = ch.debt] EXCEPT !.next = ch.next]
      BY <3>1, <3>8, <3>9, Zenon DEF moved, Buffered
    <3>11. moved = ch
      BY <1>1, <3>10 DEF Channel
    <3> QED BY <1>1, <3>8, <3>11
  <2> QED BY <2>1, <2>2
<1>13. out \in Bytes /\ Len(out) = m
  BY <1>1, <1>5, <1>10, <1>11, BufferedType DEF Bytes
<1>14. ~torn => ch.pend \o bytes = out \o moved.pend
  <2>. SUFFICES ASSUME ~torn PROVE ch.pend \o bytes = out \o moved.pend
    OBVIOUS
  <2>1. ch.debt = 0
    BY DEF ChannelInv
  <2>2. m = 0 \/ m <= BufSize(ch) + Len(bytes)
    BY <1>1, <1>5, <1>10, <1>11, <1>12
  <2>3. Leaving(ch, bytes, m) \o Staying(ch, bytes, m) = ch.pend \o bytes
    BY <1>1, <1>5, <1>10, <1>11, <1>12, <2>1, <2>2, BufferedOrder
  <2> QED BY <1>12, <2>3
<1>15. ~torn => moved.debt = 0
  BY <1>12 DEF ChannelInv
<1>. HIDE DEF out, moved
<1>16. ChannelInv' /\ PipeStep
  BY <1>6, <1>9, <1>10, <1>12, <1>13, <1>14, <1>15, TransferStep
<1> QED BY <1>5, <1>6, <1>7, <1>13, <1>16

LEMMA FlushStep ==
  ASSUME ChannelInv, NEW reach \in Reaches, dma_esp_flush_buffer(reach)
  PROVE  ChannelInv' /\ PipeStep
<1>. DEFINE bytes == FlushedBytes(ch)
            full == ch.next >= ch.limit
            fault == ~full /\ bytes # <<>> /\ reach = 0
<1>1. Sane(ch) /\ ch \in Channel /\ ch.dev2m /\ ch.next \in Nat /\ ch.limit \in Nat
      /\ ch.pend \in Bytes
  BY ChannelParts DEF ChannelInv, Sane, dma_esp_flush_buffer, Flushes, Bytes
<1>2. CASE full \/ fault
  <2>1. /\ EndTransfer(IF fault THEN BusError(ch) ELSE ch)
        /\ UNCHANGED unreported /\ UNCHANGED history
    BY <1>2 DEF dma_esp_flush_buffer
  <2>2. /\ inb' = inb \o << >> /\ outb' = outb \o << >> /\ torn' = torn
        /\ ch.pend \o << >> = << >> \o ch.pend
    BY <1>1, <2>1, BytesZero DEF history, ChannelInv
  <2>3. fault \in BOOLEAN
    OBVIOUS
  <2>. HIDE DEF fault
  <2>4. << >> \in Bytes /\ {} \in SUBSET Nat /\ unreported' \subseteq unreported
        /\ (~torn => ch.debt = 0)
    BY <2>1, BytesZero DEF ChannelInv
  <2> QED BY <1>1, <2>1, <2>2, <2>3, <2>4, TransferStep
<1>3. CASE ~(full \/ fault)
  <2>1. /\ EndTransfer(Flushed(ch)) /\ unreported' \subseteq unreported
        /\ inb' = inb /\ outb' = outb \o bytes /\ torn' = (torn \/ FlushPads(ch))
    BY <1>3 DEF dma_esp_flush_buffer
  <2>2. ch.next < ch.limit
    BY <1>1, <1>3
  <2>3. /\ Sane(Flushed(ch)) /\ Flushed(ch).busexc = ch.busexc
        /\ bytes \in Bytes
        /\ ~FlushPads(ch) => Flushed(ch).debt = ch.debt /\ bytes \o Flushed(ch).pend = ch.pend
    BY <1>1, <2>2, FlushSane DEF Bytes
  <2>. HIDE DEF bytes
  <2>4. FlushPads(ch) \in BOOLEAN
    BY DEF FlushPads
  <2>5. CASE ~FlushPads(ch)
    <3>1. /\ torn' = torn /\ inb' = inb \o << >> /\ ch.pend \o << >> = bytes \o Flushed(ch).pend
          /\ << >> \in Bytes /\ {} \in SUBSET Nat /\ (~torn => Flushed(ch).debt = 0)
      BY <1>1, <2>1, <2>3, <2>5, BytesZero DEF ChannelInv
    <3>2. EndTransfer(IF FALSE THEN BusError(Flushed(ch)) ELSE Flushed(ch))
      BY <2>1
    <3> QED BY <2>1, <2>3, <3>1, <3>2, TransferStep
  <2>6. CASE FlushPads(ch)
    <3>1. torn' = TRUE
      BY <2>1, <2>6
    <3>2. Sane(dma_interrupt(Flushed(ch))) /\ dma_interrupt(Flushed(ch)).busexc = ch.busexc
      BY <2>3, InterruptSane
    <3>3. ch' = dma_interrupt(Flushed(ch)) /\ dmaLine' \in BOOLEAN
      BY <2>1 DEF EndTransfer
    <3>4. outb' \in Bytes /\ inb' \in Bytes
      BY <2>1, <2>3, ConcatBytes DEF ChannelInv
    <3>5. ChannelInv'
      BY <2>1, <3>1, <3>2, <3>3, <3>4 DEF ChannelInv, Conserved, ReportedUnlessFault
    <3> QED BY <3>1, <3>5 DEF PipeStep, P!PipeNext, P!Tear
  <2> QED BY <2>5, <2>6
<1> QED BY <1>2, <1>3

(***************************************************************************)
(* Steps of the controller.                                                 *)
(***************************************************************************)
LEMMA BecomesInv ==
  ASSUME NEW s \in Machines, Lively(s.esp), Becomes(s)
  PROVE  BusInv'
BY MachineParts DEF Becomes, BusInv, Connected

LEMMA CommandStep ==
  ASSUME BusInv, NEW c \in GuestCommands, NEW n \in Counts, NEW r \in Blocks,
         ESP_Command_Write(c, n, r)
  PROVE  BusInv'
<1>. DEFINE k == ESP_TransCount_Write(c, n)
            f == [esp EXCEPT !.count = k]
            m == [Machine EXCEPT !.esp = f]
<1>1. esp \in EspType /\ Lively(esp) /\ c \in Commands /\ r \in Sendable
  BY ScsiAssumption, BlocksSendable DEF BusInv
<1>2. k \in Nat
  BY <1>1, ScsiAssumption DEF ESP_TransCount_Write, EspType
<1>. HIDE DEF k
<1>3. /\ f \in EspType /\ f.c1 = esp.c1 /\ f.state = esp.state /\ f.inprog = esp.inprog
      /\ f.int = esp.int /\ f.irqT = esp.irqT /\ f.ioT = esp.ioT /\ f.io = esp.io
  BY <1>1, <1>2 DEF EspType
<1>4. Becomes(esp_command_write(m, c, r)) /\ ~Aborts(Machine, Starting(c))
  BY DEF ESP_Command_Write, k
<1>. HIDE DEF f
<1>5. m \in Machines /\ m.esp = f /\ m.dev = dev
  BY <1>3, MachineType, WithEsp
<1>. HIDE DEF m
<1>6. Lively(m.esp)
  BY <1>1, <1>3, <1>5 DEF Lively
<1>7. ~m.esp.inprog => ~Aborts(m, TopAfter(m.esp, c))
  <2>. SUFFICES ASSUME ~m.esp.inprog PROVE ~Aborts(m, TopAfter(m.esp, c))
    OBVIOUS
  <2>1. Starting(c) = TopAfter(esp, c) /\ TopAfter(m.esp, c) = TopAfter(esp, c)
    BY <1>3, <1>5 DEF Starting, TopAfter
  <2>2. ~Aborts(Machine, TopAfter(esp, c))
    BY <1>4, <2>1
  <2>3. IllegalNow(m.esp, TopAfter(esp, c)) <=> IllegalNow(Machine.esp, TopAfter(esp, c))
    BY <1>3, <1>5, MachineType DEF IllegalNow
  <2> QED BY <1>5, <2>1, <2>2, <2>3, MachineType DEF Aborts
<1> QED BY <1>1, <1>4, <1>5, <1>6, <1>7, CommandWriteType, BecomesInv

LEMMA StatusStep ==
  ASSUME BusInv, NEW r \in Blocks, ESP_IntStatus_Read(r)
  PROVE  BusInv'
<1>. DEFINE f == [esp EXCEPT !.causes = {}]
            m == [Machine EXCEPT !.esp = f]
<1>1. esp \in EspType /\ r \in Sendable
  BY BlocksSendable DEF BusInv
<1>2. f \in EspType /\ f.c1 = esp.c1 /\ f.state = esp.state /\ f.waiting = esp.waiting
  BY <1>1 DEF EspType
<1>3. Becomes(esp_lower_irq(m, r)) /\ (esp.waiting => ~Aborts(Machine, esp.c1))
  BY DEF ESP_IntStatus_Read
<1>. HIDE DEF f
<1>4. m \in Machines /\ m.esp = f /\ m.dev = dev
  BY <1>2, MachineType, WithEsp
<1>. HIDE DEF m
<1>5. m.esp.waiting => ~Aborts(m, m.esp.c1)
  BY <1>2, <1>3, <1>4, MachineType DEF Aborts, IllegalNow
<1> QED BY <1>1, <1>3, <1>4, <1>5, LowerType, BecomesInv

LEMMA ControlStep ==
  ASSUME BusInv, NEW r \in Blocks, ControlReset(r)
  PROVE  BusInv'
<1>. DEFINE f == esp_reset_hard(esp)
            m == [Machine EXCEPT !.esp = f]
<1>1. esp \in EspType /\ r \in Sendable
  BY BlocksSendable DEF BusInv
<1>2. f \in EspType /\ f.state = "DISCONNECTED" /\ (f.c1 = "RESET" \/ ~f.waiting)
  BY <1>1, HardType
<1>3. Becomes(esp_finish_command(m, r))
  BY DEF ControlReset
<1>. HIDE DEF f
<1>4. m \in Machines /\ m.esp = f
  BY <1>2, MachineType, WithEsp
<1>. HIDE DEF m
<1>5. m.esp.waiting => ~Aborts(m, m.esp.c1)
  BY <1>2, <1>4 DEF Aborts
<1> QED BY <1>1, <1>3, <1>4, <1>5, FinishType, BecomesInv

LEMMA RaiseStep ==
  ASSUME BusInv, ESP_InterruptHandler
  PROVE  BusInv'
<1>. DEFINE f == esp_raise_irq([esp EXCEPT !.irqT = FALSE])
<1>1. f \in EspType /\ f.int /\ f.state = esp.state
  BY DEF esp_raise_irq, EspType, BusInv
<1>2. esp' = f /\ dev' = dev /\ disk' = disk /\ told' = told
  BY DEF ESP_InterruptHandler
<1>. HIDE DEF f
<1> QED BY <1>1, <1>2 DEF BusInv, Lively

(* A transfer that goes on is polled, one that has ended answers.           *)
LEMMA IoType ==
  ASSUME NEW e \in EspType, e.io = "TRANSFERING", NEW phase \in Phases,
         NEW expected \in {"DI", "DO"}
  PROVE  LET f == IoAfter(e, phase, expected)
         IN f \in EspType /\ f.state = e.state /\ Lively(f)
<1>. DEFINE done == TransferDone(e, phase, expected)
            g == esp_transfer_done(e, phase, expected)
            i == IF done /\ expected = "DI" THEN "FLUSHING" ELSE e.io
            o == ~(done /\ expected = "DO")
            f == [g EXCEPT !.io = i, !.ioT = o]
<1>1. g \in EspType /\ (done => g.irqT) /\ g.state = e.state
  BY DoneType DEF Phases
<1>2. i \in {"TRANSFERING", "FLUSHING"} /\ o \in BOOLEAN /\ (~done => o /\ i = "TRANSFERING")
  OBVIOUS
<1>3. IoAfter(e, phase, expected) = f
  BY DEF IoAfter
<1>. HIDE DEF g, i, o, done
<1>4. f \in EspType /\ f.state = g.state /\ f.irqT = g.irqT /\ f.ioT = o /\ f.io = i
  BY <1>1, <1>2 DEF EspType
<1>. HIDE DEF f
<1>5. Lively(f)
  BY <1>1, <1>2, <1>4 DEF Lively
<1> QED BY <1>1, <1>3, <1>4, <1>5

LEMMA CountedDown ==
  ASSUME NEW e \in EspType, NEW n \in 0..e.counter
  PROVE  LET f == [e EXCEPT !.counter = e.counter - n]
         IN f \in EspType /\ f.io = e.io /\ f.state = e.state
<1>1. e.counter \in Nat
  BY DEF EspType
<1>2. PICK k \in Nat : k = e.counter - n
  BY <1>1
<1>3. [e EXCEPT !.counter = k] \in EspType /\ [e EXCEPT !.counter = k].io = e.io
      /\ [e EXCEPT !.counter = k].state = e.state
  BY DEF EspType
<1> QED BY <1>2, <1>3

LEMMA DemandType ==
  ASSUME BusInv
  PROVE  /\ Demand \in Nat /\ Demand <= dev.left /\ Demand <= esp.counter
         /\ dev.left \in Nat /\ esp.counter \in Nat
BY DEF Demand, Smaller, BusInv, EspType, Dev, DevType

LEMMA InStep ==
  ASSUME ChannelInv, BusInv, NEW reach \in Reaches, TransferIn(reach)
  PROVE  ChannelInv' /\ BusInv' /\ PipeStep
<1>0. /\ esp \in EspType /\ dev \in Dev /\ esp.io = "TRANSFERING" /\ dev.phase = "DI"
      /\ disk' = disk /\ told' = told /\ Matched
  BY DEF TransferIn, BusInv
<1>1. CASE ch.enable
  <2>. DEFINE n == BytesIn(ch, Demand, reach)
              d == SCSIdisk_Send_Data(dev, n)
              e == [esp EXCEPT !.counter = esp.counter - n]
  <2>1. dma_esp_write_memory(Demand, reach) /\ dev' = d /\ esp' = IoAfter(e, d.phase, "DI")
    BY <1>1 DEF TransferIn
  <2>2. ch.dev2m /\ Demand \in Nat /\ dev.phase = "DI" /\ Demand <= dev.left
    BY <1>0, <1>1, DemandType DEF Matched
  <2>3. ChannelInv' /\ PipeStep /\ n \in 0..Demand
    BY <2>1, <2>2, WriteMemoryStep
  <2>4. n \in Nat /\ n <= dev.left /\ n \in 0..esp.counter
    BY <2>3, DemandType
  <2>. HIDE DEF n
  <2>5. d \in Dev /\ (Armed(dev) => Armed(d))
    BY <1>0, <2>4, SendType
  <2>6. e \in EspType /\ e.io = "TRANSFERING" /\ e.state = esp.state
    BY <1>0, <2>4, CountedDown
  <2>. HIDE DEF d, e
  <2>7. d.phase \in Phases
    BY <2>5 DEF Dev, DevType
  <2>8. esp' \in EspType /\ esp'.state = esp.state /\ Lively(esp')
    BY <2>1, <2>6, <2>7, IoType
  <2>9. BusInv'
    BY <1>0, <2>1, <2>5, <2>8 DEF BusInv, Lively
  <2> QED BY <2>3, <2>9
<1>2. CASE ~ch.enable
  <2>1. /\ UNCHANGED <<ch, dmaLine, unreported, dev>> /\ UNCHANGED history
        /\ esp' = IoAfter(esp, dev.phase, "DI")
    BY <1>2 DEF TransferIn
  <2>2. dev.phase \in Phases
    BY <1>0 DEF Dev, DevType
  <2>3. esp' \in EspType /\ esp'.state = esp.state /\ Lively(esp')
    BY <1>0, <2>1, <2>2, IoType
  <2>4. BusInv'
    BY <1>0, <2>1, <2>3 DEF BusInv, Lively
  <2>5. ChannelInv'
    BY <2>1 DEF ChannelInv, Conserved, ReportedUnlessFault, history
  <2> QED BY <2>1, <2>4, <2>5, StillPipe
<1> QED BY <1>1, <1>2

LEMMA OutStep ==
  ASSUME ChannelInv, BusInv, NEW reach \in Reaches, TransferOut(reach)
  PROVE  ChannelInv' /\ BusInv' /\ PipeStep
<1>. DEFINE k == TakenByDevice(reach)
            e == [esp EXCEPT !.counter = esp.counter - k]
<1>0. /\ esp \in EspType /\ dev \in Dev /\ esp.io = "TRANSFERING" /\ dev.phase = "DO"
      /\ disk \in Image /\ told \in Image
      /\ Matched /\ unreported' = unreported
      /\ esp' = IoAfter(e, dev'.phase, "DO")
  BY DEF TransferOut, BusInv
<1>1. /\ ChannelInv' /\ PipeStep /\ k \in 0..Demand
      /\ dev' \in Dev /\ (Armed(dev) => Armed(dev')) /\ disk' \in Image /\ told' \in Image
  <2>1. CASE ch.enable
    <3>1. dma_esp_read_memory(Demand, reach)
      BY <2>1 DEF TransferOut
    <3>2. ~ch.dev2m /\ Demand \in Nat /\ Demand <= dev.left /\ dev.phase # "DI"
      BY <1>0, <2>1, DemandType DEF Matched
    <3>3. k = IF ch.next < ch.limit THEN BytesOut(ch, reach, Demand) ELSE 0
      BY <2>1 DEF TakenByDevice
    <3>. HIDE DEF k
    <3>4. /\ ChannelInv' /\ PipeStep /\ k \in 0..Demand
          /\ \E out \in Bytes :
                 /\ Len(out) = k
                 /\ disk' = scsi_write_sector(disk, dev, out)
                 /\ told' = AsTold(told, dev, out)
                 /\ dev' = SCSIdisk_Receive_Data(dev, out)
      BY <1>0, <3>1, <3>2, <3>3, ReadMemoryStep
    <3>5. PICK out \in Bytes :
                 /\ Len(out) = k
                 /\ disk' = scsi_write_sector(disk, dev, out)
                 /\ told' = AsTold(told, dev, out)
                 /\ dev' = SCSIdisk_Receive_Data(dev, out)
      BY <3>4
    <3>6. Len(out) <= dev.left
      BY <3>4, <3>5, DemandType
    <3>7. dev' \in Dev /\ (Armed(dev) => Armed(dev'))
      BY <1>0, <3>2, <3>5, <3>6, ReceiveType
    <3>8. disk' \in Image /\ told' \in Image
      BY <1>0, <3>5, ImageType
    <3> QED BY <3>4, <3>7, <3>8
  <2>2. CASE ~ch.enable
    <3>1. UNCHANGED <<ch, dmaLine, disk, told, dev>> /\ UNCHANGED history
      BY <2>2 DEF TransferOut
    <3>2. k = 0
      BY <2>2 DEF TakenByDevice
    <3>3. ChannelInv'
      BY <1>0, <3>1 DEF ChannelInv, Conserved, ReportedUnlessFault, history
    <3>4. k \in 0..Demand
      BY <3>2, DemandType
    <3> QED BY <1>0, <3>1, <3>3, <3>4, StillPipe
  <2> QED BY <2>1, <2>2
<1>. HIDE DEF k
<1>2. k \in 0..esp.counter
  BY <1>1, DemandType
<1>3. e \in EspType /\ e.io = "TRANSFERING" /\ e.state = esp.state
  BY <1>0, <1>2, CountedDown
<1>. HIDE DEF e
<1>4. dev'.phase \in Phases
  BY <1>1 DEF Dev, DevType
<1>5. esp' \in EspType /\ esp'.state = esp.state /\ Lively(esp')
  BY <1>0, <1>3, <1>4, IoType
<1>6. BusInv'
  BY <1>1, <1>5 DEF BusInv, Lively
<1> QED BY <1>1, <1>6

LEMMA FlushingStep ==
  ASSUME ChannelInv, BusInv, NEW reach \in Reaches, TransferFlush(reach)
  PROVE  ChannelInv' /\ BusInv' /\ PipeStep
<1>. DEFINE supply == IF dev.phase = "DI" THEN Demand ELSE 0
            n == BytesIn(ch, supply, reach)
            d == SCSIdisk_Send_Data(dev, n)
<1>0. /\ esp \in EspType /\ dev \in Dev /\ esp.io = "FLUSHING" /\ Lively(esp)
      /\ disk' = disk /\ told' = told /\ (ch.enable => ch.dev2m)
  BY DEF TransferFlush, BusInv
<1>1. CASE ch.enable
  <2>1. /\ dma_esp_write_memory(supply, reach) /\ dev' = d
        /\ esp' = [esp EXCEPT !.ioT = FALSE, !.counter = esp.counter - n]
    BY <1>1 DEF TransferFlush
  <2>2. /\ supply \in Nat /\ (supply = 0 \/ (dev.phase = "DI" /\ supply <= dev.left))
        /\ supply <= dev.left /\ supply <= esp.counter
    BY DemandType
  <2>. HIDE DEF supply
  <2>3. ChannelInv' /\ PipeStep /\ n \in 0..supply
    BY <1>0, <1>1, <2>1, <2>2, WriteMemoryStep
  <2>4. n \in Nat /\ n <= dev.left /\ esp.counter - n \in Nat
    BY <2>2, <2>3, DemandType
  <2>. HIDE DEF n
  <2>5. d \in Dev /\ (Armed(dev) => Armed(d))
    BY <1>0, <2>4, SendType
  <2>6. PICK k \in Nat : k = esp.counter - n
    BY <2>4
  <2>7. /\ esp' \in EspType /\ esp'.state = esp.state /\ esp'.inprog = esp.inprog
        /\ esp'.int = esp.int /\ esp'.irqT = esp.irqT
    BY <1>0, <2>1, <2>6 DEF EspType
  <2>. HIDE DEF d
  <2>8. BusInv'
    BY <1>0, <2>1, <2>5, <2>7 DEF BusInv, Lively
  <2> QED BY <2>3, <2>8
<1>2. CASE ~ch.enable
  <2>1. /\ UNCHANGED <<ch, dmaLine, unreported, dev>> /\ UNCHANGED history
        /\ esp' = [esp EXCEPT !.ioT = FALSE]
    BY <1>2 DEF TransferFlush
  <2>2. /\ esp' \in EspType /\ esp'.state = esp.state /\ esp'.inprog = esp.inprog
        /\ esp'.int = esp.int /\ esp'.irqT = esp.irqT
    BY <1>0, <2>1 DEF EspType
  <2>3. BusInv'
    BY <1>0, <2>1, <2>2 DEF BusInv, Lively
  <2>4. ChannelInv'
    BY <2>1 DEF ChannelInv, Conserved, ReportedUnlessFault, history
  <2> QED BY <2>1, <2>3, <2>4, StillPipe
<1> QED BY <1>1, <1>2

(***************************************************************************)
(* The theorems.                                                            *)
(***************************************************************************)
LEMMA StillChannel ==
  ASSUME ChannelInv, UNCHANGED <<ch, dmaLine, unreported>>, UNCHANGED history
  PROVE  ChannelInv' /\ PipeStep
<1>1. ChannelInv'
  BY DEF ChannelInv, Conserved, ReportedUnlessFault, history
<1> QED BY <1>1, StillPipe

LEMMA StillBus ==
  ASSUME BusInv, UNCHANGED <<esp, dev, disk, told>>
  PROVE  BusInv'
BY DEF BusInv, Lively

GuestProgramsChannel ==
  \/ \E direction \in {{}, {"DEV2M"}} : ResetChannel(direction)
  \/ \E b \in Buffers : StartSingle(b) \/ StartAligned(b) \/ ContinueChaining(b)
  \/ \E b, then \in Buffers : StartChained(b, then)
  \/ EndChaining

LEMMA CountersStep ==
  ASSUME Counters, [Next]_vars
  PROVE  Counters'
<1>1. selections' \in {selections, selections + 1} /\ starts' \in {starts, starts + 1}
  <2>1. CASE GuestProgramsChannel
    BY <2>1 DEF GuestProgramsChannel, ResetChannel, StartSingle, StartAligned, ContinueChaining,
               StartChained, EndChaining, CsrWrite, HandsOver
  <2>2. CASE \E c \in GuestCommands, n \in Counts, r \in Blocks : ESP_Command_Write(c, n, r)
    BY <2>2 DEF ESP_Command_Write
  <2>3. CASE \E r \in Blocks : ESP_IntStatus_Read(r) \/ ControlReset(r)
    BY <2>3 DEF ESP_IntStatus_Read, ControlReset
  <2>4. CASE \E reach \in Reaches : ESP_IO_Handler(reach) \/ dma_esp_flush_buffer(reach)
    BY <2>4 DEF ESP_IO_Handler, TransferIn, TransferOut, TransferFlush, TransferPoll, vars,
               dma_esp_flush_buffer
  <2>5. CASE ESP_InterruptHandler
    BY <2>5 DEF ESP_InterruptHandler
  <2>6. CASE UNCHANGED vars
    BY <2>6 DEF vars
  <2> QED BY <2>1, <2>2, <2>3, <2>4, <2>5, <2>6 DEF Next, GuestProgramsChannel
<1> QED BY <1>1 DEF Counters

(* Every step keeps the invariant, and is a step of the pipe or leaves it   *)
(* alone.                                                                   *)
LEMMA StepInv ==
  ASSUME Inv, [Next]_vars
  PROVE  Inv' /\ PipeStep
<1>0. ChannelInv /\ BusInv /\ Counters'
  BY CountersStep DEF Inv
<1>1. CASE GuestProgramsChannel
  <2>1. ChannelInv' /\ PipeStep
    BY <1>0, <1>1, GuestChannelStep DEF GuestProgramsChannel
  <2>2. UNCHANGED <<esp, dev, disk, told>>
    BY <1>1 DEF GuestProgramsChannel, ResetChannel, StartSingle, StartAligned, ContinueChaining,
               StartChained, EndChaining, CsrWrite
  <2> QED BY <1>0, <2>1, <2>2, StillBus DEF Inv
<1>2. ASSUME NEW c \in GuestCommands, NEW n \in Counts, NEW r \in Blocks,
             ESP_Command_Write(c, n, r)
      PROVE  Inv' /\ PipeStep
  <2>1. UNCHANGED <<ch, dmaLine, unreported>> /\ UNCHANGED history
    BY <1>2 DEF ESP_Command_Write
  <2> QED BY <1>0, <1>2, <2>1, StillChannel, CommandStep DEF Inv
<1>3. ASSUME NEW r \in Blocks, ESP_IntStatus_Read(r)
      PROVE  Inv' /\ PipeStep
  <2>1. UNCHANGED <<ch, dmaLine, unreported>> /\ UNCHANGED history
    BY <1>3 DEF ESP_IntStatus_Read
  <2> QED BY <1>0, <1>3, <2>1, StillChannel, StatusStep DEF Inv
<1>4. ASSUME NEW r \in Blocks, ControlReset(r)
      PROVE  Inv' /\ PipeStep
  <2>1. UNCHANGED <<ch, dmaLine, unreported>> /\ UNCHANGED history
    BY <1>4 DEF ControlReset
  <2> QED BY <1>0, <1>4, <2>1, StillChannel, ControlStep DEF Inv
<1>5. ASSUME NEW reach \in Reaches, ESP_IO_Handler(reach)
      PROVE  Inv' /\ PipeStep
  <2>1. CASE TransferIn(reach)
    BY <1>0, <2>1, InStep DEF Inv
  <2>2. CASE TransferOut(reach)
    BY <1>0, <2>2, OutStep DEF Inv
  <2>3. CASE TransferFlush(reach)
    BY <1>0, <2>3, FlushingStep DEF Inv
  <2>4. CASE TransferPoll
    <3>1. /\ UNCHANGED <<ch, dmaLine, unreported>> /\ UNCHANGED history
          /\ UNCHANGED <<esp, dev, disk, told>>
      BY <2>4 DEF TransferPoll, vars, history
    <3> QED BY <1>0, <3>1, StillChannel, StillBus DEF Inv
  <2> QED BY <1>5, <2>1, <2>2, <2>3, <2>4 DEF ESP_IO_Handler
<1>6. ASSUME NEW reach \in Reaches, dma_esp_flush_buffer(reach)
      PROVE  Inv' /\ PipeStep
  <2>1. UNCHANGED <<esp, dev, disk, told>>
    BY <1>6 DEF dma_esp_flush_buffer
  <2> QED BY <1>0, <1>6, <2>1, FlushStep, StillBus DEF Inv
<1>7. CASE ESP_InterruptHandler
  <2>1. UNCHANGED <<ch, dmaLine, unreported>> /\ UNCHANGED history
    BY <1>7 DEF ESP_InterruptHandler
  <2> QED BY <1>0, <1>7, <2>1, StillChannel, RaiseStep DEF Inv
<1>8. CASE UNCHANGED vars
  <2>1. /\ UNCHANGED <<ch, dmaLine, unreported>> /\ UNCHANGED history
        /\ UNCHANGED <<esp, dev, disk, told>>
    BY <1>8 DEF vars, history
  <2> QED BY <1>0, <2>1, StillChannel, StillBus DEF Inv
<1> QED BY <1>1, <1>2, <1>3, <1>4, <1>5, <1>6, <1>7, <1>8 DEF Next, GuestProgramsChannel

LEMMA AlwaysInv == Spec => []Inv
<1>1. Init => Inv
  BY InitInv
<1>2. Inv /\ [Next]_vars => Inv'
  BY StepInv
<1> QED BY <1>1, <1>2, PTL DEF Spec

(* Every variable keeps its type, whatever commands and buffers the guest   *)
(* programs: in particular neither the transfer counter nor the bytes that  *)
(* the target has left ever go below zero (esp_counter and the buffer sizes *)
(* of scsi.c are unsigned).                                                 *)
THEOREM TypeCorrect == Spec => []TypeOK
<1>1. Inv => TypeOK
  BY InvImplies
<1> QED BY <1>1, AlwaysInv, PTL

(* The burst buffer of dma.c never loses, doubles or reorders a byte, for   *)
(* every burst size and every buffer that is aligned as the code asks.      *)
THEOREM BytesConserved == Spec => []Conserved
<1>1. Inv => Conserved
  BY InvImplies
<1> QED BY <1>1, AlwaysInv, PTL

(* A transfer never goes past the limit of its buffer: the comparison with  *)
(* the limit inside the loops of dma.c is enough because next, limit and    *)
(* what leaves the buffer are whole long words.                             *)
THEOREM NeverPastLimit == Spec => []WithinBuffer
<1>1. Inv => WithinBuffer
  BY InvImplies
<1> QED BY <1>1, AlwaysInv, PTL

(* The translator has been told of every address the channel wrote, unless  *)
(* the channel shows a bus exception.                                       *)
THEOREM TranslatorTold == Spec => []ReportedUnlessFault
<1>1. Inv => ReportedUnlessFault
  BY InvImplies
<1> QED BY <1>1, AlwaysInv, PTL

(* The controller is never left with a command in progress and nothing to   *)
(* end it.                                                                  *)
THEOREM ControllerLives == Spec => []NeverWedged
<1>1. Inv => NeverWedged
  BY InvImplies
<1> QED BY <1>1, AlwaysInv, PTL

(* The SCSI channel, with its registers, its chained buffers, its bus       *)
(* errors and its bursts, implements a pipe that holds one burst.           *)
THEOREM ImplementsPipe == Spec => ChannelIsPipe
<1>1. Init => P!PipeInit
  BY DEF Init, P!PipeInit
<1>2. Inv /\ [Next]_vars => [P!PipeNext]_(P!pipeVars)
  BY StepInv DEF PipeStep
<1> QED BY <1>1, <1>2, AlwaysInv, PTL DEF Spec, ChannelIsPipe, P!PipeSpec

(* The hypotheses of the theorems on the loops (DmaLoopProofs), of every    *)
(* call that can be made: with any bytes of the device or any room for them *)
(* and memory that answers as far as it may.                                *)
CallsFit ==
  \A reach \in Reaches, source \in Seq(Int) :
    /\ ch.dev2m => Writes(ch, source, reach)
    /\ ~ch.dev2m /\ ch.next < ch.limit /\ Len(source) = reach =>
         \A room \in Nat : Reads(ch, source, room)

(* Whenever the guest may let a transfer run, the channel is one for which  *)
(* the loops of dma_esp_write_memory and dma_esp_read_memory are proved to  *)
(* move what Dma says: no sequence of buffers, flushes, bus errors, resets  *)
(* and CSR writes leads the buffer to a state that the loops do not expect. *)
THEOREM CallsFitLoops == Spec => []CallsFit
<1>1. ASSUME Inv PROVE CallsFit
  <2>1. Sane(ch)
    BY <1>1 DEF Inv, ChannelInv
  <2>2. ASSUME NEW reach \in Reaches, NEW source \in Seq(Int)
        PROVE  /\ ch.dev2m => Writes(ch, source, reach)
               /\ ~ch.dev2m /\ ch.next < ch.limit /\ Len(source) = reach =>
                    \A room \in Nat : Reads(ch, source, room)
    <3>1. reach \in 0..(ch.limit - ch.next) /\ Multiple(reach)
      BY <2>1, ReachType
    <3>2. reach <= ch.limit - ch.next
      BY <3>1
    <3> QED BY <2>1, <3>1, <3>2 DEF Writes, Reads
  <2> QED BY <2>2 DEF CallsFit
<1> QED BY <1>1, AlwaysInv, PTL
================================================================================
