---------------------------------- MODULE Dma ----------------------------------
(***************************************************************************)
(* The SCSI channel of the DMA controller, src/src/dma.c: its registers,    *)
(* its burst buffer (espdma_buf) and what one call of a transfer function   *)
(* moves.  The operators here are pure; Scsi composes them with the         *)
(* controller and the disk.                                                 *)
(*                                                                          *)
(* A channel is a record.  enable, supdate, complete, busexc are the CSR    *)
(* bits; dev2m is direction.  pend holds the bytes of espdma_buf that have  *)
(* not left it, in order, and fill is espdma_buf_limit.  espdma_buf_size is *)
(* Len(pend), or -debt when a flush has written more bytes than there were. *)
(***************************************************************************)
EXTENDS Integers, Sequences

CONSTANTS
  Word,          \* bytes in a long word (4)
  Burst          \* DMA_BURST_SIZE (16)

ASSUME DmaAssumption ==
  /\ Word \in Nat \ {0}
  /\ Burst \in Nat \ {0}
  /\ Word <= Burst /\ Burst % Word = 0

Channel ==
  [enable : BOOLEAN, supdate : BOOLEAN, complete : BOOLEAN, busexc : BOOLEAN,
   dev2m : BOOLEAN, next : Nat, limit : Nat, start : Nat, stop : Nat,
   pend : Seq(Int), fill : 0..Burst, debt : 0..Word]

ChannelReset ==
  [enable |-> FALSE, supdate |-> FALSE, complete |-> FALSE, busexc |-> FALSE,
   dev2m |-> FALSE, next |-> 0, limit |-> 0, start |-> 0, stop |-> 0,
   pend |-> <<>>, fill |-> 0, debt |-> 0]

(* espdma_buf_size *)
BufSize(ch) == Len(ch.pend) - ch.debt

\* Fault: espdma_buf_size is not reset.
dma_initialize_buffer_sized(ch, offset) == [ch EXCEPT !.fill = offset]
dma_initialize_buffer(ch, offset) ==
  [ch EXCEPT !.pend = <<>>, !.debt = 0, !.fill = offset]

(***************************************************************************)
(* A write to the CSR.  cmd is the set of bits written.  Nothing clears     *)
(* busexc.                                                                  *)
(***************************************************************************)
DMA_CSR_Write(ch, cmd) ==
  LET on == "SETENABLE" \in cmd \/ (ch.enable /\ "RESET" \notin cmd)
      su == "SETSUPDATE" \in cmd \/ (ch.supdate /\ "RESET" \notin cmd)
      co == ch.complete /\ cmd \cap {"RESET", "CLRCOMPLETE"} = {}
      regs == [ch EXCEPT !.dev2m = "DEV2M" \in cmd, !.enable = on,
                         !.supdate = su, !.complete = co]
  IN IF "INITBUF" \in cmd THEN dma_initialize_buffer(regs, 0) ELSE regs

(***************************************************************************)
(* The end of every transfer: a finished buffer completes the channel, or   *)
(* makes it go on with the chained one; a bus error is reported alone.      *)
(***************************************************************************)
AtLimit(ch) == ch.next = ch.limit

\* Fault: the channel stays enabled after its last buffer.
dma_interrupt_enabled(ch) ==
  IF AtLimit(ch) /\ ch.supdate
  THEN [ch EXCEPT !.complete = TRUE, !.supdate = FALSE,
                  !.next = ch.start, !.limit = ch.stop]
  ELSE ch
dma_interrupt(ch) ==
  IF ~AtLimit(ch) THEN ch
  ELSE IF ch.supdate
       THEN [ch EXCEPT !.complete = TRUE, !.supdate = FALSE,
                       !.next = ch.start, !.limit = ch.stop]
       ELSE [ch EXCEPT !.complete = TRUE, !.enable = FALSE]

RaisesInterrupt(ch) == AtLimit(ch) \/ ch.busexc

\* Fault: the bus exception is not recorded.
BusError_unrecorded(ch) == [ch EXCEPT !.enable = FALSE, !.complete = TRUE]
BusError(ch) ==
  [ch EXCEPT !.enable = FALSE, !.complete = TRUE, !.busexc = TRUE]

(***************************************************************************)
(* What the loops of dma_esp_write_memory and dma_esp_read_memory move when *)
(* the side they read from can give supply bytes and the side they write to *)
(* can take room.  A burst leaves the buffer only when the buffer has been  *)
(* filled to the end, and the next is begun only when it is empty.  The     *)
(* first burst holds what is pending and the Burst - fill bytes that        *)
(* complete it.                                                             *)
(***************************************************************************)
FirstBurst(ch) == BufSize(ch) + Burst - ch.fill

(* Bytes of the whole bursts that the supply completes *)
WholeBursts(ch, supply) ==
  IF supply < Burst - ch.fill
  THEN 0
  ELSE BufSize(ch) + supply - ((supply - (Burst - ch.fill)) % Burst)

(* A burst was completed that the other side cannot take entirely *)
\* Fault: the limit is not compared in the emptying loop.
Overruns_never(ch, supply, room) == FALSE
Overruns(ch, supply, room) == WholeBursts(ch, supply) > room

BytesIn(ch, supply, room) ==
  IF ~Overruns(ch, supply, room) THEN supply
  ELSE IF FirstBurst(ch) > room THEN Burst - ch.fill
  ELSE room + Burst - ((room - FirstBurst(ch)) % Burst) - BufSize(ch)

BytesOut(ch, supply, room) ==
  IF Overruns(ch, supply, room) THEN room ELSE WholeBursts(ch, supply)

\* Fault: the burst that found no room is given up.
FillAfter_dropped(ch, supply, room) ==
  IF Overruns(ch, supply, room) \/ supply < Burst - ch.fill THEN 0
  ELSE (supply - (Burst - ch.fill)) % Burst
FillAfter(ch, supply, room) ==
  IF Overruns(ch, supply, room) THEN Burst
  ELSE IF supply < Burst - ch.fill THEN ch.fill + supply
  ELSE (supply - (Burst - ch.fill)) % Burst

(* Bytes that only make up for what a flush wrote too much *)
Swallowed(ch, bytes) == IF ch.debt < Len(bytes) THEN ch.debt ELSE Len(bytes)

(* bytes have entered the buffer behind those pending; the first n of them  *)
(* leave it.                                                                *)
\* Fault: the bytes are taken from the end of the buffer.
Leaving_newest(ch, bytes, n) ==
  SubSeq(ch.pend \o bytes, Len(ch.pend) + Len(bytes) - n + 1,
         Len(ch.pend) + Len(bytes))
Leaving(ch, bytes, n) ==
  SubSeq(ch.pend \o bytes, Swallowed(ch, bytes) + 1, Swallowed(ch, bytes) + n)

Staying(ch, bytes, n) ==
  SubSeq(ch.pend \o bytes, Swallowed(ch, bytes) + n + 1,
         Len(ch.pend) + Len(bytes))

Buffered(ch, bytes, n, fill) ==
  [ch EXCEPT !.pend = Staying(ch, bytes, n), !.fill = fill,
             !.debt = ch.debt - Swallowed(ch, bytes)]

(***************************************************************************)
(* dma_esp_flush_buffer writes one long word and counts it whether or not   *)
(* the buffer had one.  What lies behind the last byte is old.              *)
(***************************************************************************)
CONSTANT Junk
ASSUME JunkAssumption == Junk \in Int

Flushes(ch) == ch.enable /\ ch.dev2m

FlushedBytes(ch) ==
  IF ch.pend = <<>> THEN <<>>
  ELSE [i \in 1..Word |-> IF i <= Len(ch.pend) THEN ch.pend[i] ELSE Junk]

FlushPads(ch) == ch.pend # <<>> /\ Len(ch.pend) < Word

Flushed(ch) ==
  LET n == Len(ch.pend)
  IN [ch EXCEPT !.pend = IF n <= Word THEN <<>> ELSE SubSeq(ch.pend, Word + 1, n),
                !.debt = IF FlushPads(ch) THEN Word - n ELSE ch.debt,
                !.next = ch.next + Word]
================================================================================
