--------------------------------- MODULE MCScsi --------------------------------
(***************************************************************************)
(* Small instances of Scsi, and runs of the loops of dma.c (DmaLoop), to    *)
(* compare with what Dma says they move.                                    *)
(***************************************************************************)
EXTENDS Scsi, DmaLoop

ChannelBuffers == {<<0, 4>>, <<2, 8>>}
ChannelBlocks == {[op |-> "reply", lba |-> 0, count |-> 7],
                  [op |-> "write", lba |-> 1, count |-> 1]}

OneBuffer == {<<0, 4>>}
CommandBlocks == {[op |-> "read", lba |-> 1, count |-> 2],
                  [op |-> "write", lba |-> 1, count |-> 2],
                  [op |-> "absent", lba |-> 0, count |-> 0]}

(* The loops, run to their end *)
RECURSIVE WriteLoop(_, _, _)
WriteLoop(l, source, reach) ==
  IF Left(l) THEN l ELSE WriteLoop(WriteStep(ch, l, source, reach), source, reach)

RECURSIVE ReadLoop(_, _, _)
ReadLoop(l, source, room) ==
  IF Left(l) THEN l ELSE ReadLoop(ReadStep(ch, l, source, room), source, room)

(* One call of dma_esp_write_memory, or of dma_esp_read_memory when there   *)
(* is room in the buffer, moves what its loop moves byte by byte through    *)
(* espdma_buf, for every number of bytes that the device gives or takes and *)
(* wherever memory fails.                                                   *)
LoopsAgree ==
  ch.enable =>
    \A n \in 0..MaxCounter, reach \in Reaches :
      IF ch.dev2m
      THEN LET source == MemoryFrom(0, n)
           IN WriteAgrees(ch, WriteLoop(EnterLoop(ch), source, reach), source, reach)
      ELSE LET source == MemoryFrom(0, reach)
           IN ch.next < ch.limit =>
                ReadAgrees(ch, ReadLoop(EnterLoop(ch), source, n), source, n)
================================================================================
