-------------------------------- MODULE DmaLoop --------------------------------
(***************************************************************************)
(* The loops of dma_esp_write_memory and dma_esp_read_memory, src/src/dma.c, *)
(* one byte or one long word at a time through espdma_buf.  Dma says in     *)
(* closed form what a whole call moves; Moves says that a loop has moved    *)
(* just that.                                                               *)
(*                                                                          *)
(* The state of a loop is a record.  at is the place in the loop: "top" the *)
(* outer condition, "fill" the loop that fills the buffer, "empty" the one  *)
(* that empties it, "done" behind the loop, "fault" in the CATCH.  limit    *)
(* and size are espdma_buf_limit and espdma_buf_size, buf is espdma_buf,    *)
(* read counts the bytes taken from the source, wrote are those written.    *)
(* reach is how far guest memory answers.                                   *)
(***************************************************************************)
EXTENDS Dma

(* The channel's buffer, with Junk where no byte is pending *)
EnterLoop(c) ==
  [at |-> "top", limit |-> c.fill, size |-> BufSize(c), read |-> 0, wrote |-> <<>>,
   buf |-> [i \in 0..(Burst - 1) |->
              LET k == i - (c.fill - Len(c.pend))
              IN IF k \in 0..(Len(c.pend) - 1) THEN c.pend[k + 1] ELSE Junk]]

Goto(l, place) == [l EXCEPT !.at = place]

(* n bytes of the source enter the buffer *)
Fetch(l, source, n) ==
  [l EXCEPT !.limit = l.limit + n, !.size = l.size + n, !.read = l.read + n,
            !.buf = [i \in 0..(Burst - 1) |->
                       IF i \in l.limit..(l.limit + n - 1)
                       THEN source[l.read + i - l.limit + 1] ELSE l.buf[i]]]

(* n bytes of the buffer, from one place on, are written *)
Store(l, from, n) ==
  [l EXCEPT !.size = l.size - n,
            !.wrote = l.wrote \o [i \in 1..n |-> l.buf[from + i - 1]]]

(* A buffer that has been emptied begins again *)
NextBurst(l) == [l EXCEPT !.limit = l.size, !.at = "top"]

(* dma_esp_write_memory: bytes of the device into memory *)
WriteStep(c, l, source, reach) ==
  LET next == c.next + Len(l.wrote)
  IN CASE l.at = "top" -> Goto(l, IF next <= c.limit THEN "fill" ELSE "done")
       [] l.at = "fill" ->
            IF l.limit >= Burst THEN Goto(l, "empty")
            ELSE IF l.read < Len(source) THEN Fetch(l, source, 1)
            ELSE Goto(l, "done")
       [] l.at = "empty" ->
            IF next < c.limit /\ l.size > 0
            THEN IF Len(l.wrote) >= reach THEN Goto(l, "fault")
                 ELSE Store(l, Burst - l.size, Word)
            ELSE IF l.size > 0 THEN Goto(l, "done")
            ELSE NextBurst(l)
       [] OTHER -> l

(* dma_esp_read_memory: bytes of memory to the device, which takes room; the *)
(* source is memory as far as it answers.                                   *)
ReadStep(c, l, source, room) ==
  LET next == c.next + l.read
  IN CASE l.at = "top" -> Goto(l, IF next < c.limit THEN "fill" ELSE "done")
       [] l.at = "fill" ->
            IF l.limit >= Burst THEN Goto(l, "empty")
            ELSE IF next < c.limit
                 THEN IF l.read >= Len(source) THEN Goto(l, "fault")
                      ELSE Fetch(l, source, Word)
            ELSE Goto(l, "done")
       [] l.at = "empty" ->
            IF l.size > 0
            THEN IF Len(l.wrote) < room THEN Store(l, l.limit - l.size, 1)
                 ELSE Goto(l, "done")
            ELSE NextBurst(l)
       [] OTHER -> l

Left(l) == l.at \in {"done", "fault"}

(* The loop has moved what Dma says for this supply and room, and leaves in *)
(* the buffer what Dma says.                                                *)
Moves(c, l, source, room) ==
  LET n == BytesIn(c, Len(source), room)
      m == BytesOut(c, Len(source), room)
      bytes == SubSeq(source, 1, n)
      t == Buffered(c, bytes, m, FillAfter(c, Len(source), room))
  IN /\ l.read = n
     /\ l.wrote = Leaving(c, bytes, m)
     /\ l.limit = t.fill
     /\ l.size = BufSize(t)
     /\ t.pend = [i \in 1..Len(t.pend) |-> l.buf[l.limit - l.size + i - 1]]

(* Memory failed before the limit, when the loop wanted to write, or to read *)
WriteFails(c, supply, reach) == Overruns(c, supply, reach) /\ c.next + reach < c.limit
ReadFails(c, reach, room) == ~Overruns(c, reach, room) /\ c.next + reach < c.limit

(* A loop that has been left agrees with Dma *)
WriteAgrees(c, l, source, reach) ==
  /\ Moves(c, l, source, reach)
  /\ l.at = "fault" <=> WriteFails(c, Len(source), reach)

ReadAgrees(c, l, source, room) ==
  /\ Moves(c, l, source, room)
  /\ l.at = "fault" <=> ReadFails(c, Len(source), room)
================================================================================
