---------------------------------- MODULE Pipe ---------------------------------
(***************************************************************************)
(* What a DMA channel promises, without its registers, its interrupts and   *)
(* its bursts: bytes leave it in the order in which they entered it, none   *)
(* is lost or doubled, and at most Capacity of them are inside.  The        *)
(* promise ends when the channel is torn (the guest makes it write out a    *)
(* word that it does not have) and holds again from the next reset.         *)
(***************************************************************************)
EXTENDS Integers, Sequences

CONSTANT Capacity

VARIABLES
  inb,        \* the bytes that have entered since the last reset
  outb,       \* the bytes that have left
  torn

pipeVars == <<inb, outb, torn>>

PipeInit == inb = <<>> /\ outb = <<>> /\ torn = FALSE

(* out is an initial part of in *)
Precedes(out, in) ==
  /\ Len(out) <= Len(in)
  /\ out = SubSeq(in, 1, Len(out))

(* Bytes enter and bytes leave, in one step of the machine *)
Move ==
  /\ ~torn /\ UNCHANGED torn
  /\ Precedes(inb, inb') /\ Precedes(outb, outb')
  /\ Precedes(outb', inb')
  /\ Len(inb') - Len(outb') <= Capacity

Tear == torn' = TRUE

Reset == inb' = <<>> /\ outb' = <<>> /\ torn' = FALSE

PipeNext == Move \/ Tear \/ Reset

PipeSpec == PipeInit /\ [][PipeNext]_pipeVars
================================================================================
