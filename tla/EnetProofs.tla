------------------------------- MODULE EnetProofs ------------------------------
(***************************************************************************)
(* For every queue, packet and buffer size, any number of packets, resets   *)
(* and configuration changes, and a careful guest: the controller never     *)
(* sends into a reception, never polls a queue that was destroyed, and      *)
(* gives the guest what a lossy link gives.                                 *)
(*                                                                          *)
(* The invariant relates the receive buffer, the memory written so far and  *)
(* the queue.  A packet in the buffer marks the network busy; what is       *)
(* written of it and what is left make up at least a packet; and the        *)
(* numbers of the packet received last, the packet in the buffer and the    *)
(* packets in the queue increase.  The handler is two functions of the      *)
(* machine, so this part is stated for a machine record and proved function *)
(* by function.                                                             *)
(*                                                                          *)
(* Types, the bound of the queue and the end of a stop need no care of the  *)
(* guest: they have an invariant and a proof of their own.                  *)
(***************************************************************************)
EXTENDS Enet, TLAPS

Buffers == [n : Nat, eop : BOOLEAN]

Rcv == {"WAITING", "RECEIVING"}

Machines ==
  [busy : BOOLEAN, rcv : Rcv, pkt : Int, size : Nat, frame : Seq(Int),
   rxd : Seq(Nat), txsize : Nat, txd : Seq(Buffers), slirpq : Seq(Packets), offered : Nat,
   received : Seq(Int)]

LastOf(seq) == IF seq = <<>> THEN 0 ELSE seq[Len(seq)]

(* The packet in the buffer and what is written of it *)
Buffered(s) ==
  /\ s.size > 0 => s.busy /\ Len(s.frame) + s.size >= PacketLen
  /\ s.size = 0 \/ s.rcv = "WAITING" => s.frame = <<>>
  /\ \A i \in 1..Len(s.frame) : s.frame[i] = s.pkt

(* What may come into the buffer next *)
Fresh(s, id) == id = Own \/ (id \in 1..s.offered /\ id > LastOf(s.received))

(* A queue of packets, each after the packet with number low *)
After(q, low, high) ==
  /\ \A i \in 1..Len(q) : q[i].id > low /\ q[i].id <= high
  /\ \A i, j \in 1..Len(q) : i < j => q[i].id < q[j].id

Ordered(s) ==
  /\ LastOf(s.received) \in 0..s.offered
  /\ s.size > 0 => Fresh(s, s.pkt) /\ After(s.slirpq, s.pkt, s.offered)
  /\ After(s.slirpq, LastOf(s.received), s.offered)
  /\ Len(s.slirpq) <= QueueMax

MachineInv(s) == s \in Machines /\ Buffered(s) /\ Ordered(s)

(* SLiRP runs whenever the controller may poll, and runs with its queue *)
SlirpInv ==
  /\ started => alive = {"queue", "mutex"} /\ cpu = "run"
  /\ ~stopped /\ ~reset /\ connected => started

Rest ==
  /\ turbo \in BOOLEAN /\ connected \in BOOLEAN /\ twisted \in BOOLEAN
  /\ port \in {"loop", "wire", "pair"} /\ rxMode \in DOMAIN Accepted
  /\ txOn \in BOOLEAN /\ reset \in BOOLEAN /\ stopped \in BOOLEAN
  /\ started \in BOOLEAN /\ alive \subseteq {"queue", "mutex"}
  /\ tick \in {"none", "sleep", "lock1", "lock2", "poll", "output", "ended", "hung"}
  /\ cpu \in {"run", "destroyQueue", "destroyMutex", "join"}
  /\ collided = FALSE /\ cutShort \in BOOLEAN
  /\ misuse \subseteq {"tick"} /\ buffers \in Nat /\ resets \in Nat

Inv == MachineInv(Machine) /\ SlirpInv /\ Rest

LinkStep(s, t) ==
  /\ t.offered >= s.offered
  /\ \/ t.received = s.received
     \/ \E p \in 1..s.offered :
          p > LastOf(s.received) /\ t.received = Append(s.received, p)

LEMMA RcvStates == "WAITING" \in Rcv /\ "RECEIVING" \in Rcv
BY DEF Rcv

LEMMA Constants ==
  /\ QueueMax \in Nat \ {0} /\ PacketLen \in Nat \ {0} /\ Crc \in Nat /\ Trail \in Nat
  /\ Own \in Int /\ Own < 0
  /\ \A b \in TxBuffers : b \in Buffers
  /\ \A m \in DOMAIN Accepted : Accepted[m] \subseteq Everyone
BY EnetAssumption DEF Own, Buffers, Accepted, Everyone

(***************************************************************************)
(* The queue.                                                               *)
(***************************************************************************)
LEMMA PacketType == \A p \in Packets : p.id \in Nat /\ p.id > 0
BY DEF Packets

LEMMA QueueElements ==
  ASSUME NEW q \in Seq(Packets)
  PROVE  \A i \in 1..Len(q) : q[i] \in Packets /\ q[i].id \in Nat
<1>1. \A i \in 1..Len(q) : q[i] \in Packets
  OBVIOUS
<1> QED BY <1>1, PacketType

LEMMA QueueEnterType ==
  ASSUME NEW q \in Seq(Packets), NEW p \in Packets, Len(q) <= QueueMax
  PROVE  QueueEnter(q, p) \in Seq(Packets) /\ Len(QueueEnter(q, p)) <= QueueMax
BY Constants DEF QueueEnter

(* The next packet has a higher number than all before *)
LEMMA QueueEnterOrder ==
  ASSUME NEW q \in Seq(Packets), NEW low \in Int, NEW high \in Nat, NEW to \in Everyone,
         low <= high, After(q, low, high)
  PROVE  After(QueueEnter(q, [id |-> high + 1, to |-> to]), low, high + 1)
<1> DEFINE p == [id |-> high + 1, to |-> to]
<1>1. p.id = high + 1 /\ p \in Packets
  BY DEF Packets
<1> HIDE DEF p
<1>2. \A i \in 1..Len(q) : q[i] \in Packets /\ q[i].id \in Nat
  BY QueueElements
<1>3. CASE Len(q) < QueueMax
  <2>1. /\ Len(Append(q, p)) = Len(q) + 1
        /\ \A i \in 1..Len(q) : Append(q, p)[i] = q[i]
        /\ Append(q, p)[Len(q) + 1] = p
    BY <1>1
  <2> DEFINE r == Append(q, p)
  <2>2. \A i \in 1..Len(r) : IF i = Len(q) + 1 THEN r[i] = p ELSE i \in 1..Len(q) /\ r[i] = q[i]
    BY <2>1
  <2>3. Len(r) = Len(q) + 1
    BY <2>1
  <2> HIDE DEF r
  <2>4. \A i \in 1..Len(r) : r[i].id > low /\ r[i].id <= high + 1
    BY <2>2, <1>1, <1>2 DEF After
  <2>5. \A i, j \in 1..Len(r) : i < j => r[i].id < r[j].id
    <3> SUFFICES ASSUME NEW i \in 1..Len(r), NEW j \in 1..Len(r), i < j
                 PROVE  r[i].id < r[j].id
      OBVIOUS
    <3>1. i \in 1..Len(q) /\ r[i] = q[i]
      BY <2>2, <2>3
    <3>2. CASE j = Len(q) + 1
      BY <3>1, <3>2, <2>2, <1>1, <1>2 DEF After
    <3>3. CASE j # Len(q) + 1
      BY <3>1, <3>3, <2>2, <1>2 DEF After
    <3> QED BY <3>2, <3>3
  <2> QED BY <1>3, <2>4, <2>5 DEF QueueEnter, p, r, After
<1>4. CASE ~(Len(q) < QueueMax)
  BY <1>4, <1>2 DEF QueueEnter, After
<1> QED BY <1>3, <1>4

LEMMA QueueHead ==
  ASSUME NEW q \in Seq(Packets), q # <<>>, NEW low \in Int, NEW high \in Nat,
         After(q, low, high)
  PROVE  /\ Tail(q) \in Seq(Packets) /\ Len(Tail(q)) = Len(q) - 1
         /\ Head(q) \in Packets /\ Head(q).id > low /\ Head(q).id <= high
         /\ After(Tail(q), low, high) /\ After(Tail(q), Head(q).id, high)
<1>1. /\ Tail(q) \in Seq(Packets) /\ Len(Tail(q)) = Len(q) - 1 /\ Len(q) > 0
      /\ \A i \in 1..Len(Tail(q)) : Tail(q)[i] = q[i + 1] /\ i + 1 \in 1..Len(q)
      /\ Head(q) = q[1] /\ 1 \in 1..Len(q)
  OBVIOUS
<1>2. \A i \in 1..Len(q) : q[i] \in Packets /\ q[i].id \in Nat
  BY QueueElements
<1>3. \A i \in 1..Len(Tail(q)) :
        Tail(q)[i].id > low /\ Tail(q)[i].id <= high /\ Tail(q)[i].id > Head(q).id
  BY <1>1, <1>2 DEF After
<1>4. \A i, j \in 1..Len(Tail(q)) : i < j => Tail(q)[i].id < Tail(q)[j].id
  BY <1>1, <1>2 DEF After
<1> QED BY <1>1, <1>2, <1>3, <1>4 DEF After

(***************************************************************************)
(* Reception.                                                               *)
(***************************************************************************)
LEMMA enet_receiveInv ==
  ASSUME NEW s, MachineInv(s), s.size = 0, NEW id \in Int, NEW to, Fresh(s, id),
         After(s.slirpq, id, s.offered)
  PROVE  /\ MachineInv(enet_receive(s, id, to))
         /\ enet_receive(s, id, to).offered = s.offered
         /\ enet_receive(s, id, to).received = s.received
<1>1. CASE ~enet_packet_for_me(to)
  BY <1>1 DEF enet_receive
<1>2. CASE enet_packet_for_me(to)
  <2> DEFINE t == [s EXCEPT !.pkt = id, !.size = PacketLen, !.busy = TRUE]
  <2>1. s \in Machines /\ Buffered(s) /\ Ordered(s)
    BY DEF MachineInv
  <2>2. /\ t \in Machines /\ t.pkt = id /\ t.size = PacketLen /\ t.busy = TRUE
        /\ t.rcv = s.rcv /\ t.frame = s.frame /\ t.slirpq = s.slirpq
        /\ t.offered = s.offered /\ t.received = s.received
    BY <2>1, Constants DEF Machines
  <2> HIDE DEF t
  <2>3. s.frame = <<>>
    BY <2>1 DEF Buffered
  <2>4. Buffered(t)
    BY <2>2, <2>3, Constants DEF Buffered
  <2>5. Ordered(t)
    BY <2>1, <2>2 DEF Ordered, Fresh
  <2> QED BY <1>2, <2>2, <2>4, <2>5 DEF enet_receive, MachineInv, t
<1> QED BY <1>1, <1>2

LEMMA PollInv ==
  ASSUME NEW s, MachineInv(s), s.size = 0
  PROVE  /\ MachineInv(enet_slirp_queue_poll(s))
         /\ LinkStep(s, enet_slirp_queue_poll(s))
<1> DEFINE q == s.slirpq
           t == [s EXCEPT !.slirpq = Tail(s.slirpq)]
<1>1. s \in Machines /\ Buffered(s) /\ Ordered(s) /\ s.offered \in Nat /\ q \in Seq(Packets)
  BY DEF MachineInv, Machines
<1>2. CASE q = <<>>
  BY <1>1, <1>2 DEF enet_slirp_queue_poll, LinkStep
<1>3. CASE q # <<>>
  <2> DEFINE low == LastOf(s.received)
  <2>1. low \in Nat /\ low <= s.offered /\ After(q, low, s.offered) /\ Len(q) <= QueueMax
    BY <1>1 DEF Ordered
  <2> HIDE DEF low
  <2>2. /\ Tail(q) \in Seq(Packets) /\ Len(Tail(q)) = Len(q) - 1
        /\ Head(q) \in Packets /\ Head(q).id > low /\ Head(q).id <= s.offered
        /\ After(Tail(q), low, s.offered) /\ After(Tail(q), Head(q).id, s.offered)
    BY <1>1, <1>3, <2>1, QueueHead
  <2>3. /\ t \in Machines /\ t.slirpq = Tail(q) /\ t.size = 0 /\ t.frame = s.frame
        /\ t.pkt = s.pkt /\ t.rcv = s.rcv /\ t.offered = s.offered
        /\ t.received = s.received
    BY <1>1, <2>2 DEF Machines
  <2> HIDE DEF t, q
  <2>4. Len(Tail(q)) <= QueueMax
    BY <2>1, <2>2, <1>1, Constants
  <2>5. MachineInv(t)
    BY <1>1, <2>1, <2>2, <2>3, <2>4 DEF MachineInv, Buffered, Ordered, low
  <2>6. Head(q).id \in Int /\ Fresh(t, Head(q).id)
    BY <2>1, <2>2, <2>3, <1>1 DEF Fresh, Packets, low
  <2>7. After(t.slirpq, Head(q).id, t.offered)
    BY <2>2, <2>3
  <2>8. /\ MachineInv(enet_receive(t, Head(q).id, Head(q).to))
        /\ enet_receive(t, Head(q).id, Head(q).to).offered = t.offered
        /\ enet_receive(t, Head(q).id, Head(q).to).received = t.received
    BY <2>3, <2>5, <2>6, <2>7, enet_receiveInv
  <2>9. enet_slirp_queue_poll(s) = enet_receive(t, Head(q).id, Head(q).to)
    BY <1>3 DEF enet_slirp_queue_poll, t, q
  <2> QED BY <1>1, <2>3, <2>8, <2>9 DEF LinkStep
<1> QED BY <1>2, <1>3

LEMMA MachineBegins ==
  ASSUME NEW s \in Machines, NEW n \in Nat
  PROVE  [s EXCEPT !.rcv = "RECEIVING", !.size = n] \in Machines
BY RcvStates DEF Machines

LEMMA MachineWaits ==
  ASSUME NEW s \in Machines, NEW r \in Seq(Int)
  PROVE  [s EXCEPT !.busy = FALSE, !.rcv = "WAITING", !.frame = <<>>, !.pkt = 0,
                   !.received = r] \in Machines
<1>1. <<>> \in Seq(Int) /\ 0 \in Int
  OBVIOUS
<1> QED BY <1>1, RcvStates DEF Machines

LEMMA MachineDrops ==
  ASSUME NEW s \in Machines
  PROVE  [s EXCEPT !.size = 0, !.busy = FALSE, !.rcv = "WAITING", !.frame = <<>>, !.pkt = 0]
           \in Machines
<1>1. <<>> \in Seq(Int) /\ 0 \in Int /\ 0 \in Nat
  OBVIOUS
<1> QED BY <1>1, RcvStates DEF Machines

LEMMA BeginInv ==
  ASSUME NEW s, MachineInv(s), s.size > 0
  PROVE  /\ MachineInv(Begin(s)) /\ Begin(s).size > 0 /\ Begin(s).rcv = "RECEIVING"
         /\ Begin(s).offered = s.offered /\ Begin(s).received = s.received
<1>1. s \in Machines /\ Buffered(s) /\ Ordered(s)
  BY DEF MachineInv
<1>2. CASE s.rcv # "WAITING"
  BY <1>1, <1>2 DEF Begin, MachineInv, Machines, Rcv
<1>3. CASE s.rcv = "WAITING"
  <2> DEFINE t == [s EXCEPT !.rcv = "RECEIVING", !.size = s.size + Crc]
  <2>0. t \in Machines
    <3>1. s.size + Crc \in Nat
      BY <1>1, Constants DEF Machines
    <3> QED BY <1>1, <3>1, MachineBegins
  <2>1. /\ t.rcv = "RECEIVING" /\ t.size = s.size + Crc
        /\ t.busy = s.busy /\ t.frame = s.frame /\ t.pkt = s.pkt /\ t.slirpq = s.slirpq
        /\ t.offered = s.offered /\ t.received = s.received
    BY <1>1 DEF Machines
  <2> HIDE DEF t
  <2>2. s.size \in Nat /\ s.size > 0 /\ t.size > 0 /\ t.size >= s.size
    BY <1>1, <2>1, Constants DEF Machines
  <2>3. s.busy /\ s.frame = <<>> /\ Len(s.frame) = 0 /\ s.size >= PacketLen
    BY <1>1, <1>3, <2>2, Constants DEF Buffered
  <2>5. Buffered(t)
    BY <2>1, <2>2, <2>3, Constants DEF Buffered
  <2>4. Ordered(t)
    BY <1>1, <2>1, <2>2 DEF Ordered, Fresh
  <2> QED BY <1>3, <2>0, <2>1, <2>2, <2>4, <2>5 DEF Begin, MachineInv, t
<1> QED BY <1>2, <1>3

LEMMA OverflowInv ==
  ASSUME NEW s \in Machines, Len(s.slirpq) <= QueueMax,
         LastOf(s.received) \in 0..s.offered, After(s.slirpq, LastOf(s.received), s.offered)
  PROVE  /\ MachineInv(Overflow(s))
         /\ Overflow(s).offered = s.offered /\ Overflow(s).received = s.received
<1> DEFINE t == Overflow(s)
<1>0. t \in Machines
  BY MachineDrops DEF Overflow
<1>1. /\ t.rcv = "WAITING" /\ t.size = 0 /\ t.frame = <<>>
      /\ t.slirpq = s.slirpq /\ t.offered = s.offered /\ t.received = s.received
  BY DEF Machines, Overflow
<1> HIDE DEF t
<1>2. Buffered(t) /\ Ordered(t)
  BY <1>1 DEF Buffered, Ordered
<1> QED BY <1>0, <1>1, <1>2 DEF MachineInv, t

(* What is written extends the frame with units of the same packet *)
LEMMA WrittenFrame ==
  ASSUME NEW f \in Seq(Int), NEW p \in Int, NEW k \in Nat, \A i \in 1..Len(f) : f[i] = p
  PROVE  /\ f \o [i \in 1..k |-> p] \in Seq(Int)
         /\ Len(f \o [i \in 1..k |-> p]) = Len(f) + k
         /\ \A i \in 1..(Len(f) + k) : (f \o [j \in 1..k |-> p])[i] = p
<1> DEFINE g == [i \in 1..k |-> p]
<1>1. g \in Seq(Int) /\ Len(g) = k /\ \A i \in 1..k : g[i] = p
  OBVIOUS
<1> HIDE DEF g
<1>2. /\ f \o g \in Seq(Int) /\ Len(f \o g) = Len(f) + k
      /\ \A i \in 1..(Len(f) + k) :
           (f \o g)[i] = IF i <= Len(f) THEN f[i] ELSE g[i - Len(f)]
  BY <1>1
<1>3. \A i \in 1..(Len(f) + k) : (f \o g)[i] = p
  BY <1>1, <1>2
<1> QED BY <1>2, <1>3 DEF g

LEMMA CompleteInv ==
  ASSUME NEW s \in Machines, s.size = 0, Ordered(s), Fresh(s, s.pkt),
         After(s.slirpq, s.pkt, s.offered), Len(s.frame) >= PacketLen,
         \A i \in 1..Len(s.frame) : s.frame[i] = s.pkt
  PROVE  MachineInv(Complete(s)) /\ LinkStep(s, Complete(s))
<1>1. /\ s.frame \in Seq(Int) /\ s.received \in Seq(Int) /\ s.pkt \in Int
      /\ s.offered \in Nat /\ s.slirpq \in Seq(Packets)
  BY DEF Machines
<1>2. 1 \in 1..Len(s.frame) /\ DOMAIN s.frame = 1..Len(s.frame)
  BY <1>1, Constants
<1>3. PacketIn(s.frame) = s.pkt
  BY <1>2 DEF PacketIn, Whole
<1> DEFINE r == IF s.pkt = Own THEN s.received ELSE Append(s.received, s.pkt)
           t == [s EXCEPT !.busy = FALSE, !.rcv = "WAITING", !.frame = <<>>, !.pkt = 0,
                          !.received = r]
<1>4. Complete(s) = t
  BY <1>3 DEF Complete
<1>5. r \in Seq(Int)
  BY <1>1
<1>8. LastOf(r) \in 0..s.offered /\ After(s.slirpq, LastOf(r), s.offered)
  <2>1. CASE s.pkt = Own
    BY <2>1 DEF Ordered
  <2>2. CASE s.pkt # Own
    <3>1. s.pkt \in 1..s.offered
      BY <2>2 DEF Fresh
    <3>2. LastOf(r) = s.pkt
      BY <1>1, <2>2 DEF LastOf
    <3> QED BY <3>1, <3>2, <1>1
  <2> QED BY <2>1, <2>2
<1> HIDE DEF r
<1>12. t \in Machines
  BY <1>5, MachineWaits
<1>9. /\ t.size = 0 /\ t.frame = <<>> /\ t.received = r
      /\ t.slirpq = s.slirpq /\ t.offered = s.offered
  BY DEF Machines
<1> HIDE DEF t
<1>10. MachineInv(t)
  BY <1>8, <1>9, <1>12 DEF MachineInv, Buffered, Ordered
<1>11. LinkStep(s, t)
  <2>1. CASE s.pkt = Own
    BY <1>1, <1>9, <2>1 DEF LinkStep, r
  <2>2. CASE s.pkt # Own
    <3>1. s.pkt \in 1..s.offered /\ s.pkt > LastOf(s.received)
      BY <2>2 DEF Fresh
    <3>2. t.received = Append(s.received, s.pkt)
      BY <1>9, <2>2 DEF r
    <3> QED BY <1>1, <1>9, <3>1, <3>2 DEF LinkStep
  <2> QED BY <2>1, <2>2
<1> QED BY <1>4, <1>10, <1>11

LEMMA TransferInv ==
  ASSUME NEW s, MachineInv(s), s.size > 0, s.rcv = "RECEIVING", NEW k \in 0..Written(s)
  PROVE  MachineInv(Transfer(s, k)) /\ LinkStep(s, Transfer(s, k))
<1>1. s \in Machines /\ Buffered(s) /\ Ordered(s)
  BY DEF MachineInv
<1>2. /\ s.size \in Nat /\ s.offered \in Nat /\ s.pkt \in Int /\ s.frame \in Seq(Int)
      /\ s.rxd \in Seq(Nat) /\ s.slirpq \in Seq(Packets)
  BY <1>1 DEF Machines
<1>3. /\ LastOf(s.received) \in 0..s.offered /\ Len(s.slirpq) <= QueueMax
      /\ After(s.slirpq, LastOf(s.received), s.offered)
      /\ Fresh(s, s.pkt) /\ After(s.slirpq, s.pkt, s.offered)
  BY <1>1 DEF Ordered
<1>4. CASE s.rxd = <<>>
  <2>1. Transfer(s, k) = Overflow(s)
    BY <1>4 DEF Transfer, dma_enet_write_memory
  <2> QED BY <1>1, <1>2, <1>3, <2>1, OverflowInv DEF LinkStep
<1>5. CASE s.rxd # <<>>
  <2> DEFINE d == dma_enet_interrupt(s.rxd, k < Written(s))
             f == s.frame \o [i \in 1..k |-> s.pkt]
             w == [s EXCEPT !.size = s.size - k, !.frame = f, !.rxd = d]
  <2>1. k \in Nat /\ k <= s.size /\ s.size - k \in Nat
    BY <1>2, <1>5 DEF Written, Smaller
  <2>2. d \in Seq(Nat)
    BY <1>2, <1>5 DEF dma_enet_interrupt
  <2>3. /\ f \in Seq(Int) /\ Len(f) = Len(s.frame) + k
        /\ \A i \in 1..Len(f) : f[i] = s.pkt
    <3>1. \A i \in 1..Len(s.frame) : s.frame[i] = s.pkt
      BY <1>1 DEF Buffered
    <3> HIDE DEF f
    <3>2. f \in Seq(Int) /\ Len(f) = Len(s.frame) + k
      BY <1>2, <2>1, <3>1, WrittenFrame DEF f
    <3>3. \A i \in 1..(Len(s.frame) + k) : f[i] = s.pkt
      BY <1>2, <2>1, <3>1, WrittenFrame DEF f
    <3> QED BY <3>2, <3>3
  <2>4. dma_enet_write_memory(s, k) = w
    BY <1>5 DEF dma_enet_write_memory
  <2> HIDE DEF d, f
  <2>5. /\ w \in Machines /\ w.size = s.size - k /\ w.frame = f /\ w.pkt = s.pkt
        /\ w.busy = s.busy /\ w.rcv = "RECEIVING" /\ w.slirpq = s.slirpq
        /\ w.offered = s.offered /\ w.received = s.received
    BY <1>1, <2>1, <2>2, <2>3 DEF Machines
  <2>6. Transfer(s, k) = IF w.size = s.size THEN Overflow(w)
                         ELSE IF w.size > 0 THEN w ELSE Complete(w)
    BY <2>4 DEF Transfer
  <2> HIDE DEF w
  <2>7. Fresh(w, w.pkt) /\ Ordered(w)
    BY <1>3, <2>5 DEF Fresh, Ordered
  <2>8. Len(f) + w.size >= PacketLen /\ s.busy
    BY <1>1, <1>2, <2>1, <2>3, <2>5, Constants DEF Buffered
  <2>9. CASE w.size = s.size
    BY <1>2, <1>3, <2>5, <2>6, <2>9, OverflowInv DEF LinkStep
  <2>10. CASE w.size # s.size /\ w.size > 0
    <3>1. Buffered(w)
      BY <2>3, <2>5, <2>8, <2>10 DEF Buffered
    <3> QED BY <1>2, <2>5, <2>6, <2>7, <2>10, <3>1 DEF MachineInv, LinkStep
  <2>11. CASE w.size # s.size /\ w.size = 0
    <3>1. Len(w.frame) >= PacketLen
      BY <2>3, <2>5, <2>8, <2>11, Constants
    <3>2. MachineInv(Complete(w)) /\ LinkStep(w, Complete(w))
      BY <1>3, <2>3, <2>5, <2>7, <2>11, <3>1, CompleteInv
    <3> QED BY <2>5, <2>6, <2>11, <3>2 DEF LinkStep
  <2> QED BY <2>1, <2>5, <2>9, <2>10, <2>11
<1> QED BY <1>4, <1>5

LEMMA ReceiveInv ==
  ASSUME NEW s, MachineInv(s),
         NEW k \in 0..(IF s.size > 0 THEN Written(Begin(s)) ELSE 0)
  PROVE  MachineInv(Receive(s, k)) /\ LinkStep(s, Receive(s, k))
<1>1. CASE s.size > 0
  <2>1. /\ MachineInv(Begin(s)) /\ Begin(s).size > 0 /\ Begin(s).rcv = "RECEIVING"
        /\ Begin(s).offered = s.offered /\ Begin(s).received = s.received
    BY <1>1, BeginInv
  <2>2. MachineInv(Transfer(Begin(s), k)) /\ LinkStep(Begin(s), Transfer(Begin(s), k))
    BY <1>1, <2>1, TransferInv
  <2> QED BY <1>1, <2>1, <2>2 DEF Receive, LinkStep
<1>2. CASE s.size = 0 /\ Polls(s)
  BY <1>2, PollInv DEF Receive
<1>3. CASE s.size = 0 /\ ~Polls(s)
  BY <1>3 DEF Receive, LinkStep, MachineInv, Machines
<1> QED BY <1>1, <1>2, <1>3 DEF MachineInv, Machines

(***************************************************************************)
(* Transmission.                                                            *)
(***************************************************************************)
(* The invariant does not look at the transmit side *)
WithTx(s, n, d) == [s EXCEPT !.txsize = n, !.txd = d]

LEMMA TransmitSide ==
  ASSUME NEW s, MachineInv(s), NEW n \in Nat, NEW d \in Seq(Buffers)
  PROVE  /\ MachineInv(WithTx(s, n, d)) /\ WithTx(s, n, d).size = s.size
         /\ WithTx(s, n, d).busy = s.busy /\ WithTx(s, n, d).offered = s.offered
         /\ WithTx(s, n, d).received = s.received /\ WithTx(s, n, d).slirpq = s.slirpq
<1> DEFINE t == WithTx(s, n, d)
<1>1. s \in Machines /\ Buffered(s) /\ Ordered(s)
  BY DEF MachineInv
<1>2. /\ t \in Machines /\ t.size = s.size /\ t.busy = s.busy /\ t.rcv = s.rcv
      /\ t.pkt = s.pkt /\ t.frame = s.frame /\ t.slirpq = s.slirpq
      /\ t.offered = s.offered /\ t.received = s.received
  BY <1>1 DEF Machines, WithTx
<1> HIDE DEF t
<1>3. Buffered(t)
  BY <1>1, <1>2 DEF Buffered
<1>4. Ordered(t)
  BY <1>1, <1>2 DEF Ordered, Fresh
<1> QED BY <1>2, <1>3, <1>4 DEF MachineInv, t

LEMMA TxReadInv ==
  ASSUME NEW s, MachineInv(s), NEW j \in 0..TxUnits(s)
  PROVE  /\ MachineInv(TxRead(s, j)) /\ TxRead(s, j).size = s.size
         /\ TxRead(s, j).busy = s.busy /\ TxRead(s, j).offered = s.offered
         /\ TxRead(s, j).received = s.received
<1>1. s \in Machines /\ s.txsize \in Nat /\ s.txd \in Seq(Buffers)
  BY DEF MachineInv, Machines
<1>2. CASE s.txd = <<>>
  BY <1>2 DEF TxRead
<1>3. CASE s.txd # <<>>
  <2> DEFINE d == dma_enet_interrupt(s.txd, j < TxUnits(s))
             n == s.txsize + j
  <2>1. d \in Seq(Buffers)
    BY <1>1, <1>3 DEF dma_enet_interrupt
  <2>2. Head(s.txd) \in Buffers
    BY <1>1, <1>3
  <2>3. n \in Nat
    BY <1>1, <1>3, <2>2 DEF TxUnits, Buffers
  <2>4. TxRead(s, j) = WithTx(s, n, d)
    BY <1>3 DEF TxRead, WithTx
  <2> HIDE DEF n, d
  <2> QED BY <2>1, <2>3, <2>4, TransmitSide
<1> QED BY <1>2, <1>3

(* SLiRP's answer goes into the queue *)
Answered(s, to) ==
  [s EXCEPT !.offered = s.offered + 1,
            !.slirpq = QueueEnter(s.slirpq, [id |-> s.offered + 1, to |-> to])]

LEMMA AnswerInv ==
  ASSUME NEW s, MachineInv(s), NEW to \in Everyone
  PROVE  /\ MachineInv(Answered(s, to)) /\ Answered(s, to).size = s.size
         /\ Answered(s, to).offered = s.offered + 1
         /\ Answered(s, to).received = s.received
<1> DEFINE t == Answered(s, to)
<1>1. s \in Machines /\ Buffered(s) /\ Ordered(s)
  BY DEF MachineInv
<1>2. s.offered \in Nat /\ s.slirpq \in Seq(Packets) /\ Len(s.slirpq) <= QueueMax
  BY <1>1 DEF Machines, Ordered
<1> DEFINE m == s.offered + 1
           q == QueueEnter(s.slirpq, [id |-> m, to |-> to])
           low == LastOf(s.received)
<1>3. m \in Nat \ {0} /\ m > s.offered
  BY <1>2
<1>4. q \in Seq(Packets) /\ Len(q) <= QueueMax
  <2>1. [id |-> m, to |-> to] \in Packets
    BY <1>3 DEF Packets
  <2> QED BY <1>2, <2>1, QueueEnterType
<1>5. low \in Int /\ low <= s.offered /\ low \in 0..s.offered /\ After(s.slirpq, low, s.offered)
  BY <1>1, <1>2 DEF Ordered
<1>6. After(q, low, m)
  <2> HIDE DEF low
  <2> QED BY <1>2, <1>5, QueueEnterOrder
<1>11. s.size > 0 => s.pkt = Own \/ s.pkt \in 1..m
  BY <1>1, <1>2, <1>3 DEF Ordered, Fresh
<1>12. s.size > 0 => After(q, s.pkt, m)
  <2> SUFFICES ASSUME s.size > 0 PROVE After(q, s.pkt, m)
    OBVIOUS
  <2>1. After(s.slirpq, s.pkt, s.offered) /\ s.pkt \in Int /\ s.pkt <= s.offered
    BY <1>1, <1>2, Constants DEF Ordered, Fresh
  <2> QED BY <1>2, <2>1, QueueEnterOrder
<1> HIDE DEF m, q
<1>7. t = [s EXCEPT !.offered = m, !.slirpq = q]
  BY DEF m, q, Answered
<1> HIDE DEF t
<1>8. /\ t \in Machines /\ t.size = s.size /\ t.frame = s.frame /\ t.rcv = s.rcv
      /\ t.busy = s.busy
      /\ t.pkt = s.pkt /\ t.slirpq = q /\ t.offered = m /\ t.received = s.received
  BY <1>1, <1>3, <1>4, <1>7 DEF Machines
<1>9. Buffered(t)
  BY <1>1, <1>8 DEF Buffered
<1>13. s.size > 0 => Fresh(t, t.pkt)
  BY <1>1, <1>8, <1>11 DEF Fresh, Ordered
<1>10. Ordered(t)
  BY <1>2, <1>3, <1>4, <1>5, <1>6, <1>8, <1>12, <1>13 DEF Ordered
<1> QED BY <1>8, <1>9, <1>10 DEF MachineInv, m, t

LEMMA TransmittedInv ==
  ASSUME NEW s, MachineInv(s), ~s.busy, NEW to, NEW answer \in Addresses \cup {"none"}
  PROVE  /\ MachineInv(Transmitted(s, to, answer))
         /\ Transmitted(s, to, answer).offered >= s.offered
         /\ Transmitted(s, to, answer).received = s.received
<1> DEFINE out == [s EXCEPT !.txsize = 0]
           net == IF answer = "none" \/ ~Network \/ ~started THEN out
                  ELSE [out EXCEPT !.offered = s.offered + 1,
                                   !.slirpq = QueueEnter(s.slirpq,
                                                [id |-> s.offered + 1, to |-> answer])]
<1>1. s \in Machines /\ s.size = 0 /\ s.offered \in Nat /\ s.txd \in Seq(Buffers)
  BY DEF MachineInv, Buffered, Machines
<1>2. /\ MachineInv(out) /\ out.size = 0 /\ out.offered = s.offered
      /\ out.received = s.received /\ out.slirpq = s.slirpq
  <2>1. out = WithTx(s, 0, s.txd)
    BY <1>1 DEF Machines, WithTx
  <2> HIDE DEF out
  <2> QED BY <1>1, <2>1, TransmitSide
<1> HIDE DEF out
<1>3. /\ MachineInv(net) /\ net.size = 0 /\ net.offered >= s.offered
      /\ net.received = s.received
  <2>1. CASE answer = "none" \/ ~Network \/ ~started
    BY <1>1, <1>2, <2>1
  <2>2. CASE ~(answer = "none" \/ ~Network \/ ~started)
    <3>1. answer \in Everyone
      BY <2>2, EnetAssumption
    <3>2. net = Answered(out, answer)
      BY <2>2, <1>2 DEF Answered
    <3> HIDE DEF net
    <3>3. /\ MachineInv(net) /\ net.size = 0 /\ net.offered = out.offered + 1
          /\ net.received = out.received
      BY <1>2, <3>1, <3>2, AnswerInv
    <3> QED BY <1>1, <1>2, <3>3
  <2> QED BY <2>1, <2>2
<1>4. Transmitted(s, to, answer) =
        IF enet_state = "TWISTEDPAIR" THEN net ELSE enet_receive(net, Own, to)
  BY DEF Transmitted, out
<1> HIDE DEF net
<1>5. net.slirpq \in Seq(Packets) /\ After(net.slirpq, LastOf(net.received), net.offered)
      /\ LastOf(net.received) \in Nat
  BY <1>3 DEF MachineInv, Machines, Ordered
<1>6. After(net.slirpq, Own, net.offered)
  BY <1>5, QueueElements, Constants DEF After
<1>7. /\ MachineInv(enet_receive(net, Own, to))
      /\ enet_receive(net, Own, to).offered = net.offered
      /\ enet_receive(net, Own, to).received = net.received
  <2>1. Fresh(net, Own)
    BY DEF Fresh
  <2> QED BY <1>3, <1>6, <2>1, Constants, enet_receiveInv
<1> QED BY <1>3, <1>4, <1>7

LEMMA SendInv ==
  ASSUME NEW s, MachineInv(s), NEW j \in 0..TxUnits(s), NEW to,
         NEW answer \in Addresses \cup {"none"}
  PROVE  /\ MachineInv(Send(s, j, to, answer))
         /\ Send(s, j, to, answer).offered >= s.offered
         /\ Send(s, j, to, answer).received = s.received
         /\ Sends(s, j) => s.size = 0
<1>0. s \in Machines /\ s.offered \in Nat /\ (s.size > 0 => s.busy) /\ s.size \in Nat
  BY DEF MachineInv, Machines, Buffered
<1>1. Sends(s, j) => s.size = 0
  BY <1>0 DEF Sends, MaySend
<1> DEFINE r == TxRead(s, j)
<1>2. /\ MachineInv(r) /\ r.size = s.size /\ r.busy = s.busy /\ r.offered = s.offered
      /\ r.received = s.received
  BY TxReadInv
<1>3. r \in Machines /\ r.txsize \in Nat /\ r.txd \in Seq(Buffers)
  BY <1>2 DEF MachineInv, Machines
<1>4. CASE ~MaySend(s)
  BY <1>0, <1>1, <1>4 DEF Send
<1>5. CASE MaySend(s) /\ TxSends(s, j)
  <2>1. ~r.busy
    BY <1>2, <1>5 DEF MaySend
  <2>2. Send(s, j, to, answer) = Transmitted(r, to, answer)
    BY <1>5 DEF Send
  <2> HIDE DEF r
  <2> QED BY <1>1, <1>2, <2>1, <2>2, TransmittedInv
<1>6. CASE MaySend(s) /\ ~TxSends(s, j)
  <2> DEFINE n == IF turbo THEN 0 ELSE TxLength(s, j)
             t == [r EXCEPT !.txsize = n]
  <2>1. n \in Nat
    BY <1>3, Constants DEF TxLength
  <2>2. Send(s, j, to, answer) = t
    BY <1>6 DEF Send
  <2> HIDE DEF n, r
  <2>3. t = WithTx(r, n, r.txd)
    BY <1>3 DEF Machines, WithTx
  <2> HIDE DEF t
  <2>4. MachineInv(t) /\ t.offered = r.offered /\ t.received = r.received
    BY <1>2, <1>3, <2>1, <2>3, TransmitSide
  <2> QED BY <1>0, <1>1, <1>2, <2>2, <2>4
<1> QED BY <1>4, <1>5, <1>6

(***************************************************************************)
(* The steps.                                                               *)
(***************************************************************************)
(* A step that leaves the reception and the queue alone *)
LEMMA SameReception ==
  ASSUME NEW s, MachineInv(s), NEW t \in Machines, t.size = s.size, t.busy = s.busy,
         t.rcv = s.rcv, t.pkt = s.pkt, t.frame = s.frame, t.slirpq = s.slirpq,
         t.offered = s.offered, t.received = s.received
  PROVE  MachineInv(t) /\ LinkStep(s, t)
BY DEF MachineInv, Buffered, Ordered, Fresh, LinkStep, Machines

(* A new queue, or none *)
LEMMA EmptyQueue ==
  ASSUME NEW s, MachineInv(s), NEW t \in Machines, t.size = s.size, t.busy = s.busy,
         t.rcv = s.rcv, t.pkt = s.pkt, t.frame = s.frame, t.slirpq = <<>>,
         t.offered = s.offered, t.received = s.received
  PROVE  MachineInv(t) /\ LinkStep(s, t)
<1>1. Len(t.slirpq) = 0
  OBVIOUS
<1> QED BY <1>1, Constants DEF MachineInv, Buffered, Ordered, Fresh, After, LinkStep, Machines

(* The receive buffer is empty after *)
LEMMA EmptyBuffer ==
  ASSUME NEW s, MachineInv(s), NEW t \in Machines, t.size = 0, t.frame = <<>>,
         t.slirpq = s.slirpq, t.offered = s.offered, t.received = s.received
  PROVE  MachineInv(t) /\ LinkStep(s, t)
<1>1. Len(t.frame) = 0
  OBVIOUS
<1> QED BY <1>1 DEF MachineInv, Buffered, Ordered, LinkStep, Machines

LEMMA MachineFields ==
  /\ Machine.busy = busy /\ Machine.rcv = rcv /\ Machine.pkt = pkt /\ Machine.size = size
  /\ Machine.frame = frame /\ Machine.rxd = rxd /\ Machine.txsize = txsize
  /\ Machine.txd = txd /\ Machine.slirpq = slirpq /\ Machine.offered = offered
  /\ Machine.received = received
BY DEF Machine

LEMMA NextFields ==
  /\ Machine'.busy = busy' /\ Machine'.rcv = rcv' /\ Machine'.pkt = pkt'
  /\ Machine'.size = size' /\ Machine'.frame = frame' /\ Machine'.rxd = rxd'
  /\ Machine'.txsize = txsize' /\ Machine'.txd = txd' /\ Machine'.slirpq = slirpq'
  /\ Machine'.offered = offered' /\ Machine'.received = received'
BY DEF Machine

LEMMA MachineTypes ==
  Machine \in Machines
    <=> /\ busy \in BOOLEAN /\ rcv \in Rcv /\ pkt \in Int /\ size \in Nat
        /\ frame \in Seq(Int) /\ rxd \in Seq(Nat) /\ txsize \in Nat /\ txd \in Seq(Buffers)
        /\ slirpq \in Seq(Packets) /\ offered \in Nat /\ received \in Seq(Int)
BY DEF Machine, Machines

LEMMA NextTypes ==
  Machine' \in Machines
    <=> /\ busy' \in BOOLEAN /\ rcv' \in Rcv /\ pkt' \in Int /\ size' \in Nat
        /\ frame' \in Seq(Int) /\ rxd' \in Seq(Nat) /\ txsize' \in Nat
        /\ txd' \in Seq(Buffers) /\ slirpq' \in Seq(Packets) /\ offered' \in Nat
        /\ received' \in Seq(Int)
BY DEF Machine, Machines

LEMMA NextInv == MachineInv(Machine)' <=> MachineInv(Machine')
BY DEF MachineInv, Machines, Buffered, Ordered, Fresh, After, LastOf, Machine

(* What a step has to establish *)
Goal == MachineInv(Machine') /\ LinkStep(Machine, Machine') /\ SlirpInv' /\ Rest'

LEMMA ModeTypes ==
  /\ RxModes \subseteq DOMAIN Accepted /\ Addresses \subseteq Everyone
  /\ Ports \subseteq {"loop", "wire", "pair"} /\ Rooms \subseteq Nat
BY EnetAssumption

LEMMA StoppingStep ==
  ASSUME Inv, Stopping
  PROVE  Goal
<1>0. Machine \in Machines /\ MachineInv(Machine) /\ SlirpInv /\ Rest
  BY DEF Inv, MachineInv
<1>1. CASE DestroyQueue
  <2>1. Machine' \in Machines
    BY <1>0, <1>1, MachineTypes, NextTypes DEF DestroyQueue, rxbuf, history
  <2>2. MachineInv(Machine') /\ LinkStep(Machine, Machine')
    BY <1>0, <1>1, <2>1, MachineFields, NextFields, EmptyQueue DEF DestroyQueue, rxbuf, history
  <2> QED BY <1>0, <1>1, <2>2 DEF Goal, DestroyQueue, SlirpInv, Rest, config, guest, history
<1>2. CASE DestroyMutex
  <2>1. Machine' \in Machines
    BY <1>0, <1>2, MachineTypes, NextTypes DEF DestroyMutex, rxbuf, history
  <2>2. MachineInv(Machine') /\ LinkStep(Machine, Machine')
    BY <1>0, <1>2, <2>1, MachineFields, NextFields, SameReception
       DEF DestroyMutex, rxbuf, history
  <2> QED BY <1>0, <1>2, <2>2 DEF Goal, DestroyMutex, SlirpInv, Rest, config, guest, history
<1>3. CASE Join
  <2>1. Machine' \in Machines
    BY <1>0, <1>3, MachineTypes, NextTypes DEF Join, rxbuf, history
  <2>2. MachineInv(Machine') /\ LinkStep(Machine, Machine')
    BY <1>0, <1>3, <2>1, MachineFields, NextFields, SameReception DEF Join, rxbuf, history
  <2> QED BY <1>0, <1>3, <2>2 DEF Goal, Join, SlirpInv, Rest, config, guest, history
<1> QED BY <1>1, <1>2, <1>3 DEF Stopping

(* The tick thread moves and changes nothing but the history of misuse *)
LEMMA TickGoesStep ==
  ASSUME Inv, NEW p \in {"sleep", "lock1", "lock2", "poll", "output", "ended", "hung"},
         TickGoes(p), UNCHANGED slirpq, misuse' = misuse \/ misuse' = misuse \cup {"tick"}
  PROVE  Goal
<1>0. Machine \in Machines /\ MachineInv(Machine) /\ SlirpInv /\ Rest
  BY DEF Inv, MachineInv
<1>1. Machine' \in Machines
  BY <1>0, MachineTypes, NextTypes DEF TickGoes, rxbuf
<1>2. MachineInv(Machine') /\ LinkStep(Machine, Machine')
  BY <1>0, <1>1, MachineFields, NextFields, SameReception DEF TickGoes, rxbuf
<1>3. SlirpInv'
  BY <1>0 DEF TickGoes, SlirpInv, config, guest
<1>4. misuse' \subseteq {"tick"}
  BY <1>0 DEF Rest
<1>5. Rest'
  BY <1>0, <1>4 DEF TickGoes, Rest, config, guest
<1> QED BY <1>2, <1>3, <1>5 DEF Goal

LEMMA TickOutputStep ==
  ASSUME Inv, NEW to \in Addresses, TickOutput(to)
  PROVE  Goal
<1>0. Machine \in Machines /\ MachineInv(Machine) /\ SlirpInv /\ Rest
  BY DEF Inv, MachineInv
<1>1. to \in Everyone /\ offered \in Nat
  BY <1>0, ModeTypes, MachineTypes
<1>2. MachineInv(Machine') /\ LinkStep(Machine, Machine')
  <2>1. CASE "queue" \in alive
    <3>1. Machine' = Answered(Machine, to)
      <4> DEFINE m == offered + 1
                 q == QueueEnter(slirpq, [id |-> m, to |-> to])
      <4>1. Answered(Machine, to) = [Machine EXCEPT !.offered = m, !.slirpq = q]
        BY MachineFields DEF Answered
      <4>2. /\ offered' = m /\ slirpq' = q /\ UNCHANGED <<busy, rcv, pkt, size, frame>>
            /\ UNCHANGED <<rxd, txsize, txd, received>>
        BY <2>1 DEF TickOutput, rxbuf
      <4> HIDE DEF m, q
      <4> QED BY <4>1, <4>2 DEF Machine
    <3>2. MachineInv(Answered(Machine, to)) /\ Answered(Machine, to).offered = offered + 1
          /\ Answered(Machine, to).received = received
      BY <1>0, <1>1, AnswerInv, MachineFields
    <3> QED BY <1>1, <3>1, <3>2, MachineFields DEF LinkStep
  <2>2. CASE "queue" \notin alive
    <3>1. Machine' \in Machines
      BY <1>0, <2>2, <1>1, MachineTypes, NextTypes DEF TickOutput, rxbuf
    <3> DEFINE t == Machine'
    <3>2. /\ t.size = size /\ t.busy = busy /\ t.rcv = rcv /\ t.pkt = pkt /\ t.frame = frame
          /\ t.slirpq = slirpq /\ t.offered = offered + 1 /\ t.received = received
      BY <2>2, NextFields DEF TickOutput, rxbuf
    <3>3. Buffered(t)
      BY <1>0, <3>2, MachineFields DEF MachineInv, Buffered
    <3>4. slirpq \in Seq(Packets)
      BY <1>0, MachineTypes
    <3>5. \A low : After(slirpq, low, offered) => After(slirpq, low, offered + 1)
      BY <1>1, <3>4, QueueElements DEF After
    <3> HIDE DEF t
    <3>6. Ordered(t)
      BY <1>0, <1>1, <3>2, <3>5, MachineFields DEF MachineInv, Ordered, Fresh
    <3> QED BY <1>1, <3>1, <3>2, <3>3, <3>6, MachineFields DEF MachineInv, LinkStep, t
  <2> QED BY <2>1, <2>2
<1>3. SlirpInv'
  BY <1>0 DEF TickOutput, SlirpInv, config, guest
<1>4. misuse' \subseteq {"tick"}
  BY <1>0 DEF Rest, TickOutput
<1>5. Rest'
  BY <1>0, <1>4 DEF TickOutput, Rest, config, guest
<1> QED BY <1>2, <1>3, <1>5 DEF Goal

LEMMA TickStep ==
  ASSUME Inv, Tick
  PROVE  Goal
<1>1. CASE TickWake
  BY <1>1, TickGoesStep DEF TickWake
<1>2. ASSUME NEW from, NEW to \in {"sleep", "lock2", "poll"}, TickLock(from, to)
      PROVE  Goal
  BY <1>2, TickGoesStep DEF TickLock
<1>3. CASE TickFill
  BY <1>2, <1>3 DEF TickFill
<1>4. CASE TickLock("lock2", "poll")
  BY <1>2, <1>4
<1>5. CASE TickCanOutput
  BY <1>5, TickGoesStep DEF TickCanOutput
<1>6. CASE TickPolled
  BY <1>6, TickGoesStep DEF TickPolled
<1>7. CASE \E to \in Addresses : TickOutput(to)
  BY <1>7, TickOutputStep
<1> QED BY <1>1, <1>3, <1>4, <1>5, <1>6, <1>7 DEF Tick

(***************************************************************************)
(* The handler.                                                             *)
(***************************************************************************)
(* Reception leaves the transmit channel alone *)
LEMMA TransmitterWaits ==
  ASSUME NEW k
  PROVE  TxUnits(Receive(Machine, k)) = TxUnits(Machine)
BY DEF Receive, Transfer, Begin, dma_enet_write_memory, Overflow, Complete, Polls,
       enet_slirp_queue_poll, enet_receive, TxUnits, Machine

LEMMA EnetIoStep ==
  ASSUME Inv, cpu = "run", ~stopped, ~reset,
         NEW k \in 0..(IF size > 0 THEN Written(Begin(Machine)) ELSE 0),
         NEW j \in 0..TxUnits(Machine), NEW to, NEW answer \in Addresses \cup {"none"},
         EnetIo(k, j, to, answer)
  PROVE  Goal
<1>0. MachineInv(Machine) /\ SlirpInv /\ Rest
  BY DEF Inv
<1> DEFINE s == Receive(Machine, k)
           t == Send(s, j, to, answer)
<1>1. MachineInv(s) /\ LinkStep(Machine, s)
  BY <1>0, ReceiveInv, MachineFields
<1>2. TxUnits(s) = TxUnits(Machine)
  BY TransmitterWaits
<1>3. /\ MachineInv(t) /\ t.offered >= s.offered /\ t.received = s.received
      /\ Sends(s, j) => s.size = 0
  BY <1>1, <1>2, SendInv
<1>4. /\ collided' = (collided \/ (Sends(s, j) /\ s.size > 0))
      /\ misuse' = IF Polls(Machine) /\ alive # {"queue", "mutex"}
                   THEN misuse \cup {"cpu"} ELSE misuse
      /\ busy' = t.busy /\ rcv' = t.rcv /\ pkt' = t.pkt /\ size' = t.size
      /\ frame' = t.frame /\ rxd' = t.rxd /\ txsize' = t.txsize /\ txd' = t.txd
      /\ slirpq' = t.slirpq /\ offered' = t.offered /\ received' = t.received
      /\ UNCHANGED <<turbo, connected, twisted, port, rxMode, txOn, reset, stopped, started>>
      /\ UNCHANGED <<alive, tick, cpu, cutShort, buffers, resets>>
  BY DEF EnetIo, config, guest
<1> HIDE DEF s, t
<1>5. Machine' = t
  BY <1>3, <1>4 DEF Machine, MachineInv, Machines
<1>6. s.offered \in Nat /\ t.offered \in Nat /\ offered \in Nat
  BY <1>0, <1>1, <1>3, MachineFields DEF MachineInv, Machines
<1>7. LinkStep(Machine, t)
  BY <1>1, <1>3, <1>6, MachineFields DEF LinkStep
<1>8. Polls(Machine) => connected
  BY DEF Polls, Network, enet_state
<1>9. Polls(Machine) => alive = {"queue", "mutex"}
  BY <1>0, <1>8 DEF SlirpInv
<1>10. misuse' = misuse
  BY <1>4, <1>9
<1>11. collided' = FALSE
  BY <1>0, <1>3, <1>4 DEF Rest
<1>12. SlirpInv'
  BY <1>0, <1>4 DEF SlirpInv
<1>13. Rest'
  BY <1>0, <1>4, <1>10, <1>11 DEF Rest
<1> QED BY <1>3, <1>5, <1>7, <1>12, <1>13 DEF Goal

LEMMA SlirpStopType ==
  ASSUME Rest, SlirpStop
  PROVE  /\ started' = FALSE /\ alive' = alive /\ slirpq' = slirpq /\ tick' = tick
         /\ cpu' \in {"run", "destroyQueue", "destroyMutex", "join"}
BY DEF SlirpStop, Rest

LEMMA SlirpStartType ==
  ASSUME Rest, SlirpInv, SlirpStart, cpu = "run"
  PROVE  /\ started' = TRUE /\ alive' = {"queue", "mutex"} /\ cpu' = "run"
         /\ slirpq' = slirpq \/ slirpq' = <<>>
         /\ tick' \in {"none", "sleep", "lock1", "lock2", "poll", "output", "ended", "hung"}
BY DEF SlirpStart, SlirpInv, Rest, slirp

(* A step of the resets and the dialog: the queue may be new *)
LEMMA QueueMayBeNew ==
  ASSUME Inv, UNCHANGED <<busy, rcv, pkt, size, frame>>,
         UNCHANGED <<rxd, txsize, txd, offered, received>>,
         slirpq' = slirpq \/ slirpq' = <<>>
  PROVE  MachineInv(Machine') /\ LinkStep(Machine, Machine')
<1>0. Machine \in Machines /\ MachineInv(Machine)
  BY DEF Inv, MachineInv
<1>5. slirpq \in Seq(Packets) /\ <<>> \in Seq(Packets)
  BY <1>0, MachineTypes
<1>4. slirpq' \in Seq(Packets)
  BY <1>5
<1>1. Machine' \in Machines
  BY <1>0, <1>4, MachineTypes, NextTypes
<1>2. CASE slirpq' = slirpq
  BY <1>0, <1>1, <1>2, MachineFields, NextFields, SameReception
<1>3. CASE slirpq' = <<>>
  BY <1>0, <1>1, <1>3, MachineFields, NextFields, EmptyQueue
<1> QED BY <1>2, <1>3

LEMMA HandlerStopsStep ==
  ASSUME Inv, reset, HandlerStops
  PROVE  Goal
<1>0. SlirpInv /\ Rest
  BY DEF Inv
<1>1. /\ alive' = alive /\ slirpq' = slirpq /\ tick' = tick
      /\ cpu' \in {"run", "destroyQueue", "destroyMutex", "join"}
      /\ started' = FALSE \/ (started' = started /\ cpu' = cpu)
  BY <1>0, SlirpStopType DEF HandlerStops, slirp, Rest
<1>2. MachineInv(Machine') /\ LinkStep(Machine, Machine')
  BY <1>1, QueueMayBeNew DEF HandlerStops, rxbuf, history
<1>3. SlirpInv'
  BY <1>0, <1>1 DEF SlirpInv, HandlerStops, config, guest
<1>4. started' \in BOOLEAN
  BY <1>0, <1>1 DEF Rest
<1>5. Rest'
  BY <1>0, <1>1, <1>4 DEF Rest, HandlerStops, config, guest, history
<1> QED BY <1>2, <1>3, <1>5 DEF Goal

LEMMA HandlerStep ==
  ASSUME Inv, ENET_IO_Handler
  PROVE  Goal
<1>1. CASE reset /\ HandlerStops
  BY <1>1, HandlerStopsStep
<1>2. CASE ~(reset /\ HandlerStops)
  <2>1. cpu = "run" /\ ~stopped /\ ~reset
    BY <1>2 DEF ENET_IO_Handler
  <2>2. PICK k \in 0..(IF size > 0 THEN Written(Begin(Machine)) ELSE 0),
             j \in 0..TxUnits(Machine) :
               \/ ~Sends(Receive(Machine, k), j) /\ EnetIo(k, j, "none", "none")
               \/ /\ Sends(Receive(Machine, k), j)
                  /\ \E to \in Addresses, answer \in Addresses \cup {"none"} :
                       EnetIo(k, j, to, answer)
    BY <1>2 DEF ENET_IO_Handler
  <2>3. CASE EnetIo(k, j, "none", "none")
    BY <2>1, <2>3, EnetIoStep
  <2>4. CASE \E to \in Addresses, answer \in Addresses \cup {"none"} : EnetIo(k, j, to, answer)
    BY <2>1, <2>4, EnetIoStep
  <2> QED BY <2>2, <2>3, <2>4
<1> QED BY <1>1, <1>2

(***************************************************************************)
(* The guest and the user.                                                  *)
(***************************************************************************)
(* The network is marked free while the buffer is empty *)
LEMMA BusyCleared ==
  ASSUME Inv, size = 0, busy' = FALSE, UNCHANGED <<rcv, pkt, size, frame, slirpq>>,
         UNCHANGED <<rxd, txsize, txd, offered, received>>
  PROVE  MachineInv(Machine') /\ LinkStep(Machine, Machine')
<1>0. Machine \in Machines /\ MachineInv(Machine)
  BY DEF Inv, MachineInv
<1>1. Machine' \in Machines
  BY <1>0, MachineTypes, NextTypes
<1>2. frame = <<>>
  BY <1>0, MachineFields DEF MachineInv, Buffered
<1> QED BY <1>0, <1>1, <1>2, MachineFields, NextFields, EmptyBuffer

LEMMA ResetWriteStep ==
  ASSUME Inv, Careful, NEW bit \in BOOLEAN, EN_Reset_Write(bit)
  PROVE  Goal
<1>0. SlirpInv /\ Rest
  BY DEF Inv
<1>1. CASE bit
  <2>1. size = 0
    BY <1>1 DEF EN_Reset_Write, Between
  <2>2. MachineInv(Machine') /\ LinkStep(Machine, Machine')
    BY <1>1, <2>1, BusyCleared DEF EN_Reset_Write, slirp
  <2>3. SlirpInv'
    BY <1>0, <1>1 DEF SlirpInv, EN_Reset_Write, slirp, config
  <2>5. reset' \in BOOLEAN /\ resets' \in Nat /\ UNCHANGED <<stopped, started, alive, tick, cpu>>
    BY <1>0, <1>1 DEF Rest, EN_Reset_Write, slirp
  <2>4. Rest'
    BY <1>0, <1>1, <2>5 DEF Rest, EN_Reset_Write, config
  <2> QED BY <2>2, <2>3, <2>4 DEF Goal
<1>2. CASE ~bit
  <2>1. stopped /\ cpu = "run" /\ enet_reset /\ reset' = FALSE
    BY <1>2 DEF EN_Reset_Write
  <2>2. CASE connected
    <3>1. /\ started' = TRUE /\ alive' = {"queue", "mutex"} /\ cpu' = "run"
          /\ slirpq' = slirpq \/ slirpq' = <<>>
          /\ tick' \in {"none", "sleep", "lock1", "lock2", "poll", "output", "ended", "hung"}
      BY <1>0, <2>1, <2>2, SlirpStartType DEF enet_reset
    <3>2. MachineInv(Machine') /\ LinkStep(Machine, Machine')
      BY <1>2, <3>1, QueueMayBeNew DEF EN_Reset_Write
    <3>3. SlirpInv'
      BY <3>1 DEF SlirpInv
    <3>5. stopped' = FALSE
      BY <2>1 DEF enet_reset
    <3>6. started' \in BOOLEAN /\ alive' \subseteq {"queue", "mutex"}
      BY <3>1
    <3>4. Rest'
      BY <1>0, <1>2, <2>1, <3>1, <3>5, <3>6 DEF Rest, EN_Reset_Write, config
    <3> QED BY <3>2, <3>3, <3>4 DEF Goal
  <2>3. CASE ~connected
    <3>1. UNCHANGED <<started, alive, slirpq, tick, cpu>> /\ stopped' = FALSE
      BY <2>1, <2>3 DEF enet_reset, slirp
    <3>2. MachineInv(Machine') /\ LinkStep(Machine, Machine')
      BY <1>2, <3>1, QueueMayBeNew DEF EN_Reset_Write
    <3>3. SlirpInv'
      BY <1>0, <2>3, <3>1 DEF SlirpInv, EN_Reset_Write, config
    <3>4. Rest'
      BY <1>0, <1>2, <2>1, <3>1 DEF Rest, EN_Reset_Write, config
    <3> QED BY <3>2, <3>3, <3>4 DEF Goal
  <2> QED BY <2>2, <2>3
<1> QED BY <1>1, <1>2

LEMMA StatusWriteStep ==
  ASSUME Inv, Careful, EN_TX_Status_Write
  PROVE  Goal
<1>0. SlirpInv /\ Rest
  BY DEF Inv
<1>1. MachineInv(Machine') /\ LinkStep(Machine, Machine')
  BY BusyCleared DEF EN_TX_Status_Write, Between, slirp, history
<1>2. SlirpInv'
  BY <1>0 DEF SlirpInv, EN_TX_Status_Write, slirp, config, guest
<1>3. Rest'
  BY <1>0 DEF Rest, EN_TX_Status_Write, slirp, config, guest, history
<1> QED BY <1>1, <1>2, <1>3 DEF Goal

LEMMA ModeWriteStep ==
  ASSUME Inv, NEW p \in Ports, NEW m \in RxModes, NEW on \in BOOLEAN, EN_Mode_Write(p, m, on)
  PROVE  Goal
<1>0. SlirpInv /\ Rest
  BY DEF Inv
<1>1. MachineInv(Machine') /\ LinkStep(Machine, Machine')
  BY QueueMayBeNew DEF EN_Mode_Write, rxbuf, slirp, history
<1>2. SlirpInv'
  BY <1>0 DEF SlirpInv, EN_Mode_Write, slirp, config
<1>3. Rest'
  BY <1>0, ModeTypes DEF Rest, EN_Mode_Write, slirp, config, history
<1> QED BY <1>1, <1>2, <1>3 DEF Goal

LEMMA RxStep ==
  ASSUME Inv, NEW d \in Seq(Nat), Rx(d)
  PROVE  Goal
<1>0. Machine \in Machines /\ MachineInv(Machine) /\ SlirpInv /\ Rest
  BY DEF Inv, MachineInv
<1>1. Machine' \in Machines
  BY <1>0, MachineTypes, NextTypes DEF Rx, rxbuf, slirp, history
<1>2. MachineInv(Machine') /\ LinkStep(Machine, Machine')
  BY <1>0, <1>1, MachineFields, NextFields, SameReception DEF Rx, rxbuf, slirp, history
<1>3. SlirpInv'
  BY <1>0 DEF SlirpInv, Rx, slirp, config, guest
<1>4. Rest'
  BY <1>0 DEF Rest, Rx, slirp, config, guest, history
<1> QED BY <1>2, <1>3, <1>4 DEF Goal

LEMMA TxBufferStep ==
  ASSUME Inv, NEW b \in TxBuffers, TxBuffer(b)
  PROVE  Goal
<1>0. Machine \in Machines /\ MachineInv(Machine) /\ SlirpInv /\ Rest
  BY DEF Inv, MachineInv
<1>1. txd' \in Seq(Buffers)
  BY <1>0, Constants, MachineTypes DEF TxBuffer
<1>2. Machine' \in Machines
  BY <1>0, <1>1, MachineTypes, NextTypes DEF TxBuffer, rxbuf, slirp
<1>3. MachineInv(Machine') /\ LinkStep(Machine, Machine')
  BY <1>0, <1>2, MachineFields, NextFields, SameReception DEF TxBuffer, rxbuf, slirp
<1>4. SlirpInv'
  BY <1>0 DEF SlirpInv, TxBuffer, slirp, config, guest
<1>5. Rest'
  BY <1>0 DEF Rest, TxBuffer, slirp, config, guest
<1> QED BY <1>3, <1>4, <1>5 DEF Goal

LEMMA GuestStep ==
  ASSUME Inv, Careful, GuestActs
  PROVE  Goal
<1>0. rxd \in Seq(Nat)
  BY MachineTypes DEF Inv, MachineInv
<1>1. CASE \E bit \in BOOLEAN : EN_Reset_Write(bit)
  BY <1>1, ResetWriteStep
<1>2. CASE EN_TX_Status_Write
  BY <1>2, StatusWriteStep
<1>3. CASE \E p \in Ports, m \in RxModes, on \in BOOLEAN : EN_Mode_Write(p, m, on)
  BY <1>3, ModeWriteStep
<1>4. CASE \E r \in Rooms : RxBuffer(r)
  <2>1. PICK r \in Rooms : RxBuffer(r)
    BY <1>4
  <2>2. Append(rxd, r) \in Seq(Nat)
    BY <1>0, ModeTypes
  <2> QED BY <2>1, <2>2, RxStep DEF RxBuffer
<1>5. CASE RxReset
  <2>1. <<>> \in Seq(Nat)
    OBVIOUS
  <2> QED BY <1>5, <2>1, RxStep DEF RxReset
<1>6. CASE \E b \in TxBuffers : TxBuffer(b)
  BY <1>6, TxBufferStep
<1> QED BY <1>1, <1>2, <1>3, <1>4, <1>5, <1>6 DEF GuestActs

LEMMA HardResetStep ==
  ASSUME Inv, NEW plugged \in BOOLEAN, HardReset(plugged)
  PROVE  Goal
<1>0. Machine \in Machines /\ MachineInv(Machine) /\ SlirpInv /\ Rest
  BY DEF Inv, MachineInv
<1>1. /\ started' = FALSE /\ alive' = alive /\ slirpq' = slirpq /\ tick' = tick
      /\ cpu' \in {"run", "destroyQueue", "destroyMutex", "join"}
  BY <1>0, SlirpStopType DEF HardReset
<1>2. <<>> \in Seq(Int) /\ 0 \in Nat /\ 0 \in Int
  OBVIOUS
<1>3. Machine' \in Machines
  BY <1>0, <1>1, <1>2, MachineTypes, NextTypes DEF HardReset
<1>4. MachineInv(Machine') /\ LinkStep(Machine, Machine')
  BY <1>0, <1>1, <1>3, MachineFields, NextFields, EmptyBuffer DEF HardReset
<1>5. SlirpInv'
  BY <1>1 DEF SlirpInv, HardReset
<1>6. cutShort' \in BOOLEAN
  BY DEF HardReset
<1>8. connected' \in BOOLEAN /\ reset' = TRUE /\ stopped' = TRUE /\ resets' \in Nat
  BY <1>0 DEF Rest, HardReset
<1>7. Rest'
  BY <1>0, <1>1, <1>6, <1>8 DEF Rest, HardReset
<1> QED BY <1>4, <1>5, <1>7 DEF Goal

LEMMA ChangeConnectionStep ==
  ASSUME Inv, ChangeConnection
  PROVE  Goal
<1>0. SlirpInv /\ Rest
  BY DEF Inv
<1>1. CASE connected' /\ ~reset
  <2>1. /\ started' = TRUE /\ alive' = {"queue", "mutex"} /\ cpu' = "run"
        /\ slirpq' = slirpq \/ slirpq' = <<>>
        /\ tick' \in {"none", "sleep", "lock1", "lock2", "poll", "output", "ended", "hung"}
    BY <1>0, <1>1, SlirpStartType DEF ChangeConnection
  <2>2. MachineInv(Machine') /\ LinkStep(Machine, Machine')
    BY <2>1, QueueMayBeNew DEF ChangeConnection, rxbuf
  <2>3. SlirpInv'
    BY <2>1 DEF SlirpInv
  <2>5. started' \in BOOLEAN /\ alive' \subseteq {"queue", "mutex"}
    BY <2>1
  <2>6. connected' \in BOOLEAN /\ resets' \in Nat
    BY <1>0 DEF Rest, ChangeConnection
  <2>4. Rest'
    BY <1>0, <2>1, <2>5, <2>6 DEF Rest, ChangeConnection, guest
  <2> QED BY <2>2, <2>3, <2>4 DEF Goal
<1>2. CASE ~(connected' /\ ~reset)
  <2>1. /\ started' = FALSE /\ alive' = alive /\ slirpq' = slirpq /\ tick' = tick
        /\ cpu' \in {"run", "destroyQueue", "destroyMutex", "join"}
    BY <1>0, <1>2, SlirpStopType DEF ChangeConnection
  <2>2. MachineInv(Machine') /\ LinkStep(Machine, Machine')
    BY <2>1, QueueMayBeNew DEF ChangeConnection, rxbuf
  <2>3. SlirpInv'
    BY <1>2, <2>1 DEF SlirpInv, ChangeConnection, guest
  <2>6. connected' \in BOOLEAN /\ resets' \in Nat
    BY <1>0 DEF Rest, ChangeConnection
  <2>4. Rest'
    BY <1>0, <2>1, <2>6 DEF Rest, ChangeConnection, guest
  <2> QED BY <2>2, <2>3, <2>4 DEF Goal
<1> QED BY <1>1, <1>2

LEMMA ChangeCableStep ==
  ASSUME Inv, ChangeCable
  PROVE  Goal
<1>0. SlirpInv /\ Rest
  BY DEF Inv
<1>1. MachineInv(Machine') /\ LinkStep(Machine, Machine')
  BY QueueMayBeNew DEF ChangeCable, rxbuf, slirp
<1>2. SlirpInv'
  BY <1>0 DEF SlirpInv, ChangeCable, slirp, guest
<1>3. Rest'
  BY <1>0 DEF Rest, ChangeCable, slirp, guest
<1> QED BY <1>1, <1>2, <1>3 DEF Goal

LEMMA StutterStep ==
  ASSUME Inv, UNCHANGED vars
  PROVE  Goal
<1>0. SlirpInv /\ Rest
  BY DEF Inv
<1>1. MachineInv(Machine') /\ LinkStep(Machine, Machine')
  BY QueueMayBeNew DEF vars, rxbuf, slirp, history
<1>2. SlirpInv'
  BY <1>0 DEF SlirpInv, vars, slirp, config, guest
<1>3. Rest'
  BY <1>0 DEF Rest, vars, slirp, config, guest, history
<1> QED BY <1>1, <1>2, <1>3 DEF Goal

LEMMA EveryStep ==
  ASSUME Careful, Inv, [Next]_vars
  PROVE  Goal
<1>1. CASE User
  BY <1>1, HardResetStep, ChangeConnectionStep, ChangeCableStep DEF User
<1> QED
  BY <1>1, TickStep, StoppingStep, HandlerStep, GuestStep, StutterStep DEF Next

(***************************************************************************)
(* Any guest: types and the stop need nothing of what a careful guest does. *)
(***************************************************************************)
Typed(s) == s \in Machines /\ Len(s.slirpq) <= QueueMax

LEMMA enet_receiveTyped ==
  ASSUME NEW s, Typed(s), NEW id \in Int, NEW to
  PROVE  Typed(enet_receive(s, id, to))
<1> DEFINE t == [s EXCEPT !.pkt = id, !.size = PacketLen, !.busy = TRUE]
<1>1. t \in Machines /\ t.slirpq = s.slirpq
  BY Constants DEF Typed, Machines
<1> QED BY <1>1 DEF Typed, enet_receive

LEMMA PollTyped ==
  ASSUME NEW s, Typed(s)
  PROVE  Typed(enet_slirp_queue_poll(s))
<1> DEFINE q == s.slirpq
           t == [s EXCEPT !.slirpq = Tail(s.slirpq)]
<1>1. s \in Machines /\ q \in Seq(Packets) /\ Len(q) <= QueueMax
  BY DEF Typed, Machines
<1>2. CASE q = <<>>
  BY <1>2 DEF enet_slirp_queue_poll
<1>3. CASE q # <<>>
  <2>1. /\ Tail(q) \in Seq(Packets) /\ Len(Tail(q)) <= QueueMax
        /\ Head(q) \in Packets
    BY <1>1, <1>3, Constants
  <2>2. t \in Machines /\ t.slirpq = Tail(q)
    BY <1>1, <2>1 DEF Machines
  <2>3. Head(q).id \in Int
    BY <2>1, PacketType
  <2>4. enet_slirp_queue_poll(s) = enet_receive(t, Head(q).id, Head(q).to)
    BY <1>3 DEF enet_slirp_queue_poll
  <2> HIDE DEF t, q
  <2> QED BY <2>1, <2>2, <2>3, <2>4, enet_receiveTyped DEF Typed
<1> QED BY <1>2, <1>3

LEMMA BeginTyped ==
  ASSUME NEW s \in Machines, Len(s.slirpq) <= QueueMax
  PROVE  Typed(Begin(s))
<1> DEFINE t == [s EXCEPT !.rcv = "RECEIVING", !.size = s.size + Crc]
<1>1. s.size + Crc \in Nat
  BY Constants DEF Machines
<1>2. t \in Machines
  BY <1>1, MachineBegins
<1>3. t.slirpq = s.slirpq
  BY DEF Machines
<1> QED BY <1>2, <1>3 DEF Typed, Begin

LEMMA OverflowTyped ==
  ASSUME NEW s \in Machines, Len(s.slirpq) <= QueueMax
  PROVE  Typed(Overflow(s))
<1>1. Overflow(s) \in Machines
  BY MachineDrops DEF Overflow
<1>2. Overflow(s).slirpq = s.slirpq
  BY DEF Machines, Overflow
<1> QED BY <1>1, <1>2 DEF Typed

LEMMA CompleteTyped ==
  ASSUME NEW s \in Machines, Len(s.slirpq) <= QueueMax
  PROVE  Typed(Complete(s))
<1>1. s.frame \in Seq(Int) /\ s.received \in Seq(Int)
  BY DEF Machines
<1>2. PacketIn(s.frame) \in Int
  <2>1. CASE Whole(s.frame)
    <3>1. 1 \in 1..Len(s.frame)
      BY <1>1, <2>1, Constants DEF Whole
    <3> QED BY <1>1, <2>1, <3>1 DEF PacketIn
  <2>2. CASE ~Whole(s.frame)
    BY <2>2 DEF PacketIn
  <2> QED BY <2>1, <2>2
<1> DEFINE p == PacketIn(s.frame)
           r == IF p = Own THEN s.received ELSE Append(s.received, p)
           t == [s EXCEPT !.busy = FALSE, !.rcv = "WAITING", !.frame = <<>>, !.pkt = 0,
                          !.received = r]
<1>3. r \in Seq(Int)
  BY <1>1, <1>2
<1>4. Complete(s) = t
  BY DEF Complete
<1> HIDE DEF p, r
<1>5. t \in Machines
  BY <1>3, MachineWaits
<1>6. t.slirpq = s.slirpq
  BY DEF Machines
<1> QED BY <1>4, <1>5, <1>6 DEF Typed

LEMMA TransferTyped ==
  ASSUME NEW s, Typed(s), NEW k \in 0..Written(s)
  PROVE  Typed(Transfer(s, k))
<1>1. /\ s \in Machines /\ s.size \in Nat /\ s.pkt \in Int /\ s.frame \in Seq(Int)
      /\ s.rxd \in Seq(Nat)
  BY DEF Typed, Machines
<1> DEFINE w == dma_enet_write_memory(s, k)
<1>2. Typed(w)
  <2>1. CASE s.rxd = <<>>
    BY <2>1 DEF dma_enet_write_memory
  <2>2. CASE s.rxd # <<>>
    <3> DEFINE d == dma_enet_interrupt(s.rxd, k < Written(s))
               g == [i \in 1..k |-> s.pkt]
               f == s.frame \o g
    <3>1. k \in Nat /\ k <= s.size /\ s.size - k \in Nat
      BY <1>1, <2>2 DEF Written, Smaller
    <3>2. d \in Seq(Nat)
      BY <1>1, <2>2 DEF dma_enet_interrupt
    <3>3. g \in Seq(Int)
      BY <1>1, <3>1
    <3> HIDE DEF g
    <3>4. f \in Seq(Int)
      BY <1>1, <3>3
    <3>5. w = [s EXCEPT !.size = s.size - k, !.frame = f, !.rxd = d]
      BY <2>2 DEF dma_enet_write_memory, g
    <3> HIDE DEF d, f, w
    <3> QED BY <1>1, <3>1, <3>2, <3>4, <3>5 DEF Typed, Machines
  <2> QED BY <2>1, <2>2
<1>3. Transfer(s, k) = IF w.size = s.size THEN Overflow(w)
                       ELSE IF w.size > 0 THEN w ELSE Complete(w)
  BY DEF Transfer
<1> HIDE DEF w
<1> QED BY <1>2, <1>3, OverflowTyped, CompleteTyped DEF Typed

LEMMA ReceiveTyped ==
  ASSUME NEW s, Typed(s),
         NEW k \in 0..(IF s.size > 0 THEN Written(Begin(s)) ELSE 0)
  PROVE  Typed(Receive(s, k))
<1>1. CASE s.size > 0
  <2>1. Typed(Begin(s))
    BY BeginTyped DEF Typed
  <2> QED BY <1>1, <2>1, TransferTyped DEF Receive
<1>2. CASE ~(s.size > 0)
  BY <1>2, PollTyped DEF Receive
<1> QED BY <1>1, <1>2

LEMMA TransmitTyped ==
  ASSUME NEW s, Typed(s), NEW n \in Nat, NEW d \in Seq(Buffers)
  PROVE  Typed(WithTx(s, n, d)) /\ WithTx(s, n, d).slirpq = s.slirpq
         /\ WithTx(s, n, d).offered = s.offered
BY DEF Typed, Machines, WithTx

LEMMA TxReadTyped ==
  ASSUME NEW s, Typed(s), NEW j \in 0..TxUnits(s)
  PROVE  Typed(TxRead(s, j))
<1>1. s.txsize \in Nat /\ s.txd \in Seq(Buffers)
  BY DEF Typed, Machines
<1>2. CASE s.txd = <<>>
  BY <1>2 DEF TxRead
<1>3. CASE s.txd # <<>>
  <2> DEFINE d == dma_enet_interrupt(s.txd, j < TxUnits(s))
             n == s.txsize + j
  <2>1. d \in Seq(Buffers) /\ Head(s.txd) \in Buffers
    BY <1>1, <1>3 DEF dma_enet_interrupt
  <2>2. n \in Nat
    BY <1>1, <1>3, <2>1 DEF TxUnits, Buffers
  <2>3. TxRead(s, j) = WithTx(s, n, d)
    BY <1>3 DEF TxRead, WithTx
  <2> HIDE DEF n, d
  <2> QED BY <2>1, <2>2, <2>3, TransmitTyped
<1> QED BY <1>2, <1>3

LEMMA AnswerTyped ==
  ASSUME NEW s, Typed(s), NEW to \in Everyone
  PROVE  Typed(Answered(s, to))
<1> DEFINE m == s.offered + 1
           q == QueueEnter(s.slirpq, [id |-> m, to |-> to])
<1>1. s \in Machines /\ s.slirpq \in Seq(Packets) /\ Len(s.slirpq) <= QueueMax
  BY DEF Typed, Machines
<1>2. m \in Nat \ {0}
  BY <1>1 DEF Machines
<1>3. [id |-> m, to |-> to] \in Packets
  BY <1>2 DEF Packets
<1>4. q \in Seq(Packets) /\ Len(q) <= QueueMax
  BY <1>1, <1>3, QueueEnterType
<1>5. Answered(s, to) = [s EXCEPT !.offered = m, !.slirpq = q]
  BY DEF Answered
<1> HIDE DEF m, q
<1> QED BY <1>1, <1>2, <1>4, <1>5 DEF Typed, Machines

LEMMA TransmittedTyped ==
  ASSUME NEW s, Typed(s), NEW to, NEW answer \in Addresses \cup {"none"}
  PROVE  Typed(Transmitted(s, to, answer))
<1> DEFINE out == [s EXCEPT !.txsize = 0]
           net == IF answer = "none" \/ ~Network \/ ~started THEN out
                  ELSE [out EXCEPT !.offered = s.offered + 1,
                                   !.slirpq = QueueEnter(s.slirpq,
                                                [id |-> s.offered + 1, to |-> answer])]
<1>1. Typed(out) /\ out.offered = s.offered /\ out.slirpq = s.slirpq
  <2>1. s.txd \in Seq(Buffers) /\ out = WithTx(s, 0, s.txd)
    BY DEF Typed, Machines, WithTx
  <2> HIDE DEF out
  <2> QED BY <2>1, TransmitTyped
<1> HIDE DEF out
<1>2. Typed(net)
  <2>1. CASE answer = "none" \/ ~Network \/ ~started
    BY <1>1, <2>1
  <2>2. CASE ~(answer = "none" \/ ~Network \/ ~started)
    <3>1. answer \in Everyone
      BY <2>2, EnetAssumption
    <3>2. net = Answered(out, answer)
      BY <1>1, <2>2 DEF Answered
    <3> HIDE DEF net
    <3> QED BY <1>1, <3>1, <3>2, AnswerTyped
  <2> QED BY <2>1, <2>2
<1>3. Transmitted(s, to, answer) =
        IF enet_state = "TWISTEDPAIR" THEN net ELSE enet_receive(net, Own, to)
  BY DEF Transmitted, out
<1> HIDE DEF net
<1> QED BY <1>2, <1>3, Constants, enet_receiveTyped

LEMMA SendTyped ==
  ASSUME NEW s, Typed(s), NEW j \in 0..TxUnits(s), NEW to,
         NEW answer \in Addresses \cup {"none"}
  PROVE  Typed(Send(s, j, to, answer))
<1> DEFINE r == TxRead(s, j)
           n == IF turbo THEN 0 ELSE TxLength(s, j)
<1>1. Typed(r)
  BY TxReadTyped
<1>2. r.txsize \in Nat /\ r.txd \in Seq(Buffers)
  BY <1>1 DEF Typed, Machines
<1>3. n \in Nat
  BY <1>2, Constants DEF TxLength
<1>4. Send(s, j, to, answer) = IF ~MaySend(s) THEN s
                               ELSE IF TxSends(s, j) THEN Transmitted(r, to, answer)
                               ELSE [r EXCEPT !.txsize = n]
  BY DEF Send
<1> HIDE DEF r, n
<1>5. [r EXCEPT !.txsize = n] = WithTx(r, n, r.txd)
  BY <1>1 DEF Typed, Machines, WithTx
<1>6. Typed(WithTx(r, n, r.txd))
  BY <1>1, <1>2, <1>3, TransmitTyped
<1> QED BY <1>1, <1>4, <1>5, <1>6, TransmittedTyped

(* SLiRP runs only outside of enet_slirp_stop *)
StopInv == started => cpu = "run"

TypeInv == TypeOK /\ StopInv

LEMMA TypedMachine == TypeOK => Typed(Machine)
BY MachineTypes, MachineFields DEF TypeOK, Typed, Rcv, Buffers

LEMMA StoppingTyped ==
  ASSUME TypeInv, Stopping
  PROVE  TypeInv'
<1>0. <<>> \in Seq(Packets) /\ Len(<<>>) <= QueueMax
  BY Constants
<1>1. CASE DestroyQueue
  BY <1>0, <1>1 DEF TypeInv, TypeOK, StopInv, DestroyQueue, config, guest, rxbuf, history
<1>2. CASE DestroyMutex
  BY <1>2 DEF TypeInv, TypeOK, StopInv, DestroyMutex, config, guest, rxbuf, history
<1>3. CASE Join
  BY <1>3 DEF TypeInv, TypeOK, StopInv, Join, config, guest, rxbuf, history
<1> QED BY <1>1, <1>2, <1>3 DEF Stopping

LEMMA TickGoesTyped ==
  ASSUME TypeInv, NEW p \in {"sleep", "lock1", "lock2", "poll", "output", "ended", "hung"},
         TickGoes(p), UNCHANGED slirpq, misuse' = misuse \/ misuse' = misuse \cup {"tick"}
  PROVE  TypeInv'
<1>1. misuse' \subseteq {"cpu", "tick"}
  BY DEF TypeInv, TypeOK
<1> QED BY <1>1 DEF TypeInv, TypeOK, StopInv, TickGoes, config, guest, rxbuf

LEMMA TickOutputTyped ==
  ASSUME TypeInv, NEW to \in Addresses, TickOutput(to)
  PROVE  TypeInv'
<1> DEFINE p == [id |-> offered + 1, to |-> to]
<1>1. /\ offered \in Nat /\ offered' \in Nat
      /\ slirpq \in Seq(Packets) /\ Len(slirpq) <= QueueMax
  BY DEF TypeInv, TypeOK, TickOutput
<1>2. p \in Packets
  BY <1>1, ModeTypes DEF Packets
<1>3. slirpq' = IF "queue" \in alive THEN QueueEnter(slirpq, p) ELSE slirpq
  BY DEF TickOutput
<1> HIDE DEF p
<1>4. slirpq' \in Seq(Packets) /\ Len(slirpq') <= QueueMax
  BY <1>1, <1>2, <1>3, QueueEnterType
<1>5. misuse' \subseteq {"cpu", "tick"}
  BY DEF TypeInv, TypeOK, TickOutput
<1> QED BY <1>1, <1>4, <1>5 DEF TypeInv, TypeOK, StopInv, TickOutput, config, guest, rxbuf

LEMMA TickTyped ==
  ASSUME TypeInv, Tick
  PROVE  TypeInv'
<1>1. CASE TickWake
  BY <1>1, TickGoesTyped DEF TickWake
<1>2. ASSUME NEW from, NEW to \in {"sleep", "lock2", "poll"}, TickLock(from, to)
      PROVE  TypeInv'
  BY <1>2, TickGoesTyped DEF TickLock
<1>3. CASE TickFill
  BY <1>2, <1>3 DEF TickFill
<1>4. CASE TickLock("lock2", "poll")
  BY <1>2, <1>4
<1>5. CASE TickCanOutput
  BY <1>5, TickGoesTyped DEF TickCanOutput
<1>6. CASE TickPolled
  BY <1>6, TickGoesTyped DEF TickPolled
<1>7. CASE \E to \in Addresses : TickOutput(to)
  BY <1>7, TickOutputTyped
<1> QED BY <1>1, <1>3, <1>4, <1>5, <1>6, <1>7 DEF Tick

LEMMA EnetIoTyped ==
  ASSUME TypeInv, NEW k \in 0..(IF size > 0 THEN Written(Begin(Machine)) ELSE 0),
         NEW j \in 0..TxUnits(Machine), NEW to, NEW answer \in Addresses \cup {"none"},
         EnetIo(k, j, to, answer)
  PROVE  TypeInv'
<1> DEFINE s == Receive(Machine, k)
           t == Send(s, j, to, answer)
<1>1. Typed(s)
  BY TypedMachine, ReceiveTyped, MachineFields DEF TypeInv
<1>2. TxUnits(s) = TxUnits(Machine)
  BY TransmitterWaits
<1>3. Typed(t)
  BY <1>1, <1>2, SendTyped
<1>4. /\ collided' = (collided \/ (Sends(s, j) /\ s.size > 0))
      /\ misuse' = IF Polls(Machine) /\ alive # {"queue", "mutex"}
                   THEN misuse \cup {"cpu"} ELSE misuse
      /\ busy' = t.busy /\ rcv' = t.rcv /\ pkt' = t.pkt /\ size' = t.size
      /\ frame' = t.frame /\ rxd' = t.rxd /\ txsize' = t.txsize /\ txd' = t.txd
      /\ slirpq' = t.slirpq /\ offered' = t.offered /\ received' = t.received
      /\ UNCHANGED <<turbo, connected, twisted, port, rxMode, txOn, reset, stopped, started>>
      /\ UNCHANGED <<alive, tick, cpu, cutShort, buffers, resets>>
  BY DEF EnetIo, config, guest
<1> HIDE DEF s, t
<1>5. /\ busy' \in BOOLEAN /\ rcv' \in {"WAITING", "RECEIVING"} /\ pkt' \in Int
      /\ size' \in Nat /\ frame' \in Seq(Int) /\ rxd' \in Seq(Nat) /\ txsize' \in Nat
      /\ txd' \in Seq([n : Nat, eop : BOOLEAN]) /\ slirpq' \in Seq(Packets)
      /\ Len(slirpq') <= QueueMax /\ offered' \in Nat /\ received' \in Seq(Int)
  BY <1>3, <1>4 DEF Typed, Machines, Rcv, Buffers
<1>6. collided' \in BOOLEAN
  BY <1>4
<1>7. misuse' \subseteq {"cpu", "tick"}
  BY <1>4 DEF TypeInv, TypeOK
<1> QED BY <1>4, <1>5, <1>6, <1>7 DEF TypeInv, TypeOK, StopInv

(* A step that leaves the machine as it is, but for a new queue *)
MachineStays ==
  /\ UNCHANGED <<rcv, pkt, size, frame, rxd, txsize, txd, offered, received>>
  /\ busy' \in BOOLEAN /\ (slirpq' = slirpq \/ slirpq' = <<>>)

(* The places of both threads after a start, a stop or neither *)
LEMMA SlirpTyped ==
  ASSUME TypeInv, cpu = "run", SlirpStart \/ SlirpStop \/ UNCHANGED slirp
  PROVE  /\ started' \in BOOLEAN /\ alive' \subseteq {"queue", "mutex"}
         /\ slirpq' = slirpq \/ slirpq' = <<>>
         /\ tick' \in {"none", "sleep", "lock1", "lock2", "poll", "output", "ended", "hung"}
         /\ cpu' \in {"run", "destroyQueue", "destroyMutex", "join"}
         /\ StopInv'
<1>1. CASE SlirpStart
  BY <1>1 DEF SlirpStart, TypeInv, TypeOK, StopInv, slirp
<1>2. CASE SlirpStop
  BY <1>2 DEF SlirpStop, TypeInv, TypeOK, StopInv
<1>3. CASE UNCHANGED slirp
  BY <1>3 DEF TypeInv, TypeOK, StopInv, slirp
<1> QED BY <1>1, <1>2, <1>3

LEMMA StaysTyped ==
  ASSUME TypeInv, MachineStays, cpu = "run", SlirpStart \/ SlirpStop \/ UNCHANGED slirp,
         turbo' \in BOOLEAN, connected' \in BOOLEAN, twisted' \in BOOLEAN,
         UNCHANGED <<port, rxMode, txOn>>, reset' \in BOOLEAN, stopped' \in BOOLEAN,
         UNCHANGED <<collided, cutShort, misuse, buffers>>, resets' \in Nat
  PROVE  TypeInv'
<1>1. <<>> \in Seq(Packets) /\ Len(<<>>) <= QueueMax
  BY Constants
<1>2. slirpq' \in Seq(Packets) /\ Len(slirpq') <= QueueMax
  BY <1>1 DEF MachineStays, TypeInv, TypeOK
<1> QED BY <1>2, SlirpTyped DEF MachineStays, TypeInv, TypeOK

LEMMA HandlerTyped ==
  ASSUME TypeInv, ENET_IO_Handler
  PROVE  TypeInv'
<1>0. cpu = "run"
  BY DEF ENET_IO_Handler
<1>1. CASE reset /\ HandlerStops
  <2>1. SlirpStop \/ UNCHANGED slirp
    BY <1>1 DEF HandlerStops
  <2>2. stopped' = TRUE
    BY <1>1 DEF HandlerStops
  <2>3. MachineStays
    BY <1>0, <1>1, <2>1, SlirpTyped DEF HandlerStops, MachineStays, rxbuf, history, TypeInv, TypeOK
  <2>4. UNCHANGED <<config, guest, collided, cutShort, misuse, buffers, resets>>
    BY <1>1 DEF HandlerStops, history
  <2> QED BY <1>0, <2>1, <2>2, <2>3, <2>4, StaysTyped DEF config, guest, TypeInv, TypeOK
<1>2. CASE ~(reset /\ HandlerStops)
  <2>1. PICK k \in 0..(IF size > 0 THEN Written(Begin(Machine)) ELSE 0),
             j \in 0..TxUnits(Machine) :
               \/ ~Sends(Receive(Machine, k), j) /\ EnetIo(k, j, "none", "none")
               \/ /\ Sends(Receive(Machine, k), j)
                  /\ \E to \in Addresses, answer \in Addresses \cup {"none"} :
                       EnetIo(k, j, to, answer)
    BY <1>2 DEF ENET_IO_Handler
  <2> QED BY <2>1, EnetIoTyped
<1> QED BY <1>1, <1>2

LEMMA ResetWriteTyped ==
  ASSUME TypeInv, NEW bit \in BOOLEAN, EN_Reset_Write(bit)
  PROVE  TypeInv'
<1>0. cpu = "run" /\ reset' \in BOOLEAN
  BY DEF EN_Reset_Write
<1>1. SlirpStart \/ SlirpStop \/ UNCHANGED slirp
  BY DEF EN_Reset_Write, enet_reset
<1>2. stopped' \in BOOLEAN /\ resets' \in Nat /\ busy' \in BOOLEAN
  <2>1. stopped \in BOOLEAN /\ resets \in Nat /\ busy \in BOOLEAN
    BY DEF TypeInv, TypeOK
  <2>2. CASE bit
    <3>1. stopped' = stopped /\ resets' = resets + 1 /\ busy' = FALSE
      BY <2>2 DEF EN_Reset_Write
    <3>2. resets' \in Nat
      BY <2>1, <3>1
    <3>3. stopped' \in BOOLEAN /\ busy' \in BOOLEAN
      BY <2>1, <3>1, Zenon
    <3> QED BY <3>2, <3>3
  <2>3. CASE ~bit
    BY <2>1, <2>3 DEF EN_Reset_Write, enet_reset
  <2> QED BY <2>2, <2>3
<1>3. MachineStays
  BY <1>0, <1>1, <1>2, SlirpTyped DEF EN_Reset_Write, MachineStays
<1>4. UNCHANGED <<config, port, rxMode, txOn, collided, cutShort, misuse, buffers>>
  BY DEF EN_Reset_Write
<1> QED BY <1>0, <1>1, <1>2, <1>3, <1>4, StaysTyped DEF config, TypeInv, TypeOK

LEMMA StatusWriteTyped ==
  ASSUME TypeInv, EN_TX_Status_Write
  PROVE  TypeInv'
<1>1. busy' \in BOOLEAN /\ UNCHANGED <<rcv, pkt, size, frame>>
  BY DEF EN_TX_Status_Write
<1>2. /\ UNCHANGED <<config, guest, stopped, rxd, txsize, txd, slirp>>
      /\ UNCHANGED history
  BY DEF EN_TX_Status_Write
<1> QED BY <1>1, <1>2 DEF TypeInv, TypeOK, StopInv, config, guest, slirp, history

LEMMA ModeWriteTyped ==
  ASSUME TypeInv, NEW p \in Ports, NEW m \in RxModes, NEW on \in BOOLEAN,
         EN_Mode_Write(p, m, on)
  PROVE  TypeInv'
BY ModeTypes DEF TypeInv, TypeOK, StopInv, EN_Mode_Write, config, rxbuf, slirp, history

LEMMA RxTyped ==
  ASSUME TypeInv, NEW d \in Seq(Nat), Rx(d)
  PROVE  TypeInv'
BY DEF TypeInv, TypeOK, StopInv, Rx, config, guest, rxbuf, slirp, history

LEMMA TxBufferTyped ==
  ASSUME TypeInv, NEW b \in TxBuffers, TxBuffer(b)
  PROVE  TypeInv'
<1>1. txd' \in Seq([n : Nat, eop : BOOLEAN]) /\ buffers' \in Nat
  BY Constants DEF TypeInv, TypeOK, TxBuffer, Buffers
<1> QED BY <1>1 DEF TypeInv, TypeOK, StopInv, TxBuffer, config, guest, rxbuf, slirp

LEMMA GuestTyped ==
  ASSUME TypeInv, GuestActs
  PROVE  TypeInv'
<1>0. rxd \in Seq(Nat)
  BY DEF TypeInv, TypeOK
<1>1. CASE \E r \in Rooms : RxBuffer(r)
  <2>1. PICK r \in Rooms : RxBuffer(r)
    BY <1>1
  <2>2. Append(rxd, r) \in Seq(Nat)
    BY <1>0, ModeTypes
  <2> QED BY <2>1, <2>2, RxTyped DEF RxBuffer
<1>2. CASE RxReset
  <2>1. <<>> \in Seq(Nat)
    OBVIOUS
  <2> QED BY <1>2, <2>1, RxTyped DEF RxReset
<1> QED
  BY <1>1, <1>2, ResetWriteTyped, StatusWriteTyped, ModeWriteTyped, TxBufferTyped DEF GuestActs

LEMMA HardResetTyped ==
  ASSUME TypeInv, NEW plugged \in BOOLEAN, HardReset(plugged)
  PROVE  TypeInv'
<1>1. cpu = "run" /\ SlirpStop /\ slirpq' = slirpq
  BY DEF HardReset, SlirpStop
<1>2. busy' \in BOOLEAN /\ connected' \in BOOLEAN /\ reset' \in BOOLEAN /\ stopped' \in BOOLEAN
  BY DEF HardReset
<1>3. size' \in Nat /\ pkt' \in Int /\ frame' \in Seq(Int) /\ txsize' \in Nat
  BY DEF HardReset
<1>4. cutShort' \in BOOLEAN /\ resets' \in Nat
  BY DEF HardReset, TypeInv, TypeOK
<1>5. UNCHANGED <<turbo, twisted, port, rxMode, txOn, rcv, rxd, txd, offered, received>>
      /\ UNCHANGED <<collided, misuse, buffers>>
  BY DEF HardReset
<1> QED BY <1>1, <1>2, <1>3, <1>4, <1>5, SlirpTyped DEF TypeInv, TypeOK

LEMMA UserTyped ==
  ASSUME TypeInv, User
  PROVE  TypeInv'
<1>1. CASE ChangeConnection
  <2>1. cpu = "run" /\ (SlirpStart \/ SlirpStop \/ UNCHANGED slirp)
    BY <1>1 DEF ChangeConnection
  <2>2. MachineStays
    BY <1>1, <2>1, SlirpTyped DEF ChangeConnection, MachineStays, rxbuf, TypeInv, TypeOK
  <2>3. /\ connected' \in BOOLEAN /\ resets' \in Nat
        /\ UNCHANGED <<turbo, twisted, guest, stopped, collided, cutShort, misuse, buffers>>
    BY <1>1 DEF ChangeConnection, TypeInv, TypeOK
  <2> QED BY <2>1, <2>2, <2>3, StaysTyped DEF guest, TypeInv, TypeOK
<1>2. CASE ChangeCable
  <2>1. twisted' \in BOOLEAN /\ resets' \in Nat
    BY <1>2 DEF ChangeCable, TypeInv, TypeOK
  <2> QED BY <1>2, <2>1 DEF ChangeCable, TypeInv, TypeOK, StopInv, guest, rxbuf, slirp
<1> QED BY <1>1, <1>2, HardResetTyped DEF User

LEMMA EveryStepTyped ==
  ASSUME TypeInv, [Next]_vars
  PROVE  TypeInv'
<1>1. CASE UNCHANGED vars
  BY <1>1 DEF TypeInv, TypeOK, StopInv, vars, config, guest, rxbuf, slirp, history
<1> QED BY <1>1, TickTyped, StoppingTyped, HandlerTyped, GuestTyped, UserTyped DEF Next

LEMMA InitiallyTyped == Init => TypeInv
<1> SUFFICES ASSUME Init PROVE TypeInv
  OBVIOUS
<1>1. rxMode \in DOMAIN Accepted /\ turbo \in BOOLEAN
  BY EnetAssumption DEF Init
<1>2. /\ frame \in Seq(Int) /\ received \in Seq(Int) /\ rxd \in Seq(Nat)
      /\ txd \in Seq([n : Nat, eop : BOOLEAN])
  BY DEF Init
<1>3. slirpq \in Seq(Packets) /\ Len(slirpq) <= QueueMax
  BY Constants DEF Init
<1>4. /\ connected \in BOOLEAN /\ twisted \in BOOLEAN /\ txOn \in BOOLEAN
      /\ reset \in BOOLEAN /\ stopped \in BOOLEAN /\ busy \in BOOLEAN
      /\ started \in BOOLEAN /\ collided \in BOOLEAN /\ cutShort \in BOOLEAN
  BY DEF Init
<1>5. /\ port = "loop" /\ rcv = "WAITING" /\ tick = "none" /\ cpu = "run"
      /\ alive = {} /\ misuse = {}
      /\ pkt = 0 /\ size = 0 /\ txsize = 0 /\ offered = 0 /\ buffers = 0 /\ resets = 0
  BY DEF Init
<1> QED BY <1>1, <1>2, <1>3, <1>4, <1>5 DEF TypeInv, TypeOK, StopInv

(* Every step after enet_slirp_stop has begun *)
LEMMA StopStep ==
  ASSUME TypeInv, cpu # "run", Next
  PROVE  StopRank' < StopRank
<1>0. /\ ~started
      /\ tick \in {"none", "sleep", "lock1", "lock2", "poll", "output", "ended", "hung"}
      /\ cpu \in {"destroyQueue", "destroyMutex", "join"}
  BY DEF TypeInv, TypeOK, StopInv
<1>1. Tick \/ Stopping
  <2>1. ~ENET_IO_Handler
    BY DEF ENET_IO_Handler
  <2>2. ~GuestActs
    BY DEF GuestActs, EN_Reset_Write, EN_TX_Status_Write, EN_Mode_Write, RxBuffer, RxReset, Rx,
           TxBuffer
  <2>3. ~User
    BY DEF User, ChangeConnection, ChangeCable, HardReset
  <2> QED BY <2>1, <2>2, <2>3 DEF Next
<1>2. CASE Tick
  <2>1. cpu' = cpu
    BY <1>2 DEF Tick, TickWake, TickFill, TickLock, TickCanOutput, TickOutput, TickPolled, TickGoes
  <2>2. \/ tick = "sleep" /\ tick' = "ended"
        \/ tick = "lock1" /\ tick' \in {"lock2", "sleep", "hung"}
        \/ tick = "lock2" /\ tick' \in {"poll", "hung"}
        \/ tick = "output" /\ tick' = "poll"
        \/ tick = "poll" /\ tick' = "sleep"
    BY <1>0, <1>2
       DEF Tick, TickWake, TickFill, TickLock, TickCanOutput, TickOutput, TickPolled, TickGoes
  <2> QED BY <2>1, <2>2 DEF StopRank, TickRank, CpuRank
<1>3. CASE Stopping
  <2>1. \/ cpu = "destroyQueue" /\ cpu' = "destroyMutex" /\ tick' = tick
        \/ cpu = "destroyMutex" /\ cpu' = "join" /\ tick' = tick
        \/ cpu = "join" /\ cpu' = "run" /\ tick = "ended" /\ tick' = "none"
    BY <1>3 DEF Stopping, DestroyQueue, DestroyMutex, Join
  <2> QED BY <2>1 DEF StopRank, TickRank, CpuRank
<1> QED BY <1>1, <1>2, <1>3

(***************************************************************************)
(* The theorems.                                                            *)
(***************************************************************************)
LEMMA Initially == Init => Inv
<1> SUFFICES ASSUME Init PROVE Inv
  OBVIOUS
<1>0. rxMode \in DOMAIN Accepted /\ turbo \in BOOLEAN
  BY EnetAssumption DEF Init
<1>1. Machine \in Machines
  <2>0. busy \in BOOLEAN
    BY DEF Init
  <2>1. pkt \in Int /\ size \in Nat /\ txsize \in Nat /\ offered \in Nat
    BY DEF Init
  <2>2. rcv \in Rcv
    BY RcvStates DEF Init
  <2>3. frame \in Seq(Int) /\ received \in Seq(Int)
    BY DEF Init
  <2>4. rxd \in Seq(Nat)
    BY DEF Init
  <2>5. txd \in Seq(Buffers)
    BY DEF Init
  <2>6. slirpq \in Seq(Packets)
    BY DEF Init
  <2> QED BY <2>0, <2>1, <2>2, <2>3, <2>4, <2>5, <2>6, MachineTypes
<1>2. Machine.frame = <<>> /\ Machine.size = 0 /\ Len(Machine.frame) = 0
  BY MachineFields DEF Init
<1>3. Buffered(Machine)
  BY <1>2 DEF Buffered
<1>4. /\ Machine.slirpq = <<>> /\ Len(Machine.slirpq) = 0 /\ Machine.offered = 0
      /\ LastOf(Machine.received) = 0
  BY MachineFields DEF Init, LastOf
<1>5. Ordered(Machine)
  BY <1>2, <1>4, Constants DEF Ordered, After
<1>6. SlirpInv
  BY DEF Init, SlirpInv
<1>7. Rest
  BY <1>0 DEF Init, Rest
<1> QED BY <1>1, <1>3, <1>5, <1>6, <1>7 DEF Inv, MachineInv

(* The relation of receive buffer, memory, queue and SLiRP described above  *)
(* is kept by every step of ethernet.c and enet_slirp.c.                    *)
THEOREM Invariant ==
  ASSUME Careful
  PROVE  Spec => []Inv
<1>1. Inv /\ [Next]_vars => Inv'
  BY EveryStep, NextInv DEF Goal, Inv
<1> QED BY <1>1, Initially, PTL DEF Spec

(* Every variable keeps its type and the queue its bound, for every size of *)
(* the queue, any number of packets and any guest (queue.c, QueueEnter;     *)
(* ethernet.c, enet_io).                                                    *)
THEOREM TypeCorrect == Spec => []TypeOK
<1>1. TypeInv /\ [Next]_vars => TypeInv'
  BY EveryStepTyped
<1>2. TypeInv => TypeOK
  BY DEF TypeInv
<1> QED BY <1>1, <1>2, InitiallyTyped, PTL DEF Spec

(* Once enet_slirp_stop has cleared slirp_started every step brings the end *)
(* of the tick thread or the return of the stop nearer, and eight are       *)
(* enough, for any guest (enet_slirp.c, tick_func and enet_slirp_stop).     *)
THEOREM StopEnds == Spec => StopDescends /\ [](StopRank \in 0..8)
<1>1. TypeInv /\ [Next]_vars => TypeInv'
  BY EveryStepTyped
<1>2. TypeInv /\ [Next]_vars => [cpu # "run" => StopRank' < StopRank]_vars
  BY StopStep
<1>3. TypeInv => StopRank \in 0..8
  <2> SUFFICES ASSUME TypeInv PROVE StopRank \in 0..8
    OBVIOUS
  <2>1. TickRank \in 0..5 /\ CpuRank \in 0..3
    BY DEF TickRank, CpuRank
  <2> QED BY <2>1 DEF StopRank
<1> QED BY <1>1, <1>2, <1>3, InitiallyTyped, PTL DEF Spec, StopDescends

(* The controller never sends into a reception (ethernet.c, enet_io: "Wait  *)
(* until network is free"), with a guest that leaves NET_BUSY alone.        *)
THEOREM NeverIntoReception ==
  ASSUME Careful
  PROVE  Spec => []WaitsForNetwork
<1>1. Inv => WaitsForNetwork
  BY DEF Inv, Rest, WaitsForNetwork
<1> QED BY <1>1, Invariant, PTL

(* The poll of the queue, which does not look at slirp_started, finds the   *)
(* queue and its mutex through any resets, disconnections and cable changes *)
(* (enet_slirp.c, enet_slirp_queue_poll).                                   *)
THEOREM PollFindsQueue ==
  ASSUME Careful
  PROVE  Spec => []PollSafe
<1>1. Inv => PollSafe
  BY DEF Inv, Rest, PollSafe
<1> QED BY <1>1, Invariant, PTL

(* The controllers implement the lossy link: whole packets, in order, none  *)
(* twice, none that was not sent (ethernet.c enet_io, enet_slirp.c).        *)
THEOREM ImplementsLink ==
  ASSUME Careful
  PROVE  Spec => LinkIsLossy
<1>1. Init => L!LinkInit
  BY DEF Init, L!LinkInit
<1>2. Inv /\ [Next]_vars => [L!LinkNext]_(L!linkVars)
  <2> SUFFICES ASSUME Inv, [Next]_vars PROVE L!LinkNext
    OBVIOUS
  <2>1. LinkStep(Machine, Machine') /\ MachineInv(Machine')
    BY EveryStep DEF Goal
  <2>2. offered' \in Nat /\ offered' >= offered
    BY <2>1, MachineFields, NextFields DEF LinkStep, MachineInv, Machines
  <2>3. \/ received' = received
        \/ \E p \in 1..offered : p > LastOf(received) /\ received' = Append(received, p)
    BY <2>1, MachineFields, NextFields DEF LinkStep
  <2>4. L!LastReceived = LastOf(received)
    BY DEF L!LastReceived, LastOf
  <2> QED BY <2>2, <2>3, <2>4 DEF L!LinkNext
<1> QED BY <1>1, <1>2, Invariant, PTL DEF Spec, LinkIsLossy, L!LinkSpec
================================================================================
