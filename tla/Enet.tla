---------------------------------- MODULE Enet ---------------------------------
(***************************************************************************)
(* Ethernet: the controllers of src/src/ethernet.c (the Fujitsu chip and    *)
(* the AT&T chip of turbo machines), their two DMA channels in              *)
(* src/src/dma.c, and the connection to the host network in                 *)
(* src/src/enet_slirp.c and src/src/queue.c.  Two host threads: the CPU     *)
(* thread runs the guest, the controller's timer handler, the resets and    *)
(* the configuration dialog; the tick thread runs SLiRP and enters packets  *)
(* from the network into slirpq.  slirp_mutex is recursive and is held by   *)
(* the CPU thread only inside one step, so its holder is told by the tick   *)
(* thread's place.                                                          *)
(*                                                                          *)
(* A packet is its number (from the network 1, 2, ...; one of the guest's   *)
(* own, seen again by the receiver, is Own) and whom it is addressed to.    *)
(* Its contents are PacketLen units that all bear its number.  Left out:    *)
(* interrupt status and masks, the address marks that tell the guest where  *)
(* a packet ended (rx_chain), and the branch for short packets, which is    *)
(* never taken, as enet_receive has padded them.                            *)
(***************************************************************************)
EXTENDS Integers, Sequences

CONSTANTS
  QueueMax,      \* MAX_QUEUE_SIZE (100)
  PacketLen,     \* length of a packet in units
  Crc,           \* units of checksum that the receiver adds
  Trail,         \* units past the end of what the guest sends (15 bytes)
  Rooms,         \* sizes of the guest's receive buffers
  TxBuffers,     \* its transmit buffers: n units, eop for the end of a packet
  Turbos,        \* the controllers: turbo or not
  Ports,         \* the ports the guest selects
  Addresses,     \* whom packets are addressed to
  RxModes,       \* the receive modes the guest writes
  Careful,       \* the guest resets the chip and clears its status only between
                 \* packets, and lets it stop before it restarts it
  MaxOffered,    \* bound on the packets from the network
  MaxBuffers,    \* bound on the guest's transmit buffers
  MaxResets      \* bound on resets and configuration changes

Own == 0 - 1

(* Which packets each mode accepts, and the modes of each chip *)
Everyone == {"broadcast", "me", "local", "multicast", "other"}
Accepted ==
  [NOPACKETS |-> {}, LIMITED |-> {"broadcast", "me", "local"},
   NORMAL |-> {"broadcast", "me", "local", "multicast"}, PROMISCUOUS |-> Everyone,
   OFF |-> {}, NOTOWN |-> {"broadcast"}, OWN |-> {"broadcast", "me"}, ANY |-> Everyone]

Modes(isTurbo) ==
  IF isTurbo THEN {"OFF", "NOTOWN", "OWN", "ANY"}
  ELSE {"NOPACKETS", "LIMITED", "NORMAL", "PROMISCUOUS"}

ASSUME EnetAssumption ==
  /\ QueueMax \in Nat \ {0} /\ PacketLen \in Nat \ {0}
  /\ Crc \in Nat /\ Trail \in Nat
  /\ Rooms \subseteq Nat
  /\ TxBuffers \subseteq [n : Nat \ {0}, eop : BOOLEAN]
  /\ Turbos \subseteq BOOLEAN /\ Careful \in BOOLEAN
  /\ Ports \subseteq {"loop", "wire", "pair"} /\ Addresses \subseteq Everyone
  /\ RxModes \subseteq DOMAIN Accepted
  /\ MaxOffered \in Nat /\ MaxBuffers \in Nat /\ MaxResets \in Nat

VARIABLES
  turbo,      \* ConfigureParams.System.bTurbo
  connected,  \* ConfigureParams.Ethernet.bEthernetConnected
  twisted,    \* ConfigureParams.Ethernet.bTwistedPair
  port,       \* what the guest selects: loopback, thin wire, twisted pair
  rxMode,     \* enet.rx_mode
  txOn,       \* TXMODE_ENABLE in enet.tx_mode (turbo)
  reset,      \* EN_RESET in enet.reset
  stopped,    \* enet_stopped; otherwise INTERRUPT_ENET_IO is armed
  busy,       \* TXSTAT_NET_BUSY in enet.tx_status
  rcv,        \* receiver_state
  pkt, size,  \* enet_rx_buffer: the packet in it (or 0) and the units left of it
  frame,      \* the units written to memory for the packet being received
  rxd,        \* the receive channel: the buffers it has, see dma_enet_interrupt
  txsize,     \* enet_tx_buffer.size
  txd,        \* the transmit channel, likewise
  started,    \* slirp_started
  alive,      \* slirpq and slirp_mutex exist: subset of {"queue", "mutex"}
  slirpq,
  tick,       \* where the tick thread is
  cpu,        \* where the CPU thread is: "run", or inside enet_slirp_stop
  \* history: packets that SLiRP has output, packets received, whether one was
  \* sent during a reception, whether a machine reset fell within one, who has
  \* used a destroyed queue or mutex
  offered, received, collided, cutShort, misuse,
  buffers, resets  \* how many so far

config == <<turbo, connected, twisted>>
guest == <<port, rxMode, txOn, reset>>
rxbuf == <<busy, rcv, pkt, size, frame>>
slirp == <<started, alive, slirpq, tick, cpu>>
history == <<offered, received, collided, cutShort, misuse, buffers, resets>>
vars == <<config, guest, stopped, rxbuf, rxd, txsize, txd, slirp, history>>

Init ==
  /\ turbo \in Turbos /\ connected \in BOOLEAN /\ twisted \in BOOLEAN
  /\ port = "loop" /\ rxMode \in RxModes \cap Modes(turbo)
  /\ txOn = FALSE
  /\ reset = TRUE /\ stopped = TRUE
  /\ busy = FALSE /\ rcv = "WAITING" /\ pkt = 0 /\ size = 0 /\ frame = <<>>
  /\ rxd = <<>> /\ txsize = 0 /\ txd = <<>>
  /\ started = FALSE /\ alive = {} /\ slirpq = <<>> /\ tick = "none" /\ cpu = "run"
  /\ offered = 0 /\ received = <<>> /\ collided = FALSE /\ cutShort = FALSE /\ misuse = {}
  /\ buffers = 0 /\ resets = 0

(***************************************************************************)
(* The host side: starting and stopping SLiRP, and its thread.              *)
(***************************************************************************)
(* enet_slirp_start *)
SlirpStart ==
  IF started THEN UNCHANGED slirp
  ELSE /\ started' = TRUE /\ alive' = {"queue", "mutex"} /\ slirpq' = <<>>
       /\ tick' = "sleep" /\ UNCHANGED cpu

(* enet_slirp_stop: the flag; the rest in the steps below *)
SlirpStop ==
  /\ started' = FALSE
  /\ cpu' = IF started THEN "destroyQueue" ELSE cpu
  /\ UNCHANGED <<alive, slirpq, tick>>

DestroyQueue ==
  /\ cpu = "destroyQueue" /\ cpu' = "destroyMutex"
  /\ alive' = alive \ {"queue"} /\ slirpq' = <<>>
  /\ UNCHANGED <<config, guest, stopped, rxbuf, rxd, txsize, txd, started, tick,
                 history>>

DestroyMutex ==
  /\ cpu = "destroyMutex" /\ cpu' = "join"
  /\ alive' = alive \ {"mutex"}
  /\ UNCHANGED <<config, guest, stopped, rxbuf, rxd, txsize, txd, started, slirpq,
                 tick, history>>

Join ==
  /\ cpu = "join" /\ tick = "ended"
  /\ cpu' = "run" /\ tick' = "none"
  /\ UNCHANGED <<config, guest, stopped, rxbuf, rxd, txsize, txd, started, alive,
                 slirpq, history>>

(* Inside slirp_select_poll *)
Holding == tick \in {"poll", "output"}

TickGoes(place) ==
  /\ tick' = place
  /\ UNCHANGED <<config, guest, stopped, rxbuf, rxd, txsize, txd, started, alive, cpu>>
  /\ UNCHANGED <<offered, received, collided, cutShort, buffers, resets>>

(* tick_func: after the sleep slirp_tick and the loop test slirp_started *)
\* Fault: the loop does not test it.
TickWake_forever ==
  /\ tick = "sleep" /\ TickGoes(IF started THEN "lock1" ELSE "sleep")
  /\ UNCHANGED <<slirpq, misuse>>
TickWake ==
  /\ tick = "sleep" /\ TickGoes(IF started THEN "lock1" ELSE "ended")
  /\ UNCHANGED <<slirpq, misuse>>

(* SDL_LockMutex.  On a destroyed mutex anything may happen; the thread gets *)
(* it, or never returns.                                                     *)
TickLock(from, to) ==
  /\ tick = from
  /\ \/ "mutex" \in alive /\ TickGoes(to) /\ UNCHANGED misuse
     \/ /\ "mutex" \notin alive /\ misuse' = misuse \cup {"tick"}
        /\ TickGoes(to) \/ TickGoes("hung")
  /\ UNCHANGED slirpq

(* slirp_select_fill under the mutex, then select, which may fail *)
TickFill == TickLock("lock1", "lock2") \/ TickLock("lock1", "sleep")

(* if_start looks at slirp_started before every packet *)
\* Fault: it does not.
TickCanOutput_blind ==
  /\ tick = "poll" /\ offered < MaxOffered /\ TickGoes("output")
  /\ UNCHANGED <<slirpq, misuse>>
TickCanOutput ==
  /\ tick = "poll" /\ started /\ offered < MaxOffered /\ TickGoes("output")
  /\ UNCHANGED <<slirpq, misuse>>

\* Fault: entered into a full queue too.
QueueEnter_full(q, p) == Append(q, p)
QueueEnter(q, p) == IF Len(q) < QueueMax THEN Append(q, p) ELSE q

(* slirp_output *)
TickOutput(to) ==
  /\ tick = "output" /\ tick' = "poll"
  /\ offered' = offered + 1
  /\ slirpq' = IF "queue" \in alive
               THEN QueueEnter(slirpq, [id |-> offered + 1, to |-> to]) ELSE slirpq
  /\ misuse' = IF alive = {"queue", "mutex"} THEN misuse ELSE misuse \cup {"tick"}
  /\ UNCHANGED <<config, guest, stopped, rxbuf, rxd, txsize, txd, started, alive, cpu,
                 received, collided, cutShort, buffers, resets>>

TickPolled ==
  /\ tick = "poll" /\ TickGoes("sleep") /\ UNCHANGED slirpq
  /\ misuse' = IF "mutex" \in alive THEN misuse ELSE misuse \cup {"tick"}

Tick ==
  \/ TickWake \/ TickFill \/ TickLock("lock2", "poll") \/ TickCanOutput \/ TickPolled
  \/ \E to \in Addresses : TickOutput(to)

(***************************************************************************)
(* The timer handler, as operators on a record of what it changes.          *)
(***************************************************************************)
Machine ==
  [busy |-> busy, rcv |-> rcv, pkt |-> pkt, size |-> size, frame |-> frame, rxd |-> rxd,
   txsize |-> txsize, txd |-> txd, slirpq |-> slirpq, offered |-> offered,
   received |-> received]

(* enet_state, new_enet_state; a 68030 cube is one with twisted = FALSE *)
enet_state ==
  CASE port = "loop"                              -> "LOOPBACK"
    [] port = "wire" /\ connected /\ ~twisted     -> "THINWIRE"
    [] port = "pair" /\ connected /\ twisted      -> "TWISTEDPAIR"
    [] OTHER                                      -> "DISCONNECTED"

Network == enet_state \in {"THINWIRE", "TWISTEDPAIR"}

enet_packet_for_me(to) == to \in Accepted[rxMode]

\* Fault: the network is not marked busy.
enet_receive_idle(s, id, to) ==
  IF enet_packet_for_me(to) THEN [s EXCEPT !.pkt = id, !.size = PacketLen] ELSE s
enet_receive(s, id, to) ==
  IF enet_packet_for_me(to)
  THEN [s EXCEPT !.pkt = id, !.size = PacketLen, !.busy = TRUE] ELSE s

\* Fault: the packet stays in the queue.
enet_slirp_queue_poll_peek(s) ==
  IF s.slirpq = <<>> THEN s ELSE enet_receive(s, Head(s.slirpq).id, Head(s.slirpq).to)
enet_slirp_queue_poll(s) ==
  IF s.slirpq = <<>> THEN s
  ELSE enet_receive([s EXCEPT !.slirpq = Tail(s.slirpq)], Head(s.slirpq).id, Head(s.slirpq).to)

(* A channel is the sequence of its buffers: none when DMA_ENABLE is off,   *)
(* two when DMA_SUPDATE is on.  The next one, or the end; err is a bus      *)
(* error before.                                                            *)
dma_enet_interrupt(d, err) == IF err THEN <<>> ELSE Tail(d)

Smaller(a, b) == IF a < b THEN a ELSE b

(* What can be written of the packet: all of it, or what the buffer takes *)
Written(s) == IF s.rxd = <<>> THEN 0 ELSE Smaller(Head(s.rxd), s.size)

(* k units are written; fewer than could be before a bus error *)
dma_enet_write_memory(s, k) ==
  IF s.rxd = <<>> THEN s
  ELSE [s EXCEPT !.size = s.size - k,
                 !.frame = s.frame \o [i \in 1..k |-> s.pkt],
                 !.rxd = dma_enet_interrupt(s.rxd, k < Written(s))]

(* The packet is given up *)
\* Fault: the receiver stays in its state.
Overflow_stays(s) == [s EXCEPT !.size = 0, !.busy = FALSE, !.frame = <<>>, !.pkt = 0]
Overflow(s) ==
  [s EXCEPT !.size = 0, !.busy = FALSE, !.rcv = "WAITING", !.frame = <<>>, !.pkt = 0]

(* What the guest has in its buffers: the packet with this number, or no    *)
(* packet that was ever sent.                                               *)
Whole(f) == Len(f) >= PacketLen /\ \A i \in DOMAIN f : f[i] = f[1]
PacketIn(f) == IF Whole(f) THEN f[1] ELSE 0

(* PKT_OK *)
Complete(s) ==
  [s EXCEPT !.busy = FALSE, !.rcv = "WAITING", !.frame = <<>>, !.pkt = 0,
            !.received = IF PacketIn(s.frame) = Own THEN s.received
                         ELSE Append(s.received, PacketIn(s.frame))]

(* From the first state to the second *)
Begin(s) ==
  IF s.rcv = "WAITING" THEN [s EXCEPT !.rcv = "RECEIVING", !.size = s.size + Crc] ELSE s

Transfer(s, k) ==
  LET t == dma_enet_write_memory(s, k)
  IN IF t.size = s.size THEN Overflow(t)
     ELSE IF t.size > 0 THEN t
     ELSE Complete(t)

Polls(s) == s.rcv = "WAITING" /\ s.size = 0 /\ Network

Receive(s, k) ==
  IF s.size > 0 THEN Transfer(Begin(s), k)
  ELSE IF Polls(s) THEN enet_slirp_queue_poll(s)
  ELSE s

(* dma_enet_read_memory reads k units; TxDone is what it returns *)
TxUnits(s) == IF s.txd = <<>> THEN 0 ELSE Head(s.txd).n
TxRead(s, k) ==
  IF s.txd = <<>> THEN s
  ELSE [s EXCEPT !.txsize = s.txsize + k,
                 !.txd = dma_enet_interrupt(s.txd, k < TxUnits(s))]
TxDone(s) == s.txd # <<>> /\ Head(s.txd).eop

(* What enet_io makes of it: is a packet to be sent, and what stays *)
TxLength(s, k) ==
  LET n == TxRead(s, k).txsize
  IN IF n = s.txsize /\ ~TxDone(s) THEN 0               \* underflow
     ELSE IF n > Trail THEN n - Trail
     ELSE IF TxDone(s) THEN 0                           \* early end of packet
     ELSE n
TxSends(s, k) ==
  IF turbo THEN TxRead(s, k).txsize > 0
  ELSE TxDone(s) /\ (TxRead(s, k).txsize = 0 \/ TxRead(s, k).txsize > Trail)

(* The packet goes out; SLiRP may answer at once (enet_slirp_input), and on *)
(* loopback and thin wire the receiver hears it.                            *)
Transmitted(s, to, answer) ==
  LET out == [s EXCEPT !.txsize = 0]
      net == IF answer = "none" \/ ~Network \/ ~started THEN out
             ELSE [out EXCEPT !.offered = s.offered + 1,
                              !.slirpq = QueueEnter(s.slirpq,
                                                    [id |-> s.offered + 1, to |-> answer])]
  IN IF enet_state = "TWISTEDPAIR" THEN net ELSE enet_receive(net, Own, to)

MaySend(s) == (turbo => txOn) /\ enet_state # "DISCONNECTED" /\ ~s.busy

Send(s, k, to, answer) ==
  IF ~MaySend(s) THEN s
  ELSE IF TxSends(s, k) THEN Transmitted(TxRead(s, k), to, answer)
  ELSE [TxRead(s, k) EXCEPT !.txsize = IF turbo THEN 0 ELSE TxLength(s, k)]

Sends(s, k) == MaySend(s) /\ TxSends(s, k)

(* enet_io, new_enet_io: k units are received, j are read and go, as a      *)
(* packet for to, into SLiRP, which answers                                 *)
EnetIo(k, j, to, answer) ==
  \E s \in {Receive(Machine, k)} : \E t \in {Send(s, j, to, answer)} :
     /\ (Polls(Machine) \/ (Sends(s, j) /\ Network /\ started)) => ~Holding
     /\ t.offered <= MaxOffered
     /\ collided' = (collided \/ (Sends(s, j) /\ s.size > 0))
     /\ misuse' = IF Polls(Machine) /\ alive # {"queue", "mutex"}
                  THEN misuse \cup {"cpu"} ELSE misuse
     /\ busy' = t.busy /\ rcv' = t.rcv /\ pkt' = t.pkt /\ size' = t.size
     /\ frame' = t.frame /\ rxd' = t.rxd /\ txsize' = t.txsize /\ txd' = t.txd
     /\ slirpq' = t.slirpq /\ offered' = t.offered /\ received' = t.received
     /\ UNCHANGED <<config, guest, stopped, started, alive, tick, cpu, cutShort, buffers,
                    resets>>

HandlerStops ==
  /\ stopped' = TRUE
  /\ IF connected THEN SlirpStop ELSE UNCHANGED slirp
  /\ UNCHANGED <<config, guest, rxbuf, rxd, txsize, txd, history>>

ENET_IO_Handler ==
  /\ cpu = "run" /\ ~stopped
  /\ \/ reset /\ HandlerStops
     \/ /\ ~reset
        /\ \E k \in 0..(IF size > 0 THEN Written(Begin(Machine)) ELSE 0),
              j \in 0..TxUnits(Machine) :
             \/ ~Sends(Receive(Machine, k), j) /\ EnetIo(k, j, "none", "none")
             \/ /\ Sends(Receive(Machine, k), j)
                /\ \E to \in Addresses, answer \in Addresses \cup {"none"} :
                     EnetIo(k, j, to, answer)

(***************************************************************************)
(* The guest's registers.                                                   *)
(***************************************************************************)
Between == Careful => size = 0

\* Fault: SLiRP is not started again.
enet_reset_offline == stopped' = FALSE /\ UNCHANGED slirp
enet_reset ==
  /\ stopped' = FALSE
  /\ IF stopped /\ connected THEN SlirpStart ELSE UNCHANGED slirp

EN_Reset_Write(bit) ==
  /\ cpu = "run"
  /\ reset' = bit
  /\ IF bit
     THEN /\ Between /\ resets < MaxResets /\ resets' = resets + 1
          /\ busy' = FALSE /\ UNCHANGED <<stopped, slirp>>
     ELSE /\ Careful => stopped
          /\ enet_reset /\ UNCHANGED <<busy, resets>>
  /\ UNCHANGED <<config, port, rxMode, txOn, rcv, pkt, size, frame, rxd, txsize, txd,
                 offered, received, collided, cutShort, misuse, buffers>>

(* On the turbo chip a write clears any bit of the status *)
EN_TX_Status_Write ==
  /\ cpu = "run" /\ turbo /\ Between
  /\ busy' = FALSE
  /\ UNCHANGED <<config, guest, stopped, rcv, pkt, size, frame, rxd, txsize, txd,
                 slirp, history>>

(* EN_TX_Mode_Write, EN_RX_Mode_Write *)
EN_Mode_Write(p, m, on) ==
  /\ cpu = "run" /\ port' = p /\ rxMode' = m
  /\ m \in Modes(turbo) /\ (on => turbo) /\ txOn' = on
  /\ UNCHANGED <<config, reset, stopped, rxbuf, rxd, txsize, txd, slirp, history>>

(* DMA_CSR_Write with its registers, for the two channels: a first buffer,  *)
(* one chained to it, and a reset                                           *)
Rx(d) ==
  /\ cpu = "run" /\ rxd' = d
  /\ UNCHANGED <<config, guest, stopped, rxbuf, txsize, txd, slirp, history>>

RxBuffer(room) == Len(rxd) < 2 /\ Rx(Append(rxd, room))
RxReset == Rx(<<>>)

TxBuffer(b) ==
  /\ cpu = "run" /\ Len(txd) < 2 /\ txd' = Append(txd, b)
  /\ buffers < MaxBuffers /\ buffers' = buffers + 1
  /\ UNCHANGED <<config, guest, stopped, rxbuf, rxd, txsize, slirp, offered,
                 received, collided, cutShort, misuse, resets>>

(***************************************************************************)
(* The user: a reset of the machine, and the configuration dialog.          *)
(***************************************************************************)
(* Reset_NeXT: CycInt_Reset and Ethernet_Reset(true).  receiver_state is    *)
(* not among what it resets.                                                *)
HardReset(plugged) ==
  /\ cpu = "run" /\ resets < MaxResets /\ resets' = resets + 1
  /\ connected' = plugged
  /\ reset' = TRUE /\ stopped' = TRUE
  /\ size' = 0 /\ pkt' = 0 /\ frame' = <<>> /\ txsize' = 0 /\ busy' = FALSE
  /\ cutShort' = (cutShort \/ rcv = "RECEIVING")
  /\ SlirpStop
  /\ UNCHANGED <<turbo, twisted, port, rxMode, txOn, rcv, rxd, txd,
                 offered, received, collided, misuse, buffers>>

(* Change_CopyChangedParamsToConfiguration without a reset: *)
(* Ethernet_Reset(false) when the connection changed        *)
ChangeConnection ==
  /\ cpu = "run" /\ resets < MaxResets /\ resets' = resets + 1
  /\ connected' = ~connected
  /\ IF connected' /\ ~reset THEN SlirpStart ELSE SlirpStop
  /\ UNCHANGED <<turbo, twisted, guest, stopped, rxbuf, rxd, txsize, txd,
                 offered, received, collided, cutShort, misuse, buffers>>

ChangeCable ==
  /\ cpu = "run" /\ resets < MaxResets /\ resets' = resets + 1
  /\ twisted' = ~twisted
  /\ UNCHANGED <<turbo, connected, guest, stopped, rxbuf, rxd, txsize, txd, slirp,
                 offered, received, collided, cutShort, misuse, buffers>>

Stopping == DestroyQueue \/ DestroyMutex \/ Join

GuestActs ==
  \/ \E bit \in BOOLEAN : EN_Reset_Write(bit)
  \/ EN_TX_Status_Write
  \/ \E p \in Ports, m \in RxModes, on \in BOOLEAN :
       EN_Mode_Write(p, m, on)
  \/ \E r \in Rooms : RxBuffer(r)
  \/ RxReset
  \/ \E b \in TxBuffers : TxBuffer(b)

User == ChangeConnection \/ ChangeCable \/ \E plugged \in BOOLEAN : HardReset(plugged)

Next == Tick \/ Stopping \/ ENET_IO_Handler \/ GuestActs \/ User

Spec == Init /\ [][Next]_vars

(* The tick thread is scheduled and its sleep leaves the mutex to the CPU   *)
(* thread; an armed timer is served (CycInt).                               *)
FairSpec ==
  /\ Spec
  /\ WF_vars(Tick) /\ WF_vars(Stopping)
  /\ SF_vars(ENET_IO_Handler)

(***************************************************************************)
(* Properties.                                                              *)
(***************************************************************************)
Packets == [id : Nat \ {0}, to : Everyone]

(* Every variable has its type; in particular the queue never holds more    *)
(* than its array (queue.c).                                                *)
TypeOK ==
  /\ turbo \in BOOLEAN /\ connected \in BOOLEAN /\ twisted \in BOOLEAN
  /\ port \in {"loop", "wire", "pair"} /\ rxMode \in DOMAIN Accepted
  /\ txOn \in BOOLEAN /\ reset \in BOOLEAN /\ stopped \in BOOLEAN
  /\ busy \in BOOLEAN /\ rcv \in {"WAITING", "RECEIVING"}
  /\ pkt \in Int /\ size \in Nat /\ frame \in Seq(Int)
  /\ rxd \in Seq(Nat) /\ txsize \in Nat /\ txd \in Seq([n : Nat, eop : BOOLEAN])
  /\ started \in BOOLEAN /\ alive \subseteq {"queue", "mutex"}
  /\ slirpq \in Seq(Packets) /\ Len(slirpq) <= QueueMax
  /\ tick \in {"none", "sleep", "lock1", "lock2", "poll", "output", "ended", "hung"}
  /\ cpu \in {"run", "destroyQueue", "destroyMutex", "join"}
  /\ offered \in Nat /\ received \in Seq(Int) /\ collided \in BOOLEAN
  /\ cutShort \in BOOLEAN
  /\ misuse \subseteq {"cpu", "tick"} /\ buffers \in Nat /\ resets \in Nat

(* The controller transmits only when no packet is being received           *)
(* (ethernet.c: "Wait until network is free"): on loopback and thin wire    *)
(* what it sends comes back to it and would overwrite that packet.          *)
WaitsForNetwork == ~collided

(* The CPU thread polls the queue only while the queue and its mutex exist, *)
(* through all resets, disconnections and cable changes                     *)
(* (enet_slirp_queue_poll does not look at slirp_started).                  *)
PollSafe == "cpu" \notin misuse

(* No thread uses the queue or the mutex after enet_slirp_stop has          *)
(* destroyed them (queue.h: "may not be used again unless queue =           *)
(* QueueCreate() is called first").                                         *)
QueueAlive == misuse = {}

Up == cpu = "run" /\ ~stopped /\ ~reset /\ Network

(* While the network stays up the queue is emptied again and again: the     *)
(* receiver gets back to polling, whatever the guest does with its          *)
(* channels (enet_io, states WAITING and RECEIVING), unless a reset of the  *)
(* machine fell within a reception (ResetReceives).                         *)
Drained == <>[](Up /\ ~cutShort) => []<>(slirpq = <<>>)

(* The same without exception: after a reset of the machine reception works *)
(* as before (reset.c: "Reset NEXT emulator states, chips, interrupts and   *)
(* registers").                                                             *)
ResetReceives == <>[]Up => []<>(slirpq = <<>>)

(* enet_slirp_stop returns: the thread it waits for sees slirp_started and  *)
(* ends, unless it has used the mutex that was destroyed under it.          *)
StopReturns == (cpu # "run") ~> (cpu = "run" \/ "tick" \in misuse)

(* What is left of a stop: steps of the tick thread to its end, and of      *)
(* enet_slirp_stop to its return.                                           *)
TickRank ==
  CASE tick = "lock1" -> 5 [] tick = "lock2" -> 4 [] tick = "output" -> 3
    [] tick = "poll" -> 2 [] tick = "sleep" -> 1 [] OTHER -> 0
CpuRank ==
  CASE cpu = "destroyQueue" -> 3 [] cpu = "destroyMutex" -> 2 [] cpu = "join" -> 1
    [] OTHER -> 0
StopRank == TickRank + CpuRank

(* Once enet_slirp_stop has cleared slirp_started, neither thread can go    *)
(* round again: every step of either, whatever packet the tick thread is    *)
(* inside, brings the end of the thread and the return of the stop nearer   *)
(* (tick_func, slirp_tick and if_start test the flag).                      *)
StopDescends == [][cpu # "run" => StopRank' < StopRank]_vars

(* What the guest receives from the network is what a lossy link gives *)
L == INSTANCE Link
LinkIsLossy == L!LinkSpec
================================================================================
