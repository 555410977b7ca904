------------------------------- MODULE DmaProofs -------------------------------
(***************************************************************************)
(* What one call of a transfer function does to the burst buffer, for every *)
(* size of word and burst.                                                  *)
(***************************************************************************)
EXTENDS Dma, TLAPS, SequenceTheorems

(***************************************************************************)
(* Arithmetic.                                                              *)
(***************************************************************************)
LEMMA ModRange ==
  ASSUME NEW a \in Int, NEW b \in Nat \ {0}
  PROVE  a % b \in 0..(b - 1)
OBVIOUS

LEMMA ModQuotient ==
  ASSUME NEW a \in Int, NEW b \in Nat \ {0}
  PROVE  \E q \in Int : a = q * b + (a % b)
<1>1. a \div b \in Int /\ a = (a \div b) * b + (a % b)
  OBVIOUS
<1> QED BY <1>1

(* A multiple of b that is more than another is more by at least b *)
LEMMA NextMultiple ==
  ASSUME NEW p \in Int, NEW q \in Int, NEW b \in Nat \ {0}, p * b > q * b
  PROVE  p * b >= q * b + b
<1>1. p > q
  OBVIOUS
<1>2. p >= q + 1
  BY <1>1
<1>3. (q + 1) * b = q * b + b
  OBVIOUS
<1>4. p * b >= (q + 1) * b
  BY <1>2
<1> QED BY <1>3, <1>4

Multiple(a) == \E q \in Int : a = q * Word

LEMMA Multiples ==
  ASSUME NEW a \in Int, NEW b \in Int, Multiple(a), Multiple(b)
  PROVE  Multiple(a + b) /\ Multiple(a - b)
<1>1. Word \in Int
  BY DmaAssumption
<1>2. PICK p \in Int : a = p * Word
  BY DEF Multiple
<1>3. PICK q \in Int : b = q * Word
  BY DEF Multiple
<1>4. a + b = (p + q) * Word /\ p + q \in Int
  BY <1>1, <1>2, <1>3
<1>5. a - b = (p - q) * Word /\ p - q \in Int
  BY <1>1, <1>2, <1>3
<1>6. Multiple(a + b)
  BY <1>4 DEF Multiple
<1>7. Multiple(a - b)
  BY <1>5 DEF Multiple
<1> QED BY <1>6, <1>7

LEMMA MultipleTimes ==
  ASSUME NEW a \in Int, NEW q \in Int, Multiple(a)
  PROVE  Multiple(q * a)
<1>1. PICK p \in Int : a = p * Word
  BY DEF Multiple
<1>2. q * a = (q * p) * Word /\ q * p \in Int
  BY <1>1, DmaAssumption
<1> QED BY <1>2 DEF Multiple

LEMMA MultipleMod ==
  ASSUME NEW a \in Int, a % Word = 0
  PROVE  Multiple(a)
<1>1. PICK q \in Int : a = q * Word + (a % Word)
  BY ModQuotient, DmaAssumption
<1>2. q * Word \in Int
  BY DmaAssumption
<1>3. a = q * Word
  BY <1>1, <1>2
<1> QED BY <1>3 DEF Multiple

LEMMA MultipleBurst == Burst \in Int /\ Multiple(Burst)
BY MultipleMod, DmaAssumption

LEMMA TimesBurst ==
  ASSUME NEW q \in Int
  PROVE  Multiple(q * Burst) /\ q * Burst \in Int
<1>1. q * Burst \in Int
  BY MultipleBurst
<1>2. Multiple(q * Burst)
  BY MultipleBurst, MultipleTimes
<1> QED BY <1>1, <1>2

LEMMA MultipleRemainder ==
  ASSUME NEW a \in Int, Multiple(a)
  PROVE  Multiple(a % Burst)
<1>1. PICK q \in Int : a = q * Burst + (a % Burst)
  BY ModQuotient, DmaAssumption
<1>2. a % Burst \in Int
  BY ModRange, DmaAssumption
<1>3. Multiple(q * Burst) /\ q * Burst \in Int
  BY TimesBurst
<1>4. a % Burst = a - q * Burst
  BY <1>1, <1>2, <1>3
<1> QED BY <1>3, <1>4, Multiples

LEMMA MultipleZero == Multiple(0)
<1>1. 0 = 0 * Word /\ 0 \in Int
  BY DmaAssumption
<1> QED BY <1>1 DEF Multiple

LEMMA MultipleStep ==
  ASSUME NEW a \in Int, Multiple(a), a > 0
  PROVE  a >= Word
<1>1. PICK q \in Int : a = q * Word
  BY DEF Multiple
<1>2. Word \in Nat \ {0}
  BY DmaAssumption
<1>3. q * Word > 0 * Word
  BY <1>1, <1>2
<1>4. q * Word >= 0 * Word + Word
  BY <1>2, <1>3, NextMultiple
<1> QED BY <1>1, <1>2, <1>4

(***************************************************************************)
(* The loops.  Idx is the place in espdma_buf of the next byte to leave.    *)
(***************************************************************************)
Idx(c) == c.fill - BufSize(c)

LEMMA ChannelParts ==
  ASSUME NEW c \in Channel
  PROVE  /\ c.fill \in 0..Burst /\ c.debt \in 0..Word /\ c.pend \in Seq(Int)
         /\ Len(c.pend) \in Nat /\ BufSize(c) \in Int /\ Idx(c) \in Int
         /\ c.next \in Nat /\ c.limit \in Nat /\ c.start \in Nat /\ c.stop \in Nat
<1>1. c.fill \in 0..Burst /\ c.debt \in 0..Word /\ c.pend \in Seq(Int)
      /\ c.next \in Nat /\ c.limit \in Nat /\ c.start \in Nat /\ c.stop \in Nat
  BY DEF Channel
<1>2. Len(c.pend) \in Nat
  BY <1>1
<1>3. BufSize(c) \in Int
  BY <1>1, <1>2, DmaAssumption DEF BufSize
<1> QED BY <1>1, <1>2, <1>3, DmaAssumption DEF Idx

(* The bytes of the whole bursts are a whole number of bursts more than the *)
(* first, when the supply completes that.                                   *)
LEMMA WholeForm ==
  ASSUME NEW c \in Channel, NEW supply \in Nat, supply >= Burst - c.fill
  PROVE  \E q \in Int :
           /\ WholeBursts(c, supply) = FirstBurst(c) + q * Burst
           /\ supply = Burst - c.fill + q * Burst + ((supply - (Burst - c.fill)) % Burst)
           /\ q * Burst \in Nat
<1>. DEFINE g == Burst - c.fill
            x == (supply - g) % Burst
<1>1. Burst \in Nat \ {0} /\ g \in Nat /\ BufSize(c) \in Int
      /\ supply - g \in Int /\ supply - g >= 0
  BY DmaAssumption, ChannelParts
<1>. HIDE DEF g
<1>2. PICK q \in Int : supply - g = q * Burst + x
  BY <1>1, ModQuotient
<1>3. x \in 0..(Burst - 1)
  BY <1>1, ModRange
<1>. HIDE DEF x
<1>4. q * Burst \in Int /\ q * Burst + x >= 0
  BY <1>1, <1>2
<1>5. q * Burst >= 0
  <2>1. q * Burst > (0 - 1) * Burst
    BY <1>1, <1>3, <1>4
  <2>2. q * Burst >= (0 - 1) * Burst + Burst
    BY <1>1, <2>1, NextMultiple
  <2> QED BY <1>1, <1>4, <2>2
<1>6. WholeBursts(c, supply) = BufSize(c) + supply - x
  BY <1>1 DEF WholeBursts, x, g
<1>7. FirstBurst(c) = BufSize(c) + g
  BY <1>1, ChannelParts, DmaAssumption DEF FirstBurst, g
<1>8. WholeBursts(c, supply) = FirstBurst(c) + q * Burst
  BY <1>1, <1>2, <1>3, <1>4, <1>6, <1>7
<1>9. supply = g + q * Burst + x
  BY <1>1, <1>2, <1>3, <1>4
<1> QED BY <1>4, <1>5, <1>8, <1>9 DEF x, g

(* What a call moves: no more than there is, no more than there is room     *)
(* for, nothing that was not there, and the buffer stays within its bounds. *)
LEMMA MovedBounds ==
  ASSUME NEW c \in Channel, Idx(c) \in 0..Burst, NEW supply \in Nat, NEW room \in Nat
  PROVE  LET n == BytesIn(c, supply, room)
             m == BytesOut(c, supply, room)
             f == FillAfter(c, supply, room)
         IN /\ n \in 0..supply /\ m \in 0..room /\ (m = 0 \/ m <= BufSize(c) + n)
            /\ f \in 0..Burst
            /\ f - (BufSize(c) + n - m) \in 0..Burst
<1>. DEFINE n == BytesIn(c, supply, room)
            m == BytesOut(c, supply, room)
            f == FillAfter(c, supply, room)
            g == Burst - c.fill
            z == BufSize(c)
            x == (supply - g) % Burst
            y == (room - FirstBurst(c)) % Burst
<1>1. /\ Burst \in Nat \ {0} /\ g \in 0..Burst /\ z \in Int /\ c.fill \in 0..Burst
      /\ c.fill - z \in 0..Burst /\ c.fill = Burst - g
      /\ FirstBurst(c) = z + g /\ z + g \in Nat /\ supply - g \in Int
  BY DmaAssumption, ChannelParts DEF FirstBurst, Idx
<1>2. CASE supply < g
  <2>1. WholeBursts(c, supply) = 0 /\ ~Overruns(c, supply, room)
    BY <1>2 DEF WholeBursts, Overruns
  <2>2. n = supply /\ m = 0 /\ f = c.fill + supply
    BY <1>2, <2>1 DEF BytesIn, BytesOut, FillAfter
  <2>. HIDE DEF n, m, f, g, z
  <2>3. n \in 0..supply /\ m \in 0..room /\ (m = 0 \/ m <= z + n)
    BY <1>1, <1>2, <2>2
  <2> QED BY <1>1, <1>2, <2>2, <2>3 DEF n, m, f, z
<1>3. CASE supply >= g /\ ~Overruns(c, supply, room)
  <2>1. PICK q \in Int : /\ WholeBursts(c, supply) = FirstBurst(c) + q * Burst
                         /\ supply = g + q * Burst + x
                         /\ q * Burst \in Nat
    BY <1>3, WholeForm
  <2>2. x \in 0..(Burst - 1)
    BY <1>1, ModRange
  <2>3. n = supply /\ m = WholeBursts(c, supply) /\ f = x
    BY <1>1, <1>3 DEF BytesIn, BytesOut, FillAfter
  <2>4. WholeBursts(c, supply) <= room
    <3>1. ~(WholeBursts(c, supply) > room)
      BY <1>3 DEF Overruns
    <3> QED BY <1>1, <2>1, <3>1
  <2>. HIDE DEF n, m, f, g, z, x
  <2>5. m = z + g + q * Burst
    BY <1>1, <2>1, <2>3
  <2>6. z + n - m = x
    BY <1>1, <2>1, <2>2, <2>3, <2>5
  <2>7. n \in 0..supply /\ m \in 0..room /\ (m = 0 \/ m <= z + n)
    BY <1>1, <2>1, <2>2, <2>3, <2>4, <2>5
  <2> QED BY <1>1, <2>2, <2>3, <2>6, <2>7 DEF n, m, f, z
<1>4. CASE supply >= g /\ Overruns(c, supply, room)
  <2>1. PICK q \in Int : /\ WholeBursts(c, supply) = FirstBurst(c) + q * Burst
                         /\ supply = g + q * Burst + x
                         /\ q * Burst \in Nat
    BY <1>4, WholeForm
  <2>2. x \in 0..(Burst - 1)
    BY <1>1, ModRange
  <2>3. m = room /\ f = Burst
    BY <1>4 DEF BytesOut, FillAfter
  <2>4. WholeBursts(c, supply) > room
    BY <1>4 DEF Overruns
  <2>5. CASE FirstBurst(c) > room
    <3>1. n = g
      BY <1>4, <2>5 DEF BytesIn
    <3>. HIDE DEF n, m, f, g, z, x
    <3>2. n \in 0..supply
      BY <1>1, <1>4, <3>1
    <3>3. m \in 0..room /\ (m = 0 \/ m <= z + n)
      BY <1>1, <2>3, <2>5, <3>1
    <3>4. Burst - (z + n - m) \in 0..Burst
      BY <1>1, <2>3, <2>5, <3>1
    <3> QED BY <1>1, <2>3, <3>2, <3>3, <3>4 DEF n, m, f, z
  <2>6. CASE ~(FirstBurst(c) > room)
    <3>0. room - FirstBurst(c) \in Int
      BY <1>1
    <3>1. PICK p \in Int : room - FirstBurst(c) = p * Burst + y
      BY <1>1, <3>0, ModQuotient
    <3>2. y \in 0..(Burst - 1)
      BY <1>1, <3>0, ModRange
    <3>3. n = room + Burst - y - z
      BY <1>4, <2>6 DEF BytesIn
    <3>. HIDE DEF n, m, f, g, z, x, y
    <3>4. p * Burst \in Int
      BY <1>1
    <3>5. room = z + g + p * Burst + y
      BY <1>1, <3>1, <3>2, <3>4
    <3>6. z + g + q * Burst > room
      BY <1>1, <2>1, <2>4
    <3>7. q * Burst > p * Burst
      BY <1>1, <2>1, <3>2, <3>4, <3>5, <3>6
    <3>8. q * Burst >= p * Burst + Burst
      BY <1>1, <3>7, NextMultiple
    <3>9. n = g + p * Burst + Burst
      BY <1>1, <3>2, <3>3, <3>4, <3>5
    <3>10. n <= supply
      BY <1>1, <2>1, <2>2, <3>4, <3>8, <3>9
    <3>11. p * Burst >= 0
      <4>1. p * Burst > (0 - 1) * Burst
        BY <1>1, <2>6, <3>1, <3>2, <3>4
      <4>2. p * Burst >= (0 - 1) * Burst + Burst
        BY <1>1, <4>1, NextMultiple
      <4> QED BY <1>1, <3>4, <4>2
    <3>12. n \in 0..supply
      BY <1>1, <3>4, <3>9, <3>10, <3>11
    <3>13. z + n - m = Burst - y
      BY <1>1, <2>3, <3>2, <3>3
    <3>14. m \in 0..room /\ (m = 0 \/ m <= z + n)
      BY <1>1, <2>3, <3>2, <3>3, <3>12
    <3> QED BY <1>1, <2>3, <3>2, <3>12, <3>13, <3>14 DEF n, m, f, z
  <2> QED BY <2>5, <2>6
<1> QED BY <1>1, <1>2, <1>3, <1>4

(* Towards memory, where room is a whole number of words: so is what        *)
(* leaves, and the next byte to leave stays at the start of a word.         *)
LEMMA MovedWordsOut ==
  ASSUME NEW c \in Channel, Multiple(Idx(c)),
         NEW supply \in Nat, NEW room \in Nat, Multiple(room)
  PROVE  LET n == BytesIn(c, supply, room)
             m == BytesOut(c, supply, room)
             f == FillAfter(c, supply, room)
         IN /\ Multiple(m)
            /\ Multiple(f - (BufSize(c) + n - m))
<1>. DEFINE n == BytesIn(c, supply, room)
            m == BytesOut(c, supply, room)
            f == FillAfter(c, supply, room)
            g == Burst - c.fill
            z == BufSize(c)
            x == (supply - g) % Burst
            y == (room - FirstBurst(c)) % Burst
<1>1. /\ Burst \in Nat \ {0} /\ g \in Int /\ z \in Int /\ c.fill \in Int
      /\ c.fill = Burst - g /\ Idx(c) = c.fill - z
      /\ FirstBurst(c) = z + g /\ z + g = Burst - Idx(c) /\ supply - g \in Int
  BY DmaAssumption, ChannelParts DEF FirstBurst, Idx
<1>2. Multiple(Burst) /\ Idx(c) \in Int
  BY MultipleBurst, ChannelParts
<1>3. Multiple(z + g)
  <2>1. Multiple(Burst - Idx(c))
    BY <1>2, MultipleBurst, Multiples
  <2>2. z + g = Burst - Idx(c)
    BY <1>1
  <2> QED BY <2>1, <2>2
<1>4. CASE supply < g
  <2>1. WholeBursts(c, supply) = 0 /\ ~Overruns(c, supply, room)
    BY <1>4 DEF WholeBursts, Overruns
  <2>2. n = supply /\ m = 0 /\ f = c.fill + supply
    BY <1>4, <2>1 DEF BytesIn, BytesOut, FillAfter
  <2>3. f - (z + n - m) = Idx(c)
    <3>. HIDE DEF n, m, f, z
    <3> QED BY <1>1, <2>2
  <2> QED BY <2>2, <2>3, MultipleZero
<1>5. CASE supply >= g /\ ~Overruns(c, supply, room)
  <2>1. PICK q \in Int : /\ WholeBursts(c, supply) = FirstBurst(c) + q * Burst
                         /\ supply = g + q * Burst + x
                         /\ q * Burst \in Nat
    BY <1>5, WholeForm
  <2>2. x \in 0..(Burst - 1)
    BY <1>1, ModRange
  <2>3. n = supply /\ m = WholeBursts(c, supply) /\ f = x
    BY <1>1, <1>5 DEF BytesIn, BytesOut, FillAfter
  <2>4. Multiple(q * Burst) /\ q * Burst \in Int
    BY TimesBurst
  <2>. HIDE DEF n, m, f, g, z, x
  <2>5. m = (z + g) + q * Burst /\ z + g \in Int
    BY <1>1, <2>1, <2>3
  <2>6. Multiple(m)
    BY <1>3, <2>4, <2>5, Multiples
  <2>7. f - (z + n - m) = 0
    BY <1>1, <2>1, <2>2, <2>3, <2>5
  <2> QED BY <2>6, <2>7, MultipleZero DEF n, m, f, z
<1>6. CASE supply >= g /\ Overruns(c, supply, room)
  <2>3. m = room /\ f = Burst
    BY <1>6 DEF BytesOut, FillAfter
  <2>5. CASE FirstBurst(c) > room
    <3>1. n = g
      BY <1>6, <2>5 DEF BytesIn
    <3>. HIDE DEF n, m, f, g, z
    <3>2. f - (z + n - m) = Idx(c) + room
      BY <1>1, <2>3, <3>1
    <3>3. Multiple(Idx(c) + room)
      BY <1>2, Multiples
    <3> QED BY <2>3, <3>2, <3>3 DEF n, m, f, z
  <2>6. CASE ~(FirstBurst(c) > room)
    <3>0. room - (z + g) \in Int /\ room \in Int /\ z + g \in Int
      BY <1>1
    <3>1. Multiple(room - (z + g))
      BY <1>3, <3>0, Multiples
    <3>2. y \in 0..(Burst - 1) /\ Multiple(y)
      BY <1>1, <3>0, <3>1, ModRange, MultipleRemainder
    <3>3. n = room + Burst - y - z
      BY <1>6, <2>6 DEF BytesIn
    <3>. HIDE DEF n, m, f, g, z, y
    <3>4. f - (z + n - m) = y
      BY <1>1, <2>3, <3>2, <3>3
    <3> QED BY <2>3, <3>2, <3>4 DEF n, m, f, z
  <2> QED BY <2>5, <2>6
<1> QED BY <1>1, <1>4, <1>5, <1>6

(* From memory, which gives a whole number of words: whole words enter and  *)
(* the end of the buffer's contents stays at the end of a word.             *)
LEMMA MovedWordsIn ==
  ASSUME NEW c \in Channel, Multiple(c.fill),
         NEW supply \in Nat, NEW room \in Nat, Multiple(supply)
  PROVE  Multiple(BytesIn(c, supply, room)) /\ Multiple(FillAfter(c, supply, room))
<1>. DEFINE n == BytesIn(c, supply, room)
            f == FillAfter(c, supply, room)
            g == Burst - c.fill
            z == BufSize(c)
            x == (supply - g) % Burst
            y == (room - FirstBurst(c)) % Burst
<1>1. /\ Burst \in Nat \ {0} /\ g \in Int /\ z \in Int /\ c.fill \in Int
      /\ FirstBurst(c) = z + g /\ supply - g \in Int /\ supply \in Int
  BY DmaAssumption, ChannelParts DEF FirstBurst
<1>2. Multiple(Burst) /\ Multiple(g)
  BY <1>1, MultipleBurst, Multiples
<1>3. Multiple(supply - g) /\ Multiple(c.fill + supply)
  BY <1>1, <1>2, Multiples
<1>4. Multiple(x)
  BY <1>1, <1>3, MultipleRemainder
<1>5. Multiple(f)
  BY <1>2, <1>3, <1>4 DEF FillAfter
<1>6. CASE ~Overruns(c, supply, room)
  BY <1>5, <1>6 DEF BytesIn
<1>7. CASE Overruns(c, supply, room) /\ FirstBurst(c) > room
  BY <1>2, <1>5, <1>7 DEF BytesIn
<1>8. CASE Overruns(c, supply, room) /\ ~(FirstBurst(c) > room)
  <2>0. room - FirstBurst(c) \in Int
    BY <1>1
  <2>1. PICK p \in Int : room - FirstBurst(c) = p * Burst + y
    BY <1>1, <2>0, ModQuotient
  <2>2. y \in 0..(Burst - 1)
    BY <1>1, <2>0, ModRange
  <2>3. n = room + Burst - y - z
    BY <1>8 DEF BytesIn
  <2>4. Multiple(p * Burst) /\ p * Burst \in Int
    <3>1. p \in Int
      OBVIOUS
    <3> QED BY <3>1, TimesBurst
  <2>. HIDE DEF n, g, z, y
  <2>5. n = (g + Burst) + p * Burst
    BY <1>1, <2>1, <2>2, <2>3, <2>4
  <2>6. Multiple(g + Burst) /\ g + Burst \in Int
    BY <1>1, <1>2, Multiples
  <2>7. Multiple(n)
    BY <2>4, <2>5, <2>6, Multiples
  <2> QED BY <1>5, <2>7 DEF n
<1> QED BY <1>6, <1>7, <1>8

(***************************************************************************)
(* The bytes.                                                               *)
(***************************************************************************)
LEMMA BufferedType ==
  ASSUME NEW c \in Channel, NEW bytes \in Seq(Int), NEW m \in Nat,
         m = 0 \/ m <= BufSize(c) + Len(bytes), NEW f \in 0..Burst
  PROVE  /\ Leaving(c, bytes, m) \in Seq(Int) /\ Len(Leaving(c, bytes, m)) = m
         /\ Staying(c, bytes, m) \in Seq(Int)
         /\ Swallowed(c, bytes) \in 0..c.debt
         /\ Len(Staying(c, bytes, m)) - (c.debt - Swallowed(c, bytes))
               = BufSize(c) + Len(bytes) - m
         /\ (c.debt > 0 => Len(c.pend) = 0) =>
              (c.debt - Swallowed(c, bytes) > 0 => Len(Staying(c, bytes, m)) = 0)
<1>. DEFINE all == c.pend \o bytes
            w == Swallowed(c, bytes)
            k == Len(c.pend)
            n == Len(bytes)
<1>1. /\ c.pend \in Seq(Int) /\ k \in Nat /\ c.debt \in Nat /\ n \in Nat
      /\ BufSize(c) = k - c.debt
  BY ChannelParts, DmaAssumption DEF BufSize
<1>2. all \in Seq(Int) /\ Len(all) = k + n /\ \A i \in 1..(k + n) : all[i] \in Int
  BY <1>1, ConcatProperties, ElementOfSeq
<1>3. w \in 0..c.debt /\ w <= n /\ (w = c.debt \/ w = n)
  BY <1>1 DEF Swallowed
<1>. HIDE DEF w, k, n, all
<1>4. w + m <= k + n
  BY <1>1, <1>3 DEF n
<1>5. \A i \in (w + 1)..(w + m) : all[i] \in Int
  BY <1>1, <1>2, <1>3, <1>4
<1>6. \A i \in (w + m + 1)..(k + n) : all[i] \in Int
  BY <1>1, <1>2, <1>3, <1>4
<1>7. w + 1 \in Int /\ w + m \in Int /\ w + m + 1 \in Int /\ k + n \in Int
  BY <1>1, <1>3
<1>8. /\ SubSeq(all, w + 1, w + m) \in Seq(Int)
      /\ Len(SubSeq(all, w + 1, w + m)) = m
  BY <1>1, <1>3, <1>5, <1>7, SubSeqProperties
<1>9. /\ SubSeq(all, w + m + 1, k + n) \in Seq(Int)
      /\ Len(SubSeq(all, w + m + 1, k + n)) = k + n - w - m
  BY <1>1, <1>3, <1>4, <1>6, <1>7, SubSeqProperties
<1>10. /\ Leaving(c, bytes, m) = SubSeq(all, w + 1, w + m)
       /\ Staying(c, bytes, m) = SubSeq(all, w + m + 1, k + n)
  BY DEF Leaving, Staying, all, w, k, n
<1>11. (k + n - w - m) - (c.debt - w) = BufSize(c) + n - m
  <2>1. k \in Int /\ n \in Int /\ w \in Int /\ c.debt \in Int /\ m \in Int
    BY <1>1, <1>3
  <2>2. (k + n - w - m) - (c.debt - w) = (k - c.debt) + n - m
    BY <2>1
  <2> QED BY <1>1, <2>2
<1>12. (c.debt > 0 => k = 0) => (c.debt - w > 0 => k + n - w - m = 0)
  BY <1>1, <1>3 DEF n
<1> QED BY <1>3, <1>8, <1>9, <1>10, <1>11, <1>12 DEF w, n, k

(* Nothing is lost or reordered between what leaves and what stays.         *)
LEMMA BufferedOrder ==
  ASSUME NEW c \in Channel, NEW bytes \in Seq(Int), NEW m \in Nat,
         m = 0 \/ m <= BufSize(c) + Len(bytes), c.debt = 0
  PROVE  Leaving(c, bytes, m) \o Staying(c, bytes, m) = c.pend \o bytes
<1>. DEFINE all == c.pend \o bytes
<1>1. c.pend \in Seq(Int) /\ Len(c.pend) \in Nat /\ Len(bytes) \in Nat
  BY ChannelParts
<1>2. all \in Seq(Int) /\ Len(all) = Len(c.pend) + Len(bytes)
  BY <1>1, ConcatProperties
<1>3. Swallowed(c, bytes) = 0
  BY <1>1 DEF Swallowed
<1>4. m <= Len(all)
  BY <1>1, <1>2 DEF BufSize
<1>. 0 + 1 = 1 /\ 0 + m = m /\ 0 + m + 1 = m + 1
  OBVIOUS
<1>5. Leaving(c, bytes, m) = SubSeq(all, 1, m)
  BY <1>3, Zenon DEF Leaving
<1>6. Staying(c, bytes, m) = SubSeq(all, m + 1, Len(all))
  BY <1>2, <1>3, Zenon DEF Staying
<1>. HIDE DEF all
<1>7. Len(all) \in Nat /\ 1 \in 1..(Len(all) + 1) /\ m \in (1 - 1)..Len(all) /\ Len(all) \in m..Len(all)
  BY <1>2, <1>4
<1>8. SubSeq(all, 1, m) \o SubSeq(all, m + 1, Len(all)) = SubSeq(all, 1, Len(all))
  BY <1>2, <1>7, ConcatAdjacentSubSeq
<1>9. SubSeq(all, 1, Len(all)) = all
  BY <1>2, SubSeqFull
<1> QED BY <1>5, <1>6, <1>8, <1>9 DEF all

(***************************************************************************)
(* A channel that keeps its bounds: the buffers are whole words, next stays *)
(* within the buffer, the contents of espdma_buf lie in it, and on their    *)
(* way to memory they begin at a word, on their way to the device they end  *)
(* at one.  A buffer that owes bytes is empty.                              *)
(***************************************************************************)
Sane(c) ==
  /\ c \in Channel
  /\ Idx(c) \in 0..Burst
  /\ c.debt > 0 => Len(c.pend) = 0
  /\ Multiple(c.next) /\ Multiple(c.limit) /\ Multiple(c.start) /\ Multiple(c.stop)
  /\ c.next <= c.limit /\ c.start <= c.stop
  /\ c.dev2m => Multiple(Idx(c))
  /\ ~c.dev2m => Multiple(c.fill)

LEMMA ResetSane == Sane(ChannelReset)
<1>1. ChannelReset \in Channel
  <2>1. << >> \in Seq(Int) /\ 0 \in 0..Burst /\ 0 \in 0..Word
    BY EmptySeq, DmaAssumption
  <2> QED BY <2>1 DEF ChannelReset, Channel
<1>2. Idx(ChannelReset) = 0
  BY EmptySeq DEF ChannelReset, Idx, BufSize
<1> QED BY <1>1, <1>2, MultipleZero, EmptySeq, DmaAssumption DEF ChannelReset, Sane

(* Fields that a step leaves alone leave the place of the bytes alone.      *)
LEMMA SameBuffer ==
  ASSUME NEW c \in Channel, NEW t \in Channel,
         t.pend = c.pend, t.fill = c.fill, t.debt = c.debt
  PROVE  Idx(t) = Idx(c) /\ BufSize(t) = BufSize(c)
BY DEF Idx, BufSize

LEMMA InterruptSane ==
  ASSUME NEW c, Sane(c)
  PROVE  LET t == dma_interrupt(c)
         IN /\ Sane(t) /\ t.pend = c.pend /\ t.debt = c.debt /\ t.busexc = c.busexc
<1>. DEFINE t == dma_interrupt(c)
<1>1. c \in Channel
  BY DEF Sane
<1>2. /\ t \in Channel /\ t.pend = c.pend /\ t.debt = c.debt /\ t.busexc = c.busexc
      /\ t.fill = c.fill /\ t.dev2m = c.dev2m /\ t.start = c.start /\ t.stop = c.stop
      /\ (t.next = c.next /\ t.limit = c.limit) \/ (t.next = c.start /\ t.limit = c.stop)
  BY <1>1 DEF dma_interrupt, Channel
<1>. HIDE DEF t
<1>3. Idx(t) = Idx(c)
  BY <1>1, <1>2, SameBuffer
<1> QED BY <1>2, <1>3 DEF Sane, t

LEMMA BusErrorSane ==
  ASSUME NEW c, Sane(c)
  PROVE  LET t == BusError(c)
         IN /\ Sane(t) /\ t.pend = c.pend /\ t.debt = c.debt /\ t.busexc
<1>. DEFINE t == BusError(c)
<1>1. c \in Channel
  BY DEF Sane
<1>2. /\ t \in Channel /\ t.pend = c.pend /\ t.debt = c.debt /\ t.busexc = TRUE
      /\ t.fill = c.fill /\ t.dev2m = c.dev2m /\ t.start = c.start /\ t.stop = c.stop
      /\ t.next = c.next /\ t.limit = c.limit
  BY <1>1 DEF BusError, Channel
<1>. HIDE DEF t
<1>3. Idx(t) = Idx(c)
  BY <1>1, <1>2, SameBuffer
<1> QED BY <1>2, <1>3 DEF Sane, t

LEMMA InitializeSane ==
  ASSUME NEW c, Sane(c), NEW k \in 0..Burst, Multiple(k)
  PROVE  LET t == dma_initialize_buffer(c, k)
         IN Sane(t) /\ t.pend = <<>> /\ t.debt = 0 /\ t.busexc = c.busexc
<1>. DEFINE t == dma_initialize_buffer(c, k)
<1>1. c \in Channel
  BY DEF Sane
<1>0. << >> \in Seq(Int) /\ 0 \in 0..Word
  BY EmptySeq, DmaAssumption
<1>2. /\ t \in Channel /\ t.pend = <<>> /\ t.debt = 0 /\ t.busexc = c.busexc
      /\ t.fill = k /\ t.dev2m = c.dev2m /\ t.start = c.start /\ t.stop = c.stop
      /\ t.next = c.next /\ t.limit = c.limit
  BY <1>0, <1>1 DEF dma_initialize_buffer, Channel
<1>. HIDE DEF t
<1>3. Idx(t) = k
  BY <1>2, EmptySeq DEF Idx, BufSize
<1> QED BY <1>2, <1>3 DEF Sane, t

(* A write to the CSR keeps the bounds when it keeps the direction or       *)
(* initialises the buffer.                                                  *)
LEMMA CsrSane ==
  ASSUME NEW c, Sane(c), NEW cmd,
         "INITBUF" \in cmd \/ (c.dev2m <=> "DEV2M" \in cmd)
  PROVE  LET t == DMA_CSR_Write(c, cmd)
         IN /\ Sane(t) /\ t.busexc = c.busexc
            /\ "INITBUF" \in cmd => t.pend = <<>> /\ t.debt = 0
            /\ "INITBUF" \notin cmd => t.pend = c.pend /\ t.debt = c.debt
<1>. DEFINE on == "SETENABLE" \in cmd \/ (c.enable /\ "RESET" \notin cmd)
            su == "SETSUPDATE" \in cmd \/ (c.supdate /\ "RESET" \notin cmd)
            co == c.complete /\ cmd \cap {"RESET", "CLRCOMPLETE"} = {}
            dm == "DEV2M" \in cmd
            regs == [c EXCEPT !.dev2m = dm, !.enable = on, !.supdate = su, !.complete = co]
            t == DMA_CSR_Write(c, cmd)
<1>1. c \in Channel /\ c.enable \in BOOLEAN /\ c.supdate \in BOOLEAN
      /\ c.complete \in BOOLEAN /\ c.dev2m \in BOOLEAN
  BY DEF Sane, Channel
<1>2. on \in BOOLEAN /\ su \in BOOLEAN /\ co \in BOOLEAN /\ dm \in BOOLEAN
  BY <1>1
<1>3. t = IF "INITBUF" \in cmd THEN dma_initialize_buffer(regs, 0) ELSE regs
  BY DEF DMA_CSR_Write
<1>. HIDE DEF on, su, co, dm, t
<1>4. /\ regs \in Channel /\ regs.pend = c.pend /\ regs.debt = c.debt /\ regs.fill = c.fill
      /\ regs.busexc = c.busexc /\ regs.dev2m = dm /\ regs.start = c.start
      /\ regs.stop = c.stop /\ regs.next = c.next /\ regs.limit = c.limit
  BY <1>1, <1>2 DEF Channel
<1>. HIDE DEF regs
<1>5. CASE "INITBUF" \notin cmd
  <2>1. Idx(regs) = Idx(c)
    BY <1>1, <1>4, SameBuffer
  <2>2. regs.dev2m = c.dev2m
    <3>1. dm <=> c.dev2m
      BY <1>5 DEF dm
    <3>2. dm = c.dev2m
      BY <1>1, <1>2, <3>1, Zenon
    <3> QED BY <1>4, <3>2
  <2> QED BY <1>3, <1>4, <1>5, <2>1, <2>2 DEF Sane, t
<1>6. CASE "INITBUF" \in cmd
  <2>. DEFINE u == dma_initialize_buffer(regs, 0)
  <2>0. << >> \in Seq(Int) /\ 0 \in 0..Word /\ 0 \in 0..Burst
    BY EmptySeq, DmaAssumption
  <2>1. /\ u \in Channel /\ u.pend = <<>> /\ u.debt = 0 /\ u.busexc = c.busexc /\ u.fill = 0
        /\ u.start = c.start /\ u.stop = c.stop /\ u.next = c.next /\ u.limit = c.limit
    BY <1>4, <2>0 DEF dma_initialize_buffer, Channel
  <2>. HIDE DEF u
  <2>2. Idx(u) = 0
    <3>1. Len(u.pend) = 0
      BY <2>1, EmptySeq
    <3>2. BufSize(u) = 0
      BY <2>1, <3>1 DEF BufSize
    <3> QED BY <2>1, <3>2 DEF Idx
  <2>3. t = u
    BY <1>3, <1>6 DEF u
  <2> QED BY <1>6, <2>0, <2>1, <2>2, <2>3, MultipleZero DEF Sane, t
<1> QED BY <1>5, <1>6

(* Programming a buffer of whole words.                                     *)
LEMMA ProgramSane ==
  ASSUME NEW c, Sane(c), NEW a \in Nat, NEW b \in Nat, a <= b, Multiple(a), Multiple(b)
  PROVE  /\ Sane([c EXCEPT !.next = a, !.limit = b])
         /\ Sane([c EXCEPT !.start = a, !.stop = b])
<1>. DEFINE t == [c EXCEPT !.next = a, !.limit = b]
            u == [c EXCEPT !.start = a, !.stop = b]
<1>1. c \in Channel
  BY DEF Sane
<1>2. /\ t \in Channel /\ t.pend = c.pend /\ t.debt = c.debt /\ t.fill = c.fill
      /\ t.dev2m = c.dev2m /\ t.start = c.start /\ t.stop = c.stop
      /\ t.next = a /\ t.limit = b
  BY <1>1 DEF Channel
<1>3. /\ u \in Channel /\ u.pend = c.pend /\ u.debt = c.debt /\ u.fill = c.fill
      /\ u.dev2m = c.dev2m /\ u.start = a /\ u.stop = b
      /\ u.next = c.next /\ u.limit = c.limit
  BY <1>1 DEF Channel
<1>. HIDE DEF t, u
<1>4. Idx(t) = Idx(c) /\ Idx(u) = Idx(c)
  BY <1>1, <1>2, <1>3, SameBuffer
<1>5. Sane(t)
  BY <1>2, <1>4 DEF Sane
<1>6. Sane(u)
  BY <1>3, <1>4 DEF Sane
<1> QED BY <1>5, <1>6 DEF t, u

(* One call of dma_esp_write_memory.                                        *)
LEMMA WriteSane ==
  ASSUME NEW c, Sane(c), c.dev2m, NEW supply \in Nat, NEW reach \in 0..(c.limit - c.next),
         Multiple(reach), NEW bytes \in Seq(Int), Len(bytes) = BytesIn(c, supply, reach)
  PROVE  LET m == BytesOut(c, supply, reach)
             t == [Buffered(c, bytes, m, FillAfter(c, supply, reach)) EXCEPT !.next = c.next + m]
         IN /\ Sane(t) /\ t.pend = Staying(c, bytes, m) /\ t.busexc = c.busexc
            /\ c.debt = 0 => t.debt = 0
<1>. DEFINE n == BytesIn(c, supply, reach)
            m == BytesOut(c, supply, reach)
            f == FillAfter(c, supply, reach)
            p == Staying(c, bytes, m)
            e == c.debt - Swallowed(c, bytes)
            x == c.next + m
            t == [Buffered(c, bytes, m, f) EXCEPT !.next = x]
<1>1. c \in Channel /\ Idx(c) \in 0..Burst /\ Multiple(Idx(c)) /\ c.debt \in 0..Word
      /\ c.next \in Nat /\ c.limit \in Nat /\ BufSize(c) \in Int
  BY ChannelParts DEF Sane
<1>2. reach \in Nat
  BY <1>1
<1>3. /\ n \in 0..supply /\ m \in 0..reach /\ (m = 0 \/ m <= BufSize(c) + n)
      /\ f \in 0..Burst /\ f - (BufSize(c) + n - m) \in 0..Burst
  BY <1>1, <1>2, MovedBounds
<1>4. Multiple(m) /\ Multiple(f - (BufSize(c) + n - m))
  BY <1>1, <1>2, MovedWordsOut
<1>5. n = Len(bytes)
  OBVIOUS
<1>. HIDE DEF n, m, f
<1>6. m \in Nat
  BY <1>2, <1>3
<1>7. /\ p \in Seq(Int) /\ Swallowed(c, bytes) \in 0..c.debt
      /\ Len(p) - e = BufSize(c) + n - m
      /\ (c.debt > 0 => Len(c.pend) = 0) => (e > 0 => Len(p) = 0)
  BY <1>1, <1>3, <1>5, <1>6, BufferedType
<1>8. e \in 0..Word /\ (c.debt = 0 => e = 0)
  <2>1. PICK w \in 0..c.debt : w = Swallowed(c, bytes)
    BY <1>7
  <2>2. e = c.debt - w
    BY <2>1
  <2>. HIDE DEF e
  <2> QED BY <1>1, <2>2, DmaAssumption
<1>9. x \in Nat /\ x <= c.limit /\ Multiple(x)
  <2>1. Multiple(c.next) /\ Multiple(m) /\ c.next \in Int /\ m \in Int
    BY <1>1, <1>3, <1>4, <1>6 DEF Sane
  <2>2. Multiple(x)
    BY <2>1, Multiples
  <2> QED BY <1>1, <1>3, <1>6, <2>2
<1>10. t = [[c EXCEPT !.pend = p, !.fill = f, !.debt = e] EXCEPT !.next = x]
  BY DEF Buffered
<1>. HIDE DEF p, e, x, t
<1>11. /\ t \in Channel /\ t.pend = p /\ t.debt = e /\ t.fill = f /\ t.next = x
       /\ t.busexc = c.busexc /\ t.dev2m = c.dev2m /\ t.start = c.start
       /\ t.stop = c.stop /\ t.limit = c.limit
  BY <1>1, <1>3, <1>7, <1>8, <1>9, <1>10 DEF Channel
<1>12. Idx(t) = f - (BufSize(c) + n - m)
  BY <1>7, <1>11 DEF Idx, BufSize
<1>13. Sane(t)
  BY <1>3, <1>4, <1>7, <1>9, <1>11, <1>12 DEF Sane
<1> QED BY <1>8, <1>11, <1>13 DEF t, m, f, p, x

(* One call of dma_esp_read_memory whose loop is entered.                   *)
LEMMA ReadSane ==
  ASSUME NEW c, Sane(c), ~c.dev2m, NEW room \in Nat, NEW reach \in 0..(c.limit - c.next),
         Multiple(reach), NEW bytes \in Seq(Int), Len(bytes) = BytesIn(c, reach, room)
  PROVE  LET m == BytesOut(c, reach, room)
             t == [Buffered(c, bytes, m, FillAfter(c, reach, room))
                     EXCEPT !.next = c.next + Len(bytes)]
         IN /\ Sane(t) /\ t.pend = Staying(c, bytes, m) /\ t.busexc = c.busexc
            /\ c.debt = 0 => t.debt = 0
<1>. DEFINE n == BytesIn(c, reach, room)
            m == BytesOut(c, reach, room)
            f == FillAfter(c, reach, room)
            p == Staying(c, bytes, m)
            e == c.debt - Swallowed(c, bytes)
            x == c.next + Len(bytes)
            t == [Buffered(c, bytes, m, f) EXCEPT !.next = x]
<1>1. c \in Channel /\ Idx(c) \in 0..Burst /\ Multiple(c.fill) /\ c.debt \in 0..Word
      /\ c.next \in Nat /\ c.limit \in Nat /\ BufSize(c) \in Int
  BY ChannelParts DEF Sane
<1>2. reach \in Nat
  BY <1>1
<1>3. /\ n \in 0..reach /\ m \in 0..room /\ (m = 0 \/ m <= BufSize(c) + n)
      /\ f \in 0..Burst /\ f - (BufSize(c) + n - m) \in 0..Burst
  BY <1>1, <1>2, MovedBounds
<1>4. Multiple(n) /\ Multiple(f)
  BY <1>1, <1>2, MovedWordsIn
<1>5. n = Len(bytes)
  OBVIOUS
<1>. HIDE DEF n, m, f
<1>6. m \in Nat
  BY <1>3
<1>7. /\ p \in Seq(Int) /\ Swallowed(c, bytes) \in 0..c.debt
      /\ Len(p) - e = BufSize(c) + n - m
      /\ (c.debt > 0 => Len(c.pend) = 0) => (e > 0 => Len(p) = 0)
  BY <1>1, <1>3, <1>5, <1>6, BufferedType
<1>8. e \in 0..Word /\ (c.debt = 0 => e = 0)
  <2>1. PICK w \in 0..c.debt : w = Swallowed(c, bytes)
    BY <1>7
  <2>2. e = c.debt - w
    BY <2>1
  <2>. HIDE DEF e
  <2> QED BY <1>1, <2>2, DmaAssumption
<1>9. x \in Nat /\ x <= c.limit /\ Multiple(x)
  <2>1. Multiple(c.next) /\ Multiple(Len(bytes)) /\ c.next \in Int /\ Len(bytes) \in Int
    BY <1>1, <1>3, <1>4, <1>5 DEF Sane
  <2>2. Multiple(x)
    BY <2>1, Multiples
  <2> QED BY <1>1, <1>3, <1>5, <2>2
<1>10. t = [[c EXCEPT !.pend = p, !.fill = f, !.debt = e] EXCEPT !.next = x]
  BY DEF Buffered
<1>. HIDE DEF p, e, x, t
<1>11. /\ t \in Channel /\ t.pend = p /\ t.debt = e /\ t.fill = f /\ t.next = x
       /\ t.busexc = c.busexc /\ t.dev2m = c.dev2m /\ t.start = c.start
       /\ t.stop = c.stop /\ t.limit = c.limit
  BY <1>1, <1>3, <1>7, <1>8, <1>9, <1>10 DEF Channel
<1>12. Idx(t) = f - (BufSize(c) + n - m)
  BY <1>7, <1>11 DEF Idx, BufSize
<1>13. Sane(t)
  BY <1>3, <1>4, <1>7, <1>9, <1>11, <1>12 DEF Sane
<1> QED BY <1>8, <1>11, <1>13 DEF t, m, f, p, x

(* A flush with a word of room.                                             *)
LEMMA FlushSane ==
  ASSUME NEW c, Sane(c), c.dev2m, c.next < c.limit
  PROVE  LET t == Flushed(c)
         IN /\ Sane(t) /\ t.busexc = c.busexc
            /\ FlushedBytes(c) \in Seq(Int)
            /\ ~FlushPads(c) => t.debt = c.debt /\ FlushedBytes(c) \o t.pend = c.pend
<1>. DEFINE k == Len(c.pend)
            p == IF k <= Word THEN <<>> ELSE SubSeq(c.pend, Word + 1, k)
            e == IF FlushPads(c) THEN Word - k ELSE c.debt
            x == c.next + Word
            t == Flushed(c)
<1>1. /\ c \in Channel /\ Idx(c) \in 0..Burst /\ Multiple(Idx(c)) /\ c.debt \in 0..Word
      /\ c.next \in Nat /\ c.limit \in Nat /\ k \in Nat /\ c.pend \in Seq(Int)
      /\ c.fill \in 0..Burst /\ Multiple(c.next) /\ Multiple(c.limit)
      /\ Idx(c) = c.fill - (k - c.debt)
  BY ChannelParts DEF Sane, Idx, BufSize
<1>0. Word \in Nat \ {0} /\ Burst \in Nat \ {0} /\ Junk \in Int /\ Multiple(Word)
  <2>1. Word = 1 * Word /\ 1 \in Int
    BY DmaAssumption
  <2> QED BY <2>1, DmaAssumption, JunkAssumption DEF Multiple
<1>2. c.limit - c.next >= Word
  <2>2. c.next \in Int /\ c.limit \in Int /\ Multiple(c.next) /\ Multiple(c.limit)
    BY <1>1
  <2>0. Multiple(c.limit - c.next)
    BY <2>2, Multiples
  <2>1. Multiple(c.limit - c.next) /\ c.limit - c.next \in Int /\ c.limit - c.next > 0
    BY <1>1, <2>0
  <2> QED BY <2>1, MultipleStep
<1>3. x \in Nat /\ x <= c.limit /\ Multiple(x)
  <2>0. c.next \in Int /\ Word \in Int /\ Multiple(c.next) /\ Multiple(Word)
    BY <1>0, <1>1
  <2>1. Multiple(c.next + Word)
    BY <2>0, Multiples
  <2> QED BY <1>0, <1>1, <1>2, <2>1
<1>4. c.pend = <<>> <=> k = 0
  BY <1>1, EmptySeq
<1>5. k > 0 => c.debt = 0
  BY <1>1 DEF Sane
<1>6. FlushedBytes(c) \in Seq(Int)
  <2>1. \A i \in 1..k : c.pend[i] \in Int
    BY <1>1, ElementOfSeq
  <2>2. [i \in 1..Word |-> IF i <= k THEN c.pend[i] ELSE Junk] \in [1..Word -> Int]
    BY <1>0, <1>1, <2>1
  <2>3. [i \in 1..Word |-> IF i <= k THEN c.pend[i] ELSE Junk] \in Seq(Int)
    BY <1>0, <2>2
  <2> QED BY <2>3, EmptySeq DEF FlushedBytes
<1>7. p \in Seq(Int) /\ Len(p) = IF k <= Word THEN 0 ELSE k - Word
  <2>1. CASE k <= Word
    BY <2>1, EmptySeq
  <2>2. CASE ~(k <= Word)
    <3>1. \A i \in (Word + 1)..k : c.pend[i] \in Int
      BY <1>0, <1>1, ElementOfSeq
    <3> QED BY <1>0, <1>1, <2>2, <3>1, SubSeqProperties
  <2> QED BY <2>1, <2>2
<1>8. FlushPads(c) <=> k > 0 /\ k < Word
  BY <1>1, <1>4 DEF FlushPads
<1>9. e \in 0..Word /\ (e > 0 => Len(p) = 0)
  BY <1>0, <1>1, <1>5, <1>7, <1>8
<1>10. t = [c EXCEPT !.pend = p, !.debt = e, !.next = x]
  BY DEF Flushed
<1>11. FlushPads(c) \/ FlushedBytes(c) \o p = c.pend
  <2>1. CASE k = 0
    <3>1. FlushedBytes(c) = <<>> /\ p = <<>> /\ c.pend = <<>>
      BY <1>0, <1>4, <2>1 DEF FlushedBytes
    <3> QED BY <3>1, EmptySeq, ConcatEmptySeq
  <2>2. CASE k >= Word
    <3>1. FlushedBytes(c) = SubSeq(c.pend, 1, Word)
      <4>1. FlushedBytes(c) = [i \in 1..Word |-> IF i <= k THEN c.pend[i] ELSE Junk]
        BY <1>0, <1>4, <2>2 DEF FlushedBytes
      <4>2. \A i \in 1..Word : c.pend[i] \in Int
        BY <1>0, <1>1, <2>2, ElementOfSeq
      <4>3. /\ SubSeq(c.pend, 1, Word) \in Seq(Int) /\ Len(SubSeq(c.pend, 1, Word)) = Word
            /\ \A i \in 1..Word : SubSeq(c.pend, 1, Word)[i] = c.pend[i]
        <5>1. /\ SubSeq(c.pend, 1, Word) \in Seq(Int)
              /\ Len(SubSeq(c.pend, 1, Word)) = IF 1 <= Word THEN Word - 1 + 1 ELSE 0
              /\ \A i \in 1..(Word - 1 + 1) : SubSeq(c.pend, 1, Word)[i] = c.pend[1 + i - 1]
          BY <1>0, <4>2, SubSeqProperties
        <5> QED BY <1>0, <5>1
      <4>4. Len(FlushedBytes(c)) = Word /\ \A i \in 1..Word : FlushedBytes(c)[i] = c.pend[i]
        BY <1>0, <1>1, <2>2, <4>1
      <4> QED BY <1>6, <4>3, <4>4, SeqEqual
    <3>2. p = SubSeq(c.pend, Word + 1, k)
      <4>1. CASE k = Word
        BY <1>0, <1>1, <4>1, SubSeqEmpty
      <4>2. CASE k > Word
        BY <1>0, <1>1, <4>2
      <4> QED BY <1>0, <1>1, <2>2, <4>1, <4>2
    <3>3. SubSeq(c.pend, 1, Word) \o SubSeq(c.pend, Word + 1, k) = SubSeq(c.pend, 1, k)
      <4>1. 1 \in 1..(Len(c.pend) + 1) /\ Word \in (1 - 1)..Len(c.pend) /\ k \in Word..Len(c.pend)
        BY <1>0, <1>1, <2>2
      <4> QED BY <1>1, <4>1, ConcatAdjacentSubSeq
    <3>4. SubSeq(c.pend, 1, k) = c.pend
      BY <1>1, SubSeqFull
    <3> QED BY <3>1, <3>2, <3>3, <3>4
  <2>3. CASE k > 0 /\ k < Word
    BY <1>8, <2>3
  <2>4. k = 0 \/ k >= Word \/ (k > 0 /\ k < Word)
    BY <1>0, <1>1
  <2> QED BY <2>1, <2>2, <2>3, <2>4
<1>. HIDE DEF p, e, x, t
<1>12. /\ t \in Channel /\ t.pend = p /\ t.debt = e /\ t.fill = c.fill /\ t.next = x
       /\ t.busexc = c.busexc /\ t.dev2m = c.dev2m /\ t.start = c.start
       /\ t.stop = c.stop /\ t.limit = c.limit
  BY <1>1, <1>3, <1>7, <1>9, <1>10 DEF Channel
<1>13. Idx(t) = c.fill - (Len(p) - e)
  BY <1>12 DEF Idx, BufSize
<1>14. CASE k = 0
  <2>1. e = c.debt
    BY <1>8, <1>14 DEF e
  <2>2. Idx(t) = Idx(c)
    BY <1>0, <1>1, <1>7, <1>13, <1>14, <2>1
  <2>3. Sane(t)
    BY <1>1, <1>3, <1>9, <1>12, <2>2 DEF Sane
  <2> QED BY <1>6, <1>8, <1>11, <1>12, <1>14, <2>1, <2>3 DEF t
<1>15. CASE k > 0
  <2>1. c.debt = 0
    BY <1>5, <1>15
  <2>2. e = IF k < Word THEN Word - k ELSE 0
    BY <1>8, <1>15, <2>1 DEF e
  <2>3. Idx(t) = Idx(c) + Word
    <3>1. Len(p) - e = k - Word
      <4>1. CASE k < Word
        BY <1>0, <1>1, <1>7, <2>2, <4>1
      <4>2. CASE k = Word
        <5>1. Len(p) = 0 /\ e = 0 /\ k - Word = 0
          BY <1>0, <1>7, <2>2, <4>2
        <5> QED BY <5>1
      <4>3. CASE k > Word
        <5>1. Len(p) = k - Word /\ e = 0 /\ k - Word \in Int
          BY <1>0, <1>1, <1>7, <2>2, <4>3
        <5> QED BY <5>1
      <4> QED BY <1>0, <1>1, <4>1, <4>2, <4>3
    <3>2. Idx(c) = c.fill - k
      BY <1>1, <2>1
    <3> QED BY <1>0, <1>1, <1>13, <3>1, <3>2
  <2>4. Multiple(Idx(c) + Word)
    BY <1>0, <1>1, Multiples
  <2>5. Idx(c) + Word <= Burst
    <3>1. Idx(c) < Burst
      BY <1>0, <1>1, <1>15, <2>1
    <3>0. Multiple(Burst - Idx(c))
      BY <1>1, MultipleBurst, Multiples
    <3>2. Multiple(Burst - Idx(c)) /\ Burst - Idx(c) \in Int /\ Burst - Idx(c) > 0
      BY <1>0, <1>1, <3>0, <3>1
    <3> QED BY <1>0, <1>1, <3>2, MultipleStep
  <2>6. Sane(t)
    BY <1>0, <1>1, <1>3, <1>9, <1>12, <2>3, <2>4, <2>5 DEF Sane
  <2>7. ~FlushPads(c) => t.debt = c.debt
    BY <1>12 DEF e
  <2> QED BY <1>6, <1>11, <1>12, <2>6, <2>7 DEF t
<1> QED BY <1>1, <1>14, <1>15
================================================================================
