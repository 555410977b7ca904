----------------------------- MODULE DmaLoopProofs -----------------------------
(***************************************************************************)
(* The loops of dma_esp_write_memory and dma_esp_read_memory move what Dma  *)
(* says, and end, for every size of word and burst, every number of bytes   *)
(* that the device gives or takes and every point where memory fails.  Each *)
(* loop is a state machine whose one variable is the loop's record.         *)
(***************************************************************************)
EXTENDS DmaLoop, DmaProofs

(***************************************************************************)
(* Multiples of a burst.                                                    *)
(***************************************************************************)
Bursts(b) == \E q \in Int : b = q * Burst

LEMMA BurstsNext == ASSUME NEW b \in Int, Bursts(b) PROVE Bursts(b + Burst)
<1>1. PICK q \in Int : b = q * Burst
  BY DEF Bursts
<1>2. b + Burst = (q + 1) * Burst /\ q + 1 \in Int
  BY <1>1, DmaAssumption
<1> QED BY <1>2 DEF Bursts

(* A multiple that is more than another is more by a burst *)
LEMMA BurstsApart ==
  ASSUME NEW a \in Int, NEW b \in Int, Bursts(a), Bursts(b), a > b
  PROVE  a >= b + Burst
<1>1. PICK p \in Int : a = p * Burst
  BY DEF Bursts
<1>2. PICK q \in Int : b = q * Burst
  BY DEF Bursts
<1> QED BY <1>1, <1>2, NextMultiple, DmaAssumption

LEMMA BurstsZero == Bursts(0) /\ Bursts(0 - Burst)
<1>1. 0 = 0 * Burst /\ 0 - Burst = (0 - 1) * Burst /\ 0 \in Int /\ 0 - 1 \in Int
  BY DmaAssumption
<1> QED BY <1>1 DEF Bursts

(* What lies less than a burst above a multiple is the remainder *)
LEMMA BurstsRest ==
  ASSUME NEW a \in Int, NEW b \in Int, Bursts(b), a - b \in 0..(Burst - 1)
  PROVE  a % Burst = a - b
<1>. DEFINE r == a % Burst
<1>1. Burst \in Nat \ {0}
  BY DmaAssumption
<1>2. PICK q \in Int : a = q * Burst + r
  BY <1>1, ModQuotient
<1>3. r \in 0..(Burst - 1)
  BY <1>1, ModRange
<1>. HIDE DEF r
<1>4. a - r = q * Burst /\ a - r \in Int
  BY <1>1, <1>2, <1>3
<1>5. Bursts(a - r)
  BY <1>4 DEF Bursts
<1>6. ~(a - r > b)
  BY <1>1, <1>3, <1>4, <1>5, BurstsApart
<1>7. ~(b > a - r)
  BY <1>1, <1>3, <1>4, <1>5, BurstsApart
<1> QED BY <1>1, <1>3, <1>4, <1>6, <1>7 DEF r

LEMMA BurstsFloor ==
  ASSUME NEW a \in Int
  PROVE  Bursts(a - (a % Burst)) /\ a % Burst \in 0..(Burst - 1)
<1>1. Burst \in Nat \ {0}
  BY DmaAssumption
<1>2. PICK q \in Int : a = q * Burst + (a % Burst)
  BY <1>1, ModQuotient
<1>3. a % Burst \in 0..(Burst - 1)
  BY <1>1, ModRange
<1>4. a - (a % Burst) = q * Burst
  BY <1>1, <1>2, <1>3
<1> QED BY <1>3, <1>4 DEF Bursts

LEMMA MultipleWord == Word \in Int /\ Multiple(Word)
<1>1. Word = 1 * Word /\ 1 \in Int
  BY DmaAssumption
<1>2. Multiple(Word)
  BY <1>1, Zenon DEF Multiple
<1> QED BY <1>2, DmaAssumption

(***************************************************************************)
(* What holds at every place of both loops.  The bytes come from Stream:    *)
(* those pending before the call and those of the source, less what a flush *)
(* wrote too much.  b is how much the bursts begun before this one hold     *)
(* beyond the first, -Burst while the first is in the buffer.               *)
(***************************************************************************)
Loops ==
  [at : {"top", "fill", "empty", "done", "fault"}, limit : 0..Burst, size : Int,
   read : Nat, wrote : Seq(Int), buf : [0..(Burst - 1) -> Int]]

Stream(c, source) == c.pend \o source

Places(c, l) ==
  /\ l.size = BufSize(c) + l.read - Len(l.wrote)
  /\ l.limit - l.size \in 0..Burst

InBurst(c, l, b) ==
  /\ Bursts(b) /\ b >= 0 - Burst
  /\ l.limit = l.read - (Burst - c.fill) - b
  /\ l.limit < Burst => Len(l.wrote) = IF b < 0 THEN 0 ELSE FirstBurst(c) + b
  /\ b >= 0 => Len(l.wrote) >= FirstBurst(c) + b

Ordered(c, l, source) ==
  /\ \A i \in 1..Len(l.wrote) : l.wrote[i] = Stream(c, source)[c.debt + i]
  /\ \A i \in 0..(l.size - 1) :
        l.buf[l.limit - l.size + i] = Stream(c, source)[c.debt + Len(l.wrote) + i + 1]

LoopOK(c, l, source, room) ==
  /\ l \in Loops
  /\ l.read <= Len(source) /\ Len(l.wrote) <= room
  /\ Places(c, l)
  /\ \E b \in Int : InBurst(c, l, b)
  /\ Ordered(c, l, source)

LEMMA LoopParts ==
  ASSUME NEW l \in Loops
  PROVE  /\ l.limit \in 0..Burst /\ l.size \in Int /\ l.read \in Nat
         /\ l.wrote \in Seq(Int) /\ Len(l.wrote) \in Nat
         /\ l.buf \in [0..(Burst - 1) -> Int]
         /\ l.at \in {"top", "fill", "empty", "done", "fault"}
BY DEF Loops

LEMMA StreamParts ==
  ASSUME NEW c \in Channel, NEW source \in Seq(Int)
  PROVE  /\ Stream(c, source) \in Seq(Int)
         /\ Len(Stream(c, source)) = Len(c.pend) + Len(source)
         /\ \A i \in 1..Len(c.pend) : Stream(c, source)[i] = c.pend[i]
         /\ \A i \in 1..Len(source) : Stream(c, source)[Len(c.pend) + i] = source[i]
<1>1. c.pend \in Seq(Int) /\ Len(c.pend) \in Nat /\ Len(source) \in Nat
  BY ChannelParts
<1>2. /\ Stream(c, source) \in Seq(Int)
      /\ Len(Stream(c, source)) = Len(c.pend) + Len(source)
      /\ \A i \in 1..(Len(c.pend) + Len(source)) : Stream(c, source)[i] =
            IF i <= Len(c.pend) THEN c.pend[i] ELSE source[i - Len(c.pend)]
  BY <1>1, ConcatProperties DEF Stream
<1>3. ASSUME NEW i \in 1..Len(c.pend) PROVE Stream(c, source)[i] = c.pend[i]
  BY <1>1, <1>2
<1>4. ASSUME NEW i \in 1..Len(source) PROVE Stream(c, source)[Len(c.pend) + i] = source[i]
  <2>. DEFINE j == Len(c.pend) + i
  <2>1. j \in 1..(Len(c.pend) + Len(source)) /\ ~(j <= Len(c.pend)) /\ j - Len(c.pend) = i
    BY <1>1
  <2>. HIDE DEF j
  <2>2. Stream(c, source)[j] = source[i]
    BY <1>2, <2>1
  <2> QED BY <2>2 DEF j
<1> QED BY <1>2, <1>3, <1>4

(* A call begins in the first burst *)
LEMMA EnterOK ==
  ASSUME NEW c, Sane(c), NEW source \in Seq(Int), NEW room \in Nat
  PROVE  /\ LoopOK(c, EnterLoop(c), source, room)
         /\ EnterLoop(c).at = "top" /\ EnterLoop(c).read = 0 /\ Len(EnterLoop(c).wrote) = 0
         /\ EnterLoop(c).limit = c.fill
         /\ EnterLoop(c).limit - EnterLoop(c).size = Idx(c)
<1>. DEFINE l == EnterLoop(c)
            k == Len(c.pend)
            p == c.fill - k
            z == BufSize(c)
            bf == [i \in 0..(Burst - 1) |-> IF i - p \in 0..(k - 1) THEN c.pend[i - p + 1] ELSE Junk]
<1>1. /\ c \in Channel /\ c.fill \in 0..Burst /\ c.debt \in Nat /\ c.pend \in Seq(Int)
      /\ k \in Nat /\ z \in Int /\ Idx(c) \in 0..Burst /\ Burst \in Nat \ {0}
      /\ Idx(c) = c.fill - z /\ z = k - c.debt /\ p \in Int /\ p = c.fill - k
  BY ChannelParts, DmaAssumption DEF Sane, Idx, BufSize
<1>3. l = [at |-> "top", limit |-> c.fill, size |-> z, read |-> 0, wrote |-> <<>>, buf |-> bf]
  BY DEF EnterLoop
<1>2. bf \in [0..(Burst - 1) -> Int]
  <2>. HIDE DEF p, k
  <2>0. p \in Int /\ k \in Nat /\ Burst \in Nat
    BY <1>1
  <2>1. ASSUME NEW i \in 0..(Burst - 1), i - p \in 0..(k - 1) PROVE c.pend[i - p + 1] \in Int
    <3>1. i - p + 1 \in 1..k
      BY <2>0, <2>1
    <3> QED BY <1>1, <3>1, ElementOfSeq DEF k
  <2> QED BY <2>1, JunkAssumption
<1>. HIDE DEF z, l, p
<1>4. << >> \in Seq(Int) /\ Len(<< >>) = 0
  BY EmptySeq
<1>5. l \in Loops
  BY <1>1, <1>2, <1>3, <1>4 DEF Loops
<1>6. /\ l.at = "top" /\ l.limit = c.fill /\ l.size = z /\ l.read = 0 /\ l.wrote = << >>
      /\ l.buf = bf /\ Len(l.wrote) = 0
  BY <1>3, <1>4
<1>7. Places(c, l)
  BY <1>1, <1>6 DEF Places, z
<1>8. InBurst(c, l, 0 - Burst)
  <2>1. /\ l.limit = l.read - (Burst - c.fill) - (0 - Burst)
        /\ 0 - Burst < 0 /\ ~(0 - Burst >= 0) /\ 0 - Burst >= 0 - Burst
    BY <1>1, <1>6
  <2> QED BY <1>6, <2>1, BurstsZero DEF InBurst
<1>9. Ordered(c, l, source)
  <2>1. ASSUME NEW i \in 0..(l.size - 1)
        PROVE  l.buf[l.limit - l.size + i] = Stream(c, source)[c.debt + Len(l.wrote) + i + 1]
    <3>0. z > 0 /\ i \in Nat /\ i < z
      BY <1>1, <1>6, <2>1
    <3>1. k > 0 /\ c.debt = 0 /\ z = k
      BY <1>1, <3>0 DEF Sane
    <3>. DEFINE j == c.fill - z + i
    <3>2. j \in 0..(Burst - 1) /\ j - p = i /\ i \in 0..(k - 1) /\ i + 1 \in 1..k
      <4>. DEFINE y == c.fill - z
      <4>1. y \in Int /\ y >= 0 /\ p = y /\ j = y + i /\ y + z <= Burst /\ z \in Nat
        BY <1>1, <3>0, <3>1
      <4>. HIDE DEF k, y, j
      <4>2. j \in 0..(Burst - 1)
        BY <1>1, <3>0, <4>1
      <4>3. j - p = i
        BY <3>0, <4>1
      <4>4. i \in 0..(k - 1) /\ i + 1 \in 1..k
        BY <1>1, <3>0, <3>1
      <4> QED BY <4>2, <4>3, <4>4
    <3>. HIDE DEF j
    <3>3. l.buf[j] = c.pend[i + 1]
      <4>1. bf[j] = c.pend[j - p + 1]
        BY <3>2
      <4> QED BY <1>6, <3>2, <4>1
    <3>4. Stream(c, source)[i + 1] = c.pend[i + 1]
      BY <1>1, <3>2, StreamParts
    <3>5. c.debt + Len(l.wrote) + i + 1 = i + 1
      BY <1>6, <3>1, <3>0
    <3>6. l.limit - l.size + i = j
      BY <1>6 DEF j
    <3> QED BY <3>3, <3>4, <3>5, <3>6
  <2>2. 1..Len(l.wrote) = {}
    BY <1>6
  <2> QED BY <2>1, <2>2 DEF Ordered
<1>10. l.read <= Len(source) /\ Len(l.wrote) <= room
  BY <1>6
<1>11. 0 - Burst \in Int /\ l.limit - l.size = Idx(c)
  BY <1>1, <1>6
<1> QED BY <1>5, <1>6, <1>7, <1>8, <1>9, <1>10, <1>11 DEF LoopOK, l

(* A change of place, nothing more *)
LEMMA GotoOK ==
  ASSUME NEW c, NEW l, NEW source, NEW room, LoopOK(c, l, source, room),
         NEW place \in {"top", "fill", "empty", "done", "fault"}
  PROVE  LET t == Goto(l, place)
         IN /\ LoopOK(c, t, source, room)
            /\ t.at = place /\ t.limit = l.limit /\ t.size = l.size /\ t.read = l.read
            /\ t.wrote = l.wrote
<1>. DEFINE t == Goto(l, place)
<1>1. l \in Loops
  BY DEF LoopOK
<1>2. /\ t \in Loops /\ t.at = place /\ t.limit = l.limit /\ t.size = l.size
      /\ t.read = l.read /\ t.wrote = l.wrote /\ t.buf = l.buf
  BY <1>1 DEF Goto, Loops
<1>. HIDE DEF t
<1>3. Places(c, t)
  BY <1>2 DEF LoopOK, Places
<1>4. PICK b \in Int : InBurst(c, l, b)
  BY DEF LoopOK
<1>5. InBurst(c, t, b)
  BY <1>2, <1>4 DEF InBurst
<1>6. Ordered(c, t, source)
  BY <1>2 DEF LoopOK, Ordered
<1> QED BY <1>2, <1>3, <1>5, <1>6 DEF LoopOK, t

(* Bytes of the source enter behind those in the buffer *)
LEMMA FetchOK ==
  ASSUME NEW c \in Channel, NEW l, NEW source \in Seq(Int), NEW room,
         LoopOK(c, l, source, room), NEW n \in Nat, n >= 1,
         l.limit + n <= Burst, l.read + n <= Len(source)
  PROVE  LET t == Fetch(l, source, n)
         IN /\ LoopOK(c, t, source, room)
            /\ t.at = l.at /\ t.limit = l.limit + n /\ t.size = l.size + n
            /\ t.read = l.read + n /\ t.wrote = l.wrote
<1>. DEFINE t == Fetch(l, source, n)
            w == Len(l.wrote)
            k == Len(c.pend)
            len == Len(source)
            lim == l.limit
            sz == l.size
            rd == l.read
            from == lim - sz
            bf == [i \in 0..(Burst - 1) |-> IF i \in lim..(lim + n - 1)
                                             THEN source[rd + i - lim + 1] ELSE l.buf[i]]
<1>1. l \in Loops /\ Burst \in Nat \ {0} /\ len \in Nat /\ k \in Nat /\ c.debt \in Nat
  BY ChannelParts, DmaAssumption DEF LoopOK
<1>2. lim \in 0..Burst /\ sz \in Int /\ rd \in Nat /\ w \in Nat /\ l.wrote \in Seq(Int)
      /\ l.buf \in [0..(Burst - 1) -> Int]
  BY <1>1, LoopParts
<1>3. /\ sz = k - c.debt + rd - w /\ from \in 0..Burst /\ rd <= len
      /\ lim + n <= Burst /\ rd + n <= len
  BY DEF LoopOK, Places, BufSize
<1>4. t = [l EXCEPT !.limit = lim + n, !.size = sz + n, !.read = rd + n, !.buf = bf]
  BY DEF Fetch
<1>. HIDE DEF t, w, k, len, lim, sz, rd, from
<1>5. bf \in [0..(Burst - 1) -> Int]
  <2>1. ASSUME NEW i \in 0..(Burst - 1), i \in lim..(lim + n - 1) PROVE source[rd + i - lim + 1] \in Int
    <3>1. rd + i - lim + 1 \in 1..len
      BY <1>1, <1>2, <1>3, <2>1
    <3> QED BY <3>1, ElementOfSeq DEF len
  <2> QED BY <1>2, <2>1
<1>6. lim + n \in 0..Burst /\ sz + n \in Int /\ rd + n \in Nat
  BY <1>1, <1>2, <1>3
<1>7. /\ t \in Loops /\ t.at = l.at /\ t.limit = lim + n /\ t.size = sz + n
      /\ t.read = rd + n /\ t.wrote = l.wrote /\ t.buf = bf
  BY <1>1, <1>4, <1>5, <1>6 DEF Loops
<1>8. Places(c, t)
  <2>0. BufSize(c) = k - c.debt /\ k - c.debt \in Int /\ sz = k - c.debt + rd - w
    BY <1>1, <1>3 DEF BufSize, k
  <2>1. sz + n = BufSize(c) + (rd + n) - w
    BY <1>2, <2>0
  <2>2. (lim + n) - (sz + n) = from
    BY <1>2 DEF from
  <2> QED BY <1>3, <1>7, <2>1, <2>2 DEF Places, w
<1>9. PICK b \in Int : InBurst(c, l, b)
  BY DEF LoopOK
<1>10. InBurst(c, t, b)
  <2>0. c.fill \in Int
    BY ChannelParts, <1>1
  <2>1. lim = rd - (Burst - c.fill) - b
    BY <1>9 DEF InBurst, lim, rd
  <2>2. lim + n = (rd + n) - (Burst - c.fill) - b
    BY <1>1, <1>2, <2>0, <2>1
  <2>3. lim + n < Burst => lim < Burst
    BY <1>1, <1>2
  <2> QED BY <1>7, <1>9, <2>2, <2>3 DEF InBurst, lim
<1>11. Ordered(c, t, source)
  <2>1. ASSUME NEW i \in 0..(sz + n - 1)
        PROVE  bf[from + i] = Stream(c, source)[c.debt + w + i + 1]
    <3>. DEFINE j == lim - sz + i
                h == rd + j - lim + 1
    <3>1. /\ i \in Nat /\ i < sz + n /\ lim \in Nat /\ lim - sz >= 0
      BY <1>1, <1>2, <1>3, <2>1 DEF from
    <3>2. /\ j \in 0..(Burst - 1)
          /\ i < sz => j < lim
          /\ i >= sz => /\ j \in lim..(lim + n - 1) /\ h \in 1..len
                        /\ c.debt + w + i + 1 = k + h
      <4>. DEFINE d == c.debt
      <4>1. d \in Nat /\ sz = k - d + rd - w
        BY <1>1, <1>3
      <4>. HIDE DEF d
      <4>2. /\ lim \in Nat /\ sz \in Int /\ rd \in Nat /\ w \in Nat /\ k \in Nat
            /\ i \in Nat /\ len \in Nat /\ lim - sz >= 0 /\ lim + n <= Burst
            /\ rd + n <= len /\ i < sz + n
        BY <1>1, <1>2, <1>3, <3>1
      <4>3. j \in 0..(Burst - 1)
        BY <4>2, DmaAssumption
      <4>4. i < sz => j < lim
        BY <4>2
      <4>5. ASSUME i >= sz
            PROVE  j \in lim..(lim + n - 1) /\ h \in 1..len /\ d + w + i + 1 = k + h
        <5>1. j \in lim..(lim + n - 1)
          BY <4>2, <4>5
        <5>2. h = rd + i - sz + 1
          BY <4>2
        <5>. HIDE DEF h
        <5>3. h \in 1..len
          BY <4>2, <4>5, <5>2
        <5>4. d + w + i + 1 = k + h
          BY <4>1, <4>2, <5>2
        <5> QED BY <5>1, <5>3, <5>4
      <4> QED BY <4>3, <4>4, <4>5 DEF d
    <3>. HIDE DEF j, h
    <3>3. CASE i < sz
      <4>1. j < lim /\ i \in 0..(sz - 1)
        BY <1>2, <3>1, <3>2, <3>3
      <4>2. bf[j] = l.buf[j]
        BY <1>2, <3>2, <4>1
      <4>3. l.buf[l.limit - l.size + i] = Stream(c, source)[c.debt + Len(l.wrote) + i + 1]
        BY <4>1 DEF LoopOK, Ordered, sz
      <4> QED BY <4>2, <4>3 DEF j, from, lim, sz, w
    <3>4. CASE i >= sz
      <4>2. bf[j] = source[h]
        BY <3>2, <3>4 DEF h
      <4>3. Stream(c, source)[k + h] = source[h]
        BY <3>2, <3>4, StreamParts DEF len, k
      <4> QED BY <3>2, <3>4, <4>2, <4>3 DEF j, from
    <3> QED BY <1>2, <3>1, <3>3, <3>4
  <2>2. t.limit - t.size = from
    BY <1>2, <1>7 DEF from
  <2>3. \A i \in 1..w : l.wrote[i] = Stream(c, source)[c.debt + i]
    BY DEF LoopOK, Ordered, w
  <2>. HIDE DEF bf
  <2>4. ASSUME NEW i \in 0..(t.size - 1)
        PROVE  t.buf[t.limit - t.size + i] = Stream(c, source)[c.debt + Len(t.wrote) + i + 1]
    <3>1. i \in 0..(sz + n - 1)
      <4>1. t.size = sz + n
        BY <1>7
      <4> QED BY <1>2, <2>4, <4>1
    <3>2. bf[from + i] = Stream(c, source)[c.debt + w + i + 1]
      BY <2>1, <3>1
    <3> QED BY <1>7, <2>2, <3>2 DEF w
  <2>5. ASSUME NEW i \in 1..Len(t.wrote) PROVE t.wrote[i] = Stream(c, source)[c.debt + i]
    BY <1>7, <2>3 DEF w
  <2> QED BY <2>4, <2>5 DEF Ordered
<1>12. t.read <= Len(source) /\ Len(t.wrote) <= room
  BY <1>3, <1>7 DEF LoopOK, len
<1> QED BY <1>7, <1>8, <1>10, <1>11, <1>12 DEF LoopOK, t, lim, sz, rd

(* Bytes leave the buffer from its front, once it is full *)
LEMMA StoreOK ==
  ASSUME NEW c \in Channel, NEW l, NEW source \in Seq(Int), NEW room \in Nat,
         LoopOK(c, l, source, room), NEW n \in Nat, n >= 1,
         l.limit = Burst, l.size >= n, Len(l.wrote) + n <= room
  PROVE  LET t == Store(l, Burst - l.size, n)
         IN /\ LoopOK(c, t, source, room)
            /\ t.at = l.at /\ t.limit = l.limit /\ t.size = l.size - n
            /\ t.read = l.read /\ Len(t.wrote) = Len(l.wrote) + n
<1>. DEFINE t == Store(l, Burst - l.size, n)
            w == Len(l.wrote)
            sz == l.size
            from == Burst - sz
            new == [i \in 1..n |-> l.buf[from + i - 1]]
<1>1. l \in Loops /\ Burst \in Nat \ {0}
  BY DmaAssumption DEF LoopOK
<1>2. sz \in Int /\ w \in Nat /\ l.wrote \in Seq(Int) /\ l.buf \in [0..(Burst - 1) -> Int]
      /\ l.read \in Nat
  BY <1>1, LoopParts
<1>3. from \in 0..Burst /\ sz >= n /\ w + n <= room
  BY DEF LoopOK, Places
<1>4. t = [l EXCEPT !.size = sz - n, !.wrote = l.wrote \o new]
  BY DEF Store
<1>0. from \in Int /\ from + sz = Burst /\ from >= 0
  BY <1>1, <1>2, <1>3
<1>. HIDE DEF t, w, sz, from
<1>5. new \in Seq(Int) /\ Len(new) = n
  <2>1. \A i \in 1..n : from + i - 1 \in 0..(Burst - 1)
    BY <1>0, <1>1, <1>2, <1>3
  <2>2. new \in [1..n -> Int]
    BY <1>2, <2>1
  <2> QED BY <2>2
<1>6. ASSUME NEW i \in 0..(sz - 1)
      PROVE  l.buf[from + i] = Stream(c, source)[c.debt + w + i + 1]
  BY <1>6 DEF LoopOK, Ordered, from, sz, w
<1>7. /\ l.wrote \o new \in Seq(Int) /\ Len(l.wrote \o new) = w + n
      /\ \A i \in 1..(w + n) : (l.wrote \o new)[i] = IF i <= w THEN l.wrote[i] ELSE new[i - w]
  BY <1>2, <1>5, ConcatProperties DEF w
<1>8. /\ t \in Loops /\ t.at = l.at /\ t.limit = Burst /\ t.size = sz - n
      /\ t.read = l.read /\ t.wrote = l.wrote \o new /\ Len(t.wrote) = w + n /\ t.buf = l.buf
  <2>. DEFINE all == l.wrote \o new
  <2>1. all \in Seq(Int) /\ Len(all) = w + n /\ t = [l EXCEPT !.size = sz - n, !.wrote = all]
    BY <1>4, <1>7
  <2>2. sz - n \in Int
    BY <1>2
  <2>. HIDE DEF all
  <2>3. /\ t \in Loops /\ t.at = l.at /\ t.limit = Burst /\ t.size = sz - n
        /\ t.read = l.read /\ t.wrote = all /\ t.buf = l.buf
    BY <1>1, <2>1, <2>2 DEF Loops
  <2> QED BY <2>1, <2>3 DEF all
<1>9. Places(c, t)
  <2>. DEFINE z == BufSize(c)
              rd == l.read
  <2>1. z \in Int /\ sz = z + rd - w /\ rd \in Nat
    BY <1>2, ChannelParts DEF LoopOK, Places, w, sz
  <2>. HIDE DEF z, rd
  <2>2. sz - n = z + rd - (w + n)
    BY <1>2, <2>1
  <2>3. Burst - (sz - n) \in 0..Burst
    BY <1>0, <1>1, <1>2, <1>3
  <2> QED BY <1>8, <2>2, <2>3 DEF Places, z, rd
<1>10. PICK b \in Int : InBurst(c, l, b)
  BY DEF LoopOK
<1>11. InBurst(c, t, b)
  <2>1. l.limit = l.read - (Burst - c.fill) - b /\ Bursts(b) /\ b >= 0 - Burst
        /\ (b >= 0 => w >= FirstBurst(c) + b)
    BY <1>10 DEF InBurst, w
  <2>2. FirstBurst(c) + b \in Int
    <3>1. c.fill \in Int /\ BufSize(c) \in Int
      BY <1>1, ChannelParts
    <3> QED BY <1>1, <3>1 DEF FirstBurst
  <2>3. b >= 0 => w + n >= FirstBurst(c) + b
    BY <1>2, <2>1, <2>2
  <2>4. ~(t.limit < Burst)
    BY <1>1, <1>8
  <2> QED BY <1>8, <2>1, <2>3, <2>4 DEF InBurst
<1>12. Ordered(c, t, source)
  <2>. DEFINE d == c.debt
  <2>0. d \in Nat
    BY ChannelParts, DmaAssumption
  <2>. HIDE DEF d
  <2>1. ASSUME NEW i \in 1..(w + n) PROVE t.wrote[i] = Stream(c, source)[d + i]
    <3>1. CASE i <= w
      <4>1. i \in 1..w /\ t.wrote[i] = l.wrote[i]
        BY <1>2, <1>7, <1>8, <3>1
      <4> QED BY <4>1 DEF LoopOK, Ordered, w, d
    <3>2. CASE ~(i <= w)
      <4>. DEFINE j == i - w - 1
      <4>1. /\ j \in 0..(sz - 1) /\ i - w \in 1..n /\ from + (i - w) - 1 = from + j
            /\ d + w + j + 1 = d + i
        BY <1>0, <1>2, <1>3, <2>0, <3>2
      <4>2. t.wrote[i] = l.buf[from + j]
        <5>1. new[i - w] = l.buf[from + (i - w) - 1]
          BY <4>1
        <5> QED BY <1>7, <1>8, <3>2, <4>1, <5>1
      <4>. HIDE DEF j
      <4>3. l.buf[from + j] = Stream(c, source)[d + w + j + 1]
        BY <1>6, <4>1 DEF d
      <4> QED BY <4>1, <4>2, <4>3
    <3> QED BY <3>1, <3>2
  <2>2. ASSUME NEW i \in 0..(sz - n - 1)
        PROVE  l.buf[Burst - (sz - n) + i] = Stream(c, source)[d + (w + n) + i + 1]
    <3>. DEFINE j == n + i
    <3>1. /\ j \in 0..(sz - 1) /\ Burst - (sz - n) + i = from + j
          /\ d + (w + n) + i + 1 = d + w + j + 1
      BY <1>0, <1>1, <1>2, <1>3, <2>0
    <3>. HIDE DEF j
    <3>2. l.buf[from + j] = Stream(c, source)[d + w + j + 1]
      BY <1>6, <3>1 DEF d
    <3> QED BY <3>1, <3>2
  <2>3. ASSUME NEW i \in 1..Len(t.wrote) PROVE t.wrote[i] = Stream(c, source)[c.debt + i]
    <3>1. i \in 1..(w + n)
      BY <1>8
    <3> QED BY <2>1, <3>1 DEF d
  <2>4. ASSUME NEW i \in 0..(t.size - 1)
        PROVE  t.buf[t.limit - t.size + i] = Stream(c, source)[c.debt + Len(t.wrote) + i + 1]
    <3>1. i \in 0..(sz - n - 1)
      <4>1. t.size = sz - n
        BY <1>8
      <4> QED BY <1>2, <2>4, <4>1
    <3>2. l.buf[Burst - (sz - n) + i] = Stream(c, source)[d + (w + n) + i + 1]
      BY <2>2, <3>1
    <3> QED BY <1>8, <3>2 DEF d
  <2> QED BY <2>3, <2>4 DEF Ordered
<1>13. t.read <= Len(source) /\ Len(t.wrote) <= room
  BY <1>3, <1>8 DEF LoopOK
<1> QED BY <1>8, <1>9, <1>11, <1>12, <1>13 DEF LoopOK, t, w, sz

(* A buffer that was full and has been emptied begins the next burst *)
LEMMA NextOK ==
  ASSUME NEW c \in Channel, NEW l, NEW source, NEW room,
         LoopOK(c, l, source, room), l.limit = Burst, l.size = 0
  PROVE  LET t == NextBurst(l)
         IN /\ LoopOK(c, t, source, room)
            /\ t.at = "top" /\ t.limit = 0 /\ t.size = 0
            /\ t.read = l.read /\ t.wrote = l.wrote
<1>. DEFINE t == NextBurst(l)
            w == Len(l.wrote)
            rd == l.read
            z == BufSize(c)
            f == c.fill
<1>1. l \in Loops /\ Burst \in Nat \ {0} /\ f \in 0..Burst /\ z \in Int
  BY DmaAssumption, ChannelParts DEF LoopOK
<1>2. /\ t \in Loops /\ t.at = "top" /\ t.limit = 0 /\ t.size = 0
      /\ t.read = l.read /\ t.wrote = l.wrote /\ t.buf = l.buf
  <2>1. t = [l EXCEPT !.limit = 0, !.at = "top"] /\ 0 \in 0..Burst
    BY <1>1 DEF NextBurst
  <2>. HIDE DEF t
  <2> QED BY <1>1, <2>1 DEF Loops
<1>3. w \in Nat /\ rd \in Nat
  BY <1>1, LoopParts
<1>. HIDE DEF t, w, rd, z, f
<1>4. 0 = z + rd - w
  BY DEF LoopOK, Places, w, rd, z
<1>5. Places(c, t)
  BY <1>1, <1>2, <1>4 DEF Places, z, rd, w
<1>6. PICK b \in Int : InBurst(c, l, b)
  BY DEF LoopOK
<1>7. Burst = rd - (Burst - f) - b /\ b >= 0 - Burst /\ Bursts(b)
  BY <1>6 DEF InBurst, rd, f
<1>8. FirstBurst(c) = z + Burst - f
  BY DEF FirstBurst, z, f
<1>9. /\ b + Burst \in Int /\ Bursts(b + Burst) /\ b + Burst >= 0 /\ b + Burst >= 0 - Burst
      /\ 0 = rd - (Burst - f) - (b + Burst)
      /\ w = FirstBurst(c) + (b + Burst)
  <2>1. Bursts(b + Burst)
    BY <1>7, BurstsNext
  <2>2. b + Burst \in Int /\ b + Burst >= 0 /\ b + Burst >= 0 - Burst
    BY <1>1, <1>7
  <2>3. 0 = rd - (Burst - f) - (b + Burst)
    BY <1>1, <1>3, <1>7
  <2>4. w = z + Burst - f + (b + Burst)
    BY <1>1, <1>3, <1>4, <1>7
  <2> QED BY <1>8, <2>1, <2>2, <2>3, <2>4
<1>10. InBurst(c, t, b + Burst)
  <2>. DEFINE e == b + Burst
  <2>. HIDE DEF e
  <2>1. ~(e < 0) /\ w >= FirstBurst(c) + e
    BY <1>3, <1>9 DEF e
  <2>2. InBurst(c, t, e)
    BY <1>2, <1>9, <2>1 DEF InBurst, e, w, rd, f
  <2> QED BY <2>2 DEF e
<1>11. Ordered(c, t, source)
  <2>1. 0..(t.size - 1) = {}
    BY <1>2
  <2>2. \A i \in 1..w : l.wrote[i] = Stream(c, source)[c.debt + i]
    BY DEF LoopOK, Ordered, w
  <2> QED BY <1>2, <2>1, <2>2 DEF Ordered, w
<1> QED BY <1>2, <1>5, <1>9, <1>10, <1>11 DEF LoopOK, t

(***************************************************************************)
(* Where a loop may stop.  It has run out of bytes with the buffer not      *)
(* full, or it has run out of room with bytes in a full buffer.             *)
(***************************************************************************)
Exhausted(l, source) == l.limit < Burst /\ l.read = Len(source)
Blocked(l, room) == l.limit = Burst /\ l.size > 0 /\ Len(l.wrote) = room

LEMMA FirstOrLater ==
  ASSUME NEW b \in Int, Bursts(b), b >= 0 - Burst
  PROVE  b = 0 - Burst \/ b >= 0
<1>1. CASE b > 0 - Burst
  <2>1. b >= (0 - Burst) + Burst
    BY <1>1, BurstsZero, BurstsApart, DmaAssumption
  <2> QED BY <2>1, DmaAssumption
<1> QED BY <1>1, DmaAssumption

LEMMA ExhaustedCounts ==
  ASSUME NEW c \in Channel, NEW l, NEW source \in Seq(Int), NEW room \in Nat,
         LoopOK(c, l, source, room), Exhausted(l, source)
  PROVE  /\ ~Overruns(c, Len(source), room)
         /\ BytesIn(c, Len(source), room) = l.read
         /\ BytesOut(c, Len(source), room) = Len(l.wrote)
         /\ FillAfter(c, Len(source), room) = l.limit
<1>. DEFINE w == Len(l.wrote)
            s == Len(source)
            z == BufSize(c)
            g == Burst - c.fill
            lim == l.limit
<1>1. /\ l \in Loops /\ Burst \in Nat \ {0} /\ z \in Int /\ g \in Int /\ s \in Nat
      /\ c.fill = Burst - g
  BY ChannelParts, DmaAssumption DEF LoopOK
<1>2. w \in Nat /\ lim \in Nat /\ lim < Burst /\ w <= room
  BY <1>1, LoopParts DEF Exhausted, LoopOK
<1>3. PICK b \in Int : InBurst(c, l, b)
  BY DEF LoopOK
<1>4. /\ lim = s - g - b /\ Bursts(b) /\ b >= 0 - Burst
      /\ w = IF b < 0 THEN 0 ELSE FirstBurst(c) + b
  BY <1>3 DEF InBurst, Exhausted
<1>5. FirstBurst(c) = z + g
  BY <1>1, ChannelParts DEF FirstBurst
<1>6. CASE b = 0 - Burst
  <2>1. s < g /\ w = 0 /\ lim = (Burst - g) + s
    <3>. HIDE DEF w, s, z, g, lim
    <3> QED BY <1>1, <1>2, <1>4, <1>6
  <2>2. WholeBursts(c, s) = 0
    BY <2>1 DEF WholeBursts
  <2>3. ~Overruns(c, s, room)
    BY <2>2 DEF Overruns
  <2>4. FillAfter(c, s, room) = c.fill + s
    BY <2>1, <2>3 DEF FillAfter
  <2>5. c.fill + s = lim
    BY <1>1, <2>1
  <2> QED BY <2>1, <2>2, <2>3, <2>4, <2>5 DEF BytesIn, BytesOut, Exhausted
<1>7. CASE b >= 0
  <2>1. ~(s < g) /\ s - g \in Int /\ (s - g) - b \in 0..(Burst - 1) /\ s - g - b = lim
        /\ w = z + g + b /\ z + s - lim = w
    <3>. HIDE DEF w, s, z, g, lim
    <3> QED BY <1>1, <1>2, <1>4, <1>5, <1>7
  <2>2. (s - g) % Burst = lim
    BY <1>4, <2>1, BurstsRest
  <2>3. WholeBursts(c, s) = w
    BY <2>1, <2>2 DEF WholeBursts
  <2>4. ~(w > room)
    BY <1>2
  <2>5. ~Overruns(c, s, room)
    BY <2>3, <2>4 DEF Overruns
  <2>6. FillAfter(c, s, room) = lim
    BY <2>1, <2>2, <2>5 DEF FillAfter
  <2> QED BY <2>3, <2>5, <2>6 DEF BytesIn, BytesOut, Exhausted
<1> QED BY <1>4, <1>6, <1>7, FirstOrLater

LEMMA BlockedCounts ==
  ASSUME NEW c \in Channel, NEW l, NEW source \in Seq(Int), NEW room \in Nat,
         LoopOK(c, l, source, room), Blocked(l, room)
  PROVE  /\ Overruns(c, Len(source), room)
         /\ BytesIn(c, Len(source), room) = l.read
         /\ BytesOut(c, Len(source), room) = Len(l.wrote)
         /\ FillAfter(c, Len(source), room) = l.limit
<1>. DEFINE s == Len(source)
            z == BufSize(c)
            g == Burst - c.fill
            rd == l.read
            e == s - g
            r == e % Burst
            x == room - FirstBurst(c)
<1>1. /\ l \in Loops /\ Burst \in Nat \ {0} /\ z \in Int /\ g \in 0..Burst /\ s \in Nat
      /\ FirstBurst(c) = z + g
  BY ChannelParts, DmaAssumption DEF LoopOK, FirstBurst
<1>2. rd \in Nat /\ rd <= s /\ z + rd - room > 0
  BY <1>1, LoopParts DEF Blocked, LoopOK, Places
<1>3. PICK b \in Int : InBurst(c, l, b)
  BY DEF LoopOK
<1>4. /\ Burst = rd - g - b /\ Bursts(b) /\ b >= 0 - Burst
      /\ b >= 0 => room >= FirstBurst(c) + b
  BY <1>3 DEF InBurst, Blocked
<1>5. e \in Int /\ ~(s < g)
  <2>. HIDE DEF s, z, g, rd
  <2> QED BY <1>1, <1>2, <1>4
<1>6. Bursts(e - r) /\ r \in 0..(Burst - 1)
  BY <1>5, BurstsFloor
<1>7. WholeBursts(c, s) > room
  <2>1. WholeBursts(c, s) = z + s - r
    BY <1>5 DEF WholeBursts
  <2>2. e = s - g
    OBVIOUS
  <2>. HIDE DEF s, z, g, rd, e, r
  <2>3. e - r > b /\ e - r \in Int
    BY <1>1, <1>2, <1>4, <1>5, <1>6, <2>2
  <2>4. e - r >= b + Burst
    BY <1>4, <1>6, <2>3, BurstsApart
  <2>5. z + s - r > room
    BY <1>1, <1>2, <1>4, <1>6, <2>2, <2>4
  <2> QED BY <2>1, <2>5
<1>8. Overruns(c, s, room)
  BY <1>7 DEF Overruns
<1>9. BytesOut(c, s, room) = room /\ FillAfter(c, s, room) = Burst
  BY <1>8 DEF BytesOut, FillAfter
<1>10. CASE FirstBurst(c) > room
  <2>1. BytesIn(c, s, room) = g
    BY <1>8, <1>10 DEF BytesIn
  <2>. HIDE DEF s, z, g, rd, e, r
  <2>2. ~(b >= 0)
    BY <1>1, <1>4, <1>10
  <2>3. b = 0 - Burst
    BY <1>4, <2>2, FirstOrLater
  <2>4. rd = g
    BY <1>1, <1>2, <1>4, <2>3
  <2> QED BY <1>8, <1>9, <2>1, <2>4 DEF Blocked, s, rd
<1>11. CASE ~(FirstBurst(c) > room)
  <2>1. BytesIn(c, s, room) = room + Burst - (x % Burst) - z
    BY <1>8, <1>11 DEF BytesIn
  <2>2. x = room - (z + g)
    BY <1>1
  <2>. HIDE DEF s, z, g, rd, e, r, x
  <2>3. ~(b = 0 - Burst)
    BY <1>1, <1>2, <1>4, <1>11
  <2>4. b >= 0
    BY <1>4, <2>3, FirstOrLater
  <2>5. x \in Int /\ x - b \in 0..(Burst - 1)
    BY <1>1, <1>2, <1>4, <2>2, <2>4
  <2>6. x % Burst = x - b
    BY <1>4, <2>5, BurstsRest
  <2>7. room + Burst - (x - b) - z = rd
    BY <1>1, <1>2, <1>4, <2>2
  <2> QED BY <1>8, <1>9, <2>1, <2>6, <2>7 DEF Blocked, s, rd
<1> QED BY <1>10, <1>11

LEMMA PrefixStream ==
  ASSUME NEW c \in Channel, NEW source \in Seq(Int), NEW n \in 0..Len(source)
  PROVE  LET bytes == SubSeq(source, 1, n)
         IN /\ bytes \in Seq(Int) /\ Len(bytes) = n
            /\ c.pend \o bytes \in Seq(Int) /\ Len(c.pend \o bytes) = Len(c.pend) + n
            /\ \A j \in 1..(Len(c.pend) + n) : (c.pend \o bytes)[j] = Stream(c, source)[j]
<1>. DEFINE bytes == SubSeq(source, 1, n)
            k == Len(c.pend)
            len == Len(source)
<1>1. c.pend \in Seq(Int) /\ k \in Nat /\ len \in Nat /\ n \in Nat /\ n <= len
  BY ChannelParts
<1>2. /\ bytes \in Seq(Int) /\ Len(bytes) = n
      /\ \A i \in 1..n : bytes[i] = source[i]
  <2>1. \A i \in 1..n : source[i] \in Int
    BY <1>1, ElementOfSeq
  <2>2. /\ bytes \in Seq(Int) /\ Len(bytes) = IF 1 <= n THEN n - 1 + 1 ELSE 0
        /\ \A i \in 1..(n - 1 + 1) : bytes[i] = source[1 + i - 1]
    BY <1>1, <2>1, SubSeqProperties
  <2> QED BY <1>1, <2>2
<1>. HIDE DEF bytes
<1>3. /\ c.pend \o bytes \in Seq(Int) /\ Len(c.pend \o bytes) = k + n
      /\ \A i \in 1..(k + n) : (c.pend \o bytes)[i] = IF i <= k THEN c.pend[i] ELSE bytes[i - k]
  BY <1>1, <1>2, ConcatProperties
<1>4. ASSUME NEW j \in 1..(k + n) PROVE (c.pend \o bytes)[j] = Stream(c, source)[j]
  <2>1. CASE j <= k
    <3>1. j \in 1..k
      BY <1>1, <2>1
    <3> QED BY <1>3, <2>1, <3>1, StreamParts
  <2>2. CASE ~(j <= k)
    <3>. DEFINE i == j - k
    <3>. HIDE DEF k, len
    <3>1. i \in 1..n /\ i \in 1..len /\ j = k + i
      BY <1>1, <2>2
    <3>2. (c.pend \o bytes)[j] = bytes[i]
      BY <1>3, <2>2
    <3>. HIDE DEF i
    <3>3. Stream(c, source)[k + i] = source[i]
      BY <3>1, StreamParts DEF k, len
    <3> QED BY <1>2, <3>1, <3>2, <3>3
  <2> QED BY <2>1, <2>2
<1> QED BY <1>2, <1>3, <1>4 DEF bytes

(* A loop that has moved as many bytes as Dma says has moved those bytes *)
LEMMA LoopMoves ==
  ASSUME NEW c, Sane(c), NEW l, NEW source \in Seq(Int), NEW room \in Nat,
         LoopOK(c, l, source, room),
         BytesIn(c, Len(source), room) = l.read,
         BytesOut(c, Len(source), room) = Len(l.wrote),
         FillAfter(c, Len(source), room) = l.limit
  PROVE  Moves(c, l, source, room)
<1>. DEFINE n == l.read
            m == Len(l.wrote)
            lim == l.limit
            sz == l.size
            k == Len(c.pend)
            d == c.debt
            bytes == SubSeq(source, 1, n)
            all == c.pend \o bytes
            sw == Swallowed(c, bytes)
            gone == Leaving(c, bytes, m)
            rest == Staying(c, bytes, m)
            t == Buffered(c, bytes, m, lim)
            str == Stream(c, source)
<1>1. /\ c \in Channel /\ Idx(c) \in 0..Burst /\ d \in Nat /\ k \in Nat /\ l \in Loops
      /\ Len(source) \in Nat /\ Burst \in Nat \ {0} /\ (d > 0 => k = 0) /\ BufSize(c) = k - d
  BY ChannelParts, DmaAssumption DEF Sane, LoopOK, BufSize
<1>2. n \in Nat /\ m \in Nat /\ lim \in 0..Burst /\ sz \in Int /\ l.wrote \in Seq(Int)
      /\ n <= Len(source) /\ sz = BufSize(c) + n - m /\ lim - sz \in 0..Burst
      /\ l.buf \in [0..(Burst - 1) -> Int]
  BY <1>1, LoopParts DEF LoopOK, Places
<1>3. /\ bytes \in Seq(Int) /\ Len(bytes) = n /\ all \in Seq(Int) /\ Len(all) = k + n
      /\ \A j \in 1..(k + n) : all[j] = str[j]
  <2>1. n \in 0..Len(source)
    BY <1>1, <1>2
  <2>. HIDE DEF n
  <2> QED BY <1>1, <2>1, PrefixStream
<1>4. m = 0 \/ m <= BufSize(c) + n
  BY <1>1, MovedBounds
<1>5. /\ \A i \in 1..m : l.wrote[i] = str[d + i]
      /\ \A i \in 0..(sz - 1) : l.buf[lim - sz + i] = str[d + m + i + 1]
  BY DEF LoopOK, Ordered
<1>. HIDE DEF bytes
<1>6. /\ gone \in Seq(Int) /\ Len(gone) = m /\ rest \in Seq(Int) /\ sw \in 0..d
      /\ Len(rest) - (d - sw) = BufSize(c) + n - m
      /\ d - sw > 0 => Len(rest) = 0
  <2>. HIDE DEF n, m, lim
  <2>1. m = 0 \/ m <= BufSize(c) + Len(bytes)
    BY <1>3, <1>4
  <2>2. /\ gone \in Seq(Int) /\ Len(gone) = m /\ rest \in Seq(Int) /\ sw \in 0..d
        /\ Len(rest) - (d - sw) = BufSize(c) + Len(bytes) - m
        /\ (d > 0 => k = 0) => (d - sw > 0 => Len(rest) = 0)
    BY <1>1, <1>2, <1>3, <2>1, BufferedType
  <2>. HIDE DEF gone, rest, sw, d, k
  <2> QED BY <1>1, <1>3, <2>2
<1>7. sw = IF d < n THEN d ELSE n
  BY <1>3 DEF Swallowed
<1>8. gone = SubSeq(all, sw + 1, sw + m) /\ rest = SubSeq(all, sw + m + 1, k + n)
  BY <1>3 DEF Leaving, Staying
<1>9. t = [c EXCEPT !.pend = rest, !.fill = lim, !.debt = d - sw]
  BY DEF Buffered
<1>. HIDE DEF n, m, lim, sz, k, d, all, sw, gone, rest, t, str
<1>10. m > 0 => sw = d
  BY <1>1, <1>2, <1>4, <1>7
<1>11. Len(rest) \in Nat /\ (Len(rest) > 0 => sw = d /\ Len(rest) = sz)
  <2>. DEFINE q == Len(rest)
  <2>1. q \in Nat /\ q - (d - sw) = k - d + n - m /\ sz = k - d + n - m
        /\ (d - sw > 0 => q = 0) /\ sw \in 0..d
    BY <1>1, <1>2, <1>6
  <2>. HIDE DEF q
  <2>2. d \in Int /\ sw \in Int /\ sw <= d /\ sz \in Int
    BY <1>1, <1>2, <2>1
  <2>3. q > 0 => sw = d
    BY <2>1, <2>2
  <2>4. q > 0 => q = sz
    BY <2>1, <2>2, <2>3
  <2> QED BY <2>1, <2>3, <2>4 DEF q
<1>12. l.wrote = gone
  <2>1. ASSUME NEW i \in 1..m PROVE l.wrote[i] = gone[i]
    <3>1. sw = d /\ m > 0 /\ m <= k - d + n
      BY <1>1, <1>2, <1>4, <1>10
    <3>2. d + i \in 1..(k + n) /\ d + 1 \in Int /\ d + m \in Int /\ i \in 1..((d + m) - (d + 1) + 1)
          /\ (d + 1) + i - 1 = d + i
      BY <1>1, <1>2, <3>1
    <3>3. \A j \in (d + 1)..(d + m) : all[j] \in Int
      <4>1. \A j \in (d + 1)..(d + m) : j \in 1..(k + n)
        BY <1>1, <1>2, <3>1
      <4> QED BY <1>3, <4>1, ElementOfSeq
    <3>4. gone[i] = all[d + i]
      <4>1. SubSeq(all, d + 1, d + m)[i] = all[(d + 1) + i - 1]
        BY <3>2, <3>3, SubSeqProperties
      <4> QED BY <1>8, <3>1, <3>2, <4>1
    <3> QED BY <1>3, <1>5, <3>2, <3>4
  <2> QED BY <1>2, <1>6, <2>1, SeqEqual DEF m
<1>13. rest = [i \in 1..Len(rest) |-> l.buf[lim - sz + i - 1]]
  <2>1. ASSUME NEW i \in 1..Len(rest) PROVE rest[i] = l.buf[lim - sz + i - 1]
    <3>0. i \in Nat /\ i >= 1 /\ Len(rest) > 0
      BY <1>11, <2>1
    <3>1. sw = d /\ sz = k - d + n - m /\ i <= sz
      BY <1>1, <1>2, <1>11, <2>1, <3>0
    <3>. DEFINE a == d + m + 1
                h == d + m + i
    <3>2. h \in 1..(k + n) /\ a \in Int /\ k + n \in Int /\ a + i - 1 = h
      BY <1>1, <1>2, <3>0, <3>1
    <3>3. i \in 1..((k + n) - a + 1) /\ a >= 1
      BY <1>1, <1>2, <3>0, <3>1
    <3>. HIDE DEF a
    <3>4. \A j \in a..(k + n) : all[j] \in Int
      <4>1. \A j \in a..(k + n) : j \in 1..(k + n)
        BY <3>2, <3>3
      <4> QED BY <1>3, <4>1, ElementOfSeq
    <3>5. rest[i] = all[h]
      <4>1. SubSeq(all, a, k + n)[i] = all[a + i - 1]
        BY <3>2, <3>3, <3>4, SubSeqProperties
      <4> QED BY <1>8, <3>1, <3>2, <4>1 DEF a
    <3>6. /\ i - 1 \in 0..(sz - 1) /\ lim - sz + (i - 1) = lim - sz + i - 1
          /\ d + m + (i - 1) + 1 = h
      BY <1>1, <1>2, <3>0, <3>1
    <3>. HIDE DEF h
    <3>7. l.buf[lim - sz + (i - 1)] = str[d + m + (i - 1) + 1]
      BY <1>5, <3>6
    <3> QED BY <1>3, <3>2, <3>5, <3>6, <3>7
  <2>2. rest = [i \in 1..Len(rest) |-> rest[i]]
    BY <1>6
  <2> QED BY <2>1, <2>2
<1>14. t.pend = rest /\ t.fill = lim /\ t.debt = d - sw
  BY <1>1, <1>9 DEF Channel
<1>15. sz = BufSize(t)
  BY <1>2, <1>6, <1>14 DEF BufSize
<1> QED
  BY <1>12, <1>13, <1>14, <1>15 DEF Moves, n, m, lim, sz, t, gone, rest, bytes

(***************************************************************************)
(* How far a loop still has to go.                                          *)
(***************************************************************************)
Rank(l) ==
  CASE l.at = "top" -> IF l.limit = Burst THEN 5 ELSE 2
    [] l.at = "fill" -> IF l.limit = Burst THEN 4 ELSE 1
    [] l.at = "empty" -> 3
    [] OTHER -> 0

Ahead(l, source, room) == (Len(source) - l.read) + (room - Len(l.wrote))

Effort(l, source, room) == 4 * Ahead(l, source, room) + Rank(l)

LEMMA EffortType ==
  ASSUME NEW c, NEW l, NEW source \in Seq(Int), NEW room \in Nat, LoopOK(c, l, source, room)
  PROVE  Ahead(l, source, room) \in Nat /\ Rank(l) \in 0..5 /\ Effort(l, source, room) \in Nat
<1>. DEFINE s == Len(source)
            rd == l.read
            w == Len(l.wrote)
<1>1. l \in Loops
  BY DEF LoopOK
<1>2. s \in Nat /\ rd \in Nat /\ w \in Nat /\ rd <= s /\ w <= room
  BY <1>1, LoopParts DEF LoopOK
<1>. HIDE DEF s, rd, w
<1>3. (s - rd) + (room - w) \in Nat
  BY <1>2
<1>4. Ahead(l, source, room) \in Nat
  BY <1>3 DEF Ahead, s, rd, w
<1>5. Rank(l) \in 0..5
  BY DEF Rank
<1> QED BY <1>4, <1>5 DEF Effort

(* A change of place to one of a lower rank, with the same bytes            *)
LEMMA EffortPlace ==
  ASSUME NEW c, NEW d, NEW l, NEW t, NEW source \in Seq(Int), NEW room \in Nat,
         LoopOK(c, l, source, room), LoopOK(d, t, source, room),
         t.read = l.read, Len(t.wrote) = Len(l.wrote), Rank(t) < Rank(l)
  PROVE  Effort(t, source, room) < Effort(l, source, room)
<1>1. Ahead(t, source, room) = Ahead(l, source, room)
  BY DEF Ahead
<1>. DEFINE x == Ahead(l, source, room)
            p == Rank(l)
            q == Rank(t)
<1>2. x \in Nat /\ p \in Nat /\ q \in Nat /\ q < p
  BY EffortType
<1>. HIDE DEF x, p, q
<1>3. 4 * x + q < 4 * x + p
  BY <1>2
<1> QED BY <1>1, <1>3 DEF Effort, x, p, q

(* Bytes that move are worth more than the places                           *)
LEMMA EffortBytes ==
  ASSUME NEW c, NEW d, NEW l, NEW t, NEW source \in Seq(Int), NEW room \in Nat,
         LoopOK(c, l, source, room), LoopOK(d, t, source, room),
         Ahead(t, source, room) < Ahead(l, source, room), Rank(t) <= Rank(l) + 3
  PROVE  Effort(t, source, room) < Effort(l, source, room)
<1>. DEFINE x == Ahead(l, source, room)
            y == Ahead(t, source, room)
            p == Rank(l)
            q == Rank(t)
<1>1. x \in Nat /\ y \in Nat /\ y < x /\ p \in Nat /\ q \in Nat /\ q <= p + 3
  BY EffortType
<1>. HIDE DEF x, y, p, q
<1>2. 4 * y + q < 4 * x + p
  BY <1>1
<1> QED BY <1>2 DEF Effort, x, y, p, q

(***************************************************************************)
(* dma_esp_write_memory.  Words leave the buffer whole, so memory that ends *)
(* at a word ends between two stores.                                       *)
(***************************************************************************)
WriteOK(c, l, source, reach) ==
  /\ LoopOK(c, l, source, reach)
  /\ Multiple(l.limit - l.size) /\ Multiple(Len(l.wrote))
  /\ l.at = "empty" => l.limit = Burst
  /\ l.at = "done" => Exhausted(l, source) \/ (Blocked(l, reach) /\ c.next + reach >= c.limit)
  /\ l.at = "fault" => Blocked(l, reach) /\ c.next + reach < c.limit

(* A call that may be made: the channel's buffer is not passed, and memory  *)
(* answers to the end of a word of it.                                      *)
Writes(c, source, reach) ==
  /\ Sane(c) /\ c.dev2m /\ source \in Seq(Int)
  /\ reach \in 0..(c.limit - c.next) /\ Multiple(reach)

LEMMA WriteEnter ==
  ASSUME NEW c, NEW source, NEW reach, Writes(c, source, reach)
  PROVE  WriteOK(c, EnterLoop(c), source, reach)
<1>1. reach \in Nat
  BY ChannelParts DEF Writes, Sane
<1>2. /\ LoopOK(c, EnterLoop(c), source, reach) /\ EnterLoop(c).at = "top"
      /\ Len(EnterLoop(c).wrote) = 0 /\ EnterLoop(c).limit - EnterLoop(c).size = Idx(c)
  BY <1>1, EnterOK DEF Writes
<1> QED BY <1>2, MultipleZero DEF WriteOK, Writes, Sane

LEMMA WriteStepOK ==
  ASSUME NEW c, NEW source, NEW reach, Writes(c, source, reach),
         NEW l, WriteOK(c, l, source, reach)
  PROVE  LET t == WriteStep(c, l, source, reach)
         IN /\ WriteOK(c, t, source, reach)
            /\ ~Left(l) => Effort(t, source, reach) < Effort(l, source, reach)
            /\ Left(l) => t = l
<1>. DEFINE t == WriteStep(c, l, source, reach)
            w == Len(l.wrote)
            s == Len(source)
            a == c.next
            z == c.limit
<1>1. /\ c \in Channel /\ source \in Seq(Int) /\ Burst \in Nat \ {0} /\ Word \in Nat \ {0}
      /\ LoopOK(c, l, source, reach) /\ l \in Loops
  BY DmaAssumption DEF Writes, Sane, WriteOK, LoopOK
<1>2. a \in Nat /\ z \in Nat /\ s \in Nat /\ reach \in Nat /\ a + reach <= z
  BY <1>1, ChannelParts DEF Writes
<1>3. /\ l.limit \in 0..Burst /\ l.size \in Int /\ l.read \in Nat /\ w \in Nat
      /\ l.read <= s /\ w <= reach /\ l.limit - l.size \in 0..Burst
      /\ l.at \in {"top", "fill", "empty", "done", "fault"}
  BY <1>1, LoopParts DEF LoopOK, Places
<1>4. Multiple(l.limit - l.size) /\ Multiple(w) /\ Multiple(reach)
  BY DEF WriteOK, Writes
<1>. HIDE DEF w, s, a, z
<1>5. CASE l.at = "top"
  <2>1. t = Goto(l, "fill")
    <3>1. a + w <= z
      BY <1>2, <1>3
    <3> QED BY <1>5, <3>1 DEF WriteStep, a, w, z
  <2>2. /\ LoopOK(c, t, source, reach) /\ t.at = "fill" /\ t.limit = l.limit
        /\ t.size = l.size /\ t.read = l.read /\ t.wrote = l.wrote
    BY <1>1, <2>1, GotoOK
  <2>. HIDE DEF t
  <2>3. WriteOK(c, t, source, reach)
    BY <1>4, <2>2 DEF WriteOK, w
  <2>4. Rank(t) < Rank(l)
    BY <1>5, <2>2 DEF Rank
  <2>5. Effort(t, source, reach) < Effort(l, source, reach)
    BY <1>1, <1>2, <2>2, <2>4, EffortPlace
  <2> QED BY <1>5, <2>3, <2>5 DEF t, Left
<1>6. CASE l.at = "fill" /\ l.limit >= Burst
  <2>1. t = Goto(l, "empty")
    BY <1>6 DEF WriteStep
  <2>0. l.limit = Burst
    BY <1>1, <1>3, <1>6
  <2>2. /\ LoopOK(c, t, source, reach) /\ t.at = "empty" /\ t.limit = l.limit
        /\ t.size = l.size /\ t.read = l.read /\ t.wrote = l.wrote
    BY <1>1, <2>1, GotoOK
  <2>. HIDE DEF t
  <2>3. WriteOK(c, t, source, reach)
    BY <1>4, <2>0, <2>2 DEF WriteOK, w
  <2>4. Rank(t) < Rank(l)
    BY <1>6, <2>0, <2>2 DEF Rank
  <2>5. Effort(t, source, reach) < Effort(l, source, reach)
    BY <1>1, <1>2, <2>2, <2>4, EffortPlace
  <2> QED BY <1>6, <2>3, <2>5 DEF t, Left
<1>7. CASE l.at = "fill" /\ l.limit < Burst /\ l.read < s
  <2>1. t = Fetch(l, source, 1)
    <3>1. ~(l.limit >= Burst)
      BY <1>1, <1>3, <1>7
    <3> QED BY <1>7, <3>1 DEF WriteStep, s
  <2>0. l.limit + 1 <= Burst /\ l.read + 1 <= Len(source)
    BY <1>1, <1>2, <1>3, <1>7 DEF s
  <2>2. /\ LoopOK(c, t, source, reach) /\ t.at = "fill" /\ t.limit = l.limit + 1
        /\ t.size = l.size + 1 /\ t.read = l.read + 1 /\ t.wrote = l.wrote
    BY <1>1, <1>7, <2>0, <2>1, FetchOK
  <2>. HIDE DEF t
  <2>3. WriteOK(c, t, source, reach)
    <3>1. t.limit - t.size = l.limit - l.size
      BY <1>3, <2>2
    <3> QED BY <1>4, <2>2, <3>1 DEF WriteOK, w
  <2>4. Rank(t) <= Rank(l) + 3
    <3>1. Rank(l) = 1 /\ Rank(t) \in {1, 4}
      BY <1>1, <1>3, <1>7, <2>2 DEF Rank
    <3> QED BY <3>1
  <2>5. Ahead(t, source, reach) < Ahead(l, source, reach)
    <3>1. (s - (l.read + 1)) + (reach - w) < (s - l.read) + (reach - w)
      BY <1>2, <1>3
    <3> QED BY <2>2, <3>1 DEF Ahead, s, w
  <2>6. Effort(t, source, reach) < Effort(l, source, reach)
    BY <1>1, <1>2, <2>2, <2>4, <2>5, EffortBytes
  <2> QED BY <1>7, <2>3, <2>6 DEF t, Left
<1>8. CASE l.at = "fill" /\ l.limit < Burst /\ ~(l.read < s)
  <2>1. t = Goto(l, "done")
    <3>1. ~(l.limit >= Burst)
      BY <1>1, <1>3, <1>8
    <3> QED BY <1>8, <3>1 DEF WriteStep, s
  <2>0. l.read = Len(source)
    BY <1>2, <1>3, <1>8 DEF s
  <2>2. /\ LoopOK(c, t, source, reach) /\ t.at = "done" /\ t.limit = l.limit
        /\ t.size = l.size /\ t.read = l.read /\ t.wrote = l.wrote
    BY <1>1, <2>1, GotoOK
  <2>. HIDE DEF t
  <2>3. WriteOK(c, t, source, reach)
    BY <1>4, <1>8, <2>0, <2>2 DEF WriteOK, Exhausted, w
  <2>4. Rank(t) < Rank(l)
    BY <1>8, <2>2 DEF Rank
  <2>5. Effort(t, source, reach) < Effort(l, source, reach)
    BY <1>1, <1>2, <2>2, <2>4, EffortPlace
  <2> QED BY <1>8, <2>3, <2>5 DEF t, Left
<1>9. CASE l.at = "empty" /\ l.size > 0 /\ w = reach
  <2>. DEFINE place == IF a + w < z THEN "fault" ELSE "done"
  <2>1. t = Goto(l, place)
    <3>1. w >= reach
      BY <1>2, <1>9
    <3> QED BY <1>9, <3>1 DEF WriteStep, a, w, z
  <2>0. l.limit = Burst
    BY <1>9 DEF WriteOK
  <2>2. /\ LoopOK(c, t, source, reach) /\ t.at = place /\ t.limit = l.limit
        /\ t.size = l.size /\ t.read = l.read /\ t.wrote = l.wrote
    <3>1. place \in {"top", "fill", "empty", "done", "fault"}
      OBVIOUS
    <3>. HIDE DEF place
    <3> QED BY <1>1, <2>1, <3>1, GotoOK
  <2>. HIDE DEF t
  <2>3. Blocked(t, reach)
    BY <1>9, <2>0, <2>2 DEF Blocked, w
  <2>4. /\ t.at = "fault" => a + reach < z
        /\ t.at = "done" => a + reach >= z
        /\ t.at \in {"fault", "done"}
    BY <1>2, <1>9, <2>2
  <2>5. WriteOK(c, t, source, reach)
    BY <1>4, <2>2, <2>3, <2>4 DEF WriteOK, w, a, z
  <2>6. Rank(t) < Rank(l)
    BY <1>9, <2>4 DEF Rank
  <2>7. Effort(t, source, reach) < Effort(l, source, reach)
    BY <1>1, <1>2, <2>2, <2>6, EffortPlace
  <2> QED BY <1>9, <2>5, <2>7 DEF t, Left
<1>10. CASE l.at = "empty" /\ l.size > 0 /\ w < reach
  <2>0. l.limit = Burst
    BY <1>10 DEF WriteOK
  <2>1. t = Store(l, Burst - l.size, Word)
    <3>1. a + w < z /\ ~(w >= reach)
      BY <1>2, <1>3, <1>10
    <3> QED BY <1>10, <3>1 DEF WriteStep, a, w, z
  <2>2. l.size >= Word
    <3>1. Multiple(Burst - l.size) /\ Burst - l.size \in Int
      BY <1>1, <1>3, <1>4, <2>0
    <3>2. Multiple(Burst - (Burst - l.size))
      BY <3>1, MultipleBurst, Multiples
    <3>3. Burst - (Burst - l.size) = l.size
      BY <1>1, <1>3
    <3>4. Multiple(l.size)
      BY <3>2, <3>3
    <3> QED BY <1>3, <1>10, <3>4, MultipleStep
  <2>3. w + Word <= reach
    <3>1. Multiple(reach - w) /\ reach - w \in Int /\ reach - w > 0
      BY <1>2, <1>3, <1>4, <1>10, Multiples
    <3>2. reach - w >= Word
      BY <3>1, MultipleStep
    <3> QED BY <1>1, <1>2, <1>3, <3>2
  <2>4. /\ LoopOK(c, t, source, reach) /\ t.at = "empty" /\ t.limit = l.limit
        /\ t.size = l.size - Word /\ t.read = l.read /\ Len(t.wrote) = w + Word
    <3>1. Word \in Nat /\ Word >= 1 /\ Len(l.wrote) + Word <= reach
      BY <1>1, <2>3 DEF w
    <3> QED BY <1>1, <1>2, <1>10, <2>0, <2>1, <2>2, <3>1, StoreOK DEF w
  <2>. HIDE DEF t
  <2>5. Word \in Int /\ Multiple(Word)
    BY MultipleWord
  <2>6. WriteOK(c, t, source, reach)
    <3>1. t.limit - t.size = (l.limit - l.size) + Word /\ l.limit - l.size \in Int
      BY <1>1, <1>3, <2>4
    <3>2. Multiple((l.limit - l.size) + Word)
      BY <1>4, <2>5, <3>1, Multiples
    <3>3. Multiple(w + Word)
      BY <1>3, <1>4, <2>5, Multiples
    <3> QED BY <2>0, <2>4, <3>1, <3>2, <3>3 DEF WriteOK
  <2>7. Rank(t) <= Rank(l) + 3
    <3>1. Rank(l) = 3 /\ Rank(t) = 3
      BY <1>10, <2>4 DEF Rank
    <3> QED BY <3>1
  <2>8. Ahead(t, source, reach) < Ahead(l, source, reach)
    <3>1. (s - l.read) + (reach - (w + Word)) < (s - l.read) + (reach - w)
      BY <1>1, <1>2, <1>3
    <3> QED BY <2>4, <3>1 DEF Ahead, s, w
  <2>9. Effort(t, source, reach) < Effort(l, source, reach)
    BY <1>1, <1>2, <2>4, <2>7, <2>8, EffortBytes
  <2> QED BY <1>10, <2>6, <2>9 DEF t, Left
<1>11. CASE l.at = "empty" /\ ~(l.size > 0)
  <2>1. t = NextBurst(l)
    BY <1>11 DEF WriteStep
  <2>0. l.limit = Burst /\ l.size = 0
    <3>1. l.limit = Burst
      BY <1>11 DEF WriteOK
    <3> QED BY <1>1, <1>3, <1>11, <3>1
  <2>2. /\ LoopOK(c, t, source, reach) /\ t.at = "top" /\ t.limit = 0
        /\ t.size = 0 /\ t.read = l.read /\ t.wrote = l.wrote
    BY <1>1, <2>0, <2>1, NextOK
  <2>. HIDE DEF t
  <2>3. WriteOK(c, t, source, reach)
    <3>1. t.limit - t.size = 0
      BY <2>2
    <3>2. Multiple(t.limit - t.size)
      BY <3>1, MultipleZero
    <3>3. Multiple(Len(t.wrote))
      BY <1>4, <2>2 DEF w
    <3> QED BY <2>2, <3>2, <3>3 DEF WriteOK
  <2>4. Rank(t) < Rank(l)
    <3>1. Rank(l) = 3 /\ Rank(t) = 2
      BY <1>1, <1>11, <2>2 DEF Rank
    <3> QED BY <3>1
  <2>5. Effort(t, source, reach) < Effort(l, source, reach)
    BY <1>1, <1>2, <2>2, <2>4, EffortPlace
  <2> QED BY <1>11, <2>3, <2>5 DEF t, Left
<1>12. CASE Left(l)
  <2>1. t = l
    BY <1>12 DEF WriteStep, Left
  <2>2. WriteOK(c, t, source, reach)
    BY <2>1
  <2> QED BY <1>12, <2>1, <2>2
<1>13. /\ l.limit >= Burst \/ l.limit < Burst
       /\ w = reach \/ w < reach
  BY <1>1, <1>2, <1>3
<1> QED BY <1>3, <1>5, <1>6, <1>7, <1>8, <1>9, <1>10, <1>11, <1>12, <1>13 DEF Left

LEMMA WriteLeft ==
  ASSUME NEW c, NEW source, NEW reach, Writes(c, source, reach),
         NEW l, WriteOK(c, l, source, reach), Left(l)
  PROVE  WriteAgrees(c, l, source, reach)
<1>1. /\ c \in Channel /\ Sane(c) /\ source \in Seq(Int) /\ LoopOK(c, l, source, reach)
      /\ c.next \in Nat /\ c.limit \in Nat
  BY ChannelParts DEF Writes, Sane, WriteOK
<1>2. reach \in Nat
  BY <1>1 DEF Writes
<1>3. CASE l.at = "done" /\ Exhausted(l, source)
  <2>1. /\ ~Overruns(c, Len(source), reach)
        /\ BytesIn(c, Len(source), reach) = l.read
        /\ BytesOut(c, Len(source), reach) = Len(l.wrote)
        /\ FillAfter(c, Len(source), reach) = l.limit
    BY <1>1, <1>2, <1>3, ExhaustedCounts
  <2>2. Moves(c, l, source, reach)
    BY <1>1, <1>2, <2>1, LoopMoves
  <2> QED BY <1>3, <2>1, <2>2 DEF WriteAgrees, WriteFails
<1>4. CASE Blocked(l, reach) /\ (l.at = "fault" <=> c.next + reach < c.limit)
  <2>1. /\ Overruns(c, Len(source), reach)
        /\ BytesIn(c, Len(source), reach) = l.read
        /\ BytesOut(c, Len(source), reach) = Len(l.wrote)
        /\ FillAfter(c, Len(source), reach) = l.limit
    BY <1>1, <1>2, <1>4, BlockedCounts
  <2>2. Moves(c, l, source, reach)
    BY <1>1, <1>2, <2>1, LoopMoves
  <2> QED BY <1>4, <2>1, <2>2 DEF WriteAgrees, WriteFails
<1>5. c.next + reach >= c.limit => ~(c.next + reach < c.limit)
  BY <1>1, <1>2
<1> QED BY <1>3, <1>4, <1>5 DEF WriteOK, Left

(***************************************************************************)
(* dma_esp_read_memory.  Words enter the buffer whole.                      *)
(***************************************************************************)
ReadOK(c, l, source, room) ==
  /\ LoopOK(c, l, source, room)
  /\ Multiple(l.limit) /\ Multiple(l.read)
  /\ l.at = "empty" => l.limit = Burst
  /\ l.at = "top" => l.limit < Burst \/ l.read = 0
  /\ l.at = "done" => \/ Exhausted(l, source) /\ c.next + Len(source) >= c.limit
                      \/ Blocked(l, room)
  /\ l.at = "fault" => Exhausted(l, source) /\ c.next + Len(source) < c.limit

(* A call that may be made; the source is memory as far as it answers, to   *)
(* the end of a word.                                                       *)
Reads(c, source, room) ==
  /\ Sane(c) /\ ~c.dev2m /\ c.next < c.limit
  /\ source \in Seq(Int) /\ room \in Nat
  /\ Len(source) <= c.limit - c.next /\ Multiple(Len(source))

LEMMA ReadEnter ==
  ASSUME NEW c, NEW source, NEW room, Reads(c, source, room)
  PROVE  ReadOK(c, EnterLoop(c), source, room)
<1>1. /\ LoopOK(c, EnterLoop(c), source, room) /\ EnterLoop(c).at = "top"
      /\ EnterLoop(c).read = 0 /\ EnterLoop(c).limit = c.fill
  BY EnterOK DEF Reads
<1>2. Multiple(c.fill)
  BY DEF Reads, Sane
<1> QED BY <1>1, <1>2, MultipleZero DEF ReadOK

LEMMA ReadStepOK ==
  ASSUME NEW c, NEW source, NEW room, Reads(c, source, room),
         NEW l, ReadOK(c, l, source, room)
  PROVE  LET t == ReadStep(c, l, source, room)
         IN /\ ReadOK(c, t, source, room)
            /\ ~Left(l) => Effort(t, source, room) < Effort(l, source, room)
            /\ Left(l) => t = l
<1>. DEFINE t == ReadStep(c, l, source, room)
            w == Len(l.wrote)
            s == Len(source)
            rd == l.read
            a == c.next
            z == c.limit
<1>1. /\ c \in Channel /\ source \in Seq(Int) /\ room \in Nat
      /\ Burst \in Nat \ {0} /\ Word \in Nat \ {0}
      /\ LoopOK(c, l, source, room) /\ l \in Loops
  BY DmaAssumption DEF Reads, Sane, ReadOK, LoopOK
<1>2. a \in Nat /\ z \in Nat /\ s \in Nat /\ s <= z - a /\ a < z
  BY <1>1, ChannelParts DEF Reads
<1>3. /\ l.limit \in 0..Burst /\ l.size \in Int /\ rd \in Nat /\ w \in Nat
      /\ rd <= s /\ w <= room /\ l.limit - l.size \in 0..Burst
      /\ l.at \in {"top", "fill", "empty", "done", "fault"}
  BY <1>1, LoopParts DEF LoopOK, Places
<1>4. Multiple(l.limit) /\ Multiple(rd) /\ Multiple(s)
  BY DEF ReadOK, Reads
<1>. HIDE DEF w, s, rd, a, z
<1>5. CASE l.at = "top" /\ a + rd < z
  <2>1. t = Goto(l, "fill")
    BY <1>5 DEF ReadStep, a, rd, z
  <2>2. /\ LoopOK(c, t, source, room) /\ t.at = "fill" /\ t.limit = l.limit
        /\ t.size = l.size /\ t.read = rd /\ t.wrote = l.wrote
    BY <1>1, <2>1, GotoOK DEF rd
  <2>. HIDE DEF t
  <2>3. ReadOK(c, t, source, room)
    BY <1>4, <2>2 DEF ReadOK
  <2>4. Rank(t) < Rank(l)
    BY <1>5, <2>2 DEF Rank
  <2>5. Effort(t, source, room) < Effort(l, source, room)
    BY <1>1, <2>2, <2>4, EffortPlace DEF rd
  <2> QED BY <1>5, <2>3, <2>5 DEF t, Left
<1>6. CASE l.at = "top" /\ ~(a + rd < z)
  <2>1. t = Goto(l, "done")
    BY <1>6 DEF ReadStep, a, rd, z
  <2>0. rd = s /\ l.limit < Burst /\ a + s >= z
    <3>1. rd = s /\ ~(rd = 0) /\ a + s >= z
      BY <1>2, <1>3, <1>6
    <3> QED BY <1>6, <3>1 DEF ReadOK, rd
  <2>2. /\ LoopOK(c, t, source, room) /\ t.at = "done" /\ t.limit = l.limit
        /\ t.size = l.size /\ t.read = rd /\ t.wrote = l.wrote
    BY <1>1, <2>1, GotoOK DEF rd
  <2>. HIDE DEF t
  <2>3. ReadOK(c, t, source, room)
    <3>1. Exhausted(t, source)
      BY <2>0, <2>2 DEF Exhausted, s
    <3> QED BY <1>4, <2>0, <2>2, <3>1 DEF ReadOK, a, z, s
  <2>4. Rank(t) < Rank(l)
    BY <1>6, <2>2 DEF Rank
  <2>5. Effort(t, source, room) < Effort(l, source, room)
    BY <1>1, <2>2, <2>4, EffortPlace DEF rd
  <2> QED BY <1>6, <2>3, <2>5 DEF t, Left
<1>7. CASE l.at = "fill" /\ l.limit >= Burst
  <2>1. t = Goto(l, "empty")
    BY <1>7 DEF ReadStep
  <2>0. l.limit = Burst
    BY <1>1, <1>3, <1>7
  <2>2. /\ LoopOK(c, t, source, room) /\ t.at = "empty" /\ t.limit = l.limit
        /\ t.size = l.size /\ t.read = rd /\ t.wrote = l.wrote
    BY <1>1, <2>1, GotoOK DEF rd
  <2>. HIDE DEF t
  <2>3. ReadOK(c, t, source, room)
    BY <1>4, <2>0, <2>2 DEF ReadOK
  <2>4. Rank(t) < Rank(l)
    BY <1>7, <2>0, <2>2 DEF Rank
  <2>5. Effort(t, source, room) < Effort(l, source, room)
    BY <1>1, <2>2, <2>4, EffortPlace DEF rd
  <2> QED BY <1>7, <2>3, <2>5 DEF t, Left
<1>8. CASE l.at = "fill" /\ l.limit < Burst /\ rd < s
  <2>1. t = Fetch(l, source, Word)
    <3>1. ~(l.limit >= Burst) /\ ~(rd >= s) /\ a + rd < z
      BY <1>1, <1>2, <1>3, <1>8
    <3> QED BY <1>8, <3>1 DEF ReadStep, s, rd, a, z
  <2>5. Word \in Int /\ Multiple(Word)
    BY MultipleWord
  <2>0. l.limit + Word <= Burst /\ rd + Word <= s
    <3>1. Multiple(Burst - l.limit) /\ Burst - l.limit \in Int /\ Burst - l.limit > 0
      <4>1. l.limit \in Int /\ Burst - l.limit \in Int /\ Burst - l.limit > 0
        BY <1>1, <1>3, <1>8
      <4> QED BY <1>4, <4>1, MultipleBurst, Multiples
    <3>2. Burst - l.limit >= Word
      BY <3>1, MultipleStep
    <3>3. Multiple(s - rd) /\ s - rd \in Int /\ s - rd > 0
      <4>1. s \in Int /\ rd \in Int /\ s - rd \in Int /\ s - rd > 0
        BY <1>2, <1>3, <1>8
      <4> QED BY <1>4, <4>1, Multiples
    <3>4. s - rd >= Word
      BY <3>3, MultipleStep
    <3> QED BY <1>1, <1>2, <1>3, <3>2, <3>4
  <2>2. /\ LoopOK(c, t, source, room) /\ t.at = "fill" /\ t.limit = l.limit + Word
        /\ t.size = l.size + Word /\ t.read = rd + Word /\ t.wrote = l.wrote
    <3>1. Word \in Nat /\ Word >= 1 /\ l.read + Word <= Len(source)
      BY <1>1, <2>0 DEF rd, s
    <3> QED BY <1>1, <1>8, <2>0, <2>1, <3>1, FetchOK DEF rd
  <2>. HIDE DEF t
  <2>3. ReadOK(c, t, source, room)
    <3>0. l.limit \in Int
      BY <1>1, <1>3
    <3>1. Multiple(l.limit + Word)
      BY <1>4, <2>5, <3>0, Multiples
    <3>2. Multiple(rd + Word)
      BY <1>3, <1>4, <2>5, Multiples
    <3> QED BY <2>2, <3>1, <3>2 DEF ReadOK
  <2>4. Rank(t) <= Rank(l) + 3
    <3>0. l.limit # Burst
      BY <1>1, <1>3, <1>8
    <3>1. Rank(l) = 1 /\ Rank(t) \in {1, 4}
      BY <1>8, <2>2, <3>0 DEF Rank
    <3> QED BY <3>1
  <2>6. Ahead(t, source, room) < Ahead(l, source, room)
    <3>1. (s - (rd + Word)) + (room - w) < (s - rd) + (room - w)
      BY <1>1, <1>2, <1>3
    <3> QED BY <2>2, <3>1 DEF Ahead, s, w, rd
  <2>7. Effort(t, source, room) < Effort(l, source, room)
    BY <1>1, <2>2, <2>4, <2>6, EffortBytes
  <2> QED BY <1>8, <2>3, <2>7 DEF t, Left
<1>9. CASE l.at = "fill" /\ l.limit < Burst /\ ~(rd < s)
  <2>. DEFINE place == IF a + rd < z THEN "fault" ELSE "done"
  <2>1. t = Goto(l, place)
    <3>1. ~(l.limit >= Burst) /\ rd >= s
      BY <1>1, <1>2, <1>3, <1>9
    <3> QED BY <1>9, <3>1 DEF ReadStep, s, rd, a, z
  <2>0. rd = s
    BY <1>2, <1>3, <1>9
  <2>2. /\ LoopOK(c, t, source, room) /\ t.at = place /\ t.limit = l.limit
        /\ t.size = l.size /\ t.read = rd /\ t.wrote = l.wrote
    <3>1. place \in {"top", "fill", "empty", "done", "fault"}
      OBVIOUS
    <3>. HIDE DEF place
    <3> QED BY <1>1, <2>1, <3>1, GotoOK DEF rd
  <2>. HIDE DEF t
  <2>3. Exhausted(t, source)
    BY <1>9, <2>0, <2>2 DEF Exhausted, s
  <2>4. /\ t.at = "fault" => a + s < z
        /\ t.at = "done" => a + s >= z
        /\ t.at \in {"fault", "done"}
    BY <1>2, <2>0, <2>2
  <2>5. ReadOK(c, t, source, room)
    BY <1>4, <2>2, <2>3, <2>4 DEF ReadOK, s, a, z
  <2>6. Rank(t) < Rank(l)
    BY <1>9, <2>4 DEF Rank
  <2>7. Effort(t, source, room) < Effort(l, source, room)
    BY <1>1, <2>2, <2>6, EffortPlace DEF rd
  <2> QED BY <1>9, <2>5, <2>7 DEF t, Left
<1>10. CASE l.at = "empty" /\ l.size > 0 /\ w < room
  <2>0. l.limit = Burst
    BY <1>10 DEF ReadOK
  <2>1. t = Store(l, Burst - l.size, 1)
    BY <1>10, <2>0 DEF ReadStep, w
  <2>2. /\ LoopOK(c, t, source, room) /\ t.at = "empty" /\ t.limit = l.limit
        /\ t.size = l.size - 1 /\ t.read = rd /\ Len(t.wrote) = w + 1
    <3>1. l.size >= 1 /\ Len(l.wrote) + 1 <= room
      BY <1>1, <1>3, <1>10 DEF w
    <3> QED BY <1>1, <1>10, <2>0, <2>1, <3>1, StoreOK DEF w, rd
  <2>. HIDE DEF t
  <2>3. ReadOK(c, t, source, room)
    BY <1>4, <2>0, <2>2 DEF ReadOK
  <2>4. Rank(t) <= Rank(l) + 3
    <3>1. Rank(l) = 3 /\ Rank(t) = 3
      BY <1>10, <2>2 DEF Rank
    <3> QED BY <3>1
  <2>5. Ahead(t, source, room) < Ahead(l, source, room)
    <3>1. (s - rd) + (room - (w + 1)) < (s - rd) + (room - w)
      BY <1>1, <1>2, <1>3
    <3> QED BY <2>2, <3>1 DEF Ahead, s, w, rd
  <2>6. Effort(t, source, room) < Effort(l, source, room)
    BY <1>1, <2>2, <2>4, <2>5, EffortBytes
  <2> QED BY <1>10, <2>3, <2>6 DEF t, Left
<1>11. CASE l.at = "empty" /\ l.size > 0 /\ ~(w < room)
  <2>0. l.limit = Burst /\ w = room
    <3>1. l.limit = Burst
      BY <1>11 DEF ReadOK
    <3> QED BY <1>1, <1>3, <1>11, <3>1
  <2>1. t = Goto(l, "done")
    BY <1>11 DEF ReadStep, w
  <2>2. /\ LoopOK(c, t, source, room) /\ t.at = "done" /\ t.limit = l.limit
        /\ t.size = l.size /\ t.read = rd /\ t.wrote = l.wrote
    BY <1>1, <2>1, GotoOK DEF rd
  <2>. HIDE DEF t
  <2>3. Blocked(t, room)
    BY <1>11, <2>0, <2>2 DEF Blocked, w
  <2>4. ReadOK(c, t, source, room)
    BY <1>4, <2>2, <2>3 DEF ReadOK
  <2>5. Rank(t) < Rank(l)
    BY <1>11, <2>2 DEF Rank
  <2>6. Effort(t, source, room) < Effort(l, source, room)
    BY <1>1, <2>2, <2>5, EffortPlace DEF rd
  <2> QED BY <1>11, <2>4, <2>6 DEF t, Left
<1>12. CASE l.at = "empty" /\ ~(l.size > 0)
  <2>0. l.limit = Burst /\ l.size = 0
    <3>1. l.limit = Burst
      BY <1>12 DEF ReadOK
    <3> QED BY <1>1, <1>3, <1>12, <3>1
  <2>1. t = NextBurst(l)
    BY <1>12 DEF ReadStep
  <2>2. /\ LoopOK(c, t, source, room) /\ t.at = "top" /\ t.limit = 0
        /\ t.size = 0 /\ t.read = rd /\ t.wrote = l.wrote
    BY <1>1, <2>0, <2>1, NextOK DEF rd
  <2>. HIDE DEF t
  <2>3. ReadOK(c, t, source, room)
    <3>1. 0 < Burst /\ Multiple(0)
      BY <1>1, MultipleZero
    <3>2. Multiple(t.limit) /\ Multiple(t.read) /\ t.limit < Burst
      BY <1>4, <2>2, <3>1
    <3> QED BY <2>2, <3>2 DEF ReadOK
  <2>4. Rank(t) < Rank(l)
    <3>1. Rank(l) = 3 /\ Rank(t) = 2
      BY <1>1, <1>12, <2>2 DEF Rank
    <3> QED BY <3>1
  <2>5. Effort(t, source, room) < Effort(l, source, room)
    BY <1>1, <2>2, <2>4, EffortPlace DEF rd
  <2> QED BY <1>12, <2>3, <2>5 DEF t, Left
<1>13. CASE Left(l)
  <2>1. t = l
    BY <1>13 DEF ReadStep, Left
  <2>2. ReadOK(c, t, source, room)
    BY <2>1
  <2> QED BY <1>13, <2>1, <2>2
<1>14. l.limit >= Burst \/ l.limit < Burst
  BY <1>1, <1>3
<1> QED
  BY <1>3, <1>5, <1>6, <1>7, <1>8, <1>9, <1>10, <1>11, <1>12, <1>13, <1>14 DEF Left

LEMMA ReadLeft ==
  ASSUME NEW c, NEW source, NEW room, Reads(c, source, room),
         NEW l, ReadOK(c, l, source, room), Left(l)
  PROVE  ReadAgrees(c, l, source, room)
<1>1. /\ c \in Channel /\ Sane(c) /\ source \in Seq(Int) /\ LoopOK(c, l, source, room)
      /\ c.next \in Nat /\ c.limit \in Nat /\ room \in Nat /\ Len(source) \in Nat
  BY ChannelParts DEF Reads, Sane, ReadOK
<1>2. CASE Exhausted(l, source) /\ (l.at = "fault" <=> c.next + Len(source) < c.limit)
  <2>1. /\ ~Overruns(c, Len(source), room)
        /\ BytesIn(c, Len(source), room) = l.read
        /\ BytesOut(c, Len(source), room) = Len(l.wrote)
        /\ FillAfter(c, Len(source), room) = l.limit
    BY <1>1, <1>2, ExhaustedCounts
  <2>2. Moves(c, l, source, room)
    BY <1>1, <2>1, LoopMoves
  <2> QED BY <1>2, <2>1, <2>2 DEF ReadAgrees, ReadFails
<1>3. CASE Blocked(l, room) /\ l.at = "done"
  <2>1. /\ Overruns(c, Len(source), room)
        /\ BytesIn(c, Len(source), room) = l.read
        /\ BytesOut(c, Len(source), room) = Len(l.wrote)
        /\ FillAfter(c, Len(source), room) = l.limit
    BY <1>1, <1>3, BlockedCounts
  <2>2. Moves(c, l, source, room)
    BY <1>1, <2>1, LoopMoves
  <2> QED BY <1>3, <2>1, <2>2 DEF ReadAgrees, ReadFails
<1>4. c.next + Len(source) >= c.limit => ~(c.next + Len(source) < c.limit)
  BY <1>1
<1> QED BY <1>2, <1>3, <1>4 DEF ReadOK, Left

(***************************************************************************)
(* A call, as the steps of its loop.                                        *)
(***************************************************************************)
VARIABLE loop

WriteCall(c, source, reach) ==
  loop = EnterLoop(c) /\ [][loop' = WriteStep(c, loop, source, reach)]_loop

ReadCall(c, source, room) ==
  loop = EnterLoop(c) /\ [][loop' = ReadStep(c, loop, source, room)]_loop

(* When dma_esp_write_memory has left its loop it has taken from the        *)
(* device, written to memory and kept in espdma_buf just the bytes that Dma *)
(* says, and it has met a bus error just when Dma says, for every size of   *)
(* word and burst, whatever was in the buffer, however many bytes the       *)
(* device has and wherever memory fails.                                    *)
THEOREM WriteLoopMoves ==
  ASSUME NEW CONSTANT c, NEW CONSTANT source, NEW CONSTANT reach, Writes(c, source, reach)
  PROVE  WriteCall(c, source, reach) =>
           [](Left(loop) => WriteAgrees(c, loop, source, reach))
<1>1. loop = EnterLoop(c) => WriteOK(c, loop, source, reach)
  BY WriteEnter
<1>2. ASSUME WriteOK(c, loop, source, reach), [loop' = WriteStep(c, loop, source, reach)]_loop
      PROVE  WriteOK(c, loop, source, reach)'
  <2>1. CASE loop' = WriteStep(c, loop, source, reach)
    BY <1>2, <2>1, WriteStepOK
  <2>2. CASE UNCHANGED loop
    BY <1>2, <2>2
  <2> QED BY <1>2, <2>1, <2>2
<1>3. WriteOK(c, loop, source, reach) =>
        (Left(loop) => WriteAgrees(c, loop, source, reach))
  BY WriteLeft
<1> QED BY <1>1, <1>2, <1>3, PTL DEF WriteCall

(* The loop of dma_esp_write_memory ends: every step lowers a natural       *)
(* number, until it has been left.                                          *)
THEOREM WriteLoopEnds ==
  ASSUME NEW CONSTANT c, NEW CONSTANT source, NEW CONSTANT reach, Writes(c, source, reach)
  PROVE  WriteCall(c, source, reach) =>
           /\ [](Effort(loop, source, reach) \in Nat)
           /\ [][Effort(loop', source, reach) < Effort(loop, source, reach)]_loop
<1>1. loop = EnterLoop(c) => WriteOK(c, loop, source, reach)
  BY WriteEnter
<1>2. ASSUME WriteOK(c, loop, source, reach), [loop' = WriteStep(c, loop, source, reach)]_loop
      PROVE  /\ WriteOK(c, loop, source, reach)'
             /\ [Effort(loop', source, reach) < Effort(loop, source, reach)]_loop
  <2>1. CASE loop' = WriteStep(c, loop, source, reach)
    BY <1>2, <2>1, WriteStepOK
  <2>2. CASE UNCHANGED loop
    BY <1>2, <2>2
  <2> QED BY <1>2, <2>1, <2>2
<1>3. WriteOK(c, loop, source, reach) => Effort(loop, source, reach) \in Nat
  <2>1. source \in Seq(Int) /\ reach \in Nat
    BY ChannelParts DEF Writes, Sane
  <2> QED BY <2>1, EffortType DEF WriteOK
<1> QED BY <1>1, <1>2, <1>3, PTL DEF WriteCall

(* The same of dma_esp_read_memory, whatever room the device has and        *)
(* wherever memory fails.                                                   *)
THEOREM ReadLoopMoves ==
  ASSUME NEW CONSTANT c, NEW CONSTANT source, NEW CONSTANT room, Reads(c, source, room)
  PROVE  ReadCall(c, source, room) =>
           [](Left(loop) => ReadAgrees(c, loop, source, room))
<1>1. loop = EnterLoop(c) => ReadOK(c, loop, source, room)
  BY ReadEnter
<1>2. ASSUME ReadOK(c, loop, source, room), [loop' = ReadStep(c, loop, source, room)]_loop
      PROVE  ReadOK(c, loop, source, room)'
  <2>1. CASE loop' = ReadStep(c, loop, source, room)
    BY <1>2, <2>1, ReadStepOK
  <2>2. CASE UNCHANGED loop
    BY <1>2, <2>2
  <2> QED BY <1>2, <2>1, <2>2
<1>3. ReadOK(c, loop, source, room) =>
        (Left(loop) => ReadAgrees(c, loop, source, room))
  BY ReadLeft
<1> QED BY <1>1, <1>2, <1>3, PTL DEF ReadCall

(* The loop of dma_esp_read_memory ends.                                    *)
THEOREM ReadLoopEnds ==
  ASSUME NEW CONSTANT c, NEW CONSTANT source, NEW CONSTANT room, Reads(c, source, room)
  PROVE  ReadCall(c, source, room) =>
           /\ [](Effort(loop, source, room) \in Nat)
           /\ [][Effort(loop', source, room) < Effort(loop, source, room)]_loop
<1>1. loop = EnterLoop(c) => ReadOK(c, loop, source, room)
  BY ReadEnter
<1>2. ASSUME ReadOK(c, loop, source, room), [loop' = ReadStep(c, loop, source, room)]_loop
      PROVE  /\ ReadOK(c, loop, source, room)'
             /\ [Effort(loop', source, room) < Effort(loop, source, room)]_loop
  <2>1. CASE loop' = ReadStep(c, loop, source, room)
    BY <1>2, <2>1, ReadStepOK
  <2>2. CASE UNCHANGED loop
    BY <1>2, <2>2
  <2> QED BY <1>2, <2>1, <2>2
<1>3. ReadOK(c, loop, source, room) => Effort(loop, source, room) \in Nat
  BY EffortType DEF Reads, ReadOK
<1> QED BY <1>1, <1>2, <1>3, PTL DEF ReadCall
================================================================================
