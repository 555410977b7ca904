-------------------------- MODULE BlockCacheProofs --------------------------
(***************************************************************************)
(* Proofs that the block cache never leads to stale native code, for every *)
(* number of blocks, every layout of spans, lines and pages, both edge     *)
(* policies and any mix of announced and unannounced writers.              *)
(***************************************************************************)
EXTENDS BlockCache, TLAPS, SequenceTheorems, FiniteSetTheorems

(***************************************************************************)
(* The inductive invariant.  All native pointers to a block agree with its *)
(* direct_handler (BlockOK, EdgeOK, LineOK), so it is enough to keep that  *)
(* one fresh while the block can run, and to keep it out of reach (stub    *)
(* handlers, or a spent countdown) while it cannot.                        *)
(***************************************************************************)
Compiling == at \in {"compile", "link"} \/ (at = "check" /\ ret = "link")
Held == {"ACTIVE", "NEED_CHECK", "CHECKING", "COMPILING"}
Live == {"ACTIVE", "CHECKING", "COMPILING"}

Native(p) == p.k = "native"
Fresh(p) == \A x \in Span[p.blk] \ unseen : p.from[x] = mem[x]

ThreadOK ==
  /\ \A b \in Addr : status[b] = "COMPILING" <=> Compiling /\ b = pc
  /\ \A b \in Addr : status[b] = "CHECKING" <=> \E i \in 1 .. Len(stk) : stk[i][1] = b
  /\ \A i, j \in 1 .. Len(stk) : stk[i][1] = stk[j][1] => i = j
  /\ at # "check" => stk = << >>
  /\ at = "check" => cur \in Addr
  /\ at = "link" \/ (at = "check" /\ ret = "link") => target \in Addr /\ slot < MaxSuccs
  /\ at = "trace" => DOMAIN tr \subseteq Span[pc] /\ tr \in [DOMAIN tr -> Val]
  /\ at = "alloc" => tr = [x \in Span[pc] |-> mem[x]]

BlockOK(b) ==
  /\ status[b] = "FREE" => direct[b] = Null
  /\ status[b] \in {"FREE", "INVALID"} => hu[b] = EN
  /\ status[b] = "NEED_CHECK" => hu[b] = CC
  /\ Native(direct[b]) => direct[b].blk = b
  /\ status[b] \in Held => direct[b] # Null /\ (Native(direct[b]) => direct[b].from = xl[b])
  /\ status[b] \in Live => \A x \in Span[b] \ unseen : xl[b][x] = mem[x]
  /\ status[b] \in {"INVALID", "NEED_RECOMP"} => ~Runs(direct[b])
  /\ Native(hu[b]) => \/ hu[b] = direct[b]
                      \/ status[b] = "COMPILING" /\ hu[b].blk = b /\ (Runs(hu[b]) => Fresh(hu[b]))
  /\ status[b] = "ACTIVE" /\ b \notin Rom => b \in onActive
  /\ b \in onActive => status[b] # "FREE"

EdgeOK(e) ==
  /\ e \notin linked => jmp[e] = Null
  /\ e \in linked => dep[e] \in Addr
  /\ Native(jmp[e]) =>
       \/ status[dep[e]] # "NEED_CHECK" /\ jmp[e] = direct[dep[e]]
       \/ status[dep[e]] = "COMPILING" /\ jmp[e] = hu[dep[e]]

LineOK(l) ==
  \/ tag[l] \in {EN, CC}
  \/ head[l] \in Addr /\ LineOf[head[l]] = l /\ tag[l] = hu[head[l]]

CacheOK ==
  /\ unseen \cap Rom = {}
  /\ \A b \in Addr : BlockOK(b)
  /\ \A e \in Edges : EdgeOK(e)
  /\ \A l \in Lines : LineOK(l)
  /\ PageBitsCover

Inductive == TypeOK /\ ThreadOK /\ CacheOK

-----------------------------------------------------------------------------
(* Pointers: the stubs are not native, native pointers are records of code. *)
LEMMA PointerFacts ==
  /\ EN.k # "native" /\ CC.k # "native" /\ Null.k # "native"
  /\ EN # CC /\ EN # Null /\ CC # Null
  /\ EN \in Pointers /\ CC \in Pointers /\ Null \notin Pointers
  /\ \A p \in Pointers \cup {Null} : p.k = "native" => p \in Codes
  /\ Codes \subseteq Pointers
  /\ \A p \in Codes : /\ p.k = "native" /\ p.blk \in Addr /\ p # Null
                      /\ p.from \in [Span[p.blk] -> Val] /\ p.ctr \in BOOLEAN
  /\ \A a \in Addr : \A f \in [Span[a] -> Val] : \A c \in BOOLEAN :
        /\ Code(a, f, c) \in Codes /\ Code(a, f, c).k = "native"
        /\ Code(a, f, c).blk = a /\ Code(a, f, c).from = f /\ Code(a, f, c).ctr = c
<1>1. \A a \in Addr : \A f \in [Span[a] -> Val] : \A c \in BOOLEAN :
        /\ Code(a, f, c) \in Codes /\ Code(a, f, c).k = "native"
        /\ Code(a, f, c).blk = a /\ Code(a, f, c).from = f /\ Code(a, f, c).ctr = c
  BY DEF Code, Codes
<1>2. ASSUME NEW p \in Codes
      PROVE /\ p.k = "native" /\ p.blk \in Addr /\ p # Null
            /\ p.from \in [Span[p.blk] -> Val] /\ p.ctr \in BOOLEAN
  <2>1. PICK a \in Addr : p \in {Code(a, f, ctr) : f \in [Span[a] -> Val], ctr \in BOOLEAN}
    BY DEF Codes
  <2>2. PICK f \in [Span[a] -> Val], c \in BOOLEAN : p = Code(a, f, c)
    BY <2>1
  <2> QED
    BY <1>1, <2>2 DEF Null
<1>3. /\ EN.k # "native" /\ CC.k # "native" /\ Null.k # "native"
      /\ EN # CC /\ EN # Null /\ CC # Null
  <2>1. EN.k = "execute_normal" /\ CC.k = "check_checksum" /\ Null.k = "null"
    BY DEF EN, CC, Null
  <2> QED
    BY <2>1
<1> QED
  BY <1>1, <1>2, <1>3 DEF Pointers

-----------------------------------------------------------------------------
(* What each kind of change to the cache does to CacheOK.                   *)

\* A step that leaves the cache and guest memory alone keeps the cache in order.
LEMMA CacheKept ==
  ASSUME CacheOK, UNCHANGED <<mem, unseen, cacheVars>>
  PROVE  CacheOK'
BY DEF CacheOK, BlockOK, EdgeOK, LineOK, PageBitsCover, cacheVars, Native, Fresh, Runs,
       CodePages

(* raise_in_cl_list alone.                                                  *)
LEMMA CacheRaised ==
  ASSUME TypeOK, CacheOK, NEW a \in Addr, raise_in_cl_list(a, hu[a]),
         UNCHANGED <<mem, unseen, status, onActive, hu, direct, xl, count, dep, linked, prefer,
                     jmp, marked>>
  PROVE  CacheOK'
<1>1. \A b \in Addr : BlockOK(b)'
  BY DEF CacheOK, BlockOK, Native, Fresh, Runs
<1>2. \A e \in Edges : EdgeOK(e)'
  BY DEF CacheOK, EdgeOK, Native
<1>3. ASSUME NEW l \in Lines PROVE LineOK(l)'
  <2>1. LineOf[a] \in Lines
    BY DEF Lines
  <2> QED
    BY <2>1 DEF CacheOK, LineOK, raise_in_cl_list, TypeOK
<1> QED
  BY <1>1, <1>2, <1>3 DEF CacheOK, PageBitsCover, CodePages

(* flush_icache_hard.                                                       *)
LEMMA CacheFlushedHard ==
  ASSUME TypeOK, CacheOK, flush_icache_hard, UNCHANGED <<mem, unseen>>
  PROVE  CacheOK'
<1> USE PointerFacts
<1>1. ASSUME NEW b \in Addr PROVE BlockOK(b)'
  BY DEF CacheOK, BlockOK, Native, Fresh, Runs, flush_icache_hard, Held, Live
<1>2. ASSUME NEW e \in Edges PROVE EdgeOK(e)'
  BY DEF CacheOK, EdgeOK, Native, flush_icache_hard
<1>3. ASSUME NEW l \in Lines PROVE LineOK(l)'
  BY DEF CacheOK, LineOK, flush_icache_hard
<1>4. PageBitsCover'
  BY DEF PageBitsCover, flush_icache_hard
<1> QED
  BY <1>1, <1>2, <1>3, <1>4 DEF CacheOK

(* A write that is not announced.                                           *)
LEMMA CacheWrittenUnseen ==
  ASSUME TypeOK, CacheOK, NEW x \in Addr \ Rom, NEW v \in Val, PutUnseen(x, v)
  PROVE  CacheOK'
<1> USE DEF PutUnseen, Put, cacheVars
<1>1. ASSUME NEW b \in Addr PROVE BlockOK(b)'
  BY DEF CacheOK, BlockOK, Native, Fresh, Runs, TypeOK, Held, Live
<1>2. ASSUME NEW e \in Edges PROVE EdgeOK(e)'
  BY DEF CacheOK, EdgeOK, Native
<1>3. ASSUME NEW l \in Lines PROVE LineOK(l)'
  BY DEF CacheOK, LineOK
<1>4. PageBitsCover'
  BY DEF PageBitsCover, CacheOK, CodePages
<1> QED
  BY <1>1, <1>2, <1>3, <1>4 DEF CacheOK

(* A write announced to block_need_recompile, at a point where no block is  *)
(* being compiled or checked: every translation it makes stale is hit.      *)
LEMMA CacheWritten ==
  ASSUME TypeOK, CacheOK, NEW x \in Addr \ Rom, NEW v \in Val, NEW B \in SUBSET Checksummed,
         OnPage(x) \subseteq B,
         \A b \in Addr : status[b] \notin {"COMPILING", "CHECKING"},
         Put(x, v), block_need_recompile(B), marked' = marked \ {PageOf[x]}, UNCHANGED unseen
  PROVE  CacheOK'
<1> USE PointerFacts
<1>0. B \subseteq Addr \ Rom
  BY DEF Checksummed
<1>1. ASSUME NEW b \in Addr PROVE BlockOK(b)'
  <2>1. BlockOK(b)
    BY DEF CacheOK
  <2>2. CASE b \in B
    BY <2>1, <2>2 DEF BlockOK, block_need_recompile, Native, Fresh, Runs, TypeOK, Held, Live,
       Checksummed
  <2>3. CASE b \notin B
    <3>1. status[b] \in Live => x \notin Span[b]
      <4>1. CASE b \in Rom
        BY <4>1, ShapeAssumption
      <4>2. CASE b \notin Rom
        BY <2>3, <4>2 DEF Live, OnPage, Checksummed, CodePages
      <4> QED
        BY <4>1, <4>2
    <3>2. \A y \in Span[b] \ unseen : status[b] \in Live => mem'[y] = mem[y]
      BY <3>1, ShapeAssumption DEF Put, TypeOK
    <3> QED
      BY <2>1, <2>3, <3>2 DEF BlockOK, block_need_recompile, Native, Fresh, Runs, TypeOK, Held, Live
  <2> QED
    BY <2>2, <2>3
<1>2. ASSUME NEW e \in Edges PROVE EdgeOK(e)'
  <2>1. EdgeOK(e)
    BY DEF CacheOK
  <2>2. CASE e \in linked /\ dep[e] \in B
    BY <1>0, <2>1, <2>2 DEF EdgeOK, block_need_recompile, set_dhtu_policy, Native
  <2>3. CASE ~(e \in linked /\ dep[e] \in B)
    BY <1>0, <2>1, <2>3 DEF EdgeOK, block_need_recompile, set_dhtu_policy, Native
  <2> QED
    BY <2>2, <2>3
<1>3. ASSUME NEW l \in Lines PROVE LineOK(l)'
  BY DEF CacheOK, LineOK, block_need_recompile
<1>4. PageBitsCover'
  BY DEF PageBitsCover, CacheOK, CodePages, OnPage, Checksummed, block_need_recompile
<1> QED
  BY <1>1, <1>2, <1>3, <1>4 DEF CacheOK

(* flush_icache_lazy, at a point where no block is being compiled or        *)
(* checked.  The unannounced writes are forgotten: every RAM block that     *)
(* could run is on the active list and gets the checking stub.              *)
LEMMA CacheFlushedLazy ==
  ASSUME TypeOK, CacheOK, flush_icache_lazy, UNCHANGED mem, unseen' = {},
         \A b \in Addr : status[b] \notin {"COMPILING", "CHECKING"}
  PROVE  CacheOK'
<1> USE PointerFacts
<1>0. FlushedInvalid \subseteq onActive /\ onActive \subseteq Addr
  BY DEF FlushedInvalid, TypeOK
<1>1. ASSUME NEW b \in Addr PROVE BlockOK(b)'
  <2>1. BlockOK(b)
    BY DEF CacheOK
  <2>2. CASE b \in FlushedInvalid
    BY <1>0, <2>1, <2>2 DEF BlockOK, flush_icache_lazy, FlushedInvalid, Native, Runs, Held, Live
  <2>3. CASE b \in onActive \ FlushedInvalid
    BY <1>0, <2>1, <2>3 DEF BlockOK, flush_icache_lazy, FlushedInvalid, Native, Runs, Held, Live,
       TypeOK, Statuses
  <2>4. CASE b \notin onActive
    <3>1. status[b] \in Live => b \in Rom
      BY <2>1, <2>4 DEF BlockOK, Live
    <3>2. status[b] \in Live => Span[b] \cap unseen = {}
      BY <3>1, ShapeAssumption DEF CacheOK
    <3> QED
      BY <1>0, <2>1, <2>4, <3>2 DEF BlockOK, flush_icache_lazy, Native, Runs, Held, Live
  <2> QED
    BY <2>2, <2>3, <2>4
<1>2. ASSUME NEW e \in Edges PROVE EdgeOK(e)'
  <2>1. EdgeOK(e)
    BY DEF CacheOK
  <2>2. CASE e \notin linked
    BY <2>1, <2>2 DEF EdgeOK, flush_icache_lazy, LazyJumps, set_dhtu_policy, Native
  <2>3. CASE e \in linked /\ dep[e] \in FlushedInvalid
    BY <1>0, <2>1, <2>3 DEF EdgeOK, flush_icache_lazy, LazyJumps, set_dhtu_policy, Native,
       FlushedInvalid
  <2>4. CASE e \in linked /\ dep[e] \in onActive \ FlushedInvalid
    BY <1>0, <2>1, <2>4 DEF EdgeOK, flush_icache_lazy, LazyJumps, set_dhtu_policy, Native
  <2>5. CASE e \in linked /\ dep[e] \notin onActive
    BY <1>0, <2>1, <2>5 DEF EdgeOK, flush_icache_lazy, LazyJumps, set_dhtu_policy, Native
  <2> QED
    BY <2>2, <2>3, <2>4, <2>5
<1>3. ASSUME NEW l \in Lines PROVE LineOK(l)'
  BY <1>0 DEF CacheOK, LineOK, flush_icache_lazy, TypeOK
<1>4. PageBitsCover'
  BY DEF PageBitsCover, CacheOK, BlockOK, CodePages, flush_icache_lazy, FlushedInvalid, TypeOK, Statuses
<1> QED
  BY <1>1, <1>2, <1>3, <1>4 DEF CacheOK

(* A spent countdown: all native pointers to the block are the one that was *)
(* followed, so all of them are diverted now.                               *)
LEMMA CacheRecompile ==
  ASSUME TypeOK, CacheOK, NEW a \in Addr, NEW p, p = direct[a], Native(p), p.ctr,
         status[a] # "COMPILING", status[a] # "CHECKING",
         raise_in_cl_list(a, hu[a]),
         status' = [status EXCEPT ![a] = "NEED_RECOMP"],
         count' = [count EXCEPT ![a] = "out"],
         UNCHANGED <<mem, unseen, onActive, hu, direct, xl, dep, linked, prefer, jmp, marked>>
  PROVE  CacheOK'
<1> USE PointerFacts
<1>1. ASSUME NEW b \in Addr PROVE BlockOK(b)'
  <2>1. BlockOK(b)
    BY DEF CacheOK
  <2>2. CASE b = a
    BY <2>1, <2>2 DEF BlockOK, Native, Runs, Held, Live, TypeOK
  <2>3. CASE b # a
    <3>1. status'[b] = status[b] /\ count'[b] = count[b]
      BY <2>3 DEF TypeOK
    <3>2. Native(direct[b]) => Runs(direct[b])' = Runs(direct[b])
      BY <2>1, <3>1 DEF BlockOK, Native, Runs
    <3>3. Native(hu[b]) => Runs(hu[b])' = Runs(hu[b])
      BY <2>1, <3>1 DEF BlockOK, Native, Runs
    <3> QED
      BY <2>1, <3>1, <3>2, <3>3 DEF BlockOK, Native, Runs, Fresh, Held, Live
  <2> QED
    BY <2>2, <2>3
<1>2. ASSUME NEW e \in Edges PROVE EdgeOK(e)'
  <2>1. EdgeOK(e)
    BY DEF CacheOK
  <2> QED
    BY <2>1 DEF EdgeOK, Native, TypeOK
<1>3. ASSUME NEW l \in Lines PROVE LineOK(l)'
  <2>1. LineOf[a] \in Lines
    BY DEF Lines
  <2> QED
    BY <2>1 DEF CacheOK, LineOK, raise_in_cl_list, TypeOK
<1>4. PageBitsCover'
  BY DEF PageBitsCover, CacheOK, CodePages, TypeOK
<1> QED
  BY <1>1, <1>2, <1>3, <1>4 DEF CacheOK

(* invalidate_block followed by raise_in_cl_list (block_check_checksum).    *)
LEMMA CacheInvalidated ==
  ASSUME TypeOK, CacheOK, NEW a \in Addr, status[a] \in {"NEED_CHECK", "CHECKING"},
         invalidate_block(a), raise_in_cl_list(a, EN),
         UNCHANGED <<mem, unseen, onActive, xl, marked>>
  PROVE  CacheOK'
<1> USE PointerFacts
<1>1. ASSUME NEW b \in Addr PROVE BlockOK(b)'
  <2>1. BlockOK(b)
    BY DEF CacheOK
  <2>2. CASE b = a
    BY <2>1, <2>2 DEF BlockOK, Native, Runs, Held, Live, TypeOK, invalidate_block
  <2>3. CASE b # a
    <3>1. /\ status'[b] = status[b] /\ count'[b] = count[b]
          /\ hu'[b] = hu[b] /\ direct'[b] = direct[b]
      BY <2>3 DEF TypeOK, invalidate_block
    <3>2. Native(direct[b]) => Runs(direct[b])' = Runs(direct[b])
      BY <2>1, <3>1 DEF BlockOK, Native, Runs
    <3>3. Native(hu[b]) => Runs(hu[b])' = Runs(hu[b])
      BY <2>1, <3>1 DEF BlockOK, Native, Runs
    <3> QED
      BY <2>1, <3>1, <3>2, <3>3 DEF BlockOK, Native, Runs, Fresh, Held, Live
  <2> QED
    BY <2>2, <2>3
<1>2. ASSUME NEW e \in Edges PROVE EdgeOK(e)'
  <2>1. EdgeOK(e)
    BY DEF CacheOK
  <2>2. CASE e[1] = a
    <3>1. e \in OwnEdges(a)
      BY <2>2 DEF OwnEdges, Edges
    <3> QED
      BY <2>1, <2>2, <3>1 DEF EdgeOK, Native, TypeOK, invalidate_block, Discard
  <2>3. CASE e[1] # a
    <3>1. e \notin OwnEdges(a)
      BY <2>3 DEF OwnEdges, Edges
    <3>2. dep'[e] = dep[e] /\ (e \in linked' <=> e \in linked)
      BY <2>3, <3>1 DEF invalidate_block
    <3>3. jmp'[e] = IF e \in linked /\ dep[e] = a THEN EN ELSE jmp[e]
      BY <2>3 DEF invalidate_block, Discard, set_dhtu_policy, TypeOK
    <3>4. CASE e \in linked /\ dep[e] = a
      BY <2>1, <3>2, <3>3, <3>4 DEF EdgeOK, Native
    <3>5. CASE e \in linked /\ dep[e] # a
      BY <2>1, <3>2, <3>3, <3>5 DEF EdgeOK, Native, TypeOK, invalidate_block
    <3>6. CASE e \notin linked
      BY <2>1, <3>2, <3>3, <3>6 DEF EdgeOK, Native
    <3> QED
      BY <3>4, <3>5, <3>6
  <2> QED
    BY <2>2, <2>3
<1>3. ASSUME NEW l \in Lines PROVE LineOK(l)'
  <2>1. LineOf[a] \in Lines
    BY DEF Lines
  <2> QED
    BY <2>1 DEF CacheOK, LineOK, raise_in_cl_list, TypeOK, invalidate_block
<1>4. PageBitsCover'
  BY DEF PageBitsCover, CacheOK, CodePages, TypeOK, invalidate_block
<1> QED
  BY <1>1, <1>2, <1>3, <1>4 DEF CacheOK

(* compile_block up to BI_COMPILING: the old code may still be handler_to_use *)
(* of the block, and is then fresh or behind a spent countdown.             *)
LEMMA CacheStarted ==
  ASSUME TypeOK, CacheOK, at = "alloc", tr = [x \in Span[pc] |-> mem[x]], CompileStart,
         status[pc] # "COMPILING", status[pc] # "CHECKING"
  PROVE  CacheOK'
<1> USE PointerFacts
<1> DEFINE b == pc
           n == IF count[b] # "out" THEN count[b]
                ELSE IF StableEdges /\ ~(status[b] # "FREE" /\ status[b] # "INVALID")
                     THEN "armed" ELSE "off"
           c == Code(b, tr, n = "armed")
<1>0. b \in Addr /\ tr \in [Span[b] -> Val]
  <2>1. b \in Addr
    BY DEF TypeOK
  <2> QED
    BY <2>1, ShapeAssumption DEF TypeOK
<1>c. c \in Codes /\ Native(c) /\ c.blk = b /\ c.from = tr
  <2>1. PICK g \in BOOLEAN : g = (n = "armed")
    OBVIOUS
  <2>2. Code(b, tr, g) \in Codes /\ Native(Code(b, tr, g))
        /\ Code(b, tr, g).blk = b /\ Code(b, tr, g).from = tr
    BY <1>0 DEF Native
  <2> QED
    BY <2>1, <2>2, Zenon
<1>s. /\ status' = [status EXCEPT ![b] = "COMPILING"]
      /\ onActive' = IF status[b] = "FREE" THEN onActive \cup {b} ELSE onActive
      /\ xl' = [xl EXCEPT ![b] = tr]
      /\ count' = [count EXCEPT ![b] = n]
      /\ direct' = [direct EXCEPT ![b] = c]
      /\ linked' = linked \ OwnEdges(b)
      /\ jmp' = Discard(b, set_dhtu_policy({b}, c, [direct EXCEPT ![b] = c], TRUE))
      /\ UNCHANGED <<mem, unseen, hu, dep, marked>>
      /\ IF status[b] = "FREE" THEN raise_in_cl_list(b, EN) ELSE UNCHANGED <<head, tag>>
  BY DEF CompileStart, NoWrite
<1>n. count[b] # "armed" /\ status[b] = "NEED_RECOMP" => n # "armed"
  BY <1>0 DEF TypeOK
<1> HIDE DEF n, c
<1>1. ASSUME NEW d \in Addr PROVE BlockOK(d)'
  <2>1. BlockOK(d)
    BY DEF CacheOK
  <2>2. CASE d = b
    <3>1. /\ status'[d] = "COMPILING" /\ xl'[d] = tr /\ count'[d] = n /\ direct'[d] = c
          /\ hu'[d] = hu[d]
      BY <1>0, <1>s, <2>2 DEF TypeOK
    <3>2. \A x \in Span[d] \ unseen' : xl'[d][x] = mem'[x]
      BY <1>0, <1>s, <2>2, <3>1
    <3>3. Native(hu[d]) => hu[d].blk = d /\ (Runs(hu[d])' => Fresh(hu[d])')
      <4>1. CASE status[d] = "ACTIVE"
        BY <1>s, <2>1, <4>1 DEF BlockOK, Live, Held, Fresh, Native
      <4>2. CASE status[d] = "NEED_RECOMP"
        BY <1>s, <1>n, <2>1, <2>2, <3>1, <4>2 DEF BlockOK, Runs, Native
      <4>3. CASE status[d] \in {"FREE", "INVALID", "NEED_CHECK"}
        BY <2>1, <4>3 DEF BlockOK, Native
      <4> QED
        BY <2>2, <4>1, <4>2, <4>3 DEF TypeOK, Statuses
    <3> QED
      BY <1>0, <1>c, <1>s, <2>1, <2>2, <3>1, <3>2, <3>3 DEF BlockOK, Held, Live, Native
  <2>3. CASE d # b
    <3>1. /\ status'[d] = status[d] /\ count'[d] = count[d] /\ xl'[d] = xl[d]
          /\ hu'[d] = hu[d] /\ direct'[d] = direct[d] /\ (d \in onActive' <=> d \in onActive)
      BY <1>0, <1>s, <2>3 DEF TypeOK
    <3>2. Native(direct[d]) => Runs(direct[d])' = Runs(direct[d])
      BY <2>1, <3>1 DEF BlockOK, Native, Runs
    <3>3. Native(hu[d]) => Runs(hu[d])' = Runs(hu[d])
      BY <2>1, <3>1 DEF BlockOK, Native, Runs
    <3> QED
      BY <1>s, <2>1, <3>1, <3>2, <3>3 DEF BlockOK, Native, Runs, Fresh, Held, Live
  <2> QED
    BY <2>2, <2>3
<1>2. ASSUME NEW e \in Edges PROVE EdgeOK(e)'
  <2>1. EdgeOK(e)
    BY DEF CacheOK
  <2>2. CASE e[1] = b
    <3>1. e \in OwnEdges(b)
      BY <2>2 DEF OwnEdges, Edges
    <3> QED
      BY <1>s, <2>1, <2>2, <3>1 DEF EdgeOK, Native, Discard
  <2>3. CASE e[1] # b
    <3>1. e \notin OwnEdges(b)
      BY <2>3 DEF OwnEdges, Edges
    <3>2. dep'[e] = dep[e] /\ (e \in linked' <=> e \in linked)
      BY <1>s, <3>1
    <3>3. jmp'[e] = IF e \in linked /\ dep[e] = b THEN c ELSE jmp[e]
      BY <1>0, <1>s, <2>3 DEF Discard, set_dhtu_policy, TypeOK
    <3>4. CASE e \in linked /\ dep[e] = b
      BY <1>0, <1>s, <2>1, <3>2, <3>3, <3>4 DEF EdgeOK, Native, TypeOK
    <3>5. CASE e \in linked /\ dep[e] # b
      BY <1>0, <1>s, <2>1, <3>2, <3>3, <3>5 DEF EdgeOK, Native, TypeOK
    <3>6. CASE e \notin linked
      BY <2>1, <3>2, <3>3, <3>6 DEF EdgeOK, Native
    <3> QED
      BY <3>4, <3>5, <3>6
  <2> QED
    BY <2>2, <2>3
<1>3. ASSUME NEW l \in Lines PROVE LineOK(l)'
  <2>1. LineOf[b] \in Lines /\ LineOK(l) /\ hu' = hu
    BY <1>0, <1>s DEF Lines, CacheOK
  <2>2. CASE status[b] = "FREE"
    <3>1. raise_in_cl_list(b, EN)
      BY <1>s, <2>2
    <3> QED
      BY <2>1, <3>1 DEF LineOK, raise_in_cl_list, TypeOK
  <2>3. CASE status[b] # "FREE"
    BY <1>s, <2>1, <2>3 DEF LineOK
  <2> QED
    BY <2>2, <2>3
<1>4. PageBitsCover'
  BY <1>0, <1>s DEF PageBitsCover, CacheOK, CodePages, TypeOK
<1> QED
  BY <1>1, <1>2, <1>3, <1>4, <1>s DEF CacheOK

(* get_blockinfo_addr_new makes a blockinfo for a successor.                *)
LEMMA CacheTargeted ==
  ASSUME TypeOK, CacheOK, NEW t \in Addr, status[t] = "FREE",
         status' = [status EXCEPT ![t] = "INVALID"], onActive' = onActive \cup {t},
         raise_in_cl_list(t, EN),
         UNCHANGED <<mem, unseen, hu, direct, xl, count, dep, linked, prefer, jmp, marked>>
  PROVE  CacheOK'
<1> USE PointerFacts
<1>1. ASSUME NEW b \in Addr PROVE BlockOK(b)'
  <2>1. BlockOK(b)
    BY DEF CacheOK
  <2>2. CASE b = t
    BY <2>1, <2>2 DEF BlockOK, Native, Runs, Held, Live, TypeOK
  <2>3. CASE b # t
    BY <2>1, <2>3 DEF BlockOK, Native, Runs, Fresh, Held, Live, TypeOK
  <2> QED
    BY <2>2, <2>3
<1>2. ASSUME NEW e \in Edges PROVE EdgeOK(e)'
  BY DEF CacheOK, EdgeOK, Native, TypeOK
<1>3. ASSUME NEW l \in Lines PROVE LineOK(l)'
  <2>1. LineOf[t] \in Lines
    BY DEF Lines
  <2> QED
    BY <2>1 DEF CacheOK, LineOK, raise_in_cl_list, TypeOK
<1>4. PageBitsCover'
  BY DEF PageBitsCover, CacheOK, CodePages, TypeOK
<1> QED
  BY <1>1, <1>2, <1>3, <1>4 DEF CacheOK

(* A new jump takes its target's handler.                                   *)
LEMMA CacheLinked ==
  ASSUME TypeOK, CacheOK, NEW d \in BOOLEAN, CompileLink(d), target \in Addr, slot < MaxSuccs
  PROVE  CacheOK'
<1> USE PointerFacts
<1> DEFINE e0 == <<pc, slot>>
<1>0. e0 \in Edges
  BY PolicyAssumption DEF Edges, Slots, TypeOK
<1>1. ASSUME NEW b \in Addr PROVE BlockOK(b)'
  BY DEF CacheOK, BlockOK, Native, Runs, Fresh, Held, Live, CompileLink, NoWrite
<1>2. ASSUME NEW e \in Edges PROVE EdgeOK(e)'
  <2>1. EdgeOK(e) /\ BlockOK(target)
    BY DEF CacheOK
  <2>2. CASE e = e0
    <3>1. dep'[e] = target /\ e \in linked'
      BY <1>0, <2>2 DEF CompileLink, create_jmpdep, TypeOK
    <3>2. jmp'[e] = hu[target] \/ (status[target] = "ACTIVE" /\ jmp'[e] = direct[target])
      BY <1>0, <2>2 DEF CompileLink, TypeOK
    <3>3. UNCHANGED <<status, direct, hu>>
      BY DEF CompileLink
    <3> QED
      BY <2>1, <3>1, <3>2, <3>3 DEF EdgeOK, BlockOK, Native
  <2>3. CASE e # e0
    <3>1. dep'[e] = dep[e] /\ jmp'[e] = jmp[e] /\ (e \in linked' <=> e \in linked)
      BY <1>0, <2>3 DEF CompileLink, create_jmpdep, TypeOK
    <3> QED
      BY <2>1, <3>1 DEF EdgeOK, CompileLink, Native
  <2> QED
    BY <2>2, <2>3
<1>3. ASSUME NEW l \in Lines PROVE LineOK(l)'
  BY DEF CacheOK, LineOK, CompileLink
<1> QED
  BY <1>1, <1>2, <1>3 DEF CacheOK, PageBitsCover, CodePages, CompileLink, NoWrite

(* compile_block publishes the block.                                       *)
LEMMA CacheEnded ==
  ASSUME TypeOK, CacheOK, CompileEnd, status[pc] = "COMPILING"
  PROVE  CacheOK'
<1> USE PointerFacts
<1> DEFINE b == pc
           p == IF b \notin Rom /\ mem[b] = 0 THEN EN ELSE direct[b]
<1>0. b \in Addr /\ BlockOK(b)
  BY DEF TypeOK, CacheOK
<1>p. p # Null /\ (Native(p) => p = direct[b])
  BY <1>0 DEF BlockOK, Held, Native
<1>s. /\ status' = [status EXCEPT ![b] = "ACTIVE"]
      /\ onActive' = IF b \in Rom THEN onActive \ {b} ELSE onActive \cup {b}
      /\ hu' = [hu EXCEPT ![b] = p]
      /\ direct' = [direct EXCEPT ![b] = p]
      /\ jmp' = PublishedJumps(b, p)
      /\ raise_in_cl_list(b, p)
      /\ marked' = IF b \in Rom THEN marked ELSE marked \cup CodePages(b)
      /\ UNCHANGED <<mem, unseen, xl, count, dep, linked>>
  BY DEF CompileEnd, NoWrite, jit_code_page_mark
<1> HIDE DEF p
<1>1. ASSUME NEW d \in Addr PROVE BlockOK(d)'
  <2>1. BlockOK(d)
    BY DEF CacheOK
  <2>2. CASE d = b
    <3>1. /\ status'[d] = "ACTIVE" /\ direct'[d] = p /\ hu'[d] = p
          /\ xl'[d] = xl[d] /\ (d \notin Rom => d \in onActive')
      BY <1>0, <1>s, <2>2 DEF TypeOK
    <3> QED
      BY <1>p, <1>s, <2>1, <2>2, <3>1 DEF BlockOK, Held, Live, Native
  <2>3. CASE d # b
    <3>1. /\ status'[d] = status[d] /\ hu'[d] = hu[d] /\ direct'[d] = direct[d]
          /\ (d \in onActive' <=> d \in onActive)
      BY <1>0, <1>s, <2>3 DEF TypeOK
    <3> QED
      BY <1>s, <2>1, <3>1 DEF BlockOK, Native, Runs, Fresh, Held, Live
  <2> QED
    BY <2>2, <2>3
<1>2. ASSUME NEW e \in Edges PROVE EdgeOK(e)'
  <2>1. EdgeOK(e)
    BY DEF CacheOK
  <2>2. jmp'[e] = IF e \in linked /\ dep[e] = b THEN p ELSE jmp[e]
    BY <1>0, <1>s DEF PublishedJumps, set_dhtu_policy, TypeOK
  <2>3. CASE e \in linked /\ dep[e] = b
    BY <1>0, <1>s, <2>1, <2>2, <2>3 DEF EdgeOK, TypeOK
  <2>4. CASE e \in linked /\ dep[e] # b
    BY <1>0, <1>s, <2>1, <2>2, <2>4 DEF EdgeOK, TypeOK, Native
  <2>5. CASE e \notin linked
    BY <1>s, <2>1, <2>2, <2>5 DEF EdgeOK, Native
  <2> QED
    BY <2>3, <2>4, <2>5
<1>3. ASSUME NEW l \in Lines PROVE LineOK(l)'
  <2>1. LineOf[b] \in Lines /\ LineOK(l)
    BY <1>0 DEF Lines, CacheOK
  <2> QED
    BY <1>0, <1>s, <2>1 DEF LineOK, raise_in_cl_list, TypeOK
<1>4. PageBitsCover'
  BY <1>0, <1>s DEF PageBitsCover, CacheOK, CodePages, TypeOK
<1> QED
  BY <1>1, <1>2, <1>3, <1>4, <1>s DEF CacheOK

(* A block whose checksum is right gets its handlers back.                  *)
LEMMA CacheValidated ==
  ASSUME TypeOK, CacheOK, CheckGood, cur \in Addr
  PROVE  CacheOK'
<1> USE PointerFacts
<1>0. BlockOK(cur) /\ status[cur] = "NEED_CHECK" /\ ChecksumGood(cur)
  BY DEF CacheOK, CheckGood
<1>s. /\ status' = [status EXCEPT ![cur] = "CHECKING"]
      /\ hu' = [hu EXCEPT ![cur] = direct[cur]]
      /\ jmp' = set_dhtu_policy({cur}, direct[cur], direct, TRUE)
      /\ UNCHANGED <<mem, unseen, onActive, head, tag, direct, count, dep, linked, prefer, xl, marked>>
  BY DEF CheckGood, InCheck, NoWrite
<1>1. ASSUME NEW d \in Addr PROVE BlockOK(d)'
  <2>1. BlockOK(d)
    BY DEF CacheOK
  <2>2. CASE d = cur
    <3>1. status'[d] = "CHECKING" /\ hu'[d] = direct[d]
      BY <1>s, <2>2 DEF TypeOK
    <3> QED
      BY <1>0, <1>s, <2>1, <2>2, <3>1 DEF BlockOK, Held, Live, Native, ChecksumGood
  <2>3. CASE d # cur
    <3>1. status'[d] = status[d] /\ hu'[d] = hu[d]
      BY <1>s, <2>3 DEF TypeOK
    <3> QED
      BY <1>s, <2>1, <3>1 DEF BlockOK, Native, Runs, Fresh, Held, Live
  <2> QED
    BY <2>2, <2>3
<1>2. ASSUME NEW e \in Edges PROVE EdgeOK(e)'
  <2>1. EdgeOK(e)
    BY DEF CacheOK
  <2>2. jmp'[e] = IF e \in linked /\ dep[e] = cur THEN direct[cur] ELSE jmp[e]
    BY <1>s DEF set_dhtu_policy
  <2>3. CASE e \in linked /\ dep[e] = cur
    BY <1>s, <2>1, <2>2, <2>3 DEF EdgeOK, TypeOK
  <2>4. CASE e \in linked /\ dep[e] # cur
    BY <1>s, <2>1, <2>2, <2>4 DEF EdgeOK, TypeOK, Native
  <2>5. CASE e \notin linked
    BY <1>s, <2>1, <2>2, <2>5 DEF EdgeOK, Native
  <2> QED
    BY <2>3, <2>4, <2>5
<1>3. ASSUME NEW l \in Lines PROVE LineOK(l)'
  <2>1. LineOK(l)
    BY DEF CacheOK
  <2> QED
    BY <1>0, <1>s, <2>1 DEF LineOK, TypeOK, BlockOK
<1>4. PageBitsCover'
  BY <1>0, <1>s DEF PageBitsCover, CacheOK, CodePages, TypeOK
<1> QED
  BY <1>1, <1>2, <1>3, <1>4, <1>s DEF CacheOK

(* A checked block returns to the active list.                              *)
LEMMA CachePromoted ==
  ASSUME TypeOK, CacheOK, NEW a \in Addr, status[a] = "CHECKING",
         onActive' = onActive \cup {a}, raise_in_cl_list(a, hu[a]),
         status' = [status EXCEPT ![a] = "ACTIVE"],
         UNCHANGED <<mem, unseen, hu, direct, count, dep, linked, prefer, jmp, xl, marked>>
  PROVE  CacheOK'
<1>1. ASSUME NEW d \in Addr PROVE BlockOK(d)'
  <2>1. BlockOK(d)
    BY DEF CacheOK
  <2>2. CASE d = a
    BY <2>1, <2>2 DEF BlockOK, Held, Live, Native, Runs, TypeOK
  <2>3. CASE d # a
    BY <2>1, <2>3 DEF BlockOK, Held, Live, Native, Runs, Fresh, TypeOK
  <2> QED
    BY <2>2, <2>3
<1>2. ASSUME NEW e \in Edges PROVE EdgeOK(e)'
  BY DEF CacheOK, EdgeOK, TypeOK, Native
<1>3. ASSUME NEW l \in Lines PROVE LineOK(l)'
  <2>1. LineOf[a] \in Lines
    BY DEF Lines
  <2> QED
    BY <2>1 DEF CacheOK, LineOK, raise_in_cl_list, TypeOK
<1>4. PageBitsCover'
  BY DEF PageBitsCover, CacheOK, CodePages, TypeOK
<1> QED
  BY <1>1, <1>2, <1>3, <1>4 DEF CacheOK

-----------------------------------------------------------------------------
(* The thread's own state, and the types.                                   *)

(* Guest code and devices run only between translations.                    *)
LEMMA QuietPoints ==
  ASSUME TypeOK, ThreadOK, at \in {"dispatch", "trace", "native", "normal", "alloc", "emitted"}
  PROVE  \A b \in Addr : status[b] # "COMPILING" /\ status[b] # "CHECKING"
<1>1. ~Compiling /\ stk = << >>
  BY DEF ThreadOK, Compiling
<1> QED
  BY <1>1 DEF ThreadOK

(* An action that leaves the statuses of compiled and checked blocks and    *)
(* the thread alone keeps ThreadOK.                                         *)
LEMMA ThreadKept ==
  ASSUME TypeOK, ThreadOK, at \in {"dispatch", "trace", "native"},
         UNCHANGED <<at, pc, slot, target, checkVars, tr>>,
         \A b \in Addr : status'[b] # "COMPILING" /\ status'[b] # "CHECKING"
  PROVE  ThreadOK'
<1>1. stk = << >> /\ ~Compiling
  BY DEF ThreadOK, Compiling
<1> QED
  BY <1>1 DEF ThreadOK, Compiling, checkVars

\* Patching jumps yields well-typed jumps.
LEMMA JumpsTyped ==
  ASSUME TypeOK, NEW B, NEW p \in Pointers, NEW d \in [Addr -> Pointers \cup {Null}],
         NEW h \in BOOLEAN, B \subseteq Addr
  PROVE  set_dhtu_policy(B, p, d, h) \in [Edges -> Pointers \cup {Null}]
BY DEF set_dhtu_policy, TypeOK

\* block_need_recompile keeps the types.
LEMMA RecompileTyped ==
  ASSUME TypeOK, NEW B \in SUBSET Addr, block_need_recompile(B)
  PROVE  /\ status' \in [Addr -> Statuses] /\ onActive' = onActive
         /\ head' \in [Lines -> Addr \cup {NoAddr}] /\ tag' \in [Lines -> Pointers]
         /\ hu' \in [Addr -> Pointers] /\ direct' \in [Addr -> Pointers \cup {Null}]
         /\ xl' = xl /\ count' = count /\ dep' = dep /\ linked' = linked /\ prefer' = prefer
         /\ jmp' \in [Edges -> Pointers \cup {Null}]
<1> USE PointerFacts
<1> DEFINE d == [b \in Addr |-> IF b \in B THEN EN ELSE direct[b]]
<1>1. d \in [Addr -> Pointers \cup {Null}]
  BY DEF TypeOK
<1>2. jmp' = set_dhtu_policy(B, EN, d, TRUE)
  BY DEF block_need_recompile
<1>3. jmp' \in [Edges -> Pointers \cup {Null}]
  BY <1>1, <1>2, JumpsTyped
<1>4. status' \in [Addr -> Statuses]
  BY DEF block_need_recompile, TypeOK, Statuses
<1>5. tag' \in [Lines -> Pointers]
  BY DEF block_need_recompile, TypeOK
<1>6. hu' \in [Addr -> Pointers]
  BY DEF block_need_recompile, TypeOK
<1>7. direct' \in [Addr -> Pointers \cup {Null}]
  BY <1>1 DEF block_need_recompile
<1>8. /\ head' \in [Lines -> Addr \cup {NoAddr}] /\ onActive' = onActive
      /\ xl' = xl /\ count' = count /\ dep' = dep /\ linked' = linked /\ prefer' = prefer
  BY DEF block_need_recompile, TypeOK
<1> QED
  BY <1>3, <1>4, <1>5, <1>6, <1>7, <1>8

(* A page that holds a translation has its bit set.                         *)
LEMMA PageBitSet ==
  ASSUME Inductive, at \in {"dispatch", "trace", "native"}, NEW x \in Addr, OnPage(x) # {}
  PROVE  PageOf[x] \in marked
<1>1. PICK b \in OnPage(x) : TRUE
  OBVIOUS
<1>2. b \in Addr \ Rom /\ PageOf[x] \in CodePages(b)
      /\ status[b] \notin {"FREE", "INVALID", "NEED_RECOMP"}
  BY DEF OnPage, Checksummed
<1>3. status[b] \in {"ACTIVE", "NEED_CHECK", "CHECKING"}
  BY <1>2, QuietPoints DEF Inductive, TypeOK, Statuses
<1> QED
  BY <1>2, <1>3 DEF Inductive, CacheOK, PageBitsCover

\* An announced store (phys_put_*, SCSI DMA) keeps the invariant.
LEMMA StoreKeeps ==
  ASSUME Inductive, NEW x \in Addr, NEW v \in Val, InterpreterStore(x, v) \/ ScsiDma(x, v)
  PROVE  Inductive'
<1>1. at \in {"dispatch", "trace", "native"} /\ x \notin Rom
  BY DEF InterpreterStore, ScsiDma
<1>2. PICK B \in SUBSET Checksummed : OnPage(x) \subseteq B /\ block_need_recompile(B)
  <2>1. CASE InterpreterStore(x, v)
    <3>1. block_need_recompile(GuestStoreHits(x))
      BY <2>1 DEF InterpreterStore, NotifyGuestStore
    <3>2. OnPage(x) \subseteq GuestStoreHits(x) /\ GuestStoreHits(x) \subseteq Checksummed
      BY <1>1, PageBitSet DEF GuestStoreHits, OnPage
    <3> QED
      BY <3>1, <3>2
  <2>2. CASE ScsiDma(x, v)
    <3>1. block_need_recompile(GuestStoreHits(x) \cup Overlapping(x))
      BY <2>2 DEF ScsiDma, NotifyDeviceMemoryWrite
    <3>2. /\ OnPage(x) \subseteq GuestStoreHits(x) \cup Overlapping(x)
          /\ GuestStoreHits(x) \cup Overlapping(x) \subseteq Checksummed
      BY <1>1, PageBitSet DEF GuestStoreHits, OnPage, Overlapping
    <3> QED
      BY <3>1, <3>2
  <2> QED
    BY <2>1, <2>2
<1>3. /\ Put(x, v) /\ marked' = marked \ {PageOf[x]} /\ UNCHANGED <<unseen, unflushed, tr>>
      /\ Elsewhere
  BY DEF InterpreterStore, NotifyGuestStore, ScsiDma, NotifyDeviceMemoryWrite
<1>4. B \subseteq Addr
  BY DEF Checksummed
<1>5. TypeOK'
  <2>1. mem' \in [Addr -> Val]
    BY <1>3 DEF Put, Inductive, TypeOK
  <2> QED
    BY <1>2, <1>3, <1>4, <2>1, RecompileTyped DEF Inductive, TypeOK, Elsewhere, checkVars
<1>6. ThreadOK'
  <2>1. \A b \in Addr : status'[b] # "COMPILING" /\ status'[b] # "CHECKING"
    BY <1>1, <1>2, QuietPoints DEF Inductive, block_need_recompile
  <2> QED
    BY <1>1, <1>3, <2>1, ThreadKept DEF Inductive, Elsewhere
<1>7. CacheOK'
  BY <1>1, <1>2, <1>3, QuietPoints, CacheWritten DEF Inductive
<1> QED
  BY <1>5, <1>6, <1>7 DEF Inductive

\* An unannounced write keeps it because the ghost remembers the location.
LEMMA UnseenWriteKeeps ==
  ASSUME Inductive, NEW x \in Addr, NEW v \in Val, NativeStore(x, v) \/ MoDma(x, v)
  PROVE  Inductive'
<1>1. /\ at \in {"dispatch", "trace", "native"} /\ x \notin Rom /\ PutUnseen(x, v)
      /\ UNCHANGED tr /\ Elsewhere
  BY DEF NativeStore, MoDma
<1>2. TypeOK'
  BY <1>1 DEF Inductive, TypeOK, PutUnseen, Put, Elsewhere, cacheVars, checkVars
<1>3. ThreadOK'
  BY <1>1, QuietPoints, ThreadKept DEF Inductive, PutUnseen, cacheVars, Elsewhere
<1>4. CacheOK'
  BY <1>1, CacheWrittenUnseen DEF Inductive
<1> QED
  BY <1>2, <1>3, <1>4 DEF Inductive

\* flush_icache_lazy keeps the types.
LEMMA LazyTyped ==
  ASSUME TypeOK, flush_icache_lazy
  PROVE  /\ status' \in [Addr -> Statuses] /\ onActive' = {}
         /\ tag' \in [Lines -> Pointers] /\ hu' \in [Addr -> Pointers]
         /\ jmp' \in [Edges -> Pointers \cup {Null}]
         /\ UNCHANGED <<head, direct, xl, count, dep, linked, prefer, marked>>
<1> USE PointerFacts
<1>1. FlushedInvalid \subseteq Addr /\ onActive \subseteq Addr
  BY DEF FlushedInvalid, TypeOK
<1>2. set_dhtu_policy(FlushedInvalid, EN, direct, TRUE) \in [Edges -> Pointers \cup {Null}]
  BY <1>1, JumpsTyped DEF TypeOK
<1>3. set_dhtu_policy(onActive \ FlushedInvalid, CC, direct, FALSE)
        \in [Edges -> Pointers \cup {Null}]
  BY <1>1, JumpsTyped DEF TypeOK
<1>4. jmp' \in [Edges -> Pointers \cup {Null}]
  BY <1>2, <1>3 DEF flush_icache_lazy, LazyJumps
<1>5. status' \in [Addr -> Statuses]
  BY DEF flush_icache_lazy, TypeOK, Statuses
<1>6. hu' \in [Addr -> Pointers]
  BY DEF flush_icache_lazy, TypeOK
<1>7. tag' \in [Lines -> Pointers]
  BY DEF flush_icache_lazy, TypeOK
<1> QED
  BY <1>4, <1>5, <1>6, <1>7 DEF flush_icache_lazy

\* A lazy flush, with its ghost update, keeps the invariant.
LEMMA FlushKeeps ==
  ASSUME Inductive, NativeCinv \/ TracedCinv \/ MmuTranslationChanged
  PROVE  Inductive'
<1>0. at \in {"trace", "native"} /\ UNCHANGED <<mem, tr>> /\ Elsewhere
  BY DEF NativeCinv, TracedCinv, MmuTranslationChanged
<1>1. CASE flush_icache_lazy /\ unseen' = {} /\ unflushed' \subseteq unflushed
  <2>1. TypeOK'
    BY <1>0, <1>1, LazyTyped DEF Inductive, TypeOK, Elsewhere, checkVars
  <2>2. ThreadOK'
    <3>1. \A b \in Addr : status'[b] # "COMPILING" /\ status'[b] # "CHECKING"
      BY <1>0, <1>1, QuietPoints DEF Inductive, flush_icache_lazy
    <3> QED
      BY <1>0, <3>1, ThreadKept DEF Inductive, Elsewhere
  <2>3. CacheOK'
    BY <1>0, <1>1, QuietPoints, CacheFlushedLazy DEF Inductive
  <2> QED
    BY <2>1, <2>2, <2>3 DEF Inductive
<1>2. CASE TracedCinv
  <2>1. TypeOK'
    BY <1>0, <1>2 DEF Inductive, TypeOK, TracedCinv, Elsewhere, cacheVars, checkVars
  <2>2. ThreadOK'
    BY <1>0, <1>2, QuietPoints, ThreadKept DEF Inductive, TracedCinv, cacheVars, Elsewhere
  <2>3. CacheOK'
    BY <1>0, <1>2, CacheKept DEF Inductive, TracedCinv
  <2> QED
    BY <2>1, <2>2, <2>3 DEF Inductive
<1> QED
  BY <1>1, <1>2 DEF NativeCinv, MmuTranslationChanged

(* The thread moves to another point at which nothing is half done.         *)
LEMMA ThreadMoved ==
  ASSUME TypeOK, ThreadOK, at \in {"dispatch", "native", "normal", "trace", "emitted"},
         at' \in {"dispatch", "native", "normal", "emitted"}, UNCHANGED checkVars,
         \A b \in Addr : status'[b] # "COMPILING" /\ status'[b] # "CHECKING"
  PROVE  ThreadOK'
<1>1. stk = << >> /\ stk' = stk
  BY DEF ThreadOK, checkVars
<1> QED
  BY <1>1 DEF ThreadOK, Compiling

\* raise_in_cl_list keeps the types.
LEMMA RaiseTyped ==
  ASSUME TypeOK, NEW a \in Addr, NEW h \in Pointers, raise_in_cl_list(a, h)
  PROVE  head' \in [Lines -> Addr \cup {NoAddr}] /\ tag' \in [Lines -> Pointers]
BY DEF TypeOK, raise_in_cl_list

(* Following a pointer for a.                                               *)
LEMMA JumpKeeps ==
  ASSUME Inductive, at \in {"dispatch", "native"}, NEW a \in Addr, NEW p \in Pointers,
         Native(p) /\ p.blk = a => p = direct[a], Jump(p, a)
  PROVE  Inductive'
<1>0. /\ \A b \in Addr : status[b] # "COMPILING" /\ status[b] # "CHECKING"
      /\ TypeOK /\ ThreadOK /\ CacheOK
  BY QuietPoints DEF Inductive
<1>1. UNCHANGED <<mem, unseen, unflushed, tr, slot, target>>
  BY DEF Jump, NoWrite, BetweenBlocks
<1>2. CASE EnterNative(p, a) \/ to_execute_normal(p, a)
  <2>1. /\ at' \in {"native", "normal"} /\ pc' = a /\ UNCHANGED <<cacheVars, checkVars>>
    BY <1>2 DEF EnterNative, to_execute_normal
  <2>2. TypeOK'
    BY <1>0, <1>1, <2>1 DEF TypeOK, cacheVars, checkVars, Points
  <2>3. ThreadOK'
    BY <1>0, <2>1, ThreadMoved DEF cacheVars
  <2>4. CacheOK'
    BY <1>0, <1>1, <2>1, CacheKept
  <2> QED
    BY <2>2, <2>3, <2>4 DEF Inductive
<1>3. CASE recompile_block(p, a)
  <2>1. hu[a] \in Pointers
    BY <1>0 DEF TypeOK
  <2>2. TypeOK'
    BY <1>0, <1>1, <1>3, <2>1, RaiseTyped DEF TypeOK, recompile_block, checkVars, Points, Statuses
  <2>3. ThreadOK'
    BY <1>0, <1>3, ThreadMoved DEF recompile_block, TypeOK
  <2>4. CacheOK'
    BY <1>0, <1>1, <1>3, CacheRecompile DEF recompile_block, Native
  <2> QED
    BY <2>2, <2>3, <2>4 DEF Inductive
<1>4. CASE Miss(a)
  <2>1. hu[a] \in Pointers
    BY <1>0 DEF TypeOK
  <2>2. TypeOK'
    BY <1>0, <1>1, <1>4, <2>1, RaiseTyped DEF TypeOK, Miss, checkVars, Points
  <2>3. ThreadOK'
    BY <1>0, <1>4, ThreadMoved DEF Miss
  <2>4. CacheOK'
    <3>1. CASE UNCHANGED <<head, tag>>
      BY <1>0, <1>1, <1>4, <3>1, CacheKept DEF Miss, cacheVars
    <3>2. CASE raise_in_cl_list(a, hu[a])
      BY <1>0, <1>1, <1>4, <3>2, CacheRaised DEF Miss
    <3> QED
      BY <1>4, <3>1, <3>2 DEF Miss
  <2> QED
    BY <2>2, <2>3, <2>4 DEF Inductive
<1>5. CASE at' = "check" /\ pc' = a /\ CallCheck(a, "normal") /\ UNCHANGED cacheVars
  <2>2. TypeOK'
    BY <1>0, <1>1, <1>5 DEF TypeOK, CallCheck, cacheVars, Points
  <2>3. ThreadOK'
    BY <1>0, <1>5 DEF ThreadOK, CallCheck, Compiling, cacheVars
  <2>4. CacheOK'
    BY <1>0, <1>1, <1>5, CacheKept
  <2> QED
    BY <2>2, <2>3, <2>4 DEF Inductive
<1> QED
  BY <1>2, <1>3, <1>4, <1>5 DEF Jump, cache_miss, check_checksum

\* Dispatching through a cache tag keeps the invariant.
LEMMA DispatchKeeps ==
  ASSUME Inductive, Dispatch
  PROVE  Inductive'
<1>1. /\ at = "dispatch" /\ pc \in Addr /\ LineOf[pc] \in Lines /\ tag[LineOf[pc]] \in Pointers
      /\ LineOK(LineOf[pc])
  BY DEF Dispatch, Inductive, TypeOK, Lines, CacheOK
<1>2. \A b \in Addr : status[b] # "COMPILING" /\ BlockOK(b)
  BY <1>1, QuietPoints DEF Inductive, CacheOK
<1>3. Native(tag[LineOf[pc]]) /\ tag[LineOf[pc]].blk = pc => tag[LineOf[pc]] = direct[pc]
  BY <1>1, <1>2, PointerFacts DEF LineOK, BlockOK, Native
<1>4. Jump(tag[LineOf[pc]], pc)
  BY DEF Dispatch
<1> QED
  BY <1>1, <1>3, <1>4, JumpKeeps

\* Following a patched jump keeps it: the jump leads to the edge's own target.
LEMMA FollowEdgeKeeps ==
  ASSUME Inductive, NEW i \in Slots, FollowEdge(i)
  PROVE  Inductive'
<1> DEFINE e == <<pc, i>>
<1>1. at = "native" /\ e \in Edges /\ EdgeOK(e) /\ jmp[e] \in Pointers
  BY DEF FollowEdge, Inductive, TypeOK, Edges, CacheOK
<1>2. dep[e] \in Addr
  BY <1>1, PointerFacts DEF EdgeOK, FollowEdge
<1>3. \A b \in Addr : status[b] # "COMPILING" /\ BlockOK(b)
  BY <1>1, QuietPoints DEF Inductive, CacheOK
<1>4. Native(jmp[e]) /\ jmp[e].blk = dep[e] => jmp[e] = direct[dep[e]]
  BY <1>1, <1>2, <1>3 DEF EdgeOK
<1>5. Jump(jmp[e], dep[e])
  BY DEF FollowEdge
<1> HIDE DEF e
<1> QED
  BY <1>1, <1>2, <1>4, <1>5, JumpKeeps

(* Moves of the thread that leave the cache alone.                          *)
LEMMA MoveKeeps ==
  ASSUME Inductive,
         \/ \E a \in Addr : LeaveBlock(a) \/ CompileBail(a)
         \/ BeginTrace
         \/ \E x \in Addr : TraceNext(x)
  PROVE  Inductive'
<1>0. TypeOK /\ ThreadOK /\ CacheOK
  BY DEF Inductive
<1>q. at \in {"native", "trace", "normal"}
  BY DEF LeaveBlock, CompileBail, TraceEnded, BeginTrace, TraceNext
<1>r. \A b \in Addr : status[b] # "COMPILING" /\ status[b] # "CHECKING"
  BY <1>0, <1>q, QuietPoints
<1>1. UNCHANGED <<mem, unseen, unflushed, cacheVars, slot, target, checkVars>>
  BY DEF LeaveBlock, CompileBail, BeginTrace, TraceNext, NoWrite, BetweenBlocks, Elsewhere
<1>2. CacheOK'
  BY <1>0, <1>1, CacheKept
<1>3. pc' \in Addr /\ at' \in {"dispatch", "trace"}
  BY <1>0 DEF LeaveBlock, CompileBail, BeginTrace, TraceNext, Elsewhere, TypeOK
<1>4. TypeOK'
  BY <1>0, <1>1, <1>3 DEF TypeOK, cacheVars, checkVars, Points
<1>5. ThreadOK'
  <2>1. CASE at' = "dispatch"
    BY <1>0, <1>1, <1>q, <1>r, <2>1, ThreadMoved DEF cacheVars
  <2>2. CASE BeginTrace
    <3>1. /\ at' = "trace" /\ pc' = pc /\ pc \in Addr /\ tr' = [x \in {pc} |-> mem[x]]
          /\ stk = << >> /\ stk' = << >>
      BY <1>0, <1>1, <2>2 DEF BeginTrace, TypeOK, ThreadOK, checkVars
    <3>2. DOMAIN tr' \subseteq Span[pc] /\ tr' \in [DOMAIN tr' -> Val]
      BY <1>0, <3>1, ShapeAssumption DEF TypeOK
    <3> QED
      BY <1>1, <1>r, <3>1, <3>2 DEF ThreadOK, Compiling, cacheVars
  <2>3. CASE \E x \in Addr : TraceNext(x)
    <3>1. PICK x \in Addr : TraceNext(x)
      BY <2>3
    <3>2. /\ at = "trace" /\ at' = "trace" /\ pc' = pc /\ x \in Span[pc]
          /\ tr' = [y \in DOMAIN tr \cup {x} |-> IF y = x THEN mem[x] ELSE tr[y]]
          /\ stk = << >> /\ stk' = << >>
      BY <1>0, <1>1, <3>1 DEF TraceNext, Elsewhere, ThreadOK, checkVars
    <3>3. DOMAIN tr' \subseteq Span[pc] /\ tr' \in [DOMAIN tr' -> Val]
      BY <1>0, <3>2 DEF ThreadOK, TypeOK
    <3> QED
      BY <1>1, <1>r, <3>2, <3>3 DEF ThreadOK, Compiling, cacheVars
  <2> QED
    BY <2>1, <2>2, <2>3 DEF LeaveBlock, CompileBail
<1> QED
  BY <1>2, <1>4, <1>5 DEF Inductive

\* check_for_cache_miss keeps it.
LEMMA CacheMissKeeps ==
  ASSUME Inductive, check_for_cache_miss
  PROVE  Inductive'
<1>0. TypeOK /\ ThreadOK /\ CacheOK /\ at = "normal" /\ pc \in Addr /\ hu[pc] \in Pointers
  BY DEF Inductive, check_for_cache_miss, TypeOK
<1>1. UNCHANGED <<mem, unseen, unflushed, tr, slot, target, checkVars, pc>> /\ at' = "dispatch"
  BY DEF check_for_cache_miss, NoWrite, BetweenBlocks
<1>2. TypeOK'
  BY <1>0, <1>1, RaiseTyped DEF check_for_cache_miss, TypeOK, checkVars, Points
<1>3. ThreadOK'
  BY <1>0, <1>1, QuietPoints, ThreadMoved DEF check_for_cache_miss
<1>4. CacheOK'
  <2>1. CASE UNCHANGED <<head, tag>>
    BY <1>0, <1>1, <2>1, CacheKept DEF check_for_cache_miss, cacheVars
  <2>2. CASE raise_in_cl_list(pc, hu[pc])
    BY <1>0, <1>1, <2>2, CacheRaised DEF check_for_cache_miss
  <2> QED
    BY <2>1, <2>2 DEF check_for_cache_miss
<1> QED
  BY <1>2, <1>3, <1>4 DEF Inductive

\* flush_icache_hard keeps the types.
LEMMA HardTyped ==
  ASSUME TypeOK, flush_icache_hard
  PROVE  /\ status' \in [Addr -> Statuses] /\ onActive' = {}
         /\ head' \in [Lines -> Addr \cup {NoAddr}] /\ tag' \in [Lines -> Pointers]
         /\ hu' \in [Addr -> Pointers] /\ direct' \in [Addr -> Pointers \cup {Null}]
         /\ count' \in [Addr -> {"armed", "out", "off"}]
         /\ dep' \in [Edges -> Addr \cup {NoAddr}] /\ linked' = {} /\ prefer' = {}
         /\ jmp' \in [Edges -> Pointers \cup {Null}] /\ xl' = xl /\ marked' = marked
BY PointerFacts DEF flush_icache_hard, Statuses

\* Entering compile_block, with or without a hard flush, keeps it.
LEMMA CompileEntryKeeps ==
  ASSUME Inductive, CompileEntry \/ \E a \in Addr : CompileReturn(a)
  PROVE  Inductive'
<1>0. TypeOK /\ ThreadOK /\ CacheOK /\ at \in {"trace", "emitted"} /\ stk = << >>
  BY DEF Inductive, CompileEntry, TraceEnded, CompileReturn, ThreadOK
<1>1. /\ UNCHANGED <<mem, unseen, unflushed, tr, slot, target, checkVars>>
      /\ UNCHANGED cacheVars \/ flush_icache_hard
      /\ at' \in {"alloc", "dispatch"} /\ pc' \in Addr
  BY <1>0 DEF CompileEntry, CompileReturn, NoWrite, BetweenBlocks, TypeOK
<1>2. TypeOK'
  <2>1. CASE UNCHANGED cacheVars
    BY <1>0, <1>1, <2>1 DEF TypeOK, cacheVars, checkVars, Points
  <2>2. CASE flush_icache_hard
    BY <1>0, <1>1, <2>2, HardTyped DEF TypeOK, checkVars, Points
  <2> QED
    BY <1>1, <2>1, <2>2
<1>3. CacheOK'
  BY <1>0, <1>1, CacheKept, CacheFlushedHard
<1>4. \A b \in Addr : status'[b] # "COMPILING" /\ status'[b] # "CHECKING"
  BY <1>0, <1>1, QuietPoints DEF flush_icache_hard, cacheVars
<1>5. ThreadOK'
  <2>1. CASE CompileEntry
    <3>1. tr = [x \in Span[pc] |-> mem[x]]
      BY <1>0, <2>1 DEF CompileEntry, TraceEnded, TraceCurrent, ThreadOK
    <3> QED
      BY <1>0, <1>1, <1>4, <2>1, <3>1 DEF CompileEntry, ThreadOK, Compiling, checkVars
  <2>2. CASE \E a \in Addr : CompileReturn(a)
    BY <1>0, <1>1, <1>4, <2>2, ThreadMoved DEF CompileReturn
  <2> QED
    BY <2>1, <2>2
<1> QED
  BY <1>2, <1>3, <1>5 DEF Inductive

\* compile_block up to BI_COMPILING keeps it.
LEMMA CompileStartKeeps ==
  ASSUME Inductive, CompileStart
  PROVE  Inductive'
<1> USE PointerFacts
<1>0. /\ TypeOK /\ ThreadOK /\ CacheOK /\ at = "alloc" /\ stk = << >> /\ pc \in Addr
      /\ tr = [x \in Span[pc] |-> mem[x]]
      /\ \A b \in Addr : status[b] # "COMPILING" /\ status[b] # "CHECKING"
  <2>1. at = "alloc"
    BY DEF CompileStart
  <2> QED
    BY <2>1, QuietPoints DEF Inductive, ThreadOK, TypeOK
<1>t. tr \in [Span[pc] -> Val]
  BY <1>0, ShapeAssumption DEF TypeOK
<1>1. /\ status' = [status EXCEPT ![pc] = "COMPILING"] /\ at' = "compile" /\ tr' = << >>
      /\ UNCHANGED <<mem, unseen, unflushed, hu, dep, marked, pc, slot, target, checkVars>>
      /\ xl' = [xl EXCEPT ![pc] = tr] /\ onActive' \subseteq Addr
      /\ linked' = linked \ OwnEdges(pc) /\ prefer' = prefer \ OwnEdges(pc)
  BY <1>0 DEF CompileStart, NoWrite, TypeOK
<1>2. ThreadOK'
  BY <1>0, <1>1 DEF ThreadOK, Compiling, checkVars, TypeOK
<1>3. PICK c \in Codes, n \in {"armed", "out", "off"} :
        /\ count' = [count EXCEPT ![pc] = n]
        /\ direct' = [direct EXCEPT ![pc] = c]
        /\ jmp' = Discard(pc, set_dhtu_policy({pc}, c, [direct EXCEPT ![pc] = c], TRUE))
  <2> DEFINE n == IF count[pc] # "out" THEN count[pc]
                  ELSE IF StableEdges /\ ~(~(status[pc] = "FREE") /\ status[pc] # "INVALID")
                       THEN "armed" ELSE "off"
  <2>1. n \in {"armed", "out", "off"}
    BY <1>0 DEF TypeOK
  <2>2. PICK g \in BOOLEAN : g = (n = "armed")
    OBVIOUS
  <2>3. Code(pc, tr, g) \in Codes
    BY <1>0, <1>t
  <2>4. Code(pc, tr, n = "armed") \in Codes
    BY <2>2, <2>3, Zenon
  <2>5. /\ count' = [count EXCEPT ![pc] = n]
        /\ direct' = [direct EXCEPT ![pc] = Code(pc, tr, n = "armed")]
        /\ jmp' = Discard(pc, set_dhtu_policy({pc}, Code(pc, tr, n = "armed"),
                                 [direct EXCEPT ![pc] = Code(pc, tr, n = "armed")], TRUE))
    BY Zenon DEF CompileStart
  <2> HIDE DEF n
  <2> QED
    BY <2>1, <2>4, <2>5
<1>4. TypeOK'
  <2>1. status' \in [Addr -> Statuses]
    BY <1>0, <1>1 DEF TypeOK, Statuses
  <2>2. head' \in [Lines -> Addr \cup {NoAddr}] /\ tag' \in [Lines -> Pointers]
    BY <1>0, RaiseTyped DEF CompileStart, TypeOK
  <2>3. DOMAIN xl' = Addr /\ \A b \in Addr : xl'[b] \in [Span[b] -> Val]
    BY <1>0, <1>1, <1>t DEF TypeOK
  <2>4. direct' \in [Addr -> Pointers \cup {Null}] /\ count' \in [Addr -> {"armed", "out", "off"}]
    BY <1>0, <1>3 DEF TypeOK
  <2>5. jmp' \in [Edges -> Pointers \cup {Null}]
    <3>1. set_dhtu_policy({pc}, c, [direct EXCEPT ![pc] = c], TRUE) \in [Edges -> Pointers \cup {Null}]
      <4>1. c \in Pointers /\ {pc} \subseteq Addr /\ TRUE \in BOOLEAN
        BY <1>0
      <4>2. [direct EXCEPT ![pc] = c] \in [Addr -> Pointers \cup {Null}]
        BY <1>3, <2>4
      <4> QED
        BY <1>0, <4>1, <4>2, JumpsTyped
    <3> QED
      BY <1>3, <3>1 DEF Discard
  <2> QED
    BY <1>0, <1>1, <2>1, <2>2, <2>3, <2>4, <2>5 DEF TypeOK, checkVars, Points
<1>5. CacheOK'
  BY <1>0, CacheStarted
<1> QED
  BY <1>2, <1>4, <1>5 DEF Inductive

\* Looking up a successor keeps it.
LEMMA CompileTargetKeeps ==
  ASSUME Inductive, NEW t \in Addr, CompileTarget(t)
  PROVE  Inductive'
<1> USE PointerFacts
<1>0. TypeOK /\ ThreadOK /\ CacheOK /\ at = "compile" /\ slot < MaxSuccs /\ stk = << >>
  BY DEF Inductive, CompileTarget, ThreadOK
<1>1. UNCHANGED <<mem, unseen, unflushed, hu, direct, xl, count, dep, linked, prefer, jmp,
                  marked, pc, tr, slot>> /\ target' = t
  BY DEF CompileTarget, NoWrite
<1>2. \/ at' = "link" /\ UNCHANGED checkVars
      \/ at' = "check" /\ CallCheck(t, "link")
  BY DEF CompileTarget
<1>3. \/ /\ status[t] = "FREE" /\ status' = [status EXCEPT ![t] = "INVALID"]
         /\ onActive' = onActive \cup {t} /\ raise_in_cl_list(t, EN)
      \/ UNCHANGED <<status, onActive, head, tag>>
  BY DEF CompileTarget
<1>4. TypeOK'
  <2>1. /\ status' \in [Addr -> Statuses] /\ onActive' \subseteq Addr
        /\ head' \in [Lines -> Addr \cup {NoAddr}] /\ tag' \in [Lines -> Pointers]
    <3>1. CASE UNCHANGED <<status, onActive, head, tag>>
      BY <1>0, <3>1 DEF TypeOK
    <3>2. CASE ~UNCHANGED <<status, onActive, head, tag>>
      <4>1. raise_in_cl_list(t, EN)
        BY <1>3, <3>2
      <4>2. head' \in [Lines -> Addr \cup {NoAddr}] /\ tag' \in [Lines -> Pointers]
        BY <1>0, <4>1, RaiseTyped
      <4> QED
        BY <1>0, <1>3, <3>2, <4>2 DEF TypeOK, Statuses
    <3> QED
      BY <3>1, <3>2
  <2>2. /\ at' \in Points /\ stk' \in Seq(Addr \X (0 .. 2)) /\ cur' \in Addr \cup {NoAddr}
        /\ res' \in {"call", "good", "bad"} /\ ret' \in {"normal", "link"}
    <3>1. CASE at' = "link" /\ UNCHANGED checkVars
      BY <1>0, <3>1 DEF TypeOK, checkVars, Points
    <3>2. CASE at' = "check" /\ CallCheck(t, "link")
      BY <1>0, <3>2 DEF CallCheck, Points
    <3> QED
      BY <1>2, <3>1, <3>2
  <2> QED
    BY <1>0, <1>1, <2>1, <2>2 DEF TypeOK
<1>5. ThreadOK'
  <2>1. \A b \in Addr : /\ status'[b] = "COMPILING" <=> status[b] = "COMPILING"
                        /\ status'[b] = "CHECKING" <=> status[b] = "CHECKING"
    BY <1>0, <1>3 DEF TypeOK
  <2>2. stk' = << >> /\ (at' = "check" => cur' \in Addr)
    BY <1>0, <1>2 DEF CallCheck, checkVars
  <2>3. Compiling /\ Compiling'
    BY <1>0, <1>2 DEF Compiling, CallCheck
  <2>4. at' \in {"link", "check"}
    BY <1>2
  <2> QED
    BY <1>0, <1>1, <2>1, <2>2, <2>3, <2>4 DEF ThreadOK
<1>6. CacheOK'
  <2>1. CASE status[t] = "FREE" /\ status' = [status EXCEPT ![t] = "INVALID"]
             /\ onActive' = onActive \cup {t} /\ raise_in_cl_list(t, EN)
    BY <1>0, <1>1, <2>1, CacheTargeted
  <2>2. CASE UNCHANGED <<status, onActive, head, tag>>
    BY <1>0, <1>1, <2>2, CacheKept DEF cacheVars
  <2> QED
    BY <1>3, <2>1, <2>2
<1> QED
  BY <1>4, <1>5, <1>6 DEF Inductive

\* Emitting and recording an edge keeps it.
LEMMA CompileLinkKeeps ==
  ASSUME Inductive, NEW d \in BOOLEAN, CompileLink(d)
  PROVE  Inductive'
<1> USE PointerFacts
<1>0. /\ TypeOK /\ ThreadOK /\ CacheOK /\ at = "link" /\ stk = << >> /\ target \in Addr
      /\ slot < MaxSuccs /\ pc \in Addr
  BY DEF Inductive, CompileLink, ThreadOK, TypeOK
<1>e. <<pc, slot>> \in Edges
  BY <1>0, PolicyAssumption DEF Edges, Slots, TypeOK
<1>1. /\ at' = "compile" /\ slot' = slot + 1 /\ target' = NoAddr
      /\ UNCHANGED <<mem, unseen, unflushed, status, onActive, head, tag, hu, direct, xl, count,
                     marked, pc, tr, checkVars>>
      /\ dep' = [dep EXCEPT ![<<pc, slot>>] = target] /\ linked' = linked \cup {<<pc, slot>>}
      /\ prefer' \subseteq prefer \cup {<<pc, slot>>}
  BY DEF CompileLink, NoWrite, create_jmpdep
<1>2. jmp' \in [Edges -> Pointers \cup {Null}]
  BY <1>0, <1>e DEF CompileLink, TypeOK
<1>3. TypeOK'
  <2>1. slot' \in 0 .. MaxSuccs
    BY <1>0, <1>1, PolicyAssumption DEF TypeOK
  <2>2. dep' \in [Edges -> Addr \cup {NoAddr}] /\ linked' \subseteq Edges /\ prefer' \subseteq linked'
    <3>1. dep \in [Edges -> Addr \cup {NoAddr}] /\ linked \subseteq Edges /\ prefer \subseteq linked
      BY <1>0 DEF TypeOK
    <3> QED
      BY <1>0, <1>1, <1>e, <3>1
  <2> QED
    BY <1>0, <1>1, <1>2, <2>1, <2>2 DEF TypeOK, checkVars, Points
<1>4. ThreadOK'
  BY <1>0, <1>1 DEF ThreadOK, Compiling, checkVars
<1>5. CacheOK'
  BY <1>0, CacheLinked
<1> QED
  BY <1>3, <1>4, <1>5 DEF Inductive

\* Publishing the block keeps it.
LEMMA CompileEndKeeps ==
  ASSUME Inductive, CompileEnd
  PROVE  Inductive'
<1> USE PointerFacts
<1>0. /\ TypeOK /\ ThreadOK /\ CacheOK /\ at = "compile" /\ stk = << >> /\ pc \in Addr
      /\ status[pc] = "COMPILING" /\ BlockOK(pc)
  BY DEF Inductive, CompileEnd, ThreadOK, TypeOK, Compiling, CacheOK
<1>1. PICK p \in Pointers :
        /\ hu' = [hu EXCEPT ![pc] = p] /\ direct' = [direct EXCEPT ![pc] = p]
        /\ jmp' = set_dhtu_policy({pc}, p, [direct EXCEPT ![pc] = p], TRUE)
        /\ raise_in_cl_list(pc, p)
  <2>1. direct[pc] \in Pointers
    BY <1>0 DEF BlockOK, Held, TypeOK
  <2> QED
    BY <2>1 DEF CompileEnd, PublishedJumps
<1>2. /\ at' = "emitted" /\ slot' = 0 /\ status' = [status EXCEPT ![pc] = "ACTIVE"]
      /\ onActive' \subseteq onActive \cup {pc} /\ marked' \subseteq marked \cup CodePages(pc)
      /\ UNCHANGED <<mem, unseen, unflushed, xl, count, dep, linked, prefer, pc, tr, target,
                     checkVars>>
  BY DEF CompileEnd, NoWrite, jit_code_page_mark
<1>3. TypeOK'
  <2>1. head' \in [Lines -> Addr \cup {NoAddr}] /\ tag' \in [Lines -> Pointers]
    BY <1>0, <1>1, RaiseTyped
  <2>2. hu' \in [Addr -> Pointers] /\ direct' \in [Addr -> Pointers \cup {Null}]
    BY <1>0, <1>1 DEF TypeOK
  <2>3. jmp' \in [Edges -> Pointers \cup {Null}]
    <3>1. [direct EXCEPT ![pc] = p] \in [Addr -> Pointers \cup {Null}] /\ {pc} \subseteq Addr
          /\ TRUE \in BOOLEAN
      BY <1>0, <1>1, <2>2
    <3> QED
      BY <1>0, <1>1, <3>1, JumpsTyped
  <2>4. marked' \subseteq Pages
    <3>1. \A x \in Span[pc] : x \in Addr
      BY <1>0, ShapeAssumption
    <3>2. CodePages(pc) \subseteq Pages
      BY <3>1 DEF CodePages, Pages
    <3>3. marked \subseteq Pages
      BY <1>0 DEF TypeOK
    <3> QED
      BY <1>2, <3>2, <3>3
  <2>5. slot' \in 0 .. MaxSuccs
    BY <1>2, PolicyAssumption
  <2>6. status' \in [Addr -> Statuses] /\ onActive' \subseteq Addr
    BY <1>0, <1>2 DEF TypeOK, Statuses
  <2> QED
    BY <1>0, <1>2, <2>1, <2>2, <2>3, <2>4, <2>5, <2>6 DEF TypeOK, checkVars, Points
<1>4. ThreadOK'
  BY <1>0, <1>2 DEF ThreadOK, Compiling, checkVars, TypeOK
<1>5. CacheOK'
  BY <1>0, CacheEnded
<1> QED
  BY <1>3, <1>4, <1>5 DEF Inductive

-----------------------------------------------------------------------------
(* block_check_checksum.                                                    *)

\* Finding a block already checked keeps it.
LEMMA CheckSkipKeeps ==
  ASSUME Inductive, CheckSkip
  PROVE  Inductive'
<1>0. TypeOK /\ ThreadOK /\ CacheOK
  BY DEF Inductive
<1>1. /\ UNCHANGED <<mem, unseen, unflushed, cacheVars, tr, slot, target, pc, at, stk, cur, ret>>
      /\ res' = "good"
  BY DEF CheckSkip, InCheck, NoWrite, BetweenBlocks, cacheVars
<1>2. TypeOK'
  BY <1>0, <1>1 DEF TypeOK, cacheVars
<1>3. ThreadOK'
  BY <1>0, <1>1 DEF ThreadOK, Compiling, cacheVars
<1>4. CacheOK'
  BY <1>0, <1>1, CacheKept
<1> QED
  BY <1>2, <1>3, <1>4 DEF Inductive

(* Pushing a frame for a block that was not being checked.                  *)
LEMMA CheckGoodKeeps ==
  ASSUME Inductive, CheckGood
  PROVE  Inductive'
<1> USE PointerFacts
<1>0. /\ TypeOK /\ ThreadOK /\ CacheOK /\ at = "check" /\ cur \in Addr
      /\ status[cur] = "NEED_CHECK" /\ BlockOK(cur) /\ stk \in Seq(Addr \X (0 .. 2))
  BY DEF Inductive, CheckGood, InCheck, ThreadOK, CacheOK, TypeOK
<1>1. /\ UNCHANGED <<mem, unseen, unflushed, onActive, head, tag, direct, count, dep, linked,
                     prefer, xl, marked, tr, slot, target, pc, at, cur, ret>>
      /\ res' = "good" /\ stk' = Append(stk, <<cur, 0>>)
      /\ status' = [status EXCEPT ![cur] = "CHECKING"]
      /\ hu' = [hu EXCEPT ![cur] = direct[cur]]
      /\ jmp' = set_dhtu_policy({cur}, direct[cur], direct, TRUE)
  BY DEF CheckGood, InCheck, NoWrite, BetweenBlocks
<1>2. direct[cur] \in Pointers
  BY <1>0 DEF TypeOK, BlockOK, Held
<1>3. TypeOK'
  <2>1. status' \in [Addr -> Statuses] /\ hu' \in [Addr -> Pointers]
    BY <1>0, <1>1, <1>2 DEF TypeOK, Statuses
  <2>2. jmp' \in [Edges -> Pointers \cup {Null}]
    <3>1. {cur} \subseteq Addr /\ TRUE \in BOOLEAN /\ direct \in [Addr -> Pointers \cup {Null}]
      BY <1>0 DEF TypeOK
    <3> QED
      BY <1>0, <1>1, <1>2, <3>1, JumpsTyped
  <2>3. stk' \in Seq(Addr \X (0 .. 2))
    BY <1>0, <1>1
  <2> QED
    BY <1>0, <1>1, <2>1, <2>2, <2>3 DEF TypeOK
<1>4. ThreadOK'
  <2>1. /\ Len(stk') = Len(stk) + 1 /\ stk'[Len(stk) + 1][1] = cur
        /\ \A i \in 1 .. Len(stk) : stk'[i] = stk[i]
        /\ Len(stk) \in Nat
    BY <1>0, <1>1
  <2>2. \A i \in 1 .. Len(stk) : stk[i][1] # cur
    BY <1>0 DEF ThreadOK
  <2>3. \A b \in Addr : status'[b] = "CHECKING" <=> \E i \in 1 .. Len(stk') : stk'[i][1] = b
    <3>1. ASSUME NEW b \in Addr
          PROVE  status'[b] = "CHECKING" <=> \E i \in 1 .. Len(stk') : stk'[i][1] = b
      <4>1. CASE b = cur
        <5>1. Len(stk) + 1 \in 1 .. Len(stk')
          BY <2>1
        <5> QED
          BY <1>0, <1>1, <2>1, <4>1, <5>1 DEF TypeOK
      <4>2. CASE b # cur
        <5>1. status'[b] = status[b]
          BY <1>0, <1>1, <4>2 DEF TypeOK
        <5>2. (\E i \in 1 .. Len(stk') : stk'[i][1] = b) <=> (\E i \in 1 .. Len(stk) : stk[i][1] = b)
          BY <2>1, <4>2
        <5> QED
          BY <1>0, <5>1, <5>2 DEF ThreadOK
      <4> QED
        BY <4>1, <4>2
    <3> QED
      BY <3>1
  <2>4. \A i, j \in 1 .. Len(stk') : stk'[i][1] = stk'[j][1] => i = j
    BY <1>0, <2>1, <2>2 DEF ThreadOK
  <2>5. \A b \in Addr : status'[b] = "COMPILING" <=> Compiling' /\ b = pc'
    BY <1>0, <1>1 DEF ThreadOK, Compiling, TypeOK
  <2> QED
    BY <1>0, <1>1, <2>3, <2>4, <2>5 DEF ThreadOK
<1>5. CacheOK'
  BY <1>0, CacheValidated
<1> QED
  BY <1>3, <1>4, <1>5 DEF Inductive

\* invalidate_block keeps the types.
LEMMA InvalidateTyped ==
  ASSUME TypeOK, NEW b \in Addr, invalidate_block(b)
  PROVE  /\ status' \in [Addr -> Statuses] /\ hu' \in [Addr -> Pointers]
         /\ direct' \in [Addr -> Pointers \cup {Null}]
         /\ count' \in [Addr -> {"armed", "out", "off"}]
         /\ jmp' \in [Edges -> Pointers \cup {Null}]
         /\ linked' \subseteq Edges /\ prefer' \subseteq linked'
         /\ dep' \in [Edges -> Addr \cup {NoAddr}]
<1> USE PointerFacts
<1>1. status' \in [Addr -> Statuses] /\ hu' \in [Addr -> Pointers]
  BY DEF invalidate_block, TypeOK, Statuses
<1>2. direct' \in [Addr -> Pointers \cup {Null}] /\ count' \in [Addr -> {"armed", "out", "off"}]
  BY DEF invalidate_block, TypeOK
<1>3. jmp' \in [Edges -> Pointers \cup {Null}]
  <2>1. [direct EXCEPT ![b] = Null] \in [Addr -> Pointers \cup {Null}] /\ {b} \subseteq Addr
        /\ TRUE \in BOOLEAN
    BY DEF TypeOK
  <2>2. set_dhtu_policy({b}, EN, [direct EXCEPT ![b] = Null], TRUE)
          \in [Edges -> Pointers \cup {Null}]
    BY <2>1, JumpsTyped
  <2> QED
    BY <2>2 DEF invalidate_block, Discard
<1>4. linked' \subseteq Edges /\ prefer' \subseteq linked'
  BY DEF invalidate_block, TypeOK
<1>5. dep' \in [Edges -> Addr \cup {NoAddr}]
  BY DEF invalidate_block, TypeOK
<1> QED
  BY <1>1, <1>2, <1>3, <1>4, <1>5

\* A failed checksum keeps it.
LEMMA CheckBadKeeps ==
  ASSUME Inductive, CheckBad
  PROVE  Inductive'
<1> USE PointerFacts
<1>0. /\ TypeOK /\ ThreadOK /\ CacheOK /\ at = "check" /\ cur \in Addr
      /\ status[cur] = "NEED_CHECK"
  BY DEF Inductive, CheckBad, InCheck, ThreadOK
<1>1. /\ UNCHANGED <<mem, unseen, unflushed, onActive, xl, marked, tr, slot, target, pc, at, stk,
                     cur, ret>>
      /\ res' = "bad" /\ invalidate_block(cur) /\ raise_in_cl_list(cur, EN)
  BY DEF CheckBad, InCheck, NoWrite, BetweenBlocks
<1>2. TypeOK'
  <2>1. head' \in [Lines -> Addr \cup {NoAddr}] /\ tag' \in [Lines -> Pointers]
    BY <1>0, <1>1, RaiseTyped
  <2> QED
    BY <1>0, <1>1, <2>1, InvalidateTyped DEF TypeOK
<1>3. ThreadOK'
  <2>1. \A b \in Addr : /\ status'[b] = "COMPILING" <=> status[b] = "COMPILING"
                        /\ status'[b] = "CHECKING" <=> status[b] = "CHECKING"
    BY <1>0, <1>1 DEF TypeOK, invalidate_block
  <2> QED
    BY <1>0, <1>1, <2>1 DEF ThreadOK, Compiling
<1>4. CacheOK'
  BY <1>0, <1>1, CacheInvalidated
<1> QED
  BY <1>2, <1>3, <1>4 DEF Inductive

(* The top frame and what is below it.                                      *)
LEMMA StackFacts ==
  ASSUME TypeOK, stk # << >>
  PROVE  /\ Frame \in Addr \X (0 .. 2) /\ Frame[1] \in Addr /\ Frame[2] \in 0 .. 2
         /\ Len(stk) \in Nat \ {0}
         /\ Pop \in Seq(Addr \X (0 .. 2)) /\ Len(Pop) = Len(stk) - 1
         /\ \A i \in 1 .. Len(Pop) : Pop[i] = stk[i]
<1>1. stk \in Seq(Addr \X (0 .. 2))
  BY DEF TypeOK
<1>2. Len(stk) \in Nat \ {0}
  BY <1>1
<1>3. Frame \in Addr \X (0 .. 2)
  BY <1>1, <1>2 DEF Frame
<1>4. Frame[1] \in Addr /\ Frame[2] \in 0 .. 2
  BY <1>3
<1>5. Pop \in Seq(Addr \X (0 .. 2)) /\ Len(Pop) = Len(stk) - 1
      /\ \A i \in 1 .. Len(Pop) : Pop[i] = stk[i]
  <2> DEFINE S == Addr \X (0 .. 2)
             n == Len(stk) - 1
  <2>1. /\ stk \in Seq(S) /\ n \in Nat /\ 1 \in Int /\ n \in Int
        /\ n - 1 + 1 = n /\ (IF 1 <= n THEN n - 1 + 1 ELSE 0) = n
        /\ \A i \in 1 .. n : i \in 1 .. Len(stk)
    <3>1. stk \in Seq(S)
      BY <1>1
    <3>2. PICK m \in Nat \ {0} : m = Len(stk)
      BY <1>2
    <3> HIDE DEF S
    <3>3. n = m - 1
      BY <3>2
    <3> HIDE DEF n
    <3>4. /\ n \in Nat /\ 1 \in Int /\ n \in Int /\ n - 1 + 1 = n
          /\ \A i \in 1 .. n : i \in 1 .. m
      BY <3>3
    <3>5. (IF 1 <= n THEN n - 1 + 1 ELSE 0) = n
      BY <3>4
    <3> QED
      BY <3>1, <3>2, <3>4, <3>5
  <2> HIDE DEF S
  <2>a. \A i \in 1 .. n : stk[i] \in S
    BY <2>1, ElementOfSeq
  <2> HIDE DEF n
  <2>2. /\ SubSeq(stk, 1, n) \in Seq(S) /\ Len(SubSeq(stk, 1, n)) = IF 1 <= n THEN n - 1 + 1 ELSE 0
        /\ \A i \in 1 .. n - 1 + 1 : SubSeq(stk, 1, n)[i] = stk[1 + i - 1]
    BY <2>1, <2>a, SubSeqProperties
  <2>3. \A i \in 1 .. n : SubSeq(stk, 1, n)[i] = stk[i]
    <3> TAKE i \in 1 .. n
    <3>1. i \in Nat /\ 1 + i - 1 = i /\ i \in 1 .. n - 1 + 1
      BY <2>1
    <3> QED
      BY <2>2, <3>1
  <2> QED
    BY <2>1, <2>2, <2>3 DEF Pop, S, n
<1> QED
  BY <1>2, <1>3, <1>4, <1>5

(* Popping the frame of a block that is no longer being checked.            *)
LEMMA ThreadPopped ==
  ASSUME TypeOK, ThreadOK, at = "check", stk # << >>, stk' = Pop,
         NEW s, s # "COMPILING", s # "CHECKING",
         status' = [status EXCEPT ![Frame[1]] = s],
         UNCHANGED <<mem, at, pc, tr, slot, target, cur, ret>>
  PROVE  ThreadOK'
<1> DEFINE f == Frame[1]
           n == Len(stk)
<1>0. /\ f \in Addr /\ n \in Nat \ {0} /\ Len(stk') = n - 1
      /\ \A i \in 1 .. n - 1 : stk'[i] = stk[i]
      /\ stk[n][1] = f
  BY StackFacts DEF Frame
<1>1. status[f] = "CHECKING"
  BY <1>0 DEF ThreadOK
<1>2. \A b \in Addr : status'[b] = IF b = f THEN s ELSE status[b]
  BY <1>0 DEF TypeOK
<1> HIDE DEF f, n
<1>3. ASSUME NEW b \in Addr
      PROVE  status'[b] = "CHECKING" <=> \E i \in 1 .. Len(stk') : stk'[i][1] = b
  <2>1. CASE b = f
    <3>1. \A i \in 1 .. n - 1 : stk[i][1] # f
      BY <1>0 DEF ThreadOK, n
    <3> QED
      BY <1>0, <1>2, <2>1, <3>1
  <2>2. CASE b # f
    <3>1. (\E i \in 1 .. Len(stk') : stk'[i][1] = b) <=> (\E i \in 1 .. n : stk[i][1] = b)
      BY <1>0, <2>2
    <3> QED
      BY <1>2, <2>2, <3>1 DEF ThreadOK, n
  <2> QED
    BY <2>1, <2>2
<1>4. \A i, j \in 1 .. Len(stk') : stk'[i][1] = stk'[j][1] => i = j
  BY <1>0 DEF ThreadOK, n
<1>5. \A b \in Addr : status'[b] = "COMPILING" <=> Compiling' /\ b = pc'
  BY <1>1, <1>2 DEF ThreadOK, Compiling
<1> QED
  BY <1>3, <1>4, <1>5 DEF ThreadOK

\* Leaving a frame of the checksum walk, promoted or discarded, keeps it.
LEMMA CheckPopKeeps ==
  ASSUME Inductive, CheckPromote \/ CheckDiscard
  PROVE  Inductive'
<1> USE PointerFacts
<1>0. TypeOK /\ ThreadOK /\ CacheOK /\ at = "check" /\ stk # << >> /\ Frame[1] \in Addr
  BY StackFacts DEF Inductive, CheckPromote, CheckDiscard, InCheck
<1>c. status[Frame[1]] = "CHECKING"
  BY <1>0, StackFacts DEF ThreadOK, Frame
<1>1. /\ UNCHANGED <<mem, unseen, unflushed, xl, marked, tr, slot, target, pc, at, cur, res, ret>>
      /\ stk' = Pop /\ Pop \in Seq(Addr \X (0 .. 2))
  BY <1>0, StackFacts DEF CheckPromote, CheckDiscard, InCheck, NoWrite, BetweenBlocks
<1>2. CASE CheckPromote
  <2>1. /\ onActive' = onActive \cup {Frame[1]} /\ raise_in_cl_list(Frame[1], hu[Frame[1]])
        /\ status' = [status EXCEPT ![Frame[1]] = "ACTIVE"]
        /\ UNCHANGED <<hu, direct, count, dep, linked, prefer, jmp>>
    BY <1>2 DEF CheckPromote
  <2>2. TypeOK'
    <3>1. hu[Frame[1]] \in Pointers
      BY <1>0 DEF TypeOK
    <3>2. head' \in [Lines -> Addr \cup {NoAddr}] /\ tag' \in [Lines -> Pointers]
      BY <1>0, <2>1, <3>1, RaiseTyped
    <3>3. status' \in [Addr -> Statuses] /\ onActive' \subseteq Addr
      BY <1>0, <2>1 DEF TypeOK, Statuses
    <3> QED
      BY <1>0, <1>1, <2>1, <3>2, <3>3 DEF TypeOK
  <2>3. ThreadOK'
    BY <1>0, <1>1, <2>1, ThreadPopped
  <2>4. CacheOK'
    BY <1>0, <1>1, <1>c, <2>1, CachePromoted
  <2> QED
    BY <2>2, <2>3, <2>4 DEF Inductive
<1>3. CASE CheckDiscard
  <2>1. invalidate_block(Frame[1]) /\ raise_in_cl_list(Frame[1], EN) /\ UNCHANGED onActive
    BY <1>3 DEF CheckDiscard
  <2>2. TypeOK'
    <3>1. head' \in [Lines -> Addr \cup {NoAddr}] /\ tag' \in [Lines -> Pointers]
      BY <1>0, <2>1, RaiseTyped
    <3> QED
      BY <1>0, <1>1, <2>1, <3>1, InvalidateTyped DEF TypeOK
  <2>3. ThreadOK'
    <3>1. status' = [status EXCEPT ![Frame[1]] = "INVALID"]
      BY <2>1 DEF invalidate_block
    <3> QED
      BY <1>0, <1>1, <3>1, ThreadPopped
  <2>4. CacheOK'
    BY <1>0, <1>1, <1>c, <2>1, CacheInvalidated
  <2> QED
    BY <2>2, <2>3, <2>4 DEF Inductive
<1> QED
  BY <1>2, <1>3

(* Moving on to the frame's next successor keeps the blocks on the stack.   *)
LEMMA Advanced ==
  ASSUME TypeOK, stk # << >>, Frame[2] < 2, stk' = Append(Pop, <<Frame[1], Frame[2] + 1>>)
  PROVE  /\ stk' \in Seq(Addr \X (0 .. 2)) /\ Len(stk') = Len(stk) /\ stk' # << >>
         /\ \A i \in 1 .. Len(stk) : stk'[i][1] = stk[i][1]
         /\ stk'[1][1] = stk[1][1]
         /\ stk'[Len(stk')] = <<Frame[1], Frame[2] + 1>>
<1>1. Frame[1] \in Addr /\ Frame[2] \in 0 .. 1
  BY StackFacts
<1>2. <<Frame[1], Frame[2] + 1>> \in Addr \X (0 .. 2)
  BY <1>1
<1>3. Len(stk) \in Nat \ {0} /\ Len(Pop) = Len(stk) - 1 /\ Pop \in Seq(Addr \X (0 .. 2))
  BY StackFacts
<1>4. stk' \in Seq(Addr \X (0 .. 2)) /\ Len(stk') = Len(stk)
  BY <1>2, <1>3
<1>5. stk'[Len(stk)] = <<Frame[1], Frame[2] + 1>>
  BY <1>2, <1>3
<1>6. ASSUME NEW i \in 1 .. Len(stk) PROVE stk'[i][1] = stk[i][1]
  <2>1. CASE i = Len(stk)
    <3>1. Frame[1] = stk[i][1]
      BY <2>1 DEF Frame
    <3>2. stk'[i] = <<Frame[1], Frame[2] + 1>>
      BY <1>5, <2>1
    <3>3. stk'[i][1] = Frame[1]
      BY ONLY <3>2
    <3> QED
      BY <3>1, <3>3
  <2>2. CASE i # Len(stk)
    <3>1. i \in 1 .. Len(Pop)
      BY <1>3, <2>2
    <3>2. stk'[i] = Pop[i]
      BY <1>2, <1>3, <3>1
    <3> QED
      BY <3>1, <3>2, StackFacts
  <2> QED
    BY <2>1, <2>2
<1>7. stk' # << >> /\ 1 \in 1 .. Len(stk)
  BY <1>3, <1>4
<1> QED
  BY <1>4, <1>5, <1>6, <1>7

\* Moving on to the next successor keeps it.
LEMMA CheckSuccessorKeeps ==
  ASSUME Inductive, CheckSuccessor
  PROVE  Inductive'
<1>0. /\ TypeOK /\ ThreadOK /\ CacheOK /\ at = "check" /\ stk # << >> /\ Frame \in Edges
      /\ cur \in Addr
  <2>1. TypeOK /\ ThreadOK /\ CacheOK /\ at = "check" /\ stk # << >> /\ Frame[2] < 2
    BY DEF Inductive, CheckSuccessor, InCheck
  <2>2. Frame[2] \in Slots
    BY <2>1, StackFacts DEF Slots
  <2> QED
    BY <2>1, <2>2, StackFacts DEF Edges, ThreadOK
<1>1. /\ UNCHANGED <<mem, unseen, unflushed, cacheVars, tr, slot, target, pc, at, ret>>
      /\ stk' = Append(Pop, <<Frame[1], Frame[2] + 1>>)
  BY DEF CheckSuccessor, InCheck, NoWrite, BetweenBlocks, cacheVars
<1>2. cur' \in Addr /\ res' \in {"call", "good"}
  BY <1>0 DEF CheckSuccessor, TypeOK
<1>3. /\ stk' \in Seq(Addr \X (0 .. 2)) /\ Len(stk') = Len(stk)
      /\ \A i \in 1 .. Len(stk) : stk'[i][1] = stk[i][1]
  BY <1>0, <1>1, Advanced DEF CheckSuccessor
<1>4. TypeOK'
  BY <1>0, <1>1, <1>2, <1>3 DEF TypeOK, cacheVars
<1>5. ThreadOK'
  BY <1>0, <1>1, <1>2, <1>3 DEF ThreadOK, Compiling, cacheVars
<1>6. CacheOK'
  BY <1>0, <1>1, CacheKept
<1> QED
  BY <1>4, <1>5, <1>6 DEF Inductive

\* Returning from the checksum walk keeps it.
LEMMA CheckReturnKeeps ==
  ASSUME Inductive, CheckReturn
  PROVE  Inductive'
<1>0. TypeOK /\ ThreadOK /\ CacheOK /\ at = "check" /\ stk = << >>
  BY DEF Inductive, CheckReturn, InCheck
<1>1. /\ UNCHANGED <<mem, unseen, unflushed, cacheVars, tr, slot, target, pc>>
      /\ CallCheck(NoAddr, "normal")
      /\ \/ ret = "link" /\ at' = "link"
         \/ ret # "link" /\ at' \in {"dispatch", "normal"}
  BY DEF CheckReturn, InCheck, NoWrite, BetweenBlocks, cacheVars
<1>2. TypeOK'
  BY <1>0, <1>1 DEF TypeOK, CallCheck, cacheVars, Points
<1>3. ThreadOK'
  BY <1>0, <1>1 DEF ThreadOK, Compiling, CallCheck, cacheVars
<1>4. CacheOK'
  BY <1>0, <1>1, CacheKept
<1> QED
  BY <1>2, <1>3, <1>4 DEF Inductive

-----------------------------------------------------------------------------
\* The invariant holds when the code cache is empty.
LEMMA InitInductive == Init => Inductive
<1> SUFFICES ASSUME Init PROVE Inductive
  OBVIOUS
<1> USE PointerFacts
<1>1. TypeOK
  <2>1. \A b \in Addr : xl[b] \in [Span[b] -> Val]
    <3>1. ASSUME NEW b \in Addr PROVE [x \in Span[b] |-> mem[x]] \in [Span[b] -> Val]
      BY ShapeAssumption DEF Init
    <3> QED
      BY <3>1 DEF Init
  <2>2. slot \in 0 .. MaxSuccs
    BY PolicyAssumption DEF Init
  <2> QED
    BY <2>1, <2>2 DEF Init, TypeOK, Statuses, Points
<1>2. ThreadOK
  BY DEF Init, ThreadOK, Compiling
<1>3. CacheOK
  BY DEF Init, CacheOK, BlockOK, EdgeOK, LineOK, PageBitsCover, Native, Runs, Held, Live
<1> QED
  BY <1>1, <1>2, <1>3 DEF Inductive

\* Every step keeps the invariant.
LEMMA NextInductive == Inductive /\ [Next]_vars => Inductive'
<1> SUFFICES ASSUME Inductive, [Next]_vars PROVE Inductive'
  OBVIOUS
<1>1. CASE UNCHANGED vars
  <2>1. TypeOK'
    BY <1>1 DEF Inductive, TypeOK, vars, cacheVars, checkVars
  <2>2. ThreadOK'
    BY <1>1 DEF Inductive, ThreadOK, Compiling, vars, cacheVars, checkVars
  <2>3. CacheOK'
    BY <1>1, CacheKept DEF Inductive, vars
  <2> QED
    BY <2>1, <2>2, <2>3 DEF Inductive
<1>2. CASE Engine
  <2>1. CASE Dispatch \/ check_for_cache_miss
    BY <2>1, DispatchKeeps, CacheMissKeeps
  <2>2. CASE BeginTrace
    BY <2>2, MoveKeeps
  <2>3. CASE Compile
    BY <2>3, MoveKeeps, CompileTargetKeeps, CompileEntryKeeps, CompileStartKeeps,
       CompileLinkKeeps, CompileEndKeeps DEF Compile
  <2>4. CASE Check
    BY <2>4, CheckSkipKeeps, CheckGoodKeeps, CheckBadKeeps, CheckSuccessorKeeps, CheckPopKeeps,
       CheckReturnKeeps DEF Check
  <2> QED
    BY <1>2, <2>1, <2>2, <2>3, <2>4 DEF Engine
<1>3. CASE Guest
  <2>1. CASE \E x \in Addr, v \in Val : InterpreterStore(x, v) \/ NativeStore(x, v)
    BY <2>1, StoreKeeps, UnseenWriteKeeps
  <2>2. CASE NativeCinv \/ TracedCinv \/ MmuTranslationChanged
    BY <2>2, FlushKeeps
  <2>3. CASE \E x \in Addr : TraceNext(x) \/ LeaveBlock(x)
    BY <2>3, MoveKeeps
  <2>4. CASE \E i \in Slots : FollowEdge(i)
    BY <2>4, FollowEdgeKeeps
  <2> QED
    BY <1>3, <2>1, <2>2, <2>3, <2>4 DEF Guest
<1>4. CASE Device
  BY <1>4, StoreKeeps, UnseenWriteKeeps DEF Device
<1> QED
  BY <1>1, <1>2, <1>3, <1>4 DEF Next

\* The inductive invariant holds in every reachable state of the block cache:
\* all native pointers to a block agree with its direct_handler, which is fresh
\* while the block can run and unreachable while it cannot.
THEOREM InductiveInvariance == Spec => []Inductive
BY InitInductive, NextInductive, PTL DEF Spec

(* Every variable keeps its kind in every behaviour.                        *)
THEOREM BlockCacheTypes == Spec => []TypeOK
<1>1. Inductive => TypeOK
  BY DEF Inductive
<1> QED
  BY <1>1, InductiveInvariance, PTL

(* No block that may run has lost a page bit: the store barrier finds every *)
(* translation, for every layout of blocks over pages.                      *)
THEOREM PagesCovered == Spec => []PageBitsCover
<1>1. Inductive => PageBitsCover
  BY DEF Inductive, CacheOK
<1> QED
  BY <1>1, InductiveInvariance, PTL

(* Control is never transferred to native code made from bytes that an      *)
(* announced write has replaced, nor, after a lazy flush, from any bytes    *)
(* that have been replaced.                                                 *)
THEOREM NeverStale == Spec => []NoStaleCode
<1>1. ASSUME Inductive PROVE NoStaleCode
  <2> USE PointerFacts
  <2>0. TypeOK /\ CacheOK
    BY <1>1 DEF Inductive
  <2>1. ASSUME NEW b \in Addr, Native(direct[b]), Runs(direct[b]), status[b] # "NEED_CHECK"
        PROVE  \A x \in Span[direct[b].blk] \ unseen : direct[b].from[x] = mem[x]
    <3>1. BlockOK(b)
      BY <2>0 DEF CacheOK
    <3>2. status[b] \in Live
      BY <2>0, <2>1, <3>1 DEF BlockOK, Live, TypeOK, Statuses, Native
    <3> QED
      BY <2>1, <3>1, <3>2 DEF BlockOK, Live, Held
  <2>2. ASSUME NEW b \in Addr, Native(hu[b]), Runs(hu[b])
        PROVE  \A x \in Span[hu[b].blk] \ unseen : hu[b].from[x] = mem[x]
    <3>1. BlockOK(b)
      BY <2>0 DEF CacheOK
    <3>2. status[b] # "NEED_CHECK"
      BY <2>2, <3>1 DEF BlockOK, Native
    <3> QED
      BY <2>1, <2>2, <3>1, <3>2 DEF BlockOK, Fresh
  <2>3. ASSUME NEW l \in Lines, Runs(tag[l])
        PROVE  \A x \in Span[tag[l].blk] \ unseen : tag[l].from[x] = mem[x]
    <3>1. LineOK(l)
      BY <2>0 DEF CacheOK
    <3> QED
      BY <2>2, <2>3, <3>1 DEF LineOK, Runs, Native
  <2>4. ASSUME NEW e \in Edges, Runs(jmp[e])
        PROVE  \A x \in Span[jmp[e].blk] \ unseen : jmp[e].from[x] = mem[x]
    <3>1. EdgeOK(e) /\ Native(jmp[e])
      BY <2>0, <2>4 DEF CacheOK, Runs, Native
    <3>2. dep[e] \in Addr
      BY <3>1 DEF EdgeOK, Native
    <3> QED
      BY <2>1, <2>2, <2>4, <3>1, <3>2 DEF EdgeOK
  <2> QED
    BY <2>3, <2>4 DEF NoStaleCode, Installed
<1> QED
  BY <1>1, InductiveInvariance, PTL

(* While native code runs, its jumps lead to current translations only.     *)
THEOREM JumpsCurrent == Spec => []NoDanglingJump
<1>1. ASSUME Inductive PROVE NoDanglingJump
  <2> SUFFICES ASSUME at = "native", NEW e \in Edges, jmp[e].k = "native"
               PROVE  dep[e] # NoAddr /\ jmp[e] = direct[dep[e]]
    BY DEF NoDanglingJump
  <2>1. EdgeOK(e) /\ \A b \in Addr : status[b] # "COMPILING"
    BY <1>1, QuietPoints DEF Inductive, CacheOK
  <2>2. dep[e] \in Addr
    BY <2>1, PointerFacts DEF EdgeOK
  <2> QED
    BY <2>1, <2>2, AddrAssumption DEF EdgeOK, Native
<1> QED
  BY <1>1, InductiveInvariance, PTL

-----------------------------------------------------------------------------
(***************************************************************************)
(* The thread always comes closer to a guest instruction.  The rank argues *)
(* from the dispatcher's tables, so they must be right between steps: a    *)
(* block asks to be validated only while it is to be validated, a line's   *)
(* handler is its primary block's, and the walk that check_checksum starts *)
(* leaves the block it was started for primary and decided.                *)
(***************************************************************************)
HandlerOK ==
  \A b \in Addr : /\ hu[b] = CC => status[b] \in {"NEED_CHECK", "COMPILING"}
                  /\ direct[b] # CC

HeadOK ==
  \A l \in Lines : head[l] \in Addr =>
    /\ LineOf[head[l]] = l
    /\ status[head[l]] \notin {"CHECKING", "COMPILING"} => tag[l] = hu[head[l]]

RootOK ==
  at = "check" /\ ret = "normal" =>
    IF stk # << >> THEN stk[1][1] = pc
    ELSE /\ head[LineOf[pc]] = pc
         /\ res = "call" => cur = pc
         /\ res = "good" => status[pc] # "NEED_CHECK"
         /\ res = "bad" => status[pc] = "INVALID"

Guided == HandlerOK /\ HeadOK /\ RootOK

\* Steps that leave the tables alone and do not enter the checksum walk.
LEMMA GuideKept ==
  ASSUME Guided, UNCHANGED <<status, head, tag, hu, direct>>, at' # "check"
  PROVE  Guided'
BY DEF Guided, HandlerOK, HeadOK, RootOK

(* raise_in_cl_list with the block's own handler.                           *)
LEMMA GuideRaised ==
  ASSUME TypeOK, Guided, NEW a \in Addr, raise_in_cl_list(a, hu'[a]),
         \A b \in Addr \ {a} : hu'[b] = hu[b] /\ direct'[b] = direct[b] /\ status'[b] = status[b],
         hu'[a] = CC => status'[a] \in {"NEED_CHECK", "COMPILING"}, direct'[a] # CC
  PROVE  HandlerOK' /\ HeadOK'
<1>1. HandlerOK'
  BY DEF Guided, HandlerOK
<1>2. ASSUME NEW l \in Lines, head'[l] \in Addr
      PROVE  /\ LineOf[head'[l]] = l
             /\ status'[head'[l]] \notin {"CHECKING", "COMPILING"} => tag'[l] = hu'[head'[l]]
  <2>1. CASE l = LineOf[a]
    BY <1>2, <2>1 DEF raise_in_cl_list, TypeOK
  <2>2. CASE l # LineOf[a]
    <3>1. head'[l] = head[l] /\ tag'[l] = tag[l]
      BY <2>2 DEF raise_in_cl_list, TypeOK
    <3>2. LineOf[head[l]] = l /\ head[l] # a
      BY <1>2, <2>2, <3>1 DEF Guided, HeadOK
    <3> QED
      BY <1>2, <3>1, <3>2 DEF Guided, HeadOK
  <2> QED
    BY <2>1, <2>2
<1> QED
  BY <1>1, <1>2 DEF HeadOK

\* flush_icache_hard leaves empty tables.
LEMMA GuideFlushedHard ==
  ASSUME flush_icache_hard, at' # "check"
  PROVE  Guided'
BY PointerFacts, AddrAssumption DEF Guided, HandlerOK, HeadOK, RootOK, flush_icache_hard

\* Stores by the guest and by devices.
LEMMA StoreGuides ==
  ASSUME Inductive, Guided, NEW x \in Addr, NEW v \in Val,
         InterpreterStore(x, v) \/ ScsiDma(x, v) \/ NativeStore(x, v) \/ MoDma(x, v)
  PROVE  Guided'
<1>1. at' # "check"
  BY DEF InterpreterStore, ScsiDma, NativeStore, MoDma, Elsewhere
<1>2. CASE PutUnseen(x, v)
  BY <1>1, <1>2, GuideKept DEF PutUnseen, cacheVars
<1>3. CASE \E B \in SUBSET Addr : block_need_recompile(B)
  <2>1. PICK B \in SUBSET Addr : block_need_recompile(B)
    BY <1>3
  <2>2. HandlerOK'
    BY <2>1, PointerFacts DEF Guided, HandlerOK, block_need_recompile
  <2>3. HeadOK'
    BY <2>1 DEF Guided, HeadOK, block_need_recompile
  <2> QED
    BY <1>1, <2>2, <2>3 DEF Guided, RootOK
<1>4. GuestStoreHits(x) \in SUBSET Addr /\ GuestStoreHits(x) \cup Overlapping(x) \in SUBSET Addr
  BY DEF GuestStoreHits, OnPage, Overlapping, Checksummed
<1> QED
  BY <1>2, <1>3, <1>4 DEF InterpreterStore, ScsiDma, NativeStore, MoDma, NotifyGuestStore,
     NotifyDeviceMemoryWrite

\* Lazy flushes.
LEMMA FlushGuides ==
  ASSUME Inductive, Guided, NativeCinv \/ TracedCinv \/ MmuTranslationChanged
  PROVE  Guided'
<1>1. at' # "check"
  BY DEF NativeCinv, TracedCinv, MmuTranslationChanged, Elsewhere
<1>2. CASE flush_icache_lazy
  <2>1. HandlerOK'
    BY <1>2, PointerFacts DEF Guided, HandlerOK, flush_icache_lazy
  <2>2. FlushedInvalid \subseteq onActive /\ onActive \subseteq Addr
    BY DEF FlushedInvalid, Inductive, TypeOK
  <2>3. HeadOK'
    BY <1>2, <2>2 DEF Guided, HeadOK, flush_icache_lazy
  <2> QED
    BY <1>1, <2>1, <2>3 DEF Guided, RootOK
<1>3. CASE TracedCinv
  BY <1>1, <1>3, GuideKept DEF TracedCinv, cacheVars
<1> QED
  BY <1>2, <1>3 DEF NativeCinv, MmuTranslationChanged

\* Following a pointer: recompile_block meets only blocks that could run.
LEMMA JumpGuides ==
  ASSUME Inductive, Guided, at \in {"dispatch", "native"}, NEW a \in Addr, NEW p \in Pointers,
         Native(p) /\ p.blk = a => status[a] # "NEED_CHECK", Jump(p, a)
  PROVE  Guided'
<1>0. /\ \A b \in Addr : status[b] # "COMPILING" /\ status[b] # "CHECKING"
      /\ TypeOK
  BY QuietPoints DEF Inductive
<1>1. CASE EnterNative(p, a) \/ to_execute_normal(p, a)
  BY <1>1, GuideKept DEF EnterNative, to_execute_normal, cacheVars
<1>2. CASE recompile_block(p, a)
  <2>1. hu[a] # CC
    BY <1>0, <1>2 DEF Guided, HandlerOK, recompile_block, Native
  <2>2. HandlerOK' /\ HeadOK'
    BY <1>0, <1>2, <2>1, GuideRaised DEF recompile_block, TypeOK, Guided, HandlerOK
  <2> QED
    BY <1>2, <2>2 DEF recompile_block, Guided, RootOK
<1>3. CASE Miss(a)
  <2>1. CASE UNCHANGED <<head, tag>>
    BY <1>3, <2>1, GuideKept DEF Miss
  <2>2. CASE raise_in_cl_list(a, hu[a])
    <3>1. HandlerOK' /\ HeadOK'
      BY <1>0, <1>3, <2>2, GuideRaised DEF Miss, Guided, HandlerOK
    <3> QED
      BY <1>3, <3>1 DEF Miss, Guided, RootOK
  <2> QED
    BY <1>3, <2>1, <2>2 DEF Miss
<1>4. CASE /\ head[LineOf[a]] = a /\ at' = "check" /\ pc' = a /\ CallCheck(a, "normal")
           /\ UNCHANGED cacheVars
  BY <1>4 DEF Guided, HandlerOK, HeadOK, RootOK, CallCheck, cacheVars
<1> QED
  BY <1>1, <1>2, <1>3, <1>4 DEF Jump, cache_miss, check_checksum

\* A tag that is native code for its line's address comes from a primary block
\* that is not waiting to be validated.
LEMMA NativeTag ==
  ASSUME Inductive, NEW l \in Lines, Native(tag[l]),
         \A b \in Addr : status[b] # "COMPILING"
  PROVE  /\ head[l] \in Addr /\ tag[l] = hu[head[l]] /\ tag[l] = direct[head[l]]
         /\ tag[l].blk = head[l] /\ status[head[l]] # "NEED_CHECK"
<1>1. LineOK(l) /\ \A b \in Addr : BlockOK(b)
  BY DEF Inductive, CacheOK
<1>2. head[l] \in Addr /\ tag[l] = hu[head[l]]
  BY <1>1, PointerFacts DEF LineOK, Native
<1> QED
  BY <1>1, <1>2, PointerFacts DEF BlockOK, Native

\* The dispatcher and the patched jumps keep the tables right.
LEMMA TransferGuides ==
  ASSUME Inductive, Guided, Dispatch \/ \E i \in Slots : FollowEdge(i)
  PROVE  Guided'
<1>0. TypeOK /\ CacheOK /\ \A b \in Addr : status[b] # "COMPILING" /\ status[b] # "CHECKING"
  BY QuietPoints DEF Inductive, Dispatch, FollowEdge
<1>1. CASE Dispatch
  <2>1. LineOf[pc] \in Lines /\ pc \in Addr /\ tag[LineOf[pc]] \in Pointers
    BY <1>0 DEF Lines, TypeOK
  <2>2. Native(tag[LineOf[pc]]) /\ tag[LineOf[pc]].blk = pc => status[pc] # "NEED_CHECK"
    BY <1>0, <2>1, NativeTag
  <2> QED
    BY <1>1, <2>1, <2>2, JumpGuides DEF Dispatch
<1>2. ASSUME NEW i \in Slots, FollowEdge(i) PROVE Guided'
  <2> DEFINE e == <<pc, i>>
  <2>1. at = "native" /\ e \in Edges /\ EdgeOK(e) /\ jmp[e] \in Pointers
    BY <1>0, <1>2 DEF FollowEdge, TypeOK, Edges, CacheOK
  <2>2. dep[e] \in Addr
    BY <2>1, PointerFacts DEF EdgeOK
  <2>3. Native(jmp[e]) => status[dep[e]] # "NEED_CHECK"
    BY <1>0, <2>1, <2>2 DEF EdgeOK
  <2>4. Jump(jmp[e], dep[e])
    BY <1>2 DEF FollowEdge
  <2> HIDE DEF e
  <2> QED
    BY <2>1, <2>2, <2>3, <2>4, JumpGuides
<1> QED
  BY <1>1, <1>2

\* Moves that leave the cache alone, and those that flush or raise.
LEMMA MoveGuides ==
  ASSUME Inductive, Guided,
         \/ \E a \in Addr : LeaveBlock(a) \/ CompileBail(a) \/ TraceNext(a) \/ CompileReturn(a)
         \/ BeginTrace \/ CompileEntry \/ check_for_cache_miss
         \/ \E d \in BOOLEAN : CompileLink(d)
  PROVE  Guided'
<1>1. CASE UNCHANGED <<status, head, tag, hu, direct>>
  <2>1. at' # "check"
    BY DEF LeaveBlock, CompileBail, TraceNext, CompileReturn, BeginTrace, CompileEntry,
       check_for_cache_miss, CompileLink, Elsewhere
  <2> QED
    BY <1>1, <2>1, GuideKept
<1>2. CASE flush_icache_hard /\ at' # "check"
  BY <1>2, GuideFlushedHard
<1>3. CASE check_for_cache_miss /\ raise_in_cl_list(pc, hu[pc])
  <2>1. TypeOK /\ pc \in Addr
    BY DEF Inductive, TypeOK
  <2>2. HandlerOK' /\ HeadOK'
    BY <1>3, <2>1, GuideRaised DEF check_for_cache_miss, Guided, HandlerOK
  <2> QED
    BY <1>3, <2>2 DEF check_for_cache_miss, Guided, RootOK
<1> QED
  BY <1>1, <1>2, <1>3 DEF LeaveBlock, CompileBail, TraceNext, CompileReturn, BeginTrace,
     CompileEntry, check_for_cache_miss, CompileLink, Elsewhere, cacheVars

\* compile_block: the block, its successors and its publication.
LEMMA CompileGuides ==
  ASSUME Inductive, Guided, CompileStart \/ (\E t \in Addr : CompileTarget(t)) \/ CompileEnd
  PROVE  Guided'
<1>0. TypeOK /\ ThreadOK /\ CacheOK /\ pc \in Addr
  BY DEF Inductive, TypeOK
<1>1. CASE CompileStart
  <2>1. /\ at' = "compile" /\ hu' = hu /\ status' = [status EXCEPT ![pc] = "COMPILING"]
        /\ \/ status[pc] = "FREE" /\ raise_in_cl_list(pc, EN)
           \/ UNCHANGED <<head, tag>>
        /\ \A b \in Addr \ {pc} : direct'[b] = direct[b]
    BY <1>0, <1>1 DEF CompileStart, TypeOK
  <2>2. \E n : direct'[pc] = Code(pc, tr, n)
    BY <1>0, <1>1 DEF CompileStart, TypeOK
  <2>3. direct'[pc] # CC
    BY <2>2 DEF Code, CC
  <2>4. HandlerOK'
    BY <1>0, <2>1, <2>3 DEF Guided, HandlerOK, TypeOK
  <2>5. HeadOK'
    <3>1. CASE UNCHANGED <<head, tag>>
      BY <1>0, <2>1, <3>1 DEF Guided, HeadOK, TypeOK
    <3>2. CASE status[pc] = "FREE" /\ raise_in_cl_list(pc, EN)
      <4>1. hu'[pc] = EN
        BY <1>0, <2>1, <3>2 DEF CacheOK, BlockOK
      <4> QED
        BY <1>0, <2>1, <2>3, <3>2, <4>1, GuideRaised, PointerFacts DEF TypeOK
    <3> QED
      BY <2>1, <3>1, <3>2
  <2> QED
    BY <2>1, <2>4, <2>5 DEF Guided, RootOK
<1>2. ASSUME NEW t \in Addr, CompileTarget(t) PROVE Guided'
  <2>1. RootOK'
    BY <1>2 DEF CompileTarget, CallCheck, RootOK
  <2>2. hu' = hu /\ direct' = direct
    BY <1>2 DEF CompileTarget
  <2>3. CASE status[t] = "FREE"
    <3>1. hu'[t] = EN /\ direct'[t] # CC
      BY <1>0, <2>2, <2>3, PointerFacts DEF CacheOK, BlockOK
    <3>2. raise_in_cl_list(t, EN) /\ status' = [status EXCEPT ![t] = "INVALID"]
      BY <1>2, <2>3 DEF CompileTarget
    <3>3. HandlerOK' /\ HeadOK'
      BY <1>0, <2>2, <3>1, <3>2, GuideRaised, PointerFacts DEF TypeOK
    <3> QED
      BY <2>1, <3>3 DEF Guided
  <2>4. CASE status[t] # "FREE"
    BY <1>2, <2>1, <2>2, <2>4 DEF CompileTarget, Guided, HandlerOK, HeadOK
  <2> QED
    BY <2>3, <2>4
<1>3. CASE CompileEnd
  <2>1. PICK p \in {EN, direct[pc]} :
          /\ at' = "emitted" /\ hu' = [hu EXCEPT ![pc] = p] /\ direct' = [direct EXCEPT ![pc] = p]
          /\ raise_in_cl_list(pc, p) /\ status' = [status EXCEPT ![pc] = "ACTIVE"]
    BY <1>3 DEF CompileEnd
  <2>2. p # CC
    BY <1>0, PointerFacts DEF Guided, HandlerOK
  <2>3. hu'[pc] = p /\ direct'[pc] = p
    BY <1>0, <2>1 DEF TypeOK
  <2>4. HandlerOK' /\ HeadOK'
    BY <1>0, <2>1, <2>2, <2>3, GuideRaised DEF TypeOK
  <2> QED
    BY <2>1, <2>4 DEF Guided, RootOK
<1> QED
  BY <1>1, <1>2, <1>3

\* The frame at the bottom of the stack is that of the block the walk is for.
LEMMA WalkGuides ==
  ASSUME Inductive, Guided, CheckGood \/ CheckBad \/ CheckSkip \/ CheckSuccessor
  PROVE  Guided'
<1>0. /\ TypeOK /\ ThreadOK /\ CacheOK /\ at = "check" /\ cur \in Addr /\ pc \in Addr
      /\ UNCHANGED <<pc, ret>>
  BY DEF Inductive, CheckGood, CheckBad, CheckSkip, CheckSuccessor, InCheck, ThreadOK, TypeOK
<1>1. CASE CheckSkip
  BY <1>0, <1>1 DEF CheckSkip, Guided, HandlerOK, HeadOK, RootOK
<1>2. CASE CheckGood
  <2>1. /\ status' = [status EXCEPT ![cur] = "CHECKING"] /\ hu' = [hu EXCEPT ![cur] = direct[cur]]
        /\ stk' = Append(stk, <<cur, 0>>) /\ res = "call" /\ UNCHANGED <<head, tag, direct>>
    BY <1>2 DEF CheckGood
  <2>2. HandlerOK'
    BY <1>0, <2>1 DEF Guided, HandlerOK, TypeOK
  <2>3. HeadOK'
    BY <1>0, <2>1 DEF Guided, HeadOK, TypeOK
  <2>4. /\ stk' # << >>
        /\ stk'[1][1] = IF stk = << >> THEN cur ELSE stk[1][1]
    <3>1. stk \in Seq(Addr \X (0 .. 2)) /\ <<cur, 0>> \in Addr \X (0 .. 2)
      BY <1>0 DEF TypeOK
    <3>2. CASE stk = << >>
      <4>1. stk' = << <<cur, 0>> >>
        BY <2>1, <3>2
      <4> QED
        BY <3>2, <4>1
    <3>3. CASE stk # << >>
      <4>1. Len(stk) \in Nat \ {0}
        BY <3>1, <3>3
      <4>2. stk'[1] = stk[1] /\ Len(stk') = Len(stk) + 1
        BY <2>1, <3>1, <4>1
      <4> QED
        BY <3>3, <4>1, <4>2
    <3> QED
      BY <3>2, <3>3
  <2> QED
    BY <1>0, <2>1, <2>2, <2>3, <2>4 DEF Guided, RootOK
<1>3. CASE CheckBad
  <2>1. /\ status' = [status EXCEPT ![cur] = "INVALID"] /\ hu' = [hu EXCEPT ![cur] = EN]
        /\ direct' = [direct EXCEPT ![cur] = Null] /\ raise_in_cl_list(cur, EN)
        /\ res = "call" /\ res' = "bad" /\ stk' = stk
    BY <1>3 DEF CheckBad, invalidate_block
  <2>2. hu'[cur] = EN /\ direct'[cur] = Null /\ status'[cur] = "INVALID"
    BY <1>0, <2>1 DEF TypeOK
  <2>3. HandlerOK' /\ HeadOK'
    BY <1>0, <2>1, <2>2, GuideRaised, PointerFacts DEF TypeOK
  <2>4. head'[LineOf[cur]] = cur
    BY <1>0, <2>1 DEF raise_in_cl_list, TypeOK, Lines
  <2> QED
    BY <1>0, <2>1, <2>2, <2>3, <2>4 DEF Guided, RootOK
<1>4. CASE CheckSuccessor
  <2>1. stk # << >> /\ stk' = Append(Pop, <<Frame[1], Frame[2] + 1>>) /\ Frame[2] < 2
        /\ UNCHANGED <<status, head, tag, hu, direct>>
    BY <1>4 DEF CheckSuccessor
  <2>2. stk' # << >> /\ stk'[1][1] = stk[1][1]
    BY <1>0, <2>1, Advanced
  <2> QED
    BY <1>0, <2>1, <2>2 DEF Guided, HandlerOK, HeadOK, RootOK
<1> QED
  BY <1>1, <1>2, <1>3, <1>4

\* When the last frame goes, its block is the one the walk is for, and has just
\* become the primary block of its line.
LEMMA PopGuides ==
  ASSUME Inductive, Guided, CheckPromote \/ CheckDiscard
  PROVE  Guided'
<1> DEFINE f == Frame[1]
<1>0. /\ TypeOK /\ ThreadOK /\ CacheOK /\ at = "check" /\ stk # << >> /\ f \in Addr
      /\ stk' = Pop /\ UNCHANGED <<pc, ret, res>> /\ pc \in Addr
  BY StackFacts DEF Inductive, CheckPromote, CheckDiscard, InCheck, TypeOK
<1>1. status[f] = "CHECKING"
  BY <1>0, StackFacts DEF ThreadOK, Frame
<1>2. /\ stk' = << >> => f = stk[1][1]
      /\ stk' # << >> => stk'[1] = stk[1]
  <2>1. /\ Len(stk) \in Nat \ {0} /\ Pop \in Seq(Addr \X (0 .. 2)) /\ Len(Pop) = Len(stk) - 1
        /\ \A i \in 1 .. Len(Pop) : Pop[i] = stk[i]
    BY <1>0, StackFacts
  <2>2. CASE stk' = << >>
    <3>1. Len(stk) = 1
      BY <1>0, <2>1, <2>2
    <3> QED
      BY <2>2, <3>1 DEF Frame
  <2>3. CASE stk' # << >>
    <3>1. 1 \in 1 .. Len(Pop)
      BY <1>0, <2>1, <2>3
    <3> QED
      BY <1>0, <2>1, <2>3, <3>1
  <2> QED
    BY <2>2, <2>3
<1>3. /\ \A b \in Addr \ {f} : /\ hu'[b] = hu[b] /\ direct'[b] = direct[b]
                               /\ status'[b] = status[b]
      /\ raise_in_cl_list(f, hu'[f]) /\ hu'[f] # CC /\ direct'[f] # CC
      /\ \/ res = "good" /\ status'[f] = "ACTIVE"
         \/ res = "bad" /\ status'[f] = "INVALID"
  <2>1. CASE CheckPromote
    <3>1. hu[f] # CC /\ direct[f] # CC
      BY <1>0, <1>1 DEF Guided, HandlerOK
    <3> QED
      BY <1>0, <2>1, <3>1 DEF CheckPromote, TypeOK
  <2>2. CASE CheckDiscard
    BY <1>0, <2>2, PointerFacts DEF CheckDiscard, invalidate_block, TypeOK
  <2> QED
    BY <2>1, <2>2
<1> HIDE DEF f
<1>4. HandlerOK' /\ HeadOK'
  BY <1>0, <1>3, GuideRaised
<1>5. head'[LineOf[f]] = f
  BY <1>0, <1>3 DEF raise_in_cl_list, TypeOK, Lines
<1> QED
  BY <1>0, <1>2, <1>3, <1>4, <1>5 DEF Guided, RootOK

\* The tables are right in every reachable state.
LEMMA AlwaysGuided == Spec => [](Inductive /\ Guided)
<1>1. Init => Guided
  BY PointerFacts, AddrAssumption DEF Init, Guided, HandlerOK, HeadOK, RootOK
<1>2. ASSUME Inductive, Guided, [Next]_vars PROVE Guided'
  <2>1. CASE UNCHANGED vars
    BY <1>2, <2>1 DEF Guided, HandlerOK, HeadOK, RootOK, vars, cacheVars, checkVars
  <2>2. CASE Engine
    <3>1. CASE Dispatch \/ check_for_cache_miss \/ BeginTrace
      BY <1>2, <3>1, TransferGuides, MoveGuides
    <3>2. CASE Compile
      BY <1>2, <3>2, MoveGuides, CompileGuides DEF Compile
    <3>3. CASE Check
      <4>1. CASE CheckReturn
        BY <1>2, <4>1, GuideKept DEF CheckReturn
      <4> QED
        BY <1>2, <3>3, <4>1, WalkGuides, PopGuides DEF Check
    <3> QED
      BY <2>2, <3>1, <3>2, <3>3 DEF Engine
  <2>3. CASE Guest
    BY <1>2, <2>3, StoreGuides, FlushGuides, MoveGuides, TransferGuides DEF Guest
  <2>4. CASE Device
    BY <1>2, <2>4, StoreGuides DEF Device
  <2> QED
    BY <1>2, <2>1, <2>2, <2>3, <2>4 DEF Next
<1> QED
  BY <1>1, <1>2, InductiveInvariance, PTL DEF Spec

-----------------------------------------------------------------------------
(* The rank, point by point.                                                *)
LEMMA PointRanks ==
  /\ at = "dispatch" => PointRank = DispatchRank
  /\ at = "normal" => PointRank = NormalRank
  /\ at = "emitted" => PointRank = 8
  /\ at = "compile" => PointRank = 9 + SlotsLeft
  /\ at = "link" => PointRank = 6 + SlotsLeft
  /\ at = "alloc" => PointRank = 10 + SlotsLeft
  /\ at = "check" => PointRank = WalkRank + (IF ret = "link" THEN 7 + SlotsLeft ELSE 3)
BY DEF PointRank

LEMMA PointRanksNext ==
  /\ at' = "dispatch" => PointRank' = DispatchRank'
  /\ at' = "normal" => PointRank' = NormalRank'
  /\ at' = "emitted" => PointRank' = 8
  /\ at' = "compile" => PointRank' = 9 + SlotsLeft'
  /\ at' = "link" => PointRank' = 6 + SlotsLeft'
  /\ at' = "check" => PointRank' = WalkRank' + (IF ret' = "link" THEN 7 + SlotsLeft' ELSE 3)
BY DEF PointRank

\* Validating or discarding a block leaves fewer to check.
LEMMA Counted ==
  ASSUME ToCheck' \subseteq ToCheck
  PROVE  /\ Cardinality(ToCheck) \in Nat /\ Cardinality(ToCheck') \in Nat
         /\ Cardinality(ToCheck') <= Cardinality(ToCheck)
         /\ ToCheck' # ToCheck => Cardinality(ToCheck') + 1 <= Cardinality(ToCheck)
<1>1. IsFiniteSet(ToCheck)
  BY AddrAssumption, FS_Subset DEF ToCheck
<1>2. /\ IsFiniteSet(ToCheck') /\ Cardinality(ToCheck') <= Cardinality(ToCheck)
      /\ Cardinality(ToCheck) = Cardinality(ToCheck') => ToCheck = ToCheck'
  BY <1>1, FS_Subset
<1>3. Cardinality(ToCheck) \in Nat /\ Cardinality(ToCheck') \in Nat
  BY <1>1, <1>2, FS_CardinalityType
<1> QED
  BY <1>2, <1>3

\* A point closer to guest code, with nothing more to check, has a lower rank.
LEMMA Closer ==
  ASSUME ToCheck' \subseteq ToCheck, NEW m \in Int, NEW n \in Int,
         PointRank = m, PointRank' = n, n < m
  PROVE  Rank' < Rank
<1>1. /\ Cardinality(ToCheck) \in Nat /\ Cardinality(ToCheck)' \in Nat
      /\ Cardinality(ToCheck)' <= Cardinality(ToCheck)
  BY Counted
<1> QED
  BY <1>1 DEF Rank

\* One block fewer to check makes up for fifteen steps.
LEMMA Validated ==
  ASSUME ToCheck' \subseteq ToCheck, ToCheck' # ToCheck, NEW m \in Int, NEW n \in Int,
         PointRank = m, PointRank' = n, n < m + 16
  PROVE  Rank' < Rank
<1>1. /\ Cardinality(ToCheck) \in Nat /\ Cardinality(ToCheck)' \in Nat
      /\ Cardinality(ToCheck)' + 1 <= Cardinality(ToCheck)
  BY Counted
<1> QED
  BY <1>1 DEF Rank

\* The dispatcher: each outcome of a look at the cache tag.
LEMMA DispatchDescends ==
  ASSUME Inductive, Guided, Dispatch, Idle'
  PROVE  Rank' < Rank
<1> DEFINE l == LineOf[pc]
           p == tag[l]
<1>0. /\ TypeOK /\ CacheOK /\ at = "dispatch" /\ pc \in Addr /\ l \in Lines /\ p \in Pointers
      /\ \A b \in Addr : status[b] # "COMPILING" /\ status[b] # "CHECKING"
  BY QuietPoints DEF Dispatch, Inductive, TypeOK, Lines
<1>1. PointRank = DispatchRank
  BY <1>0, PointRanks
<1>2. Jump(p, pc)
  BY DEF Dispatch
<1>3. head[l] = pc => tag[l] = hu[pc]
  BY <1>0 DEF Guided, HeadOK
<1>4. status[pc] = "FREE" => hu[pc] = EN
  BY <1>0 DEF CacheOK, BlockOK
<1> HIDE DEF l, p
<1>5. CASE to_execute_normal(p, pc)
  <2>1. /\ p = EN /\ at' = "normal" /\ pc' = pc
        /\ UNCHANGED <<status, head, tag, hu>>
    BY <1>5 DEF to_execute_normal, cacheVars
  <2>2. PointRank' = NormalRank'
    BY <2>1, PointRanksNext
  <2>3. ~CacheHit(pc)'
    BY <2>1 DEF CacheHit, p, l
  <2>4. NormalRank' = IF status[pc] # "FREE" /\ head[l] # pc THEN 6 ELSE 1
    BY <2>1, <2>3 DEF NormalRank, l
  <2>5. DispatchRank = IF status[pc] # "FREE" /\ head[l] # pc THEN 7 ELSE 2
    BY <2>1, PointerFacts DEF DispatchRank, l, p
  <2>6. ToCheck' = ToCheck
    BY <2>1 DEF ToCheck
  <2> QED
    BY <1>1, <2>2, <2>4, <2>5, <2>6, Closer
<1>6. CASE recompile_block(p, pc)
  <2>1. Native(p) /\ p.blk = pc
    BY <1>6 DEF recompile_block, Native
  <2>2. head[l] = pc /\ status[pc] # "FREE" /\ tag[l] # CC
    BY <1>0, <1>3, <1>4, <2>1, NativeTag, PointerFacts DEF p, Native
  <2>3. DispatchRank = 2
    BY <2>2 DEF DispatchRank, l
  <2>4. /\ at' = "normal" /\ pc' = pc /\ status' = [status EXCEPT ![pc] = "NEED_RECOMP"]
        /\ head' = [head EXCEPT ![l] = pc]
    BY <1>6 DEF recompile_block, raise_in_cl_list, l
  <2>5. NormalRank' = 1
    BY <1>0, <2>4 DEF NormalRank, CacheHit, TypeOK, l
  <2>6. ToCheck' \subseteq ToCheck
    BY <1>0, <2>4 DEF ToCheck, TypeOK
  <2> QED
    BY <1>1, <2>3, <2>4, <2>5, <2>6, PointRanksNext, Closer
<1>7. CASE Miss(pc) /\ (status[pc] = "FREE" \/ head[l] # pc)
  <2>1. pc' = pc /\ UNCHANGED <<status, hu>>
    BY <1>7 DEF Miss
  <2>2. ToCheck' = ToCheck
    BY <2>1 DEF ToCheck
  <2>3. CASE status[pc] = "FREE"
    <3>1. at' = "normal"
      BY <1>7, <2>3 DEF Miss
    <3>2. DispatchRank = 2 /\ NormalRank' = 1
      BY <2>1, <2>3 DEF DispatchRank, NormalRank
    <3> QED
      BY <1>1, <2>2, <3>1, <3>2, PointRanksNext, Closer
  <2>4. CASE status[pc] # "FREE"
    <3>1. at' = "dispatch" /\ head' = [head EXCEPT ![l] = pc]
      BY <1>7, <2>4 DEF Miss, raise_in_cl_list, l
    <3>2. DispatchRank = 7 /\ DispatchRank' \in {2, 5}
      BY <1>0, <1>7, <2>1, <2>4, <3>1 DEF DispatchRank, TypeOK, l
    <3> QED
      BY <1>1, <2>2, <3>1, <3>2, PointRanksNext, Closer
  <2> QED
    BY <2>3, <2>4
<1>8. CASE /\ p = CC /\ status[pc] # "FREE" /\ head[l] = pc /\ at' = "check" /\ pc' = pc
           /\ CallCheck(pc, "normal") /\ UNCHANGED cacheVars
  <2>1. DispatchRank = 5
    BY <1>8 DEF DispatchRank, l, p
  <2>2. stk' = << >> /\ res' = "call" /\ ret' = "normal"
    BY <1>8 DEF CallCheck
  <2>3. WalkRank' = 1
    BY <2>2 DEF WalkRank
  <2>4. PointRank' = 4
    BY <1>8, <2>2, <2>3, PointRanksNext
  <2>5. ToCheck' = ToCheck
    BY <1>8 DEF ToCheck, cacheVars
  <2> QED
    BY <1>1, <2>1, <2>4, <2>5, Closer
<1>9. CASE cache_miss(p, pc)
  <2>1. Native(p) /\ p.blk # pc /\ Miss(pc)
    BY <1>9 DEF cache_miss, Native
  <2>2. head[l] # pc
    BY <1>0, <2>1, NativeTag DEF p
  <2> QED
    BY <1>7, <2>1, <2>2
<1> QED
  BY <1>2, <1>5, <1>6, <1>7, <1>8, <1>9 DEF Jump, EnterNative, Idle, check_checksum, l

\* check_for_cache_miss hands a block back to the dispatcher only when it is, or
\* has just become, the primary block of its line.
LEMMA CacheMissDescends ==
  ASSUME Inductive, Guided, check_for_cache_miss
  PROVE  Rank' < Rank
<1> DEFINE l == LineOf[pc]
<1>0. /\ TypeOK /\ CacheOK /\ at = "normal" /\ pc \in Addr /\ l \in Lines /\ status[pc] # "FREE"
      /\ \A b \in Addr : status[b] # "COMPILING" /\ status[b] # "CHECKING"
  BY QuietPoints DEF check_for_cache_miss, Inductive, TypeOK, Lines
<1>1. at' = "dispatch" /\ pc' = pc /\ UNCHANGED <<status, hu>>
  BY DEF check_for_cache_miss
<1>2. PointRank = NormalRank /\ PointRank' = DispatchRank'
  BY <1>0, <1>1, PointRanks, PointRanksNext
<1>3. ToCheck' = ToCheck
  BY <1>1 DEF ToCheck
<1>4. CASE CacheHit(pc) /\ UNCHANGED <<head, tag>>
  <2>1. status[pc] = "ACTIVE" /\ tag[l] = hu[pc] /\ hu[pc] # EN /\ hu[pc] # CC
    BY <1>0, <1>4 DEF CacheHit, Guided, HandlerOK
  <2>2. Native(hu[pc]) /\ BlockOK(pc)
    BY <1>0, <2>1, PointerFacts DEF TypeOK, Pointers, CacheOK, Native
  <2>3. hu[pc].blk = pc
    BY <1>0, <2>2 DEF BlockOK
  <2>4. head[l] = pc
    BY <1>0, <2>1, <2>2, <2>3, NativeTag
  <2>5. NormalRank = 3 /\ DispatchRank' = 2
    BY <1>0, <1>1, <1>4, <2>1, <2>4 DEF NormalRank, DispatchRank
  <2> QED
    BY <1>2, <1>3, <2>5, Closer
<1>5. CASE ~CacheHit(pc) /\ head[l] # pc /\ raise_in_cl_list(pc, hu[pc])
  <2>1. head' = [head EXCEPT ![l] = pc]
    BY <1>5 DEF raise_in_cl_list
  <2>2. NormalRank = 6 /\ DispatchRank' \in {2, 5}
    BY <1>0, <1>1, <1>5, <2>1 DEF NormalRank, DispatchRank, TypeOK
  <2> QED
    BY <1>2, <1>3, <2>2, Closer
<1> QED
  BY <1>4, <1>5 DEF check_for_cache_miss

\* compile_block: one slot after the other, then back to the dispatcher.
LEMMA CompileDescends ==
  ASSUME Inductive, Guided,
         \/ CompileStart \/ CompileEnd \/ \E d \in BOOLEAN : CompileLink(d)
         \/ \E a \in Addr : CompileTarget(a) \/ CompileReturn(a)
  PROVE  Rank' < Rank
<1>0. TypeOK /\ ThreadOK /\ pc \in Addr
  BY DEF Inductive, TypeOK
<1>s. PICK k \in 0 .. MaxSuccs : slot = k
  BY <1>0 DEF TypeOK
<1>t. /\ MaxSuccs \in Nat /\ SlotsLeft = 4 * (MaxSuccs - k) /\ SlotsLeft \in Nat
      /\ 4 * (MaxSuccs - k) \in Nat
  BY <1>s, PolicyAssumption DEF SlotsLeft
<1>1. CASE CompileStart
  <2>1. /\ at = "alloc" /\ at' = "compile" /\ slot' = slot
        /\ status' = [status EXCEPT ![pc] = "COMPILING"]
    BY <1>1 DEF CompileStart
  <2>2. ToCheck' \subseteq ToCheck
    BY <1>0, <2>1 DEF ToCheck, TypeOK
  <2>3. SlotsLeft' = SlotsLeft
    BY <2>1 DEF SlotsLeft
  <2>4. PointRank = 10 + SlotsLeft /\ PointRank' = 9 + SlotsLeft
    BY <2>1, <2>3, PointRanks, PointRanksNext
  <2> QED
    BY <1>t, <2>2, <2>4, Closer
<1>2. CASE CompileEnd
  <2>1. /\ at = "compile" /\ at' = "emitted" /\ status' = [status EXCEPT ![pc] = "ACTIVE"]
    BY <1>2 DEF CompileEnd
  <2>2. ToCheck' \subseteq ToCheck
    BY <1>0, <2>1 DEF ToCheck, TypeOK
  <2>3. PointRank = 9 + SlotsLeft /\ PointRank' = 8
    BY <2>1, PointRanks, PointRanksNext
  <2> QED
    BY <1>t, <2>2, <2>3, Closer
<1>3. CASE \E d \in BOOLEAN : CompileLink(d)
  <2>1. at = "link" /\ at' = "compile" /\ slot' = slot + 1 /\ status' = status
    BY <1>3 DEF CompileLink
  <2>2. ToCheck' = ToCheck
    BY <2>1 DEF ToCheck
  <2>3. SlotsLeft' = SlotsLeft - 4
    BY <1>s, <1>t, <2>1 DEF SlotsLeft
  <2>4. PointRank = 6 + SlotsLeft /\ PointRank' = 9 + (SlotsLeft - 4)
    BY <2>1, <2>3, PointRanks, PointRanksNext
  <2> QED
    BY <1>t, <2>2, <2>4, Closer
<1>4. ASSUME NEW t \in Addr, CompileTarget(t) PROVE Rank' < Rank
  <2>1. at = "compile" /\ slot' = slot
    BY <1>4 DEF CompileTarget
  <2>2. ToCheck' \subseteq ToCheck
    BY <1>0, <1>4 DEF CompileTarget, ToCheck, TypeOK
  <2>3. SlotsLeft' = SlotsLeft
    BY <2>1 DEF SlotsLeft
  <2>4. PointRank = 9 + SlotsLeft
    BY <2>1, PointRanks
  <2>5. CASE status[t] = "NEED_CHECK"
    <3>1. at' = "check" /\ stk' = << >> /\ res' = "call" /\ ret' = "link"
      BY <1>4, <2>5 DEF CompileTarget, CallCheck
    <3>2. WalkRank' = 1
      BY <3>1 DEF WalkRank
    <3>3. PointRank' = 1 + (7 + SlotsLeft)
      BY <2>3, <3>1, <3>2, PointRanksNext
    <3> QED
      BY <1>t, <2>2, <2>4, <3>3, Closer
  <2>6. CASE status[t] # "NEED_CHECK"
    <3>1. at' = "link"
      BY <1>4, <2>6 DEF CompileTarget
    <3>2. PointRank' = 6 + SlotsLeft
      BY <2>3, <3>1, PointRanksNext
    <3> QED
      BY <1>t, <2>2, <2>4, <3>2, Closer
  <2> QED
    BY <2>5, <2>6
<1>5. ASSUME NEW a \in Addr, CompileReturn(a) PROVE Rank' < Rank
  <2>1. at = "emitted" /\ at' = "dispatch" /\ (status' = status \/ status' = [b \in Addr |-> "FREE"])
    BY <1>5 DEF CompileReturn, cacheVars, flush_icache_hard
  <2>2. ToCheck' \subseteq ToCheck
    BY <2>1 DEF ToCheck
  <2>3. DispatchRank' \in {2, 5, 7}
    BY DEF DispatchRank
  <2>4. PointRank = 8 /\ PointRank' = DispatchRank'
    BY <2>1, PointRanks, PointRanksNext
  <2> QED
    BY <2>2, <2>3, <2>4, Closer
<1> QED
  BY <1>1, <1>2, <1>3, <1>4, <1>5

\* What the walk's stack contributes to the rank: its length and its top frame.
StackRank == 8 * Len(stk) + (IF stk = << >> THEN 0 ELSE 2 * (2 - Frame[2]))

LEMMA WalkRanks ==
  ASSUME TypeOK
  PROVE  /\ StackRank \in Nat /\ Len(stk) \in Nat
         /\ StackRank >= 8 * Len(stk) /\ StackRank <= 8 * Len(stk) + 4
         /\ WalkRank = StackRank + (IF res = "call" THEN 1 ELSE 0)
<1>1. Len(stk) \in Nat
  BY DEF TypeOK
<1>2. WalkRank = StackRank + (IF res = "call" THEN 1 ELSE 0)
  BY DEF WalkRank, StackRank
<1>3. CASE stk = << >>
  BY <1>1, <1>2, <1>3 DEF StackRank
<1>4. CASE stk # << >>
  <2>1. Frame[2] \in 0 .. 2
    BY <1>4, StackFacts
  <2>2. 2 * (2 - Frame[2]) \in 0 .. 4
    BY <2>1
  <2> QED
    BY <1>1, <1>2, <1>4, <2>2 DEF StackRank
<1> QED
  BY <1>3, <1>4

\* The same of the next state.
LEMMA WalkRanksNext ==
  ASSUME TypeOK'
  PROVE  /\ StackRank' \in Nat /\ Len(stk') \in Nat
         /\ StackRank' >= 8 * Len(stk') /\ StackRank' <= 8 * Len(stk') + 4
         /\ WalkRank' = StackRank' + (IF res' = "call" THEN 1 ELSE 0)
<1>1. stk' \in Seq(Addr \X (0 .. 2))
  BY DEF TypeOK
<1>2. Len(stk') \in Nat
  BY <1>1
<1>3. WalkRank' = StackRank' + (IF res' = "call" THEN 1 ELSE 0)
  BY DEF WalkRank, StackRank
<1>4. CASE stk' = << >>
  BY <1>2, <1>3, <1>4 DEF StackRank
<1>5. CASE stk' # << >>
  <2>1. Len(stk') \in 1 .. Len(stk')
    BY <1>1, <1>2, <1>5
  <2>2. stk'[Len(stk')] \in Addr \X (0 .. 2)
    BY <1>1, <2>1
  <2>3. stk'[Len(stk')][2] \in 0 .. 2
    BY <2>2
  <2>4. Frame'[2] \in 0 .. 2
    BY <2>3 DEF Frame
  <2>5. 2 * (2 - Frame'[2]) \in 0 .. 4
    BY <2>4
  <2> QED
    BY <1>2, <1>3, <1>5, <2>5 DEF StackRank
<1> QED
  BY <1>4, <1>5

\* block_check_checksum: a block is validated once, a successor examined once,
\* and a frame left once.
LEMMA WalkDescends ==
  ASSUME Inductive, TypeOK',
         CheckSkip \/ CheckGood \/ CheckBad \/ CheckSuccessor \/ CheckPromote \/ CheckDiscard
  PROVE  Rank' < Rank
<1> DEFINE base == IF ret = "link" THEN 7 + SlotsLeft ELSE 3
<1>0. /\ TypeOK /\ ThreadOK /\ at = "check" /\ at' = "check" /\ cur \in Addr
      /\ UNCHANGED <<ret, slot>>
  BY DEF Inductive, CheckSkip, CheckGood, CheckBad, CheckSuccessor, CheckPromote, CheckDiscard,
     InCheck, BetweenBlocks, ThreadOK
<1>1. PICK k \in Nat : k = base
  <2>1. SlotsLeft \in Nat
    BY <1>0, PolicyAssumption DEF SlotsLeft, TypeOK
  <2> QED
    BY <2>1
<1>2. SlotsLeft' = SlotsLeft
  BY <1>0 DEF SlotsLeft
<1>3. PointRank = WalkRank + k /\ PointRank' = WalkRank' + k
  BY <1>0, <1>1, <1>2, PointRanks, PointRanksNext
<1> HIDE DEF base
<1>4. PICK n \in Nat, m \in Nat, s \in Nat, t \in Nat :
        /\ n = Len(stk) /\ m = Len(stk') /\ s = StackRank /\ t = StackRank'
        /\ s >= 8 * n /\ t <= 8 * m + 4
  BY <1>0, WalkRanks, WalkRanksNext
<1>a. s >= 8 * n /\ t <= 8 * m + 4 /\ k \in Nat /\ n \in Nat /\ m \in Nat /\ s \in Nat /\ t \in Nat
  BY <1>4
<1>5. /\ PointRank = s + (IF res = "call" THEN 1 ELSE 0) + k
      /\ PointRank' = t + (IF res' = "call" THEN 1 ELSE 0) + k
  BY <1>0, <1>3, <1>4, WalkRanks, WalkRanksNext
<1>6. CASE CheckSkip
  <2>1. res = "call" /\ res' = "good" /\ stk' = stk /\ status' = status
    BY <1>6 DEF CheckSkip
  <2>2. StackRank' = StackRank /\ ToCheck' = ToCheck
    BY <2>1 DEF StackRank, Frame, ToCheck
  <2>3. PointRank = s + 1 + k /\ PointRank' = s + k
    BY <1>4, <1>5, <2>1, <2>2
  <2> QED
    BY <2>2, <2>3, Closer
<1>7. CASE CheckGood \/ CheckBad
  <2>1. \E x \in {"CHECKING", "INVALID"} :
          status[cur] = "NEED_CHECK" /\ status' = [status EXCEPT ![cur] = x]
    BY <1>7 DEF CheckGood, CheckBad, invalidate_block
  <2>2. ToCheck' \subseteq ToCheck /\ cur \in ToCheck /\ cur \notin ToCheck'
    BY <1>0, <2>1 DEF ToCheck, TypeOK
  <2>3. res = "call" /\ res' # "call" /\ (stk' = stk \/ stk' = Append(stk, <<cur, 0>>))
    BY <1>7 DEF CheckGood, CheckBad
  <2>4. PointRank = s + 1 + k /\ PointRank' = t + k
    BY <1>4, <1>5, <2>3
  <2>5. CASE stk' = stk
    <3>1. t = s
      BY <1>4, <2>5 DEF StackRank, Frame
    <3> QED
      BY <2>2, <2>4, <3>1, Validated
  <2>6. CASE stk' = Append(stk, <<cur, 0>>)
    <3>1. stk \in Seq(Addr \X (0 .. 2)) /\ <<cur, 0>> \in Addr \X (0 .. 2)
      BY <1>0 DEF TypeOK
    <3>2. m = n + 1
      BY <1>4, <2>6, <3>1
    <3>3. t + k < s + 1 + k + 16
      BY ONLY <1>a, <3>2
    <3> QED
      BY <2>2, <2>4, <3>3, Validated
  <2> QED
    BY <2>3, <2>5, <2>6
<1>8. CASE CheckSuccessor
  <2>1. /\ res = "good" /\ status' = status /\ stk # << >> /\ Frame[2] < 2
        /\ stk' = Append(Pop, <<Frame[1], Frame[2] + 1>>)
    BY <1>8 DEF CheckSuccessor
  <2>2. /\ Len(stk') = Len(stk) /\ stk' # << >>
        /\ stk'[Len(stk')] = <<Frame[1], Frame[2] + 1>>
    BY <1>0, <2>1, Advanced
  <2>3. Frame'[2] = Frame[2] + 1
    BY ONLY <2>2 DEF Frame
  <2>4. PICK j \in 0 .. 2 : j = Frame[2]
    BY <1>0, <2>1, StackFacts
  <2>5. t = 8 * n + 2 * (2 - (j + 1))
    BY <1>4, <2>2, <2>3, <2>4 DEF StackRank
  <2>6. s = 8 * n + 2 * (2 - j)
    BY <1>4, <2>1, <2>4 DEF StackRank
  <2>7. s = t + 2
    BY ONLY <2>5, <2>6, j \in 0 .. 2, n \in Nat, t \in Nat, s \in Nat
  <2>8. ToCheck' = ToCheck
    BY <2>1 DEF ToCheck
  <2>9. PointRank = t + 2 + k /\ PointRank' \in {t + 1 + k, t + k}
    BY <1>4, <1>5, <2>1, <2>7
  <2> QED
    BY <2>8, <2>9, Closer
<1>9. CASE CheckPromote \/ CheckDiscard
  <2>1. /\ stk # << >> /\ stk' = Pop /\ res # "call" /\ res' = res
        /\ \E x \in {"ACTIVE", "INVALID"} : status' = [status EXCEPT ![Frame[1]] = x]
    BY <1>9 DEF CheckPromote, CheckDiscard, invalidate_block
  <2>2. n = m + 1 /\ Frame[1] \in Addr
    BY <1>0, <1>4, <2>1, StackFacts
  <2>3. t + k < s + k
    BY ONLY <1>a, <2>2
  <2>4. PointRank = s + k /\ PointRank' = t + k
    BY <1>4, <1>5, <2>1
  <2>5. ToCheck' \subseteq ToCheck
    BY <1>0, <2>1, <2>2 DEF ToCheck, TypeOK
  <2> QED
    BY <2>3, <2>4, <2>5, Closer
<1> QED
  BY <1>6, <1>7, <1>8, <1>9

\* Leaving the walk: the block it was for is decided and primary, so neither the
\* dispatcher nor execute_normal sends it back.
LEMMA ReturnDescends ==
  ASSUME Inductive, Guided, CheckReturn
  PROVE  Rank' < Rank
<1>0. /\ TypeOK /\ ThreadOK /\ CacheOK /\ at = "check" /\ stk = << >> /\ res # "call" /\ pc \in Addr
      /\ pc' = pc /\ slot' = slot /\ UNCHANGED <<status, head, tag, hu>>
  BY DEF Inductive, CheckReturn, InCheck, BetweenBlocks, TypeOK
<1>1. ToCheck' = ToCheck /\ SlotsLeft' = SlotsLeft
  BY <1>0 DEF ToCheck, SlotsLeft
<1>2. WalkRank = 0
  BY <1>0 DEF WalkRank
<1>3. CASE ret = "link"
  <2>1. at' = "link"
    BY <1>3 DEF CheckReturn
  <2>2. SlotsLeft \in Nat
    BY <1>0, PolicyAssumption DEF SlotsLeft, TypeOK
  <2>3. PointRank = 7 + SlotsLeft /\ PointRank' = 6 + SlotsLeft
    BY <1>0, <1>1, <1>2, <1>3, <2>1, <2>2, PointRanks, PointRanksNext
  <2> QED
    BY <1>1, <2>2, <2>3, Closer
<1>4. CASE ret # "link"
  <2>1. PointRank = 3 /\ ret = "normal"
    BY <1>0, <1>2, <1>4, PointRanks DEF TypeOK
  <2>2. head[LineOf[pc]] = pc /\ LineOf[pc] \in Lines
    BY <1>0, <2>1 DEF Guided, RootOK, Lines
  <2>3. CASE res = "good"
    <3>1. at' = "dispatch" /\ status[pc] # "NEED_CHECK"
      BY <1>0, <1>4, <2>1, <2>3 DEF CheckReturn, Guided, RootOK
    <3>2. \A b \in Addr : status[b] # "COMPILING" /\ status[b] # "CHECKING"
      BY <1>0, <1>4 DEF ThreadOK, Compiling
    <3>3. tag[LineOf[pc]] # CC
      BY <1>0, <2>2, <3>1, <3>2 DEF Guided, HeadOK, HandlerOK
    <3>4. DispatchRank' = 2
      BY <1>0, <2>2, <3>3 DEF DispatchRank
    <3> QED
      BY <1>1, <2>1, <3>1, <3>4, PointRanksNext, Closer
  <2>4. CASE res = "bad"
    <3>1. at' = "normal" /\ status[pc] = "INVALID"
      BY <1>0, <1>4, <2>1, <2>4 DEF CheckReturn, Guided, RootOK
    <3>2. NormalRank' = 1
      BY <1>0, <2>2, <3>1 DEF NormalRank, CacheHit
    <3> QED
      BY <1>1, <2>1, <3>1, <3>2, PointRanksNext, Closer
  <2> QED
    BY <1>0, <2>3, <2>4 DEF TypeOK
<1> QED
  BY <1>3, <1>4

\* A device write between dispatches can only turn blocks to be checked into
\* blocks to be compiled.
LEMMA DeviceKeepsRank ==
  ASSUME Inductive, Idle, Device
  PROVE  Rank' <= Rank
<1>0. TypeOK /\ pc \in Addr /\ LineOf[pc] \in Lines
  BY DEF Inductive, TypeOK, Lines
<1>1. at = "dispatch" /\ at' = "dispatch" /\ pc' = pc
  BY DEF Device, ScsiDma, MoDma, Elsewhere, Idle
<1>2. PointRank = DispatchRank /\ PointRank' = DispatchRank'
  BY <1>1, PointRanks, PointRanksNext
<1>3. DispatchRank \in {2, 5, 7} /\ DispatchRank' \in {2, 5, 7}
  BY DEF DispatchRank
<1>4. ToCheck' \subseteq ToCheck /\ DispatchRank' <= DispatchRank
  <2>1. CASE UNCHANGED cacheVars
    BY <1>1, <2>1, <1>3 DEF cacheVars, ToCheck, DispatchRank
  <2>2. CASE \E B \in SUBSET Checksummed : block_need_recompile(B)
    <3>1. PICK B \in SUBSET Checksummed : block_need_recompile(B)
      BY <2>2
    <3>2. /\ status' = [b \in Addr |-> IF b \in B THEN "NEED_RECOMP" ELSE status[b]]
          /\ tag' = [l \in Lines |-> IF head[l] \in B THEN EN ELSE tag[l]] /\ head' = head
      BY <3>1 DEF block_need_recompile
    <3>3. ToCheck' \subseteq ToCheck
      BY <3>2 DEF ToCheck
    <3>4. status'[pc] = "FREE" <=> status[pc] = "FREE"
      BY <1>0, <3>2 DEF Checksummed
    <3>5. tag'[LineOf[pc]] \in {EN, tag[LineOf[pc]]}
      BY <1>0, <3>2
    <3>6. DispatchRank' <= DispatchRank
      BY <1>1, <3>2, <3>4, <3>5, PointerFacts DEF DispatchRank
    <3> QED
      BY <3>3, <3>6
  <2>3. ASSUME NEW x \in Addr PROVE GuestStoreHits(x) \cup Overlapping(x) \in SUBSET Checksummed
    BY DEF GuestStoreHits, OnPage, Overlapping
  <2> QED
    BY <2>1, <2>2, <2>3 DEF Device, ScsiDma, MoDma, NotifyDeviceMemoryWrite, PutUnseen
<1>5. /\ Cardinality(ToCheck) \in Nat /\ Cardinality(ToCheck)' \in Nat
      /\ Cardinality(ToCheck)' <= Cardinality(ToCheck)
  BY <1>4, Counted
<1> QED
  BY <1>2, <1>3, <1>4, <1>5 DEF Rank

\* The rank is a natural number, so it cannot decrease for ever.
LEMMA RankBounded ==
  ASSUME Inductive
  PROVE  Rank \in Nat
<1>0. TypeOK
  BY DEF Inductive
<1>1. SlotsLeft \in Nat
  BY <1>0, PolicyAssumption DEF SlotsLeft, TypeOK
<1>2. WalkRank \in Nat
  BY <1>0, WalkRanks
<1>3. DispatchRank \in Nat /\ NormalRank \in Nat
  BY DEF DispatchRank, NormalRank
<1>4. PointRank \in Nat
  BY <1>1, <1>2, <1>3 DEF PointRank
<1>5. Cardinality(ToCheck) \in Nat
  BY AddrAssumption, FS_Subset, FS_CardinalityType DEF ToCheck
<1> QED
  BY <1>4, <1>5 DEF Rank

(* Between two guest instructions every step of the engine comes closer to  *)
(* the next one and no device sets it back, for every number of blocks and  *)
(* every layout; the rank being a natural number, the thread never hands a  *)
(* block back and forth for ever.                                           *)
THEOREM EngineProgress == Spec => EngineDescends /\ [](Rank \in Nat)
<1> DEFINE Step == Idle /\ Idle' => Rank' < Rank \/ (Device /\ Rank' <= Rank)
<1>1. ASSUME Inductive, Inductive', Guided, [Next]_vars PROVE [Step]_vars
  <2> SUFFICES ASSUME Next, Idle, Idle' PROVE Rank' < Rank \/ (Device /\ Rank' <= Rank)
    BY <1>1
  <2>0. TypeOK'
    BY <1>1 DEF Inductive
  <2>1. CASE Engine
    <3>1. CASE Dispatch \/ check_for_cache_miss
      BY <1>1, <3>1, DispatchDescends, CacheMissDescends
    <3>2. CASE BeginTrace
      BY <3>2 DEF BeginTrace, Idle
    <3>3. CASE Compile
      <4>1. ~(\E a \in Addr : CompileBail(a)) /\ ~CompileEntry
        BY DEF CompileBail, CompileEntry, TraceEnded, Idle
      <4> QED
        BY <1>1, <3>3, <4>1, CompileDescends DEF Compile
    <3>4. CASE Check
      BY <1>1, <2>0, <3>4, WalkDescends, ReturnDescends DEF Check
    <3> QED
      BY <2>1, <3>1, <3>2, <3>3, <3>4 DEF Engine
  <2>2. CASE Guest
    <3>1. at \in {"trace", "native"}
      BY <2>2 DEF Guest, InterpreterStore, NativeStore, NativeCinv, TracedCinv,
         MmuTranslationChanged, TraceNext, FollowEdge, LeaveBlock
    <3> QED
      BY <3>1 DEF Idle
  <2>3. CASE Device
    BY <1>1, <2>3, DeviceKeepsRank
  <2> QED
    BY <2>1, <2>2, <2>3 DEF Next
<1> QED
  BY <1>1, RankBounded, AlwaysGuided, PTL DEF Spec, EngineDescends

=============================================================================
