----------------------------- MODULE BlockCache -----------------------------
(***************************************************************************)
(* The translated-block cache of the AArch64 JIT                           *)
(* (src/src/cpu/uae_cpu_2026/compiler/compemu_support_arm.cpp) while the   *)
(* guest MMU is off: a block is then identified by its code address alone  *)
(* (jit_block_identity_matches), and blocks are chained by jumps patched   *)
(* into native code.                                                       *)
(*                                                                         *)
(* A translation is reached in three ways: through the cache_tags entry of *)
(* its cache line, through the jump of a predecessor, and by being the     *)
(* block the CPU thread is already running.  Every operation that makes a  *)
(* translation wrong (a store into its source) or unproven (a lazy flush)  *)
(* must redirect the first two.  `mem` is guest RAM and ROM, one value per *)
(* code location; the JIT's shadow copy is written together with RAM       *)
(* (mem_ram_jit_sync), so one variable stands for both.                    *)
(*                                                                         *)
(* C code on the CPU thread is atomic with respect to guest stores and     *)
(* devices; `at` is the point it has reached, and only "dispatch", "trace" *)
(* and "native" let a writer in.                                           *)
(***************************************************************************)
EXTENDS Naturals, Sequences, FiniteSets

CONSTANTS
  Addr,        \* code locations, each a possible block leader
  NoAddr,      \* the null blockinfo pointer
  Rom,         \* the locations in ROM
  Val,         \* contents of a location; 0 is the zero opcode
  Span,        \* Span[a]: the locations a block starting at a is made from
  LineOf,      \* cacheline(a)
  PageOf,      \* the 8 KB page of a location (g_jit_code_page_bits)
  MaxSuccs,    \* bound: constant successors of a block, at most 2
  Writers,     \* who writes code locations: see Notified below
  StableEdges  \* B2_JIT_ENABLE_STABLE_DIRECT_EDGES: countdown and direct edges

Lines == {LineOf[a] : a \in Addr}
Pages == {PageOf[a] : a \in Addr}
Slots == {0, 1}                      \* blockinfo.dep[2]
Edges == Addr \X Slots

ASSUME AddrAssumption ==
  /\ Rom \subseteq Addr
  /\ NoAddr \notin Addr
  /\ IsFiniteSet(Addr)
ASSUME ShapeAssumption ==
  /\ Span \in [Addr -> SUBSET Addr]
  /\ \A a \in Addr : a \in Span[a] /\ (Span[a] \subseteq Rom \/ Span[a] \cap Rom = {})
  /\ LineOf \in [Addr -> Lines]
  /\ PageOf \in [Addr -> Pages]
ASSUME PolicyAssumption ==
  /\ MaxSuccs \in 0 .. 2
  /\ StableEdges \in BOOLEAN
  /\ Writers \subseteq {"cpu", "jit", "scsi", "mo"}

(***************************************************************************)
(* Code pointers.  EN and CC are the stubs that call execute_normal() and  *)
(* check_checksum() (popall_* and a block's own direct_pen, direct_pcc).   *)
(* A native pointer carries what the code was compiled from and whether it *)
(* starts with the countdown prologue.                                     *)
(***************************************************************************)
Null == [k |-> "null"]
EN == [k |-> "execute_normal"]
CC == [k |-> "check_checksum"]
Code(a, from, ctr) == [k |-> "native", blk |-> a, from |-> from, ctr |-> ctr]
Codes == UNION {{Code(a, f, ctr) : f \in [Span[a] -> Val], ctr \in BOOLEAN} : a \in Addr}
Pointers == {EN, CC} \cup Codes

VARIABLES
  mem,        \* guest memory
  unseen,     \* ghost: written behind the translator's back since a lazy flush
  unflushed,  \* ghost: the same, since the guest's last CINV/CPUSH
  status,     \* blockinfo.status; "FREE" when no blockinfo has this pc_p
  onActive,   \* blocks on the `active` list; the other blocks are dormant
  head,       \* cache_tags[cl+1].bi, the primary block of a cache line
  tag,        \* cache_tags[cl].handler
  hu,         \* blockinfo.handler_to_use
  direct,     \* blockinfo.direct_handler (handler is set and cleared with it)
  xl,         \* what the checksum c1/c2 was computed over
  count,      \* blockinfo.count: "armed" >= 0, "out" -1, "off" -2
  dep,        \* blockinfo.dep[i].target, NoAddr when jmp_off is NULL
  linked,     \* edges on the deplist of their target
  prefer,     \* edges with prefer_direct
  jmp,        \* what the jump of an edge leads to, Null when there is none
  marked,     \* pages whose g_jit_code_page_bits bit is set
  at, pc,     \* the CPU thread's control point and regs.pc_p; in native code,
              \* the start of the block being executed
  tr,         \* pc_hist: the source bytes a trace has recorded
  slot,       \* compile_block: the next successor slot
  target,     \* compile_block: the successor being linked
  stk, cur, res, ret  \* block_check_checksum: stack, argument, result, caller

cacheVars == <<status, onActive, head, tag, hu, direct, xl, count, dep, linked,
               prefer, jmp, marked>>
checkVars == <<stk, cur, res, ret>>
vars == <<mem, unseen, unflushed, cacheVars, at, pc, tr, slot, target, checkVars>>

-----------------------------------------------------------------------------
(* The jumps into the blocks B, patched to p (set_dhtu_validated), or to    *)
(* the block's direct handler d where the edge prefers it (set_dhtu).       *)
set_dhtu_policy(B, p, d, honor_prefer_direct) ==
  [e \in Edges |->
     IF e \in linked /\ dep[e] \in B
     THEN IF honor_prefer_direct /\ e \in prefer /\ d[dep[e]] # Null
          THEN d[dep[e]] ELSE p
     ELSE jmp[e]]

(* The jumps of b's old code are gone with it.                              *)
Discard(b, j) == [e \in Edges |-> IF e[1] = b THEN Null ELSE j[e]]

OwnEdges(b) == {b} \X Slots
CodePages(a) == {PageOf[x] : x \in Span[a]}

(* jit_code_page_mark over the block's checksum spans.                      *)
(* Fault: only the page of the first instruction is marked.                 *)
jit_code_page_mark_entry(b) == {PageOf[b]}
jit_code_page_mark(b) == CodePages(b)

(* raise_in_cl_list: b becomes the primary block of its line and the line's *)
(* handler is b's; h is handler_to_use as the caller has left it.           *)
raise_in_cl_list(b, h) ==
  /\ head' = [head EXCEPT ![LineOf[b]] = b]
  /\ tag' = [tag EXCEPT ![LineOf[b]] = h]

(* invalidate_block: the block forgets its code and its own successors.     *)
invalidate_block(b) ==
  /\ status' = [status EXCEPT ![b] = "INVALID"]
  /\ hu' = [hu EXCEPT ![b] = EN]
  /\ direct' = [direct EXCEPT ![b] = Null]
  /\ count' = [count EXCEPT ![b] = "out"]
  /\ jmp' = Discard(b, set_dhtu_policy({b}, EN, [direct EXCEPT ![b] = Null], TRUE))
  /\ linked' = linked \ OwnEdges(b)
  /\ prefer' = prefer \ OwnEdges(b)
  /\ dep' = [e \in Edges |-> IF e[1] = b THEN NoAddr ELSE dep[e]]

(* block_need_recompile on every block of B: direct_handler first, so that  *)
(* edges that prefer it get the stub as well.                               *)
block_need_recompile(B) ==
  /\ direct' = [b \in Addr |-> IF b \in B THEN EN ELSE direct[b]]
  /\ jmp' = set_dhtu_policy(B, EN, [b \in Addr |-> IF b \in B THEN EN ELSE direct[b]], TRUE)
  /\ hu' = [b \in Addr |-> IF b \in B THEN EN ELSE hu[b]]
  /\ tag' = [l \in Lines |-> IF head[l] \in B THEN EN ELSE tag[l]]
  /\ status' = [b \in Addr |-> IF b \in B THEN "NEED_RECOMP" ELSE status[b]]
  /\ UNCHANGED <<onActive, head, xl, count, dep, linked, prefer>>

-----------------------------------------------------------------------------
(* Stores into code.                                                        *)

(* The blocks with a checksum span; ROM blocks have none.                   *)
Checksummed == {b \in Addr \ Rom : status[b] \notin {"FREE", "INVALID", "NEED_RECOMP"}}
OnPage(x) == {b \in Checksummed : PageOf[x] \in CodePages(b)}
Overlapping(x) == {b \in Checksummed : x \in Span[b]}

(* Uae2026JitNotifyGuestStore: nothing for a page without translated code,  *)
(* else every block on the page, and the page's bit is cleared.             *)
GuestStoreHits(x) == IF PageOf[x] \in marked THEN OnPage(x) ELSE {}

NotifyGuestStore(x) ==
  /\ block_need_recompile(GuestStoreHits(x))
  /\ marked' = marked \ {PageOf[x]}

(* jit_invalidate_guest_code_range: the store barrier (through              *)
(* Uae2026JitShadowSyncInvalidate), then the scan of the exact span.        *)
NotifyDeviceMemoryWrite(x) ==
  /\ block_need_recompile(GuestStoreHits(x) \cup Overlapping(x))
  /\ marked' = marked \ {PageOf[x]}

Put(x, v) == mem' = [mem EXCEPT ![x] = v]

(* A write that tells the translator nothing.                               *)
PutUnseen(x, v) ==
  /\ Put(x, v)
  /\ unseen' = unseen \cup {x}
  /\ unflushed' = unflushed \cup {x}
  /\ UNCHANGED cacheVars

Elsewhere == UNCHANGED <<at, pc, slot, target, checkVars>>

(* phys_put_*: an interpreter handler's store, in the tracer or called from *)
(* native code.                                                             *)
InterpreterStore(x, v) ==
  /\ "cpu" \in Writers /\ at \in {"trace", "native"} /\ x \notin Rom
  /\ Put(x, v) /\ NotifyGuestStore(x)
  /\ UNCHANGED <<unseen, unflushed, tr>> /\ Elsewhere

(* Uae2026JitBankPut*: native stores with the MMU off call                  *)
(* Uae2026JitPhysPut*, which is the memory bank's put function itself.      *)
NativeStore(x, v) ==
  /\ "jit" \in Writers /\ at = "native" /\ x \notin Rom
  /\ PutUnseen(x, v)
  /\ UNCHANGED tr /\ Elsewhere

(* dma_esp_write_memory: SCSI DMA announces the range it wrote.             *)
ScsiDma(x, v) ==
  /\ "scsi" \in Writers /\ at \in {"dispatch", "trace", "native"} /\ x \notin Rom
  /\ Put(x, v) /\ NotifyDeviceMemoryWrite(x)
  /\ UNCHANGED <<unseen, unflushed, tr>> /\ Elsewhere

(* dma_mo_write_memory: optical-disk DMA announces nothing.                 *)
MoDma(x, v) ==
  /\ "mo" \in Writers /\ at \in {"dispatch", "trace", "native"} /\ x \notin Rom
  /\ PutUnseen(x, v)
  /\ UNCHANGED tr /\ Elsewhere

-----------------------------------------------------------------------------
(* Flushes.                                                                 *)

(* The blocks of the active list that have nothing worth checking.          *)
(* Fault: blocks that were never compiled are to be checked as well.        *)
FlushedInvalid_recompOnly == {b \in onActive : status[b] = "NEED_RECOMP"}
FlushedInvalid == {b \in onActive : status[b] \in {"INVALID", "NEED_RECOMP"}}

(* Fault: edges that prefer the direct handler keep it across a flush.      *)
LazyJumps_direct(bad, good) ==
  [e \in Edges |-> IF dep[e] \in bad THEN set_dhtu_policy(bad, EN, direct, TRUE)[e]
                   ELSE set_dhtu_policy(good, CC, direct, TRUE)[e]]
(* What flush_icache_lazy does with the jumps into the blocks it visits.    *)
LazyJumps(bad, good) ==
  [e \in Edges |-> IF dep[e] \in bad THEN set_dhtu_policy(bad, EN, direct, TRUE)[e]
                   ELSE set_dhtu_policy(good, CC, direct, FALSE)[e]]

(* flush_icache_lazy: every block of the active list is to be checked       *)
(* before it runs again, and the list is spliced onto the dormant one.      *)
flush_icache_lazy ==
  LET bad == FlushedInvalid
      good == onActive \ bad
      toStub(b, other) == IF b \in bad THEN EN ELSE IF b \in good THEN CC ELSE other
  IN
  /\ status' = [b \in Addr |-> IF b \in bad THEN "INVALID"
                               ELSE IF b \in good THEN "NEED_CHECK" ELSE status[b]]
  /\ hu' = [b \in Addr |-> toStub(b, hu[b])]
  /\ tag' = [l \in Lines |-> IF head[l] \in onActive THEN toStub(head[l], tag[l]) ELSE tag[l]]
  /\ jmp' = LazyJumps(bad, good)
  /\ onActive' = {}
  /\ UNCHANGED <<head, direct, xl, count, dep, linked, prefer, marked>>

(* flush_icache_hard: every blockinfo is freed and the code cache rewound.  *)
flush_icache_hard ==
  /\ status' = [b \in Addr |-> "FREE"]
  /\ onActive' = {}
  /\ head' = [l \in Lines |-> NoAddr]
  /\ tag' = [l \in Lines |-> EN]
  /\ hu' = [b \in Addr |-> EN]
  /\ direct' = [b \in Addr |-> Null]
  /\ count' = [b \in Addr |-> "out"]
  /\ linked' = {} /\ prefer' = {}
  /\ dep' = [e \in Edges |-> NoAddr]
  /\ jmp' = [e \in Edges |-> Null]
  /\ UNCHANGED <<xl, marked>>

(* jit_runtime_cache_control: a compiled CINV or CPUSH.                     *)
NativeCinv ==
  /\ at = "native"
  /\ flush_icache_lazy
  /\ unseen' = {} /\ unflushed' = {}
  /\ UNCHANGED <<mem, tr>> /\ Elsewhere

(* The tracer runs CINV and CPUSH with the interpreter's handler, whose     *)
(* flush_icache is an empty macro in this build (newcpu.h).                 *)
TracedCinv ==
  /\ at = "trace"
  /\ unflushed' = {}
  /\ UNCHANGED <<mem, unseen, cacheVars, tr>> /\ Elsewhere

(* Uae2026JitMmuTranslationChanged: MOVEC and PFLUSH flush lazily however   *)
(* they are executed.                                                       *)
MmuTranslationChanged ==
  /\ at \in {"trace", "native"}
  /\ flush_icache_lazy
  /\ unseen' = {}
  /\ UNCHANGED <<mem, unflushed, tr>> /\ Elsewhere

-----------------------------------------------------------------------------
(* Control transfer to address a through the pointer p.                     *)

NoWrite == UNCHANGED <<mem, unseen, unflushed>>
BetweenBlocks == UNCHANGED <<tr, slot, target>>

(* Native code runs if it was compiled for a and its countdown is not spent.*)
EnterNative(p, a) ==
  /\ p.k = "native" /\ p.blk = a
  /\ p.ctr => count[a] = "armed"
  /\ at' = "native" /\ pc' = a
  /\ UNCHANGED <<cacheVars, checkVars>>

(* Fault: the block is not marked for recompilation (the livelock that the  *)
(* comment in recompile_block describes).                                   *)
recompile_block_unmarked(p, a) ==
  /\ p.k = "native" /\ p.blk = a /\ p.ctr
  /\ at' = "normal" /\ pc' = a
  /\ raise_in_cl_list(a, hu[a])
  /\ count' = [count EXCEPT ![a] = "out"]
  /\ UNCHANGED <<status, onActive, hu, direct, xl, dep, linked, prefer, jmp, marked, checkVars>>

(* The prologue finds the countdown spent: recompile_block.                 *)
recompile_block(p, a) ==
  /\ p.k = "native" /\ p.blk = a /\ p.ctr
  /\ at' = "normal" /\ pc' = a
  /\ raise_in_cl_list(a, hu[a])
  /\ status' = [status EXCEPT ![a] = "NEED_RECOMP"]
  /\ count' = [count EXCEPT ![a] = "out"]
  /\ UNCHANGED <<onActive, hu, direct, xl, dep, linked, prefer, jmp, marked, checkVars>>

Miss(a) ==
  /\ pc' = a
  /\ \/ status[a] = "FREE" /\ at' = "normal" /\ UNCHANGED <<head, tag>>
     \/ status[a] # "FREE" /\ at' = "dispatch" /\ raise_in_cl_list(a, hu[a])
  /\ UNCHANGED <<status, onActive, hu, direct, xl, count, dep, linked, prefer, jmp,
                 marked, checkVars>>

(* The handler of the line's primary block is for another address.          *)
cache_miss(p, a) == p.k = "native" /\ p.blk # a /\ Miss(a)

CallCheck(b, from) == cur' = b /\ res' = "call" /\ stk' = << >> /\ ret' = from

(* popall_check_checksum: validate the primary block, or treat as a miss.   *)
check_checksum(p, a) ==
  /\ p = CC
  /\ \/ (status[a] = "FREE" \/ head[LineOf[a]] # a) /\ Miss(a)
     \/ /\ status[a] # "FREE" /\ head[LineOf[a]] = a
        /\ at' = "check" /\ pc' = a
        /\ CallCheck(a, "normal")
        /\ UNCHANGED cacheVars

to_execute_normal(p, a) ==
  /\ p = EN
  /\ at' = "normal" /\ pc' = a
  /\ UNCHANGED <<cacheVars, checkVars>>

Jump(p, a) ==
  /\ \/ EnterNative(p, a) \/ recompile_block(p, a) \/ cache_miss(p, a)
     \/ check_checksum(p, a) \/ to_execute_normal(p, a)
  /\ NoWrite /\ BetweenBlocks

(* The dispatcher, and a block that ends with a computed pc, use the tag.   *)
Dispatch == at = "dispatch" /\ Jump(tag[LineOf[pc]], pc)

(* A block ends through one of its patched jumps ...                        *)
FollowEdge(i) ==
  /\ at = "native"
  /\ jmp[<<pc, i>>] # Null
  /\ Jump(jmp[<<pc, i>>], dep[<<pc, i>>])

(* ... or with a computed pc, an exhausted budget or a pending flag.        *)
LeaveBlock(a) ==
  /\ at = "native"
  /\ at' = "dispatch" /\ pc' = a
  /\ NoWrite /\ BetweenBlocks /\ UNCHANGED <<cacheVars, checkVars>>

-----------------------------------------------------------------------------
(* execute_normal: check_for_cache_miss, then trace and compile.            *)

CacheHit(a) ==
  /\ status[a] = "ACTIVE"
  /\ tag[LineOf[a]] = hu[a]
  /\ hu[a] # EN

(* check_for_cache_miss: installed already, or only not the primary block.  *)
check_for_cache_miss ==
  /\ at = "normal"
  /\ status[pc] # "FREE"
  /\ \/ CacheHit(pc) /\ UNCHANGED <<head, tag>>
     \/ ~CacheHit(pc) /\ head[LineOf[pc]] # pc /\ raise_in_cl_list(pc, hu[pc])
  /\ at' = "dispatch"
  /\ NoWrite /\ BetweenBlocks
  /\ UNCHANGED <<status, onActive, hu, direct, xl, count, dep, linked, prefer, jmp,
                 marked, pc, checkVars>>

(* No usable block: the tracer interprets the first instruction.            *)
BeginTrace ==
  /\ at = "normal"
  /\ status[pc] = "FREE" \/ (~CacheHit(pc) /\ head[LineOf[pc]] = pc)
  /\ at' = "trace"
  /\ tr' = [x \in {pc} |-> mem[x]]
  /\ NoWrite /\ UNCHANGED <<cacheVars, pc, slot, target, checkVars>>

(* The tracer records and interprets a further instruction of the block.    *)
TraceNext(x) ==
  /\ at = "trace" /\ x \in Span[pc] \ DOMAIN tr
  /\ tr' = [y \in DOMAIN tr \cup {x} |-> IF y = x THEN mem[x] ELSE tr[y]]
  /\ NoWrite /\ UNCHANGED cacheVars /\ Elsewhere

TraceEnded == at = "trace" /\ DOMAIN tr = Span[pc]
TraceCurrent == \A x \in Span[pc] : tr[x] = mem[x]

(* compile_block discards a trace whose source has changed since.           *)
CompileBail(a) ==
  /\ TraceEnded /\ ~TraceCurrent
  /\ at' = "dispatch" /\ pc' = a /\ tr' = << >>
  /\ NoWrite /\ UNCHANGED <<cacheVars, slot, target, checkVars>>

(* compile_block: a full code cache is flushed before the lookup.           *)
CompileEntry ==
  /\ TraceEnded /\ TraceCurrent
  /\ at' = "alloc"
  /\ UNCHANGED cacheVars \/ flush_icache_hard
  /\ NoWrite /\ BetweenBlocks /\ UNCHANGED <<pc, checkVars>>

(* compile_block up to BI_COMPILING.  remove_deps takes the block off the   *)
(* deplists of its old successors but leaves dep[] itself as it was.        *)
CompileStart ==
  LET b == pc
      fresh == status[b] = "FREE"
      rebuilt == ~fresh /\ status[b] # "INVALID"
      n == IF count[b] # "out" THEN count[b]
           ELSE IF StableEdges /\ ~rebuilt THEN "armed" ELSE "off"
      c == Code(b, tr, n = "armed")
  IN
  /\ at = "alloc"
  /\ at' = "compile" /\ tr' = << >>
  /\ status' = [status EXCEPT ![b] = "COMPILING"]
  /\ IF fresh THEN raise_in_cl_list(b, EN) ELSE UNCHANGED <<head, tag>>
  /\ onActive' = IF fresh THEN onActive \cup {b} ELSE onActive
  /\ xl' = [xl EXCEPT ![b] = tr]
  /\ count' = [count EXCEPT ![b] = n]
  /\ direct' = [direct EXCEPT ![b] = c]
  /\ linked' = linked \ OwnEdges(b)
  /\ prefer' = prefer \ OwnEdges(b)
  /\ jmp' = Discard(b, set_dhtu_policy({b}, c, [direct EXCEPT ![b] = c], TRUE))
  /\ NoWrite /\ UNCHANGED <<hu, dep, marked, pc, slot, target, checkVars>>

(* get_blockinfo_addr_new and match_states for the next constant successor. *)
CompileTarget(t) ==
  /\ at = "compile" /\ slot < MaxSuccs
  /\ target' = t
  /\ IF status[t] = "NEED_CHECK"
     THEN at' = "check" /\ CallCheck(t, "link")
     ELSE at' = "link" /\ UNCHANGED checkVars
  /\ IF status[t] = "FREE"
     THEN /\ status' = [status EXCEPT ![t] = "INVALID"]
          /\ onActive' = onActive \cup {t}
          /\ raise_in_cl_list(t, EN)
     ELSE UNCHANGED <<status, onActive, head, tag>>
  /\ NoWrite
  /\ UNCHANGED <<hu, direct, xl, count, dep, linked, prefer, jmp, marked, pc, tr, slot>>

(* create_jmpdep: the edges on deplists once edge e has been emitted.       *)
create_jmpdep(e) == linked \cup {e}

(* get_handler_for_edge, write_jmp_target and create_jmpdep.                *)
CompileLink(prefer_direct) ==
  LET e == <<pc, slot>>
      t == target
  IN
  /\ at = "link"
  /\ prefer_direct => StableEdges /\ count[pc] # "armed"
  /\ jmp' = [jmp EXCEPT ![e] = IF prefer_direct /\ status[t] = "ACTIVE" /\ direct[t] # Null
                               THEN direct[t] ELSE hu[t]]
  /\ dep' = [dep EXCEPT ![e] = t]
  /\ linked' = create_jmpdep(e)
  /\ prefer' = IF prefer_direct THEN prefer \cup {e} ELSE prefer
  /\ slot' = slot + 1 /\ target' = NoAddr
  /\ at' = "compile"
  /\ NoWrite
  /\ UNCHANGED <<status, onActive, head, tag, hu, direct, xl, count, marked, pc, tr,
                 checkVars>>

(* The jumps into a block that is published with handler p.                 *)
(* Fault: edges keep the native code of a zero-source block.                *)
PublishedJumps_native(b, p) == set_dhtu_policy({b}, direct[b], direct, TRUE)
PublishedJumps(b, p) == set_dhtu_policy({b}, p, [direct EXCEPT ![b] = p], TRUE)

(* compile_block from endblock_done: publish the block.  RAM blocks made    *)
(* from a zero opcode keep the interpreter stub as their handler.           *)
CompileEnd ==
  LET b == pc
      zero == b \notin Rom /\ mem[b] = 0
      p == IF zero THEN EN ELSE direct[b]
  IN
  /\ at = "compile"
  /\ at' = "emitted" /\ slot' = 0
  /\ onActive' = IF b \in Rom THEN onActive \ {b} ELSE onActive \cup {b}
  /\ hu' = [hu EXCEPT ![b] = p]
  /\ direct' = [direct EXCEPT ![b] = p]
  /\ jmp' = PublishedJumps(b, p)
  /\ raise_in_cl_list(b, p)
  /\ marked' = IF b \in Rom THEN marked ELSE marked \cup jit_code_page_mark(b)
  /\ status' = [status EXCEPT ![b] = "ACTIVE"]
  /\ NoWrite
  /\ UNCHANGED <<xl, count, dep, linked, prefer, pc, tr, target, checkVars>>

(* compile_block: a code cache that is now full is flushed, and             *)
(* execute_normal returns to the dispatcher at the trace's successor.       *)
CompileReturn(a) ==
  /\ at = "emitted"
  /\ at' = "dispatch" /\ pc' = a
  /\ UNCHANGED cacheVars \/ flush_icache_hard
  /\ NoWrite /\ BetweenBlocks /\ UNCHANGED checkVars

-----------------------------------------------------------------------------
(* block_check_checksum and called_check_checksum.  A frame <<b, i>> of the *)
(* stack is a block in state CHECKING whose successor i is examined next.   *)

InCheck == at = "check" /\ NoWrite /\ BetweenBlocks /\ UNCHANGED <<pc, marked, xl>>

ChecksumGood(b) == b \notin Rom /\ \A x \in Span[b] : xl[b][x] = mem[x]

(* The block is in a checked state already.                                 *)
CheckSkip ==
  /\ InCheck /\ res = "call" /\ status[cur] # "NEED_CHECK"
  /\ res' = "good"
  /\ UNCHANGED <<status, onActive, head, tag, hu, direct, count, dep, linked, prefer, jmp,
                 at, stk, cur, ret>>

(* The source is unchanged: reactivate, then look at the successors.        *)
CheckGood ==
  /\ InCheck /\ res = "call" /\ status[cur] = "NEED_CHECK" /\ ChecksumGood(cur)
  /\ hu' = [hu EXCEPT ![cur] = direct[cur]]
  /\ jmp' = set_dhtu_policy({cur}, direct[cur], direct, TRUE)
  /\ status' = [status EXCEPT ![cur] = "CHECKING"]
  /\ stk' = Append(stk, <<cur, 0>>)
  /\ res' = "good"
  /\ UNCHANGED <<onActive, head, tag, direct, count, dep, linked, prefer, at, cur, ret>>

(* The source changed: the block is to be compiled again.                   *)
CheckBad ==
  /\ InCheck /\ res = "call" /\ status[cur] = "NEED_CHECK" /\ ~ChecksumGood(cur)
  /\ invalidate_block(cur)
  /\ raise_in_cl_list(cur, EN)
  /\ res' = "bad"
  /\ UNCHANGED <<onActive, at, stk, cur, ret>>

Frame == stk[Len(stk)]
Pop == SubSeq(stk, 1, Len(stk) - 1)

(* called_check_checksum: the frame's next successor, if it has one.        *)
CheckSuccessor ==
  /\ InCheck /\ res = "good" /\ stk # << >> /\ Frame[2] < 2
  /\ stk' = Append(Pop, <<Frame[1], Frame[2] + 1>>)
  /\ \/ dep[Frame] = NoAddr /\ UNCHANGED <<cur, res>>
     \/ dep[Frame] # NoAddr /\ cur' = dep[Frame] /\ res' = "call"
  /\ UNCHANGED <<status, onActive, head, tag, hu, direct, count, dep, linked, prefer, jmp, at, ret>>

(* All successors are good: back to the active list.                        *)
CheckPromote ==
  /\ InCheck /\ res = "good" /\ stk # << >> /\ Frame[2] = 2
  /\ onActive' = onActive \cup {Frame[1]}
  /\ raise_in_cl_list(Frame[1], hu[Frame[1]])
  /\ status' = [status EXCEPT ![Frame[1]] = "ACTIVE"]
  /\ stk' = Pop
  /\ UNCHANGED <<hu, direct, count, dep, linked, prefer, jmp, at, cur, res, ret>>

(* A successor has changed: the caller is discarded with it.                *)
CheckDiscard ==
  /\ InCheck /\ res = "bad" /\ stk # << >>
  /\ invalidate_block(Frame[1])
  /\ raise_in_cl_list(Frame[1], EN)
  /\ stk' = Pop
  /\ UNCHANGED <<onActive, at, cur, res, ret>>

(* Back in compile_block, or in check_checksum, which interprets a block    *)
(* that did not pass.                                                       *)
CheckReturn ==
  /\ InCheck /\ res # "call" /\ stk = << >>
  /\ at' = IF ret = "link" THEN "link" ELSE IF res = "good" THEN "dispatch" ELSE "normal"
  /\ CallCheck(NoAddr, "normal")
  /\ UNCHANGED <<status, onActive, head, tag, hu, direct, count, dep, linked, prefer, jmp>>

-----------------------------------------------------------------------------
Init ==
  /\ mem \in [Addr -> Val] /\ unseen = {} /\ unflushed = {}
  /\ status = [b \in Addr |-> "FREE"]
  /\ onActive = {}
  /\ head = [l \in Lines |-> NoAddr] /\ tag = [l \in Lines |-> EN]
  /\ hu = [b \in Addr |-> EN] /\ direct = [b \in Addr |-> Null]
  /\ xl = [b \in Addr |-> [x \in Span[b] |-> mem[x]]]
  /\ count = [b \in Addr |-> "out"]
  /\ dep = [e \in Edges |-> NoAddr] /\ linked = {} /\ prefer = {}
  /\ jmp = [e \in Edges |-> Null]
  /\ marked = {}
  /\ at = "dispatch" /\ pc \in Addr  /\ tr = << >>
  /\ slot = 0 /\ target = NoAddr
  /\ stk = << >> /\ cur = NoAddr /\ res = "call" /\ ret = "normal"

Compile ==
  \/ \E a \in Addr : CompileBail(a) \/ CompileTarget(a) \/ CompileReturn(a)
  \/ CompileEntry \/ CompileStart \/ CompileEnd
  \/ \E d \in BOOLEAN : CompileLink(d)

Check ==
  \/ CheckSkip \/ CheckGood \/ CheckBad \/ CheckSuccessor \/ CheckPromote \/ CheckDiscard
  \/ CheckReturn

(* What the CPU thread does without executing a guest instruction.          *)
Engine == Dispatch \/ check_for_cache_miss \/ BeginTrace \/ Compile \/ Check

Guest ==
  \/ \E x \in Addr, v \in Val : InterpreterStore(x, v) \/ NativeStore(x, v)
  \/ NativeCinv \/ TracedCinv \/ MmuTranslationChanged
  \/ \E x \in Addr : TraceNext(x)
  \/ \E i \in Slots : FollowEdge(i)
  \/ \E a \in Addr : LeaveBlock(a)

Device == \E x \in Addr, v \in Val : ScsiDma(x, v) \/ MoDma(x, v)

Next == Engine \/ Guest \/ Device
Spec == Init /\ [][Next]_vars
FairSpec == Spec /\ WF_vars(Engine)

-----------------------------------------------------------------------------
(* Properties.                                                              *)

Statuses == {"FREE", "INVALID", "COMPILING", "ACTIVE", "NEED_CHECK", "CHECKING",
             "NEED_RECOMP"}
Points == {"dispatch", "normal", "trace", "alloc", "compile", "link", "emitted",
           "check", "native"}

(* Every variable holds a value of its kind.                                *)
TypeOK ==
  /\ mem \in [Addr -> Val] /\ unseen \subseteq Addr /\ unflushed \subseteq Addr
  /\ status \in [Addr -> Statuses] /\ onActive \subseteq Addr
  /\ head \in [Lines -> Addr \cup {NoAddr}] /\ tag \in [Lines -> Pointers]
  /\ hu \in [Addr -> Pointers] /\ direct \in [Addr -> Pointers \cup {Null}]
  /\ DOMAIN xl = Addr /\ \A b \in Addr : xl[b] \in [Span[b] -> Val]
  /\ count \in [Addr -> {"armed", "out", "off"}]
  /\ dep \in [Edges -> Addr \cup {NoAddr}] /\ linked \subseteq Edges /\ prefer \subseteq linked
  /\ jmp \in [Edges -> Pointers \cup {Null}] /\ marked \subseteq Pages
  /\ at \in Points /\ pc \in Addr
  /\ slot \in 0 .. MaxSuccs /\ target \in Addr \cup {NoAddr}
  /\ stk \in Seq(Addr \X (0 .. 2)) /\ cur \in Addr \cup {NoAddr}
  /\ res \in {"call", "good", "bad"} /\ ret \in {"normal", "link"}

(* The pointers a control transfer may still use.                           *)
Installed == {tag[l] : l \in Lines} \cup {jmp[e] : e \in Edges}

(* Code whose countdown is spent diverts to recompile_block.                *)
Runs(p) == p.k = "native" /\ (p.ctr => count[p.blk] = "armed")

(* No control transfer reaches native code made from bytes that guest       *)
(* memory no longer holds, except for bytes changed by a writer that does   *)
(* not announce its writes.                                                 *)
NoStaleCode ==
  \A p \in Installed : Runs(p) => \A x \in Span[p.blk] \ unseen : p.from[x] = mem[x]

(* While guest code runs, a jump patched into it leads to its target's      *)
(* current translation: nothing jumps into code that was discarded.         *)
NoDanglingJump ==
  at = "native" =>
    \A e \in Edges : jmp[e].k = "native" => dep[e] # NoAddr /\ jmp[e] = direct[dep[e]]

(* What DMA is meant to guarantee: "Notify the JIT so it discards stale     *)
(* compiled blocks covering the loaded range" (dma.c), and what the sink of *)
(* guest stores is meant to (mmu_common.h): no write makes translated code  *)
(* stale, whoever makes it.                                                 *)
WritesInvalidate ==
  \A p \in Installed : Runs(p) => \A x \in Span[p.blk] : p.from[x] = mem[x]

(* What CINV and CPUSH are meant to guarantee: code is stale only where it  *)
(* was written after the guest's last instruction-cache invalidation.       *)
CinvInvalidates ==
  \A p \in Installed : Runs(p) => \A x \in Span[p.blk] \ unflushed : p.from[x] = mem[x]

(* A store looks for translations only on pages whose bit is set, and       *)
(* clears the bit: no block that may still run has lost the bit of one of   *)
(* its pages to a store aimed at another.                                   *)
PageBitsCover ==
  \A b \in Addr \ Rom :
    status[b] \in {"ACTIVE", "NEED_CHECK", "CHECKING"} => CodePages(b) \subseteq marked

(* Control always reaches a guest instruction: handing a block back to the  *)
(* dispatcher, validating it or finding its countdown spent never repeats   *)
(* for ever (recompile_block, check_for_cache_miss, block_check_checksum).  *)
Progress == at \notin {"trace", "native"} ~> at \in {"trace", "native"}

(***************************************************************************)
(* How far control is from a guest instruction, as a number: how many      *)
(* blocks are still to be validated, and at each point of the thread what  *)
(* it can still do before the tracer or native code takes over.            *)
(***************************************************************************)
Idle == at \notin {"trace", "native"}
ToCheck == {b \in Addr : status[b] = "NEED_CHECK"}

DispatchRank ==
  IF status[pc] = "FREE" THEN 2
  ELSE IF head[LineOf[pc]] # pc THEN 7
  ELSE IF tag[LineOf[pc]] = CC THEN 5 ELSE 2

NormalRank ==
  IF status[pc] # "FREE" /\ CacheHit(pc) THEN 3
  ELSE IF status[pc] # "FREE" /\ head[LineOf[pc]] # pc THEN 6 ELSE 1

SlotsLeft == 4 * (MaxSuccs - slot)
WalkRank ==
  8 * Len(stk) + (IF stk = << >> THEN 0 ELSE 2 * (2 - Frame[2])) + (IF res = "call" THEN 1 ELSE 0)

PointRank ==
  CASE at = "dispatch" -> DispatchRank
    [] at = "normal"   -> NormalRank
    [] at = "emitted"  -> 8
    [] at = "compile"  -> 9 + SlotsLeft
    [] at = "link"     -> 6 + SlotsLeft
    [] at = "alloc"    -> 10 + SlotsLeft
    [] at = "check"    -> WalkRank + (IF ret = "link" THEN 7 + SlotsLeft ELSE 3)
    [] OTHER -> 0

Rank == 16 * Cardinality(ToCheck) + PointRank

(* Between two guest instructions every step of the dispatcher, of          *)
(* check_for_cache_miss, of compile_block and of block_check_checksum comes *)
(* closer to the next one, and no device sets the thread back: the thread   *)
(* takes at most Rank steps of its own before it executes guest code.       *)
EngineDescends ==
  [][Idle /\ Idle' => Rank' < Rank \/ (Device /\ Rank' <= Rank)]_vars

=============================================================================
