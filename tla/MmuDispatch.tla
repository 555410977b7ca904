------------------------------ MODULE MmuDispatch ------------------------------
(***************************************************************************)
(* How translated blocks are found while the guest's MMU is on: the        *)
(* execution identity (compemu_support_arm.cpp), the tracer                 *)
(* (compemu_legacy_arm64_compat.cpp), the loop that enters compiled code    *)
(* (compemu_support.cpp) and the bridge (uae2026_jit_bridge.cpp).           *)
(*                                                                          *)
(* A logical location is the processor's mode and a page.  The MMU maps it  *)
(* to a frame, or the access faults.  A block remembers the frames its      *)
(* instructions were fetched from; while it runs nothing is fetched, so a   *)
(* page that has been unmapped would not fault.                             *)
(*                                                                          *)
(* One block may start on each page, and an instruction lies on one page    *)
(* (the tracer keeps those that straddle an 8K page out of every block).    *)
(* What the blocks contain is the subject of BlockCache.  The two opt-in    *)
(* settings, revalidation and fast dispatch, are choices left open.         *)
(***************************************************************************)
EXTENDS Integers

CONSTANTS
  Pages,         \* logical pages
  Frames,        \* physical pages, as host pointers into the execution shadow
  Fault,         \* instead of a frame: the translation faults
  May,           \* May[x]: what the guest's tables ever hold for location x
  LineOf,        \* LineOf[f]: the cache line of a block that starts in frame f
  Ids,           \* blockinfos
  None,
  Careful,       \* no instruction takes away a page that the same trace ran on
  MaxGen         \* bound on the changes of translation

Logical == {"user", "super"} \X Pages
Vectors == {"super"} \X Pages
Lines == {LineOf[f] : f \in Frames}

(* An executed piece of code: its location and the frame it was fetched from *)
Seg == [at : Logical, frame : Frames]

Block ==
  [st : {"INVALID", "ACTIVE", "NEED_CHECK"},  \* INVALID: BI_NEED_RECOMP, too
   pcp : Frames,           \* pc_p
   key : Logical,          \* mmu_supervisor and guest_pc
   gen : 1 .. MaxGen,      \* mmu_generation
   single : BOOLEAN,       \* one checksum span, on the page of the entry
   segs : SUBSET Seg]      \* what its native code runs

ASSUME MmuDispatchAssumption ==
  /\ Fault \notin Frames
  /\ May \in [Logical -> (SUBSET (Frames \cup {Fault})) \ {{}}]
  /\ Ids \cap {"execute_normal", "check_checksum", None} = {}
  /\ Careful \in BOOLEAN /\ MaxGen \in Nat \ {0}

VARIABLES
  table,         \* the guest's translation tables
  avail,         \* avail[x]: what the MMU may answer, from its cache or the tables
  generation,    \* mmu_translation_generation
  blk,           \* the blockinfos in use
  head,          \* cache_tags[cl + 1].bi, the first of each line's list
  tag,           \* cache_tags[cl].handler
  at,            \* where the CPU thread is
  loc,           \* regs.s and regs.pc
  pcp,           \* regs.pc_p; Fault where it is translated again before use
  leader,        \* first instruction of the trace
  segs,          \* code the trace or the running block executes as native code
  open,          \* the instructions traced next still become native code
  single         \* the trace is one span on its leader's page

mmuVars == <<table, avail, generation>>
cacheVars == <<blk, head, tag>>
traceVars == <<leader, segs, open, single>>
vars == <<mmuVars, cacheVars, at, loc, pcp, traceVars>>

TypeOK ==
  /\ table \in [Logical -> Frames \cup {Fault}]
  /\ avail \in [Logical -> SUBSET (Frames \cup {Fault})]
  /\ generation \in 1 .. MaxGen
  /\ DOMAIN blk \subseteq Ids /\ blk \in [DOMAIN blk -> Block]
  /\ head \in [Lines -> DOMAIN blk \cup {None}]
  /\ tag \in [Lines -> {"execute_normal", "check_checksum"} \cup DOMAIN blk]
  /\ at \in {"bridge", "loop", "poll", "normal", "ready", "trace", "native"}
  /\ loc \in Logical /\ pcp \in Frames \cup {Fault}
  /\ at \in {"loop", "poll"} => pcp \in Frames
  /\ at = "trace" => leader \in Seg
  /\ segs \subseteq Seg /\ open \in BOOLEAN /\ single \in BOOLEAN

Init ==
  /\ table \in [Logical -> Frames \cup {Fault}] /\ \A x \in Logical : table[x] \in May[x]
  /\ avail = [x \in Logical |-> {table[x]}]
  /\ generation = 1
  /\ blk = [b \in {} |-> None]
  /\ head = [l \in Lines |-> None]
  /\ tag = [l \in Lines |-> "execute_normal"]
  /\ at = "bridge" /\ loc \in Vectors /\ pcp = Fault
  /\ leader = None /\ segs = {} /\ open = FALSE /\ single = FALSE

-----------------------------------------------------------------------------
(* Where a step leaves the CPU thread *)

Go(place, x, p) ==
  /\ at' = place /\ loc' = x /\ pcp' = p
  /\ leader' = None /\ segs' = {} /\ open' = FALSE /\ single' = FALSE

(* A bus error jumps to the bridge's catch frame, which enters the handler *)
BusError == \E x \in Vectors : Go("bridge", x, Fault)

Run(b, x) ==
  /\ at' = "native" /\ loc' = x /\ pcp' = Fault
  /\ segs' = blk[b].segs
  /\ leader' = None /\ open' = FALSE /\ single' = FALSE

-----------------------------------------------------------------------------
(* The lists of blocks *)

\* Seeded fault: any block of the address matches, whatever its generation
Matches_anyGeneration(bs, b, p, x) == bs[b].pcp = p /\ bs[b].key = x

(* jit_block_identity_matches, and its exemption of single-page blocks *)
Matches(bs, b, p, x) ==
  /\ bs[b].pcp = p /\ bs[b].key = x
  /\ bs[b].gen = generation \/ bs[b].single

(* get_blockinfo_addr_key searches the line's list from its head *)
Found(bs, p, x) ==
  LET matching == {b \in DOMAIN bs : Matches(bs, b, p, x)}
      first == head[LineOf[p]]
  IN IF first \in matching THEN {first} ELSE matching

(* A block that was found bears the current generation from then on *)
Promoted(b, st) == [blk EXCEPT ![b].gen = generation, ![b].st = st]

HandlerToUse(bs, b) ==
  CASE bs[b].st = "ACTIVE" -> b
    [] bs[b].st = "NEED_CHECK" -> "check_checksum"
    [] OTHER -> "execute_normal"

(* raise_in_cl_list, on the blocks bs that the step leaves *)
Raise(bs, b) ==
  /\ blk' = bs
  /\ head' = [head EXCEPT ![LineOf[bs[b].pcp]] = b]
  /\ tag' = [tag EXCEPT ![LineOf[bs[b].pcp]] = HandlerToUse(bs, b)]

(* flush_icache_lazy *)
FlushIcacheLazy ==
  /\ blk' = [b \in DOMAIN blk |->
               [blk[b] EXCEPT !.st = IF @ = "ACTIVE" THEN "NEED_CHECK" ELSE @]]
  /\ tag' = [l \in Lines |->
               IF head[l] = None \/ blk[head[l]].st # "ACTIVE" THEN tag[l]
               ELSE "check_checksum"]
  /\ UNCHANGED head

\* Seeded fault: the generation wraps round to the value that means none
TranslationChanged_wraps(S) ==
  /\ generation' = (generation + 1) % MaxGen
  /\ avail' = [x \in Logical |-> IF x \in S THEN {table[x]} ELSE avail[x]]
  /\ FlushIcacheLazy
  /\ UNCHANGED table

(* Uae2026JitMmuTranslationChanged, and the change: the MMU forgets what it *)
(* cached for the locations S (PFLUSH, PFLUSHA, a write of TC or a TTR).    *)
TranslationChanged(S) ==
  /\ generation < MaxGen
  /\ generation' = generation + 1
  /\ avail' = [x \in Logical |-> IF x \in S THEN {table[x]} ELSE avail[x]]
  /\ FlushIcacheLazy
  /\ UNCHANGED table

-----------------------------------------------------------------------------
(* The bridge *)

(* Uae2026JitBridgeCompileExecute: translate, then promote the block with   *)
(* the full identity (Uae2026CompilerPrepareMmuDispatch)                    *)
BridgeEnter ==
  /\ at = "bridge"
  /\ \E v \in avail[loc] :
       \/ v = Fault /\ BusError /\ UNCHANGED cacheVars
       \/ /\ v # Fault
          /\ Go("loop", loc, v)
          /\ \/ \E b \in Found(blk, v, loc) : Raise(Promoted(b, blk[b].st), b)
             \/ /\ Found(blk, v, loc) = {}
                /\ tag' = [tag EXCEPT ![LineOf[v]] = "execute_normal"]
                /\ UNCHANGED <<blk, head>>
  /\ UNCHANGED mmuVars

-----------------------------------------------------------------------------
(* m68k_do_compile_execute: enter the handler of the line of pc_p *)

AtEntry == at \in {"loop", "poll"}
Entered == tag[LineOf[pcp]]

EnterNormal ==
  /\ AtEntry /\ Entered = "execute_normal"
  /\ Go("normal", loc, Fault)
  /\ UNCHANGED <<mmuVars, cacheVars>>

(* A block's entry compares pc_p and nothing else *)
EnterNative ==
  /\ AtEntry /\ Entered \in DOMAIN blk /\ blk[Entered].pcp = pcp
  /\ Run(Entered, loc)
  /\ UNCHANGED <<mmuVars, cacheVars>>

(* cache_miss: raise the block that was meant, if there is one *)
CacheMiss ==
  \/ /\ Found(blk, pcp, loc) = {}
     /\ Go("normal", loc, Fault)
     /\ UNCHANGED cacheVars
  \/ \E b \in Found(blk, pcp, loc) :
       Raise(Promoted(b, blk[b].st), b) /\ Go("poll", loc, pcp)

EnterMiss ==
  /\ AtEntry /\ Entered \in DOMAIN blk /\ blk[Entered].pcp # pcp
  /\ CacheMiss
  /\ UNCHANGED mmuVars

(* check_checksum and block_check_checksum; whether the sums agree is open *)
EnterCheck ==
  /\ AtEntry /\ Entered = "check_checksum"
  /\ \/ head[LineOf[pcp]] \notin Found(blk, pcp, loc) /\ CacheMiss
     \/ \E b \in Found(blk, pcp, loc) :
          /\ b = head[LineOf[pcp]]
          /\ \/ /\ blk[b].st = "NEED_CHECK"
                /\ \/ Raise(Promoted(b, "ACTIVE"), b) /\ Go("poll", loc, pcp)
                   \/ Raise(Promoted(b, "INVALID"), b) /\ Go("normal", loc, Fault)
             \/ /\ blk[b].st # "NEED_CHECK"
                /\ blk' = Promoted(b, blk[b].st)
                /\ UNCHANGED <<head, tag>>
                /\ Go("poll", loc, pcp)
  /\ UNCHANGED mmuVars

(* m68k_do_specialties, called by the loop and by execute_normal, takes an  *)
(* interrupt: the address of its handler is translated                      *)
Interrupt ==
  /\ at \in {"poll", "normal"}
  /\ \E x \in Vectors : \E v \in avail[x] :
       \/ v = Fault /\ BusError
       \/ v # Fault /\ at = "poll" /\ Go("loop", x, v)
       \/ v # Fault /\ at = "normal" /\ Go("ready", x, Fault)
  /\ UNCHANGED <<mmuVars, cacheVars>>

LeaveLoop ==
  /\ at = "poll"
  /\ Go("bridge", loc, Fault)
  /\ UNCHANGED <<mmuVars, cacheVars>>

-----------------------------------------------------------------------------
(* execute_normal: the location is translated and looked up, and the tracer *)
(* starts unless a block is found                                           *)

BeginTrace(x, v) ==
  /\ at' = "trace" /\ loc' = x /\ pcp' = Fault
  /\ leader' = [at |-> x, frame |-> v]
  /\ segs' = {[at |-> x, frame |-> v]} /\ open' = TRUE /\ single' = TRUE

\* Seeded fault: an ACTIVE block is a hit even if its line enters something else
CheckForCacheMiss_anyHandler(b, v) ==
  \/ /\ blk[b].st = "ACTIVE"
     /\ blk' = Promoted(b, "ACTIVE") /\ UNCHANGED <<head, tag>>
     /\ Go("poll", loc, v)
  \/ /\ blk[b].st # "ACTIVE" /\ b # head[LineOf[v]]
     /\ Raise(Promoted(b, blk[b].st), b) /\ Go("poll", loc, v)
  \/ /\ blk[b].st # "ACTIVE" /\ b = head[LineOf[v]]
     /\ blk' = Promoted(b, blk[b].st) /\ UNCHANGED <<head, tag>>
     /\ BeginTrace(loc, v)

(* check_for_cache_miss, for the block b that bears the identity: it is a   *)
(* hit if the line enters its code, or once it has become the line's first  *)
CheckForCacheMiss(b, v) ==
  LET hit == blk[b].st = "ACTIVE" /\ tag[LineOf[v]] = b
      primary == b = head[LineOf[v]]
  IN \/ /\ hit \/ ~primary
        /\ IF hit THEN blk' = Promoted(b, "ACTIVE") /\ UNCHANGED <<head, tag>>
           ELSE Raise(Promoted(b, blk[b].st), b)
        /\ Go("poll", loc, v)
     \/ /\ ~hit /\ primary
        /\ blk' = Promoted(b, blk[b].st) /\ UNCHANGED <<head, tag>>
        /\ BeginTrace(loc, v)

(* With PREVIOUS_UAE2026_JIT_REVALIDATE, what check_checksum does comes first *)
RevalidateBlock(b, v) ==
  /\ blk[b].st = "NEED_CHECK"
  /\ \/ Raise(Promoted(b, "ACTIVE"), b) /\ Go("poll", loc, v)
     \/ Raise(Promoted(b, "INVALID"), b) /\ BeginTrace(loc, v)

ExecuteNormal ==
  /\ at \in {"normal", "ready"}
  /\ \E v \in avail[loc] :
       \/ v = Fault /\ BusError /\ UNCHANGED cacheVars
       \/ v # Fault /\ \E b \in Found(blk, v, loc) :
            CheckForCacheMiss(b, v) \/ RevalidateBlock(b, v)
       \/ /\ v # Fault /\ Found(blk, v, loc) = {}
          /\ BeginTrace(loc, v) /\ UNCHANGED cacheVars
  /\ UNCHANGED mmuVars

-----------------------------------------------------------------------------
(* The tracer interprets instructions, and translates the location of each  *)
(* next one.  That one becomes native code, too, while nothing has ended    *)
(* the block: neither now (ends) nor before.                                *)

Traced(x, v, jump, ends) ==
  \/ v = Fault /\ BusError
  \/ /\ v # Fault
     /\ loc' = x
     /\ open' = (open /\ ~ends)
     /\ segs' = IF open /\ ~ends THEN segs \cup {[at |-> x, frame |-> v]} ELSE segs
     /\ single' = (single /\ ~jump /\ v = leader.frame)
     /\ UNCHANGED <<at, pcp, leader>>

(* The next instruction is on the same page, or a constant jump is followed *)
TraceStep ==
  /\ at = "trace"
  /\ \E jump \in BOOLEAN, x \in Logical : \E v \in avail[x] :
       x[1] = loc[1] /\ (x = loc \/ jump) /\ Traced(x, v, jump, FALSE)
  /\ UNCHANGED <<mmuVars, cacheVars>>

(* Instructions whose compiled form ends the block, but not the trace: the  *)
(* ones that write SR, flush the instruction cache, or change translations  *)
TraceSetSr ==
  /\ at = "trace" /\ loc[1] = "super"
  /\ \E x \in Logical : \E v \in avail[x] :
       x[2] = loc[2] /\ Traced(x, v, FALSE, TRUE)
  /\ UNCHANGED <<mmuVars, cacheVars>>

TraceFlushCache ==
  /\ at = "trace" /\ loc[1] = "super"
  /\ FlushIcacheLazy
  /\ \E v \in avail[loc] : Traced(loc, v, FALSE, TRUE)
  /\ UNCHANGED mmuVars

Keeps(S) == \A s \in segs : s.at \in S => table[s.at] = s.frame

TraceMmuOp ==
  /\ at = "trace" /\ loc[1] = "super"
  /\ \E S \in SUBSET Logical :
       (Careful => Keeps(S)) /\ TranslationChanged(S)
  /\ \E v \in avail'[loc] : Traced(loc, v, FALSE, TRUE)

(* An instruction faults in a data access *)
TraceFault ==
  /\ at = "trace" /\ BusError
  /\ UNCHANGED <<mmuVars, cacheVars>>

-----------------------------------------------------------------------------
(* The end of the trace: its last instruction leads to x.  The block gets   *)
(* the identity of the leader, but the mode at the end.                     *)

Compiled(x) ==
  [st |-> "ACTIVE", pcp |-> leader.frame, key |-> <<x[1], leader.at[2]>>,
   gen |-> generation, single |-> single, segs |-> segs]

(* get_blockinfo_addr_new: the block of that identity, or a new one *)
BlockFor(bs, x) ==
  LET found == Found(bs, leader.frame, <<x[1], leader.at[2]>>)
  IN IF found = {} THEN Ids \ DOMAIN bs ELSE found

CompileBlock(bs, hs, ts, x) ==
  \E b \in BlockFor(bs, x) :
    /\ blk' = [i \in DOMAIN bs \cup {b} |-> IF i = b THEN Compiled(x) ELSE bs[i]]
    /\ head' = [hs EXCEPT ![LineOf[leader.frame]] = b]
    /\ tag' = [ts EXCEPT ![LineOf[leader.frame]] = b]

(* flush_icache_hard frees every block *)
NoBlocks == [b \in {} |-> None]
NoHeads == [l \in Lines |-> None]
NoTags == [l \in Lines |-> "execute_normal"]

(* Nothing is compiled when strict mode defers a cold trace; a full code    *)
(* cache is emptied before the compilation or after it.  The successor is   *)
(* translated last, so that it faults with the block compiled.              *)
TraceEnd ==
  /\ at = "trace"
  /\ \E x \in Logical :
       /\ \/ CompileBlock(blk, head, tag, x)
          \/ CompileBlock(NoBlocks, NoHeads, NoTags, x)
          \/ blk' = NoBlocks /\ head' = NoHeads /\ tag' = NoTags
          \/ UNCHANGED cacheVars
       /\ \E v \in avail[x] :
            (v = Fault /\ BusError) \/ (v # Fault /\ Go("poll", x, v))
  /\ UNCHANGED mmuVars

-----------------------------------------------------------------------------
(* Native code *)

(* The opt-in dispatcher in generated code asks for the whole identity *)
FastHit(x, v) ==
  LET b == head[LineOf[v]]
  IN /\ b # None
     /\ blk[b].pcp = v /\ blk[b].key = x
     /\ blk[b].single /\ blk[b].gen = generation
     /\ blk[b].st = "ACTIVE" /\ tag[LineOf[v]] = b

(* The successor is translated; a pending specialty returns to the loop *)
Successor(x, answers) ==
  \E v \in answers[x] :
    \/ v = Fault /\ BusError
    \/ v # Fault /\ Go("poll", x, v)
    \/ v # Fault /\ Go("normal", x, Fault)
    \/ v # Fault /\ FastHit(x, v) /\ Run(head[LineOf[v]], x)

NativeEnd ==
  /\ at = "native"
  /\ \E x \in Logical : Successor(x, avail)
  /\ UNCHANGED <<mmuVars, cacheVars>>

(* After a helper call inside the block: a pending specialty leaves it there *)
NativeNothing ==
  /\ at = "native"
  /\ \E s \in segs : Go("poll", s.at, s.frame)
  /\ UNCHANGED <<mmuVars, cacheVars>>

NativeFault ==
  /\ at = "native" /\ BusError
  /\ UNCHANGED <<mmuVars, cacheVars>>

(* Helpers that change translations or flush the cache end the block.  No   *)
(* block is ACTIVE after them, so the fast dispatcher declines.             *)
NativeFlush ==
  /\ at = "native" /\ loc[1] = "super"
  /\ \/ \E S \in SUBSET Logical : TranslationChanged(S)
     \/ FlushIcacheLazy /\ UNCHANGED mmuVars
  /\ \E v \in avail'[loc] :
       \/ v = Fault /\ BusError
       \/ v # Fault /\ (Go("poll", loc, v) \/ Go("normal", loc, Fault))

-----------------------------------------------------------------------------
(* The guest writes its tables; the MMU may still answer what it has cached *)
GuestStore ==
  /\ at \in {"trace", "native"}
  /\ \E x \in Logical : \E v \in May[x] :
       /\ table' = [table EXCEPT ![x] = v]
       /\ avail' = [avail EXCEPT ![x] = @ \cup {v}]
  /\ UNCHANGED <<generation, cacheVars, at, loc, pcp, traceVars>>

(* A store, or a device's, hits the code of a block (block_need_recompile) *)
BlockNeedRecompile ==
  /\ at \in {"trace", "native", "poll"}
  /\ \E b \in DOMAIN blk :
       /\ blk' = [blk EXCEPT ![b].st = "INVALID"]
       /\ tag' = [l \in Lines |->
                    IF head[l] = b THEN "execute_normal" ELSE tag[l]]
  /\ UNCHANGED <<mmuVars, head, at, loc, pcp, traceVars>>

Engine ==
  \/ BridgeEnter \/ EnterNormal \/ EnterNative \/ EnterMiss \/ EnterCheck
  \/ ExecuteNormal

Next ==
  \/ Engine \/ Interrupt \/ LeaveLoop
  \/ TraceStep \/ TraceSetSr \/ TraceFlushCache \/ TraceMmuOp \/ TraceFault
  \/ TraceEnd
  \/ NativeEnd \/ NativeNothing \/ NativeFault \/ NativeFlush
  \/ GuestStore \/ BlockNeedRecompile

Spec == Init /\ [][Next]_vars

-----------------------------------------------------------------------------
(* Properties *)

(* While a block runs, each page it was compiled from still has, in the     *)
(* mode the processor is in, the frame its instructions were fetched from,  *)
(* as far as the MMU's cache and tables go: no fetch that would fault, or   *)
(* find other code, is skipped.                                             *)
NoSkippedFault ==
  at = "native" => \A s \in segs : s.at[1] = loc[1] /\ s.frame \in avail[s.at]

(* How far the dispatcher is from executing something at its location *)
Dispatching == {"loop", "poll", "normal", "ready"}

Mislaid(v) ==
  Found(blk, v, loc) # {} /\ head[LineOf[v]] \notin Found(blk, v, loc)

Distance ==
  IF at \in {"normal", "ready"}
  THEN IF \E v \in avail[loc] \ {Fault} : Mislaid(v) THEN 4
       ELSE IF \E v \in avail[loc] \ {Fault} : Found(blk, v, loc) # {} THEN 2 ELSE 1
  ELSE IF Entered \in DOMAIN blk /\ blk[Entered].pcp = pcp THEN 1
       ELSE IF Found(blk, pcp, loc) = {} THEN 2
       ELSE IF ~Mislaid(pcp) THEN 3
       ELSE IF Entered = "execute_normal" THEN 5 ELSE 4

(* The MMU does not answer with one frame now and another one next time *)
Settled(x) == \A v, w \in avail[x] \ {Fault} : v = w

(* The dispatcher never turns in circles: each of its steps that does not   *)
(* execute anything comes nearer to one that does, so that after at most    *)
(* five of them the location is traced, run as native code or faults.       *)
Nearer == Engine /\ at \in Dispatching /\ at' \in Dispatching /\ Settled(loc)
            => Distance' < Distance
DispatchDescends == [][Nearer]_vars
=============================================================================
