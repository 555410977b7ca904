--------------------------- MODULE MmuDispatchProofs ---------------------------
(***************************************************************************)
(* Proofs about MmuDispatch for any pages, frames and blocks.  The types    *)
(* need nothing more; that no fault is skipped and that the dispatcher      *)
(* advances hold when no two logical locations ever share a frame and no    *)
(* trace takes away a page it ran on.                                       *)
(***************************************************************************)
EXTENDS MmuDispatch, TLAPS

(* Not even over time does one frame belong to two locations *)
NoAlias ==
  \A x, y \in Logical, f \in Frames : f \in May[x] /\ f \in May[y] => x = y

(* The MMU answers with what the tables hold or held *)
MmuOK ==
  /\ table \in [Logical -> Frames \cup {Fault}]
  /\ avail \in [Logical -> SUBSET (Frames \cup {Fault})]
  /\ generation \in 1 .. MaxGen
  /\ \A x \in Logical : table[x] \in May[x] /\ avail[x] \subseteq May[x]

CacheType ==
  /\ DOMAIN blk \subseteq Ids /\ blk \in [DOMAIN blk -> Block]
  /\ head \in [Lines -> DOMAIN blk \cup {None}]
  /\ tag \in [Lines -> {"execute_normal", "check_checksum"} \cup DOMAIN blk]

(* e is where block B begins; all it runs was traced in that mode *)
Entry(B, e) ==
  /\ e \in B.segs /\ e.frame = B.pcp /\ e.frame \in May[e.at]
  /\ \A s \in B.segs : s.at[1] = e.at[1]
  /\ B.single => B.segs = {e}

(* A block of the current generation has the frames the MMU answers with *)
Current(B) == \A s \in B.segs : s.frame \in avail[s.at]

BlockOK(B) ==
  /\ \E e \in Seg : Entry(B, e)
  /\ B.gen <= generation
  /\ B.gen = generation => Current(B)
  /\ B.st = "ACTIVE" => B.gen = generation

CacheOK == \A b \in DOMAIN blk : BlockOK(blk[b])

(* A line enters the code of its first block, or has it checked *)
LinesOK ==
  \A l \in Lines :
    /\ tag[l] \in DOMAIN blk => tag[l] = head[l] /\ blk[head[l]].st = "ACTIVE"
    /\ tag[l] = "check_checksum" =>
         head[l] \in DOMAIN blk /\ blk[head[l]].st = "NEED_CHECK"
    /\ head[l] \in DOMAIN blk => LineOf[blk[head[l]].pcp] = l

TraceOK ==
  /\ leader \in Seg /\ leader \in segs
  /\ \A s \in segs : s.at[1] = leader.at[1] /\ s.frame \in avail[s.at]
  /\ single => segs = {leader}
  /\ open => loc[1] = leader.at[1]
  /\ open /\ single => loc = leader.at

ControlType ==
  /\ at \in {"bridge", "loop", "poll", "normal", "ready", "trace", "native"}
  /\ loc \in Logical /\ pcp \in Frames \cup {Fault}
  /\ segs \subseteq Seg /\ open \in BOOLEAN /\ single \in BOOLEAN

ControlOK ==
  /\ ControlType
  /\ at \in {"loop", "poll"} => pcp \in Frames /\ pcp \in avail[loc]
  /\ at = "trace" => TraceOK
  /\ NoSkippedFault

Inv == MmuOK /\ CacheType /\ CacheOK /\ LinesOK /\ ControlOK

-----------------------------------------------------------------------------
(* Steps of the CPU thread *)

LEMMA VectorsLogical == Vectors \subseteq Logical
BY DEF Vectors, Logical

(***************************************************************************)
(* Types, whatever the guest's tables hold and its code does to them.       *)
(***************************************************************************)

MmuType ==
  /\ table \in [Logical -> Frames \cup {Fault}]
  /\ avail \in [Logical -> SUBSET (Frames \cup {Fault})]
  /\ generation \in 1 .. MaxGen

PlaceType ==
  /\ ControlType
  /\ at \in {"loop", "poll"} => pcp \in Frames
  /\ at = "trace" => leader \in Seg

States == {"INVALID", "ACTIVE", "NEED_CHECK"}

LEMMA TypeParts == TypeOK <=> MmuType /\ CacheType /\ PlaceType
BY DEF TypeOK, MmuType, CacheType, PlaceType, ControlType

LEMMA AnswerType ==
  ASSUME MmuType, NEW x \in Logical, NEW v \in avail[x]
  PROVE  v \in Frames \cup {Fault}
BY DEF MmuType

LEMMA GoType ==
  ASSUME NEW a \in {"bridge", "loop", "poll", "normal", "ready"}, NEW x \in Logical,
         NEW v \in Frames \cup {Fault}, Go(a, x, v), a \in {"loop", "poll"} => v # Fault
  PROVE  PlaceType'
BY DEF Go, PlaceType, ControlType

LEMMA BusErrorType == ASSUME BusError PROVE PlaceType'
<1>1. PICK x \in Vectors : Go("bridge", x, Fault)
  BY DEF BusError
<1> QED BY <1>1, GoType, VectorsLogical

LEMMA RunType ==
  ASSUME CacheType, NEW b \in DOMAIN blk, NEW x \in Logical, Run(b, x)
  PROVE  PlaceType'
<1>1. blk[b].segs \subseteq Seg
  BY DEF CacheType, Block
<1> QED BY <1>1 DEF Run, PlaceType, ControlType

LEMMA BeginTraceType ==
  ASSUME NEW x \in Logical, NEW v \in Frames, BeginTrace(x, v)
  PROVE  PlaceType'
<1>1. [at |-> x, frame |-> v] \in Seg
  BY DEF Seg
<1> QED BY <1>1 DEF BeginTrace, PlaceType, ControlType

LEMMA PromotedType ==
  ASSUME MmuType, CacheType, NEW b \in DOMAIN blk, NEW st \in States
  PROVE  /\ DOMAIN Promoted(b, st) = DOMAIN blk
         /\ Promoted(b, st) \in [DOMAIN blk -> Block]
BY DEF Promoted, MmuType, CacheType, Block, States

LEMMA RaiseType ==
  ASSUME MmuType, CacheType, NEW b \in DOMAIN blk, NEW st \in States,
         Raise(Promoted(b, st), b)
  PROVE  CacheType'
<1>1. /\ blk' = Promoted(b, st) /\ DOMAIN blk' = DOMAIN blk
      /\ blk' \in [DOMAIN blk -> Block]
  BY PromotedType DEF Raise
<1>2. HandlerToUse(blk', b) \in {"execute_normal", "check_checksum", b}
  BY DEF HandlerToUse
<1>3. /\ head' = [head EXCEPT ![LineOf[blk'[b].pcp]] = b]
      /\ tag' = [tag EXCEPT ![LineOf[blk'[b].pcp]] = HandlerToUse(blk', b)]
  BY <1>1 DEF Raise
<1> QED BY <1>1, <1>2, <1>3 DEF CacheType

LEMMA MarkType ==
  ASSUME MmuType, CacheType, NEW b \in DOMAIN blk, blk' = Promoted(b, blk[b].st),
         UNCHANGED <<head, tag>>
  PROVE  CacheType'
<1>1. blk[b].st \in States
  BY DEF CacheType, Block, States
<1>2. DOMAIN blk' = DOMAIN blk /\ blk' \in [DOMAIN blk -> Block]
  BY <1>1, PromotedType
<1> QED BY <1>2 DEF CacheType

(* The block that was found is raised or marked, with its status or another *)
LEMMA FoundType ==
  ASSUME MmuType, CacheType, NEW v, NEW x, NEW b \in Found(blk, v, x),
         \/ \E st \in States \cup {blk[b].st} : Raise(Promoted(b, st), b)
         \/ blk' = Promoted(b, blk[b].st) /\ UNCHANGED <<head, tag>>
  PROVE  CacheType'
<1>1. b \in DOMAIN blk /\ blk[b].st \in States
  BY DEF Found, Matches, CacheType, Block, States
<1> QED BY <1>1, RaiseType, MarkType

LEMMA FlushType ==
  ASSUME CacheType, FlushIcacheLazy
  PROVE  CacheType'
<1>1. \A b \in DOMAIN blk :
        [blk[b] EXCEPT !.st = IF @ = "ACTIVE" THEN "NEED_CHECK" ELSE @] \in Block
  BY DEF CacheType, Block
<1>2. DOMAIN blk' = DOMAIN blk /\ blk' \in [DOMAIN blk -> Block]
  BY <1>1 DEF FlushIcacheLazy
<1>3. head' = head /\ tag' \in [Lines -> {"execute_normal", "check_checksum"} \cup DOMAIN blk]
  BY DEF FlushIcacheLazy, CacheType
<1> QED BY <1>2, <1>3 DEF CacheType

LEMMA ChangedType ==
  ASSUME MmuType, CacheType, NEW S, TranslationChanged(S)
  PROVE  MmuType' /\ CacheType'
<1>1. MmuType'
  BY MmuDispatchAssumption DEF MmuType, TranslationChanged
<1> QED BY <1>1, FlushType DEF TranslationChanged

LEMMA CompileType ==
  ASSUME MmuType, PlaceType, at = "trace", NEW x \in Logical, NEW bs, NEW hs, NEW ts,
         DOMAIN bs \subseteq Ids, bs \in [DOMAIN bs -> Block],
         hs \in [Lines -> DOMAIN bs \cup {None}],
         ts \in [Lines -> {"execute_normal", "check_checksum"} \cup DOMAIN bs],
         CompileBlock(bs, hs, ts, x)
  PROVE  CacheType'
<1> DEFINE C == Compiled(x)
           l0 == LineOf[leader.frame]
<1>1. C \in Block
  BY DEF Compiled, Block, PlaceType, ControlType, MmuType, Seg, Logical
<1>2. PICK b \in BlockFor(bs, x) :
        /\ blk' = [i \in DOMAIN bs \cup {b} |-> IF i = b THEN C ELSE bs[i]]
        /\ head' = [hs EXCEPT ![l0] = b]
        /\ tag' = [ts EXCEPT ![l0] = b]
  BY DEF CompileBlock
<1>3. b \in Ids
  BY DEF BlockFor, Found, Matches
<1>4. DOMAIN blk' = DOMAIN bs \cup {b} /\ blk' \in [DOMAIN bs \cup {b} -> Block]
  BY <1>1, <1>2
<1>5. /\ head' \in [Lines -> DOMAIN bs \cup {b} \cup {None}]
      /\ tag' \in [Lines -> {"execute_normal", "check_checksum"} \cup DOMAIN bs \cup {b}]
  BY <1>2
<1> QED BY <1>3, <1>4, <1>5 DEF CacheType

LEMMA EmptyType ==
  /\ DOMAIN NoBlocks = {} /\ NoBlocks \in [DOMAIN NoBlocks -> Block]
  /\ NoHeads \in [Lines -> DOMAIN NoBlocks \cup {None}]
  /\ NoTags \in [Lines -> {"execute_normal", "check_checksum"} \cup DOMAIN NoBlocks]
<1>1. DOMAIN NoBlocks = {} /\ NoBlocks \in [DOMAIN NoBlocks -> Block]
  BY DEF NoBlocks
<1> QED BY <1>1 DEF NoHeads, NoTags

LEMMA TracedType ==
  ASSUME PlaceType, at = "trace", NEW x \in Logical, NEW v \in Frames \cup {Fault},
         NEW jump \in BOOLEAN, NEW ends \in BOOLEAN, Traced(x, v, jump, ends)
  PROVE  PlaceType'
<1>1. CASE BusError
  BY <1>1, BusErrorType
<1>2. CASE v # Fault /\ ~BusError
  <2>1. [at |-> x, frame |-> v] \in Seg
    BY <1>2 DEF Seg
  <2> QED BY <1>2, <2>1 DEF Traced, PlaceType, ControlType
<1> QED BY <1>1, <1>2 DEF Traced

LEMMA CacheTypeStutter == ASSUME CacheType, UNCHANGED cacheVars PROVE CacheType'
BY DEF CacheType, cacheVars

LEMMA MmuTypeStutter == ASSUME MmuType, UNCHANGED mmuVars PROVE MmuType'
BY DEF MmuType, mmuVars

(* The dispatcher's own steps *)
LEMMA EngineType ==
  ASSUME MmuType, CacheType, PlaceType, Engine
  PROVE  MmuType' /\ CacheType' /\ PlaceType'
<1>1. UNCHANGED mmuVars /\ loc \in Logical
  BY DEF Engine, BridgeEnter, EnterNormal, EnterNative, EnterMiss, EnterCheck, ExecuteNormal,
         PlaceType, ControlType
<1>2. AtEntry => pcp \in Frames /\ pcp # Fault
  BY MmuDispatchAssumption DEF AtEntry, PlaceType
<1>3. ASSUME AtEntry, CacheMiss
      PROVE  CacheType' /\ PlaceType'
  <2>1. CASE Go("normal", loc, Fault) /\ UNCHANGED cacheVars
    BY <1>1, <2>1, GoType, CacheTypeStutter
  <2>2. ASSUME NEW b \in Found(blk, pcp, loc), Raise(Promoted(b, blk[b].st), b),
               Go("poll", loc, pcp)
        PROVE  CacheType' /\ PlaceType'
    BY <1>1, <1>2, <1>3, <2>2, GoType, FoundType
  <2> QED BY <1>3, <2>1, <2>2 DEF CacheMiss
<1>4. CASE BridgeEnter
  <2>1. PICK v \in avail[loc] :
          \/ v = Fault /\ BusError /\ UNCHANGED cacheVars
          \/ /\ v # Fault
             /\ Go("loop", loc, v)
             /\ \/ \E b \in Found(blk, v, loc) : Raise(Promoted(b, blk[b].st), b)
                \/ /\ tag' = [tag EXCEPT ![LineOf[v]] = "execute_normal"]
                   /\ UNCHANGED <<blk, head>>
    BY <1>4 DEF BridgeEnter
  <2>2. v \in Frames \cup {Fault}
    BY <1>1, AnswerType
  <2>3. PlaceType'
    BY <1>1, <2>1, <2>2, GoType, BusErrorType
  <2>4. ASSUME tag' = [tag EXCEPT ![LineOf[v]] = "execute_normal"], UNCHANGED <<blk, head>>
        PROVE  CacheType'
    BY <2>4 DEF CacheType
  <2>5. CacheType'
    BY <2>1, <2>4, FoundType, CacheTypeStutter
  <2> QED BY <1>1, <2>3, <2>5, MmuTypeStutter
<1>5. CASE EnterNormal
  BY <1>1, <1>5, GoType, CacheTypeStutter, MmuTypeStutter DEF EnterNormal
<1>6. CASE EnterNative
  BY <1>1, <1>6, RunType, CacheTypeStutter, MmuTypeStutter DEF EnterNative
<1>7. CASE EnterMiss
  BY <1>1, <1>3, <1>7, MmuTypeStutter DEF EnterMiss
<1>8. CASE EnterCheck
  <2>1. AtEntry
    BY <1>8 DEF EnterCheck
  <2>2. ASSUME NEW b \in Found(blk, pcp, loc),
               \/ Raise(Promoted(b, "ACTIVE"), b) /\ Go("poll", loc, pcp)
               \/ Raise(Promoted(b, "INVALID"), b) /\ Go("normal", loc, Fault)
               \/ blk' = Promoted(b, blk[b].st) /\ UNCHANGED <<head, tag>> /\ Go("poll", loc, pcp)
        PROVE  CacheType' /\ PlaceType'
    <3>1. CacheType'
      BY <2>2, FoundType DEF States
    <3> QED BY <1>1, <1>2, <2>1, <2>2, <3>1, GoType
  <2> QED BY <1>1, <1>3, <1>8, <2>1, <2>2, MmuTypeStutter DEF EnterCheck
<1>9. CASE ExecuteNormal
  <2>1. PICK v \in avail[loc] :
          \/ v = Fault /\ BusError /\ UNCHANGED cacheVars
          \/ v # Fault /\ \E b \in Found(blk, v, loc) :
               CheckForCacheMiss(b, v) \/ RevalidateBlock(b, v)
          \/ v # Fault /\ BeginTrace(loc, v) /\ UNCHANGED cacheVars
    BY <1>9 DEF ExecuteNormal
  <2>2. v \in Frames \cup {Fault}
    BY <1>1, AnswerType
  <2>3. ASSUME v # Fault, NEW b \in Found(blk, v, loc),
               CheckForCacheMiss(b, v) \/ RevalidateBlock(b, v)
        PROVE  CacheType' /\ PlaceType'
    <3>1. b \in DOMAIN blk
      BY DEF Found, Matches
    <3>2. \/ \E st \in States \cup {blk[b].st} : Raise(Promoted(b, st), b)
          \/ blk' = Promoted(b, blk[b].st) /\ UNCHANGED <<head, tag>>
      BY <2>3 DEF CheckForCacheMiss, RevalidateBlock, States
    <3>3. Go("poll", loc, v) \/ BeginTrace(loc, v)
      BY <2>3 DEF CheckForCacheMiss, RevalidateBlock
    <3>4. CacheType'
      BY <3>2, FoundType
    <3> QED BY <1>1, <2>2, <2>3, <3>3, <3>4, GoType, BeginTraceType
  <2>4. ASSUME BusError, UNCHANGED cacheVars
        PROVE  CacheType' /\ PlaceType'
    BY <2>4, BusErrorType, CacheTypeStutter
  <2>5. ASSUME v # Fault, BeginTrace(loc, v), UNCHANGED cacheVars
        PROVE  CacheType' /\ PlaceType'
    BY <1>1, <2>2, <2>5, BeginTraceType, CacheTypeStutter
  <2> QED BY <1>1, <2>1, <2>3, <2>4, <2>5, MmuTypeStutter
<1> QED BY <1>4, <1>5, <1>6, <1>7, <1>8, <1>9 DEF Engine

(* The tracer's steps *)
LEMMA TracerType ==
  ASSUME MmuType, CacheType, PlaceType,
         TraceStep \/ TraceSetSr \/ TraceFlushCache \/ TraceMmuOp \/ TraceFault \/ TraceEnd
  PROVE  MmuType' /\ CacheType' /\ PlaceType'
<1>1. at = "trace" /\ loc \in Logical
  BY DEF TraceStep, TraceSetSr, TraceFlushCache, TraceMmuOp, TraceFault, TraceEnd, PlaceType,
         ControlType
<1>2. ASSUME MmuType', NEW x \in Logical, NEW v \in avail'[x], NEW jump \in BOOLEAN,
             NEW ends \in BOOLEAN, Traced(x, v, jump, ends)
      PROVE  PlaceType'
  <2>1. v \in Frames \cup {Fault}
    BY <1>2 DEF MmuType
  <2> QED BY <1>1, <1>2, <2>1, TracedType
<1>3. CASE TraceStep \/ TraceSetSr
  <2>1. UNCHANGED <<mmuVars, cacheVars>> /\ avail' = avail
    BY <1>3 DEF TraceStep, TraceSetSr, mmuVars
  <2>2. MmuType' /\ CacheType'
    BY <2>1, MmuTypeStutter, CacheTypeStutter
  <2>3. \E jump, ends \in BOOLEAN, x \in Logical : \E v \in avail'[x] : Traced(x, v, jump, ends)
    BY <1>3, <2>1 DEF TraceStep, TraceSetSr
  <2> QED BY <1>2, <2>2, <2>3
<1>4. CASE TraceFlushCache
  <2>1. UNCHANGED mmuVars /\ avail' = avail
    BY <1>4 DEF TraceFlushCache, mmuVars
  <2>2. MmuType' /\ CacheType'
    BY <1>4, <2>1, MmuTypeStutter, FlushType DEF TraceFlushCache
  <2>3. \E v \in avail'[loc] : Traced(loc, v, FALSE, TRUE)
    BY <1>4, <2>1 DEF TraceFlushCache
  <2> QED BY <1>1, <1>2, <2>2, <2>3
<1>5. CASE TraceMmuOp
  <2>1. MmuType' /\ CacheType'
    BY <1>5, ChangedType DEF TraceMmuOp
  <2>2. \E v \in avail'[loc] : Traced(loc, v, FALSE, TRUE)
    BY <1>5 DEF TraceMmuOp
  <2> QED BY <1>1, <1>2, <2>1, <2>2
<1>6. CASE TraceFault
  BY <1>6, BusErrorType, MmuTypeStutter, CacheTypeStutter DEF TraceFault
<1>7. CASE TraceEnd
  <2>1. PICK x \in Logical :
          /\ \/ CompileBlock(blk, head, tag, x)
             \/ CompileBlock(NoBlocks, NoHeads, NoTags, x)
             \/ blk' = NoBlocks /\ head' = NoHeads /\ tag' = NoTags
             \/ UNCHANGED cacheVars
          /\ \E v \in avail[x] :
               (v = Fault /\ BusError) \/ (v # Fault /\ Go("poll", x, v))
    BY <1>7 DEF TraceEnd
  <2>2. PICK v \in avail[x] : (v = Fault /\ BusError) \/ (v # Fault /\ Go("poll", x, v))
    BY <2>1
  <2>3. PlaceType'
    BY <2>2, AnswerType, GoType, BusErrorType
  <2>4. CompileBlock(blk, head, tag, x) => CacheType'
    BY <1>1, CompileType DEF CacheType
  <2>5. CompileBlock(NoBlocks, NoHeads, NoTags, x) => CacheType'
    BY <1>1, EmptyType, CompileType
  <2>6. blk' = NoBlocks /\ head' = NoHeads /\ tag' = NoTags => CacheType'
    BY EmptyType DEF CacheType
  <2>7. CacheType'
    BY <2>1, <2>4, <2>5, <2>6, CacheTypeStutter
  <2> QED BY <1>7, <2>3, <2>7, MmuTypeStutter DEF TraceEnd
<1> QED BY <1>3, <1>4, <1>5, <1>6, <1>7

(* What native code, the loop and the guest do *)
LEMMA OthersType ==
  ASSUME MmuType, CacheType, PlaceType,
         \/ Interrupt \/ LeaveLoop \/ NativeEnd \/ NativeNothing \/ NativeFault \/ NativeFlush
         \/ GuestStore \/ BlockNeedRecompile
  PROVE  MmuType' /\ CacheType' /\ PlaceType'
<1>1. loc \in Logical /\ segs \subseteq Seg
  BY DEF PlaceType, ControlType
<1>2. ASSUME UNCHANGED <<mmuVars, cacheVars>>, PlaceType'
      PROVE  MmuType' /\ CacheType' /\ PlaceType'
  BY <1>2, MmuTypeStutter, CacheTypeStutter
<1>3. CASE Interrupt
  <2>1. PICK x \in Vectors : \E v \in avail[x] :
          \/ v = Fault /\ BusError
          \/ v # Fault /\ Go("loop", x, v)
          \/ v # Fault /\ Go("ready", x, Fault)
    BY <1>3 DEF Interrupt
  <2>2. x \in Logical
    BY VectorsLogical
  <2>3. PlaceType'
    BY <2>1, <2>2, AnswerType, GoType, BusErrorType
  <2> QED BY <1>2, <1>3, <2>3 DEF Interrupt
<1>4. CASE LeaveLoop
  BY <1>1, <1>2, <1>4, GoType DEF LeaveLoop
<1>5. CASE NativeEnd
  <2>1. PICK x \in Logical : Successor(x, avail)
    BY <1>5 DEF NativeEnd
  <2>2. PICK v \in avail[x] :
          \/ v = Fault /\ BusError
          \/ v # Fault /\ Go("poll", x, v)
          \/ v # Fault /\ Go("normal", x, Fault)
          \/ v # Fault /\ FastHit(x, v) /\ Run(head[LineOf[v]], x)
    BY <2>1 DEF Successor
  <2>3. v \in Frames \cup {Fault}
    BY AnswerType
  <2>4. ASSUME v # Fault, FastHit(x, v), Run(head[LineOf[v]], x)
        PROVE  PlaceType'
    <3>1. LineOf[v] \in Lines
      BY <2>3, <2>4 DEF Lines
    <3>2. head[LineOf[v]] \in DOMAIN blk
      BY <2>4, <3>1 DEF FastHit, CacheType
    <3> QED BY <2>4, <3>2, RunType
  <2>5. PlaceType'
    BY <2>2, <2>3, <2>4, GoType, BusErrorType
  <2> QED BY <1>2, <1>5, <2>5 DEF NativeEnd
<1>6. CASE NativeNothing
  <2>1. PICK s \in segs : Go("poll", s.at, s.frame)
    BY <1>6 DEF NativeNothing
  <2>2. s.at \in Logical /\ s.frame \in Frames /\ s.frame # Fault
    BY <1>1, MmuDispatchAssumption DEF Seg
  <2>3. PlaceType'
    BY <2>1, <2>2, GoType
  <2> QED BY <1>2, <1>6, <2>3 DEF NativeNothing
<1>7. CASE NativeFault
  BY <1>2, <1>7, BusErrorType DEF NativeFault
<1>8. CASE NativeFlush
  <2>1. MmuType' /\ CacheType'
    BY <1>8, ChangedType, FlushType, MmuTypeStutter DEF NativeFlush
  <2>2. PICK v \in avail'[loc] :
          \/ v = Fault /\ BusError
          \/ v # Fault /\ (Go("poll", loc, v) \/ Go("normal", loc, Fault))
    BY <1>8 DEF NativeFlush
  <2>3. v \in Frames \cup {Fault}
    BY <1>1, <2>1 DEF MmuType
  <2> QED BY <1>1, <2>1, <2>2, <2>3, GoType, BusErrorType
<1>9. CASE GuestStore
  <2> PICK x \in Logical : \E v \in May[x] :
          table' = [table EXCEPT ![x] = v] /\ avail' = [avail EXCEPT ![x] = @ \cup {v}]
    BY <1>9 DEF GuestStore
  <2>1. PICK v \in May[x] :
          table' = [table EXCEPT ![x] = v] /\ avail' = [avail EXCEPT ![x] = @ \cup {v}]
    OBVIOUS
  <2>2. v \in Frames \cup {Fault}
    BY MmuDispatchAssumption
  <2>3. MmuType'
    BY <1>9, <2>1, <2>2 DEF GuestStore, MmuType
  <2>4. CacheType'
    BY <1>9, CacheTypeStutter DEF GuestStore
  <2>5. PlaceType'
    BY <1>9 DEF GuestStore, PlaceType, ControlType, traceVars
  <2> QED BY <2>3, <2>4, <2>5
<1>10. CASE BlockNeedRecompile
  <2>1. PICK b \in DOMAIN blk :
          /\ blk' = [blk EXCEPT ![b].st = "INVALID"]
          /\ tag' = [l \in Lines |-> IF head[l] = b THEN "execute_normal" ELSE tag[l]]
    BY <1>10 DEF BlockNeedRecompile
  <2>2. DOMAIN blk' = DOMAIN blk /\ blk' \in [DOMAIN blk -> Block]
    BY <2>1 DEF CacheType, Block
  <2>3. CacheType'
    BY <1>10, <2>1, <2>2 DEF BlockNeedRecompile, CacheType
  <2>4. PlaceType'
    BY <1>10 DEF BlockNeedRecompile, PlaceType, ControlType, traceVars
  <2> QED BY <1>10, <2>3, <2>4, MmuTypeStutter DEF BlockNeedRecompile
<1> QED BY <1>3, <1>4, <1>5, <1>6, <1>7, <1>8, <1>9, <1>10

(* While the blocks are found, checked, promoted and compiled, the          *)
(* variables keep their types: no tag names a block that has been freed,    *)
(* and the loop never enters it without a translated pc_p.  This holds      *)
(* whether or not frames are shared or a trace loses a page.                *)
THEOREM TypeCorrect == Spec => []TypeOK
<1>1. Init => TypeOK
  <2> SUFFICES ASSUME Init PROVE TypeOK
    OBVIOUS
  <2>1. MmuType
    <3>1. table \in [Logical -> Frames \cup {Fault}] /\ 1 \in 1 .. MaxGen
      BY MmuDispatchAssumption DEF Init
    <3> QED BY <3>1 DEF Init, MmuType
  <2>2. PlaceType
    BY VectorsLogical DEF Init, PlaceType, ControlType
  <2>3. DOMAIN blk = {} /\ blk \in [DOMAIN blk -> Block]
    BY DEF Init
  <2>4. CacheType
    BY <2>3 DEF Init, CacheType
  <2> QED BY <2>1, <2>2, <2>4, TypeParts
<1>2. TypeOK /\ [Next]_vars => TypeOK'
  <2> SUFFICES ASSUME TypeOK, [Next]_vars PROVE TypeOK'
    OBVIOUS
  <2>1. MmuType /\ CacheType /\ PlaceType
    BY TypeParts
  <2>2. CASE Next
    <3>1. MmuType' /\ CacheType' /\ PlaceType'
      BY <2>1, <2>2, EngineType, TracerType, OthersType DEF Next
    <3> QED BY <3>1 DEF TypeOK, MmuType, CacheType, PlaceType, ControlType
  <2>3. CASE UNCHANGED vars
    BY <2>3 DEF TypeOK, vars, mmuVars, cacheVars, traceVars
  <2> QED BY <2>2, <2>3
<1> QED BY <1>1, <1>2, PTL DEF Spec

-----------------------------------------------------------------------------
(* A step to any place but a trace or native code keeps the control part *)
LEMMA GoOK ==
  ASSUME NEW a \in {"bridge", "loop", "poll", "normal", "ready"}, NEW x \in Logical,
         NEW v \in Frames \cup {Fault}, Go(a, x, v),
         a \in {"loop", "poll"} => v \in Frames /\ v \in avail'[x]
  PROVE  ControlOK'
BY DEF Go, ControlOK, ControlType, NoSkippedFault

LEMMA BusErrorOK == ASSUME BusError PROVE ControlOK'
<1>1. PICK x \in Vectors : Go("bridge", x, Fault)
  BY DEF BusError
<1> QED BY <1>1, GoOK, VectorsLogical

(* A block whose code is entered at loc has the location of its entry *)
LEMMA EntryIsLoc ==
  ASSUME NoAlias, MmuOK, NEW B \in Block, NEW e \in Seg, Entry(B, e),
         NEW x \in Logical, B.pcp \in avail[x]
  PROVE  e.at = x
<1>1. e.at \in Logical /\ e.frame \in Frames
  BY DEF Seg
<1>2. e.frame \in May[e.at] /\ e.frame \in May[x]
  BY DEF Entry, MmuOK
<1> QED BY <1>1, <1>2 DEF NoAlias

LEMMA RunOK ==
  ASSUME NoAlias, MmuOK, CacheType, CacheOK, NEW b \in DOMAIN blk, NEW x \in Logical,
         blk[b].pcp \in avail[x], blk[b].st = "ACTIVE", Run(b, x), UNCHANGED mmuVars
  PROVE  ControlOK'
<1>1. BlockOK(blk[b]) /\ blk[b] \in Block
  BY DEF CacheOK, CacheType
<1>2. PICK e \in Seg : Entry(blk[b], e)
  BY <1>1 DEF BlockOK
<1>3. e.at = x
  BY <1>1, <1>2, EntryIsLoc
<1>4. Current(blk[b])
  BY <1>1 DEF BlockOK
<1>5. \A s \in blk[b].segs : s.at[1] = x[1] /\ s.frame \in avail[s.at]
  BY <1>2, <1>3, <1>4 DEF Entry, Current
<1>6. blk[b].segs \subseteq Seg
  BY <1>1 DEF Block
<1> QED BY <1>5, <1>6 DEF Run, ControlOK, ControlType, NoSkippedFault, mmuVars

LEMMA BeginTraceOK ==
  ASSUME NEW x \in Logical, NEW v \in Frames, v \in avail[x], BeginTrace(x, v),
         UNCHANGED mmuVars
  PROVE  ControlOK'
<1>1. [at |-> x, frame |-> v] \in Seg
  BY DEF Seg
<1>2. ControlType'
  BY <1>1 DEF BeginTrace, ControlType
<1>3. TraceOK'
  BY <1>1 DEF BeginTrace, TraceOK, mmuVars
<1> QED BY <1>2, <1>3 DEF BeginTrace, ControlOK, NoSkippedFault

-----------------------------------------------------------------------------
(* Steps that change the blocks *)

LEMMA FoundIn ==
  ASSUME NEW v, NEW x, NEW b \in Found(blk, v, x)
  PROVE  /\ b \in DOMAIN blk /\ blk[b].pcp = v /\ blk[b].key = x
         /\ blk[b].gen = generation \/ blk[b].single
BY DEF Found, Matches

(* The block that was found may bear the current generation *)
LEMMA PromotedOK ==
  ASSUME NoAlias, MmuOK, CacheType, CacheOK, NEW x \in Logical, NEW v \in Frames,
         v \in avail[x], NEW b \in Found(blk, v, x),
         NEW st \in {"INVALID", "ACTIVE", "NEED_CHECK"},
         blk' = Promoted(b, st), UNCHANGED mmuVars
  PROVE  /\ DOMAIN blk' = DOMAIN blk /\ blk' \in [DOMAIN blk -> Block]
         /\ \A i \in DOMAIN blk : blk'[i].pcp = blk[i].pcp /\ (i # b => blk'[i] = blk[i])
         /\ blk'[b].st = st
         /\ CacheOK'
<1>1. b \in DOMAIN blk /\ blk[b].pcp = v /\ (blk[b].gen = generation \/ blk[b].single)
  BY FoundIn
<1>2. blk[b] \in Block /\ BlockOK(blk[b])
  BY <1>1 DEF CacheType, CacheOK
<1> DEFINE B == [blk[b] EXCEPT !.gen = generation, !.st = st]
<1>3. blk' = [blk EXCEPT ![b] = B]
  BY <1>1 DEF Promoted, CacheType
<1>4. B \in Block /\ B.pcp = blk[b].pcp /\ B.segs = blk[b].segs
      /\ B.single = blk[b].single /\ B.gen = generation /\ B.st = st
  BY <1>2 DEF Block, MmuOK
<1> HIDE DEF B
<1>5. PICK e \in Seg : Entry(blk[b], e)
  BY <1>2 DEF BlockOK
<1>6. Entry(B, e)
  BY <1>4, <1>5 DEF Entry
<1>7. e.at = x
  BY <1>1, <1>2, <1>5, EntryIsLoc
<1>8. Current(B)
  BY <1>1, <1>2, <1>4, <1>5, <1>7 DEF Current, BlockOK, Entry
<1>9. BlockOK(B)
  BY <1>4, <1>6, <1>8 DEF BlockOK, MmuOK
<1>10. \A i \in DOMAIN blk : BlockOK(blk'[i])
  BY <1>1, <1>3, <1>9 DEF CacheOK, CacheType
<1>11. DOMAIN blk' = DOMAIN blk /\ blk' \in [DOMAIN blk -> Block]
  BY <1>1, <1>3, <1>4 DEF CacheType
<1>12. CacheOK'
  BY <1>10, <1>11 DEF CacheOK, BlockOK, Entry, Current, mmuVars
<1> QED BY <1>1, <1>3, <1>4, <1>11, <1>12 DEF CacheType

LEMMA RaiseOK ==
  ASSUME NoAlias, MmuOK, CacheType, CacheOK, LinesOK, NEW x \in Logical,
         NEW v \in Frames, v \in avail[x], NEW b \in Found(blk, v, x),
         NEW st \in {"INVALID", "ACTIVE", "NEED_CHECK"},
         Raise(Promoted(b, st), b), UNCHANGED mmuVars
  PROVE  /\ CacheType' /\ CacheOK' /\ LinesOK'
         /\ head'[LineOf[v]] = b /\ blk'[b].st = st
         /\ tag'[LineOf[v]] = HandlerToUse(blk', b)
<1>1. b \in DOMAIN blk /\ blk[b].pcp = v /\ LineOf[v] \in Lines
  BY FoundIn DEF Lines
<1>2. blk' = Promoted(b, st)
  BY DEF Raise
<1>3. /\ DOMAIN blk' = DOMAIN blk /\ blk' \in [DOMAIN blk -> Block]
      /\ \A i \in DOMAIN blk : blk'[i].pcp = blk[i].pcp /\ (i # b => blk'[i] = blk[i])
      /\ blk'[b].st = st
      /\ CacheOK'
  BY <1>2, PromotedOK
<1>4. /\ head' = [head EXCEPT ![LineOf[v]] = b]
      /\ tag' = [tag EXCEPT ![LineOf[v]] = HandlerToUse(blk', b)]
  BY <1>1, <1>2, <1>3 DEF Raise
<1>5. HandlerToUse(blk', b) \in {"execute_normal", "check_checksum", b}
  BY DEF HandlerToUse
<1>6. CacheType'
  BY <1>1, <1>3, <1>4, <1>5 DEF CacheType
<1>7. /\ HandlerToUse(blk', b) \in DOMAIN blk => HandlerToUse(blk', b) = b /\ st = "ACTIVE"
      /\ HandlerToUse(blk', b) = "check_checksum" => st = "NEED_CHECK"
  BY <1>1, <1>3, MmuDispatchAssumption DEF HandlerToUse, CacheType
<1>8. ASSUME NEW l \in Lines
      PROVE  /\ tag'[l] \in DOMAIN blk' => tag'[l] = head'[l] /\ blk'[head'[l]].st = "ACTIVE"
             /\ tag'[l] = "check_checksum" =>
                  head'[l] \in DOMAIN blk' /\ blk'[head'[l]].st = "NEED_CHECK"
             /\ head'[l] \in DOMAIN blk' => LineOf[blk'[head'[l]].pcp] = l
  <2>1. CASE l = LineOf[v]
    BY <2>1, <1>1, <1>3, <1>4, <1>7 DEF CacheType
  <2>2. CASE l # LineOf[v]
    <3>1. tag'[l] = tag[l] /\ head'[l] = head[l]
      BY <2>2, <1>4 DEF CacheType
    <3>2. head[l] # b
      BY <2>2, <1>1 DEF LinesOK
    <3> QED BY <3>1, <3>2, <1>3 DEF LinesOK
  <2> QED BY <2>1, <2>2
<1>9. LinesOK'
  BY <1>8 DEF LinesOK
<1> QED BY <1>1, <1>3, <1>4, <1>6, <1>9 DEF CacheType

(* Marking the block without moving it, where its status stays *)
LEMMA MarkOK ==
  ASSUME NoAlias, MmuOK, CacheType, CacheOK, LinesOK, NEW x \in Logical,
         NEW v \in Frames, v \in avail[x], NEW b \in Found(blk, v, x),
         blk' = Promoted(b, blk[b].st), UNCHANGED <<mmuVars, head, tag>>
  PROVE  CacheType' /\ CacheOK' /\ LinesOK'
<1>1. b \in DOMAIN blk /\ blk[b].st \in {"INVALID", "ACTIVE", "NEED_CHECK"}
  BY FoundIn DEF CacheType, Block
<1>2. /\ DOMAIN blk' = DOMAIN blk /\ blk' \in [DOMAIN blk -> Block]
      /\ \A i \in DOMAIN blk : blk'[i].pcp = blk[i].pcp /\ (i # b => blk'[i] = blk[i])
      /\ blk'[b].st = blk[b].st
      /\ CacheOK'
  BY <1>1, PromotedOK
<1>3. CacheType'
  BY <1>2 DEF CacheType
<1>4. LinesOK'
  BY <1>1, <1>2 DEF LinesOK
<1> QED BY <1>2, <1>3, <1>4

(* After a lazy flush no block is ACTIVE and no line enters a block *)
LEMMA FlushTypes ==
  ASSUME CacheType, LinesOK, FlushIcacheLazy
  PROVE  /\ CacheType' /\ LinesOK'
         /\ DOMAIN blk' = DOMAIN blk
         /\ \A b \in DOMAIN blk :
              /\ blk'[b].segs = blk[b].segs /\ blk'[b].pcp = blk[b].pcp
              /\ blk'[b].single = blk[b].single /\ blk'[b].gen = blk[b].gen
              /\ blk'[b].st # "ACTIVE"
<1>1. /\ DOMAIN blk' = DOMAIN blk
      /\ \A b \in DOMAIN blk : blk'[b] = [blk[b] EXCEPT !.st = IF @ = "ACTIVE" THEN "NEED_CHECK" ELSE @]
      /\ blk' = [b \in DOMAIN blk |-> blk'[b]]
  BY DEF FlushIcacheLazy
<1>2. ASSUME NEW b \in DOMAIN blk
      PROVE  /\ blk'[b] \in Block
             /\ blk'[b].segs = blk[b].segs /\ blk'[b].pcp = blk[b].pcp
             /\ blk'[b].single = blk[b].single /\ blk'[b].gen = blk[b].gen
             /\ blk'[b].st # "ACTIVE"
             /\ blk[b].st \in {"ACTIVE", "NEED_CHECK"} => blk'[b].st = "NEED_CHECK"
  BY <1>1 DEF CacheType, Block
<1>3. blk' \in [DOMAIN blk -> Block]
  BY <1>1, <1>2
<1>4. ASSUME NEW l \in Lines
      PROVE  /\ tag'[l] \in {"execute_normal", "check_checksum"}
             /\ tag'[l] = "check_checksum" =>
                  head[l] \in DOMAIN blk /\ blk[head[l]].st \in {"ACTIVE", "NEED_CHECK"}
  <2>1. tag'[l] = IF head[l] = None \/ blk[head[l]].st # "ACTIVE" THEN tag[l]
                  ELSE "check_checksum"
    BY DEF FlushIcacheLazy
  <2>2. None \notin DOMAIN blk
    BY MmuDispatchAssumption DEF CacheType
  <2> QED BY <2>1, <2>2 DEF LinesOK, CacheType
<1>5. tag' \in [Lines -> {"execute_normal", "check_checksum"}]
  BY <1>4 DEF FlushIcacheLazy
<1>6. head' = head
  BY DEF FlushIcacheLazy
<1>7. CacheType'
  BY <1>1, <1>3, <1>5, <1>6 DEF CacheType
<1>8. \A l \in Lines : tag'[l] \notin DOMAIN blk
  BY <1>5, MmuDispatchAssumption DEF CacheType
<1>9. LinesOK'
  BY <1>1, <1>2, <1>4, <1>6, <1>8 DEF LinesOK
<1> QED BY <1>1, <1>2, <1>7, <1>9

LEMMA FlushOK ==
  ASSUME CacheType, LinesOK, CacheOK, FlushIcacheLazy, UNCHANGED mmuVars
  PROVE  CacheType' /\ LinesOK' /\ CacheOK'
<1>1. ASSUME NEW b \in DOMAIN blk
      PROVE  BlockOK(blk[b])'
  BY FlushTypes DEF CacheOK, BlockOK, Entry, Current, mmuVars
<1> QED BY <1>1, FlushTypes DEF CacheOK

LEMMA TranslationChangedOK ==
  ASSUME MmuOK, CacheType, LinesOK, CacheOK, NEW S, TranslationChanged(S)
  PROVE  MmuOK' /\ CacheType' /\ LinesOK' /\ CacheOK'
<1>1. FlushIcacheLazy /\ generation' = generation + 1 /\ table' = table
  BY DEF TranslationChanged
<1>2. MmuOK'
  BY MmuDispatchAssumption DEF MmuOK, TranslationChanged
<1>3. ASSUME NEW b \in DOMAIN blk
      PROVE  BlockOK(blk[b])'
  <2>1. BlockOK(blk[b]) /\ blk[b] \in Block
    BY DEF CacheOK, CacheType
  <2>2. blk[b].gen \in Int /\ blk[b].gen < generation'
    BY <1>1, <2>1 DEF BlockOK, Block, MmuOK
  <2> QED BY <1>1, <2>1, <2>2, FlushTypes DEF BlockOK, Entry, MmuOK
<1>4. CacheOK'
  BY <1>1, <1>3, FlushTypes DEF CacheOK
<1> QED BY <1>1, <1>2, <1>4, FlushTypes

(* The compiled trace is a block of the current generation *)
LEMMA CompileOK ==
  ASSUME MmuOK, ControlType, TraceOK, NEW x \in Logical,
         NEW bs, NEW hs, NEW ts,
         DOMAIN bs \subseteq Ids, bs \in [DOMAIN bs -> Block],
         hs \in [Lines -> DOMAIN bs \cup {None}],
         ts \in [Lines -> {"execute_normal", "check_checksum"} \cup DOMAIN bs],
         \A b \in DOMAIN bs : BlockOK(bs[b]),
         \A l \in Lines :
           /\ ts[l] \in DOMAIN bs => ts[l] = hs[l] /\ bs[hs[l]].st = "ACTIVE"
           /\ ts[l] = "check_checksum" =>
                hs[l] \in DOMAIN bs /\ bs[hs[l]].st = "NEED_CHECK"
           /\ hs[l] \in DOMAIN bs => LineOf[bs[hs[l]].pcp] = l,
         CompileBlock(bs, hs, ts, x), UNCHANGED mmuVars
  PROVE  CacheType' /\ CacheOK' /\ LinesOK'
<1> DEFINE C == Compiled(x)
           l0 == LineOf[leader.frame]
<1>1. C \in Block
  BY DEF Compiled, Block, TraceOK, ControlType, MmuOK, Seg, Logical
<1>2. C.pcp = leader.frame /\ C.gen = generation /\ C.single = single /\ C.segs = segs
      /\ C.st = "ACTIVE"
  BY DEF Compiled
<1>3. Entry(C, leader)
  BY <1>2 DEF Entry, TraceOK, MmuOK, Seg
<1>4. Current(C)
  BY <1>2 DEF Current, TraceOK
<1>5. BlockOK(C)
  BY <1>2, <1>3, <1>4 DEF BlockOK, TraceOK, MmuOK
<1>6. PICK b \in BlockFor(bs, x) :
        /\ blk' = [i \in DOMAIN bs \cup {b} |-> IF i = b THEN C ELSE bs[i]]
        /\ head' = [hs EXCEPT ![l0] = b]
        /\ tag' = [ts EXCEPT ![l0] = b]
  BY DEF CompileBlock
<1>7. b \in Ids /\ (b \in DOMAIN bs => bs[b].pcp = leader.frame)
  BY <1>6 DEF BlockFor, Found, Matches
<1>8. l0 \in Lines
  BY DEF Lines, TraceOK, Seg
<1> HIDE DEF C
<1>9. /\ DOMAIN blk' = DOMAIN bs \cup {b} /\ blk'[b] = C
      /\ \A i \in DOMAIN bs : i # b => blk'[i] = bs[i]
  BY <1>6
<1>10. CacheType'
  BY <1>1, <1>6, <1>7, <1>8, <1>9 DEF CacheType
<1>11. \A i \in DOMAIN blk' : BlockOK(blk'[i])
  BY <1>5, <1>9
<1>12. CacheOK'
  BY <1>11 DEF CacheOK, BlockOK, Entry, Current, mmuVars
<1>13. ASSUME NEW l \in Lines
       PROVE  /\ tag'[l] \in DOMAIN blk' => tag'[l] = head'[l] /\ blk'[head'[l]].st = "ACTIVE"
              /\ tag'[l] = "check_checksum" =>
                   head'[l] \in DOMAIN blk' /\ blk'[head'[l]].st = "NEED_CHECK"
              /\ head'[l] \in DOMAIN blk' => LineOf[blk'[head'[l]].pcp] = l
  <2>1. CASE l = l0
    BY <2>1, <1>2, <1>6, <1>7, <1>8, <1>9, MmuDispatchAssumption
  <2>2. CASE l # l0
    <3>1. tag'[l] = ts[l] /\ head'[l] = hs[l]
      BY <2>2, <1>6
    <3>2. hs[l] # b
      BY <2>2, <1>7, MmuDispatchAssumption
    <3>3. ts[l] # b
      BY <2>2, <1>7, <3>2, MmuDispatchAssumption
    <3> QED BY <3>1, <3>2, <3>3, <1>9
  <2> QED BY <2>1, <2>2
<1> QED BY <1>10, <1>12, <1>13 DEF LinesOK

-----------------------------------------------------------------------------
(* One lemma for each action *)

CacheInv == CacheType /\ CacheOK /\ LinesOK

LEMMA CacheStutter ==
  ASSUME CacheInv, UNCHANGED <<mmuVars, cacheVars>>
  PROVE  CacheInv'
BY DEF CacheInv, CacheType, CacheOK, LinesOK, BlockOK, Entry, Current, mmuVars, cacheVars

LEMMA MmuStutter ==
  ASSUME MmuOK, UNCHANGED mmuVars
  PROVE  MmuOK'
BY DEF MmuOK, mmuVars

LEMMA Answers ==
  ASSUME MmuOK, NEW x \in Logical, NEW v \in avail[x], v # Fault
  PROVE  v \in Frames
BY DEF MmuOK

LEMMA StepBridgeEnter ==
  ASSUME NoAlias, Inv, BridgeEnter
  PROVE  Inv'
<1> USE DEF Inv
<1>1. PICK v \in avail[loc] :
        \/ v = Fault /\ BusError /\ UNCHANGED cacheVars
        \/ /\ v # Fault
           /\ Go("loop", loc, v)
           /\ \/ \E b \in Found(blk, v, loc) : Raise(Promoted(b, blk[b].st), b)
              \/ /\ Found(blk, v, loc) = {}
                 /\ tag' = [tag EXCEPT ![LineOf[v]] = "execute_normal"]
                 /\ UNCHANGED <<blk, head>>
  BY DEF BridgeEnter
<1>2. UNCHANGED mmuVars /\ loc \in Logical
  BY DEF BridgeEnter, ControlOK, ControlType
<1>3. MmuOK'
  BY <1>2, MmuStutter
<1>4. CASE v = Fault /\ BusError /\ UNCHANGED cacheVars
  BY <1>2, <1>3, <1>4, BusErrorOK, CacheStutter DEF CacheInv
<1>5. CASE v # Fault /\ Go("loop", loc, v)
  <2>1. v \in Frames /\ avail' = avail
    BY <1>2, <1>5, Answers DEF mmuVars
  <2>2. ControlOK'
    BY <1>2, <1>5, <2>1, GoOK
  <2>3. ASSUME NEW b \in Found(blk, v, loc), Raise(Promoted(b, blk[b].st), b)
        PROVE  CacheInv'
    <3>1. blk[b].st \in {"INVALID", "ACTIVE", "NEED_CHECK"}
      BY FoundIn DEF CacheType, Block
    <3> QED BY <1>2, <2>1, <2>3, <3>1, RaiseOK DEF CacheInv
  <2>4. ASSUME tag' = [tag EXCEPT ![LineOf[v]] = "execute_normal"], UNCHANGED <<blk, head>>
        PROVE  CacheInv'
    <3>1. CacheType'
      BY <2>4 DEF CacheType
    <3>2. CacheOK'
      BY <1>2, <2>4 DEF CacheOK, BlockOK, Entry, Current, mmuVars
    <3>3. "execute_normal" \notin DOMAIN blk
      BY MmuDispatchAssumption DEF CacheType
    <3>4. LinesOK'
      BY <2>4, <3>3 DEF LinesOK, CacheType
    <3> QED BY <3>1, <3>2, <3>4 DEF CacheInv
  <2> QED BY <1>1, <1>3, <1>5, <2>2, <2>3, <2>4 DEF CacheInv
<1> QED BY <1>1, <1>4, <1>5

LEMMA CacheMissOK ==
  ASSUME NoAlias, Inv, AtEntry, CacheMiss, UNCHANGED mmuVars
  PROVE  Inv'
<1> USE DEF Inv
<1>1. loc \in Logical /\ pcp \in Frames /\ pcp \in avail[loc] /\ avail' = avail
  BY DEF AtEntry, ControlOK, ControlType, mmuVars
<1>2. MmuOK'
  BY MmuStutter
<1>3. CASE Go("normal", loc, Fault) /\ UNCHANGED cacheVars
  <2>1. ControlOK'
    BY <1>1, <1>3, GoOK
  <2> QED BY <1>2, <1>3, <2>1, CacheStutter DEF CacheInv
<1>4. ASSUME NEW b \in Found(blk, pcp, loc), Raise(Promoted(b, blk[b].st), b),
             Go("poll", loc, pcp)
      PROVE  Inv'
  <2>1. blk[b].st \in {"INVALID", "ACTIVE", "NEED_CHECK"}
    BY FoundIn DEF CacheType, Block
  <2>2. CacheInv'
    BY <1>1, <1>4, <2>1, RaiseOK DEF CacheInv
  <2>3. ControlOK'
    BY <1>1, <1>4, GoOK
  <2> QED BY <1>2, <2>2, <2>3 DEF CacheInv
<1> QED BY <1>3, <1>4 DEF CacheMiss

LEMMA StepEnter ==
  ASSUME NoAlias, Inv, EnterNormal \/ EnterNative \/ EnterMiss
  PROVE  Inv'
<1> USE DEF Inv
<1>1. CASE EnterMiss
  BY <1>1, CacheMissOK DEF EnterMiss
<1>2. CASE EnterNormal \/ EnterNative
  <2>1. UNCHANGED <<mmuVars, cacheVars>> /\ AtEntry
    BY <1>2 DEF EnterNormal, EnterNative
  <2>2. loc \in Logical /\ pcp \in Frames /\ pcp \in avail[loc]
    BY <2>1 DEF AtEntry, ControlOK, ControlType
  <2>4. CASE EnterNative
    <3>1. Entered \in DOMAIN blk /\ blk[Entered].pcp = pcp /\ Run(Entered, loc)
      BY <2>4 DEF EnterNative
    <3>2. blk[Entered].st = "ACTIVE"
      BY <2>2, <3>1 DEF Entered, LinesOK, Lines
    <3>3. ControlOK'
      BY <2>1, <2>2, <3>1, <3>2, RunOK
    <3> QED BY <2>1, <3>3, MmuStutter, CacheStutter DEF CacheInv
  <2>5. ControlOK' => Inv'
    BY <2>1, MmuStutter, CacheStutter DEF CacheInv
  <2>6. CASE EnterNormal
    BY <2>2, <2>5, <2>6, GoOK DEF EnterNormal
  <2> QED BY <1>2, <2>4, <2>6
<1> QED BY <1>1, <1>2

LEMMA StepEnterCheck ==
  ASSUME NoAlias, Inv, EnterCheck
  PROVE  Inv'
<1> USE DEF Inv
<1>1. AtEntry /\ UNCHANGED mmuVars
  BY DEF EnterCheck
<1>2. loc \in Logical /\ pcp \in Frames /\ pcp \in avail[loc] /\ avail' = avail
  BY <1>1 DEF AtEntry, ControlOK, ControlType, mmuVars
<1>3. MmuOK'
  BY <1>1, MmuStutter
<1>4. CASE CacheMiss
  BY <1>1, <1>4, CacheMissOK
<1>5. ASSUME NEW b \in Found(blk, pcp, loc),
             NEW st \in {"INVALID", "ACTIVE", "NEED_CHECK"}, Raise(Promoted(b, st), b),
             Go("poll", loc, pcp) \/ Go("normal", loc, Fault)
      PROVE  Inv'
  <2>1. CacheInv'
    BY <1>1, <1>2, <1>5, RaiseOK DEF CacheInv
  <2>2. ControlOK'
    BY <1>2, <1>5, GoOK
  <2> QED BY <1>3, <2>1, <2>2 DEF CacheInv
<1>6. ASSUME NEW b \in Found(blk, pcp, loc), blk' = Promoted(b, blk[b].st),
             UNCHANGED <<head, tag>>, Go("poll", loc, pcp)
      PROVE  Inv'
  <2>1. CacheInv'
    BY <1>1, <1>2, <1>6, MarkOK DEF CacheInv
  <2>2. ControlOK'
    BY <1>2, <1>6, GoOK
  <2> QED BY <1>3, <2>1, <2>2 DEF CacheInv
<1> QED BY <1>4, <1>5, <1>6 DEF EnterCheck

LEMMA StepLoop ==
  ASSUME NoAlias, Inv, Interrupt \/ LeaveLoop
  PROVE  Inv'
<1> USE DEF Inv
<1>1. UNCHANGED <<mmuVars, cacheVars>> /\ loc \in Logical /\ avail' = avail
  BY DEF Interrupt, LeaveLoop, ControlOK, ControlType, mmuVars
<1>2. ControlOK' => Inv'
  BY <1>1, MmuStutter, CacheStutter DEF CacheInv
<1>3. CASE LeaveLoop
  BY <1>1, <1>2, <1>3, GoOK DEF LeaveLoop
<1>4. CASE Interrupt
  <2>1. PICK x \in Vectors : \E v \in avail[x] :
          \/ v = Fault /\ BusError
          \/ v # Fault /\ at = "poll" /\ Go("loop", x, v)
          \/ v # Fault /\ at = "normal" /\ Go("ready", x, Fault)
    BY <1>4 DEF Interrupt
  <2>2. x \in Logical
    BY VectorsLogical
  <2>3. PICK v \in avail[x] :
          \/ v = Fault /\ BusError
          \/ v # Fault /\ Go("loop", x, v)
          \/ v # Fault /\ Go("ready", x, Fault)
    BY <2>1
  <2>4. v # Fault => v \in Frames
    BY <2>2, Answers
  <2> QED BY <1>1, <1>2, <2>2, <2>3, <2>4, GoOK, BusErrorOK
<1> QED BY <1>3, <1>4

LEMMA StepExecuteNormal ==
  ASSUME NoAlias, Inv, ExecuteNormal
  PROVE  Inv'
<1> USE DEF Inv
<1>1. UNCHANGED mmuVars /\ loc \in Logical /\ avail' = avail
  BY DEF ExecuteNormal, ControlOK, ControlType, mmuVars
<1>2. MmuOK'
  BY <1>1, MmuStutter
<1>3. PICK v \in avail[loc] :
        \/ v = Fault /\ BusError /\ UNCHANGED cacheVars
        \/ v # Fault /\ \E b \in Found(blk, v, loc) :
             CheckForCacheMiss(b, v) \/ RevalidateBlock(b, v)
        \/ v # Fault /\ BeginTrace(loc, v) /\ UNCHANGED cacheVars
  BY DEF ExecuteNormal
<1>4. CASE v = Fault /\ BusError /\ UNCHANGED cacheVars
  BY <1>1, <1>2, <1>4, BusErrorOK, CacheStutter DEF CacheInv
<1>5. CASE v # Fault
  <2>1. v \in Frames
    BY <1>1, <1>5, Answers
  <2>2. CASE BeginTrace(loc, v) /\ UNCHANGED cacheVars
    BY <1>1, <1>2, <2>1, <2>2, BeginTraceOK, CacheStutter DEF CacheInv
  <2>3. ASSUME NEW b \in Found(blk, v, loc),
               CheckForCacheMiss(b, v) \/ RevalidateBlock(b, v)
        PROVE  Inv'
    <3>1. b \in DOMAIN blk /\ blk[b].st \in {"INVALID", "ACTIVE", "NEED_CHECK"}
      BY FoundIn DEF CacheType, Block
    <3>2. Go("poll", loc, v) \/ BeginTrace(loc, v)
      BY <2>3 DEF CheckForCacheMiss, RevalidateBlock
    <3>3. ControlOK'
      BY <1>1, <2>1, <3>2, GoOK, BeginTraceOK
    <3>4. \/ blk' = Promoted(b, blk[b].st) /\ UNCHANGED <<head, tag>>
          \/ \E st \in {"INVALID", "ACTIVE", "NEED_CHECK"} : Raise(Promoted(b, st), b)
      BY <2>3, <3>1 DEF CheckForCacheMiss, RevalidateBlock
    <3>5. CacheInv'
      BY <1>1, <2>1, <3>4, MarkOK, RaiseOK DEF CacheInv
    <3> QED BY <1>2, <3>3, <3>5 DEF CacheInv
  <2> QED BY <1>3, <1>5, <2>2, <2>3
<1> QED BY <1>3, <1>4, <1>5

(* A traced instruction keeps what is known of the trace, if the MMU still  *)
(* answers with the frames the trace has met                                *)
LEMMA TracedOK ==
  ASSUME ControlType, TraceOK, at = "trace", NEW x \in Logical, NEW v \in Frames \cup {Fault},
         NEW jump \in BOOLEAN, NEW ends \in BOOLEAN,
         avail' \in [Logical -> SUBSET (Frames \cup {Fault})], v \in avail'[x],
         \A s \in segs : s.frame \in avail'[s.at],
         ends \/ (x[1] = loc[1] /\ (x = loc \/ jump)),
         Traced(x, v, jump, ends)
  PROVE  ControlOK'
<1>1. CASE v = Fault /\ BusError
  BY <1>1, BusErrorOK
<1>2. CASE v # Fault /\ ~BusError
  <2> DEFINE n == [at |-> x, frame |-> v]
  <2>1. n \in Seg /\ n.at = x /\ n.frame = v
    BY <1>2 DEF Seg
  <2>2. /\ loc' = x /\ open' = (open /\ ~ends) /\ at' = "trace" /\ leader' = leader
        /\ segs' = IF open /\ ~ends THEN segs \cup {n} ELSE segs
        /\ single' = (single /\ ~jump /\ v = leader.frame) /\ pcp' = pcp
    BY <1>2 DEF Traced
  <2> HIDE DEF n
  <2>3. ControlType'
    BY <2>1, <2>2 DEF ControlType
  <2>4. leader' \in Seg /\ leader' \in segs'
    BY <2>2 DEF TraceOK
  <2>5. ASSUME NEW s \in segs'
        PROVE  s.at[1] = leader'.at[1] /\ s.frame \in avail'[s.at]
    <3>1. CASE s \in segs
      BY <2>2, <3>1 DEF TraceOK
    <3>2. CASE s = n /\ open /\ ~ends
      BY <2>1, <2>2, <3>2 DEF TraceOK
    <3> QED BY <2>2, <2>5, <3>1, <3>2
  <2>6. open' => loc'[1] = leader'.at[1]
    BY <2>2 DEF TraceOK
  <2>7. single' => segs' = {leader'} /\ (open' => loc' = leader'.at)
    <3> SUFFICES ASSUME single'
                 PROVE  segs' = {leader'} /\ (open' => loc' = leader'.at)
      OBVIOUS
    <3>1. single /\ ~jump /\ v = leader.frame /\ segs = {leader}
      BY <2>2 DEF TraceOK
    <3>2. CASE ~(open /\ ~ends)
      BY <2>2, <3>1, <3>2
    <3>3. CASE open /\ ~ends
      <4>1. x = leader.at
        BY <3>1, <3>3 DEF TraceOK
      <4>2. n = leader
        BY <3>1, <4>1 DEF n, TraceOK, Seg
      <4> QED BY <2>2, <3>1, <3>3, <4>1, <4>2
    <3> QED BY <3>2, <3>3
  <2>8. TraceOK'
    BY <2>4, <2>5, <2>6, <2>7 DEF TraceOK
  <2> QED BY <2>2, <2>3, <2>8 DEF ControlOK, NoSkippedFault
<1>3. CASE v # Fault /\ BusError
  BY <1>3, BusErrorOK
<1> QED BY <1>1, <1>2, <1>3 DEF Traced

LEMMA StepTrace ==
  ASSUME NoAlias, Inv, TraceStep \/ TraceSetSr \/ TraceFlushCache \/ TraceFault
  PROVE  Inv'
<1> USE DEF Inv
<1>1. /\ UNCHANGED mmuVars /\ avail' = avail /\ at = "trace" /\ loc \in Logical
      /\ ControlType /\ TraceOK
  BY DEF TraceStep, TraceSetSr, TraceFlushCache, TraceFault, ControlOK, ControlType, mmuVars
<1>2. MmuOK' /\ avail' \in [Logical -> SUBSET (Frames \cup {Fault})]
  BY <1>1, MmuStutter DEF MmuOK
<1>3. \A s \in segs : s.frame \in avail'[s.at]
  BY <1>1 DEF TraceOK
<1>4. CacheInv'
  <2>1. CASE TraceFlushCache
    BY <1>1, <2>1, FlushOK DEF TraceFlushCache, CacheInv
  <2>2. CASE TraceStep \/ TraceSetSr \/ TraceFault
    BY <1>1, <2>2, CacheStutter DEF TraceStep, TraceSetSr, TraceFault, CacheInv
  <2> QED BY <2>1, <2>2
<1>5. ControlOK'
  <2>1. CASE TraceFault
    BY <2>1, BusErrorOK DEF TraceFault
  <2>2. CASE TraceFlushCache
    <3>1. PICK v \in avail[loc] : Traced(loc, v, FALSE, TRUE)
      BY <2>2 DEF TraceFlushCache
    <3>2. v \in Frames \cup {Fault}
      BY <1>1 DEF MmuOK
    <3> QED BY <1>1, <1>2, <1>3, <3>1, <3>2, TracedOK
  <2>3. CASE TraceSetSr
    <3>1. PICK x \in Logical : \E v \in avail[x] : Traced(x, v, FALSE, TRUE)
      BY <2>3 DEF TraceSetSr
    <3>2. PICK v \in avail[x] : Traced(x, v, FALSE, TRUE)
      BY <3>1
    <3>3. v \in Frames \cup {Fault}
      BY DEF MmuOK
    <3> QED BY <1>1, <1>2, <1>3, <3>2, <3>3, TracedOK
  <2>4. CASE TraceStep
    <3>1. PICK jump \in BOOLEAN, x \in Logical : \E v \in avail[x] :
            x[1] = loc[1] /\ (x = loc \/ jump) /\ Traced(x, v, jump, FALSE)
      BY <2>4 DEF TraceStep
    <3>2. PICK v \in avail[x] : Traced(x, v, jump, FALSE)
      BY <3>1
    <3>3. v \in Frames \cup {Fault}
      BY DEF MmuOK
    <3> QED BY <1>1, <1>2, <1>3, <3>1, <3>2, <3>3, TracedOK
  <2> QED BY <2>1, <2>2, <2>3, <2>4
<1> QED BY <1>2, <1>4, <1>5 DEF CacheInv

LEMMA StepTraceMmuOp ==
  ASSUME Careful, NoAlias, Inv, TraceMmuOp
  PROVE  Inv'
<1> USE DEF Inv
<1>1. PICK S \in SUBSET Logical : Keeps(S) /\ TranslationChanged(S)
  BY DEF TraceMmuOp
<1>2. MmuOK' /\ CacheInv'
  BY <1>1, TranslationChangedOK DEF CacheInv
<1>3. at = "trace" /\ loc \in Logical /\ ControlType /\ TraceOK
  BY DEF TraceMmuOp, ControlOK, ControlType
<1>4. \A s \in segs : s.frame \in avail'[s.at]
  BY <1>1, <1>3 DEF Keeps, TranslationChanged, TraceOK, ControlType, Seg
<1>5. PICK v \in avail'[loc] : Traced(loc, v, FALSE, TRUE)
  BY DEF TraceMmuOp
<1>6. v \in Frames \cup {Fault} /\ avail' \in [Logical -> SUBSET (Frames \cup {Fault})]
  BY <1>2, <1>3 DEF MmuOK
<1>7. ControlOK'
  BY <1>3, <1>4, <1>5, <1>6, TracedOK
<1> QED BY <1>2, <1>7 DEF CacheInv

LEMMA EmptiedOK ==
  ASSUME blk' = NoBlocks, head' = NoHeads, tag' = NoTags
  PROVE  CacheInv'
<1>1. DOMAIN blk' = {} /\ blk' \in [DOMAIN blk' -> Block]
  BY DEF NoBlocks
<1>2. CacheType'
  BY <1>1 DEF CacheType, NoHeads, NoTags
<1>3. CacheOK' /\ LinesOK'
  BY <1>1 DEF CacheOK, LinesOK, NoHeads, NoTags
<1> QED BY <1>2, <1>3 DEF CacheInv

LEMMA StepTraceEnd ==
  ASSUME NoAlias, Inv, TraceEnd
  PROVE  Inv'
<1> USE DEF Inv
<1>1. /\ UNCHANGED mmuVars /\ avail' = avail
      /\ ControlType /\ TraceOK
  BY DEF TraceEnd, ControlOK, mmuVars
<1>2. MmuOK'
  BY <1>1, MmuStutter
<1>3. PICK x \in Logical :
       /\ \/ CompileBlock(blk, head, tag, x)
          \/ CompileBlock(NoBlocks, NoHeads, NoTags, x)
          \/ blk' = NoBlocks /\ head' = NoHeads /\ tag' = NoTags
          \/ UNCHANGED cacheVars
       /\ \E v \in avail[x] :
            (v = Fault /\ BusError) \/ (v # Fault /\ Go("poll", x, v))
  BY DEF TraceEnd
<1>4. PICK v \in avail[x] : (v = Fault /\ BusError) \/ (v # Fault /\ Go("poll", x, v))
  BY <1>3
<1>5. ControlOK'
  <2>1. v # Fault => v \in Frames
    BY Answers
  <2> QED BY <1>1, <1>4, <2>1, GoOK, BusErrorOK
<1>6. CacheInv'
  <2>1. CASE UNCHANGED cacheVars
    BY <1>1, <2>1, CacheStutter DEF CacheInv
  <2>2. CASE blk' = NoBlocks /\ head' = NoHeads /\ tag' = NoTags
    BY <2>2, EmptiedOK
  <2>3. CASE CompileBlock(blk, head, tag, x)
    BY <1>1, <2>3, CompileOK DEF CacheType, CacheOK, LinesOK, CacheInv
  <2>4. CASE CompileBlock(NoBlocks, NoHeads, NoTags, x)
    <3>1. DOMAIN NoBlocks = {} /\ NoBlocks \in [DOMAIN NoBlocks -> Block]
      BY DEF NoBlocks
    <3>2. NoHeads \in [Lines -> DOMAIN NoBlocks \cup {None}]
      BY DEF NoHeads
    <3>3. NoTags \in [Lines -> {"execute_normal", "check_checksum"} \cup DOMAIN NoBlocks]
      BY DEF NoTags
    <3>4. \A l \in Lines : NoTags[l] = "execute_normal"
      BY DEF NoTags
    <3> HIDE DEF Inv
    <3> QED BY <1>1, <2>4, <3>1, <3>2, <3>3, <3>4, CompileOK DEF CacheInv, Inv
  <2> QED BY <1>3, <2>1, <2>2, <2>3, <2>4
<1> QED BY <1>2, <1>5, <1>6 DEF CacheInv

LEMMA StepNative ==
  ASSUME NoAlias, Inv, NativeEnd \/ NativeNothing \/ NativeFault
  PROVE  Inv'
<1> USE DEF Inv
<1>1. /\ UNCHANGED <<mmuVars, cacheVars>> /\ avail' = avail /\ at = "native"
  BY DEF NativeEnd, NativeNothing, NativeFault, mmuVars
<1>2. ControlOK' => Inv'
  BY <1>1, MmuStutter, CacheStutter DEF CacheInv
<1>3. CASE NativeFault
  BY <1>2, <1>3, BusErrorOK DEF NativeFault
<1>4. CASE NativeNothing
  <2>1. PICK s \in segs : Go("poll", s.at, s.frame)
    BY <1>4 DEF NativeNothing
  <2>2. s \in Seg /\ s.frame \in avail[s.at]
    BY <1>1 DEF ControlOK, ControlType, NoSkippedFault
  <2>3. s.at \in Logical /\ s.frame \in Frames
    BY <2>2 DEF Seg
  <2> QED BY <1>1, <1>2, <2>1, <2>2, <2>3, GoOK
<1>5. CASE NativeEnd
  <2>1. PICK x \in Logical : Successor(x, avail)
    BY <1>5 DEF NativeEnd
  <2>2. PICK v \in avail[x] :
          \/ v = Fault /\ BusError
          \/ v # Fault /\ Go("poll", x, v)
          \/ v # Fault /\ Go("normal", x, Fault)
          \/ v # Fault /\ FastHit(x, v) /\ Run(head[LineOf[v]], x)
    BY <2>1 DEF Successor
  <2>3. v # Fault => v \in Frames
    BY Answers
  <2>4. CASE v # Fault /\ FastHit(x, v) /\ Run(head[LineOf[v]], x)
    <3>1. LineOf[v] \in Lines
      BY <2>3, <2>4 DEF Lines
    <3>2. head[LineOf[v]] \in DOMAIN blk
      BY <2>4, <3>1 DEF FastHit, CacheType
    <3> QED BY <1>1, <1>2, <2>4, <3>2, RunOK DEF FastHit
  <2> QED BY <1>1, <1>2, <2>2, <2>3, <2>4, GoOK, BusErrorOK
<1> QED BY <1>3, <1>4, <1>5

LEMMA StepNativeFlush ==
  ASSUME NoAlias, Inv, NativeFlush
  PROVE  Inv'
<1> USE DEF Inv
<1>1. MmuOK' /\ CacheInv'
  <2>1. CASE \E S \in SUBSET Logical : TranslationChanged(S)
    BY <2>1, TranslationChangedOK DEF CacheInv
  <2>2. CASE FlushIcacheLazy /\ UNCHANGED mmuVars
    BY <2>2, FlushOK, MmuStutter DEF CacheInv
  <2> QED BY <2>1, <2>2 DEF NativeFlush
<1>2. loc \in Logical
  BY DEF ControlOK, ControlType
<1>3. PICK v \in avail'[loc] :
       \/ v = Fault /\ BusError
       \/ v # Fault /\ (Go("poll", loc, v) \/ Go("normal", loc, Fault))
  BY DEF NativeFlush
<1>4. v # Fault => v \in Frames
  BY <1>1, <1>2 DEF MmuOK
<1>5. ControlOK'
  BY <1>2, <1>3, <1>4, GoOK, BusErrorOK
<1> QED BY <1>1, <1>5 DEF CacheInv

LEMMA StepGuestStore ==
  ASSUME Inv, GuestStore
  PROVE  Inv'
<1> USE DEF Inv
<1>1. PICK x \in Logical : \E v \in May[x] :
       /\ table' = [table EXCEPT ![x] = v]
       /\ avail' = [avail EXCEPT ![x] = @ \cup {v}]
  BY DEF GuestStore
<1>2. PICK v \in May[x] :
       /\ table' = [table EXCEPT ![x] = v]
       /\ avail' = [avail EXCEPT ![x] = @ \cup {v}]
  BY <1>1
<1>3. UNCHANGED <<generation, cacheVars, at, loc, pcp, traceVars>>
  BY DEF GuestStore
<1>4. v \in Frames \cup {Fault}
  BY MmuDispatchAssumption
<1>5. MmuOK'
  BY <1>2, <1>3, <1>4 DEF MmuOK
<1>6. \A y \in Logical : avail[y] \subseteq avail'[y]
  BY <1>2 DEF MmuOK
<1>7. ASSUME NEW b \in DOMAIN blk
      PROVE  BlockOK(blk[b])'
  <2>1. blk' = blk /\ BlockOK(blk[b]) /\ blk[b].segs \subseteq Seg
    BY <1>3 DEF cacheVars, CacheOK, CacheType, Block
  <2>2. Current(blk[b]) => Current(blk[b])'
    BY <1>6, <2>1 DEF Current, Seg
  <2> QED BY <1>3, <2>1, <2>2 DEF BlockOK, Entry
<1>8. CacheInv'
  BY <1>3, <1>7 DEF CacheInv, CacheType, CacheOK, LinesOK, cacheVars
<1>9. ControlType'
  BY <1>3 DEF ControlOK, ControlType, traceVars
<1>10. at \in {"loop", "poll"} => pcp \in Frames /\ pcp \in avail'[loc]
  BY <1>6 DEF ControlOK, ControlType
<1>11. TraceOK => TraceOK'
  BY <1>3, <1>6 DEF TraceOK, ControlOK, ControlType, Seg, traceVars
<1>12. NoSkippedFault'
  BY <1>3, <1>6 DEF NoSkippedFault, ControlOK, ControlType, Seg, traceVars
<1>13. ControlOK'
  BY <1>3, <1>9, <1>10, <1>11, <1>12 DEF ControlOK
<1> QED BY <1>5, <1>8, <1>13 DEF CacheInv

LEMMA StepBlockNeedRecompile ==
  ASSUME Inv, BlockNeedRecompile
  PROVE  Inv'
<1> USE DEF Inv
<1>1. PICK b \in DOMAIN blk :
       /\ blk' = [blk EXCEPT ![b].st = "INVALID"]
       /\ tag' = [l \in Lines |-> IF head[l] = b THEN "execute_normal" ELSE tag[l]]
  BY DEF BlockNeedRecompile
<1>2. UNCHANGED <<mmuVars, head, at, loc, pcp, traceVars>>
  BY DEF BlockNeedRecompile
<1> DEFINE B == [blk[b] EXCEPT !.st = "INVALID"]
<1>3. /\ B \in Block /\ B.pcp = blk[b].pcp /\ B.segs = blk[b].segs /\ B.gen = blk[b].gen
      /\ B.single = blk[b].single /\ B.st = "INVALID"
  BY DEF CacheType, Block
<1>4. blk' = [blk EXCEPT ![b] = B]
  BY <1>1 DEF CacheType
<1> HIDE DEF B
<1>5. BlockOK(B)
  BY <1>3 DEF CacheOK, BlockOK, Entry, Current
<1>6. CacheType'
  BY <1>1, <1>2, <1>3, <1>4 DEF CacheType
<1>7. \A i \in DOMAIN blk : BlockOK(blk'[i])
  BY <1>4, <1>5 DEF CacheOK, CacheType
<1>8. CacheOK'
  BY <1>2, <1>4, <1>7 DEF CacheOK, CacheType, BlockOK, Entry, Current, mmuVars
<1>9. "execute_normal" \notin DOMAIN blk
  BY MmuDispatchAssumption DEF CacheType
<1>10. LinesOK'
  BY <1>1, <1>2, <1>3, <1>4, <1>9 DEF LinesOK, CacheType
<1>11. ControlOK'
  BY <1>2 DEF ControlOK, ControlType, TraceOK, NoSkippedFault, mmuVars, traceVars
<1> QED BY <1>2, <1>6, <1>8, <1>10, <1>11, MmuStutter

-----------------------------------------------------------------------------
(* The theorems *)

LEMMA InvInit == Init => Inv
<1> SUFFICES ASSUME Init PROVE Inv
  OBVIOUS
<1>1. MmuOK
  BY MmuDispatchAssumption DEF Init, MmuOK
<1>2. DOMAIN blk = {} /\ blk \in [DOMAIN blk -> Block]
  BY DEF Init
<1>3. CacheType /\ CacheOK /\ LinesOK
  BY <1>2 DEF Init, CacheType, CacheOK, LinesOK
<1>4. ControlOK
  BY VectorsLogical DEF Init, ControlOK, ControlType, NoSkippedFault
<1> QED BY <1>1, <1>3, <1>4 DEF Inv

LEMMA InvStutter ==
  ASSUME Inv, UNCHANGED vars
  PROVE  Inv'
<1>1. UNCHANGED <<mmuVars, cacheVars>>
  BY DEF vars
<1>2. ControlOK'
  BY DEF vars, Inv, ControlOK, ControlType, TraceOK, NoSkippedFault, mmuVars, traceVars
<1> QED BY <1>1, <1>2, MmuStutter, CacheStutter DEF Inv, CacheInv

LEMMA InvNext ==
  ASSUME NoAlias, Careful, Inv, [Next]_vars
  PROVE  Inv'
<1>1. CASE Engine
  BY <1>1, StepBridgeEnter, StepEnter, StepEnterCheck, StepExecuteNormal DEF Engine
<1>2. CASE Interrupt \/ LeaveLoop
  BY <1>2, StepLoop
<1>3. CASE TraceStep \/ TraceSetSr \/ TraceFlushCache \/ TraceFault
  BY <1>3, StepTrace
<1>4. CASE TraceMmuOp
  BY <1>4, StepTraceMmuOp
<1>5. CASE TraceEnd
  BY <1>5, StepTraceEnd
<1>6. CASE NativeEnd \/ NativeNothing \/ NativeFault
  BY <1>6, StepNative
<1>7. CASE NativeFlush
  BY <1>7, StepNativeFlush
<1>8. CASE GuestStore \/ BlockNeedRecompile
  BY <1>8, StepGuestStore, StepBlockNeedRecompile
<1>9. CASE UNCHANGED vars
  BY <1>9, InvStutter
<1> QED BY <1>1, <1>2, <1>3, <1>4, <1>5, <1>6, <1>7, <1>8, <1>9 DEF Next

(* The inductive invariant holds of every behaviour *)
LEMMA Invariance == ASSUME NoAlias, Careful PROVE Spec => []Inv
<1>1. Inv /\ [Next]_vars => Inv'
  BY InvNext
<1> QED BY <1>1, InvInit, PTL DEF Spec

(* A running block has, page by page, the frames that the MMU would answer  *)
(* with in the processor's mode: jit_block_identity_matches, the promotion  *)
(* of single-page blocks and the flush at each change of translation        *)
(* together skip no fetch that would fault.                                 *)
THEOREM NoFaultSkipped == ASSUME NoAlias, Careful PROVE Spec => []NoSkippedFault
<1>1. Inv => NoSkippedFault
  BY DEF Inv, ControlOK
<1> QED BY <1>1, Invariance, PTL

-----------------------------------------------------------------------------
(* The dispatcher's way to executing something *)

(* The distance in execute_normal: the MMU has one answer *)
LEMMA NormalDistance ==
  ASSUME Settled(loc), at \in {"normal", "ready"}, NEW v \in avail[loc], v # Fault
  PROVE  Distance = IF Mislaid(v) THEN 4
                    ELSE IF Found(blk, v, loc) # {} THEN 2 ELSE 1
<1>1. \A w \in avail[loc] \ {Fault} : w = v
  BY DEF Settled
<1> QED BY <1>1 DEF Distance

LEMMA MarkedFirst ==
  ASSUME Inv, NEW v \in Frames, v \in avail[loc], NEW b \in Found(blk, v, loc),
         NEW st, blk' = Promoted(b, st), head'[LineOf[v]] = b, loc' = loc,
         UNCHANGED mmuVars
  PROVE  Found(blk, v, loc)' = {b} /\ ~Mislaid(v)' /\ blk'[b].pcp = v /\ b \in DOMAIN blk'
<1>1. b \in DOMAIN blk /\ blk[b].pcp = v /\ blk[b].key = loc /\ blk[b] \in Block
  BY FoundIn DEF Inv, CacheType
<1>2. blk'[b] = [blk[b] EXCEPT !.gen = generation, !.st = st] /\ DOMAIN blk' = DOMAIN blk
  BY <1>1 DEF Promoted, Inv, CacheType
<1>3. blk'[b].pcp = v /\ blk'[b].key = loc /\ blk'[b].gen = generation
  BY <1>1, <1>2 DEF Block
<1>4. Matches(blk, b, v, loc)'
  BY <1>3 DEF Matches, mmuVars
<1>5. Found(blk, v, loc)' = {b}
  BY <1>1, <1>2, <1>4 DEF Found
<1>6. ~Mislaid(v)'
  BY <1>5 DEF Mislaid
<1> QED BY <1>1, <1>2, <1>3, <1>5, <1>6

(* Raising the block that was found leaves its check, at most, to be done *)
LEMMA RaisedNear ==
  ASSUME NoAlias, Inv, NEW v \in Frames, v \in avail[loc], NEW b \in Found(blk, v, loc),
         NEW st \in {"INVALID", "ACTIVE", "NEED_CHECK"},
         Raise(Promoted(b, st), b), Go("poll", loc, v), UNCHANGED mmuVars
  PROVE  Distance' \in {1, 3} /\ (st = "ACTIVE" => Distance' = 1)
<1>1. loc \in Logical /\ MmuOK /\ CacheType /\ CacheOK /\ LinesOK
  BY DEF Inv, ControlOK, ControlType
<1>2. /\ head'[LineOf[v]] = b /\ blk'[b].st = st
      /\ tag'[LineOf[v]] = HandlerToUse(blk', b)
  BY <1>1, RaiseOK
<1>3. /\ Found(blk, v, loc)' = {b} /\ ~Mislaid(v)'
      /\ blk'[b].pcp = v /\ b \in DOMAIN blk'
  BY <1>2, MarkedFirst DEF Raise, Go
<1>4. at' = "poll" /\ pcp' = v /\ loc' = loc
  BY DEF Go
<1>5. Entered' = HandlerToUse(blk', b)
  BY <1>2, <1>4 DEF Entered
<1>6. st = "ACTIVE" => Entered' = b
  BY <1>2, <1>5 DEF HandlerToUse
<1>7. Found(blk, pcp, loc)' # {} /\ ~Mislaid(pcp)'
  BY <1>3, <1>4 DEF Found, Matches, Mislaid
<1> QED BY <1>3, <1>4, <1>6, <1>7 DEF Distance

LEMMA FoundInFrames ==
  ASSUME Inv, NEW v \in avail[loc], v # Fault
  PROVE  v \in Frames /\ loc \in Logical
BY DEF Inv, MmuOK, ControlOK, ControlType

(* execute_normal, seen from the loop: no block, and one less to go *)
LEMMA ToNormal ==
  ASSUME Inv, AtEntry, Go("normal", loc, Fault), UNCHANGED <<mmuVars, cacheVars>>,
         Settled(loc)
  PROVE  Distance' = IF Mislaid(pcp) THEN 4
                     ELSE IF Found(blk, pcp, loc) # {} THEN 2 ELSE 1
<1>1. pcp \in Frames /\ pcp \in avail[loc] /\ pcp # Fault
  BY MmuDispatchAssumption DEF Inv, ControlOK, AtEntry
<1>2. \A w \in avail[loc] \ {Fault} : w = pcp
  BY <1>1 DEF Settled
<1>3. /\ at' = "normal" /\ loc' = loc /\ avail' = avail /\ generation' = generation
      /\ blk' = blk /\ head' = head
  BY DEF Go, mmuVars, cacheVars
<1>4. \A w : Found(blk, w, loc)' = Found(blk, w, loc)
  BY <1>3 DEF Found, Matches
<1>5. \A w : Mislaid(w)' <=> Mislaid(w)
  BY <1>3, <1>4 DEF Mislaid
<1> QED BY <1>1, <1>2, <1>3, <1>4, <1>5 DEF Distance

LEMMA MissNear ==
  ASSUME NoAlias, Inv, AtEntry, CacheMiss, UNCHANGED mmuVars, Settled(loc),
         Entered # "execute_normal", head[LineOf[pcp]] \notin Found(blk, pcp, loc),
         ~(Entered \in DOMAIN blk /\ blk[Entered].pcp = pcp)
  PROVE  Distance' < Distance
<1>1. pcp \in Frames /\ pcp \in avail[loc] /\ at \notin {"normal", "ready"}
  BY DEF Inv, ControlOK, AtEntry
<1>2. CASE Found(blk, pcp, loc) = {} /\ Go("normal", loc, Fault) /\ UNCHANGED cacheVars
  <2>1. Distance' = 1
    BY <1>2, ToNormal DEF Mislaid
  <2>2. Distance = 2
    BY <1>1, <1>2 DEF Distance
  <2> QED BY <2>1, <2>2
<1>3. CASE \E b \in Found(blk, pcp, loc) :
             Raise(Promoted(b, blk[b].st), b) /\ Go("poll", loc, pcp)
  <2>1. PICK b \in Found(blk, pcp, loc) :
          Raise(Promoted(b, blk[b].st), b) /\ Go("poll", loc, pcp)
    BY <1>3
  <2>2. blk[b].st \in {"INVALID", "ACTIVE", "NEED_CHECK"}
    BY FoundIn DEF Inv, CacheType, Block
  <2>3. Distance' \in {1, 3}
    BY <1>1, <2>1, <2>2, RaisedNear
  <2>4. Distance = 4
    BY <1>1, <2>1 DEF Distance, Mislaid
  <2> QED BY <2>3, <2>4
<1> QED BY <1>2, <1>3 DEF CacheMiss

LEMMA EnterNear ==
  ASSUME NoAlias, Inv, EnterNormal \/ EnterMiss \/ EnterCheck, Settled(loc)
  PROVE  Distance' < Distance
<1>1. AtEntry /\ UNCHANGED mmuVars
  BY DEF EnterNormal, EnterMiss, EnterCheck
<1>2. /\ pcp \in Frames /\ pcp \in avail[loc] /\ LineOf[pcp] \in Lines
      /\ at \notin {"normal", "ready"} /\ loc \in Logical
  BY <1>1 DEF Inv, ControlOK, ControlType, AtEntry, Lines
<1>3. "execute_normal" \notin DOMAIN blk /\ "check_checksum" \notin DOMAIN blk
  BY MmuDispatchAssumption DEF Inv, CacheType
<1>4. CASE EnterNormal
  <2>1. Entered = "execute_normal" /\ Go("normal", loc, Fault) /\ UNCHANGED cacheVars
    BY <1>4 DEF EnterNormal
  <2>2. Distance' = IF Mislaid(pcp) THEN 4
                    ELSE IF Found(blk, pcp, loc) # {} THEN 2 ELSE 1
    BY <1>1, <2>1, ToNormal
  <2>3. Distance = IF Found(blk, pcp, loc) = {} THEN 2
                   ELSE IF ~Mislaid(pcp) THEN 3 ELSE 5
    BY <1>2, <1>3, <2>1 DEF Distance
  <2> QED BY <2>2, <2>3 DEF Mislaid
<1>5. CASE EnterMiss
  <2>1. /\ Entered \in DOMAIN blk /\ blk[Entered].pcp # pcp /\ CacheMiss
    BY <1>5 DEF EnterMiss
  <2>2. Entered = head[LineOf[pcp]]
    BY <1>2, <2>1 DEF Inv, LinesOK, Entered
  <2>3. head[LineOf[pcp]] \notin Found(blk, pcp, loc)
    BY <2>1, <2>2, FoundIn
  <2> QED BY <1>1, <1>3, <2>1, <2>3, MissNear
<1>6. CASE EnterCheck
  <2>1. Entered = "check_checksum"
    BY <1>6 DEF EnterCheck
  <2>2. CASE head[LineOf[pcp]] \notin Found(blk, pcp, loc) /\ CacheMiss
    BY <1>1, <1>3, <2>1, <2>2, MissNear
  <2>3. CASE \E b \in Found(blk, pcp, loc) :
          /\ b = head[LineOf[pcp]]
          /\ \/ /\ blk[b].st = "NEED_CHECK"
                /\ \/ Raise(Promoted(b, "ACTIVE"), b) /\ Go("poll", loc, pcp)
                   \/ Raise(Promoted(b, "INVALID"), b) /\ Go("normal", loc, Fault)
             \/ /\ blk[b].st # "NEED_CHECK"
                /\ blk' = Promoted(b, blk[b].st)
                /\ UNCHANGED <<head, tag>>
                /\ Go("poll", loc, pcp)
    <3>1. PICK b \in Found(blk, pcp, loc) :
          /\ b = head[LineOf[pcp]]
          /\ \/ /\ blk[b].st = "NEED_CHECK"
                /\ \/ Raise(Promoted(b, "ACTIVE"), b) /\ Go("poll", loc, pcp)
                   \/ Raise(Promoted(b, "INVALID"), b) /\ Go("normal", loc, Fault)
             \/ /\ blk[b].st # "NEED_CHECK"
                /\ blk' = Promoted(b, blk[b].st)
                /\ UNCHANGED <<head, tag>>
                /\ Go("poll", loc, pcp)
      BY <2>3
    <3>2. blk[b].st = "NEED_CHECK"
      BY <1>2, <2>1, <3>1 DEF Inv, LinesOK, Entered
    <3>3. Distance = 3
      BY <1>2, <1>3, <2>1, <3>1 DEF Distance, Mislaid
    <3>4. CASE Raise(Promoted(b, "ACTIVE"), b) /\ Go("poll", loc, pcp)
      BY <1>1, <1>2, <3>3, <3>4, RaisedNear
    <3>5. CASE Raise(Promoted(b, "INVALID"), b) /\ Go("normal", loc, Fault)
      <4>1. head'[LineOf[pcp]] = b
        BY <1>1, <1>2, <3>5, RaiseOK DEF Inv
      <4>2. /\ at' = "normal" /\ loc' = loc /\ avail' = avail
            /\ blk' = Promoted(b, "INVALID")
        BY <1>1, <3>5 DEF Go, mmuVars, Raise
      <4>3. /\ ~Mislaid(pcp)
            /\ \A w \in avail[loc] \ {Fault} : w = pcp
        BY <1>2, <3>1, MmuDispatchAssumption DEF Mislaid, Settled
      <4>4. ASSUME NEW w \in avail'[loc'] \ {Fault}
            PROVE  ~Mislaid(w)'
        <5>1. w = pcp /\ w \in Frames /\ w \in avail[loc] /\ b \in Found(blk, w, loc)
          BY <1>2, <4>2, <4>3, <4>4
        <5> QED BY <1>1, <4>1, <4>2, <5>1, MarkedFirst
      <4>5. ~(\E w \in avail[loc] \ {Fault} : Mislaid(w))'
        BY <4>4
      <4>6. Distance' <= 2
        BY <4>2, <4>5 DEF Distance
      <4> QED BY <3>3, <4>6 DEF Distance
    <3> QED BY <3>1, <3>2, <3>4, <3>5
  <2> QED BY <1>6, <2>2, <2>3 DEF EnterCheck
<1> QED BY <1>4, <1>5, <1>6

LEMMA NormalNear ==
  ASSUME NoAlias, Inv, ExecuteNormal, at' \in Dispatching, Settled(loc)
  PROVE  Distance' < Distance
<1>1. PICK v \in avail[loc] :
       \/ v = Fault /\ BusError /\ UNCHANGED cacheVars
       \/ v # Fault /\ \E b \in Found(blk, v, loc) :
            CheckForCacheMiss(b, v) \/ RevalidateBlock(b, v)
       \/ /\ v # Fault /\ Found(blk, v, loc) = {}
          /\ BeginTrace(loc, v) /\ UNCHANGED cacheVars
  BY DEF ExecuteNormal
<1>2. at \in {"normal", "ready"} /\ UNCHANGED mmuVars
  BY DEF ExecuteNormal
<1>3. ~BusError /\ ~BeginTrace(loc, v)
  BY DEF BusError, Go, BeginTrace, Dispatching
<1>4. v # Fault
  BY <1>1, <1>3
<1>5. PICK b \in Found(blk, v, loc) : CheckForCacheMiss(b, v) \/ RevalidateBlock(b, v)
  BY <1>1, <1>3
<1>6. v \in Frames /\ loc \in Logical /\ LineOf[v] \in Lines
  BY <1>4, FoundInFrames DEF Lines
<1>7. Distance = IF Mislaid(v) THEN 4 ELSE 2
  BY <1>2, <1>4, <1>5, NormalDistance
<1>8. b \in DOMAIN blk /\ blk[b].pcp = v /\ blk[b].st \in {"INVALID", "ACTIVE", "NEED_CHECK"}
  BY FoundIn DEF Inv, CacheType, Block
<1>9. CASE RevalidateBlock(b, v)
  <2>1. Raise(Promoted(b, "ACTIVE"), b) /\ Go("poll", loc, v)
    BY <1>3, <1>9 DEF RevalidateBlock
  <2>2. Distance' = 1
    BY <1>2, <1>6, <2>1, RaisedNear
  <2> QED BY <1>7, <2>2
<1>10. CASE CheckForCacheMiss(b, v)
  <2>1. CASE blk[b].st = "ACTIVE" /\ tag[LineOf[v]] = b
    <3>1. b = head[LineOf[v]]
      BY <1>6, <1>8, <2>1 DEF Inv, LinesOK
    <3>2. blk' = Promoted(b, "ACTIVE") /\ UNCHANGED <<head, tag>> /\ Go("poll", loc, v)
      BY <1>10, <2>1, <3>1 DEF CheckForCacheMiss
    <3>3. blk'[b].pcp = v /\ b \in DOMAIN blk'
      BY <1>2, <1>6, <3>1, <3>2, MarkedFirst DEF Go
    <3>4. Distance' = 1
      BY <2>1, <3>2, <3>3 DEF Distance, Go, Entered
    <3> QED BY <1>7, <3>4
  <2>2. CASE ~(blk[b].st = "ACTIVE" /\ tag[LineOf[v]] = b)
    <3>1. /\ b # head[LineOf[v]]
          /\ Raise(Promoted(b, blk[b].st), b) /\ Go("poll", loc, v)
      BY <1>3, <1>10, <2>2 DEF CheckForCacheMiss
    <3>2. Mislaid(v)
      BY <1>5, <3>1 DEF Mislaid, Found
    <3>3. Distance' \in {1, 3}
      BY <1>2, <1>6, <1>8, <3>1, RaisedNear
    <3> QED BY <1>7, <3>2, <3>3
  <2> QED BY <2>1, <2>2
<1> QED BY <1>5, <1>9, <1>10

(* cache_miss, check_checksum, execute_normal and the loop never send the   *)
(* CPU thread round in circles: each of their steps that executes nothing   *)
(* comes nearer to one that does, and the distance is at most five.         *)
THEOREM DispatchProgress == ASSUME NoAlias, Careful PROVE Spec => DispatchDescends
<1>1. Inv /\ [Next]_vars => [Nearer]_vars
  <2> SUFFICES ASSUME Inv, Engine, at \in Dispatching, at' \in Dispatching, Settled(loc)
               PROVE  Distance' < Distance
    BY DEF Nearer
  <2>1. ~BridgeEnter /\ ~EnterNative
    BY DEF BridgeEnter, EnterNative, Run, Dispatching
  <2> QED BY <2>1, EnterNear, NormalNear DEF Engine
<1> QED BY <1>1, Invariance, PTL DEF Spec, DispatchDescends
=============================================================================
