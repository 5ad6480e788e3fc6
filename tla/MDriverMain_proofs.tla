------------------------ MODULE MDriverMain_proofs --------------------------
(***************************************************************************)
(* Proofs about MDriverMain, for every trace and any number of replays.    *)
(*                                                                         *)
(* Why a replay answers as the first evaluation did: what the package does *)
(* depends on the headers of its blocks and on its locals only.  Of a      *)
(* state we keep just that, as a record; the step that follows it is a     *)
(* function of the record.  The first evaluation leaves behind the set of  *)
(* the records it went through, which no replay can leave.                 *)
(***************************************************************************)
EXTENDS MDriverMain, MMImplicit_contract_proofs, FiniteSetTheorems

(***************************************************************************)
(* What the future of a trace depends on.                                  *)
(***************************************************************************)
(* k requests have been made; hdr is the header of every block, held the   *)
(* address and the size of every payload of the trace.                     *)
Rec(k, c, p, n, b, e, m, h, o) ==
  [k |-> k, call |-> c, pc |-> p, size |-> n, cur |-> b, end |-> e, brk |-> m,
   hdr |-> h, held |-> o]

Headers == [b \in blks |-> mem[HDRP(b)]]
Held == [i \in live |-> <<blocks[i], block_sizes[i]>>]
Made == IF phase = "valid" THEN IF call.st = "none" THEN Len(ops) ELSE Len(ops) + 1
        ELSE opnum - 1
Now == Rec(Made, call, pc, size, cur, heap_end, mem_brk, Headers, Held)

(* The heap after mm_init, before the first request.                       *)
Start == Rec(0, NoCall, "idle", 0, 0, heap + DSIZE, mem_start_brk + DSIZE,
             [b \in {heap} |-> PACK(DSIZE, 0)], [i \in {} |-> <<0, 0>>])

(***************************************************************************)
(* The step of the package and of the driver, on records.                  *)
(***************************************************************************)
RSize(s, b) == GET_SIZE(s.hdr[b])
RAlloc(s, b) == GET_ALLOC(s.hdr[b]) = 1
RNext(s, b) == b + RSize(s, b)
RMerges(s, b) == RNext(s, b) < s.end /\ ~ RAlloc(s, RNext(s, b))

Merge(s, b) ==
  [c \in DOMAIN s.hdr \ {RNext(s, b)} |->
     IF c = b THEN PACK(RSize(s, b) + RSize(s, RNext(s, b)), GET_ALLOC(s.hdr[b]))
     ELSE s.hdr[c]]
Cut(s, b, n) ==
  IF RSize(s, b) >= DSIZE + n
  THEN [c \in DOMAIN s.hdr \union {b + n} |->
          IF c = b THEN PACK(n, GET_ALLOC(s.hdr[b]))
          ELSE IF c = b + n THEN PACK(RSize(s, b) - n, 0) ELSE s.hdr[c]]
  ELSE s.hdr
Freed(s, b) == [s.hdr EXCEPT ![b] = PACK(GET_SIZE(s.hdr[b]), 0)]

Local(s, p, n, b, h) == Rec(s.k, s.call, p, n, b, s.end, s.brk, h, s.held)
Answer(s, v, h) ==
  Rec(s.k, [s.call EXCEPT !.st = "returned", !.ret = v], "idle", 0, 0, s.end, s.brk,
      h, s.held)

Enter(s) ==
  IF s.call.fn = "mm_malloc" THEN Local(s, "fit", ALIGN(s.call.size + DSIZE), heap, s.hdr)
  ELSE IF s.call.fn = "mm_free" \/ s.call.size = 0
  THEN Answer(s, 0, Freed(s, s.call.ptr))
  ELSE Local(s, "coalesce", ALIGN(s.call.size + DSIZE), s.cur, s.hdr)

Scan(s) ==
  IF s.cur >= s.end THEN Local(s, "extend", s.size, s.cur, s.hdr)
  ELSE IF RAlloc(s, s.cur) THEN Local(s, "fit", s.size, RNext(s, s.cur), s.hdr)
  ELSE IF RSize(s, s.cur) >= s.size THEN Local(s, "place", s.size, s.cur, s.hdr)
  ELSE IF RMerges(s, s.cur) THEN Local(s, "fit", s.size, s.cur, Merge(s, s.cur))
  ELSE Local(s, "fit", s.size, RNext(s, s.cur), s.hdr)

Grow(s) ==
  IF ToInt(s.size) < 0 \/ s.brk + ToInt(s.size) > mem_max_addr
  THEN Local(s, "crashed", s.size, s.cur, s.hdr)
  ELSE Rec(s.k, s.call, "place", s.size, s.brk + DSIZE, s.end + s.size,
           s.brk + ToInt(s.size),
           [c \in DOMAIN s.hdr \union {s.brk + DSIZE} |->
              IF c = s.brk + DSIZE THEN PACK(s.size, 0) ELSE s.hdr[c]], s.held)

Put(s) ==
  LET h == [Cut(s, s.cur, s.size) EXCEPT ![s.cur] = PACK(s.size, 1)]
  IN  IF s.call.fn = "mm_malloc" THEN Answer(s, s.cur, h)
      ELSE Local(s, "copy", s.size, s.cur, h)

Widen(s) ==
  LET bp == s.call.ptr
  IN  IF RMerges(s, bp) THEN Local(s, "coalesce", s.size, s.cur, Merge(s, bp))
      ELSE IF RSize(s, bp) >= s.size THEN Answer(s, bp, Cut(s, bp, s.size))
      ELSE Local(s, "fit", ALIGN((s.size - DSIZE) + DSIZE), heap, s.hdr)

Move(s) ==
  Answer(s, s.cur, [c \in DOMAIN s.hdr |->
                      IF c = s.call.ptr THEN PACK(RSize(s, c), 0)
                      ELSE IF c = s.cur THEN PACK(RSize(s, c), 1) ELSE s.hdr[c]])

(* What the driver makes of an answer it accepts.                          *)
Take(s) ==
  Rec(s.k, NoCall, s.pc, s.size, s.cur, s.end, s.brk, s.hdr,
      IF s.call.fn = "mm_free" THEN s.held
      ELSE [i \in DOMAIN s.held \union {s.call.id} |->
              IF i = s.call.id THEN <<s.call.ret, s.call.size>> ELSE s.held[i]])

Step(s) ==
  IF s.call.st = "returned" THEN Take(s)
  ELSE IF s.pc = "idle" THEN Enter(s)
  ELSE IF s.pc = "fit" THEN Scan(s)
  ELSE IF s.pc = "extend" THEN Grow(s)
  ELSE IF s.pc = "place" THEN Put(s)
  ELSE IF s.pc = "coalesce" THEN Widen(s)
  ELSE Move(s)

(* The next request of the trace is made.                                  *)
Issue(s, op) ==
  Rec(s.k + 1,
      [fn |-> op.fn, st |-> "called", id |-> op.id,
       ptr |-> IF op.fn = "mm_malloc" THEN NULL ELSE s.held[op.id][1],
       size |-> op.size, ret |-> 0],
      s.pc, s.size, s.cur, s.end, s.brk, s.hdr,
      IF op.fn = "mm_free" THEN [i \in DOMAIN s.held \ {op.id} |-> s.held[i]] ELSE s.held)

(* A request eval_mm_valid makes when the trace holds what s.held says.    *)
Proper(s, op) ==
  \/ op.fn = "mm_malloc" /\ op.id \in Ids \ DOMAIN s.held /\ op.size \in 1 .. (INT_MOD \div 2 - 1)
  \/ op.fn = "mm_realloc" /\ op.id \in DOMAIN s.held /\ op.size \in 0 .. (INT_MOD \div 2 - 1)
  \/ op.fn = "mm_free" /\ op.id \in DOMAIN s.held /\ op.size = 0

(***************************************************************************)
(* The records an evaluation of the trace has gone through.                *)
(***************************************************************************)
(* ops, and the request that is under way.                                 *)
Asked == [fn |-> call.fn, id |-> call.id, size |-> call.size, ret |-> call.ret]
Trace == IF phase = "valid" /\ call.st # "none" THEN Append(ops, Asked) ELSE ops

Answers(s, O) ==   \* the answer of s is the one on record
  /\ s.k \in 1 .. Len(O) /\ s.call.ret = O[s.k].ret
  /\ s.call.fn # "mm_free" => s.call.ret # NULL

(* What follows a record is in S too, unless the record is a last one: the *)
(* requests are those of T, the answers those of O.                        *)
Follows(s, S, L, T, O) ==
  \/ s \in L
  \/ /\ s.call.st = "none" /\ s.k + 1 \in 1 .. Len(T)
     /\ Proper(s, T[s.k + 1]) /\ Issue(s, T[s.k + 1]) \in S
  \/ /\ s.call.st # "none" /\ Step(s) \in S
     /\ s.call.st = "returned" => Answers(s, O)

History(S, L, T, O) ==
  Start \in S /\ \A s \in S : s.pc # "crashed" /\ Follows(s, S, L, T, O)

Ends(S, O) == {s \in S : s.call.st = "none" /\ s.k = Len(O)}

(* A trace that is being recorded, or replayed.                            *)
Recorded == /\ phase = "valid" /\ recorded /\ verdict = "running" /\ pc # "crashed"
            /\ call.fn # "mm_init"
Replays == phase \in {"util", "speed"}

Faithful ==
  /\ Recorded => \E S : Now \in S /\ History(S, {Now}, Trace, ops)
  /\ Replays => \E S : /\ History(S, Ends(S, ops), ops, ops)
                       /\ call.fn # "mm_init" => Now \in S

(***************************************************************************)
(* Records of states.                                                      *)
(***************************************************************************)
(* The parts of the record of a state.                                     *)
LEMMA NowParts ==
  /\ Now.k = Made /\ Now.call = call /\ Now.pc = pc /\ Now.size = size /\ Now.cur = cur
  /\ Now.end = heap_end /\ Now.brk = mem_brk /\ Now.hdr = Headers /\ Now.held = Held
  BY DEF Now, Rec

(* The parts of any record.                                                *)
LEMMA RecParts ==
  ASSUME NEW k, NEW c, NEW p, NEW n, NEW b, NEW e, NEW m, NEW h, NEW o
  PROVE  LET r == Rec(k, c, p, n, b, e, m, h, o)
         IN  /\ r.k = k /\ r.call = c /\ r.pc = p /\ r.size = n /\ r.cur = b
             /\ r.end = e /\ r.brk = m /\ r.hdr = h /\ r.held = o
  BY DEF Rec

(* A record knows of a block what the heap says of it.                     *)
LEMMA NowBlocks ==
  ASSUME NEW b \in blks
  PROVE  /\ Now.hdr[b] = mem[HDRP(b)]
         /\ RSize(Now, b) = SizeOf(b) /\ RNext(Now, b) = NEXT(b)
         /\ RAlloc(Now, b) <=> IsAlloc(b)
<1>1. Now.hdr[b] = mem[HDRP(b)]
  BY NowParts DEF Headers
<1> QED BY <1>1 DEF RSize, RAlloc, RNext, SizeOf, IsAlloc, NEXT

(* The test of coalesce_block reads headers of blocks only.                *)
LEMMA NowMerges ==
  ASSUME Tiled, TypeOK, NEW b \in blks
  PROVE  RMerges(Now, b) <=> CanCoalesce(b)
<1>1. RNext(Now, b) = NEXT(b) /\ Now.end = heap_end
  BY NowBlocks, NowParts
<1>2. NEXT(b) < heap_end => NEXT(b) \in blks
  BY BlockLemma DEF Tiled, TypeOK
<1>3. NEXT(b) \in blks => (RAlloc(Now, NEXT(b)) <=> IsAlloc(NEXT(b)))
  BY NowBlocks
<1> QED BY <1>1, <1>2, <1>3 DEF RMerges, CanCoalesce

(* A call that goes on or returns counts as the same request.              *)
LEMMA SameRequest ==
  ASSUME UNCHANGED mainVars, UnchangedDriver, call.st = "called", call'.st # "none"
  PROVE  Made' = Made /\ Held' = Held
<1>1. UNCHANGED <<phase, ops, opnum, live, blocks, block_sizes>>
  BY DEF mainVars, UnchangedDriver
<1> QED BY <1>1 DEF Made, Held

(* Steps within a call, and the last one.                                  *)
LEMMA LocalNow ==
  ASSUME UNCHANGED mainVars, UnchangedDriver, call.st = "called",
         UNCHANGED <<call, mem_brk, heap_end>>
  PROVE  Now' = Local(Now, pc', size', cur', Headers')
<1>1. Made' = Made /\ Held' = Held
  BY SameRequest
<1> QED BY <1>1, NowParts DEF Local, Now

(* A call that returns without touching the heap: its record is answered.  *)
LEMMA AnswerNow ==
  ASSUME TypeOK, UNCHANGED mainVars, UnchangedDriver, call.st = "called",
         NEW v \in Int, Return(v), UNCHANGED <<mem_brk, heap_end>>
  PROVE  Now' = Answer(Now, v, Headers')
<1>1. call' = [call EXCEPT !.st = "returned", !.ret = v] /\ pc' = "idle" /\ size' = 0 /\ cur' = 0
  BY DEF Return, NULL
<1>2. call'.st # "none"
  BY ReturnLemma
<1>3. Made' = Made /\ Held' = Held
  BY <1>2, SameRequest
<1> QED BY <1>1, <1>3, NowParts DEF Answer, Now

(* Steps that write no header.                                             *)
LEMMA QuietNow ==
  ASSUME UNCHANGED mainVars, call.st = "called", UNCHANGED <<memVars, driverVars, heap_end, blks>>
  PROVE  Now' = Local(Now, pc', size', cur', Now.hdr)
<1>1. UnchangedDriver /\ UNCHANGED <<call, mem, mem_brk, blks>> /\ heap_end' = heap_end
  BY DEF driverVars, memVars, UnchangedDriver
<1>2. Headers' = Headers
  BY <1>1 DEF Headers
<1> QED BY <1>1, <1>2, LocalNow, NowParts

(***************************************************************************)
(* Every step of the package is the step of its record.                    *)
(***************************************************************************)
(* Which part of Step applies.                                             *)
LEMMA StepOf ==
  ASSUME IInv, call.st = "called"
  PROVE  /\ pc = "idle" => Step(Now) = Enter(Now)
         /\ pc = "fit" => Step(Now) = Scan(Now)
         /\ pc = "extend" => Step(Now) = Grow(Now)
         /\ pc = "place" => Step(Now) = Put(Now)
         /\ pc = "coalesce" => Step(Now) = Widen(Now)
         /\ pc = "copy" => Step(Now) = Move(Now)
  BY NowParts DEF Step

(* One lemma per action: the record of the next state is the step of the   *)
(* record, or the record itself.                                           *)
LEMMA FitEndNow == ASSUME IInv, UNCHANGED mainVars, FitEnd PROVE Now' = Step(Now)
<1>1. call.st = "called" /\ heap_end \in Nat /\ cur \in Nat
  BY CursorLemma DEF FitEnd, TypeOK
<1>2. Now' = Local(Now, "extend", size, cur, Now.hdr)
  BY <1>1, QuietNow DEF FitEnd
<1>3. Step(Now) = Scan(Now)
  BY <1>1, StepOf DEF FitEnd
<1> QED BY <1>2, <1>3, NowParts DEF FitEnd, Scan

LEMMA FitSkipNow == ASSUME IInv, UNCHANGED mainVars, FitSkip PROVE Now' = Step(Now)
<1>1. call.st = "called" /\ heap_end \in Nat /\ cur \in Nat /\ cur \in blks
  BY CursorLemma DEF FitSkip, TypeOK
<1>2. Now' = Local(Now, "fit", size, NEXT(cur), Now.hdr)
  BY <1>1, QuietNow DEF FitSkip
<1>3. Step(Now) = Scan(Now) /\ ~ (cur >= heap_end)
  BY <1>1, StepOf DEF FitSkip
<1>4. RAlloc(Now, cur) /\ RNext(Now, cur) = NEXT(cur)
  BY <1>1, NowBlocks DEF FitSkip
<1> QED BY <1>2, <1>3, <1>4, NowParts DEF Scan

LEMMA FitTakeNow == ASSUME IInv, UNCHANGED mainVars, FitTake PROVE Now' = Step(Now)
<1>1. call.st = "called" /\ heap_end \in Nat /\ cur \in Nat /\ cur \in blks
  BY CursorLemma DEF FitTake, TypeOK
<1>2. Now' = Local(Now, "place", size, cur, Now.hdr)
  BY <1>1, QuietNow DEF FitTake
<1>3. Step(Now) = Scan(Now) /\ ~ (cur >= heap_end)
  BY <1>1, StepOf DEF FitTake
<1>4. ~ RAlloc(Now, cur) /\ RSize(Now, cur) >= size
  BY <1>1, NowBlocks DEF FitTake, Fits
<1> QED BY <1>2, <1>3, <1>4, NowParts DEF Scan

LEMMA FitNextNow == ASSUME IInv, UNCHANGED mainVars, FitNext PROVE Now' = Step(Now)
<1>1. /\ call.st = "called" /\ heap_end \in Nat /\ cur \in Nat /\ cur \in blks
      /\ TypeOK /\ Tiled
  BY CursorLemma DEF FitNext, TypeOK
<1>2. Now' = Local(Now, "fit", size, NEXT(cur), Now.hdr)
  BY <1>1, QuietNow DEF FitNext
<1>3. Step(Now) = Scan(Now) /\ ~ (cur >= heap_end)
  BY <1>1, StepOf DEF FitNext
<1>4. /\ ~ RAlloc(Now, cur) /\ ~ (RSize(Now, cur) >= size) /\ RNext(Now, cur) = NEXT(cur)
      /\ ~ RMerges(Now, cur)
  BY <1>1, NowBlocks, NowMerges DEF FitNext, Fits
<1> QED BY <1>2, <1>3, <1>4, NowParts DEF Scan

LEMMA ExtendFailsNow == ASSUME IInv, UNCHANGED mainVars, ExtendFails PROVE Now' = Step(Now)
<1>1. call.st = "called"
  BY DEF ExtendFails, IInv, TraceInv
<1>2. Now' = Local(Now, "crashed", size, cur, Now.hdr)
  BY <1>1, QuietNow DEF ExtendFails
<1>3. Step(Now) = Grow(Now)
  BY <1>1, StepOf DEF ExtendFails
<1> QED BY <1>2, <1>3, NowParts DEF Grow, ExtendFails, SbrkFails

LEMMA MallocNow == ASSUME IInv, UNCHANGED mainVars, mm_malloc PROVE Now' = Step(Now)
<1>1. call.st = "called" /\ call.fn = "mm_malloc"
  BY DEF mm_malloc, Called
<1>2. Now' = Local(Now, "fit", ALIGN(call.size + DSIZE), heap, Now.hdr)
  BY <1>1, QuietNow DEF mm_malloc
<1>3. Step(Now) = Enter(Now)
  BY <1>1, StepOf DEF mm_malloc
<1> QED BY <1>1, <1>2, <1>3, NowParts DEF Enter

LEMMA ReallocNow == ASSUME IInv, UNCHANGED mainVars, mm_realloc PROVE Now' = Step(Now)
<1>1. call.st = "called" /\ call.fn = "mm_realloc"
  BY DEF mm_realloc, Called
<1>2. Now' = Local(Now, "coalesce", ALIGN(call.size + DSIZE), cur, Now.hdr)
  BY <1>1, QuietNow DEF mm_realloc
<1>3. Step(Now) = Enter(Now)
  BY <1>1, StepOf DEF mm_realloc
<1> QED BY <1>1, <1>2, <1>3, NowParts DEF Enter, mm_realloc

(* The realloc under way: the test of its loop and the size of its block.  *)
LEMMA WidenParts ==
  ASSUME IInv, pc = "coalesce"
  PROVE  /\ call.st = "called" /\ call.fn = "mm_realloc" /\ Called("mm_realloc")
         /\ TypeOK /\ Tiled /\ call.ptr \in blks
         /\ RMerges(Now, call.ptr) <=> CanCoalesce(call.ptr)
         /\ RSize(Now, call.ptr) = SizeOf(call.ptr) /\ RNext(Now, call.ptr) = NEXT(call.ptr)
         /\ Step(Now) = Widen(Now)
<1>1. call.st = "called" /\ call.fn = "mm_realloc" /\ Called("mm_realloc")
  BY UsableLemma DEF IInv, TraceInv, LocalInv, Called
<1>2. TypeOK /\ Tiled /\ call.ptr \in blks
  BY <1>1, ReallocPtrLemma
<1> QED BY <1>1, <1>2, NowMerges, NowBlocks, StepOf

LEMMA ReallocMovesNow == ASSUME IInv, UNCHANGED mainVars, ReallocMoves PROVE Now' = Step(Now)
<1>1. /\ call.st = "called" /\ ~ RMerges(Now, call.ptr) /\ ~ (RSize(Now, call.ptr) >= size)
      /\ Step(Now) = Widen(Now)
  <2>1. SizeOf(call.ptr) \in Nat /\ size \in Nat
    BY WidenParts, BlockLemma DEF ReallocMoves, TypeOK
  <2> QED BY <2>1, WidenParts DEF ReallocMoves
<1>2. Now' = Local(Now, "fit", ALIGN((size - DSIZE) + DSIZE), heap, Now.hdr)
  BY <1>1, QuietNow DEF ReallocMoves
<1> QED BY <1>1, <1>2, NowParts DEF Widen

(* coalesce_block, on the headers.                                         *)
LEMMA MergeNow ==
  ASSUME TypeOK, Tiled, NEW bp \in blks, coalesce_block(bp), UNCHANGED <<mem_brk, heap_end>>
  PROVE  Headers' = Merge(Now, bp) /\ RMerges(Now, bp)
<1> DEFINE np == NEXT(bp)
           h  == PACK(SizeOf(bp) + SizeOf(np), GET_ALLOC(mem[HDRP(bp)]))
<1>1. /\ np \in blks /\ np # bp /\ blks' = blks \ {np}
      /\ \A b \in blks \ {bp} : mem'[HDRP(b)] = mem[HDRP(b)]
  BY CoalesceLemma
<1>2. mem'[HDRP(bp)] = h
  BY BlockLemma DEF coalesce_block, WRITE, TypeOK
<1>3. Headers' = [c \in blks \ {np} |-> IF c = bp THEN h ELSE mem[HDRP(c)]]
  BY <1>1, <1>2 DEF Headers
<1>4. /\ RSize(Now, bp) = SizeOf(bp) /\ RSize(Now, np) = SizeOf(np) /\ RNext(Now, bp) = np
      /\ Now.hdr[bp] = mem[HDRP(bp)] /\ Now.hdr = Headers /\ DOMAIN Now.hdr = blks
      /\ \A c \in blks : Now.hdr[c] = mem[HDRP(c)]
  BY <1>1, NowBlocks, NowParts DEF Headers
<1>5. Merge(Now, bp) = [c \in blks \ {np} |-> IF c = bp THEN h ELSE mem[HDRP(c)]]
  BY <1>4 DEF Merge
<1> QED BY <1>3, <1>5, NowMerges DEF coalesce_block

(* Two blocks merged, in memory and in the record.                         *)
LEMMA FitCoalesceNow == ASSUME IInv, UNCHANGED mainVars, FitCoalesce PROVE Now' = Step(Now)
<1>1. /\ call.st = "called" /\ heap_end \in Nat /\ cur \in Nat /\ cur \in blks
      /\ TypeOK /\ Tiled
  BY CursorLemma DEF FitCoalesce, TypeOK
<1>2. Headers' = Merge(Now, cur) /\ RMerges(Now, cur)
  BY <1>1, MergeNow DEF FitCoalesce
<1>3. Now' = Local(Now, "fit", size, cur, Merge(Now, cur))
  BY <1>1, <1>2, LocalNow DEF FitCoalesce, driverVars, UnchangedDriver
<1>4. Step(Now) = Scan(Now) /\ ~ (cur >= heap_end)
  BY <1>1, StepOf DEF FitCoalesce
<1>5. ~ RAlloc(Now, cur) /\ ~ (RSize(Now, cur) >= size)
  BY <1>1, NowBlocks DEF FitCoalesce, Fits
<1> QED BY <1>2, <1>3, <1>4, <1>5, NowParts DEF Scan

LEMMA ReallocCoalesceNow ==
  ASSUME IInv, UNCHANGED mainVars, ReallocCoalesce PROVE Now' = Step(Now)
<1>1. Headers' = Merge(Now, call.ptr) /\ RMerges(Now, call.ptr)
  BY WidenParts, MergeNow DEF ReallocCoalesce
<1>2. Now' = Local(Now, "coalesce", size, cur, Merge(Now, call.ptr))
  BY <1>1, WidenParts, LocalNow DEF ReallocCoalesce, driverVars, UnchangedDriver
<1> QED BY <1>1, <1>2, WidenParts, NowParts DEF Widen, ReallocCoalesce

(* extend_heap, on the headers.                                            *)
LEMMA ExtendNow == ASSUME IInv, UNCHANGED mainVars, Extend PROVE Now' = Step(Now)
<1> PICK nb : nb = mem_brk + DSIZE
  OBVIOUS
<1>1. /\ pc = "extend" /\ pc' = "place" /\ cur' = nb
      /\ UNCHANGED <<driverVars, size>> /\ blks' = blks \union {nb}
      /\ mem_sbrk(size) /\ mem' = WRITE(mem, mem_brk, PACK(size, 0))
      /\ heap_end' = heap_end + size
  BY DEF Extend
<1>2. TypeOK /\ Tiled /\ LocalInv /\ call.st = "called"
  BY <1>1, UsableLemma DEF IInv, TraceInv
<1>3. UNCHANGED <<live, blocks, block_sizes, ranges, call, verdict>> /\ UnchangedDriver
  BY <1>1 DEF driverVars, UnchangedDriver
<1>4. size \in Nat /\ size % 8 = 0 /\ size >= 8 /\ size < INT_MOD
  <2>1. call.size \in 0 .. (INT_MOD \div 2 - 1) /\ INT_MOD \in Nat /\ INT_MOD >= 64
    BY <1>2, MemAssumption DEF TypeOK, DriverTypeOK, MemAssumption
  <2>2. size = ALIGN(call.size + 8)
    BY <1>1, <1>2 DEF LocalInv, DSIZE
  <2> QED BY <2>1, <2>2, AlignLemma
<1>5. nb \notin blks /\ nb \in Nat /\ \A b \in blks : mem'[HDRP(b)] = mem[HDRP(b)]
  BY <1>1, <1>2, <1>4, ExtendLemma
<1>6. mem'[HDRP(nb)] = PACK(size, 0)
  <2>1. mem_brk \in Nat /\ mem_brk % 8 = 0 /\ mem_start_brk <= mem_brk /\ mem_start_brk \in Nat
        /\ mem_max_addr \in Nat
    BY <1>2, MemAssumption DEF TypeOK, MemAssumption, mem_max_addr
  <2>2. mem_brk + size <= mem_max_addr
    BY <1>1, <1>4, <2>1, SbrkLemma DEF mem_sbrk
  <2>3. mem_brk \in Words /\ HDRP(nb) = mem_brk
    BY <1>4, <2>1, <2>2 DEF Words, HDRP, DSIZE
  <2> QED BY <1>1, <1>2, <2>3 DEF TypeOK, WRITE
<1>7. Headers' = [c \in blks \union {nb} |-> IF c = nb THEN PACK(size, 0) ELSE mem[HDRP(c)]]
  BY <1>1, <1>5, <1>6 DEF Headers
<1>8. Made' = Made /\ Held' = Held
  BY <1>2, <1>3, SameRequest
<1>9. Step(Now) = Grow(Now)
  BY <1>1, <1>2, StepOf
<1>10. ~ (ToInt(size) < 0 \/ mem_brk + ToInt(size) > mem_max_addr) /\ mem_brk' = mem_brk + ToInt(size)
  BY <1>1 DEF mem_sbrk, SbrkFails
<1>11. [c \in DOMAIN Now.hdr \union {nb} |-> IF c = nb THEN PACK(size, 0) ELSE Now.hdr[c]] = Headers'
  BY <1>5, <1>7, NowParts DEF Headers
<1>12. Grow(Now) = Rec(Made, call, "place", size, nb, heap_end + size, mem_brk + ToInt(size), Headers', Held)
  BY <1>10, <1>11, NowParts DEF Grow
<1>13. Now' = Rec(Made, call, "place", size, nb, heap_end + size, mem_brk + ToInt(size), Headers', Held)
  BY <1>1, <1>3, <1>8, <1>10 DEF Now
<1> QED BY <1>9, <1>12, <1>13

(* cut_block, on the headers.                                              *)
LEMMA CutNow ==
  ASSUME TypeOK, Tiled, NEW bp \in blks,
         NEW n \in Nat, n % 8 = 0, n >= 8, SizeOf(bp) >= n
  PROVE  Cut(Now, bp, n) = [b \in CutBlks(bp, n) |-> CutMem(bp, n)[HDRP(b)]]
<1>1. /\ bp \in Nat /\ HDRP(bp) \in Words /\ mem \in [Words -> Nat] /\ HDRP(bp) = bp - 8
      /\ \A b \in blks : b \in Nat /\ HDRP(b) = b - 8 /\ HDRP(b) \in Words
      /\ SizeOf(bp) \in Nat /\ SizeOf(bp) % 8 = 0
      /\ \A c \in blks : bp < c => bp + SizeOf(bp) <= c
  BY BlockLemma DEF TypeOK, HDRP, DSIZE, Tiled, NEXT
<1>2. /\ RSize(Now, bp) = SizeOf(bp) /\ DOMAIN Now.hdr = blks
      /\ \A c \in blks : Now.hdr[c] = mem[HDRP(c)]
  BY NowBlocks, NowParts DEF Headers
<1>3. CASE Cuts(bp, n)
  <2>1. SizeOf(bp) >= n + 8 /\ SizeOf(bp) >= DSIZE + n
    BY <1>1, <1>3 DEF Cuts, DSIZE
  <2> DEFINE w == HDRP(bp) + n
             x == PACK(n, GET_ALLOC(mem[HDRP(bp)]))
             y == PACK(SizeOf(bp) - n, 0)
  <2>2. w \in Words /\ HDRP(bp + n) = w /\ bp + n \notin blks /\ bp + n # bp
    <3>1. NEXT(bp) <= heap_end /\ heap_end = mem_brk + 8
      BY BlockLemma DEF Tiled, DSIZE
    <3>2. /\ mem_brk \in Nat /\ mem_brk <= mem_max_addr /\ mem_start_brk \in Nat
          /\ mem_max_addr \in Nat
      BY MemAssumption DEF MemAssumption, TypeOK, mem_max_addr
    <3>3. bp + n + 8 <= mem_brk + 8 /\ bp - 8 >= mem_start_brk /\ bp % 8 = 0
      BY <1>1, <2>1, <3>1, <3>2, BlockLemma DEF NEXT, heap, DSIZE
    <3>4. w \in Words /\ HDRP(bp + n) = w
      BY <1>1, <3>2, <3>3 DEF Words, HDRP, DSIZE
    <3> QED BY <1>1, <2>1, <3>4
  <2>3. CutMem(bp, n) = [mem EXCEPT ![HDRP(bp)] = x, ![w] = y]
    BY <1>3 DEF CutMem
  <2>4. /\ CutMem(bp, n)[HDRP(bp)] = x /\ CutMem(bp, n)[w] = y
        /\ \A b \in blks \ {bp} : CutMem(bp, n)[HDRP(b)] = mem[HDRP(b)]
    <3>1. w # HDRP(bp)
      BY <1>1, <2>2
    <3>2. \A b \in blks \ {bp} : HDRP(b) # w /\ HDRP(b) # HDRP(bp)
      BY <1>1, <2>1
    <3> HIDE DEF w, x, y
    <3> QED BY <1>1, <2>2, <2>3, <3>1, <3>2
  <2>5. Cut(Now, bp, n) = [c \in blks \union {bp + n} |->
                             IF c = bp THEN x ELSE IF c = bp + n THEN y ELSE mem[HDRP(c)]]
    <3>1. Now.hdr[bp] = mem[HDRP(bp)]
      BY <1>2
    <3>2. Cut(Now, bp, n) = [c \in blks \union {bp + n} |->
                             IF c = bp THEN x ELSE IF c = bp + n THEN y ELSE Now.hdr[c]]
      BY <1>2, <2>1, <3>1 DEF Cut
    <3> QED BY <1>2, <3>2
  <2>6. CutBlks(bp, n) = blks \union {bp + n}
    BY <1>3 DEF CutBlks
  <2> HIDE DEF w, x, y
  <2> QED BY <2>2, <2>4, <2>5, <2>6
<1>4. CASE ~ Cuts(bp, n)
  <2>1. CutBlks(bp, n) = blks /\ CutMem(bp, n) = mem /\ ~ (SizeOf(bp) >= DSIZE + n)
    BY <1>4 DEF CutBlks, CutMem, Cuts
  <2>2. Cut(Now, bp, n) = Headers
    BY <1>2, <2>1, NowParts DEF Cut
  <2> QED BY <2>1, <2>2 DEF Headers
<1> QED BY <1>3, <1>4

(* The size mm_malloc and mm_realloc look for.                             *)
LEMMA WantedSize ==
  ASSUME IInv, pc \notin {"idle", "crashed"}
  PROVE  size \in Nat /\ size % 8 = 0 /\ size >= 8
<1>1. TypeOK /\ LocalInv
  BY UsableLemma DEF IInv
<1>2. call.size \in Nat
  BY <1>1, MemAssumption DEF TypeOK, DriverTypeOK, MemAssumption
<1>3. size = ALIGN(call.size + 8)
  BY <1>1 DEF LocalInv, DSIZE
<1> QED BY <1>2, <1>3, AlignLemma

(* The block found is cut and marked allocated.                            *)
LEMMA PlaceNow == ASSUME IInv, UNCHANGED mainVars, Place PROVE Now' = Step(Now)
<1> PICK bp : bp = cur
  OBVIOUS
<1>1. /\ pc = "place" /\ mem' = WRITE(CutMem(bp, size), HDRP(bp), PACK(size, 1))
      /\ blks' = CutBlks(bp, size)
      /\ UnchangedDriver /\ UNCHANGED <<mem_brk, heap_end>>
      /\ \/ call.fn = "mm_malloc" /\ Return(bp)
         \/ call.fn # "mm_malloc" /\ pc' = "copy" /\ UNCHANGED <<call, size, cur>>
  BY DEF Place
<1>2. TypeOK /\ Tiled /\ LocalInv /\ call.st = "called"
  BY <1>1, UsableLemma DEF IInv, TraceInv
<1>3. /\ bp \in blks /\ SizeOf(bp) >= size /\ bp \in Nat
      /\ size \in Nat /\ size % 8 = 0 /\ size >= 8
  BY <1>1, <1>2, WantedSize, BlockLemma DEF LocalInv
<1> DEFINE m == CutMem(bp, size)
           c == Cut(Now, bp, size)
<1>4. /\ c = [b \in CutBlks(bp, size) |-> m[HDRP(b)]]
      /\ m \in [Words -> Nat] /\ HDRP(bp) \in Words
  BY <1>2, <1>3, CutNow, CutMemLemma, BlockLemma
<1>5. \A b \in CutBlks(bp, size) \ {bp} : HDRP(b) # HDRP(bp)
  <2>1. \A b \in CutBlks(bp, size) : b \in Nat
    BY <1>2, <1>3, BlockLemma DEF CutBlks
  <2> QED BY <1>3, <2>1 DEF HDRP, DSIZE
<1>6. bp \in CutBlks(bp, size)
  BY <1>3 DEF CutBlks
<1>8. [c EXCEPT ![bp] = PACK(size, 1)] = Headers'
  <2> HIDE DEF m, c
  <2>1. mem' = [m EXCEPT ![HDRP(bp)] = PACK(size, 1)]
    BY <1>1 DEF WRITE, m
  <2>2. \A b \in CutBlks(bp, size) :
          mem'[HDRP(b)] = IF b = bp THEN PACK(size, 1) ELSE m[HDRP(b)]
    BY <1>4, <1>5, <2>1
  <2>3. Headers' = [b \in CutBlks(bp, size) |-> IF b = bp THEN PACK(size, 1) ELSE m[HDRP(b)]]
    BY <1>1, <2>2 DEF Headers
  <2> QED BY <1>4, <1>6, <2>3
<1>9. Step(Now) = Put(Now)
  BY <1>1, <1>2, StepOf
<1>10. CASE call.fn = "mm_malloc"
  <2>1. Now' = Answer(Now, bp, Headers')
    BY <1>1, <1>2, <1>3, <1>10, AnswerNow
  <2> QED BY <1>8, <1>9, <1>10, <2>1, NowParts DEF Put
<1>11. CASE call.fn # "mm_malloc"
  <2>1. Now' = Local(Now, "copy", size, bp, Headers')
    BY <1>1, <1>2, <1>11, LocalNow
  <2> QED BY <1>8, <1>9, <1>11, <2>1, NowParts DEF Put
<1> QED BY <1>10, <1>11

(* mm_free, on the headers.                                                *)
LEMMA FreedNow ==
  ASSUME TypeOK, Tiled, NEW bp \in blks, mem' = FreeMem(mem, bp), blks' = blks
  PROVE  Headers' = Freed(Now, bp)
<1>1. /\ HDRP(bp) \in Words /\ mem \in [Words -> Nat]
      /\ \A b \in blks \ {bp} : HDRP(b) # HDRP(bp) /\ HDRP(b) \in Words
  BY BlockLemma DEF HDRP, DSIZE, TypeOK
<1> DEFINE h == PACK(GET_SIZE(mem[HDRP(bp)]), 0)
<1>2. mem' = [mem EXCEPT ![HDRP(bp)] = h]
  BY DEF FreeMem, WRITE
<1>3. Freed(Now, bp) = [[b \in blks |-> mem[HDRP(b)]] EXCEPT ![bp] = h]
  BY NowParts DEF Freed, Headers
<1> HIDE DEF h
<1>4. \A b \in blks : mem'[HDRP(b)] = IF b = bp THEN h ELSE mem[HDRP(b)]
  BY <1>1, <1>2
<1> QED BY <1>3, <1>4 DEF Headers

(* The actions that answer: free, realloc to 0, the placements and the copy. *)
LEMMA FreeNow == ASSUME IInv, UNCHANGED mainVars, mm_free PROVE Now' = Step(Now)
<1>1. /\ Called("mm_free") /\ Return(0) /\ UnchangedDriver /\ pc = "idle"
      /\ UNCHANGED <<mem_brk, heap_end, blks>>
  BY DEF mm_free
<1>2. TypeOK /\ Tiled /\ RequestInv /\ call.st = "called" /\ call.fn = "mm_free"
  BY <1>1, UsableLemma DEF IInv, Called
<1>3. call.ptr \in blks
  BY <1>1, <1>2 DEF RequestInv, Fresh
<1>4. call.ptr # NULL
  BY <1>2, <1>3, BlockLemma, MemAssumption DEF heap, DSIZE, NULL, MemAssumption
<1>5. Headers' = Freed(Now, call.ptr)
  BY <1>1, <1>2, <1>3, <1>4, FreedNow DEF mm_free
<1>6. Now' = Answer(Now, 0, Headers') /\ Step(Now) = Enter(Now)
  BY <1>1, <1>2, AnswerNow, StepOf
<1> QED BY <1>2, <1>5, <1>6, NowParts DEF Enter

LEMMA ReallocToZeroNow == ASSUME IInv, UNCHANGED mainVars, ReallocToZero PROVE Now' = Step(Now)
<1>1. /\ Called("mm_realloc") /\ Return(0) /\ UnchangedDriver /\ pc = "idle" /\ call.size = 0
      /\ UNCHANGED <<mem_brk, heap_end, blks>> /\ mem' = FreeMem(mem, call.ptr)
  BY DEF ReallocToZero, NULL
<1>2. /\ TypeOK /\ Tiled /\ call.ptr \in blks /\ call.st = "called" /\ call.fn = "mm_realloc"
  BY <1>1, ReallocPtrLemma DEF Called
<1>3. Headers' = Freed(Now, call.ptr)
  BY <1>1, <1>2, FreedNow
<1>4. Now' = Answer(Now, 0, Headers') /\ Step(Now) = Enter(Now)
  BY <1>1, <1>2, AnswerNow, StepOf
<1> QED BY <1>1, <1>2, <1>3, <1>4, NowParts DEF Enter

(* mm_realloc keeps its block, cut to the size asked for.                  *)
LEMMA ReallocInPlaceNow ==
  ASSUME IInv, UNCHANGED mainVars, ReallocInPlace PROVE Now' = Step(Now)
<1> PICK bp : bp = call.ptr
  OBVIOUS
<1>1. /\ pc = "coalesce" /\ SizeOf(bp) >= size /\ mem' = CutMem(bp, size) /\ ~ CanCoalesce(bp)
      /\ blks' = CutBlks(bp, size) /\ Return(bp)
      /\ UnchangedDriver /\ UNCHANGED <<mem_brk, heap_end>>
  BY DEF ReallocInPlace
<1>2. /\ TypeOK /\ Tiled /\ bp \in blks /\ bp \in Nat /\ call.st = "called"
      /\ ~ RMerges(Now, bp) /\ RSize(Now, bp) >= size /\ Step(Now) = Widen(Now)
  BY <1>1, WidenParts, BlockLemma
<1>3. size \in Nat /\ size % 8 = 0 /\ size >= 8
  BY <1>1, WantedSize
<1> DEFINE c == Cut(Now, bp, size)
<1>4. c = [b \in CutBlks(bp, size) |-> mem'[HDRP(b)]]
  BY <1>1, <1>2, <1>3, CutNow
<1>5. c = Headers'
  BY <1>1, <1>4 DEF Headers
<1>6. Now' = Answer(Now, bp, Headers')
  BY <1>1, <1>2, AnswerNow
<1> QED BY <1>2, <1>5, <1>6, NowParts DEF Widen

(* mm_realloc moves the payload: no header changes but the two it sets.    *)
LEMMA ReallocCopyNow == ASSUME IInv, UNCHANGED mainVars, ReallocCopy PROVE Now' = Step(Now)
<1> PICK bp : bp = cur
  OBVIOUS
<1> PICK old : old = call.ptr
  OBVIOUS
<1> DEFINE moved == MemMove(mem, bp, old, SizeOf(old) - DSIZE)
           set   == WRITE(moved, HDRP(bp), PACK(GET_SIZE(moved[HDRP(bp)]), 1))
<1>1. /\ pc = "copy" /\ mem' = FreeMem(set, old) /\ Return(bp)
      /\ UnchangedDriver /\ UNCHANGED <<mem_brk, heap_end, blks>>
  BY DEF ReallocCopy
<1>2. TypeOK /\ Tiled /\ LocalInv
  BY <1>1, UsableLemma DEF IInv
<1>3. call.st = "called" /\ call.fn = "mm_realloc" /\ Called("mm_realloc")
  BY <1>1, <1>2 DEF IInv, TraceInv, LocalInv, Called
<1>4. old \in blks /\ call.id \in Ids /\ Holds(call.id) /\ Addr(call.id) = old
  BY <1>3, ReallocPtrLemma
<1>5. bp \in blks /\ bp \in Nat /\ old # bp /\ SizeOf(old) < SizeOf(bp)
  BY <1>1, <1>2, <1>3, <1>4, BlockLemma DEF LocalInv, Fresh
<1>6. moved \in [Words -> Nat] /\ \A b \in blks : moved[HDRP(b)] = mem[HDRP(b)]
  BY <1>2, <1>4, <1>5, MoveLemma
<1>7. /\ \A b \in blks : HDRP(b) \in Words
      /\ \A b, c \in blks : b # c => HDRP(b) # HDRP(c)
  BY <1>2, BlockLemma DEF HDRP, DSIZE
<1> DEFINE x == PACK(SizeOf(bp), 1)
           y == PACK(SizeOf(old), 0)
<1>8. set = [moved EXCEPT ![HDRP(bp)] = x]
  BY <1>5, <1>6 DEF WRITE, SizeOf
<1>9. \A b \in blks : set[HDRP(b)] = IF b = bp THEN x ELSE mem[HDRP(b)]
  <2> HIDE DEF moved, set, x
  <2> QED BY <1>5, <1>6, <1>7, <1>8
<1>10. mem' = [set EXCEPT ![HDRP(old)] = y]
  <2>1. GET_SIZE(set[HDRP(old)]) = SizeOf(old)
    BY <1>4, <1>5, <1>9 DEF SizeOf
  <2> HIDE DEF set
  <2> QED BY <1>1, <2>1 DEF FreeMem, WRITE
<1>11. \A b \in blks : mem'[HDRP(b)] = IF b = old THEN y ELSE IF b = bp THEN x ELSE mem[HDRP(b)]
  <2>1. set = [moved EXCEPT ![HDRP(bp)] = x] /\ DOMAIN moved = Words
    BY <1>6, <1>8
  <2> HIDE DEF moved, set, x, y
  <2> QED BY <1>4, <1>5, <1>7, <1>9, <1>10, <2>1
<1>12. Headers' = [b \in blks |-> IF b = old THEN y ELSE IF b = bp THEN x ELSE mem[HDRP(b)]]
  <2> HIDE DEF x, y
  <2> QED BY <1>1, <1>11 DEF Headers
<1>13. /\ DOMAIN Now.hdr = blks /\ \A b \in blks : Now.hdr[b] = mem[HDRP(b)]
       /\ RSize(Now, bp) = SizeOf(bp) /\ RSize(Now, old) = SizeOf(old)
  BY <1>4, <1>5, NowBlocks, NowParts DEF Headers
<1>14. [c \in DOMAIN Now.hdr |-> IF c = old THEN PACK(RSize(Now, c), 0)
                               ELSE IF c = bp THEN PACK(RSize(Now, c), 1) ELSE Now.hdr[c]] = Headers'
  BY <1>12, <1>13
<1>15. Now' = Answer(Now, bp, Headers') /\ Step(Now) = Move(Now)
  BY <1>1, <1>2, <1>3, <1>5, AnswerNow, StepOf
<1> QED BY <1>14, <1>15, NowParts DEF Move

(* Every step of the package but mm_init, whose heap is always the same.   *)
LEMMA PackageNow ==
  ASSUME IInv, UNCHANGED mainVars, PackageStep, call.fn # "mm_init"
  PROVE  Now' = Step(Now)
BY MallocNow, FitEndNow, FitSkipNow, FitTakeNow, FitCoalesceNow, FitNextNow,
   ExtendNow, ExtendFailsNow, PlaceNow, FreeNow, ReallocToZeroNow, ReallocNow,
   ReallocCoalesceNow, ReallocInPlaceNow, ReallocMovesNow, ReallocCopyNow
   DEF PackageStep, mm_init, Called

(* The heap mm_init leaves.                                                *)
FreshHeap ==
  /\ heap_end = heap + DSIZE /\ mem_brk = mem_start_brk + DSIZE /\ blks = {heap}
  /\ mem[HDRP(heap)] = PACK(DSIZE, 0) /\ pc = "idle" /\ size = 0 /\ cur = 0 /\ live = {}
Room == mem_start_brk + DSIZE <= mem_max_addr

(* mm_init succeeds when the region has room for one double word.          *)
LEMMA InitNow ==
  ASSUME IInv, mm_init
  PROVE  /\ Returned("mm_init")'
         /\ \/ call'.ret = 0 /\ FreshHeap' /\ Room
            \/ call'.ret = -1 /\ ~ Room
<1>1. /\ Called("mm_init") /\ UnchangedDriver /\ TypeOK /\ live = {} /\ mem_brk = mem_start_brk
      /\ mem \in [Words -> Nat]
  BY DEF mm_init, IInv, TraceInv, TypeOK
<1>2. /\ mem_start_brk \in Nat /\ mem_start_brk % 8 = 0 /\ mem_max_addr \in Nat
      /\ DSIZE \in Nat /\ DSIZE < INT_MOD /\ DSIZE = 8 /\ INT_MOD \in Nat
  BY MemAssumption DEF MemAssumption, mem_max_addr, DSIZE
<1>3. ToInt(8) = 8
  <2>1. 8 % INT_MOD = 8 /\ 8 < INT_MOD \div 2
    BY <1>2, MemAssumption, Z3 DEF MemAssumption
  <2> QED BY <2>1 DEF ToInt
<1>4. CASE SbrkFails(DSIZE)
  <2>1. ~ Room
    BY <1>1, <1>2, <1>3, <1>4 DEF SbrkFails, Room, mem_max_addr
  <2>2. Return(-1)
    BY <1>4 DEF mm_init
  <2>3. call'.st = "returned" /\ call'.ret = -1 /\ call'.fn = "mm_init"
    BY <1>1, <2>2, ReturnLemma DEF Called
  <2> QED BY <2>1, <2>3 DEF Returned
<1>5. CASE ~ SbrkFails(DSIZE)
  <2>1. /\ mem_sbrk(DSIZE) /\ mem' = WRITE(mem, HDRP(heap), PACK(DSIZE, 0))
        /\ heap_end' = heap + DSIZE /\ blks' = {heap} /\ Return(0)
    BY <1>5 DEF mm_init
  <2>2. Room /\ mem_brk' = mem_start_brk + DSIZE
    BY <1>1, <1>2, <1>3, <1>5, <2>1 DEF SbrkFails, Room, mem_max_addr, mem_sbrk
  <2>3. HDRP(heap) \in Words
    BY <1>2, <2>2 DEF HDRP, heap, Words, Room
  <2>4. mem'[HDRP(heap)] = PACK(DSIZE, 0)
    BY <1>1, <2>1, <2>3 DEF WRITE
  <2>5. /\ call'.st = "returned" /\ call'.ret = 0 /\ call'.fn = "mm_init"
        /\ pc' = "idle" /\ size' = 0 /\ cur' = 0
    BY <1>1, <2>1, ReturnLemma DEF Called
  <2> QED BY <1>1, <2>1, <2>2, <2>4, <2>5 DEF FreshHeap, Returned, UnchangedDriver, HDRP, heap
<1> QED BY <1>4, <1>5

(* A trace starts from one and the same record.                            *)
LEMMA StartNow ==
  ASSUME FreshHeap, call = NoCall, Made = 0
  PROVE  Now = Start
<1>1. Headers = [b \in {heap} |-> PACK(DSIZE, 0)]
  BY DEF FreshHeap, Headers
<1>2. Held = [i \in {} |-> <<0, 0>>]
  BY DEF FreshHeap, Held
<1> QED BY <1>1, <1>2 DEF FreshHeap, Now, Start

(***************************************************************************)
(* Histories.                                                              *)
(***************************************************************************)
(* Only the function, the identifier and the size of a request count.      *)
LEMMA SameIssue ==
  ASSUME NEW s, NEW a, NEW b, a.fn = b.fn, a.id = b.id, a.size = b.size
  PROVE  Issue(s, a) = Issue(s, b) /\ (Proper(s, a) <=> Proper(s, b))
  BY DEF Issue, Proper

(* A history is prolonged by what follows its last record.                 *)
LEMMA HistoryGrows ==
  ASSUME NEW S, NEW s, NEW t, NEW T, NEW O, NEW T2, NEW O2, History(S, {s}, T, O),
         Len(T) \in Nat, Len(T2) \in Nat, Len(T) <= Len(T2),
         \A i \in 1 .. Len(T) : /\ T2[i].fn = T[i].fn /\ T2[i].id = T[i].id
                               /\ T2[i].size = T[i].size,
         Len(O) \in Nat, Len(O2) \in Nat, Len(O) <= Len(O2),
         \A i \in 1 .. Len(O) : O2[i] = O[i],
         t.pc # "crashed", Follows(s, S \union {t}, {t}, T2, O2)
  PROVE  History(S \union {t}, {t}, T2, O2)
<1>1. ASSUME NEW r \in S, r # s
      PROVE  r.pc # "crashed" /\ Follows(r, S \union {t}, {t}, T2, O2)
  <2>1. r.pc # "crashed" /\ Follows(r, S, {s}, T, O)
    BY DEF History
  <2>2. CASE /\ r.call.st = "none" /\ r.k + 1 \in 1 .. Len(T)
             /\ Proper(r, T[r.k + 1]) /\ Issue(r, T[r.k + 1]) \in S
    <3>1. r.k + 1 \in 1 .. Len(T2)
      BY <2>2
    <3>2. Issue(r, T2[r.k + 1]) = Issue(r, T[r.k + 1]) /\ Proper(r, T2[r.k + 1])
      <4>1. PICK a, b : a = T[r.k + 1] /\ b = T2[r.k + 1]
        OBVIOUS
      <4>2. b.fn = a.fn /\ b.id = a.id /\ b.size = a.size
        BY <2>2, <4>1
      <4>3. Issue(r, b) = Issue(r, a) /\ (Proper(r, b) <=> Proper(r, a))
        BY <4>2, SameIssue
      <4> QED BY <2>2, <4>1, <4>3
    <3>3. Issue(r, T2[r.k + 1]) \in S \union {t}
      BY <2>2, <3>2
    <3> QED BY <2>1, <2>2, <3>1, <3>2, <3>3, Zenon DEF Follows
  <2>3. CASE /\ r.call.st # "none" /\ Step(r) \in S
             /\ r.call.st = "returned" => Answers(r, O)
    BY <2>1, <2>3 DEF Follows, Answers
  <2> QED BY <1>1, <2>1, <2>2, <2>3 DEF Follows
<1>2. t.pc # "crashed" /\ Follows(t, S \union {t}, {t}, T2, O2)
  BY DEF Follows
<1>3. s \in S => s.pc # "crashed"
  BY DEF History
<1> HIDE DEF Follows
<1> QED BY <1>1, <1>2, <1>3 DEF History

(* The history of the trace before its first request.                      *)
LEMMA HistoryStarts ==
  ASSUME NEW T, NEW O
  PROVE  History({Start}, {Start}, T, O)
  BY RecParts DEF History, Follows, Start

(* A trace on record is replayed to its end.                               *)
LEMMA HistoryEnds ==
  ASSUME NEW S, NEW s, NEW O, s \in S, History(S, {s}, O, O),
         s.call.st = "none", s.k = Len(O)
  PROVE  History(S, Ends(S, O), O, O)
  BY DEF History, Follows, Ends

(***************************************************************************)
(* The inductive invariant.                                                *)
(***************************************************************************)
OpRec == [fn : Calls, id : Nat, size : 0 .. (INT_MOD \div 2 - 1), ret : Int]

MainOK ==
  /\ phase \in {"valid", "util", "speed", "next"}
  /\ ops \in Seq(OpRec) /\ opnum \in 1 .. (Len(ops) + 1)
  /\ phase = "valid" => opnum = 1
  /\ call.st = "none" => call = NoCall
  /\ phase # "valid" => verdict = "running" /\ Room
  /\ phase = "next" => call.st = "none"
  /\ call.fn = "none" => call.st = "none"
  /\ call.fn = "mm_init" => opnum = 1 /\ (phase = "valid" => ops = <<>>)
  /\ Returned("mm_init") => \/ call.ret = 0 /\ FreshHeap /\ Room
                            \/ call.ret = -1 /\ ~ Room

(* The heap of IInv, in the replays too; a program that app_error has not  *)
(* ended; and a history that the replays cannot leave.                     *)
MInv == IInv /\ MainOK /\ Faithful

(* The parts of the record of the next state.                              *)
LEMMA NextParts ==
  /\ Now'.k = Made' /\ Now'.call = call' /\ Now'.pc = pc' /\ Now'.hdr = Headers'
  /\ Now'.held = Held'
  BY DEF Now, Rec

(* The trace with the request under way.                                   *)
LEMMA TraceParts ==
  ASSUME TypeOK, MainOK
  PROVE  /\ Asked \in OpRec /\ Len(ops) \in Nat
         /\ phase = "valid" /\ call.st # "none" =>
              /\ Trace = Append(ops, Asked) /\ Trace \in Seq(OpRec)
              /\ Len(Trace) = Len(ops) + 1 /\ Trace[Len(ops) + 1] = Asked
              /\ \A i \in 1 .. Len(ops) : Trace[i] = ops[i]
         /\ ~ (phase = "valid" /\ call.st # "none") => Trace = ops
<1>1. Asked \in OpRec /\ ops \in Seq(OpRec)
  BY DEF Asked, OpRec, MainOK, TypeOK, DriverTypeOK
<1> HIDE DEF Asked
<1>2. /\ Append(ops, Asked) \in Seq(OpRec) /\ Len(Append(ops, Asked)) = Len(ops) + 1
      /\ Append(ops, Asked)[Len(ops) + 1] = Asked /\ Len(ops) \in Nat
      /\ \A i \in 1 .. Len(ops) : Append(ops, Asked)[i] = ops[i]
  BY <1>1
<1> QED BY <1>1, <1>2 DEF Trace

(* What no step of the package touches.                                    *)
LEMMA PackageFrame ==
  ASSUME TypeOK, TraceInv, PackageStep
  PROVE  /\ call.st = "called" /\ call'.st \in {"called", "returned"} /\ pc # "crashed"
         /\ call'.fn = call.fn /\ call'.id = call.id /\ call'.size = call.size
         /\ UNCHANGED <<live, blocks, block_sizes, ranges, verdict>>
         /\ mem_brk' = mem_brk \/ Extend \/ mm_init
<1>1. call.st = "called"
  BY DEF PackageStep, mm_init, mm_malloc, FitEnd, FitSkip, FitTake, FitCoalesce, FitNext,
         Extend, ExtendFails, Place, mm_free, ReallocToZero, mm_realloc, ReallocCoalesce,
         ReallocInPlace, ReallocMoves, ReallocCopy, Called, TraceInv
<1>2. pc # "crashed"
  BY DEF PackageStep, mm_init, mm_malloc, FitEnd, FitSkip, FitTake, FitCoalesce, FitNext,
         Extend, ExtendFails, Place, mm_free, ReallocToZero, mm_realloc, ReallocCoalesce,
         ReallocInPlace, ReallocMoves, ReallocCopy
<1>3. UNCHANGED <<live, blocks, block_sizes, ranges, verdict>>
  BY DEF PackageStep, mm_init, mm_malloc, FitEnd, FitSkip, FitTake, FitCoalesce, FitNext,
         Extend, ExtendFails, Place, mm_free, ReallocToZero, mm_realloc, ReallocCoalesce,
         ReallocInPlace, ReallocMoves, ReallocCopy, UnchangedDriver, driverVars
<1>4. call' = call \/ \E v : call' = [call EXCEPT !.st = "returned", !.ret = v]
  BY DEF PackageStep, mm_init, mm_malloc, FitEnd, FitSkip, FitTake, FitCoalesce, FitNext,
         Extend, ExtendFails, Place, mm_free, ReallocToZero, mm_realloc, ReallocCoalesce,
         ReallocInPlace, ReallocMoves, ReallocCopy, Return, driverVars
<1>5. /\ call'.st \in {"called", "returned"} /\ call'.fn = call.fn /\ call'.id = call.id
      /\ call'.size = call.size
  BY <1>1, <1>4 DEF TypeOK, DriverTypeOK
<1>6. mem_brk' = mem_brk \/ Extend \/ mm_init
  BY DEF PackageStep, mm_malloc, FitEnd, FitSkip, FitTake, FitCoalesce, FitNext,
         ExtendFails, Place, mm_free, ReallocToZero, mm_realloc, ReallocCoalesce,
         ReallocInPlace, ReallocMoves, ReallocCopy, memVars
<1> QED BY <1>1, <1>2, <1>3, <1>5, <1>6

(***************************************************************************)
(* Steps of the package.                                                   *)
(***************************************************************************)
LEMMA PackageMainOK ==
  ASSUME MInv, PackageStep, UNCHANGED mainVars
  PROVE  MainOK'
<1>1. TypeOK /\ TraceInv /\ MainOK
  BY DEF MInv, IInv
<1>2. UNCHANGED <<phase, recorded, ops, opnum>>
  BY DEF mainVars
<1>3. /\ call.st = "called" /\ call'.st \in {"called", "returned"} /\ call'.fn = call.fn
      /\ verdict' = verdict
  BY <1>1, PackageFrame
<1>4. ASSUME call.fn = "mm_init" PROVE mm_init
  <2>1. pc = "idle" /\ ~ Called("mm_malloc") /\ ~ Called("mm_free") /\ ~ Called("mm_realloc")
    BY <1>1, <1>4 DEF TraceInv, Called
  <2> QED BY <2>1 DEF PackageStep, mm_malloc, FitEnd, FitSkip, FitTake, FitCoalesce,
       FitNext, Extend, ExtendFails, Place, mm_free, ReallocToZero, mm_realloc, ReallocCoalesce,
       ReallocInPlace, ReallocMoves, ReallocCopy
<1>5. Returned("mm_init")' =>
        (call'.ret = 0 /\ FreshHeap' /\ Room) \/ (call'.ret = -1 /\ ~ Room)
  BY <1>3, <1>4, InitNow DEF MInv, Returned
<1> QED BY <1>1, <1>2, <1>3, <1>5 DEF MainOK, Room

(* While the evaluation goes on, its history stays one that the records    *)
(* follow: a step of the package is a Step.                                *)
LEMMA PackageFaithful ==
  ASSUME MInv, PackageStep, UNCHANGED mainVars
  PROVE  Faithful'
<1>1. IInv /\ TypeOK /\ TraceInv /\ MainOK /\ Faithful /\ TypeOK' /\ MainOK'
  BY PackageMainOK, PackageInv DEF MInv, IInv
<1>2. UNCHANGED <<phase, recorded, ops, opnum>>
  BY DEF mainVars
<1>3. /\ call.st = "called" /\ call'.st \in {"called", "returned"} /\ call'.fn = call.fn
      /\ call'.id = call.id /\ call'.size = call.size
      /\ verdict' = verdict /\ pc # "crashed"
  BY <1>1, PackageFrame
<1>4. call.fn # "mm_init" => Now' = Step(Now)
  BY <1>1, PackageNow
<1>5. Now.call = call /\ Now'.pc = pc'
  BY NowParts, NextParts
<1>6. ASSUME Recorded' PROVE \E S : Now' \in S /\ History(S, {Now'}, Trace', ops')
  <2>1. Recorded /\ call.fn # "mm_init" /\ pc' # "crashed" /\ phase = "valid"
    BY <1>2, <1>3, <1>6 DEF Recorded
  <2>2. PICK S : Now \in S /\ History(S, {Now}, Trace, ops)
    BY <1>1, <2>1 DEF Faithful
  <2>3. Follows(Now, S \union {Now'}, {Now'}, Trace', ops')
    BY <1>3, <1>4, <1>5, <2>1 DEF Follows
  <2>4. PICK T, T2 : T = Trace /\ T2 = Trace'
    OBVIOUS
  <2>5. /\ Len(T) \in Nat /\ Len(T2) = Len(T) /\ Len(ops) \in Nat
        /\ \A i \in 1 .. Len(T) : /\ T2[i].fn = T[i].fn /\ T2[i].id = T[i].id
                                 /\ T2[i].size = T[i].size
    <3>1. T = Append(ops, Asked) /\ T2 = Append(ops, Asked') /\ ops \in Seq(OpRec)
      BY <1>2, <1>3, <2>1, <2>4, <1>1 DEF Trace, MainOK
    <3>2. /\ Asked \in OpRec /\ Asked' \in OpRec
          /\ Asked'.fn = Asked.fn /\ Asked'.id = Asked.id /\ Asked'.size = Asked.size
      BY <1>1, <1>3 DEF Asked, OpRec, TypeOK, DriverTypeOK
    <3> HIDE DEF Asked
    <3> QED BY <3>1, <3>2
  <2>6. History(S \union {Now'}, {Now'}, Trace', ops')
    <3> HIDE DEF Now, Trace
    <3> QED BY <1>2, <1>5, <2>1, <2>2, <2>3, <2>4, <2>5, HistoryGrows
  <2> QED BY <2>6
<1>7. ASSUME Replays'
      PROVE  \E S : /\ History(S, Ends(S, ops'), ops', ops')
                    /\ call'.fn # "mm_init" => Now' \in S
  <2>1. PICK S : /\ History(S, Ends(S, ops), ops, ops)
                 /\ call.fn # "mm_init" => Now \in S
    BY <1>1, <1>2, <1>7 DEF Faithful, Replays
  <2>2. call.fn # "mm_init" => Step(Now) \in S
    BY <1>3, <1>5, <2>1 DEF History, Follows, Ends
  <2> QED BY <1>2, <1>3, <1>4, <2>1, <2>2
<1> QED BY <1>6, <1>7 DEF Faithful

(* A step of the package keeps the invariant, in every phase.              *)
LEMMA PackageMain ==
  ASSUME MInv, PackageStep, UNCHANGED mainVars
  PROVE  MInv'
  BY PackageInv, PackageMainOK, PackageFaithful DEF MInv

(***************************************************************************)
(* Answers and requests, in the first evaluation and in the replays.       *)
(***************************************************************************)
(* The driver takes an answer it accepts.                                  *)
LEMMA TakeNow ==
  ASSUME TypeOK, call.st = "returned", call' = NoCall, Made' = Made,
         UNCHANGED <<mem_brk, heap_end, pc, size, cur, blks>>,
         \A b \in blks : mem'[HDRP(b)] = mem[HDRP(b)],
         \/ call.fn = "mm_free" /\ UNCHANGED <<live, blocks, block_sizes>>
         \/ /\ call.fn # "mm_free" /\ call.id \in Ids
            /\ live' = live \union {call.id}
            /\ blocks' = [blocks EXCEPT ![call.id] = call.ret]
            /\ block_sizes' = [block_sizes EXCEPT ![call.id] = call.size]
  PROVE  Now' = Step(Now)
<1>1. Headers' = Headers
  BY DEF Headers, HDRP
<1>2. Held' = IF call.fn = "mm_free" THEN Held
              ELSE [i \in live \union {call.id} |->
                      IF i = call.id THEN <<call.ret, call.size>> ELSE Held[i]]
  <2>1. CASE call.fn = "mm_free"
    BY <2>1 DEF Held
  <2>2. CASE call.fn # "mm_free"
    <3>1. /\ live' = live \union {call.id} /\ live \subseteq Ids /\ call.id \in Ids
          /\ blocks' = [blocks EXCEPT ![call.id] = call.ret]
          /\ block_sizes' = [block_sizes EXCEPT ![call.id] = call.size]
          /\ blocks \in [Ids -> Nat] /\ block_sizes \in [Ids -> Nat]
      BY <2>2 DEF TypeOK, DriverTypeOK
    <3>2. /\ blocks'[call.id] = call.ret /\ block_sizes'[call.id] = call.size
          /\ \A i \in live \ {call.id} : blocks'[i] = blocks[i] /\ block_sizes'[i] = block_sizes[i]
      BY <3>1
    <3> QED BY <2>2, <3>1, <3>2 DEF Held
  <2> QED BY <2>1, <2>2
<1>3. DOMAIN Held = live
  BY DEF Held
<1>4. Step(Now) = Take(Now)
  BY NowParts DEF Step
<1> QED BY <1>1, <1>2, <1>3, <1>4, NowParts DEF Take, Now

(* The next request is made.                                               *)
LEMMA IssueNow ==
  ASSUME TypeOK, MainOK, NEW op \in OpRec, Proper(Now, op), Made' = Made + 1,
         Post(op.fn, op.id, IF op.fn = "mm_malloc" THEN NULL ELSE blocks[op.id], op.size),
         live' = (IF op.fn = "mm_free" THEN live \ {op.id} ELSE live),
         UNCHANGED <<memVars, blocks, block_sizes, mmVars>>
  PROVE  Now' = Issue(Now, op)
<1>1. UNCHANGED <<mem, mem_brk, heap_end, pc, size, cur, blks, blocks, block_sizes>>
  BY DEF memVars, mmVars
<1>2. Headers' = Headers
  BY <1>1 DEF Headers
<1>3. DOMAIN Now.held = live /\ \A i \in live : Now.held[i] = <<blocks[i], block_sizes[i]>>
  BY NowParts DEF Held
<1>4. op.fn # "mm_malloc" => Now.held[op.id][1] = blocks[op.id]
  BY <1>3 DEF Proper
<1>5. Held' = IF op.fn = "mm_free" THEN [i \in DOMAIN Now.held \ {op.id} |-> Now.held[i]]
              ELSE Now.held
  BY <1>1, <1>3, NowParts DEF Held
<1>6. call' = [fn |-> op.fn, st |-> "called", id |-> op.id,
               ptr |-> IF op.fn = "mm_malloc" THEN NULL ELSE Now.held[op.id][1],
               size |-> op.size, ret |-> 0]
  BY <1>4 DEF Post
<1>7. Now' = Rec(Made + 1, call', pc, size, cur, heap_end, mem_brk, Headers, Held')
  BY <1>1, <1>2 DEF Now
<1> QED BY <1>5, <1>6, <1>7, NowParts DEF Issue

(***************************************************************************)
(* The first evaluation.                                                   *)
(***************************************************************************)
(* RetMalloc, RetRealloc and RetFree: the driver rejects the answer, or    *)
(* takes it.                                                               *)
LEMMA ValidAnswer ==
  ASSUME IInv, MainOK, RetMalloc \/ RetRealloc \/ RetFree, UNCHANGED mmVars
  PROVE  /\ IInv' /\ call.st = "returned" /\ call' = NoCall
         /\ verdict' \in {verdict, "invalid"}
         /\ call.fn \in {"mm_malloc", "mm_realloc", "mm_free"}
         /\ verdict' = "running" /\ Made' = Made =>
              /\ Now' = Step(Now)
              /\ call.fn # "mm_free" => call.ret # NULL
<1>1. TypeOK /\ RequestInv /\ Tiled /\ HeldInBlocks
  BY UsableLemma DEF IInv, RetMalloc, RetRealloc, RetFree
<1>2. IInv'
  BY RetMallocInv, RetReallocInv, RetFreeInv
<1>3. call.st = "returned" /\ call' = NoCall /\ call.fn \in {"mm_malloc", "mm_realloc", "mm_free"}
  BY DEF RetMalloc, RetRealloc, RetFree, Returned
<1>4. \/ Reject
      \/ call.fn # "mm_free" /\ call.ret # NULL /\ \E R : Accept(R)
      \/ call.fn = "mm_free" /\ UNCHANGED <<memVars, live, blocks, block_sizes, verdict>>
  BY DEF RetMalloc, RetRealloc, RetFree, Returned
<1>5. verdict' \in {verdict, "invalid"}
  BY <1>4 DEF Reject, Accept
<1>6. ASSUME verdict' = "running", Made' = Made
      PROVE  Now' = Step(Now) /\ (call.fn # "mm_free" => call.ret # NULL)
  <2>0. UNCHANGED <<heap_end, pc, size, cur, blks>>
    BY DEF mmVars
  <2>1. CASE call.fn # "mm_free" /\ call.ret # NULL /\ \E R : Accept(R)
    <3>1. /\ live' = live \union {call.id}
          /\ blocks' = [blocks EXCEPT ![call.id] = call.ret]
          /\ block_sizes' = [block_sizes EXCEPT ![call.id] = call.size]
          /\ mem' = MemSet(mem, call.ret, Fill(call.id), call.size) /\ mem_brk' = mem_brk
      BY <2>1 DEF Accept
    <3>2. call.id \in Ids /\ call.id \in Nat /\ call.size \in Nat
      BY <1>1, <1>3, <2>1, TraceAssumption, MemAssumption
         DEF RequestInv, Returned, TypeOK, DriverTypeOK, TraceAssumption, MemAssumption
    <3>3. call.ret \in blks /\ call.size + 8 <= SizeOf(call.ret)
      <4>1. /\ Holds(call.id) /\ Addr(call.id) = call.ret /\ Bytes(call.id) = call.size
        BY <1>3, <2>1 DEF Holds, Addr, Bytes, Answered
      <4> QED BY <1>1, <3>2, <4>1 DEF HeldInBlocks, DSIZE
    <3>4. Fill(call.id) \in Nat
      <4>1. call.id % 256 \in Nat
        BY <3>2
      <4> QED BY <4>1 DEF Fill, LowByte
    <3>5. \A b \in blks : mem'[HDRP(b)] = mem[HDRP(b)]
      BY <1>1, <3>1, <3>2, <3>3, <3>4, FillLemma
    <3> QED BY <1>1, <1>3, <1>6, <2>0, <2>1, <3>1, <3>2, <3>5, TakeNow
  <2>2. CASE call.fn = "mm_free" /\ UNCHANGED <<memVars, live, blocks, block_sizes, verdict>>
    <3>1. mem' = mem /\ mem_brk' = mem_brk
      BY <2>2 DEF memVars
    <3>2. \A b \in blks : mem'[HDRP(b)] = mem[HDRP(b)]
      BY <3>1
    <3> QED BY <1>1, <1>3, <1>6, <2>0, <2>2, <3>1, <3>2, TakeNow
  <2> QED BY <1>4, <1>6, <2>1, <2>2 DEF Reject
<1> QED BY <1>2, <1>3, <1>5, <1>6

(* eval_mm_valid looks at an answer: the history grows by its record.      *)
LEMMA ValidAnswerMain ==
  ASSUME MInv, phase = "valid", RetMalloc \/ RetRealloc \/ RetFree, UNCHANGED mmVars,
         Record, UNCHANGED <<phase, opnum, utilVars, speeds>>
  PROVE  MInv'
<1>1. IInv /\ TypeOK /\ MainOK /\ Faithful
  BY DEF MInv, IInv
<1>2. /\ IInv' /\ call.st = "returned" /\ call' = NoCall
      /\ verdict' \in {verdict, "invalid"}
      /\ call.fn \in {"mm_malloc", "mm_realloc", "mm_free"}
  BY <1>1, ValidAnswer
<1>3. pc = "idle" /\ pc' = "idle"
  BY <1>1, <1>2, IdleLemma DEF mmVars
<1>4. /\ Asked \in OpRec /\ Len(ops) \in Nat /\ Trace = Append(ops, Asked)
      /\ Trace \in Seq(OpRec) /\ Len(Trace) = Len(ops) + 1 /\ Trace[Len(ops) + 1] = Asked
      /\ \A i \in 1 .. Len(ops) : Trace[i] = ops[i]
  BY <1>1, <1>2, TraceParts
<1>5. \/ recorded' = TRUE /\ recorded /\ ops' = Trace
      \/ recorded' = FALSE /\ ops' = <<>>
  <2>1. Trace = Append(ops, Asked)
    BY <1>4
  <2>2. Trace = Append(ops, [fn |-> call.fn, id |-> call.id, size |-> call.size, ret |-> call.ret])
    BY <2>1 DEF Asked
  <2> QED BY <2>2 DEF Record
<1>6. MainOK'
  <2>1. ops' \in Seq(OpRec)
    <3>1. <<>> \in Seq(OpRec)
      OBVIOUS
    <3> QED BY <1>4, <1>5, <3>1, Zenon
  <2>2. Len(ops') \in Nat
    BY <2>1
  <2> QED BY <1>1, <1>2, <2>1, <2>2 DEF MainOK, NoCall, Returned
<1>7. ASSUME Recorded' PROVE \E S : Now' \in S /\ History(S, {Now'}, Trace', ops')
  <2>1. recorded' = TRUE /\ recorded /\ ops' = Trace /\ verdict' = "running" /\ verdict = "running"
    BY <1>1, <1>2, <1>5, <1>7 DEF Recorded, TypeOK, DriverTypeOK
  <2>2. Recorded
    BY <1>2, <1>3, <2>1 DEF Recorded
  <2>3. Trace' = Trace
    BY <1>2, <2>1 DEF Trace, NoCall
  <2>4. Made' = Made /\ Made = Len(ops) + 1
    BY <1>2, <1>4, <2>1 DEF Made, NoCall
  <2>5. Now' = Step(Now) /\ (call.fn # "mm_free" => call.ret # NULL)
    BY <1>1, <2>1, <2>4, ValidAnswer
  <2>6. PICK S : Now \in S /\ History(S, {Now}, Trace, ops)
    BY <1>1, <2>2 DEF Faithful
  <2>7. Answers(Now, ops')
    BY <1>4, <2>1, <2>4, <2>5, NowParts DEF Answers, Asked
  <2>8. Follows(Now, S \union {Now'}, {Now'}, Trace', ops')
    BY <1>2, <2>5, <2>7, NowParts DEF Follows
  <2>9. Now'.pc # "crashed"
    BY <1>3, NextParts
  <2>10. PICK T : T = Trace
    OBVIOUS
  <2>11. History(S \union {Now'}, {Now'}, Trace', ops')
    <3>1. /\ Len(T) \in Nat /\ Len(ops) <= Len(T) /\ Len(T) <= Len(T)
          /\ \A i \in 1 .. Len(ops) : T[i] = ops[i]
      BY <1>4, <2>10
    <3>2. History(S \union {Now'}, {Now'}, T, T)
      <4>1. History(S, {Now}, T, ops) /\ Follows(Now, S \union {Now'}, {Now'}, T, T)
        BY <2>1, <2>3, <2>6, <2>8, <2>10
      <4> HIDE DEF Now, Trace
      <4> QED BY <1>4, <2>9, <3>1, <4>1, HistoryGrows
    <3> QED BY <2>1, <2>3, <2>10, <3>2
  <2> QED BY <2>11
<1> QED BY <1>2, <1>6, <1>7 DEF MInv, Faithful, Replays

(* The answer of mm_init starts the history, or rejects the trace.         *)
LEMMA ValidInitMain ==
  ASSUME MInv, phase = "valid", RetInit, UNCHANGED mmVars, UNCHANGED mainVars
  PROVE  MInv'
<1>1. IInv /\ TypeOK /\ MainOK
  BY DEF MInv, IInv
<1>2. IInv'
  BY <1>1, RetInitInv
<1>3. /\ Returned("mm_init") /\ call' = NoCall /\ UNCHANGED <<phase, recorded, ops, opnum>>
      /\ UNCHANGED <<mem, mem_brk, live, heap_end, pc, size, cur, blks>>
      /\ verdict' = (IF call.ret < 0 THEN "invalid" ELSE verdict)
  BY DEF RetInit, mainVars, memVars, mmVars
<1>4. MainOK'
  BY <1>1, <1>3 DEF MainOK, NoCall, Returned, Room
<1>5. ASSUME Recorded' PROVE \E S : Now' \in S /\ History(S, {Now'}, Trace', ops')
  <2>1. FreshHeap /\ ops = <<>>
    BY <1>1, <1>3, <1>5 DEF Recorded, MainOK, Returned
  <2>2. FreshHeap'
    BY <1>3, <2>1 DEF FreshHeap, HDRP, heap
  <2>3. Made' = 0
    BY <1>3, <2>1 DEF Made, NoCall
  <2>4. Now' = Start
    <3>1. (FreshHeap /\ call = NoCall /\ Made = 0) => Now = Start
      BY StartNow
    <3>2. (FreshHeap' /\ call' = NoCall /\ Made' = 0) => Now' = Start
      <4>1. Headers' = [b \in {heap} |-> PACK(DSIZE, 0)]
        BY <2>2 DEF FreshHeap, Headers, HDRP, heap
      <4>2. Held' = [i \in {} |-> <<0, 0>>]
        BY <2>2 DEF FreshHeap, Held
      <4> QED BY <4>1, <4>2 DEF FreshHeap, Now, Start
    <3> QED BY <1>3, <2>2, <2>3, <3>2
  <2> QED BY <2>4, HistoryStarts
<1> QED BY <1>2, <1>3, <1>4, <1>5 DEF MInv, Faithful, Replays

(* A request as it is posted, by eval_mm_valid or by a replay.             *)
Posts(op) ==
  /\ Post(op.fn, op.id, IF op.fn = "mm_malloc" THEN NULL ELSE blocks[op.id], op.size)
  /\ live' = IF op.fn = "mm_free" THEN live \ {op.id} ELSE live
  /\ UNCHANGED <<memVars, blocks, block_sizes, verdict, mmVars>>

(* A proper request keeps the heap's invariant.                            *)
LEMMA PostsInv ==
  ASSUME IInv, ReadyForOp, NEW op \in OpRec, Proper(Now, op), Posts(op)
  PROVE  IInv'
<1>1. DOMAIN Now.held = live /\ TypeOK /\ live \subseteq Ids
  BY NowParts DEF Held, IInv, TypeOK, DriverTypeOK
<1>2. UNCHANGED <<memVars, blocks, block_sizes, verdict>> /\ UNCHANGED mmVars
  BY DEF Posts
<1>3. CASE op.fn = "mm_malloc"
  BY <1>1, <1>2, <1>3, MallocRequestInv DEF Posts, Proper
<1>4. CASE op.fn = "mm_realloc"
  BY <1>1, <1>2, <1>4, ReallocRequestInv DEF Posts, Proper
<1>5. CASE op.fn = "mm_free"
  BY <1>1, <1>2, <1>5, FreeRequestInv DEF Posts, Proper
<1> QED BY <1>3, <1>4, <1>5 DEF Proper

ValidAsks ==
  \E i \in Ids : \/ \E n \in Sizes : ReqMalloc(i, n)
                 \/ \E n \in ReallocSizes : ReqRealloc(i, n)
                 \/ ReqFree(i)

(* The requests of eval_mm_valid are proper ones.                          *)
LEMMA ValidRequest ==
  ASSUME TypeOK, UNCHANGED mmVars,
         ValidAsks
  PROVE  ReadyForOp /\ \E op \in OpRec : op.ret = 0 /\ Proper(Now, op) /\ Posts(op)
<1> DEFINE Op(f, i, n) == [fn |-> f, id |-> i, size |-> n, ret |-> 0]
<1>1. DOMAIN Now.held = live
  BY NowParts DEF Held
<1>2. PICK i \in Ids : \/ \E n \in Sizes : ReqMalloc(i, n)
                       \/ \E n \in ReallocSizes : ReqRealloc(i, n)
                       \/ ReqFree(i)
  BY DEF ValidAsks
<1>3. i \in Nat /\ INT_MOD \div 2 - 1 \in Nat
  BY TraceAssumption, MemAssumption DEF TraceAssumption, MemAssumption
<1>4. CASE \E n \in Sizes : ReqMalloc(i, n)
  <2>1. PICK n \in Sizes : ReqMalloc(i, n)
    BY <1>4
  <2>2. n \in 1 .. (INT_MOD \div 2 - 1) /\ n \in 0 .. (INT_MOD \div 2 - 1)
    BY <1>3, TraceAssumption DEF TraceAssumption
  <2>3. Op("mm_malloc", i, n) \in OpRec /\ Op("mm_malloc", i, n).ret = 0
    BY <1>3, <2>2 DEF OpRec, Calls
  <2>4. Proper(Now, Op("mm_malloc", i, n)) /\ Posts(Op("mm_malloc", i, n)) /\ ReadyForOp
    BY <1>1, <2>1, <2>2 DEF Proper, Posts, ReqMalloc
  <2> QED BY <2>3, <2>4
<1>5. CASE \E n \in ReallocSizes : ReqRealloc(i, n)
  <2>1. PICK n \in ReallocSizes : ReqRealloc(i, n)
    BY <1>5
  <2>2. n \in 0 .. (INT_MOD \div 2 - 1)
    BY <1>3, TraceAssumption DEF TraceAssumption
  <2>3. Op("mm_realloc", i, n) \in OpRec /\ Op("mm_realloc", i, n).ret = 0
    BY <1>3, <2>2 DEF OpRec, Calls
  <2>4. Proper(Now, Op("mm_realloc", i, n)) /\ Posts(Op("mm_realloc", i, n)) /\ ReadyForOp
    BY <1>1, <2>1, <2>2 DEF Proper, Posts, ReqRealloc
  <2> QED BY <2>3, <2>4
<1>6. CASE ReqFree(i)
  <2>1. Op("mm_free", i, 0) \in OpRec /\ Op("mm_free", i, 0).ret = 0
    BY <1>3 DEF OpRec, Calls
  <2>2. Proper(Now, Op("mm_free", i, 0)) /\ Posts(Op("mm_free", i, 0)) /\ ReadyForOp
    BY <1>1, <1>6 DEF Proper, Posts, ReqFree
  <2> QED BY <2>1, <2>2
<1> QED BY <1>2, <1>4, <1>5, <1>6

(* A request of eval_mm_valid: the record of the call is the one recorded. *)
LEMMA ValidRequestMain ==
  ASSUME MInv, phase = "valid", UNCHANGED mmVars, UNCHANGED mainVars,
         ValidAsks
  PROVE  MInv'
<1>1. IInv /\ TypeOK /\ MainOK /\ Faithful
  BY DEF MInv, IInv
<1>2. ReadyForOp /\ \E op \in OpRec : op.ret = 0 /\ Proper(Now, op) /\ Posts(op)
  BY <1>1, ValidRequest
<1>3. PICK op \in OpRec : op.ret = 0 /\ Proper(Now, op) /\ Posts(op)
  BY <1>2
<1>4. IInv'
  BY <1>1, <1>2, <1>3, PostsInv
<1>5. /\ UNCHANGED <<phase, recorded, ops, opnum, verdict, pc>> /\ call.st = "none"
      /\ call'.fn = op.fn /\ call'.st = "called" /\ call'.id = op.id /\ call'.size = op.size
      /\ call'.ret = 0 /\ op.fn \in {"mm_malloc", "mm_realloc", "mm_free"}
      /\ pc = "idle" /\ call.fn = "none"
  BY <1>1, <1>2, <1>3, IdleLemma
     DEF mainVars, mmVars, Posts, Post, ReadyForOp, Proper, MainOK, NoCall
<1>6. MainOK'
  BY <1>1, <1>5 DEF MainOK, Returned, Room
<1>7. ASSUME Recorded' PROVE \E S : Now' \in S /\ History(S, {Now'}, Trace', ops')
  <2>1. Recorded
    BY <1>5, <1>7 DEF Recorded
  <2>2. PICK S : Now \in S /\ History(S, {Now}, Trace, ops)
    BY <1>1, <2>1 DEF Faithful
  <2>3. Trace = ops /\ Made = Len(ops) /\ Made' = Len(ops) + 1 /\ Len(ops) \in Nat
    BY <1>1, <1>5, TraceParts DEF Made
  <2>4. Now' = Issue(Now, op)
    BY <1>1, <1>3, <2>3, IssueNow DEF Posts
  <2>5. Asked' = op
    BY <1>3, <1>5 DEF Asked, OpRec
  <2>6. Trace' = Append(ops, op)
    BY <1>5, <2>5 DEF Trace
  <2>7. PICK T2 : T2 = Trace'
    OBVIOUS
  <2>8. /\ Len(T2) = Len(ops) + 1 /\ T2[Len(ops) + 1] = op
        /\ \A i \in 1 .. Len(ops) : T2[i] = ops[i]
    BY <1>1, <2>6, <2>7 DEF MainOK
  <2>9. Follows(Now, S \union {Now'}, {Now'}, T2, ops)
    BY <1>3, <1>5, <2>3, <2>4, <2>8, NowParts DEF Follows
  <2>10. Now'.pc # "crashed"
    BY <1>5, NextParts
  <2>11. History(S \union {Now'}, {Now'}, T2, ops)
    <3>1. /\ Len(T2) \in Nat /\ Len(ops) <= Len(T2) /\ Len(ops) <= Len(ops)
      BY <2>3, <2>8
    <3>2. History(S, {Now}, ops, ops)
      BY <2>2, <2>3
    <3> HIDE DEF Now, Trace
    <3> QED BY <2>3, <2>8, <2>9, <2>10, <3>1, <3>2, HistoryGrows
  <2> QED BY <1>5, <2>7, <2>11
<1> QED BY <1>4, <1>5, <1>6, <1>7 DEF MInv, Faithful, Replays

(* Every step of eval_mm_valid.                                            *)
LEMMA ValidMain == ASSUME MInv, ValidStep PROVE MInv'
<1>1. phase = "valid" /\ UNCHANGED mmVars
  BY DEF ValidStep
<1>2. CASE (RetMalloc \/ RetRealloc \/ RetFree) /\ Record /\ UNCHANGED <<phase, opnum, utilVars, speeds>>
  BY <1>1, <1>2, ValidAnswerMain
<1>3. CASE RetInit /\ UNCHANGED mainVars
  BY <1>1, <1>3, ValidInitMain
<1>4. CASE ValidAsks /\ UNCHANGED mainVars
  BY <1>1, <1>4, ValidRequestMain
<1>5. \/ (RetMalloc \/ RetRealloc \/ RetFree) /\ Record /\ UNCHANGED <<phase, opnum, utilVars, speeds>>
      \/ (RetInit \/ ValidAsks) /\ UNCHANGED mainVars
  BY DEF ValidStep, ValidAsks
<1> QED BY <1>2, <1>3, <1>4, <1>5

(***************************************************************************)
(* The replays.                                                            *)
(***************************************************************************)
(* A replay starts on an emptied heap.                                     *)
LEMMA RestartInv ==
  ASSUME IInv, call.st = "none", verdict = "running", Restart
  PROVE  IInv'
<1>1. TypeOK /\ pc = "idle"
  BY DEF IInv, TraceInv
<1>2. /\ live' = {} /\ call'.fn = "mm_init" /\ call'.st = "called" /\ mem' = mem
      /\ mem_brk' = mem_start_brk
      /\ UNCHANGED <<blocks, block_sizes, verdict, heap_end, pc, size, cur, blks>>
  BY DEF Restart, Post, mem_reset_brk, mmVars
<1>3. DriverTypeOK'
  BY <1>1, <1>2, MemAssumption
     DEF Restart, Post, TypeOK, DriverTypeOK, Calls, NULL, MemAssumption
<1>4. mem_brk' \in mem_start_brk .. mem_max_addr /\ mem_brk' % 8 = 0
  BY <1>2, MemAssumption DEF MemAssumption, mem_max_addr
<1>5. TypeOK'
  BY <1>1, <1>2, <1>3, <1>4 DEF TypeOK
<1>6. TraceInv'
  BY <1>1, <1>2 DEF TraceInv
<1>7. PayloadsDisjoint' /\ ~ Usable'
  BY <1>1, <1>2 DEF PayloadsDisjoint, Usable, Called
<1> QED BY <1>5, <1>6, <1>7 DEF IInv

(* The heap of a trace that runs has room for the double word of mm_init.  *)
LEMMA UsableRoom ==
  ASSUME IInv, ReadyForOp
  PROVE  Room
<1>1. Tiled /\ TypeOK
  BY UsableLemma DEF IInv
<1>2. heap \in blks /\ SizeOf(heap) >= 8 /\ SizeOf(heap) \in Nat
      /\ heap + SizeOf(heap) <= mem_brk + 8
  BY <1>1, BlockLemma DEF Tiled, NEXT, DSIZE
<1>3. mem_brk \in Nat /\ mem_brk <= mem_max_addr /\ mem_start_brk \in Nat /\ mem_max_addr \in Nat
  BY <1>1, MemAssumption DEF TypeOK, MemAssumption, mem_max_addr
<1> QED BY <1>2, <1>3 DEF Room, heap, DSIZE

(* eval_mm_util starts: what the first evaluation went through is a        *)
(* history that leads to the end of the trace.                             *)
LEMMA StartUtilMain == ASSUME MInv, StartUtil PROVE MInv'
<1>1. IInv /\ TypeOK /\ MainOK /\ Faithful
  BY DEF MInv, IInv
<1>2. /\ phase = "valid" /\ recorded /\ ReadyForOp /\ Restart
      /\ phase' = "util" /\ opnum' = 1 /\ UNCHANGED <<ops, verdict>>
      /\ call'.fn = "mm_init" /\ call'.st = "called"
      /\ verdict = "running" /\ call.st = "none"
  BY DEF StartUtil, Restart, Post, ReadyForOp
<1>3. IInv'
  BY <1>1, <1>2, RestartInv
<1>4. MainOK'
  <2>1. 1 \in 1 .. (Len(ops) + 1) /\ ops \in Seq(OpRec)
    BY <1>1 DEF MainOK
  <2>2. Room
    BY <1>1, <1>2, UsableRoom
  <2> QED BY <1>2, <2>1, <2>2 DEF MainOK, Returned, Room
<1>5. \E S : History(S, Ends(S, ops), ops, ops)
  <2>1. Recorded /\ Trace = ops /\ Now.call.st = "none" /\ Now.k = Len(ops)
    BY <1>1, <1>2, IdleLemma, NowParts DEF Recorded, Trace, Made, MainOK, NoCall
  <2>2. PICK S : Now \in S /\ History(S, {Now}, Trace, ops)
    BY <1>1, <2>1 DEF Faithful
  <2> HIDE DEF Now, Trace
  <2> QED BY <2>1, <2>2, HistoryEnds
<1> QED BY <1>2, <1>3, <1>4, <1>5 DEF MInv, Faithful, Replays, Recorded

(* A run of eval_mm_speed starts.                                          *)
LEMMA StartSpeedMain == ASSUME MInv, StartSpeed PROVE MInv'
<1>1. IInv /\ TypeOK /\ MainOK /\ Faithful
  BY DEF MInv, IInv
<1>2. /\ Replays /\ call.st = "none" /\ Restart
      /\ phase' = "speed" /\ opnum' = 1 /\ UNCHANGED <<ops, verdict>>
      /\ call'.fn = "mm_init" /\ call'.st = "called"
  BY DEF StartSpeed, Replayed, Replays, Restart, Post
<1>3. verdict = "running" /\ Room
  BY <1>1, <1>2 DEF MainOK, Replays
<1>4. IInv'
  BY <1>1, <1>2, <1>3, RestartInv
<1>5. MainOK'
  <2>1. 1 \in 1 .. (Len(ops) + 1) /\ ops \in Seq(OpRec)
    BY <1>1 DEF MainOK
  <2> QED BY <1>2, <1>3, <2>1 DEF MainOK, Returned, Room
<1>6. \E S : History(S, Ends(S, ops), ops, ops)
  BY <1>1, <1>2 DEF Faithful
<1> QED BY <1>2, <1>4, <1>5, <1>6 DEF MInv, Faithful, Replays, Recorded

(* IInv reads the variables of the heap and of the driver only.            *)
LEMMA SameHeap == ASSUME IInv, UNCHANGED vars PROVE IInv'
  BY NextIInv

(* The evaluation of the trace is over.                                    *)
LEMMA EndSpeedMain == ASSUME MInv, EndSpeed PROVE MInv'
<1>1. IInv /\ MainOK
  BY DEF MInv
<1>2. /\ Replays /\ call.st = "none" /\ phase' = "next"
      /\ UNCHANGED vars /\ UNCHANGED <<ops, opnum, call, verdict>>
  BY DEF EndSpeed, Replayed, Replays, vars, driverVars
<1>3. IInv'
  BY <1>1, <1>2, SameHeap
<1>4. MainOK'
  BY <1>1, <1>2 DEF MainOK, Returned, Room, Replays, NoCall
<1> QED BY <1>2, <1>3, <1>4 DEF MInv, Faithful, Replays, Recorded

(* The next trace is not recorded.                                         *)
LEMMA StartNextMain == ASSUME MInv, StartNext PROVE MInv'
<1>1. IInv /\ MainOK
  BY DEF MInv
<1>2. /\ NextTrace /\ UNCHANGED mmVars /\ phase' = "valid" /\ recorded' = FALSE
      /\ ops' = <<>> /\ opnum' = 1 /\ call'.fn = "mm_init" /\ call'.st = "called"
  BY DEF StartNext, NextTrace, Post
<1>3. IInv'
  BY <1>1, <1>2, NextTraceInv
<1>4. MainOK'
  <2>1. <<>> \in Seq(OpRec) /\ 1 \in 1 .. (Len(<<>>) + 1)
    OBVIOUS
  <2> QED BY <1>2, <2>1 DEF MainOK, Returned
<1> QED BY <1>2, <1>3, <1>4 DEF MInv, Faithful, Replays, Recorded

(* A replay makes the next request: the first evaluation made it of the    *)
(* same record.                                                            *)
LEMMA ReplayProper ==
  ASSUME MInv, ReplayRequest
  PROVE  /\ ops[opnum] \in OpRec /\ Proper(Now, ops[opnum])
         /\ \E S : History(S, Ends(S, ops), ops, ops) /\ Issue(Now, ops[opnum]) \in S
<1>1. MainOK /\ Faithful
  BY DEF MInv
<1>2. Replays /\ call.st = "none" /\ opnum <= Len(ops)
  BY DEF ReplayRequest, Replays
<1>3. ops \in Seq(OpRec) /\ opnum \in 1 .. Len(ops) /\ Len(ops) \in Nat /\ call.fn = "none"
  BY <1>1, <1>2 DEF MainOK, NoCall
<1>4. PICK S : History(S, Ends(S, ops), ops, ops) /\ Now \in S
  BY <1>1, <1>2, <1>3 DEF Faithful
<1>5. Now.k = opnum - 1 /\ Now.k + 1 = opnum /\ Now.k # Len(ops) /\ Now.call.st = "none"
  BY <1>2, <1>3, NowParts DEF Made, Replays
<1>6. Now \notin Ends(S, ops) /\ Follows(Now, S, Ends(S, ops), ops, ops)
  BY <1>4, <1>5 DEF Ends, History
<1>7. Proper(Now, ops[opnum]) /\ Issue(Now, ops[opnum]) \in S
  <2> HIDE DEF Now
  <2> QED BY <1>5, <1>6 DEF Follows
<1> QED BY <1>3, <1>4, <1>7

(* A request of a replay is the one that was recorded at this place.       *)
LEMMA ReplayRequestMain == ASSUME MInv, ReplayRequest PROVE MInv'
<1>1. IInv /\ TypeOK /\ MainOK
  BY DEF MInv, IInv
<1> PICK op : op = ops[opnum]
  OBVIOUS
<1>2. /\ Replays /\ call.st = "none" /\ opnum <= Len(ops) /\ opnum' = opnum + 1
      /\ Posts(op) /\ UNCHANGED <<memVars, blocks, block_sizes, mmVars, phase, ops, verdict>>
      /\ Post(op.fn, op.id, IF op.fn = "mm_malloc" THEN NULL ELSE blocks[op.id], op.size)
      /\ live' = (IF op.fn = "mm_free" THEN live \ {op.id} ELSE live)
  BY DEF ReplayRequest, Replays, Posts
<1>3. /\ verdict = "running" /\ Room /\ ReadyForOp /\ ops \in Seq(OpRec) /\ opnum \in 1 .. Len(ops)
      /\ Len(ops) \in Nat
  BY <1>1, <1>2 DEF MainOK, Replays, ReadyForOp, NoCall
<1>4. op \in OpRec /\ Proper(Now, op)
  BY ReplayProper
<1>5. PICK S : History(S, Ends(S, ops), ops, ops) /\ Issue(Now, op) \in S
  BY ReplayProper
<1>6. IInv'
  BY <1>1, <1>3, <1>2, <1>4, PostsInv
<1>7. Now' = Issue(Now, op)
  <2>1. Made' = Made + 1
    BY <1>2, <1>3 DEF Made, Replays
  <2> QED BY <1>1, <1>2, <1>4, <2>1, IssueNow
<1>8. call'.fn = op.fn /\ call'.st = "called" /\ op.fn # "mm_init" /\ op.fn # "none"
  BY <1>2, <1>4 DEF Post, Proper
<1>9. MainOK'
  BY <1>1, <1>2, <1>3, <1>8 DEF MainOK, Returned, Room, Replays
<1> QED BY <1>2, <1>5, <1>6, <1>7, <1>9 DEF MInv, Faithful, Replays, Recorded

(* A replay takes the answer of mm_init: it has found room before.         *)
LEMMA ReplayInitMain == ASSUME MInv, ReplayReturn, call.fn = "mm_init" PROVE MInv'
<1>1. IInv /\ TypeOK /\ MainOK /\ Faithful
  BY DEF MInv, IInv
<1>2. /\ Replays /\ Returned("mm_init") /\ call' = NoCall
      /\ UNCHANGED <<memVars, ranges, verdict, mmVars, ops, opnum>>
  BY DEF ReplayReturn, Replays, Returned
<1>3. call.ret = 0 /\ FreshHeap /\ Room /\ opnum = 1 /\ verdict = "running"
  BY <1>1, <1>2 DEF MainOK, Replays, Returned
<1>4. UNCHANGED <<phase, live, blocks, block_sizes>>
  BY <1>3 DEF ReplayReturn, Failed
<1>5. RetInit
  BY <1>2, <1>3, <1>4 DEF RetInit
<1>6. IInv'
  BY <1>1, <1>2, <1>5, RetInitInv
<1>7. MainOK'
  BY <1>1, <1>2, <1>4 DEF MainOK, NoCall, Returned, Room
<1>8. Now' = Start
  <2>1. UNCHANGED <<mem, mem_brk, live, heap_end, pc, size, cur, blks>>
    BY <1>2, <1>4 DEF memVars, mmVars
  <2>2. FreshHeap'
    BY <1>3, <2>1 DEF FreshHeap, HDRP, heap
  <2>3. Made' = 0
    BY <1>2, <1>3, <1>4 DEF Made, Replays
  <2>4. Headers' = [b \in {heap} |-> PACK(DSIZE, 0)] /\ Held' = [i \in {} |-> <<0, 0>>]
    BY <2>2 DEF FreshHeap, Headers, Held, HDRP, heap
  <2> QED BY <1>2, <2>2, <2>3, <2>4 DEF FreshHeap, Now, Start
<1>9. PICK S : History(S, Ends(S, ops), ops, ops)
  BY <1>1, <1>2 DEF Faithful
<1> QED BY <1>2, <1>4, <1>6, <1>7, <1>8, <1>9 DEF MInv, Faithful, Replays, Recorded, History

(* A replay takes the answer of another call: it is the one on record, and *)
(* app_error does not end the program.                                     *)
LEMMA ReplayAnswerMain == ASSUME MInv, ReplayReturn, call.fn # "mm_init" PROVE MInv'
<1>1. IInv /\ TypeOK /\ MainOK /\ Faithful
  BY DEF MInv, IInv
<1>2. /\ Replays /\ call.st = "returned" /\ call' = NoCall
      /\ UNCHANGED <<memVars, ranges, verdict, mmVars, ops, opnum>>
  BY DEF ReplayReturn, Replays
<1>3. call.fn \in {"mm_malloc", "mm_realloc", "mm_free"}
  BY <1>1, <1>2 DEF MainOK, TypeOK, DriverTypeOK, Calls, NoCall
<1>4. PICK S : History(S, Ends(S, ops), ops, ops) /\ Now \in S
  BY <1>1, <1>2 DEF Faithful
<1>5. Step(Now) \in S /\ (call.fn # "mm_free" => call.ret # NULL)
  <2>1. Now.call = call
    BY NowParts
  <2>2. Now \notin Ends(S, ops) /\ Follows(Now, S, Ends(S, ops), ops, ops)
    BY <1>2, <1>4, <2>1 DEF Ends, History
  <2> HIDE DEF Now
  <2> QED BY <1>2, <2>1, <2>2 DEF Follows, Answers
<1>6. ~ Failed
  BY <1>3, <1>5 DEF Failed
<1>7. /\ phase' = phase
      /\ \/ call.fn = "mm_free" /\ UNCHANGED <<live, blocks, block_sizes>>
         \/ /\ call.fn \in {"mm_malloc", "mm_realloc"} /\ call.ret # NULL
            /\ live' = live \union {call.id}
            /\ blocks' = [blocks EXCEPT ![call.id] = call.ret]
            /\ block_sizes' = [block_sizes EXCEPT ![call.id] = call.size]
  BY <1>3, <1>5, <1>6 DEF ReplayReturn
<1>8. UNCHANGED <<mem, mem_brk, heap_end, pc, size, cur, blks>>
  BY <1>2 DEF memVars, mmVars
<1>9. IInv'
  <2>1. CASE call.fn = "mm_free"
    <3>1. RetFree
      BY <1>2, <1>7, <2>1 DEF RetFree, Returned
    <3> QED BY <1>1, <1>2, <3>1, RetFreeInv
  <2>2. CASE call.fn # "mm_free"
    <3>1. Returned("mm_malloc") \/ Returned("mm_realloc")
      BY <1>2, <1>3, <2>2 DEF Returned
    <3> QED BY <1>1, <1>2, <1>7, <1>8, <2>2, <3>1, RememberInv
  <2> QED BY <2>1, <2>2
<1>10. Now' = Step(Now)
  <2>1. Made' = Made
    BY <1>2, <1>7 DEF Made, Replays
  <2>2. \A b \in blks : mem'[HDRP(b)] = mem[HDRP(b)]
    BY <1>8
  <2>3. call.fn # "mm_free" => call.id \in Ids
    <3>1. RequestInv
      BY <1>1, <1>2, <1>3, UsableLemma DEF Returned
    <3> QED BY <1>1, <1>2, <1>3, <3>1 DEF RequestInv, Returned, TypeOK, DriverTypeOK
  <2> QED BY <1>1, <1>2, <1>7, <1>8, <2>1, <2>2, <2>3, TakeNow
<1>11. MainOK'
  BY <1>1, <1>2, <1>7 DEF MainOK, NoCall, Returned, Room
<1> QED BY <1>2, <1>4, <1>5, <1>7, <1>9, <1>10, <1>11 DEF MInv, Faithful, Replays, Recorded

(***************************************************************************)
(* The theorems.                                                           *)
(***************************************************************************)
(* Every step of main keeps the invariant.                                 *)
LEMMA NextMInv == ASSUME MInv, [MainNext]_allVars PROVE MInv'
<1>1. CASE PackageStep /\ UNCHANGED mainVars
  BY <1>1, PackageMain
<1>2. CASE ValidStep
  BY <1>2, ValidMain
<1>3. CASE MainStep
  BY <1>3, StartUtilMain, StartSpeedMain, EndSpeedMain, StartNextMain, ReplayRequestMain,
     ReplayInitMain, ReplayAnswerMain DEF MainStep
<1>4. CASE UNCHANGED allVars
  <2>1. UNCHANGED vars /\ UNCHANGED mainVars
    BY <1>4 DEF allVars
  <2>2. UNCHANGED <<mem, mem_brk, live, blocks, block_sizes, ranges, call, verdict>>
        /\ UNCHANGED <<heap_end, pc, size, cur, blks>>
        /\ UNCHANGED <<phase, recorded, ops, opnum>>
    BY <2>1 DEF vars, memVars, driverVars, mmVars, mainVars
  <2>3. IInv /\ MainOK /\ Faithful
    BY DEF MInv
  <2>4. IInv'
    BY <2>1, <2>3, SameHeap
  <2>5. MainOK'
    BY <2>2, <2>3 DEF MainOK, Returned, Room, FreshHeap, HDRP, heap
  <2>6. Headers' = Headers /\ Held' = Held /\ Made' = Made /\ Trace' = Trace
    BY <2>2 DEF Headers, Held, Made, Trace, Asked, HDRP
  <2>7. Now' = Now
    BY <2>2, <2>6 DEF Now
  <2>8. (Recorded' <=> Recorded) /\ (Replays' <=> Replays)
    BY <2>2 DEF Recorded, Replays
  <2> HIDE DEF Now, Trace
  <2>9. Faithful'
    BY <2>2, <2>3, <2>6, <2>7, <2>8 DEF Faithful
  <2> QED BY <2>4, <2>5, <2>9 DEF MInv
<1> QED BY <1>1, <1>2, <1>3, <1>4 DEF MainNext

(* mm_init has been called, and nothing is on record.                      *)
LEMMA InitMInv == ASSUME MainInit PROVE MInv
<1>1. IInv
  BY InitIInv DEF MainInit
<1>2. /\ phase = "valid" /\ ops = <<>> /\ opnum = 1
      /\ call.fn = "mm_init" /\ call.st = "called"
  BY DEF MainInit, Init, DriverInit
<1>3. <<>> \in Seq(OpRec) /\ 1 \in 1 .. (Len(<<>>) + 1)
  OBVIOUS
<1> QED BY <1>1, <1>2, <1>3 DEF MInv, MainOK, Faithful, Recorded, Replays, Returned

(* The inductive invariant of main.                                        *)
THEOREM MainInvariance == MainSpec => []MInv
<1>1. MainInit => MInv
  BY InitMInv
<1>2. MInv /\ [MainNext]_allVars => MInv'
  BY NextMInv
<1> QED BY <1>1, <1>2, PTL DEF MainSpec

(* The blocks of mm.c tile the heap, and no two payloads share a byte, in  *)
(* the replays of eval_mm_util and eval_mm_speed too, which check nothing. *)
THEOREM ReplaysInvariant == MainSpec => []IInv
<1>1. MInv => IInv
  BY DEF MInv
<1> QED BY <1>1, MainInvariance, PTL

(* Every replay gives the answers of the first evaluation, whatever bytes  *)
(* the evaluations before have left; app_error never ends the program.     *)
THEOREM EveryReplayAnswers == MainSpec => []Repeatable
<1>1. MInv => Repeatable
  <2> SUFFICES ASSUME MInv PROVE Repeatable
    OBVIOUS
  <2>1. TypeOK /\ MainOK /\ Faithful
    BY DEF MInv, IInv
  <2>2. phase # "exited"
    BY <2>1 DEF MainOK
  <2>3. ASSUME Replays PROVE pc # "crashed"
    <3>1. CASE call.fn = "mm_init"
      BY <3>1 DEF MInv, IInv, TraceInv
    <3>2. CASE call.fn # "mm_init"
      BY <2>1, <2>3, <3>2, NowParts DEF Faithful, History
    <3> QED BY <3>1, <3>2
  <2>4. ASSUME Replays, call.st = "returned", call.fn # "mm_init"
        PROVE  call.ret = ops[opnum - 1].ret
    <3>1. PICK S : History(S, Ends(S, ops), ops, ops) /\ Now \in S
      BY <2>1, <2>4 DEF Faithful
    <3>2. Now.call = call /\ Now.k = opnum - 1
      BY <2>4, NowParts DEF Made, Replays
    <3>3. Now \notin Ends(S, ops) /\ Follows(Now, S, Ends(S, ops), ops, ops)
      BY <2>4, <3>1, <3>2 DEF Ends, History
    <3> HIDE DEF Now
    <3> QED BY <2>4, <3>2, <3>3 DEF Follows, Answers
  <2> QED BY <2>2, <2>3, <2>4 DEF Repeatable, Replays
<1> QED BY <1>1, MainInvariance, PTL

(***************************************************************************)
(* The utilisation.  total_size counts the bytes the trace holds, which    *)
(* share no byte and lie in the heap; the heap only grows in a replay.     *)
(***************************************************************************)
(* The bytes of the payloads L, at the addresses B and of the sizes N.     *)
Span(B, N, i) == B[i] .. (B[i] + N[i] - 1)
Footprint(L, B, N) == UNION {Span(B, N, i) : i \in L}

UtilInv ==
  /\ Footprint(live, blocks, block_sizes) \subseteq mem_start_brk .. (mem_brk - 1)
  /\ total_size = Cardinality(Footprint(live, blocks, block_sizes))
                  + (IF call.fn = "mm_free" THEN block_sizes[call.id] ELSE 0)
  /\ call.fn = "mm_free" => call.id \in Ids
  /\ max_total_size \in Int /\ max_total_size <= mem_brk - mem_start_brk

UInv == MInv /\ (phase = "util" => UtilInv)

(* The addresses of the heap are numbers.                                  *)
LEMMA HeapBounds ==
  ASSUME TypeOK
  PROVE  mem_start_brk \in Nat /\ mem_brk \in Nat /\ mem_start_brk <= mem_brk
  BY MemAssumption DEF TypeOK, MemAssumption, mem_max_addr

(* A footprint within the heap is counted, and has at most as many bytes.  *)
LEMMA FootprintFits ==
  ASSUME NEW F, NEW a \in Nat, NEW b \in Nat, a <= b, F \subseteq a .. (b - 1)
  PROVE  IsFiniteSet(F) /\ Cardinality(F) \in Nat /\ Cardinality(F) <= b - a
<1>1. IsFiniteSet(a .. (b - 1)) /\ Cardinality(a .. (b - 1)) = b - a
  <2>1. b - 1 \in Int /\ a \in Int
    OBVIOUS
  <2>2. /\ IsFiniteSet(a .. (b - 1))
        /\ Cardinality(a .. (b - 1)) = IF a > b - 1 THEN 0 ELSE (b - 1) - a + 1
    BY <2>1, FS_Interval
  <2> QED BY <2>2
<1>2. F \in SUBSET (a .. (b - 1))
  OBVIOUS
<1> QED BY <1>1, <1>2, FS_Subset, FS_CardinalityType

(* A payload adds its size to the bytes of the others, which it does not   *)
(* meet.                                                                   *)
LEMMA FootprintSplit ==
  ASSUME NEW B \in [Ids -> Nat], NEW N \in [Ids -> Nat], NEW L \in SUBSET Ids, NEW id \in L,
         IsFiniteSet(Footprint(L \ {id}, B, N)),
         \A i \in L : i # id => Disjoint(B[i], N[i], B[id], N[id])
  PROVE  Cardinality(Footprint(L, B, N)) = Cardinality(Footprint(L \ {id}, B, N)) + N[id]
<1> PICK F, S : F = Footprint(L \ {id}, B, N) /\ S = Span(B, N, id)
  OBVIOUS
<1>1. Footprint(L, B, N) = F \union S
  BY DEF Footprint
<1>2. F \cap S = {}
  <2> SUFFICES ASSUME NEW x \in F, x \in S PROVE FALSE
    OBVIOUS
  <2>1. PICK i \in L \ {id} : x \in Span(B, N, i)
    BY DEF Footprint
  <2>2. B[i] \in Nat /\ N[i] \in Nat /\ B[id] \in Nat /\ N[id] \in Nat
    OBVIOUS
  <2>3. B[i] + N[i] <= B[id] \/ B[id] + N[id] <= B[i]
    BY <2>1 DEF Disjoint
  <2>4. x \in Int /\ B[i] <= x /\ x < B[i] + N[i] /\ B[id] <= x /\ x < B[id] + N[id]
    BY <2>1, <2>2 DEF Span
  <2> QED BY <2>2, <2>3, <2>4
<1>3. IsFiniteSet(S) /\ Cardinality(S) = N[id]
  <2>1. PICK a, n : a = B[id] /\ n = N[id] /\ a \in Nat /\ n \in Nat
    OBVIOUS
  <2>2. IsFiniteSet(a .. (a + n - 1)) /\ Cardinality(a .. (a + n - 1)) = IF a > a + n - 1 THEN 0 ELSE (a + n - 1) - a + 1
    <3>1. a \in Int /\ a + n - 1 \in Int
      BY <2>1
    <3> QED BY <3>1, FS_Interval
  <2> QED BY <2>1, <2>2 DEF Span
<1>4. IsFiniteSet(F) /\ Cardinality(F \union S) = Cardinality(F) + Cardinality(S) - Cardinality({})
  <2>1. IsFiniteSet(F)
    OBVIOUS
  <2>2. Cardinality(F \union S) = Cardinality(F) + Cardinality(S) - Cardinality(F \cap S)
    BY <1>3, <2>1, FS_Union
  <2> QED BY <1>2, <2>1, <2>2
<1>5. Cardinality(F) \in Nat /\ Cardinality({}) = 0 /\ N[id] \in Nat
  BY <1>4, FS_CardinalityType, FS_EmptySet
<1> QED BY <1>1, <1>3, <1>4, <1>5

(* Between two requests every payload lies in the heap.                    *)
LEMMA FootprintInHeap ==
  IInv /\ call = NoCall /\ verdict = "running" =>
    Footprint(live, blocks, block_sizes) \subseteq mem_start_brk .. (mem_brk - 1)
<1> SUFFICES ASSUME IInv, call = NoCall, verdict = "running", NEW i \in live,
                    NEW x \in Span(blocks, block_sizes, i)
             PROVE  x \in mem_start_brk .. (mem_brk - 1)
  BY DEF Footprint
<1>1. TypeOK /\ Tiled /\ HeldInBlocks /\ i \in Ids
  BY UsableLemma DEF IInv, ReadyForOp, NoCall, TypeOK, DriverTypeOK
<1>2. Holds(i) /\ Addr(i) = blocks[i] /\ Bytes(i) = block_sizes[i]
  BY DEF Holds, Addr, Bytes, Answered, NoCall
<1>3. PICK b, n : b = blocks[i] /\ n = block_sizes[i]
  OBVIOUS
<1>4. b \in blks /\ n + 8 <= SizeOf(b) /\ n \in Nat
  BY <1>1, <1>2, <1>3 DEF HeldInBlocks, DSIZE, TypeOK, DriverTypeOK
<1>5. /\ b \in Nat /\ mem_start_brk + 8 <= b /\ SizeOf(b) \in Nat
      /\ b + SizeOf(b) <= mem_brk + 8
  BY <1>1, <1>4, BlockLemma DEF Tiled, NEXT, DSIZE, heap
<1>6. x \in Int /\ b <= x /\ x < b + n
  BY <1>3, <1>4, <1>5 DEF Span
<1> QED BY <1>1, <1>4, <1>5, <1>6, HeapBounds

(* The package hands out memory, and the heap can only grow.               *)
LEMMA PackageUtil ==
  ASSUME UInv, PackageStep, UNCHANGED mainVars, phase = "util"
  PROVE  UtilInv'
<1>1. /\ IInv /\ TypeOK /\ TraceInv /\ UtilInv /\ UNCHANGED <<total_size, max_total_size>>
      /\ IInv' /\ TypeOK'
  BY PackageInv DEF UInv, MInv, IInv, mainVars, utilVars
<1>2. /\ call'.fn = call.fn /\ call'.id = call.id /\ UNCHANGED <<live, blocks, block_sizes>>
      /\ mem_brk' = mem_brk \/ Extend \/ mm_init
  BY <1>1, PackageFrame
<1>3. mem_start_brk \in Nat /\ mem_brk \in Nat /\ mem_brk' \in Nat /\ mem_start_brk <= mem_brk'
  <2>1. TypeOK => mem_start_brk \in Nat /\ mem_brk \in Nat /\ mem_start_brk <= mem_brk
    BY HeapBounds
  <2>2. TypeOK' => mem_brk' \in Nat /\ mem_start_brk <= mem_brk'
    BY MemAssumption DEF TypeOK, MemAssumption, mem_max_addr
  <2> QED BY <1>1, <2>1, <2>2
<1>4. mem_brk <= mem_brk'
  <2>1. CASE Extend
    <3>1. mem_brk' = mem_brk + ToInt(size) /\ ~ (ToInt(size) < 0)
      BY <2>1 DEF Extend, mem_sbrk, SbrkFails
    <3>2. ToInt(size) \in Int
      BY <1>1, MemAssumption DEF ToInt, TypeOK, MemAssumption
    <3> QED BY <1>3, <3>1, <3>2
  <2>2. CASE mm_init
    <3>1. mem_brk = mem_start_brk
      BY <1>1, <2>2 DEF mm_init, TraceInv
    <3> QED BY <1>3, <3>1
  <2> QED BY <1>2, <1>3, <2>1, <2>2
<1> QED BY <1>1, <1>2, <1>3, <1>4 DEF UtilInv

(* eval_mm_util starts to count.                                           *)
LEMMA StartUtilUtil == ASSUME UInv, StartUtil PROVE UtilInv'
<1>1. /\ live' = {} /\ call'.fn = "mm_init" /\ mem_brk' = mem_start_brk
      /\ total_size' = 0 /\ max_total_size' = 0
  BY DEF StartUtil, Restart, Post, mem_reset_brk
<1>2. Footprint(live', blocks', block_sizes') = {}
  BY <1>1 DEF Footprint
<1>3. Cardinality(Footprint(live', blocks', block_sizes')) = 0
  BY <1>2, FS_EmptySet
<1>4. mem_brk' - mem_start_brk = 0
  BY <1>1, MemAssumption DEF MemAssumption
<1>5. Footprint(live', blocks', block_sizes') \subseteq mem_start_brk .. (mem_brk' - 1)
  BY <1>2
<1> QED BY <1>1, <1>3, <1>4, <1>5 DEF UtilInv

(* A request of eval_mm_util: a payload that is being freed is still       *)
(* counted.                                                                *)
LEMMA RequestUtil == ASSUME UInv, ReplayRequest, phase = "util" PROVE UtilInv'
<1>1. /\ IInv /\ TypeOK /\ TypeOK' /\ MainOK /\ UtilInv /\ PayloadsDisjoint
      /\ UNCHANGED <<total_size, max_total_size, mem_brk, blocks, block_sizes>>
      /\ call.st = "none" /\ call = NoCall /\ call.fn = "none"
  BY ReplayRequestMain DEF UInv, MInv, MainOK, IInv, ReplayRequest, utilVars, memVars, NoCall
<1> PICK op : op = ops[opnum]
  OBVIOUS
<1>2. /\ call'.fn = op.fn /\ call'.id = op.id
      /\ live' = (IF op.fn = "mm_free" THEN live \ {op.id} ELSE live)
  BY DEF ReplayRequest, Post
<1>3. /\ live \in SUBSET Ids /\ blocks \in [Ids -> Nat] /\ block_sizes \in [Ids -> Nat]
      /\ mem_start_brk \in Nat /\ mem_brk \in Nat /\ mem_start_brk <= mem_brk
  BY <1>1, HeapBounds DEF TypeOK, DriverTypeOK
<1> DEFINE F(L) == Footprint(L, blocks, block_sizes)
<1>4. F(live') \subseteq F(live) /\ F(live) \subseteq mem_start_brk .. (mem_brk - 1)
  BY <1>1, <1>2 DEF Footprint, UtilInv
<1>5. IsFiniteSet(F(live'))
  <2>1. F(live') \subseteq mem_start_brk .. (mem_brk - 1)
    BY <1>4
  <2> HIDE DEF F
  <2> QED BY <1>3, <2>1, FootprintFits
<1>6. CASE op.fn = "mm_free"
  <2> PICK id : id = op.id
    OBVIOUS
  <2>1. id \in live /\ id \in Ids
    <3>1. Proper(Now, op) /\ DOMAIN Now.held = live
      BY ReplayProper, NowParts DEF UInv, Held
    <3> QED BY <1>3, <1>6, <3>1 DEF Proper
  <2>2. Cardinality(F(live)) = Cardinality(F(live \ {id})) + block_sizes[id]
    <3>1. \A i \in live : i # id => Disjoint(blocks[i], block_sizes[i], blocks[id], block_sizes[id])
      BY <1>1, <2>1 DEF PayloadsDisjoint
    <3>2. IsFiniteSet(Footprint(live \ {id}, blocks, block_sizes))
      BY <1>2, <1>5, <1>6
    <3> QED BY <1>3, <2>1, <3>1, <3>2, FootprintSplit
  <2>3. Cardinality(F(live \ {id})) \in Nat /\ block_sizes[id] \in Nat
    BY <1>2, <1>3, <1>5, <1>6, <2>1, FS_CardinalityType
  <2>4. total_size = Cardinality(F(live))
    <3>1. total_size = Cardinality(F(live)) + 0
      BY <1>1 DEF UtilInv
    <3> HIDE DEF F
    <3> QED BY <2>2, <2>3, <3>1
  <2>5. Footprint(live', blocks', block_sizes') = F(live \ {id})
    BY <1>1, <1>2, <1>6
  <2>6. total_size' = Cardinality(Footprint(live', blocks', block_sizes')) + block_sizes'[call'.id]
    BY <1>1, <1>2, <2>2, <2>4, <2>5
  <2> QED BY <1>1, <1>2, <1>4, <1>6, <2>1, <2>5, <2>6 DEF UtilInv
<1>7. CASE op.fn # "mm_free"
  BY <1>1, <1>2, <1>7 DEF UtilInv
<1> QED BY <1>6, <1>7

(* eval_mm_util takes an answer and counts the bytes it adds or takes      *)
(* away.                                                                   *)
LEMMA ReturnUtil == ASSUME UInv, ReplayReturn, phase = "util" PROVE UtilInv'
<1>1. /\ IInv /\ TypeOK /\ MainOK /\ UtilInv /\ PayloadsDisjoint /\ MInv'
  BY ReplayInitMain, ReplayAnswerMain DEF UInv, MInv, IInv
<1>2. IInv' /\ TypeOK' /\ MainOK' /\ PayloadsDisjoint'
  BY <1>1 DEF MInv, IInv
<1>3. ~ Failed
  BY <1>2 DEF ReplayReturn, MainOK
<1>4. /\ call.st = "returned" /\ call' = NoCall /\ verdict' = "running" /\ mem_brk' = mem_brk
      /\ total_size' = total_size + Change
      /\ max_total_size' = Larger(total_size', max_total_size)
      /\ IF call.fn \in {"mm_malloc", "mm_realloc"}
         THEN /\ live' = live \union {call.id}
              /\ blocks' = [blocks EXCEPT ![call.id] = call.ret]
              /\ block_sizes' = [block_sizes EXCEPT ![call.id] = call.size]
         ELSE UNCHANGED <<live, blocks, block_sizes>>
  BY <1>1, <1>3 DEF ReplayReturn, MainOK, memVars
<1>5. /\ live \in SUBSET Ids /\ blocks \in [Ids -> Nat] /\ block_sizes \in [Ids -> Nat]
      /\ live' \in SUBSET Ids /\ blocks' \in [Ids -> Nat] /\ block_sizes' \in [Ids -> Nat]
      /\ call.size \in Nat
      /\ mem_start_brk \in Nat /\ mem_brk \in Nat /\ mem_start_brk <= mem_brk
  BY <1>1, <1>2, HeapBounds, MemAssumption DEF TypeOK, DriverTypeOK, MemAssumption
<1> DEFINE F  == Footprint(live, blocks, block_sizes)
           F2 == Footprint(live', blocks', block_sizes')
<1>6. /\ IsFiniteSet(F) /\ Cardinality(F) \in Nat
      /\ IsFiniteSet(F2) /\ Cardinality(F2) \in Nat /\ Cardinality(F2) <= mem_brk - mem_start_brk
      /\ F2 \subseteq mem_start_brk .. (mem_brk - 1)
  <2>1. F \subseteq mem_start_brk .. (mem_brk - 1)
    BY <1>1 DEF UtilInv
  <2>2. F2 \subseteq mem_start_brk .. (mem_brk - 1)
    <3>1. (IInv /\ call = NoCall /\ verdict = "running")' =>
            (Footprint(live, blocks, block_sizes) \subseteq mem_start_brk .. (mem_brk - 1))'
      BY FootprintInHeap, PTL
    <3> QED BY <1>2, <1>4, <3>1
  <2> HIDE DEF F, F2
  <2> QED BY <1>5, <2>1, <2>2, FootprintFits
<1>7. total_size' = Cardinality(F2)
  <2>1. CASE call.fn \in {"mm_malloc", "mm_realloc"}
    <3> PICK id : id = call.id
      OBVIOUS
    <3>1. id \in Ids /\ (call.fn = "mm_malloc" => id \notin live) /\ (call.fn = "mm_realloc" => id \in live)
      <4>1. RequestInv
        BY <1>1, <1>4, <2>1, UsableLemma DEF Returned
      <4> QED BY <1>4, <1>5, <2>1, <4>1 DEF RequestInv, Returned
    <3> PICK G : G = Footprint(live \ {id}, blocks, block_sizes)
      OBVIOUS
    <3>2. G \subseteq F /\ IsFiniteSet(G) /\ Cardinality(G) \in Nat
      <4>1. G \subseteq F
        BY DEF Footprint
      <4> QED BY <1>6, <4>1, FS_Subset, FS_CardinalityType
    <3>3. /\ live' \ {id} = live \ {id} /\ id \in live' /\ block_sizes'[id] = call.size
          /\ \A i \in live \ {id} : blocks'[i] = blocks[i] /\ block_sizes'[i] = block_sizes[i]
      BY <1>4, <1>5, <2>1, <3>1
    <3>4. Footprint(live' \ {id}, blocks', block_sizes') = G
      BY <3>3 DEF Footprint, Span
    <3>5. Cardinality(F2) = Cardinality(G) + call.size
      <4>1. \A i \in live' : i # id => Disjoint(blocks'[i], block_sizes'[i], blocks'[id], block_sizes'[id])
        BY <1>2, <3>3 DEF PayloadsDisjoint
      <4> QED BY <1>5, <3>2, <3>3, <3>4, <4>1, FootprintSplit
    <3>6. CASE call.fn = "mm_malloc"
      <4>1. G = F
        BY <3>1, <3>6 DEF Footprint
      <4>2. total_size = Cardinality(F) /\ total_size' = total_size + call.size
        BY <1>1, <1>4, <1>6, <3>6 DEF UtilInv, Change
      <4> QED BY <3>5, <4>1, <4>2
    <3>7. CASE call.fn = "mm_realloc"
      <4>1. Cardinality(F) = Cardinality(G) + block_sizes[id]
        <5>1. \A i \in live : i # id => Disjoint(blocks[i], block_sizes[i], blocks[id], block_sizes[id])
          BY <1>1, <3>1, <3>7 DEF PayloadsDisjoint
        <5> QED BY <1>5, <3>1, <3>2, <3>7, <5>1, FootprintSplit
      <4>2. /\ total_size = Cardinality(F)
            /\ total_size' = total_size + (call.size - block_sizes[id])
        BY <1>1, <1>4, <1>6, <3>7 DEF UtilInv, Change
      <4>3. block_sizes[id] \in Nat
        BY <1>5, <3>1
      <4> HIDE DEF F, F2
      <4> QED BY <1>5, <3>2, <3>5, <4>1, <4>2, <4>3
    <3> QED BY <2>1, <3>6, <3>7
  <2>2. CASE call.fn = "mm_free"
    <3>1. F2 = F
      BY <1>4, <2>2
    <3>2. /\ total_size = Cardinality(F) + block_sizes[call.id]
          /\ total_size' = total_size + (- block_sizes[call.id])
      BY <1>1, <1>4, <2>2 DEF UtilInv, Change
    <3>3. block_sizes[call.id] \in Nat
      BY <1>1, <1>5, <2>2 DEF UtilInv
    <3> HIDE DEF F, F2
    <3> QED BY <1>6, <3>1, <3>2, <3>3
  <2>3. CASE call.fn \notin {"mm_malloc", "mm_realloc", "mm_free"}
    <3>1. F2 = F
      BY <1>4, <2>3
    <3>2. total_size = Cardinality(F) + 0 /\ total_size' = total_size + 0
      BY <1>1, <1>4, <2>3 DEF UtilInv, Change
    <3> HIDE DEF F, F2
    <3> QED BY <1>6, <3>1, <3>2
  <2> QED BY <2>1, <2>2, <2>3
<1>8. max_total_size' \in Int /\ max_total_size' <= mem_brk' - mem_start_brk
  <2>1. max_total_size \in Int /\ max_total_size <= mem_brk - mem_start_brk
    BY <1>1 DEF UtilInv
  <2> HIDE DEF F, F2
  <2> QED BY <1>4, <1>6, <1>7, <2>1 DEF Larger
<1> QED BY <1>4, <1>6, <1>7, <1>8 DEF UtilInv, NoCall

(* Every step of main keeps what the counts mean.                          *)
LEMMA NextUInv == ASSUME UInv, [MainNext]_allVars PROVE UInv'
<1>1. MInv /\ MInv'
  BY NextMInv DEF UInv
<1>2. ASSUME phase' = "util" PROVE UtilInv'
  <2>1. CASE PackageStep /\ UNCHANGED mainVars
    BY <1>2, <2>1, PackageUtil DEF mainVars
  <2>2. CASE ValidStep
    BY <1>2, <2>2 DEF ValidStep, mainVars
  <2>3. CASE StartUtil
    BY <2>3, StartUtilUtil
  <2>4. CASE StartSpeed \/ EndSpeed \/ StartNext
    BY <1>2, <2>4 DEF StartSpeed, EndSpeed, StartNext
  <2>5. CASE ReplayRequest
    BY <1>2, <2>5, RequestUtil DEF ReplayRequest
  <2>6. CASE ReplayReturn
    <3>1. phase = "util"
      BY <1>2, <2>6 DEF ReplayReturn
    <3> QED BY <2>6, <3>1, ReturnUtil
  <2>7. CASE UNCHANGED allVars
    BY <1>2, <2>7 DEF UInv, UtilInv, allVars, vars, memVars, driverVars, mainVars, utilVars
  <2> QED BY <2>1, <2>2, <2>3, <2>4, <2>5, <2>6, <2>7 DEF MainNext, MainStep
<1> QED BY <1>1, <1>2 DEF UInv

(* The utilisation eval_mm_util reports is at most 1: the bytes the trace  *)
(* holds at any time of the replay lie in the heap, apart from each other. *)
THEOREM UtilisationAtMostOne == MainSpec => []UtilAtMostOne
<1>1. MainInit => UInv
  <2> SUFFICES ASSUME MainInit PROVE UInv
    OBVIOUS
  <2> QED BY InitMInv DEF UInv, MainInit
<1>2. UInv /\ [MainNext]_allVars => UInv'
  BY NextUInv
<1>3. UInv => UtilAtMostOne
  BY DEF UInv, UtilInv, UtilAtMostOne
<1> QED BY <1>1, <1>2, <1>3, PTL DEF MainSpec
=============================================================================
