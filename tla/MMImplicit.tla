----------------------------- MODULE MMImplicit -----------------------------
(***************************************************************************)
(* The implicit-list malloc package: mm.c with IMPLEMENTATION 1 (implicit  *)
(* free list, first fit, deferred coalescing, no boundary tags), driven by *)
(* the client of MDriver.                                                  *)
(*                                                                         *)
(* A block is known by its bp, the address of its payload; its header is   *)
(* the double word below.  Blocks follow each other from heap to heap_end. *)
(* The loops of first_fit and mm_realloc take one step per iteration, so   *)
(* that their termination is a liveness property; straight-line code       *)
(* between two loops is one step.                                          *)
(***************************************************************************)
EXTENDS MDriver

CONSTANT Stale   \* what a double word of the region may hold before mm_init
ASSUME StaleAssumption == Stale \subseteq Nat

VARIABLES
  heap_end,   \* the global of mm.c
  pc,         \* where the call in progress is
  size,       \* the local size: bytes asked for, header included
  cur,        \* the local currentbp, then newptr
  blks        \* auxiliary: the bp of every block

mmVars == <<heap_end, pc, size, cur, blks>>
vars == <<memVars, driverVars, mmVars>>

DSIZE == 8
ALIGN(n) == ((n + (ALIGNMENT - 1)) \div ALIGNMENT) * ALIGNMENT

PACK(n, allocated) == n + allocated
GET_SIZE(word) == word - (word % 8)
GET_ALLOC(word) == word % 2

heap == mem_start_brk + DSIZE
HDRP(bp) == bp - DSIZE
SizeOf(bp) == GET_SIZE(mem[HDRP(bp)])
IsAlloc(bp) == GET_ALLOC(mem[HDRP(bp)]) = 1
NEXT(bp) == bp + SizeOf(bp)
WRITE(m, p, val) == [m EXCEPT ![p] = val]

Init ==
  /\ \E stale \in Stale : mem_init(stale)
  /\ DriverInit
  /\ heap_end = NULL /\ pc = "idle" /\ size = 0 /\ cur = NULL
  /\ blks = {}

(* The call in progress returns v; its locals are gone.                    *)
Return(v) ==
  /\ call' = [call EXCEPT !.st = "returned", !.ret = v]
  /\ pc' = "idle" /\ size' = 0 /\ cur' = NULL

UnchangedDriver == UNCHANGED <<live, blocks, block_sizes, ranges, verdict>>

mm_init ==
  /\ Called("mm_init") /\ pc = "idle"
  /\ IF SbrkFails(DSIZE)
     THEN /\ Return(-1)
          /\ UNCHANGED <<memVars, heap_end, blks>>
     ELSE /\ mem_sbrk(DSIZE)
          /\ mem' = WRITE(mem, HDRP(heap), PACK(DSIZE, 0))
          /\ heap_end' = heap + DSIZE
          /\ blks' = {heap}
          /\ Return(0)
  /\ UnchangedDriver

(***************************************************************************)
(* first_fit.                                                              *)
(***************************************************************************)
mm_malloc ==
  /\ Called("mm_malloc") /\ pc = "idle"
  /\ size' = ALIGN(call.size + DSIZE)
  /\ cur' = heap /\ pc' = "fit"
  /\ UNCHANGED <<memVars, driverVars, heap_end, blks>>

FitEnd ==
  /\ pc = "fit" /\ cur >= heap_end
  /\ pc' = "extend"
  /\ UNCHANGED <<memVars, driverVars, heap_end, size, cur, blks>>

FitSkip ==
  /\ pc = "fit" /\ cur < heap_end /\ IsAlloc(cur)
  /\ cur' = NEXT(cur)
  /\ UNCHANGED <<memVars, driverVars, heap_end, pc, size, blks>>

(* if (GET_SIZE(HDRP(currentbp)) >= size)                                  *)
Mut_Fits(bp) == SizeOf(bp) > size
Fits(bp) == SizeOf(bp) >= size

FitTake ==
  /\ pc = "fit" /\ cur < heap_end /\ ~ IsAlloc(cur) /\ Fits(cur)
  /\ pc' = "place"
  /\ UNCHANGED <<memVars, driverVars, heap_end, size, cur, blks>>

(* coalesce_block(bp) returns 0 when the next block cannot be absorbed.    *)
Mut_CanCoalesce(bp) == NEXT(bp) < heap_end
CanCoalesce(bp) == NEXT(bp) < heap_end /\ ~ IsAlloc(NEXT(bp))

Mut_coalesce_block(bp) ==
  /\ CanCoalesce(bp)
  /\ mem' = WRITE(mem, HDRP(bp), PACK(SizeOf(NEXT(bp)), GET_ALLOC(mem[HDRP(bp)])))
  /\ blks' = blks \ {NEXT(bp)}
coalesce_block(bp) ==
  /\ CanCoalesce(bp)
  /\ mem' = WRITE(mem, HDRP(bp), PACK(SizeOf(bp) + SizeOf(NEXT(bp)),
                                      GET_ALLOC(mem[HDRP(bp)])))
  /\ blks' = blks \ {NEXT(bp)}

FitCoalesce ==
  /\ pc = "fit" /\ cur < heap_end /\ ~ IsAlloc(cur) /\ ~ Fits(cur)
  /\ coalesce_block(cur)
  /\ UNCHANGED <<mem_brk, driverVars, heap_end, pc, size, cur>>

Mut_FitNext ==
  /\ pc = "fit" /\ cur < heap_end /\ ~ IsAlloc(cur) /\ ~ Fits(cur)
  /\ cur' = NEXT(cur)
  /\ UNCHANGED <<memVars, driverVars, heap_end, pc, size, blks>>
FitNext ==
  /\ pc = "fit" /\ cur < heap_end /\ ~ IsAlloc(cur) /\ ~ Fits(cur)
  /\ ~ CanCoalesce(cur)
  /\ cur' = NEXT(cur)
  /\ UNCHANGED <<memVars, driverVars, heap_end, pc, size, blks>>

(***************************************************************************)
(* extend_heap and the placement of the block.                             *)
(***************************************************************************)
Extend ==
  /\ pc = "extend"
  /\ mem_sbrk(size)
  /\ mem' = WRITE(mem, mem_brk, PACK(size, 0))
  /\ heap_end' = heap_end + size
  /\ cur' = mem_brk + DSIZE
  /\ blks' = blks \union {mem_brk + DSIZE}
  /\ pc' = "place"
  /\ UNCHANGED <<driverVars, size>>

(* extend_heap returns NULL, mm_malloc adds DSIZE to it and cut_block      *)
(* reads the header of that block, at address 0: the process dies.         *)
ExtendFails ==
  /\ pc = "extend" /\ SbrkFails(size)
  /\ pc' = "crashed"
  /\ UNCHANGED <<memVars, driverVars, heap_end, size, cur, blks>>

(* The memory and the blocks after cut_block(bp, n).                       *)
Mut_Cuts(bp, n) == SizeOf(bp) >= n
Cuts(bp, n) == SizeOf(bp) >= DSIZE + n
Mut_CutMem(bp, n) ==
  IF Cuts(bp, n)
  THEN [mem EXCEPT ![HDRP(bp)] = PACK(n, GET_ALLOC(mem[HDRP(bp)])),
                   ![HDRP(bp) + n] = PACK(SizeOf(bp), 0)]
  ELSE mem
CutMem(bp, n) ==
  IF Cuts(bp, n)
  THEN [mem EXCEPT ![HDRP(bp)] = PACK(n, GET_ALLOC(mem[HDRP(bp)])),
                   ![HDRP(bp) + n] = PACK(SizeOf(bp) - n, 0)]
  ELSE mem
CutBlks(bp, n) == IF Cuts(bp, n) THEN blks \union {bp + n} ELSE blks

Mut_Place ==
  /\ pc = "place"
  /\ mem' = CutMem(cur, size)
  /\ blks' = CutBlks(cur, size)
  /\ IF call.fn = "mm_malloc"
     THEN Return(cur)
     ELSE pc' = "copy" /\ UNCHANGED <<call, size, cur>>
  /\ UnchangedDriver
  /\ UNCHANGED <<mem_brk, heap_end>>
Place ==
  /\ pc = "place"
  /\ mem' = WRITE(CutMem(cur, size), HDRP(cur), PACK(size, 1))
  /\ blks' = CutBlks(cur, size)
  /\ IF call.fn = "mm_malloc"
     THEN Return(cur)
     ELSE pc' = "copy" /\ UNCHANGED <<call, size, cur>>
  /\ UnchangedDriver
  /\ UNCHANGED <<mem_brk, heap_end>>

(***************************************************************************)
(* mm_free and mm_realloc.                                                 *)
(***************************************************************************)
FreeMem(m, bp) == WRITE(m, HDRP(bp), PACK(GET_SIZE(m[HDRP(bp)]), 0))

mm_free ==
  /\ Called("mm_free") /\ pc = "idle"
  /\ mem' = IF call.ptr = NULL THEN mem ELSE FreeMem(mem, call.ptr)
  /\ Return(0)
  /\ UnchangedDriver
  /\ UNCHANGED <<mem_brk, heap_end, blks>>

ReallocToZero ==
  /\ Called("mm_realloc") /\ pc = "idle" /\ call.size = 0
  /\ mem' = FreeMem(mem, call.ptr)
  /\ Return(NULL)
  /\ UnchangedDriver
  /\ UNCHANGED <<mem_brk, heap_end, blks>>

mm_realloc ==
  /\ Called("mm_realloc") /\ pc = "idle" /\ call.size # 0
  /\ size' = ALIGN(call.size + DSIZE)
  /\ pc' = "coalesce"
  /\ UNCHANGED <<memVars, driverVars, heap_end, cur, blks>>

(* while (coalesce_block(ptr)) ;                                           *)
ReallocCoalesce ==
  /\ pc = "coalesce"
  /\ coalesce_block(call.ptr)
  /\ UNCHANGED <<mem_brk, driverVars, heap_end, pc, size, cur>>

ReallocInPlace ==
  /\ pc = "coalesce" /\ ~ CanCoalesce(call.ptr)
  /\ SizeOf(call.ptr) >= size
  /\ mem' = CutMem(call.ptr, size)
  /\ blks' = CutBlks(call.ptr, size)
  /\ Return(call.ptr)
  /\ UnchangedDriver
  /\ UNCHANGED <<mem_brk, heap_end>>

(* newptr = mm_malloc(size - DSIZE)                                        *)
ReallocMoves ==
  /\ pc = "coalesce" /\ ~ CanCoalesce(call.ptr)
  /\ SizeOf(call.ptr) < size
  /\ size' = ALIGN((size - DSIZE) + DSIZE)
  /\ cur' = heap /\ pc' = "fit"
  /\ UNCHANGED <<memVars, driverVars, heap_end, blks>>

(* memmove of the old payload, the header of newptr, mm_free(ptr).         *)
Mut_ReallocCopy ==
  /\ pc = "copy"
  /\ LET moved == MemMove(mem, cur, call.ptr, SizeOf(call.ptr) - 2 * DSIZE)
         set   == WRITE(moved, HDRP(cur), PACK(GET_SIZE(moved[HDRP(cur)]), 1))
     IN  mem' = FreeMem(set, call.ptr)
  /\ Return(cur)
  /\ UnchangedDriver
  /\ UNCHANGED <<mem_brk, heap_end, blks>>
ReallocCopy ==
  /\ pc = "copy"
  /\ LET moved == MemMove(mem, cur, call.ptr, SizeOf(call.ptr) - DSIZE)
         set   == WRITE(moved, HDRP(cur), PACK(GET_SIZE(moved[HDRP(cur)]), 1))
     IN  mem' = FreeMem(set, call.ptr)
  /\ Return(cur)
  /\ UnchangedDriver
  /\ UNCHANGED <<mem_brk, heap_end, blks>>

PackageStep ==
  \/ mm_init
  \/ mm_malloc \/ FitEnd \/ FitSkip \/ FitTake \/ FitCoalesce \/ FitNext
  \/ Extend \/ ExtendFails \/ Place
  \/ mm_free
  \/ ReallocToZero \/ mm_realloc \/ ReallocCoalesce \/ ReallocInPlace
  \/ ReallocMoves \/ ReallocCopy

Next ==
  \/ PackageStep
  \/ DriverStep /\ UNCHANGED mmVars
  \/ DriverRequest /\ UNCHANGED mmVars

(* The package runs on until its call returns; the trace may end anywhere. *)
Spec == Init /\ [][Next]_vars /\ WF_vars(PackageStep)

(***************************************************************************)
(* The inductive invariant, in named parts.                                *)
(***************************************************************************)
PCs == {"idle", "fit", "extend", "place", "coalesce", "copy", "crashed"}

(* Every variable stays in its type: mem_sbrk keeps mem_brk in the region. *)
TypeOK ==
  /\ mem \in [Words -> Nat]
  /\ mem_brk \in mem_start_brk .. mem_max_addr /\ mem_brk % 8 = 0
  /\ DriverTypeOK
  /\ heap_end \in Nat
  /\ pc \in PCs
  /\ size \in Nat /\ cur \in Nat
  /\ blks \subseteq Nat

(* The blocks tile the heap: from one header GET_SIZE leads to the next or *)
(* to heap_end, and no block starts inside another.                        *)
Tiled ==
  /\ heap_end = mem_brk + DSIZE
  /\ heap \in blks
  /\ \A b \in blks :
       /\ b % 8 = 0 /\ heap <= b /\ b < heap_end
       /\ SizeOf(b) >= DSIZE
       /\ NEXT(b) <= heap_end
       /\ NEXT(b) \in blks \union {heap_end}
       /\ \A c \in blks : b < c => NEXT(b) <= c

(* A held payload lies in an allocated block of its own.                   *)
HeldInBlocks ==
  \A i \in Ids : Holds(i) =>
    /\ Addr(i) \in blks /\ IsAlloc(Addr(i))
    /\ Bytes(i) > 0 /\ Bytes(i) + DSIZE <= SizeOf(Addr(i))
    /\ \A j \in Ids : Holds(j) /\ Addr(j) = Addr(i) => j = i

(* What the driver asks for and is told.                                   *)
Fresh(bp) == bp \in blks /\ \A i \in Ids : Holds(i) => Addr(i) # bp

RequestInv ==
  /\ Called("mm_malloc") => call.id \in Ids \ live /\ call.size > 0
  /\ Returned("mm_malloc") => call.id \in Ids \ live /\ call.ret # NULL
  /\ Called("mm_free") => Fresh(call.ptr)
  /\ Called("mm_realloc") => call.id \in live /\ call.ptr = blocks[call.id]
  /\ Returned("mm_realloc") => call.id \in live

(* What the locals of the call mean at each point of it.                   *)
LocalInv ==
  /\ pc \notin {"idle", "crashed"} =>
       /\ call.size > 0 /\ size = ALIGN(call.size + DSIZE)
       /\ call.fn = "mm_realloc" /\ pc # "coalesce" => SizeOf(call.ptr) < size
  /\ pc = "coalesce" => call.fn = "mm_realloc"
  /\ pc = "fit" => cur \in blks \union {heap_end}
  /\ pc = "place" => cur \in blks /\ ~ IsAlloc(cur) /\ SizeOf(cur) >= size
  /\ pc = "copy" => Fresh(cur) /\ IsAlloc(cur) /\ SizeOf(cur) = size
                     /\ call.fn = "mm_realloc"

(* What holds of a trace that starts or is over.                           *)
TraceInv ==
  /\ Called("mm_init") => live = {} /\ mem_brk = mem_start_brk
  /\ pc # "idle" => call.st = "called" /\ call.fn \in {"mm_malloc", "mm_realloc"}
  /\ verdict = "invalid" => call.st = "none"

HeapInv == Tiled /\ HeldInBlocks /\ RequestInv /\ LocalInv

(* Why PayloadsDisjoint holds: the payloads of the trace lie in distinct   *)
(* blocks of a tiling, and every point of a call knows which block it is   *)
(* working on.                                                             *)
IInv == TypeOK /\ TraceInv /\ PayloadsDisjoint /\ (Usable => HeapInv)

(***************************************************************************)
(* Safety.                                                                 *)
(***************************************************************************)
(* A maximal or partial run of free blocks from block b up to e.           *)
FreeRun(b, e) ==
  /\ b < e
  /\ \A c \in blks : b <= c /\ c < e => ~ IsAlloc(c)

(* mm_malloc calls extend_heap only when the free bytes between two        *)
(* allocated blocks never suffice, however they are split into blocks:     *)
(* deferred coalescing loses no fit.                                       *)
ExtendOnlyWhenFull ==
  pc = "extend" =>
    \A b \in blks, e \in blks \union {heap_end} : FreeRun(b, e) => e - b < size

(* first_fit takes the fit of the lowest address.                          *)
FirstFit ==
  pc = "place" =>
    \A b, e \in blks : FreeRun(b, e) /\ e <= cur => e - b < size

(* The claim of lab5.md for deferred coalescing without boundary tags: the *)
(* scan meets a run of free blocks at its first block, so that merging     *)
(* forwards merges all of it.                                              *)
CursorStartsRun ==
  pc = "fit" /\ cur \in blks /\ ~ IsAlloc(cur) =>
    \A b \in blks : NEXT(b) = cur => IsAlloc(b)

(***************************************************************************)
(* Liveness: every call returns, or dies for want of memory.               *)
(***************************************************************************)
CallsReturn == call.st = "called" ~> (call.st = "returned" \/ pc = "crashed")
=============================================================================
