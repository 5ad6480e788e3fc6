---------------------------- MODULE MMSegregated ----------------------------
(***************************************************************************)
(* The segregated-list malloc package: mm.c with IMPLEMENTATION 3, the one *)
(* the committed file selects, driven by the client of MDriver.            *)
(*                                                                         *)
(* A block is known by its bp, three double words above its header; the    *)
(* words between are PRED and SUCC while the block is free, and the start  *)
(* of the payload, at bp - 16, while it is allocated.  The heap starts     *)
(* with CLASS_NUM sentinels, one circular doubly linked list each.         *)
(***************************************************************************)
EXTENDS MDriver

CONSTANTS
  CLASS_NUM,   \* number of size classes
  Stale        \* what a double word of the region may hold before mm_init

ASSUME ClassAssumption ==
  /\ CLASS_NUM \in Nat \ {0}
  /\ CLASS_NUM * 24 < INT_MOD   \* mm_init asks mem_sbrk for no more than an int holds
  /\ Stale \subseteq Nat

VARIABLES
  heap_end,    \* the global of mm.c
  pc,          \* where the call in progress is
  size,        \* the local size of mm_malloc and mm_realloc
  link_end,    \* the local of first_fit: the list being scanned
  cur,         \* the local currentbp, of first_fit and then of mm_malloc
  blks,        \* auxiliary: the bp of every block
  grown        \* auxiliary: extend_heap has succeeded in this call

mmVars == <<heap_end, pc, size, link_end, cur, blks, grown>>
vars == <<memVars, driverVars, mmVars>>

DSIZE == 8
HSIZE == 3 * DSIZE
ALIGN(n) == ((n + (ALIGNMENT - 1)) \div ALIGNMENT) * ALIGNMENT

(***************************************************************************)
(* The macros, on the memory m.  An address outside the region reads as 0  *)
(* and a write there is lost: ListsSound says that no free block makes the *)
(* package compute one.  Then(m, S) is the memory that statement S leaves  *)
(* when it runs on the memory m.                                           *)
(***************************************************************************)
Then(m, Statement(_)) == CHOOSE r \in {Statement(x) : x \in {m}} : TRUE

READ(m, p) == IF p \in DOMAIN m THEN m[p] ELSE 0
WRITE(m, p, val) == IF p \in DOMAIN m THEN [m EXCEPT ![p] = val] ELSE m

PACK(n, allocated) == n + allocated
HDRP(bp) == bp - HSIZE
GET_SIZE(m, p) == READ(m, p) - (READ(m, p) % 8)
GET_ALLOC(m, p) == READ(m, p) % 2
NEXT(m, bp) == bp + GET_SIZE(m, HDRP(bp))
PRED(m, bp) == READ(m, HDRP(bp) + 8)
SUCC(m, bp) == READ(m, HDRP(bp) + 16)
SetPRED(m, bp, val) == WRITE(m, HDRP(bp) + 8, val)
SetSUCC(m, bp, val) == WRITE(m, HDRP(bp) + 16, val)
SET(m, bp, val) ==
  Then(m, LAMBDA m0 : WRITE(m0, HDRP(bp), PACK(GET_SIZE(m0, HDRP(bp)), val)))

SizeOf(bp) == GET_SIZE(mem, HDRP(bp))
IsAlloc(bp) == GET_ALLOC(mem, HDRP(bp)) = 1

(***************************************************************************)
(* The lists.                                                              *)
(***************************************************************************)
heap == mem_start_brk + HSIZE
Sentinel(i) == heap + i * HSIZE
lists_end == Sentinel(CLASS_NUM)

find_list(n) ==
  LET fits == {i \in 0 .. CLASS_NUM - 2 : n <= 2 ^ (i + 5)}
  IN  Sentinel(IF fits = {} THEN CLASS_NUM - 1
               ELSE CHOOSE i \in fits : \A j \in fits : i <= j)

InsertIn(m0, bp, res) ==
  Then(SetPRED(m0, bp, PRED(m0, res)), LAMBDA m1 :
  Then(SetSUCC(m1, PRED(m1, bp), bp),  LAMBDA m2 :
  Then(SetSUCC(m2, bp, res),           LAMBDA m3 :
       SetPRED(m3, SUCC(m3, bp), bp))))
insert(m, bp) ==
  Then(m, LAMBDA m0 : InsertIn(m0, bp, find_list(GET_SIZE(m0, HDRP(bp)))))

Mut_erase(m, bp) ==
  Then(m, LAMBDA m0 : SetPRED(m0, SUCC(m0, bp), PRED(m0, bp)))
erase(m, bp) ==
  Then(m,                                      LAMBDA m0 :
  Then(SetPRED(m0, SUCC(m0, bp), PRED(m0, bp)), LAMBDA m1 :
       SetSUCC(m1, PRED(m1, bp), SUCC(m1, bp))))

(***************************************************************************)
(* Cutting and merging.                                                    *)
(***************************************************************************)
Mut_Cuts(bp, n) == SizeOf(bp) >= DSIZE + n
Cuts(bp, n) == SizeOf(bp) >= HSIZE + n
Divide(m, bp, n) ==   \* the two headers
  Then(WRITE(m, HDRP(bp), PACK(n, GET_ALLOC(m, HDRP(bp)))), LAMBDA m1 :
       WRITE(m1, HDRP(NEXT(m1, bp)), PACK(GET_SIZE(m, HDRP(bp)) - n, 0)))

InsertRest(m, bp) == Then(m, LAMBDA m0 : insert(m0, NEXT(m0, bp)))

cut_block(bp, n) ==
  IF Cuts(bp, n)
  THEN InsertRest(insert(erase(Divide(mem, bp, n), bp), bp), bp)
  ELSE mem

shrink_block(bp, n) ==
  IF Cuts(bp, n) THEN InsertRest(Divide(mem, bp, n), bp) ELSE mem

CutBlks(bp, n) == IF Cuts(bp, n) THEN blks \union {bp + n} ELSE blks

(* The code reads the header at NEXT(bp) before it compares NEXT(bp) with  *)
(* heap_end; what it reads there does not change the answer.               *)
Mut_CanCoalesce(bp) == NEXT(mem, bp) < heap_end
CanCoalesce(bp) == NEXT(mem, bp) < heap_end /\ ~ IsAlloc(NEXT(mem, bp))

Merged(m, bp, next_bp) ==
  WRITE(m, HDRP(bp), PACK(GET_SIZE(m, HDRP(bp)) + GET_SIZE(m, HDRP(next_bp)),
                          GET_ALLOC(m, HDRP(bp))))

coalesce_block(bp) ==
  LET next_bp == NEXT(mem, bp) IN
  /\ CanCoalesce(bp)
  /\ mem' = insert(erase(erase(Merged(mem, bp, next_bp), bp), next_bp), bp)
  /\ blks' = blks \ {next_bp}

Mut_expand_block(bp) ==
  LET next_bp == NEXT(mem, bp) IN
  /\ CanCoalesce(bp)
  /\ mem' = erase(mem, next_bp)
  /\ blks' = blks \ {next_bp}
expand_block(bp) ==
  LET next_bp == NEXT(mem, bp) IN
  /\ CanCoalesce(bp)
  /\ mem' = Merged(erase(mem, next_bp), bp, next_bp)
  /\ blks' = blks \ {next_bp}

(***************************************************************************)
(* Initial state, mm_init, and the return of a call.                       *)
(***************************************************************************)
Init ==
  /\ \E stale \in Stale : mem_init(stale)
  /\ DriverInit
  /\ heap_end = NULL /\ pc = "idle" /\ size = 0 /\ link_end = NULL /\ cur = NULL
  /\ blks = {} /\ grown = FALSE

Return(v) ==
  /\ call' = [call EXCEPT !.st = "returned", !.ret = v]
  /\ pc' = "idle" /\ size' = 0 /\ link_end' = NULL /\ cur' = NULL /\ grown' = FALSE

UnchangedDriver == UNCHANGED <<live, blocks, block_sizes, ranges, verdict>>

mm_init ==
  /\ Called("mm_init") /\ pc = "idle"
  /\ IF SbrkFails(CLASS_NUM * HSIZE)
     THEN /\ Return(-1)
          /\ UNCHANGED <<memVars, heap_end, blks>>
     ELSE /\ mem_sbrk(CLASS_NUM * HSIZE)
          /\ mem' = [a \in Words |->
               IF a >= HDRP(lists_end) THEN mem[a]
               ELSE LET i  == (a - mem_start_brk) \div HSIZE
                    IN  IF a = HDRP(Sentinel(i)) THEN PACK(HSIZE, 1) ELSE Sentinel(i)]
          /\ heap_end' = lists_end
          /\ blks' = {}
          /\ Return(0)
  /\ UnchangedDriver

(***************************************************************************)
(* mm_malloc: first_fit, extend_heap, first_fit again, and the placement.  *)
(***************************************************************************)
StartScan(n, where) ==
  /\ link_end' = find_list(n)
  /\ cur' = SUCC(mem', find_list(n))
  /\ pc' = where

mm_malloc ==
  /\ Called("mm_malloc") /\ pc = "idle"
  /\ size' = ALIGN(call.size + DSIZE)
  /\ UNCHANGED <<memVars, driverVars, heap_end, blks, grown>>
  /\ StartScan(size', "fit")

Scanning == pc \in {"fit", "refit"}
Fits == SizeOf(cur) >= size

FitNextList ==
  /\ Scanning /\ cur = link_end /\ NEXT(mem, link_end) < lists_end
  /\ link_end' = NEXT(mem, link_end)
  /\ cur' = SUCC(mem, link_end')
  /\ UNCHANGED <<memVars, driverVars, heap_end, pc, size, blks, grown>>

(* coalesce_block succeeded: the scan of the list starts over.             *)
FitCoalesce ==
  /\ Scanning /\ cur # link_end
  /\ coalesce_block(cur)
  /\ cur' = SUCC(mem', link_end)
  /\ UNCHANGED <<mem_brk, driverVars, heap_end, pc, size, link_end, grown>>

FitTake ==
  /\ Scanning /\ cur # link_end /\ ~ CanCoalesce(cur) /\ Fits
  /\ pc' = "place"
  /\ UNCHANGED <<memVars, driverVars, heap_end, size, link_end, cur, blks, grown>>

FitAdvance ==
  /\ Scanning /\ cur # link_end /\ ~ CanCoalesce(cur) /\ ~ Fits
  /\ cur' = SUCC(mem, cur)
  /\ UNCHANGED <<memVars, driverVars, heap_end, pc, size, link_end, blks, grown>>

Mut_ScanOver == cur = link_end
ScanOver == cur = link_end /\ NEXT(mem, link_end) >= lists_end

(* first_fit found nothing: extend_heap adds a free block of at least      *)
(* three double words, or fails and is ignored, and first_fit runs again.  *)
Mut_ExtendSize == IF size < HSIZE THEN HSIZE ELSE size - DSIZE
ExtendSize == IF size < HSIZE THEN HSIZE ELSE size

Extend ==
  /\ pc = "fit" /\ ScanOver
  /\ mem_sbrk(ExtendSize)
  /\ mem' = insert(WRITE(mem, mem_brk, PACK(ExtendSize, 0)), mem_brk + HSIZE)
  /\ heap_end' = heap_end + ExtendSize
  /\ blks' = blks \union {mem_brk + HSIZE}
  /\ grown' = TRUE
  /\ StartScan(size, "refit")
  /\ UNCHANGED <<driverVars, size>>

ExtendFails ==
  /\ pc = "fit" /\ ScanOver
  /\ SbrkFails(ExtendSize)
  /\ UNCHANGED mem
  /\ StartScan(size, "refit")
  /\ UNCHANGED <<mem_brk, driverVars, heap_end, size, blks, grown>>

(* The second first_fit returns NULL: cut_block reads the header of NULL   *)
(* and the process dies.                                                   *)
RefitFails ==
  /\ pc = "refit" /\ ScanOver
  /\ pc' = "crashed"
  /\ UNCHANGED <<memVars, driverVars, heap_end, size, link_end, cur, blks, grown>>

Place ==
  /\ pc = "place"
  /\ mem' = SET(erase(cut_block(cur, size), cur), cur, 1)
  /\ blks' = CutBlks(cur, size)
  /\ IF call.fn = "mm_malloc"
     THEN Return(cur - 2 * DSIZE)
     ELSE pc' = "copy" /\ UNCHANGED <<call, size, link_end, cur, grown>>
  /\ UnchangedDriver
  /\ UNCHANGED <<mem_brk, heap_end>>

(***************************************************************************)
(* mm_free and mm_realloc; Block is the bp of the payload they are given.  *)
(***************************************************************************)
Block == call.ptr + 2 * DSIZE
Mut_FreeMem(m) == SET(m, Block, 0)
FreeMem(m) == insert(SET(m, Block, 0), Block)

mm_free ==
  /\ Called("mm_free") /\ pc = "idle"
  /\ mem' = IF call.ptr = NULL THEN mem ELSE FreeMem(mem)
  /\ Return(0)
  /\ UnchangedDriver
  /\ UNCHANGED <<mem_brk, heap_end, blks>>

ReallocToZero ==
  /\ Called("mm_realloc") /\ pc = "idle" /\ call.size = 0
  /\ mem' = FreeMem(mem)
  /\ Return(NULL)
  /\ UnchangedDriver
  /\ UNCHANGED <<mem_brk, heap_end, blks>>

mm_realloc ==
  /\ Called("mm_realloc") /\ pc = "idle" /\ call.size # 0
  /\ size' = ALIGN(call.size + DSIZE)
  /\ pc' = "expand"
  /\ UNCHANGED <<memVars, driverVars, heap_end, link_end, cur, blks, grown>>

(* while (expand_block(bp));                                               *)
ReallocExpand ==
  /\ pc = "expand"
  /\ expand_block(Block)
  /\ UNCHANGED <<mem_brk, driverVars, heap_end, pc, size, link_end, cur, grown>>

ReallocInPlace ==
  /\ pc = "expand" /\ ~ CanCoalesce(Block)
  /\ SizeOf(Block) >= size
  /\ mem' = shrink_block(Block, size)
  /\ blks' = CutBlks(Block, size)
  /\ Return(call.ptr)
  /\ UnchangedDriver
  /\ UNCHANGED <<mem_brk, heap_end>>

(* newptr = mm_malloc(size - DSIZE)                                        *)
ReallocMoves ==
  /\ pc = "expand" /\ ~ CanCoalesce(Block)
  /\ SizeOf(Block) < size
  /\ size' = ALIGN((size - DSIZE) + DSIZE)
  /\ UNCHANGED <<memVars, driverVars, heap_end, blks, grown>>
  /\ StartScan(size', "fit")

(* The second SET is given HDRP(newptr + 2 * DSIZE) where a bp belongs: it *)
(* writes three double words below the header of the new block.            *)
Mut_ReallocCopy ==
  /\ pc = "copy"
  /\ LET newptr == cur - 2 * DSIZE
         moved  == MemMove(mem, newptr, call.ptr, SizeOf(Block) - HSIZE)
     IN  mem' = FreeMem(SET(moved, HDRP(newptr + 2 * DSIZE), 1))
  /\ Return(cur - 2 * DSIZE)
  /\ UnchangedDriver
  /\ UNCHANGED <<mem_brk, heap_end, blks>>
ReallocCopy ==
  /\ pc = "copy"
  /\ LET newptr == cur - 2 * DSIZE
         moved  == MemMove(mem, newptr, call.ptr, SizeOf(Block) - DSIZE)
     IN  mem' = FreeMem(SET(moved, HDRP(newptr + 2 * DSIZE), 1))
  /\ Return(cur - 2 * DSIZE)
  /\ UnchangedDriver
  /\ UNCHANGED <<mem_brk, heap_end, blks>>

PackageStep ==
  \/ mm_init
  \/ mm_malloc \/ FitNextList \/ FitCoalesce \/ FitTake \/ FitAdvance
  \/ Extend \/ ExtendFails \/ RefitFails \/ Place
  \/ mm_free
  \/ ReallocToZero \/ mm_realloc \/ ReallocExpand \/ ReallocInPlace
  \/ ReallocMoves \/ ReallocCopy

Next ==
  \/ PackageStep
  \/ DriverStep /\ UNCHANGED mmVars
  \/ DriverRequest /\ UNCHANGED mmVars

(* The package runs on until its call returns; the trace may end anywhere. *)
Spec == Init /\ [][Next]_vars /\ WF_vars(PackageStep)

(***************************************************************************)
(* Safety.                                                                 *)
(***************************************************************************)
PCs == {"idle", "fit", "refit", "place", "expand", "copy", "crashed"}

(* Every variable stays in its type.                                       *)
TypeOK ==
  /\ mem \in [Words -> Nat]
  /\ mem_brk \in mem_start_brk .. mem_max_addr /\ mem_brk % 8 = 0
  /\ DriverTypeOK
  /\ heap_end \in Nat /\ pc \in PCs /\ size \in Nat
  /\ link_end \in Nat /\ cur \in Nat /\ blks \subseteq Nat /\ grown \in BOOLEAN

(* The blocks that are not free: held by an identifier, about to be freed, *)
(* or allocated by a realloc that has not copied into it yet.              *)
Taken(b) ==
  \/ \E i \in Ids : Holds(i) /\ Addr(i) = b - 2 * DSIZE
  \/ Called("mm_free") /\ Block = b
  \/ pc = "copy" /\ cur = b

(* Every block has room for the header and the two links it needs when it  *)
(* is free (lab5.md: the smallest block has become 24 bytes).              *)
LinksFit == Usable => \A b \in blks : SizeOf(b) >= HSIZE

(* The blocks tile the heap behind the sentinels, and the allocated bit    *)
(* tells the free ones from the others.                                    *)
HeapTiled ==
  Usable =>
    /\ heap_end = mem_brk + HSIZE
    /\ lists_end \in blks \union {heap_end}
    /\ \A b \in blks :
         /\ b % 8 = 0 /\ lists_end <= b /\ b < heap_end
         /\ NEXT(mem, b) > b
         /\ NEXT(mem, b) \in blks \union {heap_end}
         /\ \A c \in blks : b < c => NEXT(mem, b) <= c
         /\ IsAlloc(b) <=> Taken(b)

(* Each list is one ring through its sentinel, the same in both            *)
(* directions, of exactly the free blocks of its class.                    *)
ListsSound ==
  Usable => \A c \in 0 .. CLASS_NUM - 1 :
    LET members == {b \in blks : ~ Taken(b) /\ find_list(SizeOf(b)) = Sentinel(c)}
        k == Cardinality(members)
        at[n \in 0 .. k + 1] == IF n = 0 THEN Sentinel(c) ELSE SUCC(mem, at[n - 1])
    IN  /\ {at[n] : n \in 1 .. k} = members
        /\ at[k + 1] = Sentinel(c)
        /\ \A n \in 0 .. k : PRED(mem, at[n + 1]) = at[n]

(* At every point of every call, the type correctness included.            *)
HeapSound == TypeOK /\ LinksFit /\ HeapTiled /\ ListsSound

(* extend_heap is called only when no free block is large enough, and none *)
(* of the classes scanned can still be merged with its successor.  (Blocks *)
(* of smaller classes are left unmerged: the price of segregated fit.)     *)
ScanComplete ==
  pc = "fit" /\ ScanOver =>
    \A b \in blks : ~ Taken(b) =>
      /\ SizeOf(b) < size
      /\ find_list(SizeOf(b)) >= find_list(size) => ~ CanCoalesce(b)

(* The second first_fit finds a block whenever extend_heap succeeded.      *)
RefitFinds == pc = "crashed" => ~ grown

(* mm_malloc answers NULL when there is no memory: eval_mm_valid and       *)
(* mm_realloc look for that answer.                                        *)
NoCrash == pc # "crashed"

(* A call changes no payload but that of its own identifier (lab5.md: the  *)
(* content of allocated memory is not modified unless the user asks).      *)
OthersUntouched ==
  [][\A i \in Ids : Holds(i) /\ Holds(i)' /\ i # call.id =>
       Object(i)'.data = Object(i).data]_vars

(***************************************************************************)
(* Liveness: every call returns, or dies for want of memory.               *)
(***************************************************************************)
CallsReturn == call.st = "called" ~> (call.st = "returned" \/ pc = "crashed")
=============================================================================
