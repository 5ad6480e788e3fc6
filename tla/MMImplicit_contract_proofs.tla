---------------------- MODULE MMImplicit_contract_proofs ---------------------
(***************************************************************************)
(* The implicit-list package keeps the contract of Allocator; the driver   *)
(* gives up on an answer of it only where DriverAccepts says; first_fit    *)
(* takes the first free run that is long enough and extends the heap only  *)
(* when there is none.                                                     *)
(***************************************************************************)
EXTENDS MMImplicit_proofs

(* The payload of i holds what the driver wrote to it.                     *)
Filled(i, lo, n) ==
  \A a \in Words : lo <= a /\ a < lo + n => mem[a] = Fill(i)

(* The words the driver looks at after a realloc hold what was written to  *)
(* the old payload, whatever newp[j] reads of them.                        *)
DataMoved ==
  LET old == block_sizes[call.id]
      kept == IF call.size < old THEN call.size ELSE old
  IN  \A a \in DOMAIN mem :
        call.ret <= a /\ a < call.ret + kept => mem[a] = Fill(call.id)

(* The data of every live identifier, and of an answer of mm_realloc what  *)
(* fits both sizes.                                                        *)
DataInv ==
  /\ \A i \in live : ~ Answered(i) => Filled(i, blocks[i], block_sizes[i])
  /\ Returned("mm_realloc") /\ call.ret # NULL => DataMoved

(* The range list of the driver, and the answers it can get.               *)
RangeInv ==
  /\ ranges = {Extent(blocks[i], block_sizes[i]) : i \in live}
  /\ \A i \in live : block_sizes[i] > 0
  /\ Returned("mm_realloc") /\ call.ret = NULL => call.size = 0

(* The scan of first_fit has passed no free run that is long enough, and   *)
(* stops at a free block only where a run begins.                          *)
ScanInv ==
  /\ pc = "fit" =>
       \A b \in blks, e \in blks \union {heap_end} :
         FreeRun(b, e) /\ e <= cur => e - b < size
  /\ pc = "fit" /\ cur \in blks /\ ~ IsAlloc(cur) =>
       \A b \in blks : ~ FreeRun(b, cur)
  /\ ExtendOnlyWhenFull /\ FirstFit

(* A trace starts with nothing live, and what mm_realloc is asked of stays *)
(* the block of its identifier until the driver has looked at the answer.  *)
StartInv ==
  /\ Called("mm_init") \/ Returned("mm_init") => live = {} /\ ranges = {}
  /\ Returned("mm_realloc") => call.ptr = blocks[call.id]

CInv == IInv /\ StartInv /\ (Usable => DataInv /\ RangeInv /\ ScanInv)

(***************************************************************************)
(* first_fit.                                                              *)
(***************************************************************************)
(* Where nothing is scanned.                                               *)
LEMMA NoScan ==
  ASSUME pc' \notin {"fit", "extend", "place"}
  PROVE  ScanInv'
BY DEF ScanInv, ExtendOnlyWhenFull, FirstFit

(* A block before heap_end ends no later than the next one begins.         *)
LEMMA Between ==
  ASSUME TypeOK, Tiled, NEW b \in blks, NEW c \in blks \union {heap_end}, b < c
  PROVE  NEXT(b) <= c
BY BlockLemma DEF Tiled

(* The scan starts.                                                        *)
LEMMA ScanStarts ==
  ASSUME TypeOK', Tiled', pc' = "fit", cur' = heap
  PROVE  ScanInv'
<1>1. \A b \in blks' : b \in Nat /\ heap <= b /\ heap \in Nat
  BY MemAssumption DEF TypeOK, Tiled, heap, MemAssumption, DSIZE
<1>2. heap_end' \in Nat
  BY DEF TypeOK
<1>3. \A b \in blks', e \in (blks \union {heap_end})' : FreeRun(b, e)' /\ e <= heap => FALSE
  BY <1>1, <1>2 DEF FreeRun
<1>4. \A b \in blks' : ~ FreeRun(b, heap)'
  BY <1>1 DEF FreeRun
<1>5. \A b \in blks' : ~ FreeRun(b, cur)'
  BY <1>4 DEF FreeRun
<1> QED BY <1>3, <1>5 DEF ScanInv, ExtendOnlyWhenFull, FirstFit

(* Where blocks and their bits stay, so do the free runs.                  *)
LEMMA SameRuns ==
  ASSUME UNCHANGED <<mem, blks>>, NEW b, NEW e
  PROVE  FreeRun(b, e)' <=> FreeRun(b, e)
BY DEF FreeRun, IsAlloc

LEMMA FitEndScan == ASSUME CInv, FitEnd PROVE ScanInv'
<1>1. /\ pc = "fit" /\ cur >= heap_end /\ pc' = "extend"
      /\ UNCHANGED <<mem, heap_end, size, cur, blks>>
  BY DEF FitEnd, memVars
<1>2. TypeOK /\ Tiled /\ ScanInv
  BY <1>1, CursorLemma, UsableLemma DEF CInv
<1>3. \A e \in blks \union {heap_end} : e <= cur
  BY <1>1, <1>2 DEF TypeOK, Tiled
<1>4. \A b \in blks, e \in blks \union {heap_end} : FreeRun(b, e) => e - b < size
  BY <1>1, <1>2, <1>3 DEF ScanInv
<1>5. ExtendOnlyWhenFull'
  BY <1>1, <1>4, SameRuns DEF ExtendOnlyWhenFull
<1> QED BY <1>1, <1>5 DEF ScanInv, FirstFit

LEMMA FitTakeScan == ASSUME CInv, FitTake PROVE ScanInv'
<1>1. /\ pc = "fit" /\ pc' = "place"
      /\ UNCHANGED <<mem, heap_end, size, cur, blks>>
  BY DEF FitTake, memVars
<1>2. ScanInv
  BY <1>1, UsableLemma DEF CInv
<1>3. \A b, e \in blks : FreeRun(b, e) /\ e <= cur => e - b < size
  BY <1>1, <1>2 DEF ScanInv
<1>4. FirstFit'
  BY <1>1, <1>3, SameRuns DEF FirstFit
<1> QED BY <1>1, <1>4 DEF ScanInv, ExtendOnlyWhenFull

(* The cursor goes on to the next block.                                   *)
LEMMA CursorGoesOn ==
  ASSUME CInv, pc = "fit", pc' = "fit", cur < heap_end, cur' = NEXT(cur),
         UNCHANGED <<mem, heap_end, size, blks>>,
         \/ IsAlloc(cur)
         \/ /\ ~ IsAlloc(cur) /\ SizeOf(cur) < size
            /\ NEXT(cur) \in blks => IsAlloc(NEXT(cur))
  PROVE  ScanInv'
<1>1. TypeOK /\ Tiled /\ ScanInv /\ cur \in blks
  BY CursorLemma, UsableLemma DEF CInv
<1>2. /\ cur \in Nat /\ NEXT(cur) = cur + SizeOf(cur) /\ SizeOf(cur) \in Nat /\ heap_end \in Nat
      /\ blks \subseteq Nat /\ size \in Nat
  BY <1>1, BlockLemma DEF NEXT, TypeOK
<1>3. ASSUME NEW b \in blks, NEW e \in blks \union {heap_end}, FreeRun(b, e), e <= NEXT(cur)
      PROVE  e - b < size
  <2>1. CASE e <= cur
    BY <1>1, <1>3, <2>1 DEF ScanInv
  <2>2. CASE cur < e
    <3>1. e = NEXT(cur)
      BY <1>1, <1>2, <1>3, <2>2, Between
    <3>2. b <= cur
      <4>1. cur < b => NEXT(cur) <= b
        BY <1>1, Between
      <4> QED BY <1>2, <1>3, <3>1, <4>1 DEF FreeRun
    <3>3. ~ IsAlloc(cur)
      BY <1>1, <1>3, <2>2, <3>2 DEF FreeRun
    <3>4. b = cur
      <4>1. b < cur => FreeRun(b, cur)
        BY <1>2, <1>3, <2>2 DEF FreeRun
      <4> QED BY <1>1, <1>2, <3>2, <3>3, <4>1 DEF ScanInv
    <3> QED BY <1>2, <3>1, <3>3, <3>4
  <2> QED BY <1>2, <2>1, <2>2
<1>4. ASSUME NEW b \in blks, NEXT(cur) \in blks, ~ IsAlloc(NEXT(cur)), FreeRun(b, NEXT(cur))
      PROVE  FALSE
  <2>1. IsAlloc(cur)
    BY <1>4
  <2>2. b <= cur
    <3>1. cur < b => NEXT(cur) <= b
      BY <1>1, Between
    <3> QED BY <1>2, <1>4, <3>1 DEF FreeRun
  <2>3. cur < NEXT(cur)
    BY <1>1, BlockLemma
  <2> QED BY <1>1, <1>4, <2>1, <2>2, <2>3 DEF FreeRun
<1>5. PICK c : c = NEXT(cur)
  OBVIOUS
<1>6. cur' = c /\ IsAlloc(cur)' = IsAlloc(c) /\ \A b : FreeRun(b, cur)' <=> FreeRun(b, c)
  BY <1>5, SameRuns DEF IsAlloc, FreeRun
<1>7. \A b \in blks', e \in (blks \union {heap_end})' : FreeRun(b, e)' /\ e <= cur' => e - b < size'
  BY <1>3, <1>5, <1>6, SameRuns
<1>8. cur' \in blks' /\ ~ IsAlloc(cur)' => \A b \in blks' : ~ FreeRun(b, cur)'
  BY <1>4, <1>5, <1>6
<1> QED BY <1>7, <1>8 DEF ScanInv, ExtendOnlyWhenFull, FirstFit

LEMMA FitSkipScan == ASSUME CInv, FitSkip PROVE ScanInv'
BY CursorGoesOn DEF FitSkip, memVars

LEMMA FitNextScan == ASSUME CInv, FitNext PROVE ScanInv'
<1>1. /\ pc = "fit" /\ pc' = "fit" /\ cur < heap_end /\ cur' = NEXT(cur)
      /\ UNCHANGED <<mem, heap_end, size, blks>>
      /\ ~ IsAlloc(cur) /\ ~ (SizeOf(cur) >= size) /\ ~ CanCoalesce(cur)
  BY DEF FitNext, memVars, Fits
<1>2. TypeOK /\ Tiled /\ SizeOf(cur) \in Nat /\ size \in Nat
  BY <1>1, CursorLemma DEF TypeOK, CInv
<1>3. NEXT(cur) \in blks => IsAlloc(NEXT(cur))
  BY <1>1, <1>2 DEF CanCoalesce, Tiled
<1>4. SizeOf(cur) < size
  BY <1>1, <1>2
<1> QED BY <1>1, <1>3, <1>4, CursorGoesOn

(* Merging the next block into the one at the cursor changes no run before *)
(* the cursor.                                                             *)
LEMMA FitCoalesceScan == ASSUME CInv, FitCoalesce PROVE ScanInv'
<1>0. PICK bp : bp = cur
  OBVIOUS
<1>1. /\ bp \in blks /\ coalesce_block(bp) /\ pc = "fit" /\ pc' = "fit" /\ ~ IsAlloc(bp)
      /\ UNCHANGED <<mem_brk, heap_end, size, cur>> /\ cur < heap_end
  BY <1>0, CursorLemma DEF FitCoalesce, CInv
<1>2. TypeOK /\ Tiled /\ ScanInv
  BY <1>1, UsableLemma DEF CInv, IInv
<1> DEFINE np == NEXT(bp)
<1>3. /\ np \in blks /\ np # bp /\ blks' = blks \ {np}
      /\ \A b \in blks \ {bp} : IsAlloc(b)' = IsAlloc(b)
  BY <1>1, <1>2, CoalesceLemma DEF IsAlloc
<1>4. bp < np /\ bp \in Nat /\ np \in Nat /\ blks \subseteq Nat
  BY <1>1, <1>2, BlockLemma DEF TypeOK
<1>5. ASSUME NEW b \in blks, NEW e \in blks \union {heap_end}, e <= bp, FreeRun(b, e)'
      PROVE  FreeRun(b, e)
  <2>1. e \in Nat
    BY <1>2, <1>4 DEF TypeOK
  <2>2. ASSUME NEW c \in blks, b <= c, c < e PROVE ~ IsAlloc(c)
    <3>1. c \in blks' /\ c # bp
      BY <1>3, <1>4, <1>5, <2>1, <2>2
    <3> QED BY <1>3, <1>5, <2>2, <3>1 DEF FreeRun
  <2> QED BY <1>5, <2>2 DEF FreeRun
<1>6. \A b \in blks', e \in (blks \union {heap_end})' : FreeRun(b, e)' /\ e <= cur' => e - b < size'
  <2> SUFFICES ASSUME NEW b \in blks', NEW e \in (blks \union {heap_end})', FreeRun(b, e)', e <= bp
               PROVE  e - b < size
    BY <1>0, <1>1
  <2>1. b \in blks /\ e \in blks \union {heap_end}
    BY <1>1, <1>3
  <2>2. FreeRun(b, e)
    BY <1>5, <2>1
  <2> QED BY <1>0, <1>1, <1>2, <2>1, <2>2 DEF ScanInv
<1>7. \A b \in blks' : ~ FreeRun(b, cur)'
  <2> SUFFICES ASSUME NEW b \in blks', FreeRun(b, bp)' PROVE FALSE
    BY <1>0, <1>1 DEF FreeRun
  <2>1. b \in blks /\ FreeRun(b, bp)
    BY <1>1, <1>3, <1>4, <1>5
  <2> QED BY <1>0, <1>1, <1>2, <2>1 DEF ScanInv
<1> QED BY <1>1, <1>6, <1>7 DEF ScanInv, ExtendOnlyWhenFull, FirstFit

(* The block that extends the heap is taken when all others are too short. *)
LEMMA ExtendScan == ASSUME CInv, Extend, Tiled', TypeOK' PROVE ScanInv'
<1>1. /\ pc = "extend" /\ pc' = "place" /\ cur' = mem_brk + DSIZE /\ size' = size
      /\ blks' = blks \union {mem_brk + DSIZE}
      /\ mem' = WRITE(mem, mem_brk, PACK(size, 0))
  BY DEF Extend
<1>2. TypeOK /\ Tiled /\ ScanInv
  BY <1>1, UsableLemma DEF CInv, IInv
<1>3. heap_end = cur' /\ cur' \in Nat /\ mem_brk \in Nat
  BY <1>1, <1>2, MemAssumption DEF Tiled, TypeOK, MemAssumption, mem_max_addr
<1>4. \A b \in blks : b \in Nat /\ b < heap_end /\ IsAlloc(b)' = IsAlloc(b)
  <2>1. ASSUME NEW b \in blks PROVE HDRP(b) \in Words /\ HDRP(b) # mem_brk /\ b \in Nat /\ b < heap_end
    BY <1>1, <1>2, <1>3, BlockLemma DEF HDRP, Tiled, DSIZE
  <2>2. \A b \in blks : mem'[HDRP(b)] = mem[HDRP(b)]
    BY <1>1, <1>2, <2>1 DEF TypeOK, WRITE
  <2> QED BY <2>1, <2>2 DEF IsAlloc
<1>5. ASSUME NEW b \in blks', NEW e \in blks', FreeRun(b, e)', e <= cur'
      PROVE  e - b < size'
  <2>1. e \in blks \union {heap_end} /\ b < e /\ b \in Nat /\ e \in Nat
    BY <1>1, <1>3, <1>4, <1>5 DEF FreeRun
  <2>2. b \in blks
    BY <1>1, <1>3, <1>5, <2>1
  <2>3. FreeRun(b, e)
    BY <1>1, <1>4, <1>5, <2>1 DEF FreeRun
  <2> QED BY <1>1, <1>2, <2>1, <2>2, <2>3 DEF ScanInv, ExtendOnlyWhenFull
<1>6. FirstFit'
  BY <1>5 DEF FirstFit
<1> QED BY <1>1, <1>6 DEF ScanInv, ExtendOnlyWhenFull

(* Every step of the package.                                              *)
LEMMA PackageScan == ASSUME CInv, PackageStep, IInv', Usable' PROVE ScanInv'
<1>1. TypeOK' /\ Tiled'
  BY DEF IInv, HeapInv
<1>2. CASE mm_malloc
  BY <1>1, <1>2, ScanStarts DEF mm_malloc
<1>3. CASE ReallocMoves
  BY <1>1, <1>3, ScanStarts DEF ReallocMoves
<1>4. CASE Place
  BY <1>4, NoScan DEF Place, Return
<1>5. CASE mm_init \/ mm_free \/ ReallocToZero \/ mm_realloc \/ ReallocCoalesce \/ ReallocInPlace
           \/ ReallocCopy \/ ExtendFails
  BY <1>5, NoScan DEF mm_init, mm_free, ReallocToZero, mm_realloc, ReallocCoalesce, ReallocInPlace,
                     ReallocCopy, ExtendFails, Return
<1> QED BY <1>1, <1>2, <1>3, <1>4, <1>5, FitEndScan, FitSkipScan, FitTakeScan, FitCoalesceScan,
           FitNextScan, ExtendScan DEF PackageStep

(***************************************************************************)
(* Payloads.                                                               *)
(***************************************************************************)
(* No header, and no word of another block, is in the payload of a block.  *)
LEMMA PayloadWords ==
  ASSUME TypeOK, Tiled, NEW b \in blks, NEW n \in Nat, n + 8 <= SizeOf(b),
         NEW a \in Words, b <= a, a < b + n
  PROVE  /\ a < mem_brk
         /\ \A c \in blks : HDRP(c) # a
         /\ \A c \in blks \ {b} : \A k \in Nat : k < SizeOf(c) => HDRP(c) + k # a
<1>1. /\ b \in Nat /\ SizeOf(b) \in Nat /\ NEXT(b) = b + SizeOf(b) /\ NEXT(b) <= heap_end
      /\ heap_end = mem_brk + 8 /\ mem_brk \in Nat
  BY BlockLemma, MemAssumption DEF NEXT, Tiled, TypeOK, DSIZE, MemAssumption
<1>2. a \in Nat /\ a < NEXT(b) - 8
  BY <1>1, MemAssumption DEF Words, MemAssumption
<1>3. ASSUME NEW c \in blks \ {b}, NEW k \in Nat, k < SizeOf(c) PROVE HDRP(c) + k # a
  <2>1. c \in Nat /\ SizeOf(c) \in Nat /\ NEXT(c) = c + SizeOf(c) /\ HDRP(c) = c - 8
    BY BlockLemma DEF NEXT, HDRP, DSIZE
  <2>2. NEXT(c) <= b \/ NEXT(b) <= c
    BY <1>1, <2>1 DEF Tiled
  <2> QED BY <1>1, <1>2, <1>3, <2>1, <2>2
<1>4. HDRP(b) # a
  BY <1>1, <1>2 DEF HDRP, DSIZE
<1>5. \A c \in blks \ {b} : HDRP(c) # a
  <2> SUFFICES ASSUME NEW c \in blks \ {b} PROVE HDRP(c) # a
    OBVIOUS
  <2>1. SizeOf(c) \in Nat /\ SizeOf(c) >= 8 /\ HDRP(c) \in Int
    BY BlockLemma DEF HDRP, DSIZE
  <2>2. HDRP(c) + 0 # a
    BY <1>3, <2>1
  <2> QED BY <2>1, <2>2
<1> QED BY <1>1, <1>2, <1>3, <1>4, <1>5

(* A live identifier that is not being answered holds its block.           *)
LEMMA LiveBlock ==
  ASSUME TypeOK, Tiled, HeldInBlocks, NEW i \in live, ~ Answered(i)
  PROVE  /\ i \in Ids /\ Holds(i) /\ blocks[i] \in blks /\ IsAlloc(blocks[i])
         /\ block_sizes[i] \in Nat /\ block_sizes[i] > 0
         /\ block_sizes[i] + 8 <= SizeOf(blocks[i])
         /\ \A j \in Ids : Holds(j) /\ Addr(j) = blocks[i] => j = i
<1>1. i \in Ids /\ block_sizes[i] \in Nat
  BY DEF TypeOK, DriverTypeOK
<1>2. Holds(i) /\ Addr(i) = blocks[i] /\ Bytes(i) = block_sizes[i]
  BY DEF Holds, Addr, Bytes
<1> QED BY <1>1, <1>2 DEF HeldInBlocks, DSIZE

(* The payload of i is as it was.                                          *)
PayloadKept(i) ==
  \A a \in Words : blocks[i] <= a /\ a < blocks[i] + block_sizes[i] => mem'[a] = mem[a]

(* What the package does keeps the invariant if it keeps the payloads of   *)
(* all others, and of its own what the answer promises.                    *)
LEMMA PackageC ==
  ASSUME CInv, IInv', Usable, UnchangedDriver, call.st = "called", call'.fn # "mm_init",
         call'.fn = call.fn, call'.ptr = call.ptr, call'.id = call.id,
         \A i \in live : ~ Answered(i)' => PayloadKept(i),
         Returned("mm_realloc")' /\ call'.ret # NULL => DataMoved',
         Returned("mm_realloc")' /\ call'.ret = NULL => call'.size = 0,
         Usable' => ScanInv'
  PROVE  CInv'
<1>1. UNCHANGED <<live, blocks, block_sizes, ranges, verdict>>
  BY DEF UnchangedDriver
<1>2. DataInv /\ RangeInv /\ \A i \in Ids : ~ Answered(i)
  BY DEF CInv, Answered
<1>3. live \subseteq Ids
  BY DEF CInv, IInv, TypeOK, DriverTypeOK
<1>4. ASSUME NEW i \in live', ~ Answered(i)' PROVE Filled(i, blocks[i], block_sizes[i])'
  <2>1. i \in live /\ ~ Answered(i) /\ PayloadKept(i) /\ blocks'[i] = blocks[i] /\ block_sizes'[i] = block_sizes[i]
    BY <1>1, <1>2, <1>3, <1>4
  <2> QED BY <1>1, <1>2, <2>1 DEF DataInv, Filled, PayloadKept
<1>5. DataInv'
  BY <1>4 DEF DataInv
<1>6. RangeInv'
  BY <1>1, <1>2 DEF RangeInv, Extent
<1>7. StartInv'
  <2>1. Called("mm_realloc") => call.ptr = blocks[call.id]
    BY UsableLemma DEF CInv, RequestInv
  <2> QED BY <1>1, <2>1 DEF StartInv, Called, Returned
<1> QED BY <1>5, <1>6, <1>7 DEF CInv

(* Steps that write nothing.                                               *)
LEMMA LocalC ==
  ASSUME CInv, IInv', PackageStep, UNCHANGED <<memVars, driverVars>>,
         call.st = "called", call.fn # "mm_init"
  PROVE  CInv'
<1>1. UnchangedDriver /\ call' = call /\ mem' = mem
  BY DEF driverVars, memVars, UnchangedDriver
<1>2. Usable
  BY DEF CInv, IInv, TypeOK, DriverTypeOK, TraceInv, Usable, Called, Returned
<1>3. \A i \in live : PayloadKept(i)
  BY <1>1 DEF PayloadKept
<1> QED BY <1>1, <1>2, <1>3, PackageScan, PackageC DEF Returned

(* A step that writes headers of blocks only, and returns nothing.         *)
LEMMA HeadersC ==
  ASSUME CInv, IInv', PackageStep, UnchangedDriver, call' = call, pc # "idle",
         \A a \in Words : (a < mem_brk /\ \A c \in blks : HDRP(c) # a) => mem'[a] = mem[a]
  PROVE  CInv'
<1>1. TypeOK /\ Tiled /\ HeldInBlocks /\ Usable /\ call.st = "called" /\ call.fn # "mm_init"
  BY UsableLemma DEF CInv, IInv, TraceInv
<1>2. ASSUME NEW i \in live PROVE PayloadKept(i)
  <2>1. ~ Answered(i)
    BY <1>1 DEF Answered
  <2>2. /\ blocks[i] \in blks /\ block_sizes[i] \in Nat /\ block_sizes[i] + 8 <= SizeOf(blocks[i])
    BY <1>1, <2>1, LiveBlock
  <2> QED BY <1>1, <2>2, PayloadWords DEF PayloadKept
<1> QED BY <1>1, <1>2, PackageScan, PackageC DEF Returned

LEMMA FitCoalesceC == ASSUME CInv, IInv', FitCoalesce PROVE CInv'
<1>1. /\ cur \in blks /\ mem' = WRITE(mem, HDRP(cur), mem'[HDRP(cur)]) /\ pc # "idle"
      /\ UnchangedDriver /\ call' = call
  <2>1. PICK w : mem' = WRITE(mem, HDRP(cur), w)
    BY DEF FitCoalesce, coalesce_block
  <2>2. cur \in blks /\ TypeOK /\ Tiled
    BY CursorLemma DEF CInv, FitCoalesce
  <2>3. HDRP(cur) \in DOMAIN mem
    BY <2>2, BlockLemma DEF TypeOK
  <2> QED BY <2>1, <2>2, <2>3 DEF WRITE, FitCoalesce, driverVars, UnchangedDriver
<1>2. mem \in [Words -> Nat]
  BY DEF CInv, IInv, TypeOK
<1>3. \A a \in Words : (\A c \in blks : HDRP(c) # a) => mem'[a] = mem[a]
  BY <1>1, <1>2 DEF WRITE
<1> QED BY <1>1, <1>3, HeadersC DEF PackageStep

LEMMA ReallocCoalesceC == ASSUME CInv, IInv', ReallocCoalesce PROVE CInv'
<1>1. /\ call.ptr \in blks /\ pc # "idle" /\ UnchangedDriver /\ call' = call
  <2>1. Called("mm_realloc")
    BY UsableLemma DEF CInv, IInv, TraceInv, ReallocCoalesce, LocalInv, Called
  <2> QED BY <2>1, ReallocPtrLemma DEF CInv, ReallocCoalesce, driverVars, UnchangedDriver
<1>2. PICK w : mem' = WRITE(mem, HDRP(call.ptr), w)
  BY DEF ReallocCoalesce, coalesce_block
<1>3. mem \in [Words -> Nat]
  BY DEF CInv, IInv, TypeOK
<1>4. \A a \in Words : (\A c \in blks : HDRP(c) # a) => mem'[a] = mem[a]
  BY <1>1, <1>2, <1>3 DEF WRITE
<1> QED BY <1>1, <1>4, HeadersC DEF PackageStep

LEMMA ExtendC == ASSUME CInv, IInv', Extend PROVE CInv'
<1>1. pc # "idle" /\ UnchangedDriver /\ call' = call /\ mem' = WRITE(mem, mem_brk, PACK(size, 0))
  BY DEF Extend, driverVars, UnchangedDriver
<1>2. mem \in [Words -> Nat] /\ mem_brk \in Nat
  BY MemAssumption DEF CInv, IInv, TypeOK, MemAssumption
<1>3. \A a \in Words : a < mem_brk => mem'[a] = mem[a]
  BY <1>1, <1>2 DEF WRITE
<1> QED BY <1>1, <1>3, HeadersC DEF PackageStep

(* Cutting a block writes into it only.                                    *)
LEMMA CutWords ==
  ASSUME TypeOK, NEW bp \in blks, NEW n \in Nat,
         NEW a \in Words, a # HDRP(bp), a # HDRP(bp) + n
  PROVE  CutMem(bp, n)[a] = mem[a]
<1>1. mem \in [Words -> Nat]
  BY DEF TypeOK
<1> QED BY <1>1 DEF CutMem

(* The payload of another block stays when bp is cut.                      *)
LEMMA CutKeeps ==
  ASSUME TypeOK, Tiled, NEW bp \in blks, NEW n \in Nat, Cuts(bp, n),
         NEW b \in blks \ {bp}, NEW m \in Nat, m + 8 <= SizeOf(b),
         NEW a \in Words, b <= a, a < b + m
  PROVE  a # HDRP(bp) /\ a # HDRP(bp) + n
<1>1. n < SizeOf(bp)
  BY BlockLemma DEF Cuts, DSIZE
<1> QED BY <1>1, PayloadWords

LEMMA PlaceC == ASSUME CInv, IInv', Place PROVE CInv'
<1>0. PICK bp : bp = cur
  OBVIOUS
<1>1. /\ pc = "place" /\ mem' = WRITE(CutMem(bp, size), HDRP(bp), PACK(size, 1))
      /\ UnchangedDriver
      /\ \/ call.fn = "mm_malloc" /\ Return(bp)
         \/ call.fn # "mm_malloc" /\ call' = call
  BY <1>0 DEF Place
<1>2. TypeOK /\ Tiled /\ HeldInBlocks /\ LocalInv /\ Usable /\ call.st = "called"
      /\ call.fn \in {"mm_malloc", "mm_realloc"}
  BY <1>1, UsableLemma DEF CInv, IInv, TraceInv
<1>3. bp \in blks /\ ~ IsAlloc(bp) /\ size \in Nat
  BY <1>0, <1>1, <1>2 DEF LocalInv, TypeOK
<1>4. DOMAIN CutMem(bp, size) = Words
  BY <1>2 DEF CutMem, TypeOK
<1>5. ASSUME NEW i \in live PROVE PayloadKept(i)
  <2>1. ~ Answered(i)
    BY <1>2 DEF Answered
  <2>2. /\ blocks[i] \in blks \ {bp} /\ block_sizes[i] \in Nat /\ block_sizes[i] + 8 <= SizeOf(blocks[i])
    BY <1>2, <1>3, <2>1, LiveBlock
  <2>3. ASSUME NEW a \in Words, blocks[i] <= a, a < blocks[i] + block_sizes[i]
        PROVE  mem'[a] = mem[a]
    <3>1. a # HDRP(bp)
      BY <1>2, <1>3, <2>2, <2>3, PayloadWords
    <3>2. mem'[a] = CutMem(bp, size)[a]
      BY <1>1, <1>4, <3>1 DEF WRITE
    <3>3. CASE Cuts(bp, size)
      <4>1. a # HDRP(bp) + size
        BY <1>2, <1>3, <2>2, <2>3, <3>3, CutKeeps
      <4> QED BY <1>2, <1>3, <3>1, <3>2, <4>1, CutWords
    <3>4. CASE ~ Cuts(bp, size)
      BY <3>2, <3>4 DEF CutMem
    <3> QED BY <3>3, <3>4
  <2> QED BY <2>3 DEF PayloadKept
<1>6. Usable' => ScanInv'
  BY PackageScan DEF PackageStep
<1>7. /\ call'.fn # "mm_init" /\ ~ Returned("mm_realloc")'
      /\ call'.fn = call.fn /\ call'.ptr = call.ptr /\ call'.id = call.id
  BY <1>1, <1>2, ReturnLemma DEF Returned, TypeOK, DriverTypeOK, Return
<1> QED BY <1>1, <1>2, <1>5, <1>6, <1>7, PackageC

(* Freeing a block writes its header.                                      *)
LEMMA FreeWords ==
  ASSUME NEW m, DOMAIN m = Words, NEW bp, NEW a \in Words, a # HDRP(bp)
  PROVE  FreeMem(m, bp)[a] = m[a]
BY DEF FreeMem, WRITE

LEMMA FreeC == ASSUME CInv, IInv', mm_free PROVE CInv'
<1>1. Called("mm_free") /\ UnchangedDriver /\ Return(0) /\ pc = "idle"
      /\ mem' = IF call.ptr = NULL THEN mem ELSE FreeMem(mem, call.ptr)
  BY DEF mm_free
<1>2. TypeOK /\ Tiled /\ HeldInBlocks /\ RequestInv /\ Usable /\ call.st = "called"
  BY <1>1, UsableLemma DEF CInv, IInv, Called
<1>3. call.ptr \in blks
  BY <1>1, <1>2 DEF RequestInv, Fresh
<1>4. ASSUME NEW i \in live PROVE PayloadKept(i)
  <2>1. ~ Answered(i)
    BY <1>2 DEF Answered
  <2>2. /\ blocks[i] \in blks /\ block_sizes[i] \in Nat /\ block_sizes[i] + 8 <= SizeOf(blocks[i])
    BY <1>2, <2>1, LiveBlock
  <2>3. ASSUME NEW a \in Words, blocks[i] <= a, a < blocks[i] + block_sizes[i]
        PROVE  mem'[a] = mem[a]
    <3>1. a # HDRP(call.ptr)
      BY <1>2, <1>3, <2>2, <2>3, PayloadWords
    <3> QED BY <1>1, <1>2, <3>1, FreeWords DEF TypeOK
  <2> QED BY <2>3 DEF PayloadKept
<1>5. call'.fn = "mm_free" /\ call'.fn = call.fn /\ call'.ptr = call.ptr /\ call'.id = call.id
  BY <1>1, <1>2, ReturnLemma DEF Called
<1> QED BY <1>2, <1>1, <1>4, <1>5, PackageScan, PackageC DEF Returned, PackageStep

LEMMA ReallocToZeroC == ASSUME CInv, IInv', ReallocToZero PROVE CInv'
<1>1. Called("mm_realloc") /\ UnchangedDriver /\ Return(0) /\ call.size = 0
      /\ mem' = FreeMem(mem, call.ptr)
  BY DEF ReallocToZero, NULL
<1>2. TypeOK /\ Tiled /\ HeldInBlocks /\ Usable /\ call.st = "called" /\ call.ptr \in blks
  BY <1>1, UsableLemma, ReallocPtrLemma DEF CInv, IInv, Called
<1>4. ASSUME NEW i \in live PROVE PayloadKept(i)
  <2>1. ~ Answered(i)
    BY <1>2 DEF Answered
  <2>2. /\ blocks[i] \in blks /\ block_sizes[i] \in Nat /\ block_sizes[i] + 8 <= SizeOf(blocks[i])
    BY <1>2, <2>1, LiveBlock
  <2>3. ASSUME NEW a \in Words, blocks[i] <= a, a < blocks[i] + block_sizes[i]
        PROVE  mem'[a] = mem[a]
    <3>1. a # HDRP(call.ptr)
      BY <1>2, <2>2, <2>3, PayloadWords
    <3> QED BY <1>1, <1>2, <3>1, FreeWords DEF TypeOK
  <2> QED BY <2>3 DEF PayloadKept
<1>5. /\ call'.fn = "mm_realloc" /\ call'.ret = NULL /\ call'.size = 0
      /\ call'.fn = call.fn /\ call'.ptr = call.ptr /\ call'.id = call.id
  BY <1>1, <1>2, ReturnLemma DEF Called, NULL
<1>6. Usable' => ScanInv'
  BY PackageScan DEF PackageStep
<1> QED BY <1>2, <1>1, <1>4, <1>5, <1>6, PackageC

(* What mm_realloc answers, whichever way it takes.                        *)
LEMMA ReallocAnswer ==
  ASSUME CInv, Called("mm_realloc"), call.size > 0, NEW bp \in Nat \ {0}, Return(bp), UnchangedDriver
  PROVE  /\ call'.fn = "mm_realloc" /\ call'.ret = bp /\ call'.ret # NULL
         /\ call'.size = call.size /\ call'.id = call.id
         /\ call'.fn = call.fn /\ call'.ptr = call.ptr
         /\ \A i \in live : ~ Answered(i)' => i # call.id
         /\ (\A a \in Words : bp <= a /\ a < bp + call.size /\ a < bp + block_sizes[call.id]
                                 => mem'[a] = Fill(call.id))
            /\ DOMAIN mem' = Words => DataMoved'
<1>1. TypeOK
  BY DEF CInv, IInv
<1>2. /\ call'.st = "returned" /\ call'.ret = bp /\ call'.fn = "mm_realloc"
      /\ call'.id = call.id /\ call'.size = call.size /\ call'.fn = call.fn /\ call'.ptr = call.ptr
  BY <1>1, ReturnLemma DEF Called
<1>3. \A i \in live : ~ Answered(i)' => i # call.id
  BY <1>2 DEF Answered
<1>4. ASSUME DOMAIN mem' = Words,
             \A a \in Words : bp <= a /\ a < bp + call.size /\ a < bp + block_sizes[call.id]
                                 => mem'[a] = Fill(call.id)
      PROVE  DataMoved'
  <2>1. call.size \in Nat /\ block_sizes[call.id] \in Nat
    BY <1>1, MemAssumption, ReallocPtrLemma DEF TypeOK, DriverTypeOK, MemAssumption, CInv
  <2>2. block_sizes' = block_sizes
    BY DEF UnchangedDriver
  <2>3. PICK s \in Nat : s = block_sizes[call.id]
    BY <2>1
  <2>4. PICK kept \in Nat : kept = (IF call.size < s THEN call.size ELSE s)
    BY <2>1, <2>3
  <2>5. \A a \in Words : bp <= a /\ a < bp + kept => mem'[a] = Fill(call.id)
    <3>1. Words \subseteq Nat /\ kept <= call.size /\ kept <= s
      BY <2>1, <2>3, <2>4, MemAssumption DEF Words, MemAssumption
    <3>2. ASSUME NEW a \in Words, bp <= a, a < bp + kept PROVE mem'[a] = Fill(call.id)
      <4>1. a < bp + call.size /\ a < bp + s
        BY <2>1, <3>1, <3>2
      <4> QED BY <1>4, <2>3, <3>2, <4>1
    <3> QED BY <3>2
  <2>6. Fill(call.id)' = Fill(call.id) /\ block_sizes'[call'.id] = s
    BY <1>2, <2>2, <2>3 DEF Fill, LowByte
  <2> QED BY <1>2, <1>4, <2>4, <2>5, <2>6 DEF DataMoved
<1> QED BY <1>2, <1>3, <1>4 DEF NULL

LEMMA ReallocInPlaceC == ASSUME CInv, IInv', ReallocInPlace PROVE CInv'
<1>0. PICK bp : bp = call.ptr
  OBVIOUS
<1>1. /\ pc = "coalesce" /\ mem' = CutMem(bp, size) /\ Return(bp) /\ UnchangedDriver
  BY <1>0 DEF ReallocInPlace
<1>2. TypeOK /\ Tiled /\ HeldInBlocks /\ LocalInv /\ Usable /\ DataInv /\ Called("mm_realloc")
      /\ call.st = "called"
  BY <1>1, UsableLemma DEF CInv, IInv, TraceInv, LocalInv, Called
<1>3. /\ bp \in blks /\ call.id \in live /\ bp = blocks[call.id] /\ call.id \in Ids
      /\ Holds(call.id) /\ Addr(call.id) = bp /\ size \in Nat
      /\ call.size \in Nat /\ call.size > 0 /\ call.size + 8 <= size
  <2>1. call.size \in Nat /\ size \in Nat
    BY <1>2, MemAssumption DEF TypeOK, DriverTypeOK, MemAssumption
  <2>2. call.size > 0 /\ size = ALIGN(call.size + DSIZE)
    BY <1>1, <1>2 DEF LocalInv
  <2>3. call.size + DSIZE <= size
    BY <2>1, <2>2, AlignLemma DEF DSIZE
  <2> QED BY <1>0, <1>2, <2>1, <2>2, <2>3, ReallocPtrLemma DEF CInv, DSIZE
<1>4. bp \in Nat \ {0} /\ HDRP(bp) = bp - 8
  BY <1>2, <1>3, BlockLemma, MemAssumption DEF heap, MemAssumption, DSIZE, HDRP
<1>5. ASSUME NEW i \in live, i # call.id PROVE PayloadKept(i)
  <2>1. ~ Answered(i)
    BY <1>2 DEF Answered
  <2>2. /\ blocks[i] \in blks \ {bp} /\ block_sizes[i] \in Nat /\ block_sizes[i] + 8 <= SizeOf(blocks[i])
    BY <1>2, <1>3, <1>5, <2>1, LiveBlock
  <2>3. ASSUME NEW a \in Words, blocks[i] <= a, a < blocks[i] + block_sizes[i]
        PROVE  mem'[a] = mem[a]
    <3>1. CASE Cuts(bp, size)
      <4>1. a # HDRP(bp) /\ a # HDRP(bp) + size
        BY <1>2, <1>3, <2>2, <2>3, <3>1, CutKeeps
      <4> QED BY <1>1, <1>2, <1>3, <4>1, CutWords
    <3>2. CASE ~ Cuts(bp, size)
      BY <1>1, <3>2 DEF CutMem
    <3> QED BY <3>1, <3>2
  <2> QED BY <2>3 DEF PayloadKept
<1>6. ASSUME NEW a \in Words, bp <= a, a < bp + call.size, a < bp + block_sizes[call.id]
      PROVE  mem'[a] = Fill(call.id)
  <2>1. mem[a] = Fill(call.id)
    BY <1>2, <1>3, <1>6 DEF DataInv, Filled, Answered
  <2>2. a \in Nat
    BY MemAssumption DEF Words, MemAssumption
  <2>3. a # HDRP(bp) /\ a # HDRP(bp) + size
    BY <1>3, <1>4, <1>6, <2>2
  <2> QED BY <1>1, <1>2, <1>3, <2>1, <2>3, CutWords
<1>7. DOMAIN mem' = Words
  BY DEF IInv, TypeOK
<1>8. Usable' => ScanInv'
  BY PackageScan DEF PackageStep
<1>9. /\ call'.fn = "mm_realloc" /\ call'.ret # NULL /\ DataMoved'
      /\ call'.fn = call.fn /\ call'.ptr = call.ptr /\ call'.id = call.id
      /\ \A i \in live : ~ Answered(i)' => i # call.id
  BY <1>1, <1>2, <1>3, <1>4, <1>6, <1>7, ReallocAnswer
<1> QED BY <1>1, <1>2, <1>5, <1>8, <1>9, PackageC

(* A word of the new payload is copied from one of the old payload.        *)
LEMMA CopiedWord ==
  ASSUME TypeOK, Tiled, NEW src \in blks, NEW dst \in Nat, dst % 8 = 0,
         NEW n \in Nat, n + 8 <= SizeOf(src), NEW a \in Words, dst <= a, a < dst + n
  PROVE  LET w == src + (a - dst) IN w \in Words /\ src <= w /\ w < src + n
<1>1. /\ src \in Nat /\ src % 8 = 0 /\ heap <= src /\ SizeOf(src) \in Nat
      /\ src + SizeOf(src) <= heap_end
  BY BlockLemma DEF NEXT
<1>2. /\ heap_end = mem_brk + 8 /\ mem_brk \in Nat /\ mem_brk <= mem_max_addr
      /\ heap = mem_start_brk + 8 /\ mem_start_brk \in Nat /\ mem_max_addr \in Nat
  BY MemAssumption DEF MemAssumption, Tiled, TypeOK, heap, mem_max_addr, DSIZE
<1>3. a \in Nat /\ a % 8 = 0
  BY <1>2 DEF Words
<1>4. PICK d \in Nat : d = a - dst /\ d < n
  BY <1>3
<1>5. (src + d) % 8 = 0
  BY <1>1, <1>3, <1>4
<1>6. src + d \in Nat /\ src <= src + d /\ src + d < src + n /\ mem_start_brk <= src + d /\ src + d < mem_max_addr
  BY <1>1, <1>2, <1>4
<1> QED BY <1>2, <1>4, <1>5, <1>6 DEF Words

LEMMA ReallocCopyC == ASSUME CInv, IInv', ReallocCopy PROVE CInv'
<1>0. PICK bp, old : bp = cur /\ old = call.ptr
  OBVIOUS
<1> DEFINE n == SizeOf(old) - DSIZE
           moved == MemMove(mem, bp, old, n)
<1>1. PICK h : /\ pc = "copy" /\ mem' = FreeMem(WRITE(moved, HDRP(bp), h), old)
               /\ Return(bp) /\ UnchangedDriver
  BY <1>0 DEF ReallocCopy
<1>2. TypeOK /\ Tiled /\ HeldInBlocks /\ LocalInv /\ Usable /\ DataInv /\ Called("mm_realloc")
      /\ call.st = "called"
  BY <1>1, UsableLemma DEF CInv, IInv, TraceInv, LocalInv, Called
<1>3. /\ old \in blks /\ call.id \in live /\ old = blocks[call.id] /\ call.id \in Ids
      /\ Holds(call.id) /\ Addr(call.id) = old
      /\ bp \in blks /\ (\A i \in Ids : Holds(i) => Addr(i) # bp)
      /\ SizeOf(old) < SizeOf(bp) /\ call.size > 0
  BY <1>0, <1>1, <1>2, ReallocPtrLemma DEF CInv, LocalInv, Fresh
<1>4. /\ bp \in Nat \ {0} /\ bp % 8 = 0 /\ HDRP(bp) = bp - 8 /\ n \in Nat /\ n + 8 = SizeOf(old)
      /\ SizeOf(old) \in Nat /\ SizeOf(bp) \in Nat
  BY <1>2, <1>3, BlockLemma, MemAssumption DEF heap, MemAssumption, DSIZE, HDRP
<1>5. call.size \in Nat /\ mem \in [Words -> Nat] /\ Words \subseteq Nat
  BY <1>2, MemAssumption DEF TypeOK, DriverTypeOK, MemAssumption, Words
<1>6. ASSUME NEW a \in Words, a # HDRP(bp), a # HDRP(old)
      PROVE  mem'[a] = IF bp <= a /\ a < bp + n THEN mem[old + (a - bp)] ELSE mem[a]
  <2>1. DOMAIN moved = Words /\ moved[a] = IF bp <= a /\ a < bp + n THEN mem[old + (a - bp)] ELSE mem[a]
    BY <1>5 DEF MemMove
  <2> HIDE DEF moved
  <2>2. DOMAIN WRITE(moved, HDRP(bp), h) = Words /\ WRITE(moved, HDRP(bp), h)[a] = moved[a]
    BY <1>6, <2>1 DEF WRITE
  <2> QED BY <1>1, <1>6, <2>1, <2>2, FreeWords
<1> HIDE DEF moved
<1>7. ASSUME NEW i \in live, i # call.id PROVE PayloadKept(i)
  <2>1. ~ Answered(i)
    BY <1>2 DEF Answered
  <2>2. /\ blocks[i] \in blks \ {bp} /\ block_sizes[i] \in Nat /\ block_sizes[i] + 8 <= SizeOf(blocks[i])
    <3>1. Addr(i) = blocks[i]
      BY <2>1 DEF Addr
    <3> QED BY <1>2, <1>3, <2>1, <3>1, LiveBlock
  <2>3. ASSUME NEW a \in Words, blocks[i] <= a, a < blocks[i] + block_sizes[i]
        PROVE  mem'[a] = mem[a]
    <3>1. a # HDRP(bp) /\ a # HDRP(old)
      BY <1>2, <1>3, <2>2, <2>3, PayloadWords
    <3>2. ASSUME bp <= a, a < bp + n PROVE FALSE
      <4>1. PICK k \in Nat : k = (a - bp) + 8 /\ k < SizeOf(bp) /\ HDRP(bp) + k = a
        BY <1>3, <1>4, <1>5, <3>2
      <4> QED BY <1>2, <1>3, <2>2, <2>3, <4>1, PayloadWords
    <3> QED BY <1>6, <3>1, <3>2
  <2> QED BY <2>3 DEF PayloadKept
<1>8. ASSUME NEW a \in Words, bp <= a, a < bp + call.size, a < bp + block_sizes[call.id]
      PROVE  mem'[a] = Fill(call.id)
  <2>1. PICK s \in Nat : s = block_sizes[call.id] /\ s + 8 <= SizeOf(old) /\ s <= n
    <3>1. ~ Answered(call.id)
      BY <1>2 DEF Answered
    <3> QED BY <1>2, <1>3, <1>4, <3>1, LiveBlock
  <2>2. a \in Nat /\ a < bp + n /\ n + 8 <= SizeOf(bp)
    BY <1>3, <1>4, <1>5, <1>8, <2>1
  <2>3. a # HDRP(bp) /\ a # HDRP(old)
    BY <1>2, <1>3, <1>4, <1>8, <2>2, PayloadWords
  <2>4. PICK w : w = old + (a - bp) /\ w \in Words /\ old <= w /\ w < old + s
    BY <1>2, <1>3, <1>4, <1>8, <2>1, CopiedWord
  <2>5. mem[w] = Fill(call.id)
    BY <1>2, <1>3, <2>1, <2>4 DEF DataInv, Filled, Answered
  <2> QED BY <1>6, <1>8, <2>2, <2>3, <2>4, <2>5
<1>9. DOMAIN mem' = Words
  BY DEF IInv, TypeOK
<1>10. Usable' => ScanInv'
  BY PackageScan DEF PackageStep
<1>11. /\ call'.fn = "mm_realloc" /\ call'.ret # NULL /\ DataMoved'
      /\ call'.fn = call.fn /\ call'.ptr = call.ptr /\ call'.id = call.id
       /\ \A i \in live : ~ Answered(i)' => i # call.id
  BY <1>1, <1>2, <1>3, <1>4, <1>8, <1>9, ReallocAnswer
<1> QED BY <1>1, <1>2, <1>7, <1>10, <1>11, PackageC

(* mm_init is called when nothing is live.                                 *)
LEMMA InitCallC == ASSUME CInv, IInv', mm_init PROVE CInv'
<1>1. /\ Called("mm_init") /\ UnchangedDriver /\ \E v \in Int : Return(v)
  BY DEF mm_init
<1>2. live = {} /\ ranges = {}
  BY <1>1 DEF CInv, StartInv
<1>3. call'.fn = "mm_init" /\ pc' = "idle"
  BY <1>1, ReturnLemma DEF CInv, IInv, Called
<1>4. ScanInv'
  BY <1>3, NoScan
<1>5. live' = {} /\ ranges' = {}
  BY <1>1, <1>2 DEF UnchangedDriver
<1>6. DataInv' /\ RangeInv' /\ StartInv'
  BY <1>3, <1>5 DEF Called, DataInv, RangeInv, StartInv, Returned
<1> QED BY <1>4, <1>6 DEF CInv

LEMMA PackageCInv == ASSUME CInv, PackageStep PROVE CInv'
<1>1. IInv'
  BY PackageInv DEF CInv
<1>2. CASE mm_malloc \/ mm_realloc
  BY <1>1, <1>2, LocalC DEF mm_malloc, mm_realloc, Called, memVars, driverVars
<1>3. CASE FitEnd \/ FitSkip \/ FitTake \/ FitNext \/ ExtendFails \/ ReallocMoves
  <2>1. call.st = "called" /\ call.fn # "mm_init"
    BY <1>3 DEF CInv, IInv, TraceInv, FitEnd, FitSkip, FitTake, FitNext, ExtendFails, ReallocMoves
  <2> QED BY <1>1, <1>3, <2>1, LocalC DEF FitEnd, FitSkip, FitTake, FitNext, ExtendFails, ReallocMoves
<1> QED BY <1>1, <1>2, <1>3, InitCallC, FitCoalesceC, ExtendC, PlaceC, FreeC, ReallocToZeroC,
           ReallocCoalesceC, ReallocInPlaceC, ReallocCopyC DEF PackageStep

(***************************************************************************)
(* The driver.                                                             *)
(***************************************************************************)
(* While the driver acts nothing is scanned.                               *)
LEMMA DriverScan ==
  ASSUME CInv, call.st # "called", UNCHANGED mmVars
  PROVE  pc = "idle" /\ ScanInv'
<1>1. pc = "idle" /\ pc' = "idle"
  BY IdleLemma DEF CInv, mmVars
<1> QED BY <1>1, NoScan

(* The payload that the driver looks at is aligned, in the heap and beside *)
(* all others that its range list holds.                                   *)
LEMMA AnswerInHeap ==
  ASSUME CInv, Returned("mm_malloc") \/ Returned("mm_realloc"), call.ret # NULL
  PROVE  /\ call.id \in Ids /\ call.size \in Nat /\ call.size > 0 /\ call.ret \in Nat
         /\ call.ret % 8 = 0 /\ mem_start_brk <= call.ret /\ call.ret + call.size <= mem_brk
         /\ \A j \in live : j # call.id => Disjoint(call.ret, call.size, blocks[j], block_sizes[j])
<1>1. TypeOK /\ Tiled /\ HeldInBlocks /\ RequestInv
  BY UsableLemma DEF CInv, IInv
<1>2. call.id \in Ids /\ call.size \in Nat /\ live \subseteq Ids
  BY <1>1, MemAssumption DEF RequestInv, TypeOK, DriverTypeOK, MemAssumption
<1>3. Holds(call.id) /\ Addr(call.id) = call.ret /\ Bytes(call.id) = call.size
  BY DEF Holds, Addr, Bytes, Answered, Returned
<1>4. call.ret \in blks /\ call.size > 0 /\ call.size + 8 <= SizeOf(call.ret)
  BY <1>1, <1>2, <1>3 DEF HeldInBlocks, DSIZE
<1>5. /\ call.ret \in Nat /\ call.ret % 8 = 0 /\ mem_start_brk + 8 <= call.ret
      /\ call.ret + SizeOf(call.ret) <= mem_brk + 8 /\ SizeOf(call.ret) \in Nat
      /\ mem_brk \in Nat /\ mem_start_brk \in Nat
  <2>1. mem_brk \in Nat /\ mem_start_brk \in Nat /\ heap = mem_start_brk + 8 /\ heap_end = mem_brk + 8
    BY <1>1, MemAssumption DEF Tiled, heap, DSIZE, TypeOK, MemAssumption
  <2>2. PICK b \in blks : b = call.ret
    BY <1>4
  <2>3. /\ b \in Nat /\ b % 8 = 0 /\ heap <= b /\ SizeOf(b) \in Nat
        /\ NEXT(b) = b + SizeOf(b) /\ NEXT(b) <= heap_end
    BY <1>1, BlockLemma DEF NEXT
  <2> QED BY <2>1, <2>2, <2>3
<1>6. call.ret + call.size <= mem_brk /\ mem_start_brk <= call.ret
  BY <1>2, <1>4, <1>5
<1>7. ASSUME NEW j \in live, j # call.id
      PROVE  Disjoint(call.ret, call.size, blocks[j], block_sizes[j])
  <2>1. j \in Ids /\ Holds(j) /\ Addr(j) = blocks[j] /\ Bytes(j) = block_sizes[j]
    BY <1>2, <1>7 DEF Holds, Addr, Bytes, Answered
  <2> QED BY <1>1, <1>2, <1>3, <1>7, <2>1, HeldDisjointLemma
<1> QED BY <1>2, <1>4, <1>5, <1>6, <1>7

(* What disjoint payloads are to the test of add_range.                    *)
LEMMA NoOverlap ==
  ASSUME NEW lo \in Nat, NEW n \in Nat, n > 0, NEW l \in Nat, NEW m \in Nat, m > 0,
         Disjoint(lo, n, l, m)
  PROVE  ~ Overlaps(lo, lo + n - 1, Extent(l, m))
BY DEF Disjoint, Overlaps, Extent

LEMMA RangeOK ==
  ASSUME CInv, Returned("mm_malloc") \/ Returned("mm_realloc"), call.ret # NULL,
         NEW R, R \subseteq {Extent(blocks[j], block_sizes[j]) : j \in live \ {call.id}}
  PROVE  add_range_ok(R, call.ret, call.size)
<1>1. /\ call.id \in Ids /\ call.size \in Nat /\ call.size > 0 /\ call.ret \in Nat
      /\ call.ret % 8 = 0 /\ mem_start_brk <= call.ret /\ call.ret + call.size <= mem_brk
      /\ \A j \in live : j # call.id => Disjoint(call.ret, call.size, blocks[j], block_sizes[j])
  BY AnswerInHeap
<1>2. \A j \in live : blocks[j] \in Nat /\ block_sizes[j] \in Nat /\ block_sizes[j] > 0
  BY UsableLemma DEF CInv, IInv, TypeOK, DriverTypeOK, RangeInv
<1>3. mem_brk \in Nat /\ mem_start_brk \in Nat
  BY MemAssumption DEF CInv, IInv, TypeOK, MemAssumption
<1>4. \A p \in R : ~ Overlaps(call.ret, call.ret + call.size - 1, p)
  BY <1>1, <1>2, NoOverlap
<1>5. /\ call.ret <= mem_brk - 1 /\ call.ret + call.size - 1 <= mem_brk - 1
      /\ mem_start_brk <= call.ret + call.size - 1
  BY <1>1, <1>3
<1> QED BY <1>1, <1>3, <1>4, <1>5 DEF add_range_ok, IS_ALIGNED, ALIGNMENT, mem_heap_lo, mem_heap_hi

(* remove_range takes off the range of one identifier.                     *)
LEMMA RemovesOne ==
  ASSUME CInv, Usable, NEW i \in live
  PROVE  remove_range(ranges, blocks[i]) = {Extent(blocks[j], block_sizes[j]) : j \in live \ {i}}
<1>1. /\ ranges = {Extent(blocks[j], block_sizes[j]) : j \in live}
      /\ \A j \in live : block_sizes[j] > 0 /\ block_sizes[j] \in Nat /\ blocks[j] \in Nat
  BY DEF CInv, IInv, TypeOK, DriverTypeOK, RangeInv
<1>2. \A j \in live \ {i} : blocks[j] # blocks[i]
  BY <1>1 DEF CInv, IInv, PayloadsDisjoint, Disjoint
<1>3. \A j \in live : Extent(blocks[j], block_sizes[j]).lo = blocks[j]
  BY DEF Extent
<1> QED BY <1>1, <1>2, <1>3 DEF remove_range

(* The driver rejects nothing but the NULL of a realloc to size 0.         *)
LEMMA MallocAccepted == ASSUME CInv, RetMalloc PROVE call.ret # NULL /\ Accept(ranges)
<1>1. Returned("mm_malloc") /\ RequestInv /\ Usable
  BY UsableLemma DEF RetMalloc, CInv
<1>2. call.ret # NULL /\ call.id \notin live
  BY <1>1 DEF RequestInv
<1>3. ranges = {Extent(blocks[j], block_sizes[j]) : j \in live}
  BY <1>1 DEF CInv, RangeInv
<1>4. add_range_ok(ranges, call.ret, call.size)
  BY <1>1, <1>2, <1>3, RangeOK
<1> QED BY <1>2, <1>4 DEF RetMalloc

(* The bytes of an index whose low byte is a char are found again.         *)
LEMMA FoundAgain ==
  ASSUME CInv, DataMoved, ~ DataKept, call.id \in Nat
  PROVE  LowByte(call.id) >= 128
<1>1. SUFFICES ASSUME ~ (LowByte(call.id) >= 128) PROVE FALSE
  OBVIOUS
<1>2. LowByte(call.id) \in Nat
  BY DEF LowByte
<1>3. Char(LowByte(call.id)) = LowByte(call.id)
  BY <1>1, <1>2 DEF Char
<1> QED BY <1>3 DEF DataMoved, DataKept

LEMMA ReallocAccepted ==
  ASSUME CInv, RetRealloc
  PROVE  \/ Reject /\ (call.size = 0 \/ LowByte(call.id) >= 128)
         \/ call.ret # NULL /\ Accept(remove_range(ranges, call.ptr))
<1>1. Returned("mm_realloc") /\ RequestInv /\ Usable /\ DataInv /\ RangeInv
  BY UsableLemma DEF RetRealloc, CInv
<1>2. CASE call.ret = NULL
  BY <1>1, <1>2 DEF RetRealloc, RangeInv
<1>3. CASE call.ret # NULL
  <2>1. DataMoved
    BY <1>1, <1>3 DEF DataInv
  <2>2. call.id \in Nat
    BY DEF CInv, IInv, TypeOK, DriverTypeOK
  <2>3. add_range_ok(remove_range(ranges, call.ptr), call.ret, call.size)
    <3>1. call.id \in live
      BY <1>1 DEF RequestInv
    <3>2. call.ptr = blocks[call.id]
      BY <1>1 DEF CInv, StartInv
    <3> QED BY <1>1, <1>3, <3>1, <3>2, RemovesOne, RangeOK
  <2>4. CASE DataKept
    BY <1>3, <2>3, <2>4 DEF RetRealloc
  <2>5. CASE ~ DataKept
    <3>1. Reject
      BY <1>3, <2>3, <2>5 DEF RetRealloc
    <3> QED BY <2>1, <2>2, <2>5, <3>1, FoundAgain
  <2> QED BY <2>4, <2>5
<1> QED BY <1>2, <1>3

(* A step of the driver that changes nothing but the call.                 *)
LEMMA QuietC ==
  ASSUME CInv, IInv', UNCHANGED mmVars, UNCHANGED <<memVars, live, blocks, block_sizes, ranges>>,
         call.st # "called", call'.st # "returned", call'.fn # "mm_init",
         ~ Returned("mm_malloc"), ~ Returned("mm_realloc"), Usable' => Usable
  PROVE  CInv'
<1>1. mem' = mem /\ ScanInv'
  BY DriverScan DEF memVars
<1>2. StartInv'
  BY DEF StartInv, Called, Returned
<1>3. ASSUME Usable' PROVE DataInv' /\ RangeInv'
  <2>1. DataInv /\ RangeInv
    BY <1>3 DEF CInv
  <2>2. \A i \in live : ~ Answered(i)
    BY DEF Answered, Returned
  <2> QED BY <1>1, <2>1, <2>2 DEF DataInv, RangeInv, Filled, Returned, Extent, Fill, LowByte
<1> QED BY <1>1, <1>2, <1>3 DEF CInv

LEMMA RetInitC == ASSUME CInv, IInv', RetInit, UNCHANGED mmVars PROVE CInv'
<1>1. /\ call' = NoCall /\ UNCHANGED <<memVars, live, blocks, block_sizes, ranges>>
      /\ call.fn = "mm_init" /\ call.st = "returned"
      /\ verdict' = (IF call.ret < 0 THEN "invalid" ELSE verdict)
  BY DEF RetInit, Returned
<1>2. Usable' => Usable
  BY <1>1 DEF Usable, Called, Returned, NoCall
<1> QED BY <1>1, <1>2, QuietC DEF NoCall, Returned

LEMMA RetFreeC == ASSUME CInv, IInv', RetFree, UNCHANGED mmVars PROVE CInv'
<1>1. /\ call' = NoCall /\ UNCHANGED <<memVars, live, blocks, block_sizes, ranges>>
      /\ call.fn = "mm_free" /\ call.st = "returned" /\ Usable
  BY UsableLemma DEF RetFree, Returned, CInv
<1> QED BY <1>1, QuietC DEF NoCall, Returned

LEMMA ReqMallocC ==
  ASSUME CInv, IInv', NEW i \in Ids, NEW n \in Sizes, ReqMalloc(i, n), UNCHANGED mmVars PROVE CInv'
<1>1. /\ UNCHANGED <<memVars, live, blocks, block_sizes, ranges>> /\ Usable
      /\ call.st = "none" /\ call'.fn = "mm_malloc" /\ call'.st = "called"
  BY UsableLemma DEF ReqMalloc, ReadyForOp, Post, CInv
<1> QED BY <1>1, QuietC DEF Returned

LEMMA ReqReallocC ==
  ASSUME CInv, IInv', NEW i \in Ids, NEW n \in ReallocSizes, ReqRealloc(i, n), UNCHANGED mmVars
  PROVE  CInv'
<1>1. /\ UNCHANGED <<memVars, live, blocks, block_sizes, ranges>> /\ Usable
      /\ call.st = "none" /\ call'.fn = "mm_realloc" /\ call'.st = "called"
  BY UsableLemma DEF ReqRealloc, ReadyForOp, Post, CInv
<1> QED BY <1>1, QuietC DEF Returned

(* The range of a payload is removed before the payload is freed.          *)
LEMMA ReqFreeC ==
  ASSUME CInv, IInv', NEW i \in Ids, ReqFree(i), UNCHANGED mmVars PROVE CInv'
<1>1. /\ UNCHANGED <<memVars, blocks, block_sizes>> /\ Usable /\ i \in live
      /\ call.st = "none" /\ call'.fn = "mm_free" /\ call'.st = "called"
      /\ live' = live \ {i} /\ ranges' = remove_range(ranges, blocks[i])
  BY UsableLemma DEF ReqFree, ReadyForOp, Post, CInv
<1>2. mem' = mem /\ ScanInv'
  BY <1>1, DriverScan DEF memVars
<1>3. StartInv'
  BY <1>1 DEF StartInv, Called, Returned
<1>4. DataInv /\ RangeInv /\ \A j \in live : ~ Answered(j)
  BY <1>1 DEF CInv, Answered
<1>5. DataInv'
  BY <1>1, <1>2, <1>4 DEF DataInv, Filled, Returned, Fill, LowByte
<1>6. RangeInv'
  BY <1>1, <1>4, RemovesOne DEF RangeInv, Extent, Returned
<1> QED BY <1>2, <1>3, <1>5, <1>6 DEF CInv

LEMMA NextTraceC == ASSUME CInv, IInv', NextTrace, UNCHANGED mmVars PROVE CInv'
<1>1. call'.fn = "mm_init" /\ call'.st = "called" /\ live' = {} /\ ranges' = {}
  BY DEF NextTrace, Post
<1>2. ~ Usable' /\ StartInv'
  BY <1>1 DEF Usable, StartInv, Called, Returned
<1> QED BY <1>2 DEF CInv

(* An accepted payload is filled, and no other payload with it.            *)
LEMMA AcceptC ==
  ASSUME CInv, IInv', UNCHANGED mmVars, call' = NoCall, call.ret # NULL,
         NEW R, Accept(R), Returned("mm_malloc") \/ Returned("mm_realloc"),
         R = {Extent(blocks[j], block_sizes[j]) : j \in live \ {call.id}}
  PROVE  CInv'
<1>0. PICK id, p, n : id = call.id /\ p = call.ret /\ n = call.size
  OBVIOUS
<1>1. /\ mem' = MemSet(mem, p, Fill(id), n)
      /\ live' = live \union {id} /\ ranges' = R \union {Extent(p, n)}
      /\ blocks' = [blocks EXCEPT ![id] = p]
      /\ block_sizes' = [block_sizes EXCEPT ![id] = n]
  BY <1>0 DEF Accept
<1>2. /\ id \in Ids /\ n \in Nat /\ n > 0 /\ p \in Nat
      /\ \A j \in live : j # id => Disjoint(p, n, blocks[j], block_sizes[j])
  BY <1>0, AnswerInHeap
<1>3. /\ mem \in [Words -> Nat] /\ live \subseteq Ids /\ Usable /\ RangeInv /\ DataInv
      /\ blocks \in [Ids -> Nat] /\ block_sizes \in [Ids -> Nat]
  BY UsableLemma DEF CInv, IInv, TypeOK, DriverTypeOK
<1>4. /\ blocks'[id] = p /\ block_sizes'[id] = n
      /\ \A j \in live \ {id} : blocks'[j] = blocks[j] /\ block_sizes'[j] = block_sizes[j]
  BY <1>1, <1>2, <1>3
<1>5. ScanInv'
  BY DriverScan DEF Returned
<1>6. StartInv'
  BY DEF StartInv, NoCall, Called, Returned
<1>7. \A a \in Words : mem'[a] = IF p <= a /\ a < p + n THEN Fill(id) ELSE mem[a]
  BY <1>1, <1>3 DEF MemSet
<1>8. ASSUME NEW j \in live' PROVE Filled(j, blocks[j], block_sizes[j])'
  <2>1. CASE j = id
    BY <1>4, <1>7, <2>1 DEF Filled, Fill, LowByte
  <2>2. CASE j # id
    <3>1. PICK lo \in Nat, m \in Nat : lo = blocks[j] /\ m = block_sizes[j]
      BY <1>1, <1>3, <1>8, <2>2
    <3>2. j \in live /\ (p + n <= lo \/ lo + m <= p)
      BY <1>1, <1>2, <1>8, <2>2, <3>1 DEF Disjoint
    <3>3. ~ Answered(j)
      BY <1>0, <2>2 DEF Answered
    <3>4. ASSUME NEW a \in Words, lo <= a, a < lo + m PROVE mem'[a] = Fill(j)
      <4>1. mem[a] = Fill(j)
        BY <1>3, <3>1, <3>2, <3>3, <3>4 DEF DataInv, Filled
      <4>2. a \in Nat
        BY MemAssumption DEF Words, MemAssumption
      <4>3. ~ (p <= a /\ a < p + n)
        BY <1>2, <3>1, <3>2, <3>4, <4>2
      <4> QED BY <1>7, <4>1, <4>3
    <3>5. blocks'[j] = lo /\ block_sizes'[j] = m
      BY <1>4, <2>2, <3>1, <3>2
    <3> QED BY <3>4, <3>5 DEF Filled, Fill, LowByte
  <2> QED BY <2>1, <2>2
<1>9. DataInv'
  BY <1>8 DEF DataInv, NoCall, Returned
<1>10. ranges' = {Extent(blocks'[j], block_sizes'[j]) : j \in live'}
  <2>1. live' = (live \ {id}) \union {id}
    BY <1>1
  <2>2. {Extent(blocks'[j], block_sizes'[j]) : j \in live \ {id}} = R
    BY <1>0, <1>4
  <2> QED BY <1>1, <1>4, <2>1, <2>2
<1>11. \A j \in live' : block_sizes'[j] > 0
  BY <1>1, <1>2, <1>3, <1>4 DEF RangeInv
<1>12. RangeInv'
  BY <1>10, <1>11 DEF RangeInv, Extent, NoCall, Returned
<1> QED BY <1>5, <1>6, <1>9, <1>12 DEF CInv

LEMMA RetMallocC == ASSUME CInv, IInv', RetMalloc, UNCHANGED mmVars PROVE CInv'
<1>1. Returned("mm_malloc") /\ call' = NoCall
  BY DEF RetMalloc
<1>2. call.id \notin live /\ Usable
  BY <1>1, UsableLemma DEF CInv, RequestInv
<1>3. ranges = {Extent(blocks[j], block_sizes[j]) : j \in live \ {call.id}}
  BY <1>2 DEF CInv, RangeInv
<1> QED BY <1>1, <1>3, MallocAccepted, AcceptC

LEMMA RetReallocC == ASSUME CInv, IInv', RetRealloc, UNCHANGED mmVars PROVE CInv'
<1>1. Returned("mm_realloc") /\ call' = NoCall
  BY DEF RetRealloc
<1>2. CASE Reject
  <2>1. ~ Usable' /\ StartInv'
    BY <1>1, <1>2 DEF Reject, Usable, StartInv, NoCall, Called, Returned
  <2> QED BY <2>1 DEF CInv
<1>3. CASE call.ret # NULL /\ Accept(remove_range(ranges, call.ptr))
  <2>1. call.id \in live /\ Usable /\ call.ptr = blocks[call.id]
    BY <1>1, UsableLemma DEF CInv, RequestInv, StartInv
  <2>2. remove_range(ranges, call.ptr) = {Extent(blocks[j], block_sizes[j]) : j \in live \ {call.id}}
    BY <2>1, RemovesOne
  <2> QED BY <1>1, <1>3, <2>2, AcceptC
<1> QED BY <1>2, <1>3, ReallocAccepted

LEMMA InitCInv == ASSUME Init PROVE CInv
<1>1. IInv
  BY InitIInv
<1>2. Called("mm_init") /\ live = {} /\ ranges = {}
  BY DEF Init, DriverInit, Called
<1> QED BY <1>1, <1>2 DEF CInv, StartInv, Usable, Called, Returned

(* The invariant is inductive.                                             *)
LEMMA NextCInv == ASSUME CInv, [Next]_vars PROVE CInv'
<1>1. IInv'
  BY NextIInv DEF CInv
<1>2. CASE PackageStep
  BY <1>2, PackageCInv
<1>3. CASE DriverStep /\ UNCHANGED mmVars
  BY <1>1, <1>3, RetInitC, RetMallocC, RetReallocC, RetFreeC DEF DriverStep
<1>4. CASE DriverRequest /\ UNCHANGED mmVars
  BY <1>1, <1>4, NextTraceC, ReqMallocC, ReqReallocC, ReqFreeC DEF DriverRequest
<1>5. CASE UNCHANGED vars
  <2>1. UNCHANGED <<mem, mem_brk, live, blocks, block_sizes, ranges, call, verdict>>
        /\ UNCHANGED <<heap_end, pc, size, cur, blks>>
    BY <1>5 DEF vars, memVars, driverVars, mmVars
  <2>2. (Usable' <=> Usable) /\ (StartInv => StartInv') /\ (DataInv => DataInv') /\ (RangeInv => RangeInv')
    BY <2>1 DEF Usable, StartInv, DataInv, RangeInv, Called, Returned, Answered, Filled, Fill, LowByte,
                Extent, DataMoved
  <2>3. ScanInv => ScanInv'
    BY <2>1, SameRuns DEF ScanInv, ExtendOnlyWhenFull, FirstFit, IsAlloc, FreeRun
  <2> QED BY <1>1, <2>2, <2>3 DEF CInv
<1> QED BY <1>2, <1>3, <1>4, <1>5 DEF Next

(* Every reachable state satisfies the invariant.                          *)
THEOREM CInvariance == Spec => []CInv
<1>1. Init => CInv
  BY InitCInv
<1>2. CInv /\ [Next]_vars => CInv'
  BY NextCInv
<1> QED BY <1>1, <1>2, PTL DEF Spec

(* first_fit gives up only when no run of free blocks is long enough: the  *)
(* heap is never extended for a block that it already has room for.        *)
THEOREM FullBeforeExtending == Spec => []ExtendOnlyWhenFull
<1>1. CInv => ExtendOnlyWhenFull
  BY UsableLemma DEF CInv, ScanInv, ExtendOnlyWhenFull
<1> QED BY <1>1, CInvariance, PTL

(* first_fit takes the run of the lowest address.                          *)
THEOREM LowestFit == Spec => []FirstFit
<1>1. CInv => FirstFit
  BY UsableLemma DEF CInv, ScanInv, FirstFit
<1> QED BY <1>1, CInvariance, PTL

(* A scan meets a run of free blocks at its first block only.              *)
THEOREM StartsRun == Spec => []CursorStartsRun
<1>1. ASSUME CInv PROVE CursorStartsRun
  <2>1. SUFFICES ASSUME pc = "fit", cur \in blks, ~ IsAlloc(cur), NEW b \in blks, NEXT(b) = cur,
                        ~ IsAlloc(b)
                 PROVE  FALSE
    BY DEF CursorStartsRun
  <2>2. TypeOK /\ Tiled /\ ScanInv
    BY <1>1, <2>1, CursorLemma, UsableLemma DEF CInv
  <2>3. b \in Nat /\ b < NEXT(b) /\ NEXT(b) \in Nat /\ cur = NEXT(b) /\ blks \subseteq Nat
    BY <2>1, <2>2, BlockLemma DEF TypeOK
  <2>4. \A c \in blks : b <= c /\ c < cur => c = b
    BY <2>1, <2>2, <2>3, Between
  <2>5. FreeRun(b, cur)
    BY <2>1, <2>3, <2>4 DEF FreeRun
  <2> QED BY <2>1, <2>2, <2>5 DEF ScanInv
<1> QED BY <1>1, CInvariance, PTL

(* eval_mm_valid gives up on an answer of the package for the NULL of a    *)
(* realloc to size 0, for the bytes of a realloc that it reads as negative *)
(* chars, and for a failed mm_init, and for nothing else.                  *)
THEOREM Accepted == Spec => DriverAccepts
<1>1. ASSUME CInv, [Next]_vars
      PROVE  [verdict' = "invalid" =>
                \/ call.fn = "mm_realloc" /\ call.size = 0
                \/ call.fn = "mm_realloc" /\ LowByte(call.id) >= 128
                \/ call.fn = "mm_init" /\ call.ret < 0]_verdict
  <2>1. SUFFICES ASSUME verdict' # verdict, verdict' = "invalid"
                 PROVE  \/ call.fn = "mm_realloc" /\ call.size = 0
                        \/ call.fn = "mm_realloc" /\ LowByte(call.id) >= 128
                        \/ call.fn = "mm_init" /\ call.ret < 0
    OBVIOUS
  <2>2. CASE PackageStep
    <3>1. verdict' = verdict
      BY <2>2 DEF PackageStep, mm_init, mm_malloc, FitEnd, FitSkip, FitTake, FitCoalesce, FitNext,
                  Extend, ExtendFails, Place, mm_free, ReallocToZero, mm_realloc, ReallocCoalesce,
                  ReallocInPlace, ReallocMoves, ReallocCopy, UnchangedDriver, driverVars
    <3> QED BY <2>1, <3>1
  <2>3. CASE DriverStep
    <3>1. CASE RetInit
      BY <2>1, <3>1 DEF RetInit, Returned
    <3>2. CASE RetMalloc
      BY <1>1, <2>1, <3>2, MallocAccepted DEF Accept
    <3>3. CASE RetRealloc
      BY <1>1, <2>1, <3>3, ReallocAccepted DEF Accept, RetRealloc, Returned
    <3>4. CASE RetFree
      BY <2>1, <3>4 DEF RetFree
    <3> QED BY <2>3, <3>1, <3>2, <3>3, <3>4 DEF DriverStep
  <2>4. CASE DriverRequest
    BY <2>1, <2>4 DEF DriverRequest, NextTrace, ReqMalloc, ReqRealloc, ReqFree
  <2>5. CASE UNCHANGED vars
    BY <2>1, <2>5 DEF vars, driverVars
  <2> QED BY <1>1, <2>2, <2>3, <2>4, <2>5 DEF Next
<1> QED BY <1>1, CInvariance, PTL DEF Spec, DriverAccepts

(***************************************************************************)
(* The refinement: what the client sees of every state.                    *)
(***************************************************************************)
(* An identifier that the driver has written to.                           *)
Written(i) ==
  [lo |-> blocks[i], n |-> block_sizes[i],
   data |-> [k \in 0 .. ((block_sizes[i] - 1) \div 8) |-> Fill(i)]]

(* What of the answer of mm_realloc is old data.                           *)
AnswerKept(i) ==
  \A k \in 0 .. ((block_sizes[i] - 1) \div 8) :
    k \in DOMAIN Object(i).data => Object(i).data[k] = Fill(i)

View ==
  /\ \A i \in Ids :
       /\ Usable /\ Holds(i) <=> Object(i) # NoObj
       /\ Object(i) # NoObj =>
            /\ Object(i).lo = Addr(i) /\ Object(i).n = Bytes(i)
            /\ Object(i).lo % 8 = 0 /\ mem_start_brk <= Object(i).lo
            /\ Object(i).lo + Object(i).n <= mem_max_addr
       /\ Object(i) # NoObj /\ ~ Answered(i) => Object(i) = Written(i)
       /\ Object(i) # NoObj /\ Returned("mm_realloc") /\ call.id = i => AnswerKept(i)
  /\ \A i, j \in Ids : i # j /\ Object(i) # NoObj /\ Object(j) # NoObj =>
       Disjoint(Object(i).lo, Object(i).n, Object(j).lo, Object(j).n)

(* The double words of a payload.                                          *)
LEMMA HeldWords ==
  ASSUME TypeOK, Tiled, HeldInBlocks, NEW i \in Ids, Holds(i)
  PROVE  /\ Addr(i) \in Nat /\ Bytes(i) \in Nat /\ Bytes(i) > 0
         /\ Addr(i) % 8 = 0 /\ mem_start_brk <= Addr(i) /\ Addr(i) + Bytes(i) <= mem_max_addr
         /\ \A k \in 0 .. ((Bytes(i) - 1) \div 8) :
              /\ Addr(i) + 8 * k \in Words
              /\ Addr(i) <= Addr(i) + 8 * k /\ Addr(i) + 8 * k < Addr(i) + Bytes(i)
<1>1. PICK b, n : b = Addr(i) /\ n = Bytes(i)
  OBVIOUS
<1>2. b \in blks /\ n > 0 /\ n + 8 <= SizeOf(b)
  BY <1>1 DEF HeldInBlocks, DSIZE
<1>3. n \in Nat
  BY <1>1, MemAssumption DEF Bytes, TypeOK, DriverTypeOK, MemAssumption
<1>4. /\ b \in Nat /\ b % 8 = 0 /\ heap <= b /\ SizeOf(b) \in Nat
      /\ NEXT(b) = b + SizeOf(b) /\ NEXT(b) <= heap_end
  BY <1>2, BlockLemma DEF NEXT
<1>5. /\ mem_brk \in Nat /\ mem_brk <= mem_max_addr /\ mem_start_brk \in Nat /\ mem_max_addr \in Nat
      /\ heap = mem_start_brk + 8 /\ heap_end = mem_brk + 8
  BY MemAssumption DEF Tiled, heap, DSIZE, TypeOK, MemAssumption, mem_max_addr
<1>6. mem_start_brk <= b /\ b + n <= mem_max_addr
  BY <1>2, <1>3, <1>4, <1>5
<1>7. ASSUME NEW k \in 0 .. ((n - 1) \div 8)
      PROVE  b + 8 * k \in Words /\ b <= b + 8 * k /\ b + 8 * k < b + n
  <2>1. k \in Nat /\ 8 * k <= n - 1
    BY <1>2, <1>3
  <2>2. (b + 8 * k) % 8 = 0
    BY <1>4, <2>1
  <2> QED BY <1>3, <1>4, <1>5, <1>6, <2>1, <2>2 DEF Words
<1> QED BY <1>1, <1>2, <1>3, <1>4, <1>6, <1>7

(* The object of an identifier that holds memory.                          *)
LEMMA ObjectOf ==
  ASSUME CInv, Usable, NEW i \in Ids, Holds(i)
  PROVE  /\ Object(i).lo = Addr(i) /\ Object(i).n = Bytes(i) /\ Object(i) # NoObj
         /\ Object(i) = [lo |-> Addr(i), n |-> Bytes(i),
                         data |-> [k \in 0 .. ((Bytes(i) - 1) \div 8) |-> mem[Addr(i) + 8 * k]]]
<1>1. TypeOK /\ Tiled /\ HeldInBlocks
  BY DEF CInv, IInv, HeapInv
<1>2. verdict = "running" /\ ~ Called("mm_init")
  BY DEF Usable
<1>3. \A k \in 0 .. ((Bytes(i) - 1) \div 8) : Addr(i) + 8 * k \in Words
  BY <1>1, HeldWords
<1>4. Object(i) = [lo |-> Addr(i), n |-> Bytes(i),
                   data |-> [k \in 0 .. ((Bytes(i) - 1) \div 8) |-> mem[Addr(i) + 8 * k]]]
  BY <1>2, <1>3 DEF Object
<1>5. Bytes(i) # 0
  BY <1>1, HeldWords
<1>6. NoObj.n = 0
  BY DEF NoObj
<1> QED BY <1>4, <1>5, <1>6

LEMMA NoObject ==
  ASSUME CInv, NEW i \in Ids, ~ (Usable /\ Holds(i))
  PROVE  Object(i) = NoObj
<1>1. CASE Returned("mm_init")
  <2>1. live = {} /\ ~ Answered(i)
    BY <1>1 DEF CInv, StartInv, Answered, Returned
  <2> QED BY <2>1 DEF Object, Holds
<1>2. CASE ~ Returned("mm_init")
  BY <1>2 DEF Object, Usable
<1> QED BY <1>1, <1>2

LEMMA WrittenObject ==
  ASSUME CInv, Usable, NEW i \in Ids, Holds(i), ~ Answered(i)
  PROVE  Object(i) = Written(i)
<1>1. TypeOK /\ Tiled /\ HeldInBlocks /\ DataInv
  BY DEF CInv, IInv, HeapInv
<1>2. i \in live /\ Addr(i) = blocks[i] /\ Bytes(i) = block_sizes[i]
  BY DEF Holds, Addr, Bytes
<1>3. ASSUME NEW k \in 0 .. ((Bytes(i) - 1) \div 8) PROVE mem[Addr(i) + 8 * k] = Fill(i)
  <2>1. /\ Addr(i) + 8 * k \in Words
        /\ Addr(i) <= Addr(i) + 8 * k /\ Addr(i) + 8 * k < Addr(i) + Bytes(i)
    BY <1>1, HeldWords
  <2> QED BY <1>1, <1>2, <2>1 DEF DataInv, Filled
<1>4. [k \in 0 .. ((Bytes(i) - 1) \div 8) |-> mem[Addr(i) + 8 * k]]
        = [k \in 0 .. ((Bytes(i) - 1) \div 8) |-> Fill(i)]
  BY <1>3
<1> QED BY <1>2, <1>4, ObjectOf DEF Written

LEMMA AnswerObject ==
  ASSUME CInv, Usable, NEW i \in Ids, Holds(i), Returned("mm_realloc"), call.id = i
  PROVE  AnswerKept(i)
<1>1. TypeOK /\ Tiled /\ HeldInBlocks /\ DataInv
  BY DEF CInv, IInv, HeapInv
<1>2. Answered(i)
  BY DEF Answered, Returned
<1>3. call.ret # NULL /\ Addr(i) = call.ret /\ Bytes(i) = call.size
  BY <1>2 DEF Holds, Addr, Bytes
<1>4. PICK p \in Nat, n \in Nat, old \in Nat :
        p = call.ret /\ n = call.size /\ old = block_sizes[i] /\ n > 0
  BY <1>1, <1>3, HeldWords DEF TypeOK, DriverTypeOK
<1>5. \A a \in Words : p <= a /\ a < p + n /\ a < p + old => mem[a] = Fill(i)
  <2>1. PICK kept : kept = (IF call.size < block_sizes[call.id] THEN call.size ELSE block_sizes[call.id])
    OBVIOUS
  <2>2. \A a \in DOMAIN mem : p <= a /\ a < p + kept => mem[a] = Fill(i)
    BY <1>1, <1>3, <1>4, <2>1 DEF DataInv, DataMoved
  <2>3. DOMAIN mem = Words /\ kept = (IF n < old THEN n ELSE old)
    BY <1>1, <1>4, <2>1 DEF TypeOK
  <2> QED BY <1>4, <2>2, <2>3
<1>6. Object(i).data = [k \in 0 .. ((n - 1) \div 8) |-> mem[p + 8 * k]]
  <2> DEFINE d == [k \in 0 .. ((Bytes(i) - 1) \div 8) |-> mem[Addr(i) + 8 * k]]
  <2>1. Object(i) = [lo |-> Addr(i), n |-> Bytes(i), data |-> d]
    BY ObjectOf
  <2>2. d = [k \in 0 .. ((n - 1) \div 8) |-> mem[p + 8 * k]]
    BY <1>3, <1>4
  <2> HIDE DEF d
  <2> QED BY <2>1, <2>2
<1>7. ASSUME NEW k \in 0 .. ((old - 1) \div 8), k \in 0 .. ((n - 1) \div 8)
      PROVE  mem[p + 8 * k] = Fill(i)
  <2>1. p + 8 * k \in Words /\ p <= p + 8 * k /\ p + 8 * k < p + n
    BY <1>1, <1>3, <1>4, <1>7, HeldWords
  <2>2. 8 * k <= old - 1
    BY <1>4, <1>7
  <2>3. p + 8 * k < p + old
    BY <1>4, <1>7, <2>2
  <2> QED BY <1>5, <2>1, <2>3
<1> QED BY <1>4, <1>6, <1>7 DEF AnswerKept

LEMMA ViewInv == CInv => View
<1> SUFFICES ASSUME CInv PROVE View
  OBVIOUS
<1>1. \A i \in Ids : Usable /\ Holds(i) <=> Object(i) # NoObj
  BY ObjectOf, NoObject
<1>2. ASSUME NEW i \in Ids, Object(i) # NoObj
      PROVE  /\ Object(i).lo = Addr(i) /\ Object(i).n = Bytes(i)
             /\ Object(i).lo % 8 = 0 /\ mem_start_brk <= Object(i).lo
             /\ Object(i).lo + Object(i).n <= mem_max_addr
             /\ ~ Answered(i) => Object(i) = Written(i)
             /\ Returned("mm_realloc") /\ call.id = i => AnswerKept(i)
  <2>1. Usable /\ Holds(i) /\ TypeOK /\ Tiled /\ HeldInBlocks
    BY <1>1, <1>2 DEF CInv, IInv, HeapInv
  <2> QED BY <2>1, ObjectOf, HeldWords, WrittenObject, AnswerObject
<1>3. ASSUME NEW i \in Ids, NEW j \in Ids, i # j, Object(i) # NoObj, Object(j) # NoObj
      PROVE  Disjoint(Object(i).lo, Object(i).n, Object(j).lo, Object(j).n)
  <2>1. Usable /\ Holds(i) /\ Holds(j) /\ TypeOK /\ Tiled /\ HeldInBlocks
    BY <1>1, <1>3 DEF CInv, IInv, HeapInv
  <2> QED BY <1>2, <1>3, <2>1, HeldDisjointLemma
<1> QED BY <1>1, <1>2, <1>3 DEF View

LEMMA ViewPrime == CInv' => View'
BY ViewInv, PTL

(***************************************************************************)
(* The refinement: every step is one of the contract.                      *)
(***************************************************************************)
Objects == [i \in Ids |-> Object(i)]

LEMMA ObjectsLemma ==
  /\ \A i \in Ids : Objects[i] = Object(i) /\ Objects'[i] = Object(i)'
  /\ NoObj = Contract!None
BY DEF Objects, NoObj, Contract!None

(* A step that changes one object, seen from the others.                   *)
OthersSame(id) == \A j \in Ids \ {id} : Object(j)' = Object(j)

LEMMA PlacedWell ==
  ASSUME View', NEW id \in Ids, Object(id)' # NoObj, OthersSame(id)
  PROVE  Contract!WellPlaced(id)
<1>1. /\ Object(id)'.lo % 8 = 0 /\ mem_start_brk <= Object(id)'.lo
      /\ Object(id)'.lo + Object(id)'.n <= mem_max_addr
  BY DEF View
<1>2. \A j \in Ids \ {id} : Object(j) # NoObj =>
        Disjoint(Object(id)'.lo, Object(id)'.n, Object(j).lo, Object(j).n)
  BY DEF View, OthersSame, NoObj, Disjoint
<1> QED BY <1>1, <1>2, ObjectsLemma DEF Contract!WellPlaced, Contract!Apart, Disjoint, Objects

LEMMA KeepsOthers ==
  ASSUME NEW id \in Ids, OthersSame(id)
  PROVE  Contract!OthersKept(id)
BY ObjectsLemma DEF OthersSame, Contract!OthersKept, Objects

LEMMA IsAcquire ==
  ASSUME View', NEW id \in Ids, Object(id) = NoObj, Object(id)' # NoObj, OthersSame(id)
  PROVE  Contract!Next
<1>1. Contract!Acquire(id)
  BY PlacedWell, KeepsOthers, ObjectsLemma DEF Contract!Acquire, Objects, NoObj
<1> QED BY <1>1 DEF Contract!Next

LEMMA IsResize ==
  ASSUME View', NEW id \in Ids, Object(id) # NoObj, Object(id)' # NoObj, OthersSame(id),
         \A k \in DOMAIN Object(id).data \intersect DOMAIN Object(id)'.data :
           Object(id)'.data[k] = Object(id).data[k]
  PROVE  Contract!Next
<1>1. Contract!Kept(Object(id), Object(id)')
  BY DEF Contract!Kept
<1>2. Contract!Resize(id)
  BY <1>1, PlacedWell, KeepsOthers, ObjectsLemma DEF Contract!Resize, Objects, NoObj
<1> QED BY <1>2 DEF Contract!Next

LEMMA IsRelease ==
  ASSUME NEW id \in Ids, Object(id) # NoObj, Object(id)' = NoObj, OthersSame(id)
  PROVE  Contract!Next
<1>1. Contract!Release(id)
  BY KeepsOthers, ObjectsLemma DEF Contract!Release, Objects, NoObj
<1> QED BY <1>1 DEF Contract!Next

LEMMA IsStore ==
  ASSUME NEW id \in Ids, Object(id) # NoObj, OthersSame(id),
         Object(id)'.lo = Object(id).lo, Object(id)'.n = Object(id).n
  PROVE  Contract!Next
<1>1. Contract!Store(id)
  BY KeepsOthers, ObjectsLemma DEF Contract!Store, Objects, NoObj
<1> QED BY <1>1 DEF Contract!Next

LEMMA IsReset ==
  ASSUME \A i \in Ids : Object(i)' = NoObj
  PROVE  Contract!Next
<1>1. Objects' = [i \in Ids |-> Contract!None]
  BY ObjectsLemma DEF Objects
<1>2. Contract!Reset
  BY <1>1 DEF Contract!Reset, Objects
<1> QED BY <1>2 DEF Contract!Next

(* An object looks the same as long as the driver has neither given it up  *)
(* nor written to it.                                                      *)
LEMMA SameObject ==
  ASSUME View, View', Usable, Usable', NEW j \in Ids, ~ Answered(j), ~ Answered(j)',
         j \in live' <=> j \in live,
         j \in live => blocks'[j] = blocks[j] /\ block_sizes'[j] = block_sizes[j]
  PROVE  Object(j)' = Object(j)
<1>1. (Holds(j) <=> j \in live) /\ (Holds(j)' <=> j \in live)
  BY DEF Holds
<1>2. CASE j \in live
  <2>1. Object(j) = Written(j) /\ Object(j)' = Written(j)'
    BY <1>1, <1>2 DEF View, NoObj
  <2>2. Written(j)' = Written(j)
    <3>1. PICK lo, n : lo = blocks[j] /\ n = block_sizes[j] /\ blocks'[j] = lo /\ block_sizes'[j] = n
      BY <1>2
    <3>2. Fill(j)' = Fill(j)
      BY DEF Fill, LowByte
    <3> QED BY <3>1, <3>2 DEF Written
  <2> QED BY <2>1, <2>2
<1>3. CASE j \notin live
  BY <1>1, <1>3 DEF View, NoObj
<1> QED BY <1>2, <1>3

LEMMA QuietObjects ==
  ASSUME View, View', Usable, Usable', \A j \in Ids : ~ Answered(j) /\ ~ Answered(j)',
         UNCHANGED <<live, blocks, block_sizes>>
  PROVE  UNCHANGED Objects
<1>1. \A j \in Ids : Object(j)' = Object(j)
  BY SameObject
<1> QED BY <1>1 DEF Objects

(* The call of id is answered, nothing else changes.                       *)
LEMMA AnswerOthers ==
  ASSUME View, View', Usable, Usable', NEW id \in Ids, call.st = "called",
         call'.id = id, UnchangedDriver
  PROVE  OthersSame(id)
<1>1. \A j \in Ids \ {id} : ~ Answered(j) /\ ~ Answered(j)'
  BY DEF Answered
<1>2. UNCHANGED <<live, blocks, block_sizes>>
  BY DEF UnchangedDriver
<1> QED BY <1>1, <1>2, SameObject DEF OthersSame

(* The package answers.                                                    *)
LEMMA MallocAnswered ==
  ASSUME CInv, View, View', Usable, Usable', call.st = "called", call.fn = "mm_malloc",
         NEW v \in Int, v # NULL, Return(v), UnchangedDriver
  PROVE  Contract!Next
<1>1. TypeOK /\ Called("mm_malloc")
  BY DEF CInv, IInv, Called
<1>2. PICK id \in Ids : id = call.id /\ id \notin live
  BY <1>1, UsableLemma DEF CInv, RequestInv
<1>3. call'.id = id /\ call'.fn = "mm_malloc" /\ call'.st = "returned" /\ call'.ret = v
  BY <1>1, <1>2, ReturnLemma
<1>4. ~ Holds(id) /\ Holds(id)'
  BY <1>2, <1>3 DEF Holds, Answered, NULL
<1>5. Object(id) = NoObj /\ Object(id)' # NoObj
  BY <1>4 DEF View, NoObj
<1> QED BY <1>3, <1>5, AnswerOthers, IsAcquire

LEMMA ReallocAnswered ==
  ASSUME CInv, View, View', Usable, Usable', call.st = "called", call.fn = "mm_realloc",
         NEW v \in Int, Return(v), UnchangedDriver
  PROVE  Contract!Next
<1>1. TypeOK /\ Called("mm_realloc")
  BY DEF CInv, IInv, Called
<1>2. PICK id \in Ids : id = call.id /\ id \in live
  BY <1>1, ReallocPtrLemma DEF CInv
<1>3. call'.id = id /\ call'.fn = "mm_realloc" /\ call'.st = "returned" /\ call'.ret = v
  BY <1>1, <1>2, ReturnLemma
<1>4. Holds(id) /\ ~ Answered(id) /\ (Holds(id)' <=> v # NULL)
  BY <1>1, <1>2, <1>3 DEF Holds, Answered, Called, NULL
<1>5. Object(id) # NoObj /\ (Object(id)' # NoObj <=> v # NULL) /\ Object(id) = Written(id)
  BY <1>4 DEF View, NoObj
<1>6. OthersSame(id)
  BY <1>3, AnswerOthers
<1>7. CASE v = NULL
  BY <1>5, <1>6, <1>7, IsRelease
<1>8. CASE v # NULL
  <2>1. AnswerKept(id)'
    BY <1>3, <1>5, <1>8 DEF View, NoObj, Returned
  <2>2. PICK n : n = block_sizes[id] /\ block_sizes'[id] = n
    BY DEF UnchangedDriver
  <2>3. \A k \in 0 .. ((n - 1) \div 8) :
          k \in DOMAIN Object(id)'.data => Object(id)'.data[k] = Fill(id)
    BY <2>1, <2>2 DEF AnswerKept, Fill, LowByte
  <2>4. Object(id).data = [k \in 0 .. ((n - 1) \div 8) |-> Fill(id)]
    BY <1>5, <2>2 DEF Written
  <2>5. \A k \in DOMAIN Object(id).data \intersect DOMAIN Object(id)'.data :
          Object(id)'.data[k] = Object(id).data[k]
    BY <2>3, <2>4
  <2> QED BY <1>5, <1>6, <1>8, <2>5, IsResize
<1> QED BY <1>7, <1>8

(* Nothing is live around mm_init.                                         *)
LEMMA EmptyStep ==
  ASSUME View', ~ Usable' \/ (live' = {} /\ \A i \in Ids : ~ Answered(i)')
  PROVE  Contract!Next
<1>1. \A i \in Ids : ~ (Usable' /\ Holds(i)')
  BY DEF Holds
<1>2. \A i \in Ids : Object(i)' = NoObj
  BY <1>1 DEF View, NoObj
<1> QED BY <1>2, IsReset

LEMMA PackageRefines ==
  ASSUME CInv, View, View', CInv', PackageStep
  PROVE  Contract!Next \/ UNCHANGED Objects
<1>0. TypeOK
  BY DEF CInv, IInv
<1>1. CASE mm_init
  <2>1. live = {} /\ UnchangedDriver /\ call.fn = "mm_init" /\ \E v \in Int : Return(v)
    BY <1>1 DEF mm_init, CInv, StartInv, Called
  <2>2. call'.fn = "mm_init"
    BY <1>0, <2>1, ReturnLemma
  <2>3. live' = {} /\ \A i \in Ids : ~ Answered(i)'
    BY <2>1, <2>2 DEF UnchangedDriver, Answered
  <2> QED BY <2>3, EmptyStep
<1>2. CASE mm_malloc \/ FitEnd \/ FitSkip \/ FitTake \/ FitCoalesce \/ FitNext \/ Extend
           \/ ExtendFails \/ mm_realloc \/ ReallocCoalesce \/ ReallocMoves
  <2>1. driverVars' = driverVars /\ call.st = "called"
    BY <1>2 DEF CInv, IInv, TraceInv, mm_malloc, FitEnd, FitSkip, FitTake, FitCoalesce, FitNext,
       Extend, ExtendFails, mm_realloc, ReallocCoalesce, ReallocMoves, Called
  <2>2. Usable /\ Usable'
    <3>1. call.fn # "mm_init" /\ verdict = "running"
      BY <1>2, UsableLemma DEF CInv, IInv, TraceInv, mm_malloc, FitEnd, FitSkip, FitTake, FitCoalesce,
         FitNext, Extend, ExtendFails, mm_realloc, ReallocCoalesce, ReallocMoves, Called
    <3> QED BY <2>1, <3>1 DEF Usable, Called, Returned, driverVars
  <2> QED BY <2>1, <2>2, QuietObjects DEF driverVars, Answered
<1>3. CASE mm_free
  <2>1. call.fn = "mm_free" /\ call.st = "called" /\ UnchangedDriver /\ Return(0) /\ Usable
    BY <1>3, UsableLemma DEF mm_free, Called, CInv
  <2>2. call'.fn = "mm_free"
    BY <1>0, <2>1, ReturnLemma
  <2>3. Usable'
    BY <2>1, <2>2 DEF Usable, Called, Returned, UnchangedDriver
  <2> QED BY <2>1, <2>2, <2>3, QuietObjects DEF Answered, UnchangedDriver
<1>4. CASE Place
  <2>1. /\ call.st = "called" /\ call.fn \in {"mm_malloc", "mm_realloc"} /\ UnchangedDriver
        /\ Usable /\ cur \in blks /\ Tiled /\ (call' = call \/ Return(cur))
        /\ (call.fn = "mm_malloc" => Return(cur))
    BY <1>4, UsableLemma DEF CInv, IInv, TraceInv, Place, LocalInv
  <2>2. cur \in Int /\ cur # NULL
    BY <1>0, <2>1, BlockLemma, MemAssumption DEF heap, MemAssumption, DSIZE, NULL
  <2>3. call'.fn = call.fn
    BY <1>0, <2>1, <2>2, ReturnLemma
  <2>4. Usable'
    BY <2>1, <2>3 DEF Usable, Called, Returned, UnchangedDriver
  <2>5. CASE call.fn = "mm_malloc"
    BY <2>1, <2>2, <2>4, <2>5, MallocAnswered
  <2>6. CASE call.fn # "mm_malloc"
    <3>1. call' = call
      BY <1>4, <2>6 DEF Place
    <3> QED BY <2>1, <2>4, <3>1, QuietObjects DEF Answered, UnchangedDriver
  <2> QED BY <2>5, <2>6
<1>5. CASE ReallocToZero \/ ReallocInPlace \/ ReallocCopy
  <2>1. PICK v : Return(v) /\ v \in {NULL, call.ptr, cur}
    BY <1>5 DEF ReallocToZero, ReallocInPlace, ReallocCopy
  <2>2. /\ call.fn = "mm_realloc" /\ call.st = "called" /\ UnchangedDriver /\ Usable
    BY <1>5, UsableLemma DEF CInv, IInv, TraceInv, LocalInv, ReallocToZero, ReallocInPlace, ReallocCopy,
       Called
  <2>3. v \in Int
    BY <1>0, <2>1 DEF TypeOK, DriverTypeOK, NULL
  <2>4. Usable'
    BY <1>0, <2>1, <2>2, <2>3, ReturnLemma DEF Usable, Called, Returned, UnchangedDriver
  <2> QED BY <2>1, <2>2, <2>3, <2>4, ReallocAnswered
<1> QED BY <1>1, <1>2, <1>3, <1>4, <1>5 DEF PackageStep

(* The driver gives an object up before it calls mm_free.                  *)
LEMMA FreeRefines ==
  ASSUME CInv, View, View', NEW i \in Ids, ReqFree(i)
  PROVE  Contract!Next
<1>1. /\ UNCHANGED <<blocks, block_sizes, verdict>> /\ Usable /\ i \in live
      /\ call.st = "none" /\ call'.fn = "mm_free" /\ call'.st = "called" /\ live' = live \ {i}
  BY UsableLemma DEF ReqFree, ReadyForOp, Post, CInv
<1>2. Usable' /\ \A j \in Ids : ~ Answered(j) /\ ~ Answered(j)'
  BY <1>1 DEF Usable, Called, Returned, Answered
<1>3. OthersSame(i)
  BY <1>1, <1>2, SameObject DEF OthersSame
<1>4. Holds(i) /\ ~ Holds(i)'
  BY <1>1, <1>2 DEF Holds
<1>5. Object(i) # NoObj /\ Object(i)' = NoObj
  BY <1>1, <1>4 DEF View, NoObj
<1> QED BY <1>3, <1>5, IsRelease

(* The driver writes to the object it was given.                           *)
LEMMA AcceptRefines ==
  ASSUME CInv, View, View', NEW R, Accept(R), call' = NoCall, call.ret # NULL,
         Returned("mm_malloc") \/ Returned("mm_realloc")
  PROVE  Contract!Next
<1>1. TypeOK /\ Usable /\ RequestInv
  BY UsableLemma DEF CInv, IInv
<1>2. PICK id \in Ids : id = call.id
  BY <1>1 DEF RequestInv, TypeOK, DriverTypeOK
<1>3. /\ live' = live \union {id} /\ verdict' = verdict
      /\ blocks' = [blocks EXCEPT ![id] = call.ret]
      /\ block_sizes' = [block_sizes EXCEPT ![id] = call.size]
  BY <1>2 DEF Accept
<1>4. Usable' /\ \A j \in Ids : ~ Answered(j)'
  BY <1>1, <1>3 DEF Usable, NoCall, Called, Returned, Answered
<1>5. \A j \in Ids \ {id} : ~ Answered(j)
  BY <1>2 DEF Answered
<1>6. \A j \in Ids \ {id} : blocks'[j] = blocks[j] /\ block_sizes'[j] = block_sizes[j]
  BY <1>1, <1>3 DEF TypeOK, DriverTypeOK
<1>7. OthersSame(id)
  BY <1>1, <1>3, <1>4, <1>5, <1>6, SameObject DEF OthersSame
<1>8. blocks'[id] = call.ret /\ block_sizes'[id] = call.size
  BY <1>1, <1>3 DEF TypeOK, DriverTypeOK
<1>9. /\ Holds(id) /\ Addr(id) = call.ret /\ Bytes(id) = call.size
      /\ Holds(id)' /\ Addr(id)' = call.ret /\ Bytes(id)' = call.size
  BY <1>2, <1>3, <1>4, <1>8 DEF Holds, Addr, Bytes, Answered, Returned
<1>10. Object(id) # NoObj /\ Object(id)' # NoObj
  BY <1>1, <1>4, <1>9 DEF View, NoObj
<1>11. Object(id)'.lo = Object(id).lo /\ Object(id)'.n = Object(id).n
  BY <1>9, <1>10 DEF View, NoObj
<1> QED BY <1>7, <1>10, <1>11, IsStore

LEMMA DriverRefines ==
  ASSUME CInv, View, View', DriverStep \/ DriverRequest
  PROVE  Contract!Next \/ UNCHANGED Objects
<1>1. CASE NextTrace
  <2>1. ~ Usable'
    BY <1>1 DEF NextTrace, Post, Usable, Called
  <2> QED BY <2>1, EmptyStep
<1>2. CASE RetInit
  <2>1. live' = {} /\ call' = NoCall
    BY <1>2 DEF RetInit, CInv, StartInv
  <2> QED BY <2>1, EmptyStep DEF Answered, NoCall
<1>3. CASE RetMalloc
  BY <1>3, MallocAccepted, AcceptRefines DEF RetMalloc
<1>4. CASE RetRealloc
  <2>1. CASE Reject
    BY <2>1, EmptyStep DEF Reject, Usable
  <2>2. CASE ~ Reject
    BY <1>4, <2>2, ReallocAccepted, AcceptRefines DEF RetRealloc
  <2> QED BY <2>1, <2>2
<1>5. CASE RetFree \/ (\E i \in Ids : \/ \E n \in Sizes : ReqMalloc(i, n)
                                      \/ \E n \in ReallocSizes : ReqRealloc(i, n))
  <2>1. /\ UNCHANGED <<live, blocks, block_sizes, verdict>> /\ Usable
        /\ \/ Returned("mm_free") /\ call' = NoCall
           \/ call.st = "none" /\ call'.st = "called" /\ call'.fn \in {"mm_malloc", "mm_realloc"}
    BY <1>5, UsableLemma DEF RetFree, ReqMalloc, ReqRealloc, ReadyForOp, Post, CInv
  <2>2. Usable' /\ \A j \in Ids : ~ Answered(j) /\ ~ Answered(j)'
    BY <2>1 DEF Usable, Called, Returned, Answered, NoCall
  <2> QED BY <2>1, <2>2, QuietObjects
<1>6. CASE \E i \in Ids : ReqFree(i)
  BY <1>6, FreeRefines
<1> QED BY <1>1, <1>2, <1>3, <1>4, <1>5, <1>6 DEF DriverStep, DriverRequest

(* The package keeps the contract of Allocator: seen through the payloads  *)
(* it has handed out, every step of mm.c is a malloc, a realloc or a free  *)
(* that is well placed and keeps all data, or changes nothing.             *)
THEOREM KeepsContract == Spec => ImplementsContract
<1>1. Init => Contract!Init
  <2>1. SUFFICES ASSUME Init PROVE Contract!Init
    OBVIOUS
  <2>2. CInv /\ ~ Usable
    BY <2>1, InitCInv DEF Init, DriverInit, Usable, Called
  <2>3. \A i \in Ids : Object(i) = NoObj
    BY <2>2, NoObject
  <2> QED BY <2>3 DEF Contract!Init, NoObj, Contract!None
<1>2. CInv /\ CInv' /\ [Next]_vars => [Contract!Next]_([i \in Ids |-> Object(i)])
  <2>1. SUFFICES ASSUME CInv, CInv', [Next]_vars
                 PROVE  Contract!Next \/ UNCHANGED Objects
    BY DEF Objects
  <2>2. View /\ View'
    BY <2>1, ViewInv, ViewPrime
  <2>3. CASE Next
    BY <2>1, <2>2, <2>3, PackageRefines, DriverRefines DEF Next
  <2>4. CASE UNCHANGED vars
    BY <2>4 DEF vars, memVars, driverVars, Objects, Object, Holds, Addr, Bytes, Answered, Called
  <2> QED BY <2>1, <2>3, <2>4
<1> QED BY <1>1, <1>2, CInvariance, PTL DEF Spec, ImplementsContract, Contract!Spec
=============================================================================
