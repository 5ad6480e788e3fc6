-------------------------- MODULE MMImplicit_proofs -------------------------
(***************************************************************************)
(* Proofs about MMImplicit, for every region, every set of identifiers and *)
(* every sizes of requests.                                                *)
(***************************************************************************)
EXTENDS MMImplicit, TLAPS

(***************************************************************************)
(* Header words and alignment.                                             *)
(***************************************************************************)
(* PACK, GET_SIZE and GET_ALLOC: a size that is a multiple of 8 and the    *)
(* allocated bit are read back as they were written.                       *)
LEMMA PackLemma ==
  ASSUME NEW s \in Nat, s % 8 = 0, NEW a \in {0, 1}
  PROVE  /\ PACK(s, a) \in Nat
         /\ GET_SIZE(PACK(s, a)) = s
         /\ GET_ALLOC(PACK(s, a)) = a
  BY DEF PACK, GET_SIZE, GET_ALLOC

(* GET_SIZE and GET_ALLOC of any double word.                              *)
LEMMA WordLemma ==
  ASSUME NEW w \in Nat
  PROVE  /\ GET_SIZE(w) \in Nat /\ GET_SIZE(w) % 8 = 0
         /\ GET_ALLOC(w) \in {0, 1}
  BY DEF GET_SIZE, GET_ALLOC

(* ALIGN rounds up to a multiple of 8.                                     *)
LEMMA AlignLemma ==
  ASSUME NEW n \in Nat
  PROVE  /\ ALIGN(n) \in Nat /\ ALIGN(n) % 8 = 0
         /\ n <= ALIGN(n) /\ ALIGN(n) < n + 8
  BY DEF ALIGN, ALIGNMENT

(* A size that is a multiple of 8 stays as it is.                          *)
LEMMA AlignedLemma ==
  ASSUME NEW n \in Nat, n % 8 = 0
  PROVE  ALIGN(n) = n
<1>1. (n + 7) \div 8 = n \div 8 /\ (n \div 8) * 8 = n
  BY Z3
<1> QED BY <1>1 DEF ALIGN, ALIGNMENT

(* A request that mem_sbrk grants is one that fits an int: the heap grows  *)
(* by what mm.c asked for.                                                 *)
LEMMA SbrkLemma ==
  ASSUME NEW n \in Nat, n < INT_MOD, mem_brk \in Nat, ~ SbrkFails(n)
  PROVE  ToInt(n) = n /\ mem_brk + n <= mem_max_addr
<1> USE MemAssumption DEF MemAssumption
<1>1. INT_MOD \in Nat /\ INT_MOD > 0 /\ INT_MOD \div 2 \in Nat
  OBVIOUS
<1>2. n % INT_MOD = n
  BY <1>1, Z3
<1>3. ToInt(n) = n \/ ToInt(n) = n - INT_MOD
  BY <1>2, Zenon DEF ToInt
<1>4. ToInt(n) = n
  BY <1>1, <1>3 DEF SbrkFails
<1> QED BY <1>4 DEF SbrkFails, mem_max_addr

(***************************************************************************)
(* Headers in a tiled heap.                                                *)
(***************************************************************************)
(* The header of a block is a double word of the region, its size a        *)
(* multiple of 8 that leads no further than heap_end.                      *)
LEMMA BlockLemma ==
  ASSUME TypeOK, Tiled, NEW b \in blks
  PROVE  /\ b \in Nat /\ b % 8 = 0 /\ heap <= b /\ b <= mem_brk
         /\ HDRP(b) \in Words /\ mem[HDRP(b)] \in Nat
         /\ SizeOf(b) \in Nat /\ SizeOf(b) % 8 = 0 /\ SizeOf(b) >= 8
         /\ NEXT(b) \in Nat /\ NEXT(b) % 8 = 0
         /\ b < NEXT(b) /\ NEXT(b) <= heap_end
<1> USE MemAssumption DEF MemAssumption, DSIZE
<1>1. /\ b \in Nat /\ b % 8 = 0 /\ heap <= b /\ NEXT(b) <= heap_end
      /\ heap_end = mem_brk + 8 /\ SizeOf(b) >= 8 /\ b < heap_end
  BY DEF TypeOK, Tiled
<1>2. /\ mem_brk \in Nat /\ mem_brk <= mem_start_brk + MAX_HEAP
      /\ mem_brk % 8 = 0
  BY DEF TypeOK, mem_max_addr
<1>3. b >= mem_start_brk + 8 /\ b <= mem_brk
  BY <1>1, <1>2 DEF heap
<1>4. b - 8 \in mem_start_brk .. (mem_max_addr - 1) /\ (b - 8) % 8 = 0
  BY <1>1, <1>2, <1>3 DEF mem_max_addr
<1>5. HDRP(b) \in Words
  BY <1>4 DEF HDRP, Words
<1>6. mem[HDRP(b)] \in Nat
  BY <1>5 DEF TypeOK
<1>7. SizeOf(b) \in Nat /\ SizeOf(b) % 8 = 0
  BY <1>6, WordLemma DEF SizeOf
<1> QED BY <1>1, <1>2, <1>3, <1>5, <1>6, <1>7 DEF NEXT

(* Writes that leave every block its size leave the tiling.                *)
LEMMA FrameLemma ==
  ASSUME Tiled, UNCHANGED <<mem_brk, heap_end, blks>>,
         \A b \in blks : SizeOf(b)' = SizeOf(b)
  PROVE  Tiled'
  BY DEF Tiled, NEXT

(* What cut_block writes: the header of bp with size n, that of the rest,  *)
(* and no other header.                                                    *)
LEMMA CutMemLemma ==
  ASSUME TypeOK, Tiled, NEW bp \in blks,
         NEW n \in Nat, n % 8 = 0, n >= 8, SizeOf(bp) >= n
  PROVE  /\ CutMem(bp, n) \in [Words -> Nat]
         /\ GET_SIZE(CutMem(bp, n)[HDRP(bp)]) = n
         /\ GET_ALLOC(CutMem(bp, n)[HDRP(bp)]) = GET_ALLOC(mem[HDRP(bp)])
         /\ \A b \in blks \ {bp} :
              HDRP(b) # HDRP(bp) /\ CutMem(bp, n)[HDRP(b)] = mem[HDRP(b)]
         /\ Cuts(bp, n) => /\ HDRP(bp) + n # HDRP(bp)
                           /\ GET_SIZE(CutMem(bp, n)[HDRP(bp) + n]) = SizeOf(bp) - n
<1> DEFINE w == HDRP(bp) + n
<1>1. /\ bp \in Nat /\ bp % 8 = 0 /\ HDRP(bp) \in Words /\ mem[HDRP(bp)] \in Nat
      /\ SizeOf(bp) \in Nat /\ SizeOf(bp) % 8 = 0
  BY BlockLemma
<1>2. GET_ALLOC(mem[HDRP(bp)]) \in {0, 1}
  BY <1>1, WordLemma
<1>3. \A b \in blks \ {bp} :
        /\ HDRP(b) \in Words
        /\ b \in Nat /\ (b < bp \/ NEXT(bp) <= b)
  BY <1>1, BlockLemma DEF Tiled
<1>4. mem \in [Words -> Nat]
  BY DEF TypeOK
<1>5. CASE Cuts(bp, n)
  <2>1. SizeOf(bp) >= n + 8
    BY <1>1, <1>5 DEF Cuts, DSIZE
  <2>2. w \in Words /\ w # HDRP(bp)
    <3>1. NEXT(bp) <= heap_end /\ heap_end = mem_brk + 8
      BY BlockLemma DEF Tiled, DSIZE
    <3>2. /\ mem_brk \in Nat /\ mem_brk <= mem_max_addr /\ mem_start_brk \in Nat
          /\ mem_max_addr \in Nat
      BY MemAssumption DEF MemAssumption, TypeOK, mem_max_addr
    <3>3. bp + n + 8 <= mem_brk + 8 /\ bp - 8 >= mem_start_brk
      BY <1>1, <2>1, <3>1, <3>2, BlockLemma DEF NEXT, heap, DSIZE
    <3> QED BY <1>1, <3>2, <3>3 DEF Words, HDRP, DSIZE
  <2>3. \A b \in blks \ {bp} : HDRP(b) # HDRP(bp) /\ HDRP(b) # w
    BY <1>1, <1>3, <2>1 DEF HDRP, DSIZE, NEXT
  <2>4. /\ PACK(n, GET_ALLOC(mem[HDRP(bp)])) \in Nat
        /\ GET_SIZE(PACK(n, GET_ALLOC(mem[HDRP(bp)]))) = n
        /\ GET_ALLOC(PACK(n, GET_ALLOC(mem[HDRP(bp)]))) = GET_ALLOC(mem[HDRP(bp)])
    BY <1>2, PackLemma
  <2>5. /\ PACK(SizeOf(bp) - n, 0) \in Nat
        /\ GET_SIZE(PACK(SizeOf(bp) - n, 0)) = SizeOf(bp) - n
    <3>1. SizeOf(bp) - n \in Nat /\ (SizeOf(bp) - n) % 8 = 0
      BY <1>1, <2>1
    <3> QED BY <3>1, PackLemma
  <2>6. CutMem(bp, n) = [mem EXCEPT ![HDRP(bp)] = PACK(n, GET_ALLOC(mem[HDRP(bp)])),
                                    ![w] = PACK(SizeOf(bp) - n, 0)]
    BY <1>5 DEF CutMem
  <2> QED BY <1>1, <1>3, <1>4, <2>2, <2>3, <2>4, <2>5, <2>6
<1>6. CASE ~ Cuts(bp, n)
  <2>1. SizeOf(bp) = n
    BY <1>1, <1>6 DEF Cuts, DSIZE
  <2>2. CutMem(bp, n) = mem
    BY <1>6 DEF CutMem
  <2>3. \A b \in blks \ {bp} : HDRP(b) # HDRP(bp)
    BY <1>1, <1>3 DEF HDRP, DSIZE
  <2> QED BY <1>4, <1>6, <2>1, <2>2, <2>3 DEF SizeOf
<1> QED BY <1>5, <1>6

(* cut_block keeps the tiling: the rest of the block is a block.           *)
LEMMA CutTiledLemma ==
  ASSUME TypeOK, Tiled, NEW bp \in blks,
         NEW n \in Nat, n % 8 = 0, n >= 8, SizeOf(bp) >= n,
         UNCHANGED <<mem_brk, heap_end>>, blks' = CutBlks(bp, n),
         GET_SIZE(mem'[HDRP(bp)]) = n,
         \A b \in blks \ {bp} : mem'[HDRP(b)] = mem[HDRP(b)],
         Cuts(bp, n) => GET_SIZE(mem'[HDRP(bp) + n]) = SizeOf(bp) - n
  PROVE  Tiled'
<1> DEFINE nb == bp + n
<1>1. /\ bp \in Nat /\ bp % 8 = 0 /\ SizeOf(bp) \in Nat /\ SizeOf(bp) % 8 = 0
      /\ heap <= bp /\ NEXT(bp) <= heap_end /\ heap_end \in Nat /\ heap \in Nat
  BY BlockLemma, MemAssumption DEF MemAssumption, TypeOK, heap, DSIZE
<1>2. \A b \in blks \ {bp} : SizeOf(b)' = SizeOf(b) /\ NEXT(b)' = NEXT(b)
  BY DEF SizeOf, NEXT
<1>3. SizeOf(bp)' = n /\ NEXT(bp)' = nb
  BY DEF SizeOf, NEXT
<1>4. \A b \in blks : /\ b \in Nat /\ SizeOf(b) \in Nat /\ NEXT(b) \in Nat
                      /\ b < NEXT(b) /\ NEXT(b) = b + SizeOf(b)
  BY BlockLemma DEF NEXT
<1>5. CASE Cuts(bp, n)
  <2>1. SizeOf(bp) >= n + 8 /\ blks' = blks \union {nb}
    BY <1>1, <1>5 DEF Cuts, DSIZE, CutBlks
  <2>2. SizeOf(nb)' = SizeOf(bp) - n /\ NEXT(nb)' = NEXT(bp)
    <3>1. HDRP(nb) = HDRP(bp) + n
      BY <1>1 DEF HDRP, DSIZE
    <3>2. SizeOf(nb)' = SizeOf(bp) - n
      BY <1>5, <3>1 DEF SizeOf
    <3> QED BY <1>1, <3>2 DEF NEXT
  <2>3. /\ nb \in Nat /\ nb % 8 = 0 /\ heap <= nb /\ nb < heap_end
        /\ bp < nb /\ nb < NEXT(bp)
    <3>1. nb \in Nat /\ nb % 8 = 0
      BY <1>1
    <3>2. NEXT(bp) = bp + SizeOf(bp)
      BY DEF NEXT
    <3> QED BY <1>1, <2>1, <3>1, <3>2
  <2>4. ASSUME NEW b \in blks'
        PROVE  /\ b % 8 = 0 /\ heap <= b /\ b < heap_end'
               /\ SizeOf(b)' >= DSIZE
               /\ NEXT(b)' <= heap_end'
               /\ NEXT(b)' \in blks' \union {heap_end'}
               /\ \A c \in blks' : b < c => NEXT(b)' <= c
    <3>1. CASE b = nb
      BY <1>1, <1>4, <2>1, <2>2, <2>3, <3>1 DEF Tiled, DSIZE
    <3>2. CASE b = bp
      BY <1>1, <1>3, <1>4, <2>1, <2>3, <3>2 DEF Tiled, DSIZE
    <3>3. CASE b \in blks \ {bp}
      <4>1. SizeOf(b)' = SizeOf(b) /\ NEXT(b)' = NEXT(b)
        BY <1>2, <3>3
      <4>2. b < nb => NEXT(b) <= nb
        BY <1>1, <1>4, <2>3, <3>3 DEF Tiled
      <4> QED BY <1>4, <2>1, <3>3, <4>1, <4>2 DEF Tiled
    <3> QED BY <2>1, <3>1, <3>2, <3>3
  <2> QED BY <2>1, <2>4 DEF Tiled
<1>6. CASE ~ Cuts(bp, n)
  <2>1. SizeOf(bp) = n /\ blks' = blks
    BY <1>1, <1>6 DEF Cuts, DSIZE, CutBlks
  <2> QED BY <1>2, <1>3, <2>1, FrameLemma
<1> QED BY <1>5, <1>6

(* coalesce_block keeps the tiling and the allocation bit of the block it  *)
(* enlarges; the block it absorbs is free.                                 *)
LEMMA CoalesceLemma ==
  ASSUME TypeOK, Tiled, NEW bp \in blks, coalesce_block(bp),
         UNCHANGED <<mem_brk, heap_end>>
  PROVE  /\ Tiled' /\ mem' \in [Words -> Nat]
         /\ NEXT(bp) \in blks /\ NEXT(bp) # bp /\ ~ IsAlloc(NEXT(bp))
         /\ blks' = blks \ {NEXT(bp)}
         /\ SizeOf(bp)' >= SizeOf(bp) /\ IsAlloc(bp)' = IsAlloc(bp)
         /\ \A b \in blks \ {bp} : mem'[HDRP(b)] = mem[HDRP(b)]
<1> DEFINE np == NEXT(bp)
           h  == PACK(SizeOf(bp) + SizeOf(np), GET_ALLOC(mem[HDRP(bp)]))
<1>1. /\ mem' = [mem EXCEPT ![HDRP(bp)] = h] /\ blks' = blks \ {np}
      /\ np < heap_end /\ ~ IsAlloc(np)
  BY DEF coalesce_block, CanCoalesce, WRITE
<1>2. /\ bp \in Nat /\ HDRP(bp) \in Words /\ mem[HDRP(bp)] \in Nat
      /\ SizeOf(bp) \in Nat /\ SizeOf(bp) % 8 = 0 /\ np = bp + SizeOf(bp) /\ bp < np
  BY BlockLemma DEF NEXT
<1>3. np \in blks /\ heap_end \in Nat
  BY <1>1, BlockLemma DEF Tiled, TypeOK
<1>4. /\ np \in Nat /\ SizeOf(np) \in Nat /\ SizeOf(np) % 8 = 0 /\ NEXT(np) = np + SizeOf(np)
      /\ np < NEXT(np) /\ NEXT(np) <= heap_end
  BY <1>3, BlockLemma DEF NEXT
<1>5. \A b \in blks : /\ b \in Nat /\ b < NEXT(b) /\ NEXT(b) \in Nat /\ SizeOf(b) \in Nat
                      /\ HDRP(b) \in Words /\ HDRP(b) = b - 8
  BY BlockLemma DEF HDRP, DSIZE
<1>6. h \in Nat /\ GET_SIZE(h) = SizeOf(bp) + SizeOf(np)
      /\ GET_ALLOC(h) = GET_ALLOC(mem[HDRP(bp)])
  <2>1. SizeOf(bp) + SizeOf(np) \in Nat /\ (SizeOf(bp) + SizeOf(np)) % 8 = 0
    BY <1>2, <1>4
  <2>2. GET_ALLOC(mem[HDRP(bp)]) \in {0, 1}
    BY <1>2, WordLemma
  <2> QED BY <2>1, <2>2, PackLemma
<1>7. mem' \in [Words -> Nat] /\ mem'[HDRP(bp)] = h
  BY <1>1, <1>2, <1>6 DEF TypeOK
<1>8. \A b \in blks \ {bp} : mem'[HDRP(b)] = mem[HDRP(b)]
  BY <1>1, <1>5 DEF TypeOK
<1>9. SizeOf(bp)' = SizeOf(bp) + SizeOf(np) /\ NEXT(bp)' = NEXT(np)
  <2>1. SizeOf(bp)' = SizeOf(bp) + SizeOf(np)
    BY <1>6, <1>7 DEF SizeOf
  <2> QED BY <1>2, <1>4, <2>1 DEF NEXT
<1>10. IsAlloc(bp)' = IsAlloc(bp)
  BY <1>6, <1>7 DEF IsAlloc
<1>11. \A b \in blks \ {bp} : SizeOf(b)' = SizeOf(b) /\ NEXT(b)' = NEXT(b)
  BY <1>8 DEF SizeOf, NEXT
<1>12. ASSUME NEW b \in blks'
       PROVE  /\ b % 8 = 0 /\ heap <= b /\ b < heap_end'
              /\ SizeOf(b)' >= DSIZE
              /\ NEXT(b)' <= heap_end'
              /\ NEXT(b)' \in blks' \union {heap_end'}
              /\ \A c \in blks' : b < c => NEXT(b)' <= c
  <2>1. CASE b = bp
    BY <1>1, <1>2, <1>3, <1>4, <1>5, <1>9, <2>1 DEF Tiled, DSIZE
  <2>2. CASE b # bp
    <3>1. SizeOf(b)' = SizeOf(b) /\ NEXT(b)' = NEXT(b) /\ b \in blks
      BY <1>1, <1>11, <2>2
    <3>2. NEXT(b) # np
      <4>1. b < bp \/ bp < b
        BY <1>2, <1>5, <2>2, <3>1
      <4> QED BY <1>1, <1>2, <1>3, <1>5, <3>1, <4>1 DEF Tiled
    <3> QED BY <1>1, <3>1, <3>2 DEF Tiled
  <2> QED BY <2>1, <2>2
<1>13. heap \in blks'
  BY <1>1, <1>2, BlockLemma, MemAssumption DEF Tiled, heap, MemAssumption, DSIZE
<1>14. Tiled'
  BY <1>12, <1>13 DEF Tiled
<1> QED BY <1>1, <1>2, <1>3, <1>4, <1>7, <1>8, <1>9, <1>10, <1>14

(* extend_heap keeps the tiling: the old end of the heap becomes a block.  *)
LEMMA ExtendLemma ==
  ASSUME TypeOK, Tiled, NEW n \in Nat, n % 8 = 0, n >= 8, n < INT_MOD,
         mem_sbrk(n), mem' = WRITE(mem, mem_brk, PACK(n, 0)),
         NEW nb, nb = mem_brk + DSIZE,
         heap_end' = heap_end + n, blks' = blks \union {nb}
  PROVE  /\ Tiled' /\ mem' \in [Words -> Nat]
         /\ mem_brk' \in mem_start_brk .. mem_max_addr /\ mem_brk' % 8 = 0
         /\ nb \in Nat /\ nb \notin blks
         /\ SizeOf(nb)' = n /\ ~ IsAlloc(nb)'
         /\ \A b \in blks : mem'[HDRP(b)] = mem[HDRP(b)]
<1> USE DEF DSIZE
<1>1. /\ mem_brk \in Nat /\ mem_brk % 8 = 0 /\ mem_start_brk \in Nat /\ mem_start_brk <= mem_brk
      /\ mem_max_addr \in Nat /\ heap_end = nb /\ heap_end \in Nat
      /\ heap = mem_start_brk + 8
  BY MemAssumption DEF MemAssumption, TypeOK, mem_max_addr, Tiled, heap
<1>2. mem_brk' = mem_brk + n /\ mem_brk + n <= mem_max_addr
  BY <1>1, SbrkLemma DEF mem_sbrk
<1>3. mem_brk \in Words
  BY <1>1, <1>2 DEF Words
<1>4. PACK(n, 0) \in Nat /\ GET_SIZE(PACK(n, 0)) = n /\ GET_ALLOC(PACK(n, 0)) = 0
  BY PackLemma
<1>5. mem' \in [Words -> Nat] /\ mem'[mem_brk] = PACK(n, 0)
  BY <1>3, <1>4 DEF TypeOK, WRITE
<1>6. \A b \in blks : /\ b \in Nat /\ b < NEXT(b) /\ NEXT(b) <= heap_end
                      /\ HDRP(b) \in Words /\ HDRP(b) = b - 8 /\ b <= mem_brk
                      /\ NEXT(b) \in Nat
  BY BlockLemma DEF HDRP
<1>7. \A b \in blks : mem'[HDRP(b)] = mem[HDRP(b)]
  BY <1>1, <1>3, <1>6 DEF TypeOK, WRITE
<1>8. \A b \in blks : SizeOf(b)' = SizeOf(b) /\ NEXT(b)' = NEXT(b)
  BY <1>7 DEF SizeOf, NEXT
<1>9. HDRP(nb) = mem_brk
  BY <1>1 DEF HDRP
<1>10. SizeOf(nb)' = n /\ ~ IsAlloc(nb)'
  BY <1>4, <1>5, <1>9 DEF SizeOf, IsAlloc
<1>11. NEXT(nb)' = heap_end' /\ nb % 8 = 0 /\ heap <= nb /\ nb < heap_end'
  BY <1>1, <1>10 DEF NEXT
<1>12. ASSUME NEW b \in blks'
       PROVE  /\ b % 8 = 0 /\ heap <= b /\ b < heap_end'
              /\ SizeOf(b)' >= DSIZE
              /\ NEXT(b)' <= heap_end'
              /\ NEXT(b)' \in blks' \union {heap_end'}
              /\ \A c \in blks' : b < c => NEXT(b)' <= c
  <2>1. CASE b = nb
    BY <1>1, <1>6, <1>10, <1>11, <2>1
  <2>2. CASE b \in blks
    <3>1. /\ b % 8 = 0 /\ heap <= b /\ b < heap_end /\ SizeOf(b) >= DSIZE
          /\ NEXT(b) <= heap_end /\ NEXT(b) \in blks \union {heap_end}
          /\ \A c \in blks : b < c => NEXT(b) <= c
      BY <2>2 DEF Tiled
    <3>2. b \in Nat /\ NEXT(b) \in Nat
      BY <1>6, <2>2
    <3>3. SizeOf(b)' = SizeOf(b) /\ NEXT(b)' = NEXT(b)
      BY <1>8, <2>2
    <3> QED BY <1>1, <3>1, <3>2, <3>3
  <2> QED BY <2>1, <2>2
<1>13. Tiled'
  <2>1. heap_end' = mem_brk' + 8
    BY <1>1, <1>2
  <2> QED BY <1>12, <2>1 DEF Tiled
<1>14. mem_brk' \in mem_start_brk .. mem_max_addr /\ mem_brk' % 8 = 0
  BY <1>1, <1>2
<1>15. nb \in Nat /\ nb \notin blks
  BY <1>1, <1>6
<1> QED BY <1>5, <1>7, <1>10, <1>13, <1>14, <1>15

(***************************************************************************)
(* What the driver and the package know of each other.                     *)
(***************************************************************************)
(* Whenever a call other than mm_init is under way, or none is and the     *)
(* trace goes on, the heap is usable.                                      *)
LEMMA UsableLemma ==
  ASSUME IInv,
         \/ pc # "idle"
         \/ Called("mm_malloc") \/ Called("mm_realloc") \/ Called("mm_free")
         \/ Returned("mm_malloc") \/ Returned("mm_realloc") \/ Returned("mm_free")
         \/ ReadyForOp
  PROVE  Usable /\ Tiled /\ HeldInBlocks /\ RequestInv /\ LocalInv /\ verdict = "running"
<1>1. verdict = "running" /\ Usable
  BY DEF IInv, TypeOK, DriverTypeOK, TraceInv, Usable, Called, Returned, ReadyForOp
<1> QED BY <1>1 DEF IInv, HeapInv

(* A step that changes neither the driver's view nor a block held by an    *)
(* identifier, other than to let it grow, leaves HeldInBlocks.             *)
LEMMA HeldFrameLemma ==
  ASSUME HeldInBlocks, UNCHANGED <<live, blocks, block_sizes, call>>,
         block_sizes \in [Ids -> Nat], call.size \in Nat,
         \A i \in Ids : Holds(i) =>
           \A b : b = Addr(i) =>
             /\ b \in blks' /\ IsAlloc(b)'
             /\ SizeOf(b) \in Nat /\ SizeOf(b)' \in Nat /\ SizeOf(b)' >= SizeOf(b)
  PROVE  HeldInBlocks'
<1>1. \A i \in Ids : /\ Holds(i)' = Holds(i) /\ Addr(i)' = Addr(i)
                     /\ Bytes(i)' = Bytes(i) /\ Bytes(i) \in Nat
  BY DEF Holds, Addr, Bytes, Answered
<1>2. ASSUME NEW i \in Ids, Holds(i)'
      PROVE  /\ Addr(i)' \in blks' /\ IsAlloc(Addr(i))'
             /\ Bytes(i)' > 0 /\ Bytes(i)' + DSIZE <= SizeOf(Addr(i))'
             /\ \A j \in Ids : Holds(j)' /\ Addr(j)' = Addr(i)' => j = i
  <2>1. PICK b : b = Addr(i)
    OBVIOUS
  <2>2. /\ b \in blks' /\ IsAlloc(b)' /\ Bytes(i) > 0 /\ Bytes(i) + DSIZE <= SizeOf(b)
        /\ SizeOf(b) \in Nat /\ SizeOf(b)' \in Nat /\ SizeOf(b)' >= SizeOf(b)
    BY <1>1, <1>2, <2>1 DEF HeldInBlocks
  <2>3. SizeOf(Addr(i))' = SizeOf(b)' /\ IsAlloc(Addr(i))' = IsAlloc(b)'
    BY <1>1, <2>1 DEF SizeOf, IsAlloc
  <2>4. \A j \in Ids : Holds(j)' /\ Addr(j)' = Addr(i)' => j = i
    BY <1>1, <1>2 DEF HeldInBlocks
  <2> QED BY <1>1, <2>1, <2>2, <2>3, <2>4 DEF DSIZE
<1> QED BY <1>2 DEF HeldInBlocks

(***************************************************************************)
(* Steps of the package that change only its locals.                       *)
(***************************************************************************)
(* Such a step keeps the invariant if it keeps LocalInv.                   *)
LEMMA LocalStepLemma ==
  ASSUME IInv, UNCHANGED <<memVars, driverVars, heap_end, blks>>,
         pc' \in PCs, size' \in Nat, cur' \in Nat,
         call.st = "called", call.fn \in {"mm_malloc", "mm_realloc"},
         LocalInv'
  PROVE  IInv'
<1> USE DEF memVars, driverVars
<1>1. /\ TypeOK /\ TraceInv /\ PayloadsDisjoint /\ (Usable => HeapInv)
      /\ UNCHANGED <<mem, mem_brk, live, blocks, block_sizes, ranges, call, verdict>>
  BY DEF IInv
<1>2. TypeOK'
  BY <1>1 DEF TypeOK, DriverTypeOK, Calls
<1>3. TraceInv'
  BY <1>1 DEF TraceInv, Called
<1>4. PayloadsDisjoint'
  BY <1>1 DEF PayloadsDisjoint, Disjoint
<1>5. ASSUME Usable' PROVE HeapInv'
  <2>1. Usable
    BY <1>1, <1>5 DEF Usable, Called, Returned
  <2>2. \A b : SizeOf(b)' = SizeOf(b) /\ IsAlloc(b)' = IsAlloc(b)
    BY <1>1 DEF SizeOf, IsAlloc
  <2>3. Tiled'
    BY <1>1, <2>1, <2>2, FrameLemma DEF HeapInv
  <2>4. HeldInBlocks'
    <3>1. \A i \in Ids : Holds(i) => Addr(i) \in blks /\ SizeOf(Addr(i)) \in Nat
      BY <1>1, <2>1, BlockLemma DEF HeapInv, HeldInBlocks
    <3> QED BY <1>1, <2>1, <2>2, <3>1, HeldFrameLemma
            DEF HeapInv, HeldInBlocks, TypeOK, DriverTypeOK
  <2>5. RequestInv'
    <3>1. \A i \in Ids : Holds(i)' = Holds(i) /\ Addr(i)' = Addr(i)
      BY <1>1 DEF Holds, Addr, Answered
    <3> QED BY <1>1, <2>1, <3>1 DEF HeapInv, RequestInv, Called, Returned, Fresh
  <2> QED BY <2>3, <2>4, <2>5 DEF HeapInv
<1> QED BY <1>2, <1>3, <1>4, <1>5 DEF IInv

(* The cursor of first_fit is a block until it reaches heap_end.           *)
LEMMA CursorLemma ==
  ASSUME IInv, pc = "fit"
  PROVE  /\ Tiled /\ LocalInv /\ TypeOK
         /\ call.st = "called" /\ call.fn \in {"mm_malloc", "mm_realloc"}
         /\ cur < heap_end =>
              /\ cur \in blks /\ SizeOf(cur) \in Nat /\ SizeOf(cur) % 8 = 0
              /\ NEXT(cur) \in blks \union {heap_end} /\ NEXT(cur) \in Nat
<1>1. Tiled /\ LocalInv /\ TypeOK
  BY UsableLemma DEF IInv
<1>2. call.st = "called" /\ call.fn \in {"mm_malloc", "mm_realloc"}
  BY DEF IInv, TraceInv
<1>3. ASSUME cur < heap_end PROVE cur \in blks
  BY <1>1, <1>3 DEF LocalInv, TypeOK
<1> QED BY <1>1, <1>2, <1>3, BlockLemma DEF Tiled

(* The scan is over: nothing but pc changes.                             *)
LEMMA FitEndInv == ASSUME IInv, FitEnd PROVE IInv'
<1>1. LocalInv'
  BY CursorLemma DEF FitEnd, LocalInv, memVars, driverVars, SizeOf
<1> QED BY <1>1, CursorLemma, LocalStepLemma DEF FitEnd, TypeOK, PCs

(* The scan passes an allocated block.                                   *)
LEMMA FitSkipInv == ASSUME IInv, FitSkip PROVE IInv'
<1>1. LocalInv'
  BY CursorLemma DEF FitSkip, LocalInv, memVars, driverVars, SizeOf
<1> QED BY <1>1, CursorLemma, LocalStepLemma DEF FitSkip, TypeOK, PCs

(* The scan stops at a free block large enough.                          *)
LEMMA FitTakeInv == ASSUME IInv, FitTake PROVE IInv'
<1>1. LocalInv'
  BY CursorLemma DEF FitTake, Fits, LocalInv, memVars, driverVars, SizeOf, IsAlloc
<1> QED BY <1>1, CursorLemma, LocalStepLemma DEF FitTake, TypeOK, PCs

(* The scan passes a free block that nothing can enlarge.                *)
LEMMA FitNextInv == ASSUME IInv, FitNext PROVE IInv'
<1>1. LocalInv'
  BY CursorLemma DEF FitNext, LocalInv, memVars, driverVars, SizeOf
<1> QED BY <1>1, CursorLemma, LocalStepLemma DEF FitNext, TypeOK, PCs

(* mem_sbrk refuses: the process dies with the heap intact.              *)
LEMMA ExtendFailsInv == ASSUME IInv, ExtendFails PROVE IInv'
<1>1. LocalInv'
  BY DEF ExtendFails, LocalInv
<1> QED BY <1>1, LocalStepLemma DEF ExtendFails, TypeOK, PCs, IInv, TraceInv

(* The three entries that set size.                                        *)
LEMMA EntryLemma ==
  ASSUME IInv, Called("mm_malloc") \/ Called("mm_realloc")
  PROVE  /\ TypeOK /\ Tiled /\ RequestInv
         /\ heap \in blks /\ heap \in Nat
         /\ call.size \in Nat /\ call.size + DSIZE \in Nat
         /\ ALIGN(call.size + DSIZE) \in Nat
<1>1. TypeOK /\ Tiled /\ RequestInv
  BY UsableLemma DEF IInv
<1>2. heap \in blks /\ heap \in Nat
  BY <1>1, BlockLemma DEF Tiled
<1>3. call.size \in Nat
  BY <1>1, MemAssumption DEF TypeOK, DriverTypeOK, MemAssumption
<1> QED BY <1>1, <1>2, <1>3, AlignLemma DEF DSIZE

(* mm_malloc starts its scan at the first block.                         *)
LEMMA MallocInv == ASSUME IInv, mm_malloc PROVE IInv'
<1>1. Called("mm_malloc")
  BY DEF mm_malloc
<1>2. LocalInv'
  BY <1>1, EntryLemma DEF mm_malloc, LocalInv, RequestInv, Called, memVars, driverVars
<1> QED BY <1>1, <1>2, EntryLemma, LocalStepLemma DEF mm_malloc, TypeOK, PCs, Called

(* mm_realloc computes the size it needs.                                *)
LEMMA ReallocInv == ASSUME IInv, mm_realloc PROVE IInv'
<1>1. Called("mm_realloc")
  BY DEF mm_realloc
<1>2. LocalInv'
  BY <1>1, EntryLemma DEF mm_realloc, LocalInv, Called, memVars, driverVars
<1> QED BY <1>1, <1>2, EntryLemma, LocalStepLemma DEF mm_realloc, TypeOK, PCs, Called

(* mm_realloc calls mm_malloc for a block of the same size.              *)
LEMMA ReallocMovesInv == ASSUME IInv, ReallocMoves PROVE IInv'
<1>1. /\ call.st = "called" /\ call.fn \in {"mm_malloc", "mm_realloc"}
      /\ Called("mm_malloc") \/ Called("mm_realloc")
  BY DEF IInv, TraceInv, ReallocMoves, Called
<1>2. LocalInv
  BY UsableLemma DEF ReallocMoves
<1>3. size \in Nat /\ size = ALIGN(call.size + DSIZE) /\ call.size + DSIZE \in Nat /\ size % 8 = 0
  BY <1>1, <1>2, EntryLemma, AlignLemma DEF ReallocMoves, LocalInv
<1>4. size' = size
  <2>1. ALIGN(size) = size
    BY <1>3, AlignedLemma
  <2>2. (size - 8) + 8 = size
    BY <1>3
  <2> QED BY <2>1, <2>2 DEF ReallocMoves, DSIZE
<1>5. LocalInv'
  <2>1. pc' = "fit" /\ call' = call /\ mem' = mem /\ blks' = blks /\ heap_end' = heap_end
        /\ cur' = heap /\ SizeOf(call.ptr) < size /\ pc = "coalesce"
    BY DEF ReallocMoves, memVars, driverVars
  <2>2. heap \in blks /\ SizeOf(call.ptr)' = SizeOf(call.ptr)
    BY <1>1, <2>1, EntryLemma DEF SizeOf
  <2> QED BY <1>2, <1>3, <1>4, <2>1, <2>2 DEF LocalInv
<1> QED BY <1>1, <1>3, <1>4, <1>5, EntryLemma, LocalStepLemma DEF ReallocMoves, TypeOK, PCs

(***************************************************************************)
(* Steps of the package that write to the heap.                            *)
(***************************************************************************)
(* Such a step leaves the driver alone: TypeOK and HeapInv are left to     *)
(* show.                                                                   *)
LEMMA PackageStepLemma ==
  ASSUME IInv, UnchangedDriver, TypeOK', HeapInv', call.st = "called",
         \/ call' = call /\ pc # "idle"
         \/ call'.st = "returned" /\ pc' = "idle"
  PROVE  IInv'
<1>1. TypeOK /\ TraceInv /\ PayloadsDisjoint
  BY DEF IInv
<1>2. PayloadsDisjoint'
  BY <1>1 DEF PayloadsDisjoint, Disjoint, UnchangedDriver
<1>3. TraceInv'
  BY <1>1 DEF TraceInv, Called, UnchangedDriver
<1> QED BY <1>2, <1>3 DEF IInv

(* What Return(v) leaves of the call.                                      *)
LEMMA ReturnLemma ==
  ASSUME TypeOK, NEW v \in Int, Return(v)
  PROVE  /\ pc' = "idle" /\ size' = 0 /\ cur' = 0
         /\ call' \in [fn : Calls, st : {"none", "called", "returned"}, id : Nat,
                       ptr : Nat, size : 0 .. (INT_MOD \div 2 - 1), ret : Int]
         /\ call'.st = "returned" /\ call'.ret = v
         /\ call'.fn = call.fn /\ call'.id = call.id
         /\ call'.ptr = call.ptr /\ call'.size = call.size
  BY DEF Return, TypeOK, DriverTypeOK, NULL

(* A call still under way: nobody's view has changed.                      *)
LEMMA ViewLemma ==
  ASSUME UnchangedDriver, call' = call
  PROVE  \A i \in Ids : Holds(i)' = Holds(i) /\ Addr(i)' = Addr(i) /\ Bytes(i)' = Bytes(i)
  BY DEF UnchangedDriver, Holds, Addr, Bytes, Answered

(* The block a realloc works on is held by its identifier.                 *)
LEMMA ReallocPtrLemma ==
  ASSUME IInv, Called("mm_realloc")
  PROVE  /\ TypeOK /\ Tiled /\ HeldInBlocks
         /\ call.id \in Ids /\ call.id \in live /\ Holds(call.id)
         /\ Addr(call.id) = call.ptr /\ call.ptr = blocks[call.id]
         /\ call.ptr \in blks /\ IsAlloc(call.ptr) /\ SizeOf(call.ptr) \in Nat
<1>1. TypeOK /\ Tiled /\ HeldInBlocks /\ RequestInv
  BY UsableLemma DEF IInv
<1>2. call.id \in live /\ call.ptr = blocks[call.id] /\ call.id \in Ids
  BY <1>1 DEF RequestInv, TypeOK, DriverTypeOK
<1>3. Holds(call.id) /\ Addr(call.id) = call.ptr
  BY <1>2 DEF Holds, Addr, Answered, Called
<1>4. call.ptr \in blks /\ IsAlloc(call.ptr)
  BY <1>1, <1>2, <1>3 DEF HeldInBlocks
<1> QED BY <1>1, <1>2, <1>3, <1>4, BlockLemma

(* first_fit merges the next free block into the one at the cursor.        *)
LEMMA FitCoalesceInv == ASSUME IInv, FitCoalesce PROVE IInv'
<1> PICK bp : bp = cur
  OBVIOUS
<1>1. /\ bp \in blks /\ ~ IsAlloc(bp) /\ coalesce_block(bp) /\ bp = cur
      /\ UNCHANGED <<mem_brk, driverVars, heap_end, pc, size, cur>>
      /\ pc = "fit"
  BY CursorLemma DEF FitCoalesce
<1>2. TypeOK /\ Tiled /\ HeldInBlocks /\ RequestInv /\ LocalInv
  BY <1>1, UsableLemma DEF IInv
<1>3. UNCHANGED <<live, blocks, block_sizes, ranges, call, verdict>> /\ UnchangedDriver
  BY <1>1 DEF driverVars, UnchangedDriver
<1> DEFINE np == NEXT(bp)
<1>4. /\ Tiled' /\ mem' \in [Words -> Nat]
      /\ np \in blks /\ ~ IsAlloc(np)
      /\ blks' = blks \ {np} /\ np # bp
      /\ \A b \in blks \ {bp} : mem'[HDRP(b)] = mem[HDRP(b)]
  BY <1>1, <1>2, CoalesceLemma
<1>5. \A b \in blks \ {bp} : SizeOf(b)' = SizeOf(b) /\ IsAlloc(b)' = IsAlloc(b)
  BY <1>4 DEF SizeOf, IsAlloc
<1>6. \A i \in Ids : Holds(i) => /\ Addr(i) \in blks /\ IsAlloc(Addr(i))
                                 /\ Addr(i) # bp /\ Addr(i) # np
                                 /\ SizeOf(Addr(i)) \in Nat
  BY <1>1, <1>2, <1>4, BlockLemma DEF HeldInBlocks
<1>7. TypeOK'
  BY <1>1, <1>2, <1>3, <1>4 DEF TypeOK, DriverTypeOK
<1>8. HeldInBlocks'
  <2>1. \A i \in Ids : Holds(i) => \A b : b = Addr(i) =>
          /\ b \in blks' /\ IsAlloc(b)'
          /\ SizeOf(b) \in Nat /\ SizeOf(b)' \in Nat /\ SizeOf(b)' >= SizeOf(b)
    BY <1>4, <1>5, <1>6
  <2> QED BY <1>2, <1>3, <2>1, HeldFrameLemma, MemAssumption
          DEF TypeOK, DriverTypeOK, MemAssumption
<1>9. RequestInv'
  <2>1. ~ Called("mm_free")
    BY <1>1 DEF IInv, TraceInv, Called
  <2> QED BY <1>2, <1>3, <2>1 DEF RequestInv, Called, Returned
<1>10. LocalInv'
  <2>1. ASSUME call.fn = "mm_realloc" PROVE SizeOf(call.ptr)' = SizeOf(call.ptr)
    <3>1. Called("mm_realloc")
      BY <1>1, <2>1 DEF IInv, TraceInv, Called
    <3>2. call.ptr \in blks /\ call.ptr # bp
      BY <1>1, <3>1, ReallocPtrLemma
    <3> QED BY <1>3, <1>4, <3>2 DEF SizeOf
  <2>2. cur' \in blks'
    BY <1>1, <1>4
  <2> QED BY <1>1, <1>2, <1>3, <2>1, <2>2 DEF LocalInv
<1>11. call.st = "called" /\ call' = call /\ pc # "idle"
  BY <1>1, <1>3 DEF IInv, TraceInv
<1> QED BY <1>3, <1>4, <1>7, <1>8, <1>9, <1>10, <1>11, PackageStepLemma DEF HeapInv

(* mm_realloc merges the next free block into the one it works on.         *)
LEMMA ReallocCoalesceInv == ASSUME IInv, ReallocCoalesce PROVE IInv'
<1> PICK bp : bp = call.ptr
  OBVIOUS
<1>1. /\ coalesce_block(bp) /\ pc = "coalesce"
      /\ UNCHANGED <<mem_brk, driverVars, heap_end, pc, size, cur>>
  BY DEF ReallocCoalesce
<1>2. TypeOK /\ Tiled /\ HeldInBlocks /\ RequestInv /\ LocalInv
  BY <1>1, UsableLemma DEF IInv
<1>3. UNCHANGED <<live, blocks, block_sizes, ranges, call, verdict>> /\ UnchangedDriver
  BY <1>1 DEF driverVars, UnchangedDriver
<1>4. call.st = "called" /\ call' = call /\ pc # "idle"
      /\ call.fn \in {"mm_malloc", "mm_realloc"}
  BY <1>1, <1>3 DEF IInv, TraceInv
<1>5. Called("mm_realloc")
  BY <1>1, <1>2, <1>4 DEF LocalInv, Called
<1>6. bp \in blks
  BY <1>5, ReallocPtrLemma
<1> DEFINE np == NEXT(bp)
<1>7. /\ Tiled' /\ mem' \in [Words -> Nat]
      /\ np \in blks /\ ~ IsAlloc(np) /\ np # bp
      /\ blks' = blks \ {np}
      /\ SizeOf(bp)' >= SizeOf(bp) /\ IsAlloc(bp)' = IsAlloc(bp)
      /\ \A b \in blks \ {bp} : mem'[HDRP(b)] = mem[HDRP(b)]
  BY <1>1, <1>2, <1>6, CoalesceLemma
<1>8. \A b \in blks \ {bp} : SizeOf(b)' = SizeOf(b) /\ IsAlloc(b)' = IsAlloc(b)
  BY <1>7 DEF SizeOf, IsAlloc
<1>9. TypeOK'
  BY <1>1, <1>2, <1>3, <1>7 DEF TypeOK, DriverTypeOK
<1>10. SizeOf(bp) \in Nat /\ SizeOf(bp)' \in Nat
  <2>1. HDRP(bp) \in Words /\ SizeOf(bp) \in Nat
    BY <1>2, <1>6, BlockLemma
  <2>2. GET_SIZE(mem'[HDRP(bp)]) \in Nat
    BY <1>7, <2>1, WordLemma
  <2> QED BY <2>1, <2>2 DEF SizeOf
<1>11. HeldInBlocks'
  <2>1. \A i \in Ids : Holds(i) => /\ Addr(i) \in blks /\ IsAlloc(Addr(i))
                                   /\ Addr(i) # np /\ SizeOf(Addr(i)) \in Nat
    BY <1>2, <1>7, BlockLemma DEF HeldInBlocks
  <2>2. \A i \in Ids : Holds(i) => \A b : b = Addr(i) =>
          /\ b \in blks' /\ IsAlloc(b)'
          /\ SizeOf(b) \in Nat /\ SizeOf(b)' \in Nat /\ SizeOf(b)' >= SizeOf(b)
    BY <1>7, <1>8, <1>10, <2>1
  <2> QED BY <1>2, <1>3, <2>2, HeldFrameLemma, MemAssumption
          DEF TypeOK, DriverTypeOK, MemAssumption
<1>12. RequestInv'
  BY <1>2, <1>3, <1>4 DEF RequestInv, Called, Returned
<1>13. LocalInv'
  BY <1>1, <1>2, <1>3 DEF LocalInv
<1> QED BY <1>3, <1>4, <1>7, <1>9, <1>11, <1>12, <1>13, PackageStepLemma DEF HeapInv

(* extend_heap adds a free block of the size asked for.                    *)
LEMMA ExtendInv == ASSUME IInv, Extend PROVE IInv'
<1> PICK nb : nb = mem_brk + DSIZE
  OBVIOUS
<1>1. /\ pc = "extend" /\ pc' = "place" /\ cur' = nb
      /\ UNCHANGED <<driverVars, size>> /\ blks' = blks \union {nb}
      /\ mem_sbrk(size) /\ mem' = WRITE(mem, mem_brk, PACK(size, 0))
      /\ heap_end' = heap_end + size
  BY DEF Extend
<1>2. TypeOK /\ Tiled /\ HeldInBlocks /\ RequestInv /\ LocalInv
  BY <1>1, UsableLemma DEF IInv
<1>3. UNCHANGED <<live, blocks, block_sizes, ranges, call, verdict>> /\ UnchangedDriver
  BY <1>1 DEF driverVars, UnchangedDriver
<1>4. call.st = "called" /\ call' = call /\ pc # "idle"
      /\ call.fn \in {"mm_malloc", "mm_realloc"}
  BY <1>1, <1>3 DEF IInv, TraceInv
<1>5. size \in Nat /\ size % 8 = 0 /\ size >= 8 /\ size < INT_MOD
  <2>1. call.size \in 0 .. (INT_MOD \div 2 - 1) /\ INT_MOD \in Nat /\ INT_MOD >= 64
    BY <1>2, MemAssumption DEF TypeOK, DriverTypeOK, MemAssumption
  <2>2. size = ALIGN(call.size + 8)
    BY <1>1, <1>2 DEF LocalInv, DSIZE
  <2> QED BY <2>1, <2>2, AlignLemma
<1>6. /\ Tiled' /\ mem' \in [Words -> Nat]
      /\ mem_brk' \in mem_start_brk .. mem_max_addr /\ mem_brk' % 8 = 0
      /\ nb \in Nat /\ nb \notin blks
      /\ SizeOf(nb)' = size /\ ~ IsAlloc(nb)'
      /\ \A b \in blks : mem'[HDRP(b)] = mem[HDRP(b)]
  BY <1>1, <1>2, <1>5, ExtendLemma
<1>7. \A b \in blks : SizeOf(b)' = SizeOf(b) /\ IsAlloc(b)' = IsAlloc(b)
  BY <1>6 DEF SizeOf, IsAlloc
<1>8. TypeOK'
  <2>1. DriverTypeOK'
    BY <1>2, <1>3 DEF TypeOK, DriverTypeOK
  <2>2. heap_end' \in Nat /\ pc' \in PCs /\ size' \in Nat /\ cur' \in Nat /\ blks' \subseteq Nat
    <3>1. heap_end \in Nat /\ blks \subseteq Nat
      BY <1>2 DEF TypeOK
    <3>2. heap_end' \in Nat
      BY <1>1, <1>5, <3>1
    <3>3. pc' \in PCs
      BY <1>1 DEF PCs
    <3> QED BY <1>1, <1>5, <1>6, <3>1, <3>2, <3>3
  <2> QED BY <1>6, <2>1, <2>2 DEF TypeOK
<1>9. HeldInBlocks'
  <2>1. \A i \in Ids : Holds(i) => Addr(i) \in blks /\ IsAlloc(Addr(i))
                                   /\ SizeOf(Addr(i)) \in Nat
    BY <1>2, BlockLemma DEF HeldInBlocks
  <2>2. \A i \in Ids : Holds(i) => \A b : b = Addr(i) =>
          /\ b \in blks' /\ IsAlloc(b)'
          /\ SizeOf(b) \in Nat /\ SizeOf(b)' \in Nat /\ SizeOf(b)' >= SizeOf(b)
    BY <1>1, <1>7, <2>1
  <2> QED BY <1>2, <1>3, <2>2, HeldFrameLemma, MemAssumption
          DEF TypeOK, DriverTypeOK, MemAssumption
<1>10. RequestInv'
  BY <1>2, <1>3, <1>4 DEF RequestInv, Called, Returned
<1>11. LocalInv'
  <2>1. call.fn = "mm_realloc" => SizeOf(call.ptr)' = SizeOf(call.ptr)
    <3>1. call.fn = "mm_realloc" => call.ptr \in blks
      BY <1>4, ReallocPtrLemma DEF Called
    <3> QED BY <1>3, <1>6, <3>1 DEF SizeOf
  <2>2. SizeOf(cur)' >= size' /\ ~ IsAlloc(cur)' /\ cur' \in blks'
    <3>1. SizeOf(cur)' = SizeOf(nb)' /\ IsAlloc(cur)' = IsAlloc(nb)'
      BY <1>1 DEF SizeOf, IsAlloc
    <3> QED BY <1>1, <1>5, <1>6, <3>1
  <2> QED BY <1>1, <1>2, <1>3, <2>1, <2>2 DEF LocalInv
<1> QED BY <1>3, <1>4, <1>6, <1>8, <1>9, <1>10, <1>11, PackageStepLemma DEF HeapInv

(* An answer that hands a block of its own, large enough, to the           *)
(* identifier of the call, or nothing, keeps HeldInBlocks.                 *)
LEMMA AnswerLemma ==
  ASSUME TypeOK, HeldInBlocks, UnchangedDriver, call.st = "called",
         call.fn \in {"mm_malloc", "mm_realloc"}, call.id \in Ids,
         call'.st = "returned", call'.fn = call.fn, call'.id = call.id,
         call'.size = call.size,
         NEW v, call'.ret = v,
         v # NULL =>
           /\ v \in blks' /\ IsAlloc(v)'
           /\ call.size > 0 /\ call.size + DSIZE <= SizeOf(v)'
           /\ \A i \in Ids \ {call.id} : Holds(i) => Addr(i) # v,
         \A i \in Ids \ {call.id} : Holds(i) =>
           \A b : b = Addr(i) =>
             b \in blks' /\ IsAlloc(b)' /\ SizeOf(b)' = SizeOf(b)
  PROVE  HeldInBlocks'
<1>1. \A i \in Ids \ {call.id} : /\ Holds(i)' = Holds(i) /\ Addr(i)' = Addr(i)
                                 /\ Bytes(i)' = Bytes(i)
  BY DEF UnchangedDriver, Holds, Addr, Bytes, Answered
<1>2. /\ Holds(call.id)' <=> v # NULL
      /\ Addr(call.id)' = v /\ Bytes(call.id)' = call.size
  BY DEF Holds, Addr, Bytes, Answered
<1>3. ASSUME NEW i \in Ids, Holds(i)'
      PROVE  /\ Addr(i)' \in blks' /\ IsAlloc(Addr(i))'
             /\ Bytes(i)' > 0 /\ Bytes(i)' + DSIZE <= SizeOf(Addr(i))'
             /\ \A j \in Ids : Holds(j)' /\ Addr(j)' = Addr(i)' => j = i
  <2>1. CASE i = call.id
    <3>1. v # NULL /\ Addr(i)' = v /\ Bytes(i)' = call.size
      BY <1>2, <1>3, <2>1
    <3>2. IsAlloc(Addr(i))' = IsAlloc(v)' /\ SizeOf(Addr(i))' = SizeOf(v)'
      BY <3>1 DEF SizeOf, IsAlloc
    <3>3. \A j \in Ids : Holds(j)' /\ Addr(j)' = Addr(i)' => j = i
      BY <1>1, <2>1, <3>1
    <3> QED BY <3>1, <3>2, <3>3
  <2>2. CASE i # call.id
    <3>1. PICK b : b = Addr(i)
      OBVIOUS
    <3>2. Holds(i) /\ Addr(i)' = b /\ Bytes(i)' = Bytes(i) /\ i \in Ids \ {call.id}
      BY <1>1, <1>3, <2>2, <3>1
    <3>3. /\ b \in blks' /\ IsAlloc(b)' /\ SizeOf(b)' = SizeOf(b)
          /\ Bytes(i) > 0 /\ Bytes(i) + DSIZE <= SizeOf(b)
      BY <3>1, <3>2 DEF HeldInBlocks
    <3>4. SizeOf(Addr(i))' = SizeOf(b)' /\ IsAlloc(Addr(i))' = IsAlloc(b)'
      BY <3>2 DEF SizeOf, IsAlloc
    <3>5. \A j \in Ids : Holds(j)' /\ Addr(j)' = Addr(i)' => j = i
      BY <1>1, <1>2, <3>1, <3>2 DEF HeldInBlocks
    <3> QED BY <3>2, <3>3, <3>4, <3>5
  <2> QED BY <2>1, <2>2
<1> QED BY <1>3 DEF HeldInBlocks

(* The same for a call that does not return yet.                           *)
LEMMA StillCalledLemma ==
  ASSUME TypeOK, TypeOK', HeldInBlocks, UnchangedDriver, call' = call,
         Tiled,
         \A i \in Ids : Holds(i) =>
           \A b : b = Addr(i) => b \in blks' /\ IsAlloc(b)' /\ SizeOf(b)' = SizeOf(b)
  PROVE  HeldInBlocks'
<1>1. \A i \in Ids : Holds(i) => SizeOf(Addr(i)) \in Nat
  BY BlockLemma DEF HeldInBlocks
<1>2. block_sizes \in [Ids -> Nat] /\ call.size \in Nat
  BY MemAssumption DEF TypeOK, DriverTypeOK, MemAssumption
<1>3. \A i \in Ids : Holds(i) => \A b : b = Addr(i) =>
        /\ b \in blks' /\ IsAlloc(b)'
        /\ SizeOf(b) \in Nat /\ SizeOf(b)' \in Nat /\ SizeOf(b)' >= SizeOf(b)
  BY <1>1
<1> QED BY <1>2, <1>3, HeldFrameLemma DEF UnchangedDriver

(* The block found is cut and marked allocated: mm_malloc returns it, or   *)
(* mm_realloc goes on to copy into it.                                     *)
LEMMA PlaceInv == ASSUME IInv, Place PROVE IInv'
<1> PICK bp : bp = cur
  OBVIOUS
<1>1. /\ pc = "place" /\ mem' = WRITE(CutMem(bp, size), HDRP(bp), PACK(size, 1))
      /\ blks' = CutBlks(bp, size)
      /\ UnchangedDriver /\ UNCHANGED <<mem_brk, heap_end>>
      /\ \/ call.fn = "mm_malloc" /\ Return(bp)
         \/ call.fn # "mm_malloc" /\ pc' = "copy" /\ UNCHANGED <<call, size, cur>>
  BY DEF Place
<1>2. TypeOK /\ Tiled /\ HeldInBlocks /\ RequestInv /\ LocalInv
  BY <1>1, UsableLemma DEF IInv
<1>3. call.st = "called" /\ call.fn \in {"mm_malloc", "mm_realloc"}
  BY <1>1 DEF IInv, TraceInv
<1>4. /\ bp \in blks /\ ~ IsAlloc(bp) /\ SizeOf(bp) >= size
      /\ call.size > 0 /\ size = ALIGN(call.size + DSIZE)
  BY <1>1, <1>2 DEF LocalInv
<1>5. /\ call.size \in Nat /\ size \in Nat /\ size % 8 = 0 /\ size >= 8
      /\ call.size + 8 <= size
  <2>1. call.size \in Nat
    BY <1>2, MemAssumption DEF TypeOK, DriverTypeOK, MemAssumption
  <2>2. call.size + DSIZE \in Nat /\ call.size + DSIZE = call.size + 8
    BY <2>1 DEF DSIZE
  <2> QED BY <1>4, <2>1, <2>2, AlignLemma
<1> DEFINE m == CutMem(bp, size)
<1>6. /\ m \in [Words -> Nat]
      /\ \A b \in blks \ {bp} : HDRP(b) # HDRP(bp) /\ m[HDRP(b)] = mem[HDRP(b)]
      /\ Cuts(bp, size) => /\ HDRP(bp) + size # HDRP(bp)
                           /\ GET_SIZE(m[HDRP(bp) + size]) = SizeOf(bp) - size
  BY <1>2, <1>4, <1>5, CutMemLemma
<1>7. PACK(size, 1) \in Nat /\ GET_SIZE(PACK(size, 1)) = size /\ GET_ALLOC(PACK(size, 1)) = 1
  BY <1>5, PackLemma
<1>8. HDRP(bp) \in Words /\ bp \in Nat /\ bp # NULL
  BY <1>2, <1>4, BlockLemma, MemAssumption DEF heap, DSIZE, NULL, MemAssumption
<1>9. /\ mem' \in [Words -> Nat] /\ mem'[HDRP(bp)] = PACK(size, 1)
      /\ \A b \in blks \ {bp} : mem'[HDRP(b)] = mem[HDRP(b)]
      /\ Cuts(bp, size) => GET_SIZE(mem'[HDRP(bp) + size]) = SizeOf(bp) - size
  <2>1. mem' = [m EXCEPT ![HDRP(bp)] = PACK(size, 1)]
    BY <1>1 DEF WRITE
  <2> HIDE DEF m
  <2> QED BY <1>6, <1>7, <1>8, <2>1
<1>10. Tiled'
  BY <1>1, <1>2, <1>4, <1>5, <1>7, <1>9, CutTiledLemma
<1>11. /\ SizeOf(bp)' = size /\ IsAlloc(bp)'
       /\ \A b \in blks \ {bp} : SizeOf(b)' = SizeOf(b) /\ IsAlloc(b)' = IsAlloc(b)
  BY <1>7, <1>9 DEF SizeOf, IsAlloc
<1>12. blks \subseteq blks' /\ blks' \subseteq Nat
  BY <1>1, <1>2, <1>5, <1>8 DEF CutBlks, TypeOK
<1>13. \A i \in Ids : Holds(i) => /\ Addr(i) \in blks /\ IsAlloc(Addr(i)) /\ Addr(i) # bp
  BY <1>2, <1>4 DEF HeldInBlocks
<1>14. \A i \in Ids : Holds(i) =>
         \A b : b = Addr(i) => b \in blks' /\ IsAlloc(b)' /\ SizeOf(b)' = SizeOf(b)
  BY <1>11, <1>12, <1>13
<1>15. CASE call.fn = "mm_malloc"
  <2>1. Return(bp) /\ bp \in Int
    BY <1>1, <1>8, <1>15
  <2>2. /\ pc' = "idle" /\ size' = 0 /\ cur' = 0
        /\ call' \in [fn : Calls, st : {"none", "called", "returned"}, id : Nat,
                      ptr : Nat, size : 0 .. (INT_MOD \div 2 - 1), ret : Int]
        /\ call'.st = "returned" /\ call'.ret = bp /\ call'.fn = "mm_malloc"
        /\ call'.id = call.id /\ call'.size = call.size
    BY <1>2, <1>15, <2>1, ReturnLemma
  <2>3. TypeOK'
    BY <1>1, <1>2, <1>9, <1>12, <2>2 DEF TypeOK, DriverTypeOK, PCs, UnchangedDriver
  <2>4. call.id \in Ids \ live
    BY <1>2, <1>3, <1>15 DEF RequestInv, Called
  <2>5. HeldInBlocks'
    BY <1>1, <1>2, <1>3, <1>4, <1>5, <1>11, <1>12, <1>13, <1>14, <2>2, <2>4, AnswerLemma DEF DSIZE
  <2>6. RequestInv'
    BY <1>1, <1>8, <2>2, <2>4 DEF RequestInv, Called, Returned, UnchangedDriver
  <2>7. LocalInv'
    BY <2>2 DEF LocalInv
  <2> QED BY <1>1, <1>3, <1>10, <2>2, <2>3, <2>5, <2>6, <2>7, PackageStepLemma DEF HeapInv
<1>16. CASE call.fn = "mm_realloc"
  <2>1. pc' = "copy" /\ UNCHANGED <<call, size, cur>>
    BY <1>1, <1>16
  <2>2. TypeOK'
    BY <1>1, <1>2, <1>9, <1>12, <2>1 DEF TypeOK, DriverTypeOK, PCs, UnchangedDriver
  <2>3. HeldInBlocks'
    BY <1>1, <1>2, <1>14, <2>1, <2>2, StillCalledLemma
  <2>4. RequestInv'
    BY <1>1, <1>2, <1>3, <1>16, <2>1 DEF RequestInv, Called, Returned, UnchangedDriver
  <2>5. call.ptr \in blks /\ call.ptr # bp
    BY <1>3, <1>4, <1>16, ReallocPtrLemma DEF Called
  <2>6. SizeOf(call.ptr)' = SizeOf(call.ptr) /\ SizeOf(cur)' = size /\ IsAlloc(cur)'
    <3>1. mem'[HDRP(call.ptr)] = mem[HDRP(call.ptr)]
      BY <1>9, <2>5
    <3>2. cur' = bp
      BY <2>1
    <3> QED BY <1>7, <1>9, <2>1, <3>1, <3>2 DEF SizeOf, IsAlloc
  <2>7. Fresh(cur)'
    BY <1>1, <1>4, <1>12, <1>13, <2>1, ViewLemma DEF Fresh
  <2>8. LocalInv'
    BY <1>1, <1>2, <1>16, <2>1, <2>6, <2>7 DEF LocalInv
  <2> QED BY <1>1, <1>3, <1>10, <2>1, <2>2, <2>3, <2>4, <2>8, PackageStepLemma DEF HeapInv
<1> QED BY <1>3, <1>15, <1>16

(* mm_free writes one header: its size stays, its allocated bit goes.      *)
LEMMA FreeMemLemma ==
  ASSUME TypeOK, Tiled, NEW bp \in blks, NEW m \in [Words -> Nat]
  PROVE  /\ FreeMem(m, bp) \in [Words -> Nat]
         /\ GET_SIZE(FreeMem(m, bp)[HDRP(bp)]) = GET_SIZE(m[HDRP(bp)])
         /\ \A b \in blks \ {bp} : FreeMem(m, bp)[HDRP(b)] = m[HDRP(b)]
<1>1. /\ HDRP(bp) \in Words /\ m[HDRP(bp)] \in Nat
      /\ \A b \in blks \ {bp} : HDRP(b) # HDRP(bp) /\ HDRP(b) \in Words
  BY BlockLemma DEF HDRP, DSIZE
<1>2. /\ GET_SIZE(m[HDRP(bp)]) \in Nat /\ GET_SIZE(m[HDRP(bp)]) % 8 = 0
  BY <1>1, WordLemma
<1>3. /\ PACK(GET_SIZE(m[HDRP(bp)]), 0) \in Nat
      /\ GET_SIZE(PACK(GET_SIZE(m[HDRP(bp)]), 0)) = GET_SIZE(m[HDRP(bp)])
  BY <1>2, PackLemma
<1> DEFINE h == PACK(GET_SIZE(m[HDRP(bp)]), 0)
<1>4. FreeMem(m, bp) = [m EXCEPT ![HDRP(bp)] = h]
  BY DEF FreeMem, WRITE
<1>5. h \in Nat /\ GET_SIZE(h) = GET_SIZE(m[HDRP(bp)])
  BY <1>3
<1> HIDE DEF h
<1> QED BY <1>1, <1>4, <1>5

(* Both ways of freeing a block: nobody holds the block any more.          *)
LEMMA FreeStepLemma ==
  ASSUME IInv, Called("mm_free") \/ Called("mm_realloc"),
         call.ptr \in blks, mem' = FreeMem(mem, call.ptr), Return(0),
         UnchangedDriver, UNCHANGED <<mem_brk, heap_end, blks>>,
         \A i \in Ids : Holds(i)' => Holds(i) /\ Addr(i)' = Addr(i)
                                     /\ Bytes(i)' = Bytes(i) /\ Addr(i) # call.ptr
  PROVE  IInv'
<1> PICK bp : bp = call.ptr
  OBVIOUS
<1>1. TypeOK /\ Tiled /\ HeldInBlocks /\ RequestInv /\ bp \in blks
  BY UsableLemma DEF IInv
<1>2. /\ mem' \in [Words -> Nat]
      /\ GET_SIZE(mem'[HDRP(bp)]) = GET_SIZE(mem[HDRP(bp)])
      /\ \A b \in blks \ {bp} : mem'[HDRP(b)] = mem[HDRP(b)]
  BY <1>1, FreeMemLemma DEF TypeOK
<1>3. /\ \A b \in blks : SizeOf(b)' = SizeOf(b)
      /\ \A b \in blks \ {bp} : IsAlloc(b)' = IsAlloc(b)
  BY <1>2 DEF SizeOf, IsAlloc
<1>4. Tiled'
  BY <1>1, <1>3, FrameLemma
<1>5. /\ pc' = "idle" /\ size' = 0 /\ cur' = 0
      /\ call' \in [fn : Calls, st : {"none", "called", "returned"}, id : Nat,
                    ptr : Nat, size : 0 .. (INT_MOD \div 2 - 1), ret : Int]
      /\ call'.st = "returned" /\ call'.fn = call.fn /\ call'.id = call.id
  BY <1>1, ReturnLemma
<1>6. TypeOK'
  BY <1>1, <1>2, <1>5 DEF TypeOK, DriverTypeOK, PCs, UnchangedDriver
<1>7. HeldInBlocks'
  <2>1. ASSUME NEW i \in Ids, Holds(i)'
        PROVE  /\ Addr(i)' \in blks' /\ IsAlloc(Addr(i))'
               /\ Bytes(i)' > 0 /\ Bytes(i)' + DSIZE <= SizeOf(Addr(i))'
               /\ \A j \in Ids : Holds(j)' /\ Addr(j)' = Addr(i)' => j = i
    <3>1. PICK a : a = Addr(i)
      OBVIOUS
    <3>2. Holds(i) /\ Addr(i)' = a /\ Bytes(i)' = Bytes(i) /\ a # bp
      BY <2>1, <3>1
    <3>3. a \in blks /\ IsAlloc(a) /\ Bytes(i) > 0 /\ Bytes(i) + DSIZE <= SizeOf(a)
      BY <1>1, <3>1, <3>2 DEF HeldInBlocks
    <3>4. IsAlloc(a)' /\ SizeOf(a)' = SizeOf(a)
      BY <1>3, <3>2, <3>3
    <3>5. IsAlloc(Addr(i))' = IsAlloc(a)' /\ SizeOf(Addr(i))' = SizeOf(a)'
      BY <3>2 DEF SizeOf, IsAlloc
    <3>6. \A j \in Ids : Holds(j)' /\ Addr(j)' = Addr(i)' => j = i
      BY <1>1, <2>1, <3>1, <3>2 DEF HeldInBlocks
    <3> QED BY <3>2, <3>3, <3>4, <3>5, <3>6
  <2> QED BY <2>1 DEF HeldInBlocks
<1>8. RequestInv'
  BY <1>1, <1>5 DEF RequestInv, Called, Returned, UnchangedDriver
<1>9. LocalInv'
  BY <1>5 DEF LocalInv
<1>10. call.st = "called"
  BY DEF Called
<1> QED BY <1>4, <1>5, <1>6, <1>7, <1>8, <1>9, <1>10, PackageStepLemma DEF HeapInv

(* mm_free of a payload the driver has given up.                           *)
LEMMA FreeInv == ASSUME IInv, mm_free PROVE IInv'
<1>1. Called("mm_free") /\ Return(0) /\ UnchangedDriver /\ UNCHANGED <<mem_brk, heap_end, blks>>
  BY DEF mm_free
<1>2. TypeOK /\ Tiled /\ RequestInv
  BY <1>1, UsableLemma DEF IInv
<1>3. Fresh(call.ptr) /\ call.ptr \in blks
  BY <1>1, <1>2 DEF RequestInv, Fresh
<1>4. call.ptr # NULL
  BY <1>2, <1>3, BlockLemma, MemAssumption DEF heap, DSIZE, NULL, MemAssumption
<1>5. mem' = FreeMem(mem, call.ptr)
  BY <1>4 DEF mm_free
<1>6. \A i \in Ids : Holds(i)' => Holds(i) /\ Addr(i)' = Addr(i)
                                  /\ Bytes(i)' = Bytes(i) /\ Addr(i) # call.ptr
  <2>1. call'.fn = "mm_free" /\ call.fn = "mm_free"
    BY <1>1, <1>2, ReturnLemma DEF Called
  <2>2. \A i \in Ids : Holds(i)' = Holds(i) /\ Addr(i)' = Addr(i) /\ Bytes(i)' = Bytes(i)
    BY <1>1, <2>1 DEF Holds, Addr, Bytes, Answered, UnchangedDriver
  <2> QED BY <1>3, <2>2 DEF Fresh
<1> QED BY <1>1, <1>3, <1>5, <1>6, FreeStepLemma

(* mm_realloc to size 0 frees the block of its identifier.                 *)
LEMMA ReallocToZeroInv == ASSUME IInv, ReallocToZero PROVE IInv'
<1>1. /\ Called("mm_realloc") /\ Return(0) /\ UnchangedDriver
      /\ UNCHANGED <<mem_brk, heap_end, blks>> /\ mem' = FreeMem(mem, call.ptr)
  BY DEF ReallocToZero, NULL
<1>2. /\ TypeOK /\ HeldInBlocks /\ call.ptr \in blks
      /\ call.id \in Ids /\ Holds(call.id) /\ Addr(call.id) = call.ptr
  BY <1>1, ReallocPtrLemma
<1>3. /\ call'.st = "returned" /\ call'.ret = 0 /\ call'.fn = call.fn
      /\ call'.id = call.id
  BY <1>1, <1>2, ReturnLemma
<1>4. ASSUME NEW i \in Ids, Holds(i)'
      PROVE  Holds(i) /\ Addr(i)' = Addr(i) /\ Bytes(i)' = Bytes(i) /\ Addr(i) # call.ptr
  <2>1. i # call.id
    BY <1>1, <1>3, <1>4 DEF Holds, Answered, NULL, Called
  <2>2. Holds(i) /\ Addr(i)' = Addr(i) /\ Bytes(i)' = Bytes(i)
    BY <1>1, <1>3, <1>4, <2>1 DEF Holds, Addr, Bytes, Answered, UnchangedDriver
  <2> QED BY <1>2, <2>1, <2>2 DEF HeldInBlocks
<1> QED BY <1>1, <1>2, <1>4, FreeStepLemma

(* mm_realloc keeps its block, cut to the size asked for.                  *)
LEMMA ReallocInPlaceInv == ASSUME IInv, ReallocInPlace PROVE IInv'
<1> PICK bp : bp = call.ptr
  OBVIOUS
<1>1. /\ pc = "coalesce" /\ SizeOf(bp) >= size /\ mem' = CutMem(bp, size)
      /\ blks' = CutBlks(bp, size) /\ Return(bp)
      /\ UnchangedDriver /\ UNCHANGED <<mem_brk, heap_end>>
  BY DEF ReallocInPlace
<1>2. TypeOK /\ Tiled /\ HeldInBlocks /\ RequestInv /\ LocalInv
  BY <1>1, UsableLemma DEF IInv
<1>3. call.st = "called" /\ call.fn = "mm_realloc" /\ Called("mm_realloc")
  BY <1>1, <1>2 DEF IInv, TraceInv, LocalInv, Called
<1>4. /\ bp \in blks /\ IsAlloc(bp) /\ call.id \in Ids /\ call.id \in live
      /\ Holds(call.id) /\ Addr(call.id) = bp
  BY <1>3, ReallocPtrLemma
<1>5. call.size > 0 /\ size = ALIGN(call.size + DSIZE)
  BY <1>1, <1>2 DEF LocalInv
<1>6. /\ call.size \in Nat /\ size \in Nat /\ size % 8 = 0 /\ size >= 8
      /\ call.size + DSIZE <= size
  <2>1. call.size \in Nat
    BY <1>2, MemAssumption DEF TypeOK, DriverTypeOK, MemAssumption
  <2>2. call.size + DSIZE \in Nat /\ call.size + DSIZE = call.size + 8
    BY <2>1 DEF DSIZE
  <2> QED BY <1>5, <2>1, <2>2, AlignLemma
<1>7. /\ mem' \in [Words -> Nat] /\ GET_SIZE(mem'[HDRP(bp)]) = size
      /\ GET_ALLOC(mem'[HDRP(bp)]) = GET_ALLOC(mem[HDRP(bp)])
      /\ \A b \in blks \ {bp} : mem'[HDRP(b)] = mem[HDRP(b)]
      /\ Cuts(bp, size) => GET_SIZE(mem'[HDRP(bp) + size]) = SizeOf(bp) - size
  BY <1>1, <1>2, <1>4, <1>6, CutMemLemma
<1>8. Tiled'
  BY <1>1, <1>2, <1>4, <1>6, <1>7, CutTiledLemma
<1>9. /\ SizeOf(bp)' = size /\ IsAlloc(bp)'
      /\ \A b \in blks \ {bp} : SizeOf(b)' = SizeOf(b) /\ IsAlloc(b)' = IsAlloc(b)
  BY <1>4, <1>7 DEF SizeOf, IsAlloc
<1>10. bp \in Nat /\ bp # NULL
  BY <1>2, <1>4, BlockLemma, MemAssumption DEF heap, DSIZE, NULL, MemAssumption
<1>11. blks \subseteq blks' /\ blks' \subseteq Nat
  <2>1. bp + size \in Nat
    BY <1>6, <1>10
  <2>2. blks' = blks \/ blks' = blks \union {bp + size}
    BY <1>1 DEF CutBlks
  <2> QED BY <1>2, <2>1, <2>2 DEF TypeOK
<1>12. /\ pc' = "idle" /\ size' = 0 /\ cur' = 0
       /\ call' \in [fn : Calls, st : {"none", "called", "returned"}, id : Nat,
                     ptr : Nat, size : 0 .. (INT_MOD \div 2 - 1), ret : Int]
       /\ call'.st = "returned" /\ call'.ret = bp /\ call'.fn = "mm_realloc"
       /\ call'.id = call.id /\ call'.size = call.size
  BY <1>1, <1>2, <1>3, <1>10, ReturnLemma
<1>13. TypeOK'
  BY <1>1, <1>2, <1>7, <1>11, <1>12 DEF TypeOK, DriverTypeOK, PCs, UnchangedDriver
<1>14. \A i \in Ids \ {call.id} : Holds(i) =>
         /\ Addr(i) # bp
         /\ \A b : b = Addr(i) => b \in blks' /\ IsAlloc(b)' /\ SizeOf(b)' = SizeOf(b)
  BY <1>2, <1>4, <1>9, <1>11 DEF HeldInBlocks
<1>15. HeldInBlocks'
  BY <1>1, <1>2, <1>3, <1>4, <1>5, <1>6, <1>9, <1>11, <1>12, <1>14, AnswerLemma
<1>16. RequestInv'
  BY <1>1, <1>4, <1>12 DEF RequestInv, Called, Returned, UnchangedDriver
<1>17. LocalInv'
  BY <1>12 DEF LocalInv
<1> QED BY <1>1, <1>3, <1>8, <1>12, <1>13, <1>15, <1>16, <1>17, PackageStepLemma DEF HeapInv

(* The payload of the old block fits the payload of the new one: memmove   *)
(* writes no header.                                                       *)
LEMMA MoveLemma ==
  ASSUME TypeOK, Tiled, NEW bp \in blks, NEW src \in blks,
         SizeOf(src) < SizeOf(bp)
  PROVE  /\ MemMove(mem, bp, src, SizeOf(src) - DSIZE) \in [Words -> Nat]
         /\ \A b \in blks : MemMove(mem, bp, src, SizeOf(src) - DSIZE)[HDRP(b)] = mem[HDRP(b)]
<1> DEFINE n == SizeOf(src) - DSIZE
           m == MemMove(mem, bp, src, n)
<1> USE DEF DSIZE
<1>1. /\ bp \in Nat /\ bp % 8 = 0 /\ src \in Nat /\ src % 8 = 0
      /\ SizeOf(src) \in Nat /\ SizeOf(src) >= 8 /\ SizeOf(src) % 8 = 0 /\ SizeOf(bp) \in Nat
      /\ heap <= src /\ src + SizeOf(src) <= heap_end
      /\ n \in Nat /\ n < SizeOf(bp) - 8
  BY BlockLemma DEF NEXT
<1>2. /\ heap_end = mem_brk + 8 /\ mem_brk \in Nat /\ mem_brk <= mem_max_addr
      /\ heap = mem_start_brk + 8 /\ mem_start_brk \in Nat /\ mem_max_addr \in Nat
  BY MemAssumption DEF MemAssumption, Tiled, TypeOK, heap, mem_max_addr
<1>3. ASSUME NEW a \in Words, bp <= a, a < bp + n
      PROVE  src + (a - bp) \in Words
  <2>1. a \in Nat /\ a % 8 = 0
    BY <1>2 DEF Words
  <2>2. src + (a - bp) >= mem_start_brk /\ src + (a - bp) <= mem_max_addr - 1
    <3>1. a - bp \in Nat /\ a - bp < n
      BY <1>1, <1>3, <2>1
    <3>2. src + n <= mem_max_addr /\ src >= mem_start_brk
      BY <1>1, <1>2
    <3> HIDE DEF n
    <3>3. n \in Nat
      BY <1>1
    <3> QED BY <1>1, <1>2, <3>1, <3>2, <3>3
  <2>3. (src + (a - bp)) % 8 = 0
    BY <1>1, <1>3, <2>1
  <2> QED BY <1>1, <1>2, <1>3, <2>1, <2>2, <2>3 DEF Words
<1>4. m \in [Words -> Nat]
  BY <1>3 DEF MemMove, TypeOK
<1>5. ASSUME NEW b \in blks PROVE ~ (bp <= HDRP(b) /\ HDRP(b) < bp + n)
  <2>1. b \in Nat /\ HDRP(b) = b - 8 /\ (bp < b => bp + SizeOf(bp) <= b)
    BY BlockLemma DEF HDRP, Tiled, NEXT
  <2> QED BY <1>1, <2>1
<1>6. ASSUME NEW b \in blks PROVE m[HDRP(b)] = mem[HDRP(b)]
  <2>1. HDRP(b) \in DOMAIN mem
    BY BlockLemma DEF TypeOK
  <2> QED BY <1>5, <2>1 DEF MemMove
<1> QED BY <1>4, <1>6

(* mm_realloc moves the payload to the new block and frees the old one.    *)
LEMMA ReallocCopyInv == ASSUME IInv, ReallocCopy PROVE IInv'
<1> PICK bp : bp = cur
  OBVIOUS
<1> PICK old : old = call.ptr
  OBVIOUS
<1> DEFINE moved == MemMove(mem, bp, old, SizeOf(old) - DSIZE)
           set   == WRITE(moved, HDRP(bp), PACK(GET_SIZE(moved[HDRP(bp)]), 1))
<1>1. /\ pc = "copy" /\ mem' = FreeMem(set, old) /\ Return(bp)
      /\ UnchangedDriver /\ UNCHANGED <<mem_brk, heap_end, blks>>
  BY DEF ReallocCopy
<1>2. TypeOK /\ Tiled /\ HeldInBlocks /\ RequestInv /\ LocalInv
  BY <1>1, UsableLemma DEF IInv
<1>3. call.st = "called" /\ call.fn = "mm_realloc" /\ Called("mm_realloc")
  BY <1>1, <1>2 DEF IInv, TraceInv, LocalInv, Called
<1>4. /\ old \in blks /\ call.id \in Ids /\ call.id \in live
      /\ Holds(call.id) /\ Addr(call.id) = old
  BY <1>3, ReallocPtrLemma
<1>5. /\ bp \in blks /\ (\A i \in Ids : Holds(i) => Addr(i) # bp)
      /\ SizeOf(bp) = size /\ SizeOf(old) < size
      /\ call.size > 0 /\ size = ALIGN(call.size + DSIZE)
  BY <1>1, <1>2, <1>3 DEF LocalInv, Fresh
<1>6. call.size + DSIZE <= size
  <2>1. call.size \in Nat
    BY <1>2, MemAssumption DEF TypeOK, DriverTypeOK, MemAssumption
  <2>2. call.size + DSIZE \in Nat
    BY <2>1 DEF DSIZE
  <2> QED BY <1>5, <2>2, AlignLemma
<1>7. /\ moved \in [Words -> Nat]
      /\ \A b \in blks : moved[HDRP(b)] = mem[HDRP(b)]
  BY <1>2, <1>4, <1>5, MoveLemma
<1>8. /\ \A b \in blks : HDRP(b) \in Words /\ mem[HDRP(b)] \in Nat
      /\ \A b \in blks \ {bp} : HDRP(b) # HDRP(bp)
      /\ SizeOf(bp) \in Nat /\ SizeOf(bp) % 8 = 0
      /\ bp \in Nat /\ bp # NULL
  BY <1>2, <1>5, BlockLemma, MemAssumption DEF HDRP, heap, DSIZE, NULL, MemAssumption
<1>9. /\ PACK(GET_SIZE(moved[HDRP(bp)]), 1) \in Nat
      /\ GET_SIZE(PACK(GET_SIZE(moved[HDRP(bp)]), 1)) = SizeOf(bp)
      /\ GET_ALLOC(PACK(GET_SIZE(moved[HDRP(bp)]), 1)) = 1
  <2>1. GET_SIZE(moved[HDRP(bp)]) = SizeOf(bp)
    BY <1>5, <1>7 DEF SizeOf
  <2> QED BY <1>8, <2>1, PackLemma
<1>10. /\ set \in [Words -> Nat] /\ GET_SIZE(set[HDRP(bp)]) = SizeOf(bp)
       /\ GET_ALLOC(set[HDRP(bp)]) = 1
       /\ \A b \in blks \ {bp} : set[HDRP(b)] = mem[HDRP(b)]
  <2> DEFINE h == PACK(GET_SIZE(moved[HDRP(bp)]), 1)
  <2>1. set = [moved EXCEPT ![HDRP(bp)] = h]
    BY DEF WRITE
  <2>2. h \in Nat /\ GET_SIZE(h) = SizeOf(bp) /\ GET_ALLOC(h) = 1
    BY <1>9
  <2> HIDE DEF h, moved, set
  <2> QED BY <1>5, <1>7, <1>8, <2>1, <2>2
<1> HIDE DEF set, moved
<1>11. old # bp
  BY <1>4, <1>5
<1>12. /\ mem' \in [Words -> Nat]
       /\ GET_SIZE(mem'[HDRP(old)]) = GET_SIZE(set[HDRP(old)])
       /\ \A b \in blks \ {old} : mem'[HDRP(b)] = set[HDRP(b)]
  BY <1>1, <1>2, <1>4, <1>10, FreeMemLemma
<1>13. /\ \A b \in blks : SizeOf(b)' = SizeOf(b)
       /\ \A b \in blks \ {old, bp} : IsAlloc(b)' = IsAlloc(b)
       /\ IsAlloc(bp)'
  BY <1>5, <1>10, <1>11, <1>12 DEF SizeOf, IsAlloc
<1>14. Tiled'
  BY <1>1, <1>2, <1>13, FrameLemma
<1>15. /\ pc' = "idle" /\ size' = 0 /\ cur' = 0
       /\ call' \in [fn : Calls, st : {"none", "called", "returned"}, id : Nat,
                     ptr : Nat, size : 0 .. (INT_MOD \div 2 - 1), ret : Int]
       /\ call'.st = "returned" /\ call'.ret = bp /\ call'.fn = "mm_realloc"
       /\ call'.id = call.id /\ call'.size = call.size
  BY <1>1, <1>2, <1>3, <1>8, ReturnLemma
<1>16. TypeOK'
  BY <1>1, <1>2, <1>12, <1>15 DEF TypeOK, DriverTypeOK, PCs, UnchangedDriver
<1>17. \A i \in Ids \ {call.id} : Holds(i) =>
         /\ Addr(i) # bp
         /\ \A b : b = Addr(i) => b \in blks' /\ IsAlloc(b)' /\ SizeOf(b)' = SizeOf(b)
  BY <1>1, <1>2, <1>4, <1>5, <1>13 DEF HeldInBlocks
<1>18. HeldInBlocks'
  BY <1>1, <1>2, <1>3, <1>4, <1>5, <1>6, <1>13, <1>15, <1>17, AnswerLemma
<1>19. RequestInv'
  BY <1>1, <1>4, <1>15 DEF RequestInv, Called, Returned, UnchangedDriver
<1>20. LocalInv'
  BY <1>15 DEF LocalInv
<1> QED BY <1>1, <1>3, <1>14, <1>15, <1>16, <1>18, <1>19, <1>20, PackageStepLemma DEF HeapInv

(* mm_init lays out a heap of one free block without payload.              *)
LEMMA InitCallInv == ASSUME IInv, mm_init PROVE IInv'
<1>1. Called("mm_init") /\ UnchangedDriver
  BY DEF mm_init
<1>2. TypeOK /\ TraceInv /\ PayloadsDisjoint /\ live = {} /\ mem_brk = mem_start_brk
  BY <1>1 DEF IInv, TraceInv
<1>3. PayloadsDisjoint'
  BY <1>1, <1>2 DEF PayloadsDisjoint, UnchangedDriver
<1>4. CASE SbrkFails(DSIZE)
  <2>1. Return(-1) /\ UNCHANGED <<mem, mem_brk, heap_end, blks>>
    BY <1>4 DEF mm_init, memVars
  <2>2. /\ pc' = "idle" /\ size' = 0 /\ cur' = 0
        /\ call' \in [fn : Calls, st : {"none", "called", "returned"}, id : Nat,
                      ptr : Nat, size : 0 .. (INT_MOD \div 2 - 1), ret : Int]
        /\ call'.st = "returned" /\ call'.ret = -1 /\ call'.fn = "mm_init"
    BY <1>1, <1>2, <2>1, ReturnLemma DEF Called
  <2>3. TypeOK'
    BY <1>1, <1>2, <2>1, <2>2 DEF TypeOK, DriverTypeOK, PCs, UnchangedDriver
  <2>4. TraceInv'
    BY <1>1, <1>2, <2>2 DEF TraceInv, Called, UnchangedDriver
  <2>5. ~ Usable'
    BY <2>2 DEF Usable, Returned
  <2> QED BY <1>3, <2>3, <2>4, <2>5 DEF IInv
<1>5. CASE ~ SbrkFails(DSIZE)
  <2>1. /\ mem_sbrk(DSIZE) /\ mem' = WRITE(mem, HDRP(heap), PACK(DSIZE, 0))
        /\ heap_end' = heap + DSIZE /\ blks' = {heap} /\ Return(0)
    BY <1>5 DEF mm_init
  <2>2. /\ mem_start_brk \in Nat /\ mem_start_brk % 8 = 0 /\ mem_max_addr \in Nat
        /\ DSIZE \in Nat /\ DSIZE < INT_MOD /\ DSIZE = 8
    BY MemAssumption DEF MemAssumption, mem_max_addr, DSIZE
  <2>3. mem_brk' = mem_start_brk + 8 /\ mem_start_brk + 8 <= mem_max_addr
    BY <1>2, <1>5, <2>1, <2>2, SbrkLemma DEF mem_sbrk
  <2>4. HDRP(heap) = mem_start_brk /\ mem_start_brk \in Words /\ heap = mem_start_brk + 8
    BY <2>2, <2>3 DEF HDRP, heap, Words, DSIZE
  <2>5. PACK(8, 0) \in Nat /\ GET_SIZE(PACK(8, 0)) = 8
    BY PackLemma
  <2>6. mem' \in [Words -> Nat] /\ mem'[mem_start_brk] = PACK(8, 0)
    BY <1>2, <2>1, <2>2, <2>4, <2>5 DEF TypeOK, WRITE
  <2>7. /\ pc' = "idle" /\ size' = 0 /\ cur' = 0
        /\ call' \in [fn : Calls, st : {"none", "called", "returned"}, id : Nat,
                      ptr : Nat, size : 0 .. (INT_MOD \div 2 - 1), ret : Int]
        /\ call'.st = "returned" /\ call'.ret = 0 /\ call'.fn = "mm_init"
    BY <1>1, <1>2, <2>1, ReturnLemma DEF Called
  <2>8. mem_brk' \in mem_start_brk .. mem_max_addr /\ mem_brk' % 8 = 0
    BY <2>2, <2>3
  <2>9. TypeOK'
    <3>1. heap_end' \in Nat /\ blks' \subseteq Nat
      BY <2>1, <2>2, <2>4
    <3> QED BY <1>1, <1>2, <2>6, <2>7, <2>8, <3>1 DEF TypeOK, DriverTypeOK, PCs, UnchangedDriver
  <2>10. TraceInv'
    BY <1>1, <1>2, <2>7 DEF TraceInv, Called, UnchangedDriver
  <2>11. Tiled'
    <3>1. SizeOf(heap)' = 8
      BY <2>4, <2>5, <2>6 DEF SizeOf
    <3>2. NEXT(heap)' = heap + 8
      BY <3>1 DEF NEXT
    <3>3. heap % 8 = 0 /\ heap_end' = mem_brk' + 8 /\ heap_end' = heap + 8
      BY <2>1, <2>2, <2>3, <2>4
    <3> QED BY <2>1, <2>2, <2>4, <3>1, <3>2, <3>3 DEF Tiled
  <2>12. HeldInBlocks'
    BY <1>1, <1>2, <2>7 DEF HeldInBlocks, Holds, Answered, UnchangedDriver
  <2>13. RequestInv' /\ LocalInv'
    BY <2>7 DEF RequestInv, LocalInv, Called, Returned
  <2> QED BY <1>3, <2>9, <2>10, <2>11, <2>12, <2>13 DEF IInv, HeapInv
<1> QED BY <1>4, <1>5

(* Every step of the package keeps the invariant.                          *)
LEMMA PackageInv == ASSUME IInv, PackageStep PROVE IInv'
BY InitCallInv, MallocInv, FitEndInv, FitSkipInv, FitTakeInv, FitCoalesceInv, FitNextInv,
   ExtendInv, ExtendFailsInv, PlaceInv, FreeInv, ReallocToZeroInv, ReallocInv,
   ReallocCoalesceInv, ReallocInPlaceInv, ReallocMovesInv, ReallocCopyInv
   DEF PackageStep

(***************************************************************************)
(* Steps of the driver.                                                    *)
(***************************************************************************)
(* The program starts with an empty trace and mm_init called.              *)
LEMMA InitIInv == ASSUME Init PROVE IInv
<1> USE MemAssumption DEF MemAssumption
<1>1. /\ mem_brk = mem_start_brk /\ heap_end = 0 /\ pc = "idle" /\ size = 0 /\ cur = 0
      /\ blks = {} /\ DriverInit
  BY DEF Init, mem_init, NULL
<1>2. mem \in [Words -> Nat]
  BY StaleAssumption DEF StaleAssumption, Init, mem_init
<1>3. DriverTypeOK
  BY <1>1 DEF DriverInit, DriverTypeOK, Calls, NULL
<1>4. mem_brk \in mem_start_brk .. mem_max_addr
  BY <1>1 DEF mem_max_addr
<1>5. TypeOK
  BY <1>1, <1>2, <1>3, <1>4 DEF TypeOK, PCs
<1>6. TraceInv /\ PayloadsDisjoint /\ ~ Usable
  BY <1>1 DEF DriverInit, TraceInv, PayloadsDisjoint, Usable, Called
<1> QED BY <1>5, <1>6 DEF IInv

(* A step of the driver that leaves the package, and what HeapInv says of  *)
(* the package, alone.                                                     *)
LEMMA DriverStepLemma ==
  ASSUME IInv, UNCHANGED <<mem_brk, heap_end, pc, size, cur, blks>>,
         pc = "idle", mem' \in [Words -> Nat],
         \A b \in blks : mem'[HDRP(b)] = mem[HDRP(b)],
         DriverTypeOK', TraceInv', PayloadsDisjoint',
         Usable' => Usable /\ RequestInv',
         \A i \in Ids : Usable' /\ Holds(i)' =>
           Holds(i) /\ Addr(i)' = Addr(i) /\ Bytes(i)' = Bytes(i)
  PROVE  IInv'
<1>1. TypeOK /\ (Usable => HeapInv)
  BY DEF IInv
<1>2. TypeOK'
  BY <1>1 DEF TypeOK
<1>3. ASSUME Usable' PROVE HeapInv'
  <2>1. Tiled /\ HeldInBlocks
    BY <1>1, <1>3 DEF HeapInv
  <2>2. \A b \in blks : SizeOf(b)' = SizeOf(b) /\ IsAlloc(b)' = IsAlloc(b)
    BY DEF SizeOf, IsAlloc
  <2>3. Tiled'
    BY <2>1, <2>2, FrameLemma
  <2>4. ASSUME NEW i \in Ids, Holds(i)'
        PROVE  /\ Addr(i)' \in blks' /\ IsAlloc(Addr(i))'
               /\ Bytes(i)' > 0 /\ Bytes(i)' + DSIZE <= SizeOf(Addr(i))'
               /\ \A j \in Ids : Holds(j)' /\ Addr(j)' = Addr(i)' => j = i
    <3>1. PICK a : a = Addr(i)
      OBVIOUS
    <3>2. Holds(i) /\ Addr(i)' = a /\ Bytes(i)' = Bytes(i)
      BY <1>3, <2>4, <3>1
    <3>3. a \in blks /\ IsAlloc(a) /\ Bytes(i) > 0 /\ Bytes(i) + DSIZE <= SizeOf(a)
      BY <2>1, <3>1, <3>2 DEF HeldInBlocks
    <3>4. IsAlloc(a)' /\ SizeOf(a)' = SizeOf(a)
      BY <2>2, <3>3
    <3>5. IsAlloc(Addr(i))' = IsAlloc(a)' /\ SizeOf(Addr(i))' = SizeOf(a)'
      BY <3>2 DEF SizeOf, IsAlloc
    <3>6. \A j \in Ids : Holds(j)' /\ Addr(j)' = Addr(i)' => j = i
      BY <1>3, <2>1, <2>4, <3>1, <3>2 DEF HeldInBlocks
    <3> QED BY <3>2, <3>3, <3>4, <3>5, <3>6
  <2>5. HeldInBlocks'
    BY <2>4 DEF HeldInBlocks
  <2>6. LocalInv'
    BY DEF LocalInv
  <2> QED BY <1>3, <2>3, <2>5, <2>6 DEF HeapInv
<1> QED BY <1>2, <1>3 DEF IInv

(* Between two operations, and when the package has answered, it is idle.  *)
LEMMA IdleLemma ==
  ASSUME IInv, call.st # "called"
  PROVE  pc = "idle"
  BY DEF IInv, TraceInv

(* The next trace: mm_init is called on an emptied heap.                   *)
LEMMA NextTraceInv == ASSUME IInv, NextTrace, UNCHANGED mmVars PROVE IInv'
<1>1. TypeOK /\ pc = "idle"
  BY DEF IInv, TraceInv, NextTrace
<1>2. /\ live' = {} /\ call'.fn = "mm_init" /\ call'.st = "called" /\ mem' = mem
      /\ mem_brk' = mem_start_brk /\ verdict' = "running"
      /\ UNCHANGED <<heap_end, pc, size, cur, blks>>
  BY DEF NextTrace, Post, mem_reset_brk, mmVars
<1>3. DriverTypeOK'
  BY <1>1, <1>2, MemAssumption
     DEF NextTrace, Post, TypeOK, DriverTypeOK, Calls, NULL, MemAssumption
<1>4. mem_brk' \in mem_start_brk .. mem_max_addr /\ mem_brk' % 8 = 0
  BY <1>2, MemAssumption DEF MemAssumption, mem_max_addr
<1>5. TypeOK'
  BY <1>1, <1>2, <1>3, <1>4 DEF TypeOK
<1>6. TraceInv' /\ PayloadsDisjoint' /\ ~ Usable'
  BY <1>1, <1>2 DEF TraceInv, PayloadsDisjoint, Usable, Called
<1> QED BY <1>5, <1>6 DEF IInv

(* eval_mm_valid stops if mm_init failed.                                  *)
LEMMA RetInitInv == ASSUME IInv, RetInit, UNCHANGED mmVars PROVE IInv'
<1>1. TypeOK /\ TraceInv /\ PayloadsDisjoint /\ pc = "idle"
  BY IdleLemma DEF IInv, RetInit, Returned
<1>2. /\ call' = NoCall /\ UNCHANGED <<mem, mem_brk, live, blocks, block_sizes, ranges>>
      /\ UNCHANGED <<heap_end, pc, size, cur, blks>>
      /\ verdict' = (IF call.ret < 0 THEN "invalid" ELSE verdict)
      /\ call.fn = "mm_init" /\ call.st = "returned"
  BY DEF RetInit, mmVars, memVars, Returned
<1>3. DriverTypeOK'
  BY <1>1, <1>2, MemAssumption DEF TypeOK, DriverTypeOK, NoCall, Calls, MemAssumption
<1>4. TraceInv' /\ PayloadsDisjoint'
  BY <1>1, <1>2 DEF TraceInv, PayloadsDisjoint, Disjoint, Called, NoCall
<1>5. Usable' => Usable /\ RequestInv'
  BY <1>1, <1>2 DEF Usable, RequestInv, Called, Returned, NoCall, TypeOK, DriverTypeOK
<1>6. \A i \in Ids : Holds(i)' => Holds(i) /\ Addr(i)' = Addr(i) /\ Bytes(i)' = Bytes(i)
  BY <1>2 DEF Holds, Addr, Bytes, Answered, NoCall
<1> QED BY <1>1, <1>2, <1>3, <1>4, <1>5, <1>6, DriverStepLemma DEF TypeOK

(* The three requests and the return of mm_free change no memory.  What    *)
(* happens to the range list is no concern of the invariant.               *)
LEMMA MallocRequestInv ==
  ASSUME IInv, ReadyForOp, NEW i \in Ids \ live, NEW n \in 1 .. (INT_MOD \div 2 - 1),
         Post("mm_malloc", i, NULL, n),
         UNCHANGED <<memVars, live, blocks, block_sizes, verdict>>, UNCHANGED mmVars
  PROVE  IInv'
<1>1. TypeOK /\ TraceInv /\ PayloadsDisjoint /\ pc = "idle" /\ Usable
  BY IdleLemma, UsableLemma DEF IInv, ReadyForOp
<1>2. /\ UNCHANGED <<mem, mem_brk, live, blocks, block_sizes, verdict>>
      /\ UNCHANGED <<heap_end, pc, size, cur, blks>>
      /\ call' = [fn |-> "mm_malloc", st |-> "called", id |-> i, ptr |-> 0,
                  size |-> n, ret |-> 0]
      /\ call.st = "none" /\ i \notin live
  BY DEF mmVars, memVars, Post, ReadyForOp, NULL
<1>3. i \in Nat /\ n \in 0 .. (INT_MOD \div 2 - 1) /\ n > 0
  BY TraceAssumption, MemAssumption DEF TraceAssumption, MemAssumption
<1>4. DriverTypeOK'
  BY <1>1, <1>2, <1>3 DEF TypeOK, DriverTypeOK, Calls
<1>5. TraceInv' /\ PayloadsDisjoint'
  BY <1>1, <1>2 DEF Usable, TraceInv, PayloadsDisjoint, Disjoint, Called
<1>6. RequestInv'
  BY <1>2, <1>3 DEF RequestInv, Called, Returned
<1>7. \A j \in Ids : Holds(j)' => Holds(j) /\ Addr(j)' = Addr(j) /\ Bytes(j)' = Bytes(j)
  BY <1>2 DEF Holds, Addr, Bytes, Answered
<1> QED BY <1>1, <1>2, <1>4, <1>5, <1>6, <1>7, DriverStepLemma DEF TypeOK

(* A realloc is asked of the block that blocks[i] holds.                   *)
LEMMA ReallocRequestInv ==
  ASSUME IInv, ReadyForOp, NEW i \in live, NEW n \in 0 .. (INT_MOD \div 2 - 1),
         Post("mm_realloc", i, blocks[i], n),
         UNCHANGED <<memVars, live, blocks, block_sizes, verdict>>, UNCHANGED mmVars
  PROVE  IInv'
<1>1. TypeOK /\ TraceInv /\ PayloadsDisjoint /\ pc = "idle" /\ Usable
  BY IdleLemma, UsableLemma DEF IInv, ReadyForOp
<1>2. /\ UNCHANGED <<mem, mem_brk, live, blocks, block_sizes, verdict>>
      /\ UNCHANGED <<heap_end, pc, size, cur, blks>>
      /\ call' = [fn |-> "mm_realloc", st |-> "called", id |-> i, ptr |-> blocks[i],
                  size |-> n, ret |-> 0]
      /\ call.st = "none" /\ i \in live
  BY DEF mmVars, memVars, Post, ReadyForOp, NULL
<1>3. i \in Nat /\ n \in 0 .. (INT_MOD \div 2 - 1) /\ blocks[i] \in Nat
  BY <1>1, TraceAssumption, MemAssumption
     DEF TraceAssumption, MemAssumption, TypeOK, DriverTypeOK
<1>4. DriverTypeOK'
  BY <1>1, <1>2, <1>3 DEF TypeOK, DriverTypeOK, Calls
<1>5. TraceInv' /\ PayloadsDisjoint'
  BY <1>1, <1>2 DEF Usable, TraceInv, PayloadsDisjoint, Disjoint, Called
<1>6. RequestInv'
  BY <1>2, <1>3 DEF RequestInv, Called, Returned
<1>7. \A j \in Ids : Holds(j)' => Holds(j) /\ Addr(j)' = Addr(j) /\ Bytes(j)' = Bytes(j)
  BY <1>2 DEF Holds, Addr, Bytes, Answered
<1> QED BY <1>1, <1>2, <1>4, <1>5, <1>6, <1>7, DriverStepLemma DEF TypeOK

(* The block of a free is given up before mm_free is called.               *)
LEMMA FreeRequestInv ==
  ASSUME IInv, ReadyForOp, NEW i \in live, live' = live \ {i},
         Post("mm_free", i, blocks[i], 0),
         UNCHANGED <<memVars, blocks, block_sizes, verdict>>, UNCHANGED mmVars
  PROVE  IInv'
<1>1. TypeOK /\ TraceInv /\ PayloadsDisjoint /\ pc = "idle" /\ Usable /\ HeldInBlocks
  BY IdleLemma, UsableLemma DEF IInv, ReadyForOp
<1>2. /\ UNCHANGED <<mem, mem_brk, blocks, block_sizes, verdict>>
      /\ UNCHANGED <<heap_end, pc, size, cur, blks>>
      /\ live' = live \ {i}
      /\ call' = [fn |-> "mm_free", st |-> "called", id |-> i, ptr |-> blocks[i],
                  size |-> 0, ret |-> 0]
      /\ call.st = "none" /\ i \in live
  BY DEF mmVars, memVars, Post, ReadyForOp
<1>3. i \in Ids /\ i \in Nat /\ 0 \in 0 .. (INT_MOD \div 2 - 1) /\ blocks[i] \in Nat
  BY <1>1, TraceAssumption, MemAssumption
     DEF TraceAssumption, MemAssumption, TypeOK, DriverTypeOK
<1>4. DriverTypeOK'
  BY <1>1, <1>2, <1>3 DEF TypeOK, DriverTypeOK, Calls
<1>5. TraceInv' /\ PayloadsDisjoint'
  BY <1>1, <1>2 DEF Usable, TraceInv, PayloadsDisjoint, Disjoint, Called
<1>6. \A j \in Ids : /\ Holds(j) <=> j \in live
                     /\ Holds(j)' <=> j \in live \ {i}
                     /\ Addr(j) = blocks[j] /\ Addr(j)' = blocks[j] /\ Bytes(j)' = Bytes(j)
  BY <1>2 DEF Holds, Addr, Bytes, Answered
<1>7. Fresh(call.ptr)'
  <2>1. call'.ptr = blocks[i] /\ blocks[i] \in blks
    BY <1>1, <1>2, <1>3, <1>6 DEF HeldInBlocks
  <2>2. \A j \in Ids : Holds(j)' => Addr(j)' # blocks[i]
    BY <1>1, <1>2, <1>3, <1>6 DEF HeldInBlocks
  <2> QED BY <1>2, <2>1, <2>2 DEF Fresh
<1>8. RequestInv'
  BY <1>2, <1>7 DEF RequestInv, Called, Returned
<1> QED BY <1>1, <1>2, <1>4, <1>5, <1>6, <1>8, DriverStepLemma DEF TypeOK

(* The requests of eval_mm_valid.                                          *)
LEMMA ReqMallocInv ==
  ASSUME IInv, NEW i \in Ids, NEW n \in Sizes, ReqMalloc(i, n), UNCHANGED mmVars
  PROVE  IInv'
  BY MallocRequestInv, TraceAssumption DEF TraceAssumption, ReqMalloc

LEMMA ReqReallocInv ==
  ASSUME IInv, NEW i \in Ids, NEW n \in ReallocSizes, ReqRealloc(i, n), UNCHANGED mmVars
  PROVE  IInv'
  BY ReallocRequestInv, TraceAssumption DEF TraceAssumption, ReqRealloc

LEMMA ReqFreeInv ==
  ASSUME IInv, NEW i \in Ids, ReqFree(i), UNCHANGED mmVars
  PROVE  IInv'
  BY FreeRequestInv DEF ReqFree

(* mm_free has returned.                                                   *)
LEMMA RetFreeInv == ASSUME IInv, RetFree, UNCHANGED mmVars PROVE IInv'
<1>1. TypeOK /\ TraceInv /\ PayloadsDisjoint /\ pc = "idle" /\ Usable
  BY IdleLemma, UsableLemma DEF IInv, RetFree, Returned
<1>2. /\ call' = NoCall
      /\ UNCHANGED <<mem, mem_brk, live, blocks, block_sizes, ranges, verdict>>
      /\ UNCHANGED <<heap_end, pc, size, cur, blks>>
      /\ call.fn = "mm_free"
  BY DEF RetFree, mmVars, memVars, Returned
<1>3. DriverTypeOK'
  BY <1>1, <1>2, MemAssumption DEF TypeOK, DriverTypeOK, NoCall, Calls, MemAssumption
<1>4. TraceInv' /\ PayloadsDisjoint'
  BY <1>1, <1>2 DEF TraceInv, PayloadsDisjoint, Disjoint, Called, NoCall
<1>5. RequestInv'
  BY <1>2 DEF RequestInv, Called, Returned, NoCall
<1>6. \A i \in Ids : Holds(i)' => Holds(i) /\ Addr(i)' = Addr(i) /\ Bytes(i)' = Bytes(i)
  BY <1>2 DEF Holds, Addr, Bytes, Answered, NoCall
<1> QED BY <1>1, <1>2, <1>3, <1>4, <1>5, <1>6, DriverStepLemma DEF TypeOK

(* Two identifiers that hold memory share no byte of it.                   *)
LEMMA HeldDisjointLemma ==
  ASSUME TypeOK, Tiled, HeldInBlocks,
         NEW i \in Ids, NEW j \in Ids, i # j, Holds(i), Holds(j)
  PROVE  Disjoint(Addr(i), Bytes(i), Addr(j), Bytes(j))
<1>1. PICK a, b : a = Addr(i) /\ b = Addr(j)
  OBVIOUS
<1>2. /\ a \in blks /\ b \in blks /\ a # b
      /\ Bytes(i) + 8 <= SizeOf(a) /\ Bytes(j) + 8 <= SizeOf(b)
  BY <1>1 DEF HeldInBlocks, DSIZE
<1>3. Bytes(i) \in Nat /\ Bytes(j) \in Nat
  BY MemAssumption DEF Bytes, TypeOK, DriverTypeOK, MemAssumption
<1>4. /\ a \in Nat /\ b \in Nat /\ SizeOf(a) \in Nat /\ SizeOf(b) \in Nat
      /\ NEXT(a) = a + SizeOf(a) /\ NEXT(b) = b + SizeOf(b)
  BY <1>2, BlockLemma DEF NEXT
<1>5. NEXT(a) <= b \/ NEXT(b) <= a
  BY <1>2, <1>4 DEF Tiled
<1>6. a + Bytes(i) <= b \/ b + Bytes(j) <= a
  BY <1>2, <1>3, <1>4, <1>5
<1> QED BY <1>1, <1>6 DEF Disjoint

(* The driver fills a payload: it writes no header.                        *)
LEMMA FillLemma ==
  ASSUME TypeOK, Tiled, NEW bp \in blks, NEW n \in Nat, n + 8 <= SizeOf(bp), NEW v \in Nat
  PROVE  /\ MemSet(mem, bp, v, n) \in [Words -> Nat]
         /\ \A b \in blks : MemSet(mem, bp, v, n)[HDRP(b)] = mem[HDRP(b)]
<1>1. MemSet(mem, bp, v, n) \in [Words -> Nat]
  BY DEF MemSet, TypeOK
<1>2. ASSUME NEW b \in blks PROVE MemSet(mem, bp, v, n)[HDRP(b)] = mem[HDRP(b)]
  <2>1. /\ b \in Nat /\ bp \in Nat /\ HDRP(b) = b - 8 /\ SizeOf(bp) \in Nat
        /\ (bp < b => bp + SizeOf(bp) <= b)
    BY BlockLemma DEF HDRP, Tiled, NEXT, DSIZE
  <2>2. ~ (bp <= HDRP(b) /\ HDRP(b) < bp + n)
    BY <2>1
  <2>3. HDRP(b) \in DOMAIN mem
    BY BlockLemma DEF TypeOK
  <2> QED BY <2>2, <2>3 DEF MemSet
<1> QED BY <1>1, <1>2

(* The driver remembers an answer; it may fill the payload.                *)
LEMMA RememberInv ==
  ASSUME IInv, Returned("mm_malloc") \/ Returned("mm_realloc"),
         call.ret # NULL, call' = NoCall, UNCHANGED mmVars,
         mem' = mem \/ mem' = MemSet(mem, call.ret, Fill(call.id), call.size),
         live' = live \union {call.id},
         blocks' = [blocks EXCEPT ![call.id] = call.ret],
         block_sizes' = [block_sizes EXCEPT ![call.id] = call.size],
         UNCHANGED <<mem_brk, verdict>>
  PROVE  IInv'
<1>1. /\ TypeOK /\ TraceInv /\ PayloadsDisjoint /\ pc = "idle" /\ Usable
      /\ Tiled /\ HeldInBlocks /\ RequestInv /\ verdict = "running"
  BY IdleLemma, UsableLemma DEF IInv, Returned
<1> DEFINE id == call.id
<1>2. /\ mem' = mem \/ mem' = MemSet(mem, call.ret, Fill(id), call.size)
      /\ live' = live \union {id}
      /\ blocks' = [blocks EXCEPT ![id] = call.ret]
      /\ block_sizes' = [block_sizes EXCEPT ![id] = call.size]
      /\ UNCHANGED <<mem_brk, verdict>> /\ UNCHANGED <<heap_end, pc, size, cur, blks>>
  BY DEF mmVars
<1>3. id \in Ids /\ id \in Nat /\ call.size \in Nat
  BY <1>1, TraceAssumption, MemAssumption
     DEF RequestInv, Returned, TypeOK, DriverTypeOK, TraceAssumption, MemAssumption
<1>4. /\ Answered(id) /\ Holds(id) /\ Addr(id) = call.ret /\ Bytes(id) = call.size
      /\ \A i \in Ids \ {id} : /\ Holds(i) <=> i \in live
                               /\ Addr(i) = blocks[i] /\ Bytes(i) = block_sizes[i]
  BY DEF Answered, Holds, Addr, Bytes, Returned
<1>5. /\ call.ret \in blks /\ call.size + 8 <= SizeOf(call.ret)
  BY <1>1, <1>3, <1>4 DEF HeldInBlocks, DSIZE
<1>6. Fill(id) \in Nat
  <2>1. id % 256 \in Nat
    BY <1>3
  <2> QED BY <2>1 DEF Fill, LowByte
<1>7. /\ mem' \in [Words -> Nat] /\ \A b \in blks : mem'[HDRP(b)] = mem[HDRP(b)]
  <2>1. CASE mem' = mem
    BY <1>1, <2>1 DEF TypeOK
  <2>2. CASE mem' = MemSet(mem, call.ret, Fill(id), call.size)
    BY <1>1, <1>3, <1>5, <1>6, <2>2, FillLemma
  <2> QED BY <1>2, <2>1, <2>2
<1>8. call.ret \in Nat
  BY <1>1, <1>5, BlockLemma
<1>9. DriverTypeOK'
  BY <1>1, <1>2, <1>3, <1>8, MemAssumption
     DEF TypeOK, DriverTypeOK, NoCall, Calls, MemAssumption
<1>10. TraceInv'
  BY <1>1, <1>2 DEF TraceInv, Called, NoCall
<1>11. \A i \in Ids : /\ i \in live' <=> i = id \/ i \in live
                      /\ blocks'[i] = Addr(i) \/ i \notin live'
                      /\ block_sizes'[i] = Bytes(i) \/ i \notin live'
                      /\ i \in live' => Holds(i)
  BY <1>1, <1>2, <1>3, <1>4 DEF TypeOK, DriverTypeOK
<1>12. PayloadsDisjoint'
  <2>1. live' \subseteq Ids
    BY <1>9 DEF DriverTypeOK
  <2>2. ASSUME NEW i \in live', NEW j \in live', i # j
        PROVE  Disjoint(blocks'[i], block_sizes'[i], blocks'[j], block_sizes'[j])
    BY <1>1, <1>11, <2>1, <2>2, HeldDisjointLemma
  <2> QED BY <2>2 DEF PayloadsDisjoint, Disjoint
<1>13. RequestInv'
  BY DEF RequestInv, Called, Returned, NoCall
<1>14. ASSUME NEW i \in Ids, Holds(i)'
       PROVE  Holds(i) /\ Addr(i)' = Addr(i) /\ Bytes(i)' = Bytes(i)
  <2>1. i \in live' /\ Addr(i)' = blocks'[i] /\ Bytes(i)' = block_sizes'[i]
    BY <1>14 DEF Holds, Addr, Bytes, Answered, NoCall
  <2> QED BY <1>11, <2>1
<1> QED BY <1>1, <1>2, <1>7, <1>9, <1>10, <1>12, <1>13, <1>14, DriverStepLemma

(* The driver accepts an answer.                                           *)
LEMMA AcceptInv ==
  ASSUME IInv, Returned("mm_malloc") \/ Returned("mm_realloc"),
         call.ret # NULL, NEW R, Accept(R), call' = NoCall, UNCHANGED mmVars
  PROVE  IInv'
<1>1. /\ mem' = MemSet(mem, call.ret, Fill(call.id), call.size)
      /\ live' = live \union {call.id}
      /\ blocks' = [blocks EXCEPT ![call.id] = call.ret]
      /\ block_sizes' = [block_sizes EXCEPT ![call.id] = call.size]
      /\ UNCHANGED <<mem_brk, verdict>>
  BY DEF Accept
<1> QED BY <1>1, RememberInv

(* The driver rejects an answer: the trace is over.                        *)
LEMMA RejectInv ==
  ASSUME IInv, Reject, call' = NoCall, call.st = "returned", UNCHANGED mmVars
  PROVE  IInv'
<1>1. TypeOK /\ TraceInv /\ PayloadsDisjoint /\ pc = "idle"
  BY IdleLemma DEF IInv
<1>2. /\ UNCHANGED <<mem, mem_brk, live, blocks, block_sizes>>
      /\ UNCHANGED <<heap_end, pc, size, cur, blks>> /\ verdict' = "invalid"
  BY DEF Reject, memVars, mmVars
<1>3. DriverTypeOK'
  BY <1>1, <1>2, MemAssumption DEF TypeOK, DriverTypeOK, NoCall, Calls, MemAssumption
<1>4. TraceInv' /\ PayloadsDisjoint' /\ ~ Usable'
  BY <1>1, <1>2 DEF TraceInv, PayloadsDisjoint, Disjoint, Called, NoCall, Usable
<1>5. TypeOK'
  BY <1>1, <1>2, <1>3 DEF TypeOK
<1> QED BY <1>4, <1>5 DEF IInv

(* What the driver does with the answer of mm_malloc.                      *)
LEMMA RetMallocInv == ASSUME IInv, RetMalloc, UNCHANGED mmVars PROVE IInv'
<1>1. Returned("mm_malloc") /\ call' = NoCall /\ call.st = "returned"
  BY DEF RetMalloc, Returned
<1>2. \/ Reject
      \/ call.ret # NULL /\ Accept(ranges)
  BY DEF RetMalloc
<1> QED BY <1>1, <1>2, RejectInv, AcceptInv

(* What the driver does with the answer of mm_realloc.                     *)
LEMMA RetReallocInv == ASSUME IInv, RetRealloc, UNCHANGED mmVars PROVE IInv'
<1>1. Returned("mm_realloc") /\ call' = NoCall /\ call.st = "returned"
  BY DEF RetRealloc, Returned
<1>2. \/ Reject
      \/ call.ret # NULL /\ Accept(remove_range(ranges, call.ptr))
  BY DEF RetRealloc
<1> QED BY <1>1, <1>2, RejectInv, AcceptInv

(***************************************************************************)
(* The theorems.                                                           *)
(***************************************************************************)
(* The invariant is inductive.                                             *)
LEMMA NextIInv == ASSUME IInv, [Next]_vars PROVE IInv'
<1>1. CASE PackageStep
  BY <1>1, PackageInv
<1>2. CASE DriverStep /\ UNCHANGED mmVars
  BY <1>2, RetInitInv, RetMallocInv, RetReallocInv, RetFreeInv DEF DriverStep
<1>3. CASE DriverRequest /\ UNCHANGED mmVars
  BY <1>3, NextTraceInv, ReqMallocInv, ReqReallocInv, ReqFreeInv DEF DriverRequest
<1>4. CASE UNCHANGED vars
  <2>1. UNCHANGED <<mem, mem_brk, live, blocks, block_sizes, ranges, call, verdict>>
        /\ UNCHANGED <<heap_end, pc, size, cur, blks>>
    BY <1>4 DEF vars, memVars, driverVars, mmVars
  <2> QED BY <2>1 DEF IInv, TypeOK, DriverTypeOK, TraceInv, PayloadsDisjoint, Disjoint,
                      Usable, HeapInv, Tiled, HeldInBlocks, RequestInv, LocalInv, Fresh,
                      Holds, Addr, Bytes, Answered, Called, Returned, SizeOf, IsAlloc, NEXT
<1> QED BY <1>1, <1>2, <1>3, <1>4 DEF Next

(* Every reachable state satisfies the invariant.                          *)
THEOREM Invariance == Spec => []IInv
<1>1. Init => IInv
  BY InitIInv
<1>2. IInv /\ [Next]_vars => IInv'
  BY NextIInv
<1> QED BY <1>1, <1>2, PTL DEF Spec

(* Type correctness, whatever the trace: mem_sbrk never leaves the region. *)
THEOREM TypeCorrect == Spec => []TypeOK
<1>1. IInv => TypeOK
  BY DEF IInv
<1> QED BY <1>1, Invariance, PTL

(* mm_malloc and mm_realloc never hand out a byte twice: the payloads of a *)
(* trace are disjoint at every moment.                                     *)
THEOREM NoSharedByte == Spec => []PayloadsDisjoint
<1>1. IInv => PayloadsDisjoint
  BY DEF IInv
<1> QED BY <1>1, Invariance, PTL
=============================================================================
