---------------------------- MODULE AnyAllocator ----------------------------
(***************************************************************************)
(* The driver of the malloc lab against a package it knows nothing about:  *)
(* mm.h fixes the signatures, and a submitted package may answer a request *)
(* with any address.  What the driver still accepts is what its checks     *)
(* really establish.                                                       *)
(***************************************************************************)
EXTENDS MDriver

CONSTANT
  Answers   \* the addresses the package may return, NULL among them

ASSUME AnswersAssumption == Answers \subseteq Nat /\ NULL \in Answers

vars == <<memVars, driverVars>>

Init == mem_init(0) /\ DriverInit

Answer(v) ==
  /\ call' = [call EXCEPT !.st = "returned", !.ret = v]
  /\ UNCHANGED <<live, blocks, block_sizes, ranges, verdict>>

(* A call may extend the heap.                                             *)
MaySbrk ==
  \/ UNCHANGED mem_brk
  \/ \E n \in {8, 16} : mem_sbrk(n)

mm_init ==
  /\ Called("mm_init")
  /\ \E v \in {-1, 0} : Answer(v)
  /\ MaySbrk /\ UNCHANGED mem

mm_malloc ==
  /\ Called("mm_malloc")
  /\ \E v \in Answers : Answer(v)
  /\ MaySbrk /\ UNCHANGED mem

(* The data is moved to the answered address, or it is not.                *)
mm_realloc ==
  /\ Called("mm_realloc")
  /\ \E v \in Answers :
       /\ Answer(v)
       /\ \/ UNCHANGED mem
          \/ IS_ALIGNED(v) /\ IS_ALIGNED(call.ptr)
             /\ v + call.size < mem_brk /\ call.ptr + call.size < mem_brk
             /\ mem' = MemMove(mem, v, call.ptr, call.size)
  /\ MaySbrk

mm_free ==
  /\ Called("mm_free")
  /\ Answer(0) /\ UNCHANGED memVars

Next ==
  \/ mm_init \/ mm_malloc \/ mm_realloc \/ mm_free
  \/ DriverStep \/ DriverRequest

Spec == Init /\ [][Next]_vars

(* Between two requests the range list holds the payload extents of the    *)
(* live identifiers and nothing else, whatever the package answered: no    *)
(* stale range makes the driver refuse a good answer, none is missing.     *)
RangesMatch ==
  ReadyForOp => ranges = {Extent(blocks[i], block_sizes[i]) : i \in live}

(* Every payload a running trace holds is aligned and lies in the heap     *)
(* (comments of add_range: it must be aligned, and within the extent of    *)
(* the heap).                                                              *)
PayloadsInHeap ==
  \A i \in live :
    /\ IS_ALIGNED(blocks[i])
    /\ mem_heap_lo <= blocks[i]
    /\ blocks[i] + block_sizes[i] - 1 <= mem_heap_hi
=============================================================================
