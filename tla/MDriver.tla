------------------------------- MODULE MDriver ------------------------------
(***************************************************************************)
(* The client of the malloc package: eval_mm_valid of mdriver.c, which     *)
(* interprets a trace of malloc, realloc and free requests and checks every*)
(* answer.  A trace is any sequence of requests in which an identifier is  *)
(* allocated when it is not live and reallocated or freed when it is.      *)
(*                                                                         *)
(* The variable call is the interface to the package: the driver posts a   *)
(* call, a package module that EXTENDS this one answers it.                *)
(***************************************************************************)
EXTENDS MemLib, FiniteSets

CONSTANTS
  Ids,           \* indices of the trace (naturals, their low byte is the fill)
  Sizes,         \* sizes of the ALLOC requests
  ReallocSizes,  \* sizes of the REALLOC requests ({}: a trace without any)
  MoreTraces     \* the driver was given more traces than one

ASSUME TraceAssumption ==
  /\ Ids \subseteq Nat
  /\ Sizes \subseteq 1 .. (INT_MOD \div 2 - 1)  \* a positive int: traceop_t, add_range
  /\ ReallocSizes \subseteq 0 .. (INT_MOD \div 2 - 1)
  /\ MoreTraces \in BOOLEAN

VARIABLES
  live,         \* identifiers the trace holds at this point
  blocks,       \* trace->blocks
  block_sizes,  \* trace->block_sizes
  ranges,       \* payload extents on the range list
  call,         \* the call in progress
  verdict       \* "running", or "invalid" once eval_mm_valid returned 0

driverVars == <<live, blocks, block_sizes, ranges, call, verdict>>

ALIGNMENT == 8
IS_ALIGNED(p) == p % ALIGNMENT = 0

(* index & 0xFF.                                                           *)
LowByte(id) == id % 256

(* index & 0xFF in each byte of a double word.  Three of the eight copies  *)
(* are kept: read as a size or a pointer it lies far outside the region.   *)
Fill(id) == LowByte(id) * 65793

(* What a byte of memory is when eval_mm_valid reads it as newp[j]: a char *)
(* of the build (gcc on x86, without -funsigned-char) is signed.           *)
Char(byte) == IF byte < 128 THEN byte ELSE byte - 256

Calls == {"none", "mm_init", "mm_malloc", "mm_realloc", "mm_free"}
NoCall == [fn |-> "none", st |-> "none", id |-> 0, ptr |-> 0, size |-> 0, ret |-> 0]
Post(fn, id, ptr, size) ==
  call' = [fn |-> fn, st |-> "called", id |-> id, ptr |-> ptr, size |-> size, ret |-> 0]

Called(fn) == call.fn = fn /\ call.st = "called"
Returned(fn) == call.fn = fn /\ call.st = "returned"
ReadyForOp == call.st = "none" /\ verdict = "running"

(* main: mem_init, then eval_mm_valid starts with mem_reset_brk,           *)
(* clear_ranges and mm_init.                                               *)
DriverInit ==
  /\ live = {}
  /\ blocks = [i \in Ids |-> NULL]
  /\ block_sizes = [i \in Ids |-> 0]
  /\ ranges = {}
  /\ call = [fn |-> "mm_init", st |-> "called", id |-> 0, ptr |-> 0, size |-> 0, ret |-> 0]
  /\ verdict = "running"

(* The trace ends, or was rejected, and main evaluates the next one: the   *)
(* heap is emptied but its bytes stay, and mm_init runs again.             *)
NextTrace ==
  /\ MoreTraces /\ call.st = "none"
  /\ mem_reset_brk
  /\ verdict' = "running"
  /\ live' = {} /\ ranges' = {}
  /\ blocks' = [i \in Ids |-> NULL]
  /\ block_sizes' = [i \in Ids |-> 0]
  /\ Post("mm_init", 0, 0, 0)
  /\ UNCHANGED mem

RetInit ==
  /\ Returned("mm_init")
  /\ verdict' = IF call.ret < 0 THEN "invalid" ELSE verdict
  /\ call' = NoCall
  /\ UNCHANGED <<memVars, live, blocks, block_sizes, ranges>>

(***************************************************************************)
(* The range list.  The test of add_range is the one of the code.          *)
(***************************************************************************)
Extent(lo, size) == [lo |-> lo, hi |-> lo + size - 1]

Mut_Overlaps(lo, hi, p) == lo > p.hi /\ hi < p.lo
Overlaps(lo, hi, p) == \/ lo >= p.lo /\ lo <= p.hi
                       \/ hi >= p.lo /\ hi <= p.hi

Mut_add_range_ok(R, lo, size) ==   \* the last byte is not looked at
  LET hi == lo + size - 1 IN
  /\ IS_ALIGNED(lo)
  /\ lo >= mem_heap_lo /\ lo <= mem_heap_hi
  /\ \A p \in R : ~ Overlaps(lo, hi, p)
add_range_ok(R, lo, size) ==
  LET hi == lo + size - 1 IN
  /\ IS_ALIGNED(lo)
  /\ lo >= mem_heap_lo /\ lo <= mem_heap_hi
  /\ hi >= mem_heap_lo /\ hi <= mem_heap_hi
  /\ \A p \in R : ~ Overlaps(lo, hi, p)

Mut_remove_range(R, lo) == {p \in R : p.hi # lo}
remove_range(R, lo) == {p \in R : p.lo # lo}

(***************************************************************************)
(* ALLOC, REALLOC and FREE: the request, and what follows its answer.      *)
(***************************************************************************)
ReqMalloc(i, n) ==
  /\ ReadyForOp /\ i \notin live
  /\ Post("mm_malloc", i, NULL, n)
  /\ UNCHANGED <<memVars, live, blocks, block_sizes, ranges, verdict>>

ReqRealloc(i, n) ==
  /\ ReadyForOp /\ i \in live
  /\ Post("mm_realloc", i, blocks[i], n)
  /\ UNCHANGED <<memVars, live, blocks, block_sizes, ranges, verdict>>

ReqFree(i) ==
  /\ ReadyForOp /\ i \in live
  /\ ranges' = remove_range(ranges, blocks[i])
  /\ live' = live \ {i}
  /\ Post("mm_free", i, blocks[i], 0)
  /\ UNCHANGED <<memVars, blocks, block_sizes, verdict>>

(* malloc_error: eval_mm_valid returns 0.                                  *)
Reject == verdict' = "invalid" /\ UNCHANGED <<memVars, live, blocks, block_sizes>>

(* The payload is accepted, filled with the low byte of the index, and     *)
(* remembered.                                                             *)
Accept(R) ==
  /\ ranges' = R \union {Extent(call.ret, call.size)}
  /\ mem' = MemSet(mem, call.ret, Fill(call.id), call.size)
  /\ live' = live \union {call.id}
  /\ blocks' = [blocks EXCEPT ![call.id] = call.ret]
  /\ block_sizes' = [block_sizes EXCEPT ![call.id] = call.size]
  /\ UNCHANGED <<mem_brk, verdict>>

RetMalloc ==
  /\ Returned("mm_malloc") /\ call' = NoCall
  /\ IF call.ret = NULL \/ ~ add_range_ok(ranges, call.ret, call.size)
     THEN Reject /\ UNCHANGED ranges
     ELSE Accept(ranges)

(* The driver finds the old data, in the first min(old, new) bytes: every  *)
(* byte of them is the one memset wrote, and read as a char it is equal to *)
(* index & 0xFF.                                                           *)
DataKept ==
  LET old == block_sizes[call.id]
      kept == IF call.size < old THEN call.size ELSE old
  IN  \A a \in DOMAIN mem :
        call.ret <= a /\ a < call.ret + kept =>
          /\ mem[a] = Fill(call.id)
          /\ Char(LowByte(call.id)) = LowByte(call.id)

(* add_range asserts that the size is positive: a package that answers a    *)
(* block to realloc(p, 0) ends the program, so no step follows.            *)
RetRealloc ==
  /\ Returned("mm_realloc") /\ call' = NoCall
  /\ call.ret = NULL \/ call.size > 0
  /\ LET R == remove_range(ranges, call.ptr) IN
     IF call.ret = NULL
     THEN Reject /\ UNCHANGED ranges
     ELSE IF ~ add_range_ok(R, call.ret, call.size)
     THEN Reject /\ ranges' = R
     ELSE IF ~ DataKept
     THEN Reject /\ ranges' = R \union {Extent(call.ret, call.size)}
     ELSE Accept(R)

RetFree ==
  /\ Returned("mm_free") /\ call' = NoCall
  /\ UNCHANGED <<memVars, live, blocks, block_sizes, ranges, verdict>>

DriverStep ==
  \/ RetInit \/ RetMalloc \/ RetRealloc \/ RetFree

DriverRequest ==
  \/ NextTrace
  \/ \E i \in Ids : \/ \E n \in Sizes : ReqMalloc(i, n)
                    \/ \E n \in ReallocSizes : ReqRealloc(i, n)
                    \/ ReqFree(i)

(***************************************************************************)
(* What the driver is there to establish.                                  *)
(***************************************************************************)
DriverTypeOK ==
  /\ live \subseteq Ids
  /\ blocks \in [Ids -> Nat]
  /\ block_sizes \in [Ids -> Nat]
  /\ call \in [fn : Calls, st : {"none", "called", "returned"}, id : Nat,
               ptr : Nat, size : 0 .. (INT_MOD \div 2 - 1), ret : Int]
  /\ verdict \in {"running", "invalid"}

(* The heap is one that mm_init has set up for a trace still running.      *)
Usable ==
  /\ verdict = "running"
  /\ ~ Called("mm_init")
  /\ ~ (Returned("mm_init") /\ call.ret < 0)

(* What identifier i holds: the block the package just returned for it, if *)
(* the driver has not looked at the answer yet, else what blocks[i] says.  *)
Answered(i) ==
  /\ call.id = i /\ call.st = "returned"
  /\ call.fn \in {"mm_malloc", "mm_realloc"}
Holds(i) == IF Answered(i) THEN call.ret # NULL ELSE i \in live
Addr(i)  == IF Answered(i) THEN call.ret ELSE blocks[i]
Bytes(i) == IF Answered(i) THEN call.size ELSE block_sizes[i]

(* The driver gives up on an answer in three cases only: a failed mm_init, *)
(* a realloc to size 0, whose NULL it takes for a failure, and a realloc of*)
(* an index whose low byte is 128 or more, where newp[j] is negative and   *)
(* never equal to index & 0xFF (mdriver.c:656), whatever the package moved.*)
(* Of all other indices a refusal would mean that data was lost: none is.  *)
DriverAccepts ==
  [][verdict' = "invalid" =>
       \/ call.fn = "mm_realloc" /\ call.size = 0
       \/ call.fn = "mm_realloc" /\ LowByte(call.id) >= 128
       \/ call.fn = "mm_init" /\ call.ret < 0]_verdict

Disjoint(lo1, n1, lo2, n2) == lo1 + n1 <= lo2 \/ lo2 + n2 <= lo1

(* No two payloads the trace holds share a byte ("The payload must not     *)
(* overlap any other payloads", mdriver.c).  Stated over the addresses     *)
(* handed out, not over the range list the driver keeps.                   *)
PayloadsDisjoint ==
  \A i, j \in live : i # j =>
    Disjoint(blocks[i], block_sizes[i], blocks[j], block_sizes[j])

(***************************************************************************)
(* The contract of Allocator, of the payloads the package has handed out.  *)
(***************************************************************************)
NoObj == [lo |-> 0, n |-> 0, data |-> <<>>]
Object(i) ==
  IF verdict = "running" /\ ~ Called("mm_init") /\ Holds(i)
  THEN [lo |-> Addr(i), n |-> Bytes(i),
        data |-> [k \in 0 .. ((Bytes(i) - 1) \div 8) |->
                    LET a == Addr(i) + 8 * k IN IF a \in Words THEN mem[a] ELSE -1]]
  ELSE NoObj

Contract == INSTANCE Allocator WITH
  lo <- mem_start_brk, hi <- mem_max_addr,
  obj <- [i \in Ids |-> Object(i)]

(* Every behaviour of the package, seen through the payloads it has handed *)
(* out, is one of the contract.                                            *)
ImplementsContract == Contract!Spec
=============================================================================
