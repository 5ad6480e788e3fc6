--------------------------- MODULE Malloclab_proofs --------------------------
(***************************************************************************)
(* Proofs about Malloclab.  What the checks of eval_mm_valid establish of  *)
(* every package, for every trace, every size and every address it may     *)
(* answer.  What the counters of clock.c and the timers of ftimer.c        *)
(* measure, for every width of a word and every cost of an interrupt; and  *)
(* that the compensation of fcyc.c never takes off too little.             *)
(***************************************************************************)
EXTENDS Malloclab, TLAPS

(***************************************************************************)
(* eval_mm_valid with any package.                                         *)
(***************************************************************************)

(* What the driver knows of the call in progress when it looks at the      *)
(* answer: the request still fits the trace.                               *)
CallFits ==
  call.st # "none" =>
    /\ verdict = "running"
    /\ call.fn = "mm_init" => live = {} /\ ranges = {}
    /\ call.fn = "mm_malloc" => call.id \in Ids \ live /\ call.size \in Sizes
    /\ call.fn = "mm_realloc" =>
         /\ call.id \in live /\ call.size \in ReallocSizes
         /\ call.ptr = blocks[call.id]
    /\ call.st = "returned" /\ call.fn # "mm_init" => call.ret \in Nat

LiveSizes == \A i \in live : block_sizes[i] \in (Sizes \union ReallocSizes) \ {0}

(* RangesMatch holds during the calls as well.                             *)
RangesKept ==
  verdict = "running" => ranges = {Extent(blocks[i], block_sizes[i]) : i \in live}

Within(lo1, n1, lo2, n2) == lo2 < lo1 /\ lo1 + n1 < lo2 + n2

(* Two payloads share no byte, or one lies strictly inside the other: the  *)
(* one case the test of add_range lets through.                            *)
NestedOrDisjoint ==
  \A i, j \in live : i # j =>
    \/ Disjoint(blocks[i], block_sizes[i], blocks[j], block_sizes[j])
    \/ Within(blocks[i], block_sizes[i], blocks[j], block_sizes[j])
    \/ Within(blocks[j], block_sizes[j], blocks[i], block_sizes[i])

BrkOK == mem_brk \in mem_start_brk .. mem_max_addr

ValidInv ==
  /\ DriverTypeOK /\ BrkOK
  /\ CallFits
  /\ LiveSizes /\ RangesKept /\ NestedOrDisjoint
  /\ PayloadsInHeap

-----------------------------------------------------------------------------
(* mem_sbrk never moves the break down, nor out of the region.             *)
LEMMA SbrkStep ==
  ASSUME BrkOK, MaySbrk
  PROVE  BrkOK' /\ mem_brk <= mem_brk'
<1> USE MemAssumption DEF MemAssumption, BrkOK
<1>1. CASE UNCHANGED mem_brk
  BY <1>1 DEF mem_max_addr
<1>2. ASSUME NEW sz \in {8, 16}, mem_sbrk(sz) PROVE BrkOK' /\ mem_brk <= mem_brk'
  <2>1. sz % INT_MOD \in Int /\ INT_MOD \div 2 \in Int
    OBVIOUS
  <2>2. ToInt(sz) \in Int
    BY <2>1 DEF ToInt
  <2>3. ToInt(sz) >= 0 /\ mem_brk + ToInt(sz) <= mem_max_addr
    BY <1>2, <2>2 DEF mem_sbrk, SbrkFails, mem_max_addr
  <2> QED BY <1>2, <2>2, <2>3 DEF mem_sbrk, mem_max_addr
<1> QED BY <1>1, <1>2 DEF MaySbrk

(* What the payloads satisfy is kept while none is added, whatever the     *)
(* package does with the break.                                            *)
LEMMA PayloadFrame ==
  ASSUME ValidInv, MaySbrk, live' \subseteq live, UNCHANGED <<blocks, block_sizes>>
  PROVE  BrkOK' /\ LiveSizes' /\ NestedOrDisjoint' /\ PayloadsInHeap'
<1> USE DEF ValidInv
<1>1. BrkOK' /\ mem_brk <= mem_brk'
  BY SbrkStep
<1>2. LiveSizes' /\ NestedOrDisjoint'
  BY DEF LiveSizes, NestedOrDisjoint
<1>3. ASSUME NEW i \in live'
      PROVE  blocks[i] + block_sizes[i] - 1 <= mem_brk' - 1
  <2>1. i \in live /\ blocks[i] \in Nat /\ block_sizes[i] \in Nat
    BY DEF DriverTypeOK
  <2>2. blocks[i] + block_sizes[i] - 1 <= mem_brk - 1
    BY <2>1 DEF PayloadsInHeap, mem_heap_hi
  <2>3. mem_brk \in Int /\ mem_brk' \in Int
    BY <1>1, MemAssumption DEF BrkOK, MemAssumption, mem_max_addr
  <2> QED BY <1>1, <2>1, <2>2, <2>3
<1>4. PayloadsInHeap'
  BY <1>3 DEF PayloadsInHeap, mem_heap_lo, mem_heap_hi
<1> QED BY <1>1, <1>2, <1>4

(* The package answers: nothing of the trace changes.                      *)
LEMMA AnswerStep ==
  ASSUME ValidInv, call.st = "called", NEW v \in Int, Answer(v), MaySbrk,
         call.fn # "mm_init" => v \in Nat
  PROVE  ValidInv'
<1>1. DriverTypeOK /\ CallFits /\ RangesKept
  BY DEF ValidInv
<1>2. /\ UNCHANGED <<live, blocks, block_sizes, ranges, verdict>>
      /\ call' = [call EXCEPT !.st = "returned", !.ret = v]
  BY DEF Answer
<1>3. /\ call'.fn = call.fn /\ call'.id = call.id /\ call'.size = call.size
      /\ call'.ptr = call.ptr /\ call'.ret = v
  BY <1>1, <1>2 DEF DriverTypeOK
<1>4. DriverTypeOK'
  BY <1>1, <1>2 DEF DriverTypeOK
<1>5. CallFits'
  BY <1>1, <1>2, <1>3 DEF CallFits
<1>6. RangesKept'
  BY <1>1, <1>2 DEF RangesKept
<1> QED BY <1>2, <1>4, <1>5, <1>6, PayloadFrame DEF ValidInv

(* No action of a package, whatever it answers, breaks what the driver     *)
(* knows.                                                                  *)
LEMMA PackageStep ==
  ASSUME ValidInv, mm_init \/ mm_malloc \/ mm_realloc \/ mm_free
  PROVE  ValidInv'
<1> USE AnswersAssumption DEF AnswersAssumption
<1>1. CASE mm_init
  <2>1. PICK v \in {-1, 0} : Answer(v)
    BY <1>1 DEF mm_init
  <2> QED BY <1>1, <2>1, AnswerStep DEF mm_init, Called
<1>2. CASE mm_malloc
  BY <1>2, AnswerStep DEF mm_malloc, Called
<1>3. CASE mm_realloc
  BY <1>3, AnswerStep DEF mm_realloc, Called
<1>4. CASE mm_free
  BY <1>4, AnswerStep DEF mm_free, Called, MaySbrk, memVars
<1> QED BY <1>1, <1>2, <1>3, <1>4

-----------------------------------------------------------------------------
(* Two payloads that hold begin at different addresses: the range that     *)
(* remove_range takes off is the one of the block it is given.             *)
LEMMA OneRangeEach ==
  ASSUME ValidInv, NEW i \in live, NEW j \in live, blocks[i] = blocks[j]
  PROVE  i = j
<1>1. /\ blocks[i] \in Nat /\ blocks[j] \in Nat
      /\ block_sizes[i] \in Nat \ {0} /\ block_sizes[j] \in Nat \ {0}
  BY DEF ValidInv, DriverTypeOK, LiveSizes
<1>2. ASSUME i # j PROVE FALSE
  <2>1. \/ Disjoint(blocks[i], block_sizes[i], blocks[j], block_sizes[j])
        \/ Within(blocks[i], block_sizes[i], blocks[j], block_sizes[j])
        \/ Within(blocks[j], block_sizes[j], blocks[i], block_sizes[i])
    BY <1>2 DEF ValidInv, NestedOrDisjoint
  <2> QED BY <1>1, <2>1 DEF Disjoint, Within
<1> QED BY <1>2

LEMMA RemoveRange ==
  ASSUME ValidInv, verdict = "running", NEW i \in live
  PROVE  remove_range(ranges, blocks[i])
           = {Extent(blocks[j], block_sizes[j]) : j \in live \ {i}}
<1>1. ranges = {Extent(blocks[j], block_sizes[j]) : j \in live}
  BY DEF ValidInv, RangesKept
<1>2. \A j \in live : Extent(blocks[j], block_sizes[j]).lo = blocks[j]
  BY DEF Extent
<1>3. \A j \in live : blocks[j] = blocks[i] <=> j = i
  BY OneRangeEach
<1> QED BY <1>1, <1>2, <1>3 DEF remove_range

(* What add_range lets through, the two ends of the new payload being      *)
(* outside the old one, does not partly overlap it.                        *)
LEMMA EndsOutside ==
  ASSUME NEW a \in Int, NEW m \in Nat \ {0}, NEW b \in Int, NEW sz \in Nat \ {0},
         ~ Overlaps(a, a + m - 1, Extent(b, sz))
  PROVE  Disjoint(a, m, b, sz) \/ Within(b, sz, a, m)
BY DEF Overlaps, Extent, Disjoint, Within

(* The driver accepts an answer, the ranges of the others being R.         *)
LEMMA AcceptStep ==
  ASSUME ValidInv, call.st = "returned", call.fn # "mm_init", call' = NoCall,
         call.id \in Ids, call.size \in (Sizes \union ReallocSizes) \ {0},
         NEW R, R = {Extent(blocks[j], block_sizes[j]) : j \in live \ {call.id}},
         add_range_ok(R, call.ret, call.size), Accept(R)
  PROVE  ValidInv'
<1> DEFINE k == call.id
<1>1. DriverTypeOK /\ CallFits /\ BrkOK /\ verdict = "running"
  BY DEF ValidInv, CallFits
<1>2. call.ret \in Nat /\ call.size \in Nat \ {0} /\ k \in Ids
  BY <1>1 DEF CallFits, DriverTypeOK
<1>3. /\ ranges' = R \union {Extent(call.ret, call.size)}
      /\ live' = live \union {k}
      /\ blocks' = [blocks EXCEPT ![k] = call.ret]
      /\ block_sizes' = [block_sizes EXCEPT ![k] = call.size]
      /\ UNCHANGED <<mem_brk, verdict>>
  BY DEF Accept
<1>4. /\ blocks'[k] = call.ret /\ block_sizes'[k] = call.size
      /\ \A j \in live \ {k} : j \in Ids /\ blocks'[j] = blocks[j] /\ block_sizes'[j] = block_sizes[j]
  BY <1>1, <1>2, <1>3 DEF DriverTypeOK
<1>5. DriverTypeOK'
  BY <1>1, <1>2, <1>3, MemAssumption DEF DriverTypeOK, NoCall, Calls, MemAssumption
<1>6. BrkOK' /\ CallFits'
  BY <1>1, <1>3 DEF BrkOK, CallFits, NoCall, mem_max_addr
<1>7. LiveSizes'
  BY <1>3, <1>4 DEF ValidInv, LiveSizes
<1>8. RangesKept'
  BY <1>3, <1>4 DEF RangesKept
<1>9. PayloadsInHeap'
  <2>1. IS_ALIGNED(call.ret) /\ mem_heap_lo <= call.ret /\ call.ret + call.size - 1 <= mem_heap_hi
    BY <1>1, <1>2, MemAssumption
       DEF add_range_ok, mem_heap_lo, mem_heap_hi, BrkOK, mem_max_addr, MemAssumption
  <2>2. mem_heap_lo' = mem_heap_lo /\ mem_heap_hi' = mem_heap_hi
    BY <1>3 DEF mem_heap_lo, mem_heap_hi
  <2> QED BY <1>3, <1>4, <2>1, <2>2 DEF ValidInv, PayloadsInHeap, IS_ALIGNED
<1>10. NestedOrDisjoint'
  <2> DEFINE Fits(i, j) ==
        \/ Disjoint(blocks'[i], block_sizes'[i], blocks'[j], block_sizes'[j])
        \/ Within(blocks'[i], block_sizes'[i], blocks'[j], block_sizes'[j])
        \/ Within(blocks'[j], block_sizes'[j], blocks'[i], block_sizes'[i])
  <2>1. ASSUME NEW i \in live \ {k}, NEW j \in live \ {k}, i # j PROVE Fits(i, j)
    BY <1>4, <2>1 DEF ValidInv, NestedOrDisjoint
  <2>2. ASSUME NEW j \in live \ {k} PROVE Fits(k, j) /\ Fits(j, k)
    <3>1. blocks[j] \in Nat /\ block_sizes[j] \in Nat \ {0}
      BY <1>1 DEF ValidInv, LiveSizes, DriverTypeOK
    <3>2. ~ Overlaps(call.ret, call.ret + call.size - 1, Extent(blocks[j], block_sizes[j]))
      BY DEF add_range_ok
    <3>3. \/ Disjoint(call.ret, call.size, blocks[j], block_sizes[j])
          \/ Within(blocks[j], block_sizes[j], call.ret, call.size)
      BY <1>2, <3>1, <3>2, EndsOutside
    <3> QED BY <1>4, <3>3 DEF Disjoint
  <2>3. \A i, j \in live' : i # j => Fits(i, j)
    BY <1>3, <2>1, <2>2
  <2> QED BY <2>3 DEF NestedOrDisjoint
<1> QED BY <1>5, <1>6, <1>7, <1>8, <1>9, <1>10 DEF ValidInv

(* The driver gives up: the trace stays as it was.                         *)
LEMMA RejectStep ==
  ASSUME ValidInv, Reject, call' = NoCall
  PROVE  ValidInv'
<1>1. UNCHANGED <<mem_brk, live, blocks, block_sizes>> /\ verdict' = "invalid"
  BY DEF Reject, memVars
<1>2. DriverTypeOK'
  BY <1>1, MemAssumption DEF ValidInv, DriverTypeOK, NoCall, Calls, MemAssumption
<1>3. CallFits' /\ RangesKept'
  BY <1>1 DEF CallFits, NoCall, RangesKept
<1> QED BY <1>1, <1>2, <1>3, PayloadFrame DEF ValidInv, MaySbrk

LEMMA RetMallocStep == ASSUME ValidInv, RetMalloc PROVE ValidInv'
<1>1. /\ call.fn = "mm_malloc" /\ call.st = "returned" /\ call' = NoCall
      /\ call.id \in Ids \ live /\ call.size \in Sizes \ {0} /\ verdict = "running"
  BY TraceAssumption DEF RetMalloc, Returned, ValidInv, CallFits, TraceAssumption
<1>2. CASE call.ret = NULL \/ ~ add_range_ok(ranges, call.ret, call.size)
  BY <1>1, <1>2, RejectStep DEF RetMalloc
<1>3. CASE ~ (call.ret = NULL \/ ~ add_range_ok(ranges, call.ret, call.size))
  <2>1. ranges = {Extent(blocks[j], block_sizes[j]) : j \in live \ {call.id}}
    BY <1>1 DEF ValidInv, RangesKept
  <2>2. Accept(ranges) /\ add_range_ok(ranges, call.ret, call.size)
    BY <1>3 DEF RetMalloc
  <2> QED BY <1>1, <2>1, <2>2, AcceptStep
<1> QED BY <1>2, <1>3

LEMMA RetReallocStep == ASSUME ValidInv, RetRealloc PROVE ValidInv'
<1> DEFINE R == remove_range(ranges, call.ptr)
<1>1. /\ call.fn = "mm_realloc" /\ call.st = "returned" /\ call' = NoCall
      /\ call.id \in live /\ call.ptr = blocks[call.id] /\ verdict = "running"
      /\ call.id \in Ids /\ call.size \in ReallocSizes
  BY DEF RetRealloc, Returned, ValidInv, CallFits, DriverTypeOK
<1>2. CASE Reject
  BY <1>1, <1>2, RejectStep
<1>3. CASE ~ Reject
  <2>1. call.ret # NULL /\ add_range_ok(R, call.ret, call.size) /\ Accept(R)
    BY <1>3 DEF RetRealloc
  <2>2. call.size \in (Sizes \union ReallocSizes) \ {0}
    BY <1>1, <2>1, TraceAssumption DEF RetRealloc, TraceAssumption
  <2>3. R = {Extent(blocks[j], block_sizes[j]) : j \in live \ {call.id}}
    BY <1>1, RemoveRange
  <2> QED BY <1>1, <2>1, <2>2, <2>3, AcceptStep
<1> QED BY <1>2, <1>3

-----------------------------------------------------------------------------
(* The requests, and the returns that nothing follows.                     *)
LEMMA RequestStep ==
  ASSUME ValidInv, NEW i \in Ids,
         \/ \E sz \in Sizes : ReqMalloc(i, sz)
         \/ \E sz \in ReallocSizes : ReqRealloc(i, sz)
         \/ ReqFree(i)
  PROVE  ValidInv'
<1> USE TraceAssumption, MemAssumption DEF TraceAssumption, MemAssumption
<1>1. DriverTypeOK /\ RangesKept /\ verdict = "running"
  BY DEF ValidInv, ReqMalloc, ReqRealloc, ReqFree, ReadyForOp
<1>2. ASSUME NEW sz \in Sizes, ReqMalloc(i, sz) PROVE ValidInv'
  <2>1. DriverTypeOK' /\ CallFits' /\ RangesKept'
    BY <1>1, <1>2 DEF ReqMalloc, Post, DriverTypeOK, Calls, NULL, CallFits, RangesKept, memVars
  <2> QED BY <1>2, <2>1, PayloadFrame DEF ReqMalloc, memVars, MaySbrk, ValidInv
<1>3. ASSUME NEW sz \in ReallocSizes, ReqRealloc(i, sz) PROVE ValidInv'
  <2>1. DriverTypeOK' /\ CallFits' /\ RangesKept'
    BY <1>1, <1>3 DEF ReqRealloc, Post, DriverTypeOK, Calls, NULL, CallFits, RangesKept, memVars
  <2> QED BY <1>3, <2>1, PayloadFrame DEF ReqRealloc, memVars, MaySbrk, ValidInv
<1>4. CASE ReqFree(i)
  <2>1. /\ live' = live \ {i} /\ i \in live
        /\ UNCHANGED <<mem_brk, blocks, block_sizes, verdict>>
        /\ ranges' = remove_range(ranges, blocks[i])
        /\ call'.fn = "mm_free" /\ call'.st = "called"
    BY <1>4 DEF ReqFree, Post, memVars
  <2>2. DriverTypeOK'
    BY <1>1, <1>4, <2>1 DEF ReqFree, Post, DriverTypeOK, Calls
  <2>3. CallFits'
    BY <1>1, <2>1 DEF CallFits
  <2>4. RangesKept'
    BY <1>1, <2>1, RemoveRange DEF RangesKept
  <2> QED BY <2>1, <2>2, <2>3, <2>4, PayloadFrame DEF MaySbrk, ValidInv
<1> QED BY <1>2, <1>3, <1>4

LEMMA PlainReturnStep == ASSUME ValidInv, RetInit \/ RetFree PROVE ValidInv'
<1>1. /\ UNCHANGED <<mem_brk, live, blocks, block_sizes, ranges>> /\ call' = NoCall
      /\ verdict' \in {verdict, "invalid"}
  BY DEF RetInit, RetFree, memVars
<1>2. DriverTypeOK'
  BY <1>1, MemAssumption DEF ValidInv, DriverTypeOK, NoCall, Calls, MemAssumption
<1>3. CallFits' /\ RangesKept'
  BY <1>1 DEF ValidInv, CallFits, NoCall, RangesKept
<1> QED BY <1>1, <1>2, <1>3, PayloadFrame DEF ValidInv, MaySbrk

(* A trace starts with no payload and an empty heap, the first one or a    *)
(* later one.                                                              *)
LEMMA EmptyTrace ==
  ASSUME live = {}, ranges = {}, DriverTypeOK, verdict = "running",
         mem_brk = mem_start_brk, call.fn = "mm_init"
  PROVE  ValidInv
<1>1. BrkOK
  BY MemAssumption DEF BrkOK, MemAssumption, mem_max_addr
<1>2. CallFits
  BY DEF CallFits
<1> QED BY <1>1, <1>2 DEF ValidInv, LiveSizes, RangesKept, NestedOrDisjoint, PayloadsInHeap

LEMMA InitValid == Init => ValidInv
<1> SUFFICES ASSUME Init PROVE ValidInv
  OBVIOUS
<1>1. DriverTypeOK
  BY MemAssumption DEF Init, DriverInit, DriverTypeOK, Calls, NULL, MemAssumption
<1> QED BY <1>1, EmptyTrace DEF Init, DriverInit, mem_init

LEMMA NextTraceStep == ASSUME ValidInv, NextTrace PROVE ValidInv'
<1>1. /\ live' = {} /\ ranges' = {} /\ verdict' = "running"
      /\ mem_brk' = mem_start_brk /\ call'.fn = "mm_init"
  BY DEF NextTrace, Post, mem_reset_brk
<1>2. DriverTypeOK'
  BY <1>1, MemAssumption DEF NextTrace, Post, DriverTypeOK, Calls, NULL, MemAssumption
<1>3. BrkOK'
  BY <1>1, MemAssumption DEF BrkOK, MemAssumption, mem_max_addr
<1>4. CallFits'
  BY <1>1 DEF CallFits
<1> QED BY <1>1, <1>2, <1>3, <1>4
        DEF ValidInv, LiveSizes, RangesKept, NestedOrDisjoint, PayloadsInHeap

LEMMA NextValid == ValidInv /\ [Next]_vars => ValidInv'
<1> SUFFICES ASSUME ValidInv, [Next]_vars PROVE ValidInv'
  OBVIOUS
<1>1. CASE UNCHANGED vars
  BY <1>1 DEF vars, memVars, driverVars, ValidInv, DriverTypeOK, BrkOK, CallFits, LiveSizes,
     RangesKept, NestedOrDisjoint, PayloadsInHeap, mem_heap_lo, mem_heap_hi
<1>2. CASE mm_init \/ mm_malloc \/ mm_realloc \/ mm_free
  BY <1>2, PackageStep
<1>3. CASE DriverStep
  BY <1>3, RetMallocStep, RetReallocStep, PlainReturnStep DEF DriverStep
<1>4. CASE DriverRequest
  BY <1>4, RequestStep, NextTraceStep DEF DriverRequest
<1> QED BY <1>1, <1>2, <1>3, <1>4 DEF Next

-----------------------------------------------------------------------------
(* What the other part of mdriver does changes nothing here.               *)
LEMMA ValidPart == LabSpec => Init /\ [][Next]_vars
<1>1. LabInit => Init
  BY DEF LabInit
<1>2. [LabNext]_labVars => [Next]_vars
  BY DEF LabNext, ValidStep, SpeedStep, Interrupt, labVars
<1> QED BY <1>1, <1>2, PTL DEF LabSpec

(* Whatever the package answers, the range list follows the live payloads, *)
(* and what add_range has let through stays as it was.                     *)
LEMMA ValidInvariance == LabSpec => []ValidInv
BY ValidPart, InitValid, NextValid, PTL

(* Between two requests the range list of eval_mm_valid holds the payloads *)
(* of the live identifiers and nothing else: every remove_range takes off  *)
(* the range of the block it is given, and only that one.                  *)
THEOREM RangeListExact == LabSpec => []RangesMatch
<1>1. ValidInv => RangesMatch
  BY DEF ValidInv, RangesKept, RangesMatch, ReadyForOp
<1> QED BY <1>1, ValidInvariance, PTL

(* Every payload that add_range has let through is aligned and stays in    *)
(* the heap, while the package may extend it at any call.                  *)
THEOREM InHeap == LabSpec => []PayloadsInHeap
<1>1. ValidInv => PayloadsInHeap
  BY DEF ValidInv
<1> QED BY <1>1, ValidInvariance, PTL

(* All that add_range lets through, against its comment (The payload must  *)
(* not overlap any other payloads): a payload that has another one         *)
(* strictly inside.                                                        *)
THEOREM NothingElsePasses == LabSpec => []NestedOrDisjoint
<1>1. ValidInv => NestedOrDisjoint
  BY DEF ValidInv
<1> QED BY <1>1, ValidInvariance, PTL

(* So a trace that asks for one size only is checked as the comment says.  *)
THEOREM OneSizeDisjoint ==
  ASSUME NEW one \in Nat, Sizes \union ReallocSizes \subseteq {0, one}
  PROVE  LabSpec => []PayloadsDisjoint
<1>1. ValidInv => PayloadsDisjoint
  <2> SUFFICES ASSUME ValidInv, NEW i \in live, NEW j \in live, i # j
               PROVE  Disjoint(blocks[i], block_sizes[i], blocks[j], block_sizes[j])
    BY DEF PayloadsDisjoint
  <2>1. block_sizes[i] = one /\ block_sizes[j] = one
    BY DEF ValidInv, LiveSizes
  <2>2. blocks[i] \in Nat /\ blocks[j] \in Nat
    BY DEF ValidInv, DriverTypeOK
  <2> QED BY <2>1, <2>2 DEF ValidInv, NestedOrDisjoint, Within, Disjoint
<1> QED BY <1>1, ValidInvariance, PTL

(***************************************************************************)
(* The measurement.                                                        *)
(***************************************************************************)

Wide == Word * Word

TypeOK ==
  /\ method \in {"fcyc", "itimer", "gettod"} /\ alpha \in BOOLEAN /\ quiet \in BOOLEAN
  /\ cost \in Costs \union {0} /\ own \in Durations \union {0}
  /\ {clock, spent, tms_utime, gap, e, cyc_per_tick, time, n} \subseteq Nat
  /\ start \in [hi : Nat, lo : Nat]

(* While f is measured the counter has advanced by the time spent, around  *)
(* its two words.                                                          *)
CounterInv ==
  at \in {"f", "get_counter"} =>
    \E c \in 0 .. Wide - 1 : start = access_counter(c) /\ clock = (c + spent) % Wide

(* Every interrupt since the counter was started is a tick that is taken   *)
(* off, and at most two fit in.                                            *)
SpentInv ==
  /\ at = "f" =>
       /\ spent <= cost * tms_utime
       /\ spent <= cost /\ (quiet => spent = 0)
  /\ at = "get_counter" =>
       /\ spent <= own + cost * tms_utime
       /\ spent <= own + 2 * cost /\ (quiet => spent <= own + cost)
  /\ at = "times" /\ ~ alpha => time <= own + cost * tms_utime

(* A difference of two readings that no interrupt has made.                *)
Short(t) == t <= THRESHOLD \/ t <= 1

(* callibrate: the ticks counted are in the time they are divided into,    *)
(* but perhaps the last one; then the time is short or holds the one       *)
(* before the first.                                                       *)
CalInv ==
  /\ at \in {"fsecs", "sample", "start_comp_counter"} => gap = 0 /\ tms_utime = 0
  /\ at = "newt" =>
       /\ gap >= cost * tms_utime
       /\ quiet => Short(gap + 1) \/ gap >= cost * tms_utime + cost
  /\ at = "newc" =>
       /\ Short(time) \/ time >= cost * tms_utime
       /\ quiet => gap = 0 /\ (Short(time) \/ time >= cost * tms_utime + cost)
       /\ quiet => time >= cost * tms_utime
       /\ gap \in {0, cost}
  /\ cyc_per_tick # 0 => cyc_per_tick >= cost

TimerInv ==
  method # "fcyc" =>
    /\ at \in {"fsecs", "ftimer", "runs", "done", "killed"}
    /\ at \in {"fsecs", "ftimer"} => spent = 0
    /\ at = "runs" /\ method = "gettod" =>
         \E t \in 0 .. Second - 1 : start = Reading(t) /\ clock = t + spent
    /\ at = "runs" /\ method = "itimer" =>
         start = Reading(MAX_ETIME * Second) /\ clock + spent = MAX_ETIME * Second
    /\ at = "done" => result = spent

TimeInv == TypeOK /\ CounterInv /\ SpentInv /\ CalInv /\ TimerInv

-----------------------------------------------------------------------------
(* Two words.                                                              *)
LEMMA Division ==
  ASSUME NEW W \in Nat \ {0}, NEW x \in Int
  PROVE  /\ x \div W \in Int /\ x % W \in 0 .. W - 1
         /\ x = (x \div W) * W + (x % W)
OBVIOUS

LEMMA HighWord ==
  ASSUME NEW W \in Nat \ {0}, NEW y \in Int, NEW lo \in 0 .. W - 1,
         0 <= y * W + lo, y * W + lo < W * W
  PROVE  y \in 0 .. W - 1
OBVIOUS

LEMMA Residue ==
  ASSUME NEW W \in Nat \ {0}, NEW x \in Int, NEW q \in Int, q * W + x \in 0 .. W - 1
  PROVE  x % W = q * W + x
<1>1. /\ x \div W \in Int /\ x % W \in 0 .. W - 1
      /\ x = (x \div W) * W + (x % W)
  BY Division
<1> DEFINE d == q + (x \div W)
<1>2. d \in Int /\ d * W = (q * W + x) - (x % W)
  BY <1>1
<1>3. d * W < W /\ - W < d * W
  BY <1>1, <1>2
<1>4. d = 0
  <2>1. d >= 1 => d * W >= W
    BY <1>2
  <2>2. d <= -1 => d * W <= - W
    BY <1>2
  <2> QED BY <1>2, <1>3, <2>1, <2>2
<1> QED BY <1>1, <1>2, <1>4

(* The low word of a difference borrows when it comes out larger.          *)
LEMMA LowDifference ==
  ASSUME NEW W \in Nat \ {0}, NEW l0 \in 0 .. W - 1, NEW l1 \in 0 .. W - 1
  PROVE  \E b \in {0, 1} :
           /\ (l1 - l0) % W = (l1 - l0) + b * W
           /\ b = (IF (l1 - l0) % W > l1 THEN 1 ELSE 0)
           /\ (l1 - l0) % W \in 0 .. W - 1
<1>1. CASE l1 >= l0
  <2>1. 0 * W + (l1 - l0) \in 0 .. W - 1
    BY <1>1
  <2>2. (l1 - l0) % W = 0 * W + (l1 - l0)
    BY <2>1, Residue
  <2> QED BY <1>1, <2>2
<1>2. CASE l1 < l0
  <2>1. 1 * W + (l1 - l0) \in 0 .. W - 1
    BY <1>2
  <2>2. (l1 - l0) % W = 1 * W + (l1 - l0)
    BY <2>1, Residue
  <2> QED BY <1>2, <2>1, <2>2
<1> QED BY <1>1, <1>2

(* The two words of a number below W * W.                                  *)
LEMMA Words2 ==
  ASSUME NEW W \in Nat \ {0}, NEW c \in Int
  PROVE  \E h \in Int, l \in 0 .. W - 1 : h = c \div W /\ l = c % W /\ c = h * W + l
BY Division

(* A counter that stood at c and has gone on by s reads, word by word and  *)
(* with the borrow, as s.                                                  *)
LEMMA Borrow ==
  ASSUME NEW W \in Nat \ {0}, NEW c \in Nat, NEW s \in Nat, s < W * W
  PROVE  LET k == (c + s) % (W * W)
             lo == ((k % W) - (c % W)) % W
             b == IF lo > k % W THEN 1 ELSE 0
         IN  (((k \div W) - (c \div W) - b) % W) * W + lo = s
<1>1. PICK k : k = (c + s) % (W * W)
  OBVIOUS
<1>2. \E q \in Int : k \in Int /\ c + s = q * (W * W) + k
  <2>1. PICK M \in Nat \ {0}, x \in Int : M = W * W /\ x = c + s
    OBVIOUS
  <2>2. x \div M \in Int /\ x % M \in Int /\ x = (x \div M) * M + (x % M)
    BY Division
  <2>3. k = x % M
    BY <1>1, <2>1
  <2>4. x \div M \in Int /\ k \in Int /\ c + s = (x \div M) * (W * W) + k
    BY <2>1, <2>2, <2>3
  <2> QED BY <2>4
<1>3. PICK q \in Int : k \in Int /\ c + s = q * (W * W) + k
  BY <1>2
<1>4. PICK h1 \in Int, l1 \in 0 .. W - 1 : h1 = k \div W /\ l1 = k % W /\ k = h1 * W + l1
  BY <1>3, Words2
<1>5. PICK h0 \in Int, l0 \in 0 .. W - 1 : h0 = c \div W /\ l0 = c % W /\ c = h0 * W + l0
  BY Words2
<1>6. PICK b \in {0, 1} :
        /\ (l1 - l0) % W = (l1 - l0) + b * W
        /\ b = (IF (l1 - l0) % W > l1 THEN 1 ELSE 0)
        /\ (l1 - l0) % W \in 0 .. W - 1
  BY LowDifference
<1>7. PICK lo \in 0 .. W - 1 : lo = (l1 - l0) % W
  BY <1>6
<1>8. lo = (l1 - l0) + b * W
  BY <1>6, <1>7
<1>9. PICK x \in Int : x = h1 - h0 - b
  OBVIOUS
<1>13. PICK y \in Int : y = q * W + x
  OBVIOUS
<1>10. (x % W) * W + lo = s
  <2>1. k = h1 * W + l1 /\ c = h0 * W + l0 /\ c + s = q * (W * W) + k
    BY <1>3, <1>4, <1>5
  <2>2. s = q * (W * W) + (h1 * W) + l1 - (h0 * W) - l0
    BY <2>1, <1>3
  <2>3. s = y * W + lo
    <3>1. x * W = (h1 * W) - (h0 * W) - (b * W)
      BY <1>9
    <3>2. y * W = q * (W * W) + (x * W)
      BY <1>13
    <3> QED BY <1>8, <2>2, <3>1, <3>2
  <2>4. 0 <= y * W + lo /\ y * W + lo < W * W
    BY <2>3
  <2>5. y \in 0 .. W - 1
    BY <2>4, HighWord
  <2>6. q * W + x \in 0 .. W - 1
    BY <1>13, <2>5
  <2>7. x % W = y
    BY <1>13, <2>6, Residue
  <2> QED BY <2>3, <2>7
<1>11. lo = ((k % W) - (c % W)) % W /\ b = (IF lo > k % W THEN 1 ELSE 0)
  BY <1>4, <1>5, <1>6, <1>7
<1>12. (((k \div W) - (c \div W) - b) % W) * W + lo = s
  BY <1>4, <1>5, <1>9, <1>10
<1> QED BY <1>1, <1>11, <1>12

(* The counter of an Alpha, which has the low word only.                   *)
LEMMA LowWord ==
  ASSUME NEW W \in Nat \ {0}, NEW c \in 0 .. W * W - 1, NEW s \in Nat, (c % W) + s < W
  PROVE  ((c + s) % (W * W)) % W = (c % W) + s
<1>1. PICK h \in Int, l \in 0 .. W - 1 : h = c \div W /\ l = c % W /\ c = h * W + l
  BY Words2
<1>2. l + s \in 0 .. W - 1
  BY <1>1
<1>3. h \in 0 .. W - 1
  <2>1. 0 <= h * W + l /\ h * W + l < W * W
    BY <1>1
  <2> QED BY <2>1, HighWord
<1>4. h * W + (l + s) \in 0 .. W * W - 1
  <2>1. h * W <= (W - 1) * W
    BY <1>3
  <2>2. h * W <= W * W - W /\ 0 <= h * W
    BY <1>3, <2>1
  <2> QED BY <1>2, <2>2
<1>5. (c + s) % (W * W) = h * W + (l + s)
  <2>1. W * W \in Nat \ {0} /\ c + s \in Int /\ c + s = h * W + (l + s)
    BY <1>1
  <2>2. 0 * (W * W) + (c + s) \in 0 .. W * W - 1
    BY <1>4, <2>1
  <2>3. (c + s) % (W * W) = 0 * (W * W) + (c + s)
    BY <2>1, <2>2, Residue
  <2> QED BY <2>1, <2>3
<1>6. (h * W + (l + s)) % W = (- h) * W + (h * W + (l + s))
  <2>1. (- h) * W + (h * W + (l + s)) = l + s
    BY <1>1, <1>2
  <2>2. h * W + (l + s) \in Int /\ - h \in Int
    BY <1>1, <1>2
  <2> QED BY <1>2, <2>1, <2>2, Residue
<1>7. (- h) * W + (h * W + (l + s)) = l + s
  BY <1>1, <1>2
<1> QED BY <1>1, <1>5, <1>6, <1>7

(* A reading of a timer loses nothing.                                     *)
LEMMA Readings ==
  ASSUME NEW t \in Nat, NEW u \in Nat, Second \in Nat \ {0}
  PROVE  Elapsed(Reading(t), Reading(u)) = u - t
<1>1. /\ t \div Second \in Int /\ t % Second \in Int
      /\ t = (t \div Second) * Second + (t % Second)
  BY Division
<1>2. /\ u \div Second \in Int /\ u % Second \in Int
      /\ u = (u \div Second) * Second + (u % Second)
  BY Division
<1> QED BY <1>1, <1>2 DEF Elapsed, Reading

(* An integer division that is at least c, and at most its dividend.       *)
LEMMA Quotient ==
  ASSUME NEW a \in Nat, NEW b \in Nat \ {0}
  PROVE  /\ a \div b \in Nat /\ a \div b <= a
         /\ \A c \in Nat : a >= c * b => a \div b >= c
<1>1. PICK d \in Int, r \in 0 .. b - 1 : d = a \div b /\ a = d * b + r
  BY Division
<1>2. d >= 0
  <2>1. d <= -1 => d * b <= - b
    BY <1>1
  <2> QED BY <1>1, <2>1
<1>3. d <= d * b
  BY <1>1, <1>2
<1>4. ASSUME NEW c \in Nat, a >= c * b PROVE d >= c
  <2>1. ASSUME d < c PROVE FALSE
    <3>1. (d + 1) * b <= c * b
      BY <1>1, <2>1
    <3>2. d * b + b <= c * b
      BY <1>1, <3>1
    <3> QED BY <1>1, <1>4, <3>2
  <2> QED BY <1>1, <2>1
<1> QED BY <1>1, <1>2, <1>3, <1>4

(* Residues of a sum.                                                      *)
LEMMA SumResidue ==
  ASSUME NEW M \in Nat \ {0}, NEW a \in Int, NEW b \in Int
  PROVE  ((a % M) + b) % M = (a + b) % M
<1>1. PICK q \in Int, l \in 0 .. M - 1 : l = a % M /\ a = q * M + l
  BY Words2
<1>2. PICK x \in Int : x = a + b
  OBVIOUS
<1>3. PICK p \in Int, r \in 0 .. M - 1 : r = x % M /\ x = p * M + r
  BY Words2
<1>4. PICK y \in Int, d \in Int : y = l + b /\ d = q - p
  OBVIOUS
<1>5. d * M + y = r
  <2>1. d * M = (q * M) - (p * M)
    BY <1>4
  <2>2. PICK u \in Int, v \in Int : u = q * M /\ v = p * M
    OBVIOUS
  <2>3. a = u + l /\ a + b = v + r /\ y = l + b /\ d * M = u - v
    BY <1>1, <1>2, <1>3, <1>4, <2>1, <2>2
  <2> QED BY <2>3
<1>6. y % M = d * M + y
  BY <1>5, Residue
<1> QED BY <1>1, <1>2, <1>3, <1>4, <1>5, <1>6

-----------------------------------------------------------------------------
LEMMA Constants ==
  /\ Word \in Nat \ {0} /\ Wide \in Nat \ {0} /\ Second \in Nat \ {0} /\ MAX_ETIME \in Nat
  /\ THRESHOLD \in Nat /\ RECORDTHRESH \in Nat
  /\ Costs \subseteq Nat /\ Durations \subseteq Nat
<1>1. /\ Word \in Nat \ {0} /\ Second \in Nat \ {0} /\ MAX_ETIME \in Nat
      /\ THRESHOLD \in Nat /\ RECORDTHRESH \in Nat
      /\ Costs \subseteq Nat /\ Durations \subseteq Nat
  BY TimingAssumption
<1> QED BY <1>1 DEF Wide

(* The state by its kinds.                                                 *)
LEMMA Kinds ==
  ASSUME TypeOK
  PROVE  /\ cost \in Nat /\ own \in Nat /\ clock \in Nat /\ spent \in Nat /\ tms_utime \in Nat
         /\ gap \in Nat /\ e \in Nat /\ cyc_per_tick \in Nat /\ time \in Nat /\ n \in Nat
BY Constants DEF TypeOK

LEMMA ReadingKind ==
  ASSUME NEW t \in Nat
  PROVE  Reading(t) \in [hi : Nat, lo : Nat]
<1>1. t \div Second \in Nat /\ t % Second \in Nat
  BY Constants, Quotient, Division
<1> QED BY <1>1 DEF Reading

LEMMA CounterKind ==
  ASSUME NEW c \in Nat
  PROVE  access_counter(c) \in [hi : Nat, lo : Nat]
<1>1. c \div Word \in Nat /\ c % Word \in Nat
  BY Constants, Quotient, Division
<1> QED BY <1>1 DEF access_counter

LEMMA InitTime == TimingInit => TimeInv
<1> SUFFICES ASSUME TimingInit PROVE TimeInv
  OBVIOUS
<1>1. TypeOK
  <2>1. start \in [hi : Nat, lo : Nat]
    BY DEF TimingInit, NoStart
  <2>2. cost \in Costs \union {0} /\ alpha \in BOOLEAN
    BY DEF TimingInit
  <2> QED BY <2>1, <2>2 DEF TimingInit, TypeOK
<1>2. CounterInv /\ SpentInv /\ CalInv /\ TimerInv
  BY Constants DEF TimingInit, CounterInv, SpentInv, CalInv, TimerInv
<1> QED BY <1>1, <1>2 DEF TimeInv

LEMMA fsecsInv == ASSUME TimeInv, fsecs PROVE TimeInv'
<1> USE DEF TimeInv, fsecs, machineVars, counterVars, tickVars, calibration, sampler
<1>1. TypeOK'
  BY DEF TypeOK
<1>2. CounterInv' /\ SpentInv'
  BY DEF CounterInv, SpentInv
<1>3. CalInv'
  BY DEF CalInv
<1>4. TimerInv'
  BY DEF TimerInv
<1> QED BY <1>1, <1>2, <1>3, <1>4

LEMMA clearInv == ASSUME TimeInv, clear PROVE TimeInv'
<1> USE DEF TimeInv, clear, machineVars, counterVars, tickVars, calibration, sampler
<1>1. TypeOK'
  BY DEF TypeOK
<1>2. CounterInv' /\ SpentInv'
  BY DEF CounterInv, SpentInv
<1>3. CalInv'
  BY DEF CalInv
<1>4. TimerInv'
  BY DEF TimerInv
<1> QED BY <1>1, <1>2, <1>3, <1>4

LEMMA callibrateInv == ASSUME TimeInv, callibrate PROVE TimeInv'
<1> USE DEF TimeInv, callibrate, machineVars, counterVars, tickVars, calibration, sampler
<1>1. TypeOK'
  BY DEF TypeOK
<1>2. CounterInv' /\ SpentInv'
  BY DEF CounterInv, SpentInv
<1>3. CalInv'
  <2>1. gap = 0 /\ tms_utime = 0 /\ gap' = 0 /\ tms_utime' = 0 /\ at' = "newt"
    BY DEF CalInv
  <2>2. gap' >= cost' * tms_utime' /\ Short(gap' + 1)
    BY <2>1, Kinds, Constants DEF Short
  <2> QED BY <2>1, <2>2, Kinds DEF CalInv, Short
<1>4. TimerInv'
  BY DEF TimerInv
<1> QED BY <1>1, <1>2, <1>3, <1>4

LEMMA newtInv == ASSUME TimeInv, newt PROVE TimeInv'
<1> USE DEF TimeInv, newt, machineVars, sampler
<1>0. gap \in Nat /\ cost \in Nat /\ tms_utime \in Nat /\ THRESHOLD \in Nat
  BY Kinds, Constants
<1>1. TypeOK'
  <2>1. time' \in Nat /\ gap' \in Nat
    BY <1>0, Kinds
  <2>2. quiet' \in BOOLEAN
    BY DEF TypeOK
  <2> QED BY <2>1, <2>2 DEF TypeOK
<1>2. CounterInv' /\ SpentInv'
  BY DEF CounterInv, SpentInv
<1>3. CalInv'
  <2>1. PICK m : m = cost * tms_utime
    OBVIOUS
  <2>2. m \in Nat
    BY <1>0, <2>1
  <2>3. gap >= m /\ (quiet => Short(gap + 1) \/ gap >= m + cost)
    BY <2>1 DEF CalInv
  <2>4. CASE gap + 1 >= THRESHOLD
    <3>1. at' = "newc" /\ time' = gap + 1 /\ gap' = 0 /\ quiet' = quiet
      BY <2>4
    <3>2. Short(time)' <=> Short(gap + 1)
      BY <3>1 DEF Short
    <3> QED BY <1>0, <2>1, <2>2, <2>3, <3>1, <3>2 DEF CalInv
  <2>5. CASE ~ (gap + 1 >= THRESHOLD)
    <3>1. at' = "newt" /\ gap' = gap + 1 /\ quiet' = TRUE
      BY <2>5
    <3>2. Short(gap + 1)'
      BY <1>0, <2>5, <3>1 DEF Short
    <3>3. gap' >= m
      BY <1>0, <2>2, <2>3, <3>1
    <3> QED BY <2>1, <3>1, <3>2, <3>3 DEF CalInv
  <2> QED BY <2>4, <2>5
<1>4. TimerInv'
  BY DEF TimerInv
<1> QED BY <1>1, <1>2, <1>3, <1>4

(* What callibrate records is no less than what an interrupt costs, as long*)
(* as what it records is longer than a difference without one.             *)
LongRecords == 1 <= RECORDTHRESH /\ THRESHOLD <= RECORDTHRESH

LEMMA newcInv == ASSUME TimeInv, newc, LongRecords PROVE TimeInv'
<1> USE DEF TimeInv, newc, machineVars, counterVars, sampler
<1>0. /\ gap \in Nat /\ cost \in Nat /\ tms_utime \in Nat /\ time \in Nat /\ cyc_per_tick \in Nat
      /\ THRESHOLD \in Nat /\ RECORDTHRESH \in Nat /\ e \in Nat
  BY Kinds, Constants
<1>1. TypeOK'
  <2>1. tms_utime > 0 => time \div tms_utime \in Nat
    BY <1>0, Quotient
  <2>2. cyc_per_tick' \in Nat /\ e' \in Nat
    BY <1>0, <2>1
  <2> QED BY <2>2 DEF TypeOK
<1>2. CounterInv' /\ SpentInv'
  BY DEF CounterInv, SpentInv
<1>3. CalInv'
  <2>1. Short(gap + 1) \/ gap >= cost * tms_utime' + cost
    <3>1. tms_utime' = 0 /\ cost * 0 = 0
      BY <1>0
    <3>2. gap \in {0, cost}
      BY DEF CalInv
    <3> QED BY <1>0, <3>1, <3>2 DEF Short
  <2>2. gap >= cost * tms_utime'
    <3>1. tms_utime' = 0 /\ cost * 0 = 0
      BY <1>0
    <3> QED BY <1>0, <3>1
  <2>3. cyc_per_tick' # 0 => cyc_per_tick' >= cost
    <3>1. CASE cyc_per_tick' = cyc_per_tick
      BY <3>1 DEF CalInv
    <3>2. CASE cyc_per_tick' # cyc_per_tick
      <4>1. tms_utime > 0 /\ Recorded(time \div tms_utime) /\ cyc_per_tick' = time \div tms_utime
        BY <3>2
      <4>2. PICK m : m = time \div tms_utime
        OBVIOUS
      <4>3. m \in Nat /\ m <= time /\ (time >= cost * tms_utime => m >= cost)
        BY <1>0, <4>1, <4>2, Quotient
      <4>4. m > RECORDTHRESH
        BY <4>1, <4>2 DEF Recorded
      <4>5. ~ Short(time)
        BY <1>0, <4>3, <4>4 DEF Short, LongRecords
      <4>6. time >= cost * tms_utime
        BY <4>5 DEF CalInv
      <4> QED BY <4>1, <4>2, <4>3, <4>6
    <3> QED BY <3>1, <3>2
  <2>4. at' = "newt" /\ gap' = gap /\ cost' = cost /\ tms_utime' = 0 /\ (Short(gap + 1) => Short(gap + 1)')
    BY DEF Short
  <2> QED BY <2>1, <2>2, <2>3, <2>4 DEF CalInv
<1>4. TimerInv'
  BY DEF TimerInv
<1> QED BY <1>1, <1>2, <1>3, <1>4

LEMMA start_comp_counterInv == ASSUME TimeInv, start_comp_counter PROVE TimeInv'
<1> USE DEF TimeInv, start_comp_counter, machineVars, counterVars, sampler
<1>1. TypeOK'
  BY DEF TypeOK
<1>2. CounterInv' /\ SpentInv'
  BY DEF CounterInv, SpentInv
<1>3. CalInv'
  BY DEF CalInv
<1>4. TimerInv'
  BY DEF TimerInv
<1> QED BY <1>1, <1>2, <1>3, <1>4

LEMMA start_counterInv == ASSUME TimeInv, start_counter PROVE TimeInv'
<1> USE DEF TimeInv, start_counter, machineVars, tickVars, calibration, sampler
<1>0. PICK c \in 0 .. Wide - 1 : clock' = c /\ start' = access_counter(c)
  BY DEF Wide
<1>1. TypeOK'
  <2>1. c \in Nat /\ start' \in [hi : Nat, lo : Nat]
    BY <1>0, Constants, CounterKind
  <2> QED BY <1>0, <2>1 DEF TypeOK
<1>2. CounterInv'
  <2>1. c \in Int /\ 0 * Wide + c \in 0 .. Wide - 1
    BY <1>0, Constants
  <2>2. c % Wide = c
    BY <2>1, Constants, Residue
  <2>3. clock' = (c + spent') % Wide
    BY <1>0, <2>1, <2>2
  <2>4. start' = access_counter(c)'
    BY <1>0 DEF access_counter
  <2> QED BY <2>3, <2>4 DEF CounterInv
<1>3. SpentInv'
  <2>1. cost \in Nat /\ tms_utime \in Nat /\ cost * tms_utime >= 0
    BY Kinds
  <2> QED BY <2>1 DEF SpentInv
<1>4. CalInv'
  BY DEF CalInv
<1>5. TimerInv'
  BY DEF TimerInv
<1> QED BY <1>1, <1>2, <1>3, <1>4, <1>5

(* The counter goes on.                                                    *)
LEMMA GoesOn ==
  ASSUME TimeInv, at \in {"f", "get_counter"}, NEW d \in Nat,
         clock' = (clock + d) % Wide, spent' = spent + d,
         UNCHANGED <<start, alpha>>
  PROVE  CounterInv'
<1>1. PICK c \in 0 .. Wide - 1 : start = access_counter(c) /\ clock = (c + spent) % Wide
  BY DEF TimeInv, CounterInv
<1>2. c \in Int /\ spent \in Nat /\ Wide \in Nat \ {0}
  BY Kinds, Constants DEF TimeInv
<1>3. PICK x \in Int : x = c + spent
  BY <1>2
<1>4. ((x % Wide) + d) % Wide = (x + d) % Wide
  <2>1. PICK M \in Nat \ {0} : M = Wide
    BY <1>2
  <2>2. d \in Int
    OBVIOUS
  <2>3. ((x % M) + d) % M = (x + d) % M
    BY <2>2, SumResidue, Zenon
  <2> QED BY <2>1, <2>3
<1>5. x + d = c + spent'
  BY <1>2, <1>3
<1>6. clock' = (c + spent') % Wide
  BY <1>1, <1>3, <1>4, <1>5
<1>7. start' = access_counter(c)'
  BY <1>1 DEF access_counter
<1> QED BY <1>6, <1>7 DEF CounterInv

LEMMA fInv == ASSUME TimeInv, NEW c \in Durations, f(c) PROVE TimeInv'
<1> USE DEF TimeInv, f, machineVars, calibration, sampler
<1>0. /\ c \in Nat /\ cost \in Nat /\ tms_utime \in Nat /\ spent \in Nat /\ clock \in Nat
      /\ Wide \in Nat \ {0}
  BY Kinds, Constants
<1>1. TypeOK'
  <2>1. clock' \in Nat
    <3>1. PICK x \in Int : x = clock + c
      BY <1>0
    <3>2. x % Wide \in 0 .. Wide - 1
      BY <1>0, Division
    <3> QED BY <1>0, <3>1, <3>2 DEF Wide
  <2>2. spent' \in Nat /\ own' \in Durations
    BY <1>0
  <2> QED BY <2>1, <2>2 DEF TypeOK
<1>2. CounterInv'
  BY <1>0, GoesOn DEF Wide
<1>3. SpentInv'
  <2>1. PICK m : m = cost * tms_utime
    OBVIOUS
  <2>2. m \in Nat /\ spent <= m /\ spent <= cost /\ (quiet => spent = 0)
    BY <1>0, <2>1 DEF SpentInv
  <2>3. spent' <= own' + m /\ spent' <= own' + 2 * cost /\ spent' <= own' + cost
    BY <1>0, <2>2
  <2> QED BY <2>1, <2>3 DEF SpentInv
<1>4. CalInv'
  BY DEF CalInv
<1>5. TimerInv'
  BY DEF TimerInv
<1> QED BY <1>1, <1>2, <1>3, <1>4, <1>5

(* A measurement, with all interrupts that fit in, is shorter than the time*)
(* the counter takes to come round (2^64 cycles).                          *)
ShortMeasurements ==
  \A c \in Costs \union {0}, d \in Durations \union {0} : 2 * c + d < Wide

LEMMA ReadSpent ==
  ASSUME TimeInv, ShortMeasurements, at = "get_counter", ~ alpha
  PROVE  get_counter = spent
<1>1. PICK c \in 0 .. Wide - 1 : start = access_counter(c) /\ clock = (c + spent) % Wide
  BY DEF TimeInv, CounterInv
<1>2. c \in Nat /\ spent \in Nat /\ Word \in Nat \ {0} /\ Wide \in Nat
  BY <1>1, Kinds, Constants DEF TimeInv
<1>3. spent < Word * Word
  <2>1. cost \in Costs \union {0} /\ own \in Durations \union {0} /\ spent <= own + 2 * cost
    BY DEF TimeInv, TypeOK, SpentInv
  <2>2. 2 * cost + own < Wide /\ cost \in Nat /\ own \in Nat
    BY <2>1, Kinds DEF ShortMeasurements, TimeInv
  <2> QED BY <1>2, <2>1, <2>2 DEF Wide
<1>4. PICK W \in Nat \ {0} : W = Word
  BY <1>2
<1>5. PICK s \in Nat : s = spent /\ s < W * W
  BY <1>2, <1>3, <1>4
<1> DEFINE k == (c + s) % (W * W)
           lo == ((k % W) - (c % W)) % W
           b == IF lo > k % W THEN 1 ELSE 0
<1>6. (((k \div W) - (c \div W) - b) % W) * W + lo = s
  BY <1>2, <1>5, Borrow
<1>7. clock = k
  BY <1>1, <1>4, <1>5 DEF Wide
<1>8. /\ start.hi = c \div W /\ start.lo = c % W
      /\ access_counter(clock).hi = k \div W /\ access_counter(clock).lo = k % W
  BY <1>1, <1>4, <1>7 DEF access_counter
<1> HIDE DEF k
<1>9. get_counter = (((k \div W) - (c \div W) - b) % W) * W + lo
  BY <1>4, <1>8 DEF get_counter
<1> QED BY <1>5, <1>6, <1>9

LEMMA get_comp_counterInv == ASSUME TimeInv, get_comp_counter, ShortMeasurements PROVE TimeInv'
<1> USE DEF TimeInv, get_comp_counter, machineVars, counterVars, tickVars, calibration, sampler
<1>0. /\ cost \in Nat /\ tms_utime \in Nat /\ spent \in Nat /\ clock \in Nat
      /\ Word \in Nat \ {0}
  BY Kinds, Constants
<1>1. TypeOK'
  <2>1. get_counter \in Nat
    <3>1. start \in [hi : Nat, lo : Nat] /\ access_counter(clock) \in [hi : Nat, lo : Nat]
      BY <1>0, CounterKind DEF TypeOK
    <3>2. PICK h0 \in Nat, l0 \in Nat, h1 \in Nat, l1 \in Nat :
            h0 = start.hi /\ l0 = start.lo /\ h1 = access_counter(clock).hi /\ l1 = access_counter(clock).lo
      BY <3>1
    <3>3. PICK x \in Int : x = l1 - l0
      OBVIOUS
    <3>4. PICK lo \in Nat : lo = x % Word
      BY <1>0, Division
    <3>5. PICK b \in {0, 1} : b = IF lo > l1 THEN 1 ELSE 0
      OBVIOUS
    <3>6. PICK y \in Int : y = h1 - h0 - b
      OBVIOUS
    <3>7. PICK hi \in Nat : hi = y % Word
      BY <1>0, Division
    <3>8. get_counter = hi * Word + lo
      BY <3>2, <3>3, <3>4, <3>5, <3>6, <3>7 DEF get_counter
    <3> QED BY <1>0, <3>8
  <2> QED BY <2>1 DEF TypeOK
<1>2. CounterInv'
  BY DEF CounterInv
<1>3. SpentInv'
  <2>1. ~ alpha => time' <= own + cost * tms_utime
    BY ReadSpent DEF SpentInv
  <2> QED BY <2>1 DEF SpentInv
<1>4. CalInv'
  BY DEF CalInv
<1>5. TimerInv'
  BY DEF TimerInv
<1> QED BY <1>1, <1>2, <1>3, <1>4, <1>5

LEMMA fcycInv == ASSUME TimeInv, fcyc PROVE TimeInv'
<1> USE DEF TimeInv, fcyc, machineVars
<1>1. TypeOK'
  BY DEF TypeOK, NoStart
<1>2. CounterInv' /\ SpentInv'
  BY DEF CounterInv, SpentInv
<1>3. CalInv'
  BY DEF CalInv
<1>4. TimerInv'
  BY DEF TimerInv
<1> QED BY <1>1, <1>2, <1>3, <1>4

LEMMA StartTimerInv == ASSUME TimeInv, StartTimer PROVE TimeInv'
<1> USE DEF TimeInv, StartTimer, machineVars, tickVars, calibration, sampler
<1>0. PICK t \in IF method = "gettod" THEN 0 .. Second - 1 ELSE {MAX_ETIME * Second} :
        clock' = t /\ start' = Reading(t)
  OBVIOUS
<1>1. t \in Nat
  BY <1>0, Constants
<1>2. TypeOK'
  <2>1. start' \in [hi : Nat, lo : Nat]
    BY <1>0, <1>1, ReadingKind
  <2> QED BY <1>0, <1>1, <2>1 DEF TypeOK
<1>3. CounterInv' /\ SpentInv'
  BY DEF CounterInv, SpentInv
<1>4. CalInv'
  BY DEF CalInv
<1>5. TimerInv'
  <2>1. SUFFICES ASSUME method # "fcyc" PROVE TimerInv'
    BY DEF TimerInv
  <2>2. spent = 0 /\ spent' = 0 /\ at' = "runs" /\ method' = method
    BY <2>1 DEF TimerInv
  <2>3. CASE method = "gettod"
    BY <1>0, <1>1, <2>2, <2>3 DEF TimerInv, Reading
  <2>4. CASE method # "gettod"
    <3>1. t = MAX_ETIME * Second
      BY <1>0, <2>4
    <3> QED BY <1>0, <1>1, <2>2, <2>4, <3>1 DEF TimerInv, Reading
  <2> QED BY <2>3, <2>4
<1> QED BY <1>2, <1>3, <1>4, <1>5

LEMMA RunInv == ASSUME TimeInv, NEW d \in Durations, Run(d) PROVE TimeInv'
<1> USE DEF TimeInv, Run, machineVars, tickVars, calibration
<1>0. d \in Nat /\ spent \in Nat /\ clock \in Nat /\ n \in Nat
  BY Kinds, Constants
<1>1. TypeOK'
  <2>1. clock' \in Nat /\ spent' \in Nat /\ n' \in Nat
    BY <1>0
  <2> QED BY <2>1 DEF TypeOK
<1>2. CounterInv' /\ SpentInv'
  BY DEF CounterInv, SpentInv
<1>3. CalInv'
  BY DEF CalInv
<1>4. TimerInv'
  <2>1. SUFFICES ASSUME method # "fcyc" PROVE TimerInv'
    BY DEF TimerInv
  <2>2. CASE method = "gettod"
    <3>1. PICK t \in 0 .. Second - 1 : start = Reading(t) /\ clock = t + spent
      BY <2>2 DEF TimerInv
    <3>2. clock' = t + spent' /\ at' = "runs" /\ start' = Reading(t)'
      BY <1>0, <2>2, <3>1, Constants DEF Reading
    <3> QED BY <2>2, <3>2 DEF TimerInv
  <2>3. CASE method # "gettod" /\ clock > d
    <3>1. PICK m \in Nat : m = MAX_ETIME * Second
      BY Constants
    <3>2. method = "itimer" /\ clock + spent = m /\ start = Reading(m)
      BY <2>1, <2>3, <3>1 DEF TimerInv, TypeOK
    <3>3. clock' + spent' = m /\ at' = "runs" /\ start' = Reading(m)'
      BY <1>0, <2>3, <3>2 DEF Reading
    <3> QED BY <2>3, <3>1, <3>3 DEF TimerInv, Reading
  <2>4. CASE method # "gettod" /\ ~ (clock > d)
    BY <2>4 DEF TimerInv
  <2> QED BY <2>2, <2>3, <2>4
<1> QED BY <1>1, <1>2, <1>3, <1>4

LEMMA StopTimerInv == ASSUME TimeInv, StopTimer PROVE TimeInv'
<1> USE DEF TimeInv, StopTimer, machineVars, counterVars, tickVars, calibration
<1>1. TypeOK'
  BY DEF TypeOK
<1>2. CounterInv' /\ SpentInv'
  BY DEF CounterInv, SpentInv
<1>3. CalInv'
  BY DEF CalInv
<1>4. TimerInv'
  <2>1. SUFFICES ASSUME method # "fcyc" PROVE TimerInv'
    BY DEF TimerInv
  <2>0. clock \in Nat /\ spent \in Nat /\ Second \in Nat \ {0}
    BY Kinds, Constants
  <2>2. CASE method = "gettod"
    <3>1. PICK t \in 0 .. Second - 1 : start = Reading(t) /\ clock = t + spent
      BY <2>2 DEF TimerInv
    <3>2. Elapsed(Reading(t), Reading(clock)) = clock - t
      BY <2>0, <3>1, Readings
    <3>3. result' = spent
      BY <2>0, <2>2, <3>1, <3>2
    <3> QED BY <2>2, <3>3 DEF TimerInv
  <2>3. CASE method # "gettod"
    <3>1. PICK m \in Nat : m = MAX_ETIME * Second
      BY Constants
    <3>2. clock + spent = m /\ start = Reading(m)
      BY <2>1, <2>3, <3>1 DEF TimerInv, TypeOK
    <3>3. Elapsed(Reading(clock), Reading(m)) = m - clock
      BY <2>0, Readings
    <3>4. result' = spent
      BY <2>0, <2>3, <3>2, <3>3
    <3> QED BY <2>3, <3>4 DEF TimerInv
  <2> QED BY <2>2, <2>3
<1> QED BY <1>1, <1>2, <1>3, <1>4

LEMMA TickInv == ASSUME TimeInv, Tick PROVE TimeInv'
<1> USE DEF TimeInv, Tick, machineVars, sampler, Measuring
<1>0. /\ cost \in Nat /\ own \in Nat /\ tms_utime \in Nat /\ spent \in Nat /\ clock \in Nat
      /\ gap \in Nat /\ time \in Nat /\ Wide \in Nat \ {0}
  BY Kinds, Constants
<1>1. TypeOK'
  <2>1. clock' \in Nat
    <3>1. PICK x \in Int : x = clock + cost
      BY <1>0
    <3>2. x % Wide \in 0 .. Wide - 1
      BY <1>0, Division
    <3> QED BY <1>0, <3>1, <3>2 DEF Wide
  <2>2. spent' \in Nat /\ gap' \in Nat /\ tms_utime' \in Nat
    BY <1>0
  <2> QED BY <2>1, <2>2 DEF TypeOK
<1>2. CounterInv'
  <2>1. CASE at \in {"f", "get_counter"}
    BY <1>0, <2>1, GoesOn DEF Wide
  <2>2. CASE at \notin {"f", "get_counter"}
    BY <2>2 DEF CounterInv
  <2> QED BY <2>1, <2>2
<1> DEFINE m == cost * tms_utime
<1>3. m \in Nat /\ cost' * tms_utime' = m + cost
  BY <1>0
<1>4. SpentInv'
  <2>1. /\ at = "f" => spent <= m /\ spent = 0
        /\ at = "get_counter" => spent <= own + m /\ spent <= own + cost
        /\ at = "times" /\ ~ alpha => time <= own + m
    BY DEF SpentInv
  <2> HIDE DEF m
  <2>2. /\ at = "f" => spent' <= m + cost /\ spent' <= cost
        /\ at = "get_counter" => spent' <= own + (m + cost) /\ spent' <= own + 2 * cost
        /\ at = "times" /\ ~ alpha => time <= own + (m + cost)
    BY <1>0, <1>3, <2>1
  <2> QED BY <1>3, <2>2 DEF SpentInv
<1>5. CalInv'
  <2>1. /\ at = "newt" => gap >= m
        /\ at = "newc" => gap = 0 /\ (Short(time) \/ time >= m + cost)
        /\ cyc_per_tick # 0 => cyc_per_tick >= cost
    BY DEF CalInv
  <2> HIDE DEF m
  <2>2. /\ at = "newt" => gap' >= m + cost
        /\ at = "newc" => gap' = cost /\ (Short(time) \/ time >= m + cost)
    BY <1>0, <1>3, <2>1
  <2>3. Short(time)' <=> Short(time)
    BY DEF Short
  <2> QED BY <1>3, <2>1, <2>2, <2>3 DEF CalInv
<1>6. TimerInv'
  BY DEF TimerInv
<1> QED BY <1>1, <1>2, <1>4, <1>5, <1>6

LEMMA StutterInv == ASSUME TimeInv, UNCHANGED timingVars PROVE TimeInv'
<1> USE DEF TimeInv, timingVars, machineVars, counterVars, tickVars, calibration, sampler
<1>1. TypeOK'
  BY DEF TypeOK
<1>2. CounterInv' /\ SpentInv'
  BY DEF CounterInv, SpentInv, access_counter
<1>3. CalInv'
  BY DEF CalInv, Short
<1>4. TimerInv'
  BY DEF TimerInv, Reading
<1> QED BY <1>1, <1>2, <1>3, <1>4

LEMMA NextTime == ASSUME TimeInv, [TimingNext]_timingVars, LongRecords, ShortMeasurements PROVE TimeInv'
<1>1. CASE fsecs \/ clear \/ callibrate \/ newt
  BY <1>1, fsecsInv, clearInv, callibrateInv, newtInv
<1>2. CASE newc \/ start_comp_counter \/ start_counter \/ get_comp_counter \/ fcyc
  BY <1>2, newcInv, start_comp_counterInv, start_counterInv, get_comp_counterInv, fcycInv
<1>3. CASE StartTimer \/ StopTimer
  BY <1>3, StartTimerInv, StopTimerInv
<1>4. CASE \E c \in Durations : f(c) \/ Run(c)
  BY <1>4, fInv, RunInv
<1>5. CASE Tick
  BY <1>5, TickInv
<1>6. CASE UNCHANGED timingVars
  BY <1>6, StutterInv
<1> QED BY <1>1, <1>2, <1>3, <1>4, <1>5, <1>6 DEF TimingNext, TimingStep

-----------------------------------------------------------------------------
(* An Alpha's counter reads right up to the end of its word.              *)
LEMMA ReadAlpha ==
  ASSUME TimeInv, at = "get_counter", alpha, start.lo + spent < Word
  PROVE  get_counter = spent
<1>1. PICK c \in 0 .. Wide - 1 : start = access_counter(c) /\ clock = (c + spent) % Wide
  BY DEF TimeInv, CounterInv
<1>2. c \in Nat /\ spent \in Nat /\ Word \in Nat \ {0}
  BY <1>1, Kinds, Constants DEF TimeInv
<1>3. PICK W \in Nat \ {0} : W = Word
  BY <1>2
<1>4. PICK s \in Nat : s = spent
  BY <1>2
<1>5. c \in 0 .. W * W - 1
  BY <1>1, <1>3 DEF Wide
<1>6. start.hi = 0 /\ start.lo = c % W /\ (c % W) + s < W
  BY <1>1, <1>3, <1>4 DEF access_counter
<1>7. ((c + s) % (W * W)) % W = (c % W) + s
  BY <1>5, <1>6, LowWord
<1>8. access_counter(clock).hi = 0 /\ access_counter(clock).lo = (c % W) + s
  BY <1>1, <1>3, <1>4, <1>7 DEF access_counter, Wide
<1>9. PICK h \in Int, l \in 0 .. W - 1 : h = c \div W /\ l = c % W /\ c = h * W + l
  BY <1>2, Words2
<1>10. s % W = s
  <2>1. s \in Int /\ 0 * W + s \in 0 .. W - 1
    BY <1>6, <1>9
  <2> QED BY <2>1, Residue
<1>11. ((l + s) - l) % W = s
  BY <1>9, <1>10
<1>12. 0 % W = 0
  OBVIOUS
<1>13. get_counter = ((0 - 0 - 0) % W) * W + s
  BY <1>3, <1>6, <1>8, <1>9, <1>11 DEF get_counter
<1> QED BY <1>4, <1>12, <1>13

LEMMA SpeedPart == LabSpec => TimingInit /\ [][TimingNext]_timingVars
<1>1. LabInit => TimingInit
  BY DEF LabInit
<1>2. [LabNext]_labVars => [TimingNext]_timingVars
  BY DEF LabNext, ValidStep, SpeedStep, Interrupt, TimingNext, labVars
<1> QED BY <1>1, <1>2, PTL DEF LabSpec

LEMMA TimeInvariance == ASSUME LongRecords, ShortMeasurements PROVE LabSpec => []TimeInv
<1>1. TimingInit => TimeInv
  BY InitTime
<1>2. TimeInv /\ [TimingNext]_timingVars => TimeInv'
  BY NextTime
<1> QED BY <1>1, <1>2, SpeedPart, PTL

(* What the counter, the time of day and the interval timer are read to be *)
(* is the time spent since they were started, across the ends of words and *)
(* of seconds (get_counter of clock.c, ftimer.c), if a run of f with its   *)
(* interrupts is shorter than the counter takes to come round.             *)
THEOREM ReadsTimeSpent ==
  ASSUME LongRecords, ShortMeasurements
  PROVE  LabSpec => []Measured
<1>1. TimeInv => Measured
  <2> SUFFICES ASSUME TimeInv PROVE Measured
    OBVIOUS
  <2>1. at = "get_counter" /\ (alpha => start.lo + spent < Word) => get_counter = spent
    BY ReadSpent, ReadAlpha
  <2>2. at = "done" /\ method # "fcyc" => result = spent
    BY DEF TimeInv, TimerInv
  <2> QED BY <2>1, <2>2 DEF Measured
<1> QED BY <1>1, TimeInvariance, PTL

(* What callibrate records for an interrupt is never less than what one    *)
(* costs, so that no compensated sample counts cycles that are not those of*)
(* f (get_comp_counter of clock.c).  It needs that only differences longer *)
(* than those without an interrupt are recorded, as with the 1000 and 3000 *)
(* of clock.c.                                                             *)
THEOREM NothingUndercompensated ==
  ASSUME LongRecords, ShortMeasurements
  PROVE  LabSpec => []Compensated
<1>1. TimeInv => Compensated
  <2> SUFFICES ASSUME TimeInv, cyc_per_tick # 0
               PROVE  /\ cyc_per_tick >= cost
                      /\ at = "times" /\ ~ alpha => ctime <= own
    BY DEF Compensated
  <2>1. cyc_per_tick >= cost
    BY DEF TimeInv, CalInv
  <2>2. ASSUME at = "times", ~ alpha PROVE ctime <= own
    <3>1. PICK t \in Nat : t = tms_utime
      BY Kinds DEF TimeInv
    <3>2. cost \in Nat /\ cyc_per_tick \in Nat /\ time \in Nat /\ own \in Nat
      BY Kinds DEF TimeInv
    <3>3. time <= own + cost * t
      BY <2>2, <3>1 DEF TimeInv, SpentInv
    <3>4. cost * t <= t * cyc_per_tick
      BY <2>1, <3>2
    <3>5. PICK u \in Nat, v \in Nat : u = cost * t /\ v = t * cyc_per_tick
      BY <3>2
    <3> QED BY <3>1, <3>2, <3>3, <3>4, <3>5 DEF ctime
  <2> QED BY <2>1, <2>2
<1> QED BY <1>1, TimeInvariance, PTL
=============================================================================
