-------------------------------- MODULE CSim --------------------------------
(***************************************************************************)
(* The cache simulator of the cache lab (csim.c): main reads a trace line  *)
(* by line and keeps the counters, access_data looks a block up in its set.*)
(* A line of the trace names a block and the set parse_addr maps it to; the*)
(* offset plays no part.  One action per kind of line.                     *)
(***************************************************************************)
EXTENDS Integers, FiniteSets

CONSTANTS
  num_S,     \* sets, 1 << num_s
  num_E,     \* lines of a set
  Blocks,    \* what addr >> (num_b + num_s) can be in the trace
  UINT_MOD,  \* number of values of an unsigned int (2^32 in the build)
  MaxLines   \* bound: lines of the trace

ASSUME CSimAssumption ==
  /\ num_S \in Nat \ {0} /\ num_E \in Nat \ {0}
  /\ Blocks \subseteq Nat
  /\ UINT_MOD \in Nat \ {0, 1} /\ MaxLines \in Nat

VARIABLES
  cache,              \* cache_begin: the lines of each set
  hits, misses, evictions,
  instruction_count,
  lines               \* auxiliary: lines read so far

counters == <<hits, misses, evictions>>
vars == <<cache, counters, instruction_count, lines>>

Indices == 0 .. num_S - 1
Slots == 0 .. num_E - 1
CacheLine == [valid : {0, 1}, tag : 0 .. UINT_MOD - 1, LRU : 0 .. UINT_MOD - 1]

Inc(n) == (n + 1) % UINT_MOD

(* The tag is an unsigned int, the address an unsigned long.               *)
Mut_parse_tag(block) == block
parse_tag(block) == block % UINT_MOD

initCache == [i \in Indices |-> [k \in Slots |-> [valid |-> 0, tag |-> 0, LRU |-> 0]]]

(***************************************************************************)
(* access_data on the set s: its result (0 a hit, 1 a miss, -1 a miss and  *)
(* an eviction), the slot used, and the set it leaves.                     *)
(***************************************************************************)
Matches(s, tag) == {k \in Slots : s[k].valid = 1 /\ s[k].tag = tag}

(* The first slot of the lowest LRU.                                       *)
Mut_ToEvict(s) ==
  CHOOSE k \in Slots : \A j \in Slots : s[j].LRU < s[k].LRU \/ (s[j].LRU = s[k].LRU /\ k <= j)
ToEvict(s) ==
  CHOOSE k \in Slots : \A j \in Slots : s[k].LRU < s[j].LRU \/ (s[k].LRU = s[j].LRU /\ k <= j)

access_data(s, tag) ==
  IF Matches(s, tag) # {}
  THEN [result |-> 0, set |-> s,
        line |-> CHOOSE k \in Matches(s, tag) : \A j \in Matches(s, tag) : k <= j]
  ELSE LET k == ToEvict(s)
       IN  [result |-> IF s[k].LRU = 0 THEN 1 ELSE -1,
            set |-> [s EXCEPT ![k].valid = 1, ![k].tag = tag],
            line |-> k]

(* The line used last gets the number of the instruction.                  *)
Mut_Stamp(s, k, n) == [s EXCEPT ![k].LRU = @ + 1]   \* the least often used
Mut_StampBefore(s, k, n) == [s EXCEPT ![k].LRU = n - 1]   \* counted afterwards
Stamp(s, k, n) == [s EXCEPT ![k].LRU = n]

(* The counters after n accesses, h of them hits and e with an eviction.   *)
Counted(n, h, e) ==
  /\ hits' = (hits + h) % UINT_MOD
  /\ misses' = (misses + (n - h)) % UINT_MOD
  /\ evictions' = (evictions + e) % UINT_MOD

IsHit(a) == IF a.result = 0 THEN 1 ELSE 0
IsEviction(a) == IF a.result = -1 THEN 1 ELSE 0

Init ==
  /\ cache = initCache
  /\ hits = 0 /\ misses = 0 /\ evictions = 0
  /\ instruction_count = 0 /\ lines = 0

(* fscanf reads one more line.                                             *)
ReadLine ==
  /\ lines < MaxLines
  /\ lines' = lines + 1
  /\ instruction_count' = Inc(instruction_count)

(* 'L' and 'S': one access.                                                *)
LoadOrStore(index, block) ==
  LET a == access_data(cache[index], parse_tag(block))
  IN  /\ ReadLine
      /\ Counted(1, IsHit(a), IsEviction(a))
      /\ cache' = [cache EXCEPT ![index] = Stamp(a.set, a.line, instruction_count')]

(* 'M' falls through to 'L': two accesses, one stamp.                      *)
Mut_Modify(index, block) ==
  LET a == access_data(cache[index], parse_tag(block))
  IN  /\ ReadLine
      /\ Counted(2, 2 * IsHit(a), 2 * IsEviction(a))
      /\ cache' = [cache EXCEPT ![index] = Stamp(a.set, a.line, instruction_count')]
Modify(index, block) ==
  LET a == access_data(cache[index], parse_tag(block))
      b == access_data(a.set, parse_tag(block))
  IN  /\ ReadLine
      /\ Counted(2, IsHit(a) + IsHit(b), IsEviction(a) + IsEviction(b))
      /\ cache' = [cache EXCEPT ![index] = Stamp(b.set, b.line, instruction_count')]

(* 'I' and anything else: counted as an instruction, nothing accessed.     *)
Ignored ==
  /\ ReadLine
  /\ UNCHANGED <<cache, counters>>

Next ==
  \/ \E index \in Indices, block \in Blocks :
       LoadOrStore(index, block) \/ Modify(index, block)
  \/ Ignored

Spec == Init /\ [][Next]_vars

(***************************************************************************)
(* Safety.                                                                 *)
(***************************************************************************)
Counter == 0 .. UINT_MOD - 1

(* Every variable stays in its C type.                                     *)
TypeOK ==
  /\ cache \in [Indices -> [Slots -> CacheLine]]
  /\ hits \in Counter /\ misses \in Counter /\ evictions \in Counter
  /\ instruction_count \in Counter
  /\ lines \in 0 .. MaxLines

(* csim.c: an LRU of 0 means that the line is empty.                       *)
ZeroMeansEmpty ==
  \A i \in Indices, k \in Slots : cache[i][k].LRU = 0 <=> cache[i][k].valid = 0

(* A block is in one line of its set at most, no two lines were used by    *)
(* the same instruction, and none by one that is still to come: the lowest *)
(* LRU is the least recently used line.                                    *)
OrderSound ==
  \A i \in Indices, k \in Slots : cache[i][k].valid = 1 =>
    /\ cache[i][k].LRU <= instruction_count
    /\ \A j \in Slots \ {k} : cache[i][j].valid = 1 =>
         /\ cache[i][j].tag # cache[i][k].tag
         /\ cache[i][j].LRU # cache[i][k].LRU

(* What came in and was not evicted is there.                              *)
ValidLines == {p \in Indices \X Slots : cache[p[1]][p[2]].valid = 1}
Conserved == misses - evictions = Cardinality(ValidLines)

(* What Conserved and OrderSound rest on, for a trace that is too short to *)
(* make the instruction counter wrap around.                               *)
IInv ==
  /\ TypeOK /\ ZeroMeansEmpty /\ OrderSound /\ Conserved
  /\ instruction_count = lines
  /\ misses <= lines /\ evictions <= lines

(* The blocks of a set, and which of two was used before the other.        *)
Held(s) == {s[k].tag : k \in {k \in Slots : s[k].valid = 1}}
Older(s) ==
  {<<s[p[1]].tag, s[p[2]].tag>> :
     p \in {p \in Slots \X Slots : /\ s[p[1]].valid = 1 /\ s[p[2]].valid = 1
                                   /\ s[p[1]].LRU < s[p[2]].LRU}}

LRU == INSTANCE LRUCache WITH
  Blocks <- {parse_tag(b) : b \in Blocks}, Ways <- num_E,
  held <- [i \in Indices |-> Held(cache[i])],
  older <- [i \in Indices |-> Older(cache[i])],
  hit <- hits, miss <- misses, evict <- evictions

(* The simulator reports what the LRU policy does on the tags it keeps:    *)
(* blocks that differ above the width of a tag are one block to it.        *)
ImplementsLRU == LRU!Spec
=============================================================================
