------------------------------ MODULE LRUCache ------------------------------
(***************************************************************************)
(* What a cache simulator with the LRU policy reports, whatever it stores  *)
(* in its lines.  Each set holds some blocks, and knows of any two of them *)
(* which was used before the other; a block that is not there is a miss,   *)
(* and an eviction when the set is full already.                           *)
(***************************************************************************)
EXTENDS Integers, FiniteSets

CONSTANTS
  Indices,  \* the sets
  Blocks,   \* the memory blocks that map to one set
  Ways      \* blocks a set can hold

VARIABLES
  held,     \* the blocks of each set
  older,    \* <<x, y>>: both are held, and y was used after x
  hit, miss, evict

lruVars == <<held, older, hit, miss, evict>>

Full(i) == Cardinality(held[i]) = Ways
LeastRecent(i) == {x \in held[i] : \A y \in held[i] : <<y, x>> \notin older[i]}

(* The other blocks that stay when block x is used.                        *)
Staying(i, x) ==
  IF x \notin held[i] /\ Full(i) THEN held[i] \ LeastRecent(i) ELSE held[i] \ {x}

Init ==
  /\ held = [i \in Indices |-> {}]
  /\ older = [i \in Indices |-> {}]
  /\ hit = 0 /\ miss = 0 /\ evict = 0

(* A use of block x of set i by one access, or by the two of a modify: the *)
(* second always hits.                                                     *)
Reference(i, x, accesses) ==
  LET rest == Staying(i, x) IN
  /\ held' = [held EXCEPT ![i] = rest \union {x}]
  /\ older' = [older EXCEPT ![i] = (@ \intersect (rest \X rest)) \union (rest \X {x})]
  /\ IF x \in held[i]
     THEN hit' = hit + accesses /\ UNCHANGED <<miss, evict>>
     ELSE /\ hit' = hit + accesses - 1
          /\ miss' = miss + 1
          /\ evict' = IF Full(i) THEN evict + 1 ELSE evict

Next == \E i \in Indices, x \in Blocks, accesses \in {1, 2} : Reference(i, x, accesses)

Spec == Init /\ [][Next]_lruVars
=============================================================================
