------------------------------ MODULE Allocator -----------------------------
(***************************************************************************)
(* What a malloc package promises its client, whatever its free lists look *)
(* like (mm.h, and the checks of eval_mm_valid): the objects of the client *)
(* are aligned, lie in the heap and share no byte, and their contents and  *)
(* places change only when the client asks, the realloc of an object       *)
(* keeping the data that fits its new size.                                *)
(***************************************************************************)
EXTENDS Integers

CONSTANTS
  Ids,     \* names of the client's objects
  lo, hi   \* first byte of the arena, first byte beyond it

VARIABLE
  obj      \* obj[i]: the place, the size and the double words of object i

None == [lo |-> 0, n |-> 0, data |-> <<>>]

Apart(o, p) == o.lo + o.n <= p.lo \/ p.lo + p.n <= o.lo

(* Object i of the new state is placed well among the other objects.       *)
WellPlaced(i) ==
  /\ obj'[i].lo % 8 = 0
  /\ lo <= obj'[i].lo /\ obj'[i].lo + obj'[i].n <= hi
  /\ \A j \in Ids \ {i} : obj[j] # None => Apart(obj'[i], obj[j])

OthersKept(i) == \A j \in Ids \ {i} : obj'[j] = obj[j]

Kept(o, p) ==
  \A k \in DOMAIN o.data \intersect DOMAIN p.data : p.data[k] = o.data[k]

Init == obj = [i \in Ids |-> None]

(* malloc: contents unspecified.                                           *)
Acquire(i) ==
  /\ obj[i] = None /\ obj'[i] # None
  /\ WellPlaced(i) /\ OthersKept(i)

(* realloc.                                                                *)
Resize(i) ==
  /\ obj[i] # None /\ obj'[i] # None
  /\ WellPlaced(i) /\ OthersKept(i)
  /\ Kept(obj[i], obj'[i])

(* free, and realloc to size 0.                                            *)
Release(i) ==
  /\ obj[i] # None /\ obj'[i] = None
  /\ OthersKept(i)

(* The client writes to its object.                                        *)
Store(i) ==
  /\ obj[i] # None
  /\ obj'[i].lo = obj[i].lo /\ obj'[i].n = obj[i].n
  /\ OthersKept(i)

(* The client abandons the heap and starts with an empty one.              *)
Reset == obj' = [i \in Ids |-> None]

Next ==
  \/ Reset
  \/ \E i \in Ids : Acquire(i) \/ Resize(i) \/ Release(i) \/ Store(i)

Spec == Init /\ [][Next]_obj
=============================================================================
