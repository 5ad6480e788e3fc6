------------------------ MODULE MMSegregated_proofs -------------------------
(***************************************************************************)
(* Proofs about MMSegregated, for every region, any number of classes,     *)
(* every set of identifiers and every trace of requests above 8 bytes.     *)
(***************************************************************************)
EXTENDS MMSegregated, FiniteSetTheorems, WellFoundedInduction, TLAPS

(***************************************************************************)
(* Words and classes.                                                      *)
(***************************************************************************)
Hdr(m, x) == READ(m, HDRP(x))
Size(m, x) == GET_SIZE(m, HDRP(x))
Used(m, x) == GET_ALLOC(m, HDRP(x)) = 1

(* A header is read back as it was packed.                                 *)
LEMMA PackLemma ==
  ASSUME NEW m, NEW x, NEW n \in Nat, n % 8 = 0, NEW a \in {0, 1}, Hdr(m, x) = PACK(n, a)
  PROVE  Size(m, x) = n /\ (Used(m, x) <=> a = 1) /\ GET_ALLOC(m, HDRP(x)) = a
  BY DEF Hdr, Size, Used, PACK, GET_SIZE, GET_ALLOC

(* The sizes and marks of any header.                                      *)
LEMMA HeaderLemma ==
  ASSUME NEW m, NEW x, Hdr(m, x) \in Nat
  PROVE  /\ Size(m, x) \in Nat /\ Size(m, x) % 8 = 0
         /\ GET_ALLOC(m, HDRP(x)) \in {0, 1}
  BY DEF Hdr, Size, GET_SIZE, GET_ALLOC

(* Equal headers have equal sizes and marks.                               *)
LEMMA SameHeader ==
  ASSUME NEW m, NEW m2, NEW x, Hdr(m2, x) = Hdr(m, x)
  PROVE  Size(m2, x) = Size(m, x) /\ Used(m2, x) = Used(m, x)
  BY DEF Hdr, Size, Used, GET_SIZE, GET_ALLOC

(* A non-empty set of numbers has a least one.                             *)
LEMMA LeastNumber ==
  ASSUME NEW S \in SUBSET Nat, S # {}
  PROVE  \E x \in S : \A y \in S : x <= y
<1> DEFINE Below == {0 .. x : x \in S}
<1>1. Below \subseteq FiniteSubsetsOf(Nat) /\ Below # {}
  <2>1. ASSUME NEW x \in S PROVE 0 .. x \in FiniteSubsetsOf(Nat)
    <3>1. IsFiniteSet(0 .. x) /\ 0 .. x \in SUBSET Nat
      BY FS_Interval
    <3> QED BY <3>1 DEF FiniteSubsetsOf
  <2> QED BY <2>1
<1>2. PICK b \in Below : \A c \in Below : <<c, b>> \notin StrictSubsetOrdering(Nat)
  <2> HIDE DEF Below
  <2> QED BY <1>1, FS_StrictSubsetOrderingWellFounded, WFMin
<1>3. PICK x \in S : b = 0 .. x
  OBVIOUS
<1>4. ASSUME NEW y \in S, y < x PROVE FALSE
  <2>1. 0 .. y \in Below /\ 0 .. y \subseteq 0 .. x /\ 0 .. y # 0 .. x
    BY <1>4
  <2>2. <<0 .. y, 0 .. x>> \in StrictSubsetOrdering(Nat)
    BY <2>1 DEF StrictSubsetOrdering
  <2> QED BY <1>2, <1>3, <2>1, <2>2
<1> QED BY <1>4

Classes == 0 .. CLASS_NUM - 1
LargeEnough(n) == {i \in 0 .. CLASS_NUM - 2 : n <= 2 ^ (i + 5)}
Class(n) ==
  IF LargeEnough(n) = {} THEN CLASS_NUM - 1
  ELSE CHOOSE i \in LargeEnough(n) : \A j \in LargeEnough(n) : i <= j
Sentinels == {Sentinel(c) : c \in Classes}

(* find_list names the sentinel of a class, a larger block has no smaller  *)
(* class.                                                                  *)
LEMMA ClassLemma ==
  ASSUME NEW n \in Nat
  PROVE  /\ Class(n) \in Classes /\ find_list(n) = Sentinel(Class(n))
         /\ \A k \in Nat : n <= k => Class(n) <= Class(k)
<1> USE ClassAssumption DEF ClassAssumption, Classes
<1>1. ASSUME NEW k \in Nat
      PROVE  /\ LargeEnough(k) = {} => Class(k) = CLASS_NUM - 1
             /\ LargeEnough(k) # {} => /\ Class(k) \in LargeEnough(k)
                                       /\ \A j \in LargeEnough(k) : Class(k) <= j
  <2>1. LargeEnough(k) \in SUBSET Nat
    BY DEF LargeEnough
  <2>2. LargeEnough(k) # {} =>
          \E i \in LargeEnough(k) : \A j \in LargeEnough(k) : i <= j
    BY <2>1, LeastNumber
  <2> QED BY <2>2 DEF Class
<1>2. \A k \in Nat : Class(k) \in Classes
  BY <1>1 DEF LargeEnough
<1>3. find_list(n) = Sentinel(Class(n))
  BY DEF find_list, Class, LargeEnough
<1>4. ASSUME NEW k \in Nat, n <= k PROVE Class(n) <= Class(k)
  <2>1. \A i \in Nat : 2 ^ (i + 5) \in Int
    OBVIOUS
  <2>2. LargeEnough(k) \subseteq LargeEnough(n)
    BY <1>4, <2>1 DEF LargeEnough
  <2>3. CASE LargeEnough(k) = {}
    BY <1>1, <1>2, <2>3
  <2>4. CASE LargeEnough(k) # {}
    BY <1>1, <2>2, <2>4
  <2> QED BY <2>3, <2>4
<1> QED BY <1>2, <1>3, <1>4

(* Where the sentinels are.                                                *)
LEMMA SentinelLemma ==
  ASSUME NEW c \in Classes
  PROVE  /\ Sentinel(c) \in Nat /\ Sentinel(c) % 8 = 0
         /\ Sentinel(c) = mem_start_brk + c * 24 + 24
         /\ HDRP(Sentinel(c)) = mem_start_brk + c * 24
         /\ Sentinel(c) + 24 <= lists_end
         /\ \A d \in Classes : Sentinel(c) = Sentinel(d) => c = d
         /\ \A d \in Classes : Sentinel(c) < Sentinel(d) => Sentinel(c) + 24 <= Sentinel(d)
         /\ \A d \in Classes : c <= d <=> Sentinel(c) <= Sentinel(d)
  BY MemAssumption, ClassAssumption
  DEF MemAssumption, ClassAssumption, Classes, Sentinel, heap, HSIZE, DSIZE, HDRP, lists_end

(***************************************************************************)
(* Nodes: the header and the two links before every block and sentinel.    *)
(***************************************************************************)
Spaced(X) ==
  /\ \A x \in X : /\ x \in Nat /\ HDRP(x) \in Words
                  /\ HDRP(x) + 8 \in Words /\ HDRP(x) + 16 \in Words
  /\ \A x, y \in X : x < y => x + 24 <= y

(* The nodes X are those of the memory m with one header or link changed.  *)
SameHeaders(m, m2, X) == \A x \in X : Hdr(m2, x) = Hdr(m, x)
SameLinks(m, m2, X) == \A x \in X : PRED(m2, x) = PRED(m, x) /\ SUCC(m2, x) = SUCC(m, x)

(* The words of two nodes differ.                                          *)
LEMMA NodeWords ==
  ASSUME NEW X, Spaced(X), NEW x \in X, NEW y \in X
  PROVE  /\ HDRP(y) \in Words /\ HDRP(y) + 8 \in Words /\ HDRP(y) + 16 \in Words
         /\ HDRP(y) # HDRP(x) + 8 /\ HDRP(y) # HDRP(x) + 16
         /\ HDRP(y) + 8 # HDRP(x) /\ HDRP(y) + 8 # HDRP(x) + 16
         /\ HDRP(y) + 16 # HDRP(x) /\ HDRP(y) + 16 # HDRP(x) + 8
         /\ y # x => /\ HDRP(y) # HDRP(x) /\ HDRP(y) + 8 # HDRP(x) + 8
                     /\ HDRP(y) + 16 # HDRP(x) + 16
<1>1. /\ y \in Nat /\ HDRP(y) = y - 24 /\ x \in Nat /\ HDRP(x) = x - 24
      /\ y # x => y + 24 <= x \/ x + 24 <= y
  BY DEF Spaced, HDRP, HSIZE, DSIZE
<1> QED BY <1>1 DEF Spaced

(* What is read after a write.                                             *)
LEMMA WordWrite ==
  ASSUME NEW m \in [Words -> Nat], NEW a \in Words, NEW v \in Nat
  PROVE  /\ WRITE(m, a, v) \in [Words -> Nat]
         /\ \A b : READ(WRITE(m, a, v), b) = IF b = a THEN v ELSE READ(m, b)
  BY DEF WRITE, READ

(* What the words of a node hold.                                          *)
LEMMA NodeValues ==
  ASSUME NEW X, Spaced(X), NEW m \in [Words -> Nat], NEW x \in X
  PROVE  Hdr(m, x) \in Nat /\ PRED(m, x) \in Nat /\ SUCC(m, x) \in Nat
  BY DEF Spaced, Hdr, PRED, SUCC, READ

(* What a write to one word of a node leaves.                              *)
LEMMA HeaderWrite ==
  ASSUME NEW X, Spaced(X), NEW m \in [Words -> Nat], NEW x \in X, NEW v \in Nat,
         NEW w, w = WRITE(m, HDRP(x), v)
  PROVE  /\ w \in [Words -> Nat] /\ SameLinks(m, w, X)
         /\ \A y \in X : Hdr(w, y) = IF y = x THEN v ELSE Hdr(m, y)
<1>1. w = WRITE(m, HDRP(x), v) /\ HDRP(x) \in Words
  BY NodeWords
<1>2. w \in [Words -> Nat] /\ \A b : READ(w, b) = IF b = HDRP(x) THEN v ELSE READ(m, b)
  BY <1>1, WordWrite
<1> QED BY <1>2, NodeWords DEF PRED, SUCC, Hdr, SameLinks

(* SetPRED changes the previous link of one node and nothing else.        *)
LEMMA PredWrite ==
  ASSUME NEW X, Spaced(X), NEW m \in [Words -> Nat], NEW x \in X, NEW v \in Nat,
         NEW w, w = SetPRED(m, x, v)
  PROVE  /\ w \in [Words -> Nat] /\ SameHeaders(m, w, X)
         /\ \A y \in X : SUCC(w, y) = SUCC(m, y)
         /\ \A y \in X : PRED(w, y) = IF y = x THEN v ELSE PRED(m, y)
<1>1. w = WRITE(m, HDRP(x) + 8, v) /\ HDRP(x) + 8 \in Words
  BY NodeWords DEF SetPRED
<1>2. w \in [Words -> Nat] /\ \A b : READ(w, b) = IF b = HDRP(x) + 8 THEN v ELSE READ(m, b)
  BY <1>1, WordWrite
<1> QED BY <1>2, NodeWords DEF SetPRED, PRED, SUCC, Hdr, SameHeaders

(* SetSUCC changes the next link of one node and nothing else.            *)
LEMMA SuccWrite ==
  ASSUME NEW X, Spaced(X), NEW m \in [Words -> Nat], NEW x \in X, NEW v \in Nat,
         NEW w, w = SetSUCC(m, x, v)
  PROVE  /\ w \in [Words -> Nat] /\ SameHeaders(m, w, X)
         /\ \A y \in X : PRED(w, y) = PRED(m, y)
         /\ \A y \in X : SUCC(w, y) = IF y = x THEN v ELSE SUCC(m, y)
<1>1. w = WRITE(m, HDRP(x) + 16, v) /\ HDRP(x) + 16 \in Words
  BY NodeWords DEF SetSUCC
<1>2. w \in [Words -> Nat] /\ \A b : READ(w, b) = IF b = HDRP(x) + 16 THEN v ELSE READ(m, b)
  BY <1>1, WordWrite
<1> QED BY <1>2, NodeWords DEF SetSUCC, PRED, SUCC, Hdr, SameHeaders

(* Taking a node out of a list: its neighbours are linked to each other.   *)
LEMMA EraseLinks ==
  ASSUME NEW X, Spaced(X), NEW m \in [Words -> Nat], NEW x \in X,
         NEW p \in X, NEW s \in X, p = PRED(m, x), s = SUCC(m, x), p # x, s # x,
         NEW w, w = erase(m, x)
  PROVE  /\ w \in [Words -> Nat] /\ SameHeaders(m, w, X)
         /\ \A y \in X : PRED(w, y) = IF y = s THEN p ELSE PRED(m, y)
         /\ \A y \in X : SUCC(w, y) = IF y = p THEN s ELSE SUCC(m, y)
<1>1. PICK m1 : m1 = SetPRED(m, s, p)
  OBVIOUS
<1>2. w = SetSUCC(m1, PRED(m1, x), SUCC(m1, x))
  BY <1>1 DEF erase, Then
<1>3. p \in Nat /\ s \in Nat
  BY DEF Spaced
<1>4. /\ m1 \in [Words -> Nat] /\ SameHeaders(m, m1, X)
      /\ \A y \in X : SUCC(m1, y) = SUCC(m, y)
      /\ \A y \in X : PRED(m1, y) = IF y = s THEN p ELSE PRED(m, y)
  BY <1>1, <1>3, PredWrite
<1>5. w = SetSUCC(m1, p, s)
  BY <1>2, <1>4
<1>6. /\ w \in [Words -> Nat] /\ SameHeaders(m1, w, X)
      /\ \A y \in X : PRED(w, y) = PRED(m1, y)
      /\ \A y \in X : SUCC(w, y) = IF y = p THEN s ELSE SUCC(m1, y)
  BY <1>3, <1>4, <1>5, SuccWrite
<1> QED BY <1>4, <1>6 DEF SameHeaders

(* Putting a node before the sentinel r of a list, that is at its end.     *)
LEMMA InsertLinks ==
  ASSUME NEW X, Spaced(X), NEW m \in [Words -> Nat], NEW x \in X,
         NEW r \in X, NEW t \in X, t = PRED(m, r), x # r, x # t,
         NEW w, w = InsertIn(m, x, r)
  PROVE  /\ w \in [Words -> Nat] /\ SameHeaders(m, w, X)
         /\ \A y \in X : PRED(w, y) = IF y = x THEN t ELSE IF y = r THEN x ELSE PRED(m, y)
         /\ \A y \in X : SUCC(w, y) = IF y = x THEN r ELSE IF y = t THEN x ELSE SUCC(m, y)
<1>1. PICK m1 : m1 = SetPRED(m, x, t)
  OBVIOUS
<1>2. PICK m2 : m2 = SetSUCC(m1, PRED(m1, x), x)
  OBVIOUS
<1>3. PICK m3 : m3 = SetSUCC(m2, x, r)
  OBVIOUS
<1>4. w = SetPRED(m3, SUCC(m3, x), x)
  BY <1>1, <1>2, <1>3 DEF InsertIn, Then
<1>5. x \in Nat /\ t \in Nat /\ r \in Nat
  BY DEF Spaced
<1>6. /\ m1 \in [Words -> Nat] /\ SameHeaders(m, m1, X)
      /\ \A y \in X : SUCC(m1, y) = SUCC(m, y)
      /\ \A y \in X : PRED(m1, y) = IF y = x THEN t ELSE PRED(m, y)
  BY <1>1, <1>5, PredWrite
<1>7. /\ m2 \in [Words -> Nat] /\ SameHeaders(m1, m2, X)
      /\ \A y \in X : PRED(m2, y) = PRED(m1, y)
      /\ \A y \in X : SUCC(m2, y) = IF y = t THEN x ELSE SUCC(m1, y)
  <2>1. m2 = SetSUCC(m1, t, x)
    BY <1>2, <1>6
  <2>2. PICK v \in Nat : v = x
    BY <1>5
  <2> QED BY <1>6, <2>1, <2>2, SuccWrite
<1>8. /\ m3 \in [Words -> Nat] /\ SameHeaders(m2, m3, X)
      /\ \A y \in X : PRED(m3, y) = PRED(m2, y)
      /\ \A y \in X : SUCC(m3, y) = IF y = x THEN r ELSE SUCC(m2, y)
  BY <1>3, <1>5, <1>7, SuccWrite
<1>9. /\ w \in [Words -> Nat] /\ SameHeaders(m3, w, X)
      /\ \A y \in X : SUCC(w, y) = SUCC(m3, y)
      /\ \A y \in X : PRED(w, y) = IF y = r THEN x ELSE PRED(m3, y)
  <2>1. w = SetPRED(m3, r, x)
    BY <1>4, <1>8
  <2>2. PICK v \in Nat : v = x
    BY <1>5
  <2> QED BY <1>8, <2>1, <2>2, PredWrite
<1> QED BY <1>6, <1>7, <1>8, <1>9 DEF SameHeaders

(***************************************************************************)
(* Lists.                                                                  *)
(***************************************************************************)
(* f goes round the ring of n nodes that starts and ends at the sentinel   *)
(* s, and meets each node of A once.                                       *)
Round(m, s, A, n, f) ==
  /\ f \in [0 .. n + 1 -> Nat] /\ f[0] = s /\ f[n + 1] = s
  /\ \A j \in 0 .. n : SUCC(m, f[j]) = f[j + 1] /\ PRED(m, f[j + 1]) = f[j]
  /\ \A j \in 1 .. n : f[j] \in A
  /\ \A y \in A : \E j \in 1 .. n : f[j] = y
  /\ \A i, j \in 1 .. n : f[i] = f[j] => i = j
Ring(m, s, A) == \E n \in Nat : \E f : Round(m, s, A, n, f)

(* The nodes of a round, and that it meets each once.                      *)
LEMMA RoundNodes ==
  ASSUME NEW m, NEW s, NEW A, NEW n \in Nat, NEW f, Round(m, s, A, n, f)
  PROVE  \A j \in 0 .. n + 1 : f[j] \in A \union {s}
<1>1. /\ f[0] = s /\ f[n + 1] = s /\ \A j \in 1 .. n : f[j] \in A
  BY DEF Round
<1>2. \A j \in 0 .. n + 1 : j = 0 \/ j = n + 1 \/ j \in 1 .. n
  OBVIOUS
<1> QED BY <1>1, <1>2

(* A round meets a member once.                                           *)
LEMMA RoundOnce ==
  ASSUME NEW m, NEW s, NEW A, NEW n \in Nat, NEW f, Round(m, s, A, n, f), s \notin A,
         NEW i \in 1 .. n, NEW j \in 0 .. n + 1, f[i] = f[j]
  PROVE  i = j
<1>1. /\ f[0] = s /\ f[n + 1] = s /\ \A k \in 1 .. n : f[k] \in A
      /\ \A k, l \in 1 .. n : f[k] = f[l] => k = l
  BY DEF Round
<1>2. f[j] # s
  BY <1>1
<1>3. j \in 1 .. n
  BY <1>1, <1>2
<1> QED BY <1>1, <1>3

(* A ring whose links are not touched.                                     *)
LEMMA RoundFrame ==
  ASSUME NEW m, NEW w, NEW s, NEW A, s \notin A, SameLinks(m, w, A \union {s}),
         NEW n \in Nat, NEW f, Round(m, s, A, n, f)
  PROVE  Round(w, s, A, n, f)
<1>1. \A j \in 0 .. n + 1 : f[j] \in A \union {s}
  BY RoundNodes
<1>2. \A j \in 0 .. n : j \in 0 .. n + 1 /\ j + 1 \in 0 .. n + 1
  OBVIOUS
<1>3. \A j \in 0 .. n : SUCC(m, f[j]) = f[j + 1] /\ PRED(m, f[j + 1]) = f[j]
  BY DEF Round
<1>4. \A j \in 0 .. n : SUCC(w, f[j]) = f[j + 1] /\ PRED(w, f[j + 1]) = f[j]
  BY <1>1, <1>2, <1>3 DEF SameLinks
<1> QED BY <1>4 DEF Round

(* A ring depends on the links of its own nodes only.                     *)
LEMMA RingFrame ==
  ASSUME NEW m, NEW w, NEW s, NEW A, s \notin A, Ring(m, s, A),
         SameLinks(m, w, A \union {s})
  PROVE  Ring(w, s, A)
  BY RoundFrame DEF Ring

(* The neighbours of a node of a ring.                                     *)
LEMMA RingNeighbours ==
  ASSUME NEW m, NEW s, NEW A, s \notin A, Ring(m, s, A), NEW x \in A \union {s}
  PROVE  /\ PRED(m, x) \in A \union {s} /\ SUCC(m, x) \in A \union {s}
         /\ x \in A => PRED(m, x) # x /\ SUCC(m, x) # x
<1>1. PICK n \in Nat : \E f : Round(m, s, A, n, f)
  BY DEF Ring
<1>2. PICK f : Round(m, s, A, n, f)
  BY <1>1
<1>3. \A j \in 0 .. n + 1 : f[j] \in A \union {s}
  BY <1>2, RoundNodes
<1>4. CASE x = s
  <2>1. SUCC(m, s) = f[1] /\ PRED(m, s) = f[n]
    BY <1>2 DEF Round
  <2> QED BY <1>3, <1>4, <2>1
<1>5. CASE x \in A
  <2>1. PICK j \in 1 .. n : f[j] = x
    BY <1>2, <1>5 DEF Round
  <2>2. j - 1 \in 0 .. n /\ j \in 0 .. n /\ j + 1 \in 0 .. n + 1 /\ (j - 1) + 1 = j
    OBVIOUS
  <2>3. SUCC(m, x) = f[j + 1] /\ PRED(m, x) = f[j - 1]
    BY <1>2, <2>1, <2>2 DEF Round
  <2>4. f[j + 1] # x /\ f[j - 1] # x
    <3>1. \A i \in 0 .. n + 1 : f[j] = f[i] => j = i
      BY <1>2, RoundOnce
    <3>2. j + 1 # j /\ j - 1 # j /\ j - 1 \in 0 .. n + 1
      OBVIOUS
    <3> QED BY <2>1, <2>2, <3>1, <3>2
  <2> QED BY <1>3, <2>2, <2>3, <2>4
<1> QED BY <1>4, <1>5

(* A node taken out of a ring.                                             *)
LEMMA RingErase ==
  ASSUME NEW m, NEW w, NEW s, NEW A, s \notin A, Ring(m, s, A), NEW x \in A,
         \A y \in A \union {s} :
           PRED(w, y) = IF y = SUCC(m, x) THEN PRED(m, x) ELSE PRED(m, y),
         \A y \in A \union {s} :
           SUCC(w, y) = IF y = PRED(m, x) THEN SUCC(m, x) ELSE SUCC(m, y)
  PROVE  Ring(w, s, A \ {x})
<1>1. PICK n \in Nat : \E f : Round(m, s, A, n, f)
  BY DEF Ring
<1>2. PICK f : Round(m, s, A, n, f)
  BY <1>1
<1>3. PICK k \in 1 .. n : f[k] = x
  BY <1>2 DEF Round
<1>4. /\ \A j \in 0 .. n + 1 : f[j] \in A \union {s}
      /\ \A i \in 1 .. n, j \in 0 .. n + 1 : f[i] = f[j] => i = j
  <2>1. \A j \in 0 .. n + 1 : f[j] \in A \union {s}
    BY <1>2, RoundNodes
  <2>2. \A i \in 1 .. n, j \in 0 .. n + 1 : f[i] = f[j] => i = j
    BY <1>2, RoundOnce
  <2> QED BY <2>1, <2>2
<1>5. PRED(m, x) = f[k - 1] /\ SUCC(m, x) = f[k + 1]
  <2>1. k - 1 \in 0 .. n /\ k \in 0 .. n /\ (k - 1) + 1 = k
    OBVIOUS
  <2> QED BY <1>2, <1>3, <2>1 DEF Round
<1> DEFINE g == [j \in 0 .. n |-> IF j < k THEN f[j] ELSE f[j + 1]]
<1>6. \A j \in 0 .. n : g[j] = IF j < k THEN f[j] ELSE f[j + 1]
  OBVIOUS
<1>7. \A j \in 0 .. n - 1 : SUCC(w, g[j]) = g[j + 1] /\ PRED(w, g[j + 1]) = g[j]
  <2> SUFFICES ASSUME NEW j \in 0 .. n - 1
               PROVE  SUCC(w, g[j]) = g[j + 1] /\ PRED(w, g[j + 1]) = g[j]
    OBVIOUS
  <2>0. j \in Int /\ j \in 0 .. n /\ j + 1 \in 0 .. n /\ j + 1 \in 0 .. n + 1
        /\ j + 2 \in 0 .. n + 1 /\ (j + 1) + 1 = j + 2
    OBVIOUS
  <2>1. CASE j + 1 < k
    <3>1. g[j] = f[j] /\ g[j + 1] = f[j + 1]
      BY <1>6, <2>0, <2>1
    <3>2. SUCC(m, f[j]) = f[j + 1] /\ PRED(m, f[j + 1]) = f[j]
      BY <1>2, <2>0 DEF Round
    <3>3. f[j + 1] # f[k + 1]
      BY <1>4, <2>0, <2>1
    <3>4. f[j] # f[k - 1]
      <4>1. CASE j >= 1
        BY <1>4, <2>0, <2>1, <4>1
      <4>2. CASE j = 0
        BY <1>4, <2>0, <2>1, <4>2
      <4> QED BY <2>0, <4>1, <4>2
    <3> QED BY <1>4, <1>5, <2>0, <3>1, <3>2, <3>3, <3>4
  <2>2. CASE j + 1 = k
    <3>1. g[j] = f[k - 1] /\ g[j + 1] = f[k + 1]
      BY <1>6, <2>0, <2>2
    <3> QED BY <1>4, <1>5, <2>0, <2>2, <3>1
  <2>3. CASE j >= k
    <3>1. g[j] = f[j + 1] /\ g[j + 1] = f[j + 2]
      BY <1>6, <2>0, <2>3
    <3>2. SUCC(m, f[j + 1]) = f[j + 2] /\ PRED(m, f[j + 2]) = f[j + 1]
      <4>1. j + 1 \in 0 .. n
        BY <2>0
      <4> QED BY <1>2, <2>0, <4>1 DEF Round
    <3>3. f[j + 1] # f[k - 1]
      BY <1>4, <2>0, <2>3
    <3>4. f[j + 2] # f[k + 1]
      BY <1>4, <2>0, <2>3
    <3> QED BY <1>4, <1>5, <2>0, <3>1, <3>2, <3>3, <3>4
  <2> QED BY <2>0, <2>1, <2>2, <2>3
<1>8. Round(w, s, A \ {x}, n - 1, g)
  <2>1. g \in [0 .. (n - 1) + 1 -> Nat]
    <3>1. \A j \in 0 .. n : f[j] \in Nat /\ f[j + 1] \in Nat
      BY <1>2 DEF Round
    <3> QED BY <3>1
  <2>2. g[0] = s /\ g[(n - 1) + 1] = s
    BY <1>2, <1>6 DEF Round
  <2>3. \A j \in 1 .. n - 1 : g[j] \in A \ {x}
    BY <1>2, <1>3, <1>4, <1>6 DEF Round
  <2>4. ASSUME NEW y \in A \ {x} PROVE \E j \in 1 .. n - 1 : g[j] = y
    <3>1. PICK i \in 1 .. n : f[i] = y /\ i # k
      BY <1>2, <1>3, <2>4 DEF Round
    <3>2. CASE i < k
      <4>1. i \in 1 .. n - 1 /\ i \in 0 .. n
        BY <3>1, <3>2
      <4> QED BY <1>6, <3>1, <3>2, <4>1
    <3>3. CASE i > k
      <4>1. i - 1 \in 1 .. n - 1 /\ ~ (i - 1 < k) /\ (i - 1) + 1 = i /\ i - 1 \in 0 .. n
        BY <3>3
      <4> QED BY <1>6, <3>1, <4>1
    <3>4. i < k \/ i > k
      BY <3>1
    <3> QED BY <3>2, <3>3, <3>4
  <2>5. ASSUME NEW i \in 1 .. n - 1, NEW j \in 1 .. n - 1, g[i] = g[j] PROVE i = j
    <3>1. /\ i \in 0 .. n /\ j \in 0 .. n /\ i \in 1 .. n /\ j \in 1 .. n
          /\ i + 1 \in 1 .. n /\ j + 1 \in 1 .. n /\ i \in Int /\ j \in Int
      OBVIOUS
    <3>2. /\ g[i] = IF i < k THEN f[i] ELSE f[i + 1]
          /\ g[j] = IF j < k THEN f[j] ELSE f[j + 1]
      BY <1>6, <3>1
    <3>3. \A a, b \in 1 .. n : f[a] = f[b] => a = b
      BY <1>2 DEF Round
    <3> HIDE DEF g
    <3>4. CASE i < k /\ j < k
      BY <2>5, <3>1, <3>2, <3>3, <3>4
    <3>5. CASE i < k /\ ~ (j < k)
      <4>1. f[i] = f[j + 1]
        BY <2>5, <3>2, <3>5
      <4>2. i = j + 1
        BY <3>1, <3>3, <4>1
      <4> QED BY <3>1, <3>5, <4>2
    <3>6. CASE ~ (i < k) /\ j < k
      <4>1. f[i + 1] = f[j]
        BY <2>5, <3>2, <3>6
      <4>2. i + 1 = j
        BY <3>1, <3>3, <4>1
      <4> QED BY <3>1, <3>6, <4>2
    <3>7. CASE ~ (i < k) /\ ~ (j < k)
      <4>1. f[i + 1] = f[j + 1]
        BY <2>5, <3>2, <3>7
      <4>2. i + 1 = j + 1
        BY <3>1, <3>3, <4>1
      <4> QED BY <3>1, <4>2
    <3> QED BY <3>4, <3>5, <3>6, <3>7
  <2> QED BY <1>7, <2>1, <2>2, <2>3, <2>4, <2>5 DEF Round
<1>9. n - 1 \in Nat
  OBVIOUS
<1> QED BY <1>8, <1>9 DEF Ring

(* A node put at the end of a ring.                                        *)
LEMMA RingInsert ==
  ASSUME NEW m, NEW w, NEW s, NEW A, s \notin A, Ring(m, s, A), NEW x \in Nat,
         x \notin A, x # s,
         \A y \in A \union {s, x} :
           PRED(w, y) = IF y = x THEN PRED(m, s) ELSE IF y = s THEN x ELSE PRED(m, y),
         \A y \in A \union {s, x} :
           SUCC(w, y) = IF y = x THEN s ELSE IF y = PRED(m, s) THEN x ELSE SUCC(m, y)
  PROVE  Ring(w, s, A \union {x})
<1>1. PICK n \in Nat : \E f : Round(m, s, A, n, f)
  BY DEF Ring
<1>2. PICK f : Round(m, s, A, n, f)
  BY <1>1
<1>4. /\ \A j \in 0 .. n + 1 : f[j] \in A \union {s}
      /\ \A i \in 1 .. n, j \in 0 .. n + 1 : f[i] = f[j] => i = j
  <2>1. \A j \in 0 .. n + 1 : f[j] \in A \union {s}
    BY <1>2, RoundNodes
  <2>2. \A i \in 1 .. n, j \in 0 .. n + 1 : f[i] = f[j] => i = j
    BY <1>2, RoundOnce
  <2> QED BY <2>1, <2>2
<1>5. PRED(m, s) = f[n]
  BY <1>2 DEF Round
<1> DEFINE g == [j \in 0 .. n + 2 |-> IF j <= n THEN f[j] ELSE IF j = n + 1 THEN x ELSE s]
<1>6. \A j \in 0 .. n + 2 : g[j] = IF j <= n THEN f[j] ELSE IF j = n + 1 THEN x ELSE s
  OBVIOUS
<1>7. \A j \in 0 .. n + 1 : SUCC(w, g[j]) = g[j + 1] /\ PRED(w, g[j + 1]) = g[j]
  <2> SUFFICES ASSUME NEW j \in 0 .. n + 1
               PROVE  SUCC(w, g[j]) = g[j + 1] /\ PRED(w, g[j + 1]) = g[j]
    OBVIOUS
  <2>1. CASE j < n
    <3>1. g[j] = f[j] /\ g[j + 1] = f[j + 1] /\ j \in 0 .. n /\ j + 1 \in 1 .. n
      BY <1>6, <2>1
    <3>2. SUCC(m, f[j]) = f[j + 1] /\ PRED(m, f[j + 1]) = f[j]
      BY <1>2, <3>1 DEF Round
    <3>3. f[j] # f[n]
      BY <1>4, <2>1, <3>1
    <3>4. f[j + 1] # s /\ f[j] # x /\ f[j + 1] # x
      BY <1>2, <1>4, <2>1, <3>1 DEF Round
    <3> QED BY <1>4, <1>5, <2>1, <3>1, <3>2, <3>3, <3>4
  <2>2. CASE j = n
    <3>1. g[j] = f[n] /\ g[j + 1] = x /\ f[n] \in A \union {s}
      BY <1>4, <1>6, <2>2
    <3> QED BY <1>5, <3>1
  <2>3. CASE j = n + 1
    <3>1. g[j] = x /\ g[j + 1] = s
      BY <1>6, <2>3
    <3> QED BY <3>1
  <2> QED BY <2>1, <2>2, <2>3
<1>8. Round(w, s, A \union {x}, n + 1, g)
  <2>1. g \in [0 .. (n + 1) + 1 -> Nat]
    BY <1>2 DEF Round
  <2>2. g[0] = s /\ g[(n + 1) + 1] = s
    BY <1>2, <1>6 DEF Round
  <2>3. \A j \in 1 .. n + 1 : g[j] \in A \union {x}
    BY <1>2, <1>6 DEF Round
  <2>4. ASSUME NEW y \in A \union {x} PROVE \E j \in 1 .. n + 1 : g[j] = y
    <3>1. CASE y = x
      BY <1>6, <3>1
    <3>2. CASE y \in A
      <4>1. PICK i \in 1 .. n : f[i] = y
        BY <1>2, <3>2 DEF Round
      <4> QED BY <1>6, <4>1
    <3> QED BY <3>1, <3>2
  <2>5. \A i, j \in 1 .. n + 1 : g[i] = g[j] => i = j
    BY <1>2, <1>6 DEF Round
  <2> QED BY <1>7, <2>1, <2>2, <2>3, <2>4, <2>5 DEF Round
<1> QED BY <1>8 DEF Ring

(***************************************************************************)
(* The lists of all classes: M[c] is the set of the blocks in list c.      *)
(***************************************************************************)
Nodes(B) == Sentinels \union B
Apart(M) == \A c, d \in Classes : c # d => M[c] \cap M[d] = {}
Lists(m, B, M) ==
  /\ m \in [Words -> Nat] /\ Spaced(Nodes(B)) /\ B \cap Sentinels = {}
  /\ M \in [Classes -> SUBSET B] /\ Apart(M)
  /\ \A c \in Classes : Ring(m, Sentinel(c), M[c])

(* The nodes of a list, and of two lists.                                  *)
LEMMA ListNodes ==
  ASSUME NEW m, NEW B, NEW M, Lists(m, B, M), NEW c \in Classes
  PROVE  /\ M[c] \subseteq B /\ M[c] \union {Sentinel(c)} \subseteq Nodes(B)
         /\ Sentinel(c) \notin B /\ Sentinel(c) \notin M[c]
         /\ \A d \in Classes : c # d =>
              (M[c] \union {Sentinel(c)}) \cap (M[d] \union {Sentinel(d)}) = {}
<1>1. Sentinel(c) \in Sentinels /\ M[c] \subseteq B /\ Sentinel(c) \notin B
  BY DEF Lists, Sentinels
<1>2. ASSUME NEW d \in Classes, c # d
      PROVE  (M[c] \union {Sentinel(c)}) \cap (M[d] \union {Sentinel(d)}) = {}
  <2>1. Sentinel(d) \in Sentinels /\ M[d] \subseteq B /\ Sentinel(d) \notin B
    BY DEF Lists, Sentinels
  <2>2. Sentinel(c) # Sentinel(d)
    BY <1>2, SentinelLemma
  <2>3. M[c] \cap M[d] = {}
    BY <1>2 DEF Lists, Apart
  <2> QED BY <1>1, <2>1, <2>2, <2>3
<1> QED BY <1>1, <1>2 DEF Nodes

(* A write that leaves all links leaves all lists.                         *)
LEMMA ListsFrame ==
  ASSUME NEW m, NEW B, NEW M, Lists(m, B, M), NEW w \in [Words -> Nat],
         \A c \in Classes : SameLinks(m, w, M[c] \union {Sentinel(c)})
  PROVE  Lists(w, B, M)
<1>1. ASSUME NEW c \in Classes PROVE Ring(w, Sentinel(c), M[c])
  <2>1. Sentinel(c) \notin M[c]
    BY ListNodes
  <2>2. Ring(m, Sentinel(c), M[c]) /\ SameLinks(m, w, M[c] \union {Sentinel(c)})
    BY DEF Lists
  <2> QED BY <2>1, <2>2, RingFrame
<1> QED BY <1>1 DEF Lists

(* erase takes a block out of its list.                                    *)
LEMMA EraseBlock ==
  ASSUME NEW m, NEW B, NEW M, Lists(m, B, M), NEW c \in Classes, NEW x \in M[c],
         NEW w, w = erase(m, x)
  PROVE  /\ SameHeaders(m, w, Nodes(B))
         /\ \E M2 : /\ Lists(w, B, M2)
                    /\ \A d \in Classes : \A b : b \in M2[d] <=> b \in M[d] /\ b # x
<1> DEFINE M2 == [d \in Classes |-> IF d = c THEN M[c] \ {x} ELSE M[d]]
           X == Nodes(B)
           A == M[c]
           s == Sentinel(c)
<1>1. Spaced(X) /\ m \in [Words -> Nat] /\ Ring(m, s, A) /\ M \in [Classes -> SUBSET B]
  BY DEF Lists
<1>2. A \union {s} \subseteq X /\ s \notin A /\ x \in X
  BY ListNodes
<1>3. PICK p : p = PRED(m, x)
  OBVIOUS
<1>4. PICK q : q = SUCC(m, x)
  OBVIOUS
<1>5. p \in A \union {s} /\ q \in A \union {s} /\ p # x /\ q # x
  <2> HIDE DEF A, s
  <2>1. x \in A \union {s}
    BY DEF A
  <2> QED BY <1>1, <1>2, <1>3, <1>4, <2>1, RingNeighbours DEF A
<1>6. /\ w \in [Words -> Nat] /\ SameHeaders(m, w, X)
      /\ \A y \in X : PRED(w, y) = IF y = q THEN p ELSE PRED(m, y)
      /\ \A y \in X : SUCC(w, y) = IF y = p THEN q ELSE SUCC(m, y)
  <2> HIDE DEF X, A, s
  <2>1. p \in X /\ q \in X
    BY <1>2, <1>5
  <2> QED BY <1>1, <1>2, <1>3, <1>4, <1>5, <2>1, EraseLinks
<1>7. Ring(w, s, A \ {x})
  <2> HIDE DEF X, s
  <2>1. /\ \A y \in A \union {s} : PRED(w, y) = IF y = SUCC(m, x) THEN PRED(m, x) ELSE PRED(m, y)
        /\ \A y \in A \union {s} : SUCC(w, y) = IF y = PRED(m, x) THEN SUCC(m, x) ELSE SUCC(m, y)
    BY <1>2, <1>3, <1>4, <1>6
  <2> HIDE DEF A
  <2> QED BY <1>1, <1>2, <2>1, RingErase DEF A
<1>8. ASSUME NEW d \in Classes, d # c PROVE Ring(w, Sentinel(d), M[d])
  <2>1. /\ M[d] \union {Sentinel(d)} \subseteq X /\ Sentinel(d) \notin M[d]
        /\ (A \union {s}) \cap (M[d] \union {Sentinel(d)}) = {}
    BY <1>8, ListNodes
  <2>2. SameLinks(m, w, M[d] \union {Sentinel(d)})
    <3> HIDE DEF X, A, s
    <3> QED BY <1>5, <1>6, <2>1 DEF SameLinks
  <2>3. Ring(m, Sentinel(d), M[d])
    BY DEF Lists
  <2> QED BY <2>1, <2>2, <2>3, RingFrame
<1>9. \A d \in Classes : M2[d] = IF d = c THEN A \ {x} ELSE M[d]
  BY <1>1
<1>10. M2 \in [Classes -> SUBSET B] /\ Apart(M2)
  <2>1. Apart(M)
    BY DEF Lists
  <2> QED BY <1>1, <1>9, <2>1 DEF Apart
<1>11. \A d \in Classes : Ring(w, Sentinel(d), M2[d])
  BY <1>7, <1>8, <1>9
<1>12. Lists(w, B, M2)
  <2> HIDE DEF M2
  <2> QED BY <1>6, <1>10, <1>11 DEF Lists
<1> HIDE DEF M2
<1>13. ASSUME NEW d \in Classes, NEW b PROVE b \in M2[d] <=> b \in M[d] /\ b # x
  <2>1. d # c => x \notin M[d]
    BY DEF Lists, Apart
  <2> QED BY <1>9, <2>1
<1> QED BY <1>6, <1>12, <1>13

(* insert puts a block in the list of its size.                            *)
LEMMA InsertBlock ==
  ASSUME NEW m, NEW B, NEW M, Lists(m, B, M), NEW x \in B, \A d \in Classes : x \notin M[d],
         NEW n \in Nat, n = Size(m, x), NEW w, w = insert(m, x)
  PROVE  /\ SameHeaders(m, w, Nodes(B))
         /\ \E M2 : /\ Lists(w, B, M2)
                    /\ \A d \in Classes : \A b :
                         b \in M2[d] <=> b \in M[d] \/ (b = x /\ d = Class(n))
<1>. PICK c : c = Class(n)
  OBVIOUS
<1> DEFINE M2 == [d \in Classes |-> IF d = c THEN M[c] \union {x} ELSE M[d]]
<1>0. c \in Classes /\ w = InsertIn(m, x, Sentinel(c))
  <2>1. find_list(n) = Sentinel(c) /\ c \in Classes
    BY ClassLemma
  <2> QED BY <2>1 DEF insert, Then, Size
<1> DEFINE X == Nodes(B)
           A == M[c]
           s == Sentinel(c)
<1>1. Spaced(X) /\ m \in [Words -> Nat] /\ Ring(m, s, A) /\ M \in [Classes -> SUBSET B]
  BY <1>0 DEF Lists
<1>2. A \union {s} \subseteq X /\ s \notin A /\ x \in X /\ x # s /\ x \notin A
  BY <1>0, ListNodes DEF Nodes
<1>3. PICK t : t = PRED(m, s)
  OBVIOUS
<1>4. t \in A \union {s} /\ t # x
  <2> HIDE DEF A, s
  <2>1. s \in A \union {s}
    OBVIOUS
  <2> QED BY <1>1, <1>2, <1>3, <2>1, RingNeighbours
<1>5. /\ w \in [Words -> Nat] /\ SameHeaders(m, w, X)
      /\ \A y \in X : PRED(w, y) = IF y = x THEN t ELSE IF y = s THEN x ELSE PRED(m, y)
      /\ \A y \in X : SUCC(w, y) = IF y = x THEN s ELSE IF y = t THEN x ELSE SUCC(m, y)
  <2> HIDE DEF X, A
  <2>1. s \in X /\ t \in X
    BY <1>2, <1>4
  <2>2. PICK r : r = s
    OBVIOUS
  <2>3. w = InsertIn(m, x, r)
    BY <1>0, <2>2
  <2> HIDE DEF s
  <2> QED BY <1>1, <1>2, <1>3, <1>4, <2>1, <2>2, <2>3, InsertLinks
<1>6. x \in Nat
  BY <1>1, <1>2 DEF Spaced
<1>7. Ring(w, s, A \union {x})
  <2> HIDE DEF X, s, A
  <2>1. /\ \A y \in A \union {s, x} :
             PRED(w, y) = IF y = x THEN PRED(m, s) ELSE IF y = s THEN x ELSE PRED(m, y)
        /\ \A y \in A \union {s, x} :
             SUCC(w, y) = IF y = x THEN s ELSE IF y = PRED(m, s) THEN x ELSE SUCC(m, y)
    BY <1>2, <1>3, <1>5
  <2> QED BY <1>1, <1>2, <1>6, <2>1, RingInsert
<1>8. ASSUME NEW d \in Classes, d # c PROVE Ring(w, Sentinel(d), M[d])
  <2>1. /\ M[d] \union {Sentinel(d)} \subseteq X /\ Sentinel(d) \notin M[d]
        /\ (A \union {s}) \cap (M[d] \union {Sentinel(d)}) = {}
        /\ x \notin M[d] \union {Sentinel(d)}
    BY <1>0, <1>8, ListNodes
  <2>2. SameLinks(m, w, M[d] \union {Sentinel(d)})
    <3> HIDE DEF X, A, s
    <3> QED BY <1>4, <1>5, <2>1 DEF SameLinks
  <2>3. Ring(m, Sentinel(d), M[d])
    BY DEF Lists
  <2> QED BY <2>1, <2>2, <2>3, RingFrame
<1>9. \A d \in Classes : M2[d] = IF d = c THEN A \union {x} ELSE M[d]
  BY <1>0, <1>1
<1>10. M2 \in [Classes -> SUBSET B] /\ Apart(M2)
  <2>1. Apart(M)
    BY DEF Lists
  <2> QED BY <1>0, <1>1, <1>9, <2>1 DEF Apart
<1>11. \A d \in Classes : Ring(w, Sentinel(d), M2[d])
  BY <1>7, <1>8, <1>9
<1>12. Lists(w, B, M2)
  <2> HIDE DEF M2
  <2> QED BY <1>5, <1>10, <1>11 DEF Lists
<1> HIDE DEF M2
<1>13. \A d \in Classes : \A b : b \in M2[d] <=> b \in M[d] \/ (b = x /\ d = Class(n))
  BY <1>9
<1> QED BY <1>5, <1>12, <1>13

(* A header is written.                                                    *)
LEMMA HeaderBlock ==
  ASSUME NEW m, NEW B, NEW M, Lists(m, B, M), NEW x \in B, NEW v \in Nat,
         NEW w, w = WRITE(m, HDRP(x), v)
  PROVE  /\ Lists(w, B, M)
         /\ \A y \in Nodes(B) : Hdr(w, y) = IF y = x THEN v ELSE Hdr(m, y)
<1>1. Spaced(Nodes(B)) /\ m \in [Words -> Nat] /\ x \in Nodes(B)
  BY DEF Lists, Nodes
<1>2. /\ w \in [Words -> Nat] /\ SameLinks(m, w, Nodes(B))
      /\ \A y \in Nodes(B) : Hdr(w, y) = IF y = x THEN v ELSE Hdr(m, y)
  BY <1>1, HeaderWrite
<1>3. \A c \in Classes : SameLinks(m, w, M[c] \union {Sentinel(c)})
  BY <1>2, ListNodes DEF SameLinks
<1> QED BY <1>2, <1>3, ListsFrame

(***************************************************************************)
(* Tilings: block b of the blocks B has size z[b], the first one starts at *)
(* lo, the last one ends at hi.                                            *)
(***************************************************************************)
Tiles(B, z, lo, hi) ==
  /\ B \subseteq Nat /\ lo \in B \union {hi} /\ lo <= hi
  /\ \A b \in B : /\ b % 8 = 0 /\ lo <= b
                  /\ z[b] \in Nat /\ z[b] % 8 = 0 /\ z[b] >= 24
                  /\ b + z[b] \in B \union {hi} /\ b + z[b] <= hi
                  /\ \A c \in B : b < c => b + z[b] <= c

(* A block absorbs the next one.                                           *)
LEMMA TilesMerge ==
  ASSUME NEW B, NEW z, NEW lo \in Nat, NEW hi \in Nat, Tiles(B, z, lo, hi),
         NEW x \in B, NEW y \in B, y = x + z[x], NEW z2, z2[x] = z[x] + z[y],
         \A b \in B \ {x, y} : z2[b] = z[b]
  PROVE  Tiles(B \ {y}, z2, lo, hi) /\ x # y
<1>1. \A b \in B : /\ b \in Nat /\ b % 8 = 0 /\ lo <= b
                   /\ z[b] \in Nat /\ z[b] % 8 = 0 /\ z[b] >= 24
                   /\ b + z[b] \in B \union {hi} /\ b + z[b] <= hi
                   /\ \A c \in B : b < c => b + z[b] <= c
  BY DEF Tiles
<1>2. x < y /\ lo < y /\ y < hi
  BY <1>1
<1>3. ASSUME NEW b \in B \ {y}
      PROVE  /\ z2[b] \in Nat /\ z2[b] % 8 = 0 /\ z2[b] >= 24
             /\ b + z2[b] \in (B \ {y}) \union {hi} /\ b + z2[b] <= hi
             /\ \A c \in B \ {y} : b < c => b + z2[b] <= c
  <2>1. CASE b = x
    <3>1. b + z2[b] = y + z[y] /\ z2[b] \in Nat /\ z2[b] % 8 = 0 /\ z2[b] >= 24
      BY <1>1, <2>1
    <3>2. y + z[y] > y
      BY <1>1
    <3>3. \A c \in B \ {y} : x < c => y + z[y] <= c
      <4> TAKE c \in B \ {y}
      <4> HAVE x < c
      <4>1. y <= c /\ y # c
        BY <1>1
      <4>2. y < c
        BY <1>1, <4>1
      <4> QED BY <1>1, <4>2
    <3> QED BY <1>1, <2>1, <3>1, <3>2, <3>3
  <2>2. CASE b # x
    <3>1. z2[b] = z[b]
      BY <2>2
    <3>2. b + z[b] # y
      <4>1. b < x \/ x < b
        BY <1>1, <2>2
      <4>2. CASE b < x
        BY <1>1, <1>2, <4>2
      <4>3. CASE x < b
        <5>1. y <= b
          BY <1>1, <4>3
        <5> QED BY <1>1, <5>1
      <4> QED BY <4>1, <4>2, <4>3
    <3> QED BY <1>1, <3>1, <3>2
  <2> QED BY <2>1, <2>2
<1>4. B \ {y} \subseteq Nat /\ lo \in (B \ {y}) \union {hi} /\ lo <= hi /\ x # y
  <2>1. B \subseteq Nat /\ lo \in B \union {hi} /\ lo <= hi
    BY DEF Tiles
  <2>2. x # y /\ lo # y
    BY <1>1, <1>2
  <2> QED BY <2>1, <2>2
<1>5. \A b \in B \ {y} : b % 8 = 0 /\ lo <= b
  BY <1>1
<1> QED BY <1>3, <1>4, <1>5 DEF Tiles

(* A block is cut in two.                                                  *)
LEMMA TilesCut ==
  ASSUME NEW B, NEW z, NEW lo \in Nat, NEW hi \in Nat, Tiles(B, z, lo, hi),
         NEW x \in B, NEW n \in Nat, n % 8 = 0, n >= 24, z[x] >= n + 24,
         NEW y, y = x + n, NEW z2, z2[x] = n, z2[y] = z[x] - n,
         \A b \in B \ {x} : z2[b] = z[b]
  PROVE  Tiles(B \union {y}, z2, lo, hi) /\ y \notin B
<1>1. \A b \in B : /\ b \in Nat /\ b % 8 = 0 /\ lo <= b
                   /\ z[b] \in Nat /\ z[b] % 8 = 0 /\ z[b] >= 24
                   /\ b + z[b] \in B \union {hi} /\ b + z[b] <= hi
                   /\ \A c \in B : b < c => b + z[b] <= c
  BY DEF Tiles
<1>2. /\ y \in Nat /\ y % 8 = 0 /\ x < y /\ y < x + z[x]
      /\ z2[y] \in Nat /\ z2[y] % 8 = 0 /\ z2[y] >= 24 /\ y + z2[y] = x + z[x]
  BY <1>1
<1>3. y \notin B
  BY <1>1, <1>2
<1>4. \A b \in B : b < y => b <= x
  BY <1>1, <1>2
<1>5. \A b \in B : y < b => x + z[x] <= b
  BY <1>1, <1>2
<1>6. ASSUME NEW b \in B \union {y}
      PROVE  /\ b % 8 = 0 /\ lo <= b
             /\ z2[b] \in Nat /\ z2[b] % 8 = 0 /\ z2[b] >= 24
             /\ b + z2[b] \in (B \union {y}) \union {hi} /\ b + z2[b] <= hi
             /\ \A c \in B \union {y} : b < c => b + z2[b] <= c
  <2>1. CASE b = y
    BY <1>1, <1>2, <1>5, <2>1
  <2>2. CASE b = x
    <3>1. b + z2[b] = y
      BY <2>2
    <3>2. \A c \in B : x < c => y <= c
      BY <1>1, <1>2, <1>5
    <3> QED BY <1>1, <1>2, <2>2, <3>1, <3>2
  <2>3. CASE b \in B \ {x}
    <3>1. z2[b] = z[b]
      BY <2>3
    <3>2. b < y => b + z[b] <= y
      <4> HAVE b < y
      <4>1. b < x
        BY <1>1, <1>4, <2>3
      <4> QED BY <1>1, <1>2, <2>3, <4>1
    <3> QED BY <1>1, <2>3, <3>1, <3>2
  <2> QED BY <2>1, <2>2, <2>3
<1> QED BY <1>1, <1>2, <1>3, <1>6 DEF Tiles

(* The end of the heap becomes a block.                                    *)
LEMMA TilesExtend ==
  ASSUME NEW B, NEW z, NEW lo \in Nat, NEW hi \in Nat, hi % 8 = 0, Tiles(B, z, lo, hi),
         NEW n \in Nat, n % 8 = 0, n >= 24, NEW z2, z2[hi] = n,
         \A b \in B : z2[b] = z[b]
  PROVE  Tiles(B \union {hi}, z2, lo, hi + n) /\ hi \notin B
<1>1. \A b \in B : /\ b \in Nat /\ b % 8 = 0 /\ lo <= b
                   /\ z[b] \in Nat /\ z[b] % 8 = 0 /\ z[b] >= 24
                   /\ b + z[b] \in B \union {hi} /\ b + z[b] <= hi
                   /\ \A c \in B : b < c => b + z[b] <= c
  BY DEF Tiles
<1>2. lo \in B \union {hi} /\ lo <= hi
  BY DEF Tiles
<1>3. \A b \in B : b < hi
  BY <1>1
<1>4. ASSUME NEW b \in B \union {hi}
      PROVE  /\ b % 8 = 0 /\ lo <= b
             /\ z2[b] \in Nat /\ z2[b] % 8 = 0 /\ z2[b] >= 24
             /\ b + z2[b] \in (B \union {hi}) \union {hi + n} /\ b + z2[b] <= hi + n
             /\ \A c \in B \union {hi} : b < c => b + z2[b] <= c
  <2>1. CASE b = hi
    BY <1>2, <1>3, <2>1
  <2>2. CASE b \in B
    BY <1>1, <1>3, <2>2
  <2> QED BY <2>1, <2>2
<1> QED BY <1>1, <1>2, <1>3, <1>4 DEF Tiles

(* The nodes of a tiling behind the sentinels are apart from each other.   *)
LEMMA TilesSpaced ==
  ASSUME NEW B, NEW z, NEW hi \in Nat, hi <= mem_max_addr + 24, Tiles(B, z, lists_end, hi)
  PROVE  Spaced(Nodes(B)) /\ B \cap Sentinels = {}
<1>1. \A b \in B : /\ b \in Nat /\ b % 8 = 0 /\ lists_end <= b
                   /\ z[b] \in Nat /\ z[b] >= 24 /\ b + z[b] <= hi
                   /\ \A c \in B : b < c => b + z[b] <= c
  BY DEF Tiles
<1>2. /\ mem_start_brk \in Nat /\ mem_start_brk % 8 = 0 /\ mem_start_brk >= 1
      /\ mem_max_addr \in Nat /\ lists_end \in Nat /\ lists_end >= mem_start_brk + 48
      /\ lists_end <= hi
  <2>1. lists_end = mem_start_brk + 24 + CLASS_NUM * 24
    BY MemAssumption, ClassAssumption DEF lists_end, Sentinel, heap, HSIZE, DSIZE
  <2> QED BY <2>1, MemAssumption, ClassAssumption
          DEF MemAssumption, ClassAssumption, mem_max_addr, Tiles
<1>3. \A x \in Nat : x % 8 = 0 /\ mem_start_brk + 24 <= x /\ x <= mem_max_addr =>
        HDRP(x) \in Words /\ HDRP(x) + 8 \in Words /\ HDRP(x) + 16 \in Words
  BY <1>2 DEF HDRP, HSIZE, DSIZE, Words
<1>4. \A c \in Classes :
        /\ Sentinel(c) \in Nat /\ Sentinel(c) % 8 = 0 /\ Sentinel(c) + 24 <= lists_end
        /\ mem_start_brk + 24 <= Sentinel(c)
  BY <1>2, SentinelLemma DEF Classes
<1>5. \A x \in Sentinels : /\ x \in Nat /\ x % 8 = 0 /\ x + 24 <= lists_end
                           /\ mem_start_brk + 24 <= x
  BY <1>4 DEF Sentinels
<1>6. \A x, y \in Sentinels : x < y => x + 24 <= y
  BY SentinelLemma DEF Sentinels
<1>7. \A x \in Nodes(B) : x \in Nat /\ x % 8 = 0 /\ mem_start_brk + 24 <= x /\ x <= mem_max_addr
  <2>1. ASSUME NEW x \in B
        PROVE  x \in Nat /\ x % 8 = 0 /\ mem_start_brk + 24 <= x /\ x <= mem_max_addr
    BY <1>1, <1>2
  <2>2. ASSUME NEW x \in Sentinels
        PROVE  x \in Nat /\ x % 8 = 0 /\ mem_start_brk + 24 <= x /\ x <= mem_max_addr
    BY <1>2, <1>5
  <2> QED BY <2>1, <2>2 DEF Nodes
<1>8. \A x, y \in Nodes(B) : x < y => x + 24 <= y
  <2> SUFFICES ASSUME NEW x \in Nodes(B), NEW y \in Nodes(B), x < y PROVE x + 24 <= y
    OBVIOUS
  <2>1. CASE x \in B /\ y \in B
    BY <1>1, <2>1
  <2>2. CASE x \in Sentinels /\ y \in Sentinels
    BY <1>6, <2>2
  <2>3. CASE x \in Sentinels /\ y \in B
    BY <1>1, <1>2, <1>5, <2>3
  <2>4. CASE x \in B /\ y \in Sentinels
    BY <1>1, <1>2, <1>5, <2>4
  <2> QED BY <2>1, <2>2, <2>3, <2>4 DEF Nodes
<1>9. B \cap Sentinels = {}
  BY <1>1, <1>2, <1>5
<1> QED BY <1>3, <1>7, <1>8, <1>9 DEF Spaced

(***************************************************************************)
(* The heap: the sentinels, the blocks B up to hi, and the lists of the    *)
(* free ones.                                                              *)
(***************************************************************************)
FreeLists(m, B) == [c \in Classes |-> {b \in B : ~ Used(m, b) /\ Class(Size(m, b)) = c}]
BlockSizes(m, B) == [b \in B |-> Size(m, b)]
HeapOK(m, B, hi) ==
  /\ hi \in Nat /\ hi % 8 = 0 /\ hi <= mem_max_addr + 24
  /\ Tiles(B, BlockSizes(m, B), lists_end, hi)
  /\ \A c \in Classes : Hdr(m, Sentinel(c)) = 25
  /\ Lists(m, B, FreeLists(m, B))

(* The end of the sentinels.                                               *)
LEMMA ListsEnd ==
  lists_end \in Nat /\ lists_end = mem_start_brk + 24 + CLASS_NUM * 24 /\ lists_end % 8 = 0
  BY MemAssumption, ClassAssumption
  DEF MemAssumption, ClassAssumption, lists_end, Sentinel, heap, HSIZE, DSIZE

(* A block of the heap.                                                    *)
LEMMA BlockLemma ==
  ASSUME NEW m, NEW B, NEW hi, HeapOK(m, B, hi), NEW b \in B
  PROVE  /\ b \in Nat /\ b % 8 = 0 /\ lists_end <= b /\ b < hi /\ b \in Nodes(B)
         /\ Hdr(m, b) \in Nat /\ GET_ALLOC(m, HDRP(b)) \in {0, 1}
         /\ Size(m, b) \in Nat /\ Size(m, b) % 8 = 0 /\ Size(m, b) >= 24
         /\ NEXT(m, b) = b + Size(m, b) /\ NEXT(m, b) \in Nat
         /\ b < NEXT(m, b) /\ NEXT(m, b) <= hi /\ NEXT(m, b) \in B \union {hi}
         /\ \A c \in B : b < c => NEXT(m, b) <= c
<1>1. /\ Tiles(B, BlockSizes(m, B), lists_end, hi) /\ hi \in Nat
      /\ BlockSizes(m, B)[b] = Size(m, b)
  BY DEF HeapOK, BlockSizes
<1>2. /\ b \in Nat /\ b % 8 = 0 /\ lists_end <= b
      /\ Size(m, b) \in Nat /\ Size(m, b) % 8 = 0 /\ Size(m, b) >= 24
      /\ b + Size(m, b) \in B \union {hi} /\ b + Size(m, b) <= hi
      /\ \A c \in B : b < c => b + Size(m, b) <= c
  BY <1>1 DEF Tiles
<1>3. NEXT(m, b) = b + Size(m, b)
  BY DEF NEXT, Size
<1>4. b \in Nodes(B) /\ Spaced(Nodes(B)) /\ m \in [Words -> Nat]
  BY DEF HeapOK, Lists, Nodes
<1>5. Hdr(m, b) \in Nat
  BY <1>4, NodeValues
<1> QED BY <1>1, <1>2, <1>3, <1>4, <1>5, HeaderLemma

(* A heap is one again when its tiling and its lists are.                  *)
LEMMA HeapAgain ==
  ASSUME NEW m, NEW B, NEW hi \in Nat, hi % 8 = 0, hi <= mem_max_addr + 24,
         NEW z, Tiles(B, z, lists_end, hi), \A b \in B : Size(m, b) = z[b],
         \A c \in Classes : Hdr(m, Sentinel(c)) = 25,
         NEW M, Lists(m, B, M),
         \A b \in B, c \in Classes : b \in M[c] <=> ~ Used(m, b) /\ Class(Size(m, b)) = c
  PROVE  HeapOK(m, B, hi)
<1>1. M = FreeLists(m, B)
  <2>1. M \in [Classes -> SUBSET B]
    BY DEF Lists
  <2>2. \A c \in Classes : M[c] = {b \in B : ~ Used(m, b) /\ Class(Size(m, b)) = c}
    BY <2>1
  <2> QED BY <2>1, <2>2 DEF FreeLists
<1>2. Tiles(B, BlockSizes(m, B), lists_end, hi)
  <2>1. \A b \in B : BlockSizes(m, B)[b] = z[b]
    BY DEF BlockSizes
  <2> QED BY <2>1 DEF Tiles
<1> QED BY <1>1, <1>2 DEF HeapOK

(* What is known of the lists of a heap.                                   *)
LEMMA HeapLists ==
  ASSUME NEW m, NEW B, NEW hi, HeapOK(m, B, hi), NEW M, M = FreeLists(m, B)
  PROVE  /\ Lists(m, B, M)
         /\ \A b \in B, c \in Classes : b \in M[c] <=> ~ Used(m, b) /\ Class(Size(m, b)) = c
         /\ \A c \in Classes : \A b : b \in M[c] => b \in B
         /\ \A c \in Classes : Sentinel(c) \in Nodes(B) /\ Sentinel(c) \notin B
         /\ \A c \in Classes : Hdr(m, Sentinel(c)) = 25
         /\ hi \in Nat /\ hi % 8 = 0 /\ hi <= mem_max_addr + 24
         /\ Tiles(B, BlockSizes(m, B), lists_end, hi)
<1>1. \A c \in Classes : Sentinel(c) \in Nodes(B) /\ Sentinel(c) \notin B
  BY DEF HeapOK, Lists, Nodes, Sentinels
<1> QED BY <1>1 DEF HeapOK, FreeLists

(* mm_free: the block is marked and put in the list of its size.           *)
LEMMA FreeHeap ==
  ASSUME NEW m, NEW B, NEW hi, HeapOK(m, B, hi), NEW x \in B, Used(m, x),
         NEW w, w = insert(SET(m, x, 0), x)
  PROVE  /\ HeapOK(w, B, hi)
         /\ \A b \in B : Size(w, b) = Size(m, b) /\ (Used(w, b) <=> b # x /\ Used(m, b))
<1>1. PICK M : M = FreeLists(m, B)
  OBVIOUS
<1>2. /\ Lists(m, B, M)
      /\ \A b \in B, c \in Classes : b \in M[c] <=> ~ Used(m, b) /\ Class(Size(m, b)) = c
      /\ \A c \in Classes : Sentinel(c) \in Nodes(B) /\ Sentinel(c) \notin B
      /\ \A c \in Classes : Hdr(m, Sentinel(c)) = 25
      /\ hi \in Nat /\ hi % 8 = 0 /\ hi <= mem_max_addr + 24
      /\ Tiles(B, BlockSizes(m, B), lists_end, hi)
  BY <1>1, HeapLists
<1>3. Size(m, x) \in Nat /\ Size(m, x) % 8 = 0 /\ B \subseteq Nodes(B)
  BY BlockLemma DEF Nodes
<1>4. PICK v \in Nat : v = PACK(Size(m, x), 0)
  BY <1>3 DEF PACK
<1>5. PICK m1 : m1 = SET(m, x, 0)
  OBVIOUS
<1>6. m1 = WRITE(m, HDRP(x), v) /\ w = insert(m1, x)
  BY <1>4, <1>5 DEF SET, Then, Size
<1>7. /\ Lists(m1, B, M)
      /\ \A y \in Nodes(B) : Hdr(m1, y) = IF y = x THEN v ELSE Hdr(m, y)
  BY <1>2, <1>6, HeaderBlock
<1>8. Size(m1, x) = Size(m, x)
  BY <1>3, <1>4, <1>7, PackLemma
<1>9. PICK n \in Nat : n = Size(m1, x)
  BY <1>3, <1>8
<1>11. \A d \in Classes : x \notin M[d]
  BY <1>2
<1>10. SameHeaders(m1, w, Nodes(B))
  BY <1>6, <1>7, <1>9, <1>11, InsertBlock
<1>12. PICK M1 : /\ Lists(w, B, M1)
                 /\ \A d \in Classes : \A b :
                      b \in M1[d] <=> b \in M[d] \/ (b = x /\ d = Class(n))
  BY <1>6, <1>7, <1>9, <1>11, InsertBlock
<1>13. \A y \in Nodes(B) : Hdr(w, y) = IF y = x THEN v ELSE Hdr(m, y)
  BY <1>7, <1>10 DEF SameHeaders
<1>14. Size(w, x) = Size(m, x) /\ ~ Used(w, x)
  BY <1>3, <1>4, <1>13, PackLemma
<1>15. \A b \in B : b # x => Size(w, b) = Size(m, b) /\ (Used(w, b) <=> Used(m, b))
  BY <1>3, <1>13, SameHeader
<1>16. \A b \in B : Size(w, b) = Size(m, b) /\ (Used(w, b) <=> b # x /\ Used(m, b))
  BY <1>14, <1>15
<1>17. \A b \in B : Size(w, b) = BlockSizes(m, B)[b]
  BY <1>16 DEF BlockSizes
<1>18. \A d \in Classes : Hdr(w, Sentinel(d)) = 25
  BY <1>2, <1>13
<1>19. \A b \in B, d \in Classes : b \in M1[d] <=> ~ Used(w, b) /\ Class(Size(w, b)) = d
  <2> SUFFICES ASSUME NEW b \in B, NEW d \in Classes
               PROVE  b \in M1[d] <=> ~ Used(w, b) /\ Class(Size(w, b)) = d
    OBVIOUS
  <2>1. CASE b = x
    BY <1>8, <1>9, <1>11, <1>12, <1>14, <2>1
  <2>2. CASE b # x
    BY <1>2, <1>12, <1>15, <2>2
  <2> QED BY <2>1, <2>2
<1>20. HeapOK(w, B, hi)
  BY <1>2, <1>12, <1>17, <1>18, <1>19, HeapAgain
<1> QED BY <1>16, <1>20

(* The lists do not depend on the set of blocks beyond their members.      *)
LEMMA ListsRebase ==
  ASSUME NEW m, NEW B, NEW M, Lists(m, B, M), NEW C, Spaced(Nodes(C)), C \cap Sentinels = {},
         \A c \in Classes : \A b : b \in M[c] => b \in C
  PROVE  Lists(m, C, M)
<1>1. M \in [Classes -> SUBSET C]
  BY DEF Lists
<1> QED BY <1>1 DEF Lists

(* A set of fewer blocks.                                                  *)
LEMMA FewerNodes ==
  ASSUME NEW B, NEW C, C \subseteq B, Spaced(Nodes(B)), B \cap Sentinels = {}
  PROVE  Spaced(Nodes(C)) /\ C \cap Sentinels = {}
  BY DEF Spaced, Nodes

(* coalesce_block: both blocks leave their lists, and the first one, now   *)
(* as large as both, enters the list of its new size.                      *)
LEMMA CoalesceHeap ==
  ASSUME NEW m, NEW B, NEW hi, HeapOK(m, B, hi), NEW x \in B, ~ Used(m, x),
         NEW y \in B, y = NEXT(m, x), ~ Used(m, y),
         NEW w, w = insert(erase(erase(Merged(m, x, y), x), y), x)
  PROVE  /\ HeapOK(w, B \ {y}, hi) /\ x # y
         /\ Size(w, x) = Size(m, x) + Size(m, y)
         /\ \A b \in B \ {x, y} : Size(w, b) = Size(m, b)
         /\ \A b \in B \ {y} : Used(w, b) <=> Used(m, b)
<1>1. PICK M : M = FreeLists(m, B)
  OBVIOUS
<1>2. /\ Lists(m, B, M)
      /\ \A b \in B, c \in Classes : b \in M[c] <=> ~ Used(m, b) /\ Class(Size(m, b)) = c
      /\ \A c \in Classes : \A b : b \in M[c] => b \in B
      /\ \A c \in Classes : Sentinel(c) \in Nodes(B) /\ Sentinel(c) \notin B
      /\ \A c \in Classes : Hdr(m, Sentinel(c)) = 25
      /\ hi \in Nat /\ hi % 8 = 0 /\ hi <= mem_max_addr + 24
      /\ Tiles(B, BlockSizes(m, B), lists_end, hi)
  BY <1>1, HeapLists
<1>3. /\ Size(m, x) \in Nat /\ Size(m, x) % 8 = 0 /\ Size(m, y) \in Nat /\ Size(m, y) % 8 = 0
      /\ B \subseteq Nodes(B) /\ y = x + Size(m, x) /\ x \in Nat /\ Size(m, x) >= 24
  BY BlockLemma DEF Nodes
<1>4. x # y
  BY <1>3
<1>5. PICK n \in Nat : n = Size(m, x) + Size(m, y)
  BY <1>3
<1>6. n % 8 = 0
  BY <1>3, <1>5
<1>7. PICK a \in {0, 1} : a = GET_ALLOC(m, HDRP(x))
  BY BlockLemma
<1>8. a = 0
  BY <1>7 DEF Used
<1>9. PICK v \in Nat : v = PACK(n, a)
  BY <1>5 DEF PACK
<1>10. PICK m1 : m1 = Merged(m, x, y)
  OBVIOUS
<1>11. m1 = WRITE(m, HDRP(x), v)
  BY <1>5, <1>7, <1>9, <1>10 DEF Merged, Size
<1>12. PICK m2 : m2 = erase(m1, x)
  OBVIOUS
<1>13. PICK m3 : m3 = erase(m2, y)
  OBVIOUS
<1>14. w = insert(m3, x)
  BY <1>10, <1>12, <1>13
<1>15. /\ Lists(m1, B, M)
       /\ \A b \in Nodes(B) : Hdr(m1, b) = IF b = x THEN v ELSE Hdr(m, b)
  BY <1>2, <1>11, HeaderBlock
<1>16. PICK c \in Classes : x \in M[c]
  BY <1>2, <1>3, ClassLemma
<1>17. SameHeaders(m1, m2, Nodes(B))
  BY <1>12, <1>15, <1>16, EraseBlock
<1>18. PICK M1 : /\ Lists(m2, B, M1)
                 /\ \A d \in Classes : \A b : b \in M1[d] <=> b \in M[d] /\ b # x
  BY <1>12, <1>15, <1>16, EraseBlock
<1>19. PICK e \in Classes : y \in M1[e]
  BY <1>2, <1>3, <1>4, <1>18, ClassLemma
<1>20. SameHeaders(m2, m3, Nodes(B))
  BY <1>13, <1>18, <1>19, EraseBlock
<1>21. PICK M2 : /\ Lists(m3, B, M2)
                 /\ \A d \in Classes : \A b : b \in M2[d] <=> b \in M1[d] /\ b # y
  BY <1>13, <1>18, <1>19, EraseBlock
<1>22. PICK C : C = B \ {y}
  OBVIOUS
<1>23. C \subseteq B /\ x \in C /\ Nodes(C) \subseteq Nodes(B)
  BY <1>4, <1>22 DEF Nodes
<1>24. Lists(m3, C, M2)
  <2>1. Spaced(Nodes(C)) /\ C \cap Sentinels = {}
    BY <1>2, <1>23, FewerNodes DEF Lists
  <2>2. \A d \in Classes : \A b : b \in M2[d] => b \in C
    BY <1>2, <1>18, <1>21, <1>22
  <2> QED BY <1>21, <2>1, <2>2, ListsRebase
<1>25. \A b \in Nodes(B) : Hdr(m3, b) = IF b = x THEN v ELSE Hdr(m, b)
  BY <1>15, <1>17, <1>20 DEF SameHeaders
<1>26. n = Size(m3, x)
  BY <1>3, <1>6, <1>9, <1>25, PackLemma
<1>27. \A d \in Classes : x \notin M2[d]
  BY <1>18, <1>21
<1>28. SameHeaders(m3, w, Nodes(C))
  BY <1>14, <1>23, <1>24, <1>26, <1>27, InsertBlock
<1>29. PICK M3 : /\ Lists(w, C, M3)
                 /\ \A d \in Classes : \A b :
                      b \in M3[d] <=> b \in M2[d] \/ (b = x /\ d = Class(n))
  BY <1>14, <1>23, <1>24, <1>26, <1>27, InsertBlock
<1>30. \A b \in Nodes(C) : Hdr(w, b) = IF b = x THEN v ELSE Hdr(m, b)
  BY <1>23, <1>25, <1>28 DEF SameHeaders
<1>31. C \subseteq Nodes(C) /\ \A d \in Classes : Sentinel(d) \in Nodes(C) /\ Sentinel(d) # x
  BY <1>2 DEF Nodes, Sentinels
<1>32. Size(w, x) = n /\ ~ Used(w, x)
  BY <1>6, <1>8, <1>9, <1>23, <1>30, <1>31, PackLemma
<1>33. \A b \in C : b # x => Size(w, b) = Size(m, b) /\ (Used(w, b) <=> Used(m, b))
  BY <1>30, <1>31, SameHeader
<1>34. HeapOK(w, C, hi)
  <2>1. PICK z : z = BlockSizes(w, C)
    OBVIOUS
  <2>2. \A b \in C : z[b] = Size(w, b)
    BY <2>1 DEF BlockSizes
  <2>3. \A b \in B : BlockSizes(m, B)[b] = Size(m, b)
    BY DEF BlockSizes
  <2>4. Tiles(C, z, lists_end, hi)
    <3>1. PICK q : q = BlockSizes(m, B)
      OBVIOUS
    <3>2. Tiles(B, q, lists_end, hi) /\ y = x + q[x] /\ z[x] = q[x] + q[y]
      BY <1>2, <1>3, <1>5, <1>23, <1>32, <2>2, <2>3, <3>1
    <3>3. \A b \in B \ {x, y} : z[b] = q[b]
      BY <1>22, <1>33, <2>2, <2>3, <3>1
    <3>4. PICK lo \in Nat : lo = lists_end
      BY ListsEnd
    <3>5. hi \in Nat
      BY <1>2
    <3>6. Tiles(B, q, lo, hi)
      BY <3>2, <3>4
    <3>7. Tiles(B \ {y}, z, lo, hi)
      <4>1. PICK u \in B : u = y
        OBVIOUS
      <4>2. u = x + q[x] /\ z[x] = q[x] + q[u]
        BY <3>2, <4>1
      <4>3. \A b \in B \ {x, u} : z[b] = q[b]
        BY <3>3, <4>1
      <4>4. Tiles(B \ {u}, z, lo, hi)
        BY <3>5, <3>6, <4>2, <4>3, TilesMerge
      <4> QED BY <4>1, <4>4
    <3> QED BY <1>22, <3>4, <3>7
  <2>5. \A d \in Classes : Hdr(w, Sentinel(d)) = 25
    BY <1>2, <1>30, <1>31
  <2>6. \A b \in C, d \in Classes : b \in M3[d] <=> ~ Used(w, b) /\ Class(Size(w, b)) = d
    <3> SUFFICES ASSUME NEW b \in C, NEW d \in Classes
                 PROVE  b \in M3[d] <=> ~ Used(w, b) /\ Class(Size(w, b)) = d
      OBVIOUS
    <3>1. CASE b = x
      BY <1>27, <1>29, <1>32, <3>1
    <3>2. CASE b # x
      <4>1. b \in M3[d] <=> b \in M[d]
        BY <1>18, <1>21, <1>22, <1>29, <3>2
      <4>2. b \in M[d] <=> ~ Used(m, b) /\ Class(Size(m, b)) = d
        BY <1>2, <1>23
      <4> QED BY <1>33, <3>2, <4>1, <4>2
    <3> QED BY <3>1, <3>2
  <2> QED BY <1>2, <1>29, <2>2, <2>4, <2>5, <2>6, HeapAgain
<1> QED BY <1>4, <1>5, <1>22, <1>32, <1>33, <1>34

(* A block, marked free, is the only one in no list; insert completes the  *)
(* heap.                                                                   *)
LEMMA InsertHeap ==
  ASSUME NEW m, NEW B, NEW hi \in Nat, hi % 8 = 0, hi <= mem_max_addr + 24,
         NEW z, Tiles(B, z, lists_end, hi), \A b \in B : Size(m, b) = z[b],
         \A c \in Classes : Hdr(m, Sentinel(c)) = 25,
         NEW M, Lists(m, B, M), NEW x \in B, ~ Used(m, x), \A d \in Classes : x \notin M[d],
         \A b \in B, c \in Classes :
           b # x => (b \in M[c] <=> ~ Used(m, b) /\ Class(Size(m, b)) = c),
         NEW w, w = insert(m, x)
  PROVE  HeapOK(w, B, hi) /\ SameHeaders(m, w, Nodes(B))
<1>1. PICK n \in Nat : n = Size(m, x)
  BY DEF Tiles
<1>2. SameHeaders(m, w, Nodes(B))
  BY <1>1, InsertBlock
<1>3. PICK M1 : /\ Lists(w, B, M1)
                /\ \A d \in Classes : \A b : b \in M1[d] <=> b \in M[d] \/ (b = x /\ d = Class(n))
  BY <1>1, InsertBlock
<1>4. B \subseteq Nodes(B) /\ \A d \in Classes : Sentinel(d) \in Nodes(B)
  BY DEF Nodes, Sentinels
<1>5. \A b \in B : Size(w, b) = Size(m, b) /\ (Used(w, b) <=> Used(m, b))
  BY <1>2, <1>4, SameHeader DEF SameHeaders
<1>6. \A d \in Classes : Hdr(w, Sentinel(d)) = 25
  BY <1>2, <1>4 DEF SameHeaders
<1>7. \A b \in B, d \in Classes : b \in M1[d] <=> ~ Used(w, b) /\ Class(Size(w, b)) = d
  <2> SUFFICES ASSUME NEW b \in B, NEW d \in Classes
               PROVE  b \in M1[d] <=> ~ Used(w, b) /\ Class(Size(w, b)) = d
    OBVIOUS
  <2>1. CASE b = x
    BY <1>1, <1>3, <1>5, <2>1
  <2>2. CASE b # x
    BY <1>3, <1>5, <2>2
  <2> QED BY <2>1, <2>2
<1>8. \A b \in B : Size(w, b) = z[b]
  BY <1>5
<1>9. HeapOK(w, B, hi)
  BY <1>3, <1>6, <1>7, <1>8, HeapAgain
<1> QED BY <1>2, <1>9

(* The two headers of a block cut in two; the rest is in no list yet.      *)
LEMMA DivideHeap ==
  ASSUME NEW m, NEW B, NEW hi, HeapOK(m, B, hi), NEW x \in B, NEW n \in Nat,
         n % 8 = 0, n >= 24, Size(m, x) >= n + 24, NEW y, y = x + n,
         NEW M, M = FreeLists(m, B), NEW w, w = Divide(m, x, n),
         NEW C, C = B \union {y}
  PROVE  /\ y \notin B /\ Lists(w, C, M) /\ y = NEXT(w, x)
         /\ \A c \in Classes : Hdr(w, Sentinel(c)) = 25
         /\ Size(w, x) = n /\ (Used(w, x) <=> Used(m, x))
         /\ Size(w, y) = Size(m, x) - n /\ ~ Used(w, y)
         /\ \A b \in B : b # x => Size(w, b) = Size(m, b) /\ (Used(w, b) <=> Used(m, b))
         /\ \E z : Tiles(C, z, lists_end, hi) /\ \A b \in C : Size(w, b) = z[b]
<1>1. /\ Lists(m, B, M)
      /\ \A c \in Classes : \A b : b \in M[c] => b \in B
      /\ \A c \in Classes : Sentinel(c) \in Nodes(B) /\ Sentinel(c) \notin B
      /\ \A c \in Classes : Hdr(m, Sentinel(c)) = 25
      /\ hi \in Nat /\ hi % 8 = 0 /\ hi <= mem_max_addr + 24
      /\ Tiles(B, BlockSizes(m, B), lists_end, hi)
  BY HeapLists
<1>2. Size(m, x) \in Nat /\ Size(m, x) % 8 = 0 /\ x \in Nat
  BY BlockLemma
<1>3. PICK k \in Nat : k = Size(m, x) - n
  BY <1>2
<1>4. k % 8 = 0
  BY <1>2, <1>3
<1>5. PICK a \in {0, 1} : a = GET_ALLOC(m, HDRP(x))
  BY BlockLemma
<1>6. PICK v \in Nat : v = PACK(n, a)
  BY DEF PACK
<1>7. PICK u \in Nat : u = PACK(k, 0)
  BY DEF PACK
<1>8. PICK z : z = [b \in C |-> IF b = x THEN n ELSE IF b = y THEN k ELSE Size(m, b)]
  OBVIOUS
<1>9. Tiles(C, z, lists_end, hi) /\ y \notin B
  <2>1. PICK q : q = BlockSizes(m, B)
    OBVIOUS
  <2>2. \A b \in B : q[b] = Size(m, b)
    BY <2>1 DEF BlockSizes
  <2>3. y # x /\ y \in C /\ x \in C
    BY <1>2
  <2>4. z[x] = n /\ z[y] = q[x] - n
    BY <1>3, <1>8, <2>2, <2>3
  <2>5. q[x] >= n + 24
    BY <2>2
  <2>6. PICK lo \in Nat : lo = lists_end
    BY ListsEnd
  <2>7. Tiles(B, q, lo, hi) /\ hi \in Nat
    BY <1>1, <2>1, <2>6
  <2>8. y \notin B
    <3>1. x + q[x] > y /\ x < y
      BY <1>2, <2>2, <2>5
    <3>2. \A c \in B : x < c => x + q[x] <= c
      BY <2>7 DEF Tiles
    <3>3. B \subseteq Nat /\ q[x] \in Nat
      BY <1>2, <2>2, <2>7 DEF Tiles
    <3> QED BY <1>2, <3>1, <3>2, <3>3
  <2>9. \A b \in B \ {x} : z[b] = q[b]
    BY <1>8, <2>2, <2>8
  <2>10. Tiles(B \union {y}, z, lo, hi)
    <3>1. z[x] = n /\ z[y] = q[x] - n /\ q[x] >= n + 24
      BY <2>4, <2>5
    <3>2. PICK D : D = B
      OBVIOUS
    <3>3. Tiles(D, q, lo, hi) /\ x \in D /\ \A b \in D \ {x} : z[b] = q[b]
      BY <2>7, <2>9, <3>2
    <3>4. PICK t : t = x + n
      OBVIOUS
    <3>5. z[x] = n /\ z[t] = q[x] - n /\ q[x] >= n + 24 /\ t = y
      BY <3>1, <3>4
    <3>6. Tiles(D \union {t}, z, lo, hi) /\ t \notin D
      BY <2>7, <3>3, <3>4, <3>5, TilesCut
    <3> QED BY <3>2, <3>5, <3>6
  <2> QED BY <2>6, <2>8, <2>10
<1>10. Spaced(Nodes(C)) /\ C \cap Sentinels = {}
  BY <1>1, <1>9, TilesSpaced
<1>11. Lists(m, C, M)
  BY <1>1, <1>10, ListsRebase
<1>12. PICK m1 : m1 = WRITE(m, HDRP(x), v)
  OBVIOUS
<1>27. x \in C /\ y \in C /\ x # y
  BY <1>2
<1>13. /\ Lists(m1, C, M)
       /\ \A b \in Nodes(C) : Hdr(m1, b) = IF b = x THEN v ELSE Hdr(m, b)
  <2>1. PICK D, N : D = C /\ N = M
    OBVIOUS
  <2>2. Lists(m, D, N) /\ x \in D
    BY <1>11, <1>27, <2>1
  <2>3. /\ Lists(m1, D, N)
        /\ \A b \in Nodes(D) : Hdr(m1, b) = IF b = x THEN v ELSE Hdr(m, b)
    BY <1>12, <2>2, HeaderBlock
  <2> QED BY <2>1, <2>3
<1>14. C \subseteq Nodes(C) /\ \A d \in Classes : Sentinel(d) \in Nodes(C) /\ Sentinel(d) \notin C
  BY <1>10 DEF Nodes, Sentinels
<1>15. Size(m1, x) = n
  BY <1>6, <1>13, <1>14, PackLemma
<1>16. NEXT(m1, x) = y
  BY <1>15 DEF NEXT, Size
<1>17. w = WRITE(m1, HDRP(y), u)
  <2>1. w = WRITE(m1, HDRP(NEXT(m1, x)), PACK(Size(m, x) - n, 0))
    BY <1>5, <1>6, <1>12 DEF Divide, Then, Size
  <2> QED BY <1>3, <1>7, <1>16, <2>1
<1>18. /\ Lists(w, C, M)
       /\ \A b \in Nodes(C) : Hdr(w, b) = IF b = y THEN u ELSE Hdr(m1, b)
  <2>1. PICK D, N : D = C /\ N = M
    OBVIOUS
  <2>2. PICK t, r : t = y /\ r = w
    OBVIOUS
  <2>3. Lists(m1, D, N) /\ t \in D /\ r = WRITE(m1, HDRP(t), u)
    BY <1>13, <1>17, <1>27, <2>1, <2>2
  <2>4. /\ Lists(r, D, N)
        /\ \A b \in Nodes(D) : Hdr(r, b) = IF b = t THEN u ELSE Hdr(m1, b)
    BY <2>3, HeaderBlock
  <2> QED BY <2>1, <2>2, <2>4
<1>19. Hdr(w, x) = PACK(n, a) /\ Hdr(w, y) = PACK(k, 0)
  BY <1>6, <1>7, <1>13, <1>14, <1>18, <1>27
<1>20. Size(w, x) = n /\ (Used(w, x) <=> a = 1)
  BY <1>19, PackLemma
<1>21. Size(w, y) = k /\ ~ Used(w, y)
  BY <1>4, <1>19, PackLemma
<1>22. \A b \in B : b # x => Size(w, b) = Size(m, b) /\ (Used(w, b) <=> Used(m, b))
  BY <1>9, <1>13, <1>14, <1>18, SameHeader
<1>23. \A c \in Classes : Hdr(w, Sentinel(c)) = 25
  BY <1>1, <1>13, <1>14, <1>18
<1>24. \A b \in C : Size(w, b) = z[b]
  BY <1>8, <1>20, <1>21, <1>22
<1>25. y = NEXT(w, x)
  BY <1>20 DEF NEXT, Size
<1>26. Used(m, x) <=> a = 1
  BY <1>5 DEF Used
<1> QED BY <1>3, <1>9, <1>18, <1>20, <1>21, <1>22, <1>23, <1>24, <1>25, <1>26

(* cut_block on a block to be placed: what is left is a free block of the  *)
(* size asked for, and a rest in the list of its own size.                 *)
LEMMA ChopHeap ==
  ASSUME NEW m, NEW B, NEW hi, HeapOK(m, B, hi), NEW x \in B, ~ Used(m, x), NEW n \in Nat,
         n % 8 = 0, n >= 24, Size(m, x) >= n + 24, NEW y, y = x + n,
         NEW w, w = InsertRest(insert(erase(Divide(m, x, n), x), x), x)
  PROVE  /\ HeapOK(w, B \union {y}, hi) /\ y \notin B
         /\ Size(w, x) = n /\ ~ Used(w, x) /\ ~ Used(w, y)
         /\ \A b \in B : b # x => Size(w, b) = Size(m, b) /\ (Used(w, b) <=> Used(m, b))
<1>1. PICK M : M = FreeLists(m, B)
  OBVIOUS
<1>2. PICK C : C = B \union {y}
  OBVIOUS
<1>3. PICK m1 : m1 = Divide(m, x, n)
  OBVIOUS
<1>4. /\ y \notin B /\ Lists(m1, C, M) /\ y = NEXT(m1, x)
      /\ \A c \in Classes : Hdr(m1, Sentinel(c)) = 25
      /\ Size(m1, x) = n /\ (Used(m1, x) <=> Used(m, x))
      /\ Size(m1, y) = Size(m, x) - n /\ ~ Used(m1, y)
      /\ \A b \in B : b # x => Size(m1, b) = Size(m, b) /\ (Used(m1, b) <=> Used(m, b))
      /\ \E z : Tiles(C, z, lists_end, hi) /\ \A b \in C : Size(m1, b) = z[b]
  BY <1>1, <1>2, <1>3, DivideHeap
<1>5. PICK z : Tiles(C, z, lists_end, hi) /\ \A b \in C : Size(m1, b) = z[b]
  BY <1>4
<1>6. /\ \A b \in B, c \in Classes : b \in M[c] <=> ~ Used(m, b) /\ Class(Size(m, b)) = c
      /\ \A c \in Classes : \A b : b \in M[c] => b \in B
      /\ hi \in Nat /\ hi % 8 = 0 /\ hi <= mem_max_addr + 24
  BY <1>1, HeapLists
<1>7. x \in C /\ y \in C /\ x # y /\ B \subseteq C
  BY <1>2, <1>4
<1>8. PICK m2 : m2 = erase(m1, x)
  OBVIOUS
<1>9. PICK m3 : m3 = insert(m2, x)
  OBVIOUS
<1>10. w = insert(m3, NEXT(m3, x))
  BY <1>3, <1>8, <1>9 DEF InsertRest, Then
<1>11. PICK e \in Classes : x \in M[e]
  <2>1. Size(m, x) \in Nat
    BY BlockLemma
  <2> QED BY <1>6, <2>1, ClassLemma
<1>12. SameHeaders(m1, m2, Nodes(C))
  BY <1>4, <1>8, <1>11, EraseBlock
<1>13. PICK M1 : /\ Lists(m2, C, M1)
                 /\ \A d \in Classes : \A b : b \in M1[d] <=> b \in M[d] /\ b # x
  BY <1>4, <1>8, <1>11, EraseBlock
<1>14. C \subseteq Nodes(C) /\ \A d \in Classes : Sentinel(d) \in Nodes(C)
  BY DEF Nodes, Sentinels
<1>15. Size(m2, x) = n
  BY <1>4, <1>7, <1>12, <1>14, SameHeader DEF SameHeaders
<1>16. \A d \in Classes : x \notin M1[d]
  BY <1>13
<1>17. SameHeaders(m2, m3, Nodes(C))
  BY <1>7, <1>9, <1>13, <1>15, <1>16, InsertBlock
<1>18. PICK M2 : /\ Lists(m3, C, M2)
                 /\ \A d \in Classes : \A b :
                      b \in M2[d] <=> b \in M1[d] \/ (b = x /\ d = Class(n))
  BY <1>7, <1>9, <1>13, <1>15, <1>16, InsertBlock
<1>19. SameHeaders(m1, m3, Nodes(C))
  BY <1>12, <1>17 DEF SameHeaders
<1>20. \A b \in C : Size(m3, b) = Size(m1, b) /\ (Used(m3, b) <=> Used(m1, b))
  BY <1>14, <1>19, SameHeader DEF SameHeaders
<1>21. \A d \in Classes : Hdr(m3, Sentinel(d)) = 25
  BY <1>4, <1>14, <1>19 DEF SameHeaders
<1>22. NEXT(m3, x) = y
  BY <1>4, <1>7, <1>20 DEF NEXT, Size
<1>23. ~ Used(m3, y) /\ \A d \in Classes : y \notin M2[d]
  BY <1>4, <1>6, <1>7, <1>13, <1>18, <1>20
<1>24. \A b \in C, d \in Classes :
         b # y => (b \in M2[d] <=> ~ Used(m3, b) /\ Class(Size(m3, b)) = d)
  <2> SUFFICES ASSUME NEW b \in C, NEW d \in Classes, b # y
               PROVE  b \in M2[d] <=> ~ Used(m3, b) /\ Class(Size(m3, b)) = d
    OBVIOUS
  <2>1. CASE b = x
    BY <1>4, <1>13, <1>18, <1>20, <2>1
  <2>2. CASE b # x
    <3>1. b \in B /\ Size(m3, b) = Size(m, b) /\ (Used(m3, b) <=> Used(m, b))
      BY <1>2, <1>4, <1>20, <2>2
    <3> QED BY <1>6, <1>13, <1>18, <2>2, <3>1
  <2> QED BY <2>1, <2>2
<1>25. HeapOK(w, C, hi) /\ SameHeaders(m3, w, Nodes(C))
  <2>1. w = insert(m3, y) /\ \A b \in C : Size(m3, b) = z[b]
    BY <1>5, <1>10, <1>20, <1>22
  <2>2. PICK t : t = y
    OBVIOUS
  <2>3. /\ t \in C /\ ~ Used(m3, t) /\ \A d \in Classes : t \notin M2[d]
        /\ w = insert(m3, t)
        /\ \A b \in C, d \in Classes :
             b # t => (b \in M2[d] <=> ~ Used(m3, b) /\ Class(Size(m3, b)) = d)
    BY <1>7, <1>23, <1>24, <2>1, <2>2
  <2> QED BY <1>5, <1>6, <1>18, <1>21, <2>1, <2>3, InsertHeap
<1>26. \A b \in C : Size(w, b) = Size(m1, b) /\ (Used(w, b) <=> Used(m1, b))
  BY <1>14, <1>20, <1>25, SameHeader DEF SameHeaders
<1> QED BY <1>2, <1>4, <1>7, <1>25, <1>26

(* A free block is taken out of its list and marked.                       *)
LEMMA TakeHeap ==
  ASSUME NEW m, NEW B, NEW hi, HeapOK(m, B, hi), NEW x \in B, ~ Used(m, x),
         NEW w, w = SET(erase(m, x), x, 1)
  PROVE  /\ HeapOK(w, B, hi)
         /\ \A b \in B : Size(w, b) = Size(m, b) /\ (Used(w, b) <=> b = x \/ Used(m, b))
<1>1. PICK M : M = FreeLists(m, B)
  OBVIOUS
<1>2. /\ Lists(m, B, M)
      /\ \A b \in B, c \in Classes : b \in M[c] <=> ~ Used(m, b) /\ Class(Size(m, b)) = c
      /\ \A c \in Classes : Sentinel(c) \in Nodes(B) /\ Sentinel(c) \notin B
      /\ \A c \in Classes : Hdr(m, Sentinel(c)) = 25
      /\ hi \in Nat /\ hi % 8 = 0 /\ hi <= mem_max_addr + 24
      /\ Tiles(B, BlockSizes(m, B), lists_end, hi)
  BY <1>1, HeapLists
<1>3. Size(m, x) \in Nat /\ Size(m, x) % 8 = 0 /\ B \subseteq Nodes(B)
  BY BlockLemma DEF Nodes
<1>4. PICK e \in Classes : x \in M[e]
  BY <1>2, <1>3, ClassLemma
<1>5. PICK m1 : m1 = erase(m, x)
  OBVIOUS
<1>6. SameHeaders(m, m1, Nodes(B))
  BY <1>2, <1>4, <1>5, EraseBlock
<1>7. PICK M1 : /\ Lists(m1, B, M1)
                /\ \A d \in Classes : \A b : b \in M1[d] <=> b \in M[d] /\ b # x
  BY <1>2, <1>4, <1>5, EraseBlock
<1>8. Size(m1, x) = Size(m, x)
  BY <1>3, <1>6, SameHeader DEF SameHeaders
<1>9. PICK v \in Nat : v = PACK(Size(m, x), 1)
  BY <1>3 DEF PACK
<1>10. w = WRITE(m1, HDRP(x), v)
  BY <1>5, <1>8, <1>9 DEF SET, Then, Size
<1>11. /\ Lists(w, B, M1)
       /\ \A y \in Nodes(B) : Hdr(w, y) = IF y = x THEN v ELSE Hdr(m1, y)
  BY <1>7, <1>10, HeaderBlock
<1>12. Hdr(w, x) = PACK(Size(m, x), 1)
  BY <1>3, <1>9, <1>11
<1>13. Size(w, x) = Size(m, x) /\ Used(w, x)
  BY <1>3, <1>12, PackLemma
<1>14. \A b \in B : b # x => Size(w, b) = Size(m, b) /\ (Used(w, b) <=> Used(m, b))
  BY <1>3, <1>6, <1>11, SameHeader DEF SameHeaders
<1>15. \A b \in B : Size(w, b) = BlockSizes(m, B)[b]
  BY <1>13, <1>14 DEF BlockSizes
<1>16. \A d \in Classes : Hdr(w, Sentinel(d)) = 25
  BY <1>2, <1>3, <1>6, <1>11 DEF SameHeaders
<1>17. \A b \in B, d \in Classes : b \in M1[d] <=> ~ Used(w, b) /\ Class(Size(w, b)) = d
  BY <1>2, <1>7, <1>13, <1>14
<1>18. HeapOK(w, B, hi)
  BY <1>2, <1>11, <1>15, <1>16, <1>17, HeapAgain
<1> QED BY <1>13, <1>14, <1>18

(* shrink_block: the rest of a block in use becomes a free block.          *)
LEMMA ShrinkHeap ==
  ASSUME NEW m, NEW B, NEW hi, HeapOK(m, B, hi), NEW x \in B, Used(m, x), NEW n \in Nat,
         n % 8 = 0, n >= 24, Size(m, x) >= n + 24, NEW y, y = x + n,
         NEW w, w = InsertRest(Divide(m, x, n), x)
  PROVE  /\ HeapOK(w, B \union {y}, hi) /\ y \notin B
         /\ Size(w, x) = n /\ Used(w, x) /\ ~ Used(w, y)
         /\ \A b \in B : b # x => Size(w, b) = Size(m, b) /\ (Used(w, b) <=> Used(m, b))
<1>1. PICK M : M = FreeLists(m, B)
  OBVIOUS
<1>2. PICK C : C = B \union {y}
  OBVIOUS
<1>3. PICK m1 : m1 = Divide(m, x, n)
  OBVIOUS
<1>4. /\ y \notin B /\ Lists(m1, C, M) /\ y = NEXT(m1, x)
      /\ \A c \in Classes : Hdr(m1, Sentinel(c)) = 25
      /\ Size(m1, x) = n /\ (Used(m1, x) <=> Used(m, x))
      /\ Size(m1, y) = Size(m, x) - n /\ ~ Used(m1, y)
      /\ \A b \in B : b # x => Size(m1, b) = Size(m, b) /\ (Used(m1, b) <=> Used(m, b))
      /\ \E z : Tiles(C, z, lists_end, hi) /\ \A b \in C : Size(m1, b) = z[b]
  BY <1>1, <1>2, <1>3, DivideHeap
<1>5. PICK z : Tiles(C, z, lists_end, hi) /\ \A b \in C : Size(m1, b) = z[b]
  BY <1>4
<1>6. /\ \A b \in B, c \in Classes : b \in M[c] <=> ~ Used(m, b) /\ Class(Size(m, b)) = c
      /\ \A c \in Classes : \A b : b \in M[c] => b \in B
      /\ hi \in Nat /\ hi % 8 = 0 /\ hi <= mem_max_addr + 24
  BY <1>1, HeapLists
<1>7. x \in C /\ y \in C /\ x # y /\ B \subseteq C
  BY <1>2, <1>4
<1>8. w = insert(m1, y)
  BY <1>3, <1>4 DEF InsertRest, Then
<1>9. \A d \in Classes : y \notin M[d]
  BY <1>4, <1>6
<1>10. \A b \in C, d \in Classes :
         b # y => (b \in M[d] <=> ~ Used(m1, b) /\ Class(Size(m1, b)) = d)
  <2> SUFFICES ASSUME NEW b \in C, NEW d \in Classes, b # y
               PROVE  b \in M[d] <=> ~ Used(m1, b) /\ Class(Size(m1, b)) = d
    OBVIOUS
  <2>1. CASE b = x
    BY <1>4, <1>6, <2>1
  <2>2. CASE b # x
    BY <1>2, <1>4, <1>6, <2>2
  <2> QED BY <2>1, <2>2
<1>11. HeapOK(w, C, hi) /\ SameHeaders(m1, w, Nodes(C))
  <2>1. PICK t : t = y
    OBVIOUS
  <2>2. /\ t \in C /\ ~ Used(m1, t) /\ \A d \in Classes : t \notin M[d]
        /\ w = insert(m1, t)
        /\ \A b \in C, d \in Classes :
             b # t => (b \in M[d] <=> ~ Used(m1, b) /\ Class(Size(m1, b)) = d)
    BY <1>4, <1>7, <1>8, <1>9, <1>10, <2>1
  <2>3. PICK D : D = C
    OBVIOUS
  <2>4. PICK w1 : w1 = insert(m1, t)
    OBVIOUS
  <2>5. /\ hi \in Nat /\ hi % 8 = 0 /\ hi <= mem_max_addr + 24
        /\ Tiles(D, z, lists_end, hi) /\ \A b \in D : Size(m1, b) = z[b]
        /\ \A c \in Classes : Hdr(m1, Sentinel(c)) = 25
        /\ Lists(m1, D, M) /\ t \in D /\ ~ Used(m1, t) /\ \A d \in Classes : t \notin M[d]
        /\ \A b \in D, c \in Classes :
             b # t => (b \in M[c] <=> ~ Used(m1, b) /\ Class(Size(m1, b)) = c)
    BY <1>4, <1>5, <1>6, <2>2, <2>3
  <2>6. HeapOK(w1, D, hi) /\ SameHeaders(m1, w1, Nodes(D))
    BY <2>4, <2>5, InsertHeap
  <2> QED BY <2>2, <2>3, <2>4, <2>6
<1>12. C \subseteq Nodes(C)
  BY DEF Nodes
<1>13. \A b \in C : Size(w, b) = Size(m1, b) /\ (Used(w, b) <=> Used(m1, b))
  BY <1>11, <1>12, SameHeader DEF SameHeaders
<1> QED BY <1>2, <1>4, <1>7, <1>11, <1>13

(* expand_block: the free block behind a block in use leaves its list and  *)
(* becomes a part of it.                                                   *)
LEMMA ExpandHeap ==
  ASSUME NEW m, NEW B, NEW hi, HeapOK(m, B, hi), NEW x \in B, Used(m, x),
         NEW y \in B, y = NEXT(m, x), ~ Used(m, y),
         NEW w, w = Merged(erase(m, y), x, y)
  PROVE  /\ HeapOK(w, B \ {y}, hi) /\ x # y
         /\ Used(w, x) /\ Size(w, x) = Size(m, x) + Size(m, y)
         /\ \A b \in B \ {x, y} : Size(w, b) = Size(m, b) /\ (Used(w, b) <=> Used(m, b))
<1>1. PICK M : M = FreeLists(m, B)
  OBVIOUS
<1>2. /\ Lists(m, B, M)
      /\ \A b \in B, c \in Classes : b \in M[c] <=> ~ Used(m, b) /\ Class(Size(m, b)) = c
      /\ \A c \in Classes : \A b : b \in M[c] => b \in B
      /\ \A c \in Classes : Hdr(m, Sentinel(c)) = 25
      /\ hi \in Nat /\ hi % 8 = 0 /\ hi <= mem_max_addr + 24
      /\ Tiles(B, BlockSizes(m, B), lists_end, hi)
  BY <1>1, HeapLists
<1>3. /\ Size(m, x) \in Nat /\ Size(m, x) % 8 = 0 /\ Size(m, y) \in Nat /\ Size(m, y) % 8 = 0
      /\ B \subseteq Nodes(B) /\ y = x + Size(m, x) /\ x \in Nat /\ Size(m, x) >= 24
  BY BlockLemma DEF Nodes
<1>4. x # y
  BY <1>3
<1>5. PICK n \in Nat : n = Size(m, x) + Size(m, y)
  BY <1>3
<1>6. n % 8 = 0
  BY <1>3, <1>5
<1>7. PICK e \in Classes : y \in M[e]
  BY <1>2, <1>3, ClassLemma
<1>8. PICK m1 : m1 = erase(m, y)
  OBVIOUS
<1>9. SameHeaders(m, m1, Nodes(B))
  BY <1>2, <1>7, <1>8, EraseBlock
<1>10. PICK M1 : /\ Lists(m1, B, M1)
                 /\ \A d \in Classes : \A b : b \in M1[d] <=> b \in M[d] /\ b # y
  BY <1>2, <1>7, <1>8, EraseBlock
<1>11. \A b \in B : Size(m1, b) = Size(m, b) /\ (Used(m1, b) <=> Used(m, b))
  BY <1>3, <1>9, SameHeader DEF SameHeaders
<1>12. PICK C : C = B \ {y}
  OBVIOUS
<1>13. C \subseteq B /\ x \in C /\ Nodes(C) \subseteq Nodes(B)
  BY <1>4, <1>12 DEF Nodes
<1>14. Lists(m1, C, M1)
  <2>1. Spaced(Nodes(C)) /\ C \cap Sentinels = {}
    BY <1>2, <1>13, FewerNodes DEF Lists
  <2>2. \A d \in Classes : \A b : b \in M1[d] => b \in C
    BY <1>2, <1>10, <1>12
  <2> QED BY <1>10, <2>1, <2>2, ListsRebase
<1>15. GET_ALLOC(m1, HDRP(x)) = 1
  BY <1>11 DEF Used
<1>16. PICK v \in Nat : v = PACK(n, 1)
  BY <1>5 DEF PACK
<1>17. w = WRITE(m1, HDRP(x), v)
  BY <1>5, <1>8, <1>11, <1>15, <1>16 DEF Merged, Size
<1>18. /\ Lists(w, C, M1)
       /\ \A b \in Nodes(C) : Hdr(w, b) = IF b = x THEN v ELSE Hdr(m1, b)
  BY <1>13, <1>14, <1>17, HeaderBlock
<1>19. C \subseteq Nodes(C) /\ \A d \in Classes : Sentinel(d) \in Nodes(C) /\ Sentinel(d) # x
  <2>1. B \cap Sentinels = {} /\ \A d \in Classes : Sentinel(d) \in Sentinels
    BY <1>2 DEF Lists, Sentinels
  <2> QED BY <2>1 DEF Nodes
<1>20. Hdr(w, x) = PACK(n, 1)
  BY <1>13, <1>16, <1>18, <1>19
<1>21. Size(w, x) = n /\ Used(w, x)
  BY <1>6, <1>20, PackLemma
<1>22. \A b \in C : b # x => Hdr(w, b) = Hdr(m, b)
  BY <1>9, <1>13, <1>18, <1>19 DEF SameHeaders
<1>23. \A b \in C : b # x => Size(w, b) = Size(m, b) /\ (Used(w, b) <=> Used(m, b))
  BY <1>22, SameHeader
<1>24. HeapOK(w, C, hi)
  <2>1. PICK z : z = BlockSizes(w, C)
    OBVIOUS
  <2>2. \A b \in C : z[b] = Size(w, b)
    BY <2>1 DEF BlockSizes
  <2>3. \A b \in B : BlockSizes(m, B)[b] = Size(m, b)
    BY DEF BlockSizes
  <2>4. Tiles(C, z, lists_end, hi)
    <3>1. PICK q : q = BlockSizes(m, B)
      OBVIOUS
    <3>2. Tiles(B, q, lists_end, hi) /\ y = x + q[x] /\ z[x] = q[x] + q[y]
      BY <1>2, <1>3, <1>5, <1>13, <1>21, <2>2, <2>3, <3>1
    <3>3. \A b \in B \ {x, y} : z[b] = q[b]
      BY <1>12, <1>23, <2>2, <2>3, <3>1
    <3>4. PICK lo \in Nat : lo = lists_end
      BY ListsEnd
    <3>5. hi \in Nat
      BY <1>2
    <3>6. Tiles(B, q, lo, hi)
      BY <3>2, <3>4
    <3>7. Tiles(B \ {y}, z, lo, hi)
      <4>1. PICK t : t = y
        OBVIOUS
      <4>2. /\ t \in B /\ t = x + q[x] /\ z[x] = q[x] + q[t]
            /\ \A b \in B \ {x, t} : z[b] = q[b]
        BY <3>2, <3>3, <4>1
      <4>3. Tiles(B \ {t}, z, lo, hi)
        BY <3>5, <3>6, <4>2, TilesMerge
      <4> QED BY <4>1, <4>3
    <3> QED BY <1>12, <3>4, <3>7
  <2>5. \A d \in Classes : Hdr(w, Sentinel(d)) = 25
    BY <1>2, <1>9, <1>13, <1>18, <1>19 DEF SameHeaders
  <2>6. \A b \in C, d \in Classes : b \in M1[d] <=> ~ Used(w, b) /\ Class(Size(w, b)) = d
    <3> SUFFICES ASSUME NEW b \in C, NEW d \in Classes
                 PROVE  b \in M1[d] <=> ~ Used(w, b) /\ Class(Size(w, b)) = d
      OBVIOUS
    <3>1. b \in M1[d] <=> ~ Used(m, b) /\ Class(Size(m, b)) = d
      BY <1>2, <1>10, <1>12
    <3>2. CASE b = x
      BY <1>21, <3>1, <3>2
    <3>3. CASE b # x
      BY <1>23, <3>1, <3>3
    <3> QED BY <3>2, <3>3
  <2> QED BY <1>2, <1>18, <2>2, <2>4, <2>5, <2>6, HeapAgain
<1> QED BY <1>4, <1>5, <1>12, <1>21, <1>23, <1>24

(* The bytes after extend_heap: a free block of n bytes at the old end.    *)
Extended(m, hi, n) == insert(WRITE(m, HDRP(hi), PACK(n, 0)), hi)

(* extend_heap: a free block at the old end of the heap.                   *)
LEMMA ExtendHeap ==
  ASSUME NEW m, NEW B, NEW hi, HeapOK(m, B, hi), NEW n \in Nat, n % 8 = 0, n >= 24,
         hi + n <= mem_max_addr + 24
  PROVE  /\ HeapOK(Extended(m, hi, n), B \union {hi}, hi + n) /\ hi \notin B
         /\ Size(Extended(m, hi, n), hi) = n /\ ~ Used(Extended(m, hi, n), hi)
         /\ \A b \in B : /\ Size(Extended(m, hi, n), b) = Size(m, b)
                         /\ Used(Extended(m, hi, n), b) <=> Used(m, b)
<1> SUFFICES ASSUME NEW w, w = Extended(m, hi, n)
             PROVE  /\ HeapOK(w, B \union {hi}, hi + n) /\ hi \notin B
                    /\ Size(w, hi) = n /\ ~ Used(w, hi)
                    /\ \A b \in B : Size(w, b) = Size(m, b) /\ (Used(w, b) <=> Used(m, b))
  OBVIOUS
<1>1. PICK M : M = FreeLists(m, B)
  OBVIOUS
<1>2. /\ Lists(m, B, M)
      /\ \A b \in B, c \in Classes : b \in M[c] <=> ~ Used(m, b) /\ Class(Size(m, b)) = c
      /\ \A c \in Classes : \A b : b \in M[c] => b \in B
      /\ \A c \in Classes : Sentinel(c) \in Nodes(B)
      /\ \A c \in Classes : Hdr(m, Sentinel(c)) = 25
      /\ hi \in Nat /\ hi % 8 = 0 /\ hi <= mem_max_addr + 24
      /\ Tiles(B, BlockSizes(m, B), lists_end, hi)
  BY <1>1, HeapLists
<1>3. PICK x : x = hi
  OBVIOUS
<1>4. PICK C : C = B \union {x}
  OBVIOUS
<1>5. PICK end \in Nat : end = hi + n
  BY <1>2
<1>6. end % 8 = 0 /\ end <= mem_max_addr + 24
  BY <1>2, <1>5
<1>7. PICK z : z = [b \in C |-> IF b = x THEN n ELSE Size(m, b)]
  OBVIOUS
<1>8. Tiles(C, z, lists_end, end) /\ x \notin B
  <2>1. PICK q : q = BlockSizes(m, B)
    OBVIOUS
  <2>2. \A b \in B : q[b] = Size(m, b)
    BY <2>1 DEF BlockSizes
  <2>3. PICK lo \in Nat : lo = lists_end
    BY ListsEnd
  <2>4. Tiles(B, q, lo, x) /\ x \in Nat /\ x % 8 = 0
    BY <1>2, <1>3, <2>1, <2>3
  <2>5. \A b \in B : b < x
    BY <2>4 DEF Tiles
  <2>6. z[x] = n /\ \A b \in B : z[b] = q[b]
    BY <1>4, <1>7, <2>2, <2>4, <2>5
  <2>7. Tiles(B \union {x}, z, lo, x + n) /\ x \notin B
    <3> HIDE <1>3
    <3> QED BY <2>4, <2>6, TilesExtend
  <2> QED BY <1>3, <1>4, <1>5, <2>3, <2>7
<1>9. Spaced(Nodes(C)) /\ C \cap Sentinels = {}
  BY <1>5, <1>6, <1>8, TilesSpaced
<1>10. Lists(m, C, M)
  BY <1>2, <1>4, <1>9, ListsRebase
<1>11. PICK v \in Nat : v = PACK(n, 0)
  BY DEF PACK
<1>12. PICK m1 : m1 = WRITE(m, HDRP(x), v)
  OBVIOUS
<1>13. w = insert(m1, x)
  BY <1>3, <1>11, <1>12 DEF Extended
<1>15. /\ C \subseteq Nodes(C) /\ x \in C /\ B \subseteq C
       /\ \A d \in Classes : Sentinel(d) \in Nodes(C) /\ Sentinel(d) # x
  BY <1>4, <1>9 DEF Nodes, Sentinels
<1>14. /\ Lists(m1, C, M)
       /\ \A b \in Nodes(C) : Hdr(m1, b) = IF b = x THEN v ELSE Hdr(m, b)
  BY <1>10, <1>12, <1>15, HeaderBlock
<1>16. Hdr(m1, x) = PACK(n, 0)
  BY <1>11, <1>14, <1>15
<1>17. Size(m1, x) = n /\ ~ Used(m1, x)
  BY <1>16, PackLemma
<1>18. \A b \in B : Hdr(m1, b) = Hdr(m, b)
  BY <1>8, <1>14, <1>15
<1>19. \A b \in B : Size(m1, b) = Size(m, b) /\ (Used(m1, b) <=> Used(m, b))
  BY <1>18, SameHeader
<1>20. \A d \in Classes : Hdr(m1, Sentinel(d)) = 25 /\ x \notin M[d]
  BY <1>2, <1>8, <1>14, <1>15
<1>21. \A b \in C : Size(m1, b) = z[b]
  BY <1>4, <1>7, <1>8, <1>17, <1>19
<1>22. \A b \in C, d \in Classes :
         b # x => (b \in M[d] <=> ~ Used(m1, b) /\ Class(Size(m1, b)) = d)
  BY <1>2, <1>4, <1>19
<1>23. HeapOK(w, C, end) /\ SameHeaders(m1, w, Nodes(C))
  BY <1>6, <1>8, <1>13, <1>14, <1>15, <1>17, <1>20, <1>21, <1>22, InsertHeap
<1>24. \A b \in C : Size(w, b) = Size(m1, b) /\ (Used(w, b) <=> Used(m1, b))
  BY <1>15, <1>23, SameHeader DEF SameHeaders
<1> QED BY <1>3, <1>4, <1>5, <1>8, <1>15, <1>17, <1>19, <1>23, <1>24

(* A payload is written: no header and no link of a list moves.            *)
LEMMA PayloadHeap ==
  ASSUME NEW m, NEW B, NEW hi, HeapOK(m, B, hi), NEW x \in B, Used(m, x),
         NEW p, p = x - 16, NEW n \in Nat, n + 8 <= Size(m, x),
         NEW w \in [Words -> Nat],
         \A a \in Words : (p <= a /\ a < p + n) \/ w[a] = m[a]
  PROVE  /\ HeapOK(w, B, hi)
         /\ \A b \in B : Size(w, b) = Size(m, b) /\ (Used(w, b) <=> Used(m, b))
<1>1. PICK M : M = FreeLists(m, B)
  OBVIOUS
<1>2. /\ Lists(m, B, M)
      /\ \A b \in B, c \in Classes : b \in M[c] <=> ~ Used(m, b) /\ Class(Size(m, b)) = c
      /\ \A c \in Classes : \A b : b \in M[c] => b \in B
      /\ \A c \in Classes : Sentinel(c) \in Nodes(B)
      /\ \A c \in Classes : Hdr(m, Sentinel(c)) = 25
      /\ hi \in Nat /\ hi % 8 = 0 /\ hi <= mem_max_addr + 24
      /\ Tiles(B, BlockSizes(m, B), lists_end, hi)
  BY <1>1, HeapLists
<1>3. m \in [Words -> Nat] /\ Spaced(Nodes(B)) /\ x \in Nodes(B)
  BY <1>2 DEF Lists, Nodes
<1>4. w \in [Words -> Nat]
  OBVIOUS
<1>5. \A a : (a \in Words /\ p <= a /\ a < p + n) \/ READ(w, a) = READ(m, a)
  BY <1>3, <1>4 DEF READ
<1>6. x \in Nat /\ Size(m, x) \in Nat /\ p + n <= x + Size(m, x) - 24
  BY BlockLemma
<1>7. \A y \in Nodes(B) : y \in Nat /\ y > x => x + Size(m, x) <= y
  <2>1. \A y \in B : y > x => x + Size(m, x) <= y
    BY BlockLemma
  <2>2. \A c \in Classes : Sentinel(c) < x
    BY BlockLemma, SentinelLemma, ListsEnd
  <2> QED BY <1>6, <2>1, <2>2, SentinelLemma DEF Nodes, Sentinels
<1>8. \A y \in Nodes(B) : y \in Nat /\ HDRP(y) = y - 24
  BY <1>3 DEF Spaced, HDRP, HSIZE, DSIZE
<1>9. \A y \in Nodes(B) : y < x => y + 24 <= x
  BY <1>3 DEF Spaced
<1>10. \A y \in Nodes(B) : Hdr(w, y) = Hdr(m, y)
  <2> SUFFICES ASSUME NEW y \in Nodes(B) PROVE READ(w, HDRP(y)) = READ(m, HDRP(y))
    BY DEF Hdr
  <2>1. ~ (p <= HDRP(y) /\ HDRP(y) < p + n)
    <3>1. y \in Nat /\ HDRP(y) = y - 24
      BY <1>8
    <3>2. y < x \/ y = x \/ y > x
      BY <1>6, <3>1
    <3> QED BY <1>6, <1>7, <1>9, <3>1, <3>2
  <2> QED BY <1>5, <2>1
<1>11. ASSUME NEW y \in Nodes(B), y # x
       PROVE  PRED(w, y) = PRED(m, y) /\ SUCC(w, y) = SUCC(m, y)
  <2>1. y \in Nat /\ HDRP(y) = y - 24
    BY <1>8
  <2>2. y + 24 <= x \/ x + Size(m, x) <= y
    <3>1. y < x \/ y > x
      BY <1>6, <1>11, <2>1
    <3> QED BY <1>7, <1>9, <2>1, <3>1
  <2>3. ~ (p <= HDRP(y) + 8 /\ HDRP(y) + 8 < p + n)
    BY <1>6, <2>1, <2>2
  <2>4. ~ (p <= HDRP(y) + 16 /\ HDRP(y) + 16 < p + n)
    BY <1>6, <2>1, <2>2
  <2> QED BY <1>5, <2>3, <2>4 DEF PRED, SUCC
<1>12. Lists(w, B, M)
  <2>1. \A c \in Classes : SameLinks(m, w, M[c] \union {Sentinel(c)})
    <3>1. \A c \in Classes : /\ x \notin M[c] \union {Sentinel(c)}
                             /\ M[c] \union {Sentinel(c)} \subseteq Nodes(B)
      BY <1>2, ListNodes
    <3> QED BY <1>11, <3>1 DEF SameLinks
  <2> QED BY <1>2, <1>4, <2>1, ListsFrame
<1>13. \A b \in B : Size(w, b) = Size(m, b) /\ (Used(w, b) <=> Used(m, b))
  BY <1>10, SameHeader DEF Nodes
<1>14. HeapOK(w, B, hi)
  <2>1. \A b \in B : Size(w, b) = BlockSizes(m, B)[b]
    BY <1>13 DEF BlockSizes
  <2>2. \A d \in Classes : Hdr(w, Sentinel(d)) = 25
    BY <1>2, <1>10
  <2>3. \A b \in B, d \in Classes : b \in M[d] <=> ~ Used(w, b) /\ Class(Size(w, b)) = d
    BY <1>2, <1>13
  <2> QED BY <1>2, <1>12, <2>1, <2>2, <2>3, HeapAgain
<1> QED BY <1>13, <1>14

(* The client fills a payload.                                             *)
LEMMA FillHeap ==
  ASSUME NEW m, NEW B, NEW hi, HeapOK(m, B, hi), NEW x \in B, Used(m, x),
         NEW p, p = x - 16, NEW n \in Nat, n + 8 <= Size(m, x), NEW v \in Nat,
         NEW w, w = MemSet(m, p, v, n)
  PROVE  /\ HeapOK(w, B, hi)
         /\ \A b \in B : Size(w, b) = Size(m, b) /\ (Used(w, b) <=> Used(m, b))
<1>1. m \in [Words -> Nat]
  BY DEF HeapOK, Lists
<1>2. /\ w \in [Words -> Nat]
      /\ \A a \in Words : (p <= a /\ a < p + n) \/ w[a] = m[a]
  BY <1>1 DEF MemSet
<1> QED BY <1>2, PayloadHeap

(* mm_realloc copies the payload of y to the block x it has moved to.      *)
LEMMA CopyHeap ==
  ASSUME NEW m, NEW B, NEW hi, HeapOK(m, B, hi), NEW x \in B, Used(m, x), NEW y \in B,
         NEW p, p = x - 16, NEW q, q = y - 16, NEW n, n = Size(m, y) - 8,
         Size(m, y) <= Size(m, x), NEW w, w = MemMove(m, p, q, n)
  PROVE  /\ HeapOK(w, B, hi)
         /\ \A b \in B : Size(w, b) = Size(m, b) /\ (Used(w, b) <=> Used(m, b))
<1>1. m \in [Words -> Nat] /\ hi \in Nat /\ hi <= mem_max_addr + 24
  BY DEF HeapOK, Lists
<1>2. /\ x \in Nat /\ x % 8 = 0 /\ Size(m, x) \in Nat
      /\ y \in Nat /\ y % 8 = 0 /\ lists_end <= y
      /\ Size(m, y) \in Nat /\ Size(m, y) >= 24 /\ y + Size(m, y) <= hi
  BY BlockLemma
<1>3. n \in Nat /\ n + 8 <= Size(m, x)
  BY <1>2
<1>4. /\ mem_start_brk \in Nat /\ mem_max_addr \in Nat
      /\ lists_end \in Nat /\ lists_end >= mem_start_brk + 24
  BY ListsEnd, MemAssumption, ClassAssumption DEF MemAssumption, ClassAssumption, mem_max_addr
<1>5. ASSUME NEW a \in Words, p <= a, a < p + n
      PROVE  q + (a - p) \in Words
  <2>1. a \in Nat /\ a % 8 = 0
    BY <1>4 DEF Words
  <2>2. PICK d \in Nat : d = a - p /\ d < n
    BY <1>2, <1>3, <1>5, <2>1
  <2>3. d % 8 = 0
    BY <1>2, <2>1, <2>2
  <2>4. PICK e \in Nat : e = q + d
    BY <1>2, <1>4
  <2>5. e % 8 = 0 /\ mem_start_brk <= e /\ e <= mem_max_addr - 1
    BY <1>1, <1>2, <1>4, <2>2, <2>3, <2>4
  <2>6. e \in Words
    BY <1>4, <2>5 DEF Words
  <2> QED BY <2>2, <2>4, <2>6
<1>6. /\ w \in [Words -> Nat]
      /\ \A a \in Words : (p <= a /\ a < p + n) \/ w[a] = m[a]
  <2>1. \A a \in Words : w[a] = IF p <= a /\ a < p + n THEN m[q + (a - p)] ELSE m[a]
    BY <1>1 DEF MemMove
  <2>2. w = [a \in Words |-> IF p <= a /\ a < p + n THEN m[q + (a - p)] ELSE m[a]]
    BY <1>1 DEF MemMove
  <2> QED BY <1>1, <1>5, <2>1, <2>2
<1> QED BY <1>3, <1>6, PayloadHeap

(* The second SET of mm_realloc (mm.c:582) writes the word six below the   *)
(* block it was given.  It leaves the heap as it is, unless that word is   *)
(* the header or a link of a free block.                                   *)
LEMMA StrayHeap ==
  ASSUME NEW m, NEW B, NEW hi, HeapOK(m, B, hi), NEW x \in B,
         \A b \in B : ~ Used(m, b) => x - 48 \notin {HDRP(b), HDRP(b) + 8, HDRP(b) + 16},
         NEW w, w = SET(m, HDRP(x), 1)
  PROVE  /\ HeapOK(w, B, hi)
         /\ \A b \in B : Size(w, b) = Size(m, b) /\ (Used(w, b) <=> Used(m, b))
<1>1. PICK M : M = FreeLists(m, B)
  OBVIOUS
<1>2. /\ Lists(m, B, M)
      /\ \A b \in B, c \in Classes : b \in M[c] <=> ~ Used(m, b) /\ Class(Size(m, b)) = c
      /\ \A c \in Classes : \A b : b \in M[c] => b \in B
      /\ \A c \in Classes : Sentinel(c) \in Nodes(B)
      /\ \A c \in Classes : Hdr(m, Sentinel(c)) = 25
      /\ hi \in Nat /\ hi % 8 = 0 /\ hi <= mem_max_addr + 24
      /\ Tiles(B, BlockSizes(m, B), lists_end, hi)
  BY <1>1, HeapLists
<1>3. m \in [Words -> Nat] /\ Spaced(Nodes(B))
  BY <1>2 DEF Lists
<1>4. x \in Nat /\ lists_end <= x /\ (lists_end < x => lists_end + 24 <= x)
  <2>1. x \in Nat /\ lists_end <= x /\ x < hi
    BY BlockLemma
  <2>2. lists_end \in B \union {hi}
    BY <1>2 DEF Tiles
  <2>3. lists_end < x => lists_end \in B
    BY <1>2, <2>1, <2>2, ListsEnd
  <2>4. ASSUME lists_end < x PROVE lists_end + 24 <= x
    <3>1. PICK e \in B : e = lists_end
      BY <2>3, <2>4
    <3>2. NEXT(m, e) <= x /\ NEXT(m, e) = e + Size(m, e) /\ Size(m, e) >= 24 /\ e \in Nat
          /\ Size(m, e) \in Nat
      BY <2>4, <3>1, BlockLemma
    <3> QED BY <2>1, <3>1, <3>2
  <2> QED BY <2>1, <2>4
<1>5. PICK a \in Int : a = x - 48
  BY <1>4
<1>6. HDRP(HDRP(x)) = a
  BY <1>4, <1>5 DEF HDRP, HSIZE, DSIZE
<1>7. PICK v : v = PACK(GET_SIZE(m, a), 1)
  OBVIOUS
<1>8. w = WRITE(m, a, v)
  BY <1>6, <1>7 DEF SET, Then
<1>9. v \in Nat
  <2>1. READ(m, a) \in Nat
    BY <1>3 DEF READ
  <2> QED BY <1>7, <2>1 DEF GET_SIZE, PACK
<1>10. /\ w \in [Words -> Nat]
       /\ \A e : READ(w, e) = IF e = a /\ a \in Words THEN v ELSE READ(m, e)
  BY <1>3, <1>8, <1>9 DEF WRITE, READ
<1>11. ASSUME NEW y \in Nodes(B), Used(m, y) \/ HDRP(y) # a
       PROVE  Size(w, y) = Size(m, y) /\ (Used(w, y) <=> Used(m, y))
  <2>1. CASE HDRP(y) = a /\ a \in Words
    <3>1. Hdr(w, y) = PACK(Size(m, y), 1)
      BY <1>7, <1>10, <2>1 DEF Hdr, Size
    <3>2. Size(m, y) \in Nat /\ Size(m, y) % 8 = 0
      <4>1. Hdr(m, y) \in Nat
        BY <1>3 DEF Hdr, READ
      <4> QED BY <4>1, HeaderLemma
    <3>3. Size(w, y) = Size(m, y) /\ Used(w, y)
      BY <3>1, <3>2, PackLemma
    <3> QED BY <1>11, <2>1, <3>3
  <2>2. CASE ~ (HDRP(y) = a /\ a \in Words)
    <3>1. Hdr(w, y) = Hdr(m, y)
      BY <1>10, <2>2 DEF Hdr
    <3> QED BY <3>1, SameHeader
  <2> QED BY <2>1, <2>2
<1>12. ASSUME NEW b \in B
       PROVE  Size(w, b) = Size(m, b) /\ (Used(w, b) <=> Used(m, b))
  <2>1. b \in Nodes(B)
    BY DEF Nodes
  <2>2. Used(m, b) \/ HDRP(b) # a
    BY <1>5
  <2> QED BY <1>11, <2>1, <2>2
<1>13. ASSUME NEW c \in Classes
       PROVE  /\ Hdr(w, Sentinel(c)) = 25
              /\ HDRP(Sentinel(c)) + 8 # a /\ HDRP(Sentinel(c)) + 16 # a
  <2>1. PICK s : s = Sentinel(c)
    OBVIOUS
  <2>2. Hdr(m, s) = 25 /\ s \in Nodes(B)
    BY <1>2, <2>1
  <2>3. GET_SIZE(m, HDRP(s)) = 24
    BY <2>2 DEF Hdr, GET_SIZE
  <2>4. Hdr(w, s) = 25
    BY <1>7, <1>10, <2>2, <2>3 DEF Hdr, PACK
  <2>5. /\ s \in Nat /\ HDRP(s) = s - 24
        /\ c \in Nat /\ c <= CLASS_NUM - 1 /\ CLASS_NUM \in Nat /\ mem_start_brk \in Nat
        /\ s = mem_start_brk + c * 24 + 24
        /\ lists_end = mem_start_brk + 24 + CLASS_NUM * 24
    BY <2>1, SentinelLemma, ListsEnd, ClassAssumption, MemAssumption
    DEF Classes, ClassAssumption, MemAssumption, HDRP, HSIZE, DSIZE
  <2>6. lists_end = s + 24 \/ lists_end >= s + 48
    BY <2>5
  <2>7. s - 24 + 8 # a /\ s - 24 + 16 # a
    BY <1>4, <1>5, <2>5, <2>6, ListsEnd
  <2> QED BY <2>1, <2>4, <2>5, <2>7
<1>14. Lists(w, B, M)
  <2>1. ASSUME NEW c \in Classes, NEW y \in M[c] \union {Sentinel(c)}
        PROVE  HDRP(y) + 8 # a /\ HDRP(y) + 16 # a
    <3>1. CASE y = Sentinel(c)
      BY <1>13, <3>1
    <3>2. CASE y \in M[c]
      <4>1. y \in B /\ ~ Used(m, y)
        BY <1>2, <3>2
      <4> QED BY <1>5, <4>1
    <3> QED BY <2>1, <3>1, <3>2
  <2>2. \A c \in Classes : SameLinks(m, w, M[c] \union {Sentinel(c)})
    BY <1>10, <2>1 DEF SameLinks, PRED, SUCC
  <2> QED BY <1>2, <1>10, <2>2, ListsFrame
<1>15. HeapOK(w, B, hi)
  <2>1. \A b \in B : Size(w, b) = BlockSizes(m, B)[b]
    BY <1>12 DEF BlockSizes
  <2>2. \A d \in Classes : Hdr(w, Sentinel(d)) = 25
    BY <1>13
  <2>3. \A b \in B, d \in Classes : b \in M[d] <=> ~ Used(w, b) /\ Class(Size(w, b)) = d
    BY <1>2, <1>12
  <2> QED BY <1>2, <1>14, <2>1, <2>2, <2>3, HeapAgain
<1> QED BY <1>12, <1>15

(* mm_init: sentinels linked to themselves, and no block.                  *)
LEMMA InitHeap ==
  ASSUME NEW m \in [Words -> Nat], lists_end <= mem_max_addr + 24,
         \A a \in Words : a < HDRP(lists_end) =>
           LET i == (a - mem_start_brk) \div HSIZE
           IN  m[a] = IF a = HDRP(Sentinel(i)) THEN PACK(HSIZE, 1) ELSE Sentinel(i)
  PROVE  HeapOK(m, {}, lists_end)
<1>1. PICK B : B = {}
  OBVIOUS
<1>2. PICK z : z = BlockSizes(m, B)
  OBVIOUS
<1>3. Tiles(B, z, lists_end, lists_end)
  BY <1>1, ListsEnd DEF Tiles
<1>4. Spaced(Nodes(B)) /\ B \cap Sentinels = {}
  BY <1>3, ListsEnd, TilesSpaced
<1>5. ASSUME NEW c \in Classes
      PROVE  /\ Hdr(m, Sentinel(c)) = 25
             /\ PRED(m, Sentinel(c)) = Sentinel(c) /\ SUCC(m, Sentinel(c)) = Sentinel(c)
  <2>1. Sentinel(c) \in Nodes(B)
    BY DEF Nodes, Sentinels
  <2>2. PICK a : a = HDRP(Sentinel(c))
    OBVIOUS
  <2>3. a \in Words /\ a + 8 \in Words /\ a + 16 \in Words
    BY <1>4, <2>1, <2>2 DEF Spaced
  <2>4. /\ mem_start_brk \in Nat /\ c \in Nat /\ a = mem_start_brk + c * 24
        /\ a < HDRP(lists_end) /\ a + 8 < HDRP(lists_end) /\ a + 16 < HDRP(lists_end)
        /\ a + 8 # a /\ a + 16 # a
    BY <2>2, SentinelLemma, ListsEnd, MemAssumption
       DEF MemAssumption, Classes, HDRP, HSIZE, DSIZE
  <2>5. /\ (a - mem_start_brk) \div HSIZE = c
        /\ ((a + 8) - mem_start_brk) \div HSIZE = c
        /\ ((a + 16) - mem_start_brk) \div HSIZE = c
    BY <2>4 DEF HSIZE, DSIZE
  <2>6. m[a] = PACK(HSIZE, 1)
    <3> HIDE DEF HDRP, Sentinel, lists_end
    <3> QED BY <2>2, <2>3, <2>4, <2>5
  <2>7. m[a + 8] = Sentinel(c) /\ m[a + 16] = Sentinel(c)
    <3>1. \A b \in Words : b < HDRP(lists_end) /\ b # a /\ (b - mem_start_brk) \div HSIZE = c
                           => m[b] = Sentinel(c)
      BY <2>2
    <3> QED BY <2>3, <2>4, <2>5, <3>1
  <2> QED BY <2>2, <2>3, <2>6, <2>7 DEF Hdr, PRED, SUCC, READ, PACK, HSIZE, DSIZE
<1>6. PICK M : M = [c \in Classes |-> {}]
  OBVIOUS
<1>7. ASSUME NEW c \in Classes PROVE Ring(m, Sentinel(c), M[c])
  <2>1. PICK s : s = Sentinel(c)
    OBVIOUS
  <2>2. PICK f : f = [j \in 0 .. 0 + 1 |-> s]
    OBVIOUS
  <2>3. s \in Nat /\ PRED(m, s) = s /\ SUCC(m, s) = s /\ M[c] = {}
    BY <1>5, <1>6, <2>1, SentinelLemma
  <2>4. Round(m, s, M[c], 0, f)
    BY <2>2, <2>3 DEF Round
  <2> QED BY <2>1, <2>4 DEF Ring
<1>8. Lists(m, B, M)
  BY <1>4, <1>6, <1>7 DEF Lists, Apart
<1>9. \A b \in B : Size(m, b) = z[b]
  BY <1>1
<1>10. \A b \in B, c \in Classes : b \in M[c] <=> ~ Used(m, b) /\ Class(Size(m, b)) = c
  BY <1>1
<1>11. HeapOK(m, B, lists_end)
  BY <1>3, <1>5, <1>8, <1>9, <1>10, ListsEnd, HeapAgain
<1> QED BY <1>1, <1>11

(* What mem_sbrk grants is what was asked for.                             *)
LEMMA SbrkLemma ==
  ASSUME NEW n \in Nat, n < INT_MOD, ToInt(n) >= 0
  PROVE  ToInt(n) = n
<1>1. INT_MOD \in Nat \ {0} /\ n % INT_MOD = n
  BY MemAssumption DEF MemAssumption
<1> QED BY <1>1 DEF ToInt

(***************************************************************************)
(* The scan of first_fit for n bytes.  A block is passed over when it is   *)
(* too small and cannot be merged with its successor.                      *)
(***************************************************************************)
Merges(m, hi, b) == NEXT(m, b) < hi /\ ~ Used(m, NEXT(m, b))
Passed(m, hi, n, b) == Size(m, b) < n /\ ~ Merges(m, hi, b)

(* No block of the classes from that of n up to class l is left out.       *)
Seen(m, B, hi, n, l) ==
  \A b \in B : ~ Used(m, b) /\ Class(n) <= Class(Size(m, b)) /\ Class(Size(m, b)) < l
                 => Passed(m, hi, n, b)

(* The scan stands at c, in the list of class l.                           *)
PassedUpTo(m, hi, n, f, i) == \A j \in 1 .. i - 1 : Passed(m, hi, n, f[j])
ScanAt(m, B, hi, n, l, c) ==
  /\ Class(n) <= l /\ Seen(m, B, hi, n, l)
  /\ \E k, i \in Nat : \E f :
       /\ i \in 1 .. k + 1 /\ Round(m, Sentinel(l), FreeLists(m, B)[l], k, f)
       /\ c = f[i] /\ PassedUpTo(m, hi, n, f, i)

(* The ring of a class, and the blocks in it.                              *)
LEMMA ClassRing ==
  ASSUME NEW m, NEW B, NEW hi, HeapOK(m, B, hi), NEW l \in Classes
  PROVE  /\ Ring(m, Sentinel(l), FreeLists(m, B)[l])
         /\ Sentinel(l) \notin FreeLists(m, B)[l]
         /\ \A b : b \in FreeLists(m, B)[l] <=>
                     b \in B /\ ~ Used(m, b) /\ Class(Size(m, b)) = l
<1>1. PICK M : M = FreeLists(m, B)
  OBVIOUS
<1>2. /\ Lists(m, B, M)
      /\ \A b \in B, c \in Classes : b \in M[c] <=> ~ Used(m, b) /\ Class(Size(m, b)) = c
      /\ \A c \in Classes : \A b : b \in M[c] => b \in B
  BY <1>1, HeapLists
<1>3. Ring(m, Sentinel(l), M[l]) /\ Sentinel(l) \notin M[l]
  BY <1>2, ListNodes DEF Lists
<1> QED BY <1>1, <1>2, <1>3

(* A scan starts at the first node of a list.                              *)
LEMMA ScanStart ==
  ASSUME NEW m, NEW B, NEW hi, HeapOK(m, B, hi), NEW n, NEW l \in Classes,
         Class(n) <= l, Seen(m, B, hi, n, l)
  PROVE  ScanAt(m, B, hi, n, l, SUCC(m, Sentinel(l)))
<1>1. PICK A : A = FreeLists(m, B)[l]
  OBVIOUS
<1>2. PICK k \in Nat : \E f : Round(m, Sentinel(l), A, k, f)
  BY <1>1, ClassRing DEF Ring
<1>3. PICK f : Round(m, Sentinel(l), A, k, f)
  BY <1>2
<1>4. SUCC(m, Sentinel(l)) = f[1]
  <2>1. 0 \in 0 .. k /\ 0 + 1 = 1 /\ f[0] = Sentinel(l)
    BY <1>3 DEF Round
  <2>2. SUCC(m, f[0]) = f[0 + 1]
    BY <1>3, <2>1 DEF Round
  <2> QED BY <2>1, <2>2
<1>5. PassedUpTo(m, hi, n, f, 1) /\ 1 \in 1 .. k + 1
  BY DEF PassedUpTo
<1> QED BY <1>1, <1>3, <1>4, <1>5 DEF ScanAt

(* Where it stands when it has not come back to the sentinel.              *)
LEMMA ScanNode ==
  ASSUME NEW m, NEW B, NEW hi, HeapOK(m, B, hi), NEW n, NEW l \in Classes, NEW c,
         ScanAt(m, B, hi, n, l, c), c # Sentinel(l)
  PROVE  c \in B /\ ~ Used(m, c) /\ Class(Size(m, c)) = l
<1>1. PICK A : A = FreeLists(m, B)[l]
  OBVIOUS
<1>9. PICK k \in Nat, i \in Nat : \E f :
        /\ i \in 1 .. k + 1 /\ Round(m, Sentinel(l), A, k, f) /\ c = f[i]
  BY <1>1 DEF ScanAt
<1>2. PICK f : i \in 1 .. k + 1 /\ Round(m, Sentinel(l), A, k, f) /\ c = f[i]
  BY <1>9
<1>3. c \in A
  <2>1. f[i] \in A \union {Sentinel(l)}
    BY <1>2, RoundNodes
  <2> QED BY <1>2, <2>1
<1> QED BY <1>1, <1>3, ClassRing

(* One node further.                                                       *)
LEMMA ScanAdvance ==
  ASSUME NEW m, NEW B, NEW hi, HeapOK(m, B, hi), NEW n, NEW l \in Classes, NEW c,
         ScanAt(m, B, hi, n, l, c), c # Sentinel(l), Passed(m, hi, n, c)
  PROVE  ScanAt(m, B, hi, n, l, SUCC(m, c))
<1>1. PICK A : A = FreeLists(m, B)[l]
  OBVIOUS
<1>9. PICK k \in Nat, i \in Nat : \E f :
        /\ i \in 1 .. k + 1 /\ Round(m, Sentinel(l), A, k, f) /\ c = f[i] /\ PassedUpTo(m, hi, n, f, i)
  BY <1>1 DEF ScanAt
<1>2. PICK f : i \in 1 .. k + 1 /\ Round(m, Sentinel(l), A, k, f) /\ c = f[i] /\ PassedUpTo(m, hi, n, f, i)
  BY <1>9
<1>3. i # k + 1
  BY <1>2 DEF Round
<1>4. i \in 0 .. k /\ i + 1 \in 1 .. k + 1
  BY <1>2, <1>3
<1>5. SUCC(m, c) = f[i + 1]
  BY <1>2, <1>4 DEF Round
<1>6. PassedUpTo(m, hi, n, f, i + 1)
  <2>1. \A j \in 1 .. (i + 1) - 1 : j \in 1 .. i - 1 \/ j = i
    OBVIOUS
  <2> QED BY <1>2, <2>1 DEF PassedUpTo
<1> QED BY <1>1, <1>2, <1>4, <1>5, <1>6 DEF ScanAt

(* Back at the sentinel: every block of the list has been passed over.     *)
LEMMA ScanDone ==
  ASSUME NEW m, NEW B, NEW hi, HeapOK(m, B, hi), NEW n, NEW l \in Classes,
         ScanAt(m, B, hi, n, l, Sentinel(l))
  PROVE  Seen(m, B, hi, n, l + 1)
<1>1. PICK A : A = FreeLists(m, B)[l]
  OBVIOUS
<1>9. PICK k \in Nat, i \in Nat : \E f :
        /\ i \in 1 .. k + 1 /\ Round(m, Sentinel(l), A, k, f) /\ Sentinel(l) = f[i] /\ PassedUpTo(m, hi, n, f, i)
  BY <1>1 DEF ScanAt
<1>2. PICK f : i \in 1 .. k + 1 /\ Round(m, Sentinel(l), A, k, f) /\ Sentinel(l) = f[i] /\ PassedUpTo(m, hi, n, f, i)
  BY <1>9
<1>3. \A j \in 1 .. k : f[j] \in A
  BY <1>2 DEF Round
<1>4. i = k + 1
  BY <1>1, <1>2, <1>3, ClassRing
<1>5. \A b \in A : Passed(m, hi, n, b)
  <2> SUFFICES ASSUME NEW b \in A PROVE Passed(m, hi, n, b)
    OBVIOUS
  <2>1. PICK j \in 1 .. k : f[j] = b
    BY <1>2 DEF Round
  <2>2. j \in 1 .. i - 1
    BY <1>4
  <2> QED BY <1>2, <2>1, <2>2 DEF PassedUpTo
<1>6. ASSUME NEW b \in B, ~ Used(m, b), Class(n) <= Class(Size(m, b)),
             Class(Size(m, b)) < l + 1
      PROVE  Passed(m, hi, n, b)
  <2>1. Class(Size(m, b)) \in Classes
    BY BlockLemma, ClassLemma
  <2>2. Class(Size(m, b)) < l \/ Class(Size(m, b)) = l
    BY <1>6, <2>1 DEF Classes
  <2>3. CASE Class(Size(m, b)) < l
    BY <1>6, <2>3 DEF ScanAt, Seen
  <2>4. CASE Class(Size(m, b)) = l
    BY <1>1, <1>5, <1>6, <2>4, ClassRing
  <2> QED BY <2>2, <2>3, <2>4
<1> QED BY <1>6 DEF Seen

(* A merge in list l leaves the smaller classes as they were seen.         *)
LEMMA ScanMerge ==
  ASSUME NEW m, NEW B, NEW hi, HeapOK(m, B, hi), NEW x \in B, ~ Used(m, x),
         NEW y \in B, y = NEXT(m, x), ~ Used(m, y),
         NEW w, w = insert(erase(erase(Merged(m, x, y), x), y), x),
         NEW n, NEW l, l = Class(Size(m, x)), Seen(m, B, hi, n, l)
  PROVE  Seen(w, B \ {y}, hi, n, l)
<1>1. /\ HeapOK(w, B \ {y}, hi) /\ x # y
      /\ Size(w, x) = Size(m, x) + Size(m, y)
      /\ \A b \in B \ {x, y} : Size(w, b) = Size(m, b)
      /\ \A b \in B \ {y} : Used(w, b) <=> Used(m, b)
  BY CoalesceHeap
<1>2. ASSUME NEW b \in B \ {y}, ~ Used(w, b), Class(n) <= Class(Size(w, b)),
             Class(Size(w, b)) < l
      PROVE  Passed(w, hi, n, b)
  <2>1. b # x
    <3>1. Size(m, x) \in Nat /\ Size(m, y) \in Nat
      BY BlockLemma
    <3>2. Class(Size(m, x)) <= Class(Size(w, x))
      BY <1>1, <3>1, ClassLemma
    <3>3. Class(Size(w, x)) \in Int /\ l \in Int
      BY <1>1, <3>1, ClassLemma DEF Classes
    <3> QED BY <1>2, <3>2, <3>3
  <2>2. Size(w, b) = Size(m, b) /\ ~ Used(m, b)
    BY <1>1, <1>2, <2>1
  <2>3. Passed(m, hi, n, b)
    BY <1>2, <2>2 DEF Seen
  <2>4. NEXT(w, b) = NEXT(m, b)
    BY <2>2 DEF NEXT, Size
  <2>5. NEXT(m, b) < hi => NEXT(m, b) \in B \ {y}
    <3>1. /\ NEXT(m, b) \in B \union {hi} /\ NEXT(m, x) = x + Size(m, x)
          /\ NEXT(m, b) = b + Size(m, b) /\ hi \in Nat
      BY BlockLemma DEF HeapOK
    <3>2. NEXT(m, b) # y
      <4>1. /\ b \in Nat /\ x \in Nat /\ NEXT(m, b) \in Nat /\ NEXT(m, x) \in Nat
            /\ b < NEXT(m, b) /\ x < NEXT(m, x)
            /\ b < x => NEXT(m, b) <= x
            /\ x < b => NEXT(m, x) <= b
        BY BlockLemma
      <4> QED BY <2>1, <4>1
    <3> QED BY <3>1, <3>2
  <2> QED BY <1>1, <2>2, <2>3, <2>4, <2>5 DEF Passed, Merges
<1> QED BY <1>2 DEF Seen

(***************************************************************************)
(* The inductive invariant.                                                *)
(***************************************************************************)
(* The traces the theorems are about: LinksFit is false of the others.     *)
RoomForLinks == \A n \in Sizes \union ReallocSizes : n = 0 \/ n > DSIZE

(* The second SET of mm_realloc (mm.c:582) hits neither the header nor a   *)
(* link of a free block: the block before the new one is not free with     *)
(* 24, 32 or 40 bytes.                                                     *)
StrayMisses ==
  pc = "copy" => \A b \in blks : ~ IsAlloc(b) =>
    HDRP(HDRP(cur)) \notin {HDRP(b), HDRP(b) + 8, HDRP(b) + 16}

(* What the call in progress and the control state say of each other.      *)
CallInv ==
  /\ call.fn = "none" <=> call.st = "none"
  /\ call.st # "none" => verdict = "running"
  /\ call.fn = "mm_init" => live = {}
  /\ Called("mm_init") => mem_brk = mem_start_brk
  /\ call.fn = "mm_malloc" => call.id \in Ids \ live /\ call.size > DSIZE
  /\ call.fn = "mm_realloc" =>
       /\ call.id \in live /\ call.ptr = blocks[call.id]
       /\ call.size = 0 \/ call.size > DSIZE
  /\ pc # "idle" => /\ call.st = "called" /\ call.size > DSIZE
                    /\ size = ALIGN(call.size + DSIZE)
  /\ pc = "expand" => call.fn = "mm_realloc"
  /\ pc \notin {"idle", "expand"} => call.fn \in {"mm_malloc", "mm_realloc"}
  /\ pc = "copy" => call.fn = "mm_realloc"
  /\ pc \in {"idle", "expand", "fit"} => ~ grown

(* The blocks, who owns them, and their marks.                             *)
Shape == HeapOK(mem, blks, heap_end) /\ heap_end = mem_brk + 24
Marks == \A b \in blks : Used(mem, b) <=> Taken(b)
Owners ==
  /\ \A i \in Ids : Holds(i) => Addr(i) + 16 \in blks
  /\ \A i, j \in Ids : Holds(i) /\ Holds(j) /\ Addr(i) = Addr(j) => i = j
Freed ==
  Called("mm_free") =>
    Block \in blks /\ \A i \in Ids : Holds(i) => Addr(i) # call.ptr
Room ==
  \A i \in Ids : Answered(i) /\ call.ret # NULL =>
    call.size + 8 <= Size(mem, call.ret + 16)
HeapInv == Usable => Shape /\ Marks /\ Owners /\ Freed /\ Room

(* The scan of mm_malloc and the block it finds.                           *)
ScanInv ==
  /\ pc \in {"fit", "refit"} =>
       \E l \in Classes : link_end = Sentinel(l) /\ ScanAt(mem, blks, heap_end, size, l, cur)
  /\ pc = "place" => cur \in blks /\ ~ Used(mem, cur) /\ size <= Size(mem, cur)
  /\ pc = "refit" /\ grown => \E b \in blks : ~ Used(mem, b) /\ size <= Size(mem, b)
  /\ pc = "crashed" => ~ grown

(* A realloc that moves: the block it leaves is smaller than what it asks  *)
(* for, and the block it has found is held by nobody yet.                  *)
MoveInv ==
  /\ Called("mm_realloc") /\ pc \notin {"idle", "expand"} => Size(mem, Block) < size
  /\ pc = "copy" => /\ cur \in blks /\ size <= Size(mem, cur)
                    /\ \A i \in Ids : Holds(i) => Addr(i) + 16 # cur

IInv == RoomForLinks /\ TypeOK /\ CallInv /\ HeapInv /\ ScanInv /\ MoveInv

(* The size of a block asked for.                                          *)
LEMMA AlignLemma ==
  ASSUME NEW n \in Nat, n > DSIZE, NEW k, k = ALIGN(n + DSIZE)
  PROVE  k \in Nat /\ k % 8 = 0 /\ k >= 24 /\ n + 8 <= k /\ k <= n + 15
  BY DEF ALIGN, ALIGNMENT, DSIZE

(* An aligned size stays as it is.                                         *)
LEMMA AlignAgain ==
  ASSUME NEW n \in Nat, n % 8 = 0, n >= 24
  PROVE  ALIGN((n - DSIZE) + DSIZE) = n
  BY DEF ALIGN, ALIGNMENT, DSIZE

(* The size a call works with: aligned, large enough, not wrapped around. *)
LEMMA RequestSize ==
  ASSUME TypeOK, CallInv, pc # "idle"
  PROVE  /\ size \in Nat /\ size % 8 = 0 /\ size >= 24 /\ call.size + 8 <= size
         /\ size < INT_MOD
<1>1. call.size \in 0 .. (INT_MOD \div 2 - 1) /\ call.size > DSIZE /\ size = ALIGN(call.size + DSIZE)
  BY DEF TypeOK, DriverTypeOK, CallInv
<1>2. INT_MOD \in Nat /\ INT_MOD >= 64 /\ call.size \in Nat /\ call.size <= INT_MOD \div 2 - 1
  BY <1>1, MemAssumption DEF MemAssumption
<1>3. /\ size \in Nat /\ size % 8 = 0 /\ size >= 24 /\ call.size + 8 <= size
      /\ size <= call.size + 15
  BY <1>1, <1>2, AlignLemma
<1> QED BY <1>2, <1>3

(* A call other than mm_init finds a usable heap.                          *)
LEMMA InCall ==
  ASSUME CallInv, call.st = "called", call.fn # "mm_init"
  PROVE  Usable
  BY DEF CallInv, Usable, Called, Returned

(* No step confuses the call and the control state.                        *)
LEMMA CallInvariance ==
  ASSUME RoomForLinks, TypeOK, CallInv, [Next]_vars
  PROVE  CallInv'
<1> USE DEF Called, Returned, DriverTypeOK, Calls, PCs
<1>1. CASE UNCHANGED vars
  BY <1>1 DEF CallInv, vars, memVars, driverVars, mmVars
<1>2. CASE mm_init
  BY <1>2 DEF mm_init, Return, UnchangedDriver, CallInv, TypeOK
<1>3. CASE mm_malloc
  BY <1>3 DEF mm_malloc, StartScan, CallInv, TypeOK, driverVars, memVars
<1>4. CASE FitNextList \/ FitTake \/ FitAdvance \/ FitCoalesce \/ ExtendFails
  BY <1>4 DEF FitNextList, FitTake, FitAdvance, FitCoalesce, ExtendFails, StartScan,
              Scanning, CallInv, TypeOK, driverVars, memVars
<1>5. CASE Extend \/ RefitFails
  BY <1>5 DEF Extend, RefitFails, StartScan, CallInv, TypeOK, driverVars, memVars
<1>6. CASE Place \/ mm_free \/ ReallocToZero \/ ReallocInPlace
  BY <1>6 DEF Place, mm_free, ReallocToZero, ReallocInPlace, Return, UnchangedDriver,
              CallInv, TypeOK
<1>7. CASE mm_realloc \/ ReallocExpand
  BY <1>7 DEF mm_realloc, ReallocExpand, CallInv, TypeOK, driverVars, memVars
<1>8. CASE ReallocCopy
  BY <1>8 DEF ReallocCopy, Return, UnchangedDriver, CallInv, TypeOK
<1>14. CASE ReallocMoves
  <2>1. /\ pc = "expand" /\ pc' = "fit" /\ grown' = grown /\ call' = call /\ live' = live
        /\ blocks' = blocks /\ verdict' = verdict /\ mem_brk' = mem_brk
        /\ size' = ALIGN((size - DSIZE) + DSIZE)
    BY <1>14 DEF ReallocMoves, StartScan, driverVars, memVars
  <2>2. size' = size
    BY <2>1, RequestSize, AlignAgain
  <2> QED BY <2>1, <2>2 DEF CallInv
<1>9. CASE DriverStep /\ UNCHANGED mmVars
  BY <1>9 DEF DriverStep, RetInit, RetMalloc, RetRealloc, RetFree, Reject, Accept, NoCall,
              CallInv, TypeOK, mmVars, memVars
<1>10. CASE NextTrace /\ UNCHANGED mmVars
  BY <1>10 DEF NextTrace, Post, mem_reset_brk, CallInv, TypeOK, mmVars
<1>11. ASSUME NEW i \in Ids, NEW n \in Sizes, ReqMalloc(i, n), UNCHANGED mmVars
       PROVE  CallInv'
  <2>1. n > DSIZE
    BY TraceAssumption DEF TraceAssumption, RoomForLinks
  <2> QED BY <1>11, <2>1 DEF ReqMalloc, ReadyForOp, Post, CallInv, TypeOK, mmVars, memVars
<1>12. ASSUME NEW i \in Ids, NEW n \in ReallocSizes, ReqRealloc(i, n), UNCHANGED mmVars
       PROVE  CallInv'
  <2>1. n = 0 \/ n > DSIZE
    BY DEF RoomForLinks
  <2> QED BY <1>12, <2>1 DEF ReqRealloc, ReadyForOp, Post, CallInv, TypeOK, mmVars, memVars
<1>13. ASSUME NEW i \in Ids, ReqFree(i), UNCHANGED mmVars
       PROVE  CallInv'
  BY <1>13 DEF ReqFree, ReadyForOp, Post, CallInv, TypeOK, mmVars, memVars
<1> QED BY <1>1, <1>2, <1>3, <1>4, <1>5, <1>6, <1>7, <1>8, <1>9, <1>10, <1>11, <1>12, <1>13,
           <1>14
        DEF Next, PackageStep, DriverRequest

(***************************************************************************)
(* The heap keeps its shape.                                               *)
(***************************************************************************)
(* Addresses are numbers.                                                  *)
LEMMA AddrLemma ==
  ASSUME TypeOK, NEW i \in Ids
  PROVE  Addr(i) \in Int
  BY DEF TypeOK, DriverTypeOK, Addr

(* The same payloads in a heap where no block in use was lost.             *)
LEMMA HeapKept ==
  ASSUME TypeOK, CallInv, CallInv', Usable, HeapInv,
         HeapOK(mem', blks', heap_end'), heap_end' = mem_brk' + 24,
         \A i \in Ids : Holds(i)' <=> Holds(i),
         \A i \in Ids : Holds(i) => Addr(i)' = Addr(i),
         ~ Called("mm_free"), ~ Called("mm_free")',
         \A b \in blks' : Used(mem', b) <=> b \in blks /\ Used(mem, b),
         \A b \in blks : Used(mem, b) => b \in blks',
         pc # "copy", pc' # "copy"
  PROVE  Shape' /\ Marks' /\ Owners' /\ Freed'
<1>1. pc # "copy" /\ pc' # "copy"
  OBVIOUS
<1>2. Shape /\ Marks /\ Owners
  BY DEF HeapInv
<1>3. blks \subseteq Nat /\ blks' \subseteq Nat
  BY <1>2 DEF Shape, HeapOK, Tiles
<1>4. \A b \in blks : Taken(b) <=> \E i \in Ids : Holds(i) /\ Addr(i) = b - 16
  BY <1>1 DEF Taken, DSIZE
<1>5. \A b \in blks' : Taken(b)' <=> \E i \in Ids : Holds(i)' /\ Addr(i)' = b - 16
  BY <1>1 DEF Taken, DSIZE
<1>6. \A b \in blks : Used(mem, b) <=> \E i \in Ids : Holds(i) /\ Addr(i) = b - 16
  BY <1>2, <1>4 DEF Marks
<1>7. \A i \in Ids : Holds(i) => Addr(i) + 16 \in blks
  BY <1>2 DEF Owners
<1>8. ASSUME NEW i \in Ids, Holds(i)
      PROVE  Addr(i) + 16 \in blks'
  <2>1. PICK b \in blks : b = Addr(i) + 16
    BY <1>7, <1>8
  <2>2. Addr(i) = b - 16
    BY <1>3, <2>1, AddrLemma
  <2>3. Used(mem, b)
    BY <1>6, <1>8, <2>2
  <2> QED BY <2>1, <2>3
<1>9. Marks'
  <2> SUFFICES ASSUME NEW b \in blks' PROVE Used(mem', b) <=> Taken(b)'
    BY DEF Marks
  <2>1. Taken(b)' <=> \E i \in Ids : Holds(i) /\ Addr(i) = b - 16
    BY <1>5
  <2>2. CASE b \in blks
    BY <1>6, <2>1, <2>2
  <2>3. CASE b \notin blks
    <3>1. ASSUME NEW i \in Ids, Holds(i), Addr(i) = b - 16 PROVE FALSE
      <4>1. Addr(i) + 16 = b
        BY <1>3, <3>1
      <4> QED BY <1>7, <2>3, <3>1, <4>1
    <3> QED BY <2>1, <2>3, <3>1
  <2> QED BY <2>2, <2>3
<1>10. Owners'
  <2>1. \A i \in Ids : Holds(i)' => Addr(i)' + 16 \in blks'
    BY <1>8
  <2>2. \A i, j \in Ids : Holds(i)' /\ Holds(j)' /\ Addr(i)' = Addr(j)' => i = j
    BY <1>2 DEF Owners
  <2> QED BY <2>1, <2>2 DEF Owners
<1> QED BY <1>9, <1>10 DEF Shape, Freed

(* Steps that touch no memory.                                             *)
LEMMA HeapSame ==
  ASSUME CallInv, CallInv', HeapInv, UNCHANGED <<memVars, driverVars, heap_end, blks>>,
         (pc # "copy" /\ pc' # "copy") \/ UNCHANGED <<pc, cur>>
  PROVE  HeapInv'
<1>1. \A b : pc' = "copy" /\ cur' = b <=> pc = "copy" /\ cur = b
  OBVIOUS
<1>2. /\ mem' = mem /\ mem_brk' = mem_brk /\ heap_end' = heap_end /\ blks' = blks
      /\ live' = live /\ blocks' = blocks /\ call' = call /\ verdict' = verdict
  BY DEF memVars, driverVars
<1>3. Usable' => Usable
  BY <1>2 DEF Usable, Called, Returned
<1>4. \A i \in Ids : (Holds(i)' <=> Holds(i)) /\ Addr(i)' = Addr(i)
                     /\ (Answered(i)' <=> Answered(i))
  BY <1>2 DEF Holds, Addr, Answered
<1>5. \A b \in blks : Taken(b)' <=> Taken(b)
  BY <1>1, <1>2, <1>4 DEF Taken, Called, Block
<1>6. Shape => Shape'
  BY <1>2 DEF Shape
<1>7. Marks => Marks'
  BY <1>2, <1>5 DEF Marks
<1>8. Owners => Owners'
  BY <1>2, <1>4 DEF Owners
<1>9. Freed => Freed'
  BY <1>2, <1>4 DEF Freed, Called, Block
<1>10. Room => Room'
  BY <1>2, <1>4 DEF Room
<1> QED BY <1>3, <1>6, <1>7, <1>8, <1>9, <1>10 DEF HeapInv

(* A call that stays in progress, on blocks changed as HeapKept wants.     *)
LEMMA HeapWork ==
  ASSUME TypeOK, CallInv, CallInv', HeapInv, pc # "idle", UNCHANGED driverVars,
         HeapOK(mem', blks', heap_end'), heap_end' = mem_brk' + 24,
         \A b \in blks' : Used(mem', b) <=> b \in blks /\ Used(mem, b),
         \A b \in blks : Used(mem, b) => b \in blks',
         pc # "copy", pc' # "copy"
  PROVE  HeapInv'
<1>1. live' = live /\ blocks' = blocks /\ call' = call /\ verdict' = verdict
  BY DEF driverVars
<1>2. call.st = "called" /\ call.fn \in {"mm_realloc", "mm_malloc"}
  BY DEF CallInv
<1>3. Usable /\ ~ Called("mm_free") /\ ~ Called("mm_free")'
  BY <1>1, <1>2, InCall DEF Called
<1>4. \A i \in Ids : (Holds(i)' <=> Holds(i)) /\ Addr(i)' = Addr(i) /\ ~ Answered(i)'
  BY <1>1, <1>2 DEF Holds, Addr, Answered
<1>5. Shape' /\ Marks' /\ Owners' /\ Freed'
  BY <1>3, <1>4, HeapKept
<1>6. Room'
  BY <1>4 DEF Room
<1> QED BY <1>5, <1>6 DEF HeapInv

(* The block that mm_realloc works on.                                     *)
LEMMA ReallocBlock ==
  ASSUME TypeOK, CallInv, HeapInv, Called("mm_realloc")
  PROVE  /\ Usable /\ HeapOK(mem, blks, heap_end) /\ heap_end = mem_brk + 24
         /\ call.id \in Ids /\ Holds(call.id) /\ Addr(call.id) = call.ptr
         /\ Block \in blks /\ Block = call.ptr + 16 /\ Used(mem, Block)
<1>1. call.st = "called" /\ call.fn = "mm_realloc"
  BY DEF Called
<1>2. Usable /\ Shape /\ Marks /\ Owners
  BY <1>1, InCall DEF HeapInv
<1>3. call.id \in live /\ call.ptr = blocks[call.id]
  BY <1>1 DEF CallInv
<1>4. call.id \in Ids /\ Holds(call.id) /\ Addr(call.id) = call.ptr /\ call.ptr \in Nat
  BY <1>1, <1>3 DEF TypeOK, DriverTypeOK, Holds, Addr, Answered
<1>5. Block = call.ptr + 16 /\ call.ptr = Block - 16
  BY <1>4 DEF Block, DSIZE
<1>6. Block \in blks
  BY <1>2, <1>4, <1>5 DEF Owners
<1>7. Taken(Block)
  BY <1>4, <1>5 DEF Taken, DSIZE
<1> QED BY <1>2, <1>4, <1>5, <1>6, <1>7 DEF Shape, Marks

(* The block that the scan stands at.                                      *)
LEMMA ScanBlock ==
  ASSUME TypeOK, CallInv, HeapInv, ScanInv, Scanning
  PROVE  /\ Usable /\ HeapOK(mem, blks, heap_end) /\ heap_end = mem_brk + 24
         /\ \E l \in Classes :
              /\ link_end = Sentinel(l) /\ ScanAt(mem, blks, heap_end, size, l, cur)
              /\ cur # link_end => /\ cur \in blks /\ ~ Used(mem, cur)
                                   /\ Class(Size(mem, cur)) = l
<1>1. pc \in {"fit", "refit"} /\ call.st = "called" /\ call.fn # "mm_init"
  BY DEF Scanning, CallInv
<1>2. Usable /\ Shape
  BY <1>1, InCall DEF HeapInv
<1>3. PICK l \in Classes : link_end = Sentinel(l) /\ ScanAt(mem, blks, heap_end, size, l, cur)
  BY <1>1 DEF ScanInv
<1>4. cur # link_end => cur \in blks /\ ~ Used(mem, cur) /\ Class(Size(mem, cur)) = l
  BY <1>2, <1>3, ScanNode DEF Shape
<1> QED BY <1>2, <1>3, <1>4 DEF Shape

(* CanCoalesce and its two uses.                                           *)
LEMMA MergesLemma ==
  ASSUME HeapOK(mem, blks, heap_end), NEW b \in blks
  PROVE  /\ CanCoalesce(b) <=> Merges(mem, heap_end, b)
         /\ CanCoalesce(b) => NEXT(mem, b) \in blks /\ ~ Used(mem, NEXT(mem, b))
<1>1. heap_end \in Nat /\ NEXT(mem, b) \in blks \union {heap_end}
  BY BlockLemma DEF HeapOK
<1> QED BY <1>1 DEF CanCoalesce, Merges, IsAlloc, Used

(* coalesce_block, on the way through a list, keeps the heap sound.       *)
LEMMA CoalesceStep ==
  ASSUME TypeOK, CallInv, CallInv', HeapInv, ScanInv, FitCoalesce
  PROVE  HeapInv' /\ \A b \in blks : Used(mem, b) => Size(mem', b) = Size(mem, b)
<1>1. /\ Scanning /\ cur # link_end /\ CanCoalesce(cur) /\ UNCHANGED driverVars
      /\ mem_brk' = mem_brk /\ heap_end' = heap_end
      /\ pc # "idle" /\ pc # "copy" /\ pc' # "copy"
  BY DEF FitCoalesce, coalesce_block, Scanning
<1>2. HeapOK(mem, blks, heap_end) /\ heap_end = mem_brk + 24 /\ cur \in blks /\ ~ Used(mem, cur)
  BY <1>1, ScanBlock
<1>3. PICK y \in blks : y = NEXT(mem, cur) /\ ~ Used(mem, y)
  BY <1>1, <1>2, MergesLemma
<1>4. mem' = insert(erase(erase(Merged(mem, cur, y), cur), y), cur) /\ blks' = blks \ {y}
  BY <1>3 DEF FitCoalesce, coalesce_block
<1>5. /\ HeapOK(mem', blks \ {y}, heap_end) /\ cur # y
      /\ Size(mem', cur) = Size(mem, cur) + Size(mem, y)
      /\ \A b \in blks \ {cur, y} : Size(mem', b) = Size(mem, b)
      /\ \A b \in blks \ {y} : Used(mem', b) <=> Used(mem, b)
  BY <1>2, <1>3, <1>4, CoalesceHeap
<1>6. HeapOK(mem', blks', heap_end') /\ heap_end' = mem_brk' + 24
  BY <1>1, <1>2, <1>4, <1>5
<1>7. \A b \in blks' : Used(mem', b) <=> b \in blks /\ Used(mem, b)
  BY <1>4, <1>5
<1>8. \A b \in blks : Used(mem, b) => b \in blks'
  BY <1>3, <1>4
<1>9. \A b \in blks : Used(mem, b) => Size(mem', b) = Size(mem, b)
  BY <1>2, <1>3, <1>5
<1>10. HeapInv'
  BY <1>1, <1>6, <1>7, <1>8, HeapWork
<1> QED BY <1>9, <1>10

(* expand_block keeps the heap sound, and the block of the call.          *)
LEMMA ExpandStep ==
  ASSUME TypeOK, CallInv, CallInv', HeapInv, ReallocExpand
  PROVE  HeapInv'
<1>1. /\ pc = "expand" /\ pc' = "expand" /\ CanCoalesce(Block) /\ UNCHANGED driverVars
      /\ mem_brk' = mem_brk /\ heap_end' = heap_end
  BY DEF ReallocExpand, expand_block
<1>2. Called("mm_realloc")
  BY <1>1 DEF CallInv, Called
<1>3. PICK x \in blks : x = Block /\ Used(mem, x)
  BY <1>2, ReallocBlock
<1>4. HeapOK(mem, blks, heap_end) /\ heap_end = mem_brk + 24
  BY <1>2, ReallocBlock
<1>5. PICK y \in blks : y = NEXT(mem, x) /\ ~ Used(mem, y)
  BY <1>1, <1>3, <1>4, MergesLemma
<1>6. mem' = Merged(erase(mem, y), x, y) /\ blks' = blks \ {y}
  BY <1>3, <1>5 DEF ReallocExpand, expand_block
<1>7. /\ HeapOK(mem', blks \ {y}, heap_end) /\ x # y
      /\ Used(mem', x) /\ Size(mem', x) = Size(mem, x) + Size(mem, y)
      /\ \A b \in blks \ {x, y} : Size(mem', b) = Size(mem, b) /\ (Used(mem', b) <=> Used(mem, b))
  BY <1>3, <1>4, <1>5, <1>6, ExpandHeap
<1>8. HeapOK(mem', blks', heap_end') /\ heap_end' = mem_brk' + 24
  BY <1>1, <1>4, <1>6, <1>7
<1>9. \A b \in blks' : Used(mem', b) <=> b \in blks /\ Used(mem, b)
  BY <1>3, <1>6, <1>7
<1>10. \A b \in blks : Used(mem, b) => b \in blks'
  BY <1>5, <1>6
<1> QED BY <1>1, <1>8, <1>9, <1>10, HeapWork

(* mem_sbrk grants extend_heap what it asks for.                           *)
LEMMA ExtendStep ==
  ASSUME TypeOK, CallInv, CallInv', HeapInv, ScanInv, Extend
  PROVE  /\ HeapInv' /\ heap_end \in blks' /\ ~ Used(mem', heap_end)
         /\ size <= Size(mem', heap_end)
         /\ \A b \in blks : Size(mem', b) = Size(mem, b)
<1>1. /\ pc = "fit" /\ pc' = "refit" /\ UNCHANGED driverVars /\ Scanning /\ pc # "idle"
  BY DEF Extend, Scanning, StartScan
<1>2. HeapOK(mem, blks, heap_end) /\ heap_end = mem_brk + 24
  BY <1>1, ScanBlock
<1>3. size \in Nat /\ size % 8 = 0 /\ size >= 24 /\ size < INT_MOD
  BY <1>1, RequestSize
<1>4. ExtendSize = size
  BY <1>3 DEF ExtendSize, HSIZE, DSIZE
<1>5. ~ SbrkFails(size) /\ mem_brk' = mem_brk + ToInt(size)
  BY <1>4 DEF Extend, mem_sbrk
<1>6. ToInt(size) = size
  <2>1. ToInt(size) \in Int
    BY <1>3, MemAssumption DEF ToInt, MemAssumption
  <2> QED BY <1>3, <1>5, <2>1, SbrkLemma DEF SbrkFails
<1>7. /\ mem_brk \in Nat /\ HDRP(heap_end) = mem_brk /\ mem_brk + HSIZE = heap_end
      /\ heap_end \in Nat /\ heap_end + size <= mem_max_addr + 24 /\ mem_max_addr \in Nat
  BY <1>2, <1>3, <1>5, <1>6, MemAssumption
  DEF TypeOK, SbrkFails, HDRP, HSIZE, DSIZE, MemAssumption, mem_max_addr
<1>8. /\ mem' = insert(WRITE(mem, HDRP(heap_end), PACK(size, 0)), heap_end)
      /\ heap_end' = heap_end + size /\ blks' = blks \union {heap_end}
  BY <1>4, <1>7 DEF Extend
<1>9. /\ HeapOK(mem', blks \union {heap_end}, heap_end + size) /\ heap_end \notin blks
      /\ Size(mem', heap_end) = size /\ ~ Used(mem', heap_end)
      /\ \A b \in blks : Size(mem', b) = Size(mem, b) /\ (Used(mem', b) <=> Used(mem, b))
  <2>1. PICK n \in Nat : n = size
    BY <1>3
  <2>2. n % 8 = 0 /\ n >= 24 /\ heap_end + n <= mem_max_addr + 24
    BY <1>3, <1>7, <2>1
  <2>3. PICK w : w = Extended(mem, heap_end, n)
    OBVIOUS
  <2>4. /\ HeapOK(w, blks \union {heap_end}, heap_end + n) /\ heap_end \notin blks
        /\ Size(w, heap_end) = n /\ ~ Used(w, heap_end)
        /\ \A b \in blks : Size(w, b) = Size(mem, b) /\ (Used(w, b) <=> Used(mem, b))
    <3>1. PICK m : m = mem
      OBVIOUS
    <3>2. PICK B : B = blks
      OBVIOUS
    <3>3. PICK hi : hi = heap_end
      OBVIOUS
    <3>4. HeapOK(m, B, hi) /\ n % 8 = 0 /\ n >= 24 /\ hi + n <= mem_max_addr + 24
      BY <1>2, <2>2, <3>1, <3>2, <3>3
    <3>5. /\ HeapOK(Extended(m, hi, n), B \union {hi}, hi + n) /\ hi \notin B
          /\ Size(Extended(m, hi, n), hi) = n /\ ~ Used(Extended(m, hi, n), hi)
          /\ \A b \in B : /\ Size(Extended(m, hi, n), b) = Size(m, b)
                          /\ Used(Extended(m, hi, n), b) <=> Used(m, b)
      BY <3>4, ExtendHeap
    <3> QED BY <2>3, <3>1, <3>2, <3>3, <3>5
  <2>5. mem' = w
    BY <1>8, <2>1, <2>3 DEF Extended
  <2> QED BY <2>1, <2>4, <2>5
<1>10. HeapOK(mem', blks', heap_end') /\ heap_end' = mem_brk' + 24
  BY <1>2, <1>3, <1>5, <1>6, <1>7, <1>8, <1>9
<1>11. \A b \in blks' : Used(mem', b) <=> b \in blks /\ Used(mem, b)
  BY <1>8, <1>9
<1>12. \A b \in blks : Used(mem, b) => b \in blks'
  BY <1>8
<1>13. HeapInv'
  BY <1>1, <1>10, <1>11, <1>12, HeapWork
<1> QED BY <1>3, <1>8, <1>9, <1>13

(* cut_block leaves a free block large enough.                             *)
LEMMA CutHeap ==
  ASSUME HeapOK(mem, blks, heap_end), NEW x \in blks, ~ Used(mem, x),
         NEW n \in Nat, n % 8 = 0, n >= 24, n <= Size(mem, x)
  PROVE  /\ HeapOK(cut_block(x, n), CutBlks(x, n), heap_end) /\ x \in CutBlks(x, n)
         /\ blks \subseteq CutBlks(x, n)
         /\ n <= Size(cut_block(x, n), x)
         /\ \A b \in CutBlks(x, n) :
              Used(cut_block(x, n), b) <=> b \in blks /\ Used(mem, b)
         /\ \A b \in blks : b # x => Size(cut_block(x, n), b) = Size(mem, b)
<1>1. Size(mem, x) \in Nat /\ SizeOf(x) = Size(mem, x)
  BY BlockLemma DEF SizeOf, Size
<1>2. CASE Cuts(x, n)
  <2>1. Size(mem, x) >= n + 24
    BY <1>1, <1>2 DEF Cuts, HSIZE, DSIZE
  <2>2. PICK w : w = InsertRest(insert(erase(Divide(mem, x, n), x), x), x)
    OBVIOUS
  <2>3. cut_block(x, n) = w /\ CutBlks(x, n) = blks \union {x + n}
    BY <1>2, <2>2 DEF cut_block, CutBlks
  <2>4. PICK y : y = x + n
    OBVIOUS
  <2>5. /\ HeapOK(w, blks \union {y}, heap_end) /\ y \notin blks
        /\ Size(w, x) = n /\ ~ Used(w, x) /\ ~ Used(w, y)
        /\ \A b \in blks : b # x => Size(w, b) = Size(mem, b) /\ (Used(w, b) <=> Used(mem, b))
    BY <2>1, <2>2, <2>4, ChopHeap, SMTT(30)
  <2> QED BY <2>3, <2>4, <2>5
<1>3. CASE ~ Cuts(x, n)
  BY <1>3 DEF cut_block, CutBlks
<1> QED BY <1>2, <1>3

(* A block is far from NULL.                                               *)
LEMMA NotNull ==
  ASSUME Shape, NEW b \in blks
  PROVE  b \in Nat /\ b >= 40
<1>1. lists_end >= 48 /\ lists_end \in Nat
  BY ListsEnd, MemAssumption, ClassAssumption DEF MemAssumption, ClassAssumption
<1>2. b \in Nat /\ lists_end <= b
  BY BlockLemma DEF Shape
<1> QED BY <1>1, <1>2

(* The block found is cut to size and taken from its list.                 *)
LEMMA PlaceHeap ==
  ASSUME TypeOK, CallInv, HeapInv, ScanInv, Place
  PROVE  /\ Usable /\ HeapOK(mem', blks', heap_end') /\ heap_end' = mem_brk' + 24
         /\ cur \in blks /\ ~ Used(mem, cur) /\ blks \subseteq blks'
         /\ size <= Size(mem', cur)
         /\ \A b \in blks' : Used(mem', b) <=> b = cur \/ (b \in blks /\ Used(mem, b))
         /\ \A b \in blks : Used(mem, b) => Size(mem', b) = Size(mem, b)
<1>1. /\ pc = "place" /\ call.fn # "mm_init" /\ call.st = "called"
  BY DEF Place, CallInv
<1>2. mem_brk' = mem_brk /\ heap_end' = heap_end
  BY DEF Place
<1>3. Usable /\ Shape
  BY <1>1, InCall DEF HeapInv
<1>4. cur \in blks /\ ~ Used(mem, cur) /\ size <= Size(mem, cur)
  BY <1>1 DEF ScanInv
<1>5. PICK n \in Nat : n = size /\ n % 8 = 0 /\ n >= 24
  BY <1>1, RequestSize
<1>6. PICK x \in blks : x = cur
  BY <1>4
<1>7. PICK m : m = cut_block(x, n)
  OBVIOUS
<1>8. PICK B : B = CutBlks(x, n)
  OBVIOUS
<1>9. mem' = SET(erase(m, x), x, 1) /\ blks' = B
  BY <1>5, <1>6, <1>7, <1>8 DEF Place
<1>10. /\ HeapOK(cut_block(x, n), CutBlks(x, n), heap_end) /\ x \in CutBlks(x, n)
       /\ blks \subseteq CutBlks(x, n)
       /\ n <= Size(cut_block(x, n), x)
       /\ \A b \in CutBlks(x, n) :
            Used(cut_block(x, n), b) <=> b \in blks /\ Used(mem, b)
       /\ \A b \in blks : b # x => Size(cut_block(x, n), b) = Size(mem, b)
  BY <1>3, <1>4, <1>5, <1>6, CutHeap DEF Shape
<1>11. /\ HeapOK(m, B, heap_end) /\ x \in B /\ blks \subseteq B /\ n <= Size(m, x)
       /\ \A b \in B : Used(m, b) <=> b \in blks /\ Used(mem, b)
       /\ \A b \in blks : b # x => Size(m, b) = Size(mem, b)
  BY <1>7, <1>8, <1>10
<1>12. /\ HeapOK(mem', B, heap_end)
       /\ \A b \in B : Size(mem', b) = Size(m, b) /\ (Used(mem', b) <=> b = x \/ Used(m, b))
  <2>1. ~ Used(m, x)
    BY <1>4, <1>6, <1>11
  <2> QED BY <1>9, <1>11, <2>1, TakeHeap
<1>13. HeapOK(mem', blks', heap_end') /\ heap_end' = mem_brk' + 24
  BY <1>2, <1>3, <1>9, <1>12 DEF Shape
<1>14. /\ size <= Size(mem', cur)
       /\ \A b \in blks' : Used(mem', b) <=> b = cur \/ (b \in blks /\ Used(mem, b))
  BY <1>5, <1>6, <1>9, <1>11, <1>12
<1>15. \A b \in blks : Used(mem, b) => Size(mem', b) = Size(mem, b)
  BY <1>4, <1>6, <1>11, <1>12
<1> QED BY <1>3, <1>4, <1>9, <1>11, <1>13, <1>14, <1>15

(* Nobody holds a free block.                                              *)
LEMMA FreeUnheld ==
  ASSUME TypeOK, Shape, Marks, Owners, NEW x \in blks, ~ Used(mem, x)
  PROVE  \A i \in Ids : Holds(i) => /\ Addr(i) \in Int
                                    /\ Addr(i) + 16 \in blks /\ Addr(i) + 16 # x
<1> SUFFICES ASSUME NEW i \in Ids, Holds(i)
             PROVE  Addr(i) \in Int /\ Addr(i) + 16 \in blks /\ Addr(i) + 16 # x
  OBVIOUS
<1>1. PICK b \in blks : b = Addr(i) + 16
  BY DEF Owners
<1>2. Addr(i) \in Int /\ Addr(i) = b - 16
  <2>1. b \in Nat
    BY NotNull
  <2> QED BY <1>1, <2>1, AddrLemma
<1>3. Taken(b)
  BY <1>2 DEF Taken, DSIZE
<1> QED BY <1>1, <1>2, <1>3 DEF Marks

(* mm_malloc returns the block found.                                      *)
LEMMA PlaceStep ==
  ASSUME TypeOK, CallInv, CallInv', HeapInv, ScanInv, Place, call.fn = "mm_malloc"
  PROVE  HeapInv'
<1>1. /\ pc = "place" /\ call.fn = "mm_malloc" /\ call.st = "called"
      /\ call.id \in Ids \ live
  BY DEF Place, CallInv
<1>2. /\ live' = live /\ blocks' = blocks /\ verdict' = verdict
      /\ mem_brk' = mem_brk /\ heap_end' = heap_end /\ pc' = "idle"
      /\ call' = [call EXCEPT !.st = "returned", !.ret = cur - 16]
  BY <1>1 DEF Place, Return, UnchangedDriver, DSIZE
<1>3. call' = [call EXCEPT !.st = "returned", !.ret = cur - 16]
  BY <1>2
<1>4. /\ call'.fn = "mm_malloc" /\ call'.st = "returned" /\ call'.id = call.id
      /\ call'.size = call.size /\ call'.ret = cur - 16
  BY <1>1, <1>3 DEF TypeOK, DriverTypeOK
<1>5. Usable /\ Shape /\ Marks /\ Owners
  BY <1>1, InCall DEF HeapInv
<1>6. size \in Nat /\ call.size + 8 <= size
  BY <1>1, RequestSize
<1>7. PICK x \in blks : x = cur
  BY PlaceHeap
<1>8. /\ HeapOK(mem', blks', heap_end') /\ heap_end' = mem_brk' + 24
      /\ ~ Used(mem, x) /\ blks \subseteq blks' /\ size <= Size(mem', x)
      /\ \A b \in blks' : Used(mem', b) <=> b = x \/ (b \in blks /\ Used(mem, b))
  BY <1>7, PlaceHeap
<1>9. Shape'
  BY <1>8 DEF Shape
<1>10. x \in Nat /\ x >= 40 /\ blks \subseteq Nat /\ blks' \subseteq Nat
  BY <1>5, <1>8, NotNull DEF HeapOK, Tiles
<1>11. PICK id \in Ids : id = call.id
  BY <1>1
<1>12. \A i \in Ids : /\ Holds(i)' <=> i = id \/ Holds(i)
                      /\ i # id => Addr(i)' = Addr(i)
  BY <1>1, <1>2, <1>4, <1>7, <1>10, <1>11 DEF Holds, Addr, Answered, NULL
<1>13. Addr(id)' = x - 16 /\ ~ Holds(id)
  BY <1>1, <1>4, <1>7, <1>11 DEF Holds, Addr, Answered
<1>14. \A i \in Ids : Holds(i) => Addr(i) \in Int /\ Addr(i) + 16 \in blks /\ Addr(i) + 16 # x
  BY <1>5, <1>8, FreeUnheld
<1>15. \A b \in blks : Used(mem, b) <=> \E i \in Ids : Holds(i) /\ Addr(i) = b - 16
  BY <1>1, <1>5 DEF Marks, Taken, Called, DSIZE
<1>16. Marks'
  <2> SUFFICES ASSUME NEW b \in blks' PROVE Used(mem', b) <=> Taken(b)'
    BY DEF Marks
  <2>1. Taken(b)' <=> \E i \in Ids : Holds(i)' /\ Addr(i)' = b - 16
    BY <1>2, <1>4 DEF Taken, Called, DSIZE
  <2>2. CASE b = x
    BY <1>8, <1>12, <1>13, <2>1, <2>2
  <2>3. CASE b # x
    <3>1. Taken(b)' <=> \E i \in Ids : Holds(i) /\ Addr(i) = b - 16
      BY <1>10, <1>12, <1>13, <2>1, <2>3
    <3>2. CASE b \in blks
      BY <1>8, <1>15, <2>3, <3>1, <3>2
    <3>3. CASE b \notin blks
      <4>1. ASSUME NEW i \in Ids, Holds(i), Addr(i) = b - 16 PROVE FALSE
        BY <1>10, <1>14, <3>3, <4>1
      <4> QED BY <1>8, <2>3, <3>1, <3>3, <4>1
    <3> QED BY <3>2, <3>3
  <2> QED BY <2>2, <2>3
<1>17. Owners'
  <2>1. \A i \in Ids : Holds(i)' => Addr(i)' + 16 \in blks'
    BY <1>7, <1>8, <1>10, <1>12, <1>13, <1>14
  <2>2. \A i, j \in Ids : Holds(i)' /\ Holds(j)' /\ Addr(i)' = Addr(j)' => i = j
    <3>1. \A i \in Ids : i # id /\ Holds(i)' => Holds(i) /\ Addr(i)' # x - 16
      BY <1>10, <1>12, <1>14
    <3> QED BY <1>5, <1>12, <1>13, <3>1 DEF Owners
  <2> QED BY <2>1, <2>2 DEF Owners
<1>18. Freed'
  BY <1>4 DEF Freed, Called
<1>19. Room'
  <2>1. call'.ret + 16 = x
    BY <1>4, <1>7, <1>10
  <2>2. call.size + 8 <= Size(mem', x)
    <3>1. Size(mem', x) \in Nat /\ call.size \in Nat
      BY <1>8, BlockLemma DEF TypeOK, DriverTypeOK
    <3> QED BY <1>6, <1>8, <3>1
  <2> QED BY <1>4, <2>1, <2>2 DEF Room
<1> QED BY <1>9, <1>16, <1>17, <1>18, <1>19 DEF HeapInv

(* mm_malloc, called by mm_realloc, hands it the block found.              *)
LEMMA PlaceMoveStep ==
  ASSUME TypeOK, CallInv, CallInv', HeapInv, ScanInv, Place, call.fn # "mm_malloc"
  PROVE  HeapInv'
<1>1. pc = "place" /\ call.fn = "mm_realloc" /\ call.st = "called"
  BY DEF Place, CallInv
<1>2. /\ live' = live /\ blocks' = blocks /\ call' = call
      /\ pc' = "copy" /\ cur' = cur
  BY DEF Place, UnchangedDriver
<1>3. Usable /\ Shape /\ Marks /\ Owners
  BY <1>1, InCall DEF HeapInv
<1>4. PICK x \in blks : x = cur
  BY PlaceHeap
<1>5. /\ HeapOK(mem', blks', heap_end') /\ heap_end' = mem_brk' + 24
      /\ ~ Used(mem, x) /\ blks \subseteq blks'
      /\ \A b \in blks' : Used(mem', b) <=> b = x \/ (b \in blks /\ Used(mem, b))
  BY <1>4, PlaceHeap
<1>6. \A i \in Ids : (Holds(i)' <=> Holds(i)) /\ Addr(i)' = Addr(i) /\ ~ Answered(i)'
  BY <1>1, <1>2 DEF Holds, Addr, Answered
<1>7. \A i \in Ids : Holds(i) => Addr(i) \in Int /\ Addr(i) + 16 \in blks /\ Addr(i) + 16 # x
  BY <1>3, <1>5, FreeUnheld
<1>8. \A b \in blks : Used(mem, b) <=> \E i \in Ids : Holds(i) /\ Addr(i) = b - 16
  BY <1>1, <1>3 DEF Marks, Taken, Called, DSIZE
<1>9. Marks'
  <2> SUFFICES ASSUME NEW b \in blks' PROVE Used(mem', b) <=> Taken(b)'
    BY DEF Marks
  <2>1. Taken(b)' <=> b = x \/ \E i \in Ids : Holds(i) /\ Addr(i) = b - 16
    BY <1>1, <1>2, <1>4, <1>6 DEF Taken, Called, DSIZE
  <2>2. CASE b \in blks
    BY <1>5, <1>8, <2>1, <2>2
  <2>3. CASE b \notin blks
    <3>1. b \in Nat
      BY <1>5 DEF HeapOK, Tiles
    <3>2. ASSUME NEW i \in Ids, Holds(i), Addr(i) = b - 16 PROVE FALSE
      BY <1>7, <2>3, <3>1, <3>2
    <3> QED BY <1>4, <1>5, <2>1, <2>3, <3>2
  <2> QED BY <2>2, <2>3
<1>10. Shape'
  BY <1>5 DEF Shape
<1>11. Owners'
  <2>1. \A i \in Ids : Holds(i)' => Addr(i)' + 16 \in blks'
    BY <1>5, <1>6, <1>7
  <2>2. \A i, j \in Ids : Holds(i)' /\ Holds(j)' /\ Addr(i)' = Addr(j)' => i = j
    BY <1>3, <1>6 DEF Owners
  <2> QED BY <2>1, <2>2 DEF Owners
<1>12. Freed' /\ Room'
  BY <1>1, <1>2, <1>6 DEF Freed, Room, Called
<1> QED BY <1>9, <1>10, <1>11, <1>12 DEF HeapInv

(* A block is freed with the payload in it.                                *)
LEMMA HeapRelease ==
  ASSUME TypeOK, CallInv, CallInv', Usable, HeapInv, NEW x \in blks, Used(mem, x),
         mem' = insert(SET(mem, x, 0), x), UNCHANGED <<mem_brk, heap_end, blks>>,
         Called("mm_free") => Block = x, ~ Called("mm_free")',
         \A i \in Ids : Holds(i)' <=> Holds(i) /\ Addr(i) # x - 16,
         \A i \in Ids : Holds(i)' => Addr(i)' = Addr(i),
         pc # "copy", pc' # "copy"
  PROVE  Shape' /\ Marks' /\ Owners' /\ Freed'
<1>1. pc # "copy" /\ pc' # "copy"
  OBVIOUS
<1>2. Shape /\ Marks /\ Owners
  BY DEF HeapInv
<1>3. blks \subseteq Nat
  BY <1>2 DEF Shape, HeapOK, Tiles
<1>4. /\ HeapOK(mem', blks, heap_end)
      /\ \A b \in blks : Size(mem', b) = Size(mem, b)
                         /\ (Used(mem', b) <=> b # x /\ Used(mem, b))
  BY <1>2, FreeHeap DEF Shape
<1>5. Shape'
  BY <1>2, <1>4 DEF Shape
<1>6. \A b \in blks : Taken(b)' <=> \E i \in Ids : Holds(i)' /\ Addr(i)' = b - 16
  BY <1>1 DEF Taken, DSIZE
<1>7. \A b \in blks : b # x =>
        (Used(mem, b) <=> \E i \in Ids : Holds(i) /\ Addr(i) = b - 16)
  BY <1>1, <1>2 DEF Marks, Taken, DSIZE
<1>8. Marks'
  <2> SUFFICES ASSUME NEW b \in blks PROVE Used(mem', b) <=> Taken(b)'
    BY DEF Marks
  <2>1. CASE b = x
    BY <1>4, <1>6, <2>1
  <2>2. CASE b # x
    <3>1. b - 16 # x - 16
      BY <1>3, <2>2
    <3> QED BY <1>4, <1>6, <1>7, <2>2, <3>1
  <2> QED BY <2>1, <2>2
<1>9. Owners'
  <2>1. \A i \in Ids : Holds(i)' => Addr(i)' + 16 \in blks'
    BY <1>2 DEF Owners
  <2>2. \A i, j \in Ids : Holds(i)' /\ Holds(j)' /\ Addr(i)' = Addr(j)' => i = j
    BY <1>2 DEF Owners
  <2> QED BY <2>1, <2>2 DEF Owners
<1> QED BY <1>5, <1>8, <1>9 DEF Freed

(* mm_free keeps the heap sound and frees no other block.                 *)
LEMMA FreeStep ==
  ASSUME TypeOK, CallInv, CallInv', HeapInv, mm_free
  PROVE  HeapInv'
<1>1. /\ call.fn = "mm_free" /\ call.st = "called" /\ pc = "idle" /\ pc' = "idle"
  BY DEF mm_free, Return, Called
<1>2. /\ live' = live /\ blocks' = blocks /\ UNCHANGED <<mem_brk, heap_end, blks>>
      /\ call' = [call EXCEPT !.st = "returned", !.ret = 0]
  BY DEF mm_free, Return, UnchangedDriver
<1>3. call' = [call EXCEPT !.st = "returned", !.ret = 0]
  BY <1>2
<1>4. call'.fn = "mm_free" /\ call'.st = "returned"
  BY <1>1, <1>3 DEF TypeOK, DriverTypeOK
<1>5. Usable /\ Shape /\ Marks /\ Freed
  BY <1>1, InCall DEF HeapInv
<1>6. PICK x \in blks : x = Block /\ \A i \in Ids : Holds(i) => Addr(i) # call.ptr
  BY <1>1, <1>5 DEF Freed, Called
<1>7. call.ptr \in Nat /\ x = call.ptr + 16 /\ call.ptr = x - 16 /\ call.ptr # NULL
  <2>1. call.ptr \in Nat
    BY DEF TypeOK, DriverTypeOK
  <2>2. x = call.ptr + 16
    BY <1>6, <2>1 DEF Block, DSIZE
  <2>3. x >= 40
    BY <1>5, NotNull
  <2> QED BY <2>1, <2>2, <2>3 DEF NULL
<1>8. Used(mem, x)
  <2>1. Taken(x)
    BY <1>1, <1>6 DEF Taken, Called
  <2> QED BY <1>5, <2>1 DEF Marks
<1>9. mem' = insert(SET(mem, x, 0), x)
  BY <1>6, <1>7 DEF mm_free, FreeMem
<1>10. \A i \in Ids : /\ Holds(i)' <=> Holds(i)
                      /\ Addr(i)' = Addr(i) /\ ~ Answered(i)'
  BY <1>1, <1>2, <1>4 DEF Holds, Addr, Answered
<1>11. \A i \in Ids : Holds(i)' <=> Holds(i) /\ Addr(i) # x - 16
  BY <1>6, <1>7, <1>10
<1>12. \A i \in Ids : Holds(i)' => Addr(i)' = Addr(i)
  BY <1>10
<1>13. (Called("mm_free") => Block = x) /\ ~ Called("mm_free")'
  BY <1>4, <1>6 DEF Called
<1>14. Shape' /\ Marks' /\ Owners' /\ Freed'
  BY <1>1, <1>2, <1>5, <1>8, <1>9, <1>11, <1>12, <1>13, HeapRelease
<1>15. Room'
  BY <1>10 DEF Room
<1> QED BY <1>14, <1>15 DEF HeapInv

(* mm_realloc to no bytes frees its block and keeps the heap sound.       *)
LEMMA ReallocToZeroStep ==
  ASSUME TypeOK, CallInv, CallInv', HeapInv, ReallocToZero
  PROVE  HeapInv'
<1>1. /\ call.fn = "mm_realloc" /\ call.st = "called" /\ Called("mm_realloc")
      /\ pc = "idle" /\ pc' = "idle"
  BY DEF ReallocToZero, Return, Called
<1>2. /\ live' = live /\ blocks' = blocks /\ UNCHANGED <<mem_brk, heap_end, blks>>
      /\ call' = [call EXCEPT !.st = "returned", !.ret = NULL]
  BY DEF ReallocToZero, Return, UnchangedDriver
<1>3. call' = [call EXCEPT !.st = "returned", !.ret = NULL]
  BY <1>2
<1>4. /\ call'.fn = "mm_realloc" /\ call'.st = "returned" /\ call'.id = call.id
      /\ call'.ret = NULL
  BY <1>1, <1>3 DEF TypeOK, DriverTypeOK
<1>5. Usable /\ Owners
  BY <1>1, InCall DEF HeapInv
<1>6. PICK x \in blks : x = Block /\ x = call.ptr + 16 /\ Used(mem, x)
  BY <1>1, ReallocBlock
<1>7. PICK id \in Ids : id = call.id /\ Holds(id) /\ Addr(id) = call.ptr
  BY <1>1, ReallocBlock
<1>8. call.ptr = x - 16
  BY <1>6 DEF TypeOK, DriverTypeOK
<1>9. mem' = insert(SET(mem, x, 0), x)
  BY <1>6 DEF ReallocToZero, FreeMem
<1>10. \A i \in Ids : /\ Holds(i)' <=> Holds(i) /\ i # id
                      /\ i # id => Addr(i)' = Addr(i)
  BY <1>1, <1>2, <1>4, <1>7 DEF Holds, Addr, Answered
<1>11. \A i \in Ids : Holds(i) /\ Addr(i) = x - 16 <=> i = id
  BY <1>5, <1>7, <1>8 DEF Owners
<1>12. /\ \A i \in Ids : Holds(i)' <=> Holds(i) /\ Addr(i) # x - 16
       /\ \A i \in Ids : Holds(i)' => Addr(i)' = Addr(i)
  BY <1>10, <1>11
<1>13. (Called("mm_free") => Block = x) /\ ~ Called("mm_free")'
  BY <1>1, <1>4 DEF Called
<1>14. Shape' /\ Marks' /\ Owners' /\ Freed'
  BY <1>1, <1>2, <1>5, <1>6, <1>9, <1>12, <1>13, HeapRelease
<1>15. Room'
  BY <1>4 DEF Room
<1> QED BY <1>14, <1>15 DEF HeapInv

(* shrink_block keeps the block at least as large as asked for.            *)
LEMMA ShrinkBlock ==
  ASSUME HeapOK(mem, blks, heap_end), NEW x \in blks, Used(mem, x),
         NEW n \in Nat, n % 8 = 0, n >= 24, n <= Size(mem, x)
  PROVE  /\ HeapOK(shrink_block(x, n), CutBlks(x, n), heap_end)
         /\ blks \subseteq CutBlks(x, n)
         /\ n <= Size(shrink_block(x, n), x)
         /\ \A b \in CutBlks(x, n) :
              Used(shrink_block(x, n), b) <=> b \in blks /\ Used(mem, b)
<1>1. Size(mem, x) \in Nat /\ SizeOf(x) = Size(mem, x)
  BY BlockLemma DEF SizeOf, Size
<1>2. CASE Cuts(x, n)
  <2>1. Size(mem, x) >= n + 24
    BY <1>1, <1>2 DEF Cuts, HSIZE, DSIZE
  <2>2. PICK w : w = InsertRest(Divide(mem, x, n), x)
    OBVIOUS
  <2>3. shrink_block(x, n) = w /\ CutBlks(x, n) = blks \union {x + n}
    BY <1>2, <2>2 DEF shrink_block, CutBlks
  <2>4. PICK y : y = x + n
    OBVIOUS
  <2>5. /\ HeapOK(w, blks \union {y}, heap_end) /\ y \notin blks
        /\ Size(w, x) = n /\ Used(w, x) /\ ~ Used(w, y)
        /\ \A b \in blks : b # x => Size(w, b) = Size(mem, b) /\ (Used(w, b) <=> Used(mem, b))
    BY <2>1, <2>2, <2>4, ShrinkHeap, SMTT(30)
  <2> QED BY <2>3, <2>4, <2>5
<1>3. CASE ~ Cuts(x, n)
  BY <1>3 DEF shrink_block, CutBlks
<1> QED BY <1>2, <1>3

(* mm_realloc that keeps its block keeps the heap sound.                  *)
LEMMA ReallocInPlaceStep ==
  ASSUME TypeOK, CallInv, CallInv', HeapInv, ReallocInPlace
  PROVE  HeapInv'
<1>1. /\ pc = "expand" /\ call.fn = "mm_realloc" /\ call.st = "called" /\ Called("mm_realloc")
      /\ pc' = "idle"
  BY DEF ReallocInPlace, Return, CallInv, Called
<1>2. /\ live' = live /\ blocks' = blocks /\ mem_brk' = mem_brk /\ heap_end' = heap_end
      /\ call' = [call EXCEPT !.st = "returned", !.ret = call.ptr]
  BY DEF ReallocInPlace, Return, UnchangedDriver
<1>3. call' = [call EXCEPT !.st = "returned", !.ret = call.ptr]
  BY <1>2
<1>4. /\ call'.fn = "mm_realloc" /\ call'.st = "returned" /\ call'.id = call.id
      /\ call'.size = call.size /\ call'.ret = call.ptr
  BY <1>1, <1>3 DEF TypeOK, DriverTypeOK
<1>5. Usable /\ Shape
  BY <1>1, InCall DEF HeapInv
<1>6. PICK x \in blks : x = Block /\ x = call.ptr + 16 /\ Used(mem, x)
  BY <1>1, ReallocBlock
<1>7. PICK id \in Ids : id = call.id /\ Holds(id) /\ Addr(id) = call.ptr
  BY <1>1, ReallocBlock
<1>8. PICK n \in Nat : n = size /\ n % 8 = 0 /\ n >= 24 /\ call.size + 8 <= n
  BY <1>1, RequestSize
<1>9. n <= Size(mem, x)
  <2>1. SizeOf(Block) >= size
    BY DEF ReallocInPlace
  <2>2. Size(mem, x) \in Nat
    BY <1>5, BlockLemma DEF Shape
  <2> QED BY <1>6, <1>8, <2>1, <2>2 DEF SizeOf, Size
<1>10. mem' = shrink_block(x, n) /\ blks' = CutBlks(x, n)
  BY <1>6, <1>8 DEF ReallocInPlace
<1>11. /\ HeapOK(shrink_block(x, n), CutBlks(x, n), heap_end)
       /\ blks \subseteq CutBlks(x, n)
       /\ n <= Size(shrink_block(x, n), x)
       /\ \A b \in CutBlks(x, n) :
            Used(shrink_block(x, n), b) <=> b \in blks /\ Used(mem, b)
  BY <1>5, <1>6, <1>8, <1>9, ShrinkBlock DEF Shape
<1>12. /\ HeapOK(mem', blks', heap_end') /\ heap_end' = mem_brk' + 24
       /\ blks \subseteq blks' /\ n <= Size(mem', x)
       /\ \A b \in blks' : Used(mem', b) <=> b \in blks /\ Used(mem, b)
  BY <1>2, <1>5, <1>10, <1>11 DEF Shape
<1>13. call.ptr # NULL /\ call.ptr = x - 16
  <2>1. x \in Nat /\ x >= 40
    BY <1>5, NotNull
  <2> QED BY <1>6, <2>1 DEF NULL, TypeOK, DriverTypeOK
<1>14. \A i \in Ids : (Holds(i)' <=> Holds(i)) /\ Addr(i)' = Addr(i)
  BY <1>1, <1>2, <1>4, <1>7, <1>13 DEF Holds, Addr, Answered
<1>15. ~ Called("mm_free") /\ ~ Called("mm_free")'
  BY <1>1, <1>4 DEF Called
<1>16. \A b \in blks : Used(mem, b) => b \in blks'
  BY <1>12
<1>17. Shape' /\ Marks' /\ Owners' /\ Freed'
  BY <1>1, <1>5, <1>12, <1>14, <1>15, <1>16, HeapKept
<1>18. Room'
  <2>1. call'.ret + 16 = x
    BY <1>4, <1>6
  <2>2. call.size + 8 <= Size(mem', x)
    <3>1. Size(mem', x) \in Nat /\ call.size \in Nat
      BY <1>12, BlockLemma DEF TypeOK, DriverTypeOK
    <3> QED BY <1>8, <1>12, <3>1
  <2> QED BY <1>4, <2>1, <2>2 DEF Room
<1> QED BY <1>17, <1>18 DEF HeapInv

(* mm_realloc copies the payload and frees the block it has left.          *)
LEMMA CopyStep ==
  ASSUME TypeOK, CallInv, CallInv', HeapInv, MoveInv, StrayMisses, ReallocCopy
  PROVE  HeapInv'
<1>1. /\ pc = "copy" /\ call.fn = "mm_realloc" /\ call.st = "called" /\ Called("mm_realloc")
      /\ pc' = "idle"
  BY DEF ReallocCopy, Return, CallInv, Called
<1>2. /\ live' = live /\ blocks' = blocks /\ UNCHANGED <<mem_brk, heap_end, blks>>
      /\ call' = [call EXCEPT !.st = "returned", !.ret = cur - 16]
  BY DEF ReallocCopy, Return, UnchangedDriver, DSIZE
<1>3. call' = [call EXCEPT !.st = "returned", !.ret = cur - 16]
  BY <1>2
<1>4. /\ call'.fn = "mm_realloc" /\ call'.st = "returned" /\ call'.id = call.id
      /\ call'.size = call.size /\ call'.ret = cur - 16
  BY <1>1, <1>3 DEF TypeOK, DriverTypeOK
<1>5. Usable /\ Shape /\ Marks /\ Owners /\ HeapOK(mem, blks, heap_end)
  BY <1>1, InCall DEF HeapInv, Shape
<1>6. PICK y \in blks : y = Block /\ y = call.ptr + 16 /\ Used(mem, y)
  BY <1>1, ReallocBlock
<1>7. PICK id \in Ids : id = call.id /\ Holds(id) /\ Addr(id) = call.ptr
  BY <1>1, ReallocBlock
<1>8. PICK x \in blks : x = cur
  BY <1>1 DEF MoveInv
<1>9. /\ \A i \in Ids : Holds(i) => Addr(i) + 16 # x
      /\ size <= Size(mem, x) /\ Size(mem, y) < size
  BY <1>1, <1>6, <1>8 DEF MoveInv
<1>10. x # y
  BY <1>6, <1>7, <1>9
<1>11. x \in Nat /\ x >= 40 /\ y \in Nat /\ blks \subseteq Nat /\ call.ptr = y - 16
  BY <1>5, <1>6, NotNull DEF TypeOK, DriverTypeOK
<1>12. size \in Nat /\ call.size + 8 <= size /\ call.size \in Nat
  BY <1>1, RequestSize DEF TypeOK, DriverTypeOK
<1>13. Used(mem, x)
  BY <1>1, <1>5, <1>8 DEF Marks, Taken
<1>14. PICK m1 : m1 = MemMove(mem, x - 16, y - 16, Size(mem, y) - 8)
  OBVIOUS
<1>15. PICK m2 : m2 = SET(m1, HDRP(x), 1)
  OBVIOUS
<1>16. mem' = insert(SET(m2, y, 0), y)
  <2>1. (cur - 2 * DSIZE) + 2 * DSIZE = x /\ cur - 2 * DSIZE = x - 16
    BY <1>8, <1>11 DEF DSIZE
  <2>2. SizeOf(Block) - DSIZE = Size(mem, y) - 8 /\ call.ptr = y - 16
    BY <1>6, <1>11 DEF SizeOf, Size, DSIZE
  <2> QED BY <1>6, <1>14, <1>15, <2>1, <2>2 DEF ReallocCopy, FreeMem
<1>17. /\ HeapOK(m1, blks, heap_end)
       /\ \A b \in blks : Size(m1, b) = Size(mem, b) /\ (Used(m1, b) <=> Used(mem, b))
  <2>1. Size(mem, x) \in Nat /\ Size(mem, y) \in Nat
    BY <1>5, BlockLemma
  <2>2. Size(mem, y) <= Size(mem, x)
    BY <1>9, <1>12, <2>1
  <2> QED BY <1>5, <1>13, <1>14, <2>2, CopyHeap
<1>18. /\ HeapOK(m2, blks, heap_end)
       /\ \A b \in blks : Size(m2, b) = Size(mem, b) /\ (Used(m2, b) <=> Used(mem, b))
  <2>1. \A b \in blks : ~ Used(m1, b) =>
          x - 48 \notin {HDRP(b), HDRP(b) + 8, HDRP(b) + 16}
    <3>1. HDRP(HDRP(cur)) = x - 48
      BY <1>8, <1>11 DEF HDRP, HSIZE, DSIZE
    <3>2. \A b \in blks : ~ Used(mem, b) =>
            x - 48 \notin {HDRP(b), HDRP(b) + 8, HDRP(b) + 16}
      BY <1>1, <3>1 DEF StrayMisses, IsAlloc, Used
    <3> QED BY <1>17, <3>2
  <2>2. /\ HeapOK(m2, blks, heap_end)
        /\ \A b \in blks : Size(m2, b) = Size(m1, b) /\ (Used(m2, b) <=> Used(m1, b))
    BY <1>15, <1>17, <2>1, StrayHeap
  <2> QED BY <1>17, <2>2
<1>19. /\ HeapOK(mem', blks, heap_end)
       /\ \A b \in blks : Size(mem', b) = Size(mem, b)
                          /\ (Used(mem', b) <=> b # y /\ Used(mem, b))
  <2>1. Used(m2, y)
    BY <1>6, <1>18
  <2>2. /\ HeapOK(mem', blks, heap_end)
        /\ \A b \in blks : Size(mem', b) = Size(m2, b)
                           /\ (Used(mem', b) <=> b # y /\ Used(m2, b))
    BY <1>16, <1>18, <2>1, FreeHeap
  <2> QED BY <1>18, <2>2
<1>20. Shape'
  BY <1>2, <1>5, <1>19 DEF Shape
<1>21. \A i \in Ids : (Holds(i)' <=> Holds(i)) /\ (i # id => Addr(i)' = Addr(i))
  BY <1>1, <1>2, <1>4, <1>7, <1>8, <1>11 DEF Holds, Addr, Answered, NULL
<1>22. Addr(id)' = x - 16 /\ Addr(id) = y - 16 /\ Holds(id)
  BY <1>4, <1>7, <1>8, <1>11 DEF Addr, Answered
<1>23. \A b \in blks : Used(mem, b) <=> b = x \/ \E i \in Ids : Holds(i) /\ Addr(i) = b - 16
  BY <1>1, <1>5, <1>8 DEF Marks, Taken, Called, DSIZE
<1>24. \A i \in Ids : Holds(i) => Addr(i) \in Int /\ Addr(i) # x - 16
  BY <1>9, <1>11, AddrLemma
<1>25. \A i \in Ids : Holds(i) /\ Addr(i) = y - 16 => i = id
  BY <1>5, <1>22 DEF Owners
<1>26. Marks'
  <2> SUFFICES ASSUME NEW b \in blks PROVE Used(mem', b) <=> Taken(b)'
    BY <1>2 DEF Marks
  <2>1. Taken(b)' <=> \E i \in Ids : Holds(i)' /\ Addr(i)' = b - 16
    BY <1>1, <1>4 DEF Taken, Called, DSIZE
  <2>2. CASE b = x
    BY <1>10, <1>13, <1>19, <1>21, <1>22, <2>1, <2>2
  <2>3. CASE b = y
    <3>1. x - 16 # y - 16
      BY <1>10, <1>11
    <3> QED BY <1>19, <1>21, <1>22, <1>25, <2>1, <2>3, <3>1
  <2>4. CASE b # x /\ b # y
    <3>1. b - 16 # x - 16 /\ b - 16 # y - 16
      BY <1>11, <2>4
    <3> QED BY <1>19, <1>21, <1>22, <1>23, <2>1, <2>4, <3>1
  <2> QED BY <2>2, <2>3, <2>4
<1>27. Owners'
  <2>1. \A i \in Ids : Holds(i)' => Addr(i)' + 16 \in blks'
    <3>1. x - 16 + 16 = x
      BY <1>11
    <3>2. \A i \in Ids : Holds(i) => Addr(i) + 16 \in blks
      BY <1>5 DEF Owners
    <3> QED BY <1>2, <1>21, <1>22, <3>1, <3>2
  <2>2. \A i, j \in Ids : Holds(i)' /\ Holds(j)' /\ Addr(i)' = Addr(j)' => i = j
    BY <1>5, <1>21, <1>22, <1>24 DEF Owners
  <2> QED BY <2>1, <2>2 DEF Owners
<1>28. Freed'
  BY <1>4 DEF Freed, Called
<1>29. Room'
  <2>1. call'.ret + 16 = x
    BY <1>4, <1>8, <1>11
  <2>2. call.size + 8 <= Size(mem', x)
    <3>1. Size(mem', x) = Size(mem, x) /\ Size(mem, x) \in Nat
      BY <1>5, <1>19, BlockLemma
    <3> QED BY <1>9, <1>12, <3>1
  <2> QED BY <1>4, <2>1, <2>2 DEF Room
<1> QED BY <1>20, <1>26, <1>27, <1>28, <1>29 DEF HeapInv

(* mm_init sets the heap up, on whatever an earlier trace left.            *)
LEMMA InitMemory ==
  ASSUME TypeOK, CallInv, mm_init, ~ SbrkFails(CLASS_NUM * HSIZE)
  PROVE  /\ mem' \in [Words -> Nat] /\ mem_brk' = mem_start_brk + CLASS_NUM * 24
         /\ mem_brk' <= mem_max_addr /\ heap_end' = mem_brk' + 24
         /\ HeapOK(mem', {}, lists_end) /\ heap_end' = lists_end /\ blks' = {}
<1>1. mem_brk = mem_start_brk
  BY DEF mm_init, CallInv
<1>2. PICK n \in Nat : n = CLASS_NUM * HSIZE /\ n = CLASS_NUM * 24 /\ n < INT_MOD
  BY ClassAssumption DEF ClassAssumption, HSIZE, DSIZE
<1>3. mem_brk' = mem_brk + ToInt(n) /\ ~ SbrkFails(n)
  BY <1>2 DEF mm_init, mem_sbrk
<1>4. ToInt(n) = n
  <2>1. ToInt(n) \in Int
    BY <1>2, MemAssumption DEF ToInt, MemAssumption
  <2> QED BY <1>2, <1>3, <2>1, SbrkLemma DEF SbrkFails
<1>5. mem_start_brk \in Nat /\ mem_max_addr \in Nat /\ lists_end = mem_start_brk + 24 + n
  BY <1>2, ListsEnd, MemAssumption DEF MemAssumption, mem_max_addr
<1>6. /\ mem_brk' = mem_start_brk + n /\ mem_brk' <= mem_max_addr
      /\ lists_end = mem_brk' + 24
  <2>1. ~ (mem_brk + ToInt(n) > mem_max_addr)
    BY <1>3 DEF SbrkFails
  <2> QED BY <1>1, <1>3, <1>4, <1>5, <2>1
<1>7. mem' = [a \in Words |->
                IF a >= HDRP(lists_end) THEN mem[a]
                ELSE LET i == (a - mem_start_brk) \div HSIZE
                     IN  IF a = HDRP(Sentinel(i)) THEN PACK(HSIZE, 1) ELSE Sentinel(i)]
  BY DEF mm_init
<1>8. heap_end' = lists_end /\ blks' = {}
  BY DEF mm_init
<1>9. HDRP(lists_end) \in Nat
  BY <1>5 DEF HDRP, HSIZE, DSIZE
<1>10. mem' \in [Words -> Nat]
  <2>1. \A i \in Nat : Sentinel(i) \in Nat
    BY <1>5 DEF Sentinel, heap, HSIZE, DSIZE
  <2>2. PACK(HSIZE, 1) \in Nat
    BY DEF PACK, HSIZE, DSIZE
  <2>3. \A a \in Words : (a - mem_start_brk) \div HSIZE \in Nat
    BY <1>5 DEF Words, HSIZE, DSIZE
  <2>4. \A a \in Words : mem[a] \in Nat
    BY DEF TypeOK
  <2> HIDE DEF HDRP, PACK, Sentinel, HSIZE, Words, lists_end
  <2> QED BY <1>7, <2>1, <2>2, <2>3, <2>4
<1>11. \A a \in Words : a < HDRP(lists_end) =>
         LET i == (a - mem_start_brk) \div HSIZE
         IN  mem'[a] = IF a = HDRP(Sentinel(i)) THEN PACK(HSIZE, 1) ELSE Sentinel(i)
  <2>1. \A a \in Words : a \in Nat
    BY <1>5 DEF Words
  <2> HIDE DEF HDRP, PACK, Sentinel, HSIZE, Words, lists_end
  <2> QED BY <1>7, <1>9, <2>1
<1>12. HeapOK(mem', {}, lists_end)
  <2>1. lists_end <= mem_max_addr + 24
    BY <1>5, <1>6
  <2> HIDE DEF HDRP, PACK, Sentinel, HSIZE, Words, lists_end
  <2> QED BY <1>10, <1>11, <2>1, InitHeap
<1> QED BY <1>2, <1>6, <1>8, <1>10, <1>12

(* mm_init leaves an empty heap of empty lists, or reports its failure.   *)
LEMMA InitStep ==
  ASSUME TypeOK, CallInv, CallInv', HeapInv, mm_init
  PROVE  HeapInv'
<1>1. call.fn = "mm_init" /\ call.st = "called" /\ live = {}
  BY DEF mm_init, Called, CallInv
<1>2. CASE SbrkFails(CLASS_NUM * HSIZE)
  <2>1. call' = [call EXCEPT !.st = "returned", !.ret = -1]
    BY <1>2 DEF mm_init, Return
  <2>2. call'.fn = "mm_init" /\ call'.st = "returned" /\ call'.ret < 0
    BY <1>1, <2>1 DEF TypeOK, DriverTypeOK
  <2>3. ~ Usable'
    BY <2>2 DEF Usable, Returned
  <2> QED BY <2>3 DEF HeapInv
<1>3. CASE ~ SbrkFails(CLASS_NUM * HSIZE)
  <2>1. call' = [call EXCEPT !.st = "returned", !.ret = 0] /\ live' = live
    BY <1>3 DEF mm_init, Return, UnchangedDriver
  <2>2. call'.fn = "mm_init" /\ live' = {}
    BY <1>1, <2>1 DEF TypeOK, DriverTypeOK
  <2>3. Shape' /\ blks' = {}
    BY <1>3, InitMemory DEF Shape
  <2>4. \A i \in Ids : ~ Holds(i)' /\ ~ Answered(i)'
    BY <2>2 DEF Holds, Answered
  <2>5. Marks' /\ Owners' /\ Freed' /\ Room'
    BY <2>2, <2>3, <2>4 DEF Marks, Owners, Freed, Room, Called
  <2> QED BY <2>3, <2>5 DEF HeapInv
<1> QED BY <1>2, <1>3

(***************************************************************************)
(* The steps of the driver.                                                *)
(***************************************************************************)
(* The driver accepts a payload and fills it.                              *)
LEMMA AcceptStep ==
  ASSUME TypeOK, CallInv, CallInv', HeapInv, Returned("mm_malloc") \/ Returned("mm_realloc"),
         call.ret # NULL, call' = NoCall, UNCHANGED mmVars, NEW R, Accept(R)
  PROVE  HeapInv'
<1>1. /\ call.st = "returned" /\ call.fn \in {"mm_malloc", "mm_realloc"}
      /\ call'.st = "none" /\ call'.fn = "none" /\ pc # "copy" /\ pc' # "copy"
  BY DEF Returned, NoCall, CallInv
<1>2. /\ live' = live \union {call.id} /\ blocks' = [blocks EXCEPT ![call.id] = call.ret]
      /\ mem_brk' = mem_brk /\ heap_end' = heap_end /\ blks' = blks
      /\ mem' = MemSet(mem, call.ret, Fill(call.id), call.size)
  BY DEF Accept, mmVars
<1>3. call.id \in Ids
  BY <1>1 DEF CallInv, TypeOK, DriverTypeOK
<1>4. PICK id \in Ids : id = call.id
  BY <1>3
<1>5. Answered(id) /\ Holds(id) /\ Addr(id) = call.ret
  BY <1>1, <1>4 DEF Answered, Holds, Addr
<1>6. Usable /\ Shape /\ Marks /\ Owners /\ Room
  <2>1. Usable
    BY <1>1 DEF CallInv, Usable, Called, Returned
  <2> QED BY <2>1 DEF HeapInv
<1>7. PICK x \in blks : x = call.ret + 16
  BY <1>5, <1>6 DEF Owners
<1>8. x \in Nat /\ call.ret \in Nat /\ call.ret = x - 16
  <2>1. x \in Nat /\ x >= 40
    BY <1>6, NotNull
  <2>2. call.ret \in Int
    BY DEF TypeOK, DriverTypeOK
  <2> QED BY <1>7, <2>1, <2>2
<1>9. Used(mem, x)
  <2>1. Taken(x)
    BY <1>5, <1>8 DEF Taken, DSIZE
  <2> QED BY <1>6, <2>1 DEF Marks
<1>10. call.size \in Nat /\ call.size + 8 <= Size(mem, x)
  BY <1>4, <1>5, <1>6, <1>7 DEF Room, TypeOK, DriverTypeOK
<1>11. Fill(call.id) \in Nat
  BY DEF Fill, LowByte, TypeOK, DriverTypeOK
<1>12. /\ HeapOK(mem', blks, heap_end)
       /\ \A b \in blks : Size(mem', b) = Size(mem, b) /\ (Used(mem', b) <=> Used(mem, b))
  <2>1. PICK p : p = call.ret
    OBVIOUS
  <2>2. PICK n \in Nat : n = call.size
    BY <1>10
  <2>3. PICK v \in Nat : v = Fill(call.id)
    BY <1>11
  <2>4. PICK w : w = MemSet(mem, p, v, n)
    OBVIOUS
  <2>5. HeapOK(mem, blks, heap_end) /\ p = x - 16 /\ n + 8 <= Size(mem, x)
    BY <1>6, <1>8, <1>10, <2>1, <2>2 DEF Shape
  <2>6. /\ HeapOK(w, blks, heap_end)
        /\ \A b \in blks : Size(w, b) = Size(mem, b) /\ (Used(w, b) <=> Used(mem, b))
    BY <1>9, <2>4, <2>5, FillHeap
  <2>7. mem' = w
    BY <1>2, <2>1, <2>2, <2>3, <2>4
  <2> QED BY <2>6, <2>7
<1>13. \A i \in Ids : (Holds(i)' <=> Holds(i)) /\ Addr(i)' = Addr(i) /\ ~ Answered(i)'
  BY <1>1, <1>2, <1>4 DEF Holds, Addr, Answered, TypeOK, DriverTypeOK
<1>14. HeapOK(mem', blks', heap_end') /\ heap_end' = mem_brk' + 24
  BY <1>2, <1>6, <1>12 DEF Shape
<1>15. /\ \A b \in blks' : Used(mem', b) <=> b \in blks /\ Used(mem, b)
       /\ \A b \in blks : Used(mem, b) => b \in blks'
  BY <1>2, <1>12
<1>16. ~ Called("mm_free") /\ ~ Called("mm_free")'
  BY <1>1 DEF Called
<1>17. Shape' /\ Marks' /\ Owners' /\ Freed'
  BY <1>1, <1>6, <1>13, <1>14, <1>15, <1>16, HeapKept
<1>18. Room'
  BY <1>13 DEF Room
<1> QED BY <1>17, <1>18 DEF HeapInv

(* The driver looks at the answer, or asks for more, and writes nothing.   *)
LEMMA QuietStep ==
  ASSUME TypeOK, CallInv, CallInv', HeapInv, Usable, UNCHANGED <<memVars, live, blocks, mmVars>>,
         ~ Called("mm_free"), ~ Called("mm_free")',
         \A i \in Ids : ~ Answered(i) /\ ~ Answered(i)', call.st # "called"
  PROVE  HeapInv'
<1>1. /\ mem' = mem /\ mem_brk' = mem_brk /\ heap_end' = heap_end /\ blks' = blks
      /\ live' = live /\ blocks' = blocks /\ pc # "copy" /\ pc' # "copy"
  BY DEF memVars, mmVars, CallInv
<1>2. \A i \in Ids : (Holds(i)' <=> Holds(i)) /\ Addr(i)' = Addr(i)
  BY <1>1 DEF Holds, Addr
<1>3. Shape
  BY DEF HeapInv
<1>4. /\ HeapOK(mem', blks', heap_end') /\ heap_end' = mem_brk' + 24
      /\ \A b \in blks' : Used(mem', b) <=> b \in blks /\ Used(mem, b)
      /\ \A b \in blks : Used(mem, b) => b \in blks'
  BY <1>1, <1>3 DEF Shape
<1>5. Shape' /\ Marks' /\ Owners' /\ Freed'
  BY <1>1, <1>2, <1>4, HeapKept
<1>6. Room'
  BY DEF Room
<1> QED BY <1>5, <1>6 DEF HeapInv

(* The trace frees a payload: it is the one the package will free.         *)
LEMMA ReqFreeStep ==
  ASSUME TypeOK, CallInv, CallInv', HeapInv, NEW i \in Ids, ReqFree(i), UNCHANGED mmVars
  PROVE  HeapInv'
<1>1. /\ mem' = mem /\ mem_brk' = mem_brk /\ heap_end' = heap_end /\ blks' = blks
      /\ live' = live \ {i} /\ blocks' = blocks /\ pc' = pc /\ cur' = cur
      /\ i \in live /\ call.st = "none" /\ verdict = "running"
      /\ call'.fn = "mm_free" /\ call'.st = "called" /\ call'.ptr = blocks[i]
  BY DEF ReqFree, ReadyForOp, Post, memVars, mmVars
<1>2. pc # "copy" /\ pc' # "copy"
  BY <1>1 DEF CallInv
<1>3. Usable /\ Shape /\ Marks /\ Owners
  BY <1>1 DEF HeapInv, Usable, Called, Returned
<1>4. \A j \in Ids : /\ Holds(j)' <=> Holds(j) /\ j # i
                     /\ Addr(j)' = Addr(j) /\ ~ Answered(j)'
  BY <1>1 DEF Holds, Addr, Answered
<1>5. Holds(i) /\ Addr(i) = blocks[i] /\ blocks[i] \in Nat
  BY <1>1 DEF Holds, Addr, Answered, TypeOK, DriverTypeOK
<1>6. PICK x \in blks : x = Addr(i) + 16
  BY <1>3, <1>5 DEF Owners
<1>7. x \in Nat /\ x - 16 = Addr(i)
  BY <1>5, <1>6
<1>8. Block' = x
  BY <1>1, <1>5, <1>6 DEF Block, DSIZE
<1>9. \A b \in blks : Used(mem, b) <=> \E j \in Ids : Holds(j) /\ Addr(j) = b - 16
  BY <1>1, <1>2, <1>3 DEF Marks, Taken, Called, DSIZE
<1>10. \A b \in blks :
         Taken(b)' <=> b = x \/ \E j \in Ids : Holds(j) /\ j # i /\ Addr(j) = b - 16
  BY <1>1, <1>2, <1>4, <1>8 DEF Taken, Called, DSIZE
<1>11. Marks'
  <2> SUFFICES ASSUME NEW b \in blks PROVE Used(mem, b) <=> Taken(b)'
    BY <1>1 DEF Marks
  <2>1. CASE b = x
    BY <1>5, <1>7, <1>9, <1>10, <2>1
  <2>2. CASE b # x
    <3>1. b \in Nat
      BY <1>3, NotNull
    <3>2. Addr(i) # b - 16
      BY <1>7, <2>2, <3>1
    <3> QED BY <1>9, <1>10, <2>2, <3>2
  <2> QED BY <2>1, <2>2
<1>12. Shape'
  BY <1>1, <1>3 DEF Shape
<1>13. Owners'
  <2>1. \A j \in Ids : Holds(j)' => Addr(j)' + 16 \in blks'
    BY <1>1, <1>3, <1>4 DEF Owners
  <2>2. \A j, k \in Ids : Holds(j)' /\ Holds(k)' /\ Addr(j)' = Addr(k)' => j = k
    BY <1>3, <1>4 DEF Owners
  <2> QED BY <2>1, <2>2 DEF Owners
<1>14. Freed'
  <2>1. \A j \in Ids : Holds(j)' => Addr(j)' # call'.ptr
    BY <1>1, <1>3, <1>4, <1>5 DEF Owners
  <2>2. Block' \in blks'
    BY <1>1, <1>8
  <2> QED BY <2>1, <2>2 DEF Freed
<1>15. Room'
  BY <1>4 DEF Room
<1> QED BY <1>11, <1>12, <1>13, <1>14, <1>15 DEF HeapInv

(* Every step keeps the heap sound.                                        *)
LEMMA HeapInvariance ==
  ASSUME TypeOK, CallInv, CallInv', HeapInv, ScanInv, MoveInv, StrayMisses, [Next]_vars
  PROVE  HeapInv'
<1>2. CASE UNCHANGED vars
  BY <1>2, HeapSame DEF vars, mmVars
<1>3. CASE \/ mm_malloc \/ FitNextList \/ FitTake \/ FitAdvance \/ RefitFails \/ mm_realloc
           \/ ReallocMoves
  <2>1. UNCHANGED <<memVars, driverVars, heap_end, blks>> /\ pc # "copy" /\ pc' # "copy"
    BY <1>3 DEF mm_malloc, FitNextList, FitTake, FitAdvance, RefitFails, mm_realloc,
                ReallocMoves, StartScan, Scanning
  <2> QED BY <2>1, HeapSame
<1>4. CASE ExtendFails
  <2>1. UNCHANGED <<memVars, driverVars, heap_end, blks>> /\ pc # "copy" /\ pc' # "copy"
    BY <1>4 DEF ExtendFails, StartScan, memVars
  <2> QED BY <2>1, HeapSame
<1>5. CASE mm_init \/ mm_free \/ ReallocToZero \/ ReallocInPlace
  BY <1>5, InitStep, FreeStep, ReallocToZeroStep, ReallocInPlaceStep
<1>6. CASE FitCoalesce \/ Extend \/ Place \/ ReallocExpand
  BY <1>6, CoalesceStep, ExtendStep, PlaceStep, PlaceMoveStep, ExpandStep
<1>7. CASE ReallocCopy
  BY <1>7, CopyStep
<1>8. CASE RetInit /\ UNCHANGED mmVars
  <2>1. /\ call.fn = "mm_init" /\ call.st = "returned" /\ call' = NoCall
        /\ verdict = "running" /\ UNCHANGED <<memVars, live, blocks>>
        /\ verdict' = IF call.ret < 0 THEN "invalid" ELSE verdict
    BY <1>8 DEF RetInit, Returned, CallInv
  <2>2. CASE call.ret < 0
    BY <2>1, <2>2 DEF HeapInv, Usable
  <2>3. CASE ~ (call.ret < 0)
    <3>1. Usable /\ ~ Called("mm_free") /\ ~ Called("mm_free")' /\ call.st # "called"
      BY <2>1, <2>3 DEF Usable, Called, Returned, NoCall
    <3>2. \A i \in Ids : ~ Answered(i) /\ ~ Answered(i)'
      BY <2>1 DEF Answered, NoCall
    <3>3. UNCHANGED <<memVars, live, blocks, mmVars>>
      BY <1>8, <2>1
    <3> QED BY <3>1, <3>2, <3>3, QuietStep
  <2> QED BY <2>2, <2>3
<1>9. CASE (RetMalloc \/ RetRealloc) /\ UNCHANGED mmVars
  <2>1. /\ Returned("mm_malloc") \/ Returned("mm_realloc")
        /\ call' = NoCall
        /\ Reject \/ (call.ret # NULL /\ \E R : Accept(R))
    BY <1>9 DEF RetMalloc, RetRealloc
  <2>2. CASE Reject
    BY <2>2 DEF Reject, HeapInv, Usable
  <2>3. CASE call.ret # NULL /\ \E R : Accept(R)
    BY <1>9, <2>1, <2>3, AcceptStep
  <2> QED BY <2>1, <2>2, <2>3
<1>10. CASE RetFree /\ UNCHANGED mmVars
  <2>1. /\ call.fn = "mm_free" /\ call.st = "returned" /\ call' = NoCall
        /\ UNCHANGED <<memVars, live, blocks, mmVars>>
    BY <1>10 DEF RetFree, Returned
  <2>2. Usable /\ ~ Called("mm_free") /\ ~ Called("mm_free")' /\ call.st # "called"
    BY <2>1 DEF Usable, Called, Returned, NoCall, CallInv
  <2>3. \A i \in Ids : ~ Answered(i) /\ ~ Answered(i)'
    BY <2>1 DEF Answered, NoCall
  <2> QED BY <2>1, <2>2, <2>3, QuietStep
<1>11. CASE NextTrace /\ UNCHANGED mmVars
  <2>1. call'.fn = "mm_init" /\ call'.st = "called"
    BY <1>11 DEF NextTrace, Post
  <2> QED BY <2>1 DEF HeapInv, Usable, Called
<1>12. ASSUME NEW i \in Ids, NEW n, ReqMalloc(i, n) \/ ReqRealloc(i, n), UNCHANGED mmVars
       PROVE  HeapInv'
  <2>1. /\ call.st = "none" /\ verdict = "running"
        /\ call'.fn \in {"mm_malloc", "mm_realloc"} /\ call'.st = "called"
        /\ UNCHANGED <<memVars, live, blocks, mmVars>>
    BY <1>12 DEF ReqMalloc, ReqRealloc, ReadyForOp, Post
  <2>2. Usable /\ ~ Called("mm_free") /\ ~ Called("mm_free")' /\ call.st # "called"
    BY <2>1 DEF Usable, Called, Returned
  <2>3. \A j \in Ids : ~ Answered(j) /\ ~ Answered(j)'
    BY <2>1 DEF Answered
  <2> QED BY <2>1, <2>2, <2>3, QuietStep
<1>13. ASSUME NEW i \in Ids, ReqFree(i), UNCHANGED mmVars PROVE HeapInv'
  BY <1>13, ReqFreeStep
<1> QED BY <1>2, <1>3, <1>4, <1>5, <1>6, <1>7, <1>8, <1>9, <1>10, <1>11, <1>12, <1>13
        DEF Next, PackageStep, DriverStep, DriverRequest

(* Every step keeps what is known of a realloc that moves.                 *)
LEMMA MoveInvariance ==
  ASSUME TypeOK, CallInv, CallInv', HeapInv, ScanInv, MoveInv, [Next]_vars
  PROVE  MoveInv'
<1>1. CASE UNCHANGED vars
  BY <1>1 DEF MoveInv, Called, Block, Holds, Addr, Answered, vars, memVars, driverVars, mmVars
<1>2. CASE pc' \in {"idle", "expand"}
  BY <1>2 DEF MoveInv
<1>3. CASE mm_malloc
  BY <1>3 DEF mm_malloc, StartScan, MoveInv, Called, driverVars
<1>4. CASE FitNextList \/ FitTake \/ FitAdvance \/ ExtendFails \/ RefitFails
  <2>1. /\ mem' = mem /\ call' = call /\ size' = size /\ pc \notin {"idle", "expand"}
        /\ pc' # "copy"
    BY <1>4 DEF FitNextList, FitTake, FitAdvance, ExtendFails, RefitFails, StartScan, Scanning,
                memVars, driverVars
  <2> QED BY <2>1 DEF MoveInv, Called, Block
<1>5. ASSUME Called("mm_realloc")
      PROVE  Block \in blks /\ Used(mem, Block)
  BY <1>5, ReallocBlock
<1>6. CASE FitCoalesce \/ Extend
  <2>1. /\ call' = call /\ size' = size /\ pc \notin {"idle", "expand"} /\ pc' # "copy"
    BY <1>6 DEF FitCoalesce, Extend, StartScan, Scanning, driverVars
  <2>2. \A b \in blks : Used(mem, b) => Size(mem', b) = Size(mem, b)
    BY <1>6, CoalesceStep, ExtendStep
  <2>3. ASSUME Called("mm_realloc") PROVE Size(mem', Block) < size
    BY <1>5, <2>1, <2>2, <2>3 DEF MoveInv
  <2> QED BY <2>1, <2>3 DEF MoveInv, Called, Block
<1>7. CASE Place
  <2>1. CASE call.fn = "mm_malloc"
    BY <1>2, <1>7, <2>1 DEF Place, Return
  <2>2. CASE call.fn # "mm_malloc"
    <3>1. /\ call' = call /\ size' = size /\ cur' = cur /\ live' = live /\ blocks' = blocks
          /\ pc = "place"
      BY <1>7, <2>2 DEF Place, UnchangedDriver
    <3>2. /\ cur \in blks /\ ~ Used(mem, cur) /\ blks \subseteq blks' /\ size <= Size(mem', cur)
          /\ \A b \in blks : Used(mem, b) => Size(mem', b) = Size(mem, b)
      BY <1>7, PlaceHeap
    <3>3. ASSUME Called("mm_realloc") PROVE Size(mem', Block) < size
      BY <1>5, <3>1, <3>2, <3>3 DEF MoveInv
    <3>4. \A i \in Ids : Holds(i) => Addr(i) + 16 # cur
      <4>1. Usable /\ Shape /\ Marks /\ Owners
        BY <1>7, PlaceHeap DEF HeapInv
      <4> QED BY <3>2, <4>1, FreeUnheld
    <3>5. \A i \in Ids : (Holds(i)' <=> Holds(i)) /\ Addr(i)' = Addr(i)
      BY <3>1 DEF Holds, Addr, Answered
    <3> QED BY <3>1, <3>2, <3>3, <3>4, <3>5 DEF MoveInv, Called, Block
  <2> QED BY <2>1, <2>2
<1>8. CASE ReallocMoves
  <2>1. /\ mem' = mem /\ call' = call /\ pc = "expand" /\ pc' = "fit"
        /\ SizeOf(Block) < size /\ size' = ALIGN((size - DSIZE) + DSIZE)
    BY <1>8 DEF ReallocMoves, StartScan, memVars, driverVars
  <2>2. size' = size
    BY <2>1, RequestSize, AlignAgain
  <2> QED BY <2>1, <2>2 DEF MoveInv, Called, Block, SizeOf, Size
<1>9. CASE \/ mm_init \/ mm_free \/ ReallocToZero \/ mm_realloc \/ ReallocExpand
           \/ ReallocInPlace \/ ReallocCopy
  <2>1. pc' \in {"idle", "expand"}
    BY <1>9 DEF mm_init, mm_free, ReallocToZero, mm_realloc, ReallocExpand, ReallocInPlace,
                ReallocCopy, Return
  <2> QED BY <1>2, <2>1
<1>10. CASE (DriverStep \/ DriverRequest) /\ UNCHANGED mmVars
  <2>1. call.st # "called"
    BY <1>10 DEF DriverStep, DriverRequest, RetInit, RetMalloc, RetRealloc, RetFree, Returned,
                 NextTrace, ReqMalloc, ReqRealloc, ReqFree, ReadyForOp
  <2>2. pc' = "idle"
    BY <1>10, <2>1 DEF CallInv, mmVars
  <2> QED BY <1>2, <2>2
<1> QED BY <1>1, <1>3, <1>4, <1>6, <1>7, <1>8, <1>9, <1>10 DEF Next, PackageStep

(***************************************************************************)
(* The scan.                                                               *)
(***************************************************************************)
(* mm_malloc starts at the list of the class of the size.                  *)
LEMMA StartLemma ==
  ASSUME NEW m, NEW B, NEW hi, HeapOK(m, B, hi), NEW n \in Nat,
         NEW e, e = find_list(n), NEW c, c = SUCC(m, e)
  PROVE  \E l \in Classes : e = Sentinel(l) /\ ScanAt(m, B, hi, n, l, c)
<1>1. PICK l \in Classes : l = Class(n) /\ e = Sentinel(l)
  BY ClassLemma
<1>2. \A b \in B : Class(Size(m, b)) \in Classes
  BY BlockLemma, ClassLemma
<1>3. Seen(m, B, hi, n, l)
  BY <1>1, <1>2 DEF Seen, Classes
<1>4. Class(n) <= l
  BY <1>1 DEF Classes
<1> QED BY <1>1, <1>3, <1>4, ScanStart

(* The sentinels follow each other, and the last one ends the lists.       *)
LEMMA NextSentinel ==
  ASSUME HeapOK(mem, blks, heap_end), NEW l \in Classes
  PROVE  /\ NEXT(mem, Sentinel(l)) = Sentinel(l) + 24
         /\ NEXT(mem, Sentinel(l)) < lists_end =>
              l + 1 \in Classes /\ NEXT(mem, Sentinel(l)) = Sentinel(l + 1)
         /\ NEXT(mem, Sentinel(l)) >= lists_end => l = CLASS_NUM - 1
<1>1. Hdr(mem, Sentinel(l)) = PACK(24, 1)
  BY DEF HeapOK, PACK
<1>2. Size(mem, Sentinel(l)) = 24
  BY <1>1, PackLemma
<1>3. NEXT(mem, Sentinel(l)) = Sentinel(l) + 24
  BY <1>2 DEF NEXT, Size
<1>4. /\ l \in Nat /\ l <= CLASS_NUM - 1 /\ CLASS_NUM \in Nat /\ mem_start_brk \in Nat
      /\ Sentinel(l) = mem_start_brk + l * 24 + 24
      /\ lists_end = mem_start_brk + 24 + CLASS_NUM * 24
  BY SentinelLemma, ListsEnd, ClassAssumption, MemAssumption
  DEF Classes, ClassAssumption, MemAssumption
<1>5. Sentinel(l) + 24 < lists_end => l + 1 \in Classes
  BY <1>4 DEF Classes
<1>6. l + 1 \in Classes => Sentinel(l + 1) = Sentinel(l) + 24
  <2>1. l + 1 \in Classes => Sentinel(l + 1) = mem_start_brk + (l + 1) * 24 + 24
    BY SentinelLemma
  <2> QED BY <1>4, <2>1
<1>7. Sentinel(l) + 24 >= lists_end => l = CLASS_NUM - 1
  BY <1>4
<1> QED BY <1>3, <1>5, <1>6, <1>7

(* A scan over the last list has seen every block large enough.            *)
LEMMA ScanEnds ==
  ASSUME HeapOK(mem, blks, heap_end), NEW l \in Classes, link_end = Sentinel(l),
         ScanAt(mem, blks, heap_end, size, l, cur), ScanOver, size \in Nat,
         NEW b \in blks, ~ Used(mem, b)
  PROVE  /\ Size(mem, b) < size
         /\ Class(size) <= Class(Size(mem, b)) => ~ CanCoalesce(b)
<1>1. cur = Sentinel(l) /\ l = CLASS_NUM - 1
  BY NextSentinel DEF ScanOver
<1>2. Seen(mem, blks, heap_end, size, l + 1)
  BY <1>1, ScanDone
<1>3. Size(mem, b) \in Nat /\ Class(Size(mem, b)) \in Classes /\ Class(size) \in Classes
  BY BlockLemma, ClassLemma
<1>4. Class(size) <= Class(Size(mem, b)) => Passed(mem, heap_end, size, b)
  <2>1. Class(Size(mem, b)) < l + 1
    BY <1>1, <1>3, ClassAssumption DEF Classes, ClassAssumption
  <2> QED BY <1>2, <2>1 DEF Seen
<1>5. size <= Size(mem, b) => Class(size) <= Class(Size(mem, b))
  BY <1>3, ClassLemma
<1> QED BY <1>3, <1>4, <1>5, MergesLemma DEF Passed

(* find_fit goes on to the next list: no block of this one would do.      *)
LEMMA FitNextListStep ==
  ASSUME TypeOK, CallInv, HeapInv, ScanInv, FitNextList
  PROVE  ScanInv'
<1>1. /\ Scanning /\ cur = link_end /\ NEXT(mem, link_end) < lists_end
      /\ link_end' = NEXT(mem, link_end) /\ cur' = SUCC(mem, link_end')
      /\ mem' = mem /\ blks' = blks /\ heap_end' = heap_end /\ pc' = pc /\ size' = size
      /\ grown' = grown
  BY DEF FitNextList, memVars
<1>2. HeapOK(mem, blks, heap_end)
  BY <1>1, ScanBlock
<1>3. PICK l \in Classes : link_end = Sentinel(l) /\ ScanAt(mem, blks, heap_end, size, l, cur)
  BY <1>1, ScanBlock
<1>4. l + 1 \in Classes /\ link_end' = Sentinel(l + 1)
  BY <1>1, <1>2, <1>3, NextSentinel
<1>5. Seen(mem, blks, heap_end, size, l + 1)
  BY <1>1, <1>2, <1>3, ScanDone
<1>6. Class(size) <= l + 1
  <2>1. Class(size) \in Classes /\ Class(size) <= l
    BY <1>3, ClassLemma DEF ScanAt, TypeOK
  <2> QED BY <2>1 DEF Classes
<1>7. PICK k \in Classes : k = l + 1
  BY <1>4
<1>8. ScanAt(mem, blks, heap_end, size, k, SUCC(mem, Sentinel(k)))
  BY <1>2, <1>5, <1>6, <1>7, ScanStart
<1>9. link_end' = Sentinel(k) /\ ScanAt(mem', blks', heap_end', size', k, cur')
  BY <1>1, <1>4, <1>7, <1>8
<1>10. pc' \in {"fit", "refit"}
  BY <1>1 DEF Scanning
<1>11. pc' = "refit" /\ grown' =>
         \E b \in blks' : ~ Used(mem', b) /\ size' <= Size(mem', b)
  BY <1>1 DEF ScanInv
<1> QED BY <1>9, <1>10, <1>11 DEF ScanInv

(* find_fit merges the block it is at and starts the list again.          *)
LEMMA FitCoalesceStep ==
  ASSUME TypeOK, CallInv, CallInv', HeapInv, ScanInv, FitCoalesce
  PROVE  ScanInv'
<1>1. /\ Scanning /\ cur # link_end /\ CanCoalesce(cur)
      /\ link_end' = link_end /\ cur' = SUCC(mem', link_end)
      /\ heap_end' = heap_end /\ pc' = pc /\ size' = size /\ grown' = grown
  BY DEF FitCoalesce, coalesce_block
<1>2. HeapOK(mem, blks, heap_end) /\ cur \in blks /\ ~ Used(mem, cur)
  BY <1>1, ScanBlock
<1>3. PICK l \in Classes : /\ link_end = Sentinel(l) /\ Class(Size(mem, cur)) = l
                           /\ ScanAt(mem, blks, heap_end, size, l, cur)
  BY <1>1, ScanBlock
<1>4. PICK y \in blks : y = NEXT(mem, cur) /\ ~ Used(mem, y)
  BY <1>1, <1>2, MergesLemma
<1>5. PICK x \in blks : x = cur
  BY <1>2
<1>6. PICK w : w = mem'
  OBVIOUS
<1>7. w = insert(erase(erase(Merged(mem, x, y), x), y), x) /\ blks' = blks \ {y}
  BY <1>4, <1>5, <1>6 DEF FitCoalesce, coalesce_block
<1>8. /\ HeapOK(w, blks \ {y}, heap_end) /\ x # y
      /\ Size(w, x) = Size(mem, x) + Size(mem, y)
      /\ \A b \in blks \ {x, y} : Size(w, b) = Size(mem, b)
      /\ \A b \in blks \ {y} : Used(w, b) <=> Used(mem, b)
  BY <1>2, <1>4, <1>5, <1>7, CoalesceHeap
<1>9. Seen(w, blks \ {y}, heap_end, size, l)
  <2>1. Seen(mem, blks, heap_end, size, l)
    BY <1>3 DEF ScanAt
  <2> QED BY <1>2, <1>3, <1>4, <1>5, <1>7, <2>1, ScanMerge
<1>10. ScanAt(w, blks \ {y}, heap_end, size, l, SUCC(w, Sentinel(l)))
  <2>1. Class(size) <= l
    BY <1>3 DEF ScanAt
  <2> QED BY <1>8, <1>9, <2>1, ScanStart
<1>11. link_end' = Sentinel(l) /\ ScanAt(mem', blks', heap_end', size', l, cur')
  BY <1>1, <1>3, <1>6, <1>7, <1>10
<1>12. pc' \in {"fit", "refit"}
  BY <1>1 DEF Scanning
<1>13. ASSUME pc' = "refit", grown'
       PROVE  \E b \in blks' : ~ Used(mem', b) /\ size' <= Size(mem', b)
  <2>1. PICK b \in blks : ~ Used(mem, b) /\ size <= Size(mem, b)
    BY <1>1, <1>13 DEF ScanInv
  <2>2. CASE b = x \/ b = y
    <3>1. /\ Size(mem, x) \in Nat /\ Size(mem, y) \in Nat /\ size \in Nat
      BY <1>2, BlockLemma DEF TypeOK
    <3>2. size <= Size(w, x)
      BY <1>8, <2>1, <2>2, <3>1
    <3> QED BY <1>1, <1>2, <1>5, <1>6, <1>7, <1>8, <3>2
  <2>3. CASE b # x /\ b # y
    BY <1>1, <1>6, <1>7, <1>8, <2>1, <2>3
  <2> QED BY <2>2, <2>3
<1> QED BY <1>11, <1>12, <1>13 DEF ScanInv

(* find_fit takes a block that is free and large enough.                  *)
LEMMA FitTakeStep ==
  ASSUME TypeOK, CallInv, HeapInv, ScanInv, FitTake
  PROVE  ScanInv'
<1>1. /\ Scanning /\ cur # link_end /\ Fits /\ pc' = "place"
      /\ mem' = mem /\ blks' = blks /\ size' = size /\ cur' = cur
  BY DEF FitTake, memVars
<1>2. HeapOK(mem, blks, heap_end) /\ cur \in blks /\ ~ Used(mem, cur)
  BY <1>1, ScanBlock
<1>3. size <= Size(mem, cur)
  <2>1. Size(mem, cur) \in Nat /\ size \in Nat
    BY <1>2, BlockLemma DEF TypeOK
  <2> QED BY <1>1, <2>1 DEF Fits, SizeOf, Size
<1> QED BY <1>1, <1>2, <1>3 DEF ScanInv

(* find_fit passes a block that is too small and merges with none.        *)
LEMMA FitAdvanceStep ==
  ASSUME TypeOK, CallInv, HeapInv, ScanInv, FitAdvance
  PROVE  ScanInv'
<1>1. /\ Scanning /\ cur # link_end /\ ~ CanCoalesce(cur) /\ ~ Fits
      /\ mem' = mem /\ blks' = blks /\ heap_end' = heap_end /\ size' = size
      /\ cur' = SUCC(mem, cur) /\ pc' = pc /\ link_end' = link_end /\ grown' = grown
  BY DEF FitAdvance, memVars
<1>2. HeapOK(mem, blks, heap_end) /\ cur \in blks
  BY <1>1, ScanBlock
<1>3. PICK l \in Classes : link_end = Sentinel(l) /\ ScanAt(mem, blks, heap_end, size, l, cur)
  BY <1>1, ScanBlock
<1>4. Passed(mem, heap_end, size, cur)
  <2>1. Size(mem, cur) \in Nat /\ size \in Nat
    BY <1>2, BlockLemma DEF TypeOK
  <2> QED BY <1>1, <1>2, <2>1, MergesLemma DEF Passed, Fits, SizeOf, Size
<1>5. ScanAt(mem, blks, heap_end, size, l, SUCC(mem, cur))
  BY <1>1, <1>2, <1>3, <1>4, ScanAdvance
<1>6. ScanAt(mem', blks', heap_end', size', l, cur') /\ link_end' = Sentinel(l)
  BY <1>1, <1>3, <1>5
<1>7. pc' \in {"fit", "refit"}
  BY <1>1 DEF Scanning
<1>8. pc' = "refit" /\ grown' =>
         \E b \in blks' : ~ Used(mem', b) /\ size' <= Size(mem', b)
  BY <1>1 DEF ScanInv
<1> QED BY <1>6, <1>7, <1>8 DEF ScanInv

(* The four steps that start a scan.                                       *)
LEMMA StartStep ==
  ASSUME TypeOK, CallInv, CallInv', HeapInv, HeapInv', ScanInv,
         mm_malloc \/ Extend \/ ExtendFails \/ ReallocMoves
  PROVE  ScanInv'
<1>1. /\ pc' \in {"fit", "refit"} /\ link_end' = find_list(size')
      /\ cur' = SUCC(mem', find_list(size'))
      /\ size' \in Nat
  BY DEF mm_malloc, Extend, ExtendFails, ReallocMoves, StartScan, TypeOK, DriverTypeOK,
         ALIGN, ALIGNMENT, DSIZE
<1>2. HeapOK(mem', blks', heap_end')
  <2>1. call'.st = "called" /\ call'.fn # "mm_init"
    BY <1>1 DEF CallInv
  <2>2. Usable'
    BY <2>1 DEF CallInv, Usable, Called, Returned
  <2> QED BY <2>2 DEF HeapInv, Shape
<1>3. find_list(size') = find_list(size)'
  BY DEF find_list, Sentinel, heap
<1>4. PICK n \in Nat : n = size'
  BY <1>1
<1>5. PICK e : e = find_list(n)
  OBVIOUS
<1>6. PICK c : c = SUCC(mem', e)
  OBVIOUS
<1>7. \E l \in Classes : e = Sentinel(l) /\ ScanAt(mem', blks', heap_end', n, l, c)
  <2>1. PICK m : m = mem'
    OBVIOUS
  <2>2. HeapOK(m, blks', heap_end') /\ c = SUCC(m, e)
    BY <1>2, <1>6, <2>1
  <2>3. \E l \in Classes : e = Sentinel(l) /\ ScanAt(m, blks', heap_end', n, l, c)
    BY <1>5, <2>2, StartLemma
  <2> QED BY <2>1, <2>3
<1>8. \E l \in Classes : link_end' = Sentinel(l)
                         /\ ScanAt(mem', blks', heap_end', size', l, cur')
  BY <1>1, <1>4, <1>5, <1>6, <1>7
<1>9. pc' = "refit" /\ grown' =>
         \E b \in blks' : ~ Used(mem', b) /\ size' <= Size(mem', b)
  <2>1. CASE mm_malloc
    BY <2>1 DEF mm_malloc, StartScan
  <2>2. CASE Extend
    <3>1. heap_end \in blks' /\ ~ Used(mem', heap_end) /\ size <= Size(mem', heap_end)
      BY <2>2, ExtendStep
    <3>2. size' = size
      BY <2>2 DEF Extend
    <3> QED BY <3>1, <3>2
  <2>3. CASE ExtendFails
    BY <2>3 DEF ExtendFails, CallInv
  <2>4. CASE ReallocMoves
    BY <2>4 DEF ReallocMoves, StartScan
  <2> QED BY <2>1, <2>2, <2>3, <2>4
<1> QED BY <1>1, <1>8, <1>9 DEF ScanInv

(* The second scan cannot miss the block that extend_heap added.           *)
LEMMA RefitFailsStep ==
  ASSUME TypeOK, CallInv, HeapInv, ScanInv, RefitFails
  PROVE  ScanInv'
<1>1. pc = "refit" /\ ScanOver /\ pc' = "crashed" /\ grown' = grown /\ Scanning
  BY DEF RefitFails, Scanning
<1>2. HeapOK(mem, blks, heap_end)
  BY <1>1, ScanBlock
<1>3. PICK l \in Classes : link_end = Sentinel(l) /\ ScanAt(mem, blks, heap_end, size, l, cur)
  BY <1>1, ScanBlock
<1>4. ~ grown
  <2> SUFFICES ASSUME grown PROVE FALSE
    BY DEF TypeOK
  <2>1. PICK b \in blks : ~ Used(mem, b) /\ size <= Size(mem, b)
    BY <1>1 DEF ScanInv
  <2>2. Size(mem, b) < size
    BY <1>1, <1>2, <1>3, <2>1, ScanEnds DEF TypeOK
  <2>3. Size(mem, b) \in Nat /\ size \in Nat
    BY <1>2, BlockLemma DEF TypeOK
  <2> QED BY <2>1, <2>2, <2>3
<1> QED BY <1>1, <1>4 DEF ScanInv

(* Every step keeps the account of the scan.                               *)
LEMMA ScanInvariance ==
  ASSUME TypeOK, CallInv, CallInv', HeapInv, HeapInv', ScanInv, [Next]_vars
  PROVE  ScanInv'
<1>1. CASE UNCHANGED vars
  BY <1>1 DEF ScanInv, vars, memVars, mmVars
<1>2. CASE mm_malloc \/ Extend \/ ExtendFails \/ ReallocMoves
  BY <1>2, StartStep
<1>3. CASE FitNextList \/ FitCoalesce \/ FitTake \/ FitAdvance \/ RefitFails
  BY <1>3, FitNextListStep, FitCoalesceStep, FitTakeStep, FitAdvanceStep, RefitFailsStep
<1>4. CASE mm_init \/ mm_free \/ ReallocToZero \/ ReallocInPlace \/ ReallocCopy
  BY <1>4 DEF mm_init, mm_free, ReallocToZero, ReallocInPlace, ReallocCopy, Return, ScanInv
<1>5. CASE Place
  BY <1>5 DEF Place, Return, ScanInv
<1>6. CASE mm_realloc \/ ReallocExpand
  BY <1>6 DEF mm_realloc, ReallocExpand, ScanInv
<1>8. CASE (DriverStep \/ DriverRequest) /\ UNCHANGED mmVars
  <2>1. call.st # "called"
    BY <1>8 DEF DriverStep, DriverRequest, RetInit, RetMalloc, RetRealloc, RetFree, Returned,
                NextTrace, ReqMalloc, ReqRealloc, ReqFree, ReadyForOp
  <2>2. pc = "idle" /\ pc' = "idle"
    BY <1>8, <2>1 DEF CallInv, mmVars
  <2> QED BY <2>2 DEF ScanInv
<1> QED BY <1>1, <1>2, <1>3, <1>4, <1>5, <1>6, <1>8 DEF Next, PackageStep

(***************************************************************************)
(* Every variable keeps its type.                                          *)
(***************************************************************************)
(* What is read is a number.                                               *)
LEMMA ReadLemma ==
  ASSUME NEW m \in [Words -> Nat], NEW x \in Nat
  PROVE  SUCC(m, x) \in Nat /\ NEXT(m, x) \in Nat
<1>1. \A p : READ(m, p) \in Nat
  BY DEF READ
<1>2. SUCC(m, x) \in Nat
  BY <1>1 DEF SUCC
<1>3. READ(m, HDRP(x)) \in Nat
  BY <1>1
<1>4. NEXT(m, x) \in Nat
  BY <1>3 DEF NEXT, GET_SIZE
<1> QED BY <1>2, <1>4

(* The package works on the memory in usable heaps only.                   *)
LEMMA MemoryTypes ==
  ASSUME TypeOK, CallInv, CallInv', HeapInv', [Next]_vars
  PROVE  /\ mem' \in [Words -> Nat] /\ blks' \subseteq Nat /\ heap_end' \in Nat
         /\ mem_brk' \in mem_start_brk .. mem_max_addr /\ mem_brk' % 8 = 0
<1>1. mem_brk \in Int /\ mem_start_brk \in mem_start_brk .. mem_max_addr /\ mem_start_brk % 8 = 0
  BY MemAssumption DEF MemAssumption, TypeOK, mem_max_addr
<1>2. ASSUME Usable', mem_brk' \in Int
      PROVE  /\ mem' \in [Words -> Nat] /\ blks' \subseteq Nat /\ heap_end' \in Nat
             /\ mem_brk' \in mem_start_brk .. mem_max_addr /\ mem_brk' % 8 = 0
  <2>1. Shape'
    BY <1>2 DEF HeapInv
  <2>2. /\ mem' \in [Words -> Nat] /\ blks' \subseteq Nat
        /\ heap_end' \in Nat /\ heap_end' % 8 = 0 /\ heap_end' <= mem_max_addr + 24
        /\ lists_end <= heap_end' /\ heap_end' = mem_brk' + 24
    BY <2>1 DEF Shape, HeapOK, Lists, Tiles
  <2>3. /\ lists_end >= mem_start_brk + 24 /\ mem_start_brk \in Nat /\ mem_max_addr \in Nat
        /\ lists_end \in Nat
    BY ListsEnd, MemAssumption, ClassAssumption DEF MemAssumption, ClassAssumption, mem_max_addr
  <2>4. PICK h \in Nat : h = heap_end'
    BY <2>2
  <2>5. PICK k \in Int : k = mem_brk'
    BY <1>2
  <2>6. h % 8 = 0 /\ h = k + 24 /\ h <= mem_max_addr + 24 /\ lists_end <= h
    BY <2>2, <2>4, <2>5
  <2>7. k % 8 = 0 /\ mem_start_brk <= k /\ k <= mem_max_addr
    BY <2>3, <2>6
  <2>8. k \in mem_start_brk .. mem_max_addr
    BY <2>3, <2>7
  <2> QED BY <2>2, <2>5, <2>7, <2>8
<1>3. CASE UNCHANGED <<mem, blks, heap_end>> /\ mem_brk' \in {mem_brk, mem_start_brk}
  BY <1>1, <1>3 DEF TypeOK
<1>4. CASE mm_init
  <2>1. CASE SbrkFails(CLASS_NUM * HSIZE)
    BY <1>3, <1>4, <2>1 DEF mm_init, memVars
  <2>2. CASE ~ SbrkFails(CLASS_NUM * HSIZE)
    <3>1. /\ mem' \in [Words -> Nat] /\ mem_brk' = mem_start_brk + CLASS_NUM * 24
          /\ mem_brk' <= mem_max_addr /\ heap_end' = mem_brk' + 24
          /\ HeapOK(mem', {}, lists_end) /\ heap_end' = lists_end /\ blks' = {}
      BY <1>4, <2>2, InitMemory
    <3>2. mem_start_brk \in Nat /\ mem_start_brk % 8 = 0 /\ CLASS_NUM \in Nat /\ mem_max_addr \in Nat
      BY MemAssumption, ClassAssumption DEF MemAssumption, ClassAssumption, mem_max_addr
    <3> QED BY <3>1, <3>2, ListsEnd
  <2> QED BY <2>1, <2>2
<1>5. ASSUME call.fn # "mm_init", call.st = "called", call'.fn = call.fn, verdict' = verdict
      PROVE  Usable'
  BY <1>5 DEF CallInv, Usable, Called, Returned
<1>6. CASE \/ FitCoalesce \/ Place \/ mm_free \/ ReallocToZero \/ ReallocExpand \/ ReallocInPlace
           \/ ReallocCopy
  <2>1. call.fn # "mm_init" /\ call.st = "called"
    BY <1>6 DEF FitCoalesce, Scanning, Place, mm_free, ReallocToZero, ReallocExpand,
                ReallocInPlace, ReallocCopy, CallInv, Called
  <2>2. mem_brk' = mem_brk /\ verdict' = verdict
    BY <1>6 DEF FitCoalesce, Place, mm_free, ReallocToZero, ReallocExpand, ReallocInPlace,
                ReallocCopy, UnchangedDriver, driverVars
  <2>3. call' = call \/ \E v : call' = [call EXCEPT !.st = "returned", !.ret = v]
    BY <1>6 DEF FitCoalesce, Place, mm_free, ReallocToZero, ReallocExpand, ReallocInPlace,
                ReallocCopy, Return, driverVars
  <2>4. call'.fn = call.fn
    BY <2>3 DEF TypeOK, DriverTypeOK
  <2> QED BY <1>1, <1>2, <1>5, <2>1, <2>2, <2>4
<1>7. CASE Extend
  <2>1. /\ call.fn # "mm_init" /\ call.st = "called" /\ call' = call /\ verdict' = verdict
        /\ pc # "idle"
    BY <1>7 DEF Extend, CallInv, driverVars
  <2>2. size \in Nat /\ ExtendSize \in Nat /\ mem_brk' = mem_brk + ToInt(ExtendSize)
    BY <1>7, <2>1, RequestSize DEF Extend, mem_sbrk, ExtendSize, HSIZE, DSIZE
  <2>3. ToInt(ExtendSize) \in Int
    BY <2>2, MemAssumption DEF ToInt, MemAssumption
  <2> QED BY <1>1, <1>2, <1>5, <2>1, <2>2, <2>3
<1>8. CASE ExtendFails
  BY <1>3, <1>8 DEF ExtendFails
<1>9. CASE \/ mm_malloc \/ FitNextList \/ FitTake \/ FitAdvance \/ RefitFails \/ mm_realloc
           \/ ReallocMoves
  BY <1>3, <1>9 DEF mm_malloc, FitNextList, FitTake, FitAdvance, RefitFails, mm_realloc,
                    ReallocMoves, memVars
<1>11. CASE (RetInit \/ RetFree) /\ UNCHANGED mmVars
  BY <1>3, <1>11 DEF RetInit, RetFree, memVars, mmVars
<1>12. CASE (RetMalloc \/ RetRealloc) /\ UNCHANGED mmVars
  <2>1. /\ call.st = "returned" /\ call.fn \in {"mm_malloc", "mm_realloc"}
        /\ call' = NoCall
        /\ Reject \/ \E R : Accept(R)
    BY <1>12 DEF RetMalloc, RetRealloc, Returned
  <2>2. CASE Reject
    BY <1>3, <1>12, <2>2 DEF Reject, memVars, mmVars
  <2>3. CASE \E R : Accept(R)
    <3>1. verdict' = verdict /\ mem_brk' = mem_brk
      BY <2>3 DEF Accept
    <3>2. verdict' = "running" /\ call'.fn = "none"
      BY <2>1, <3>1 DEF CallInv, NoCall
    <3>4. Usable'
      BY <3>2 DEF Usable, Called, Returned
    <3> QED BY <1>1, <1>2, <3>1, <3>4
  <2> QED BY <2>1, <2>2, <2>3
<1>13. CASE DriverRequest /\ UNCHANGED mmVars
  BY <1>3, <1>13 DEF DriverRequest, NextTrace, mem_reset_brk, ReqMalloc, ReqRealloc, ReqFree,
                     memVars, mmVars
<1>14. CASE UNCHANGED vars
  BY <1>3, <1>14 DEF vars, memVars, mmVars
<1> QED BY <1>4, <1>6, <1>7, <1>8, <1>9, <1>11, <1>12, <1>13, <1>14
        DEF Next, PackageStep, DriverStep

(* The call and the tables of the trace.                                   *)
LEMMA DriverTypes ==
  ASSUME TypeOK, CallInv, HeapInv, [Next]_vars
  PROVE  DriverTypeOK'
<1>1. CASE UNCHANGED driverVars
  BY <1>1 DEF TypeOK, DriverTypeOK, driverVars
<1>2. ASSUME NEW v \in Int, Return(v), UnchangedDriver
      PROVE  DriverTypeOK'
  BY <1>2 DEF Return, UnchangedDriver, TypeOK, DriverTypeOK
<1>3. CASE mm_init \/ mm_free \/ ReallocToZero
  <2>1. UnchangedDriver /\ (Return(0) \/ Return(-1))
    BY <1>3 DEF mm_init, mm_free, ReallocToZero, NULL
  <2> QED BY <1>2, <2>1
<1>4. CASE Place \/ ReallocInPlace \/ ReallocCopy
  <2>1. cur - 2 * DSIZE \in Int /\ call.ptr \in Int
    BY DEF TypeOK, DriverTypeOK, DSIZE
  <2>2. UnchangedDriver /\ (Return(cur - 2 * DSIZE) \/ Return(call.ptr) \/ UNCHANGED call)
    BY <1>4 DEF Place, ReallocInPlace, ReallocCopy
  <2>3. CASE UNCHANGED call
    BY <1>1, <2>2, <2>3 DEF UnchangedDriver, driverVars
  <2> QED BY <1>2, <2>1, <2>2, <2>3
<1>5. CASE \/ mm_malloc \/ FitNextList \/ FitCoalesce \/ FitTake \/ FitAdvance
           \/ Extend \/ ExtendFails \/ RefitFails \/ mm_realloc \/ ReallocExpand \/ ReallocMoves
  <2>1. UNCHANGED driverVars
    BY <1>5 DEF mm_malloc, FitNextList, FitCoalesce, FitTake, FitAdvance, Extend, ExtendFails,
                RefitFails, mm_realloc, ReallocExpand, ReallocMoves
  <2> QED BY <1>1, <2>1
<1>7. NoCall \in [fn : Calls, st : {"none", "called", "returned"}, id : Nat,
                  ptr : Nat, size : 0 .. (INT_MOD \div 2 - 1), ret : Int]
  BY MemAssumption DEF NoCall, Calls, MemAssumption
<1>8. CASE RetInit \/ RetFree
  BY <1>7, <1>8 DEF RetInit, RetFree, TypeOK, DriverTypeOK
<1>9. CASE RetMalloc \/ RetRealloc
  <2>1. /\ call.st = "returned" /\ call.fn \in {"mm_malloc", "mm_realloc"}
        /\ call' = NoCall
        /\ Reject \/ (call.ret # NULL /\ \E R : Accept(R))
    BY <1>9 DEF RetMalloc, RetRealloc, Returned
  <2>2. CASE Reject
    <3>1. /\ live' = live /\ blocks' = blocks /\ block_sizes' = block_sizes
          /\ verdict' = "invalid"
      BY <2>2 DEF Reject
    <3> QED BY <1>7, <2>1, <3>1 DEF TypeOK, DriverTypeOK
  <2>3. CASE call.ret # NULL /\ \E R : Accept(R)
    <3>1. Usable
      BY <2>1 DEF CallInv, Usable, Called, Returned
    <3>2. call.id \in Ids
      BY <2>1 DEF CallInv, TypeOK, DriverTypeOK
    <3>3. Answered(call.id) /\ Holds(call.id) /\ Addr(call.id) = call.ret
      BY <2>1, <2>3 DEF Answered, Holds, Addr
    <3>4. PICK x \in blks : x = call.ret + 16
      BY <3>1, <3>2, <3>3 DEF HeapInv, Owners
    <3>5. call.ret \in Nat
      <4>1. x \in Nat /\ x >= 40
        BY <3>1, NotNull DEF HeapInv
      <4>2. call.ret \in Int
        BY DEF TypeOK, DriverTypeOK
      <4> QED BY <3>4, <4>1, <4>2
    <3>6. /\ live' = live \union {call.id} /\ verdict' = verdict
          /\ blocks' = [blocks EXCEPT ![call.id] = call.ret]
          /\ block_sizes' = [block_sizes EXCEPT ![call.id] = call.size]
      BY <2>3 DEF Accept
    <3>7. call.size \in Nat /\ live \subseteq Ids /\ verdict \in {"running", "invalid"}
          /\ blocks \in [Ids -> Nat] /\ block_sizes \in [Ids -> Nat]
      BY DEF TypeOK, DriverTypeOK
    <3>8. blocks' \in [Ids -> Nat] /\ block_sizes' \in [Ids -> Nat]
      BY <3>2, <3>5, <3>6, <3>7
    <3>9. live' \subseteq Ids /\ verdict' \in {"running", "invalid"}
      BY <3>2, <3>6, <3>7
    <3> QED BY <1>7, <2>1, <3>8, <3>9 DEF DriverTypeOK
  <2> QED BY <2>1, <2>2, <2>3
<1>10. ASSUME NEW fn \in Calls, NEW i \in Nat, NEW p \in Nat,
              NEW n \in 0 .. (INT_MOD \div 2 - 1), Post(fn, i, p, n)
       PROVE  call' \in [fn : Calls, st : {"none", "called", "returned"}, id : Nat,
                         ptr : Nat, size : 0 .. (INT_MOD \div 2 - 1), ret : Int]
  BY <1>10 DEF Post
<1>11. 0 \in 0 .. (INT_MOD \div 2 - 1)
  BY MemAssumption DEF MemAssumption
<1>12. CASE NextTrace
  <2>1. call' \in [fn : Calls, st : {"none", "called", "returned"}, id : Nat,
                   ptr : Nat, size : 0 .. (INT_MOD \div 2 - 1), ret : Int]
    BY <1>10, <1>11, <1>12 DEF NextTrace, Calls
  <2> QED BY <1>12, <2>1 DEF NextTrace, DriverTypeOK, NULL
<1>13. ASSUME NEW i \in Ids, NEW n \in Sizes, ReqMalloc(i, n) PROVE DriverTypeOK'
  <2>1. i \in Nat /\ n \in 0 .. (INT_MOD \div 2 - 1) /\ "mm_malloc" \in Calls /\ NULL \in Nat
    BY TraceAssumption, MemAssumption DEF TraceAssumption, MemAssumption, Calls, NULL
  <2>2. call' \in [fn : Calls, st : {"none", "called", "returned"}, id : Nat,
                   ptr : Nat, size : 0 .. (INT_MOD \div 2 - 1), ret : Int]
    BY <1>10, <1>13, <2>1 DEF ReqMalloc
  <2> QED BY <1>13, <2>2 DEF ReqMalloc, TypeOK, DriverTypeOK
<1>14. ASSUME NEW i \in Ids, NEW n \in ReallocSizes, ReqRealloc(i, n) PROVE DriverTypeOK'
  <2>1. /\ i \in Nat /\ n \in 0 .. (INT_MOD \div 2 - 1) /\ "mm_realloc" \in Calls
        /\ blocks[i] \in Nat
    BY TraceAssumption DEF TraceAssumption, Calls, TypeOK, DriverTypeOK
  <2>2. call' \in [fn : Calls, st : {"none", "called", "returned"}, id : Nat,
                   ptr : Nat, size : 0 .. (INT_MOD \div 2 - 1), ret : Int]
    BY <1>10, <1>14, <2>1 DEF ReqRealloc
  <2> QED BY <1>14, <2>2 DEF ReqRealloc, TypeOK, DriverTypeOK
<1>15. ASSUME NEW i \in Ids, ReqFree(i) PROVE DriverTypeOK'
  <2>1. i \in Nat /\ "mm_free" \in Calls /\ blocks[i] \in Nat
    BY TraceAssumption DEF TraceAssumption, Calls, TypeOK, DriverTypeOK
  <2>2. call' \in [fn : Calls, st : {"none", "called", "returned"}, id : Nat,
                   ptr : Nat, size : 0 .. (INT_MOD \div 2 - 1), ret : Int]
    BY <1>10, <1>11, <1>15, <2>1 DEF ReqFree
  <2> QED BY <1>15, <2>2 DEF ReqFree, TypeOK, DriverTypeOK
<1>16. CASE UNCHANGED vars
  BY <1>1, <1>16 DEF vars
<1> QED BY <1>3, <1>4, <1>5, <1>8, <1>9, <1>12, <1>13, <1>14, <1>15, <1>16
        DEF Next, PackageStep, DriverStep, DriverRequest

(* The locals of the package.                                              *)
LEMMA LocalTypes ==
  ASSUME TypeOK, CallInv, mem' \in [Words -> Nat], [Next]_vars
  PROVE  /\ pc' \in PCs /\ size' \in Nat /\ link_end' \in Nat /\ cur' \in Nat
         /\ grown' \in BOOLEAN
<1> USE DEF TypeOK, PCs
<1>1. CASE UNCHANGED mmVars
  BY <1>1 DEF mmVars
<1>2. \A n \in Nat : find_list(n) \in Nat
  BY ClassLemma, SentinelLemma
<1>3. ASSUME NEW n \in Nat, NEW where \in {"fit", "refit"}, StartScan(n, where)
      PROVE  pc' \in PCs /\ link_end' \in Nat /\ cur' \in Nat
  BY <1>2, <1>3, ReadLemma DEF StartScan
<1>4. CASE mm_malloc \/ Extend \/ ExtendFails \/ ReallocMoves
  <2>1. ALIGN(call.size + DSIZE) \in Nat /\ ALIGN((size - DSIZE) + DSIZE) \in Nat
    BY DEF DriverTypeOK, ALIGN, ALIGNMENT, DSIZE
  <2>2. size' \in Nat /\ grown' \in BOOLEAN /\ \E w \in {"fit", "refit"} : StartScan(size', w)
    <3>1. CASE mm_malloc
      BY <2>1, <3>1 DEF mm_malloc
    <3>2. CASE Extend
      BY <3>2 DEF Extend
    <3>3. CASE ExtendFails
      BY <3>3 DEF ExtendFails
    <3>4. CASE ReallocMoves
      BY <2>1, <3>4 DEF ReallocMoves
    <3> QED BY <1>4, <3>1, <3>2, <3>3, <3>4
  <2> QED BY <1>3, <2>2
<1>5. CASE FitNextList \/ FitCoalesce \/ FitAdvance \/ FitTake \/ RefitFails
  <2>1. link_end \in Nat /\ NEXT(mem, link_end) \in Nat /\ SUCC(mem, cur) \in Nat
    BY ReadLemma
  <2>2. \A x \in Nat : SUCC(mem', x) \in Nat /\ SUCC(mem, x) \in Nat
    BY ReadLemma
  <2> QED BY <1>5, <2>1, <2>2
          DEF FitNextList, FitCoalesce, FitAdvance, FitTake, RefitFails
<1>11. ASSUME NEW v, Return(v)
       PROVE  /\ pc' \in PCs /\ size' \in Nat /\ link_end' \in Nat /\ cur' \in Nat
              /\ grown' \in BOOLEAN
  <2>1. /\ pc' = "idle" /\ size' = 0 /\ link_end' = NULL /\ cur' = NULL /\ grown' = FALSE
    BY <1>11 DEF Return
  <2> QED BY <2>1 DEF NULL
<1>6. CASE mm_init \/ mm_free \/ ReallocToZero \/ ReallocInPlace \/ ReallocCopy
  <2>1. \E v : Return(v)
    BY <1>6 DEF mm_init, mm_free, ReallocToZero, ReallocInPlace, ReallocCopy
  <2> QED BY <1>11, <2>1
<1>7. CASE Place
  <2>1. (\E v : Return(v)) \/ (pc' = "copy" /\ UNCHANGED <<size, link_end, cur, grown>>)
    BY <1>7 DEF Place
  <2> QED BY <1>11, <2>1
<1>8. CASE mm_realloc \/ ReallocExpand
  BY <1>8 DEF mm_realloc, ReallocExpand, DriverTypeOK, ALIGN, ALIGNMENT, DSIZE
<1>10. CASE UNCHANGED vars
  BY <1>1, <1>10 DEF vars
<1> QED BY <1>1, <1>4, <1>5, <1>6, <1>7, <1>8, <1>10 DEF Next, PackageStep

(* Every step keeps the types.                                             *)
LEMMA TypeInvariance ==
  ASSUME TypeOK, CallInv, CallInv', HeapInv, HeapInv', [Next]_vars
  PROVE  TypeOK'
<1>1. /\ mem' \in [Words -> Nat] /\ blks' \subseteq Nat /\ heap_end' \in Nat
      /\ mem_brk' \in mem_start_brk .. mem_max_addr /\ mem_brk' % 8 = 0
  BY MemoryTypes
<1>2. DriverTypeOK'
  BY DriverTypes
<1>3. /\ pc' \in PCs /\ size' \in Nat /\ link_end' \in Nat /\ cur' \in Nat
      /\ grown' \in BOOLEAN
  BY <1>1, LocalTypes
<1> QED BY <1>1, <1>2, <1>3 DEF TypeOK

(***************************************************************************)
(* The invariant, and what it says.                                        *)
(***************************************************************************)
(* The program starts with the driver in a call of mm_init.                *)
LEMMA InitInvariant ==
  ASSUME RoomForLinks, Init
  PROVE  IInv
<1>1. PICK stale \in Nat : mem = [a \in Words |-> stale] /\ mem_brk = mem_start_brk
  BY ClassAssumption DEF ClassAssumption, Init, mem_init
<1>2. /\ call.fn = "mm_init" /\ call.st = "called" /\ verdict = "running" /\ live = {}
      /\ pc = "idle" /\ grown = FALSE /\ blks = {}
  BY DEF Init, DriverInit
<1>3. DriverTypeOK
  <2>1. call \in [fn : Calls, st : {"none", "called", "returned"}, id : Nat,
                  ptr : Nat, size : 0 .. (INT_MOD \div 2 - 1), ret : Int]
    BY MemAssumption DEF Init, DriverInit, Calls, MemAssumption
  <2> QED BY <2>1 DEF Init, DriverInit, DriverTypeOK, NULL
<1>4. TypeOK
  <2>1. mem \in [Words -> Nat]
    BY <1>1
  <2>2. mem_brk \in mem_start_brk .. mem_max_addr /\ mem_brk % 8 = 0
    BY <1>1, MemAssumption DEF MemAssumption, mem_max_addr
  <2> QED BY <1>3, <2>1, <2>2 DEF TypeOK, Init, PCs, NULL
<1>5. CallInv
  BY <1>1, <1>2 DEF CallInv, Called
<1>6. HeapInv
  BY <1>2 DEF HeapInv, Usable, Called
<1>7. ScanInv
  BY <1>2 DEF ScanInv
<1>8. MoveInv
  BY <1>2 DEF MoveInv
<1> QED BY <1>4, <1>5, <1>6, <1>7, <1>8 DEF IInv

(* Every step keeps it, unless the stray write hits a free block.          *)
LEMMA InvariantKept ==
  ASSUME IInv, StrayMisses, [Next]_vars
  PROVE  IInv'
<1>1. RoomForLinks /\ TypeOK /\ CallInv /\ HeapInv /\ ScanInv /\ MoveInv
  BY DEF IInv
<1>2. CallInv'
  BY <1>1, CallInvariance
<1>3. HeapInv'
  BY <1>1, <1>2, HeapInvariance
<1>4. ScanInv'
  BY <1>1, <1>2, <1>3, ScanInvariance
<1>5. TypeOK'
  BY <1>1, <1>2, <1>3, TypeInvariance
<1>6. RoomForLinks'
  BY <1>1 DEF RoomForLinks
<1>7. MoveInv'
  BY <1>1, <1>2, MoveInvariance
<1> QED BY <1>2, <1>3, <1>4, <1>5, <1>6, <1>7 DEF IInv

(* For every region, any number of classes and every trace whose requests  *)
(* are all above 8 bytes (or reallocs to 0), as long as the stray write of *)
(* a realloc that moves its block misses the free blocks: the inductive    *)
(* invariant of the package.                                               *)
THEOREM Invariance ==
  RoomForLinks /\ Spec /\ []StrayMisses => []IInv
<1>1. RoomForLinks /\ Init => IInv
  BY InitInvariant
<1>2. IInv /\ StrayMisses /\ [Next]_vars => IInv'
  BY InvariantKept
<1> QED BY <1>1, <1>2, PTL DEF Spec

(* At the end of a scan.                                                   *)
LEMMA ScanVerdict ==
  ASSUME IInv
  PROVE  ScanComplete
<1> SUFFICES ASSUME pc = "fit", ScanOver, NEW b \in blks, ~ Taken(b)
             PROVE  /\ SizeOf(b) < size
                    /\ find_list(SizeOf(b)) >= find_list(size) => ~ CanCoalesce(b)
  BY DEF ScanComplete
<1>1. TypeOK /\ CallInv /\ HeapInv /\ ScanInv /\ Scanning
  BY DEF IInv, Scanning
<1>2. Usable /\ HeapOK(mem, blks, heap_end)
  BY <1>1, ScanBlock
<1>3. PICK l \in Classes : link_end = Sentinel(l) /\ ScanAt(mem, blks, heap_end, size, l, cur)
  BY <1>1, ScanBlock
<1>4. ~ Used(mem, b)
  BY <1>1, <1>2 DEF HeapInv, Marks
<1>5. size \in Nat /\ SizeOf(b) = Size(mem, b) /\ Size(mem, b) \in Nat
  BY <1>1, <1>2, BlockLemma DEF TypeOK, SizeOf, Size
<1>6. /\ Size(mem, b) < size
      /\ Class(size) <= Class(Size(mem, b)) => ~ CanCoalesce(b)
  BY <1>2, <1>3, <1>4, <1>5, ScanEnds
<1>7. find_list(Size(mem, b)) >= find_list(size) => Class(size) <= Class(Size(mem, b))
  <2>1. PICK i \in Classes : i = Class(size) /\ find_list(size) = Sentinel(i)
    BY <1>5, ClassLemma
  <2>2. PICK j \in Classes : j = Class(Size(mem, b)) /\ find_list(Size(mem, b)) = Sentinel(j)
    BY <1>5, ClassLemma
  <2>3. /\ i <= j <=> Sentinel(i) <= Sentinel(j)
        /\ Sentinel(i) \in Nat /\ Sentinel(j) \in Nat
    BY SentinelLemma
  <2> QED BY <2>1, <2>2, <2>3
<1> QED BY <1>5, <1>6, <1>7

(* extend_heap is called only when no free block is large enough and none  *)
(* of the classes scanned can be merged with its successor.                *)
THEOREM ScanIsComplete ==
  RoomForLinks /\ Spec /\ []StrayMisses => []ScanComplete
<1>1. IInv => ScanComplete
  BY ScanVerdict
<1> QED BY <1>1, Invariance, PTL

(* The second first_fit finds a block whenever extend_heap succeeded: the  *)
(* process dies for want of memory only.                                   *)
THEOREM SecondScanFinds ==
  RoomForLinks /\ Spec /\ []StrayMisses => []RefitFinds
<1>1. IInv => RefitFinds
  BY DEF IInv, ScanInv, RefitFinds
<1> QED BY <1>1, Invariance, PTL

(* The blocks of a usable heap.                                            *)
LEMMA HeapIsTiled ==
  ASSUME IInv
  PROVE  LinksFit /\ HeapTiled
<1> SUFFICES ASSUME Usable PROVE LinksFit /\ HeapTiled
  BY DEF LinksFit, HeapTiled
<1>1. Shape /\ Marks
  BY DEF IInv, HeapInv
<1>2. HeapOK(mem, blks, heap_end) /\ heap_end = mem_brk + 24
  BY <1>1 DEF Shape
<1>3. heap_end = mem_brk + HSIZE /\ lists_end \in blks \union {heap_end}
  BY <1>2 DEF HeapOK, Tiles, HSIZE, DSIZE
<1>4. ASSUME NEW b \in blks
      PROVE  /\ SizeOf(b) >= HSIZE
             /\ b % 8 = 0 /\ lists_end <= b /\ b < heap_end
             /\ NEXT(mem, b) > b
             /\ NEXT(mem, b) \in blks \union {heap_end}
             /\ \A c \in blks : b < c => NEXT(mem, b) <= c
             /\ IsAlloc(b) <=> Taken(b)
  <2>1. SizeOf(b) = Size(mem, b) /\ (IsAlloc(b) <=> Used(mem, b))
    BY DEF SizeOf, Size, IsAlloc, Used
  <2>2. /\ b \in Nat /\ b % 8 = 0 /\ lists_end <= b /\ b < heap_end
        /\ Size(mem, b) \in Nat /\ Size(mem, b) >= 24
        /\ b < NEXT(mem, b) /\ NEXT(mem, b) \in Nat
        /\ NEXT(mem, b) \in blks \union {heap_end}
        /\ \A c \in blks : b < c => NEXT(mem, b) <= c
    BY <1>2, BlockLemma
  <2> QED BY <1>1, <2>1, <2>2 DEF Marks, HSIZE, DSIZE
<1> QED BY <1>3, <1>4 DEF LinksFit, HeapTiled

(* The number of nodes of a round.                                         *)
LEMMA RoundCount ==
  ASSUME NEW m, NEW s, NEW A, NEW n \in Nat, NEW f, Round(m, s, A, n, f)
  PROVE  Cardinality(A) = n
<1> DEFINE g == [j \in 1 .. n |-> f[j]]
<1>1. /\ \A j \in 1 .. n : f[j] \in A
      /\ \A y \in A : \E j \in 1 .. n : f[j] = y
      /\ \A i, j \in 1 .. n : f[i] = f[j] => i = j
  BY DEF Round
<1>2. g \in [1 .. n -> A] /\ \A j \in 1 .. n : g[j] = f[j]
  BY <1>1
<1>3. g \in Bijection(1 .. n, A)
  <2> HIDE DEF g
  <2> QED BY <1>1, <1>2 DEF Bijection, Injection, Surjection, IsInjective
<1>4. ExistsBijection(1 .. n, A)
  BY <1>3 DEF ExistsBijection
<1> QED BY <1>4, FS_CountingElements

(* Whoever follows the links from the sentinel goes the round.             *)
Walks(m, s, n, g) == g = [j \in 0 .. n + 1 |-> IF j = 0 THEN s ELSE SUCC(m, g[j - 1])]
Walk(m, s, n) == CHOOSE g : Walks(m, s, n, g)
(* The walk that follows SUCC is the round of the list.                   *)
LEMMA RoundWalk ==
  ASSUME NEW m, NEW s, NEW A, NEW n \in Nat, NEW f, Round(m, s, A, n, f),
         NEW g, Walks(m, s, n, g)
  PROVE  \A j \in 0 .. n + 1 : g[j] = f[j]
<1>1. f[0] = s /\ \A j \in 0 .. n : SUCC(m, f[j]) = f[j + 1]
  BY DEF Round
<1>2. g[0] = s /\ \A j \in 1 .. n + 1 : g[j] = SUCC(m, g[j - 1])
  <2>1. 0 \in 0 .. n + 1 /\ \A j \in 1 .. n + 1 : j \in 0 .. n + 1 /\ j # 0
    OBVIOUS
  <2> QED BY <2>1 DEF Walks
<1> DEFINE Wrong == {j \in 0 .. n + 1 : g[j] # f[j]}
<1>3. SUFFICES ASSUME Wrong # {} PROVE FALSE
  OBVIOUS
<1>4. PICK x \in Wrong : \A y \in Wrong : x <= y
  <2>1. Wrong \in SUBSET Nat
    OBVIOUS
  <2> HIDE DEF Wrong
  <2> QED BY <1>3, <2>1, LeastNumber
<1>5. x \in 1 .. n + 1 /\ x - 1 \in 0 .. n /\ (x - 1) + 1 = x
  BY <1>1, <1>2
<1>6. g[x - 1] = f[x - 1]
  BY <1>4, <1>5
<1>7. g[x] = f[x]
  BY <1>1, <1>2, <1>5, <1>6
<1> QED BY <1>7

(* The walk of ListsSound is the round.                                    *)
LEMMA RoundIsWalk ==
  ASSUME NEW m, NEW s, NEW A, NEW n \in Nat, NEW f, Round(m, s, A, n, f)
  PROVE  \A j \in 0 .. n + 1 : Walk(m, s, n)[j] = f[j]
<1>1. f = [j \in 0 .. n + 1 |-> IF j = 0 THEN s ELSE SUCC(m, f[j - 1])]
  <2>1. /\ f \in [0 .. n + 1 -> Nat] /\ f[0] = s
        /\ \A j \in 0 .. n : SUCC(m, f[j]) = f[j + 1]
    BY DEF Round
  <2>2. ASSUME NEW j \in 0 .. n + 1
        PROVE  f[j] = IF j = 0 THEN s ELSE SUCC(m, f[j - 1])
    <3>1. CASE j = 0
      BY <2>1, <3>1
    <3>2. CASE j # 0
      <4>1. j - 1 \in 0 .. n /\ (j - 1) + 1 = j
        BY <3>2
      <4>2. SUCC(m, f[j - 1]) = f[(j - 1) + 1]
        BY <2>1, <4>1
      <4> QED BY <3>2, <4>1, <4>2
    <3> QED BY <3>1, <3>2
  <2> QED BY <2>1, <2>2
<1>2. Walks(m, s, n, f)
  BY <1>1 DEF Walks
<1>3. Walks(m, s, n, Walk(m, s, n))
  BY <1>2 DEF Walk
<1> QED BY <1>3, RoundWalk

(* Each list is one ring of exactly the free blocks of its class.          *)
LEMMA ListsAreSound ==
  ASSUME IInv
  PROVE  ListsSound
<1> SUFFICES ASSUME Usable, NEW c \in 0 .. CLASS_NUM - 1
             PROVE  LET members == {b \in blks : ~ Taken(b) /\ find_list(SizeOf(b)) = Sentinel(c)}
                        k == Cardinality(members)
                        at[n \in 0 .. k + 1] == IF n = 0 THEN Sentinel(c) ELSE SUCC(mem, at[n - 1])
                    IN  /\ {at[n] : n \in 1 .. k} = members
                        /\ at[k + 1] = Sentinel(c)
                        /\ \A n \in 0 .. k : PRED(mem, at[n + 1]) = at[n]
  BY DEF ListsSound
<1> DEFINE members == {b \in blks : ~ Taken(b) /\ find_list(SizeOf(b)) = Sentinel(c)}
           k == Cardinality(members)
           at[n \in 0 .. k + 1] == IF n = 0 THEN Sentinel(c) ELSE SUCC(mem, at[n - 1])
<1>1. HeapOK(mem, blks, heap_end) /\ Marks /\ c \in Classes
  BY DEF IInv, HeapInv, Shape, Classes
<1>2. members = FreeLists(mem, blks)[c]
  <2>1. ASSUME NEW b \in blks
        PROVE  ~ Taken(b) /\ find_list(SizeOf(b)) = Sentinel(c)
                 <=> ~ Used(mem, b) /\ Class(Size(mem, b)) = c
    <3>1. Size(mem, b) \in Nat /\ SizeOf(b) = Size(mem, b)
      BY <1>1, BlockLemma DEF SizeOf, Size
    <3>2. Class(Size(mem, b)) \in Classes /\ find_list(Size(mem, b)) = Sentinel(Class(Size(mem, b)))
      BY <3>1, ClassLemma
    <3>3. Sentinel(Class(Size(mem, b))) = Sentinel(c) <=> Class(Size(mem, b)) = c
      BY <1>1, <3>2, SentinelLemma
    <3> QED BY <1>1, <3>1, <3>2, <3>3 DEF Marks
  <2> QED BY <1>1, <2>1, ClassRing
<1>3. PICK A : A = members
  OBVIOUS
<1>13. Ring(mem, Sentinel(c), FreeLists(mem, blks)[c])
  BY <1>1, ClassRing
<1>11. Ring(mem, Sentinel(c), A)
  <2> HIDE DEF members
  <2> QED BY <1>2, <1>3, <1>13
<1>12. PICK n \in Nat : \E f : Round(mem, Sentinel(c), A, n, f)
  BY <1>11 DEF Ring
<1>4. PICK f : Round(mem, Sentinel(c), A, n, f)
  BY <1>12
<1>5. k = n
  BY <1>3, <1>4, RoundCount
<1>6. \A j \in 0 .. n + 1 : at[j] = f[j]
  <2>1. at = CHOOSE g : g = [j \in 0 .. n + 1 |-> IF j = 0 THEN Sentinel(c) ELSE SUCC(mem, g[j - 1])]
    BY <1>5
  <2> HIDE DEF at, k, members
  <2>2. PICK s, m : s = Sentinel(c) /\ m = mem
    OBVIOUS
  <2>3. PICK w : w = at
    OBVIOUS
  <2>4. Round(m, s, A, n, f)
    BY <1>4, <2>2
  <2>5. w = Walk(m, s, n)
    BY <2>1, <2>2, <2>3 DEF Walk, Walks
  <2>6. \A j \in 0 .. n + 1 : Walk(m, s, n)[j] = f[j]
    BY <2>4, RoundIsWalk
  <2> QED BY <2>3, <2>5, <2>6
<1> HIDE DEF at, k, members
<1>7. /\ f[n + 1] = Sentinel(c)
      /\ \A j \in 0 .. n : PRED(mem, f[j + 1]) = f[j]
      /\ \A j \in 1 .. n : f[j] \in A
      /\ \A y \in A : \E j \in 1 .. n : f[j] = y
  BY <1>4 DEF Round
<1>8. {at[j] : j \in 1 .. k} = members
  BY <1>3, <1>5, <1>6, <1>7
<1>9. at[k + 1] = Sentinel(c)
  BY <1>5, <1>6, <1>7
<1>10. \A j \in 0 .. k : PRED(mem, at[j + 1]) = at[j]
  <2>1. \A j \in 0 .. n : at[j] = f[j] /\ at[j + 1] = f[j + 1]
    BY <1>6
  <2> QED BY <1>5, <1>7, <2>1
<1> USE DEF at, k, members
<1> QED BY <1>8, <1>9, <1>10

(* At every point of every call the blocks tile the heap, each is marked   *)
(* allocated exactly while somebody owns it and has room for its links,    *)
(* and every list is one ring of exactly the free blocks of its class.     *)
THEOREM HeapIsSound ==
  RoomForLinks /\ Spec /\ []StrayMisses => []HeapSound
<1>1. IInv => HeapSound
  BY HeapIsTiled, ListsAreSound DEF IInv, HeapSound
<1> QED BY <1>1, Invariance, PTL

(* A trace that reallocates to 0 only never moves a block.                 *)
OnlyToZero == pc # "expand" /\ (call.fn = "mm_realloc" => call.size = 0)

(* The theorems in terms of the constants alone: no hypothesis on the      *)
(* behaviour is left for the traces that do not reallocate.                *)
THEOREM SoundWithoutRealloc ==
  RoomForLinks /\ ReallocSizes \subseteq {0} /\ Spec
    => [](HeapSound /\ ScanComplete /\ RefitFinds)
<1>1. Init => OnlyToZero
  BY DEF Init, DriverInit, OnlyToZero
<1>2. ReallocSizes \subseteq {0} /\ IInv /\ OnlyToZero /\ [Next]_vars => OnlyToZero'
  <2> SUFFICES ASSUME ReallocSizes \subseteq {0}, IInv, OnlyToZero, [Next]_vars
               PROVE  OnlyToZero'
    OBVIOUS
  <2> USE DEF OnlyToZero
  <2>1. TypeOK /\ DriverTypeOK /\ CallInv
    BY DEF IInv, TypeOK
  <2>2. CASE UNCHANGED <<call, pc>>
    BY <2>2
  <2>3. ASSUME NEW v, Return(v) PROVE OnlyToZero'
    BY <2>1, <2>3 DEF Return, DriverTypeOK
  <2>4. CASE mm_init \/ Place \/ mm_free \/ ReallocToZero \/ ReallocInPlace \/ ReallocCopy
    <3>1. (\E v : Return(v)) \/ (pc' = "copy" /\ call' = call)
      BY <2>4 DEF mm_init, Place, mm_free, ReallocToZero, ReallocInPlace, ReallocCopy
    <3> QED BY <2>3, <3>1
  <2>5. CASE \/ mm_malloc \/ FitNextList \/ FitCoalesce \/ FitTake \/ FitAdvance
             \/ Extend \/ ExtendFails \/ RefitFails
    <3>1. pc' # "expand" /\ call' = call
      BY <2>5 DEF mm_malloc, FitNextList, FitCoalesce, FitTake, FitAdvance, Extend, ExtendFails,
                  RefitFails, StartScan, driverVars
    <3> QED BY <3>1
  <2>6. CASE mm_realloc \/ ReallocExpand \/ ReallocMoves
    BY <2>6 DEF mm_realloc, ReallocExpand, ReallocMoves, Called
  <2>7. CASE DriverStep /\ UNCHANGED mmVars
    <3>1. call'.fn = "none" /\ pc' = pc
      BY <2>7 DEF DriverStep, RetInit, RetMalloc, RetRealloc, RetFree, NoCall, mmVars
    <3> QED BY <3>1
  <2>8. CASE DriverRequest /\ UNCHANGED mmVars
    <3>1. pc' = pc
      BY <2>8 DEF mmVars
    <3>2. call'.fn = "mm_realloc" => call'.size \in ReallocSizes
      BY <2>8 DEF DriverRequest, NextTrace, ReqMalloc, ReqRealloc, ReqFree, Post
    <3> QED BY <3>1, <3>2
  <2>9. CASE UNCHANGED vars
    BY <2>2, <2>9 DEF vars, driverVars, mmVars
  <2> QED BY <2>4, <2>5, <2>6, <2>7, <2>8, <2>9 DEF Next, PackageStep
<1>3. IInv /\ OnlyToZero => StrayMisses
  BY DEF IInv, CallInv, OnlyToZero, StrayMisses, DSIZE
<1>4. RoomForLinks /\ Init => IInv
  BY InitInvariant
<1>5. IInv /\ StrayMisses /\ [Next]_vars => IInv'
  BY InvariantKept
<1>7. IInv => HeapSound /\ ScanComplete /\ RefitFinds
  <2>1. IInv => HeapSound
    BY HeapIsTiled, ListsAreSound DEF IInv, HeapSound
  <2>2. IInv => RefitFinds
    BY DEF IInv, ScanInv, RefitFinds
  <2> QED BY <2>1, <2>2, ScanVerdict
<1>8. RoomForLinks /\ ReallocSizes \subseteq {0} /\ Spec => [](IInv /\ OnlyToZero)
  <2> SUFFICES ASSUME ReallocSizes \subseteq {0}
               PROVE  RoomForLinks /\ Spec => [](IInv /\ OnlyToZero)
    OBVIOUS
  <2>1. IInv /\ OnlyToZero /\ [Next]_vars => (IInv /\ OnlyToZero)'
    BY <1>2, <1>3, <1>5
  <2> QED BY <1>1, <1>4, <2>1, PTL DEF Spec
<1> QED BY <1>7, <1>8, PTL
=============================================================================
