---------------------------- MODULE CSim_proofs ----------------------------
(***************************************************************************)
(* Proofs about CSim, for a cache of any size, any blocks and any trace of *)
(* fewer lines than an unsigned int has values.                            *)
(***************************************************************************)
EXTENDS CSim, FiniteSetTheorems, WellFoundedInduction, TLAPS

Tags == 0 .. UINT_MOD - 1
CacheSet == [Slots -> CacheLine]

(* What ZeroMeansEmpty and OrderSound say of one set, n instructions in.   *)
SetSound(s, n) ==
  /\ \A k \in Slots : s[k].LRU = 0 <=> s[k].valid = 0
  /\ \A k \in Slots : s[k].valid = 1 =>
       /\ s[k].LRU <= n
       /\ \A j \in Slots \ {k} : s[j].valid = 1 =>
            s[j].tag # s[k].tag /\ s[j].LRU # s[k].LRU

-----------------------------------------------------------------------------
(* A non-empty set of natural numbers has a least element.                 *)
LEMMA LeastNat ==
  ASSUME NEW S \in SUBSET Nat, S # {}
  PROVE  \E x \in S : \A y \in S : x <= y
<1>. DEFINE T == {0 .. x : x \in S}
<1>1. T \subseteq FiniteSubsetsOf(Nat) /\ T # {}
  <2>1. ASSUME NEW x \in S
        PROVE  0 .. x \in FiniteSubsetsOf(Nat)
    <3>1. IsFiniteSet(0 .. x)
      BY FS_Interval
    <3>2. 0 .. x \in SUBSET Nat
      OBVIOUS
    <3>. QED  BY <3>1, <3>2 DEF FiniteSubsetsOf
  <2>. QED  BY <2>1
<1>2. PICK t \in T : \A u \in T : <<u, t>> \notin StrictSubsetOrdering(Nat)
  <2>. HIDE DEF T
  <2>. QED  BY <1>1, FS_StrictSubsetOrderingWellFounded, WFMin
<1>3. PICK x \in S : t = 0 .. x
  OBVIOUS
<1>4. ASSUME NEW y \in S, y < x
      PROVE  FALSE
  <2>1. 0 .. y \in T /\ 0 .. y \subseteq 0 .. x /\ 0 .. y # 0 .. x
    BY <1>4
  <2>2. <<0 .. y, 0 .. x>> \in StrictSubsetOrdering(Nat)
    BY <2>1 DEF StrictSubsetOrdering
  <2>. QED  BY <1>2, <1>3, <2>1, <2>2
<1>. QED  BY <1>4

(* The search for the line to evict ends with a slot of the lowest LRU.    *)
LEMMA ToEvictSlot ==
  ASSUME NEW s \in CacheSet
  PROVE  /\ ToEvict(s) \in Slots
         /\ \A j \in Slots : s[ToEvict(s)].LRU <= s[j].LRU
<1>. DEFINE ages == {s[k].LRU : k \in Slots}
<1>1. ages \in SUBSET Nat /\ ages # {}
  <2>1. 0 \in Slots
    BY CSimAssumption DEF Slots
  <2>2. \A k \in Slots : s[k].LRU \in Nat
    BY CSimAssumption DEF CacheSet, CacheLine
  <2>. QED  BY <2>1, <2>2
<1>2. PICK age \in ages : \A y \in ages : age <= y
  BY <1>1, LeastNat
<1>. DEFINE oldest == {k \in Slots : s[k].LRU = age}
<1>3. oldest \in SUBSET Nat /\ oldest # {}
  BY CSimAssumption DEF Slots
<1>4. PICK k \in oldest : \A j \in oldest : k <= j
  <2>. HIDE DEF oldest
  <2>. QED  BY <1>3, LeastNat
<1>5. \A j \in Slots : s[k].LRU < s[j].LRU \/ (s[k].LRU = s[j].LRU /\ k <= j)
  <2>. SUFFICES ASSUME NEW j \in Slots
                PROVE  s[k].LRU < s[j].LRU \/ (s[k].LRU = s[j].LRU /\ k <= j)
    OBVIOUS
  <2>1. s[k].LRU = age /\ age <= s[j].LRU
    BY <1>2, <1>4
  <2>2. age \in Nat /\ s[j].LRU \in Nat
    BY <1>1
  <2>3. CASE s[j].LRU = age
    BY <2>1, <2>3, <1>4
  <2>. QED  BY <2>1, <2>2, <2>3
<1>. DEFINE First(i) == \A j \in Slots : s[i].LRU < s[j].LRU \/ (s[i].LRU = s[j].LRU /\ i <= j)
<1>6. PICK e \in Slots : e = ToEvict(s) /\ First(e)
  <2>1. \E i \in Slots : First(i)
    BY <1>4, <1>5
  <2>2. ToEvict(s) = CHOOSE i \in Slots : First(i)
    BY DEF ToEvict
  <2>. HIDE DEF First
  <2>. QED  BY <2>1, <2>2, Zenon
<1>7. \A j \in Slots : s[j].LRU \in Nat
  BY CSimAssumption DEF CacheSet, CacheLine
<1>. QED  BY <1>6, <1>7

(* The slot of a hit.                                                      *)
LEMMA HitSlot ==
  ASSUME NEW s \in CacheSet, NEW tag, Matches(s, tag) # {}
  PROVE  (CHOOSE k \in Matches(s, tag) : \A j \in Matches(s, tag) : k <= j)
           \in Matches(s, tag)
<1>1. Matches(s, tag) \in SUBSET Nat
  BY CSimAssumption DEF Matches, Slots
<1>2. \E k \in Matches(s, tag) : \A j \in Matches(s, tag) : k <= j
  BY <1>1, LeastNat
<1>. QED  BY <1>2

-----------------------------------------------------------------------------
(* What access_data returns and leaves behind.                             *)
LEMMA Access ==
  ASSUME NEW s \in CacheSet, NEW tag \in Tags
  PROVE  LET a == access_data(s, tag) IN
         /\ a.line \in Slots /\ a.set \in CacheSet
         /\ a.set[a.line].valid = 1 /\ a.set[a.line].tag = tag
         /\ a.set[a.line].LRU = s[a.line].LRU
         /\ \A k \in Slots \ {a.line} : a.set[k] = s[k]
         /\ IF Matches(s, tag) # {}
            THEN a.result = 0 /\ a.set = s
            ELSE /\ a.result = IF s[a.line].LRU = 0 THEN 1 ELSE -1
                 /\ \A k \in Slots : s[a.line].LRU <= s[k].LRU
<1>1. CASE Matches(s, tag) # {}
  <2>. DEFINE k == CHOOSE k \in Matches(s, tag) : \A j \in Matches(s, tag) : k <= j
  <2>1. k \in Matches(s, tag)
    BY <1>1, HitSlot
  <2>2. access_data(s, tag) = [result |-> 0, set |-> s, line |-> k]
    BY <1>1 DEF access_data
  <2>. HIDE DEF k
  <2>3. k \in Slots /\ s[k].valid = 1 /\ s[k].tag = tag
    BY <2>1 DEF Matches
  <2>4. /\ access_data(s, tag).result = 0 /\ access_data(s, tag).set = s
        /\ access_data(s, tag).line = k
    BY <2>2
  <2>. QED  BY <1>1, <2>3, <2>4
<1>2. CASE Matches(s, tag) = {}
  <2>. DEFINE k == ToEvict(s)
              t == [s EXCEPT ![k].valid = 1, ![k].tag = tag]
  <2>1. k \in Slots /\ \A j \in Slots : s[k].LRU <= s[j].LRU
    BY ToEvictSlot
  <2>2. access_data(s, tag) =
          [result |-> IF s[k].LRU = 0 THEN 1 ELSE -1, set |-> t, line |-> k]
    BY <1>2 DEF access_data
  <2>. HIDE DEF k
  <2>3. /\ t \in CacheSet
        /\ t[k].valid = 1 /\ t[k].tag = tag /\ t[k].LRU = s[k].LRU
        /\ \A j \in Slots \ {k} : t[j] = s[j]
    BY <2>1 DEF CacheSet, CacheLine, Tags
  <2>. HIDE DEF t
  <2>4. /\ access_data(s, tag).result = IF s[k].LRU = 0 THEN 1 ELSE -1
        /\ access_data(s, tag).set = t /\ access_data(s, tag).line = k
    BY <2>2
  <2>. QED  BY <1>2, <2>1, <2>3, <2>4
<1>. QED  BY <1>1, <1>2

(* The second access of a modify is a hit on the same line.                *)
LEMMA SecondAccess ==
  ASSUME NEW s \in CacheSet, NEW tag \in Tags, NEW n, SetSound(s, n)
  PROVE  LET a == access_data(s, tag)
             b == access_data(a.set, tag)
         IN  b.result = 0 /\ b.set = a.set /\ b.line = a.line
<1>. DEFINE a == access_data(s, tag)
<1>1. /\ a.line \in Slots /\ a.set \in CacheSet
      /\ a.set[a.line].valid = 1 /\ a.set[a.line].tag = tag
      /\ \A k \in Slots \ {a.line} : a.set[k] = s[k]
      /\ Matches(s, tag) # {} => a.set = s
  BY Access
<1>. HIDE DEF a
<1>2. Matches(a.set, tag) = {a.line}
  <2>1. a.line \in Matches(a.set, tag)
    BY <1>1 DEF Matches
  <2>2. ASSUME NEW k \in Matches(a.set, tag), k # a.line
        PROVE  FALSE
    <3>1. k \in Matches(s, tag) /\ a.set = s
      BY <1>1, <2>2 DEF Matches
    <3>. QED  BY <1>1, <2>1, <2>2, <3>1 DEF Matches, SetSound
  <2>. QED  BY <2>1, <2>2
<1>3. access_data(a.set, tag).line = a.line
  <2>1. (CHOOSE k \in Matches(a.set, tag) : \A j \in Matches(a.set, tag) : k <= j)
          \in Matches(a.set, tag)
    BY <1>1, <1>2, HitSlot
  <2>. QED  BY <1>2, <2>1 DEF access_data
<1>. QED  BY <1>2, <1>3 DEF access_data, a

(* The stamp keeps the set sound.                                          *)
LEMMA StampSound ==
  ASSUME NEW s \in CacheSet, NEW tag \in Tags, NEW n \in Nat, n + 1 < UINT_MOD,
         SetSound(s, n)
  PROVE  LET a == access_data(s, tag)
             t == Stamp(a.set, a.line, n + 1)
         IN  /\ t \in CacheSet /\ SetSound(t, n + 1)
             /\ t[a.line].valid = 1
             /\ \A k \in Slots \ {a.line} : t[k] = s[k]
<1>. DEFINE a == access_data(s, tag)
            t == Stamp(a.set, a.line, n + 1)
<1>1. /\ a.line \in Slots /\ a.set \in CacheSet
      /\ a.set[a.line].valid = 1 /\ a.set[a.line].tag = tag
      /\ \A k \in Slots \ {a.line} : a.set[k] = s[k]
      /\ Matches(s, tag) # {} => a.set = s
  BY Access
<1>. HIDE DEF a
<1>2. n + 1 \in Tags /\ n + 1 # 0
  BY CSimAssumption DEF Tags
<1>3. /\ t \in CacheSet
      /\ t[a.line].valid = 1 /\ t[a.line].tag = tag /\ t[a.line].LRU = n + 1
      /\ \A k \in Slots \ {a.line} : t[k] = s[k]
  BY <1>1, <1>2 DEF Stamp, CacheSet, CacheLine, Tags
<1>. HIDE DEF t
<1>4. \A k \in Slots : s[k].LRU \in Nat /\ s[k].valid \in {0, 1}
  BY CSimAssumption DEF CacheSet, CacheLine
<1>5. ASSUME NEW k \in Slots \ {a.line}, s[k].valid = 1
      PROVE  s[k].tag # tag /\ s[k].LRU < n + 1
  <2>1. s[k].LRU <= n
    BY <1>5 DEF SetSound
  <2>2. s[k].tag # tag
    <3>. SUFFICES ASSUME s[k].tag = tag
                  PROVE  FALSE
      OBVIOUS
    <3>1. k \in Matches(s, tag)
      BY <1>5 DEF Matches
    <3>2. s[a.line].valid = 1 /\ s[a.line].tag = tag
      BY <1>1, <3>1
    <3>. QED  BY <1>1, <1>5, <3>2 DEF SetSound
  <2>. QED  BY <1>4, <2>1, <2>2
<1>6. \A k \in Slots : t[k].LRU = 0 <=> t[k].valid = 0
  <2>. SUFFICES ASSUME NEW k \in Slots
                PROVE  t[k].LRU = 0 <=> t[k].valid = 0
    OBVIOUS
  <2>1. CASE k = a.line
    BY <1>2, <1>3, <2>1
  <2>2. CASE k # a.line
    BY <1>3, <2>2 DEF SetSound
  <2>. QED  BY <2>1, <2>2
<1>7. ASSUME NEW k \in Slots, t[k].valid = 1
      PROVE  /\ t[k].LRU <= n + 1
             /\ \A j \in Slots \ {k} : t[j].valid = 1 =>
                  t[j].tag # t[k].tag /\ t[j].LRU # t[k].LRU
  <2>1. CASE k = a.line
    BY <1>3, <1>4, <1>5, <2>1
  <2>2. CASE k # a.line
    <3>1. t[k] = s[k] /\ s[k].LRU < n + 1 /\ s[k].tag # tag
      BY <1>3, <1>5, <1>7, <2>2
    <3>2. ASSUME NEW j \in Slots \ {k}, t[j].valid = 1
          PROVE  t[j].tag # t[k].tag /\ t[j].LRU # t[k].LRU
      <4>1. CASE j = a.line
        BY <1>3, <1>4, <3>1, <4>1
      <4>2. CASE j # a.line
        <5>1. t[j] = s[j]
          BY <1>3, <4>2
        <5>. QED  BY <1>7, <3>1, <3>2, <5>1 DEF SetSound
      <4>. QED  BY <4>1, <4>2
    <3>. QED  BY <1>4, <3>1, <3>2
  <2>. QED  BY <2>1, <2>2
<1>. QED  BY <1>3, <1>6, <1>7 DEF SetSound, a, t

-----------------------------------------------------------------------------
Short == MaxLines < UINT_MOD

(* What a line of the trace that accesses the cache does, whichever letter *)
(* it starts with: one of the block's accesses finds out whether it is     *)
(* there, the second one of a modify is a hit.                             *)
Accessed(index, a) ==
  /\ lines < MaxLines /\ lines' = lines + 1 /\ instruction_count' = lines + 1
  /\ cache' = [cache EXCEPT ![index] = Stamp(a.set, a.line, lines + 1)]
  /\ hits' \in Counter
  /\ \E m \in {1, 2} : hits' = (hits + (m - (1 - IsHit(a)))) % UINT_MOD
  /\ misses' = misses + (1 - IsHit(a))
  /\ evictions' = evictions + IsEviction(a)

(* ReadLine does not wrap the instruction counter in a short trace.        *)
LEMMA CountsUp ==
  ASSUME Short, IInv, ReadLine
  PROVE  /\ lines \in Nat /\ lines + 1 < UINT_MOD
         /\ lines' = lines + 1 /\ instruction_count' = lines + 1
BY CSimAssumption DEF Short, IInv, TypeOK, ReadLine, Inc

(* Every access is either a hit, a miss, or a miss with an eviction.       *)
LEMMA Verdicts ==
  ASSUME NEW s \in CacheSet, NEW tag \in Tags
  PROVE  LET a == access_data(s, tag)
         IN  <<IsHit(a), IsEviction(a)>> \in {<<1, 0>>, <<0, 0>>, <<0, 1>>}
<1>. DEFINE a == access_data(s, tag)
<1>1. a.result \in {0, 1, -1}
  BY Access
<1>. HIDE DEF a
<1>2. <<IsHit(a), IsEviction(a)>> \in {<<1, 0>>, <<0, 0>>, <<0, 1>>}
  BY <1>1 DEF IsHit, IsEviction
<1>. QED  BY <1>2 DEF a

(* The tag computed for a block is one a line can hold.                    *)
LEMMA TagType ==
  ASSUME NEW block \in Blocks
  PROVE  parse_tag(block) \in Tags
BY CSimAssumption DEF parse_tag, Tags

(* LoadOrStore and Modify are both Accessed.                               *)
LEMMA BothAccess ==
  ASSUME Short, IInv, NEW index \in Indices, NEW block \in Blocks,
         LoadOrStore(index, block) \/ Modify(index, block)
  PROVE  Accessed(index, access_data(cache[index], parse_tag(block)))
<1>1. PICK tag \in Tags : tag = parse_tag(block)
  BY TagType
<1>2. PICK s \in CacheSet : s = cache[index]
  BY DEF IInv, TypeOK, CacheSet
<1>3. SetSound(s, lines)
  BY <1>2 DEF IInv, ZeroMeansEmpty, OrderSound, SetSound
<1>. DEFINE a == access_data(s, tag)
            b == access_data(a.set, tag)
<1>4. b.result = 0 /\ b.set = a.set /\ b.line = a.line
  BY <1>3, SecondAccess
<1>5. IsHit(b) = 1 /\ IsEviction(b) = 0
  BY <1>4 DEF IsHit, IsEviction
<1>6. PICK h, e : h = IsHit(a) /\ e = IsEviction(a)
                  /\ <<h, e>> \in {<<1, 0>>, <<0, 0>>, <<0, 1>>}
  BY Verdicts
<1>. HIDE DEF a, b
<1>7. ReadLine
  BY DEF LoadOrStore, Modify
<1>8. /\ cache' = [cache EXCEPT ![index] = Stamp(a.set, a.line, lines + 1)]
      /\ Counted(1, h, e) \/ Counted(2, h + 1, e)
  <2>1. CASE LoadOrStore(index, block)
    BY <1>1, <1>2, <1>6, <1>7, <2>1, CountsUp DEF LoadOrStore, a
  <2>2. CASE Modify(index, block)
    <3>1. /\ Counted(2, IsHit(a) + IsHit(b), IsEviction(a) + IsEviction(b))
          /\ cache' = [cache EXCEPT ![index] = Stamp(b.set, b.line, instruction_count')]
      BY <1>1, <1>2, <2>2 DEF Modify, a, b
    <3>2. IsHit(a) + IsHit(b) = h + 1 /\ IsEviction(a) + IsEviction(b) = e
      BY <1>5, <1>6
    <3>. QED  BY <1>4, <1>7, <3>1, <3>2, CountsUp
  <2>. QED  BY <2>1, <2>2
<1>9. hits' \in Counter /\ (\E m \in {1, 2} : hits' = (hits + (m - (1 - h))) % UINT_MOD)
      /\ misses' = misses + (1 - h) /\ evictions' = evictions + e
  <2>1. /\ hits \in Nat /\ misses \in Nat /\ evictions \in Nat
        /\ misses <= lines /\ evictions <= lines
        /\ lines \in Nat /\ lines + 1 < UINT_MOD
    BY <1>7, CountsUp, CSimAssumption DEF IInv, TypeOK, Counter
  <2>2. h \in {0, 1} /\ e \in {0, 1}
    BY <1>6
  <2>3. hits' \in Counter
    BY <1>8, <2>1, <2>2, CSimAssumption DEF Counted, Counter
  <2>6. \E m \in {1, 2} : hits' = (hits + (m - (1 - h))) % UINT_MOD
    <3>1. h = 1 - (1 - h) /\ h + 1 = 2 - (1 - h)
      BY <2>2
    <3>. QED  BY <1>8, <3>1 DEF Counted
  <2>4. misses' = (misses + (1 - h)) % UINT_MOD
    BY <1>8, <2>1, <2>2 DEF Counted
  <2>5. evictions' = (evictions + e) % UINT_MOD
    BY <1>8 DEF Counted
  <2>. QED  BY <2>1, <2>2, <2>3, <2>4, <2>5, <2>6, CSimAssumption
<1>. QED  BY <1>1, <1>2, <1>6, <1>7, <1>8, <1>9, CountsUp DEF Accessed, ReadLine, a

-----------------------------------------------------------------------------
(* The lines that hold a block are finitely many.                          *)
LEMMA FiniteLines ==
  IsFiniteSet(ValidLines)
<1>1. IsFiniteSet(Indices) /\ IsFiniteSet(Slots)
  BY FS_Interval, CSimAssumption DEF Indices, Slots
<1>2. IsFiniteSet(Indices \X Slots)
  BY <1>1, FS_Product
<1>. QED  BY <1>2, FS_Subset DEF ValidLines

(* The invariant holds of the empty cache.                                 *)
LEMMA InitIInv ==
  Init => IInv
<1>. SUFFICES ASSUME Init
              PROVE  IInv
  OBVIOUS
<1>1. TypeOK
  BY CSimAssumption DEF Init, TypeOK, initCache, CacheLine, Counter
<1>2. ZeroMeansEmpty /\ OrderSound
  BY DEF Init, initCache, ZeroMeansEmpty, OrderSound
<1>3. ValidLines = {}
  BY DEF Init, initCache, ValidLines
<1>4. Conserved
  BY <1>3, FS_EmptySet DEF Init, Conserved
<1>. QED  BY <1>1, <1>2, <1>4 DEF IInv, Init

(* A line that accesses the cache keeps the invariant.                     *)
LEMMA AccessKeeps ==
  ASSUME Short, IInv, NEW index \in Indices, NEW tag \in Tags,
         Accessed(index, access_data(cache[index], tag))
  PROVE  IInv'
<1>1. PICK s \in CacheSet : s = cache[index]
  BY DEF IInv, TypeOK, CacheSet
<1>2. PICK n \in Nat : n = lines /\ n + 1 < UINT_MOD /\ n < MaxLines
  BY CSimAssumption DEF Short, IInv, TypeOK, Accessed
<1>3. SetSound(s, n)
  BY <1>1, <1>2 DEF IInv, ZeroMeansEmpty, OrderSound, SetSound
<1>. DEFINE a == access_data(s, tag)
            t == Stamp(a.set, a.line, n + 1)
<1>4. /\ t \in CacheSet /\ SetSound(t, n + 1) /\ t[a.line].valid = 1
      /\ \A k \in Slots \ {a.line} : t[k] = s[k]
  BY <1>2, <1>3, StampSound
<1>5. /\ a.line \in Slots
      /\ IF Matches(s, tag) # {}
         THEN a.result = 0 /\ a.set = s
         ELSE a.result = IF s[a.line].LRU = 0 THEN 1 ELSE -1
      /\ a.set[a.line].valid = 1
  BY Access
<1>6. PICK h, e : h = IsHit(a) /\ e = IsEviction(a)
                  /\ <<h, e>> \in {<<1, 0>>, <<0, 0>>, <<0, 1>>}
  BY Verdicts
<1>7. /\ lines' = n + 1 /\ instruction_count' = n + 1
      /\ cache' = [cache EXCEPT ![index] = t]
      /\ hits' \in Counter /\ misses' = misses + (1 - h) /\ evictions' = evictions + e
  BY <1>1, <1>2, <1>6 DEF Accessed
<1>8. h = 0 /\ e = 0 <=> s[a.line].valid = 0
  BY <1>3, <1>5, <1>6 DEF IsHit, IsEviction, SetSound
<1>. HIDE DEF a, t
<1>9. misses \in Nat /\ evictions \in Nat /\ misses <= n /\ evictions <= n
      /\ h \in {0, 1} /\ e \in {0, 1} /\ UINT_MOD \in Nat /\ MaxLines \in Nat
  BY <1>2, <1>6, CSimAssumption DEF IInv, TypeOK, Counter
<1>10. misses' <= lines' /\ evictions' <= lines' /\ instruction_count' = lines'
  BY <1>7, <1>9
<1>11. /\ cache' \in [Indices -> CacheSet]
       /\ cache'[index] = t
       /\ \A i \in Indices \ {index} : cache'[i] = cache[i]
  BY <1>4, <1>7 DEF IInv, TypeOK, CacheSet
<1>12. TypeOK'
  BY <1>2, <1>7, <1>9, <1>11 DEF TypeOK, Counter, CacheSet
<1>13. \A i \in Indices : SetSound(cache'[i], n + 1)
  <2>. SUFFICES ASSUME NEW i \in Indices
                PROVE  SetSound(cache'[i], n + 1)
    OBVIOUS
  <2>1. CASE i = index
    BY <1>4, <1>11, <2>1
  <2>2. CASE i # index
    <3>1. cache'[i] = cache[i] /\ cache[i] \in CacheSet
      BY <1>11, <2>2 DEF IInv, TypeOK, CacheSet
    <3>2. \A k \in Slots : cache[i][k].LRU \in Nat
      BY <3>1, CSimAssumption DEF CacheSet, CacheLine
    <3>3. SetSound(cache[i], n)
      BY <1>2 DEF IInv, ZeroMeansEmpty, OrderSound, SetSound
    <3>. QED  BY <3>1, <3>2, <3>3 DEF SetSound
  <2>. QED  BY <2>1, <2>2
<1>14. ZeroMeansEmpty' /\ OrderSound'
  BY <1>7, <1>13 DEF ZeroMeansEmpty, OrderSound, SetSound
<1>15. Conserved'
  <2>1. ValidLines' = ValidLines \union {<<index, a.line>>}
    <3>1. ASSUME NEW i \in Indices, NEW k \in Slots
          PROVE  cache'[i][k].valid = 1 <=> cache[i][k].valid = 1 \/ (i = index /\ k = a.line)
      BY <1>1, <1>4, <1>11
    <3>. QED  BY <1>5, <3>1 DEF ValidLines
  <2>2. IsFiniteSet(ValidLines)
    BY FiniteLines
  <2>3. Cardinality(ValidLines) \in Nat
    BY <2>2, FS_CardinalityType
  <2>4. Cardinality(ValidLines') =
          IF <<index, a.line>> \in ValidLines
          THEN Cardinality(ValidLines) ELSE Cardinality(ValidLines) + 1
    BY <2>1, <2>2, FS_AddElement
  <2>5. <<index, a.line>> \in ValidLines <=> ~ (h = 0 /\ e = 0)
    <3>1. s[a.line].valid \in {0, 1}
      BY <1>5 DEF CacheSet, CacheLine
    <3>. QED  BY <1>1, <1>5, <1>8, <3>1 DEF ValidLines
  <2>6. misses - evictions = Cardinality(ValidLines)
    BY DEF IInv, Conserved
  <2>7. misses' - evictions' = (misses - evictions) + ((1 - h) - e)
    BY <1>7, <1>9
  <2>8. (1 - h) - e = IF h = 0 /\ e = 0 THEN 1 ELSE 0
    BY <1>6
  <2>9. misses' - evictions' = Cardinality(ValidLines')
    BY <2>3, <2>4, <2>5, <2>6, <2>7, <2>8
  <2>. QED  BY <2>9 DEF Conserved
<1>. QED  BY <1>10, <1>12, <1>14, <1>15 DEF IInv

(* A line that is only counted keeps the invariant.                        *)
LEMMA IgnoredKeeps ==
  ASSUME Short, IInv, Ignored
  PROVE  IInv'
<1>1. /\ lines \in Nat /\ lines + 1 < UINT_MOD
      /\ lines' = lines + 1 /\ instruction_count' = lines + 1
  BY CountsUp DEF Ignored
<1>2. UNCHANGED <<cache, hits, misses, evictions>> /\ lines < MaxLines
  BY DEF Ignored, counters, ReadLine
<1>3. TypeOK'
  BY <1>1, <1>2, CSimAssumption DEF IInv, TypeOK, Counter
<1>4. ZeroMeansEmpty' /\ Conserved'
  BY <1>2 DEF IInv, ZeroMeansEmpty, Conserved, ValidLines
<1>5. OrderSound'
  <2>1. \A i \in Indices, k \in Slots : cache[i][k].LRU \in Nat
    BY CSimAssumption DEF IInv, TypeOK, CacheLine
  <2>. QED  BY <1>1, <1>2, <2>1 DEF IInv, OrderSound
<1>6. instruction_count' = lines' /\ misses' <= lines' /\ evictions' <= lines'
  BY <1>1, <1>2, CSimAssumption DEF IInv, TypeOK, Counter
<1>. QED  BY <1>3, <1>4, <1>5, <1>6 DEF IInv

(* The invariant of the simulator holds throughout a short trace.          *)
THEOREM Invariance ==
  ASSUME Short
  PROVE  Spec => []IInv
<1>1. IInv /\ [Next]_vars => IInv'
  <2>. SUFFICES ASSUME IInv, [Next]_vars
                PROVE  IInv'
    OBVIOUS
  <2>1. ASSUME NEW index \in Indices, NEW block \in Blocks,
               LoadOrStore(index, block) \/ Modify(index, block)
        PROVE  IInv'
    BY <2>1, BothAccess, TagType, AccessKeeps
  <2>2. CASE Ignored
    BY <2>2, IgnoredKeeps
  <2>3. CASE UNCHANGED vars
    BY <2>3 DEF vars, counters, IInv, TypeOK, Counter, ZeroMeansEmpty, OrderSound,
                Conserved, ValidLines
  <2>. QED  BY <2>1, <2>2, <2>3 DEF Next
<1>. QED  BY <1>1, InitIInv, PTL DEF Spec

(* In a trace of fewer than UINT_MOD lines an LRU of 0 means what csim.c   *)
(* says it means: the line is empty.                                       *)
THEOREM EmptyLines ==
  ASSUME Short
  PROVE  Spec => []ZeroMeansEmpty
<1>1. IInv => ZeroMeansEmpty
  BY DEF IInv
<1>. QED  BY <1>1, Invariance, PTL

(* The lowest LRU of a full set is its least recently used line: stamps    *)
(* are distinct, none lies ahead, and no block has two lines.              *)
THEOREM LRUOrder ==
  ASSUME Short
  PROVE  Spec => []OrderSound
<1>1. IInv => OrderSound
  BY DEF IInv
<1>. QED  BY <1>1, Invariance, PTL

(* Misses less evictions are the lines that hold a block.                  *)
THEOREM Conservation ==
  ASSUME Short
  PROVE  Spec => []Conserved
<1>1. IInv => Conserved
  BY DEF IInv
<1>. QED  BY <1>1, Invariance, PTL

(* An access leaves the set of its block well typed, stamped or not.       *)
LEMMA AccessTyped ==
  ASSUME TypeOK, NEW index \in Indices, NEW s \in CacheSet, NEW tag \in Tags,
         NEW n \in Tags
  PROVE  LET a == access_data(s, tag)
         IN  /\ a.set \in CacheSet
             /\ [cache EXCEPT ![index] = Stamp(a.set, a.line, n)]
                  \in [Indices -> [Slots -> CacheLine]]
<1>. DEFINE a == access_data(s, tag)
<1>1. a.line \in Slots /\ a.set \in CacheSet
  BY Access
<1>. HIDE DEF a
<1>2. Stamp(a.set, a.line, n) \in CacheSet
  BY <1>1 DEF Stamp, CacheSet, CacheLine, Tags
<1>. QED  BY <1>1, <1>2 DEF TypeOK, CacheSet, a

(* Counters wrap around inside their C type.                               *)
LEMMA CountersTyped ==
  ASSUME TypeOK, NEW n \in Int, NEW h \in Int, NEW e \in Int, Counted(n, h, e)
  PROVE  hits' \in Counter /\ misses' \in Counter /\ evictions' \in Counter
BY CSimAssumption DEF TypeOK, Counted, Counter

(* Whatever the length of the trace, every variable keeps its C type.      *)
THEOREM TypeCorrect == Spec => []TypeOK
<1>1. Init => TypeOK
  BY CSimAssumption DEF Init, TypeOK, initCache, CacheLine, Counter
<1>2. TypeOK /\ [Next]_vars => TypeOK'
  <2>. SUFFICES ASSUME TypeOK, [Next]_vars
                PROVE  TypeOK'
    OBVIOUS
  <2>1. ASSUME ReadLine
        PROVE  /\ instruction_count' \in Counter /\ instruction_count' \in Tags
               /\ lines' \in 0 .. MaxLines
    BY <2>1, CSimAssumption DEF ReadLine, Inc, TypeOK, Counter, Tags
  <2>2. ASSUME NEW index \in Indices, NEW block \in Blocks, LoadOrStore(index, block)
        PROVE  TypeOK'
    <3>1. PICK s \in CacheSet : s = cache[index]
      BY DEF TypeOK, CacheSet
    <3>2. PICK tag \in Tags : tag = parse_tag(block)
      BY TagType
    <3>. DEFINE a == access_data(s, tag)
    <3>3. ReadLine /\ Counted(1, IsHit(a), IsEviction(a))
          /\ cache' = [cache EXCEPT ![index] = Stamp(a.set, a.line, instruction_count')]
      BY <2>2, <3>1, <3>2 DEF LoadOrStore
    <3>4. IsHit(a) \in Int /\ IsEviction(a) \in Int
      BY DEF IsHit, IsEviction
    <3>5. cache' \in [Indices -> [Slots -> CacheLine]]
      BY <2>1, <3>3, AccessTyped
    <3>. HIDE DEF a
    <3>. QED  BY <2>1, <3>3, <3>4, <3>5, CountersTyped DEF TypeOK
  <2>3. ASSUME NEW index \in Indices, NEW block \in Blocks, Modify(index, block)
        PROVE  TypeOK'
    <3>1. PICK s \in CacheSet : s = cache[index]
      BY DEF TypeOK, CacheSet
    <3>2. PICK tag \in Tags : tag = parse_tag(block)
      BY TagType
    <3>. DEFINE a == access_data(s, tag)
                b == access_data(a.set, tag)
                h == IsHit(a) + IsHit(b)
                e == IsEviction(a) + IsEviction(b)
    <3>3. ReadLine /\ Counted(2, h, e)
          /\ cache' = [cache EXCEPT ![index] = Stamp(b.set, b.line, instruction_count')]
      BY <2>3, <3>1, <3>2 DEF Modify
    <3>4. h \in Int /\ e \in Int
      BY DEF IsHit, IsEviction
    <3>5. a.set \in CacheSet
      BY Access
    <3>6. cache' \in [Indices -> [Slots -> CacheLine]]
      <4>. HIDE DEF a
      <4>. QED  BY <2>1, <3>3, <3>5, AccessTyped
    <3>. HIDE DEF h, e
    <3>. QED  BY <2>1, <3>3, <3>4, <3>6, CountersTyped DEF TypeOK
  <2>4. CASE Ignored
    BY <2>1, <2>4 DEF Ignored, counters, TypeOK
  <2>5. CASE UNCHANGED vars
    BY <2>5 DEF vars, counters, TypeOK
  <2>. QED  BY <2>2, <2>3, <2>4, <2>5 DEF Next
<1>. QED  BY <1>1, <1>2, PTL DEF Spec

-----------------------------------------------------------------------------
(* The refinement of LRUCache, first for one set.                          *)
ValidSlots(s) == {k \in Slots : s[k].valid = 1}

(* The tags of the other lines.                                            *)
Rest(s, l) == {s[k].tag : k \in ValidSlots(s) \ {l}}

StaysIn(s, x) ==
  IF x \notin Held(s) /\ Cardinality(Held(s)) = num_E
  THEN Held(s) \ {y \in Held(s) : \A z \in Held(s) : <<z, y>> \notin Older(s)}
  ELSE Held(s) \ {x}

(* A set is full when all its lines are valid.                             *)
LEMMA FullSet ==
  ASSUME NEW s \in CacheSet, NEW n, SetSound(s, n)
  PROVE  Cardinality(Held(s)) = num_E <=> ValidSlots(s) = Slots
<1>. DEFINE V == ValidSlots(s)
            f == [k \in V |-> s[k].tag]
<1>1. IsFiniteSet(Slots) /\ Cardinality(Slots) = num_E
  BY FS_Interval, CSimAssumption DEF Slots
<1>2. V \subseteq Slots /\ IsFiniteSet(V)
  BY <1>1, FS_Subset DEF ValidSlots
<1>3. f \in Bijection(V, Held(s))
  <2>1. f \in [V -> Held(s)]
    BY DEF Held, ValidSlots
  <2>2. \A j, k \in V : f[j] = f[k] => j = k
    BY DEF SetSound, ValidSlots
  <2>3. \A y \in Held(s) : \E k \in V : f[k] = y
    BY DEF Held, ValidSlots
  <2>. QED  BY <2>1, <2>2, <2>3 DEF Bijection, Injection, Surjection, IsInjective
<1>4. Cardinality(Held(s)) = Cardinality(V)
  BY <1>2, <1>3, FS_Bijection DEF ExistsBijection
<1>5. Cardinality(V) = Cardinality(Slots) <=> V = Slots
  BY <1>1, <1>2, FS_Subset
<1>. QED  BY <1>1, <1>4, <1>5

(* Two valid lines of one tag are one line.                                *)
LEMMA OneLine ==
  ASSUME NEW s, NEW n, SetSound(s, n), NEW j \in ValidSlots(s), NEW k \in ValidSlots(s),
         s[j].tag = s[k].tag
  PROVE  j = k
BY DEF SetSound, ValidSlots

(* A miss is an eviction when the set is full.                             *)
LEMMA EvictsWhenFull ==
  ASSUME NEW s \in CacheSet, NEW n, SetSound(s, n), NEW k \in Slots,
         \A j \in Slots : s[k].LRU <= s[j].LRU
  PROVE  s[k].LRU # 0 <=> ValidSlots(s) = Slots
<1>1. \A j \in Slots : s[j].LRU \in Nat /\ s[j].valid \in {0, 1}
  BY CSimAssumption DEF CacheSet, CacheLine
<1>2. \A j \in Slots : s[j].LRU = 0 <=> s[j].valid = 0
  BY DEF SetSound
<1>. QED  BY <1>1, <1>2 DEF ValidSlots

(* The blocks that stay are those of the other lines.                      *)
LEMMA StayingLines ==
  ASSUME NEW s \in CacheSet, NEW tag \in Tags, NEW n \in Nat, SetSound(s, n)
  PROVE  StaysIn(s, tag) = Rest(s, access_data(s, tag).line)
<1>. DEFINE a == access_data(s, tag)
<1>1. PICK l \in Slots : /\ l = a.line
                         /\ Matches(s, tag) # {} => s[l].valid = 1 /\ s[l].tag = tag
                         /\ Matches(s, tag) = {} => \A k \in Slots : s[l].LRU <= s[k].LRU
  BY Access
<1>. HIDE DEF a
<1>2. tag \in Held(s) <=> Matches(s, tag) # {}
  BY DEF Held, Matches
<1>3. \A k \in Slots : s[k].LRU \in Nat /\ s[k].valid \in {0, 1}
  BY CSimAssumption DEF CacheSet, CacheLine
<1>4. Held(s) = {s[k].tag : k \in ValidSlots(s)}
  BY DEF Held, ValidSlots
<1>5. CASE Matches(s, tag) # {}
  <2>1. StaysIn(s, tag) = Held(s) \ {tag} /\ l \in ValidSlots(s) /\ s[l].tag = tag
    BY <1>1, <1>2, <1>5 DEF StaysIn, ValidSlots
  <2>. QED  BY <1>1, <1>4, <2>1, OneLine DEF Rest, a
<1>6. CASE Matches(s, tag) = {} /\ ValidSlots(s) # Slots
  <2>1. l \notin ValidSlots(s)
    BY <1>1, <1>6, EvictsWhenFull DEF SetSound, ValidSlots
  <2>2. StaysIn(s, tag) = Held(s) \ {tag} /\ tag \notin Held(s)
    BY <1>2, <1>6, FullSet DEF StaysIn
  <2>. QED  BY <1>1, <1>4, <2>1, <2>2 DEF Rest, a
<1>7. CASE Matches(s, tag) = {} /\ ValidSlots(s) = Slots
  <2>. DEFINE least == {y \in Held(s) : \A z \in Held(s) : <<z, y>> \notin Older(s)}
  <2>1. StaysIn(s, tag) = Held(s) \ least
    BY <1>2, <1>7, FullSet DEF StaysIn
  <2>2. \A k \in Slots \ {l} : s[l].LRU < s[k].LRU
    BY <1>1, <1>3, <1>7 DEF SetSound, ValidSlots
  <2>3. ASSUME NEW k \in Slots
        PROVE  s[k].tag \in least <=> k = l
    <3>1. ASSUME k # l
          PROVE  <<s[l].tag, s[k].tag>> \in Older(s)
      <4>1. <<l, k>> \in Slots \X Slots /\ s[l].valid = 1 /\ s[k].valid = 1 /\ s[l].LRU < s[k].LRU
        BY <1>7, <2>2, <3>1 DEF ValidSlots
      <4>. QED  BY <4>1 DEF Older
    <3>2. ASSUME NEW z, <<z, s[l].tag>> \in Older(s)
          PROVE  FALSE
      <4>1. PICK i \in ValidSlots(s), j \in ValidSlots(s) :
              s[i].LRU < s[j].LRU /\ s[j].tag = s[l].tag
        BY <3>2 DEF Older, ValidSlots
      <4>2. j = l
        BY <1>7, <4>1, OneLine
      <4>. QED  BY <1>1, <1>3, <1>7, <4>1, <4>2
    <3>3. s[l].tag \in Held(s) /\ s[k].tag \in Held(s)
      BY <1>4, <1>7
    <3>. QED  BY <3>1, <3>2, <3>3
  <2>. HIDE DEF least
  <2>. QED  BY <1>1, <1>4, <1>7, <2>1, <2>3 DEF Rest, a
<1>. QED  BY <1>5, <1>6, <1>7

(* The pairs of Older.                                                     *)
LEMMA OlderPair ==
  ASSUME NEW u, NEW x, NEW y
  PROVE  <<x, y>> \in Older(u) <=>
           \E j, k \in ValidSlots(u) : x = u[j].tag /\ y = u[k].tag /\ u[j].LRU < u[k].LRU
<1>1. ASSUME <<x, y>> \in Older(u)
      PROVE  \E j, k \in ValidSlots(u) : x = u[j].tag /\ y = u[k].tag /\ u[j].LRU < u[k].LRU
  <2>1. PICK p \in Slots \X Slots : /\ u[p[1]].valid = 1 /\ u[p[2]].valid = 1
                                    /\ u[p[1]].LRU < u[p[2]].LRU
                                    /\ <<x, y>> = <<u[p[1]].tag, u[p[2]].tag>>
    BY <1>1 DEF Older
  <2>. QED  BY <2>1 DEF ValidSlots
<1>2. ASSUME NEW j \in ValidSlots(u), NEW k \in ValidSlots(u), u[j].LRU < u[k].LRU
      PROVE  <<u[j].tag, u[k].tag>> \in Older(u)
  <2>1. PICK p \in Slots \X Slots : p[1] = j /\ p[2] = k
    <3>1. <<j, k>> \in Slots \X Slots
      BY DEF ValidSlots
    <3>. QED  BY <3>1
  <2>. QED  BY <1>2, <2>1 DEF Older, ValidSlots
<1>. QED  BY <1>1, <1>2

(* The stamp makes the line the last one used.                             *)
LEMMA StampedSet ==
  ASSUME NEW s \in CacheSet, NEW tag \in Tags, NEW n \in Nat, n + 1 < UINT_MOD, SetSound(s, n)
  PROVE  LET a == access_data(s, tag)
             t == Stamp(a.set, a.line, n + 1)
             rest == Rest(s, a.line)
         IN  /\ Held(t) = rest \union {tag}
             /\ Older(t) = (Older(s) \intersect (rest \X rest)) \union (rest \X {tag})
<1>. DEFINE a == access_data(s, tag)
            t == Stamp(a.set, a.line, n + 1)
            rest == Rest(s, a.line)
<1>1. PICK l \in Slots : l = a.line
  BY Access
<1>2. /\ t[l].valid = 1 /\ t[l].tag = tag /\ t[l].LRU = n + 1
      /\ \A k \in Slots \ {l} : t[k] = s[k]
  <2>1. /\ a.set \in CacheSet /\ a.set[l].valid = 1 /\ a.set[l].tag = tag
        /\ \A k \in Slots \ {l} : a.set[k] = s[k]
    BY <1>1, Access
  <2>. HIDE DEF a
  <2>2. n + 1 \in Tags
    BY CSimAssumption DEF Tags
  <2>. QED  BY <1>1, <2>1, <2>2 DEF Stamp, CacheSet, CacheLine, Tags
<1>3. \A k \in ValidSlots(s) : s[k].LRU \in Nat /\ s[k].LRU <= n
  BY CSimAssumption DEF SetSound, ValidSlots, CacheSet, CacheLine
<1>4. rest = {s[k].tag : k \in ValidSlots(s) \ {l}}
  BY <1>1 DEF Rest
<1>. HIDE DEF t, rest, a
<1>5. ValidSlots(t) = ValidSlots(s) \union {l}
  BY <1>2 DEF ValidSlots
<1>6. Held(t) = rest \union {tag}
  <2>1. Held(t) = {t[k].tag : k \in ValidSlots(t)}
    BY DEF Held, ValidSlots
  <2>2. \A k \in ValidSlots(s) \ {l} : t[k] = s[k]
    BY <1>2 DEF ValidSlots
  <2>. QED  BY <1>2, <1>4, <1>5, <2>1, <2>2
<1>7. ASSUME NEW x, NEW y, NEW u \in {s, t}
      PROVE  <<x, y>> \in Older(u) <=>
               \E j, k \in ValidSlots(u) : x = u[j].tag /\ y = u[k].tag /\ u[j].LRU < u[k].LRU
  BY OlderPair
<1>8. ASSUME NEW x, NEW y
      PROVE  <<x, y>> \in Older(t) <=>
               \/ <<x, y>> \in Older(s) /\ x \in rest /\ y \in rest
               \/ x \in rest /\ y = tag
  <2>1. ASSUME <<x, y>> \in Older(t)
        PROVE  \/ <<x, y>> \in Older(s) /\ x \in rest /\ y \in rest
               \/ x \in rest /\ y = tag
    <3>1. PICK j \in ValidSlots(t), k \in ValidSlots(t) :
            x = t[j].tag /\ y = t[k].tag /\ t[j].LRU < t[k].LRU
      BY <1>7, <2>1
    <3>2. j # l
      <4>1. CASE k = l
        BY <1>2, <3>1, <4>1
      <4>2. CASE k # l
        <5>1. k \in ValidSlots(s) /\ t[k] = s[k]
          BY <1>2, <1>5, <4>2 DEF ValidSlots
        <5>. QED  BY <1>2, <1>3, <3>1, <5>1
      <4>. QED  BY <4>1, <4>2
    <3>3. j \in ValidSlots(s) /\ t[j] = s[j] /\ x \in rest
      BY <1>2, <1>4, <1>5, <3>1, <3>2 DEF ValidSlots
    <3>4. CASE k = l
      BY <1>2, <3>1, <3>3, <3>4
    <3>5. CASE k # l
      <4>1. k \in ValidSlots(s) /\ t[k] = s[k] /\ y \in rest
        BY <1>2, <1>4, <1>5, <3>1, <3>5 DEF ValidSlots
      <4>. QED  BY <1>7, <3>1, <3>3, <4>1
    <3>. QED  BY <3>4, <3>5
  <2>2. ASSUME <<x, y>> \in Older(s), x \in rest, y \in rest
        PROVE  <<x, y>> \in Older(t)
    <3>1. PICK j \in ValidSlots(s), k \in ValidSlots(s) :
            x = s[j].tag /\ y = s[k].tag /\ s[j].LRU < s[k].LRU
      BY <1>7, <2>2
    <3>2. j # l /\ k # l
      BY <1>4, <2>2, <3>1, OneLine
    <3>3. t[j] = s[j] /\ t[k] = s[k] /\ j \in ValidSlots(t) /\ k \in ValidSlots(t)
      BY <1>2, <1>5, <3>2 DEF ValidSlots
    <3>. QED  BY <1>7, <3>1, <3>3
  <2>3. ASSUME x \in rest, y = tag
        PROVE  <<x, y>> \in Older(t)
    <3>1. PICK j \in ValidSlots(s) \ {l} : x = s[j].tag
      BY <1>4, <2>3
    <3>2. t[j] = s[j] /\ j \in ValidSlots(t) /\ l \in ValidSlots(t) /\ t[j].LRU < t[l].LRU
      BY <1>2, <1>3, <1>5, <3>1 DEF ValidSlots
    <3>. QED  BY <1>2, <1>7, <2>3, <3>1, <3>2
  <2>. QED  BY <2>1, <2>2, <2>3
<1>9. /\ \A p \in Older(t) : \E x, y : p = <<x, y>>
      /\ \A p \in Older(s) : \E x, y : p = <<x, y>>
  BY DEF Older
<1>10. Older(t) = (Older(s) \intersect (rest \X rest)) \union (rest \X {tag})
  BY <1>8, <1>9
<1>. QED  BY <1>6, <1>10 DEF t, rest, a

-----------------------------------------------------------------------------
(* The refinement of LRUCache, for all sets.  A modify counts two hits at  *)
(* most: hits stays exact in a trace of half as many lines.                *)
HitsExact == 2 * MaxLines < UINT_MOD

RInv == IInv /\ hits <= 2 * lines

LEMMA HitsCount ==
  ASSUME HitsExact, RInv, NEW m \in {1, 2}, NEW h \in {0, 1}, lines < MaxLines, lines' = lines + 1,
         hits' = (hits + (m - (1 - h))) % UINT_MOD
  PROVE  hits' = hits + (m - (1 - h)) /\ hits' <= 2 * lines'
<1>1. /\ hits \in Nat /\ lines \in Nat /\ MaxLines \in Nat /\ UINT_MOD \in Nat
      /\ hits <= 2 * lines
  BY CSimAssumption DEF RInv, IInv, TypeOK, Counter
<1>2. m - (1 - h) \in 0 .. 2
  OBVIOUS
<1>3. hits + (m - (1 - h)) \in 0 .. (UINT_MOD - 1)
  BY <1>1, <1>2 DEF HitsExact
<1>. QED  BY <1>1, <1>2, <1>3

(* LRUCache counts blocks the way this module does.                        *)
LEMMA SameCount ==
  ASSUME NEW S
  PROVE  LRU!Cardinality(S) = Cardinality(S)
BY DEF LRU!Cardinality, Cardinality

(* What Reference says of the set it is about.                             *)
LEMMA IsReference ==
  ASSUME NEW i \in Indices, NEW x, NEW m \in {1, 2}, NEW rest,
         cache \in [Indices -> CacheSet], cache' \in [Indices -> CacheSet],
         rest = StaysIn(cache[i], x),
         Held(cache'[i]) = rest \union {x},
         Older(cache'[i]) = (Older(cache[i]) \intersect (rest \X rest)) \union (rest \X {x}),
         \A j \in Indices \ {i} : cache'[j] = cache[j],
         x \in Held(cache[i]) => hits' = hits + m /\ misses' = misses /\ evictions' = evictions,
         x \notin Held(cache[i]) =>
           /\ hits' = hits + m - 1 /\ misses' = misses + 1
           /\ evictions' = IF Cardinality(Held(cache[i])) = num_E THEN evictions + 1 ELSE evictions
  PROVE  LRU!Reference(i, x, m)
<1>. DEFINE H == [j \in Indices |-> Held(cache[j])]
            O == [j \in Indices |-> Older(cache[j])]
            least == {y \in Held(cache[i]) : \A z \in Held(cache[i]) : <<z, y>> \notin Older(cache[i])}
<1>1. H[i] = Held(cache[i]) /\ O[i] = Older(cache[i])
  OBVIOUS
<1>2. LRU!Staying(i, x) = rest
  <2>1. LRU!LeastRecent(i) = {y \in H[i] : \A z \in H[i] : <<z, y>> \notin O[i]}
    BY DEF LRU!LeastRecent
  <2>2. LRU!Full(i) <=> Cardinality(H[i]) = num_E
    BY SameCount DEF LRU!Full
  <2>3. LRU!Staying(i, x) = IF x \notin H[i] /\ LRU!Full(i) THEN H[i] \ LRU!LeastRecent(i) ELSE H[i] \ {x}
    BY DEF LRU!Staying
  <2>. HIDE DEF H, O
  <2>4. LRU!LeastRecent(i) = least
    BY <1>1, <2>1
  <2>. QED  BY <1>1, <2>2, <2>3, <2>4 DEF StaysIn
<1>3. \A j \in Indices : Held(cache[j])' = Held(cache'[j]) /\ Older(cache[j])' = Older(cache'[j])
  BY DEF Held, Older
<1>4. H' = [H EXCEPT ![i] = rest \union {x}]
  <2>1. H' = [j \in Indices |-> Held(cache[j])'] /\ H = [j \in Indices |-> Held(cache[j])]
    OBVIOUS
  <2>2. \A j \in Indices : H'[j] = IF j = i THEN rest \union {x} ELSE H[j]
    BY <1>3, <2>1
  <2>. QED  BY <2>1, <2>2
<1>5. O' = [O EXCEPT ![i] = (O[i] \intersect (rest \X rest)) \union (rest \X {x})]
  <2>1. O' = [j \in Indices |-> Older(cache[j])'] /\ O = [j \in Indices |-> Older(cache[j])]
    OBVIOUS
  <2>2. \A j \in Indices :
          O'[j] = IF j = i THEN (O[i] \intersect (rest \X rest)) \union (rest \X {x}) ELSE O[j]
    BY <1>1, <1>3, <2>1
  <2>. QED  BY <2>1, <2>2
<1>6. IF x \in H[i]
      THEN hits' = hits + m /\ misses' = misses /\ evictions' = evictions
      ELSE /\ hits' = hits + m - 1 /\ misses' = misses + 1
           /\ evictions' = IF LRU!Full(i) THEN evictions + 1 ELSE evictions
  BY <1>1, SameCount DEF LRU!Full
<1>7. LRU!Reference(i, x, m) <=>
        /\ H' = [H EXCEPT ![i] = LRU!Staying(i, x) \union {x}]
        /\ O' = [O EXCEPT ![i] = (O[i] \intersect (LRU!Staying(i, x) \X LRU!Staying(i, x)))
                                   \union (LRU!Staying(i, x) \X {x})]
        /\ IF x \in H[i]
           THEN hits' = hits + m /\ misses' = misses /\ evictions' = evictions
           ELSE /\ hits' = hits + m - 1 /\ misses' = misses + 1
                /\ evictions' = IF LRU!Full(i) THEN evictions + 1 ELSE evictions
  BY DEF LRU!Reference
<1>. HIDE DEF H, O
<1>. QED  BY <1>2, <1>4, <1>5, <1>6, <1>7

(* An access is a use of the block.                                        *)
LEMMA AccessRefines ==
  ASSUME HitsExact, RInv, NEW index \in Indices, NEW block \in Blocks,
         Accessed(index, access_data(cache[index], parse_tag(block)))
  PROVE  LRU!Next /\ hits' <= 2 * lines'
<1>1. PICK s \in CacheSet, tag \in Tags : s = cache[index] /\ tag = parse_tag(block)
  BY TagType DEF RInv, IInv, TypeOK, CacheSet
<1>2. PICK n \in Nat : n = lines /\ n + 1 < UINT_MOD /\ n < MaxLines
  BY CSimAssumption DEF HitsExact, RInv, IInv, TypeOK, Accessed
<1>3. SetSound(s, n)
  BY <1>1, <1>2 DEF RInv, IInv, ZeroMeansEmpty, OrderSound, SetSound
<1>. DEFINE a == access_data(s, tag)
            t == Stamp(a.set, a.line, n + 1)
            rest == Rest(s, a.line)
<1>4. /\ t \in CacheSet
      /\ Held(t) = rest \union {tag}
      /\ Older(t) = (Older(s) \intersect (rest \X rest)) \union (rest \X {tag})
      /\ rest = StaysIn(s, tag)
  BY <1>2, <1>3, StampSound, StampedSet, StayingLines
<1>5. PICK h, e : /\ h = IsHit(a) /\ e = IsEviction(a) /\ h \in {0, 1}
                  /\ tag \in Held(s) => h = 1 /\ e = 0
                  /\ tag \notin Held(s) => /\ h = 0
                                           /\ e = IF Cardinality(Held(s)) = num_E THEN 1 ELSE 0
  <2>1. tag \in Held(s) <=> Matches(s, tag) # {}
    BY DEF Held, Matches
  <2>2. PICK l \in Slots : l = a.line
    BY Access
  <2>3. IF Matches(s, tag) # {}
        THEN a.result = 0
        ELSE /\ a.result = IF s[l].LRU = 0 THEN 1 ELSE -1
             /\ \A k \in Slots : s[l].LRU <= s[k].LRU
    BY <2>2, Access
  <2>4. Matches(s, tag) = {} => (s[l].LRU # 0 <=> Cardinality(Held(s)) = num_E)
    BY <1>3, <2>3, EvictsWhenFull, FullSet
  <2>. HIDE DEF a
  <2>. QED  BY <2>1, <2>3, <2>4 DEF IsHit, IsEviction
<1>6. PICK m \in {1, 2} :
        /\ lines < MaxLines /\ lines' = lines + 1
        /\ cache' = [cache EXCEPT ![index] = t]
        /\ hits' = (hits + (m - (1 - h))) % UINT_MOD
        /\ misses' = misses + (1 - h) /\ evictions' = evictions + e
  BY <1>1, <1>2, <1>5 DEF Accessed
<1>. HIDE DEF a, t, rest
<1>7. hits' = hits + (m - (1 - h)) /\ hits' <= 2 * lines'
  BY <1>5, <1>6, HitsCount
<1>8. /\ cache \in [Indices -> CacheSet] /\ cache' \in [Indices -> CacheSet]
      /\ cache'[index] = t /\ \A j \in Indices \ {index} : cache'[j] = cache[j]
  BY <1>4, <1>6 DEF RInv, IInv, TypeOK, CacheSet
<1>9. hits \in Nat /\ misses \in Nat /\ evictions \in Nat
  BY CSimAssumption DEF RInv, IInv, TypeOK, Counter
<1>10. LRU!Reference(index, tag, m)
  <2>1. tag \in Held(s) => hits' = hits + m /\ misses' = misses /\ evictions' = evictions
    BY <1>5, <1>6, <1>7, <1>9
  <2>2. tag \notin Held(s) =>
          /\ hits' = hits + m - 1 /\ misses' = misses + 1
          /\ evictions' = IF Cardinality(Held(s)) = num_E THEN evictions + 1 ELSE evictions
    BY <1>5, <1>6, <1>7, <1>9
  <2>. QED  BY <1>1, <1>4, <1>8, <2>1, <2>2, IsReference
<1>. QED  BY <1>1, <1>7, <1>10 DEF LRU!Next

(* The simulator reports the hits, the misses and the evictions of the LRU *)
(* policy on the tags it keeps, line by line of the trace.                 *)
THEOREM ReportsLRU ==
  ASSUME HitsExact
  PROVE  Spec => ImplementsLRU
<1>1. Short
  BY CSimAssumption DEF HitsExact, Short
<1>2. Init => RInv
  BY InitIInv, CSimAssumption DEF RInv, Init
<1>3. RInv /\ [Next]_vars => RInv' /\ [LRU!Next]_(LRU!lruVars)
  <2>. SUFFICES ASSUME RInv, [Next]_vars
                PROVE  RInv' /\ (LRU!Next \/ UNCHANGED <<cache, hits, misses, evictions>>)
    BY DEF LRU!lruVars
  <2>1. ASSUME NEW index \in Indices, NEW block \in Blocks,
               LoadOrStore(index, block) \/ Modify(index, block)
        PROVE  RInv' /\ LRU!Next
    BY <1>1, <2>1, BothAccess, TagType, AccessKeeps, AccessRefines DEF RInv
  <2>2. CASE Ignored
    <3>1. IInv' /\ UNCHANGED <<cache, hits, misses, evictions>> /\ lines' = lines + 1
      BY <1>1, <2>2, IgnoredKeeps DEF RInv, Ignored, counters, ReadLine
    <3>2. hits \in Nat /\ lines \in Nat /\ hits <= 2 * lines
      BY CSimAssumption DEF RInv, IInv, TypeOK, Counter
    <3>. QED  BY <3>1, <3>2 DEF RInv
  <2>3. CASE UNCHANGED vars
    BY <2>3 DEF vars, counters, RInv, IInv, TypeOK, Counter, ZeroMeansEmpty, OrderSound,
                Conserved, ValidLines
  <2>. QED  BY <2>1, <2>2, <2>3 DEF Next
<1>4. Init => LRU!Init
  <2>1. ASSUME Init, NEW i \in Indices
        PROVE  Held(cache[i]) = {} /\ Older(cache[i]) = {}
    BY <2>1 DEF Init, initCache, Held, Older
  <2>. QED  BY <2>1 DEF Init, LRU!Init
<1>. QED  BY <1>2, <1>3, <1>4, PTL DEF Spec, ImplementsLRU, LRU!Spec
=============================================================================
