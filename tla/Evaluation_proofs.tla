-------------------------- MODULE Evaluation_proofs -------------------------
(***************************************************************************)
(* Proofs about Evaluation: the loops of trans.c transpose, and what       *)
(* test-trans reports is of the submission, for any number of timeouts.    *)
(***************************************************************************)
EXTENDS Evaluation, FiniteSetTheorems, SequenceTheorems, TLAPS

(***************************************************************************)
(* What B holds after k iterations of function f, for h rows of A of w     *)
(* ints: the int of column r and row c of A is to be at row r and column   *)
(* c.  FirstStore and LastStore are the iterations that store there;       *)
(* between them solve_64 parks an int that belongs four rows below and     *)
(* four columns before.                                                    *)
(***************************************************************************)
Chunk(r, c) == (c \div 8) * 128 + (r \div 8) * 16
Parks(f, w, r, c) == f = 0 /\ w = 64 /\ r % 8 < 4 /\ c % 8 >= 4
FirstStore(f, w, r, c) ==
  IF f = 1 THEN c
  ELSE IF w = 32 THEN (c \div 8) * 32 + (r \div 8) * 8 + (c % 8)
  ELSE IF w = 64 THEN Chunk(r, c) + (IF r % 8 < 4 THEN c % 8 ELSE
                                     IF c % 8 < 4 THEN 4 + (r % 8) ELSE 8 + (r % 8))
  ELSE (r \div 17) * 85 + (c \div 17) * 17 + (r % 17)
LastStore(f, w, r, c) ==
  IF Parks(f, w, r, c) THEN Chunk(r, c) + 8 + (r % 8) ELSE FirstStore(f, w, r, c)
Value(f, w, k, r, c) ==
  IF LastStore(f, w, r, c) < k THEN A(w, c, r) ELSE
  IF FirstStore(f, w, r, c) < k THEN A(w, c - 4, r + 4) ELSE Random
Held(f, w, h, k) == [r \in 0 .. w - 1 |-> [c \in 0 .. h - 1 |-> Value(f, w, k, r, c)]]

IsSize(w, h) == <<w, h>> \in {<<32, 32>>, <<64, 64>>, <<61, 67>>}

(* What the pairs of an iteration have to be.                              *)
Writes(f, w, k, r, c) == FirstStore(f, w, r, c) = k \/ LastStore(f, w, r, c) = k
Right(f, w, h, k, pairs) ==
  /\ \A u \in DOMAIN pairs : \E r \in 0 .. w - 1, c \in 0 .. h - 1 :
       /\ pairs[u][2] = B(h, r, c) /\ Writes(f, w, k, r, c)
       /\ Load(Held(f, w, h, k), h, pairs[u][1]) = Value(f, w, k + 1, r, c)
  /\ \A r \in 0 .. w - 1, c \in 0 .. h - 1 : Writes(f, w, k, r, c) =>
       \E u \in DOMAIN pairs : pairs[u][2] = B(h, r, c)

LEMMA FirstLemma ==
  ASSUME NEW f \in 0 .. 1, NEW w, NEW h, IsSize(w, h), NEW r \in 0 .. w - 1, NEW c \in 0 .. h - 1
  PROVE  /\ FirstStore(f, w, r, c) \in 0 .. Iterations(f, w, h) - 1
         /\ LastStore(f, w, r, c) \in 0 .. Iterations(f, w, h) - 1
         /\ FirstStore(f, w, r, c) <= LastStore(f, w, r, c)
<1>1. CASE w = 32 /\ h = 32
  BY <1>1 DEF FirstStore, LastStore, Parks, Chunk, Iterations
<1>2. CASE w = 64 /\ h = 64
  BY <1>2 DEF FirstStore, LastStore, Parks, Chunk, Iterations
<1>3. CASE w = 61 /\ h = 67
  BY <1>3 DEF FirstStore, LastStore, Parks, Chunk, Iterations
<1> QED BY <1>1, <1>2, <1>3 DEF IsSize

(* An int of B has one row and one column.                                 *)
LEMMA PlaceLemma ==
  ASSUME NEW w, NEW h, IsSize(w, h), NEW r \in 0 .. w - 1, NEW c \in 0 .. h - 1
  PROVE  /\ B(h, r, c) \in Nat /\ B(h, r, c) >= BaseB
         /\ (B(h, r, c) - BaseB) \div h = r /\ (B(h, r, c) - BaseB) % h = c
         /\ B(h, r, c) - BaseB < w * h
<1>1. CASE w = 32 /\ h = 32
  BY <1>1 DEF B, BaseB
<1>2. CASE w = 64 /\ h = 64
  BY <1>2 DEF B, BaseB
<1>3. CASE w = 61 /\ h = 67
  BY <1>3 DEF B, BaseB
<1> QED BY <1>1, <1>2, <1>3 DEF IsSize

LEMMA StoredLemma ==
  ASSUME NEW f \in 0 .. 1, NEW w, NEW h, IsSize(w, h), NEW k \in Nat, NEW it,
         Right(f, w, h, k, it.pairs)
  PROVE  Stored(Held(f, w, h, k), h, it) = Held(f, w, h, k + 1)
<1> DEFINE H == Held(f, w, h, k)
           Columns == 0 .. h - 1
           at == {it.pairs[u][2] : u \in DOMAIN it.pairs}
           rows == {(x - BaseB) \div h : x \in at}
           Q(x) == CHOOSE u \in DOMAIN it.pairs : it.pairs[u][2] = x
           V(r, c) == IF B(h, r, c) \in at THEN Load(H, h, it.pairs[Q(B(h, r, c))][1]) ELSE H[r][c]
<1>1. Stored(H, h, it) =
        [r \in 0 .. w - 1 |-> IF r \in rows THEN [c \in Columns |-> V(r, c)] ELSE H[r]]
  BY DEF Stored, Held
<1>2. ASSUME NEW r \in 0 .. w - 1, NEW c \in Columns
      PROVE  /\ B(h, r, c) \in at => /\ r \in rows
                                     /\ Load(H, h, it.pairs[Q(B(h, r, c))][1]) = Value(f, w, k + 1, r, c)
             /\ B(h, r, c) \notin at => H[r][c] = Value(f, w, k + 1, r, c)
  <2>1. CASE B(h, r, c) \in at
    <3>1. r \in rows
      BY <2>1, PlaceLemma
    <3>2. PICK u \in DOMAIN it.pairs : u = Q(B(h, r, c)) /\ it.pairs[u][2] = B(h, r, c)
      BY <2>1
    <3>3. PICK r2 \in 0 .. w - 1, c2 \in 0 .. h - 1 :
             /\ it.pairs[u][2] = B(h, r2, c2)
             /\ Load(H, h, it.pairs[u][1]) = Value(f, w, k + 1, r2, c2)
      BY DEF Right
    <3>4. r2 = r /\ c2 = c
      <4>1. (B(h, r, c) - BaseB) \div h = r /\ (B(h, r, c) - BaseB) % h = c
        BY PlaceLemma
      <4>2. (B(h, r2, c2) - BaseB) \div h = r2 /\ (B(h, r2, c2) - BaseB) % h = c2
        BY <3>3, PlaceLemma
      <4>3. B(h, r, c) = B(h, r2, c2)
        BY <3>2, <3>3
      <4> QED BY <4>1, <4>2, <4>3
    <3> QED BY <2>1, <3>1, <3>2, <3>3, <3>4
  <2>2. CASE B(h, r, c) \notin at
    <3>1. ~ Writes(f, w, k, r, c)
      BY <2>2 DEF Right
    <3>2. FirstStore(f, w, r, c) \in Int /\ LastStore(f, w, r, c) \in Int
      BY FirstLemma
    <3>3. Value(f, w, k + 1, r, c) = Value(f, w, k, r, c)
      BY <3>1, <3>2 DEF Writes, Value
    <3> QED BY <2>2, <3>3 DEF Held
  <2> QED BY <2>1, <2>2
<1>3. ASSUME NEW r \in 0 .. w - 1
      PROVE  (IF r \in rows THEN [c \in Columns |-> V(r, c)] ELSE H[r])
               = [c \in Columns |-> Value(f, w, k + 1, r, c)]
  <2>1. H[r] = [c \in Columns |-> H[r][c]]
    BY DEF Held
  <2>2. \A c \in Columns : V(r, c) = Value(f, w, k + 1, r, c)
    BY <1>2
  <2>3. r \notin rows => \A c \in Columns : H[r][c] = Value(f, w, k + 1, r, c)
    BY <1>2
  <2> HIDE DEF V, rows, H, Columns
  <2> QED BY <2>1, <2>2, <2>3
<1> HIDE DEF V, rows, H
<1>4. Stored(H, h, it) = [r \in 0 .. w - 1 |-> [c \in Columns |-> Value(f, w, k + 1, r, c)]]
  BY <1>1, <1>3
<1> QED BY <1>4 DEF Held, H

(***************************************************************************)
(* The iterations.                                                         *)
(***************************************************************************)
LEMMA LoadA ==
  ASSUME NEW held, NEW h, NEW w, NEW r, NEW c, A(w, c, r) < BaseB
  PROVE  Load(held, h, A(w, c, r)) = A(w, c, r)
  BY DEF Load

LEMMA SolveRight32 ==
  ASSUME NEW k \in 0 .. 127
  PROVE  Right(0, 32, 32, k, solve_32(32, 32, k).pairs)
<1> DEFINE q == k \div 32
           j == (k \div 8) % 4
           l == k % 8
           pairs == solve_32(32, 32, k).pairs
<1>1. pairs = [t \in 1 .. 8 |-> <<A(32, l + q * 8, j * 8 + t - 1), B(32, j * 8 + t - 1, l + q * 8)>>]
  BY DEF solve_32, LoadsFirst
<1>2. q \in 0 .. 3 /\ j \in 0 .. 3 /\ l \in 0 .. 7 /\ k = q * 32 + j * 8 + l
  OBVIOUS
<1> HIDE DEF q, j, l, pairs
<1>3. ASSUME NEW u \in 1 .. 8
      PROVE  \E r \in 0 .. 32 - 1, c \in 0 .. 32 - 1 :
               /\ pairs[u][2] = B(32, r, c) /\ Writes(0, 32, k, r, c)
               /\ Load(Held(0, 32, 32, k), 32, pairs[u][1]) = Value(0, 32, k + 1, r, c)
  <2> DEFINE r == j * 8 + u - 1
             c == l + q * 8
  <2>1. r \in 0 .. 32 - 1 /\ c \in 0 .. 32 - 1 /\ r \div 8 = j /\ c \div 8 = q /\ c % 8 = l
    BY <1>2
  <2>2. pairs[u][2] = B(32, r, c) /\ pairs[u][1] = A(32, c, r)
    BY <1>1
  <2> HIDE DEF r, c
  <2>3. FirstStore(0, 32, r, c) = k /\ LastStore(0, 32, r, c) = k
    BY <1>2, <2>1 DEF FirstStore, LastStore, Parks
  <2>4. A(32, c, r) < BaseB
    BY <2>1 DEF A, BaseB
  <2>5. Value(0, 32, k + 1, r, c) = A(32, c, r)
    BY <2>3 DEF Value
  <2> QED BY <2>1, <2>2, <2>3, <2>4, <2>5, LoadA DEF Writes
<1>4. ASSUME NEW r \in 0 .. 32 - 1, NEW c \in 0 .. 32 - 1, Writes(0, 32, k, r, c)
      PROVE  \E u \in 1 .. 8 : pairs[u][2] = B(32, r, c)
  <2>1. (c \div 8) * 32 + (r \div 8) * 8 + (c % 8) = k
    BY <1>4 DEF Writes, FirstStore, LastStore, Parks
  <2>2. c \div 8 = q /\ r \div 8 = j /\ c % 8 = l
    BY <1>2, <2>1
  <2>3. (r % 8) + 1 \in 1 .. 8 /\ r = j * 8 + ((r % 8) + 1) - 1 /\ c = l + q * 8
    BY <2>2
  <2> QED BY <1>1, <2>3
<1>5. DOMAIN pairs = 1 .. 8
  BY <1>1
<1>6. Right(0, 32, 32, k, pairs)
  BY <1>3, <1>4, <1>5 DEF Right
<1> QED BY <1>6 DEF pairs

LEMMA TransRight ==
  ASSUME NEW w, NEW h, IsSize(w, h), NEW k \in 0 .. h - 1
  PROVE  Right(1, w, h, k, trans(w, h, k).pairs)
<1> DEFINE pairs == trans(w, h, k).pairs
<1>1. pairs = [t \in 1 .. w |-> <<A(w, k, t - 1), B(h, t - 1, k)>>]
  BY DEF trans, OneByOne
<1>2. w \in {32, 64, 61} /\ h \in {32, 64, 67}
  BY DEF IsSize
<1> HIDE DEF pairs
<1>3. ASSUME NEW u \in 1 .. w
      PROVE  \E r \in 0 .. w - 1, c \in 0 .. h - 1 :
               /\ pairs[u][2] = B(h, r, c) /\ Writes(1, w, k, r, c)
               /\ Load(Held(1, w, h, k), h, pairs[u][1]) = Value(1, w, k + 1, r, c)
  <2> DEFINE r == u - 1
  <2>1. r \in 0 .. w - 1 /\ pairs[u][2] = B(h, r, k) /\ pairs[u][1] = A(w, k, r)
    BY <1>1, <1>2
  <2> HIDE DEF r
  <2>2. FirstStore(1, w, r, k) = k /\ LastStore(1, w, r, k) = k
    BY DEF FirstStore, LastStore, Parks
  <2>3. A(w, k, r) < BaseB
    <3>1. CASE w = 32
      BY <1>2, <2>1, <3>1 DEF A, BaseB
    <3>2. CASE w = 64
      BY <1>2, <2>1, <3>2 DEF A, BaseB
    <3>3. CASE w = 61
      BY <1>2, <2>1, <3>3 DEF A, BaseB
    <3> QED BY <1>2, <3>1, <3>2, <3>3
  <2>4. Value(1, w, k + 1, r, k) = A(w, k, r)
    BY <1>2, <2>2 DEF Value
  <2> QED BY <2>1, <2>2, <2>3, <2>4, LoadA DEF Writes
<1>4. ASSUME NEW r \in 0 .. w - 1, NEW c \in 0 .. h - 1, Writes(1, w, k, r, c)
      PROVE  \E u \in 1 .. w : pairs[u][2] = B(h, r, c)
  <2>1. c = k
    BY <1>4 DEF Writes, FirstStore, LastStore, Parks
  <2>2. r + 1 \in 1 .. w /\ (r + 1) - 1 = r
    BY <1>2
  <2> QED BY <1>1, <2>1, <2>2
<1>5. DOMAIN pairs = 1 .. w
  BY <1>1
<1>6. Right(1, w, h, k, pairs)
  BY <1>3, <1>4, <1>5 DEF Right
<1> QED BY <1>6 DEF pairs

LEMMA SolveRight61 ==
  ASSUME NEW k \in 0 .. 424
  PROVE  Right(0, 61, 67, k, solve_61(61, 67, k).pairs)
<1> DEFINE q == k \div 85
           j == (k \div 17) % 5
           l == k % 17
           Inside == {t \in 1 .. 17 : q * 17 + l < 61 /\ j * 17 + t - 1 < 67}
           pairs == solve_61(61, 67, k).pairs
<1>1. pairs = [t \in Inside |-> <<A(61, j * 17 + t - 1, q * 17 + l), B(67, q * 17 + l, j * 17 + t - 1)>>]
  BY DEF solve_61, OneByOne
<1>2. q \in 0 .. 4 /\ j \in 0 .. 4 /\ l \in 0 .. 16 /\ k = q * 85 + j * 17 + l
  OBVIOUS
<1> HIDE DEF q, j, l, pairs
<1>3. ASSUME NEW u \in Inside
      PROVE  \E r \in 0 .. 61 - 1, c \in 0 .. 67 - 1 :
               /\ pairs[u][2] = B(67, r, c) /\ Writes(0, 61, k, r, c)
               /\ Load(Held(0, 61, 67, k), 67, pairs[u][1]) = Value(0, 61, k + 1, r, c)
  <2> DEFINE r == q * 17 + l
             c == j * 17 + u - 1
  <2>1. r \in 0 .. 61 - 1 /\ c \in 0 .. 67 - 1 /\ r \div 17 = q /\ r % 17 = l /\ c \div 17 = j
    BY <1>2
  <2>2. pairs[u][2] = B(67, r, c) /\ pairs[u][1] = A(61, c, r)
    BY <1>1
  <2> HIDE DEF r, c
  <2>3. FirstStore(0, 61, r, c) = k /\ LastStore(0, 61, r, c) = k
    BY <1>2, <2>1 DEF FirstStore, LastStore, Parks
  <2>4. A(61, c, r) < BaseB
    BY <2>1 DEF A, BaseB
  <2>5. Value(0, 61, k + 1, r, c) = A(61, c, r)
    BY <2>3 DEF Value
  <2>6. Load(Held(0, 61, 67, k), 67, pairs[u][1]) = A(61, c, r)
    BY <2>2, <2>4, LoadA
  <2>7. Writes(0, 61, k, r, c)
    BY <2>3 DEF Writes
  <2> QED BY <2>1, <2>2, <2>5, <2>6, <2>7
<1>4. ASSUME NEW r \in 0 .. 61 - 1, NEW c \in 0 .. 67 - 1, Writes(0, 61, k, r, c)
      PROVE  \E u \in Inside : pairs[u][2] = B(67, r, c)
  <2>1. (r \div 17) * 85 + (c \div 17) * 17 + (r % 17) = k
    BY <1>4 DEF Writes, FirstStore, LastStore, Parks
  <2>2. r \div 17 = q /\ c \div 17 = j /\ r % 17 = l
    BY <1>2, <2>1
  <2>3. (c % 17) + 1 \in Inside /\ c = j * 17 + ((c % 17) + 1) - 1 /\ r = q * 17 + l
    BY <2>2
  <2> QED BY <1>1, <2>3
<1>5. DOMAIN pairs = Inside
  BY <1>1
<1>6. Right(0, 61, 67, k, pairs)
  BY <1>3, <1>4, <1>5 DEF Right
<1> QED BY <1>6 DEF pairs

(* The four loops of solve_64.  Their iterations are at 16 q + j, and l.   *)
Chunks == (0 .. 7) \X (0 .. 7)
Quarter0(q, j, l) == [t \in 1 .. 4 |-> <<A(64, q * 8 + l, j * 8 + 0 + t - 1), B(64, j * 8 + t - 1, q * 8 + l + 0)>>]
Quarter1(q, j, l) == [t \in 1 .. 4 |-> <<A(64, q * 8 + l, j * 8 + 4 + t - 1), B(64, j * 8 + t - 1, q * 8 + l + 4)>>]
Down(q, j, l, d) == [t \in 1 .. 4 |-> <<A(64, q * 8 + 3 + t, j * 8 + l + d), B(64, j * 8 + l + d, q * 8 + 3 + t)>>]
Parked(q, j, l) == [t \in 1 .. 4 |-> <<B(64, j * 8 + l, q * 8 + 3 + t), B(64, j * 8 + l + 4, q * 8 + t - 1)>>]

LEMMA Loops64 ==
  ASSUME NEW k \in 0 .. 1023
  PROVE  LET q == k \div 128   j == (k \div 16) % 8   loop == (k \div 4) % 4   l == k % 4
             pairs == solve_64(64, 64, k).pairs
         IN  /\ solve_64(64, 64, k) = LoadsFirst(pairs)
             /\ loop = 0 => pairs = Quarter0(q, j, l)
             /\ loop = 1 => pairs = Quarter1(q, j, l)
             /\ loop = 2 => pairs = Down(q, j, l, 0) \o Parked(q, j, l)
             /\ loop = 3 => pairs = Down(q, j, l, 4)
<1> DEFINE q == k \div 128
           j == (k \div 16) % 8
           loop == (k \div 4) % 4
           l == k % 4
           pairs == solve_64(64, 64, k).pairs
           Done == /\ solve_64(64, 64, k) = LoadsFirst(pairs)
                   /\ loop = 0 => pairs = Quarter0(q, j, l)
                   /\ loop = 1 => pairs = Quarter1(q, j, l)
                   /\ loop = 2 => pairs = Down(q, j, l, 0) \o Parked(q, j, l)
                   /\ loop = 3 => pairs = Down(q, j, l, 4)
<1>1. solve_64(64, 64, k) =
        CASE loop = 0 -> LoadsFirst(Quarter0(q, j, l))
          [] loop = 1 -> LoadsFirst(Quarter1(q, j, l))
          [] loop = 2 -> LoadsFirst(Down(q, j, l, 0) \o Parked(q, j, l))
          [] loop = 3 -> LoadsFirst(Down(q, j, l, 4))
  BY Zenon DEF solve_64, Quarter0, Quarter1, Down, Parked
<1> HIDE DEF loop
<1>2. \A ps : LoadsFirst(ps).pairs = ps
  BY DEF LoadsFirst
<1>7. 0 # 1 /\ 0 # 2 /\ 0 # 3 /\ 1 # 2 /\ 1 # 3 /\ 2 # 3
  OBVIOUS
<1>8. loop \in 0 .. 3
  BY DEF loop
<1> HIDE DEF loop, q, j, l
<1>3. ASSUME loop = 0 PROVE solve_64(64, 64, k) = LoadsFirst(pairs) /\ pairs = Quarter0(q, j, l)
  <2>1. solve_64(64, 64, k) = LoadsFirst(Quarter0(q, j, l))
    BY <1>1, <1>7, <1>3, Zenon
  <2> QED BY <1>2, <1>7, <1>3, <2>1, Zenon
<1>4. ASSUME loop = 1 PROVE solve_64(64, 64, k) = LoadsFirst(pairs) /\ pairs = Quarter1(q, j, l)
  <2>1. solve_64(64, 64, k) = LoadsFirst(Quarter1(q, j, l))
    BY <1>1, <1>7, <1>4, Zenon
  <2> QED BY <1>2, <1>7, <1>4, <2>1, Zenon
<1>5. ASSUME loop = 2 PROVE solve_64(64, 64, k) = LoadsFirst(pairs) /\ pairs = Down(q, j, l, 0) \o Parked(q, j, l)
  <2>1. solve_64(64, 64, k) = LoadsFirst(Down(q, j, l, 0) \o Parked(q, j, l))
    BY <1>1, <1>7, <1>5, Zenon
  <2> QED BY <1>2, <1>7, <1>5, <2>1, Zenon
<1>6. ASSUME loop = 3 PROVE solve_64(64, 64, k) = LoadsFirst(pairs) /\ pairs = Down(q, j, l, 4)
  <2>1. solve_64(64, 64, k) = LoadsFirst(Down(q, j, l, 4))
    BY <1>1, <1>7, <1>6, Zenon
  <2> QED BY <1>2, <1>7, <1>6, <2>1, Zenon
<1>9. Done
  <2> HIDE DEF pairs
  <2>1. loop = 0 \/ loop = 1 \/ loop = 2 \/ loop = 3
    BY <1>8
  <2> QED BY <1>3, <1>4, <1>5, <1>6, <1>7, <2>1, Zenon
<1> QED BY <1>9 DEF loop, q, j, l

(* When the int at row a and column b of a chunk is stored.                *)
LEMMA Times64 ==
  ASSUME NEW r \in 0 .. 63, NEW c \in 0 .. 63
  PROVE  LET a == r % 8
             b == c % 8
             base == (c \div 8) * 128 + (r \div 8) * 16
         IN  /\ FirstStore(0, 64, r, c) =
                  base + (IF a < 4 THEN b ELSE IF b < 4 THEN 4 + a ELSE 8 + a)
             /\ LastStore(0, 64, r, c) =
                  base + (IF a < 4 /\ b < 4 THEN b ELSE IF a >= 4 /\ b < 4 THEN 4 + a ELSE 8 + a)
<1> DEFINE a == r % 8
           b == c % 8
           base == (c \div 8) * 128 + (r \div 8) * 16
<1>1. a \in 0 .. 7 /\ b \in 0 .. 7 /\ base \in Nat /\ Chunk(r, c) = base
  BY DEF Chunk
<1>2. FirstStore(0, 64, r, c) =
        base + (IF a < 4 THEN b ELSE IF b < 4 THEN 4 + a ELSE 8 + a)
  BY <1>1 DEF FirstStore
<1>3. LastStore(0, 64, r, c) =
        IF a < 4 /\ b >= 4 THEN base + 8 + a ELSE FirstStore(0, 64, r, c)
  BY <1>1 DEF LastStore, Parks
<1> HIDE DEF a, b, base
<1>4. /\ FirstStore(0, 64, r, c) =
           base + (IF a < 4 THEN b ELSE IF b < 4 THEN 4 + a ELSE 8 + a)
      /\ LastStore(0, 64, r, c) =
           base + (IF a < 4 /\ b < 4 THEN b ELSE IF a >= 4 /\ b < 4 THEN 4 + a ELSE 8 + a)
  BY <1>1, <1>2, <1>3
<1> QED BY <1>4 DEF a, b, base

(* Three digits are one number.                                            *)
LEMMA Digits ==
  ASSUME NEW x \in 0 .. 7, NEW y \in 0 .. 7, NEW v \in 0 .. 15
  PROVE  LET k == x * 128 + y * 16 + v
         IN  /\ k \in 0 .. 1023
             /\ k \div 128 = x /\ (k \div 16) % 8 = y /\ k % 16 = v
             /\ (k \div 4) % 4 = v \div 4 /\ k % 4 = v % 4
<1> DEFINE k == x * 128 + y * 16 + v
<1>1. k \div 128 = x /\ k % 16 = v /\ k \in 0 .. 1023
  OBVIOUS
<1>2. k \div 16 = x * 8 + y
  OBVIOUS
<1>3. (k \div 16) % 8 = y
  BY <1>2
<1>4. k \div 4 = x * 32 + y * 4 + (v \div 4) /\ k % 4 = v % 4
  OBVIOUS
<1>5. (k \div 4) % 4 = v \div 4
  BY <1>4
<1> QED BY <1>1, <1>3, <1>4, <1>5

(* The one that an iteration of a chunk stores.                            *)
InLoop(k, r, c) ==
  LET q == k \div 128   j == (k \div 16) % 8   loop == (k \div 4) % 4   l == k % 4
  IN  \E a \in 0 .. 7, b \in 0 .. 7 :
        /\ r = j * 8 + a /\ c = q * 8 + b
        /\ \/ loop = 0 /\ a < 4 /\ b = l
           \/ loop = 1 /\ a < 4 /\ b = l + 4
           \/ loop = 2 /\ a = l /\ b >= 4
           \/ loop = 2 /\ a = l + 4 /\ b < 4
           \/ loop = 3 /\ a = l + 4 /\ b >= 4

LEMMA Chunk64 ==
  ASSUME NEW k \in 0 .. 1023, NEW r \in 0 .. 63, NEW c \in 0 .. 63, Writes(0, 64, k, r, c)
  PROVE  InLoop(k, r, c)
<1> DEFINE q == k \div 128
           j == (k \div 16) % 8
           loop == (k \div 4) % 4
           l == k % 4
<1> DEFINE a == r % 8
           b == c % 8
           y == r \div 8
           x == c \div 8
<1>1. /\ a \in 0 .. 7 /\ b \in 0 .. 7 /\ y \in 0 .. 7 /\ x \in 0 .. 7
      /\ r = y * 8 + a /\ c = x * 8 + b
  OBVIOUS
<1>2. /\ q \in 0 .. 7 /\ j \in 0 .. 7 /\ loop \in 0 .. 3 /\ l \in 0 .. 3
      /\ k = q * 128 + j * 16 + loop * 4 + l
  <2>1. /\ k \div 4 \in 0 .. 255 /\ k = (k \div 4) * 4 + l
        /\ k \div 4 = (k \div 16) * 4 + loop /\ k \div 16 = q * 8 + j
    OBVIOUS
  <2>2. q \in 0 .. 7 /\ j \in 0 .. 7 /\ loop \in 0 .. 3 /\ l \in 0 .. 3
    OBVIOUS
  <2> QED BY <2>1, <2>2
<1> DEFINE base == x * 128 + y * 16
<1>7. /\ FirstStore(0, 64, r, c) =
           base + (IF a < 4 THEN b ELSE IF b < 4 THEN 4 + a ELSE 8 + a)
      /\ LastStore(0, 64, r, c) =
           base + (IF a < 4 /\ b < 4 THEN b ELSE IF a >= 4 /\ b < 4 THEN 4 + a ELSE 8 + a)
  BY Times64, Zenon
<1> HIDE DEF a, b, x, y, q, j, loop, l
<1>3. \E v \in 0 .. 15 :
        /\ k = x * 128 + y * 16 + v
        /\ \/ v = b /\ a < 4
           \/ v = 8 + a /\ a < 4 /\ b >= 4
           \/ v = 4 + a /\ a >= 4 /\ b < 4
           \/ v = 8 + a /\ a >= 4 /\ b >= 4
  <2>1. CASE a < 4 /\ b < 4
    BY <1>1, <2>1, <1>7 DEF Writes
  <2>2. CASE a < 4 /\ b >= 4
    <3>1. k = x * 128 + y * 16 + b \/ k = x * 128 + y * 16 + 8 + a
      BY <1>1, <2>2, <1>7 DEF Writes
    <3>2. b \in 0 .. 15 /\ 8 + a \in 0 .. 15
      BY <1>1
    <3>3. x * 128 + y * 16 + 8 + a = x * 128 + y * 16 + (8 + a)
      BY <1>1
    <3> QED BY <2>2, <3>1, <3>2, <3>3
  <2>3. CASE a >= 4 /\ b < 4
    <3>1. k = x * 128 + y * 16 + 4 + a
      BY <1>1, <2>3, <1>7 DEF Writes
    <3> QED BY <1>1, <2>3, <3>1
  <2>4. CASE a >= 4 /\ b >= 4
    <3>1. k = x * 128 + y * 16 + 8 + a
      BY <1>1, <2>4, <1>7 DEF Writes
    <3> QED BY <1>1, <2>4, <3>1
  <2> QED BY <1>1, <2>1, <2>2, <2>3, <2>4
<1>4. PICK v \in 0 .. 15 :
        /\ k = x * 128 + y * 16 + v
        /\ \/ v = b /\ a < 4
           \/ v = 8 + a /\ a < 4 /\ b >= 4
           \/ v = 4 + a /\ a >= 4 /\ b < 4
           \/ v = 8 + a /\ a >= 4 /\ b >= 4
  BY <1>3
<1>5. x = q /\ y = j /\ v = loop * 4 + l
  <2>1. k = x * 128 + y * 16 + v
    BY <1>4
  <2>2. q = x /\ j = y /\ loop = v \div 4 /\ l = v % 4
    BY <1>1, <2>1, Digits DEF q, j, loop, l
  <2>3. v = (v \div 4) * 4 + (v % 4)
    OBVIOUS
  <2> QED BY <2>2, <2>3
<1>6. \/ loop = 0 /\ a < 4 /\ b = l
      \/ loop = 1 /\ a < 4 /\ b = l + 4
      \/ loop = 2 /\ a = l /\ b >= 4
      \/ loop = 2 /\ a = l + 4 /\ b < 4
      \/ loop = 3 /\ a = l + 4 /\ b >= 4
  BY <1>1, <1>2, <1>4, <1>5
<1> QED BY <1>1, <1>5, <1>6 DEF InLoop, q, j, loop, l

(* The same by the digits of r and c.                                      *)
LEMMA Place64 ==
  ASSUME NEW q \in 0 .. 7, NEW j \in 0 .. 7, NEW a \in 0 .. 7, NEW b \in 0 .. 7
  PROVE  LET r == j * 8 + a
             c == q * 8 + b
         IN  /\ r \in 0 .. 63 /\ c \in 0 .. 63
             /\ FirstStore(0, 64, r, c) = q * 128 + j * 16 +
                  (IF a < 4 THEN b ELSE IF b < 4 THEN 4 + a ELSE 8 + a)
             /\ LastStore(0, 64, r, c) = q * 128 + j * 16 +
                  (IF a < 4 /\ b < 4 THEN b ELSE IF a >= 4 /\ b < 4 THEN 4 + a ELSE 8 + a)
<1> DEFINE r == j * 8 + a
           c == q * 8 + b
<1>1. /\ r \in 0 .. 63 /\ c \in 0 .. 63
      /\ r \div 8 = j /\ r % 8 = a /\ c \div 8 = q /\ c % 8 = b
  OBVIOUS
<1> HIDE DEF r, c
<1>2. /\ FirstStore(0, 64, r, c) = q * 128 + j * 16 +
           (IF a < 4 THEN b ELSE IF b < 4 THEN 4 + a ELSE 8 + a)
      /\ LastStore(0, 64, r, c) = q * 128 + j * 16 +
           (IF a < 4 /\ b < 4 THEN b ELSE IF a >= 4 /\ b < 4 THEN 4 + a ELSE 8 + a)
  BY <1>1, Times64
<1> QED BY <1>1, <1>2 DEF r, c

(* A pair that is as it should be.                                         *)
PairRight(k, p) ==
  \E r \in 0 .. 64 - 1, c \in 0 .. 64 - 1 :
    /\ p[2] = B(64, r, c) /\ Writes(0, 64, k, r, c)
    /\ Load(Held(0, 64, 64, k), 64, p[1]) = Value(0, 64, k + 1, r, c)

(* An int goes from A to where it belongs, or to where it is parked; or    *)
(* from there to where it belongs.                                         *)
LEMMA Moved64 ==
  ASSUME NEW k \in Nat, NEW r \in 0 .. 63, NEW c \in 0 .. 63
  PROVE  /\ LastStore(0, 64, r, c) = k => PairRight(k, <<A(64, c, r), B(64, r, c)>>)
         /\ FirstStore(0, 64, r, c) = k /\ LastStore(0, 64, r, c) > k /\ c >= 4 /\ r < 60
              => PairRight(k, <<A(64, c - 4, r + 4), B(64, r, c)>>)
         /\ LastStore(0, 64, r, c) = k /\ r >= 4 /\ c < 60 /\
            FirstStore(0, 64, r - 4, c + 4) < k /\ ~ (LastStore(0, 64, r - 4, c + 4) < k)
              => PairRight(k, <<B(64, r - 4, c + 4), B(64, r, c)>>)
<1>1. ASSUME LastStore(0, 64, r, c) = k PROVE PairRight(k, <<A(64, c, r), B(64, r, c)>>)
  <2>1. Load(Held(0, 64, 64, k), 64, A(64, c, r)) = A(64, c, r)
    BY DEF Load, A, BaseB
  <2>2. Value(0, 64, k + 1, r, c) = A(64, c, r)
    BY <1>1 DEF Value
  <2>3. Writes(0, 64, k, r, c)
    BY <1>1 DEF Writes
  <2> QED BY <2>1, <2>2, <2>3, SMTT(60) DEF PairRight
<1>2. ASSUME FirstStore(0, 64, r, c) = k, LastStore(0, 64, r, c) > k, c >= 4, r < 60
      PROVE  PairRight(k, <<A(64, c - 4, r + 4), B(64, r, c)>>)
  <2>1. Load(Held(0, 64, 64, k), 64, A(64, c - 4, r + 4)) = A(64, c - 4, r + 4)
    BY <1>2 DEF Load, A, BaseB
  <2>2. LastStore(0, 64, r, c) \in Int
    BY DEF LastStore, FirstStore, Parks, Chunk
  <2>3. Value(0, 64, k + 1, r, c) = A(64, c - 4, r + 4)
    BY <1>2, <2>2 DEF Value
  <2>4. Writes(0, 64, k, r, c)
    BY <1>2 DEF Writes
  <2> QED BY <2>1, <2>3, <2>4, SMTT(60) DEF PairRight
<1>3. ASSUME LastStore(0, 64, r, c) = k, r >= 4, c < 60,
             FirstStore(0, 64, r - 4, c + 4) < k, ~ (LastStore(0, 64, r - 4, c + 4) < k)
      PROVE  PairRight(k, <<B(64, r - 4, c + 4), B(64, r, c)>>)
  <2> DEFINE x == B(64, r - 4, c + 4)
  <2>1. ~ (x < BaseB) /\ (x - BaseB) \div 64 = r - 4 /\ (x - BaseB) % 64 = c + 4
    BY <1>3 DEF B, BaseB
  <2>2. Load(Held(0, 64, 64, k), 64, x) = Held(0, 64, 64, k)[r - 4][c + 4]
    BY <2>1 DEF Load
  <2>3. Held(0, 64, 64, k)[r - 4][c + 4] = Value(0, 64, k, r - 4, c + 4)
    <3>1. r - 4 \in 0 .. 64 - 1 /\ c + 4 \in 0 .. 64 - 1
      BY <1>3
    <3> QED BY <3>1 DEF Held
  <2>4. Value(0, 64, k, r - 4, c + 4) = A(64, (c + 4) - 4, (r - 4) + 4)
    BY <1>3 DEF Value
  <2>5. (c + 4) - 4 = c /\ (r - 4) + 4 = r
    OBVIOUS
  <2>6. Value(0, 64, k + 1, r, c) = A(64, c, r)
    BY <1>3 DEF Value
  <2>7. Writes(0, 64, k, r, c)
    BY <1>3 DEF Writes
  <2>8. Load(Held(0, 64, 64, k), 64, x) = Value(0, 64, k + 1, r, c)
    BY <2>2, <2>3, <2>4, <2>5, <2>6
  <2> DEFINE p == <<x, B(64, r, c)>>
  <2>9. p[1] = x /\ p[2] = B(64, r, c) /\ r \in 0 .. 64 - 1 /\ c \in 0 .. 64 - 1
    OBVIOUS
  <2> HIDE DEF x
  <2>10. PairRight(k, p)
    <3> HIDE DEF p
    <3> QED BY <2>7, <2>8, <2>9 DEF PairRight
  <2> QED BY <2>10 DEF x
<1> QED BY <1>1, <1>2, <1>3

LEMMA Concat4 ==
  ASSUME NEW S, NEW s \in Seq(S), NEW t \in Seq(S), Len(s) = 4, Len(t) = 4
  PROVE  /\ DOMAIN (s \o t) = 1 .. 8
         /\ \A u \in 1 .. 4 : (s \o t)[u] = s[u] /\ (s \o t)[4 + u] = t[u]
<1>1. /\ s \o t \in Seq(S) /\ Len(s \o t) = 8
      /\ \A u \in 1 .. 8 : (s \o t)[u] = IF u <= 4 THEN s[u] ELSE t[u - 4]
  <2>1. /\ s \o t \in Seq(S) /\ Len(s \o t) = Len(s) + Len(t)
        /\ \A u \in 1 .. Len(s) + Len(t) :
             (s \o t)[u] = IF u <= Len(s) THEN s[u] ELSE t[u - Len(s)]
    BY ConcatProperties, Zenon
  <2>2. Len(s) + Len(t) = 8
    OBVIOUS
  <2> QED BY <2>1, <2>2, Zenon
<1>2. DOMAIN (s \o t) = 1 .. 8
  BY <1>1
<1>3. ASSUME NEW u \in 1 .. 4 PROVE (s \o t)[u] = s[u] /\ (s \o t)[4 + u] = t[u]
  <2>1. /\ u \in 1 .. 8 /\ u <= 4 /\ 4 + u \in 1 .. 8
        /\ ~ (4 + u <= 4) /\ (4 + u) - 4 = u
    OBVIOUS
  <2> QED BY <1>1, <2>1
<1> QED BY <1>2, <1>3

(* The elements of the pairs of a loop.                                    *)
LEMMA Loops64Pairs ==
  ASSUME NEW q \in 0 .. 7, NEW j \in 0 .. 7, NEW l \in 0 .. 3
  PROVE  LET both == Down(q, j, l, 0) \o Parked(q, j, l)
         IN  /\ DOMAIN both = 1 .. 8
             /\ \A u \in 1 .. 4 : both[u] = Down(q, j, l, 0)[u] /\ both[4 + u] = Parked(q, j, l)[u]
<1> DEFINE S == Int \X Int
<1>1. Down(q, j, l, 0) \in Seq(S) /\ Len(Down(q, j, l, 0)) = 4
  <2>1. \A t \in 1 .. 4 : <<A(64, q * 8 + 3 + t, j * 8 + l + 0), B(64, j * 8 + l + 0, q * 8 + 3 + t)>> \in S
    BY DEF A, B, BaseB
  <2> QED BY <2>1 DEF Down
<1>2. Parked(q, j, l) \in Seq(S) /\ Len(Parked(q, j, l)) = 4
  <2>1. \A t \in 1 .. 4 : <<B(64, j * 8 + l, q * 8 + 3 + t), B(64, j * 8 + l + 4, q * 8 + t - 1)>> \in S
    BY DEF B, BaseB
  <2> QED BY <2>1 DEF Parked
<1> HIDE DEF S
<1> DEFINE s == Down(q, j, l, 0)
           t == Parked(q, j, l)
<1>3. s \in Seq(S) /\ t \in Seq(S) /\ Len(s) = 4 /\ Len(t) = 4
  BY <1>1, <1>2, Zenon
<1> HIDE DEF s, t
<1>4. /\ DOMAIN (s \o t) = 1 .. 8
      /\ \A u \in 1 .. 4 : (s \o t)[u] = s[u] /\ (s \o t)[4 + u] = t[u]
  BY <1>3, Concat4, SMTT(30)
<1> QED BY <1>4, Zenon DEF s, t

LEMMA SolveRight64 ==
  ASSUME NEW k \in 0 .. 1023
  PROVE  Right(0, 64, 64, k, solve_64(64, 64, k).pairs)
<1> DEFINE q == k \div 128
           j == (k \div 16) % 8
           loop == (k \div 4) % 4
           l == k % 4
           pairs == solve_64(64, 64, k).pairs
<1>1. /\ q \in 0 .. 7 /\ j \in 0 .. 7 /\ loop \in 0 .. 3 /\ l \in 0 .. 3
      /\ k = q * 128 + j * 16 + loop * 4 + l
  <2>1. /\ k = (k \div 4) * 4 + l
        /\ k \div 4 = (k \div 16) * 4 + loop /\ k \div 16 = q * 8 + j
    OBVIOUS
  <2>2. q \in 0 .. 7 /\ j \in 0 .. 7 /\ loop \in 0 .. 3 /\ l \in 0 .. 3
    OBVIOUS
  <2> QED BY <2>1, <2>2
<1>2. /\ loop = 0 => pairs = Quarter0(q, j, l)
      /\ loop = 1 => pairs = Quarter1(q, j, l)
      /\ loop = 2 => pairs = Down(q, j, l, 0) \o Parked(q, j, l)
      /\ loop = 3 => pairs = Down(q, j, l, 4)
      /\ solve_64(64, 64, k) = LoadsFirst(pairs)
  BY Loops64, ZenonT(60)
<1>3. k \in Nat
  OBVIOUS
<1> HIDE DEF q, j, loop, l, pairs
<1>4. /\ loop # 2 => DOMAIN pairs = 1 .. 4
      /\ loop = 2 => /\ DOMAIN pairs = 1 .. 8
                     /\ \A u \in 1 .. 4 : /\ pairs[u] = Down(q, j, l, 0)[u]
                                          /\ pairs[4 + u] = Parked(q, j, l)[u]
  <2>1. CASE loop # 2
    BY <1>1, <1>2, <2>1 DEF Quarter0, Quarter1, Down
  <2>2. CASE loop = 2
    <3>1. /\ DOMAIN (Down(q, j, l, 0) \o Parked(q, j, l)) = 1 .. 8
          /\ \A u \in 1 .. 4 :
               /\ (Down(q, j, l, 0) \o Parked(q, j, l))[u] = Down(q, j, l, 0)[u]
               /\ (Down(q, j, l, 0) \o Parked(q, j, l))[4 + u] = Parked(q, j, l)[u]
      BY <1>1, Loops64Pairs, Zenon
    <3>2. pairs = Down(q, j, l, 0) \o Parked(q, j, l)
      BY <1>2, <2>2
    <3> QED BY <2>2, <3>1, <3>2, Zenon
  <2> QED BY <2>1, <2>2
(* Each of the pairs is right.                                             *)
<1>5. ASSUME NEW u \in DOMAIN pairs PROVE PairRight(k, pairs[u])
  <2>1. ASSUME loop = 0 PROVE PairRight(k, pairs[u])
    <3> DEFINE a == u - 1
    <3>1. a \in 0 .. 7 /\ a < 4 /\ l < 4
      BY <1>1, <1>4, <2>1
    <3>2. pairs[u] = <<A(64, q * 8 + l, j * 8 + a), B(64, j * 8 + a, q * 8 + l)>>
      BY <1>1, <1>2, <1>4, <2>1 DEF Quarter0
    <3> HIDE DEF a
    <3>3. /\ j * 8 + a \in 0 .. 63 /\ q * 8 + l \in 0 .. 63
          /\ LastStore(0, 64, j * 8 + a, q * 8 + l) = k
      BY <1>1, <2>1, <3>1, Place64
    <3> QED BY <3>2, <3>3, <1>3, Moved64, ZenonT(60)
  <2>2. ASSUME loop = 1 PROVE PairRight(k, pairs[u])
    <3> DEFINE a == u - 1
               b == l + 4
    <3>1. a \in 0 .. 7 /\ a < 4 /\ b \in 0 .. 7 /\ b >= 4
      <4>1. u \in 1 .. 4
        BY <1>4, <2>2
      <4> QED BY <1>1, <4>1
    <3>2. pairs[u] = <<A(64, (q * 8 + b) - 4, (j * 8 + a) + 4), B(64, j * 8 + a, q * 8 + b)>>
      <4>1. pairs[u] = <<A(64, q * 8 + l, j * 8 + 4 + u - 1), B(64, j * 8 + u - 1, q * 8 + l + 4)>>
        BY <1>1, <1>2, <1>4, <2>2 DEF Quarter1
      <4>2. /\ q * 8 + l = (q * 8 + b) - 4 /\ j * 8 + 4 + u - 1 = (j * 8 + a) + 4
            /\ j * 8 + u - 1 = j * 8 + a /\ q * 8 + l + 4 = q * 8 + b
        BY <1>1, <3>1
      <4> QED BY <4>1, <4>2
    <3>3. k = q * 128 + j * 16 + b
      BY <1>1, <2>2
    <3> HIDE DEF a, b
    <3>4. /\ j * 8 + a \in 0 .. 63 /\ q * 8 + b \in 0 .. 63
          /\ FirstStore(0, 64, j * 8 + a, q * 8 + b) = q * 128 + j * 16 + b
          /\ LastStore(0, 64, j * 8 + a, q * 8 + b) = q * 128 + j * 16 + (8 + a)
      BY <1>1, <3>1, Place64
    <3>5. q * 8 + b >= 4 /\ j * 8 + a < 60 /\ q * 128 + j * 16 + (8 + a) > k
      BY <1>1, <3>1, <3>3
    <3>6. /\ FirstStore(0, 64, j * 8 + a, q * 8 + b) = k
          /\ LastStore(0, 64, j * 8 + a, q * 8 + b) > k
      BY <3>3, <3>4, <3>5
    <3>7. PairRight(k, <<A(64, (q * 8 + b) - 4, (j * 8 + a) + 4), B(64, j * 8 + a, q * 8 + b)>>)
      BY <3>4, <3>5, <3>6, <1>3, Moved64, ZenonT(40)
    <3> QED BY <3>2, <3>7
  <2>3. ASSUME loop = 2, u \in 1 .. 4 PROVE PairRight(k, pairs[u])
    <3> DEFINE b == 3 + u
    <3>1. b \in 0 .. 7 /\ b >= 4 /\ l \in 0 .. 7 /\ l < 4
      BY <1>1, <2>3
    <3>2. pairs[u] = <<A(64, q * 8 + b, j * 8 + l), B(64, j * 8 + l, q * 8 + b)>>
      <4>1. pairs[u] = Down(q, j, l, 0)[u] /\ u \in 1 .. 4
        BY <1>4, <2>3, Zenon
      <4>2. Down(q, j, l, 0)[u] = <<A(64, q * 8 + 3 + u, j * 8 + l + 0), B(64, j * 8 + l + 0, q * 8 + 3 + u)>>
        BY <4>1 DEF Down
      <4>3. q * 8 + 3 + u = q * 8 + b /\ j * 8 + l + 0 = j * 8 + l
        BY <1>1, <4>1
      <4> QED BY <4>1, <4>2, <4>3
    <3> HIDE DEF b
    <3>3. /\ j * 8 + l \in 0 .. 63 /\ q * 8 + b \in 0 .. 63
          /\ LastStore(0, 64, j * 8 + l, q * 8 + b) = k
      BY <1>1, <2>3, <3>1, Place64
    <3> QED BY <3>2, <3>3, <1>3, Moved64, ZenonT(60)
  <2>4. ASSUME loop = 2, NEW v \in 1 .. 4, u = 4 + v PROVE PairRight(k, pairs[u])
    <3> DEFINE b == v - 1
               a == l + 4
    <3>1. /\ b \in 0 .. 7 /\ b < 4 /\ b + 4 \in 0 .. 7
          /\ a \in 0 .. 7 /\ a >= 4 /\ l \in 0 .. 7 /\ l < 4
      BY <1>1
    <3>2. pairs[u] = <<B(64, (j * 8 + a) - 4, (q * 8 + b) + 4), B(64, j * 8 + a, q * 8 + b)>>
      <4>1. pairs[u] = <<B(64, j * 8 + l, q * 8 + 3 + v), B(64, j * 8 + l + 4, q * 8 + v - 1)>>
        BY <1>1, <1>4, <2>4 DEF Parked
      <4>2. /\ j * 8 + l = (j * 8 + a) - 4 /\ q * 8 + 3 + v = (q * 8 + b) + 4
            /\ j * 8 + l + 4 = j * 8 + a /\ q * 8 + v - 1 = q * 8 + b
        BY <1>1
      <4> QED BY <4>1, <4>2
    <3>3. /\ k = q * 128 + j * 16 + (8 + l) /\ a = l + 4
          /\ (j * 8 + a) - 4 = j * 8 + l /\ (q * 8 + b) + 4 = q * 8 + (b + 4)
      BY <1>1, <2>4
    <3> HIDE DEF a, b
    <3>4. /\ j * 8 + a \in 0 .. 63 /\ q * 8 + b \in 0 .. 63
          /\ LastStore(0, 64, j * 8 + a, q * 8 + b) = q * 128 + j * 16 + (4 + a)
      BY <1>1, <3>1, Place64, SMTT(60)
    <3>5. /\ FirstStore(0, 64, j * 8 + l, q * 8 + (b + 4)) = q * 128 + j * 16 + (b + 4)
          /\ LastStore(0, 64, j * 8 + l, q * 8 + (b + 4)) = q * 128 + j * 16 + (8 + l)
      <4>1. b + 4 >= 4
        BY <3>1
      <4> QED BY <1>1, <3>1, <4>1, Place64
    <3>6. /\ q * 128 + j * 16 + (4 + a) = k /\ q * 128 + j * 16 + (b + 4) < k
          /\ j * 8 + a >= 4 /\ q * 8 + b < 60
          /\ ~ (q * 128 + j * 16 + (8 + l) < k)
      BY <1>1, <3>1, <3>3
    <3>7. /\ FirstStore(0, 64, (j * 8 + a) - 4, (q * 8 + b) + 4) < k
          /\ ~ (LastStore(0, 64, (j * 8 + a) - 4, (q * 8 + b) + 4) < k)
      BY <3>3, <3>5, <3>6
    <3>8. LastStore(0, 64, j * 8 + a, q * 8 + b) = k
      BY <3>4, <3>6
    <3> QED BY <3>2, <3>4, <3>6, <3>7, <3>8, <1>3, Moved64, ZenonT(60)
  <2>5. ASSUME loop = 3 PROVE PairRight(k, pairs[u])
    <3> DEFINE a == l + 4
               b == 3 + u
    <3>1. a \in 0 .. 7 /\ a >= 4 /\ b \in 0 .. 7 /\ b >= 4
      BY <1>1, <1>4, <2>5
    <3>2. pairs[u] = <<A(64, q * 8 + b, j * 8 + a), B(64, j * 8 + a, q * 8 + b)>>
      BY <1>1, <1>2, <1>4, <2>5 DEF Down
    <3>3. k = q * 128 + j * 16 + (8 + a)
      BY <1>1, <2>5
    <3> HIDE DEF a, b
    <3>4. /\ j * 8 + a \in 0 .. 63 /\ q * 8 + b \in 0 .. 63
          /\ LastStore(0, 64, j * 8 + a, q * 8 + b) = k
      BY <1>1, <3>1, <3>3, Place64, SMTT(60)
    <3> QED BY <3>2, <3>4, <1>3, Moved64, ZenonT(60)
  <2>6. loop = 2 => u \in 1 .. 4 \/ \E v \in 1 .. 4 : u = 4 + v
    <3> SUFFICES ASSUME loop = 2, u \notin 1 .. 4 PROVE \E v \in 1 .. 4 : u = 4 + v
      OBVIOUS
    <3>1. u - 4 \in 1 .. 4 /\ u = 4 + (u - 4)
      BY <1>4
    <3> QED BY <3>1
  <2> QED BY <1>1, <2>1, <2>2, <2>3, <2>4, <2>5, <2>6
<1>6. ASSUME NEW r \in 0 .. 63, NEW c \in 0 .. 63, Writes(0, 64, k, r, c)
      PROVE  \E u \in DOMAIN pairs : pairs[u][2] = B(64, r, c)
  <2>1. PICK a \in 0 .. 7, b \in 0 .. 7 :
          /\ r = j * 8 + a /\ c = q * 8 + b
          /\ \/ loop = 0 /\ a < 4 /\ b = l
             \/ loop = 1 /\ a < 4 /\ b = l + 4
             \/ loop = 2 /\ a = l /\ b >= 4
             \/ loop = 2 /\ a = l + 4 /\ b < 4
             \/ loop = 3 /\ a = l + 4 /\ b >= 4
    <3>1. InLoop(k, r, c)
      BY <1>6, Chunk64, ZenonT(60)
    <3> QED BY <3>1, Zenon DEF InLoop, q, j, loop, l
  <2>2. CASE loop = 0 \/ loop = 1
    <3>1. a + 1 \in DOMAIN pairs /\ r = j * 8 + (a + 1) - 1
      BY <1>1, <1>4, <2>1, <2>2
    <3>2. CASE loop = 0
      <4>1. pairs[a + 1][2] = B(64, j * 8 + (a + 1) - 1, q * 8 + l + 0)
        <5>1. a + 1 \in 1 .. 4 /\ pairs = Quarter0(q, j, l)
          BY <1>2, <1>4, <3>1, <3>2
        <5> QED BY <5>1 DEF Quarter0
      <4>2. c = q * 8 + l + 0
        BY <1>1, <2>1, <3>2
      <4> QED BY <3>1, <4>1, <4>2
    <3>3. CASE loop = 1
      <4>1. pairs[a + 1][2] = B(64, j * 8 + (a + 1) - 1, q * 8 + l + 4)
        <5>1. a + 1 \in 1 .. 4 /\ pairs = Quarter1(q, j, l)
          BY <1>2, <1>4, <3>1, <3>3
        <5> QED BY <5>1 DEF Quarter1
      <4>2. c = q * 8 + l + 4
        BY <1>1, <2>1, <3>3
      <4> QED BY <3>1, <4>1, <4>2
    <3> QED BY <2>2, <3>2, <3>3
  <2>3. CASE (loop = 2 \/ loop = 3) /\ b >= 4
    <3>1. b - 3 \in 1 .. 4 /\ c = q * 8 + 3 + (b - 3)
      BY <1>1, <2>1, <2>3
    <3>2. CASE loop = 2
      <4>1. pairs[b - 3][2] = B(64, j * 8 + l + 0, q * 8 + 3 + (b - 3)) /\ b - 3 \in DOMAIN pairs
        BY <1>4, <3>1, <3>2 DEF Down
      <4>2. r = j * 8 + l + 0
        BY <1>1, <2>1, <2>3, <3>2
      <4> QED BY <3>1, <4>1, <4>2
    <3>3. CASE loop = 3
      <4>1. pairs[b - 3][2] = B(64, j * 8 + l + 4, q * 8 + 3 + (b - 3)) /\ b - 3 \in DOMAIN pairs
        BY <1>2, <1>4, <3>1, <3>3 DEF Down
      <4>2. r = j * 8 + l + 4
        BY <1>1, <2>1, <2>3, <3>3
      <4> QED BY <3>1, <4>1, <4>2
    <3> QED BY <2>3, <3>2, <3>3
  <2>4. CASE loop = 2 /\ b < 4
    <3>1. b + 1 \in 1 .. 4 /\ c = q * 8 + (b + 1) - 1 /\ r = j * 8 + l + 4
      BY <1>1, <2>1, <2>4
    <3>2. pairs[4 + (b + 1)][2] = B(64, j * 8 + l + 4, q * 8 + (b + 1) - 1)
      BY <1>4, <2>4, <3>1 DEF Parked
    <3>3. 4 + (b + 1) \in DOMAIN pairs
      BY <1>4, <2>4, <3>1
    <3> QED BY <3>1, <3>2, <3>3
  <2> QED BY <2>1, <2>2, <2>3, <2>4
<1>7. Right(0, 64, 64, k, pairs)
  <2>1. 0 .. 63 = 0 .. 64 - 1
    OBVIOUS
  <2> QED BY <1>5, <1>6, <2>1 DEF Right, PairRight
<1> QED BY <1>7 DEF pairs

LEMMA IterationRight ==
  ASSUME NEW f \in 0 .. 1, NEW w, NEW h, IsSize(w, h), NEW k \in 0 .. Iterations(f, w, h) - 1
  PROVE  Right(f, w, h, k, Iteration(f, w, h, k).pairs)
<1>1. CASE f = 1
  BY <1>1, TransRight DEF Iteration, Iterations
<1>2. CASE f = 0 /\ w = 32
  BY <1>2, SolveRight32 DEF Iteration, Iterations, transpose_submit, IsSize
<1>3. CASE f = 0 /\ w = 64
  <2>1. h = 64 /\ k \in 0 .. 1023
    BY <1>3 DEF IsSize, Iterations
  <2>2. Iteration(f, w, h, k) = solve_64(64, 64, k)
    BY <1>3, <2>1 DEF Iteration, transpose_submit
  <2> QED BY <1>3, <2>1, <2>2, SolveRight64, ZenonT(60)
<1>4. CASE f = 0 /\ w = 61
  <2>1. h = 67 /\ k \in 0 .. 424
    BY <1>4 DEF IsSize, Iterations
  <2>2. Iteration(f, w, h, k) = solve_61(61, 67, k)
    BY <1>4, <2>1 DEF Iteration, transpose_submit
  <2> QED BY <1>4, <2>1, <2>2, SolveRight61
<1> QED BY <1>1, <1>2, <1>3, <1>4 DEF IsSize

(***************************************************************************)
(* What they load and store lies in the two matrices.                      *)
(***************************************************************************)
InA(w, h) == 0 .. w * h - 1
InB(w, h) == BaseB .. BaseB + w * h - 1
Ints(w, h) == InA(w, h) \cup InB(w, h)

LEMMA MatrixLemma ==
  ASSUME NEW w, NEW h, IsSize(w, h), NEW r \in 0 .. w - 1, NEW c \in 0 .. h - 1
  PROVE  A(w, c, r) \in Ints(w, h) /\ B(h, r, c) \in Ints(w, h)
<1>1. CASE w = 32 /\ h = 32
  BY <1>1 DEF A, B, Ints, InA, InB, BaseB
<1>2. CASE w = 64 /\ h = 64
  BY <1>2, SMTT(60) DEF A, B, Ints, InA, InB, BaseB
<1>3. CASE w = 61 /\ h = 67
  <2>1. A(w, c, r) \in InA(w, h)
    BY <1>3 DEF A, InA
  <2>2. B(h, r, c) \in InB(w, h)
    BY <1>3 DEF B, InB, BaseB
  <2> QED BY <2>1, <2>2 DEF Ints
<1> QED BY <1>1, <1>2, <1>3 DEF IsSize

LEMMA LoadsFirstAccesses ==
  ASSUME NEW S, NEW pairs \in Seq(S \X S)
  PROVE  \A x \in Range(LoadsFirst(pairs).accesses) : x \in S
<1> DEFINE from == [t \in DOMAIN pairs |-> pairs[t][1]]
           to == [t \in DOMAIN pairs |-> pairs[t][2]]
<1>1. \A t \in 1 .. Len(pairs) : pairs[t][1] \in S /\ pairs[t][2] \in S
  OBVIOUS
<1>2. from \in Seq(S) /\ to \in Seq(S)
  BY <1>1
<1>3. from \o to \in Seq(S)
  BY <1>2
<1>4. LoadsFirst(pairs).accesses = from \o to
  BY DEF LoadsFirst
<1> HIDE DEF from, to
<1> QED BY <1>3, <1>4 DEF Range

LEMMA OneByOneAccesses ==
  ASSUME NEW S, NEW pairs \in Seq(S \X S)
  PROVE  \A x \in Range(OneByOne(pairs).accesses) : x \in S
<1>1. \A t \in 1 .. Len(pairs) : pairs[t][1] \in S /\ pairs[t][2] \in S
  OBVIOUS
<1>2. ASSUME NEW t \in 1 .. 2 * Len(pairs)
      PROVE  pairs[(t + 1) \div 2][IF t % 2 = 1 THEN 1 ELSE 2] \in S
  <2>1. (t + 1) \div 2 \in 1 .. Len(pairs)
    OBVIOUS
  <2> QED BY <1>1, <2>1
<1>3. OneByOne(pairs).accesses =
        [t \in 1 .. 2 * Len(pairs) |-> pairs[(t + 1) \div 2][IF t % 2 = 1 THEN 1 ELSE 2]]
  BY DEF OneByOne
<1> QED BY <1>2, <1>3 DEF Range

LEMMA SolveInts32 ==
  ASSUME NEW k \in 0 .. 127
  PROVE  \A x \in Range(solve_32(32, 32, k).accesses) : x \in Ints(32, 32)
<1> DEFINE q == k \div 32
           j == (k \div 8) % 4
           l == k % 8
           pairs == [t \in 1 .. 8 |-> <<A(32, l + q * 8, j * 8 + t - 1), B(32, j * 8 + t - 1, l + q * 8)>>]
<1>1. q \in 0 .. 3 /\ j \in 0 .. 3 /\ l \in 0 .. 7
  OBVIOUS
<1>2. solve_32(32, 32, k) = LoadsFirst(pairs)
  BY DEF solve_32
<1> HIDE DEF q, j, l
<1>3. \A t \in 1 .. 8 : /\ A(32, l + q * 8, j * 8 + t - 1) \in Ints(32, 32)
                        /\ B(32, j * 8 + t - 1, l + q * 8) \in Ints(32, 32)
  BY <1>1 DEF A, B, Ints, InA, InB, BaseB
<1>4. pairs \in Seq(Ints(32, 32) \X Ints(32, 32))
  BY <1>3
<1> QED BY <1>2, <1>4, LoadsFirstAccesses

LEMMA SolveInts61 ==
  ASSUME NEW k \in 0 .. 424
  PROVE  \A x \in Range(solve_61(61, 67, k).accesses) : x \in Ints(61, 67)
<1> DEFINE q == k \div 85
           j == (k \div 17) % 5
           l == k % 17
           Inside == {t \in 1 .. 17 : q * 17 + l < 61 /\ j * 17 + t - 1 < 67}
           pairs == [t \in Inside |-> <<A(61, j * 17 + t - 1, q * 17 + l), B(67, q * 17 + l, j * 17 + t - 1)>>]
<1>1. q \in 0 .. 4 /\ j \in 0 .. 4 /\ l \in 0 .. 16
  OBVIOUS
<1>2. solve_61(61, 67, k) = OneByOne(pairs)
  BY DEF solve_61
<1> HIDE DEF q, j, l
<1>3. \A t \in Inside : /\ A(61, j * 17 + t - 1, q * 17 + l) \in Ints(61, 67)
                        /\ B(67, q * 17 + l, j * 17 + t - 1) \in Ints(61, 67)
  <2> SUFFICES ASSUME NEW t \in Inside
               PROVE  /\ A(61, j * 17 + t - 1, q * 17 + l) \in Ints(61, 67)
                      /\ B(67, q * 17 + l, j * 17 + t - 1) \in Ints(61, 67)
    OBVIOUS
  <2>1. q * 17 + l \in 0 .. 61 - 1 /\ j * 17 + t - 1 \in 0 .. 67 - 1
    BY <1>1
  <2> QED BY <2>1, MatrixLemma, SMTT(60) DEF IsSize
<1>4. \E m \in Nat : Inside = 1 .. m
  <2>1. CASE q * 17 + l < 61 /\ j * 17 <= 50
    <3>1. \A t \in 1 .. 17 : j * 17 + t - 1 < 67
      BY <1>1, <2>1
    <3>2. Inside = 1 .. 17
      BY <2>1, <3>1
    <3> QED BY <3>2
  <2>2. CASE q * 17 + l < 61 /\ j * 17 = 51
    <3>1. \A t \in 1 .. 17 : j * 17 + t - 1 < 67 <=> t \in 1 .. 16
      BY <2>2
    <3>2. Inside = 1 .. 16
      BY <2>2, <3>1
    <3> QED BY <3>2
  <2>3. CASE ~ (q * 17 + l < 61) \/ j * 17 > 67
    <3>1. Inside = 1 .. 0
      BY <1>1, <2>3
    <3> QED BY <3>1
  <2>4. j * 17 <= 50 \/ j * 17 = 51 \/ j * 17 > 67
    BY <1>1
  <2> QED BY <2>1, <2>2, <2>3, <2>4
<1> HIDE DEF Inside
<1>5. pairs \in Seq(Ints(61, 67) \X Ints(61, 67))
  BY <1>3, <1>4
<1> QED BY <1>2, <1>5, OneByOneAccesses

LEMMA TransInts ==
  ASSUME NEW w, NEW h, IsSize(w, h), NEW k \in 0 .. h - 1
  PROVE  \A x \in Range(trans(w, h, k).accesses) : x \in Ints(w, h)
<1> DEFINE pairs == [t \in 1 .. w |-> <<A(w, k, t - 1), B(h, t - 1, k)>>]
<1>1. \A t \in 1 .. w : A(w, k, t - 1) \in Ints(w, h) /\ B(h, t - 1, k) \in Ints(w, h)
  <2> SUFFICES ASSUME NEW t \in 1 .. w
               PROVE  A(w, k, t - 1) \in Ints(w, h) /\ B(h, t - 1, k) \in Ints(w, h)
    OBVIOUS
  <2>1. t - 1 \in 0 .. w - 1
    BY DEF IsSize
  <2> QED BY <2>1, MatrixLemma
<1>2. w \in Nat
  BY DEF IsSize
<1>3. pairs \in Seq(Ints(w, h) \X Ints(w, h))
  BY <1>1, <1>2
<1>4. trans(w, h, k) = OneByOne(pairs)
  BY DEF trans
<1> HIDE DEF pairs
<1> QED BY <1>3, <1>4, OneByOneAccesses

LEMMA SolveInts64 ==
  ASSUME NEW k \in 0 .. 1023
  PROVE  \A x \in Range(solve_64(64, 64, k).accesses) : x \in Ints(64, 64)
<1> DEFINE q == k \div 128
           j == (k \div 16) % 8
           loop == (k \div 4) % 4
           l == k % 4
           pairs == solve_64(64, 64, k).pairs
           S == Ints(64, 64)
<1>1. q \in 0 .. 7 /\ j \in 0 .. 7 /\ loop \in 0 .. 3 /\ l \in 0 .. 3
  OBVIOUS
<1>2. /\ solve_64(64, 64, k) = LoadsFirst(pairs)
      /\ loop = 0 => pairs = Quarter0(q, j, l)
      /\ loop = 1 => pairs = Quarter1(q, j, l)
      /\ loop = 2 => pairs = Down(q, j, l, 0) \o Parked(q, j, l)
      /\ loop = 3 => pairs = Down(q, j, l, 4)
  BY Loops64, ZenonT(60)
<1> HIDE DEF q, j, loop, l, pairs, S
<1>3. \A r \in 0 .. 63, c \in 0 .. 63 : A(64, c, r) \in S /\ B(64, r, c) \in S
  BY MatrixLemma DEF IsSize, S
<1>4. Quarter0(q, j, l) \in Seq(S \X S)
  <2>1. ASSUME NEW t \in 1 .. 4
        PROVE  A(64, q * 8 + l, j * 8 + 0 + t - 1) \in S /\ B(64, j * 8 + t - 1, q * 8 + l + 0) \in S
    <3>1. /\ q * 8 + l \in 0 .. 63 /\ j * 8 + 0 + t - 1 \in 0 .. 63
          /\ j * 8 + t - 1 \in 0 .. 63 /\ q * 8 + l + 0 \in 0 .. 63
      BY <1>1
    <3> QED BY <1>3, <3>1, Zenon
  <2> QED BY <2>1 DEF Quarter0
<1>5. Quarter1(q, j, l) \in Seq(S \X S)
  <2>1. ASSUME NEW t \in 1 .. 4
        PROVE  A(64, q * 8 + l, j * 8 + 4 + t - 1) \in S /\ B(64, j * 8 + t - 1, q * 8 + l + 4) \in S
    <3>1. /\ q * 8 + l \in 0 .. 63 /\ j * 8 + 4 + t - 1 \in 0 .. 63
          /\ j * 8 + t - 1 \in 0 .. 63 /\ q * 8 + l + 4 \in 0 .. 63
      BY <1>1
    <3> QED BY <1>3, <3>1, Zenon
  <2> QED BY <2>1 DEF Quarter1
<1>6. ASSUME NEW d \in {0, 4} PROVE Down(q, j, l, d) \in Seq(S \X S)
  <2>1. ASSUME NEW t \in 1 .. 4
        PROVE  A(64, q * 8 + 3 + t, j * 8 + l + d) \in S /\ B(64, j * 8 + l + d, q * 8 + 3 + t) \in S
    <3>1. q * 8 + 3 + t \in 0 .. 63 /\ j * 8 + l + d \in 0 .. 63
      BY <1>1
    <3> QED BY <1>3, <3>1, Zenon
  <2> QED BY <2>1 DEF Down
<1>7. Parked(q, j, l) \in Seq(S \X S)
  <2>1. ASSUME NEW t \in 1 .. 4
        PROVE  B(64, j * 8 + l, q * 8 + 3 + t) \in S /\ B(64, j * 8 + l + 4, q * 8 + t - 1) \in S
    <3>1. /\ j * 8 + l \in 0 .. 63 /\ q * 8 + 3 + t \in 0 .. 63
          /\ j * 8 + l + 4 \in 0 .. 63 /\ q * 8 + t - 1 \in 0 .. 63
      BY <1>1
    <3> QED BY <1>3, <3>1, Zenon
  <2> QED BY <2>1 DEF Parked
<1>8. Down(q, j, l, 0) \o Parked(q, j, l) \in Seq(S \X S)
  BY <1>6, <1>7, ConcatProperties
<1>9. pairs \in Seq(S \X S)
  <2>1. loop = 0 \/ loop = 1 \/ loop = 2 \/ loop = 3
    BY <1>1
  <2>2. Down(q, j, l, 4) \in Seq(S \X S)
    BY <1>6
  <2> QED BY <1>2, <1>4, <1>5, <1>8, <2>1, <2>2, Zenon
<1> QED BY <1>2, <1>9, LoadsFirstAccesses DEF S

(* No iteration leaves the two matrices.                                   *)
LEMMA IterationInts ==
  ASSUME NEW f \in 0 .. 1, NEW w, NEW h, IsSize(w, h), NEW k \in 0 .. Iterations(f, w, h) - 1
  PROVE  \A x \in Range(Iteration(f, w, h, k).accesses) : x \in Ints(w, h)
<1>1. CASE f = 1
  BY <1>1, TransInts DEF Iteration, Iterations
<1>2. CASE f = 0 /\ w = 32
  <2>1. h = 32 /\ k \in 0 .. 127
    BY <1>2 DEF IsSize, Iterations
  <2>2. Iteration(f, w, h, k) = solve_32(32, 32, k)
    BY <1>2, <2>1 DEF Iteration, transpose_submit
  <2> QED BY <1>2, <2>1, <2>2, SolveInts32
<1>3. CASE f = 0 /\ w = 64
  <2>1. h = 64 /\ k \in 0 .. 1023
    BY <1>3 DEF IsSize, Iterations
  <2>2. Iteration(f, w, h, k) = solve_64(64, 64, k)
    BY <1>3, <2>1 DEF Iteration, transpose_submit
  <2> QED BY <1>3, <2>1, <2>2, SolveInts64, ZenonT(60)
<1>4. CASE f = 0 /\ w = 61
  <2>1. h = 67 /\ k \in 0 .. 424
    BY <1>4 DEF IsSize, Iterations
  <2>2. Iteration(f, w, h, k) = solve_61(61, 67, k)
    BY <1>4, <2>1 DEF Iteration, transpose_submit
  <2> QED BY <1>4, <2>1, <2>2, SolveInts61
<1> QED BY <1>1, <1>2, <1>3, <1>4 DEF IsSize

(***************************************************************************)
(* The invariant.                                                          *)
(***************************************************************************)
LEMMA HeldEnds ==
  ASSUME NEW f \in 0 .. 1, NEW w, NEW h, IsSize(w, h)
  PROVE  /\ Held(f, w, h, 0) = [r \in 0 .. w - 1 |-> [c \in 0 .. h - 1 |-> Random]]
         /\ Held(f, w, h, Iterations(f, w, h)) = correctTrans(w, h)
<1>1. ASSUME NEW r \in 0 .. w - 1, NEW c \in 0 .. h - 1
      PROVE  Value(f, w, 0, r, c) = Random /\ Value(f, w, Iterations(f, w, h), r, c) = A(w, c, r)
  <2>1. /\ FirstStore(f, w, r, c) \in 0 .. Iterations(f, w, h) - 1
        /\ LastStore(f, w, r, c) \in 0 .. Iterations(f, w, h) - 1
    BY FirstLemma
  <2>2. Iterations(f, w, h) \in Nat
    BY DEF Iterations, IsSize
  <2> QED BY <2>1, <2>2 DEF Value
<1> QED BY <1>1 DEF Held, correctTrans

(* Where test-trans is, and what its child has made of B.                  *)
PCs == {"popen", "eval_perf", "tracegen", "csim-ref", "collect"}
ControlInv ==
  /\ valgrindRuns \in BOOLEAN /\ simRuns \in BOOLEAN
  /\ size \in 1 .. 4 /\ i \in 0 .. 2 /\ pc \in PCs
  /\ pc # "popen" => size \in 1 .. 3
  /\ alarmed \in BOOLEAN /\ (alarmed => pc # "popen")
  /\ pc \in {"tracegen", "csim-ref", "collect"} => valgrindRuns /\ i \in 0 .. 1
  /\ \E L : lines \in Seq(L)
MemInv ==
  pc = "tracegen" => n \in 0 .. Iterations(i, M, N) /\ mem = Held(i, M, N, n)
FreshInv == pc # "tracegen" => n = 0

(* The results are those of the submission: no child writes to the files   *)
(* of a later run before a run has timed out.                              *)
Untimed == Timeouts = 0
ResultInv ==
  /\ DOMAIN trace = 0 .. 1 /\ DOMAIN results = {"correct", "misses"}
  /\ pc \in {"eval_perf", "tracegen"} /\ i = 0 =>
       results.correct = 0 /\ results.misses = INT_MAX
  /\ pc \in {"csim-ref", "collect"} \/ (pc # "popen" /\ i >= 1) =>
       /\ results.correct = 1 <=> valgrindRuns
       /\ results.correct = 0 => results.misses = INT_MAX
OwnInv ==
  simRuns /\ Untimed =>
    /\ orphans = {}
    /\ pc = "collect" => csim_results = trace[i]
    /\ pc # "popen" /\ i >= 1 /\ valgrindRuns => results.misses = trace[0]

IInv == ControlInv /\ MemInv /\ FreshInv /\ ResultInv /\ OwnInv

LEMMA SizeLemma ==
  ASSUME size \in 1 .. 3
  PROVE  IsSize(M, N) /\ M \in Nat /\ N \in Nat
  BY DEF IsSize, M, N, Sizes

(* A line that is written counts only itself.                              *)
LEMMA LinesLemma ==
  ASSUME NEW L, lines \in Seq(L), NEW line, lines' = Append(lines, line)
  PROVE  /\ \E K : lines' \in Seq(K)
         /\ Untimed' => Untimed /\ line # <<0, 0>>
<1>1. lines \in Seq(L \cup {line}) /\ lines' \in Seq(L \cup {line})
  OBVIOUS
<1>2. /\ DOMAIN lines = 1 .. Len(lines) /\ Len(lines) \in Nat
      /\ DOMAIN lines' = 1 .. Len(lines) + 1
      /\ \A s \in DOMAIN lines : lines'[s] = lines[s]
      /\ lines'[Len(lines) + 1] = line
  BY <1>1
<1> DEFINE T == {s \in DOMAIN lines : lines[s] = <<0, 0>>}
           T2 == {s \in DOMAIN lines' : lines'[s] = <<0, 0>>}
<1>3. Timeouts = Cardinality(T) /\ Timeouts' = Cardinality(T2)
  BY DEF Timeouts, TimedOut
<1>4. IsFiniteSet(T) /\ IsFiniteSet(T2)
  <2>1. IsFiniteSet(1 .. Len(lines)) /\ IsFiniteSet(1 .. Len(lines) + 1)
    BY <1>2, FS_Interval
  <2> QED BY <1>2, <2>1, FS_Subset
<1>5. T \subseteq T2 /\ (line = <<0, 0>> => Len(lines) + 1 \in T2)
  BY <1>2
<1> HIDE DEF T, T2
<1>6. Cardinality(T2) = 0 => T2 = {}
  BY <1>4, FS_EmptySet
<1>7. T = {} => Cardinality(T) = 0
  BY FS_EmptySet
<1> QED BY <1>1, <1>3, <1>5, <1>6, <1>7 DEF Untimed

LEMMA InitInvariant == Init => IInv
<1> SUFFICES ASSUME Init PROVE IInv
  OBVIOUS
<1>1. ControlInv
  <2>1. lines \in Seq({})
    BY DEF Init
  <2>2. /\ valgrindRuns \in BOOLEAN /\ simRuns \in BOOLEAN
        /\ size = 1 /\ i = 0 /\ pc = "popen" /\ alarmed = FALSE
    BY DEF Init
  <2>3. pc \in PCs
    BY <2>2 DEF PCs
  <2>4. size \in 1 .. 4 /\ i \in 0 .. 2 /\ size \in 1 .. 3
    BY <2>2
  <2>5. /\ alarmed \in BOOLEAN /\ (alarmed => pc # "popen")
        /\ pc \in {"tracegen", "csim-ref", "collect"} => valgrindRuns /\ i \in 0 .. 1
    BY <2>2
  <2>6. \E L : lines \in Seq(L)
    BY <2>1
  <2> QED BY <2>2, <2>3, <2>4, <2>5, <2>6, Zenon DEF ControlInv
<1> QED BY <1>1 DEF Init, IInv, MemInv, FreshInv, NoChild, ResultInv, OwnInv

(* A run ends with a line, and leaves no tracegen.                         *)
LEMMA AnsweredStep ==
  ASSUME IInv, pc # "popen", NEW line, Answered(line),
         UNCHANGED <<env, i, results, trace>>,
         line # <<0, 0>> => orphans' = orphans
  PROVE  IInv'
<1>1. /\ pc' = "popen" /\ n' = 0 /\ alarmed' = FALSE /\ size' = size + 1 /\ lines' = Append(lines, line)
  BY DEF Answered, ChildGone
<1>2. PICK L : lines \in Seq(L)
  BY DEF IInv, ControlInv
<1>3. (\E K : lines' \in Seq(K)) /\ (Untimed' => Untimed /\ line # <<0, 0>>)
  BY <1>1, <1>2, LinesLemma
<1>4. ControlInv'
  <2>1. /\ valgrindRuns' \in BOOLEAN /\ simRuns' \in BOOLEAN
        /\ size \in 1 .. 3 /\ i' \in 0 .. 2
    BY DEF IInv, ControlInv, env
  <2>2. pc' \in PCs
    BY <1>1 DEF PCs
  <2>3. size' \in 1 .. 4
    BY <1>1, <2>1
  <2>4. /\ alarmed' \in BOOLEAN /\ (alarmed' => pc' # "popen")
        /\ ~ (pc' # "popen")
        /\ ~ (pc' \in {"tracegen", "csim-ref", "collect"})
    BY <1>1
  <2> QED BY <1>3, <2>1, <2>2, <2>3, <2>4, Zenon DEF ControlInv
<1>5. OwnInv'
  BY <1>1, <1>3 DEF IInv, OwnInv, env
<1> QED BY <1>1, <1>4, <1>5 DEF IInv, MemInv, FreshInv, ResultInv

LEMMA StartStep == ASSUME IInv, Start PROVE IInv'
<1>1. size' = size /\ lines' = lines /\ alarmed' = TRUE /\ n' = n /\ orphans' = orphans /\ pc' = "eval_perf" /\ i' = 0
  BY DEF Start, driverVars, childVars
<1>2. Untimed' = Untimed
  BY <1>1 DEF Untimed, Timeouts, TimedOut
<1> QED BY <1>1, <1>2 DEF IInv, Start, ControlInv, MemInv, FreshInv, ResultInv, OwnInv, PCs, env

LEMMA StartTracegenStep == ASSUME IInv, StartTracegen PROVE IInv'
<1>1. /\ UNCHANGED <<alarmed, size, lines, orphans, n, results, trace, csim_results, env>>
      /\ M' = M /\ N' = N /\ pc = "eval_perf" /\ i < 2
  BY DEF StartTracegen, driverVars, M, N
<1>2. Untimed' = Untimed
  BY <1>1 DEF Untimed, Timeouts, TimedOut
<1>3. CASE valgrindRuns
  <2>1. /\ mem' = [r \in 0 .. M - 1 |-> [c \in 0 .. N - 1 |-> Random]]
        /\ pc' = "tracegen" /\ i' = i
    BY <1>3 DEF StartTracegen
  <2>2. n = 0 /\ i \in 0 .. 1 /\ IsSize(M, N) /\ size \in 1 .. 3
    BY <1>1, SizeLemma DEF IInv, FreshInv, ControlInv
  <2>3. mem' = Held(i, M, N, 0) /\ 0 \in 0 .. Iterations(i, M, N)
    BY <2>1, <2>2, HeldEnds DEF Iterations, IsSize
  <2>4. MemInv'
    BY <1>1, <2>1, <2>2, <2>3 DEF MemInv
  <2>5. ControlInv'
    BY <1>1, <1>3, <2>1, <2>2 DEF IInv, ControlInv, PCs, env
  <2>6. ResultInv' /\ OwnInv' /\ FreshInv'
    BY <1>1, <1>2, <2>1 DEF IInv, ResultInv, OwnInv, FreshInv, env
  <2> QED BY <2>4, <2>5, <2>6 DEF IInv
<1>4. CASE ~ valgrindRuns
  <2>1. i' = i + 1 /\ pc' = "eval_perf" /\ i \in 0 .. 1
    BY <1>1, <1>4 DEF StartTracegen, IInv, ControlInv
  <2>2. ControlInv' /\ MemInv' /\ FreshInv'
    BY <1>1, <2>1 DEF IInv, ControlInv, MemInv, FreshInv, PCs, env
  <2>3. ResultInv'
    BY <1>1, <1>4, <2>1 DEF IInv, ResultInv, env
  <2>4. OwnInv'
    BY <1>1, <1>2, <1>4, <2>1 DEF IInv, OwnInv, env
  <2> QED BY <2>2, <2>3, <2>4 DEF IInv
<1> QED BY <1>3, <1>4

LEMMA TracegenStep == ASSUME IInv, Tracegen PROVE IInv'
<1>1. /\ UNCHANGED <<alarmed, size, lines, orphans, pc, i, results, trace, csim_results, env>>
      /\ M' = M /\ N' = N /\ pc = "tracegen"
      /\ n < Iterations(i, M, N) /\ n' = n + 1
      /\ mem' = Stored(mem, N, Iteration(i, M, N, n))
  BY DEF Tracegen, driverVars, M, N
<1>2. Untimed' = Untimed
  BY <1>1 DEF Untimed, Timeouts, TimedOut
<1>3. /\ i \in 0 .. 1 /\ IsSize(M, N) /\ n \in Nat /\ Iterations(i, M, N) \in Nat
      /\ mem = Held(i, M, N, n)
  <2>1. i \in 0 .. 1 /\ IsSize(M, N)
    BY <1>1, SizeLemma DEF IInv, ControlInv
  <2>2. Iterations(i, M, N) \in Nat
    BY <2>1 DEF Iterations, IsSize
  <2> QED BY <1>1, <2>1, <2>2 DEF IInv, MemInv
<1>4. n \in 0 .. Iterations(i, M, N) - 1 /\ n + 1 \in 0 .. Iterations(i, M, N)
  BY <1>1, <1>3
<1>5. Right(i, M, N, n, Iteration(i, M, N, n).pairs)
  BY <1>3, <1>4, IterationRight
<1>6. mem' = Held(i, M, N, n + 1)
  BY <1>1, <1>3, <1>5, StoredLemma
<1>7. MemInv' /\ FreshInv'
  BY <1>1, <1>4, <1>6 DEF MemInv, FreshInv
<1>8. ControlInv' /\ ResultInv' /\ OwnInv'
  BY <1>1, <1>2 DEF IInv, ControlInv, ResultInv, OwnInv, env
<1> QED BY <1>7, <1>8 DEF IInv

(* The loops end with the transpose: tracegen always validates.            *)
LEMMA Valid ==
  ASSUME IInv, pc = "tracegen", n = Iterations(i, M, N)
  PROVE  validate
<1>1. i \in 0 .. 1 /\ IsSize(M, N)
  BY SizeLemma DEF IInv, ControlInv
<1>2. mem = Held(i, M, N, Iterations(i, M, N))
  BY DEF IInv, MemInv
<1> QED BY <1>1, <1>2, HeldEnds DEF validate

LEMMA ValidatedStep == ASSUME IInv, Validated PROVE IInv'
<1>1. /\ UNCHANGED <<alarmed, size, lines, orphans, csim_results, env>>
      /\ pc = "tracegen" /\ n' = 0
      /\ n = Iterations(i, M, N)
  BY DEF Validated, driverVars, ChildGone
<1>2. Untimed' = Untimed
  BY <1>1 DEF Untimed, Timeouts, TimedOut
<1>3. validate /\ i \in 0 .. 1 /\ valgrindRuns
  BY <1>1, Valid DEF IInv, ControlInv
<1>4. /\ pc' = "csim-ref" /\ i' = i
      /\ results' = IF i = 0 THEN [results EXCEPT !.correct = 1] ELSE results
  BY <1>1, <1>3 DEF Validated
<1>5. PICK misses : trace' = [trace EXCEPT ![i] = misses]
  BY <1>1, <1>3 DEF Validated
<1>6. ControlInv' /\ MemInv' /\ FreshInv'
  BY <1>1, <1>3, <1>4 DEF IInv, ControlInv, MemInv, FreshInv, PCs, env
<1>7. /\ DOMAIN trace' = 0 .. 1 /\ DOMAIN results' = {"correct", "misses"}
      /\ i # 0 => trace'[0] = trace[0]
      /\ i = 0 => results'.correct = 1
      /\ i # 0 => results' = results
  BY <1>3, <1>4, <1>5 DEF IInv, ResultInv
<1>8. ResultInv'
  BY <1>1, <1>3, <1>4, <1>7 DEF IInv, ResultInv, env
<1>9. OwnInv'
  BY <1>1, <1>2, <1>3, <1>4, <1>7 DEF IInv, OwnInv, env
<1> QED BY <1>6, <1>8, <1>9 DEF IInv

LEMMA RunSimStep == ASSUME IInv, RunSim PROVE IInv'
<1>1. /\ UNCHANGED <<alarmed, size, lines, orphans, i, results, trace, n, env>>
      /\ pc = "csim-ref" /\ pc' = "collect"
      /\ csim_results' = IF simRuns THEN trace[i] ELSE csim_results
  BY DEF RunSim, driverVars, childVars
<1>2. Untimed' = Untimed
  BY <1>1 DEF Untimed, Timeouts, TimedOut
<1>3. ControlInv' /\ MemInv' /\ FreshInv' /\ ResultInv'
  BY <1>1 DEF IInv, ControlInv, MemInv, FreshInv, ResultInv, PCs, env
<1>4. OwnInv'
  BY <1>1, <1>2 DEF IInv, OwnInv, env
<1> QED BY <1>3, <1>4 DEF IInv

LEMMA CollectStep == ASSUME IInv, Collect PROVE IInv'
<1>1. pc = "collect" /\ UNCHANGED <<env, trace, csim_results, orphans>>
  BY DEF Collect
<1>2. CASE csim_results = Absent
  <2>1. Answered(<<>>) /\ UNCHANGED <<i, results>>
    BY <1>2 DEF Collect
  <2> QED BY <1>1, <2>1, AnsweredStep
<1>3. CASE csim_results # Absent
  <2>1. /\ results' = IF i = 0 THEN [results EXCEPT !.misses = csim_results] ELSE results
        /\ i' = i + 1 /\ pc' = "eval_perf" /\ UNCHANGED <<alarmed, size, lines, n>>
    BY <1>3 DEF Collect, childVars
  <2>2. Untimed' = Untimed
    BY <2>1 DEF Untimed, Timeouts, TimedOut
  <2>3. i \in 0 .. 1 /\ valgrindRuns /\ results.correct = 1
    BY <1>1 DEF IInv, ControlInv, ResultInv
  <2>4. ControlInv' /\ MemInv' /\ FreshInv'
    BY <1>1, <2>1, <2>3 DEF IInv, ControlInv, MemInv, FreshInv, PCs, env
  <2>5. /\ DOMAIN results' = {"correct", "misses"} /\ results'.correct = 1
        /\ i = 0 => results'.misses = csim_results
        /\ i # 0 => results' = results
    BY <2>1, <2>3 DEF IInv, ResultInv
  <2>6. ResultInv'
    BY <1>1, <2>1, <2>3, <2>5 DEF IInv, ResultInv, env
  <2>7. OwnInv'
    BY <1>1, <2>1, <2>2, <2>3, <2>5 DEF IInv, OwnInv, env
  <2> QED BY <2>4, <2>6, <2>7 DEF IInv
<1> QED BY <1>2, <1>3

LEMMA PrintResultsStep == ASSUME IInv, PrintResults PROVE IInv'
  BY AnsweredStep DEF PrintResults

(* The alarm comes only while a run is on.                                 *)
LEMMA sigalrmStep == ASSUME IInv, sigalrm_handler PROVE IInv'
<1>1. pc # "popen"
  BY DEF sigalrm_handler, IInv, ControlInv
<1> QED BY <1>1, AnsweredStep DEF sigalrm_handler

LEMMA OrphanEndsStep == ASSUME IInv, OrphanEnds PROVE IInv'
<1>1. /\ UNCHANGED <<alarmed, size, lines, pc, i, results, trace, n, mem, env>>
      /\ M' = M /\ N' = N /\ orphans # {}
  BY DEF OrphanEnds, driverVars, childVars, M, N
<1>2. Untimed' = Untimed
  BY <1>1 DEF Untimed, Timeouts, TimedOut
<1>3. ControlInv' /\ MemInv' /\ FreshInv' /\ ResultInv'
  BY <1>1 DEF IInv, ControlInv, MemInv, FreshInv, ResultInv, env
<1>4. OwnInv'
  BY <1>1, <1>2 DEF IInv, OwnInv, env
<1> QED BY <1>3, <1>4 DEF IInv

LEMMA ScoreStep == ASSUME IInv, Score PROVE IInv'
<1>1. UNCHANGED <<alarmed, size, lines, pc, i, results, trace, n, orphans, csim_results, env>>
      /\ pc = "popen"
  BY DEF Score, childVars
<1>2. Untimed' = Untimed
  BY <1>1 DEF Untimed, Timeouts, TimedOut
<1> QED BY <1>1, <1>2 DEF IInv, ControlInv, MemInv, FreshInv, ResultInv, OwnInv, env

LEMMA InvariantKept == ASSUME IInv, [Next]_vars PROVE IInv'
<1>1. CASE UNCHANGED vars
  <2>1. /\ UNCHANGED <<alarmed, size, lines, pc, i, results, trace, n, mem, orphans, csim_results, env>>
        /\ M' = M /\ N' = N
    BY <1>1 DEF vars, env, M, N
  <2>2. Untimed' = Untimed
    BY <2>1 DEF Untimed, Timeouts, TimedOut
  <2> QED BY <2>1, <2>2 DEF IInv, ControlInv, MemInv, FreshInv, ResultInv, OwnInv, env
<1>2. CASE Program
  BY <1>2, StartStep, StartTracegenStep, ValidatedStep, CollectStep, PrintResultsStep, ScoreStep DEF Program
<1>3. CASE Tracegen \/ RunSim \/ sigalrm_handler \/ OrphanEnds
  BY <1>3, TracegenStep, RunSimStep, sigalrmStep, OrphanEndsStep
<1> QED BY <1>1, <1>2, <1>3 DEF Next

(* The invariant of the autograder, for any number of timeouts.            *)
THEOREM Invariance == Spec => []IInv
  BY InitInvariant, InvariantKept, PTL DEF Spec

(* Whatever happens around it, tracegen finds the transpose in B when the  *)
(* loops of a function of trans.c have ended, at each of the three sizes,  *)
(* and no iteration on the way leaves the two matrices (test_trans,        *)
(* tracegen.c).                                                            *)
THEOREM FunctionsTranspose == Spec => []Transposes
<1>1. IInv => Transposes
  <2> SUFFICES ASSUME IInv, pc = "tracegen", n # Iterations(i, M, N)
               PROVE  \A x \in Range(Iteration(i, M, N, n).accesses) :
                        x \in 0 .. M * N - 1 \/ x \in BaseB .. BaseB + M * N - 1
    BY Valid DEF Transposes
  <2>1. i \in 0 .. 1 /\ IsSize(M, N)
    BY SizeLemma DEF IInv, ControlInv
  <2>2. Iterations(i, M, N) \in Nat
    BY <2>1 DEF Iterations, IsSize
  <2>3. n \in 0 .. Iterations(i, M, N) - 1
    BY <2>2 DEF IInv, MemInv
  <2> QED BY <2>1, <2>3, IterationInts DEF Ints, InA, InB
<1> QED BY <1>1, Invariance, PTL

(* What test-trans reports is of the submission (eval_perf), if no earlier *)
(* run has left a child that writes to the files of this one: the misses   *)
(* are of its own trace, and it is correct if tracegen could be run.       *)
THEOREM ReportsSubmission == Spec => []OwnResults
<1>1. IInv => OwnResults
  BY DEF IInv, ResultInv, OwnInv, OwnResults, Untimed
<1> QED BY <1>1, Invariance, PTL
=============================================================================
