------------------------------ MODULE Transpose -----------------------------
(***************************************************************************)
(* The transposes of trans.c, an iteration of the innermost loop (for      *)
(* solve_61 and trans: a run of it) at a time, on the direct-mapped cache  *)
(* they are written for.  An int is at an index: A starts at 0, and B      *)
(* 256 * 256 ints behind it.  The ints of A are told apart by their place. *)
(***************************************************************************)
EXTENDS Integers, Sequences, SequencesExt

BaseB == 256 * 256

(* What an iteration does: which int is copied where, in the order of the  *)
(* temporaries, and in which order loads and stores are made.              *)
LoadsFirst(pairs) ==
  [pairs |-> pairs, accesses |-> [t \in DOMAIN pairs |-> pairs[t][1]] \o [t \in DOMAIN pairs |-> pairs[t][2]]]
OneByOne(pairs) ==
  [pairs |-> pairs, accesses |-> [t \in 1 .. 2 * Len(pairs) |-> pairs[(t + 1) \div 2][IF t % 2 = 1 THEN 1 ELSE 2]]]

A(M, i, j) == i * M + j
B(N, i, j) == BaseB + i * N + j

Mut_solve_32(M, N, n) ==   \* without temporaries
  LET k == n \div 32   j == (n \div 8) % 4   i == n % 8
  IN  OneByOne([t \in 1 .. 8 |-> <<A(M, i + k * 8, j * 8 + t - 1), B(N, j * 8 + t - 1, i + k * 8)>>])
Mut_Chunk(M, N, n) ==   \* the chunks are not exchanged
  LET k == n \div 32   j == (n \div 8) % 4   i == n % 8
  IN  LoadsFirst([t \in 1 .. 8 |-> <<A(M, i + k * 8, j * 8 + t - 1), B(N, k * 8 + t - 1, i + j * 8)>>])
solve_32(M, N, n) ==
  LET k == n \div 32   j == (n \div 8) % 4   i == n % 8
  IN  LoadsFirst([t \in 1 .. 8 |-> <<A(M, i + k * 8, j * 8 + t - 1), B(N, j * 8 + t - 1, i + k * 8)>>])

(* The four loops over k, for each of the chunks of 8 by 8.  The second    *)
(* parks a quarter in the wrong place, the third moves it on.              *)
solve_64(M, N, n) ==
  LET i == n \div 128   j == (n \div 16) % 8   loop == (n \div 4) % 4   k == n % 4
      Quarter(r, c) == LoadsFirst([t \in 1 .. 4 |-> <<A(M, i * 8 + k, j * 8 + r + t - 1),
                                                      B(N, j * 8 + t - 1, i * 8 + k + c)>>])
      Down(r) == [t \in 1 .. 4 |-> <<A(M, i * 8 + 3 + t, j * 8 + k + r), B(N, j * 8 + k + r, i * 8 + 3 + t)>>]
      Parked == [t \in 1 .. 4 |-> <<B(N, j * 8 + k, i * 8 + 3 + t), B(N, j * 8 + k + 4, i * 8 + t - 1)>>]
  IN  CASE loop = 0 -> Quarter(0, 0)
        [] loop = 1 -> Quarter(4, 4)
        [] loop = 2 -> LoadsFirst(Down(0) \o Parked)
        [] loop = 3 -> LoadsFirst(Down(4))

solve_61(M, N, n) ==
  LET k == n \div 85   j == (n \div 17) % 5   i == n % 17
      Inside == {t \in 1 .. 17 : k * 17 + i < M /\ j * 17 + t - 1 < N}
  IN  OneByOne([t \in Inside |-> <<A(M, j * 17 + t - 1, k * 17 + i), B(N, k * 17 + i, j * 17 + t - 1)>>])

trans(M, N, n) == OneByOne([t \in 1 .. M |-> <<A(M, n, t - 1), B(N, t - 1, n)>>])

(* The functions registered, 0 and 1, by the number of their iterations.   *)
Iterations(f, M, N) ==
  IF f = 1 THEN N ELSE IF M = 32 THEN 4 * 4 * 8 ELSE IF M = 64 THEN 8 * 8 * 4 * 4 ELSE 5 * 5 * 17
transpose_submit(M, N, n) ==
  IF M = 32 THEN solve_32(M, N, n) ELSE IF M = 64 THEN solve_64(M, N, n) ELSE solve_61(M, N, n)
Iteration(f, M, N, n) == IF f = 0 THEN transpose_submit(M, N, n) ELSE trans(M, N, n)

(* B, of rows of N ints, after the iteration: all that is stored has been  *)
(* loaded before.                                                          *)
Load(mem, N, x) == IF x < BaseB THEN x ELSE mem[(x - BaseB) \div N][(x - BaseB) % N]
Stored(mem, N, iteration) ==
  LET at == {iteration.pairs[u][2] : u \in DOMAIN iteration.pairs}
      rows == {(x - BaseB) \div N : x \in at}
      From(x) == iteration.pairs[CHOOSE u \in DOMAIN iteration.pairs : iteration.pairs[u][2] = x][1]
      Row(r) == [c \in 0 .. N - 1 |-> IF B(N, r, c) \in at THEN Load(mem, N, From(B(N, r, c))) ELSE mem[r][c]]
  IN  [r \in DOMAIN mem |-> IF r \in rows THEN Row(r) ELSE mem[r]]

(* 32 sets of one block of 8 ints, and the misses so far.                  *)
Block(x) == x \div 8
Access(sim, x) ==
  IF sim.sets[Block(x) % 32] = Block(x) THEN sim
  ELSE [sets |-> [sim.sets EXCEPT ![Block(x) % 32] = Block(x)], misses |-> sim.misses + 1]
Cold == [sets |-> [s \in 0 .. 31 |-> -1], misses |-> 0]
Caches == [sets : [0 .. 31 -> Int], misses : Nat]
Simulated[sim \in Caches, accesses \in Seq(Nat)] ==
  LET half == Len(accesses) \div 2
  IN  CASE Len(accesses) = 0 -> sim
        [] Len(accesses) = 1 -> Access(sim, accesses[1])
        [] OTHER -> Simulated[Simulated[sim, SubSeq(accesses, 1, half)],
                              SubSeq(accesses, half + 1, Len(accesses))]

correctTrans(M, N) == [r \in 0 .. M - 1 |-> [c \in 0 .. N - 1 |-> A(M, c, r)]]
=============================================================================
