-------------------------------- MODULE Bits --------------------------------
(***************************************************************************)
(* The puzzles of bits.c and the answers tests.c expects of them.  An int  *)
(* is the set of the positions of its bits that are 1, so &, | and the     *)
(* masks are sets.  A shift takes its count modulo 32, as the instructions *)
(* of the -m32 build do, also where C leaves it undefined.                 *)
(***************************************************************************)
EXTENDS Integers, FiniteSets, FiniteSetsExt

Positions == 0 .. 31

Not(x) == Positions \ x
Xor(x, y) == (x \ y) \cup (y \ x)
Bool(b) == IF b THEN {0} ELSE {}
Shl(x, n) == {i + n : i \in x} \cap Positions
Shr(x, n) == {i - n : i \in x} \cap Positions
Sar(x, n) == Shr(x, n) \cup (IF 31 \in x THEN (32 - n) .. 31 ELSE {})

plus[x \in SUBSET Positions, y \in SUBSET Positions] ==   \* the carries are added till none is left
  IF y = {} THEN x ELSE plus[Xor(x, y), Shl(x \cap y, 1)]
Plus(x, y) == plus[x, y]
Minus(x) == Plus(Not(x), {0})

(* The set of an integer, and the integer of a set.                        *)
Word(n) == {i \in 0 .. 30 : (n \div 2^i) % 2 = 1} \cup (IF n < 0 THEN {31} ELSE {})
Unsigned(x) == SumSet({2^i : i \in x})
Signed(x) == IF 31 \in x THEN -Unsigned(Not(x)) - 1 ELSE Unsigned(x)
Count(n) == Unsigned(n \cap 0 .. 4)

(***************************************************************************)
(* bits.c.                                                                 *)
(***************************************************************************)
bitAnd(x, y) == Not(Not(x) \cup Not(y))

getByte(x, n) == Sar(x, Count(Shl(n, 3))) \cap Word(255)

logicalShift(x, n) ==
  Sar(x, Count(n)) \cap
    Plus(Plus(Shl(Shl({0}, Count(Plus(Plus(Word(31), Not(n)), {0}))), 1), Not({0})), {0})

(* The five masks are put together from bytes; each sum adds, within the   *)
(* groups of a mask, the numbers of ones of two neighbouring groups.       *)
Doubled(mask, n) == Plus(Shl(mask, n), mask)
mask == [n \in {1, 2, 4, 8, 16} |->
  CASE n = 1 -> Doubled(Doubled(Word(85), 8), 16)
    [] n = 2 -> Doubled(Doubled(Word(51), 8), 16)
    [] n = 4 -> Doubled(Doubled(Word(15), 8), 16)
    [] n = 8 -> Doubled(Word(255), 16)
    [] n = 16 -> Doubled(Word(255), 8)]
sum[x \in SUBSET Positions, n \in {1, 2, 4, 8, 16}] ==
  Plus(x \cap mask[n], Sar(x, n) \cap mask[n])

Mut_bitCount(x) == sum[sum[sum[sum[x, 1], 2], 4], 16]   \* the bytes are not added
bitCount(x) == sum[sum[sum[sum[sum[x, 1], 2], 4], 8], 16]

bang(x) == Xor(Sar(x \cup Plus(Not(x), {0}), 31) \cap {0}, {0})

tmin == Shl(Word(128), 24)

fitsBits(x, n) ==
  LET mov1 == Count(Plus(Word(16), Not(n)))
      mov2 == 17
  IN  Bool(Xor(Sar(Sar(Shl(Shl(x, mov1), mov2), mov1), mov2), x) = {})

divpwr2(x, n) ==
  LET bias == Plus(Plus(Shl({0}, Count(n)), Not({0})), {0}) \cap Sar(x, 31)
  IN  Sar(Plus(bias, x), Count(n))

negate(x) == Plus(Not(x), {0})

isPositive(x) == Bool(Sar(x, 31) \cap {0} = {} /\ x # {})

(* The difference overflows only when the signs differ.                    *)
Mut_isLessOrEqual(x, y) == Bool(31 \notin Plus(Plus(y, Not(x)), {0}))
isLessOrEqual(x, y) ==
  LET sign(z) == Sar(z, 31) \cap {0}
      dif_sign == Xor(sign(x), sign(y))
      sign_of_dif == sign(Plus(Plus(y, Not(x)), {0}))
  IN  (dif_sign \cap sign(x)) \cup (Bool(dif_sign = {}) \cap Bool(sign_of_dif = {}))

(* One step of the search: is there a bit above the next s positions?      *)
ilog2(x) ==
  LET Above(z, s) == Sar(z, s) # {}
      Rest(z, s) == IF Above(z, s) THEN Sar(z, s) ELSE z
      x8 == Rest(x, 16)
      x4 == Rest(x8, 8)
      x2 == Rest(x4, 4)
      x1 == Rest(x2, 2)
      res == Shl(Bool(Above(x, 16)), 4) \cup Shl(Bool(Above(x8, 8)), 3)
             \cup Shl(Bool(Above(x4, 4)), 2) \cup Shl(Bool(Above(x2, 2)), 1)
  IN  res \cup Bool(Above(x1, 1))

Significand == 0 .. 22
Exponent == 23 .. 30

float_neg(uf) ==
  IF uf \cap Exponent = Exponent /\ uf \cap Significand # {} THEN uf ELSE Xor(uf, {31})

(* The low bits that do not fit are rounded; a carry may reach the exponent*)
float_i2f(x) ==
  LET sign == x \cap {31}
      abs == IF sign # {} THEN Minus(x) ELSE x
      high_bit == IF abs = {} THEN 0 ELSE Max(abs) + 1
      mask_roundF == Shr(Positions, (55 - high_bit) % 32)
      mask_round1 == Shl({0}, (high_bit - 25) % 32)
      dropped == abs \cap Shr(mask_roundF, 1)
      res == Bool(high_bit >= 25 /\
                  \/ dropped \ mask_round1 # {} /\ mask_round1 \subseteq dropped
                  \/ abs \cap mask_roundF = Plus(Shl(mask_round1, 1), mask_round1))
      significand == Sar(Shl(abs, (32 - high_bit) % 32), 8) \cap Significand
      exponent == Shl(Word(high_bit + 126), 23)
  IN  IF x = {} THEN {} ELSE Plus(Plus(Plus(res, exponent), sign), significand)

float_twice(uf) ==
  LET exp == uf \cap Exponent
  IN  IF uf \subseteq {31} \/ exp = Exponent THEN uf
      ELSE IF exp = {} THEN Shl(uf, 1) \cup (uf \cap {31})
      ELSE Plus(uf, {23})

(***************************************************************************)
(* tests.c.                                                                *)
(***************************************************************************)
test_getByte(x, n) ==
  LET byte == CASE n = {} -> 0 [] n = {0} -> 8 [] n = {1} -> 16 [] OTHER -> 24
  IN  {i - byte : i \in x \cap byte .. byte + 7}

test_bitCount(x) == Word(Cardinality(x))

(* 1 << 31 is negated when n is 32: the build answers 1 or 0.              *)
test_fitsBits(x, n) ==
  IF n = Word(32) THEN {Bool(TRUE), Bool(FALSE)}
  ELSE LET p == 2^(Unsigned(n) - 1) IN {Bool(Signed(x) >= -p /\ Signed(x) <= p - 1)}

(* The quotient is truncated towards 0.                                    *)
test_divpwr2(x, n) ==
  LET a == Signed(x)
      p == 2^Unsigned(n)
  IN  Word(IF a < 0 /\ a % p # 0 THEN a \div p + 1 ELSE a \div p)

test_isLessOrEqual(x, y) == Bool(Signed(x) <= Signed(y))

(* The loop goes on for ever when x has no bit.                            *)
Loops(name, args) == name = "ilog2" /\ args[1] = {}
test_ilog2(x) == Word(Max(x))

(* C's float: a magnitude is the set of the weights of its bits, of which  *)
(* the one of the least subnormal is 0; the result is rounded to nearest,  *)
(* ties to even, and infinite above the largest exponent.                  *)
IsNaN(uf) == uf \cap Exponent = Exponent /\ uf \cap Significand # {}
Inf == Exponent
Rounded[low \in 0 .. 254, magnitude \in SUBSET (0 .. 277)] ==
  LET up == low - 1 \in magnitude /\ (low \in magnitude \/ magnitude \cap 0 .. low - 2 # {})
  IN  IF low = 254 THEN Inf
      ELSE Plus(Plus(Shl(Word(low), 23), {i - low : i \in magnitude} \cap 0 .. 23), Bool(up))
Float[sign \in SUBSET {31}, magnitude \in SUBSET (0 .. 277)] ==
  IF magnitude = {} THEN sign
  ELSE sign \cup Rounded[Max({0, Max(magnitude) - 23}), magnitude]
Scaled[m \in SUBSET (0 .. 23), n \in 0 .. 254] == {i + n : i \in m}
Magnitude(uf) ==
  LET exp == Unsigned(Shr(uf \cap Exponent, 23))
  IN  IF exp = 0 THEN uf \cap Significand
      ELSE Scaled[(uf \cap Significand) \cup {23}, exp - 1]

test_float_i2f(x) ==
  Float[x \cap {31}, {i + 149 : i \in IF 31 \in x THEN Minus(x) ELSE x}]

test_float_twice(uf) ==
  IF IsNaN(uf) \/ uf \cap Exponent = Inf THEN uf
  ELSE Float[uf \cap {31}, {i + 1 : i \in Magnitude(uf)}]
=============================================================================
