-------------------------------- MODULE Btest -------------------------------
(***************************************************************************)
(* btest.c: the harness that calls each puzzle and its reference with the  *)
(* same arguments and stops a puzzle at its first error or after a timeout.*)
(* The timeout is SIGALRM, whose handler jumps back into test_function.    *)
(***************************************************************************)
EXTENDS Bits, Sequences, SequencesExt

CONSTANTS
  TEST_RANGE,   \* bound: values around each boundary, for one argument
  Samples,      \* bound: the answers of random_val
  ArgVals       \* the first arguments a user may fix with -1

VARIABLES
  test_fname,      \* the puzzle chosen with -f, or "all"
  argval,          \* the argument fixed with -1, as a sequence of at most one
  timeout_limit,   \* 0: no limit, 1: some limit
  i,               \* the index of run_tests in test_set
  pc,              \* where run_tests and test_function are
  vals,            \* test_vals of each argument
  at,              \* the indices a1 and a2
  errors,          \* errors of test_function
  alarm            \* the puzzle whose call of alarm is pending, 0: none

options == <<test_fname, argval, timeout_limit>>
vars == <<options, i, pc, vals, at, errors, alarm>>

TMax == 2147483647
TMin == -TMax - 1
All == <<TMin, TMax>>
FloatRange == <<1, 1>>

(* decl.c: the names and the ranges of the arguments.           *)
Rec(name, ranges) == [name |-> name, ranges |-> ranges]
test_set == <<
  Rec("bitAnd", <<All, All>>), Rec("getByte", <<All, <<0, 3>>>>),
  Rec("logicalShift", <<All, <<0, 31>>>>), Rec("bitCount", <<All>>),
  Rec("bang", <<All>>), Rec("tmin", <<>>), Rec("fitsBits", <<All, <<1, 32>>>>),
  Rec("divpwr2", <<All, <<0, 30>>>>), Rec("negate", <<All>>),
  Rec("isPositive", <<All>>), Rec("isLessOrEqual", <<All, All>>),
  Rec("ilog2", << <<1, TMax>> >>), Rec("float_neg", <<FloatRange>>),
  Rec("float_i2f", <<FloatRange>>), Rec("float_twice", <<FloatRange>>) >>
Names == {test_set[j].name : j \in DOMAIN test_set}
test == test_set[i]

(* A puzzle, and the answers its reference may give.                       *)
solution_funct(name, a) ==
  CASE name = "bitAnd" -> bitAnd(a[1], a[2])
    [] name = "getByte" -> getByte(a[1], a[2])
    [] name = "logicalShift" -> logicalShift(a[1], a[2])
    [] name = "bitCount" -> bitCount(a[1])
    [] name = "bang" -> bang(a[1])
    [] name = "tmin" -> tmin
    [] name = "fitsBits" -> fitsBits(a[1], a[2])
    [] name = "divpwr2" -> divpwr2(a[1], a[2])
    [] name = "negate" -> negate(a[1])
    [] name = "isPositive" -> isPositive(a[1])
    [] name = "isLessOrEqual" -> isLessOrEqual(a[1], a[2])
    [] name = "ilog2" -> ilog2(a[1])
    [] name = "float_neg" -> float_neg(a[1])
    [] name = "float_i2f" -> float_i2f(a[1])
    [] name = "float_twice" -> float_twice(a[1])
test_funct(name, a) ==
  CASE name = "bitAnd" -> {a[1] \cap a[2]}
    [] name = "getByte" -> {test_getByte(a[1], a[2])}
    [] name = "logicalShift" -> {Shr(a[1], Count(a[2]))}
    [] name = "bitCount" -> {test_bitCount(a[1])}
    [] name = "bang" -> {Bool(a[1] = {})}
    [] name = "tmin" -> {{31}}
    [] name = "fitsBits" -> test_fitsBits(a[1], a[2])
    [] name = "divpwr2" -> {test_divpwr2(a[1], a[2])}
    [] name = "negate" -> {Minus(a[1])}
    [] name = "isPositive" -> {Bool(Signed(a[1]) > 0)}
    [] name = "isLessOrEqual" -> {test_isLessOrEqual(a[1], a[2])}
    [] name = "ilog2" -> {test_ilog2(a[1])}
    [] name = "float_neg" -> {IF IsNaN(a[1]) THEN a[1] ELSE Xor(a[1], {31})}
    [] name = "float_i2f" -> {test_float_i2f(a[1])}
    [] name = "float_twice" -> {test_float_twice(a[1])}

(* The values of one argument.  A range of at most 13 * TEST_RANGE values  *)
(* is taken whole, others at their ends, around 0 and at random.           *)
FloatVals(test_range) ==
  LET Both(x) == <<x, x \cup {31}>>
      Round(k) == Both(Word(k)) \o Both(Word(8388608 + k)) \o Both(Word(8388608 - k))
                  \o Both(Word(1065353216 + k)) \o Both(Word(1065353216 - k))
                  \o Both(Word(2130706432 - k))
  IN  FlattenSeq([j \in 1 .. test_range |-> Round(j - 1)]) \o Both(Inf) \o Both(Inf \cup {22})
IntVals(min, max, test_range, sample) ==
  LET Inside(k) == IF k >= min /\ k <= max THEN <<Word(k)>> ELSE <<>>
      Round(k) == <<Word(min + k), Word(max - k)>> \o Inside(k) \o Inside(-k) \o Inside(sample)
  IN  FlattenSeq([j \in 1 .. test_range |-> Round(j - 1)])
gen_vals(range, test_range, fixed, sample) ==
  IF fixed # <<>> THEN fixed
  ELSE IF range = FloatRange THEN FloatVals(test_range)
  ELSE IF range[2] - 13 * TEST_RANGE <= range[1]
       THEN [j \in 1 .. range[2] - range[1] + 1 |-> Word(range[1] + j - 1)]
  ELSE IntVals(range[1], range[2], test_range, sample)

(* TEST_RANGE, or its square root when there are two arguments.            *)
arg_test_range == IF Len(test.ranges) = 1 THEN TEST_RANGE
                  ELSE Max({k \in 1 .. TEST_RANGE : k = 1 \/ k * k <= TEST_RANGE})

Init ==
  /\ test_fname \in Names \cup {"all"}
  /\ argval \in {<<>>} \cup (IF test_fname = "all" THEN {} ELSE {<<x>> : x \in ArgVals})
  /\ timeout_limit \in 0 .. 1
  /\ i = 1 /\ pc = "run_tests" /\ vals = <<>> /\ at = <<>>
  /\ errors = 0 /\ alarm = 0

Select ==
  /\ pc = "run_tests" /\ i <= Len(test_set)
  /\ IF test_fname \in {"all", test.name}
     THEN pc' = "gen_vals" /\ UNCHANGED i
     ELSE i' = i + 1 /\ UNCHANGED pc
  /\ UNCHANGED <<options, vals, at, errors, alarm>>

GenVals ==
  /\ pc = "gen_vals"
  /\ \E sample \in Samples :
       vals' = [a \in DOMAIN test.ranges |->
                  gen_vals(test.ranges[a], arg_test_range, IF a = 1 THEN argval ELSE <<>>, sample)]
  /\ at' = [a \in DOMAIN test.ranges |-> 1]
  /\ errors' = 0
  /\ pc' = IF timeout_limit > 0 THEN "sigsetjmp" ELSE "test"
  /\ UNCHANGED <<options, i, alarm>>

sigsetjmp ==
  /\ pc = "sigsetjmp" /\ pc' = "alarm"
  /\ UNCHANGED <<options, i, vals, at, errors, alarm>>

SetAlarm ==
  /\ pc = "alarm" /\ pc' = "test" /\ alarm' = i
  /\ UNCHANGED <<options, i, vals, at, errors>>

Args(ix) == [a \in DOMAIN vals |-> vals[a][ix[a]]]
IsLast == \A a \in DOMAIN at : at[a] = Len(vals[a])
Advance ==
  LET n == Len(at) IN
  IF at[n] < Len(vals[n]) THEN [at EXCEPT ![n] = @ + 1] ELSE <<at[1] + 1, 1>>

(* test_0_arg, test_1_arg or test_2_arg.                                   *)
Mut_Test ==   \* the last call decides
  /\ pc = "test" /\ ~ Loops(test.name, Args(at))
  /\ \E args \in {Args(at)} : \E rt \in test_funct(test.name, args) :
       errors' = IF solution_funct(test.name, args) # rt THEN 1 ELSE 0
  /\ pc' = IF IsLast THEN "score" ELSE pc
  /\ at' = IF IsLast THEN at ELSE Advance
  /\ UNCHANGED <<options, i, vals, alarm>>
Test ==
  /\ pc = "test" /\ ~ Loops(test.name, Args(at))
  /\ \E args \in {Args(at)} : \E rt \in test_funct(test.name, args) :
       IF solution_funct(test.name, args) # rt
       THEN errors' = 1 /\ pc' = "score" /\ UNCHANGED at
       ELSE /\ pc' = IF IsLast THEN "score" ELSE pc
            /\ at' = IF IsLast THEN at ELSE Advance
            /\ UNCHANGED errors
  /\ UNCHANGED <<options, i, vals, alarm>>

(* The points follow from errors and are not kept.                         *)
Score ==
  /\ pc = "score"
  /\ i' = i + 1 /\ pc' = "run_tests" /\ vals' = <<>> /\ at' = <<>>
  /\ UNCHANGED <<options, errors, alarm>>

Total ==
  /\ pc = "run_tests" /\ i > Len(test_set)
  /\ pc' = "exit" /\ alarm' = 0
  /\ UNCHANGED <<options, i, vals, at, errors>>

(* SIGALRM.  The jump is defined only after the sigsetjmp of a call of     *)
(* test_function that has not returned.                                    *)
Mut_timeout_handler ==   \* the jump goes back to the test that timed out
  /\ alarm # 0 /\ alarm' = 0
  /\ UNCHANGED <<options, i, pc, vals, at, errors>>
timeout_handler ==
  /\ alarm # 0 /\ alarm' = 0
  /\ IF pc \in {"alarm", "test"}
     THEN errors' = 1 /\ pc' = "score"
     ELSE pc' = "undefined" /\ UNCHANGED errors
  /\ UNCHANGED <<options, i, vals, at>>

Run == Select \/ GenVals \/ sigsetjmp \/ SetAlarm \/ Test \/ Score \/ Total
Next == Run \/ timeout_handler

(* The program runs, and time passes.                                      *)
Spec == Init /\ [][Next]_vars /\ WF_vars(Run) /\ WF_vars(timeout_handler)

(***************************************************************************)
(* Properties.                                                             *)
(***************************************************************************)
Agree(name, args) == \A rt \in test_funct(name, args) : solution_funct(name, args) = rt

(* Where puzzle and reference are known to differ, so that nothing is said *)
(* of these inputs here.  A fitsBits of 16 bits and more, which the comment*)
(* at bits.c:272 promises, shifts by a negative count; bits.c:281-283 says *)
(* that tests fail, and names fitsBits(0,32) among them.  Twice a number of*)
(* the largest exponent is left to TwiceDoubles.                           *)
KnownToFail(name, args) ==
  \/ name = "fitsBits" /\ Signed(args[2]) >= 16
  \/ name = "float_twice" /\ args[1] \cap Exponent = Exponent \ {23}

(* "where x > 0", says the comment of ilog2.                               *)
Misused(name, args) == name = "ilog2" /\ (args[1] = {} \/ 31 \in args[1])

(* Every puzzle answers what its reference does, for each argument btest   *)
(* or its user chooses and the puzzle is meant for.                        *)
PuzzlesAgree ==
  pc = "test" /\ ~ Misused(test.name, Args(at)) /\ ~ KnownToFail(test.name, Args(at)) =>
    Agree(test.name, Args(at))

(* A puzzle is given its points only if it agrees with the reference on    *)
(* every combination of the generated values.                              *)
PassMeansAgree ==
  pc = "score" /\ errors = 0 =>
    \A ix \in {f \in [DOMAIN vals -> 1 .. Max({1} \cup {Len(vals[a]) : a \in DOMAIN vals})] :
                  \A a \in DOMAIN vals : f[a] <= Len(vals[a])} :
      \E rt \in test_funct(test.name, Args(ix)) : solution_funct(test.name, Args(ix)) = rt

(* The comment of float_twice: "Return bit-level equivalent of expression  *)
(* 2*f for floating point argument f."                                     *)
TwiceDoubles ==
  pc = "test" /\ test.name = "float_twice" => Agree("float_twice", Args(at))

(* With a time limit btest ends, also when a reference loops for ever.     *)
Ends == timeout_limit > 0 => <>(pc \in {"exit", "undefined"})
=============================================================================
