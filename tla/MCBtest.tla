------------------------------- MODULE MCBtest ------------------------------
(***************************************************************************)
(* The arguments of the runs of Btest.                                     *)
(***************************************************************************)
EXTENDS Btest

(* An odd pattern, a negative one, and a number that is rounded to even.   *)
SampleVals == {1431655765, -1985229329, 16777219}

(* What a user may fix: 0, the ends, and a number that is rounded up.      *)
UserVals == {{}, {31}, Positions, Positions \ {31}}

(* A number whose exponent is the largest one.                             *)
LargeFloat == {{22} \cup (Exponent \ {23})}
=============================================================================
