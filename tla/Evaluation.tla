----------------------------- MODULE Evaluation -----------------------------
(***************************************************************************)
(* The autograder of the transposes: driver.py3 runs test-trans for three  *)
(* sizes; test-trans runs tracegen (under valgrind) and csim-ref for each  *)
(* registered function, under an alarm; they exchange results in files.    *)
(* A child outlives a test-trans that the alarm ends.                      *)
(***************************************************************************)
EXTENDS Transpose, FiniteSets

CONSTANT MaxTimeouts   \* bound: how many of the three runs may time out

VARIABLES
  valgrindRuns, simRuns,   \* whether the two programs can be run at all
  shForks,        \* whether /bin/sh forks for the one command of system()
  size,           \* driver.py3: the index in Sizes of the run it waits for
  lines,          \* the numbers found in TEST_TRANS_RESULTS lines, per run
  score,          \* in tenths of a point, Unscored before, or IndexError
  pc, i,          \* test-trans: eval_perf and its function
  results,        \* test-trans
  alarmed,        \* test-trans: the alarm is pending
  n, mem, sim,    \* the child tracegen: iteration, B and the trace's misses
  trace,          \* the misses csim-ref will count in trace.f0 and trace.f1
  csim_results,   \* the misses in .csim_results, or Absent
  orphans         \* children left behind: AnyTracegen, or the misses of a csim-ref

vars == <<valgrindRuns, simRuns, shForks, size, lines, score, pc, i, results, alarmed,
          n, mem, sim, trace, csim_results, orphans>>
env == <<valgrindRuns, simRuns, shForks>>
driverVars == <<size, lines, score>>
childVars == <<n, mem, sim>>

Sizes == << <<32, 32>>, <<64, 64>>, <<61, 67>> >>
M == Sizes[size][1]
N == Sizes[size][2]
Unscored == -1
IndexError == -2
Absent == -1
AnyTracegen == -1
Random == -1   \* what initMatrix leaves in B, no int of A
INT_MAX == 2147483647
NoChild == n = 0 /\ mem = <<>> /\ sim = Cold
ChildGone == n' = 0 /\ mem' = <<>> /\ sim' = Cold

(* driver.py3 has just run test-csim: csim or csim-ref left .csim_results. *)
Init ==
  /\ valgrindRuns \in BOOLEAN /\ simRuns \in BOOLEAN /\ shForks \in BOOLEAN
  /\ size = 1 /\ lines = <<>> /\ score = Unscored
  /\ pc = "popen" /\ i = 0 /\ results = [correct |-> 0, misses |-> INT_MAX] /\ alarmed = FALSE
  /\ NoChild /\ trace = [f \in 0 .. 1 |-> 0]
  /\ csim_results \in IF simRuns THEN {0} ELSE {Absent, 0}
  /\ orphans = {}

(* communicate() has returned: no process has the pipe to grep open.  Only *)
(* the output of the command is redirected: a shell that forks for it keeps*)
(* the pipe, and one that test-trans has left behind does so too.          *)
PipeClosed == shForks => orphans = {}

Mut_Start ==   \* no alarm is set
  /\ pc = "popen" /\ size <= 3 /\ PipeClosed
  /\ i' = 0 /\ results' = [correct |-> 0, misses |-> INT_MAX]
  /\ trace' = [f \in 0 .. 1 |-> 0]
  /\ pc' = "eval_perf"
  /\ UNCHANGED <<env, driverVars, childVars, csim_results, orphans, alarmed>>
Start ==
  /\ pc = "popen" /\ size <= 3 /\ PipeClosed
  /\ i' = 0 /\ results' = [correct |-> 0, misses |-> INT_MAX]
  /\ alarmed' = TRUE
  /\ trace' = [f \in 0 .. 1 |-> 0]   \* those of an earlier run are not read again
  /\ pc' = "eval_perf"
  /\ UNCHANGED <<env, driverVars, childVars, csim_results, orphans>>

(* system("valgrind ./tracegen ..."), for which the shell may answer 127. *)
StartTracegen ==
  /\ pc = "eval_perf" /\ i < 2
  /\ IF valgrindRuns
     THEN /\ mem' = [r \in 0 .. M - 1 |-> [c \in 0 .. N - 1 |-> Random]]
          /\ pc' = "tracegen" /\ UNCHANGED i
     ELSE i' = i + 1 /\ UNCHANGED <<mem, pc>>
  /\ UNCHANGED <<env, driverVars, results, alarmed, n, sim, trace, csim_results, orphans>>

Tracegen ==
  /\ pc = "tracegen" /\ n < Iterations(i, M, N)
  /\ LET iteration == Iteration(i, M, N, n)
     IN  /\ mem' = Stored(mem, N, iteration)
         /\ sim' = Simulated[sim, iteration.accesses]
  /\ n' = n + 1
  /\ UNCHANGED <<env, driverVars, pc, i, results, alarmed, trace, csim_results, orphans>>

validate == mem = correctTrans(M, N)

(* tracegen exits; test-trans skips the function, or filters the trace. An *)
(* older tracegen may have written to the same trace.tmp.                  *)
Validated ==
  /\ pc = "tracegen" /\ n = Iterations(i, M, N)
  /\ IF validate
     THEN /\ \E misses \in {sim.misses} \cup (IF AnyTracegen \in orphans THEN {0} ELSE {}) :
               trace' = [trace EXCEPT ![i] = misses]
          /\ results' = IF i = 0 THEN [results EXCEPT !.correct = 1] ELSE results
          /\ pc' = "csim-ref" /\ UNCHANGED i
     ELSE i' = i + 1 /\ pc' = "eval_perf" /\ UNCHANGED <<trace, results>>
  /\ ChildGone
  /\ UNCHANGED <<env, driverVars, alarmed, csim_results, orphans>>

(* system("./csim-ref ..."), whose answer is not looked at.                *)
RunSim ==
  /\ pc = "csim-ref"
  /\ csim_results' = IF simRuns THEN trace[i] ELSE csim_results
  /\ pc' = "collect"
  /\ UNCHANGED <<env, driverVars, i, results, alarmed, childVars, trace, orphans>>

Answered(line) ==
  /\ lines' = Append(lines, line) /\ size' = size + 1
  /\ pc' = "popen" /\ alarmed' = FALSE /\ ChildGone

(* assert(in_fp) ends the program without a line.                          *)
Mut_Collect ==   \* the results of every function are recorded
  /\ pc = "collect"
  /\ IF csim_results = Absent
     THEN Answered(<<>>) /\ UNCHANGED <<i, results>>
     ELSE /\ results' = [results EXCEPT !.misses = csim_results]
          /\ i' = i + 1 /\ pc' = "eval_perf"
          /\ UNCHANGED <<size, lines, alarmed, childVars>>
  /\ UNCHANGED <<env, score, trace, csim_results, orphans>>
Collect ==
  /\ pc = "collect"
  /\ IF csim_results = Absent
     THEN Answered(<<>>) /\ UNCHANGED <<i, results>>
     ELSE /\ results' = IF i = 0 THEN [results EXCEPT !.misses = csim_results] ELSE results
          /\ i' = i + 1 /\ pc' = "eval_perf"
          /\ UNCHANGED <<size, lines, alarmed, childVars>>
  /\ UNCHANGED <<env, score, trace, csim_results, orphans>>

(* Of two lines, if the alarm comes after the last one is printed, the     *)
(* driver takes the numbers of the first.                                  *)
PrintResults ==
  /\ pc = "eval_perf" /\ i = 2
  /\ Answered(<<results.correct, results.misses>>)
  /\ UNCHANGED <<env, score, i, results, trace, csim_results, orphans>>

TimedOut(s) == lines[s] = <<0, 0>>
Timeouts == Cardinality({s \in DOMAIN lines : TimedOut(s)})

(* The handler prints 0:0 and exits; the child of system() goes on.        *)
sigalrm_handler ==
  /\ alarmed /\ Timeouts < MaxTimeouts
  /\ Answered(<<0, 0>>)
  /\ orphans' = orphans \cup (CASE pc = "tracegen" -> {AnyTracegen}
                                [] pc = "csim-ref" /\ simRuns -> {trace[i]}
                                [] OTHER -> {})
  /\ UNCHANGED <<env, score, i, results, trace, csim_results>>

OrphanEnds ==
  /\ \E o \in orphans :
       /\ orphans' = orphans \ {o}
       /\ csim_results' = IF o = AnyTracegen THEN csim_results ELSE o
  /\ UNCHANGED <<env, driverVars, pc, i, results, alarmed, childVars, trace>>

(* The score in tenths of a point, rounded half up.                        *)
computeMissScore(miss, lower, upper, full_score) ==
  IF miss <= lower THEN 10 * full_score
  ELSE IF miss >= upper THEN 0
  ELSE (20 * full_score * (upper - miss) + (upper - lower)) \div (2 * (upper - lower))

(* The numbers of a line that was never printed cannot be taken.           *)
Score ==
  /\ pc = "popen" /\ size = 4 /\ score = Unscored /\ PipeClosed
  /\ score' = IF \E s \in 1 .. 3 : lines[s] = <<>> THEN IndexError
              ELSE   computeMissScore(lines[1][2], 300, 600, 8) * lines[1][1]
                   + computeMissScore(lines[2][2], 1300, 2000, 8) * lines[2][1]
                   + computeMissScore(lines[3][2], 2000, 3000, 10) * lines[3][1]
  /\ UNCHANGED <<env, size, lines, pc, i, results, alarmed, childVars, trace, csim_results, orphans>>

Program == Start \/ StartTracegen \/ Validated \/ Collect \/ PrintResults \/ Score
Next == Program \/ Tracegen \/ RunSim \/ sigalrm_handler \/ OrphanEnds

(* Nothing is assumed of the children; the alarm fires if they hang.       *)
Spec == Init /\ [][Next]_vars /\ WF_vars(Program) /\ WF_vars(sigalrm_handler)

(***************************************************************************)
(* Properties.                                                             *)
(***************************************************************************)

(* Both functions of trans.c are transposes at the three sizes of the      *)
(* driver, and stay inside the two matrices on the way.                    *)
Transposes ==
  pc = "tracegen" =>
    IF n = Iterations(i, M, N) THEN validate
    ELSE \A x \in Range(Iteration(i, M, N, n).accesses) :
           x \in 0 .. M * N - 1 \/ x \in BaseB .. BaseB + M * N - 1

(* What test-trans reports is of the submission: correct if tracegen has   *)
(* validated it, with the misses of its own trace, if the simulator runs   *)
(* and no earlier run has left a child behind.                             *)
OwnResults ==
  pc = "eval_perf" /\ i = 2 =>
    /\ results.correct = 1 <=> valgrindRuns
    /\ results.correct = 0 => results.misses = INT_MAX
    /\ valgrindRuns /\ simRuns /\ Timeouts = 0 => results.misses = trace[0]

(* If nothing fails the submission stays below the thresholds of driver.py3*)
(* and has full marks, also with some misses more for accesses that are not*)
(* to the matrices.                                                        *)
OtherMisses == 16
FullMarks ==
  valgrindRuns /\ simRuns /\ Timeouts = 0 =>
    /\ \A s \in DOMAIN lines :
         lines[s][1] = 1 /\ lines[s][2] + OtherMisses <= <<300, 1300, 2000>>[s]
    /\ score # Unscored => score = 260

(* The driver ends, also when a child hangs: the alarm of test-trans sees  *)
(* to it, unless the shell of the child it leaves behind has forked and    *)
(* keeps the pipe that driver.py3 reads for as long as the child hangs.    *)
DriverEnds == <>(score # Unscored) \/ <>[](shForks /\ orphans # {})
=============================================================================
