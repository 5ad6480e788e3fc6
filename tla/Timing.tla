------------------------------- MODULE Timing -------------------------------
(***************************************************************************)
(* The timing package of mdriver: fsecs measures a function f with the     *)
(* method of config.h, which is the K-best scheme of fcyc.c over the cycle *)
(* counter of clock.c, or the interval timer or the time of day of         *)
(* ftimer.c.  Timer interrupts come between any two steps; clock.c measures*)
(* what one costs, to take it off.  The counters are those of the i386 and *)
(* the Alpha variant of clock.c: built with -m64, clock.c has only routines*)
(* in their place that print an error and exit.                            *)
(***************************************************************************)
EXTENDS Integers, Sequences, SequencesExt

CONSTANTS
  Word,        \* the values of an unsigned int
  Costs,       \* cycles an interrupt may cost
  Durations,   \* cycles or microseconds a run of f may take
  Second,      \* microseconds of a second
  kbest, maxsamples,
  epsilon,     \* in percent
  THRESHOLD, RECORDTHRESH, NEVENT,
  MAX_ETIME,   \* in seconds
  Runs         \* the n of ftimer_itimer and ftimer_gettod

ASSUME TimingAssumption ==
  /\ {Word, Second, kbest, maxsamples, NEVENT, MAX_ETIME, Runs} \subseteq Nat \ {0}
  /\ kbest <= maxsamples
  /\ {epsilon, THRESHOLD, RECORDTHRESH} \cup Costs \cup Durations \subseteq Nat

VARIABLES
  method, alpha,       \* config.h, and whether the machine is an Alpha
  cost,                \* cycles of an interrupt on this machine
  at,                  \* where the measurement is
  clock,               \* the cycle counter, or the time of day
  start,               \* cyc_hi and cyc_lo, or stv
  spent, own,          \* auxiliary: time since the start, and that of f
  tms_utime, quiet,    \* ticks since those last kept; none since f or an iteration
  gap, e,              \* callibrate: newt - oldt as read next, and its events
  cyc_per_tick, time,  \* of clock.c, and of callibrate and get_comp_counter
  values, samplecount, n,
  samples,             \* auxiliary: all samples, from the least
  result               \* of fcyc, or the sum that ftimer divides by n

machineVars == <<method, alpha, cost>>
counterVars == <<clock, start, spent, own>>
tickVars == <<tms_utime, quiet>>
calibration == <<gap, e, cyc_per_tick>>
sampler == <<values, samplecount, samples, n, result>>
timingVars == <<machineVars, at, counterVars, tickVars, calibration, time, sampler>>

NoStart == [hi |-> 0, lo |-> 0]
TimingInit ==
  /\ method \in {"fcyc", "itimer", "gettod"}
  /\ alpha \in IF method = "fcyc" THEN BOOLEAN ELSE {FALSE}
  /\ cost \in IF method = "fcyc" THEN Costs ELSE {0}
  /\ at = "fsecs"
  /\ clock = 0 /\ start = NoStart /\ spent = 0 /\ own = 0
  /\ tms_utime = 0 /\ quiet = TRUE
  /\ gap = 0 /\ e = 0 /\ cyc_per_tick = 0 /\ time = 0
  /\ values = <<>> /\ samplecount = 0 /\ samples = <<>> /\ n = 0 /\ result = 0

fsecs ==
  /\ at = "fsecs"
  /\ at' = IF method = "fcyc" THEN "sample" ELSE "ftimer"
  /\ UNCHANGED <<machineVars, counterVars, tickVars, calibration, time, sampler>>

(***************************************************************************)
(* clock.c.  The counter has two words; that of an Alpha only the low one. *)
(* It may stand anywhere when it is started.                               *)
(***************************************************************************)
access_counter(c) == [hi |-> IF alpha THEN 0 ELSE c \div Word, lo |-> c % Word]

Mut_get_counter ==   \* without the borrow
  LET now == access_counter(clock)
  IN  ((now.hi - start.hi) % Word) * Word + ((now.lo - start.lo) % Word)
get_counter ==
  LET now == access_counter(clock)
      lo == (now.lo - start.lo) % Word
      borrow == IF lo > now.lo THEN 1 ELSE 0
  IN  ((now.hi - start.hi - borrow) % Word) * Word + lo

Measuring == {"start_counter", "f", "get_counter", "times"}

(* An interrupt in user time.  They are far apart.                         *)
Tick ==
  /\ quiet /\ at \in Measuring \cup {"newt", "newc"}
  /\ clock' = (clock + cost) % (Word * Word) /\ spent' = spent + cost
  /\ gap' = gap + cost
  /\ tms_utime' = tms_utime + 1 /\ quiet' = FALSE
  /\ UNCHANGED <<machineVars, at, start, own, e, cyc_per_tick, time, sampler>>

callibrate ==
  /\ at = "start_comp_counter" /\ cyc_per_tick = 0
  /\ at' = "newt"
  /\ UNCHANGED <<machineVars, counterVars, tickVars, calibration, time, sampler>>

(* An iteration takes a cycle.  It reads the counter, and then the ticks:  *)
(* one that comes in between is counted, and its cycles are not yet.       *)
newt ==
  /\ at = "newt" /\ e < NEVENT
  /\ IF gap + 1 >= THRESHOLD
     THEN at' = "newc" /\ time' = gap + 1 /\ gap' = 0 /\ UNCHANGED quiet
     ELSE quiet' = TRUE /\ gap' = gap + 1 /\ UNCHANGED <<at, time>>
  /\ clock' = 0 /\ spent' = 0   \* which only the differences above are taken of
  /\ UNCHANGED <<machineVars, start, own, tms_utime, e, cyc_per_tick, sampler>>

Mut_Recorded(cpt) == cyc_per_tick = 0 \/ cyc_per_tick > cpt
Recorded(cpt) == (cyc_per_tick = 0 \/ cyc_per_tick > cpt) /\ cpt > RECORDTHRESH

Mut_newc ==   \* only what is recorded is an event
  /\ at = "newc" /\ at' = "newt"
  /\ IF tms_utime > 0 /\ Recorded(time \div tms_utime)
     THEN cyc_per_tick' = time \div tms_utime /\ e' = e + 1
     ELSE UNCHANGED <<cyc_per_tick, e>>
  /\ tms_utime' = 0 /\ quiet' = TRUE
  /\ UNCHANGED <<machineVars, counterVars, gap, time, sampler>>
newc ==
  /\ at = "newc" /\ at' = "newt"
  /\ IF tms_utime > 0
     THEN /\ cyc_per_tick' = IF Recorded(time \div tms_utime) THEN time \div tms_utime ELSE cyc_per_tick
          /\ e' = e + 1
     ELSE UNCHANGED <<cyc_per_tick, e>>
  /\ tms_utime' = 0 /\ quiet' = TRUE
  /\ UNCHANGED <<machineVars, counterVars, gap, time, sampler>>

(* The ticks are read, then the counter; afterwards the other way round.   *)
start_comp_counter ==
  /\ \/ at = "start_comp_counter" /\ cyc_per_tick # 0
     \/ at = "newt" /\ e = NEVENT
  /\ at' = "start_counter"
  /\ tms_utime' = 0 /\ gap' = 0 /\ e' = 0 /\ time' = 0
  /\ UNCHANGED <<machineVars, counterVars, quiet, cyc_per_tick, sampler>>

start_counter ==
  /\ at = "start_counter" /\ at' = "f"
  /\ \E c \in 0 .. Word * Word - 1 : clock' = c /\ start' = access_counter(c)
  /\ spent' = 0
  /\ UNCHANGED <<machineVars, own, tickVars, calibration, time, sampler>>

f(c) ==
  /\ at = "f" /\ at' = "get_counter"
  /\ clock' = (clock + c) % (Word * Word) /\ spent' = spent + c /\ own' = c
  /\ quiet' = TRUE
  /\ UNCHANGED <<machineVars, start, tms_utime, calibration, time, sampler>>

get_comp_counter ==
  /\ at = "get_counter" /\ at' = "times"
  /\ time' = get_counter
  /\ UNCHANGED <<machineVars, counterVars, tickVars, calibration, sampler>>
ctime == time - tms_utime * cyc_per_tick

(***************************************************************************)
(* fcyc.c, with what init_fsecs sets: clear_cache and compensate.          *)
(***************************************************************************)
(* Before each sample; the first one allocates the buffer.                 *)
clear ==
  /\ at = "sample"
  /\ at' \in {"start_comp_counter"} \cup (IF samplecount = 0 THEN {"exited"} ELSE {})
  /\ UNCHANGED <<machineVars, counterVars, tickVars, calibration, time, sampler>>

Ordered(s) == SortSeq(s, LAMBDA a, b : a < b)
Mut_add_sample(val) ==   \* not sorted
  IF samplecount < kbest THEN Append(values, val)
  ELSE IF val < values[kbest] THEN [values EXCEPT ![kbest] = val] ELSE values
add_sample(val) ==
  IF samplecount < kbest THEN Ordered(Append(values, val))
  ELSE IF val < values[kbest] THEN Ordered([values EXCEPT ![kbest] = val]) ELSE values

has_converged(vals) ==
  Len(vals) >= kbest /\ (100 + epsilon) * vals[1] >= 100 * vals[kbest]

fcyc ==
  /\ at = "times"
  /\ values' = add_sample(ctime) /\ samplecount' = samplecount + 1
  /\ samples' = Ordered(Append(samples, ctime))
  /\ IF ~ has_converged(values') /\ samplecount' < maxsamples
     THEN at' = "sample" /\ UNCHANGED result
     ELSE at' = "done" /\ result' = values'[1]
  /\ clock' = 0 /\ start' = NoStart /\ spent' = 0 /\ own' = 0   \* they are dead
  /\ time' = 0 /\ tms_utime' = 0 /\ gap' = 0 /\ quiet' = TRUE
  /\ UNCHANGED <<machineVars, e, cyc_per_tick, n>>

(***************************************************************************)
(* ftimer.c: n runs of f between two readings, in seconds and microseconds.*)
(***************************************************************************)
Reading(t) == [hi |-> t \div Second, lo |-> t % Second]

(* init_etime, or gettimeofday at any time of a second.                    *)
StartTimer ==
  /\ at = "ftimer" /\ at' = "runs"
  /\ \E t \in IF method = "gettod" THEN 0 .. Second - 1 ELSE {MAX_ETIME * Second} :
       clock' = t /\ start' = Reading(t)
  /\ UNCHANGED <<machineVars, spent, own, tickVars, calibration, time, sampler>>

(* The interval timer counts down, and its signal ends the process.        *)
Run(d) ==
  /\ at = "runs" /\ n < Runs
  /\ n' = n + 1 /\ spent' = spent + d
  /\ IF method = "gettod"
     THEN clock' = clock + d /\ UNCHANGED at
     ELSE IF clock > d THEN clock' = clock - d /\ UNCHANGED at
     ELSE clock' = 0 /\ at' = "killed"
  /\ UNCHANGED <<machineVars, start, own, tickVars, calibration, time, values, samplecount, samples, result>>

Mut_Elapsed(from, to) == Second * (to.hi - from.hi)   \* in whole seconds
Elapsed(from, to) == Second * (to.hi - from.hi) + (to.lo - from.lo)

StopTimer ==
  /\ at = "runs" /\ n = Runs /\ at' = "done"
  /\ result' = IF method = "gettod" THEN Elapsed(start, Reading(clock)) ELSE Elapsed(Reading(clock), start)
  /\ UNCHANGED <<machineVars, counterVars, tickVars, calibration, time, values, samplecount, samples, n>>

TimingStep ==
  \/ fsecs \/ clear \/ callibrate \/ newt \/ newc \/ start_comp_counter
  \/ start_counter \/ get_comp_counter \/ fcyc
  \/ StartTimer \/ StopTimer
  \/ \E c \in Durations : f(c) \/ Run(c)

TimingNext == TimingStep \/ Tick

(* f returns, and interrupts keep coming: callibrate waits for them.       *)
TimingSpec == TimingInit /\ [][TimingNext]_timingVars /\ WF_timingVars(TimingStep) /\ WF_timingVars(Tick)

(***************************************************************************)
(* Properties.                                                             *)
(***************************************************************************)

(* What is read is the time spent, across the ends of words and of seconds.*)
(* The counter of an Alpha gives it up to the end of its word ("has a very *)
(* limited time span", clock.c): one cycle later the borrow makes it huge. *)
Measured ==
  /\ at = "get_counter" /\ (alpha => start.lo + spent < Word) => get_counter = spent
  /\ at = "done" /\ method # "fcyc" => result = spent

(* What an interrupt costs is never taken for less than it is, although one*)
(* may come between reading the counter and reading the ticks; so that no  *)
(* sample with compensation counts cycles that are not those of f.         *)
Compensated ==
  cyc_per_tick # 0 =>
    /\ cyc_per_tick >= cost
    /\ at = "times" /\ ~ alpha => ctime <= own

(* The answer is the least of all samples, and sampling stops only when the*)
(* kbest least ones are within epsilon, or there are maxsamples.           *)
BestSample ==
  at = "done" /\ method = "fcyc" =>
    /\ result = samples[1]
    /\ \/ has_converged(samples) /\ values = SubSeq(samples, 1, kbest)
       \/ Len(samples) = maxsamples

(* Every measurement ends, with an answer or with the process.             *)
TimingEnds == <>(at \in {"done", "exited", "killed"})
=============================================================================
