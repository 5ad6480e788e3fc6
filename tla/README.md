# CSAPP-in-ECNU: a verification project

The repository holds a student's solutions of the CSAPP labs and homework: a
malloc package with its driver, a cache simulator, matrix transposes, bit
puzzles, and small programs around the Unix process and I/O interface.  This
project models the parts of it that have state worth reasoning about, checks the
models with TLC on small instances, and proves the central invariants with TLAPS
for every value of the constants.

`PROJECT.json` lists the components, the runs, the source lines every definition
stands for, the hazards, and the theorems.  Paths below are relative to `src/`.

## 1. Inventory

| Component | Source | State | Operations | What makes it correct |
|---|---|---|---|---|
| Memory system model | `lab/lab5/malloclab-handout/memlib.c` | one region, its break, stale bytes | `mem_init`, `mem_sbrk`, `mem_reset_brk` | the break never leaves the region |
| Malloc package, implicit list | `lab/lab5/lab5/mm.c` 95-234 | headers in the heap, `heap`, `heap_end` | `mm_init`, `mm_malloc`, `mm_free`, `mm_realloc` | blocks tile the heap, payloads are disjoint and keep their data, deferred coalescing loses no fit |
| Malloc package, explicit list | `mm.c` 236-383 | the same, one list of free blocks | the same | not compilable, see section 8 |
| Malloc package, segregated lists | `mm.c` 385-586 (selected) | headers and links in the heap, `CLASS_NUM` sentinels | the same | the lists hold exactly the free blocks of their class, and all of the above |
| Malloc driver | `lab/lab5/malloclab-handout/mdriver.c` | the trace, the addresses and sizes it holds, the range list, the high water mark | `eval_mm_valid`, `eval_mm_util`, `eval_mm_speed`; `add_range`, `remove_range` | accepts only correct answers (but see finding 4); refuses a correct one only for a realloc to size 0 or of an index whose low byte is 128 or more; what it has accepted can be replayed |
| Timing | `fcyc.c`, `clock.c`, `ftimer.c`, `fsecs.c` | the K best samples, the counter in two words, the cost of a timer interrupt | `fsecs`, `fcyc`, `callibrate`, `start_comp_counter`, `get_comp_counter`, `ftimer_itimer`, `ftimer_gettod` | measures the time spent, without the interrupts, and ends |
| Cache simulator | `lab/lab4/cachelab-handout/csim.c` | per line tag and LRU stamp, three counters | load, store, modify | counts what an LRU cache counts |
| Transposes and their evaluation | `trans.c`, `test-trans.c`, `tracegen.c`, `driver.py3` in `lab/lab4/cachelab-handout` | two matrices, the cache of `csim-ref`, result files, an alarm, child processes | one iteration of a transpose, one step of an evaluation | the transposes are transposes with few misses; the result reported is the submission's own |
| Robust I/O | `homework/test_codes/csapp.c` | the descriptor, a buffer, `errno` | `rio_readn`, `rio_writen`, `rio_read`, `rio_readnb`, `rio_readlineb` | no byte lost, repeated or reordered |
| Socket helpers | `csapp.c` 950-1045 | open descriptors, the address list | `open_clientfd`, `open_listenfd` | only the returned descriptor stays open |
| Process programs | `homework/test_codes/8_*.c` | processes, atexit handlers, counters | fork, wait, exit, print | the outputs the write-ups name |
| Bit puzzles and `btest` | `lab/lab1/datalab-handout` | none in the puzzles; in `btest` the test values, the indices, a pending alarm | one function per puzzle; select, generate, call, time out, score | equal to `tests.c` at every input; a test ends and a pass means agreement |
| Bomb, attack target | `lab/lab2`, `lab/lab3` | - | - | no program source of their own to specify |

How they interact.  `mdriver.c` calls `mem_init` once and then, for every trace,
`mem_reset_brk`, `mm_init` and the requests of the trace; the package calls
`mem_sbrk` and reads and writes the region.  After every answer the driver
updates the range list and fills the payload, and when a payload is reallocated
it reads the data back.  `csim.c` reads a trace file and prints its counters;
`driver.py3` runs `test-trans`, which runs `tracegen` and `csim-ref` as children; all of them communicate by
files of fixed names.  `mdriver` hands `eval_mm_speed` to `fsecs`, which calls it between two readings of a clock;
`btest` calls a puzzle and its reference, and a signal handler that jumps back out of them.  The Rio functions call `read` and `write` of the kernel, which a signal
may interrupt.

What is hard here.  The package runs in one thread, so its difficulty is in long
sequences of legal calls: blocks are cut and merged in every order, merging is
deferred to the scan of a later call, there are no boundary tags, and the links
of a free block lie where the payload of an allocated one was.  `mem_sbrk` can
fail in the middle of a call.  The heap is reset between traces and its old bytes
stay.  The driver must keep its own list consistent when it rejects an answer.
The simulator's LRU stamp is an `unsigned int` and doubles as the mark of an
empty line.  The replays of the driver start on whatever the evaluation before has left in the heap, and end the whole
program when a call fails.  The timing package is interrupted between any two of its steps, and must not mistake an
interrupt for work.  `btest` and `test-trans` set an alarm and never cancel it; one jumps out of its
handler, the other exits and leaves children behind that go on writing the files of the next run.

## 2. Modules

```
MemLib --> MDriver --> MMImplicit --> MDriverMain       (main, and the replays)
               |  |        |              \--> MDriverMain_proofs
               |  |        \--> MMImplicit_proofs --> MMImplicit_contract_proofs
               |  \--> MMSegregated --> MMSegregated_proofs
               |  \--> AnyAllocator --> Malloclab <-- Timing
               |                          \--> Malloclab_proofs
               |
           INSTANCE Allocator          (abstract: what a package promises)

CSim --> CSim_proofs
  |
INSTANCE LRUCache                      (abstract: what the simulator promises)

Rio --> Csapp --> Csapp_proofs         (Csapp: with INSTANCE OpenFd, INSTANCE Processes)

Bits --> Btest --> MCBtest             (MCBtest: the arguments of the runs)

Transpose --> Evaluation --> Evaluation_proofs
```

`A --> B`: B EXTENDS A.  `MDriverMain_proofs` also EXTENDS `MMImplicit_contract_proofs`, whose invariants it
lifts to the main loop.

**MemLib** (`memlib.c`).  `mem` maps each 8-byte word of the region to its value
and `mem_brk` is the break.  mm.c accesses memory only in double words, so a word
is the unit.  `mem_sbrk` takes an `int`: `ToInt` converts the `size_t` mm.c
passes, modulo `INT_MOD`.

**MDriver** (`eval_mm_valid` and the range list of `mdriver.c`).  A trace is any
sequence of requests in which an identifier is allocated when it is not live and
reallocated or freed when it is.  `call` is the interface: the driver posts a
call (`ReqMalloc`, `ReqRealloc`, `ReqFree`), a package answers it, and `RetMalloc`,
`RetRealloc`, `RetFree` are what the driver does with the answer (test, range
list, fill, compare).  `NextTrace` is the main loop going to the next trace file
over the bytes the last one left, also after a trace that was rejected half way.
The test of `add_range` is the one of the code, not the one of its comment, and an answer to a realloc to size 0 other than NULL
is one its `assert` ends the driver on, so there is no step behind it.
`Fill` puts three copies of the low byte of the index in a word where the code
puts eight: the property that matters is that a payload word taken for a header
or a pointer is far outside the region, except for the byte 0.  `eval_mm_valid` reads the bytes back as `newp[j]`, a plain `char` (mdriver.c:583, 656),
and compares them with the int `index & 0xFF`.  A `char` of the build is signed, so a byte of 128 or more reads as negative (`Char`)
and `DataKept` fails of it whatever the package has copied.

**Allocator** (abstract).  The contract: every identifier holds a payload, payloads
are disjoint, aligned and inside the region, malloc adds one, free removes one,
realloc keeps the first min(old, new) bytes, and nothing else ever changes a
payload.  `MDriver!Contract` instantiates it on the payloads the package has
handed out and `ImplementsContract` is its specification, as a property.

**MMImplicit** (IMPLEMENTATION 1 of `mm.c`).  `pc` tells where the call is.  The
loops of `first_fit` and of `mm_realloc` take one step per iteration, so that
their termination is something to check; straight-line code between two loops is
one step.  `blks` is auxiliary: the set of blocks, changed only where a header is
made or absorbed, against which the headers in memory are compared.

**MMSegregated** (IMPLEMENTATION 3, the one the committed file selects).  The macros
and the list operations are translated on a memory value, statement by statement
(`Then` is the order of two statements), because the links are in the blocks.
Reads and writes outside the region are total in the model (0 and lost);
`ListsSound` says that no free block makes the package compute such an address,
and a crash at address 0 is the value `"crashed"` of `pc`.
In `cut_block` the code erases the block, inserts it again by its new size, and
`mm_malloc` erases it at once: the pair is redundant there, and the model keeps
it because the code does.

**AnyAllocator** (the driver, against a package that answers anything).  What the
driver still accepts is what its checks really establish.

**MDriverMain** (`main`, `eval_mm_util` and `eval_mm_speed` of `mdriver.c`, with the implicit package).  While `eval_mm_valid`
goes through a trace, the trace and the answers are recorded.  When it ends, every request is replayed by
`eval_mm_util`, which keeps `total_size` and `max_total_size`, and then `Speeds` times by `eval_mm_speed`; `Restart` is what each
replay does first.  A replay checks nothing, and `Failed` is when `app_error` ends the program.  Then the next trace begins on
the heap as it is; it is only evaluated, not replayed.

**Timing** (`fsecs.c`, `fcyc.c`, `clock.c`, `ftimer.c`).  `at` says where the measurement of a function `f` is.  The counter is a
number below `Word` * `Word` read in two words (`get_counter` subtracts them with the borrow of the code); that of an Alpha has one.
These are the i386 and the Alpha variant of `clock.c`.  The build of the repository is neither: with `-m64` (Makefile) `clock.c` compiles its last
variant, whose `start_counter` and `get_counter` print an error and exit, and `config.h` selects `gettimeofday` (`USE_FCYC` and `USE_ITIMER` are 0,
`USE_GETTOD` is 1), which is the method `"gettod"` of the model.  The others are what the sources offer elsewhere.
`Tick` is an interrupt of the timer: it costs `cost` cycles and may come between any two steps, also between a reading of
the counter and one of the ticks.  `quiet` keeps interrupts apart: at most one in an iteration of `callibrate`, and one
before and one after `f` returns.  `callibrate` takes an iteration for one cycle and counts its gaps from the last one recorded;
`add_sample`, `has_converged` and `fcyc` are those of the code, with the parameters `init_fsecs` sets.  `ftimer_itimer` and
`ftimer_gettod` are `n` runs between two readings of seconds and microseconds; the interval timer kills the process when it expires
(nothing handles its signal, and nothing disarms it).

**Malloclab** puts `AnyAllocator` and `Timing` beside each other, the two things `mdriver` does whatever the package is.

**CSim** (`csim.c`).  A cache line is a tag and an LRU stamp.  One action per kind
of trace line: `LoadOrStore`, `Modify`, and `Ignored` (an instruction load,
which still counts in `instruction_count`).  Counters and stamps are modulo
`UINT_MOD`.  `parse_tag` keeps the low bits of the block number, as the cast to
`unsigned` does.

**LRUCache** (abstract).  A set holds at most `Ways` blocks and knows of any two which was used
before the other; it says nothing of lines, tags or stamps.  `CSim!LRU` maps the simulator to it: `Held` are the tags
of the lines of a set, `Older` the order of their stamps.

**Rio** (the Rio functions of `csapp.c`).  A byte of the stream is its position, so a byte that is
lost, repeated or out of order can be told apart.  One process writes with `rio_writen` to a pipe of
`PIPE_BUF` bytes; another reads it either with `rio_readn` or, through a `rio_t`, with any mixture
of `rio_readnb` and `rio_readlineb` (mixing `rio_readn` with a `rio_t` on one descriptor is not a
supported use).  Every system call is one step, which moves any number of the bytes asked for, is
interrupted, or fails; so is every round of the loops of `rio_readnb` and `rio_readlineb`.
`write` answering 0 leaves `errno` as it was, so what the loop of `rio_writen` tests then is an old value.
A reader's buffer is at most the size of the call; `out` and `got` record
what was answered, `lost` what a failed call had already moved.

**OpenFd** (`open_clientfd`, `open_listenfd` and their wrappers).  Two threads call them at a time; every system call is a step,
may fail, and leaves its own `errno`; `owner` is the process's table of the descriptors `Fds`.

**Processes** (`8_15.c`, `8_16.c`, `8_18.c`, `8_21.c`).  A program is a sequence of instructions, and
up to four processes run one each of their own.  `fork` copies the counter, the `atexit` handlers
and what stdio has not written yet; whether stdout is a terminal decides when a line is written.
A failing `fork` ends the process in `Fork` and, as -1 is not 0, continues in the parent's branch in the
programs that call `fork` bare.

**Csapp** composes Rio, OpenFd and Processes: a program uses one of them.

**Bits** (`bits.c`, `tests.c`).  An `int` is the set of the positions of its 1 bits, so all 32 bits are there and `&`, `|` and masks are
set operations; `Plus` adds by carries.  Shifts take their count modulo 32, as the instructions of the `-m32` build do.  The references
of `tests.c` are stated over integers (`Signed`) and, for floats, over sets of weights with rounding to nearest even
(`Float`), so that a puzzle and its reference are computed in different ways.  `test_fitsBits` negates the least `int` when its
second argument is 32; the model allows both answers a build can give.

**Btest** (`btest.c`, `decl.c`).  `test_set` is the table of `decl.c`; `gen_vals` makes the values of one argument as the code does, with `TEST_RANGE`
as the bound; `Test` is one call of a puzzle and its reference.  `alarm` is pending from `SetAlarm` on and is never cancelled: `timeout_handler`
may come at any later step.  If `test_function` has not returned since its `sigsetjmp` the jump scores an error; otherwise it goes to
a frame that is gone, which C leaves undefined (`pc` = `"undefined"`).  The reference of `ilog2` loops for ever at 0 (`Loops`).

**Transpose** (`trans.c`).  A function yields, for each iteration of its innermost loop, which int is copied where and in which order loads
and stores are made.  `Stored` applies the copies to B; `Simulated` counts the misses of a direct-mapped cache of 32 sets of 8 ints, the one
`test-trans` asks of `csim-ref`.  The ints of A are told apart by their place, so a wrong copy is always seen.

**Evaluation** (`test-trans.c`, `tracegen.c`, `driver.py3`).  `driver.py3` runs `test-trans` for three sizes; for each of the two
registered functions `test-trans` runs `tracegen` (on a B full of `Random`, what `initMatrix` leaves), checks its answer, filters the trace, runs `csim-ref` and reads `.csim_results`.
`sigalrm_handler` may come at any step and prints `0:0`; a child then running becomes one of the `orphans`, which may
still write its file at any later step.  Whether `valgrind` and `csim-ref` can be run at all is chosen at the start, and so is whether `/bin/sh`
forks for the command of `system()`, whose output is redirected: then the shell itself keeps test-trans's stdout, the pipe to `grep`, and `driver.py3` does
not go on before the children left behind have ended (`PipeClosed`).

## 3. Runs

| Run | Module | Instance | What it shows |
|---|---|---|---|
| `Implicit` | MDriverMain | 56-byte heap, 3 identifiers, sizes 1 and 17, realloc to 0 and 25, stale memory, several traces | the package implements the contract and loses no fit; the driver refuses an answer only where the model of its comparison says (`DriverAccepts`); what it has accepted is answered alike in every replay; every call returns |
| `Segregated` | MMSegregated | 112-byte heap, 2 classes, sizes 9 and 17, realloc to 0 and 25 | tiling, lists, scan and contract; every call returns |
| `SegregatedLinks` | MMSegregated | a request of 1 to 8 bytes | *violated*: finding 1 |
| `SegregatedStraySet` | MMSegregated | realloc that moves | *violated*: finding 2 |
| `SegregatedNoMemory` | MMSegregated | a heap that fills up | *violated*: finding 3 |
| `Malloclab` | Malloclab | any package, one size, realloc to that size or to 0; 16 values of the counter, interrupts of 1 or 4 cycles | the range list matches the live payloads, which lie in the heap and are disjoint; a measurement is right and ends |
| `DriverOverlap` | AnyAllocator | any package, sizes 4 and 20 | *violated*: finding 4 |
| `CacheLRU` | CSim | 2 sets of 2 lines, 3 blocks, 5 trace lines | the simulator implements an LRU cache |
| `Csapp` | Csapp | 4 bytes, the second a newline, a `rio_buf` of 2, a pipe of 3; two threads, up to 3 addresses each; the four programs | every byte is delivered once and in order, short counts mean end of file, lines are whole; only the answered descriptor stays open; the outputs `week14.md` gives |
| `Datalab` | MCBtest | `TEST_RANGE` 9, three random values, four fixed ones | the puzzles answer what `tests.c` does; a pass means agreement; `btest` ends |
| `FloatTwice` | MCBtest | a float of the largest exponent | *violated*: finding 5 |
| `Cachelab` | Evaluation | the three graded sizes, any alarms | the transposes are right and get full marks; what is reported is the submission's own; the driver ends |

Bounds, and why they suffice.

* `MAX_HEAP` and the identifiers bound the heap.  In 56 bytes two or three blocks fit beside the first one: a run of free blocks has an
  allocated neighbour, a free block is cut, a realloc moves, and the heap fills up.  In `Segregated` there is room behind the sentinels
  for two blocks of 24 and 32 bytes, which merge into one that is cut again.  With an `INT_MOD` of 64 in the runs of the driver a request may turn negative for
  `mem_sbrk`; with 128 and 256 only the end of the region fails it.
* In `Implicit` the identifiers are 0, 128 and 384.  The first fills with zero bytes: a payload word reads as
  the header of a free block of size 0, the worst a payload can look like.  The other two fill with the byte 128, the least that reads as a negative
  `char`: every realloc of them is refused, those of 0 are accepted.  In `Segregated` 0 and 256 fill with zero bytes.  `Stale` is a word that reads as the header of an allocated block of 8 bytes.
* `Segregated` uses requests above 8 bytes: below that the code breaks its own lists
  (finding 1), and there is nothing to check behind that.  Its sizes lay the blocks out so that the stray write of finding 2
  falls on headers only; the run shows that everything else of `mm_realloc` is right.  It has one trace: a second one over old
  bytes is covered by `Implicit`.
* `MaxOps` is 4: a trace of up to four requests is recorded and replayed, which is enough for two payloads of which one is freed, cut or
  moved; longer traces, and all traces after the first, are evaluated without a replay.  `Speeds` is 2, the least number of runs of
  which one follows another (`fsecs` makes 10).
* `Malloclab`: with a `Word` of 4 the counter has 16 values and starts at every one, so a run of at most 3 cycles with up to two interrupts of
  4 crosses the end of the low word and of both.  An interrupt of 1 cycle is below `RECORDTHRESH`, one of 4 above.
  `Second` is 3, so that runs cross the end of a second and the interval timer expires.  `kbest` of `maxsamples` is 2 of 3: sampling
  stops by convergence and by the limit.
* `MaxLines` bounds the trace of the simulator.  Five lines fill a set of two lines, hit, evict,
  and use an evicted block again.  Of the three
  blocks two share a set and the low bits of the third are those of another (`Blocks` has 19 and
  `UINT_MOD` is 16).
* In `Csapp` the stream is longer than the pipe and than the `rio_t`, a write and a read of 3 need several system
  calls, a read of 3 empties the `rio_t` and fills it again, the newline falls inside and at the end of a refill,
  and lines are asked for with room for less and for more than there is.  The four programs are finite.
* `TEST_RANGE` is 9 where the code has 500000: three values at each end and around 0 of two arguments, nine of one.  The ranges at most 13 times as large
  are taken whole, as in the code, so every shift count occurs.  The random values are an odd
  pattern, a negative number and one that is rounded to even; `ArgVals` are what a user may fix with `-1`, 0 and the ends among them.
* `Cachelab` has no bound: sizes, cache and functions are those of the driver.  `MaxTimeouts` of 3 lets every run time out.

`CHECK_DEADLOCK FALSE` is set where a trace, a program or the stream may end: the program stops there.

Fairness.  `WF` of `PackageStep` in the two packages: once a call is posted, the package is
an ordinary sequential function and runs on.  Nothing is assumed of the driver: a
trace may end anywhere.  Under it `CallsReturn` says that every call returns or dies
for want of memory, that is, that the loops of `first_fit` and `mm_realloc` end, also
the one of the segregated package that starts over after each merge.  `WF` of `SpeedStep` and of `Interrupt` in Malloclab: the
function that is measured returns, and the timer of the kernel keeps interrupting, without which `callibrate` would wait for ever.
`WF(Run)` and `WF(timeout_handler)` in Btest: the program runs, and an alarm
that is pending goes off if nothing else happens.  `WF(Program)` and `WF(sigalrm_handler)` in Evaluation: nothing is assumed of the children,
so `DriverEnds` rests on the alarm, and makes one exception: where `/bin/sh` forks for the command of `system()`, that shell
keeps the pipe to `driver.py3` open as long as a child left behind hangs, and `communicate()` waits for it (`PipeClosed`).  `WF(Progress)` in Rio: a read that can answer does so at some
time, that is, a signal does not interrupt every one of them for ever; nothing is assumed of the
writer, so `NeverStuck` says that a call that never returns waits for bytes nobody has written on
a pipe nobody has closed.  `WF(Proc(p))` in Processes: the kernel schedules every process that can run.  The other
specifications are safety only.

What the properties of the newer runs say, where their names do not.

* `Repeatable`: during a replay every answer is the one `eval_mm_valid` was given, whatever bytes are in the heap, so `app_error` is never reached.  Addresses
  are repeated too, because the package keeps no state but the heap and `mm_init` writes whatever it will read.
* `UtilAtMostOne`: the utilisation `eval_mm_util` answers is at most 1, though the sizes it adds up and the break it divides by come from different modules.
* `Compensated`: a tick may be counted before its cycles are, so one estimate of its cost may be too low; together with `RECORDTHRESH` none
  that is kept is, and a compensated sample never charges `f` for an interrupt.
* `Measured`: exact up to the span of the counter; for an Alpha that is one word, as the comment at `clock.c:98` warns.
* `OwnResults`: if every program runs and no earlier run has timed out, correctness and misses are those of the submission; otherwise
  correctness still is, while `.csim_results` may be that of a child left behind.
* `FullMarks`: the misses of the three sizes are 284, 1232 and 1967, below 300, 1300 and 2000 with 16 to spare for accesses that are not to the matrices.

## 4. Findings

1. *Blocks too small for their links* (`SegregatedLinks`).  `mm_malloc` (mm.c:539) asks for
   `ALIGN(size + DSIZE)` without a lower bound.  A request of at most 8 bytes makes a 16-byte
   block, whose SUCC link is the header of the next block once it is free.  `lab5.md:172`
   says the smallest block is 24 bytes.
2. *A stray header write* (`SegregatedStraySet`).  mm.c:582 is `SET(HDRP(newptr + 2 * DSIZE), 1)`;
   `SET` applies `HDRP` itself, so the write goes 24 bytes below the new block's header and may set a
   bit in a payload of somebody else.  `lab5.md:7` forbids that.
3. *A failed extend is ignored* (`SegregatedNoMemory`).  mm.c:541-543 runs `first_fit` again
   and gives its NULL to `cut_block`, although the driver (mdriver.c:607) and `mm_realloc` itself (mm.c:579) expect NULL.
4. *The driver misses an overlap* (`DriverOverlap`).  `add_range` (mdriver.c:409) looks whether an end
   of the new payload lies in an old one, so a new payload that strictly contains an old one is
   accepted.  With payloads of one size it cannot happen (`Malloclab`).
5. *NaN for infinity* (`FloatTwice`).  `float_twice` (bits.c:538) adds 1 to the exponent of every normalised number.  An exponent of 0xfe
   becomes 0xff with the significand kept: 0x7f400000 gives the NaN 0x7fc00000 where twice the number is infinity.  `btest` does not find it:
   its largest values end at 0x7f000000, whose significand is 0.

## 5. What is proved

Each theorem holds for every value of the constants allowed by the assumptions of the
modules (`MemAssumption`, `TraceAssumption`, `StaleAssumption`, `ClassAssumption`, `CSimAssumption`, those of `Timing`), and under
what its own ASSUME adds, which is named below.  `Spec` of a package has the driver evaluate any traces, one after the other;
the run `Implicit` checks the same formulas under `MainSpec`, which adds the replays.  The lemmas on the actions are stated
over `IInv`, not over a specification, so both have their theorems from the same ones.

**MMImplicit_proofs** - heap of any size, any identifiers, any sizes, any stale memory, any number of traces:

* `Invariance`: `Spec => []IInv`,
* `TypeCorrect`: `Spec => []TypeOK`,
* `NoSharedByte`: `Spec => []PayloadsDisjoint`.

`PayloadsDisjoint` alone is not inductive: nothing in it keeps the package from handing out a
block twice.  `IInv` says why it holds.  `Tiled`: from a header `GET_SIZE` leads to the next block or to
`heap_end` and no block starts inside another.  `HeldInBlocks`: every payload a trace holds starts an
allocated block of its own that is long enough.  `RequestInv` and `LocalInv` carry what each point of a
call knows about the block it works on (`place`: the cursor is a free block that is long enough;
`copy`: the new block is held by nobody yet).  The proof has one lemma per action.  The
lemmas about the tiling (what cutting, merging, extending and marking a block do to it)
are stated once and cited by the actions.

**MMImplicit_contract_proofs** - the same generality.  What a client sees of the package:

* `KeepsContract`: `Spec => ImplementsContract`, the refinement of `Allocator`;
* `Accepted`: `Spec => DriverAccepts`.  The driver gives up on an answer of the package for three reasons only: `mm_init` failed, a realloc to
  size 0 answered NULL, or it read the bytes of a low byte of 128 or more as negative.  Of every other index the data is found again;
* `FullBeforeExtending`: `Spec => []ExtendOnlyWhenFull`, and `LowestFit`: `Spec => []FirstFit`;
* `StartsRun`: `Spec => []CursorStartsRun`, the reason `lab5.md` gives for deferring the merges: a scan meets
  a run of free blocks at its first block.

The invariant is `CInv`: `IInv`, and from the first `mm_init` of a trace on

* `ScanInv`: no free run that ends at or before the cursor is long enough, and a free block under the cursor is the first of its run.  The
  second half is what makes the first inductive: a block merged with the ones behind it is then the whole run;
* `DataInv`: a live payload holds what the driver wrote, and the answer of `mm_realloc` what fits both sizes (`DataMoved`, which is
  of the bytes; `DataKept` adds how the driver reads them, and `FoundAgain` says when the first gives the second).  The package
  writes headers only, and by `Tiled` and `HeldInBlocks` no header lies in a payload;
* `RangeInv`: the range list is the live payloads, which are not empty.

`StartInv` says that a trace starts with nothing live, and that `mm_realloc` was given the block of its identifier.  For the refinement, `View` says of every identifier what the mapping
makes of it, in terms of `Holds`, `Addr` and `Bytes`; each step of the module is then shown to be `Malloc`, `Realloc` or
`Free` of the contract, or to leave every payload as it is.  The steps inside a call, also those that move `mem_brk`, merge or copy, are
stutters.

**MMSegregated_proofs** - heap of any size, any number of classes, any sizes above 8 bytes, any stale memory, any number of traces:

* `Invariance`: `RoomForLinks /\ Spec /\ []StrayMisses => []IInv`;
* `HeapIsSound`: under the same hypotheses `[]HeapSound`, what every operation of the package relies on: the blocks tile the
  heap, and the lists hold exactly the free blocks, each in the list of its class, with their links both ways;
* `ScanIsComplete` (`[]ScanComplete`) and `SecondScanFinds` (`[]RefitFinds`): what `first_fit` has passed does not fit, although it merges
  blocks, moves them to other lists and starts over; and the scan after `extend_heap` finds the block that was made;
* `SoundWithoutRealloc`: when the traces reallocate to size 0 only, nothing is assumed of the behaviour:
  `RoomForLinks /\ ReallocSizes \subseteq {0} /\ Spec => [](HeapSound /\ ScanComplete /\ RefitFinds)`.

The two hypotheses are the two findings on this package.  `RoomForLinks` excludes requests of at most 8 bytes (finding 1).
`StrayMisses` speaks of the state before the copy of an `mm_realloc` that moves its block, whose second `SET` (mm.c:582, finding 2)
writes 24 bytes below the header of the new block: that word is neither the header nor a link of a free block, that is, the block
before the new one is not free with 24, 32 or 40 bytes.  A larger free block, or an allocated one, may be there: then the write falls on bytes that
no list reads (in an allocated block it falls on a header of the same value, or on the payload).  All else of `mm_realloc` is
covered: growing in place over several free blocks, moving, copying `GET_SIZE - DSIZE` bytes, and freeing the block left.  In every state of the run
`Segregated` the hypothesis is true, and the run moves blocks.  Neither can be dropped: the run `SegregatedLinks` reaches a block without
room for its links, and with `MAX_HEAP = 144`, the identifiers 1, 2, 3, `Sizes = {9, 33}`, `ReallocSizes = {9, 25, 40}` and `Stale = {0}` TLC finds `HeapSound`
violated after a move whose stray write hits a free block.

`ClassAssumption` has `CLASS_NUM * 24 < INT_MOD` (`CLASS_NUM` is 15, mm.c:41), for `mm_init` asks `mem_sbrk`, which takes an
`int`, for that many bytes.

Here everything the package knows lies in memory: a list is what the SUCC words lead through, and every store might cut one.
The invariant therefore says of the bytes what a list is.  `Shape` is the tiling, and for each class a ring (`Ring`): the
set of the free blocks of that class and its sentinel, in which PRED and SUCC are inverse to each other, and from whose sentinel
SUCC leads round (`Round`) through all of them.  No sequence occurs in it, so nothing has to be
proved by induction over one.  `Marks` and `Owners` say which blocks are allocated and whose they are, `Freed` what a call knows of
the block it has just freed, `Room` that a payload handed out fits its block.  `MoveInv` says of a realloc
that moves that the block it leaves is smaller than what it asks for, so that the copy stays inside the new one, and that nobody holds the new one.  `ScanInv` is the invariant of the scan, in terms of
the order in which a ring is gone through.  One lemma per list operation (`insert`, `erase`) says what it makes of all rings,
stated of a memory value as the operations are; `cut_block`, the merge and `extend_heap` are compositions of them.

**MDriverMain_proofs** - the same generality, under `MainSpec`, with any number of replays:

* `ReplaysInvariant`: `MainSpec => []IInv`, also in the replays, which check nothing and fill no payload;
* `EveryReplayAnswers`: `MainSpec => []Repeatable`;
* `UtilisationAtMostOne`: `MainSpec => []UtilAtMostOne`.

`Repeatable` relates two runs of the package that are far apart and find different bytes in the heap.  What the package
does next depends on the headers of its blocks, the break, its locals and the payloads handed out: `Now` is
the record of these, and `Step` the function on such records that every action of the package is shown to
compute (`FitTakeNow`, `FitCoalesceNow`, ...: one lemma each).  `MInv` adds a history to `IInv`: the evaluation of a trace goes through a
set of records in which each is followed by its `Step`, or by the recorded request or return of a call (`History`), and a replay is always
at a record of that set (`Faithful`).  So its answers are those recorded, and no `app_error` is reached.  For
`UtilAtMostOne`, `UInv` adds that `total_size` is the number of the bytes in the payloads held (`Footprint`): by `IInv` they are disjoint and lie
below the break, so they are no more than the bytes of the heap.  `ExtendOnlyWhenFull` and `FirstFit` are proved of `Spec` only; that they
hold in a replay, which goes through the same records, is checked by the run `Implicit`.

**CSim_proofs** - any geometry, any trace:

* `TypeCorrect`: unconditional;
* under `Short`, a trace of fewer lines than an `unsigned int` has values:
  `EmptyLines` (an LRU of 0 means an empty line), `LRUOrder` (the stamps of a set are distinct and
  no block has two lines) and `Conservation` (misses less evictions are the occupied lines);
* under `HitsExact`, a trace of fewer lines than half that number: `ReportsLRU`: `Spec => ImplementsLRU`, the refinement of `LRUCache`.

Its inductive invariant says that every stamp is at most `instruction_count`, that the line last
read has not been stamped yet, and that stamps in a set differ; the least stamp
then is the least recently used line.  `Short` is needed: a trace of 2^32 lines would stamp a line
that holds a block with 0, the mark of an empty one.  A modify counts two hits, so the counter `hits` of a trace only
`Short` may wrap around, which `LRUCache` does not: hence `HitsExact`.  For the refinement each line of the trace is shown to
be one `Reference` (or a stutter): a set is full in one sense when it is in the other, the line `ToEvict` picks is
`LeastRecent`, and the new stamp puts its block behind all others in `Older`.

**Malloclab_proofs**, the evaluation of correctness - any package, any sizes, any answers, under `LabSpec`, the other part of `mdriver` changing
nothing (`ValidPart`, `SpeedPart`):

* `RangeListExact`: `LabSpec => []RangesMatch`, and `InHeap`: `LabSpec => []PayloadsInHeap`;
* `NothingElsePasses`: two accepted payloads are disjoint or one lies strictly inside the other.  Finding 4 shows the second case; the theorem
  says it is the only one that `add_range` misses;
* `OneSizeDisjoint`: `LabSpec => []PayloadsDisjoint` when all requests have one size or are a realloc to 0.

`remove_range` finds a range by its first byte: that it removes the right one rests on no two ranges
starting at the same address, which `NothingElsePasses` gives although they may overlap.

**Malloclab_proofs**, the measurement - words of any width, interrupts and functions of any length:

* `ReadsTimeSpent`: `LabSpec => []Measured`,
* `NothingUndercompensated`: `LabSpec => []Compensated`.

`CounterInv`: while `f` runs, the counter is where it was plus the time spent, modulo its range; that `get_counter` then gives the time is
arithmetic of two words with a borrow.  `SpentInv` and `CalInv`: the ticks counted are paid for in
the time they are taken from, except perhaps the last one, which in `callibrate` is then made up for by the one before the first.
Both theorems assume `LongRecords` (`RECORDTHRESH` is at least 1 and at least `THRESHOLD`; 3000 and 1000 in `clock.c`) and `ShortMeasurements`
(a run of `f` with two interrupts is shorter than the counter takes to come round).

**Csapp_proofs**, the Rio functions - a stream and a pipe of any size, any `RIO_BUFSIZE`, any sizes of the calls, any faults:
`TypeCorrect`, `WritesAll`, `ReadsInOrder`, `ReadsAccounted`, `ShortReads`, `Lines`, all from `Invariance`; `StreamInvariance` is that
invariant under `CsappSpec`, where the same buffer is one program of three.  The
properties speak of what is seen between two calls; `IInv` says where the bytes are during one.  `BufferInv`: the
unread bytes of the `rio_t` are the last ones read from the pipe.  `CallInv`: the call's buffer holds the bytes
that follow those answered.  `AnswerInv` keeps the order over failed calls, which lose bytes and never reorder
them; `WriterInv` and `LineInv` do the same for `rio_writen` and for newlines.  The proof has one lemma
per action.

**Csapp_proofs**, the socket helpers - any number of addresses, any numbers as descriptors:

* `NoLeak`: `CsappSpec => []OnlyTheAnswer`.  The invariant gives, at every system call of a thread, the set of descriptors it owns and the state of
  its list; that a call of the other thread leaves them alone is most of the proof.  A least free descriptor exists by
  well-foundedness, so `Lowest` is one.

**Evaluation_proofs** - any number of timeouts, at the three sizes of the driver:

* `FunctionsTranspose`: `Spec => []Transposes`: no iteration of `solve_32`, `solve_64`, `solve_61` and `trans` touches an int outside the two
  matrices, and when the loops have ended `validate` holds;
* `ReportsSubmission`: `Spec => []OwnResults`.

`Transposes` says of the end only that B is right, so its invariant says what B holds after every number `k` of iterations (`MemInv`: B is `Held`).
Of the place at row `r` and column `c`, `FirstStore` and `LastStore` are the iterations that store there, in closed form:
the digits of `r` and `c` to the base 8 (or 17) are the loop counters.  Before the first, B holds what `initMatrix` left there; after the last, the int that belongs there;
between the two, which differ only for the upper right quarters of the chunks of `solve_64`, the int that is parked there.
One lemma per function (`SolveRight32`, `SolveRight64`, `SolveRight61`, `TransRight`) shows that iteration `k` stores exactly where `k` is the first or the last,
and what belongs there; `StoredLemma` makes of it that `Held` goes from `k` to `k + 1`.  For this `Random` only needs to be a value: that the places
still to be written hold it is part of the invariant.

`OwnInv` is about the files the children leave: until a run has timed out there is no orphan, so `.csim_results` is the answer of the
`csim-ref` just run, and `results.misses` the misses of `trace.f0`.  After a timeout both fail, which is why `OwnResults` asks for `Timeouts = 0`.
`ControlInv` has the alarm: it is pending only while a run is on, so `sigalrm_handler` never ends a run twice.

## 6. What is only model-checked

* Liveness (`CallsReturn`, `MeasurementEnds`, `Ends`, `DriverEnds`, `NeverStuck`, `Termination`) and anything about `ENABLED`: out of the
  prover's reach.
* What recursive functions compute: `PuzzlesAgree` and `PassMeansAgree` (the carries of `Plus`, the rounding of floats) and `FullMarks` (the
  misses of a cache) would need induction over data, which the prover has not.  At the sizes of the driver
  the runs of `Cachelab` are complete anyway.
* `BestSample`: it relates two sorted sequences, the K best samples and all of them, and that a sort of the one agrees with a sort of the other is
  induction over their length.
* `Answers`: the four programs are finite, the run visits all their interleavings.
* `ImplementsContract` and the other properties of the driver for the segregated package: what the payloads hold is proved of the implicit package only.

## 7. Plan

The components worth a model have one.  What is left to prove is `ImplementsContract` for the segregated package, from `HeapIsSound` along the
argument of MMImplicit_contract_proofs.

## 8. What is not modelled, and why

* IMPLEMENTATION 2 of `mm.c`: it uses `SUCCP` (mm.c:265), which nothing defines, so it does not compile.
* `src/mm.c`: an unfinished draft, superseded by `lab/lab5/lab5/mm.c`.
* The evaluations of libc's malloc in `mdriver.c`, which are those of the package with other calls, and the sums and scores `main` prints.
* Of the timing package: the clock rate (`mhz`, which sleeps), `ovhd`, which nothing calls, `fcyc` without compensation, which `init_fsecs` never selects,
  and the effect of `clear` on the cache of the machine.
* Of the evaluation of transposes: `test-csim`, and the handler of SIGSEGV, which a fault of a child does not reach.
* `week3.c` and `week7.c`: expressions without state.  `week3.c` needs a `signed_high_prod` the repository does not hold; the
  loop of `week7.c:33` compares (`mask <= n`) where it means to shift, so its `mask` never changes and it never ends.
* Reading of trace files and command lines, and all output.  `read_trace` reads a size with `%u` and stores it as an `int`, so a malformed trace can hold
  a negative one; as a `size_t` it makes `ALIGN` wrap around, and `add_range` asserts a positive size only when `mm_malloc` has answered.
  `TraceAssumption` leaves such traces out.
* The arguments of `btest` that fix a value, but for `-1` with `-f`: `-2`, `-3` and `-1` without `-f`.
* The bomb and the attack target: what the repository holds of them is disassembly and write-ups.
* `ishow.c`, `fshow.c`, the grading scripts: formatting and process glue.
* The wrappers of `csapp.c` that only pass an answer on or exit.

Some limits of the programs show in the models without contradicting a text of the repository.
`rio_readlineb` with a `maxlen` of 1 answers 0, which a caller takes for end of file.  The outputs of
`week14.md` assume that no `fork` fails: in `8_21.c` a failing one gives `bc`.  `csim.c`
stamps lines with an `unsigned int`: after 2^32 lines of trace a used line has the LRU 0 that marks an empty one
(csim.c:237), which is why the theorems on the simulator assume `Short`.  `btest` never cancels its alarm, so one that fires between two
puzzles jumps into a frame that has returned.  A child that `test-trans` leaves behind may overwrite the results of the next one.

Two divergences have no run of their own.

* `eval_mm_valid` "makes sure that the new block contains the data from the old block" (mdriver.c:649), but of an index whose low byte is 128 or more it
  refuses a block that does contain it, because it compares a signed `char` with `index & 0xFF` (mdriver.c:656).  `DriverAccepts` names the case, and the run
  `Implicit` and the theorem `Accepted` show that there is no other.
* `fitsBits` promises `1 <= n <= 32` (bits.c:272), but from 16 bits on its first shift count is negative, which C leaves undefined; with the counts
  of the `-m32` build its answer is not that of the reference.  The comment at bits.c:281-283 says that tests fail, `fitsBits(0, 32)` among others.
  `KnownToFail` leaves these inputs out of `PuzzlesAgree`, which therefore says nothing of them.
