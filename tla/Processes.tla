------------------------------ MODULE Processes -----------------------------
(***************************************************************************)
(* The process programs of the homework (8_15.c, 8_16.c, 8_18.c, 8_21.c):  *)
(* a program is a sequence of instructions, every process runs one of its  *)
(* own, and the processes interleave in any order.  fork copies the        *)
(* counter, the atexit handlers and what stdio has not written out yet.    *)
(***************************************************************************)
EXTENDS Integers, FiniteSets, SequencesExt

VARIABLES
  program, tty,   \* which program runs, and whether stdout is a terminal
  st, pc, parent, \* of each process
  counter,        \* the global of 8_16.c, one copy in each process
  handlers,       \* how often atexit(end) was called
  buf,            \* what stdio holds back
  out,            \* what has been written
  failed          \* auxiliary: a fork has failed

vars == <<program, tty, st, pc, parent, counter, handlers, buf, out, failed>>

(***************************************************************************)
(* The programs.  A name in capitals is the wrapper of csapp.c: it ends    *)
(* the process where the bare call returns -1.                             *)
(***************************************************************************)
Instr(op, arg, zero, nonzero) == [op |-> op, arg |-> arg, zero |-> zero, nonzero |-> nonzero]
fork(zero, nonzero) == Instr("fork", "", zero, nonzero)
Fork(zero, nonzero) == Instr("Fork", "", zero, nonzero)
Wait == Instr("Wait", "", 0, 0)
waitpid == Instr("waitpid", "", 0, 0)
exit == Instr("exit", "", 0, 0)
decrement == Instr("decrement", "", 0, 0)
atexit == Instr("atexit", "", 0, 0)
line(text) == Instr("line", text, 0, 0)         \* printf of a text that ends with '\n'
flushed(text) == Instr("flushed", text, 0, 0)   \* printf and fflush

forkprob6 == <<
  Fork(2, 4), Fork(3, 3), line("hello"), line("hello"), exit >>

forkprob7 == <<
  fork(2, 4), decrement, exit, Wait, line("++counter"), exit >>

Mut_forkprob2 == <<   \* atexit before the first Fork
  atexit, Fork(3, 3), Fork(4, 6), flushed("0"), exit, flushed("1"), exit >>
forkprob2 == <<
  Fork(2, 3), atexit, Fork(4, 6), flushed("0"), exit, flushed("1"), exit >>
end == "2"   \* what the handler of 8_18.c prints and flushes

Mut_waitprob3 == <<   \* no waitpid
  fork(2, 4), flushed("a"), exit, flushed("b"), flushed("c"), exit >>
waitprob3 == <<
  fork(2, 4), flushed("a"), exit, flushed("b"), waitpid, flushed("c"), exit >>

Text == [ forkprob6 |-> forkprob6, forkprob7 |-> forkprob7,
          forkprob2 |-> forkprob2, waitprob3 |-> waitprob3 ]

(***************************************************************************)
(* Processes 1, 2, ...: st is "none" before the fork that creates it.      *)
(***************************************************************************)
Procs == 1 .. 4   \* no program has more
Child(p) == {c \in Procs : parent[c] = p}

Init ==
  /\ program \in DOMAIN Text /\ tty \in BOOLEAN
  /\ st = [p \in Procs |-> IF p = 1 THEN "running" ELSE "none"]
  /\ pc = [p \in Procs |-> 1]
  /\ parent = [p \in Procs |-> 0]
  /\ counter = [p \in Procs |-> 1]
  /\ handlers = [p \in Procs |-> 0]
  /\ buf = [p \in Procs |-> <<>>]
  /\ out = <<>> /\ failed = FALSE

At(p, ops) == st[p] = "running" /\ Text[program][pc[p]].op \in ops
Arg(p) == Text[program][pc[p]]
Goto(p, i) == pc' = [pc EXCEPT ![p] = i]
Step(p) == Goto(p, pc[p] + 1)

(* fork: the child has copies of the parent's memory.                      *)
DoFork(p) ==
  /\ At(p, {"fork", "Fork"})
  /\ LET c == CHOOSE c \in Procs : st[c] = "none" /\ \A d \in Procs : d < c => st[d] # "none"
     IN  /\ st' = [st EXCEPT ![c] = "running"]
         /\ parent' = [parent EXCEPT ![c] = p]
         /\ pc' = [pc EXCEPT ![p] = Arg(p).nonzero, ![c] = Arg(p).zero]
         /\ counter' = [counter EXCEPT ![c] = counter[p]]
         /\ handlers' = [handlers EXCEPT ![c] = handlers[p]]
         /\ buf' = [buf EXCEPT ![c] = buf[p]]
  /\ UNCHANGED <<program, tty, out, failed>>

(* fork returns -1, which is not 0; Fork calls unix_error and so exit.     *)
ForkFails(p) ==
  /\ At(p, {"fork", "Fork"})
  /\ failed' = TRUE
  /\ IF Arg(p).op = "Fork"
     THEN st' = [st EXCEPT ![p] = "exiting"] /\ UNCHANGED pc
     ELSE Goto(p, Arg(p).nonzero) /\ UNCHANGED st
  /\ UNCHANGED <<program, tty, parent, counter, handlers, buf, out>>

(* wait and waitpid reap one child that has ended, and block while there   *)
(* are others.                                                             *)
DoWait(p) ==
  /\ At(p, {"Wait", "waitpid"})
  /\ \E c \in Child(p) : st[c] = "zombie" /\ st' = [st EXCEPT ![c] = "reaped"]
  /\ Step(p)
  /\ UNCHANGED <<program, tty, parent, counter, handlers, buf, out, failed>>

(* There is no child: Wait ends the process, a bare waitpid is not checked *)
Mut_WaitFails(p) == FALSE   \* waits for ever
WaitFails(p) ==
  /\ At(p, {"Wait", "waitpid"})
  /\ \A c \in Child(p) : st[c] = "reaped"
  /\ IF Arg(p).op = "Wait"
     THEN st' = [st EXCEPT ![p] = "exiting"] /\ UNCHANGED pc
     ELSE Step(p) /\ UNCHANGED st
  /\ UNCHANGED <<program, tty, parent, counter, handlers, buf, out, failed>>

(* printf goes through the buffer, which a newline empties on a terminal   *)
(* and fflush empties anywhere.                                            *)
Write(p, text, flush) ==
  LET b == Append(buf[p], text)
  IN  IF flush THEN out' = out \o b /\ buf' = [buf EXCEPT ![p] = <<>>]
               ELSE buf' = [buf EXCEPT ![p] = b] /\ UNCHANGED out

Output(p) ==
  /\ At(p, {"line", "flushed"})
  /\ IF Arg(p).arg = "++counter"
     THEN /\ counter' = [counter EXCEPT ![p] = @ + 1]
          /\ Write(p, ToString(counter'[p]), tty)
     ELSE /\ Write(p, Arg(p).arg, Arg(p).op = "flushed" \/ (Arg(p).op = "line" /\ tty))
          /\ UNCHANGED counter
  /\ Step(p)
  /\ UNCHANGED <<program, tty, st, parent, handlers, failed>>

Decrement(p) ==
  /\ At(p, {"decrement"})
  /\ counter' = [counter EXCEPT ![p] = @ - 1]
  /\ Step(p)
  /\ UNCHANGED <<program, tty, st, parent, handlers, buf, out, failed>>

AtExit(p) ==
  /\ At(p, {"atexit"})
  /\ handlers' = [handlers EXCEPT ![p] = @ + 1]
  /\ Step(p)
  /\ UNCHANGED <<program, tty, st, parent, counter, buf, out, failed>>

(* exit runs the handlers, then writes what stdio still holds.             *)
Exit(p) ==
  /\ At(p, {"exit"})
  /\ st' = [st EXCEPT ![p] = "exiting"]
  /\ UNCHANGED <<program, tty, pc, parent, counter, handlers, buf, out, failed>>

RunHandler(p) ==
  /\ st[p] = "exiting" /\ handlers[p] > 0
  /\ handlers' = [handlers EXCEPT ![p] = @ - 1]
  /\ Write(p, end, TRUE)
  /\ UNCHANGED <<program, tty, st, pc, parent, counter, failed>>

Terminate(p) ==
  /\ st[p] = "exiting" /\ handlers[p] = 0
  /\ out' = out \o buf[p] /\ buf' = [buf EXCEPT ![p] = <<>>]
  /\ st' = [st EXCEPT ![p] = "zombie"]
  /\ UNCHANGED <<program, tty, pc, parent, counter, handlers, failed>>

Proc(p) ==
  \/ DoFork(p) \/ ForkFails(p) \/ DoWait(p) \/ WaitFails(p)
  \/ Output(p) \/ Decrement(p) \/ AtExit(p)
  \/ Exit(p) \/ RunHandler(p) \/ Terminate(p)

Next == \E p \in Procs : Proc(p)

(* The kernel schedules every process that can run.                        *)
Spec == Init /\ [][Next]_vars /\ \A p \in Procs : WF_vars(Proc(p))

(***************************************************************************)
(* Safety.                                                                 *)
(***************************************************************************)
Ended == \A p \in Procs : st[p] \in {"none", "zombie", "reaped"}
Count(text) == Cardinality({i \in DOMAIN out : out[i] = text})

(* Every variable stays in its type; no program writes more than six times *)
TypeOK ==
  /\ st \in [Procs -> {"none", "running", "exiting", "zombie", "reaped"}]
  /\ pc \in [Procs -> 1 .. 7] /\ parent \in [Procs -> 0 .. 4]
  /\ counter \in [Procs -> 0 .. 2] /\ handlers \in [Procs -> 0 .. 1]
  /\ out \in Seq({"hello", "0", "1", "2", "a", "b", "c"}) /\ Len(out) <= 6
  /\ tty \in BOOLEAN /\ failed \in BOOLEAN

(* The answers of week14.md, which hold when no fork fails: five hellos,   *)
(* whether stdout is a terminal or not; the child's decrement does not     *)
(* reach the parent's counter; before every 2 there is a 0 or a 1 that no  *)
(* other 2 needs; and c comes last, after the a of the child that was      *)
(* waited for.                                                             *)
Answers ==
  /\ program = "forkprob2" /\ ~ failed => Count("2") <= Count("0") + Count("1")
  /\ Ended /\ ~ failed =>
       CASE program = "forkprob6" -> out = [i \in 1 .. 5 |-> "hello"]
         [] program = "forkprob7" -> out = <<"2">>
         [] program = "forkprob2" -> Len(out) = 6 /\ Count("0") = 2 /\ Count("1") = 2
         [] program = "waitprob3" -> out \in {<<"a", "b", "c">>, <<"b", "a", "c">>}

(***************************************************************************)
(* Liveness: the processes all end, also when a fork fails.                *)
(***************************************************************************)
Termination == <>Ended
=============================================================================
