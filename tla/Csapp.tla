-------------------------------- MODULE Csapp -------------------------------
(***************************************************************************)
(* What a program of the homework can do with csapp.c: exchange a stream   *)
(* with the Rio functions, open a connection, or fork and wait.  The parts *)
(* share no state, so a behaviour exercises one of them, and the others    *)
(* stay as they start.                                                     *)
(***************************************************************************)
EXTENDS Rio

CONSTANTS MaxAddrs, Fds   \* of OpenFd

ASSUME OpenAssumption == MaxAddrs \in Nat /\ Fds \subseteq Nat

VARIABLES
  part,                           \* which part the program uses
  owner, th, exited,              \* of OpenFd
  program, tty, st, pc, parent, counter, handlers, buf, printed, failed   \* of Processes

openVars == <<owner, th, exited>>
processVars == <<program, tty, st, pc, parent, counter, handlers, buf, printed, failed>>
allVars == <<part, vars, openVars, processVars>>

Open == INSTANCE OpenFd
Process == INSTANCE Processes WITH out <- printed

Parts == {"rio", "open", "process"}

CsappInit ==
  /\ part \in Parts
  /\ Init /\ (part # "rio" => ~ buffered)
  /\ Open!Init /\ (part # "open" => ~ th["client"].wrapped)
  /\ Process!Init /\ (part # "process" => program = "forkprob6" /\ tty)

RioStep == part = "rio" /\ Next /\ UNCHANGED <<part, openVars, processVars>>
RioProgress == part = "rio" /\ Progress /\ UNCHANGED <<part, openVars, processVars>>
OpenStep == part = "open" /\ Open!Next /\ UNCHANGED <<part, vars, processVars>>
ProcessStep(p) == part = "process" /\ Process!Proc(p) /\ UNCHANGED <<part, vars, openVars>>

CsappNext ==
  \/ RioStep
  \/ OpenStep
  \/ \E p \in Process!Procs : ProcessStep(p)

CsappSpec ==
  /\ CsappInit /\ [][CsappNext]_allVars
  /\ WF_allVars(RioProgress)
  /\ \A p \in Process!Procs : WF_allVars(ProcessStep(p))

(* The properties of OpenFd and Processes, under the names they have there.*)
OnlyTheAnswer == Open!OnlyTheAnswer

(* Of a program that forks: what it prints, and that it ends.              *)
Answers == Process!Answers
Termination == part = "process" => Process!Termination
=============================================================================
