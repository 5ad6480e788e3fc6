----------------------------- MODULE MDriverMain ----------------------------
(***************************************************************************)
(* main of mdriver.c with the implicit-list package: a trace that          *)
(* eval_mm_valid accepts is replayed by eval_mm_util, which measures the   *)
(* heap it needs, and by fsecs(eval_mm_speed), a number of times.  The     *)
(* replays check and fill nothing; a call that fails ends the program.     *)
(***************************************************************************)
EXTENDS MMImplicit, Sequences

CONSTANTS
  MaxOps,   \* bound: of a longer trace only the first evaluation is modelled
  Speeds    \* runs of eval_mm_speed that fsecs asks for

ASSUME MainAssumption == MaxOps \in Nat /\ Speeds \in Nat \ {0}

VARIABLES
  phase,      \* "valid", "util", "speed", "next", or "exited" by app_error
  recorded,   \* the trace is the first one and has at most MaxOps requests
  ops,        \* trace->ops up to this point, with the answers given first
  opnum,      \* the next request of a replay
  total_size, max_total_size,   \* of eval_mm_util
  speeds      \* runs of eval_mm_speed that are over

utilVars == <<total_size, max_total_size>>
mainVars == <<phase, recorded, ops, opnum, utilVars, speeds>>
allVars == <<vars, mainVars>>

MainInit ==
  /\ Init
  /\ phase = "valid" /\ recorded = TRUE /\ ops = <<>> /\ opnum = 1
  /\ total_size = 0 /\ max_total_size = 0 /\ speeds = 0

(* eval_mm_valid.                                                          *)
Record ==
  LET fits == recorded /\ Len(ops) < MaxOps
  IN  /\ recorded' = fits
      /\ ops' = IF fits THEN Append(ops, [fn |-> call.fn, id |-> call.id, size |-> call.size, ret |-> call.ret])
                ELSE <<>>

ValidStep ==
  /\ phase = "valid" /\ UNCHANGED mmVars
  /\ \/ (RetMalloc \/ RetRealloc \/ RetFree) /\ Record /\ UNCHANGED <<phase, opnum, utilVars, speeds>>
     \/ /\ \/ RetInit
           \/ \E i \in Ids : \/ \E n \in Sizes : ReqMalloc(i, n)
                             \/ \E n \in ReallocSizes : ReqRealloc(i, n)
                             \/ ReqFree(i)
        /\ UNCHANGED mainVars

(* A replay starts: mem_reset_brk and mm_init.                             *)
Mut_Restart ==   \* on the heap as it is
  /\ opnum' = 1 /\ live' = {}
  /\ Post("mm_init", 0, 0, 0)
  /\ UNCHANGED <<memVars, blocks, block_sizes, ranges, verdict, mmVars, recorded, ops>>
Restart ==
  /\ mem_reset_brk /\ opnum' = 1 /\ live' = {}
  /\ Post("mm_init", 0, 0, 0)
  /\ UNCHANGED <<mem, blocks, block_sizes, ranges, verdict, mmVars, recorded, ops>>

StartUtil ==
  /\ phase = "valid" /\ recorded /\ ReadyForOp
  /\ Restart
  /\ phase' = "util" /\ total_size' = 0 /\ max_total_size' = 0
  /\ UNCHANGED speeds

Replayed == phase \in {"util", "speed"} /\ call.st = "none" /\ opnum > Len(ops)

StartSpeed ==
  /\ Replayed /\ (phase = "util" \/ speeds + 1 < Speeds)
  /\ Restart
  /\ phase' = "speed" /\ speeds' = IF phase = "util" THEN 0 ELSE speeds + 1
  /\ UNCHANGED utilVars

EndSpeed ==
  /\ Replayed /\ phase = "speed" /\ speeds + 1 = Speeds
  /\ phase' = "next"
  /\ UNCHANGED <<vars, recorded, ops, opnum, utilVars, speeds>>

(* The next trace, which may be of any length and is not recorded.         *)
StartNext ==
  /\ \/ phase = "next"
     \/ phase = "valid" /\ (verdict = "invalid" \/ ~ recorded)
  /\ NextTrace /\ UNCHANGED mmVars
  /\ phase' = "valid" /\ recorded' = FALSE /\ ops' = <<>> /\ opnum' = 1
  /\ total_size' = 0 /\ max_total_size' = 0 /\ speeds' = 0

(* eval_mm_util and eval_mm_speed: a request, and what follows its answer. *)
ReplayRequest ==
  /\ phase \in {"util", "speed"} /\ call.st = "none" /\ opnum <= Len(ops)
  /\ LET op == ops[opnum]
     IN  /\ Post(op.fn, op.id, IF op.fn = "mm_malloc" THEN NULL ELSE blocks[op.id], op.size)
         /\ live' = IF op.fn = "mm_free" THEN live \ {op.id} ELSE live
  /\ opnum' = opnum + 1
  /\ UNCHANGED <<memVars, blocks, block_sizes, ranges, verdict, mmVars, phase, recorded, ops, utilVars, speeds>>

Failed == IF call.fn = "mm_init" THEN call.ret < 0 ELSE call.fn # "mm_free" /\ call.ret = NULL

Larger(a, b) == IF a > b THEN a ELSE b
Mut_Change == IF call.fn = "mm_free" THEN - block_sizes[call.id] ELSE call.size
Change ==
  CASE call.fn = "mm_malloc"  -> call.size
    [] call.fn = "mm_realloc" -> call.size - block_sizes[call.id]
    [] call.fn = "mm_free"    -> - block_sizes[call.id]
    [] OTHER                  -> 0

(* app_error ends the program when the call has failed.  (block_sizes is   *)
(* also kept in the speed evaluation, which never reads it.)               *)
ReplayReturn ==
  /\ phase \in {"util", "speed"} /\ call.st = "returned"
  /\ call' = NoCall
  /\ phase' = IF Failed THEN "exited" ELSE phase
  /\ IF ~ Failed /\ call.fn \in {"mm_malloc", "mm_realloc"}
     THEN /\ live' = live \union {call.id}
          /\ blocks' = [blocks EXCEPT ![call.id] = call.ret]
          /\ block_sizes' = [block_sizes EXCEPT ![call.id] = call.size]
     ELSE UNCHANGED <<live, blocks, block_sizes>>
  /\ IF ~ Failed /\ phase = "util"
     THEN total_size' = total_size + Change /\ max_total_size' = Larger(total_size', max_total_size)
     ELSE UNCHANGED utilVars
  /\ UNCHANGED <<memVars, ranges, verdict, mmVars, recorded, ops, opnum, speeds>>

MainStep ==
  \/ StartUtil \/ StartSpeed \/ EndSpeed \/ StartNext
  \/ ReplayRequest \/ ReplayReturn

MainNext ==
  \/ PackageStep /\ UNCHANGED mainVars
  \/ ValidStep
  \/ MainStep

MainSpec == MainInit /\ [][MainNext]_allVars /\ WF_allVars(PackageStep /\ UNCHANGED mainVars)

(***************************************************************************)
(* Properties.                                                             *)
(***************************************************************************)

(* What was accepted once is answered in the same way in every replay, on  *)
(* whatever bytes the evaluations before have left: a valid trace never    *)
(* ends the program in eval_mm_util or eval_mm_speed.                      *)
Repeatable ==
  /\ phase # "exited"
  /\ phase \in {"util", "speed"} =>
       /\ pc # "crashed"
       /\ call.st = "returned" /\ call.fn # "mm_init" => call.ret = ops[opnum - 1].ret

(* The utilisation is at most 1: the most bytes the trace holds at a time  *)
(* fit in the heap as the trace leaves it.                                 *)
UtilAtMostOne ==
  phase = "util" => max_total_size <= mem_brk - mem_start_brk
=============================================================================
