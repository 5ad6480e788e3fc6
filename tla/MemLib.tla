------------------------------- MODULE MemLib -------------------------------
(***************************************************************************)
(* The simulated memory system of the malloc lab (memlib.c): one region of *)
(* MAX_HEAP bytes and a break pointer that only mem_reset_brk moves back.  *)
(* Addresses are byte addresses.  The region is read and written in double *)
(* words of 8 bytes, the only width mm.c uses, so mem maps the address of  *)
(* each double word to its value.                                          *)
(***************************************************************************)
EXTENDS Integers

CONSTANTS
  mem_start_brk,  \* first byte of the region
  MAX_HEAP,       \* bytes in the region
  INT_MOD         \* number of values of a C int (2^32 in the build)

ASSUME MemAssumption ==
  /\ mem_start_brk \in Nat \ {0} /\ mem_start_brk % 8 = 0
  /\ MAX_HEAP \in Nat /\ MAX_HEAP % 8 = 0
  /\ INT_MOD \in Nat /\ INT_MOD >= 64 /\ INT_MOD % 2 = 0

VARIABLES
  mem,      \* the contents of the region
  mem_brk   \* first byte beyond the heap

memVars == <<mem, mem_brk>>

NULL == 0
mem_max_addr == mem_start_brk + MAX_HEAP
Words == {a \in mem_start_brk .. (mem_max_addr - 1) : a % 8 = 0}

(* malloc(MAX_HEAP) does not clear the region: any uniform stale contents. *)
mem_init(stale) ==
  /\ mem = [a \in Words |-> stale]
  /\ mem_brk = mem_start_brk

mem_reset_brk == mem_brk' = mem_start_brk

mem_heap_lo == mem_start_brk
mem_heap_hi == mem_brk - 1

(* mm.c passes a size_t where mem_sbrk declares an int.                    *)
ToInt(n) ==
  LET low == n % INT_MOD IN IF low < INT_MOD \div 2 THEN low ELSE low - INT_MOD

(* mem_sbrk refuses a negative increment and one past the end of the       *)
(* region; the mutation looks at the old break only.                       *)
Mut_SbrkFails(incr) == ToInt(incr) < 0 \/ mem_brk >= mem_max_addr
SbrkFails(incr) ==
  ToInt(incr) < 0 \/ mem_brk + ToInt(incr) > mem_max_addr

mem_sbrk(incr) ==
  /\ ~ SbrkFails(incr)
  /\ mem_brk' = mem_brk + ToInt(incr)

(* memset and memmove on aligned addresses: a double word is copied when   *)
(* its first byte is.                                                      *)
MemSet(m, p, v, n) ==
  [a \in DOMAIN m |-> IF p <= a /\ a < p + n THEN v ELSE m[a]]
MemMove(m, dst, src, n) ==
  [a \in DOMAIN m |-> IF dst <= a /\ a < dst + n THEN m[src + (a - dst)]
                                                 ELSE m[a]]
=============================================================================
