------------------------------- MODULE Memlib -------------------------------
(***************************************************************************)
(* The memory system of the malloc lab (memlib.c): a region of MAX_HEAP    *)
(* bytes with a break that only grows.  Pointers and sizes are numbers     *)
(* below 2^WordBits and wrap, ints are their signed reading.               *)
(***************************************************************************)
EXTENDS Integers

CONSTANTS
    WordBits,       \* width of a pointer, of a size_t and of an int
    mem_start_brk,  \* where malloc placed the region
    MAX_HEAP

(* The region ends below the largest address, as malloc guarantees.  How   *)
(* far below is not said: mem_sbrk compares mem_brk + incr after the       *)
(* addition, and the sum may wrap.                                         *)
ASSUME HeapAssumption ==
    /\ WordBits \in Nat \ {0} /\ MAX_HEAP \in Nat /\ mem_start_brk \in Nat \ {0}
    /\ 2^WordBits \in Nat /\ 2^(WordBits - 1) \in Nat
    /\ 2^WordBits = 2 * 2^(WordBits - 1)
    /\ mem_start_brk + MAX_HEAP < 2^WordBits - 1

NULL   == 0
Failed == 2^WordBits - 1                  \* (void *)-1
Word(n)   == n % 2^WordBits
Signed(n) == IF n < 2^(WordBits - 1) THEN n ELSE n - 2^WordBits

mem_max_addr == mem_start_brk + MAX_HEAP
mem_heap_lo  == mem_start_brk
HeapAddr     == mem_start_brk .. mem_max_addr - 1

mem_reset_brk == mem_start_brk

mem_heap_hi(mem_brk)  == Word(mem_brk - 1)
mem_heapsize(mem_brk) == mem_brk - mem_start_brk

(* Seeded fault: a negative increment is not refused.                      *)
mem_sbrk_Shrinks(mem_brk, incr) ==
    IF Word(mem_brk + incr) > mem_max_addr
      THEN [brk |-> mem_brk, ret |-> Failed]
      ELSE [brk |-> Word(mem_brk + incr), ret |-> mem_brk]

mem_sbrk(mem_brk, incr) ==
    IF incr < 0 \/ Word(mem_brk + incr) > mem_max_addr
      THEN [brk |-> mem_brk, ret |-> Failed]
      ELSE [brk |-> Word(mem_brk + incr), ret |-> mem_brk]
=============================================================================
