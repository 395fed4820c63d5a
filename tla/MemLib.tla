------------------------------- MODULE MemLib -------------------------------
(***************************************************************************)
(* The simulated memory system of the malloc lab, memlib.c: one area of    *)
(* MAX_HEAP bytes with a break pointer.  Addresses are offsets from        *)
(* mem_start_brk, so that mem_start_brk is 0 and mem_max_addr MAX_HEAP.    *)
(***************************************************************************)
EXTENDS Integers

CONSTANT MAX_HEAP       \* config.h: bytes the break may reach

ASSUME MaxHeapAssumption == MAX_HEAP \in Nat

VARIABLE mem_brk        \* first byte above the heap

mem_init == mem_brk = 0

\* The break after a reset: mem_start_brk.
mem_reset_brk == 0

\* The heap grows by incr bytes, and the answer is where it ended before; it
\* cannot be shrunk or grow beyond its area, the answer is -1 then.
mem_sbrk(brk, incr, answer) ==
    IF incr < 0 \/ brk + incr > MAX_HEAP
    THEN answer = -1 /\ mem_brk' = brk
    ELSE answer = brk /\ mem_brk' = brk + incr

mem_heap_lo == 0
mem_heap_hi == mem_brk - 1
mem_heapsize == mem_brk

=============================================================================
