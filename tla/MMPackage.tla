----------------------------- MODULE MMPackage ------------------------------
(***************************************************************************)
(* The malloc package under test, seen through the interface mm.h by which *)
(* mdriver.c calls it.  The driver is linked with a package it knows       *)
(* nothing about, so the package is an environment of one of two kinds:    *)
(*   "correct"    every payload it hands out is aligned, inside the heap   *)
(*                and disjoint from the payloads not freed yet, and        *)
(*                mm_realloc keeps the contents;                           *)
(*   "arbitrary"  any address may come back, and mm_realloc may forget the *)
(*                contents.                                                *)
(* Either kind may give up: mm_init by -1, the others by NULL.             *)
(***************************************************************************)
EXTENDS MemLib

CONSTANTS
    ALIGNMENT,    \* config.h: alignment of payloads in bytes
    Addresses,    \* the addresses an arbitrary package may return
    Increments    \* by how much a call of the package may extend the heap

ASSUME PackageAssumption ==
    /\ ALIGNMENT \in Nat \ {0}
    /\ Addresses \subseteq Nat
    /\ Increments \subseteq Nat
    /\ 0 \in Increments

NULL == -1

VARIABLES
    session,      \* how the driver was built and called, for good
    live,         \* payloads handed out and not freed: records [lo, size]
    memory        \* memory[a]: the byte stored at address a

Bytes(lo, size) == lo .. lo + size - 1

Package == session.package    \* "correct" or "arbitrary"

\* What a correct package promises of a payload, given the payloads in use.
Fits(lo, size, used) ==
    /\ lo % ALIGNMENT = 0
    /\ Bytes(lo, size) \subseteq 0 .. mem_brk' - 1
    /\ \A b \in used : Bytes(lo, size) \cap Bytes(b.lo, b.size) = {}

\* A call may extend the heap, or try to, once or not at all.
ExtendHeap(brk) ==
    \E incr \in Increments, answer \in {-1, brk} : mem_sbrk(brk, incr, answer)

\* The driver resets the heap, then calls mm_init, which answers 0 or -1.
mm_init(answer) ==
    /\ ExtendHeap(mem_reset_brk)
    /\ answer \in {0, -1}
    /\ live' = {}

\* A call that asks for size bytes and gives back payloads that are then used.
Reply(p, size, used) ==
    /\ ExtendHeap(mem_brk)
    /\ \/ p = NULL /\ live' = live
       \/ /\ p \in Addresses
          /\ Package = "correct" => Fits(p, size, used)
          /\ live' = used \cup {[lo |-> p, size |-> size]}

mm_malloc(size, p) == Reply(p, size, live)

Freed(p) == {b \in live : b.lo # p}

mm_realloc(oldp, size, newp) == Reply(newp, size, Freed(oldp))

mm_free(p) ==
    /\ live' = Freed(p)
    /\ UNCHANGED mem_brk

\* memory with n bytes moved.  What lies outside the area is not followed.
Moved(from, to, n) ==
    [a \in DOMAIN memory |->
        IF a \in Bytes(to, n) /\ a - to + from \in DOMAIN memory
        THEN memory[a - to + from] ELSE memory[a]]

\* What memory may hold once mm_realloc has returned newp.
ReallocMemory(oldp, newp, size) ==
    LET old == CHOOSE b \in live : b.lo = oldp
        n   == IF size < old.size THEN size ELSE old.size
    IN  {Moved(oldp, newp, n)} \cup (IF Package = "correct" THEN {} ELSE {memory})

=============================================================================
