------------------------------- MODULE MMHeap -------------------------------
(***************************************************************************)
(* labs/malloclab/mm.c word by word: mm_init, without the stray token in   *)
(* line 121 that keeps the file from compiling.  It lays out a prologue,   *)
(* extends the heap by one free block and coalesces that block, which      *)
(* follows the list pointers of the block.                                 *)
(*                                                                         *)
(* A word has 32 bits, a pointer is its low and its high word.  All heap   *)
(* addresses have the high word HEAP, and the low word of the first one is *)
(* 0, so that low words are offsets from mem_start_brk.  mem is the whole  *)
(* area of MAX_HEAP bytes: memory above the break is there as well.  The   *)
(* program faults at any other address.  PUT and GET are at multiples of   *)
(* four bytes.  The list field SUCC(bp) starts in the middle of PRED(bp),  *)
(* at bp + WSIZE, as in the source.                                        *)
(***************************************************************************)
EXTENDS MemLib, Sequences

CONSTANTS
    CHUNKSIZE,      \* bytes of the first extension
    HEAP            \* the high word of heap addresses, not 0

VARIABLES
    pc, after,      \* where mm_init is, and where mm_checkheap returns to
    mem,            \* the words of the area
    heap_listp, heap_basefree,
    bp, size,       \* the block being coalesced, at being checked
    at,
    unlink,         \* the blocks exp_coalesce has still to take off the list
    merged,         \* the block the merged one starts at, once they are off
    complaint       \* mm_checkheap has printed an error

vars == <<mem_brk, pc, after, mem, heap_listp, heap_basefree, bp, size, at, unlink, merged, complaint>>

(***************************************************************************)
(* The macros                                                              *)
(***************************************************************************)
WSIZE == 4
DSIZE == 8
FREEBLOCKSIZE == 24

Words   == {o \in 0 .. MAX_HEAP - WSIZE : o % WSIZE = 0}
Null    == <<0, 0>>
Address(off) == <<off, HEAP>>
Plus(p, k) == <<p[1] + k, p[2]>>

\* Eight bytes at p can be read and written.
Mapped(p) == p[2] = HEAP /\ {p[1], p[1] + WSIZE} \subseteq Words

PACK(n, alloc) == n + alloc
GET(p) == mem[p[1]]
GET_SIZE(p)  == (GET(p) \div 8) * 8
GET_ALLOC(p) == GET(p) % 2
HDRP(p) == Plus(p, -WSIZE)
FTRP(p) == Plus(p, GET_SIZE(HDRP(p)) - DSIZE)
NEXT_BLKP(p) == Plus(p, GET_SIZE(Plus(p, -WSIZE)))
PREV_BLKP(p) == Plus(p, -GET_SIZE(Plus(p, -DSIZE)))

\* Eight bytes of m.
Get64(m, p) == <<m[p[1]], m[p[1] + WSIZE]>>
PUT_64VAL(m, p, v) == [m EXCEPT ![p[1]] = v[1], ![p[1] + WSIZE] = v[2]]
PRED(m, p) == Get64(m, p)
SUCC(m, p) == Get64(m, Plus(p, WSIZE))

(***************************************************************************)
(* The functions                                                           *)
(***************************************************************************)
\* The area comes from a malloc so large that its pages are new: zeros.
Init ==
    /\ mem_init
    /\ pc = "mm_init" /\ after = "returned"
    /\ mem = [o \in Words |-> 0]
    /\ heap_listp = Null /\ heap_basefree = Null /\ bp = Null /\ at = Null
    /\ size = 0
    /\ unlink = <<>> /\ merged = "self"
    /\ complaint = FALSE

Fault == pc' = "fault" /\ UNCHANGED <<mem, heap_basefree, unlink>>

\* mm_checkheap is called.
Check(next) == pc' = "check" /\ after' = next /\ at' = heap_listp'

\* The prologue: its footer and the epilogue lie beyond the four words that
\* mem_sbrk has given.
mm_init ==
    /\ pc = "mm_init"
    /\ mem_sbrk(mem_brk, 4 * WSIZE, mem_brk)
    /\ LET b == mem_brk
       IN  /\ mem' = [mem EXCEPT
                 ![b] = 0, ![b + 4] = PACK(FREEBLOCKSIZE, 1),
                 ![b + 24] = PACK(FREEBLOCKSIZE, 1), ![b + 28] = PACK(0, 1),
                 ![b + 8] = 0, ![b + 12] = 0, ![b + 16] = 0, ![b + 20] = 0]
           /\ heap_listp' = Address(b + 2 * WSIZE)
    /\ heap_basefree' = heap_listp'
    /\ Check("extend")
    /\ UNCHANGED <<bp, size, unlink, merged, complaint>>

\* checkblock, and printblock with its reads of the header and the footer.
Bad(p) == p[1] % 8 # 0 \/ GET(HDRP(p)) # GET(FTRP(p))

CheckBlock ==
    /\ pc = "check"
    /\ GET_SIZE(HDRP(at)) > 0
    /\ complaint' = (complaint \/ Bad(at)
                       \/ (at = heap_listp /\ GET(HDRP(at)) # PACK(FREEBLOCKSIZE, 1)))
    /\ at' = NEXT_BLKP(at)
    /\ UNCHANGED <<mem_brk, pc, after, mem, heap_listp, heap_basefree, bp, size, unlink, merged>>

CheckEnds ==
    /\ pc = "check"
    /\ GET_SIZE(HDRP(at)) = 0
    /\ complaint' = (complaint \/ GET_ALLOC(HDRP(at)) = 0)
    /\ pc' = after
    /\ UNCHANGED <<mem_brk, after, mem, heap_listp, heap_basefree, bp, size, at, unlink, merged>>

\* Bytes for so many words: an even number of them, enough for a free block.
Extension(words) ==
    LET even == (words + (words % 2)) * WSIZE
    IN  IF even < FREEBLOCKSIZE THEN FREEBLOCKSIZE ELSE even

\* The header goes into the word below the new area, the upper half of the
\* prologue's list field.
extend_heap ==
    /\ pc = "extend"
    /\ size' = Extension(CHUNKSIZE \div WSIZE)
    /\ mem_sbrk(mem_brk, size', mem_brk)
    /\ bp' = Address(mem_brk)
    /\ mem' = [mem EXCEPT
          ![mem_brk - WSIZE] = PACK(size', 0),
          ![mem_brk + size' - DSIZE] = PACK(size', 0),
          ![mem_brk + size' - WSIZE] = PACK(0, 1)]
    /\ UNCHANGED <<heap_listp, heap_basefree, unlink, merged, complaint>>
    /\ Check("coalesce")

ExtendFails ==
    /\ pc = "extend"
    /\ mem_brk + Extension(CHUNKSIZE \div WSIZE) > MAX_HEAP
    /\ pc' = "returned"
    /\ UNCHANGED <<mem_brk, after, mem, heap_listp, heap_basefree, bp, size, at, unlink, merged, complaint>>

prev_alloc == GET_ALLOC(FTRP(PREV_BLKP(bp))) = 1
next_alloc == GET_ALLOC(HDRP(NEXT_BLKP(bp))) = 1

\* The four cases: the size of the whole block and whom to take off the list.
exp_coalesce ==
    /\ pc = "coalesce"
    /\ LET prev == GET_SIZE(HDRP(PREV_BLKP(bp)))
       IN  \/ /\ prev_alloc /\ next_alloc
              /\ unlink' = <<>> /\ pc' = "insert"
              /\ UNCHANGED <<bp, size>>
           \/ /\ prev_alloc /\ ~next_alloc
              /\ unlink' = <<"next">> /\ pc' = "unlink"
              /\ size' = size + GET_SIZE(HDRP(NEXT_BLKP(bp)))
              /\ UNCHANGED bp
           \/ /\ ~prev_alloc /\ next_alloc
              /\ unlink' = <<"self">> /\ pc' = "unlink"
              /\ size' = size + prev
              /\ bp' = PREV_BLKP(bp)
           \/ /\ ~prev_alloc /\ ~next_alloc
              /\ unlink' = <<"prev", "next">> /\ pc' = "unlink"
              /\ size' = size + prev + GET_SIZE(FTRP(NEXT_BLKP(bp)))
              /\ UNCHANGED bp
    /\ merged' = IF prev_alloc \/ next_alloc THEN "self" ELSE "prev"
    /\ UNCHANGED <<mem_brk, after, mem, heap_listp, heap_basefree, at, complaint>>

\* coalesce_helper: the successor's predecessor field is followed to the word
\* that is set to the predecessor.
coalesce_helper ==
    /\ pc = "unlink"
    /\ unlink # <<>>
    /\ LET p    == CASE Head(unlink) = "self" -> bp
                     [] Head(unlink) = "prev" -> PREV_BLKP(bp)
                     [] Head(unlink) = "next" -> NEXT_BLKP(bp)
           pred == PRED(mem, p)
           m    == IF pred = Null THEN mem
                   ELSE PUT_64VAL(mem, Plus(pred, WSIZE), SUCC(mem, p))
           succ == SUCC(m, p)
       IN  IF \/ pred # Null /\ ~Mapped(Plus(pred, WSIZE))
              \/ succ # Null /\ ~Mapped(succ)
              \/ succ # Null /\ ~Mapped(PRED(m, succ))
             THEN Fault
             ELSE /\ heap_basefree' = IF pred = Null THEN succ ELSE heap_basefree
                  /\ mem' = IF succ = Null THEN m
                            ELSE PUT_64VAL(m, PRED(m, succ), PRED(m, p))
                  /\ unlink' = Tail(unlink)
                  /\ UNCHANGED pc
    /\ UNCHANGED <<mem_brk, after, heap_listp, bp, size, at, merged, complaint>>

\* The boundary tags of the whole block.
Merge ==
    /\ pc = "unlink"
    /\ unlink = <<>>
    /\ bp' = IF merged = "self" THEN bp ELSE PREV_BLKP(bp)
    /\ mem' = [mem EXCEPT ![bp'[1] - WSIZE] = size, ![bp'[1] + size - DSIZE] = size]
    /\ UNCHANGED <<mem_brk, heap_listp, heap_basefree, size, unlink, merged, complaint>>
    /\ Check("insert")

\* The block becomes the first of the list, again through its list fields.
Insert ==
    /\ pc = "insert"
    /\ LET head == PRED(mem, heap_basefree)
           m1   == PUT_64VAL(mem, head, bp)
           m2   == PUT_64VAL(m1, SUCC(m1, bp), heap_basefree)
       IN  IF Mapped(heap_basefree) /\ Mapped(head) /\ Mapped(SUCC(m1, bp)) /\ Mapped(PRED(m2, bp))
             THEN /\ mem' = PUT_64VAL(m2, PRED(m2, bp), Null)
                  /\ heap_basefree' = bp
                  /\ pc' = "returned"
                  /\ UNCHANGED unlink
             ELSE Fault
    /\ UNCHANGED <<mem_brk, after, heap_listp, bp, size, at, merged, complaint>>

Next ==
    \/ mm_init \/ CheckBlock \/ CheckEnds \/ extend_heap \/ ExtendFails
    \/ exp_coalesce \/ coalesce_helper \/ Merge \/ Insert

Spec == Init /\ [][Next]_vars

(***************************************************************************)
(* Properties                                                              *)
(***************************************************************************)
\* "mm_init - Initialize the memory manager" (mm.c:109): mm_init does not
\* fault, as long as the heap check it calls itself has found nothing wrong.
MmInitReturns == pc = "fault" => complaint

=============================================================================
