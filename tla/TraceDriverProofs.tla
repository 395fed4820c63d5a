-------------------------- MODULE TraceDriverProofs --------------------------
(***************************************************************************)
(* Proofs about TraceDriver: for every set of sessions, what the driver    *)
(* concludes of a package follows from what the package did.               *)
(***************************************************************************)
EXTENDS TraceDriver, FiniteSetTheorems, TLAPS

(***************************************************************************)
(* Constants and traces                                                    *)
(***************************************************************************)
\* Where a trace file is loaded, and where none is.
Running == {"start_valid", "eval_mm_valid", "start_util", "eval_mm_util", "fsecs",
            "eval_mm_speed", "eval_libc_valid", "eval_libc_speed", "libc_done"}
Between == {"main", "main_libc", "score", "terminated"}
Pauses  == {"start_valid", "start_util", "fsecs", "libc_done"}    \* no request is under way
Points  == Running \cup Between \cup {"abort", "assert"}

\* The constants, one by one.
LEMMA Constants ==
    /\ MAX_HEAP \in Nat /\ ALIGNMENT \in Nat /\ ALIGNMENT > 0
    /\ Addresses \subseteq Nat /\ Increments \subseteq Nat
    /\ FREE_HEAP \in Nat /\ SPEED_RUNS \in Nat
    /\ INT_MAX \in Nat /\ MAX_HEAP <= INT_MAX
  BY MaxHeapAssumption, PackageAssumption, DriverAssumption
     DEF MaxHeapAssumption, PackageAssumption, DriverAssumption

\* The number of requests is that of the header once it has been compared.
LEMMA TraceFacts ==
    ASSUME session \in Sessions, NEW t \in TraceFiles
    PROVE  /\ t.num_ids \in Nat /\ t.num_ops \in Nat
           /\ t.ops \in Seq(Request)
           /\ HeaderRight(t) => t.num_ops = Len(t.ops)
           /\ \A n \in 1 .. Len(t.ops) :
                 /\ t.ops[n] \in Request
                 /\ t.ops[n].index \in Indexes(t.ops)
                 /\ t.ops[n].index \in Nat /\ t.ops[n].size \in Nat
                 /\ t.ops[n].type \in {"ALLOC", "REALLOC", "FREE"}
                 /\ IF t.ops[n].type = "ALLOC"
                    THEN t.ops[n].index \notin InUseAfter(t.ops, n - 1)
                    ELSE t.ops[n].index \in InUseAfter(t.ops, n - 1)
<1>1. /\ t.num_ids \in Nat /\ t.num_ops \in Nat
      /\ t.ops \in Seq(Request)
      /\ \A n \in DOMAIN t.ops :
            IF t.ops[n].type = "ALLOC"
            THEN t.ops[n].index \notin InUseAfter(t.ops, n - 1)
            ELSE t.ops[n].index \in InUseAfter(t.ops, n - 1)
  BY TraceAssumption DEF TraceAssumption, TraceFiles
<1>2. DOMAIN t.ops = 1 .. Len(t.ops)
  BY <1>1
<1>3. \A n \in 1 .. Len(t.ops) : t.ops[n] \in Request /\ t.ops[n].index \in Indexes(t.ops)
  BY <1>1, <1>2 DEF Indexes
<1>4. \A r \in Request : r.index \in Nat /\ r.size \in Nat /\ r.type \in {"ALLOC", "REALLOC", "FREE"}
  BY DriverAssumption DEF DriverAssumption, Request
<1> QED
  BY <1>1, <1>2, <1>3, <1>4 DEF HeaderRight

\* Before the first request nothing is in use.
LEMMA NoneInUse == ASSUME NEW ops PROVE InUseAfter(ops, 0) = {}
  BY DEF InUseAfter

\* A request puts its id in use, or takes it out.
LEMMA InUseStep ==
    ASSUME NEW ops \in Seq(Request), NEW n \in Nat, n < Len(ops)
    PROVE  InUseAfter(ops, n + 1) =
             IF ops[n + 1].type = "FREE"
             THEN InUseAfter(ops, n) \ {ops[n + 1].index}
             ELSE InUseAfter(ops, n) \cup {ops[n + 1].index}
<1> DEFINE id == ops[n + 1].index
           Live(k, m) == /\ ops[k].type # "FREE"
                         /\ \A j \in k .. m : ops[j].index = ops[k].index => ops[j].type # "FREE"
<1>1. \A m : InUseAfter(ops, m) = {ops[k].index : k \in {k \in 1 .. m : Live(k, m)}}
  BY DEF InUseAfter
<1>2. \A k \in 1 .. n :
         Live(k, n + 1) <=> Live(k, n) /\ (ops[k].index = id => ops[n + 1].type # "FREE")
  <2> SUFFICES ASSUME NEW k \in 1 .. n
               PROVE  Live(k, n + 1) <=>
                        Live(k, n) /\ (ops[k].index = id => ops[n + 1].type # "FREE")
    OBVIOUS
  <2>1. \A j : j \in k .. n + 1 <=> j \in k .. n \/ j = n + 1
    OBVIOUS
  <2> QED
    BY <2>1
<1>3. Live(n + 1, n + 1) <=> ops[n + 1].type # "FREE"
  <2>1. \A j \in n + 1 .. n + 1 : j = n + 1
    OBVIOUS
  <2> QED
    BY <2>1
<1> HIDE DEF Live, id
<1>4. \A k : k \in 1 .. n + 1 <=> k \in 1 .. n \/ k = n + 1
  OBVIOUS
<1>5. \A x : x \in InUseAfter(ops, n + 1) <=>
               \/ \E k \in 1 .. n : Live(k, n + 1) /\ x = ops[k].index
               \/ Live(n + 1, n + 1) /\ x = id
  BY <1>1, <1>4 DEF id
<1>6. \A x : x \in InUseAfter(ops, n) <=> \E k \in 1 .. n : Live(k, n) /\ x = ops[k].index
  BY <1>1
<1>7. CASE ops[n + 1].type = "FREE"
  BY <1>2, <1>3, <1>5, <1>6, <1>7 DEF id
<1>8. CASE ops[n + 1].type # "FREE"
  BY <1>2, <1>3, <1>5, <1>6, <1>8 DEF id
<1> QED
  BY <1>7, <1>8

(***************************************************************************)
(* The course of the evaluation                                            *)
(***************************************************************************)
Stat == [valid : BOOLEAN, ideal : Int, max : Int]

\* A trace is loaded exactly while it is evaluated, with a header that counts
\* its requests, and every variable but the range list has its type.
CtlInv ==
    /\ session \in Sessions
    /\ pc \in Points
    /\ tracenum \in 0 .. num_tracefiles
    /\ pc \in Between => trace = NoTrace /\ opnum = 0
    /\ pc \notin Between \cup {"abort"} => trace \in TraceFiles /\ tracenum < num_tracefiles
    /\ pc \in Running => trace.num_ops = Len(trace.ops)
    /\ pc \in {"score", "terminated"} => tracenum = num_tracefiles
    /\ pc \in Pauses => opnum = 0
    /\ opnum \in 0 .. trace.num_ops
    /\ blocks \in [Indexes(trace.ops) -> Int]
    /\ block_sizes \in [Indexes(trace.ops) -> Int]
    /\ mem_brk \in 0 .. MAX_HEAP
    /\ errors \in Nat
    /\ message \in Texts \cup {"none"}
    /\ mm_stats \in [0 .. num_tracefiles - 1 -> Stat]
    /\ total_size \in Int /\ max_total_size \in Int
    /\ runs \in 0 .. SPEED_RUNS
    /\ pc \in {"eval_mm_speed", "eval_libc_speed"} => runs < SPEED_RUNS
    /\ libc \subseteq LibcAddresses

\* Without a trace there are no blocks.
LEMMA NoBlocks ==
    /\ NoTrace.num_ops = 0
    /\ <<>> \in [Indexes(NoTrace.ops) -> Int]
<1>1. Indexes(<<>>) = {}
  BY DEF Indexes
<1>2. <<>> \in [{} -> Int]
  OBVIOUS
<1> QED
  BY <1>1, <1>2 DEF NoTrace

\* A request in turn.
LEMMA RequestInTurn ==
    ASSUME CtlInv, opnum < trace.num_ops, pc \in Running
    PROVE  /\ trace \in TraceFiles /\ tracenum < num_tracefiles
           /\ trace.num_ops = Len(trace.ops) /\ trace.ops \in Seq(Request)
           /\ opnum \in Nat /\ opnum < Len(trace.ops) /\ opnum + 1 \in 0 .. trace.num_ops
           /\ request.index \in Indexes(trace.ops)
           /\ request.index \in Nat /\ request.size \in Nat
           /\ request.type \in {"ALLOC", "REALLOC", "FREE"}
           /\ request.type = "ALLOC" <=> request.index \notin InUse
           /\ blocks[request.index] \in Int /\ block_sizes[request.index] \in Int
           /\ trace.num_ops \in Nat
<1>1. /\ session \in Sessions /\ trace \in TraceFiles /\ trace.num_ops = Len(trace.ops)
      /\ opnum \in 0 .. trace.num_ops /\ tracenum < num_tracefiles
      /\ blocks \in [Indexes(trace.ops) -> Int] /\ block_sizes \in [Indexes(trace.ops) -> Int]
  BY DEF CtlInv, Running, Between
<1>2. /\ trace.num_ops \in Nat /\ trace.ops \in Seq(Request)
      /\ \A n \in 1 .. Len(trace.ops) :
            /\ trace.ops[n] \in Request
            /\ trace.ops[n].index \in Indexes(trace.ops)
            /\ trace.ops[n].index \in Nat /\ trace.ops[n].size \in Nat
            /\ trace.ops[n].type \in {"ALLOC", "REALLOC", "FREE"}
            /\ IF trace.ops[n].type = "ALLOC"
               THEN trace.ops[n].index \notin InUseAfter(trace.ops, n - 1)
               ELSE trace.ops[n].index \in InUseAfter(trace.ops, n - 1)
  BY <1>1, TraceFacts
<1>3. opnum + 1 \in 1 .. Len(trace.ops) /\ (opnum + 1) - 1 = opnum
  BY <1>1, <1>2
<1> QED
  BY <1>1, <1>2, <1>3 DEF request, InUse

LEMMA InitCtlInv == Init => CtlInv
<1> SUFFICES ASSUME Init PROVE CtlInv
  OBVIOUS
<1>1. session \in Sessions /\ num_tracefiles \in Nat
  BY DriverAssumption DEF Init, DriverAssumption, num_tracefiles
<1>2. mm_stats \in [0 .. num_tracefiles - 1 -> Stat]
  BY DEF Init, Stat
<1>3. /\ blocks \in [Indexes(trace.ops) -> Int] /\ block_sizes \in [Indexes(trace.ops) -> Int]
      /\ opnum \in 0 .. trace.num_ops
  BY NoBlocks DEF Init
<1>4. /\ pc \in {"main", "main_libc"} /\ trace = NoTrace /\ opnum = 0 /\ tracenum = 0
      /\ mem_brk = 0 /\ errors = 0 /\ message = "none" /\ runs = 0 /\ libc = {}
      /\ total_size = 0 /\ max_total_size = 0
  BY DEF Init, mem_init
<1> QED
  BY <1>1, <1>2, <1>3, <1>4, Constants DEF CtlInv, Points, Pauses, Running, Between

\* What the package may do to the heap.
LEMMA HeapGrows ==
    ASSUME mem_brk \in 0 .. MAX_HEAP
    PROVE  /\ \A answer : mm_init(answer) => mem_brk' \in 0 .. MAX_HEAP
           /\ \A p, size, used : Reply(p, size, used) =>
                  mem_brk' \in 0 .. MAX_HEAP /\ mem_brk' >= mem_brk /\ (p = NULL \/ p \in Addresses)
<1>1. MAX_HEAP \in Nat /\ Increments \subseteq Nat
  BY Constants
<1>2. ASSUME NEW brk \in 0 .. MAX_HEAP, ExtendHeap(brk)
      PROVE  mem_brk' \in 0 .. MAX_HEAP /\ mem_brk' >= brk
  <2>1. PICK incr \in Increments, answer \in {-1, brk} : mem_sbrk(brk, incr, answer)
    BY <1>2 DEF ExtendHeap
  <2> QED
    BY <1>1, <2>1 DEF mem_sbrk
<1> QED
  BY <1>1, <1>2 DEF mm_init, Reply, mem_reset_brk

\* LeaveTrace unloads the trace.
LEMMA LeaveCtl ==
    ASSUME CtlInv, pc \in Running, LeaveTrace
    PROVE  /\ trace' = NoTrace /\ tracenum' \in 0 .. num_tracefiles
           /\ blocks' \in [Indexes(trace'.ops) -> Int]
           /\ block_sizes' \in [Indexes(trace'.ops) -> Int]
           /\ trace'.num_ops = 0
<1>1. tracenum \in 0 .. num_tracefiles /\ tracenum < num_tracefiles /\ num_tracefiles \in Nat
  BY DriverAssumption DEF CtlInv, Running, Between, DriverAssumption, num_tracefiles
<1> QED
  BY <1>1, NoBlocks DEF LeaveTrace

\* num_ops is a natural number wherever a trace is loaded.
LEMMA LoadedTrace ==
    ASSUME CtlInv, pc \in Running
    PROVE  /\ trace \in TraceFiles /\ tracenum < num_tracefiles /\ tracenum \in 0 .. num_tracefiles - 1
           /\ trace.num_ops = Len(trace.ops) /\ trace.num_ops \in Nat /\ opnum \in 0 .. trace.num_ops
           /\ num_tracefiles \in Nat
<1>1. trace \in TraceFiles /\ session \in Sessions
  BY DEF CtlInv, Running, Between
<1>2. trace.num_ops \in Nat
  BY <1>1, TraceFacts
<1>3. num_tracefiles \in Nat
  BY <1>1, DriverAssumption DEF DriverAssumption, num_tracefiles
<1> QED
  BY <1>1, <1>2, <1>3 DEF CtlInv, Running, Between

(***************************************************************************)
(* What the actions of one eval function have in common: the request is    *)
(* served, the function gives up, or the program ends.                     *)
(***************************************************************************)
\* The trace and the counts of main stay.
SameTrace == UNCHANGED <<session, trace, tracenum>>

\* A request of eval_mm_valid has been served.
Served ==
    /\ SameTrace /\ UNCHANGED <<pc, errors, message, mm_stats, runs>>
    /\ opnum' = opnum + 1

\* eval_mm_valid has returned 0.
GivenUp ==
    /\ UNCHANGED <<session, mm_stats, total_size, max_total_size, runs, libc>>
    /\ LeaveTrace /\ pc' = "main" /\ opnum' = 0
    /\ errors' = errors + 1

\* The program has ended in the middle of a trace.
Dead ==
    /\ SameTrace /\ UNCHANGED <<opnum, blocks, block_sizes, mm_stats, total_size,
                                max_total_size, runs>>
    /\ pc' \in {"abort", "assert"}

RangeTexts == {"not aligned", "outside heap", "overlap"}

LEMMA RangeErrorTexts ==
    ASSUME NEW list, NEW lo, NEW size
    PROVE  RangeError(list, lo, size) \in RangeTexts \cup {"none", "nonpositive"}
  BY DEF RangeError, RangeTexts

\* ValidAlloc, from its cases.
LEMMA ValidAllocCases ==
    ASSUME ValidAlloc
    PROVE  \E p \in Addresses \cup {NULL} :
             /\ mm_malloc(request.size, p)
             /\ UNCHANGED <<session, mm_stats, total_size, max_total_size, runs, libc>>
             /\ \/ /\ p = NULL /\ GivenUp /\ message' = "mm_malloc failed"
                   /\ UNCHANGED <<ranges, memory>>
                \/ /\ p # NULL /\ GivenUp /\ message' = RangeError(ranges, p, request.size)
                   /\ RangeError(ranges, p, request.size) \in RangeTexts
                   /\ UNCHANGED <<ranges, memory>>
                \/ /\ p # NULL /\ Dead /\ pc' = "assert" /\ UNCHANGED <<errors, message, libc>>
                   /\ RangeError(ranges, p, request.size) = "nonpositive"
                   /\ UNCHANGED <<ranges, memory>>
                \/ /\ p # NULL /\ Served /\ Remember(p)
                   /\ RangeError(ranges, p, request.size) = "none"
                   /\ ranges' = add_range(ranges, p, request.size)
                   /\ memory' = Filled(memory, p)
<1>1. PICK p \in Addresses \cup {NULL} :
        /\ mm_malloc(request.size, p)
        /\ IF p = NULL
           THEN Invalid("mm_malloc failed") /\ UNCHANGED <<ranges, memory>>
           ELSE LET wrong == RangeError(ranges, p, request.size) IN
                \/ wrong # "none" /\ Refused(wrong) /\ UNCHANGED <<ranges, memory>>
                \/ /\ wrong = "none"
                   /\ ranges' = add_range(ranges, p, request.size)
                   /\ memory' = Filled(memory, p)
                   /\ Remember(p)
                   /\ UNCHANGED <<pc, tracevars, errorvars>>
  BY DEF ValidAlloc
<1>2. UNCHANGED <<session, mm_stats, total_size, max_total_size, runs, libc>>
  BY DEF ValidAlloc, utilvars
<1>3. RangeError(ranges, p, request.size) \in RangeTexts \cup {"none", "nonpositive"}
  BY RangeErrorTexts
<1> QED
  BY <1>1, <1>2, <1>3
     DEF Invalid, malloc_error, Refused, GivenUp, Dead, Served, Remember, SameTrace,
         tracevars, errorvars, blockvars, RangeTexts

\* ValidRealloc, from its cases.
LEMMA ValidReallocCases ==
    ASSUME ValidRealloc
    PROVE  LET oldp    == blocks[request.index]
               oldsize == block_sizes[request.index]
               others  == remove_range(ranges, oldp)
           IN  \E newp \in Addresses \cup {NULL} :
                 /\ mm_realloc(oldp, request.size, newp)
                 /\ UNCHANGED <<session, mm_stats, total_size, max_total_size, runs, libc>>
                 /\ \/ /\ newp = NULL /\ GivenUp /\ message' = "mm_realloc failed"
                       /\ UNCHANGED <<ranges, memory>>
                    \/ \E bytes \in ReallocMemory(oldp, newp, request.size) :
                       \/ /\ newp # NULL /\ GivenUp /\ ranges' = others /\ memory' = bytes
                          /\ message' = RangeError(others, newp, request.size)
                          /\ RangeError(others, newp, request.size) \in RangeTexts
                       \/ /\ newp # NULL /\ Dead /\ pc' = "assert" /\ UNCHANGED <<errors, message, libc>>
                          /\ RangeError(others, newp, request.size) = "nonpositive"
                          /\ ranges' = others /\ memory' = bytes
                       \/ /\ newp # NULL /\ GivenUp /\ message' = "data not preserved" /\ memory' = bytes
                          /\ DataLost(bytes, newp, oldsize)
                          /\ RangeError(others, newp, request.size) = "none"
                          /\ ranges' = add_range(others, newp, request.size)
                       \/ /\ newp # NULL /\ Served /\ Remember(newp)
                          /\ RangeError(others, newp, request.size) = "none"
                          /\ ranges' = add_range(others, newp, request.size)
                          /\ memory' = Filled(bytes, newp)
<1> DEFINE oldp    == blocks[request.index]
           oldsize == block_sizes[request.index]
           others  == remove_range(ranges, oldp)
<1>1. PICK newp \in Addresses \cup {NULL} :
            /\ mm_realloc(oldp, request.size, newp)
            /\ IF newp = NULL
               THEN Invalid("mm_realloc failed") /\ UNCHANGED <<ranges, memory>>
               ELSE \E bytes \in ReallocMemory(oldp, newp, request.size) :
                    LET wrong == RangeError(others, newp, request.size) IN
                    \/ wrong # "none" /\ Refused(wrong) /\ ranges' = others /\ memory' = bytes
                       /\ memory' = bytes
                    \/ /\ wrong = "none"
                       /\ ranges' = add_range(others, newp, request.size)
                       /\ IF DataLost(bytes, newp, oldsize)
                          THEN Invalid("data not preserved") /\ memory' = bytes
                          ELSE /\ memory' = Filled(bytes, newp)
                               /\ Remember(newp)
                               /\ UNCHANGED <<pc, tracevars, errorvars>>
  BY DEF ValidRealloc
<1>2. UNCHANGED <<session, mm_stats, total_size, max_total_size, runs, libc>>
  BY DEF ValidRealloc, utilvars
<1>3. RangeError(others, newp, request.size) \in RangeTexts \cup {"none", "nonpositive"}
  BY RangeErrorTexts
<1> HIDE DEF oldp, oldsize, others
<1>4. CASE newp = NULL
  BY <1>1, <1>2, <1>4 DEF Invalid, malloc_error, GivenUp, oldp, others
<1>5. CASE newp # NULL
  <2>1. PICK bytes \in ReallocMemory(oldp, newp, request.size) :
                    LET wrong == RangeError(others, newp, request.size) IN
                    \/ wrong # "none" /\ Refused(wrong) /\ ranges' = others /\ memory' = bytes
                       /\ memory' = bytes
                    \/ /\ wrong = "none"
                       /\ ranges' = add_range(others, newp, request.size)
                       /\ IF DataLost(bytes, newp, oldsize)
                          THEN Invalid("data not preserved") /\ memory' = bytes
                          ELSE /\ memory' = Filled(bytes, newp)
                               /\ Remember(newp)
                               /\ UNCHANGED <<pc, tracevars, errorvars>>
    BY <1>1, <1>5
  <2>2. \/ /\ newp # NULL /\ GivenUp /\ ranges' = others /\ memory' = bytes
           /\ message' = RangeError(others, newp, request.size)
           /\ RangeError(others, newp, request.size) \in RangeTexts
        \/ /\ newp # NULL /\ Dead /\ pc' = "assert" /\ UNCHANGED <<errors, message, libc>>
           /\ RangeError(others, newp, request.size) = "nonpositive"
           /\ ranges' = others /\ memory' = bytes
        \/ /\ newp # NULL /\ GivenUp /\ message' = "data not preserved" /\ memory' = bytes
           /\ DataLost(bytes, newp, oldsize)
           /\ RangeError(others, newp, request.size) = "none"
           /\ ranges' = add_range(others, newp, request.size)
        \/ /\ newp # NULL /\ Served /\ Remember(newp)
           /\ RangeError(others, newp, request.size) = "none"
           /\ ranges' = add_range(others, newp, request.size)
           /\ memory' = Filled(bytes, newp)
    BY <2>1, <1>2, <1>3, <1>5
       DEF Invalid, malloc_error, Refused, GivenUp, Dead, Served, Remember, SameTrace,
           tracevars, errorvars, blockvars, RangeTexts
  <2> QED
    BY <2>1, <2>2, <1>1, <1>2 DEF oldp, oldsize, others
<1> QED
  BY <1>4, <1>5

\* What stays in CtlInv when a request is served ...
LEMMA ServedCtl ==
    ASSUME CtlInv, opnum < trace.num_ops, pc \in Running, Served,
           mem_brk' \in 0 .. MAX_HEAP,
           blocks' \in [Indexes(trace.ops) -> Int], block_sizes' \in [Indexes(trace.ops) -> Int],
           pc \notin Pauses, libc' \subseteq LibcAddresses,
           total_size' \in Int, max_total_size' \in Int
    PROVE  CtlInv'
<1>1. opnum' \in 0 .. trace'.num_ops /\ Indexes(trace'.ops) = Indexes(trace.ops)
  BY RequestInTurn DEF Served, SameTrace
<1>2. /\ pc' = pc /\ pc \in Points /\ pc \notin Between
      /\ session' \in Sessions /\ tracenum' \in 0 .. num_tracefiles' /\ tracenum' < num_tracefiles'
      /\ trace' \in TraceFiles' /\ trace'.num_ops = Len(trace'.ops)
      /\ mm_stats' \in [0 .. num_tracefiles' - 1 -> Stat]
      /\ errors' \in Nat /\ message' \in Texts \cup {"none"}
      /\ runs' \in 0 .. SPEED_RUNS /\ libc' \subseteq LibcAddresses'
  BY DEF CtlInv, Served, SameTrace, num_tracefiles, TraceFiles, LibcAddresses, Running, Between
<1>3. pc \in {"eval_mm_speed", "eval_libc_speed"} => runs' < SPEED_RUNS
  BY DEF CtlInv, Served
<1>4. blocks' \in [Indexes(trace'.ops) -> Int] /\ block_sizes' \in [Indexes(trace'.ops) -> Int]
  BY <1>1
<1> QED
  BY <1>1, <1>2, <1>3, <1>4 DEF CtlInv, Between, Pauses

\* ... when eval_mm_valid gives up ...
LEMMA GivenUpCtl ==
    ASSUME CtlInv, pc \in Running, GivenUp, mem_brk' \in 0 .. MAX_HEAP, message' \in Texts
    PROVE  CtlInv'
<1>1. /\ trace' = NoTrace /\ tracenum' \in 0 .. num_tracefiles
      /\ blocks' \in [Indexes(trace'.ops) -> Int]
      /\ block_sizes' \in [Indexes(trace'.ops) -> Int]
      /\ trace'.num_ops = 0
  BY LeaveCtl DEF GivenUp
<1> QED
  BY <1>1 DEF CtlInv, GivenUp, num_tracefiles, LibcAddresses, Points, Pauses, Between, Running

\* ... and when the program ends.
LEMMA DeadCtl ==
    ASSUME CtlInv, pc \in Running, Dead, mem_brk' \in 0 .. MAX_HEAP,
           errors' \in Nat, message' \in Texts \cup {"none"}, libc' \subseteq LibcAddresses
    PROVE  CtlInv'
  BY LoadedTrace DEF CtlInv, Dead, SameTrace, num_tracefiles, TraceFiles, LibcAddresses, Points, Pauses,
                     Between, Running

\* A block gets its address and size.
LEMMA RememberTypes ==
    ASSUME CtlInv, opnum < trace.num_ops, pc \in Running, NEW p \in Int,
           \/ Remember(p)
           \/ blocks' = [blocks EXCEPT ![request.index] = p] /\ UNCHANGED block_sizes
    PROVE  /\ blocks' \in [Indexes(trace.ops) -> Int] /\ block_sizes' \in [Indexes(trace.ops) -> Int]
           /\ blocks' = [blocks EXCEPT ![request.index] = p]
<1>1. /\ blocks' = [blocks EXCEPT ![request.index] = p]
      /\ \/ block_sizes' = [block_sizes EXCEPT ![request.index] = request.size]
         \/ block_sizes' = block_sizes
  BY DEF Remember
<1>2. request.size \in Int
  BY RequestInTurn
<1>3. blocks \in [Indexes(trace.ops) -> Int] /\ block_sizes \in [Indexes(trace.ops) -> Int]
  BY DEF CtlInv
<1> QED
  BY ONLY <1>1, <1>2, <1>3, p \in Int

LEMMA AddressTypes == NULL \in Int /\ Addresses \subseteq Int
  BY Constants DEF NULL

\* The requests of eval_mm_valid.
LEMMA ValidCtl == CtlInv /\ (ValidAlloc \/ ValidRealloc \/ ValidFree) => CtlInv'
<1> SUFFICES ASSUME CtlInv, ValidAlloc \/ ValidRealloc \/ ValidFree PROVE CtlInv'
  OBVIOUS
<1>1. pc = "eval_mm_valid" /\ opnum < trace.num_ops /\ pc \in Running
      /\ pc \notin Pauses /\ mem_brk \in 0 .. MAX_HEAP
  BY DEF ValidAlloc, ValidRealloc, ValidFree, Requested, Running, Pauses, CtlInv
<1>2. /\ errors \in Nat /\ message \in Texts \cup {"none"} /\ libc \subseteq LibcAddresses
      /\ total_size \in Int /\ max_total_size \in Int /\ RangeTexts \subseteq Texts
      /\ {"mm_malloc failed", "mm_realloc failed", "data not preserved"} \subseteq Texts
  BY DEF CtlInv, RangeTexts, Texts
<1>3. ASSUME ValidAlloc PROVE CtlInv'
  <2>1. PICK p \in Addresses \cup {NULL} :
             /\ mm_malloc(request.size, p)
             /\ UNCHANGED <<total_size, max_total_size, libc>>
             /\ \/ GivenUp /\ message' \in Texts
                \/ Dead /\ UNCHANGED <<errors, message>>
                \/ Served /\ Remember(p)
    BY <1>2, <1>3, ValidAllocCases
  <2>2. mem_brk' \in 0 .. MAX_HEAP
    BY <1>1, <2>1, HeapGrows DEF mm_malloc
  <2> QED
    BY <1>1, <1>2, <2>1, <2>2, ServedCtl, GivenUpCtl, DeadCtl, RememberTypes, AddressTypes
<1>4. ASSUME ValidRealloc PROVE CtlInv'
  <2>1. PICK p \in Addresses \cup {NULL} :
             /\ mm_realloc(blocks[request.index], request.size, p)
             /\ UNCHANGED <<total_size, max_total_size, libc>>
             /\ \/ GivenUp /\ message' \in Texts
                \/ Dead /\ UNCHANGED <<errors, message>>
                \/ Served /\ Remember(p)
    BY <1>2, <1>4, ValidReallocCases
  <2>2. mem_brk' \in 0 .. MAX_HEAP
    BY <1>1, <2>1, HeapGrows DEF mm_realloc
  <2> QED
    BY <1>1, <1>2, <2>1, <2>2, ServedCtl, GivenUpCtl, DeadCtl, RememberTypes, AddressTypes
<1>5. ASSUME ValidFree PROVE CtlInv'
  <2>1. Served /\ UNCHANGED <<mem_brk, libc, blocks, block_sizes, total_size, max_total_size>>
    BY <1>5 DEF ValidFree, Served, SameTrace, mm_free, blockvars, utilvars, tracevars, errorvars
  <2> QED
    BY <1>1, <2>1, ServedCtl DEF CtlInv
<1> QED
  BY <1>3, <1>4, <1>5

\* The larger of two integers.
LEMMA MaxOfTwo ==
    ASSUME NEW a \in Int, NEW b \in Int
    PROVE  /\ Max({a, b}) \in {a, b} /\ Max({a, b}) >= a /\ Max({a, b}) >= b
           /\ Max({a, b}) \in Int
<1>1. \E x \in {a, b} : \A y \in {a, b} : x >= y
  <2>1. CASE a >= b
    BY <2>1
  <2>2. CASE b >= a
    BY <2>2
  <2> QED
    BY <2>1, <2>2
<1>2. Max({a, b}) \in {a, b} /\ \A y \in {a, b} : Max({a, b}) >= y
  BY <1>1 DEF Max
<1> QED
  BY <1>2

\* The requests of eval_mm_util and eval_mm_speed.
LEMMA UtilCtl ==
    CtlInv /\ (UtilAlloc \/ UtilRealloc \/ UtilFree \/ SpeedAlloc \/ SpeedRealloc \/ SpeedFree)
        => CtlInv'
<1> SUFFICES ASSUME CtlInv,
                    UtilAlloc \/ UtilRealloc \/ UtilFree \/ SpeedAlloc \/ SpeedRealloc \/ SpeedFree
             PROVE  CtlInv'
  OBVIOUS
<1>1. opnum < trace.num_ops /\ pc \in Running
      /\ pc \notin Pauses /\ mem_brk \in 0 .. MAX_HEAP
  BY DEF UtilAlloc, UtilRealloc, UtilFree, SpeedAlloc, SpeedRealloc, SpeedFree, Requested,
         Running, Pauses, CtlInv
<1>2. /\ errors \in Nat /\ message \in Texts \cup {"none"} /\ libc \subseteq LibcAddresses
      /\ total_size \in Int /\ max_total_size \in Int
      /\ request.size \in Int /\ block_sizes[request.index] \in Int
  BY <1>1, RequestInTurn DEF CtlInv
<1>3. ASSUME NEW delta \in Int, Total(delta)
      PROVE  total_size' \in Int /\ max_total_size' \in Int
  <2>1. total_size' \in Int /\ max_total_size' = Max({max_total_size, total_size'})
    BY <1>2, <1>3 DEF Total
  <2> QED
    BY <1>2, <2>1, MaxOfTwo
<1>4. AppError /\ UNCHANGED <<session, trace, tracenum, mm_stats, runs>> => Dead
  BY DEF AppError, Dead, SameTrace, blockvars, utilvars
<1>5. ASSUME UtilAlloc \/ SpeedAlloc PROVE CtlInv'
  <2>1. PICK p \in Addresses \cup {NULL} :
             /\ mm_malloc(request.size, p)
             /\ UNCHANGED <<errors, message, libc>>
             /\ \/ Dead
                \/ Served /\ Remember(p) /\ Total(request.size)
                \/ Served /\ RememberAddress(p)
    BY <1>4, <1>5 DEF UtilAlloc, SpeedAlloc, Served, SameTrace, tracevars, errorvars, Remember, RememberAddress
  <2>2. mem_brk' \in 0 .. MAX_HEAP
    BY <1>1, <2>1, HeapGrows DEF mm_malloc
  <2> QED
    BY <1>1, <1>2, <1>3, <2>1, <2>2, ServedCtl, DeadCtl, RememberTypes, AddressTypes
       DEF RememberAddress, utilvars
<1>6. ASSUME UtilRealloc \/ SpeedRealloc PROVE CtlInv'
  <2>1. PICK p \in Addresses \cup {NULL} :
             /\ mm_realloc(blocks[request.index], request.size, p)
             /\ UNCHANGED <<errors, message, libc>>
             /\ \/ Dead
                \/ Served /\ Remember(p) /\ Total(request.size - block_sizes[request.index])
                \/ Served /\ RememberAddress(p)
    BY <1>4, <1>6 DEF UtilRealloc, SpeedRealloc, Served, SameTrace, tracevars, errorvars, Remember, RememberAddress
  <2>2. mem_brk' \in 0 .. MAX_HEAP
    BY <1>1, <2>1, HeapGrows DEF mm_realloc
  <2>3. request.size - block_sizes[request.index] \in Int
    BY <1>2
  <2> QED
    BY <1>1, <1>2, <1>3, <2>1, <2>2, <2>3, ServedCtl, DeadCtl, RememberTypes, AddressTypes
       DEF RememberAddress, utilvars
<1>7. ASSUME UtilFree \/ SpeedFree PROVE CtlInv'
  <2>1. Served /\ UNCHANGED <<mem_brk, libc, blocks, block_sizes, max_total_size>>
    BY <1>7 DEF UtilFree, SpeedFree, Served, SameTrace, mm_free, blockvars, utilvars, tracevars, errorvars
  <2>2. total_size' \in Int
    BY <1>2, <1>7 DEF UtilFree, SpeedFree, SizeFreed, utilvars
  <2> QED
    BY <1>1, <2>1, <2>2, ServedCtl DEF CtlInv
<1> QED
  BY <1>5, <1>6, <1>7

\* Main and the eval functions between requests.
LEMMA MainCtl ==
    CtlInv /\ (read_trace \/ StartValid \/ ValidReturns \/ StartUtil \/ UtilReturns
               \/ StartSpeed \/ SpeedReturns \/ NextTrace \/ Report) => CtlInv'
<1> SUFFICES ASSUME CtlInv PROVE
       (read_trace \/ StartValid \/ ValidReturns \/ StartUtil \/ UtilReturns
          \/ StartSpeed \/ SpeedReturns \/ NextTrace \/ Report) => CtlInv'
  OBVIOUS
<1> USE DEF num_tracefiles, TraceFiles, LibcAddresses
<1>0. ASSUME read_trace, pc' = "abort" /\ UNCHANGED <<trace, blockvars>> PROVE CtlInv'
  BY <1>0 DEF read_trace, mmvars, memvars, utilvars, errorvars, blockvars, CtlInv, Points, Pauses,
              Running, Between
<1>1. ASSUME read_trace PROVE CtlInv'
  <2> SUFFICES ASSUME ~ (pc' = "abort" /\ UNCHANGED <<trace, blockvars>>) PROVE CtlInv'
    BY <1>0, <1>1
  <2>0. /\ trace' \in TraceFiles
        /\ blocks' = [x \in Indexes(trace'.ops) |-> Garbage]
        /\ block_sizes' = [x \in Indexes(trace'.ops) |-> Garbage]
        /\ pc' = IF ~HeaderRight(trace') THEN "assert"
                 ELSE IF pc = "main" THEN "start_valid" ELSE "eval_libc_valid"
    BY <1>1 DEF read_trace
  <2>1. /\ trace' \in TraceFiles /\ trace' \in TraceFiles' /\ session \in Sessions /\ session' = session
        /\ pc \in {"main", "main_libc"} /\ opnum' = 0 /\ tracenum' < num_tracefiles' /\ tracenum' = tracenum
    BY <1>1, <2>0 DEF read_trace, CtlInv, Between
  <2>2. trace'.num_ops \in Nat /\ (HeaderRight(trace') => trace'.num_ops = Len(trace'.ops))
    BY <2>1, TraceFacts
  <2>3. /\ blocks' \in [Indexes(trace'.ops) -> Int] /\ block_sizes' \in [Indexes(trace'.ops) -> Int]
    BY <1>1, <2>0 DEF read_trace, Garbage
  <2>4. pc' \in {"assert", "start_valid", "eval_libc_valid"} /\ (pc' # "assert" => HeaderRight(trace'))
    BY <1>1, <2>0 DEF read_trace
  <2>5. /\ UNCHANGED <<mem_brk, errors, message, mm_stats, total_size, max_total_size, runs, libc>>
    BY <1>1 DEF read_trace, mmvars, memvars, utilvars, errorvars
  <2> QED
    BY <2>1, <2>2, <2>3, <2>4, <2>5 DEF CtlInv, Points, Pauses, Running, Between
<1>2. ASSUME StartValid PROVE CtlInv'
  <2>1. /\ pc \in Running /\ pc = "start_valid" /\ mem_brk' \in 0 .. MAX_HEAP /\ opnum' = 0
        /\ UNCHANGED <<session, mm_stats, total_size, max_total_size, runs, libc>>
    BY <1>2, HeapGrows DEF StartValid, CtlInv, Running, utilvars
  <2>2. CASE pc' = "eval_mm_valid" /\ UNCHANGED <<tracevars, blockvars, errorvars>>
    BY <2>1, <2>2, LoadedTrace
       DEF CtlInv, tracevars, blockvars, errorvars, Points, Pauses, Running, Between
  <2>3. CASE malloc_error("mm_init failed") /\ LeaveTrace /\ pc' = "main"
    <3>1. GivenUp /\ message' \in Texts
      BY <2>1, <2>3 DEF GivenUp, malloc_error, Texts
    <3> QED
      BY <2>1, <3>1, GivenUpCtl
  <2> QED
    BY <1>2, <2>2, <2>3 DEF StartValid
<1>3. ASSUME ValidReturns PROVE CtlInv'
  <2>1. /\ pc = "eval_mm_valid" /\ pc \in Running /\ pc' = "start_util" /\ opnum' = 0
        /\ mm_stats' = [mm_stats EXCEPT ![tracenum].valid = TRUE]
        /\ UNCHANGED <<session, mem_brk, tracenum, trace, blocks, block_sizes, errors, message,
                       total_size, max_total_size, runs, libc>>
    BY <1>3 DEF ValidReturns, memvars, tracevars, blockvars, errorvars, utilvars, Running
  <2>2. mm_stats' \in [0 .. num_tracefiles - 1 -> Stat]
    BY <2>1 DEF CtlInv, Stat
  <2> QED
    BY <2>1, <2>2, LoadedTrace DEF CtlInv, Points, Pauses, Running, Between
<1>4. ASSUME StartUtil PROVE CtlInv'
  <2>1. /\ pc = "start_util" /\ pc \in Running /\ pc' \in {"eval_mm_util", "abort"} /\ opnum' = 0
        /\ total_size' \in Int /\ max_total_size' \in Int /\ mem_brk' \in 0 .. MAX_HEAP
        /\ UNCHANGED <<session, tracenum, trace, blocks, block_sizes, errors, message,
                       mm_stats, runs, libc>>
    BY <1>4, HeapGrows, Constants
       DEF StartUtil, tracevars, blockvars, errorvars, Running, CtlInv
  <2> QED
    BY <2>1, LoadedTrace DEF CtlInv, Points, Pauses, Running, Between
<1>5. ASSUME UtilReturns PROVE CtlInv'
  <2>1. /\ pc = "eval_mm_util" /\ pc \in Running /\ pc' = "fsecs" /\ opnum' = 0
        /\ mm_stats' = [mm_stats EXCEPT ![tracenum].ideal = max_total_size,
                                        ![tracenum].max = Max({mem_heapsize, FREE_HEAP})]
        /\ total_size' = 0 /\ max_total_size' = 0 /\ runs' = 0
        /\ UNCHANGED <<session, mem_brk, tracenum, trace, blocks, block_sizes, errors, message, libc>>
    BY <1>5 DEF UtilReturns, memvars, tracevars, blockvars, errorvars, Running
  <2>2. max_total_size \in Int /\ Max({mem_heapsize, FREE_HEAP}) \in Int
    <3>1. max_total_size \in Int /\ mem_heapsize \in Int /\ FREE_HEAP \in Int
      BY Constants DEF CtlInv, mem_heapsize
    <3> QED
      BY <3>1, MaxOfTwo
  <2>3. mm_stats' \in [0 .. num_tracefiles - 1 -> Stat]
    BY <2>1, <2>2 DEF CtlInv, Stat
  <2>4. runs' \in 0 .. SPEED_RUNS /\ total_size' \in Int /\ max_total_size' \in Int
    BY <2>1, Constants
  <2>5. pc' \in Points /\ pc' \in Pauses /\ pc' \in Running /\ pc' \notin Between
    BY <2>1 DEF Points, Pauses, Running, Between
  <2> QED
    BY <2>1, <2>3, <2>4, <2>5, LoadedTrace DEF CtlInv
<1>6. ASSUME StartSpeed PROVE CtlInv'
  <2>1. /\ pc = "fsecs" /\ pc \in Running /\ pc' \in {"eval_mm_speed", "abort"} /\ opnum' = 0
        /\ mem_brk' \in 0 .. MAX_HEAP /\ runs < SPEED_RUNS
        /\ UNCHANGED <<session, tracenum, trace, blocks, block_sizes, errors, message,
                       mm_stats, total_size, max_total_size, runs, libc>>
    BY <1>6, HeapGrows
       DEF StartSpeed, tracevars, blockvars, errorvars, utilvars, Running, CtlInv
  <2> QED
    BY <2>1, LoadedTrace DEF CtlInv, Points, Pauses, Running, Between
<1>7. ASSUME SpeedReturns PROVE CtlInv'
  <2>1. /\ pc = "eval_mm_speed" /\ pc \in Running /\ pc' = "fsecs" /\ opnum' = 0 /\ runs' = runs + 1
        /\ UNCHANGED <<session, mem_brk, tracenum, trace, blocks, block_sizes, errors, message,
                       mm_stats, total_size, max_total_size, libc>>
    BY <1>7 DEF SpeedReturns, memvars, tracevars, blockvars, errorvars, utilvars, Running
  <2>2. runs' \in 0 .. SPEED_RUNS
    BY <2>1, Constants DEF CtlInv
  <2> QED
    BY <2>1, <2>2, LoadedTrace DEF CtlInv, Points, Pauses, Running, Between
<1>8. ASSUME NextTrace PROVE CtlInv'
  <2>1. /\ pc = "fsecs" /\ pc \in Running /\ pc' = "main" /\ runs' = 0 /\ LeaveTrace
        /\ UNCHANGED <<session, mem_brk, errors, message, mm_stats, total_size, max_total_size, libc>>
    BY <1>8 DEF NextTrace, memvars, errorvars, utilvars, Running
  <2>2. opnum' = 0
    BY <1>8 DEF NextTrace, CtlInv, Pauses
  <2> QED
    BY <2>1, <2>2, LeaveCtl, Constants DEF CtlInv, Points, Pauses, Running, Between
<1>9. ASSUME Report PROVE CtlInv'
  <2>1. /\ pc = "main" /\ pc' \in {"score", "terminated"} /\ tracenum = num_tracefiles
        /\ UNCHANGED <<session, mem_brk, tracenum, trace, opnum, blocks, block_sizes, errors, message,
                       mm_stats, total_size, max_total_size, runs, libc>>
    BY <1>9 DEF Report, memvars, tracevars, blockvars, errorvars, utilvars
  <2> QED
    BY <2>1 DEF CtlInv, Points, Pauses, Running, Between
<1> QED
  BY <1>1, <1>2, <1>3, <1>4, <1>5, <1>6, <1>7, <1>8, <1>9

\* The evaluation of libc's malloc: the address handed out is not in use.
LEMMA LeastElement ==
    ASSUME NEW S, S \subseteq Nat, S # {}
    PROVE  \E n \in S : \A m \in S : n <= m
<1>1. IsWellFoundedOn(OpToRel(<, Nat), Nat)
  BY NatLessThanWellFounded
<1>2. PICK n \in S : \A m \in S : ~ (<<m, n>> \in OpToRel(<, Nat))
  BY <1>1, WFMin
<1>3. \A m \in S : ~ (m < n)
  BY <1>2 DEF OpToRel
<1>4. n \in Nat /\ \A m \in S : m \in Nat
  OBVIOUS
<1> QED
  BY <1>3, <1>4

LEMMA MinOfNats ==
    ASSUME NEW S, S \subseteq Nat, S # {}
    PROVE  Min(S) \in S
  BY LeastElement DEF Min

\* The addresses that libc has handed out but for the one reallocated.
OtherAddresses == IF request.type = "ALLOC" THEN libc ELSE libc \ {blocks[request.index]}

\* LibcRequest, from its cases.
LEMMA LibcRequestCases ==
    ASSUME CtlInv, LibcRequest
    PROVE  /\ pc \in {"eval_libc_valid", "eval_libc_speed"} /\ opnum < trace.num_ops
           /\ UNCHANGED <<session, mmvars, tracevars, block_sizes, runs>>
           /\ \/ /\ pc' = "abort" /\ UNCHANGED <<opnum, blocks, libc>>
                 /\ errors' \in {errors, errors + 1} /\ message' \in {message, "libc failed"}
              \/ /\ request.type # "FREE" /\ opnum' = opnum + 1 /\ UNCHANGED <<pc, errorvars>>
                 /\ \E p \in LibcAddresses \ OtherAddresses :
                       /\ blocks' = [blocks EXCEPT ![request.index] = p]
                       /\ libc' = OtherAddresses \cup {p}
              \/ /\ request.type = "FREE" /\ opnum' = opnum + 1
                 /\ UNCHANGED <<pc, errorvars, blocks>>
                 /\ libc' = libc \ {blocks[request.index]}
<1>1. PICK function \in {"eval_libc_valid", "eval_libc_speed"} :
        \/ Requested(function, "ALLOC") /\ (LibcFails \/ LibcReturns(libc))
        \/ /\ Requested(function, "REALLOC")
           /\ LibcFails \/ LibcReturns(libc \ {blocks[request.index]})
        \/ /\ Requested(function, "FREE")
           /\ libc' = libc \ {blocks[request.index]}
           /\ opnum' = opnum + 1
           /\ UNCHANGED <<pc, blocks, errorvars>>
  BY DEF LibcRequest
<1>2. pc \in {"eval_libc_valid", "eval_libc_speed"} /\ opnum < trace.num_ops /\ pc \in Running
  BY <1>1 DEF Requested, Running
<1>3. UNCHANGED <<session, mmvars, tracevars, block_sizes, runs>>
  BY DEF LibcRequest
<1>4. LibcFails => /\ pc' = "abort" /\ UNCHANGED <<opnum, blocks, libc>>
                   /\ errors' \in {errors, errors + 1} /\ message' \in {message, "libc failed"}
  BY DEF LibcFails, malloc_error, errorvars
<1>5. /\ LibcAddresses \subseteq Nat /\ libc \subseteq LibcAddresses
      /\ blocks \in [Indexes(trace.ops) -> Int] /\ request.index \in Indexes(trace.ops)
  BY <1>2, RequestInTurn, DriverAssumption DEF CtlInv, DriverAssumption, LibcAddresses
<1>6. ASSUME NEW others \in SUBSET libc, LibcReturns(others)
      PROVE  /\ opnum' = opnum + 1 /\ UNCHANGED <<pc, errorvars>>
             /\ \E p \in LibcAddresses \ others :
                       /\ blocks' = [blocks EXCEPT ![request.index] = p]
                       /\ libc' = others \cup {p}
  <2>1. Min(LibcAddresses \ others) \in LibcAddresses \ others
    <3>1. LibcAddresses \ others \subseteq Nat /\ LibcAddresses \ others # {}
      BY <1>5, <1>6 DEF LibcReturns
    <3> QED
      BY <3>1, MinOfNats
  <2>2. blocks' = [blocks EXCEPT ![request.index] = Min(LibcAddresses \ others)]
        /\ libc' = others \cup {blocks'[request.index]}
    BY <1>6 DEF LibcReturns
  <2>3. blocks'[request.index] = Min(LibcAddresses \ others)
    BY <1>5, <2>2
  <2> QED
    BY <1>6, <2>1, <2>2, <2>3 DEF LibcReturns
<1>7. CASE Requested(function, "ALLOC") /\ LibcReturns(libc)
  <2>1. request.type = "ALLOC" /\ OtherAddresses = libc
    BY <1>7 DEF Requested, OtherAddresses
  <2> QED
    BY <1>2, <1>3, <1>6, <1>7, <2>1
<1>8. CASE Requested(function, "REALLOC") /\ LibcReturns(libc \ {blocks[request.index]})
  <2>1. request.type = "REALLOC" /\ OtherAddresses = libc \ {blocks[request.index]}
    BY <1>8 DEF Requested, OtherAddresses
  <2> QED
    BY <1>2, <1>3, <1>6, <1>8, <2>1
<1>9. CASE Requested(function, "FREE") /\ libc' = libc \ {blocks[request.index]}
           /\ opnum' = opnum + 1 /\ UNCHANGED <<pc, blocks, errorvars>>
  BY <1>2, <1>3, <1>9 DEF Requested
<1> QED
  BY <1>1, <1>2, <1>3, <1>4, <1>7, <1>8, <1>9

LEMMA LibcCtl == CtlInv /\ (LibcRequest \/ LibcReplayed \/ LibcNextTrace) => CtlInv'
<1> SUFFICES ASSUME CtlInv PROVE (LibcRequest \/ LibcReplayed \/ LibcNextTrace) => CtlInv'
  OBVIOUS
<1> USE DEF num_tracefiles, TraceFiles, LibcAddresses
<1>1. ASSUME LibcRequest PROVE CtlInv'
  <2>1. /\ pc \in {"eval_libc_valid", "eval_libc_speed"} /\ opnum < trace.num_ops
        /\ pc \in Running /\ pc \notin Pauses
        /\ UNCHANGED <<session, mem_brk, mm_stats, total_size, max_total_size,
                       tracenum, trace, block_sizes, runs>>
    BY <1>1, LibcRequestCases DEF mmvars, memvars, utilvars, tracevars, Running, Pauses
  <2>2. request.index \in Indexes(trace.ops) /\ mem_brk \in 0 .. MAX_HEAP
        /\ block_sizes \in [Indexes(trace.ops) -> Int] /\ libc \subseteq LibcAddresses
        /\ total_size \in Int /\ max_total_size \in Int
    BY <2>1, RequestInTurn DEF CtlInv
  <2>3. LibcAddresses \subseteq Int
    BY DriverAssumption DEF CtlInv, DriverAssumption
  <2>4. CASE /\ pc' = "abort" /\ UNCHANGED <<opnum, blocks, libc>>
             /\ errors' \in {errors, errors + 1} /\ message' \in {message, "libc failed"}
    <3>1. Dead
      BY <2>1, <2>4 DEF Dead, SameTrace
    <3>2. errors \in Nat /\ message \in Texts \cup {"none"}
      BY DEF CtlInv
    <3>3. "libc failed" \in Texts
      BY DEF Texts
    <3>4. errors' \in Nat
      <4>1. errors' = errors \/ errors' = errors + 1
        BY <2>4
      <4> QED
        BY <3>2, <4>1
    <3>5. message' \in Texts \cup {"none"} /\ libc' \subseteq LibcAddresses
      <4> HIDE DEF LibcAddresses
      <4>1. LibcAddresses' = LibcAddresses
        BY <2>1 DEF LibcAddresses
      <4> QED
        BY <2>2, <2>4, <3>2, <3>3, <4>1
    <3> QED
      BY <2>1, <2>2, <3>1, <3>4, <3>5, DeadCtl
  <2>5. CASE /\ opnum' = opnum + 1 /\ UNCHANGED <<pc, errorvars>>
             /\ \E p \in LibcAddresses \ OtherAddresses :
                       /\ blocks' = [blocks EXCEPT ![request.index] = p]
                       /\ libc' = OtherAddresses \cup {p}
    <3>1. blocks' \in [Indexes(trace.ops) -> Int] /\ libc' \subseteq LibcAddresses
      BY <2>2, <2>3, <2>5 DEF CtlInv, OtherAddresses
    <3>2. Served
      BY <2>1, <2>5 DEF Served, SameTrace, errorvars
    <3> QED
      BY <2>1, <2>2, <3>1, <3>2, ServedCtl
  <2>6. CASE /\ opnum' = opnum + 1 /\ UNCHANGED <<pc, errorvars, blocks>>
             /\ libc' = libc \ {blocks[request.index]}
    <3>2. Served /\ libc' \subseteq LibcAddresses /\ blocks' \in [Indexes(trace.ops) -> Int]
      BY <2>1, <2>2, <2>6 DEF Served, SameTrace, errorvars, CtlInv
    <3> QED
      BY <2>1, <2>2, <3>2, ServedCtl
  <2> QED
    BY <1>1, <2>4, <2>5, <2>6, LibcRequestCases
<1>2. ASSUME LibcReplayed PROVE CtlInv'
  <2>1. /\ pc \in {"eval_libc_valid", "eval_libc_speed"} /\ pc \in Running
        /\ runs' = IF pc = "eval_libc_valid" THEN 0 ELSE runs + 1
        /\ opnum' = 0
        /\ pc' = IF runs' < SPEED_RUNS THEN "eval_libc_speed" ELSE "libc_done"
        /\ UNCHANGED <<session, mem_brk, mm_stats, total_size, max_total_size,
                       tracenum, trace, blocks, block_sizes, errors, message, libc>>
    BY <1>2 DEF LibcReplayed, mmvars, memvars, utilvars, tracevars, blockvars, errorvars, Running
  <2>2. runs' \in 0 .. SPEED_RUNS
    BY <2>1, Constants DEF CtlInv
  <2> QED
    BY <2>1, <2>2, LoadedTrace DEF CtlInv, Points, Pauses, Running, Between
<1>3. ASSUME LibcNextTrace PROVE CtlInv'
  <2>1. /\ UNCHANGED <<session, mem_brk, mm_stats, total_size, max_total_size,
                       opnum, errors, message>>
        /\ runs' = 0
    BY <1>3 DEF LibcNextTrace, mmvars, memvars, utilvars, errorvars
  <2>2. CASE pc = "libc_done" /\ LeaveTrace /\ pc' = "main_libc" /\ UNCHANGED libc
    <3>1. pc \in Running /\ opnum' = 0
      BY <2>1, <2>2 DEF Running, CtlInv, Pauses
    <3> QED
      BY <2>1, <2>2, <3>1, LeaveCtl, Constants DEF CtlInv, Points, Pauses, Running, Between
  <2>3. CASE /\ pc = "main_libc" /\ tracenum' = 0 /\ libc' = {} /\ pc' = "main"
             /\ UNCHANGED <<trace, blocks, block_sizes>>
    <3>1. tracenum' \in 0 .. num_tracefiles'
      BY <2>1, <2>3, DriverAssumption DEF CtlInv, DriverAssumption
    <3> QED
      BY <2>1, <2>3, <3>1, Constants DEF CtlInv, Points, Pauses, Running, Between
  <2> QED
    BY <1>3, <2>2, <2>3 DEF LibcNextTrace, blockvars
<1> QED
  BY <1>1, <1>2, <1>3

LEMMA StutterCtl == CtlInv /\ UNCHANGED vars => CtlInv'
<1> SUFFICES ASSUME CtlInv, UNCHANGED vars PROVE CtlInv'
  OBVIOUS
<1>1. UNCHANGED <<session, mem_brk, pc, tracenum, trace, opnum, blocks, block_sizes, errors,
                  message, mm_stats, total_size, max_total_size, runs, libc>>
  BY DEF vars, memvars, tracevars, blockvars, errorvars, utilvars
<1> QED
  BY <1>1 DEF CtlInv, num_tracefiles, TraceFiles, LibcAddresses

LEMMA CtlStep == CtlInv /\ [Next]_vars => CtlInv'
<1> SUFFICES ASSUME CtlInv, [Next]_vars PROVE CtlInv'
  OBVIOUS
<1>1. CASE ValidAlloc \/ ValidRealloc \/ ValidFree
  BY <1>1, ValidCtl
<1>2. CASE UtilAlloc \/ UtilRealloc \/ UtilFree \/ SpeedAlloc \/ SpeedRealloc \/ SpeedFree
  BY <1>2, UtilCtl
<1>3. CASE read_trace \/ StartValid \/ ValidReturns \/ StartUtil \/ UtilReturns
             \/ StartSpeed \/ SpeedReturns \/ NextTrace \/ Report
  BY <1>3, MainCtl
<1>4. CASE LibcRequest \/ LibcReplayed \/ LibcNextTrace
  BY <1>4, LibcCtl
<1>5. CASE Ended \/ UNCHANGED vars
  BY <1>5, StutterCtl DEF Ended
<1> QED
  BY <1>1, <1>2, <1>3, <1>4, <1>5 DEF Next

\* The control state, the types and the array bounds, whatever the package
\* does.
THEOREM CtlInvCorrect == Spec => []CtlInv
  BY InitCtlInv, CtlStep, PTL DEF Spec

(***************************************************************************)
(* The range list                                                          *)
(***************************************************************************)
RangeRecord == [lo : Int, hi : Int]

\* remove_range takes out the first range with the address, and keeps the
\* order of the others.
LEMMA RemoveRange ==
    ASSUME NEW list \in Seq(RangeRecord), NEW lo,
           \A i, j \in 1 .. Len(list) : list[i].lo = list[j].lo => i = j
    PROVE  LET rest == remove_range(list, lo) IN
           /\ rest \in Seq(RangeRecord)
           /\ \A i \in 1 .. Len(rest) : \E k \in 1 .. Len(list) : rest[i] = list[k]
           /\ \A j \in 1 .. Len(rest) : \A i \in 1 .. j - 1 :
                 \E k, m \in 1 .. Len(list) : k < m /\ rest[i] = list[k] /\ rest[j] = list[m]
           /\ \A i \in 1 .. Len(rest) : rest[i].lo # lo
           /\ \A k \in 1 .. Len(list) :
                 list[k].lo # lo => \E i \in 1 .. Len(rest) : rest[i] = list[k]
           /\ (\E k \in 1 .. Len(list) : list[k].lo = lo) => Len(rest) = Len(list) - 1
<1> DEFINE rest == remove_range(list, lo)
           n == Len(list)
           I == {i \in 1 .. n : list[i].lo = lo}
           k == SelectInSeq(list, LAMBDA p : p.lo = lo)
<1>0. n \in Nat
  OBVIOUS
<1>1. CASE I = {}
  <2>1. rest = list
    BY <1>1 DEF remove_range, RemoveFirstMatch
  <2>2. \A i \in 1 .. n : list[i].lo # lo
    BY <1>1
  <2> HIDE DEF rest
  <2>3. \A j \in 1 .. n : \A i \in 1 .. j - 1 : i \in 1 .. n /\ i < j
    BY <1>0
  <2> QED
    BY <2>1, <2>2, <2>3 DEF rest
<1>2. CASE I # {}
  <2>1. k \in I
    <3>1. k = Min(I)
      BY <1>2 DEF SelectInSeq
    <3>2. I \subseteq Nat
      BY <1>0
    <3> QED
      BY <1>2, <3>1, <3>2, MinOfNats
  <2> DEFINE front == SubSeq(list, 1, k - 1)
             back  == SubSeq(list, k + 1, n)
  <2>2. rest = front \o back
    BY <1>2 DEF remove_range, RemoveFirstMatch, RemoveAt
  <2> HIDE DEF k, rest
  <2>3. k \in 1 .. n /\ list[k].lo = lo
    BY <2>1
  <2>4. /\ front \in Seq(RangeRecord) /\ Len(front) = k - 1
        /\ \A i \in 1 .. k - 1 : front[i] = list[i]
    BY <1>0, <2>3
  <2>5. /\ back \in Seq(RangeRecord) /\ Len(back) = n - k
        /\ \A i \in 1 .. n - k : back[i] = list[i + k]
    BY <1>0, <2>3
  <2> HIDE DEF front, back
  <2> DEFINE f(i) == IF i < k THEN i ELSE i + 1
  <2>6. /\ rest \in Seq(RangeRecord) /\ Len(rest) = n - 1
        /\ \A i \in 1 .. n - 1 : rest[i] = list[f(i)]
    <3>1. rest \in Seq(RangeRecord) /\ Len(rest) = n - 1
      BY <1>0, <2>2, <2>3, <2>4, <2>5
    <3>2. ASSUME NEW i \in 1 .. n - 1 PROVE rest[i] = list[f(i)]
      <4>1. CASE i < k
        BY <1>0, <2>2, <2>3, <2>4, <2>5, <4>1
      <4>2. CASE ~ (i < k)
        <5>1. i - (k - 1) \in 1 .. n - k /\ i - (k - 1) + k = i + 1
          BY <1>0, <2>3, <4>2
        <5>2. rest[i] = back[i - (k - 1)]
          BY <1>0, <2>2, <2>3, <2>4, <2>5, <4>2
        <5> QED
          BY <2>5, <4>2, <5>1, <5>2
      <4> QED
        BY <4>1, <4>2
    <3> QED
      BY <3>1, <3>2
  <2>7. \A i \in 1 .. n - 1 : f(i) \in 1 .. n /\ f(i) # k
    BY <1>0, <2>3
  <2>8. \A j \in 1 .. n - 1 : \A i \in 1 .. j - 1 : i \in 1 .. n - 1 /\ f(i) < f(j)
    BY <1>0, <2>3
  <2>9. \A m \in 1 .. n : m # k => \E i \in 1 .. n - 1 : f(i) = m
    <3> TAKE m \in 1 .. n
    <3>1. CASE m < k
      BY <1>0, <2>3, <3>1
    <3>2. CASE m > k
      <4>1. m - 1 \in 1 .. n - 1 /\ f(m - 1) = m
        BY <1>0, <2>3, <3>2
      <4> QED
        BY <4>1
    <3> QED
      BY <1>0, <2>3, <3>1, <3>2
  <2> HIDE DEF f
  <2>10. \A i \in 1 .. n - 1 : rest[i].lo # lo
    BY <2>3, <2>6, <2>7
  <2>11. \A j \in 1 .. Len(rest) : \A i \in 1 .. j - 1 :
            \E x, y \in 1 .. Len(list) : x < y /\ rest[i] = list[x] /\ rest[j] = list[y]
    <3> TAKE j \in 1 .. Len(rest)
    <3> TAKE i \in 1 .. j - 1
    <3>1. j \in 1 .. n - 1 /\ i \in 1 .. n - 1 /\ f(i) < f(j)
      BY <2>6, <2>8
    <3> QED
      BY <2>6, <2>7, <3>1
  <2>12. \A m \in 1 .. Len(list) :
            list[m].lo # lo => \E i \in 1 .. Len(rest) : rest[i] = list[m]
    BY <2>3, <2>6, <2>7, <2>9
  <2>13. \A i \in 1 .. Len(rest) : \E m \in 1 .. Len(list) : rest[i] = list[m]
    BY <2>6, <2>7
  <2> QED
    BY <2>6, <2>10, <2>11, <2>12, <2>13 DEF rest
<1> QED
  BY <1>1, <1>2

\* What holds of the range list at any time: the ranges lie in the heap and
\* overlap only by nesting.
Nest(newer, older) ==
    \/ newer.hi < older.lo
    \/ older.hi < newer.lo
    \/ newer.lo < older.lo /\ older.hi < newer.hi

GoodRanges(list) ==
    /\ list \in Seq(RangeRecord)
    /\ \A i \in 1 .. Len(list) : /\ list[i].lo >= 0 /\ list[i].lo <= list[i].hi
                                 /\ list[i].hi < MAX_HEAP
    /\ \A j \in 1 .. Len(list) : \A i \in 1 .. j - 1 : Nest(list[i], list[j])

LEMMA RangeTypes ==
    ASSUME NEW list, GoodRanges(list)
    PROVE  /\ list \in Seq(RangeRecord) /\ Len(list) \in Nat /\ DOMAIN list = 1 .. Len(list)
           /\ \A i \in 1 .. Len(list) : /\ list[i].lo \in Int /\ list[i].hi \in Int
                                        /\ list[i].lo >= 0 /\ list[i].lo <= list[i].hi
                                        /\ list[i].hi < MAX_HEAP
<1>1. \A r \in RangeRecord : r.lo \in Int /\ r.hi \in Int
  BY DEF RangeRecord
<1>2. list \in Seq(RangeRecord) /\ \A i \in 1 .. Len(list) : list[i] \in RangeRecord
  BY DEF GoodRanges
<1> QED
  BY <1>1, <1>2 DEF GoodRanges

LEMMA NoRanges == GoodRanges(<<>>)
  BY DEF GoodRanges

\* No two ranges have the same low end.
LEMMA LowEndsDiffer ==
    ASSUME NEW list, GoodRanges(list)
    PROVE  \A i, j \in 1 .. Len(list) : list[i].lo = list[j].lo => i = j
<1>1. \A j \in 1 .. Len(list) : /\ list[j].lo \in Int /\ list[j].hi \in Int
                                /\ list[j].lo <= list[j].hi
  BY RangeTypes
<1>2. \A i, j \in 1 .. Len(list) : i < j => list[i].lo # list[j].lo
  <2> TAKE i, j \in 1 .. Len(list)
  <2> HAVE i < j
  <2>1. Nest(list[i], list[j])
    <3>1. i \in 1 .. j - 1
      OBVIOUS
    <3> QED
      BY <3>1 DEF GoodRanges
  <2> QED
    BY <1>1, <2>1 DEF Nest
<1> QED
  BY <1>2

LEMMA GoodRest ==
    ASSUME NEW list, GoodRanges(list), NEW lo
    PROVE  GoodRanges(remove_range(list, lo))
<1> DEFINE rest == remove_range(list, lo)
<1>1. /\ rest \in Seq(RangeRecord)
      /\ \A i \in 1 .. Len(rest) : \E k \in 1 .. Len(list) : rest[i] = list[k]
      /\ \A j \in 1 .. Len(rest) : \A i \in 1 .. j - 1 :
            \E k, m \in 1 .. Len(list) : k < m /\ rest[i] = list[k] /\ rest[j] = list[m]
  BY RemoveRange, LowEndsDiffer DEF GoodRanges
<1> HIDE DEF rest
<1>2. \A k, m \in 1 .. Len(list) : k < m => Nest(list[k], list[m])
  <2> TAKE k, m \in 1 .. Len(list)
  <2> HAVE k < m
  <2>1. k \in 1 .. m - 1
    OBVIOUS
  <2> QED
    BY <2>1 DEF GoodRanges
<1>3. \A i \in 1 .. Len(rest) : /\ rest[i].lo >= 0 /\ rest[i].lo <= rest[i].hi
                                /\ rest[i].hi < MAX_HEAP
  BY <1>1 DEF GoodRanges
<1>4. \A j \in 1 .. Len(rest) : \A i \in 1 .. j - 1 : Nest(rest[i], rest[j])
  BY <1>1, <1>2
<1> QED
  BY <1>1, <1>3, <1>4 DEF GoodRanges, rest

\* A payload that add_range takes keeps the list good, and its low end is new.
LEMMA GoodAdded ==
    ASSUME NEW list, GoodRanges(list), NEW lo \in Nat, NEW size \in Nat,
           mem_brk' \in 0 .. MAX_HEAP, RangeError(list, lo, size) = "none"
    PROVE  /\ GoodRanges(add_range(list, lo, size))
           /\ size > 0 /\ lo + size <= mem_brk'
           /\ \A i \in 1 .. Len(list) : list[i].lo # lo
           /\ Len(add_range(list, lo, size)) = Len(list) + 1
           /\ add_range(list, lo, size)[1] = [lo |-> lo, hi |-> lo + size - 1]
           /\ \A i \in 1 .. Len(list) : add_range(list, lo, size)[i + 1] = list[i]
<1> DEFINE hi   == lo + size - 1
           new  == [lo |-> lo, hi |-> hi]
           more == add_range(list, lo, size)
<1>1. /\ size > 0 /\ ~OutsideHeap(lo, hi)
      /\ \A i \in DOMAIN list : ~Overlaps(lo, hi, list[i])
  BY DEF RangeError, PositiveInt
<1>2. /\ list \in Seq(RangeRecord) /\ Len(list) \in Nat /\ DOMAIN list = 1 .. Len(list)
      /\ \A i \in 1 .. Len(list) : /\ list[i].lo \in Int /\ list[i].hi \in Int
                                   /\ list[i].lo >= 0 /\ list[i].lo <= list[i].hi
  BY RangeTypes
<1>3. lo <= hi /\ hi < MAX_HEAP /\ lo + size <= mem_brk' /\ lo \in Int /\ hi \in Int
  <2>1. lo \in Int /\ hi \in Int /\ lo <= hi
    BY <1>1
  <2>2. ~ (hi > mem_brk' - 1)
    BY <1>1 DEF OutsideHeap, mem_heap_hi
  <2>3. PICK top : top = mem_brk'
    OBVIOUS
  <2>4. top \in 0 .. MAX_HEAP /\ MAX_HEAP \in Nat /\ ~ (hi > top - 1)
    BY <2>2, <2>3, Constants
  <2>5. lo <= hi /\ hi < MAX_HEAP /\ lo + size <= top
    BY <2>1, <2>4
  <2> QED
    BY <2>1, <2>3, <2>5
<1>4. ASSUME NEW i \in 1 .. Len(list) PROVE Nest(new, list[i]) /\ list[i].lo # lo
  BY <1>1, <1>2, <1>3 DEF Nest, Overlaps
<1>5. new \in RangeRecord
  BY <1>3 DEF RangeRecord
<1>6. /\ more \in Seq(RangeRecord) /\ Len(more) = Len(list) + 1
      /\ more[1] = new /\ \A i \in 1 .. Len(list) : more[i + 1] = list[i]
  BY <1>2, <1>5 DEF add_range
<1> HIDE DEF new, more, hi
<1>7. \A i \in 1 .. Len(more) : i = 1 \/ (i - 1 \in 1 .. Len(list) /\ more[i] = list[i - 1])
  <2> TAKE i \in 1 .. Len(more)
  <2>1. CASE i # 1
    <3>1. i - 1 \in 1 .. Len(list) /\ (i - 1) + 1 = i
      BY <1>2, <1>6, <2>1
    <3> QED
      BY <1>6, <3>1
  <2> QED
    BY <2>1
<1>8. \A i \in 1 .. Len(more) : /\ more[i].lo >= 0 /\ more[i].lo <= more[i].hi
                                /\ more[i].hi < MAX_HEAP
  <2>1. new.lo >= 0 /\ new.lo <= new.hi /\ new.hi < MAX_HEAP
    BY <1>3 DEF new
  <2> QED
    BY <1>6, <1>7, <2>1 DEF GoodRanges
<1>9. \A j \in 1 .. Len(more) : \A i \in 1 .. j - 1 : Nest(more[i], more[j])
  <2> TAKE j \in 1 .. Len(more)
  <2> TAKE i \in 1 .. j - 1
  <2>1. j - 1 \in 1 .. Len(list) /\ more[j] = list[j - 1] /\ i \in 1 .. Len(more)
    BY <1>2, <1>6, <1>7
  <2>2. CASE i = 1
    BY <1>4, <1>6, <2>1, <2>2
  <2>3. CASE i # 1
    <3>1. i - 1 \in 1 .. (j - 1) - 1 /\ more[i] = list[i - 1]
      BY <1>2, <1>6, <1>7, <2>1, <2>3
    <3> QED
      BY <2>1, <3>1 DEF GoodRanges
  <2> QED
    BY <2>2, <2>3
<1> QED
  BY <1>1, <1>3, <1>4, <1>6, <1>8, <1>9 DEF GoodRanges, more, new, hi

\* The range of the block of an id, and a range list that has exactly the
\* ranges of the ids in use.
RangeOf(addresses, sizes, id) ==
    [lo |-> addresses[id], hi |-> addresses[id] + sizes[id] - 1]

Exact(list, addresses, sizes, used) ==
    /\ IsFiniteSet(used) /\ Len(list) = Cardinality(used)
    /\ \A i \in 1 .. Len(list) : \E id \in used : list[i] = RangeOf(addresses, sizes, id)
    /\ \A id \in used : \E i \in 1 .. Len(list) : list[i] = RangeOf(addresses, sizes, id)
    /\ \A id, x \in used : addresses[id] = addresses[x] => id = x

LEMMA NoneExact ==
    ASSUME NEW addresses, NEW sizes
    PROVE  Exact(<<>>, addresses, sizes, {})
  BY FS_EmptySet DEF Exact

\* A new payload.
LEMMA ExactAdded ==
    ASSUME NEW list, GoodRanges(list), NEW D, NEW b \in [D -> Int], NEW s \in [D -> Int],
           NEW used \in SUBSET D, Exact(list, b, s, used), NEW id \in D, id \notin used,
           NEW lo \in Nat, NEW size \in Nat,
           mem_brk' \in 0 .. MAX_HEAP, RangeError(list, lo, size) = "none"
    PROVE  Exact(add_range(list, lo, size), [b EXCEPT ![id] = lo], [s EXCEPT ![id] = size],
                 used \cup {id})
<1> DEFINE more == add_range(list, lo, size)
           c    == [b EXCEPT ![id] = lo]
           t    == [s EXCEPT ![id] = size]
<1>1. /\ Len(more) = Len(list) + 1 /\ more[1] = [lo |-> lo, hi |-> lo + size - 1]
      /\ \A i \in 1 .. Len(list) : more[i + 1] = list[i] /\ list[i].lo # lo
  <2>1. /\ \A i \in 1 .. Len(list) : list[i].lo # lo
        /\ Len(add_range(list, lo, size)) = Len(list) + 1
        /\ add_range(list, lo, size)[1] = [lo |-> lo, hi |-> lo + size - 1]
        /\ \A i \in 1 .. Len(list) : add_range(list, lo, size)[i + 1] = list[i]
    BY GoodAdded
  <2> QED
    BY <2>1
<1>2. Len(list) \in Nat
  BY RangeTypes
<1>3. c[id] = lo /\ t[id] = size /\ \A x \in used : c[x] = b[x] /\ t[x] = s[x]
  OBVIOUS
<1> HIDE DEF more, c, t
<1>4. \A x \in used : RangeOf(c, t, x) = RangeOf(b, s, x)
  BY <1>3 DEF RangeOf
<1>5. more[1] = RangeOf(c, t, id)
  BY <1>1, <1>3 DEF RangeOf
<1>6. IsFiniteSet(used \cup {id}) /\ Len(more) = Cardinality(used \cup {id})
  BY <1>1, FS_AddElement DEF Exact
<1>7. \A i \in 1 .. Len(more) : \E x \in used \cup {id} : more[i] = RangeOf(c, t, x)
  <2> TAKE i \in 1 .. Len(more)
  <2>1. CASE i = 1
    BY <1>5, <2>1
  <2>2. CASE i # 1
    <3>1. i - 1 \in 1 .. Len(list) /\ (i - 1) + 1 = i
      BY <1>1, <1>2, <2>2
    <3>2. more[i] = list[i - 1]
      BY <1>1, <3>1
    <3> QED
      BY <1>4, <3>1, <3>2 DEF Exact
  <2> QED
    BY <2>1, <2>2
<1>8. \A x \in used \cup {id} : \E i \in 1 .. Len(more) : more[i] = RangeOf(c, t, x)
  <2>1. 1 \in 1 .. Len(more) /\ \A i \in 1 .. Len(list) : i + 1 \in 1 .. Len(more)
    BY <1>1, <1>2
  <2>2. ASSUME NEW x \in used PROVE \E i \in 1 .. Len(more) : more[i] = RangeOf(c, t, x)
    <3>1. PICK i \in 1 .. Len(list) : list[i] = RangeOf(b, s, x)
      BY DEF Exact
    <3>2. i + 1 \in 1 .. Len(more) /\ more[i + 1] = RangeOf(c, t, x)
      BY <1>1, <1>4, <2>1, <3>1
    <3> QED
      BY <3>2
  <2> QED
    BY <1>5, <2>1, <2>2
<1>9. \A x \in used : c[x] # lo
  <2> TAKE x \in used
  <2>1. PICK i \in 1 .. Len(list) : list[i] = RangeOf(b, s, x)
    BY DEF Exact
  <2>2. list[i].lo = b[x]
    BY <2>1 DEF RangeOf
  <2> QED
    BY <1>1, <1>3, <2>2
<1>10. \A x, y \in used \cup {id} : c[x] = c[y] => x = y
  BY <1>3, <1>9 DEF Exact
<1> QED
  BY <1>6, <1>7, <1>8, <1>10 DEF Exact, more, c, t

\* A block that is freed, or reallocated: remove_range takes its range and no
\* other.
LEMMA ExactRemoved ==
    ASSUME NEW list, GoodRanges(list), NEW b, NEW s,
           NEW used, Exact(list, b, s, used), NEW id \in used
    PROVE  Exact(remove_range(list, b[id]), b, s, used \ {id})
<1> DEFINE rest == remove_range(list, b[id])
<1>1. /\ \A i \in 1 .. Len(rest) : \E k \in 1 .. Len(list) : rest[i] = list[k]
      /\ \A i \in 1 .. Len(rest) : rest[i].lo # b[id]
      /\ \A k \in 1 .. Len(list) :
            list[k].lo # b[id] => \E i \in 1 .. Len(rest) : rest[i] = list[k]
      /\ (\E k \in 1 .. Len(list) : list[k].lo = b[id]) => Len(rest) = Len(list) - 1
  BY RemoveRange, LowEndsDiffer DEF GoodRanges
<1> HIDE DEF rest
<1>2. \A x : RangeOf(b, s, x).lo = b[x]
  BY DEF RangeOf
<1>3. Len(rest) = Len(list) - 1
  <2>1. PICK k \in 1 .. Len(list) : list[k] = RangeOf(b, s, id)
    BY DEF Exact
  <2>2. list[k].lo = b[id]
    BY <1>2, <2>1
  <2> QED
    BY <1>1, <2>2
<1>4. IsFiniteSet(used \ {id}) /\ Len(rest) = Cardinality(used \ {id})
  BY <1>3, FS_RemoveElement DEF Exact
<1>5. \A i \in 1 .. Len(rest) : \E x \in used \ {id} : rest[i] = RangeOf(b, s, x)
  <2> TAKE i \in 1 .. Len(rest)
  <2>1. PICK k \in 1 .. Len(list) : rest[i] = list[k]
    BY <1>1
  <2>2. PICK x \in used : list[k] = RangeOf(b, s, x)
    BY DEF Exact
  <2> QED
    BY <1>1, <1>2, <2>1, <2>2
<1>6. \A x \in used \ {id} : \E i \in 1 .. Len(rest) : rest[i] = RangeOf(b, s, x)
  <2> TAKE x \in used \ {id}
  <2>1. PICK k \in 1 .. Len(list) : list[k] = RangeOf(b, s, x)
    BY DEF Exact
  <2>2. b[x] # b[id]
    BY DEF Exact
  <2> QED
    BY <1>1, <1>2, <2>1, <2>2
<1> QED
  BY <1>4, <1>5, <1>6 DEF Exact, rest

\* Ids in use are ids of the trace.
LEMMA InUseIds ==
    ASSUME NEW ops \in Seq(Request), NEW n \in 0 .. Len(ops)
    PROVE  InUseAfter(ops, n) \subseteq Indexes(ops)
  BY DEF InUseAfter, Indexes

\* What a replay knows of the ids in use, before and after a request.
LEMMA InUseInTurn ==
    ASSUME CtlInv, opnum < trace.num_ops, pc \in Running, trace' = trace, opnum' = opnum + 1
    PROVE  /\ InUse \subseteq Indexes(trace.ops)
           /\ request.type = "ALLOC" => request.index \notin InUse
           /\ request.type # "ALLOC" => request.index \in InUse
           /\ InUse' = IF request.type = "FREE" THEN InUse \ {request.index}
                       ELSE InUse \cup {request.index}
<1>1. /\ trace.ops \in Seq(Request) /\ opnum \in Nat /\ opnum < Len(trace.ops)
      /\ request.type = "ALLOC" <=> request.index \notin InUse
  BY RequestInTurn
<1>2. InUse \subseteq Indexes(trace.ops)
  <2>1. opnum \in 0 .. Len(trace.ops)
    BY <1>1
  <2> QED
    BY <1>1, <2>1, InUseIds DEF InUse
<1>3. InUse' = InUseAfter(trace.ops, opnum + 1)
  BY DEF InUse
<1> QED
  BY <1>1, <1>2, <1>3, InUseStep DEF InUse, request

RangesInv ==
    /\ GoodRanges(ranges)
    /\ pc = "eval_mm_valid" => Exact(ranges, blocks, block_sizes, InUse)

LEMMA InitRangesInv == Init => RangesInv
<1> SUFFICES ASSUME Init PROVE RangesInv
  OBVIOUS
<1>1. ranges = <<>> /\ pc # "eval_mm_valid"
  BY DEF Init
<1> QED
  BY <1>1, NoRanges DEF RangesInv

\* A request of eval_mm_valid.  Outside it the list stays or is cleared.
LEMMA RangesAlloc ==
    ASSUME CtlInv, RangesInv, ValidAlloc
    PROVE  RangesInv' /\ (pc' = "eval_mm_valid" => request.size > 0)
<1>1. /\ pc = "eval_mm_valid" /\ pc \in Running /\ opnum < trace.num_ops
      /\ request.type = "ALLOC" /\ mem_brk \in 0 .. MAX_HEAP
      /\ blocks \in [Indexes(trace.ops) -> Int] /\ block_sizes \in [Indexes(trace.ops) -> Int]
  BY DEF ValidAlloc, Requested, Running, CtlInv
<1>2. PICK p \in Addresses \cup {NULL} :
         /\ mm_malloc(request.size, p)
         /\ \/ pc' # "eval_mm_valid" /\ UNCHANGED ranges
            \/ /\ p # NULL /\ Served /\ Remember(p)
               /\ RangeError(ranges, p, request.size) = "none"
               /\ ranges' = add_range(ranges, p, request.size)
  BY ValidAllocCases DEF GivenUp, Dead
<1>3. mem_brk' \in 0 .. MAX_HEAP
  BY <1>1, <1>2, HeapGrows DEF mm_malloc
<1>4. CASE pc' # "eval_mm_valid" /\ UNCHANGED ranges
  BY <1>4 DEF RangesInv
<1>5. CASE /\ p # NULL /\ Served /\ Remember(p)
           /\ RangeError(ranges, p, request.size) = "none"
           /\ ranges' = add_range(ranges, p, request.size)
  <2>1. p \in Nat /\ request.size \in Nat /\ request.index \in Indexes(trace.ops)
    BY <1>1, <1>2, <1>5, RequestInTurn, Constants
  <2>2. /\ trace' = trace /\ opnum' = opnum + 1
        /\ blocks' = [blocks EXCEPT ![request.index] = p]
        /\ block_sizes' = [block_sizes EXCEPT ![request.index] = request.size]
    BY <1>5 DEF Served, SameTrace, Remember
  <2>3. /\ InUse \subseteq Indexes(trace.ops) /\ request.index \notin InUse
        /\ InUse' = InUse \cup {request.index}
    BY <1>1, <2>2, InUseInTurn
  <2>4. GoodRanges(ranges) /\ Exact(ranges, blocks, block_sizes, InUse)
    BY <1>1 DEF RangesInv
  <2>5. GoodRanges(ranges') /\ request.size > 0
    BY <1>3, <1>5, <2>1, <2>4, GoodAdded
  <2>6. Exact(add_range(ranges, p, request.size), [blocks EXCEPT ![request.index] = p],
              [block_sizes EXCEPT ![request.index] = request.size], InUse \cup {request.index})
    BY <1>1, <1>3, <1>5, <2>1, <2>3, <2>4, ExactAdded
  <2>7. Exact(ranges', blocks', block_sizes', InUse')
    BY <1>5, <2>2, <2>3, <2>6
  <2> QED
    BY <2>5, <2>7 DEF RangesInv, GoodRanges, Exact
<1> QED
  BY <1>2, <1>4, <1>5

LEMMA RangesRealloc ==
    ASSUME CtlInv, RangesInv, ValidRealloc
    PROVE  RangesInv' /\ (pc' = "eval_mm_valid" => request.size > 0)
<1> DEFINE id     == request.index
           others == remove_range(ranges, blocks[id])
<1>1. /\ pc = "eval_mm_valid" /\ pc \in Running /\ opnum < trace.num_ops
      /\ request.type = "REALLOC" /\ mem_brk \in 0 .. MAX_HEAP
      /\ blocks \in [Indexes(trace.ops) -> Int] /\ block_sizes \in [Indexes(trace.ops) -> Int]
  BY DEF ValidRealloc, Requested, Running, CtlInv
<1>2. PICK p \in Addresses \cup {NULL} :
         /\ mm_realloc(blocks[id], request.size, p)
         /\ \/ pc' # "eval_mm_valid" /\ ranges' \in {ranges, others}
            \/ /\ pc' # "eval_mm_valid" /\ p # NULL
               /\ RangeError(others, p, request.size) = "none"
               /\ ranges' = add_range(others, p, request.size)
            \/ /\ p # NULL /\ Served /\ Remember(p)
               /\ RangeError(others, p, request.size) = "none"
               /\ ranges' = add_range(others, p, request.size)
  BY ValidReallocCases DEF GivenUp, Dead
<1>3. mem_brk' \in 0 .. MAX_HEAP
  BY <1>1, <1>2, HeapGrows DEF mm_realloc
<1>4. GoodRanges(ranges) /\ GoodRanges(others) /\ Exact(ranges, blocks, block_sizes, InUse)
  BY <1>1, GoodRest DEF RangesInv
<1>5. request.size \in Nat /\ id \in Indexes(trace.ops)
  BY <1>1, RequestInTurn
<1> HIDE DEF others
<1>6. ASSUME p # NULL, RangeError(others, p, request.size) = "none"
      PROVE  p \in Nat /\ GoodRanges(add_range(others, p, request.size)) /\ request.size > 0
  <2>1. p \in Nat
    BY <1>2, <1>6, Constants
  <2> QED
    BY <1>3, <1>4, <1>5, <1>6, <2>1, GoodAdded
<1>7. CASE pc' # "eval_mm_valid"
  BY <1>2, <1>4, <1>6, <1>7 DEF RangesInv
<1>8. CASE /\ p # NULL /\ Served /\ Remember(p)
           /\ RangeError(others, p, request.size) = "none"
           /\ ranges' = add_range(others, p, request.size)
  <2>2. /\ trace' = trace /\ opnum' = opnum + 1
        /\ blocks' = [blocks EXCEPT ![id] = p]
        /\ block_sizes' = [block_sizes EXCEPT ![id] = request.size]
    BY <1>8 DEF Served, SameTrace, Remember
  <2>3. /\ InUse \subseteq Indexes(trace.ops) /\ id \in InUse
        /\ InUse' = InUse \cup {id} /\ InUse' = (InUse \ {id}) \cup {id}
    BY <1>1, <2>2, InUseInTurn
  <2>4. Exact(others, blocks, block_sizes, InUse \ {id})
    BY <1>4, <2>3, ExactRemoved DEF others
  <2>6. Exact(add_range(others, p, request.size), [blocks EXCEPT ![id] = p],
              [block_sizes EXCEPT ![id] = request.size], (InUse \ {id}) \cup {id})
    <3>1. InUse \ {id} \in SUBSET Indexes(trace.ops) /\ id \notin InUse \ {id}
      BY <2>3
    <3> HIDE DEF id
    <3> QED
      BY <1>1, <1>3, <1>4, <1>5, <1>6, <1>8, <2>4, <3>1, ExactAdded
  <2>7. Exact(ranges', blocks', block_sizes', InUse')
    BY <1>8, <2>2, <2>3, <2>6
  <2> QED
    BY <1>6, <1>8, <2>7 DEF RangesInv, GoodRanges, Exact
<1> QED
  BY <1>2, <1>7, <1>8

LEMMA RangesFree == ASSUME CtlInv, RangesInv, ValidFree PROVE RangesInv'
<1> DEFINE id == request.index
<1>1. /\ pc = "eval_mm_valid" /\ pc \in Running /\ opnum < trace.num_ops
      /\ request.type = "FREE" /\ trace' = trace /\ opnum' = opnum + 1
      /\ ranges' = remove_range(ranges, blocks[id])
      /\ UNCHANGED <<blocks, block_sizes>>
  BY DEF ValidFree, Requested, Running, tracevars, blockvars
<1>2. id \in InUse /\ InUse' = InUse \ {id}
  BY <1>1, InUseInTurn
<1>3. GoodRanges(ranges) /\ Exact(ranges, blocks, block_sizes, InUse)
  BY <1>1 DEF RangesInv
<1> HIDE DEF id
<1>4. GoodRanges(ranges')
  BY <1>1, <1>3, GoodRest
<1>5. Exact(ranges', blocks', block_sizes', InUse')
  BY <1>1, <1>2, <1>3, ExactRemoved
<1> QED
  BY <1>4, <1>5 DEF RangesInv, GoodRanges, Exact

LEMMA RangesStep == CtlInv /\ RangesInv /\ [Next]_vars => RangesInv'
<1> SUFFICES ASSUME CtlInv, RangesInv, [Next]_vars PROVE RangesInv'
  OBVIOUS
<1>1. ASSUME UNCHANGED ranges, pc' # "eval_mm_valid" PROVE RangesInv'
  BY <1>1 DEF RangesInv, GoodRanges
<1>2. CASE ValidAlloc \/ ValidRealloc \/ ValidFree
  BY <1>2, RangesAlloc, RangesRealloc, RangesFree
<1>3. CASE UtilAlloc \/ UtilRealloc \/ UtilFree
  <2>1. UNCHANGED ranges /\ pc' # "eval_mm_valid"
    BY <1>3 DEF UtilAlloc, UtilRealloc, UtilFree, Requested, AppError
  <2> QED
    BY <1>1, <2>1
<1>4. CASE SpeedAlloc \/ SpeedRealloc \/ SpeedFree
  <2>1. UNCHANGED ranges /\ pc' # "eval_mm_valid"
    BY <1>4 DEF SpeedAlloc, SpeedRealloc, SpeedFree, Requested, AppError, RememberAddress
  <2> QED
    BY <1>1, <2>1
<1>5. CASE \/ read_trace \/ ValidReturns \/ StartUtil \/ UtilReturns
           \/ StartSpeed \/ SpeedReturns \/ NextTrace \/ Report
  <2>1. UNCHANGED ranges /\ pc' # "eval_mm_valid"
    BY <1>5 DEF read_trace, ValidReturns, StartUtil, UtilReturns, StartSpeed, SpeedReturns,
                NextTrace, Report, mmvars
  <2> QED
    BY <1>1, <2>1
<1>6. CASE LibcRequest \/ LibcReplayed \/ LibcNextTrace
  <2>1. UNCHANGED ranges /\ pc' # "eval_mm_valid"
    BY <1>6, LibcRequestCases DEF LibcReplayed, LibcNextTrace, mmvars
  <2> QED
    BY <1>1, <2>1
<1>7. CASE StartValid
  <2>1. ranges' = <<>> /\ opnum' = 0
    BY <1>7 DEF StartValid, clear_ranges
  <2>2. InUse' = {}
    BY <2>1, NoneInUse DEF InUse
  <2> QED
    BY <2>1, <2>2, NoRanges, NoneExact DEF RangesInv
<1>8. CASE Ended \/ UNCHANGED vars
  <2>1. UNCHANGED <<ranges, pc, blocks, block_sizes, trace, opnum>>
    BY <1>8 DEF Ended, vars, tracevars, blockvars
  <2> QED
    BY <2>1 DEF RangesInv, GoodRanges, Exact, InUse
<1> QED
  BY <1>2, <1>3, <1>4, <1>5, <1>6, <1>7, <1>8 DEF Next

LEMMA RangesInvCorrect == Spec => [](CtlInv /\ RangesInv)
  BY InitCtlInv, CtlStep, InitRangesInv, RangesStep, PTL DEF Spec

\* Two ranges on the list are disjoint, or the newer one encloses the older
\* one: whatever the package answers, nothing else gets past add_range.
THEOREM OverlapsNestCorrect == Spec => []OverlapsNest
<1>1. RangesInv => OverlapsNest
  <2> SUFFICES ASSUME RangesInv PROVE OverlapsNest
    OBVIOUS
  <2>1. GoodRanges(ranges) /\ DOMAIN ranges = 1 .. Len(ranges)
    BY RangeTypes DEF RangesInv
  <2> QED
    BY <2>1 DEF GoodRanges, Nest, OverlapsNest
<1> QED
  BY <1>1, RangesInvCorrect, PTL

\* While eval_mm_valid replays a trace its range list has one range for every
\* block in use, whatever the package answers.
THEOREM RangesExactCorrect == Spec => []RangesExact
<1>1. RangesInv => RangesExact
  <2> SUFFICES ASSUME RangesInv, pc = "eval_mm_valid"
               PROVE  /\ Len(ranges) = Cardinality(InUse)
                      /\ ToSet(ranges) = {[lo |-> blocks[id], hi |-> blocks[id] + block_sizes[id] - 1] :
                                            id \in InUse}
    BY DEF RangesExact
  <2>1. Exact(ranges, blocks, block_sizes, InUse) /\ DOMAIN ranges = 1 .. Len(ranges)
    BY RangeTypes DEF RangesInv
  <2> QED
    BY <2>1 DEF Exact, RangeOf, ToSet
<1> QED
  BY <1>1, RangesInvCorrect, PTL

(***************************************************************************)
(* The assertions                                                          *)
(***************************************************************************)
\* An id that is freed has been allocated, so the ids that read_trace counts
\* are all there are, and the header of a file in the format is right.
LEMMA FormatHeader ==
    ASSUME session \in Sessions, NEW t \in TraceFiles, InFormat(t)
    PROVE  HeaderRight(t)
<1> DEFINE n == t.num_ids
<1>1. /\ n \in Nat /\ t.ops \in Seq(Request) /\ DOMAIN t.ops = 1 .. Len(t.ops)
      /\ Len(t.ops) \in Nat /\ t.num_ops = Len(t.ops)
      /\ \A i \in 1 .. Len(t.ops) :
            t.ops[i].type # "ALLOC" => t.ops[i].index \in InUseAfter(t.ops, i - 1)
  BY TraceFacts DEF InFormat
<1>2. ASSUME NEW i \in DOMAIN t.ops PROVE t.ops[i].index \in Requests(t.ops)
  <2>1. CASE t.ops[i].type # "FREE"
    BY <2>1 DEF Requests
  <2>2. CASE t.ops[i].type = "FREE"
    <3>1. t.ops[i].index \in InUseAfter(t.ops, i - 1)
      BY <1>1, <2>2
    <3>2. PICK k \in 1 .. i - 1 : t.ops[k].type # "FREE" /\ t.ops[i].index = t.ops[k].index
      BY <3>1 DEF InUseAfter
    <3>3. k \in DOMAIN t.ops
      BY <1>1, <3>2
    <3> QED
      BY <3>2, <3>3 DEF Requests
  <2> QED
    BY <2>1, <2>2
<1>3. Requests(t.ops) = 0 .. n - 1
  <2>1. Requests(t.ops) \subseteq Indexes(t.ops)
    BY DEF Requests, Indexes
  <2>2. Indexes(t.ops) \subseteq Requests(t.ops)
    BY <1>2 DEF Indexes
  <2> QED
    BY <2>1, <2>2 DEF InFormat
<1>4. n > 0
  <2>1. 1 \in DOMAIN t.ops
    BY <1>1 DEF InFormat
  <2>2. t.ops[1].index \in 0 .. n - 1
    BY <1>2, <1>3, <2>1
  <2> QED
    BY <1>1, <2>2
<1>5. Max({0} \cup Requests(t.ops)) = n - 1
  <2>1. {0} \cup Requests(t.ops) = 0 .. n - 1
    BY <1>1, <1>3, <1>4
  <2>2. /\ n - 1 \in 0 .. n - 1 /\ \A y \in 0 .. n - 1 : n - 1 >= y
        /\ \A x \in 0 .. n - 1 : (\A y \in 0 .. n - 1 : x >= y) => x = n - 1
    BY <1>1, <1>4
  <2> QED
    BY <2>1, <2>2 DEF Max
<1> QED
  BY <1>1, <1>5 DEF HeaderRight

\* A correct package has no address for more bytes than an int counts.
LEMMA TooMuch ==
    ASSUME Package = "correct", mem_brk \in 0 .. MAX_HEAP, NEW p, p # NULL,
           NEW size \in Nat, size > 0, NEW used, Reply(p, size, used)
    PROVE  size <= INT_MAX
<1>1. /\ p \in Nat /\ Bytes(p, size) \subseteq 0 .. mem_brk' - 1
  BY Constants DEF Reply, Fits
<1>2. PICK top : top = mem_brk'
  OBVIOUS
<1>3. top \in 0 .. MAX_HEAP
  BY <1>2, HeapGrows
<1>4. p + size - 1 \in 0 .. top - 1
  BY <1>1, <1>2 DEF Bytes
<1> QED
  BY <1>1, <1>3, <1>4, Constants

\* In the format, a request whose size is no positive int asks for more bytes
\* than an int counts.
LEMMA NotPositive ==
    ASSUME CtlInv, opnum < trace.num_ops, pc \in Running, request.type # "FREE",
           NEW list, NEW lo, RangeError(list, lo, request.size) = "nonpositive",
           InFormat(trace)
    PROVE  request.size > INT_MAX
<1>1. request.size \in Nat /\ ~PositiveInt(request.size)
  BY RequestInTurn DEF RangeError
<1>2. opnum + 1 \in DOMAIN trace.ops
  <2>1. /\ opnum \in Nat /\ opnum < Len(trace.ops) /\ Len(trace.ops) \in Nat
        /\ DOMAIN trace.ops = 1 .. Len(trace.ops)
    BY RequestInTurn
  <2> QED
    BY <2>1
<1>3. request.size > 0
  <2>1. \A k \in DOMAIN trace.ops : trace.ops[k].type # "FREE" => trace.ops[k].size > 0
    BY DEF InFormat
  <2> QED
    BY <1>2, <2>1 DEF request
<1> QED
  BY <1>1, <1>3, Constants DEF PositiveInt

AssertInv == pc = "assert" /\ InFormat(trace) =>
    Package # "correct" /\ request.type # "FREE" /\ request.size > INT_MAX

LEMMA AssertStep == CtlInv /\ AssertInv /\ [Next]_vars => AssertInv'
<1> SUFFICES ASSUME CtlInv, AssertInv, [Next]_vars PROVE AssertInv'
  OBVIOUS
<1>1. ASSUME pc' # "assert" PROVE AssertInv'
  BY <1>1 DEF AssertInv
<1>2. CASE read_trace
  <2>1. session \in Sessions
    BY DEF CtlInv
  <2>2. pc' = "assert" => trace' \in TraceFiles /\ ~HeaderRight(trace')
    BY <1>2 DEF read_trace
  <2>3. pc' = "assert" => ~InFormat(trace')
    BY <2>1, <2>2, FormatHeader
  <2> QED
    BY <2>3 DEF AssertInv, InFormat
<1>3. ASSUME UNCHANGED <<session, trace, opnum>>,
             InFormat(trace) => Package # "correct" /\ request.type # "FREE" /\ request.size > INT_MAX
      PROVE  AssertInv'
  BY <1>3 DEF AssertInv, InFormat, Package, request
<1>4. CASE ValidAlloc
  <2>1. pc \in Running /\ opnum < trace.num_ops /\ request.type # "FREE"
    BY <1>4 DEF ValidAlloc, Requested, Running
  <2>2. ASSUME pc' = "assert"
        PROVE  /\ UNCHANGED <<session, trace, opnum>>
               /\ \E p : /\ p # NULL /\ mm_malloc(request.size, p)
                        /\ RangeError(ranges, p, request.size) = "nonpositive"
    BY <1>4, <2>1, <2>2, ValidAllocCases
       DEF Dead, SameTrace, GivenUp, Served, Running, ValidAlloc, Requested
  <2>3. ASSUME pc' = "assert", InFormat(trace)
        PROVE  Package # "correct" /\ request.type # "FREE" /\ request.size > INT_MAX
    <3>1. request.size > INT_MAX
      BY <2>1, <2>2, <2>3, NotPositive
    <3>2. PICK p : p # NULL /\ mm_malloc(request.size, p)
      BY <2>2, <2>3
    <3>3. mem_brk \in 0 .. MAX_HEAP /\ request.size \in Nat /\ INT_MAX \in Nat
      BY <2>1, RequestInTurn, Constants DEF CtlInv
    <3>4. Package = "correct" => request.size <= INT_MAX
      BY <3>1, <3>2, <3>3, TooMuch DEF mm_malloc
    <3> QED
      BY <2>1, <3>1, <3>3, <3>4
  <2> QED
    BY <1>1, <1>3, <2>2, <2>3
<1>8. CASE ValidRealloc
  <2>1. pc \in Running /\ opnum < trace.num_ops /\ request.type # "FREE"
    BY <1>8 DEF ValidRealloc, Requested, Running
  <2> DEFINE oldp == blocks[request.index]
  <2>2. ASSUME pc' = "assert"
        PROVE  /\ UNCHANGED <<session, trace, opnum>>
               /\ \E p : /\ p # NULL /\ mm_realloc(oldp, request.size, p)
                        /\ RangeError(remove_range(ranges, oldp), p, request.size) = "nonpositive"
    BY <1>8, <2>1, <2>2, ValidReallocCases
       DEF Dead, SameTrace, GivenUp, Served, Running, ValidRealloc, Requested
  <2>3. ASSUME pc' = "assert", InFormat(trace)
        PROVE  Package # "correct" /\ request.type # "FREE" /\ request.size > INT_MAX
    <3>1. request.size > INT_MAX
      BY <2>1, <2>2, <2>3, NotPositive
    <3>2. PICK p : p # NULL /\ mm_realloc(oldp, request.size, p)
      BY <2>2, <2>3
    <3>3. mem_brk \in 0 .. MAX_HEAP /\ request.size \in Nat /\ INT_MAX \in Nat
      BY <2>1, RequestInTurn, Constants DEF CtlInv
    <3>4. Package = "correct" => request.size <= INT_MAX
      BY <3>1, <3>2, <3>3, TooMuch DEF mm_realloc
    <3> QED
      BY <2>1, <3>1, <3>3, <3>4
  <2> QED
    BY <1>1, <1>3, <2>2, <2>3
<1>5. CASE StartValid \/ ValidFree \/ ValidReturns \/ StartUtil \/ UtilAlloc \/ UtilRealloc
           \/ UtilFree \/ UtilReturns \/ StartSpeed
  <2>1. pc' # "assert"
    BY <1>5 DEF StartValid, ValidFree, ValidReturns, StartUtil, UtilAlloc, UtilRealloc,
                UtilFree, UtilReturns, StartSpeed, AppError, Requested
  <2> QED
    BY <1>1, <2>1
<1>6. CASE SpeedAlloc \/ SpeedRealloc \/ SpeedFree \/ SpeedReturns \/ LibcRequest \/ LibcReplayed
           \/ LibcNextTrace \/ NextTrace \/ Report
  <2>1. pc' # "assert"
    BY <1>6, LibcRequestCases
       DEF SpeedAlloc, SpeedRealloc, SpeedFree, SpeedReturns, LibcReplayed, LibcNextTrace,
           NextTrace, Report, AppError, RememberAddress, Requested
  <2> QED
    BY <1>1, <2>1
<1>7. CASE Ended \/ UNCHANGED vars
  <2>1. UNCHANGED <<session, pc, trace, opnum>>
    BY <1>7 DEF Ended, vars, tracevars
  <2> QED
    BY <1>1, <1>3, <2>1 DEF AssertInv
<1> QED
  BY <1>2, <1>4, <1>5, <1>6, <1>7, <1>8 DEF Next

\* On files in the format the assertions end the driver only for sizes that are
\* no int, and never if the package is correct.
THEOREM AssertsOnlyOffFormatCorrect == Spec => []AssertsOnlyOffFormat
<1>1. Init => AssertInv
  BY DEF Init, AssertInv
<1>2. AssertInv => AssertsOnlyOffFormat
  BY DEF AssertInv, AssertsOnlyOffFormat
<1> QED
  BY <1>1, <1>2, InitCtlInv, CtlStep, AssertStep, PTL DEF Spec

(***************************************************************************)
(* The verdicts                                                            *)
(***************************************************************************)
\* The first n traces that were not found valid.
Wrong(n) == {t \in 0 .. n - 1 : ~mm_stats[t].valid}

LibcPoints  == {"main_libc", "eval_libc_valid", "eval_libc_speed", "libc_done"}
ValidPoints == {"main", "start_valid", "eval_mm_valid"}
PassPoints  == {"start_util", "eval_mm_util", "fsecs", "eval_mm_speed"}

\* One error for every trace that was not found valid, and no verdict on a
\* trace before its time.
VerdictsInv ==
    /\ pc \in LibcPoints => errors = 0 /\ \A t \in 0 .. num_tracefiles - 1 : ~mm_stats[t].valid
    /\ pc \notin LibcPoints \cup {"abort", "assert"} => errors = Cardinality(Wrong(tracenum))
    /\ pc \in ValidPoints =>
          \A t \in 0 .. num_tracefiles - 1 : t >= tracenum => ~mm_stats[t].valid
    /\ pc \in PassPoints =>
          /\ mm_stats[tracenum].valid
          /\ \A t \in 0 .. num_tracefiles - 1 : t > tracenum => ~mm_stats[t].valid
    /\ pc = "score" => errors = 0
    /\ pc = "terminated" => errors # 0

LEMMA WrongFinite ==
    ASSUME NEW n \in Nat
    PROVE  IsFiniteSet(Wrong(n)) /\ Cardinality(Wrong(n)) \in Nat
<1>1. IsFiniteSet(0 .. n - 1)
  BY FS_Interval
<1>2. Wrong(n) \subseteq 0 .. n - 1
  BY DEF Wrong
<1> QED
  BY <1>1, <1>2, FS_Subset, FS_CardinalityType

LEMMA WrongNext ==
    ASSUME NEW n \in Nat
    PROVE  Cardinality(Wrong(n + 1)) =
             Cardinality(Wrong(n)) + (IF mm_stats[n].valid THEN 0 ELSE 1)
<1>1. \A t : t \in 0 .. (n + 1) - 1 <=> t \in 0 .. n - 1 \/ t = n
  OBVIOUS
<1>2. Wrong(n + 1) = IF mm_stats[n].valid THEN Wrong(n) ELSE Wrong(n) \cup {n}
  BY <1>1 DEF Wrong
<1>3. n \notin Wrong(n)
  BY DEF Wrong
<1>4. Cardinality(Wrong(n)) \in Nat /\ IsFiniteSet(Wrong(n))
  BY WrongFinite
<1>5. Cardinality(Wrong(n) \cup {n}) = Cardinality(Wrong(n)) + 1
  BY <1>3, <1>4, FS_AddElement
<1>6. CASE mm_stats[n].valid
  BY <1>2, <1>4, <1>6
<1>7. CASE ~mm_stats[n].valid
  BY <1>2, <1>5, <1>7
<1> QED
  BY <1>6, <1>7

LEMMA InitVerdicts == Init => VerdictsInv
<1> SUFFICES ASSUME Init PROVE VerdictsInv
  OBVIOUS
<1>1. /\ pc \in {"main", "main_libc"} /\ tracenum = 0 /\ errors = 0
      /\ \A t \in 0 .. num_tracefiles - 1 : ~mm_stats[t].valid
  BY DEF Init
<1>2. Wrong(0) = {}
  BY DEF Wrong
<1> QED
  BY <1>1, <1>2, FS_EmptySet DEF VerdictsInv, LibcPoints, ValidPoints, PassPoints

\* A step within the replay of one trace, or to the end of the program.
LEMMA VerdictsStay ==
    ASSUME VerdictsInv,
           \/ pc' \in {"abort", "assert"}
           \/ /\ UNCHANGED <<session, mm_stats, errors, tracenum>>
              /\ \/ pc' = pc
                 \/ \E P \in {LibcPoints, ValidPoints, PassPoints} : pc \in P /\ pc' \in P
    PROVE  VerdictsInv'
  BY DEF VerdictsInv, LibcPoints, ValidPoints, PassPoints, Wrong, num_tracefiles

LEMMA VerdictsGivenUp ==
    ASSUME CtlInv, VerdictsInv, GivenUp, pc \in {"start_valid", "eval_mm_valid"}
    PROVE  VerdictsInv'
<1>1. /\ tracenum \in Nat /\ tracenum < num_tracefiles /\ num_tracefiles \in Nat
      /\ ~mm_stats[tracenum].valid /\ errors = Cardinality(Wrong(tracenum))
  BY LoadedTrace DEF VerdictsInv, ValidPoints, LibcPoints, Running
<1>2. /\ UNCHANGED <<session, mm_stats>> /\ tracenum' = tracenum + 1 /\ errors' = errors + 1
      /\ pc' = "main"
  BY DEF GivenUp, LeaveTrace
<1>3. errors' = Cardinality(Wrong(tracenum + 1))
  BY <1>1, <1>2, WrongNext
<1>4. Wrong(tracenum)' = Wrong(tracenum + 1)
  BY <1>2 DEF Wrong
<1>5. \A t \in 0 .. num_tracefiles - 1 : t >= tracenum + 1 => ~mm_stats[t].valid
  BY <1>1 DEF VerdictsInv, ValidPoints
<1> QED
  BY <1>2, <1>3, <1>4, <1>5
     DEF VerdictsInv, LibcPoints, ValidPoints, PassPoints, num_tracefiles

LEMMA VerdictsStep == CtlInv /\ VerdictsInv /\ [Next]_vars => VerdictsInv'
<1> SUFFICES ASSUME CtlInv, VerdictsInv, [Next]_vars PROVE VerdictsInv'
  OBVIOUS
<1>1. CASE read_trace
  <2>1. /\ UNCHANGED <<session, mm_stats, errors, tracenum>>
        /\ \/ pc' \in {"assert", "abort"}
           \/ pc = "main" /\ pc' = "start_valid"
           \/ pc = "main_libc" /\ pc' = "eval_libc_valid"
    BY <1>1 DEF read_trace, mmvars, errorvars
  <2> QED
    BY <2>1, VerdictsStay DEF LibcPoints, ValidPoints
<1>2. CASE StartValid
  <2>1. \/ /\ UNCHANGED <<session, mm_stats, errors, tracenum>>
           /\ pc = "start_valid" /\ pc' = "eval_mm_valid"
        \/ GivenUp /\ pc = "start_valid"
    BY <1>2 DEF StartValid, GivenUp, tracevars, errorvars, malloc_error, utilvars
  <2> QED
    BY <2>1, VerdictsStay, VerdictsGivenUp DEF ValidPoints
<1>3. CASE ValidAlloc \/ ValidRealloc
  <2>1. pc = "eval_mm_valid" /\ (GivenUp \/ Dead \/ Served)
    BY <1>3, ValidAllocCases, ValidReallocCases DEF ValidAlloc, ValidRealloc, Requested
  <2>2. CASE GivenUp
    BY <2>1, <2>2, VerdictsGivenUp
  <2>3. CASE Dead \/ Served
    BY <2>1, <2>3, VerdictsStay DEF Dead, Served, SameTrace
  <2> QED
    BY <2>1, <2>2, <2>3
<1>4. CASE ValidFree \/ UtilAlloc \/ UtilRealloc \/ UtilFree
  <2>1. /\ UNCHANGED <<session, mm_stats, errors, tracenum>>
        /\ pc' = pc \/ pc' = "abort"
    BY <1>4 DEF ValidFree, UtilAlloc, UtilRealloc, UtilFree, Requested, tracevars, errorvars, AppError
  <2> QED
    BY <2>1, VerdictsStay
<1>5. CASE SpeedAlloc \/ SpeedRealloc \/ SpeedFree
  <2>1. /\ UNCHANGED <<session, mm_stats, errors, tracenum>>
        /\ pc' = pc \/ pc' = "abort"
    BY <1>5 DEF SpeedAlloc, SpeedRealloc, SpeedFree, Requested, tracevars, errorvars, AppError,
                RememberAddress
  <2> QED
    BY <2>1, VerdictsStay
<1>6. CASE StartUtil \/ StartSpeed \/ SpeedReturns
  <2>1. /\ UNCHANGED <<session, mm_stats, errors, tracenum>>
        /\ (pc \in PassPoints /\ pc' \in PassPoints) \/ pc' = "abort"
    BY <1>6 DEF StartUtil, StartSpeed, SpeedReturns, tracevars, errorvars, PassPoints
  <2> QED
    BY <2>1, VerdictsStay
<1>7. CASE ValidReturns
  <2>1. /\ pc = "eval_mm_valid" /\ pc \in Running /\ pc' = "start_util"
        /\ mm_stats' = [mm_stats EXCEPT ![tracenum].valid = TRUE]
        /\ UNCHANGED <<session, tracenum, errors>>
    BY <1>7 DEF ValidReturns, tracevars, errorvars, Running
  <2>2. /\ tracenum \in 0 .. num_tracefiles - 1 /\ num_tracefiles \in Nat /\ num_tracefiles' = num_tracefiles
        /\ mm_stats \in [0 .. num_tracefiles - 1 -> Stat]
    BY <2>1, LoadedTrace DEF CtlInv, num_tracefiles
  <2>3. /\ mm_stats'[tracenum].valid
        /\ \A t \in 0 .. num_tracefiles - 1 : t # tracenum => mm_stats'[t] = mm_stats[t]
    BY <2>1, <2>2 DEF Stat
  <2>4. Wrong(tracenum)' = Wrong(tracenum)
    BY <2>1, <2>2, <2>3 DEF Wrong
  <2> QED
    BY <2>1, <2>2, <2>3, <2>4 DEF VerdictsInv, LibcPoints, ValidPoints, PassPoints
<1>8. CASE UtilReturns
  <2>1. /\ pc = "eval_mm_util" /\ pc \in Running /\ pc' = "fsecs"
        /\ mm_stats' = [mm_stats EXCEPT ![tracenum].ideal = max_total_size,
                                        ![tracenum].max = Max({mem_heapsize, FREE_HEAP})]
        /\ UNCHANGED <<session, tracenum, errors>>
    BY <1>8 DEF UtilReturns, tracevars, errorvars, Running
  <2>2. /\ tracenum \in 0 .. num_tracefiles - 1 /\ num_tracefiles \in Nat /\ num_tracefiles' = num_tracefiles
        /\ mm_stats \in [0 .. num_tracefiles - 1 -> Stat]
    BY <2>1, LoadedTrace DEF CtlInv, num_tracefiles
  <2>3. \A t \in 0 .. num_tracefiles - 1 : mm_stats'[t].valid = mm_stats[t].valid
    BY <2>1, <2>2 DEF Stat
  <2>4. Wrong(tracenum)' = Wrong(tracenum)
    BY <2>1, <2>2, <2>3 DEF Wrong
  <2> QED
    BY <2>1, <2>2, <2>3, <2>4 DEF VerdictsInv, LibcPoints, ValidPoints, PassPoints
<1>9. CASE NextTrace
  <2>1. /\ pc = "fsecs" /\ pc \in Running /\ pc' = "main" /\ tracenum' = tracenum + 1
        /\ UNCHANGED <<session, mm_stats, errors>>
    BY <1>9 DEF NextTrace, LeaveTrace, errorvars, Running
  <2>2. tracenum \in 0 .. num_tracefiles - 1 /\ num_tracefiles \in Nat
    BY <2>1, LoadedTrace
  <2>3. mm_stats[tracenum].valid /\ errors = Cardinality(Wrong(tracenum))
    BY <2>1 DEF VerdictsInv, PassPoints, LibcPoints
  <2>4. errors' = Cardinality(Wrong(tracenum + 1))
    <3>1. tracenum \in Nat /\ Cardinality(Wrong(tracenum)) \in Nat
      BY <2>2, WrongFinite
    <3> QED
      BY <2>1, <2>3, <3>1, WrongNext
  <2>5. Wrong(tracenum)' = Wrong(tracenum + 1)
    BY <2>1 DEF Wrong
  <2>6. \A t \in 0 .. num_tracefiles - 1 : t >= tracenum + 1 => ~mm_stats[t].valid
    BY <2>1, <2>2 DEF VerdictsInv, PassPoints
  <2> QED
    BY <2>1, <2>4, <2>5, <2>6
       DEF VerdictsInv, LibcPoints, ValidPoints, PassPoints, num_tracefiles
<1>10. CASE Report
  <2>1. /\ pc = "main" /\ pc' = IF errors = 0 THEN "score" ELSE "terminated"
        /\ UNCHANGED <<session, mm_stats, errors, tracenum>>
    BY <1>10 DEF Report, tracevars, errorvars
  <2> QED
    BY <2>1 DEF VerdictsInv, LibcPoints, ValidPoints, PassPoints, num_tracefiles, Wrong
<1>11. CASE LibcRequest \/ LibcReplayed
  <2>1. \/ pc' = "abort"
        \/ /\ UNCHANGED <<session, mm_stats, errors, tracenum>>
           /\ pc \in LibcPoints /\ pc' \in LibcPoints
    BY <1>11, LibcRequestCases DEF LibcReplayed, mmvars, tracevars, errorvars, LibcPoints
  <2> QED
    BY <2>1, VerdictsStay
<1>12. CASE LibcNextTrace
  <2>1. /\ UNCHANGED <<session, mm_stats, errors>>
        /\ \/ pc = "libc_done" /\ pc' = "main_libc"
           \/ pc = "main_libc" /\ pc' = "main" /\ tracenum' = 0
    BY <1>12 DEF LibcNextTrace, mmvars, errorvars
  <2>2. pc' = "main" => Wrong(tracenum)' = {}
    BY <2>1 DEF Wrong
  <2> QED
    BY <2>1, <2>2, FS_EmptySet DEF VerdictsInv, LibcPoints, ValidPoints, PassPoints, num_tracefiles
<1>13. CASE Ended \/ UNCHANGED vars
  <2>1. UNCHANGED <<session, mm_stats, errors, tracenum, pc>>
    BY <1>13 DEF Ended, vars, tracevars, errorvars
  <2> QED
    BY <2>1, VerdictsStay
<1> QED
  BY <1>1, <1>2, <1>3, <1>4, <1>5, <1>6, <1>7, <1>8, <1>9, <1>10, <1>11, <1>12, <1>13 DEF Next

\* main prints a score exactly when every trace was found valid; one error is
\* counted for every other one, whatever the package answers.
THEOREM ErrorsMatchVerdictsCorrect == Spec => []ErrorsMatchVerdicts
<1>1. CtlInv /\ VerdictsInv => ErrorsMatchVerdicts
  <2> SUFFICES ASSUME CtlInv, VerdictsInv PROVE ErrorsMatchVerdicts
    OBVIOUS
  <2>1. DOMAIN mm_stats = 0 .. num_tracefiles - 1 /\ num_tracefiles \in Nat
    BY DriverAssumption DEF CtlInv, DriverAssumption, num_tracefiles
  <2>2. pc \notin LibcPoints \cup {"abort", "assert"} =>
          errors = Cardinality({t \in 0 .. tracenum - 1 : ~mm_stats[t].valid})
    BY DEF VerdictsInv, Wrong
  <2>3. ASSUME pc \in {"score", "terminated"}
        PROVE  errors = Cardinality(Wrong(num_tracefiles)) /\ IsFiniteSet(Wrong(num_tracefiles))
    BY <2>1, <2>3, WrongFinite DEF CtlInv, VerdictsInv, LibcPoints
  <2>4. pc = "score" => \A t \in DOMAIN mm_stats : mm_stats[t].valid
    <3> SUFFICES ASSUME pc = "score" PROVE \A t \in DOMAIN mm_stats : mm_stats[t].valid
      OBVIOUS
    <3>1. Wrong(num_tracefiles) = {}
      BY <2>3, FS_EmptySet DEF VerdictsInv
    <3> QED
      BY <2>1, <3>1 DEF Wrong
  <2>5. pc = "terminated" => \E t \in DOMAIN mm_stats : ~mm_stats[t].valid
    <3> SUFFICES ASSUME pc = "terminated" PROVE \E t \in DOMAIN mm_stats : ~mm_stats[t].valid
      OBVIOUS
    <3>1. Wrong(num_tracefiles) # {}
      BY <2>3, FS_EmptySet DEF VerdictsInv
    <3> QED
      BY <2>1, <3>1 DEF Wrong
  <2> QED
    BY <2>2, <2>4, <2>5 DEF ErrorsMatchVerdicts, LibcPoints
<1> QED
  BY <1>1, InitCtlInv, CtlStep, InitVerdicts, VerdictsStep, PTL DEF Spec

(***************************************************************************)
(* A correct package                                                       *)
(***************************************************************************)
Replays == {"eval_mm_valid", "eval_mm_util", "eval_mm_speed"}

\* The payloads a correct package has handed out lie in the heap and are
\* disjoint; each block in use is one of them.
GoodHeap(payloads, brk) ==
    /\ \A b \in payloads : b.lo \in Nat /\ b.size \in Nat /\ b.size > 0 /\ b.lo + b.size <= brk
    /\ \A b, c \in payloads : b # c => b.lo + b.size <= c.lo \/ c.lo + c.size <= b.lo

Held(payloads, addresses, used) ==
    /\ \A id \in used : \E b \in payloads : b.lo = addresses[id]
    /\ \A id, x \in used : addresses[id] = addresses[x] => id = x

Sized(payloads, addresses, sizes, used) ==
    \A id \in used : \E b \in payloads : b.lo = addresses[id] /\ b.size = sizes[id]

\* A payload that a correct package hands out.
LEMMA Fitting ==
    ASSUME Package = "correct", mem_brk \in 0 .. MAX_HEAP,
           NEW p, p # NULL, NEW size \in Nat, size > 0,
           NEW used, GoodHeap(used, mem_brk), Reply(p, size, used)
    PROVE  /\ p \in Nat /\ p % ALIGNMENT = 0 /\ p + size <= mem_brk'
           /\ live' = used \cup {[lo |-> p, size |-> size]}
           /\ \A b \in used : b.lo + b.size <= p \/ p + size <= b.lo
           /\ GoodHeap(used \cup {[lo |-> p, size |-> size]}, mem_brk')
<1> DEFINE new == [lo |-> p, size |-> size]
<1>1. /\ p \in Nat /\ Fits(p, size, used) /\ live' = used \cup {new}
  BY Constants DEF Reply
<1>2. PICK top : top = mem_brk'
  OBVIOUS
<1>3. top \in 0 .. MAX_HEAP /\ top >= mem_brk /\ MAX_HEAP \in Nat
  BY <1>2, HeapGrows, Constants
<1>4. /\ p % ALIGNMENT = 0 /\ Bytes(p, size) \subseteq 0 .. top - 1
      /\ \A b \in used : Bytes(p, size) \cap Bytes(b.lo, b.size) = {}
  BY <1>1, <1>2 DEF Fits
<1>5. p + size <= top
  <2>1. p + size - 1 \in Bytes(p, size)
    BY <1>1 DEF Bytes
  <2>2. p + size - 1 \in 0 .. top - 1
    BY <1>4, <2>1
  <2> QED
    BY <1>1, <1>3, <2>2
<1>6. ASSUME NEW b \in used PROVE b.lo + b.size <= p \/ p + size <= b.lo
  <2>1. b.lo \in Nat /\ b.size \in Nat /\ b.size > 0
    BY DEF GoodHeap
  <2>2. ~ (p \in Bytes(p, size) /\ p \in Bytes(b.lo, b.size))
    BY <1>4
  <2>3. ~ (b.lo \in Bytes(p, size) /\ b.lo \in Bytes(b.lo, b.size))
    BY <1>4
  <2> QED
    BY <1>1, <2>1, <2>2, <2>3 DEF Bytes
<1>7. GoodHeap(used \cup {new}, top)
  <2>1. new.lo = p /\ new.size = size
    OBVIOUS
  <2> HIDE DEF new
  <2>2. ASSUME NEW b \in used \cup {new}
        PROVE  b.lo \in Nat /\ b.size \in Nat /\ b.size > 0 /\ b.lo + b.size <= top
    <3>1. CASE b = new
      BY <1>1, <1>5, <2>1, <3>1
    <3>2. CASE b \in used
      <4>1. b.lo \in Nat /\ b.size \in Nat /\ b.size > 0 /\ b.lo + b.size <= mem_brk
        BY <3>2 DEF GoodHeap
      <4> QED
        BY <1>3, <4>1
    <3> QED
      BY <3>1, <3>2
  <2>3. ASSUME NEW b \in used \cup {new}, NEW c \in used \cup {new}, b # c
        PROVE  b.lo + b.size <= c.lo \/ c.lo + c.size <= b.lo
    <3>1. CASE b \in used /\ c \in used
      BY <2>3, <3>1 DEF GoodHeap
    <3>2. CASE b = new
      BY <1>6, <2>1, <2>3, <3>2
    <3>3. CASE c = new
      BY <1>6, <2>1, <2>3, <3>3
    <3> QED
      BY <3>1, <3>2, <3>3
  <2> QED
    BY <2>2, <2>3 DEF GoodHeap
<1> QED
  BY <1>1, <1>2, <1>4, <1>5, <1>6, <1>7

\* Payloads of a good heap are told apart by their low ends.
LEMMA LowEndTells ==
    ASSUME NEW payloads, NEW brk, GoodHeap(payloads, brk),
           NEW b \in payloads, NEW c \in payloads, b.lo = c.lo
    PROVE  b = c
  BY DEF GoodHeap

\* The block of an id that was not in use.
LEMMA HeldAdded ==
    ASSUME NEW payloads, NEW brk, GoodHeap(payloads, brk),
           NEW D, NEW b \in [D -> Int], NEW s \in [D -> Int],
           NEW used \in SUBSET D, Held(payloads, b, used),
           NEW id \in D, id \notin used, NEW p \in Nat, NEW size \in Nat, size > 0,
           \A q \in payloads : q.lo + q.size <= p \/ p + size <= q.lo
    PROVE  LET more == payloads \cup {[lo |-> p, size |-> size]}
               c    == [b EXCEPT ![id] = p]
           IN  /\ Held(more, c, used \cup {id})
               /\ \A t : Sized(payloads, b, s, used) /\ t = [s EXCEPT ![id] = size]
                            => Sized(more, c, t, used \cup {id})
<1> DEFINE new  == [lo |-> p, size |-> size]
           more == payloads \cup {new}
           c    == [b EXCEPT ![id] = p]
<1>1. new.lo = p /\ new.size = size /\ new \in more /\ payloads \subseteq more
  OBVIOUS
<1>2. c[id] = p /\ \A x \in used : c[x] = b[x]
  OBVIOUS
<1>3. \A q \in payloads : q.lo # p
  BY DEF GoodHeap
<1> HIDE DEF new, more, c
<1>4. Held(more, c, used \cup {id})
  <2>1. \A x \in used \cup {id} : \E q \in more : q.lo = c[x]
    BY <1>1, <1>2 DEF Held
  <2>2. \A x \in used : c[x] # p
    BY <1>2, <1>3 DEF Held
  <2>3. \A x, y \in used \cup {id} : c[x] = c[y] => x = y
    BY <1>2, <2>2 DEF Held
  <2> QED
    BY <2>1, <2>3 DEF Held
<1>5. ASSUME NEW t, Sized(payloads, b, s, used), t = [s EXCEPT ![id] = size]
      PROVE  Sized(more, c, t, used \cup {id})
  <2>1. t[id] = size /\ \A x \in used : t[x] = s[x]
    BY <1>5
  <2> QED
    BY <1>1, <1>2, <1>5, <2>1 DEF Sized
<1> QED
  BY <1>4, <1>5 DEF more, new, c

\* A block that is freed, or reallocated.
LEMMA HeldFreed ==
    ASSUME NEW payloads, NEW brk, GoodHeap(payloads, brk), NEW b, NEW s,
           NEW used, Held(payloads, b, used), NEW id \in used
    PROVE  LET rest == {q \in payloads : q.lo # b[id]} IN
           /\ GoodHeap(rest, brk)
           /\ Held(rest, b, used \ {id})
           /\ Sized(payloads, b, s, used) => Sized(rest, b, s, used \ {id})
<1> DEFINE rest == {q \in payloads : q.lo # b[id]}
<1>1. GoodHeap(rest, brk)
  BY DEF GoodHeap
<1>2. \A x \in used \ {id} : b[x] # b[id]
  BY DEF Held
<1>3. Held(rest, b, used \ {id})
  BY <1>2 DEF Held
<1>4. Sized(payloads, b, s, used) => Sized(rest, b, s, used \ {id})
  BY <1>2 DEF Sized
<1> QED
  BY <1>1, <1>3, <1>4

\* Every request that eval_mm_valid has let pass asked for at least a byte.
AllSized(n) == \A k \in 1 .. n : trace.ops[k].type # "FREE" => trace.ops[k].size > 0

SizesInv ==
    /\ pc = "eval_mm_valid" => AllSized(opnum)
    /\ pc \in PassPoints => AllSized(Len(trace.ops))

LEMMA SizesStep == CtlInv /\ RangesInv /\ SizesInv /\ [Next]_vars => SizesInv'
<1> SUFFICES ASSUME CtlInv, RangesInv, SizesInv, [Next]_vars PROVE SizesInv'
  OBVIOUS
<1>1. ASSUME pc' \notin {"eval_mm_valid"} \cup PassPoints PROVE SizesInv'
  BY <1>1 DEF SizesInv
<1>2. ASSUME UNCHANGED trace, pc \in PassPoints, pc' # "eval_mm_valid" PROVE SizesInv'
  BY <1>2 DEF SizesInv, AllSized, PassPoints
<1>3. CASE read_trace \/ LibcReplayed \/ LibcNextTrace \/ NextTrace \/ Report
  <2>1. pc' \notin {"eval_mm_valid"} \cup PassPoints
    BY <1>3 DEF read_trace, LibcReplayed, LibcNextTrace, NextTrace, Report, PassPoints
  <2> QED
    BY <1>1, <2>1
<1>4. CASE LibcRequest
  <2>1. pc' \notin {"eval_mm_valid"} \cup PassPoints
    BY <1>4, LibcRequestCases DEF PassPoints
  <2> QED
    BY <1>1, <2>1
<1>5. CASE StartUtil \/ UtilAlloc \/ UtilRealloc \/ UtilFree \/ UtilReturns
           \/ StartSpeed \/ SpeedAlloc \/ SpeedRealloc \/ SpeedFree \/ SpeedReturns
  <2>1. UNCHANGED trace /\ pc \in PassPoints
    BY <1>5 DEF StartUtil, UtilAlloc, UtilRealloc, UtilFree, UtilReturns, StartSpeed, SpeedAlloc,
                SpeedRealloc, SpeedFree, SpeedReturns, Requested, tracevars, PassPoints
  <2>2. pc' # "eval_mm_valid"
    BY <1>5 DEF StartUtil, UtilAlloc, UtilRealloc, UtilFree, UtilReturns, StartSpeed, SpeedAlloc,
                SpeedRealloc, SpeedFree, SpeedReturns, Requested, AppError, RememberAddress
  <2> QED
    BY <1>2, <2>1, <2>2
<1>6. CASE StartValid
  <2>1. pc' = "main" \/ (pc' = "eval_mm_valid" /\ opnum' = 0)
    BY <1>6 DEF StartValid
  <2> QED
    BY <2>1 DEF SizesInv, AllSized, PassPoints
<1>7. ASSUME pc = "eval_mm_valid", opnum < trace.num_ops, UNCHANGED <<pc, trace>>, opnum' = opnum + 1,
             request.type = "FREE" \/ request.size > 0
      PROVE  SizesInv'
  <2>1. opnum \in Nat /\ AllSized(opnum)
    BY <1>7, LoadedTrace DEF SizesInv, Running
  <2>2. \A k \in 1 .. opnum + 1 : k \in 1 .. opnum \/ k = opnum + 1
    BY <2>1
  <2>3. \A k \in 1 .. opnum + 1 : trace.ops[k].type # "FREE" => trace.ops[k].size > 0
    BY <1>7, <2>1, <2>2 DEF AllSized, request
  <2> QED
    BY <1>7, <2>3 DEF SizesInv, AllSized, PassPoints
<1>8. CASE ValidAlloc \/ ValidRealloc
  <2>1. pc = "eval_mm_valid" /\ opnum < trace.num_ops /\ (GivenUp \/ Dead \/ Served)
    BY <1>8, ValidAllocCases, ValidReallocCases DEF ValidAlloc, ValidRealloc, Requested
  <2>2. pc' = "eval_mm_valid" => request.size > 0
    BY <1>8, RangesAlloc, RangesRealloc
  <2>3. CASE GivenUp \/ Dead
    BY <1>1, <2>3 DEF GivenUp, Dead, PassPoints
  <2>4. CASE Served
    BY <1>7, <2>1, <2>2, <2>4 DEF Served, SameTrace
  <2> QED
    BY <2>1, <2>3, <2>4
<1>9. CASE ValidFree
  <2>1. /\ pc = "eval_mm_valid" /\ opnum < trace.num_ops /\ UNCHANGED <<pc, trace>>
        /\ opnum' = opnum + 1 /\ request.type = "FREE"
    BY <1>9 DEF ValidFree, Requested, tracevars
  <2> QED
    BY <1>7, <2>1
<1>10. CASE ValidReturns
  <2>1. /\ pc = "eval_mm_valid" /\ pc \in Running /\ opnum = trace.num_ops
        /\ pc' = "start_util" /\ UNCHANGED trace
    BY <1>10 DEF ValidReturns, tracevars, Running
  <2>2. AllSized(Len(trace.ops))
    BY <2>1, LoadedTrace DEF SizesInv
  <2> QED
    BY <2>1, <2>2 DEF SizesInv, AllSized
<1>11. CASE Ended \/ UNCHANGED vars
  <2>1. UNCHANGED <<pc, trace, opnum>>
    BY <1>11 DEF Ended, vars, tracevars
  <2> QED
    BY <2>1 DEF SizesInv, AllSized
<1> QED
  BY <1>3, <1>4, <1>5, <1>6, <1>8, <1>9, <1>10, <1>11 DEF Next

\* While a correct package is evaluated.
LiveInv ==
    (Package = "correct" /\ pc \in Replays) =>
        /\ GoodHeap(live, mem_brk)
        /\ Held(live, blocks, InUse)
        /\ pc # "eval_mm_speed" => Sized(live, blocks, block_sizes, InUse)

\* A request asks for at least a byte once the trace has passed.
LEMMA RequestSized ==
    ASSUME CtlInv, SizesInv, pc \in PassPoints, opnum < trace.num_ops, request.type # "FREE"
    PROVE  request.size > 0
<1>1. pc \in Running
  BY DEF PassPoints, Running
<1>2. opnum + 1 \in 1 .. Len(trace.ops)
  BY <1>1, RequestInTurn
<1> QED
  BY <1>2 DEF SizesInv, AllSized, request

\* A request of any of the three replays that the package has served.
Answered ==
    /\ pc \in Replays /\ opnum < trace.num_ops
    /\ UNCHANGED <<session, trace, pc>> /\ opnum' = opnum + 1
    /\ request.type # "FREE" => request.size > 0

MovedTo(p) ==
    /\ blocks' = [blocks EXCEPT ![request.index] = p]
    /\ pc # "eval_mm_speed" => block_sizes' = [block_sizes EXCEPT ![request.index] = request.size]

LEMMA LiveAlloc ==
    ASSUME CtlInv, LiveInv, Answered, request.type = "ALLOC",
           NEW p, p # NULL, mm_malloc(request.size, p), MovedTo(p)
    PROVE  LiveInv'
<1> DEFINE id   == request.index
           size == request.size
           new  == [lo |-> p, size |-> size]
<1> SUFFICES ASSUME Package = "correct" PROVE LiveInv'
  BY DEF LiveInv, Answered, Package
<1>1. /\ pc \in Replays /\ pc \in Running /\ mem_brk \in 0 .. MAX_HEAP
      /\ id \in Indexes(trace.ops) /\ size \in Nat /\ size > 0
      /\ blocks \in [Indexes(trace.ops) -> Int] /\ block_sizes \in [Indexes(trace.ops) -> Int]
  BY RequestInTurn DEF CtlInv, Answered, Replays, Running
<1>2. /\ InUse \subseteq Indexes(trace.ops) /\ id \notin InUse /\ InUse' = InUse \cup {id}
  BY <1>1, InUseInTurn DEF Answered
<1>3. /\ GoodHeap(live, mem_brk) /\ Held(live, blocks, InUse)
      /\ pc # "eval_mm_speed" => Sized(live, blocks, block_sizes, InUse)
  BY <1>1 DEF LiveInv
<1> HIDE DEF id, size
<1>4. Reply(p, size, live)
  BY DEF mm_malloc, size
<1>5. /\ p \in Nat /\ live' = live \cup {new}
      /\ \A b \in live : b.lo + b.size <= p \/ p + size <= b.lo
      /\ GoodHeap(live', mem_brk')
  BY <1>1, <1>3, <1>4, Fitting
<1>6. Held(live', [blocks EXCEPT ![id] = p], InUse')
      /\ \A t : Sized(live, blocks, block_sizes, InUse) /\ t = [block_sizes EXCEPT ![id] = size]
                   => Sized(live', [blocks EXCEPT ![id] = p], t, InUse')
  BY <1>1, <1>2, <1>3, <1>5, HeldAdded
<1>7. /\ blocks' = [blocks EXCEPT ![id] = p] /\ pc' = pc
      /\ pc # "eval_mm_speed" => block_sizes' = [block_sizes EXCEPT ![id] = size]
  BY DEF MovedTo, Answered, id, size
<1>8. Held(live', blocks', InUse')
  BY <1>6, <1>7
<1>9. pc # "eval_mm_speed" => Sized(live', blocks', block_sizes', InUse')
  BY <1>3, <1>6, <1>7
<1> QED
  BY <1>5, <1>7, <1>8, <1>9 DEF LiveInv, GoodHeap, Held, Sized

LEMMA LiveRealloc ==
    ASSUME CtlInv, LiveInv, Answered, request.type = "REALLOC",
           NEW p, p # NULL, mm_realloc(blocks[request.index], request.size, p), MovedTo(p)
    PROVE  LiveInv'
<1> DEFINE id   == request.index
           size == request.size
           new  == [lo |-> p, size |-> size]
           rest == {q \in live : q.lo # blocks[id]}
<1> SUFFICES ASSUME Package = "correct" PROVE LiveInv'
  BY DEF LiveInv, Answered, Package
<1>1. /\ pc \in Replays /\ pc \in Running /\ mem_brk \in 0 .. MAX_HEAP
      /\ id \in Indexes(trace.ops) /\ size \in Nat /\ size > 0
      /\ blocks \in [Indexes(trace.ops) -> Int] /\ block_sizes \in [Indexes(trace.ops) -> Int]
  BY RequestInTurn DEF CtlInv, Answered, Replays, Running
<1>2. /\ InUse \subseteq Indexes(trace.ops) /\ id \in InUse /\ InUse' = InUse \cup {id}
  BY <1>1, InUseInTurn DEF Answered
<1>3. /\ GoodHeap(live, mem_brk) /\ Held(live, blocks, InUse)
      /\ pc # "eval_mm_speed" => Sized(live, blocks, block_sizes, InUse)
  BY <1>1 DEF LiveInv
<1>4. Reply(p, size, rest)
  BY DEF mm_realloc, Freed
<1> HIDE DEF id, size
<1>5. /\ GoodHeap(rest, mem_brk) /\ Held(rest, blocks, InUse \ {id})
      /\ pc # "eval_mm_speed" => Sized(rest, blocks, block_sizes, InUse \ {id})
  <2>1. id \in InUse /\ GoodHeap(live, mem_brk) /\ Held(live, blocks, InUse)
    BY <1>2, <1>3
  <2>2. /\ GoodHeap(rest, mem_brk) /\ Held(rest, blocks, InUse \ {id})
        /\ Sized(live, blocks, block_sizes, InUse)
              => Sized(rest, blocks, block_sizes, InUse \ {id})
    BY ONLY <2>1, HeldFreed
  <2> QED
    BY <1>3, <2>2
<1> HIDE DEF rest
<1>6. /\ p \in Nat /\ live' = rest \cup {new}
      /\ \A b \in rest : b.lo + b.size <= p \/ p + size <= b.lo
      /\ GoodHeap(live', mem_brk')
  BY <1>1, <1>4, <1>5, Fitting
<1>7. /\ InUse \ {id} \in SUBSET Indexes(trace.ops) /\ id \notin InUse \ {id}
      /\ InUse' = (InUse \ {id}) \cup {id}
  BY <1>2
<1>8. Held(live', [blocks EXCEPT ![id] = p], InUse')
      /\ \A t : Sized(rest, blocks, block_sizes, InUse \ {id}) /\ t = [block_sizes EXCEPT ![id] = size]
                   => Sized(live', [blocks EXCEPT ![id] = p], t, InUse')
  BY <1>1, <1>5, <1>6, <1>7, HeldAdded
<1>9. /\ blocks' = [blocks EXCEPT ![id] = p] /\ pc' = pc
      /\ pc # "eval_mm_speed" => block_sizes' = [block_sizes EXCEPT ![id] = size]
  BY DEF MovedTo, Answered, id, size
<1>10. Held(live', blocks', InUse')
  BY <1>8, <1>9
<1>11. pc # "eval_mm_speed" => Sized(live', blocks', block_sizes', InUse')
  BY <1>5, <1>8, <1>9
<1> QED
  BY <1>6, <1>9, <1>10, <1>11 DEF LiveInv, GoodHeap, Held, Sized

LEMMA LiveFree ==
    ASSUME CtlInv, LiveInv, Answered, request.type = "FREE",
           mm_free(blocks[request.index]), UNCHANGED <<blocks, block_sizes>>
    PROVE  LiveInv'
<1> DEFINE id   == request.index
           rest == {q \in live : q.lo # blocks[id]}
<1> SUFFICES ASSUME Package = "correct" PROVE LiveInv'
  BY DEF LiveInv, Answered, Package
<1>1. pc \in Replays /\ pc \in Running
  BY DEF Answered, Replays, Running
<1>2. id \in InUse /\ InUse' = InUse \ {id}
  BY <1>1, InUseInTurn DEF Answered
<1>3. /\ GoodHeap(live, mem_brk) /\ Held(live, blocks, InUse)
      /\ pc # "eval_mm_speed" => Sized(live, blocks, block_sizes, InUse)
  BY <1>1 DEF LiveInv
<1>4. live' = rest /\ mem_brk' = mem_brk /\ pc' = pc /\ UNCHANGED <<blocks, block_sizes>>
  BY DEF mm_free, Freed, Answered
<1> HIDE DEF id
<1>5. /\ GoodHeap(rest, mem_brk) /\ Held(rest, blocks, InUse \ {id})
      /\ pc # "eval_mm_speed" => Sized(rest, blocks, block_sizes, InUse \ {id})
  <2>1. /\ GoodHeap(rest, mem_brk) /\ Held(rest, blocks, InUse \ {id})
        /\ Sized(live, blocks, block_sizes, InUse) => Sized(rest, blocks, block_sizes, InUse \ {id})
    BY <1>2, <1>3, HeldFreed
  <2> QED
    BY <1>3, <2>1
<1> QED
  BY <1>2, <1>4, <1>5 DEF LiveInv, GoodHeap, Held, Sized

\* The requests of the three replays end the replay, or are served.
LEMMA AnsweredAlloc ==
    ASSUME CtlInv, RangesInv, SizesInv, ValidAlloc \/ UtilAlloc \/ SpeedAlloc
    PROVE  \/ pc' \notin Replays
           \/ /\ Answered /\ request.type = "ALLOC"
              /\ \E p : p # NULL /\ mm_malloc(request.size, p) /\ MovedTo(p)
<1>1. CASE ValidAlloc
  <2>1. pc = "eval_mm_valid" /\ opnum < trace.num_ops /\ request.type = "ALLOC"
    BY <1>1 DEF ValidAlloc, Requested
  <2>2. \/ pc' \notin Replays
        \/ /\ Served
           /\ \E p : p # NULL /\ mm_malloc(request.size, p) /\ Remember(p)
    BY <1>1, ValidAllocCases DEF GivenUp, Dead, Replays
  <2>3. ASSUME Served PROVE Answered
    BY <1>1, <2>1, <2>3, RangesAlloc DEF Served, SameTrace, Answered, Replays
  <2> QED
    BY <2>1, <2>2, <2>3 DEF MovedTo, Remember
<1>2. CASE UtilAlloc \/ SpeedAlloc
  <2>1. pc \in PassPoints /\ pc \in Replays /\ opnum < trace.num_ops /\ request.type = "ALLOC"
        /\ request.size > 0
    <3>1. pc \in PassPoints /\ pc \in Replays /\ opnum < trace.num_ops /\ request.type = "ALLOC"
      BY <1>2 DEF UtilAlloc, SpeedAlloc, Requested, PassPoints, Replays
    <3> QED
      BY <3>1, RequestSized
  <2>2. UNCHANGED <<session, trace>>
    BY <1>2 DEF UtilAlloc, SpeedAlloc, tracevars
  <2>3. \/ pc' \notin Replays
        \/ /\ pc' = pc /\ opnum' = opnum + 1
           /\ \E p : p # NULL /\ mm_malloc(request.size, p) /\ MovedTo(p)
    BY <1>2 DEF UtilAlloc, SpeedAlloc, Requested, AppError, Remember, RememberAddress, MovedTo, Replays
  <2> QED
    BY <2>1, <2>2, <2>3 DEF Answered
<1> QED
  BY <1>1, <1>2

LEMMA AnsweredRealloc ==
    ASSUME CtlInv, RangesInv, SizesInv, ValidRealloc \/ UtilRealloc \/ SpeedRealloc
    PROVE  \/ pc' \notin Replays
           \/ /\ Answered /\ request.type = "REALLOC"
              /\ \E p : p # NULL /\ mm_realloc(blocks[request.index], request.size, p) /\ MovedTo(p)
<1>1. CASE ValidRealloc
  <2>1. pc = "eval_mm_valid" /\ opnum < trace.num_ops /\ request.type = "REALLOC"
    BY <1>1 DEF ValidRealloc, Requested
  <2>2. \/ pc' \notin Replays
        \/ /\ Served
           /\ \E p : p # NULL /\ mm_realloc(blocks[request.index], request.size, p) /\ Remember(p)
    BY <1>1, ValidReallocCases DEF GivenUp, Dead, Replays
  <2>3. ASSUME Served PROVE Answered
    BY <1>1, <2>1, <2>3, RangesRealloc DEF Served, SameTrace, Answered, Replays
  <2> QED
    BY <2>1, <2>2, <2>3 DEF MovedTo, Remember
<1>2. CASE UtilRealloc \/ SpeedRealloc
  <2>1. pc \in PassPoints /\ pc \in Replays /\ opnum < trace.num_ops /\ request.type = "REALLOC"
        /\ request.size > 0
    <3>1. pc \in PassPoints /\ pc \in Replays /\ opnum < trace.num_ops /\ request.type = "REALLOC"
      BY <1>2 DEF UtilRealloc, SpeedRealloc, Requested, PassPoints, Replays
    <3> QED
      BY <3>1, RequestSized
  <2>2. UNCHANGED <<session, trace>>
    BY <1>2 DEF UtilRealloc, SpeedRealloc, tracevars
  <2>3. \/ pc' \notin Replays
        \/ /\ pc' = pc /\ opnum' = opnum + 1
           /\ \E p : p # NULL /\ mm_realloc(blocks[request.index], request.size, p) /\ MovedTo(p)
    BY <1>2 DEF UtilRealloc, SpeedRealloc, Requested, AppError, Remember, RememberAddress, MovedTo, Replays
  <2> QED
    BY <2>1, <2>2, <2>3 DEF Answered
<1> QED
  BY <1>1, <1>2

LEMMA AnsweredFree ==
    ASSUME ValidFree \/ UtilFree \/ SpeedFree
    PROVE  /\ Answered /\ request.type = "FREE"
           /\ mm_free(blocks[request.index]) /\ UNCHANGED <<blocks, block_sizes>>
  BY DEF ValidFree, UtilFree, SpeedFree, Requested, Answered, Replays, tracevars, blockvars

\* The other actions are outside the replays, or start one.
LEMMA OutsideReplays ==
    ASSUME CtlInv, [Next]_vars,
           ~ (\/ ValidAlloc \/ UtilAlloc \/ SpeedAlloc \/ ValidRealloc \/ UtilRealloc \/ SpeedRealloc
              \/ ValidFree \/ UtilFree \/ SpeedFree)
    PROVE  \/ pc' \notin Replays
           \/ live' = {} /\ opnum' = 0 /\ (StartValid \/ StartUtil \/ StartSpeed)
           \/ UNCHANGED vars
<1>1. CASE read_trace \/ ValidReturns \/ UtilReturns \/ SpeedReturns \/ LibcReplayed
           \/ LibcNextTrace \/ NextTrace \/ Report
  BY <1>1 DEF read_trace, ValidReturns, UtilReturns, SpeedReturns, LibcReplayed,
              LibcNextTrace, NextTrace, Report, Replays
<1>2. CASE LibcRequest
  BY <1>2, LibcRequestCases DEF Replays
<1>3. CASE StartValid \/ StartUtil \/ StartSpeed
  BY <1>3 DEF StartValid, StartUtil, StartSpeed, mm_init
<1>4. CASE Ended \/ UNCHANGED vars
  BY <1>4 DEF Ended
<1> QED
  BY <1>1, <1>2, <1>3, <1>4 DEF Next

LEMMA LiveStep == CtlInv /\ RangesInv /\ SizesInv /\ LiveInv /\ [Next]_vars => LiveInv'
<1> SUFFICES ASSUME CtlInv, RangesInv, SizesInv, LiveInv, [Next]_vars PROVE LiveInv'
  OBVIOUS
<1>1. CASE pc' \notin Replays
  BY <1>1 DEF LiveInv, Replays
<1>2. CASE ValidAlloc \/ UtilAlloc \/ SpeedAlloc
  BY <1>1, <1>2, AnsweredAlloc, LiveAlloc
<1>3. CASE ValidRealloc \/ UtilRealloc \/ SpeedRealloc
  BY <1>1, <1>3, AnsweredRealloc, LiveRealloc
<1>4. CASE ValidFree \/ UtilFree \/ SpeedFree
  BY <1>4, AnsweredFree, LiveFree
<1>5. CASE live' = {} /\ opnum' = 0
  <2>1. InUse' = {}
    BY <1>5, NoneInUse DEF InUse
  <2> QED
    BY <1>5, <2>1 DEF LiveInv, GoodHeap, Held, Sized
<1>6. CASE UNCHANGED vars
  <2>1. UNCHANGED <<session, pc, live, mem_brk, blocks, block_sizes, trace, opnum>>
    BY <1>6 DEF vars, memvars, tracevars, blockvars
  <2> QED
    BY <2>1 DEF LiveInv, GoodHeap, Held, Sized, InUse, Package
<1> QED
  BY <1>1, <1>2, <1>3, <1>4, <1>5, <1>6, OutsideReplays

\* Everything so far, for a package of either kind.
PackageInv == CtlInv /\ RangesInv /\ SizesInv /\ LiveInv

LEMMA PackageInvCorrect ==
    /\ Init => PackageInv
    /\ PackageInv /\ [Next]_vars => PackageInv'
<1>1. Init => SizesInv /\ LiveInv
  BY DEF Init, SizesInv, LiveInv, Replays, PassPoints
<1> QED
  BY <1>1, InitCtlInv, CtlStep, InitRangesInv, RangesStep, SizesStep, LiveStep DEF PackageInv

\* While libc's malloc is evaluated: the blocks in use are at addresses that
\* libc has handed out, each at its own.
LibcInv ==
    pc \in {"eval_libc_valid", "eval_libc_speed"} =>
        /\ \A id \in InUse : blocks[id] \in libc
        /\ \A id, x \in InUse : blocks[id] = blocks[x] => id = x

LEMMA LibcStep == CtlInv /\ LibcInv /\ [Next]_vars => LibcInv'
<1> SUFFICES ASSUME CtlInv, LibcInv, [Next]_vars PROVE LibcInv'
  OBVIOUS
<1>1. CASE pc' \notin {"eval_libc_valid", "eval_libc_speed"}
  BY <1>1 DEF LibcInv
<1>2. CASE opnum' = 0
  <2>1. InUse' = {}
    BY <1>2, NoneInUse DEF InUse
  <2> QED
    BY <2>1 DEF LibcInv
<1>3. CASE LibcRequest
  <2> DEFINE id == request.index
  <2>1. /\ pc \in {"eval_libc_valid", "eval_libc_speed"} /\ pc \in Running
        /\ opnum < trace.num_ops /\ UNCHANGED trace
    BY <1>3, LibcRequestCases DEF Running, tracevars
  <2>2. /\ id \in Indexes(trace.ops) /\ blocks \in [Indexes(trace.ops) -> Int]
    BY <2>1, RequestInTurn DEF CtlInv
  <2>3. opnum' = opnum + 1 =>
          /\ InUse \subseteq Indexes(trace.ops)
          /\ request.type = "ALLOC" => id \notin InUse
          /\ request.type # "ALLOC" => id \in InUse
          /\ InUse' = IF request.type = "FREE" THEN InUse \ {id} ELSE InUse \cup {id}
    BY <2>1, InUseInTurn
  <2>4. /\ \A x \in InUse : blocks[x] \in libc
        /\ \A x, y \in InUse : blocks[x] = blocks[y] => x = y
    BY <2>1 DEF LibcInv
  <2> HIDE DEF id
  <2>5. CASE pc' = "abort"
    BY <1>1, <2>5
  <2>6. CASE /\ request.type # "FREE" /\ opnum' = opnum + 1
             /\ \E p \in LibcAddresses \ OtherAddresses :
                   /\ blocks' = [blocks EXCEPT ![id] = p] /\ libc' = OtherAddresses \cup {p}
    <3>1. PICK p : /\ p \notin OtherAddresses
                   /\ blocks' = [blocks EXCEPT ![id] = p] /\ libc' = OtherAddresses \cup {p}
      BY <2>6
    <3>2. InUse' = InUse \cup {id} /\ InUse \subseteq Indexes(trace.ops)
      BY <2>3, <2>6
    <3>3. blocks'[id] = p /\ \A x \in InUse : x # id => blocks'[x] = blocks[x]
      BY <2>2, <3>1, <3>2
    <3>4. \A x \in InUse : x # id => blocks[x] \in OtherAddresses
      BY <2>3, <2>4, <2>6 DEF OtherAddresses, id
    <3>5. \A x \in InUse' : x = id \/ (x \in InUse /\ x # id)
      BY <3>2
    <3>6. \A x \in InUse' : blocks'[x] \in libc'
      BY <3>1, <3>3, <3>4, <3>5
    <3>7. \A x, y \in InUse' : blocks'[x] = blocks'[y] => x = y
      BY <2>4, <3>1, <3>3, <3>4, <3>5
    <3> QED
      BY <3>6, <3>7 DEF LibcInv
  <2>7. CASE /\ request.type = "FREE" /\ opnum' = opnum + 1 /\ UNCHANGED blocks
             /\ libc' = libc \ {blocks[id]}
    <3>1. InUse' = InUse \ {id} /\ id \in InUse
      BY <2>3, <2>7
    <3> QED
      BY <2>4, <2>7, <3>1 DEF LibcInv
  <2> QED
    BY <1>3, <2>5, <2>6, <2>7, LibcRequestCases DEF id
<1>4. CASE LibcReplayed
  BY <1>2, <1>4 DEF LibcReplayed
<1>5. CASE read_trace
  <2>1. opnum' = 0
    BY <1>5 DEF read_trace, CtlInv, Between
  <2> QED
    BY <1>2, <2>1
<1>6. CASE Ended \/ UNCHANGED vars
  <2>1. UNCHANGED <<pc, trace, opnum, blocks, libc>>
    BY <1>6 DEF Ended, vars, tracevars, blockvars
  <2> QED
    BY <2>1 DEF LibcInv, InUse
<1>7. CASE StartValid \/ ValidReturns \/ StartUtil \/ UtilReturns \/ StartSpeed \/ SpeedReturns
           \/ NextTrace \/ Report \/ LibcNextTrace
  <2>1. pc' \notin {"eval_libc_valid", "eval_libc_speed"}
    BY <1>7 DEF StartValid, ValidReturns, StartUtil, UtilReturns, StartSpeed, SpeedReturns,
                NextTrace, Report, LibcNextTrace
  <2> QED
    BY <1>1, <2>1
<1>8. CASE ValidAlloc \/ ValidRealloc
  <2>1. pc' \notin {"eval_libc_valid", "eval_libc_speed"}
    BY <1>8, ValidAllocCases, ValidReallocCases
       DEF GivenUp, Dead, Served, ValidAlloc, ValidRealloc, Requested
  <2> QED
    BY <1>1, <2>1
<1>9. CASE ValidFree \/ UtilAlloc \/ UtilRealloc \/ UtilFree \/ SpeedAlloc \/ SpeedRealloc \/ SpeedFree
  <2>1. pc' \notin {"eval_libc_valid", "eval_libc_speed"}
    BY <1>9 DEF ValidFree, UtilAlloc, UtilRealloc, UtilFree, SpeedAlloc, SpeedRealloc, SpeedFree,
                Requested, AppError, RememberAddress
  <2> QED
    BY <1>1, <2>1
<1> QED
  BY <1>3, <1>4, <1>5, <1>6, <1>7, <1>8, <1>9 DEF Next

\* No replay frees or reallocates an address of the replay before: what it
\* takes from blocks[] the package, or libc, has handed out in this one.
THEOREM NoStaleAddressCorrect == Spec => []NoStaleAddress
<1>1. PackageInv /\ LibcInv => NoStaleAddress
  <2> SUFFICES ASSUME PackageInv, LibcInv, opnum < trace.num_ops, request.type # "ALLOC"
               PROVE  /\ (Package = "correct" /\ pc \in Replays)
                            => \E b \in live : b.lo = blocks[request.index]
                      /\ pc \in {"eval_libc_valid", "eval_libc_speed"}
                            => blocks[request.index] \in libc
    BY DEF NoStaleAddress, Replays
  <2>1. pc \in Running => request.index \in InUse
    BY RequestInTurn DEF PackageInv
  <2> QED
    BY <2>1 DEF PackageInv, LiveInv, Held, LibcInv, Replays, Running
<1>2. Init => LibcInv
  BY DEF Init, LibcInv
<1>3. PackageInv /\ LibcInv /\ [Next]_vars => LibcInv'
  BY LibcStep DEF PackageInv
<1> QED
  BY <1>1, <1>2, <1>3, PackageInvCorrect, PTL DEF Spec

(***************************************************************************)
(* What eval_mm_valid writes and reads                                     *)
(***************************************************************************)
\* Ids whose byte is the same as a plain char, in the files of the sessions
\* with a correct package.
LowIds ==
    \A s \in Sessions : s.package = "correct" =>
        \A t \in s.files : \A id \in Indexes(t.ops) : LowByte(id) < 128

MemoryInv == DOMAIN memory = 0 .. MAX_HEAP - 1 /\ BlocksFilled

MessageInv ==
    Package = "correct" =>
        message \notin RangeTexts /\ (LowIds => message # "data not preserved")

\* The bytes of the ids in use are those of their blocks.
Filling(bytes, addresses, sizes, used) ==
    \A x \in used : \A a \in Bytes(addresses[x], sizes[x]) : bytes[a] = LowByte(x)

\* A payload that is filled does not touch the others.
LEMMA FilledNext ==
    ASSUME NEW bytes, DOMAIN bytes = 0 .. MAX_HEAP - 1,
           NEW D, NEW b \in [D -> Int], NEW s \in [D -> Int], NEW used \in SUBSET D,
           Filling(bytes, b, s, used), request.index \in D, request.index \notin used,
           request.size \in Nat, NEW p \in Nat, p + request.size <= MAX_HEAP,
           \A x \in used : /\ 0 <= b[x] /\ b[x] + s[x] <= MAX_HEAP
                           /\ b[x] + s[x] <= p \/ p + request.size <= b[x]
    PROVE  /\ DOMAIN Filled(bytes, p) = 0 .. MAX_HEAP - 1
           /\ Filling(Filled(bytes, p), [b EXCEPT ![request.index] = p],
                      [s EXCEPT ![request.index] = request.size], used \cup {request.index})
<1> DEFINE id   == request.index
           size == request.size
           f    == Filled(bytes, p)
           c    == [b EXCEPT ![id] = p]
           t    == [s EXCEPT ![id] = size]
<1>0. id \in D /\ id \notin used /\ size \in Nat /\ p + size <= MAX_HEAP
  OBVIOUS
<1>1. /\ DOMAIN f = 0 .. MAX_HEAP - 1
      /\ \A a \in 0 .. MAX_HEAP - 1 : f[a] = IF a \in Bytes(p, size) THEN LowByte(id) ELSE bytes[a]
  BY DEF Filled
<1>2. c[id] = p /\ t[id] = size /\ \A x \in used : c[x] = b[x] /\ t[x] = s[x]
  BY <1>0
<1>3. \A x \in used : /\ 0 <= b[x] /\ b[x] + s[x] <= MAX_HEAP /\ b[x] \in Int /\ s[x] \in Int
                      /\ b[x] + s[x] <= p \/ p + size <= b[x]
  OBVIOUS
<1> HIDE DEF f, c, t, id, size
<1>4. ASSUME NEW x \in used, NEW a \in Bytes(c[x], t[x]) PROVE f[a] = LowByte(x)
  <2>1. a \in Bytes(b[x], s[x]) /\ bytes[a] = LowByte(x)
    BY <1>2, <1>4 DEF Filling
  <2>2. a \in 0 .. MAX_HEAP - 1 /\ a \notin Bytes(p, size)
    <3>1. /\ b[x] \in Int /\ s[x] \in Int /\ 0 <= b[x] /\ b[x] + s[x] <= MAX_HEAP
          /\ b[x] + s[x] <= p \/ p + size <= b[x]
      BY <1>3
    <3>2. a \in Int /\ b[x] <= a /\ a <= b[x] + s[x] - 1
      BY <2>1, <3>1 DEF Bytes
    <3>3. a \in 0 .. MAX_HEAP - 1
      BY <3>1, <3>2, Constants
    <3>4. ~ (p <= a /\ a <= p + size - 1)
      BY <1>0, <3>1, <3>2
    <3> QED
      BY <1>0, <3>3, <3>4 DEF Bytes
  <2> QED
    BY <1>1, <2>1, <2>2
<1>5. ASSUME NEW a \in Bytes(c[id], t[id]) PROVE f[a] = LowByte(id)
  <2>1. a \in Bytes(p, size) /\ a \in 0 .. MAX_HEAP - 1
    BY <1>0, <1>2, <1>5, Constants DEF Bytes
  <2> QED
    BY <1>1, <2>1
<1>6. Filling(f, c, t, used \cup {id})
  BY <1>4, <1>5 DEF Filling
<1> QED
  BY <1>1, <1>6 DEF f, c, t, id, size

\* mm_realloc of a correct package moves the bytes that both blocks have, and
\* writes nowhere else.
LEMMA MovedBytes ==
    ASSUME Package = "correct", GoodHeap(live, mem_brk), NEW old \in live,
           NEW newp \in Nat, NEW size \in Nat,
           DOMAIN memory = 0 .. MAX_HEAP - 1,
           NEW bytes \in ReallocMemory(old.lo, newp, size)
    PROVE  /\ DOMAIN bytes = 0 .. MAX_HEAP - 1
           /\ \A a \in 0 .. MAX_HEAP - 1 : a \notin Bytes(newp, size) => bytes[a] = memory[a]
           /\ \A j \in 0 .. size - 1 :
                 (j < old.size /\ newp + j \in 0 .. MAX_HEAP - 1 /\ old.lo + j \in 0 .. MAX_HEAP - 1)
                    => bytes[newp + j] = memory[old.lo + j]
<1>1. old = CHOOSE b \in live : b.lo = old.lo
  BY LowEndTells
<1>2. old.size \in Nat /\ old.lo \in Nat
  BY DEF GoodHeap
<1> DEFINE n == IF size < old.size THEN size ELSE old.size
<1>3. bytes = Moved(old.lo, newp, n)
  BY <1>1 DEF ReallocMemory
<1>4. n \in Nat /\ n <= size /\ \A j \in 0 .. size - 1 : j < old.size => j < n
  BY <1>2
<1> HIDE DEF n
<1>5. /\ DOMAIN bytes = 0 .. MAX_HEAP - 1
      /\ \A a \in 0 .. MAX_HEAP - 1 :
            bytes[a] = IF a \in Bytes(newp, n) /\ a - newp + old.lo \in 0 .. MAX_HEAP - 1
                       THEN memory[a - newp + old.lo] ELSE memory[a]
  BY <1>3 DEF Moved
<1>6. Bytes(newp, n) \subseteq Bytes(newp, size)
  BY <1>4 DEF Bytes
<1>7. ASSUME NEW j \in 0 .. size - 1, j < old.size, newp + j \in 0 .. MAX_HEAP - 1,
             old.lo + j \in 0 .. MAX_HEAP - 1
      PROVE  bytes[newp + j] = memory[old.lo + j]
  <2>1. newp + j \in Bytes(newp, n)
    BY <1>4, <1>7 DEF Bytes
  <2>2. (newp + j) - newp + old.lo = old.lo + j
    BY <1>2
  <2> QED
    BY <1>5, <1>7, <2>1, <2>2
<1> QED
  BY <1>5, <1>6, <1>7

\* A correct package gives add_range nothing to complain about, but for a
\* request whose size is not positive as an int.
LEMMA NothingWrong ==
    ASSUME Package = "correct", mem_brk \in 0 .. MAX_HEAP,
           NEW p, p # NULL, NEW size \in Nat,
           NEW payloads, GoodHeap(payloads, mem_brk), Reply(p, size, payloads),
           NEW list, GoodRanges(list), NEW b, NEW s, NEW used, Exact(list, b, s, used),
           Sized(payloads, b, s, used)
    PROVE  RangeError(list, p, size) \notin RangeTexts
<1> SUFFICES ASSUME PositiveInt(size) PROVE RangeError(list, p, size) = "none"
  BY DEF RangeError, RangeTexts
<1>0. size > 0
  BY DEF PositiveInt
<1>1. /\ p \in Nat /\ p % ALIGNMENT = 0 /\ p + size <= mem_brk'
      /\ \A q \in payloads : q.lo + q.size <= p \/ p + size <= q.lo
  BY <1>0, Fitting
<1>2. ~Misaligned(p)
  BY <1>1 DEF Misaligned
<1>3. ~OutsideHeap(p, p + size - 1)
  <2>1. PICK top : top = mem_brk'
    OBVIOUS
  <2>2. top \in Int
    BY <2>1, HeapGrows, Constants
  <2>3. p \in Nat /\ p + size <= top
    BY <1>1, <2>1
  <2>4. ~ (p < 0) /\ ~ (p > top - 1) /\ ~ (p + size - 1 < 0) /\ ~ (p + size - 1 > top - 1)
    BY <1>0, <2>2, <2>3
  <2> QED
    BY <2>1, <2>4 DEF OutsideHeap, mem_heap_lo, mem_heap_hi
<1>4. ASSUME NEW i \in 1 .. Len(list) PROVE ~Overlaps(p, p + size - 1, list[i])
  <2>1. PICK x \in used : list[i] = RangeOf(b, s, x)
    BY DEF Exact
  <2>2. PICK q \in payloads : q.lo = b[x] /\ q.size = s[x]
    BY DEF Sized
  <2>3. list[i].lo = q.lo /\ list[i].hi = q.lo + q.size - 1
    BY <2>1, <2>2 DEF RangeOf
  <2>4. q.lo \in Nat /\ q.size \in Nat
    BY DEF GoodHeap
  <2>5. q.lo + q.size <= p \/ p + size <= q.lo
    BY <1>1
  <2> QED
    BY <1>0, <1>1, <2>3, <2>4, <2>5 DEF Overlaps
<1>5. DOMAIN list = 1 .. Len(list)
  BY RangeTypes
<1> QED
  BY <1>2, <1>3, <1>4, <1>5 DEF RangeError

\* The three replays never look at a session but the one of the program.
LEMMA CorrectReplay ==
    ASSUME PackageInv, Package = "correct", pc = "eval_mm_valid"
    PROVE  /\ GoodHeap(live, mem_brk) /\ Held(live, blocks, InUse)
           /\ Sized(live, blocks, block_sizes, InUse)
           /\ GoodRanges(ranges) /\ Exact(ranges, blocks, block_sizes, InUse)
           /\ mem_brk \in 0 .. MAX_HEAP
           /\ blocks \in [Indexes(trace.ops) -> Int] /\ block_sizes \in [Indexes(trace.ops) -> Int]
  BY DEF PackageInv, LiveInv, RangesInv, CtlInv, Replays

LEMMA MemoryDomains ==
    /\ \A bytes, p : DOMAIN Filled(bytes, p) = DOMAIN bytes
    /\ \A oldp, newp, size : \A bytes \in ReallocMemory(oldp, newp, size) : DOMAIN bytes = DOMAIN memory
  BY DEF Filled, ReallocMemory, Moved

LEMMA MemoryAlloc ==
    ASSUME PackageInv, MemoryInv, MessageInv, ValidAlloc
    PROVE  MemoryInv' /\ MessageInv'
<1> DEFINE id   == request.index
           size == request.size
<1>1. /\ pc = "eval_mm_valid" /\ pc \in Running /\ opnum < trace.num_ops
      /\ request.type = "ALLOC" /\ CtlInv
  BY DEF ValidAlloc, Requested, Running, PackageInv
<1>2. PICK p \in Addresses \cup {NULL} :
             /\ mm_malloc(request.size, p)
             /\ session' = session
             /\ \/ /\ pc' # "eval_mm_valid" /\ UNCHANGED memory
                   /\ message' \in {message, "mm_malloc failed"}
                \/ /\ p # NULL /\ pc' # "eval_mm_valid" /\ UNCHANGED memory
                   /\ RangeError(ranges, p, request.size) \in RangeTexts
                \/ /\ p # NULL /\ Served /\ Remember(p)
                   /\ RangeError(ranges, p, request.size) = "none"
                   /\ memory' = Filled(memory, p)
  BY ValidAllocCases DEF GivenUp, Dead
<1>3. /\ size \in Nat /\ id \in Indexes(trace.ops) /\ Reply(p, size, live)
      /\ DOMAIN memory = 0 .. MAX_HEAP - 1
  BY <1>1, <1>2, RequestInTurn DEF mm_malloc, MemoryInv
<1>4. CASE /\ pc' # "eval_mm_valid" /\ UNCHANGED memory
           /\ message' \in {message, "mm_malloc failed"}
  BY <1>2, <1>4 DEF MemoryInv, MessageInv, BlocksFilled, Package, RangeTexts
<1>5. CASE /\ p # NULL /\ pc' # "eval_mm_valid" /\ UNCHANGED memory
           /\ RangeError(ranges, p, request.size) \in RangeTexts
  <2>1. Package # "correct"
    BY <1>1, <1>3, <1>5, CorrectReplay, NothingWrong
  <2> QED
    BY <1>2, <1>5, <2>1 DEF MemoryInv, MessageInv, BlocksFilled, Package
<1>6. CASE /\ p # NULL /\ Served /\ Remember(p)
           /\ RangeError(ranges, p, request.size) = "none"
           /\ memory' = Filled(memory, p)
  <2>1. /\ UNCHANGED <<trace, pc, message>> /\ opnum' = opnum + 1
        /\ blocks' = [blocks EXCEPT ![id] = p] /\ block_sizes' = [block_sizes EXCEPT ![id] = size]
    BY <1>6 DEF Served, SameTrace, Remember
  <2>2. MessageInv'
    BY <1>2, <2>1 DEF MessageInv, Package
  <2>3. DOMAIN memory' = 0 .. MAX_HEAP - 1
    BY <1>3, <1>6, MemoryDomains
  <2>4. ASSUME Package = "correct" PROVE Filling(memory', blocks', block_sizes', InUse')
    <3>1. /\ GoodHeap(live, mem_brk) /\ Sized(live, blocks, block_sizes, InUse)
          /\ mem_brk \in 0 .. MAX_HEAP /\ size > 0
          /\ blocks \in [Indexes(trace.ops) -> Int] /\ block_sizes \in [Indexes(trace.ops) -> Int]
      BY <1>1, <1>6, <2>1, <2>4, CorrectReplay, RangesAlloc DEF PackageInv
    <3>2. /\ p \in Nat /\ p + size <= mem_brk' /\ mem_brk' \in 0 .. MAX_HEAP
          /\ \A q \in live : q.lo + q.size <= p \/ p + size <= q.lo
      BY <1>3, <1>6, <2>4, <3>1, Fitting, HeapGrows
    <3>3. p + size <= MAX_HEAP
      <4>1. PICK top : top = mem_brk'
        OBVIOUS
      <4> QED
        BY <1>3, <3>2, <4>1, Constants
    <3>4. /\ InUse \subseteq Indexes(trace.ops) /\ id \notin InUse /\ InUse' = InUse \cup {id}
      BY <1>1, <2>1, InUseInTurn
    <3>5. ASSUME NEW x \in InUse
          PROVE  /\ 0 <= blocks[x] /\ blocks[x] + block_sizes[x] <= MAX_HEAP
                 /\ blocks[x] + block_sizes[x] <= p \/ p + size <= blocks[x]
      <4>1. PICK q \in live : q.lo = blocks[x] /\ q.size = block_sizes[x]
        BY <3>1 DEF Sized
      <4>2. q.lo \in Nat /\ q.size \in Nat /\ q.lo + q.size <= mem_brk
        BY <3>1 DEF GoodHeap
      <4> QED
        BY <3>1, <3>2, <4>1, <4>2, Constants
    <3>6. Filling(memory, blocks, block_sizes, InUse)
      BY <1>1, <2>4 DEF MemoryInv, BlocksFilled, Filling
    <3>7. Filling(Filled(memory, p), [blocks EXCEPT ![id] = p], [block_sizes EXCEPT ![id] = size],
                  InUse \cup {id})
      BY <1>3, <3>1, <3>2, <3>3, <3>4, <3>5, <3>6, FilledNext
    <3> QED
      BY <1>6, <2>1, <3>4, <3>7
  <2>5. BlocksFilled'
    BY <1>2, <2>4 DEF BlocksFilled, Filling, Package
  <2> QED
    BY <2>2, <2>3, <2>5 DEF MemoryInv
<1> QED
  BY <1>2, <1>4, <1>5, <1>6

LEMMA MemoryRealloc ==
    ASSUME PackageInv, MemoryInv, MessageInv, ValidRealloc
    PROVE  MemoryInv' /\ MessageInv'
<1> DEFINE id      == request.index
           size    == request.size
           oldp    == blocks[id]
           oldsize == block_sizes[id]
           others  == remove_range(ranges, oldp)
           rest    == {q \in live : q.lo # oldp}
<1>1. /\ pc = "eval_mm_valid" /\ pc \in Running /\ opnum < trace.num_ops
      /\ request.type = "REALLOC" /\ CtlInv /\ DOMAIN memory = 0 .. MAX_HEAP - 1
  BY DEF ValidRealloc, Requested, Running, PackageInv, MemoryInv
<1>2. PICK p \in Addresses \cup {NULL} :
        /\ mm_realloc(oldp, size, p)
        /\ session' = session
        /\ \/ /\ pc' # "eval_mm_valid" /\ message' = "mm_realloc failed" /\ UNCHANGED memory
           \/ \E bytes \in ReallocMemory(oldp, p, size) :
              /\ p # NULL
              /\ \/ /\ pc' # "eval_mm_valid" /\ RangeError(others, p, size) \in RangeTexts
                    /\ memory' = bytes
                 \/ pc' # "eval_mm_valid" /\ UNCHANGED message /\ memory' = bytes
                 \/ /\ pc' # "eval_mm_valid" /\ message' = "data not preserved" /\ memory' = bytes
                    /\ DataLost(bytes, p, oldsize) /\ RangeError(others, p, size) = "none"
                 \/ /\ Served /\ Remember(p) /\ RangeError(others, p, size) = "none"
                    /\ memory' = Filled(bytes, p)
  BY ValidReallocCases DEF GivenUp, Dead
<1>3. size \in Nat /\ id \in Indexes(trace.ops) /\ id \in InUse /\ InUse \subseteq Indexes(trace.ops)
  <2>1. opnum \in 0 .. Len(trace.ops) /\ trace.ops \in Seq(Request)
    BY <1>1, RequestInTurn
  <2> QED
    BY <1>1, <2>1, RequestInTurn, InUseIds DEF InUse
<1>4. DOMAIN memory' = 0 .. MAX_HEAP - 1
  <2>1. CASE UNCHANGED memory
    BY <1>1, <2>1
  <2>2. CASE \E bytes \in ReallocMemory(oldp, p, size) : memory' = bytes \/ memory' = Filled(bytes, p)
    <3>1. PICK bytes \in ReallocMemory(oldp, p, size) : memory' = bytes \/ memory' = Filled(bytes, p)
      BY <2>2
    <3>2. DOMAIN bytes = 0 .. MAX_HEAP - 1
      <4> HIDE DEF oldp, size
      <4> QED
        BY <1>1, MemoryDomains
    <3>3. DOMAIN Filled(bytes, p) = 0 .. MAX_HEAP - 1
      BY <3>2, MemoryDomains
    <3> QED
      BY <3>1, <3>2, <3>3
  <2> QED
    BY <1>2, <2>1, <2>2
<1>5. ASSUME Package = "correct"
      PROVE  /\ GoodHeap(live, mem_brk) /\ mem_brk \in 0 .. MAX_HEAP
             /\ GoodHeap(rest, mem_brk) /\ Reply(p, size, rest)
             /\ Sized(live, blocks, block_sizes, InUse)
             /\ Sized(rest, blocks, block_sizes, InUse \ {id})
             /\ GoodRanges(others) /\ Exact(others, blocks, block_sizes, InUse \ {id})
             /\ blocks \in [Indexes(trace.ops) -> Int] /\ block_sizes \in [Indexes(trace.ops) -> Int]
  <2>1. /\ GoodHeap(live, mem_brk) /\ Held(live, blocks, InUse)
        /\ Sized(live, blocks, block_sizes, InUse)
        /\ GoodRanges(ranges) /\ Exact(ranges, blocks, block_sizes, InUse)
        /\ mem_brk \in 0 .. MAX_HEAP
        /\ blocks \in [Indexes(trace.ops) -> Int] /\ block_sizes \in [Indexes(trace.ops) -> Int]
    BY <1>1, <1>5, CorrectReplay
  <2>2. Reply(p, size, rest)
    BY <1>2 DEF mm_realloc, Freed
  <2> HIDE DEF id
  <2>3. GoodHeap(rest, mem_brk) /\ Sized(rest, blocks, block_sizes, InUse \ {id})
    <3>1. /\ GoodHeap({q \in live : q.lo # blocks[id]}, mem_brk)
          /\ Held({q \in live : q.lo # blocks[id]}, blocks, InUse \ {id})
          /\ Sized(live, blocks, block_sizes, InUse)
                => Sized({q \in live : q.lo # blocks[id]}, blocks, block_sizes, InUse \ {id})
      BY <1>3, <2>1, HeldFreed
    <3> QED
      BY <2>1, <3>1
  <2>4. GoodRanges(others) /\ Exact(others, blocks, block_sizes, InUse \ {id})
    BY <1>3, <2>1, GoodRest, ExactRemoved
  <2> QED
    BY <2>1, <2>2, <2>3, <2>4
<1>6. CASE pc' # "eval_mm_valid" /\ message' \in {message, "mm_realloc failed"}
  BY <1>2, <1>4, <1>6 DEF MemoryInv, MessageInv, BlocksFilled, Package, RangeTexts
<1>7. CASE pc' # "eval_mm_valid" /\ p # NULL /\ RangeError(others, p, size) \in RangeTexts
  <2>1. Package # "correct"
    <3> HIDE DEF id, size, oldp, others, rest
    <3> QED
      BY <1>3, <1>5, <1>7, NothingWrong
  <2> QED
    BY <1>2, <1>4, <1>7, <2>1 DEF MemoryInv, MessageInv, BlocksFilled, Package
<1>8. ASSUME NEW bytes \in ReallocMemory(oldp, p, size), p # NULL, size > 0, Package = "correct"
      PROVE  /\ p \in Nat /\ p + size <= MAX_HEAP
             /\ DOMAIN bytes = 0 .. MAX_HEAP - 1
             /\ \A q \in rest : q.lo + q.size <= p \/ p + size <= q.lo
             /\ \A a \in 0 .. MAX_HEAP - 1 : a \notin Bytes(p, size) => bytes[a] = memory[a]
             /\ ~(LowIds /\ DataLost(bytes, p, oldsize))
  <2>1. /\ p \in Nat /\ p + size <= mem_brk' /\ mem_brk' \in 0 .. MAX_HEAP
        /\ \A q \in rest : q.lo + q.size <= p \/ p + size <= q.lo
    <3> HIDE DEF size, rest
    <3> QED
      BY <1>3, <1>5, <1>8, Fitting, HeapGrows
  <2>2. p + size <= MAX_HEAP
    <3>1. PICK top : top = mem_brk'
      OBVIOUS
    <3> HIDE DEF size
    <3> QED
      BY <1>3, <2>1, <3>1, Constants
  <2>3. PICK old \in live : old.lo = oldp /\ old.size = oldsize
    BY <1>3, <1>5, <1>8 DEF Sized
  <2>4. /\ old.lo \in Nat /\ old.size \in Nat /\ old.lo + old.size <= MAX_HEAP
    <3>1. old.lo \in Nat /\ old.size \in Nat /\ old.lo + old.size <= mem_brk
      BY <1>5, <1>8 DEF GoodHeap
    <3> QED
      BY <1>5, <1>8, <3>1, Constants
  <2>5. /\ DOMAIN bytes = 0 .. MAX_HEAP - 1
        /\ \A a \in 0 .. MAX_HEAP - 1 : a \notin Bytes(p, size) => bytes[a] = memory[a]
        /\ \A j \in 0 .. size - 1 :
              (j < old.size /\ p + j \in 0 .. MAX_HEAP - 1 /\ old.lo + j \in 0 .. MAX_HEAP - 1)
                  => bytes[p + j] = memory[old.lo + j]
    <3>1. bytes \in ReallocMemory(old.lo, p, size)
      BY <2>3
    <3> HIDE DEF size
    <3> QED
      BY <1>1, <1>3, <1>5, <1>8, <2>1, <3>1, MovedBytes
  <2>6. ASSUME LowIds, NEW j \in 0 .. oldsize - 1, j < size PROVE Char(bytes[p + j]) = LowByte(id)
    <3>1. /\ oldsize \in Nat /\ j \in Nat /\ oldp \in Nat /\ oldp + oldsize <= MAX_HEAP
      BY <2>3, <2>4
    <3> HIDE DEF oldsize, oldp, size
    <3>2. /\ j \in 0 .. size - 1 /\ j < old.size
          /\ p + j \in 0 .. MAX_HEAP - 1 /\ old.lo + j \in 0 .. MAX_HEAP - 1
          /\ old.lo + j \in Bytes(oldp, oldsize)
      BY <1>3, <2>1, <2>2, <2>3, <2>6, <3>1, Constants DEF Bytes
    <3>3. bytes[p + j] = memory[old.lo + j]
      BY <2>5, <3>2
    <3>4. memory[old.lo + j] = LowByte(id)
      BY <1>1, <1>3, <1>8, <3>2 DEF MemoryInv, BlocksFilled, oldp, oldsize
    <3>5. LowByte(id) < 128
      <4>1. session \in Sessions /\ session.package = "correct" /\ trace \in session.files
        BY <1>1, <1>8, LoadedTrace DEF CtlInv, Package, TraceFiles
      <4> QED
        BY <1>3, <2>6, <4>1 DEF LowIds
    <3>6. LowByte(id) \in Int
      BY <1>1, RequestInTurn DEF LowByte
    <3> HIDE DEF id
    <3> QED
      BY <3>3, <3>4, <3>5, <3>6 DEF Char
  <2> QED
    BY <2>1, <2>2, <2>5, <2>6 DEF DataLost
<1>9. CASE \E bytes \in ReallocMemory(oldp, p, size) :
              /\ p # NULL /\ pc' # "eval_mm_valid" /\ message' = "data not preserved"
              /\ DataLost(bytes, p, oldsize) /\ RangeError(others, p, size) = "none"
  <2>1. size > 0
    <3>1. RangeError(others, p, size) = "none"
      BY <1>9
    <3> HIDE DEF size, others
    <3> QED
      BY <1>3, <3>1 DEF RangeError, PositiveInt
  <2>2. Package = "correct" => ~LowIds
    BY <1>8, <1>9, <2>1
  <2> QED
    BY <1>2, <1>4, <1>9, <2>2 DEF MemoryInv, MessageInv, BlocksFilled, Package, RangeTexts
<1>10. CASE \E bytes \in ReallocMemory(oldp, p, size) :
              /\ p # NULL /\ Served /\ Remember(p) /\ RangeError(others, p, size) = "none"
              /\ memory' = Filled(bytes, p)
  <2>1. /\ UNCHANGED <<trace, pc, message>> /\ opnum' = opnum + 1
        /\ blocks' = [blocks EXCEPT ![id] = p] /\ block_sizes' = [block_sizes EXCEPT ![id] = size]
    BY <1>10 DEF Served, SameTrace, Remember
  <2>2. MessageInv'
    BY <1>2, <2>1 DEF MessageInv, Package
  <2>3. size > 0
    BY <1>3, <1>10 DEF RangeError, PositiveInt
  <2>4. ASSUME Package = "correct" PROVE Filling(memory', blocks', block_sizes', InUse')
    <3>1. PICK bytes \in ReallocMemory(oldp, p, size) : p # NULL /\ memory' = Filled(bytes, p)
      BY <1>10
    <3>2. /\ p \in Nat /\ p + size <= MAX_HEAP /\ DOMAIN bytes = 0 .. MAX_HEAP - 1
          /\ \A q \in rest : q.lo + q.size <= p \/ p + size <= q.lo
          /\ \A a \in 0 .. MAX_HEAP - 1 : a \notin Bytes(p, size) => bytes[a] = memory[a]
      BY <1>8, <2>3, <2>4, <3>1
    <3>3. InUse' = (InUse \ {id}) \cup {id}
      BY <1>1, <1>3, <2>1, InUseInTurn
    <3> DEFINE used == InUse \ {id}
    <3>4. ASSUME NEW x \in used
          PROVE  /\ 0 <= blocks[x] /\ blocks[x] + block_sizes[x] <= MAX_HEAP
                 /\ blocks[x] + block_sizes[x] <= p \/ p + size <= blocks[x]
                 /\ blocks[x] \in Nat /\ block_sizes[x] \in Nat
      <4>1. PICK q \in rest : q.lo = blocks[x] /\ q.size = block_sizes[x]
        BY <1>5, <2>4 DEF Sized
      <4>2. q.lo \in Nat /\ q.size \in Nat /\ q.lo + q.size <= mem_brk
        BY <1>5, <2>4 DEF GoodHeap
      <4> QED
        BY <1>5, <2>4, <3>2, <4>1, <4>2, Constants
    <3>5. Filling(bytes, blocks, block_sizes, used)
      <4> SUFFICES ASSUME NEW x \in used, NEW a \in Bytes(blocks[x], block_sizes[x])
                   PROVE  bytes[a] = LowByte(x)
        BY DEF Filling
      <4>1. memory[a] = LowByte(x)
        BY <1>1, <2>4 DEF MemoryInv, BlocksFilled
      <4>2. a \in 0 .. MAX_HEAP - 1 /\ a \notin Bytes(p, size)
        <5>1. a \in Int /\ blocks[x] <= a /\ a <= blocks[x] + block_sizes[x] - 1
          BY <3>4 DEF Bytes
        <5>2. a \in 0 .. MAX_HEAP - 1
          BY <3>4, <5>1, Constants
        <5> HIDE DEF size
        <5>3. ~ (p <= a /\ a <= p + size - 1)
          BY <1>3, <3>2, <3>4, <5>1
        <5> QED
          BY <1>3, <3>2, <5>2, <5>3 DEF Bytes
      <4> QED
        BY <3>2, <4>1, <4>2
    <3>6. used \in SUBSET Indexes(trace.ops) /\ id \notin used
      BY <1>3
    <3> HIDE DEF used
    <3>7. Filling(Filled(bytes, p), [blocks EXCEPT ![id] = p], [block_sizes EXCEPT ![id] = size],
                  used \cup {id})
      BY <1>3, <1>5, <2>4, <3>2, <3>4, <3>5, <3>6, FilledNext
    <3> QED
      BY <2>1, <3>1, <3>3, <3>7 DEF used
  <2>5. BlocksFilled'
    BY <1>2, <2>4 DEF BlocksFilled, Filling, Package
  <2> QED
    BY <1>4, <2>2, <2>5 DEF MemoryInv
<1> QED
  BY <1>2, <1>6, <1>7, <1>9, <1>10

LEMMA MemoryFree ==
    ASSUME PackageInv, MemoryInv, MessageInv, ValidFree
    PROVE  MemoryInv' /\ MessageInv'
<1>1. /\ pc = "eval_mm_valid" /\ pc \in Running /\ opnum < trace.num_ops
      /\ request.type = "FREE" /\ CtlInv
      /\ UNCHANGED <<session, memory, pc, trace, message, blocks, block_sizes>> /\ opnum' = opnum + 1
  BY DEF ValidFree, Requested, Running, PackageInv, tracevars, blockvars, errorvars
<1>2. InUse' \subseteq InUse
  BY <1>1, InUseInTurn
<1> QED
  BY <1>1, <1>2 DEF MemoryInv, MessageInv, BlocksFilled, Package

\* Elsewhere the contents are only moved by a mm_realloc that nobody checks.
LEMMA MemoryElsewhere ==
    ASSUME PackageInv, MemoryInv, MessageInv, [Next]_vars, ~ (ValidAlloc \/ ValidRealloc \/ ValidFree)
    PROVE  MemoryInv' /\ MessageInv'
<1>1. CtlInv
  BY DEF PackageInv
<1>2. /\ session' = session
      /\ message' \in {message, "mm_init failed", "libc failed"}
  <2>1. CASE LibcRequest
    BY <1>1, <2>1, LibcRequestCases DEF mmvars, errorvars, malloc_error
  <2>2. CASE ~LibcRequest
    BY <2>2 DEF Next, read_trace, StartValid, ValidReturns, StartUtil, UtilAlloc, UtilRealloc,
                UtilFree, UtilReturns, StartSpeed, SpeedAlloc, SpeedRealloc, SpeedFree,
                SpeedReturns, LibcReplayed, LibcNextTrace, NextTrace, Report, Ended, vars,
                errorvars, malloc_error
  <2> QED
    BY <2>1, <2>2
<1>3. MessageInv'
  BY <1>2 DEF MessageInv, Package, RangeTexts
<1>4. UNCHANGED memory \/ UtilRealloc \/ SpeedRealloc
  <2>1. CASE LibcRequest
    BY <1>1, <2>1, LibcRequestCases DEF mmvars, memvars
  <2>2. CASE ~LibcRequest
    BY <2>2 DEF Next, read_trace, StartValid, ValidReturns, StartUtil, UtilAlloc,
                UtilFree, UtilReturns, StartSpeed, SpeedAlloc, SpeedFree,
                SpeedReturns, LibcReplayed, LibcNextTrace, NextTrace, Report, Ended, vars,
                memvars, mmvars
  <2> QED
    BY <2>1, <2>2
<1>5. DOMAIN memory' = 0 .. MAX_HEAP - 1
  <2>1. CASE UNCHANGED memory
    BY <2>1 DEF MemoryInv
  <2>2. CASE UtilRealloc \/ SpeedRealloc
    <3>1. \/ UNCHANGED memory
          \/ \E oldp, newp, size : memory' \in ReallocMemory(oldp, newp, size)
      BY <2>2 DEF UtilRealloc, SpeedRealloc
    <3> QED
      BY <3>1, MemoryDomains DEF MemoryInv
  <2> QED
    BY <1>4, <2>1, <2>2
<1>6. BlocksFilled'
  <2>1. CASE pc' \notin Replays
    BY <2>1 DEF BlocksFilled, Replays
  <2>2. CASE UtilAlloc \/ SpeedAlloc \/ UtilRealloc \/ SpeedRealloc \/ UtilFree \/ SpeedFree
    <3>1. pc' # "eval_mm_valid"
      BY <2>2 DEF UtilAlloc, SpeedAlloc, UtilRealloc, SpeedRealloc, UtilFree, SpeedFree, Requested,
                  AppError, RememberAddress
    <3> QED
      BY <3>1 DEF BlocksFilled
  <2>3. CASE opnum' = 0
    <3>1. InUse' = {}
      BY <2>3, NoneInUse DEF InUse
    <3> QED
      BY <3>1 DEF BlocksFilled
  <2>4. CASE UNCHANGED vars
    <3>1. UNCHANGED <<session, pc, memory, blocks, block_sizes, trace, opnum>>
      BY <2>4 DEF vars, memvars, tracevars, blockvars
    <3> QED
      BY <3>1 DEF MemoryInv, BlocksFilled, InUse, Package
  <2> QED
    BY <1>1, <2>1, <2>2, <2>3, <2>4, OutsideReplays
<1> QED
  BY <1>3, <1>5, <1>6 DEF MemoryInv

LEMMA MemoryCorrect == Spec => [](PackageInv /\ MemoryInv /\ MessageInv)
<1>1. Init => MemoryInv /\ MessageInv
  BY DEF Init, MemoryInv, MessageInv, BlocksFilled, RangeTexts
<1>2. PackageInv /\ MemoryInv /\ MessageInv /\ [Next]_vars => MemoryInv' /\ MessageInv'
  BY MemoryAlloc, MemoryRealloc, MemoryFree, MemoryElsewhere
<1> QED
  BY <1>1, <1>2, PackageInvCorrect, PTL DEF Spec

\* With a correct package every block in use holds the low byte of its id in
\* all its bytes, whenever eval_mm_valid looks at them.
THEOREM BlocksFilledCorrect == Spec => []BlocksFilled
<1>1. MemoryInv => BlocksFilled
  BY DEF MemoryInv
<1> QED
  BY <1>1, MemoryCorrect, PTL

\* add_range never finds fault with a payload of a correct package.
THEOREM PlacementsPassCorrect == Spec => [](Package = "correct" => message \notin RangeTexts)
<1>1. MessageInv => (Package = "correct" => message \notin RangeTexts)
  BY DEF MessageInv
<1> QED
  BY <1>1, MemoryCorrect, PTL

\* eval_mm_valid reports nothing of a correct package but that it gave up, as
\* long as the ids of its traces have low bytes that a plain char can hold.
THEOREM CorrectPackagePassesCorrect ==
    ASSUME LowIds
    PROVE  Spec => []CorrectPackagePasses
<1>1. MessageInv => CorrectPackagePasses
  BY DEF MessageInv, CorrectPackagePasses, RangeTexts
<1> QED
  BY <1>1, MemoryCorrect, PTL

(***************************************************************************)
(* The byte counts of eval_mm_util                                         *)
(***************************************************************************)
\* One cell for every byte of the blocks in use.
Cells(sizes, used) == {c \in used \X Nat : 1 <= c[2] /\ c[2] <= sizes[c[1]]}

Counted(sizes, used, n) ==
    /\ \A id \in used : sizes[id] \in Nat
    /\ IsFiniteSet(Cells(sizes, used))
    /\ n = Cardinality(Cells(sizes, used))

LEMMA NoneCounted == ASSUME NEW sizes PROVE Counted(sizes, {}, 0)
<1>1. Cells(sizes, {}) = {}
  BY DEF Cells
<1> QED
  BY <1>1, FS_EmptySet DEF Counted

\* Only the sizes of the blocks in use count.
LEMMA CountedAgain ==
    ASSUME NEW r, NEW s, NEW used, NEW n, Counted(r, used, n), \A id \in used : s[id] = r[id]
    PROVE  Counted(s, used, n)
<1>1. Cells(s, used) = Cells(r, used)
  BY DEF Cells
<1> QED
  BY <1>1 DEF Counted

\* The cells of one block, apart from those of the others.
LEMMA CellsApart ==
    ASSUME NEW s, NEW used, NEW id, id \notin used, s[id] \in Nat
    PROVE  /\ Cells(s, used \cup {id}) = Cells(s, used) \cup ({id} \X (1 .. s[id]))
           /\ Cells(s, used) \cap ({id} \X (1 .. s[id])) = {}
           /\ IsFiniteSet({id} \X (1 .. s[id])) /\ Cardinality({id} \X (1 .. s[id])) = s[id]
<1>1. Cells(s, used) \cap ({id} \X (1 .. s[id])) = {}
  BY DEF Cells
<1>2. ASSUME NEW c \in Cells(s, used \cup {id}) PROVE c \in Cells(s, used) \cup ({id} \X (1 .. s[id]))
  <2>1. PICK x \in used \cup {id}, k \in Nat : c = <<x, k>> /\ 1 <= k /\ k <= s[x]
    BY <1>2 DEF Cells
  <2>2. CASE x \in used
    BY <2>1, <2>2 DEF Cells
  <2>3. CASE x = id
    BY <2>1, <2>3
  <2> QED
    BY <2>1, <2>2, <2>3
<1>3. ASSUME NEW c \in Cells(s, used) \cup ({id} \X (1 .. s[id])) PROVE c \in Cells(s, used \cup {id})
  BY <1>3 DEF Cells
<1>4. IsFiniteSet({id}) /\ Cardinality({id}) = 1
  BY FS_Singleton
<1>5. IsFiniteSet(1 .. s[id]) /\ Cardinality(1 .. s[id]) = s[id]
  BY FS_Interval
<1>6. /\ IsFiniteSet({id} \X (1 .. s[id]))
      /\ Cardinality({id} \X (1 .. s[id])) = Cardinality({id}) * Cardinality(1 .. s[id])
  BY <1>4, <1>5, FS_Product
<1>7. Cardinality({id} \X (1 .. s[id])) = s[id]
  BY <1>4, <1>5, <1>6
<1> QED
  BY <1>1, <1>2, <1>3, <1>6, <1>7

LEMMA CountedAdded ==
    ASSUME NEW s, NEW used, NEW n, Counted(s, used, n), NEW id, id \notin used, s[id] \in Nat
    PROVE  n \in Nat /\ Counted(s, used \cup {id}, n + s[id])
<1> DEFINE old  == Cells(s, used)
           more == {id} \X (1 .. s[id])
<1>1. /\ Cells(s, used \cup {id}) = old \cup more /\ old \cap more = {}
      /\ IsFiniteSet(more) /\ Cardinality(more) = s[id]
  BY CellsApart
<1>2. IsFiniteSet(old) /\ n = Cardinality(old)
  BY DEF Counted
<1>3. n \in Nat
  BY <1>2, FS_CardinalityType
<1> HIDE DEF old, more
<1>4. /\ IsFiniteSet(old \cup more)
      /\ Cardinality(old \cup more) = Cardinality(old) + Cardinality(more) - Cardinality(old \cap more)
  BY <1>1, <1>2, FS_Union
<1>5. Cardinality(old \cap more) = 0
  BY <1>1, FS_EmptySet
<1>6. Cardinality(old \cup more) = n + s[id]
  BY <1>1, <1>2, <1>3, <1>4, <1>5
<1>7. \A x \in used \cup {id} : s[x] \in Nat
  BY DEF Counted
<1> QED
  BY <1>1, <1>3, <1>4, <1>6, <1>7 DEF Counted

LEMMA CountedRemoved ==
    ASSUME NEW s, NEW used, NEW n, Counted(s, used, n), NEW id \in used
    PROVE  n \in Nat /\ s[id] \in Nat /\ n - s[id] \in Nat /\ Counted(s, used \ {id}, n - s[id])
<1> DEFINE rest == used \ {id}
           m    == Cardinality(Cells(s, rest))
<1>1. IsFiniteSet(Cells(s, used)) /\ n = Cardinality(Cells(s, used)) /\ n \in Nat /\ s[id] \in Nat
  BY FS_CardinalityType DEF Counted
<1>2. Cells(s, rest) \in SUBSET Cells(s, used)
  BY DEF Cells
<1>3. IsFiniteSet(Cells(s, rest)) /\ m \in Nat
  BY <1>1, <1>2, FS_Subset, FS_CardinalityType
<1>4. Counted(s, rest, m)
  BY <1>3 DEF Counted
<1>5. used = rest \cup {id} /\ id \notin rest
  OBVIOUS
<1> HIDE DEF rest, m
<1>6. Counted(s, rest \cup {id}, m + s[id])
  BY <1>1, <1>4, <1>5, CountedAdded
<1>7. n = m + s[id]
  BY <1>1, <1>5, <1>6 DEF Counted
<1>8. m = n - s[id]
  BY <1>1, <1>3, <1>7
<1> QED
  BY <1>1, <1>3, <1>4, <1>8 DEF rest

\* The cells of blocks that a correct package has handed out are as many
\* different bytes of the heap.
LEMMA CountedInHeap ==
    ASSUME NEW payloads, NEW brk \in Nat, GoodHeap(payloads, brk), NEW b, NEW s,
           NEW used, Held(payloads, b, used), Sized(payloads, b, s, used), NEW n, Counted(s, used, n)
    PROVE  n \in Nat /\ n <= brk
<1> DEFINE f == [c \in Cells(s, used) |-> b[c[1]] + c[2] - 1]
<1>1. ASSUME NEW c \in Cells(s, used)
      PROVE  /\ c[1] \in used /\ c[2] \in Nat /\ 1 <= c[2] /\ c[2] <= s[c[1]] /\ c = <<c[1], c[2]>>
             /\ \E q \in payloads : q.lo = b[c[1]] /\ q.size = s[c[1]]
  BY <1>1 DEF Cells, Sized
<1>2. ASSUME NEW c \in Cells(s, used) PROVE f[c] \in 0 .. brk - 1
  <2>1. PICK q \in payloads : q.lo = b[c[1]] /\ q.size = s[c[1]]
    BY <1>1
  <2>2. q.lo \in Nat /\ q.size \in Nat /\ q.lo + q.size <= brk
    BY DEF GoodHeap
  <2> QED
    BY <1>1, <2>1, <2>2
<1>3. ASSUME NEW c \in Cells(s, used), NEW d \in Cells(s, used), f[c] = f[d] PROVE c = d
  <2>1. PICK q \in payloads : q.lo = b[c[1]] /\ q.size = s[c[1]]
    BY <1>1
  <2>2. PICK r \in payloads : r.lo = b[d[1]] /\ r.size = s[d[1]]
    BY <1>1
  <2>3. /\ q.lo \in Nat /\ q.size \in Nat /\ r.lo \in Nat /\ r.size \in Nat
        /\ q # r => q.lo + q.size <= r.lo \/ r.lo + r.size <= q.lo
    BY DEF GoodHeap
  <2>4. q.lo + c[2] - 1 = r.lo + d[2] - 1
    BY <1>3, <2>1, <2>2
  <2>5. q = r
    BY <1>1, <2>1, <2>2, <2>3, <2>4
  <2>6. c[1] = d[1]
    BY <1>1, <2>1, <2>2, <2>5 DEF Held
  <2>7. c[2] = d[2]
    BY <1>1, <2>3, <2>4, <2>5
  <2> QED
    BY <1>1, <2>6, <2>7
<1>4. f \in Injection(Cells(s, used), 0 .. brk - 1)
  <2>1. f \in [Cells(s, used) -> 0 .. brk - 1]
    BY <1>2
  <2>2. IsInjective(f)
    BY <1>3 DEF IsInjective
  <2> QED
    BY <2>1, <2>2 DEF Injection
<1>5. IsFiniteSet(0 .. brk - 1) /\ Cardinality(0 .. brk - 1) = brk
  BY FS_Interval
<1> HIDE DEF f
<1>6. Cardinality(Cells(s, used)) <= Cardinality(0 .. brk - 1)
  BY <1>4, <1>5, FS_Injection
<1>7. n \in Nat /\ n = Cardinality(Cells(s, used))
  BY FS_CardinalityType DEF Counted
<1> QED
  BY <1>5, <1>6, <1>7

\* The bytes in use are counted right.
TotalInv ==
    /\ total_size \in Nat /\ max_total_size \in Nat
    /\ pc = "eval_mm_util" => Counted(block_sizes, InUse, total_size)

\* A request of eval_mm_util that is served.
LEMMA TotalServed ==
    ASSUME CtlInv, TotalInv, pc = "eval_mm_util", opnum < trace.num_ops,
           trace' = trace, opnum' = opnum + 1,
           \/ /\ request.type = "ALLOC" /\ Total(request.size)
              /\ block_sizes' = [block_sizes EXCEPT ![request.index] = request.size]
           \/ /\ request.type = "REALLOC" /\ Total(request.size - block_sizes[request.index])
              /\ block_sizes' = [block_sizes EXCEPT ![request.index] = request.size]
           \/ /\ request.type = "FREE" /\ UNCHANGED <<block_sizes, max_total_size>>
              /\ total_size' = total_size - block_sizes[request.index]
    PROVE  /\ TotalInv' /\ Counted(block_sizes', InUse', total_size')
           /\ max_total_size' \in {max_total_size, total_size'}
<1> DEFINE id   == request.index
           size == request.size
<1>1. /\ InUse \subseteq Indexes(trace.ops) /\ id \in Indexes(trace.ops) /\ size \in Nat
      /\ request.type = "ALLOC" => id \notin InUse
      /\ request.type # "ALLOC" => id \in InUse
      /\ InUse' = IF request.type = "FREE" THEN InUse \ {id} ELSE InUse \cup {id}
      /\ block_sizes \in [Indexes(trace.ops) -> Int]
  <2>1. pc \in Running
    BY DEF Running
  <2> QED
    BY <2>1, RequestInTurn, InUseInTurn DEF CtlInv
<1>2. Counted(block_sizes, InUse, total_size) /\ total_size \in Nat /\ max_total_size \in Nat
  BY DEF TotalInv
<1>3. ASSUME Counted(block_sizes', InUse', total_size') PROVE total_size' \in Nat
  BY <1>3, FS_CardinalityType DEF Counted
<1> HIDE DEF id, size
<1>4. ASSUME request.type # "FREE", block_sizes' = [block_sizes EXCEPT ![id] = size],
             NEW used, NEW n, Counted(block_sizes, used, n), id \notin used, used \subseteq InUse
      PROVE  n \in Nat /\ Counted(block_sizes', used \cup {id}, n + size)
  <2>1. block_sizes'[id] = size /\ \A x \in used : block_sizes'[x] = block_sizes[x]
    BY <1>1, <1>4
  <2>2. Counted(block_sizes', used, n)
    BY <1>4, <2>1, CountedAgain
  <2> QED
    BY <1>1, <1>4, <2>1, <2>2, CountedAdded
<1>5. ASSUME NEW delta \in Int, Total(delta), total_size' \in Nat
      PROVE  max_total_size' \in Nat /\ max_total_size' \in {max_total_size, total_size'}
  <2>1. PICK n \in Nat : n = total_size'
    BY <1>5
  <2>2. Max({max_total_size, n}) \in {max_total_size, n}
    <3>1. max_total_size \in Int /\ n \in Int
      BY <1>2
    <3> QED
      BY ONLY <3>1, MaxOfTwo
  <2>3. max_total_size' = Max({max_total_size, n})
    BY <1>5, <2>1 DEF Total
  <2> QED
    BY <1>2, <2>1, <2>2, <2>3
<1>6. CASE request.type = "ALLOC"
  <2>1. Total(size) /\ block_sizes' = [block_sizes EXCEPT ![id] = size]
    BY <1>6 DEF id, size
  <2>2. Counted(block_sizes', InUse \cup {id}, total_size + size)
    BY <1>1, <1>2, <1>4, <1>6, <2>1
  <2>3. Counted(block_sizes', InUse', total_size')
    BY <1>1, <1>6, <2>1, <2>2 DEF Total
  <2> QED
    BY <1>1, <1>3, <1>5, <2>1, <2>3 DEF TotalInv
<1>7. CASE request.type = "REALLOC"
  <2>1. /\ Total(size - block_sizes[id]) /\ block_sizes' = [block_sizes EXCEPT ![id] = size]
        /\ total_size' = total_size + (size - block_sizes[id])
    BY <1>7 DEF id, size, Total
  <2> DEFINE rest == total_size - block_sizes[id]
  <2>2. block_sizes[id] \in Nat /\ rest \in Nat /\ Counted(block_sizes, InUse \ {id}, rest)
    BY <1>1, <1>2, <1>7, CountedRemoved
  <2> HIDE DEF rest
  <2>3. Counted(block_sizes', (InUse \ {id}) \cup {id}, rest + size)
    BY <1>4, <1>7, <2>1, <2>2
  <2>4. InUse' = (InUse \ {id}) \cup {id} /\ total_size' = rest + size
    BY <1>1, <1>2, <1>7, <2>1, <2>2 DEF rest
  <2>5. Counted(block_sizes', InUse', total_size')
    BY ONLY <2>3, <2>4
  <2>6. size - block_sizes[id] \in Int
    BY <1>1, <2>2
  <2> QED
    BY <1>3, <1>5, <2>1, <2>5, <2>6 DEF TotalInv
<1>8. CASE request.type = "FREE"
  <2>1. UNCHANGED <<block_sizes, max_total_size>> /\ total_size' = total_size - block_sizes[id]
    BY <1>8 DEF id
  <2>2. Counted(block_sizes, InUse \ {id}, total_size - block_sizes[id])
    BY <1>1, <1>2, <1>8, CountedRemoved
  <2>3. Counted(block_sizes', InUse', total_size')
    BY <1>1, <1>8, <2>1, <2>2
  <2> QED
    BY <1>2, <1>3, <2>1, <2>3 DEF TotalInv
<1> QED
  BY <1>1, <1>6, <1>7, <1>8, RequestInTurn DEF Running

\* The requests of eval_mm_util, from their cases.
LEMMA UtilCases ==
    ASSUME UtilAlloc \/ UtilRealloc \/ UtilFree
    PROVE  /\ pc = "eval_mm_util" /\ opnum < trace.num_ops
           /\ UNCHANGED <<session, trace, mm_stats>>
           /\ \/ pc' = "abort" /\ UNCHANGED <<total_size, max_total_size>>
              \/ /\ pc' = pc /\ opnum' = opnum + 1
                 /\ \/ \E p, used : Reply(p, request.size, used)
                    \/ UNCHANGED <<mem_brk, max_total_size>>
                 /\ \/ /\ request.type = "ALLOC" /\ Total(request.size)
                       /\ block_sizes' = [block_sizes EXCEPT ![request.index] = request.size]
                    \/ /\ request.type = "REALLOC" /\ Total(request.size - block_sizes[request.index])
                       /\ block_sizes' = [block_sizes EXCEPT ![request.index] = request.size]
                    \/ /\ request.type = "FREE" /\ UNCHANGED <<block_sizes, max_total_size>>
                       /\ total_size' = total_size - block_sizes[request.index]
<1>1. CASE UtilAlloc
  BY <1>1 DEF UtilAlloc, Requested, AppError, Remember, utilvars, tracevars, mm_malloc
<1>2. CASE UtilRealloc
  BY <1>2 DEF UtilRealloc, Requested, AppError, Remember, utilvars, tracevars, mm_realloc
<1>3. CASE UtilFree
  BY <1>3 DEF UtilFree, Requested, SizeFreed, mm_free, utilvars, tracevars, blockvars
<1> QED
  BY <1>1, <1>2, <1>3

\* The other actions leave the counts alone, or set them back.
LEMMA UtilElsewhere ==
    ASSUME CtlInv, [Next]_vars, ~ (UtilAlloc \/ UtilRealloc \/ UtilFree)
    PROVE  /\ session' = session
           /\ total_size' \in {total_size, 0}
           /\ max_total_size' \in {max_total_size, 0, FREE_HEAP}
           /\ \/ pc' # "eval_mm_util"
              \/ pc' = "eval_mm_util" /\ opnum' = 0 /\ total_size' = 0 /\ max_total_size' = FREE_HEAP
              \/ UNCHANGED vars
           /\ \/ mm_stats' = mm_stats
              \/ ValidReturns \/ UtilReturns
<1>1. CASE LibcRequest
  <2>1. /\ session' = session /\ UNCHANGED <<total_size, max_total_size, mm_stats>>
        /\ pc' # "eval_mm_util"
    BY <1>1, LibcRequestCases DEF mmvars, utilvars
  <2> QED
    BY <2>1
<1>2. CASE ValidAlloc \/ ValidRealloc
  <2>1. /\ session' = session /\ UNCHANGED <<total_size, max_total_size, mm_stats>>
    BY <1>2 DEF ValidAlloc, ValidRealloc, utilvars
  <2>2. pc' # "eval_mm_util"
    BY <1>2, ValidAllocCases, ValidReallocCases
       DEF ValidAlloc, ValidRealloc, Requested, GivenUp, Dead, Served
  <2> QED
    BY <2>1, <2>2
<1>3. CASE read_trace \/ StartValid \/ ValidFree \/ LibcReplayed \/ LibcNextTrace \/ NextTrace \/ Report
  <2>1. session' = session /\ UNCHANGED <<total_size, max_total_size, mm_stats>>
    BY <1>3 DEF read_trace, StartValid, ValidFree, LibcReplayed, LibcNextTrace, NextTrace,
                Report, mmvars, utilvars
  <2>2. pc' # "eval_mm_util"
    BY <1>3 DEF read_trace, StartValid, ValidFree, LibcReplayed, LibcNextTrace, NextTrace,
                Report, Requested
  <2> QED
    BY <2>1, <2>2
<1>7. CASE StartSpeed \/ SpeedAlloc \/ SpeedRealloc \/ SpeedFree \/ SpeedReturns
  <2>1. session' = session /\ mm_stats' = mm_stats
    BY <1>7 DEF StartSpeed, SpeedAlloc, SpeedRealloc, SpeedFree, SpeedReturns
  <2>2. UNCHANGED <<total_size, max_total_size>>
    BY <1>7 DEF StartSpeed, SpeedAlloc, SpeedRealloc, SpeedFree, SpeedReturns,
                AppError, RememberAddress, utilvars
  <2>3. pc' # "eval_mm_util"
    BY <1>7 DEF StartSpeed, SpeedAlloc, SpeedRealloc, SpeedFree, SpeedReturns, Requested,
                AppError, RememberAddress
  <2> QED
    BY <2>1, <2>2, <2>3
<1>4. CASE ValidReturns \/ UtilReturns
  BY <1>4 DEF ValidReturns, UtilReturns, utilvars
<1>5. CASE StartUtil
  BY <1>5 DEF StartUtil
<1>6. CASE Ended \/ UNCHANGED vars
  BY <1>6 DEF Ended, vars, utilvars
<1> QED
  BY <1>1, <1>2, <1>3, <1>4, <1>5, <1>6, <1>7 DEF Next

LEMMA TotalStep == CtlInv /\ TotalInv /\ [Next]_vars => TotalInv'
<1> SUFFICES ASSUME CtlInv, TotalInv, [Next]_vars PROVE TotalInv'
  OBVIOUS
<1>1. CASE UtilAlloc \/ UtilRealloc \/ UtilFree
  <2>1. CASE pc' = "abort" /\ UNCHANGED <<total_size, max_total_size>>
    BY <2>1 DEF TotalInv
  <2>2. CASE pc' = pc /\ opnum' = opnum + 1
    BY <1>1, <2>2, UtilCases, TotalServed
  <2> QED
    BY <1>1, <2>1, <2>2, UtilCases
<1>2. CASE ~ (UtilAlloc \/ UtilRealloc \/ UtilFree)
  <2>1. total_size' \in Nat /\ max_total_size' \in Nat
    BY <1>2, UtilElsewhere, Constants DEF TotalInv
  <2>2. CASE pc' # "eval_mm_util"
    BY <2>1, <2>2 DEF TotalInv
  <2>3. CASE opnum' = 0 /\ total_size' = 0
    <3>1. InUse' = {}
      BY <2>3, NoneInUse DEF InUse
    <3> QED
      BY <2>1, <2>3, <3>1, NoneCounted DEF TotalInv
  <2>4. CASE UNCHANGED vars
    <3>1. UNCHANGED <<pc, block_sizes, trace, opnum, total_size>>
      BY <2>4 DEF vars, utilvars, tracevars, blockvars
    <3> QED
      BY <2>1, <3>1 DEF TotalInv, InUse, Counted
  <2> QED
    BY <1>2, <2>2, <2>3, <2>4, UtilElsewhere
<1> QED
  BY <1>1, <1>2

\* No correct package is rated above 1, and in the course of its evaluation the
\* heap or the allowance covers the high water mark.
UtilInv ==
    Package = "correct" =>
        /\ pc = "eval_mm_util" => max_total_size <= mem_brk \/ max_total_size <= FREE_HEAP
        /\ \A t \in DOMAIN mm_stats : mm_stats[t].ideal <= mm_stats[t].max

LEMMA UtilStep == PackageInv /\ TotalInv /\ UtilInv /\ [Next]_vars => UtilInv'
<1> SUFFICES ASSUME PackageInv, TotalInv, UtilInv, [Next]_vars, Package = "correct", session' = session
             PROVE  UtilInv'
  <2> SUFFICES ASSUME PackageInv, TotalInv, UtilInv, [Next]_vars PROVE UtilInv'
    OBVIOUS
  <2>1. CtlInv
    BY DEF PackageInv
  <2>2. session' = session
    BY <2>1, UtilCases, UtilElsewhere
  <2> QED
    BY <2>2 DEF UtilInv, Package
<1>1. CtlInv /\ PackageInv' /\ TotalInv'
  BY PackageInvCorrect, TotalStep DEF PackageInv
<1>2. /\ mem_brk \in Nat /\ mem_brk' \in Nat /\ FREE_HEAP \in Nat /\ max_total_size \in Nat
      /\ pc = "eval_mm_util" => max_total_size <= mem_brk \/ max_total_size <= FREE_HEAP
      /\ \A t \in DOMAIN mm_stats : mm_stats[t].ideal <= mm_stats[t].max
      /\ mm_stats \in [0 .. num_tracefiles - 1 -> Stat]
  BY <1>1, Constants DEF CtlInv, PackageInv, TotalInv, UtilInv
<1>3. CASE UtilAlloc \/ UtilRealloc \/ UtilFree
  <2>1. CASE pc' = "abort"
    BY <1>2, <1>3, <2>1, UtilCases DEF UtilInv
  <2>2. CASE pc' = pc /\ opnum' = opnum + 1
    <3>1. /\ max_total_size' \in {max_total_size, total_size'}
          /\ Counted(block_sizes', InUse', total_size')
      BY <1>1, <1>3, <2>2, UtilCases, TotalServed
    <3>2. total_size' \in Nat /\ total_size' <= mem_brk'
      <4>1. /\ GoodHeap(live', mem_brk') /\ Held(live', blocks', InUse')
            /\ Sized(live', blocks', block_sizes', InUse')
        BY <1>1, <1>3, <2>2, UtilCases DEF PackageInv, LiveInv, Replays, GoodHeap, Held, Sized, Package
      <4> QED
        BY <1>2, <3>1, <4>1, CountedInHeap
    <3>3. mem_brk' >= mem_brk
      <4>1. CASE \E p, used : Reply(p, request.size, used)
        BY <1>1, <4>1, HeapGrows DEF CtlInv
      <4>2. CASE UNCHANGED mem_brk
        BY <1>2, <4>2
      <4> QED
        BY <1>3, <2>2, <4>1, <4>2, UtilCases
    <3>4. max_total_size' <= mem_brk' \/ max_total_size' <= FREE_HEAP
      <4>1. PICK top \in Nat, total \in Nat : top = mem_brk' /\ total = total_size'
        BY <1>2, <3>2
      <4> QED
        BY <1>2, <1>3, <3>1, <3>2, <3>3, <4>1, UtilCases
    <3> QED
      BY <1>2, <1>3, <3>4, UtilCases DEF UtilInv
  <2> QED
    BY <1>3, <2>1, <2>2, UtilCases
<1>4. CASE UtilReturns
  <2>1. /\ pc = "eval_mm_util" /\ pc' # "eval_mm_util"
        /\ mm_stats' = [mm_stats EXCEPT ![tracenum].ideal = max_total_size,
                                        ![tracenum].max = Max({mem_brk, FREE_HEAP})]
    BY <1>4 DEF UtilReturns, mem_heapsize
  <2>2. Max({mem_brk, FREE_HEAP}) >= mem_brk /\ Max({mem_brk, FREE_HEAP}) >= FREE_HEAP
        /\ Max({mem_brk, FREE_HEAP}) \in Int
    <3>1. mem_brk \in Int /\ FREE_HEAP \in Int
      BY <1>2
    <3> QED
      BY ONLY <3>1, MaxOfTwo
  <2>3. max_total_size <= Max({mem_brk, FREE_HEAP})
    BY <1>2, <2>1, <2>2
  <2>4. \A t \in DOMAIN mm_stats' : mm_stats'[t].ideal <= mm_stats'[t].max
    BY <1>2, <2>1, <2>3 DEF Stat
  <2> QED
    BY <2>1, <2>4 DEF UtilInv
<1>5. CASE ~ (UtilAlloc \/ UtilRealloc \/ UtilFree \/ UtilReturns)
  <2>1. \A t \in DOMAIN mm_stats' : mm_stats'[t].ideal <= mm_stats'[t].max
    <3>1. CASE mm_stats' = mm_stats
      BY <1>2, <3>1
    <3>2. CASE ValidReturns
      BY <1>2, <3>2 DEF ValidReturns, Stat
    <3> QED
      BY <1>1, <1>5, <3>1, <3>2, UtilElsewhere
  <2>2. pc' = "eval_mm_util" => max_total_size' <= mem_brk' \/ max_total_size' <= FREE_HEAP
    <3>1. CASE max_total_size' = FREE_HEAP
      BY <1>2, <3>1
    <3>2. CASE UNCHANGED vars
      BY <1>2, <3>2 DEF vars, utilvars, memvars
    <3> QED
      BY <1>1, <1>5, <3>1, <3>2, UtilElsewhere
  <2> QED
    BY <2>1, <2>2 DEF UtilInv
<1> QED
  BY <1>3, <1>4, <1>5

LEMMA TotalCorrect == Spec => [](PackageInv /\ TotalInv /\ UtilInv)
<1>1. Init => TotalInv /\ UtilInv
  <2> SUFFICES ASSUME Init PROVE TotalInv /\ UtilInv
    OBVIOUS
  <2>1. /\ pc # "eval_mm_util" /\ total_size = 0 /\ max_total_size = 0
        /\ mm_stats = [t \in 0 .. num_tracefiles - 1 |-> [valid |-> FALSE, ideal |-> 0, max |-> 0]]
    BY DEF Init
  <2> QED
    BY <2>1 DEF TotalInv, UtilInv
<1>2. PackageInv /\ TotalInv /\ [Next]_vars => TotalInv'
  BY TotalStep DEF PackageInv
<1> QED
  BY <1>1, <1>2, PackageInvCorrect, UtilStep, PTL DEF Spec

\* eval_mm_util never rates a correct package above 1.
THEOREM UtilAtMostOneCorrect == Spec => []UtilAtMostOne
<1>1. UtilInv => UtilAtMostOne
  BY DEF UtilInv, UtilAtMostOne
<1> QED
  BY <1>1, TotalCorrect, PTL

\* Every variable of the driver has its type, whatever the package returns:
\* in particular no free or reallocation takes the byte count below zero.
THEOREM TypeCorrect == Spec => []TypeOK
<1>1. PackageInv /\ TotalInv => TypeOK
  <2> SUFFICES ASSUME PackageInv, TotalInv PROVE TypeOK
    OBVIOUS
  <2>1. \A i \in DOMAIN ranges : ranges[i].lo \in Nat /\ ranges[i].hi < MAX_HEAP
    BY RangeTypes DEF PackageInv, RangesInv
  <2>2. \A t \in DOMAIN mm_stats : mm_stats[t].valid \in BOOLEAN
    BY DEF PackageInv, CtlInv, Stat
  <2> QED
    BY <2>1, <2>2 DEF PackageInv, CtlInv, TotalInv, TypeOK, Points, Running, Between
<1> QED
  BY <1>1, TotalCorrect, PTL

=============================================================================
