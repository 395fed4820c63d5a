---------------------------- MODULE TraceDriver -----------------------------
(***************************************************************************)
(* labs/malloclab/mdriver.c: main() evaluates a malloc package on every    *)
(* trace file.  read_trace loads it; eval_mm_valid replays it and checks   *)
(* each payload the package hands out against the list of the payloads in  *)
(* use; a package that passes is replayed again by eval_mm_util, which     *)
(* measures how well the heap is used, and by eval_mm_speed, which fsecs   *)
(* calls several times.  At the end main prints a score, or the number of  *)
(* errors if there was one.  With -l it first evaluates libc's malloc in   *)
(* the same way, by eval_libc_valid and eval_libc_speed.                   *)
(*                                                                         *)
(* The driver is sequential: a step is one request of a trace, with all    *)
(* the checks the driver makes of the package's answer, or one decision of *)
(* main.  Left out: the other options, printing and the measured times.    *)
(***************************************************************************)
EXTENDS MMPackage, Sequences, SequencesExt

CONSTANTS
    Sessions,         \* what the driver may be given: records of the kind of
                      \* package, the files that may be read, [num_ids, num_ops,
                      \* ops] each, how many of them main evaluates, and the
                      \* addresses libc's malloc may return, {} without -l
    FREE_HEAP,        \* heap size that is allowed for free
    SPEED_RUNS,       \* how often fsecs calls its function, 10 in the code
    INT_MAX           \* the largest int, 2^31 - 1 in the build

ASSUME DriverAssumption ==
    /\ INT_MAX \in Nat /\ MAX_HEAP <= INT_MAX
    /\ FREE_HEAP \in Nat
    /\ SPEED_RUNS \in Nat
    /\ \A s \in Sessions :
        /\ s.package \in {"correct", "arbitrary"}
        /\ s.num_tracefiles \in Nat
        /\ s.libc \subseteq Nat
        /\ \A t \in s.files : Len(t.ops) <= t.num_ops    \* room in ops[]

\* A size is kept as %u reads it.  The int that it is stored in is negative
\* above INT_MAX; passed on as a size_t it is then more than any memory has.
Request == [type : {"ALLOC", "REALLOC", "FREE"}, index : Nat, size : 0 .. 2 * INT_MAX + 1]

PositiveInt(size) == size > 0 /\ size <= INT_MAX

\* The ids in use after the first n requests: allocated and not freed.
InUseAfter(ops, n) ==
    {ops[k].index : k \in {k \in 1 .. n :
        /\ ops[k].type # "FREE"
        /\ \A j \in k .. n : ops[j].index = ops[k].index => ops[j].type # "FREE"}}

\* The ids of a trace file stand for pointers: an
\* id is allocated before it is reallocated or freed, and not again while it is
\* in use.  The driver trusts that; on other files it reads what it never wrote.
ASSUME TraceAssumption ==
    \A s \in Sessions : \A t \in s.files :
        /\ t.num_ids \in Nat /\ t.num_ops \in Nat
        /\ t.ops \in Seq(Request)
        /\ \A n \in DOMAIN t.ops :
              IF t.ops[n].type = "ALLOC"
              THEN t.ops[n].index \notin InUseAfter(t.ops, n - 1)
              ELSE t.ops[n].index \in InUseAfter(t.ops, n - 1)

VARIABLES
    pc,               \* what runs: main or one of the eval functions
    tracenum,         \* i of main: traces evaluated so far
    trace,            \* the trace file in memory
    opnum,            \* i of the eval functions: requests replayed so far
    ranges,           \* range list, newest first: records [lo, hi]
    blocks,           \* trace->blocks
    block_sizes,      \* trace->block_sizes
    errors,           \* global count of errors
    message,          \* the last text given to malloc_error
    mm_stats,         \* [valid, ideal, max] of every trace
    total_size,       \* eval_mm_util: bytes in use
    max_total_size,   \* eval_mm_util: high water mark of total_size
    runs,             \* calls by fsecs so far
    libc              \* addresses that libc has handed out and not got back

memvars   == <<mem_brk, live, memory>>
tracevars == <<tracenum, trace>>
blockvars == <<blocks, block_sizes>>
errorvars == <<errors, message>>
utilvars  == <<total_size, max_total_size>>
vars == <<session, memvars, pc, tracevars, opnum, ranges, blockvars, errorvars,
          mm_stats, utilvars, runs, libc>>
mmvars == <<memvars, ranges, mm_stats, utilvars>>    \* untouched by libc's part

TraceFiles     == session.files
num_tracefiles == session.num_tracefiles
LibcAddresses  == session.libc

Garbage == -2    \* what an array of read_trace holds before it is written
NoTrace == [num_ids |-> 0, num_ops |-> 0, ops |-> <<>>]

\* The byte that fills the block of a request, and a byte read as plain char,
\* which is signed in the build (gcc on x86).
LowByte(index) == index % 256
Char(byte) == IF byte >= 128 THEN byte - 256 ELSE byte

Init ==
    /\ session \in Sessions
    /\ mem_init
    /\ live = {}
    /\ memory = [a \in 0 .. MAX_HEAP - 1 |-> 0]
    /\ pc = IF LibcAddresses = {} THEN "main" ELSE "main_libc"
    /\ tracenum = 0
    /\ trace = NoTrace
    /\ opnum = 0
    /\ ranges = <<>>
    /\ blocks = <<>>
    /\ block_sizes = <<>>
    /\ errors = 0
    /\ message = "none"
    /\ mm_stats = [t \in 0 .. num_tracefiles - 1 |->
                      [valid |-> FALSE, ideal |-> 0, max |-> 0]]
    /\ total_size = 0
    /\ max_total_size = 0
    /\ runs = 0
    /\ libc = {}

(***************************************************************************)
(* Range lists                                                             *)
(***************************************************************************)
\* Fault: only the low end is compared.
OverlapsAtLowEnd(lo, hi, p) == lo \in p.lo .. p.hi

\* The test of add_range between a new payload and a range p of the list.
Overlaps(lo, hi, p) == lo \in p.lo .. p.hi \/ hi \in p.lo .. p.hi

Misaligned(lo) == lo % ALIGNMENT # 0
OutsideHeap(lo, hi) == \E a \in {lo, hi} : a < mem_heap_lo \/ a > mem_heap_hi'

\* add_range: what is wrong with a payload, once the package has extended the
\* heap, and the list with the payload in front.
RangeError(list, lo, size) ==
    LET hi == lo + size - 1 IN
    IF ~PositiveInt(size) THEN "nonpositive"
    ELSE IF Misaligned(lo) THEN "not aligned"
    ELSE IF OutsideHeap(lo, hi) THEN "outside heap"
    ELSE IF \E i \in DOMAIN list : Overlaps(lo, hi, list[i]) THEN "overlap"
    ELSE "none"

add_range(list, lo, size) == <<[lo |-> lo, hi |-> lo + size - 1]>> \o list

\* Fault: the head of the list is set to the successor of the range.
RemoveRangeDropsNewer(list, lo) ==
    LET k == SelectInSeq(list, LAMBDA p : p.lo = lo) IN
    IF k = 0 THEN list ELSE SubSeq(list, k + 1, Len(list))

remove_range(list, lo) == RemoveFirstMatch(list, LAMBDA p : p.lo = lo)

\* Fault: the records of the last trace stay.
ClearRangesNot == UNCHANGED ranges

clear_ranges == ranges' = <<>>

(***************************************************************************)
(* read_trace.  The two assertions compare the header with what was read.  *)
(***************************************************************************)
Indexes(ops) == {ops[i].index : i \in DOMAIN ops}
Requests(ops) == {ops[i].index : i \in {j \in DOMAIN ops : ops[j].type # "FREE"}}

\* Fault: max_index is compared with the number of ids.
HeaderOffByOne(t) ==
    /\ Max({0} \cup Requests(t.ops)) = t.num_ids
    /\ t.num_ops = Len(t.ops)

HeaderRight(t) ==
    /\ Max({0} \cup Requests(t.ops)) = t.num_ids - 1
    /\ t.num_ops = Len(t.ops)

\* The program ends when the file cannot be opened, a line is no request or
\* memory runs out.
read_trace ==
    /\ pc \in {"main", "main_libc"}
    /\ tracenum < num_tracefiles
    /\ \/ pc' = "abort" /\ UNCHANGED <<trace, blockvars>>
       \/ /\ trace' \in TraceFiles
          /\ blocks' = [id \in Indexes(trace'.ops) |-> Garbage]
          /\ block_sizes' = [id \in Indexes(trace'.ops) |-> Garbage]
          /\ pc' = IF ~HeaderRight(trace') THEN "assert"
                   ELSE IF pc = "main" THEN "start_valid" ELSE "eval_libc_valid"
    /\ UNCHANGED <<session, mmvars, tracenum, opnum, errorvars, runs, libc>>

(***************************************************************************)
(* eval_mm_valid                                                           *)
(***************************************************************************)
request == trace.ops[opnum + 1]
Requested(function, type) ==
    pc = function /\ opnum < trace.num_ops /\ request.type = type

Remember(p) ==
    /\ blocks' = [blocks EXCEPT ![request.index] = p]
    /\ block_sizes' = [block_sizes EXCEPT ![request.index] = request.size]
    /\ opnum' = opnum + 1

\* Fault: the message is printed, the error is not counted.
MallocErrorUncounted(text) == message' = text /\ UNCHANGED errors

malloc_error(text) == errors' = errors + 1 /\ message' = text

\* free_trace, and i++ in main.
LeaveTrace ==
    /\ trace' = NoTrace
    /\ blocks' = <<>>
    /\ block_sizes' = <<>>
    /\ tracenum' = tracenum + 1

\* eval_mm_valid returns 0.
Invalid(text) ==
    malloc_error(text) /\ LeaveTrace /\ pc' = "main" /\ opnum' = 0

\* A payload that add_range does not take; it asserts that the size is positive.
Refused(wrong) ==
    \/ wrong # "nonpositive" /\ Invalid(wrong)
    \/ /\ wrong = "nonpositive"
       /\ pc' = "assert"
       /\ UNCHANGED <<tracevars, blockvars, opnum, errorvars>>

\* Fault: the last byte is not filled.
FilledShort(bytes, p) ==
    [a \in DOMAIN bytes |-> IF a \in Bytes(p, request.size - 1)
                            THEN LowByte(request.index) ELSE bytes[a]]

\* memory once the payload at p holds the low byte of the request's id.
Filled(bytes, p) ==
    [a \in DOMAIN bytes |-> IF a \in Bytes(p, request.size)
                            THEN LowByte(request.index) ELSE bytes[a]]

StartValid ==
    /\ pc = "start_valid"
    /\ clear_ranges
    /\ opnum' = 0
    /\ \/ /\ mm_init(0)
          /\ pc' = "eval_mm_valid"
          /\ UNCHANGED <<tracevars, blockvars, errorvars>>
       \/ mm_init(-1) /\ malloc_error("mm_init failed") /\ LeaveTrace /\ pc' = "main"
    /\ UNCHANGED <<session, memory, mm_stats, utilvars, runs, libc>>

ValidAlloc ==
    /\ Requested("eval_mm_valid", "ALLOC")
    /\ \E p \in Addresses \cup {NULL} :
        /\ mm_malloc(request.size, p)
        /\ IF p = NULL
           THEN Invalid("mm_malloc failed") /\ UNCHANGED <<ranges, memory>>
           ELSE LET wrong == RangeError(ranges, p, request.size) IN
                \/ wrong # "none" /\ Refused(wrong) /\ UNCHANGED <<ranges, memory>>
                \/ /\ wrong = "none"
                   /\ ranges' = add_range(ranges, p, request.size)
                   /\ memory' = Filled(memory, p)
                   /\ Remember(p)
                   /\ UNCHANGED <<pc, tracevars, errorvars>>
    /\ UNCHANGED <<session, mm_stats, utilvars, runs, libc>>

\* The first min(old size, new size) bytes are compared as plain chars.
DataLost(bytes, p, oldsize) ==
    \E j \in 0 .. oldsize - 1 :
        j < request.size /\ Char(bytes[p + j]) # LowByte(request.index)

ValidRealloc ==
    /\ Requested("eval_mm_valid", "REALLOC")
    /\ LET oldp    == blocks[request.index]
           oldsize == block_sizes[request.index]
           others  == remove_range(ranges, oldp)
       IN \E newp \in Addresses \cup {NULL} :
            /\ mm_realloc(oldp, request.size, newp)
            /\ IF newp = NULL
               THEN Invalid("mm_realloc failed") /\ UNCHANGED <<ranges, memory>>
               ELSE \E bytes \in ReallocMemory(oldp, newp, request.size) :
                    LET wrong == RangeError(others, newp, request.size) IN
                    \/ wrong # "none" /\ Refused(wrong) /\ ranges' = others
                       /\ memory' = bytes
                    \/ /\ wrong = "none"
                       /\ ranges' = add_range(others, newp, request.size)
                       /\ IF DataLost(bytes, newp, oldsize)
                          THEN Invalid("data not preserved") /\ memory' = bytes
                          ELSE /\ memory' = Filled(bytes, newp)
                               /\ Remember(newp)
                               /\ UNCHANGED <<pc, tracevars, errorvars>>
    /\ UNCHANGED <<session, mm_stats, utilvars, runs, libc>>

ValidFree ==
    /\ Requested("eval_mm_valid", "FREE")
    /\ ranges' = remove_range(ranges, blocks[request.index])
    /\ mm_free(blocks[request.index])
    /\ opnum' = opnum + 1
    /\ UNCHANGED <<session, memory, pc, tracevars, blockvars, errorvars, mm_stats,
                   utilvars, runs, libc>>

\* return 1, and main records it and calls eval_mm_util.
ValidReturns ==
    /\ pc = "eval_mm_valid"
    /\ opnum = trace.num_ops
    /\ mm_stats' = [mm_stats EXCEPT ![tracenum].valid = TRUE]
    /\ pc' = "start_util"
    /\ opnum' = 0
    /\ UNCHANGED <<session, memvars, tracevars, ranges, blockvars, errorvars,
                   utilvars, runs, libc>>

(***************************************************************************)
(* eval_mm_util.  It makes no check but for NULL: app_error ends the       *)
(* program.                                                                *)
(***************************************************************************)
AppError == pc' = "abort" /\ UNCHANGED <<opnum, blockvars, utilvars>>

\* Fault: the sign of the change is turned.
TotalTurned(delta) ==
    /\ total_size' = total_size - delta
    /\ max_total_size' = Max({max_total_size, total_size'})

\* The bytes in use change by delta, and the high water mark follows.
Total(delta) ==
    /\ total_size' = total_size + delta
    /\ max_total_size' = Max({max_total_size, total_size'})

StartUtil ==
    /\ pc = "start_util"
    /\ opnum' = 0
    /\ total_size' = 0
    /\ max_total_size' = FREE_HEAP
    /\ \/ mm_init(0) /\ pc' = "eval_mm_util"
       \/ mm_init(-1) /\ pc' = "abort"
    /\ UNCHANGED <<session, memory, tracevars, ranges, blockvars, errorvars,
                   mm_stats, runs, libc>>

UtilAlloc ==
    /\ Requested("eval_mm_util", "ALLOC")
    /\ \E p \in Addresses \cup {NULL} :
        /\ mm_malloc(request.size, p)
        /\ \/ p = NULL /\ AppError
           \/ p # NULL /\ Remember(p) /\ Total(request.size) /\ pc' = pc
    /\ UNCHANGED <<session, memory, tracevars, ranges, errorvars, mm_stats, runs, libc>>

UtilRealloc ==
    /\ Requested("eval_mm_util", "REALLOC")
    /\ LET oldp    == blocks[request.index]
           oldsize == block_sizes[request.index]
       IN \E newp \in Addresses \cup {NULL} :
            /\ mm_realloc(oldp, request.size, newp)
            /\ \/ newp = NULL /\ AppError /\ UNCHANGED memory
               \/ /\ newp # NULL
                  /\ memory' \in ReallocMemory(oldp, newp, request.size)
                  /\ Remember(newp)
                  /\ Total(request.size - oldsize)
                  /\ pc' = pc
    /\ UNCHANGED <<session, tracevars, ranges, errorvars, mm_stats, runs, libc>>

\* Fault: a free takes nothing off.
NoneFreed == 0

SizeFreed == block_sizes[request.index]

UtilFree ==
    /\ Requested("eval_mm_util", "FREE")
    /\ mm_free(blocks[request.index])
    /\ total_size' = total_size - SizeFreed
    /\ opnum' = opnum + 1
    /\ UNCHANGED <<session, memory, pc, tracevars, ranges, blockvars, errorvars,
                   mm_stats, max_total_size, runs, libc>>

UtilReturns ==
    /\ pc = "eval_mm_util"
    /\ opnum = trace.num_ops
    /\ mm_stats' = [mm_stats EXCEPT
                      ![tracenum].ideal = max_total_size,
                      ![tracenum].max = Max({mem_heapsize, FREE_HEAP})]
    /\ pc' = "fsecs"
    /\ runs' = 0
    /\ opnum' = 0
    /\ total_size' = 0
    /\ max_total_size' = 0
    /\ UNCHANGED <<session, memvars, tracevars, ranges, blockvars, errorvars, libc>>

(***************************************************************************)
(* fsecs, with the timer the build uses, and eval_mm_speed.                *)
(***************************************************************************)
StartSpeed ==
    /\ pc = "fsecs"
    /\ runs < SPEED_RUNS
    /\ opnum' = 0
    /\ \/ mm_init(0) /\ pc' = "eval_mm_speed"
       \/ mm_init(-1) /\ pc' = "abort"
    /\ UNCHANGED <<session, memory, tracevars, ranges, blockvars, errorvars, mm_stats,
                   utilvars, runs, libc>>

\* Fault: the address is forgotten.
AddressForgotten(p) ==
    /\ opnum' = opnum + 1
    /\ UNCHANGED <<pc, blockvars, utilvars>>

RememberAddress(p) ==
    /\ blocks' = [blocks EXCEPT ![request.index] = p]
    /\ opnum' = opnum + 1
    /\ UNCHANGED <<pc, block_sizes, utilvars>>

SpeedAlloc ==
    /\ Requested("eval_mm_speed", "ALLOC")
    /\ \E p \in Addresses \cup {NULL} :
        /\ mm_malloc(request.size, p)
        /\ \/ p = NULL /\ AppError
           \/ p # NULL /\ RememberAddress(p)
    /\ UNCHANGED <<session, memory, tracevars, ranges, errorvars, mm_stats, runs, libc>>

SpeedRealloc ==
    /\ Requested("eval_mm_speed", "REALLOC")
    /\ LET oldp == blocks[request.index] IN
       \E newp \in Addresses \cup {NULL} :
            /\ mm_realloc(oldp, request.size, newp)
            /\ \/ newp = NULL /\ AppError /\ UNCHANGED memory
               \/ /\ newp # NULL
                  /\ memory' \in ReallocMemory(oldp, newp, request.size)
                  /\ RememberAddress(newp)
    /\ UNCHANGED <<session, tracevars, ranges, errorvars, mm_stats, runs, libc>>

SpeedFree ==
    /\ Requested("eval_mm_speed", "FREE")
    /\ mm_free(blocks[request.index])
    /\ opnum' = opnum + 1
    /\ UNCHANGED <<session, memory, pc, tracevars, ranges, blockvars, errorvars,
                   mm_stats, utilvars, runs, libc>>

SpeedReturns ==
    /\ pc = "eval_mm_speed"
    /\ opnum = trace.num_ops
    /\ runs' = runs + 1
    /\ opnum' = 0
    /\ pc' = "fsecs"
    /\ UNCHANGED <<session, memvars, tracevars, ranges, blockvars, errorvars,
                   mm_stats, utilvars, libc>>

(***************************************************************************)
(* The evaluation of libc's malloc: eval_libc_valid and eval_libc_speed    *)
(* replay the trace alike and end the program when a call fails.  libc     *)
(* hands out an address that is not in use, the smallest one here.         *)
(***************************************************************************)
LibcFails ==
    /\ pc' = "abort"
    /\ \/ pc = "eval_libc_valid" /\ malloc_error("libc failed")
       \/ pc = "eval_libc_speed" /\ UNCHANGED errorvars
    /\ UNCHANGED <<opnum, blocks, libc>>

LibcReturns(others) ==
    /\ request.size <= INT_MAX
    /\ others # LibcAddresses
    /\ blocks' = [blocks EXCEPT ![request.index] = Min(LibcAddresses \ others)]
    /\ libc' = others \cup {blocks'[request.index]}
    /\ opnum' = opnum + 1
    /\ UNCHANGED <<pc, errorvars>>

LibcRequest ==
    /\ \E function \in {"eval_libc_valid", "eval_libc_speed"} :
        \/ Requested(function, "ALLOC") /\ (LibcFails \/ LibcReturns(libc))
        \/ /\ Requested(function, "REALLOC")
           /\ LibcFails \/ LibcReturns(libc \ {blocks[request.index]})
        \/ /\ Requested(function, "FREE")
           /\ libc' = libc \ {blocks[request.index]}
           /\ opnum' = opnum + 1
           /\ UNCHANGED <<pc, blocks, errorvars>>
    /\ UNCHANGED <<session, mmvars, tracevars, block_sizes, runs>>

\* eval_libc_valid returns 1, or fsecs has got another run.
LibcReplayed ==
    /\ pc \in {"eval_libc_valid", "eval_libc_speed"}
    /\ opnum = trace.num_ops
    /\ runs' = IF pc = "eval_libc_valid" THEN 0 ELSE runs + 1
    /\ opnum' = 0
    /\ pc' = IF runs' < SPEED_RUNS THEN "eval_libc_speed" ELSE "libc_done"
    /\ UNCHANGED <<session, mmvars, tracevars, blockvars, errorvars, libc>>

\* The next trace, or the evaluation of the mm package; nobody looks at the
\* blocks that libc has not got back then.
LibcNextTrace ==
    /\ \/ pc = "libc_done" /\ LeaveTrace /\ pc' = "main_libc" /\ UNCHANGED libc
       \/ /\ pc = "main_libc"
          /\ tracenum = num_tracefiles
          /\ tracenum' = 0
          /\ libc' = {}
          /\ pc' = "main"
          /\ UNCHANGED <<trace, blockvars>>
    /\ runs' = 0
    /\ UNCHANGED <<session, mmvars, opnum, errorvars>>

(***************************************************************************)
(* main                                                                    *)
(***************************************************************************)
NextTrace ==
    /\ pc = "fsecs"
    /\ runs = SPEED_RUNS
    /\ LeaveTrace
    /\ pc' = "main"
    /\ runs' = 0
    /\ UNCHANGED <<session, memvars, opnum, ranges, errorvars, mm_stats,
                   utilvars, libc>>

\* After the last trace: the score, or "Terminated with %d errors".
Report ==
    /\ pc = "main"
    /\ tracenum = num_tracefiles
    /\ pc' = IF errors = 0 THEN "score" ELSE "terminated"
    /\ UNCHANGED <<session, memvars, tracevars, opnum, ranges, blockvars, errorvars,
                   mm_stats, utilvars, runs, libc>>

Ended == pc \in {"score", "terminated", "abort", "assert"} /\ UNCHANGED vars

Next ==
    \/ read_trace
    \/ StartValid \/ ValidAlloc \/ ValidRealloc \/ ValidFree \/ ValidReturns
    \/ StartUtil \/ UtilAlloc \/ UtilRealloc \/ UtilFree \/ UtilReturns
    \/ StartSpeed \/ SpeedAlloc \/ SpeedRealloc \/ SpeedFree \/ SpeedReturns
    \/ LibcRequest \/ LibcReplayed \/ LibcNextTrace
    \/ NextTrace \/ Report
    \/ Ended

Spec == Init /\ [][Next]_vars

(***************************************************************************)
(* Properties                                                              *)
(***************************************************************************)
Texts == {"mm_init failed", "mm_malloc failed", "mm_realloc failed",
          "not aligned", "outside heap", "overlap", "data not preserved",
          "libc failed"}

\* Every variable has its type; the indexes of the traces and of the requests
\* stay within their arrays and the byte counts of eval_mm_util never negative.
TypeOK ==
    /\ pc \in {"main", "start_valid", "eval_mm_valid", "start_util",
               "eval_mm_util", "fsecs", "eval_mm_speed", "main_libc",
               "eval_libc_valid", "eval_libc_speed", "libc_done", "score",
               "terminated", "abort", "assert"}
    /\ tracenum \in 0 .. num_tracefiles
    /\ opnum \in 0 .. trace.num_ops
    /\ mem_brk \in 0 .. MAX_HEAP
    /\ \A i \in DOMAIN ranges : ranges[i].lo \in Nat /\ ranges[i].hi < MAX_HEAP
    /\ DOMAIN blocks = Indexes(trace.ops) /\ DOMAIN block_sizes = DOMAIN blocks
    /\ errors \in Nat
    /\ message \in Texts \cup {"none"}
    /\ \A t \in DOMAIN mm_stats : mm_stats[t].valid \in BOOLEAN
    /\ total_size \in Nat
    /\ max_total_size \in Nat
    /\ runs \in 0 .. SPEED_RUNS
    /\ libc \subseteq LibcAddresses

\* The ids in use at this point of the replay.
InUse == InUseAfter(trace.ops, opnum)

\* A trace file in the format that the README of the traces describes.
InFormat(t) ==
    /\ t.ops # <<>>
    /\ Indexes(t.ops) = 0 .. t.num_ids - 1
    /\ t.num_ops = Len(t.ops)
    /\ \A k \in DOMAIN t.ops : t.ops[k].type # "FREE" => t.ops[k].size > 0

\* On a trace in the format of the README the assertions of read_trace and
\* add_range end the driver only for a size that is negative as an int, and
\* only if the package is at fault and answers the huge size_t it is asked for
\* by an address.  They do end it on an empty trace, and on one that asks for
\* no bytes, as gen_random.pl's may, even if the package is correct.
AssertsOnlyOffFormat ==
    (pc = "assert" /\ InFormat(trace)) =>
        /\ Package # "correct"
        /\ request.type # "FREE" /\ request.size > INT_MAX

\* While eval_mm_valid replays a trace, the range list has exactly one range
\* for every block in use, the one of its current address and size: whatever
\* the package returns, remove_range, which goes by the low address only, never
\* takes the range of another block.
RangesExact ==
    pc = "eval_mm_valid" =>
        /\ Len(ranges) = Cardinality(InUse)
        /\ ToSet(ranges) = {[lo |-> blocks[id], hi |-> blocks[id] + block_sizes[id] - 1] :
                              id \in InUse}

\* Two payloads that the driver let pass are disjoint, or the newer one holds
\* the older one strictly inside at both ends: no other overlap gets past the
\* comparison of end points in add_range.
OverlapsNest ==
    \A j \in DOMAIN ranges : \A i \in 1 .. j - 1 :
        \/ ranges[i].hi < ranges[j].lo
        \/ ranges[j].hi < ranges[i].lo
        \/ ranges[i].lo < ranges[j].lo /\ ranges[j].hi < ranges[i].hi

\* The comment in add_range: the payload must not overlap any other payloads.
NoOverlap ==
    \A j \in DOMAIN ranges : \A i \in 1 .. j - 1 :
        ranges[i].hi < ranges[j].lo \/ ranges[j].hi < ranges[i].lo

\* A correct package is never told that a payload was misplaced or its data
\* lost; all the driver may report of it is that it gave up.
CorrectPackagePasses ==
    Package = "correct" =>
        message \notin {"not aligned", "outside heap", "overlap", "data not preserved"}

\* The comment in eval_mm_valid: the data check of mm_realloc makes sure that
\* the new block contains the data from the old block.  A package that keeps
\* the data is not reported.
PreservedDataPasses ==
    Package = "correct" => message # "data not preserved"

\* With a correct package every block in use holds the low byte of its id in
\* all its bytes, so that the data check of a later mm_realloc compares what
\* the driver wrote there.
BlocksFilled ==
    (Package = "correct" /\ pc = "eval_mm_valid") =>
        \A id \in InUse : \A a \in Bytes(blocks[id], block_sizes[id]) :
            memory[a] = LowByte(id)

\* While the mm package is evaluated one error is counted for every trace that
\* is not valid, so that main prints a score exactly when every trace was found
\* valid; the evaluation of libc's malloc leaves none behind.
ErrorsMatchVerdicts ==
    /\ pc \notin {"main_libc", "eval_libc_valid", "eval_libc_speed", "libc_done",
                   "abort", "assert"} =>
          errors = Cardinality({t \in 0 .. tracenum - 1 : ~mm_stats[t].valid})
    /\ pc = "score" => \A t \in DOMAIN mm_stats : mm_stats[t].valid
    /\ pc = "terminated" => \E t \in DOMAIN mm_stats : ~mm_stats[t].valid

\* eval_mm_util never rates a correct package above 1: the high water mark of
\* the bytes requested is at most the heap the package has grown to.
UtilAtMostOne ==
    Package = "correct" =>
        \A t \in DOMAIN mm_stats : mm_stats[t].ideal <= mm_stats[t].max

\* Each of the five replays frees and reallocates only what the package has
\* handed out in this very replay, although blocks[] still holds the addresses
\* of the one before.
NoStaleAddress ==
    (opnum < trace.num_ops /\ request.type # "ALLOC") =>
        /\ (Package = "correct" /\ pc \in {"eval_mm_valid", "eval_mm_util", "eval_mm_speed"})
              => \E b \in live : b.lo = blocks[request.index]
        /\ pc \in {"eval_libc_valid", "eval_libc_speed"}
              => blocks[request.index] \in libc

=============================================================================
