# TLA+ models of the CS33 labs

The repository holds the labs of a systems course in C: a threading lab, a
malloc lab with its test driver, a data lab with its test harness, and lecture
notes. This directory holds TLA+ modules that model these programs, TLC
configurations that check them on small instances, and proofs that TLAPS checks
for every value of the constants.

Paths below are relative to `src/labs/`.

## 1. The system

| part | state it keeps | operations | what is hard |
|---|---|---|---|
| **threadlab** `threadlab-handout/thread.c`, `util.c` | `data[]`, `bucket[]`, `global_histogram[]`, semaphores `mutex` and `locks[]`, per thread a loop index, a register, a local histogram | `run_threads`, kernels `histo_0` … `histo_4`, `printHistogram` | eight threads on one array; a non-atomic increment; `pthread_create` and `pthread_join` whose results are ignored; semaphores handed from kernel to kernel |
| **malloc driver** `malloclab/mdriver.c` | the trace, the range list, `blocks[]`, `block_sizes[]`, `errors`, the statistics | `read_trace`, `eval_mm_valid`, `eval_mm_util`, `eval_mm_speed`, the same for libc, `main` | checks a package it knows nothing about; state of one replay or one trace is still there in the next; returns in the middle of a trace |
| **memory system** `malloclab/memlib.c` | the break | `mem_init`, `mem_reset_brk`, `mem_sbrk`, `mem_heap_lo/hi`, `mem_heapsize` | the limit of the heap |
| **allocator** `malloclab/mm.c` | an explicit free list inside the heap | `mm_init`, `mm_malloc`, `mm_free`, `mm_realloc`, coalescing | pointers in raw memory; boundary tags |
| **K-best scheme** `malloclab/fcyc.c` | `values[]`, `samplecount` | `init_sampler`, `add_sample`, `has_converged`, `fcyc` | sorted insertion with eviction, termination |
| **clocks** `malloclab/clock.c`, `fsecs.c`, `ftimer.c` | the last counter value, the cost of a timer tick | `start_counter`, `get_counter`, `callibrate`, `start_comp_counter`, `get_comp_counter`, `fsecs` | 64-bit differences in two words; two clocks read one after the other while interrupts go on |
| **trace checker** `malloclab/traces/checktrace.pl` | `%HASH`, `@lines` | one pass over the input, summary, balanced output | legal and illegal orders of requests |
| **trace generators** `malloclab/traces/gen_*.pl` | a list of requests | print a trace | the driver and `checktrace.pl` must accept what they print; random sizes and places |
| **test harness** `datalab-handout/btest.c` | scores, `envbuf`, the pending alarm, `arg_test_vals` | `run_tests`, `test_function`, `gen_vals`, `timeout_handler` | a signal at any moment, and a jump into a frame that may be gone |
| **puzzles** `datalab-handout/bits.c`, `tests.c` | – | 8 pure functions and their references | bit arithmetic, overflow |
| **grading and viewing** `driver.pl`, `Driverlib.pm`, `fshow.c`, `ishow.c`, `dlc` | – | run the tools, print | – |
| **notes** `src/notes` | – | – | text |

How they interact. The three labs are separate programs. In the malloc lab
`main` calls `read_trace`, then the three evaluations; these call the package
through `mm.h` and the memory system through `memlib.h`; the package calls
`mem_sbrk`; `fsecs` calls `eval_mm_speed` several times, through
`ftimer_gettod` (the build) or `fcyc`. The trace files they read are made by the
generators and by `checktrace.pl`. In the data lab `run_tests` calls
`test_function`, which calls a solution and its reference; the signal handler
jumps into it.

What makes each part correct:

- threadlab: no increment lost, the result independent of the interleaving, a
  verdict that is right, no wait for ever, semaphores that every kernel leaves free;
- malloc driver: no false alarm, no overlap undetected, a count of errors that
  matches the verdicts, no use of an address of an earlier replay;
- allocator: `mm_init` leaves a heap whose list and boundary tags agree;
- K-best: the k smallest of all samples, a bounded number of samples, a result
  within epsilon when it says so;
- clocks: an exact cycle count, an estimate of the tick within the costs of
  ticks, and measurements that are off by no more than the ticks explain;
- trace checker and generators: the checker refuses exactly what is illegal and
  prints a legal and balanced trace; generated traces pass it and the driver;
- test harness: points for right solutions only, an end in spite of endless
  loops, no timeout charged to the wrong puzzle;
- puzzles: every solution equals its reference for every argument.

The hazards, each at its line, are listed in `PROJECT.json`.

## 2. Modules

| module | models | extends |
|---|---|---|
| `ThreadLab` | `run_threads` and the kernels | – |
| `Histogram` | what the threadlab promises, without threads | – |
| `ThreadLabRefinement` | the refinement mapping from `ThreadLab` to `Histogram` | `ThreadLab` |
| `MCThreadLab` | instance for TLC | `ThreadLab` |
| `ThreadLabProofs` | proofs | `ThreadLab`, `TLAPS` |
| `ThreadLabRefinementProofs` | proofs: the verdict, the refinement | `ThreadLabRefinement`, `ThreadLabProofs` |
| `MemLib` | `memlib.c` | – |
| `MMHeap` | `mm_init` of `mm.c` and what it calls, in words | `MemLib` |
| `MMPackage` | the package under test, as an environment | `MemLib` |
| `TraceDriver` | `mdriver.c` | `MMPackage` |
| `MCTraceDriver` | sessions of the driver for TLC, some with generated files | `TraceDriver` |
| `TraceDriverProofs` | proofs | `TraceDriver`, `TLAPS` |
| `TraceGenerators` | `gen_*.pl` | – |
| `CheckTrace` | `checktrace.pl`, on typed and on generated input | `TraceGenerators` |
| `MCCheckTrace` | generated traces for TLC | `CheckTrace` |
| `CheckTraceProofs` | proofs | `CheckTrace`, `TLAPS` |
| `Sampler` | `fcyc.c` | – |
| `FunctionTimer` | `fcyc.c` on the cycle counters of `clock.c` | `Sampler` |
| `MCFunctionTimer` | instance for TLC | `FunctionTimer` |
| `SamplerProofs` | proofs | `Sampler`, `TLAPS` |
| `FunctionTimerProofs` | proofs | `FunctionTimer`, `SamplerProofs` |
| `TestHarness` | `btest.c` | – |
| `MCTestHarness` | puzzles for TLC | `TestHarness` |
| `TestHarnessProofs` | proofs | `TestHarness`, `TLAPS` |
| `BitPuzzles` | `bits.c` and `tests.c` | – |
| `MCBitPuzzles` | words for TLC | `BitPuzzles` |
| `BitPuzzlesProofs` | proofs | `BitPuzzles`, `TLAPS` |

Definitions whose comment begins with "Fault:" are deliberate mistakes. Each
stands in front of the definition it is a wrong version of; with it in its
place some property must fail (`PROJECT.json`, "mutants"). No specification
uses them.

### ThreadLab

A step is one shared-memory access, one semaphore operation or one turn of a
loop of the main thread. `global_histogram[x]++` is the two actions `Load` and
`Store`, `__sync_fetch_and_add` the one action `FetchAndAdd`. `mainpc` is where
`run_threads` is, `pc[t]` where thread `t` is; `pc[t] = "none"` is a thread that
was not created (or not yet). `sem_wait` is a guarded decrement, `sem_post` an
increment.

`locks[]` is declared as `pthread_mutex_t` and used as `sem_t`. The model takes
it as the semaphore that `sem_init` makes of it: `sizeof(pthread_mutex_t)` is at
least `sizeof(sem_t)` in glibc.

`pthread_create` may fail when `CREATE_CAN_FAIL` is set. The code ignores that
and joins an identifier that was never written or belongs to a thread long
gone. `JoinStale` is this undefined call: it returns at once, it joins another
thread that has the identifier now, it never returns (`mainpc = "hung"`, while
the threads go on), or the process dies. So `run_threads` may hang after a
failed `pthread_create`, and `OnlyStaleJoinHangs` shows that it hangs in no
other way: if main stays in a join for ever, a thread of this kernel was not
created, the join is of that thread or of one joined in its place, and every
thread there is has returned with all semaphores given back.

The local counts of `histo_4` are counted for a group of four items in one
step, since no other thread sees them.

### MemLib, MMPackage, TraceDriver

The package the driver is linked with is not known, so `MMPackage` is an
environment. In a session with `package = "correct"` it hands out aligned payloads inside
the heap, disjoint from those in use, and `mm_realloc` keeps the data; with
`"arbitrary"` any address of `Addresses` may come back and the data may be
lost. Either may give up. The file `mm.c` of the repository is not this
environment (see `MMHeap`).

A session is one call of the driver: the package, the files it is given, and
the addresses libc's `malloc` may return. `Sessions` holds those that are
checked, and each initial state takes one of them.

`TraceDriver` has one action per request and replay (`ValidAlloc`,
`UtilRealloc`, `SpeedFree`, …), which contains the call of the package and all
the checks of its answer, and actions for `main`. Between traces the heap, the
range list and `mm_stats` stay, as in the code; `blocks[]` and `block_sizes[]`
of a trace stay from one replay to the next. `memory` holds every byte of the
heap, because the driver writes and compares them. `mem_sbrk` answers the old break,
or -1 when the request is negative or goes beyond the area; the package may try
it once in every call.

A session whose `libc` is not empty is one with `-l`: `LibcRequest`,
`LibcReplayed` and `LibcNextTrace` are the evaluation of libc's `malloc` before
that of the package, `libc` the addresses it has handed out. Only whether an
address is in use matters there, so `malloc` takes the smallest free one.

`pc = "abort"` is `app_error`, `unix_error` or the `exit` of `read_trace` (a file that
cannot be opened, a line that is no request), `pc = "assert"` a failed `assert`: of
`read_trace`, whose count of ids must match the largest one, and of `add_range`,
which asserts that a size is positive. Neither is checked of a file before, and
`gen_random.pl` may draw a size of 0.

A size is read with `%u` and stored in an `int`. The model keeps what `%u` read, 0 to
`2 * INT_MAX + 1`; above `INT_MAX` it stands for a negative `int`, which is not positive in
`add_range` (`PositiveInt`), and for the huge `size_t` that the package and libc are
asked for. Neither a correct package nor libc has that much; an arbitrary package
may answer an address, and then the assertion fails on a file that is in the
format of the traces' README. `AssertsOnlyOffFormat` says that there is no other such
case: on a file in the format only a size that no `int` holds, and only a package
at fault, end the driver by an assertion.

### MMHeap

`mm.c` does not compile (a stray `d` at line 121). Without that token `mm_init`
compiles and is modelled store by store: `mem` holds the words of the area, a
pointer is a pair of words as in the 64-bit build the Makefile makes, list
fields are read and written through the same eight bytes as in the source, and an
access to an address outside the area is the fault. `mm_checkheap` walks the
blocks (`CheckBlock`, `CheckEnds`) and records whether it would complain.
`exp_coalesce` chooses among its four cases, `coalesce_helper` takes a block off
the list, `Merge` writes the boundary tags, `Insert` puts the block in front.
There is one behaviour, and it ends in `coalesce_helper`; the cases that are not
reached are there because the code has them.

### TraceGenerators

Each script is an operator that returns the trace it prints: the header and the
sequence of requests. The draws of `gen_random.pl` are sets: its operator returns
all the traces it may print. `gen_binary2.pl` and `gen_realloc2.pl` are the same
scripts with other numbers.

### CheckTrace

Input comes from the keyboard, line by line, or is one of `Generated`. One
action per turn of the reading loop, `Summary` and `PrintRequests` at the
end of the input, one `PrintFree` per missing free. Lines may begin with
anything in `Commands`. `Rejected` keeps the effect of `!$HASH{$id} eq "f"`,
which Perl reads as `(!$HASH{$id}) eq "f"` and which never succeeds.

### Sampler

`Measure` takes a measurement and places it, `Swap` is one turn of the
insertion loop, `MeasureAgain` and `Return` are the test at the end of `fcyc`'s
loop. `samples` is the array the code keeps under `KEEP_SAMPLES`; it lets the
properties speak of all the measurements. Epsilon is a fraction of integers, so
that the comparison is exact.

### FunctionTimer

The measurements of `Sampler` come from the x86 counter of `clock.c`. `tsc` is
the counter of the processor, two words of `WORD` values each; `cyc_hi` and
`cyc_lo` are what `start_counter` has stored, and `get_counter` subtracts word by
word with the borrow of the code. Cycles pass in the turns of `callibrate`'s loop
and in the function measured (`Pass`). `Tick` is a timer interrupt: it may come
before any step, `MinPeriod` to `MaxPeriod` cycles of the program after the one
before, takes one of `TickCosts` cycles, and adds one to `tms_utime` unless it
hits the system, in a call of `times()` or in a fault of the function measured
(`InSystem`). `callibrate` is six actions, one for each reading
of a clock and the code after it, `start_comp_counter` and `get_comp_counter` two
each, so that a tick can fall between any two readings. `ticks` is the
difference of `tms_utime` to the reading that was saved, `elapsed` counts the
cycles since `start_counter`, `own` those of them the function took itself and
`lost` those of the interrupts it met that `ticks` does not count; the properties
compare the code's numbers with these. `get_counter` gives a `double`, which
rounds counts of 2^53 and more (weeks); the model's are exact.

The build takes `ftimer_gettod` (`config.h`) and is for 64 bits, where
`__i386__` is not defined and `clock.c` compiles to its third branch, which exits
with a message; `FunctionTimer` models the branch for x86, which a 32-bit build
with `USE_FCYC` runs.

### TestHarness

A step is one argument's values, one of `sigsetjmp` and `alarm`, one tested
combination, or one decision of `run_tests`. SIGALRM (`timeout_handler`) may
arrive between any two steps once `alarm` was called: `alarm()` is never
cancelled. A solution that does not return is the stuttering action `Hang`.

All calls of `test_function` come from the same place, so their frames have
the same address and `siglongjmp` lands in the call that is active (`Timeout`),
whichever call saved the environment. When none is active the jump is
undefined; `TimeoutNoFrame` has the outcomes a build can have: the process dies,
or the call that returned last returns once more, with one error. `run_tests`
then goes on with its `i` and `errors` as they are, or, where they live in
registers that the dead frame has saved, as they were at that call; each of the
two may be either way. So the same puzzle may be scored again, or the next one
may get no points without having been called, or the loop may step over the end
of `test_set[]` (`Exit`). What is assumed is that a saved register that has been
overwritten kills the process rather than lead to some third place. A report
of a timeout is a record: the puzzle it names (`of`), whose alarm rang (`by`),
and the one that gets no points (`costs`).

`LostByTimeoutOnly` says how far the fault of finding 4 reaches. A right
solution may lose its points to an alarm that is not its own, but only to that
of the puzzle tested just before it: each call of `alarm` replaces the one
pending, and only a puzzle that is itself cut short sets none. Unless a signal
has hit `run_tests`, the puzzle reported is the one that loses.

A puzzle is the set of arguments on which its solution is wrong or loops, with
the range of each argument. `gen_vals` chooses the values as the code does: all
of a small range, otherwise those next to the bounds and to zero and some that
`random_val` returns, here members of `Draws`. The array of an argument has
`MAX_TEST_VALS` places, and the exhaustive case may produce one value more
(line 198: `<=`); no range of `decl.c` is of that size, and `HarnessAssumption`
says so. Options that fix an argument, and the values for floats, which no
puzzle of `decl.c` asks for, are left out.

### BitPuzzles

A word is the set of its bits that are 1, so that the real width of 32 bits can
be checked and proved about: `&`, `|`, `^` and `~` are set operations, sums are
carries, right shifts are arithmetic. Signed sums wrap, as they do in the build.
A step calls one solution. The references are stated in the integers that words
stand for where `tests.c` uses C's arithmetic (`ValueOf`), and in sets of bits
where it uses masks.

## 3. Runs

| run | properties | instance |
|---|---|---|
| `threads_safety` | MutualExclusion, NoLostUpdate, JoinedExact, SemaphoresFree, EveryKernelPasses | 3 threads, 6 items, 2 buckets, every input |
| `threads_failures` | IndInv, SumCheckSound, NoStrayThread, OnlyStaleJoinHangs, RefinesHistogram | 2 threads, 4 items of 3 values, 2 buckets, `pthread_create` may fail |
| `driver` | TypeOK, CorrectPackagePasses, BlocksFilled, ErrorsMatchVerdicts, UtilAtMostOne, NoStaleAddress, RangesExact, OverlapsNest, AssertsOnlyOffFormat | sessions with two files, a correct package and `-l`; with one of 28 files, any address; with a file of one block or a generated one, some asking for 0 bytes; in all three files with sizes that no `int` holds |
| `driver_overlap` | NoOverlap is **violated** | one file, any address |
| `driver_char` | PreservedDataPasses is **violated** | one trace with id 128 |
| `checktrace` | RefusedExactly, OutputBalanced, HeaderStaysRight, GeneratedReadable | every input of a few lines over two ids, and traces of every generator |
| `checktrace_reused` | ReusedIdRefused is **violated** | as before |
| `fcyc` | ElapsedExact, CalibrationBounds, MeasurementBounds, KSmallest, ResultIsBest, ConvergedWithinEpsilon, IndInv, FcycReturns | kbest 2, up to 3 samples, words of 3 bits, ticks of 5 or 8 cycles every 6 or 7, two events per calibration |
| `mm_init` | MmInitReturns is **violated** | a heap of 128 bytes, first extension of 64 |
| `harness_limits` | TypeOK, NoUndeservedPoints, LostByTimeoutOnly, OneErrorEach, TestsLimited, ExactWithoutLimit, Ends | 8 puzzles, with and without a limit, `TEST_RANGE` 2 |
| `harness_stale` | OnlyOwnTimeout is **violated** | 4 puzzles |
| `puzzles` | PatternsRight, ArithmeticRight | 8 solutions, 1922 words, 58 × 58 sums, all 1024 bit masks |

Why the bounds are enough. Two threads are enough to lose an increment and
three to hand a semaphore on while another waits; two buckets give threads both
the same and different locks; two groups per block would add nothing to
`histo_4`, since the local counts are private. A heap of six bytes has room for
two payloads of two or three bytes next to each other, over each other, one
inside another and one beyond the end; two traces in a row show what one leaves
behind, and six requests hold an allocation, a growing and a shrinking
reallocation, a free, and the reuse of what was freed. The traces of
the sessions with any address are all those of two allocations and one more
request in three sizes, one that was cut off, an empty one, and two with sizes of 9 and 15, which
are no `int` when `INT_MAX` is 7: it need only be as large as the heap. kbest + 1 samples evict. In `fcyc` the counter starts below
an overflow of its low word and passes several in a calibration (time stops
when it has counted 64 cycles since `start_counter`, which no loop of `callibrate`
reaches: `FcycReturns` would notice); THRESHOLD 3 and RECORDTHRESH 4 stand for 1000 and 3000: turns of one
and two cycles add up to gaps that are no interrupts, and ticks of 5 and 8 lie
above them, on either side of the values `callibrate` records; the function runs as
long as the shortest period, so that zero, one and two ticks fall into a
measurement or around it; ticks hit the system until `MaxUncharged` cycles after
`start_counter`, which takes in the first gap of `callibrate` and the function. Both
bounds of `MeasurementBounds` are approached, to within one cycle above and three
below: there are measurements with a tick dearer than the one calibrated, with one
that is lost, with one of each, and with two outside. The puzzles have none to three
arguments, wrong at the first, a middle and the last combination, and one that
loops, near the end, so that a run without a limit judges those before it; neighbours in the list are all a late signal can reach. Two ranges are
too large to be tested exhaustively, one with an error next to its bound and one
with an error that only a random value finds. The words of `puzzles` are runs of
ones, pairs of ones and their complements: every pair of places where a carry
starts and ends, and every outcome of the search in `greatestBitPos`.

`driver` sets `SPEED_RUNS` to 1 where the code has 10: a run starts with
a reset heap and stale `blocks[]` each time, so the second differs from the
first in nothing the first did not meet after `eval_mm_util`.

Deadlock is checked in every run; programs that have ended stutter.

Fairness. `ThreadLab`: weak fairness of the main thread and of every thread, as
the kernel's scheduler gives; a thread does finitely many steps, so one that
waits for a semaphore gets it without strong fairness. `TestHarness`: the
process runs, and the system's timer rings some time. `FunctionTimer`: weak fairness of the
program and of interrupts, and strong fairness of an interrupt that hits the
program and not the system: `callibrate` waits for `tms_utime` to change, and a
timer that always hit the few cycles of `times()` would keep it waiting. The other
modules have no liveness property: the driver and the scripts are loops over a
finite input.

## 4. What the code does otherwise than it says

1. `mdriver.c:442`: the overlap test looks at the two ends of the new payload
   only, so a payload that strictly contains an older one passes, although the
   comment says it must not overlap any other. `OverlapsNest` shows that this
   is the only overlap that passes.
2. `mdriver.c:689`: a `char` is compared with `index & 0xFF`. With ids whose low
   byte is 128 or more and a signed `char`, data that was preserved is reported
   as lost.
3. `checktrace.pl:96`: the message `reused ID` is never printed, because a free
   deletes the entry the test looks for: the trace `a 0`, `f 0`, `a 0` is
   accepted.
4. `btest.c:357`: the alarm is never cancelled. It may ring while the values of
   the next puzzle are generated, and that puzzle is then reported as timed out;
   `TestsLimited` shows that the tests themselves always run under their own
   alarm.
5. `mm.c:473`: the first `mm_init` faults. Four words are obtained and eight are
   written; the block of the first extension then begins at the prologue's list
   fields, the word its `PREV_BLKP` reads is 0, so it takes itself for its free
   neighbour, and its `SUCC` field is made of a zero and the prologue's footer,
   25 · 2^32, which `coalesce_helper` follows. The heap check `mm_init` makes
   just before finds nothing, since it never looks at the list fields. The comment
   at line 474 says that the author saw it.

## 5. Proofs

Every safety property of the runs of section 3 is a theorem, for every value of
the constants that the named assumptions of the modules allow; two theorems have a hypothesis of
their own, given below. The listed theorems are in `PROJECT.json`; here are the
arguments. Two proof techniques recur. The number
of blocks, bytes or items is a `Cardinality`, so a step that adds or removes
some is a lemma on the cardinality of a disjoint union. Induction over a length
or an index is done on a set of numbers: if it contains 0 and the successor of
each of its numbers it contains `Nat`, because `Nat` is well founded
(`LeastElement`, `InductionOnSet`). A recursive function is some solution of its
equation, if there is one; that there is, is shown by such an induction too
(`Recursion`).

### ThreadLabProofs, ThreadLabRefinementProofs

For any number of threads, items and
buckets that satisfies `SizeAssumption` (the blocks cover the data, and
`UNROLL` divides a block), whether or not `pthread_create` may fail, `IndInv` is
invariant, and from it follow `MutualExclusion`, `SemaphoresFree`, `NoLostUpdate`, `NoStrayThread` and
`JoinedExact`. `NoLostUpdate` is not inductive: a thread between `Load` and
`Store` writes back what it has read, which is right only if nobody else wrote
the bucket since. The strengthening has three layers, each proved on top of the
one before:

- the shape: types, the control points of each kernel, the life of the threads
  in the create and join loops, `histo_4` at the start of a group;
- the semaphores (`SemaphoreInv`): a semaphore is 0 exactly while a thread is
  inside, and at most one is;
- the counts: a register still equals its bucket (`RegisterFresh`), the local
  counts are exact (`LocalCounts`), a bucket holds the items passed so far
  (`NoLostUpdate`), and `bucket[]` is the reference.

The steps that write a bucket need that the items of different threads are
disjoint (`BlocksDisjoint`) and cardinalities of disjoint unions.

`main` adds the buckets up and compares the sum with `DATA_SIZE`. `SumCheckSound`
says that this is enough: by `IndInv` a bucket holds the items counted so far and
no more, so a sum that reaches the number of items leaves no bucket short
(`SumCheckExact`). `VerdictInv` keeps the verdict true afterwards. `RefinementCorrect` is `Spec => RefinesHistogram`: the initial
states map to initial states of `Histogram`, and every action to `Count`, to
`Judge` or to a stutter, one lemma each.

### SamplerProofs, FunctionTimerProofs

`Sampler`, for any `kbest`, epsilon, bound and
measurements: the values kept are sorted except for the one that is being
inserted, all of them were measured, and one of them is as small as any
measurement (`IndInv`). From it follow `ResultIsBest` and `SamplesBounded`.
`KSmallest`, that the values kept are the k smallest of all with their
multiplicities, needs a second invariant, `CountedInv`: below every bound as many
values are kept as were measured, or every place of `values` holds one.
`ConvergedWithinEpsilon` follows from the order.

`FunctionTimer`: `ElapsedExact` for any word size. `CounterInv` relates the two
words stored to the counter modulo `WORD^2`; the borrow is arithmetic
(`CounterDifference`). `CalibrationBounds` needs `GapInv`, which says at each step
of `callibrate` how many cycles lie between `oldt` and the next reading: less
than a turn beyond `THRESHOLD` and the cost of one tick at most, because a second
tick would need a period. `MeasurementBounds` needs both and `MeasureInv`: a
compensated reading is made of the function, of what is lost and of the cost of
the ticks counted, of which one may lie before `start_counter` and one behind the
reading; for each of them the calibrated value is then taken off, which is
between the cheapest cost and a little more than the dearest. Since `FunctionTimer` takes its measurements from the
counter, it is shown to implement `IntSpec`, the sampler with any integers as
measurements (`TimerImplementsScheme`: every step of `FunctionTimer` is one of its
steps or leaves its variables alone), and the theorems of `Sampler` are carried
over.

### TraceDriverProofs

For any files, package, heap and libc. The invariants, each on top of those
before:

- `CtlInv`: where the driver is, what of the trace is loaded, types;
- `RangesInv`: two ranges are disjoint or the newer strictly contains the older
  (`GoodRanges`), and the list has one range per block in use (`Exact`), from
  which `RangesExact` and `OverlapsNest` follow. That `remove_range` takes out
  the right one needs that no two ranges begin at the same address, which
  `GoodRanges` gives (`LowEndsDiffer`);
- `AssertInv` (`AssertsOnlyOffFormat`): the header of a file in the format is right
  (`FormatHeader`), so a failed assertion is that of `add_range`; the size is then more
  than an `int` holds (`NotPositive`), and a correct package has no room for it in the
  heap (`TooMuch`). `VerdictsInv` (`ErrorsMatchVerdicts`: the
  error count is the number of verdicts "not valid", up to the verdict that is
  about to be written);
- `SizesInv`, `LiveInv`: with a correct package the payloads in use are disjoint and inside
  the heap (`GoodHeap`), and every block in use is one of them (`Held`, with its
  size: `Sized`), in each of the three replays. `LibcInv` says the same of libc.
  From these `NoStaleAddress`;
- `MemoryInv`, `MessageInv`: the bytes of a block are not written by anyone
  else, hence `BlocksFilled`, and no message is written about a correct package
  but that it gave up (`CorrectPackagePasses`, `PlacementsPassCorrect`);
- `TotalInv`, `UtilInv`: `total_size` is the number of bytes of the blocks in use
  (one cell for each byte). The cells are mapped one to one to addresses below
  the break, so that there are at most as many: `UtilAtMostOne`.

`CorrectPackagePassesCorrect` has a hypothesis, `LowIds`: the ids of the traces
given to a correct package have low bytes below 128. It cannot be dropped:
finding 2 is the counterexample without it.

### CheckTraceProofs

For any input. `ReadInv` and `TallyInv` relate `HASH` to the blocks in use: in a
trace whose lines are well formed they are the same set, so a line is refused
exactly when it does not fit what was read before (`RefusedExactly`). `PrintInv`
says while the frees are printed that what is printed so far is legal, the blocks
in use are those still to be freed (`OutputBalanced`), and that the header promises as many lines as are printed
in the end (`HeaderStaysRight`).

`GeneratedReadable` is in two parts. A trace is `Readable` when its requests fit
together, its header counts them and its ids are those below `num_ids`; such a
trace is read line by line without an objection, and the frees added are of ids
it has (`CopyInv`, `ReadableCorrect`). And each generator prints `Readable` traces
only (`GeneratorsReadable`), for any number of iterations and any sizes:

- `gen_binary`, `gen_coalescing` and `gen_realloc` print runs of requests, and the
  same group of requests in every turn of a loop (`Flatten`, `FlattenRec`). The
  blocks in use after a run, and after every group of a loop, are given by
  induction over its length (the lemmas `Run...`, `Loop`);
- `gen_random` splices the frees, one block after the other, into the sequence of
  the allocations. `Shuffled` is the invariant of its loop: the trace has every
  allocation once, the frees of the blocks done so far once, and each free behind
  its allocation, since `FreePlaces` begins behind it (`PlacedBehind`, `Inserted`).
  A trace in which this holds at the end is legal (`ShuffledLegal`).

The hypothesis of `GeneratedReadableCorrect` is that `Generated` holds traces of the
generators (`GeneratorTraces`: all sizes and all numbers of iterations, of which
`gen_realloc` makes at least one). Those `MCCheckTrace` lists are.

### TestHarnessProofs

For any puzzles, ranges, limits and random values that satisfy
`HarnessAssumption`. `CtlInv` and `AlarmInv` say that the pending alarm is the one
of the puzzle tested last, and its own while tests run (`TestsLimited`).
`ScoredInv` counts the zeros until a signal has hit `run_tests`
(`OneErrorEach`). For the scores themselves:

- the values `gen_vals` chooses lie in the range, fit the array and contain all
  the values it is sure to choose (`GoodList`; `GenValsGood` from what one turn
  of the loop adds and where it is placed in the list);
- the loops over the values are numbers in a mixed radix: each number below the
  product of the lengths is a combination of values (`CombWithin`), and each
  choice of values has its number (`CombCovers`, by one block per argument);
- hence a call that returns without an error has passed every combination it is
  sure to test, and an error means a combination in the ranges on which the
  solution is wrong (`ListInv`, `JudgeInv`): `NoUndeservedPoints`,
  `LostByTimeoutOnly`, `ExactWithoutLimit`;
- `PointsInv`: the points are at most those the puzzles before `i` may earn, up to
  and including `i` for a call that has returned with an error. A call that
  returns a second time, after a signal found no frame, has one error and moves
  `i` on without points, from the puzzle of the alarm or from where `i` was.

### BitPuzzlesProofs

For every word of 32 bits, where btest samples some. `PatternsRight`:
`getByte` and `bitMask` bit by bit, `greatestBitPos` by its masks, made by arithmetic
shifts as in the code (`Masks`), and by the interval of 8, 4, 2 and 1 bits in which the
highest bit lies.

`ArithmeticRight` is about values. The value of a word is the number its bits
write in two's complement: `ValueOf` runs over the places, `NumeralOf` and `Weights`
say what a place contributes, and no two words have the same value
(`NumeralInjective`, `ValueInjective`). `Plus` computes sum and carry of each place
(`FullAdder`); by induction over the places the sum of the lower places plus the
carry out of them is the sum of what the terms have there (`AddLemma`), so that
`Plus` is addition modulo 2^32. `Not` is -1 minus the value (`ValueNot`). With these
`negate`, `minusOne` and `absVal` are sums, and `addOK` compares the signs of the terms with
that of the sum: the terms have one sign and the sum the other just when the sum
is out of range.

### Assumptions

The assumptions are those of the modules that declare the constants; TLC
evaluates them in the runs.

- `SizeAssumption`: `thread.c` divides its data evenly, `#define`s in `thread.h`.
- `TimerAssumption`: the costs of a tick lie between two bounds; a threshold and a turn of `callibrate`'s loop take less than the
  period of the timer, and the loop's turn is no larger than what `RECORDTHRESH`
  leaves (`clock.c` has 1000 and 3000 cycles where a period has millions).
- `SamplerAssumption`: `kbest` is positive, as `init_sampler` and `values[0]` need.
- `DriverAssumption`, `PackageAssumption`: sizes and addresses are naturals, and the heap
  (`MAX_HEAP`, 2000 MB) has no more bytes than an `int` counts.
  `TraceAssumption`: the ids of a file stand for pointers of a program: one is
  allocated before it is reallocated or freed, and not again while in use. The
  driver does not test that (on other files it reads `blocks[]` where nothing was
  written); `RefusedExactly` is about the script that does. The counts and sizes of a
  file may be anything; `AssertsOnlyOffFormat` is about those that keep the format.
- `InputAssumption`: the commands `a`, `r` and `f` can be typed, and generated
  traces consist of them.
- `HarnessAssumption`: a puzzle has at most three arguments, no range is empty,
  and none has exactly `MAX_TEST_VALS + 1` values (line 198 would write one
  value too many), which is so in `decl.c`; a range that is sampled contains one of
  the values `random_val` is allowed to draw.
- `WordAssumption`: the words checked have 32 bits.

### Only model-checked

- the liveness properties `EveryKernelPasses`, `OnlyStaleJoinHangs`, `Ends` and
  `FcycReturns`:
  liveness under fairness is out of the prover's reach;
- the violations of the findings: they are counterexamples, which a run shows.

## 6. Not modelled, and why

- `mm.c` after `mm_init` (`mm_malloc`, `mm_free`, `mm_realloc`, `exp_place`, the
  searches and the older `coalesce` and `place`): `mm_init` always faults, so that
  there is no state of the program in which they run.
- `clock.c`: `ovhd`, which nothing calls, `mhz`, which only computes a clock rate to
  divide by, and the branch for Alpha.
  `fsecs.c` chooses one of three timers at compile time; `ftimer_itimer` is not
  compiled in.
- `get_num_val` and the options of `btest.c`: parsing only. (Read, not checked:
  line 496 tests `!*valp` where `!*endp` must be meant, so that an integer with
  trailing letters is accepted and a second value for the same argument is not.)
- `check_info`, `flag_range`, result tables, options, and everything else that
  only prints or measures time.
- `mutex2`, `locks2`, `barrier` and the commented-out code of `thread.c`: unused.
- `driver.pl`, `fshow`, `ishow`: no state. `dlc` has no
  source here.

## 7. Plan

Done, in the order of importance: the threads with abstraction and proofs, the
malloc driver with libc's evaluation and several sessions, the sampler with
proofs and the cycle counters under it, the trace checker and the generators,
the test harness with `gen_vals`, the puzzles with proofs, `mm_init`.

Proved since: all the safety properties of the runs (section 5), that
`ThreadLab` implements `Histogram`, and that `FunctionTimer` implements the K-best
scheme.

Left, should the code change: `mm.c` after `mm_init`, as soon as `mm_init`
returns (section 6), and in `CheckTrace` the options of the script.
