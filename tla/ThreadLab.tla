------------------------------ MODULE ThreadLab ------------------------------
(***************************************************************************)
(* labs/threadlab-handout: the driver run_threads() of util.c and the five *)
(* histogram kernels histo_0 ... histo_4 of thread.c.                      *)
(*                                                                         *)
(* The main thread fills data[], then for every kernel in turn zeroes      *)
(* global_histogram[], creates NTHREADS threads, joins them and compares   *)
(* the sum of the buckets with DATA_SIZE.  A kernel adds every item of its *)
(* block of data[] to the bucket data[j] % BUCKET_SIZE.  Except in histo_3 *)
(* the increment is not atomic: it is a read of the bucket into a register *)
(* and a write back, and only the semaphores keep two of them apart.       *)
(*                                                                         *)
(* Left out: printing, the elapsed time and flag_range[], which is written *)
(* from it and never read, and mutex2, locks2 and barrier, which no kernel *)
(* uses.                                                                   *)
(***************************************************************************)
EXTENDS Integers, FiniteSets

CONSTANTS
  DATA_SIZE,      \* number of items in data[]
  NTHREADS,       \* number of threads of each kernel
  DATA_MAX,       \* items are 0 .. DATA_MAX-1
  BUCKET_SIZE,    \* number of buckets
  UNROLL,         \* items histo_4 counts per loop iteration, 4 in the code
  CREATE_CAN_FAIL \* whether pthread_create may return an error

(***************************************************************************)
(* STEP as thread.h computes it, by an integer division.                   *)
(***************************************************************************)
STEP == DATA_SIZE \div NTHREADS

(***************************************************************************)
(* What the #defines of thread.h satisfy and the kernels rely on: the      *)
(* blocks of the threads cover data[] with no remainder, and histo_4's     *)
(* unrolled loop divides a block.                                          *)
(***************************************************************************)
ASSUME SizeAssumption ==
  /\ NTHREADS \in Nat \ {0}
  /\ BUCKET_SIZE \in Nat \ {0}
  /\ DATA_MAX \in Nat \ {0}
  /\ UNROLL \in Nat \ {0}
  /\ STEP \in Nat \ {0}
  /\ DATA_SIZE = NTHREADS * STEP
  /\ \E groups \in 1 .. STEP : STEP = groups * UNROLL
  /\ CREATE_CAN_FAIL \in BOOLEAN

Threads  == 0 .. NTHREADS - 1
Items    == 0 .. DATA_SIZE - 1
Buckets  == 0 .. BUCKET_SIZE - 1
Routines == 0 .. 4

VARIABLES
  data,             \* the input array
  bucket,           \* the correct count of every bucket
  global_histogram, \* the shared result array
  correctness,      \* correctness[r] = 1 iff kernel r passed the sum check
  mutex,            \* value of the global semaphore
  locks,            \* value of the semaphore of every bucket
  mainpc,           \* control point of run_threads
  thread_rt_id,     \* the kernel being run
  i,                \* index of the create and join loops of run_threads
  pc,               \* control point of every thread of the current kernel
  j,                \* the loop index of every thread
  k,                \* the bucket index of every thread in histo_4's reduction
  reg,              \* the register an increment goes through
  counts            \* histo_4's local histogram

inputs   == <<data, bucket>>
sems     == <<mutex, locks>>
mainVars == <<mainpc, thread_rt_id, i, correctness>>
locals   == <<j, k, reg, counts>>
vars     == <<data, bucket, global_histogram, correctness, mutex, locks,
              mainpc, thread_rt_id, i, pc, j, k, reg, counts>>

ZeroHistogram == [b \in Buckets |-> 0]

(***************************************************************************)
(* The state in which main() calls run_threads(): every semaphore has been *)
(* initialised to 1 and the arrays of util.c are still zero.               *)
(***************************************************************************)
Init ==
  /\ data = [x \in Items |-> 0]
  /\ bucket = ZeroHistogram
  /\ global_histogram = ZeroHistogram
  /\ correctness = [r \in Routines |-> 0]
  /\ mutex = 1
  /\ locks = [b \in Buckets |-> 1]
  /\ mainpc = "generate"
  /\ thread_rt_id = 0
  /\ i = 0
  /\ pc = [t \in Threads |-> "none"]
  /\ j = [t \in Threads |-> 0]
  /\ k = [t \in Threads |-> 0]
  /\ reg = [t \in Threads |-> 0]
  /\ counts = [t \in Threads |-> ZeroHistogram]

-----------------------------------------------------------------------------
(***************************************************************************)
(* The main thread.                                                        *)
(***************************************************************************)

\* The items of S that belong to bucket b.
InBucket(S, b) == {x \in S : data[x] % BUCKET_SIZE = b}

\* Fault: the last item is not counted into bucket[].
GenerateDataShort ==
  /\ mainpc = "generate"
  /\ data' \in [Items -> 0 .. DATA_MAX - 1]
  /\ bucket' = [b \in Buckets |->
                 Cardinality(InBucket(Items \ {DATA_SIZE - 1}, b)')]
  /\ mainpc' = "reset"
  /\ UNCHANGED <<global_histogram, correctness, sems, thread_rt_id, i,
                 pc, locals>>

\* Fill data[] with random values and count them into bucket[].
GenerateData ==
  /\ mainpc = "generate"
  /\ data' \in [Items -> 0 .. DATA_MAX - 1]
  /\ bucket' = [b \in Buckets |-> Cardinality(InBucket(Items, b)')]
  /\ mainpc' = "reset"
  /\ UNCHANGED <<global_histogram, correctness, sems, thread_rt_id, i,
                 pc, locals>>

\* Zero the shared histogram before a kernel; its threads do not exist yet.
ResetHistogram ==
  /\ mainpc = "reset"
  /\ global_histogram' = ZeroHistogram
  /\ pc' = [t \in Threads |-> "none"]
  /\ i' = 0
  /\ mainpc' = "create"
  /\ UNCHANGED <<inputs, correctness, sems, thread_rt_id, locals>>

\* One iteration of a loop of run_threads over the threads, followed by next.
NextThread(next) ==
  IF i + 1 < NTHREADS THEN i' = i + 1 /\ UNCHANGED mainpc
                      ELSE i' = 0 /\ mainpc' = next

\* pthread_create of thread i.  Its result is not checked: when it fails the
\* loop goes on and thread i does not exist.
CreateThread ==
  /\ mainpc = "create"
  /\ \/ pc' = [pc EXCEPT ![i] = "entry"]
     \/ CREATE_CAN_FAIL /\ UNCHANGED pc
  /\ NextThread("join")
  /\ UNCHANGED <<inputs, global_histogram, correctness, sems, thread_rt_id,
                 locals>>

\* Fault: the join does not wait for the thread.
JoinThreadNoWait ==
  /\ mainpc = "join"
  /\ NextThread("check")
  /\ UNCHANGED <<inputs, global_histogram, correctness, sems, thread_rt_id,
                 pc, locals>>

\* pthread_join of thread i waits for the thread to return.
JoinThread ==
  /\ mainpc = "join"
  /\ pc[i] = "done"
  /\ pc' = [pc EXCEPT ![i] = "joined"]
  /\ NextThread("check")
  /\ UNCHANGED <<inputs, global_histogram, correctness, sems, thread_rt_id,
                 locals>>

\* pthread_join with an identifier that names no thread of its own: thread i
\* was never created, so that thread_id[i] is uninitialised or left from an
\* earlier kernel, or it has been joined.  The call is undefined.  It returns
\* an error, which is ignored; or it finds the identifier reused for another
\* thread u of this kernel and joins that one; or it never returns; or it
\* kills the process.
JoinStale ==
  /\ mainpc = "join"
  /\ pc[i] \in {"none", "joined"}
  /\ \/ NextThread("check") /\ UNCHANGED pc
     \/ /\ \E u \in Threads : /\ pc[u] = "done"
                              /\ pc' = [pc EXCEPT ![u] = "joined"]
        /\ NextThread("check")
     \/ mainpc' \in {"hung", "crashed"} /\ UNCHANGED <<i, pc>>
  /\ UNCHANGED <<inputs, global_histogram, correctness, sems, thread_rt_id,
                 locals>>

\* Fault: the last bucket is left out of the sum.
printHistogramShort ==
  LET sum[n \in 0 .. BUCKET_SIZE] ==
        IF n = 0 THEN 0 ELSE sum[n - 1] + global_histogram[n - 1]
  IN  sum[BUCKET_SIZE - 1]

\* The sum printHistogram computes and returns.
printHistogram ==
  LET sum[n \in 0 .. BUCKET_SIZE] ==
        IF n = 0 THEN 0 ELSE sum[n - 1] + global_histogram[n - 1]
  IN  sum[BUCKET_SIZE]

\* Fault: a sum that falls short is accepted.
CheckSumLenient ==
  /\ mainpc = "check"
  /\ correctness' = IF printHistogram <= DATA_SIZE
                    THEN [correctness EXCEPT ![thread_rt_id] = 1]
                    ELSE correctness
  /\ mainpc' = "advance"
  /\ UNCHANGED <<inputs, global_histogram, sems, thread_rt_id, i, pc, locals>>

\* The sum check of run_threads, which never looks at bucket[].
CheckSum ==
  /\ mainpc = "check"
  /\ correctness' = IF printHistogram = DATA_SIZE
                    THEN [correctness EXCEPT ![thread_rt_id] = 1]
                    ELSE correctness
  /\ mainpc' = "advance"
  /\ UNCHANGED <<inputs, global_histogram, sems, thread_rt_id, i,
                 pc, locals>>

\* Fault: the index of the kernel is not advanced.
NextRoutineStuck ==
  /\ mainpc = "advance"
  /\ mainpc' = "reset"
  /\ UNCHANGED <<inputs, global_histogram, correctness, sems, thread_rt_id, i,
                 pc, locals>>

\* The loop over the kernels goes on to the next one, or ends.
NextRoutine ==
  /\ mainpc = "advance"
  /\ IF thread_rt_id < 4
     THEN thread_rt_id' = thread_rt_id + 1 /\ mainpc' = "reset"
     ELSE mainpc' = "exit" /\ UNCHANGED thread_rt_id
  /\ UNCHANGED <<inputs, global_histogram, correctness, sems, i,
                 pc, locals>>

run_threads ==
  \/ GenerateData \/ ResetHistogram
  \/ CreateThread \/ JoinThread \/ JoinStale
  \/ CheckSum \/ NextRoutine

-----------------------------------------------------------------------------
(***************************************************************************)
(* The threads of a kernel.  The loop index j[t] runs over the block of    *)
(* thread t; in histo_0 thread 0 takes all of data[].                      *)
(***************************************************************************)
First(t) == IF thread_rt_id = 0 THEN 0 ELSE t * STEP
Limit(t) == IF thread_rt_id = 0 THEN DATA_SIZE ELSE t * STEP + STEP

\* The bucket thread t is about to change, and what it adds to it.
Slot(t)   == IF thread_rt_id = 4 THEN k[t] ELSE data[j[t]] % BUCKET_SIZE
Addend(t) == IF thread_rt_id = 4 THEN counts[t][k[t]] ELSE 1

Goto(t, from, to) == pc[t] = from /\ pc' = [pc EXCEPT ![t] = to]

\* The thread starts and enters the loop over its block.
Enter(t, to) ==
  /\ Goto(t, "entry", to)
  /\ j' = [j EXCEPT ![t] = First(t)]
  /\ UNCHANGED <<inputs, global_histogram, sems, mainVars, k, reg, counts>>

\* Fault: the locals of the next thread are not initialised.
ReturnKeepsCounts(t) ==
  /\ pc' = [pc EXCEPT ![t] = "done"]
  /\ j' = [j EXCEPT ![t] = 0]
  /\ k' = [k EXCEPT ![t] = 0]
  /\ UNCHANGED counts

\* The thread leaves its kernel and its locals are gone.
Return(t) ==
  /\ pc' = [pc EXCEPT ![t] = "done"]
  /\ j' = [j EXCEPT ![t] = 0]
  /\ k' = [k EXCEPT ![t] = 0]
  /\ counts' = [counts EXCEPT ![t] = ZeroHistogram]

\* sem_wait and sem_post, of the global semaphore and of a bucket's.
WaitMutex == mutex > 0 /\ mutex' = mutex - 1 /\ UNCHANGED locks
PostMutex == mutex' = mutex + 1 /\ UNCHANGED locks
\* Fault: the semaphore is tested and not taken.
WaitLockNotTaken(b) == locks[b] > 0 /\ UNCHANGED <<locks, mutex>>

WaitLock(b) ==
  locks[b] > 0 /\ locks' = [locks EXCEPT ![b] = @ - 1] /\ UNCHANGED mutex
\* Fault: the bucket's semaphore is given back twice.
PostLockTwice(b) == locks' = [locks EXCEPT ![b] = @ + 2] /\ UNCHANGED mutex

PostLock(b) == locks' = [locks EXCEPT ![b] = @ + 1] /\ UNCHANGED mutex

\* The thread gets its semaphore, by the sem_wait action acquire.
Acquire(t, acquire) ==
  /\ Goto(t, "wait", "load")
  /\ acquire
  /\ UNCHANGED <<inputs, global_histogram, mainVars, locals>>

\* The two halves of global_histogram[...] += ...
Load(t) ==
  /\ Goto(t, "load", "store")
  /\ reg' = [reg EXCEPT ![t] = global_histogram[Slot(t)]]
  /\ UNCHANGED <<inputs, global_histogram, sems, mainVars, j, k, counts>>

\* Fault: histo_4 adds one instead of its local count.
StoreOne(t) ==
  /\ Goto(t, "store", "post")
  /\ global_histogram' = [global_histogram EXCEPT ![Slot(t)] = reg[t] + 1]
  /\ reg' = [reg EXCEPT ![t] = 0]
  /\ UNCHANGED <<inputs, sems, mainVars, j, k, counts>>

Store(t) ==
  /\ Goto(t, "store", "post")
  /\ global_histogram' =
       [global_histogram EXCEPT ![Slot(t)] = reg[t] + Addend(t)]
  /\ reg' = [reg EXCEPT ![t] = 0]
  /\ UNCHANGED <<inputs, sems, mainVars, j, k, counts>>

\* The end of the body of the loop over the block: on to item j+1 at label
\* to, or out of the kernel.
NextItem(t, to) ==
  /\ pc[t] = "post"
  /\ IF j[t] + 1 < Limit(t)
     THEN /\ j' = [j EXCEPT ![t] = @ + 1]
          /\ pc' = [pc EXCEPT ![t] = to]
          /\ UNCHANGED <<k, counts>>
     ELSE Return(t)
  /\ UNCHANGED <<inputs, global_histogram, mainVars, reg>>

\* histo_0: thread 0 does all the work, without synchronisation.
histo_0(t) ==
  /\ thread_rt_id = 0
  /\ \/ t = 0 /\ Enter(t, "load")
     \/ /\ t # 0 /\ pc[t] = "entry" /\ Return(t)
        /\ UNCHANGED <<inputs, global_histogram, sems, mainVars, reg>>
     \/ Load(t)
     \/ Store(t)
     \/ NextItem(t, "load") /\ UNCHANGED sems

\* histo_1: the global semaphore around every increment.
histo_1(t) ==
  /\ thread_rt_id = 1
  /\ \/ Enter(t, "wait")
     \/ Acquire(t, WaitMutex)
     \/ Load(t)
     \/ Store(t)
     \/ NextItem(t, "wait") /\ PostMutex

\* histo_2: the semaphore of the bucket around every increment.
histo_2(t) ==
  /\ thread_rt_id = 2
  /\ \/ Enter(t, "wait")
     \/ Acquire(t, WaitLock(Slot(t)))
     \/ Load(t)
     \/ Store(t)
     \/ NextItem(t, "wait") /\ PostLock(Slot(t))

\* The atomic increment __sync_fetch_and_add.
FetchAndAdd(t) ==
  /\ Goto(t, "add", "post")
  /\ global_histogram' = [global_histogram EXCEPT ![Slot(t)] = @ + Addend(t)]
  /\ UNCHANGED <<inputs, sems, mainVars, locals>>

\* histo_3: an atomic increment.
histo_3(t) ==
  /\ thread_rt_id = 3
  /\ \/ Enter(t, "add")
     \/ FetchAndAdd(t)
     \/ NextItem(t, "add") /\ UNCHANGED sems

\* One iteration of histo_4's unrolled loop over the block: count items
\* j, j+1, ... into the local histogram; the reduction over k follows.
CountLocally(t) ==
  /\ pc[t] = "count"
  /\ LET group == j[t] .. j[t] + UNROLL - 1
         added(b) == Cardinality(InBucket(group, b))
     IN  counts' = [counts EXCEPT ![t] =
                      [b \in Buckets |-> counts[t][b] + added(b)]]
  /\ j' = [j EXCEPT ![t] = @ + UNROLL]
  /\ pc' = IF j[t] + UNROLL < Limit(t) THEN pc
                                       ELSE [pc EXCEPT ![t] = "wait"]
  /\ UNCHANGED <<inputs, global_histogram, sems, mainVars, k, reg>>

\* The end of the body of the reduction loop: on to bucket k+1, or out.
NextBucket(t) ==
  /\ pc[t] = "post"
  /\ IF k[t] + 1 < BUCKET_SIZE
     THEN /\ k' = [k EXCEPT ![t] = @ + 1]
          /\ pc' = [pc EXCEPT ![t] = "wait"]
          /\ UNCHANGED <<j, counts>>
     ELSE Return(t)
  /\ UNCHANGED <<inputs, global_histogram, mainVars, reg>>

\* histo_4: count locally, then add every local count under the semaphore of
\* its bucket.
histo_4(t) ==
  /\ thread_rt_id = 4
  /\ \/ Enter(t, "count")
     \/ CountLocally(t)
     \/ Acquire(t, WaitLock(k[t]))
     \/ Load(t)
     \/ Store(t)
     \/ NextBucket(t) /\ PostLock(k[t])

\* A step of thread t.  It dies with the process.
thread_routine(t) ==
  /\ mainpc # "crashed"
  /\ histo_0(t) \/ histo_1(t) \/ histo_2(t) \/ histo_3(t) \/ histo_4(t)

-----------------------------------------------------------------------------
\* Every thread of the kernel that was created has returned.
KernelOver == \A t \in Threads : pc[t] \in {"none", "done", "joined"}

\* The process has ended, or main alone is left and never goes on, so that
\* TLC's deadlock check finds the other deadlocks only.
Terminated ==
  /\ \/ mainpc \in {"exit", "crashed"}
     \/ mainpc = "hung" /\ KernelOver
  /\ UNCHANGED vars

Next ==
  \/ run_threads
  \/ \E t \in Threads : thread_routine(t)
  \/ Terminated

(***************************************************************************)
(* The kernel scheduler runs every thread that can run.  A thread does a   *)
(* bounded number of steps, so a weakly fair scheduler cannot starve one   *)
(* that waits for a semaphore.                                             *)
(***************************************************************************)
Fairness ==
  /\ WF_vars(run_threads)
  /\ \A t \in Threads : WF_vars(thread_routine(t))

Spec     == Init /\ [][Next]_vars
FairSpec == Spec /\ Fairness

-----------------------------------------------------------------------------
(***************************************************************************)
(* What is counted.  Block(t) is the set of items thread t is responsible  *)
(* for and Counted(t) the part of it that is in global_histogram: histo_4  *)
(* adds its block bucket by bucket, the other kernels item by item.        *)
(***************************************************************************)
Block(t) ==
  IF thread_rt_id = 0 THEN IF t = 0 THEN Items ELSE {}
                      ELSE t * STEP .. t * STEP + STEP - 1

Place(x) == IF thread_rt_id = 4 THEN data[x] % BUCKET_SIZE ELSE x
At(t)    == IF thread_rt_id = 4 THEN k[t] ELSE j[t]

Passed(t, x) == \/ Place(x) < At(t)
                \/ Place(x) = At(t) /\ pc[t] = "post"

Counted(t) == CASE pc[t] \in {"none", "entry"}  -> {}
                [] pc[t] \in {"done", "joined"} -> Block(t)
                [] OTHER -> {x \in Block(t) : Passed(t, x)}

AllCounted == UNION {Counted(t) : t \in Threads}

\* A kernel has been started on a zeroed histogram and not been judged yet,
\* or the histogram still holds its result.
KernelActive == mainpc \in {"create", "join", "hung", "check", "advance"}

\* Thread t holds its semaphore, and is between the halves of an increment.
Holds(t)     == thread_rt_id \in {1, 2, 4} /\ pc[t] \in {"load", "store", "post"}
Updating(t)  == pc[t] \in {"load", "store"}
Exists(t)    == pc[t] \notin {"none", "joined"}

-----------------------------------------------------------------------------
(***************************************************************************)
(* Safety.                                                                 *)
(***************************************************************************)

\* The types of the variables (declarations of util.c and thread.c).
TypeOK ==
  /\ data \in [Items -> 0 .. DATA_MAX - 1]
  /\ bucket \in [Buckets -> Nat]
  /\ global_histogram \in [Buckets -> Nat]
  /\ correctness \in [Routines -> {0, 1}]
  /\ mutex \in Nat
  /\ locks \in [Buckets -> Nat]
  /\ mainpc \in {"generate", "reset", "create", "join", "hung", "check",
                 "advance", "exit", "crashed"}
  /\ thread_rt_id \in Routines
  /\ i \in Threads
  /\ pc \in [Threads -> {"none", "entry", "wait", "load", "store", "add",
                         "count", "post", "done", "joined"}]
  /\ j \in [Threads -> Nat]
  /\ k \in [Threads -> Buckets]
  /\ reg \in [Threads -> Nat]
  /\ counts \in [Threads -> [Buckets -> Nat]]

\* Every thread reads data[] only inside its own block, histo_4's group of
\* UNROLL items included.
InBounds ==
  \A t \in Threads :
    /\ thread_rt_id # 4 /\ pc[t] \in {"wait", "load", "store", "add", "post"}
         => j[t] \in Block(t)
    /\ pc[t] = "count" => j[t] .. j[t] + UNROLL - 1 \subseteq Block(t)

\* Two threads are never inside the increment of the same bucket: what the
\* semaphores of histo_1, histo_2 and histo_4 are for, and what histo_0 gets
\* from running on one thread.
MutualExclusion ==
  \A t, u \in Threads :
    t # u /\ Updating(t) /\ Updating(u) => Slot(t) # Slot(u)

\* No increment is lost or done twice: at every moment a bucket holds exactly
\* the number of its items that the threads have gone past.
NoLostUpdate ==
  KernelActive =>
    \A b \in Buckets :
      global_histogram[b] = Cardinality(InBucket(AllCounted, b))

\* When every thread of a kernel was created and has been joined, the result
\* is bucket[], the reference main computed and never compares it with.
JoinedExact ==
  mainpc = "check" /\ (\A t \in Threads : pc[t] = "joined")
    => global_histogram = bucket

\* The sum check of run_threads is enough: a kernel it marks correct has
\* every bucket right, even when threads could not be created.
SumCheckSound ==
  mainpc = "advance" /\ correctness[thread_rt_id] = 1
    => global_histogram = bucket

\* Outside the create and join loops no thread exists that could write the
\* histogram main resets or reads, whatever pthread_create and pthread_join
\* returned.
NoStrayThread ==
  mainpc \in {"generate", "reset", "check", "advance", "exit"}
    => \A t \in Threads : ~Exists(t)

\* The semaphores go from kernel to kernel, locks[] from histo_2 to histo_4:
\* when no thread exists, every one is free.
SemaphoresFree ==
  (\A t \in Threads : ~Exists(t))
    => mutex = 1 /\ \A b \in Buckets : locks[b] = 1

-----------------------------------------------------------------------------
(***************************************************************************)
(* The inductive invariant that the safety properties follow from.         *)
(***************************************************************************)

\* The control points of every kernel between its entry and its return.
BodyOf(t) ==
  CASE thread_rt_id = 0 -> IF t = 0 THEN {"load", "store", "post"} ELSE {}
    [] thread_rt_id \in {1, 2} -> {"wait", "load", "store", "post"}
    [] thread_rt_id = 3 -> {"add", "post"}
    [] OTHER -> {"count", "wait", "load", "store", "post"}

Control ==
  \A t \in Threads :
    pc[t] \in {"none", "entry", "done", "joined"} \cup BodyOf(t)

\* Thread i is not created before iteration i of the create loop, and is gone
\* after iteration i of the join loop; outside the two loops none exists.
ThreadLifetimes ==
  /\ mainpc = "create" => \A t \in Threads : t >= i => pc[t] = "none"
  /\ mainpc = "join" => \A t \in Threads : t < i => ~Exists(t)
  /\ NoStrayThread

\* histo_4 is at the start of a group of UNROLL items of its block.
GroupAligned ==
  \A t \in Threads : pc[t] = "count" =>
    \E g \in 0 .. STEP : j[t] = First(t) + g * UNROLL /\ j[t] < Limit(t)

\* A semaphore is 0 exactly while a thread holds it, and one at most does.
SemaphoreInv ==
  /\ mutex = IF thread_rt_id = 1 /\ \E t \in Threads : Holds(t) THEN 0 ELSE 1
  /\ locks = [b \in Buckets |->
                IF /\ thread_rt_id \in {2, 4}
                   /\ \E t \in Threads : Holds(t) /\ Slot(t) = b
                THEN 0 ELSE 1]
  /\ \A t, u \in Threads : t # u /\ Holds(t) /\ Holds(u)
       => thread_rt_id \in {2, 4} /\ Slot(t) # Slot(u)

\* What a thread has read is still in the bucket when it writes back.
RegisterFresh ==
  \A t \in Threads : pc[t] = "store" => reg[t] = global_histogram[Slot(t)]

\* histo_4's locals: zero at the start, the reduction begins at bucket 0, and
\* the local histogram is exact for the items gone past.
LocalCounts ==
  \A t \in Threads :
    /\ pc[t] \in {"none", "entry", "done", "joined"} => counts[t] = ZeroHistogram
    /\ pc[t] \in {"none", "entry", "done", "joined", "count"} => k[t] = 0
    /\ pc[t] = "count" =>
         \A b \in Buckets :
           counts[t][b] = Cardinality(InBucket(First(t) .. j[t] - 1, b))
    /\ thread_rt_id = 4 /\ pc[t] \in {"wait", "load", "store", "post"} =>
         \A b \in Buckets : counts[t][b] = Cardinality(InBucket(Block(t), b))

\* bucket[] is the reference result once the data is there.
ReferenceRight ==
  mainpc # "generate"
    => \A b \in Buckets : bucket[b] = Cardinality(InBucket(Items, b))

\* The inductive invariant (all the synchronisation of the five kernels).
IndInv ==
  /\ TypeOK /\ Control /\ ThreadLifetimes /\ GroupAligned /\ InBounds
  /\ SemaphoreInv
  /\ RegisterFresh /\ LocalCounts /\ NoLostUpdate /\ ReferenceRight

-----------------------------------------------------------------------------
(***************************************************************************)
(* Liveness.                                                               *)
(***************************************************************************)

\* When every thread can be created, run_threads ends with all five kernels
\* marked correct: no semaphore blocks a thread for ever.
EveryKernelPasses ==
  <>(mainpc = "exit" /\ \A r \in Routines : correctness[r] = 1)

\* Main waits for ever for a thread that does not exist: one that could not
\* be created, or one joined already in its place.
AbandonedByJoin ==
  /\ mainpc = "hung" /\ pc[i] \in {"none", "joined"}
  /\ \E t \in Threads : pc[t] = "none"

\* Whatever fails, nothing in the end waits for a thread or a semaphore of
\* this program: the process is gone, or the unchecked pthread_create failed
\* and main alone is left in a join that never returns, while every thread
\* has returned and given back every semaphore.
OnlyStaleJoinHangs ==
  <>[](\/ mainpc \in {"exit", "crashed"}
      \/ /\ AbandonedByJoin /\ KernelOver
         /\ mutex = 1 /\ \A b \in Buckets : locks[b] = 1)

=============================================================================
