--------------------------- MODULE ThreadLabProofs ---------------------------
(***************************************************************************)
(* Machine-checked proofs about ThreadLab, for every size of the data, any *)
(* number of threads, values and buckets, with or without failures of      *)
(* pthread_create.                                                         *)
(***************************************************************************)
EXTENDS ThreadLab, FiniteSetTheorems, TLAPS

-----------------------------------------------------------------------------
(***************************************************************************)
(* Facts about the constants.                                              *)
(***************************************************************************)

\* The remainder of an item is a bucket (data[j] % BUCKET_SIZE in thread.c).
LEMMA ModInBuckets ==
  ASSUME NEW v \in Nat
  PROVE  v % BUCKET_SIZE \in Buckets
BY SizeAssumption DEF Buckets

\* The sizes are natural numbers.
LEMMA SizesPositive ==
  /\ DATA_SIZE \in Nat \ {0} /\ NTHREADS \in Nat \ {0} /\ STEP \in Nat \ {0}
  /\ BUCKET_SIZE \in Nat \ {0} /\ UNROLL \in Nat \ {0} /\ DATA_MAX \in Nat \ {0}
BY SizeAssumption

\* The block of a thread lies inside data[] (the loop bounds of thread.c).
LEMMA BlockBounds ==
  ASSUME NEW t \in Threads
  PROVE  /\ t * STEP \in Nat
         /\ t * STEP + STEP \in Nat
         /\ t * STEP + STEP <= DATA_SIZE
<1> USE SizesPositive
<1>1. t \in Nat /\ t + 1 <= NTHREADS
  BY DEF Threads
<1>2. \E d \in Nat : NTHREADS = t + 1 + d
  BY <1>1
<1>3. PICK d \in Nat : NTHREADS = t + 1 + d
  BY <1>2
<1>4. NTHREADS * STEP = t * STEP + STEP + d * STEP
  BY <1>1, <1>3
<1>5. t * STEP \in Nat /\ d * STEP \in Nat
  BY <1>1
<1> QED
  BY <1>4, <1>5, SizeAssumption

\* The blocks of two threads have no item in common.
LEMMA BlocksApart ==
  ASSUME NEW t \in Threads, NEW u \in Threads, t < u
  PROVE  t * STEP + STEP <= u * STEP
<1> USE SizesPositive
<1>1. PICK d \in Nat : u = t + 1 + d
  BY DEF Threads
<1>2. u * STEP = t * STEP + STEP + d * STEP
  BY <1>1 DEF Threads
<1> QED
  BY <1>2 DEF Threads

\* Division with remainder.
LEMMA DivMod ==
  ASSUME NEW x \in Int, NEW b \in Int, b > 0
  PROVE  x \div b \in Int /\ x % b \in 0 .. b - 1 /\ x = b * (x \div b) + (x % b)
<1>1. x \div b \in Int /\ x % b \in 0 .. b - 1
  OBVIOUS
<1>2. x = b * (x \div b) + (x % b)
  BY SMTT(30)
<1> QED
  BY <1>1, <1>2

\* Every item is in the block of some thread: the division of data[] among
\* the threads leaves no remainder.
LEMMA BlocksCover ==
  ASSUME NEW x \in Items
  PROVE  \E t \in Threads : t * STEP <= x /\ x < t * STEP + STEP
<1>1. PICK t \in Int, r \in 0 .. STEP - 1 : x = STEP * t + r
  <2>1. x \in Int /\ STEP \in Int /\ STEP > 0
    BY SizesPositive DEF Items
  <2>2. /\ x \div STEP \in Int /\ x % STEP \in 0 .. STEP - 1
        /\ x = STEP * (x \div STEP) + (x % STEP)
    BY <2>1, DivMod
  <2> QED
    BY <2>2, Zenon
<1>2. STEP \in Nat /\ STEP > 0 /\ x \in Nat /\ x < NTHREADS * STEP
      /\ NTHREADS \in Nat /\ STEP * t \in Int /\ STEP * t = t * STEP
  BY SizesPositive, SizeAssumption DEF Items
<1>3. t >= 0
  <2>1. SUFFICES ASSUME t + 1 <= 0 PROVE FALSE
    OBVIOUS
  <2>2. PICK d \in Nat : t = -1 - d
    BY <2>1
  <2>3. STEP * t = -STEP - STEP * d /\ STEP * d \in Nat
    BY <2>2, <1>2
  <2> QED
    BY <2>3, <1>1, <1>2
<1>4. t < NTHREADS
  <2>1. SUFFICES ASSUME t >= NTHREADS PROVE FALSE
    BY <1>2
  <2>2. PICK d \in Nat : t = NTHREADS + d
    BY <1>2, <2>1
  <2>3. STEP * t = NTHREADS * STEP + STEP * d /\ STEP * d \in Nat
        /\ NTHREADS * STEP \in Nat
    BY <2>2, <1>2
  <2> QED
    BY <2>3, <1>1, <1>2
<1>5. t \in Threads
  BY <1>2, <1>3, <1>4 DEF Threads
<1>6. t * STEP <= x /\ x < t * STEP + STEP
  BY <1>1, <1>2
<1> QED
  BY <1>5, <1>6

\* A group of histo_4's unrolled loop that starts inside a block ends inside
\* it: UNROLL divides STEP.
LEMMA GroupFits ==
  ASSUME NEW g \in Nat, g * UNROLL < STEP
  PROVE  g * UNROLL + UNROLL <= STEP
<1> USE SizesPositive
<1>1. PICK n \in 1 .. STEP : STEP = n * UNROLL
  BY SizeAssumption
<1>2. g < n
  <2>1. SUFFICES ASSUME g >= n PROVE FALSE
    BY <1>1
  <2>2. PICK d \in Nat : g = n + d
    BY <2>1
  <2>3. g * UNROLL = n * UNROLL + d * UNROLL
    BY <2>2
  <2> QED
    BY <2>3, <1>1
<1>3. PICK d \in Nat : n = g + 1 + d
  BY <1>2
<1>4. n * UNROLL = g * UNROLL + UNROLL + d * UNROLL
  BY <1>3
<1> QED
  BY <1>1, <1>4

-----------------------------------------------------------------------------
(***************************************************************************)
(* The shape of a state: types, control points, the life of the threads    *)
(* and the part of data[] each of them is in.                              *)
(***************************************************************************)
Shape == TypeOK /\ Control /\ ThreadLifetimes /\ GroupAligned /\ InBounds

\* What thread_routine(t) can be, by the kind of step instead of the kernel.
LEMMA ThreadStepCases ==
  ASSUME NEW t \in Threads, thread_routine(t)
  PROVE  \/ \E to \in BodyOf(t) :
              /\ Enter(t, to)
              /\ to = CASE thread_rt_id = 0 -> "load"
                        [] thread_rt_id \in {1, 2} -> "wait"
                        [] thread_rt_id = 3 -> "add"
                        [] OTHER -> "count"
         \/ /\ thread_rt_id = 0 /\ t # 0 /\ pc[t] = "entry" /\ Return(t)
            /\ UNCHANGED <<inputs, global_histogram, sems, mainVars, reg>>
         \/ thread_rt_id = 1 /\ Acquire(t, WaitMutex)
         \/ thread_rt_id \in {2, 4} /\ Acquire(t, WaitLock(Slot(t)))
         \/ thread_rt_id \in {0, 1, 2, 4} /\ Load(t)
         \/ thread_rt_id \in {0, 1, 2, 4} /\ Store(t)
         \/ thread_rt_id = 3 /\ FetchAndAdd(t)
         \/ thread_rt_id = 4 /\ CountLocally(t)
         \/ thread_rt_id = 0 /\ NextItem(t, "load") /\ UNCHANGED sems
         \/ thread_rt_id = 1 /\ NextItem(t, "wait") /\ PostMutex
         \/ thread_rt_id = 2 /\ NextItem(t, "wait") /\ PostLock(Slot(t))
         \/ thread_rt_id = 3 /\ NextItem(t, "add") /\ UNCHANGED sems
         \/ thread_rt_id = 4 /\ NextBucket(t) /\ PostLock(Slot(t))
<1>0. CASE histo_0(t)
  BY <1>0 DEF histo_0, BodyOf
<1>1. CASE histo_1(t)
  BY <1>1 DEF histo_1, BodyOf
<1>2. CASE histo_2(t)
  BY <1>2 DEF histo_2, BodyOf
<1>3. CASE histo_3(t)
  BY <1>3 DEF histo_3, BodyOf
<1>4. CASE histo_4(t)
  <2>1. thread_rt_id = 4 /\ Slot(t) = k[t]
    BY <1>4 DEF histo_4, Slot
  <2> QED
    BY <1>4, <2>1 DEF histo_4, BodyOf
<1> QED
  BY <1>0, <1>1, <1>2, <1>3, <1>4 DEF thread_routine

\* The bounds of the loop over a block.
LEMMA BlockFacts ==
  ASSUME NEW t \in Threads, thread_rt_id \in Routines
  PROVE  /\ First(t) \in Nat /\ Limit(t) \in Nat
         /\ First(t) < Limit(t) /\ Limit(t) <= DATA_SIZE
         /\ Block(t) \subseteq Items
         /\ thread_rt_id # 0 \/ t = 0 => Block(t) = First(t) .. Limit(t) - 1
         /\ thread_rt_id # 0 => First(t) = t * STEP /\ Limit(t) = First(t) + STEP
<1>1. /\ First(t) \in Nat /\ Limit(t) \in Nat
      /\ First(t) < Limit(t) /\ Limit(t) <= DATA_SIZE
  BY BlockBounds, SizesPositive DEF First, Limit
<1>2. thread_rt_id # 0 \/ t = 0 => Block(t) = First(t) .. Limit(t) - 1
  <2>1. CASE thread_rt_id = 0
    BY <2>1 DEF Block, First, Limit, Items
  <2>2. CASE thread_rt_id # 0
    <3>1. Block(t) = t * STEP .. t * STEP + STEP - 1
      BY <2>2 DEF Block
    <3>2. First(t) = t * STEP /\ Limit(t) = t * STEP + STEP
      BY <2>2 DEF First, Limit
    <3>3. t * STEP \in Int /\ STEP \in Int
      BY BlockBounds, SizesPositive
    <3> QED
      BY <3>1, <3>2, <3>3
  <2> QED
    BY <2>1, <2>2
<1>3. Block(t) \subseteq Items
  <2>1. CASE thread_rt_id = 0 /\ t # 0
    BY <2>1 DEF Block
  <2>2. CASE thread_rt_id # 0 \/ t = 0
    BY <1>1, <1>2, <2>2, SizesPositive DEF Items
  <2> QED
    BY <2>1, <2>2
<1>4. thread_rt_id # 0 => First(t) = t * STEP /\ Limit(t) = First(t) + STEP
  BY DEF First, Limit
<1> QED
  BY <1>1, <1>2, <1>3, <1>4

\* The bucket a thread updates exists: no kernel indexes outside
\* global_histogram[] or locks[].
LEMMA SlotInBuckets ==
  ASSUME NEW t \in Threads, TypeOK, InBounds,
         pc[t] \in {"wait", "load", "store", "add", "post"}
  PROVE  Slot(t) \in Buckets
<1>1. CASE thread_rt_id = 4
  BY <1>1 DEF Slot, TypeOK
<1>2. CASE thread_rt_id # 4
  <2>1. j[t] \in Items
    BY <1>2, BlockFacts DEF InBounds, TypeOK
  <2>2. data[j[t]] \in Nat
    BY <2>1, SizesPositive DEF TypeOK
  <2> QED
    BY <2>2, <1>2, ModInBuckets DEF Slot
<1> QED
  BY <1>1, <1>2

LEMMA ShapeInit == Init => Shape
<1> SUFFICES ASSUME Init PROVE Shape
  OBVIOUS
<1> USE SizesPositive
<1>1. TypeOK
  BY DEF Init, TypeOK, ZeroHistogram, Threads, Items, Buckets, Routines
<1>2. Control /\ ThreadLifetimes /\ GroupAligned /\ InBounds
  BY DEF Init, Control, ThreadLifetimes, NoStrayThread, Exists, GroupAligned,
         InBounds
<1> QED
  BY <1>1, <1>2 DEF Shape

\* One iteration of the create or the join loop.
LEMMA NextThreadCases ==
  ASSUME NEW next, i \in Threads, NextThread(next)
  PROVE  /\ i' \in Threads
         /\ \/ i' = i + 1 /\ mainpc' = mainpc
            \/ i + 1 = NTHREADS /\ i' = 0 /\ mainpc' = next
BY SizesPositive DEF NextThread, Threads

\* A step of the main thread: i stays the number of a thread, and the loops
\* leave no thread behind them.
LEMMA ShapeMain ==
  ASSUME Shape, run_threads
  PROVE  Shape'
<1> USE SizesPositive DEF Shape
<1>1. CASE GenerateData
  <2>1. bucket' \in [Buckets -> Nat]
    <3>1. ASSUME NEW b \in Buckets
          PROVE  Cardinality(InBucket(Items, b)') \in Nat
      <4>1. IsFiniteSet(Items)
        BY FS_Interval DEF Items
      <4>2. InBucket(Items, b)' \in SUBSET Items
        BY DEF InBucket
      <4> QED
        BY <4>1, <4>2, FS_Subset, FS_CardinalityType
    <3> QED
      BY <3>1, <1>1 DEF GenerateData
  <2>2. TypeOK'
    <3>1. data' \in [Items -> 0 .. DATA_MAX - 1] /\ mainpc' = "reset"
      BY <1>1 DEF GenerateData
    <3>2. UNCHANGED <<global_histogram, correctness, mutex, locks,
                      thread_rt_id, i, pc, j, k, reg, counts>>
      BY <1>1 DEF GenerateData, sems, locals
    <3> QED
      BY <2>1, <3>1, <3>2 DEF TypeOK
  <2>3. (Control /\ ThreadLifetimes /\ GroupAligned /\ InBounds)'
    BY <1>1 DEF GenerateData, sems, Control, BodyOf, ThreadLifetimes,
         NoStrayThread, Exists, GroupAligned, InBounds
  <2> QED
    BY <2>2, <2>3
<1>2. CASE ResetHistogram
  <2>1. TypeOK'
    <3>1. /\ global_histogram' \in [Buckets -> Nat] /\ i' \in Threads
          /\ pc' \in [Threads -> {"none"}] /\ mainpc' = "create"
      BY <1>2 DEF ResetHistogram, ZeroHistogram, Threads
    <3>2. UNCHANGED <<data, bucket, correctness, mutex, locks,
                      thread_rt_id, j, k, reg, counts>>
      BY <1>2 DEF ResetHistogram, inputs, sems, locals
    <3> QED
      BY <3>1, <3>2 DEF TypeOK
  <2>2. (Control /\ ThreadLifetimes /\ GroupAligned /\ InBounds)'
    BY <1>2 DEF ResetHistogram, TypeOK, Control, ThreadLifetimes,
         NoStrayThread, Exists, GroupAligned, InBounds
  <2> QED
    BY <2>1, <2>2
<1>3. CASE CreateThread
  <2>1. UNCHANGED <<data, bucket, global_histogram, correctness, mutex, locks,
                    thread_rt_id, j, k, reg, counts>>
    BY <1>3 DEF CreateThread, inputs, sems, locals
  <2>2. /\ i' \in Threads /\ mainpc' \in {"create", "join"}
        /\ pc' \in [Threads -> {"none", "entry", "wait", "load", "store", "add",
                               "count", "post", "done", "joined"}]
        /\ \A t \in Threads : pc'[t] = pc[t] \/ pc'[t] = "entry"
    <3>1. i \in Threads /\ NextThread("join") /\ mainpc = "create"
      BY <1>3 DEF CreateThread, TypeOK
    <3>2. i' \in Threads /\ mainpc' \in {"create", "join"}
      BY <3>1, NextThreadCases
    <3>3. pc' = pc \/ pc' = [pc EXCEPT ![i] = "entry"]
      BY <1>3 DEF CreateThread
    <3> QED
      BY <3>1, <3>2, <3>3 DEF TypeOK
  <2>3. TypeOK'
    BY <2>1, <2>2 DEF TypeOK
  <2>4. (Control /\ GroupAligned /\ InBounds)'
    BY <2>1, <2>2 DEF Control, BodyOf, GroupAligned, InBounds, First, Limit, Block
  <2>5. ThreadLifetimes'
    <3>1. i \in Threads /\ NextThread("join") /\ mainpc = "create"
      BY <1>3 DEF CreateThread, TypeOK
    <3>2. \/ i' = i + 1 /\ mainpc' = mainpc
          \/ i + 1 = NTHREADS /\ i' = 0 /\ mainpc' = "join"
      BY <3>1, NextThreadCases
    <3>3. \A t \in Threads : t # i => pc'[t] = pc[t]
      BY <1>3 DEF CreateThread, TypeOK
    <3> QED
      BY <3>1, <3>2, <3>3, <2>2 DEF ThreadLifetimes, NoStrayThread, Exists, Threads
  <2> QED
    BY <2>3, <2>4, <2>5
<1>4. CASE JoinThread
  <2>1. UNCHANGED <<data, bucket, global_histogram, correctness, mutex, locks,
                    thread_rt_id, j, k, reg, counts>>
    BY <1>4 DEF JoinThread, inputs, sems, locals
  <2>2. /\ i' \in Threads /\ mainpc' \in {"join", "check"}
        /\ pc' \in [Threads -> {"none", "entry", "wait", "load", "store", "add",
                               "count", "post", "done", "joined"}]
        /\ \A t \in Threads : pc'[t] = pc[t] \/ pc'[t] = "joined"
    <3>1. i \in Threads /\ NextThread("check") /\ mainpc = "join"
      BY <1>4 DEF JoinThread, TypeOK
    <3>2. i' \in Threads /\ mainpc' \in {"join", "check"}
      BY <3>1, NextThreadCases
    <3>3. pc' = pc \/ pc' = [pc EXCEPT ![i] = "joined"]
      BY <1>4 DEF JoinThread
    <3> QED
      BY <3>1, <3>2, <3>3 DEF TypeOK
  <2>3. TypeOK'
    BY <2>1, <2>2 DEF TypeOK
  <2>4. (Control /\ GroupAligned /\ InBounds)'
    BY <2>1, <2>2 DEF Control, BodyOf, GroupAligned, InBounds, First, Limit, Block
  <2>5. ThreadLifetimes'
    <3>1. i \in Threads /\ NextThread("check") /\ mainpc = "join"
      BY <1>4 DEF JoinThread, TypeOK
    <3>2. \/ i' = i + 1 /\ mainpc' = mainpc
          \/ i + 1 = NTHREADS /\ i' = 0 /\ mainpc' = "check"
      BY <3>1, NextThreadCases
    <3>3. pc'[i] = "joined"
      BY <1>4 DEF JoinThread, TypeOK
    <3> QED
      BY <3>1, <3>2, <3>3, <2>2 DEF ThreadLifetimes, NoStrayThread, Exists, Threads
  <2> QED
    BY <2>3, <2>4, <2>5
<1>5. CASE JoinStale
  <2>1. UNCHANGED <<data, bucket, global_histogram, correctness, mutex, locks,
                    thread_rt_id, j, k, reg, counts>>
    BY <1>5 DEF JoinStale, inputs, sems, locals
  <2>2. /\ i' \in Threads /\ mainpc' \in {"join", "check", "hung", "crashed"}
        /\ pc' \in [Threads -> {"none", "entry", "wait", "load", "store", "add",
                               "count", "post", "done", "joined"}]
        /\ \A t \in Threads : pc'[t] = pc[t] \/ pc'[t] = "joined"
    <3>1. i \in Threads /\ mainpc = "join"
          /\ \/ NextThread("check")
             \/ mainpc' \in {"hung", "crashed"} /\ i' = i
      BY <1>5 DEF JoinStale, TypeOK
    <3>2. i' \in Threads /\ mainpc' \in {"join", "check", "hung", "crashed"}
      BY <3>1, NextThreadCases
    <3>3. pc' = pc \/ \E u \in Threads : pc' = [pc EXCEPT ![u] = "joined"]
      BY <1>5 DEF JoinStale
    <3> QED
      BY <3>1, <3>2, <3>3 DEF TypeOK
  <2>3. TypeOK'
    BY <2>1, <2>2 DEF TypeOK
  <2>4. (Control /\ GroupAligned /\ InBounds)'
    BY <2>1, <2>2 DEF Control, BodyOf, GroupAligned, InBounds, First, Limit, Block
  <2>5. ThreadLifetimes'
    <3>1. /\ i \in Threads /\ mainpc = "join" /\ pc[i] \in {"none", "joined"}
          /\ NextThread("check") \/ mainpc' \in {"hung", "crashed"}
      BY <1>5 DEF JoinStale, TypeOK
    <3>2. \/ i' = i + 1 /\ mainpc' = mainpc
          \/ i + 1 = NTHREADS /\ i' = 0 /\ mainpc' = "check"
          \/ mainpc' \in {"hung", "crashed"}
      BY <3>1, NextThreadCases
    <3> QED
      BY <3>1, <3>2, <2>2 DEF ThreadLifetimes, NoStrayThread, Exists, Threads
  <2> QED
    BY <2>3, <2>4, <2>5
<1>6. CASE CheckSum
  BY <1>6 DEF CheckSum, TypeOK, sems, inputs, locals, Control, BodyOf,
       ThreadLifetimes, NoStrayThread, Exists, GroupAligned, InBounds, First,
       Limit, Block
<1>7. CASE NextRoutine
  <2>1. TypeOK'
    <3>1. thread_rt_id' \in Routines /\ mainpc' \in {"reset", "exit"}
      BY <1>7 DEF NextRoutine, TypeOK, Routines
    <3>2. UNCHANGED <<data, bucket, global_histogram, correctness, mutex, locks,
                      i, pc, j, k, reg, counts>>
      BY <1>7 DEF NextRoutine, inputs, sems, locals
    <3> QED
      BY <3>1, <3>2 DEF TypeOK
  <2>2. \A t \in Threads : pc[t] \in {"none", "joined"} /\ pc' = pc
    BY <1>7 DEF NextRoutine, ThreadLifetimes, NoStrayThread, Exists, sems,
         inputs, locals
  <2>3. (Control /\ ThreadLifetimes /\ GroupAligned /\ InBounds)'
    BY <1>7, <2>2 DEF NextRoutine, Control, ThreadLifetimes, NoStrayThread,
         Exists, GroupAligned, InBounds
  <2> QED
    BY <2>1, <2>3
<1> QED
  BY <1>1, <1>2, <1>3, <1>4, <1>5, <1>6, <1>7 DEF run_threads

\* A step of a thread: it stays in its kernel and in its block.
LEMMA ShapeThread ==
  ASSUME Shape, NEW t \in Threads, thread_routine(t)
  PROVE  Shape'
<1> USE SizesPositive DEF Shape
<1>0. thread_rt_id \in Routines /\ First(t) \in Nat /\ Limit(t) \in Nat
  BY BlockFacts DEF TypeOK
<1> DEFINE Frame == UNCHANGED <<data, bucket, correctness, mainpc, thread_rt_id, i>>
           Elsewhere(f) == \A u \in Threads : u # t => f'[u] = f[u]
\* What an effect on the thread's locals has to satisfy.
<1>1. ASSUME Frame, TypeOK', Elsewhere(pc), Elsewhere(j), pc[t] \notin {"none", "joined"},
             pc'[t] \notin {"none", "joined"},
             pc'[t] \in {"entry", "done"} \cup BodyOf(t),
             (thread_rt_id # 4 /\ pc'[t] \in {"wait", "load", "store", "add", "post"})
               => j'[t] \in Block(t),
             pc'[t] = "count" =>
               \E g \in 0 .. STEP : j'[t] = First(t) + g * UNROLL /\ j'[t] < Limit(t)
      PROVE  Shape'
  <2>1. Control'
    BY <1>1 DEF Control, BodyOf, TypeOK
  <2>2. ThreadLifetimes'
    BY <1>1 DEF ThreadLifetimes, NoStrayThread, Exists, TypeOK
  <2>3. GroupAligned'
    BY <1>1 DEF GroupAligned, First, Limit, TypeOK
  <2>4. InBounds'
    <3> SUFFICES ASSUME NEW u \in Threads
                 PROVE  /\ (thread_rt_id' # 4 /\ pc'[u] \in {"wait", "load", "store", "add", "post"}
                             => j'[u] \in Block(u)')
                        /\ (pc'[u] = "count" => (j'[u] .. j'[u] + UNROLL - 1) \subseteq Block(u)')
      BY DEF InBounds
    <3>1. Block(u)' = Block(u)
      BY <1>1 DEF Block, First, Limit
    <3>2. CASE u # t
      BY <3>1, <3>2, <1>1 DEF InBounds
    <3>3. CASE u = t
      <4>1. ASSUME pc'[t] = "count"
            PROVE  (j'[t] .. j'[t] + UNROLL - 1) \subseteq Block(t)
        <5>1. thread_rt_id = 4
          BY <1>0, <1>1, <4>1 DEF BodyOf, Routines
        <5>2. PICK g \in 0 .. STEP : j'[t] = First(t) + g * UNROLL /\ j'[t] < Limit(t)
          BY <1>1, <4>1
        <5>3. Block(t) = First(t) .. Limit(t) - 1 /\ Limit(t) = First(t) + STEP
          BY <5>1, <1>0, BlockFacts
        <5>4. g * UNROLL \in Nat /\ g * UNROLL < STEP
          BY <5>2, <5>3, <1>0
        <5>5. g * UNROLL + UNROLL <= STEP
          BY <5>4, GroupFits
        <5> QED
          BY <5>2, <5>3, <5>4, <5>5, <1>0
      <4> QED
        BY <3>1, <3>3, <4>1, <1>1
    <3> QED
      BY <3>2, <3>3
  <2> QED
    BY <1>1, <2>1, <2>2, <2>3, <2>4
<1> HIDE DEF Shape
<1>s. TypeOK /\ Control /\ ThreadLifetimes /\ GroupAligned /\ InBounds
  BY DEF Shape
<1>2. ASSUME NEW to \in BodyOf(t), Enter(t, to),
             to = CASE thread_rt_id = 0 -> "load"
                    [] thread_rt_id \in {1, 2} -> "wait"
                    [] thread_rt_id = 3 -> "add"
                    [] OTHER -> "count"
      PROVE  Shape'
  <2>1. /\ Frame /\ UNCHANGED <<global_histogram, mutex, locks, k, reg, counts>>
        /\ pc[t] = "entry" /\ pc' = [pc EXCEPT ![t] = to]
        /\ j' = [j EXCEPT ![t] = First(t)]
    BY <1>2 DEF Enter, Goto, inputs, sems, mainVars
  <2>2. /\ to \in {"load", "wait", "add", "count"}
        /\ to = "count" => thread_rt_id = 4
        /\ thread_rt_id = 0 => t = 0
    BY <1>2, <1>0 DEF BodyOf, Routines
  <2>3. TypeOK'
    BY <2>1, <2>2, <1>0, <1>s DEF TypeOK
  <2>4. First(t) \in Block(t) /\ First(t) < Limit(t)
    BY <2>2, <1>0, BlockFacts
  <2>5. First(t) = First(t) + 0 * UNROLL /\ 0 \in 0 .. STEP
    BY <1>0
  <2> QED
    BY <1>1, <1>2, <1>s, <2>1, <2>2, <2>3, <2>4, <2>5 DEF TypeOK
\* The thread leaves its kernel.
<1>3. ASSUME Frame, Return(t), pc[t] \in {"entry", "post"},
             mutex' \in Nat, locks' \in [Buckets -> Nat],
             UNCHANGED <<global_histogram, reg>>
      PROVE  Shape'
  <2>1. /\ pc' = [pc EXCEPT ![t] = "done"] /\ j' = [j EXCEPT ![t] = 0]
        /\ k' = [k EXCEPT ![t] = 0] /\ counts' = [counts EXCEPT ![t] = ZeroHistogram]
        /\ ZeroHistogram \in [Buckets -> Nat] /\ 0 \in Buckets
    BY <1>3 DEF Return, ZeroHistogram, Buckets
  <2>2. TypeOK'
    BY <2>1, <1>3, <1>s DEF TypeOK
  <2> QED
    BY <1>1, <1>3, <1>s, <2>1, <2>2 DEF TypeOK
\* The thread moves to another label of its kernel and keeps its indices.
<1>4. ASSUME NEW to \in BodyOf(t), to # "count", pc' = [pc EXCEPT ![t] = to],
             pc[t] \in {"wait", "load", "store", "add"},
             to \in {"load", "store", "post"},
             Frame, UNCHANGED <<j, k, counts>>,
             mutex' \in Nat, locks' \in [Buckets -> Nat],
             global_histogram' \in [Buckets -> Nat], reg' \in [Threads -> Nat]
      PROVE  Shape'
  <2>1. TypeOK'
    BY <1>4, <1>s DEF TypeOK
  <2> QED
    BY <1>1, <1>4, <1>s, <2>1 DEF TypeOK, InBounds
<1>5. CASE thread_rt_id = 1 /\ Acquire(t, WaitMutex)
  <2>1. mutex' \in Nat /\ locks' = locks
    BY <1>5, <1>s DEF Acquire, WaitMutex, TypeOK
  <2>2. /\ Frame /\ UNCHANGED <<global_histogram, j, k, reg, counts>>
        /\ pc[t] = "wait" /\ pc' = [pc EXCEPT ![t] = "load"]
    BY <1>5 DEF Acquire, Goto, inputs, mainVars, locals
  <2>3. "load" \in BodyOf(t)
    BY <1>5 DEF BodyOf
  <2> QED
    BY <1>4, <1>s, <2>1, <2>2, <2>3 DEF TypeOK
<1>6. CASE thread_rt_id \in {2, 4} /\ Acquire(t, WaitLock(Slot(t)))
  <2>1. mutex' = mutex /\ locks' \in [Buckets -> Nat]
    <3>1. pc[t] = "wait"
      BY <1>6 DEF Acquire, Goto
    <3>2. Slot(t) \in Buckets
      BY <3>1, <1>s, SlotInBuckets
    <3> QED
      BY <1>6, <1>s, <3>2 DEF Acquire, WaitLock, TypeOK
  <2>2. /\ Frame /\ UNCHANGED <<global_histogram, j, k, reg, counts>>
        /\ pc[t] = "wait" /\ pc' = [pc EXCEPT ![t] = "load"]
    BY <1>6 DEF Acquire, Goto, inputs, mainVars, locals
  <2>3. "load" \in BodyOf(t)
    BY <1>6 DEF BodyOf
  <2> QED
    BY <1>4, <1>s, <2>1, <2>2, <2>3 DEF TypeOK
<1>7. CASE thread_rt_id \in {0, 1, 2, 4} /\ Load(t)
  <2>1. pc[t] = "load" /\ Slot(t) \in Buckets
    BY <1>7, <1>s, SlotInBuckets DEF Load, Goto
  <2>2. reg' \in [Threads -> Nat]
    BY <1>7, <1>s, <2>1 DEF Load, TypeOK
  <2>3. "store" \in BodyOf(t)
    BY <1>7, <1>s, <2>1 DEF BodyOf, Control
  <2> QED
    BY <1>4, <1>7, <1>s, <2>1, <2>2, <2>3
       DEF Load, Goto, TypeOK, inputs, mainVars, sems
<1>8. CASE thread_rt_id \in {0, 1, 2, 4} /\ Store(t)
  <2>1. pc[t] = "store" /\ Slot(t) \in Buckets
    BY <1>8, <1>s, SlotInBuckets DEF Store, Goto
  <2>2. Addend(t) \in Nat
    BY <1>s DEF Addend, TypeOK
  <2>3. global_histogram' \in [Buckets -> Nat] /\ reg' \in [Threads -> Nat]
    BY <1>8, <1>s, <2>1, <2>2 DEF Store, TypeOK
  <2>4. "post" \in BodyOf(t)
    BY <1>8, <1>s, <2>1 DEF BodyOf, Control
  <2> QED
    BY <1>4, <1>8, <1>s, <2>1, <2>3, <2>4
       DEF Store, Goto, TypeOK, inputs, mainVars, sems
<1>9. CASE thread_rt_id = 3 /\ FetchAndAdd(t)
  <2>1. pc[t] = "add" /\ Slot(t) \in Buckets /\ Addend(t) = 1
    BY <1>9, <1>s, SlotInBuckets DEF FetchAndAdd, Goto, Addend
  <2>2. global_histogram' \in [Buckets -> Nat]
    BY <1>9, <1>s, <2>1 DEF FetchAndAdd, TypeOK
  <2>3. /\ Frame /\ UNCHANGED <<mutex, locks, j, k, reg, counts>>
        /\ pc[t] = "add" /\ pc' = [pc EXCEPT ![t] = "post"]
    BY <1>9 DEF FetchAndAdd, Goto, inputs, mainVars, sems, locals
  <2>4. "post" \in BodyOf(t)
    BY <1>9 DEF BodyOf
  <2> QED
    BY <1>4, <1>s, <2>2, <2>3, <2>4 DEF TypeOK
<1>10. CASE thread_rt_id = 4 /\ CountLocally(t)
  <2>1. /\ Frame /\ UNCHANGED <<global_histogram, mutex, locks, k, reg>>
        /\ pc[t] = "count" /\ j' = [j EXCEPT ![t] = @ + UNROLL]
        /\ pc' = IF j[t] + UNROLL < Limit(t) THEN pc
                                             ELSE [pc EXCEPT ![t] = "wait"]
    BY <1>10 DEF CountLocally, inputs, mainVars, sems
  <2>2. counts' \in [Threads -> [Buckets -> Nat]]
    <3>1. ASSUME NEW b \in Buckets
          PROVE  Cardinality(InBucket(j[t] .. j[t] + UNROLL - 1, b)) \in Nat
      <4>1. IsFiniteSet(j[t] .. j[t] + UNROLL - 1)
        BY <1>s, FS_Interval DEF TypeOK
      <4>2. InBucket(j[t] .. j[t] + UNROLL - 1, b) \in SUBSET (j[t] .. j[t] + UNROLL - 1)
        BY DEF InBucket
      <4> QED
        BY <4>1, <4>2, FS_Subset, FS_CardinalityType
    <3>2. counts' = [counts EXCEPT ![t] = [b \in Buckets |->
             counts[t][b] + Cardinality(InBucket(j[t] .. j[t] + UNROLL - 1, b))]]
      BY <1>10 DEF CountLocally
    <3>3. \A b \in Buckets : counts[t][b] \in Nat
      BY <1>s DEF TypeOK
    <3>4. [b \in Buckets |->
             counts[t][b] + Cardinality(InBucket(j[t] .. j[t] + UNROLL - 1, b))]
            \in [Buckets -> Nat]
      BY <3>1, <3>3
    <3> QED
      BY <1>s, <3>2, <3>4 DEF TypeOK
  <2>3. TypeOK'
    <3>1. j' \in [Threads -> Nat]
      BY <1>s, <2>1 DEF TypeOK
    <3>2. pc' = pc \/ pc' = [pc EXCEPT ![t] = "wait"]
      BY <2>1
    <3> QED
      BY <1>s, <2>1, <2>2, <3>1, <3>2 DEF TypeOK
  <2>4. "count" \in BodyOf(t) /\ "wait" \in BodyOf(t)
    BY <1>10 DEF BodyOf
  <2>5. ASSUME j[t] + UNROLL < Limit(t)
        PROVE  \E g \in 0 .. STEP : j'[t] = First(t) + g * UNROLL
    <3>1. PICK g \in 0 .. STEP : j[t] = First(t) + g * UNROLL
      BY <1>s, <2>1 DEF GroupAligned
    <3>2. (g + 1) * UNROLL = g * UNROLL + UNROLL /\ g * UNROLL \in Nat
      BY <3>1
    <3>3. j'[t] = First(t) + (g + 1) * UNROLL
      BY <1>s, <1>0, <2>1, <3>1, <3>2 DEF TypeOK
    <3>4. g + 1 <= (g + 1) * UNROLL
      <4>1. PICK d \in Nat : UNROLL = 1 + d
        OBVIOUS
      <4>2. (g + 1) * UNROLL = g + 1 + (g + 1) * d /\ (g + 1) * d \in Nat
        BY <4>1, <3>1
      <4> QED
        BY <4>2
    <3>5. (g + 1) * UNROLL < STEP
      BY <1>10, <1>0, <1>s, <2>1, <2>5, <3>1, <3>2, BlockFacts DEF TypeOK
    <3>6. g + 1 \in 0 .. STEP
      BY <3>1, <3>2, <3>4, <3>5
    <3> QED
      BY <3>3, <3>6
  <2>6. CASE j[t] + UNROLL < Limit(t)
    <3>1. j'[t] < Limit(t) /\ pc'[t] = "count"
      BY <1>s, <2>1, <2>6 DEF TypeOK
    <3> QED
      BY <1>1, <1>10, <1>s, <2>1, <2>3, <2>4, <2>5, <2>6, <3>1 DEF TypeOK
  <2>7. CASE ~(j[t] + UNROLL < Limit(t))
    BY <1>1, <1>10, <1>s, <2>1, <2>3, <2>4, <2>7 DEF TypeOK
  <2> QED
    BY <2>6, <2>7
\* The end of a loop body.
<1>11. ASSUME NEW to, NextItem(t, to), to \in BodyOf(t) \cap {"load", "wait", "add"},
              thread_rt_id # 4, mutex' \in Nat, locks' \in [Buckets -> Nat]
       PROVE  Shape'
  <2>1. /\ Frame /\ UNCHANGED <<global_histogram, reg>> /\ pc[t] = "post"
    BY <1>11 DEF NextItem, inputs, mainVars
  <2>2. CASE j[t] + 1 < Limit(t)
    <3>1. /\ j' = [j EXCEPT ![t] = @ + 1] /\ pc' = [pc EXCEPT ![t] = to]
          /\ UNCHANGED <<k, counts>>
      BY <1>11, <2>2 DEF NextItem
    <3>2. TypeOK'
      BY <1>11, <1>s, <2>1, <3>1 DEF TypeOK
    <3>3. j[t] \in Block(t) /\ (thread_rt_id # 0 \/ t = 0)
      BY <1>11, <1>s, <2>1 DEF InBounds, Block
    <3>4. j'[t] \in Block(t)
      <4>1. j'[t] = j[t] + 1
        BY <1>s, <3>1 DEF TypeOK
      <4>2. Block(t) = First(t) .. Limit(t) - 1
        BY <1>0, <3>3, BlockFacts
      <4> QED
        BY <1>0, <2>2, <3>3, <4>1, <4>2
    <3> QED
      BY <1>1, <1>11, <1>s, <2>1, <3>1, <3>2, <3>4 DEF TypeOK
  <2>3. CASE ~(j[t] + 1 < Limit(t))
    BY <1>3, <1>11, <2>1, <2>3 DEF NextItem
  <2> QED
    BY <2>2, <2>3
<1>12. ASSUME NextBucket(t), thread_rt_id = 4, mutex' \in Nat,
              locks' \in [Buckets -> Nat]
       PROVE  Shape'
  <2>1. /\ Frame /\ UNCHANGED <<global_histogram, reg>> /\ pc[t] = "post"
    BY <1>12 DEF NextBucket, inputs, mainVars
  <2>2. CASE k[t] + 1 < BUCKET_SIZE
    <3>1. /\ k' = [k EXCEPT ![t] = @ + 1] /\ pc' = [pc EXCEPT ![t] = "wait"]
          /\ UNCHANGED <<j, counts>>
      BY <1>12, <2>2 DEF NextBucket
    <3>2. k[t] + 1 \in Buckets
      <4>1. k[t] \in Buckets
        BY <1>s DEF TypeOK
      <4> QED
        BY <2>2, <4>1 DEF Buckets
    <3>3. TypeOK'
      BY <1>12, <1>s, <2>1, <3>1, <3>2 DEF TypeOK
    <3>4. "wait" \in BodyOf(t)
      BY <1>12 DEF BodyOf
    <3> QED
      BY <1>1, <1>12, <1>s, <2>1, <3>1, <3>3, <3>4 DEF TypeOK
  <2>3. CASE ~(k[t] + 1 < BUCKET_SIZE)
    BY <1>3, <1>12, <2>1, <2>3 DEF NextBucket
  <2> QED
    BY <2>2, <2>3
<1>13. ASSUME pc[t] = "post", PostLock(Slot(t))
       PROVE  mutex' \in Nat /\ locks' \in [Buckets -> Nat]
  <2>1. Slot(t) \in Buckets
    BY <1>13, <1>s, SlotInBuckets
  <2> QED
    BY <1>13, <1>s, <2>1 DEF PostLock, TypeOK
<1>14. CASE thread_rt_id = 0 /\ NextItem(t, "load") /\ UNCHANGED sems
  <2>1. t = 0
    BY <1>14, <1>s DEF NextItem, Control, BodyOf
  <2> QED
    BY <1>11, <1>14, <1>s, <2>1 DEF BodyOf, TypeOK, sems
<1>15. CASE thread_rt_id = 1 /\ NextItem(t, "wait") /\ PostMutex
  BY <1>11, <1>15, <1>s DEF BodyOf, TypeOK, PostMutex
<1>16. CASE thread_rt_id = 2 /\ NextItem(t, "wait") /\ PostLock(Slot(t))
  BY <1>11, <1>13, <1>16 DEF BodyOf, NextItem
<1>17. CASE thread_rt_id = 3 /\ NextItem(t, "add") /\ UNCHANGED sems
  BY <1>11, <1>17, <1>s DEF BodyOf, TypeOK, sems
<1>18. CASE thread_rt_id = 4 /\ NextBucket(t) /\ PostLock(Slot(t))
  BY <1>12, <1>13, <1>18 DEF NextBucket
<1>19. CASE /\ thread_rt_id = 0 /\ t # 0 /\ pc[t] = "entry" /\ Return(t)
            /\ UNCHANGED <<inputs, global_histogram, sems, mainVars, reg>>
  BY <1>3, <1>19, <1>s DEF TypeOK, inputs, sems, mainVars
<1> QED
  BY <1>2, <1>5, <1>6, <1>7, <1>8, <1>9, <1>10, <1>14, <1>15, <1>16, <1>17,
     <1>18, <1>19, ThreadStepCases

LEMMA ShapeStutter == Shape /\ UNCHANGED vars => Shape'
BY DEF Shape, vars, TypeOK, Control, BodyOf, ThreadLifetimes, NoStrayThread,
       Exists, GroupAligned, InBounds, Block, First, Limit

\* Type correctness, and with it the shape of every reachable state: the
\* control points of the kernels, the lifetimes of the threads and the bounds
\* of their loops.
THEOREM ShapeCorrect == Spec => []Shape
<1>1. Shape /\ [Next]_vars => Shape'
  <2> SUFFICES ASSUME Shape, [Next]_vars PROVE Shape'
    OBVIOUS
  <2>1. CASE run_threads
    BY <2>1, ShapeMain
  <2>2. CASE \E t \in Threads : thread_routine(t)
    BY <2>2, ShapeThread
  <2>3. CASE UNCHANGED vars
    BY <2>3, ShapeStutter
  <2> QED
    BY <2>1, <2>2, <2>3 DEF Next, Terminated
<1> QED
  BY ShapeInit, <1>1, PTL DEF Spec

-----------------------------------------------------------------------------
(***************************************************************************)
(* The semaphores.                                                         *)
(***************************************************************************)

\* A step that changes no semaphore and no holder.
LEMMA SemaphoreFrame ==
  ASSUME SemaphoreInv, UNCHANGED <<mutex, locks, thread_rt_id>>,
         \A t \in Threads : Holds(t)' = Holds(t),
         \A t \in Threads : Holds(t) => Slot(t)' = Slot(t)
  PROVE  SemaphoreInv'
<1>1. mutex' = IF thread_rt_id' = 1 /\ \E t \in Threads : Holds(t)' THEN 0 ELSE 1
  BY DEF SemaphoreInv
<1>2. locks' = [b \in Buckets |->
                  IF /\ thread_rt_id' \in {2, 4}
                     /\ \E t \in Threads : Holds(t)' /\ Slot(t)' = b
                  THEN 0 ELSE 1]
  <2>1. \A b \in Buckets : (\E t \in Threads : Holds(t)' /\ Slot(t)' = b)
                          <=> (\E t \in Threads : Holds(t) /\ Slot(t) = b)
    OBVIOUS
  <2> QED
    BY <2>1 DEF SemaphoreInv
<1>3. \A t, u \in Threads : t # u /\ Holds(t)' /\ Holds(u)'
        => thread_rt_id' \in {2, 4} /\ Slot(t)' # Slot(u)'
  BY DEF SemaphoreInv
<1> QED
  BY <1>1, <1>2, <1>3 DEF SemaphoreInv

\* Where nothing is held every semaphore is free, and conversely.
LEMMA NoHolders ==
  ASSUME \A t \in Threads : ~Holds(t)
  PROVE  SemaphoreInv <=> mutex = 1 /\ locks = [b \in Buckets |-> 1]
BY DEF SemaphoreInv

LEMMA SemaphoreMain ==
  ASSUME Shape, SemaphoreInv, run_threads
  PROVE  SemaphoreInv'
<1>s. TypeOK /\ ThreadLifetimes
  BY DEF Shape
<1>1. CASE GenerateData \/ ResetHistogram \/ NextRoutine
  <2>1. mainpc \in {"generate", "reset", "advance"} /\ UNCHANGED <<mutex, locks>>
        /\ (pc' = pc \/ pc' = [t \in Threads |-> "none"])
    BY <1>1 DEF GenerateData, ResetHistogram, NextRoutine, sems
  <2>2. \A t \in Threads : pc[t] \in {"none", "joined"}
    BY <1>s, <2>1 DEF ThreadLifetimes, NoStrayThread, Exists
  <2>3. \A t \in Threads : ~Holds(t) /\ ~Holds(t)'
    BY <2>1, <2>2 DEF Holds
  <2>4. SemaphoreInv' <=> mutex' = 1 /\ locks' = [b \in Buckets |-> 1]
    BY <2>3 DEF SemaphoreInv
  <2> QED
    BY <2>1, <2>3, <2>4, NoHolders
<1>2. CASE CreateThread \/ JoinThread \/ JoinStale \/ CheckSum
  <2>1. UNCHANGED <<data, mutex, locks, thread_rt_id, j, k>>
    BY <1>2 DEF CreateThread, JoinThread, JoinStale, CheckSum, inputs, sems, locals
  <2>2. \A t \in Threads : \/ pc'[t] = pc[t]
                           \/ /\ pc[t] \in {"none", "done"}
                              /\ pc'[t] \in {"entry", "joined"}
    <3>1. CASE CreateThread
      <4>1. mainpc = "create" /\ i \in Threads
        BY <3>1, <1>s DEF CreateThread, TypeOK
      <4>2. i >= i
        BY <4>1, SizesPositive DEF Threads
      <4>3. pc[i] = "none"
        BY <1>s, <4>1, <4>2 DEF ThreadLifetimes
      <4> QED
        BY <3>1, <1>s, <4>3 DEF CreateThread, TypeOK
    <3>2. CASE JoinThread
      BY <3>2, <1>s DEF JoinThread, TypeOK
    <3>3. CASE JoinStale
      BY <3>3, <1>s DEF JoinStale, TypeOK
    <3>4. CASE CheckSum
      BY <3>4 DEF CheckSum
    <3> QED
      BY <1>2, <3>1, <3>2, <3>3, <3>4
  <2>3. \A t \in Threads : Holds(t)' = Holds(t)
    BY <2>1, <2>2 DEF Holds
  <2>4. \A t \in Threads : Slot(t)' = Slot(t)
    BY <2>1 DEF Slot
  <2> QED
    BY <2>1, <2>3, <2>4, SemaphoreFrame
<1> QED
  BY <1>1, <1>2 DEF run_threads

\* sem_wait gives the semaphore to one thread at a time, sem_post frees it.
LEMMA SemaphoreThread ==
  ASSUME Shape, SemaphoreInv, NEW t \in Threads, thread_routine(t)
  PROVE  SemaphoreInv'
<1>s. TypeOK /\ Control /\ InBounds
  BY DEF Shape
<1> DEFINE Others == \A u \in Threads : u # t =>
                       pc'[u] = pc[u] /\ j'[u] = j[u] /\ k'[u] = k[u]
<1>1. ASSUME UNCHANGED <<data, mutex, locks, thread_rt_id>>, Others,
             \/ ~Holds(t) /\ ~Holds(t)'
             \/ Holds(t) /\ Holds(t)' /\ j' = j /\ k' = k
      PROVE  SemaphoreInv'
  <2>1. \A u \in Threads : Holds(u)' = Holds(u)
    BY <1>1 DEF Holds
  <2>2. \A u \in Threads : Holds(u) => Slot(u)' = Slot(u)
    BY <1>1 DEF Slot
  <2> QED
    BY <1>1, <2>1, <2>2, SemaphoreFrame
\* t takes its semaphore.
<1>2. ASSUME UNCHANGED <<data, thread_rt_id, j, k>>, Others,
             thread_rt_id \in {1, 2, 4}, ~Holds(t), Holds(t)'
      PROVE  /\ \A u \in Threads : Holds(u)' <=> Holds(u) \/ u = t
             /\ \A u \in Threads : Slot(u)' = Slot(u)
  BY <1>2 DEF Holds, Slot
<1>3. CASE thread_rt_id = 1 /\ Acquire(t, WaitMutex)
  <2>1. /\ UNCHANGED <<data, thread_rt_id, j, k, locks>> /\ pc[t] = "wait"
        /\ pc' = [pc EXCEPT ![t] = "load"] /\ mutex > 0 /\ mutex' = mutex - 1
    BY <1>3 DEF Acquire, Goto, WaitMutex, inputs, mainVars, locals
  <2>2. Others /\ ~Holds(t) /\ Holds(t)'
    BY <1>3, <1>s, <2>1 DEF Holds, TypeOK
  <2>3. /\ \A u \in Threads : Holds(u)' <=> Holds(u) \/ u = t
        /\ \A u \in Threads : Slot(u)' = Slot(u)
    BY <1>2, <1>3, <2>1, <2>2
  <2>4. mutex = 1 /\ \A u \in Threads : ~Holds(u)
    BY <1>3, <2>1 DEF SemaphoreInv
  <2>5. locks = [b \in Buckets |-> 1]
    BY <2>4, NoHolders
  <2> QED
    BY <1>3, <2>1, <2>3, <2>4, <2>5 DEF SemaphoreInv
<1>4. CASE thread_rt_id \in {2, 4} /\ Acquire(t, WaitLock(Slot(t)))
  <2>1. /\ UNCHANGED <<data, thread_rt_id, j, k, mutex>> /\ pc[t] = "wait"
        /\ pc' = [pc EXCEPT ![t] = "load"] /\ locks[Slot(t)] > 0
        /\ locks' = [locks EXCEPT ![Slot(t)] = @ - 1]
    BY <1>4 DEF Acquire, Goto, WaitLock, inputs, mainVars, locals
  <2>2. Others /\ ~Holds(t) /\ Holds(t)'
    BY <1>4, <1>s, <2>1 DEF Holds, TypeOK
  <2>3. /\ \A u \in Threads : Holds(u)' <=> Holds(u) \/ u = t
        /\ \A u \in Threads : Slot(u)' = Slot(u)
    BY <1>2, <1>4, <2>1, <2>2
  <2>4. Slot(t) \in Buckets
    BY <1>s, <2>1, SlotInBuckets
  <2>5. locks[Slot(t)] = 1 /\ \A u \in Threads : Holds(u) => Slot(u) # Slot(t)
    BY <1>4, <2>1, <2>4 DEF SemaphoreInv
  <2>6. mutex' = 1
    BY <1>4, <2>1 DEF SemaphoreInv
  <2>7. locks' = [b \in Buckets |->
                   IF \E u \in Threads : Holds(u)' /\ Slot(u)' = b THEN 0 ELSE 1]
    <3>1. \A b \in Buckets : (\E u \in Threads : Holds(u)' /\ Slot(u)' = b)
            <=> b = Slot(t) \/ \E u \in Threads : Holds(u) /\ Slot(u) = b
      BY <2>3
    <3>2. locks = [b \in Buckets |->
                    IF \E u \in Threads : Holds(u) /\ Slot(u) = b THEN 0 ELSE 1]
      BY <1>4 DEF SemaphoreInv
    <3> QED
      BY <2>1, <2>4, <2>5, <3>1, <3>2
  <2>8. \A u, v \in Threads : u # v /\ Holds(u)' /\ Holds(v)' => Slot(u)' # Slot(v)'
    BY <1>4, <2>3, <2>5 DEF SemaphoreInv
  <2> QED
    BY <1>4, <2>1, <2>6, <2>7, <2>8 DEF SemaphoreInv
\* t gives its semaphore back.
<1>5. ASSUME UNCHANGED <<data, thread_rt_id>>, Others, pc[t] = "post",
             pc'[t] \notin {"load", "store", "post"}
      PROVE  /\ \A u \in Threads : Holds(u)' <=> Holds(u) /\ u # t
             /\ \A u \in Threads : u # t => Slot(u)' = Slot(u)
  BY <1>5 DEF Holds, Slot
<1>6. CASE thread_rt_id = 1 /\ NextItem(t, "wait") /\ PostMutex
  <2>1. UNCHANGED <<data, thread_rt_id, locks>> /\ mutex' = mutex + 1 /\ pc[t] = "post"
    BY <1>6 DEF NextItem, PostMutex, inputs, mainVars
  <2>2. Others /\ pc'[t] \in {"wait", "done"}
    BY <1>6, <1>s DEF NextItem, Return, TypeOK
  <2>3. /\ \A u \in Threads : Holds(u)' <=> Holds(u) /\ u # t
        /\ \A u \in Threads : u # t => Slot(u)' = Slot(u)
    BY <1>5, <2>1, <2>2
  <2>4. Holds(t)
    BY <1>6, <2>1 DEF Holds
  <2>5. mutex = 0 /\ \A u \in Threads : Holds(u) => u = t
    BY <1>6, <2>4 DEF SemaphoreInv
  <2>6. locks' = [b \in Buckets |-> 1]
    BY <1>6, <2>1 DEF SemaphoreInv
  <2>7. \A u \in Threads : ~Holds(u)'
    BY <2>3, <2>5
  <2> QED
    BY <2>1, <2>5, <2>6, <2>7 DEF SemaphoreInv
<1>7. ASSUME thread_rt_id \in {2, 4}, UNCHANGED <<data, thread_rt_id>>, Others,
             pc[t] = "post", pc'[t] \in {"wait", "done"}, PostLock(Slot(t))
      PROVE  SemaphoreInv'
  <2>1. /\ \A u \in Threads : Holds(u)' <=> Holds(u) /\ u # t
        /\ \A u \in Threads : u # t => Slot(u)' = Slot(u)
    BY <1>5, <1>7
  <2>2. Holds(t)
    BY <1>7 DEF Holds
  <2>3. Slot(t) \in Buckets
    BY <1>7, <1>s, SlotInBuckets
  <2>4. mutex' = 1 /\ locks' = [locks EXCEPT ![Slot(t)] = @ + 1]
    BY <1>7 DEF PostLock, SemaphoreInv
  <2>5. \A u \in Threads : Holds(u) /\ u # t => Slot(u) # Slot(t)
    BY <1>7, <2>2 DEF SemaphoreInv
  <2>6. locks' = [b \in Buckets |->
                   IF \E u \in Threads : Holds(u)' /\ Slot(u)' = b THEN 0 ELSE 1]
    <3>1. \A b \in Buckets : (\E u \in Threads : Holds(u)' /\ Slot(u)' = b)
            <=> b # Slot(t) /\ \E u \in Threads : Holds(u) /\ Slot(u) = b
      BY <2>1, <2>5
    <3>2. locks = [b \in Buckets |->
                    IF \E u \in Threads : Holds(u) /\ Slot(u) = b THEN 0 ELSE 1]
      BY <1>7 DEF SemaphoreInv
    <3>3. locks[Slot(t)] = 0
      BY <2>2, <2>3, <3>2
    <3> QED
      BY <2>3, <2>4, <3>1, <3>2, <3>3
  <2>7. \A u, v \in Threads : u # v /\ Holds(u)' /\ Holds(v)' => Slot(u)' # Slot(v)'
    BY <1>7, <2>1 DEF SemaphoreInv
  <2> QED
    BY <1>7, <2>4, <2>6, <2>7 DEF SemaphoreInv
<1>8. CASE thread_rt_id = 2 /\ NextItem(t, "wait") /\ PostLock(Slot(t))
  <2>1. UNCHANGED <<data, thread_rt_id>> /\ pc[t] = "post"
    BY <1>8 DEF NextItem, inputs, mainVars
  <2>2. Others /\ pc'[t] \in {"wait", "done"}
    BY <1>8, <1>s DEF NextItem, Return, TypeOK
  <2> QED
    BY <1>7, <1>8, <2>1, <2>2
<1>9. CASE thread_rt_id = 4 /\ NextBucket(t) /\ PostLock(Slot(t))
  <2>1. UNCHANGED <<data, thread_rt_id>> /\ pc[t] = "post"
    BY <1>9 DEF NextBucket, inputs, mainVars
  <2>2. Others /\ pc'[t] \in {"wait", "done"}
    BY <1>9, <1>s DEF NextBucket, Return, TypeOK
  <2> QED
    BY <1>7, <1>9, <2>1, <2>2
\* The steps that leave the semaphores alone.
<1>10. CASE \E to \in BodyOf(t) :
              /\ Enter(t, to)
              /\ to = CASE thread_rt_id = 0 -> "load"
                        [] thread_rt_id \in {1, 2} -> "wait"
                        [] thread_rt_id = 3 -> "add"
                        [] OTHER -> "count"
  <2>1. PICK to \in BodyOf(t) :
              /\ Enter(t, to)
              /\ to = CASE thread_rt_id = 0 -> "load"
                        [] thread_rt_id \in {1, 2} -> "wait"
                        [] thread_rt_id = 3 -> "add"
                        [] OTHER -> "count"
    BY <1>10
  <2>2. /\ UNCHANGED <<data, mutex, locks, thread_rt_id, k>> /\ pc[t] = "entry"
        /\ pc' = [pc EXCEPT ![t] = to] /\ j' = [j EXCEPT ![t] = First(t)]
    BY <2>1 DEF Enter, Goto, inputs, sems, mainVars
  <2>3. thread_rt_id = 0 \/ to \in {"wait", "add", "count"}
    BY <2>1, <1>s DEF TypeOK, Routines
  <2>4. Others /\ ~Holds(t) /\ ~Holds(t)'
    BY <1>s, <2>2, <2>3 DEF Holds, TypeOK
  <2> QED
    BY <1>1, <2>2, <2>4
<1>11. CASE thread_rt_id \in {0, 1, 2, 4} /\ (Load(t) \/ Store(t))
  <2>1. /\ UNCHANGED <<data, mutex, locks, thread_rt_id, j, k>>
        /\ pc[t] \in {"load", "store"}
        /\ pc' \in {[pc EXCEPT ![t] = "store"], [pc EXCEPT ![t] = "post"]}
    BY <1>11 DEF Load, Store, Goto, inputs, sems, mainVars
  <2>2. Others /\ (Holds(t)' <=> Holds(t))
    BY <1>s, <2>1 DEF Holds, TypeOK
  <2> QED
    BY <1>1, <2>1, <2>2
<1>12. CASE thread_rt_id = 3 /\ FetchAndAdd(t)
  <2>1. UNCHANGED <<data, mutex, locks, thread_rt_id, j, k>> /\ pc' = [pc EXCEPT ![t] = "post"]
    BY <1>12 DEF FetchAndAdd, Goto, inputs, sems, mainVars, locals
  <2>2. Others /\ ~Holds(t) /\ ~Holds(t)'
    BY <1>12, <1>s, <2>1 DEF Holds, TypeOK
  <2> QED
    BY <1>1, <2>1, <2>2
<1>13. CASE thread_rt_id = 4 /\ CountLocally(t)
  <2>1. /\ UNCHANGED <<data, mutex, locks, thread_rt_id, k>>
        /\ j' = [j EXCEPT ![t] = @ + UNROLL] /\ pc[t] = "count"
        /\ pc' = pc \/ pc' = [pc EXCEPT ![t] = "wait"]
    BY <1>13 DEF CountLocally, inputs, sems, mainVars
  <2>2. Others /\ ~Holds(t) /\ ~Holds(t)'
    BY <1>s, <2>1 DEF Holds, TypeOK
  <2> QED
    BY <1>1, <2>1, <2>2
<1>14. CASE \/ thread_rt_id = 0 /\ NextItem(t, "load") /\ UNCHANGED sems
            \/ thread_rt_id = 3 /\ NextItem(t, "add") /\ UNCHANGED sems
  <2>1. UNCHANGED <<data, mutex, locks, thread_rt_id>>
    BY <1>14 DEF NextItem, inputs, sems, mainVars
  <2>2. Others
    BY <1>14, <1>s DEF NextItem, Return, TypeOK
  <2>3. ~Holds(t) /\ ~Holds(t)'
    BY <1>14, <2>1 DEF Holds
  <2> QED
    BY <1>1, <2>1, <2>2, <2>3
<1>15. CASE /\ thread_rt_id = 0 /\ t # 0 /\ pc[t] = "entry" /\ Return(t)
            /\ UNCHANGED <<inputs, global_histogram, sems, mainVars, reg>>
  <2>1. UNCHANGED <<data, mutex, locks, thread_rt_id>> /\ Others
    BY <1>15, <1>s DEF Return, TypeOK, inputs, sems, mainVars
  <2>2. ~Holds(t) /\ ~Holds(t)'
    BY <1>15, <2>1 DEF Holds
  <2> QED
    BY <1>1, <2>1, <2>2
<1> QED
  BY <1>3, <1>4, <1>6, <1>8, <1>9, <1>10, <1>11, <1>12, <1>13, <1>14, <1>15,
     ThreadStepCases

LEMMA SemaphoreStutter == SemaphoreInv /\ UNCHANGED vars => SemaphoreInv'
BY DEF SemaphoreInv, Holds, Slot, vars

THEOREM SemaphoresCorrect == Spec => []SemaphoreInv
<1>1. Init => SemaphoreInv
  BY DEF Init, SemaphoreInv, Holds
<1>2. Shape /\ SemaphoreInv /\ [Next]_vars => SemaphoreInv'
  <2> SUFFICES ASSUME Shape, SemaphoreInv, [Next]_vars PROVE SemaphoreInv'
    OBVIOUS
  <2>1. CASE run_threads
    BY <2>1, SemaphoreMain
  <2>2. CASE \E t \in Threads : thread_routine(t)
    BY <2>2, SemaphoreThread
  <2>3. CASE UNCHANGED vars
    BY <2>3, SemaphoreStutter
  <2> QED
    BY <2>1, <2>2, <2>3 DEF Next, Terminated
<1> QED
  BY ShapeCorrect, <1>1, <1>2, PTL DEF Spec

LEMMA UpdatersApart == Shape /\ SemaphoreInv => MutualExclusion
<1> SUFFICES ASSUME Shape, SemaphoreInv, NEW t \in Threads, NEW u \in Threads,
                    t # u, Updating(t), Updating(u)
             PROVE  Slot(t) # Slot(u)
  BY DEF MutualExclusion
<1>s. TypeOK /\ Control
  BY DEF Shape
<1>1. thread_rt_id \in {1, 2, 4}
  <2>1. pc[t] \in BodyOf(t) /\ pc[u] \in BodyOf(u)
    BY <1>s DEF Updating, Control
  <2>2. thread_rt_id # 0
    BY <2>1 DEF BodyOf
  <2>3. thread_rt_id # 3
    BY <2>1 DEF BodyOf, Updating
  <2> QED
    BY <1>s, <2>2, <2>3 DEF TypeOK, Routines
<1>2. Holds(t) /\ Holds(u)
  BY <1>1 DEF Updating, Holds
<1> QED
  BY <1>2 DEF SemaphoreInv

\* Two threads are never inside the increment of the same bucket, in any of
\* the kernels histo_0 ... histo_4.
THEOREM MutualExclusionCorrect == Spec => []MutualExclusion
BY ShapeCorrect, SemaphoresCorrect, UpdatersApart, PTL

\* Every sem_wait has had its sem_post when the threads are gone, so that the
\* next kernel finds every semaphore free.
THEOREM SemaphoresFreeCorrect == Spec => []SemaphoresFree
<1>1. SemaphoreInv => SemaphoresFree
  BY DEF SemaphoreInv, SemaphoresFree, Holds, Exists
<1> QED
  BY SemaphoresCorrect, <1>1, PTL

-----------------------------------------------------------------------------
(***************************************************************************)
(* Counting: what is in the shared histogram.                              *)
(***************************************************************************)
CountInv == RegisterFresh /\ LocalCounts /\ NoLostUpdate /\ ReferenceRight

LEMMA InBucketFinite ==
  ASSUME NEW S, IsFiniteSet(S), NEW b
  PROVE  IsFiniteSet(InBucket(S, b)) /\ Cardinality(InBucket(S, b)) \in Nat
<1>1. InBucket(S, b) \in SUBSET S
  BY DEF InBucket
<1> QED
  BY <1>1, FS_Subset, FS_CardinalityType

\* Two disjoint finite sets of items add up.
LEMMA CardinalityAdds ==
  ASSUME NEW S, NEW T, IsFiniteSet(S), IsFiniteSet(T), S \cap T = {}
  PROVE  /\ IsFiniteSet(S \cup T)
         /\ Cardinality(S \cup T) = Cardinality(S) + Cardinality(T)
<1>1. /\ IsFiniteSet(S \cup T)
      /\ Cardinality(S \cup T) = Cardinality(S) + Cardinality(T) - Cardinality(S \cap T)
  BY FS_Union
<1>2. Cardinality(S \cap T) = 0
  BY FS_EmptySet
<1>3. Cardinality(S) \in Nat /\ Cardinality(T) \in Nat
  BY FS_CardinalityType
<1> QED
  BY <1>1, <1>2, <1>3

\* The blocks of different threads are disjoint.
LEMMA BlocksDisjoint ==
  ASSUME TypeOK, NEW t \in Threads, NEW u \in Threads, t # u
  PROVE  Block(t) \cap Block(u) = {}
<1>1. CASE thread_rt_id = 0
  BY <1>1 DEF Block
<1>2. CASE thread_rt_id # 0
  <2>1. /\ Block(t) = First(t) .. Limit(t) - 1
        /\ Block(u) = First(u) .. Limit(u) - 1
        /\ First(t) \in Nat /\ Limit(t) \in Nat /\ First(u) \in Nat /\ Limit(u) \in Nat
    BY <1>2, BlockFacts DEF TypeOK
  <2>2. /\ First(t) = t * STEP /\ Limit(t) = t * STEP + STEP
        /\ First(u) = u * STEP /\ Limit(u) = u * STEP + STEP
    BY <1>2 DEF First, Limit
  <2>3. t \in Int /\ u \in Int
    BY DEF Threads
  <2>4. t * STEP + STEP <= u * STEP \/ u * STEP + STEP <= t * STEP
    BY <2>3, BlocksApart
  <2>5. Limit(t) <= First(u) \/ Limit(u) <= First(t)
    BY <2>2, <2>4
  <2> QED
    BY <2>1, <2>5
<1> QED
  BY <1>1, <1>2

LEMMA CountedInBlock ==
  ASSUME NEW t \in Threads
  PROVE  Counted(t) \subseteq Block(t)
BY DEF Counted

LEMMA AllCountedFinite ==
  ASSUME TypeOK
  PROVE  /\ AllCounted \subseteq Items
         /\ IsFiniteSet(Items) /\ IsFiniteSet(AllCounted)
<1>1. thread_rt_id \in Routines
  BY DEF TypeOK
<1>2. \A t \in Threads : Counted(t) \subseteq Items
  BY <1>1, CountedInBlock, BlockFacts
<1>3. AllCounted \subseteq Items
  BY <1>2 DEF AllCounted
<1>4. IsFiniteSet(Items)
  BY FS_Interval, SizesPositive DEF Items
<1> QED
  BY <1>3, <1>4, FS_Subset

\* One write of the histogram that adds the items of New, all of bucket b0 and
\* none counted before.
LEMMA HistogramWrite ==
  ASSUME Shape, NoLostUpdate, KernelActive, UNCHANGED data,
         NEW b0 \in Buckets, NEW New \in SUBSET Items,
         AllCounted' = AllCounted \cup New, New \cap AllCounted = {},
         \A x \in New : data[x] % BUCKET_SIZE = b0,
         global_histogram' =
           [global_histogram EXCEPT ![b0] = @ + Cardinality(New)]
  PROVE  NoLostUpdate'
<1>s. TypeOK
  BY DEF Shape
<1>1. IsFiniteSet(AllCounted) /\ IsFiniteSet(New)
  BY <1>s, AllCountedFinite, FS_Subset
<1> SUFFICES ASSUME NEW b \in Buckets
             PROVE  global_histogram'[b] = Cardinality(InBucket(AllCounted, b)')
  BY DEF NoLostUpdate
<1>2. InBucket(AllCounted, b)' = {x \in AllCounted \cup New : data[x] % BUCKET_SIZE = b}
  BY DEF InBucket
<1>3. global_histogram[b] = Cardinality(InBucket(AllCounted, b))
  BY DEF NoLostUpdate
<1>4. CASE b = b0
  <2>1. InBucket(AllCounted, b)' = InBucket(AllCounted, b) \cup New
    BY <1>2, <1>4 DEF InBucket
  <2>2. InBucket(AllCounted, b) \cap New = {}
    BY DEF InBucket
  <2>3. Cardinality(InBucket(AllCounted, b) \cup New)
          = Cardinality(InBucket(AllCounted, b)) + Cardinality(New)
    BY <1>1, <2>2, InBucketFinite, CardinalityAdds
  <2> QED
    BY <1>3, <1>4, <1>s, <2>1, <2>3 DEF TypeOK
<1>5. CASE b # b0
  <2>1. InBucket(AllCounted, b)' = InBucket(AllCounted, b)
    BY <1>2, <1>5 DEF InBucket
  <2> QED
    BY <1>3, <1>5, <1>s, <2>1 DEF TypeOK
<1> QED
  BY <1>4, <1>5

\* A step that counts nothing and leaves the histogram alone.
LEMMA HistogramFrame ==
  ASSUME NoLostUpdate, KernelActive, UNCHANGED <<data, global_histogram>>,
         AllCounted' = AllCounted
  PROVE  NoLostUpdate'
<1>1. \A b \in Buckets : InBucket(AllCounted, b)' = InBucket(AllCounted, b)
  BY DEF InBucket
<1> QED
  BY <1>1 DEF NoLostUpdate

\* While a thread runs, its kernel is active.
LEMMA RunningMeansActive ==
  ASSUME Shape, NEW t \in Threads, mainpc # "crashed", Exists(t)
  PROVE  mainpc \in {"create", "join", "hung"} /\ KernelActive
BY DEF Shape, TypeOK, ThreadLifetimes, NoStrayThread, KernelActive

\* A step of t changes what t has counted and nothing else.
LEMMA AllCountedStep ==
  ASSUME NEW t \in Threads, NEW New, UNCHANGED <<data, thread_rt_id>>,
         \A u \in Threads : u # t =>
           pc'[u] = pc[u] /\ j'[u] = j[u] /\ k'[u] = k[u],
         Counted(t)' = Counted(t) \cup New
  PROVE  AllCounted' = AllCounted \cup New
<1>1. ASSUME NEW u \in Threads, u # t
      PROVE  Counted(u)' = Counted(u)
  <2>1. Block(u)' = Block(u)
    BY DEF Block, First, Limit
  <2>2. \A x : Passed(u, x)' <=> Passed(u, x)
    BY <1>1 DEF Passed, Place, At
  <2> QED
    BY <1>1, <2>1, <2>2 DEF Counted
<1>2. AllCounted' = UNION {Counted(u)' : u \in Threads}
  BY DEF AllCounted
<1> QED
  BY <1>1, <1>2 DEF AllCounted

\* The part of LocalCounts about thread t.
LocalCountsOf(t) ==
  /\ pc[t] \in {"none", "entry", "done", "joined"} => counts[t] = ZeroHistogram
  /\ pc[t] \in {"none", "entry", "done", "joined", "count"} => k[t] = 0
  /\ pc[t] = "count" =>
       \A b \in Buckets :
         counts[t][b] = Cardinality(InBucket(First(t) .. j[t] - 1, b))
  /\ thread_rt_id = 4 /\ pc[t] \in {"wait", "load", "store", "post"} =>
       \A b \in Buckets : counts[t][b] = Cardinality(InBucket(Block(t), b))

LEMMA LocalCountsStep ==
  ASSUME NEW t \in Threads, LocalCounts, UNCHANGED <<data, thread_rt_id>>,
         \A u \in Threads : u # t =>
           /\ pc'[u] = pc[u] /\ j'[u] = j[u] /\ k'[u] = k[u]
           /\ counts'[u] = counts[u],
         LocalCountsOf(t)'
  PROVE  LocalCounts'
<1>1. \A u \in Threads : LocalCountsOf(u)
  BY DEF LocalCounts, LocalCountsOf
<1>2. ASSUME NEW u \in Threads, u # t
      PROVE  LocalCountsOf(u)'
  <2>1. First(u)' = First(u) /\ Block(u)' = Block(u)
    BY DEF First, Block, Limit
  <2>2. /\ pc'[u] = pc[u] /\ j'[u] = j[u] /\ k'[u] = k[u] /\ counts'[u] = counts[u]
    BY <1>2
  <2>3. \A b : InBucket(First(u) .. j[u] - 1, b)' = InBucket(First(u) .. j[u] - 1, b)
    BY <2>1, <2>2 DEF InBucket
  <2>4. \A b : InBucket(Block(u), b)' = InBucket(Block(u), b)
    BY <2>1 DEF InBucket
  <2> QED
    BY <1>1, <2>2, <2>3, <2>4 DEF LocalCountsOf, ZeroHistogram
<1>3. \A u \in Threads : LocalCountsOf(u)'
  BY <1>2
<1> QED
  BY <1>3 DEF LocalCounts, LocalCountsOf

\* What every step of t leaves alone.
LEMMA ThreadFrame ==
  ASSUME TypeOK, NEW t \in Threads, thread_routine(t)
  PROVE  /\ UNCHANGED <<data, bucket, mainpc, thread_rt_id>>
         /\ \A u \in Threads : u # t =>
              /\ pc'[u] = pc[u] /\ j'[u] = j[u] /\ k'[u] = k[u]
              /\ reg'[u] = reg[u] /\ counts'[u] = counts[u]
         /\ Exists(t) /\ mainpc # "crashed"
<1>1. CASE \E to \in BodyOf(t) : Enter(t, to)
  BY <1>1 DEF Enter, Goto, inputs, sems, mainVars, TypeOK, Exists, thread_routine
<1>2. CASE /\ thread_rt_id = 0 /\ t # 0 /\ pc[t] = "entry" /\ Return(t)
           /\ UNCHANGED <<inputs, global_histogram, sems, mainVars, reg>>
  BY <1>2 DEF Return, inputs, sems, mainVars, TypeOK, Exists, thread_routine
<1>3. CASE Acquire(t, WaitMutex) \/ Acquire(t, WaitLock(Slot(t)))
  BY <1>3 DEF Acquire, Goto, inputs, mainVars, locals, TypeOK, Exists, thread_routine
<1>4. CASE Load(t)
  BY <1>4 DEF Load, Goto, inputs, mainVars, TypeOK, Exists, thread_routine
<1>5. CASE Store(t)
  BY <1>5 DEF Store, Goto, inputs, mainVars, TypeOK, Exists, thread_routine
<1>6. CASE FetchAndAdd(t)
  BY <1>6 DEF FetchAndAdd, Goto, inputs, mainVars, locals, TypeOK, Exists, thread_routine
<1>7. CASE CountLocally(t)
  BY <1>7 DEF CountLocally, inputs, mainVars, TypeOK, Exists, thread_routine
<1>8. CASE NextItem(t, "load") \/ NextItem(t, "wait") \/ NextItem(t, "add")
  BY <1>8 DEF NextItem, Return, inputs, mainVars, TypeOK, Exists, thread_routine
<1>9. CASE NextBucket(t)
  BY <1>9 DEF NextBucket, Return, inputs, mainVars, TypeOK, Exists, thread_routine
<1> QED
  BY <1>1, <1>2, <1>3, <1>4, <1>5, <1>6, <1>7, <1>8, <1>9, ThreadStepCases

\* What every step of a thread does to the count: nothing, or it adds items not
\* counted before, all of one bucket, to that bucket.
CountStep ==
  \/ UNCHANGED global_histogram /\ AllCounted' = AllCounted
  \/ \E b \in Buckets, New \in SUBSET Items :
       /\ New \cap AllCounted = {}
       /\ AllCounted' = AllCounted \cup New
       /\ \A x \in New : data[x] % BUCKET_SIZE = b
       /\ global_histogram' = [global_histogram EXCEPT ![b] = @ + Cardinality(New)]

\* A step of t that leaves the histogram alone.
LEMMA CountQuietStep ==
  ASSUME Shape, CountInv, NEW t \in Threads, thread_routine(t),
         UNCHANGED global_histogram, Counted(t)' = Counted(t),
         LocalCountsOf(t)', pc'[t] = "store" => reg'[t] = global_histogram[Slot(t)']
  PROVE  CountInv' /\ CountStep
<1>s. TypeOK
  BY DEF Shape
<1>1. /\ UNCHANGED <<data, bucket, mainpc, thread_rt_id>>
      /\ \A u \in Threads : u # t =>
           /\ pc'[u] = pc[u] /\ j'[u] = j[u] /\ k'[u] = k[u]
           /\ reg'[u] = reg[u] /\ counts'[u] = counts[u]
      /\ KernelActive
  BY <1>s, ThreadFrame, RunningMeansActive
<1>2. RegisterFresh'
  <2>1. \A u \in Threads : u # t => Slot(u)' = Slot(u)
    BY <1>1 DEF Slot
  <2> QED
    BY <1>1, <2>1 DEF CountInv, RegisterFresh
<1>3. LocalCounts'
  BY <1>1, LocalCountsStep DEF CountInv
<1>4. AllCounted' = AllCounted
  <2>1. AllCounted' = AllCounted \cup {}
    BY <1>1, AllCountedStep
  <2> QED
    BY <2>1
<1>5. NoLostUpdate'
  BY <1>1, <1>4, HistogramFrame DEF CountInv
<1>6. ReferenceRight'
  BY <1>1 DEF CountInv, ReferenceRight, InBucket
<1> QED
  BY <1>2, <1>3, <1>4, <1>5, <1>6 DEF CountInv, CountStep

\* A step of t that adds the items of New to the bucket Slot(t).
LEMMA CountWriteStep ==
  ASSUME Shape, CountInv, NEW t \in Threads, thread_routine(t),
         Slot(t) \in Buckets, NEW New \in SUBSET Block(t), New \cap Counted(t) = {},
         Counted(t)' = Counted(t) \cup New,
         \A x \in New : data[x] % BUCKET_SIZE = Slot(t),
         global_histogram' =
           [global_histogram EXCEPT ![Slot(t)] = @ + Cardinality(New)],
         LocalCountsOf(t)', pc'[t] = "post",
         \A u \in Threads : u # t /\ pc[u] = "store" => Slot(u) # Slot(t)
  PROVE  CountInv' /\ CountStep
<1>s. TypeOK
  BY DEF Shape
<1>1. /\ UNCHANGED <<data, bucket, mainpc, thread_rt_id>>
      /\ \A u \in Threads : u # t =>
           /\ pc'[u] = pc[u] /\ j'[u] = j[u] /\ k'[u] = k[u]
           /\ reg'[u] = reg[u] /\ counts'[u] = counts[u]
      /\ KernelActive
  BY <1>s, ThreadFrame, RunningMeansActive
<1>2. RegisterFresh'
  <2> SUFFICES ASSUME NEW u \in Threads, pc'[u] = "store"
               PROVE  reg'[u] = global_histogram'[Slot(u)']
    BY DEF RegisterFresh
  <2>1. u # t /\ pc[u] = "store" /\ reg'[u] = reg[u] /\ Slot(u)' = Slot(u)
    BY <1>1 DEF Slot
  <2>2. Slot(u) \in Buckets /\ Slot(u) # Slot(t)
    BY <1>s, <2>1, SlotInBuckets DEF Shape
  <2> QED
    BY <1>s, <2>1, <2>2 DEF CountInv, RegisterFresh, TypeOK
<1>3. LocalCounts'
  BY <1>1, LocalCountsStep DEF CountInv
<1>4. /\ AllCounted' = AllCounted \cup New
      /\ New \cap AllCounted = {}
      /\ New \in SUBSET Items
  <2>1. AllCounted' = AllCounted \cup New
    BY <1>1, AllCountedStep
  <2>2. New \cap AllCounted = {}
    <3>1. ASSUME NEW u \in Threads, u # t PROVE New \cap Counted(u) = {}
      BY <1>s, <3>1, BlocksDisjoint, CountedInBlock
    <3> QED
      BY <3>1 DEF AllCounted
  <2>3. New \in SUBSET Items
    BY <1>s, BlockFacts DEF TypeOK
  <2> QED
    BY <2>1, <2>2, <2>3
<1>5. NoLostUpdate'
  BY <1>1, <1>4, HistogramWrite DEF CountInv
<1>6. ReferenceRight'
  BY <1>1 DEF CountInv, ReferenceRight, InBucket
<1>7. CountStep
  BY <1>4 DEF CountStep
<1> QED
  BY <1>2, <1>3, <1>5, <1>6, <1>7 DEF CountInv

\* Every step of a kernel keeps the count.
LEMMA CountThread ==
  ASSUME Shape, Shape', SemaphoreInv, CountInv, NEW t \in Threads, thread_routine(t)
  PROVE  CountInv' /\ CountStep
<1> USE SizesPositive
<1>s. TypeOK /\ Control /\ InBounds /\ GroupAligned /\ TypeOK' /\ InBounds'
  BY DEF Shape
<1>f. /\ UNCHANGED <<data, bucket, mainpc, thread_rt_id>>
      /\ Block(t)' = Block(t) /\ First(t)' = First(t) /\ Limit(t)' = Limit(t)
  BY <1>s, ThreadFrame DEF Block, First, Limit
<1>b. /\ First(t) \in Nat /\ Limit(t) \in Nat /\ First(t) < Limit(t)
      /\ Block(t) \subseteq Items
      /\ thread_rt_id # 0 \/ t = 0 => Block(t) = First(t) .. Limit(t) - 1
      /\ thread_rt_id # 0 => First(t) = t * STEP /\ Limit(t) = First(t) + STEP
  BY <1>s, BlockFacts DEF TypeOK
<1>l. LocalCountsOf(t)
  BY DEF CountInv, LocalCounts, LocalCountsOf
<1>p. \A x \in Block(t) : data[x] % BUCKET_SIZE \in Buckets /\ Place(x)' = Place(x)
  <2>1. \A x \in Block(t) : data[x] \in Nat
    BY <1>s, <1>b DEF TypeOK
  <2> QED
    BY <2>1, <1>f, ModInBuckets DEF Place
<1>i. \A b : InBucket(Block(t), b)' = InBucket(Block(t), b)
  BY <1>f DEF InBucket
\* Nothing has been counted before the first increment.
<1>1. CASE \E to \in BodyOf(t) :
              /\ Enter(t, to)
              /\ to = CASE thread_rt_id = 0 -> "load"
                        [] thread_rt_id \in {1, 2} -> "wait"
                        [] thread_rt_id = 3 -> "add"
                        [] OTHER -> "count"
  <2>1. PICK to \in BodyOf(t) :
              /\ Enter(t, to)
              /\ to = CASE thread_rt_id = 0 -> "load"
                        [] thread_rt_id \in {1, 2} -> "wait"
                        [] thread_rt_id = 3 -> "add"
                        [] OTHER -> "count"
    BY <1>1
  <2>2. /\ UNCHANGED <<global_histogram, k, reg, counts>> /\ pc[t] = "entry"
        /\ pc'[t] = to /\ j'[t] = First(t)
    BY <1>s, <2>1 DEF Enter, Goto, sems, TypeOK
  <2>3. /\ to \in {"load", "wait", "add", "count"}
        /\ to = "count" <=> thread_rt_id = 4
        /\ thread_rt_id = 0 => t = 0
    BY <2>1, <1>s DEF BodyOf, TypeOK, Routines
  <2>4. k[t] = 0 /\ counts[t] = ZeroHistogram
    BY <1>l, <2>2 DEF LocalCountsOf
  <2>5. \A x \in Block(t) : ~Passed(t, x)'
    BY <1>b, <1>f, <1>p, <2>2, <2>3, <2>4 DEF Passed, Place, At, Buckets
  <2>6. Counted(t) = {} /\ Counted(t)' = {}
    BY <1>f, <2>2, <2>3, <2>5 DEF Counted
  <2>7. \A b \in Buckets : Cardinality(InBucket(First(t) .. j[t] - 1, b)') = 0
    <3>1. \A b \in Buckets : InBucket(First(t) .. j[t] - 1, b)' = {}
      BY <1>b, <1>f, <2>2 DEF InBucket
    <3> QED
      BY <3>1, FS_EmptySet
  <2>8. LocalCountsOf(t)'
    BY <1>f, <2>2, <2>3, <2>4, <2>7 DEF LocalCountsOf, ZeroHistogram
  <2> QED
    BY <2>2, <2>3, <2>6, <2>8, CountQuietStep
\* A step of t to another label that counts nothing and keeps its locals.
<1>2. ASSUME UNCHANGED <<global_histogram, j, k, counts>>,
             pc[t] \in {"wait", "load"}, pc'[t] \in {"load", "store"},
             pc'[t] = "store" => reg'[t] = global_histogram[Slot(t)]
      PROVE  CountInv' /\ CountStep
  <2>1. \A x \in Block(t) : Passed(t, x)' <=> Passed(t, x)
    BY <1>f, <1>2, <1>p DEF Passed, Place, At
  <2>2. Counted(t)' = Counted(t)
    BY <1>f, <1>2, <2>1 DEF Counted
  <2>3. LocalCountsOf(t)'
    BY <1>f, <1>i, <1>l, <1>2 DEF LocalCountsOf
  <2>4. Slot(t)' = Slot(t)
    BY <1>f, <1>2 DEF Slot
  <2> QED
    BY <1>2, <2>2, <2>3, <2>4, CountQuietStep
<1>3. CASE \/ thread_rt_id = 1 /\ Acquire(t, WaitMutex)
           \/ thread_rt_id \in {2, 4} /\ Acquire(t, WaitLock(Slot(t)))
  BY <1>2, <1>3, <1>s DEF Acquire, Goto, locals, TypeOK
<1>4. CASE thread_rt_id \in {0, 1, 2, 4} /\ Load(t)
  <2>1. UNCHANGED <<global_histogram, j, k, counts>> /\ pc[t] = "load" /\ pc'[t] = "store"
        /\ reg'[t] = global_histogram[Slot(t)]
    BY <1>4, <1>s DEF Load, Goto, TypeOK
  <2> QED
    BY <1>2, <2>1
\* The items an increment of t adds: item j[t], or histo_4's bucket k[t].
<1> DEFINE New == {x \in Block(t) : Place(x) = At(t)}
<1>5. ASSUME UNCHANGED <<j, k, counts>>, pc[t] \in {"store", "add"}, pc'[t] = "post",
             global_histogram' =
               [global_histogram EXCEPT ![Slot(t)] = @ + Addend(t)],
             \A u \in Threads : u # t /\ pc[u] = "store" => Slot(u) # Slot(t)
      PROVE  CountInv' /\ CountStep
  <2>1. thread_rt_id # 4 => j[t] \in Block(t) /\ j[t] \in Int
    BY <1>s, <1>5 DEF InBounds, TypeOK
  <2>2. Slot(t) \in Buckets
    BY <1>s, <1>5, SlotInBuckets
  <2>3. Cardinality(New) = Addend(t)
    <3>1. CASE thread_rt_id = 4
      <4>1. New = InBucket(Block(t), k[t]) /\ k[t] \in Buckets
        BY <1>s, <3>1 DEF Place, At, InBucket, TypeOK
      <4>2. counts[t][k[t]] = Cardinality(InBucket(Block(t), k[t]))
        <5>1. pc[t] = "store"
          BY <1>5, <1>s, <3>1 DEF Control, BodyOf
        <5> QED
          BY <1>l, <3>1, <4>1, <5>1 DEF LocalCountsOf
      <4> QED
        BY <3>1, <4>1, <4>2 DEF Addend
    <3>2. CASE thread_rt_id # 4
      <4>1. New = {j[t]}
        BY <2>1, <3>2 DEF Place, At
      <4> QED
        BY <3>2, <4>1, FS_Singleton DEF Addend
    <3> QED
      BY <3>1, <3>2
  <2>4. \A x \in New : data[x] % BUCKET_SIZE = Slot(t)
    BY DEF Place, At, Slot
  <2>5. \A x \in Block(t) : Place(x) \in Int /\ At(t) \in Int
    BY <1>p, <1>b, <1>s DEF Place, At, Buckets, Items, TypeOK
  <2>6. Counted(t) = {x \in Block(t) : Place(x) < At(t)}
    BY <1>5 DEF Counted, Passed
  <2>7. \A x \in Block(t) : Passed(t, x)' <=> Place(x) < At(t) \/ Place(x) = At(t)
    BY <1>5, <1>f, <1>p DEF Passed, At
  <2>8. Counted(t)' = {x \in Block(t) : Passed(t, x)'}
    BY <1>5, <1>f DEF Counted
  <2>9. Counted(t)' = Counted(t) \cup New /\ New \cap Counted(t) = {}
    BY <2>5, <2>6, <2>7, <2>8
  <2>10. LocalCountsOf(t)'
    <3>1. thread_rt_id = 4 => pc[t] = "store"
      BY <1>5, <1>s DEF Control, BodyOf
    <3> QED
      BY <1>f, <1>i, <1>l, <1>5, <3>1 DEF LocalCountsOf
  <2> HIDE DEF New
  <2>11. New \in SUBSET Block(t)
    BY DEF New
  <2> QED
    BY <1>5, <2>2, <2>3, <2>4, <2>9, <2>10, <2>11, CountWriteStep
<1>6. CASE thread_rt_id \in {0, 1, 2, 4} /\ Store(t)
  <2>1. /\ UNCHANGED <<j, k, counts>> /\ pc[t] = "store" /\ pc'[t] = "post"
        /\ global_histogram' = [global_histogram EXCEPT ![Slot(t)] = reg[t] + Addend(t)]
    BY <1>6, <1>s DEF Store, Goto, TypeOK
  <2>2. reg[t] = global_histogram[Slot(t)]
    BY <2>1 DEF CountInv, RegisterFresh
  <2>3. \A u \in Threads : u # t /\ pc[u] = "store" => Slot(u) # Slot(t)
    BY <2>1, UpdatersApart DEF MutualExclusion, Updating
  <2> QED
    BY <1>5, <2>1, <2>2, <2>3
<1>7. CASE thread_rt_id = 3 /\ FetchAndAdd(t)
  <2>1. /\ UNCHANGED <<j, k, counts>> /\ pc[t] = "add" /\ pc'[t] = "post"
        /\ global_histogram' = [global_histogram EXCEPT ![Slot(t)] = @ + Addend(t)]
    BY <1>7, <1>s DEF FetchAndAdd, Goto, locals, TypeOK
  <2>2. \A u \in Threads : pc[u] # "store"
    BY <1>7, <1>s DEF Control, BodyOf
  <2> QED
    BY <1>5, <2>1, <2>2
\* histo_4 counts a group of items into its local histogram.
<1>8. CASE thread_rt_id = 4 /\ CountLocally(t)
  <2> DEFINE group == j[t] .. j[t] + UNROLL - 1
             before == First(t) .. j[t] - 1
  <2>1. /\ UNCHANGED <<global_histogram, k, reg>> /\ pc[t] = "count"
        /\ j'[t] = j[t] + UNROLL
        /\ pc'[t] = IF j[t] + UNROLL < Limit(t) THEN "count" ELSE "wait"
        /\ counts'[t] = [b \in Buckets |->
                           counts[t][b] + Cardinality(InBucket(group, b))]
    BY <1>8, <1>s DEF CountLocally, TypeOK
  <2>2. /\ group \subseteq Block(t) /\ j[t] \in Nat /\ First(t) <= j[t]
        /\ Block(t) = First(t) .. Limit(t) - 1
        /\ j[t] + UNROLL <= Limit(t)
    <3>1. group \subseteq Block(t) /\ j[t] \in Nat
      BY <1>s, <2>1 DEF InBounds, TypeOK
    <3>2. Block(t) = First(t) .. Limit(t) - 1
      BY <1>8, <1>b
    <3>3. j[t] \in group /\ j[t] + UNROLL - 1 \in group
      BY <3>1
    <3> QED
      BY <1>b, <3>1, <3>2, <3>3
  <2>3. k[t] = 0 /\ \A b \in Buckets : counts[t][b] = Cardinality(InBucket(before, b))
    BY <1>l, <2>1 DEF LocalCountsOf
  <2>4. ASSUME NEW b \in Buckets
        PROVE  counts'[t][b] = Cardinality(InBucket(First(t) .. j[t] + UNROLL - 1, b))
    <3>1. First(t) .. j[t] + UNROLL - 1 = before \cup group /\ before \cap group = {}
      BY <1>b, <2>2
    <3>2. /\ InBucket(before \cup group, b) = InBucket(before, b) \cup InBucket(group, b)
          /\ InBucket(before, b) \cap InBucket(group, b) = {}
      BY <3>1 DEF InBucket
    <3>3. IsFiniteSet(before) /\ IsFiniteSet(group)
      <4>1. /\ First(t) \in Int /\ j[t] \in Int /\ j[t] - 1 \in Int
            /\ j[t] + UNROLL - 1 \in Int
        BY <1>b, <2>2
      <4> QED
        BY <4>1, FS_Interval
    <3>4. IsFiniteSet(InBucket(before, b)) /\ IsFiniteSet(InBucket(group, b))
      BY <3>3, InBucketFinite
    <3>5. Cardinality(InBucket(before \cup group, b))
            = Cardinality(InBucket(before, b)) + Cardinality(InBucket(group, b))
      BY <3>2, <3>4, CardinalityAdds
    <3> HIDE DEF before, group
    <3> QED
      BY <2>1, <2>3, <3>1, <3>5
  <2>5. \A b : InBucket(First(t) .. j[t] - 1, b)'
               = InBucket(First(t) .. j[t] + UNROLL - 1, b)
    <3>1. (First(t) .. j[t] - 1)' = First(t) .. j[t] + UNROLL - 1
      <4>1. First(t)' = First(t) /\ j'[t] = j[t] + UNROLL
        BY <1>f, <2>1
      <4>2. j'[t] - 1 = j[t] + UNROLL - 1
        BY <4>1, <2>2
      <4> QED
        BY <4>1, <4>2
    <3> HIDE DEF group, before
    <3> QED
      BY <1>f, <3>1 DEF InBucket
  <2>6. pc'[t] = "wait" => First(t) .. j[t] + UNROLL - 1 = Block(t)
    BY <1>b, <2>1, <2>2
  <2>7. LocalCountsOf(t)'
    BY <1>f, <1>i, <2>1, <2>3, <2>4, <2>5, <2>6 DEF LocalCountsOf
  <2>8. \A x \in Block(t) : Passed(t, x)' <=> Passed(t, x)
    <3>1. At(t)' = At(t) /\ pc[t] # "post" /\ pc'[t] # "post"
      BY <1>8, <1>f, <2>1 DEF At
    <3> QED
      BY <1>p, <3>1 DEF Passed
  <2>9. Counted(t)' = Counted(t)
    BY <1>f, <2>1, <2>8 DEF Counted
  <2> QED
    BY <2>1, <2>7, <2>9, CountQuietStep
\* The thread leaves its kernel: all of its block has been counted.
<1>9. ASSUME Return(t), Counted(t) = Block(t), UNCHANGED global_histogram
      PROVE  CountInv' /\ CountStep
  <2>1. pc'[t] = "done" /\ k'[t] = 0 /\ counts'[t] = ZeroHistogram
    BY <1>9, <1>s DEF Return, TypeOK
  <2>2. LocalCountsOf(t)'
    BY <2>1 DEF LocalCountsOf, ZeroHistogram
  <2>3. Counted(t)' = Counted(t)
    BY <1>9, <1>f, <2>1 DEF Counted
  <2> QED
    BY <1>9, <2>1, <2>2, <2>3, CountQuietStep
<1>10. CASE /\ thread_rt_id = 0 /\ t # 0 /\ pc[t] = "entry" /\ Return(t)
            /\ UNCHANGED <<inputs, global_histogram, sems, mainVars, reg>>
  <2>1. Block(t) = {} /\ Counted(t) = {}
    BY <1>10 DEF Block, Counted
  <2> QED
    BY <1>9, <1>10, <2>1
<1>11. ASSUME NEW to \in {"load", "wait", "add"}, NextItem(t, to), thread_rt_id # 4
       PROVE  CountInv' /\ CountStep
  <2>1. pc[t] = "post" /\ j[t] \in Block(t) /\ UNCHANGED <<global_histogram, reg>>
    BY <1>11, <1>s DEF NextItem, InBounds
  <2>2. Block(t) = First(t) .. Limit(t) - 1
    BY <1>b, <2>1 DEF Block
  <2>3. Counted(t) = {x \in Block(t) : x <= j[t]}
    <3>1. \A x \in Block(t) : Passed(t, x) <=> x <= j[t]
      BY <1>b, <1>11, <2>1, <2>2 DEF Passed, Place, At
    <3> QED
      BY <2>1, <3>1 DEF Counted
  <2>4. CASE j[t] + 1 < Limit(t)
    <3>1. pc'[t] = to /\ j'[t] = j[t] + 1 /\ UNCHANGED <<k, counts>>
      BY <1>11, <1>s, <2>4 DEF NextItem, TypeOK
    <3>2. \A x \in Block(t) : Passed(t, x)' <=> x <= j[t]
      BY <1>b, <1>f, <1>11, <2>1, <2>2, <3>1 DEF Passed, Place, At
    <3>3. Counted(t)' = {x \in Block(t) : x <= j[t]}
      BY <1>f, <3>1, <3>2 DEF Counted
    <3>4. LocalCountsOf(t)'
      BY <1>f, <1>11, <3>1 DEF LocalCountsOf
    <3> QED
      BY <2>1, <2>3, <3>1, <3>3, <3>4, CountQuietStep
  <2>5. CASE ~(j[t] + 1 < Limit(t))
    <3>1. \A x \in Block(t) : x <= j[t]
      BY <1>b, <2>1, <2>2, <2>5
    <3>2. Return(t)
      BY <1>11, <2>5 DEF NextItem
    <3> QED
      BY <1>9, <2>1, <2>3, <3>1, <3>2
  <2> QED
    BY <2>4, <2>5
<1>12. CASE thread_rt_id = 4 /\ NextBucket(t) /\ PostLock(Slot(t))
  <2>1. pc[t] = "post" /\ k[t] \in Buckets /\ UNCHANGED <<global_histogram, reg>>
    BY <1>12, <1>s DEF NextBucket, TypeOK
  <2>2. \A x \in Block(t) : Place(x) \in Buckets
    BY <1>12, <1>p DEF Place
  <2>3. Counted(t) = {x \in Block(t) : Place(x) <= k[t]}
    <3>1. \A x \in Block(t) : Passed(t, x) <=> Place(x) <= k[t]
      BY <1>12, <2>1, <2>2 DEF Passed, At, Buckets
    <3> QED
      BY <2>1, <3>1 DEF Counted
  <2>4. CASE k[t] + 1 < BUCKET_SIZE
    <3>1. pc'[t] = "wait" /\ k'[t] = k[t] + 1 /\ UNCHANGED <<j, counts>>
      BY <1>12, <1>s, <2>4 DEF NextBucket, TypeOK
    <3>2. \A x \in Block(t) : Passed(t, x)' <=> Place(x) <= k[t]
      <4>1. At(t)' = k[t] + 1
        BY <1>12, <1>f, <3>1 DEF At
      <4> QED
        BY <1>p, <2>1, <2>2, <3>1, <4>1 DEF Passed, Buckets
    <3>3. Counted(t)' = {x \in Block(t) : Place(x) <= k[t]}
      BY <1>f, <3>1, <3>2 DEF Counted
    <3>4. LocalCountsOf(t)'
      BY <1>f, <1>i, <1>l, <1>12, <2>1, <3>1 DEF LocalCountsOf
    <3> QED
      BY <2>1, <2>3, <3>1, <3>3, <3>4, CountQuietStep
  <2>5. CASE ~(k[t] + 1 < BUCKET_SIZE)
    <3>1. \A x \in Block(t) : Place(x) <= k[t]
      BY <2>1, <2>2, <2>5 DEF Buckets
    <3>2. Return(t)
      BY <1>12, <2>5 DEF NextBucket
    <3> QED
      BY <1>9, <2>1, <2>3, <3>1, <3>2
  <2> QED
    BY <2>4, <2>5
<1> HIDE DEF New
<1> QED
  BY <1>1, <1>3, <1>4, <1>6, <1>7, <1>8, <1>10, <1>11, <1>12, ThreadStepCases

\* The main thread starts a count at zero and disturbs none.
LEMMA CountMain ==
  ASSUME Shape, CountInv, run_threads
  PROVE  /\ CountInv'
         /\ mainpc \in {"create", "join", "check"} => AllCounted' = AllCounted
<1>s. TypeOK /\ ThreadLifetimes
  BY DEF Shape
<1>1. CASE GenerateData \/ NextRoutine
  <2>1. /\ mainpc \in {"generate", "advance"} /\ mainpc' \in {"reset", "exit"}
        /\ UNCHANGED <<pc, counts, k>>
    BY <1>1 DEF GenerateData, NextRoutine, locals
  <2>2. \A t \in Threads : pc[t] \in {"none", "joined"}
    BY <1>s, <2>1 DEF ThreadLifetimes, NoStrayThread, Exists
  <2>3. RegisterFresh' /\ LocalCounts' /\ NoLostUpdate'
    BY <2>1, <2>2 DEF CountInv, RegisterFresh, LocalCounts, NoLostUpdate,
         KernelActive, ZeroHistogram
  <2>4. ReferenceRight'
    <3>1. CASE GenerateData
      BY <3>1 DEF GenerateData, ReferenceRight, InBucket
    <3>2. CASE NextRoutine
      BY <3>2 DEF NextRoutine, CountInv, ReferenceRight, InBucket, inputs
    <3> QED
      BY <1>1, <3>1, <3>2
  <2> QED
    BY <2>1, <2>3, <2>4 DEF CountInv
<1>2. CASE ResetHistogram
  <2>1. /\ pc' = [t \in Threads |-> "none"] /\ mainpc = "reset"
        /\ global_histogram' = ZeroHistogram
        /\ UNCHANGED <<data, bucket, counts, k>>
    BY <1>2 DEF ResetHistogram, inputs, locals
  <2>2. \A t \in Threads : pc[t] \in {"none", "joined"}
    BY <1>s, <2>1 DEF ThreadLifetimes, NoStrayThread, Exists
  <2>3. RegisterFresh' /\ LocalCounts'
    BY <2>1, <2>2 DEF CountInv, RegisterFresh, LocalCounts, ZeroHistogram
  <2>4. NoLostUpdate'
    <3>1. AllCounted' = {}
      BY <2>1 DEF AllCounted, Counted
    <3>2. \A b \in Buckets : InBucket(AllCounted, b)' = {}
      BY <3>1 DEF InBucket
    <3> QED
      BY <2>1, <3>2, FS_EmptySet DEF NoLostUpdate, ZeroHistogram
  <2>5. ReferenceRight'
    BY <2>1 DEF CountInv, ReferenceRight, InBucket
  <2> QED
    BY <2>1, <2>3, <2>4, <2>5 DEF CountInv
<1>3. CASE CreateThread \/ JoinThread \/ JoinStale \/ CheckSum
  <2>1. /\ UNCHANGED <<data, bucket, global_histogram, thread_rt_id, j, k, reg, counts>>
        /\ mainpc \in {"create", "join", "check"}
    BY <1>3 DEF CreateThread, JoinThread, JoinStale, CheckSum, inputs, locals
  <2>2. \A t \in Threads : \/ pc'[t] = pc[t]
                           \/ /\ pc[t] = "none"
                              /\ pc'[t] = "entry"
                           \/ /\ pc[t] = "done"
                              /\ pc'[t] = "joined"
    <3>1. CASE CreateThread
      <4>1. mainpc = "create" /\ i \in Threads
        BY <3>1, <1>s DEF CreateThread, TypeOK
      <4>2. i >= i
        BY <4>1, SizesPositive DEF Threads
      <4>3. pc[i] = "none"
        BY <1>s, <4>1, <4>2 DEF ThreadLifetimes
      <4> QED
        BY <3>1, <1>s, <4>3 DEF CreateThread, TypeOK
    <3>2. CASE JoinThread
      BY <3>2, <1>s DEF JoinThread, TypeOK
    <3>3. CASE JoinStale
      BY <3>3, <1>s DEF JoinStale, TypeOK
    <3>4. CASE CheckSum
      BY <3>4 DEF CheckSum
    <3> QED
      BY <1>3, <3>1, <3>2, <3>3, <3>4
  <2>3. ASSUME NEW t \in Threads
        PROVE  /\ Counted(t)' = Counted(t) /\ Slot(t)' = Slot(t)
               /\ LocalCountsOf(t)'
    <3>1. First(t)' = First(t) /\ Block(t)' = Block(t) /\ Slot(t)' = Slot(t)
      BY <2>1 DEF First, Block, Limit, Slot
    <3>2. \A x : (pc'[t] = pc[t]) => (Passed(t, x)' <=> Passed(t, x))
      BY <2>1 DEF Passed, Place, At
    <3>3. Counted(t)' = Counted(t)
      BY <2>2, <3>1, <3>2 DEF Counted
    <3>4. LocalCountsOf(t)
      BY DEF CountInv, LocalCounts, LocalCountsOf
    <3>5. \A b : /\ InBucket(First(t) .. j[t] - 1, b)' = InBucket(First(t) .. j[t] - 1, b)
                 /\ InBucket(Block(t), b)' = InBucket(Block(t), b)
      BY <2>1, <3>1 DEF InBucket
    <3>6. LocalCountsOf(t)'
      BY <2>1, <2>2, <3>4, <3>5 DEF LocalCountsOf, ZeroHistogram
    <3> QED
      BY <3>1, <3>3, <3>6
  <2>4. RegisterFresh'
    BY <2>1, <2>2, <2>3 DEF CountInv, RegisterFresh
  <2>5. LocalCounts'
    BY <2>3 DEF LocalCounts, LocalCountsOf
  <2>6. AllCounted' = AllCounted
    <3>1. AllCounted' = UNION {Counted(t)' : t \in Threads}
      BY DEF AllCounted
    <3> QED
      BY <2>3, <3>1 DEF AllCounted
  <2>7. NoLostUpdate'
    BY <2>1, <2>6, HistogramFrame DEF CountInv, KernelActive
  <2>8. ReferenceRight'
    BY <2>1 DEF CountInv, ReferenceRight, InBucket
  <2> QED
    BY <2>4, <2>5, <2>6, <2>7, <2>8 DEF CountInv
<1> QED
  BY <1>1, <1>2, <1>3 DEF run_threads

LEMMA CountStutter == CountInv /\ UNCHANGED vars => CountInv' /\ AllCounted' = AllCounted
<1> SUFFICES ASSUME CountInv, UNCHANGED vars PROVE CountInv' /\ AllCounted' = AllCounted
  OBVIOUS
<1>1. UNCHANGED <<data, bucket, global_histogram, mainpc, thread_rt_id,
                  pc, j, k, reg, counts>>
  BY DEF vars
<1>2. AllCounted' = AllCounted
  BY <1>1 DEF AllCounted, Counted, Block, First, Limit, Passed, Place, At
<1>3. NoLostUpdate' /\ ReferenceRight' /\ RegisterFresh'
  BY <1>1, <1>2 DEF CountInv, NoLostUpdate, ReferenceRight, RegisterFresh,
       InBucket, KernelActive, Slot
<1>4. LocalCounts'
  BY <1>1 DEF CountInv, LocalCounts, InBucket, Block, First, Limit, ZeroHistogram
<1> QED
  BY <1>2, <1>3, <1>4 DEF CountInv

\* The inductive invariant of the five kernels and their driver.
THEOREM IndInvCorrect == Spec => []IndInv
<1>1. Init => CountInv
  BY DEF Init, CountInv, RegisterFresh, LocalCounts, NoLostUpdate,
       ReferenceRight, KernelActive
<1>2. Shape /\ Shape' /\ SemaphoreInv /\ CountInv /\ [Next]_vars => CountInv'
  <2> SUFFICES ASSUME Shape, Shape', SemaphoreInv, CountInv, [Next]_vars
               PROVE  CountInv'
    OBVIOUS
  <2>1. CASE run_threads
    BY <2>1, CountMain
  <2>2. CASE \E t \in Threads : thread_routine(t)
    BY <2>2, CountThread
  <2>3. CASE UNCHANGED vars
    BY <2>3, CountStutter
  <2> QED
    BY <2>1, <2>2, <2>3 DEF Next, Terminated
<1>3. Shape /\ SemaphoreInv /\ CountInv => IndInv
  BY DEF Shape, CountInv, IndInv
<1> QED
  BY ShapeCorrect, SemaphoresCorrect, <1>1, <1>2, <1>3, PTL DEF Spec

\* No increment of global_histogram[] is lost and none is done twice, in any
\* kernel and at any moment.
THEOREM NoLostUpdateCorrect == Spec => []NoLostUpdate
BY IndInvCorrect, PTL DEF IndInv

\* No thread exists outside the create and join loops of run_threads.
THEOREM NoStrayThreadCorrect == Spec => []NoStrayThread
<1>1. IndInv => NoStrayThread
  BY DEF IndInv, ThreadLifetimes
<1> QED
  BY IndInvCorrect, <1>1, PTL

\* Threads that have all been created and joined have counted every item.
LEMMA AllJoinedCountAll ==
  ASSUME TypeOK, \A t \in Threads : pc[t] = "joined"
  PROVE  AllCounted = Items
<1>1. AllCounted \subseteq Items
  BY AllCountedFinite
<1>2. ASSUME NEW x \in Items
      PROVE  \E t \in Threads : x \in Counted(t)
  <2>1. CASE thread_rt_id = 0
    <3>1. 0 \in Threads /\ Block(0) = Items
      BY <2>1, SizesPositive DEF Threads, Block, First, Limit, Items
    <3> QED
      BY <3>1 DEF Counted
  <2>2. CASE thread_rt_id # 0
    <3>1. PICK t \in Threads : t * STEP <= x /\ x < t * STEP + STEP
      BY BlocksCover
    <3>2. Block(t) = First(t) .. Limit(t) - 1 /\ First(t) = t * STEP
          /\ Limit(t) = t * STEP + STEP /\ First(t) \in Nat /\ Limit(t) \in Nat
      BY <2>2, BlockFacts DEF TypeOK
    <3>3. x \in Block(t)
      BY <3>1, <3>2 DEF Items
    <3> QED
      BY <3>3 DEF Counted
  <2> QED
    BY <2>1, <2>2
<1> QED
  BY <1>1, <1>2 DEF AllCounted

\* A kernel all of whose threads were created and joined leaves in
\* global_histogram[] exactly the reference result bucket[].
THEOREM JoinedExactCorrect == Spec => []JoinedExact
<1>1. IndInv => JoinedExact
  <2> SUFFICES ASSUME IndInv, mainpc = "check", \A t \in Threads : pc[t] = "joined"
               PROVE  global_histogram = bucket
    BY DEF JoinedExact
  <2>1. TypeOK /\ NoLostUpdate /\ ReferenceRight
    BY DEF IndInv
  <2>2. AllCounted = Items
    BY <2>1, AllJoinedCountAll
  <2>3. \A b \in Buckets : global_histogram[b] = bucket[b]
    BY <2>1, <2>2 DEF NoLostUpdate, ReferenceRight, KernelActive
  <2> QED
    BY <2>1, <2>3 DEF TypeOK
<1> QED
  BY IndInvCorrect, <1>1, PTL
=============================================================================
