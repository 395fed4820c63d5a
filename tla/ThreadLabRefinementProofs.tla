---------------------- MODULE ThreadLabRefinementProofs ----------------------
(***************************************************************************)
(* The verdicts of run_threads, and the proof that ThreadLab implements    *)
(* Histogram, for every size of the data and any number of threads, values *)
(* and buckets, with or without failures of pthread_create.                *)
(*                                                                         *)
(* The sum of printHistogram is a recursive function.  It is shown to be   *)
(* the number of items counted by an induction over the buckets, which     *)
(* the least element of a set of numbers gives without second-order facts. *)
(***************************************************************************)
EXTENDS ThreadLabRefinement, ThreadLabProofs

-----------------------------------------------------------------------------
(***************************************************************************)
(* Induction over the natural numbers, for a set.                          *)
(***************************************************************************)
LEMMA LeastElement ==
  ASSUME NEW S, S \subseteq Nat, S # {}
  PROVE  \E n \in S : \A m \in S : n <= m
<1>1. IsWellFoundedOn(OpToRel(<, Nat), Nat)
  BY NatLessThanWellFounded
<1>2. PICK n \in S : \A m \in S : ~ (<<m, n>> \in OpToRel(<, Nat))
  BY <1>1, WFMin
<1>3. \A m \in S : ~ (m < n)
  BY <1>2 DEF OpToRel
<1>4. n \in Nat /\ \A m \in S : m \in Nat
  OBVIOUS
<1> QED
  BY <1>3, <1>4

LEMMA InductionOnSet ==
  ASSUME NEW S, 0 \in S, \A n \in Nat : n \in S => n + 1 \in S
  PROVE  Nat \subseteq S
<1> SUFFICES ASSUME Nat \ S # {} PROVE FALSE
  OBVIOUS
<1> DEFINE T == Nat \ S
<1>1. PICK n \in T : \A m \in T : n <= m
  <2>1. T \subseteq Nat /\ T # {}
    OBVIOUS
  <2> HIDE DEF T
  <2> QED
    BY <2>1, LeastElement
<1>2. n \in Nat /\ n # 0 /\ n - 1 \in Nat
  BY <1>1
<1>3. n - 1 \in S
  BY <1>1, <1>2
<1> QED
  BY <1>1, <1>2, <1>3

-----------------------------------------------------------------------------
(***************************************************************************)
(* printHistogram                                                          *)
(***************************************************************************)

\* The items of S in the buckets before bucket n.
Before(S, n) == {x \in S : data[x] % BUCKET_SIZE < n}

LEMMA BeforeSteps ==
  ASSUME TypeOK, NEW S \in SUBSET Items
  PROVE  /\ Before(S, 0) = {}
         /\ Before(S, BUCKET_SIZE) = S
         /\ \A n \in Buckets :
              Cardinality(Before(S, n + 1))
                = Cardinality(Before(S, n)) + Cardinality(InBucket(S, n))
         /\ \A n \in Nat : Cardinality(Before(S, n)) \in Nat
<1>1. \A x \in S : data[x] % BUCKET_SIZE \in Buckets
  BY ModInBuckets DEF TypeOK
<1>2. Before(S, 0) = {} /\ Before(S, BUCKET_SIZE) = S
  BY <1>1, SizesPositive DEF Before, Buckets
<1>3. IsFiniteSet(S)
  BY AllCountedFinite, FS_Subset
<1>4. \A n : IsFiniteSet(Before(S, n)) /\ IsFiniteSet(InBucket(S, n))
  BY <1>3, FS_Subset DEF Before, InBucket
<1>5. ASSUME NEW n \in Buckets
      PROVE  Cardinality(Before(S, n + 1))
               = Cardinality(Before(S, n)) + Cardinality(InBucket(S, n))
  <2>1. /\ Before(S, n + 1) = Before(S, n) \cup InBucket(S, n)
        /\ Before(S, n) \cap InBucket(S, n) = {}
    BY <1>1 DEF Before, InBucket, Buckets
  <2> QED
    BY <1>4, <2>1, CardinalityAdds
<1> QED
  BY <1>2, <1>4, <1>5, FS_CardinalityType

\* printHistogram returns the number of items counted, as long as every bucket
\* holds the number of its own.
LEMMA SumOfHistogram ==
  ASSUME TypeOK, NEW S \in SUBSET Items,
         \A b \in Buckets : global_histogram[b] = Cardinality(InBucket(S, b))
  PROVE  printHistogram = Cardinality(S)
<1> USE SizesPositive
<1> DEFINE Solves(f) ==
             f = [n \in 0 .. BUCKET_SIZE |->
                    IF n = 0 THEN 0 ELSE f[n - 1] + global_histogram[n - 1]]
           count == [n \in 0 .. BUCKET_SIZE |-> Cardinality(Before(S, n))]
           sum   == CHOOSE f : Solves(f)
<1>1. Solves(count)
  <2> SUFFICES ASSUME NEW n \in 0 .. BUCKET_SIZE
               PROVE  count[n] = IF n = 0 THEN 0
                                 ELSE count[n - 1] + global_histogram[n - 1]
    OBVIOUS
  <2>1. CASE n = 0
    BY <2>1, BeforeSteps, FS_EmptySet
  <2>2. CASE n # 0
    <3>1. n - 1 \in Buckets /\ (n - 1) + 1 = n /\ n - 1 \in 0 .. BUCKET_SIZE
      BY <2>2 DEF Buckets
    <3>2. Cardinality(Before(S, n))
            = Cardinality(Before(S, n - 1)) + Cardinality(InBucket(S, n - 1))
      BY <3>1, BeforeSteps
    <3> QED
      BY <2>2, <3>1, <3>2
  <2> QED
    BY <2>1, <2>2
<1>2. Solves(sum)
  <2> HIDE DEF count, Solves
  <2> QED
    BY <1>1
<1>3. printHistogram = sum[BUCKET_SIZE]
  BY DEF printHistogram
<1>4. \A n \in Nat : n <= BUCKET_SIZE => sum[n] = Cardinality(Before(S, n))
  <2> DEFINE Right == {n \in Nat : n <= BUCKET_SIZE => sum[n] = Cardinality(Before(S, n))}
  <2> HIDE DEF sum
  <2>1. 0 \in Right
    <3>1. sum[0] = 0
      BY <1>2
    <3>2. Cardinality(Before(S, 0)) = 0
      BY BeforeSteps, FS_EmptySet
    <3> QED
      BY <3>1, <3>2
  <2>2. ASSUME NEW n \in Nat, n \in Right PROVE n + 1 \in Right
    <3> SUFFICES ASSUME n + 1 <= BUCKET_SIZE
                 PROVE  sum[n + 1] = Cardinality(Before(S, n + 1))
      OBVIOUS
    <3>1. n \in Buckets /\ n + 1 \in 0 .. BUCKET_SIZE /\ (n + 1) - 1 = n /\ n + 1 # 0
      BY DEF Buckets
    <3>2. sum[n] = Cardinality(Before(S, n))
      BY <2>2, <3>1
    <3>3. sum[n + 1] = sum[n] + global_histogram[n]
      BY <1>2, <3>1
    <3> QED
      BY <3>1, <3>2, <3>3, BeforeSteps
  <2>3. Nat \subseteq Right
    <3> HIDE DEF Right
    <3> QED
      BY <2>1, <2>2, InductionOnSet
  <2> QED
    BY <2>3
<1> QED
  <2> HIDE DEF sum
  <2> QED
    BY <1>3, <1>4, BeforeSteps

-----------------------------------------------------------------------------
(***************************************************************************)
(* The verdicts                                                            *)
(***************************************************************************)

\* No kernel passes before it is judged, and the one judged last has counted
\* every item if it has passed.
VerdictInv ==
  /\ \A r \in Routines : correctness[r] = 1 =>
       \/ r < thread_rt_id
       \/ r = thread_rt_id /\ mainpc \in {"advance", "exit"}
  /\ mainpc = "advance" /\ correctness[thread_rt_id] = 1 => AllCounted = Items

\* The sum check passes a kernel exactly if every item was counted.
LEMMA SumCheckExact ==
  ASSUME IndInv, mainpc = "check"
  PROVE  printHistogram = DATA_SIZE <=> AllCounted = Items
<1>1. TypeOK /\ NoLostUpdate /\ KernelActive
  BY DEF IndInv, KernelActive
<1>2. AllCounted \subseteq Items /\ IsFiniteSet(Items)
  BY <1>1, AllCountedFinite
<1>3. printHistogram = Cardinality(AllCounted)
  BY <1>1, <1>2, SumOfHistogram DEF NoLostUpdate
<1>4. Cardinality(Items) = DATA_SIZE
  <2>1. 0 \in Int /\ DATA_SIZE - 1 \in Int /\ 0 <= DATA_SIZE - 1
    BY SizesPositive
  <2>2. Cardinality(0 .. DATA_SIZE - 1) = (DATA_SIZE - 1) - 0 + 1
    BY <2>1, FS_Interval
  <2> QED
    BY <2>2, SizesPositive DEF Items
<1>5. Cardinality(AllCounted) = Cardinality(Items) => AllCounted = Items
  BY <1>2, FS_Subset
<1> QED
  BY <1>3, <1>4, <1>5

\* A step of a thread is one of its kernel: what it leaves alone, and what it
\* counts.
LEMMA ThreadStep ==
  ASSUME IndInv, Shape', NEW t \in Threads, thread_routine(t)
  PROVE  /\ UNCHANGED <<data, bucket, mainpc, thread_rt_id, correctness>>
         /\ mainpc \in {"create", "join", "hung"}
         /\ CountStep
<1>1. Shape /\ SemaphoreInv /\ CountInv
  BY DEF IndInv, Shape, CountInv
<1>2. TypeOK
  BY DEF IndInv
<1>3. UNCHANGED <<data, bucket, mainpc, thread_rt_id>> /\ Exists(t) /\ mainpc # "crashed"
  BY <1>2, ThreadFrame
<1>4. UNCHANGED correctness
  BY ThreadStepCases DEF thread_routine, Enter, Acquire, Load, Store, NextItem,
     FetchAndAdd, CountLocally, NextBucket, mainVars
<1> QED
  BY <1>1, <1>3, <1>4, CountThread, RunningMeansActive

\* What a step of the main thread does to the count.
LEMMA MainStep ==
  ASSUME IndInv, run_threads, mainpc \in {"create", "join", "check"}
  PROVE  AllCounted' = AllCounted
<1>1. Shape /\ CountInv
  BY DEF IndInv, Shape, CountInv
<1> QED
  BY <1>1, CountMain

\* The end of a kernel: nothing counts any more when it is judged.
LEMMA VerdictStep ==
  ASSUME IndInv, Shape', VerdictInv, [Next]_vars
  PROVE  VerdictInv'
<1>s. TypeOK /\ Shape /\ CountInv
  BY DEF IndInv, Shape, CountInv
<1>1. CASE GenerateData \/ ResetHistogram
  BY <1>1, <1>s DEF GenerateData, ResetHistogram, VerdictInv, TypeOK, Routines
<1>2. CASE CreateThread \/ JoinThread \/ JoinStale
  <2>1. /\ UNCHANGED <<correctness, thread_rt_id>>
        /\ mainpc \in {"create", "join"}
        /\ mainpc' \in {"create", "join", "hung", "check", "crashed"}
    BY <1>2 DEF CreateThread, JoinThread, JoinStale, NextThread
  <2> QED
    BY <2>1 DEF VerdictInv
<1>3. CASE CheckSum
  <2>1. /\ mainpc = "check" /\ mainpc' = "advance" /\ UNCHANGED thread_rt_id
        /\ thread_rt_id \in Routines
        /\ correctness' = IF printHistogram = DATA_SIZE
                          THEN [correctness EXCEPT ![thread_rt_id] = 1]
                          ELSE correctness
    BY <1>3, <1>s DEF CheckSum, TypeOK
  <2>2. AllCounted' = AllCounted
    BY <1>3, <2>1, MainStep DEF run_threads
  <2>3. Items' = Items
    BY DEF Items
  <2>4. correctness'[thread_rt_id] = 1 => AllCounted = Items
    <3>1. correctness[thread_rt_id] # 1
      BY <2>1 DEF VerdictInv, Routines
    <3> QED
      BY <2>1, <3>1, SumCheckExact
  <2>5. \A r \in Routines : r # thread_rt_id => correctness'[r] = correctness[r]
    BY <2>1, <1>s DEF TypeOK
  <2> QED
    BY <2>1, <2>2, <2>3, <2>4, <2>5 DEF VerdictInv
<1>4. CASE NextRoutine
  BY <1>4, <1>s DEF NextRoutine, VerdictInv, TypeOK, Routines
<1>5. CASE \E t \in Threads : thread_routine(t)
  <2>1. /\ UNCHANGED <<mainpc, thread_rt_id, correctness>>
        /\ mainpc \in {"create", "join", "hung"}
    BY <1>5, ThreadStep
  <2> QED
    BY <2>1 DEF VerdictInv
<1>6. CASE UNCHANGED vars
  <2>1. AllCounted' = AllCounted
    BY <1>6, <1>s, CountStutter
  <2> QED
    BY <1>6, <2>1 DEF VerdictInv, vars
<1> QED
  BY <1>1, <1>2, <1>3, <1>4, <1>5, <1>6 DEF Next, run_threads, Terminated

LEMMA VerdictCorrect == Spec => []VerdictInv
<1>1. Init => VerdictInv
  BY DEF Init, VerdictInv, Routines
<1>2. IndInv /\ Shape' /\ VerdictInv /\ [Next]_vars => VerdictInv'
  BY VerdictStep
<1> QED
  BY <1>1, <1>2, IndInvCorrect, ShapeCorrect, PTL DEF Spec

\* A kernel that run_threads marks correct has every bucket right, although the
\* sum of the buckets is all it looks at, and whatever threads were not created.
THEOREM SumCheckSoundCorrect == Spec => []SumCheckSound
<1>1. IndInv /\ VerdictInv => SumCheckSound
  <2> SUFFICES ASSUME IndInv, VerdictInv, mainpc = "advance",
                      correctness[thread_rt_id] = 1
               PROVE  global_histogram = bucket
    BY DEF SumCheckSound
  <2>1. TypeOK /\ NoLostUpdate /\ ReferenceRight /\ AllCounted = Items
    BY DEF IndInv, VerdictInv
  <2>2. \A b \in Buckets : global_histogram[b] = bucket[b]
    BY <2>1 DEF NoLostUpdate, ReferenceRight, KernelActive
  <2> QED
    BY <2>1, <2>2 DEF TypeOK
<1> QED
  BY <1>1, IndInvCorrect, VerdictCorrect, PTL

-----------------------------------------------------------------------------
(***************************************************************************)
(* ThreadLab implements Histogram                                          *)
(***************************************************************************)
class   == [x \in Items |-> data[x] % BUCKET_SIZE]
counted == IF KernelActive THEN AllCounted ELSE {}
passed  == {r \in Routines : correctness[r] = 1}

LEMMA SameCardinality ==
  ASSUME NEW S
  PROVE  Abstract!Cardinality(S) = Cardinality(S)
BY DEF Abstract!Cardinality, Cardinality

LEMMA ClassType ==
  ASSUME TypeOK
  PROVE  class \in [Items -> Buckets]
BY ModInBuckets DEF class, TypeOK

\* The initial states are initial states of Histogram.
LEMMA InitRefines == Init => Abstract!Init
<1> SUFFICES ASSUME Init PROVE Abstract!Init
  OBVIOUS
<1>1. TypeOK
  BY ShapeInit DEF Shape
<1>2. class \in [Items -> Buckets]
  BY <1>1, ClassType
<1>3. AbstractPhase = "input"
  BY DEF Init, AbstractPhase
<1>4. ~KernelActive /\ passed = {}
  BY DEF Init, KernelActive, passed
<1> QED
  BY <1>2, <1>3, <1>4 DEF Init, Abstract!Init, class, passed, ZeroHistogram

\* A step of a thread counts some items of one bucket, or does nothing visible.
LEMMA ThreadRefines ==
  ASSUME IndInv, Shape', NEW t \in Threads, thread_routine(t)
  PROVE  [Abstract!Next]_Abstract!vars
<1>1. /\ UNCHANGED <<data, mainpc, thread_rt_id, correctness>>
      /\ mainpc \in {"create", "join", "hung"}
      /\ CountStep
  BY ThreadStep
<1>2. /\ AbstractPhase = "counting" /\ UNCHANGED AbstractPhase
      /\ KernelActive /\ KernelActive'
  BY <1>1 DEF AbstractPhase, KernelActive
<1>3. UNCHANGED <<class, passed>>
  BY <1>1 DEF class, passed
<1>4. CASE UNCHANGED global_histogram /\ AllCounted' = AllCounted
  BY <1>1, <1>2, <1>3, <1>4 DEF Abstract!vars, class, passed
<1>5. ASSUME NEW b \in Buckets, NEW New \in SUBSET Items,
             New \cap AllCounted = {}, AllCounted' = AllCounted \cup New,
             \A x \in New : data[x] % BUCKET_SIZE = b,
             global_histogram' = [global_histogram EXCEPT ![b] = @ + Cardinality(New)]
      PROVE  Abstract!Count(b, New)
  BY <1>1, <1>2, <1>3, <1>5, SameCardinality DEF Abstract!Count, class, passed
<1> QED
  BY <1>1, <1>4, <1>5 DEF CountStep, Abstract!Next

\* A step of the main thread is the step of Histogram that bears its part of a
\* round, or does nothing visible.
LEMMA MainRefines ==
  ASSUME IndInv, IndInv', VerdictInv, run_threads
  PROVE  [Abstract!Next]_Abstract!vars
<1>s. TypeOK /\ TypeOK'
  BY DEF IndInv
<1> USE DEF AbstractPhase, KernelActive
<1>1. CASE GenerateData
  <2>1. class' \in [Items -> Buckets]
    <3>1. data' \in [Items -> 0 .. DATA_MAX - 1]
      BY <1>1 DEF GenerateData
    <3>2. \A x \in Items : data'[x] % BUCKET_SIZE \in Buckets
      BY <3>1, ModInBuckets
    <3> QED
      BY <3>2 DEF class
  <2>2. Abstract!ChooseInput
    BY <1>1, <2>1 DEF GenerateData, Abstract!ChooseInput, class
  <2> QED
    BY <2>2 DEF Abstract!Next
<1>2. CASE ResetHistogram
  <2>1. /\ mainpc = "reset" /\ mainpc' = "create" /\ global_histogram' = ZeroHistogram
        /\ pc' = [t \in Threads |-> "none"]
        /\ UNCHANGED <<data, thread_rt_id, correctness>>
    BY <1>2 DEF ResetHistogram, inputs
  <2>2. AllCounted' = {}
    BY <2>1 DEF AllCounted, Counted
  <2>3. Abstract!Begin
    BY <2>1, <2>2 DEF Abstract!Begin, ZeroHistogram
  <2> QED
    BY <2>3 DEF Abstract!Next
<1>3. CASE CreateThread \/ JoinThread \/ JoinStale
  <2>1. /\ UNCHANGED <<data, global_histogram, thread_rt_id, correctness>>
        /\ mainpc \in {"create", "join"}
        /\ mainpc' \in {"create", "join", "hung", "check", "crashed"}
    BY <1>3 DEF CreateThread, JoinThread, JoinStale, NextThread, inputs
  <2>2. AllCounted' = AllCounted
    BY <1>3, <2>1, MainStep DEF run_threads
  <2>3. CASE mainpc' \in {"create", "join", "hung"}
    BY <2>1, <2>2, <2>3 DEF Abstract!vars
  <2>4. CASE mainpc' = "check"
    <3>1. Abstract!Close
      BY <2>1, <2>2, <2>4 DEF Abstract!Close
    <3> QED
      BY <3>1 DEF Abstract!Next
  <2>5. CASE mainpc' = "crashed"
    <3>1. Abstract!Crash
      BY <2>1, <2>5 DEF Abstract!Crash
    <3> QED
      BY <3>1 DEF Abstract!Next
  <2> QED
    BY <2>1, <2>3, <2>4, <2>5
<1>4. CASE CheckSum
  <2>1. /\ mainpc = "check" /\ mainpc' = "advance" /\ thread_rt_id \in Routines
        /\ UNCHANGED <<data, global_histogram, thread_rt_id>>
        /\ correctness' = IF printHistogram = DATA_SIZE
                          THEN [correctness EXCEPT ![thread_rt_id] = 1]
                          ELSE correctness
    BY <1>4, <1>s DEF CheckSum, TypeOK, inputs
  <2>2. AllCounted' = AllCounted
    BY <1>4, <2>1, MainStep DEF run_threads
  <2>3. passed' = IF AllCounted = Items THEN passed \cup {thread_rt_id} ELSE passed
    <3>1. printHistogram = DATA_SIZE <=> AllCounted = Items
      BY <2>1, SumCheckExact
    <3> QED
      BY <2>1, <3>1, <1>s DEF passed, TypeOK
  <2>4. Abstract!Judge
    BY <2>1, <2>2, <2>3 DEF Abstract!Judge, passed
  <2> QED
    BY <2>4 DEF Abstract!Next
<1>5. CASE NextRoutine
  <2>1. /\ mainpc = "advance" /\ mainpc' \in {"reset", "exit"}
        /\ UNCHANGED <<data, global_histogram, correctness>>
        /\ thread_rt_id \in Routines
        /\ IF thread_rt_id < 4
           THEN thread_rt_id' = thread_rt_id + 1 /\ mainpc' = "reset"
           ELSE mainpc' = "exit" /\ UNCHANGED thread_rt_id
    BY <1>5, <1>s DEF NextRoutine, TypeOK, inputs
  <2>2. thread_rt_id < 4 <=> thread_rt_id + 1 \in Routines
    BY <2>1 DEF Routines
  <2>3. Abstract!NextRound
    BY <2>1, <2>2 DEF Abstract!NextRound
  <2> QED
    BY <2>3 DEF Abstract!Next
<1> QED
  BY <1>1, <1>2, <1>3, <1>4, <1>5 DEF run_threads

\* The end of the process, and steps that are not steps of run_threads or its
\* kernels.
LEMMA StutterRefines ==
  ASSUME IndInv, UNCHANGED vars
  PROVE  UNCHANGED Abstract!vars
<1>1. CountInv
  BY DEF IndInv, CountInv
<1>2. AllCounted' = AllCounted
  BY <1>1, CountStutter
<1> QED
  BY <1>2 DEF vars, Abstract!vars, AbstractPhase, KernelActive

\* run_threads and its kernels do what Histogram promises: every write of the
\* histogram counts items of one bucket that were not counted before, and a
\* kernel is marked correct exactly if every item was counted.
THEOREM RefinementCorrect == Spec => RefinesHistogram
<1>1. IndInv /\ IndInv' /\ VerdictInv /\ [Next]_vars => [Abstract!Next]_Abstract!vars
  <2> SUFFICES ASSUME IndInv, IndInv', VerdictInv, [Next]_vars
               PROVE  [Abstract!Next]_Abstract!vars
    OBVIOUS
  <2>1. Shape'
    BY DEF IndInv, Shape
  <2>2. CASE run_threads
    BY <2>2, MainRefines
  <2>3. CASE \E t \in Threads : thread_routine(t)
    BY <2>1, <2>3, ThreadRefines
  <2>4. CASE UNCHANGED vars
    BY <2>4, StutterRefines
  <2> QED
    BY <2>2, <2>3, <2>4 DEF Next, Terminated
<1> QED
  BY <1>1, InitRefines, IndInvCorrect, VerdictCorrect, PTL
     DEF Spec, RefinesHistogram, Abstract!Spec
=============================================================================
