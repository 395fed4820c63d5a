---------------------------- MODULE SamplerProofs ---------------------------
(***************************************************************************)
(* Proofs about Sampler: whatever kbest, maxsamples, epsilon and the       *)
(* measurements are, values[] holds the kbest smallest of them, fcyc       *)
(* returns the smallest, has kbest measurements within epsilon of it or    *)
(* maxsamples measurements, and takes no more than maxsamples allows.      *)
(*                                                                         *)
(* The proofs are about IntSpec, in which a measurement is any integer:    *)
(* Spec implements it, and so does the fcyc of FunctionTimer.              *)
(***************************************************************************)
EXTENDS Sampler, FiniteSetTheorems, TLAPS

USE SamplerAssumption DEF SamplerAssumption

MeasureInt == \E val \in Int : add_sample(val)

NextInt == init_sampler \/ MeasureInt \/ Swap \/ MeasureAgain \/ Return

IntSpec == Init /\ [][NextInt]_vars

\* Cycles are integers.
LEMMA SpecIsIntSpec == Spec => IntSpec
<1>1. [Next]_vars => [NextInt]_vars
  BY DEF Next, NextInt, Measure, MeasureInt
<1> QED
  BY <1>1, PTL DEF Spec, IntSpec

\* Append puts the new measurement behind the others.
LEMMA AppendedSample ==
    ASSUME NEW val \in Int, samples \in Seq(Int), samples' = Append(samples, val)
    PROVE  /\ samples' \in Seq(Int)
           /\ Len(samples') = Len(samples) + 1
           /\ \A i \in DOMAIN samples : i \in DOMAIN samples' /\ samples'[i] = samples[i]
           /\ \A i \in DOMAIN samples' : i \in DOMAIN samples \/ i = Len(samples) + 1
           /\ Len(samples) + 1 \in DOMAIN samples'
           /\ samples'[Len(samples) + 1] = val
  OBVIOUS

\* Before the first call nothing is kept and nothing has been measured.
LEMMA InitIndInv == Init => IndInv
  BY DEF Init, IndInv, TypeOK, Slots, Kept, Returned, SortedButPos

\* A new call starts with nothing kept.
LEMMA InitSamplerIndInv == IndInv /\ init_sampler => IndInv'
  BY DEF IndInv, init_sampler, TypeOK, Slots, Kept, Returned, SortedButPos

\* A measurement goes behind the values kept, replaces the largest of them, or
\* is at least as large as all of them.
LEMMA AddSampleIndInv ==
    ASSUME NEW val \in Int, IndInv, add_sample(val)
    PROVE  IndInv'
<1>0. kbest \in Int /\ kbest >= 1 /\ kbest - 1 \in Slots /\ 0 \in Slots
  BY DEF Slots
<1>1. Place(val) /\ samples' = Append(samples, val)
  BY DEF add_sample
<1>2. /\ val \in Int
      /\ values \in [Slots -> Int]
      /\ samplecount \in Nat /\ samples \in Seq(Int) /\ samplecount = Len(samples)
      /\ result \in Int
  BY <1>1 DEF IndInv, TypeOK
<1>3. /\ samples' \in Seq(Int)
      /\ Len(samples') = Len(samples) + 1
      /\ \A i \in DOMAIN samples : i \in DOMAIN samples' /\ samples'[i] = samples[i]
      /\ \A i \in DOMAIN samples' : i \in DOMAIN samples \/ i = Len(samples) + 1
      /\ Len(samples) + 1 \in DOMAIN samples'
      /\ samples'[Len(samples) + 1] = val
  BY <1>1, <1>2, AppendedSample
<1>4. /\ samplecount' = samplecount + 1
      /\ pc' = "insert" /\ result' = result
  BY DEF add_sample
<1>5. \A p, q \in Kept : p < q => values[p] <= values[q]
  BY DEF IndInv, SortedButPos, add_sample
<1>6. \A p \in Kept : \E i \in DOMAIN samples : samples[i] = values[p]
  BY DEF IndInv
<1>7. \A i \in DOMAIN samples : \E p \in Kept : values[p] <= samples[i]
  BY DEF IndInv
<1>8. CASE samplecount < kbest
  <2>1. pos' = samplecount /\ values' = [values EXCEPT ![samplecount] = val]
    BY <1>1, <1>2, <1>8 DEF Place
  <2>2. TypeOK'
    BY <2>1, <1>2, <1>3, <1>4, <1>8 DEF TypeOK, Slots
  <2>3. /\ Kept' = Kept \cup {samplecount} /\ samplecount \in Slots /\ samplecount \notin Kept
        /\ Kept \subseteq Slots /\ \A p \in Slots : p \in Int /\ p <= kbest - 1
        /\ \A p \in Kept : p < samplecount
    BY <1>2, <1>4, <1>8 DEF Kept, Slots
  <2>4. SortedButPos'
    BY <2>1, <2>3, <1>2, <1>4, <1>5, <1>8 DEF SortedButPos
  <2>5. \A p \in Kept' : \E i \in DOMAIN samples' : samples'[i] = values'[p]
    BY <2>1, <2>3, <1>2, <1>3, <1>6, <1>8
  <2>6. \A i \in DOMAIN samples' : \E p \in Kept' : values'[p] <= samples'[i]
    BY <2>1, <2>3, <1>2, <1>3, <1>5, <1>7, <1>8
  <2> QED
    BY <2>1, <2>2, <2>3, <2>4, <2>5, <2>6, <1>0, <1>2, <1>4, <1>8 DEF IndInv, Returned
<1>9. CASE samplecount >= kbest /\ val < values[kbest - 1]
  <2>1. pos' = kbest - 1 /\ values' = [values EXCEPT ![kbest - 1] = val]
    BY <1>0, <1>1, <1>2, <1>9 DEF Place
  <2>2. TypeOK'
    BY <2>1, <1>0, <1>2, <1>3, <1>4, <1>9 DEF TypeOK
  <2>3. /\ Kept' = Kept /\ kbest - 1 \in Kept
        /\ Kept \subseteq Slots /\ \A p \in Slots : p \in Int /\ p <= kbest - 1
        /\ \A p \in Kept : p < samplecount
    BY <1>2, <1>4, <1>9 DEF Kept, Slots
  <2>4. SortedButPos'
    BY <2>1, <2>3, <1>2, <1>4, <1>5, <1>9 DEF SortedButPos
  <2>5. \A p \in Kept' : \E i \in DOMAIN samples' : samples'[i] = values'[p]
    BY <2>1, <2>3, <1>2, <1>3, <1>6, <1>9
  <2>6. \A i \in DOMAIN samples' : \E p \in Kept' : values'[p] <= samples'[i]
    <3> SUFFICES ASSUME NEW i \in DOMAIN samples'
                 PROVE  \E p \in Kept' : values'[p] <= samples'[i]
      OBVIOUS
    <3>1. CASE i = Len(samples) + 1
      BY <3>1, <2>1, <2>3, <1>2, <1>3
    <3>2. CASE i \in DOMAIN samples
      <4>1. PICK p \in Kept : values[p] <= samples[i]
        BY <3>2, <1>7
      <4>2. samples[i] \in Int /\ values[p] \in Int
        BY <3>2, <2>3, <1>2
      <4>3. values'[p] <= values[p]
        BY <4>2, <2>1, <2>3, <1>2, <1>9
      <4>4. values'[p] \in Int
        BY <2>2, <2>3 DEF TypeOK
      <4> QED
        BY <4>1, <4>2, <4>3, <4>4, <2>3, <1>3, <3>2
    <3> QED
      BY <3>1, <3>2, <1>3
  <2> QED
    BY <2>1, <2>2, <2>3, <2>4, <2>5, <2>6, <1>0, <1>2, <1>4, <1>9 DEF IndInv, Returned
<1>10. CASE samplecount >= kbest /\ val >= values[kbest - 1]
  <2>1. pos' = 0 /\ values' = values
    BY <1>0, <1>1, <1>2, <1>10 DEF Place
  <2>2. TypeOK'
    BY <2>1, <1>0, <1>2, <1>3, <1>4, <1>10 DEF TypeOK
  <2>3. /\ Kept' = Kept /\ kbest - 1 \in Kept /\ 0 \in Kept
        /\ Kept \subseteq Slots /\ \A p \in Slots : p \in Int /\ p <= kbest - 1
        /\ \A p \in Kept : p < samplecount
    BY <1>0, <1>2, <1>4, <1>10 DEF Kept, Slots
  <2>4. SortedButPos'
    BY <2>1, <2>3, <1>2, <1>4, <1>5, <1>10 DEF SortedButPos
  <2>5. \A p \in Kept' : \E i \in DOMAIN samples' : samples'[i] = values'[p]
    BY <2>1, <2>3, <1>2, <1>3, <1>6, <1>10
  <2>6. \A i \in DOMAIN samples' : \E p \in Kept' : values'[p] <= samples'[i]
    BY <2>1, <2>3, <1>2, <1>3, <1>5, <1>7, <1>10
  <2> QED
    BY <2>1, <2>2, <2>3, <2>4, <2>5, <2>6, <1>0, <1>2, <1>4, <1>10 DEF IndInv, Returned
<1> QED
  BY <1>8, <1>9, <1>10, <1>2 DEF Slots

\* A swap moves the value being inserted one place to the left.
LEMMA SwapIndInv == IndInv /\ Swap => IndInv'
<1> SUFFICES ASSUME IndInv, Swap PROVE IndInv'
  OBVIOUS
<1>1. TypeOK /\ pos \in Kept /\ SortedButPos
  BY DEF IndInv, Swap
<1>2. /\ pos \in Slots /\ pos - 1 \in Slots /\ pos - 1 \in Kept
      /\ values'[pos - 1] = values[pos]
      /\ values'[pos] = values[pos - 1]
      /\ values[pos - 1] > values[pos]
      /\ \A p \in Slots : p # pos /\ p # pos - 1 => values'[p] = values[p]
      /\ values' \in [Slots -> Int]
  BY <1>1 DEF TypeOK, Slots, Kept, Swap, OutOfOrder
<1>3. /\ UNCHANGED <<pc, samplecount, samples, result>>
      /\ pos' = pos - 1 /\ pc = "insert" /\ Kept' = Kept
  BY DEF Swap, Kept, Slots
<1>4. TypeOK'
  BY <1>1, <1>2, <1>3 DEF TypeOK
<1>5. SortedButPos'
  <2> SUFFICES ASSUME NEW p \in Kept, NEW q \in Kept, p < q, q # pos - 1
               PROVE  values'[p] <= values'[q]
    BY <1>3 DEF SortedButPos
  <2>1. p \in Slots /\ q \in Slots /\ p \in Int /\ q \in Int /\ pos \in Int
    BY <1>1 DEF Kept, Slots
  <2>2. /\ q # pos => values[p] <= values[q]
        /\ \A r \in Kept : r < pos - 1 => values[r] <= values[pos - 1]
    BY <1>1, <1>2, <2>1 DEF SortedButPos
  <2>3. CASE q = pos
    BY <2>1, <2>2, <2>3, <1>1, <1>2 DEF TypeOK
  <2>4. CASE q # pos
    <3>1. pos < q => values[pos - 1] <= values[q] /\ values[pos] <= values[q]
      BY <1>1, <1>2, <2>1, <2>4 DEF SortedButPos, TypeOK
    <3> QED
      BY <3>1, <2>1, <2>2, <2>4, <1>1, <1>2 DEF TypeOK
  <2> QED
    BY <2>3, <2>4
<1>6. \A p \in Kept' : \E i \in DOMAIN samples' : samples'[i] = values'[p]
  <2> SUFFICES ASSUME NEW p \in Kept PROVE \E i \in DOMAIN samples : samples[i] = values'[p]
    BY <1>3
  <2>1. PICK r \in Kept : values'[p] = values[r]
    BY <1>1, <1>2 DEF Kept
  <2> QED
    BY <2>1 DEF IndInv
<1>7. \A i \in DOMAIN samples' : \E p \in Kept' : values'[p] <= samples'[i]
  <2> SUFFICES ASSUME NEW i \in DOMAIN samples
               PROVE  \E p \in Kept : values'[p] <= samples[i]
    BY <1>3
  <2>1. PICK p \in Kept : values[p] <= samples[i]
    BY DEF IndInv
  <2>2. PICK r \in Kept : values'[r] = values[p]
    BY <1>1, <1>2 DEF Kept
  <2> QED
    BY <2>1, <2>2
<1> QED
  BY <1>1, <1>2, <1>3, <1>4, <1>5, <1>6, <1>7 DEF IndInv, Returned, TypeOK, Slots

\* When the loop ends, the value at pos is no longer out of order, so that
\* all of values[] is sorted.
LEMMA InsertedIsSorted ==
    ASSUME IndInv, pc = "insert", ~OutOfOrder
    PROVE  \A p, q \in Kept : p < q => values[p] <= values[q]
<1> SUFFICES ASSUME NEW p \in Kept, NEW q \in Kept, p < q
             PROVE  values[p] <= values[q]
  OBVIOUS
<1> USE DEF IndInv, TypeOK, Slots, Kept, SortedButPos
<1>1. CASE q # pos
  BY <1>1
<1>2. CASE q = pos
  <2>1. /\ pos - 1 \in Kept /\ pos \in Slots /\ pos - 1 \in Slots
        /\ pos > 0
    BY <1>2
  <2>2. values[p] \in Int /\ values[pos - 1] \in Int /\ values[pos] \in Int
    BY <2>1
  <2>3. values[pos - 1] <= values[pos]
    BY <2>1, <2>2 DEF OutOfOrder
  <2>4. p = pos - 1 \/ values[p] <= values[pos - 1]
    BY <1>2, <2>1
  <2> QED
    <3> HIDE DEF IndInv, SortedButPos
    <3>1. CASE p = pos - 1
      BY <3>1, <1>2, <2>3
    <3>2. CASE values[p] <= values[pos - 1]
      BY <3>2, <1>2, <2>2, <2>3
    <3> QED
      BY <3>1, <3>2, <2>4
<1> QED
  BY <1>1, <1>2

\* The test after the insertion changes nothing that is kept.
LEMMA TestIndInv == IndInv /\ (MeasureAgain \/ Return) => IndInv'
<1> SUFFICES ASSUME IndInv, MeasureAgain \/ Return PROVE IndInv'
  OBVIOUS
<1>1. /\ pc = "insert" /\ ~OutOfOrder
      /\ UNCHANGED <<values, samplecount, samples, pos>>
      /\ \/ pc' = "measure" /\ result' = result
         \/ pc' = "idle" /\ result' = values[0]
  BY DEF MeasureAgain, Return
<1>2. \A p, q \in Kept : p < q => values[p] <= values[q]
  BY <1>1, InsertedIsSorted
<1>3. TypeOK' /\ Kept' = Kept /\ (Returned' => result' = values'[0])
  <2>1. 0 \in Slots
    BY DEF Slots
  <2> QED
    BY <1>1, <2>1 DEF IndInv, TypeOK, Kept, Returned, Slots
<1>4. SortedButPos'
  BY <1>1, <1>2, <1>3 DEF SortedButPos
<1>5. /\ \A p \in Kept' : \E i \in DOMAIN samples' : samples'[i] = values'[p]
      /\ \A i \in DOMAIN samples' : \E p \in Kept' : values'[p] <= samples'[i]
  BY <1>1, <1>3 DEF IndInv
<1> QED
  BY <1>1, <1>3, <1>4, <1>5 DEF IndInv, Returned

\* IndInv holds throughout, for all integer measurements.
LEMMA IntIndInv == IntSpec => []IndInv
<1>1. IndInv /\ UNCHANGED vars => IndInv'
  BY DEF IndInv, TypeOK, Slots, Kept, Returned, SortedButPos, vars
<1>2. IndInv /\ [NextInt]_vars => IndInv'
  BY <1>1, InitSamplerIndInv, AddSampleIndInv, SwapIndInv, TestIndInv DEF NextInt, MeasureInt
<1> QED
  BY InitIndInv, <1>2, PTL DEF IntSpec

\* IndInv: every step of fcyc keeps the insertion in order and a value in front
\* that no measurement is below.
THEOREM IndInvCorrect == Spec => []IndInv
  BY SpecIsIntSpec, IntIndInv, PTL

LEMMA IntResultIsBest == IntSpec => []ResultIsBest
<1>1. IndInv => ResultIsBest
  <2> SUFFICES ASSUME IndInv, Returned PROVE ResultIsBest
    BY DEF ResultIsBest
  <2> USE DEF IndInv, TypeOK, Slots, Kept, Returned
  <2>1. 0 \in Kept /\ result = values[0]
    OBVIOUS
  <2>2. \E i \in DOMAIN samples : samples[i] = result
    BY <2>1
  <2>3. ASSUME NEW i \in DOMAIN samples PROVE result <= samples[i]
    <3>1. PICK p \in Kept : values[p] <= samples[i]
      OBVIOUS
    <3>2. values[p] \in Int /\ values[0] \in Int /\ samples[i] \in Int
      BY <2>1
    <3>3. values[0] <= values[p]
      BY <2>1, <3>2 DEF SortedButPos
    <3> QED
      BY <2>1, <3>1, <3>2, <3>3
  <2> QED
    BY <2>2, <2>3 DEF ResultIsBest
<1> QED
  BY <1>1, IntIndInv, PTL

\* ResultIsBest: the value fcyc returns is one of its measurements, and none of
\* the others is smaller, even those that values[] has dropped.
THEOREM ResultIsBestCorrect == Spec => []ResultIsBest
  BY SpecIsIntSpec, IntResultIsBest, PTL

LEMMA IntSamplesBounded == IntSpec => []SamplesBounded
<1> DEFINE Bounded ==
      /\ SamplesBounded
      /\ pc = "measure" => samplecount = 0 \/ samplecount < maxsamples
<1>1. Init => Bounded
  BY DEF Init, SamplesBounded
<1>2. IndInv /\ Bounded /\ [NextInt]_vars => Bounded'
  BY DEF IndInv, TypeOK, SamplesBounded, NextInt, vars, init_sampler, MeasureInt, add_sample,
         Swap, MeasureAgain, Return, Stop
<1>3. IntSpec => []Bounded
  BY <1>1, <1>2, IntIndInv, PTL DEF IntSpec
<1> QED
  BY <1>3, PTL

\* SamplesBounded: the loop of fcyc ends after maxsamples measurements at the
\* latest, even if they never converge.
THEOREM SamplesBoundedCorrect == Spec => []SamplesBounded
  BY SpecIsIntSpec, IntSamplesBounded, PTL

(***************************************************************************)
(* The kbest smallest                                                      *)
(***************************************************************************)
\* The values kept and the measurements that are not above v.
Few(v)  == {p \in Kept : values[p] <= v}
Many(v) == {i \in DOMAIN samples : samples[i] <= v}

\* Below every bound as many values are kept as were measured, or all places
\* of values[] hold one.
Counted(v) ==
    \/ Cardinality(Few(v)) = Cardinality(Many(v))
    \/ Few(v) = Kept /\ Cardinality(Many(v)) > kbest

CountedInv == \A v \in Int : Counted(v)

\* Both are finite, and there are kbest places.
LEMMA Finite ==
    ASSUME TypeOK, NEW v \in Int
    PROVE  /\ IsFiniteSet(Few(v)) /\ IsFiniteSet(Many(v)) /\ IsFiniteSet(Kept)
           /\ Cardinality(Many(v)) \in Nat /\ Cardinality(Many(v)) <= samplecount
           /\ samplecount >= kbest => Kept = Slots /\ Cardinality(Kept) = kbest
<1>1. IsFiniteSet(Slots) /\ Cardinality(Slots) = kbest
  <2>1. kbest \in Nat /\ 0 <= kbest - 1 /\ kbest - 1 \in Int
    OBVIOUS
  <2> QED
    BY <2>1, FS_Interval DEF Slots
<1>2. IsFiniteSet(1 .. samplecount) /\ Cardinality(1 .. samplecount) = samplecount
  <2>1. samplecount \in Nat /\ 1 \in Int
    BY DEF TypeOK
  <2>2. Cardinality(1 .. samplecount) = IF 1 > samplecount THEN 0 ELSE samplecount - 1 + 1
    BY <2>1, FS_Interval
  <2> QED
    BY <2>1, <2>2, FS_Interval
<1>3. Few(v) \subseteq Slots /\ Kept \subseteq Slots /\ Many(v) \subseteq 1 .. samplecount
  BY DEF Few, Kept, Many, TypeOK
<1>4. IsFiniteSet(Few(v)) /\ IsFiniteSet(Many(v)) /\ IsFiniteSet(Kept)
      /\ Cardinality(Many(v)) \in Nat /\ Cardinality(Many(v)) <= samplecount
  BY <1>1, <1>2, <1>3, FS_Subset, FS_CardinalityType
<1>5. samplecount >= kbest => Kept = Slots
  BY DEF Kept, Slots, TypeOK
<1> QED
  BY <1>1, <1>4, <1>5

\* A new measurement is counted under the bounds that it is not above.
LEMMA ManyAfter ==
    ASSUME TypeOK, NEW val \in Int, samples' = Append(samples, val), NEW v \in Int
    PROVE  /\ Many(v)' = IF val <= v THEN Many(v) \cup {samplecount + 1} ELSE Many(v)
           /\ Cardinality(Many(v)') = Cardinality(Many(v)) + (IF val <= v THEN 1 ELSE 0)
<1>1. samples \in Seq(Int) /\ samplecount = Len(samples) /\ samplecount \in Nat
  BY DEF TypeOK
<1>2. Many(v)' = IF val <= v THEN Many(v) \cup {samplecount + 1} ELSE Many(v)
  <2>1. /\ \A i \in DOMAIN samples : i \in DOMAIN samples' /\ samples'[i] = samples[i]
        /\ \A i \in DOMAIN samples' : i \in DOMAIN samples \/ i = samplecount + 1
        /\ samplecount + 1 \in DOMAIN samples'
        /\ samples'[samplecount + 1] = val
    BY <1>1, AppendedSample
  <2>2. samplecount + 1 \notin DOMAIN samples
    BY <1>1
  <2> QED
    BY <2>1, <2>2 DEF Many
<1>3. samplecount + 1 \notin Many(v)
  BY <1>1 DEF Many
<1>4. IsFiniteSet(Many(v)) /\ Cardinality(Many(v)) \in Nat
  BY Finite
<1>5. Cardinality(Many(v) \cup {samplecount + 1}) = Cardinality(Many(v)) + 1
  BY <1>3, <1>4, FS_AddElement
<1>6. CASE val <= v
  BY <1>2, <1>5, <1>6
<1>7. CASE ~(val <= v)
  BY <1>2, <1>4, <1>7
<1> QED
  BY <1>6, <1>7

\* Where a measurement goes, it is counted.
LEMMA AddSampleCounted ==
    ASSUME NEW val \in Int, IndInv, CountedInv, add_sample(val)
    PROVE  CountedInv'
<1> SUFFICES ASSUME NEW v \in Int PROVE Counted(v)'
  BY DEF CountedInv
<1>1. /\ TypeOK /\ Counted(v) /\ Place(val)
      /\ samples' = Append(samples, val) /\ samplecount' = samplecount + 1
      /\ \A p, q \in Kept : p < q => values[p] <= values[q]
  BY DEF IndInv, SortedButPos, CountedInv, add_sample
<1>2. /\ values \in [Slots -> Int] /\ samplecount \in Nat
      /\ kbest \in Nat /\ kbest >= 1
      /\ Kept \subseteq Slots /\ \A p \in Slots : p \in Int /\ p <= kbest - 1
  BY <1>1 DEF TypeOK, Slots, Kept
<1>3. /\ IsFiniteSet(Few(v)) /\ IsFiniteSet(Many(v)) /\ IsFiniteSet(Kept)
      /\ Cardinality(Many(v)) \in Nat /\ Cardinality(Many(v)) <= samplecount
      /\ samplecount >= kbest => Kept = Slots /\ Cardinality(Kept) = kbest
      /\ Cardinality(Few(v)) \in Nat
  BY <1>1, Finite, FS_CardinalityType
<1>4. Cardinality(Many(v)') = Cardinality(Many(v)) + (IF val <= v THEN 1 ELSE 0)
  BY <1>1, ManyAfter
<1>5. CASE samplecount < kbest
  <2>1. values' = [values EXCEPT ![samplecount] = val]
    BY <1>1, <1>2, <1>5 DEF Place
  <2>2. /\ samplecount \in Slots /\ samplecount \notin Kept
        /\ Kept' = Kept \cup {samplecount}
    BY <1>1, <1>2, <1>5 DEF Kept, Slots
  <2>3. Few(v)' = IF val <= v THEN Few(v) \cup {samplecount} ELSE Few(v)
    BY <1>2, <2>1, <2>2 DEF Few
  <2>4. samplecount \notin Few(v)
    BY <2>2 DEF Few
  <2>5. Cardinality(Few(v) \cup {samplecount}) = Cardinality(Few(v)) + 1
    BY <1>3, <2>4, FS_AddElement
  <2>6. Cardinality(Few(v)) = Cardinality(Many(v))
    BY <1>1, <1>2, <1>3, <1>5 DEF Counted
  <2>7. Cardinality(Few(v)') = Cardinality(Many(v)')
    <3>1. CASE val <= v
      BY <3>1, <1>4, <2>3, <2>5, <2>6
    <3>2. CASE ~(val <= v)
      BY <3>2, <1>3, <1>4, <2>3, <2>6
    <3> QED
      BY <3>1, <3>2
  <2> QED
    BY <2>7 DEF Counted
<1>6. CASE samplecount >= kbest
  <2>1. /\ Kept = Slots /\ Kept' = Kept /\ Cardinality(Kept) = kbest /\ kbest - 1 \in Kept
    BY <1>1, <1>2, <1>3, <1>6 DEF Kept, Slots
  <2>2. \A p \in Kept : values[p] \in Int /\ values[p] <= values[kbest - 1]
    <3> SUFFICES ASSUME NEW p \in Kept PROVE values[p] \in Int /\ values[p] <= values[kbest - 1]
      OBVIOUS
    <3>1. values[p] \in Int /\ p \in Int /\ p <= kbest - 1
      BY <1>2
    <3>2. CASE p < kbest - 1
      BY <3>1, <3>2, <1>1, <2>1
    <3>3. CASE p = kbest - 1
      BY <3>1, <3>3
    <3> QED
      BY <3>1, <3>2, <3>3, <1>2
  \* Then all places hold a value not above v before and after, and there are
  \* more measurements than places.
  <2>3. CASE values[kbest - 1] <= v /\ val <= v
    <3>1. Few(v) = Kept
      BY <1>2, <2>1, <2>2, <2>3 DEF Few
    <3>2. Cardinality(Many(v)) >= kbest
      BY <1>1, <1>2, <1>3, <2>1, <3>1 DEF Counted
    <3>3. Cardinality(Many(v)') > kbest
      BY <1>2, <1>3, <1>4, <2>3, <3>2
    <3>4. \A p \in Kept : values'[p] = values[p] \/ values'[p] = val
      BY <1>1, <1>2, <1>6 DEF Place
    <3>5. Few(v)' = Kept'
      BY <1>2, <2>1, <2>2, <2>3, <3>4 DEF Few
    <3> QED
      BY <3>3, <3>5 DEF Counted
  \* Then the largest value kept gives way to one not above v.
  <2>4. CASE values[kbest - 1] > v /\ val <= v
    <3>1. values' = [values EXCEPT ![kbest - 1] = val]
      <4>1. val < values[kbest - 1]
        BY <1>2, <2>1, <2>2, <2>4
      <4> QED
        BY <4>1, <1>1, <1>2, <1>6, <2>1, <2>2 DEF Place
    <3>2. kbest - 1 \notin Few(v)
      BY <2>1, <2>2, <2>4 DEF Few
    <3>3. Few(v)' = Few(v) \cup {kbest - 1}
      BY <1>2, <2>1, <2>4, <3>1 DEF Few
    <3>4. Cardinality(Few(v)') = Cardinality(Few(v)) + 1
      BY <1>3, <3>2, <3>3, FS_AddElement
    <3>5. Cardinality(Few(v)) = Cardinality(Many(v))
      BY <1>1, <2>1, <3>2 DEF Counted
    <3> QED
      BY <1>4, <2>4, <3>4, <3>5 DEF Counted
  \* Then neither the measurement nor a value it replaces is counted.
  <2>5. CASE val > v
    <3>1. Few(v)' = Few(v)
      <4>1. CASE val < values[kbest - 1]
        <5>1. values' = [values EXCEPT ![kbest - 1] = val]
          BY <4>1, <1>1, <1>2, <1>6, <2>1, <2>2 DEF Place
        <5>2. ~(values[kbest - 1] <= v)
          BY <4>1, <2>1, <2>2, <2>5
        <5> QED
          BY <1>2, <2>1, <2>5, <5>1, <5>2 DEF Few
      <4>2. CASE val >= values[kbest - 1]
        <5>1. values' = values
          BY <4>2, <1>1, <1>2, <1>6, <2>1, <2>2 DEF Place
        <5> QED
          BY <2>1, <5>1 DEF Few
      <4> QED
        BY <4>1, <4>2, <2>1, <2>2
    <3>2. Cardinality(Many(v)') = Cardinality(Many(v))
      BY <1>3, <1>4, <2>5
    <3> QED
      BY <1>1, <2>1, <3>1, <3>2 DEF Counted
  <2> QED
    BY <2>1, <2>2, <2>3, <2>4, <2>5
<1> QED
  BY <1>2, <1>5, <1>6

\* A swap moves values about and changes none.
LEMMA SwapCounted == IndInv /\ CountedInv /\ Swap => CountedInv'
<1> SUFFICES ASSUME IndInv, CountedInv, Swap, NEW v \in Int PROVE Counted(v)'
  BY DEF CountedInv
<1>1. TypeOK /\ pos \in Kept /\ Counted(v)
  BY DEF IndInv, Swap, CountedInv
<1>2. /\ pos - 1 \in Kept /\ pos # pos - 1 /\ Kept' = Kept
      /\ values'[pos - 1] = values[pos] /\ values'[pos] = values[pos - 1]
      /\ values[pos - 1] > values[pos]
      /\ \A p \in Kept : p # pos /\ p # pos - 1 => values'[p] = values[p]
      /\ \A p \in Kept : values[p] \in Int
      /\ samples' = samples
  BY <1>1 DEF TypeOK, Slots, Kept, Swap, OutOfOrder
<1>3. Many(v)' = Many(v)
  BY <1>2 DEF Many
<1>4. IsFiniteSet(Few(v)) /\ Cardinality(Few(v)) \in Nat
  BY <1>1, Finite, FS_CardinalityType
<1>5. CASE values[pos - 1] <= v \/ ~(values[pos] <= v)
  <2>1. Few(v)' = Few(v)
    BY <1>1, <1>2, <1>5 DEF Few
  <2> QED
    BY <1>1, <1>2, <1>3, <2>1 DEF Counted
<1>6. CASE values[pos] <= v /\ ~(values[pos - 1] <= v)
  <2>1. pos \in Few(v) /\ pos - 1 \notin Few(v)
    BY <1>1, <1>2, <1>6 DEF Few
  <2>2. Few(v)' = (Few(v) \ {pos}) \cup {pos - 1}
    BY <1>1, <1>2, <1>6 DEF Few
  <2>3. IsFiniteSet(Few(v) \ {pos}) /\ Cardinality(Few(v) \ {pos}) = Cardinality(Few(v)) - 1
    BY <1>4, <2>1, FS_RemoveElement
  <2>4. Cardinality(Few(v)') = Cardinality(Few(v) \ {pos}) + 1
    BY <1>2, <2>1, <2>2, <2>3, FS_AddElement
  <2>5. Cardinality(Few(v)') = Cardinality(Few(v))
    BY <1>4, <2>3, <2>4
  <2>6. Cardinality(Few(v)) = Cardinality(Many(v))
    BY <1>1, <1>2, <2>1 DEF Counted
  <2> QED
    BY <1>3, <2>5, <2>6 DEF Counted
<1> QED
  BY <1>5, <1>6

LEMMA IntCountedInv == IntSpec => []CountedInv
<1>1. ASSUME Init PROVE CountedInv
  <2>1. \A v : Few(v) = {} /\ Many(v) = {}
    BY <1>1 DEF Init, Few, Many, Kept, Slots
  <2> QED
    BY <2>1 DEF CountedInv, Counted
<1>2. ASSUME IndInv, CountedInv, [NextInt]_vars PROVE CountedInv'
  <2>1. CASE init_sampler
    <3>1. \A v : Few(v)' = {} /\ Many(v)' = {}
      BY <2>1 DEF init_sampler, Few, Many, Kept, Slots
    <3> QED
      BY <3>1 DEF CountedInv, Counted
  <2>2. CASE MeasureAgain \/ Return \/ UNCHANGED vars
    BY <1>2, <2>2 DEF MeasureAgain, Return, vars, CountedInv, Counted, Few, Many, Kept, Slots
  <2> QED
    BY <1>2, <2>1, <2>2, AddSampleCounted, SwapCounted DEF NextInt, MeasureInt
<1> QED
  BY <1>1, <1>2, IntIndInv, PTL DEF IntSpec

LEMMA IntKSmallest == IntSpec => []KSmallest
<1>1. IndInv /\ CountedInv => KSmallest
  <2> SUFFICES ASSUME IndInv, CountedInv, pc # "insert" PROVE KSmallest
    BY DEF KSmallest
  <2>1. \A p, q \in Kept : p < q => values[p] <= values[q]
    BY DEF IndInv, SortedButPos
  <2>2. \A v \in {samples[i] : i \in DOMAIN samples} \cup {values[p] : p \in Kept} : v \in Int
    BY DEF IndInv, TypeOK, Kept
  <2>3. \A v \in Int :
           \/ Cardinality({p \in Kept : values[p] <= v}) = Cardinality({i \in DOMAIN samples : samples[i] <= v})
           \/ /\ {p \in Kept : values[p] <= v} = Kept
              /\ Cardinality({i \in DOMAIN samples : samples[i] <= v}) > kbest
    BY DEF CountedInv, Counted, Few, Many
  <2> QED
    BY <2>1, <2>2, <2>3 DEF KSmallest
<1> QED
  BY <1>1, IntIndInv, IntCountedInv, PTL

\* KSmallest: between two insertions values[] is the kbest smallest of the
\* measurements in order, counted with their multiplicities.
THEOREM KSmallestCorrect == Spec => []KSmallest
  BY SpecIsIntSpec, IntKSmallest, PTL

(***************************************************************************)
(* Convergence                                                             *)
(***************************************************************************)
\* fcyc returns when its stop test holds; nothing changes what it tested.
StopInv == Returned => Stop

LEMMA IntStopInv == IntSpec => []StopInv
<1>1. Init => StopInv
  BY DEF Init, StopInv, Returned
<1>2. StopInv /\ [NextInt]_vars => StopInv'
  <2> SUFFICES ASSUME StopInv, [NextInt]_vars PROVE StopInv'
    OBVIOUS
  <2>1. CASE init_sampler \/ MeasureInt \/ Swap \/ MeasureAgain
    BY <2>1 DEF init_sampler, MeasureInt, add_sample, Swap, MeasureAgain, StopInv, Returned
  <2>2. CASE Return \/ UNCHANGED vars
    BY <2>2 DEF Return, vars, StopInv, Returned, Stop, has_converged
  <2> QED
    BY <2>1, <2>2 DEF NextInt
<1> QED
  BY <1>1, <1>2, PTL DEF IntSpec

LEMMA IntConverged == IntSpec => []ConvergedWithinEpsilon
<1>1. IndInv /\ CountedInv /\ StopInv => ConvergedWithinEpsilon
  <2> SUFFICES ASSUME IndInv, CountedInv, StopInv, Returned, samplecount < maxsamples
               PROVE  Cardinality({i \in DOMAIN samples :
                          eps_den * samples[i] <= (eps_den + eps_num) * result}) >= kbest
    BY DEF ConvergedWithinEpsilon
  <2> DEFINE last == values[kbest - 1]
             Near == {i \in DOMAIN samples :
                        eps_den * samples[i] <= (eps_den + eps_num) * result}
  <2>1. /\ TypeOK /\ result = values[0]
        /\ \A p, q \in Kept : p < q => values[p] <= values[q]
    BY DEF IndInv, SortedButPos, Returned
  <2>2. /\ kbest \in Nat /\ kbest >= 1 /\ samplecount \in Nat /\ maxsamples \in Nat
        /\ samples \in Seq(Int) /\ eps_den \in Nat /\ result \in Int
        /\ values \in [Slots -> Int]
    BY <2>1 DEF TypeOK
  <2>3. /\ samplecount >= kbest
        /\ (eps_den + eps_num) * values[0] >= eps_den * last
    BY <2>2 DEF StopInv, Stop, has_converged
  <2>4. Kept = Slots /\ Cardinality(Kept) = kbest /\ last \in Int /\ kbest - 1 \in Kept
    <3>1. kbest - 1 \in Slots
      BY <2>2 DEF Slots
    <3>2. last \in Int
      BY <2>2, <3>1
    <3> QED
      BY <2>1, <2>3, <3>1, <3>2, Finite
  <2>5. Few(last) = Kept
    <3> SUFFICES ASSUME NEW p \in Kept PROVE values[p] <= last
      BY DEF Few
    <3>1. p \in Int /\ p <= kbest - 1 /\ values[p] \in Int
      BY <2>2, <2>4 DEF Slots
    <3>2. CASE p < kbest - 1
      BY <3>1, <3>2, <2>1, <2>4
    <3>3. CASE p = kbest - 1
      BY <3>1, <3>3
    <3> QED
      BY <3>1, <3>2, <3>3, <2>2
  <2>6. Cardinality(Many(last)) >= kbest
    <3>1. Counted(last) /\ Cardinality(Many(last)) \in Nat
      BY <2>1, <2>4, Finite DEF CountedInv
    <3> QED
      BY <2>2, <2>4, <2>5, <3>1 DEF Counted
  <2>7. Many(last) \subseteq Near
    <3> SUFFICES ASSUME NEW i \in DOMAIN samples, samples[i] <= last
                 PROVE  eps_den * samples[i] <= (eps_den + eps_num) * result
      BY DEF Many
    <3>1. samples[i] \in Int /\ last \in Int /\ eps_den \in Nat /\ eps_num \in Nat /\ result \in Int
      BY <2>2, <2>4
    <3>2. PICK d \in Nat : last = samples[i] + d
      <4> DEFINE d == last - samples[i]
      <4>1. d \in Nat /\ last = samples[i] + d
        BY <3>1
      <4> QED
        BY <4>1
    <3>3. eps_den * last = eps_den * samples[i] + eps_den * d /\ eps_den * d \in Nat
      <4> HIDE DEF last
      <4> QED
        BY <3>1, <3>2
    <3>4. /\ eps_den * samples[i] \in Int /\ eps_den * last \in Int
          /\ (eps_den + eps_num) * result \in Int
      BY <3>1
    <3>5. (eps_den + eps_num) * result >= eps_den * last
      BY <2>1, <2>3
    <3> HIDE DEF last
    <3> QED
      BY <3>3, <3>4, <3>5
  <2>8. IsFiniteSet(Near)
    <3>1. IsFiniteSet(1 .. samplecount) /\ Near \subseteq 1 .. samplecount
      BY <2>1, <2>2, FS_Interval DEF TypeOK
    <3> QED
      BY <3>1, FS_Subset
  <2>9. Cardinality(Many(last)) <= Cardinality(Near) /\ Cardinality(Near) \in Nat
        /\ Cardinality(Many(last)) \in Nat
    BY <2>1, <2>4, <2>7, <2>8, Finite, FS_Subset, FS_CardinalityType
  <2> QED
    BY <2>2, <2>6, <2>9
<1> QED
  BY <1>1, IntIndInv, IntCountedInv, IntStopInv, PTL

\* ConvergedWithinEpsilon: a call that returns before maxsamples measurements
\* has kbest of them within epsilon of its result, not only kbest values.
THEOREM ConvergedCorrect == Spec => []ConvergedWithinEpsilon
  BY SpecIsIntSpec, IntConverged, PTL

=============================================================================
