------------------------------- MODULE Sampler ------------------------------
(***************************************************************************)
(* labs/malloclab/fcyc.c: the K-best scheme.  fcyc measures a function     *)
(* again and again, keeps the kbest smallest measurements in values[],     *)
(* sorted by insertion, and stops when these lie within epsilon of each    *)
(* other or after maxsamples measurements.  It returns values[0].          *)
(*                                                                         *)
(* A step is one measurement or one turn of the insertion loop.  Here a    *)
(* measurement is any of Cycles, negative ones included, which the         *)
(* compensation can produce; FunctionTimer takes it from the cycle counter.*)
(* Measurements are integers, epsilon is the fraction eps_num / eps_den.   *)
(***************************************************************************)
EXTENDS Integers, FiniteSets, Sequences

CONSTANTS
    kbest,          \* set_fcyc_k
    maxsamples,     \* set_fcyc_maxsamples
    eps_num,        \* set_fcyc_epsilon
    eps_den,
    Cycles          \* what a measurement may be

ASSUME SamplerAssumption ==
    /\ kbest \in Nat \ {0}
    /\ maxsamples \in Nat
    /\ eps_num \in Nat
    /\ eps_den \in Nat \ {0}
    /\ Cycles \subseteq Int

VARIABLES
    pc,             \* "idle", "measure" or "insert"
    values,         \* the kbest smallest measurements
    samplecount,    \* measurements taken
    samples,        \* all of them, as kept under KEEP_SAMPLES
    pos,            \* where the insertion has got to
    result          \* what the last call of fcyc returned

vars == <<pc, values, samplecount, samples, pos, result>>

Init ==
    /\ pc = "idle"
    /\ values = [p \in 0 .. kbest - 1 |-> 0]
    /\ samplecount = 0
    /\ samples = <<>>
    /\ pos = 0
    /\ result = 0

\* fcyc is called: init_sampler.
init_sampler ==
    /\ pc = "idle"
    /\ values' = [p \in 0 .. kbest - 1 |-> 0]
    /\ samplecount' = 0
    /\ samples' = <<>>
    /\ pc' = "measure"
    /\ UNCHANGED <<pos, result>>

\* Fault: a measurement that is not small enough replaces the largest too.
PlaceAlways(val) ==
    /\ pos' = IF samplecount < kbest THEN samplecount ELSE kbest - 1
    /\ values' = [values EXCEPT ![pos'] = val]

\* Fault: the array is taken to have one place more.
PlaceBeyond(val) ==
    /\ pos' = IF samplecount <= kbest THEN samplecount ELSE kbest - 1
    /\ values' = IF pos' = kbest - 1 /\ val >= values[kbest - 1] THEN values
                 ELSE [values EXCEPT ![pos'] = val]

\* Where add_sample puts a new value, if it keeps it.
Place(val) ==
    \/ /\ samplecount < kbest
       /\ pos' = samplecount
       /\ values' = [values EXCEPT ![samplecount] = val]
    \/ /\ samplecount >= kbest
       /\ val < values[kbest - 1]
       /\ pos' = kbest - 1
       /\ values' = [values EXCEPT ![kbest - 1] = val]
    \/ /\ samplecount >= kbest
       /\ val >= values[kbest - 1]
       /\ pos' = 0
       /\ UNCHANGED values

\* add_sample up to its insertion loop.
add_sample(val) ==
    /\ pc = "measure"
    /\ Place(val)
    /\ samples' = Append(samples, val)
    /\ samplecount' = samplecount + 1
    /\ pc' = "insert"
    /\ UNCHANGED result

Measure == \E val \in Cycles : add_sample(val)

\* Fault: the insertion stops before the first place.
OutOfOrderButFirst == pos > 1 /\ values[pos - 1] > values[pos]

OutOfOrder == pos > 0 /\ values[pos - 1] > values[pos]

Swap ==
    /\ pc = "insert"
    /\ OutOfOrder
    /\ values' = [values EXCEPT ![pos - 1] = values[pos], ![pos] = values[pos - 1]]
    /\ pos' = pos - 1
    /\ UNCHANGED <<pc, samplecount, samples, result>>

\* Fault: the places that are not filled yet are compared too.
ConvergedEarly == (eps_den + eps_num) * values[0] >= eps_den * values[kbest - 1]

has_converged ==
    /\ samplecount >= kbest
    /\ (eps_den + eps_num) * values[0] >= eps_den * values[kbest - 1]

Stop == has_converged \/ samplecount >= maxsamples

MeasureAgain ==
    /\ pc = "insert"
    /\ ~OutOfOrder
    /\ ~Stop
    /\ pc' = "measure"
    /\ UNCHANGED <<values, samplecount, samples, pos, result>>

\* free(values): they are not read again before the next init_sampler.
Return ==
    /\ pc = "insert"
    /\ ~OutOfOrder
    /\ Stop
    /\ result' = values[0]
    /\ pc' = "idle"
    /\ UNCHANGED <<values, samplecount, samples, pos>>

Next == init_sampler \/ Measure \/ Swap \/ MeasureAgain \/ Return

Spec == Init /\ [][Next]_vars

(***************************************************************************)
(* Properties                                                              *)
(***************************************************************************)
Slots == 0 .. kbest - 1
Kept  == {p \in Slots : p < samplecount}

\* fcyc has returned from a call.
Returned == pc = "idle" /\ samplecount > 0

\* Every variable has its type.
TypeOK ==
    /\ pc \in {"idle", "measure", "insert"}
    /\ values \in [Slots -> Int]
    /\ samplecount \in Nat
    /\ samples \in Seq(Int)
    /\ samplecount = Len(samples)
    /\ pos \in Slots
    /\ result \in Int

\* Between two insertions values[] holds exactly the kbest smallest of all the
\* measurements, with their multiplicities, in ascending order: below every
\* bound there are as many values as measurements, or all of values[].
KSmallest ==
    pc # "insert" =>
        /\ \A p, q \in Kept : p < q => values[p] <= values[q]
        /\ \A v \in {samples[i] : i \in DOMAIN samples} \cup {values[p] : p \in Kept} :
              LET few  == {p \in Kept : values[p] <= v}
                  many == {i \in DOMAIN samples : samples[i] <= v}
              IN  \/ Cardinality(few) = Cardinality(many)
                  \/ few = Kept /\ Cardinality(many) > kbest

\* fcyc returns the smallest of its measurements.
ResultIsBest ==
    Returned =>
        /\ \E i \in DOMAIN samples : samples[i] = result
        /\ \A i \in DOMAIN samples : result <= samples[i]

\* When fcyc stops before maxsamples measurements, at least kbest of them are
\* within epsilon of the result.
ConvergedWithinEpsilon ==
    (Returned /\ samplecount < maxsamples) =>
        Cardinality({i \in DOMAIN samples :
            eps_den * samples[i] <= (eps_den + eps_num) * result}) >= kbest

\* However the measurements scatter, fcyc gives up after maxsamples of them; it
\* takes one even when maxsamples is 0.
SamplesBounded == samplecount <= maxsamples \/ samplecount <= 1

(***************************************************************************)
(* The inductive invariant of the proofs.  Of two values that are kept the *)
(* first is the smaller, except that the one being inserted, at pos, may   *)
(* be smaller than those before it; every value kept was measured, and     *)
(* none of the measurements is smaller than all the values kept.           *)
(***************************************************************************)
SortedButPos ==
    \A p, q \in Kept :
        p < q => (values[p] <= values[q] \/ (pc = "insert" /\ q = pos))

\* values[] is sorted but for the value being inserted, holds measurements
\* only, and has one that is as small as any of them.
IndInv ==
    /\ TypeOK
    /\ (pc = "insert" \/ Returned) => samplecount > 0
    /\ pc = "insert" => pos \in Kept
    /\ SortedButPos
    /\ \A p \in Kept : \E i \in DOMAIN samples : samples[i] = values[p]
    /\ \A i \in DOMAIN samples : \E p \in Kept : values[p] <= samples[i]
    /\ Returned => result = values[0]

=============================================================================
