-------------------------- MODULE TestHarnessProofs --------------------------
(***************************************************************************)
(* Proofs about TestHarness, for every set of puzzles: the values gen_vals *)
(* chooses, the combinations the loops over them come to, and what the     *)
(* signals may and may not do to the scores.                               *)
(***************************************************************************)
EXTENDS TestHarness, FiniteSetTheorems, SequenceTheorems, NaturalsInduction,
        WellFoundedInduction, TLAPS

\* Induction over the naturals, for a set.
LEMMA LeastElement ==
  ASSUME NEW S, S \subseteq Nat, S # {}
  PROVE  \E m \in S : \A k \in S : m <= k
<1>1. IsWellFoundedOn(OpToRel(<, Nat), Nat)
  BY NatLessThanWellFounded
<1>2. PICK m \in S : \A k \in S : ~ (<<k, m>> \in OpToRel(<, Nat))
  BY <1>1, WFMin
<1>3. \A k \in S : ~ (k < m)
  BY <1>2 DEF OpToRel
<1>4. m \in Nat /\ \A k \in S : k \in Nat
  OBVIOUS
<1> QED
  BY <1>3, <1>4

LEMMA InductionOnSet ==
  ASSUME NEW S, 0 \in S, \A k \in Nat : k \in S => k + 1 \in S
  PROVE  Nat \subseteq S
<1> SUFFICES ASSUME Nat \ S # {} PROVE FALSE
  OBVIOUS
<1> DEFINE T == Nat \ S
<1>1. PICK k \in T : \A m \in T : k <= m
  <2>1. T \subseteq Nat /\ T # {}
    OBVIOUS
  <2> HIDE DEF T
  <2> QED
    BY <2>1, LeastElement
<1>2. k \in Nat /\ k # 0 /\ k - 1 \in Nat
  BY <1>1
<1>3. k - 1 \in S
  BY <1>1, <1>2
<1> QED
  BY <1>1, <1>2, <1>3

\* Recursion along 0 .. m: step[k][v] is the value after v.
LEMMA Recursion ==
  ASSUME NEW V, NEW base \in V, NEW m \in Nat,
         NEW step \in [1 .. m -> [V -> V]]
  PROVE  \E f \in [0 .. m -> V] :
            f[0] = base /\ \A k \in 1 .. m : f[k] = step[k][f[k - 1]]
<1> DEFINE Follows(f, j) == f[0] = base /\ \A k \in 1 .. j : f[k] = step[k][f[k - 1]]
           S == {j \in Nat : j <= m => \E f \in [0 .. j -> V] : Follows(f, j)}
<1>1. 0 \in S
  <2> DEFINE f == [k \in 0 .. 0 |-> base]
  <2>1. f \in [0 .. 0 -> V] /\ Follows(f, 0)
    OBVIOUS
  <2> QED
    BY <2>1
<1>2. ASSUME NEW j \in Nat, j \in S PROVE j + 1 \in S
  <2> SUFFICES ASSUME j + 1 <= m PROVE \E f \in [0 .. j + 1 -> V] : Follows(f, j + 1)
    OBVIOUS
  <2>1. PICK f \in [0 .. j -> V] : Follows(f, j)
    BY <1>2
  <2> DEFINE g == [k \in 0 .. j + 1 |-> IF k <= j THEN f[k] ELSE step[j + 1][f[j]]]
  <2>2. f[j] \in V /\ step[j + 1][f[j]] \in V
    BY <2>1
  <2>3. g \in [0 .. j + 1 -> V]
    BY <2>1, <2>2
  <2>4. g[0] = base
    BY <2>1
  <2>5. ASSUME NEW k \in 1 .. j + 1 PROVE g[k] = step[k][g[k - 1]]
    <3>1. k - 1 \in 0 .. j /\ g[k - 1] = f[k - 1]
      OBVIOUS
    <3>2. CASE k <= j
      <4>1. k \in 1 .. j /\ g[k] = f[k]
        BY <3>2
      <4> QED
        BY <2>1, <3>1, <4>1
    <3>3. CASE k = j + 1
      <4>1. g[k] = step[j + 1][f[j]] /\ k - 1 = j
        BY <3>3
      <4> QED
        BY <3>1, <3>3, <4>1
    <3> QED
      BY <3>2, <3>3
  <2> QED
    BY <2>3, <2>4, <2>5
<1> HIDE DEF S
<1>3. m \in S
  BY <1>1, <1>2, InductionOnSet
<1> QED
  BY <1>3 DEF S

LEMMA ProductRec ==
  ASSUME NEW lists, Len(lists) \in Nat, \A k \in 1 .. Len(lists) : Len(lists[k]) \in Nat
  PROVE  \E f \in [0 .. Len(lists) -> Nat] :
            /\ Product(lists) = f[Len(lists)] /\ f[0] = 1
            /\ \A k \in 1 .. Len(lists) : f[k] = f[k - 1] * Len(lists[k])
<1> DEFINE m == Len(lists)
           step == [k \in 1 .. m |-> [v \in Nat |-> v * Len(lists[k])]]
           Rule(f) == [k \in 0 .. m |-> IF k = 0 THEN 1 ELSE f[k - 1] * Len(lists[k])]
<1>1. \A k \in 1 .. m : \A v \in Nat : step[k][v] = v * Len(lists[k]) /\ step[k][v] \in Nat
  OBVIOUS
<1>2. PICK f \in [0 .. m -> Nat] : f[0] = 1 /\ \A k \in 1 .. m : f[k] = step[k][f[k - 1]]
  <2> DEFINE V == Nat
             base == 1
  <2> HIDE DEF step
  <2>1. m \in Nat /\ base \in V /\ step \in [1 .. m -> [V -> V]]
    BY DEF step
  <2> HIDE DEF m, V, base
  <2>2. \E f \in [0 .. m -> V] : f[0] = base /\ \A k \in 1 .. m : f[k] = step[k][f[k - 1]]
    BY ONLY <2>1, Recursion
  <2> QED
    BY <2>2 DEF V, base
<1>3. \A k \in 1 .. m : f[k] = f[k - 1] * Len(lists[k])
  <2> TAKE k \in 1 .. m
  <2>1. k - 1 \in 0 .. m /\ f[k - 1] \in Nat
    BY <1>2
  <2> HIDE DEF step
  <2> QED
    BY <1>1, <1>2, <2>1
<1>4. f = Rule(f)
  BY <1>2, <1>3
<1> DEFINE g == CHOOSE h : h = Rule(h)
<1>5. g = Rule(g)
  BY <1>4
<1>6. Product(lists) = g[m]
  BY DEF Product
<1> DEFINE S == {k \in Nat : k <= m => g[k] = f[k]}
<1> HIDE DEF g
<1>7. g[0] = 1 /\ \A k \in 1 .. m : g[k] = g[k - 1] * Len(lists[k])
  BY <1>5
<1>8. 0 \in S
  BY <1>2, <1>7
<1>9. ASSUME NEW k \in Nat, k \in S PROVE k + 1 \in S
  <2> SUFFICES ASSUME k + 1 <= m PROVE g[k + 1] = f[k + 1]
    OBVIOUS
  <2>1. k + 1 \in 1 .. m /\ (k + 1) - 1 = k /\ g[k] = f[k]
    BY <1>9
  <2> QED
    BY <2>1, <1>3, <1>7
<1> HIDE DEF S
<1>10. m \in S
  BY <1>8, <1>9, InductionOnSet
<1>11. g[m] = f[m]
  BY <1>10 DEF S
<1> QED
  BY <1>2, <1>3, <1>6, <1>11

\* flat joins the first k of the lists: it has their values and no others.
Joins(flat, lists, k) ==
    /\ \A j \in 1 .. k : \A a \in 1 .. Len(lists[j]) :
          \E c \in 1 .. Len(flat) : flat[c] = lists[j][a]
    /\ \A c \in 1 .. Len(flat) :
          \E j \in 1 .. k : \E a \in 1 .. Len(lists[j]) : flat[c] = lists[j][a]

LEMMA FlattenRec ==
  ASSUME NEW S, NEW lists \in Seq(Seq(S)), Len(lists) > 0
  PROVE  \E f : /\ FlattenSeq(lists) = f[Len(lists)]
                /\ f[1] = lists[1]
                /\ \A k \in 2 .. Len(lists) : f[k] = f[k - 1] \o lists[k]
<1> DEFINE m == Len(lists)
           V == Seq(S)
           base == <<>>
           step == [k \in 1 .. m |-> [v \in V |-> v \o lists[k]]]
           Rule(f) == [k \in 1 .. m |-> IF k = 1 THEN lists[k] ELSE f[k - 1] \o lists[k]]
<1>1. m \in Nat /\ base \in V /\ step \in [1 .. m -> [V -> V]]
  <2>1. \A k \in 1 .. m : \A v \in V : v \o lists[k] \in V
    OBVIOUS
  <2> QED
    BY <2>1
<1>2. \A k \in 1 .. m : \A v \in V : step[k][v] = v \o lists[k]
  OBVIOUS
<1>3. PICK f \in [0 .. m -> V] : f[0] = base /\ \A k \in 1 .. m : f[k] = step[k][f[k - 1]]
  <2> HIDE DEF m, V, base, step
  <2> QED
    BY ONLY <1>1, Recursion
<1>4. ASSUME NEW k \in 1 .. m PROVE f[k] = f[k - 1] \o lists[k]
  <2> HIDE DEF step, V
  <2>1. k - 1 \in 0 .. m
    BY <1>1
  <2>2. f[k - 1] \in V
    BY <1>3, <2>1
  <2> QED
    BY <1>2, <1>3, <2>2
<1>5. f[1] = lists[1]
  <2>1. 1 \in 1 .. m /\ 1 - 1 = 0
    BY <1>1
  <2>2. f[1] = f[0] \o lists[1]
    BY <1>4, <2>1
  <2>3. f[0] = <<>> /\ lists[1] \in Seq(S)
    BY <1>3, <2>1
  <2> QED
    BY <2>2, <2>3
<1> HIDE DEF step
<1> DEFINE r == [k \in 1 .. m |-> f[k]]
<1>6. r = Rule(r)
  <2>1. ASSUME NEW k \in 1 .. m
        PROVE  r[k] = IF k = 1 THEN lists[k] ELSE r[k - 1] \o lists[k]
    <3>1. CASE k = 1
      BY <1>5, <3>1
    <3>2. CASE k # 1
      <4>1. k - 1 \in 1 .. m /\ r[k - 1] = f[k - 1] /\ r[k] = f[k]
        BY <3>2
      <4> QED
        BY <1>4, <3>2, <4>1
    <3> QED
      BY <3>1, <3>2
  <2>2. r = [k \in 1 .. m |-> r[k]]
    OBVIOUS
  <2> HIDE DEF r
  <2> QED
    BY <2>1, <2>2
<1> DEFINE g == CHOOSE h : h = Rule(h)
<1>7. g = Rule(g)
  <2> HIDE DEF r
  <2> QED
    BY <1>6
<1>8. FlattenSeq(lists) = g[m]
  BY <1>1 DEF FlattenSeq
<1> HIDE DEF g, r
<1>9. g[1] = lists[1] /\ \A k \in 2 .. m : g[k] = g[k - 1] \o lists[k]
  <2>1. \A k \in 1 .. m : g[k] = IF k = 1 THEN lists[k] ELSE g[k - 1] \o lists[k]
    <3> SUFFICES ASSUME NEW k \in 1 .. m
                 PROVE  g[k] = IF k = 1 THEN lists[k] ELSE g[k - 1] \o lists[k]
      OBVIOUS
    <3>1. g[k] = Rule(g)[k]
      BY <1>7
    <3> QED
      BY <3>1
  <2>2. 1 \in 1 .. m /\ \A k \in 2 .. m : k \in 1 .. m /\ k # 1
    BY <1>1
  <2> HIDE DEF Rule
  <2> QED
    BY <2>1, <2>2
<1> QED
  BY <1>8, <1>9

LEMMA JoinOne ==
  ASSUME NEW S, NEW lists \in Seq(Seq(S)), NEW k \in Nat, k > 0, k + 1 <= Len(lists),
         NEW old \in Seq(S), Joins(old, lists, k)
  PROVE  Joins(old \o lists[k + 1], lists, k + 1)
<1> DEFINE last == lists[k + 1]
           new == old \o last
<1>1. last \in Seq(S)
  OBVIOUS
<1>2. /\ \A c \in 1 .. Len(old) : c \in 1 .. Len(new) /\ new[c] = old[c]
      /\ \A a \in 1 .. Len(last) : Len(old) + a \in 1 .. Len(new) /\ new[Len(old) + a] = last[a]
      /\ \A c \in 1 .. Len(new) : c \in 1 .. Len(old) \/
             (c - Len(old) \in 1 .. Len(last) /\ new[c] = last[c - Len(old)])
  <2> HIDE DEF last
  <2> QED
    BY <1>1
<1> HIDE DEF new
<1>3. ASSUME NEW j \in 1 .. k + 1, NEW a \in 1 .. Len(lists[j])
      PROVE  \E c \in 1 .. Len(new) : new[c] = lists[j][a]
  <2>1. CASE j \in 1 .. k
    <3>1. PICK c \in 1 .. Len(old) : old[c] = lists[j][a]
      BY <2>1 DEF Joins
    <3> QED
      BY <1>2, <3>1
  <2>2. CASE j = k + 1
    BY <1>2, <2>2
  <2> QED
    BY <2>1, <2>2
<1>4. ASSUME NEW c \in 1 .. Len(new)
      PROVE  \E j \in 1 .. k + 1 : \E a \in 1 .. Len(lists[j]) : new[c] = lists[j][a]
  <2>1. CASE c \in 1 .. Len(old)
    <3>1. PICK j \in 1 .. k : \E a \in 1 .. Len(lists[j]) : old[c] = lists[j][a]
      BY <2>1 DEF Joins
    <3>2. j \in 1 .. k + 1 /\ new[c] = old[c]
      BY <1>2, <2>1
    <3> QED
      BY <3>1, <3>2
  <2>2. CASE c - Len(old) \in 1 .. Len(last) /\ new[c] = last[c - Len(old)]
    <3>1. k + 1 \in 1 .. k + 1
      OBVIOUS
    <3> QED
      BY <2>2, <3>1
  <2> QED
    BY <1>2, <2>1, <2>2
<1> QED
  BY <1>3, <1>4 DEF Joins, new

\* A list of lists of at most w values flattened.
LEMMA Flatten ==
  ASSUME NEW S, NEW lists \in Seq(Seq(S)), Len(lists) > 0,
         NEW w \in Nat, \A k \in 1 .. Len(lists) : Len(lists[k]) <= w
  PROVE  /\ FlattenSeq(lists) \in Seq(S)
         /\ Len(FlattenSeq(lists)) <= w * Len(lists)
         /\ Joins(FlattenSeq(lists), lists, Len(lists))
<1> DEFINE m == Len(lists)
           Fine(flat, k) == flat \in Seq(S) /\ Len(flat) <= w * k /\ Joins(flat, lists, k)
<1>1. PICK g : /\ FlattenSeq(lists) = g[m]
               /\ g[1] = lists[1]
               /\ \A k \in 2 .. m : g[k] = g[k - 1] \o lists[k]
  BY FlattenRec
<1>2. m \in Nat /\ m > 0
  OBVIOUS
<1>3. Fine(g[1], 1)
  <2>1. 1 \in 1 .. m /\ g[1] = lists[1] /\ lists[1] \in Seq(S)
    BY <1>1, <1>2
  <2>2. Joins(g[1], lists, 1)
    BY <2>1 DEF Joins
  <2>3. Len(g[1]) <= w * 1
    <3>1. Len(lists[1]) <= w
      BY <2>1
    <3> QED
      BY <2>1, <3>1
  <2> QED
    BY <2>1, <2>2, <2>3
<1>4. ASSUME NEW k \in Nat, k > 0, k + 1 <= m, Fine(g[k], k) PROVE Fine(g[k + 1], k + 1)
  <2> DEFINE old == g[k]
             last == lists[k + 1]
             new == g[k + 1]
  <2>1. k + 1 \in 2 .. m /\ (k + 1) - 1 = k /\ k + 1 \in 1 .. m
    BY <1>4
  <2>2. new = old \o last
    BY <1>1, <2>1
  <2>3. last \in Seq(S) /\ Len(last) <= w
    BY <2>1
  <2>4. old \in Seq(S) /\ Len(old) <= w * k /\ Joins(old, lists, k)
    BY <1>4
  <2>5. Joins(new, lists, k + 1)
    BY <1>4, <2>2, <2>4, JoinOne
  <2> HIDE DEF old, last, new, m
  <2>6. new \in Seq(S) /\ Len(new) = Len(old) + Len(last)
    BY <2>2, <2>3, <2>4
  <2>7. Len(new) <= w * (k + 1)
    <3>1. w * (k + 1) = w * k + w /\ w * k \in Nat /\ Len(old) \in Nat /\ Len(last) \in Nat
      BY <2>3, <2>4
    <3> QED
      BY <2>3, <2>4, <2>6, <3>1
  <2> QED
    BY <2>5, <2>6, <2>7 DEF new
<1> DEFINE T == {k \in Nat : k > 0 /\ k <= m => Fine(g[k], k)}
<1> HIDE DEF Fine, m
<1>5. 0 \in T
  OBVIOUS
<1>6. ASSUME NEW k \in Nat, k \in T PROVE k + 1 \in T
  <2> SUFFICES ASSUME k + 1 <= m PROVE Fine(g[k + 1], k + 1)
    OBVIOUS
  <2>1. CASE k = 0
    BY <1>3, <2>1
  <2>2. CASE k > 0
    <3>1. k <= m
      BY <1>2
    <3>2. Fine(g[k], k)
      BY <1>6, <2>2, <3>1
    <3> QED
      BY <1>4, <2>2, <3>2
  <2> QED
    BY <2>1, <2>2
<1>7. m \in T
  <2> HIDE DEF T
  <2> QED
    BY <1>2, <1>5, <1>6, InductionOnSet
<1>8. Fine(g[m], m)
  BY <1>2, <1>7
<1>9. Fine(FlattenSeq(lists), m)
  BY <1>1, <1>8
<1> QED
  BY <1>9 DEF Fine, m

-----------------------------------------------------------------------------
\* The constants of a puzzle.
Puzzle == [rating : Nat, ranges : Seq([min : Int, max : Int]),
           wrong : SUBSET Seq(Int), hangs : SUBSET Seq(Int)]

LEMMA Puzzles ==
  ASSUME NEW p \in Chosen
  PROVE  LET ranges == test_set[p].ranges IN
         /\ p \in 1 .. Len(test_set) /\ ranges \in Seq([min : Int, max : Int])
         /\ Len(ranges) \in 0 .. 3
         /\ \A c \in 1 .. Len(ranges) :
               /\ ranges[c].min \in Int /\ ranges[c].max \in Int
               /\ ranges[c].max >= ranges[c].min /\ ranges[c].max - ranges[c].min # MAX_TEST_VALS
<1> DEFINE ranges == test_set[p].ranges
<1>1. test_set \in Seq(Puzzle) /\ p \in DOMAIN test_set
  BY HarnessAssumption DEF HarnessAssumption, Puzzle
<1>2. p \in 1 .. Len(test_set) /\ test_set[p] \in Puzzle
  BY <1>1
<1>3. ranges \in Seq([min : Int, max : Int])
  BY <1>2 DEF Puzzle
<1>4. Len(ranges) \in 0 .. 3
  BY <1>1, HarnessAssumption DEF HarnessAssumption
<1>5. ASSUME NEW c \in 1 .. Len(ranges)
      PROVE  /\ ranges[c].min \in Int /\ ranges[c].max \in Int
             /\ ranges[c].max >= ranges[c].min /\ ranges[c].max - ranges[c].min # MAX_TEST_VALS
  <2> DEFINE R == [min : Int, max : Int]
  <2>0. ranges \in Seq(R)
    BY <1>3
  <2>1. c \in DOMAIN ranges /\ ranges[c] \in R
    <3> HIDE DEF R
    <3> QED
      BY <2>0
  <2>2. ranges[c].max >= ranges[c].min /\ ranges[c].max - ranges[c].min # MAX_TEST_VALS
    BY <1>1, <2>1, HarnessAssumption DEF HarnessAssumption
  <2> QED
    BY <2>1, <2>2
<1> QED
  BY <1>2, <1>3, <1>4, <1>5

\* arg_test_range is at least 1 and at most TEST_RANGE.
LEMMA RootRange ==
  ASSUME NEW k PROVE Root(k) \in 1 .. TEST_RANGE
<1> DEFINE S == {1} \cup {b \in 1 .. TEST_RANGE : b ^ k <= TEST_RANGE}
           T == {TEST_RANGE - b : b \in S}
<1>1. TEST_RANGE \in Nat /\ TEST_RANGE >= 1
  BY HarnessAssumption DEF HarnessAssumption
<1>2. S \subseteq 1 .. TEST_RANGE /\ 1 \in S
  BY <1>1
<1> HIDE DEF S
<1>3. T \subseteq Nat /\ T # {}
  BY <1>1, <1>2
<1>4. PICK d \in T : \A e \in T : d <= e
  <2> HIDE DEF T
  <2> QED
    BY <1>3, LeastElement
<1>5. PICK b \in S : d = TEST_RANGE - b
  BY <1>4
<1>6. \A e \in S : b >= e
  <2> TAKE e \in S
  <2>1. TEST_RANGE - e \in T
    OBVIOUS
  <2>2. TEST_RANGE - b <= TEST_RANGE - e /\ b \in Int /\ e \in Int
    BY <1>2, <1>4, <1>5, <2>1
  <2> QED
    BY <1>1, <2>2
<1>7. Max(S) \in S
  BY <1>6 DEF Max
<1>8. Root(k) = Max(S)
  BY DEF Root, S
<1> QED
  BY <1>2, <1>7, <1>8

Occurs(x, list) == \E a \in 1 .. Len(list) : list[a] = x

LEMMA JoinTwo ==
  ASSUME NEW W, NEW u \in Seq(W), NEW v \in Seq(W)
  PROVE  /\ u \o v \in Seq(W) /\ Len(u \o v) = Len(u) + Len(v)
         /\ \A x : Occurs(x, u) \/ Occurs(x, v) => Occurs(x, u \o v)
<1>1. /\ \A a \in 1 .. Len(u) : a \in 1 .. Len(u \o v) /\ (u \o v)[a] = u[a]
      /\ \A a \in 1 .. Len(v) : Len(u) + a \in 1 .. Len(u \o v) /\ (u \o v)[Len(u) + a] = v[a]
  OBVIOUS
<1>2. ASSUME NEW x, Occurs(x, u) PROVE Occurs(x, u \o v)
  BY <1>1, <1>2 DEF Occurs
<1>3. ASSUME NEW x, Occurs(x, v) PROVE Occurs(x, u \o v)
  BY <1>1, <1>3 DEF Occurs
<1> QED
  BY <1>2, <1>3

\* What one turn of gen_vals adds.
LEMMA AroundValues ==
  ASSUME NEW range, range.min \in Int, range.max \in Int,
         range.max - range.min > MAX_TEST_VALS,
         NEW k \in 0 .. TEST_RANGE - 1, NEW random \in random_val(range)
  PROVE  LET list == Around(range, k, random) IN
         /\ list \in Seq(range.min .. range.max) /\ Len(list) <= 5
         /\ Occurs(range.min + k, list) /\ Occurs(range.max - k, list)
         /\ k \in range.min .. range.max => Occurs(k, list)
         /\ -k \in range.min .. range.max => Occurs(-k, list)
<1> DEFINE W == range.min .. range.max
           x == range.min + k
           y == range.max - k
           first == <<x, y>>
           up == IfWithin(range, k)
           down == IfWithin(range, -k)
           last == <<random>>
<1>1. TEST_RANGE \in Nat /\ k \in Nat /\ k < TEST_RANGE /\ range.max - range.min > 13 * TEST_RANGE
  BY HarnessAssumption DEF HarnessAssumption, MAX_TEST_VALS
<1>2. x \in W /\ y \in W
  BY <1>1
<1>3. random \in W
  BY DEF random_val
<1>4. up \in Seq(W) /\ Len(up) <= 1 /\ (k \in W => Occurs(k, up))
  <2>1. CASE k \in W
    <3>1. up = <<k>>
      BY <2>1 DEF IfWithin
    <3> HIDE DEF up, W
    <3> QED
      BY <2>1, <3>1 DEF Occurs
  <2>2. CASE k \notin W
    <3>1. up = <<>>
      BY <2>2 DEF IfWithin
    <3> HIDE DEF up, W
    <3> QED
      BY <2>2, <3>1
  <2> QED
    BY <2>1, <2>2
<1>5. down \in Seq(W) /\ Len(down) <= 1 /\ (-k \in W => Occurs(-k, down))
  <2>1. CASE -k \in W
    <3>1. down = <<-k>>
      BY <2>1 DEF IfWithin
    <3> HIDE DEF down, W
    <3> QED
      BY <2>1, <3>1 DEF Occurs
  <2>2. CASE -k \notin W
    <3>1. down = <<>>
      BY <2>2 DEF IfWithin
    <3> HIDE DEF down, W
    <3> QED
      BY <2>2, <3>1
  <2> QED
    BY <2>1, <2>2
<1> HIDE DEF W, x, y, up, down
<1>6. first \in Seq(W) /\ Len(first) = 2 /\ Occurs(x, first) /\ Occurs(y, first)
  <2>1. first[1] = x /\ first[2] = y /\ Len(first) = 2 /\ 1 \in 1 .. 2 /\ 2 \in 1 .. 2
    OBVIOUS
  <2> QED
    BY <1>2, <2>1 DEF Occurs
<1>7. last \in Seq(W) /\ Len(last) = 1
  BY <1>3
<1> HIDE DEF first, last
<1> DEFINE two == first \o up
           three == two \o down
           list == three \o last
<1>8. /\ two \in Seq(W) /\ Len(two) = Len(first) + Len(up)
      /\ \A v : Occurs(v, first) \/ Occurs(v, up) => Occurs(v, two)
  BY <1>4, <1>6, JoinTwo
<1> HIDE DEF two
<1>9. /\ three \in Seq(W) /\ Len(three) = Len(two) + Len(down)
      /\ \A v : Occurs(v, two) \/ Occurs(v, down) => Occurs(v, three)
  BY <1>5, <1>8, JoinTwo
<1> HIDE DEF three
<1>10. /\ list \in Seq(W) /\ Len(list) = Len(three) + Len(last)
       /\ \A v : Occurs(v, three) => Occurs(v, list)
  BY <1>7, <1>9, JoinTwo
<1>11. Around(range, k, random) = list
  BY DEF Around, list, three, two, first, last, up, down, x, y
<1> HIDE DEF list
<1>12. Len(list) <= 5
  <2>1. Len(first) \in Nat /\ Len(up) \in Nat /\ Len(down) \in Nat
    BY <1>4, <1>5, <1>6
  <2> QED
    BY <1>4, <1>5, <1>6, <1>7, <1>8, <1>9, <1>10, <2>1
<1>13. /\ Occurs(x, list) /\ Occurs(y, list)
       /\ k \in W => Occurs(k, list)
       /\ -k \in W => Occurs(-k, list)
  BY <1>4, <1>5, <1>6, <1>8, <1>9, <1>10
<1> QED
  BY <1>10, <1>11, <1>12, <1>13 DEF W, x, y

\* A list of values for an argument: it fits the array, keeps to the range and
\* has what must always be tested.
GoodList(list, range, r) ==
    /\ list \in Seq(range.min .. range.max)
    /\ Len(list) \in 1 .. MAX_TEST_VALS
    /\ \A x \in Always(range, r) : Occurs(x, list)

\* gen_vals, all of a small range.
LEMMA SmallRange ==
  ASSUME NEW range, range.min \in Int, range.max \in Int, range.max >= range.min,
         range.max - range.min < MAX_TEST_VALS, NEW r
  PROVE  GoodList([k \in 1 .. range.max - range.min + 1 |-> range.min + k - 1], range, r)
<1> DEFINE W == range.min .. range.max
           m == range.max - range.min + 1
           list == [k \in 1 .. m |-> range.min + k - 1]
<1>1. m \in Nat /\ m >= 1 /\ MAX_TEST_VALS \in Nat /\ m <= MAX_TEST_VALS
  BY HarnessAssumption DEF HarnessAssumption, MAX_TEST_VALS
<1>2. \A k \in 1 .. m : range.min + k - 1 \in W
  OBVIOUS
<1>3. list \in Seq(W) /\ Len(list) = m
  <2> HIDE DEF m, W
  <2> QED
    BY <1>1, <1>2
<1>4. ASSUME NEW x \in W PROVE Occurs(x, list)
  <2>1. x - range.min + 1 \in 1 .. m /\ range.min + (x - range.min + 1) - 1 = x
    OBVIOUS
  <2>2. list[x - range.min + 1] = x
    BY <2>1
  <2> QED
    BY <1>3, <2>1, <2>2 DEF Occurs
<1>5. Always(range, r) = W
  BY <1>1 DEF Always
<1> QED
  BY <1>1, <1>3, <1>4, <1>5 DEF GoodList

\* gen_vals, a sample of a large range.
LEMMA LargeRange ==
  ASSUME NEW range, range.min \in Int, range.max \in Int,
         range.max - range.min > MAX_TEST_VALS, NEW r \in 1 .. TEST_RANGE,
         NEW random \in [1 .. r -> random_val(range)]
  PROVE  GoodList(FlattenSeq([k \in 1 .. r |-> Around(range, k - 1, random[k])]), range, r)
<1> DEFINE W == range.min .. range.max
           lists == [k \in 1 .. r |-> Around(range, k - 1, random[k])]
           flat == FlattenSeq(lists)
           five == 5
<1>1. /\ TEST_RANGE \in Nat /\ r \in Nat /\ r >= 1 /\ r <= TEST_RANGE
      /\ MAX_TEST_VALS = 13 * TEST_RANGE
  BY HarnessAssumption DEF HarnessAssumption, MAX_TEST_VALS
<1>2. ASSUME NEW k \in 1 .. r
      PROVE  /\ lists[k] \in Seq(W) /\ Len(lists[k]) <= five
             /\ Occurs(range.min + (k - 1), lists[k]) /\ Occurs(range.max - (k - 1), lists[k])
             /\ k - 1 \in W => Occurs(k - 1, lists[k])
             /\ -(k - 1) \in W => Occurs(-(k - 1), lists[k])
  <2>1. k - 1 \in 0 .. TEST_RANGE - 1 /\ random[k] \in random_val(range)
    BY <1>1
  <2>2. lists[k] = Around(range, k - 1, random[k])
    OBVIOUS
  <2> QED
    BY <2>1, <2>2, AroundValues
<1>3. Len(lists) = r /\ lists \in Seq(Seq(W))
  <2>1. \A k \in 1 .. r : Around(range, k - 1, random[k]) \in Seq(W)
    BY <1>2
  <2> HIDE DEF W
  <2> QED
    BY <1>1, <2>1
<1> HIDE DEF lists, W, five
<1>4. /\ flat \in Seq(W) /\ Len(flat) <= five * Len(lists)
      /\ Joins(flat, lists, Len(lists))
  <2>1. five \in Nat /\ Len(lists) > 0 /\ \A k \in 1 .. Len(lists) : Len(lists[k]) <= five
    BY <1>1, <1>2, <1>3 DEF five
  <2> QED
    BY <1>3, <2>1, Flatten
<1> HIDE DEF flat
<1>5. ASSUME NEW k \in 1 .. r, NEW x, Occurs(x, lists[k]) PROVE Occurs(x, flat)
  <2>1. PICK a \in 1 .. Len(lists[k]) : lists[k][a] = x
    BY <1>5 DEF Occurs
  <2>2. k \in 1 .. Len(lists)
    BY <1>3
  <2>3. PICK c \in 1 .. Len(flat) : flat[c] = lists[k][a]
    BY <1>4, <2>2 DEF Joins
  <2> QED
    BY <2>1, <2>3 DEF Occurs
<1>6. Len(flat) \in 1 .. MAX_TEST_VALS
  <2>1. 1 \in 1 .. r /\ Occurs(range.min + (1 - 1), lists[1])
    BY <1>1, <1>2
  <2>2. Occurs(range.min + (1 - 1), flat)
    BY <1>5, <2>1
  <2>3. Len(flat) \in Nat /\ Len(flat) >= 1 /\ Len(flat) <= 5 * r
    BY <1>3, <1>4, <2>2 DEF Occurs, five
  <2> QED
    BY <1>1, <2>3
<1>7. ASSUME NEW x \in Always(range, r) PROVE Occurs(x, flat)
  <2>1. /\ x \in Int
        /\ \/ x \in range.min .. range.min + r - 1
           \/ x \in range.max - r + 1 .. range.max
           \/ x \in 1 - r .. r - 1 /\ x \in W
    BY <1>1 DEF Always, W
  <2>2. CASE x \in range.min .. range.min + r - 1
    <3> DEFINE k == x - range.min + 1
    <3>1. k \in 1 .. r /\ range.min + (k - 1) = x
      BY <1>1, <2>1, <2>2
    <3> HIDE DEF k
    <3> QED
      BY <1>2, <1>5, <3>1
  <2>3. CASE x \in range.max - r + 1 .. range.max
    <3> DEFINE k == range.max - x + 1
    <3>1. k \in 1 .. r /\ range.max - (k - 1) = x
      BY <1>1, <2>1, <2>3
    <3> HIDE DEF k
    <3> QED
      BY <1>2, <1>5, <3>1
  <2>4. CASE x \in 1 - r .. r - 1 /\ x \in W /\ x >= 0
    <3> DEFINE k == x + 1
    <3>1. k \in 1 .. r /\ k - 1 = x
      BY <1>1, <2>1, <2>4
    <3> HIDE DEF k
    <3> QED
      BY <1>2, <1>5, <2>4, <3>1
  <2>5. CASE x \in 1 - r .. r - 1 /\ x \in W /\ x < 0
    <3> DEFINE k == 1 - x
    <3>1. k \in 1 .. r /\ -(k - 1) = x
      BY <1>1, <2>1, <2>5
    <3> HIDE DEF k
    <3> QED
      BY <1>2, <1>5, <2>5, <3>1
  <2> QED
    BY <2>1, <2>2, <2>3, <2>4, <2>5
<1> QED
  BY <1>4, <1>6, <1>7 DEF GoodList, flat, lists, W

LEMMA GenValsGood ==
  ASSUME NEW p \in Chosen, NEW c \in 1 .. Len(test_set[p].ranges), NEW m,
         NEW list \in gen_vals(test_set[p].ranges[c], arg_test_range(m))
  PROVE  GoodList(list, test_set[p].ranges[c], arg_test_range(m))
<1> DEFINE range == test_set[p].ranges[c]
           r == arg_test_range(m)
<1>1. /\ range.min \in Int /\ range.max \in Int
      /\ range.max >= range.min /\ range.max - range.min # MAX_TEST_VALS
  BY Puzzles
<1>2. r \in 1 .. TEST_RANGE
  BY RootRange DEF arg_test_range
<1>3. MAX_TEST_VALS \in Nat
  BY HarnessAssumption DEF HarnessAssumption, MAX_TEST_VALS
<1>4. list \in gen_vals(range, r)
  OBVIOUS
<1> HIDE DEF range, r
<1>5. CASE range.max - range.min < MAX_TEST_VALS
  <2>1. list = [k \in 1 .. range.max - range.min + 1 |-> range.min + k - 1]
    BY <1>1, <1>3, <1>4, <1>5 DEF gen_vals
  <2>2. GoodList(list, range, r)
    BY <1>1, <1>5, <2>1, SmallRange
  <2> QED
    BY <2>2 DEF range, r
<1>6. CASE range.max - range.min > MAX_TEST_VALS
  <2>1. ~ (range.max - MAX_TEST_VALS <= range.min)
    BY <1>1, <1>3, <1>6
  <2>2. PICK random \in [1 .. r -> random_val(range)] :
          list = FlattenSeq([k \in 1 .. r |-> Around(range, k - 1, random[k])])
    BY <1>4, <2>1 DEF gen_vals
  <2>3. GoodList(list, range, r)
    BY <1>1, <1>2, <1>6, <2>2, LargeRange
  <2> QED
    BY <2>3 DEF range, r
<1> QED
  BY <1>1, <1>3, <1>5, <1>6

-----------------------------------------------------------------------------
\* Division with a remainder.
LEMMA DivMod ==
  ASSUME NEW a \in Nat, NEW b \in Nat, NEW r \in Nat, r < b
  PROVE  (a * b + r) \div b = a /\ (a * b + r) % b = r
  OBVIOUS

LEMMA ModRange ==
  ASSUME NEW a \in Nat, NEW b \in Nat, b > 0
  PROVE  a % b \in Nat /\ a % b < b /\ a \div b \in Nat
  OBVIOUS

LEMMA ModSmall ==
  ASSUME NEW a \in Nat, NEW b \in Nat, a < b
  PROVE  a % b = a
  OBVIOUS

LEMMA Below ==
  ASSUME NEW a \in Nat, NEW b \in Nat, NEW c \in Nat, NEW r \in Nat, a < c, r < b
  PROVE  a * b + r \in Nat /\ a * b + r < c * b /\ c * b \in Nat
<1>1. a + 1 <= c /\ (a + 1) * b = a * b + b /\ a * b \in Nat /\ c * b \in Nat
  OBVIOUS
<1>2. (a + 1) * b <= c * b
  BY <1>1
<1> QED
  BY <1>1, <1>2

LEMMA Associative ==
  ASSUME NEW a \in Nat, NEW b \in Nat, NEW c \in Nat
  PROVE  a * (b * c) = (a * b) * c
  OBVIOUS

LEMMA Regroup ==
  ASSUME NEW a \in Nat, NEW b \in Nat, NEW c \in Nat, NEW d \in Nat, NEW e \in Nat
  PROVE  a * (b * c) + (d * c + e) = (a * b + d) * c + e /\ a * b + d \in Nat
  OBVIOUS

\* Products of up to three lengths.
LEMMA Products ==
  ASSUME NEW lists, Len(lists) \in 0 .. 3, \A k \in 1 .. Len(lists) : Len(lists[k]) \in Nat
  PROVE  /\ Len(lists) = 0 => Product(lists) = 1
         /\ Len(lists) = 1 => Product(lists) = Len(lists[1])
         /\ Len(lists) = 2 => Product(lists) = Len(lists[1]) * Len(lists[2])
         /\ Len(lists) = 3 => Product(lists) = (Len(lists[1]) * Len(lists[2])) * Len(lists[3])
<1> DEFINE m == Len(lists)
           l1 == Len(lists[1])
           l2 == Len(lists[2])
           l3 == Len(lists[3])
           all == Product(lists)
<1>1. m \in Nat /\ \A k \in 1 .. m : Len(lists[k]) \in Nat
  OBVIOUS
<1>2. PICK f \in [0 .. m -> Nat] :
            /\ all = f[m] /\ f[0] = 1
            /\ \A k \in 1 .. m : f[k] = f[k - 1] * Len(lists[k])
  BY <1>1, ProductRec
<1>3. ASSUME m >= 1 PROVE l1 \in Nat /\ f[1] = l1
  <2>1. f[1] = f[1 - 1] * l1 /\ l1 \in Nat
    BY <1>1, <1>2, <1>3
  <2> QED
    BY <1>2, <2>1
<1>4. ASSUME m >= 2 PROVE l2 \in Nat /\ f[2] = l1 * l2
  <2>1. f[2] = f[2 - 1] * l2 /\ 2 - 1 = 1 /\ l2 \in Nat
    BY <1>1, <1>2, <1>4
  <2>2. f[1] = l1
    BY <1>1, <1>3, <1>4
  <2> QED
    BY <2>1, <2>2
<1>5. ASSUME m = 3 PROVE f[3] = (l1 * l2) * l3
  <2>1. f[3] = f[3 - 1] * l3 /\ 3 - 1 = 2
    BY <1>1, <1>2, <1>5
  <2>2. f[2] = l1 * l2
    BY <1>1, <1>4, <1>5
  <2> QED
    BY <2>1, <2>2
<1> HIDE DEF m, l1, l2, l3, all
<1>6. m = 0 => all = 1
  BY <1>2
<1>7. m = 1 => all = l1
  BY <1>2, <1>3
<1>8. m = 2 => all = l1 * l2
  <2>1. ASSUME m = 2 PROVE all = f[2] /\ f[2] = l1 * l2
    BY <1>2, <1>4, <2>1
  <2> QED
    BY <2>1
<1>9. m = 3 => all = (l1 * l2) * l3
  <2>1. ASSUME m = 3 PROVE all = f[3] /\ f[3] = (l1 * l2) * l3
    BY <1>2, <1>5, <2>1
  <2> QED
    BY <2>1
<1> QED
  BY <1>6, <1>7, <1>8, <1>9 DEF m, l1, l2, l3, all

LEMMA TimesPositive ==
  ASSUME NEW a \in Nat, NEW b \in Nat, a >= 1, b >= 1
  PROVE  a * b \in Nat /\ a * b >= 1
  OBVIOUS

\* Combination m of the values in lists, whatever vals holds.
Comb(lists, m) ==
    [c \in DOMAIN lists |->
        LET block == Product(SubSeq(lists, c + 1, Len(lists))) IN
        lists[c][((m \div block) % Len(lists[c])) + 1]]

LEMMA CombinationIs == \A m : Combination(m) = Comb(vals, m)
  BY DEF Combination, Comb

Lists(lists) ==
    /\ lists \in Seq(Seq(Int)) /\ Len(lists) <= 3
    /\ \A c \in 1 .. Len(lists) : Len(lists[c]) \in Nat /\ Len(lists[c]) >= 1

\* How many combinations of the arguments after c there are.
Block(lists, c) == Product(SubSeq(lists, c + 1, Len(lists)))

LEMMA Blocks ==
  ASSUME NEW lists, Lists(lists), NEW c \in 1 .. Len(lists)
  PROVE  LET m == Len(lists) IN
         /\ c = m => Block(lists, c) = 1
         /\ c = m - 1 => Block(lists, c) = Len(lists[m])
         /\ c = m - 2 => Block(lists, c) = Len(lists[m - 1]) * Len(lists[m])
<1> DEFINE m == Len(lists)
           rest == SubSeq(lists, c + 1, m)
<1>1. lists \in Seq(Seq(Int)) /\ m \in Nat /\ m <= 3 /\ c \in 1 .. m
  BY DEF Lists
<1>2. /\ rest \in Seq(Seq(Int)) /\ Len(rest) = m - c
      /\ \A k \in 1 .. m - c : rest[k] = lists[c + k]
  <2>1. c + 1 \in 1 .. m + 1 /\ m \in c .. m
    BY <1>1
  <2>2. /\ rest \in Seq(Seq(Int))
        /\ Len(rest) = IF c + 1 <= m THEN m - (c + 1) + 1 ELSE 0
        /\ \A k \in 1 .. m - (c + 1) + 1 : rest[k] = lists[(c + 1) + k - 1]
    <3> DEFINE V == Seq(Int)
    <3>1. lists \in Seq(V)
      BY <1>1
    <3> HIDE DEF V
    <3>2. rest \in Seq(V)
      BY <1>1, <2>1, <3>1
    <3>3. /\ Len(rest) = IF c + 1 <= m THEN m - (c + 1) + 1 ELSE 0
          /\ \A k \in 1 .. m - (c + 1) + 1 : rest[k] = lists[(c + 1) + k - 1]
      BY <1>1, <2>1, <3>1
    <3> QED
      BY <3>2, <3>3 DEF V
  <2>3. \A k \in 1 .. m - c : k \in 1 .. m - (c + 1) + 1 /\ (c + 1) + k - 1 = c + k
    BY <1>1
  <2> HIDE DEF rest, m
  <2> QED
    BY <1>1, <2>2, <2>3
<1> HIDE DEF rest
<1>3. /\ Len(rest) = 0 => Product(rest) = 1
      /\ Len(rest) = 1 => Product(rest) = Len(rest[1])
      /\ Len(rest) = 2 => Product(rest) = Len(rest[1]) * Len(rest[2])
  <2>1. Len(rest) \in 0 .. 3
    <3> DEFINE r == Len(rest)
    <3>1. r = m - c /\ m \in Nat /\ m <= 3 /\ c \in 1 .. m
      BY <1>1, <1>2
    <3> HIDE DEF r, m
    <3>2. r \in 0 .. 3
      BY ONLY <3>1
    <3> QED
      BY <3>2 DEF r
  <2>2. \A k \in 1 .. Len(rest) : Len(rest[k]) \in Nat
    <3> TAKE k \in 1 .. Len(rest)
    <3>1. rest[k] \in Seq(Int)
      BY <1>2
    <3> QED
      BY <3>1
  <2> QED
    BY <2>1, <2>2, Products
<1>4. c = m => Product(rest) = 1
  BY <1>1, <1>2, <1>3
<1>5. ASSUME c = m - 1 PROVE Product(rest) = Len(lists[m])
  <2>1. rest[1] = lists[m] /\ Len(rest) = 1
    BY <1>1, <1>2, <1>5
  <2> QED
    BY <1>3, <2>1
<1>6. ASSUME c = m - 2 PROVE Product(rest) = Len(lists[m - 1]) * Len(lists[m])
  <2>1. rest[1] = lists[m - 1] /\ rest[2] = lists[m] /\ Len(rest) = 2
    BY <1>1, <1>2, <1>6
  <2> QED
    BY <1>3, <2>1
<1>7. Block(lists, c) = Product(rest)
  BY DEF Block, rest
<1> QED
  BY <1>4, <1>5, <1>6, <1>7

LEMMA Lengths ==
  ASSUME NEW lists, Lists(lists)
  PROVE  /\ Len(lists) \in 0 .. 3
         /\ \A c \in 1 .. Len(lists) : Len(lists[c]) \in Nat /\ Len(lists[c]) >= 1
<1> DEFINE m == Len(lists)
<1>1. m \in Nat /\ m <= 3
  BY DEF Lists
<1>2. \A c \in 1 .. m : Len(lists[c]) \in Nat /\ Len(lists[c]) >= 1
  BY DEF Lists
<1> HIDE DEF m
<1>3. m \in 0 .. 3
  BY <1>1
<1> QED
  BY <1>2, <1>3 DEF m

LEMMA Positive ==
  ASSUME NEW lists, Lists(lists)
  PROVE  /\ \A c \in 1 .. Len(lists) : Block(lists, c) \in Nat /\ Block(lists, c) >= 1
         /\ Product(lists) \in Nat /\ Product(lists) >= 1
<1> DEFINE m == Len(lists)
           all == Product(lists)
           Length(c) == Len(lists[c])
<1>1. m \in Nat /\ m <= 3 /\ \A c \in 1 .. m : Length(c) \in Nat /\ Length(c) >= 1
  BY DEF Lists
<1>2. /\ m = 0 => all = 1
      /\ m = 1 => all = Length(1)
      /\ m = 2 => all = Length(1) * Length(2)
      /\ m = 3 => all = (Length(1) * Length(2)) * Length(3)
  <2>1. Len(lists) \in 0 .. 3 /\ \A k \in 1 .. Len(lists) : Len(lists[k]) \in Nat
    BY Lengths
  <2> QED
    BY ONLY <2>1, Products
<1>3. ASSUME NEW c \in 1 .. m
      PROVE  /\ c = m => Block(lists, c) = 1
             /\ c = m - 1 => Block(lists, c) = Length(m)
             /\ c = m - 2 => Block(lists, c) = Length(m - 1) * Length(m)
  BY Blocks
<1> HIDE DEF m, all, Length
<1>4. ASSUME NEW c \in 1 .. m PROVE Block(lists, c) \in Nat /\ Block(lists, c) >= 1
  <2>1. CASE c = m
    BY <1>3, <2>1
  <2>2. CASE c = m - 1
    <3>1. m \in 1 .. m
      BY <1>1
    <3> QED
      BY <1>1, <1>3, <2>2, <3>1
  <2>3. CASE c = m - 2
    <3>1. m \in 1 .. m /\ m - 1 \in 1 .. m
      BY <1>1, <2>3
    <3>2. Length(m - 1) * Length(m) \in Nat /\ Length(m - 1) * Length(m) >= 1
      BY <1>1, <3>1, TimesPositive
    <3> QED
      BY <1>3, <2>3, <3>2
  <2>4. c = m \/ c = m - 1 \/ c = m - 2
    BY <1>1
  <2> QED
    BY <2>1, <2>2, <2>3, <2>4
<1>5. all \in Nat /\ all >= 1
  <2>1. CASE m = 0
    BY <1>2, <2>1
  <2>2. CASE m = 1
    BY <1>1, <1>2, <2>2
  <2>3. CASE m >= 2
    <3>1. 1 \in 1 .. m /\ 2 \in 1 .. m /\ (m = 3 => 3 \in 1 .. m)
      BY <1>1, <2>3
    <3>2. Length(1) * Length(2) \in Nat /\ Length(1) * Length(2) >= 1
      BY <1>1, <3>1, TimesPositive
    <3>3. m = 3 => /\ (Length(1) * Length(2)) * Length(3) \in Nat
                   /\ (Length(1) * Length(2)) * Length(3) >= 1
      BY <1>1, <3>1, <3>2, TimesPositive
    <3>4. m = 2 \/ m = 3
      BY <1>1, <2>3
    <3> QED
      BY <1>2, <3>2, <3>3, <3>4
  <2> QED
    BY <1>1, <2>1, <2>2, <2>3
<1> QED
  BY <1>4, <1>5 DEF m, all

\* A combination takes a value of each list.
LEMMA CombFrom ==
  ASSUME NEW lists, Lists(lists), NEW m \in Nat
  PROVE  /\ DOMAIN Comb(lists, m) = 1 .. Len(lists)
         /\ Comb(lists, m) = [c \in 1 .. Len(lists) |-> Comb(lists, m)[c]]
         /\ \A c \in 1 .. Len(lists) :
              /\ Comb(lists, m)[c] = lists[c][((m \div Block(lists, c)) % Len(lists[c])) + 1]
              /\ ((m \div Block(lists, c)) % Len(lists[c])) + 1 \in 1 .. Len(lists[c])
<1>1. DOMAIN lists = 1 .. Len(lists)
  BY DEF Lists
<1>2. /\ DOMAIN Comb(lists, m) = 1 .. Len(lists)
      /\ Comb(lists, m) = [c \in 1 .. Len(lists) |-> Comb(lists, m)[c]]
  BY <1>1 DEF Comb
<1>3. ASSUME NEW c \in 1 .. Len(lists)
      PROVE  /\ Comb(lists, m)[c] = lists[c][((m \div Block(lists, c)) % Len(lists[c])) + 1]
             /\ ((m \div Block(lists, c)) % Len(lists[c])) + 1 \in 1 .. Len(lists[c])
  <2>1. Comb(lists, m)[c] = lists[c][((m \div Block(lists, c)) % Len(lists[c])) + 1]
    BY <1>1 DEF Comb, Block
  <2> DEFINE b == Block(lists, c)
             d == Len(lists[c])
             q == m \div b
             r == q % d
  <2>2. b \in Nat /\ b >= 1 /\ d \in Nat /\ d >= 1
    BY Positive DEF Lists
  <2> HIDE DEF b, d
  <2>3. q \in Nat
    BY <2>2, ModRange
  <2> HIDE DEF q
  <2>4. r \in Nat /\ r < d
    BY <2>2, <2>3, ModRange
  <2> HIDE DEF r
  <2>5. r + 1 \in 1 .. d
    BY <2>2, <2>4
  <2> QED
    BY <2>1, <2>5 DEF r, q, d, b
<1> QED
  BY <1>2, <1>3

\* m is the number of the combination that takes place a[c] of list c.
NumberOf(m, lists, a) ==
    \A c \in 1 .. Len(lists) : (m \div Block(lists, c)) % Len(lists[c]) = a[c]

LEMMA Numbered ==
  ASSUME NEW lists, Lists(lists), NEW a,
         \A c \in 1 .. Len(lists) : a[c] \in Nat /\ a[c] < Len(lists[c])
  PROVE  \E m \in Nat : m < Product(lists) /\ NumberOf(m, lists, a)
<1> DEFINE len == Len(lists)
           all == Product(lists)
           L(c) == Len(lists[c])
           B(c) == Block(lists, c)
<1>1. len \in Nat /\ len <= 3 /\ \A c \in 1 .. len : L(c) \in Nat /\ L(c) >= 1
  BY DEF Lists
<1>2. /\ len = 0 => all = 1
      /\ len = 1 => all = L(1)
      /\ len = 2 => all = L(1) * L(2)
      /\ len = 3 => all = (L(1) * L(2)) * L(3)
  <2>1. Len(lists) \in 0 .. 3 /\ \A k \in 1 .. Len(lists) : Len(lists[k]) \in Nat
    BY Lengths
  <2> QED
    BY ONLY <2>1, Products
<1>3. ASSUME NEW c \in 1 .. len
      PROVE  /\ c = len => B(c) = 1
             /\ c = len - 1 => B(c) = L(len)
             /\ c = len - 2 => B(c) = L(len - 1) * L(len)
  BY Blocks
<1>4. \A c \in 1 .. len : a[c] \in Nat /\ a[c] < L(c)
  OBVIOUS
<1> SUFFICES \E m \in Nat : m < all /\ \A c \in 1 .. len : (m \div B(c)) % L(c) = a[c]
  BY DEF NumberOf
<1> HIDE DEF len, all, L, B
<1>5. CASE len = 0
  BY <1>2, <1>5
<1>6. CASE len = 1
  <2>1. 1 \in 1 .. len
    BY <1>6
  <2>2. B(1) = 1 /\ all = L(1) /\ a[1] \in Nat /\ a[1] < L(1) /\ L(1) \in Nat
    BY <1>1, <1>2, <1>3, <1>4, <1>6, <2>1
  <2>3. (a[1] \div 1) % L(1) = a[1]
    <3>1. a[1] \div 1 = a[1]
      BY ONLY <2>2
    <3>2. a[1] % L(1) = a[1]
      BY ONLY <2>2, ModSmall
    <3> QED
      BY ONLY <3>1, <3>2
  <2>4. \A c \in 1 .. len : c = 1
    BY <1>6
  <2> QED
    BY <2>2, <2>3, <2>4
<1>7. CASE len = 2
  <2> DEFINE m == a[1] * L(2) + a[2]
  <2>1. 1 \in 1 .. len /\ 2 \in 1 .. len /\ \A c \in 1 .. len : c = 1 \/ c = 2
    BY <1>7
  <2>2. B(1) = L(2) /\ B(2) = 1 /\ all = L(1) * L(2)
    BY <1>2, <1>3, <1>7, <2>1
  <2>3. /\ a[1] \in Nat /\ a[1] < L(1) /\ a[2] \in Nat /\ a[2] < L(2)
        /\ L(1) \in Nat /\ L(2) \in Nat
    BY <1>1, <1>4, <2>1
  <2>4. m \div L(2) = a[1] /\ m % L(2) = a[2]
    BY ONLY <2>3, DivMod
  <2>5. m \in Nat /\ m < all
    BY <2>2, <2>3, Below
  <2> HIDE DEF m
  <2>6. (m \div B(1)) % L(1) = a[1]
    BY <2>2, <2>3, <2>4, ModSmall
  <2>7. (m \div B(2)) % L(2) = a[2]
    BY <2>2, <2>4, <2>5
  <2> QED
    BY <2>1, <2>5, <2>6, <2>7
<1>8. CASE len = 3
  <2> DEFINE low == a[2] * L(3) + a[3]
             high == L(2) * L(3)
             m == a[1] * high + low
             up == a[1] * L(2) + a[2]
  <2>1. 1 \in 1 .. len /\ 2 \in 1 .. len /\ 3 \in 1 .. len
        /\ \A c \in 1 .. len : c = 1 \/ c = 2 \/ c = 3
    BY <1>8
  <2>2. B(1) = high /\ B(2) = L(3) /\ B(3) = 1 /\ all = (L(1) * L(2)) * L(3)
    BY <1>2, <1>3, <1>8, <2>1
  <2>3. /\ a[1] \in Nat /\ a[1] < L(1) /\ a[2] \in Nat /\ a[2] < L(2)
        /\ a[3] \in Nat /\ a[3] < L(3)
        /\ L(1) \in Nat /\ L(2) \in Nat /\ L(3) \in Nat
    BY <1>1, <1>4, <2>1
  <2>4. low \in Nat /\ low < high /\ high \in Nat
    BY <2>3, Below
  <2>5. m \div high = a[1]
    <3> HIDE DEF low, high
    <3> QED
      BY <2>3, <2>4, DivMod
  <2>6. m \in Nat /\ m < L(1) * high
    <3> HIDE DEF low, high
    <3> QED
      BY <2>3, <2>4, Below
  <2>7. L(1) * high = all
    BY <2>2, <2>3, Associative
  <2>8. m = up * L(3) + a[3] /\ up \in Nat
    <3>1. /\ a[1] * (L(2) * L(3)) + (a[2] * L(3) + a[3]) = (a[1] * L(2) + a[2]) * L(3) + a[3]
          /\ a[1] * L(2) + a[2] \in Nat
      <4> DEFINE a1 == a[1]
                 a2 == a[2]
                 a3 == a[3]
                 l2 == L(2)
                 l3 == L(3)
      <4>1. a1 \in Nat /\ a2 \in Nat /\ a3 \in Nat /\ l2 \in Nat /\ l3 \in Nat
        BY <2>3
      <4> HIDE DEF a1, a2, a3, l2, l3
      <4>2. a1 * (l2 * l3) + (a2 * l3 + a3) = (a1 * l2 + a2) * l3 + a3 /\ a1 * l2 + a2 \in Nat
        BY ONLY <4>1, Regroup
      <4> QED
        BY <4>2 DEF a1, a2, a3, l2, l3
    <3> QED
      BY <3>1
  <2>9. m \div L(3) = up /\ m % L(3) = a[3]
    <3> HIDE DEF m, up
    <3>1. up \in Nat /\ L(3) \in Nat /\ a[3] \in Nat /\ a[3] < L(3)
      BY ONLY <2>3, <2>8
    <3>2. (up * L(3) + a[3]) \div L(3) = up /\ (up * L(3) + a[3]) % L(3) = a[3]
      BY ONLY <3>1, DivMod
    <3> QED
      BY ONLY <2>8, <3>2
  <2>10. up % L(2) = a[2]
    <3> DEFINE a1 == a[1]
               a2 == a[2]
               l2 == L(2)
    <3>1. a1 \in Nat /\ a2 \in Nat /\ l2 \in Nat /\ a2 < l2
      BY ONLY <2>3
    <3> HIDE DEF a1, a2, l2
    <3>2. (a1 * l2 + a2) % l2 = a2
      BY ONLY <3>1, DivMod
    <3> QED
      BY ONLY <3>2 DEF a1, a2, l2
  <2> HIDE DEF m, up, high
  <2>11. (m \div B(1)) % L(1) = a[1]
    BY <2>2, <2>3, <2>5, ModSmall
  <2>12. (m \div B(2)) % L(2) = a[2]
    BY <2>2, <2>9, <2>10
  <2>13. (m \div B(3)) % L(3) = a[3]
    BY <2>2, <2>6, <2>9
  <2> QED
    BY <2>1, <2>6, <2>7, <2>11, <2>12, <2>13
<1> QED
  BY <1>1, <1>5, <1>6, <1>7, <1>8

\* The lists of a call of test_function that has got all of them.
LEMMA CombWithin ==
  ASSUME NEW lists, Lists(lists), NEW m \in Nat, NEW sets, DOMAIN sets = 1 .. Len(lists),
         \A c \in 1 .. Len(lists) : \A a \in 1 .. Len(lists[c]) : lists[c][a] \in sets[c]
  PROVE  Comb(lists, m) \in Tuples(sets)
<1> DEFINE tuple == Comb(lists, m)
<1>1. \A c \in 1 .. Len(lists) : tuple[c] \in sets[c]
  BY CombFrom
<1>2. tuple = [c \in 1 .. Len(lists) |-> tuple[c]]
  BY CombFrom
<1> HIDE DEF tuple
<1>3. \A c \in 1 .. Len(lists) : tuple[c] \in UNION {sets[d] : d \in 1 .. Len(lists)}
  BY <1>1
<1>4. tuple \in [1 .. Len(lists) -> UNION {sets[d] : d \in 1 .. Len(lists)}]
  BY <1>2, <1>3
<1>5. tuple \in Tuples(sets)
  BY <1>1, <1>4 DEF Tuples
<1> QED
  BY <1>5 DEF tuple

\* The loops over the lists come to every combination of their values.
LEMMA CombCovers ==
  ASSUME NEW lists, Lists(lists), NEW sets, DOMAIN sets = 1 .. Len(lists),
         \A c \in 1 .. Len(lists) : \A x \in sets[c] : Occurs(x, lists[c]),
         NEW tuple \in Tuples(sets)
  PROVE  \E m \in Nat : m < Product(lists) /\ Comb(lists, m) = tuple
<1> DEFINE U == UNION {sets[d] : d \in 1 .. Len(lists)}
<1>1. tuple \in [1 .. Len(lists) -> U] /\ \A c \in 1 .. Len(lists) : tuple[c] \in sets[c]
  BY DEF Tuples
<1> DEFINE a == [c \in 1 .. Len(lists) |->
                    (CHOOSE k \in 1 .. Len(lists[c]) : lists[c][k] = tuple[c]) - 1]
<1>2. ASSUME NEW c \in 1 .. Len(lists)
      PROVE  a[c] \in Nat /\ a[c] < Len(lists[c]) /\ lists[c][a[c] + 1] = tuple[c]
  <2> DEFINE k == CHOOSE k \in 1 .. Len(lists[c]) : lists[c][k] = tuple[c]
  <2>1. k \in 1 .. Len(lists[c]) /\ lists[c][k] = tuple[c]
    BY <1>1 DEF Occurs
  <2>2. a[c] = k - 1 /\ Len(lists[c]) \in Nat
    BY Lengths
  <2> HIDE DEF k, a
  <2>3. k \in Int /\ 1 <= k /\ k <= Len(lists[c])
    BY <2>1, <2>2
  <2>4. a[c] \in Nat /\ a[c] < Len(lists[c]) /\ a[c] + 1 = k
    BY <2>2, <2>3
  <2> QED
    BY <2>1, <2>4
<1> HIDE DEF a, U
<1>3. PICK m \in Nat : m < Product(lists) /\ NumberOf(m, lists, a)
  BY <1>2, Numbered
<1>4. ASSUME NEW c \in 1 .. Len(lists) PROVE Comb(lists, m)[c] = tuple[c]
  <2>1. (m \div Block(lists, c)) % Len(lists[c]) = a[c]
    BY <1>3 DEF NumberOf
  <2>2. Comb(lists, m)[c] = lists[c][((m \div Block(lists, c)) % Len(lists[c])) + 1]
    BY CombFrom
  <2> QED
    BY ONLY <1>2, <2>1, <2>2
<1>5. Comb(lists, m) = [c \in 1 .. Len(lists) |-> Comb(lists, m)[c]]
  BY CombFrom
<1>6. Comb(lists, m) = tuple
  BY <1>1, <1>4, <1>5
<1> QED
  BY <1>3, <1>6

-----------------------------------------------------------------------------
Points == {"run_tests", "gen_vals", "sigsetjmp", "alarm", "test", "returned", "exit", "killed"}
InTest == {"gen_vals", "sigsetjmp", "alarm", "test"}

\* The constants.
LEMMA Constants ==
    /\ TEST_RANGE \in Nat /\ TEST_RANGE >= 1
    /\ Len(test_set) \in Nat /\ DOMAIN test_set = 1 .. Len(test_set)
    /\ Chosen \subseteq 1 .. Len(test_set) /\ IsFiniteSet(Chosen)
    /\ Limits \subseteq Nat
    /\ \A p \in Chosen : p \in Nat /\ test_set[p].rating \in Nat
<1>1. /\ TEST_RANGE \in Nat /\ TEST_RANGE >= 1
      /\ Len(test_set) \in Nat /\ DOMAIN test_set = 1 .. Len(test_set)
      /\ Chosen \subseteq 1 .. Len(test_set)
      /\ Limits \subseteq Nat
  BY HarnessAssumption DEF HarnessAssumption
<1>2. IsFiniteSet(1 .. Len(test_set))
  BY <1>1, FS_Interval
<1>3. IsFiniteSet(Chosen)
  BY <1>1, <1>2, FS_Subset
<1>4. ASSUME NEW p \in Chosen PROVE p \in Nat /\ test_set[p].rating \in Nat
  <2> DEFINE R == [rating : Nat, ranges : Seq([min : Int, max : Int]),
                   wrong : SUBSET Seq(Int), hangs : SUBSET Seq(Int)]
  <2>1. test_set \in Seq(R)
    BY HarnessAssumption DEF HarnessAssumption
  <2>2. \A r \in R : r.rating \in Nat
    OBVIOUS
  <2> HIDE DEF R
  <2>3. test_set[p] \in R
    BY <1>1, <2>1
  <2> QED
    BY <1>1, <2>2, <2>3
<1> QED
  BY <1>1, <1>3, <1>4

Size == Len(test_set)

\* Where run_tests is, and what the signals may find.
CtlInv ==
    /\ timeout_limit \in Limits
    /\ pc \in Points
    /\ i \in 1 .. Size + 2
    /\ alarm # 0 => i <= Size + 1
    /\ pc \in InTest => i \in Chosen
    /\ pc = "returned" => /\ i <= Size + 1
                          /\ i \in Chosen \/ (terrors = 1 /\ alarm = 0 /\ stray)
    /\ terrors \in {0, 1}
    /\ pc \in InTest => terrors = 0
    /\ pc = "run_tests" => terrors <= errors
    /\ errors \in Nat /\ points \in Nat /\ stray \in BOOLEAN
    /\ alarm \in Chosen \cup {0}
    /\ timedout \subseteq [of : Chosen, by : Chosen, costs : 1 .. Size + 1]
    /\ scored \in [Chosen -> {"not yet", "full", "zero"}]

\* The alarm that is pending is the one of the puzzle that was tested last.
AlarmInv ==
    /\ timeout_limit = 0 => alarm = 0 /\ timedout = {} /\ ~stray
    /\ pc \in {"sigsetjmp", "alarm"} => timeout_limit > 0
    /\ alarm <= i
    /\ alarm # 0 => \A p \in Chosen : ~ (alarm < p /\ p < i)
    /\ pc = "test" /\ timeout_limit > 0 => alarm = i
    /\ pc = "returned" /\ alarm # 0 => alarm = i

Zeros(scores) == {p \in Chosen : scores[p] = "zero"}

\* Until a signal finds no frame, the puzzles are scored one after the other.
ScoredInv ==
    ~stray =>
        /\ \A p \in Chosen : p >= i => scored[p] = "not yet"
        /\ errors = Cardinality(Zeros(scored))

LEMMA InitCtl == Init => CtlInv /\ AlarmInv /\ ScoredInv
<1> SUFFICES ASSUME Init PROVE CtlInv /\ AlarmInv /\ ScoredInv
  OBVIOUS
<1>1. Zeros(scored) = {}
  BY DEF Init, Zeros
<1>2. CtlInv
  <2>1. 1 \in 1 .. Size + 2
    BY Constants DEF Size
  <2>2. terrors = 0 /\ errors = 0 /\ points = 0
    BY DEF Init
  <2>3. errors \in Nat /\ points \in Nat /\ terrors <= errors
    BY <2>2
  <2> QED
    BY <2>1, <2>2, <2>3 DEF Init, CtlInv, Points, InTest
<1>3. AlarmInv
  <2>1. pc = "run_tests" /\ i = 1 /\ alarm = 0 /\ timedout = {} /\ stray = FALSE
    BY DEF Init
  <2> QED
    BY <2>1 DEF AlarmInv
<1>4. ScoredInv
  BY <1>1, FS_EmptySet DEF Init, ScoredInv
<1> QED
  BY <1>2, <1>3, <1>4

\* The indexes of CtlInv as numbers.
LEMMA Numbers ==
    ASSUME CtlInv
    PROVE  /\ i \in Nat /\ i >= 1 /\ i <= Size + 2 /\ alarm \in Nat /\ timeout_limit \in Nat
           /\ \A p \in Chosen : p \in Nat /\ p >= 1 /\ p <= Size
<1>1. /\ Limits \subseteq Nat /\ Chosen \subseteq 1 .. Size /\ Size \in Nat
  BY Constants DEF Size
<1>2. \A p \in Chosen : p \in Nat /\ p >= 1 /\ p <= Size
  BY <1>1
<1>3. i \in 1 .. Size + 2 /\ alarm \in Chosen \cup {0} /\ timeout_limit \in Limits
  BY DEF CtlInv
<1> QED
  BY <1>1, <1>2, <1>3

LEMMA CtlStep == CtlInv /\ [Next]_vars => CtlInv'
<1> SUFFICES ASSUME CtlInv, [Next]_vars PROVE CtlInv'
  OBVIOUS
<1>0. /\ i \in Nat /\ i >= 1 /\ Size \in Nat /\ DOMAIN test_set = 1 .. Size
      /\ \A p \in Chosen : p \in Nat /\ p >= 1 /\ p <= Size
      /\ i <= Size + 2 /\ (alarm # 0 => i <= Size + 1)
  BY Constants, Numbers DEF Size, CtlInv
<1>1. CASE CallTest \/ SkipPuzzle \/ Exit
  <2>1. /\ UNCHANGED <<timeout_limit, errors, points, scored, alarm, timedout, stray>>
        /\ pc = "run_tests"
        /\ \/ i \in Chosen /\ i' = i /\ terrors' = 0 /\ pc' = "gen_vals"
           \/ i \in DOMAIN test_set /\ i' = i + 1 /\ terrors' = terrors /\ pc' = "run_tests"
           \/ i' = i /\ terrors' = terrors /\ pc' \in {"exit", "killed"}
    BY <1>1 DEF CallTest, SkipPuzzle, Exit, NoErrors, sums, signals, options
  <2>2. /\ i' \in 1 .. Size + 2
        /\ alarm' # 0 => i' <= Size + 1
    BY <1>0, <2>1
  <2> QED
    BY <2>1, <2>2 DEF CtlInv, Points, InTest
<1>2. CASE Score
  <2>1. /\ pc = "returned" /\ pc' = "run_tests" /\ i' = i + 1 /\ errors' = errors + terrors
        /\ points' = IF terrors = 0 THEN points + test_set[i].rating ELSE points
        /\ scored' = [p \in Chosen |->
              IF p # i THEN scored[p] ELSE IF terrors = 0 THEN "full" ELSE "zero"]
        /\ UNCHANGED <<timeout_limit, terrors, alarm, timedout, stray>>
    BY <1>2 DEF Score, CountErrors, signals, options, t
  <2>2. /\ i <= Size + 1 /\ (i \in Chosen \/ (terrors = 1 /\ alarm = 0))
        /\ terrors \in {0, 1} /\ errors \in Nat /\ points \in Nat
    BY <2>1 DEF CtlInv
  <2>3. /\ i' \in 1 .. Size + 2
        /\ alarm' # 0 => i' <= Size + 1
    <3>1. i' = i + 1 /\ alarm' = alarm
      BY <2>1
    <3>2. i <= Size + 1 /\ (alarm # 0 => i <= Size)
      BY <1>0, <2>2
    <3> QED
      BY <1>0, <3>1, <3>2
  <2>4. errors' \in Nat /\ terrors' <= errors'
    BY <2>1, <2>2
  <2>5. points' \in Nat
    <3>1. terrors = 0 => test_set[i].rating \in Nat
      BY <2>2, Constants
    <3> QED
      BY <2>1, <2>2, <3>1
  <2>6. scored' \in [Chosen -> {"not yet", "full", "zero"}]
    BY <2>1 DEF CtlInv
  <2> QED
    BY <2>1, <2>3, <2>4, <2>5, <2>6 DEF CtlInv, Points, InTest
<1>3. CASE GenVals \/ ValuesDone \/ SaveEnv \/ SetAlarm \/ Return
  <2>1. /\ UNCHANGED <<timeout_limit, i, terrors, errors, points, scored, timedout, stray>>
        /\ pc \in InTest /\ pc' \in InTest \cup {"returned"} /\ alarm' \in {alarm, i}
    BY <1>3 DEF GenVals, ValuesDone, SaveEnv, SetAlarm, Arm, Return, sums, signals, options, InTest
  <2>2. i \in Chosen
    BY <2>1 DEF CtlInv
  <2>3. i <= Size + 1
    BY <1>0, <2>2
  <2> QED
    BY <2>1, <2>2, <2>3 DEF CtlInv, Points, InTest
<1>4. CASE Test
  <2>1. /\ UNCHANGED <<timeout_limit, i, errors, points, scored, alarm, timedout, stray>>
        /\ pc = "test" /\ terrors = 0
        /\ \/ terrors' = terrors + 1 /\ pc' = "returned"
           \/ UNCHANGED <<terrors, pc>>
    BY <1>4 DEF Test, sums, signals, options, CtlInv, InTest
  <2>2. CASE UNCHANGED <<terrors, pc>>
    BY <2>1, <2>2 DEF CtlInv
  <2>3. CASE terrors' = terrors + 1 /\ pc' = "returned"
    <3>1. terrors' = 1
      BY <2>1, <2>3
    <3>2. i \in Chosen
      BY <2>1 DEF CtlInv, InTest
    <3>3. i <= Size + 1
      BY <1>0, <3>2
    <3> QED
      BY <2>1, <2>3, <3>1, <3>2, <3>3 DEF CtlInv, Points, InTest
  <2> QED
    BY <2>1, <2>2, <2>3
<1>5. CASE Timeout
  <2>1. /\ UNCHANGED <<timeout_limit, i, errors, points, scored, stray>>
        /\ i \in Chosen /\ alarm \in Chosen /\ alarm' = 0 /\ terrors' = 1 /\ pc' = "returned"
        /\ timedout' = timedout \cup {[of |-> i, by |-> alarm, costs |-> i]}
    BY <1>5 DEF Timeout, FrameActive, sums, options, CtlInv, InTest
  <2>2. i \in 1 .. Size + 1
    BY <1>0, <2>1
  <2>3. timedout' \subseteq [of : Chosen, by : Chosen, costs : 1 .. Size + 1]
    <3>1. [of |-> i, by |-> alarm, costs |-> i] \in [of : Chosen, by : Chosen, costs : 1 .. Size + 1]
      BY <2>1, <2>2
    <3>2. timedout \subseteq [of : Chosen, by : Chosen, costs : 1 .. Size + 1]
      BY DEF CtlInv
    <3> QED
      BY <2>1, <3>1, <3>2
  <2>4. i <= Size + 1
    BY <1>0, <2>1
  <2> QED
    BY <2>1, <2>3, <2>4 DEF CtlInv, Points, InTest
<1>6. CASE TimeoutNoFrame
  <2>1. /\ UNCHANGED <<timeout_limit, points, scored>>
        /\ alarm \in Chosen /\ alarm # 0 /\ alarm' = 0 /\ stray' = TRUE
        /\ \/ pc' = "killed" /\ UNCHANGED <<i, terrors, errors, timedout>>
           \/ /\ pc' = "returned" /\ i' \in {i, alarm} /\ terrors' = 1
              /\ errors' \in {errors, IF pc = "run_tests" THEN errors - terrors ELSE errors}
              /\ timedout' = timedout \cup {[of |-> alarm, by |-> alarm, costs |-> i']}
    BY <1>6 DEF TimeoutNoFrame, ErrorsAtCall, options, CtlInv
  <2>2. i \in 1 .. Size + 1 /\ alarm \in 1 .. Size + 1
    BY <1>0, <2>1
  <2>3. errors' \in Nat
    <3>1. errors \in Nat /\ terrors \in {0, 1} /\ (pc = "run_tests" => terrors <= errors)
      BY DEF CtlInv
    <3> QED
      BY <2>1, <3>1
  <2>4. CASE pc' = "killed" /\ UNCHANGED <<i, terrors, errors, timedout>>
    BY <2>1, <2>4 DEF CtlInv, Points, InTest
  <2>5. CASE pc' # "killed"
    <3>1. /\ pc' = "returned" /\ i' \in 1 .. Size + 1 /\ terrors' = 1
          /\ timedout' = timedout \cup {[of |-> alarm, by |-> alarm, costs |-> i']}
      BY <2>1, <2>2, <2>5
    <3>2. timedout' \subseteq [of : Chosen, by : Chosen, costs : 1 .. Size + 1]
      <4>1. [of |-> alarm, by |-> alarm, costs |-> i']
               \in [of : Chosen, by : Chosen, costs : 1 .. Size + 1]
        BY <2>1, <3>1
      <4>2. timedout \subseteq [of : Chosen, by : Chosen, costs : 1 .. Size + 1]
        BY DEF CtlInv
      <4> QED
        BY <3>1, <4>1, <4>2
    <3>3. i' \in 1 .. Size + 2 /\ i' <= Size + 1
      BY <1>0, <3>1
    <3> QED
      BY <2>1, <2>3, <3>1, <3>2, <3>3 DEF CtlInv, Points, InTest
  <2> QED
    BY <2>1, <2>4, <2>5
<1>7. CASE Hang \/ (Ended /\ UNCHANGED vars) \/ UNCHANGED vars
  BY <1>7 DEF Hang, vars, CtlInv
<1> QED
  BY <1>1, <1>2, <1>3, <1>4, <1>5, <1>6, <1>7 DEF Next, run_tests, timeout_handler

LEMMA AlarmStep == CtlInv /\ AlarmInv /\ [Next]_vars => AlarmInv'
<1> SUFFICES ASSUME CtlInv, AlarmInv, [Next]_vars PROVE AlarmInv'
  OBVIOUS
<1>1. /\ i \in Nat /\ alarm \in Nat /\ timeout_limit \in Nat /\ \A p \in Chosen : p \in Nat /\ p # 0
  BY Numbers
<1>2. CASE CallTest \/ Exit
  BY <1>1, <1>2 DEF CallTest, Exit, sums, signals, options, AlarmInv
<1>3. CASE SkipPuzzle
  BY <1>1, <1>3 DEF SkipPuzzle, sums, signals, options, AlarmInv
<1>4. CASE Score
  BY <1>1, <1>4 DEF Score, signals, options, AlarmInv
<1>5. CASE GenVals \/ SaveEnv
  BY <1>1, <1>5 DEF GenVals, SaveEnv, sums, signals, options, AlarmInv
<1>6. CASE ValuesDone
  BY <1>1, <1>6 DEF ValuesDone, sums, signals, options, AlarmInv
<1>7. CASE SetAlarm
  BY <1>1, <1>7 DEF SetAlarm, Arm, sums, options, AlarmInv
<1>8. CASE Test \/ Return
  BY <1>1, <1>8 DEF Test, Return, sums, signals, options, AlarmInv
<1>9. CASE Timeout
  BY <1>1, <1>9 DEF Timeout, sums, options, AlarmInv
<1>10. CASE TimeoutNoFrame
  BY <1>1, <1>10 DEF TimeoutNoFrame, options, AlarmInv
<1>11. CASE Hang \/ (Ended /\ UNCHANGED vars) \/ UNCHANGED vars
  BY <1>11 DEF Hang, vars, AlarmInv
<1> QED
  BY <1>2, <1>3, <1>4, <1>5, <1>6, <1>7, <1>8, <1>9, <1>10, <1>11 DEF Next, run_tests, timeout_handler

LEMMA ScoredStep == CtlInv /\ AlarmInv /\ ScoredInv /\ [Next]_vars => ScoredInv'
<1> SUFFICES ASSUME CtlInv, AlarmInv, ScoredInv, [Next]_vars, ~stray' PROVE ScoredInv'
  BY DEF ScoredInv
<1>1. /\ i \in Nat /\ \A p \in Chosen : p \in Nat
  BY Numbers
<1>2. ASSUME UNCHANGED <<stray, scored, errors>>, i' = i \/ i' = i + 1 PROVE ScoredInv'
  <2>1. /\ \A p \in Chosen : p >= i => scored[p] = "not yet"
        /\ errors = Cardinality(Zeros(scored))
    BY <1>2 DEF ScoredInv
  <2>2. \A p \in Chosen : p >= i' => p >= i
    BY <1>1, <1>2
  <2> QED
    BY <1>2, <2>1, <2>2 DEF ScoredInv
<1>3. CASE CallTest \/ SkipPuzzle \/ Exit
  BY <1>2, <1>3 DEF CallTest, SkipPuzzle, Exit, sums, signals
<1>4. CASE Score
  <2>1. /\ i' = i + 1 /\ errors' = errors + terrors /\ stray' = stray
        /\ scored' = [p \in Chosen |->
              IF p # i THEN scored[p] ELSE IF terrors = 0 THEN "full" ELSE "zero"]
    BY <1>4 DEF Score, CountErrors, signals
  <2>2. i \in Chosen /\ terrors \in {0, 1} /\ scored \in [Chosen -> {"not yet", "full", "zero"}]
    BY <1>4, <2>1 DEF Score, CtlInv
  <2>3. /\ \A p \in Chosen : p >= i => scored[p] = "not yet"
        /\ errors = Cardinality(Zeros(scored))
    BY <2>1 DEF ScoredInv
  <2>4. \A p \in Chosen : p >= i' => p # i /\ p >= i
    BY <1>1, <2>1
  <2>5. \A p \in Chosen : p >= i' => scored'[p] = "not yet"
    BY <2>1, <2>2, <2>3, <2>4
  <2>6. i \notin Zeros(scored) /\ scored[i] = "not yet"
    <3>1. i >= i
      BY <1>1
    <3> QED
      BY <2>2, <2>3, <3>1 DEF Zeros
  <2>7. IsFiniteSet(Zeros(scored)) /\ Cardinality(Zeros(scored)) \in Nat
    <3>1. Zeros(scored) \in SUBSET Chosen
      BY DEF Zeros
    <3> QED
      BY <3>1, Constants, FS_Subset, FS_CardinalityType
  <2>8. errors' = Cardinality(Zeros(scored'))
    <3>1. CASE terrors = 0
      <4>1. Zeros(scored') = Zeros(scored)
        BY <2>1, <2>2, <2>6, <3>1 DEF Zeros
      <4>2. errors' = Cardinality(Zeros(scored))
        <5>1. errors \in Nat
          BY <2>3, <2>7
        <5>2. errors' = errors
          BY ONLY <2>1, <3>1, <5>1
        <5> QED
          BY <2>3, <5>2
      <4> QED
        BY <4>1, <4>2
    <3>2. CASE terrors = 1
      <4>1. \A p \in Chosen : scored'[p] = "zero" <=> (scored[p] = "zero" \/ p = i)
        <5>1. \A p \in Chosen : scored'[p] = IF p # i THEN scored[p] ELSE "zero"
          BY <2>1, <3>2
        <5> QED
          BY <2>2, <5>1
      <4>2. Zeros(scored') = Zeros(scored) \cup {i}
        BY <2>2, <4>1 DEF Zeros
      <4>3. Cardinality(Zeros(scored) \cup {i}) = Cardinality(Zeros(scored)) + 1
        BY <2>6, <2>7, FS_AddElement
      <4> QED
        BY <2>1, <2>3, <3>2, <4>2, <4>3
    <3> QED
      BY <2>2, <3>1, <3>2
  <2> QED
    BY <2>5, <2>8 DEF ScoredInv
<1>5. CASE GenVals \/ ValuesDone \/ SaveEnv \/ SetAlarm \/ Return \/ Test \/ Timeout
  BY <1>2, <1>5 DEF GenVals, ValuesDone, SaveEnv, SetAlarm, Return, Test, Timeout, sums, signals
<1>6. CASE TimeoutNoFrame
  BY <1>6 DEF TimeoutNoFrame
<1>7. CASE Hang \/ (Ended /\ UNCHANGED vars) \/ UNCHANGED vars
  BY <1>2, <1>7 DEF Hang, vars
<1> QED
  BY <1>3, <1>4, <1>5, <1>6, <1>7 DEF Next, run_tests, timeout_handler

LEMMA ControlCorrect == Spec => [](CtlInv /\ AlarmInv /\ ScoredInv)
  BY InitCtl, CtlStep, AlarmStep, ScoredStep, PTL DEF Spec

\* No tests run without a limit, or under the limit of another puzzle.
THEOREM TestsLimitedCorrect == Spec => []TestsLimited
<1>1. AlarmInv => TestsLimited
  BY DEF AlarmInv, TestsLimited
<1> QED
  BY <1>1, ControlCorrect, PTL

\* As long as no signal hits run_tests, the errors are the puzzles without points.
THEOREM OneErrorEachCorrect == Spec => []OneErrorEach
<1>1. ScoredInv => OneErrorEach
  BY DEF ScoredInv, OneErrorEach, Zeros
<1> QED
  BY <1>1, ControlCorrect, PTL

-----------------------------------------------------------------------------
\* What the call of test_function has got to: its lists, and the combinations
\* that have been tested without an error.
ListInv ==
    /\ pc \in InTest =>
        LET ranges == test_set[i].ranges IN
        /\ vals \in Seq(Seq(Int)) /\ Len(vals) <= Len(ranges)
        /\ \A c \in 1 .. Len(vals) : GoodList(vals[c], ranges[c], arg_test_range(Len(ranges)))
        /\ pc # "gen_vals" => Len(vals) = Len(ranges)
    /\ pc \in {"sigsetjmp", "alarm", "test"} =>
        n \in Nat /\ n <= Product(vals) /\ \A m \in 0 .. n - 1 : Comb(vals, m) \notin Bad(i)

\* A timeout has cost p its points: its own, or one that it has inherited.
TimedOut(p) ==
    \E r \in timedout :
        /\ r.costs = p
        /\ r.by = p \/ JustBefore(r.by, p)
        /\ r.of = p \/ stray

\* The verdict of the call that has returned, and those that are written down.
JudgeInv ==
    /\ pc = "returned" => /\ terrors = 0 => i \in MayPass
                          /\ terrors = 1 /\ i \in Right => TimedOut(i)
    /\ \A p \in Chosen : scored[p] = "full" => p \in MayPass
    /\ \A p \in Chosen : scored[p] = "zero" /\ p \in Right => TimedOut(p)

\* Points only for puzzles before i; a call that returns once more earns none.
PointsInv ==
    /\ points <= MaxPoints
    /\ pc # "killed" /\ i <= Len(test_set) =>
         points <= MayEarn[IF pc = "returned" /\ terrors = 1 THEN i ELSE i - 1]

LEMMA InitLists == Init => ListInv /\ JudgeInv
  BY DEF Init, ListInv, JudgeInv, InTest

LEMMA SeqWiden ==
  ASSUME NEW W, NEW X, W \subseteq X, NEW list \in Seq(W)
  PROVE  list \in Seq(X) /\ \A a \in 1 .. Len(list) : list[a] \in W
<1>1. \A a \in 1 .. Len(list) : list[a] \in W
  OBVIOUS
<1>2. list \in [1 .. Len(list) -> X] /\ Len(list) \in Nat
  BY <1>1
<1> QED
  BY <1>1, <1>2, SeqDef

\* The lists of test_function are Lists.
LEMMA ListsOf ==
  ASSUME CtlInv, ListInv, pc \in InTest
  PROVE  /\ Lists(vals)
         /\ \A c \in 1 .. Len(vals) : \A a \in 1 .. Len(vals[c]) :
               vals[c][a] \in test_set[i].ranges[c].min .. test_set[i].ranges[c].max
<1> DEFINE ranges == test_set[i].ranges
           r == arg_test_range(Len(ranges))
<1>1. i \in Chosen
  BY DEF CtlInv
<1>2. /\ vals \in Seq(Seq(Int)) /\ Len(vals) <= Len(ranges)
      /\ \A c \in 1 .. Len(vals) : GoodList(vals[c], ranges[c], r)
  BY DEF ListInv
<1>3. Len(ranges) \in 0 .. 3
      /\ \A c \in 1 .. Len(ranges) : ranges[c].min \in Int /\ ranges[c].max \in Int
  BY <1>1, Puzzles
<1>4. MAX_TEST_VALS \in Nat
  BY HarnessAssumption DEF HarnessAssumption, MAX_TEST_VALS
<1> HIDE DEF ranges, r
<1>5. ASSUME NEW c \in 1 .. Len(vals)
      PROVE  /\ vals[c] \in Seq(Int) /\ Len(vals[c]) \in Nat /\ Len(vals[c]) >= 1
             /\ \A a \in 1 .. Len(vals[c]) : vals[c][a] \in ranges[c].min .. ranges[c].max
  <2> DEFINE W == ranges[c].min .. ranges[c].max
             list == vals[c]
  <2>1. list \in Seq(W) /\ Len(list) \in 1 .. MAX_TEST_VALS
    BY <1>2 DEF GoodList
  <2>2. W \subseteq Int
    OBVIOUS
  <2> HIDE DEF W, list
  <2>3. list \in Seq(Int) /\ \A a \in 1 .. Len(list) : list[a] \in W
    BY <2>1, <2>2, SeqWiden
  <2>4. Len(list) \in Nat /\ Len(list) >= 1
    BY <1>4, <2>1
  <2> QED
    BY <2>3, <2>4 DEF W, list
<1>6. Len(vals) <= 3
  <2> DEFINE m == Len(vals)
             max == Len(ranges)
  <2>1. m \in Nat /\ m <= max /\ max \in 0 .. 3
    BY <1>2, <1>3
  <2> HIDE DEF m, max
  <2>2. m <= 3
    BY <2>1
  <2> QED
    BY <2>2 DEF m
<1> QED
  BY <1>2, <1>5, <1>6 DEF Lists, ranges

LEMMA ListStep == CtlInv /\ ListInv /\ [Next]_vars => ListInv'
<1> SUFFICES ASSUME CtlInv, ListInv, [Next]_vars PROVE ListInv'
  OBVIOUS
<1>1. CASE CallTest
  <2>1. pc' = "gen_vals" /\ vals' = <<>> /\ i' = i /\ i \in Chosen
    BY <1>1 DEF CallTest
  <2>2. Len(test_set[i].ranges) \in 0 .. 3
    BY <2>1, Puzzles
  <2>3. <<>> \in Seq(Seq(Int)) /\ Len(<<>>) = 0
    OBVIOUS
  <2> QED
    BY <2>1, <2>2, <2>3 DEF ListInv
<1>2. CASE GenVals
  <2> DEFINE ranges == test_set[i].ranges
             r == arg_test_range(Len(ranges))
             m == Len(vals)
  <2>1. /\ pc = "gen_vals" /\ pc' = pc /\ i' = i /\ m < Len(ranges)
        /\ i \in Chosen /\ pc \in InTest
    BY <1>2 DEF GenVals, MoreArgs, args, t, CtlInv, InTest
  <2>2. PICK list \in gen_vals(ranges[m + 1], r) : vals' = Append(vals, list)
    BY <1>2 DEF GenVals, args, t
  <2>3. /\ vals \in Seq(Seq(Int)) /\ m \in Nat
        /\ \A c \in 1 .. m : GoodList(vals[c], ranges[c], r)
    BY <2>1 DEF ListInv
  <2>4. Len(ranges) \in 0 .. 3
        /\ \A c \in 1 .. Len(ranges) : ranges[c].min \in Int /\ ranges[c].max \in Int
    BY <2>1, Puzzles
  <2>5. m + 1 \in 1 .. Len(ranges)
    BY <2>1, <2>3, <2>4
  <2>6. GoodList(list, ranges[m + 1], r)
    BY <2>1, <2>5, GenValsGood
  <2>7. list \in Seq(Int)
    <3> DEFINE W == ranges[m + 1].min .. ranges[m + 1].max
    <3>1. W \subseteq Int
      BY <2>4, <2>5
    <3>2. list \in Seq(W)
      BY <2>6 DEF GoodList
    <3> HIDE DEF W
    <3> QED
      BY <3>1, <3>2, SeqWiden
  <2> HIDE DEF m, ranges, r
  <2>8. vals' \in Seq(Seq(Int)) /\ Len(vals') = m + 1
    BY <2>2, <2>3, <2>7 DEF m
  <2>9. ASSUME NEW c \in 1 .. m + 1 PROVE GoodList(vals'[c], ranges[c], r)
    <3>1. CASE c \in 1 .. m
      <4>1. vals'[c] = vals[c]
        BY <2>2, <2>3, <2>7, <3>1 DEF m
      <4> QED
        BY <2>3, <3>1, <4>1
    <3>2. CASE c = m + 1
      <4>1. vals'[m + 1] = list
        BY <2>2, <2>3, <2>7 DEF m
      <4> QED
        BY <2>6, <3>2, <4>1
    <3> QED
      BY <2>3, <3>1, <3>2
  <2>10. Len(vals') <= Len(ranges)
    BY <2>5, <2>8
  <2> QED
    BY <2>1, <2>8, <2>9, <2>10 DEF ListInv, ranges, r
<1>3. CASE ValuesDone
  <2>1. /\ pc = "gen_vals" /\ pc' \in {"sigsetjmp", "test"} /\ n' = 0 /\ vals' = vals /\ i' = i
        /\ ~ (Len(vals) < Len(test_set[i].ranges)) /\ pc \in InTest /\ i \in Chosen
    BY <1>3 DEF ValuesDone, MoreArgs, args, t, CtlInv, InTest
  <2>2. Len(vals) = Len(test_set[i].ranges)
    <3>1. Len(vals) <= Len(test_set[i].ranges) /\ Len(vals) \in Nat
      BY <2>1 DEF ListInv
    <3>2. Len(test_set[i].ranges) \in 0 .. 3
      BY <2>1, Puzzles
    <3> QED
      BY <2>1, <3>1, <3>2
  <2>3. 0 <= Product(vals)
    BY <2>1, ListsOf, Positive
  <2>4. 0 .. 0 - 1 = {}
    OBVIOUS
  <2>5. n' \in Nat /\ n' <= Product(vals') /\ \A m \in 0 .. n' - 1 : Comb(vals', m) \notin Bad(i')
    BY <2>1, <2>3, <2>4
  <2>6. LET ranges == test_set[i'].ranges IN
        /\ vals' \in Seq(Seq(Int)) /\ Len(vals') <= Len(ranges)
        /\ \A c \in 1 .. Len(vals') : GoodList(vals'[c], ranges[c], arg_test_range(Len(ranges)))
        /\ Len(vals') = Len(ranges)
    BY <2>1, <2>2 DEF ListInv
  <2> QED
    BY <2>5, <2>6 DEF ListInv
<1>4. CASE SaveEnv \/ SetAlarm
  <2>1. /\ pc \in {"sigsetjmp", "alarm"} /\ pc' \in {"alarm", "test"}
        /\ UNCHANGED <<vals, i, n>> /\ pc \in InTest
    BY <1>4 DEF SaveEnv, SetAlarm, InTest
  <2> QED
    BY <2>1 DEF ListInv
<1>5. CASE Test
  <2>1. /\ pc = "test" /\ pc \in InTest /\ n < Product(vals) /\ n' = n + 1 /\ vals' = vals /\ i' = i
        /\ Comb(vals, n) \notin test_set[i].hangs
        /\ \/ pc' = "returned"
           \/ pc' = pc /\ Comb(vals, n) \notin test_set[i].wrong
    BY <1>5, CombinationIs DEF Test, TestsLeft, t, InTest
  <2>2. CASE pc' = "returned"
    BY <2>2 DEF ListInv, InTest
  <2>3. CASE pc' = pc /\ Comb(vals, n) \notin test_set[i].wrong
    <3>1. n \in Nat /\ Product(vals) \in Nat /\ \A m \in 0 .. n - 1 : Comb(vals, m) \notin Bad(i)
      BY <2>1, ListsOf, Positive DEF ListInv
    <3>2. n' \in Nat /\ n' <= Product(vals) /\ \A m \in 0 .. n' - 1 : m \in 0 .. n - 1 \/ m = n
      BY <2>1, <3>1
    <3>3. Comb(vals, n) \notin Bad(i)
      BY <2>1, <2>3 DEF Bad
    <3>4. \A m \in 0 .. n' - 1 : Comb(vals, m) \notin Bad(i)
      BY <3>1, <3>2, <3>3
    <3> QED
      BY <2>1, <2>3, <3>2, <3>4 DEF ListInv
  <2> QED
    BY <2>1, <2>2, <2>3
<1>6. CASE SkipPuzzle \/ Exit \/ Score \/ Return \/ Timeout \/ TimeoutNoFrame
  <2>1. pc' \notin InTest
    BY <1>6 DEF SkipPuzzle, Exit, Score, Return, Timeout, TimeoutNoFrame, InTest
  <2> QED
    BY <2>1 DEF ListInv, InTest
<1>7. CASE Hang \/ (Ended /\ UNCHANGED vars) \/ UNCHANGED vars
  BY <1>7 DEF Hang, vars, ListInv
<1> QED
  BY <1>1, <1>2, <1>3, <1>4, <1>5, <1>6, <1>7 DEF Next, run_tests, timeout_handler

\* When no combination is left and none has failed, the puzzle may pass.
LEMMA AllTested ==
  ASSUME CtlInv, ListInv, pc = "test", ~ (n < Product(vals))
  PROVE  i \in MayPass
<1> DEFINE ranges == test_set[i].ranges
           r == arg_test_range(Len(ranges))
           sets == [c \in DOMAIN ranges |-> Always(ranges[c], r)]
<1>1. i \in Chosen /\ pc \in InTest
  BY DEF CtlInv, InTest
<1>2. DOMAIN ranges = 1 .. Len(ranges)
  BY <1>1, Puzzles
<1>3. /\ Len(vals) = Len(ranges)
      /\ \A c \in 1 .. Len(vals) : GoodList(vals[c], ranges[c], r)
      /\ n \in Nat /\ n <= Product(vals) /\ \A m \in 0 .. n - 1 : Comb(vals, m) \notin Bad(i)
  BY <1>1 DEF ListInv
<1>4. Lists(vals) /\ Product(vals) \in Nat
  BY <1>1, ListsOf, Positive
<1>5. DOMAIN sets = 1 .. Len(vals)
  BY <1>2, <1>3
<1>6. \A c \in 1 .. Len(vals) : \A x \in sets[c] : Occurs(x, vals[c])
  BY <1>2, <1>3 DEF GoodList
<1>7. Tuples(sets) \cap Bad(i) = {}
  <2> SUFFICES ASSUME NEW tuple \in Tuples(sets) PROVE tuple \notin Bad(i)
    OBVIOUS
  <2> HIDE DEF sets
  <2>1. PICK m \in Nat : m < Product(vals) /\ Comb(vals, m) = tuple
    BY <1>4, <1>5, <1>6, CombCovers
  <2>2. m \in 0 .. n - 1
    BY <1>3, <1>4, <2>1
  <2> QED
    BY <1>3, <2>1, <2>2
<1> QED
  BY <1>1, <1>7 DEF MayPass

\* A combination that is tested lies in the ranges of its puzzle.
LEMMA ErrorFound ==
  ASSUME CtlInv, ListInv, pc = "test", Comb(vals, n) \in Bad(i)
  PROVE  i \notin Right
<1> DEFINE ranges == test_set[i].ranges
           sets == [c \in DOMAIN ranges |-> ranges[c].min .. ranges[c].max]
<1>1. i \in Chosen /\ pc \in InTest
  BY DEF CtlInv, InTest
<1>2. DOMAIN ranges = 1 .. Len(ranges)
  BY <1>1, Puzzles
<1>3. Len(vals) = Len(ranges) /\ n \in Nat
  BY <1>1 DEF ListInv
<1>4. /\ Lists(vals)
      /\ \A c \in 1 .. Len(vals) : \A a \in 1 .. Len(vals[c]) :
            vals[c][a] \in ranges[c].min .. ranges[c].max
  BY <1>1, ListsOf
<1>5. DOMAIN sets = 1 .. Len(vals)
  BY <1>2, <1>3
<1>6. \A c \in 1 .. Len(vals) : \A a \in 1 .. Len(vals[c]) : vals[c][a] \in sets[c]
  BY <1>2, <1>3, <1>4
<1>7. Comb(vals, n) \in Tuples(sets)
  <2> HIDE DEF sets
  <2> QED
    BY <1>3, <1>4, <1>5, <1>6, CombWithin
<1>8. Tuples(sets) \cap Bad(i) # {}
  BY <1>7
<1> QED
  BY <1>8 DEF Right

LEMMA JudgeStep == CtlInv /\ AlarmInv /\ ListInv /\ JudgeInv /\ [Next]_vars => JudgeInv'
<1> SUFFICES ASSUME CtlInv, AlarmInv, ListInv, JudgeInv, [Next]_vars PROVE JudgeInv'
  OBVIOUS
<1>1. CASE CallTest \/ SkipPuzzle \/ Exit \/ GenVals \/ ValuesDone \/ SaveEnv \/ SetAlarm
  <2>1. UNCHANGED <<scored, timedout, stray>> /\ (pc' # "returned")
    BY <1>1 DEF CallTest, SkipPuzzle, Exit, GenVals, ValuesDone, SaveEnv, SetAlarm, sums, signals
  <2> QED
    BY <2>1 DEF JudgeInv, TimedOut
<1>2. CASE Score
  <2>1. /\ pc = "returned" /\ pc' = "run_tests" /\ timedout' = timedout /\ stray' = stray
        /\ scored' = [p \in Chosen |->
              IF p # i THEN scored[p] ELSE IF terrors = 0 THEN "full" ELSE "zero"]
    BY <1>2 DEF Score, signals
  <2>2. terrors \in {0, 1}
    BY <2>1 DEF CtlInv
  <2>3. \A p \in Chosen : p # i => scored'[p] = scored[p]
    BY <2>1
  <2>4. i \in Chosen =>
          /\ terrors = 0 => scored'[i] = "full" /\ i \in MayPass
          /\ terrors = 1 => scored'[i] = "zero" /\ (i \in Right => TimedOut(i))
    <3>1. i \in Chosen => scored'[i] = IF terrors = 0 THEN "full" ELSE "zero"
      BY <2>1
    <3>2. /\ terrors = 0 => i \in MayPass
          /\ terrors = 1 => (i \in Right => TimedOut(i))
      BY <2>1 DEF JudgeInv
    <3> QED
      BY <3>1, <3>2
  <2>5. \A p \in Chosen : TimedOut(p)' <=> TimedOut(p)
    BY <2>1 DEF TimedOut
  <2>6. /\ \A p \in Chosen : scored'[p] = "full" => p \in MayPass
        /\ \A p \in Chosen : scored'[p] = "zero" /\ p \in Right => TimedOut(p)
    BY <2>2, <2>3, <2>4 DEF JudgeInv
  <2> QED
    BY <2>1, <2>5, <2>6 DEF JudgeInv
<1>3. CASE Test
  <2>1. /\ UNCHANGED <<scored, timedout, stray, i>> /\ pc = "test" /\ terrors = 0
        /\ \/ terrors' = terrors + 1 /\ pc' = "returned" /\ Comb(vals, n) \in test_set[i].wrong
           \/ UNCHANGED <<terrors, pc>>
    BY <1>3, CombinationIs DEF Test, sums, signals, t, CtlInv, InTest
  <2>2. CASE UNCHANGED <<terrors, pc>>
    BY <2>1, <2>2 DEF JudgeInv, TimedOut
  <2>3. CASE terrors' = terrors + 1 /\ pc' = "returned" /\ Comb(vals, n) \in test_set[i].wrong
    <3>1. terrors' = 1
      BY <2>1, <2>3
    <3>2. i \notin Right
      BY <2>1, <2>3, ErrorFound DEF Bad
    <3> QED
      BY <2>1, <3>1, <3>2 DEF JudgeInv, TimedOut
  <2> QED
    BY <2>1, <2>2, <2>3
<1>4. CASE Return
  <2>1. /\ UNCHANGED <<scored, timedout, stray, i, terrors>> /\ pc = "test" /\ terrors = 0
        /\ ~ (n < Product(vals))
    BY <1>4 DEF Return, TestsLeft, sums, signals, CtlInv, InTest
  <2>2. i \in MayPass
    BY <2>1, AllTested
  <2> QED
    BY <2>1, <2>2 DEF JudgeInv, TimedOut
<1>5. CASE Timeout \/ TimeoutNoFrame
  <2>1. /\ scored' = scored /\ timedout \subseteq timedout' /\ (stray => stray')
        /\ alarm # 0 /\ i' \in {i, alarm}
        /\ pc' = "returned" =>
             /\ terrors' = 1
             /\ \/ [of |-> i', by |-> alarm, costs |-> i'] \in timedout'
                \/ stray' /\ [of |-> alarm, by |-> alarm, costs |-> i'] \in timedout'
    BY <1>5 DEF Timeout, TimeoutNoFrame, sums, CtlInv
  <2>2. \A p \in Chosen : TimedOut(p) => TimedOut(p)'
    BY <2>1 DEF TimedOut
  <2>3. alarm = i' \/ JustBefore(alarm, i')
    <3>1. i \in Nat /\ alarm \in Nat
      BY Numbers
    <3>2. alarm <= i /\ \A p \in Chosen : ~ (alarm < p /\ p < i)
      BY <2>1 DEF AlarmInv
    <3> QED
      BY <2>1, <3>1, <3>2 DEF JustBefore
  <2>4. pc' = "returned" => TimedOut(i)'
    <3> SUFFICES ASSUME pc' = "returned" PROVE TimedOut(i)'
      OBVIOUS
    <3>1. PICK r \in timedout' : r.costs = i' /\ r.by = alarm /\ (r.of = i' \/ stray')
      BY <2>1
    <3> QED
      BY <2>3, <3>1 DEF TimedOut, JustBefore
  <2> QED
    <3>1. pc' = "returned" => ~ (terrors' = 0)
      BY <2>1
    <3>2. /\ \A p \in Chosen : scored'[p] = "full" => p \in MayPass
          /\ \A p \in Chosen : scored'[p] = "zero" /\ p \in Right => TimedOut(p)'
      BY <2>1, <2>2 DEF JudgeInv
    <3> QED
      BY <2>4, <3>1, <3>2 DEF JudgeInv
<1>6. CASE Hang \/ (Ended /\ UNCHANGED vars) \/ UNCHANGED vars
  BY <1>6 DEF Hang, vars, JudgeInv, TimedOut
<1> QED
  BY <1>1, <1>2, <1>3, <1>4, <1>5, <1>6 DEF Next, run_tests, timeout_handler

LEMMA ListsCorrect == Spec => [](CtlInv /\ AlarmInv /\ ListInv /\ JudgeInv)
  BY InitCtl, InitLists, CtlStep, AlarmStep, ListStep, JudgeStep, PTL DEF Spec

\* A right puzzle loses its points only to its own alarm or to the one pending
\* from the puzzle tested just before it.
THEOREM LostByTimeoutOnlyCorrect == Spec => []LostByTimeoutOnly
<1>1. JudgeInv => LostByTimeoutOnly
  BY DEF JudgeInv, LostByTimeoutOnly, TimedOut, Right
<1> QED
  BY <1>1, ListsCorrect, PTL

\* Without a limit the scores are exact, but for what only a random value finds.
THEOREM ExactWithoutLimitCorrect == Spec => []ExactWithoutLimit
<1>1. AlarmInv /\ JudgeInv => ExactWithoutLimit
  BY DEF AlarmInv, JudgeInv, ExactWithoutLimit, TimedOut, Right
<1> QED
  BY <1>1, ListsCorrect, PTL

-----------------------------------------------------------------------------
\* The ratings added up.
LEMMA MayEarnRec ==
  /\ MayEarn \in [0 .. Len(test_set) -> Nat] /\ MayEarn[0] = 0
  /\ \A p \in 1 .. Len(test_set) :
        MayEarn[p] = IF p \in MayPass THEN MayEarn[p - 1] + test_set[p].rating ELSE MayEarn[p - 1]
<1> DEFINE m == Len(test_set)
           V == Nat
           base == 0
           gain(k) == IF k \in MayPass THEN test_set[k].rating ELSE 0
           step == [k \in 1 .. m |-> [v \in V |-> v + gain(k)]]
           Rule(f) == [p \in 0 .. m |->
                         IF p = 0 THEN 0
                         ELSE IF p \in MayPass THEN f[p - 1] + test_set[p].rating ELSE f[p - 1]]
<1>1. m \in Nat /\ \A k \in 1 .. m : gain(k) \in Nat
  BY Constants DEF MayPass
<1>2. base \in V /\ step \in [1 .. m -> [V -> V]]
  <2> HIDE DEF gain, m
  <2> QED
    BY <1>1
<1>3. PICK f \in [0 .. m -> V] : f[0] = base /\ \A k \in 1 .. m : f[k] = step[k][f[k - 1]]
  <2> HIDE DEF m, V, base, step, gain
  <2>1. m \in Nat
    BY <1>1
  <2> QED
    BY ONLY <1>2, <2>1, Recursion
<1>4. ASSUME NEW k \in 1 .. m
      PROVE  k - 1 \in 0 .. m /\ f[k - 1] \in Nat /\ f[k] = f[k - 1] + gain(k)
  <2> HIDE DEF gain, m
  <2>1. k - 1 \in 0 .. m /\ f[k - 1] \in V
    BY <1>1, <1>3
  <2> QED
    BY <1>3, <2>1
<1>5. f = Rule(f)
  <2>1. ASSUME NEW p \in 0 .. m PROVE f[p] = Rule(f)[p]
    <3>1. CASE p = 0
      BY <1>3, <3>1
    <3>2. CASE p # 0
      <4>1. p \in 1 .. m
        BY <1>1, <3>2
      <4>2. CASE p \in MayPass
        <5>1. f[p] = f[p - 1] + test_set[p].rating
          BY <1>4, <4>1, <4>2
        <5> QED
          BY <3>2, <4>2, <5>1
      <4>3. CASE p \notin MayPass
        <5>1. f[p] = f[p - 1]
          BY <1>4, <4>1, <4>3
        <5> QED
          BY <3>2, <4>3, <5>1
      <4> QED
        BY <4>2, <4>3
    <3> QED
      BY <3>1, <3>2
  <2>2. DOMAIN f = 0 .. m /\ f = [p \in 0 .. m |-> f[p]]
    BY <1>3
  <2> QED
    BY <2>1, <2>2
<1>6. MayEarn = CHOOSE h : h = Rule(h)
  BY DEF MayEarn
<1>7. MayEarn = Rule(MayEarn)
  BY <1>5, <1>6
<1>8. /\ DOMAIN MayEarn = 0 .. m /\ MayEarn[0] = 0
      /\ \A p \in 1 .. m :
            MayEarn[p] = IF p \in MayPass THEN MayEarn[p - 1] + test_set[p].rating ELSE MayEarn[p - 1]
  <2> DEFINE g == MayEarn
  <2> HIDE DEF g
  <2>1. g = Rule(g)
    BY <1>7 DEF g
  <2>2. DOMAIN g = 0 .. m /\ 0 \in 0 .. m /\ g[0] = 0
    BY <1>1, <2>1
  <2>3. ASSUME NEW p \in 1 .. m
        PROVE  g[p] = IF p \in MayPass THEN g[p - 1] + test_set[p].rating ELSE g[p - 1]
    <3>1. p \in 0 .. m /\ p # 0
      BY <1>1
    <3>2. g[p] = Rule(g)[p]
      BY <2>1
    <3> QED
      BY <3>1, <3>2
  <2> QED
    BY <2>2, <2>3 DEF g
<1> DEFINE S == {k \in Nat : k <= m => MayEarn[k] \in Nat}
<1> HIDE DEF m
<1>9. 0 \in S
  BY <1>8
<1>10. ASSUME NEW k \in Nat, k \in S PROVE k + 1 \in S
  <2> SUFFICES ASSUME k + 1 <= m PROVE MayEarn[k + 1] \in Nat
    OBVIOUS
  <2>1. k + 1 \in 1 .. m /\ (k + 1) - 1 = k /\ MayEarn[k] \in Nat
    BY <1>1, <1>10
  <2>2. MayEarn[k + 1] = MayEarn[k] + gain(k + 1)
    BY <1>8, <2>1
  <2>3. gain(k + 1) \in Nat
    BY <1>1, <2>1
  <2> HIDE DEF gain
  <2> QED
    BY <2>1, <2>2, <2>3
<1>11. \A k \in 0 .. m : MayEarn[k] \in Nat
  <2> HIDE DEF S
  <2>1. Nat \subseteq S
    BY <1>9, <1>10, InductionOnSet
  <2> QED
    BY <1>1, <2>1 DEF S
<1>12. MayEarn = [k \in 0 .. m |-> MayEarn[k]]
  BY <1>7 DEF m
<1>13. MayEarn \in [0 .. m -> Nat]
  BY <1>11, <1>12
<1> QED
  BY <1>8, <1>13 DEF m

\* From a to b nothing is lost, and nothing won without a chosen puzzle.
LEMMA MayEarnGrows ==
  ASSUME NEW a \in 0 .. Len(test_set), NEW b \in 0 .. Len(test_set), a <= b
  PROVE  /\ MayEarn[a] \in Nat /\ MayEarn[b] \in Nat /\ MayEarn[a] <= MayEarn[b]
         /\ (\A p \in Chosen : ~ (a < p /\ p <= b)) => MayEarn[b] = MayEarn[a]
<1> DEFINE m == Len(test_set)
           E(k) == MayEarn[k]
           none(c) == \A p \in Chosen : ~ (a < p /\ p <= c)
           S == {d \in Nat : a + d <= m =>
                    E(a) <= E(a + d) /\ (none(a + d) => E(a + d) = E(a))}
<1>1. m \in Nat /\ \A p \in Chosen : p \in Nat
  BY Constants
<1>2. \A k \in 0 .. m : E(k) \in Nat
  BY MayEarnRec
<1>3. ASSUME NEW k \in 1 .. m
      PROVE  E(k - 1) <= E(k) /\ (k \notin Chosen => E(k) = E(k - 1))
  <2>1. E(k - 1) \in Nat /\ E(k) \in Nat
    BY <1>1, <1>2
  <2>2. CASE k \in MayPass
    <3>1. k \in Chosen /\ test_set[k].rating \in Nat
      BY <2>2, Constants DEF MayPass
    <3>2. E(k) = E(k - 1) + test_set[k].rating
      BY <2>2, MayEarnRec
    <3> HIDE DEF E
    <3> QED
      BY <2>1, <3>1, <3>2
  <2>3. CASE k \notin MayPass
    <3>1. E(k) = E(k - 1)
      BY <2>3, MayEarnRec
    <3> QED
      BY <2>1, <3>1
  <2> QED
    BY <2>2, <2>3
<1> HIDE DEF m, E
<1>4. a \in Nat /\ b \in Nat /\ a <= m /\ b <= m
  BY <1>1 DEF m
<1>5. 0 \in S
  BY <1>2, <1>4
<1>6. ASSUME NEW d \in Nat, d \in S PROVE d + 1 \in S
  <2> SUFFICES ASSUME a + (d + 1) <= m
               PROVE  /\ E(a) <= E(a + (d + 1))
                      /\ none(a + (d + 1)) => E(a + (d + 1)) = E(a)
    OBVIOUS
  <2> DEFINE k == a + (d + 1)
  <2>1. /\ a + d <= m /\ k \in 1 .. m /\ k - 1 = a + d /\ a < k
        /\ a \in 0 .. m /\ a + d \in 0 .. m /\ k \in 0 .. m
    BY <1>1, <1>4
  <2>2. E(a) <= E(a + d) /\ (none(a + d) => E(a + d) = E(a))
    BY <1>6, <2>1
  <2>3. E(a + d) <= E(k) /\ (k \notin Chosen => E(k) = E(a + d))
    BY <1>3, <2>1
  <2>4. E(a) \in Nat /\ E(a + d) \in Nat /\ E(k) \in Nat
    BY <1>2, <2>1
  <2>5. none(k) => none(a + d) /\ k \notin Chosen
    BY <1>1, <1>4, <2>1
  <2> HIDE DEF k, none
  <2>6. E(a) <= E(k) /\ (none(k) => E(k) = E(a))
    BY <2>2, <2>3, <2>4, <2>5
  <2> QED
    BY <2>6 DEF k
<1>7. b - a \in Nat /\ a + (b - a) = b
  BY <1>4
<1>8. b - a \in S
  <2> HIDE DEF S
  <2> QED
    BY <1>5, <1>6, <1>7, InductionOnSet
<1>9. E(a) <= E(b) /\ (none(b) => E(b) = E(a))
  BY <1>4, <1>7, <1>8
<1> QED
  BY <1>2, <1>4, <1>9 DEF E, m

LEMMA PointsStep == CtlInv /\ AlarmInv /\ JudgeInv /\ PointsInv /\ [Next]_vars => PointsInv'
<1> SUFFICES ASSUME CtlInv, AlarmInv, JudgeInv, PointsInv, [Next]_vars PROVE PointsInv'
  OBVIOUS
<1> DEFINE m == Len(test_set)
<1>1. /\ m \in Nat /\ i \in Nat /\ i >= 1 /\ points \in Nat /\ alarm \in Nat
      /\ \A p \in Chosen : p \in Nat /\ p >= 1 /\ p <= m
  <2>1. points \in Nat
    BY DEF CtlInv
  <2> QED
    BY <2>1, Constants, Numbers DEF Size
<1>3. \A k \in 1 .. m : /\ k - 1 \in 0 .. m /\ k \in 0 .. m
                        /\ MayEarn[k - 1] \in Nat /\ MayEarn[k] \in Nat
                        /\ MayEarn[k - 1] <= MayEarn[k] /\ MayEarn[k] <= MaxPoints
                        /\ MaxPoints \in Nat
  <2> TAKE k \in 1 .. m
  <2>1. k - 1 \in 0 .. m /\ k \in 0 .. m /\ m \in 0 .. m /\ k - 1 <= k /\ k <= m
    BY <1>1
  <2> QED
    BY <2>1, MayEarnGrows DEF MaxPoints
<1>4. points <= MaxPoints
  BY DEF PointsInv
<1>5. ASSUME i \in 1 .. m, pc # "killed"
      PROVE  /\ points <= MayEarn[i]
             /\ ~ (pc = "returned" /\ terrors = 1) => points <= MayEarn[i - 1]
  <2>1. points <= MayEarn[IF pc = "returned" /\ terrors = 1 THEN i ELSE i - 1]
    BY <1>5 DEF PointsInv
  <2>2. MayEarn[i - 1] \in Nat /\ MayEarn[i] \in Nat /\ MayEarn[i - 1] <= MayEarn[i]
    BY <1>3, <1>5
  <2>3. CASE pc = "returned" /\ terrors = 1
    BY <2>1, <2>3, Zenon
  <2>4. CASE ~ (pc = "returned" /\ terrors = 1)
    <3>1. points <= MayEarn[i - 1]
      BY <2>1, <2>4, Zenon
    <3> QED
      BY <1>1, <2>2, <2>4, <3>1
  <2> QED
    BY <2>3, <2>4
<1> HIDE DEF m
\* The puzzle stays the same, and what has been earned before it.
<1>6. ASSUME UNCHANGED <<points, i>>, pc # "killed", pc # "returned"
      PROVE  PointsInv'
  <2>1. ASSUME i \in 1 .. m, pc' # "killed"
        PROVE  points <= MayEarn[IF pc' = "returned" /\ terrors' = 1 THEN i ELSE i - 1]
    <3>1. CASE pc' = "returned" /\ terrors' = 1
      BY <1>5, <1>6, <2>1, <3>1, Zenon
    <3>2. CASE ~ (pc' = "returned" /\ terrors' = 1)
      BY <1>5, <1>6, <2>1, <3>2, Zenon
    <3> QED
      BY <3>1, <3>2
  <2> QED
    BY <1>1, <1>4, <1>6, <2>1 DEF PointsInv, m
<1>7. CASE CallTest \/ GenVals \/ ValuesDone \/ SaveEnv \/ SetAlarm \/ Exit
  <2>1. UNCHANGED <<points, i>> /\ pc # "returned" /\ pc # "killed"
    BY <1>7 DEF CallTest, GenVals, ValuesDone, SaveEnv, SetAlarm, Exit, sums
  <2> QED
    BY <1>6, <2>1
<1>8. CASE Test \/ Return \/ Timeout
  <2>1. UNCHANGED <<points, i>> /\ pc # "returned" /\ pc # "killed"
    BY <1>8 DEF Test, Return, Timeout, FrameActive, sums
  <2> QED
    BY <1>6, <2>1
<1>9. CASE SkipPuzzle
  <2>1. /\ i \in DOMAIN test_set /\ i' = i + 1 /\ points' = points
        /\ pc' = "run_tests" /\ pc = "run_tests"
    BY <1>9 DEF SkipPuzzle, sums
  <2>2. i \in 1 .. m /\ i' - 1 = i
    BY <1>1, <2>1, Constants DEF m
  <2>3. points <= MayEarn[i]
    BY <1>5, <2>1, <2>2
  <2> QED
    BY <1>4, <2>1, <2>2, <2>3 DEF PointsInv
<1>10. CASE Score
  <2>1. /\ pc = "returned" /\ pc' = "run_tests" /\ i' = i + 1 /\ i' - 1 = i
        /\ points' = IF terrors = 0 THEN points + test_set[i].rating ELSE points
    BY <1>1, <1>10 DEF Score, t
  <2>2. terrors \in {0, 1}
    BY DEF CtlInv
  <2>3. CASE terrors = 0
    <3>1. i \in 1 .. m /\ i \in MayPass
      BY <1>1, <2>1, <2>3 DEF JudgeInv, MayPass
    <3>2. /\ MayEarn[i - 1] \in Nat /\ MayEarn[i] \in Nat /\ MayEarn[i] <= MaxPoints
          /\ MaxPoints \in Nat
      BY <1>3, <3>1
    <3>3. MayEarn[i] = MayEarn[i - 1] + test_set[i].rating
      BY <3>1, MayEarnRec DEF m
    <3>8. test_set[i].rating \in Nat
      BY <3>1, Constants DEF MayPass
    <3>4. points <= MayEarn[i - 1]
      BY <1>5, <2>1, <2>3, <3>1
    <3>5. points' = points + test_set[i].rating
      BY <2>1, <2>3
    <3>6. points' <= MayEarn[i] /\ points' \in Nat
      BY <1>1, <3>2, <3>3, <3>4, <3>5, <3>8
    <3>7. points' <= MaxPoints
      <4> DEFINE x == points'
                 top == MayEarn[i]
      <4>1. x \in Nat /\ top \in Nat /\ x <= top /\ top <= MaxPoints
        BY <3>2, <3>6
      <4> HIDE DEF x, top
      <4>2. x <= MaxPoints
        BY <3>2, <4>1
      <4> QED
        BY <4>2 DEF x
    <3> QED
      BY <2>1, <3>6, <3>7 DEF PointsInv
  <2>4. CASE terrors = 1
    <3>1. points' = points
      BY <2>1, <2>4
    <3>2. i' <= Len(test_set) => points <= MayEarn[i]
      <4> SUFFICES ASSUME i' <= m PROVE points <= MayEarn[i]
        BY DEF m
      <4>1. i \in 1 .. m
        BY <1>1, <2>1
      <4> QED
        BY <1>5, <2>1, <4>1
    <3> QED
      BY <1>4, <2>1, <3>1, <3>2 DEF PointsInv
  <2> QED
    BY <2>2, <2>3, <2>4
<1>11. CASE TimeoutNoFrame
  <2>1. /\ points' = points /\ alarm \in Chosen /\ alarm # 0 /\ pc # "killed"
        /\ pc' = "killed" \/ (pc' = "returned" /\ i' \in {i, alarm} /\ terrors' = 1)
    BY <1>11 DEF TimeoutNoFrame, Ended, CtlInv
  <2>2. /\ alarm \in 1 .. m /\ alarm <= i /\ i <= m + 1
        /\ \A p \in Chosen : ~ (alarm < p /\ p < i)
    <3>1. i <= m + 1
      BY <2>1 DEF CtlInv, Size, m
    <3>2. alarm <= i /\ \A p \in Chosen : ~ (alarm < p /\ p < i)
      BY <2>1 DEF AlarmInv
    <3> QED
      BY <1>1, <2>1, <3>1, <3>2
  <2>3. points <= MayEarn[alarm]
    <3>1. CASE alarm = i
      BY <1>5, <2>1, <2>2, <3>1
    <3>2. CASE alarm < i /\ i <= m /\ ~ (pc = "returned" /\ terrors = 1)
      <4>1. i \in 1 .. m /\ alarm \in 0 .. m /\ i - 1 \in 0 .. m /\ alarm <= i - 1
        BY <1>1, <2>2, <3>2
      <4>2. \A p \in Chosen : ~ (alarm < p /\ p <= i - 1)
        BY <1>1, <2>2
      <4>3. MayEarn[i - 1] = MayEarn[alarm]
        BY <4>1, <4>2, MayEarnGrows DEF m
      <4>4. points <= MayEarn[i - 1]
        BY <1>5, <2>1, <3>2, <4>1
      <4> QED
        BY <4>3, <4>4
    <3>3. CASE i = m + 1
      <4>1. alarm \in 0 .. m /\ m \in 0 .. m /\ alarm <= m
        BY <1>1, <2>2
      <4>2. \A p \in Chosen : ~ (alarm < p /\ p <= m)
        BY <1>1, <2>2, <3>3
      <4>3. MayEarn[m] = MayEarn[alarm]
        BY <4>1, <4>2, MayEarnGrows DEF m
      <4> QED
        BY <1>4, <4>3 DEF MaxPoints, m
    <3>4. pc = "returned" => alarm = i
      BY <1>1, <2>1 DEF AlarmInv
    <3> QED
      BY <1>1, <2>2, <3>1, <3>2, <3>3, <3>4
  <2>4. i' \in 1 .. m /\ pc' = "returned" => points <= MayEarn[i']
    <3>1. CASE i' = alarm
      BY <2>3, <3>1
    <3>2. CASE i' = i
      BY <1>5, <2>1, <3>2
    <3> QED
      BY <2>1, <3>1, <3>2
  <2>5. pc' # "killed" /\ i' <= Len(test_set) =>
          /\ pc' = "returned" /\ terrors' = 1
          /\ points <= MayEarn[i']
    <3>1. pc' # "killed" /\ i' <= m => i' \in 1 .. m
      BY <1>1, <2>1, <2>2
    <3> QED
      BY <2>1, <2>4, <3>1 DEF m
  <2> QED
    BY <1>4, <2>1, <2>5 DEF PointsInv
<1>12. CASE Hang \/ (Ended /\ UNCHANGED vars) \/ UNCHANGED vars
  BY <1>12 DEF Hang, vars, PointsInv
<1> QED
  BY <1>7, <1>8, <1>9, <1>10, <1>11, <1>12 DEF Next, run_tests, timeout_handler

LEMMA InitPoints == Init => PointsInv
<1> SUFFICES ASSUME Init PROVE PointsInv
  OBVIOUS
<1>1. points = 0 /\ i = 1 /\ pc = "run_tests"
  BY DEF Init
<1>2. MayEarn[0] = 0 /\ MaxPoints \in Nat
  <2>1. Len(test_set) \in 0 .. Len(test_set)
    BY Constants
  <2> QED
    BY <2>1, MayEarnRec DEF MaxPoints
<1>3. MayEarn[i - 1] = 0
  BY <1>1, <1>2
<1> QED
  BY <1>1, <1>2, <1>3 DEF PointsInv

\* Points only for puzzles on which no test is sure to find an error.
THEOREM NoUndeservedPointsCorrect == Spec => []NoUndeservedPoints
<1>1. Spec => []PointsInv
  BY InitPoints, PointsStep, ListsCorrect, PTL DEF Spec
<1>2. JudgeInv /\ PointsInv => NoUndeservedPoints
  BY DEF JudgeInv, PointsInv, NoUndeservedPoints
<1> QED
  BY <1>1, <1>2, ListsCorrect, PTL

\* The type of every variable: the values of an argument fit their array and
\* lie in its range.
THEOREM TypeCorrect == Spec => []TypeOK
<1>1. CtlInv /\ ListInv => TypeOK
  <2> SUFFICES ASSUME CtlInv, ListInv PROVE TypeOK
    OBVIOUS
  <2>1. ASSUME pc \in InTest
        PROVE  \A c \in DOMAIN vals :
                 /\ Len(vals[c]) <= MAX_TEST_VALS
                 /\ ToSet(vals[c]) \subseteq t.ranges[c].min .. t.ranges[c].max
    <3>1. Lists(vals)
          /\ \A c \in 1 .. Len(vals) : \A a \in 1 .. Len(vals[c]) :
               vals[c][a] \in test_set[i].ranges[c].min .. test_set[i].ranges[c].max
      BY <2>1, ListsOf
    <3>2. DOMAIN vals = 1 .. Len(vals)
      BY <3>1 DEF Lists
    <3> TAKE c \in DOMAIN vals
    <3>3. vals[c] \in Seq(Int) /\ DOMAIN vals[c] = 1 .. Len(vals[c])
      BY <3>1, <3>2 DEF Lists
    <3>4. ToSet(vals[c]) \subseteq t.ranges[c].min .. t.ranges[c].max
      BY <3>1, <3>2, <3>3 DEF ToSet, t
    <3>5. Len(vals[c]) \in 1 .. MAX_TEST_VALS
      BY <2>1, <3>2 DEF ListInv, GoodList
    <3>6. MAX_TEST_VALS \in Nat
      BY HarnessAssumption DEF HarnessAssumption, MAX_TEST_VALS
    <3> QED
      BY <3>4, <3>5, <3>6
  <2>2. ASSUME pc = "test" PROVE n \in 0 .. Product(vals)
    <3>1. pc \in InTest
      BY <2>2 DEF InTest
    <3>2. n \in Nat /\ n <= Product(vals) /\ Product(vals) \in Nat
      BY <2>2, <3>1, ListsOf, Positive DEF ListInv
    <3> QED
      BY <3>2
  <2> QED
    BY <2>1, <2>2 DEF CtlInv, TypeOK, Points, InTest, FrameActive, Size
<1> QED
  BY <1>1, ListsCorrect, PTL

=============================================================================
