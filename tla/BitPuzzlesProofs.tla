------------------------- MODULE BitPuzzlesProofs ---------------------------
(***************************************************************************)
(* Solutions of bits.c that are right for every word: btest samples the    *)
(* arguments, and the run of TLC does, while these theorems do not depend  *)
(* on the words chosen.  The arithmetic is that of the values of words:    *)
(* Plus adds modulo 2^32, place by place.                                  *)
(***************************************************************************)
EXTENDS BitPuzzles, NaturalsInduction, WellFoundedInduction, TLAPS

USE DEF W

\* bitMask, bit by bit, for all pairs of positions.
LEMMA BitMaskLemma ==
    ASSUME NEW h \in 0 .. 31, NEW l \in 0 .. 31
    PROVE  bitMask(h, l) = test_bitMask(h, l)
<1> DEFINE from  == Sar(Shift80, 31 - l)
           top   == Shl(IF h # 31 THEN {0} ELSE {}, 31)
           above == Shl(Sar(top, 31 - h), 1)
<1>1. \A b : b \in Shift80 <=> b = 31
  BY DEF Shift80, Shl, Bits
<1>2. \A b : b \in from <=> b \in 0 .. 31 /\ l <= b
  BY <1>1 DEF Sar, Bits, SignBit
<1>3. \A b : b \in top <=> b = 31 /\ h # 31
  BY DEF Shl, Bits
<1>4. \A b : b \in Sar(top, 31 - h) <=> b \in 0 .. 31 /\ h <= b /\ h # 31
  BY <1>3 DEF Sar, Bits, SignBit
<1>5. \A b : b \in above <=> b \in 0 .. 31 /\ h < b
  BY <1>4 DEF Shl, Bits
<1>6. \A b : b \in from \cap Not(above) <=> b \in l .. h
  BY <1>2, <1>5 DEF Not, Bits
<1>7. from \cap Not(above) = l .. h
  BY <1>6
<1> QED
  BY <1>7 DEF bitMask, test_bitMask

\* The masks of greatestBitPos: the right shifts copy the sign bit of 0xFF << 24.
LEMMA Masks == mask3 = 24 .. 31 /\ mask2 = 16 .. 31 /\ mask1 = 8 .. 31
<1>1. \A b : b \in mask3 <=> b \in 24 .. 31
  BY DEF mask3, Shl, Bits
<1>2. \A b : b \in mask2 <=> b \in 16 .. 31
  BY <1>1 DEF mask2, Sar, Bits, SignBit
<1>3. \A b : b \in mask1 <=> b \in 8 .. 31
  BY <1>2 DEF mask1, Sar, Bits, SignBit
<1> QED
  BY <1>1, <1>2, <1>3

\* The search of greatestBitPos keeps an interval that holds the highest bit: of
\* eight bits, then four, then two, then one.
LEMMA GreatestBitLemma ==
    ASSUME NEW a \in Words
    PROVE  greatestBitPos(a) = test_greatestBitPos(a)
<1> DEFINE byte  == 8 * (Truth(a \cap 8 .. 31) + Truth(a \cap 16 .. 31) + Truth(a \cap 24 .. 31))
           hexit == byte + 4 * Truth(Sar(a, byte) \cap 4 .. 7)
           pair  == hexit + 2 * Truth(Sar(a, hexit) \cap 2 .. 3)
           bit   == pair + Truth(Sar(a, pair) \cap {1})
           Highest(from, size) == /\ \A c \in a : c < from + size
                                  /\ a # {} => \E c \in a : from <= c
<1>0. \A c \in a : c \in 0 .. 31
  BY DEF Words, Bits
<1>1. byte \in {0, 8, 16, 24} /\ Highest(byte, 8)
  <2>1. CASE \E c \in a : 24 <= c
    <3>1. a \cap 24 .. 31 # {} /\ a \cap 16 .. 31 # {} /\ a \cap 8 .. 31 # {}
      BY <1>0, <2>1
    <3>2. byte = 24
      BY <3>1 DEF Truth
    <3> QED
      BY <1>0, <2>1, <3>2
  <2>2. CASE (\A c \in a : c < 24) /\ \E c \in a : 16 <= c
    <3>1. a \cap 24 .. 31 = {} /\ a \cap 16 .. 31 # {} /\ a \cap 8 .. 31 # {}
      BY <1>0, <2>2
    <3>2. byte = 16
      BY <3>1 DEF Truth
    <3> QED
      BY <1>0, <2>2, <3>2
  <2>3. CASE (\A c \in a : c < 16) /\ \E c \in a : 8 <= c
    <3>1. a \cap 24 .. 31 = {} /\ a \cap 16 .. 31 = {} /\ a \cap 8 .. 31 # {}
      BY <1>0, <2>3
    <3>2. byte = 8
      BY <3>1 DEF Truth
    <3> QED
      BY <1>0, <2>3, <3>2
  <2>4. CASE \A c \in a : c < 8
    <3>1. a \cap 24 .. 31 = {} /\ a \cap 16 .. 31 = {} /\ a \cap 8 .. 31 = {}
      BY <1>0, <2>4
    <3>2. byte = 0
      BY <3>1 DEF Truth
    <3> QED
      BY <1>0, <2>4, <3>2
  <2>5. \/ \E c \in a : 24 <= c
        \/ (\A c \in a : c < 24) /\ \E c \in a : 16 <= c
        \/ (\A c \in a : c < 16) /\ \E c \in a : 8 <= c
        \/ \A c \in a : c < 8
    BY <1>0
  <2> HIDE DEF byte
  <2> QED
    BY <2>1, <2>2, <2>3, <2>4, <2>5
<1>2. hexit \in {byte, byte + 4} /\ Highest(hexit, 4)
  <2> HIDE DEF byte
  <2>1. \A b \in 4 .. 7 : b \in Sar(a, byte) <=> b + byte \in a
    BY <1>1 DEF Sar, Bits, SignBit
  <2>2. CASE \E b \in 4 .. 7 : b + byte \in a
    <3>1. hexit = byte + 4
      BY <1>1, <2>1, <2>2 DEF Truth
    <3> QED
      BY <1>0, <1>1, <2>2, <3>1
  <2>3. CASE \A b \in 4 .. 7 : b + byte \notin a
    <3>1. hexit = byte
      BY <1>1, <2>1, <2>3 DEF Truth
    <3>2. \A c \in a : c < byte + 4
      <4> SUFFICES ASSUME NEW c \in a, c >= byte + 4
                   PROVE  FALSE
        BY <1>0, <1>1
      <4>1. c - byte \in 4 .. 7 /\ (c - byte) + byte = c
        BY <1>0, <1>1
      <4> QED
        BY <2>3, <4>1
    <3> QED
      BY <1>1, <3>1, <3>2
  <2> QED
    BY <2>2, <2>3
<1>3. pair \in {hexit, hexit + 2} /\ Highest(pair, 2)
  <2> HIDE DEF byte, hexit
  <2>0. hexit \in 0 .. 28
    BY <1>1, <1>2
  <2>1. \A b \in 2 .. 3 : b \in Sar(a, hexit) <=> b + hexit \in a
    BY <2>0 DEF Sar, Bits, SignBit
  <2>2. CASE \E b \in 2 .. 3 : b + hexit \in a
    <3>1. pair = hexit + 2
      BY <2>0, <2>1, <2>2 DEF Truth
    <3>2. \A c \in a : c < hexit + 4
      BY <1>2
    <3>3. \E c \in a : hexit + 2 <= c
      BY <1>0, <2>0, <2>2
    <3> HIDE DEF pair
    <3> QED
      BY <1>0, <2>0, <3>1, <3>2, <3>3
  <2>3. CASE \A b \in 2 .. 3 : b + hexit \notin a
    <3>1. pair = hexit
      BY <2>0, <2>1, <2>3 DEF Truth
    <3>2. \A c \in a : c < hexit + 2
      <4> SUFFICES ASSUME NEW c \in a, c >= hexit + 2
                   PROVE  FALSE
        BY <1>0, <2>0
      <4>1. c - hexit \in 2 .. 3 /\ (c - hexit) + hexit = c
        BY <1>0, <1>2, <2>0
      <4> QED
        BY <2>3, <4>1
    <3> QED
      BY <1>2, <3>1, <3>2
  <2> QED
    BY <2>2, <2>3
<1>4. bit \in 0 .. 31 /\ Highest(bit, 1)
  <2> HIDE DEF byte, hexit, pair
  <2>0. pair \in 0 .. 30
    BY <1>1, <1>2, <1>3
  <2>1. 1 \in Sar(a, pair) <=> pair + 1 \in a
    BY <2>0 DEF Sar, Bits, SignBit
  <2>2. CASE pair + 1 \in a
    <3>1. bit = pair + 1
      BY <2>0, <2>1, <2>2 DEF Truth
    <3> QED
      BY <1>0, <1>3, <2>0, <2>2, <3>1
  <2>3. CASE pair + 1 \notin a
    <3>1. bit = pair
      BY <2>0, <2>1, <2>3 DEF Truth
    <3>2. \A c \in a : c < pair + 1
      BY <1>0, <1>3, <2>0, <2>3
    <3> HIDE DEF bit
    <3> QED
      BY <1>3, <2>0, <3>1, <3>2
  <2> QED
    BY <2>2, <2>3
<1>5. \A b : b \in Shl(Sar(a, bit) \cap {0}, bit) <=> b = bit /\ bit \in a
  <2> HIDE DEF bit
  <2>1. 0 \in Sar(a, bit) <=> bit \in a
    BY <1>4 DEF Sar, Bits, SignBit
  <2> QED
    BY <1>4, <2>1 DEF Shl, Bits
<1>6. \A b : b \in test_greatestBitPos(a) <=> b = bit /\ bit \in a
  <2> HIDE DEF bit
  <2> QED
    BY <1>0, <1>4 DEF test_greatestBitPos
<1>7. Shl(Sar(a, bit) \cap {0}, bit) = test_greatestBitPos(a)
  <2> HIDE DEF bit
  <2> QED
    BY <1>5, <1>6
<1> QED
  BY <1>7, Masks DEF greatestBitPos

\* getByte masks away whatever the arithmetic shift has brought down from the
\* sign bit.
LEMMA GetByteLemma ==
    ASSUME NEW a \in Words, NEW n \in 0 .. 3
    PROVE  getByte(a, n) = test_getByte(a, n)
<1>1. \A b \in 0 .. 7 : b \in Sar(a, 8 * n) <=> b + 8 * n \in a
  BY DEF Sar, Bits, SignBit
<1> QED
  BY <1>1 DEF getByte, test_getByte

(***************************************************************************)
(* Recursion along the bits.  The library's induction theorems take an     *)
(* operator as a parameter, so what is needed is restated with sets.       *)
(***************************************************************************)

\* Induction over the naturals, for a set.
LEMMA LeastElement ==
  ASSUME NEW S, S \subseteq Nat, S # {}
  PROVE  \E m \in S : \A k \in S : m <= k
<1>1. IsWellFoundedOn(OpToRel(<, Nat), Nat)
  BY NatLessThanWellFounded
<1>2. PICK m \in S : \A k \in S : ~ (<<k, m>> \in OpToRel(<, Nat))
  BY <1>1, WFMin
<1>3. \A k \in S : ~ (k < m)
  BY <1>2 DEF OpToRel
<1>4. m \in Nat /\ \A k \in S : k \in Nat
  OBVIOUS
<1> QED
  BY <1>3, <1>4

LEMMA InductionOnSet ==
  ASSUME NEW S, 0 \in S, \A k \in Nat : k \in S => k + 1 \in S
  PROVE  Nat \subseteq S
<1> SUFFICES ASSUME Nat \ S # {} PROVE FALSE
  OBVIOUS
<1> DEFINE T == Nat \ S
<1>1. PICK k \in T : \A m \in T : k <= m
  <2>1. T \subseteq Nat /\ T # {}
    OBVIOUS
  <2> HIDE DEF T
  <2> QED
    BY <2>1, LeastElement
<1>2. k \in Nat /\ k # 0 /\ k - 1 \in Nat
  BY <1>1
<1>3. k - 1 \in S
  BY <1>1, <1>2
<1> QED
  BY <1>1, <1>2, <1>3

\* From the sign bit down to bit 0.
LEMMA Downward ==
  ASSUME NEW S, 31 \in S, \A k \in 0 .. 30 : k + 1 \in S => k \in S
  PROVE  \A k \in 0 .. 31 : k \in S
<1> DEFINE T == {j \in Nat : \A k \in 0 .. 31 : j + k = 31 => k \in S}
<1>1. 0 \in T
  <2>1. \A k \in 0 .. 31 : 0 + k = 31 => k = 31
    BY ONLY TRUE
  <2> QED
    BY ONLY <2>1, 31 \in S
<1>2. ASSUME NEW j \in Nat, j \in T PROVE j + 1 \in T
  <2>0. j + 1 \in Nat
    BY ONLY j \in Nat
  <2> SUFFICES ASSUME NEW k \in 0 .. 31, (j + 1) + k = 31 PROVE k \in S
    BY <2>0, Zenon
  <2>1. k \in 0 .. 30 /\ k + 1 \in 0 .. 31 /\ j + (k + 1) = 31
    BY ONLY j \in Nat, k \in 0 .. 31, (j + 1) + k = 31
  <2>2. k + 1 \in S
    BY ONLY <1>2, <2>1
  <2> QED
    BY <2>1, <2>2
<1>3. Nat \subseteq T
  <2> HIDE DEF T
  <2> QED
    BY <1>1, <1>2, InductionOnSet
<1> TAKE k \in 0 .. 31
<1>4. 31 - k \in Nat /\ (31 - k) + k = 31
  BY ONLY k \in 0 .. 31
<1>5. 31 - k \in T
  <2> HIDE DEF T
  <2> QED
    BY ONLY <1>3, <1>4
<1> QED
  BY ONLY <1>4, <1>5, k \in 0 .. 31

\* From bit 0 up to m.
LEMMA Upward ==
  ASSUME NEW S, NEW m \in Nat, 0 \in S, \A k \in Nat : k < m /\ k \in S => k + 1 \in S
  PROVE  \A k \in 0 .. m : k \in S
<1> DEFINE T == {j \in Nat : j <= m => j \in S}
<1>1. 0 \in T
  OBVIOUS
<1>2. ASSUME NEW j \in Nat, j \in T PROVE j + 1 \in T
  BY <1>2
<1>3. Nat \subseteq T
  <2> HIDE DEF T
  <2> QED
    BY <1>1, <1>2, InductionOnSet
<1> QED
  BY <1>3

\* Recursion along 0 .. m: step[k][v] is the value after v.
LEMMA Recursion ==
  ASSUME NEW V, NEW base \in V, NEW m \in Nat,
         NEW step \in [1 .. m -> [V -> V]]
  PROVE  \E f \in [0 .. m -> V] :
            f[0] = base /\ \A k \in 1 .. m : f[k] = step[k][f[k - 1]]
<1> DEFINE Follows(f, j) == f[0] = base /\ \A k \in 1 .. j : f[k] = step[k][f[k - 1]]
           S == {j \in Nat : \E f \in [0 .. j -> V] : Follows(f, j)}
<1>1. 0 \in S
  <2> DEFINE f == [k \in 0 .. 0 |-> base]
  <2>1. f \in [0 .. 0 -> V] /\ Follows(f, 0)
    OBVIOUS
  <2> QED
    BY <2>1
<1>2. ASSUME NEW j \in Nat, j < m, j \in S PROVE j + 1 \in S
  <2>1. PICK f \in [0 .. j -> V] : Follows(f, j)
    BY <1>2
  <2> DEFINE g == [k \in 0 .. j + 1 |-> IF k <= j THEN f[k] ELSE step[j + 1][f[j]]]
  <2>2. f[j] \in V /\ step[j + 1][f[j]] \in V
    BY <1>2, <2>1
  <2>3. g \in [0 .. j + 1 -> V]
    BY <2>1, <2>2
  <2>4. g[0] = base
    BY <2>1
  <2>5. ASSUME NEW k \in 1 .. j + 1 PROVE g[k] = step[k][g[k - 1]]
    <3>1. k - 1 \in 0 .. j /\ g[k - 1] = f[k - 1]
      OBVIOUS
    <3>2. CASE k <= j
      <4>1. k \in 1 .. j /\ g[k] = f[k]
        BY <3>2
      <4> QED
        BY <2>1, <3>1, <4>1
    <3>3. CASE k = j + 1
      <4>1. g[k] = step[j + 1][f[j]] /\ k - 1 = j
        BY <3>3
      <4> QED
        BY <3>1, <3>3, <4>1
    <3> QED
      BY <3>2, <3>3
  <2>6. Follows(g, j + 1)
    BY <2>4, <2>5
  <2> HIDE DEF g
  <2> QED
    BY <2>3, <2>6
<1>3. m \in 0 .. m
  OBVIOUS
<1>4. m \in S
  <2> HIDE DEF S
  <2> QED
    BY <1>1, <1>2, <1>3, Upward
<1> QED
  BY <1>4

(***************************************************************************)
(* The integer of a word.  v is a numeral of a when v[k] is what bits k to *)
(* 31 of a stand for.                                                      *)
(***************************************************************************)
Bit(a, k) == IF k \in a THEN 1 ELSE 0

Numeral(v, a) ==
    /\ v \in [0 .. 31 -> Int]
    /\ v[31] = -Bit(a, 31)
    /\ \A k \in 0 .. 30 : v[k] = 2 * v[k + 1] + Bit(a, k)

LEMMA BitType == ASSUME NEW a, NEW k PROVE Bit(a, k) \in {0, 1}
BY DEF Bit

\* The recursion of ValueOf has a solution, and that is a numeral.
LEMMA NumeralOf ==
  ASSUME NEW a
  PROVE  \E v : Numeral(v, a) /\ ValueOf(a) = v[0]
<1> DEFINE step == [j \in 1 .. 31 |-> [n \in Int |-> 2 * n + Bit(a, 31 - j)]]
           Rule(v) == [k \in 0 .. 31 |->
                         IF k = 31 THEN -Bit(a, k) ELSE 2 * v[k + 1] + Bit(a, k)]
<1>1. \A j \in 1 .. 31 : \A n \in Int : step[j][n] = 2 * n + Bit(a, 31 - j)
  OBVIOUS
<1>2. PICK f \in [0 .. 31 -> Int] :
         f[0] = -Bit(a, 31) /\ \A j \in 1 .. 31 : f[j] = step[j][f[j - 1]]
  <2> DEFINE V == Int
             base == -Bit(a, 31)
             m == 31
  <2>1. m \in Nat /\ base \in V
    BY BitType
  <2>2. step \in [1 .. m -> [V -> V]]
    <3>1. \A j \in 1 .. 31 : \A n \in Int : 2 * n + Bit(a, 31 - j) \in Int
      BY BitType
    <3> QED
      BY <3>1
  <2> HIDE DEF m, V, base, step
  <2>3. \E g \in [0 .. m -> V] : g[0] = base /\ \A k \in 1 .. m : g[k] = step[k][g[k - 1]]
    BY ONLY <2>1, <2>2, Recursion
  <2> QED
    BY <2>3 DEF V, base, m
<1> DEFINE v0 == [k \in 0 .. 31 |-> f[31 - k]]
<1>3. \A k \in 0 .. 30 : v0[k] = 2 * v0[k + 1] + Bit(a, k)
  <2> TAKE k \in 0 .. 30
  <2>1. 31 - k \in 1 .. 31 /\ (31 - k) - 1 = 31 - (k + 1) /\ 31 - (31 - k) = k
    OBVIOUS
  <2>2. v0[k] = f[31 - k] /\ v0[k + 1] = f[31 - (k + 1)]
    OBVIOUS
  <2>3. f[31 - (k + 1)] \in Int
    OBVIOUS
  <2> HIDE DEF step, v0
  <2> QED
    BY <1>1, <1>2, <2>1, <2>2, <2>3
<1>4. v0[31] = -Bit(a, 31)
  BY <1>2
<1>5. v0 = Rule(v0)
  <2> DEFINE rule == Rule(v0)
  <2>1. \A k \in 0 .. 31 : v0[k] = rule[k]
    <3> HIDE DEF v0
    <3> QED
      BY <1>3, <1>4
  <2> QED
    BY <2>1
<1> DEFINE v == CHOOSE h : h = Rule(h)
<1>6. v = Rule(v)
  <2> HIDE DEF v0
  <2> QED
    BY <1>5
<1>7. ValueOf(a) = v[0]
  BY DEF ValueOf, Bits, SignBit, Bit
<1> HIDE DEF v, v0, step
<1>8. v[31] = -Bit(a, 31) /\ \A k \in 0 .. 30 : v[k] = 2 * v[k + 1] + Bit(a, k)
  BY <1>6
<1>9. \A k \in 0 .. 31 : v[k] \in Int
  <2> DEFINE S == {k \in 0 .. 31 : v[k] \in Int}
  <2>1. 31 \in S
    BY <1>8, BitType
  <2>2. \A k \in 0 .. 30 : k + 1 \in S => k \in S
    <3> TAKE k \in 0 .. 30
    <3>1. v[k] = 2 * v[k + 1] + Bit(a, k) /\ Bit(a, k) \in {0, 1}
      BY <1>8, BitType
    <3> QED
      BY <3>1
  <2> HIDE DEF S
  <2>3. \A k \in 0 .. 31 : k \in S
    BY <2>1, <2>2, Downward
  <2> QED
    BY <2>3 DEF S
<1>10. v \in [0 .. 31 -> Int]
  BY <1>6, <1>9
<1> QED
  BY <1>7, <1>8, <1>10 DEF Numeral

LEMMA RangeEnds == TMin \in Int /\ TMax = -TMin - 1
<1>1. TMax \in Int
  BY SMT DEF TMax
<1> QED
  BY <1>1, SMT DEF TMin

\* t[k] is -2^(31-k), the least integer of 32 - k bits.
LEMMA Weights ==
  ASSUME NEW t, Numeral(t, {31})
  PROVE  /\ t[0] = TMin
         /\ t[31] = -1
         /\ \A k \in 0 .. 30 : t[k] = 2 * t[k + 1]
         /\ \A k \in 0 .. 31 : t[k] \in Int /\ t[k] <= -1
<1>1. t[31] = -1 /\ (\A k \in 0 .. 30 : t[k] = 2 * t[k + 1]) /\ \A k \in 0 .. 31 : t[k] \in Int
  BY DEF Numeral, Bit
<1>2. ASSUME NEW k \in 0 .. 27 PROVE t[k] = 16 * t[k + 4]
  <2>1. t[k] = 2 * t[k + 1] /\ t[k + 1] = 2 * t[k + 2] /\ t[k + 2] = 2 * t[k + 3] /\ t[k + 3] = 2 * t[k + 4]
    <3>1. k \in 0 .. 30 /\ k + 1 \in 0 .. 30 /\ k + 2 \in 0 .. 30 /\ k + 3 \in 0 .. 30
      OBVIOUS
    <3>2. (k + 1) + 1 = k + 2 /\ (k + 2) + 1 = k + 3 /\ (k + 3) + 1 = k + 4
      OBVIOUS
    <3> QED
      BY ONLY <1>1, <3>1, <3>2
  <2>2. t[k + 4] \in Int
    BY <1>1
  <2> QED
    BY ONLY <2>1, <2>2
<1>3. t[27] = -16 /\ t[23] = -256 /\ t[19] = -4096 /\ t[15] = -65536
  <2>1. t[27] = 16 * t[31] /\ t[23] = 16 * t[27] /\ t[19] = 16 * t[23] /\ t[15] = 16 * t[19]
    BY ONLY <1>2
  <2> QED
    BY ONLY <1>1, <2>1, SMT
<1>4. t[11] = -1048576 /\ t[7] = -16777216 /\ t[3] = -268435456
  <2>1. t[11] = 16 * t[15] /\ t[7] = 16 * t[11] /\ t[3] = 16 * t[7]
    BY ONLY <1>2
  <2> QED
    BY ONLY <1>3, <2>1, SMT
<1>5. t[0] = TMin
  <2>1. t[0] = 2 * t[1] /\ t[1] = 2 * t[2] /\ t[2] = 2 * t[3]
    BY ONLY <1>1
  <2> QED
    BY ONLY <1>4, <2>1, SMT DEF TMin, TMax
<1>6. \A k \in 0 .. 31 : t[k] <= -1
  <2> DEFINE S == {k \in 0 .. 31 : t[k] <= -1}
  <2>1. 31 \in S
    BY <1>1
  <2>2. ASSUME NEW k \in 0 .. 30, k + 1 \in S PROVE k \in S
    <3>1. t[k] = 2 * t[k + 1] /\ t[k + 1] \in Int
      BY <1>1
    <3> QED
      BY <2>2, <3>1
  <2> HIDE DEF S
  <2>3. \A k \in 0 .. 31 : k \in S
    BY <2>1, <2>2, Downward
  <2> QED
    BY <2>3 DEF S
<1> QED
  BY <1>1, <1>5, <1>6

\* A word of 32 bits stands for an integer of TMin .. TMax, negative when the
\* sign bit is set.
LEMMA NumeralRange ==
  ASSUME NEW a, NEW v, Numeral(v, a)
  PROVE  v[0] \in TMin .. TMax /\ (v[0] < 0 <=> 31 \in a)
<1>1. PICK t : Numeral(t, {31})
  BY NumeralOf
<1> DEFINE S == {k \in 0 .. 31 : t[k] <= v[k] /\ v[k] <= -t[k] - 1 /\ (v[k] < 0 <=> 31 \in a)}
<1>2. 31 \in S
  BY <1>1, Weights DEF Numeral, Bit
<1>3. ASSUME NEW k \in 0 .. 30, k + 1 \in S PROVE k \in S
  <2>1. t[k] = 2 * t[k + 1] /\ t[k + 1] \in Int
    BY <1>1, Weights
  <2>2. v[k] = 2 * v[k + 1] + Bit(a, k) /\ v[k + 1] \in Int /\ Bit(a, k) \in {0, 1}
    BY BitType DEF Numeral
  <2> QED
    BY <1>3, <2>1, <2>2
<1>4. \A k \in 0 .. 31 : k \in S
  <2> HIDE DEF S
  <2> QED
    BY <1>2, <1>3, Downward
<1>5. t[0] <= v[0] /\ v[0] <= -t[0] - 1 /\ (v[0] < 0 <=> 31 \in a)
  BY <1>4
<1>6. t[0] = TMin /\ t[0] \in Int /\ v[0] \in Int
  BY <1>1, Weights DEF Numeral
<1>7. v[0] \in TMin .. TMax
  BY ONLY <1>5, <1>6, RangeEnds
<1> QED
  BY <1>5, <1>7

\* Two words with the same integer are the same word.
LEMMA NumeralInjective ==
  ASSUME NEW a \in Words, NEW b \in Words, NEW v, NEW w,
         Numeral(v, a), Numeral(w, b), v[0] = w[0]
  PROVE  a = b
<1> DEFINE S == {k \in 0 .. 31 : v[k] = w[k]}
<1>1. ASSUME NEW k \in 0 .. 30, k \in S PROVE k + 1 \in S /\ (k \in a <=> k \in b)
  <2>1. v[k] = 2 * v[k + 1] + Bit(a, k) /\ v[k + 1] \in Int /\ Bit(a, k) \in {0, 1}
    BY BitType DEF Numeral
  <2>2. w[k] = 2 * w[k + 1] + Bit(b, k) /\ w[k + 1] \in Int /\ Bit(b, k) \in {0, 1}
    BY BitType DEF Numeral
  <2>3. v[k + 1] = w[k + 1] /\ Bit(a, k) = Bit(b, k)
    BY <1>1, <2>1, <2>2
  <2> QED
    BY <2>3 DEF Bit
<1>2. \A k \in 0 .. 31 : k \in S
  <2> DEFINE m == 31
  <2>1. m \in Nat /\ 0 \in S /\ \A k \in Nat : k < m /\ k \in S => k + 1 \in S
    BY <1>1
  <2> HIDE DEF S, m
  <2>2. \A k \in 0 .. m : k \in S
    BY ONLY <2>1, Upward
  <2> QED
    BY <2>2 DEF m
<1>3. 31 \in a <=> 31 \in b
  BY <1>2 DEF Numeral, Bit
<1>4. \A k \in 0 .. 31 : k \in a <=> k \in b
  <2> TAKE k \in 0 .. 31
  <2>1. k = 31 \/ k \in 0 .. 30
    OBVIOUS
  <2> HIDE DEF S
  <2> QED
    BY <1>1, <1>2, <1>3, <2>1
<1>5. a \subseteq 0 .. 31 /\ b \subseteq 0 .. 31
  BY DEF Words, Bits
<1> QED
  BY ONLY <1>4, <1>5

\* What the other lemmas need of ValueOf.
LEMMA ValueRange ==
  ASSUME NEW a
  PROVE  ValueOf(a) \in TMin .. TMax /\ (ValueOf(a) < 0 <=> 31 \in a)
<1>1. PICK v : Numeral(v, a) /\ ValueOf(a) = v[0]
  BY NumeralOf
<1> QED
  BY <1>1, NumeralRange

LEMMA ValueInjective ==
  ASSUME NEW a \in Words, NEW b \in Words, ValueOf(a) = ValueOf(b)
  PROVE  a = b
<1>1. PICK v : Numeral(v, a) /\ ValueOf(a) = v[0]
  BY NumeralOf
<1>2. PICK w : Numeral(w, b) /\ ValueOf(b) = w[0]
  BY NumeralOf
<1> QED
  BY <1>1, <1>2, NumeralInjective

\* No bits stand for 0 and bit 0 alone for 1.
LEMMA SmallValues == ValueOf({}) = 0 /\ ValueOf({0}) = 1
<1>1. PICK v : Numeral(v, {}) /\ ValueOf({}) = v[0]
  BY NumeralOf
<1>2. PICK w : Numeral(w, {0}) /\ ValueOf({0}) = w[0]
  BY NumeralOf
<1> DEFINE S == {k \in 0 .. 31 : v[k] = 0 /\ (k # 0 => w[k] = 0)}
<1>3. 31 \in S
  BY <1>1, <1>2 DEF Numeral, Bit
<1>4. ASSUME NEW k \in 0 .. 30, k + 1 \in S PROVE k \in S
  <2>1. v[k] = 2 * v[k + 1] + 0 /\ w[k] = 2 * w[k + 1] + (IF k = 0 THEN 1 ELSE 0)
    BY <1>1, <1>2 DEF Numeral, Bit
  <2>2. v[k + 1] = 0 /\ w[k + 1] = 0
    BY <1>4
  <2> QED
    BY <2>1, <2>2
<1>5. \A k \in 0 .. 31 : k \in S
  <2> HIDE DEF S
  <2> QED
    BY <1>3, <1>4, Downward
<1>6. v[0] = 0 /\ w[1] = 0
  BY <1>5
<1>7. w[0] = 2 * w[1] + 1
  <2>1. w[0] = 2 * w[0 + 1] + Bit({0}, 0)
    BY <1>2 DEF Numeral
  <2> QED
    BY <2>1 DEF Bit
<1> QED
  BY <1>1, <1>2, <1>6, <1>7

\* ~a is -a - 1.
LEMMA ValueNot == ASSUME NEW a PROVE ValueOf(Not(a)) = -1 - ValueOf(a)
<1>1. PICK v : Numeral(v, a) /\ ValueOf(a) = v[0]
  BY NumeralOf
<1>2. PICK w : Numeral(w, Not(a)) /\ ValueOf(Not(a)) = w[0]
  BY NumeralOf
<1>3. \A k \in 0 .. 31 : Bit(Not(a), k) = 1 - Bit(a, k)
  BY DEF Bit, Not, Bits
<1> DEFINE S == {k \in 0 .. 31 : w[k] = -1 - v[k]}
<1>4. 31 \in S
  <2>1. w[31] = -Bit(Not(a), 31) /\ v[31] = -Bit(a, 31) /\ Bit(a, 31) \in {0, 1}
    BY <1>1, <1>2, BitType DEF Numeral
  <2>2. Bit(Not(a), 31) = 1 - Bit(a, 31)
    BY <1>3
  <2> QED
    BY <2>1, <2>2
<1>5. ASSUME NEW k \in 0 .. 30, k + 1 \in S PROVE k \in S
  <2>1. w[k] = 2 * w[k + 1] + Bit(Not(a), k) /\ v[k] = 2 * v[k + 1] + Bit(a, k)
    BY <1>1, <1>2 DEF Numeral
  <2>2. v[k + 1] \in Int /\ Bit(a, k) \in {0, 1} /\ Bit(Not(a), k) = 1 - Bit(a, k)
    BY <1>1, <1>3, BitType DEF Numeral
  <2>3. w[k + 1] = -1 - v[k + 1]
    BY <1>5
  <2>4. w[k] = -1 - v[k]
    BY ONLY <2>1, <2>2, <2>3
  <2> QED
    BY <2>4
<1>6. \A k \in 0 .. 31 : k \in S
  <2> HIDE DEF S
  <2> QED
    BY <1>4, <1>5, Downward
<1> QED
  BY <1>1, <1>2, <1>6

\* The recursion of Carries has a solution.
Majority(p, q, c) == (p /\ q) \/ ((p \/ q) /\ c)

LEMMA CarryRule ==
  ASSUME NEW a, NEW b
  PROVE  /\ Carries(a, b) \in [0 .. 32 -> BOOLEAN]
         /\ Carries(a, b)[0] = FALSE
         /\ \A k \in 0 .. 31 :
               Carries(a, b)[k + 1] <=> Majority(k \in a, k \in b, Carries(a, b)[k])
<1> DEFINE step == [j \in 1 .. 32 |-> [c \in BOOLEAN |-> Majority(j - 1 \in a, j - 1 \in b, c)]]
           Rule(f) == [k \in 0 .. 32 |-> IF k = 0 THEN FALSE
                                         ELSE \/ k - 1 \in a \cap b
                                              \/ k - 1 \in a \cup b /\ f[k - 1]]
<1>1. PICK f \in [0 .. 32 -> BOOLEAN] :
         f[0] = FALSE /\ \A j \in 1 .. 32 : f[j] = step[j][f[j - 1]]
  <2> DEFINE V == BOOLEAN
             base == FALSE
             m == 32
  <2>1. m \in Nat /\ base \in V
    OBVIOUS
  <2>2. step \in [1 .. m -> [V -> V]]
    BY DEF Majority
  <2> HIDE DEF m, V, base, step
  <2>3. \E g \in [0 .. m -> V] : g[0] = base /\ \A k \in 1 .. m : g[k] = step[k][g[k - 1]]
    BY ONLY <2>1, <2>2, Recursion
  <2> QED
    BY <2>3 DEF V, base, m
<1>2. \A j \in 1 .. 32 : f[j] = Majority(j - 1 \in a, j - 1 \in b, f[j - 1])
  <2> TAKE j \in 1 .. 32
  <2>1. f[j - 1] \in BOOLEAN /\ f[j] = step[j][f[j - 1]]
    BY <1>1
  <2>2. step[j][f[j - 1]] = Majority(j - 1 \in a, j - 1 \in b, f[j - 1])
    BY ONLY <2>1, j \in 1 .. 32
  <2> QED
    BY ONLY <2>1, <2>2
<1>3. f = Rule(f)
  <2> DEFINE rule == Rule(f)
  <2>1. rule = [k \in 0 .. 32 |-> rule[k]]
    OBVIOUS
  <2>2. \A k \in 0 .. 32 : f[k] = rule[k]
    <3> TAKE k \in 0 .. 32
    <3>1. CASE k = 0
      BY <1>1, <3>1
    <3>2. CASE k # 0
      <4>1. k \in 1 .. 32
        BY <3>2
      <4>2. rule[k] = IF k = 0 THEN FALSE ELSE (k - 1 \in a \cap b \/ (k - 1 \in a \cup b /\ f[k - 1]))
        BY Zenon
      <4> HIDE DEF rule
      <4>3. f[k] = Majority(k - 1 \in a, k - 1 \in b, f[k - 1])
        BY <1>2, <4>1
      <4>4. rule[k] = (k - 1 \in a \cap b \/ (k - 1 \in a \cup b /\ f[k - 1]))
        BY ONLY <3>2, <4>2, Zenon
      <4>5. Majority(k - 1 \in a, k - 1 \in b, f[k - 1])
            = (k - 1 \in a \cap b \/ (k - 1 \in a \cup b /\ f[k - 1]))
        BY ONLY Zenon DEF Majority
      <4> QED
        BY ONLY <4>3, <4>4, <4>5, Zenon
    <3> QED
      BY <3>1, <3>2
  <2> HIDE DEF rule
  <2>3. f = rule
    BY <2>1, <2>2
  <2> QED
    BY <2>3 DEF rule
<1> DEFINE g == CHOOSE h : h = Rule(h)
<1>4. g = Rule(g)
  BY <1>3
<1>5. Carries(a, b) = g
  BY DEF Carries
<1> HIDE DEF g
<1>6. g[0] = FALSE
  BY <1>4
<1>7. ASSUME NEW k \in 0 .. 31 PROVE g[k + 1] = Majority(k \in a, k \in b, g[k])
  <2>1. k + 1 \in 0 .. 32 /\ k + 1 # 0 /\ (k + 1) - 1 = k
    BY ONLY k \in 0 .. 31
  <2> DEFINE j == k + 1
             rule == Rule(g)
  <2>2. rule[j] = IF j = 0 THEN FALSE ELSE (j - 1 \in a \cap b \/ (j - 1 \in a \cup b /\ g[j - 1]))
    BY <2>1, Zenon
  <2> HIDE DEF rule
  <2>3. g[k + 1] = (k \in a \cap b \/ (k \in a \cup b /\ g[k]))
    <3>1. g = rule
      BY <1>4 DEF rule
    <3> HIDE DEF Rule
    <3> QED
      BY ONLY <2>1, <2>2, <3>1, Zenon
  <2> QED
    BY ONLY <2>3, Zenon DEF Majority
<1>8. \A k \in 0 .. 32 : g[k] \in BOOLEAN
  <2> TAKE k \in 0 .. 32
  <2>1. CASE k = 0
    BY ONLY <1>6, <2>1
  <2>2. CASE k # 0
    <3>1. k - 1 \in 0 .. 31 /\ (k - 1) + 1 = k
      BY ONLY <2>2, k \in 0 .. 32
    <3>2. g[(k - 1) + 1] = Majority(k - 1 \in a, k - 1 \in b, g[k - 1])
      BY <1>7, <3>1
    <3>3. Majority(k - 1 \in a, k - 1 \in b, g[k - 1]) \in BOOLEAN
      BY ONLY Zenon DEF Majority
    <3> QED
      BY ONLY <3>1, <3>2, <3>3
  <2> QED
    BY <2>1, <2>2
<1>9. g \in [0 .. 32 -> BOOLEAN]
  <2>1. g = [k \in 0 .. 32 |-> g[k]]
    BY ONLY <1>4, Zenon
  <2> QED
    BY ONLY <1>8, <2>1
<1>10. ASSUME NEW k \in 0 .. 31 PROVE g[k + 1] <=> Majority(k \in a, k \in b, g[k])
  BY ONLY <1>7, k \in 0 .. 31, Zenon
<1> QED
  BY ONLY <1>5, <1>6, <1>9, <1>10, Zenon

\* One place of the addition: the bits and the carry that come in are the bit
\* and the carry that go out.
Full(c) == IF c THEN 1 ELSE 0

LEMMA FullAdder ==
  ASSUME NEW a, NEW b, NEW k \in 0 .. 31
  PROVE  Bit(a, k) + Bit(b, k) + Full(Carries(a, b)[k])
         = Bit(Add(a, b), k) + 2 * Full(Carries(a, b)[k + 1])
<1> DEFINE c == Carries(a, b)
<1>1. c[k] \in BOOLEAN /\ c[k + 1] \in BOOLEAN
  <2>1. k \in 0 .. 32 /\ k + 1 \in 0 .. 32
    OBVIOUS
  <2>2. c \in [0 .. 32 -> BOOLEAN]
    BY CarryRule, Zenon
  <2> HIDE DEF c
  <2> QED
    BY ONLY <2>1, <2>2
<1>2. c[k + 1] <=> Majority(k \in a, k \in b, c[k])
  BY ONLY CarryRule, k \in 0 .. 31, Zenon
<1>3. k \in Xor(a, b) <=> ~ (k \in a <=> k \in b)
  BY ONLY Zenon DEF Xor
<1>4. k \in Add(a, b) <=> ~ (k \in Xor(a, b) <=> c[k])
  <2>1. k \in Add(a, b) <=> (k \in Xor(a, b)) # c[k]
    BY DEF Add, Bits
  <2> HIDE DEF c
  <2> QED
    BY ONLY <1>1, <2>1, SMT
<1> HIDE DEF c
<1>5. c[k + 1] <=> ((k \in a /\ k \in b) \/ ((k \in a \/ k \in b) /\ c[k]))
  BY ONLY <1>1, <1>2, Zenon DEF Majority
<1>6. CASE c[k]
  <2>2. k \in Add(a, b) <=> k \notin Xor(a, b)
    BY ONLY <1>4, <1>6, Zenon
  <2>3. c[k + 1] <=> (k \in a \/ k \in b)
    BY ONLY <1>5, <1>6, Zenon
  <2>4. Full(c[k + 1]) = IF k \in a \/ k \in b THEN 1 ELSE 0
    BY ONLY <2>3, Zenon DEF Full
  <2>5. Full(c[k]) = 1
    BY ONLY <1>6, Zenon DEF Full
  <2>6. Bit(a, k) + Bit(b, k) + Full(c[k]) = Bit(Add(a, b), k) + 2 * Full(c[k + 1])
    BY ONLY <1>3, <2>2, <2>4, <2>5 DEF Bit
  <2> QED
    BY ONLY <2>6 DEF c
<1>7. CASE ~ c[k]
  <2>2. k \in Add(a, b) <=> k \in Xor(a, b)
    BY ONLY <1>4, <1>7, Zenon
  <2>3. c[k + 1] <=> (k \in a /\ k \in b)
    BY ONLY <1>5, <1>7, Zenon
  <2>4. Full(c[k + 1]) = IF k \in a /\ k \in b THEN 1 ELSE 0
    BY ONLY <2>3, Zenon DEF Full
  <2>5. Full(c[k]) = 0
    BY ONLY <1>7, Zenon DEF Full
  <2>6. Bit(a, k) + Bit(b, k) + Full(c[k]) = Bit(Add(a, b), k) + 2 * Full(c[k + 1])
    BY ONLY <1>3, <2>2, <2>4, <2>5 DEF Bit
  <2> QED
    BY ONLY <2>6 DEF c
<1> QED
  BY ONLY <1>6, <1>7

\* The sum wraps: it is that of the integers, or 2^32 above or below it.
LEMMA AddLemma ==
  ASSUME NEW a, NEW b
  PROVE  /\ Add(a, b) \in Words
         /\ ValueOf(Add(a, b)) - ValueOf(a) - ValueOf(b) \in {0, 2 * TMin, -2 * TMin}
<1> DEFINE s == Add(a, b)
           c == Carries(a, b)
<1>1. PICK t : Numeral(t, {31})
  BY NumeralOf
<1>2. PICK va : Numeral(va, a) /\ ValueOf(a) = va[0]
  BY NumeralOf
<1>3. PICK vb : Numeral(vb, b) /\ ValueOf(b) = vb[0]
  BY NumeralOf
<1>4. PICK vs : Numeral(vs, s) /\ ValueOf(s) = vs[0]
  BY NumeralOf
<1> DEFINE Off(k) == vs[k] - va[k] - vb[k] - Full(c[k])
           S == {k \in 0 .. 31 : Off(k) \in {0, 2 * t[k], -2 * t[k]}}
<1>5. \A k \in 0 .. 31 : /\ Bit(a, k) \in {0, 1} /\ Bit(b, k) \in {0, 1} /\ Bit(s, k) \in {0, 1}
                         /\ Full(c[k]) \in {0, 1} /\ Full(c[k + 1]) \in {0, 1}
                         /\ Bit(a, k) + Bit(b, k) + Full(c[k]) = Bit(s, k) + 2 * Full(c[k + 1])
  <2>1. \A p : Full(p) \in {0, 1}
    BY DEF Full
  <2> QED
    BY <2>1, BitType, FullAdder
<1>6. \A k \in 0 .. 31 : va[k] \in Int /\ vb[k] \in Int /\ vs[k] \in Int
  BY <1>2, <1>3, <1>4 DEF Numeral
<1> HIDE DEF s, c
<1>7. 31 \in S
  <2>1. va[31] = -Bit(a, 31) /\ vb[31] = -Bit(b, 31) /\ vs[31] = -Bit(s, 31) /\ t[31] = -1
    BY <1>1, <1>2, <1>3, <1>4, Weights DEF Numeral
  <2>2. /\ Bit(a, 31) \in {0, 1} /\ Bit(b, 31) \in {0, 1} /\ Bit(s, 31) \in {0, 1}
        /\ Full(c[31]) \in {0, 1} /\ Full(c[31 + 1]) \in {0, 1}
        /\ Bit(a, 31) + Bit(b, 31) + Full(c[31]) = Bit(s, 31) + 2 * Full(c[31 + 1])
    BY <1>5
  <2>3. Off(31) \in {0, 2 * t[31], -2 * t[31]}
    BY ONLY <2>1, <2>2
  <2> QED
    BY <2>3
<1>8. ASSUME NEW k \in 0 .. 30, k + 1 \in S PROVE k \in S
  <2>1. va[k] = 2 * va[k + 1] + Bit(a, k) /\ vb[k] = 2 * vb[k + 1] + Bit(b, k)
        /\ vs[k] = 2 * vs[k + 1] + Bit(s, k)
    BY <1>2, <1>3, <1>4 DEF Numeral
  <2>2. t[k] = 2 * t[k + 1] /\ t[k + 1] \in Int
    BY <1>1, Weights
  <2>3. /\ Bit(a, k) \in {0, 1} /\ Bit(b, k) \in {0, 1} /\ Bit(s, k) \in {0, 1}
        /\ Full(c[k]) \in {0, 1} /\ Full(c[k + 1]) \in {0, 1}
        /\ Bit(a, k) + Bit(b, k) + Full(c[k]) = Bit(s, k) + 2 * Full(c[k + 1])
    BY <1>5
  <2>4. va[k + 1] \in Int /\ vb[k + 1] \in Int /\ vs[k + 1] \in Int
    BY <1>6
  <2>5. Off(k) = 2 * Off(k + 1)
    BY ONLY <2>1, <2>3, <2>4
  <2>6. Off(k + 1) \in {0, 2 * t[k + 1], -2 * t[k + 1]}
    BY <1>8
  <2>7. Off(k) \in {0, 2 * t[k], -2 * t[k]}
    <3> HIDE DEF Off
    <3> QED
      BY ONLY <2>2, <2>5, <2>6
  <2> QED
    BY <2>7
<1>9. \A k \in 0 .. 31 : k \in S
  <2> HIDE DEF S
  <2> QED
    BY <1>7, <1>8, Downward
<1>10. Off(0) \in {0, 2 * t[0], -2 * t[0]}
  BY <1>9
<1>11. Full(c[0]) = 0 /\ t[0] = TMin /\ va[0] \in Int /\ vb[0] \in Int /\ vs[0] \in Int
  <2>1. ~ c[0]
    BY CarryRule, Zenon DEF c
  <2>2. Full(c[0]) = 0
    BY ONLY <2>1, Zenon DEF Full
  <2> QED
    BY <1>1, <1>6, <2>2, Weights
<1>12. vs[0] - va[0] - vb[0] \in {0, 2 * TMin, -2 * TMin}
  BY ONLY <1>10, <1>11
<1>13. s \in Words
  BY DEF s, Add, Words
<1> QED
  BY <1>2, <1>3, <1>4, <1>12, <1>13 DEF s

(***************************************************************************)
(* The arithmetic of the solutions                                         *)
(***************************************************************************)
LEMMA MinusOneLemma == ValueOf(minusOne) = test_minusOne
BY ValueNot, SmallValues DEF minusOne, test_minusOne

\* The least integer wraps to itself.
LEMMA NegateLemma ==
  ASSUME NEW a
  PROVE  negate(a) \in Words /\ ValueOf(negate(a)) = test_negate(a)
<1> DEFINE s == negate(a)
<1>1. s \in Words /\ ValueOf(s) - ValueOf(Not(a)) - ValueOf({0}) \in {0, 2 * TMin, -2 * TMin}
  BY AddLemma DEF negate
<1>2. ValueOf(Not(a)) = -1 - ValueOf(a) /\ ValueOf({0}) = 1
  BY ValueNot, SmallValues
<1>3. ValueOf(s) \in TMin .. TMax /\ ValueOf(a) \in TMin .. TMax
  BY ValueRange
<1> HIDE DEF s
<1>4. ValueOf(s) + ValueOf(a) \in {0, 2 * TMin, -2 * TMin}
  BY ONLY <1>1, <1>2, <1>3, RangeEnds
<1>5. ValueOf(s) = IF ValueOf(a) = TMin THEN TMin ELSE -ValueOf(a)
  BY ONLY <1>3, <1>4, RangeEnds
<1> QED
  BY <1>1, <1>5 DEF s, test_negate

\* Of all words only {SignBit} stands for TMin.
LEMMA LeastWord ==
  ASSUME NEW a \in Words, ValueOf(a) = TMin
  PROVE  a = {SignBit}
<1>1. PICK t : Numeral(t, {31}) /\ ValueOf({31}) = t[0]
  BY NumeralOf
<1>2. ValueOf({31}) = TMin
  BY <1>1, Weights
<1>3. {31} \in Words
  BY DEF Words, Bits
<1>4. a = {31}
  BY <1>2, <1>3, ValueInjective
<1> QED
  BY <1>4 DEF SignBit

\* One of the terms of absVal's sum is 0, as sign is all ones or none.
LEMMA AbsValLemma ==
  ASSUME NEW a \in Words, a # {SignBit}
  PROVE  ValueOf(absVal(a)) = test_absVal(a)
<1> DEFINE sign == Sar(a \cap Shift80, 31)
           s == absVal(a)
<1>0. \A b : b \in a \cap Shift80 <=> b = 31 /\ 31 \in a
  BY DEF Shift80, Shl, Bits
<1>1. \A b : b \in sign <=> b \in 0 .. 31 /\ 31 \in a
  BY <1>0 DEF Sar, Bits, SignBit
<1>2. s = Add(sign \cap negate(a), Not(sign) \cap a)
  BY DEF absVal
<1>3. a \subseteq 0 .. 31 /\ negate(a) \subseteq 0 .. 31
  BY NegateLemma DEF Words, Bits
<1>4. ValueOf(a) # TMin
  BY LeastWord
<1>5. ValueOf(s) \in TMin .. TMax /\ ValueOf(a) \in TMin .. TMax
  BY ValueRange
<1>6. CASE 31 \in a
  <2>1. sign \cap negate(a) = negate(a) /\ Not(sign) \cap a = {}
    BY <1>1, <1>3, <1>6 DEF Not, Bits
  <2>2. s = Add(negate(a), {})
    BY <1>2, <2>1
  <2>3. ValueOf(s) - ValueOf(negate(a)) - ValueOf({}) \in {0, 2 * TMin, -2 * TMin}
    BY <2>2, AddLemma
  <2>4. ValueOf(negate(a)) = -ValueOf(a) /\ ValueOf({}) = 0 /\ ValueOf(a) < 0
    BY <1>4, <1>6, NegateLemma, SmallValues, ValueRange DEF test_negate
  <2> HIDE DEF s
  <2>5. ValueOf(s) = -ValueOf(a)
    BY ONLY <1>4, <1>5, <2>3, <2>4, RangeEnds
  <2> QED
    BY <2>4, <2>5 DEF s, test_absVal
<1>7. CASE 31 \notin a
  <2>0. \A b : b \notin sign
    BY ONLY <1>1, <1>7, Zenon
  <2>1. sign \cap negate(a) = {} /\ Not(sign) \cap a = a
    <3>1. Bits = 0 .. 31
      BY DEF Bits
    <3> HIDE DEF sign
    <3>2. sign \cap negate(a) = {}
      BY ONLY <2>0
    <3>3. Not(sign) \cap a = a
      BY ONLY <1>3, <2>0, <3>1 DEF Not
    <3> QED
      BY ONLY <3>2, <3>3
  <2>2. s = Add({}, a)
    BY <1>2, <2>1
  <2>3. ValueOf(s) - ValueOf({}) - ValueOf(a) \in {0, 2 * TMin, -2 * TMin}
    BY <2>2, AddLemma
  <2>4. ValueOf({}) = 0 /\ ~ (ValueOf(a) < 0)
    BY <1>7, SmallValues, ValueRange
  <2> HIDE DEF s
  <2>5. ValueOf(s) = ValueOf(a)
    BY ONLY <1>4, <1>5, <2>3, <2>4, RangeEnds
  <2> QED
    BY <2>4, <2>5 DEF s, test_absVal
<1> QED
  BY <1>6, <1>7

LEMMA IsZeroLemma ==
  ASSUME NEW a \in Words
  PROVE  (isZero(a) = {0}) = test_isZero(a) /\ isZero(a) \subseteq {0}
<1>1. {} \in Words
  BY DEF Words
<1>2. ValueOf(a) = 0 <=> a = {}
  BY <1>1, SmallValues, ValueInjective
<1> QED
  BY <1>2 DEF isZero, BoolWord, test_isZero

\* The sum has the sign of one of its terms unless it wrapped.
LEMMA AddOKLemma ==
  ASSUME NEW a \in Words, NEW b \in Words
  PROVE  (addOK(a, b) = {0}) = test_addOK(a, b) /\ addOK(a, b) \subseteq {0}
<1> DEFINE s == Add(a, b)
           matches(c) == Xor(s \cap Shift80, Not(c \cap Shift80)) \cap Shift80
           ok == matches(a) \cup matches(b) # {}
<1>1. \A k : k \in Shift80 <=> k = 31
  BY DEF Shift80, Shl, Bits
<1>2. ASSUME NEW c PROVE \A k : k \in matches(c) <=> k = 31 /\ (31 \in s <=> 31 \in c)
  <2> HIDE DEF s
  <2> QED
    BY <1>1 DEF Xor, Not, Bits
<1>3. ok <=> (31 \in s <=> 31 \in a) \/ (31 \in s <=> 31 \in b)
  <2>1. \A k : k \in matches(a) <=> k = 31 /\ (31 \in s <=> 31 \in a)
    BY <1>2
  <2>2. \A k : k \in matches(b) <=> k = 31 /\ (31 \in s <=> 31 \in b)
    BY <1>2
  <2> HIDE DEF matches, s
  <2> QED
    BY <2>1, <2>2
<1>4. addOK(a, b) = BoolWord(ok)
  BY DEF addOK
<1>5. ValueOf(s) - ValueOf(a) - ValueOf(b) \in {0, 2 * TMin, -2 * TMin}
  BY AddLemma
<1> HIDE DEF s, ok
<1>6. /\ ValueOf(s) \in TMin .. TMax /\ (ValueOf(s) < 0 <=> 31 \in s)
      /\ ValueOf(a) \in TMin .. TMax /\ (ValueOf(a) < 0 <=> 31 \in a)
      /\ ValueOf(b) \in TMin .. TMax /\ (ValueOf(b) < 0 <=> 31 \in b)
  BY ValueRange
<1>7. test_addOK(a, b) <=> ok
  <2> DEFINE u == ValueOf(a)
             v == ValueOf(b)
             w == ValueOf(s)
             fits == IF u < 0 THEN v >= TMin - u ELSE v <= TMax - u
  <2>1. u \in TMin .. TMax /\ v \in TMin .. TMax /\ w \in TMin .. TMax
    BY <1>6
  <2>2. w - u - v \in {0, 2 * TMin, -2 * TMin}
    BY <1>5
  <2>3. ok <=> (w < 0 <=> u < 0) \/ (w < 0 <=> v < 0)
    BY ONLY <1>3, <1>6
  <2> HIDE DEF u, v, w
  <2>4. fits <=> (w < 0 <=> u < 0) \/ (w < 0 <=> v < 0)
    BY ONLY <2>1, <2>2, RangeEnds
  <2>5. test_addOK(a, b) <=> fits
    BY DEF test_addOK, u, v
  <2> HIDE DEF fits
  <2> QED
    BY ONLY <2>3, <2>4, <2>5
<1>8. addOK(a, b) \subseteq {0} /\ (addOK(a, b) = {0} <=> ok)
  BY ONLY <1>4 DEF BoolWord
<1>9. (addOK(a, b) = {0}) = test_addOK(a, b)
  <2> DEFINE word == addOK(a, b)
             u == ValueOf(a)
             v == ValueOf(b)
  <2>1. u \in Int /\ v \in Int /\ TMin \in Int /\ TMax \in Int
    BY <1>6, RangeEnds
  <2>2. word = {0} <=> IF u < 0 THEN v >= TMin - u ELSE v <= TMax - u
    BY <1>7, <1>8 DEF test_addOK
  <2> HIDE DEF word, u, v
  <2>3. (word = {0}) = IF u < 0 THEN v >= TMin - u ELSE v <= TMax - u
    BY ONLY <2>1, <2>2
  <2> QED
    BY <2>3 DEF test_addOK, word, u, v
<1> QED
  BY ONLY <1>8, <1>9

(***************************************************************************)
(* The calls                                                               *)
(***************************************************************************)

\* What a call leaves alone: its arguments are those of the test set, and a
\* result is the one of the solution for them.
ArgsInv ==
    /\ x \in Words /\ y \in Words
    /\ puzzle = "bitMask" => hi \in 0 .. 31 /\ lo \in 0 .. 31
    /\ puzzle = "getByte" => hi \in 0 .. 3
    /\ puzzle = "absVal" => x # {SignBit}

ResultInv ==
    /\ Solved("minusOne") => result = minusOne
    /\ Solved("isZero") => result = isZero(x)
    /\ Solved("getByte") => result = getByte(x, hi)
    /\ Solved("negate") => result = negate(x)
    /\ Solved("addOK") => result = addOK(x, y)
    /\ Solved("bitMask") => result = bitMask(hi, lo)
    /\ Solved("absVal") => result = absVal(x)
    /\ Solved("greatestBitPos") => result = greatestBitPos(x)

\* Every solution that is called returns what bits.c computes from its own
\* arguments.
LEMMA InvLemma == Spec => [](ArgsInv /\ ResultInv)
<1>1. Init => ArgsInv /\ ResultInv
  BY WordAssumption DEF Init, ArgsInv, ResultInv, Solved, Words, Bits
<1>2. ArgsInv /\ ResultInv /\ [Next]_vars => (ArgsInv /\ ResultInv)'
  <2> SUFFICES ASSUME ArgsInv, ResultInv, [Next]_vars
               PROVE  (ArgsInv /\ ResultInv)'
    OBVIOUS
  <2>1. CASE UNCHANGED vars
    BY <2>1 DEF vars, ArgsInv, ResultInv, Solved
  <2>2. ASSUME NEW name, NEW word, Solve(name, word) PROVE ArgsInv'
    BY <2>2 DEF Solve, ArgsInv
  <2>3. CASE Next
    <3> USE DEF Solve, ResultInv, Solved
    <3>1. CASE Solve("minusOne", minusOne)
      BY <2>2, <3>1
    <3>2. CASE Solve("isZero", isZero(x))
      BY <2>2, <3>2
    <3>3. CASE Solve("getByte", getByte(x, hi))
      BY <2>2, <3>3
    <3>4. CASE Solve("negate", negate(x))
      BY <2>2, <3>4
    <3>5. CASE Solve("addOK", addOK(x, y))
      BY <2>2, <3>5
    <3>6. CASE Solve("bitMask", bitMask(hi, lo))
      BY <2>2, <3>6
    <3>7. CASE Solve("absVal", absVal(x))
      BY <2>2, <3>7
    <3>8. CASE Solve("greatestBitPos", greatestBitPos(x))
      BY <2>2, <3>8
    <3>9. CASE UNCHANGED vars
      BY <2>1, <3>9
    <3> QED
      BY <2>3, <3>1, <3>2, <3>3, <3>4, <3>5, <3>6, <3>7, <3>8, <3>9 DEF Next
  <2> QED
    BY <2>1, <2>3
<1> QED
  BY <1>1, <1>2, PTL DEF Spec

\* getByte and greatestBitPos are right for every word of 32 bits and bitMask for
\* every pair of positions, whichever words are tested.
THEOREM PatternsCorrect == Spec => []PatternsRight
<1>1. ArgsInv /\ ResultInv => PatternsRight
  BY GetByteLemma, BitMaskLemma, GreatestBitLemma
  DEF ArgsInv, ResultInv, PatternsRight, Solved
<1> QED
  BY <1>1, InvLemma, PTL

\* minusOne, negate, absVal, isZero and addOK agree with the integers for every
\* word of 32 bits: negate wraps at TMin, and addOK fails just for the sums that
\* do not fit, whatever the signs of the terms and of the sum.
THEOREM ArithmeticCorrect == Spec => []ArithmeticRight
<1>1. ArgsInv /\ ResultInv => ArithmeticRight
  <2> SUFFICES ASSUME ArgsInv, ResultInv PROVE ArithmeticRight
    OBVIOUS
  <2>0. x \in Words /\ y \in Words /\ (puzzle = "absVal" => x # {SignBit})
    BY DEF ArgsInv
  <2>1. Solved("minusOne") => ValueOf(result) = test_minusOne
    BY MinusOneLemma DEF ResultInv
  <2>2. Solved("negate") => ValueOf(result) = test_negate(x)
    BY NegateLemma DEF ResultInv
  <2>3. Solved("absVal") => ValueOf(result) = test_absVal(x)
    BY <2>0, AbsValLemma DEF ResultInv, Solved
  <2>4. Solved("isZero") => (result = {0}) = test_isZero(x) /\ result \subseteq {0}
    BY <2>0, IsZeroLemma DEF ResultInv
  <2>5. Solved("addOK") => (result = {0}) = test_addOK(x, y) /\ result \subseteq {0}
    BY <2>0, AddOKLemma DEF ResultInv
  <2> QED
    BY <2>1, <2>2, <2>3, <2>4, <2>5 DEF ArithmeticRight
<1> QED
  BY <1>1, InvLemma, PTL

=============================================================================
