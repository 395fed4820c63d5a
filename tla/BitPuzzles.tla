----------------------------- MODULE BitPuzzles -----------------------------
(***************************************************************************)
(* labs/datalab-handout/bits.c: the solutions of the eight puzzles, and    *)
(* tests.c: the functions btest compares them with.                        *)
(*                                                                         *)
(* A word is the set of its bits that are 1, so that ~, &, | and ^ are     *)
(* operations on sets and the width of 32 bits is the real one.  Shifts to *)
(* the right are arithmetic, and sums wrap, as in the build.  A solution   *)
(* works on words; its reference says what the word should be, in terms of *)
(* the integer that the word stands for where C's reference does.          *)
(***************************************************************************)
EXTENDS Integers

CONSTANTS
    Values,     \* words the puzzles of one argument are called with
    Terms       \* words addOK is called with

W == 32
Bits == 0 .. W - 1
Words == SUBSET Bits
SignBit == W - 1

ASSUME WordAssumption == Values \subseteq Words /\ Terms \subseteq Words

VARIABLES
    puzzle,     \* the puzzle that is called
    x,          \* its first argument, a word
    y,          \* its second argument if that is a word
    hi,         \* its arguments that are small numbers: highbit, or n
    lo,         \* lowbit
    result      \* what the solution returns, or None

vars == <<puzzle, x, y, hi, lo, result>>

None == {W}      \* a set of bits that no word has

(***************************************************************************)
(* C's operators on words                                                  *)
(***************************************************************************)
Not(a)    == Bits \ a
Xor(a, b) == (a \ b) \cup (b \ a)
Shl(a, k) == {b \in Bits : b - k \in a}
Sar(a, k) == {b \in Bits : (IF b + k < W THEN b + k ELSE SignBit) \in a}
Truth(a)  == IF a = {} THEN 0 ELSE 1       \* !!a as a number
BoolWord(c) == IF c THEN {0} ELSE {}

\* Carries(a, b)[k] is the carry into bit k of a + b.
Carries(a, b) ==
    LET carry[k \in 0 .. W] ==
            IF k = 0 THEN FALSE
            ELSE \/ k - 1 \in a \cap b
                 \/ k - 1 \in a \cup b /\ carry[k - 1]
    IN carry

Add(a, b) ==
    LET carry == Carries(a, b) IN
    {k \in Bits : (k \in Xor(a, b)) # carry[k]}

Shift80 == Shl({7}, 24)     \* 0x80 << 24

(***************************************************************************)
(* bits.c                                                                  *)
(***************************************************************************)
minusOne == Not({})

isZero(a) == BoolWord(a = {})

getByte(a, n) == Sar(a, 8 * n) \cap (0 .. 7)

negate(a) == Add(Not(a), {0})

\* Fault: the sum must have the sign of both terms.
AddOKBoth(a, b) ==
    LET matches(c) == Xor(Add(a, b) \cap Shift80, Not(c \cap Shift80)) \cap Shift80
    IN BoolWord(matches(a) \cap matches(b) # {})

\* No overflow if the sum has the sign of one of the terms.
addOK(a, b) ==
    LET matches(c) == Xor(Add(a, b) \cap Shift80, Not(c \cap Shift80)) \cap Shift80
    IN BoolWord(matches(a) \cup matches(b) # {})

\* from: ones down to lowbit; above: ones down to highbit + 1, none for 31.
bitMask(highbit, lowbit) ==
    LET from  == Sar(Shift80, 31 - lowbit)
        above == Shl(Sar(Shl(IF highbit # 31 THEN {0} ELSE {}, 31), 31 - highbit), 1)
    IN from \cap Not(above)

absVal(a) ==
    LET sign == Sar(a \cap Shift80, 31)
    IN Add(sign \cap negate(a), Not(sign) \cap a)

\* The bytes above byte 2, 1 and 0: the sign of 0xFF << 24 is shifted in.
mask3 == Shl(0 .. 7, 24)
mask2 == Sar(mask3, 8)
mask1 == Sar(mask2, 8)

\* Fault: the second half of the low hexit is not looked at.
GreatestBitPosNoPair(a) ==
    LET byte  == 8 * (Truth(a \cap mask1) + Truth(a \cap mask2) + Truth(a \cap mask3))
        hexit == byte + 4 * Truth(Sar(a, byte) \cap 4 .. 7)
        bit   == hexit + Truth(Sar(a, hexit) \cap {1})
    IN Shl(Sar(a, bit) \cap {0}, bit)

\* The position of the highest byte that is not 0, then within it of the half,
\* of the pair and of the bit.
greatestBitPos(a) ==
    LET byte  == 8 * (Truth(a \cap mask1) + Truth(a \cap mask2) + Truth(a \cap mask3))
        hexit == byte + 4 * Truth(Sar(a, byte) \cap 4 .. 7)
        pair  == hexit + 2 * Truth(Sar(a, hexit) \cap 2 .. 3)
        bit   == pair + Truth(Sar(a, pair) \cap {1})
    IN Shl(Sar(a, bit) \cap {0}, bit)

(***************************************************************************)
(* tests.c.  TMin is written so that no intermediate result leaves the     *)
(* integers of 32 bits.                                                    *)
(***************************************************************************)
TMax == 2147483647
TMin == -TMax - 1

\* The integer a word stands for: the sign bit counts -1, and each place below
\* doubles what the places above it count.
ValueOf(a) ==
    LET value[k \in Bits] ==
            LET bit == IF k \in a THEN 1 ELSE 0
            IN IF k = SignBit THEN -bit ELSE 2 * value[k + 1] + bit
    IN value[0]

test_minusOne == -1

test_isZero(a) == ValueOf(a) = 0

test_getByte(a, n) == {b \in 0 .. 7 : b + 8 * n \in a}

\* -TMin wraps to TMin.
test_negate(a) == IF ValueOf(a) = TMin THEN TMin ELSE -ValueOf(a)

\* lsum == (int) lsum: the sum of 64 bits lies in TMin .. TMax.
test_addOK(a, b) ==
    IF ValueOf(a) < 0 THEN ValueOf(b) >= TMin - ValueOf(a) ELSE ValueOf(b) <= TMax - ValueOf(a)

test_bitMask(highbit, lowbit) == lowbit .. highbit

test_absVal(a) == IF ValueOf(a) < 0 THEN -ValueOf(a) ELSE ValueOf(a)

\* The loop moves the mask down from bit 31 to the first bit that is set.
test_greatestBitPos(a) == {b \in a : \A c \in a : c <= b}

(***************************************************************************)
(* test_set[] of decl.c: the puzzles with the ranges of their arguments.   *)
(***************************************************************************)
Init ==
    /\ result = None
    /\ \/ puzzle = "minusOne" /\ x = {} /\ y = {} /\ hi = 0 /\ lo = 0
       \/ /\ puzzle \in {"isZero", "negate", "greatestBitPos"}
          /\ x \in Values
          /\ y = {} /\ hi = 0 /\ lo = 0
       \/ /\ puzzle = "absVal"               \* -TMax .. TMax
          /\ x \in Values \ {{SignBit}}
          /\ y = {} /\ hi = 0 /\ lo = 0
       \/ puzzle = "getByte" /\ x \in Values /\ hi \in 0 .. 3 /\ y = {} /\ lo = 0
       \/ puzzle = "addOK" /\ x \in Terms /\ y \in Terms /\ hi = 0 /\ lo = 0
       \/ puzzle = "bitMask" /\ hi \in 0 .. 31 /\ lo \in 0 .. 31 /\ x = {} /\ y = {}

\* The call of a solution by test_0_arg, test_1_arg or test_2_arg.
Solve(name, word) ==
    /\ puzzle = name
    /\ result = None
    /\ result' = word
    /\ UNCHANGED <<puzzle, x, y, hi, lo>>

Next ==
    \/ Solve("minusOne", minusOne)
    \/ Solve("isZero", isZero(x))
    \/ Solve("getByte", getByte(x, hi))
    \/ Solve("negate", negate(x))
    \/ Solve("addOK", addOK(x, y))
    \/ Solve("bitMask", bitMask(hi, lo))
    \/ Solve("absVal", absVal(x))
    \/ Solve("greatestBitPos", greatestBitPos(x))
    \/ result # None /\ UNCHANGED vars

Spec == Init /\ [][Next]_vars

(***************************************************************************)
(* Properties                                                              *)
(***************************************************************************)
Solved(name) == puzzle = name /\ result # None

\* getByte returns a byte of the word as 0 to 255, whatever the sign bit.
\* bitMask is right for all pairs of positions: for a highbit of 31, where the
\* naive shift would be by 32, and for a lowbit above highbit.  greatestBitPos
\* finds the highest bit through all four levels of its search.
PatternsRight ==
    /\ Solved("getByte") => result = test_getByte(x, hi)
    /\ Solved("bitMask") => result = test_bitMask(hi, lo)
    /\ Solved("greatestBitPos") => result = test_greatestBitPos(x)

\* The other solutions agree with the arithmetic of the integers, at the ends
\* of the range too.
ArithmeticRight ==
    /\ Solved("minusOne") => ValueOf(result) = test_minusOne
    /\ Solved("negate") => ValueOf(result) = test_negate(x)
    /\ Solved("absVal") => ValueOf(result) = test_absVal(x)
    /\ Solved("isZero") => (result = {0}) = test_isZero(x) /\ result \subseteq {0}
    /\ Solved("addOK") => (result = {0}) = test_addOK(x, y) /\ result \subseteq {0}

=============================================================================
