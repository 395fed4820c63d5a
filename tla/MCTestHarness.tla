--------------------------- MODULE MCTestHarness ----------------------------
(***************************************************************************)
(* Puzzles for TLC: with no to three arguments, right, wrong at the first, *)
(* a middle or the last combination, next to a bound of a large range or   *)
(* far from all bounds, and with one that does not return.                 *)
(***************************************************************************)
EXTENDS TestHarness

To(min, max) == [min |-> min, max |-> max]

Puzzle(rating, ranges, wrong, hangs) ==
    [rating |-> rating, ranges |-> ranges, wrong |-> wrong, hangs |-> hangs]

Puzzles ==
    << Puzzle(1, <<>>, {}, {}),
       Puzzle(2, <<To(0, 1), To(0, 2)>>, {<<1, 2>>}, {}),
       Puzzle(3, <<To(-1, 0), To(0, 1), To(0, 1)>>, {}, {}),
       Puzzle(2, <<To(0, 1), To(0, 1), To(8, 9)>>, {<<1, 1, 9>>}, {}),
       Puzzle(1, <<To(-14, 14)>>, {<<6>>}, {}),
       Puzzle(1, <<To(-20, 9)>>, {<<8>>}, {}),
       Puzzle(2, <<To(0, 1), To(0, 1)>>, {}, {<<1, 1>>}),
       Puzzle(4, <<To(0, 2)>>, {<<2>>}, {<<1>>}),
       Puzzle(1, <<To(5, 5)>>, {}, {}) >>

All  == DOMAIN Puzzles
Some == {1, 5, 8, 9}
AllBut7 == All \ {7}
DrawnValues == {2, 6}

=============================================================================
