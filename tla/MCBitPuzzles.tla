---------------------------- MODULE MCBitPuzzles ----------------------------
(***************************************************************************)
(* Words for TLC.  Runs of ones meet every pair of bits at which a carry   *)
(* starts and ends; with one more bit, and complemented, they meet every   *)
(* level of the search of greatestBitPos with lower bits set or not.       *)
(***************************************************************************)
EXTENDS BitPuzzles

Runs   == {l .. h : l, h \in Bits}
Sparse == {{b, c} : b, c \in Bits}
SomeWords == Runs \cup Sparse \cup {Not(w) : w \in Runs \cup Sparse}

Ends == {0, 1, 15, 29, 30, 31}
SomeTerms ==
    LET some == {{b, c} : b, c \in Ends} \cup {l .. h : l, h \in Ends}
    IN some \cup {Not(w) : w \in some}

=============================================================================
