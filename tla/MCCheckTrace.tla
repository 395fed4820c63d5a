---------------------------- MODULE MCCheckTrace -----------------------------
(***************************************************************************)
(* The traces of the generators for TLC: a few iterations of each, and     *)
(* every random trace of up to three blocks.                               *)
(***************************************************************************)
EXTENDS CheckTrace

GeneratedTraces ==
    {gen_binary(n, 1, 2) : n \in 1 .. 2}
    \cup {gen_coalescing(n, 1) : n \in 1 .. 3}
    \cup {gen_realloc(n, 2, 1, 1) : n \in 1 .. 4}
    \cup UNION {gen_random(n, {0, 1}) : n \in 1 .. 3}

=============================================================================
