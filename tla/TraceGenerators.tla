--------------------------- MODULE TraceGenerators ---------------------------
(***************************************************************************)
(* labs/malloclab/traces/gen_*.pl: the scripts that write the synthetic    *)
(* traces.  Each is an operator of the number of its iterations and of its *)
(* sizes that returns what the script prints: the header, of which the     *)
(* suggested heap size and the weight are left out because nobody reads    *)
(* them, and the request lines.  gen_binary.pl and gen_binary2.pl, and     *)
(* gen_realloc.pl and gen_realloc2.pl, differ in these numbers only.       *)
(***************************************************************************)
EXTENDS Integers, Sequences, SequencesExt

a(id, size) == [cmd |-> "a", id |-> id, size |-> size]
r(id, size) == [cmd |-> "r", id |-> id, size |-> size]
f(id)       == [cmd |-> "f", id |-> id, size |-> 0]

Trace(script, num_blocks, num_ops, requests) ==
    [by |-> script, num_ids |-> num_blocks, num_ops |-> num_ops, requests |-> requests]

\* for ($i = 0; $i < n; $i += 1): what the body prints, one turn after another.
For(n, body(_)) == FlattenSeq([k \in 1 .. n |-> body(k - 1)])

gen_binary(n, size1, size2) ==
    Trace("gen_binary.pl", 3 * n, 4 * n,
          For(n, LAMBDA i : <<a(2 * i, size1), a(2 * i + 1, size2)>>)
          \o For(n, LAMBDA i : <<f(2 * i + 1)>>)
          \o For(n, LAMBDA i : <<a(2 * n + i, size1 + size2)>>))

gen_coalescing(n, size) ==
    Trace("gen_coalescing.pl", 3 * n, 6 * n,
          For(n, LAMBDA i : <<a(3 * i, size), a(3 * i + 1, size),
                              f(3 * i), f(3 * i + 1),
                              a(3 * i + 2, 2 * size), f(3 * i + 2)>>))

\* Block 0 grows while the other blocks come and go.
gen_realloc(n, size, increment, malloc_size) ==
    Trace("gen_realloc.pl", n + 1, 3 * n + 1,
          <<a(0, size), a(1, malloc_size)>>
          \o For(n - 1, LAMBDA i : <<r(0, size + (i + 1) * increment),
                                     a(i + 2, malloc_size), f(i + 1)>>)
          \o <<f(n), f(0)>>)

\* Fault: the free may come before the request it follows.
FreePlacesFromStart(trace, i) == 0 .. Len(trace) - 1

\* Where gen_random.pl may insert the free of block i: behind its allocation
\* and before the last request, or at the end if the allocation is the last
\* one, since rand(0) is rand(1).
FreePlaces(trace, i) ==
    LET minval == SelectInSeq(trace, LAMBDA op : op.cmd = "a" /\ op.id = i) - 1
        last   == Len(trace) - 1
    IN  IF minval = last THEN {last + 1} ELSE minval + 1 .. last

\* The traces once the frees of the first i blocks are inserted.
gen_random(n, sizes) ==
    LET Allocated == {[k \in 1 .. n |-> a(k - 1, size[k])] : size \in [1 .. n -> sizes]}
        Freed[i \in 0 .. n] ==
            IF i = 0 THEN Allocated
            ELSE UNION {{InsertAt(t, pos + 1, f(i - 1)) : pos \in FreePlaces(t, i - 1)} :
                          t \in Freed[i - 1]}
    IN  {Trace("gen_random.pl", n, 2 * n, t) : t \in Freed[n]}

=============================================================================
