--------------------------- MODULE MCTraceDriver ----------------------------
(***************************************************************************)
(* Trace files and sessions for TLC.  The files are small traces of the    *)
(* form the README in labs/malloclab/traces gives, an id is allocated      *)
(* before it is reallocated or freed, and traces of the generators.        *)
(***************************************************************************)
EXTENDS TraceDriver

Scripts == INSTANCE TraceGenerators

A(id, size) == [type |-> "ALLOC", index |-> id, size |-> size]
R(id, size) == [type |-> "REALLOC", index |-> id, size |-> size]
F(id)       == [type |-> "FREE", index |-> id, size |-> 0]

File(ops) == [num_ids |-> Max(Indexes(ops)) + 1, num_ops |-> Len(ops), ops |-> ops]

\* One block, reuse of a freed block, growing and shrinking reallocations, blocks that
\* are left at the end.
Balanced   == File(<<A(0, 2), A(1, 3), F(0), A(2, 1), F(1), F(2)>>)
Single     == File(<<A(0, 3), F(0)>>)
Reused     == File(<<A(0, 5), F(0), A(1, 5), F(1)>>)
Growing    == File(<<A(0, 1), A(1, 2), R(0, 3), F(1), R(0, 1), F(0)>>)
Unbalanced == File(<<A(0, 2), R(0, 4), A(1, 2)>>)
\* A file that was cut off: its header promises one request more; and one
\* without requests.
CutOff     == [File(<<A(0, 2)>>) EXCEPT !.num_ops = 2]
Empty      == [num_ids |-> 0, num_ops |-> 0, ops |-> <<>>]
\* Sizes that are no int, which is at most 7 here.
Huge       == {File(<<A(0, 9), F(0)>>), File(<<A(0, 1), R(0, 15), F(0)>>)}
\* Every sequence of two requests that allocate, and one more.
Nested     == {File(<<A(0, n), A(1, m), last>>) :
                  n \in {1, 2, 6}, m \in {2, 6}, last \in {F(0), F(1), R(0, 2), R(1, 5)}}
\* Ids from 128 on, whose low byte is negative as a char.
HighId     == File(<<A(128, 2), R(128, 4), F(128)>>)
\* What a script prints, as read_trace reads it.
Read(t)    == [num_ids |-> t.num_ids, num_ops |-> t.num_ops,
               ops |-> [k \in DOMAIN t.requests |->
                           LET line == t.requests[k] IN
                           CASE line.cmd = "a" -> A(line.id, line.size)
                             [] line.cmd = "r" -> R(line.id, line.size)
                             [] line.cmd = "f" -> F(line.id)]]
Generated  == {Read(t) : t \in {Scripts!gen_binary(1, 1, 2), Scripts!gen_coalescing(1, 2),
                                 Scripts!gen_realloc(2, 1, 2, 1)}
                               \cup Scripts!gen_random(2, {0, 3})}

Session(package, files, num, addresses) ==
    [package |-> package, files |-> files, num_tracefiles |-> num, libc |-> addresses]

\* Two files in a row with libc before; one file and any package; one file
\* of one block, that a script wrote or that asks for too much.
TwoFiles      == Session("correct", {Balanced, Reused, Growing, Unbalanced, CutOff} \cup Huge, 2, 100 .. 109)
AnyPackage    == Session("arbitrary", Nested \cup Huge \cup {CutOff, Empty}, 1, {})
ScriptFiles   == Session("correct", {Single} \cup Generated \cup Huge, 1, {})

AllSessions   == {TwoFiles, AnyPackage, ScriptFiles}
HighSessions  == {Session("correct", {HighId}, 1, {})}
AnySessions   == {AnyPackage}

=============================================================================
