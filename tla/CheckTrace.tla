----------------------------- MODULE CheckTrace -----------------------------
(***************************************************************************)
(* labs/malloclab/traces/checktrace.pl: reads a trace, rejects it when its *)
(* requests do not fit together, and prints it with the free requests that *)
(* balance it, or with -s one line that says whether it is balanced.       *)
(*                                                                         *)
(* A step is one turn of the reading loop or of the loop that prints the   *)
(* missing frees.  The sizes, which nobody reads, and the other fields of  *)
(* the header are passed through.  The script prints the missing frees in  *)
(* the order of the ids; here any order may come.  The input is a trace of *)
(* TraceGenerators or is typed by hand, line after line.                   *)
(***************************************************************************)
EXTENDS TraceGenerators, FiniteSets

CONSTANTS
    Ids,          \* the ids of the requests typed by hand
    Commands,     \* what these lines may begin with; "" is a blank line
    MaxLines,     \* bound on the number of these lines
    Generated     \* the traces of the generators that may be given

ASSUME InputAssumption ==
    /\ {"a", "r", "f"} \subseteq Commands
    /\ MaxLines \in Nat
    /\ \A s \in Generated :
        /\ s.by # "hand"
        /\ s.num_ops \in Nat
        /\ s.requests \in Seq([cmd : {"a", "r", "f"}, id : Nat, size : Nat])

VARIABLES
    script,       \* the input: a generated trace, or a header typed by hand
    pc,           \* "read", "free", "done", "summary" or "die"
    HASH,         \* function from the ids with an entry to commands
    lines,        \* the requests read, blank lines skipped
    new_num_ops,  \* the header that is printed
    opt_s,        \* option -s
    residue,      \* keys of HASH still to be printed
    out,          \* requests printed
    verdict       \* the line printed with -s

vars == <<script, pc, HASH, lines, new_num_ops, opt_s, residue, out, verdict>>

ByHand(num_ops) == Trace("hand", Cardinality(Ids), num_ops, <<>>)

Init ==
    /\ script \in Generated \cup {ByHand(num_ops) : num_ops \in 0 .. MaxLines}
    /\ pc = "read"
    /\ HASH = <<>>
    /\ lines = <<>>
    /\ new_num_ops = 0
    /\ opt_s \in BOOLEAN
    /\ residue = {}
    /\ out = <<>>
    /\ verdict = "none"

\* What the next line may be, and whether the input may end here.
Typed == script.by = "hand"

Lines ==
    IF Typed
    THEN IF Len(lines) = MaxLines THEN {}
         ELSE [cmd : Commands \ {""}, id : Ids, size : {0}]
    ELSE IF Len(lines) = Len(script.requests) THEN {}
         ELSE {script.requests[Len(lines) + 1]}

EndOfInput == Typed \/ Len(lines) = Len(script.requests)

Has(id) == id \in DOMAIN HASH
Stored(id, cmd) == Has(id) /\ HASH[id] = cmd

\* Fault: a realloc request passes without an entry.
RejectedNoRealloc(cmd, id) ==
    \/ cmd = "a" /\ (Stored(id, "a") \/ Stored(id, "f"))
    \/ cmd = "f" /\ ~Has(id)

\* The tests that end the script.  The precedence of ! over eq in the last one
\* makes it compare a truth value with "f", which never succeeds.
Rejected(cmd, id) ==
    \/ cmd = "r" /\ ~Has(id)
    \/ cmd = "a" /\ Stored(id, "a")
    \/ cmd = "a" /\ Stored(id, "f")
    \/ cmd = "f" /\ ~Has(id)

\* Fault: a free request leaves the entry.
TallyKeepsFreed(cmd, id) ==
    IF cmd \in {"r", "f"} THEN HASH
    ELSE [k \in DOMAIN HASH \cup {id} |-> IF k = id THEN cmd ELSE HASH[k]]

\* HASH once a request has passed: realloc is ignored, free deletes the entry,
\* and everything else stores its command.
Tally(cmd, id) ==
    IF cmd = "r" THEN HASH
    ELSE IF cmd = "f" THEN [k \in DOMAIN HASH \ {id} |-> HASH[k]]
    ELSE [k \in DOMAIN HASH \cup {id} |-> IF k = id THEN cmd ELSE HASH[k]]

ReadBlank ==
    /\ pc = "read"
    /\ Typed
    /\ "" \in Commands
    /\ UNCHANGED vars

ReadRequest ==
    /\ pc = "read"
    /\ \E line \in Lines :
        /\ lines' = Append(lines, line)
        /\ \/ Rejected(line.cmd, line.id) /\ pc' = "die" /\ UNCHANGED HASH
           \/ /\ ~Rejected(line.cmd, line.id)
              /\ HASH' = Tally(line.cmd, line.id)
              /\ UNCHANGED pc
    /\ UNCHANGED <<script, new_num_ops, opt_s, residue, out, verdict>>

\* The end of the input with -s.
Summary ==
    /\ pc = "read"
    /\ EndOfInput
    /\ opt_s
    /\ verdict' = IF DOMAIN HASH = {} THEN "balanced" ELSE "unbalanced"
    /\ pc' = "summary"
    /\ UNCHANGED <<script, HASH, lines, new_num_ops, opt_s, residue, out>>

\* Fault: the keys that are left are not counted.
NewOpsNone == 0

new_ops == Cardinality(DOMAIN HASH)

\* The end of the input without -s: the header and the old requests.
PrintRequests ==
    /\ pc = "read"
    /\ EndOfInput
    /\ ~opt_s
    /\ new_num_ops' = script.num_ops + new_ops
    /\ out' = lines
    /\ residue' = DOMAIN HASH
    /\ pc' = "free"
    /\ UNCHANGED <<script, HASH, lines, opt_s, verdict>>

PrintFree ==
    /\ pc = "free"
    /\ \E key \in residue :
        IF HASH[key] \notin {"a", "r"}
        THEN pc' = "die" /\ UNCHANGED <<residue, out>>
        ELSE /\ out' = Append(out, f(key))
             /\ residue' = residue \ {key}
             /\ UNCHANGED pc
    /\ UNCHANGED <<script, HASH, lines, new_num_ops, opt_s, verdict>>

Exit ==
    /\ pc = "free"
    /\ residue = {}
    /\ pc' = "done"
    /\ UNCHANGED <<script, HASH, lines, new_num_ops, opt_s, residue, out, verdict>>

Ended == pc \in {"done", "summary", "die"} /\ UNCHANGED vars

Next ==
    \/ ReadBlank \/ ReadRequest \/ Summary
    \/ PrintRequests \/ PrintFree \/ Exit
    \/ Ended

Spec == Init /\ [][Next]_vars

(***************************************************************************)
(* Properties, against the meaning of a trace that the README of the       *)
(* traces gives: a is ptr = malloc(), r realloc(ptr) and f free(ptr).      *)
(***************************************************************************)
\* The ids in use after the first n requests of a trace.
InUse(trace, n) ==
    {trace[k].id : k \in {k \in 1 .. n :
        /\ trace[k].cmd = "a"
        /\ \A j \in k .. n : trace[j].cmd = "f" => trace[j].id # trace[k].id}}

Legal(trace) ==
    \A n \in DOMAIN trace :
        IF trace[n].cmd = "a" THEN trace[n].id \notin InUse(trace, n - 1)
                              ELSE trace[n].id \in InUse(trace, n - 1)

WellFormed(trace) == \A n \in DOMAIN trace : trace[n].cmd \in {"a", "r", "f"}

\* A trace of allocate, realloc and free requests is refused while it is read
\* exactly when one of its requests does not fit: an allocation of an id in
\* use, or a realloc or free of one that is not.
RefusedExactly ==
    WellFormed(lines) => (pc = "die" <=> ~Legal(lines))

\* The trace that is printed is balanced: it is legal when the input was well
\* formed, and no id is in use at its end, whatever lines the input had; and
\* -s calls a well formed trace balanced exactly when it is.
OutputBalanced ==
    /\ pc = "done" =>
        /\ InUse(out, Len(out)) = {}
        /\ WellFormed(lines) => Legal(out)
    /\ (pc = "summary" /\ WellFormed(lines)) =>
        (verdict = "balanced" <=> InUse(lines, Len(lines)) = {})

\* The header that is printed counts the requests that are printed, if the
\* header of the input counted those of the input.
HeaderStaysRight ==
    (pc = "done" /\ script.num_ops = Len(lines)) => new_num_ops = Len(out)

\* What the Makefile makes of every generated trace is one that read_trace of
\* mdriver.c accepts: the requests fit together, the header promises as many as
\* there are once the missing frees are added, and the ids run up to num_ids.
GeneratedReadable ==
    ~Typed =>
        /\ pc # "die"
        /\ pc = "done" =>
            /\ new_num_ops = Len(out)
            /\ {out[k].id : k \in DOMAIN out} = 0 .. script.num_ids - 1

\* The script's own message "reused ID": a trace of allocate, realloc and free
\* requests that frees an id and allocates it again later is not accepted.
ReusedIdRefused ==
    (pc \in {"free", "done", "summary"} /\ WellFormed(lines)) =>
        \A m, n \in DOMAIN lines :
            (m < n /\ lines[m].cmd = "f" /\ lines[n].cmd = "a")
                => lines[m].id # lines[n].id

=============================================================================
