-------------------------- MODULE CheckTraceProofs ---------------------------
(***************************************************************************)
(* Proofs about CheckTrace, for input of any length: what checktrace.pl    *)
(* refuses and what it prints, and that the traces of the generators, of   *)
(* any size, are neither refused nor spoilt.                               *)
(***************************************************************************)
EXTENDS CheckTrace, FiniteSetTheorems, SequenceTheorems, NaturalsInduction,
        WellFoundedInduction, TLAPS

(***************************************************************************)
(* Traces that grow by a request                                           *)
(***************************************************************************)
\* The first n requests of a trace do not change when it grows.
LEMMA SamePrefix ==
    ASSUME NEW S, NEW trace \in Seq(S), NEW line \in S
    PROVE  /\ Append(trace, line) \in Seq(S) /\ Len(Append(trace, line)) = Len(trace) + 1
           /\ \A n \in 1 .. Len(trace) : Append(trace, line)[n] = trace[n]
           /\ Append(trace, line)[Len(trace) + 1] = line
           /\ \A n \in 0 .. Len(trace) : InUse(Append(trace, line), n) = InUse(trace, n)
<1>1. /\ Append(trace, line) \in Seq(S) /\ Len(Append(trace, line)) = Len(trace) + 1
      /\ \A n \in 1 .. Len(trace) : Append(trace, line)[n] = trace[n]
      /\ Append(trace, line)[Len(trace) + 1] = line
  OBVIOUS
<1> DEFINE more == Append(trace, line)
<1> HIDE DEF more
<1>2. ASSUME NEW n \in 0 .. Len(trace) PROVE InUse(more, n) = InUse(trace, n)
  <2>1. \A k \in 1 .. n : more[k] = trace[k]
    BY <1>1 DEF more
  <2> QED
    BY <2>1 DEF InUse
<1> QED
  BY <1>1, <1>2 DEF more

\* What the last request does to the ids in use.
LEMMA InUseGrows ==
    ASSUME NEW S, NEW trace \in Seq(S), NEW line \in S
    PROVE  InUse(Append(trace, line), Len(trace) + 1) =
              IF line.cmd = "f" THEN InUse(trace, Len(trace)) \ {line.id}
              ELSE IF line.cmd = "a" THEN InUse(trace, Len(trace)) \cup {line.id}
              ELSE InUse(trace, Len(trace))
<1> DEFINE more == Append(trace, line)
           n    == Len(trace)
<1>1. /\ n \in Nat /\ \A k \in 1 .. n : more[k] = trace[k]
      /\ more[n + 1] = line
  BY SamePrefix
<1> HIDE DEF more, n
<1>2. \A k \in 1 .. n + 1 : k \in 1 .. n \/ k = n + 1
  BY <1>1
<1>3. \A k \in 1 .. n : k \in 1 .. n + 1 /\ n + 1 \in k .. n + 1 /\ k .. n \subseteq k .. n + 1
  BY <1>1
<1>4. n + 1 \in 1 .. n + 1 /\ \A j \in n + 1 .. n + 1 : j = n + 1
  BY <1>1
<1>5. \A k \in 1 .. n : \A j \in k .. n + 1 : j \in k .. n \/ j = n + 1
  BY <1>1
<1>6. \A k \in 1 .. n : \A j \in k .. n : j \in 1 .. n
  BY <1>1
<1>7. ASSUME NEW x
      PROVE  x \in InUse(more, n + 1) <=>
                \/ x \in InUse(trace, n) /\ ~ (line.cmd = "f" /\ line.id = x)
                \/ line.cmd = "a" /\ line.id = x
  <2>1. x \in InUse(more, n + 1) <=>
          \E k \in 1 .. n + 1 : /\ more[k].id = x /\ more[k].cmd = "a"
                                /\ \A j \in k .. n + 1 : more[j].cmd = "f" => more[j].id # more[k].id
    BY DEF InUse
  <2>2. x \in InUse(trace, n) <=>
          \E k \in 1 .. n : /\ trace[k].id = x /\ trace[k].cmd = "a"
                            /\ \A j \in k .. n : trace[j].cmd = "f" => trace[j].id # trace[k].id
    BY DEF InUse
  <2>3. ASSUME NEW k \in 1 .. n
        PROVE  (/\ more[k].id = x /\ more[k].cmd = "a"
                /\ \A j \in k .. n + 1 : more[j].cmd = "f" => more[j].id # more[k].id)
               <=> /\ trace[k].id = x /\ trace[k].cmd = "a"
                   /\ \A j \in k .. n : trace[j].cmd = "f" => trace[j].id # trace[k].id
                   /\ ~ (line.cmd = "f" /\ line.id = x)
    BY <1>1, <1>3, <1>5, <1>6
  <2>4. (/\ more[n + 1].id = x /\ more[n + 1].cmd = "a"
         /\ \A j \in n + 1 .. n + 1 : more[j].cmd = "f" => more[j].id # more[n + 1].id)
        <=> line.cmd = "a" /\ line.id = x
    BY <1>1, <1>4
  <2> QED
    BY <1>2, <1>3, <1>4, <2>1, <2>2, <2>3, <2>4
<1> QED
  BY <1>7 DEF more, n

\* A trace that grows stays legal, or well formed, by its last request.
LEMMA LegalGrows ==
    ASSUME NEW S, NEW trace \in Seq(S), NEW line \in S
    PROVE  /\ Legal(Append(trace, line)) <=>
                 /\ Legal(trace)
                 /\ IF line.cmd = "a" THEN line.id \notin InUse(trace, Len(trace))
                                      ELSE line.id \in InUse(trace, Len(trace))
           /\ WellFormed(Append(trace, line)) <=> WellFormed(trace) /\ line.cmd \in {"a", "r", "f"}
<1> DEFINE more == Append(trace, line)
           n    == Len(trace)
<1>1. /\ n \in Nat /\ \A k \in 1 .. n : more[k] = trace[k]
      /\ more[n + 1] = line
      /\ DOMAIN more = 1 .. n + 1 /\ DOMAIN trace = 1 .. n
      /\ \A k \in 0 .. n : InUse(more, k) = InUse(trace, k)
  BY SamePrefix
<1> HIDE DEF more, n
<1>2. \A k \in 1 .. n + 1 : k \in 1 .. n \/ k = n + 1
  BY <1>1
<1>3. /\ n + 1 \in 1 .. n + 1 /\ (n + 1) - 1 = n /\ n \in 0 .. n
      /\ \A k \in 1 .. n : k \in 1 .. n + 1 /\ k - 1 \in 0 .. n
  BY <1>1
<1>4. Legal(more) <=> /\ Legal(trace)
                      /\ IF line.cmd = "a" THEN line.id \notin InUse(trace, n)
                                           ELSE line.id \in InUse(trace, n)
  BY <1>1, <1>2, <1>3 DEF Legal
<1>5. WellFormed(more) <=> WellFormed(trace) /\ line.cmd \in {"a", "r", "f"}
  BY <1>1, <1>2, <1>3 DEF WellFormed
<1> QED
  BY <1>4, <1>5 DEF more, n

(***************************************************************************)
(* Reading                                                                 *)
(***************************************************************************)
Line == [cmd : Commands \cup {"a", "r", "f"}, id : Ids \cup Nat, size : Nat]

InUseNow == InUse(lines, Len(lines))

\* What has been read and the entries of HASH.
ReadInv ==
    /\ pc \in {"read", "free", "done", "summary", "die"}
    /\ ~Typed => script \in Generated /\ Len(lines) <= Len(script.requests)
    /\ script.num_ops \in Nat
    /\ lines \in Seq(Line)
    /\ DOMAIN HASH \subseteq Ids \cup Nat /\ IsFiniteSet(DOMAIN HASH)
    /\ pc # "die" => InUseNow \subseteq DOMAIN HASH

\* HASH has an entry for every block in use, of a well formed trace for no other.
TallyInv ==
    WellFormed(lines) =>
        /\ pc = "die" => ~Legal(lines)
        /\ pc # "die" => /\ Legal(lines)
                         /\ DOMAIN HASH = InUseNow
                         /\ \A id \in DOMAIN HASH : HASH[id] = "a"

LEMMA NothingRead ==
    /\ <<>> \in Seq(Line) /\ Len(<<>>) = 0 /\ InUse(<<>>, 0) = {}
    /\ WellFormed(<<>>) /\ Legal(<<>>)
  BY DEF InUse, WellFormed, Legal

LEMMA InitRead == Init => ReadInv /\ TallyInv
<1> SUFFICES ASSUME Init PROVE ReadInv /\ TallyInv
  OBVIOUS
<1>1. (~Typed => script \in Generated /\ 0 <= Len(script.requests)) /\ script.num_ops \in Nat
  <2>1. CASE script \in Generated
    BY <2>1, InputAssumption DEF InputAssumption
  <2>2. ASSUME NEW num_ops \in 0 .. MaxLines, script = ByHand(num_ops)
        PROVE  Typed /\ script.num_ops \in Nat
    BY <2>2, InputAssumption DEF InputAssumption, ByHand, Trace, Typed
  <2> QED
    BY <2>1, <2>2 DEF Init
<1>2. /\ pc = "read" /\ lines = <<>> /\ HASH = <<>> /\ DOMAIN HASH = {}
  BY DEF Init
<1> QED
  BY <1>1, <1>2, NothingRead, FS_EmptySet DEF ReadInv, TallyInv, InUseNow

\* A line of the input.
LEMMA LinesTyped ==
    ASSUME ReadInv, NEW line \in Lines
    PROVE  line \in Line /\ (~Typed => Len(lines) + 1 <= Len(script.requests))
<1>1. CASE Typed
  <2>1. line \in [cmd : Commands \ {""}, id : Ids, size : {0}]
    BY <1>1 DEF Lines
  <2>2. PICK c \in Commands, x \in Ids : line = [cmd |-> c, id |-> x, size |-> 0]
    BY <2>1
  <2> QED
    BY <1>1, <2>2 DEF Line
<1>2. CASE ~Typed
  <2> DEFINE R == [cmd : {"a", "r", "f"}, id : Nat, size : Nat]
  <2>1. /\ Len(lines) # Len(script.requests) /\ line = script.requests[Len(lines) + 1]
        /\ Len(lines) <= Len(script.requests) /\ Len(lines) \in Nat
        /\ script.requests \in Seq(R)
    BY <1>2, InputAssumption DEF Lines, ReadInv, InputAssumption
  <2>2. R \subseteq Line
    BY DEF Line
  <2> HIDE DEF R
  <2>3. Len(lines) + 1 \in 1 .. Len(script.requests)
    BY <2>1
  <2>4. line \in R
    BY <2>1, <2>3
  <2> QED
    BY <2>2, <2>3, <2>4
<1> QED
  BY <1>1, <1>2

\* A request that passes changes HASH as it changes the ids in use.
LEMMA TallyRight ==
    ASSUME NEW cmd, NEW id,
           DOMAIN HASH \subseteq Ids \cup Nat, IsFiniteSet(DOMAIN HASH), id \in Ids \cup Nat
    PROVE  /\ DOMAIN Tally(cmd, id) = IF cmd = "r" THEN DOMAIN HASH
                                      ELSE IF cmd = "f" THEN DOMAIN HASH \ {id}
                                      ELSE DOMAIN HASH \cup {id}
           /\ DOMAIN Tally(cmd, id) \subseteq Ids \cup Nat
           /\ IsFiniteSet(DOMAIN Tally(cmd, id))
           /\ cmd \in {"a", "r", "f"} /\ (\A k \in DOMAIN HASH : HASH[k] = "a")
                 => \A k \in DOMAIN Tally(cmd, id) : Tally(cmd, id)[k] = "a"
<1>1. DOMAIN Tally(cmd, id) = IF cmd = "r" THEN DOMAIN HASH
                              ELSE IF cmd = "f" THEN DOMAIN HASH \ {id}
                              ELSE DOMAIN HASH \cup {id}
  BY DEF Tally
<1>2. IsFiniteSet(DOMAIN HASH \ {id}) /\ IsFiniteSet(DOMAIN HASH \cup {id})
  BY FS_RemoveElement, FS_AddElement
<1>3. cmd \in {"a", "r", "f"} /\ (\A k \in DOMAIN HASH : HASH[k] = "a")
         => \A k \in DOMAIN Tally(cmd, id) : Tally(cmd, id)[k] = "a"
  BY DEF Tally
<1> QED
  BY <1>1, <1>2, <1>3

LEMMA RequestRead == ReadInv /\ TallyInv /\ ReadRequest => ReadInv' /\ TallyInv'
<1> SUFFICES ASSUME ReadInv, TallyInv, ReadRequest PROVE ReadInv' /\ TallyInv'
  OBVIOUS
<1>1. PICK line \in Lines :
        /\ lines' = Append(lines, line)
        /\ \/ Rejected(line.cmd, line.id) /\ pc' = "die" /\ UNCHANGED HASH
           \/ /\ ~Rejected(line.cmd, line.id)
              /\ HASH' = Tally(line.cmd, line.id)
              /\ UNCHANGED pc
  BY DEF ReadRequest
<1>2. /\ line \in Line /\ lines \in Seq(Line) /\ script' = script /\ pc = "read"
      /\ line.id \in Ids \cup Nat /\ (~Typed => Len(lines) + 1 <= Len(script.requests))
  BY LinesTyped DEF ReadInv, ReadRequest, Line
<1>3. /\ lines' \in Seq(Line) /\ Len(lines') = Len(lines) + 1
      /\ InUseNow' = IF line.cmd = "f" THEN InUseNow \ {line.id}
                     ELSE IF line.cmd = "a" THEN InUseNow \cup {line.id}
                     ELSE InUseNow
  <2>1. lines' = Append(lines, line)
    BY <1>1
  <2>2. lines' \in Seq(Line) /\ Len(lines') = Len(lines) + 1
    BY <1>2, <2>1, SamePrefix
  <2>3. InUse(lines', Len(lines) + 1) = IF line.cmd = "f" THEN InUse(lines, Len(lines)) \ {line.id}
                                       ELSE IF line.cmd = "a" THEN InUse(lines, Len(lines)) \cup {line.id}
                                       ELSE InUse(lines, Len(lines))
    BY <1>2, <2>1, InUseGrows
  <2> QED
    BY <2>2, <2>3 DEF InUseNow
<1>4. /\ Legal(lines') <=> /\ Legal(lines)
                           /\ IF line.cmd = "a" THEN line.id \notin InUseNow
                                                ELSE line.id \in InUseNow
      /\ WellFormed(lines') <=> WellFormed(lines) /\ line.cmd \in {"a", "r", "f"}
  BY <1>1, <1>2, LegalGrows DEF InUseNow
<1>5. CASE Rejected(line.cmd, line.id) /\ pc' = "die" /\ UNCHANGED HASH
  <2>1. ReadInv'
    BY <1>2, <1>3, <1>5 DEF ReadInv, Typed
  <2>2. ASSUME WellFormed(lines') PROVE ~Legal(lines')
    BY <1>2, <1>4, <1>5, <2>2 DEF TallyInv, Rejected, Stored, Has
  <2> QED
    BY <1>5, <2>1, <2>2 DEF TallyInv
<1>6. CASE ~Rejected(line.cmd, line.id) /\ HASH' = Tally(line.cmd, line.id) /\ UNCHANGED pc
  <2> DEFINE cmd == line.cmd
             id  == line.id
  <2>1. /\ DOMAIN HASH' = IF cmd = "r" THEN DOMAIN HASH
                          ELSE IF cmd = "f" THEN DOMAIN HASH \ {id}
                          ELSE DOMAIN HASH \cup {id}
        /\ DOMAIN HASH' \subseteq Ids \cup Nat
        /\ IsFiniteSet(DOMAIN HASH')
        /\ cmd \in {"a", "r", "f"} /\ (\A k \in DOMAIN HASH : HASH[k] = "a")
              => \A k \in DOMAIN HASH' : HASH'[k] = "a"
    BY <1>2, <1>6, TallyRight DEF ReadInv
  <2>2. ReadInv'
    BY <1>2, <1>3, <1>6, <2>1 DEF ReadInv, Typed
  <2>3. ASSUME WellFormed(lines')
        PROVE  Legal(lines') /\ DOMAIN HASH' = InUseNow' /\ \A k \in DOMAIN HASH' : HASH'[k] = "a"
    <3>1. /\ Legal(lines) /\ DOMAIN HASH = InUseNow /\ \A k \in DOMAIN HASH : HASH[k] = "a"
          /\ cmd \in {"a", "r", "f"}
      BY <1>2, <1>4, <2>3 DEF TallyInv
    <3>2. IF cmd = "a" THEN id \notin InUseNow ELSE id \in InUseNow
      BY <1>6, <3>1 DEF Rejected, Stored, Has
    <3> QED
      BY <1>3, <1>4, <2>1, <3>1, <3>2
  <2> QED
    BY <1>2, <1>6, <2>2, <2>3 DEF TallyInv
<1> QED
  BY <1>1, <1>5, <1>6

\* PrintFree ends the script only on a trace that is not well formed.
LEMMA ReadStep == ReadInv /\ TallyInv /\ (pc = "free" => residue \subseteq DOMAIN HASH) /\ [Next]_vars
                     => ReadInv' /\ TallyInv'
<1> SUFFICES ASSUME ReadInv, TallyInv, pc = "free" => residue \subseteq DOMAIN HASH, [Next]_vars
             PROVE  ReadInv' /\ TallyInv'
  OBVIOUS
<1>1. CASE ReadRequest
  BY <1>1, RequestRead
<1>2. ASSUME UNCHANGED <<script, lines, HASH>>, pc # "die", pc' \in {"read", "free", "done", "summary"}
      PROVE  ReadInv' /\ TallyInv'
  BY <1>2 DEF ReadInv, TallyInv, InUseNow, Typed
<1>3. CASE Summary \/ PrintRequests \/ Exit
  BY <1>2, <1>3 DEF Summary, PrintRequests, Exit
<1>4. CASE PrintFree
  <2>1. CASE pc' = pc
    BY <1>2, <1>4, <2>1 DEF PrintFree
  <2>2. CASE pc' # pc
    <3>1. PICK key \in residue : HASH[key] \notin {"a", "r"} /\ pc' = "die"
      BY <1>4, <2>2 DEF PrintFree
    <3>2. ~WellFormed(lines)
      BY <1>4, <3>1 DEF PrintFree, TallyInv
    <3> QED
      BY <1>4, <3>1, <3>2 DEF PrintFree, ReadInv, TallyInv, InUseNow, Typed
  <2> QED
    BY <2>1, <2>2
<1>5. CASE ReadBlank \/ Ended \/ UNCHANGED vars
  BY <1>5 DEF ReadBlank, Ended, vars, ReadInv, TallyInv, InUseNow, Typed
<1> QED
  BY <1>1, <1>3, <1>4, <1>5 DEF Next

(***************************************************************************)
(* Printing                                                                *)
(***************************************************************************)
InUseOut == InUse(out, Len(out))

\* The frees that are still to come are those of the blocks in use, and the
\* header counts them.
PrintInv ==
    /\ pc \in {"free", "done"} =>
        /\ out \in Seq(Line)
        /\ residue \subseteq DOMAIN HASH
        /\ InUseOut \subseteq residue
        /\ WellFormed(lines) => Legal(out) /\ InUseOut = residue
        /\ new_num_ops = script.num_ops + Cardinality(DOMAIN HASH)
        /\ Len(out) + Cardinality(residue) = Len(lines) + Cardinality(DOMAIN HASH)
    /\ pc = "done" => residue = {}
    /\ pc = "summary" => (verdict = "balanced" <=> DOMAIN HASH = {})

LEMMA FreePrinted ==
    ASSUME ReadInv, PrintInv, pc = "free", NEW key \in residue,
           UNCHANGED <<script, HASH, lines, new_num_ops, pc>>,
           out' = Append(out, f(key)), residue' = residue \ {key}
    PROVE  PrintInv'
<1>1. /\ out \in Seq(Line) /\ residue \subseteq DOMAIN HASH /\ InUseOut \subseteq residue
      /\ WellFormed(lines) => Legal(out) /\ InUseOut = residue
      /\ new_num_ops = script.num_ops + Cardinality(DOMAIN HASH)
      /\ Len(out) + Cardinality(residue) = Len(lines) + Cardinality(DOMAIN HASH)
      /\ lines \in Seq(Line) /\ DOMAIN HASH \subseteq Ids \cup Nat /\ IsFiniteSet(DOMAIN HASH)
  BY DEF PrintInv, ReadInv
<1>2. f(key) \in Line /\ f(key).cmd = "f" /\ f(key).id = key
  BY <1>1 DEF f, Line
<1> DEFINE line == f(key)
<1> HIDE DEF line
<1>3. out' \in Seq(Line) /\ Len(out') = Len(out) + 1
  BY <1>1, <1>2, SamePrefix DEF line
<1>4. InUse(Append(out, line), Len(out) + 1) =
          IF line.cmd = "f" THEN InUse(out, Len(out)) \ {line.id}
          ELSE IF line.cmd = "a" THEN InUse(out, Len(out)) \cup {line.id}
          ELSE InUse(out, Len(out))
  BY <1>1, <1>2, InUseGrows DEF line
<1>5. InUseOut' = InUseOut \ {key}
  BY <1>2, <1>3, <1>4 DEF InUseOut, line
<1>6. Legal(Append(out, line)) <=>
          /\ Legal(out)
          /\ IF line.cmd = "a" THEN line.id \notin InUse(out, Len(out))
                               ELSE line.id \in InUse(out, Len(out))
  BY <1>1, <1>2, LegalGrows DEF line
<1>7. WellFormed(lines) => Legal(out')
  BY <1>1, <1>2, <1>6 DEF InUseOut, line
<1>8. /\ Cardinality(residue') = Cardinality(residue) - 1
      /\ Cardinality(residue) \in Nat /\ Cardinality(DOMAIN HASH) \in Nat
  BY <1>1, FS_Subset, FS_RemoveElement, FS_CardinalityType
<1>9. Len(out') + Cardinality(residue') = Len(lines') + Cardinality(DOMAIN HASH')
  BY <1>1, <1>3, <1>8
<1> QED
  BY <1>1, <1>3, <1>5, <1>7, <1>9 DEF PrintInv

LEMMA PrintStep == ReadInv /\ TallyInv /\ PrintInv /\ [Next]_vars => PrintInv'
<1> SUFFICES ASSUME ReadInv, TallyInv, PrintInv, [Next]_vars PROVE PrintInv'
  OBVIOUS
<1>1. CASE ReadBlank \/ Ended \/ UNCHANGED vars
  BY <1>1 DEF ReadBlank, Ended, vars, PrintInv, InUseOut
<1>2. CASE ReadRequest
  BY <1>2 DEF ReadRequest, PrintInv
<1>3. CASE Summary
  BY <1>3 DEF Summary, PrintInv
<1>4. CASE PrintRequests
  BY <1>4 DEF PrintRequests, PrintInv, InUseOut, InUseNow, ReadInv, TallyInv, new_ops
<1>5. CASE PrintFree
  <2>1. CASE pc' = "die"
    BY <2>1 DEF PrintInv
  <2>2. CASE pc' # "die"
    <3>1. PICK key \in residue : /\ out' = Append(out, f(key)) /\ residue' = residue \ {key}
                                 /\ UNCHANGED pc
      BY <1>5, <2>2 DEF PrintFree
    <3> QED
      BY <1>5, <3>1, FreePrinted DEF PrintFree
  <2> QED
    BY <2>1, <2>2
<1>6. CASE Exit
  BY <1>6 DEF Exit, PrintInv, InUseOut
<1> QED
  BY <1>1, <1>2, <1>3, <1>4, <1>5, <1>6 DEF Next

LEMMA ScriptCorrect == Spec => [](ReadInv /\ TallyInv /\ PrintInv)
<1>1. Init => PrintInv
  BY DEF Init, PrintInv
<1>2. ReadInv /\ TallyInv /\ PrintInv /\ [Next]_vars => ReadInv' /\ TallyInv' /\ PrintInv'
  BY ReadStep, PrintStep DEF PrintInv
<1> QED
  BY <1>1, <1>2, InitRead, PTL DEF Spec

(***************************************************************************)
(* The traces of the generators                                            *)
(***************************************************************************)
IdsOf(trace) == {trace[k].id : k \in DOMAIN trace}

\* A trace that read_trace of mdriver.c reads to the end: its header counts its
\* requests and its ids, and the requests fit together.
Readable(s) ==
    /\ s.num_ops = Len(s.requests)
    /\ IdsOf(s.requests) = 0 .. s.num_ids - 1
    /\ Legal(s.requests)

\* Of a generated trace the requests are read in order and to the end, and the
\* missing frees are of ids that it has.
CopyInv ==
    ~Typed =>
        /\ \A k \in 1 .. Len(lines) : lines[k] = script.requests[k]
        /\ pc \in {"free", "done"} => /\ Len(lines) = Len(script.requests)
                                      /\ IdsOf(out) = IdsOf(lines)

LEMMA RequestsTyped ==
    ASSUME ReadInv, ~Typed
    PROVE  /\ script \in Generated
           /\ script.requests \in Seq([cmd : {"a", "r", "f"}, id : Nat, size : Nat])
           /\ Len(lines) \in 0 .. Len(script.requests) /\ DOMAIN lines = 1 .. Len(lines)
           /\ \A k \in 1 .. Len(script.requests) : script.requests[k].cmd \in {"a", "r", "f"}
<1> DEFINE R == [cmd : {"a", "r", "f"}, id : Nat, size : Nat]
<1>1. script \in Generated /\ Len(lines) <= Len(script.requests) /\ lines \in Seq(Line)
  BY DEF ReadInv
<1>2. script.requests \in Seq(R)
  BY <1>1, InputAssumption DEF InputAssumption
<1>3. \A x \in R : x.cmd \in {"a", "r", "f"}
  OBVIOUS
<1> HIDE DEF R
<1>4. \A k \in 1 .. Len(script.requests) : script.requests[k] \in R
  BY <1>2
<1> QED
  BY <1>1, <1>2, <1>3, <1>4 DEF R

\* What has been read of a generated trace is a trace of its own, as legal and
\* well formed as the whole.
LEMMA PrefixRead ==
    ASSUME ReadInv, CopyInv, ~Typed, Legal(script.requests)
    PROVE  WellFormed(lines) /\ Legal(lines)
<1> DEFINE all == script.requests
           n   == Len(lines)
<1>1. n \in 0 .. Len(all) /\ DOMAIN lines = 1 .. n /\ DOMAIN all = 1 .. Len(all) /\ Len(all) \in Nat
  BY RequestsTyped
<1>2. \A k \in 1 .. n : lines[k] = all[k]
  BY DEF CopyInv
<1>3. \A k \in 1 .. Len(all) : all[k].cmd \in {"a", "r", "f"}
  BY RequestsTyped
<1>4. Legal(all)
  OBVIOUS
<1> HIDE DEF all, n
<1>5. ASSUME NEW m \in 0 .. n PROVE InUse(lines, m) = InUse(all, m)
  <2>1. \A k \in 1 .. m : lines[k] = all[k]
    BY ONLY <1>1, <1>2, m \in 0 .. n
  <2> QED
    BY ONLY <2>1, <1>1, m \in 0 .. n DEF InUse
<1>6. \A m \in 1 .. n : m - 1 \in 0 .. n /\ m \in 1 .. Len(all) /\ lines[m] = all[m]
  BY ONLY <1>1, <1>2
<1>7. WellFormed(lines)
  BY ONLY <1>1, <1>3, <1>6 DEF WellFormed
<1>8. Legal(lines)
  BY ONLY <1>1, <1>4, <1>5, <1>6 DEF Legal
<1> QED
  BY <1>7, <1>8

\* Appending a request of an id that the trace has, or has not.
LEMMA IdsGrow ==
    ASSUME NEW S, NEW trace \in Seq(S), NEW line \in S
    PROVE  IdsOf(Append(trace, line)) = IdsOf(trace) \cup {line.id}
<1> DEFINE more == Append(trace, line)
           n    == Len(trace)
<1>1. n \in Nat /\ DOMAIN trace = 1 .. n /\ DOMAIN more = 1 .. n + 1
      /\ (\A k \in 1 .. n : more[k] = trace[k]) /\ more[n + 1] = line
  OBVIOUS
<1> HIDE DEF more, n
<1>2. \A k : k \in 1 .. n + 1 <=> k \in 1 .. n \/ k = n + 1
  BY <1>1
<1>3. IdsOf(more) = IdsOf(trace) \cup {line.id}
  BY ONLY <1>1, <1>2 DEF IdsOf
<1> QED
  BY <1>3 DEF more

LEMMA InUseHasIds ==
    ASSUME NEW S, NEW trace \in Seq(S)
    PROVE  InUse(trace, Len(trace)) \subseteq IdsOf(trace)
BY DEF InUse, IdsOf

LEMMA CopyStep ==
    ASSUME ReadInv, TallyInv, PrintInv, CopyInv, [Next]_vars,
           ~Typed => Legal(script.requests)
    PROVE  CopyInv'
<1>0. Typed' <=> Typed
  BY DEF Next, vars, ReadBlank, ReadRequest, Summary, PrintRequests, PrintFree, Exit, Ended, Typed
<1> SUFFICES ASSUME ~Typed PROVE CopyInv'
  BY <1>0 DEF CopyInv
<1>1. ASSUME UNCHANGED <<script, lines, out>>, pc' = pc \/ pc' \notin {"free", "done"} \/ pc = "free"
      PROVE  CopyInv'
  BY <1>1 DEF CopyInv
<1>2. CASE ReadBlank \/ Ended \/ UNCHANGED vars
  BY <1>1, <1>2 DEF ReadBlank, Ended, vars
<1>3. CASE Summary \/ Exit
  BY <1>1, <1>3 DEF Summary, Exit
<1>4. CASE ReadRequest
  <2>1. PICK line \in Lines : lines' = Append(lines, line)
    BY <1>4 DEF ReadRequest
  <2>2. line = script.requests[Len(lines) + 1] /\ script' = script /\ pc' \in {"read", "die"}
    BY <1>4, <2>1 DEF Lines, ReadRequest
  <2>3. lines \in Seq(Line) /\ line \in Line
    BY <2>1, LinesTyped DEF ReadInv
  <2>4. Len(lines') = Len(lines) + 1 /\ lines'[Len(lines) + 1] = line
        /\ \A k \in 1 .. Len(lines) : lines'[k] = lines[k]
    BY <2>1, <2>3, SamePrefix
  <2>5. \A k \in 1 .. Len(lines) : lines[k] = script.requests[k]
    BY DEF CopyInv
  <2>6. \A k \in 1 .. Len(lines) + 1 : k \in 1 .. Len(lines) \/ k = Len(lines) + 1
    BY <2>3
  <2>7. \A k \in 1 .. Len(lines') : lines'[k] = script'.requests[k]
    BY <2>2, <2>4, <2>5, <2>6
  <2> QED
    BY <2>2, <2>7 DEF CopyInv
<1>5. CASE PrintRequests
  BY <1>5 DEF PrintRequests, CopyInv, EndOfInput, IdsOf
<1>6. CASE PrintFree
  <2>1. CASE pc' = "die"
    BY <1>6, <2>1 DEF PrintFree, CopyInv
  <2>2. CASE pc' # "die"
    <3>1. PICK key \in residue : out' = Append(out, f(key)) /\ UNCHANGED <<pc, script, lines>> /\ pc = "free"
      BY <1>6, <2>2 DEF PrintFree
    <3>2. out \in Seq(Line) /\ residue \subseteq DOMAIN HASH /\ IdsOf(out) = IdsOf(lines)
      BY <3>1 DEF PrintInv, CopyInv
    <3>3. WellFormed(lines)
      BY PrefixRead
    <3>4. DOMAIN HASH = InUse(lines, Len(lines)) /\ lines \in Seq(Line) /\ DOMAIN HASH \subseteq Ids \cup Nat
      BY <3>1, <3>3 DEF TallyInv, ReadInv, InUseNow
    <3>5. key \in IdsOf(lines)
      BY <3>1, <3>2, <3>4, InUseHasIds
    <3>6. f(key) \in Line /\ f(key).id = key
      BY <3>2, <3>4 DEF f, Line
    <3>7. IdsOf(out') = IdsOf(out) \cup {key}
      BY <3>1, <3>2, <3>6, IdsGrow
    <3> QED
      BY <3>1, <3>2, <3>5, <3>7 DEF CopyInv
  <2> QED
    BY <2>1, <2>2
<1> QED
  BY <1>2, <1>3, <1>4, <1>5, <1>6 DEF Next

\* A generated trace that is readable is read without an objection, and what is
\* printed is readable too.
LEMMA ReadableCorrect ==
    ASSUME \A s \in Generated : Readable(s)
    PROVE  Spec => []GeneratedReadable
<1>1. Init => CopyInv
  BY DEF Init, CopyInv
<1>2. ReadInv => (~Typed => Legal(script.requests))
  BY RequestsTyped DEF Readable
<1>3. ReadInv /\ TallyInv /\ PrintInv /\ CopyInv /\ [Next]_vars => CopyInv'
  BY <1>2, CopyStep
<1>4. ReadInv /\ TallyInv /\ PrintInv /\ CopyInv => GeneratedReadable
  <2> SUFFICES ASSUME ReadInv, TallyInv, PrintInv, CopyInv, ~Typed
               PROVE  pc # "die" /\ (pc = "done" => /\ new_num_ops = Len(out)
                                                    /\ IdsOf(out) = 0 .. script.num_ids - 1)
    BY DEF GeneratedReadable, IdsOf
  <2>1. Readable(script) /\ WellFormed(lines) /\ Legal(lines)
    BY <1>2, RequestsTyped, PrefixRead
  <2>2. pc # "die"
    BY <2>1 DEF TallyInv
  <2> SUFFICES ASSUME pc = "done"
               PROVE  new_num_ops = Len(out) /\ IdsOf(out) = 0 .. script.num_ids - 1
    BY <2>2
  <2>3. Len(lines) = Len(script.requests) /\ IdsOf(out) = IdsOf(lines)
    BY DEF CopyInv
  <2>4. IdsOf(lines) = IdsOf(script.requests)
    <3>1. DOMAIN lines = 1 .. Len(lines) /\ DOMAIN script.requests = 1 .. Len(script.requests)
      BY RequestsTyped
    <3>2. \A k \in 1 .. Len(lines) : lines[k] = script.requests[k]
      BY DEF CopyInv
    <3> QED
      BY ONLY <2>3, <3>1, <3>2 DEF IdsOf
  <2>5. new_num_ops = Len(out)
    <3>1. /\ out \in Seq(Line) /\ lines \in Seq(Line)
          /\ new_num_ops = Len(lines) + Cardinality(DOMAIN HASH)
          /\ Len(out) + Cardinality({}) = Len(lines) + Cardinality(DOMAIN HASH)
      BY <2>1, <2>3 DEF ReadInv, PrintInv, Readable
    <3>2. Cardinality({}) = 0
      BY FS_EmptySet
    <3> QED
      BY ONLY <3>1, <3>2
  <2> QED
    BY <2>1, <2>3, <2>4, <2>5 DEF Readable
<1> QED
  BY <1>1, <1>3, <1>4, InitRead, ScriptCorrect, PTL DEF Spec

(***************************************************************************)
(* Loops of the generators.  The library's induction theorems take an      *)
(* operator as a parameter, so what is needed is restated with sets.       *)
(***************************************************************************)

\* Induction over the naturals, for a set.
LEMMA LeastElement ==
  ASSUME NEW S, S \subseteq Nat, S # {}
  PROVE  \E m \in S : \A k \in S : m <= k
<1>1. IsWellFoundedOn(OpToRel(<, Nat), Nat)
  BY NatLessThanWellFounded
<1>2. PICK m \in S : \A k \in S : ~ (<<k, m>> \in OpToRel(<, Nat))
  BY <1>1, WFMin
<1>3. \A k \in S : ~ (k < m)
  BY <1>2 DEF OpToRel
<1>4. m \in Nat /\ \A k \in S : k \in Nat
  OBVIOUS
<1> QED
  BY <1>3, <1>4

LEMMA InductionOnSet ==
  ASSUME NEW S, 0 \in S, \A k \in Nat : k \in S => k + 1 \in S
  PROVE  Nat \subseteq S
<1> SUFFICES ASSUME Nat \ S # {} PROVE FALSE
  OBVIOUS
<1> DEFINE T == Nat \ S
<1>1. PICK k \in T : \A m \in T : k <= m
  <2>1. T \subseteq Nat /\ T # {}
    OBVIOUS
  <2> HIDE DEF T
  <2> QED
    BY <2>1, LeastElement
<1>2. k \in Nat /\ k # 0 /\ k - 1 \in Nat
  BY <1>1
<1>3. k - 1 \in S
  BY <1>1, <1>2
<1> QED
  BY <1>1, <1>2, <1>3

\* Recursion along 0 .. m: step[k][v] is the value after v.
LEMMA Recursion ==
  ASSUME NEW V, NEW base \in V, NEW m \in Nat,
         NEW step \in [1 .. m -> [V -> V]]
  PROVE  \E u \in [0 .. m -> V] :
            u[0] = base /\ \A k \in 1 .. m : u[k] = step[k][u[k - 1]]
<1> DEFINE Follows(u, j) == u[0] = base /\ \A k \in 1 .. j : u[k] = step[k][u[k - 1]]
           S == {j \in Nat : j <= m => \E u \in [0 .. j -> V] : Follows(u, j)}
<1>1. 0 \in S
  <2> DEFINE u == [k \in 0 .. 0 |-> base]
  <2>1. u \in [0 .. 0 -> V] /\ Follows(u, 0)
    OBVIOUS
  <2> QED
    BY <2>1
<1>2. ASSUME NEW j \in Nat, j \in S PROVE j + 1 \in S
  <2> SUFFICES ASSUME j + 1 <= m PROVE \E u \in [0 .. j + 1 -> V] : Follows(u, j + 1)
    OBVIOUS
  <2>1. PICK u \in [0 .. j -> V] : Follows(u, j)
    BY <1>2
  <2> DEFINE g == [k \in 0 .. j + 1 |-> IF k <= j THEN u[k] ELSE step[j + 1][u[j]]]
  <2>2. u[j] \in V /\ step[j + 1][u[j]] \in V
    BY <2>1
  <2>3. g \in [0 .. j + 1 -> V]
    BY <2>1, <2>2
  <2>4. g[0] = base
    BY <2>1
  <2>5. ASSUME NEW k \in 1 .. j + 1 PROVE g[k] = step[k][g[k - 1]]
    <3>1. k - 1 \in 0 .. j /\ g[k - 1] = u[k - 1]
      OBVIOUS
    <3>2. CASE k <= j
      <4>1. k \in 1 .. j /\ g[k] = u[k]
        BY <3>2
      <4> QED
        BY <2>1, <3>1, <4>1
    <3>3. CASE k = j + 1
      <4>1. g[k] = step[j + 1][u[j]] /\ k - 1 = j
        BY <3>3
      <4> QED
        BY <3>1, <3>3, <4>1
    <3> QED
      BY <3>2, <3>3
  <2> QED
    BY <2>3, <2>4, <2>5
<1> HIDE DEF S
<1>3. m \in S
  BY <1>1, <1>2, InductionOnSet
<1> QED
  BY <1>3 DEF S

\* The recursion of FlattenSeq.
LEMMA FlattenRec ==
  ASSUME NEW S, NEW lists \in Seq(Seq(S)), Len(lists) > 0
  PROVE  \E u : /\ FlattenSeq(lists) = u[Len(lists)]
                /\ u[1] = lists[1]
                /\ \A k \in 2 .. Len(lists) : u[k] = u[k - 1] \o lists[k]
<1> DEFINE m == Len(lists)
           V == Seq(S)
           base == <<>>
           step == [k \in 1 .. m |-> [v \in V |-> v \o lists[k]]]
           Rule(u) == [k \in 1 .. m |-> IF k = 1 THEN lists[k] ELSE u[k - 1] \o lists[k]]
<1>1. m \in Nat /\ base \in V /\ step \in [1 .. m -> [V -> V]]
  <2>1. \A k \in 1 .. m : \A v \in V : v \o lists[k] \in V
    OBVIOUS
  <2> QED
    BY <2>1
<1>2. \A k \in 1 .. m : \A v \in V : step[k][v] = v \o lists[k]
  OBVIOUS
<1>3. PICK u \in [0 .. m -> V] : u[0] = base /\ \A k \in 1 .. m : u[k] = step[k][u[k - 1]]
  <2> HIDE DEF m, V, base, step
  <2> QED
    BY ONLY <1>1, Recursion
<1>4. ASSUME NEW k \in 1 .. m PROVE u[k] = u[k - 1] \o lists[k]
  <2> HIDE DEF step, V
  <2>1. k - 1 \in 0 .. m
    BY <1>1
  <2>2. u[k - 1] \in V
    BY <1>3, <2>1
  <2> QED
    BY <1>2, <1>3, <2>2
<1>5. u[1] = lists[1]
  <2>1. 1 \in 1 .. m /\ 1 - 1 = 0
    BY <1>1
  <2>2. u[1] = u[0] \o lists[1]
    BY <1>4, <2>1
  <2>3. u[0] = <<>> /\ lists[1] \in Seq(S)
    BY <1>3, <2>1
  <2> QED
    BY <2>2, <2>3
<1> HIDE DEF step
<1> DEFINE w == [k \in 1 .. m |-> u[k]]
<1>6. w = Rule(w)
  <2>1. ASSUME NEW k \in 1 .. m
        PROVE  w[k] = IF k = 1 THEN lists[k] ELSE w[k - 1] \o lists[k]
    <3>1. CASE k = 1
      BY <1>5, <3>1
    <3>2. CASE k # 1
      <4>1. k - 1 \in 1 .. m /\ w[k - 1] = u[k - 1] /\ w[k] = u[k]
        BY <3>2
      <4> QED
        BY <1>4, <3>2, <4>1
    <3> QED
      BY <3>1, <3>2
  <2>2. w = [k \in 1 .. m |-> w[k]]
    OBVIOUS
  <2> HIDE DEF w
  <2> QED
    BY <2>1, <2>2
<1> DEFINE g == CHOOSE h : h = Rule(h)
<1>7. g = Rule(g)
  <2> HIDE DEF w
  <2> QED
    BY <1>6
<1>8. FlattenSeq(lists) = g[m]
  BY <1>1 DEF FlattenSeq
<1> HIDE DEF g, w
<1>9. g[1] = lists[1] /\ \A k \in 2 .. m : g[k] = g[k - 1] \o lists[k]
  <2>1. \A k \in 1 .. m : g[k] = IF k = 1 THEN lists[k] ELSE g[k - 1] \o lists[k]
    <3> SUFFICES ASSUME NEW k \in 1 .. m
                 PROVE  g[k] = IF k = 1 THEN lists[k] ELSE g[k - 1] \o lists[k]
      OBVIOUS
    <3>1. g[k] = Rule(g)[k]
      BY <1>7
    <3> QED
      BY <3>1
  <2>2. 1 \in 1 .. m /\ \A k \in 2 .. m : k \in 1 .. m /\ k # 1
    BY <1>1
  <2> HIDE DEF Rule
  <2> QED
    BY <2>1, <2>2
<1> QED
  BY <1>8, <1>9

\* The requests of the generators, and what a loop has printed so far.
Request == [cmd : {"a", "r", "f"}, id : Nat, size : Nat]

\* A legal trace of len requests on ids, after which those of used are in use.
Run(trace, used, ids, len) ==
    /\ trace \in Seq(Request) /\ Len(trace) = len
    /\ Legal(trace)
    /\ InUse(trace, Len(trace)) = used
    /\ IdsOf(trace) = ids

LEMMA RunStart == Run(<<>>, {}, {}, 0)
  BY DEF Run, Legal, InUse, IdsOf

\* One request more.
LEMMA RunGrows ==
    ASSUME NEW trace, NEW used, NEW ids, NEW len, Run(trace, used, ids, len),
           NEW line \in Request,
           IF line.cmd = "a" THEN line.id \notin used ELSE line.id \in used
    PROVE  Run(Append(trace, line),
               IF line.cmd = "f" THEN used \ {line.id}
               ELSE IF line.cmd = "a" THEN used \cup {line.id} ELSE used,
               ids \cup {line.id}, len + 1)
<1> DEFINE more == Append(trace, line)
<1>1. trace \in Seq(Request) /\ Len(trace) = len /\ Legal(trace)
      /\ InUse(trace, Len(trace)) = used /\ IdsOf(trace) = ids
  BY DEF Run
<1> HIDE DEF Request
<1>2. more \in Seq(Request) /\ Len(more) = len + 1
  BY <1>1, SamePrefix
<1>3. InUse(more, Len(trace) + 1) =
              IF line.cmd = "f" THEN InUse(trace, Len(trace)) \ {line.id}
              ELSE IF line.cmd = "a" THEN InUse(trace, Len(trace)) \cup {line.id}
              ELSE InUse(trace, Len(trace))
  BY <1>1, InUseGrows
<1>4. Legal(more) <=> /\ Legal(trace)
                      /\ IF line.cmd = "a" THEN line.id \notin InUse(trace, Len(trace))
                                           ELSE line.id \in InUse(trace, Len(trace))
  BY <1>1, LegalGrows
<1>5. IdsOf(more) = IdsOf(trace) \cup {line.id}
  BY <1>1, IdsGrow
<1> HIDE DEF more
<1>6. Run(more, IF line.cmd = "f" THEN used \ {line.id}
                ELSE IF line.cmd = "a" THEN used \cup {line.id} ELSE used,
          ids \cup {line.id}, len + 1)
  BY <1>1, <1>2, <1>3, <1>4, <1>5 DEF Run
<1> QED
  BY <1>6 DEF more

\* The three requests, each appended to a trace as a sequence of one.
LEMMA RunAlloc ==
    ASSUME NEW trace, NEW used, NEW ids, NEW len, Run(trace, used, ids, len),
           NEW id \in Nat, NEW size \in Nat, id \notin used
    PROVE  Run(Append(trace, a(id, size)), used \cup {id}, ids \cup {id}, len + 1)
<1> DEFINE line == a(id, size)
<1>1. line \in Request /\ line.cmd = "a" /\ line.id = id
  BY DEF a, Request
<1> HIDE DEF line
<1>2. Run(Append(trace, line), IF line.cmd = "f" THEN used \ {line.id}
                               ELSE IF line.cmd = "a" THEN used \cup {line.id} ELSE used,
          ids \cup {line.id}, len + 1)
  BY <1>1, RunGrows
<1> QED
  BY <1>1, <1>2 DEF line

LEMMA RunRealloc ==
    ASSUME NEW trace, NEW used, NEW ids, NEW len, Run(trace, used, ids, len),
           NEW id \in Nat, NEW size \in Nat, id \in used
    PROVE  Run(Append(trace, r(id, size)), used, ids \cup {id}, len + 1)
<1> DEFINE line == r(id, size)
<1>1. line \in Request /\ line.cmd = "r" /\ line.id = id
  BY DEF r, Request
<1> HIDE DEF line
<1>2. Run(Append(trace, line), IF line.cmd = "f" THEN used \ {line.id}
                               ELSE IF line.cmd = "a" THEN used \cup {line.id} ELSE used,
          ids \cup {line.id}, len + 1)
  BY <1>1, RunGrows
<1> QED
  BY <1>1, <1>2 DEF line

LEMMA RunFree ==
    ASSUME NEW trace, NEW used, NEW ids, NEW len, Run(trace, used, ids, len),
           NEW id \in Nat, id \in used
    PROVE  Run(Append(trace, f(id)), used \ {id}, ids \cup {id}, len + 1)
<1> DEFINE line == f(id)
<1>1. line \in Request /\ line.cmd = "f" /\ line.id = id
  BY DEF f, Request
<1> HIDE DEF line
<1>2. Run(Append(trace, line), IF line.cmd = "f" THEN used \ {line.id}
                               ELSE IF line.cmd = "a" THEN used \cup {line.id} ELSE used,
          ids \cup {line.id}, len + 1)
  BY <1>1, RunGrows
<1> QED
  BY <1>1, <1>2 DEF line

\* Q holds <<k, t>> when t is a trace the first k turns may have led to.
LEMMA Loop ==
    ASSUME NEW S, NEW lists \in Seq(Seq(S)), NEW pre \in Seq(S), NEW Q, <<0, pre>> \in Q,
           \A k \in 1 .. Len(lists) : \A t \in Seq(S) :
              <<k - 1, t>> \in Q => <<k, t \o lists[k]>> \in Q
    PROVE  <<Len(lists), pre \o FlattenSeq(lists)>> \in Q /\ FlattenSeq(lists) \in Seq(S)
<1> DEFINE m == Len(lists)
<1>1. m \in Nat /\ \A k \in 1 .. m : lists[k] \in Seq(S)
  OBVIOUS
<1>2. CASE m = 0
  <2>1. FlattenSeq(lists) = lists /\ lists = <<>>
    BY <1>2 DEF FlattenSeq
  <2>2. pre \o <<>> = pre /\ <<>> \in Seq(S)
    OBVIOUS
  <2> QED
    BY <1>2, <2>1, <2>2
<1>3. CASE m > 0
  <2>1. PICK flat : /\ FlattenSeq(lists) = flat[m]
                    /\ flat[1] = lists[1]
                    /\ \A k \in 2 .. m : flat[k] = flat[k - 1] \o lists[k]
    BY <1>3, FlattenRec
  <2> HIDE DEF m
  <2>2. \A k \in 1 .. m : \A t \in Seq(S) : <<k - 1, t>> \in Q => <<k, t \o lists[k]>> \in Q
    BY DEF m
  <2> DEFINE T == {j \in Nat : j + 1 <= m => /\ flat[j + 1] \in Seq(S)
                                             /\ <<j + 1, pre \o flat[j + 1]>> \in Q}
  <2>3. 0 \in T
    <3>1. 1 \in 1 .. m /\ 1 - 1 = 0 /\ 0 + 1 = 1
      BY <1>1, <1>3
    <3>2. <<1, pre \o lists[1]>> \in Q
      BY <2>2, <3>1
    <3> QED
      BY <1>1, <2>1, <3>1, <3>2
  <2>4. ASSUME NEW j \in Nat, j \in T PROVE j + 1 \in T
    <3> SUFFICES ASSUME (j + 1) + 1 <= m
                 PROVE  flat[(j + 1) + 1] \in Seq(S) /\ <<(j + 1) + 1, pre \o flat[(j + 1) + 1]>> \in Q
      OBVIOUS
    <3> DEFINE k == (j + 1) + 1
    <3>1. k \in 2 .. m /\ k \in 1 .. m /\ k - 1 = j + 1 /\ j + 1 <= m
      BY ONLY <1>1, j \in Nat, (j + 1) + 1 <= m
    <3>2. flat[k - 1] \in Seq(S) /\ <<k - 1, pre \o flat[k - 1]>> \in Q
      BY <2>4, <3>1
    <3> HIDE DEF k
    <3>3. flat[k] = flat[k - 1] \o lists[k] /\ lists[k] \in Seq(S)
      BY <1>1, <2>1, <3>1
    <3>4. pre \o flat[k - 1] \in Seq(S)
          /\ (pre \o flat[k - 1]) \o lists[k] = pre \o (flat[k - 1] \o lists[k])
      <4> DEFINE mid == flat[k - 1]
                 end == lists[k]
      <4>1. mid \in Seq(S) /\ end \in Seq(S) /\ pre \in Seq(S)
        BY <3>2, <3>3
      <4> HIDE DEF mid, end
      <4>2. pre \o mid \in Seq(S)
        BY ONLY <4>1
      <4>3. (pre \o mid) \o end = pre \o (mid \o end)
        BY ONLY <4>1, ConcatAssociative
      <4> QED
        BY <4>2, <4>3 DEF mid, end
    <3>5. <<k, (pre \o flat[k - 1]) \o lists[k]>> \in Q
      BY ONLY <2>2, <3>1, <3>2, <3>4
    <3>6. flat[k] \in Seq(S) /\ <<k, pre \o flat[k]>> \in Q
      BY <3>2, <3>3, <3>4, <3>5
    <3> QED
      BY <3>6 DEF k
  <2>5. m - 1 \in T
    <3>1. m - 1 \in Nat
      BY <1>1, <1>3
    <3> HIDE DEF T
    <3> QED
      BY <2>3, <2>4, <3>1, InductionOnSet
  <2>6. (m - 1) + 1 = m
    BY <1>1
  <2>7. flat[m] \in Seq(S) /\ <<m, pre \o flat[m]>> \in Q
    BY <1>1, <2>5, <2>6
  <2> QED
    BY <2>1, <2>7 DEF m
<1> QED
  BY <1>1, <1>2, <1>3

\* Concatenation with a turn's requests appends them one by one.
LEMMA Appended ==
    ASSUME NEW S, NEW t \in Seq(S), NEW x \in S, NEW y \in S, NEW z \in S
    PROVE  /\ t \o <<x>> = Append(t, x)
           /\ t \o <<x, y>> = Append(Append(t, x), y)
           /\ t \o <<x, y, z>> = Append(Append(Append(t, x), y), z)
<1>1. t \o <<x>> = Append(t, x)
  OBVIOUS
<1>2. t \o <<x, y>> = Append(Append(t, x), y)
  OBVIOUS
<1>3. t \o <<x, y, z>> = Append(Append(Append(t, x), y), z)
  OBVIOUS
<1> QED
  BY <1>1, <1>2, <1>3

\* What the turns of a loop print.
LEMMA LoopTyped ==
    ASSUME NEW S, NEW n \in Nat, NEW turns \in [1 .. n -> Seq(S)]
    PROVE  turns \in Seq(Seq(S)) /\ Len(turns) = n
<1> DEFINE T == Seq(S)
<1> HIDE DEF T
<1>1. turns \in [1 .. n -> T]
  BY DEF T
<1>2. turns \in Seq(T) /\ Len(turns) = n
  BY ONLY <1>1, n \in Nat
<1> QED
  BY ONLY <1>2 DEF T

\* A request of a generator.
LEMMA RequestTypes ==
    ASSUME NEW id \in Nat, NEW size \in Nat
    PROVE  a(id, size) \in Request /\ r(id, size) \in Request /\ f(id) \in Request
BY DEF a, r, f, Request

\* gen_binary.pl: the blocks of the first loop in use, then the even ones, then
\* those and the blocks of the last loop.
LEMMA BinaryReadable ==
    ASSUME NEW n \in Nat, NEW size1 \in Nat, NEW size2 \in Nat
    PROVE  Readable(gen_binary(n, size1, size2))
<1> DEFINE pairs == [k \in 1 .. n |-> <<a(2 * (k - 1), size1), a(2 * (k - 1) + 1, size2)>>]
           frees == [k \in 1 .. n |-> <<f(2 * (k - 1) + 1)>>]
           bigs  == [k \in 1 .. n |-> <<a(2 * n + (k - 1), size1 + size2)>>]
           first  == FlattenSeq(pairs)
           second == FlattenSeq(frees)
           third  == FlattenSeq(bigs)
           Odds(k)  == {j \in 0 .. 2 * n - 1 : \A i \in 0 .. k - 1 : j # 2 * i + 1}
           Q1 == {p \in Nat \X Seq(Request) :
                    Run(p[2], 0 .. 2 * p[1] - 1, 0 .. 2 * p[1] - 1, 2 * p[1])}
           Q2 == {p \in Nat \X Seq(Request) :
                    Run(p[2], Odds(p[1]), 0 .. 2 * n - 1, 2 * n + p[1])}
           Q3 == {p \in Nat \X Seq(Request) :
                    Run(p[2], Odds(n) \cup (2 * n .. 2 * n + p[1] - 1), 0 .. 2 * n + p[1] - 1, 3 * n + p[1])}
<1>1. /\ pairs \in Seq(Seq(Request)) /\ Len(pairs) = n
      /\ frees \in Seq(Seq(Request)) /\ Len(frees) = n
      /\ bigs \in Seq(Seq(Request)) /\ Len(bigs) = n
  <2>1. ASSUME NEW k \in 1 .. n
        PROVE  /\ <<a(2 * (k - 1), size1), a(2 * (k - 1) + 1, size2)>> \in Seq(Request)
               /\ <<f(2 * (k - 1) + 1)>> \in Seq(Request)
               /\ <<a(2 * n + (k - 1), size1 + size2)>> \in Seq(Request)
    <3>1. /\ 2 * (k - 1) \in Nat /\ 2 * (k - 1) + 1 \in Nat /\ 2 * n + (k - 1) \in Nat
          /\ size1 + size2 \in Nat
      OBVIOUS
    <3>2. /\ a(2 * (k - 1), size1) \in Request /\ a(2 * (k - 1) + 1, size2) \in Request
          /\ f(2 * (k - 1) + 1) \in Request /\ a(2 * n + (k - 1), size1 + size2) \in Request
      BY ONLY <3>1, RequestTypes, size1 \in Nat, size2 \in Nat
    <3> QED
      BY ONLY <3>2
  <2>2. pairs \in [1 .. n -> Seq(Request)]
    BY ONLY <2>1
  <2>3. frees \in [1 .. n -> Seq(Request)]
    BY ONLY <2>1
  <2>4. bigs \in [1 .. n -> Seq(Request)]
    BY ONLY <2>1
  <2> HIDE DEF pairs, frees, bigs
  <2> QED
    BY ONLY <2>2, <2>3, <2>4, n \in Nat, LoopTyped
<1>2. <<n, first>> \in Q1 /\ first \in Seq(Request)
  <2> DEFINE start == <<>>
  <2>1. start \in Seq(Request) /\ <<0, start>> \in Q1
    <3>1. Run(start, 0 .. 2 * 0 - 1, 0 .. 2 * 0 - 1, 2 * 0)
      <4>1. 0 .. 2 * 0 - 1 = {} /\ 2 * 0 = 0
        OBVIOUS
      <4> QED
        BY ONLY <4>1, RunStart
    <3>2. start \in Seq(Request)
      OBVIOUS
    <3> HIDE DEF start
    <3> QED
      BY ONLY <3>1, <3>2
  <2>2. ASSUME NEW k \in 1 .. n, NEW t \in Seq(Request), <<k - 1, t>> \in Q1
        PROVE  <<k, t \o pairs[k]>> \in Q1
    <3> DEFINE i == k - 1
               x == a(2 * i, size1)
               y == a(2 * i + 1, size2)
    <3>1. i \in Nat /\ 2 * i \in Nat /\ 2 * i + 1 \in Nat /\ k = i + 1 /\ k \in Nat
      OBVIOUS
    <3>2. Run(t, 0 .. 2 * i - 1, 0 .. 2 * i - 1, 2 * i)
      BY <2>2
    <3>3. x \in Request /\ y \in Request
      BY ONLY <3>1, RequestTypes, size1 \in Nat, size2 \in Nat
    <3>4. pairs[k] = <<x, y>>
      OBVIOUS
    <3>5. t \o pairs[k] = Append(Append(t, x), y) /\ t \o pairs[k] \in Seq(Request)
      <4> HIDE DEF x, y, pairs
      <4>1. t \o <<x, y>> = Append(Append(t, x), y)
        BY ONLY <3>3, t \in Seq(Request), Appended
      <4> QED
        BY ONLY <3>3, <3>4, <4>1, t \in Seq(Request)
    <3> HIDE DEF i, pairs
    <3>6. Run(Append(t, x), (0 .. 2 * i - 1) \cup {2 * i}, (0 .. 2 * i - 1) \cup {2 * i}, 2 * i + 1)
      <4>1. 2 * i \notin 0 .. 2 * i - 1
        BY ONLY <3>1
      <4> QED
        BY ONLY <3>1, <3>2, <4>1, size1 \in Nat, RunAlloc DEF x
    <3>7. (0 .. 2 * i - 1) \cup {2 * i} = 0 .. 2 * i
      BY ONLY <3>1
    <3>8. Run(Append(Append(t, x), y), (0 .. 2 * i) \cup {2 * i + 1}, (0 .. 2 * i) \cup {2 * i + 1}, (2 * i + 1) + 1)
      <4>1. 2 * i + 1 \notin 0 .. 2 * i
        BY ONLY <3>1
      <4>2. Run(Append(t, x), 0 .. 2 * i, 0 .. 2 * i, 2 * i + 1)
        BY ONLY <3>6, <3>7
      <4> QED
        BY ONLY <3>1, <4>1, <4>2, size2 \in Nat, RunAlloc DEF y
    <3>9. (0 .. 2 * i) \cup {2 * i + 1} = 0 .. 2 * k - 1 /\ (2 * i + 1) + 1 = 2 * k
      BY ONLY <3>1
    <3>10. Run(t \o pairs[k], 0 .. 2 * k - 1, 0 .. 2 * k - 1, 2 * k)
      BY ONLY <3>5, <3>8, <3>9
    <3> QED
      BY ONLY <3>1, <3>5, <3>10
  <2> HIDE DEF Q1, pairs, start
  <2>3. <<Len(pairs), start \o FlattenSeq(pairs)>> \in Q1 /\ FlattenSeq(pairs) \in Seq(Request)
    BY ONLY <1>1, <2>1, <2>2, Loop
  <2>4. start \o FlattenSeq(pairs) = FlattenSeq(pairs)
    BY <2>3, ConcatEmptySeq DEF start
  <2> QED
    BY <1>1, <2>3, <2>4
<1>3. <<n, first \o second>> \in Q2 /\ first \o second \in Seq(Request)
  <2>1. <<0, first>> \in Q2
    <3>1. Run(first, 0 .. 2 * n - 1, 0 .. 2 * n - 1, 2 * n)
      BY <1>2
    <3>2. Odds(0) = 0 .. 2 * n - 1 /\ 2 * n + 0 = 2 * n
      OBVIOUS
    <3> HIDE DEF first, Odds
    <3> QED
      BY <1>2, <3>1, <3>2
  <2>2. ASSUME NEW k \in 1 .. n, NEW t \in Seq(Request), <<k - 1, t>> \in Q2
        PROVE  <<k, t \o frees[k]>> \in Q2
    <3> DEFINE i == k - 1
               x == f(2 * i + 1)
    <3>1. i \in 0 .. n - 1 /\ i \in Nat /\ 2 * i + 1 \in Nat /\ k = i + 1 /\ k \in Nat /\ n \in Nat
      OBVIOUS
    <3>2. Run(t, Odds(i), 0 .. 2 * n - 1, 2 * n + i)
      BY <2>2
    <3>3. x \in Request /\ frees[k] = <<x>>
      BY <3>1, RequestTypes
    <3>4. t \o frees[k] = Append(t, x) /\ t \o frees[k] \in Seq(Request)
      <4> HIDE DEF x, frees
      <4>1. t \o <<x>> = Append(t, x)
        BY ONLY <3>3, t \in Seq(Request), Appended
      <4> QED
        BY ONLY <3>3, <4>1, t \in Seq(Request)
    <3> HIDE DEF i, frees
    <3>5. 2 * i + 1 \in Odds(i) /\ 2 * i + 1 \in 0 .. 2 * n - 1
      BY ONLY <3>1
    <3>6. Odds(i) \ {2 * i + 1} = Odds(k)
      <4>1. \A j : j \in 0 .. k - 1 <=> j \in 0 .. i - 1 \/ j = i
        BY ONLY <3>1
      <4> QED
        BY ONLY <4>1
    <3>7. Run(Append(t, x), Odds(i) \ {2 * i + 1}, (0 .. 2 * n - 1) \cup {2 * i + 1}, (2 * n + i) + 1)
      <4> HIDE DEF Odds
      <4> QED
        BY ONLY <3>1, <3>2, <3>5, RunFree DEF x
    <3>8. (0 .. 2 * n - 1) \cup {2 * i + 1} = 0 .. 2 * n - 1 /\ (2 * n + i) + 1 = 2 * n + k
      BY ONLY <3>1, <3>5
    <3> HIDE DEF Odds
    <3>9. Run(t \o frees[k], Odds(k), 0 .. 2 * n - 1, 2 * n + k)
      BY ONLY <3>4, <3>6, <3>7, <3>8
    <3> QED
      BY ONLY <3>1, <3>4, <3>9
  <2> HIDE DEF Q2, frees, first
  <2>3. <<Len(frees), first \o FlattenSeq(frees)>> \in Q2 /\ FlattenSeq(frees) \in Seq(Request)
    BY ONLY <1>1, <1>2, <2>1, <2>2, Loop
  <2> QED
    BY <1>1, <1>2, <2>3
<1>4. <<n, (first \o second) \o third>> \in Q3
  <2> DEFINE front == first \o second
  <2>1. <<0, front>> \in Q3 /\ front \in Seq(Request)
    <3>1. Run(front, Odds(n), 0 .. 2 * n - 1, 2 * n + n)
      BY <1>3
    <3> HIDE DEF Odds, front
    <3>2. /\ Odds(n) \cup (2 * n .. 2 * n + 0 - 1) = Odds(n)
          /\ 2 * n + 0 - 1 = 2 * n - 1 /\ 2 * n + n = 3 * n + 0
      OBVIOUS
    <3>3. front \in Seq(Request)
      BY <1>3 DEF front
    <3> QED
      BY <3>1, <3>2, <3>3
  <2>2. ASSUME NEW k \in 1 .. n, NEW t \in Seq(Request), <<k - 1, t>> \in Q3
        PROVE  <<k, t \o bigs[k]>> \in Q3
    <3> DEFINE i == k - 1
               id == 2 * n + i
               x == a(id, size1 + size2)
    <3>1. i \in Nat /\ id \in Nat /\ k = i + 1 /\ k \in Nat /\ n \in Nat /\ size1 + size2 \in Nat
      OBVIOUS
    <3>2. Run(t, Odds(n) \cup (2 * n .. 2 * n + i - 1), 0 .. 2 * n + i - 1, 3 * n + i)
      BY <2>2
    <3>3. x \in Request /\ bigs[k] = <<x>>
      BY <3>1, RequestTypes
    <3>4. t \o bigs[k] = Append(t, x) /\ t \o bigs[k] \in Seq(Request)
      <4> HIDE DEF x, bigs
      <4>1. t \o <<x>> = Append(t, x)
        BY ONLY <3>3, t \in Seq(Request), Appended
      <4> QED
        BY ONLY <3>3, <4>1, t \in Seq(Request)
    <3>5. id \notin Odds(n) \cup (2 * n .. 2 * n + i - 1)
      BY ONLY <3>1
    <3> HIDE DEF i, bigs, Odds
    <3>6. /\ (2 * n .. 2 * n + i - 1) \cup {id} = 2 * n .. 2 * n + k - 1
          /\ (0 .. 2 * n + i - 1) \cup {id} = 0 .. 2 * n + k - 1
          /\ (3 * n + i) + 1 = 3 * n + k
      BY ONLY <3>1
    <3> HIDE DEF id
    <3>7. Run(Append(t, x), (Odds(n) \cup (2 * n .. 2 * n + i - 1)) \cup {id},
              (0 .. 2 * n + i - 1) \cup {id}, (3 * n + i) + 1)
      BY ONLY <3>1, <3>2, <3>5, RunAlloc DEF x
    <3>8. (Odds(n) \cup (2 * n .. 2 * n + i - 1)) \cup {id} = Odds(n) \cup (2 * n .. 2 * n + k - 1)
      BY ONLY <3>6
    <3>9. Run(t \o bigs[k], Odds(n) \cup (2 * n .. 2 * n + k - 1), 0 .. 2 * n + k - 1, 3 * n + k)
      BY ONLY <3>4, <3>6, <3>7, <3>8
    <3> QED
      BY ONLY <3>1, <3>4, <3>9
  <2> HIDE DEF Q3, bigs, front
  <2>3. <<Len(bigs), front \o FlattenSeq(bigs)>> \in Q3
    BY ONLY <1>1, <2>1, <2>2, Loop
  <2> QED
    BY <1>1, <2>3 DEF front
<1> DEFINE all == (first \o second) \o third
<1>5. gen_binary(n, size1, size2) = Trace("gen_binary.pl", 3 * n, 4 * n, all)
  BY DEF gen_binary, For
<1>6. Run(all, Odds(n) \cup (2 * n .. 2 * n + n - 1), 0 .. 2 * n + n - 1, 3 * n + n)
  BY <1>4
<1> HIDE DEF all, Odds
<1>7. Len(all) = 4 * n /\ Legal(all) /\ IdsOf(all) = 0 .. 3 * n - 1
  <2>1. 3 * n + n = 4 * n /\ 2 * n + n - 1 = 3 * n - 1
    OBVIOUS
  <2> QED
    BY <1>6, <2>1 DEF Run
<1> QED
  BY <1>5, <1>7 DEF Readable, Trace

\* gen_coalescing.pl: every turn frees what it allocates.
LEMMA CoalescingReadable ==
    ASSUME NEW n \in Nat, NEW size \in Nat
    PROVE  Readable(gen_coalescing(n, size))
<1> DEFINE turns == [k \in 1 .. n |-> <<a(3 * (k - 1), size), a(3 * (k - 1) + 1, size),
                                        f(3 * (k - 1)), f(3 * (k - 1) + 1),
                                        a(3 * (k - 1) + 2, 2 * size), f(3 * (k - 1) + 2)>>]
           all == FlattenSeq(turns)
           Q == {p \in Nat \X Seq(Request) : Run(p[2], {}, 0 .. 3 * p[1] - 1, 6 * p[1])}
<1>1. ASSUME NEW k \in 1 .. n
      PROVE  /\ 3 * (k - 1) \in Nat /\ 3 * (k - 1) + 1 \in Nat /\ 3 * (k - 1) + 2 \in Nat /\ 2 * size \in Nat
             /\ a(3 * (k - 1), size) \in Request /\ a(3 * (k - 1) + 1, size) \in Request
             /\ f(3 * (k - 1)) \in Request /\ f(3 * (k - 1) + 1) \in Request
             /\ a(3 * (k - 1) + 2, 2 * size) \in Request /\ f(3 * (k - 1) + 2) \in Request
  <2>1. 3 * (k - 1) \in Nat /\ 3 * (k - 1) + 1 \in Nat /\ 3 * (k - 1) + 2 \in Nat /\ 2 * size \in Nat
    OBVIOUS
  <2> QED
    BY ONLY <2>1, RequestTypes, size \in Nat
<1>2. turns \in Seq(Seq(Request)) /\ Len(turns) = n
  <2>1. ASSUME NEW k \in 1 .. n
        PROVE  <<a(3 * (k - 1), size), a(3 * (k - 1) + 1, size), f(3 * (k - 1)), f(3 * (k - 1) + 1),
                 a(3 * (k - 1) + 2, 2 * size), f(3 * (k - 1) + 2)>> \in Seq(Request)
    BY ONLY <1>1, k \in 1 .. n
  <2>2. turns \in [1 .. n -> Seq(Request)]
    BY ONLY <2>1
  <2> HIDE DEF turns
  <2> QED
    BY ONLY <2>2, n \in Nat, LoopTyped
<1>3. <<n, all>> \in Q
  <2> DEFINE start == <<>>
  <2>1. start \in Seq(Request) /\ <<0, start>> \in Q
    <3>1. Run(start, {}, 0 .. 3 * 0 - 1, 6 * 0)
      <4>1. 0 .. 3 * 0 - 1 = {} /\ 6 * 0 = 0
        OBVIOUS
      <4> QED
        BY ONLY <4>1, RunStart
    <3>2. start \in Seq(Request)
      OBVIOUS
    <3> HIDE DEF start
    <3> QED
      BY ONLY <3>1, <3>2
  <2>2. ASSUME NEW k \in 1 .. n, NEW t \in Seq(Request), <<k - 1, t>> \in Q
        PROVE  <<k, t \o turns[k]>> \in Q
    <3> DEFINE i == k - 1
               p == 3 * i
               q == 3 * i + 1
               s == 3 * i + 2
               I == 0 .. 3 * i - 1
               L == 6 * i
               t1 == Append(t, a(p, size))
               t2 == Append(t1, a(q, size))
               t3 == Append(t2, f(p))
               t4 == Append(t3, f(q))
               t5 == Append(t4, a(s, 2 * size))
               t6 == Append(t5, f(s))
    <3>1. /\ i \in Nat /\ k = i + 1 /\ k \in Nat /\ p \in Nat /\ q \in Nat /\ s \in Nat
          /\ p # q /\ p # s /\ q # s /\ 2 * size \in Nat
      OBVIOUS
    <3>2. Run(t, {}, I, L)
      BY <2>2
    <3>3. /\ ((((I \cup {p}) \cup {q}) \cup {p}) \cup {q}) = 0 .. 3 * i + 1
          /\ ((0 .. 3 * i + 1) \cup {s}) \cup {s} = 0 .. 3 * k - 1
          /\ L + 1 + 1 + 1 + 1 + 1 + 1 = 6 * k
      BY ONLY <3>1
    <3>4. t \o turns[k] = t6 /\ t \o turns[k] \in Seq(Request)
      <4> DEFINE x1 == a(p, size)
                 x2 == a(q, size)
                 x3 == f(p)
                 x4 == f(q)
                 x5 == a(s, 2 * size)
                 x6 == f(s)
      <4>1. turns[k] = <<x1, x2, x3, x4, x5, x6>>
        OBVIOUS
      <4>2. /\ x1 \in Request /\ x2 \in Request /\ x3 \in Request
            /\ x4 \in Request /\ x5 \in Request /\ x6 \in Request
        BY ONLY <1>1, k \in 1 .. n
      <4> HIDE DEF turns, x1, x2, x3, x4, x5, x6
      <4>3. turns[k] = <<x1, x2, x3>> \o <<x4, x5, x6>>
        BY ONLY <4>1, <4>2
      <4>4. t \o <<x1, x2, x3>> = Append(Append(Append(t, x1), x2), x3)
        BY ONLY <4>2, t \in Seq(Request), Appended
      <4> DEFINE half == t \o <<x1, x2, x3>>
      <4>5. half \in Seq(Request) /\ <<x1, x2, x3>> \in Seq(Request) /\ <<x4, x5, x6>> \in Seq(Request)
        BY ONLY <4>2, t \in Seq(Request)
      <4>6. t \o turns[k] = half \o <<x4, x5, x6>>
        BY ONLY <4>3, <4>5, t \in Seq(Request), ConcatAssociative
      <4> HIDE DEF half
      <4>7. half \o <<x4, x5, x6>> = Append(Append(Append(half, x4), x5), x6)
        BY ONLY <4>2, <4>5, Appended
      <4>8. half \o <<x4, x5, x6>> \in Seq(Request)
        BY ONLY <4>2, <4>5
      <4> QED
        BY ONLY <4>4, <4>6, <4>7, <4>8 DEF half, x1, x2, x3, x4, x5, x6
    <3> HIDE DEF i, p, q, s, I, L, turns, t1, t2, t3, t4, t5, t6
    <3>5. Run(t1, {p}, I \cup {p}, L + 1)
      <4>1. Run(t1, {} \cup {p}, I \cup {p}, L + 1)
        BY ONLY <3>1, <3>2, p \notin {}, size \in Nat, RunAlloc DEF t1
      <4> QED
        BY ONLY <4>1
    <3>6. Run(t2, {p} \cup {q}, (I \cup {p}) \cup {q}, L + 1 + 1)
      <4>1. q \notin {p}
        BY ONLY <3>1
      <4> QED
        BY ONLY <3>1, <3>5, <4>1, size \in Nat, RunAlloc DEF t2
    <3>7. Run(t3, {q}, ((I \cup {p}) \cup {q}) \cup {p}, L + 1 + 1 + 1)
      <4>1. p \in {p} \cup {q}
        OBVIOUS
      <4>2. Run(t3, ({p} \cup {q}) \ {p}, ((I \cup {p}) \cup {q}) \cup {p}, L + 1 + 1 + 1)
        BY ONLY <3>1, <3>6, <4>1, RunFree DEF t3
      <4>3. ({p} \cup {q}) \ {p} = {q}
        BY ONLY <3>1
      <4> QED
        BY ONLY <4>2, <4>3
    <3>8. Run(t4, {}, 0 .. 3 * i + 1, L + 1 + 1 + 1 + 1)
      <4>1. Run(t4, {q} \ {q}, (((I \cup {p}) \cup {q}) \cup {p}) \cup {q}, L + 1 + 1 + 1 + 1)
        BY ONLY <3>1, <3>7, q \in {q}, RunFree DEF t4
      <4>2. {q} \ {q} = {}
        OBVIOUS
      <4> QED
        BY ONLY <3>3, <4>1, <4>2
    <3>9. Run(t5, {s}, (0 .. 3 * i + 1) \cup {s}, L + 1 + 1 + 1 + 1 + 1)
      <4>1. Run(t5, {} \cup {s}, (0 .. 3 * i + 1) \cup {s}, L + 1 + 1 + 1 + 1 + 1)
        BY ONLY <3>1, <3>8, s \notin {}, RunAlloc DEF t5
      <4> QED
        BY ONLY <4>1
    <3>10. Run(t6, {}, 0 .. 3 * k - 1, 6 * k)
      <4>1. Run(t6, {s} \ {s}, ((0 .. 3 * i + 1) \cup {s}) \cup {s}, L + 1 + 1 + 1 + 1 + 1 + 1)
        BY ONLY <3>1, <3>9, s \in {s}, RunFree DEF t6
      <4>2. {s} \ {s} = {}
        OBVIOUS
      <4> QED
        BY ONLY <3>3, <4>1, <4>2
    <3> QED
      BY ONLY <3>1, <3>4, <3>10
  <2> HIDE DEF Q, turns, start
  <2>3. <<Len(turns), start \o FlattenSeq(turns)>> \in Q /\ FlattenSeq(turns) \in Seq(Request)
    BY ONLY <1>2, <2>1, <2>2, Loop
  <2>4. start \o FlattenSeq(turns) = FlattenSeq(turns)
    BY <2>3, ConcatEmptySeq DEF start
  <2> QED
    BY <1>2, <2>3, <2>4
<1>4. gen_coalescing(n, size) = Trace("gen_coalescing.pl", 3 * n, 6 * n, all)
  BY DEF gen_coalescing, For
<1>5. Run(all, {}, 0 .. 3 * n - 1, 6 * n)
  BY <1>3
<1> HIDE DEF all
<1> QED
  BY <1>4, <1>5 DEF Run, Readable, Trace

\* gen_realloc.pl: block 0 and the block of the turn before are in use.
LEMMA ReallocReadable ==
    ASSUME NEW n \in Nat \ {0}, NEW size \in Nat, NEW increment \in Nat, NEW malloc_size \in Nat
    PROVE  Readable(gen_realloc(n, size, increment, malloc_size))
<1> DEFINE m == n - 1
           turns == [k \in 1 .. m |-> <<r(0, size + ((k - 1) + 1) * increment),
                                        a((k - 1) + 2, malloc_size), f((k - 1) + 1)>>]
           start == <<a(0, size), a(1, malloc_size)>>
           middle == start \o FlattenSeq(turns)
           all == middle \o <<f(n), f(0)>>
           Q == {p \in Nat \X Seq(Request) :
                   Run(p[2], {0, p[1] + 1}, 0 .. p[1] + 1, 3 * p[1] + 2)}
<1>1. ASSUME NEW k \in 1 .. m
      PROVE  /\ k \in Nat /\ (k - 1) + 1 = k /\ (k - 1) + 2 = k + 1 /\ k + 1 \in Nat
             /\ size + k * increment \in Nat
  OBVIOUS
<1>2. ASSUME NEW k \in 1 .. m
      PROVE  /\ turns[k] = <<r(0, size + k * increment), a(k + 1, malloc_size), f(k)>>
             /\ r(0, size + k * increment) \in Request
             /\ a(k + 1, malloc_size) \in Request /\ f(k) \in Request
  <2>1. turns[k] = <<r(0, size + ((k - 1) + 1) * increment), a((k - 1) + 2, malloc_size), f((k - 1) + 1)>>
    BY ONLY k \in 1 .. m
  <2>2. (k - 1) + 1 = k /\ (k - 1) + 2 = k + 1
    BY <1>1
  <2>3. k \in Nat /\ k + 1 \in Nat /\ size + k * increment \in Nat /\ 0 \in Nat
    BY <1>1
  <2>4. turns[k] = <<r(0, size + k * increment), a(k + 1, malloc_size), f(k)>>
    <3> HIDE DEF turns
    <3> QED
      BY ONLY <2>1, <2>2
  <2> QED
    BY ONLY <2>3, <2>4, malloc_size \in Nat, RequestTypes
<1>3. turns \in Seq(Seq(Request)) /\ Len(turns) = m /\ m \in Nat
  <2>1. m \in Nat
    OBVIOUS
  <2>2. turns = [k \in 1 .. m |-> turns[k]]
    OBVIOUS
  <2> HIDE DEF turns, m
  <2>3. ASSUME NEW k \in 1 .. m PROVE turns[k] \in Seq(Request)
    <3> DEFINE x == r(0, size + k * increment)
               y == a(k + 1, malloc_size)
               z == f(k)
    <3>1. turns[k] = <<x, y, z>> /\ x \in Request /\ y \in Request /\ z \in Request
      BY ONLY <1>2, k \in 1 .. m
    <3> HIDE DEF x, y, z
    <3> QED
      BY ONLY <3>1
  <2>4. turns \in [1 .. m -> Seq(Request)]
    BY ONLY <2>2, <2>3
  <2> QED
    BY ONLY <2>1, <2>4, LoopTyped
<1>4. start \in Seq(Request) /\ <<0, start>> \in Q
  <2> DEFINE empty == <<>>
             x == a(0, size)
             y == a(1, malloc_size)
  <2>1. x \in Request /\ y \in Request
    BY ONLY 0 \in Nat, 1 \in Nat, size \in Nat, malloc_size \in Nat, RequestTypes
  <2>2. Run(empty, {}, {}, 0)
    BY RunStart
  <2> HIDE DEF empty
  <2>3. Run(Append(empty, x), {} \cup {0}, {} \cup {0}, 0 + 1)
    BY ONLY <2>2, 0 \notin {}, 0 \in Nat, size \in Nat, RunAlloc
  <2>4. Run(Append(empty, x), {0}, {0}, 1)
    BY ONLY <2>3
  <2>5. Run(Append(Append(empty, x), y), {0} \cup {1}, {0} \cup {1}, 1 + 1)
    BY ONLY <2>4, 1 \notin {0}, 1 \in Nat, malloc_size \in Nat, RunAlloc
  <2> HIDE DEF x, y
  <2>6. Append(Append(empty, x), y) = <<x, y>> /\ <<x, y>> \in Seq(Request)
    <3>1. empty \in Seq(Request) /\ <<x, y>> \in Seq(Request)
      BY ONLY <2>1 DEF empty
    <3>2. empty \o <<x, y>> = Append(Append(empty, x), y)
      BY ONLY <2>1, <3>1, Appended
    <3>3. empty \o <<x, y>> = <<x, y>>
      BY ONLY <3>1, ConcatEmptySeq DEF empty
    <3> QED
      BY ONLY <3>1, <3>2, <3>3
  <2>7. {0} \cup {1} = {0, 0 + 1} /\ {0} \cup {1} = 0 .. 0 + 1 /\ 1 + 1 = 3 * 0 + 2
    OBVIOUS
  <2>8. Run(<<x, y>>, {0, 0 + 1}, 0 .. 0 + 1, 3 * 0 + 2)
    BY ONLY <2>5, <2>6, <2>7
  <2>9. start = <<x, y>>
    BY DEF x, y
  <2> HIDE DEF start
  <2> QED
    BY ONLY <2>6, <2>8, <2>9
<1>5. ASSUME NEW k \in 1 .. m, NEW t \in Seq(Request), <<k - 1, t>> \in Q
      PROVE  <<k, t \o turns[k]>> \in Q
  <2> DEFINE x == r(0, size + k * increment)
             y == a(k + 1, malloc_size)
             z == f(k)
             i == k - 1
  <2>1. /\ k \in Nat /\ k + 1 \in Nat /\ size + k * increment \in Nat /\ k # 0
        /\ i + 1 = k /\ (3 * i + 2) + 1 + 1 + 1 = 3 * k + 2
    OBVIOUS
  <2>2. Run(t, {0, k}, 0 .. k, 3 * i + 2)
    <3>1. Run(t, {0, i + 1}, 0 .. i + 1, 3 * i + 2)
      BY <1>5
    <3> HIDE DEF i
    <3> QED
      BY ONLY <2>1, <3>1
  <2>3. turns[k] = <<x, y, z>> /\ x \in Request /\ y \in Request /\ z \in Request
    BY ONLY <1>2, k \in 1 .. m
  <2>4. t \o turns[k] = Append(Append(Append(t, x), y), z) /\ t \o turns[k] \in Seq(Request)
    <3> HIDE DEF turns, x, y, z
    <3>1. t \o <<x, y, z>> = Append(Append(Append(t, x), y), z)
      BY ONLY <2>3, t \in Seq(Request), Appended
    <3>2. <<x, y, z>> \in Seq(Request)
      BY ONLY <2>3
    <3>3. t \o <<x, y, z>> \in Seq(Request)
      BY ONLY <3>2, t \in Seq(Request), ConcatProperties
    <3> QED
      BY ONLY <2>3, <3>1, <3>3
  <2> HIDE DEF i, turns, Q, m
  <2>5. Run(Append(t, x), {0, k}, (0 .. k) \cup {0}, (3 * i + 2) + 1)
    BY ONLY <2>1, <2>2, 0 \in {0, k}, 0 \in Nat, RunRealloc
  <2>6. (0 .. k) \cup {0} = 0 .. k
    BY ONLY <2>1
  <2>7. Run(Append(t, x), {0, k}, 0 .. k, (3 * i + 2) + 1)
    BY ONLY <2>5, <2>6
  <2>8. k + 1 \notin {0, k}
    BY ONLY <2>1
  <2>9. Run(Append(Append(t, x), y), {0, k} \cup {k + 1}, (0 .. k) \cup {k + 1}, (3 * i + 2) + 1 + 1)
    BY ONLY <2>1, <2>7, <2>8, malloc_size \in Nat, RunAlloc
  <2>10. k \in {0, k} \cup {k + 1}
    OBVIOUS
  <2>11. Run(Append(Append(Append(t, x), y), z), ({0, k} \cup {k + 1}) \ {k},
             ((0 .. k) \cup {k + 1}) \cup {k}, (3 * i + 2) + 1 + 1 + 1)
    BY ONLY <2>1, <2>9, <2>10, RunFree
  <2>12. ({0, k} \cup {k + 1}) \ {k} = {0, k + 1} /\ ((0 .. k) \cup {k + 1}) \cup {k} = 0 .. k + 1
    BY ONLY <2>1
  <2> HIDE DEF x, y, z
  <2>13. Run(t \o turns[k], {0, k + 1}, 0 .. k + 1, 3 * k + 2)
    BY ONLY <2>1, <2>4, <2>11, <2>12
  <2> QED
    BY ONLY <2>1, <2>4, <2>13 DEF Q
<1>6. middle \in Seq(Request) /\ <<m, middle>> \in Q
  <2> HIDE DEF turns, start, m, Q
  <2>1. <<Len(turns), start \o FlattenSeq(turns)>> \in Q /\ FlattenSeq(turns) \in Seq(Request)
    BY ONLY <1>3, <1>4, <1>5, Loop
  <2> QED
    BY ONLY <1>3, <1>4, <2>1
<1>7. Run(middle, {0, n}, 0 .. n, 3 * m + 2) /\ n = m + 1 /\ n \in Nat /\ n # 0
  <2>1. Run(middle, {0, m + 1}, 0 .. m + 1, 3 * m + 2)
    BY <1>6
  <2>2. n = m + 1 /\ n \in Nat /\ n # 0
    OBVIOUS
  <2> HIDE DEF middle, m
  <2> QED
    BY ONLY <2>1, <2>2
<1>8. Run(all, {}, 0 .. n, 3 * n + 1)
  <2>1. f(n) \in Request /\ f(0) \in Request
    BY ONLY <1>7, 0 \in Nat, RequestTypes
  <2>2. all = Append(Append(middle, f(n)), f(0))
    <3> DEFINE x == f(n)
               y == f(0)
    <3> HIDE DEF middle, x, y
    <3>1. middle \o <<x, y>> = Append(Append(middle, x), y)
      <4>1. x \in Request /\ y \in Request
        BY ONLY <2>1 DEF x, y
      <4> QED
        BY ONLY <1>6, <4>1, Appended
    <3> QED
      BY <3>1 DEF x, y
  <2> HIDE DEF all, middle, m
  <2>3. Run(Append(middle, f(n)), {0, n} \ {n}, (0 .. n) \cup {n}, (3 * m + 2) + 1)
    BY ONLY <1>7, n \in {0, n}, RunFree
  <2>4. {0, n} \ {n} = {0} /\ (0 .. n) \cup {n} = 0 .. n /\ (0 .. n) \cup {0} = 0 .. n /\ {0} \ {0} = {}
    BY ONLY <1>7
  <2>5. Run(Append(middle, f(n)), {0}, 0 .. n, (3 * m + 2) + 1)
    BY ONLY <2>3, <2>4
  <2>6. Run(Append(Append(middle, f(n)), f(0)), {0} \ {0}, (0 .. n) \cup {0}, (3 * m + 2) + 1 + 1)
    BY ONLY <2>5, 0 \in {0}, 0 \in Nat, RunFree
  <2>7. (3 * m + 2) + 1 + 1 = 3 * n + 1
    BY ONLY <1>3, <1>7
  <2> QED
    BY ONLY <2>2, <2>4, <2>6, <2>7
<1>9. gen_realloc(n, size, increment, malloc_size) = Trace("gen_realloc.pl", n + 1, 3 * n + 1, all)
  BY DEF gen_realloc, For
<1> HIDE DEF all
<1>10. (n + 1) - 1 = n
  BY <1>7
<1> QED
  BY <1>8, <1>9, <1>10 DEF Run, Readable, Trace

(***************************************************************************)
(* gen_random.pl                                                           *)
(***************************************************************************)
\* Every block is allocated once, and those before i are freed once, after that.
Shuffled(t, n, i) ==
    /\ t \in Seq(Request) /\ Len(t) = n + i
    /\ \A p \in 1 .. n + i : /\ t[p].cmd \in {"a", "f"} /\ t[p].id \in 0 .. n - 1
                             /\ t[p].cmd = "f" => t[p].id < i
    /\ \A k \in 0 .. n - 1 : \E p \in 1 .. n + i : t[p].cmd = "a" /\ t[p].id = k
    /\ \A p, q \in 1 .. n + i :
          /\ t[p].cmd = t[q].cmd /\ t[p].id = t[q].id => p = q
          /\ t[p].cmd = "f" /\ t[q].cmd = "a" /\ t[p].id = t[q].id => q < p

\* splice: what is before the place stays and what is behind it moves on by one.
LEMMA Inserted ==
    ASSUME NEW S, NEW t \in Seq(S), NEW m \in 0 .. Len(t), NEW x \in S
    PROVE  /\ InsertAt(t, m + 1, x) \in Seq(S) /\ Len(InsertAt(t, m + 1, x)) = Len(t) + 1
           /\ \A q \in 1 .. Len(t) + 1 :
                 InsertAt(t, m + 1, x)[q] = IF q <= m THEN t[q]
                                            ELSE IF q = m + 1 THEN x ELSE t[q - 1]
<1> DEFINE len   == Len(t)
           front == SubSeq(t, 1, m)
           back  == SubSeq(t, m + 1, len)
           mid   == front \o <<x>>
           all   == mid \o back
<1>1. len \in Nat /\ m \in 0 .. len /\ m \in Nat
  OBVIOUS
<1>2. front \in Seq(S) /\ Len(front) = m /\ \A q \in 1 .. m : front[q] = t[q]
  OBVIOUS
<1>3. back \in Seq(S) /\ Len(back) = len - m /\ \A q \in 1 .. len - m : back[q] = t[m + q]
  OBVIOUS
<1>4. InsertAt(t, m + 1, x) = all
  <2>1. (m + 1) - 1 = m
    OBVIOUS
  <2> QED
    BY <2>1 DEF InsertAt
<1> HIDE DEF len, front, back
<1>5. mid \in Seq(S) /\ Len(mid) = m + 1 /\ mid[m + 1] = x /\ \A q \in 1 .. m : mid[q] = t[q]
  BY ONLY <1>1, <1>2, x \in S
<1> HIDE DEF mid
<1>6. /\ all \in Seq(S) /\ Len(all) = Len(mid) + Len(back)
      /\ \A q \in 1 .. Len(mid) + Len(back) :
            all[q] = IF q <= Len(mid) THEN mid[q] ELSE back[q - Len(mid)]
  BY ONLY <1>3, <1>5, ConcatProperties
<1> HIDE DEF all
<1>7. Len(all) = len + 1
  BY ONLY <1>1, <1>3, <1>5, <1>6
<1>8. ASSUME NEW q \in 1 .. len + 1
      PROVE  all[q] = IF q <= m THEN t[q] ELSE IF q = m + 1 THEN x ELSE t[q - 1]
  <2>1. all[q] = IF q <= m + 1 THEN mid[q] ELSE back[q - (m + 1)]
    <3>1. Len(mid) = m + 1 /\ Len(mid) + Len(back) = len + 1
      BY ONLY <1>1, <1>3, <1>5
    <3>2. q \in 1 .. Len(mid) + Len(back)
      BY ONLY <3>1, q \in 1 .. len + 1
    <3>3. all[q] = IF q <= Len(mid) THEN mid[q] ELSE back[q - Len(mid)]
      BY ONLY <1>6, <3>2
    <3> QED
      BY ONLY <3>1, <3>3
  <2>2. CASE q <= m
    <3>1. q \in 1 .. m /\ q <= m + 1
      BY ONLY <1>1, <2>2, q \in 1 .. len + 1
    <3> QED
      BY ONLY <1>5, <2>1, <2>2, <3>1
  <2>3. CASE q = m + 1
    <3>1. ~ (q <= m) /\ q <= m + 1
      BY ONLY <1>1, <2>3
    <3> QED
      BY ONLY <1>5, <2>1, <2>3, <3>1
  <2>4. CASE q > m + 1
    <3>1. /\ ~ (q <= m) /\ ~ (q <= m + 1) /\ q # m + 1
          /\ q - (m + 1) \in 1 .. len - m /\ m + (q - (m + 1)) = q - 1
      BY ONLY <1>1, <2>4, q \in 1 .. len + 1
    <3> QED
      BY ONLY <1>3, <2>1, <3>1
  <2> QED
    BY ONLY <1>1, <2>2, <2>3, <2>4, q \in 1 .. len + 1
<1> QED
  BY ONLY <1>4, <1>6, <1>7, <1>8 DEF len

\* The place of a free is behind the allocation of its block.
LEMMA PlacedBehind ==
    ASSUME NEW n \in Nat, NEW i \in 0 .. n - 1, NEW t, Shuffled(t, n, i),
           NEW pos \in FreePlaces(t, i)
    PROVE  /\ pos \in 0 .. n + i
           /\ \E p \in 1 .. pos : t[p].cmd = "a" /\ t[p].id = i
<1> DEFINE places == {p \in 1 .. Len(t) : t[p].cmd = "a" /\ t[p].id = i}
<1>1. Len(t) = n + i /\ n + i \in Nat
  BY DEF Shuffled
<1>2. PICK p \in 1 .. n + i : t[p].cmd = "a" /\ t[p].id = i
  BY DEF Shuffled
<1>3. places = {p}
  BY <1>1, <1>2 DEF Shuffled
<1>4. SelectInSeq(t, LAMBDA op : op.cmd = "a" /\ op.id = i) = IF places # {} THEN Min(places) ELSE 0
  BY DEF SelectInSeq
<1> HIDE DEF places
<1>5. Min({p}) = p
  BY <1>2 DEF Min
<1>6. SelectInSeq(t, LAMBDA op : op.cmd = "a" /\ op.id = i) = p
  BY ONLY <1>3, <1>4, <1>5
<1>7. pos \in IF p - 1 = (n + i) - 1 THEN {((n + i) - 1) + 1} ELSE (p - 1) + 1 .. (n + i) - 1
  BY <1>1, <1>6 DEF FreePlaces
<1>8. pos \in 0 .. n + i /\ p \in 1 .. pos
  BY ONLY <1>1, <1>2, <1>7, n \in Nat, i \in 0 .. n - 1
<1> QED
  BY <1>2, <1>8

LEMMA FreeInserted ==
    ASSUME NEW n \in Nat, NEW i \in 0 .. n - 1, NEW t, Shuffled(t, n, i),
           NEW pos \in FreePlaces(t, i)
    PROVE  Shuffled(InsertAt(t, pos + 1, f(i)), n, i + 1)
<1> DEFINE u == InsertAt(t, pos + 1, f(i))
           x == f(i)
           len == n + i
           old(q) == IF q <= pos THEN q ELSE q - 1
           new(p) == IF p <= pos THEN p ELSE p + 1
<1>1. t \in Seq(Request) /\ Len(t) = len /\ len \in Nat /\ pos \in 0 .. len /\ n + (i + 1) = len + 1
  <2>1. t \in Seq(Request) /\ Len(t) = len
    BY DEF Shuffled
  <2>2. pos \in 0 .. len
    BY PlacedBehind
  <2>3. len \in Nat /\ n + (i + 1) = len + 1
    OBVIOUS
  <2> QED
    BY ONLY <2>1, <2>2, <2>3
<1>2. PICK al \in 1 .. pos : t[al].cmd = "a" /\ t[al].id = i
  BY PlacedBehind
<1>3. x \in Request /\ x.cmd = "f" /\ x.id = i
  BY DEF f, Request
<1>4. /\ u \in Seq(Request) /\ Len(u) = len + 1
      /\ \A q \in 1 .. len + 1 : u[q] = IF q <= pos THEN t[q] ELSE IF q = pos + 1 THEN x ELSE t[q - 1]
  <2> DEFINE S == Request
  <2>1. t \in Seq(S) /\ pos \in 0 .. Len(t) /\ x \in S
    BY <1>1, <1>3
  <2> HIDE DEF S, x
  <2>2. /\ InsertAt(t, pos + 1, x) \in Seq(S) /\ Len(InsertAt(t, pos + 1, x)) = Len(t) + 1
        /\ \A q \in 1 .. Len(t) + 1 :
              InsertAt(t, pos + 1, x)[q] = IF q <= pos THEN t[q]
                                         ELSE IF q = pos + 1 THEN x ELSE t[q - 1]
    BY ONLY <2>1, Inserted
  <2> QED
    BY <1>1, <2>2 DEF S, x
<1>5. /\ \A p \in 1 .. len : /\ t[p].cmd \in {"a", "f"} /\ t[p].id \in 0 .. n - 1
                             /\ t[p].cmd = "f" => t[p].id < i
      /\ \A k \in 0 .. n - 1 : \E p \in 1 .. len : t[p].cmd = "a" /\ t[p].id = k
      /\ \A p, q \in 1 .. len :
          /\ t[p].cmd = t[q].cmd /\ t[p].id = t[q].id => p = q
          /\ t[p].cmd = "f" /\ t[q].cmd = "a" /\ t[p].id = t[q].id => q < p
  BY DEF Shuffled
<1> HIDE DEF u, x, len
<1>6. ASSUME NEW q \in 1 .. len + 1, q # pos + 1
      PROVE  /\ old(q) \in 1 .. len /\ u[q] = t[old(q)]
             /\ q = IF old(q) <= pos THEN old(q) ELSE old(q) + 1
  BY ONLY <1>1, <1>4, q \in 1 .. len + 1, q # pos + 1
<1>7. ASSUME NEW p \in 1 .. len
      PROVE  new(p) \in 1 .. len + 1 /\ u[new(p)] = t[p]
  <2>1. CASE p <= pos
    BY ONLY <1>1, <1>4, <2>1, p \in 1 .. len
  <2>2. CASE p > pos
    <3>1. p + 1 \in 1 .. len + 1 /\ ~ (p + 1 <= pos) /\ p + 1 # pos + 1 /\ (p + 1) - 1 = p /\ new(p) = p + 1
      BY ONLY <1>1, <2>2, p \in 1 .. len
    <3>2. u[p + 1] = t[(p + 1) - 1]
      BY ONLY <1>4, <3>1
    <3> QED
      BY ONLY <3>1, <3>2
  <2> QED
    BY ONLY <1>1, <2>1, <2>2, p \in 1 .. len
<1>8. u[pos + 1] = x /\ pos + 1 \in 1 .. len + 1
  BY ONLY <1>1, <1>4
<1>9. i \in 0 .. n - 1 /\ i \in Nat /\ n \in Nat
  OBVIOUS
<1> HIDE DEF new
<1>10. ASSUME NEW q \in 1 .. len + 1
       PROVE  /\ u[q].cmd \in {"a", "f"} /\ u[q].id \in 0 .. n - 1
              /\ u[q].cmd = "f" => u[q].id < i + 1
  <2>1. CASE q = pos + 1
    BY ONLY <1>3, <1>8, <1>9, <2>1
  <2>2. CASE q # pos + 1
    <3>1. old(q) \in 1 .. len /\ u[q] = t[old(q)]
      BY ONLY <1>6, <2>2, q \in 1 .. len + 1
    <3> HIDE DEF old
    <3>2. /\ t[old(q)].cmd \in {"a", "f"} /\ t[old(q)].id \in 0 .. n - 1
          /\ t[old(q)].cmd = "f" => t[old(q)].id < i
      BY ONLY <1>5, <3>1
    <3>3. /\ u[q].cmd \in {"a", "f"} /\ u[q].id \in 0 .. n - 1
          /\ u[q].cmd = "f" => u[q].id < i
      BY ONLY <3>1, <3>2
    <3> QED
      BY ONLY <1>9, <3>3
  <2> QED
    BY ONLY <2>1, <2>2
<1>11. ASSUME NEW k \in 0 .. n - 1
       PROVE  \E q \in 1 .. len + 1 : u[q].cmd = "a" /\ u[q].id = k
  <2>1. PICK p \in 1 .. len : t[p].cmd = "a" /\ t[p].id = k
    BY ONLY <1>5, k \in 0 .. n - 1
  <2>2. new(p) \in 1 .. len + 1 /\ u[new(p)] = t[p]
    BY ONLY <1>7, p \in 1 .. len
  <2> QED
    BY ONLY <2>1, <2>2
<1>12. ASSUME NEW p \in 1 .. len + 1, NEW q \in 1 .. len + 1
       PROVE  /\ u[p].cmd = u[q].cmd /\ u[p].id = u[q].id => p = q
              /\ u[p].cmd = "f" /\ u[q].cmd = "a" /\ u[p].id = u[q].id => q < p
  <2>1. CASE p = pos + 1 /\ q = pos + 1
    BY ONLY <1>3, <1>8, <2>1
  <2>2. CASE p = pos + 1 /\ q # pos + 1
    <3>1. /\ old(q) \in 1 .. len /\ u[q] = t[old(q)]
          /\ q = IF old(q) <= pos THEN old(q) ELSE old(q) + 1
      BY ONLY <1>6, <2>2, q \in 1 .. len + 1
    <3> DEFINE o == old(q)
    <3> HIDE DEF old, o
    <3>2. o \in 1 .. len /\ u[q] = t[o] /\ q = IF o <= pos THEN o ELSE o + 1
      BY ONLY <3>1 DEF o
    <3>3. u[p].cmd = "f" /\ u[p].id = i
      BY ONLY <1>3, <1>8, <2>2
    <3>4. ~ (u[q].cmd = "f" /\ u[q].id = i)
      <4>1. t[o].cmd = "f" => t[o].id < i
        BY ONLY <1>5, <3>2
      <4>2. ~ (i < i)
        BY ONLY <1>9
      <4> QED
        BY ONLY <3>2, <4>1, <4>2
    <3>5. u[q].cmd = "a" /\ u[q].id = i => o = al
      <4>1. al \in 1 .. len
        BY ONLY <1>1, al \in 1 .. pos
      <4> QED
        BY ONLY <1>2, <1>5, <3>2, <4>1
    <3>6. o = al => q < p
      BY ONLY <1>1, <2>2, <3>2, al \in 1 .. pos
    <3> QED
      BY ONLY <3>3, <3>4, <3>5, <3>6
  <2>3. CASE p # pos + 1 /\ q = pos + 1
    <3>1. old(p) \in 1 .. len /\ u[p] = t[old(p)]
      BY ONLY <1>6, <2>3, p \in 1 .. len + 1
    <3> DEFINE o == old(p)
    <3> HIDE DEF old, o
    <3>2. o \in 1 .. len /\ u[p] = t[o]
      BY ONLY <3>1 DEF o
    <3>3. u[q].cmd = "f" /\ u[q].id = i
      BY ONLY <1>3, <1>8, <2>3
    <3>4. ~ (u[p].cmd = "f" /\ u[p].id = i)
      <4>1. t[o].cmd = "f" => t[o].id < i
        BY ONLY <1>5, <3>2
      <4>2. ~ (i < i)
        BY ONLY <1>9
      <4> QED
        BY ONLY <3>2, <4>1, <4>2
    <3> QED
      BY ONLY <3>3, <3>4
  <2>4. CASE p # pos + 1 /\ q # pos + 1
    <3>1. /\ old(q) \in 1 .. len /\ u[q] = t[old(q)]
          /\ q = IF old(q) <= pos THEN old(q) ELSE old(q) + 1
      BY ONLY <1>6, <2>4, q \in 1 .. len + 1
    <3>2. /\ old(p) \in 1 .. len /\ u[p] = t[old(p)]
          /\ p = IF old(p) <= pos THEN old(p) ELSE old(p) + 1
      BY ONLY <1>6, <2>4, p \in 1 .. len + 1
    <3> DEFINE c == old(p)
               d == old(q)
    <3> HIDE DEF old, c, d
    <3>3. /\ c \in 1 .. len /\ u[p] = t[c] /\ p = IF c <= pos THEN c ELSE c + 1
          /\ d \in 1 .. len /\ u[q] = t[d] /\ q = IF d <= pos THEN d ELSE d + 1
      BY ONLY <3>1, <3>2 DEF c, d
    <3>4. /\ t[c].cmd = t[d].cmd /\ t[c].id = t[d].id => c = d
          /\ t[c].cmd = "f" /\ t[d].cmd = "a" /\ t[c].id = t[d].id => d < c
      BY ONLY <1>5, <3>3
    <3>5. (c = d => p = q) /\ (d < c => q < p)
      BY ONLY <1>1, <3>3
    <3> QED
      BY ONLY <3>3, <3>4, <3>5
  <2> QED
    BY ONLY <2>1, <2>2, <2>3, <2>4
<1>13. Shuffled(u, n, i + 1)
  <2>1. n + (i + 1) = len + 1
    BY ONLY <1>1, <1>9
  <2>2. u \in Seq(Request) /\ Len(u) = len + 1
    BY ONLY <1>4
  <2> QED
    BY ONLY <1>10, <1>11, <1>12, <2>1, <2>2 DEF Shuffled
<1> QED
  BY ONLY <1>13 DEF u, x

\* The blocks are allocated in the order of their ids.
LEMMA AllocatedOnce ==
    ASSUME NEW n \in Nat, NEW size \in [1 .. n -> Nat]
    PROVE  Shuffled([k \in 1 .. n |-> a(k - 1, size[k])], n, 0)
<1> DEFINE t == [k \in 1 .. n |-> a(k - 1, size[k])]
<1>1. ASSUME NEW k \in 1 .. n
      PROVE  t[k] \in Request /\ t[k].cmd = "a" /\ t[k].id = k - 1
  <2>1. k - 1 \in Nat /\ size[k] \in Nat
    OBVIOUS
  <2>2. t[k] = a(k - 1, size[k])
    OBVIOUS
  <2> HIDE DEF t
  <2> QED
    BY ONLY <2>1, <2>2 DEF a, Request
<1>2. t = [k \in 1 .. n |-> t[k]]
  OBVIOUS
<1> HIDE DEF t
<1>3. t \in Seq(Request) /\ Len(t) = n
  <2> DEFINE S == Request
  <2>1. \A k \in 1 .. n : t[k] \in S
    BY ONLY <1>1
  <2> HIDE DEF S
  <2>2. t \in [1 .. n -> S]
    BY ONLY <1>2, <2>1
  <2>3. t \in Seq(S) /\ Len(t) = n
    BY ONLY <2>2, n \in Nat
  <2> QED
    BY ONLY <2>3 DEF S
<1>4. n + 0 = n
  OBVIOUS
<1>5. ASSUME NEW p \in 1 .. n, NEW q \in 1 .. n, t[p].id = t[q].id
      PROVE  p = q
  <2>1. p - 1 = q - 1
    BY ONLY <1>1, <1>5, p \in 1 .. n, q \in 1 .. n
  <2> QED
    BY ONLY <2>1, p \in 1 .. n, q \in 1 .. n
<1>6. ASSUME NEW k \in 0 .. n - 1
      PROVE  \E p \in 1 .. n : t[p].cmd = "a" /\ t[p].id = k
  <2>1. k + 1 \in 1 .. n /\ (k + 1) - 1 = k
    BY ONLY k \in 0 .. n - 1, n \in Nat
  <2> QED
    BY ONLY <1>1, <2>1
<1>7. ASSUME NEW p \in 1 .. n
      PROVE  t[p].cmd = "a" /\ t[p].id \in 0 .. n - 1
  <2>1. p - 1 \in 0 .. n - 1
    BY ONLY n \in Nat, p \in 1 .. n
  <2> QED
    BY ONLY <1>1, <2>1, p \in 1 .. n
<1>8. "a" # "f"
  OBVIOUS
<1>9. Shuffled(t, n, 0)
  BY ONLY <1>3, <1>4, <1>5, <1>6, <1>7, <1>8 DEF Shuffled
<1> QED
  BY ONLY <1>9 DEF t

\* Wherever the block is, its free has a place in the trace.
LEMMA PlacesTyped ==
    ASSUME NEW t \in Seq(Request), NEW i
    PROVE  FreePlaces(t, i) \subseteq 0 .. Len(t)
<1> DEFINE places == {p \in 1 .. Len(t) : t[p].cmd = "a" /\ t[p].id = i}
           found  == SelectInSeq(t, LAMBDA op : op.cmd = "a" /\ op.id = i)
           last   == Len(t) - 1
<1>1. found = IF places # {} THEN Min(places) ELSE 0
  BY DEF SelectInSeq
<1>2. Len(t) \in Nat /\ places \subseteq 1 .. Len(t)
  OBVIOUS
<1>3. FreePlaces(t, i) = IF found - 1 = last THEN {last + 1} ELSE (found - 1) + 1 .. last
  BY DEF FreePlaces
<1> HIDE DEF places, found
<1>4. found \in 0 .. Len(t)
  <2>1. CASE places = {}
    BY <1>1, <1>2, <2>1
  <2>2. CASE places # {}
    <3>1. places \subseteq Nat
      BY <1>2
    <3>2. \E p \in places : \A q \in places : p <= q
      BY ONLY <2>2, <3>1, LeastElement
    <3>3. Min(places) \in places
      BY <3>2 DEF Min
    <3> DEFINE least == Min(places)
    <3> HIDE DEF least
    <3>4. found = least
      BY ONLY <1>1, <2>2 DEF least
    <3>5. least \in 1 .. Len(t)
      BY ONLY <1>2, <3>3 DEF least
    <3> QED
      BY ONLY <1>2, <3>4, <3>5
  <2> QED
    BY <2>1, <2>2
<1> QED
  BY ONLY <1>2, <1>3, <1>4

\* The traces with the frees of block i in all their places.
WithFree(T, i) ==
    UNION {{InsertAt(t, pos + 1, f(i)) : pos \in FreePlaces(t, i)} : t \in T}

\* The recursion of gen_random has a solution.
LEMMA RandomRec ==
    ASSUME NEW n \in Nat, NEW sizes, sizes \subseteq Nat
    PROVE  \E F : /\ gen_random(n, sizes) = {Trace("gen_random.pl", n, 2 * n, t) : t \in F[n]}
                  /\ F[0] = {[k \in 1 .. n |-> a(k - 1, size[k])] : size \in [1 .. n -> sizes]}
                  /\ \A k \in 1 .. n : F[k] = WithFree(F[k - 1], k - 1)
<1> DEFINE V == SUBSET Seq(Request)
           base == {[k \in 1 .. n |-> a(k - 1, size[k])] : size \in [1 .. n -> sizes]}
           step == [k \in 1 .. n |-> [T \in V |-> WithFree(T, k - 1)]]
           Rule(F) == [k \in 0 .. n |->
                         IF k = 0 THEN base
                         ELSE UNION {{InsertAt(t, pos + 1, f(k - 1)) : pos \in FreePlaces(t, k - 1)} :
                                       t \in F[k - 1]}]
<1>1. base \in V
  <2>1. ASSUME NEW size \in [1 .. n -> sizes]
        PROVE  [k \in 1 .. n |-> a(k - 1, size[k])] \in Seq(Request)
    <3>1. size \in [1 .. n -> Nat]
      OBVIOUS
    <3> DEFINE t == [k \in 1 .. n |-> a(k - 1, size[k])]
    <3>2. Shuffled(t, n, 0)
      BY ONLY <3>1, n \in Nat, AllocatedOnce
    <3> HIDE DEF t
    <3>3. t \in Seq(Request)
      BY ONLY <3>2 DEF Shuffled
    <3> QED
      BY ONLY <3>3 DEF t
  <2> QED
    BY ONLY <2>1
<1>2. ASSUME NEW k \in 1 .. n, NEW T \in V PROVE WithFree(T, k - 1) \in V
  <2> DEFINE i == k - 1
             x == f(i)
             S == Request
  <2>1. x \in S
    <3>1. i \in Nat
      OBVIOUS
    <3> QED
      BY ONLY <3>1 DEF f, Request
  <2>2. ASSUME NEW t \in T, NEW pos \in FreePlaces(t, i) PROVE InsertAt(t, pos + 1, x) \in Seq(S)
    <3>1. t \in Seq(S)
      OBVIOUS
    <3>2. pos \in 0 .. Len(t)
      BY ONLY <3>1, pos \in FreePlaces(t, i), PlacesTyped
    <3> HIDE DEF x, S
    <3> QED
      BY ONLY <2>1, <3>1, <3>2, Inserted
  <2>3. WithFree(T, i) \subseteq Seq(S)
    <3> HIDE DEF S, i
    <3> QED
      BY ONLY <2>2 DEF WithFree, x
  <2> QED
    BY ONLY <2>3
<1>3. PICK u \in [0 .. n -> V] : u[0] = base /\ \A k \in 1 .. n : u[k] = step[k][u[k - 1]]
  <2>1. step \in [1 .. n -> [V -> V]]
    BY ONLY <1>2
  <2> HIDE DEF V, base, step
  <2>2. \E g \in [0 .. n -> V] : g[0] = base /\ \A k \in 1 .. n : g[k] = step[k][g[k - 1]]
    BY ONLY <1>1, <2>1, n \in Nat, Recursion
  <2> QED
    BY ONLY <2>2
<1>4. ASSUME NEW k \in 1 .. n PROVE u[k] = WithFree(u[k - 1], k - 1)
  <2>1. k - 1 \in 0 .. n
    BY ONLY n \in Nat, k \in 1 .. n
  <2>2. u[k - 1] \in V
    BY ONLY <1>3, <2>1
  <2> DEFINE T == u[k - 1]
  <2> HIDE DEF V, T
  <2>3. step[k][T] = WithFree(T, k - 1)
    BY ONLY <2>2, k \in 1 .. n DEF T
  <2> QED
    BY ONLY <1>3, <2>3, k \in 1 .. n DEF T
<1> HIDE DEF base, step, V
<1>5. u = Rule(u)
  <2> DEFINE rule == Rule(u)
  <2>1. rule = [k \in 0 .. n |-> rule[k]] /\ u = [k \in 0 .. n |-> u[k]]
    BY ONLY <1>3
  <2>2. ASSUME NEW k \in 0 .. n PROVE u[k] = rule[k]
    <3>1. rule[k] = IF k = 0 THEN base ELSE WithFree(u[k - 1], k - 1)
      BY ONLY k \in 0 .. n DEF WithFree
    <3> HIDE DEF rule
    <3>2. CASE k = 0
      BY ONLY <1>3, <3>1, <3>2
    <3>3. CASE k # 0
      <4>1. k \in 1 .. n
        BY ONLY n \in Nat, k \in 0 .. n, <3>3
      <4> QED
        BY ONLY <1>4, <3>1, <3>3, <4>1
    <3> QED
      BY ONLY <3>2, <3>3
  <2> HIDE DEF rule
  <2>3. u = rule
    BY ONLY <2>1, <2>2
  <2> QED
    BY <2>3 DEF rule
<1> DEFINE F == CHOOSE G : G = Rule(G)
<1>6. F = Rule(F)
  BY ONLY <1>5
<1>7. gen_random(n, sizes) = {Trace("gen_random.pl", n, 2 * n, t) : t \in F[n]}
  BY DEF gen_random, base
<1> HIDE DEF F
<1>8. F[0] = base
  <2>1. 0 \in 0 .. n
    OBVIOUS
  <2> QED
    BY ONLY <1>6, <2>1
<1>9. ASSUME NEW k \in 1 .. n PROVE F[k] = WithFree(F[k - 1], k - 1)
  <2>1. k \in 0 .. n /\ k # 0
    BY ONLY n \in Nat, k \in 1 .. n
  <2>2. F[k] = Rule(F)[k]
    BY ONLY <1>6
  <2>3. Rule(F)[k] = WithFree(F[k - 1], k - 1)
    BY ONLY <2>1 DEF WithFree
  <2> QED
    BY ONLY <2>2, <2>3
<1> QED
  BY ONLY <1>7, <1>8, <1>9 DEF base

\* Once all blocks are freed every request fits.
LEMMA ShuffledLegal ==
    ASSUME NEW n \in Nat, NEW t, Shuffled(t, n, n)
    PROVE  Legal(t) /\ IdsOf(t) = 0 .. n - 1 /\ Len(t) = 2 * n
<1> DEFINE len == n + n
<1>1. Len(t) = len /\ len \in Nat /\ DOMAIN t = 1 .. len /\ len = 2 * n
  <2>1. t \in Seq(Request) /\ Len(t) = len
    BY DEF Shuffled
  <2> QED
    BY ONLY <2>1, n \in Nat
<1>2. /\ \A p \in 1 .. len : t[p].cmd \in {"a", "f"} /\ t[p].id \in 0 .. n - 1
      /\ \A k \in 0 .. n - 1 : \E p \in 1 .. len : t[p].cmd = "a" /\ t[p].id = k
      /\ \A p, q \in 1 .. len :
          /\ t[p].cmd = t[q].cmd /\ t[p].id = t[q].id => p = q
          /\ t[p].cmd = "f" /\ t[q].cmd = "a" /\ t[p].id = t[q].id => q < p
  BY DEF Shuffled
<1> HIDE DEF len
<1>3. IdsOf(t) = 0 .. n - 1
  BY ONLY <1>1, <1>2 DEF IdsOf
<1>4. ASSUME NEW m \in 1 .. len, t[m].cmd = "a"
      PROVE  t[m].id \notin InUse(t, m - 1)
  <2> SUFFICES ASSUME t[m].id \in InUse(t, m - 1) PROVE FALSE
    OBVIOUS
  <2>1. PICK k \in 1 .. m - 1 : t[k].cmd = "a" /\ t[k].id = t[m].id
    BY DEF InUse
  <2>2. k \in 1 .. len /\ k # m
    BY ONLY <1>1, m \in 1 .. len, k \in 1 .. m - 1
  <2> QED
    BY ONLY <1>2, <1>4, <2>1, <2>2, m \in 1 .. len
<1>5. ASSUME NEW m \in 1 .. len, t[m].cmd = "f"
      PROVE  t[m].id \in InUse(t, m - 1)
  <2>1. PICK k \in 1 .. len : t[k].cmd = "a" /\ t[k].id = t[m].id
    <3>1. t[m].id \in 0 .. n - 1
      BY ONLY <1>2, m \in 1 .. len
    <3> QED
      BY ONLY <1>2, <3>1
  <2>2. k < m
    BY ONLY <1>2, <1>5, <2>1, m \in 1 .. len, k \in 1 .. len
  <2>3. k \in 1 .. m - 1
    BY ONLY <1>1, <2>2, m \in 1 .. len, k \in 1 .. len
  <2>4. ASSUME NEW j \in k .. m - 1, t[j].cmd = "f" PROVE t[j].id # t[k].id
    <3>1. j \in 1 .. len /\ j # m
      BY ONLY <1>1, m \in 1 .. len, k \in 1 .. len, j \in k .. m - 1
    <3> QED
      BY ONLY <1>2, <1>5, <2>1, <2>4, <3>1, m \in 1 .. len
  <2> QED
    BY ONLY <2>1, <2>3, <2>4 DEF InUse
<1>6. Legal(t)
  <2>1. ASSUME NEW m \in DOMAIN t
        PROVE  IF t[m].cmd = "a" THEN t[m].id \notin InUse(t, m - 1)
                                 ELSE t[m].id \in InUse(t, m - 1)
    <3>1. m \in 1 .. len /\ t[m].cmd \in {"a", "f"}
      BY ONLY <1>1, <1>2, m \in DOMAIN t
    <3>2. CASE t[m].cmd = "a"
      BY ONLY <1>4, <3>1, <3>2
    <3>3. CASE t[m].cmd = "f"
      <4>1. t[m].cmd # "a"
        BY ONLY <3>3
      <4> QED
        BY ONLY <1>5, <3>1, <3>3, <4>1
    <3> QED
      BY ONLY <3>1, <3>2, <3>3
  <2> QED
    BY ONLY <2>1 DEF Legal
<1> QED
  BY ONLY <1>1, <1>3, <1>6

\* gen_random.pl, whatever places rand chooses.
LEMMA RandomReadable ==
    ASSUME NEW n \in Nat, NEW sizes, sizes \subseteq Nat, NEW s \in gen_random(n, sizes)
    PROVE  Readable(s)
<1>1. PICK F : /\ gen_random(n, sizes) = {Trace("gen_random.pl", n, 2 * n, t) : t \in F[n]}
               /\ F[0] = {[k \in 1 .. n |-> a(k - 1, size[k])] : size \in [1 .. n -> sizes]}
               /\ \A k \in 1 .. n : F[k] = WithFree(F[k - 1], k - 1)
  BY RandomRec
<1> DEFINE S == {k \in 0 .. n : \A t \in F[k] : Shuffled(t, n, k)}
<1>2. 0 \in S
  <2> SUFFICES ASSUME NEW t \in F[0] PROVE Shuffled(t, n, 0)
    OBVIOUS
  <2>1. PICK size \in [1 .. n -> sizes] : t = [k \in 1 .. n |-> a(k - 1, size[k])]
    BY ONLY <1>1, t \in F[0]
  <2>2. size \in [1 .. n -> Nat]
    OBVIOUS
  <2> QED
    BY ONLY <2>1, <2>2, n \in Nat, AllocatedOnce
<1>3. ASSUME NEW k \in Nat, k < n, k \in S PROVE k + 1 \in S
  <2>1. k \in 0 .. n - 1 /\ k + 1 \in 1 .. n /\ k + 1 \in 0 .. n /\ (k + 1) - 1 = k
    BY ONLY n \in Nat, k \in Nat, <1>3
  <2>2. F[k + 1] = WithFree(F[k], k)
    BY ONLY <1>1, <2>1
  <2>3. \A t \in F[k] : Shuffled(t, n, k)
    BY <1>3
  <2> SUFFICES ASSUME NEW t \in F[k + 1] PROVE Shuffled(t, n, k + 1)
    BY <2>1
  <2>4. PICK t0 \in F[k] : \E pos \in FreePlaces(t0, k) : t = InsertAt(t0, pos + 1, f(k))
    BY ONLY <2>2, t \in F[k + 1] DEF WithFree
  <2>5. PICK pos \in FreePlaces(t0, k) : t = InsertAt(t0, pos + 1, f(k))
    BY ONLY <2>4
  <2> QED
    BY ONLY <2>1, <2>3, <2>4, <2>5, n \in Nat, FreeInserted
<1>4. \A k \in 0 .. n : k \in S
  <2> DEFINE T == {j \in Nat : j <= n => j \in S}
  <2>1. 0 \in T
    BY <1>2
  <2>2. ASSUME NEW j \in Nat, j \in T PROVE j + 1 \in T
    <3> HIDE DEF S
    <3> QED
      BY <1>3, <2>2
  <2> HIDE DEF T, S
  <2>3. Nat \subseteq T
    BY ONLY <2>1, <2>2, InductionOnSet
  <2> QED
    BY <2>3 DEF T
<1>5. n \in S
  BY <1>4
<1>6. PICK t \in F[n] : s = Trace("gen_random.pl", n, 2 * n, t)
  BY <1>1
<1>7. Shuffled(t, n, n)
  BY <1>5
<1> QED
  BY <1>6, <1>7, ShuffledLegal DEF Readable, Trace

\* What the generators print, for all numbers of iterations and all sizes.
GeneratorTraces ==
    {gen_binary(n, size1, size2) : n, size1, size2 \in Nat}
    \cup {gen_coalescing(n, size) : n, size \in Nat}
    \cup {gen_realloc(n, size, increment, malloc_size) :
             n \in Nat \ {0}, size, increment, malloc_size \in Nat}
    \cup UNION {gen_random(n, sizes) : n \in Nat, sizes \in SUBSET Nat}

\* Whatever numbers and sizes a generator is called with, and wherever gen_random
\* places a free, its requests fit together, the header promises as many as are
\* printed, and their ids run from 0 up to num_ids.
THEOREM GeneratorsReadable == \A s \in GeneratorTraces : Readable(s)
<1> SUFFICES ASSUME NEW s \in GeneratorTraces PROVE Readable(s)
  OBVIOUS
<1>1. CASE s \in {gen_binary(n, size1, size2) : n, size1, size2 \in Nat}
  BY <1>1, BinaryReadable
<1>2. CASE s \in {gen_coalescing(n, size) : n, size \in Nat}
  BY <1>2, CoalescingReadable
<1>3. CASE s \in {gen_realloc(n, size, increment, malloc_size) :
                     n \in Nat \ {0}, size, increment, malloc_size \in Nat}
  BY <1>3, ReallocReadable
<1>4. CASE s \in UNION {gen_random(n, sizes) : n \in Nat, sizes \in SUBSET Nat}
  <2>1. PICK n \in Nat, sizes \in SUBSET Nat : s \in gen_random(n, sizes)
    BY <1>4
  <2> QED
    BY <2>1, RandomReadable
<1> QED
  BY <1>1, <1>2, <1>3, <1>4 DEF GeneratorTraces

(***************************************************************************)
(* The theorems                                                            *)
(***************************************************************************)
\* The script ends in the middle of a trace of allocate, realloc and free
\* requests exactly when one of them does not fit.
THEOREM RefusedExactlyCorrect == Spec => []RefusedExactly
<1>1. TallyInv => RefusedExactly
  BY DEF TallyInv, RefusedExactly
<1> QED
  BY <1>1, ScriptCorrect, PTL

\* The trace it prints is balanced, and what -s says of a trace is true.
THEOREM OutputBalancedCorrect == Spec => []OutputBalanced
<1>1. ReadInv /\ TallyInv /\ PrintInv => OutputBalanced
  BY DEF ReadInv, TallyInv, PrintInv, OutputBalanced, InUseOut, InUseNow
<1> QED
  BY <1>1, ScriptCorrect, PTL

\* The header it prints counts the requests that it prints.
THEOREM HeaderStaysRightCorrect == Spec => []HeaderStaysRight
<1>1. ReadInv /\ PrintInv => HeaderStaysRight
  <2> SUFFICES ASSUME ReadInv, PrintInv, pc = "done", script.num_ops = Len(lines)
               PROVE  new_num_ops = Len(out)
    BY DEF HeaderStaysRight
  <2>1. /\ out \in Seq(Line) /\ lines \in Seq(Line)
        /\ new_num_ops = Len(lines) + Cardinality(DOMAIN HASH)
        /\ Len(out) + Cardinality({}) = Len(lines) + Cardinality(DOMAIN HASH)
    BY DEF ReadInv, PrintInv
  <2>2. Cardinality({}) = 0
    BY FS_EmptySet
  <2> QED
    BY <2>1, <2>2
<1> QED
  BY <1>1, ScriptCorrect, PTL

\* The traces of the generators, of any length and however gen_random places the
\* frees, are read without an objection and printed as traces that read_trace
\* can read.
THEOREM GeneratedReadableCorrect ==
    ASSUME Generated \subseteq GeneratorTraces
    PROVE  Spec => []GeneratedReadable
<1>1. \A s \in Generated : Readable(s)
  BY GeneratorsReadable
<1> QED
  BY <1>1, ReadableCorrect

=============================================================================
