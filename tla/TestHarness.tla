---------------------------- MODULE TestHarness -----------------------------
(***************************************************************************)
(* labs/datalab-handout/btest.c: run_tests() tests every puzzle of         *)
(* test_set[].  test_function generates values for each argument, sets a   *)
(* time limit with alarm() and compares the solution with the reference    *)
(* function on every combination of the values, up to the first difference. *)
(* The handler of SIGALRM jumps back into test_function with siglongjmp.   *)
(*                                                                         *)
(* alarm() is never cancelled, so the signal may arrive at any moment      *)
(* after the first alarm() until the process ends.  A puzzle is abstracted *)
(* to the arguments on which its solution is wrong or does not return.     *)
(* Left out: the options that fix an argument, and the values for          *)
(* arguments that stand for floats, of which decl.c has none.              *)
(***************************************************************************)
EXTENDS Integers, Sequences, FiniteSets, SequencesExt

CONSTANTS
    test_set,       \* sequence of [rating, ranges, wrong, hangs]
    TEST_RANGE,     \* values around each bound, 500000 in the code
    Draws,          \* the values random_val may return
    Chosen,         \* the puzzles that -f lets pass, all of them without -f
    Limits          \* values of option -T; 0 is no limit

MAX_TEST_VALS == 13 * TEST_RANGE

ASSUME HarnessAssumption ==
    /\ TEST_RANGE \in Nat \ {0}
    /\ test_set \in Seq([rating : Nat, ranges : Seq([min : Int, max : Int]),
                         wrong : SUBSET Seq(Int), hangs : SUBSET Seq(Int)])
    /\ Chosen \subseteq DOMAIN test_set
    /\ Limits \subseteq Nat
    /\ \A p \in DOMAIN test_set :
        /\ Len(test_set[p].ranges) \in 0 .. 3
        /\ \A c \in DOMAIN test_set[p].ranges :
              LET range == test_set[p].ranges[c] IN
              /\ range.max >= range.min
              /\ range.max - range.min # MAX_TEST_VALS  \* gen_vals would need one place more
              /\ \/ range.max - range.min < MAX_TEST_VALS
                 \/ Draws \cap range.min .. range.max # {}

VARIABLES
    timeout_limit,  \* option -T, written once
    pc,             \* "run_tests", a point of test_function, "returned", ...
    i,              \* the puzzle
    vals,           \* values of the arguments that have got theirs
    n,              \* combinations tested
    terrors,        \* what test_function returns
    errors,         \* run_tests: sum of terrors
    points,         \* run_tests: points earned
    alarm,          \* the puzzle whose alarm() is pending, or 0
    timedout,       \* reports of timeouts: of a puzzle, by the alarm of one, at the costs of one
    scored,         \* scored[p]: what run_tests last made of p
    stray           \* a signal has found no frame of test_function

options == timeout_limit
sums    == <<errors, points, scored>>       \* what run_tests keeps
signals == <<alarm, timedout, stray>>       \* what SIGALRM and alarm() change
vars == <<timeout_limit, pc, i, vals, n, terrors, errors, points, alarm, timedout, scored,
          stray>>

Init ==
    /\ timeout_limit \in Limits
    /\ pc = "run_tests"
    /\ i = 1
    /\ vals = <<>>
    /\ n = 0
    /\ terrors = 0
    /\ errors = 0
    /\ points = 0
    /\ alarm = 0
    /\ timedout = {}
    /\ scored = [p \in Chosen |-> "not yet"]
    /\ stray = FALSE

t    == test_set[i]
args == Len(t.ranges)

\* Combination m of the loops over a1, a2 and a3, the last one innermost.
Product(lists) ==
    LET product[k \in 0 .. Len(lists)] ==
            IF k = 0 THEN 1 ELSE product[k - 1] * Len(lists[k])
    IN product[Len(lists)]

Combination(m) ==
    [c \in DOMAIN vals |->
        LET block == Product(SubSeq(vals, c + 1, Len(vals))) IN
        vals[c][((m \div block) % Len(vals[c])) + 1]]

(***************************************************************************)
(* gen_vals                                                                *)
(***************************************************************************)
\* arg_test_range: the square and the cube root keep the number of tests.
Root(k) == Max({1} \cup {b \in 1 .. TEST_RANGE : b ^ k <= TEST_RANGE})
arg_test_range(number) == Root(IF number = 1 THEN 1 ELSE IF number = 2 THEN 2 ELSE 3)

random_val(range) == Draws \cap range.min .. range.max

IfWithin(range, v) == IF v \in range.min .. range.max THEN <<v>> ELSE <<>>

\* Fault: the values below max are taken above it.
AroundAbove(range, k, random) ==
    <<range.min + k, range.max + k>> \o IfWithin(range, k) \o IfWithin(range, -k) \o <<random>>

\* What turn k of the loop adds: near the bounds, around zero, at random.
Around(range, k, random) ==
    <<range.min + k, range.max - k>> \o IfWithin(range, k) \o IfWithin(range, -k) \o <<random>>

\* The sequences of values gen_vals may choose for an argument.
gen_vals(range, test_range) ==
    IF range.max - MAX_TEST_VALS <= range.min
    THEN {[k \in 1 .. range.max - range.min + 1 |-> range.min + k - 1]}
    ELSE {FlattenSeq([k \in 1 .. test_range |-> Around(range, k - 1, random[k])]) :
            random \in [1 .. test_range -> random_val(range)]}

(***************************************************************************)
(* run_tests                                                               *)
(***************************************************************************)
\* Fault: the error of the puzzle before is still there.
NoErrorsKept == UNCHANGED terrors

\* The local count of test_function.
NoErrors == terrors' = 0

CallTest ==
    /\ pc = "run_tests"
    /\ i \in Chosen
    /\ pc' = "gen_vals"
    /\ vals' = <<>>
    /\ NoErrors
    /\ UNCHANGED <<options, i, n, sums, signals>>

SkipPuzzle ==
    /\ pc = "run_tests"
    /\ i \in DOMAIN test_set \ Chosen
    /\ i' = i + 1
    /\ UNCHANGED <<options, pc, vals, n, terrors, sums, signals>>

\* Fault: the errors are not added up.
CountErrorsLast == errors' = terrors

CountErrors == errors' = errors + terrors

\* test_function has returned: all the points or none.  After a stray signal
\* i may be a puzzle that is skipped or the end of test_set[]: only the error
\* is counted then.
Score ==
    /\ pc = "returned"
    /\ CountErrors
    /\ points' = IF terrors = 0 THEN points + t.rating ELSE points
    /\ scored' = [p \in Chosen |->
                    IF p # i THEN scored[p] ELSE IF terrors = 0 THEN "full" ELSE "zero"]
    /\ i' = i + 1
    /\ pc' = "run_tests"
    /\ UNCHANGED <<options, vals, n, terrors, signals>>

\* The loop ends where test_set[] does; behind that place it reads whatever
\* is there.
Exit ==
    /\ pc = "run_tests"
    /\ i \notin DOMAIN test_set
    /\ \/ pc' = "exit"
       \/ i > Len(test_set) + 1 /\ pc' = "killed"
    /\ UNCHANGED <<options, i, vals, n, terrors, sums, signals>>

(***************************************************************************)
(* test_function                                                           *)
(***************************************************************************)
MoreArgs == Len(vals) < args

GenVals ==
    /\ pc = "gen_vals"
    /\ MoreArgs
    /\ \E list \in gen_vals(t.ranges[Len(vals) + 1], arg_test_range(args)) :
          vals' = Append(vals, list)
    /\ UNCHANGED <<options, pc, i, n, terrors, sums, signals>>

\* sigsetjmp comes first, if there is a limit.
ValuesDone ==
    /\ pc = "gen_vals"
    /\ ~MoreArgs
    /\ n' = 0
    /\ pc' = IF timeout_limit > 0 THEN "sigsetjmp" ELSE "test"
    /\ UNCHANGED <<options, i, vals, terrors, sums, signals>>

SaveEnv ==
    /\ pc = "sigsetjmp"
    /\ pc' = "alarm"
    /\ UNCHANGED <<options, i, vals, n, terrors, sums, signals>>

\* Fault: an alarm that is pending is left alone.
ArmIfNone == alarm' = IF alarm = 0 THEN i ELSE alarm

\* Fault: no alarm is set.
ArmNever == UNCHANGED alarm

\* alarm(timeout_limit) replaces the alarm that is pending.
Arm == alarm' = i

SetAlarm ==
    /\ pc = "alarm"
    /\ Arm
    /\ pc' = "test"
    /\ UNCHANGED <<options, i, vals, n, terrors, timedout, stray, sums>>

\* Fault: the last combination is not tested.
TestsLeftShort == n < Product(vals) - 1

TestsLeft == n < Product(vals)

\* One call of solution and reference; the first difference ends the test.
Test ==
    /\ pc = "test"
    /\ TestsLeft
    /\ Combination(n) \notin t.hangs
    /\ IF Combination(n) \in t.wrong
       THEN terrors' = terrors + 1 /\ pc' = "returned"
       ELSE UNCHANGED <<terrors, pc>>
    /\ n' = n + 1
    /\ UNCHANGED <<options, i, vals, sums, signals>>

\* The solution does not return.
Hang ==
    /\ pc = "test"
    /\ TestsLeft
    /\ Combination(n) \in t.hangs
    /\ UNCHANGED vars

Return ==
    /\ pc = "test"
    /\ ~TestsLeft
    /\ pc' = "returned"
    /\ UNCHANGED <<options, i, vals, n, terrors, sums, signals>>

(***************************************************************************)
(* SIGALRM.  The calls of test_function, all from the same place of        *)
(* run_tests, have their frames at the same address.  So siglongjmp lands  *)
(* in the call that is active, even before it has called sigsetjmp itself. *)
(* When none is active it is undefined.  The process dies, or the call     *)
(* that has returned last returns again: to an i and a sum of errors as    *)
(* they are, or, where the compiler keeps them in registers that the dead  *)
(* frame has saved, as they were at that call.                             *)
(***************************************************************************)
FrameActive == pc \in {"gen_vals", "sigsetjmp", "alarm", "test"}
Ended       == pc \in {"exit", "killed"}

Timeout ==
    /\ alarm # 0
    /\ FrameActive
    /\ alarm' = 0
    /\ terrors' = 1
    /\ timedout' = timedout \cup {[of |-> i, by |-> alarm, costs |-> i]}
    /\ pc' = "returned"
    /\ UNCHANGED <<options, i, vals, n, stray, sums>>

\* The errors before the last call: the same as now until they are counted.
ErrorsAtCall == IF pc = "run_tests" THEN errors - terrors ELSE errors

TimeoutNoFrame ==
    /\ alarm # 0
    /\ ~FrameActive
    /\ ~Ended
    /\ alarm' = 0
    /\ stray' = TRUE
    /\ \/ pc' = "killed" /\ UNCHANGED <<i, terrors, errors, timedout>>
       \/ /\ pc' = "returned"
          /\ i' \in {i, alarm}
          /\ terrors' = 1
          /\ errors' \in {errors, ErrorsAtCall}
          /\ timedout' = timedout \cup {[of |-> alarm, by |-> alarm, costs |-> i']}
    /\ UNCHANGED <<options, vals, n, points, scored>>

timeout_handler == Timeout \/ TimeoutNoFrame

run_tests ==
    \/ CallTest \/ SkipPuzzle \/ Score \/ Exit
    \/ GenVals \/ ValuesDone \/ SaveEnv \/ SetAlarm \/ Test \/ Return

Next ==
    \/ run_tests
    \/ Hang
    \/ timeout_handler
    \/ Ended /\ UNCHANGED vars

Spec == Init /\ [][Next]_vars

\* The process runs, and the alarm clock of the system rings some time.
FairSpec == Spec /\ WF_vars(run_tests) /\ WF_vars(timeout_handler)

(***************************************************************************)
(* Properties                                                              *)
(***************************************************************************)
\* The combinations of arguments drawn from one set for each argument.
Tuples(sets) ==
    {tuple \in [DOMAIN sets -> UNION {sets[c] : c \in DOMAIN sets}] :
        \A c \in DOMAIN sets : tuple[c] \in sets[c]}

Bad(p) == test_set[p].wrong \cup test_set[p].hangs
Right  == {p \in Chosen :
    Tuples([c \in DOMAIN test_set[p].ranges |->
               test_set[p].ranges[c].min .. test_set[p].ranges[c].max]) \cap Bad(p) = {}}

\* The values of an argument that are tested whatever random_val returns: all
\* of a small range, otherwise those next to the bounds and to zero.
Always(range, r) ==
    IF range.max - range.min <= MAX_TEST_VALS
    THEN range.min .. range.max
    ELSE (range.min .. range.min + r - 1) \cup (range.max - r + 1 .. range.max)
         \cup ((1 - r .. r - 1) \cap range.min .. range.max)

\* The puzzles on which no test is sure to find an error.
MayPass == {p \in Chosen :
    LET ranges == test_set[p].ranges IN
    Tuples([c \in DOMAIN ranges |-> Always(ranges[c], arg_test_range(Len(ranges)))])
        \cap Bad(p) = {}}

\* The ratings of those up to p added up.
MayEarn[p \in 0 .. Len(test_set)] ==
    IF p = 0 THEN 0
    ELSE IF p \in MayPass THEN MayEarn[p - 1] + test_set[p].rating ELSE MayEarn[p - 1]

MaxPoints == MayEarn[Len(test_set)]

\* Every variable has its type; the values of an argument lie in its range and
\* fit their array, and the tests stay within the combinations.
TypeOK ==
    /\ pc \in {"run_tests", "gen_vals", "sigsetjmp", "alarm", "test", "returned",
               "exit", "killed"}
    /\ timeout_limit \in Limits
    /\ i \in 1 .. Len(test_set) + 2
    /\ FrameActive => \A c \in DOMAIN vals :
          /\ Len(vals[c]) <= MAX_TEST_VALS
          /\ ToSet(vals[c]) \subseteq t.ranges[c].min .. t.ranges[c].max
    /\ pc = "test" => n \in 0 .. Product(vals)
    /\ terrors \in {0, 1}
    /\ errors \in Nat
    /\ points \in Nat
    /\ alarm \in Chosen \cup {0}
    /\ timedout \subseteq [of : Chosen, by : Chosen, costs : 1 .. Len(test_set) + 1]
    /\ scored \in [Chosen -> {"not yet", "full", "zero"}]
    /\ stray \in BOOLEAN

\* A solution that is wrong on a small range, next to the bounds of a large one
\* or next to zero gets no points, wherever the signals come.
NoUndeservedPoints ==
    /\ points <= MaxPoints
    /\ \A p \in Chosen : scored[p] = "full" => p \in MayPass

\* q is the puzzle that was tested before p.
JustBefore(q, p) == q < p /\ \A x \in Chosen : ~ (q < x /\ x < p)

\* A right solution loses its points only to a timeout: to its own alarm or to
\* the one that the puzzle tested just before it has left pending, never to an
\* older one and never to a difference.  Unless a signal has hit run_tests, the
\* puzzle reported as timed out is the one that loses its points.
LostByTimeoutOnly ==
    \A p \in Right : scored[p] = "zero" =>
        \E r \in timedout :
            /\ r.costs = p
            /\ r.by = p \/ JustBefore(r.by, p)
            /\ r.of = p \/ stray

\* Without a limit (-T 0) nothing times out and the scores are exact, but for
\* an error that only a random value may find.
ExactWithoutLimit ==
    timeout_limit = 0 =>
        /\ timedout = {}
        /\ \A p \in Right : scored[p] # "zero"
        /\ \A p \in Chosen \ MayPass : scored[p] # "full"

\* As long as no signal hits run_tests, the errors count the puzzles without
\* points, one each.
OneErrorEach ==
    ~stray => errors = Cardinality({p \in Chosen : scored[p] = "zero"})

\* While the tests of a puzzle run the alarm that is pending is its own: none
\* runs without a limit or under the one of another puzzle.
TestsLimited == (pc = "test" /\ timeout_limit > 0) => alarm = i

\* btest handles infinite loops by an upper limit on the execution time: it
\* ends, whichever solutions do not return, unless the limit is switched off.
Ends == timeout_limit > 0 => <>Ended

\* "Test %s failed.  Timed out after %d secs (probably infinite loop)" is
\* printed of a puzzle only when its own alarm has rung.
OnlyOwnTimeout == \A r \in timedout : r.by = r.of

=============================================================================
