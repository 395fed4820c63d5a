------------------------------ MODULE Histogram ------------------------------
(***************************************************************************)
(* What the threadlab promises of every kernel, without threads, blocks or *)
(* semaphores.  In each round a histogram is filled from zero: a step      *)
(* counts some items of one bucket that no step counted before, all at     *)
(* once.  When the round is closed it is judged, and it passes exactly     *)
(* when every item has been counted.                                       *)
(***************************************************************************)
EXTENDS Integers, FiniteSets

CONSTANTS Items, Buckets, Rounds

VARIABLES
  class,     \* the bucket of every item
  phase,     \* before input is chosen, or what the current round is doing
  round,     \* the round, a member of Rounds
  histogram, \* the result so far
  counted,   \* the items in it
  passed     \* the rounds that passed

vars == <<class, phase, round, histogram, counted, passed>>

Init ==
  /\ class \in [Items -> Buckets]
  /\ phase = "input"
  /\ round = 0
  /\ histogram = [b \in Buckets |-> 0]
  /\ counted = {}
  /\ passed = {}

ChooseInput ==
  /\ phase = "input"
  /\ class' \in [Items -> Buckets]
  /\ phase' = "idle"
  /\ UNCHANGED <<round, histogram, counted, passed>>

Begin ==
  /\ phase = "idle"
  /\ phase' = "counting"
  /\ histogram' = [b \in Buckets |-> 0]
  /\ UNCHANGED <<class, round, counted, passed>>

Count(b, S) ==
  /\ phase = "counting"
  /\ \A x \in S : class[x] = b /\ x \notin counted
  /\ counted' = counted \cup S
  /\ histogram' = [histogram EXCEPT ![b] = @ + Cardinality(S)]
  /\ UNCHANGED <<class, phase, round, passed>>

\* The histogram is final.
Close ==
  /\ phase = "counting"
  /\ phase' = "closed"
  /\ UNCHANGED <<class, round, histogram, counted, passed>>

Judge ==
  /\ phase = "closed"
  /\ phase' = "judged"
  /\ passed' = IF counted = Items THEN passed \cup {round} ELSE passed
  /\ UNCHANGED <<class, round, histogram, counted>>

NextRound ==
  /\ phase = "judged"
  /\ counted' = {}
  /\ \/ round + 1 \in Rounds /\ round' = round + 1 /\ phase' = "idle"
     \/ round + 1 \notin Rounds /\ phase' = "ended" /\ UNCHANGED round
  /\ UNCHANGED <<class, histogram, passed>>

\* The process may be killed while it closes a round.
Crash ==
  /\ phase = "counting"
  /\ phase' = "crashed"
  /\ counted' = {}
  /\ UNCHANGED <<class, round, histogram, passed>>

Next ==
  \/ ChooseInput \/ Begin
  \/ \E b \in Buckets, S \in SUBSET Items : Count(b, S)
  \/ Close \/ Judge \/ NextRound \/ Crash

Spec == Init /\ [][Next]_vars
=============================================================================
