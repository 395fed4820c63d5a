------------------------- MODULE FunctionTimerProofs -------------------------
(***************************************************************************)
(* Proofs about FunctionTimer: the counter's two-word difference is exact, *)
(* callibrate records nothing but a tick's cost and what adds up below     *)
(* THRESHOLD, a measurement is off by no more than the ticks explain, and  *)
(* fcyc over the cycle counter is an instance of the K-best scheme of      *)
(* Sampler, so that what SamplerProofs shows of the scheme holds of its    *)
(* measurements.                                                           *)
(***************************************************************************)
EXTENDS FunctionTimer, SamplerProofs

\* The constants, one by one.
LEMMA Sizes ==
    /\ WORD \in Nat /\ WORD > 0
    /\ WORD * WORD \in Nat /\ WORD * WORD > 0
    /\ StartTSC \subseteq 0 .. WORD * WORD - 1
    /\ MinTick \in Nat /\ MaxTick \in Nat
    /\ \A cost \in TickCosts : cost \in Nat /\ MinTick <= cost /\ cost <= MaxTick
    /\ MinTick <= MaxTick
    /\ MinPeriod \in Nat /\ MinPeriod > 0
    /\ THRESHOLD \in Nat /\ THRESHOLD > 0 /\ RECORDTHRESH \in Nat
    /\ TurnCycles \subseteq Nat /\ TurnCycles # {}
    /\ FunctionCycles \subseteq Nat
    /\ \A c \in TurnCycles : THRESHOLD + c <= RECORDTHRESH + 1 /\ THRESHOLD + c < MinPeriod
<1> USE TimerAssumption DEF TimerAssumption
<1>1. WORD \in Nat /\ WORD > 0 /\ WORD * WORD \in Nat /\ WORD * WORD > 0
  <2>1. WORD \in Nat /\ WORD > 0
    OBVIOUS
  <2>2. PICK d \in Nat : WORD = 1 + d
    BY <2>1
  <2>3. WORD * WORD = 1 + 2 * d + d * d /\ d * d \in Nat
    BY <2>2
  <2> QED
    BY <2>1, <2>3
<1>2. MinPeriod \in Nat /\ MinPeriod > 0
  <2>1. PICK c \in TurnCycles : TRUE
    OBVIOUS
  <2>2. c \in Nat /\ THRESHOLD \in Nat /\ MinPeriod \in Nat /\ THRESHOLD + c < MinPeriod
    OBVIOUS
  <2> QED
    BY <2>2
<1>3. /\ MinTick \in Nat /\ MaxTick \in Nat
      /\ TickCosts \subseteq MinTick .. MaxTick /\ TickCosts # {}
  OBVIOUS
<1>4. \A cost \in TickCosts : cost \in Nat /\ MinTick <= cost /\ cost <= MaxTick
  BY <1>3
<1>5. MinTick <= MaxTick
  <2>1. PICK cost \in TickCosts : TRUE
    BY <1>3
  <2> QED
    BY <1>3, <1>4, <2>1
<1> QED
  BY <1>1, <1>2, <1>3, <1>4, <1>5

(***************************************************************************)
(* Arithmetic                                                              *)
(***************************************************************************)
\* Multiplying with a natural number keeps the order.
LEMMA TimesMonotone ==
    ASSUME NEW a \in Int, NEW b \in Int, NEW c \in Nat, a <= b
    PROVE  a * c <= b * c
<1>1. PICK d \in Nat : b = a + d
  <2>1. b - a \in Nat /\ b = a + (b - a)
    OBVIOUS
  <2> QED
    BY <2>1
<1>2. b * c = a * c + d * c /\ d * c \in Nat /\ a * c \in Int
  BY <1>1
<1> QED
  BY <1>2

\* Division with remainder.
LEMMA Remainder ==
    ASSUME NEW x \in Int, NEW b \in Nat, b > 0
    PROVE  x \div b \in Int /\ x % b \in 0 .. b - 1 /\ x = (x \div b) * b + (x % b)
<1>1. x \div b \in Int /\ x % b \in 0 .. b - 1
  OBVIOUS
<1>2. x = b * (x \div b) + (x % b)
  BY SMTT(30)
<1> QED
  BY <1>1, <1>2

\* Below twice the divisor the remainder subtracts it once at most.
LEMMA WrapOnce ==
    ASSUME NEW x \in Nat, NEW m \in Nat, m > 0, x < 2 * m
    PROVE  x % m \in 0 .. m - 1 /\ (x % m = x \/ x % m = x - m)
<1>1. CASE x < m
  BY <1>1
<1>2. CASE x >= m
  <2>1. x - m \in 0 .. m - 1
    BY <1>2
  <2> QED
    BY <1>2, <2>1
<1> QED
  BY <1>1, <1>2

\* A number between 0 and b * b has its quotient below b.
LEMMA QuotientBelow ==
    ASSUME NEW d \in Int, NEW r \in Int, NEW b \in Nat, r >= 0, r < b,
           d * b + r >= 0, d * b + r < b * b
    PROVE  d \in 0 .. b - 1
<1>1. d >= 0
  <2>1. SUFFICES ASSUME d <= -1 PROVE FALSE
    OBVIOUS
  <2>2. d * b <= (-1) * b /\ d * b \in Int
    BY <2>1, TimesMonotone
  <2> QED
    BY <2>2
<1>2. d < b
  <2>1. SUFFICES ASSUME b <= d PROVE FALSE
    OBVIOUS
  <2>2. b * b <= d * b /\ b * b \in Int /\ d * b \in Int
    BY <2>1, TimesMonotone
  <2> QED
    BY <2>2
<1> QED
  BY <1>1, <1>2

\* Taking the difference of two counters word by word, with a borrow, gives the
\* difference of the counters, as a number of two words.
LEMMA CounterDifference ==
    ASSUME NEW t \in 0 .. WORD * WORD - 1,
           NEW ch \in 0 .. WORD - 1, NEW cl \in 0 .. WORD - 1,
           NEW d \in Nat, d < WORD * WORD,
           \/ t = ch * WORD + cl + d
           \/ t = ch * WORD + cl + d - WORD * WORD
    PROVE  LET lo == ((t % WORD) - cl) % WORD
               hi == ((t \div WORD) - ch - (IF lo > (t % WORD) THEN 1 ELSE 0)) % WORD
           IN  hi * WORD + lo = d
<1> DEFINE h  == t \div WORD
           l  == t % WORD
           lo == (l - cl) % WORD
           bw == IF lo > l THEN 1 ELSE 0
           q  == h - ch - bw
<1>1. /\ WORD \in Nat /\ WORD > 0 /\ WORD * WORD \in Nat /\ t \in Int
      /\ ch \in Int /\ ch * WORD \in Int /\ cl \in 0 .. WORD - 1
  BY Sizes
<1>2. /\ h \in Int /\ l \in 0 .. WORD - 1 /\ h * WORD \in Int
      /\ \/ h * WORD + l = ch * WORD + cl + d
         \/ h * WORD + l = ch * WORD + cl + d - WORD * WORD
  <2>1. h \in Int /\ l \in 0 .. WORD - 1 /\ t = h * WORD + l
    BY <1>1, Remainder
  <2> HIDE DEF h, l
  <2> QED
    BY <2>1, <1>1
<1> HIDE DEF h, l
<1>3. lo \in 0 .. WORD - 1 /\ bw \in {0, 1} /\ lo = l - cl + bw * WORD
  <2>1. CASE l >= cl
    <3>1. l - cl \in 0 .. WORD - 1
      BY <1>1, <1>2, <2>1
    <3>2. lo = l - cl
      BY <1>1, <3>1
    <3> QED
      BY <1>1, <1>2, <3>1, <3>2
  <2>2. CASE l < cl
    <3>1. /\ l - cl + WORD \in 0 .. WORD - 1 /\ l - cl + WORD > l
          /\ l - cl < 0 /\ l - cl > -WORD
      BY <1>1, <1>2, <2>2
    <3>2. lo = l - cl + WORD
      BY <1>1, <1>2, <3>1
    <3> QED
      BY <1>1, <1>2, <3>1, <3>2
  <2> QED
    BY <1>1, <1>2, <2>1, <2>2
<1> HIDE DEF lo, bw
<1>4. /\ q \in Int /\ q * WORD = h * WORD - ch * WORD - bw * WORD
      /\ (q + WORD) * WORD = q * WORD + WORD * WORD
  BY <1>1, <1>2, <1>3
<1>5. \/ q * WORD + lo = d
      \/ (q + WORD) * WORD + lo = d
  BY <1>1, <1>2, <1>3, <1>4
<1>6. (q % WORD) * WORD + lo = d
  <2>1. CASE q * WORD + lo = d
    <3>1. q \in 0 .. WORD - 1
      BY <1>1, <1>3, <1>4, <2>1, QuotientBelow
    <3>2. q % WORD = q
      BY <1>1, <3>1
    <3> QED
      BY <2>1, <3>2
  <2>2. CASE (q + WORD) * WORD + lo = d
    <3>1. q + WORD \in 0 .. WORD - 1
      BY <1>1, <1>3, <1>4, <2>2, QuotientBelow
    <3>2. q % WORD = q + WORD
      <4>1. q \in Int /\ WORD \in Nat /\ q < 0 /\ q >= -WORD
        BY <1>1, <1>4, <3>1
      <4> HIDE DEF q
      <4> QED
        BY <4>1, <3>1
    <3> QED
      BY <2>2, <3>2
  <2> QED
    BY <1>5, <2>1, <2>2
<1> QED
  BY <1>6 DEF bw, lo, h, l

(***************************************************************************)
(* The counter                                                             *)
(***************************************************************************)
\* start_counter left the counter at cyc_hi, cyc_lo; since then it has gone on
\* by elapsed, past its largest value once perhaps.
CounterInv ==
    /\ tsc \in 0 .. WORD * WORD - 1
    /\ cyc_hi \in 0 .. WORD - 1 /\ cyc_lo \in 0 .. WORD - 1
    /\ elapsed \in 0 .. WORD * WORD
    /\ elapsed < WORD * WORD =>
         \/ tsc = cyc_hi * WORD + cyc_lo + elapsed
         \/ tsc = cyc_hi * WORD + cyc_lo + elapsed - WORD * WORD

Steps == {"start", "callibrate", "cal_start", "turn", "event",
          "comp_times", "comp_start", "call", "comp_ticks"}

ClockInv ==
    /\ CounterInv
    /\ phase \in Nat /\ ticks \in Nat
    /\ reading \in Int /\ oldt \in Int /\ own \in Nat /\ lost \in Nat
    /\ cyc_per_tick \in Nat
    /\ compensate \in BOOLEAN
    /\ step \in Steps
    /\ pc # "measure" => step = "start"

\* get_counter is the number of cycles since start_counter, unless there were
\* too many.
LEMMA CounterExact == CounterInv => ElapsedExact /\ get_counter \in Int
<1> SUFFICES ASSUME CounterInv PROVE ElapsedExact /\ get_counter \in Int
  OBVIOUS
<1>1. ASSUME elapsed < WORD * WORD PROVE get_counter = elapsed
  BY <1>1, CounterDifference DEF CounterInv, get_counter, borrow
<1>2. get_counter \in Int
  <2>1. WORD \in Nat /\ WORD > 0 /\ tsc \in Int /\ cyc_lo \in Int /\ cyc_hi \in Int
    BY Sizes DEF CounterInv
  <2>2. \A x \in Int : x % WORD \in Int /\ x \div WORD \in Int
    BY <2>1
  <2>3. \A lo \in Int : borrow(lo) \in Int
    BY DEF borrow
  <2>4. \A x, y \in Int : x * WORD + y \in Int
    BY <2>1
  <2> QED
    BY <2>1, <2>2, <2>3, <2>4 DEF get_counter
<1> QED
  BY <1>1, <1>2 DEF ElapsedExact

\* When time passes the counter reads that much more, until time stops.
LEMMA AdvanceCounter ==
    ASSUME CounterInv, NEW c \in Nat, Advance(c), UNCHANGED counter
    PROVE  /\ CounterInv'
           /\ \/ elapsed' < WORD * WORD /\ get_counter' = get_counter + c
              \/ elapsed' = WORD * WORD /\ get_counter' = get_counter
<1> USE DEF counter
<1>1. /\ WORD \in Nat /\ WORD > 0 /\ WORD * WORD \in Nat /\ WORD * WORD > 0
      /\ cyc_hi * WORD \in Nat /\ tsc \in Int /\ elapsed \in Nat
      /\ cyc_hi * WORD + cyc_lo < WORD * WORD
  <2>1. WORD \in Nat /\ WORD > 0 /\ WORD * WORD \in Nat /\ WORD * WORD > 0
    BY Sizes
  <2>2. cyc_hi * WORD <= (WORD - 1) * WORD /\ (WORD - 1) * WORD = WORD * WORD - WORD
        /\ cyc_hi * WORD \in Nat
    <3>1. cyc_hi \in Int /\ cyc_hi >= 0 /\ WORD - 1 \in Int /\ cyc_hi <= WORD - 1
      BY <2>1 DEF CounterInv
    <3>2. cyc_hi * WORD <= (WORD - 1) * WORD
      BY <3>1, <2>1, TimesMonotone
    <3>3. cyc_hi * WORD \in Nat /\ (WORD - 1) * WORD = WORD * WORD - WORD
      BY <3>1, <2>1
    <3> QED
      BY <3>2, <3>3
  <2> QED
    BY <2>1, <2>2 DEF CounterInv
<1>2. CASE elapsed + c < WORD * WORD
  <2>1. elapsed' = elapsed + c /\ tsc' = (tsc + c) % (WORD * WORD)
    BY <1>2 DEF Advance
  <2>2. tsc + c \in Nat /\ c \in Nat /\ elapsed < WORD * WORD /\ c < WORD * WORD
    BY <1>1, <1>2 DEF CounterInv
  <2>3. /\ tsc' \in 0 .. WORD * WORD - 1
        /\ tsc' = tsc + c \/ tsc' = tsc + c - WORD * WORD
    <3>1. tsc + c < 2 * (WORD * WORD)
      BY <1>1, <2>2 DEF CounterInv
    <3> QED
      BY <1>1, <2>1, <2>2, <3>1, WrapOnce
  <2>4. CounterInv'
    <3>1. tsc = cyc_hi * WORD + cyc_lo + elapsed \/ tsc = cyc_hi * WORD + cyc_lo + elapsed - WORD * WORD
      BY <2>2 DEF CounterInv
    <3>2. \/ tsc' = cyc_hi * WORD + cyc_lo + elapsed'
          \/ tsc' = cyc_hi * WORD + cyc_lo + elapsed' - WORD * WORD
      BY <3>1, <2>1, <2>2, <2>3, <1>1, <1>2 DEF CounterInv
    <3> QED
      BY <3>2, <2>1, <2>2, <2>3, <1>1, <1>2 DEF CounterInv
  <2>5. get_counter' = elapsed'
    BY <2>1, <2>4, <1>2, CounterDifference DEF CounterInv, get_counter, borrow
  <2>6. get_counter = elapsed
    BY <2>2, CounterExact DEF ElapsedExact
  <2> QED
    BY <2>1, <2>4, <2>5, <2>6, <1>2
<1>3. CASE ~(elapsed + c < WORD * WORD)
  <2>1. elapsed' = WORD * WORD /\ tsc' = tsc
    BY <1>3 DEF Advance
  <2> QED
    BY <2>1, <1>1 DEF CounterInv, get_counter, borrow
<1> QED
  BY <1>2, <1>3

\* start_counter sets the counter back to zero.
LEMMA StartCounterCounter ==
    ASSUME CounterInv, start_counter
    PROVE  CounterInv' /\ get_counter' = 0
<1>1. /\ WORD \in Nat /\ WORD > 0 /\ WORD * WORD \in Nat /\ WORD * WORD > 0
      /\ tsc \in Int
  BY Sizes DEF CounterInv
<1>2. /\ tsc \div WORD \in Int /\ tsc % WORD \in 0 .. WORD - 1
      /\ tsc = (tsc \div WORD) * WORD + (tsc % WORD)
  BY <1>1, Remainder
<1>3. tsc \div WORD \in 0 .. WORD - 1
  <2>1. /\ tsc % WORD \in Int /\ tsc % WORD >= 0 /\ tsc % WORD < WORD
        /\ (tsc \div WORD) * WORD + (tsc % WORD) >= 0
        /\ (tsc \div WORD) * WORD + (tsc % WORD) < WORD * WORD
    BY <1>1, <1>2 DEF CounterInv
  <2> QED
    BY <1>1, <1>2, <2>1, QuotientBelow
<1>4. /\ cyc_hi' = tsc \div WORD /\ cyc_lo' = tsc % WORD /\ elapsed' = 0 /\ tsc' = tsc
  BY DEF start_counter
<1>5. CounterInv'
  <2>1. tsc' = cyc_hi' * WORD + cyc_lo' + elapsed'
    BY <1>1, <1>2, <1>3, <1>4
  <2> QED
    BY <2>1, <1>1, <1>2, <1>3, <1>4 DEF CounterInv
<1>6. get_counter' = elapsed'
  BY <1>1, <1>4, <1>5, CounterDifference DEF CounterInv, get_counter, borrow
<1> QED
  BY <1>4, <1>5, <1>6

\* A piece of the program is a time step with its cycles.
LEMMA PassCounter ==
    ASSUME CounterInv, NEW c \in Nat, Pass(c), UNCHANGED counter
    PROVE  /\ CounterInv'
           /\ \/ elapsed' < WORD * WORD /\ get_counter' = get_counter + c /\ phase' = phase + c
              \/ elapsed' = WORD * WORD /\ get_counter' = get_counter /\ phase' = phase
<1>1. WORD * WORD \in Nat
  BY Sizes
<1> QED
  BY <1>1, AdvanceCounter DEF Pass

\* The clock starts in its types, with the counter at elapsed.
LEMMA InitClockInv == InitTimer => ClockInv
<1> SUFFICES ASSUME InitTimer PROVE ClockInv
  OBVIOUS
<1>1. tsc \in 0 .. WORD * WORD - 1 /\ WORD \in Nat /\ WORD > 0 /\ WORD * WORD \in Nat
  BY Sizes DEF InitTimer
<1>2. CounterInv
  BY <1>1 DEF InitTimer, CounterInv
<1> QED
  BY <1>2 DEF InitTimer, Init, ClockInv, Steps

\* Steps that leave the counter of the processor and its two words alone.
LEMMA SameCounter ==
    UNCHANGED <<tsc, elapsed, counter>> =>
        /\ CounterInv => CounterInv'
        /\ get_counter' = get_counter
  BY DEF counter, CounterInv, get_counter, borrow

\* Every action keeps the types, the counter's relation to elapsed, and step
\* at the top of the loop while nothing is measured.
LEMMA ClockInvStep == ClockInv /\ [NextTimer]_timer => ClockInv'
<1> SUFFICES ASSUME ClockInv, [NextTimer]_timer PROVE ClockInv'
  OBVIOUS
<1> USE DEF ClockInv, Steps
<1>1. CASE Call
  <2>1. CounterInv'
    BY <1>1, Sizes DEF Call, counter, CounterInv
  <2> QED
    BY <1>1, <2>1 DEF Call, init_sampler, locals
<1>2. CASE CallibrateTimes \/ CompTimes
  BY <1>2, SameCounter DEF CallibrateTimes, CompTimes, At, locals, vars
<1>3. CASE CallibrateStart \/ StartCounter
  BY <1>3, StartCounterCounter DEF CallibrateStart, StartCounter, start_counter, At, locals, vars
<1>4. CASE Turn
  <2>1. PICK c \in TurnCycles : Pass(c)
    BY <1>4 DEF Turn
  <2>2. c \in Nat
    BY Sizes
  <2>3. CounterInv' /\ phase' \in Nat
    BY <1>4, <2>1, <2>2, PassCounter DEF Turn, CounterInv, Pass
  <2> QED
    BY <1>4, <2>3 DEF Turn, At, locals, vars
<1>5. CASE Event
  <2>1. PICK c \in TurnCycles : Pass(c)
    BY <1>5 DEF Event
  <2>2. c \in Nat
    BY Sizes
  <2>3. CounterInv' /\ phase' \in Nat
    BY <1>5, <2>1, <2>2, PassCounter DEF Event, Pass
  <2>4. cyc_per_tick' \in Nat
    <3>1. ticks > 0 => (reading - oldt) \div ticks \in Int
      OBVIOUS
    <3>2. RECORDTHRESH \in Nat
      BY Sizes
    <3> QED
      BY <1>5, <3>1, <3>2 DEF Event, Records
  <2> QED
    BY <1>5, <2>3, <2>4 DEF Event, At, locals, vars
<1>6. CASE Gap \/ GetCounter
  BY <1>6, SameCounter, CounterExact DEF Gap, GetCounter, At, hardware, vars
<1>7. CASE CallibrateReturns \/ StartCompensated
  BY <1>7, SameCounter DEF CallibrateReturns, StartCompensated, At, hardware, locals, vars
<1>8. CASE Run
  <2>1. PICK c \in FunctionCycles : Pass(c) /\ own' = IF elapsed' < WORD * WORD THEN own + c ELSE own
    BY <1>8 DEF Run
  <2>2. c \in Nat
    BY Sizes
  <2>3. CounterInv' /\ phase' \in Nat /\ own' \in Nat
    BY <1>8, <2>1, <2>2, PassCounter DEF Run, Pass
  <2> QED
    BY <1>8, <2>3 DEF Run, At, locals, vars
<1>9. CASE SampleCompensated \/ SampleCounter
  BY <1>9, SameCounter DEF SampleCompensated, SampleCounter, At, hardware, locals
<1>10. CASE KBest \/ UNCHANGED timer
  BY <1>10, SameCounter DEF KBest, Swap, MeasureAgain, Return, clock, timer, hardware, locals, vars
<1>11. ASSUME NEW charged \in BOOLEAN, Tick(charged) PROVE ClockInv'
  <2>1. PICK cost \in TickCosts :
           /\ Advance(cost)
           /\ lost' = lost \/ lost' = lost + cost
    BY <1>11 DEF Tick
  <2>2. cost \in Nat
    BY Sizes
  <2>3. CounterInv' /\ lost' \in Nat
    BY <1>11, <2>1, <2>2, AdvanceCounter DEF Tick
  <2>4. phase' = 0 /\ ticks' \in Nat
    BY <1>11 DEF Tick
  <2>5. UNCHANGED <<pc, reading, oldt, own, cyc_per_tick, compensate, step>>
    BY <1>11 DEF Tick, locals, vars
  <2> QED
    BY <2>3, <2>4, <2>5
<1> QED
  BY <1>1, <1>2, <1>3, <1>4, <1>5, <1>6, <1>7, <1>8, <1>9, <1>10, <1>11 DEF NextTimer, Program

LEMMA ClockInvCorrect == TimerSpec => []ClockInv
  BY InitClockInv, ClockInvStep, PTL DEF TimerSpec

\* ElapsedExact: the counter's two words, subtracted with a borrow, give the
\* cycles since start_counter for every start and every size of a word.
THEOREM ElapsedExactCorrect == TimerSpec => []ElapsedExact
<1>1. ClockInv => ElapsedExact
  BY CounterExact DEF ClockInv
<1> QED
  BY <1>1, ClockInvCorrect, PTL

(***************************************************************************)
(* callibrate                                                              *)
(***************************************************************************)
\* What a gap is before a tick: the turns that saw none add up below THRESHOLD,
\* and one turn more.
TooShort(p) == \E c \in TurnCycles : p < THRESHOLD + c

\* What a tick adds to the counter, if there is one.
Hits == {0} \cup TickCosts

\* From oldt to the counter (to reading, once it is read) there are p program
\* cycles and the cost of one tick at most; a tick counted or hit leaves no time
\* for another.  One that comes after reading is in the next gap.
GapInv ==
    /\ step = "cal_start" => ticks \in {0, 1} /\ (ticks = 1 => phase = 0)
    /\ step = "turn" =>
         /\ ticks \in {0, 1}
         /\ \E p \in Nat, hit \in Hits :
               /\ get_counter = oldt + p + hit
               /\ TooShort(p)
               /\ hit # 0 \/ ticks = 1 => phase <= p
    /\ step = "event" =>
         /\ ticks \in {0, 1}
         /\ \E p \in Nat, hit, late \in Hits :
               /\ reading = oldt + p + hit
               /\ get_counter = reading + late
               /\ TooShort(p)
               /\ late # 0 => hit = 0 /\ phase = 0
               /\ hit # 0 \/ ticks = 1 => phase <= p
    /\ CalibrationBounds

\* No tick follows another in what is too short, and no value below RECORDTHRESH
\* comes from more.
LEMMA TooShortBounds ==
    ASSUME NEW p \in Nat, TooShort(p)
    PROVE  p < MinPeriod /\ p <= RECORDTHRESH
<1>1. PICK c \in TurnCycles : p < THRESHOLD + c
  BY DEF TooShort
<1>2. /\ c \in Nat /\ THRESHOLD \in Nat /\ RECORDTHRESH \in Nat /\ MinPeriod \in Nat
      /\ THRESHOLD + c <= RECORDTHRESH + 1 /\ THRESHOLD + c < MinPeriod
  BY Sizes
<1> QED
  BY <1>1, <1>2

\* The first reading after a gap began.
LEMMA TurnIsShort ==
    ASSUME NEW c \in TurnCycles
    PROVE  c \in Nat /\ TooShort(c) /\ TooShort(0)
  BY Sizes DEF TooShort

LEMMA InitGapInv == InitTimer => GapInv
  BY DEF InitTimer, GapInv, CalibrationBounds

\* A turn adds its cycles to the gap, which was below THRESHOLD.
LEMMA TurnGapInv == ClockInv /\ GapInv /\ Turn => GapInv'
<1> SUFFICES ASSUME ClockInv, GapInv, Turn PROVE GapInv'
  OBVIOUS
<1>1. /\ step = "turn" /\ get_counter - oldt < THRESHOLD
      /\ UNCHANGED <<ticks, counter, cyc_per_tick, step, reading, oldt>>
  BY DEF Turn, At, locals
<1>2. PICK c \in TurnCycles : Pass(c)
  BY DEF Turn
<1>3. PICK p \in Nat, hit \in Hits :
         /\ get_counter = oldt + p + hit
         /\ TooShort(p)
         /\ hit # 0 \/ ticks = 1 => phase <= p
  BY <1>1 DEF GapInv
<1>4. /\ c \in Nat /\ THRESHOLD \in Nat /\ WORD * WORD \in Nat
      /\ phase \in Nat /\ oldt \in Int /\ get_counter \in Int /\ hit \in Nat
  BY Sizes, CounterExact DEF ClockInv, Hits
<1>5. \/ get_counter' = get_counter + c /\ phase' = phase + c
      \/ get_counter' = get_counter /\ phase' = phase
  BY <1>1, <1>2, <1>4, PassCounter DEF ClockInv
<1>6. \E q \in Nat :
         /\ get_counter' = oldt' + q + hit
         /\ TooShort(q)
         /\ hit # 0 \/ ticks' = 1 => phase' <= q
  <2>1. CASE get_counter' = get_counter + c /\ phase' = phase + c
    <3>1. p + c \in Nat /\ p < THRESHOLD
      BY <1>1, <1>3, <1>4
    <3>2. TooShort(p + c)
      BY <1>4, <3>1 DEF TooShort
    <3>3. get_counter' = oldt' + (p + c) + hit
      BY <1>1, <1>3, <1>4, <2>1
    <3>4. hit # 0 \/ ticks' = 1 => phase' <= p + c
      BY <1>1, <1>3, <1>4, <2>1
    <3> QED
      BY <3>1, <3>2, <3>3, <3>4
  <2>2. CASE get_counter' = get_counter /\ phase' = phase
    BY <1>1, <1>3, <2>2
  <2> QED
    BY <1>5, <2>1, <2>2
<1>7. CalibrationBounds'
  BY <1>1 DEF GapInv, CalibrationBounds
<1>8. ticks' \in {0, 1} /\ step' = "turn"
  BY <1>1 DEF GapInv
<1> QED
  BY <1>6, <1>7, <1>8 DEF GapInv

\* With a tick counted the event's quotient is the whole gap; it is recorded
\* only when a tick's cost is in it.  The next gap begins at reading.
LEMMA EventGapInv == ClockInv /\ GapInv /\ Event => GapInv'
<1> SUFFICES ASSUME ClockInv, GapInv, Event PROVE GapInv'
  OBVIOUS
<1>1. /\ step = "event" /\ step' = "turn" /\ ticks' = 0 /\ oldt' = reading
      /\ UNCHANGED counter
  BY DEF Event, At
<1>2. PICK c \in TurnCycles : Pass(c)
  BY DEF Event
<1>3. ticks \in {0, 1}
  BY <1>1 DEF GapInv
<1>4. PICK p \in Nat, hit, late \in Hits :
         /\ reading = oldt + p + hit
         /\ get_counter = reading + late
         /\ TooShort(p)
         /\ late # 0 => hit = 0 /\ phase = 0
         /\ hit # 0 \/ ticks = 1 => phase <= p
  BY <1>1 DEF GapInv
<1>5. /\ c \in Nat /\ THRESHOLD \in Nat /\ WORD * WORD \in Nat
      /\ phase \in Nat /\ oldt \in Int /\ reading \in Int /\ get_counter \in Int
      /\ hit \in Nat /\ late \in Nat /\ TooShort(c) /\ TooShort(0)
  BY Sizes, CounterExact, TurnIsShort DEF ClockInv, Hits
<1>6. \/ get_counter' = get_counter + c /\ phase' = phase + c
      \/ get_counter' = get_counter /\ phase' = phase
  BY <1>1, <1>2, <1>5, PassCounter DEF ClockInv
<1>7. \E q \in Nat, h \in Hits :
         /\ get_counter' = oldt' + q + h
         /\ TooShort(q)
         /\ h # 0 \/ ticks' = 1 => phase' <= q
  <2>1. CASE get_counter' = get_counter + c /\ phase' = phase + c
    <3>1. get_counter' = oldt' + c + late
      BY <1>1, <1>4, <1>5, <2>1
    <3>2. late # 0 \/ ticks' = 1 => phase' <= c
      BY <1>1, <1>4, <1>5, <2>1
    <3> QED
      BY <1>5, <3>1, <3>2
  <2>2. CASE get_counter' = get_counter /\ phase' = phase
    <3>1. get_counter' = oldt' + 0 + late
      BY <1>1, <1>4, <1>5, <2>2
    <3>2. late # 0 \/ ticks' = 1 => phase' <= 0
      BY <1>1, <1>4, <1>5, <2>2
    <3> QED
      BY <1>5, <3>1, <3>2
  <2> QED
    BY <1>6, <2>1, <2>2
<1>8. CalibrationBounds'
  <2>1. CASE cyc_per_tick' = cyc_per_tick
    BY <2>1 DEF GapInv, CalibrationBounds
  <2>2. CASE cyc_per_tick' # cyc_per_tick
    <3>1. /\ ticks = 1
          /\ cyc_per_tick' = (reading - oldt) \div ticks
          /\ Records((reading - oldt) \div ticks)
      BY <1>3, <2>2 DEF Event
    <3>2. (reading - oldt) \div 1 = p + hit
      BY <1>4, <1>5
    <3>3. cyc_per_tick' = p + hit /\ cyc_per_tick' > RECORDTHRESH
      BY <3>1, <3>2 DEF Records
    <3>4. p <= RECORDTHRESH /\ RECORDTHRESH \in Nat
      BY <1>4, TooShortBounds, Sizes
    <3>5. hit \in TickCosts
      BY <3>3, <3>4 DEF Hits
    <3>6. PICK d \in TurnCycles : p < THRESHOLD + d
      BY <1>4 DEF TooShort
    <3>7. d \in Nat /\ MinTick \in Nat /\ MaxTick \in Nat /\ MinTick <= hit /\ hit <= MaxTick
      BY <3>5, Sizes
    <3>8. cyc_per_tick' >= MinTick /\ cyc_per_tick' < MaxTick + THRESHOLD + d
      BY <1>5, <3>3, <3>6, <3>7
    <3> QED
      BY <3>8 DEF CalibrationBounds
  <2> QED
    BY <2>1, <2>2
<1> QED
  BY <1>1, <1>7, <1>8 DEF GapInv

\* A tick needs more time than the gap has had since the last one.
LEMMA TickGapInv ==
    ASSUME ClockInv, GapInv, NEW charged \in BOOLEAN, Tick(charged)
    PROVE  GapInv'
<1>1. /\ phase >= MinPeriod /\ phase' = 0
      /\ ticks' = IF charged /\ compensate THEN ticks + 1 ELSE ticks
      /\ UNCHANGED <<counter, cyc_per_tick, step, reading, oldt>>
  BY DEF Tick, locals
<1>0. PICK cost \in TickCosts : Advance(cost)
  BY DEF Tick
<1>2. /\ cost \in Nat /\ cost \in Hits /\ MinPeriod \in Nat /\ MinPeriod > 0
      /\ phase \in Nat /\ ticks \in Nat /\ oldt \in Int /\ reading \in Int /\ get_counter \in Int
  BY Sizes, CounterExact DEF ClockInv, Hits
<1>3. get_counter' = get_counter + cost \/ get_counter' = get_counter
  BY <1>0, <1>1, <1>2, AdvanceCounter DEF ClockInv
<1>4. CalibrationBounds'
  BY <1>1 DEF GapInv, CalibrationBounds
<1>5. CASE step = "cal_start"
  <2>1. ticks = 0
    BY <1>1, <1>2, <1>5 DEF GapInv
  <2> QED
    BY <1>1, <1>4, <1>5, <2>1 DEF GapInv
<1>6. CASE step = "turn"
  <2>1. PICK p \in Nat, hit \in Hits :
           /\ get_counter = oldt + p + hit
           /\ TooShort(p)
           /\ hit # 0 \/ ticks = 1 => phase <= p
    BY <1>6 DEF GapInv
  <2>2. hit = 0 /\ ticks = 0
    <3>1. p < MinPeriod
      BY <2>1, TooShortBounds
    <3> QED
      BY <1>1, <1>2, <1>6, <2>1, <3>1 DEF GapInv
  <2>3. \E h \in Hits : get_counter' = oldt' + p + h
    <3>1. CASE get_counter' = get_counter + cost
      <4>1. get_counter' = oldt' + p + cost
        BY <1>1, <1>2, <2>1, <2>2, <3>1
      <4> QED
        BY <1>2, <4>1
    <3>2. CASE get_counter' = get_counter
      BY <1>1, <2>1, <3>2
    <3> QED
      BY <1>3, <3>1, <3>2
  <2> QED
    BY <1>1, <1>4, <1>6, <2>1, <2>2, <2>3 DEF GapInv
<1>7. CASE step = "event"
  <2>1. PICK p \in Nat, hit, late \in Hits :
           /\ reading = oldt + p + hit
           /\ get_counter = reading + late
           /\ TooShort(p)
           /\ late # 0 => hit = 0 /\ phase = 0
           /\ hit # 0 \/ ticks = 1 => phase <= p
    BY <1>7 DEF GapInv
  <2>2. hit = 0 /\ late = 0 /\ ticks = 0
    <3>1. p < MinPeriod
      BY <2>1, TooShortBounds
    <3> QED
      BY <1>1, <1>2, <1>7, <2>1, <3>1 DEF GapInv
  <2>3. \E l \in Hits : get_counter' = reading' + l
    <3>1. CASE get_counter' = get_counter + cost
      <4>1. get_counter' = reading' + cost
        BY <1>1, <1>2, <2>1, <2>2, <3>1
      <4> QED
        BY <1>2, <4>1
    <3>2. CASE get_counter' = get_counter
      BY <1>1, <2>1, <3>2
    <3> QED
      BY <1>3, <3>1, <3>2
  <2> QED
    BY <1>1, <1>4, <1>7, <2>1, <2>2, <2>3 DEF GapInv
<1> QED
  BY <1>1, <1>4, <1>5, <1>6, <1>7 DEF GapInv

\* The other steps begin a gap, read the counter, or have no part in it.
LEMMA GapInvStep == ClockInv /\ GapInv /\ [NextTimer]_timer => GapInv'
<1> SUFFICES ASSUME ClockInv, GapInv, [NextTimer]_timer PROVE GapInv'
  OBVIOUS
<1>1. CASE Call
  BY <1>1 DEF Call, init_sampler, locals, ClockInv, GapInv, CalibrationBounds
<1>2. CASE CallibrateTimes
  <2>1. step' = "cal_start" /\ ticks' = 0 /\ cyc_per_tick' = cyc_per_tick
    BY <1>2 DEF CallibrateTimes
  <2> QED
    BY <2>1 DEF GapInv, CalibrationBounds
<1>3. CASE CallibrateStart
  <2>1. /\ step = "cal_start" /\ step' = "turn" /\ oldt' = 0
        /\ UNCHANGED <<ticks, phase, cyc_per_tick>> /\ start_counter
    BY <1>3 DEF CallibrateStart, At, start_counter
  <2>2. get_counter' = 0
    BY <2>1, StartCounterCounter DEF ClockInv
  <2>3. PICK c \in TurnCycles : TRUE
    BY Sizes
  <2>4. TooShort(0)
    BY <2>3, TurnIsShort
  <2>5. get_counter' = oldt' + 0 + 0 /\ (0 # 0 \/ ticks' = 1 => phase' <= 0)
    BY <2>1, <2>2 DEF GapInv, ClockInv
  <2> QED
    BY <2>1, <2>4, <2>5 DEF GapInv, CalibrationBounds, Hits
<1>4. CASE Gap
  <2>1. /\ step = "turn" /\ step' = "event" /\ reading' = get_counter
        /\ UNCHANGED <<ticks, phase, cyc_per_tick, oldt>> /\ get_counter' = get_counter
    BY <1>4, SameCounter DEF Gap, At, hardware
  <2>2. get_counter' = reading' + 0
    BY <2>1, CounterExact DEF ClockInv
  <2> QED
    BY <2>1, <2>2 DEF GapInv, CalibrationBounds, Hits
<1>5. CASE CallibrateReturns \/ StartCompensated \/ CompTimes
  BY <1>5 DEF CallibrateReturns, StartCompensated, CompTimes, GapInv, CalibrationBounds
<1>6. CASE StartCounter \/ Run \/ GetCounter
  BY <1>6 DEF StartCounter, Run, GetCounter, At, GapInv, CalibrationBounds
<1>7. CASE SampleCompensated \/ SampleCounter
  BY <1>7 DEF SampleCompensated, SampleCounter, GapInv, CalibrationBounds
<1>8. CASE KBest \/ UNCHANGED timer
  <2>1. UNCHANGED <<tsc, phase, ticks, elapsed, counter, cyc_per_tick, step, reading, oldt>>
    BY <1>8 DEF KBest, clock, timer, hardware, locals
  <2>2. get_counter' = get_counter
    BY <2>1, SameCounter
  <2> QED
    BY <2>1, <2>2 DEF GapInv, CalibrationBounds
<1> QED
  BY <1>1, <1>2, <1>3, <1>4, <1>5, <1>6, <1>7, <1>8, TurnGapInv, EventGapInv, TickGapInv
     DEF NextTimer, Program

LEMMA GapInvCorrect == TimerSpec => []GapInv
  BY InitGapInv, GapInvStep, ClockInvCorrect, PTL DEF TimerSpec

\* CalibrationBounds: whatever the periods and wherever the ticks fall, what
\* callibrate records is a tick's cost and less than THRESHOLD and a turn more.
THEOREM CalibrationCorrect == TimerSpec => []CalibrationBounds
<1>1. GapInv => CalibrationBounds
  BY DEF GapInv
<1> QED
  BY <1>1, GapInvCorrect, PTL

(***************************************************************************)
(* The K-best scheme over the cycle counter                                *)
(***************************************************************************)
\* fcyc over the cycle counter implements the scheme: every step of fcyc and of
\* the clock is a step of the scheme, with some integer for its measurement, or
\* leaves the scheme's variables alone.
THEOREM TimerImplementsScheme == TimerSpec => IntSpec
<1>1. ASSUME ClockInv, [NextTimer]_timer PROVE [NextInt]_vars
  <2>1. CASE Call
    BY <2>1 DEF Call, NextInt
  <2>2. CASE SampleCounter
    <3>1. add_sample(get_counter) /\ get_counter \in Int
      BY <1>1, <2>2, CounterExact DEF SampleCounter, ClockInv
    <3> QED
      BY <3>1 DEF NextInt, MeasureInt
  <2>3. CASE SampleCompensated
    <3>1. add_sample(Sample)
      BY <2>3 DEF SampleCompensated
    <3>2. Sample \in Int
      BY <1>1 DEF Sample, ClockInv
    <3> QED
      BY <3>1, <3>2 DEF NextInt, MeasureInt
  <2>4. CASE KBest
    BY <2>4 DEF KBest, NextInt
  <2>5. CASE \/ CallibrateTimes \/ CallibrateStart \/ Turn \/ Gap \/ Event \/ CallibrateReturns
             \/ StartCompensated \/ CompTimes \/ StartCounter \/ Run \/ GetCounter
             \/ \E charged \in BOOLEAN : Tick(charged)
    BY <2>5 DEF CallibrateTimes, CallibrateStart, Turn, Gap, Event, CallibrateReturns,
                StartCompensated, CompTimes, StartCounter, Run, GetCounter, Tick
  <2>6. CASE UNCHANGED timer
    BY <2>6 DEF timer
  <2> QED
    BY <1>1, <2>1, <2>2, <2>3, <2>4, <2>5, <2>6 DEF NextTimer, Program
<1>2. InitTimer => Init
  BY DEF InitTimer
<1> QED
  BY <1>1, <1>2, ClockInvCorrect, PTL DEF TimerSpec, IntSpec

\* fcyc over the cycle counter keeps the invariant of the scheme, ...
THEOREM TimerIndInvCorrect == TimerSpec => []IndInv
  BY TimerImplementsScheme, IntIndInv, PTL

\* ... holds the kbest smallest of what the counter gave it, compensated or
\* not, ...
THEOREM TimerKSmallestCorrect == TimerSpec => []KSmallest
  BY TimerImplementsScheme, IntKSmallest, PTL

\* ... returns the smallest, ...
THEOREM TimerResultIsBestCorrect == TimerSpec => []ResultIsBest
  BY TimerImplementsScheme, IntResultIsBest, PTL

\* ... takes no more than maxsamples measurements, or one, ...
THEOREM TimerSamplesBoundedCorrect == TimerSpec => []SamplesBounded
  BY TimerImplementsScheme, IntSamplesBounded, PTL

\* ... and stops early only with kbest measurements within epsilon of it.
THEOREM TimerConvergedCorrect == TimerSpec => []ConvergedWithinEpsilon
  BY TimerImplementsScheme, IntConverged, PTL

(***************************************************************************)
(* Measurements                                                            *)
(***************************************************************************)
\* What a reading x of the counter in a compensated measurement is made of: the
\* function, the interrupts that are lost, and the cost of the ticks counted, of
\* which at most n fall outside.
MadeOf(x, n) ==
    /\ x <= own + lost + ticks * MaxTick
    /\ x >= own + lost + ticks * MinTick - n * MinTick

\* One tick at most falls between the reading of tms_utime and the start of the
\* counter, and one between its reading and that of tms_utime at the end.
MeasureInv ==
    /\ step = "comp_start" => ticks \in {0, 1} /\ (ticks = 1 => phase = 0)
    /\ step = "comp_ticks" => compensate
    /\ (step = "call" /\ elapsed < WORD * WORD) =>
         IF compensate THEN MadeOf(get_counter, 1) ELSE get_counter = own + lost
    /\ (step = "comp_ticks" /\ elapsed < WORD * WORD) =>
         /\ MadeOf(reading, 2)
         /\ phase # 0 => MadeOf(reading, 1)
    /\ MeasurementBounds

\* The types that the arithmetic needs.
LEMMA MeasureTypes ==
    ASSUME ClockInv
    PROVE  /\ MinTick \in Nat /\ MaxTick \in Nat /\ MinTick <= MaxTick
           /\ MinPeriod \in Nat /\ MinPeriod > 0 /\ WORD * WORD \in Nat
           /\ ticks \in Nat /\ own \in Nat /\ lost \in Nat /\ phase \in Nat /\ elapsed \in Nat
           /\ reading \in Int /\ get_counter \in Int
           /\ ticks * MinTick \in Nat /\ ticks * MaxTick \in Nat
           /\ (ticks + 1) * MinTick = ticks * MinTick + MinTick
           /\ (ticks + 1) * MaxTick = ticks * MaxTick + MaxTick
<1>1. /\ MinTick \in Nat /\ MaxTick \in Nat /\ MinTick <= MaxTick
      /\ MinPeriod \in Nat /\ MinPeriod > 0 /\ WORD * WORD \in Nat
  BY Sizes
<1>2. /\ ticks \in Nat /\ own \in Nat /\ lost \in Nat /\ phase \in Nat /\ elapsed \in Nat
      /\ reading \in Int /\ get_counter \in Int
  BY <1>1, CounterExact DEF ClockInv, CounterInv
<1>3. \A t, c \in Nat : t * c \in Nat /\ (t + 1) * c = t * c + c
  OBVIOUS
<1> QED
  BY <1>1, <1>2, <1>3

LEMMA InitMeasureInv == InitTimer => MeasureInv
  BY DEF InitTimer, Init, MeasureInv, MeasurementBounds

\* Time passes, and either the counter has read all of it or it has gone round.
LEMMA AdvanceReads ==
    ASSUME ClockInv, NEW c \in Nat, Advance(c), UNCHANGED counter, elapsed' < WORD * WORD
    PROVE  elapsed < WORD * WORD /\ get_counter' = get_counter + c
<1>1. WORD * WORD \in Nat /\ elapsed \in Nat
  BY MeasureTypes
<1>2. get_counter' = get_counter + c
  BY <1>1, AdvanceCounter DEF ClockInv
<1>3. elapsed + c < WORD * WORD
  BY <1>1 DEF Advance
<1> QED
  BY <1>1, <1>2, <1>3

\* A tick counted inside the call is made of its cost; one after the reading is
\* outside, and the next is a period away.
LEMMA TickMeasureInv ==
    ASSUME ClockInv, MeasureInv, NEW charged \in BOOLEAN, Tick(charged)
    PROVE  MeasureInv'
<1> DEFINE counted == charged /\ compensate
<1>1. /\ pc = "measure" /\ phase >= MinPeriod /\ phase' = 0
      /\ ticks' = IF counted THEN ticks + 1 ELSE ticks
      /\ UNCHANGED <<pc, counter, compensate, step, reading, own>>
  BY DEF Tick, locals, vars
<1>2. PICK cost \in TickCosts :
         /\ Advance(cost)
         /\ lost' = IF ~counted /\ step = "call" /\ elapsed' < WORD * WORD
                    THEN lost + cost ELSE lost
  BY DEF Tick
<1>3. cost \in Nat /\ MinTick <= cost /\ cost <= MaxTick
  BY Sizes
<1>4. MeasurementBounds'
  BY <1>1 DEF MeasurementBounds
<1>5. phase # 0
  BY <1>1, MeasureTypes
<1>6. CASE step = "comp_start"
  <2>1. ticks = 0
    BY <1>5, <1>6 DEF MeasureInv
  <2> QED
    BY <1>1, <1>4, <1>6, <2>1 DEF MeasureInv
<1>7. CASE step = "call"
  <2>1. SUFFICES ASSUME elapsed' < WORD * WORD
                 PROVE  IF compensate THEN MadeOf(get_counter, 1)' ELSE (get_counter = own + lost)'
    BY <1>1, <1>4, <1>7 DEF MeasureInv
  <2>2. elapsed < WORD * WORD /\ get_counter' = get_counter + cost
    BY <1>1, <1>2, <1>3, <2>1, AdvanceReads
  <2>3. CASE compensate
    <3>1. MadeOf(get_counter, 1)
      BY <1>7, <2>2, <2>3 DEF MeasureInv
    <3>2. CASE charged
      <4>1. ticks' = ticks + 1 /\ lost' = lost /\ own' = own
        BY <1>1, <1>2, <2>3, <3>2
      <4>2. /\ get_counter' <= own + lost + (ticks + 1) * MaxTick
            /\ get_counter' >= own + lost + (ticks + 1) * MinTick - 1 * MinTick
        BY <1>3, <2>2, <3>1, MeasureTypes DEF MadeOf
      <4> QED
        BY <2>3, <4>1, <4>2 DEF MadeOf
    <3>3. CASE ~charged
      <4>1. ticks' = ticks /\ lost' = lost + cost /\ own' = own
        BY <1>1, <1>2, <1>7, <2>1, <3>3
      <4>2. /\ get_counter' <= own + (lost + cost) + ticks * MaxTick
            /\ get_counter' >= own + (lost + cost) + ticks * MinTick - 1 * MinTick
        BY <1>3, <2>2, <3>1, MeasureTypes DEF MadeOf
      <4> QED
        BY <2>3, <4>1, <4>2 DEF MadeOf
    <3> QED
      BY <3>2, <3>3
  <2>4. CASE ~compensate
    <3>1. get_counter = own + lost
      BY <1>7, <2>2, <2>4 DEF MeasureInv
    <3>2. lost' = lost + cost /\ own' = own
      BY <1>1, <1>2, <1>7, <2>1, <2>4
    <3> QED
      BY <1>3, <2>2, <2>4, <3>1, <3>2, MeasureTypes
  <2> QED
    BY <2>3, <2>4
<1>8. CASE step = "comp_ticks"
  <2>1. compensate' /\ step' = "comp_ticks" /\ phase' = 0
    BY <1>1, <1>8 DEF MeasureInv
  <2>2. SUFFICES ASSUME elapsed' < WORD * WORD PROVE MadeOf(reading, 2)'
    BY <1>4, <2>1 DEF MeasureInv
  <2>3. elapsed < WORD * WORD
    BY <1>1, <1>2, <1>3, <2>2, AdvanceReads
  <2>4. MadeOf(reading, 1) /\ lost' = lost /\ own' = own /\ reading' = reading
    BY <1>1, <1>2, <1>5, <1>8, <2>3 DEF MeasureInv
  <2>5. /\ reading <= own + lost + (ticks + 1) * MaxTick
        /\ reading >= own + lost + (ticks + 1) * MinTick - 2 * MinTick
        /\ reading <= own + lost + ticks * MaxTick
        /\ reading >= own + lost + ticks * MinTick - 2 * MinTick
    BY <2>4, MeasureTypes DEF MadeOf
  <2> QED
    BY <1>1, <2>4, <2>5 DEF MadeOf
<1> QED
  BY <1>1, <1>4, <1>6, <1>7, <1>8 DEF MeasureInv

\* What the last measurement was is in samples.
LEMMA LastSample ==
    ASSUME TypeOK, NEW val \in Int, add_sample(val)
    PROVE  samples'[samplecount'] = val /\ pc' = "insert"
<1>1. samples \in Seq(Int) /\ samples' = Append(samples, val) /\ samplecount = Len(samples)
      /\ samplecount' = samplecount + 1 /\ pc' = "insert"
  BY DEF TypeOK, add_sample
<1> QED
  BY <1>1, AppendedSample

\* What is left when t times a value between lo and hi + th + c is taken away.
LEMMA TicksTaken ==
    ASSUME NEW t \in Nat, NEW lo \in Nat, NEW hi \in Nat, NEW th \in Nat, NEW c \in Nat,
           NEW cpt \in Nat, lo <= cpt, cpt <= hi + th + c,
           NEW x \in Int, NEW b \in Int,
           x <= b + t * hi, x >= b + t * lo - 2 * lo
    PROVE  /\ x - t * cpt \in Int
           /\ x - t * cpt <= b + t * (hi - lo)
           /\ x - t * cpt >= b - 2 * lo - t * (hi - lo + th + c)
<1>1. lo * t <= cpt * t /\ cpt * t <= (hi + th + c) * t
  BY TimesMonotone
<1>2. /\ lo * t = t * lo /\ cpt * t = t * cpt /\ (hi + th + c) * t = t * hi + t * th + t * c
      /\ t * (hi - lo) = t * hi - t * lo
      /\ t * (hi - lo + th + c) = t * hi - t * lo + t * th + t * c
      /\ t * lo \in Int /\ t * hi \in Int /\ t * th \in Int /\ t * c \in Int /\ t * cpt \in Int
  OBVIOUS
<1> QED
  BY <1>1, <1>2

\* A compensated measurement takes away cyc_per_tick for every tick counted, a
\* plain one nothing.
LEMMA SampleMeasureInv ==
    ASSUME ClockInv, GapInv, MeasureInv, IndInv, SampleCompensated \/ SampleCounter
    PROVE  MeasureInv'
<1>1. step' = "start" /\ UNCHANGED <<compensate, cyc_per_tick, own, lost, ticks, elapsed>>
  BY DEF SampleCompensated, SampleCounter, hardware
<1>2. cyc_per_tick \in Nat /\ TypeOK /\ compensate \in BOOLEAN
  BY DEF ClockInv, IndInv
<1>3. SUFFICES ASSUME elapsed < WORD * WORD PROVE MeasurementBounds'
  BY <1>1 DEF MeasureInv, MeasurementBounds
<1>4. CASE SampleCounter
  <2>1. ~compensate /\ get_counter = own + lost /\ add_sample(get_counter)
    BY <1>3, <1>4 DEF SampleCounter, At, MeasureInv
  <2>2. samples'[samplecount'] = get_counter
    BY <1>2, <2>1, LastSample, MeasureTypes
  <2> QED
    BY <1>1, <2>1, <2>2 DEF MeasurementBounds
<1>5. CASE SampleCompensated
  <2>1. compensate /\ MadeOf(reading, 2) /\ add_sample(Sample)
    BY <1>3, <1>5 DEF SampleCompensated, At, MeasureInv
  <2>2. Sample \in Int
    <3>1. ticks * cyc_per_tick \in Int
      BY <1>2, MeasureTypes
    <3> QED
      BY <3>1, MeasureTypes DEF Sample
  <2>3. samples'[samplecount'] = Sample
    BY <1>2, <2>1, <2>2, LastSample
  <2>4. SUFFICES ASSUME cyc_per_tick # 0
                 PROVE  /\ Sample <= own + lost + ticks * (MaxTick - MinTick)
                        /\ \E c \in TurnCycles :
                             Sample >= own + lost - 2 * MinTick
                                         - ticks * (MaxTick - MinTick + THRESHOLD + c)
    BY <1>1, <2>1, <2>3 DEF MeasurementBounds
  <2>5. PICK c \in TurnCycles : cyc_per_tick < MaxTick + THRESHOLD + c
    BY <2>4 DEF GapInv, CalibrationBounds
  <2>6. MinTick <= cyc_per_tick
    BY <1>2, <2>4, MeasureTypes DEF GapInv, CalibrationBounds
  <2>7. THRESHOLD \in Nat /\ c \in Nat /\ cyc_per_tick <= MaxTick + THRESHOLD + c
    BY <1>2, <2>5, Sizes, MeasureTypes
  <2>8. /\ own + lost \in Int
        /\ reading <= own + lost + ticks * MaxTick
        /\ reading >= own + lost + ticks * MinTick - 2 * MinTick
    BY <2>1, MeasureTypes DEF MadeOf
  <2>9. /\ Sample <= own + lost + ticks * (MaxTick - MinTick)
        /\ Sample >= own + lost - 2 * MinTick - ticks * (MaxTick - MinTick + THRESHOLD + c)
    BY <1>2, <2>6, <2>7, <2>8, TicksTaken, MeasureTypes DEF Sample
  <2> HIDE DEF Sample
  <2> QED
    BY <2>9
<1> QED
  BY <1>4, <1>5

LEMMA MeasureInvStep ==
    ClockInv /\ GapInv /\ IndInv /\ MeasureInv /\ [NextTimer]_timer => MeasureInv'
<1> SUFFICES ASSUME ClockInv, GapInv, IndInv, MeasureInv, [NextTimer]_timer PROVE MeasureInv'
  OBVIOUS
<1>1. CASE Call
  <2>1. step' = "start" /\ pc' = "measure"
    BY <1>1 DEF Call, init_sampler, ClockInv
  <2> QED
    BY <2>1 DEF MeasureInv, MeasurementBounds
<1>2. CASE \/ CallibrateTimes \/ CallibrateStart \/ Turn \/ Gap \/ Event \/ CallibrateReturns
           \/ StartCompensated
  <2>1. pc' = "measure" /\ step' \notin {"comp_start", "call", "comp_ticks"}
    BY <1>2 DEF CallibrateTimes, CallibrateStart, Turn, Gap, Event, CallibrateReturns,
                StartCompensated, At, vars
  <2> QED
    BY <2>1 DEF MeasureInv, MeasurementBounds
<1>3. CASE CompTimes
  <2>1. pc' = "measure" /\ step' = "comp_start" /\ ticks' = 0
    BY <1>3 DEF CompTimes, At, vars
  <2> QED
    BY <2>1 DEF MeasureInv, MeasurementBounds
<1>4. CASE StartCounter
  <2>1. /\ pc' = "measure" /\ step' = "call" /\ own' = 0 /\ lost' = 0 /\ ticks' = ticks
        /\ compensate' = compensate /\ get_counter' = 0
    BY <1>4, StartCounterCounter DEF StartCounter, At, start_counter, vars, ClockInv
  <2>2. ASSUME compensate PROVE ticks \in {0, 1}
    BY <1>4, <2>2 DEF StartCounter, At, MeasureInv
  <2>3. ASSUME compensate PROVE MadeOf(get_counter, 1)'
    <3>1. 0 <= 0 + 0 + ticks * MaxTick /\ 0 >= 0 + 0 + ticks * MinTick - 1 * MinTick
      <4>1. CASE ticks = 0
        BY <4>1, MeasureTypes
      <4>2. CASE ticks = 1
        BY <4>2, MeasureTypes
      <4> QED
        BY <2>2, <2>3, <4>1, <4>2
    <3> QED
      BY <2>1, <3>1 DEF MadeOf
  <2>4. get_counter' = own' + lost'
    BY <2>1
  <2> QED
    BY <2>1, <2>3, <2>4 DEF MeasureInv, MeasurementBounds
<1>5. CASE Run
  <2>1. PICK c \in FunctionCycles :
           Pass(c) /\ own' = IF elapsed' < WORD * WORD THEN own + c ELSE own
    BY <1>5 DEF Run
  <2>2. /\ pc' = "measure" /\ step = "call" /\ step' = "call"
        /\ UNCHANGED <<ticks, compensate, counter, lost>>
    BY <1>5 DEF Run, At, vars
  <2>3. SUFFICES ASSUME elapsed' < WORD * WORD
                 PROVE  IF compensate THEN MadeOf(get_counter, 1)' ELSE (get_counter = own + lost)'
    BY <2>2 DEF MeasureInv, MeasurementBounds
  <2>4. c \in Nat
    BY Sizes
  <2>5. elapsed < WORD * WORD /\ get_counter' = get_counter + c /\ own' = own + c
    BY <2>1, <2>2, <2>3, <2>4, AdvanceReads DEF Pass
  <2>6. CASE compensate
    <3>1. MadeOf(get_counter, 1)
      BY <2>2, <2>5, <2>6 DEF MeasureInv
    <3>2. /\ get_counter' <= (own + c) + lost + ticks * MaxTick
          /\ get_counter' >= (own + c) + lost + ticks * MinTick - 1 * MinTick
      BY <2>4, <2>5, <3>1, MeasureTypes DEF MadeOf
    <3> QED
      BY <2>2, <2>5, <2>6, <3>2 DEF MadeOf
  <2>7. CASE ~compensate
    <3>1. get_counter = own + lost
      BY <2>2, <2>5, <2>7 DEF MeasureInv
    <3> QED
      BY <2>2, <2>4, <2>5, <2>7, <3>1, MeasureTypes
  <2> QED
    BY <2>6, <2>7
<1>6. CASE GetCounter
  <2>1. /\ pc' = "measure" /\ step = "call" /\ step' = "comp_ticks" /\ compensate
        /\ reading' = get_counter
        /\ UNCHANGED <<ticks, compensate, own, lost, elapsed, phase>>
    BY <1>6 DEF GetCounter, At, hardware, vars
  <2>2. SUFFICES ASSUME elapsed < WORD * WORD
                 PROVE  MadeOf(reading, 2)' /\ MadeOf(reading, 1)'
    BY <2>1 DEF MeasureInv, MeasurementBounds
  <2>3. MadeOf(get_counter, 1)
    BY <2>1, <2>2 DEF MeasureInv
  <2>4. get_counter >= own + lost + ticks * MinTick - 2 * MinTick
    BY <2>3, MeasureTypes DEF MadeOf
  <2> QED
    BY <2>1, <2>3, <2>4 DEF MadeOf
<1>7. CASE KBest
  <2>1. /\ UNCHANGED <<step, compensate, cyc_per_tick, own, lost, ticks, elapsed,
                       samples, samplecount>>
        /\ pc = "insert" /\ step = "start"
    BY <1>7 DEF KBest, clock, hardware, Swap, MeasureAgain, Return, ClockInv
  <2> QED
    BY <2>1 DEF MeasureInv, MeasurementBounds
<1>8. CASE UNCHANGED timer
  <2>1. UNCHANGED <<step, compensate, cyc_per_tick, own, lost, samples, samplecount, pc,
                    tsc, phase, elapsed, counter, reading, ticks>>
    BY <1>8 DEF timer, clock, vars, hardware, locals
  <2>2. get_counter' = get_counter
    BY <2>1, SameCounter
  <2> QED
    BY <2>1, <2>2 DEF MeasureInv, MeasurementBounds, MadeOf
<1> QED
  BY <1>1, <1>2, <1>3, <1>4, <1>5, <1>6, <1>7, <1>8, TickMeasureInv, SampleMeasureInv
     DEF NextTimer, Program

\* MeasurementBounds: whatever a tick costs, wherever the ticks fall, and
\* whether or not the system counts them, a measurement is what the function and
\* the interrupts left out took, up to what the ticks counted explain.
THEOREM MeasurementBoundsCorrect == TimerSpec => []MeasurementBounds
<1>1. TimerSpec => []MeasureInv
  BY InitMeasureInv, MeasureInvStep, ClockInvCorrect, GapInvCorrect, TimerIndInvCorrect, PTL
     DEF TimerSpec
<1>2. MeasureInv => MeasurementBounds
  BY DEF MeasureInv
<1> QED
  BY <1>1, <1>2, PTL

=============================================================================
