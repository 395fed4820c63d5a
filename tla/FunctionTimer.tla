---------------------------- MODULE FunctionTimer ----------------------------
(***************************************************************************)
(* labs/malloclab/fcyc.c on the cycle counters of clock.c (its branch for  *)
(* x86): what fcyc's measurements are while timer interrupts go on.        *)
(*                                                                         *)
(* The counter is two words, and get_counter subtracts them word by word.  *)
(* A timer interrupt takes MinTick to MaxTick cycles and, when it hits the *)
(* program itself, adds one to tms_utime; when it hits the system, as in   *)
(* times() or in a page fault of the function measured, it does not.  A    *)
(* compensated measurement subtracts cyc_per_tick for every tick of        *)
(* tms_utime.  callibrate estimates cyc_per_tick from gaps between         *)
(* readings of the counter, reading tms_utime after the counter, so that a *)
(* tick may come in between.                                               *)
(*                                                                         *)
(* A step is the code between two calls of rdtsc or times().  Cycles pass  *)
(* in the turns of callibrate's loop and in the function measured; a tick  *)
(* may come before every step.  Cycle counts of the program are integers;  *)
(* the quotient cpt is one because at most one tick falls into a gap       *)
(* (TimerAssumption).  ticks is tms_utime minus oldc or start_tick, kept   *)
(* after a measurement for the properties; the locals of a function are 0  *)
(* where they are not read again.                                          *)
(***************************************************************************)
EXTENDS Sampler

CONSTANTS
    WORD,               \* values of one word of the counter
    StartTSC,           \* what the counter may be at first
    TickCosts,          \* cycles a timer interrupt may take
    MinTick,            \* the bounds of TickCosts
    MaxTick,
    MinPeriod,          \* program cycles from one interrupt to the next
    MaxPeriod,
    TurnCycles,         \* cycles of a turn of callibrate's loop
    FunctionCycles,     \* cycles of a piece of the function measured
    MaxCall,            \* bound on the cycles of one call of the function
    MaxUncharged,       \* cycles from start_counter in which ticks hit the system
    NEVENT,
    THRESHOLD,
    RECORDTHRESH

\* The time from a tick to the next, and RECORDTHRESH, leave room for a turn
\* and for what callibrate lets add up below THRESHOLD: timers run at 100 Hz,
\* a turn is far shorter than RECORDTHRESH - THRESHOLD = 2000 cycles.  THRESHOLD
\* is 1000 in the code.
ASSUME TimerAssumption ==
    /\ WORD \in Nat \ {0}
    /\ StartTSC \subseteq 0 .. WORD * WORD - 1
    /\ {MinTick, MaxTick, MinPeriod, MaxPeriod, MaxCall, MaxUncharged} \subseteq Nat
    /\ {NEVENT, THRESHOLD, RECORDTHRESH} \subseteq Nat
    /\ TickCosts \subseteq MinTick .. MaxTick /\ TickCosts # {}
    /\ THRESHOLD > 0
    /\ TurnCycles \subseteq Nat \ {0} /\ TurnCycles # {}
    /\ FunctionCycles \subseteq Nat \ {0}
    /\ MinPeriod <= MaxPeriod
    /\ \A c \in TurnCycles : THRESHOLD + c <= RECORDTHRESH + 1 /\ THRESHOLD + c < MinPeriod

VARIABLES
    tsc,            \* the counter of the processor
    phase,          \* program cycles since the last interrupt
    ticks,          \* tms_utime since oldc or start_tick was read
    cyc_hi, cyc_lo, \* the counter when start_counter was called
    cyc_per_tick,
    compensate,
    step,           \* where the loop of fcyc is
    reading,        \* newt of callibrate, time of get_comp_counter
    oldt, e,        \* locals of callibrate
    elapsed,        \* cycles since start_counter, WORD * WORD if too many
    own,            \* those of them that the function measured took itself
    lost            \* and those of interrupts it met that ticks does not count

hardware == <<tsc, phase, ticks, elapsed>>
counter  == <<cyc_hi, cyc_lo>>
locals   == <<reading, oldt, e>>
clock    == <<hardware, counter, cyc_per_tick, compensate, step, locals, own, lost>>
timer    == <<vars, clock>>

InitTimer ==
    /\ Init
    /\ tsc \in StartTSC
    /\ elapsed = tsc
    /\ phase = 0 /\ ticks = 0
    /\ cyc_hi = 0 /\ cyc_lo = 0
    /\ cyc_per_tick = 0
    /\ compensate \in BOOLEAN
    /\ step = "start"
    /\ reading = 0 /\ oldt = 0 /\ e = 0
    /\ own = 0 /\ lost = 0

(***************************************************************************)
(* The hardware and the system                                             *)
(***************************************************************************)
\* Time stops when the counter has gone round once since start_counter: a bound
\* of the model, which FcycReturns shows no call to reach.
Advance(c) ==
    IF elapsed + c < WORD * WORD
      THEN tsc' = (tsc + c) % (WORD * WORD) /\ elapsed' = elapsed + c
      ELSE UNCHANGED tsc /\ elapsed' = WORD * WORD

\* The program runs for c cycles.
Pass(c) ==
    /\ Advance(c)
    /\ phase' = IF elapsed' < WORD * WORD THEN phase + c ELSE phase

\* The steps in which the system may be running: those that call times(), and
\* the function measured, whose accesses may fault.
InSystem == step \in {"callibrate", "event", "call", "comp_times", "comp_ticks"}

Tick(charged) ==
    /\ pc = "measure"
    /\ phase >= MinPeriod
    /\ charged \/ (InSystem /\ elapsed <= MaxUncharged)
    /\ phase' = 0
    /\ LET counted == charged /\ compensate
       IN  /\ ticks' = IF counted THEN ticks + 1 ELSE ticks
           /\ \E cost \in TickCosts :
                 /\ Advance(cost)
                 /\ lost' = IF ~counted /\ step = "call" /\ elapsed' < WORD * WORD
                            THEN lost + cost ELSE lost
    /\ UNCHANGED <<vars, counter, cyc_per_tick, compensate, step, locals, own>>

\* The program goes on unless an interrupt is overdue.
At(s) == pc = "measure" /\ step = s /\ phase < MaxPeriod

(***************************************************************************)
(* clock.c                                                                 *)
(***************************************************************************)
\* Fault: the borrow is taken when the old low word is small.
BorrowOfOld(lo) == IF lo > cyc_lo THEN 1 ELSE 0

borrow(lo) == IF lo > (tsc % WORD) THEN 1 ELSE 0

get_counter ==
    LET lo == ((tsc % WORD) - cyc_lo) % WORD
        hi == ((tsc \div WORD) - cyc_hi - borrow(lo)) % WORD
    IN  hi * WORD + lo

\* access_counter(&cyc_hi, &cyc_lo)
start_counter ==
    /\ cyc_hi' = tsc \div WORD
    /\ cyc_lo' = tsc % WORD
    /\ elapsed' = 0
    /\ own' = 0 /\ lost' = 0
    /\ UNCHANGED <<tsc, phase>>

\* Fault: a ratio is recorded whatever its size.
RecordsAny(cpt) == cyc_per_tick = 0 \/ cyc_per_tick > cpt

Records(cpt) ==
    /\ cyc_per_tick = 0 \/ cyc_per_tick > cpt
    /\ cpt > RECORDTHRESH

\* callibrate reads tms_utime, ...
CallibrateTimes ==
    /\ At("callibrate")
    /\ ticks' = 0
    /\ step' = "cal_start"
    /\ UNCHANGED <<vars, tsc, phase, elapsed, counter, cyc_per_tick, compensate, locals, own, lost>>

\* ... starts the counter and reads it into oldt; a tick between the two would
\* only delay the first gap.
CallibrateStart ==
    /\ At("cal_start")
    /\ start_counter
    /\ oldt' = 0 /\ e' = 0
    /\ step' = "turn"
    /\ UNCHANGED <<vars, ticks, cyc_per_tick, compensate, reading>>

\* A turn that sees no gap leaves oldt alone, so that short turns add up.
Turn ==
    /\ At("turn")
    /\ e < NEVENT
    /\ get_counter - oldt < THRESHOLD
    /\ \E c \in TurnCycles : Pass(c)
    /\ UNCHANGED <<vars, ticks, counter, cyc_per_tick, compensate, step, locals, own, lost>>

Gap ==
    /\ At("turn")
    /\ e < NEVENT
    /\ get_counter - oldt >= THRESHOLD
    /\ reading' = get_counter
    /\ step' = "event"
    /\ UNCHANGED <<vars, hardware, counter, cyc_per_tick, compensate, oldt, e, own, lost>>

\* Fault: events are not counted.
EventsUncounted == e

EventsCounted == e + 1

\* times() after the gap: with a new tick it is an event, otherwise it is not.
Event ==
    /\ At("event")
    /\ IF ticks > 0
         THEN LET cpt == (reading - oldt) \div ticks
              IN  /\ cyc_per_tick' = IF Records(cpt) THEN cpt ELSE cyc_per_tick
                  /\ e' = EventsCounted
         ELSE UNCHANGED <<cyc_per_tick, e>>
    /\ ticks' = 0
    /\ oldt' = reading
    /\ reading' = 0
    /\ \E c \in TurnCycles : Pass(c)
    /\ step' = "turn"
    /\ UNCHANGED <<vars, counter, compensate, own, lost>>

CallibrateReturns ==
    /\ At("turn")
    /\ e = NEVENT
    /\ oldt' = 0 /\ e' = 0
    /\ step' = "comp_times"
    /\ UNCHANGED <<vars, hardware, counter, cyc_per_tick, compensate, reading, own, lost>>

\* start_comp_counter: start_tick is read, then the counter started.
CompTimes ==
    /\ At("comp_times")
    /\ ticks' = 0
    /\ step' = "comp_start"
    /\ UNCHANGED <<vars, tsc, phase, elapsed, counter, cyc_per_tick, compensate, locals, own, lost>>

(***************************************************************************)
(* fcyc                                                                    *)
(***************************************************************************)
\* fcyc is called, with or without compensation.  Any time has passed since the
\* last call.
Call ==
    /\ init_sampler
    /\ compensate' \in BOOLEAN
    /\ tsc' \in StartTSC
    /\ elapsed' = WORD * WORD
    /\ phase' = 0 /\ ticks' = 0
    /\ UNCHANGED <<counter, cyc_per_tick, step, locals, own, lost>>

\* The top of the loop: a compensated measurement calibrates the tick first if
\* no value was recorded yet.
StartCompensated ==
    /\ At("start")
    /\ compensate
    /\ step' = IF cyc_per_tick = 0 THEN "callibrate" ELSE "comp_times"
    /\ ticks' = 0
    /\ UNCHANGED <<vars, tsc, phase, elapsed, counter, cyc_per_tick, compensate, locals, own, lost>>

StartCounter ==
    /\ At(IF compensate THEN "comp_start" ELSE "start")
    /\ start_counter
    /\ step' = "call"
    /\ UNCHANGED <<vars, ticks, cyc_per_tick, compensate, locals>>

\* f(argp)
Run ==
    /\ At("call")
    /\ \E c \in FunctionCycles :
          /\ own + c <= MaxCall
          /\ Pass(c)
          /\ own' = IF elapsed' < WORD * WORD THEN own + c ELSE own
    /\ UNCHANGED <<vars, ticks, counter, cyc_per_tick, compensate, step, locals, lost>>

\* Fault: the ticks are not subtracted.
SampleUncorrected == reading

Sample == reading - ticks * cyc_per_tick

\* get_comp_counter reads the counter first ...
GetCounter ==
    /\ At("call")
    /\ own > 0
    /\ compensate
    /\ reading' = get_counter
    /\ step' = "comp_ticks"
    /\ UNCHANGED <<vars, hardware, counter, cyc_per_tick, compensate, oldt, e, own, lost>>

\* ... and tms_utime second; add_sample.
SampleCompensated ==
    /\ At("comp_ticks")
    /\ add_sample(Sample)
    /\ reading' = 0
    /\ step' = "start"
    /\ UNCHANGED <<hardware, counter, cyc_per_tick, compensate, oldt, e, own, lost>>

SampleCounter ==
    /\ At("call")
    /\ own > 0
    /\ ~compensate
    /\ add_sample(get_counter)
    /\ step' = "start"
    /\ UNCHANGED <<hardware, counter, cyc_per_tick, compensate, locals, own, lost>>

KBest == (Swap \/ MeasureAgain \/ Return) /\ UNCHANGED clock

Program ==
    \/ CallibrateTimes \/ CallibrateStart \/ Turn \/ Gap \/ Event \/ CallibrateReturns
    \/ StartCompensated \/ CompTimes \/ StartCounter \/ Run
    \/ GetCounter \/ SampleCompensated \/ SampleCounter
    \/ KBest

NextTimer == Call \/ Program \/ \E charged \in BOOLEAN : Tick(charged)

TimerSpec == InitTimer /\ [][NextTimer]_timer

\* The program runs, interrupts that are due come, and not all of them hit the
\* system: those that hit the program, again and again possible, do come.
FairTimer ==
    /\ TimerSpec
    /\ WF_timer(Program)
    /\ WF_timer(\E charged \in BOOLEAN : Tick(charged))
    /\ SF_timer(Tick(TRUE))

(***************************************************************************)
(* Properties                                                              *)
(***************************************************************************)
\* As long as the counter has not gone round, the difference taken word by word
\* is the number of cycles since start_counter, wherever the counter stood and
\* however often its low word has overflowed since.
ElapsedExact == elapsed < WORD * WORD => get_counter = elapsed

\* Although a tick may come between the two readings of callibrate, a value it
\* has recorded is never less than the cheapest tick costs, and exceeds the
\* dearest by no more than what adds up below THRESHOLD, one turn included.
CalibrationBounds ==
    cyc_per_tick # 0 =>
        /\ cyc_per_tick >= MinTick
        /\ \E c \in TurnCycles : cyc_per_tick < MaxTick + THRESHOLD + c

\* What a measurement can be off by, as long as the counter has not gone round.
\* A plain one is what the function and the interrupts that it met took.  A
\* compensated one, with a cyc_per_tick from callibrate, keeps the interrupts
\* that tms_utime does not count.  It is too large by what ticks differ in cost
\* at most; it is too small by that, by what callibrate took for the cost of a
\* tick although it was its own loop, and by two ticks at most, which fall
\* between the readings of tms_utime and of the counter at either end.
MeasurementBounds ==
    (pc = "insert" /\ elapsed < WORD * WORD) =>
        LET m == samples[samplecount]
            spread == MaxTick - MinTick
        IN  /\ ~compensate => m = own + lost
            /\ (compensate /\ cyc_per_tick # 0) =>
                  /\ m <= own + lost + ticks * spread
                  /\ \E c \in TurnCycles :
                        m >= own + lost - 2 * MinTick - ticks * (spread + THRESHOLD + c)

\* Every call of fcyc returns, also when it has to calibrate the tick first.
FcycReturns == pc = "measure" ~> pc = "idle"

=============================================================================
