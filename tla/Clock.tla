------------------------------- MODULE Clock --------------------------------
(***************************************************************************)
(* The cycle counter of clock.c: the hardware counter read in two words,   *)
(* the difference of two readings, and the calibration that estimates what *)
(* a timer interrupt costs.  Interrupts may fall between any two steps of  *)
(* the program; each costs cycles, not always the same, and adds a tick to *)
(* the user time.  `cheapest' is a history variable.                       *)
(* Ticks and the gaps of the calibration are kept relative to where the    *)
(* code last read them, since it uses only differences.                    *)
(***************************************************************************)
EXTENDS Integers

CONSTANTS
    WordBits,       \* width of an unsigned: the counter has twice as many bits
    LoopCost,       \* cycles of one round of the calibration loop
    TickCosts,      \* cycles a timer interrupt may take
    NEVENT, THRESHOLD, RECORDTHRESH,
    MaxTicks        \* bound of the model: interrupts during one measurement;
                    \* callibrate sees at most one between two readings

(* A round without an interrupt stays below what counts as an interrupt.   *)
ASSUME ClockAssumption ==
    /\ {WordBits, LoopCost, NEVENT, THRESHOLD, RECORDTHRESH, MaxTicks} \subseteq Nat \ {0}
    /\ TickCosts \subseteq Nat \ {0}
    /\ THRESHOLD + LoopCost <= RECORDTHRESH
    /\ 2^WordBits \in Nat \ {0}

VARIABLES
    counter,            \* the hardware counter, followed during a measurement
    cyc_hi, cyc_lo,     \* its reading by start_counter
    span,               \* cycles since then: what the counter is to measure
    ticks,              \* tms_utime since start_tick, or since oldc
    gap,                \* cycles since oldt, and those of them newt has seen
    seen,
    cyc_per_tick, e,    \* the estimate, and the events of callibrate
    cheapest            \* of the interrupts callibrate has timed, 0 for none

clockVars == <<counter, cyc_hi, cyc_lo, span, ticks, gap, seen, cyc_per_tick, e, cheapest>>

W == 2^WordBits

ClockInit ==
    /\ counter = 0
    /\ cyc_hi = 0 /\ cyc_lo = 0 /\ span = 0
    /\ ticks = 0 /\ gap = 0 /\ seen = 0
    /\ cyc_per_tick = 0 /\ e = 0 /\ cheapest = 0

(* access_counter: edx and eax.                                            *)
hi(c) == c \div W
lo(c) == c % W

(* Seeded fault: the low words' borrow is not taken from the high word.    *)
get_counter_NoBorrow ==
    LET nlo == (lo(counter) - cyc_lo) % W
        nhi == (hi(counter) - cyc_hi) % W
    IN  nhi * W + nlo

(* The double precision subtraction; the borrow is seen by the low word    *)
(* having grown.                                                           *)
get_counter ==
    LET nlo    == (lo(counter) - cyc_lo) % W
        borrow == IF nlo > lo(counter) THEN 1 ELSE 0
        nhi    == (hi(counter) - cyc_hi - borrow) % W
    IN  nhi * W + nlo

(* Time passes: c cycles of the program, or an interrupt.                  *)
Pass(c) == counter' = (counter + c) % (W * W) /\ span' = span + c

(* By the time it is read for a measurement the counter may have reached   *)
(* any value.                                                              *)
start_counter ==
    /\ counter' \in 0 .. W * W - 1
    /\ cyc_hi' = hi(counter') /\ cyc_lo' = lo(counter')
    /\ span' = 0
    /\ UNCHANGED <<ticks, gap, seen, cyc_per_tick, e, cheapest>>

(* An interrupt, while callibrate watches for one or during a measurement. *)
Tick(watched, cost) ==
    /\ ticks < IF watched THEN 1 ELSE MaxTicks
    /\ ticks' = ticks + 1
    /\ IF watched
         THEN /\ gap' = gap + cost
              /\ cheapest' = IF cheapest = 0 \/ cost < cheapest THEN cost ELSE cheapest
              /\ UNCHANGED <<counter, span>>
         ELSE Pass(cost) /\ UNCHANGED <<gap, cheapest>>
    /\ UNCHANGED <<cyc_hi, cyc_lo, seen, cyc_per_tick, e>>

(* One between callibrate's first reading of the user time and that of the *)
(* counter: it shows in the former only.                                   *)
EarlyTick ==
    /\ ticks = 0 /\ ticks' = 1
    /\ UNCHANGED <<counter, cyc_hi, cyc_lo, span, gap, seen, cyc_per_tick, e, cheapest>>

(* callibrate: the user time is read, oldc, then the counter, oldt; its    *)
(* other locals are as EndCallibrate left them.                            *)
ReadOldc ==
    /\ ticks' = 0
    /\ UNCHANGED <<counter, cyc_hi, cyc_lo, span, gap, seen, cyc_per_tick, e, cheapest>>

ReadOldt ==
    /\ cyc_hi' = hi(counter) /\ cyc_lo' = lo(counter)
    /\ UNCHANGED <<counter, span, ticks, gap, seen, cyc_per_tick, e, cheapest>>

(* One round of its loop reads the counter, and then, if enough time has   *)
(* passed, the user time.                                                  *)
ReadNewt ==
    /\ gap' = gap + LoopCost
    /\ seen' = gap'
    /\ UNCHANGED <<counter, cyc_hi, cyc_lo, span, ticks, cyc_per_tick, e, cheapest>>

EndCallibrate ==
    /\ e >= NEVENT
    /\ e' = 0 /\ ticks' = 0 /\ gap' = 0 /\ seen' = 0
    /\ UNCHANGED <<counter, cyc_hi, cyc_lo, span, cyc_per_tick, cheapest>>

(* Seeded fault: every event is recorded, also one whose interrupt came    *)
(* after the counter had been read.                                        *)
ReadNewc_RecordsAll ==
    /\ gap' = gap - seen /\ seen' = 0 /\ ticks' = 0
    /\ IF ticks > 0
         THEN /\ e' = e + 1
              /\ cyc_per_tick' = IF cyc_per_tick = 0 \/ cyc_per_tick > seen \div ticks
                                   THEN seen \div ticks ELSE cyc_per_tick
         ELSE UNCHANGED <<e, cyc_per_tick>>
    /\ UNCHANGED <<counter, cyc_hi, cyc_lo, span, cheapest>>

(* Seeded fault: an event counts only if it was recorded.                  *)
ReadNewc_CountsRecorded ==
    /\ gap' = gap - seen /\ seen' = 0 /\ ticks' = 0
    /\ IF ticks > 0 /\ seen \div ticks > RECORDTHRESH
         THEN e' = e + 1 /\ cyc_per_tick' = seen \div ticks
         ELSE UNCHANGED <<e, cyc_per_tick>>
    /\ UNCHANGED <<counter, cyc_hi, cyc_lo, span, cheapest>>

ReadNewc ==
    /\ gap' = gap - seen /\ seen' = 0 /\ ticks' = 0
    /\ IF ticks > 0
         THEN LET cpt == seen \div ticks IN
              /\ e' = e + 1
              /\ cyc_per_tick' =
                   IF (cyc_per_tick = 0 \/ cyc_per_tick > cpt) /\ cpt > RECORDTHRESH
                     THEN cpt ELSE cyc_per_tick
         ELSE UNCHANGED <<e, cyc_per_tick>>
    /\ UNCHANGED <<counter, cyc_hi, cyc_lo, span, cheapest>>
=============================================================================
