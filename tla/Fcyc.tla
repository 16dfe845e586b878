-------------------------------- MODULE Fcyc --------------------------------
(***************************************************************************)
(* The K-best scheme of fcyc.c: a function is timed again and again until  *)
(* the kbest smallest times lie within a factor of each other, or          *)
(* maxsamples have been taken.  `samples', all that has been measured, in  *)
(* order, `truth' and `own', what it really took, and `over' are history   *)
(* variables.                                                              *)
(***************************************************************************)
EXTENDS Clock, SequencesExt

CONSTANTS
    Costs,          \* cycles one run of the measured function may take
    Ks, MaxSamples, \* values of the setters' arguments
    EpsNum, EpsDen, \* epsilon, a fraction
    CacheBytes, CacheBlocks, sizeof_int

(* With a block smaller than an int, clear would not advance.              *)
ASSUME FcycAssumption ==
    /\ Costs \subseteq Nat /\ Ks \subseteq Nat \ {0} /\ MaxSamples \subseteq Nat \ {0}
    /\ EpsNum \in Nat /\ EpsDen \in Nat \ {0}
    /\ CacheBytes \subseteq Nat /\ sizeof_int \in Nat \ {0}
    /\ \A b \in CacheBlocks : b \in Nat /\ b >= sizeof_int

(* No measurement outlasts the counter.                                    *)
ASSUME SpanAssumption ==
    \E dearest \in TickCosts :
      /\ \A t \in TickCosts : t <= dearest
      /\ \A c \in Costs : c + MaxTicks * dearest < W * W

VARIABLES
    pc,
    kbest, maxsamples, compensate, clear_cache, cache_bytes, cache_block,
    cache_buf,      \* bytes of the buffer, 0 for NULL
    values, samplecount,
    cyc,            \* what get_counter returned
    truth, own,     \* the cycles that passed, and those of f alone
    over,           \* what its interrupts cost beyond the cheapest callibrate timed
    samples,
    result          \* of fcyc

params     == <<kbest, maxsamples, compensate, clear_cache, cache_bytes, cache_block>>
samplerVars == <<values, samplecount, samples>>
fcycVars == <<clockVars, pc, params, cache_buf, samplerVars, cyc, truth, own, over, result>>

FcycInit ==
    /\ ClockInit
    /\ pc = "idle"
    /\ kbest \in Ks /\ maxsamples \in MaxSamples
    /\ compensate = FALSE /\ clear_cache = FALSE
    /\ cache_bytes \in CacheBytes /\ cache_block \in CacheBlocks /\ cache_buf = 0
    /\ values = <<>> /\ samplecount = 0 /\ samples = <<>>
    /\ cyc = 0 /\ truth = 0 /\ own = 0 /\ over = 0 /\ result = 0
-----------------------------------------------------------------------------
(* The setters.  A new cache size gives the old buffer back.               *)

(* Seeded fault: the buffer is kept.                                       *)
SetCacheSize_KeepsBuffer(bytes) == cache_bytes' = bytes /\ UNCHANGED cache_buf

SetCacheSize(bytes) ==
    /\ cache_bytes' = bytes
    /\ cache_buf' = IF bytes # cache_bytes THEN 0 ELSE cache_buf

SetParams ==
    /\ pc = "idle"
    /\ kbest' \in Ks /\ maxsamples' \in MaxSamples
    /\ compensate' \in BOOLEAN /\ clear_cache' \in BOOLEAN
    /\ \E bytes \in CacheBytes : SetCacheSize(bytes)
    /\ cache_block' \in CacheBlocks
    /\ UNCHANGED <<clockVars, pc, samplerVars, cyc, truth, own, over, result>>
-----------------------------------------------------------------------------
(* add_sample.  values[0..] of the code is values[1..] here; calloc has    *)
(* filled it with zeros.                                                   *)

(* The insertion sort from pos down: what is there moves up until its left *)
(* neighbour is not larger, and what it passes moves down by one.          *)
Sink(s, pos) ==
    LET at == 1 + Max({0} \cup {k \in 1 .. pos - 1 : s[k] <= s[pos]})
    IN  [k \in DOMAIN s |-> IF k = at THEN s[pos]
                            ELSE IF k \in at + 1 .. pos THEN s[k - 1] ELSE s[k]]

(* Seeded fault: once the array is full a sample is never discarded.       *)
Inserted_Always(val) ==
    LET pos == IF samplecount < kbest THEN samplecount + 1 ELSE kbest
    IN  Sink([values EXCEPT ![pos] = val], pos)

(* values with val in it: in the next free place, or in that of the worst. *)
Inserted(val) ==
    CASE samplecount < kbest ->
           Sink([values EXCEPT ![samplecount + 1] = val], samplecount + 1)
      [] samplecount >= kbest /\ val < values[kbest] ->
           Sink([values EXCEPT ![kbest] = val], kbest)
      [] OTHER -> values

(* Seeded fault: convergence is tested before there are kbest samples.     *)
has_converged_Early(vals, count) ==
    (EpsDen + EpsNum) * vals[1] >= EpsDen * vals[kbest]

has_converged(vals, count) ==
    /\ count >= kbest
    /\ (EpsDen + EpsNum) * vals[1] >= EpsDen * vals[kbest]

(* Seeded fault: one sample more than maxsamples.                          *)
AddSample_OneMore(val) ==
    LET vals == Inserted(val)
        done == has_converged(vals, samplecount + 1) \/ samplecount >= maxsamples
    IN  /\ samplecount' = samplecount + 1
        /\ samples' = Append(samples, val)
        /\ values' = vals
        /\ IF done THEN pc' = "done" /\ result' = vals[1]
           ELSE pc' = "clear" /\ UNCHANGED result

(* add_sample, the loop condition, and what fcyc returns.                  *)
AddSample(val) ==
    LET vals == Inserted(val)
        done == has_converged(vals, samplecount + 1) \/ samplecount + 1 >= maxsamples
    IN  /\ samplecount' = samplecount + 1
        /\ samples' = Append(samples, val)
        /\ values' = vals
        /\ IF done THEN pc' = "done" /\ result' = vals[1]
           ELSE pc' = "clear" /\ UNCHANGED result
-----------------------------------------------------------------------------
(* fcyc starts: init_sampler; the counts are as Return left them.          *)
Call ==
    /\ pc = "idle"
    /\ values' = [k \in 1 .. kbest |-> 0]
    /\ pc' = "clear"
    /\ UNCHANGED <<clockVars, params, cache_buf, samplecount, samples, cyc, truth, own, over,
                   result>>

(* clear, if it is asked for: the buffer is allocated once and then read   *)
(* in steps of a block.  Without compensation only the counter is used.    *)
(* The program ends when there is no memory for the buffer.                *)
Clear ==
    /\ pc = "clear"
    /\ \/ /\ cache_buf' = IF clear_cache /\ cache_buf = 0 THEN cache_bytes ELSE cache_buf
          /\ pc' = CASE ~compensate -> "counter"
                     [] compensate /\ cyc_per_tick = 0 -> "callibrate"
                     [] compensate /\ cyc_per_tick # 0 -> "start"
       \/ clear_cache /\ cache_buf = 0 /\ pc' = "exited" /\ UNCHANGED cache_buf
    /\ UNCHANGED <<clockVars, params, samplerVars, cyc, truth, own, over, result>>

(* The bytes clear reads.                                                  *)
ClearReads ==
    LET incr == cache_block \div sizeof_int
    IN  {sizeof_int * n + b : n \in {m \in 0 .. cache_bytes \div sizeof_int - 1 : m % incr = 0},
                              b \in 0 .. sizeof_int - 1}

(* callibrate, called by start_comp_counter as long as there is no         *)
(* estimate.                                                               *)
Callibrate ==
    /\ \/ pc = "callibrate" /\ ReadOldc /\ pc' = "oldt"
       \/ pc = "oldt" /\ ReadOldt /\ pc' = "newt"
       \/ pc = "newt" /\ e < NEVENT /\ ReadNewt
            /\ pc' = IF seen' >= THRESHOLD THEN "newc" ELSE "newt"
       \/ pc = "newc" /\ ReadNewc /\ pc' = "newt"
       \/ pc = "newt" /\ EndCallibrate /\ pc' = "start"
    /\ UNCHANGED <<params, cache_buf, samplerVars, cyc, truth, own, over, result>>

(* start_comp_counter reads the user time first, then the counter.         *)
StartTick ==
    /\ pc = "start"
    /\ ticks' = 0 /\ pc' = "counter"
    /\ UNCHANGED <<counter, cyc_hi, cyc_lo, span, gap, seen, cyc_per_tick, e, cheapest,
                   params, cache_buf, samplerVars, cyc, truth, own, over, result>>

StartCounter ==
    /\ pc = "counter"
    /\ start_counter /\ pc' = "run"
    /\ UNCHANGED <<params, cache_buf, samplerVars, cyc, truth, own, over, result>>

(* f(argp). *)
Run(cost) ==
    /\ pc = "run"
    /\ Pass(cost) /\ own' = cost /\ pc' = "stop"
    /\ UNCHANGED <<cyc_hi, cyc_lo, ticks, gap, seen, cyc_per_tick, e, cheapest, params,
                   cache_buf, samplerVars, cyc, truth, over, result>>

Stop ==
    /\ pc = "stop"
    /\ cyc' = get_counter /\ truth' = span
    /\ pc' = "sample"
    /\ UNCHANGED <<clockVars, params, cache_buf, samplerVars, own, over, result>>

(* get_comp_counter takes off the ticks up to when it reads them.          *)
get_comp_counter == cyc - ticks * cyc_per_tick

(* The sample is added; what this round of the loop measured is then of no *)
(* more use.                                                               *)
Sample ==
    /\ pc = "sample"
    /\ AddSample(IF compensate THEN get_comp_counter ELSE cyc)
    /\ cyc' = 0 /\ truth' = 0 /\ own' = 0 /\ over' = 0 /\ span' = 0 /\ ticks' = 0
    /\ counter' = 0 /\ cyc_hi' = 0 /\ cyc_lo' = 0
    /\ UNCHANGED <<gap, seen, cyc_per_tick, e, cheapest, params, cache_buf>>

Return ==
    /\ pc = "done"
    /\ pc' = "idle"
    /\ values' = <<>> /\ samplecount' = 0 /\ samples' = <<>> /\ result' = 0
    /\ UNCHANGED <<clockVars, params, cache_buf, cyc, truth, own, over>>

(* A timer interrupt, at any point where the clock is being used.          *)
Interrupt ==
    /\ \/ /\ pc = "oldt" /\ EarlyTick /\ UNCHANGED over
       \/ \E cost \in TickCosts :
            /\ pc \in {"newt", "newc", "counter", "run", "stop", "sample"}
            /\ Tick(pc \in {"newt", "newc"}, cost)
            /\ over' = IF pc \in {"run", "stop"} /\ cost > cheapest
                         THEN over + (cost - cheapest) ELSE over
    /\ UNCHANGED <<pc, params, cache_buf, samplerVars, cyc, truth, own, result>>

FcycStep ==
    Clear \/ Callibrate \/ StartTick \/ StartCounter \/ (\E c \in Costs : Run(c))
      \/ Stop \/ Sample \/ Return

FcycNext == SetParams \/ Call \/ FcycStep \/ Interrupt
=============================================================================
