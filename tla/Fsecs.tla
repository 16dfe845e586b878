------------------------------- MODULE Fsecs --------------------------------
(***************************************************************************)
(* The timing package of the malloc driver: fsecs.c hands a function to    *)
(* the cycle counter's K-best scheme (Fcyc), to the interval timer or to   *)
(* gettimeofday (ftimer.c), whichever config.h selects.  `now' and `rest'  *)
(* are the system's clock and interval timer, in microseconds; `spent', a  *)
(* history variable, is what the runs have really taken.                   *)
(***************************************************************************)
EXTENDS Fcyc

CONSTANTS
    Methods,        \* of "FCYC", "ITIMER" and "GETTOD": what config.h may select
    FsecsK, FsecsSamples,   \* the parameters init_fsecs sets
    Runs,           \* runs ftimer averages over
    USEC,           \* microseconds in a second
    MAX_ETIME       \* seconds the interval timer starts from

(* No measurement outlasts the interval timer.                             *)
ASSUME FsecsAssumption ==
    /\ Methods \subseteq {"FCYC", "ITIMER", "GETTOD"}
    /\ FsecsK \in Ks /\ FsecsSamples \in MaxSamples
    /\ {Runs, USEC, MAX_ETIME} \subseteq Nat \ {0}
    /\ \A c \in Costs : Runs * c < MAX_ETIME * USEC

VARIABLES method, now, rest, start, i, spent, tmeas

ftimerVars == <<now, rest, start, i, spent, tmeas>>
vars == <<fcycVars, method, ftimerVars>>

Init ==
    /\ FcycInit
    /\ method \in Methods
    /\ now = 0 /\ rest = 0 /\ start = [sec |-> 0, usec |-> 0]
    /\ i = 0 /\ spent = 0 /\ tmeas = 0

(* init_fsecs: with the cycle counter it sets that package's parameters.   *)
init_fsecs ==
    /\ pc = "idle" /\ method = "FCYC"
    /\ kbest' = FsecsK /\ maxsamples' = FsecsSamples
    /\ compensate' = TRUE /\ clear_cache' = TRUE
    /\ UNCHANGED <<clockVars, pc, cache_bytes, cache_block, cache_buf, samplerVars, cyc,
                   truth, own, over, result, method, ftimerVars>>
-----------------------------------------------------------------------------
timeval(t) == [sec |-> t \div USEC, usec |-> t % USEC]

(* Seeded fault: the microseconds are taken to have grown.                 *)
Elapsed_Wraps(from, to) == USEC * (to.sec - from.sec) + ((to.usec - from.usec) % USEC)

Elapsed(from, to) == USEC * (to.sec - from.sec) + (to.usec - from.usec)

(* ftimer_itimer sets the timer going (init_etime) and reads it first;     *)
(* ftimer_gettod reads the time of day, somewhere within a second.  Only   *)
(* differences matter, so each measurement starts from second 0.           *)
StartTimer ==
    /\ pc = "idle" /\ method # "FCYC"
    /\ rest' = IF method = "ITIMER" THEN MAX_ETIME * USEC ELSE rest
    /\ now' \in IF method = "ITIMER" THEN {0} ELSE 0 .. USEC - 1
    /\ start' = timeval(IF method = "ITIMER" THEN rest' ELSE now')
    /\ i' = 0 /\ spent' = 0
    /\ pc' = "timed"
    /\ UNCHANGED <<clockVars, params, cache_buf, samplerVars, cyc, truth, own, over, result,
                   method, tmeas>>

RunTimed(cost) ==
    /\ pc = "timed" /\ i < Runs
    /\ i' = i + 1
    /\ now' = now + cost /\ spent' = spent + cost
    /\ rest' = IF method = "ITIMER" THEN rest - cost ELSE rest
    /\ UNCHANGED <<fcycVars, method, start, tmeas>>

(* The timer counts down: get_etime takes what is left from the start.     *)
StopTimer ==
    /\ pc = "timed" /\ i = Runs
    /\ tmeas' = IF method = "ITIMER" THEN Elapsed(timeval(rest), start)
                ELSE Elapsed(start, timeval(now))
    /\ now' = 0
    /\ pc' = "measured"
    /\ UNCHANGED <<clockVars, params, cache_buf, samplerVars, cyc, truth, own, over, result,
                   method, rest, start, i, spent>>

ReturnTimed ==
    /\ pc = "measured"
    /\ pc' = "idle"
    /\ UNCHANGED <<clockVars, params, cache_buf, samplerVars, cyc, truth, own, over, result,
                   method, ftimerVars>>
-----------------------------------------------------------------------------
TimedStep == (\E c \in Costs : RunTimed(c)) \/ StopTimer \/ ReturnTimed

ByCycles == FcycNext /\ method = "FCYC" /\ UNCHANGED <<method, ftimerVars>>

Next == init_fsecs \/ ByCycles \/ StartTimer \/ TimedStep

Spec == Init /\ [][Next]_vars

(* The program goes on once a function is being measured, and timer        *)
(* interrupts keep coming: callibrate waits for them.                      *)
FairSpec ==
    /\ Spec
    /\ WF_vars(FcycStep /\ UNCHANGED <<method, ftimerVars>>) /\ WF_vars(TimedStep)
    /\ WF_vars(Interrupt /\ UNCHANGED <<method, ftimerVars>>)
-----------------------------------------------------------------------------
TypeOK ==
    /\ counter \in 0 .. W * W - 1 /\ cyc_hi \in 0 .. W - 1 /\ cyc_lo \in 0 .. W - 1
    /\ e \in 0 .. NEVENT /\ ticks \in 0 .. MaxTicks
    /\ kbest \in Ks /\ maxsamples \in MaxSamples
    /\ values \in Seq(Int)
    /\ pc # "idle" => Len(values) <= kbest /\ samplecount \in 0 .. maxsamples
    /\ cache_buf \in CacheBytes \union {0}
    /\ start.usec \in 0 .. USEC - 1

(* Whatever the counter's value was at the start, it measures the cycles   *)
(* that have passed: a low word that has wrapped borrows from the high one *)
(* (clock.c, get_counter).  Likewise the timers of ftimer.c, whose seconds *)
(* and microseconds are subtracted apart and may each go down.             *)
MeasuresElapsed ==
    /\ pc = "sample" => cyc = truth
    /\ pc = "measured" => tmeas = spent

(* Of the samples s, x is the kth in order of size.                        *)
Below(s, x)    == {n \in DOMAIN s : s[n] < x}
UpTo(s, x)     == {n \in DOMAIN s : s[n] <= x}
IsKth(s, x, k) == Cardinality(Below(s, x)) < k /\ k <= Cardinality(UpTo(s, x))

(* The array holds the kbest smallest of all the samples taken, in order,  *)
(* although each sample was only compared with the worst kept so far       *)
(* (fcyc.c, add_sample).                                                   *)
KeepsTheSmallest ==
    pc \notin {"idle", "timed", "measured"} =>
      \A k \in 1 .. kbest : k <= Len(samples) => IsKth(samples, values[k], k)

(* fcyc gives the smallest sample, and only gives up measuring once kbest  *)
(* samples lie within epsilon of it or maxsamples were taken.              *)
ReturnsAgreedMinimum ==
    pc = "done" =>
      /\ IsKth(samples, result, 1)
      /\ \/ Len(samples) = maxsamples
         \/ Cardinality({n \in DOMAIN samples :
                           EpsDen * (samples[n] - result) <= EpsNum * result}) >= kbest

(* A compensated time exceeds what the function itself took by no more     *)
(* than what its interrupts cost beyond the cheapest one callibrate timed, *)
(* so never, if none cost more.  Every interrupt the counter saw is taken  *)
(* off, because the user time is read before the counter is started and    *)
(* again after it was read, and the estimate, the smallest of all events,  *)
(* is no less than that cheapest cost, because callibrate discards the     *)
(* events whose interrupt came after it had read the counter (clock.c,     *)
(* RECORDTHRESH).  While there is no estimate nothing is taken off.        *)
CompensationTakesEveryTick ==
    pc = "sample" /\ compensate /\ cyc_per_tick # 0 => get_comp_counter <= own + over

(* clear reads only its buffer, also after the cache size has been set     *)
(* anew (fcyc.c, set_fcyc_cache_size).                                     *)
ClearStaysInBuffer ==
    pc \in {"start", "callibrate", "counter"} /\ clear_cache => ClearReads \subseteq 0 .. cache_buf - 1

(* Every measurement ends, or the program with it: callibrate sees its     *)
(* interrupts, and maxsamples bounds the rest.                             *)
MeasurementEnds == pc # "idle" ~> pc \in {"idle", "exited"}
=============================================================================
