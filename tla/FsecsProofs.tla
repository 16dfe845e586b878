---------------------------- MODULE FsecsProofs -----------------------------
(***************************************************************************)
(* The invariants of the timing package (module Fsecs), for every width of *)
(* the counter, every cost of the measured function and of each interrupt, *)
(* and every setting of the K-best scheme.                                 *)
(***************************************************************************)
EXTENDS Fsecs, DataLemmas, SequenceTheorems

-----------------------------------------------------------------------------
(* The sampler.  Counting the samples below a value and up to it.          *)

(* The counts of smaller samples are numbers no greater than that of all   *)
(* samples.                                                                *)
LEMMA CountType ==
    ASSUME NEW s \in Seq(Int), NEW x \in Int
    PROVE  /\ IsFiniteSet(Below(s, x)) /\ Cardinality(Below(s, x)) \in 0 .. Len(s)
           /\ IsFiniteSet(UpTo(s, x)) /\ Cardinality(UpTo(s, x)) \in 0 .. Len(s)
<1>1. Len(s) \in Nat /\ DOMAIN s = 1 .. Len(s)
  BY LenProperties
<1>2. IsFiniteSet(1 .. Len(s)) /\ Cardinality(1 .. Len(s)) = Len(s)
  BY <1>1, FS_Interval
<1>3. ASSUME NEW T \in SUBSET (1 .. Len(s))
      PROVE  IsFiniteSet(T) /\ Cardinality(T) \in 0 .. Len(s)
  <2>1. IsFiniteSet(T) /\ Cardinality(T) <= Cardinality(1 .. Len(s)) /\ Cardinality(T) \in Nat
    BY <1>2, FS_Subset, FS_CardinalityType
  <2> QED
    BY <1>1, <1>2, <2>1
<1>4. Below(s, x) \in SUBSET (1 .. Len(s)) /\ UpTo(s, x) \in SUBSET (1 .. Len(s))
  BY <1>1 DEF Below, UpTo
<1> QED
  BY <1>3, <1>4

(* One sample more is counted if it is smaller.                            *)
LEMMA CountMore ==
    ASSUME NEW s \in Seq(Int), NEW v \in Int, NEW x \in Int
    PROVE  /\ Cardinality(Below(Append(s, v), x)) =
                Cardinality(Below(s, x)) + (IF v < x THEN 1 ELSE 0)
           /\ Cardinality(UpTo(Append(s, v), x)) =
                Cardinality(UpTo(s, x)) + (IF v <= x THEN 1 ELSE 0)
<1> DEFINE t == Append(s, v)
           n == Len(s)
<1>1. n \in Nat /\ DOMAIN s = 1 .. n /\ \A k \in 1 .. n : s[k] \in Int
  BY LenProperties, ElementOfSeq
<1>2. /\ t \in Seq(Int) /\ Len(t) = n + 1
      /\ \A k \in 1 .. n : t[k] = s[k]
      /\ t[n + 1] = v
  BY AppendProperties
<1>3. DOMAIN t = 1 .. n + 1
  BY <1>2, LenProperties
<1> HIDE DEF t
<1>4. Below(t, x) = IF v < x THEN Below(s, x) \cup {n + 1} ELSE Below(s, x)
  BY <1>1, <1>2, <1>3 DEF Below
<1>5. UpTo(t, x) = IF v <= x THEN UpTo(s, x) \cup {n + 1} ELSE UpTo(s, x)
  BY <1>1, <1>2, <1>3 DEF UpTo
<1>6. n + 1 \notin Below(s, x) /\ n + 1 \notin UpTo(s, x)
  BY <1>1 DEF Below, UpTo
<1>7. /\ Cardinality(Below(s, x) \cup {n + 1}) = Cardinality(Below(s, x)) + 1
      /\ Cardinality(UpTo(s, x) \cup {n + 1}) = Cardinality(UpTo(s, x)) + 1
  BY <1>6, CountType, FS_AddElement
<1>8. Cardinality(Below(s, x)) \in Nat /\ Cardinality(UpTo(s, x)) \in Nat
  BY <1>6, CountType, FS_CardinalityType
<1> QED
  BY <1>4, <1>5, <1>7, <1>8 DEF t

(* The counts grow with the bound.                                         *)
LEMMA CountOrdered ==
    ASSUME NEW s \in Seq(Int), NEW x \in Int, NEW y \in Int
    PROVE  /\ x <= y => /\ Cardinality(Below(s, x)) <= Cardinality(Below(s, y))
                        /\ Cardinality(UpTo(s, x)) <= Cardinality(UpTo(s, y))
           /\ x < y => Cardinality(UpTo(s, x)) <= Cardinality(Below(s, y))
<1>1. \A k \in DOMAIN s : s[k] \in Int
  BY LenProperties, ElementOfSeq
<1>2. x <= y => Below(s, x) \subseteq Below(s, y) /\ UpTo(s, x) \subseteq UpTo(s, y)
  BY <1>1 DEF Below, UpTo
<1>3. x < y => UpTo(s, x) \subseteq Below(s, y)
  BY <1>1 DEF Below, UpTo
<1> QED
  BY <1>2, <1>3, CountType, FS_Subset

(* The kth of the samples are in order.                                    *)
LEMMA KthOrdered ==
    ASSUME NEW s \in Seq(Int), NEW x \in Int, NEW y \in Int, NEW j \in Int, NEW k \in Int,
           j <= k, IsKth(s, x, j), IsKth(s, y, k)
    PROVE  x <= y
<1>1. SUFFICES ASSUME y < x PROVE FALSE
  OBVIOUS
<1>2. Cardinality(UpTo(s, y)) <= Cardinality(Below(s, x))
  BY <1>1, CountOrdered
<1>3. Cardinality(UpTo(s, y)) \in Int /\ Cardinality(Below(s, x)) \in Int
  BY CountType
<1> QED
  BY <1>2, <1>3 DEF IsKth

(* A kth sample stays the kth when a sample no smaller comes, and becomes  *)
(* the one after when a smaller one comes.                                 *)
LEMMA KthMoves ==
    ASSUME NEW s \in Seq(Int), NEW v \in Int, NEW x \in Int, NEW k \in Int, IsKth(s, x, k)
    PROVE  /\ x <= v => IsKth(Append(s, v), x, k)
           /\ v < x => IsKth(Append(s, v), x, k + 1)
<1>1. /\ Cardinality(Below(Append(s, v), x)) =
           Cardinality(Below(s, x)) + (IF v < x THEN 1 ELSE 0)
      /\ Cardinality(UpTo(Append(s, v), x)) =
           Cardinality(UpTo(s, x)) + (IF v <= x THEN 1 ELSE 0)
  BY CountMore
<1>2. Cardinality(UpTo(s, x)) \in Int /\ Cardinality(Below(s, x)) \in Int
  BY CountType
<1> QED
  BY <1>1, <1>2 DEF IsKth

(* What the sampler keeps: of n samples the first in order of size.        *)
Holds(vals, s, kb) == \A k \in 1 .. kb : k <= Len(s) => IsKth(s, vals[k], k)

(* Where the insertion sort stops.                                         *)
StopsAt(vals, v, pos) == 1 + Max({0} \cup {k \in 1 .. pos - 1 : vals[k] <= v})

(* What Sink makes of vals with v put in at pos.                           *)
IsSunk(new, vals, v, pos, kb) ==
    /\ new \in [1 .. kb -> Int]
    /\ \E at \in 1 .. pos :
         /\ at > 1 => vals[at - 1] <= v
         /\ \A k \in at .. pos - 1 : v < vals[k]
         /\ \A k \in 1 .. kb : new[k] = IF k = at THEN v
                                        ELSE IF at < k /\ k <= pos THEN vals[k - 1]
                                        ELSE vals[k]

(* The bubbling of add_sample: the value put at pos ends before the        *)
(* greater ones above it, and the others keep their order.                 *)
LEMMA SinkEffect ==
    ASSUME NEW kb \in Nat, NEW vals \in [1 .. kb -> Int], NEW v \in Int, NEW pos \in 1 .. kb
    PROVE  IsSunk(Sink([vals EXCEPT ![pos] = v], pos), vals, v, pos, kb)
<1> DEFINE s   == [vals EXCEPT ![pos] = v]
           K   == {0} \cup {k \in 1 .. pos - 1 : s[k] <= s[pos]}
           at  == 1 + Max(K)
           new == Sink(s, pos)
<1>1. s \in [1 .. kb -> Int] /\ s[pos] = v /\ \A k \in 1 .. kb : k # pos => s[k] = vals[k]
  OBVIOUS
<1>2. Max(K) \in K /\ \A k \in K : k <= Max(K)
  <2>1. K \in SUBSET Nat /\ K # {} /\ pos \in Nat /\ \A k \in K : k <= pos
    OBVIOUS
  <2> HIDE DEF K
  <2> QED
    BY <2>1, MaxOfNats
<1>3. new = [k \in 1 .. kb |-> IF k = at THEN s[pos]
                               ELSE IF k \in at + 1 .. pos THEN s[k - 1] ELSE s[k]]
  BY <1>1 DEF Sink
<1> HIDE DEF s, new
<1> DEFINE m == Max(K)
<1>4. m \in K /\ (\A k \in K : k <= m) /\ at = 1 + m
  BY <1>2
<1> HIDE DEF m, at
<1>5. /\ m \in Nat /\ m <= pos - 1 /\ pos \in Nat /\ pos <= kb
      /\ m > 0 => s[m] <= v
      /\ \A k \in 1 .. pos - 1 : k > m => ~(s[k] <= v)
      /\ at = 1 + m
  <2>1. m = 0 \/ (m \in 1 .. pos - 1 /\ s[m] <= v)
    BY <1>1, <1>4
  <2>2. \A k \in 1 .. pos - 1 : s[k] <= v => k <= m
    BY <1>1, <1>4
  <2> HIDE DEF K
  <2> QED
    BY <1>4, <2>1, <2>2
<1> HIDE DEF K
<1>6. at \in 1 .. pos /\ (at > 1 => vals[at - 1] <= v)
  BY <1>1, <1>5
<1>7. \A k \in at .. pos - 1 : v < vals[k]
  BY <1>1, <1>5
<1>8. \A k \in 1 .. kb : new[k] = IF k = at THEN v
                                  ELSE IF at < k /\ k <= pos THEN vals[k - 1] ELSE vals[k]
  <2>1. \A k \in 1 .. kb : new[k] = IF k = at THEN s[pos]
                                    ELSE IF k \in at + 1 .. pos THEN s[k - 1] ELSE s[k]
    BY <1>3
  <2>2. \A k \in 1 .. kb : at < k /\ k <= pos => k \in at + 1 .. pos /\ s[k - 1] = vals[k - 1]
    BY <1>1, <1>6
  <2>3. \A k \in 1 .. kb : ~(at < k /\ k <= pos) => k \notin at + 1 .. pos
                                                   /\ (k # at => s[k] = vals[k])
    BY <1>1, <1>6
  <2> QED
    BY <1>1, <2>1, <2>2, <2>3
<1>9. new \in [1 .. kb -> Int]
  <2>1. \A k \in 1 .. kb : k \in at + 1 .. pos => k - 1 \in 1 .. kb
    BY <1>6
  <2> QED
    BY <1>1, <1>3, <2>1
<1> QED
  BY <1>6, <1>7, <1>8, <1>9 DEF new, s, IsSunk

(* The new sample takes its place in the order, at the end of the samples  *)
(* kept so far or instead of the worst of them.                            *)
LEMMA SinkKeeps ==
    ASSUME NEW kb \in Nat, NEW vals \in [1 .. kb -> Int], NEW s \in Seq(Int), NEW v \in Int,
           Holds(vals, s, kb), NEW pos \in 1 .. kb,
           pos = Len(s) + 1 \/ (pos = kb /\ Len(s) >= kb /\ v < vals[kb])
    PROVE  Holds(Sink([vals EXCEPT ![pos] = v], pos), Append(s, v), kb)
<1> DEFINE new == Sink([vals EXCEPT ![pos] = v], pos)
           t   == Append(s, v)
<1>0. IsSunk(new, vals, v, pos, kb)
  BY SinkEffect
<1> HIDE DEF new
<1>1. PICK at \in 1 .. pos :
        /\ at > 1 => vals[at - 1] <= v
        /\ \A k \in at .. pos - 1 : v < vals[k]
        /\ \A k \in 1 .. kb : new[k] = IF k = at THEN v
                                       ELSE IF at < k /\ k <= pos THEN vals[k - 1] ELSE vals[k]
  BY <1>0 DEF IsSunk
<1>2. Len(s) \in Nat /\ Len(t) = Len(s) + 1 /\ pos \in Nat /\ at \in Nat /\ pos - 1 <= Len(s)
  BY LenProperties, AppendProperties
<1>3. SUFFICES ASSUME NEW k \in 1 .. kb, k <= Len(t) PROVE IsKth(t, new[k], k)
  BY DEF Holds, t, new
<1>4. k \in Nat /\ k <= pos
  BY <1>2, <1>3
<1>5. \A j \in 1 .. pos - 1 : j \in 1 .. kb /\ vals[j] \in Int /\ IsKth(s, vals[j], j)
  BY <1>2 DEF Holds
<1>6. CASE k < at
  <2>1. k \in 1 .. pos - 1 /\ at - 1 \in 1 .. pos - 1 /\ k <= at - 1 /\ k \in Int /\ at - 1 \in Int
    BY <1>2, <1>4, <1>6
  <2>2. vals[k] <= vals[at - 1]
    BY <1>5, <2>1, KthOrdered
  <2>3. vals[k] <= v
    BY <1>1, <1>5, <2>1, <2>2
  <2>4. IsKth(t, vals[k], k)
    BY <1>5, <2>1, <2>3, KthMoves
  <2> QED
    BY <1>1, <1>2, <1>3, <1>6, <2>4
<1>7. CASE k = at
  <2>1. /\ Cardinality(Below(t, v)) = Cardinality(Below(s, v)) + (IF v < v THEN 1 ELSE 0)
        /\ Cardinality(UpTo(t, v)) = Cardinality(UpTo(s, v)) + (IF v <= v THEN 1 ELSE 0)
    BY CountMore
  <2>2. Cardinality(Below(s, v)) \in 0 .. Len(s) /\ Cardinality(UpTo(s, v)) \in 0 .. Len(s)
    BY CountType
  <2>3. Cardinality(Below(s, v)) < at
    <3>1. ASSUME NEW j \in 1 .. kb, v < vals[j], j <= Len(s), j <= at
          PROVE  Cardinality(Below(s, v)) < at
      <4>1. Cardinality(Below(s, v)) <= Cardinality(Below(s, vals[j]))
        <5>1. vals[j] \in Int /\ v <= vals[j]
          BY <3>1
        <5> QED
          BY <5>1, CountOrdered
      <4>2. Cardinality(Below(s, vals[j])) < j /\ Cardinality(Below(s, vals[j])) \in Int
        BY <3>1, CountType DEF Holds, IsKth
      <4> QED
        BY <1>2, <2>2, <3>1, <4>1, <4>2
    <3>2. CASE at < pos
      BY <1>1, <1>2, <3>1, <3>2
    <3>3. CASE at = pos
      BY <1>2, <2>2, <3>1, <3>3
    <3> QED
      BY <1>2, <3>2, <3>3
  <2>4. at <= Cardinality(UpTo(s, v)) + 1
    <3>1. CASE at = 1
      BY <2>2, <3>1
    <3>2. CASE at > 1
      <4>1. at - 1 \in 1 .. pos - 1 /\ vals[at - 1] <= v
        BY <1>1, <1>2, <3>2
      <4>2. Cardinality(UpTo(s, vals[at - 1])) <= Cardinality(UpTo(s, v))
        BY <1>5, <4>1, CountOrdered
      <4>3. at - 1 <= Cardinality(UpTo(s, vals[at - 1]))
            /\ Cardinality(UpTo(s, vals[at - 1])) \in Int
        BY <1>5, <4>1, CountType DEF IsKth
      <4> QED
        BY <1>2, <2>2, <4>2, <4>3
    <3> QED
      BY <1>2, <3>1, <3>2
  <2>5. new[k] = v
    BY <1>1, <1>7
  <2> QED
    BY <1>2, <1>7, <2>1, <2>2, <2>3, <2>4, <2>5 DEF IsKth
<1>8. CASE k > at
  <2>1. k - 1 \in 1 .. pos - 1 /\ k - 1 \in at .. pos - 1 /\ k - 1 \in Int /\ (k - 1) + 1 = k
    BY <1>2, <1>4, <1>8
  <2>2. v < vals[k - 1] /\ IsKth(s, vals[k - 1], k - 1) /\ vals[k - 1] \in Int
    BY <1>1, <1>5, <2>1
  <2>3. IsKth(t, vals[k - 1], k)
    BY <2>1, <2>2, KthMoves
  <2>4. new[k] = vals[k - 1]
    BY <1>1, <1>2, <1>4, <1>8
  <2> QED
    BY <2>3, <2>4
<1> QED
  BY <1>2, <1>4, <1>6, <1>7, <1>8

(* A sample no better than the worst of a full array is discarded.         *)
LEMMA DiscardKeeps ==
    ASSUME NEW kb \in Nat \ {0}, NEW vals \in [1 .. kb -> Int], NEW s \in Seq(Int), NEW v \in Int,
           Holds(vals, s, kb), Len(s) >= kb, ~(v < vals[kb])
    PROVE  Holds(vals, Append(s, v), kb)
<1>1. Len(s) \in Nat /\ kb \in 1 .. kb /\ \A k \in 1 .. kb : k <= kb /\ k \in Int /\ k <= Len(s)
  BY LenProperties
<1>2. ASSUME NEW k \in 1 .. kb PROVE IsKth(Append(s, v), vals[k], k)
  <2>1. IsKth(s, vals[k], k) /\ IsKth(s, vals[kb], kb) /\ vals[k] \in Int /\ vals[kb] \in Int
    BY <1>1 DEF Holds
  <2>2. vals[k] <= vals[kb]
    BY <1>1, <2>1, KthOrdered
  <2>3. vals[k] <= v
    BY <2>1, <2>2
  <2> QED
    BY <1>1, <2>1, <2>3, KthMoves
<1> QED
  BY <1>2 DEF Holds
-----------------------------------------------------------------------------
(* The inductive invariant, part by part.                                  *)

Sampling == {"clear", "exited", "callibrate", "oldt", "newt", "newc", "start", "counter",
             "run", "stop", "sample", "done"}
Watching == {"newt", "newc"}

Types ==
    /\ pc \in Sampling \cup {"idle", "timed", "measured"}
    /\ kbest \in Ks /\ maxsamples \in MaxSamples /\ compensate \in BOOLEAN /\ clear_cache \in BOOLEAN
    /\ cache_bytes \in CacheBytes /\ cache_block \in CacheBlocks
    /\ counter \in 0 .. W * W - 1 /\ cyc_hi \in 0 .. W - 1 /\ cyc_lo \in 0 .. W - 1
    /\ span \in Nat /\ ticks \in 0 .. MaxTicks /\ gap \in Nat /\ seen \in Nat
    /\ cyc_per_tick \in Nat /\ e \in 0 .. NEVENT /\ cheapest \in Nat
    /\ cyc \in Int /\ truth \in Int /\ own \in Nat /\ over \in Nat /\ result \in Int
    /\ now \in Int /\ rest \in Int /\ start \in [sec : Int, usec : 0 .. USEC - 1]
    /\ i \in Nat /\ spent \in Nat /\ tmeas \in Int

(* The array holds the smallest samples, and measuring goes on as long as  *)
(* there are less than maxsamples.                                         *)
SamplerInv ==
    /\ values \in Seq(Int) /\ samples \in Seq(Int) /\ samplecount = Len(samples)
    /\ pc \in Sampling =>
         /\ Len(values) = kbest
         /\ Holds(values, samples, kbest)
         /\ samplecount < maxsamples \/ (pc = "done" /\ samplecount <= maxsamples)
    /\ pc \notin Sampling => values = <<>> /\ samples = <<>>
    /\ ReturnsAgreedMinimum

(* The buffer, if there is one, has the size last set; once clear has run  *)
(* there is one.                                                           *)
BufferInv ==
    /\ cache_buf \in {0, cache_bytes}
    /\ pc \in {"start", "callibrate", "oldt", "newt", "newc", "counter"} /\ clear_cache =>
         cache_buf = cache_bytes

(* The cycles x contain an interrupt that callibrate has timed.            *)
Has(x) == cheapest # 0 /\ x >= cheapest

(* The calibration: a reading of callibrate is of a few rounds only unless *)
(* it contains an interrupt, and what it has not read is nothing or an     *)
(* interrupt; so an estimate is never below the cheapest.                  *)
CalibrationInv ==
    /\ pc \notin Watching => gap = 0 /\ seen = 0 /\ e = 0
    /\ pc = "oldt" \/ pc \in Watching => ticks <= 1
    /\ pc = "newt" => seen < THRESHOLD /\ (gap = seen \/ Has(gap))
    /\ pc = "newc" =>
         /\ e < NEVENT
         /\ seen < THRESHOLD + LoopCost \/ Has(seen)
         /\ gap = seen \/ Has(gap - seen)
    /\ cyc_per_tick = 0 \/ Has(cyc_per_tick)

(* What an interrupt costs at most.                                        *)
Dearest == CHOOSE d \in TickCosts :
             /\ \A t \in TickCosts : t <= d
             /\ \A c \in Costs : c + MaxTicks * d < W * W

(* The counter has run for `span' cycles since start_counter, those of the *)
(* function and of interrupts that the user time will show, each of them   *)
(* the cheapest but for what `over' counts.                                *)
StopwatchInv ==
    /\ pc \in {"idle", "clear", "exited", "callibrate", "done", "timed", "measured"} => ticks = 0
    /\ pc \notin {"stop", "sample"} => own = 0
    /\ pc \in {"stop", "sample"} => own \in Costs
    /\ pc \in {"run", "stop"} =>
         /\ counter = (cyc_hi * W + cyc_lo + span) % (W * W)
         /\ span <= own + ticks * cheapest + over
         /\ span <= own + ticks * Dearest
    /\ pc = "sample" => cyc = truth /\ cyc <= own + ticks * cheapest + over

(* The time of day has advanced, or the interval timer gone down, by what  *)
(* the runs took.                                                          *)
Started == USEC * start.sec + start.usec

TimerInv ==
    /\ pc = "timed" /\ method = "ITIMER" => rest = Started - spent
    /\ pc = "timed" /\ method # "ITIMER" => now = Started + spent
    /\ pc = "measured" => tmeas = spent

IInv == Types /\ SamplerInv /\ BufferInv /\ CalibrationInv /\ StopwatchInv /\ TimerInv
-----------------------------------------------------------------------------
(* The cycle counter.                                                      *)

(* A word, and the two words of a counter, have at least one value.        *)
LEMMA WordFacts == W \in Nat \ {0} /\ W * W \in Nat \ {0}
<1>1. W \in Nat \ {0}
  BY ClockAssumption DEF W
<1>2. W * W \in Nat /\ W * W # 0
  BY <1>1
<1> QED
  BY <1>1, <1>2

(* The halves of a counter give it back.                                   *)
LEMMA TwoWords ==
    ASSUME NEW c \in 0 .. W * W - 1
    PROVE  hi(c) \in 0 .. W - 1 /\ lo(c) \in 0 .. W - 1 /\ c = hi(c) * W + lo(c)
<1>1. W \in Nat \ {0} /\ W * W \in Nat /\ c \in Nat /\ c < W * W
  BY WordFacts
<1> DEFINE h == hi(c)
           l == lo(c)
<1>2. h \in Int /\ l \in 0 .. W - 1 /\ c = W * h + l /\ h \in Nat
  <2>1. c \div W \in Int /\ c % W \in 0 .. W - 1 /\ c = W * (c \div W) + (c % W)
        /\ c \div W \in Nat
    <3>1. c \in Int /\ c \in Nat
      BY <1>1
    <3> QED
      BY <1>1, <3>1, DivMod, Zenon
  <2> QED
    BY <2>1 DEF hi, lo
<1> HIDE DEF h, l
<1>3. c = h * W + l
  BY <1>1, <1>2
<1>4. h <= W - 1
  <2>1. SUFFICES ASSUME h >= W PROVE FALSE
    BY <1>1, <1>2
  <2>2. h * W >= W * W
    BY <1>1, <1>2, <2>1
  <2>3. h * W \in Int
    BY <1>1, <1>2
  <2> QED
    BY <1>1, <1>2, <1>3, <2>2, <2>3
<1> QED
  BY <1>1, <1>2, <1>3, <1>4 DEF h, l

(* Two words make a counter in its range.                                  *)
LEMMA WordsMakeOne ==
    ASSUME NEW h \in 0 .. W - 1, NEW l \in 0 .. W - 1
    PROVE  h * W + l \in 0 .. W * W - 1
<1>1. W \in Nat \ {0} /\ W * W \in Nat
  BY WordFacts
<1>2. h * W <= (W - 1) * W /\ (W - 1) * W = W * W - W /\ h * W \in Nat
  BY <1>1
<1> QED
  BY <1>1, <1>2

(* The difference of two readings is the time between them, as long as it  *)
(* is less than a full turn of the counter.                                *)
LEMMA CounterMeasures ==
    ASSUME NEW n \in Nat, n < W * W,
           cyc_hi \in 0 .. W - 1, cyc_lo \in 0 .. W - 1,
           counter = (cyc_hi * W + cyc_lo + n) % (W * W)
    PROVE  get_counter = n
<1> DEFINE WW  == W * W
           c0  == cyc_hi * W + cyc_lo
           h   == hi(counter)
           l   == lo(counter)
           nlo == (l - cyc_lo) % W
           b   == IF nlo > l THEN 1 ELSE 0
           nhi == (h - cyc_hi - b) % W
<1>1. W \in Nat \ {0} /\ WW \in Nat \ {0}
  BY WordFacts
<1>2. c0 \in 0 .. WW - 1
  BY WordsMakeOne
<1> DEFINE x == c0 + n
<1>3. counter \in 0 .. WW - 1 /\ (counter = x \/ counter = x - WW)
  <2>1. x \in Nat /\ x < WW + WW /\ counter = x % WW
    BY <1>1, <1>2
  <2> HIDE DEF WW, c0, x
  <2> QED
    BY <1>1, <2>1, ModOnce
<1>4. h \in 0 .. W - 1 /\ l \in 0 .. W - 1 /\ counter = h * W + l
  BY <1>3, TwoWords
<1> HIDE DEF h, l
<1>5. /\ nlo \in 0 .. W - 1 /\ b \in {0, 1} /\ nlo = l - cyc_lo + b * W
  BY <1>1, <1>4
<1> HIDE DEF nlo, b
<1>6. \E j \in {0, 1} : nhi = h - cyc_hi - b + j * W
  <2>1. h - cyc_hi - b \in Int /\ -W <= h - cyc_hi - b /\ h - cyc_hi - b < W
    BY <1>1, <1>4, <1>5
  <2> DEFINE d == h - cyc_hi - b
  <2> HIDE DEF d
  <2>2. d % W = d \/ d % W = d + W
    BY <1>1, <2>1 DEF d
  <2> QED
    BY <1>1, <2>1, <2>2 DEF d
<1>7. PICK j \in {0, 1} : nhi = h - cyc_hi - b + j * W
  BY <1>6
<1>8. nhi \in 0 .. W - 1
  BY <1>1, <1>4, <1>5
<1> HIDE DEF nhi
<1>9. nhi * W + nlo \in 0 .. WW - 1
  BY <1>5, <1>8, WordsMakeOne
<1>10. nhi * W + nlo = counter - c0 + j * WW
  <2>1. nhi * W = h * W - cyc_hi * W - b * W + j * (W * W)
    BY <1>1, <1>4, <1>5, <1>7
  <2>2. h * W \in Int /\ cyc_hi * W \in Int /\ b * W \in Int /\ j * (W * W) \in Int
    BY <1>1, <1>4, <1>5, <1>7
  <2> QED
    BY <1>1, <1>4, <1>5, <2>1, <2>2
<1>11. nhi * W + nlo = n
  <2> DEFINE y == nhi * W + nlo
  <2>1. y \in 0 .. WW - 1 /\ y = counter - c0 + j * WW /\ x = c0 + n /\ n \in 0 .. WW - 1
    BY <1>1, <1>9, <1>10
  <2> HIDE DEF x, y, c0, WW
  <2>2. y = n
    <3>1. CASE j = 0
      BY <1>1, <1>2, <1>3, <2>1, <3>1
    <3>2. CASE j = 1
      BY <1>1, <1>2, <1>3, <2>1, <3>2
    <3> QED
      BY <1>7, <3>1, <3>2
  <2> QED
    BY <2>2 DEF y
<1> QED
  BY <1>11 DEF get_counter, nhi, nlo, b, h, l

(* Time passes: the counter has turned by that much more.                  *)
Turns(a, n, c, m) == (((a + n) % m) + c) % m = (a + (n + c)) % m

(* Running on and wrapping in two goes is the same as in one.              *)
LEMMA CounterTurns ==
    ASSUME NEW a \in Nat, NEW n \in Nat, NEW c \in Nat, NEW m \in Nat \ {0}
    PROVE  Turns(a, n, c, m)
<1>1. (((a + n) % m) + c) % m = ((a + n) + c) % m
  <2> DEFINE x == a + n
  <2>1. x \in Int /\ c \in Int
    OBVIOUS
  <2> HIDE DEF x
  <2>2. ((x % m) + c) % m = (x + c) % m
    BY <2>1, ModAdd, Zenon
  <2> QED
    BY <2>2 DEF x
<1>2. (a + n) + c = a + (n + c)
  OBVIOUS
<1> QED
  BY <1>1, <1>2, Zenon DEF Turns
-----------------------------------------------------------------------------
(* The timers.                                                             *)

(* Seconds and microseconds give the time back.                            *)
LEMMA TimevalType ==
    ASSUME NEW t \in Int
    PROVE  timeval(t) \in [sec : Int, usec : 0 .. USEC - 1]
           /\ USEC * timeval(t).sec + timeval(t).usec = t
<1>1. USEC \in Nat \ {0}
  BY FsecsAssumption
<1>2. t \div USEC \in Int /\ t % USEC \in 0 .. USEC - 1 /\ t = USEC * (t \div USEC) + (t % USEC)
  BY <1>1, DivMod
<1> QED
  BY <1>2 DEF timeval

(* The difference that ftimer_gettod takes is the time between.            *)
LEMMA TimersMeasure ==
    ASSUME NEW from \in [sec : Int, usec : 0 .. USEC - 1],
           NEW to \in [sec : Int, usec : 0 .. USEC - 1]
    PROVE  Elapsed(from, to) = (USEC * to.sec + to.usec) - (USEC * from.sec + from.usec)
<1>1. USEC \in Nat \ {0}
  BY FsecsAssumption
<1>2. USEC * (to.sec - from.sec) = USEC * to.sec - USEC * from.sec
  BY <1>1
<1>3. USEC * to.sec \in Int /\ USEC * from.sec \in Int /\ to.usec \in Int /\ from.usec \in Int
  BY <1>1
<1> QED
  BY <1>2, <1>3 DEF Elapsed
-----------------------------------------------------------------------------
(* Adding a sample.                                                        *)

(* An array of integers is a sequence of integers.                         *)
LEMMA SeqOfFunction ==
    ASSUME NEW n \in Nat, NEW f \in [1 .. n -> Int]
    PROVE  f \in Seq(Int) /\ Len(f) = n
  OBVIOUS

(* add_sample keeps the smallest samples in order, and the loop ends with  *)
(* the agreed minimum or at its bound.                                     *)
LEMMA AddSampleKeeps ==
    ASSUME Types, SamplerInv, pc = "sample", NEW val \in Int, AddSample(val),
           UNCHANGED params
    PROVE  /\ values' \in Seq(Int) /\ samples' \in Seq(Int) /\ samplecount' = Len(samples')
           /\ Len(values') = kbest /\ Holds(values', samples', kbest)
           /\ \/ pc' = "clear" /\ samplecount' < maxsamples /\ result' = result
              \/ pc' = "done" /\ samplecount' <= maxsamples /\ ReturnsAgreedMinimum'
                   /\ result' \in Int
<1> DEFINE vals == Inserted(val)
           more == Append(samples, val)
<1>0. /\ kbest \in Nat \ {0} /\ maxsamples \in Nat \ {0} /\ EpsNum \in Nat /\ EpsDen \in Nat \ {0}
      /\ kbest' = kbest /\ maxsamples' = maxsamples
  BY FcycAssumption DEF Types, params
<1>1. /\ values \in Seq(Int) /\ samples \in Seq(Int) /\ samplecount = Len(samples)
      /\ Len(values) = kbest /\ Holds(values, samples, kbest) /\ samplecount < maxsamples
      /\ Len(samples) \in Nat
  BY LenProperties DEF SamplerInv, Sampling
<1>2. values \in [1 .. kbest -> Int]
  BY <1>1, LenProperties
<1>3. more \in Seq(Int) /\ Len(more) = samplecount + 1
  BY <1>1, AppendProperties
<1>4. vals \in [1 .. kbest -> Int] /\ Holds(vals, more, kbest)
  <2>1. ASSUME NEW pos \in 1 .. kbest,
               pos = Len(samples) + 1 \/ (pos = kbest /\ Len(samples) >= kbest /\ val < values[kbest]),
               vals = Sink([values EXCEPT ![pos] = val], pos)
        PROVE  vals \in [1 .. kbest -> Int] /\ Holds(vals, more, kbest)
    <3>1. IsSunk(Sink([values EXCEPT ![pos] = val], pos), values, val, pos, kbest)
      BY <1>0, <1>2, SinkEffect
    <3>2. Holds(Sink([values EXCEPT ![pos] = val], pos), Append(samples, val), kbest)
      BY <1>0, <1>1, <1>2, <2>1, SinkKeeps
    <3> QED
      BY <2>1, <3>1, <3>2 DEF IsSunk
  <2>2. CASE samplecount < kbest
    <3>1. samplecount + 1 \in 1 .. kbest
      BY <1>0, <1>1, <2>2
    <3>2. vals = Sink([values EXCEPT ![samplecount + 1] = val], samplecount + 1)
      BY <1>0, <1>1, <2>2 DEF Inserted
    <3> HIDE DEF vals, more
    <3> QED
      BY <1>1, <2>1, <3>1, <3>2
  <2>3. CASE samplecount >= kbest /\ val < values[kbest]
    <3>1. kbest \in 1 .. kbest /\ ~(samplecount < kbest)
      BY <1>0, <1>1, <2>3
    <3>2. vals = Sink([values EXCEPT ![kbest] = val], kbest)
      BY <2>3, <3>1 DEF Inserted
    <3> HIDE DEF vals, more
    <3> QED
      BY <1>1, <2>1, <2>3, <3>1, <3>2
  <2>4. CASE samplecount >= kbest /\ ~(val < values[kbest])
    <3>1. vals = values
      BY <1>0, <1>1, <2>4 DEF Inserted
    <3>2. Holds(values, Append(samples, val), kbest)
      BY <1>0, <1>1, <1>2, <2>4, DiscardKeeps
    <3> QED
      BY <1>2, <3>1, <3>2
  <2> QED
    BY <1>0, <1>1, <2>2, <2>3, <2>4
<1>5. values' = vals /\ samples' = more /\ samplecount' = samplecount + 1
      /\ IF has_converged(vals, samplecount + 1) \/ samplecount + 1 >= maxsamples
           THEN pc' = "done" /\ result' = vals[1]
           ELSE pc' = "clear" /\ result' = result
  BY DEF AddSample
<1> HIDE DEF vals, more
<1>6. vals \in Seq(Int) /\ Len(vals) = kbest /\ vals[1] \in Int /\ vals[kbest] \in Int
  BY <1>0, <1>4, SeqOfFunction
<1>7. ASSUME has_converged(vals, samplecount + 1) \/ samplecount + 1 >= maxsamples
      PROVE  ReturnsAgreedMinimum'
  <2>1. IsKth(more, vals[1], 1)
    <3>1. 1 \in 1 .. kbest /\ 1 <= Len(more)
      BY <1>0, <1>1, <1>3
    <3> QED
      BY <1>4, <3>1 DEF Holds
  <2>2. Len(more) = maxsamples \/
        Cardinality({n \in DOMAIN more : EpsDen * (more[n] - vals[1]) <= EpsNum * vals[1]}) >= kbest
    <3>1. CASE samplecount + 1 >= maxsamples
      BY <1>0, <1>1, <1>3, <3>1
    <3>2. CASE has_converged(vals, samplecount + 1)
      <4> DEFINE Near == {n \in DOMAIN more : EpsDen * (more[n] - vals[1]) <= EpsNum * vals[1]}
      <4>1. samplecount + 1 >= kbest /\ (EpsDen + EpsNum) * vals[1] >= EpsDen * vals[kbest]
        BY <3>2 DEF has_converged
      <4>2. kbest \in 1 .. kbest /\ kbest <= Len(more)
        BY <1>0, <1>3, <4>1
      <4>3. kbest <= Cardinality(UpTo(more, vals[kbest]))
        BY <1>4, <4>2 DEF Holds, IsKth
      <4>4. UpTo(more, vals[kbest]) \subseteq Near
        <5>1. SUFFICES ASSUME NEW n \in DOMAIN more, more[n] <= vals[kbest]
                       PROVE  EpsDen * (more[n] - vals[1]) <= EpsNum * vals[1]
          BY DEF UpTo
        <5>2. more[n] \in Int
          BY <1>3, LenProperties, ElementOfSeq
        <5>3. EpsDen * more[n] <= EpsDen * vals[kbest]
          BY <1>0, <1>6, <5>1, <5>2, ProductGrows
        <5>4. /\ (EpsDen + EpsNum) * vals[1] = EpsDen * vals[1] + EpsNum * vals[1]
              /\ EpsDen * (more[n] - vals[1]) = EpsDen * more[n] - EpsDen * vals[1]
              /\ EpsDen * more[n] \in Int /\ EpsDen * vals[1] \in Int
              /\ EpsNum * vals[1] \in Int /\ EpsDen * vals[kbest] \in Int
          BY <1>0, <1>6, <5>2
        <5> QED
          BY <4>1, <5>3, <5>4
      <4>5. IsFiniteSet(Near) /\ DOMAIN more = 1 .. Len(more) /\ Len(more) \in Nat
        <5>1. DOMAIN more = 1 .. Len(more) /\ Len(more) \in Nat
          BY <1>3, LenProperties
        <5>2. IsFiniteSet(1 .. Len(more)) /\ Near \subseteq 1 .. Len(more)
          BY <5>1, FS_Interval
        <5> QED
          BY <5>1, <5>2, FS_Subset
      <4>6. Cardinality(UpTo(more, vals[kbest])) <= Cardinality(Near)
        BY <4>4, <4>5, FS_Subset
      <4>7. Cardinality(UpTo(more, vals[kbest])) \in Int /\ Cardinality(Near) \in Int
        BY <4>4, <4>5, FS_Subset, FS_CardinalityType
      <4> HIDE DEF Near
      <4>8. Cardinality(Near) >= kbest
        BY <1>0, <4>3, <4>6, <4>7
      <4> QED
        BY <4>8 DEF Near
    <3> QED
      BY <1>7, <3>1, <3>2
  <2>3. samples' = more /\ result' = vals[1] /\ kbest' = kbest /\ maxsamples' = maxsamples
    BY <1>0, <1>5, <1>7
  <2> QED
    BY <2>1, <2>2, <2>3 DEF ReturnsAgreedMinimum, IsKth, Below, UpTo
<1> QED
  BY <1>0, <1>1, <1>3, <1>4, <1>5, <1>6, <1>7

(* One step preserves each part of the invariant.                          *)

(* Every step keeps clear() inside its buffer.                             *)
LEMMA BufferInvStep == IInv /\ [Next]_vars => BufferInv'
<1> SUFFICES ASSUME IInv, [Next]_vars PROVE BufferInv'
  OBVIOUS
<1> USE DEF clockVars, params, samplerVars, fcycVars, ftimerVars, Sampling, Watching
<1>0. Types /\ BufferInv
  BY DEF IInv
<1>1. ASSUME init_fsecs PROVE BufferInv'
  BY <1>0, <1>1, FcycAssumption DEF init_fsecs, params, Types, BufferInv
<1>2. ASSUME SetParams, UNCHANGED <<method, ftimerVars>> PROVE BufferInv'
  BY <1>0, <1>2, FcycAssumption DEF SetParams, SetCacheSize, Types, BufferInv
<1>3. ASSUME Call, UNCHANGED <<method, ftimerVars>> PROVE BufferInv'
  BY <1>0, <1>3, FcycAssumption DEF Call, Types, BufferInv
<1>4. ASSUME Clear, UNCHANGED <<method, ftimerVars>> PROVE BufferInv'
  BY <1>0, <1>4, FcycAssumption DEF Clear, Types, BufferInv
<1>5. ASSUME pc = "callibrate" /\ Callibrate, UNCHANGED <<method, ftimerVars>> PROVE BufferInv'
  BY <1>0, <1>5, FcycAssumption DEF Callibrate, ReadOldc, Types, BufferInv
<1>20. ASSUME pc = "oldt" /\ Callibrate, UNCHANGED <<method, ftimerVars>> PROVE BufferInv'
  BY <1>0, <1>20, FcycAssumption DEF Callibrate, ReadOldt, Types, BufferInv
<1>6. ASSUME pc = "newt" /\ Callibrate, UNCHANGED <<method, ftimerVars>> PROVE BufferInv'
  BY <1>0, <1>6, FcycAssumption DEF Callibrate, ReadNewt, EndCallibrate, Types, BufferInv
<1>7. ASSUME pc = "newc" /\ Callibrate, UNCHANGED <<method, ftimerVars>> PROVE BufferInv'
  BY <1>0, <1>7, FcycAssumption DEF Callibrate, ReadNewc, Types, BufferInv
<1>8. ASSUME StartTick, UNCHANGED <<method, ftimerVars>> PROVE BufferInv'
  BY <1>0, <1>8, FcycAssumption DEF StartTick, Types, BufferInv
<1>9. ASSUME StartCounter, UNCHANGED <<method, ftimerVars>> PROVE BufferInv'
  BY <1>0, <1>9, FcycAssumption DEF StartCounter, start_counter, Types, BufferInv
<1>10. ASSUME NEW c \in Costs, Run(c), UNCHANGED <<method, ftimerVars>> PROVE BufferInv'
  BY <1>0, <1>10, FcycAssumption DEF Run, Pass, Types, BufferInv
<1>11. ASSUME Stop, UNCHANGED <<method, ftimerVars>> PROVE BufferInv'
  BY <1>0, <1>11, FcycAssumption DEF Stop, Types, BufferInv
<1>12. ASSUME Sample, UNCHANGED <<method, ftimerVars>> PROVE BufferInv'
  BY <1>0, <1>12, FcycAssumption DEF Sample, AddSample, Types, BufferInv
<1>13. ASSUME Return, UNCHANGED <<method, ftimerVars>> PROVE BufferInv'
  BY <1>0, <1>13, FcycAssumption DEF Return, Types, BufferInv
<1>14. ASSUME Interrupt, UNCHANGED <<method, ftimerVars>> PROVE BufferInv'
  BY <1>0, <1>14, FcycAssumption DEF Interrupt, Tick, Pass, Types, BufferInv
<1>15. ASSUME StartTimer PROVE BufferInv'
  BY <1>0, <1>15, FcycAssumption DEF StartTimer, Types, BufferInv
<1>16. ASSUME NEW c \in Costs, RunTimed(c) PROVE BufferInv'
  BY <1>0, <1>16, FcycAssumption DEF RunTimed, Types, BufferInv
<1>17. ASSUME StopTimer PROVE BufferInv'
  BY <1>0, <1>17, FcycAssumption DEF StopTimer, Types, BufferInv
<1>18. ASSUME ReturnTimed PROVE BufferInv'
  BY <1>0, <1>18, FcycAssumption DEF ReturnTimed, Types, BufferInv
<1>19. ASSUME UNCHANGED vars PROVE BufferInv'
  BY <1>0, <1>19, FcycAssumption DEF vars, Types, BufferInv
<1> QED
  BY <1>1, <1>2, <1>3, <1>4, <1>5, <1>6, <1>7, <1>8, <1>9, <1>10, <1>11, <1>12, <1>13, <1>14, <1>15, <1>16, <1>17, <1>18, <1>19, <1>20
     DEF Next, ByCycles, FcycNext, FcycStep, TimedStep, Callibrate

(* Every step keeps the readings of callibrate a few rounds apart, or an   *)
(* interrupt.                                                              *)
LEMMA CalibrationInvStep == IInv /\ [Next]_vars => CalibrationInv'
<1> SUFFICES ASSUME IInv, [Next]_vars PROVE CalibrationInv'
  OBVIOUS
<1> USE DEF clockVars, params, samplerVars, fcycVars, ftimerVars, Sampling, Watching
<1>0. Types /\ CalibrationInv
  BY DEF IInv
<1>1. ASSUME init_fsecs PROVE CalibrationInv'
  BY <1>0, <1>1, ClockAssumption DEF init_fsecs, params, Types, CalibrationInv, Has
<1>2. ASSUME SetParams, UNCHANGED <<method, ftimerVars>> PROVE CalibrationInv'
  BY <1>0, <1>2, ClockAssumption DEF SetParams, SetCacheSize, Types, CalibrationInv, Has
<1>3. ASSUME Call, UNCHANGED <<method, ftimerVars>> PROVE CalibrationInv'
  BY <1>0, <1>3, ClockAssumption DEF Call, Types, CalibrationInv, Has
<1>4. ASSUME Clear, UNCHANGED <<method, ftimerVars>> PROVE CalibrationInv'
  BY <1>0, <1>4, ClockAssumption DEF Clear, Types, CalibrationInv, Has
<1>5. ASSUME pc = "callibrate" /\ Callibrate, UNCHANGED <<method, ftimerVars>> PROVE CalibrationInv'
  BY <1>0, <1>5 DEF Callibrate, ReadOldc, Types, CalibrationInv, Has
<1>20. ASSUME pc = "oldt" /\ Callibrate, UNCHANGED <<method, ftimerVars>> PROVE CalibrationInv'
  BY <1>0, <1>20, ClockAssumption DEF Callibrate, ReadOldt, Types, CalibrationInv, Has
<1>6. ASSUME pc = "newt" /\ Callibrate, UNCHANGED <<method, ftimerVars>> PROVE CalibrationInv'
  BY <1>0, <1>6, ClockAssumption DEF Callibrate, ReadNewt, EndCallibrate, Types, CalibrationInv, Has
<1>7. ASSUME pc = "newc" /\ Callibrate, UNCHANGED <<method, ftimerVars>> PROVE CalibrationInv'
  <2>1. /\ pc = "newc" /\ pc' = "newt" /\ gap' = gap - seen /\ seen' = 0 /\ ticks' = 0
        /\ cheapest' = cheapest
        /\ \/ cyc_per_tick' = cyc_per_tick
           \/ ticks > 0 /\ seen \div ticks > RECORDTHRESH /\ cyc_per_tick' = seen \div ticks
    BY <1>7 DEF Callibrate, ReadNewc
  <2>2. ticks > 0 => ticks = 1 /\ seen \div ticks = seen
    BY <1>0, <2>1 DEF Types, CalibrationInv
  <2>3. cyc_per_tick' = cyc_per_tick \/ (cyc_per_tick' = seen /\ seen > RECORDTHRESH)
    BY <2>1, <2>2
  <2>4. cyc_per_tick' = 0 \/ (cheapest' # 0 /\ cyc_per_tick' >= cheapest')
    BY <1>0, <2>1, <2>3, ClockAssumption DEF Types, CalibrationInv, Has
  <2> QED
    BY <1>0, <2>1, <2>4, ClockAssumption DEF Types, CalibrationInv, Has
<1>8. ASSUME StartTick, UNCHANGED <<method, ftimerVars>> PROVE CalibrationInv'
  BY <1>0, <1>8, ClockAssumption DEF StartTick, Types, CalibrationInv, Has
<1>9. ASSUME StartCounter, UNCHANGED <<method, ftimerVars>> PROVE CalibrationInv'
  BY <1>0, <1>9, ClockAssumption DEF StartCounter, start_counter, Types, CalibrationInv, Has
<1>10. ASSUME NEW c \in Costs, Run(c), UNCHANGED <<method, ftimerVars>> PROVE CalibrationInv'
  BY <1>0, <1>10, ClockAssumption DEF Run, Pass, Types, CalibrationInv, Has
<1>11. ASSUME Stop, UNCHANGED <<method, ftimerVars>> PROVE CalibrationInv'
  BY <1>0, <1>11, ClockAssumption DEF Stop, Types, CalibrationInv, Has
<1>12. ASSUME Sample, UNCHANGED <<method, ftimerVars>> PROVE CalibrationInv'
  BY <1>0, <1>12, ClockAssumption DEF Sample, AddSample, Types, CalibrationInv, Has
<1>13. ASSUME Return, UNCHANGED <<method, ftimerVars>> PROVE CalibrationInv'
  BY <1>0, <1>13, ClockAssumption DEF Return, Types, CalibrationInv, Has
<1>14. ASSUME Interrupt, UNCHANGED <<method, ftimerVars>> PROVE CalibrationInv'
  <2>1. CASE pc = "oldt" /\ EarlyTick
    BY <1>0, <1>14, <2>1 DEF Interrupt, EarlyTick, Types, CalibrationInv, Has
  <2>2. ASSUME NEW cost \in TickCosts, pc \in {"newt", "newc"},
               Tick(pc \in {"newt", "newc"}, cost)
        PROVE  CalibrationInv'
    <3>1. /\ cost \in Nat \ {0} /\ cheapest \in Nat /\ gap \in Nat /\ seen \in Nat
          /\ cyc_per_tick \in Nat /\ ticks \in Nat
      BY <1>0, ClockAssumption DEF Types
    <3>2. /\ pc' = pc /\ ticks < 1 /\ ticks' = ticks + 1 /\ gap' = gap + cost
          /\ cheapest' = IF cheapest = 0 \/ cost < cheapest THEN cost ELSE cheapest
          /\ UNCHANGED <<seen, cyc_per_tick, e>>
      BY <1>14, <2>2 DEF Interrupt, Tick
    <3>3. /\ cheapest' \in Nat \ {0} /\ cheapest' <= cost
          /\ cheapest # 0 => cheapest' <= cheapest
      BY <3>1, <3>2
    <3> QED
      BY <1>0, <2>2, <3>1, <3>2, <3>3 DEF CalibrationInv, Has
  <2>3. ASSUME NEW cost \in TickCosts, pc \in {"counter", "run", "stop", "sample"},
               Tick(pc \in {"newt", "newc"}, cost)
        PROVE  CalibrationInv'
    BY <1>0, <1>14, <2>3 DEF Interrupt, Tick, Pass, Types, CalibrationInv, Has
  <2> QED
    BY <1>14, <2>1, <2>2, <2>3 DEF Interrupt
<1>15. ASSUME StartTimer PROVE CalibrationInv'
  BY <1>0, <1>15, ClockAssumption DEF StartTimer, Types, CalibrationInv, Has
<1>16. ASSUME NEW c \in Costs, RunTimed(c) PROVE CalibrationInv'
  BY <1>0, <1>16, ClockAssumption DEF RunTimed, Types, CalibrationInv, Has
<1>17. ASSUME StopTimer PROVE CalibrationInv'
  BY <1>0, <1>17, ClockAssumption DEF StopTimer, Types, CalibrationInv, Has
<1>18. ASSUME ReturnTimed PROVE CalibrationInv'
  BY <1>0, <1>18, ClockAssumption DEF ReturnTimed, Types, CalibrationInv, Has
<1>19. ASSUME UNCHANGED vars PROVE CalibrationInv'
  BY <1>0, <1>19, ClockAssumption DEF vars, Types, CalibrationInv, Has
<1> QED
  BY <1>1, <1>2, <1>3, <1>4, <1>5, <1>6, <1>7, <1>8, <1>9, <1>10, <1>11, <1>12, <1>13, <1>14, <1>15, <1>16, <1>17, <1>18, <1>19, <1>20
     DEF Next, ByCycles, FcycNext, FcycStep, TimedStep, Callibrate

(* Every step keeps the timers with the time that has passed.              *)
LEMMA TimerInvStep == IInv /\ [Next]_vars => TimerInv'
<1> SUFFICES ASSUME IInv, [Next]_vars PROVE TimerInv'
  OBVIOUS
<1> USE DEF clockVars, params, samplerVars, fcycVars, ftimerVars, Sampling, Watching
<1>0. Types /\ TimerInv
  BY DEF IInv
<1>1. ASSUME init_fsecs PROVE TimerInv'
  BY <1>0, <1>1, FsecsAssumption DEF init_fsecs, params, Types, TimerInv, Started
<1>2. ASSUME SetParams, UNCHANGED <<method, ftimerVars>> PROVE TimerInv'
  BY <1>0, <1>2, FsecsAssumption DEF SetParams, SetCacheSize, Types, TimerInv, Started
<1>3. ASSUME Call, UNCHANGED <<method, ftimerVars>> PROVE TimerInv'
  BY <1>0, <1>3, FsecsAssumption DEF Call, Types, TimerInv, Started
<1>4. ASSUME Clear, UNCHANGED <<method, ftimerVars>> PROVE TimerInv'
  BY <1>0, <1>4, FsecsAssumption DEF Clear, Types, TimerInv, Started
<1>5. ASSUME pc = "callibrate" /\ Callibrate, UNCHANGED <<method, ftimerVars>> PROVE TimerInv'
  BY <1>0, <1>5, FsecsAssumption DEF Callibrate, ReadOldc, Types, TimerInv, Started
<1>20. ASSUME pc = "oldt" /\ Callibrate, UNCHANGED <<method, ftimerVars>> PROVE TimerInv'
  BY <1>0, <1>20, FsecsAssumption DEF Callibrate, ReadOldt, Types, TimerInv, Started
<1>6. ASSUME pc = "newt" /\ Callibrate, UNCHANGED <<method, ftimerVars>> PROVE TimerInv'
  BY <1>0, <1>6, FsecsAssumption DEF Callibrate, ReadNewt, EndCallibrate, Types, TimerInv, Started
<1>7. ASSUME pc = "newc" /\ Callibrate, UNCHANGED <<method, ftimerVars>> PROVE TimerInv'
  BY <1>0, <1>7, FsecsAssumption DEF Callibrate, ReadNewc, Types, TimerInv, Started
<1>8. ASSUME StartTick, UNCHANGED <<method, ftimerVars>> PROVE TimerInv'
  BY <1>0, <1>8, FsecsAssumption DEF StartTick, Types, TimerInv, Started
<1>9. ASSUME StartCounter, UNCHANGED <<method, ftimerVars>> PROVE TimerInv'
  BY <1>0, <1>9, FsecsAssumption DEF StartCounter, start_counter, Types, TimerInv, Started
<1>10. ASSUME NEW c \in Costs, Run(c), UNCHANGED <<method, ftimerVars>> PROVE TimerInv'
  BY <1>0, <1>10, FsecsAssumption DEF Run, Pass, Types, TimerInv, Started
<1>11. ASSUME Stop, UNCHANGED <<method, ftimerVars>> PROVE TimerInv'
  BY <1>0, <1>11, FsecsAssumption DEF Stop, Types, TimerInv, Started
<1>12. ASSUME Sample, UNCHANGED <<method, ftimerVars>> PROVE TimerInv'
  BY <1>0, <1>12, FsecsAssumption DEF Sample, AddSample, Types, TimerInv, Started
<1>13. ASSUME Return, UNCHANGED <<method, ftimerVars>> PROVE TimerInv'
  BY <1>0, <1>13, FsecsAssumption DEF Return, Types, TimerInv, Started
<1>14. ASSUME Interrupt, UNCHANGED <<method, ftimerVars>> PROVE TimerInv'
  <2>1. UNCHANGED <<pc, method, start, rest, now, spent, tmeas>> \/ pc' \notin {"timed", "measured"}
    BY <1>14 DEF Interrupt
  <2> QED
    BY <1>0, <2>1 DEF TimerInv, Started
<1>15. ASSUME StartTimer PROVE TimerInv'
  <2>1. USEC \in Nat /\ MAX_ETIME \in Nat
    BY FsecsAssumption
  <2>2. CASE method = "ITIMER"
    <3>1. /\ rest' = MAX_ETIME * USEC /\ start' = timeval(MAX_ETIME * USEC) /\ spent' = 0
          /\ pc' = "timed" /\ method' = method
      BY <1>15, <2>2 DEF StartTimer
    <3>2. MAX_ETIME * USEC \in Int
      BY <2>1
    <3>3. Started' = rest' /\ rest' \in Int
      BY <3>1, <3>2, TimevalType DEF Started
    <3> QED
      BY <2>2, <3>1, <3>3 DEF TimerInv
  <2>3. CASE method # "ITIMER"
    <3>1. /\ now' \in 0 .. USEC - 1 /\ start' = timeval(now') /\ spent' = 0
          /\ pc' = "timed" /\ method' = method
      BY <1>15, <2>3 DEF StartTimer
    <3>2. now' \in Int
      BY <2>1, <3>1
    <3>3. Started' = now'
      BY <3>1, <3>2, TimevalType DEF Started
    <3>4. now' = Started' + spent'
      <4>1. spent' = 0
        BY <3>1
      <4> DEFINE a == now'
      <4>2. a + 0 = a
        <5>1. a \in Int
          BY <3>2
        <5> HIDE DEF a
        <5> QED
          BY <5>1
      <4> QED
        BY <3>3, <4>1, <4>2, Zenon
    <3> QED
      BY <2>3, <3>1, <3>4 DEF TimerInv
  <2> QED
    BY <2>2, <2>3
<1>16. ASSUME NEW c \in Costs, RunTimed(c) PROVE TimerInv'
  <2>1. Started \in Int /\ c \in Nat /\ rest \in Int /\ now \in Int /\ spent \in Nat
    BY <1>0, FsecsAssumption, FcycAssumption DEF Types, Started
  <2>2. /\ pc = "timed" /\ pc' = "timed" /\ method' = method /\ Started' = Started
        /\ spent' = spent + c /\ now' = now + c
        /\ rest' = IF method = "ITIMER" THEN rest - c ELSE rest
    BY <1>16 DEF RunTimed, Started
  <2> QED
    BY <1>0, <2>1, <2>2 DEF TimerInv
<1>17. ASSUME StopTimer PROVE TimerInv'
  <2>1. /\ pc = "timed" /\ pc' = "measured" /\ spent' = spent
        /\ tmeas' = IF method = "ITIMER" THEN Elapsed(timeval(rest), start)
                    ELSE Elapsed(start, timeval(now))
    BY <1>17 DEF StopTimer
  <2>2. start \in [sec : Int, usec : 0 .. USEC - 1] /\ rest \in Int /\ now \in Int
    BY <1>0 DEF Types
  <2>3. /\ Elapsed(timeval(rest), start) = Started - rest
        /\ Elapsed(start, timeval(now)) = now - Started
    <3>1. /\ timeval(rest) \in [sec : Int, usec : 0 .. USEC - 1]
          /\ USEC * timeval(rest).sec + timeval(rest).usec = rest
          /\ timeval(now) \in [sec : Int, usec : 0 .. USEC - 1]
          /\ USEC * timeval(now).sec + timeval(now).usec = now
      BY <2>2, TimevalType
    <3>2. /\ Elapsed(timeval(rest), start) =
               Started - (USEC * timeval(rest).sec + timeval(rest).usec)
          /\ Elapsed(start, timeval(now)) =
               (USEC * timeval(now).sec + timeval(now).usec) - Started
      BY <2>2, <3>1, TimersMeasure DEF Started
    <3> QED
      BY <3>1, <3>2
  <2>4. Started \in Int /\ spent \in Int
    BY <1>0, FsecsAssumption DEF Types, Started
  <2> QED
    BY <1>0, <2>1, <2>2, <2>3, <2>4 DEF TimerInv
<1>18. ASSUME ReturnTimed PROVE TimerInv'
  BY <1>0, <1>18, FsecsAssumption DEF ReturnTimed, Types, TimerInv, Started
<1>19. ASSUME UNCHANGED vars PROVE TimerInv'
  BY <1>0, <1>19, FsecsAssumption DEF vars, Types, TimerInv, Started
<1> QED
  BY <1>1, <1>2, <1>3, <1>4, <1>5, <1>6, <1>7, <1>8, <1>9, <1>10, <1>11, <1>12, <1>13, <1>14, <1>15, <1>16, <1>17, <1>18, <1>19, <1>20
     DEF Next, ByCycles, FcycNext, FcycStep, TimedStep, Callibrate

(* The sample taken is an integer.                                         *)
LEMMA SampledTime ==
    ASSUME Types, pc = "sample"
    PROVE  (IF compensate THEN get_comp_counter ELSE cyc) \in Int
<1>1. ticks \in Int /\ cyc_per_tick \in Int /\ cyc \in Int
  BY ClockAssumption DEF Types
<1>2. ticks * cyc_per_tick \in Int
  BY <1>1
<1> QED
  BY <1>1, <1>2 DEF get_comp_counter

(* Every step keeps the samples: values holds the smallest, in order.      *)
LEMMA SamplerInvStep == IInv /\ [Next]_vars => SamplerInv'
<1> SUFFICES ASSUME IInv, [Next]_vars PROVE SamplerInv'
  OBVIOUS
<1> USE DEF clockVars, params, samplerVars, fcycVars, ftimerVars, Sampling, Watching
<1>0. Types /\ SamplerInv
  BY DEF IInv
<1>00. pc = "sample" => SamplerInv /\ Types
  BY DEF IInv
<1>1. ASSUME init_fsecs PROVE SamplerInv'
  BY <1>0, <1>1 DEF init_fsecs, params, Types, SamplerInv, ReturnsAgreedMinimum
<1>2. ASSUME SetParams, UNCHANGED <<method, ftimerVars>> PROVE SamplerInv'
  BY <1>0, <1>2 DEF SetParams, SetCacheSize, Types, SamplerInv, ReturnsAgreedMinimum
<1>3. ASSUME Call, UNCHANGED <<method, ftimerVars>> PROVE SamplerInv'
  <2>1. kbest \in Nat \ {0} /\ maxsamples \in Nat \ {0}
    BY <1>0, FcycAssumption DEF Types
  <2>2. [k \in 1 .. kbest |-> 0] \in [1 .. kbest -> Int]
    OBVIOUS
  <2>3. values' \in Seq(Int) /\ Len(values') = kbest
    BY <1>3, <2>1, <2>2, SeqOfFunction DEF Call
  <2>4. samples' = <<>> /\ samplecount' = 0 /\ pc' = "clear" /\ kbest' = kbest
        /\ maxsamples' = maxsamples /\ Len(<<>>) = 0 /\ <<>> \in Seq(Int)
    BY <1>0, <1>3, EmptySeq DEF Call, SamplerInv
  <2>5. Holds(values', samples', kbest')
    BY <2>1, <2>4 DEF Holds
  <2> QED
    BY <2>1, <2>3, <2>4, <2>5 DEF SamplerInv, ReturnsAgreedMinimum
<1>4. ASSUME Clear, UNCHANGED <<method, ftimerVars>> PROVE SamplerInv'
  BY <1>0, <1>4 DEF Clear, Types, SamplerInv, ReturnsAgreedMinimum
<1>5. ASSUME pc = "callibrate" /\ Callibrate, UNCHANGED <<method, ftimerVars>> PROVE SamplerInv'
  BY <1>0, <1>5 DEF Callibrate, ReadOldc, Types, SamplerInv, ReturnsAgreedMinimum
<1>20. ASSUME pc = "oldt" /\ Callibrate, UNCHANGED <<method, ftimerVars>> PROVE SamplerInv'
  BY <1>0, <1>20 DEF Callibrate, ReadOldt, Types, SamplerInv, ReturnsAgreedMinimum
<1>6. ASSUME pc = "newt" /\ Callibrate, UNCHANGED <<method, ftimerVars>> PROVE SamplerInv'
  BY <1>0, <1>6 DEF Callibrate, ReadNewt, EndCallibrate, Types, SamplerInv, ReturnsAgreedMinimum
<1>7. ASSUME pc = "newc" /\ Callibrate, UNCHANGED <<method, ftimerVars>> PROVE SamplerInv'
  BY <1>0, <1>7 DEF Callibrate, ReadNewc, Types, SamplerInv, ReturnsAgreedMinimum
<1>8. ASSUME StartTick, UNCHANGED <<method, ftimerVars>> PROVE SamplerInv'
  BY <1>0, <1>8 DEF StartTick, Types, SamplerInv, ReturnsAgreedMinimum
<1>9. ASSUME StartCounter, UNCHANGED <<method, ftimerVars>> PROVE SamplerInv'
  BY <1>0, <1>9 DEF StartCounter, start_counter, Types, SamplerInv, ReturnsAgreedMinimum
<1>10. ASSUME NEW c \in Costs, Run(c), UNCHANGED <<method, ftimerVars>> PROVE SamplerInv'
  BY <1>0, <1>10 DEF Run, Pass, Types, SamplerInv, ReturnsAgreedMinimum
<1>11. ASSUME Stop, UNCHANGED <<method, ftimerVars>> PROVE SamplerInv'
  BY <1>0, <1>11 DEF Stop, Types, SamplerInv, ReturnsAgreedMinimum
<1>12. ASSUME Sample, UNCHANGED <<method, ftimerVars>> PROVE SamplerInv'
  <2>1. /\ values' \in Seq(Int) /\ samples' \in Seq(Int) /\ samplecount' = Len(samples')
        /\ Len(values') = kbest /\ Holds(values', samples', kbest)
        /\ \/ pc' = "clear" /\ samplecount' < maxsamples /\ result' = result
           \/ pc' = "done" /\ samplecount' <= maxsamples /\ ReturnsAgreedMinimum'
                /\ result' \in Int
    BY <1>0, <1>00, <1>12, SampledTime, AddSampleKeeps DEF Sample
  <2>2. kbest' = kbest /\ maxsamples' = maxsamples
    BY <1>12 DEF Sample
  <2>3. ReturnsAgreedMinimum'
    BY <2>1 DEF ReturnsAgreedMinimum
  <2> QED
    BY <2>1, <2>2, <2>3 DEF SamplerInv
<1>13. ASSUME Return, UNCHANGED <<method, ftimerVars>> PROVE SamplerInv'
  BY <1>0, <1>13, EmptySeq DEF Return, SamplerInv, ReturnsAgreedMinimum
<1>14. ASSUME Interrupt, UNCHANGED <<method, ftimerVars>> PROVE SamplerInv'
  BY <1>0, <1>14 DEF Interrupt, Tick, Pass, Types, SamplerInv, ReturnsAgreedMinimum
<1>15. ASSUME StartTimer PROVE SamplerInv'
  BY <1>0, <1>15 DEF StartTimer, Types, SamplerInv, ReturnsAgreedMinimum
<1>16. ASSUME NEW c \in Costs, RunTimed(c) PROVE SamplerInv'
  BY <1>0, <1>16 DEF RunTimed, Types, SamplerInv, ReturnsAgreedMinimum
<1>17. ASSUME StopTimer PROVE SamplerInv'
  BY <1>0, <1>17 DEF StopTimer, Types, SamplerInv, ReturnsAgreedMinimum
<1>18. ASSUME ReturnTimed PROVE SamplerInv'
  BY <1>0, <1>18 DEF ReturnTimed, Types, SamplerInv, ReturnsAgreedMinimum
<1>19. ASSUME UNCHANGED vars PROVE SamplerInv'
  BY <1>0, <1>19 DEF vars, Types, SamplerInv, ReturnsAgreedMinimum
<1> QED
  BY <1>1, <1>2, <1>3, <1>4, <1>5, <1>6, <1>7, <1>8, <1>9, <1>10, <1>11, <1>12, <1>13, <1>14, <1>15, <1>16, <1>17, <1>18, <1>19, <1>20
     DEF Next, ByCycles, FcycNext, FcycStep, TimedStep, Callibrate

(* A counter that has run on is in its range.                              *)
LEMMA PassType ==
    ASSUME NEW a \in Nat, NEW c \in Nat, NEW m \in Nat \ {0}
    PROVE  (a + c) % m \in 0 .. m - 1
<1>1. a + c \in Int
  OBVIOUS
<1> QED
  BY <1>1, DivMod

(* A bound on a time grows with what is added to it, directly or with the  *)
(* part that may exceed.                                                   *)
LEMMA BoundGrows ==
    ASSUME NEW s \in Nat, NEW o \in Nat, NEW a \in Nat, NEW b \in Nat, NEW d \in Nat,
           NEW c \in Nat, NEW x \in Nat, NEW y \in Nat
    PROVE  /\ s <= o + a + x /\ c <= d + (y - x) => s + c <= o + (a + d) + y
           /\ s <= o + b /\ c <= d => s + c <= o + (b + d)
  OBVIOUS

(* No interrupt costs more, and the counter has room for them.             *)
LEMMA DearestFacts ==
    /\ Dearest \in Nat
    /\ \A t \in TickCosts : t \in Nat /\ t <= Dearest
    /\ \A c \in Costs : c + MaxTicks * Dearest < W * W
<1>1. /\ Dearest \in TickCosts
      /\ \A t \in TickCosts : t <= Dearest
      /\ \A c \in Costs : c + MaxTicks * Dearest < W * W
  BY SpanAssumption, Zenon DEF Dearest
<1> QED
  BY <1>1, ClockAssumption

(* What get_counter reads when a measurement ends: the span, which is less *)
(* than a turn of the counter.                                             *)
LEMMA ReadsSpan ==
    ASSUME Types, StopwatchInv, pc = "stop"
    PROVE  get_counter = span /\ span \in Nat
<1>1. own \in Costs /\ own \in Nat /\ ticks \in Nat /\ ticks <= MaxTicks /\ MaxTicks \in Nat
      /\ Dearest \in Nat /\ span \in Nat
  BY ClockAssumption, DearestFacts DEF Types, StopwatchInv
<1>2. ticks * Dearest <= MaxTicks * Dearest /\ ticks * Dearest \in Nat
      /\ MaxTicks * Dearest \in Nat
  <2>1. Dearest * ticks <= Dearest * MaxTicks
    BY <1>1, ProductGrows
  <2>2. Dearest * ticks = ticks * Dearest /\ Dearest * MaxTicks = MaxTicks * Dearest
    BY <1>1
  <2> QED
    BY <1>1, <2>1, <2>2
<1>3. own + MaxTicks * Dearest < W * W /\ W * W \in Nat
  BY <1>1, DearestFacts, WordFacts
<1>4. span <= own + ticks * Dearest
  BY DEF StopwatchInv
<1>5. span < W * W
  BY <1>1, <1>2, <1>3, <1>4
<1>6. /\ cyc_hi \in 0 .. W - 1 /\ cyc_lo \in 0 .. W - 1
      /\ counter = (cyc_hi * W + cyc_lo + span) % (W * W)
  BY DEF Types, StopwatchInv
<1> QED
  BY <1>1, <1>5, <1>6, CounterMeasures

(* Every step preserves the types.                                         *)
LEMMA TypesStep == IInv /\ [Next]_vars => Types'
<1> SUFFICES ASSUME IInv, [Next]_vars PROVE Types'
  OBVIOUS
<1> USE DEF clockVars, params, samplerVars, fcycVars, ftimerVars, Sampling, Watching
<1>0. Types /\ CalibrationInv /\ StopwatchInv /\ SamplerInv
  BY DEF IInv
<1>1. ASSUME init_fsecs PROVE Types'
  BY <1>0, <1>1, ClockAssumption, FcycAssumption, FsecsAssumption DEF init_fsecs, params, Types
<1>2. ASSUME SetParams, UNCHANGED <<method, ftimerVars>> PROVE Types'
  BY <1>0, <1>2, ClockAssumption, FcycAssumption, FsecsAssumption DEF SetParams, SetCacheSize, Types
<1>3. ASSUME Call, UNCHANGED <<method, ftimerVars>> PROVE Types'
  BY <1>0, <1>3, ClockAssumption, FcycAssumption, FsecsAssumption DEF Call, Types
<1>4. ASSUME Clear, UNCHANGED <<method, ftimerVars>> PROVE Types'
  BY <1>0, <1>4, ClockAssumption, FcycAssumption, FsecsAssumption DEF Clear, Types
<1>5. ASSUME pc = "callibrate" /\ Callibrate, UNCHANGED <<method, ftimerVars>> PROVE Types'
  BY <1>0, <1>5, ClockAssumption DEF Callibrate, ReadOldc, Types
<1>20. ASSUME pc = "oldt" /\ Callibrate, UNCHANGED <<method, ftimerVars>> PROVE Types'
  <2>1. counter \in 0 .. W * W - 1
    BY <1>0 DEF Types
  <2>2. cyc_hi' \in 0 .. W - 1 /\ cyc_lo' \in 0 .. W - 1
    BY <1>20, <2>1, TwoWords DEF Callibrate, ReadOldt
  <2> QED
    BY <1>0, <1>20, <2>2 DEF Callibrate, ReadOldt, Types
<1>6. ASSUME pc = "newt" /\ Callibrate, UNCHANGED <<method, ftimerVars>> PROVE Types'
  BY <1>0, <1>6, ClockAssumption, FcycAssumption, FsecsAssumption DEF Callibrate, ReadNewt, EndCallibrate, Types
<1>7. ASSUME pc = "newc" /\ Callibrate, UNCHANGED <<method, ftimerVars>> PROVE Types'
  <2>1. ticks \in Nat /\ seen \in Nat /\ e \in Nat /\ e < NEVENT /\ NEVENT \in Nat /\ MaxTicks \in Nat
    BY <1>0, <1>7, ClockAssumption DEF Types, CalibrationInv
  <2>2. ticks > 0 => seen \div ticks \in Nat
    BY <2>1
  <2>3. gap - seen \in Nat
    BY <1>0, <1>7, ClockAssumption DEF Types, CalibrationInv, Has
  <2>4. cyc_per_tick' \in Nat /\ e' \in 0 .. NEVENT
    BY <1>0, <1>7, <2>1, <2>2 DEF Callibrate, ReadNewc, Types
  <2> QED
    BY <1>0, <1>7, <2>1, <2>3, <2>4 DEF Callibrate, ReadNewc, Types
<1>8. ASSUME StartTick, UNCHANGED <<method, ftimerVars>> PROVE Types'
  BY <1>0, <1>8, ClockAssumption, FcycAssumption, FsecsAssumption DEF StartTick, Types
<1>9. ASSUME StartCounter, UNCHANGED <<method, ftimerVars>> PROVE Types'
  <2>1. counter' \in 0 .. W * W - 1 /\ cyc_hi' = hi(counter') /\ cyc_lo' = lo(counter')
    BY <1>9 DEF StartCounter, start_counter
  <2>2. cyc_hi' \in 0 .. W - 1 /\ cyc_lo' \in 0 .. W - 1
    BY <2>1, TwoWords
  <2> QED
    BY <1>0, <1>9, <2>1, <2>2 DEF StartCounter, start_counter, Types
<1>10. ASSUME NEW c \in Costs, Run(c), UNCHANGED <<method, ftimerVars>> PROVE Types'
  <2>1. c \in Nat /\ counter \in Nat /\ W * W \in Nat \ {0}
    BY <1>0, FcycAssumption, WordFacts DEF Types
  <2>2. counter' \in 0 .. W * W - 1 /\ span' \in Nat
    BY <1>0, <1>10, <2>1, PassType DEF Run, Pass, Types
  <2> QED
    BY <1>0, <1>10, <2>1, <2>2 DEF Run, Pass, Types
<1>11. ASSUME Stop, UNCHANGED <<method, ftimerVars>> PROVE Types'
  <2>1. cyc' \in Int
    BY <1>0, <1>11, ReadsSpan DEF Stop, Types
  <2> QED
    BY <1>0, <1>11, <2>1 DEF Stop, Types
<1>12. ASSUME Sample, UNCHANGED <<method, ftimerVars>> PROVE Types'
  <2>1. result' \in Int /\ pc' \in Sampling
    BY <1>0, <1>12, SampledTime, AddSampleKeeps DEF Sample, Types
  <2>2. 0 \in 0 .. W * W - 1 /\ 0 \in 0 .. W - 1 /\ 0 \in 0 .. MaxTicks
    BY WordFacts, ClockAssumption
  <2> QED
    BY <1>0, <1>12, <2>1, <2>2 DEF Sample, Types
<1>13. ASSUME Return, UNCHANGED <<method, ftimerVars>> PROVE Types'
  BY <1>0, <1>13, ClockAssumption, FcycAssumption, FsecsAssumption DEF Return, Types
<1>14. ASSUME Interrupt, UNCHANGED <<method, ftimerVars>> PROVE Types'
  <2>1. CASE pc = "oldt" /\ EarlyTick
    BY <1>0, <1>14, <2>1, ClockAssumption DEF Interrupt, EarlyTick, Types
  <2>2. ASSUME NEW cost \in TickCosts, Tick(pc \in {"newt", "newc"}, cost),
               pc # "oldt",
               over' = IF pc \in {"run", "stop"} /\ cost > cheapest
                         THEN over + (cost - cheapest) ELSE over
        PROVE  Types'
    <3>1. /\ cost \in Nat /\ cheapest \in Nat /\ counter \in Nat /\ W * W \in Nat \ {0}
          /\ MaxTicks \in Nat \ {0} /\ over \in Nat
      BY <1>0, WordFacts, ClockAssumption DEF Types
    <3>2. counter' \in 0 .. W * W - 1 /\ span' \in Nat /\ gap' \in Nat /\ cheapest' \in Nat
      BY <1>0, <2>2, <3>1, PassType DEF Tick, Pass, Types
    <3>3. ticks' \in 0 .. MaxTicks
      BY <1>0, <2>2, <3>1 DEF Tick, Types
    <3>4. over' \in Nat
      BY <2>2, <3>1
    <3> QED
      BY <1>0, <1>14, <2>2, <3>2, <3>3, <3>4 DEF Interrupt, Tick, Types
  <2> QED
    BY <1>14, <2>1, <2>2 DEF Interrupt
<1>15. ASSUME StartTimer PROVE Types'
  <2>1. USEC \in Nat \ {0} /\ MAX_ETIME * USEC \in Int
    BY FsecsAssumption
  <2>2. rest' \in Int /\ now' \in Int
    BY <1>0, <1>15, <2>1 DEF StartTimer, Types
  <2>3. start' \in [sec : Int, usec : 0 .. USEC - 1]
    BY <1>15, <2>2, TimevalType DEF StartTimer
  <2> QED
    BY <1>0, <1>15, <2>2, <2>3 DEF StartTimer, Types
<1>16. ASSUME NEW c \in Costs, RunTimed(c) PROVE Types'
  BY <1>0, <1>16, ClockAssumption, FcycAssumption, FsecsAssumption DEF RunTimed, Types
<1>17. ASSUME StopTimer PROVE Types'
  <2>1. /\ start \in [sec : Int, usec : 0 .. USEC - 1] /\ USEC \in Int
        /\ timeval(rest) \in [sec : Int, usec : 0 .. USEC - 1]
        /\ timeval(now) \in [sec : Int, usec : 0 .. USEC - 1]
    <3>1. start \in [sec : Int, usec : 0 .. USEC - 1] /\ rest \in Int /\ now \in Int
      BY <1>0 DEF Types
    <3>2. USEC \in Int
      BY FsecsAssumption
    <3> QED
      BY <3>1, <3>2, TimevalType, Zenon
  <2>2. \A from, to \in [sec : Int, usec : 0 .. USEC - 1] : Elapsed(from, to) \in Int
    BY <2>1 DEF Elapsed
  <2>3. tmeas' \in Int
    BY <1>17, <2>1, <2>2 DEF StopTimer
  <2> QED
    BY <1>0, <1>17, <2>3 DEF StopTimer, Types
<1>18. ASSUME ReturnTimed PROVE Types'
  BY <1>0, <1>18, ClockAssumption, FcycAssumption, FsecsAssumption DEF ReturnTimed, Types
<1>19. ASSUME UNCHANGED vars PROVE Types'
  BY <1>0, <1>19, ClockAssumption, FcycAssumption, FsecsAssumption DEF vars, Types
<1> QED
  BY <1>1, <1>2, <1>3, <1>4, <1>5, <1>6, <1>7, <1>8, <1>9, <1>10, <1>11, <1>12, <1>13, <1>14, <1>15, <1>16, <1>17, <1>18, <1>19, <1>20
     DEF Next, ByCycles, FcycNext, FcycStep, TimedStep, Callibrate

(* Every step keeps the counter ahead of what start_counter read by what   *)
(* has run since.                                                          *)
LEMMA StopwatchInvStep == IInv /\ [Next]_vars => StopwatchInv'
<1> SUFFICES ASSUME IInv, [Next]_vars PROVE StopwatchInv'
  OBVIOUS
<1> USE DEF clockVars, params, samplerVars, fcycVars, ftimerVars, Sampling, Watching
<1>0. Types /\ StopwatchInv
  BY DEF IInv
<1>1. ASSUME init_fsecs PROVE StopwatchInv'
  BY <1>0, <1>1 DEF init_fsecs, params, Types, StopwatchInv
<1>2. ASSUME SetParams, UNCHANGED <<method, ftimerVars>> PROVE StopwatchInv'
  BY <1>0, <1>2 DEF SetParams, SetCacheSize, Types, StopwatchInv
<1>3. ASSUME Call, UNCHANGED <<method, ftimerVars>> PROVE StopwatchInv'
  BY <1>0, <1>3 DEF Call, Types, StopwatchInv
<1>4. ASSUME Clear, UNCHANGED <<method, ftimerVars>> PROVE StopwatchInv'
  BY <1>0, <1>4 DEF Clear, Types, StopwatchInv
<1>5. ASSUME pc = "callibrate" /\ Callibrate, UNCHANGED <<method, ftimerVars>> PROVE StopwatchInv'
  BY <1>0, <1>5 DEF Callibrate, ReadOldc, Types, StopwatchInv
<1>20. ASSUME pc = "oldt" /\ Callibrate, UNCHANGED <<method, ftimerVars>> PROVE StopwatchInv'
  BY <1>0, <1>20 DEF Callibrate, ReadOldt, Types, StopwatchInv
<1>6. ASSUME pc = "newt" /\ Callibrate, UNCHANGED <<method, ftimerVars>> PROVE StopwatchInv'
  BY <1>0, <1>6 DEF Callibrate, ReadNewt, EndCallibrate, Types, StopwatchInv
<1>7. ASSUME pc = "newc" /\ Callibrate, UNCHANGED <<method, ftimerVars>> PROVE StopwatchInv'
  BY <1>0, <1>7 DEF Callibrate, ReadNewc, Types, StopwatchInv
<1>8. ASSUME StartTick, UNCHANGED <<method, ftimerVars>> PROVE StopwatchInv'
  BY <1>0, <1>8 DEF StartTick, Types, StopwatchInv
<1>9. ASSUME StartCounter, UNCHANGED <<method, ftimerVars>> PROVE StopwatchInv'
  <2>1. counter' \in 0 .. W * W - 1 /\ cyc_hi' = hi(counter') /\ cyc_lo' = lo(counter')
        /\ span' = 0 /\ ticks' = ticks /\ own' = own /\ pc' = "run" /\ pc = "counter"
    BY <1>9 DEF StartCounter, start_counter
  <2>2. counter' = cyc_hi' * W + cyc_lo'
    BY <2>1, TwoWords
  <2>3. counter' = (cyc_hi' * W + cyc_lo' + span') % (W * W)
    <3> DEFINE m == W * W
               c == counter'
    <3>1. m \in Nat \ {0} /\ c \in 0 .. m - 1
      BY <2>1, WordFacts
    <3> HIDE DEF m, c
    <3>2. c \in Nat /\ c < m + m /\ c - m < 0 /\ c + 0 = c
      BY <3>1
    <3>3. c % m \in 0 .. m - 1 /\ (c % m = c \/ c % m = c - m)
      BY <3>1, <3>2, ModOnce, Zenon
    <3>4. c % m = c
      BY <3>1, <3>2, <3>3
    <3>5. cyc_hi' * W + cyc_lo' + span' = c
      BY <2>1, <2>2, <3>2 DEF c
    <3> QED
      BY <3>4, <3>5, Zenon DEF m, c
  <2>4. /\ own = 0 /\ ticks \in Nat /\ over \in Nat /\ cheapest \in Nat /\ Dearest \in Nat
        /\ UNCHANGED <<own, ticks, over, cheapest>>
    BY <1>0, <1>9, <2>1, DearestFacts DEF Types, StopwatchInv, StartCounter, start_counter
  <2>5. 0 <= own + ticks * cheapest + over /\ 0 <= own + ticks * Dearest
    <3>1. ticks * cheapest \in Nat /\ ticks * Dearest \in Nat
      BY <2>4
    <3> DEFINE low  == ticks * cheapest
               high == ticks * Dearest
    <3> HIDE DEF low, high
    <3>2. low \in Nat /\ high \in Nat
      BY <3>1 DEF low, high
    <3>3. 0 <= own + low + over /\ 0 <= own + high
      BY <2>4, <3>2
    <3> QED
      BY <3>3 DEF low, high
  <2>6. span' <= own' + ticks' * cheapest' + over' /\ span' <= own' + ticks' * Dearest
    BY <2>1, <2>4, <2>5, Zenon
  <2> QED
    BY <2>1, <2>3, <2>4, <2>6 DEF StopwatchInv
<1>10. ASSUME NEW c \in Costs, Run(c), UNCHANGED <<method, ftimerVars>> PROVE StopwatchInv'
  <2> DEFINE c0 == cyc_hi * W + cyc_lo
  <2>1. /\ c \in Nat /\ c0 \in Nat /\ W * W \in Nat \ {0} /\ span \in Nat
        /\ ticks * cheapest \in Nat /\ ticks * Dearest \in Nat /\ over \in Nat
    BY <1>0, FcycAssumption, DearestFacts, WordFacts, WordsMakeOne DEF Types
  <2>2. /\ pc = "run" /\ pc' = "stop" /\ own = 0 /\ own' = c /\ ticks' = ticks
        /\ cyc_hi' = cyc_hi /\ cyc_lo' = cyc_lo /\ span' = span + c
        /\ counter' = (counter + c) % (W * W)
        /\ UNCHANGED <<over, cheapest>>
        /\ counter = (c0 + span) % (W * W)
        /\ span <= ticks * cheapest + over /\ span <= ticks * Dearest
    BY <1>0, <1>10, <2>1 DEF Run, Pass, StopwatchInv
  <2>3. counter' = (c0 + span') % (W * W)
    <3> DEFINE m == W * W
    <3> HIDE DEF m, c0
    <3>1. (((c0 + span) % m) + c) % m = (c0 + (span + c)) % m
      <4>1. Turns(c0, span, c, m)
        BY <2>1, CounterTurns, Zenon DEF m
      <4> QED
        BY <4>1, Zenon DEF Turns
    <3> QED
      BY <2>2, <3>1 DEF m
  <2>4. span' <= own' + ticks' * cheapest' + over' /\ span' <= own' + ticks' * Dearest
    BY <2>1, <2>2
  <2> QED
    BY <1>10, <2>2, <2>3, <2>4 DEF StopwatchInv
<1>11. ASSUME Stop, UNCHANGED <<method, ftimerVars>> PROVE StopwatchInv'
  <2>1. pc = "stop" /\ pc' = "sample" /\ cyc' = get_counter /\ truth' = span /\ own' = own
        /\ UNCHANGED <<ticks, cheapest, over>>
    BY <1>11 DEF Stop
  <2>2. get_counter = span
    BY <1>0, <2>1, ReadsSpan
  <2> QED
    BY <1>0, <2>1, <2>2 DEF StopwatchInv
<1>12. ASSUME Sample, UNCHANGED <<method, ftimerVars>> PROVE StopwatchInv'
  <2>1. pc' \in {"clear", "done"} /\ ticks' = 0 /\ own' = 0
    BY <1>12 DEF Sample, AddSample
  <2> QED
    BY <2>1 DEF StopwatchInv
<1>13. ASSUME Return, UNCHANGED <<method, ftimerVars>> PROVE StopwatchInv'
  BY <1>0, <1>13 DEF Return, Types, StopwatchInv
<1>14. ASSUME Interrupt, UNCHANGED <<method, ftimerVars>> PROVE StopwatchInv'
  <2>1. CASE pc = "oldt" /\ EarlyTick
    BY <1>0, <1>14, <2>1 DEF Interrupt, EarlyTick, StopwatchInv
  <2>2. ASSUME NEW cost \in TickCosts, pc \in {"newt", "newc", "counter"},
               Tick(pc \in {"newt", "newc"}, cost)
        PROVE  StopwatchInv'
    BY <1>0, <1>14, <2>2 DEF Interrupt, StopwatchInv
  <2>3. ASSUME NEW cost \in TickCosts, pc \in {"run", "stop", "sample"},
               Tick(pc \in {"newt", "newc"}, cost),
               over' = IF pc \in {"run", "stop"} /\ cost > cheapest
                         THEN over + (cost - cheapest) ELSE over
        PROVE  StopwatchInv'
    <3>1. /\ pc' = pc /\ ticks' = ticks + 1 /\ UNCHANGED <<own, cyc, truth, cyc_hi, cyc_lo, cheapest>>
          /\ counter' = (counter + cost) % (W * W) /\ span' = span + cost
      BY <1>14, <2>3 DEF Interrupt, Tick, Pass
    <3>2. /\ cost \in Nat /\ cost <= Dearest /\ Dearest \in Nat /\ cheapest \in Nat
          /\ ticks \in Nat /\ own \in Nat /\ over \in Nat /\ span \in Nat /\ cyc \in Int
      BY <1>0, DearestFacts DEF Types
    <3> DEFINE low  == ticks * cheapest
               high == ticks * Dearest
    <3>3. /\ low \in Nat /\ ticks' * cheapest' = low + cheapest
          /\ high \in Nat /\ ticks' * Dearest = high + Dearest
      BY <3>1, <3>2
    <3>4. CASE pc \in {"run", "stop"}
      <4>1. /\ counter = (cyc_hi * W + cyc_lo + span) % (W * W)
            /\ span <= own + low + over /\ span <= own + high
        BY <1>0, <3>4 DEF StopwatchInv
      <4> HIDE DEF low, high
      <4>2. cost <= cheapest + (over' - over) /\ over' \in Nat
        BY <2>3, <3>2, <3>4
      <4>3. /\ span' <= own' + ticks' * cheapest' + over'
            /\ span' <= own' + ticks' * Dearest
        <5>1. own \in Nat /\ span \in Nat /\ low \in Nat /\ high \in Nat
          BY <3>2, <3>3
        <5>2. /\ span + cost <= own + (low + cheapest) + over'
              /\ span + cost <= own + (high + Dearest)
          BY <3>2, <4>1, <4>2, <5>1, BoundGrows, Zenon
        <5> QED
          BY <3>1, <3>3, <5>2, Zenon
      <4>4. counter' = (cyc_hi' * W + cyc_lo' + span') % (W * W)
        <5> DEFINE c0 == cyc_hi * W + cyc_lo
                   m  == W * W
        <5>1. c0 \in Nat /\ m \in Nat \ {0}
          BY <1>0, WordFacts, WordsMakeOne DEF Types
        <5> HIDE DEF c0, m
        <5>2. (((c0 + span) % m) + cost) % m = (c0 + (span + cost)) % m
          <6>1. Turns(c0, span, cost, m)
            BY <3>2, <5>1, CounterTurns, Zenon
          <6> QED
            BY <6>1, Zenon DEF Turns
        <5> QED
          BY <3>1, <4>1, <5>2 DEF c0, m
      <4> QED
        BY <1>0, <3>1, <3>4, <4>3, <4>4 DEF StopwatchInv
    <3>5. CASE pc = "sample"
      <4>1. cyc <= own + low + over /\ cyc = truth /\ own \in Costs /\ over' = over
        BY <1>0, <2>3, <3>5 DEF StopwatchInv
      <4> HIDE DEF low, high
      <4>2. cyc' <= own' + ticks' * cheapest' + over'
        BY <3>1, <3>2, <3>3, <4>1
      <4> QED
        BY <3>1, <3>5, <4>1, <4>2 DEF StopwatchInv
    <3> QED
      BY <2>3, <3>4, <3>5
  <2> QED
    BY <1>14, <2>1, <2>2, <2>3 DEF Interrupt
<1>15. ASSUME StartTimer PROVE StopwatchInv'
  BY <1>0, <1>15 DEF StartTimer, Types, StopwatchInv
<1>16. ASSUME NEW c \in Costs, RunTimed(c) PROVE StopwatchInv'
  BY <1>0, <1>16 DEF RunTimed, Types, StopwatchInv
<1>17. ASSUME StopTimer PROVE StopwatchInv'
  BY <1>0, <1>17 DEF StopTimer, Types, StopwatchInv
<1>18. ASSUME ReturnTimed PROVE StopwatchInv'
  BY <1>0, <1>18 DEF ReturnTimed, Types, StopwatchInv
<1>19. ASSUME UNCHANGED vars PROVE StopwatchInv'
  BY <1>0, <1>19 DEF vars, Types, StopwatchInv
<1> QED
  BY <1>1, <1>2, <1>3, <1>4, <1>5, <1>6, <1>7, <1>8, <1>9, <1>10, <1>11, <1>12, <1>13, <1>14, <1>15, <1>16, <1>17, <1>18, <1>19, <1>20
     DEF Next, ByCycles, FcycNext, FcycStep, TimedStep, Callibrate
-----------------------------------------------------------------------------
(* The parts of the invariant hold at the start.                           *)
LEMMA InitIInv == Init => IInv
<1> SUFFICES ASSUME Init PROVE IInv
  OBVIOUS
<1>1. Types
  <2>1. 0 \in 0 .. W * W - 1 /\ 0 \in 0 .. W - 1 /\ 0 \in 0 .. MaxTicks /\ 0 \in 0 .. NEVENT
        /\ 0 \in 0 .. USEC - 1
    BY WordFacts, ClockAssumption, FsecsAssumption
  <2>2. start \in [sec : Int, usec : 0 .. USEC - 1]
    BY <2>1 DEF Init
  <2> QED
    BY <2>1, <2>2 DEF Init, FcycInit, ClockInit, Types
<1>2. SamplerInv
  BY EmptySeq DEF Init, FcycInit, SamplerInv, Sampling, ReturnsAgreedMinimum
<1>3. BufferInv
  BY DEF Init, FcycInit, BufferInv
<1>4. CalibrationInv
  BY DEF Init, FcycInit, ClockInit, CalibrationInv, Watching, Has
<1>5. StopwatchInv
  BY DEF Init, FcycInit, ClockInit, StopwatchInv
<1>6. TimerInv
  BY DEF Init, FcycInit, TimerInv
<1> QED
  BY <1>1, <1>2, <1>3, <1>4, <1>5, <1>6 DEF IInv

(* They hold in every reachable state of a measurement.                    *)
LEMMA FsecsInvariant == Spec => []IInv
<1>1. IInv /\ [Next]_vars => IInv'
  BY TypesStep, SamplerInvStep, BufferInvStep, CalibrationInvStep, StopwatchInvStep,
     TimerInvStep, Zenon DEF IInv
<1> QED
  BY InitIInv, <1>1, PTL DEF Spec
-----------------------------------------------------------------------------
(* The package keeps its types (fcyc.c, clock.c, ftimer.c).                *)
THEOREM TypesHold == Spec => []TypeOK
<1>1. IInv => TypeOK
  <2> SUFFICES ASSUME IInv PROVE TypeOK
    OBVIOUS
  <2>1. Types /\ SamplerInv /\ BufferInv
    BY DEF IInv
  <2>2. start.usec \in 0 .. USEC - 1 /\ cache_buf \in CacheBytes \cup {0}
    BY <2>1 DEF Types, BufferInv
  <2>3. ASSUME pc # "idle" PROVE Len(values) <= kbest /\ samplecount \in 0 .. maxsamples
    <3>1. kbest \in Nat \ {0} /\ maxsamples \in Nat \ {0} /\ Len(samples) \in Nat
      BY <2>1, FcycAssumption, LenProperties DEF Types, SamplerInv
    <3>2. CASE pc \in Sampling
      BY <2>1, <3>1, <3>2 DEF SamplerInv
    <3>3. CASE pc \notin Sampling
      BY <2>1, <3>1, <3>3 DEF SamplerInv
    <3> QED
      BY <3>2, <3>3
  <2> QED
    BY <2>1, <2>2, <2>3 DEF TypeOK, Types, SamplerInv
<1> QED
  BY FsecsInvariant, <1>1, PTL

(* get_counter gives the cycles passed, for any value the counter had and  *)
(* any carry between its words, and each timer the time passed (clock.c,   *)
(* get_counter; ftimer.c).                                                 *)
THEOREM ElapsedIsMeasured == Spec => []MeasuresElapsed
<1>1. IInv => MeasuresElapsed
  BY DEF IInv, StopwatchInv, TimerInv, MeasuresElapsed
<1> QED
  BY FsecsInvariant, <1>1, PTL

(* add_sample keeps the kbest smallest of any number of samples, in order. *)
THEOREM SmallestAreKept == Spec => []KeepsTheSmallest
<1>1. IInv => KeepsTheSmallest
  BY DEF IInv, Types, SamplerInv, Holds, KeepsTheSmallest, Sampling
<1> QED
  BY FsecsInvariant, <1>1, PTL

(* What fcyc returns is the minimum of all it measured, and it stopped     *)
(* because kbest samples agree or maxsamples were taken.                   *)
THEOREM MinimumIsReturned == Spec => []ReturnsAgreedMinimum
<1>1. IInv => ReturnsAgreedMinimum
  BY DEF IInv, SamplerInv
<1> QED
  BY FsecsInvariant, <1>1, PTL

(* A compensated time exceeds the function's own by no more than what its  *)
(* interrupts cost beyond the cheapest that callibrate timed, whatever     *)
(* each costs and wherever they fall, in the calibration as in the         *)
(* measurement (clock.c, callibrate, get_comp_counter).                    *)
THEOREM TicksAreTakenOff == Spec => []CompensationTakesEveryTick
<1>1. IInv => CompensationTakesEveryTick
  <2> SUFFICES ASSUME IInv, pc = "sample", compensate, cyc_per_tick # 0
               PROVE  get_comp_counter <= own + over
    BY DEF CompensationTakesEveryTick
  <2>1. /\ ticks \in Nat /\ cheapest \in Nat /\ cyc_per_tick \in Nat /\ cyc \in Int
        /\ own \in Nat /\ over \in Nat
        /\ cyc <= own + ticks * cheapest + over /\ cheapest <= cyc_per_tick
    BY ClockAssumption DEF IInv, Types, StopwatchInv, CalibrationInv, Has
  <2>2. ticks * cheapest <= ticks * cyc_per_tick
    BY <2>1, ProductGrows
  <2>3. ticks * cheapest \in Int /\ ticks * cyc_per_tick \in Int
    BY <2>1
  <2> QED
    BY <2>1, <2>2, <2>3 DEF get_comp_counter
<1> QED
  BY FsecsInvariant, <1>1, PTL

(* clear reads no byte past its buffer, whatever sizes were set before     *)
(* (fcyc.c, clear, set_fcyc_cache_size).                                   *)
THEOREM ClearIsSafe == Spec => []ClearStaysInBuffer
<1>1. IInv => ClearStaysInBuffer
  <2> SUFFICES ASSUME IInv, pc \in {"start", "callibrate", "counter"}, clear_cache
               PROVE  ClearReads \subseteq 0 .. cache_buf - 1
    BY DEF ClearStaysInBuffer
  <2>1. cache_buf = cache_bytes /\ cache_bytes \in Nat /\ sizeof_int \in Nat \ {0}
    BY FcycAssumption DEF IInv, Types, BufferInv
  <2> DEFINE n0 == cache_bytes \div sizeof_int
             r0 == cache_bytes % sizeof_int
  <2>2. n0 \in Int /\ r0 \in 0 .. sizeof_int - 1 /\ cache_bytes = sizeof_int * n0 + r0
    <3>1. cache_bytes \in Int
      BY <2>1
    <3> QED
      BY <2>1, <3>1, DivMod, Zenon
  <2> HIDE DEF n0, r0
  <2>3. ASSUME NEW n \in 0 .. n0 - 1, NEW b \in 0 .. sizeof_int - 1
        PROVE  sizeof_int * n + b \in 0 .. cache_buf - 1
    <3>1. n \in Nat /\ n + 1 \in Nat /\ n0 \in Nat /\ n + 1 <= n0 /\ b \in Nat /\ b + 1 <= sizeof_int
      BY <2>1, <2>2
    <3>2. sizeof_int * (n + 1) <= sizeof_int * n0
      BY <2>1, <3>1, ProductGrows
    <3>3. sizeof_int * (n + 1) = sizeof_int * n + sizeof_int /\ sizeof_int * n \in Nat
          /\ sizeof_int * n0 \in Nat
      BY <2>1, <3>1
    <3> QED
      BY <2>1, <2>2, <3>1, <3>2, <3>3
  <2> QED
    BY <2>3 DEF ClearReads, n0
<1> QED
  BY FsecsInvariant, <1>1, PTL
=============================================================================
