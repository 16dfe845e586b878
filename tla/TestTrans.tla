----------------------------- MODULE TestTrans ------------------------------
(***************************************************************************)
(* test-trans.c: it has the registered function traced and validated by    *)
(* tracegen, runs the reference simulator over the trace between the two   *)
(* markers, and prints a verdict that the grading script reads.  The       *)
(* programs talk through files, which stay behind for the next run; an     *)
(* alarm may cut any run short.                                            *)
(***************************************************************************)
EXTENDS Trans

CONSTANTS
    Shapes,         \* <<M, N>> that are asked for
    MAXN, INT_MAX,
    None, Old       \* no file; the counts of an earlier run

(* Rows and columns are within what tracegen's arrays hold.                *)
ASSUME ShapeAssumption ==
    /\ \A shape \in Shapes : shape \in Nat \X Nat
    /\ MAXN \in Nat /\ INT_MAX \in Nat
    /\ MAXN * MAXN <= ArrayCells

VARIABLES
    pc,
    results,        \* of the submitted function
    csim_results,   \* the file of the simulator's counts, from when it should run
    failed,         \* the simulator did not run
    verdicts        \* the TEST_TRANS_RESULTS printed by this run

vars == <<transVars, pc, results, csim_results, failed, verdicts>>

ColdCache == [s \in C!Sets |-> C!initCacheSet]
Unknown   == [funcid |-> -1, correct |-> 0, misses |-> INT_MAX]

Init ==
    /\ M = 0 /\ N = 0 /\ B = <<>> /\ i = 0 /\ j = 0 /\ k = 0
    /\ cacheSets = ColdCache /\ misses = 0 /\ outside = FALSE
    /\ pc = "exit" /\ results = Unknown /\ verdicts = <<>>
    /\ csim_results = None /\ failed = FALSE

(* main: dimensions that are missing or too large are refused.  Otherwise  *)
(* the alarm is set, the function registered, and tracegen started.        *)
Start ==
    /\ pc = "exit"
    /\ \E shape \in Shapes : M' = shape[1] /\ N' = shape[2]
    /\ results' = Unknown /\ verdicts' = <<>> /\ failed' = FALSE
    /\ pc' = IF M' = 0 \/ N' = 0 \/ M' > MAXN \/ N' > MAXN THEN "exit" ELSE "register"
    /\ B' = <<>> /\ i' = 0 /\ j' = 0 /\ k' = 0
    /\ cacheSets' = ColdCache /\ misses' = 0 /\ outside' = FALSE /\ csim_results' = None

(* MARKER_START and MARKER_END are next to each other after B; the first   *)
(* opens the trace that is simulated, the second closes it.                *)
Marker == sizeof_int * 2 * ArrayCells

registerFunctions ==
    /\ pc = "register"
    /\ results' = [results EXCEPT !.funcid = 0]
    /\ B' = initMatrix /\ i' = 0 /\ j' = 0 /\ k' = 0 /\ outside' = FALSE
    /\ LET t == Touch(ColdCache, 0, Marker) IN cacheSets' = t.sets /\ misses' = t.missed
    /\ pc' = "trace"
    /\ UNCHANGED <<M, N, csim_results, failed, verdicts>>

Trace ==
    /\ pc = "trace"
    /\ transpose_round
    /\ UNCHANGED <<pc, results, csim_results, failed, verdicts>>

TraceEnds ==
    /\ pc = "trace" /\ transpose_returns
    /\ LET t == Touch(cacheSets, misses, Marker) IN cacheSets' = t.sets /\ misses' = t.missed
    /\ pc' = "validate"
    /\ UNCHANGED <<M, N, B, i, j, k, outside, results, csim_results, failed, verdicts>>

(* Seeded fault: the function is credited whatever tracegen returned.      *)
Validate_Credits ==
    /\ pc = "validate"
    /\ results' = [results EXCEPT !.correct = 1]
    /\ pc' = IF validate THEN "simulate" ELSE "print"
    /\ UNCHANGED <<transVars, csim_results, failed, verdicts>>

(* A function whose validation fails is not simulated.                     *)
Validate ==
    /\ pc = "validate"
    /\ IF validate THEN results' = [results EXCEPT !.correct = 1] /\ pc' = "simulate"
       ELSE pc' = "print" /\ UNCHANGED results
    /\ UNCHANGED <<transVars, csim_results, failed, verdicts>>

(* What system returns is not looked at: a simulator that did not run      *)
(* leaves the file of an earlier run, if there is one.                     *)
Simulate(runs) ==
    /\ pc = "simulate"
    /\ csim_results' \in IF runs THEN {misses} ELSE {None, Old}
    /\ failed' = ~runs
    /\ pc' = "collect"
    /\ UNCHANGED <<transVars, results, verdicts>>

(* No file at all fails an assertion, and no verdict is printed.           *)
Collect ==
    /\ pc = "collect"
    /\ IF csim_results = None THEN pc' = "exit" /\ UNCHANGED results
       ELSE results' = [results EXCEPT !.misses = csim_results] /\ pc' = "print"
    /\ UNCHANGED <<transVars, csim_results, failed, verdicts>>

Report ==
    /\ pc = "print"
    /\ verdicts' = Append(verdicts, <<results.correct, results.misses>>)
    /\ pc' = "exiting"
    /\ UNCHANGED <<transVars, results, csim_results, failed>>

Exit ==
    /\ pc = "exiting"
    /\ pc' = "exit"
    /\ UNCHANGED <<transVars, results, csim_results, failed, verdicts>>

(* Seeded fault: the handler returns.                                      *)
sigalrm_handler_Returns ==
    /\ pc \notin {"exit", "register"}
    /\ verdicts' = Append(verdicts, <<0, 0>>)
    /\ UNCHANGED <<transVars, pc, results, csim_results, failed>>

(* sigalrm_handler, until the very end: the alarm is never taken back.     *)
sigalrm_handler ==
    /\ pc \notin {"exit", "register"}
    /\ verdicts' = Append(verdicts, <<0, 0>>)
    /\ pc' = "exit"
    /\ UNCHANGED <<transVars, results, csim_results, failed>>

eval_perf ==
    \/ registerFunctions \/ Trace \/ TraceEnds \/ Validate
    \/ \E runs \in BOOLEAN : Simulate(runs)
    \/ Collect \/ Report \/ Exit

Next == Start \/ eval_perf \/ sigalrm_handler

Spec == Init /\ [][Next]_vars
-----------------------------------------------------------------------------
(* The shapes transpose_submit is written for.                             *)
Supported == M = 61 \/ (M \in {32, 64} /\ N % 8 = 0)

TypeOK ==
    /\ pc \in {"exit", "register", "trace", "validate", "simulate", "collect", "print",
               "exiting"}
    /\ results.correct \in {0, 1} /\ results.misses \in Nat \union {Old}
    /\ csim_results \in Nat \union {None, Old}
    /\ pc \notin {"exit", "register"} => DOMAIN B = 0 .. M * N + 7
    /\ i >= 0 /\ j \in 0 .. MAXN /\ k \in 0 .. 22
    /\ Len(verdicts) <= 2

(* In a shape it is written for the function touches no cell outside its   *)
(* matrices, the ragged blocks at the edges of 61 columns included.        *)
StaysInside == Supported => ~outside

(* The function is found correct exactly in the shapes it is written for.  *)
CorrectWhenSupported ==
    pc \in {"simulate", "print"} => (results.correct = 1 <=> Supported)

(* The misses that driver.py gives full marks for (driver.py, the second   *)
(* argument of computeMissScore), on a cold direct-mapped cache.           *)
FullMarks ==
    pc = "simulate" =>
      /\ <<M, N>> = <<32, 32>> => misses <= 300
      /\ <<M, N>> = <<64, 64>> => misses <= 1300
      /\ <<M, N>> = <<61, 67>> => misses <= 2000

(* Where each verdict comes from.  driver.py reads the first: it is the    *)
(* alarm's, or the one of a function that did not pass validation, or      *)
(* credits what this run has validated, with the misses this run has       *)
(* simulated; if the simulator failed unnoticed, with exactly those of an  *)
(* earlier run.  Whatever is printed after it is the alarm's.              *)
VerdictsAccounted ==
    pc \in {"exiting", "exit"} /\ verdicts # <<>> =>
      /\ \/ verdicts[1] = <<0, 0>>
         \/ verdicts[1] = <<0, INT_MAX>> /\ ~Supported
         \/ verdicts[1] = <<1, IF failed THEN Old ELSE misses>> /\ Supported
      /\ \A n \in 2 .. Len(verdicts) : verdicts[n] = <<0, 0>>
=============================================================================
