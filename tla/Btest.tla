------------------------------- MODULE Btest --------------------------------
(***************************************************************************)
(* The data lab's checker, btest.c: for every puzzle of decl.c it makes up *)
(* argument values, compares the puzzle with its reference function on all *)
(* their combinations, and gives up on a puzzle when an alarm goes off.    *)
(* A test value is kept as the set of numbers it may be: one number, or    *)
(* all that random_val may return.  Scores and messages are left out.      *)
(***************************************************************************)
EXTENDS Bits, Sequences, SequencesExt

CONSTANTS
    TEST_RANGE, MAX_TEST_VALS,
    timeout_limit,      \* 0 for no alarm
    ArgVals,            \* values the user may give with -1, -2 and -3
    Randoms,            \* what random_val returns for a puzzle of several arguments
    NoArg

ASSUME BtestAssumption ==
    /\ TEST_RANGE \in Nat \ {0} /\ MAX_TEST_VALS \in Nat /\ timeout_limit \in Nat
    /\ ArgVals \subseteq Ints /\ Randoms \subseteq Ints /\ NoArg \notin Ints

VARIABLES
    pc,
    argval,         \* the arguments fixed by the user, NoArg where has_arg is 0
    fn, errors,     \* the puzzle, and its errors
    arg_test_vals,  \* for each argument a sequence of values
    at,             \* the next value of each
    alarm,          \* set and not gone off yet
    envbuf,         \* the puzzle whose test_function called sigsetjmp last, or 0
    tried           \* the corners tried so far, a history variable

vars == <<pc, argval, fn, errors, arg_test_vals, at, alarm, envbuf, tried>>

Puzzle(name, args, float) == [name |-> name, args |-> args, float |-> float]

(* decl.c.  The arguments of the last three are ranges of float patterns.  *)
test_set ==
    << Puzzle("bitXor", 2, FALSE), Puzzle("tmin", 0, FALSE), Puzzle("isTmax", 1, FALSE),
       Puzzle("allOddBits", 1, FALSE), Puzzle("negate", 1, FALSE),
       Puzzle("isAsciiDigit", 1, FALSE), Puzzle("conditional", 3, FALSE),
       Puzzle("isLessOrEqual", 2, FALSE), Puzzle("logicalNeg", 1, FALSE),
       Puzzle("howManyBits", 1, FALSE), Puzzle("floatScale2", 1, TRUE),
       Puzzle("floatFloat2Int", 1, TRUE), Puzzle("floatPower2", 1, TRUE) >>

t == test_set[fn]

(* A puzzle and its reference function agree on these arguments.           *)
Agrees(name, a) ==
    CASE name = "bitXor"         -> bitXor(a[1], a[2]) = test_bitXor(a[1], a[2])
      [] name = "tmin"           -> tmin = test_tmin
      [] name = "isTmax"         -> isTmax(a[1]) = test_isTmax(a[1])
      [] name = "allOddBits"     -> allOddBits(a[1]) = test_allOddBits(a[1])
      [] name = "negate"         -> negate(a[1]) = test_negate(a[1])
      [] name = "isAsciiDigit"   -> isAsciiDigit(a[1]) = test_isAsciiDigit(a[1])
      [] name = "conditional"    -> conditional(a[1], a[2], a[3]) = test_conditional(a[1], a[2], a[3])
      [] name = "isLessOrEqual"  -> isLessOrEqual(a[1], a[2]) = test_isLessOrEqual(a[1], a[2])
      [] name = "logicalNeg"     -> logicalNeg(a[1]) = test_logicalNeg(a[1])
      [] name = "howManyBits"    -> howManyBits(a[1]) = test_howManyBits(a[1])
      [] name = "floatScale2"    -> floatScale2(Unsigned(a[1])) = test_floatScale2(Unsigned(a[1]))
      [] name = "floatFloat2Int" -> floatFloat2Int(Unsigned(a[1])) = test_floatFloat2Int(Unsigned(a[1]))
      [] name = "floatPower2"    -> floatPower2(a[1]) = test_floatPower2(a[1])
-----------------------------------------------------------------------------
(* The range of each argument: the total number of tests stays about the   *)
(* same, so it is a root of TEST_RANGE (cut to an int).                    *)
arg_test_range ==
    IF t.args = 0 THEN 1
    ELSE CHOOSE r \in 1 .. TEST_RANGE : r^t.args <= TEST_RANGE /\ (r + 1)^t.args > TEST_RANGE

random_val == IF t.args = 1 THEN Ints ELSE Randoms

smallest_norm == Pattern(0, 1, 0)
one           == Pattern(0, Bias, 0)
largest_norm  == Pattern(0, ExpOnes - 1, 0)
inf           == Pattern(0, ExpOnes, 0)
nan           == Pattern(0, ExpOnes, 2^(FracBits - 1))

Bits2(pattern) == <<{Signed(pattern)}, {Signed(Pattern(1, 0, 0) + pattern)}>>
Only(x) == <<{x}>>

(* Seeded fault: the special values are added in every round.              *)
FloatVals_EveryRound(range) ==
    LET near(n) == Bits2(n) \o Bits2(smallest_norm + n) \o Bits2(smallest_norm - n)
                     \o Bits2(one + n) \o Bits2(one - n) \o Bits2(largest_norm - n)
                     \o Bits2(inf) \o Bits2(nan)
    IN  FlattenSeq([r \in 1 .. Min({range, 2^FracBits}) |-> near(r - 1)])

FloatVals(range) ==
    LET near(n) == Bits2(n) \o Bits2(smallest_norm + n) \o Bits2(smallest_norm - n)
                     \o Bits2(one + n) \o Bits2(one - n) \o Bits2(largest_norm - n)
    IN  FlattenSeq([r \in 1 .. Min({range, 2^FracBits}) |-> near(r - 1)])
          \o Bits2(inf) \o Bits2(nan)

(* Seeded fault: the first round is left out.                              *)
Sampled_FromOne(range) ==
    FlattenSeq([n \in 1 .. range |-> Only(TMin + n) \o Only(TMax - n) \o Only(n) \o Only(-n)])

(* Around the boundaries and zero, and at random.                          *)
Sampled(range) ==
    LET near(n) == Only(TMin + n) \o Only(TMax - n) \o Only(n) \o Only(-n) \o <<random_val>>
    IN  FlattenSeq([r \in 1 .. range |-> near(r - 1)])

gen_vals(arg) ==
    CASE argval[arg] # NoArg -> Only(argval[arg])
      [] argval[arg] = NoArg /\ t.float -> FloatVals(arg_test_range)
      [] argval[arg] = NoArg /\ ~t.float ->
           IF TMax - MAX_TEST_VALS <= TMin THEN [n \in 1 .. Size |-> {TMin + n - 1}]
           ELSE Sampled(arg_test_range)
-----------------------------------------------------------------------------
Init ==
    /\ pc = "options" /\ argval = <<NoArg, NoArg, NoArg>>
    /\ fn = 1 /\ errors = 0
    /\ arg_test_vals = <<>> /\ at = <<>>
    /\ alarm = FALSE /\ envbuf = 0 /\ tried = {}

(* -1, -2 and -3.  get_num_val takes an integer only where the value so    *)
(* far is zero, as it is at first, and a float (its bits) whatever it is.  *)
(* What it refuses, also a text that is neither (NoArg), ends main.        *)
Option(arg, val, isfloat) ==
    /\ pc = "options"
    /\ IF val # NoArg /\ (isfloat \/ argval[arg] \in {NoArg, 0})
         THEN argval' = [argval EXCEPT ![arg] = val] /\ UNCHANGED pc
         ELSE pc' = "exit" /\ UNCHANGED argval
    /\ UNCHANGED <<fn, errors, arg_test_vals, at, alarm, envbuf, tried>>

OptionsEnd ==
    /\ pc = "options" /\ pc' = "next"
    /\ UNCHANGED <<argval, fn, errors, arg_test_vals, at, alarm, envbuf, tried>>

(* run_tests calls test_function, which first makes up the values.         *)
GenVals ==
    /\ pc = "next" /\ fn <= Len(test_set)
    /\ errors' = 0 /\ tried' = {}
    /\ arg_test_vals' = [arg \in 1 .. t.args |-> gen_vals(arg)]
    /\ at' = [arg \in 1 .. t.args |-> 1]
    /\ pc' = "setjmp"
    /\ UNCHANGED <<argval, fn, alarm, envbuf>>

(* sigsetjmp, if there is a time limit.                                    *)
SetJmp ==
    /\ pc = "setjmp"
    /\ IF timeout_limit > 0 THEN envbuf' = fn /\ pc' = "alarm"
       ELSE pc' = "test" /\ UNCHANGED envbuf
    /\ UNCHANGED <<argval, fn, errors, arg_test_vals, at, alarm, tried>>

(* The alarm; an older one is replaced, if it has not gone off.            *)
SetAlarm ==
    /\ pc = "alarm" /\ pc' = "test"
    /\ alarm' = TRUE
    /\ UNCHANGED <<argval, fn, errors, arg_test_vals, at, envbuf, tried>>

Corners == IF t.float THEN {Signed(0), Signed(smallest_norm), Signed(one), Signed(inf), Signed(nan)}
           ELSE {TMin, 0, TMax}

(* The next of the nested loops, the last argument's being innermost.      *)
Counted ==
    LET last == CHOOSE n \in 0 .. t.args :
                  /\ n > 0 => at[n] < Len(arg_test_vals[n])
                  /\ \A m \in n + 1 .. t.args : at[m] = Len(arg_test_vals[m])
    IN  [more |-> last > 0,
         at   |-> [m \in DOMAIN at |-> IF m < last THEN at[m] ELSE IF m = last THEN at[m] + 1
                                       ELSE 1]]

(* One call of test_0_arg to test_3_arg.  The first error ends the test.   *)
Test ==
    /\ pc = "test"
    /\ \E a \in {s \in [1 .. t.args -> UNION {arg_test_vals[m][at[m]] : m \in 1 .. t.args}] :
                   \A m \in 1 .. t.args : s[m] \in arg_test_vals[m][at[m]]} :
         /\ errors' = IF Agrees(t.name, a) THEN 0 ELSE 1
         /\ tried' = IF \A m \in 1 .. t.args : a[m] \in Corners THEN tried \union {a} ELSE tried
    /\ at' = Counted.at
    /\ pc' = IF errors' = 0 /\ Counted.more THEN "test" ELSE "return"
    /\ UNCHANGED <<argval, fn, arg_test_vals, alarm, envbuf>>

(* Back in run_tests.  The alarm stays set.                                *)
Return ==
    /\ pc = "return"
    /\ fn' = fn + 1
    /\ arg_test_vals' = <<>> /\ at' = <<>> /\ tried' = {} /\ errors' = 0
    /\ pc' = IF fn = Len(test_set) THEN "exit" ELSE "next"
    /\ UNCHANGED <<argval, alarm, envbuf>>

(* timeout_handler jumps to where sigsetjmp was called.  Once that call of *)
(* test_function has returned, there is no such place any more.  (An old   *)
(* alarm that goes off just before the new one is set times out a puzzle   *)
(* that has not begun.)                                                    *)
Timeout ==
    /\ alarm /\ pc # "exit"
    /\ alarm' = FALSE
    /\ IF pc \in {"alarm", "test"} THEN errors' = 1 /\ pc' = "timedout"
       ELSE pc' = "undefined" /\ UNCHANGED errors
    /\ UNCHANGED <<argval, fn, arg_test_vals, at, envbuf, tried>>

TimedOut ==
    /\ pc = "timedout"
    /\ pc' = "return"
    /\ UNCHANGED <<argval, fn, errors, arg_test_vals, at, alarm, envbuf, tried>>

Next ==
    \/ \E arg \in 1 .. 3, val \in ArgVals \cup {NoArg}, isfloat \in BOOLEAN :
         Option(arg, val, isfloat)
    \/ OptionsEnd \/ GenVals \/ SetJmp \/ SetAlarm \/ Test \/ Return \/ Timeout \/ TimedOut

Spec == Init /\ [][Next]_vars
-----------------------------------------------------------------------------
(* The values made up for an argument fit the array that holds them, whose *)
(* size is the same for every puzzle (btest.c, MAX_TEST_VALS).             *)
TypeOK ==
    /\ pc \in {"options", "next", "setjmp", "alarm", "test", "return", "timedout", "exit",
               "undefined"}
    /\ fn \in 1 .. Len(test_set) + 1 /\ errors \in {0, 1}
    /\ \A m \in DOMAIN arg_test_vals :
         /\ Len(arg_test_vals[m]) <= MAX_TEST_VALS
         /\ arg_test_vals[m] \in Seq(SUBSET Ints)
         /\ at[m] \in DOMAIN arg_test_vals[m]

(* The puzzles of bits.c are right on everything btest may try: an error   *)
(* means that the time was up.                                             *)
ErrorsAreTimeouts == errors = 1 /\ pc = "return" => ~alarm

(* A puzzle that passes has been tried on every combination of the corners *)
(* of its arguments, except of those the user has fixed (btest.c: "Do so   *)
(* near the boundaries, around zero, and for some random cases").          *)
CornersTried ==
    pc = "return" /\ errors = 0 =>
      {s \in [1 .. t.args -> Corners] :
         \A m \in 1 .. t.args : argval[m] # NoArg => s[m] = argval[m]} \subseteq tried

(* "control will reach here if there is a timeout" (btest.c, line 352): an *)
(* alarm that goes off finds the call of test_function it is to end.       *)
TimeoutEndsItsTest == pc # "undefined"
=============================================================================
