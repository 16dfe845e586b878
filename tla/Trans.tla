------------------------------- MODULE Trans --------------------------------
(***************************************************************************)
(* The transpose functions of trans.c, instruction by instruction: the     *)
(* loads and stores of one round of an inner loop are one step.  The two   *)
(* matrices lie one after the other in memory, so that a column past the   *)
(* end of a row is the beginning of the next.  A cell of A holds its own   *)
(* index, which stands for whatever number is there: the code only moves   *)
(* numbers about.  Each access also goes through the simulated cache.      *)
(***************************************************************************)
EXTENDS Integers, SequencesExt

CONSTANTS
    setBits, linePerSet, offsetBits, IntBits, INVALID,   \* of module Cache
    Junk,           \* what B holds before: anything but a cell of A
    ArrayCells      \* cells of tracegen's static arrays

ASSUME JunkAssumption == Junk \notin Nat

VARIABLES
    M, N,           \* columns and rows of A
    B,              \* the cells from the start of B on
    i, j, k,        \* the block, and the round within it
    cacheSets, misses,
    outside         \* an access missed its matrix

transVars == <<M, N, B, i, j, k, cacheSets, misses, outside>>

(* The simulator is only called: its counters and its trace are not ours.  *)
C == INSTANCE Cache WITH hit <- 0, miss <- 0, eviction <- 0, read <- 0,
                         Addr <- {}, MaxLines <- 0

sizeof_int == 4
Cell(array, row, col) ==
    [array |-> array, cell |-> row * (IF array = "A" THEN M ELSE N) + col]
Address(c) == sizeof_int * (c.cell + IF c.array = "A" THEN 0 ELSE ArrayCells)

Load(reg, c)  == [op |-> "L", reg |-> reg, at |-> c]
Store(reg, c) == [op |-> "S", reg |-> reg, at |-> c]

(* A cache after an access, and what has been missed.                      *)
Touch(sets, missed, addr) ==
    LET s   == C!setIndex(addr)
        acc == C!accessMem(sets[s], C!tagIndex(addr))
    IN  [sets   |-> [sets EXCEPT ![s] = acc.set],
         missed |-> missed + IF acc.res = "HIT" THEN 0 ELSE 1]

Exec(st, ins) ==
    LET n == ins.at.cell
        t == Touch(st.sets, st.missed, Address(ins.at))
    IN  [sets    |-> t.sets,
         missed  |-> t.missed,
         outside |-> st.outside \/ n >= M * N,
         reg     |-> IF ins.op = "S" THEN st.reg
                     ELSE [st.reg EXCEPT ![ins.reg] = IF ins.at.array = "A" THEN n
                                                      ELSE st.mem[n]],
         mem     |-> IF ins.op = "L" THEN st.mem ELSE [st.mem EXCEPT ![n] = st.reg[ins.reg]]]

(* The state after a piece of code.  (A set of one binds each intermediate  *)
(* state, so that TLC evaluates it once.)                                  *)
Executed(code, st0) ==
    LET run[n \in 0 .. Len(code)] ==
          IF n = 0 THEN st0
          ELSE CHOOSE next \in {Exec(st, code[n]) : st \in {run[n - 1]}} : TRUE
    IN  run[Len(code)]
-----------------------------------------------------------------------------
(* The inner loops of transpose_submit.  Registers 0 to 7 are a0 to a7; 8  *)
(* to 11 are what tmp hands back to a0 to a3.                              *)
RowToRow(row, col, brow, bcol) ==
    [x \in 1 .. 16 |-> IF x <= 8 THEN Load(x - 1, Cell("A", row, col + x - 1))
                       ELSE Store(x - 9, Cell("B", brow, bcol + x - 9))]

ColumnToRow(row, col) ==
    [x \in 1 .. 16 |-> IF x <= 8 THEN Load(x - 1, Cell("A", row + x - 1, col))
                       ELSE Store(x - 9, Cell("B", col, row + x - 9))]

copy32(d) == RowToRow(i + d, j, j + d, i)

swap32(d) ==
    [x \in 1 .. 4 * (7 - d) |->
      LET s     == d + 1 + (x - 1) \div 4
          above == Cell("B", d + j, s + i)
          below == Cell("B", s + j, d + i)
      IN  <<Load(0, above), Load(1, below), Store(1, above), Store(0, below)>>[1 + ((x - 1) % 4)]]

top64(d) ==
    [x \in 1 .. 16 |->
      IF x <= 8 THEN Load(x - 1, Cell("A", d + i, j + x - 1))
      ELSE LET r == x - 9
           IN  Store(r, Cell("B", j + (r % 4), d + i + IF r < 4 THEN 0 ELSE 4))]

low64(d) ==
    [x \in 1 .. 24 |->
      LET r    == ((x - 1) % 8) \div 2
          even == x % 2 = 1
          there == Cell("B", j + d, i + 4 + r)
      IN  CASE x <= 8 /\ even -> Load(r, Cell("A", i + 4 + r, j + d))
            [] x <= 8 /\ ~even -> Load(4 + r, Cell("A", i + 4 + r, j + d + 4))
            [] x \in 9 .. 16 /\ even -> Load(8 + r, there)
            [] x \in 9 .. 16 /\ ~even -> Store(r, there)
            [] x > 16 /\ even -> Store(8 + r, Cell("B", j + d + 4, i + r))
            [] x > 16 /\ ~even -> Store(4 + r, Cell("B", j + d + 4, i + 4 + r))]

edge61(d) ==
    [x \in 1 .. 2 * (Min({j + 23, M}) - j) |->
      LET s == j + (x - 1) \div 2
      IN  IF x % 2 = 1 THEN Load(0, Cell("A", i + d, s)) ELSE Store(0, Cell("B", s, i + d))]

(* Seeded fault: every block is taken to be a whole one.                   *)
Whole61_Always == TRUE

Whole61 == i + 8 <= N /\ j + 23 <= M

(* The widths the switch of transpose_submit knows.                        *)
Handled == M \in {32, 61, 64}

BlockWidth == IF M = 61 THEN 23 ELSE 8

(* The rounds of a block, and the code of one.  The rounds of width 32 are *)
(* those of two loops.                                                     *)
Rounds == CASE M = 32 -> 16
            [] M = 64 -> 8
            [] M = 61 /\ Whole61 -> 23
            [] M = 61 /\ ~Whole61 -> Min({i + 8, N}) - i

(* Seeded fault: width 32 is transposed in plain blocks of eight by eight. *)
Code_Plain32 ==
    CASE M = 32 /\ k < 8 ->
           [x \in 1 .. 16 |-> LET s == j + (x - 1) \div 2 IN
              IF x % 2 = 1 THEN Load(0, Cell("A", i + k, s)) ELSE Store(0, Cell("B", s, i + k))]
      [] M = 32 /\ k >= 8 -> <<>>
      [] M = 64 /\ k < 4 -> top64(k)
      [] M = 64 /\ k >= 4 -> low64(k - 4)
      [] M = 61 /\ Whole61 -> ColumnToRow(i, j + k)
      [] M = 61 /\ ~Whole61 -> edge61(k)

Code == CASE M = 32 /\ k < 8 -> copy32(k)
          [] M = 32 /\ k >= 8 -> swap32(k - 8)
          [] M = 64 /\ k < 4 -> top64(k)
          [] M = 64 /\ k >= 4 -> low64(k - 4)
          [] M = 61 /\ Whole61 -> ColumnToRow(i, j + k)
          [] M = 61 /\ ~Whole61 -> edge61(k)

transpose_round ==
    /\ Handled /\ i < N
    /\ \E st \in {Executed(Code, [sets |-> cacheSets, missed |-> misses, outside |-> outside,
                                  reg |-> [r \in 0 .. 11 |-> 0], mem |-> B])} :
         B' = st.mem /\ cacheSets' = st.sets /\ misses' = st.missed /\ outside' = st.outside
    /\ LET lastRound == k + 1 = Rounds
           lastBlock == j + BlockWidth >= M
       IN  /\ k' = IF lastRound THEN 0 ELSE k + 1
           /\ j' = IF ~lastRound THEN j ELSE IF lastBlock THEN 0 ELSE j + BlockWidth
           /\ i' = IF lastRound /\ lastBlock THEN i + 8 ELSE i
    /\ UNCHANGED <<M, N>>

transpose_returns == ~Handled \/ i >= N
-----------------------------------------------------------------------------
(* initMatrix.  The cells after B may be overrun by a row of a block.      *)
initMatrix == [n \in 0 .. M * N + 7 |-> Junk]

(* correctTrans: the cell of A that belongs in each cell of B.             *)
correctTrans == [n \in 0 .. M * N - 1 |-> (n % N) * M + n \div N]

(* Seeded fault: only the first row is compared.                           *)
validate_FirstRow == \A n \in 0 .. N - 1 : B[n] = correctTrans[n]

(* validate of tracegen.c.                                                 *)
validate == LET D == correctTrans IN \A n \in DOMAIN D : B[n] = D[n]
=============================================================================
