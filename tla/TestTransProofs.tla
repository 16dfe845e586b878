-------------------------- MODULE TestTransProofs ---------------------------
(***************************************************************************)
(* transpose_submit stays inside its matrices and transposes them, for     *)
(* every number of rows and whatever the cache looks like, and what the    *)
(* tester says of it is true.                                              *)
(***************************************************************************)
EXTENDS TestTrans, DataLemmas

(***************************************************************************)
(* Running a piece of code.  It is recursive, so the states it goes        *)
(* through have to be shown to exist first.  What a cell or a register     *)
(* holds in the end is then found by looking for the last instruction that *)
(* wrote it.                                                               *)
(***************************************************************************)
IsRun(run, code, st0) ==
    /\ run[0] = st0
    /\ \A n \in 1 .. Len(code) : run[n] = Exec(run[n - 1], code[n])
    /\ Executed(code, st0) = run[Len(code)]

(* A piece of code has a run.                                              *)
LEMMA RunExists ==
    ASSUME NEW code, Len(code) \in Nat, NEW st0
    PROVE  \E run : IsRun(run, code, st0)
<1> DEFINE L == Len(code)
           Body(g, n) == IF n = 0 THEN st0
                         ELSE CHOOSE next \in {Exec(st, code[n]) : st \in {g[n - 1]}} : TRUE
           Upto(n, g) == g = [m \in 0 .. n |-> Body(g, m)]
           Claim == {n \in Nat : \E g : Upto(n, g)}
<1>1. 0 \in Claim
  <2>1. Upto(0, [m \in 0 .. 0 |-> st0])
    OBVIOUS
  <2> QED
    BY <2>1
<1>2. ASSUME NEW n \in Nat, n \in Claim PROVE n + 1 \in Claim
  <2>1. PICK g : Upto(n, g)
    BY <1>2
  <2> DEFINE h == [m \in 0 .. n + 1 |-> Body(g, m)]
  <2>2. \A m \in 0 .. n : h[m] = g[m]
    <3>1. \A m \in 0 .. n : g[m] = Body(g, m)
      BY <2>1
    <3> HIDE DEF Body
    <3> QED
      BY <3>1
  <2>3. \A m \in 0 .. n + 1 : Body(h, m) = Body(g, m)
    <3>1. \A m \in 0 .. n + 1 : m # 0 => m - 1 \in 0 .. n
      OBVIOUS
    <3>2. \A m \in 0 .. n + 1 : m # 0 => h[m - 1] = g[m - 1]
      BY <2>2, <3>1
    <3> HIDE DEF h
    <3> QED
      BY <3>2
  <2>4. Upto(n + 1, h)
    <3> HIDE DEF Body
    <3> QED
      BY <2>3
  <2> HIDE DEF Upto, h
  <2> QED
    BY <2>4
<1> HIDE DEF Claim
<1>3. L \in Claim
  BY <1>1, <1>2, NatSetInduction
<1> USE DEF Claim
<1> DEFINE run == CHOOSE g : Upto(L, g)
<1>4. Upto(L, run)
  BY <1>3
<1>5. Executed(code, st0) = run[L]
  BY DEF Executed
<1> HIDE DEF run
<1>6. \A m \in 0 .. L : run[m] = Body(run, m)
  <2> HIDE DEF Body
  <2> QED
    BY <1>4
<1>7. run[0] = st0
  BY <1>6
<1>8. \A n \in 1 .. L : run[n] = Exec(run[n - 1], code[n])
  <2>1. SUFFICES ASSUME NEW n \in 1 .. L PROVE run[n] = Exec(run[n - 1], code[n])
    OBVIOUS
  <2>2. run[n] = CHOOSE next \in {Exec(st, code[n]) : st \in {run[n - 1]}} : TRUE
    BY <1>6
  <2>3. {Exec(st, code[n]) : st \in {run[n - 1]}} = {Exec(run[n - 1], code[n])}
    OBVIOUS
  <2> QED
    BY <2>2, <2>3
<1> QED
  BY <1>5, <1>7, <1>8 DEF IsRun

(* One instruction, field by field.                                        *)
LEMMA ExecFields ==
    ASSUME NEW st, NEW ins
    PROVE  /\ Exec(st, ins).outside = (st.outside \/ ins.at.cell >= M * N)
           /\ ins.op = "L" => Exec(st, ins).mem = st.mem
           /\ ins.op # "L" =>
                Exec(st, ins).mem = [st.mem EXCEPT ![ins.at.cell] = st.reg[ins.reg]]
           /\ ins.op = "S" => Exec(st, ins).reg = st.reg
           /\ ins.op # "S" =>
                Exec(st, ins).reg = [st.reg EXCEPT ![ins.reg] =
                                       IF ins.at.array = "A" THEN ins.at.cell
                                       ELSE st.mem[ins.at.cell]]
           /\ st.missed \in Nat => Exec(st, ins).missed \in Nat
<1> DEFINE t == Touch(st.sets, st.missed, Address(ins.at))
           n == ins.at.cell
           fields == [sets |-> t.sets, missed |-> t.missed, outside |-> st.outside \/ n >= M * N,
                      reg |-> IF ins.op = "S" THEN st.reg
                              ELSE [st.reg EXCEPT ![ins.reg] =
                                      IF ins.at.array = "A" THEN n ELSE st.mem[n]],
                      mem |-> IF ins.op = "L" THEN st.mem
                              ELSE [st.mem EXCEPT ![n] = st.reg[ins.reg]]]
<1>1. Exec(st, ins) = fields
  BY DEF Exec
<1>2. st.missed \in Nat => t.missed \in Nat
  <2> DEFINE res == C!accessMem(st.sets[C!setIndex(Address(ins.at))],
                                C!tagIndex(Address(ins.at))).res
  <2>1. t.missed = st.missed + IF res = "HIT" THEN 0 ELSE 1
    BY DEF Touch
  <2> HIDE DEF t, res
  <2> QED
    BY <2>1
<1> HIDE DEF t
<1> QED
  BY <1>1, <1>2

(* Code as the functions write it: the registers are a0 to a7 and tmp's.   *)
Regs  == 0 .. 11
Instr == [op : {"L", "S"}, reg : Regs, at : [array : {"A", "B"}, cell : Nat]]

IsCode(code)     == Len(code) \in Nat /\ \A x \in 1 .. Len(code) : code[x] \in Instr
Loads(ins, r)    == ins.op = "L" /\ ins.reg = r
Stores(ins, n)   == ins.op = "S" /\ ins.at.cell = n

(* A run keeps the cells and registers there are, counts misses, and stays *)
(* inside if each access does.                                             *)
LEMMA RunKeeps ==
    ASSUME NEW code, IsCode(code), NEW st0, NEW run, IsRun(run, code, st0),
           DOMAIN st0.reg = Regs, M \in Nat, N \in Nat
    PROVE  \A n \in 0 .. Len(code) :
             /\ DOMAIN run[n].mem = DOMAIN st0.mem
             /\ DOMAIN run[n].reg = Regs
             /\ st0.missed \in Nat => run[n].missed \in Nat
             /\ ~st0.outside /\ (\A x \in 1 .. Len(code) : code[x].at.cell < M * N)
                  => ~run[n].outside
<1> DEFINE L == Len(code)
           Inside == \A x \in 1 .. L : code[x].at.cell < M * N
           Kept(n) == /\ DOMAIN run[n].mem = DOMAIN st0.mem
                      /\ DOMAIN run[n].reg = Regs
                      /\ st0.missed \in Nat => run[n].missed \in Nat
                      /\ ~st0.outside /\ Inside => ~run[n].outside
           Claim == {n \in Nat : n <= L => Kept(n)}
<1>1. 0 \in Claim
  BY DEF IsRun
<1>2. ASSUME NEW n \in Nat, n \in Claim PROVE n + 1 \in Claim
  <2>1. SUFFICES ASSUME n + 1 <= L PROVE Kept(n + 1)
    OBVIOUS
  <2>2. n \in 0 .. L /\ n + 1 \in 1 .. L /\ (n + 1) - 1 = n /\ Kept(n)
    BY <1>2, <2>1 DEF IsCode
  <2> DEFINE st == run[n]
             ins == code[n + 1]
  <2>3. run[n + 1] = Exec(st, ins)
    BY <2>2 DEF IsRun
  <2>4. ins \in Instr
    BY <2>2 DEF IsCode
  <2>5. ins.op \in {"L", "S"}
    BY <2>4 DEF Instr
  <2> HIDE DEF st, ins
  <2>6. /\ Exec(st, ins).outside = (st.outside \/ ins.at.cell >= M * N)
        /\ ins.op = "L" => Exec(st, ins).mem = st.mem
        /\ ins.op # "L" =>
             Exec(st, ins).mem = [st.mem EXCEPT ![ins.at.cell] = st.reg[ins.reg]]
        /\ ins.op = "S" => Exec(st, ins).reg = st.reg
        /\ ins.op # "S" =>
             Exec(st, ins).reg = [st.reg EXCEPT ![ins.reg] =
                                    IF ins.at.array = "A" THEN ins.at.cell
                                    ELSE st.mem[ins.at.cell]]
        /\ st.missed \in Nat => Exec(st, ins).missed \in Nat
    BY ExecFields
  <2>7. DOMAIN run[n + 1].mem = DOMAIN st.mem /\ DOMAIN run[n + 1].reg = DOMAIN st.reg
    BY <2>3, <2>5, <2>6
  <2>8. ~st.outside /\ Inside => ~run[n + 1].outside
    <3>1. SUFFICES ASSUME ~st.outside, Inside PROVE ~run[n + 1].outside
      OBVIOUS
    <3>2. ins.at.cell < M * N
      BY <2>2, <3>1 DEF ins
    <3>3. ~(ins.at.cell >= M * N)
      <4>1. ins.at.cell \in Nat
        BY <2>4 DEF Instr
      <4> DEFINE c == ins.at.cell
                 d == M * N
      <4> HIDE DEF c, d
      <4>2. d \in Nat /\ (c \in Nat /\ c < d => ~(c >= d))
        <5>1. d \in Nat
          BY DEF d
        <5> QED
          BY <5>1
      <4> QED
        BY <3>2, <4>1, <4>2 DEF c, d
    <3> QED
      BY <2>3, <2>6, <3>1, <3>3
  <2> QED
    BY <2>2, <2>3, <2>6, <2>7, <2>8 DEF st
<1> HIDE DEF Claim
<1>3. \A n \in Nat : n \in Claim
  BY <1>1, <1>2, NatSetInduction
<1> USE DEF Claim
<1> QED
  BY <1>3 DEF IsCode

(* What stays in a cell that is not stored to, and in a register that is   *)
(* not loaded.                                                             *)
LEMMA RunStep ==
    ASSUME NEW code, IsCode(code), NEW st0, NEW run, IsRun(run, code, st0),
           DOMAIN st0.reg = Regs, M \in Nat, N \in Nat, NEW x \in 1 .. Len(code)
    PROVE  LET ins == code[x]
               st  == run[x - 1]
           IN  /\ ins \in Instr
               /\ \A n \in DOMAIN st0.mem :
                    run[x].mem[n] = IF Stores(ins, n) THEN st.reg[ins.reg] ELSE st.mem[n]
               /\ \A r \in Regs :
                    run[x].reg[r] = IF ~Loads(ins, r) THEN st.reg[r]
                                    ELSE IF ins.at.array = "A" THEN ins.at.cell
                                    ELSE st.mem[ins.at.cell]
<1> DEFINE ins == code[x]
           st  == run[x - 1]
<1>1. x - 1 \in 0 .. Len(code)
  BY DEF IsCode
<1>2. ins \in Instr
  BY DEF IsCode
<1>3. ins.op \in {"L", "S"}
  BY <1>2 DEF Instr
<1>4. run[x] = Exec(st, ins)
  BY DEF IsRun
<1>5. DOMAIN st.mem = DOMAIN st0.mem /\ DOMAIN st.reg = Regs
  BY <1>1, RunKeeps
<1> HIDE DEF ins, st
<1>6. /\ ins.op = "L" => run[x].mem = st.mem
      /\ ins.op # "L" => run[x].mem = [st.mem EXCEPT ![ins.at.cell] = st.reg[ins.reg]]
      /\ ins.op = "S" => run[x].reg = st.reg
      /\ ins.op # "S" => run[x].reg = [st.reg EXCEPT ![ins.reg] =
                                         IF ins.at.array = "A" THEN ins.at.cell
                                         ELSE st.mem[ins.at.cell]]
  <2> DEFINE next == Exec(st, ins)
  <2>1. /\ ins.op = "L" => next.mem = st.mem
        /\ ins.op # "L" => next.mem = [st.mem EXCEPT ![ins.at.cell] = st.reg[ins.reg]]
        /\ ins.op = "S" => next.reg = st.reg
        /\ ins.op # "S" => next.reg = [st.reg EXCEPT ![ins.reg] =
                                          IF ins.at.array = "A" THEN ins.at.cell
                                          ELSE st.mem[ins.at.cell]]
    BY ExecFields
  <2>2. run[x] = next
    BY <1>4
  <2> HIDE DEF next
  <2> QED
    BY <2>1, <2>2
<1>7. \A n \in DOMAIN st0.mem :
        run[x].mem[n] = IF Stores(ins, n) THEN st.reg[ins.reg] ELSE st.mem[n]
  BY <1>3, <1>5, <1>6 DEF Stores
<1>8. \A r \in Regs :
        run[x].reg[r] = IF ~Loads(ins, r) THEN st.reg[r]
                        ELSE IF ins.at.array = "A" THEN ins.at.cell ELSE st.mem[ins.at.cell]
  BY <1>3, <1>5, <1>6 DEF Loads
<1> QED
  BY <1>2, <1>7, <1>8 DEF ins, st

(* A cell keeps its number while no instruction stores to it.              *)
LEMMA CellKept ==
    ASSUME NEW code, IsCode(code), NEW st0, NEW run, IsRun(run, code, st0),
           DOMAIN st0.reg = Regs, M \in Nat, N \in Nat,
           NEW n \in DOMAIN st0.mem, NEW lo \in 0 .. Len(code), NEW hi \in lo .. Len(code),
           \A z \in lo + 1 .. hi : ~Stores(code[z], n)
    PROVE  run[hi].mem[n] = run[lo].mem[n]
<1> DEFINE Claim == {d \in Nat : lo + d <= hi => run[lo + d].mem[n] = run[lo].mem[n]}
<1>0. lo \in Nat /\ hi \in Nat /\ Len(code) \in Nat /\ lo <= hi /\ hi <= Len(code)
  BY DEF IsCode
<1>1. 0 \in Claim
  BY <1>0
<1>2. ASSUME NEW d \in Nat, d \in Claim PROVE d + 1 \in Claim
  <2>1. SUFFICES ASSUME lo + (d + 1) <= hi
                 PROVE  run[lo + (d + 1)].mem[n] = run[lo].mem[n]
    OBVIOUS
  <2> DEFINE x == lo + (d + 1)
  <2>2. x \in 1 .. Len(code) /\ x - 1 = lo + d /\ x \in lo + 1 .. hi /\ lo + d <= hi
    BY <1>0, <2>1
  <2> HIDE DEF x
  <2>3. run[x].mem[n] = run[lo + d].mem[n]
    BY <2>2, RunStep
  <2> QED
    BY <1>2, <2>2, <2>3 DEF x
<1>3. hi - lo \in Nat /\ lo + (hi - lo) = hi
  BY <1>0
<1> HIDE DEF Claim
<1>4. hi - lo \in Claim
  BY <1>1, <1>2, <1>3, NatSetInduction
<1> QED
  BY <1>0, <1>3, <1>4 DEF Claim

(* A register keeps its number while no instruction loads it.              *)
LEMMA RegisterKept ==
    ASSUME NEW code, IsCode(code), NEW st0, NEW run, IsRun(run, code, st0),
           DOMAIN st0.reg = Regs, M \in Nat, N \in Nat,
           NEW r \in Regs, NEW lo \in 0 .. Len(code), NEW hi \in lo .. Len(code),
           \A z \in lo + 1 .. hi : ~Loads(code[z], r)
    PROVE  run[hi].reg[r] = run[lo].reg[r]
<1> DEFINE Claim == {d \in Nat : lo + d <= hi => run[lo + d].reg[r] = run[lo].reg[r]}
<1>0. lo \in Nat /\ hi \in Nat /\ Len(code) \in Nat /\ lo <= hi /\ hi <= Len(code)
  BY DEF IsCode
<1>1. 0 \in Claim
  BY <1>0
<1>2. ASSUME NEW d \in Nat, d \in Claim PROVE d + 1 \in Claim
  <2>1. SUFFICES ASSUME lo + (d + 1) <= hi
                 PROVE  run[lo + (d + 1)].reg[r] = run[lo].reg[r]
    OBVIOUS
  <2> DEFINE x == lo + (d + 1)
  <2>2. x \in 1 .. Len(code) /\ x - 1 = lo + d /\ x \in lo + 1 .. hi /\ lo + d <= hi
    BY <1>0, <2>1
  <2> HIDE DEF x
  <2>3. run[x].reg[r] = run[lo + d].reg[r]
    BY <2>2, RunStep
  <2> QED
    BY <1>2, <2>2, <2>3 DEF x
<1>3. hi - lo \in Nat /\ lo + (hi - lo) = hi
  BY <1>0
<1> HIDE DEF Claim
<1>4. hi - lo \in Claim
  BY <1>1, <1>2, <1>3, NatSetInduction
<1> QED
  BY <1>0, <1>3, <1>4 DEF Claim

(* What a cell holds when a piece of code is over: what it held, unless it *)
(* was stored to; and otherwise what its last store took from a register,  *)
(* which is what the register's last load had put there.                   *)
LastStore(code, n, x) ==
    /\ x \in 1 .. Len(code) /\ Stores(code[x], n)
    /\ \A z \in x + 1 .. Len(code) : ~Stores(code[z], n)

LastLoad(code, x, y) ==
    /\ y \in 1 .. x - 1 /\ Loads(code[y], code[x].reg)
    /\ \A z \in y + 1 .. x - 1 : ~Loads(code[z], code[x].reg)

(* A cell holds what was loaded last into the register that was stored to  *)
(* it last.                                                                *)
LEMMA WhatACellHolds ==
    ASSUME NEW code, IsCode(code), NEW st0, DOMAIN st0.reg = Regs, M \in Nat, N \in Nat,
           NEW n \in DOMAIN st0.mem
    PROVE  LET E == Executed(code, st0) IN
           /\ (\A z \in 1 .. Len(code) : ~Stores(code[z], n)) => E.mem[n] = st0.mem[n]
           /\ \A x, y : LastStore(code, n, x) /\ LastLoad(code, x, y) =>
                /\ code[y].at.array = "A" => E.mem[n] = code[y].at.cell
                /\ code[y].at.array = "B" /\ code[y].at.cell \in DOMAIN st0.mem
                   /\ (\A z \in 1 .. y - 1 : ~Stores(code[z], code[y].at.cell))
                     => E.mem[n] = st0.mem[code[y].at.cell]
<1> DEFINE L == Len(code)
<1>0. L \in Nat
  BY DEF IsCode
<1>1. PICK run : IsRun(run, code, st0)
  BY <1>0, RunExists
<1>2. Executed(code, st0) = run[L] /\ run[0] = st0
  BY <1>1 DEF IsRun
<1>3. ASSUME \A z \in 1 .. L : ~Stores(code[z], n) PROVE run[L].mem[n] = st0.mem[n]
  <2>1. 0 \in 0 .. L /\ L \in 0 .. L /\ 0 + 1 = 1
    BY <1>0
  <2> QED
    BY <1>1, <1>2, <1>3, <2>1, CellKept
<1>4. ASSUME NEW x, NEW y, LastStore(code, n, x), LastLoad(code, x, y)
      PROVE  /\ code[y].at.array = "A" => run[L].mem[n] = code[y].at.cell
             /\ code[y].at.array = "B" /\ code[y].at.cell \in DOMAIN st0.mem
                /\ (\A z \in 1 .. y - 1 : ~Stores(code[z], code[y].at.cell))
                  => run[L].mem[n] = st0.mem[code[y].at.cell]
  <2> DEFINE r == code[x].reg
             m == code[y].at.cell
  <2>1. x \in 1 .. L /\ y \in 1 .. x - 1
    BY <1>4 DEF LastStore, LastLoad
  <2>2. /\ x \in 0 .. L /\ L \in x .. L /\ x - 1 \in 0 .. L /\ x \in Nat
        /\ y \in 1 .. L /\ y \in 0 .. L /\ x - 1 \in y .. L /\ y \in Nat
        /\ y - 1 \in 0 .. L /\ 0 \in 0 .. L
    BY <1>0, <2>1
  <2>3. run[L].mem[n] = run[x].mem[n]
    BY <1>1, <1>4, <2>2, CellKept DEF LastStore
  <2>4. code[x] \in Instr /\ run[x].mem[n] = run[x - 1].reg[r]
    BY <1>1, <1>4, <2>1, RunStep DEF LastStore
  <2>5. r \in Regs
    BY <2>4 DEF Instr
  <2>6. run[x - 1].reg[r] = run[y].reg[r]
    <3>1. \A z \in y + 1 .. x - 1 : ~Loads(code[z], r)
      BY <1>4 DEF LastLoad
    <3> HIDE DEF r
    <3> QED
      BY <1>1, <2>2, <2>5, <3>1, RegisterKept
  <2>7. run[y].reg[r] = IF code[y].at.array = "A" THEN m ELSE run[y - 1].mem[m]
    BY <1>1, <1>4, <2>2, <2>5, RunStep DEF LastLoad
  <2>8. ASSUME m \in DOMAIN st0.mem, \A z \in 1 .. y - 1 : ~Stores(code[z], m)
        PROVE  run[y - 1].mem[m] = st0.mem[m]
    <3> DEFINE hi == y - 1
    <3>1. 0 \in 0 .. Len(code) /\ hi \in 0 .. Len(code)
      BY <2>2
    <3>2. \A z \in 0 + 1 .. hi : ~Stores(code[z], m)
      BY <2>8
    <3> HIDE DEF m, hi
    <3>3. run[hi].mem[m] = run[0].mem[m]
      BY <1>1, <2>8, <3>1, <3>2, CellKept
    <3> QED
      BY <1>2, <3>3 DEF hi
  <2> QED
    BY <2>3, <2>4, <2>6, <2>7, <2>8
<1> QED
  BY <1>2, <1>3, <1>4

(* A cell nothing is stored to keeps its number.                           *)
LEMMA CellUntouched ==
    ASSUME NEW code, IsCode(code), NEW st0, DOMAIN st0.reg = Regs, M \in Nat, N \in Nat,
           NEW n \in DOMAIN st0.mem, \A z \in 1 .. Len(code) : ~Stores(code[z], n)
    PROVE  Executed(code, st0).mem[n] = st0.mem[n]
BY WhatACellHolds

(* A cell whose last store had its number from A holds that cell of A.     *)
LEMMA CellFromA ==
    ASSUME NEW code, IsCode(code), NEW st0, DOMAIN st0.reg = Regs, M \in Nat, N \in Nat,
           NEW n \in DOMAIN st0.mem, NEW x, LastStore(code, n, x), NEW y, LastLoad(code, x, y),
           code[y].at.array = "A"
    PROVE  Executed(code, st0).mem[n] = code[y].at.cell
BY WhatACellHolds

(* A cell whose last store had its number from B holds what was there, if  *)
(* it was loaded before anything was stored to it.                         *)
LEMMA CellFromB ==
    ASSUME NEW code, IsCode(code), NEW st0, DOMAIN st0.reg = Regs, M \in Nat, N \in Nat,
           NEW n \in DOMAIN st0.mem, NEW x, LastStore(code, n, x), NEW y, LastLoad(code, x, y),
           code[y].at.array = "B", NEW m \in DOMAIN st0.mem, code[y].at.cell = m,
           \A z \in 1 .. y - 1 : ~Stores(code[z], m)
    PROVE  Executed(code, st0).mem[n] = st0.mem[m]
BY WhatACellHolds

(* Code keeps the cells there are, and stays inside if each access does.   *)
LEMMA ExecutedKeeps ==
    ASSUME NEW code, IsCode(code), NEW st0, DOMAIN st0.reg = Regs, M \in Nat, N \in Nat
    PROVE  LET E == Executed(code, st0) IN
           /\ DOMAIN E.mem = DOMAIN st0.mem
           /\ st0.missed \in Nat => E.missed \in Nat
           /\ ~st0.outside /\ (\A x \in 1 .. Len(code) : code[x].at.cell < M * N)
                => ~E.outside
<1>1. Len(code) \in Nat /\ Len(code) \in 0 .. Len(code)
  BY DEF IsCode
<1>2. PICK run : IsRun(run, code, st0)
  BY <1>1, RunExists
<1> DEFINE E == run[Len(code)]
<1>3. Executed(code, st0) = E
  BY <1>2 DEF IsRun
<1>4. /\ DOMAIN E.mem = DOMAIN st0.mem
      /\ st0.missed \in Nat => E.missed \in Nat
      /\ ~st0.outside /\ (\A x \in 1 .. Len(code) : code[x].at.cell < M * N) => ~E.outside
  BY <1>1, <1>2, RunKeeps
<1> QED
  BY <1>3, <1>4

(***************************************************************************)
(* Where the cells lie.  BCell(a, c) is column c of row a of B, and        *)
(* Want(a, c) the cell of A that belongs there.                            *)
(***************************************************************************)
BCell(a, c) == a * N + c
Want(a, c)  == c * M + a

InA(n) == [array |-> "A", cell |-> n]
InB(n) == [array |-> "B", cell |-> n]

(* The cells the code names by row and column, as numbers.                 *)
LEMMA CellsOfArrays ==
    ASSUME NEW row, NEW col
    PROVE  /\ Cell("A", row, col) = InA(Want(col, row))
           /\ Cell("B", row, col) = InB(BCell(row, col))
BY DEF Cell, InA, InB, Want, BCell

(* Cells are natural numbers.                                              *)
LEMMA CellTypes ==
    ASSUME M \in Nat, N \in Nat, NEW a \in Nat, NEW c \in Nat
    PROVE  BCell(a, c) \in Nat /\ Want(a, c) \in Nat
BY DEF BCell, Want

(* A row is long enough to keep cells of nearby columns apart.             *)
LEMMA CellsDiffer ==
    ASSUME N \in Nat, NEW a \in Nat, NEW c \in Nat, NEW a2 \in Nat, NEW c2 \in Nat,
           c - c2 < N, c2 - c < N, BCell(a, c) = BCell(a2, c2)
    PROVE  a = a2 /\ c = c2
<1>1. ASSUME NEW b \in Nat, NEW b2 \in Nat, b < b2 PROVE b * N + N <= b2 * N
  <2>1. N * (b + 1) <= N * b2
    BY <1>1, ProductGrows
  <2>2. N * (b + 1) = b * N + N /\ N * b2 = b2 * N
    OBVIOUS
  <2> QED
    BY <2>1, <2>2
<1> DEFINE x == a * N
           y == a2 * N
<1>2. x \in Nat /\ y \in Nat /\ x + c = y + c2
  BY DEF BCell
<1>3. a < a2 => x + N <= y
  BY <1>1
<1>4. a2 < a => y + N <= x
  BY <1>1
<1> HIDE DEF x, y
<1>5. ~(a < a2) /\ ~(a2 < a)
  BY <1>2, <1>3, <1>4
<1>6. a = a2
  BY <1>5
<1> QED
  BY <1>2, <1>6 DEF x, y

(* Rows and columns inside a matrix are cells of it; a row may overrun by  *)
(* seven.                                                                  *)
LEMMA CellsFit ==
    ASSUME M \in Nat, N \in Nat, NEW a \in Nat, a < M, NEW c \in Nat
    PROVE  /\ c < N => BCell(a, c) < M * N /\ Want(a, c) < M * N
           /\ c < N + 7 => BCell(a, c) \in 0 .. M * N + 7
<1> DEFINE x == a * N
           y == c * M
           z == M * N
<1>1. x \in Nat /\ y \in Nat /\ z \in Nat
  OBVIOUS
<1>2. x + N <= z
  <2>1. N * (a + 1) <= N * M
    BY ProductGrows
  <2>2. N * (a + 1) = x + N /\ N * M = z
    OBVIOUS
  <2> QED
    BY <2>1, <2>2
<1>3. c < N => y + M <= z
  <2>1. SUFFICES ASSUME c < N PROVE y + M <= z
    OBVIOUS
  <2>2. M * (c + 1) <= M * N
    BY <2>1, ProductGrows
  <2>3. M * (c + 1) = y + M
    OBVIOUS
  <2> QED
    BY <2>2, <2>3
<1>4. BCell(a, c) = x + c /\ Want(a, c) = y + a
  BY DEF BCell, Want
<1> HIDE DEF x, y, z
<1>5. /\ c < N => x + c < z /\ y + a < z
      /\ c < N + 7 => x + c \in 0 .. z + 7
  BY <1>1, <1>2, <1>3
<1> QED
  BY <1>4, <1>5 DEF z
-----------------------------------------------------------------------------
(***************************************************************************)
(* What each piece of code does to B.                                      *)
(***************************************************************************)
LEMMA CodeOf ==
    ASSUME NEW n \in Nat, NEW code \in [1 .. n -> Instr]
    PROVE  IsCode(code) /\ Len(code) = n
<1>1. Len(code) = n
  OBVIOUS
<1> QED
  BY <1>1 DEF IsCode

(* What loads and stores touch.                                            *)
LEMMA Instructions ==
    ASSUME NEW r \in Regs, NEW n \in Nat
    PROVE  /\ Load(r, InA(n)) \in Instr /\ Load(r, InB(n)) \in Instr
           /\ Store(r, InB(n)) \in Instr
           /\ \A m : ~Stores(Load(r, InA(n)), m) /\ ~Stores(Load(r, InB(n)), m)
           /\ \A m : Stores(Store(r, InB(n)), m) <=> m = n
           /\ \A q : Loads(Load(r, InA(n)), q) <=> q = r
           /\ \A q : Loads(Load(r, InB(n)), q) <=> q = r
           /\ \A q : ~Loads(Store(r, InB(n)), q)
           /\ Load(r, InA(n)).at = InA(n) /\ Load(r, InB(n)).at = InB(n)
           /\ Store(r, InB(n)).at = InB(n) /\ Store(r, InB(n)).reg = r
           /\ InA(n).array = "A" /\ InA(n).cell = n /\ InB(n).array = "B" /\ InB(n).cell = n
BY DEF Load, Store, InA, InB, Instr, Stores, Loads

(* Eight loads from A, and eight stores of what was loaded.                *)
EightMoves(code, from, to) ==
    /\ code \in [1 .. 16 -> Instr]
    /\ \A c \in 0 .. 7 : from[c] \in Nat /\ to[c] \in Nat
    /\ \A c \in 0 .. 7 : code[c + 1] = Load(c, InA(from[c])) /\ code[c + 9] = Store(c, InB(to[c]))

(* Eight loads from A and eight stores to B, if to different cells, move   *)
(* eight numbers.                                                          *)
LEMMA EightMovesEffect ==
    ASSUME M \in Nat, N \in Nat, NEW code, NEW from, NEW to, EightMoves(code, from, to),
           NEW st0, DOMAIN st0.reg = Regs,
           \A c \in 0 .. 7 : to[c] \in DOMAIN st0.mem,
           \A c, c2 \in 0 .. 7 : to[c] = to[c2] => c = c2
    PROVE  LET E == Executed(code, st0) IN
           /\ \A c \in 0 .. 7 : E.mem[to[c]] = from[c]
           /\ \A n \in DOMAIN st0.mem : (\A c \in 0 .. 7 : n # to[c]) => E.mem[n] = st0.mem[n]
<1>1. IsCode(code) /\ Len(code) = 16
  BY CodeOf DEF EightMoves
<1>2. \A c \in 0 .. 7 :
        /\ c + 1 \in 1 .. 16 /\ c + 9 \in 1 .. 16 /\ c \in Regs
        /\ from[c] \in Nat /\ to[c] \in Nat
        /\ code[c + 1] = Load(c, InA(from[c])) /\ code[c + 9] = Store(c, InB(to[c]))
  BY DEF EightMoves, Regs
<1>3. \A x \in 1 .. 16 : \E c \in 0 .. 7 : x = c + 1 \/ x = c + 9
  <2>1. \A x \in 1 .. 8 : x - 1 \in 0 .. 7 /\ x = (x - 1) + 1
    OBVIOUS
  <2>2. \A x \in 9 .. 16 : x - 9 \in 0 .. 7 /\ x = (x - 9) + 9
    OBVIOUS
  <2>3. \A x \in 1 .. 16 : x \in 1 .. 8 \/ x \in 9 .. 16
    OBVIOUS
  <2> QED
    BY <2>1, <2>2, <2>3
<1>4. ASSUME NEW c \in 0 .. 7
      PROVE  /\ \A m : Stores(code[c + 9], m) <=> m = to[c]
             /\ \A m : ~Stores(code[c + 1], m)
             /\ \A q : Loads(code[c + 1], q) <=> q = c
             /\ \A q : ~Loads(code[c + 9], q)
             /\ code[c + 9].reg = c
             /\ code[c + 1].at.array = "A" /\ code[c + 1].at.cell = from[c]
  <2> DEFINE f == from[c]
             t == to[c]
  <2>1. c \in Regs /\ f \in Nat /\ t \in Nat
    BY <1>2
  <2>2. code[c + 1] = Load(c, InA(f)) /\ code[c + 9] = Store(c, InB(t))
    BY <1>2
  <2> HIDE DEF f, t
  <2>3. /\ \A m : ~Stores(Load(c, InA(f)), m)
        /\ \A q : Loads(Load(c, InA(f)), q) <=> q = c
        /\ Load(c, InA(f)).at = InA(f) /\ InA(f).array = "A" /\ InA(f).cell = f
    BY <2>1, Instructions
  <2>4. /\ \A m : Stores(Store(c, InB(t)), m) <=> m = t
        /\ \A q : ~Loads(Store(c, InB(t)), q)
        /\ Store(c, InB(t)).reg = c
    BY <2>1, Instructions
  <2> QED
    BY <2>2, <2>3, <2>4 DEF f, t
<1> DEFINE E == Executed(code, st0)
<1>9. ASSUME NEW c \in 0 .. 7 PROVE E.mem[to[c]] = from[c]
  <2>1. LastStore(code, to[c], c + 9)
    <3>1. ASSUME NEW z \in c + 10 .. 16 PROVE ~Stores(code[z], to[c])
      <4>1. z - 9 \in 0 .. 7 /\ z - 9 # c /\ (z - 9) + 9 = z
        BY <3>1
      <4>2. Stores(code[z], to[c]) <=> to[c] = to[z - 9]
        BY <1>4, <4>1
      <4> QED
        BY <4>1, <4>2
    <3>2. (c + 9) + 1 = c + 10
      OBVIOUS
    <3> QED
      BY <1>1, <1>2, <1>4, <3>1, <3>2 DEF LastStore
  <2>2. LastLoad(code, c + 9, c + 1)
    <3>1. ASSUME NEW z \in c + 2 .. c + 8 PROVE ~Loads(code[z], c)
      <4>1. PICK c2 \in 0 .. 7 : z = c2 + 1 \/ z = c2 + 9
        <5>1. z \in 1 .. 16
          OBVIOUS
        <5> QED
          BY <1>3, <5>1
      <4>2. z = c2 + 1 => c2 # c
        OBVIOUS
      <4> QED
        BY <1>4, <4>1, <4>2
    <3>2. (c + 9) - 1 = c + 8 /\ (c + 1) + 1 = c + 2 /\ c + 1 \in 1 .. c + 8
      OBVIOUS
    <3> QED
      BY <1>4, <3>1, <3>2 DEF LastLoad
  <2> QED
    BY <1>1, <1>4, <2>1, <2>2, CellFromA
<1>10. ASSUME NEW n \in DOMAIN st0.mem, \A c \in 0 .. 7 : n # to[c]
       PROVE  E.mem[n] = st0.mem[n]
  <2>1. \A z \in 1 .. Len(code) : ~Stores(code[z], n)
    BY <1>1, <1>3, <1>4, <1>10
  <2>2. IsCode(code)
    BY <1>1
  <2> HIDE DEF E
  <2>3. Executed(code, st0).mem[n] = st0.mem[n]
    BY <2>1, <2>2, CellUntouched
  <2> QED
    BY <2>3 DEF E
<1> QED
  BY <1>9, <1>10

(* The sixteen places of such a piece of code are enough to know it.       *)
LEMMA EightMovesByPlace ==
    ASSUME NEW code, NEW from, NEW to, code = [x \in 1 .. 16 |-> code[x]],
           \A c \in 0 .. 7 : from[c] \in Nat /\ to[c] \in Nat,
           \A x \in 1 .. 8  : code[x] = Load(x - 1, InA(from[x - 1])),
           \A x \in 9 .. 16 : code[x] = Store(x - 9, InB(to[x - 9]))
    PROVE  EightMoves(code, from, to)
<1>1. ASSUME NEW x \in 1 .. 8 PROVE code[x] \in Instr
  <2>1. x - 1 \in 0 .. 7 /\ x - 1 \in Regs
    BY DEF Regs
  <2> QED
    BY <2>1, Instructions
<1>2. ASSUME NEW x \in 9 .. 16 PROVE code[x] \in Instr
  <2>1. x - 9 \in 0 .. 7 /\ x - 9 \in Regs
    BY DEF Regs
  <2> QED
    BY <2>1, Instructions
<1>3. \A x \in 1 .. 16 : x \in 1 .. 8 \/ x \in 9 .. 16
  OBVIOUS
<1>4. code \in [1 .. 16 -> Instr]
  BY <1>1, <1>2, <1>3
<1>5. ASSUME NEW c \in 0 .. 7
      PROVE  code[c + 1] = Load(c, InA(from[c])) /\ code[c + 9] = Store(c, InB(to[c]))
  <2>1. c + 1 \in 1 .. 8 /\ (c + 1) - 1 = c /\ c + 9 \in 9 .. 16 /\ (c + 9) - 9 = c
    OBVIOUS
  <2> QED
    BY <2>1
<1> QED
  BY <1>4, <1>5 DEF EightMoves

(* The rows of width 32 are copied by eight moves.                         *)
LEMMA RowToRowCode ==
    ASSUME M \in Nat, N \in Nat, NEW row \in Nat, NEW col \in Nat,
           NEW brow \in Nat, NEW bcol \in Nat
    PROVE  EightMoves(RowToRow(row, col, brow, bcol),
                      [c \in 0 .. 7 |-> Want(col + c, row)], [c \in 0 .. 7 |-> BCell(brow, bcol + c)])
<1> DEFINE code == RowToRow(row, col, brow, bcol)
           from == [c \in 0 .. 7 |-> Want(col + c, row)]
           to   == [c \in 0 .. 7 |-> BCell(brow, bcol + c)]
<1>1. ASSUME NEW c \in 0 .. 7 PROVE from[c] \in Nat /\ to[c] \in Nat
  <2>1. col + c \in Nat /\ bcol + c \in Nat
    OBVIOUS
  <2> QED
    BY <2>1, CellTypes
<1>2. code = [x \in 1 .. 16 |-> IF x <= 8 THEN Load(x - 1, Cell("A", row, col + x - 1))
                                ELSE Store(x - 9, Cell("B", brow, bcol + x - 9))]
  BY DEF RowToRow
<1>3. ASSUME NEW x \in 1 .. 8 PROVE code[x] = Load(x - 1, InA(from[x - 1]))
  <2>1. x \in 1 .. 16 /\ x <= 8 /\ x - 1 \in 0 .. 7 /\ col + x - 1 = col + (x - 1)
    OBVIOUS
  <2>2. code[x] = Load(x - 1, Cell("A", row, col + x - 1))
    BY <1>2, <2>1
  <2> QED
    BY <2>1, <2>2, CellsOfArrays
<1>4. ASSUME NEW x \in 9 .. 16 PROVE code[x] = Store(x - 9, InB(to[x - 9]))
  <2>1. x \in 1 .. 16 /\ ~(x <= 8) /\ x - 9 \in 0 .. 7 /\ bcol + x - 9 = bcol + (x - 9)
    OBVIOUS
  <2>2. code[x] = Store(x - 9, Cell("B", brow, bcol + x - 9))
    BY <1>2, <2>1
  <2> QED
    BY <2>1, <2>2, CellsOfArrays
<1>5. code = [x \in 1 .. 16 |-> code[x]]
  BY <1>2
<1> HIDE DEF code, from, to
<1>6. EightMoves(code, from, to)
  BY <1>1, <1>3, <1>4, <1>5, EightMovesByPlace
<1> QED
  BY <1>6 DEF code, from, to

(* A whole block of width 61 takes eight moves to a row of B.              *)
LEMMA ColumnToRowCode ==
    ASSUME M \in Nat, N \in Nat, NEW row \in Nat, NEW col \in Nat
    PROVE  EightMoves(ColumnToRow(row, col),
                      [c \in 0 .. 7 |-> Want(col, row + c)], [c \in 0 .. 7 |-> BCell(col, row + c)])
<1> DEFINE code == ColumnToRow(row, col)
           from == [c \in 0 .. 7 |-> Want(col, row + c)]
           to   == [c \in 0 .. 7 |-> BCell(col, row + c)]
<1>1. ASSUME NEW c \in 0 .. 7 PROVE from[c] \in Nat /\ to[c] \in Nat
  <2>1. row + c \in Nat
    OBVIOUS
  <2> QED
    BY <2>1, CellTypes
<1>2. code = [x \in 1 .. 16 |-> IF x <= 8 THEN Load(x - 1, Cell("A", row + x - 1, col))
                                ELSE Store(x - 9, Cell("B", col, row + x - 9))]
  BY DEF ColumnToRow
<1>3. ASSUME NEW x \in 1 .. 8 PROVE code[x] = Load(x - 1, InA(from[x - 1]))
  <2>1. x \in 1 .. 16 /\ x <= 8 /\ x - 1 \in 0 .. 7 /\ row + x - 1 = row + (x - 1)
    OBVIOUS
  <2>2. code[x] = Load(x - 1, Cell("A", row + x - 1, col))
    BY <1>2, <2>1
  <2> QED
    BY <2>1, <2>2, CellsOfArrays
<1>4. ASSUME NEW x \in 9 .. 16 PROVE code[x] = Store(x - 9, InB(to[x - 9]))
  <2>1. x \in 1 .. 16 /\ ~(x <= 8) /\ x - 9 \in 0 .. 7 /\ row + x - 9 = row + (x - 9)
    OBVIOUS
  <2>2. code[x] = Store(x - 9, Cell("B", col, row + x - 9))
    BY <1>2, <2>1
  <2> QED
    BY <2>1, <2>2, CellsOfArrays
<1>5. code = [x \in 1 .. 16 |-> code[x]]
  BY <1>2
<1> HIDE DEF code, from, to
<1>6. EightMoves(code, from, to)
  BY <1>1, <1>3, <1>4, <1>5, EightMovesByPlace
<1> QED
  BY <1>6 DEF code, from, to

(* Where top64 puts register c: the right half of a row of A waits to the  *)
(* right of the left half.                                                 *)
TopRow(c) == j + (c % 4)
TopCol(d, c) == i + d + IF c < 4 THEN 0 ELSE 4

(* The upper half of a block of width 64 takes eight moves to a row of A.  *)
LEMMA Top64Code ==
    ASSUME M \in Nat, N \in Nat, i \in Nat, j \in Nat, NEW d \in Nat
    PROVE  EightMoves(top64(d), [c \in 0 .. 7 |-> Want(j + c, i + d)],
                      [c \in 0 .. 7 |-> BCell(TopRow(c), TopCol(d, c))])
<1> DEFINE code == top64(d)
           from == [c \in 0 .. 7 |-> Want(j + c, i + d)]
           to   == [c \in 0 .. 7 |-> BCell(TopRow(c), TopCol(d, c))]
<1>0. \A c \in 0 .. 7 : c % 4 \in 0 .. 3 /\ TopRow(c) \in Nat /\ TopCol(d, c) \in Nat
  BY DEF TopRow, TopCol
<1>1. ASSUME NEW c \in 0 .. 7 PROVE from[c] \in Nat /\ to[c] \in Nat
  <2>1. j + c \in Nat /\ i + d \in Nat /\ TopRow(c) \in Nat /\ TopCol(d, c) \in Nat
    BY <1>0
  <2> QED
    BY <2>1, CellTypes
<1>2. code = [x \in 1 .. 16 |->
               IF x <= 8 THEN Load(x - 1, Cell("A", d + i, j + x - 1))
               ELSE LET r == x - 9
                    IN  Store(r, Cell("B", j + (r % 4), d + i + IF r < 4 THEN 0 ELSE 4))]
  BY DEF top64
<1>3. ASSUME NEW x \in 1 .. 8 PROVE code[x] = Load(x - 1, InA(from[x - 1]))
  <2>1. x \in 1 .. 16 /\ x <= 8 /\ x - 1 \in 0 .. 7 /\ j + x - 1 = j + (x - 1) /\ d + i = i + d
    OBVIOUS
  <2>2. code[x] = Load(x - 1, Cell("A", d + i, j + x - 1))
    BY <1>2, <2>1
  <2> QED
    BY <2>1, <2>2, CellsOfArrays
<1>4. ASSUME NEW x \in 9 .. 16 PROVE code[x] = Store(x - 9, InB(to[x - 9]))
  <2> DEFINE c == x - 9
  <2>1. x \in 1 .. 16 /\ ~(x <= 8) /\ c \in 0 .. 7 /\ d + i = i + d
    OBVIOUS
  <2>2. code[x] = Store(c, Cell("B", j + (c % 4), d + i + IF c < 4 THEN 0 ELSE 4))
    BY <1>2, <2>1
  <2>3. code[x] = Store(c, Cell("B", TopRow(c), TopCol(d, c)))
    BY <2>1, <2>2 DEF TopRow, TopCol
  <2> HIDE DEF c
  <2>4. code[x] = Store(c, InB(BCell(TopRow(c), TopCol(d, c))))
    BY <2>3, CellsOfArrays
  <2>5. to[c] = BCell(TopRow(c), TopCol(d, c))
    BY <2>1
  <2> QED
    BY <2>4, <2>5 DEF c
<1>5. code = [x \in 1 .. 16 |-> code[x]]
  BY <1>2
<1> HIDE DEF code, from, to
<1>6. EightMoves(code, from, to)
  BY <1>1, <1>3, <1>4, <1>5, EightMovesByPlace
<1> QED
  BY <1>6 DEF code, from, to

(* Pairs of cells of B that change places, one pair after the other.       *)
Swaps(code, n, above, below) ==
    /\ code \in [1 .. 4 * n -> Instr]
    /\ \A q \in 0 .. n - 1 :
         /\ above[q] \in Nat /\ below[q] \in Nat
         /\ code[4 * q + 1] = Load(0, InB(above[q]))
         /\ code[4 * q + 2] = Load(1, InB(below[q]))
         /\ code[4 * q + 3] = Store(1, InB(above[q]))
         /\ code[4 * q + 4] = Store(0, InB(below[q]))

Apart(n, above, below) ==
    \A q, q2 \in 0 .. n - 1 : /\ above[q] # below[q2]
                              /\ above[q] = above[q2] => q = q2
                              /\ below[q] = below[q2] => q = q2

Within(n, cells, D) == \A q \in 0 .. n - 1 : cells[q] \in D

Swapped(n, above, below, old, new) ==
    /\ \A q \in 0 .. n - 1 : new[above[q]] = old[below[q]] /\ new[below[q]] = old[above[q]]
    /\ \A m \in DOMAIN old :
         (\A q \in 0 .. n - 1 : m # above[q] /\ m # below[q]) => new[m] = old[m]

(* A place in groups of four.                                              *)
LEMMA QuarterOf ==
    ASSUME NEW n \in Nat, NEW x \in 1 .. 4 * n
    PROVE  \E q \in 0 .. n - 1 : \/ x = 4 * q + 1 \/ x = 4 * q + 2
                                 \/ x = 4 * q + 3 \/ x = 4 * q + 4
<1> DEFINE q == (x - 1) \div 4
           p == (x - 1) % 4
<1>1. x - 1 = 4 * q + p /\ p \in 0 .. 3 /\ q \in Int
  OBVIOUS
<1> HIDE DEF q, p
<1>2. q \in 0 .. n - 1
  BY <1>1
<1>3. x = 4 * q + 1 \/ x = 4 * q + 2 \/ x = 4 * q + 3 \/ x = 4 * q + 4
  BY <1>1
<1> QED
  BY <1>2, <1>3

(* Cells that are apart are exchanged, pair by pair.                       *)
LEMMA SwapsEffect ==
    ASSUME M \in Nat, N \in Nat, NEW code, NEW n \in Nat, NEW above, NEW below,
           Swaps(code, n, above, below), NEW st0, DOMAIN st0.reg = Regs,
           Within(n, above, DOMAIN st0.mem), Within(n, below, DOMAIN st0.mem),
           Apart(n, above, below)
    PROVE  Swapped(n, above, below, st0.mem, Executed(code, st0).mem)
<1> USE DEF Apart, Within
<1>1. IsCode(code) /\ Len(code) = 4 * n
  <2>1. 4 * n \in Nat
    OBVIOUS
  <2> QED
    BY <2>1, CodeOf DEF Swaps
<1>2. ASSUME NEW q \in 0 .. n - 1
      PROVE  /\ above[q] \in Nat /\ below[q] \in Nat
             /\ code[4 * q + 1] = Load(0, InB(above[q]))
             /\ code[4 * q + 2] = Load(1, InB(below[q]))
             /\ code[4 * q + 3] = Store(1, InB(above[q]))
             /\ code[4 * q + 4] = Store(0, InB(below[q]))
  BY DEF Swaps
<1>3. ASSUME NEW q \in 0 .. n - 1
      PROVE  /\ \A m : ~Stores(code[4 * q + 1], m) /\ ~Stores(code[4 * q + 2], m)
             /\ \A m : Stores(code[4 * q + 3], m) <=> m = above[q]
             /\ \A m : Stores(code[4 * q + 4], m) <=> m = below[q]
             /\ \A r : Loads(code[4 * q + 1], r) <=> r = 0
             /\ \A r : Loads(code[4 * q + 2], r) <=> r = 1
             /\ \A r : ~Loads(code[4 * q + 3], r)
             /\ code[4 * q + 3].reg = 1 /\ code[4 * q + 4].reg = 0
             /\ code[4 * q + 1].at.array = "B" /\ code[4 * q + 1].at.cell = above[q]
             /\ code[4 * q + 2].at.array = "B" /\ code[4 * q + 2].at.cell = below[q]
  <2> DEFINE a == above[q]
             b == below[q]
             i1 == code[4 * q + 1]
             i2 == code[4 * q + 2]
             i3 == code[4 * q + 3]
             i4 == code[4 * q + 4]
  <2>1. a \in Nat /\ b \in Nat /\ 0 \in Regs /\ 1 \in Regs
    BY <1>2 DEF Regs
  <2>2. i1 = Load(0, InB(a)) /\ i2 = Load(1, InB(b)) /\ i3 = Store(1, InB(a))
        /\ i4 = Store(0, InB(b))
    BY <1>2
  <2> HIDE DEF a, b, i1, i2, i3, i4
  <2>3. /\ \A m : ~Stores(Load(0, InB(a)), m)
        /\ \A r : Loads(Load(0, InB(a)), r) <=> r = 0
        /\ Load(0, InB(a)).at = InB(a) /\ InB(a).array = "B" /\ InB(a).cell = a
    BY <2>1, Instructions
  <2>4. /\ \A m : ~Stores(Load(1, InB(b)), m)
        /\ \A r : Loads(Load(1, InB(b)), r) <=> r = 1
        /\ Load(1, InB(b)).at = InB(b) /\ InB(b).array = "B" /\ InB(b).cell = b
    BY <2>1, Instructions
  <2>5. /\ \A m : Stores(Store(1, InB(a)), m) <=> m = a
        /\ \A r : ~Loads(Store(1, InB(a)), r)
        /\ Store(1, InB(a)).reg = 1
    BY <2>1, Instructions
  <2>6. /\ \A m : Stores(Store(0, InB(b)), m) <=> m = b
        /\ Store(0, InB(b)).reg = 0
    BY <2>1, Instructions
  <2>7. /\ \A m : ~Stores(i1, m) /\ ~Stores(i2, m)
        /\ \A m : Stores(i3, m) <=> m = a
        /\ \A m : Stores(i4, m) <=> m = b
        /\ \A r : Loads(i1, r) <=> r = 0
        /\ \A r : Loads(i2, r) <=> r = 1
        /\ \A r : ~Loads(i3, r)
        /\ i3.reg = 1 /\ i4.reg = 0
        /\ i1.at.array = "B" /\ i1.at.cell = a /\ i2.at.array = "B" /\ i2.at.cell = b
    BY <2>2, <2>3, <2>4, <2>5, <2>6
  <2> QED
    BY <2>7 DEF a, b, i1, i2, i3, i4
<1>4. ASSUME NEW z \in 1 .. 4 * n, NEW m, Stores(code[z], m)
      PROVE  \E q \in 0 .. n - 1 : \/ z = 4 * q + 3 /\ m = above[q]
                                   \/ z = 4 * q + 4 /\ m = below[q]
  <2>1. PICK q \in 0 .. n - 1 : z = 4 * q + 1 \/ z = 4 * q + 2 \/ z = 4 * q + 3 \/ z = 4 * q + 4
    BY QuarterOf
  <2> QED
    BY <1>3, <1>4, <2>1
<1> DEFINE E == Executed(code, st0)
<1>5. ASSUME NEW q \in 0 .. n - 1 PROVE E.mem[above[q]] = st0.mem[below[q]]
  <2> DEFINE x == 4 * q + 3
             y == 4 * q + 2
  <2>1. /\ x \in 1 .. 4 * n /\ y \in 1 .. x - 1 /\ x \in Nat /\ y \in Nat
        /\ \A q2 \in 0 .. n - 1 : 4 * q2 + 3 >= x + 1 => q2 # q
        /\ \A q2 \in 0 .. n - 1 : 4 * q2 + 4 <= y - 1 => q2 # q
        /\ y + 1 .. x - 1 = {}
    OBVIOUS
  <2>2. /\ Stores(code[x], above[q]) /\ code[x].reg = 1 /\ Loads(code[y], 1)
        /\ code[y].at.array = "B" /\ code[y].at.cell = below[q]
    BY <1>3
  <2> HIDE DEF x, y
  <2>3. LastStore(code, above[q], x)
    <3>1. ASSUME NEW z \in x + 1 .. 4 * n, Stores(code[z], above[q]) PROVE FALSE
      <4>1. z \in 1 .. 4 * n /\ z >= x + 1
        BY <2>1
      <4>2. PICK q2 \in 0 .. n - 1 : \/ z = 4 * q2 + 3 /\ above[q] = above[q2]
                                     \/ z = 4 * q2 + 4 /\ above[q] = below[q2]
        BY <1>4, <3>1, <4>1
      <4> QED
        BY <2>1, <4>1, <4>2
    <3> QED
      BY <1>1, <2>1, <2>2, <3>1 DEF LastStore
  <2>4. LastLoad(code, x, y)
    BY <2>1, <2>2 DEF LastLoad
  <2>5. ASSUME NEW z \in 1 .. y - 1, Stores(code[z], below[q]) PROVE FALSE
    <3>1. z \in 1 .. 4 * n /\ z <= y - 1
      BY <2>1
    <3>2. PICK q2 \in 0 .. n - 1 : \/ z = 4 * q2 + 3 /\ below[q] = above[q2]
                                   \/ z = 4 * q2 + 4 /\ below[q] = below[q2]
      BY <1>4, <2>5, <3>1
    <3> QED
      BY <2>1, <3>1, <3>2
  <2>6. IsCode(code)
    BY <1>1
  <2> QED
    BY <2>2, <2>3, <2>4, <2>5, <2>6, CellFromB
<1>6. ASSUME NEW q \in 0 .. n - 1 PROVE E.mem[below[q]] = st0.mem[above[q]]
  <2> DEFINE x == 4 * q + 4
             y == 4 * q + 1
  <2>1. /\ x \in 1 .. 4 * n /\ y \in 1 .. x - 1 /\ x \in Nat /\ y \in Nat
        /\ \A q2 \in 0 .. n - 1 : 4 * q2 + 4 >= x + 1 => q2 # q
        /\ \A q2 \in 0 .. n - 1 : 4 * q2 + 3 <= y - 1 => q2 # q
        /\ \A z \in y + 1 .. x - 1 : z = 4 * q + 2 \/ z = 4 * q + 3
    OBVIOUS
  <2>2. /\ Stores(code[x], below[q]) /\ code[x].reg = 0 /\ Loads(code[y], 0)
        /\ code[y].at.array = "B" /\ code[y].at.cell = above[q]
        /\ ~Loads(code[4 * q + 2], 0) /\ ~Loads(code[4 * q + 3], 0)
    BY <1>3
  <2> HIDE DEF x, y
  <2>3. LastStore(code, below[q], x)
    <3>1. ASSUME NEW z \in x + 1 .. 4 * n, Stores(code[z], below[q]) PROVE FALSE
      <4>1. z \in 1 .. 4 * n /\ z >= x + 1
        BY <2>1
      <4>2. PICK q2 \in 0 .. n - 1 : \/ z = 4 * q2 + 3 /\ below[q] = above[q2]
                                     \/ z = 4 * q2 + 4 /\ below[q] = below[q2]
        BY <1>4, <3>1, <4>1
      <4> QED
        BY <2>1, <4>1, <4>2
    <3> QED
      BY <1>1, <2>1, <2>2, <3>1 DEF LastStore
  <2>4. LastLoad(code, x, y)
    BY <2>1, <2>2 DEF LastLoad
  <2>5. ASSUME NEW z \in 1 .. y - 1, Stores(code[z], above[q]) PROVE FALSE
    <3>1. z \in 1 .. 4 * n /\ z <= y - 1
      BY <2>1
    <3>2. PICK q2 \in 0 .. n - 1 : \/ z = 4 * q2 + 3 /\ above[q] = above[q2]
                                   \/ z = 4 * q2 + 4 /\ above[q] = below[q2]
      BY <1>4, <2>5, <3>1
    <3> QED
      BY <2>1, <3>1, <3>2
  <2>6. IsCode(code)
    BY <1>1
  <2> QED
    BY <2>2, <2>3, <2>4, <2>5, <2>6, CellFromB
<1>7. ASSUME NEW m \in DOMAIN st0.mem, \A q \in 0 .. n - 1 : m # above[q] /\ m # below[q]
      PROVE  E.mem[m] = st0.mem[m]
  <2>1. \A z \in 1 .. Len(code) : ~Stores(code[z], m)
    BY <1>1, <1>4, <1>7
  <2>2. IsCode(code)
    BY <1>1
  <2> HIDE DEF E
  <2>3. Executed(code, st0).mem[m] = st0.mem[m]
    BY <2>1, <2>2, CellUntouched
  <2> QED
    BY <2>3 DEF E
<1> QED
  BY <1>5, <1>6, <1>7 DEF Swapped

(* The second loop of width 32 exchanges row and column of the block.      *)
LEMMA Swap32Code ==
    ASSUME M \in Nat, N \in Nat, i \in Nat, j \in Nat, NEW d \in 0 .. 7
    PROVE  Swaps(swap32(d), 7 - d, [q \in 0 .. 6 - d |-> BCell(j + d, i + (d + 1 + q))],
                                   [q \in 0 .. 6 - d |-> BCell(j + (d + 1 + q), i + d)])
<1> DEFINE n     == 7 - d
           Above(s) == Cell("B", d + j, s + i)
           Below(s) == Cell("B", s + j, d + i)
           Quad(s)  == <<Load(0, Above(s)), Load(1, Below(s)), Store(1, Above(s)), Store(0, Below(s))>>
           code  == swap32(d)
           above == [q \in 0 .. 6 - d |-> BCell(j + d, i + (d + 1 + q))]
           below == [q \in 0 .. 6 - d |-> BCell(j + (d + 1 + q), i + d)]
<1>1. code = [x \in 1 .. 4 * n |-> Quad(d + 1 + (x - 1) \div 4)[1 + ((x - 1) % 4)]]
  BY DEF swap32
<1>2. ASSUME NEW q \in 0 .. n - 1
      PROVE  /\ above[q] \in Nat /\ below[q] \in Nat
             /\ Above(d + 1 + q) = InB(above[q]) /\ Below(d + 1 + q) = InB(below[q])
  <2>1. /\ j + d \in Nat /\ i + d \in Nat /\ i + (d + 1 + q) \in Nat /\ j + (d + 1 + q) \in Nat
        /\ d + j = j + d /\ d + i = i + d /\ q \in 0 .. 6 - d
        /\ (d + 1 + q) + i = i + (d + 1 + q) /\ (d + 1 + q) + j = j + (d + 1 + q)
    OBVIOUS
  <2>2. above[q] = BCell(j + d, i + (d + 1 + q)) /\ below[q] = BCell(j + (d + 1 + q), i + d)
    BY <2>1
  <2> HIDE DEF above, below
  <2>3. above[q] \in Nat /\ below[q] \in Nat
    BY <2>1, <2>2, CellTypes
  <2>4. /\ Above(d + 1 + q) = InB(BCell(j + d, i + (d + 1 + q)))
        /\ Below(d + 1 + q) = InB(BCell(j + (d + 1 + q), i + d))
    BY <2>1, CellsOfArrays
  <2> QED
    BY <2>2, <2>3, <2>4
<1> HIDE DEF code, above, below, Above, Below
<1>3. ASSUME NEW q \in 0 .. n - 1
      PROVE  /\ code[4 * q + 1] = Load(0, InB(above[q]))
             /\ code[4 * q + 2] = Load(1, InB(below[q]))
             /\ code[4 * q + 3] = Store(1, InB(above[q]))
             /\ code[4 * q + 4] = Store(0, InB(below[q]))
  <2>1. ASSUME NEW p \in 0 .. 3 PROVE code[4 * q + (p + 1)] = Quad(d + 1 + q)[1 + p]
    <3> DEFINE x == 4 * q + (p + 1)
    <3>1. x \in 1 .. 4 * n /\ x - 1 = 4 * q + p /\ x - 1 \in Int /\ q \in Int /\ 4 \in Nat \ {0}
          /\ p \in 0 .. 4 - 1
      OBVIOUS
    <3> HIDE DEF x
    <3>2. q = (x - 1) \div 4 /\ p = (x - 1) % 4
      BY <3>1, DivModUnique
    <3>3. code[x] = Quad(d + 1 + (x - 1) \div 4)[1 + ((x - 1) % 4)]
      BY <1>1, <3>1
    <3> HIDE DEF Quad
    <3>4. code[x] = Quad(d + 1 + q)[1 + p]
      BY <3>2, <3>3
    <3> QED
      BY <3>4 DEF x
  <2> DEFINE quad == Quad(d + 1 + q)
  <2>2. /\ quad[1 + 0] = Load(0, InB(above[q])) /\ quad[1 + 1] = Load(1, InB(below[q]))
        /\ quad[1 + 2] = Store(1, InB(above[q])) /\ quad[1 + 3] = Store(0, InB(below[q]))
    BY <1>2
  <2> HIDE DEF Quad
  <2>3. /\ code[4 * q + (0 + 1)] = quad[1 + 0] /\ code[4 * q + (1 + 1)] = quad[1 + 1]
        /\ code[4 * q + (2 + 1)] = quad[1 + 2] /\ code[4 * q + (3 + 1)] = quad[1 + 3]
    BY <2>1
  <2> HIDE DEF quad
  <2>4. 0 + 1 = 1 /\ 1 + 1 = 2 /\ 2 + 1 = 3 /\ 3 + 1 = 4
    OBVIOUS
  <2> QED
    BY <2>2, <2>3, <2>4
<1>4. code \in [1 .. 4 * n -> Instr]
  <2>1. ASSUME NEW x \in 1 .. 4 * n PROVE code[x] \in Instr
    <3>1. n \in Nat
      OBVIOUS
    <3>2. PICK q \in 0 .. n - 1 : x = 4 * q + 1 \/ x = 4 * q + 2 \/ x = 4 * q + 3 \/ x = 4 * q + 4
      BY <3>1, QuarterOf
    <3>3. above[q] \in Nat /\ below[q] \in Nat /\ 0 \in Regs /\ 1 \in Regs
      BY <1>2 DEF Regs
    <3>4. /\ code[4 * q + 1] \in Instr /\ code[4 * q + 2] \in Instr
          /\ code[4 * q + 3] \in Instr /\ code[4 * q + 4] \in Instr
      BY <1>3, <3>3, Instructions
    <3> QED
      BY <3>2, <3>4
  <2>2. code = [x \in 1 .. 4 * n |-> code[x]]
    BY <1>1
  <2> QED
    BY <2>1, <2>2
<1>5. n \in Nat /\ n - 1 = 6 - d
  OBVIOUS
<1>6. Swaps(code, n, above, below)
  BY <1>2, <1>3, <1>4 DEF Swaps
<1> QED
  BY <1>6 DEF code, above, below

(* Cells of A that are copied one after the other.                         *)
Copies(code, n, from, to) ==
    /\ code \in [1 .. 2 * n -> Instr]
    /\ \A q \in 0 .. n - 1 : /\ from[q] \in Nat /\ to[q] \in Nat
                             /\ code[2 * q + 1] = Load(0, InA(from[q]))
                             /\ code[2 * q + 2] = Store(0, InB(to[q]))

(* A place in groups of two.                                               *)
LEMMA HalfOf ==
    ASSUME NEW n \in Nat, NEW x \in 1 .. 2 * n
    PROVE  \E q \in 0 .. n - 1 : x = 2 * q + 1 \/ x = 2 * q + 2
<1> DEFINE q == (x - 1) \div 2
           p == (x - 1) % 2
<1>1. x - 1 = 2 * q + p /\ p \in 0 .. 1 /\ q \in Int
  OBVIOUS
<1> HIDE DEF q, p
<1>2. q \in 0 .. n - 1
  BY <1>1
<1>3. x = 2 * q + 1 \/ x = 2 * q + 2
  BY <1>1
<1> QED
  BY <1>2, <1>3

(* Numbers that go one by one to different cells arrive.                   *)
LEMMA CopiesEffect ==
    ASSUME M \in Nat, N \in Nat, NEW code, NEW n \in Nat, NEW from, NEW to,
           Copies(code, n, from, to), NEW st0, DOMAIN st0.reg = Regs,
           \A q \in 0 .. n - 1 : to[q] \in DOMAIN st0.mem,
           \A q, q2 \in 0 .. n - 1 : to[q] = to[q2] => q = q2
    PROVE  LET E == Executed(code, st0) IN
           /\ \A q \in 0 .. n - 1 : E.mem[to[q]] = from[q]
           /\ \A m \in DOMAIN st0.mem : (\A q \in 0 .. n - 1 : m # to[q]) => E.mem[m] = st0.mem[m]
<1>1. IsCode(code) /\ Len(code) = 2 * n
  <2>1. 2 * n \in Nat
    OBVIOUS
  <2> QED
    BY <2>1, CodeOf DEF Copies
<1>2. ASSUME NEW q \in 0 .. n - 1
      PROVE  /\ \A m : ~Stores(code[2 * q + 1], m)
             /\ \A m : Stores(code[2 * q + 2], m) <=> m = to[q]
             /\ Loads(code[2 * q + 1], 0)
             /\ code[2 * q + 2].reg = 0
             /\ code[2 * q + 1].at.array = "A" /\ code[2 * q + 1].at.cell = from[q]
  <2> DEFINE a == from[q]
             b == to[q]
             i1 == code[2 * q + 1]
             i2 == code[2 * q + 2]
  <2>1. a \in Nat /\ b \in Nat /\ 0 \in Regs /\ i1 = Load(0, InA(a)) /\ i2 = Store(0, InB(b))
    BY DEF Copies, Regs
  <2> HIDE DEF a, b, i1, i2
  <2>2. /\ \A m : ~Stores(Load(0, InA(a)), m)
        /\ \A r : Loads(Load(0, InA(a)), r) <=> r = 0
        /\ Load(0, InA(a)).at = InA(a) /\ InA(a).array = "A" /\ InA(a).cell = a
    BY <2>1, Instructions
  <2>3. /\ \A m : Stores(Store(0, InB(b)), m) <=> m = b
        /\ Store(0, InB(b)).reg = 0
    BY <2>1, Instructions
  <2>4. /\ \A m : ~Stores(i1, m)
        /\ \A m : Stores(i2, m) <=> m = b
        /\ Loads(i1, 0) /\ i2.reg = 0 /\ i1.at.array = "A" /\ i1.at.cell = a
    BY <2>1, <2>2, <2>3
  <2> QED
    BY <2>4 DEF a, b, i1, i2
<1>3. ASSUME NEW z \in 1 .. 2 * n, NEW m, Stores(code[z], m)
      PROVE  \E q \in 0 .. n - 1 : z = 2 * q + 2 /\ m = to[q]
  <2>1. PICK q \in 0 .. n - 1 : z = 2 * q + 1 \/ z = 2 * q + 2
    BY HalfOf
  <2> QED
    BY <1>2, <1>3, <2>1
<1> DEFINE E == Executed(code, st0)
<1>4. ASSUME NEW q \in 0 .. n - 1 PROVE E.mem[to[q]] = from[q]
  <2> DEFINE x == 2 * q + 2
             y == 2 * q + 1
  <2>1. /\ x \in 1 .. 2 * n /\ y \in 1 .. x - 1 /\ x \in Nat /\ y \in Nat
        /\ \A q2 \in 0 .. n - 1 : 2 * q2 + 2 >= x + 1 => q2 # q
        /\ y + 1 .. x - 1 = {}
    OBVIOUS
  <2>2. /\ Stores(code[x], to[q]) /\ code[x].reg = 0 /\ Loads(code[y], 0)
        /\ code[y].at.array = "A" /\ code[y].at.cell = from[q]
    BY <1>2
  <2> HIDE DEF x, y
  <2>3. LastStore(code, to[q], x)
    <3>1. ASSUME NEW z \in x + 1 .. 2 * n, Stores(code[z], to[q]) PROVE FALSE
      <4>1. z \in 1 .. 2 * n /\ z >= x + 1
        BY <2>1
      <4>2. PICK q2 \in 0 .. n - 1 : z = 2 * q2 + 2 /\ to[q] = to[q2]
        BY <1>3, <3>1, <4>1
      <4> QED
        BY <2>1, <4>1, <4>2
    <3> QED
      BY <1>1, <2>1, <2>2, <3>1 DEF LastStore
  <2>4. LastLoad(code, x, y)
    BY <2>1, <2>2 DEF LastLoad
  <2>5. IsCode(code)
    BY <1>1
  <2> QED
    BY <2>2, <2>3, <2>4, <2>5, CellFromA
<1>5. ASSUME NEW m \in DOMAIN st0.mem, \A q \in 0 .. n - 1 : m # to[q]
      PROVE  E.mem[m] = st0.mem[m]
  <2>1. \A z \in 1 .. Len(code) : ~Stores(code[z], m)
    BY <1>1, <1>3, <1>5
  <2>2. IsCode(code)
    BY <1>1
  <2> HIDE DEF E
  <2>3. Executed(code, st0).mem[m] = st0.mem[m]
    BY <2>1, <2>2, CellUntouched
  <2> QED
    BY <2>3 DEF E
<1> QED
  BY <1>4, <1>5

(* Where a block of 61 columns ends.                                       *)
BlockEnd == IF j + 23 <= M THEN j + 23 ELSE M

(* The blocks at the edges of width 61 copy one number at a time, up to    *)
(* the end of the row.                                                     *)
LEMMA Edge61Code ==
    ASSUME M \in Nat, N \in Nat, i \in Nat, j \in Nat, j < M, NEW d \in Nat
    PROVE  /\ BlockEnd - j \in 1 .. 23
           /\ Copies(edge61(d), BlockEnd - j, [q \in 0 .. BlockEnd - j - 1 |-> Want(j + q, i + d)],
                                              [q \in 0 .. BlockEnd - j - 1 |-> BCell(j + q, i + d)])
<1> DEFINE n == BlockEnd - j
           At(q) == j + q
           code == edge61(d)
           from == [q \in 0 .. n - 1 |-> Want(j + q, i + d)]
           to   == [q \in 0 .. n - 1 |-> BCell(j + q, i + d)]
<1>1. Min({j + 23, M}) = BlockEnd
  BY MinOfTwo DEF BlockEnd
<1>2. n \in 1 .. 23
  BY DEF BlockEnd
<1>3. code = [x \in 1 .. 2 * n |->
               LET s == j + (x - 1) \div 2
               IN  IF x % 2 = 1 THEN Load(0, Cell("A", i + d, s)) ELSE Store(0, Cell("B", s, i + d))]
  BY <1>1 DEF edge61
<1>4. ASSUME NEW q \in 0 .. n - 1
      PROVE  from[q] \in Nat /\ to[q] \in Nat
  <2>1. j + q \in Nat /\ i + d \in Nat
    BY <1>2
  <2> QED
    BY <2>1, CellTypes
<1>5. ASSUME NEW q \in 0 .. n - 1
      PROVE  /\ code[2 * q + 1] = Load(0, InA(from[q]))
             /\ code[2 * q + 2] = Store(0, InB(to[q]))
  <2>1. /\ 2 * q + 1 \in 1 .. 2 * n /\ 2 * q + 2 \in 1 .. 2 * n
        /\ ((2 * q + 1) - 1) \div 2 = q /\ ((2 * q + 2) - 1) \div 2 = q
        /\ (2 * q + 1) % 2 = 1 /\ (2 * q + 2) % 2 = 0
    BY <1>2
  <2>2. code[2 * q + 1] = Load(0, Cell("A", i + d, j + q))
    BY <1>3, <2>1
  <2>3. code[2 * q + 2] = Store(0, Cell("B", j + q, i + d))
    BY <1>3, <2>1
  <2> QED
    BY <2>2, <2>3, CellsOfArrays
<1> HIDE DEF code, from, to, n
<1>6. code \in [1 .. 2 * n -> Instr]
  <2>1. ASSUME NEW x \in 1 .. 2 * n PROVE code[x] \in Instr
    <3>1. PICK q \in 0 .. n - 1 : x = 2 * q + 1 \/ x = 2 * q + 2
      <4>1. n \in Nat
        BY <1>2
      <4> QED
        BY <4>1, HalfOf
    <3>2. from[q] \in Nat /\ to[q] \in Nat /\ 0 \in Regs
      BY <1>4 DEF Regs
    <3>3. code[2 * q + 1] \in Instr /\ code[2 * q + 2] \in Instr
      BY <1>5, <3>2, Instructions
    <3> QED
      BY <3>1, <3>3
  <2>2. code = [x \in 1 .. 2 * n |-> code[x]]
    BY <1>3
  <2> QED
    BY <2>1, <2>2
<1>7. Copies(code, n, from, to)
  BY <1>4, <1>5, <1>6 DEF Copies
<1> QED
  BY <1>2, <1>7 DEF code, from, to, n

(* Four cells of B take what a row of A has, what they had goes to four    *)
(* other cells, and what another row of A has to four more.                *)
Exchanges(code, near, far, there, lo, hi) ==
    /\ code \in [1 .. 24 -> Instr]
    /\ \A r \in 0 .. 3 :
         /\ near[r] \in Nat /\ far[r] \in Nat
         /\ there[r] \in Nat /\ lo[r] \in Nat /\ hi[r] \in Nat
         /\ code[2 * r + 1]  = Load(r, InA(near[r]))
         /\ code[2 * r + 2]  = Load(4 + r, InA(far[r]))
         /\ code[2 * r + 9]  = Load(8 + r, InB(there[r]))
         /\ code[2 * r + 10] = Store(r, InB(there[r]))
         /\ code[2 * r + 17] = Store(8 + r, InB(lo[r]))
         /\ code[2 * r + 18] = Store(4 + r, InB(hi[r]))

Quarter == 0 .. 3
Quartered(cells, D) == \A r \in Quarter : cells[r] \in D
AllApart(there, lo, hi) ==
    \A r, r2 \in Quarter : /\ there[r] # lo[r2] /\ there[r] # hi[r2] /\ lo[r] # hi[r2]
                           /\ there[r] = there[r2] => r = r2
                           /\ lo[r] = lo[r2] => r = r2
                           /\ hi[r] = hi[r2] => r = r2

Exchanged(near, far, there, lo, hi, old, new) ==
    /\ \A r \in Quarter : /\ new[there[r]] = near[r]
                           /\ new[lo[r]] = old[there[r]]
                           /\ new[hi[r]] = far[r]
    /\ \A m \in DOMAIN old :
         (\A r \in Quarter : m # there[r] /\ m # lo[r] /\ m # hi[r]) => new[m] = old[m]

(* A place in six rows of four.                                            *)
LEMMA SixthOf ==
    ASSUME NEW x \in 1 .. 24
    PROVE  \E r \in 0 .. 3 : \/ x = 2 * r + 1 \/ x = 2 * r + 2 \/ x = 2 * r + 9
                             \/ x = 2 * r + 10 \/ x = 2 * r + 17 \/ x = 2 * r + 18
<1>1. CASE x \in 1 .. 2 * 4
  <2>1. PICK r \in 0 .. 4 - 1 : x = 2 * r + 1 \/ x = 2 * r + 2
    BY <1>1, HalfOf
  <2>2. r \in 0 .. 3
    OBVIOUS
  <2> QED
    BY <2>1, <2>2
<1>2. CASE x - 8 \in 1 .. 2 * 4
  <2>1. PICK r \in 0 .. 4 - 1 : x - 8 = 2 * r + 1 \/ x - 8 = 2 * r + 2
    BY <1>2, HalfOf
  <2>2. r \in 0 .. 3 /\ (x = 2 * r + 9 \/ x = 2 * r + 10)
    BY <2>1
  <2> QED
    BY <2>2
<1>3. CASE x - 16 \in 1 .. 2 * 4
  <2>1. PICK r \in 0 .. 4 - 1 : x - 16 = 2 * r + 1 \/ x - 16 = 2 * r + 2
    BY <1>3, HalfOf
  <2>2. r \in 0 .. 3 /\ (x = 2 * r + 17 \/ x = 2 * r + 18)
    BY <2>1
  <2> QED
    BY <2>2
<1>4. x \in 1 .. 2 * 4 \/ x - 8 \in 1 .. 2 * 4 \/ x - 16 \in 1 .. 2 * 4
  OBVIOUS
<1> QED
  BY <1>1, <1>2, <1>3, <1>4

(* Quarter rows that are apart: one is moved away before its place is      *)
(* filled.                                                                 *)
LEMMA ExchangesEffect ==
    ASSUME M \in Nat, N \in Nat, NEW code, NEW near, NEW far, NEW there, NEW lo, NEW hi,
           Exchanges(code, near, far, there, lo, hi), NEW st0, DOMAIN st0.reg = Regs,
           Quartered(there, DOMAIN st0.mem), Quartered(lo, DOMAIN st0.mem),
           Quartered(hi, DOMAIN st0.mem), AllApart(there, lo, hi)
    PROVE  Exchanged(near, far, there, lo, hi, st0.mem, Executed(code, st0).mem)
<1> USE DEF Quarter, Quartered, AllApart
<1>1. IsCode(code) /\ Len(code) = 24
  BY CodeOf DEF Exchanges
<1>2. ASSUME NEW r \in 0 .. 3
      PROVE  /\ \A m : /\ ~Stores(code[2 * r + 1], m) /\ ~Stores(code[2 * r + 2], m)
                       /\ ~Stores(code[2 * r + 9], m)
             /\ \A m : Stores(code[2 * r + 10], m) <=> m = there[r]
             /\ \A m : Stores(code[2 * r + 17], m) <=> m = lo[r]
             /\ \A m : Stores(code[2 * r + 18], m) <=> m = hi[r]
             /\ \A q : Loads(code[2 * r + 1], q) <=> q = r
             /\ \A q : Loads(code[2 * r + 2], q) <=> q = 4 + r
             /\ \A q : Loads(code[2 * r + 9], q) <=> q = 8 + r
             /\ \A q : /\ ~Loads(code[2 * r + 10], q) /\ ~Loads(code[2 * r + 17], q)
                       /\ ~Loads(code[2 * r + 18], q)
             /\ code[2 * r + 10].reg = r /\ code[2 * r + 17].reg = 8 + r
             /\ code[2 * r + 18].reg = 4 + r
             /\ code[2 * r + 1].at.array = "A" /\ code[2 * r + 1].at.cell = near[r]
             /\ code[2 * r + 2].at.array = "A" /\ code[2 * r + 2].at.cell = far[r]
             /\ code[2 * r + 9].at.array = "B" /\ code[2 * r + 9].at.cell = there[r]
  <2> DEFINE r4 == 4 + r
             r8 == 8 + r
             fa == near[r]
             fb == far[r]
             t  == there[r]
             l  == lo[r]
             h  == hi[r]
             i1 == code[2 * r + 1]
             i2 == code[2 * r + 2]
             i3 == code[2 * r + 9]
             i4 == code[2 * r + 10]
             i5 == code[2 * r + 17]
             i6 == code[2 * r + 18]
  <2>1. r \in Regs /\ r4 \in Regs /\ r8 \in Regs
    BY DEF Regs
  <2>2. /\ fa \in Nat /\ fb \in Nat /\ t \in Nat /\ l \in Nat /\ h \in Nat
        /\ i1 = Load(r, InA(fa)) /\ i2 = Load(r4, InA(fb)) /\ i3 = Load(r8, InB(t))
        /\ i4 = Store(r, InB(t)) /\ i5 = Store(r8, InB(l)) /\ i6 = Store(r4, InB(h))
    BY DEF Exchanges
  <2> HIDE DEF r4, r8, fa, fb, t, l, h, i1, i2, i3, i4, i5, i6
  <2>3. /\ \A m : ~Stores(i1, m)
        /\ \A q : Loads(i1, q) <=> q = r
        /\ i1.at.array = "A" /\ i1.at.cell = fa
    <3>1. /\ \A m : ~Stores(Load(r, InA(fa)), m)
          /\ \A q : Loads(Load(r, InA(fa)), q) <=> q = r
          /\ Load(r, InA(fa)).at = InA(fa) /\ InA(fa).array = "A" /\ InA(fa).cell = fa
      BY <2>1, <2>2, Instructions
    <3> QED
      BY <2>2, <3>1
  <2>4. /\ \A m : ~Stores(i2, m)
        /\ \A q : Loads(i2, q) <=> q = r4
        /\ i2.at.array = "A" /\ i2.at.cell = fb
    <3>1. /\ \A m : ~Stores(Load(r4, InA(fb)), m)
          /\ \A q : Loads(Load(r4, InA(fb)), q) <=> q = r4
          /\ Load(r4, InA(fb)).at = InA(fb) /\ InA(fb).array = "A" /\ InA(fb).cell = fb
      BY <2>1, <2>2, Instructions
    <3> QED
      BY <2>2, <3>1
  <2>5. /\ \A m : ~Stores(i3, m)
        /\ \A q : Loads(i3, q) <=> q = r8
        /\ i3.at.array = "B" /\ i3.at.cell = t
    <3>1. /\ \A m : ~Stores(Load(r8, InB(t)), m)
          /\ \A q : Loads(Load(r8, InB(t)), q) <=> q = r8
          /\ Load(r8, InB(t)).at = InB(t) /\ InB(t).array = "B" /\ InB(t).cell = t
      BY <2>1, <2>2, Instructions
    <3> QED
      BY <2>2, <3>1
  <2>6. /\ \A m : Stores(i4, m) <=> m = t
        /\ \A q : ~Loads(i4, q)
        /\ i4.reg = r
    <3>1. /\ \A m : Stores(Store(r, InB(t)), m) <=> m = t
          /\ \A q : ~Loads(Store(r, InB(t)), q)
          /\ Store(r, InB(t)).reg = r
      BY <2>1, <2>2, Instructions
    <3> QED
      BY <2>2, <3>1
  <2>7. /\ \A m : Stores(i5, m) <=> m = l
        /\ \A q : ~Loads(i5, q)
        /\ i5.reg = r8
    <3>1. /\ \A m : Stores(Store(r8, InB(l)), m) <=> m = l
          /\ \A q : ~Loads(Store(r8, InB(l)), q)
          /\ Store(r8, InB(l)).reg = r8
      BY <2>1, <2>2, Instructions
    <3> QED
      BY <2>2, <3>1
  <2>8. /\ \A m : Stores(i6, m) <=> m = h
        /\ \A q : ~Loads(i6, q)
        /\ i6.reg = r4
    <3>1. /\ \A m : Stores(Store(r4, InB(h)), m) <=> m = h
          /\ \A q : ~Loads(Store(r4, InB(h)), q)
          /\ Store(r4, InB(h)).reg = r4
      BY <2>1, <2>2, Instructions
    <3> QED
      BY <2>2, <3>1
  <2> QED
    BY <2>3, <2>4, <2>5, <2>6, <2>7, <2>8 DEF r4, r8, fa, fb, t, l, h, i1, i2, i3, i4, i5, i6
<1>3. ASSUME NEW z \in 1 .. 24, NEW m, Stores(code[z], m)
      PROVE  \E r \in 0 .. 3 : \/ z = 2 * r + 10 /\ m = there[r]
                               \/ z = 2 * r + 17 /\ m = lo[r]
                               \/ z = 2 * r + 18 /\ m = hi[r]
  <2>1. PICK r \in 0 .. 3 : \/ z = 2 * r + 1 \/ z = 2 * r + 2 \/ z = 2 * r + 9
                            \/ z = 2 * r + 10 \/ z = 2 * r + 17 \/ z = 2 * r + 18
    BY SixthOf
  <2>2. /\ ~Stores(code[2 * r + 1], m) /\ ~Stores(code[2 * r + 2], m)
        /\ ~Stores(code[2 * r + 9], m)
        /\ Stores(code[2 * r + 10], m) <=> m = there[r]
        /\ Stores(code[2 * r + 17], m) <=> m = lo[r]
        /\ Stores(code[2 * r + 18], m) <=> m = hi[r]
    BY <1>2
  <2> QED
    BY <1>3, <2>1, <2>2
<1>4. ASSUME NEW z \in 1 .. 24, NEW q, Loads(code[z], q)
      PROVE  \E r \in 0 .. 3 : \/ z = 2 * r + 1 /\ q = r
                               \/ z = 2 * r + 2 /\ q = 4 + r
                               \/ z = 2 * r + 9 /\ q = 8 + r
  <2>1. PICK r \in 0 .. 3 : \/ z = 2 * r + 1 \/ z = 2 * r + 2 \/ z = 2 * r + 9
                            \/ z = 2 * r + 10 \/ z = 2 * r + 17 \/ z = 2 * r + 18
    BY SixthOf
  <2>2. /\ Loads(code[2 * r + 1], q) <=> q = r
        /\ Loads(code[2 * r + 2], q) <=> q = 4 + r
        /\ Loads(code[2 * r + 9], q) <=> q = 8 + r
        /\ ~Loads(code[2 * r + 10], q) /\ ~Loads(code[2 * r + 17], q)
        /\ ~Loads(code[2 * r + 18], q)
    BY <1>2
  <2> QED
    BY <1>4, <2>1, <2>2
<1> DEFINE E == Executed(code, st0)
<1>5. ASSUME NEW r \in 0 .. 3 PROVE E.mem[there[r]] = near[r]
  <2> DEFINE x == 2 * r + 10
             y == 2 * r + 1
             q == r
  <2>1. /\ x \in 1 .. 24 /\ y \in 1 .. x - 1 /\ x \in Nat /\ y \in Nat
        /\ \A r2 \in 0 .. 3 : 2 * r2 + 10 >= x + 1 => r2 # r
    OBVIOUS
  <2>2. /\ Stores(code[x], there[r]) /\ code[x].reg = q /\ Loads(code[y], q)
        /\ code[y].at.array = "A" /\ code[y].at.cell = near[r]
    BY <1>2
  <2> HIDE DEF x, y, q
  <2>3. LastStore(code, there[r], x)
    <3>1. ASSUME NEW z \in x + 1 .. 24, Stores(code[z], there[r]) PROVE FALSE
      <4>1. z \in 1 .. 24 /\ z >= x + 1
        BY <2>1
      <4>2. PICK r2 \in 0 .. 3 : \/ z = 2 * r2 + 10 /\ there[r] = there[r2]
                                 \/ z = 2 * r2 + 17 /\ there[r] = lo[r2]
                                 \/ z = 2 * r2 + 18 /\ there[r] = hi[r2]
        BY <1>3, <3>1, <4>1
      <4> QED
        BY <2>1, <4>1, <4>2
    <3> QED
      BY <1>1, <2>1, <2>2, <3>1 DEF LastStore
  <2>4. LastLoad(code, x, y)
    <3>1. ASSUME NEW z \in y + 1 .. x - 1, Loads(code[z], q) PROVE FALSE
      <4>1. z \in 1 .. 24 /\ z # y /\ z \in Nat
        BY <2>1
      <4>2. PICK r2 \in 0 .. 3 : \/ z = 2 * r2 + 1 /\ q = r2
                                 \/ z = 2 * r2 + 2 /\ q = 4 + r2
                                 \/ z = 2 * r2 + 9 /\ q = 8 + r2
        BY <1>4, <3>1, <4>1
      <4>3. /\ q = r2 => 2 * r2 + 1 = y
            /\ q = 4 + r2 => 2 * r2 + 2 = y
            /\ q = 8 + r2 => 2 * r2 + 9 = y
        BY DEF q, y
      <4> QED
        BY <4>1, <4>2, <4>3
    <3> QED
      BY <2>1, <2>2, <3>1 DEF LastLoad
  <2>5. IsCode(code)
    BY <1>1
  <2> QED
    BY <2>2, <2>3, <2>4, <2>5, CellFromA
<1>6. ASSUME NEW r \in 0 .. 3 PROVE E.mem[lo[r]] = st0.mem[there[r]]
  <2> DEFINE x == 2 * r + 17
             y == 2 * r + 9
             q == 8 + r
  <2>1. /\ x \in 1 .. 24 /\ y \in 1 .. x - 1 /\ x \in Nat /\ y \in Nat
        /\ \A r2 \in 0 .. 3 : 2 * r2 + 17 >= x + 1 => r2 # r
        /\ \A r2 \in 0 .. 3 : 2 * r2 + 10 <= y - 1 => r2 # r
    OBVIOUS
  <2>2. /\ Stores(code[x], lo[r]) /\ code[x].reg = q /\ Loads(code[y], q)
        /\ code[y].at.array = "B" /\ code[y].at.cell = there[r]
    BY <1>2
  <2> HIDE DEF x, y, q
  <2>3. LastStore(code, lo[r], x)
    <3>1. ASSUME NEW z \in x + 1 .. 24, Stores(code[z], lo[r]) PROVE FALSE
      <4>1. z \in 1 .. 24 /\ z >= x + 1
        BY <2>1
      <4>2. PICK r2 \in 0 .. 3 : \/ z = 2 * r2 + 10 /\ lo[r] = there[r2]
                                 \/ z = 2 * r2 + 17 /\ lo[r] = lo[r2]
                                 \/ z = 2 * r2 + 18 /\ lo[r] = hi[r2]
        BY <1>3, <3>1, <4>1
      <4> QED
        BY <2>1, <4>1, <4>2
    <3> QED
      BY <1>1, <2>1, <2>2, <3>1 DEF LastStore
  <2>4. LastLoad(code, x, y)
    <3>1. ASSUME NEW z \in y + 1 .. x - 1, Loads(code[z], q) PROVE FALSE
      <4>1. z \in 1 .. 24 /\ z # y /\ z \in Nat
        BY <2>1
      <4>2. PICK r2 \in 0 .. 3 : \/ z = 2 * r2 + 1 /\ q = r2
                                 \/ z = 2 * r2 + 2 /\ q = 4 + r2
                                 \/ z = 2 * r2 + 9 /\ q = 8 + r2
        BY <1>4, <3>1, <4>1
      <4>3. /\ q = r2 => 2 * r2 + 1 = y
            /\ q = 4 + r2 => 2 * r2 + 2 = y
            /\ q = 8 + r2 => 2 * r2 + 9 = y
        BY DEF q, y
      <4> QED
        BY <4>1, <4>2, <4>3
    <3> QED
      BY <2>1, <2>2, <3>1 DEF LastLoad
  <2>5. IsCode(code)
    BY <1>1
  <2>6. ASSUME NEW z \in 1 .. y - 1, Stores(code[z], there[r]) PROVE FALSE
    <3>1. z \in 1 .. 24 /\ z <= y - 1
      BY <2>1
    <3>2. PICK r2 \in 0 .. 3 : \/ z = 2 * r2 + 10 /\ there[r] = there[r2]
                               \/ z = 2 * r2 + 17 /\ there[r] = lo[r2]
                               \/ z = 2 * r2 + 18 /\ there[r] = hi[r2]
      BY <1>3, <2>6, <3>1
    <3> QED
      BY <2>1, <3>1, <3>2
  <2> QED
    BY <2>2, <2>3, <2>4, <2>5, <2>6, CellFromB
<1>7. ASSUME NEW r \in 0 .. 3 PROVE E.mem[hi[r]] = far[r]
  <2> DEFINE x == 2 * r + 18
             y == 2 * r + 2
             q == 4 + r
  <2>1. /\ x \in 1 .. 24 /\ y \in 1 .. x - 1 /\ x \in Nat /\ y \in Nat
        /\ \A r2 \in 0 .. 3 : 2 * r2 + 18 >= x + 1 => r2 # r
    OBVIOUS
  <2>2. /\ Stores(code[x], hi[r]) /\ code[x].reg = q /\ Loads(code[y], q)
        /\ code[y].at.array = "A" /\ code[y].at.cell = far[r]
    BY <1>2
  <2> HIDE DEF x, y, q
  <2>3. LastStore(code, hi[r], x)
    <3>1. ASSUME NEW z \in x + 1 .. 24, Stores(code[z], hi[r]) PROVE FALSE
      <4>1. z \in 1 .. 24 /\ z >= x + 1
        BY <2>1
      <4>2. PICK r2 \in 0 .. 3 : \/ z = 2 * r2 + 10 /\ hi[r] = there[r2]
                                 \/ z = 2 * r2 + 17 /\ hi[r] = lo[r2]
                                 \/ z = 2 * r2 + 18 /\ hi[r] = hi[r2]
        BY <1>3, <3>1, <4>1
      <4> QED
        BY <2>1, <4>1, <4>2
    <3> QED
      BY <1>1, <2>1, <2>2, <3>1 DEF LastStore
  <2>4. LastLoad(code, x, y)
    <3>1. ASSUME NEW z \in y + 1 .. x - 1, Loads(code[z], q) PROVE FALSE
      <4>1. z \in 1 .. 24 /\ z # y /\ z \in Nat
        BY <2>1
      <4>2. PICK r2 \in 0 .. 3 : \/ z = 2 * r2 + 1 /\ q = r2
                                 \/ z = 2 * r2 + 2 /\ q = 4 + r2
                                 \/ z = 2 * r2 + 9 /\ q = 8 + r2
        BY <1>4, <3>1, <4>1
      <4>3. /\ q = r2 => 2 * r2 + 1 = y
            /\ q = 4 + r2 => 2 * r2 + 2 = y
            /\ q = 8 + r2 => 2 * r2 + 9 = y
        BY DEF q, y
      <4> QED
        BY <4>1, <4>2, <4>3
    <3> QED
      BY <2>1, <2>2, <3>1 DEF LastLoad
  <2>5. IsCode(code)
    BY <1>1
  <2> QED
    BY <2>2, <2>3, <2>4, <2>5, CellFromA
<1>8. ASSUME NEW m \in DOMAIN st0.mem, \A r \in 0 .. 3 : m # there[r] /\ m # lo[r] /\ m # hi[r]
      PROVE  E.mem[m] = st0.mem[m]
  <2>1. \A z \in 1 .. Len(code) : ~Stores(code[z], m)
    BY <1>1, <1>3, <1>8
  <2>2. IsCode(code)
    BY <1>1
  <2> HIDE DEF E
  <2>3. Executed(code, st0).mem[m] = st0.mem[m]
    BY <2>1, <2>2, CellUntouched
  <2> QED
    BY <2>3 DEF E
<1> QED
  BY <1>5, <1>6, <1>7, <1>8 DEF Exchanged

(* Which instruction of low64 is at which place.                           *)
LEMMA Low64Places ==
    ASSUME NEW b \in 0 .. 2, NEW r \in 0 .. 3, NEW p \in 0 .. 1, NEW x, x = 8 * b + 2 * r + p + 1
    PROVE  /\ x \in 1 .. 24 /\ ((x - 1) % 8) \div 2 = r
           /\ x % 2 = 1 <=> p = 0
           /\ x <= 8 <=> b = 0
           /\ x \in 9 .. 16 <=> b = 1
           /\ x > 16 <=> b = 2
<1>1. x \in 1 .. 24 /\ x - 1 = 8 * b + (2 * r + p) /\ x - 1 \in Int /\ 2 * r + p \in 0 .. 8 - 1
  OBVIOUS
<1>2. (x - 1) % 8 = 2 * r + p
  <2>1. 8 \in Nat \ {0} /\ b \in Int
    OBVIOUS
  <2> QED
    BY <1>1, <2>1, DivModUnique
<1>3. (2 * r + p) \div 2 = r
  OBVIOUS
<1>4. x % 2 = 1 <=> p = 0
  <2>1. CASE p = 0
    <3>1. x = 2 * (4 * b + r) + 1
      BY <2>1
    <3> QED
      BY <2>1, <3>1
  <2>2. CASE p = 1
    <3>1. x = 2 * (4 * b + r + 1) + 0
      BY <2>2
    <3> QED
      BY <2>2, <3>1
  <2> QED
    BY <2>1, <2>2
<1> QED
  BY <1>1, <1>2, <1>3, <1>4

(* The lower half of a block of width 64 exchanges quarter rows.           *)
LEMMA Low64Code ==
    ASSUME M \in Nat, N \in Nat, i \in Nat, j \in Nat, NEW d \in Nat
    PROVE  Exchanges(low64(d),
             [r \in 0 .. 3 |-> Want(j + d, i + 4 + r)],  [r \in 0 .. 3 |-> Want(j + d + 4, i + 4 + r)],
             [r \in 0 .. 3 |-> BCell(j + d, i + 4 + r)], [r \in 0 .. 3 |-> BCell(j + d + 4, i + r)],
             [r \in 0 .. 3 |-> BCell(j + d + 4, i + 4 + r)])
<1> DEFINE code  == low64(d)
           near  == [r \in 0 .. 3 |-> Want(j + d, i + 4 + r)]
           far   == [r \in 0 .. 3 |-> Want(j + d + 4, i + 4 + r)]
           there == [r \in 0 .. 3 |-> BCell(j + d, i + 4 + r)]
           lo    == [r \in 0 .. 3 |-> BCell(j + d + 4, i + r)]
           hi    == [r \in 0 .. 3 |-> BCell(j + d + 4, i + 4 + r)]
           Ins(x) == LET r    == ((x - 1) % 8) \div 2
                         even == x % 2 = 1
                         cell == Cell("B", j + d, i + 4 + r)
                     IN  CASE x <= 8 /\ even -> Load(r, Cell("A", i + 4 + r, j + d))
                           [] x <= 8 /\ ~even -> Load(4 + r, Cell("A", i + 4 + r, j + d + 4))
                           [] x \in 9 .. 16 /\ even -> Load(8 + r, cell)
                           [] x \in 9 .. 16 /\ ~even -> Store(r, cell)
                           [] x > 16 /\ even -> Store(8 + r, Cell("B", j + d + 4, i + r))
                           [] x > 16 /\ ~even -> Store(4 + r, Cell("B", j + d + 4, i + 4 + r))
<1>1. code = [x \in 1 .. 24 |-> Ins(x)]
  BY DEF low64
<1>2. ASSUME NEW r \in 0 .. 3
      PROVE  near[r] \in Nat /\ far[r] \in Nat /\ there[r] \in Nat /\ lo[r] \in Nat /\ hi[r] \in Nat
  <2>1. j + d \in Nat /\ j + d + 4 \in Nat /\ i + r \in Nat /\ i + 4 + r \in Nat
    OBVIOUS
  <2> QED
    BY <2>1, CellTypes
<1>3. ASSUME NEW r \in 0 .. 3
      PROVE  /\ code[2 * r + 1]  = Load(r, InA(near[r]))
             /\ code[2 * r + 2]  = Load(4 + r, InA(far[r]))
             /\ code[2 * r + 9]  = Load(8 + r, InB(there[r]))
             /\ code[2 * r + 10] = Store(r, InB(there[r]))
             /\ code[2 * r + 17] = Store(8 + r, InB(lo[r]))
             /\ code[2 * r + 18] = Store(4 + r, InB(hi[r]))
  <2>1. code[2 * r + 1] = Load(r, InA(near[r]))
    <3> DEFINE x == 2 * r + 1
    <3>1. x \in 1 .. 24 /\ ((x - 1) % 8) \div 2 = r /\ x % 2 = 1 /\ x <= 8
      <4>1. x = 8 * 0 + 2 * r + 0 + 1
        OBVIOUS
      <4> HIDE DEF x
      <4> QED
        BY <4>1, Low64Places
    <3> HIDE DEF x
    <3>2. code[x] = Load(r, Cell("A", i + 4 + r, j + d))
      BY <1>1, <3>1
    <3> QED
      BY <3>2, CellsOfArrays DEF x
  <2>2. code[2 * r + 2] = Load(4 + r, InA(far[r]))
    <3> DEFINE x == 2 * r + 2
    <3>1. x \in 1 .. 24 /\ ((x - 1) % 8) \div 2 = r /\ x % 2 # 1 /\ x <= 8
      <4>1. x = 8 * 0 + 2 * r + 1 + 1
        OBVIOUS
      <4> HIDE DEF x
      <4> QED
        BY <4>1, Low64Places
    <3> HIDE DEF x
    <3>2. code[x] = Load(4 + r, Cell("A", i + 4 + r, j + d + 4))
      BY <1>1, <3>1
    <3> QED
      BY <3>2, CellsOfArrays DEF x
  <2>3. code[2 * r + 9] = Load(8 + r, InB(there[r]))
    <3> DEFINE x == 2 * r + 9
    <3>1. x \in 1 .. 24 /\ ((x - 1) % 8) \div 2 = r /\ x % 2 = 1 /\ ~(x <= 8) /\ x \in 9 .. 16
      <4>1. x = 8 * 1 + 2 * r + 0 + 1
        OBVIOUS
      <4> HIDE DEF x
      <4> QED
        BY <4>1, Low64Places
    <3> HIDE DEF x
    <3>2. code[x] = Load(8 + r, Cell("B", j + d, i + 4 + r))
      BY <1>1, <3>1
    <3> QED
      BY <3>2, CellsOfArrays DEF x
  <2>4. code[2 * r + 10] = Store(r, InB(there[r]))
    <3> DEFINE x == 2 * r + 10
    <3>1. x \in 1 .. 24 /\ ((x - 1) % 8) \div 2 = r /\ x % 2 # 1 /\ ~(x <= 8) /\ x \in 9 .. 16
      <4>1. x = 8 * 1 + 2 * r + 1 + 1
        OBVIOUS
      <4> HIDE DEF x
      <4> QED
        BY <4>1, Low64Places
    <3> HIDE DEF x
    <3>2. code[x] = Store(r, Cell("B", j + d, i + 4 + r))
      BY <1>1, <3>1
    <3> QED
      BY <3>2, CellsOfArrays DEF x
  <2>5. code[2 * r + 17] = Store(8 + r, InB(lo[r]))
    <3> DEFINE x == 2 * r + 17
    <3>1. x \in 1 .. 24 /\ ((x - 1) % 8) \div 2 = r /\ x % 2 = 1 /\ ~(x <= 8) /\ ~(x \in 9 .. 16)
          /\ x > 16
      <4>1. x = 8 * 2 + 2 * r + 0 + 1
        OBVIOUS
      <4> HIDE DEF x
      <4> QED
        BY <4>1, Low64Places
    <3> HIDE DEF x
    <3>2. code[x] = Store(8 + r, Cell("B", j + d + 4, i + r))
      BY <1>1, <3>1
    <3> QED
      BY <3>2, CellsOfArrays DEF x
  <2>6. code[2 * r + 18] = Store(4 + r, InB(hi[r]))
    <3> DEFINE x == 2 * r + 18
    <3>1. x \in 1 .. 24 /\ ((x - 1) % 8) \div 2 = r /\ x % 2 # 1 /\ ~(x <= 8) /\ ~(x \in 9 .. 16)
          /\ x > 16
      <4>1. x = 8 * 2 + 2 * r + 1 + 1
        OBVIOUS
      <4> HIDE DEF x
      <4> QED
        BY <4>1, Low64Places
    <3> HIDE DEF x
    <3>2. code[x] = Store(4 + r, Cell("B", j + d + 4, i + 4 + r))
      BY <1>1, <3>1
    <3> QED
      BY <3>2, CellsOfArrays DEF x
  <2> QED
    BY <2>1, <2>2, <2>3, <2>4, <2>5, <2>6
<1> HIDE DEF near, far, there, lo, hi
<1>4. code \in [1 .. 24 -> Instr]
  <2>1. code = [x \in 1 .. 24 |-> code[x]]
    BY <1>1
  <2> HIDE DEF code
  <2>2. ASSUME NEW x \in 1 .. 24 PROVE code[x] \in Instr
    <3>1. PICK r \in 0 .. 3 : \/ x = 2 * r + 1 \/ x = 2 * r + 2 \/ x = 2 * r + 9
                              \/ x = 2 * r + 10 \/ x = 2 * r + 17 \/ x = 2 * r + 18
      BY SixthOf
    <3>2. r \in Regs /\ 4 + r \in Regs /\ 8 + r \in Regs
      BY DEF Regs
    <3>3. /\ Load(r, InA(near[r])) \in Instr /\ Load(4 + r, InA(far[r])) \in Instr
          /\ Load(8 + r, InB(there[r])) \in Instr /\ Store(r, InB(there[r])) \in Instr
          /\ Store(8 + r, InB(lo[r])) \in Instr /\ Store(4 + r, InB(hi[r])) \in Instr
      <4> DEFINE r4 == 4 + r
                 r8 == 8 + r
      <4>1. /\ near[r] \in Nat /\ far[r] \in Nat /\ there[r] \in Nat /\ lo[r] \in Nat
            /\ hi[r] \in Nat /\ r \in Regs /\ r4 \in Regs /\ r8 \in Regs
        BY <1>2, <3>2
      <4> HIDE DEF r4, r8
      <4>2. /\ Load(r, InA(near[r])) \in Instr /\ Load(r4, InA(far[r])) \in Instr
            /\ Load(r8, InB(there[r])) \in Instr
        BY <4>1, Instructions
      <4>3. /\ Store(r, InB(there[r])) \in Instr /\ Store(r8, InB(lo[r])) \in Instr
            /\ Store(r4, InB(hi[r])) \in Instr
        BY <4>1, Instructions
      <4> QED
        BY <4>2, <4>3 DEF r4, r8
    <3>4. /\ code[2 * r + 1] \in Instr /\ code[2 * r + 2] \in Instr /\ code[2 * r + 9] \in Instr
          /\ code[2 * r + 10] \in Instr /\ code[2 * r + 17] \in Instr /\ code[2 * r + 18] \in Instr
      BY <1>3, <3>3
    <3> QED
      BY <3>1, <3>4
  <2> QED
    BY <2>1, <2>2
<1> HIDE DEF code
<1>5. Exchanges(code, near, far, there, lo, hi)
  BY <1>2, <1>3, <1>4 DEF Exchanges
<1> QED
  BY <1>5 DEF code, near, far, there, lo, hi

(* What these pieces of code touch.                                        *)
LEMMA EightMovesInside ==
    ASSUME NEW code, NEW from, NEW to, EightMoves(code, from, to), NEW b
    PROVE  /\ IsCode(code)
           /\ (\A c \in 0 .. 7 : from[c] < b /\ to[c] < b)
                => \A x \in 1 .. Len(code) : code[x].at.cell < b
<1>1. IsCode(code) /\ Len(code) = 16
  BY CodeOf DEF EightMoves
<1>2. ASSUME \A c \in 0 .. 7 : from[c] < b /\ to[c] < b, NEW x \in 1 .. 16
      PROVE  code[x].at.cell < b
  <2>1. PICK c \in 0 .. 7 : x = c + 1 \/ x = c + 9
    <3>1. CASE x <= 8
      <4>1. x - 1 \in 0 .. 7 /\ x = (x - 1) + 1
        BY <3>1
      <4> QED
        BY <4>1
    <3>2. CASE ~(x <= 8)
      <4>1. x - 9 \in 0 .. 7 /\ x = (x - 9) + 9
        BY <3>2
      <4> QED
        BY <4>1
    <3> QED
      BY <3>1, <3>2
  <2>2. code[c + 1] = Load(c, InA(from[c])) /\ code[c + 9] = Store(c, InB(to[c]))
    BY DEF EightMoves
  <2>3. code[c + 1].at.cell = from[c] /\ code[c + 9].at.cell = to[c]
    BY <2>2 DEF Load, Store, InA, InB
  <2> QED
    BY <1>2, <2>1, <2>3
<1> QED
  BY <1>1, <1>2

(* Likewise for exchanges of pairs.                                        *)
LEMMA SwapsInside ==
    ASSUME NEW code, NEW n \in Nat, NEW above, NEW below, Swaps(code, n, above, below), NEW b
    PROVE  /\ IsCode(code)
           /\ (\A q \in 0 .. n - 1 : above[q] < b /\ below[q] < b)
                => \A x \in 1 .. Len(code) : code[x].at.cell < b
<1>1. IsCode(code) /\ Len(code) = 4 * n
  <2>1. 4 * n \in Nat
    OBVIOUS
  <2> QED
    BY <2>1, CodeOf DEF Swaps
<1>2. ASSUME \A q \in 0 .. n - 1 : above[q] < b /\ below[q] < b, NEW x \in 1 .. 4 * n
      PROVE  code[x].at.cell < b
  <2>1. PICK q \in 0 .. n - 1 : x = 4 * q + 1 \/ x = 4 * q + 2 \/ x = 4 * q + 3 \/ x = 4 * q + 4
    BY QuarterOf
  <2>2. /\ code[4 * q + 1] = Load(0, InB(above[q])) /\ code[4 * q + 2] = Load(1, InB(below[q]))
        /\ code[4 * q + 3] = Store(1, InB(above[q])) /\ code[4 * q + 4] = Store(0, InB(below[q]))
    BY DEF Swaps
  <2>3. /\ code[4 * q + 1].at.cell = above[q] /\ code[4 * q + 2].at.cell = below[q]
        /\ code[4 * q + 3].at.cell = above[q] /\ code[4 * q + 4].at.cell = below[q]
    BY <2>2 DEF Load, Store, InB
  <2> QED
    BY <1>2, <2>1, <2>3
<1> QED
  BY <1>1, <1>2

(* Likewise for numbers that go one by one.                                *)
LEMMA CopiesInside ==
    ASSUME NEW code, NEW n \in Nat, NEW from, NEW to, Copies(code, n, from, to), NEW b
    PROVE  /\ IsCode(code)
           /\ (\A q \in 0 .. n - 1 : from[q] < b /\ to[q] < b)
                => \A x \in 1 .. Len(code) : code[x].at.cell < b
<1>1. IsCode(code) /\ Len(code) = 2 * n
  <2>1. 2 * n \in Nat
    OBVIOUS
  <2> QED
    BY <2>1, CodeOf DEF Copies
<1>2. ASSUME \A q \in 0 .. n - 1 : from[q] < b /\ to[q] < b, NEW x \in 1 .. 2 * n
      PROVE  code[x].at.cell < b
  <2>1. PICK q \in 0 .. n - 1 : x = 2 * q + 1 \/ x = 2 * q + 2
    BY HalfOf
  <2>2. code[2 * q + 1] = Load(0, InA(from[q])) /\ code[2 * q + 2] = Store(0, InB(to[q]))
    BY DEF Copies
  <2>3. code[2 * q + 1].at.cell = from[q] /\ code[2 * q + 2].at.cell = to[q]
    BY <2>2 DEF Load, Store, InA, InB
  <2> QED
    BY <1>2, <2>1, <2>3
<1> QED
  BY <1>1, <1>2

(* Likewise for quarter rows.                                              *)
LEMMA ExchangesInside ==
    ASSUME NEW code, NEW near, NEW far, NEW there, NEW lo, NEW hi,
           Exchanges(code, near, far, there, lo, hi), NEW b
    PROVE  /\ IsCode(code)
           /\ (\A r \in 0 .. 3 : near[r] < b /\ far[r] < b /\ there[r] < b /\ lo[r] < b /\ hi[r] < b)
                => \A x \in 1 .. Len(code) : code[x].at.cell < b
<1>1. IsCode(code) /\ Len(code) = 24
  BY CodeOf DEF Exchanges
<1>2. ASSUME \A r \in 0 .. 3 : /\ near[r] < b /\ far[r] < b
                               /\ there[r] < b /\ lo[r] < b /\ hi[r] < b,
             NEW x \in 1 .. 24
      PROVE  code[x].at.cell < b
  <2>1. PICK r \in 0 .. 3 : \/ x = 2 * r + 1 \/ x = 2 * r + 2 \/ x = 2 * r + 9
                            \/ x = 2 * r + 10 \/ x = 2 * r + 17 \/ x = 2 * r + 18
    BY SixthOf
  <2>2. /\ code[2 * r + 1].at = InA(near[r]) /\ code[2 * r + 2].at = InA(far[r])
        /\ code[2 * r + 9].at = InB(there[r]) /\ code[2 * r + 10].at = InB(there[r])
        /\ code[2 * r + 17].at = InB(lo[r]) /\ code[2 * r + 18].at = InB(hi[r])
    BY DEF Exchanges, Load, Store
  <2>3. /\ code[2 * r + 1].at.cell = near[r] /\ code[2 * r + 2].at.cell = far[r]
        /\ code[2 * r + 9].at.cell = there[r] /\ code[2 * r + 10].at.cell = there[r]
        /\ code[2 * r + 17].at.cell = lo[r] /\ code[2 * r + 18].at.cell = hi[r]
    BY <2>2 DEF InA, InB
  <2> QED
    BY <1>2, <2>1, <2>3
<1> QED
  BY <1>1, <1>2
-----------------------------------------------------------------------------
(***************************************************************************)
(* Where the loops are.                                                    *)
(***************************************************************************)
LEMMA RoundsBounds ==
    N \in Nat /\ i \in Nat /\ j \in Nat /\ i < N /\ Handled =>
      /\ Rounds \in 1 .. 23
      /\ M = 32 => Rounds = 16
      /\ M = 64 => Rounds = 8
      /\ M = 61 /\ Whole61 => Rounds = 23
      /\ M = 61 /\ ~Whole61 => Rounds \in 1 .. 8 /\ i + Rounds <= N
                               /\ (i + Rounds = i + 8 \/ i + Rounds = N)
<1>1. SUFFICES ASSUME N \in Nat, i \in Nat, j \in Nat, i < N, Handled
               PROVE  /\ Rounds \in 1 .. 23
                      /\ M = 32 => Rounds = 16
                      /\ M = 64 => Rounds = 8
                      /\ M = 61 /\ Whole61 => Rounds = 23
                      /\ M = 61 /\ ~Whole61 => Rounds \in 1 .. 8 /\ i + Rounds <= N
                                               /\ (i + Rounds = i + 8 \/ i + Rounds = N)
  OBVIOUS
<1>2. Min({i + 8, N}) = IF i + 8 <= N THEN i + 8 ELSE N
  BY <1>1, MinOfTwo
<1> DEFINE e == Min({i + 8, N})
<1>3. e - i \in 1 .. 8 /\ i + (e - i) <= N /\ (i + (e - i) = i + 8 \/ i + (e - i) = N)
  BY <1>1, <1>2
<1>4. M = 32 => Rounds = 16
  BY DEF Rounds
<1>5. M = 64 => Rounds = 8
  BY DEF Rounds
<1>6. M = 61 /\ Whole61 => Rounds = 23
  BY DEF Rounds
<1>7. M = 61 /\ ~Whole61 => Rounds = e - i
  BY DEF Rounds
<1> HIDE DEF e
<1>8. M = 32 \/ M = 64 \/ (M = 61 /\ Whole61) \/ (M = 61 /\ ~Whole61)
  BY <1>1 DEF Handled
<1> QED
  BY <1>3, <1>4, <1>5, <1>6, <1>7, <1>8

(* The loops stand at a block and a round of it, or are over.              *)
Position ==
    /\ M \in Nat /\ N \in Nat /\ i \in Nat /\ j \in Nat /\ k \in Nat
    /\ ~Handled => i = 0 /\ j = 0 /\ k = 0
    /\ Handled => /\ i % 8 = 0
                  /\ i < N  => j < M /\ j % BlockWidth = 0 /\ k < Rounds
                  /\ i >= N => j = 0 /\ k = 0

(* The blocks fit the columns, and in a shape the code is written for also *)
(* the rows.                                                               *)
LEMMA BlocksFit ==
    Position /\ Handled /\ i < N =>
      /\ M \in {32, 64} => j + 8 <= M
      /\ Supported /\ M # 61 => i + 8 <= N
      /\ Supported => N # 0
<1>1. SUFFICES ASSUME Position, Handled, i < N
               PROVE  /\ M \in {32, 64} => j + 8 <= M
                      /\ Supported /\ M # 61 => i + 8 <= N
                      /\ Supported => N # 0
  OBVIOUS
<1>2. i \in Nat /\ j \in Nat /\ N \in Nat /\ i % 8 = 0 /\ j < M /\ j % BlockWidth = 0
  BY <1>1 DEF Position
<1>3. M \in {32, 64} => j % 8 = 0
  BY <1>2 DEF BlockWidth
<1>4. Supported /\ M # 61 => N % 8 = 0
  BY DEF Supported
<1>5. M = 32 => j + 8 <= M
  BY <1>2, <1>3
<1>6. M = 64 => j + 8 <= M
  BY <1>2, <1>3
<1>7. Supported /\ M # 61 => i + 8 <= N
  BY <1>1, <1>2, <1>4
<1> QED
  BY <1>1, <1>2, <1>5, <1>6, <1>7

(* What a round runs is code, and it stays inside the matrices in a shape  *)
(* it is written for.                                                      *)
LEMMA CodeStaysInside ==
    ASSUME Position, Handled, i < N
    PROVE  /\ IsCode(Code)
           /\ Supported => \A x \in 1 .. Len(Code) : Code[x].at.cell < M * N
<1>0. /\ M \in Nat /\ N \in Nat /\ i \in Nat /\ j \in Nat /\ k \in Nat
      /\ j < M /\ j % BlockWidth = 0 /\ k < Rounds
  BY DEF Position
<1>1. /\ M \in {32, 64} => j + 8 <= M
      /\ Supported /\ M # 61 => i + 8 <= N
  BY BlocksFit
<1>2. /\ M = 32 => Rounds = 16
      /\ M = 64 => Rounds = 8
      /\ M = 61 /\ Whole61 => Rounds = 23
      /\ M = 61 /\ ~Whole61 => i + Rounds <= N /\ Rounds \in Nat
  BY <1>0, RoundsBounds
<1> DEFINE b == M * N
<1>3. CASE M = 32 /\ k < 8
  <2> DEFINE from == [c \in 0 .. 7 |-> Want(j + c, i + k)]
             to   == [c \in 0 .. 7 |-> BCell(j + k, i + c)]
  <2>1. i + k \in Nat /\ j + k \in Nat
    BY <1>0
  <2>2. EightMoves(Code, from, to)
    BY <1>0, <1>3, <2>1, RowToRowCode DEF Code, copy32
  <2>3. ASSUME Supported, NEW c \in 0 .. 7 PROVE from[c] < b /\ to[c] < b
    <3>1. /\ j + c \in Nat /\ j + c < M /\ i + k \in Nat /\ i + k < N
          /\ j + k \in Nat /\ j + k < M /\ i + c \in Nat /\ i + c < N
      BY <1>0, <1>1, <1>3, <2>3
    <3> QED
      BY <1>0, <3>1, CellsFit
  <2> HIDE DEF from, to, b
  <2>4. IsCode(Code) /\ ((\A c \in 0 .. 7 : from[c] < b /\ to[c] < b)
                          => \A x \in 1 .. Len(Code) : Code[x].at.cell < b)
    BY <2>2, EightMovesInside
  <2> QED
    BY <2>3, <2>4 DEF b
<1>4. CASE M = 32 /\ ~(k < 8)
  <2> DEFINE d     == k - 8
             above == [q \in 0 .. 6 - d |-> BCell(j + d, i + (d + 1 + q))]
             below == [q \in 0 .. 6 - d |-> BCell(j + (d + 1 + q), i + d)]
  <2>1. d \in 0 .. 7 /\ 7 - d \in Nat /\ (7 - d) - 1 = 6 - d
    BY <1>0, <1>2, <1>4
  <2>2. Code = swap32(d)
    BY <1>0, <1>4 DEF Code
  <2>3. ASSUME Supported, NEW q \in 0 .. (7 - d) - 1 PROVE above[q] < b /\ below[q] < b
    <3>1. /\ j + d \in Nat /\ j + d < M /\ i + d \in Nat /\ i + d < N
          /\ j + (d + 1 + q) \in Nat /\ j + (d + 1 + q) < M
          /\ i + (d + 1 + q) \in Nat /\ i + (d + 1 + q) < N /\ q \in 0 .. 6 - d
      BY <1>0, <1>1, <1>4, <2>1, <2>3
    <3> HIDE DEF d
    <3> QED
      BY <1>0, <3>1, CellsFit
  <2> HIDE DEF d
  <2>4. Swaps(Code, 7 - d, above, below)
    BY <1>0, <2>1, <2>2, Swap32Code
  <2> HIDE DEF above, below, b
  <2>5. IsCode(Code) /\ ((\A q \in 0 .. (7 - d) - 1 : above[q] < b /\ below[q] < b)
                          => \A x \in 1 .. Len(Code) : Code[x].at.cell < b)
    BY <2>1, <2>4, SwapsInside
  <2> QED
    BY <2>3, <2>5 DEF b
<1>5. CASE M = 64 /\ k < 4
  <2> DEFINE from == [c \in 0 .. 7 |-> Want(j + c, i + k)]
             to   == [c \in 0 .. 7 |-> BCell(TopRow(c), TopCol(k, c))]
  <2>1. Code = top64(k)
    BY <1>0, <1>5 DEF Code
  <2>2. EightMoves(Code, from, to)
    BY <1>0, <2>1, Top64Code
  <2>3. ASSUME Supported, NEW c \in 0 .. 7 PROVE from[c] < b /\ to[c] < b
    <3>1. c % 4 \in 0 .. 3
      OBVIOUS
    <3>2. /\ j + c \in Nat /\ j + c < M /\ i + k \in Nat /\ i + k < N
          /\ TopRow(c) \in Nat /\ TopRow(c) < M /\ TopCol(k, c) \in Nat /\ TopCol(k, c) < N
      BY <1>0, <1>1, <1>5, <2>3, <3>1 DEF TopRow, TopCol
    <3> QED
      BY <1>0, <3>2, CellsFit
  <2> HIDE DEF from, to, b
  <2>4. IsCode(Code) /\ ((\A c \in 0 .. 7 : from[c] < b /\ to[c] < b)
                          => \A x \in 1 .. Len(Code) : Code[x].at.cell < b)
    BY <2>2, EightMovesInside
  <2> QED
    BY <2>3, <2>4 DEF b
<1>6. CASE M = 64 /\ ~(k < 4)
  <2> DEFINE d     == k - 4
             near  == [r \in 0 .. 3 |-> Want(j + d, i + 4 + r)]
             far   == [r \in 0 .. 3 |-> Want(j + d + 4, i + 4 + r)]
             there == [r \in 0 .. 3 |-> BCell(j + d, i + 4 + r)]
             lo    == [r \in 0 .. 3 |-> BCell(j + d + 4, i + r)]
             hi    == [r \in 0 .. 3 |-> BCell(j + d + 4, i + 4 + r)]
  <2>1. d \in 0 .. 3 /\ d \in Nat
    BY <1>0, <1>2, <1>6
  <2>2. Code = low64(d)
    BY <1>0, <1>6 DEF Code
  <2>3. ASSUME Supported, NEW r \in 0 .. 3
        PROVE  near[r] < b /\ far[r] < b /\ there[r] < b /\ lo[r] < b /\ hi[r] < b
    <3>1. /\ j + d \in Nat /\ j + d < M /\ j + d + 4 \in Nat /\ j + d + 4 < M
          /\ i + r \in Nat /\ i + r < N /\ i + 4 + r \in Nat /\ i + 4 + r < N
      BY <1>0, <1>1, <1>6, <2>1, <2>3
    <3> HIDE DEF d
    <3> QED
      BY <1>0, <3>1, CellsFit
  <2> HIDE DEF d
  <2>4. Exchanges(Code, near, far, there, lo, hi)
    BY <1>0, <2>1, <2>2, Low64Code
  <2> HIDE DEF near, far, there, lo, hi, b
  <2>5. IsCode(Code) /\ ((\A r \in 0 .. 3 : /\ near[r] < b /\ far[r] < b
                                            /\ there[r] < b /\ lo[r] < b /\ hi[r] < b)
                          => \A x \in 1 .. Len(Code) : Code[x].at.cell < b)
    BY <2>4, ExchangesInside
  <2> QED
    BY <2>3, <2>5 DEF b
<1>7. CASE M = 61 /\ Whole61
  <2> DEFINE from == [c \in 0 .. 7 |-> Want(j + k, i + c)]
             to   == [c \in 0 .. 7 |-> BCell(j + k, i + c)]
  <2>1. j + k \in Nat /\ Code = ColumnToRow(i, j + k)
    BY <1>0, <1>7 DEF Code
  <2>2. EightMoves(Code, from, to)
    BY <1>0, <2>1, ColumnToRowCode
  <2>3. ASSUME NEW c \in 0 .. 7 PROVE from[c] < b /\ to[c] < b
    <3>1. j + k \in Nat /\ j + k < M /\ i + c \in Nat /\ i + c < N
      BY <1>0, <1>2, <1>7 DEF Whole61
    <3> QED
      BY <1>0, <3>1, CellsFit
  <2> HIDE DEF from, to, b
  <2>4. IsCode(Code) /\ ((\A c \in 0 .. 7 : from[c] < b /\ to[c] < b)
                          => \A x \in 1 .. Len(Code) : Code[x].at.cell < b)
    BY <2>2, EightMovesInside
  <2> QED
    BY <2>3, <2>4 DEF b
<1>8. CASE M = 61 /\ ~Whole61
  <2> DEFINE n    == BlockEnd - j
             from == [q \in 0 .. n - 1 |-> Want(j + q, i + k)]
             to   == [q \in 0 .. n - 1 |-> BCell(j + q, i + k)]
  <2>1. Code = edge61(k)
    BY <1>8 DEF Code
  <2>2. n \in 1 .. 23 /\ Copies(Code, n, from, to)
    BY <1>0, <2>1, Edge61Code
  <2>3. ASSUME NEW q \in 0 .. n - 1 PROVE from[q] < b /\ to[q] < b
    <3>1. j + q \in Nat /\ j + q < M
      BY <1>0, <2>2, <2>3 DEF BlockEnd
    <3>2. i + k \in Nat /\ i + k < N
      BY <1>0, <1>2, <1>8
    <3> HIDE DEF n
    <3> QED
      BY <1>0, <3>1, <3>2, CellsFit
  <2>4. n \in Nat
    BY <2>2
  <2> HIDE DEF n, from, to, b
  <2>5. IsCode(Code) /\ ((\A q \in 0 .. n - 1 : from[q] < b /\ to[q] < b)
                          => \A x \in 1 .. Len(Code) : Code[x].at.cell < b)
    BY <2>2, <2>4, CopiesInside
  <2> QED
    BY <2>3, <2>5 DEF b
<1> QED
  BY <1>3, <1>4, <1>5, <1>6, <1>7, <1>8 DEF Handled

(* What one round leaves: the state after its code.                        *)
RoundStart == [sets |-> cacheSets, missed |-> misses, outside |-> outside,
               reg |-> [r \in 0 .. 11 |-> 0], mem |-> B]

(* A round leaves what its code leaves.                                    *)
LEMMA RoundRuns ==
    ASSUME transpose_round
    PROVE  LET E == Executed(Code, RoundStart)
           IN  B' = E.mem /\ cacheSets' = E.sets /\ misses' = E.missed /\ outside' = E.outside
<1> DEFINE E == Executed(Code, RoundStart)
<1>1. \E st \in {E} : B' = st.mem /\ cacheSets' = st.sets /\ misses' = st.missed
                      /\ outside' = st.outside
  BY DEF transpose_round, RoundStart
<1> HIDE DEF E
<1>2. B' = E.mem /\ cacheSets' = E.sets /\ misses' = E.missed /\ outside' = E.outside
  BY <1>1
<1> QED
  BY <1>2 DEF E

(* All registers are there, and the memory is B.                           *)
LEMMA RoundStarts == DOMAIN RoundStart.reg = Regs /\ RoundStart.mem = B
BY DEF RoundStart, Regs

(* A round keeps the cells of B there are, counts misses, and stays inside *)
(* where it should.                                                        *)
LEMMA RoundKeeps ==
    ASSUME Position, transpose_round
    PROVE  /\ DOMAIN B' = DOMAIN B
           /\ misses \in Nat => misses' \in Nat
           /\ Supported /\ ~outside => ~outside'
<1>1. Handled /\ i < N
  BY DEF transpose_round
<1>2. IsCode(Code) /\ (Supported => \A x \in 1 .. Len(Code) : Code[x].at.cell < M * N)
  BY <1>1, CodeStaysInside
<1>3. M \in Nat /\ N \in Nat
  BY DEF Position
<1> DEFINE E == Executed(Code, RoundStart)
<1>4. B' = E.mem /\ misses' = E.missed /\ outside' = E.outside
  BY RoundRuns
<1>5. DOMAIN RoundStart.reg = Regs
  BY RoundStarts
<1>6. /\ DOMAIN E.mem = DOMAIN RoundStart.mem
      /\ RoundStart.missed \in Nat => E.missed \in Nat
      /\ ~RoundStart.outside /\ (\A x \in 1 .. Len(Code) : Code[x].at.cell < M * N) => ~E.outside
  BY <1>2, <1>3, <1>5, ExecutedKeeps
<1>7. RoundStart.mem = B /\ RoundStart.missed = misses /\ RoundStart.outside = outside
  BY DEF RoundStart
<1> HIDE DEF E
<1> QED
  BY <1>2, <1>4, <1>6, <1>7

(* A block has between one and 23 rounds.                                  *)
LEMMA RoundsPositive ==
    N \in Nat /\ i \in Nat /\ j \in Nat /\ i < N /\ Handled => Rounds \in 1 .. 23
BY RoundsBounds

(* The column is one of A.                                                 *)
LEMMA PositionBounds == Position => i \in Nat /\ j \in Nat /\ (j = 0 \/ j < M)
<1> SUFFICES ASSUME Position PROVE i \in Nat /\ j \in Nat /\ (j = 0 \/ j < M)
  OBVIOUS
<1>1. i \in Nat /\ j \in Nat /\ N \in Nat
  BY DEF Position
<1>2. i < N \/ i >= N
  BY <1>1
<1>3. j = 0 \/ j < M
  BY <1>2 DEF Position
<1> QED
  BY <1>1, <1>3

(* The loops go to the next round, the next block of the rows, or the next *)
(* rows.                                                                   *)
LEMMA RoundMoves ==
    ASSUME Position, transpose_round
    PROVE  /\ Position'
           /\ M' = M /\ N' = N
           /\ \/ k + 1 < Rounds /\ i' = i /\ j' = j /\ k' = k + 1
              \/ k + 1 = Rounds /\ j + BlockWidth < M /\ i' = i /\ j' = j + BlockWidth /\ k' = 0
              \/ k + 1 = Rounds /\ j + BlockWidth >= M /\ i' = i + 8 /\ j' = 0 /\ k' = 0
<1>1. /\ M \in Nat /\ N \in Nat /\ i \in Nat /\ j \in Nat /\ k \in Nat /\ Handled /\ i < N
      /\ i % 8 = 0 /\ j < M /\ j % BlockWidth = 0 /\ k < Rounds
  BY DEF Position, transpose_round
<1>2. Rounds \in 1 .. 23
  BY <1>1, RoundsBounds
<1>3. BlockWidth = IF M = 61 THEN 23 ELSE 8
  BY DEF BlockWidth
<1>4. /\ M' = M /\ N' = N
      /\ k' = IF k + 1 = Rounds THEN 0 ELSE k + 1
      /\ j' = IF ~(k + 1 = Rounds) THEN j ELSE IF j + BlockWidth >= M THEN 0 ELSE j + BlockWidth
      /\ i' = IF k + 1 = Rounds /\ j + BlockWidth >= M THEN i + 8 ELSE i
  BY DEF transpose_round
<1>5. Handled' /\ BlockWidth' = BlockWidth
  BY <1>1, <1>4 DEF Handled, BlockWidth
<1>6. (N \in Nat /\ i \in Nat /\ j \in Nat /\ i < N /\ Handled => Rounds \in 1 .. 23)'
  BY RoundsPositive, PTL
<1>7. CASE k + 1 # Rounds
  <2>1. k + 1 < Rounds /\ i' = i /\ j' = j /\ k' = k + 1
    BY <1>1, <1>2, <1>4, <1>7
  <2>2. Rounds' = Rounds
    BY <1>4, <2>1 DEF Rounds, Whole61
  <2>3. Position'
    BY <1>1, <1>2, <1>4, <1>5, <2>1, <2>2 DEF Position
  <2> QED
    BY <1>4, <2>1, <2>3
<1>8. CASE k + 1 = Rounds /\ j + BlockWidth < M
  <2>1. i' = i /\ j' = j + BlockWidth /\ k' = 0
    BY <1>1, <1>2, <1>3, <1>4, <1>8
  <2>2. Rounds' \in 1 .. 23 /\ j' \in Nat
    BY <1>1, <1>3, <1>4, <1>5, <1>6, <2>1
  <2>3. j' % BlockWidth = 0
    BY <1>1, <1>3, <2>1
  <2>4. Position'
    BY <1>1, <1>4, <1>5, <1>8, <2>1, <2>2, <2>3 DEF Position
  <2> QED
    BY <1>4, <1>8, <2>1, <2>4
<1>9. CASE k + 1 = Rounds /\ ~(j + BlockWidth < M)
  <2>1. i' = i + 8 /\ j' = 0 /\ k' = 0 /\ j + BlockWidth >= M
    BY <1>1, <1>2, <1>3, <1>4, <1>9
  <2>2. i' \in Nat /\ j' \in Nat /\ i' % 8 = 0
    BY <1>1, <2>1
  <2>3. i' < N' => Rounds' \in 1 .. 23
    BY <1>1, <1>4, <1>5, <1>6, <2>2
  <2>4. 0 % BlockWidth = 0 /\ 0 < M
    BY <1>1, <1>3 DEF Handled
  <2>5. Position'
    BY <1>1, <1>4, <1>5, <2>1, <2>2, <2>3, <2>4 DEF Position
  <2> QED
    BY <1>4, <1>9, <2>1, <2>5
<1> QED
  BY <1>7, <1>8, <1>9
-----------------------------------------------------------------------------
(***************************************************************************)
(* Types, and the borders of the matrices.                                 *)
(***************************************************************************)
Results == [funcid : {-1, 0}, correct : {0, 1}, misses : Nat \union {Old}]
Verdict == {0, 1} \X (Nat \union {Old})

TypesInv ==
    /\ pc \in {"exit", "register", "trace", "validate", "simulate", "collect", "print",
               "exiting"}
    /\ results \in Results
    /\ csim_results \in Nat \union {None, Old}
    /\ misses \in Nat
    /\ verdicts \in Seq(Verdict)
    /\ pc \notin {"exit", "exiting"} => Len(verdicts) = 0
    /\ pc = "exiting" => Len(verdicts) = 1
    /\ Len(verdicts) <= 2
    /\ M \in Nat /\ N \in Nat /\ i \in Nat /\ j \in 0 .. MAXN /\ k \in 0 .. 22
    /\ pc # "exit" => M \in 1 .. MAXN /\ N \in 1 .. MAXN
    /\ pc \notin {"exit", "register"} => DOMAIN B = 0 .. M * N + 7
    /\ pc = "trace" => Position

NeverOutside == Supported => ~outside

(* Misses are counted by natural numbers.                                  *)
LEMMA TouchMisses ==
    ASSUME NEW sets, NEW missed, missed \in Nat, NEW addr
    PROVE  Touch(sets, missed, addr).missed \in Nat
<1> DEFINE res == C!accessMem(sets[C!setIndex(addr)], C!tagIndex(addr)).res
<1>1. Touch(sets, missed, addr).missed = missed + IF res = "HIT" THEN 0 ELSE 1
  BY DEF Touch
<1> HIDE DEF res
<1> QED
  BY <1>1

(* The tester starts with its types.                                       *)
LEMMA TypesInit == Init => TypesInv /\ NeverOutside
<1> SUFFICES ASSUME Init PROVE TypesInv /\ NeverOutside
  OBVIOUS
<1> USE DEF Init
<1>1. results \in Results
  BY ShapeAssumption DEF Unknown, Results
<1>2. verdicts \in Seq(Verdict) /\ Len(verdicts) = 0
  OBVIOUS
<1>3. j \in 0 .. MAXN
  BY ShapeAssumption
<1> QED
  BY <1>1, <1>2, <1>3 DEF TypesInv, NeverOutside

(* So does a run of it.                                                    *)
LEMMA TypesStart ==
    ASSUME TypesInv, NeverOutside, Start
    PROVE  TypesInv' /\ NeverOutside'
<1> USE DEF Start
<1>1. PICK shape \in Shapes : M' = shape[1] /\ N' = shape[2]
  OBVIOUS
<1>2. M' \in Nat /\ N' \in Nat
  BY <1>1, ShapeAssumption
<1>3. results' \in Results
  BY ShapeAssumption DEF Unknown, Results
<1>4. verdicts' \in Seq(Verdict) /\ Len(verdicts') = 0
  OBVIOUS
<1>5. /\ pc' \in {"exit", "register"}
      /\ pc' # "exit" => M' \in 1 .. MAXN /\ N' \in 1 .. MAXN
  BY <1>2, ShapeAssumption
<1>6. i' \in Nat /\ j' \in 0 .. MAXN /\ k' \in 0 .. 22 /\ misses' \in Nat
      /\ csim_results' \in Nat \union {None, Old} /\ ~outside'
  BY ShapeAssumption
<1> QED
  BY <1>2, <1>3, <1>4, <1>5, <1>6 DEF TypesInv, NeverOutside

(* Registering and filling the matrices keep the types.                    *)
LEMMA TypesRegister ==
    ASSUME TypesInv, NeverOutside, registerFunctions
    PROVE  TypesInv' /\ NeverOutside'
<1> USE DEF registerFunctions
<1>1. results' \in Results
  BY DEF TypesInv, Results
<1>2. misses' \in Nat
  BY TouchMisses
<1>3. M \in 1 .. MAXN /\ N \in 1 .. MAXN /\ M' = M /\ N' = N /\ i' = 0 /\ j' = 0 /\ k' = 0
  BY DEF TypesInv
<1>4. DOMAIN B' = 0 .. M' * N' + 7
  BY <1>3 DEF initMatrix
<1>5. Handled' <=> Handled
  BY <1>3 DEF Handled
<1>6. (N \in Nat /\ i \in Nat /\ j \in Nat /\ i < N /\ Handled => Rounds \in 1 .. 23)'
  BY RoundsPositive, PTL
<1>7. 0 % BlockWidth' = 0
  <2>1. BlockWidth' = 23 \/ BlockWidth' = 8
    BY DEF BlockWidth
  <2> QED
    BY <2>1
<1>8. Position'
  <2>1. Handled' => Rounds' \in 1 .. 23
    BY <1>3, <1>6, ShapeAssumption
  <2>2. i' % 8 = 0
    BY <1>3
  <2> QED
    BY <1>3, <1>7, <2>1, <2>2, ShapeAssumption DEF Position
<1>9. pc' = "trace" /\ verdicts' = verdicts /\ csim_results' = csim_results /\ ~outside'
      /\ j' \in 0 .. MAXN
  BY <1>3, ShapeAssumption
<1> QED
  BY <1>1, <1>2, <1>3, <1>4, <1>8, <1>9 DEF TypesInv, NeverOutside

(* A round keeps the types, and touches nothing outside.                   *)
LEMMA TypesTrace ==
    ASSUME TypesInv, NeverOutside, Trace
    PROVE  TypesInv' /\ NeverOutside'
<1>1. Position /\ transpose_round /\ M \in 1 .. MAXN /\ N \in 1 .. MAXN /\ misses \in Nat
      /\ DOMAIN B = 0 .. M * N + 7
  BY DEF TypesInv, Trace
<1>2. /\ Position' /\ M' = M /\ N' = N
  BY <1>1, RoundMoves
<1>3. DOMAIN B' = DOMAIN B /\ misses' \in Nat /\ (Supported /\ ~outside => ~outside')
  BY <1>1, RoundKeeps
<1>4. Supported' <=> Supported
  BY <1>2 DEF Supported
<1>5. k' \in 0 .. 22
  <2>1. k \in Nat /\ N \in Nat /\ i \in Nat /\ j \in Nat /\ i < N /\ Handled /\ k < Rounds
    BY <1>1 DEF Position, transpose_round
  <2>2. Rounds \in 1 .. 23
    BY <2>1, RoundsBounds
  <2>3. \/ k + 1 < Rounds /\ i' = i /\ j' = j /\ k' = k + 1
        \/ k + 1 = Rounds /\ j + BlockWidth < M /\ i' = i /\ j' = j + BlockWidth /\ k' = 0
        \/ k + 1 = Rounds /\ j + BlockWidth >= M /\ i' = i + 8 /\ j' = 0 /\ k' = 0
    BY <1>1, RoundMoves
  <2> QED
    BY <2>1, <2>2, <2>3
<1>6. i' \in Nat /\ j' \in 0 .. MAXN
  <2>1. (Position => i \in Nat /\ j \in Nat /\ (j = 0 \/ j < M))'
    BY PositionBounds, PTL
  <2>2. i' \in Nat /\ j' \in Nat /\ (j' = 0 \/ j' < M')
    BY <1>2, <2>1
  <2> QED
    BY <1>1, <1>2, <2>2, ShapeAssumption
<1>7. /\ pc' = "trace" /\ pc = "trace" /\ results' = results /\ csim_results' = csim_results
      /\ verdicts' = verdicts
  BY DEF Trace
<1> QED
  BY <1>1, <1>2, <1>3, <1>4, <1>5, <1>6, <1>7 DEF TypesInv, NeverOutside

(* Validation, simulation and collecting keep the types.                   *)
LEMMA TypesFinish ==
    ASSUME TypesInv, NeverOutside,
           TraceEnds \/ Validate \/ (\E runs \in BOOLEAN : Simulate(runs)) \/ Collect
    PROVE  TypesInv' /\ NeverOutside'
<1>1. /\ pc \notin {"exit", "register", "exiting"}
      /\ pc' \in {"exit", "validate", "simulate", "collect", "print"}
      /\ M' = M /\ N' = N /\ B' = B /\ i' = i /\ j' = j /\ k' = k /\ outside' = outside
      /\ verdicts' = verdicts
  BY DEF TraceEnds, Validate, Simulate, Collect, transVars
<1>2. misses' \in Nat
  <2>1. CASE TraceEnds
    BY <2>1, TouchMisses DEF TraceEnds, TypesInv
  <2>2. CASE ~TraceEnds
    BY <2>2 DEF Validate, Simulate, Collect, transVars, TypesInv
  <2> QED
    BY <2>1, <2>2
<1>3. csim_results' \in Nat \union {None, Old}
  BY DEF TraceEnds, Validate, Simulate, Collect, TypesInv
<1>4. results' \in Results
  <2>1. CASE Validate
    BY <2>1 DEF Validate, TypesInv, Results
  <2>2. CASE Collect
    BY <2>2 DEF Collect, TypesInv, Results
  <2>3. CASE TraceEnds \/ \E runs \in BOOLEAN : Simulate(runs)
    BY <2>3 DEF TraceEnds, Simulate, TypesInv
  <2> QED
    BY <2>1, <2>2, <2>3
<1>5. Supported' <=> Supported
  BY <1>1 DEF Supported
<1> QED
  BY <1>1, <1>2, <1>3, <1>4, <1>5 DEF TypesInv, NeverOutside

(* Printing, exit and alarm keep the types; at most two verdicts are       *)
(* printed.                                                                *)
LEMMA TypesPrint ==
    ASSUME TypesInv, NeverOutside, Report \/ Exit \/ sigalrm_handler
    PROVE  TypesInv' /\ NeverOutside'
<1>1. UNCHANGED <<transVars, results, csim_results>>
  BY DEF Report, Exit, sigalrm_handler
<1>2. /\ M' = M /\ N' = N /\ B' = B /\ i' = i /\ j' = j /\ k' = k /\ outside' = outside
      /\ misses' = misses /\ results' = results /\ csim_results' = csim_results
  BY <1>1 DEF transVars
<1>3. Supported' <=> Supported
  BY <1>2 DEF Supported
<1>4. /\ pc' \in {"exit", "exiting"} /\ pc # "exit" /\ pc # "register"
      /\ pc' = "exiting" => Len(verdicts) = 0 /\ Len(verdicts') = 1
      /\ verdicts' \in Seq(Verdict) /\ Len(verdicts') <= 2
  <2>1. CASE Report
    <3>1. <<results.correct, results.misses>> \in Verdict
      BY DEF TypesInv, Results, Verdict
    <3>2. verdicts \in Seq(Verdict) /\ Len(verdicts) = 0 /\ pc = "print" /\ pc' = "exiting"
      BY <2>1 DEF TypesInv, Report
    <3> QED
      BY <2>1, <3>1, <3>2 DEF Report
  <2>2. CASE Exit
    BY <2>2 DEF Exit, TypesInv
  <2>3. CASE sigalrm_handler
    <3>1. <<0, 0>> \in Verdict
      BY DEF Verdict
    <3>2. verdicts \in Seq(Verdict) /\ Len(verdicts) <= 1 /\ pc' = "exit"
          /\ pc # "exit" /\ pc # "register" /\ verdicts' = Append(verdicts, <<0, 0>>)
      BY <2>3 DEF TypesInv, sigalrm_handler
    <3> QED
      BY <3>1, <3>2
  <2> QED
    BY <2>1, <2>2, <2>3
<1> QED
  BY <1>2, <1>3, <1>4 DEF TypesInv, NeverOutside

(* Every step keeps the types and stays inside.                            *)
LEMMA TypesNext == TypesInv /\ NeverOutside /\ [Next]_vars => TypesInv' /\ NeverOutside'
<1> SUFFICES ASSUME TypesInv, NeverOutside, [Next]_vars PROVE TypesInv' /\ NeverOutside'
  OBVIOUS
<1>1. CASE Start
  BY <1>1, TypesStart
<1>2. CASE registerFunctions
  BY <1>2, TypesRegister
<1>3. CASE Trace
  BY <1>3, TypesTrace
<1>4. CASE TraceEnds \/ Validate \/ (\E runs \in BOOLEAN : Simulate(runs)) \/ Collect
  BY <1>4, TypesFinish
<1>5. CASE Report \/ Exit \/ sigalrm_handler
  BY <1>5, TypesPrint
<1>6. CASE UNCHANGED vars
  <2>1. /\ M' = M /\ N' = N /\ B' = B /\ i' = i /\ j' = j /\ k' = k /\ outside' = outside
        /\ misses' = misses /\ results' = results /\ csim_results' = csim_results
        /\ pc' = pc /\ verdicts' = verdicts
    BY <1>6 DEF vars, transVars
  <2>2. (Supported' <=> Supported) /\ (Position' <=> Position)
    BY <2>1 DEF Supported, Position, Handled, BlockWidth, Rounds, Whole61
  <2> QED
    BY <2>1, <2>2 DEF TypesInv, NeverOutside
<1> QED
  BY <1>1, <1>2, <1>3, <1>4, <1>5, <1>6 DEF Next, eval_perf

(* The types hold in every state.                                          *)
LEMMA TypesAlways == Spec => []TypesInv
<1>1. TypesInv /\ NeverOutside /\ [Next]_vars => (TypesInv /\ NeverOutside)'
  BY TypesNext
<1> QED
  BY <1>1, TypesInit, PTL DEF Spec

(* The tester's variables have their types: the loops of transpose_submit  *)
(* never run out of their blocks, B stays the cells it was, and a run      *)
(* prints two verdicts at most (test-trans.c and trans.c).                 *)
THEOREM TypesHold == Spec => []TypeOK
<1>1. TypesInv => TypeOK
  BY DEF TypesInv, TypeOK, Results
<1> QED
  BY <1>1, TypesAlways, PTL

(* transpose_submit reads and writes nothing outside the two matrices in   *)
(* the shapes it is written for: 61 columns whatever the rows, and 32 or   *)
(* 64 columns with rows that fill the blocks.                              *)
THEOREM StaysInsideHolds == Spec => []StaysInside
<1>1. TypesInv /\ NeverOutside /\ [Next]_vars => (TypesInv /\ NeverOutside)'
  BY TypesNext
<1>2. TypesInv /\ NeverOutside => StaysInside
  BY DEF NeverOutside, StaysInside
<1> QED
  BY <1>1, <1>2, TypesInit, PTL DEF Spec
-----------------------------------------------------------------------------
(***************************************************************************)
(* The rounds of a block.  Cells of it are named by their row and column   *)
(* within the block.  Rounds of other shapes than these may overrun a row  *)
(* and meet their own cells again, so a row must be as long as a block.    *)
(***************************************************************************)
At(x, y) == BCell(j + x, i + y)
Its(x, y) == Want(j + x, i + y)

(* Width 32: rows of A are copied to rows of B, then the block is turned   *)
(* over its diagonal.                                                      *)
Block32(mem, kk) ==
    \A x, y \in 0 .. 7 :
      /\ kk <= 8 /\ x < kk => mem[At(x, y)] = Its(y, x)
      /\ kk >= 8 => mem[At(x, y)] = IF x < kk - 8 \/ y < kk - 8 THEN Its(x, y) ELSE Its(y, x)

(* Width 64: the lower left quarter waits in the upper right one.          *)
Block64(mem, kk) ==
    \A x, y \in 0 .. 3 :
      /\ kk <= 4 /\ y < kk => mem[At(x, y)] = Its(x, y) /\ mem[At(x, 4 + y)] = Its(4 + x, y)
      /\ kk >= 4 => /\ mem[At(x, y)] = Its(x, y)
                    /\ mem[At(x, 4 + y)] = IF x < kk - 4 THEN Its(x, 4 + y) ELSE Its(4 + x, y)
                    /\ x < kk - 4 => /\ mem[At(4 + x, y)] = Its(4 + x, y)
                                     /\ mem[At(4 + x, 4 + y)] = Its(4 + x, 4 + y)

(* Width 61: by rows of B, or by its columns where the block is cut off.   *)
Block61(mem, kk) ==
    \A x \in 0 .. 22, y \in 0 .. 7 :
      /\ Whole61 /\ x < kk => mem[At(x, y)] = Its(x, y)
      /\ ~Whole61 /\ j + x < M /\ y < kk => mem[At(x, y)] = Its(x, y)

BlockInv(mem, kk) ==
    /\ M = 32 => Block32(mem, kk)
    /\ M = 64 => Block64(mem, kk)
    /\ M = 61 => Block61(mem, kk)

InBlock(a, c) ==
    /\ a \in j .. j + BlockWidth - 1 /\ a < M
    /\ c \in i .. i + 7 /\ (M = 61 => c < N)

OthersKept(mem) ==
    \A n \in DOMAIN B : (\A a, c \in Nat : InBlock(a, c) => n # BCell(a, c)) => mem[n] = B[n]

(* The block lies in B, if the rows are long enough.                       *)
Places == 0 .. 7
Tame ==
    /\ M \in Nat /\ N \in Nat /\ i \in Nat /\ j \in Nat
    /\ M # 61 /\ N >= 8 /\ i < N /\ j + 8 <= M
    /\ DOMAIN B = 0 .. M * N + 7

(* The cells of the block are cells of B.                                  *)
LEMMA AtInB ==
    ASSUME Tame, NEW x \in Places, NEW y \in Places
    PROVE  At(x, y) \in DOMAIN B
<1>1. j + x \in Nat /\ j + x < M /\ i + y \in Nat /\ i + y < N + 7
  BY DEF Tame, Places
<1> QED
  BY <1>1, CellsFit DEF At, Tame

(* Different places of the block are different cells.                      *)
LEMMA AtsDiffer ==
    ASSUME Tame, NEW x \in Places, NEW y \in Places, NEW x2 \in Places, NEW y2 \in Places,
           At(x, y) = At(x2, y2)
    PROVE  x = x2 /\ y = y2
<1>1. /\ j + x \in Nat /\ i + y \in Nat /\ j + x2 \in Nat /\ i + y2 \in Nat
      /\ (i + y) - (i + y2) < N /\ (i + y2) - (i + y) < N /\ N \in Nat
  BY DEF Tame, Places
<1>2. j + x = j + x2 /\ i + y = i + y2
  BY <1>1, CellsDiffer DEF At
<1> QED
  BY <1>2 DEF Tame, Places

(* The places of the block are in it.                                      *)
LEMMA AtInBlock ==
    ASSUME Tame, NEW x \in Places, NEW y \in Places
    PROVE  InBlock(j + x, i + y) /\ j + x \in Nat /\ i + y \in Nat
BY DEF Tame, Places, InBlock, BlockWidth

(* A round that touches only cells of the block keeps the others.          *)
LEMMA OthersAreKept ==
    ASSUME Tame, NEW mem,
           \A n \in DOMAIN B : (\A x, y \in Places : n # At(x, y)) => mem[n] = B[n]
    PROVE  OthersKept(mem)
<1>1. SUFFICES ASSUME NEW n \in DOMAIN B, \A a, c \in Nat : InBlock(a, c) => n # BCell(a, c)
               PROVE  mem[n] = B[n]
  BY DEF OthersKept
<1>2. ASSUME NEW x \in Places, NEW y \in Places PROVE n # At(x, y)
  <2> DEFINE a == j + x
             c == i + y
  <2>1. InBlock(a, c) /\ a \in Nat /\ c \in Nat
    BY AtInBlock
  <2>2. At(x, y) = BCell(a, c)
    BY DEF At
  <2> HIDE DEF a, c
  <2> QED
    BY <1>1, <2>1, <2>2
<1> QED
  BY <1>2

Placed(cells, D) == \A c \in Places : cells[c] \in D
Once(cells) == \A c, c2 \in Places : cells[c] = cells[c2] => c = c2

Moved(from, to, old, new) ==
    /\ \A c \in Places : new[to[c]] = from[c]
    /\ \A n \in DOMAIN old : (\A c \in Places : n # to[c]) => new[n] = old[n]

(* Eight moves, as a round.                                                *)
LEMMA EightMovesRound ==
    ASSUME M \in Nat, N \in Nat, NEW code, NEW from, NEW to, EightMoves(code, from, to),
           NEW mem, mem = Executed(code, RoundStart).mem, Placed(to, DOMAIN B), Once(to)
    PROVE  Moved(from, to, B, mem)
<1>1. DOMAIN RoundStart.reg = Regs /\ RoundStart.mem = B
  BY RoundStarts
<1>2. /\ \A c \in 0 .. 7 : to[c] \in DOMAIN B
      /\ \A c, c2 \in 0 .. 7 : to[c] = to[c2] => c = c2
  BY DEF Placed, Once, Places
<1>3. /\ \A c \in 0 .. 7 : mem[to[c]] = from[c]
      /\ \A n \in DOMAIN B : (\A c \in 0 .. 7 : n # to[c]) => mem[n] = B[n]
  BY <1>1, <1>2, EightMovesEffect
<1> QED
  BY <1>3 DEF Moved, Places

(* Exchanges of pairs, as a round.                                         *)
LEMMA SwapsRound ==
    ASSUME M \in Nat, N \in Nat, NEW code, NEW n \in Nat, NEW above, NEW below,
           Swaps(code, n, above, below), NEW mem, mem = Executed(code, RoundStart).mem,
           Within(n, above, DOMAIN B), Within(n, below, DOMAIN B), Apart(n, above, below)
    PROVE  Swapped(n, above, below, B, mem)
<1>1. DOMAIN RoundStart.reg = Regs /\ RoundStart.mem = B
  BY RoundStarts
<1> QED
  BY <1>1, SwapsEffect

(* Exchanges of quarter rows, as a round.                                  *)
LEMMA ExchangesRound ==
    ASSUME M \in Nat, N \in Nat, NEW code, NEW near, NEW far, NEW there, NEW lo, NEW hi,
           Exchanges(code, near, far, there, lo, hi),
           NEW mem, mem = Executed(code, RoundStart).mem,
           Quartered(there, DOMAIN B), Quartered(lo, DOMAIN B), Quartered(hi, DOMAIN B),
           AllApart(there, lo, hi)
    PROVE  Exchanged(near, far, there, lo, hi, B, mem)
<1>1. DOMAIN RoundStart.reg = Regs /\ RoundStart.mem = B
  BY RoundStarts
<1> QED
  BY <1>1, ExchangesEffect

(* Width 32, first loop: one more row is copied.                           *)
LEMMA Copy32Round ==
    ASSUME Tame, k \in 0 .. 7, Block32(B, k),
           NEW mem, mem = Executed(copy32(k), RoundStart).mem
    PROVE  Block32(mem, k + 1) /\ OthersKept(mem)
<1> DEFINE from == [c \in 0 .. 7 |-> Want(j + c, i + k)]
           to   == [c \in 0 .. 7 |-> BCell(j + k, i + c)]
<1>0. M \in Nat /\ N \in Nat /\ i \in Nat /\ j \in Nat /\ i + k \in Nat /\ j + k \in Nat
      /\ k \in Places
  BY DEF Tame, Places
<1>1. EightMoves(copy32(k), from, to)
  BY <1>0, RowToRowCode DEF copy32
<1>2. ASSUME NEW c \in Places PROVE to[c] = At(k, c) /\ from[c] = Its(c, k)
  BY DEF At, Its, Places
<1> HIDE DEF from, to
<1>3. Placed(to, DOMAIN B)
  BY <1>0, <1>2, AtInB DEF Placed
<1>4. Once(to)
  <2>1. SUFFICES ASSUME NEW c \in Places, NEW c2 \in Places, to[c] = to[c2] PROVE c = c2
    BY DEF Once
  <2>2. At(k, c) = At(k, c2)
    BY <1>2, <2>1
  <2> QED
    BY <1>0, <2>2, AtsDiffer
<1>5. Moved(from, to, B, mem)
  BY <1>0, <1>1, <1>3, <1>4, EightMovesRound
<1>6. ASSUME NEW x \in Places, NEW y \in Places
      PROVE  mem[At(x, y)] = IF x = k THEN Its(y, k) ELSE B[At(x, y)]
  <2>1. CASE x = k
    <3>1. mem[to[y]] = from[y] /\ to[y] = At(k, y) /\ from[y] = Its(y, k)
      BY <1>2, <1>5 DEF Moved
    <3> QED
      BY <2>1, <3>1
  <2>2. CASE x # k
    <3>1. ASSUME NEW c \in Places PROVE At(x, y) # to[c]
      <4>1. At(x, y) # At(k, c)
        BY <1>0, <2>2, AtsDiffer
      <4> QED
        BY <1>2, <4>1
    <3>2. At(x, y) \in DOMAIN B
      BY AtInB
    <3> QED
      BY <1>5, <2>2, <3>1, <3>2 DEF Moved
  <2> QED
    BY <2>1, <2>2
<1>7. Block32(mem, k + 1)
  <2>1. ASSUME NEW x \in Places, NEW y \in Places, x < k + 1
        PROVE  mem[At(x, y)] = Its(y, x)
    <3>1. CASE x = k
      BY <1>6, <3>1
    <3>2. CASE x # k
      <4>1. k <= 8 /\ x < k /\ x \in 0 .. 7 /\ y \in 0 .. 7
        BY <2>1, <3>2 DEF Places
      <4>2. B[At(x, y)] = Its(y, x)
        BY <4>1 DEF Block32
      <4>3. mem[At(x, y)] = B[At(x, y)]
        BY <1>6, <3>2
      <4> QED
        BY <4>2, <4>3
    <3> QED
      BY <3>1, <3>2
  <2>2. k + 1 >= 8 => (k + 1) - 8 = 0 /\ \A x \in 0 .. 7 : x < k + 1 /\ ~(x < 0)
    OBVIOUS
  <2> QED
    BY <2>1, <2>2 DEF Block32, Places
<1>8. OthersKept(mem)
  <2>1. ASSUME NEW n \in DOMAIN B, \A x, y \in Places : n # At(x, y) PROVE mem[n] = B[n]
    <3>1. \A c \in Places : n # to[c]
      BY <1>0, <1>2, <2>1
    <3> QED
      BY <1>5, <3>1 DEF Moved
  <2> QED
    BY <2>1, OthersAreKept
<1> QED
  BY <1>7, <1>8

(* Width 32, second loop: one more row and column are turned over.         *)
LEMMA Swap32Round ==
    ASSUME Tame, k \in 8 .. 15, Block32(B, k),
           NEW mem, mem = Executed(swap32(k - 8), RoundStart).mem
    PROVE  Block32(mem, k + 1) /\ OthersKept(mem)
<1> DEFINE d     == k - 8
           n     == 7 - d
           above == [q \in 0 .. 6 - d |-> BCell(j + d, i + (d + 1 + q))]
           below == [q \in 0 .. 6 - d |-> BCell(j + (d + 1 + q), i + d)]
<1>0. /\ M \in Nat /\ N \in Nat /\ i \in Nat /\ j \in Nat
      /\ d \in 0 .. 7 /\ n \in Nat /\ n - 1 = 6 - d /\ n + d = 7 /\ d \in Places
      /\ k + 1 >= 8 /\ ~(k + 1 <= 8) /\ (k + 1) - 8 = d + 1 /\ k >= 8 /\ d \in Nat
  BY DEF Tame, Places
<1>1. \A x, y \in Places : B[At(x, y)] = IF x < d \/ y < d THEN Its(x, y) ELSE Its(y, x)
  BY <1>0 DEF Block32, Places
<1>2. mem = Executed(swap32(d), RoundStart).mem
  OBVIOUS
<1> HIDE DEF d
<1>3. Swaps(swap32(d), n, above, below)
  BY <1>0, Swap32Code
<1>4. ASSUME NEW q \in 0 .. n - 1
      PROVE  /\ d + 1 + q \in Places /\ d + 1 + q # d
             /\ above[q] = At(d, d + 1 + q) /\ below[q] = At(d + 1 + q, d)
  BY <1>0 DEF At, Places
<1> HIDE DEF above, below, n
<1>5. Within(n, above, DOMAIN B) /\ Within(n, below, DOMAIN B)
  <2>1. SUFFICES ASSUME NEW q \in 0 .. n - 1
                 PROVE  above[q] \in DOMAIN B /\ below[q] \in DOMAIN B
    BY DEF Within
  <2> DEFINE s == d + 1 + q
  <2>2. s \in Places /\ above[q] = At(d, s) /\ below[q] = At(s, d)
    BY <1>4
  <2> HIDE DEF s
  <2>3. At(d, s) \in DOMAIN B /\ At(s, d) \in DOMAIN B
    BY <1>0, <2>2, AtInB
  <2> QED
    BY <2>2, <2>3
<1>6. Apart(n, above, below)
  <2>1. SUFFICES ASSUME NEW q \in 0 .. n - 1, NEW q2 \in 0 .. n - 1
                 PROVE  /\ above[q] # below[q2]
                        /\ above[q] = above[q2] => q = q2
                        /\ below[q] = below[q2] => q = q2
    BY DEF Apart
  <2> DEFINE s  == d + 1 + q
             s2 == d + 1 + q2
  <2>2. /\ s \in Places /\ s # d /\ above[q] = At(d, s) /\ below[q] = At(s, d)
        /\ s2 \in Places /\ above[q2] = At(d, s2) /\ below[q2] = At(s2, d)
    BY <1>4
  <2>3. s = s2 => q = q2
    BY <1>0
  <2> HIDE DEF s, s2
  <2>4. At(d, s) # At(s2, d)
    BY <1>0, <2>2, AtsDiffer
  <2>5. At(d, s) = At(d, s2) => s = s2
    BY <1>0, <2>2, AtsDiffer
  <2>6. At(s, d) = At(s2, d) => s = s2
    BY <1>0, <2>2, AtsDiffer
  <2> QED
    BY <2>2, <2>3, <2>4, <2>5, <2>6
<1>7. Swapped(n, above, below, B, mem)
  BY <1>0, <1>2, <1>3, <1>5, <1>6, SwapsRound
<1>8. ASSUME NEW s \in Places, s > d
      PROVE  mem[At(d, s)] = B[At(s, d)] /\ mem[At(s, d)] = B[At(d, s)]
  <2> DEFINE q == s - (d + 1)
  <2>1. q \in 0 .. n - 1 /\ d + 1 + q = s
    BY <1>0, <1>8 DEF Places
  <2> HIDE DEF q
  <2>2. above[q] = At(d, s) /\ below[q] = At(s, d)
    BY <1>4, <2>1
  <2>3. mem[above[q]] = B[below[q]] /\ mem[below[q]] = B[above[q]]
    BY <1>7, <2>1 DEF Swapped
  <2> QED
    BY <2>2, <2>3
<1>9. ASSUME NEW m \in DOMAIN B, \A s \in Places : s > d => m # At(d, s) /\ m # At(s, d)
      PROVE  mem[m] = B[m]
  <2>1. ASSUME NEW q \in 0 .. n - 1 PROVE m # above[q] /\ m # below[q]
    <3> DEFINE s == d + 1 + q
    <3>1. s > d /\ s \in Places /\ above[q] = At(d, s) /\ below[q] = At(s, d)
      BY <1>0, <1>4
    <3> HIDE DEF s
    <3> QED
      BY <1>9, <3>1
  <2> QED
    BY <1>7, <2>1 DEF Swapped
<1>10. ASSUME NEW x \in Places, NEW y \in Places
       PROVE  mem[At(x, y)] = IF x < d + 1 \/ y < d + 1 THEN Its(x, y) ELSE Its(y, x)
  <2>1. CASE x = d /\ y > d
    <3>1. mem[At(d, y)] = B[At(y, d)]
      BY <1>8, <2>1
    <3>2. B[At(y, d)] = IF y < d \/ d < d THEN Its(y, d) ELSE Its(d, y)
      BY <1>0, <1>1
    <3>3. ~(y < d) /\ ~(d < d) /\ d < d + 1
      BY <1>0, <2>1 DEF Places
    <3> QED
      BY <2>1, <3>1, <3>2, <3>3
  <2>2. CASE y = d /\ x > d
    <3>1. mem[At(x, d)] = B[At(d, x)]
      BY <1>8, <2>2
    <3>2. B[At(d, x)] = IF d < d \/ x < d THEN Its(d, x) ELSE Its(x, d)
      BY <1>0, <1>1
    <3>3. ~(x < d) /\ ~(d < d) /\ d < d + 1
      BY <1>0, <2>2 DEF Places
    <3> QED
      BY <2>2, <3>1, <3>2, <3>3
  <2>3. CASE ~(x = d /\ y > d) /\ ~(y = d /\ x > d)
    <3>1. ASSUME NEW s \in Places, s > d PROVE At(x, y) # At(d, s) /\ At(x, y) # At(s, d)
      <4>1. ~(x = d /\ y = s) /\ ~(x = s /\ y = d)
        BY <2>3, <3>1
      <4>2. At(x, y) # At(d, s)
        BY <1>0, <4>1, AtsDiffer
      <4>3. At(x, y) # At(s, d)
        BY <1>0, <4>1, AtsDiffer
      <4> QED
        BY <4>2, <4>3
    <3>2. At(x, y) \in DOMAIN B
      BY AtInB
    <3>3. mem[At(x, y)] = B[At(x, y)]
      BY <1>9, <3>1, <3>2
    <3>4. B[At(x, y)] = IF x < d \/ y < d THEN Its(x, y) ELSE Its(y, x)
      BY <1>1
    <3>5. x < d + 1 \/ y < d + 1 => x < d \/ y < d \/ x = y
      BY <1>0, <2>3 DEF Places
    <3>6. x < d \/ y < d => x < d + 1 \/ y < d + 1
      BY <1>0 DEF Places
    <3> QED
      BY <3>3, <3>4, <3>5, <3>6
  <2> QED
    BY <2>1, <2>2, <2>3
<1>11. Block32(mem, k + 1)
  BY <1>0, <1>10 DEF Block32, Places
<1>12. OthersKept(mem)
  <2>1. ASSUME NEW m \in DOMAIN B, \A x, y \in Places : m # At(x, y) PROVE mem[m] = B[m]
    <3>1. \A s \in Places : s > d => m # At(d, s) /\ m # At(s, d)
      BY <1>0, <2>1
    <3> QED
      BY <1>9, <3>1
  <2> QED
    BY <2>1, OthersAreKept
<1> QED
  BY <1>11, <1>12

(* Width 64, first loop: one more column of the upper half, and of the     *)
(* quarter that waits.                                                     *)
LEMMA Top64Round ==
    ASSUME Tame, k \in 0 .. 3, Block64(B, k),
           NEW mem, mem = Executed(top64(k), RoundStart).mem
    PROVE  Block64(mem, k + 1) /\ OthersKept(mem)
<1> DEFINE from == [c \in 0 .. 7 |-> Want(j + c, i + k)]
           to   == [c \in 0 .. 7 |-> BCell(TopRow(c), TopCol(k, c))]
           Row(c) == IF c < 4 THEN c ELSE c - 4
           Col(c) == IF c < 4 THEN k ELSE 4 + k
<1>0. M \in Nat /\ N \in Nat /\ i \in Nat /\ j \in Nat /\ k \in Nat
      /\ k \in Places /\ 4 + k \in Places
  BY DEF Tame, Places
<1>1. EightMoves(top64(k), from, to)
  BY <1>0, Top64Code
<1>2. ASSUME NEW c \in Places
      PROVE  /\ to[c] = At(Row(c), Col(c)) /\ from[c] = Its(c, k)
             /\ Row(c) \in Places /\ Row(c) < 4 /\ Col(c) \in Places
  <2>1. c \in 0 .. 7 /\ (c < 4 => c % 4 = c) /\ (~(c < 4) => c % 4 = c - 4)
    BY DEF Places
  <2>2. TopRow(c) = j + Row(c)
    BY <2>1 DEF TopRow
  <2>3. TopCol(k, c) = i + Col(c)
    BY <1>0 DEF TopCol
  <2>4. Row(c) \in Places /\ Row(c) < 4 /\ Col(c) \in Places
    BY <1>0, <2>1 DEF Places
  <2> HIDE DEF Row, Col
  <2>5. to[c] = At(Row(c), Col(c)) /\ from[c] = Its(c, k)
    BY <2>1, <2>2, <2>3 DEF At, Its
  <2> QED
    BY <2>4, <2>5
<1>3. ASSUME NEW c \in Places, NEW c2 \in Places, Row(c) = Row(c2), Col(c) = Col(c2)
      PROVE  c = c2
  BY <1>0, <1>3 DEF Places
<1>4. ASSUME NEW x \in Quarter
      PROVE  /\ x \in Places /\ 4 + x \in Places
             /\ Row(x) = x /\ Col(x) = k /\ Row(4 + x) = x /\ Col(4 + x) = 4 + k
  BY DEF Quarter, Places
<1>5. \A c \in Places : Col(c) = k \/ Col(c) = 4 + k
  OBVIOUS
<1> HIDE DEF from, to, Row, Col
<1>6. Placed(to, DOMAIN B)
  BY <1>2, AtInB DEF Placed
<1>7. Once(to)
  <2>1. SUFFICES ASSUME NEW c \in Places, NEW c2 \in Places, to[c] = to[c2] PROVE c = c2
    BY DEF Once
  <2>2. At(Row(c), Col(c)) = At(Row(c2), Col(c2))
    BY <1>2, <2>1
  <2>3. Row(c) \in Places /\ Col(c) \in Places /\ Row(c2) \in Places /\ Col(c2) \in Places
    BY <1>2
  <2>4. Row(c) = Row(c2) /\ Col(c) = Col(c2)
    BY <2>2, <2>3, AtsDiffer
  <2> QED
    BY <1>3, <2>4
<1>8. Moved(from, to, B, mem)
  BY <1>0, <1>1, <1>6, <1>7, EightMovesRound
<1>9. ASSUME NEW x \in Quarter
      PROVE  mem[At(x, k)] = Its(x, k) /\ mem[At(x, 4 + k)] = Its(4 + x, k)
  <2>1. to[x] = At(x, k) /\ from[x] = Its(x, k) /\ to[4 + x] = At(x, 4 + k)
        /\ from[4 + x] = Its(4 + x, k) /\ x \in Places /\ 4 + x \in Places
    BY <1>2, <1>4
  <2> QED
    BY <1>8, <2>1 DEF Moved
<1>10. ASSUME NEW x \in Places, NEW y \in Places, y # k, y # 4 + k
       PROVE  mem[At(x, y)] = B[At(x, y)]
  <2>1. ASSUME NEW c \in Places PROVE At(x, y) # to[c]
    <3>1. Row(c) \in Places /\ Col(c) \in Places /\ to[c] = At(Row(c), Col(c)) /\ Col(c) # y
      BY <1>2, <1>5, <1>10
    <3> QED
      BY <3>1, AtsDiffer
  <2>2. At(x, y) \in DOMAIN B
    BY AtInB
  <2> QED
    BY <1>8, <2>1, <2>2 DEF Moved
<1>11. ASSUME NEW x \in Quarter, NEW y \in Quarter, y < k + 1
       PROVE  mem[At(x, y)] = Its(x, y) /\ mem[At(x, 4 + y)] = Its(4 + x, y)
  <2>1. CASE y = k
    BY <1>9, <2>1
  <2>2. CASE y # k
    <3>1. y < k /\ k <= 4 /\ y # 4 + k /\ 4 + y # k /\ 4 + y # 4 + k
          /\ x \in Places /\ y \in Places /\ 4 + y \in Places /\ x \in 0 .. 3 /\ y \in 0 .. 3
      BY <1>11, <2>2 DEF Quarter, Places
    <3>2. B[At(x, y)] = Its(x, y) /\ B[At(x, 4 + y)] = Its(4 + x, y)
      BY <3>1 DEF Block64
    <3>3. mem[At(x, y)] = B[At(x, y)]
      BY <1>10, <2>2, <3>1
    <3> DEFINE y4 == 4 + y
    <3>4. y4 # k /\ y4 # 4 + k /\ y4 \in Places
      BY <3>1
    <3> HIDE DEF y4
    <3>5. mem[At(x, y4)] = B[At(x, y4)]
      BY <1>10, <3>1, <3>4
    <3> QED
      BY <3>2, <3>3, <3>5 DEF y4
  <2> QED
    BY <2>1, <2>2
<1>12. Block64(mem, k + 1)
  <2>1. k + 1 <= 4 /\ (k + 1 >= 4 => (k + 1) - 4 = 0 /\ \A y \in 0 .. 3 : y < k + 1 /\ ~(y < 0))
    OBVIOUS
  <2> QED
    BY <1>11, <2>1 DEF Block64, Quarter
<1>13. OthersKept(mem)
  <2>1. ASSUME NEW n \in DOMAIN B, \A x, y \in Places : n # At(x, y) PROVE mem[n] = B[n]
    <3>1. \A c \in Places : n # to[c]
      BY <1>2, <2>1
    <3> QED
      BY <1>8, <3>1 DEF Moved
  <2> QED
    BY <2>1, OthersAreKept
<1> QED
  BY <1>12, <1>13

(* Width 64, second loop: one more row of the lower half, and of the       *)
(* quarter that waited.                                                    *)
LEMMA Low64Round ==
    ASSUME Tame, k \in 4 .. 7, Block64(B, k),
           NEW mem, mem = Executed(low64(k - 4), RoundStart).mem
    PROVE  Block64(mem, k + 1) /\ OthersKept(mem)
<1> DEFINE d     == k - 4
           near  == [r \in 0 .. 3 |-> Want(j + d, i + 4 + r)]
           far   == [r \in 0 .. 3 |-> Want(j + d + 4, i + 4 + r)]
           there == [r \in 0 .. 3 |-> BCell(j + d, i + 4 + r)]
           lo    == [r \in 0 .. 3 |-> BCell(j + d + 4, i + r)]
           hi    == [r \in 0 .. 3 |-> BCell(j + d + 4, i + 4 + r)]
<1>0. /\ M \in Nat /\ N \in Nat /\ i \in Nat /\ j \in Nat
      /\ d \in 0 .. 3 /\ d \in Nat /\ d \in Places /\ 4 + d \in Places /\ d \in Quarter
      /\ k + 1 >= 4 /\ ~(k + 1 <= 4) /\ (k + 1) - 4 = d + 1 /\ k >= 4
  BY DEF Tame, Places, Quarter
<1>1. \A x, y \in Quarter :
        /\ B[At(x, y)] = Its(x, y)
        /\ B[At(x, 4 + y)] = IF x < d THEN Its(x, 4 + y) ELSE Its(4 + x, y)
        /\ x < d => B[At(4 + x, y)] = Its(4 + x, y) /\ B[At(4 + x, 4 + y)] = Its(4 + x, 4 + y)
  BY <1>0 DEF Block64, Quarter
<1>2. mem = Executed(low64(d), RoundStart).mem
  OBVIOUS
<1> HIDE DEF d
<1>3. Exchanges(low64(d), near, far, there, lo, hi)
  BY <1>0, Low64Code
<1>4. ASSUME NEW r \in Quarter
      PROVE  /\ near[r] = Its(d, 4 + r) /\ far[r] = Its(4 + d, 4 + r)
             /\ there[r] = At(d, 4 + r) /\ lo[r] = At(4 + d, r) /\ hi[r] = At(4 + d, 4 + r)
             /\ r \in Places /\ 4 + r \in Places
  <2>1. r \in 0 .. 3 /\ j + d + 4 = j + (4 + d) /\ i + 4 + r = i + (4 + r)
        /\ r \in Places /\ 4 + r \in Places
    BY <1>0 DEF Quarter, Places
  <2> QED
    BY <2>1 DEF At, Its
<1> HIDE DEF near, far, there, lo, hi
<1>5. Quartered(there, DOMAIN B) /\ Quartered(lo, DOMAIN B) /\ Quartered(hi, DOMAIN B)
  <2>1. SUFFICES ASSUME NEW r \in Quarter
                 PROVE  there[r] \in DOMAIN B /\ lo[r] \in DOMAIN B /\ hi[r] \in DOMAIN B
    BY DEF Quartered
  <2> DEFINE d4 == 4 + d
             r4 == 4 + r
  <2>2. /\ there[r] = At(d, r4) /\ lo[r] = At(d4, r) /\ hi[r] = At(d4, r4)
        /\ r \in Places /\ r4 \in Places /\ d \in Places /\ d4 \in Places
    BY <1>0, <1>4
  <2> HIDE DEF d4, r4
  <2>3. At(d, r4) \in DOMAIN B /\ At(d4, r) \in DOMAIN B /\ At(d4, r4) \in DOMAIN B
    BY <2>2, AtInB
  <2> QED
    BY <2>2, <2>3
<1>6. AllApart(there, lo, hi)
  <2>1. SUFFICES ASSUME NEW r \in Quarter, NEW r2 \in Quarter
                 PROVE  /\ there[r] # lo[r2] /\ there[r] # hi[r2] /\ lo[r] # hi[r2]
                        /\ there[r] = there[r2] => r = r2
                        /\ lo[r] = lo[r2] => r = r2
                        /\ hi[r] = hi[r2] => r = r2
    BY DEF AllApart
  <2> DEFINE d4 == 4 + d
             r4 == 4 + r
             s4 == 4 + r2
  <2>2. /\ there[r] = At(d, r4) /\ lo[r] = At(d4, r) /\ hi[r] = At(d4, r4)
        /\ there[r2] = At(d, s4) /\ lo[r2] = At(d4, r2) /\ hi[r2] = At(d4, s4)
        /\ r \in Places /\ r4 \in Places /\ r2 \in Places /\ s4 \in Places
        /\ d \in Places /\ d4 \in Places
    BY <1>0, <1>4
  <2>3. d # d4 /\ r # s4 /\ (r4 = s4 => r = r2)
    BY <1>0 DEF Quarter
  <2> HIDE DEF d4, r4, s4
  <2>4. At(d, r4) # At(d4, r2) /\ At(d, r4) # At(d4, s4) /\ At(d4, r) # At(d4, s4)
    BY <2>2, <2>3, AtsDiffer
  <2>5. /\ At(d, r4) = At(d, s4) => r4 = s4
        /\ At(d4, r) = At(d4, r2) => r = r2
        /\ At(d4, r4) = At(d4, s4) => r4 = s4
    BY <2>2, AtsDiffer
  <2> QED
    BY <2>2, <2>3, <2>4, <2>5
<1>7. Exchanged(near, far, there, lo, hi, B, mem)
  BY <1>0, <1>2, <1>3, <1>5, <1>6, ExchangesRound
<1>8. ASSUME NEW r \in Quarter
      PROVE  /\ mem[At(d, 4 + r)] = Its(d, 4 + r)
             /\ mem[At(4 + d, r)] = Its(4 + d, r)
             /\ mem[At(4 + d, 4 + r)] = Its(4 + d, 4 + r)
  <2>1. mem[there[r]] = near[r] /\ mem[lo[r]] = B[there[r]] /\ mem[hi[r]] = far[r]
    BY <1>7 DEF Exchanged
  <2>2. B[At(d, 4 + r)] = Its(4 + d, r)
    <3>1. ~(d < d)
      BY <1>0
    <3> QED
      BY <1>0, <1>1, <3>1
  <2> QED
    BY <1>4, <2>1, <2>2
<1>9. ASSUME NEW x \in Places, NEW y \in Places, x # 4 + d, x = d => y < 4
      PROVE  mem[At(x, y)] = B[At(x, y)]
  <2>1. ASSUME NEW r \in Quarter
        PROVE  At(x, y) # there[r] /\ At(x, y) # lo[r] /\ At(x, y) # hi[r]
    <3> DEFINE d4 == 4 + d
               r4 == 4 + r
    <3>1. /\ there[r] = At(d, r4) /\ lo[r] = At(d4, r) /\ hi[r] = At(d4, r4)
          /\ r \in Places /\ r4 \in Places /\ d \in Places /\ d4 \in Places
      BY <1>0, <1>4
    <3>2. x # d4 /\ ~(x = d /\ y = r4)
      BY <1>9 DEF Quarter, Places
    <3> HIDE DEF d4, r4
    <3>3. At(x, y) # At(d, r4) /\ At(x, y) # At(d4, r) /\ At(x, y) # At(d4, r4)
      BY <3>1, <3>2, AtsDiffer
    <3> QED
      BY <3>1, <3>3
  <2>2. At(x, y) \in DOMAIN B
    BY AtInB
  <2> QED
    BY <1>7, <2>1, <2>2 DEF Exchanged
<1>10. ASSUME NEW x \in Quarter, NEW y \in Quarter
       PROVE  /\ mem[At(x, y)] = Its(x, y)
              /\ mem[At(x, 4 + y)] = IF x < d + 1 THEN Its(x, 4 + y) ELSE Its(4 + x, y)
              /\ x < d + 1 => /\ mem[At(4 + x, y)] = Its(4 + x, y)
                              /\ mem[At(4 + x, 4 + y)] = Its(4 + x, 4 + y)
  <2> DEFINE x4 == 4 + x
             y4 == 4 + y
  <2>1. /\ x \in Places /\ y \in Places /\ x4 \in Places /\ y4 \in Places
        /\ x # 4 + d /\ y < 4 /\ ~(y4 < 4) /\ (x4 = 4 + d <=> x = d) /\ x4 # d
        /\ (x < d + 1 <=> x < d \/ x = d) /\ ~(d < d)
    BY <1>0 DEF Places, Quarter
  <2>2. /\ B[At(x, y)] = Its(x, y)
        /\ B[At(x, y4)] = IF x < d THEN Its(x, y4) ELSE Its(x4, y)
        /\ x < d => B[At(x4, y)] = Its(x4, y) /\ B[At(x4, y4)] = Its(x4, y4)
    BY <1>1
  <2>3. x = d => /\ mem[At(x, y4)] = Its(x, y4)
                 /\ mem[At(x4, y)] = Its(x4, y)
                 /\ mem[At(x4, y4)] = Its(x4, y4)
    BY <1>8
  <2> HIDE DEF x4, y4
  <2>4. mem[At(x, y)] = B[At(x, y)]
    BY <1>9, <2>1
  <2>5. x # d => mem[At(x, y4)] = B[At(x, y4)]
    BY <1>9, <2>1
  <2>6. x # d => mem[At(x4, y)] = B[At(x4, y)] /\ mem[At(x4, y4)] = B[At(x4, y4)]
    BY <1>9, <2>1
  <2>7. /\ mem[At(x, y)] = Its(x, y)
        /\ mem[At(x, y4)] = IF x < d + 1 THEN Its(x, y4) ELSE Its(x4, y)
        /\ x < d + 1 => mem[At(x4, y)] = Its(x4, y) /\ mem[At(x4, y4)] = Its(x4, y4)
    BY <2>1, <2>2, <2>3, <2>4, <2>5, <2>6
  <2> QED
    BY <2>7 DEF x4, y4
<1>11. Block64(mem, k + 1)
  BY <1>0, <1>10 DEF Block64, Quarter
<1>12. OthersKept(mem)
  <2>1. ASSUME NEW m \in DOMAIN B, \A x, y \in Places : m # At(x, y) PROVE mem[m] = B[m]
    <3>1. ASSUME NEW r \in Quarter PROVE m # there[r] /\ m # lo[r] /\ m # hi[r]
      BY <1>0, <1>4, <2>1
    <3> QED
      BY <1>7, <3>1 DEF Exchanged
  <2> QED
    BY <2>1, OthersAreKept
<1> QED
  BY <1>11, <1>12

(* Width 61.                                                               *)
Fits61 ==
    /\ M = 61 /\ N \in Nat /\ i \in Nat /\ j \in Nat
    /\ i < N /\ j < M /\ DOMAIN B = 0 .. M * N + 7

Inside(x, y) == x \in 0 .. 22 /\ y \in Places /\ j + x < M /\ i + y < N

(* The cells of the block that are inside the matrix are cells of B.       *)
LEMMA InsideInB ==
    ASSUME Fits61, NEW x, NEW y, Inside(x, y)
    PROVE  At(x, y) \in DOMAIN B
<1>1. M \in Nat /\ N \in Nat /\ j + x \in Nat /\ j + x < M /\ i + y \in Nat /\ i + y < N + 7
  BY DEF Fits61, Inside, Places
<1> QED
  BY <1>1, CellsFit DEF At, Fits61

(* Different places are different cells.                                   *)
LEMMA InsidesDiffer ==
    ASSUME Fits61, NEW x, NEW y, NEW x2, NEW y2, Inside(x, y), Inside(x2, y2),
           At(x, y) = At(x2, y2)
    PROVE  x = x2 /\ y = y2
<1>1. /\ j + x \in Nat /\ i + y \in Nat /\ j + x2 \in Nat /\ i + y2 \in Nat
      /\ (i + y) - (i + y2) < N /\ (i + y2) - (i + y) < N /\ N \in Nat
  BY DEF Fits61, Inside, Places
<1>2. j + x = j + x2 /\ i + y = i + y2
  BY <1>1, CellsDiffer DEF At
<1> QED
  BY <1>2 DEF Fits61, Inside, Places

(* The places are in the block.                                            *)
LEMMA InsideInBlock ==
    ASSUME Fits61, NEW x, NEW y, Inside(x, y)
    PROVE  InBlock(j + x, i + y) /\ j + x \in Nat /\ i + y \in Nat
BY DEF Fits61, Inside, Places, InBlock, BlockWidth

(* A round that touches only cells of the block keeps the others.          *)
LEMMA OthersAreKept61 ==
    ASSUME Fits61, NEW mem,
           \A n \in DOMAIN B : (\A x, y : Inside(x, y) => n # At(x, y)) => mem[n] = B[n]
    PROVE  OthersKept(mem)
<1>1. SUFFICES ASSUME NEW n \in DOMAIN B, \A a, c \in Nat : InBlock(a, c) => n # BCell(a, c)
               PROVE  mem[n] = B[n]
  BY DEF OthersKept
<1>2. ASSUME NEW x, NEW y, Inside(x, y) PROVE n # At(x, y)
  <2> DEFINE a == j + x
             c == i + y
  <2>1. InBlock(a, c) /\ a \in Nat /\ c \in Nat
    BY <1>2, InsideInBlock
  <2>2. At(x, y) = BCell(a, c)
    BY DEF At
  <2> HIDE DEF a, c
  <2> QED
    BY <1>1, <2>1, <2>2
<1> QED
  BY <1>2

(* A whole block: one more row of B.                                       *)
LEMMA Whole61Round ==
    ASSUME Fits61, Whole61, k \in 0 .. 22, Block61(B, k),
           NEW mem, mem = Executed(ColumnToRow(i, j + k), RoundStart).mem
    PROVE  Block61(mem, k + 1) /\ OthersKept(mem)
<1> DEFINE from == [c \in 0 .. 7 |-> Want(j + k, i + c)]
           to   == [c \in 0 .. 7 |-> BCell(j + k, i + c)]
<1>0. M \in Nat /\ N \in Nat /\ i \in Nat /\ j \in Nat /\ j + k \in Nat
  BY DEF Fits61
<1>1. EightMoves(ColumnToRow(i, j + k), from, to)
  BY <1>0, ColumnToRowCode
<1>2. ASSUME NEW c \in Places PROVE to[c] = At(k, c) /\ from[c] = Its(k, c)
  BY DEF At, Its, Places
<1>3. ASSUME NEW x \in 0 .. 22, NEW y \in Places PROVE Inside(x, y)
  BY <1>0 DEF Inside, Whole61, Places
<1> HIDE DEF from, to
<1>4. Placed(to, DOMAIN B)
  BY <1>2, <1>3, InsideInB DEF Placed
<1>5. Once(to)
  <2>1. SUFFICES ASSUME NEW c \in Places, NEW c2 \in Places, to[c] = to[c2] PROVE c = c2
    BY DEF Once
  <2>2. At(k, c) = At(k, c2) /\ Inside(k, c) /\ Inside(k, c2)
    BY <1>2, <1>3, <2>1
  <2> QED
    BY <2>2, InsidesDiffer
<1>6. Moved(from, to, B, mem)
  BY <1>0, <1>1, <1>4, <1>5, EightMovesRound
<1>7. ASSUME NEW x \in 0 .. 22, NEW y \in Places, x < k + 1
      PROVE  mem[At(x, y)] = Its(x, y)
  <2>1. CASE x = k
    BY <1>2, <1>6, <2>1 DEF Moved
  <2>2. CASE x # k
    <3>1. ASSUME NEW c \in Places PROVE At(x, y) # to[c]
      <4>1. Inside(x, y) /\ Inside(k, c)
        BY <1>3
      <4>2. At(x, y) # At(k, c)
        BY <2>2, <4>1, InsidesDiffer
      <4> QED
        BY <1>2, <4>2
    <3>2. At(x, y) \in DOMAIN B
      BY <1>3, InsideInB
    <3>3. mem[At(x, y)] = B[At(x, y)]
      BY <1>6, <3>1, <3>2 DEF Moved
    <3>4. x < k
      BY <1>7, <2>2
    <3>5. B[At(x, y)] = Its(x, y)
      BY <3>4 DEF Block61, Places
    <3> QED
      BY <3>3, <3>5
  <2> QED
    BY <2>1, <2>2
<1>8. Block61(mem, k + 1)
  BY <1>7 DEF Block61, Places
<1>9. OthersKept(mem)
  <2>1. ASSUME NEW n \in DOMAIN B, \A x, y : Inside(x, y) => n # At(x, y) PROVE mem[n] = B[n]
    <3>1. \A c \in Places : n # to[c]
      BY <1>2, <1>3, <2>1
    <3> QED
      BY <1>6, <3>1 DEF Moved
  <2> QED
    BY <2>1, OthersAreKept61
<1> QED
  BY <1>8, <1>9

OnceIn(n, cells) == \A q, q2 \in 0 .. n - 1 : cells[q] = cells[q2] => q = q2

CopiedTo(n, from, to, old, new) ==
    /\ \A q \in 0 .. n - 1 : new[to[q]] = from[q]
    /\ \A m \in DOMAIN old : (\A q \in 0 .. n - 1 : m # to[q]) => new[m] = old[m]

(* Numbers that go one by one, as a round.                                 *)
LEMMA CopiesRound ==
    ASSUME M \in Nat, N \in Nat, NEW code, NEW n \in Nat, NEW from, NEW to,
           Copies(code, n, from, to), NEW mem, mem = Executed(code, RoundStart).mem,
           Within(n, to, DOMAIN B), OnceIn(n, to)
    PROVE  CopiedTo(n, from, to, B, mem)
<1>1. DOMAIN RoundStart.reg = Regs /\ RoundStart.mem = B
  BY RoundStarts
<1>2. /\ \A q \in 0 .. n - 1 : to[q] \in DOMAIN B
      /\ \A q, q2 \in 0 .. n - 1 : to[q] = to[q2] => q = q2
  BY DEF Within, OnceIn
<1>3. /\ \A q \in 0 .. n - 1 : to[q] \in DOMAIN RoundStart.mem
      /\ \A q, q2 \in 0 .. n - 1 : to[q] = to[q2] => q = q2
  BY <1>1, <1>2
<1>4. /\ \A q \in 0 .. n - 1 : mem[to[q]] = from[q]
      /\ \A m \in DOMAIN B : (\A q \in 0 .. n - 1 : m # to[q]) => mem[m] = B[m]
  BY <1>1, <1>3, CopiesEffect
<1> QED
  BY <1>4 DEF CopiedTo

(* A block that is cut off: one more column of B.                          *)
LEMMA Edge61Round ==
    ASSUME Fits61, ~Whole61, k \in 0 .. 7, i + k < N, Block61(B, k),
           NEW mem, mem = Executed(edge61(k), RoundStart).mem
    PROVE  Block61(mem, k + 1) /\ OthersKept(mem)
<1> DEFINE n    == BlockEnd - j
           from == [q \in 0 .. n - 1 |-> Want(j + q, i + k)]
           to   == [q \in 0 .. n - 1 |-> BCell(j + q, i + k)]
<1>0. M \in Nat /\ N \in Nat /\ i \in Nat /\ j \in Nat /\ j < M /\ k \in Nat /\ k \in Places
  BY DEF Fits61, Places
<1>1. n \in 1 .. 23 /\ n \in Nat /\ Copies(edge61(k), n, from, to)
  <2>1. n \in 1 .. 23 /\ Copies(edge61(k), n, from, to)
    BY <1>0, Edge61Code
  <2> HIDE DEF n, from, to
  <2> QED
    BY <2>1
<1>2. ASSUME NEW x
      PROVE  x \in 0 .. n - 1 <=> x \in 0 .. 22 /\ j + x < M
  BY <1>0 DEF BlockEnd
<1>3. ASSUME NEW q \in 0 .. n - 1 PROVE to[q] = At(q, k) /\ from[q] = Its(q, k)
  BY DEF At, Its
<1> HIDE DEF from, to, n
<1>4. ASSUME NEW q \in 0 .. n - 1 PROVE Inside(q, k)
  BY <1>0, <1>2 DEF Inside
<1>5. Within(n, to, DOMAIN B)
  <2>1. SUFFICES ASSUME NEW q \in 0 .. n - 1 PROVE to[q] \in DOMAIN B
    BY DEF Within
  <2> QED
    BY <1>3, <1>4, InsideInB
<1>6. OnceIn(n, to)
  <2>1. SUFFICES ASSUME NEW q \in 0 .. n - 1, NEW q2 \in 0 .. n - 1, to[q] = to[q2]
                 PROVE  q = q2
    BY DEF OnceIn
  <2>2. At(q, k) = At(q2, k) /\ Inside(q, k) /\ Inside(q2, k)
    BY <1>3, <1>4, <2>1
  <2> QED
    BY <2>2, InsidesDiffer
<1>7. CopiedTo(n, from, to, B, mem)
  BY <1>0, <1>1, <1>5, <1>6, CopiesRound
<1>8. ASSUME NEW x \in 0 .. 22, NEW y \in Places, j + x < M, y < k + 1
      PROVE  mem[At(x, y)] = Its(x, y)
  <2>1. CASE y = k
    <3>1. x \in 0 .. n - 1
      BY <1>2, <1>8
    <3>2. mem[to[x]] = from[x]
      BY <1>7, <3>1 DEF CopiedTo
    <3> QED
      BY <1>3, <2>1, <3>1, <3>2
  <2>2. CASE y # k
    <3>1. y < k /\ i + y < N
      BY <1>0, <1>8, <2>2 DEF Places
    <3>2. Inside(x, y)
      BY <1>8, <3>1 DEF Inside
    <3>3. ASSUME NEW q \in 0 .. n - 1 PROVE At(x, y) # to[q]
      <4>1. Inside(q, k)
        BY <1>4
      <4>2. At(x, y) # At(q, k)
        BY <2>2, <3>2, <4>1, InsidesDiffer
      <4> QED
        BY <1>3, <4>2
    <3>4. At(x, y) \in DOMAIN B
      BY <3>2, InsideInB
    <3>5. mem[At(x, y)] = B[At(x, y)]
      BY <1>7, <3>3, <3>4 DEF CopiedTo
    <3>6. B[At(x, y)] = Its(x, y)
      BY <1>8, <3>1 DEF Block61, Places
    <3> QED
      BY <3>5, <3>6
  <2> QED
    BY <2>1, <2>2
<1>9. Block61(mem, k + 1)
  BY <1>8 DEF Block61, Places
<1>10. OthersKept(mem)
  <2>1. ASSUME NEW m \in DOMAIN B, \A x, y : Inside(x, y) => m # At(x, y) PROVE mem[m] = B[m]
    <3>1. ASSUME NEW q \in 0 .. n - 1 PROVE m # to[q]
      BY <1>3, <1>4, <2>1
    <3> QED
      BY <1>7, <3>1 DEF CopiedTo
  <2> QED
    BY <2>1, OthersAreKept61
<1> QED
  BY <1>9, <1>10
-----------------------------------------------------------------------------
(***************************************************************************)
(* A round does its part of the block, whatever the block, and nothing     *)
(* else; the last round leaves the block transposed.                       *)
(***************************************************************************)
(* No row of B is shorter than a block of eight columns; if one is, a      *)
(* block of width 32 or 64 runs over cells of its own (see ShortRows).     *)
LongRows == M \in {32, 64} => N >= 8

(* Every round does its part of the block.                                 *)
LEMMA RoundEffect ==
    ASSUME Position, transpose_round, LongRows, DOMAIN B = 0 .. M * N + 7, BlockInv(B, k)
    PROVE  BlockInv(B', k + 1) /\ OthersKept(B')
<1> DEFINE mem == Executed(Code, RoundStart).mem
<1>0. /\ M \in Nat /\ N \in Nat /\ i \in Nat /\ j \in Nat /\ k \in Nat
      /\ Handled /\ i < N /\ j < M /\ k < Rounds
  BY DEF Position, transpose_round
<1>1. B' = mem
  BY RoundRuns
<1>2. /\ M \in {32, 64} => j + 8 <= M
  BY <1>0, BlocksFit
<1>3. /\ M = 32 => Rounds = 16
      /\ M = 64 => Rounds = 8
      /\ M = 61 /\ Whole61 => Rounds = 23
      /\ M = 61 /\ ~Whole61 => Rounds \in 1 .. 8 /\ i + Rounds <= N
  BY <1>0, RoundsBounds
<1>4. M \in {32, 64} => Tame
  BY <1>0, <1>2 DEF Tame, LongRows
<1>5. M = 61 => Fits61
  BY <1>0 DEF Fits61
<1>6. CASE M = 32
  <2>1. Tame /\ Block32(B, k)
    BY <1>4, <1>6 DEF BlockInv
  <2>2. CASE k < 8
    <3>1. k \in 0 .. 7
      BY <1>0, <2>2
    <3>2. mem = Executed(copy32(k), RoundStart).mem
      BY <1>0, <1>6, <2>2 DEF Code
    <3> HIDE DEF mem
    <3>3. Block32(mem, k + 1) /\ OthersKept(mem)
      BY <2>1, <3>1, <3>2, Copy32Round
    <3> QED
      BY <1>1, <1>6, <3>3 DEF BlockInv
  <2>3. CASE ~(k < 8)
    <3>1. k \in 8 .. 15 /\ k >= 8
      BY <1>0, <1>3, <1>6, <2>3
    <3>2. mem = Executed(swap32(k - 8), RoundStart).mem
      BY <1>6, <2>3, <3>1 DEF Code
    <3> HIDE DEF mem
    <3>3. Block32(mem, k + 1) /\ OthersKept(mem)
      BY <2>1, <3>1, <3>2, Swap32Round
    <3> QED
      BY <1>1, <1>6, <3>3 DEF BlockInv
  <2> QED
    BY <2>2, <2>3
<1>7. CASE M = 64
  <2>1. Tame /\ Block64(B, k)
    BY <1>4, <1>7 DEF BlockInv
  <2>2. CASE k < 4
    <3>1. k \in 0 .. 3
      BY <1>0, <2>2
    <3>2. mem = Executed(top64(k), RoundStart).mem
      BY <1>0, <1>7, <2>2 DEF Code
    <3> HIDE DEF mem
    <3>3. Block64(mem, k + 1) /\ OthersKept(mem)
      BY <2>1, <3>1, <3>2, Top64Round
    <3> QED
      BY <1>1, <1>7, <3>3 DEF BlockInv
  <2>3. CASE ~(k < 4)
    <3>1. k \in 4 .. 7 /\ k >= 4
      BY <1>0, <1>3, <1>7, <2>3
    <3>2. mem = Executed(low64(k - 4), RoundStart).mem
      BY <1>7, <2>3, <3>1 DEF Code
    <3> HIDE DEF mem
    <3>3. Block64(mem, k + 1) /\ OthersKept(mem)
      BY <2>1, <3>1, <3>2, Low64Round
    <3> QED
      BY <1>1, <1>7, <3>3 DEF BlockInv
  <2> QED
    BY <2>2, <2>3
<1>8. CASE M = 61 /\ Whole61
  <2>1. Fits61 /\ Block61(B, k) /\ k \in 0 .. 22
    BY <1>0, <1>3, <1>5, <1>8 DEF BlockInv
  <2>2. mem = Executed(ColumnToRow(i, j + k), RoundStart).mem
    BY <1>8 DEF Code
  <2> HIDE DEF mem
  <2>3. Block61(mem, k + 1) /\ OthersKept(mem)
    BY <1>8, <2>1, <2>2, Whole61Round
  <2> QED
    BY <1>1, <1>8, <2>3 DEF BlockInv
<1>9. CASE M = 61 /\ ~Whole61
  <2>1. Fits61 /\ Block61(B, k) /\ k \in 0 .. 7 /\ i + k < N
    BY <1>0, <1>3, <1>5, <1>9 DEF BlockInv
  <2>2. mem = Executed(edge61(k), RoundStart).mem
    BY <1>9 DEF Code
  <2> HIDE DEF mem
  <2>3. Block61(mem, k + 1) /\ OthersKept(mem)
    BY <1>9, <2>1, <2>2, Edge61Round
  <2> QED
    BY <1>1, <1>9, <2>3 DEF BlockInv
<1> QED
  BY <1>0, <1>6, <1>7, <1>8, <1>9 DEF Handled

(* After the last round the block is transposed.                           *)
LEMMA BlockDone ==
    ASSUME Position, Handled, i < N, NEW mem, BlockInv(mem, Rounds),
           NEW a \in Nat, NEW c \in Nat, InBlock(a, c)
    PROVE  mem[BCell(a, c)] = Want(a, c)
<1> DEFINE x == a - j
           y == c - i
<1>0. M \in Nat /\ N \in Nat /\ i \in Nat /\ j \in Nat
  BY DEF Position
<1>1. /\ M = 32 => Rounds = 16
      /\ M = 64 => Rounds = 8
      /\ M = 61 /\ Whole61 => Rounds = 23
      /\ M = 61 /\ ~Whole61 => Rounds \in 1 .. 8 /\ (i + Rounds = i + 8 \/ i + Rounds = N)
  BY <1>0, RoundsBounds
<1>2. j + x = a /\ i + y = c
  BY <1>0
<1>3. /\ y \in 0 .. 7 /\ x \in 0 .. BlockWidth - 1
      /\ BlockWidth = (IF M = 61 THEN 23 ELSE 8)
      /\ a < M /\ (M = 61 => c < N)
  BY <1>0 DEF InBlock, BlockWidth
<1> HIDE DEF x, y
<1>4. SUFFICES mem[At(x, y)] = Its(x, y)
  BY <1>2 DEF At, Its
<1>5. CASE M = 32
  <2>1. Block32(mem, 16) /\ x \in 0 .. 7 /\ y \in 0 .. 7 /\ x < 16 - 8
    BY <1>1, <1>3, <1>5 DEF BlockInv
  <2> QED
    BY <2>1 DEF Block32
<1>6. CASE M = 64
  <2>1. Block64(mem, 8) /\ x \in 0 .. 7 /\ y \in 0 .. 7
    BY <1>1, <1>3, <1>6 DEF BlockInv
  <2>2. ASSUME NEW u \in 0 .. 3, NEW v \in 0 .. 3
        PROVE  /\ mem[At(u, v)] = Its(u, v)
               /\ mem[At(u, 4 + v)] = Its(u, 4 + v)
               /\ mem[At(4 + u, v)] = Its(4 + u, v)
               /\ mem[At(4 + u, 4 + v)] = Its(4 + u, 4 + v)
    <3>1. u < 8 - 4 /\ 8 >= 4
      OBVIOUS
    <3> QED
      BY <2>1, <3>1 DEF Block64
  <2>3. PICK u \in 0 .. 3 : x = u \/ x = 4 + u
    <3>1. x \in 0 .. 3 \/ (x - 4 \in 0 .. 3 /\ x = 4 + (x - 4))
      BY <2>1
    <3> QED
      BY <3>1
  <2>4. PICK v \in 0 .. 3 : y = v \/ y = 4 + v
    <3>1. y \in 0 .. 3 \/ (y - 4 \in 0 .. 3 /\ y = 4 + (y - 4))
      BY <2>1
    <3> QED
      BY <3>1
  <2> QED
    BY <2>2, <2>3, <2>4
<1>7. CASE M = 61 /\ Whole61
  <2>1. Block61(mem, 23) /\ x \in 0 .. 22 /\ y \in 0 .. 7 /\ x < 23
    BY <1>1, <1>3, <1>7 DEF BlockInv
  <2> QED
    BY <1>7, <2>1 DEF Block61
<1>8. CASE M = 61 /\ ~Whole61
  <2>1. Block61(mem, Rounds) /\ x \in 0 .. 22 /\ y \in 0 .. 7 /\ j + x < M /\ y < Rounds
    BY <1>0, <1>1, <1>2, <1>3, <1>8 DEF BlockInv
  <2> QED
    BY <1>8, <2>1 DEF Block61
<1> QED
  BY <1>5, <1>6, <1>7, <1>8 DEF Handled

(* Before the first round nothing is claimed.                              *)
LEMMA BlockStart == k = 0 => BlockInv(B, k)
BY DEF BlockInv, Block32, Block64, Block61
-----------------------------------------------------------------------------
(***************************************************************************)
(* Rows shorter than a block.  Cells of one block then coincide, and B is  *)
(* wrong in the end because of a number that A does not have: one that a   *)
(* round of the last block has fetched from past the last row of A.        *)
(***************************************************************************)
ShortRows == M \in {32, 64} /\ N \in 1 .. 7

(* Numbers that are past the end of A.                                     *)
Stray(c) == Want(M - 8 + c, 7)

(* The cells that the blocks reach.                                        *)
Reach == 0 .. (M - 1) * N + 7

Has(mem, v)    == \E n \in Reach : mem[n] = v
Scattered(mem) == \A c \in Places : Has(mem, Stray(c))

(* Where the last block of width 64 leaves such a number.                  *)
StrayCell == BCell(M - 5, IF N = 1 THEN 0 ELSE 7)
StrayHere == IF N = 1 THEN Want(M - 8, 3) ELSE Want(M - 5, 7)

LastBlock ==
    /\ ShortRows /\ i = 0 /\ j = M - 8 /\ k \in Nat
    /\ DOMAIN B = 0 .. M * N + 7

(* What is known of the numbers in the last block of short rows.           *)
LEMMA LastBlockTypes ==
    LastBlock => /\ M \in Nat /\ N \in Nat /\ i \in Nat /\ j \in Nat
                 /\ \A c \in Nat : M - 8 + c \in Nat
BY DEF LastBlock, ShortRows

(* Rows of the last block, and what is in them, are within reach.          *)
LEMMA ReachOfBlock ==
    ASSUME LastBlock, NEW a \in Nat, a < M, NEW c \in Nat, c <= 7
    PROVE  BCell(a, c) \in Reach /\ Reach \subseteq DOMAIN B
<1> DEFINE p == a * N
           q == (M - 1) * N
<1>0. M \in Nat /\ N \in Nat /\ M - 1 \in Nat
  BY DEF LastBlock, ShortRows
<1>1. N * a <= N * (M - 1)
  BY <1>0, ProductGrows
<1>2. p \in Nat /\ q \in Nat /\ p <= q /\ M * N = q + N
  BY <1>0, <1>1
<1>3. BCell(a, c) = p + c /\ Reach = 0 .. q + 7 /\ DOMAIN B = 0 .. (q + N) + 7
  BY <1>2 DEF BCell, Reach, LastBlock
<1> HIDE DEF p, q
<1> QED
  BY <1>0, <1>2, <1>3

(* Width 32, the last row that is copied: eight strays, next to each other *)
(* in B.                                                                   *)
LEMMA CopyIsStray ==
    ASSUME LastBlock, M = 32, k = 7, NEW mem, mem = Executed(copy32(k), RoundStart).mem
    PROVE  Scattered(mem)
<1> DEFINE from == [c \in 0 .. 7 |-> Want(j + c, i + k)]
           to   == [c \in 0 .. 7 |-> BCell(j + k, i + c)]
<1>0. /\ M \in Nat /\ N \in Nat /\ i \in Nat /\ j \in Nat /\ i + k \in Nat /\ j + k \in Nat
      /\ j = 24 /\ i = 0
  BY LastBlockTypes DEF LastBlock
<1>1. EightMoves(copy32(k), from, to)
  BY <1>0, RowToRowCode DEF copy32
<1>2. ASSUME NEW c \in Places
      PROVE  to[c] = BCell(31, c) /\ from[c] = Stray(c) /\ to[c] \in Reach /\ to[c] \in DOMAIN B
  <2>1. /\ c \in 0 .. 7 /\ j + k = 31 /\ i + c = c /\ i + k = 7 /\ M - 8 + c = j + c
        /\ 31 \in Nat /\ 31 < M /\ c \in Nat /\ c <= 7
    BY <1>0 DEF Places
  <2>2. to[c] = BCell(31, c) /\ from[c] = Stray(c)
    BY <2>1 DEF Stray
  <2> HIDE DEF to, from
  <2>3. BCell(31, c) \in Reach /\ Reach \subseteq DOMAIN B
    BY <2>1, ReachOfBlock
  <2> QED
    BY <2>2, <2>3
<1> HIDE DEF from, to
<1>3. Placed(to, DOMAIN B)
  BY <1>2 DEF Placed
<1>4. Once(to)
  <2>1. SUFFICES ASSUME NEW c \in Places, NEW c2 \in Places, to[c] = to[c2] PROVE c = c2
    BY DEF Once
  <2> DEFINE p == 31 * N
  <2>2. p \in Nat /\ p + c = p + c2
    BY <1>0, <1>2, <2>1 DEF BCell
  <2> HIDE DEF p
  <2> QED
    BY <2>2 DEF Places
<1>5. Moved(from, to, B, mem)
  BY <1>0, <1>1, <1>3, <1>4, EightMovesRound
<1>6. ASSUME NEW c \in Places PROVE Has(mem, Stray(c))
  <2>1. mem[to[c]] = from[c]
    BY <1>5 DEF Moved
  <2> QED
    BY <1>2, <2>1 DEF Has
<1> QED
  BY <1>6 DEF Scattered

(* A load from B, and a store to it, between two states of a run.          *)
Loaded(new, old, r, n, D) ==
    /\ \A m \in D : new.mem[m] = old.mem[m]
    /\ new.reg[r] = old.mem[n]
    /\ \A q \in Regs : q # r => new.reg[q] = old.reg[q]

Stored(new, old, r, n, D) ==
    /\ \A m \in D : new.mem[m] = IF m = n THEN old.reg[r] ELSE old.mem[m]
    /\ \A q \in Regs : new.reg[q] = old.reg[q]

(* A load from B is such a step.                                           *)
LEMMA LoadStep ==
    ASSUME NEW code, IsCode(code), NEW st0, NEW run, IsRun(run, code, st0),
           DOMAIN st0.reg = Regs, M \in Nat, N \in Nat, NEW x \in 1 .. Len(code),
           NEW r \in Regs, NEW n \in Nat, code[x] = Load(r, InB(n)), NEW y, y = x - 1
    PROVE  Loaded(run[x], run[y], r, n, DOMAIN st0.mem)
<1> DEFINE ins == Load(r, InB(n))
           st == run[x - 1]
<1>1. /\ \A m : ~Stores(ins, m)
      /\ \A q : Loads(ins, q) <=> q = r
      /\ ins.at = InB(n) /\ InB(n).array = "B" /\ InB(n).cell = n
  BY Instructions
<1>2. /\ \A m \in DOMAIN st0.mem :
           run[x].mem[m] = IF Stores(code[x], m) THEN st.reg[code[x].reg] ELSE st.mem[m]
      /\ \A q \in Regs :
           run[x].reg[q] = IF ~Loads(code[x], q) THEN st.reg[q]
                           ELSE IF code[x].at.array = "A" THEN code[x].at.cell
                           ELSE st.mem[code[x].at.cell]
  BY RunStep
<1>3. code[x] = ins
  OBVIOUS
<1> HIDE DEF ins
<1> QED
  BY <1>1, <1>2, <1>3 DEF Loaded

(* Likewise a store.                                                       *)
LEMMA StoreStep ==
    ASSUME NEW code, IsCode(code), NEW st0, NEW run, IsRun(run, code, st0),
           DOMAIN st0.reg = Regs, M \in Nat, N \in Nat, NEW x \in 1 .. Len(code),
           NEW r \in Regs, NEW n \in Nat, code[x] = Store(r, InB(n)), NEW y, y = x - 1
    PROVE  Stored(run[x], run[y], r, n, DOMAIN st0.mem)
<1> DEFINE ins == Store(r, InB(n))
           st == run[x - 1]
<1>1. /\ \A m : Stores(ins, m) <=> m = n
      /\ \A q : ~Loads(ins, q)
      /\ ins.reg = r
  BY Instructions
<1>2. /\ \A m \in DOMAIN st0.mem :
           run[x].mem[m] = IF Stores(code[x], m) THEN st.reg[code[x].reg] ELSE st.mem[m]
      /\ \A q \in Regs :
           run[x].reg[q] = IF ~Loads(code[x], q) THEN st.reg[q]
                           ELSE IF code[x].at.array = "A" THEN code[x].at.cell
                           ELSE st.mem[code[x].at.cell]
  BY RunStep
<1>3. code[x] = ins
  OBVIOUS
<1> HIDE DEF ins
<1> QED
  BY <1>1, <1>2, <1>3 DEF Stored

(* Exchanging pairs of cells, coinciding or not, loses no number.          *)
LEMMA SwapsLoseNothing ==
    ASSUME M \in Nat, N \in Nat, NEW code, NEW n \in Nat, NEW above, NEW below,
           Swaps(code, n, above, below), NEW st0, DOMAIN st0.reg = Regs,
           Within(n, above, Reach), Within(n, below, Reach), Reach \subseteq DOMAIN st0.mem,
           NEW v, Has(st0.mem, v)
    PROVE  Has(Executed(code, st0).mem, v)
<1>1. IsCode(code) /\ Len(code) = 4 * n /\ 4 * n \in Nat
  <2>1. 4 * n \in Nat
    OBVIOUS
  <2> QED
    BY <2>1, CodeOf DEF Swaps
<1>2. PICK run : IsRun(run, code, st0)
  BY <1>1, RunExists
<1> DEFINE Kept(q) == Has(run[4 * q].mem, v)
           Claim == {q \in Nat : q <= n => Kept(q)}
<1>3. 0 \in Claim
  <2>1. 4 * 0 = 0 /\ run[0] = st0
    BY <1>2 DEF IsRun
  <2> QED
    BY <2>1
<1>4. ASSUME NEW q \in Nat, q \in Claim PROVE q + 1 \in Claim
  <2>1. SUFFICES ASSUME q + 1 <= n PROVE Kept(q + 1)
    OBVIOUS
  <2>2. q \in 0 .. n - 1 /\ q <= n
    BY <2>1
  <2> DEFINE x  == 4 * q
             a  == above[q]
             b  == below[q]
             D  == DOMAIN st0.mem
  <2> DEFINE x1 == x + 1
             x2 == x + 2
             x3 == x + 3
             x4 == x + 4
  <2>3. /\ x1 \in 1 .. Len(code) /\ x2 \in 1 .. Len(code)
        /\ x3 \in 1 .. Len(code) /\ x4 \in 1 .. Len(code)
        /\ x = x1 - 1 /\ x1 = x2 - 1 /\ x2 = x3 - 1 /\ x3 = x4 - 1
        /\ 4 * (q + 1) = x4
    BY <1>1, <2>2
  <2>4. /\ code[x1] = Load(0, InB(a)) /\ code[x2] = Load(1, InB(b))
        /\ code[x3] = Store(1, InB(a)) /\ code[x4] = Store(0, InB(b))
        /\ a \in Nat /\ b \in Nat
    BY <2>2 DEF Swaps
  <2>5. a \in Reach /\ b \in Reach /\ a \in D /\ b \in D
    BY <2>2 DEF Within
  <2>6. Has(run[x].mem, v)
    BY <1>4, <2>2
  <2>7. 0 \in Regs /\ 1 \in Regs /\ 0 # 1
    BY DEF Regs
  <2> DEFINE s0 == run[x]
             s1 == run[x1]
             s2 == run[x2]
             s3 == run[x3]
             s4 == run[x4]
  <2> HIDE DEF x, x1, x2, x3, x4, a, b, D
  <2>9. IsCode(code) /\ IsRun(run, code, st0) /\ D = DOMAIN st0.mem
    BY <1>1, <1>2 DEF D
  <2>10. Loaded(run[x1], run[x], 0, a, D)
    BY <2>3, <2>4, <2>7, <2>9, LoadStep
  <2>11. Loaded(run[x2], run[x1], 1, b, D)
    BY <2>3, <2>4, <2>7, <2>9, LoadStep
  <2>12. Stored(run[x3], run[x2], 1, a, D)
    BY <2>3, <2>4, <2>7, <2>9, StoreStep
  <2>13. Stored(run[x4], run[x3], 0, b, D)
    BY <2>3, <2>4, <2>7, <2>9, StoreStep
  <2> HIDE DEF s0, s1, s2, s3, s4
  <2>14. \A m \in D : s4.mem[m] = IF m = b THEN s0.mem[a] ELSE IF m = a THEN s0.mem[b]
                                  ELSE s0.mem[m]
    BY <2>5, <2>7, <2>10, <2>11, <2>12, <2>13 DEF Loaded, Stored, s0, s1, s2, s3, s4
  <2>15. PICK m \in Reach : s0.mem[m] = v
    BY <2>6 DEF Has, s0
  <2>16. m \in D
    BY <2>15 DEF D
  <2>17. \E n2 \in Reach : s4.mem[n2] = v
    <3>1. CASE m = a
      BY <2>5, <2>14, <2>15, <3>1
    <3>2. CASE m = b /\ m # a
      BY <2>5, <2>14, <2>15, <3>2
    <3>3. CASE m # a /\ m # b
      BY <2>14, <2>15, <2>16, <3>3
    <3> QED
      BY <3>1, <3>2, <3>3
  <2>18. Has(run[4 * (q + 1)].mem, v)
    BY <2>3, <2>17 DEF Has, s4
  <2> QED
    BY <2>18
<1> HIDE DEF Claim
<1>5. n \in Claim
  BY <1>3, <1>4, NatSetInduction
<1> USE DEF Claim
<1>6. Has(run[Len(code)].mem, v)
  BY <1>1, <1>5
<1> QED
  BY <1>2, <1>6 DEF IsRun

(* Width 32, the second loop: the strays stay in B.                        *)
LEMMA SwapKeepsStrays ==
    ASSUME LastBlock, M = 32, k \in 8 .. 15, Scattered(B),
           NEW mem, mem = Executed(swap32(k - 8), RoundStart).mem
    PROVE  Scattered(mem)
<1> DEFINE d     == k - 8
           n     == 7 - d
           above == [q \in 0 .. 6 - d |-> BCell(j + d, i + (d + 1 + q))]
           below == [q \in 0 .. 6 - d |-> BCell(j + (d + 1 + q), i + d)]
<1>0. /\ M \in Nat /\ N \in Nat /\ i \in Nat /\ j \in Nat /\ i = 0 /\ j = 24
      /\ d \in 0 .. 7 /\ n \in Nat /\ n - 1 = 6 - d
  BY LastBlockTypes DEF LastBlock
<1>1. mem = Executed(swap32(d), RoundStart).mem
  OBVIOUS
<1> HIDE DEF d
<1>2. Swaps(swap32(d), n, above, below)
  BY <1>0, Swap32Code
<1>3. ASSUME NEW q \in 0 .. n - 1 PROVE above[q] \in Reach /\ below[q] \in Reach
  <2> DEFINE s  == d + 1 + q
             a1 == j + d
             c1 == i + s
             a2 == j + s
             c2 == i + d
  <2>1. /\ a1 \in Nat /\ a1 < M /\ c1 \in Nat /\ c1 <= 7
        /\ a2 \in Nat /\ a2 < M /\ c2 \in Nat /\ c2 <= 7
    BY <1>0
  <2>2. above[q] = BCell(a1, c1) /\ below[q] = BCell(a2, c2)
    BY <1>0
  <2> HIDE DEF above, below, a1, a2, c1, c2
  <2>3. BCell(a1, c1) \in Reach /\ BCell(a2, c2) \in Reach
    BY <2>1, ReachOfBlock
  <2> QED
    BY <2>2, <2>3
<1> HIDE DEF n, above, below
<1>4. Within(n, above, Reach) /\ Within(n, below, Reach)
  BY <1>3 DEF Within
<1>5. DOMAIN RoundStart.reg = Regs /\ RoundStart.mem = B
  BY RoundStarts
<1>6. Reach \subseteq DOMAIN RoundStart.mem
  <2>1. 0 \in Nat /\ 0 < M /\ 0 <= 7
    BY <1>0
  <2> QED
    BY <1>5, <2>1, ReachOfBlock
<1>7. ASSUME NEW c \in Places PROVE Has(mem, Stray(c))
  <2>1. Has(RoundStart.mem, Stray(c))
    BY <1>5 DEF Scattered
  <2>2. Has(Executed(swap32(d), RoundStart).mem, Stray(c))
    BY <1>0, <1>2, <1>4, <1>5, <1>6, <2>1, SwapsLoseNothing
  <2> QED
    BY <1>1, <2>2
<1> QED
  BY <1>7 DEF Scattered

(* Width 64 in one row: the fourth round of the first loop leaves a stray. *)
LEMMA TopIsStray ==
    ASSUME LastBlock, M = 64, N = 1, k = 3, NEW mem, mem = Executed(top64(k), RoundStart).mem
    PROVE  mem[StrayCell] = StrayHere
<1> DEFINE from == [c \in 0 .. 7 |-> Want(j + c, i + k)]
           to   == [c \in 0 .. 7 |-> BCell(TopRow(c), TopCol(k, c))]
<1>0. M \in Nat /\ N \in Nat /\ i \in Nat /\ j \in Nat /\ k \in Nat /\ i = 0 /\ j = 56
  BY LastBlockTypes DEF LastBlock
<1>1. EightMoves(top64(k), from, to)
  BY <1>0, Top64Code
<1>2. ASSUME NEW c \in Places PROVE to[c] = 59 + c
  <2>1. c \in 0 .. 7 /\ (c < 4 => c % 4 = c) /\ (~(c < 4) => c % 4 = c - 4)
    BY DEF Places
  <2>2. TopRow(c) = 56 + (IF c < 4 THEN c ELSE c - 4)
    BY <1>0, <2>1 DEF TopRow
  <2>3. TopCol(k, c) = 3 + (IF c < 4 THEN 0 ELSE 4)
    BY <1>0, <2>1 DEF TopCol
  <2>4. to[c] = TopRow(c) * 1 + TopCol(k, c)
    BY <2>1 DEF BCell
  <2> HIDE DEF to
  <2> QED
    BY <2>1, <2>2, <2>3, <2>4
<1>3. from[0] = StrayHere /\ StrayCell = 59
  BY <1>0 DEF StrayHere, StrayCell, BCell
<1> HIDE DEF from, to
<1>4. DOMAIN B = 0 .. 71
  BY DEF LastBlock
<1>5. Placed(to, DOMAIN B)
  BY <1>2, <1>4 DEF Placed, Places
<1>6. Once(to)
  BY <1>2 DEF Once, Places
<1>7. Moved(from, to, B, mem)
  BY <1>0, <1>1, <1>5, <1>6, EightMovesRound
<1>8. 0 \in Places /\ to[0] = 59
  BY <1>2 DEF Places
<1> QED
  BY <1>3, <1>7, <1>8 DEF Moved

Aside(m, there, lo, hi) == \A r \in Quarter : m # there[r] /\ m # lo[r] /\ m # hi[r]
NeverStored(code, m) == \A x \in 1 .. Len(code) : ~Stores(code[x], m)

(* An exchange of quarter rows stores to them only.                        *)
LEMMA ExchangesStores ==
    ASSUME NEW code, NEW near, NEW far, NEW there, NEW lo, NEW hi,
           Exchanges(code, near, far, there, lo, hi), NEW m,
           Aside(m, there, lo, hi)
    PROVE  NeverStored(code, m)
<1>1. Len(code) = 24
  BY CodeOf DEF Exchanges
<1>2. SUFFICES ASSUME NEW x \in 1 .. 24 PROVE ~Stores(code[x], m)
  BY <1>1 DEF NeverStored
<1>3. PICK r \in 0 .. 3 : \/ x = 2 * r + 1 \/ x = 2 * r + 2 \/ x = 2 * r + 9
                          \/ x = 2 * r + 10 \/ x = 2 * r + 17 \/ x = 2 * r + 18
  BY SixthOf
<1>4. m # there[r] /\ m # lo[r] /\ m # hi[r]
  BY DEF Quarter, Aside
<1>5. /\ code[2 * r + 1].op = "L" /\ code[2 * r + 2].op = "L" /\ code[2 * r + 9].op = "L"
      /\ code[2 * r + 10].at = InB(there[r])
      /\ code[2 * r + 17].at = InB(lo[r]) /\ code[2 * r + 18].at = InB(hi[r])
  BY DEF Exchanges, Load, Store
<1>6. /\ code[2 * r + 10].at.cell = there[r]
      /\ code[2 * r + 17].at.cell = lo[r] /\ code[2 * r + 18].at.cell = hi[r]
  BY <1>5 DEF InB
<1> QED
  BY <1>3, <1>4, <1>5, <1>6 DEF Stores

(* Width 64 in one row: the second loop leaves the stray where it is.      *)
LEMMA LowKeepsStray ==
    ASSUME LastBlock, M = 64, N = 1, k \in 4 .. 7,
           NEW mem, mem = Executed(low64(k - 4), RoundStart).mem
    PROVE  mem[StrayCell] = B[StrayCell]
<1> DEFINE d     == k - 4
           near  == [r \in 0 .. 3 |-> Want(j + d, i + 4 + r)]
           far   == [r \in 0 .. 3 |-> Want(j + d + 4, i + 4 + r)]
           there == [r \in 0 .. 3 |-> BCell(j + d, i + 4 + r)]
           lo    == [r \in 0 .. 3 |-> BCell(j + d + 4, i + r)]
           hi    == [r \in 0 .. 3 |-> BCell(j + d + 4, i + 4 + r)]
<1>0. /\ M \in Nat /\ N \in Nat /\ i \in Nat /\ j \in Nat /\ i = 0 /\ j = 56
      /\ d \in 0 .. 3 /\ d \in Nat
  BY LastBlockTypes DEF LastBlock
<1>1. mem = Executed(low64(d), RoundStart).mem
  OBVIOUS
<1> HIDE DEF d
<1>2. Exchanges(low64(d), near, far, there, lo, hi)
  BY <1>0, Low64Code
<1>3. StrayCell = 59
  BY DEF StrayCell, BCell
<1>4. ASSUME NEW r \in Quarter PROVE 59 # there[r] /\ 59 # lo[r] /\ 59 # hi[r]
  <2>1. /\ r \in 0 .. 3
        /\ there[r] = (j + d) * 1 + (i + 4 + r) /\ lo[r] = (j + d + 4) * 1 + (i + r)
        /\ hi[r] = (j + d + 4) * 1 + (i + 4 + r)
    BY DEF Quarter, BCell
  <2> HIDE DEF there, lo, hi
  <2> QED
    BY <1>0, <2>1
<1> HIDE DEF near, far, there, lo, hi
<1>5. NeverStored(low64(d), 59)
  <2>1. Aside(59, there, lo, hi)
    BY <1>4 DEF Aside
  <2> QED
    BY <1>2, <2>1, ExchangesStores
<1>6. IsCode(low64(d))
  BY <1>2, CodeOf DEF Exchanges
<1>7. DOMAIN RoundStart.reg = Regs /\ RoundStart.mem = B
  BY RoundStarts
<1>8. 59 \in DOMAIN B
  BY DEF LastBlock
<1>9. Executed(low64(d), RoundStart).mem[59] = RoundStart.mem[59]
  BY <1>0, <1>5, <1>6, <1>7, <1>8, CellUntouched DEF NeverStored
<1> QED
  BY <1>1, <1>3, <1>7, <1>9

(* Width 64 in two to seven rows: the last round of all leaves a stray.    *)
LEMMA LowIsStray ==
    ASSUME LastBlock, M = 64, N > 1, k = 7,
           NEW mem, mem = Executed(low64(k - 4), RoundStart).mem
    PROVE  mem[StrayCell] = StrayHere
<1> DEFINE d     == 3
           near  == [r \in 0 .. 3 |-> Want(j + d, i + 4 + r)]
           far   == [r \in 0 .. 3 |-> Want(j + d + 4, i + 4 + r)]
           there == [r \in 0 .. 3 |-> BCell(j + d, i + 4 + r)]
           lo    == [r \in 0 .. 3 |-> BCell(j + d + 4, i + r)]
           hi    == [r \in 0 .. 3 |-> BCell(j + d + 4, i + 4 + r)]
           p     == 59 * N
           q     == 63 * N
<1>0. /\ M \in Nat /\ N \in 2 .. 7 /\ N \in Nat /\ i \in Nat /\ j \in Nat /\ i = 0 /\ j = 56
      /\ d \in Nat /\ k - 4 = d
  BY LastBlockTypes DEF LastBlock, ShortRows
<1>1. mem = Executed(low64(d), RoundStart).mem
  BY <1>0
<1>2. Exchanges(low64(d), near, far, there, lo, hi)
  BY <1>0, Low64Code
<1>3. ASSUME NEW r \in Quarter
      PROVE  there[r] = p + (4 + r) /\ lo[r] = q + r /\ hi[r] = q + (4 + r)
  <2>1. /\ r \in 0 .. 3 /\ r \in Nat
        /\ j + d = 59 /\ j + d + 4 = 63 /\ i + 4 + r = 4 + r /\ i + r = r
    BY <1>0 DEF Quarter
  <2>2. there[r] = BCell(59, 4 + r) /\ lo[r] = BCell(63, r) /\ hi[r] = BCell(63, 4 + r)
    BY <2>1
  <2> HIDE DEF there, lo, hi
  <2> QED
    BY <2>2 DEF BCell
<1>4. near[3] = StrayHere /\ StrayCell = p + 7 /\ 3 \in Quarter
  <2>1. near[3] = Want(j + d, i + 4 + 3) /\ j + d = M - 5 /\ i + 4 + 3 = 7 /\ N # 1 /\ M - 5 = 59
    BY <1>0
  <2> QED
    BY <2>1 DEF StrayHere, StrayCell, BCell, Quarter
<1>5. p \in Nat /\ q \in Nat /\ q = p + 4 * N
  BY <1>0
<1>6. DOMAIN B = 0 .. (q + N) + 7
  BY <1>0 DEF LastBlock
<1> HIDE DEF near, far, there, lo, hi, p, q
<1>7. Quartered(there, DOMAIN B) /\ Quartered(lo, DOMAIN B) /\ Quartered(hi, DOMAIN B)
  <2>1. SUFFICES ASSUME NEW r \in Quarter
                 PROVE  there[r] \in DOMAIN B /\ lo[r] \in DOMAIN B /\ hi[r] \in DOMAIN B
    BY DEF Quartered
  <2>2. r \in 0 .. 3
    BY DEF Quarter
  <2>3. p + (4 + r) \in DOMAIN B /\ q + r \in DOMAIN B /\ q + (4 + r) \in DOMAIN B
    BY <1>0, <1>5, <1>6, <2>2
  <2> QED
    BY <1>3, <2>3
<1>8. AllApart(there, lo, hi)
  <2>1. SUFFICES ASSUME NEW r \in Quarter, NEW r2 \in Quarter
                 PROVE  /\ there[r] # lo[r2] /\ there[r] # hi[r2] /\ lo[r] # hi[r2]
                        /\ there[r] = there[r2] => r = r2
                        /\ lo[r] = lo[r2] => r = r2
                        /\ hi[r] = hi[r2] => r = r2
    BY DEF AllApart
  <2>2. r \in 0 .. 3 /\ r2 \in 0 .. 3
    BY DEF Quarter
  <2>3. /\ there[r] = p + (4 + r) /\ lo[r] = q + r /\ hi[r] = q + (4 + r)
        /\ there[r2] = p + (4 + r2) /\ lo[r2] = q + r2 /\ hi[r2] = q + (4 + r2)
    BY <1>3
  <2> QED
    BY <1>0, <1>5, <2>2, <2>3
<1>9. Exchanged(near, far, there, lo, hi, B, mem)
  BY <1>0, <1>1, <1>2, <1>7, <1>8, ExchangesRound
<1>10. mem[there[3]] = near[3] /\ there[3] = p + 7
  BY <1>3, <1>4, <1>9 DEF Exchanged
<1> QED
  BY <1>4, <1>10

(* Which cell of A belongs in a cell of B.                                 *)
LEMMA CellOfB ==
    ASSUME M \in Nat, N \in Nat, N > 0, NEW n \in 0 .. M * N - 1
    PROVE  /\ n \div N \in Nat /\ n % N \in Nat /\ n \div N < M /\ n % N < N
           /\ n = BCell(n \div N, n % N)
           /\ correctTrans[n] = Want(n \div N, n % N)
           /\ correctTrans[n] < M * N
<1> DEFINE a == n \div N
           c == n % N
<1>1. n = a * N + c /\ c \in Nat /\ c < N /\ a \in Nat
  OBVIOUS
<1>2. a < M
  <2>1. SUFFICES ASSUME a >= M PROVE FALSE
    BY <1>1
  <2> HIDE DEF a, c
  <2>2. N * M <= N * a
    BY <1>1, <2>1, ProductGrows
  <2> DEFINE p == a * N
             q == M * N
  <2>3. q <= p /\ n = p + c /\ n <= q - 1 /\ p \in Nat /\ q \in Nat
    BY <1>1, <2>2
  <2> HIDE DEF p, q
  <2> QED
    BY <1>1, <2>3
<1>3. correctTrans[n] = c * M + a
  BY DEF correctTrans
<1> HIDE DEF a, c
<1>4. Want(a, c) < M * N
  BY <1>1, <1>2, CellsFit
<1>5. n = BCell(a, c) /\ correctTrans[n] = Want(a, c)
  BY <1>1, <1>3 DEF BCell, Want
<1> QED
  BY <1>1, <1>2, <1>4, <1>5 DEF a, c

(* The strays are in B from the round on that fetches them.                *)
StraysInB ==
    ShortRows =>
      /\ M = 32 /\ (i >= N \/ (j = M - 8 /\ k >= 8)) => Scattered(B)
      /\ M = 64 /\ N = 1 /\ (i >= N \/ (j = M - 8 /\ k >= 4)) => B[StrayCell] = StrayHere
      /\ M = 64 /\ N > 1 /\ i >= N => B[StrayCell] = StrayHere

(* What one round of the last block does to them.                          *)
LEMMA LastBlockRound ==
    ASSUME LastBlock, transpose_round
    PROVE  /\ M = 32 /\ k = 7 => Scattered(B')
           /\ M = 32 /\ k \in 8 .. 15 /\ Scattered(B) => Scattered(B')
           /\ M = 64 /\ N = 1 /\ k = 3 => B'[StrayCell] = StrayHere
           /\ M = 64 /\ N = 1 /\ k \in 4 .. 7 => B'[StrayCell] = B[StrayCell]
           /\ M = 64 /\ N > 1 /\ k = 7 => B'[StrayCell] = StrayHere
<1> DEFINE mem == Executed(Code, RoundStart).mem
<1>1. B' = mem
  BY RoundRuns
<1>2. ASSUME M = 32, k = 7 PROVE Scattered(mem)
  <2>1. mem = Executed(copy32(k), RoundStart).mem
    BY <1>2 DEF Code
  <2> HIDE DEF mem
  <2> QED
    BY <1>2, <2>1, CopyIsStray
<1>3. ASSUME M = 32, k \in 8 .. 15, Scattered(B) PROVE Scattered(mem)
  <2>1. ~(k < 8) /\ k >= 8
    BY <1>3
  <2>2. mem = Executed(swap32(k - 8), RoundStart).mem
    BY <1>3, <2>1 DEF Code
  <2> HIDE DEF mem
  <2> QED
    BY <1>3, <2>2, SwapKeepsStrays
<1>4. ASSUME M = 64, N = 1, k = 3 PROVE mem[StrayCell] = StrayHere
  <2>1. mem = Executed(top64(k), RoundStart).mem
    BY <1>4 DEF Code
  <2> HIDE DEF mem
  <2> QED
    BY <1>4, <2>1, TopIsStray
<1>5. ASSUME M = 64, k \in 4 .. 7 PROVE mem = Executed(low64(k - 4), RoundStart).mem
  <2>1. ~(k < 4) /\ k >= 4
    BY <1>5
  <2> QED
    BY <1>5, <2>1 DEF Code
<1> HIDE DEF mem
<1>6. M = 64 /\ N = 1 /\ k \in 4 .. 7 => mem[StrayCell] = B[StrayCell]
  BY <1>5, LowKeepsStray
<1>7. M = 64 /\ N > 1 /\ k = 7 => mem[StrayCell] = StrayHere
  <2>1. k = 7 => k \in 4 .. 7
    OBVIOUS
  <2> QED
    BY <1>5, <2>1, LowIsStray
<1> QED
  BY <1>1, <1>2, <1>3, <1>4, <1>6, <1>7

(* In short rows there is one row of blocks.                               *)
LEMMA ShortRowsAreFirst ==
    ASSUME Position, Handled, i < N, ShortRows
    PROVE  i = 0 /\ j + 8 <= M /\ BlockWidth = 8 /\ Rounds = IF M = 32 THEN 16 ELSE 8
<1>1. N \in Nat /\ i \in Nat /\ j \in Nat /\ i % 8 = 0 /\ N < 8 /\ M \in {32, 64}
  BY DEF Position, ShortRows
<1>2. i = 0
  BY <1>1
<1>3. j + 8 <= M
  BY <1>1, BlocksFit
<1> QED
  BY <1>1, <1>2, <1>3, RoundsBounds DEF BlockWidth

(* Each round keeps them in B.                                             *)
LEMMA StraysStay ==
    ASSUME Position, DOMAIN B = 0 .. M * N + 7, ShortRows, StraysInB, transpose_round
    PROVE  StraysInB'
<1>0. /\ M \in {32, 64} /\ N \in 1 .. 7 /\ i \in Nat /\ j \in Nat /\ k \in Nat
      /\ Handled /\ i < N /\ k < Rounds
  BY DEF Position, transpose_round, ShortRows
<1>1. i = 0 /\ j + 8 <= M /\ BlockWidth = 8 /\ Rounds = IF M = 32 THEN 16 ELSE 8
  BY <1>0, ShortRowsAreFirst
<1>2. /\ M' = M /\ N' = N
      /\ \/ k + 1 < Rounds /\ i' = i /\ j' = j /\ k' = k + 1
         \/ k + 1 = Rounds /\ j + BlockWidth < M /\ i' = i /\ j' = j + BlockWidth /\ k' = 0
         \/ k + 1 = Rounds /\ j + BlockWidth >= M /\ i' = i + 8 /\ j' = 0 /\ k' = 0
  BY RoundMoves
<1>3. /\ StrayCell' = StrayCell /\ StrayHere' = StrayHere
      /\ Scattered(B)' <=> Scattered(B')
  BY <1>2 DEF StrayCell, StrayHere, Scattered, Has, Reach, Stray, BCell, Want
<1>4. ASSUME j = M - 8
      PROVE  /\ M = 32 /\ k = 7 => Scattered(B')
             /\ M = 32 /\ k \in 8 .. 15 /\ Scattered(B) => Scattered(B')
             /\ M = 64 /\ N = 1 /\ k = 3 => B'[StrayCell] = StrayHere
             /\ M = 64 /\ N = 1 /\ k \in 4 .. 7 => B'[StrayCell] = B[StrayCell]
             /\ M = 64 /\ N > 1 /\ k = 7 => B'[StrayCell] = StrayHere
  <2>1. LastBlock
    BY <1>0, <1>1, <1>4 DEF LastBlock
  <2> QED
    BY <2>1, LastBlockRound
<1>5. /\ M = 32 /\ j = M - 8 /\ k >= 8 => Scattered(B)
      /\ M = 64 /\ N = 1 /\ j = M - 8 /\ k >= 4 => B[StrayCell] = StrayHere
  BY DEF StraysInB
<1>6. i' >= N \/ (j' = M - 8 /\ k' >= 4) => j = M - 8 /\ k + 1 >= 4
  BY <1>0, <1>1, <1>2
<1>7. i' >= N => j = M - 8 /\ k + 1 = Rounds
  BY <1>0, <1>1, <1>2
<1>8. ASSUME M = 32, i' >= N \/ (j' = M - 8 /\ k' >= 8) PROVE Scattered(B')
  <2>1. j = M - 8 /\ (k = 7 \/ (k \in 8 .. 15 /\ k >= 8))
    BY <1>0, <1>1, <1>2, <1>8
  <2> QED
    BY <1>4, <1>5, <1>8, <2>1
<1>9. ASSUME M = 64, N = 1, i' >= N \/ (j' = M - 8 /\ k' >= 4) PROVE B'[StrayCell] = StrayHere
  <2>1. j = M - 8 /\ (k = 3 \/ (k \in 4 .. 7 /\ k >= 4))
    BY <1>0, <1>1, <1>2, <1>9
  <2> QED
    BY <1>4, <1>5, <1>9, <2>1
<1>10. ASSUME M = 64, N > 1, i' >= N PROVE B'[StrayCell] = StrayHere
  <2>1. j = M - 8 /\ k = 7
    BY <1>0, <1>1, <1>7, <1>10
  <2> QED
    BY <1>4, <1>10, <2>1
<1> QED
  BY <1>2, <1>3, <1>8, <1>9, <1>10 DEF StraysInB

(* Eight numbers that A does not have do not fit into the cells that the   *)
(* blocks reach past the end of B.                                         *)
LEMMA ScatteredIsWrong ==
    ASSUME ShortRows, M = 32, Scattered(B)
    PROVE  ~validate
<1>1. SUFFICES ASSUME validate PROVE FALSE
  OBVIOUS
<1> DEFINE p == M * N
           f == [c \in Places |-> CHOOSE n \in Reach : B[n] = Stray(c)]
           Past == p .. (M - 1) * N + 7
<1>0. M \in Nat /\ N \in Nat /\ N > 0 /\ N <= 7 /\ p \in Nat /\ p <= 224 /\ (M - 1) * N = p - N
  BY DEF ShortRows
<1>2. ASSUME NEW n \in 0 .. p - 1 PROVE B[n] < p
  <2>1. n \in DOMAIN correctTrans /\ correctTrans[n] < M * N
    BY <1>0, CellOfB DEF correctTrans
  <2> QED
    BY <1>1, <2>1 DEF validate
<1>3. ASSUME NEW c \in Places PROVE Stray(c) = 248 + c /\ Stray(c) >= p
  BY <1>0 DEF Stray, Want, Places
<1>4. ASSUME NEW c \in Places PROVE f[c] \in Past /\ B[f[c]] = Stray(c)
  <2>1. \E n \in Reach : B[n] = Stray(c)
    BY DEF Scattered, Has
  <2>2. f[c] \in Reach /\ B[f[c]] = Stray(c)
    BY <2>1
  <2>3. Reach = 0 .. (p - N) + 7 /\ Past = p .. (p - N) + 7
    BY <1>0 DEF Reach
  <2> DEFINE n == f[c]
  <2>4. n \in 0 .. (p - N) + 7 /\ B[n] = 248 + c /\ 248 + c >= p
    BY <1>3, <2>2, <2>3
  <2> HIDE DEF f, n, p, Past
  <2>5. ~(n \in 0 .. p - 1)
    <3>1. SUFFICES ASSUME n \in 0 .. p - 1 PROVE FALSE
      OBVIOUS
    <3>2. B[n] < p
      BY <1>2, <3>1
    <3>3. 248 + c < p
      BY <2>4, <3>2
    <3> QED
      BY <1>0, <2>4, <3>3 DEF Places
  <2>6. n \in Past
    BY <1>0, <2>3, <2>4, <2>5
  <2> QED
    BY <2>2, <2>6 DEF n
<1>5. f \in [Places -> Past]
  BY <1>4
<1>6. IsFiniteSet(Places) /\ Cardinality(Places) = 8
  <2>1. 0 \in Int /\ 7 \in Int /\ ~(0 > 7) /\ 7 - 0 + 1 = 8
    OBVIOUS
  <2> QED
    BY <2>1, FS_Interval DEF Places
<1>7. IsFiniteSet(Past) /\ Cardinality(Past) < 8
  <2> DEFINE u == (M - 1) * N + 7
  <2>1. p \in Int /\ u \in Int /\ u - p + 1 = 8 - N
    BY <1>0
  <2> HIDE DEF u, p
  <2>2. IsFiniteSet(p .. u) /\ Cardinality(p .. u) = IF p > u THEN 0 ELSE u - p + 1
    BY <2>1, FS_Interval
  <2>3. Cardinality(p .. u) < 8
    BY <1>0, <2>1, <2>2
  <2> QED
    BY <2>2, <2>3 DEF u
<1> HIDE DEF f, Past
<1>8. PICK x \in Places, y \in Places : x # y /\ f[x] = f[y]
  BY <1>5, <1>6, <1>7, FS_PigeonHole
<1>9. 248 + x = 248 + y
  BY <1>3, <1>4, <1>8
<1> QED
  BY <1>8, <1>9 DEF Places

(* In the end B is wrong in all short rows.                                *)
LEMMA ShortRowsAreWrong ==
    ASSUME ShortRows, StraysInB, i >= N
    PROVE  ~validate
<1>0. M \in {32, 64} /\ M \in Nat /\ N \in 1 .. 7 /\ N \in Nat /\ N > 0
  BY DEF ShortRows
<1>1. CASE M = 32
  BY <1>1, ScatteredIsWrong DEF StraysInB
<1>2. CASE M = 64
  <2>1. B[StrayCell] = StrayHere
    BY <1>0, <1>2 DEF StraysInB
  <2> DEFINE p == M * N
  <2>2. p = 64 * N /\ M * N = p
    BY <1>2
  <2>3. StrayCell = 59 * N + (IF N = 1 THEN 0 ELSE 7)
    BY <1>2 DEF StrayCell, BCell
  <2>4. StrayHere = IF N = 1 THEN 248 ELSE 507
    BY <1>2 DEF StrayHere, Want
  <2>5. StrayCell \in 0 .. p - 1 /\ StrayHere \in Nat /\ StrayHere >= p
    BY <1>0, <2>2, <2>3, <2>4
  <2>6. StrayCell \in DOMAIN correctTrans /\ correctTrans[StrayCell] < p
    BY <1>0, <2>5, CellOfB DEF correctTrans
  <2>7. SUFFICES ASSUME validate PROVE FALSE
    OBVIOUS
  <2>8. B[StrayCell] = correctTrans[StrayCell]
    BY <2>6, <2>7 DEF validate
  <2>9. StrayHere < p /\ p \in Nat
    BY <1>0, <2>1, <2>6, <2>8
  <2> HIDE DEF p
  <2> QED
    BY <2>5, <2>9
<1> QED
  BY <1>0, <1>1, <1>2
-----------------------------------------------------------------------------
(***************************************************************************)
(* What the rounds leave in B, so far.  The blocks that are done are       *)
(* transposed in a shape the function is written for; in another shape of  *)
(* a width it knows, the first row of the last block has run on into the   *)
(* second row of B, or the strays of short rows are in B.                  *)
(***************************************************************************)
BlocksDone ==
    Supported =>
      \A a, c \in Nat :
        a < M /\ c < N /\ (c < i \/ (c < i + 8 /\ a < j)) => B[BCell(a, c)] = Want(a, c)

RowOverrun ==
    ~Supported /\ (i >= N \/ (i + 8 > N /\ j > 0)) => B[N] = M * N

TraceInv ==
    /\ ~Handled => B = initMatrix
    /\ Handled /\ LongRows => (i < N => BlockInv(B, k)) /\ BlocksDone /\ RowOverrun
    /\ StraysInB

(* A round of an unfinished block.                                         *)
LEMMA DoneIsKept ==
    ASSUME Position, Handled, i < N, DOMAIN B = 0 .. M * N + 7, LongRows, Supported, BlocksDone,
           NEW mem, OthersKept(mem), NEW a \in Nat, NEW c \in Nat,
           a < M, c < N, c < i \/ (c < i + 8 /\ a < j)
    PROVE  mem[BCell(a, c)] = Want(a, c)
<1>0. M \in Nat /\ N \in Nat /\ i \in Nat /\ j \in Nat
  BY DEF Position
<1>1. Supported /\ M # 61 => i + 8 <= N
  BY BlocksFit
<1>2. ASSUME NEW a2 \in Nat, NEW c2 \in Nat, InBlock(a2, c2)
      PROVE  BCell(a, c) # BCell(a2, c2)
  <2>1. a2 >= j /\ c2 >= i /\ c2 < N /\ c2 < i + 8
    BY <1>0, <1>1, <1>2 DEF InBlock
  <2>2. ~(a = a2 /\ c = c2)
    BY <1>0, <2>1
  <2>3. c - c2 < N /\ c2 - c < N
    BY <1>0, <2>1
  <2> QED
    BY <1>0, <2>2, <2>3, CellsDiffer
<1>3. BCell(a, c) \in DOMAIN B
  <2>1. c < N + 7
    BY <1>0
  <2> QED
    BY <1>0, <2>1, CellsFit
<1>4. mem[BCell(a, c)] = B[BCell(a, c)]
  BY <1>2, <1>3 DEF OthersKept
<1>5. B[BCell(a, c)] = Want(a, c)
  BY DEF BlocksDone
<1> QED
  BY <1>4, <1>5

(* The cell that was overrun is not touched again.                         *)
LEMMA OverrunIsKept ==
    ASSUME Position, Handled, i < N, DOMAIN B = 0 .. M * N + 7, LongRows, ~Supported, i + 8 > N,
           j > 0, NEW mem, OthersKept(mem)
    PROVE  mem[N] = B[N]
<1>0. M \in Nat /\ N \in Nat /\ i \in Nat /\ j \in Nat /\ M \in {32, 64} /\ N >= 8 /\ i > 0
      /\ i % 8 = 0
  BY DEF Position, Handled, Supported, LongRows
<1>1. ASSUME NEW a \in Nat, NEW c \in Nat, InBlock(a, c) PROVE N # BCell(a, c)
  <2>1. a >= 1 /\ c >= 1
    BY <1>0, <1>1 DEF InBlock
  <2>2. N * 1 <= N * a
    BY <1>0, <2>1, ProductGrows
  <2>3. N * a = a * N /\ N * 1 = N /\ a * N \in Nat
    BY <1>0
  <2> DEFINE p == a * N
  <2>4. p >= N /\ BCell(a, c) = p + c /\ p \in Nat
    BY <1>0, <2>2, <2>3 DEF BCell
  <2> HIDE DEF p
  <2> QED
    BY <1>0, <2>1, <2>4
<1>2. N \in DOMAIN B
  <2> DEFINE p == M * N
  <2>1. N * 1 <= N * M
    BY <1>0, ProductGrows
  <2>2. N * M = p /\ N * 1 = N /\ p \in Nat
    BY <1>0
  <2>3. DOMAIN B = 0 .. p + 7
    OBVIOUS
  <2> HIDE DEF p
  <2> QED
    BY <1>0, <2>1, <2>2, <2>3
<1> QED
  BY <1>1, <1>2 DEF OthersKept

(* The last block of the first rows of B reaches one cell too far.         *)
LEMMA OverrunIsMade ==
    ASSUME Position, Handled, i < N, ~Supported, i + 8 > N, j = 0,
           NEW mem, BlockInv(mem, Rounds)
    PROVE  mem[N] = M * N
<1>0. M \in Nat /\ N \in Nat /\ i \in Nat /\ M \in {32, 64}
  BY DEF Position, Handled, Supported
<1>1. InBlock(0, N)
  BY <1>0 DEF InBlock, BlockWidth
<1>2. mem[BCell(0, N)] = Want(0, N)
  BY <1>0, <1>1, BlockDone
<1>3. BCell(0, N) = N /\ Want(0, N) = M * N
  BY <1>0 DEF BCell, Want
<1> QED
  BY <1>2, <1>3

(* A round keeps the invariant.                                            *)
LEMMA TraceKeeps ==
    ASSUME Position, DOMAIN B = 0 .. M * N + 7, TraceInv, transpose_round
    PROVE  TraceInv'
<1>0. /\ M \in Nat /\ N \in Nat /\ i \in Nat /\ j \in Nat /\ k \in Nat
      /\ Handled /\ i < N /\ j < M /\ k < Rounds
  BY DEF Position, transpose_round
<1>1. /\ M' = M /\ N' = N
      /\ \/ k + 1 < Rounds /\ i' = i /\ j' = j /\ k' = k + 1
         \/ k + 1 = Rounds /\ j + BlockWidth < M /\ i' = i /\ j' = j + BlockWidth /\ k' = 0
         \/ k + 1 = Rounds /\ j + BlockWidth >= M /\ i' = i + 8 /\ j' = 0 /\ k' = 0
  BY RoundMoves
<1>2. /\ Handled' <=> Handled
      /\ Supported' <=> Supported
      /\ LongRows' <=> LongRows
  BY <1>1 DEF Handled, Supported, LongRows
<1>3. StraysInB'
  <2>1. ShortRows' <=> ShortRows
    BY <1>1 DEF ShortRows
  <2>2. StraysInB
    BY DEF TraceInv
  <2>3. CASE ShortRows
    BY <2>2, <2>3, StraysStay
  <2>4. CASE ~ShortRows
    BY <2>1, <2>4 DEF StraysInB
  <2> QED
    BY <2>3, <2>4
<1>4. SUFFICES ASSUME LongRows PROVE (i' < N' => BlockInv(B, k)') /\ BlocksDone' /\ RowOverrun'
  BY <1>0, <1>2, <1>3 DEF TraceInv
<1>5. BlockInv(B, k) /\ BlocksDone /\ RowOverrun
  BY <1>0, <1>4 DEF TraceInv
<1>6. BlockInv(B', k + 1) /\ OthersKept(B')
  BY <1>4, <1>5, RoundEffect
<1>7. \A a, c : BCell(a, c)' = BCell(a, c) /\ Want(a, c)' = Want(a, c)
  BY <1>1 DEF BCell, Want
<1>8. ASSUME Supported, NEW a \in Nat, NEW c \in Nat, a < M, c < N,
             c < i \/ (c < i + 8 /\ a < j)
      PROVE  B'[BCell(a, c)] = Want(a, c)
  BY <1>0, <1>4, <1>5, <1>6, <1>8, DoneIsKept
<1>9. ASSUME ~Supported, i + 8 > N, j > 0 PROVE B'[N] = M * N
  <2>1. B'[N] = B[N]
    BY <1>0, <1>4, <1>6, <1>9, OverrunIsKept
  <2>2. B[N] = M * N
    BY <1>5, <1>9 DEF RowOverrun
  <2> QED
    BY <2>1, <2>2
<1>10. CASE k + 1 < Rounds /\ i' = i /\ j' = j /\ k' = k + 1
  <2>1. BlockInv(B, k)'
    BY <1>1, <1>6, <1>10
       DEF BlockInv, Block32, Block64, Block61, At, Its, BCell, Want, Whole61
  <2>2. BlocksDone'
    <3>1. SUFFICES ASSUME Supported, NEW a \in Nat, NEW c \in Nat, a < M, c < N,
                          c < i \/ (c < i + 8 /\ a < j)
                   PROVE  B'[BCell(a, c)] = Want(a, c)
      BY <1>1, <1>2, <1>7, <1>10 DEF BlocksDone
    <3> QED
      BY <1>8, <3>1
  <2>3. RowOverrun'
    BY <1>0, <1>1, <1>2, <1>9, <1>10 DEF RowOverrun
  <2> QED
    BY <2>1, <2>2, <2>3
<1>11. CASE k + 1 = Rounds
  <2>1. BlockInv(B', Rounds)
    BY <1>6, <1>11
  <2>2. ASSUME NEW a \in Nat, NEW c \in Nat, InBlock(a, c) PROVE B'[BCell(a, c)] = Want(a, c)
    BY <1>0, <2>1, <2>2, BlockDone
  <2>3. ASSUME Supported, NEW a \in Nat, NEW c \in Nat, a < M, c < N,
               c < i \/ (c < i + 8 /\ a < j + BlockWidth)
        PROVE  B'[BCell(a, c)] = Want(a, c)
    <3>1. CASE c < i \/ (c < i + 8 /\ a < j)
      BY <1>8, <2>3, <3>1
    <3>2. CASE ~(c < i \/ (c < i + 8 /\ a < j))
      <4>1. InBlock(a, c)
        BY <1>0, <2>3, <3>2 DEF InBlock, BlockWidth
      <4> QED
        BY <2>2, <4>1
    <3> QED
      BY <3>1, <3>2
  <2>4. ASSUME ~Supported, i + 8 > N PROVE B'[N] = M * N
    <3>1. CASE j = 0
      BY <1>0, <2>1, <2>4, <3>1, OverrunIsMade
    <3>2. CASE j # 0
      BY <1>0, <1>9, <2>4, <3>2
    <3> QED
      BY <3>1, <3>2
  <2>5. (k = 0 => BlockInv(B, k))'
    BY BlockStart, PTL
  <2>6. BlocksDone'
    <3>1. SUFFICES ASSUME Supported, NEW a \in Nat, NEW c \in Nat, a < M, c < N,
                          c < i' \/ (c < i' + 8 /\ a < j')
                   PROVE  B'[BCell(a, c)] = Want(a, c)
      BY <1>1, <1>2, <1>7 DEF BlocksDone
    <3>2. BlockWidth \in {8, 23}
      BY DEF BlockWidth
    <3>3. c < i \/ (c < i + 8 /\ a < j + BlockWidth)
      BY <1>0, <1>1, <1>11, <3>1, <3>2
    <3> QED
      BY <2>3, <3>1, <3>3
  <2>7. RowOverrun'
    <3>1. SUFFICES ASSUME ~Supported, i' >= N \/ (i' + 8 > N /\ j' > 0)
                   PROVE  B'[N] = M * N
      BY <1>1, <1>2 DEF RowOverrun
    <3>2. N % 8 # 0 /\ i % 8 = 0
      BY <1>0, <3>1 DEF Supported, Handled, Position
    <3>3. i + 8 > N
      BY <1>0, <1>1, <1>11, <3>1, <3>2
    <3> QED
      BY <2>4, <3>1, <3>3
  <2>8. k' = 0
    BY <1>0, <1>1, <1>11
  <2> QED
    BY <2>5, <2>6, <2>7, <2>8
<1> QED
  BY <1>1, <1>10, <1>11

(* What validate says when the function has returned.                      *)
LEMMA ValidateIsRight ==
    ASSUME Position, M # 0, N # 0, TraceInv, transpose_returns
    PROVE  validate <=> Supported
<1>0. M \in Nat /\ N \in Nat /\ M > 0 /\ N > 0
  BY DEF Position
<1>1. \A n \in 0 .. M * N - 1 : correctTrans[n] = (n % N) * M + n \div N
  BY DEF correctTrans
<1>2. validate <=> \A n \in 0 .. M * N - 1 : B[n] = correctTrans[n]
  BY DEF validate, correctTrans
<1>3. N * 1 <= N * M /\ N * M = M * N /\ M * N \in Nat
  BY <1>0, ProductGrows
<1>4. CASE ~Handled
  <2>1. 0 \in 0 .. M * N - 1 /\ 0 \in 0 .. M * N + 7
    BY <1>0, <1>3
  <2>2. B[0] = Junk
    BY <1>4, <2>1 DEF TraceInv, initMatrix
  <2>3. correctTrans[0] = 0
    <3>1. (0 % N) * M + 0 \div N = 0
      BY <1>0
    <3> QED
      BY <1>1, <2>1, <3>1
  <2>4. ~Supported
    BY <1>4 DEF Supported, Handled
  <2> QED
    BY <1>2, <2>1, <2>2, <2>3, <2>4, JunkAssumption
<1>5. CASE ShortRows
  <2>1. Handled /\ ~Supported
    BY <1>5 DEF ShortRows, Handled, Supported
  <2>2. i >= N /\ StraysInB
    BY <2>1 DEF transpose_returns, TraceInv
  <2> QED
    BY <1>5, <2>1, <2>2, ShortRowsAreWrong
<1>6. CASE Handled /\ LongRows /\ ~Supported
  <2>1. i >= N
    BY <1>6 DEF transpose_returns
  <2>2. B[N] = M * N
    BY <1>6, <2>1 DEF TraceInv, RowOverrun
  <2>3. M >= 2
    BY <1>6 DEF Handled
  <2>4. N * 2 <= N * M
    BY <1>0, <2>3, ProductGrows
  <2> DEFINE p == M * N
  <2>5. p \in Nat /\ 2 * N <= p
    BY <1>0, <1>3, <2>4
  <2>6. N % N = 0 /\ N \div N = 1
    <3>1. N = 1 * N + 0
      BY <1>0
    <3> QED
      BY <1>0, <3>1, DivModUnique
  <2> HIDE DEF p
  <2>7. N \in 0 .. p - 1 /\ p # 1
    BY <1>0, <2>5
  <2>8. correctTrans[N] = 1
    <3>1. correctTrans[N] = (N % N) * M + N \div N
      BY <1>1, <2>7 DEF p
    <3> QED
      BY <1>0, <2>6, <3>1
  <2> QED
    BY <1>2, <1>6, <2>2, <2>7, <2>8 DEF p
<1>7. CASE LongRows /\ Supported
  <2>1. Handled /\ i >= N /\ i \in Nat
    BY <1>7 DEF Supported, Handled, transpose_returns, Position
  <2>2. BlocksDone
    BY <1>7, <2>1 DEF TraceInv
  <2>3. ASSUME NEW n \in 0 .. M * N - 1 PROVE B[n] = correctTrans[n]
    <3> DEFINE a == n \div N
               c == n % N
    <3>1. /\ a \in Nat /\ c \in Nat /\ a < M /\ c < N /\ n = BCell(a, c)
          /\ correctTrans[n] = Want(a, c)
      BY <1>0, CellOfB
    <3> HIDE DEF a, c
    <3>2. c < i
      BY <1>0, <2>1, <3>1
    <3>3. B[BCell(a, c)] = Want(a, c)
      BY <1>7, <2>2, <3>1, <3>2 DEF BlocksDone
    <3> QED
      BY <3>1, <3>3
  <2> QED
    BY <1>2, <1>7, <2>3
<1>8. ShortRows \/ LongRows
  BY <1>0 DEF ShortRows, LongRows
<1> QED
  BY <1>4, <1>6, <1>7, <1>5, <1>8
-----------------------------------------------------------------------------
(***************************************************************************)
(* The verdicts.                                                           *)
(***************************************************************************)
Credited == IF failed THEN Old ELSE misses

RightVerdict(v) ==
    \/ v = <<0, 0>>
    \/ v = <<0, INT_MAX>> /\ ~Supported
    \/ v = <<1, Credited>> /\ Supported

VerdictInv ==
    /\ pc \in {"register", "trace", "validate"} =>
         results.correct = 0 /\ results.misses = INT_MAX
    /\ pc = "trace" => TraceInv
    /\ pc = "validate" => (validate <=> Supported)
    /\ pc \in {"simulate", "collect"} => results.correct = 1 /\ Supported
    /\ pc = "collect" => csim_results \in {None, Credited}
    /\ pc = "print" =>
         \/ results.correct = 0 /\ results.misses = INT_MAX /\ ~Supported
         \/ results.correct = 1 /\ Supported /\ results.misses = Credited
    /\ pc \in {"exiting", "exit"} /\ Len(verdicts) > 0 => RightVerdict(verdicts[1])
    /\ \A n \in 2 .. Len(verdicts) : verdicts[n] = <<0, 0>>

(* No verdict has been printed at first.                                   *)
LEMMA VerdictsInit == Init => VerdictInv
<1> SUFFICES ASSUME Init PROVE VerdictInv
  OBVIOUS
<1>1. pc = "exit" /\ Len(verdicts) = 0
  BY DEF Init
<1> QED
  BY <1>1 DEF VerdictInv

(* A run starts with no verdict, and no credit.                            *)
LEMMA VerdictsStart ==
    ASSUME TypesInv, VerdictInv, Start
    PROVE  VerdictInv'
<1>1. results' = Unknown /\ pc' \in {"exit", "register"} /\ Len(verdicts') = 0
  BY DEF Start
<1> QED
  BY <1>1 DEF VerdictInv, Unknown

(* Before the first round B is as it was filled.                           *)
LEMMA VerdictsRegister ==
    ASSUME TypesInv, VerdictInv, registerFunctions
    PROVE  VerdictInv'
<1>1. /\ pc = "register" /\ pc' = "trace" /\ i' = 0 /\ j' = 0 /\ k' = 0 /\ M' = M /\ N' = N
      /\ results' = [results EXCEPT !.funcid = 0] /\ B' = initMatrix /\ verdicts' = verdicts
  BY DEF registerFunctions
<1>2. results'.correct = 0 /\ results'.misses = INT_MAX
  BY <1>1 DEF TypesInv, Results, VerdictInv
<1>3. M \in 1 .. MAXN /\ N \in 1 .. MAXN
  BY <1>1 DEF TypesInv
<1>4. (k = 0 => BlockInv(B, k))'
  BY BlockStart, PTL
<1>5. BlocksDone'
  BY <1>1, <1>3, ShapeAssumption DEF BlocksDone
<1>6. RowOverrun'
  BY <1>1, <1>3, ShapeAssumption DEF RowOverrun
<1>7. StraysInB'
  BY <1>1 DEF StraysInB, ShortRows
<1>8. B' = initMatrix'
  BY <1>1 DEF initMatrix
<1>9. TraceInv'
  BY <1>1, <1>4, <1>5, <1>6, <1>7, <1>8 DEF TraceInv
<1> QED
  BY <1>1, <1>2, <1>9 DEF VerdictInv

(* Each round keeps the invariant.                                         *)
LEMMA VerdictsTrace ==
    ASSUME TypesInv, VerdictInv, Trace
    PROVE  VerdictInv'
<1>1. /\ pc = "trace" /\ pc' = "trace" /\ results' = results /\ transpose_round
      /\ verdicts' = verdicts
  BY DEF Trace
<1>2. Position /\ DOMAIN B = 0 .. M * N + 7 /\ TraceInv
  BY <1>1 DEF TypesInv, VerdictInv
<1>3. TraceInv'
  BY <1>1, <1>2, TraceKeeps
<1> QED
  BY <1>1, <1>3 DEF VerdictInv

(* When the function returns, validation is right.                         *)
LEMMA VerdictsTraceEnds ==
    ASSUME TypesInv, VerdictInv, TraceEnds
    PROVE  VerdictInv'
<1>1. /\ pc = "trace" /\ pc' = "validate" /\ results' = results /\ transpose_returns
      /\ M' = M /\ N' = N /\ B' = B /\ verdicts' = verdicts
  BY DEF TraceEnds
<1>2. Position /\ TraceInv /\ M # 0 /\ N # 0
  BY <1>1, ShapeAssumption DEF TypesInv, VerdictInv
<1>3. validate <=> Supported
  BY <1>1, <1>2, ValidateIsRight
<1>4. (validate' <=> validate) /\ (Supported' <=> Supported)
  BY <1>1 DEF validate, correctTrans, Supported
<1> QED
  BY <1>1, <1>3, <1>4 DEF VerdictInv

(* What is reported goes back to validation and simulation.                *)
LEMMA VerdictsFinish ==
    ASSUME TypesInv, VerdictInv,
           Validate \/ (\E runs \in BOOLEAN : Simulate(runs)) \/ Collect
    PROVE  VerdictInv'
<1>1. /\ M' = M /\ N' = N /\ misses' = misses /\ verdicts' = verdicts
      /\ pc \notin {"exit", "exiting"}
  BY DEF Validate, Simulate, Collect, transVars
<1>2. Supported' <=> Supported
  BY <1>1 DEF Supported
<1>3. CASE Validate
  <2>1. /\ pc = "validate" /\ failed' = failed
        /\ validate => results' = [results EXCEPT !.correct = 1] /\ pc' = "simulate"
        /\ ~validate => pc' = "print" /\ results' = results
    BY <1>3 DEF Validate
  <2>2. results \in Results /\ results.correct = 0 /\ results.misses = INT_MAX
    BY <2>1 DEF TypesInv, VerdictInv
  <2>3. validate => results'.correct = 1
    BY <2>1, <2>2 DEF Results
  <2>4. validate <=> Supported
    BY <2>1 DEF VerdictInv
  <2> QED
    BY <1>1, <1>2, <2>1, <2>2, <2>3, <2>4 DEF VerdictInv
<1>4. CASE \E runs \in BOOLEAN : Simulate(runs)
  <2>1. pc = "simulate" /\ pc' = "collect" /\ results' = results
    BY <1>4 DEF Simulate
  <2>2. results.correct = 1 /\ Supported
    BY <2>1 DEF VerdictInv
  <2>3. csim_results' \in {None, Credited'}
    BY <1>1, <1>4 DEF Simulate, Credited
  <2> QED
    BY <1>1, <1>2, <2>1, <2>2, <2>3 DEF VerdictInv
<1>5. CASE Collect
  <2>1. /\ pc = "collect" /\ Credited' = Credited
        /\ \/ pc' = "exit"
           \/ /\ csim_results # None
              /\ pc' = "print" /\ results' = [results EXCEPT !.misses = csim_results]
    BY <1>1, <1>5 DEF Collect, Credited
  <2>2. results \in Results /\ Len(verdicts) = 0
    BY <2>1 DEF TypesInv
  <2>3. results.correct = 1 /\ Supported /\ csim_results \in {None, Credited}
    BY <2>1 DEF VerdictInv
  <2>4. CASE pc' = "exit"
    BY <1>1, <2>2, <2>4 DEF VerdictInv
  <2>5. CASE /\ csim_results # None
             /\ pc' = "print" /\ results' = [results EXCEPT !.misses = csim_results]
    <3>1. results'.correct = results.correct /\ results'.misses = csim_results
      BY <2>2, <2>5 DEF Results
    <3> QED
      BY <1>1, <1>2, <2>1, <2>3, <2>5, <3>1 DEF VerdictInv
  <2> QED
    BY <2>1, <2>4, <2>5
<1> QED
  BY <1>3, <1>4, <1>5

(* The first verdict is that of the results, or of the alarm; a second is  *)
(* the alarm's.                                                            *)
LEMMA VerdictsPrint ==
    ASSUME TypesInv, VerdictInv, Report \/ Exit \/ sigalrm_handler
    PROVE  VerdictInv'
<1>1. M' = M /\ N' = N /\ misses' = misses /\ failed' = failed /\ pc' \in {"exiting", "exit"}
  BY DEF Report, Exit, sigalrm_handler, transVars
<1>2. (Supported' <=> Supported) /\ Credited' = Credited
  BY <1>1 DEF Supported, Credited
<1>3. verdicts \in Seq(Verdict)
  BY DEF TypesInv
<1>8. ASSUME NEW n \in 2 .. Len(verdicts') PROVE verdicts'[n] = <<0, 0>>
  <2>1. CASE Report
    <3>1. Len(verdicts') = 1
      BY <1>3, <2>1 DEF Report, TypesInv
    <3> QED
      BY <1>8, <3>1
  <2>2. CASE Exit
    BY <1>8, <2>2 DEF Exit, VerdictInv
  <2>3. CASE sigalrm_handler
    <3>1. verdicts' = Append(verdicts, <<0, 0>>)
      BY <2>3 DEF sigalrm_handler
    <3>2. n \in 2 .. Len(verdicts) \/ n = Len(verdicts) + 1
      BY <1>3, <1>8, <3>1
    <3> QED
      BY <1>3, <3>1, <3>2 DEF VerdictInv
  <2> QED
    BY <2>1, <2>2, <2>3
<1>4. SUFFICES ASSUME Len(verdicts') > 0 PROVE RightVerdict(verdicts[1])'
  BY <1>1, <1>2, <1>8 DEF VerdictInv
<1>5. CASE Report
  <2> DEFINE v == <<results.correct, results.misses>>
  <2>1. pc = "print" /\ Len(verdicts) = 0 /\ verdicts' = Append(verdicts, v)
    BY <1>5 DEF Report, TypesInv
  <2>2. \/ results.correct = 0 /\ results.misses = INT_MAX /\ ~Supported
        \/ results.correct = 1 /\ Supported /\ results.misses = Credited
    BY <1>4, <2>1 DEF VerdictInv
  <2>3. results.correct = 1 /\ results.misses = Credited => v = <<1, Credited>>
    OBVIOUS
  <2>4. results.correct = 0 /\ results.misses = INT_MAX => v = <<0, INT_MAX>>
    OBVIOUS
  <2> HIDE DEF v
  <2>5. RightVerdict(v)
    BY <2>2, <2>3, <2>4 DEF RightVerdict
  <2>6. verdicts'[1] = v
    BY <1>3, <2>1
  <2> QED
    BY <1>1, <1>2, <2>5, <2>6 DEF RightVerdict
<1>6. CASE Exit
  <2>1. pc = "exiting" /\ verdicts' = verdicts
    BY <1>6 DEF Exit
  <2>2. RightVerdict(verdicts[1])
    BY <1>4, <2>1 DEF VerdictInv
  <2> QED
    BY <1>1, <1>2, <2>1, <2>2 DEF RightVerdict
<1>7. CASE sigalrm_handler
  <2>1. pc \notin {"exit", "register"} /\ verdicts' = Append(verdicts, <<0, 0>>)
    BY <1>7 DEF sigalrm_handler
  <2>2. CASE pc = "exiting"
    <3>1. Len(verdicts) = 1
      BY <2>2 DEF TypesInv
    <3>2. RightVerdict(verdicts[1])
      BY <1>4, <2>2, <3>1 DEF VerdictInv
    <3>3. verdicts'[1] = verdicts[1]
      BY <1>3, <2>1, <3>1
    <3> QED
      BY <1>1, <1>2, <3>2, <3>3 DEF RightVerdict
  <2>3. CASE pc # "exiting"
    <3>1. Len(verdicts) = 0
      BY <2>1, <2>3 DEF TypesInv
    <3>2. verdicts'[1] = <<0, 0>>
      BY <1>3, <2>1, <3>1
    <3> QED
      BY <3>2 DEF RightVerdict
  <2> QED
    BY <2>2, <2>3
<1> QED
  BY <1>5, <1>6, <1>7

(* Every step keeps the verdicts right.                                    *)
LEMMA VerdictsNext == TypesInv /\ VerdictInv /\ [Next]_vars => VerdictInv'
<1> SUFFICES ASSUME TypesInv, VerdictInv, [Next]_vars PROVE VerdictInv'
  OBVIOUS
<1>1. CASE Start
  BY <1>1, VerdictsStart
<1>2. CASE registerFunctions
  BY <1>2, VerdictsRegister
<1>3. CASE Trace
  BY <1>3, VerdictsTrace
<1>4. CASE TraceEnds
  BY <1>4, VerdictsTraceEnds
<1>5. CASE Validate \/ (\E runs \in BOOLEAN : Simulate(runs)) \/ Collect
  BY <1>5, VerdictsFinish
<1>6. CASE Report \/ Exit \/ sigalrm_handler
  BY <1>6, VerdictsPrint
<1>7. CASE UNCHANGED vars
  <2>1. /\ M' = M /\ N' = N /\ B' = B /\ i' = i /\ j' = j /\ k' = k
        /\ misses' = misses /\ results' = results /\ csim_results' = csim_results
        /\ failed' = failed /\ pc' = pc /\ verdicts' = verdicts
    BY <1>7 DEF vars, transVars
  <2>2. /\ LongRows' <=> LongRows
        /\ Supported' <=> Supported
        /\ Handled' <=> Handled
        /\ validate' <=> validate
        /\ initMatrix' = initMatrix
        /\ RightVerdict(verdicts[1])' <=> RightVerdict(verdicts[1])
        /\ Credited' = Credited
    BY <2>1 DEF LongRows, Supported, Handled, validate, correctTrans, initMatrix, RightVerdict,
                Credited
  <2>6. StraysInB' <=> StraysInB
    BY <2>1 DEF StraysInB, ShortRows, Scattered, Has, Reach, Stray, StrayCell, StrayHere,
                BCell, Want
  <2>3. BlockInv(B, k)' <=> BlockInv(B, k)
    BY <2>1 DEF BlockInv, Block32, Block64, Block61, At, Its, BCell, Want, Whole61
  <2>4. (BlocksDone' <=> BlocksDone) /\ (RowOverrun' <=> RowOverrun)
    BY <2>1, <2>2 DEF BlocksDone, RowOverrun, BCell, Want
  <2>5. TraceInv' <=> TraceInv
    BY <2>1, <2>2, <2>3, <2>4, <2>6 DEF TraceInv
  <2> QED
    BY <2>1, <2>2, <2>5 DEF VerdictInv
<1> QED
  BY <1>1, <1>2, <1>3, <1>4, <1>5, <1>6, <1>7 DEF Next, eval_perf

(* They are right in every state.                                          *)
LEMMA VerdictsAlways == Spec => [](TypesInv /\ VerdictInv)
<1>1. TypesInv /\ VerdictInv /\ [Next]_vars => VerdictInv'
  BY VerdictsNext
<1> QED
  BY <1>1, TypesAlways, VerdictsInit, PTL DEF Spec

(* transpose_submit is found correct exactly in the shapes it is written   *)
(* for: 61 columns, and 32 or 64 columns with rows in multiples of eight   *)
(* (trans.c, the validation of tracegen.c).  In rows shorter than a block, *)
(* where it meets its own cells again, it always leaves a number in B that *)
(* A does not have.                                                        *)
THEOREM CorrectWhenSupportedHolds == Spec => []CorrectWhenSupported
<1>1. TypesInv /\ VerdictInv => CorrectWhenSupported
  <2> SUFFICES ASSUME TypesInv, VerdictInv, pc \in {"simulate", "print"}
               PROVE  results.correct = 1 <=> Supported
    BY DEF CorrectWhenSupported
  <2> QED
    BY DEF VerdictInv
<1> QED
  BY <1>1, VerdictsAlways, PTL

(* Every verdict is accounted for, whenever the alarm goes off and         *)
(* whatever files an earlier run has left: what the first credits was      *)
(* validated in its own run, its misses are those simulated in its own     *)
(* run, or exactly an earlier run's where the simulator failed unnoticed,  *)
(* and any later one is the alarm's (test-trans.c, eval_perf, main and     *)
(* the handler).                                                           *)
THEOREM VerdictsAccountedHolds == Spec => []VerdictsAccounted
<1>1. TypesInv /\ VerdictInv => VerdictsAccounted
  <2> SUFFICES ASSUME TypesInv, VerdictInv, pc \in {"exiting", "exit"},
                      verdicts # <<>>
               PROVE  /\ RightVerdict(verdicts[1])
                      /\ \A n \in 2 .. Len(verdicts) : verdicts[n] = <<0, 0>>
    BY DEF VerdictsAccounted, RightVerdict, Credited
  <2>1. verdicts \in Seq(Verdict)
    BY DEF TypesInv
  <2>2. Len(verdicts) > 0
    BY <2>1
  <2> QED
    BY <2>2 DEF VerdictInv
<1> QED
  BY <1>1, VerdictsAlways, PTL
=============================================================================
