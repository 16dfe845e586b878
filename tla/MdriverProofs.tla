---------------------------- MODULE MdriverProofs ----------------------------
(***************************************************************************)
(* The invariants of module Mdriver, and that mm.c, replaying any trace,   *)
(* implements Allocator: for every heap, word width and set of traces.     *)
(* What it takes is that no request makes mem_brk + incr wrap              *)
(* (NoRequestWraps), a premise of each theorem about the replays; the      *)
(* theorem SbrkKeepsRegion says that mem_sbrk needs it.                    *)
(*                                                                         *)
(* The argument is in two layers.  A replay, whichever function makes it,  *)
(* is seen as the requests done so far (Done), the payloads held (Held),   *)
(* where they are (Lo), how big (Sz), and the heap; each step of the       *)
(* driver is of one of a few kinds (StepKinds).  What an allocator must    *)
(* keep is then proved once per kind.                                      *)
(***************************************************************************)
EXTENDS Mdriver, DataLemmas, SequenceTheorems

(* LiveAfter and Size for any trace.                                       *)
LiveIn(s, n) ==
    {id \in Ids : \E m \in 1 .. n :
        /\ s[m].index = id /\ s[m].type = "ALLOC"
        /\ \A k \in m + 1 .. n : ~(s[k].index = id /\ s[k].type = "FREE")}
SizeIn(s, n, id) == s[Max({j \in 1 .. n : s[j].index = id /\ s[j].type # "FREE"})].size

(* The requests a program could have made.                                 *)
WellFormed(s) ==
    \A n \in 1 .. Len(s) : s[n].type = "ALLOC" <=> s[n].index \notin LiveIn(s, n - 1)

(* What the first n requests take from the heap.                           *)
Need(size)  == ALIGN(size + SIZE_T_SIZE)
Takers(s)   == {j \in DOMAIN s : s[j].type # "FREE"}
Needs(s)    == [k \in Takers(s) |-> Need(s[k].size)]
Taken(s, n) == SumFunctionOnSet(Needs(s), {k \in Takers(s) : k <= n})
-----------------------------------------------------------------------------
(* The replay of a trace on mm, as an allocator sees it.                   *)
Replaying == pkg = "mm" /\ phase \in {"valid", "fill", "util", "speed"} /\ i > 0

Pending == phase = "fill"
Done    == IF Pending THEN i ELSE i - 1
Held    == LiveIn(ops, Done)
Lo      == [id \in Held |-> IF Pending /\ id = req.index THEN p ELSE blocks[id]]
Sz      == [id \in Held |-> SizeIn(ops, Done, id)]

(* A payload of n bytes at lo, behind a header that says so.               *)
Placed(h, lo, n) ==
    /\ lo % ALIGNMENT = 0 /\ lo \in Nat
    /\ n \in Sizes
    /\ mem_start_brk + SIZE_T_SIZE <= lo /\ lo + n <= h.brk
    /\ h.mem[lo - SIZE_T_SIZE] = n

(* Neither block reaches into the other, the headers included.             *)
Apart(lo, n, lo2, n2) == lo + n <= lo2 - SIZE_T_SIZE \/ lo2 + n2 <= lo - SIZE_T_SIZE

(* No two ranges start at the same place.                                  *)
DistinctLo(list) == \A m, n \in 1 .. Len(list) : list[m].lo = list[n].lo => m = n

(* The payload at lo holds the low byte of its id.                         *)
Filled(h, lo, n, id) == \A k \in 0 .. n - 1 : h.mem[lo + k] = LowByte(id)
-----------------------------------------------------------------------------
(* The inductive invariant, part by part.                                  *)

Extents == [lo : Pointers, hi : Pointers]

ControlTypes ==
    /\ pkg \in {"libc", "mm"} /\ phase \in Phases
    /\ tracenum \in Files /\ files \in Seq(Seq(Op)) /\ ops \in Seq(Op)
    /\ i \in 0 .. Len(ops) + 1 /\ runs \in 0 .. Repeats - 1

StoreTypes ==
    /\ blocks \in [Ids -> Nat] /\ block_sizes \in [Ids -> {0} \cup Sizes]
    /\ pkg = "mm" /\ phase # "read" => blocks \in [Ids -> Pointers]
    /\ p \in Pointers /\ heap \in Heaps /\ ranges \in Seq(Extents)
    /\ libc \subseteq Nat /\ IsFiniteSet(libc)

ScoreTypes ==
    /\ total_size \in Int /\ max_total_size \in Nat
    /\ valid \in [Files -> BOOLEAN] /\ errors \in Nat
    /\ status \in {"running", "assert", "app_error", "unix_error", "graded",
                   "terminated with errors"}

Types == ControlTypes /\ StoreTypes /\ ScoreTypes

(* The traces read so far, and where in them the driver is.                *)
TraceInv ==
    /\ \A t \in DOMAIN files : WellFormed(files[t])
    /\ WellFormed(ops)
    /\ Len(files) \in tracenum - 1 .. num_tracefiles
    /\ phase = "read" =>
         /\ i = 0
         /\ tracenum <= Len(files) =>
              /\ Len(ops) <= Len(files[tracenum])
              /\ \A k \in 1 .. Len(ops) : ops[k] = files[tracenum][k]
    /\ phase \notin {"read", "report"} =>
         tracenum <= Len(files) /\ ops = files[tracenum]
    /\ phase = "report" => tracenum = num_tracefiles /\ Len(files) = num_tracefiles
    /\ phase \in {"fill", "util", "report"} => pkg = "mm"
    /\ phase = "fill" => i \in 1 .. Len(ops) /\ req.type # "FREE" /\ p # NULL
    /\ phase # "fill" => p = NULL

(* The blocks of a replay lie in the heap, below the break, apart.         *)
LayoutInv ==
    Replaying =>
        /\ heap.brk % ALIGNMENT = 0
        /\ \A id \in Held : Placed(heap, Lo[id], Sz[id])
        /\ \A id, id2 \in Held : id # id2 => Apart(Lo[id], Sz[id], Lo[id2], Sz[id2])

(* The break has risen by what the requests needed.                        *)
DemandInv ==
    /\ Replaying =>
         /\ heap.brk = mem_start_brk + Taken(ops, Done)
         /\ \A k \in Takers(ops) : k <= Done => Need(ops[k].size) < 2^(WordBits - 1)
    /\ pkg = "mm" /\ phase \in {"util", "speed"} => FitsHeap(ops)

(* The range list names the payloads, each once.                           *)
RangesInv ==
    Replaying /\ phase \in {"valid", "fill"} =>
        /\ ToSet(ranges) = {Extent(Lo[id], Sz[id]) : id \in Held}
        /\ DistinctLo(ranges)

(* What eval_mm_valid has written is there, and block_sizes says how much. *)
FilledInv ==
    Replaying /\ phase \in {"valid", "fill"} =>
        /\ \A id \in Held :
             ~(Pending /\ id = req.index) =>
               block_sizes[id] = Sz[id] /\ Filled(heap, Lo[id], Sz[id], id)
        /\ Pending /\ req.type = "REALLOC" =>
             /\ block_sizes[req.index] \in Sizes
             /\ \A k \in 0 .. req.size - 1 :
                  k < block_sizes[req.index] => heap.mem[p + k] = LowByte(req.index)

UtilInv ==
    Replaying /\ phase = "util" =>
        /\ \A id \in Held : block_sizes[id] = Sz[id]
        /\ total_size = SumFunctionOnSet(Sz, Held)
        /\ total_size <= max_total_size
        /\ max_total_size <= mem_heapsize(heap.brk)

(* libc's blocks: those of this replay are still allocated, and differ.    *)
LibcInv ==
    pkg = "libc" /\ phase \in {"valid", "speed"} /\ i > 0 =>
        /\ \A id \in Held : blocks[id] \in libc
        /\ \A id, id2 \in Held : id # id2 => blocks[id] # blocks[id2]

IInv ==
    /\ NoRequestWraps
    /\ Types /\ TraceInv /\ LayoutInv /\ DemandInv /\ RangesInv
    /\ FilledInv /\ UtilInv /\ LibcInv
    /\ status # "app_error"
-----------------------------------------------------------------------------
(* The words, the alignment and the header.                                *)
B == 2^WordBits
H == 2^(WordBits - 1)

(* What the assumptions on the constants come to.                          *)
LEMMA ConstantFacts ==
    /\ B \in Nat /\ H \in Nat /\ B = 2 * H
    /\ mem_start_brk \in Nat \ {0} /\ MAX_HEAP \in Nat /\ mem_max_addr \in Nat
    /\ mem_start_brk <= mem_max_addr /\ mem_max_addr < B - 1
    /\ ALIGNMENT \in Nat \ {0} /\ sizeof_size_t \in Nat \ {0}
    /\ mem_start_brk % ALIGNMENT = 0
    /\ sizeof_size_t + 2 * ALIGNMENT <= H /\ B \in Nat \ {0}
  BY HeapAssumption, AlignmentAssumption DEF B, H, mem_max_addr

(* ALIGN rounds up to a multiple, by less than one.                        *)
LEMMA AlignRounds ==
    ASSUME NEW n \in Nat, n + ALIGNMENT - 1 < B
    PROVE  /\ ALIGN(n) \in Nat /\ n <= ALIGN(n) /\ ALIGN(n) <= n + ALIGNMENT - 1
           /\ ALIGN(n) % ALIGNMENT = 0
<1> DEFINE A == ALIGNMENT
           x == n + (A - 1)
           q == x \div A
           r == x % A
<1>0. A \in Nat \ {0} /\ x \in Nat /\ x < B /\ x = n + (A - 1)
  BY ConstantFacts
<1>1. ALIGN(n) = q * A
  <2>1. x % B = x
    <3> HIDE DEF x
    <3> QED
      BY <1>0, ConstantFacts, ModBelow
  <2> QED
    BY <2>1 DEF ALIGN, Word, B
<1>2. q \in Nat /\ r \in 0 .. A - 1 /\ x = A * q + r
  <2>1. x \in Int /\ A \in Nat \ {0}
    BY <1>0
  <2> HIDE DEF x, A
  <2> QED
    BY <1>0, <2>1, DivMod, Zenon
<1> HIDE DEF x, A, q, r
<1>3. q * A = A * q /\ q * A \in Nat /\ A * q + 0 = A * q /\ 0 \in 0 .. A - 1
  BY <1>0, <1>2
<1>4. n <= q * A /\ q * A <= n + A - 1
  BY <1>0, <1>2, <1>3
<1>5. (q * A) % A = 0
  <2> DEFINE y == q * A
  <2>1. y \in Int /\ q \in Int /\ y = A * q + 0
    BY <1>2, <1>3
  <2> HIDE DEF y
  <2>2. 0 = y % A
    BY <1>0, <1>3, <2>1, DivModUnique
  <2> QED
    BY <2>2 DEF y
<1> QED
  BY <1>1, <1>3, <1>4, <1>5 DEF A

(* The header is a multiple of the alignment and small.                    *)
LEMMA HeaderFacts ==
    /\ SIZE_T_SIZE \in Nat \ {0} /\ SIZE_T_SIZE % ALIGNMENT = 0
    /\ SIZE_T_SIZE + ALIGNMENT + 1 <= H
<1>1. sizeof_size_t \in Nat /\ sizeof_size_t + ALIGNMENT - 1 < B /\ ALIGNMENT \in Nat \ {0}
  BY ConstantFacts
<1>2. /\ SIZE_T_SIZE \in Nat /\ sizeof_size_t <= SIZE_T_SIZE
      /\ SIZE_T_SIZE <= sizeof_size_t + ALIGNMENT - 1 /\ SIZE_T_SIZE % ALIGNMENT = 0
  BY <1>1, AlignRounds DEF SIZE_T_SIZE
<1> QED
  BY <1>2, ConstantFacts

(* What a request takes from the heap does not wrap, though as an int it   *)
(* may be negative.                                                        *)
LEMMA NeedFacts ==
    ASSUME NEW size \in Sizes
    PROVE  /\ size \in Nat \ {0} /\ size < H
           /\ Word(size + SIZE_T_SIZE) = size + SIZE_T_SIZE
           /\ Need(size) \in Nat /\ size + SIZE_T_SIZE <= Need(size) /\ Need(size) < B
           /\ Need(size) % ALIGNMENT = 0
           /\ Signed(Need(size)) = IF Need(size) < H THEN Need(size) ELSE Need(size) - B
<1>1. size \in Nat \ {0} /\ size < H
  BY TraceAssumption, ConstantFacts DEF H
<1>2. size + SIZE_T_SIZE \in Nat /\ size + SIZE_T_SIZE + ALIGNMENT - 1 < B
      /\ size + SIZE_T_SIZE < B
  BY <1>1, HeaderFacts, ConstantFacts
<1>3. Word(size + SIZE_T_SIZE) = size + SIZE_T_SIZE
  BY <1>2, ModBelow, ConstantFacts DEF Word, B
<1>4. /\ Need(size) \in Nat /\ size + SIZE_T_SIZE <= Need(size)
      /\ Need(size) <= size + SIZE_T_SIZE + ALIGNMENT - 1 /\ Need(size) % ALIGNMENT = 0
  BY <1>2, AlignRounds DEF Need
<1>5. Need(size) < B
  BY <1>2, <1>4, ConstantFacts, HeaderFacts
<1> QED
  BY <1>1, <1>3, <1>4, <1>5 DEF Signed, H, B
-----------------------------------------------------------------------------
(* The allocator's calls.                                                  *)
Room(h, size) == Need(size) < H /\ h.brk + Need(size) <= mem_max_addr

NoRoom(h) == [heap |-> h, ret |-> NULL]

(* A new block of size bytes has been cut off the top of h.                *)
Grown(h, new, size) ==
    /\ new.heap \in Heaps
    /\ new.heap.brk = h.brk + Need(size)
    /\ new.ret = h.brk + SIZE_T_SIZE
    /\ new.heap.mem[h.brk] = size
    /\ \A a \in HeapAddr : a < h.brk => new.heap.mem[a] = h.mem[a]

(* What lay at ptr lies in the new block as well.                          *)
Carried(h, new, ptr, n, size) ==
    \A k \in 0 .. size - 1 : k < n => new.heap.mem[new.ret + k] = h.mem[ptr + k]

(* mm_malloc, in one equation: the break moves and the size is stored, or  *)
(* nothing happens.                                                        *)
LEMMA MallocResult ==
    ASSUME NoRequestWraps, NEW h \in Heaps, NEW size \in Sizes
    PROVE  mm_malloc(h, size) =
             IF Room(h, size)
               THEN [heap |-> [brk |-> h.brk + Need(size), mem |-> [h.mem EXCEPT ![h.brk] = size]],
                     ret  |-> h.brk + SIZE_T_SIZE]
               ELSE NoRoom(h)
<1> DEFINE n       == Need(size)
           newsize == Signed(ALIGN(Word(size + SIZE_T_SIZE)))
           got     == mem_sbrk(h.brk, newsize)
<1>0. /\ size \in Nat /\ n \in Nat /\ n < B /\ size + SIZE_T_SIZE <= n
      /\ newsize = IF n < H THEN n ELSE n - B
  BY NeedFacts DEF Need
<1>5. newsize >= 0 => mem_max_addr + newsize < B
  BY DEF NoRequestWraps, B
<1> HIDE DEF newsize
<1>1. h.brk \in Nat /\ mem_start_brk <= h.brk /\ h.brk <= mem_max_addr
  BY ConstantFacts DEF Heaps
<1>2. Failed = B - 1 /\ SIZE_T_SIZE \in Nat /\ NULL = 0
  BY HeaderFacts DEF Failed, B, NULL
<1>3. CASE n < H
  <2>1. newsize = n /\ newsize >= 0 /\ h.brk + newsize = h.brk + n /\ h.brk + n \in Nat
        /\ h.brk + n < B
    BY <1>0, <1>1, <1>3, <1>5, ConstantFacts
  <2>2. Word(h.brk + newsize) = h.brk + n
    BY <2>1, ModBelow, ConstantFacts DEF Word, B
  <2>3. CASE h.brk + n > mem_max_addr
    <3>1. got.ret = Failed
      BY <2>1, <2>2, <2>3 DEF mem_sbrk
    <3>2. ~Room(h, size)
      BY <2>1, <2>3, ConstantFacts DEF Room
    <3> QED
      BY <3>1, <3>2 DEF mm_malloc, NoRoom, newsize
  <2>4. CASE h.brk + n <= mem_max_addr
    <3>1. got = [brk |-> h.brk + n, ret |-> h.brk]
      <4>1. ~(newsize < 0 \/ Word(h.brk + newsize) > mem_max_addr)
        BY <1>0, <2>1, <2>2, <2>4, ConstantFacts
      <4> QED
        BY <2>2, <4>1, Zenon DEF mem_sbrk
    <3>2. h.brk # Failed
      BY <1>1, <1>2, ConstantFacts
    <3>3. Room(h, size)
      BY <1>3, <2>4 DEF Room
    <3>4. Word(h.brk + SIZE_T_SIZE) = h.brk + SIZE_T_SIZE
      <4>1. h.brk + SIZE_T_SIZE \in Nat /\ h.brk + SIZE_T_SIZE < B
        BY <1>0, <1>1, <1>2, <2>4, ConstantFacts
      <4> QED
        BY <4>1, ModBelow, ConstantFacts DEF Word, B
    <3> QED
      BY <3>1, <3>2, <3>3, <3>4 DEF mm_malloc, newsize
  <2> QED
    BY <2>1, <2>3, <2>4, ConstantFacts
<1>4. CASE ~(n < H)
  <2>1. newsize < 0
    <3>1. newsize = n - B
      BY <1>0, <1>4, Zenon
    <3> QED
      BY <1>0, <3>1, ConstantFacts
  <2>2. got.ret = Failed
    BY <2>1 DEF mem_sbrk
  <2>3. ~Room(h, size)
    BY <1>4 DEF Room
  <2> QED
    BY <2>2, <2>3 DEF mm_malloc, NoRoom, newsize
<1> QED
  BY <1>3, <1>4

(* A payload that is granted lies above the old break, aligned, and        *)
(* everything below it is as it was.                                       *)
LEMMA MallocGrows ==
    ASSUME NoRequestWraps, NEW h \in Heaps, NEW size \in Sizes, Room(h, size)
    PROVE  Grown(h, mm_malloc(h, size), size)
<1>1. mm_malloc(h, size) =
        [heap |-> [brk |-> h.brk + Need(size), mem |-> [h.mem EXCEPT ![h.brk] = size]],
         ret  |-> h.brk + SIZE_T_SIZE]
  BY MallocResult
<1>2. /\ h.brk \in Nat /\ mem_start_brk <= h.brk /\ h.brk + Need(size) <= mem_max_addr
      /\ Need(size) \in Nat \ {0} /\ size \in Nat /\ size < B
  BY ConstantFacts, HeaderFacts, NeedFacts DEF Heaps, Room
<1>3. h.brk \in HeapAddr /\ h.brk + Need(size) \in mem_start_brk .. mem_max_addr
  BY <1>2, ConstantFacts DEF HeapAddr
<1>4. [h.mem EXCEPT ![h.brk] = size] \in [HeapAddr -> 0 .. 2^WordBits - 1]
  BY <1>2, <1>3, ConstantFacts DEF Heaps, B
<1>5. \A a \in HeapAddr : a < h.brk => [h.mem EXCEPT ![h.brk] = size][a] = h.mem[a]
  BY <1>2, <1>3 DEF Heaps, HeapAddr
<1>6. [h.mem EXCEPT ![h.brk] = size][h.brk] = size
  BY <1>3 DEF Heaps
<1> QED
  BY <1>1, <1>3, <1>4, <1>5, <1>6 DEF Grown, Heaps

(* mm_realloc finds the old size in the header, also after the new block   *)
(* was made, and copies from below the old break to above it.              *)
LEMMA ReallocResult ==
    ASSUME NoRequestWraps,
           NEW h \in Heaps, NEW size \in Sizes, NEW ptr, NEW n, Placed(h, ptr, n)
    PROVE  LET new == mm_realloc(h, ptr, size)
           IN  /\ ~Room(h, size) => new = NoRoom(h)
               /\ Room(h, size) => Grown(h, new, size) /\ Carried(h, new, ptr, n, size)
<1> DEFINE mal == mm_malloc(h, size)
           new == mm_realloc(h, ptr, size)
<1>1. CASE ~Room(h, size)
  <2>1. mal = NoRoom(h)
    BY <1>1, MallocResult
  <2> QED
    BY <1>1, <2>1 DEF mm_realloc, NoRoom
<1>2. CASE Room(h, size)
  <2>1. Grown(h, mal, size) /\ mal = [heap |-> mal.heap, ret |-> mal.ret]
    BY <1>2, MallocGrows, MallocResult
  <2> HIDE DEF mal
  <2>2. /\ h.brk \in Nat /\ mem_start_brk <= h.brk /\ h.brk + Need(size) <= mem_max_addr
        /\ size \in Nat /\ size + SIZE_T_SIZE <= Need(size) /\ Need(size) \in Nat
        /\ SIZE_T_SIZE \in Nat \ {0} /\ mem_start_brk \in Nat \ {0} /\ mem_max_addr \in Nat
    BY <1>2, ConstantFacts, HeaderFacts, NeedFacts DEF Heaps, Room
  <2>3. ptr \in Nat /\ n \in Nat /\ mem_start_brk + SIZE_T_SIZE <= ptr /\ ptr + n <= h.brk
        /\ n > 0 /\ h.mem[ptr - SIZE_T_SIZE] = n
    BY NeedFacts DEF Placed
  <2>4. mal.ret = h.brk + SIZE_T_SIZE /\ mal.ret # NULL
    BY <2>1, <2>2 DEF Grown, NULL
  <2>5. ptr - SIZE_T_SIZE \in HeapAddr /\ ptr - SIZE_T_SIZE < h.brk
    BY <2>2, <2>3 DEF HeapAddr
  <2>6. mal.heap.mem[ptr - SIZE_T_SIZE] = n
    BY <2>1, <2>3, <2>5 DEF Grown
  <2> DEFINE len == IF size < n THEN size ELSE n
             mem == memcpy(mal.heap.mem, mal.ret, ptr, len)
  <2>7. new = [ret |-> mal.ret, heap |-> [mal.heap EXCEPT !.mem = mem]]
    BY <2>4, <2>6 DEF mm_realloc, mm_free, mal
  <2>8. len \in Nat /\ len <= size /\ len <= n /\ \A k \in 0 .. size - 1 : k < n => k < len
    BY <2>2, <2>3
  <2> HIDE DEF len
  <2>9. mal.heap \in Heaps /\ DOMAIN mal.heap.mem = HeapAddr
    BY <2>1 DEF Grown, Heaps
  <2>10. \A a \in HeapAddr : mem[a] = IF a \in mal.ret .. mal.ret + len - 1
                                        THEN mal.heap.mem[a - mal.ret + ptr]
                                        ELSE mal.heap.mem[a]
    BY <2>9 DEF memcpy
  <2>11. mem \in [HeapAddr -> 0 .. 2^WordBits - 1]
    <3>1. ASSUME NEW a \in HeapAddr, a \in mal.ret .. mal.ret + len - 1
          PROVE  a - mal.ret + ptr \in HeapAddr
      BY <2>2, <2>3, <2>4, <2>8, <3>1 DEF HeapAddr
    <3> QED
      BY <2>9, <3>1 DEF memcpy, Heaps
  <2> HIDE DEF mem
  <2>12. new.ret = mal.ret /\ new.heap = [brk |-> mal.heap.brk, mem |-> mem]
    BY <2>7, <2>9 DEF Heaps
  <2> HIDE DEF new
  <2>13. \A a \in HeapAddr : a < mal.ret => mem[a] = mal.heap.mem[a]
    BY <2>2, <2>4, <2>8, <2>10 DEF HeapAddr
  <2>14. h.brk \in HeapAddr /\ h.brk < mal.ret
    BY <2>2, <2>4 DEF HeapAddr
  <2>15. Grown(h, new, size)
    <3>1. new.heap \in Heaps
      BY <2>9, <2>11, <2>12 DEF Heaps
    <3>2. new.heap.brk = h.brk + Need(size) /\ new.ret = h.brk + SIZE_T_SIZE
      BY <2>1, <2>12 DEF Grown
    <3>3. new.heap.mem[h.brk] = size
      BY <2>1, <2>12, <2>13, <2>14 DEF Grown
    <3>4. \A a \in HeapAddr : a < h.brk => new.heap.mem[a] = h.mem[a]
      <4>1. \A a \in HeapAddr : a < h.brk => a < mal.ret
        BY <2>2, <2>4 DEF HeapAddr
      <4> QED
        BY <2>1, <2>12, <2>13, <4>1 DEF Grown
    <3> QED
      BY <3>1, <3>2, <3>3, <3>4 DEF Grown
  <2>16. Carried(h, new, ptr, n, size)
    <3>1. ASSUME NEW k \in 0 .. size - 1, k < n PROVE new.heap.mem[new.ret + k] = h.mem[ptr + k]
      <4>1. mal.ret + k \in HeapAddr /\ mal.ret + k \in mal.ret .. mal.ret + len - 1
            /\ (mal.ret + k) - mal.ret + ptr = ptr + k
        BY <2>2, <2>3, <2>4, <2>8, <3>1 DEF HeapAddr
      <4>2. ptr + k \in HeapAddr /\ ptr + k < h.brk
        BY <2>2, <2>3, <3>1 DEF HeapAddr
      <4>3. mem[mal.ret + k] = mal.heap.mem[ptr + k]
        BY <2>10, <4>1
      <4>4. mal.heap.mem[ptr + k] = h.mem[ptr + k]
        BY <2>1, <4>2 DEF Grown
      <4> QED
        BY <2>12, <4>3, <4>4
    <3> QED
      BY <3>1 DEF Carried
  <2> QED
    BY <1>2, <2>15, <2>16 DEF new
<1> QED
  BY <1>1, <1>2
-----------------------------------------------------------------------------
(* Traces, one request after the other.                                    *)

(* The fields of a request.                                                *)
LEMMA OpType ==
    ASSUME NEW s \in Seq(Op), NEW n \in 1 .. Len(s)
    PROVE  /\ s[n] \in Op /\ s[n].index \in Ids /\ s[n].type \in {"ALLOC", "REALLOC", "FREE"}
           /\ s[n].type # "FREE" => s[n].size \in Sizes
<1>1. s[n] \in Op
  BY ElementOfSeq
<1> QED
  BY <1>1 DEF Op

(* No id is live before the first request.                                 *)
LEMMA LiveAtStart ==
    ASSUME NEW s PROVE LiveIn(s, 0) = {}
  BY DEF LiveIn

(* How one request changes the live ids.                                   *)
LEMMA LiveStep ==
    ASSUME NEW s \in Seq(Op), NEW n \in 1 .. Len(s)
    PROVE  /\ s[n].type = "ALLOC"   => LiveIn(s, n) = LiveIn(s, n - 1) \cup {s[n].index}
           /\ s[n].type = "REALLOC" => LiveIn(s, n) = LiveIn(s, n - 1)
           /\ s[n].type = "FREE"    => LiveIn(s, n) = LiveIn(s, n - 1) \ {s[n].index}
<1>0. n \in Nat /\ n - 1 \in Nat /\ s[n].index \in Ids /\ Len(s) \in Nat
  BY OpType, LenProperties
<1> DEFINE Frees(k, id) == s[k].index = id /\ s[k].type = "FREE"
           LiveSince(m, k, id) == /\ s[m].index = id /\ s[m].type = "ALLOC"
                                  /\ \A j \in m + 1 .. k : ~Frees(j, id)
<1>1. \A k, id : id \in LiveIn(s, k) <=> id \in Ids /\ \E m \in 1 .. k : LiveSince(m, k, id)
  BY DEF LiveIn
<1>2. ASSUME NEW id, NEW m \in 1 .. n - 1
      PROVE  LiveSince(m, n, id) <=> LiveSince(m, n - 1, id) /\ ~Frees(n, id)
  <2>1. m + 1 .. n = (m + 1 .. n - 1) \cup {n}
    BY <1>0
  <2> HIDE DEF Frees
  <2> QED
    BY <2>1
<1>3. \A id : LiveSince(n, n, id) <=> s[n].index = id /\ s[n].type = "ALLOC"
  BY <1>0
<1>4. 1 .. n = (1 .. n - 1) \cup {n}
  BY <1>0
<1> HIDE DEF LiveSince
<1>5. ASSUME NEW id
      PROVE  id \in LiveIn(s, n) <=>
               \/ id \in LiveIn(s, n - 1) /\ ~Frees(n, id)
               \/ id \in Ids /\ s[n].index = id /\ s[n].type = "ALLOC"
  <2>1. (\E m \in 1 .. n : LiveSince(m, n, id)) <=>
          (\E m \in 1 .. n - 1 : LiveSince(m, n, id)) \/ LiveSince(n, n, id)
    BY <1>4
  <2>2. (\E m \in 1 .. n - 1 : LiveSince(m, n, id)) <=>
          (\E m \in 1 .. n - 1 : LiveSince(m, n - 1, id)) /\ ~Frees(n, id)
    BY <1>2
  <2> HIDE DEF Frees
  <2> QED
    BY <1>1, <1>3, <2>1, <2>2
<1> QED
  BY <1>0, <1>5

(* The live ids depend on the requests done only.                          *)
LEMMA LiveSame ==
    ASSUME NEW s, NEW t, NEW n \in Nat, \A k \in 1 .. n : s[k] = t[k]
    PROVE  LiveIn(s, n) = LiveIn(t, n)
<1>1. \A m \in 1 .. n : \A k \in m + 1 .. n : s[m] = t[m] /\ s[k] = t[k]
  OBVIOUS
<1> QED
  BY <1>1 DEF LiveIn

(* There are finitely many at any time.                                    *)
LEMMA LiveFinite ==
    ASSUME NEW s \in Seq(Op), NEW n \in 0 .. Len(s)
    PROVE  IsFiniteSet(LiveIn(s, n))
<1> DEFINE Claim == {k \in Nat : k <= Len(s) => IsFiniteSet(LiveIn(s, k))}
<1>1. 0 \in Claim
  BY LiveAtStart, FS_EmptySet
<1>2. ASSUME NEW k \in Nat, k \in Claim PROVE k + 1 \in Claim
  <2>1. SUFFICES ASSUME k + 1 <= Len(s) PROVE IsFiniteSet(LiveIn(s, k + 1))
    OBVIOUS
  <2>2. k + 1 \in 1 .. Len(s) /\ (k + 1) - 1 = k /\ k <= Len(s)
    BY <2>1, LenProperties
  <2>3. IsFiniteSet(LiveIn(s, k))
    BY <1>2, <2>2
  <2> DEFINE id == s[k + 1].index
             L  == LiveIn(s, k)
  <2>4. IsFiniteSet(L \cup {id}) /\ IsFiniteSet(L \ {id})
    BY <2>3, FS_AddElement, FS_RemoveElement
  <2>5. LiveIn(s, k + 1) \in {L \cup {id}, L, L \ {id}}
    BY <2>2, LiveStep, OpType
  <2> QED
    BY <2>3, <2>4, <2>5
<1> HIDE DEF Claim
<1>3. \A k \in Nat : k \in Claim
  BY <1>1, <1>2, NatSetInduction
<1> QED
  BY <1>3, LenProperties DEF Claim

(* How one request changes the size asked for an id.                       *)
LEMMA SizeStep ==
    ASSUME NEW s \in Seq(Op), NEW n \in 1 .. Len(s), NEW id
    PROVE  SizeIn(s, n, id) = IF s[n].index = id /\ s[n].type # "FREE" THEN s[n].size
                              ELSE SizeIn(s, n - 1, id)
<1> DEFINE Named(k) == {j \in 1 .. k : s[j].index = id /\ s[j].type # "FREE"}
<1>0. n \in Nat /\ n - 1 \in Nat /\ 1 .. n = (1 .. n - 1) \cup {n}
  BY LenProperties
<1>1. CASE s[n].index = id /\ s[n].type # "FREE"
  <2>1. n \in Named(n) /\ Named(n) \in SUBSET Nat /\ \A k \in Named(n) : k <= n
    BY <1>0, <1>1
  <2>2. Max(Named(n)) \in Named(n) /\ n <= Max(Named(n))
    BY <1>0, <2>1, MaxOfNats
  <2>3. Max(Named(n)) = n
    BY <1>0, <2>1, <2>2
  <2> QED
    BY <1>1, <2>3 DEF SizeIn
<1>2. CASE ~(s[n].index = id /\ s[n].type # "FREE")
  <2>1. Named(n) = Named(n - 1)
    BY <1>0, <1>2
  <2> QED
    BY <1>2, <2>1 DEF SizeIn
<1> QED
  BY <1>1, <1>2

(* A live id has a size.                                                   *)
LEMMA SizeType ==
    ASSUME NEW s \in Seq(Op), NEW n \in 0 .. Len(s), NEW id \in LiveIn(s, n)
    PROVE  SizeIn(s, n, id) \in Sizes /\ id \in Ids
<1> DEFINE S == {j \in 1 .. n : s[j].index = id /\ s[j].type # "FREE"}
<1>0. n \in Nat /\ n <= Len(s) /\ Len(s) \in Nat
  BY LenProperties
<1>1. S # {} /\ S \in SUBSET Nat /\ \A k \in S : k <= n
  BY <1>0 DEF LiveIn
<1>2. Max(S) \in S
  BY <1>0, <1>1, MaxOfNats
<1>3. Max(S) \in 1 .. Len(s) /\ s[Max(S)].type # "FREE"
  BY <1>0, <1>2
<1>4. s[Max(S)].size \in Sizes
  BY <1>3, OpType
<1> QED
  BY <1>4 DEF SizeIn, LiveIn
-----------------------------------------------------------------------------
(* What the requests take.                                                 *)
LEMMA TakersType ==
    ASSUME NEW s \in Seq(Op)
    PROVE  /\ IsFiniteSet(Takers(s)) /\ Takers(s) \subseteq 1 .. Len(s) /\ Len(s) \in Nat
           /\ \A n : IsFiniteSet({k \in Takers(s) : k <= n})
           /\ \A k \in Takers(s) : Needs(s)[k] \in Nat /\ Needs(s)[k] = Need(s[k].size)
<1>1. Takers(s) \subseteq 1 .. Len(s) /\ Len(s) \in Nat
  BY LenProperties DEF Takers
<1>2. IsFiniteSet(1 .. Len(s))
  BY <1>1, FS_Interval
<1>3. IsFiniteSet(Takers(s))
  BY <1>1, <1>2, FS_Subset
<1>4. \A n : IsFiniteSet({k \in Takers(s) : k <= n})
  BY <1>3, FS_Subset
<1>5. ASSUME NEW k \in Takers(s) PROVE Needs(s)[k] \in Nat /\ Needs(s)[k] = Need(s[k].size)
  <2>1. k \in 1 .. Len(s) /\ s[k].type # "FREE"
    BY <1>1, <1>5 DEF Takers
  <2>2. s[k].size \in Sizes
    BY <2>1, OpType
  <2>3. Need(s[k].size) \in Nat
    BY <2>2, NeedFacts
  <2> QED
    BY <2>3 DEF Needs
<1> QED
  BY <1>1, <1>3, <1>4, <1>5

(* What the requests took from the heap is a number.                       *)
LEMMA TakenType ==
    ASSUME NEW s \in Seq(Op), NEW n
    PROVE  Taken(s, n) \in Nat
<1> DEFINE D == {k \in Takers(s) : k <= n}
<1>1. IsFiniteSet(D) /\ D \subseteq Takers(s)
  BY TakersType
<1>2. \A k \in Takers(s) : Needs(s)[k] \in Nat /\ Needs(s)[k] \in Int
  BY TakersType
<1> HIDE DEF D
<1>3. SumFunctionOnSet(Needs(s), D) \in Nat
  BY <1>1, <1>2, SumType
<1> QED
  BY <1>3 DEF Taken, D

(* It is nothing at first.                                                 *)
LEMMA TakenAtStart ==
    ASSUME NEW s \in Seq(Op) PROVE Taken(s, 0) = 0
<1>1. {k \in Takers(s) : k <= 0} = {}
  BY TakersType
<1>2. SumFunctionOnSet(Needs(s), {}) = 0
  BY SumOfZeros, FS_EmptySet
<1> QED
  BY <1>1, <1>2 DEF Taken

(* Every request but a free adds what it needs.                            *)
LEMMA TakenStep ==
    ASSUME NEW s \in Seq(Op), NEW n \in 1 .. Len(s)
    PROVE  Taken(s, n) = IF s[n].type = "FREE" THEN Taken(s, n - 1)
                         ELSE Taken(s, n - 1) + Need(s[n].size)
<1> DEFINE D(k) == {j \in Takers(s) : j <= k}
<1>0. n \in Nat /\ Takers(s) \subseteq 1 .. Len(s) /\ Len(s) \in Nat
  BY TakersType
<1>1. n \in Takers(s) <=> s[n].type # "FREE"
  BY LenProperties DEF Takers
<1>2. CASE s[n].type = "FREE"
  <2>1. D(n) = D(n - 1)
    BY <1>0, <1>1, <1>2
  <2> QED
    BY <1>2, <2>1 DEF Taken
<1>3. CASE s[n].type # "FREE"
  <2>1. n \in D(n) /\ D(n) \ {n} = D(n - 1)
    BY <1>0, <1>1, <1>3
  <2>2. IsFiniteSet(D(n)) /\ \A k \in D(n) : Needs(s)[k] \in Int
    <3>1. IsFiniteSet(D(n)) /\ D(n) \subseteq Takers(s)
      BY TakersType
    <3>2. \A k \in Takers(s) : Needs(s)[k] \in Int
      BY TakersType
    <3> QED
      BY <3>1, <3>2
  <2>3. SumFunctionOnSet(Needs(s), D(n)) =
          Needs(s)[n] + SumFunctionOnSet(Needs(s), D(n) \ {n})
    BY <2>1, <2>2, SumTakeOne
  <2>4. Needs(s)[n] = Need(s[n].size) /\ Needs(s)[n] \in Nat
    BY <2>1, TakersType
  <2>5. Taken(s, n) = Needs(s)[n] + Taken(s, n - 1)
    BY <2>1, <2>3 DEF Taken
  <2>6. Taken(s, n - 1) \in Nat
    BY TakenType
  <2> QED
    BY <1>3, <2>4, <2>5, <2>6
<1> QED
  BY <1>2, <1>3

(* So it only grows.                                                       *)
LEMMA TakenGrows ==
    ASSUME NEW s \in Seq(Op), NEW n \in 0 .. Len(s)
    PROVE  Taken(s, n) <= Taken(s, Len(s))
<1>0. Len(s) \in Nat /\ n \in Nat
  BY LenProperties
<1> DEFINE Claim == {k \in Nat : n + k <= Len(s) => Taken(s, n) <= Taken(s, n + k)}
<1>1. 0 \in Claim
  BY <1>0, TakenType
<1>2. ASSUME NEW k \in Nat, k \in Claim PROVE k + 1 \in Claim
  <2>1. SUFFICES ASSUME n + (k + 1) <= Len(s) PROVE Taken(s, n) <= Taken(s, n + (k + 1))
    OBVIOUS
  <2> DEFINE m == n + (k + 1)
  <2>2. m \in 1 .. Len(s) /\ m - 1 = n + k /\ n + k <= Len(s)
    BY <1>0, <2>1
  <2>3. Taken(s, n) <= Taken(s, m - 1)
    BY <1>2, <2>2
  <2>4. Taken(s, m) \in Nat /\ Taken(s, m - 1) \in Nat /\ Taken(s, n) \in Nat
    BY TakenType
  <2>5. s[m].type # "FREE" => Need(s[m].size) \in Nat
    BY <2>2, OpType, NeedFacts
  <2>6. Taken(s, m - 1) <= Taken(s, m)
    BY <2>2, <2>4, <2>5, TakenStep
  <2> HIDE DEF m
  <2>7. Taken(s, n) <= Taken(s, m)
    BY <2>3, <2>4, <2>6
  <2> QED
    BY <2>7 DEF m
<1> HIDE DEF Claim
<1>3. \A k \in Nat : k \in Claim
  BY <1>1, <1>2, NatSetInduction
<1>4. Len(s) - n \in Nat /\ n + (Len(s) - n) = Len(s)
  BY <1>0
<1>5. Len(s) - n \in Claim
  BY <1>3, <1>4
<1> QED
  BY <1>0, <1>4, <1>5 DEF Claim

(* At the end of the trace it is the demand of the trace.                  *)
LEMMA DemandIsTaken ==
    ASSUME NEW s \in Seq(Op)
    PROVE  Demand(s) = Taken(s, Len(s))
<1>1. {k \in Takers(s) : k <= Len(s)} = Takers(s)
  BY TakersType
<1>2. DOMAIN Needs(s) = Takers(s)
  BY DEF Needs
<1>3. Demand(s) = SumFunction(Needs(s))
  BY DEF Demand, Needs, Takers, Need
<1> QED
  BY <1>1, <1>2, <1>3 DEF SumFunction, Taken
-----------------------------------------------------------------------------
(* The kinds of step, as an allocator sees them.                           *)
GoesOn == Replaying /\ Replaying' /\ Running /\ Running' /\ ops' = ops

(* A block is cut for the next request, which may move one that is there.  *)
Take ==
    /\ GoesOn /\ Done' = Done + 1 /\ Done' \in 1 .. Len(ops)
    /\ LET op  == ops[Done']
           new == [heap |-> heap', ret |-> heap.brk + SIZE_T_SIZE]
       IN  /\ op.type # "FREE" /\ Room(heap, op.size) /\ Grown(heap, new, op.size)
           /\ Lo' = [id \in Held' |-> IF id = op.index THEN new.ret ELSE Lo[id]]
           /\ op.type = "REALLOC" =>
                Carried(heap, new, Lo[op.index], Sz[op.index], op.size)

(* The next request frees a block.                                         *)
Drop ==
    /\ GoesOn /\ Done' = Done + 1 /\ Done' \in 1 .. Len(ops)
    /\ ops[Done'].type = "FREE" /\ heap' = heap
    /\ Lo' = [id \in Held' |-> Lo[id]]

(* The client fills a block with the low byte of its id.                   *)
Fill ==
    /\ GoesOn /\ Done' = Done /\ Lo' = Lo
    /\ \E id \in Held : heap' = memset(heap, Lo[id], Sz[id], LowByte(id))

(* A replay starts, on an empty heap.                                      *)
Enter ==
    /\ Replaying' /\ ops' = ops /\ Done' = 0
    /\ heap' = [heap EXCEPT !.brk = mem_start_brk]

(* Nothing happens to the replay, but it may be given up.                  *)
Idle ==
    /\ Replaying /\ Replaying' /\ ops' = ops /\ Done' = Done /\ Lo' = Lo /\ heap' = heap
    /\ status' = status \/ ~Running'

Leave == ~Replaying'
-----------------------------------------------------------------------------
(* A request is about to be replayed on mm.                                *)
Calls(ph) == Running /\ pkg = "mm" /\ phase = ph /\ i \in 1 .. Len(ops)

(* What the driver knows when it is about to make a request: ids, sizes    *)
(* and payloads agree with the heap.                                       *)
LEMMA AtRequest ==
    ASSUME IInv, NEW ph \in {"valid", "util", "speed"}, Calls(ph)
    PROVE  /\ Replaying /\ ~Pending /\ Done = i - 1 /\ i \in 1 .. Len(ops)
           /\ Len(ops) \in Nat /\ Done \in 0 .. Len(ops)
           /\ req \in Op /\ req.index \in Ids /\ req.type \in {"ALLOC", "REALLOC", "FREE"}
           /\ req.type # "FREE" => req.size \in Sizes
           /\ req.type = "ALLOC" <=> req.index \notin Held
           /\ \A id \in Held : Lo[id] = blocks[id] /\ Placed(heap, Lo[id], Sz[id])
           /\ heap.brk % ALIGNMENT = 0
<1>1. Types /\ TraceInv /\ LayoutInv
  BY DEF IInv
<1>2. ops \in Seq(Op) /\ Len(ops) \in Nat /\ i \in 1 .. Len(ops)
  BY <1>1, LenProperties DEF Types, ControlTypes, StoreTypes, ScoreTypes, Calls
<1>3. Replaying /\ ~Pending /\ Done = i - 1
  BY <1>2 DEF Calls, Replaying, Pending, Done
<1>4. /\ req \in Op /\ req.index \in Ids /\ req.type \in {"ALLOC", "REALLOC", "FREE"}
      /\ req.type # "FREE" => req.size \in Sizes
  BY <1>2, OpType DEF req
<1>5. req.type = "ALLOC" <=> req.index \notin Held
  BY <1>1, <1>2, <1>3 DEF TraceInv, WellFormed, Held, req
<1>6. \A id \in Held : Lo[id] = blocks[id]
  BY <1>3 DEF Lo
<1> QED
  BY <1>1, <1>2, <1>3, <1>4, <1>5, <1>6 DEF LayoutInv

(* What mm_malloc or mm_realloc then answers.                              *)
LEMMA AnswerIs ==
    ASSUME IInv, NEW ph \in {"valid", "util", "speed"}, Calls(ph), req.type # "FREE"
    PROVE  /\ ~Room(heap, req.size) => Answer = NoRoom(heap)
           /\ Room(heap, req.size) =>
                /\ Grown(heap, Answer, req.size) /\ Answer.ret # NULL
                /\ req.type = "REALLOC" =>
                     Carried(heap, Answer, Lo[req.index], Sz[req.index], req.size)
           /\ Answer.ret = NULL <=> ~Room(heap, req.size)
<1>1. heap \in Heaps /\ req.size \in Sizes /\ NoRequestWraps
  BY AtRequest DEF IInv, Types, ControlTypes, StoreTypes, ScoreTypes
<1>2. heap.brk + SIZE_T_SIZE # NULL
  BY <1>1, ConstantFacts, HeaderFacts DEF Heaps, NULL
<1>3. CASE req.type = "ALLOC"
  <2>1. Answer = mm_malloc(heap, req.size)
    BY <1>3 DEF Answer
  <2>2. CASE Room(heap, req.size)
    <3>1. Grown(heap, Answer, req.size)
      BY <1>1, <2>1, <2>2, MallocGrows
    <3> QED
      BY <1>2, <1>3, <2>2, <3>1 DEF Grown
  <2>3. CASE ~Room(heap, req.size)
    BY <1>1, <2>1, <2>3, MallocResult DEF NoRoom
  <2> QED
    BY <2>2, <2>3
<1>4. CASE req.type = "REALLOC"
  <2>1. Answer = mm_realloc(heap, blocks[req.index], req.size)
    BY <1>4 DEF Answer
  <2>2. Placed(heap, Lo[req.index], Sz[req.index]) /\ Lo[req.index] = blocks[req.index]
    BY <1>4, AtRequest
  <2>3. CASE Room(heap, req.size)
    <3>1. Grown(heap, Answer, req.size)
          /\ Carried(heap, Answer, Lo[req.index], Sz[req.index], req.size)
      BY <1>1, <2>1, <2>2, <2>3, ReallocResult
    <3> QED
      BY <1>2, <2>3, <3>1 DEF Grown
  <2>4. CASE ~Room(heap, req.size)
    BY <1>1, <2>1, <2>2, <2>4, ReallocResult DEF NoRoom
  <2> QED
    BY <2>3, <2>4
<1> QED
  BY <1>3, <1>4, AtRequest

(* A call that succeeds takes a block.                                     *)
LEMMA CallTakes ==
    ASSUME IInv, NEW ph \in {"valid", "util", "speed"}, Calls(ph), req.type # "FREE",
           Running', pkg' = pkg, ops' = ops, heap' = Answer.heap, Answer.ret # NULL,
           \/ phase' = "fill" /\ i' = i /\ p' = Answer.ret /\ UNCHANGED blocks
           \/ phase' = ph /\ i' = i + 1 /\ blocks' = [blocks EXCEPT ![req.index] = Answer.ret]
    PROVE  Take
<1>0. /\ Replaying /\ ~Pending /\ Done = i - 1 /\ i \in 1 .. Len(ops) /\ Len(ops) \in Nat
      /\ req.index \in Ids
      /\ \A id \in Held : Lo[id] = blocks[id]
  BY AtRequest
<1>1. Done' = Done + 1 /\ Done' = i /\ Done' \in 1 .. Len(ops) /\ Replaying'
  BY <1>0 DEF Calls, Done, Pending, Replaying
<1>2. GoesOn
  BY <1>0, <1>1 DEF GoesOn, Calls
<1>3. ops[Done'] = req
  BY <1>1 DEF req
<1>4. Grown(heap, Answer, req.size) /\ Room(heap, req.size)
      /\ (req.type = "REALLOC" =>
            Carried(heap, Answer, Lo[req.index], Sz[req.index], req.size))
  BY AnswerIs
<1> DEFINE new == [heap |-> heap', ret |-> heap.brk + SIZE_T_SIZE]
<1>5. Answer.ret = new.ret /\ Answer.heap = new.heap
  BY <1>4 DEF Grown
<1>6. Grown(heap, new, req.size)
      /\ (req.type = "REALLOC" => Carried(heap, new, Lo[req.index], Sz[req.index], req.size))
  <2> HIDE DEF new
  <2> QED
    BY <1>4, <1>5 DEF Grown, Carried
<1>7. Held' \subseteq Held \cup {req.index}
  <2>1. Held' = LiveIn(ops, i) /\ Held = LiveIn(ops, i - 1)
    BY <1>0, <1>1 DEF Held
  <2>2. req.type \in {"ALLOC", "REALLOC"}
    BY AtRequest
  <2>3. ops \in Seq(Op)
    BY DEF IInv, Types, ControlTypes, StoreTypes, ScoreTypes
  <2> QED
    BY <1>0, <2>1, <2>2, <2>3, LiveStep DEF req
<1>8. Lo' = [id \in Held' |-> IF id = req.index THEN new.ret ELSE Lo[id]]
  <2>1. CASE phase' = "fill" /\ i' = i /\ p' = Answer.ret /\ UNCHANGED blocks
    <3>1. Pending' /\ req' = req
      BY <2>1 DEF Pending, req
    <3> QED
      BY <1>0, <1>5, <1>7, <2>1, <3>1 DEF Lo
  <2>2. CASE phase' = ph /\ i' = i + 1 /\ blocks' = [blocks EXCEPT ![req.index] = Answer.ret]
    <3>1. ~Pending'
      BY <2>2 DEF Pending
    <3>2. blocks \in [Ids -> Nat] /\ Held' \subseteq Ids
      BY DEF IInv, Types, ControlTypes, StoreTypes, ScoreTypes, Held, LiveIn
    <3> QED
      BY <1>0, <1>5, <1>7, <2>2, <3>1, <3>2 DEF Lo
  <2> QED
    BY <2>1, <2>2
<1> QED
  BY <1>1, <1>2, <1>3, <1>4, <1>6, <1>8 DEF Take

(* A free takes its id from the live ones and leaves the heap alone.       *)
LEMMA FreeDrops ==
    ASSUME IInv, NEW ph \in {"valid", "util", "speed"}, Calls(ph), req.type = "FREE",
           Running', UNCHANGED <<pkg, ops, heap, phase, blocks>>, i' = i + 1
    PROVE  Drop
<1>0. /\ Replaying /\ ~Pending /\ Done = i - 1 /\ i \in 1 .. Len(ops) /\ Len(ops) \in Nat
      /\ \A id \in Held : Lo[id] = blocks[id]
  BY AtRequest
<1>1. Done' = Done + 1 /\ Done' = i /\ Done' \in 1 .. Len(ops) /\ Replaying' /\ ~Pending'
  BY <1>0 DEF Calls, Done, Pending, Replaying
<1>2. GoesOn /\ ops[Done'] = req
  BY <1>0, <1>1 DEF GoesOn, Calls, req
<1>3. Held' \subseteq Held
  <2>1. Held' = LiveIn(ops, i) /\ Held = LiveIn(ops, i - 1)
    BY <1>0, <1>1 DEF Held
  <2>2. ops \in Seq(Op)
    BY DEF IInv, Types, ControlTypes, StoreTypes, ScoreTypes
  <2> QED
    BY <1>0, <2>1, <2>2, LiveStep DEF req
<1>4. Lo' = [id \in Held' |-> Lo[id]]
  BY <1>0, <1>1, <1>3 DEF Lo
<1> QED
  BY <1>1, <1>2, <1>4 DEF Drop
-----------------------------------------------------------------------------
(* Going to the next trace ends the replay.                                *)
LEMMA NextFileLeaves == ASSUME NextFile PROVE Leave /\ i' = 0
  BY DEF NextFile, Leave, Replaying

(* eval_mm_valid's request is granted, or ends the replay with a verdict.  *)
LEMMA ValidCallKind ==
    ASSUME IInv, ValidCall
    PROVE  /\ Calls("valid") /\ req.type # "FREE"
           /\ \/ Take /\ phase' = "fill"
              \/ Leave /\ Reject
<1>1. Calls("valid") /\ req.type # "FREE"
  BY DEF ValidCall, At, Calls
<1>2. CASE Reject
  BY <1>1, <1>2, NextFileLeaves DEF Reject
<1>3. CASE /\ Answer.ret # NULL /\ p' = Answer.ret /\ phase' = "fill"
           /\ UNCHANGED <<traceVars, i, runs, verdicts>>
  <2>1. heap' = Answer.heap /\ UNCHANGED <<blocks, status>>
    BY DEF ValidCall, blockVars
  <2>2. Running' /\ pkg' = pkg /\ ops' = ops /\ i' = i
    BY <1>1, <1>3, <2>1 DEF Calls, Running, traceVars
  <2> QED
    BY <1>1, <1>3, <2>1, <2>2, CallTakes
<1> QED
  BY <1>2, <1>3 DEF ValidCall

(* eval_mm_util's request is granted, or the driver exits.                 *)
LEMMA UtilCallKind ==
    ASSUME IInv, UtilCall
    PROVE  /\ Calls("util") /\ req.type # "FREE"
           /\ Take \/ (Answer.ret = NULL /\ Die("app_error"))
<1>1. Calls("util") /\ req.type # "FREE"
  BY DEF UtilCall, At, Calls
<1>2. CASE Answer.ret = NULL /\ Die("app_error")
  BY <1>1, <1>2
<1>3. CASE ~(Answer.ret = NULL /\ Die("app_error"))
  <2>1. /\ Answer.ret # NULL /\ heap' = Answer.heap /\ i' = i + 1
        /\ blocks' = [blocks EXCEPT ![req.index] = Answer.ret]
        /\ UNCHANGED <<traceVars, phase, status>>
    BY <1>3 DEF UtilCall, NextOp
  <2>2. Running' /\ pkg' = pkg /\ ops' = ops /\ phase' = "util"
    BY <1>1, <2>1 DEF Calls, Running, traceVars
  <2> QED
    BY <1>1, <2>1, <2>2, CallTakes
<1> QED
  BY <1>2, <1>3

(* eval_mm_speed's request is granted, or the driver exits.                *)
LEMMA SpeedCallKind ==
    ASSUME IInv, SpeedCall
    PROVE  /\ Calls("speed") /\ req.type # "FREE"
           /\ Take \/ (Answer.ret = NULL /\ Die("app_error"))
<1>1. Calls("speed") /\ req.type # "FREE"
  BY DEF SpeedCall, At, Calls
<1>2. CASE Answer.ret = NULL /\ Die("app_error")
  BY <1>1, <1>2
<1>3. CASE ~(Answer.ret = NULL /\ Die("app_error"))
  <2>1. /\ Answer.ret # NULL /\ heap' = Answer.heap /\ i' = i + 1
        /\ blocks' = [blocks EXCEPT ![req.index] = Answer.ret]
        /\ UNCHANGED <<traceVars, phase, status>>
    BY <1>3 DEF SpeedCall, NextOp
  <2>2. Running' /\ pkg' = pkg /\ ops' = ops /\ phase' = "speed"
    BY <1>1, <2>1 DEF Calls, Running, traceVars
  <2> QED
    BY <1>1, <2>1, <2>2, CallTakes
<1> QED
  BY <1>2, <1>3

(* What the driver has in hand while a block is being filled.              *)
LEMMA AtFill ==
    ASSUME IInv, phase = "fill"
    PROVE  /\ Replaying /\ Pending /\ Done = i /\ i \in 1 .. Len(ops) /\ Len(ops) \in Nat
           /\ req.index \in Ids /\ req.size \in Sizes /\ req.type \in {"ALLOC", "REALLOC"}
           /\ req.index \in Held /\ Lo[req.index] = p /\ Sz[req.index] = req.size
           /\ \A id \in Held \ {req.index} : Lo[id] = blocks[id]
<1>1. Types /\ TraceInv
  BY DEF IInv
<1>2. ops \in Seq(Op) /\ Len(ops) \in Nat /\ i \in 1 .. Len(ops) /\ pkg = "mm"
      /\ req.type # "FREE"
  BY <1>1, LenProperties DEF Types, ControlTypes, StoreTypes, ScoreTypes, TraceInv
<1>3. Replaying /\ Pending /\ Done = i
  BY <1>2 DEF Replaying, Pending, Done
<1>4. req.index \in Ids /\ req.size \in Sizes /\ req.type \in {"ALLOC", "REALLOC"}
  BY <1>2, OpType DEF req
<1>5. req.index \in Held
  <2>1. CASE req.type = "ALLOC"
    BY <1>2, <1>3, <2>1, LiveStep DEF Held, req
  <2>2. CASE req.type = "REALLOC"
    <3>1. req.index \in LiveIn(ops, i - 1)
      BY <1>1, <1>2, <2>2 DEF TraceInv, WellFormed, req
    <3> QED
      BY <1>2, <1>3, <2>2, <3>1, LiveStep DEF Held, req
  <2> QED
    BY <1>4, <2>1, <2>2
<1>6. Sz[req.index] = req.size
  BY <1>2, <1>3, <1>5, SizeStep DEF Sz, req
<1> QED
  BY <1>2, <1>3, <1>4, <1>5, <1>6 DEF Lo

(* eval_mm_valid fills what it got, or finds that realloc lost data.       *)
LEMMA ValidFillKind ==
    ASSUME IInv, ValidFill
    PROVE  \/ Fill /\ phase' = "valid" /\ UNCHANGED <<ops, Done, Held, Lo, Sz>>
           \/ Leave /\ Reject /\ req.type = "REALLOC" /\ ~Preserved
<1>1. /\ Running /\ phase = "fill" /\ Replaying /\ Pending /\ Done = i
      /\ i \in 1 .. Len(ops) /\ Len(ops) \in Nat
      /\ req.index \in Ids /\ req.index \in Held /\ Lo[req.index] = p /\ Sz[req.index] = req.size
      /\ \A id \in Held \ {req.index} : Lo[id] = blocks[id]
  BY AtFill DEF ValidFill
<1>2. CASE req.type = "REALLOC" /\ ~Preserved /\ Reject
  BY <1>2, NextFileLeaves DEF Reject
<1>3. CASE ~(req.type = "REALLOC" /\ ~Preserved /\ Reject)
  <2>1. /\ heap' = memset(heap, p, req.size, LowByte(req.index))
        /\ blocks' = [blocks EXCEPT ![req.index] = p]
        /\ phase' = "valid" /\ i' = i + 1
        /\ UNCHANGED <<traceVars, status>>
    BY <1>3 DEF ValidFill, NextOp
  <2>2. ops' = ops /\ Done' = Done /\ ~Pending' /\ pkg' = pkg /\ Running' /\ Replaying'
    BY <1>1, <2>1 DEF traceVars, Done, Pending, Running, Replaying
  <2>3. Held' = Held /\ Sz' = Sz
    BY <2>2 DEF Held, Sz
  <2>4. Lo' = Lo
    <3>1. blocks \in [Ids -> Nat] /\ Held \subseteq Ids
      BY DEF IInv, Types, ControlTypes, StoreTypes, ScoreTypes, Held, LiveIn
    <3>2. Lo = [id \in Held |-> Lo[id]]
      BY DEF Lo
    <3>3. Lo' = [id \in Held |-> blocks'[id]]
      BY <2>2, <2>3 DEF Lo
    <3> QED
      BY <1>1, <2>1, <3>1, <3>2, <3>3
  <2>5. Fill
    BY <1>1, <2>1, <2>2, <2>4 DEF Fill, GoesOn
  <2> QED
    BY <2>1, <2>2, <2>3, <2>4, <2>5
<1> QED
  BY <1>2, <1>3

(* All three evaluations free alike.                                       *)
LEMMA FreeKind ==
    ASSUME IInv, ValidFree \/ UtilFree \/ SpeedFree
    PROVE  Drop /\ req.type = "FREE" /\ Calls(phase)
<1>1. ASSUME NEW ph \in {"valid", "util", "speed"}, At("mm", ph, "FREE"), NextOp,
             heap' = heap, UNCHANGED <<traceVars, phase, blockVars, status>>
      PROVE  Drop /\ req.type = "FREE" /\ Calls(phase)
  <2>1. Calls(ph) /\ req.type = "FREE" /\ phase = ph
    BY <1>1 DEF At, Calls
  <2>2. Running' /\ UNCHANGED <<pkg, ops, heap, phase, blocks>> /\ i' = i + 1
    BY <1>1, <2>1 DEF Calls, Running, traceVars, blockVars, NextOp
  <2> QED
    BY <2>1, <2>2, FreeDrops
<1>2. CASE ValidFree
  BY <1>1, <1>2 DEF ValidFree, mm_free
<1>3. CASE UtilFree
  BY <1>1, <1>3 DEF UtilFree, mm_free
<1>4. CASE SpeedFree
  BY <1>1, <1>4 DEF SpeedFree, mm_free
<1> QED
  BY <1>2, <1>3, <1>4

(* All three start on an empty heap.                                       *)
LEMMA StartKind ==
    ASSUME IInv, StartValid \/ StartUtil \/ StartSpeed
    PROVE  Enter /\ Running' /\ ~Pending' /\ phase' = phase
<1>1. /\ Running /\ pkg = "mm" /\ phase \in {"valid", "util", "speed"} /\ i = 0 /\ i' = 1
      /\ heap' = mm_init(Reset(heap)) /\ UNCHANGED <<traceVars, phase, status>>
  BY DEF StartValid, StartUtil, StartSpeed, Entered, NextOp
<1> QED
  BY <1>1 DEF Enter, Replaying, Running, Pending, Done, traceVars, mm_init, Reset, mem_reset_brk

(* Every step of the driver is one of six kinds, as far as the heap and    *)
(* the live payloads are concerned.                                        *)
LEMMA StepKinds ==
    ASSUME IInv, [Next]_vars
    PROVE  Take \/ Drop \/ Fill \/ Enter \/ Idle \/ Leave
<1>1. CASE UNCHANGED vars
  <2>1. UNCHANGED <<pkg, phase, i, ops, blocks, p, heap, status>>
    BY <1>1 DEF vars, traceVars, blockVars
  <2>2. Replaying' = Replaying /\ Done' = Done /\ Held' = Held /\ Lo' = Lo
    BY <2>1 DEF Replaying, Done, Pending, Held, Lo, req
  <2> QED
    BY <2>1, <2>2 DEF Idle, Leave
<1>2. CASE \E op \in Op : ReadLine(op)
  BY <1>2 DEF ReadLine, Leave, Replaying
<1>3. CASE \E num_ids \in {0, MaxIndex(ops) + 1}, num_ops \in {Len(ops), Len(ops) + 1} :
             EndOfFile(num_ids, num_ops)
  BY <1>3 DEF EndOfFile, Leave, Replaying
<1>4. CASE StartValid \/ StartUtil \/ StartSpeed
  BY <1>4, StartKind
<1>5. CASE ValidCall
  BY <1>5, ValidCallKind
<1>6. CASE ValidFill
  BY <1>6, ValidFillKind
<1>7. CASE ValidFree \/ UtilFree \/ SpeedFree
  BY <1>7, FreeKind
<1>8. CASE ValidReturns \/ UtilReturns
  BY <1>8 DEF ValidReturns, UtilReturns, Leave, Replaying
<1>9. CASE UtilCall \/ SpeedCall
  <2>1. CASE Die("app_error")
    <3>1. UNCHANGED <<pkg, phase, i, ops, blocks, p, heap>> /\ ~Running'
      BY <2>1 DEF Die, traceVars, blockVars, Running
    <3>2. Replaying' = Replaying /\ Done' = Done /\ Held' = Held /\ Lo' = Lo
      BY <3>1 DEF Replaying, Done, Pending, Held, Lo, req
    <3> QED
      BY <3>1, <3>2 DEF Idle, Leave
  <2> QED
    BY <1>9, <2>1, UtilCallKind, SpeedCallKind
<1>10. CASE SpeedReturns
  BY <1>10, NextFileLeaves DEF SpeedReturns, Leave, Replaying
<1>11. CASE StartLibc \/ LibcCall \/ LibcFails \/ LibcFree \/ LibcReturns
  BY <1>11 DEF StartLibc, LibcCall, LibcFails, LibcFree, LibcReturns, Entered, Finished, At,
               Leave, Replaying, traceVars
<1>12. CASE Report
  BY <1>12 DEF Report, Leave, Replaying
<1>13. CASE Ended
  BY <1>1, <1>13 DEF Ended
<1> QED
  BY <1>1, <1>2, <1>3, <1>4, <1>5, <1>6, <1>7, <1>8, <1>9, <1>10, <1>11, <1>12, <1>13 DEF Next
-----------------------------------------------------------------------------
(* What each kind of step does to the payloads held.                       *)
LEMMA TakeEffect ==
    ASSUME IInv, Take
    PROVE  LET op == ops[Done']
           IN  /\ Done' \in 1 .. Len(ops) /\ Done = Done' - 1 /\ op.index \in Ids
               /\ op.size \in Sizes /\ op.type \in {"ALLOC", "REALLOC"}
               /\ op.type = "ALLOC" <=> op.index \notin Held
               /\ Held' = Held \cup {op.index}
               /\ \A id \in Held' :
                    /\ Lo'[id] = IF id = op.index THEN heap.brk + SIZE_T_SIZE ELSE Lo[id]
                    /\ Sz'[id] = IF id = op.index THEN op.size ELSE Sz[id]
<1> DEFINE n  == Done'
           op == ops[n]
<1>1. ops \in Seq(Op) /\ WellFormed(ops) /\ Len(ops) \in Nat /\ ops' = ops
  BY LenProperties DEF IInv, Types, ControlTypes, StoreTypes, ScoreTypes, TraceInv, Take, GoesOn
<1>2. n \in 1 .. Len(ops) /\ n = Done + 1 /\ op.type # "FREE"
  BY DEF Take
<1>3. Done = n - 1
  <2>1. n \in Nat
    BY <1>1, <1>2
  <2>2. Done \in Int
    <3>1. i \in 0 .. Len(ops) + 1
      BY DEF IInv, Types, ControlTypes, StoreTypes, ScoreTypes
    <3>2. i \in Int
      BY <1>1, <3>1
    <3> QED
      BY <3>2 DEF Done
  <2> HIDE DEF n
  <2> QED
    BY <1>2, <2>1, <2>2
<1>4. op.index \in Ids /\ op.size \in Sizes /\ op.type \in {"ALLOC", "REALLOC"}
  BY <1>1, <1>2, OpType
<1>5. op.type = "ALLOC" <=> op.index \notin Held
  BY <1>1, <1>2, <1>3 DEF WellFormed, Held
<1>6. Held' = LiveIn(ops, n) /\ Held = LiveIn(ops, n - 1)
  BY <1>1, <1>3 DEF Held
<1>7. Held' = Held \cup {op.index}
  <2>1. CASE op.type = "ALLOC"
    BY <1>1, <1>2, <1>6, <2>1, LiveStep
  <2>2. CASE op.type = "REALLOC"
    BY <1>1, <1>2, <1>5, <1>6, <2>2, LiveStep
  <2> QED
    BY <1>4, <2>1, <2>2
<1>8. \A id \in Held' : Lo'[id] = IF id = op.index THEN heap.brk + SIZE_T_SIZE ELSE Lo[id]
  BY DEF Take
<1>9. ASSUME NEW id \in Held' PROVE Sz'[id] = IF id = op.index THEN op.size ELSE Sz[id]
  <2>1. Sz'[id] = SizeIn(ops, n, id)
    BY <1>1, <1>9 DEF Sz
  <2>2. id # op.index => Sz[id] = SizeIn(ops, n - 1, id)
    BY <1>3, <1>7, <1>9 DEF Sz
  <2>3. SizeIn(ops, n, id) = IF op.index = id /\ op.type # "FREE" THEN op.size
                             ELSE SizeIn(ops, n - 1, id)
    BY <1>1, <1>2, SizeStep
  <2> QED
    BY <1>2, <2>1, <2>2, <2>3
<1> QED
  BY <1>2, <1>3, <1>4, <1>5, <1>7, <1>8, <1>9

(* What a free leaves live.                                                *)
LEMMA DropEffect ==
    ASSUME IInv, Drop
    PROVE  LET op == ops[Done']
           IN  /\ Done' \in 1 .. Len(ops) /\ Done = Done' - 1 /\ op.index \in Held
               /\ Held' = Held \ {op.index}
               /\ \A id \in Held' : Lo'[id] = Lo[id] /\ Sz'[id] = Sz[id]
<1> DEFINE n  == Done'
           op == ops[n]
<1>1. ops \in Seq(Op) /\ WellFormed(ops) /\ Len(ops) \in Nat /\ ops' = ops
  BY LenProperties DEF IInv, Types, ControlTypes, StoreTypes, ScoreTypes, TraceInv, Drop, GoesOn
<1>2. n \in 1 .. Len(ops) /\ n = Done + 1 /\ op.type = "FREE"
  BY DEF Drop
<1>3. Done = n - 1
  <2>1. n \in Nat
    BY <1>1, <1>2
  <2>2. Done \in Int
    <3>1. i \in 0 .. Len(ops) + 1
      BY DEF IInv, Types, ControlTypes, StoreTypes, ScoreTypes
    <3>2. i \in Int
      BY <1>1, <3>1
    <3> QED
      BY <3>2 DEF Done
  <2> HIDE DEF n
  <2> QED
    BY <1>2, <2>1, <2>2
<1>4. Held' = LiveIn(ops, n) /\ Held = LiveIn(ops, n - 1)
  BY <1>1, <1>3 DEF Held
<1>5. Held' = Held \ {op.index} /\ op.index \in Held
  BY <1>1, <1>2, <1>4, LiveStep DEF WellFormed
<1>6. ASSUME NEW id \in Held' PROVE Lo'[id] = Lo[id] /\ Sz'[id] = Sz[id]
  <2>1. SizeIn(ops, n, id) = SizeIn(ops, n - 1, id)
    BY <1>1, <1>2, SizeStep
  <2>2. Sz'[id] = SizeIn(ops, n, id) /\ Sz[id] = SizeIn(ops, n - 1, id)
    BY <1>1, <1>3, <1>5, <1>6 DEF Sz
  <2> QED
    BY <1>6, <2>1, <2>2 DEF Drop
<1> QED
  BY <1>2, <1>3, <1>5, <1>6

(* A step that leaves requests and positions alone leaves the payloads.    *)
LEMMA SameHeld ==
    ASSUME ops' = ops, Done' = Done
    PROVE  Held' = Held /\ Sz' = Sz
  BY DEF Held, Sz

(* Nothing is live at the start of a replay.                               *)
LEMMA EnterEffect ==
    ASSUME Enter
    PROVE  Held' = {}
  BY LiveAtStart DEF Enter, Held
-----------------------------------------------------------------------------
(* Where the payloads lie.                                                 *)

(* Numbers, once for all: a block held and the break.                      *)
LEMMA PlacedFacts ==
    ASSUME NEW h \in Heaps, NEW lo, NEW n, Placed(h, lo, n)
    PROVE  /\ lo \in Nat /\ n \in Nat \ {0} /\ h.brk \in Nat /\ SIZE_T_SIZE \in Nat \ {0}
           /\ mem_start_brk \in Nat \ {0} /\ mem_start_brk + SIZE_T_SIZE <= lo /\ lo + n <= h.brk
           /\ h.brk <= mem_max_addr /\ mem_max_addr \in Nat /\ mem_max_addr < B - 1
           /\ lo - SIZE_T_SIZE \in HeapAddr /\ lo - SIZE_T_SIZE < h.brk
           /\ \A k \in 0 .. n - 1 : lo + k \in HeapAddr /\ lo + k < h.brk
<1>1. /\ lo \in Nat /\ n \in Nat \ {0} /\ h.brk \in Nat /\ SIZE_T_SIZE \in Nat \ {0}
      /\ mem_start_brk \in Nat \ {0} /\ mem_start_brk + SIZE_T_SIZE <= lo /\ lo + n <= h.brk
      /\ h.brk <= mem_max_addr /\ mem_max_addr \in Nat /\ mem_max_addr < B - 1
  BY ConstantFacts, HeaderFacts, NeedFacts DEF Placed, Heaps
<1>2. lo - SIZE_T_SIZE \in HeapAddr /\ lo - SIZE_T_SIZE < h.brk
  BY <1>1 DEF HeapAddr
<1>3. \A k \in 0 .. n - 1 : lo + k \in HeapAddr /\ lo + k < h.brk
  BY <1>1 DEF HeapAddr
<1> QED
  BY <1>1, <1>2, <1>3

(* A heap that has grown still has its blocks.                             *)
LEMMA GrownKeeps ==
    ASSUME NEW h \in Heaps, NEW new, NEW size \in Sizes, Grown(h, new, size),
           NEW lo, NEW n, Placed(h, lo, n)
    PROVE  Placed(new.heap, lo, n)
<1>1. /\ lo \in Nat /\ n \in Nat /\ h.brk \in Nat /\ lo + n <= h.brk
      /\ lo - SIZE_T_SIZE \in HeapAddr /\ lo - SIZE_T_SIZE < h.brk /\ Need(size) \in Nat
  BY PlacedFacts, NeedFacts
<1>2. new.heap.brk = h.brk + Need(size)
  BY DEF Grown
<1>3. lo + n <= new.heap.brk
  BY <1>1, <1>2
<1>4. new.heap.mem[lo - SIZE_T_SIZE] = h.mem[lo - SIZE_T_SIZE]
  BY <1>1 DEF Grown
<1> QED
  BY <1>3, <1>4 DEF Placed

(* The block that was cut off is placed, above all others.                 *)
LEMMA NewPlaced ==
    ASSUME NEW h \in Heaps, NEW new, NEW size \in Sizes, Grown(h, new, size),
           h.brk % ALIGNMENT = 0
    PROVE  /\ Placed(new.heap, h.brk + SIZE_T_SIZE, size)
           /\ new.heap.brk % ALIGNMENT = 0
           /\ \A lo, n : Placed(h, lo, n) =>
                Apart(lo, n, h.brk + SIZE_T_SIZE, size) /\ Apart(h.brk + SIZE_T_SIZE, size, lo, n)
<1> DEFINE lo0 == h.brk + SIZE_T_SIZE
<1>1. /\ h.brk \in Nat /\ mem_start_brk <= h.brk /\ mem_start_brk \in Nat /\ size \in Nat
      /\ Need(size) \in Nat /\ size + SIZE_T_SIZE <= Need(size) /\ SIZE_T_SIZE \in Nat
      /\ ALIGNMENT \in Nat \ {0} /\ Need(size) % ALIGNMENT = 0 /\ SIZE_T_SIZE % ALIGNMENT = 0
  BY ConstantFacts, HeaderFacts, NeedFacts DEF Heaps
<1>2. h.brk \in Int /\ SIZE_T_SIZE \in Int /\ Need(size) \in Int
  BY <1>1
<1>3. lo0 % ALIGNMENT = 0 /\ (h.brk + Need(size)) % ALIGNMENT = 0
  BY <1>1, <1>2, ModOfSum
<1>4. lo0 - SIZE_T_SIZE = h.brk
  BY <1>1
<1>5. new.heap.brk = h.brk + Need(size) /\ new.heap.mem[h.brk] = size
  BY DEF Grown
<1>6. lo0 \in Nat /\ mem_start_brk + SIZE_T_SIZE <= lo0 /\ lo0 + size <= new.heap.brk
  BY <1>1, <1>5
<1>7. Placed(new.heap, lo0, size)
  BY <1>3, <1>4, <1>5, <1>6 DEF Placed
<1>8. ASSUME NEW lo, NEW n, Placed(h, lo, n)
      PROVE  Apart(lo, n, lo0, size) /\ Apart(lo0, size, lo, n)
  BY <1>4, <1>8 DEF Apart, Placed
<1> QED
  BY <1>3, <1>5, <1>7, <1>8

(* Writing into one payload leaves every header and every other payload.   *)
LEMMA MemsetKeeps ==
    ASSUME NEW h \in Heaps, NEW lo, NEW n, Placed(h, lo, n), NEW c \in 0 .. B - 1,
           NEW lo2, NEW n2, Placed(h, lo2, n2),
           (lo2 = lo /\ n2 = n) \/ Apart(lo, n, lo2, n2)
    PROVE  /\ memset(h, lo, n, c) \in Heaps /\ memset(h, lo, n, c).brk = h.brk
           /\ Placed(memset(h, lo, n, c), lo2, n2)
           /\ \A k \in 0 .. n - 1 : memset(h, lo, n, c).mem[lo + k] = c
           /\ Apart(lo, n, lo2, n2) =>
                \A k \in 0 .. n2 - 1 : memset(h, lo, n, c).mem[lo2 + k] = h.mem[lo2 + k]
<1> DEFINE h2 == memset(h, lo, n, c)
<1>1. /\ lo \in Nat /\ n \in Nat /\ lo2 \in Nat /\ n2 \in Nat /\ SIZE_T_SIZE \in Nat \ {0}
      /\ lo2 - SIZE_T_SIZE \in HeapAddr
      /\ \A k \in 0 .. n - 1 : lo + k \in HeapAddr
      /\ \A k \in 0 .. n2 - 1 : lo2 + k \in HeapAddr
  BY PlacedFacts
<1>2. /\ h2.brk = h.brk
      /\ h2 = [brk |-> h.brk, mem |-> [a \in HeapAddr |-> IF a \in lo .. lo + n - 1 THEN c ELSE h.mem[a]]]
  BY DEF memset, Heaps
<1> HIDE DEF h2
<1>3. h2 \in Heaps
  BY <1>2 DEF Heaps, B
<1>4. \A a \in HeapAddr : h2.mem[a] = IF a \in lo .. lo + n - 1 THEN c ELSE h.mem[a]
  BY <1>2
<1>5. h2.mem[lo2 - SIZE_T_SIZE] = h.mem[lo2 - SIZE_T_SIZE]
  <2>1. lo2 - SIZE_T_SIZE \notin lo .. lo + n - 1
    BY <1>1 DEF Apart
  <2> QED
    BY <1>1, <1>4, <2>1
<1>6. Placed(h2, lo2, n2)
  BY <1>2, <1>5 DEF Placed
<1>7. \A k \in 0 .. n - 1 : h2.mem[lo + k] = c
  BY <1>1, <1>4
<1>8. ASSUME Apart(lo, n, lo2, n2), NEW k \in 0 .. n2 - 1
      PROVE  h2.mem[lo2 + k] = h.mem[lo2 + k]
  <2>1. lo2 + k \notin lo .. lo + n - 1
    BY <1>1, <1>8 DEF Apart
  <2> QED
    BY <1>1, <1>4, <2>1
<1> QED
  BY <1>2, <1>3, <1>6, <1>7, <1>8 DEF h2

(* The byte a payload is filled with fits a cell.                          *)
LEMMA LowByteFits ==
    ASSUME NEW id \in Ids PROVE LowByte(id) \in 0 .. B - 1 /\ LowByte(id) \in 0 .. 2^ByteBits - 1
<1> DEFINE d == 2^ByteBits
<1>1. id \in Int /\ d \in Nat \ {0} /\ d <= B /\ B \in Nat
  BY TraceAssumption, ConstantFacts DEF B
<1> HIDE DEF d
<1>2. id % d \in 0 .. d - 1
  BY <1>1, DivMod
<1> QED
  BY <1>1, <1>2 DEF LowByte, d
-----------------------------------------------------------------------------
(* Every step keeps the live payloads apart, aligned and below the break.  *)
LEMMA LayoutInvStep ==
    ASSUME IInv, [Next]_vars PROVE LayoutInv'
<1>0. heap \in Heaps /\ LayoutInv
  BY DEF IInv, Types, ControlTypes, StoreTypes, ScoreTypes
<1>1. CASE Take
  <2> DEFINE op  == ops[Done']
             new == [heap |-> heap', ret |-> heap.brk + SIZE_T_SIZE]
             lo0 == heap.brk + SIZE_T_SIZE
  <2>1. /\ heap.brk % ALIGNMENT = 0
        /\ \A id \in Held : Placed(heap, Lo[id], Sz[id])
        /\ \A id, id2 \in Held : id # id2 => Apart(Lo[id], Sz[id], Lo[id2], Sz[id2])
    BY <1>0, <1>1 DEF Take, GoesOn, LayoutInv
  <2>2. op.size \in Sizes /\ Held' = Held \cup {op.index}
        /\ \A id \in Held' :
             /\ Lo'[id] = IF id = op.index THEN lo0 ELSE Lo[id]
             /\ Sz'[id] = IF id = op.index THEN op.size ELSE Sz[id]
    BY <1>1, TakeEffect
  <2>3. Grown(heap, new, op.size) /\ new.heap = heap'
    BY <1>1 DEF Take
  <2> HIDE DEF op, new, lo0
  <2>4. heap'.brk % ALIGNMENT = 0 /\ Placed(heap', lo0, op.size)
        /\ \A lo, n : Placed(heap, lo, n) => Apart(lo, n, lo0, op.size) /\ Apart(lo0, op.size, lo, n)
    BY <1>0, <2>1, <2>2, <2>3, NewPlaced DEF lo0
  <2>5. \A id \in Held : Placed(heap', Lo[id], Sz[id])
    BY <1>0, <2>1, <2>2, <2>3, GrownKeeps
  <2>6. \A id \in Held' : Placed(heap', Lo'[id], Sz'[id])
    BY <2>2, <2>4, <2>5
  <2>7. ASSUME NEW id \in Held', NEW id2 \in Held', id # id2
        PROVE  Apart(Lo'[id], Sz'[id], Lo'[id2], Sz'[id2])
    <3>1. CASE id = op.index
      <4>1. id2 \in Held /\ Lo'[id2] = Lo[id2] /\ Sz'[id2] = Sz[id2]
        BY <2>2, <2>7, <3>1
      <4> QED
        BY <2>1, <2>2, <2>4, <3>1, <4>1
    <3>2. CASE id2 = op.index
      <4>1. id \in Held /\ Lo'[id] = Lo[id] /\ Sz'[id] = Sz[id]
        BY <2>2, <2>7, <3>2
      <4> QED
        BY <2>1, <2>2, <2>4, <3>2, <4>1
    <3>3. CASE id # op.index /\ id2 # op.index
      BY <2>1, <2>2, <2>7, <3>3
    <3> QED
      BY <3>1, <3>2, <3>3
  <2> QED
    BY <2>4, <2>6, <2>7 DEF LayoutInv
<1>2. CASE Drop
  <2>1. heap' = heap /\ Replaying
    BY <1>2 DEF Drop, GoesOn
  <2>2. Held' \subseteq Held /\ \A id \in Held' : Lo'[id] = Lo[id] /\ Sz'[id] = Sz[id]
    BY <1>2, DropEffect
  <2> QED
    BY <1>0, <2>1, <2>2 DEF LayoutInv
<1>3. CASE Fill
  <2>1. /\ Replaying /\ Held' = Held /\ Sz' = Sz /\ Lo' = Lo
    BY <1>3, SameHeld DEF Fill, GoesOn
  <2>2. PICK id \in Held : heap' = memset(heap, Lo[id], Sz[id], LowByte(id))
    BY <1>3 DEF Fill
  <2>3. /\ heap.brk % ALIGNMENT = 0
        /\ \A id2 \in Held : Placed(heap, Lo[id2], Sz[id2])
        /\ \A id1, id2 \in Held : id1 # id2 => Apart(Lo[id1], Sz[id1], Lo[id2], Sz[id2])
    BY <1>0, <2>1 DEF LayoutInv
  <2>4. LowByte(id) \in 0 .. B - 1
    BY LowByteFits DEF Held, LiveIn
  <2>5. ASSUME NEW id2 \in Held PROVE Placed(heap', Lo[id2], Sz[id2]) /\ heap'.brk = heap.brk
    <3>1. (Lo[id2] = Lo[id] /\ Sz[id2] = Sz[id]) \/ Apart(Lo[id], Sz[id], Lo[id2], Sz[id2])
      BY <2>3
    <3> QED
      BY <1>0, <2>2, <2>3, <2>4, <3>1, MemsetKeeps
  <2> QED
    BY <2>1, <2>3, <2>5 DEF LayoutInv
<1>4. CASE Enter
  <2>1. Held' = {} /\ heap'.brk = mem_start_brk
    BY <1>0, <1>4, EnterEffect DEF Enter, Heaps
  <2> QED
    BY <2>1, ConstantFacts DEF LayoutInv
<1>5. CASE Idle
  <2>1. Replaying /\ Held' = Held /\ Sz' = Sz /\ Lo' = Lo /\ heap' = heap
    BY <1>5, SameHeld DEF Idle
  <2> QED
    BY <1>0, <2>1 DEF LayoutInv
<1>6. CASE Leave
  BY <1>6 DEF Leave, LayoutInv
<1> QED
  BY <1>1, <1>2, <1>3, <1>4, <1>5, <1>6, StepKinds
-----------------------------------------------------------------------------
(* The range list.                                                         *)
LEMMA InToSet ==
    ASSUME NEW S, NEW s \in Seq(S)
    PROVE  /\ ToSet(s) \subseteq S
           /\ \A x : x \in ToSet(s) <=> \E k \in 1 .. Len(s) : s[k] = x
<1>1. DOMAIN s = 1 .. Len(s) /\ \A k \in 1 .. Len(s) : s[k] \in S
  BY LenProperties, ElementOfSeq
<1> QED
  BY <1>1 DEF ToSet

(* remove_range takes the range that starts at lo off the list, and no     *)
(* other.                                                                  *)
LEMMA RemoveRange ==
    ASSUME NEW list \in Seq(Extents), NEW lo
    PROVE  LET rest == remove_range(list, lo)
           IN  /\ rest \in Seq(Extents)
               /\ DistinctLo(list) =>
                    /\ DistinctLo(rest)
                    /\ \A r : r \in ToSet(rest) <=> r \in ToSet(list) /\ r.lo # lo
<1> DEFINE I    == {k \in 1 .. Len(list) : list[k].lo = lo}
           rest == remove_range(list, lo)
           n    == Min(I)
<1>0. Len(list) \in Nat /\ \A k \in 1 .. Len(list) : list[k] \in Extents
  BY LenProperties, ElementOfSeq
<1>1. CASE I = {}
  <2>1. rest = list
    BY <1>1 DEF remove_range, RemoveFirstMatch
  <2>2. \A r : r \in ToSet(list) => r.lo # lo
    BY <1>1, InToSet
  <2> QED
    BY <2>1, <2>2
<1>2. CASE I # {}
  <2>1. n \in I
    <3>1. I \in SUBSET Nat
      BY <1>0
    <3> HIDE DEF I
    <3> QED
      BY <1>2, <3>1, MinOfNats
  <2>2. rest = RemoveAt(list, n)
    BY <1>2 DEF remove_range, RemoveFirstMatch, SelectInSeq
  <2> HIDE DEF n, rest
  <2>3. n \in 1 .. Len(list) /\ list[n].lo = lo /\ n \in Nat
    BY <2>1
  <2>4. /\ rest \in Seq(Extents) /\ Len(rest) = Len(list) - 1
        /\ \A k \in 1 .. Len(list) - 1 : rest[k] = list[IF k < n THEN k ELSE k + 1]
    BY <2>2, <2>3, RemoveAtEffect
  <2>5. SUFFICES ASSUME DistinctLo(list)
                 PROVE  /\ DistinctLo(rest)
                        /\ \A r : r \in ToSet(rest) <=> r \in ToSet(list) /\ r.lo # lo
    BY <2>4 DEF rest
  <2>6. DistinctLo(rest)
    <3>1. SUFFICES ASSUME NEW a \in 1 .. Len(rest), NEW b \in 1 .. Len(rest), rest[a].lo = rest[b].lo
                   PROVE  a = b
      BY DEF DistinctLo
    <3> DEFINE a2 == IF a < n THEN a ELSE a + 1
               b2 == IF b < n THEN b ELSE b + 1
    <3>2. a2 \in 1 .. Len(list) /\ b2 \in 1 .. Len(list) /\ (a2 = b2 => a = b)
      BY <1>0, <2>3, <2>4
    <3>3. list[a2].lo = list[b2].lo
      BY <2>4, <3>1
    <3> HIDE DEF a2, b2
    <3> QED
      BY <2>5, <3>2, <3>3 DEF DistinctLo
  <2>7. ASSUME NEW r, r \in ToSet(rest) PROVE r \in ToSet(list) /\ r.lo # lo
    <3>1. PICK k \in 1 .. Len(rest) : rest[k] = r
      BY <2>4, <2>7, InToSet
    <3> DEFINE k2 == IF k < n THEN k ELSE k + 1
    <3>2. k2 \in 1 .. Len(list) /\ k2 # n
      BY <1>0, <2>3, <2>4
    <3>3. list[k2] = r
      BY <2>4, <3>1
    <3> HIDE DEF k2
    <3> QED
      BY <2>3, <2>5, <3>2, <3>3, InToSet DEF DistinctLo
  <2>8. ASSUME NEW r, r \in ToSet(list), r.lo # lo PROVE r \in ToSet(rest)
    <3>1. PICK k \in 1 .. Len(list) : list[k] = r
      BY <2>8, InToSet
    <3>2. k # n
      BY <2>3, <2>8, <3>1
    <3>3. PICK m \in 1 .. Len(rest) : (IF m < n THEN m ELSE m + 1) = k
      <4>1. CASE k < n
        <5>1. k \in 1 .. Len(rest)
          BY <1>0, <2>3, <2>4, <4>1
        <5> QED
          BY <4>1, <5>1
      <4>2. CASE k > n
        <5>1. k - 1 \in 1 .. Len(rest) /\ ~(k - 1 < n) /\ (k - 1) + 1 = k
          BY <1>0, <2>3, <2>4, <4>2
        <5> QED
          BY <5>1
      <4> QED
        BY <1>0, <2>3, <3>2, <4>1, <4>2
    <3>4. rest[m] = r
      BY <2>4, <3>1, <3>3
    <3> QED
      BY <2>4, <3>4, InToSet
  <2> QED
    BY <2>6, <2>7, <2>8
<1> QED
  BY <1>1, <1>2

(* add_range puts the new one in front.                                    *)
LEMMA PushRange ==
    ASSUME NEW list \in Seq(Extents), NEW r \in Extents
    PROVE  LET new == <<r>> \o list
           IN  /\ new \in Seq(Extents)
               /\ \A x : x \in ToSet(new) <=> x = r \/ x \in ToSet(list)
               /\ DistinctLo(list) /\ (\A x \in ToSet(list) : x.lo # r.lo) => DistinctLo(new)
<1> DEFINE new == <<r>> \o list
<1>0. Len(list) \in Nat /\ <<r>> \in Seq(Extents) /\ Len(<<r>>) = 1 /\ <<r>>[1] = r
  BY LenProperties
<1>1. /\ new \in Seq(Extents) /\ Len(new) = Len(list) + 1 /\ new[1] = r
      /\ \A k \in 2 .. Len(new) : new[k] = list[k - 1]
  <2>1. /\ <<r>> \o list \in Seq(Extents) /\ Len(<<r>> \o list) = Len(<<r>>) + Len(list)
        /\ \A k \in 1 .. Len(<<r>>) + Len(list) :
             (<<r>> \o list)[k] = IF k <= Len(<<r>>) THEN <<r>>[k] ELSE list[k - Len(<<r>>)]
    BY <1>0, ConcatProperties
  <2> QED
    BY <1>0, <2>1
<1> HIDE DEF new
<1>2. ASSUME NEW x PROVE x \in ToSet(new) <=> x = r \/ x \in ToSet(list)
  <2>1. \A k \in 1 .. Len(new) : k = 1 \/ (k - 1 \in 1 .. Len(list) /\ new[k] = list[k - 1])
    BY <1>0, <1>1
  <2>2. \A k \in 1 .. Len(list) : k + 1 \in 1 .. Len(new) /\ new[k + 1] = list[k]
    BY <1>0, <1>1
  <2>3. 1 \in 1 .. Len(new)
    BY <1>0, <1>1
  <2>4. x \in ToSet(new) <=> \E k \in 1 .. Len(new) : new[k] = x
    BY <1>1, InToSet
  <2>5. x \in ToSet(list) <=> \E k \in 1 .. Len(list) : list[k] = x
    BY InToSet
  <2> QED
    BY <1>1, <2>1, <2>2, <2>3, <2>4, <2>5
<1>3. ASSUME DistinctLo(list), \A x \in ToSet(list) : x.lo # r.lo PROVE DistinctLo(new)
  <2>1. SUFFICES ASSUME NEW a \in 1 .. Len(new), NEW b \in 1 .. Len(new), new[a].lo = new[b].lo
                 PROVE  a = b
    BY DEF DistinctLo
  <2>2. \A k \in 1 .. Len(new) :
          IF k = 1 THEN new[k] = r
          ELSE k - 1 \in 1 .. Len(list) /\ new[k] = list[k - 1] /\ new[k] \in ToSet(list)
    BY <1>0, <1>1, InToSet
  <2>3. a = 1 <=> b = 1
    BY <1>3, <2>1, <2>2
  <2>4. CASE a # 1 /\ b # 1
    <3>1. a - 1 = b - 1
      BY <1>3, <2>1, <2>2, <2>4 DEF DistinctLo
    <3> QED
      BY <3>1
  <2> QED
    BY <2>3, <2>4
<1> QED
  BY <1>1, <1>2, <1>3 DEF new
-----------------------------------------------------------------------------
(* Which trace the driver is reading or replaying.                         *)

(* The traces read are sequences of requests, and there is one.            *)
LEMMA TraceTypes ==
    ASSUME Types
    PROVE  /\ files \in Seq(Seq(Op)) /\ Len(files) \in Nat /\ DOMAIN files = 1 .. Len(files)
           /\ ops \in Seq(Op) /\ Len(ops) \in Nat /\ DOMAIN ops = 1 .. Len(ops)
           /\ num_tracefiles \in Nat \ {0} /\ tracenum \in Nat \ {0} /\ tracenum <= num_tracefiles
           /\ \A t \in 1 .. Len(files) : files[t] \in Seq(Op) /\ Len(files[t]) \in Nat
<1>1. files \in Seq(Seq(Op)) /\ ops \in Seq(Op) /\ tracenum \in 1 .. num_tracefiles
  BY DEF Types, ControlTypes, StoreTypes, ScoreTypes, Files
<1>2. num_tracefiles \in Nat \ {0}
  BY TraceAssumption
<1>3. Len(files) \in Nat /\ DOMAIN files = 1 .. Len(files)
  BY <1>1, LenProperties
<1>4. Len(ops) \in Nat /\ DOMAIN ops = 1 .. Len(ops)
  BY <1>1, LenProperties
<1>5. ASSUME NEW t \in 1 .. Len(files) PROVE files[t] \in Seq(Op) /\ Len(files[t]) \in Nat
  <2>1. files[t] \in Seq(Op)
    BY <1>1, ElementOfSeq
  <2> QED
    BY <2>1, LenProperties
<1> QED
  BY <1>1, <1>2, <1>3, <1>4, <1>5

(* A request a program could make continues a trace it could make.         *)
LEMMA AppendWellFormed ==
    ASSUME NEW s \in Seq(Op), WellFormed(s), NEW op \in Op,
           op.type = "ALLOC" <=> op.index \notin LiveIn(s, Len(s))
    PROVE  WellFormed(Append(s, op))
<1> DEFINE s2 == Append(s, op)
<1>1. /\ Len(s) \in Nat /\ Len(s2) = Len(s) + 1 /\ s2[Len(s) + 1] = op
      /\ \A k \in 1 .. Len(s) : s2[k] = s[k]
  BY LenProperties, AppendProperties
<1> HIDE DEF s2
<1>2. ASSUME NEW n \in 1 .. Len(s2) PROVE s2[n].type = "ALLOC" <=> s2[n].index \notin LiveIn(s2, n - 1)
  <2>1. n - 1 \in Nat /\ \A k \in 1 .. n - 1 : s2[k] = s[k]
    BY <1>1
  <2>2. LiveIn(s2, n - 1) = LiveIn(s, n - 1)
    BY <2>1, LiveSame
  <2>3. CASE n \in 1 .. Len(s)
    BY <1>1, <2>2, <2>3 DEF WellFormed
  <2>4. CASE n = Len(s) + 1
    <3>1. n - 1 = Len(s)
      BY <1>1, <2>4
    <3> QED
      BY <1>1, <2>2, <2>4, <3>1
  <2> QED
    BY <1>1, <2>3, <2>4
<1> QED
  BY <1>2 DEF WellFormed, s2

(* A step within a replay leaves the position in the traces right.         *)
LEMMA TraceGoesOn ==
    ASSUME TraceInv, UNCHANGED traceVars,
           phase \notin {"read", "report"}, phase' \notin {"read", "report"},
           phase' \in {"fill", "util"} => pkg = "mm",
           phase' = "fill" => i' \in 1 .. Len(ops) /\ ops[i'].type # "FREE" /\ p' # NULL,
           phase' # "fill" => p' = NULL
    PROVE  TraceInv'
  BY DEF TraceInv, traceVars, req

(* So does going to the next trace ...                                     *)
LEMMA TraceNextFile ==
    ASSUME Types, TraceInv, NextFile, files' = files, p' = NULL, phase \notin {"read", "report"}
    PROVE  TraceInv'
<1>1. /\ ops' = <<>> /\ i' = 0 /\ Len(ops') = 0 /\ phase' \in {"read", "report"}
      /\ phase' = "report" => pkg' = "mm"
  BY DEF NextFile
<1>2. /\ tracenum \in Nat \ {0} /\ num_tracefiles \in Nat \ {0} /\ Len(files) \in Nat
      /\ tracenum <= num_tracefiles
  BY TraceTypes
<1>3. tracenum <= Len(files) /\ Len(files) <= num_tracefiles
  BY <1>2 DEF TraceInv
<1>4. WellFormed(ops')
  BY <1>1 DEF WellFormed
<1>5. Len(files') \in tracenum' - 1 .. num_tracefiles
  BY <1>2, <1>3 DEF NextFile
<1>6. phase' = "report" => tracenum' = num_tracefiles /\ Len(files') = num_tracefiles
  BY <1>2, <1>3 DEF NextFile
<1>7. tracenum' <= Len(files') => Len(ops') <= Len(files'[tracenum']) /\ \A k \in 1 .. Len(ops') : ops'[k] = files'[tracenum'][k]
  <2>1. SUFFICES ASSUME tracenum' <= Len(files') PROVE Len(ops') <= Len(files'[tracenum'])
    BY <1>1
  <2>2. tracenum' \in Nat \ {0}
    BY <1>2 DEF NextFile
  <2>3. tracenum' \in 1 .. Len(files)
    BY <1>2, <2>1, <2>2
  <2> QED
    BY <1>1, <2>3, TraceTypes
<1> QED
  BY <1>1, <1>4, <1>5, <1>6, <1>7 DEF TraceInv

(* ... reading a line of it ...                                            *)
LEMMA ReadLineTrace ==
    ASSUME Types, TraceInv, NEW op \in Op, ReadLine(op)
    PROVE  TraceInv' /\ ops' \in Seq(Op)
<1>1. /\ phase = "read" /\ ops' = Append(ops, op) /\ i = 0
      /\ UNCHANGED <<pkg, tracenum, files, phase, i, p>>
  BY DEF ReadLine, TraceInv
<1>2. /\ ops \in Seq(Op) /\ Len(ops) \in Nat /\ ops' \in Seq(Op) /\ Len(ops') = Len(ops) + 1
      /\ ops'[Len(ops) + 1] = op /\ \A k \in 1 .. Len(ops) : ops'[k] = ops[k]
  <2>1. ops \in Seq(Op) /\ Len(ops) \in Nat
    BY TraceTypes
  <2> QED
    BY <1>1, <2>1, AppendProperties
<1>3. CASE tracenum <= Len(files)
  <2> DEFINE f == files[tracenum]
  <2>1. tracenum \in 1 .. Len(files) /\ DOMAIN files = 1 .. Len(files)
    BY <1>3, TraceTypes
  <2>2. f \in Seq(Op) /\ WellFormed(f)
    BY <2>1, TraceTypes DEF TraceInv
  <2>3. Len(ops) < Len(f) /\ op = f[Len(ops) + 1] /\ \A k \in 1 .. Len(ops) : ops[k] = f[k]
    BY <1>1, <1>3 DEF ReadLine, TraceInv
  <2> HIDE DEF f
  <2>4. Len(f) \in Nat /\ Len(ops) + 1 \in 1 .. Len(f) /\ (Len(ops) + 1) - 1 = Len(ops)
    BY <1>2, <2>2, <2>3, LenProperties
  <2>5. LiveIn(ops, Len(ops)) = LiveIn(f, Len(ops))
    BY <1>2, <2>3, LiveSame
  <2>6. op.type = "ALLOC" <=> op.index \notin LiveIn(ops, Len(ops))
    BY <2>2, <2>3, <2>4, <2>5 DEF WellFormed
  <2>7. WellFormed(ops')
    BY <1>1, <1>2, <2>6, AppendWellFormed DEF TraceInv
  <2>8. Len(ops') <= Len(f) /\ \A k \in 1 .. Len(ops') : ops'[k] = f[k]
    <3>1. \A k \in 1 .. Len(ops') : k \in 1 .. Len(ops) \/ k = Len(ops) + 1
      BY <1>2
    <3> QED
      BY <1>2, <2>3, <2>4, <3>1
  <2> QED
    BY <1>1, <1>2, <2>7, <2>8 DEF TraceInv, f
<1>4. CASE ~(tracenum <= Len(files))
  <2>1. op.type = "ALLOC" <=> op.index \notin LiveIn(ops, Len(ops))
    BY <1>4 DEF ReadLine, LiveAfter, LiveIn
  <2>2. WellFormed(ops')
    BY <1>1, <1>2, <2>1, AppendWellFormed DEF TraceInv
  <2> QED
    BY <1>1, <1>2, <1>4, <2>2 DEF TraceInv
<1> QED
  BY <1>3, <1>4

(* ... and reading its end.                                                *)
LEMMA EndOfFileTrace ==
    ASSUME Types, TraceInv, NEW num_ids, NEW num_ops, EndOfFile(num_ids, num_ops)
    PROVE  TraceInv' /\ files' \in Seq(Seq(Op))
<1>1. /\ phase = "read" /\ phase' \in {"read", "valid"} /\ i' = 0 /\ p = NULL
      /\ UNCHANGED <<pkg, tracenum, ops, p>>
      /\ phase' = "read" => files' = files
      /\ phase' = "valid" => files' = IF tracenum <= Len(files) THEN files ELSE Append(files, ops)
      /\ tracenum <= Len(files) => ops = files[tracenum]
  BY DEF EndOfFile, TraceInv
<1>2. /\ files \in Seq(Seq(Op)) /\ ops \in Seq(Op) /\ Len(files) \in Nat /\ DOMAIN files = 1 .. Len(files)
      /\ tracenum \in Nat \ {0} /\ tracenum <= num_tracefiles /\ num_tracefiles \in Nat
  BY TraceTypes
<1>3. CASE files' = files /\ (phase' = "valid" => tracenum <= Len(files))
  BY <1>1, <1>2, <1>3 DEF TraceInv
<1>4. CASE phase' = "valid" /\ ~(tracenum <= Len(files))
  <2>1. files' = Append(files, ops) /\ Len(files) = tracenum - 1
    BY <1>1, <1>2, <1>4 DEF TraceInv
  <2>2. /\ files' \in Seq(Seq(Op)) /\ Len(files') = Len(files) + 1 /\ files'[Len(files) + 1] = ops
        /\ \A t \in 1 .. Len(files) : files'[t] = files[t]
        /\ DOMAIN files' = 1 .. Len(files')
    BY <1>2, <2>1, AppendProperties, LenProperties
  <2>3. Len(files') = tracenum /\ files'[tracenum] = ops
    BY <1>2, <2>1, <2>2
  <2>4. \A t \in DOMAIN files' : WellFormed(files'[t])
    <3>1. \A t \in DOMAIN files' : t \in DOMAIN files \/ t = tracenum
      BY <1>2, <2>1, <2>2
    <3> QED
      BY <1>2, <2>2, <2>3, <3>1 DEF TraceInv
  <2>5. Len(files') \in tracenum' - 1 .. num_tracefiles
    BY <1>1, <1>2, <2>3
  <2> QED
    BY <1>1, <1>2, <1>4, <2>2, <2>3, <2>4, <2>5 DEF TraceInv
<1> QED
  BY <1>1, <1>3, <1>4
-----------------------------------------------------------------------------
(* Every step keeps the position in the traces right.                      *)
LEMMA TraceInvStep ==
    ASSUME IInv, [Next]_vars PROVE TraceInv'
<1>0. Types /\ TraceInv
  BY DEF IInv
<1>1. CASE UNCHANGED <<traceVars, phase, i, p>>
  BY <1>0, <1>1 DEF TraceInv, traceVars, req
<1>2. CASE \E op \in Op : ReadLine(op)
  BY <1>0, <1>2, ReadLineTrace
<1>3. CASE \E num_ids \in {0, MaxIndex(ops) + 1}, num_ops \in {Len(ops), Len(ops) + 1} :
             EndOfFile(num_ids, num_ops)
  BY <1>0, <1>3, EndOfFileTrace
<1>4. ASSUME UNCHANGED <<traceVars, phase, p>>, phase \in {"valid", "util", "speed"}
      PROVE  TraceInv'
  BY <1>0, <1>4, TraceGoesOn DEF TraceInv
<1>5. CASE StartValid \/ StartUtil \/ StartSpeed \/ StartLibc
  BY <1>4, <1>5 DEF StartValid, StartUtil, StartSpeed, StartLibc, Entered
<1>6. CASE ValidCall
  <2>1. phase = "valid" /\ i \in 1 .. Len(ops) /\ req.type # "FREE" /\ files' = files
    BY <1>6 DEF ValidCall, At
  <2>2. CASE Reject
    BY <1>0, <2>1, <2>2, TraceNextFile DEF Reject
  <2>3. CASE ~Reject
    <3>1. phase' = "fill" /\ i' = i /\ p' # NULL /\ UNCHANGED traceVars /\ pkg = "mm"
      BY <1>6, <2>3 DEF ValidCall, At
    <3>2. i' \in 1 .. Len(ops) /\ ops[i'].type # "FREE"
      BY <2>1, <3>1 DEF req
    <3> QED
      BY <1>0, <2>1, <3>1, <3>2, TraceGoesOn
  <2> QED
    BY <2>2, <2>3
<1>7. CASE ValidFill
  <2>1. phase = "fill" /\ files' = files /\ p' = NULL
    BY <1>7 DEF ValidFill, Reject
  <2>2. CASE Reject
    BY <1>0, <2>1, <2>2, TraceNextFile DEF Reject
  <2>3. CASE ~Reject
    <3>1. phase' = "valid" /\ UNCHANGED traceVars
      BY <1>7, <2>3 DEF ValidFill
    <3> QED
      BY <1>0, <2>1, <3>1, TraceGoesOn
  <2> QED
    BY <2>2, <2>3
<1>8. CASE ValidFree \/ UtilFree \/ SpeedFree
  BY <1>4, <1>8 DEF ValidFree, UtilFree, SpeedFree, At
<1>9. CASE ValidReturns \/ UtilReturns \/ LibcReturns
  <2>1. /\ UNCHANGED <<traceVars, p>> /\ phase \in {"valid", "util"} /\ phase' \in {"util", "speed"}
        /\ phase' = "util" => pkg = "mm"
    BY <1>9 DEF ValidReturns, UtilReturns, LibcReturns, Finished
  <2>2. p' = NULL
    BY <1>0, <2>1 DEF TraceInv
  <2> QED
    BY <1>0, <2>1, <2>2, TraceGoesOn
<1>10. CASE UtilCall \/ SpeedCall
  <2>1. CASE Die("app_error")
    BY <1>1, <2>1 DEF Die
  <2>2. CASE ~Die("app_error")
    BY <1>4, <1>10, <2>2 DEF UtilCall, SpeedCall, At
  <2> QED
    BY <2>1, <2>2
<1>11. CASE SpeedReturns
  <2>1. phase = "speed" /\ files' = files /\ p' = p
    BY <1>11 DEF SpeedReturns, Finished
  <2>2. CASE NextFile
    <3>1. p' = NULL
      BY <1>0, <2>1 DEF TraceInv
    <3> QED
      BY <1>0, <2>1, <2>2, <3>1, TraceNextFile
  <2>3. CASE UNCHANGED <<traceVars, phase>>
    BY <1>4, <2>1, <2>3
  <2> QED
    BY <1>11, <2>2, <2>3 DEF SpeedReturns
<1>12. CASE LibcCall \/ LibcFree
  BY <1>4, <1>12 DEF LibcCall, LibcFree, At
<1>13. CASE LibcFails
  BY <1>1, <1>13 DEF LibcFails
<1>14. CASE Report \/ Ended \/ UNCHANGED vars
  BY <1>1, <1>14 DEF Report, Ended, vars
<1> QED
  BY <1>2, <1>3, <1>5, <1>6, <1>7, <1>8, <1>9, <1>10, <1>11, <1>12, <1>13, <1>14 DEF Next
-----------------------------------------------------------------------------
(* The types.                                                              *)

(* libc hands out a block that is not in use.                              *)
LEMMA LibcBlockIsFree ==
    ASSUME IsFiniteSet(libc)
    PROVE  LibcBlock \in Nat /\ LibcBlock \notin libc
<1> DEFINE n == Cardinality(libc)
           S == (1 .. n + 1) \ libc
<1>1. n \in Nat
  BY FS_CardinalityType
<1>2. S # {}
  <2>1. SUFFICES ASSUME S = {} PROVE FALSE
    OBVIOUS
  <2>2. 1 .. n + 1 \subseteq libc
    BY <2>1
  <2>3. Cardinality(1 .. n + 1) <= n
    BY <2>2, FS_Subset
  <2>4. Cardinality(1 .. n + 1) = n + 1
    <3>1. 1 \in Int /\ n + 1 \in Int /\ ~(1 > n + 1) /\ (n + 1) - 1 + 1 = n + 1
      BY <1>1
    <3> HIDE DEF n
    <3> QED
      BY <3>1, FS_Interval
  <2> QED
    BY <1>1, <2>3, <2>4
<1>3. S \in SUBSET Nat
  BY <1>1
<1>4. Min(S) \in S
  <2> HIDE DEF S
  <2> QED
    BY <1>2, <1>3, MinOfNats
<1> QED
  BY <1>3, <1>4 DEF LibcBlock

(* What a call answers.                                                    *)
LEMMA AnswerType ==
    ASSUME IInv, NEW ph \in {"valid", "util", "speed"}, Calls(ph), req.type # "FREE"
    PROVE  Answer.heap \in Heaps /\ Answer.ret \in Pointers
<1>1. heap \in Heaps /\ req.size \in Sizes
  BY AtRequest DEF IInv, Types, ControlTypes, StoreTypes, ScoreTypes
<1>2. CASE Room(heap, req.size)
  <2>1. Answer.heap \in Heaps /\ Answer.ret = heap.brk + SIZE_T_SIZE
    BY <1>2, AnswerIs DEF Grown
  <2>2. /\ heap.brk \in Nat /\ Need(req.size) \in Nat /\ SIZE_T_SIZE \in Nat /\ req.size \in Nat
        /\ req.size + SIZE_T_SIZE <= Need(req.size)
        /\ heap.brk + Need(req.size) <= mem_max_addr /\ mem_max_addr \in Nat
        /\ mem_max_addr < B - 1 /\ H \in Nat /\ B \in Nat
    BY <1>1, <1>2, ConstantFacts, HeaderFacts, NeedFacts DEF Heaps, Room
  <2> QED
    BY <2>1, <2>2 DEF Pointers, B
<1>3. CASE ~Room(heap, req.size)
  BY <1>1, <1>3, AnswerIs, ConstantFacts DEF NoRoom, NULL, Pointers, B
<1> QED
  BY <1>2, <1>3

(* A payload has an extent.                                                *)
LEMMA ExtentType ==
    ASSUME NEW lo \in Pointers, NEW size \in Sizes
    PROVE  Extent(lo, size) \in Extents
<1>1. lo + size - 1 \in Int /\ B \in Nat \ {0}
  BY ConstantFacts, NeedFacts DEF Pointers
<1>2. Word(lo + size - 1) \in 0 .. B - 1
  <2> DEFINE x == lo + size - 1
  <2> HIDE DEF x
  <2>1. x % B \in 0 .. B - 1
    BY <1>1, DivMod DEF x
  <2> QED
    BY <2>1 DEF Word, x, B
<1> QED
  BY <1>2 DEF Extent, Extents, Pointers, B

(* What the driver goes on with after a trace.                             *)
LEMMA NextFileTypes ==
    ASSUME Types, TraceInv, NextFile, phase # "read"
    PROVE  /\ pkg' \in {"libc", "mm"} /\ phase' \in Phases /\ tracenum' \in Files
           /\ ops' \in Seq(Op) /\ i' \in 0 .. Len(ops') + 1 /\ runs' \in 0 .. Repeats - 1
           /\ pkg' = "mm" /\ phase' # "read" => pkg = "mm"
<1>1. ops' = <<>> /\ i' = 0 /\ runs' = 0 /\ Len(ops') = 0 /\ ops' \in Seq(Op)
  BY DEF NextFile
<1>2. tracenum \in 1 .. num_tracefiles /\ num_tracefiles \in Nat \ {0} /\ Repeats \in Nat \ {0}
  BY TraceAssumption DEF Types, ControlTypes, StoreTypes, ScoreTypes, Files
<1>3. tracenum' \in Files
  BY <1>2 DEF NextFile, Files
<1>4. 0 \in 0 .. Repeats - 1
  BY <1>2
<1>5. pkg' \in {"libc", "mm"} /\ phase' \in Phases /\ (pkg' = "mm" /\ phase' # "read" => pkg = "mm")
  BY DEF NextFile, Phases, Types, ControlTypes, StoreTypes, ScoreTypes
<1> QED
  BY <1>1, <1>3, <1>4, <1>5
-----------------------------------------------------------------------------
(* Every step preserves the types.                                         *)
LEMMA TypesStep ==
    ASSUME IInv, [Next]_vars PROVE Types'
<1>0. Types /\ TraceInv /\ Len(ops) \in Nat
  BY TraceTypes DEF IInv
<1>00. ranges \in Seq(Extents) /\ NULL \in Pointers /\ Pointers \subseteq Nat
  <2>1. ranges \in Seq(Extents)
    BY <1>0 DEF Types, ControlTypes, StoreTypes, ScoreTypes
  <2>2. 0 \in 0 .. B - 1 /\ 0 .. B - 1 \subseteq Nat
    BY ConstantFacts
  <2> QED
    BY <2>1, <2>2 DEF NULL, Pointers, B
<1>000. /\ \A id \in Ids : block_sizes[id] \in Nat
        /\ total_size \in Int /\ max_total_size \in Nat /\ runs \in 0 .. Repeats - 1
        /\ Repeats \in Nat
  <2>1. block_sizes \in [Ids -> {0} \cup Sizes]
    BY <1>0 DEF Types, StoreTypes
  <2>2. \A n \in Sizes : n \in Nat
    BY NeedFacts
  <2>3. total_size \in Int /\ max_total_size \in Nat /\ runs \in 0 .. Repeats - 1
    BY <1>0 DEF Types, ScoreTypes, ControlTypes
  <2>4. Repeats \in Nat
    BY TraceAssumption
  <2> QED
    BY <2>1, <2>2, <2>3, <2>4
<1>1. CASE \E op \in Op : ReadLine(op)
  <2>1. PICK op \in Op : ReadLine(op)
    BY <1>1
  <2>2. ops' \in Seq(Op) /\ i = 0
    BY <1>0, <2>1, ReadLineTrace DEF ReadLine, TraceInv
  <2>3. Len(ops') \in Nat
    BY <2>2, LenProperties
  <2>c. ControlTypes'
    BY <1>0, <2>1, <2>2, <2>3 DEF Types, ControlTypes, ReadLine, blockVars, utilVars, verdicts
  <2>m. StoreTypes'
    BY <1>0, <2>1, <2>2, <2>3 DEF Types, StoreTypes, ReadLine, blockVars, utilVars, verdicts
  <2>s. ScoreTypes'
    BY <1>0, <2>1, <2>2, <2>3 DEF Types, ScoreTypes, ReadLine, blockVars, utilVars, verdicts
  <2> QED
    BY <2>c, <2>m, <2>s DEF Types
<1>2. CASE \E num_ids \in {0, MaxIndex(ops) + 1}, num_ops \in {Len(ops), Len(ops) + 1} :
             EndOfFile(num_ids, num_ops)
  <2>1. PICK num_ids, num_ops : EndOfFile(num_ids, num_ops)
    BY <1>2
  <2>2. files' \in Seq(Seq(Op))
    BY <1>0, <2>1, EndOfFileTrace
  <2>3. NoTrace \in [Ids -> {0} \cup Sizes] /\ NoTrace \in [Ids -> Pointers] /\ NoTrace \in [Ids -> Nat]
    BY <1>00 DEF NoTrace, NULL
  <2>4. phase' \in Phases /\ status' \in {"running", "assert"} \cup {status}
        /\ blocks' = NoTrace /\ block_sizes' = NoTrace /\ i' = 0
        /\ UNCHANGED <<pkg, tracenum, ops, p, heap, ranges, libc, utilVars, runs, verdicts>>
    BY <1>0, <2>1 DEF EndOfFile, Phases, Types, ControlTypes, StoreTypes, ScoreTypes
  <2>c. ControlTypes'
    BY <1>0, <2>2, <2>3, <2>4 DEF Types, ControlTypes, utilVars, verdicts
  <2>m. StoreTypes'
    BY <1>0, <2>2, <2>3, <2>4 DEF Types, StoreTypes, utilVars, verdicts
  <2>s. ScoreTypes'
    BY <1>0, <2>2, <2>3, <2>4 DEF Types, ScoreTypes, utilVars, verdicts
  <2> QED
    BY <2>c, <2>m, <2>s DEF Types
<1>3. CASE StartValid \/ StartUtil \/ StartSpeed \/ StartLibc
  <2>1. /\ i' \in 0 .. Len(ops) + 1 /\ UNCHANGED <<traceVars, phase, blockVars, p, libc, runs, verdicts, status>>
        /\ heap' \in {heap, mm_init(Reset(heap))} /\ ranges' \in {ranges, <<>>}
        /\ total_size' \in {total_size, 0} /\ max_total_size' \in {max_total_size, 0}
    BY <1>0, <1>3 DEF StartValid, StartUtil, StartSpeed, StartLibc, NextOp, Entered, utilVars
  <2>2. heap' \in Heaps
    <3>1. mem_start_brk \in mem_start_brk .. mem_max_addr
      BY ConstantFacts
    <3> QED
      BY <1>0, <2>1, <3>1 DEF Types, StoreTypes, mm_init, Reset, mem_reset_brk, Heaps
  <2>3. ranges' \in Seq(Extents)
    <3>1. <<>> \in Seq(Extents)
      BY EmptySeq
    <3> QED
      BY <1>00, <2>1, <3>1
  <2>c. ControlTypes'
    BY <1>0, <2>1, <2>2, <2>3 DEF Types, ControlTypes, traceVars, blockVars, verdicts
  <2>m. StoreTypes'
    BY <1>0, <2>1, <2>2, <2>3 DEF Types, StoreTypes, traceVars, blockVars, verdicts
  <2>s. ScoreTypes'
    <3>1. total_size' \in Int /\ max_total_size' \in Nat
      BY <1>000, <2>1
    <3> QED
      BY <1>0, <2>1, <3>1 DEF Types, ScoreTypes, verdicts
  <2> QED
    BY <2>c, <2>m, <2>s DEF Types
<1>4. CASE ValidCall
  <2>1. /\ Calls("valid") /\ req.type # "FREE" /\ phase = "valid" /\ pkg = "mm"
        /\ i \in 0 .. Len(ops) + 1
    BY <1>0, <1>4, ValidCallKind DEF Calls, Types, ControlTypes, StoreTypes, ScoreTypes
  <2>2. Answer.heap \in Heaps /\ Answer.ret \in Pointers /\ req.size \in Sizes
    BY <2>1, AnswerType, AtRequest
  <2> DEFINE list  == IF req.type = "ALLOC" THEN ranges ELSE remove_range(ranges, blocks[req.index])
             range == Extent(Answer.ret, req.size)
  <2>3. list \in Seq(Extents) /\ range \in Extents
    BY <1>00, <2>2, RemoveRange, ExtentType
  <2>4. <<range>> \o list \in Seq(Extents)
    BY <2>3, PushRange
  <2>5. /\ heap' = Answer.heap /\ ranges' \in {ranges, list, <<range>> \o list}
        /\ UNCHANGED <<files, blockVars, libc, utilVars, status>>
        /\ \/ Reject
           \/ p' = Answer.ret /\ phase' = "fill" /\ UNCHANGED <<traceVars, i, runs, verdicts>>
    BY <1>4 DEF ValidCall
  <2> HIDE DEF list, range
  <2>6. ranges' \in Seq(Extents)
    BY <1>00, <2>3, <2>4, <2>5
  <2>7. CASE Reject
    <3>1. NextFile /\ p' = NULL /\ errors' = errors + 1 /\ valid' = [valid EXCEPT ![tracenum] = FALSE]
      BY <2>7 DEF Reject
    <3>2. /\ pkg' \in {"libc", "mm"} /\ phase' \in Phases /\ tracenum' \in Files
          /\ ops' \in Seq(Op) /\ i' \in 0 .. Len(ops') + 1 /\ runs' \in 0 .. Repeats - 1
      BY <1>0, <2>1, <3>1, NextFileTypes
    <3>c. ControlTypes'
      BY <1>0, <1>00, <2>1, <2>2, <2>5, <2>6, <3>1, <3>2 DEF Types, ControlTypes, blockVars, utilVars
    <3>m. StoreTypes'
      BY <1>0, <1>00, <2>1, <2>2, <2>5, <2>6, <3>1, <3>2 DEF Types, StoreTypes, blockVars, utilVars
    <3>s. ScoreTypes'
      <4>1. errors' \in Nat /\ valid' \in [Files -> BOOLEAN]
        <5>1. errors \in Nat /\ valid \in [Files -> BOOLEAN]
          BY <1>0 DEF Types, ScoreTypes
        <5>2. errors' \in Nat
          BY <3>1, <5>1
        <5>3. valid' \in [Files -> BOOLEAN]
          BY <3>1, <5>1, Zenon
        <5> QED
          BY <5>2, <5>3
      <4> QED
        BY <1>0, <2>5, <4>1 DEF Types, ScoreTypes, utilVars
    <3> QED
      BY <3>c, <3>m, <3>s DEF Types
  <2>8. CASE p' = Answer.ret /\ phase' = "fill" /\ UNCHANGED <<traceVars, i, runs, verdicts>>
    <3>c. ControlTypes'
      BY <1>0, <2>1, <2>2, <2>5, <2>6, <2>8 DEF Types, ControlTypes, traceVars, blockVars, utilVars, verdicts, Phases
    <3>m. StoreTypes'
      BY <1>0, <2>1, <2>2, <2>5, <2>6, <2>8 DEF Types, StoreTypes, traceVars, blockVars, utilVars, verdicts, Phases
    <3>s. ScoreTypes'
      BY <1>0, <2>1, <2>2, <2>5, <2>6, <2>8 DEF Types, ScoreTypes, traceVars, blockVars, utilVars, verdicts, Phases
    <3> QED
      BY <3>c, <3>m, <3>s DEF Types
  <2> QED
    BY <2>5, <2>7, <2>8
<1>5. CASE ValidFill
  <2>1. /\ phase = "fill" /\ Replaying /\ i \in 1 .. Len(ops) /\ pkg = "mm"
        /\ req.index \in Ids /\ req.size \in Sizes /\ req.index \in Held
        /\ Lo[req.index] = p /\ Sz[req.index] = req.size
    BY <1>5, AtFill DEF ValidFill, Replaying
  <2>2. UNCHANGED <<files, ranges, libc, utilVars, status>>
    BY <1>5 DEF ValidFill
  <2>3. CASE Reject /\ UNCHANGED <<heap, blockVars>>
    <3>1. NextFile /\ p' = NULL /\ errors' = errors + 1 /\ valid' = [valid EXCEPT ![tracenum] = FALSE]
      BY <2>3 DEF Reject
    <3>2. /\ pkg' \in {"libc", "mm"} /\ phase' \in Phases /\ tracenum' \in Files
          /\ ops' \in Seq(Op) /\ i' \in 0 .. Len(ops') + 1 /\ runs' \in 0 .. Repeats - 1
      BY <1>0, <2>1, <3>1, NextFileTypes
    <3>c. ControlTypes'
      BY <1>0, <1>00, <2>1, <2>2, <2>3, <3>1, <3>2 DEF Types, ControlTypes, blockVars, utilVars
    <3>m. StoreTypes'
      BY <1>0, <1>00, <2>1, <2>2, <2>3, <3>1, <3>2 DEF Types, StoreTypes, blockVars, utilVars
    <3>s. ScoreTypes'
      <4>1. errors' \in Nat /\ valid' \in [Files -> BOOLEAN]
        <5>1. errors \in Nat /\ valid \in [Files -> BOOLEAN]
          BY <1>0 DEF Types, ScoreTypes
        <5>2. errors' \in Nat
          BY <3>1, <5>1
        <5>3. valid' \in [Files -> BOOLEAN]
          BY <3>1, <5>1, Zenon
        <5> QED
          BY <5>2, <5>3
      <4> QED
        BY <1>0, <2>2, <4>1 DEF Types, ScoreTypes, utilVars
    <3> QED
      BY <3>c, <3>m, <3>s DEF Types
  <2>4. CASE ~(Reject /\ UNCHANGED <<heap, blockVars>>)
    <3>1. /\ heap' = memset(heap, p, req.size, LowByte(req.index))
          /\ blocks' = [blocks EXCEPT ![req.index] = p]
          /\ block_sizes' = [block_sizes EXCEPT ![req.index] = req.size]
          /\ p' = NULL /\ phase' = "valid" /\ i' = i + 1
          /\ UNCHANGED <<traceVars, runs, verdicts>>
      BY <1>5, <2>4 DEF ValidFill, NextOp
    <3>2. heap \in Heaps /\ Placed(heap, p, req.size) /\ LowByte(req.index) \in 0 .. B - 1
      BY <1>0, <2>1, LowByteFits DEF IInv, LayoutInv, Types, ControlTypes, StoreTypes, ScoreTypes
    <3>3. heap' \in Heaps
      BY <3>1, <3>2, MemsetKeeps
    <3>4. i' \in 0 .. Len(ops) + 1
      BY <1>0, <2>1, <3>1
    <3>5. p \in Pointers /\ p \in Nat
      BY <1>0, <1>00 DEF Types, ControlTypes, StoreTypes, ScoreTypes
    <3>c. ControlTypes'
      BY <1>0, <1>00, <2>1, <2>2, <3>1, <3>3, <3>4, <3>5 DEF Types, ControlTypes, traceVars, utilVars, verdicts, Phases
    <3>m. StoreTypes'
      BY <1>0, <1>00, <2>1, <2>2, <3>1, <3>3, <3>4, <3>5 DEF Types, StoreTypes, traceVars, utilVars, verdicts, Phases
    <3>s. ScoreTypes'
      BY <1>0, <1>00, <2>1, <2>2, <3>1, <3>3, <3>4, <3>5 DEF Types, ScoreTypes, traceVars, utilVars, verdicts, Phases
    <3> QED
      BY <3>c, <3>m, <3>s DEF Types
  <2> QED
    BY <2>3, <2>4
<1>6. CASE ValidFree \/ UtilFree \/ SpeedFree
  <2>1. /\ i \in 1 .. Len(ops) /\ i' = i + 1 /\ heap' = heap /\ req.index \in Ids
        /\ UNCHANGED <<traceVars, phase, blockVars, p, libc, max_total_size, runs, verdicts, status>>
        /\ ranges' \in {ranges, remove_range(ranges, blocks[req.index])}
        /\ total_size' \in {total_size, total_size - block_sizes[req.index]}
    <3>1. i \in 1 .. Len(ops) /\ i' = i + 1 /\ req.index \in Ids
      <4>1. ops \in Seq(Op)
        BY TraceTypes, <1>0
      <4>2. i \in 1 .. Len(ops) /\ i' = i + 1
        BY <1>6 DEF ValidFree, UtilFree, SpeedFree, At, NextOp
      <4> QED
        BY <4>1, <4>2, OpType DEF req
    <3> QED
      BY <1>6, <3>1 DEF ValidFree, UtilFree, SpeedFree, mm_free, utilVars
  <2>2. ranges' \in Seq(Extents)
    BY <1>00, <2>1, RemoveRange
  <2>3. total_size' \in Int
    <3>1. block_sizes[req.index] \in Nat
      BY <2>1, <1>000
    <3> QED
      BY <1>000, <2>1, <3>1
  <2>4. i' \in 0 .. Len(ops) + 1
    BY <1>0, <2>1
  <2>c. ControlTypes'
    BY <1>0, <2>1, <2>2, <2>3, <2>4 DEF Types, ControlTypes, traceVars, blockVars, verdicts
  <2>m. StoreTypes'
    BY <1>0, <2>1, <2>2, <2>3, <2>4 DEF Types, StoreTypes, traceVars, blockVars, verdicts
  <2>s. ScoreTypes'
    BY <1>0, <2>1, <2>2, <2>3, <2>4 DEF Types, ScoreTypes, traceVars, blockVars, verdicts
  <2> QED
    BY <2>c, <2>m, <2>s DEF Types
<1>7. CASE ValidReturns \/ UtilReturns \/ LibcReturns
  <2>1. /\ phase # "read" /\ phase' \in Phases /\ i' = 0
        /\ UNCHANGED <<traceVars, blockVars, p, heap, ranges, libc, utilVars, runs, errors, status>>
        /\ valid' \in {valid, [valid EXCEPT ![tracenum] = TRUE]}
    BY <1>7 DEF ValidReturns, UtilReturns, LibcReturns, Finished, verdicts, Phases
  <2>c. ControlTypes'
    BY <1>0, <2>1 DEF Types, ControlTypes, traceVars, blockVars, utilVars
  <2>m. StoreTypes'
    BY <1>0, <2>1 DEF Types, StoreTypes, traceVars, blockVars, utilVars
  <2>s. ScoreTypes'
    BY <1>0, <2>1 DEF Types, ScoreTypes, traceVars, blockVars, utilVars
  <2> QED
    BY <2>c, <2>m, <2>s DEF Types
<1>8. CASE UtilCall
  <2>1. Calls("util") /\ req.type # "FREE" /\ phase = "util" /\ i \in 1 .. Len(ops) /\ pkg = "mm"
    BY <1>8, UtilCallKind DEF Calls
  <2>2. Answer.heap \in Heaps /\ Answer.ret \in Pointers /\ req.size \in Sizes /\ req.index \in Ids
    BY <2>1, AnswerType, AtRequest
  <2>3. CASE Die("app_error")
    <3>c. ControlTypes'
      BY <1>0, <2>3 DEF Types, ControlTypes, Die, traceVars, blockVars, utilVars, verdicts
    <3>m. StoreTypes'
      BY <1>0, <2>3 DEF Types, StoreTypes, Die, traceVars, blockVars, utilVars, verdicts
    <3>s. ScoreTypes'
      BY <1>0, <2>3 DEF Types, ScoreTypes, Die, traceVars, blockVars, utilVars, verdicts
    <3> QED
      BY <3>c, <3>m, <3>s DEF Types
  <2>4. CASE ~Die("app_error")
    <3>1. /\ heap' = Answer.heap /\ i' = i + 1
          /\ blocks' = [blocks EXCEPT ![req.index] = Answer.ret]
          /\ block_sizes' = [block_sizes EXCEPT ![req.index] = req.size]
          /\ Total(IF req.type = "ALLOC" THEN req.size ELSE req.size - block_sizes[req.index])
          /\ UNCHANGED <<traceVars, phase, p, ranges, libc, runs, verdicts, status>>
      BY <1>8, <2>4 DEF UtilCall, NextOp
    <3>2. total_size' \in Int /\ max_total_size' \in Nat
      <4>1. block_sizes[req.index] \in Int /\ req.size \in Int /\ total_size \in Int /\ max_total_size \in Nat
        BY <1>000, <2>2, NeedFacts
      <4>2. total_size' \in Int /\ max_total_size' = Max({total_size', max_total_size})
        BY <3>1, <4>1 DEF Total
      <4>3. max_total_size' = IF total_size' >= max_total_size THEN total_size' ELSE max_total_size
        BY <4>1, <4>2, MaxOfTwo
      <4> QED
        BY <4>1, <4>2, <4>3
    <3>3. i' \in 0 .. Len(ops) + 1 /\ Answer.ret \in Nat
      BY <1>0, <2>1, <2>2, <3>1, ConstantFacts DEF Pointers, B
    <3>c. ControlTypes'
      BY <1>0, <2>1, <2>2, <3>1, <3>2, <3>3 DEF Types, ControlTypes, traceVars, verdicts
    <3>m. StoreTypes'
      BY <1>0, <2>1, <2>2, <3>1, <3>2, <3>3 DEF Types, StoreTypes, traceVars, verdicts
    <3>s. ScoreTypes'
      BY <1>0, <2>1, <2>2, <3>1, <3>2, <3>3 DEF Types, ScoreTypes, traceVars, verdicts
    <3> QED
      BY <3>c, <3>m, <3>s DEF Types
  <2> QED
    BY <2>3, <2>4
<1>9. CASE SpeedCall
  <2>1. Calls("speed") /\ req.type # "FREE" /\ phase = "speed" /\ i \in 1 .. Len(ops) /\ pkg = "mm"
    BY <1>9, SpeedCallKind DEF Calls
  <2>2. Answer.heap \in Heaps /\ Answer.ret \in Pointers /\ req.size \in Sizes /\ req.index \in Ids
    BY <2>1, AnswerType, AtRequest
  <2>3. CASE Die("app_error")
    <3>c. ControlTypes'
      BY <1>0, <2>3 DEF Types, ControlTypes, Die, traceVars, blockVars, utilVars, verdicts
    <3>m. StoreTypes'
      BY <1>0, <2>3 DEF Types, StoreTypes, Die, traceVars, blockVars, utilVars, verdicts
    <3>s. ScoreTypes'
      BY <1>0, <2>3 DEF Types, ScoreTypes, Die, traceVars, blockVars, utilVars, verdicts
    <3> QED
      BY <3>c, <3>m, <3>s DEF Types
  <2>4. CASE ~Die("app_error")
    <3>1. /\ heap' = Answer.heap /\ i' = i + 1
          /\ blocks' = [blocks EXCEPT ![req.index] = Answer.ret]
          /\ UNCHANGED <<traceVars, phase, block_sizes, p, ranges, libc, utilVars, runs, verdicts, status>>
      BY <1>9, <2>4 DEF SpeedCall, NextOp
    <3>3. i' \in 0 .. Len(ops) + 1 /\ Answer.ret \in Nat
      BY <1>0, <2>1, <2>2, <3>1, ConstantFacts DEF Pointers, B
    <3>c. ControlTypes'
      BY <1>0, <2>1, <2>2, <3>1, <3>3 DEF Types, ControlTypes, traceVars, utilVars, verdicts
    <3>m. StoreTypes'
      BY <1>0, <2>1, <2>2, <3>1, <3>3 DEF Types, StoreTypes, traceVars, utilVars, verdicts
    <3>s. ScoreTypes'
      BY <1>0, <2>1, <2>2, <3>1, <3>3 DEF Types, ScoreTypes, traceVars, utilVars, verdicts
    <3> QED
      BY <3>c, <3>m, <3>s DEF Types
  <2> QED
    BY <2>3, <2>4
<1>10. CASE SpeedReturns
  <2>1. /\ phase = "speed"
        /\ UNCHANGED <<files, blockVars, p, heap, ranges, libc, utilVars, verdicts, status>>
    BY <1>10 DEF SpeedReturns, Finished
  <2>2. CASE NextFile
    <3>1. /\ pkg' \in {"libc", "mm"} /\ phase' \in Phases /\ tracenum' \in Files
          /\ ops' \in Seq(Op) /\ i' \in 0 .. Len(ops') + 1 /\ runs' \in 0 .. Repeats - 1
          /\ pkg' = "mm" /\ phase' # "read" => pkg = "mm"
      BY <1>0, <2>1, <2>2, NextFileTypes
    <3>c. ControlTypes'
      BY <1>0, <2>1, <3>1 DEF Types, ControlTypes, blockVars, utilVars, verdicts
    <3>m. StoreTypes'
      BY <1>0, <2>1, <3>1 DEF Types, StoreTypes, blockVars, utilVars, verdicts
    <3>s. ScoreTypes'
      BY <1>0, <2>1, <3>1 DEF Types, ScoreTypes, blockVars, utilVars, verdicts
    <3> QED
      BY <3>c, <3>m, <3>s DEF Types
  <2>3. CASE ~NextFile
    <3>1. runs + 1 < Repeats /\ runs' = runs + 1 /\ i' = 0 /\ UNCHANGED <<traceVars, phase>>
      BY <1>10, <2>3 DEF SpeedReturns
    <3>2. runs' \in 0 .. Repeats - 1
      <4>1. runs \in Nat /\ Repeats \in Nat
        BY <1>000
      <4> QED
        BY <3>1, <4>1
    <3>c. ControlTypes'
      BY <1>0, <2>1, <3>1, <3>2 DEF Types, ControlTypes, traceVars, blockVars, utilVars, verdicts
    <3>m. StoreTypes'
      BY <1>0, <2>1, <3>1, <3>2 DEF Types, StoreTypes, traceVars, blockVars, utilVars, verdicts
    <3>s. ScoreTypes'
      BY <1>0, <2>1, <3>1, <3>2 DEF Types, ScoreTypes, traceVars, blockVars, utilVars, verdicts
    <3> QED
      BY <3>c, <3>m, <3>s DEF Types
  <2> QED
    BY <2>2, <2>3
<1>11. CASE LibcCall \/ LibcFree
  <2>1. /\ i \in 1 .. Len(ops) /\ i' = i + 1 /\ pkg = "libc"
        /\ UNCHANGED <<traceVars, phase, block_sizes, p, heap, ranges, utilVars, runs, verdicts, status>>
    BY <1>11 DEF LibcCall, LibcFree, At, NextOp, blockVars
  <2>2. req.index \in Ids
    BY <1>0, <2>1, OpType, TraceTypes DEF req
  <2>3. i' \in 0 .. Len(ops) + 1
    BY <1>0, <2>1
  <2>4. libc \subseteq Nat /\ IsFiniteSet(libc) /\ LibcBlock \in Nat
    BY <1>0, LibcBlockIsFree DEF Types, ControlTypes, StoreTypes, ScoreTypes
  <2>5. libc' \subseteq Nat /\ IsFiniteSet(libc') /\ blocks' \in [Ids -> Nat]
    <3>1. CASE LibcCall
      <4>1. PICK old : libc' = (libc \ old) \cup {LibcBlock} /\ blocks' = [blocks EXCEPT ![req.index] = LibcBlock]
        BY <3>1 DEF LibcCall
      <4>2. IsFiniteSet(libc \ old) /\ IsFiniteSet((libc \ old) \cup {LibcBlock})
        BY <2>4, FS_Difference, FS_AddElement
      <4> QED
        BY <1>0, <2>4, <4>1, <4>2 DEF Types, StoreTypes
    <3>2. CASE LibcFree
      <4>1. libc' = libc \ {blocks[req.index]} /\ blocks' = blocks
        BY <3>2 DEF LibcFree, blockVars
      <4>2. IsFiniteSet(libc \ {blocks[req.index]})
        BY <2>4, FS_RemoveElement
      <4> QED
        BY <1>0, <2>4, <4>1, <4>2 DEF Types, StoreTypes
    <3> QED
      BY <1>11, <3>1, <3>2
  <2>c. ControlTypes'
    BY <1>0, <2>1, <2>3, <2>5 DEF Types, ControlTypes, traceVars, utilVars, verdicts
  <2>m. StoreTypes'
    BY <1>0, <2>1, <2>3, <2>5 DEF Types, StoreTypes, traceVars, utilVars, verdicts
  <2>s. ScoreTypes'
    BY <1>0, <2>1, <2>3, <2>5 DEF Types, ScoreTypes, traceVars, utilVars, verdicts
  <2> QED
    BY <2>c, <2>m, <2>s DEF Types
<1>12. CASE LibcFails
  <2>c. ControlTypes'
    BY <1>0, <1>12 DEF Types, ControlTypes, LibcFails, traceVars, blockVars, utilVars
  <2>m. StoreTypes'
    BY <1>0, <1>12 DEF Types, StoreTypes, LibcFails, traceVars, blockVars, utilVars
  <2>s. ScoreTypes'
    <3>1. errors \in Nat /\ errors' \in {errors, errors + 1} /\ status' = "unix_error"
      BY <1>0, <1>12 DEF Types, ScoreTypes, LibcFails
    <3>2. errors' \in Nat
      BY <3>1
    <3> QED
      BY <1>0, <1>12, <3>1, <3>2 DEF Types, ScoreTypes, LibcFails, utilVars
  <2> QED
    BY <2>c, <2>m, <2>s DEF Types
<1>13. CASE Report
  <2>c. ControlTypes'
    BY <1>0, <1>13 DEF Types, ControlTypes, Report, traceVars, blockVars, utilVars, verdicts
  <2>m. StoreTypes'
    BY <1>0, <1>13 DEF Types, StoreTypes, Report, traceVars, blockVars, utilVars, verdicts
  <2>s. ScoreTypes'
    BY <1>0, <1>13 DEF Types, ScoreTypes, Report, traceVars, blockVars, utilVars, verdicts
  <2> QED
    BY <2>c, <2>m, <2>s DEF Types
<1>14. CASE Ended \/ UNCHANGED vars
  <2>c. ControlTypes'
    BY <1>0, <1>14 DEF Types, ControlTypes, Ended, vars, traceVars, blockVars, utilVars, verdicts
  <2>m. StoreTypes'
    BY <1>0, <1>14 DEF Types, StoreTypes, Ended, vars, traceVars, blockVars, utilVars, verdicts
  <2>s. ScoreTypes'
    BY <1>0, <1>14 DEF Types, ScoreTypes, Ended, vars, traceVars, blockVars, utilVars, verdicts
  <2> QED
    BY <2>c, <2>m, <2>s DEF Types
<1> QED
  BY <1>1, <1>2, <1>3, <1>4, <1>5, <1>6, <1>7, <1>8, <1>9, <1>10, <1>11, <1>12, <1>13, <1>14 DEF Next
-----------------------------------------------------------------------------
(* What the requests have taken.                                           *)

(* Only what eval_mm_valid accepted is measured.                           *)
LEMMA MeasuringSteps ==
    ASSUME IInv, [Next]_vars, pkg' = "mm", phase' \in {"util", "speed"}
    PROVE  \/ pkg = "mm" /\ phase \in {"util", "speed"} /\ ops' = ops
           \/ ValidReturns
<1>1. CASE UNCHANGED <<pkg, phase, ops>>
  BY <1>1
<1>2. CASE \E op \in Op : ReadLine(op)
  BY <1>2 DEF ReadLine
<1>3. CASE \E num_ids \in {0, MaxIndex(ops) + 1}, num_ops \in {Len(ops), Len(ops) + 1} :
             EndOfFile(num_ids, num_ops)
  BY <1>3 DEF EndOfFile
<1>4. CASE StartValid \/ StartUtil \/ StartSpeed \/ StartLibc
  BY <1>1, <1>4 DEF StartValid, StartUtil, StartSpeed, StartLibc, traceVars
<1>5. ~NextFile
  BY DEF NextFile
<1>6. CASE ValidCall
  BY <1>5, <1>6 DEF ValidCall, Reject
<1>7. CASE ValidFill
  BY <1>5, <1>7 DEF ValidFill, Reject
<1>8. CASE ValidFree \/ UtilFree \/ SpeedFree
  BY <1>1, <1>8 DEF ValidFree, UtilFree, SpeedFree, traceVars
<1>9. CASE UtilReturns
  BY <1>9 DEF UtilReturns, Finished, traceVars
<1>10. CASE UtilCall \/ SpeedCall
  BY <1>1, <1>10 DEF UtilCall, SpeedCall, Die, traceVars
<1>11. CASE SpeedReturns
  BY <1>1, <1>5, <1>11 DEF SpeedReturns, traceVars
<1>12. CASE LibcCall \/ LibcFails \/ LibcFree \/ LibcReturns
  BY <1>12 DEF LibcCall, LibcFails, LibcFree, LibcReturns, At, Finished, traceVars
<1>13. CASE Report \/ Ended \/ UNCHANGED vars
  BY <1>1, <1>13 DEF Report, Ended, vars, traceVars
<1> QED
  BY <1>2, <1>3, <1>4, <1>6, <1>7, <1>8, <1>9, <1>10, <1>11, <1>12, <1>13 DEF Next

(* What has been replayed to its end fits.                                 *)
LEMMA ReplayedFits ==
    ASSUME IInv, Replaying, Done = Len(ops)
    PROVE  FitsHeap(ops)
<1>1. /\ heap.brk = mem_start_brk + Taken(ops, Len(ops))
      /\ \A k \in Takers(ops) : k <= Len(ops) => Need(ops[k].size) < H
  BY DEF IInv, DemandInv, H
<1>2. ops \in Seq(Op) /\ Len(ops) \in Nat /\ DOMAIN ops = 1 .. Len(ops) /\ heap \in Heaps
  BY TraceTypes DEF IInv, Types, StoreTypes
<1>3. ASSUME NEW k \in DOMAIN ops PROVE Need(ops[k].size) < H
  <2>1. CASE ops[k].type # "FREE"
    BY <1>1, <1>2, <2>1 DEF Takers
  <2>2. CASE ops[k].type = "FREE"
    <3>1. ops[k].size = 0
      <4>1. ops[k] \in Op
        BY <1>2, ElementOfSeq
      <4> QED
        BY <2>2, <4>1 DEF Op
    <3>2. 0 + SIZE_T_SIZE = SIZE_T_SIZE /\ SIZE_T_SIZE \in Nat /\ SIZE_T_SIZE + ALIGNMENT - 1 < B
      BY HeaderFacts, ConstantFacts
    <3>3. ALIGN(SIZE_T_SIZE) \in Nat /\ ALIGN(SIZE_T_SIZE) <= SIZE_T_SIZE + ALIGNMENT - 1
      BY <3>2, AlignRounds
    <3>4. ALIGN(SIZE_T_SIZE) < H
      BY <3>2, <3>3, HeaderFacts, ConstantFacts
    <3> QED
      BY <3>1, <3>2, <3>4 DEF Need
  <2> QED
    BY <2>1, <2>2
<1>4. Demand(ops) <= MAX_HEAP
  <2>1. Demand(ops) = Taken(ops, Len(ops)) /\ Taken(ops, Len(ops)) \in Nat
    BY <1>2, DemandIsTaken, TakenType
  <2>2. heap.brk \in Int /\ heap.brk <= mem_start_brk + MAX_HEAP /\ mem_start_brk \in Nat /\ MAX_HEAP \in Nat
    BY <1>2, ConstantFacts DEF Heaps, mem_max_addr
  <2> QED
    BY <1>1, <2>1, <2>2
<1> QED
  BY <1>3, <1>4 DEF FitsHeap, Need, H

(* What fits has room for its next request.                                *)
LEMMA FitsHasRoom ==
    ASSUME IInv, NEW ph \in {"valid", "util", "speed"}, Calls(ph), req.type # "FREE", FitsHeap(ops)
    PROVE  Room(heap, req.size)
<1>1. Replaying /\ Done = i - 1 /\ i \in 1 .. Len(ops) /\ Len(ops) \in Nat
  BY AtRequest
<1>2. heap.brk = mem_start_brk + Taken(ops, i - 1)
  BY <1>1 DEF IInv, DemandInv
<1>3. ops \in Seq(Op) /\ DOMAIN ops = 1 .. Len(ops)
  BY TraceTypes DEF IInv
<1>4. Taken(ops, i) = Taken(ops, i - 1) + Need(req.size) /\ req.size \in Sizes
  BY <1>1, <1>3, TakenStep, OpType DEF req
<1>5. Taken(ops, i) <= Demand(ops)
  BY <1>1, <1>3, TakenGrows, DemandIsTaken
<1>6. Demand(ops) <= MAX_HEAP /\ Need(req.size) < H
  BY <1>1, <1>3 DEF FitsHeap, Need, H, req
<1>7. /\ Taken(ops, i - 1) \in Nat /\ Taken(ops, i) \in Nat /\ Demand(ops) \in Nat
      /\ Need(req.size) \in Nat
  BY <1>3, <1>4, TakenType, DemandIsTaken, NeedFacts
<1>8. mem_start_brk \in Nat /\ MAX_HEAP \in Nat /\ mem_max_addr = mem_start_brk + MAX_HEAP
  BY ConstantFacts DEF mem_max_addr
<1>9. heap.brk + Need(req.size) <= mem_max_addr
  BY <1>2, <1>4, <1>5, <1>6, <1>7, <1>8
<1> QED
  BY <1>6, <1>9 DEF Room

(* Every step keeps the break where the requests so far have moved it.     *)
LEMMA DemandInvStep ==
    ASSUME IInv, [Next]_vars PROVE DemandInv'
<1>0. /\ heap \in Heaps /\ DemandInv /\ ops \in Seq(Op)
      /\ heap.brk \in Nat /\ mem_start_brk \in Nat
  BY ConstantFacts DEF IInv, Types, ControlTypes, StoreTypes, Heaps
<1> DEFINE Grew(h, s, n) ==
             /\ h.brk = mem_start_brk + Taken(s, n)
             /\ \A k \in Takers(s) : k <= n => Need(s[k].size) < 2^(WordBits - 1)
<1>1. Replaying => Grew(heap, ops, Done)
  BY <1>0 DEF DemandInv
<1>2. ASSUME Replaying' PROVE Grew(heap', ops', Done')
  <2>1. CASE Take
    <3> DEFINE n  == Done'
               op == ops[n]
    <3>1. /\ n \in 1 .. Len(ops) /\ Done = n - 1 /\ op.size \in Sizes /\ op.type # "FREE"
          /\ Grew(heap, ops, Done) /\ ops' = ops
      BY <1>1, <2>1, TakeEffect DEF Take, GoesOn
    <3>2. heap'.brk = heap.brk + Need(op.size) /\ Need(op.size) < H
      BY <2>1 DEF Take, Grown, Room
    <3>3. Taken(ops, n) = Taken(ops, n - 1) + Need(op.size)
      BY <1>0, <3>1, TakenStep
    <3>4. Taken(ops, n - 1) \in Nat /\ Need(op.size) \in Nat /\ n \in Nat
      BY <1>0, <3>1, TakenType, NeedFacts
    <3>5. heap'.brk = mem_start_brk + Taken(ops, n)
      <4> HIDE DEF n
      <4> QED
        BY <1>0, <3>1, <3>2, <3>3, <3>4
    <3>6. ASSUME NEW k \in Takers(ops), k <= n PROVE Need(ops[k].size) < 2^(WordBits - 1)
      <4>1. k \in Nat
        BY <1>0, <3>6, TakersType
      <4>2. k <= n - 1 \/ k = n
        <5> HIDE DEF n
        <5> QED
          BY <3>4, <3>6, <4>1
      <4> QED
        BY <3>1, <3>2, <4>2 DEF H
    <3> QED
      BY <3>1, <3>5, <3>6
  <2>2. CASE Drop
    <3> DEFINE n == Done'
    <3>1. /\ n \in 1 .. Len(ops) /\ Done = n - 1 /\ ops[n].type = "FREE" /\ heap' = heap
          /\ Grew(heap, ops, Done) /\ ops' = ops
      BY <1>1, <2>2, DropEffect DEF Drop, GoesOn
    <3>2. Taken(ops, n) = Taken(ops, n - 1)
      BY <1>0, <3>1, TakenStep
    <3>3. ASSUME NEW k \in Takers(ops), k <= n PROVE k <= n - 1
      <4>1. k \in Nat /\ n \in Nat /\ k # n
        BY <1>0, <3>1, <3>3, TakersType DEF Takers
      <4> HIDE DEF n
      <4> QED
        BY <3>3, <4>1
    <3> QED
      BY <3>1, <3>2, <3>3
  <2>3. CASE Fill
    <3>1. Grew(heap, ops, Done) /\ ops' = ops /\ Done' = Done /\ heap'.brk = heap.brk
      BY <1>0, <1>1, <2>3 DEF Fill, GoesOn, memset, Heaps
    <3> QED
      BY <3>1
  <2>4. CASE Enter
    <3>1. ops' = ops /\ Done' = 0 /\ heap'.brk = mem_start_brk
      BY <1>0, <2>4 DEF Enter, Heaps
    <3>2. Taken(ops, 0) = 0 /\ \A k \in Takers(ops) : ~(k <= 0)
      BY <1>0, TakenAtStart, TakersType
    <3> QED
      BY <1>0, <3>1, <3>2
  <2>5. CASE Idle
    BY <1>1, <2>5 DEF Idle
  <2> QED
    BY <1>2, <2>1, <2>2, <2>3, <2>4, <2>5, StepKinds DEF Leave
<1>3. ASSUME pkg' = "mm", phase' \in {"util", "speed"} PROVE FitsHeap(ops')
  <2>1. CASE pkg = "mm" /\ phase \in {"util", "speed"} /\ ops' = ops
    BY <1>0, <2>1 DEF DemandInv
  <2>2. CASE ValidReturns
    <3>1. Replaying /\ Done = Len(ops) /\ ops' = ops
      <4>1. i = Len(ops) + 1 /\ Len(ops) \in Nat /\ phase = "valid" /\ pkg = "mm" /\ ops' = ops
        BY <2>2, TraceTypes DEF ValidReturns, Finished, traceVars, IInv
      <4> QED
        BY <4>1 DEF Replaying, Done, Pending
    <3> QED
      BY <3>1, ReplayedFits
  <2> QED
    BY <1>3, <2>1, <2>2, MeasuringSteps
<1> QED
  BY <1>2, <1>3 DEF DemandInv

(* eval_mm_util and eval_mm_speed never find the package failing.          *)
LEMMA NoAppError ==
    ASSUME IInv, [Next]_vars PROVE status' # "app_error"
<1>0. status # "app_error"
  BY DEF IInv
<1>1. ASSUME Die("app_error"), UtilCall \/ SpeedCall PROVE FALSE
  <2>1. PICK ph \in {"util", "speed"} : Calls(ph) /\ req.type # "FREE"
    BY <1>1, UtilCallKind, SpeedCallKind
  <2>2. Answer.ret = NULL
    <3>1. status' # status
      BY <1>0, <1>1 DEF Die
    <3> QED
      BY <1>1, <3>1 DEF UtilCall, SpeedCall
  <2> QED
    <3>1. FitsHeap(ops)
      BY <2>1 DEF Calls, IInv, DemandInv
    <3> QED
      BY <2>1, <2>2, <3>1, AnswerIs, FitsHasRoom
<1>2. CASE UtilCall \/ SpeedCall
  BY <1>0, <1>1, <1>2 DEF UtilCall, SpeedCall
<1>3. CASE \E num_ids, num_ops : EndOfFile(num_ids, num_ops)
  BY <1>0, <1>3 DEF EndOfFile
<1> QED
  BY <1>0, <1>2, <1>3 DEF Next, vars, ReadLine, StartValid, StartUtil, StartSpeed, StartLibc,
     ValidCall, ValidFill, ValidFree, UtilFree, SpeedFree, ValidReturns, UtilReturns,
     SpeedReturns, LibcCall, LibcFails, LibcFree, LibcReturns, Report, Ended
-----------------------------------------------------------------------------
(* The steps of eval_mm_valid.                                             *)
LEMMA CheckingSteps ==
    ASSUME IInv, [Next]_vars, Replaying', phase' \in {"valid", "fill"}
    PROVE  \/ StartValid
           \/ ValidCall /\ Take /\ phase' = "fill"
           \/ ValidFill /\ Fill /\ phase' = "valid"
           \/ ValidFree
           \/ UNCHANGED <<pkg, phase, i, ops, blocks, block_sizes, p, heap, ranges>>
<1>1. CASE \E op \in Op : ReadLine(op)
  BY <1>1 DEF ReadLine
<1>2. CASE \E num_ids, num_ops : EndOfFile(num_ids, num_ops)
  BY <1>2 DEF EndOfFile, Replaying
<1>3. CASE StartUtil \/ StartSpeed \/ StartLibc
  BY <1>3 DEF StartUtil, StartSpeed, StartLibc, Entered, traceVars, Replaying
<1>4. ~NextFile
  BY DEF NextFile
<1>5. CASE ValidCall
  BY <1>4, <1>5, ValidCallKind DEF Reject
<1>6. CASE ValidFill
  BY <1>4, <1>6, ValidFillKind DEF Reject
<1>7. CASE UtilFree \/ SpeedFree
  BY <1>7 DEF UtilFree, SpeedFree, At
<1>8. CASE ValidReturns \/ UtilReturns \/ LibcReturns
  BY <1>8 DEF ValidReturns, UtilReturns, LibcReturns
<1>9. CASE UtilCall \/ SpeedCall
  BY <1>9 DEF UtilCall, SpeedCall, Die, At
<1>10. CASE SpeedReturns
  BY <1>4, <1>10 DEF SpeedReturns, Finished
<1>11. CASE LibcCall \/ LibcFails \/ LibcFree
  BY <1>11 DEF LibcCall, LibcFails, LibcFree, At, traceVars, Replaying
<1>12. CASE Report \/ Ended \/ UNCHANGED vars
  BY <1>12 DEF Report, Ended, vars, traceVars, blockVars
<1> QED
  BY <1>1, <1>2, <1>3, <1>5, <1>6, <1>7, <1>8, <1>9, <1>10, <1>11, <1>12 DEF Next

(* No two blocks start at the same place.                                  *)
LEMMA LoDistinct ==
    ASSUME IInv, Replaying, NEW id \in Held, NEW id2 \in Held, Lo[id] = Lo[id2]
    PROVE  id = id2
<1>1. SUFFICES ASSUME id # id2 PROVE FALSE
  OBVIOUS
<1>2. /\ Placed(heap, Lo[id], Sz[id]) /\ Placed(heap, Lo[id2], Sz[id2])
      /\ Apart(Lo[id], Sz[id], Lo[id2], Sz[id2]) /\ heap \in Heaps
  BY <1>1 DEF IInv, LayoutInv, Types, StoreTypes
<1>3. Lo[id] \in Nat /\ Sz[id] \in Nat \ {0} /\ Sz[id2] \in Nat \ {0} /\ SIZE_T_SIZE \in Nat
  BY <1>2, PlacedFacts
<1> QED
  BY <1>2, <1>3 DEF Apart

(* Taking the range of a block off the list takes off that one only.       *)
LEMMA WithoutBlock ==
    ASSUME IInv, Replaying, phase \in {"valid", "fill"}, NEW id \in Held
    PROVE  LET rest == remove_range(ranges, Lo[id])
           IN  /\ rest \in Seq(Extents) /\ DistinctLo(rest)
               /\ \A x : x \in ToSet(rest) <=>
                    \E id2 \in Held \ {id} : x = Extent(Lo[id2], Sz[id2])
<1> DEFINE rest == remove_range(ranges, Lo[id])
<1>1. /\ ranges \in Seq(Extents) /\ DistinctLo(ranges)
      /\ \A x : x \in ToSet(ranges) <=> \E id2 \in Held : x = Extent(Lo[id2], Sz[id2])
  BY DEF IInv, Types, StoreTypes, RangesInv
<1>2. /\ rest \in Seq(Extents) /\ DistinctLo(rest)
      /\ \A x : x \in ToSet(rest) <=> x \in ToSet(ranges) /\ x.lo # Lo[id]
  BY <1>1, RemoveRange
<1> HIDE DEF rest
<1>3. \A id2 \in Held : Extent(Lo[id2], Sz[id2]).lo = Lo[id2]
  BY DEF Extent
<1>4. \A id2 \in Held : Lo[id2] = Lo[id] <=> id2 = id
  BY LoDistinct
<1> QED
  BY <1>1, <1>2, <1>3, <1>4 DEF rest

(* What is on the list when the new block of a request is added.           *)
ListLeft == IF req.type = "ALLOC" THEN ranges ELSE remove_range(ranges, blocks[req.index])

(* While eval_mm_valid has a request to check, its list holds the ranges   *)
(* of the other payloads.                                                  *)
LEMMA ListIsOfTheOthers ==
    ASSUME IInv, Calls("valid"), req.type # "FREE"
    PROVE  /\ ListLeft \in Seq(Extents) /\ DistinctLo(ListLeft)
           /\ \A x : x \in ToSet(ListLeft) <=>
                \E id \in Held \ {req.index} : x = Extent(Lo[id], Sz[id])
<1> DEFINE idx == req.index
<1>1. /\ Replaying /\ phase = "valid" /\ req.type \in {"ALLOC", "REALLOC"}
      /\ (req.type = "ALLOC" <=> idx \notin Held)
      /\ \A id \in Held : Lo[id] = blocks[id]
  BY AtRequest DEF Calls
<1>2. CASE req.type = "ALLOC"
  <2>1. /\ ranges \in Seq(Extents) /\ DistinctLo(ranges) /\ Held \ {idx} = Held
        /\ \A x : x \in ToSet(ranges) <=> \E id \in Held : x = Extent(Lo[id], Sz[id])
    BY <1>1, <1>2 DEF IInv, Types, StoreTypes, RangesInv
  <2> QED
    BY <1>2, <2>1 DEF ListLeft
<1>3. CASE req.type = "REALLOC"
  <2>1. idx \in Held /\ ListLeft = remove_range(ranges, Lo[idx])
    BY <1>1, <1>3 DEF ListLeft
  <2> HIDE DEF idx
  <2>2. /\ ListLeft \in Seq(Extents) /\ DistinctLo(ListLeft)
        /\ \A x : x \in ToSet(ListLeft) <=> \E id \in Held \ {idx} : x = Extent(Lo[id], Sz[id])
    BY <1>1, <2>1, WithoutBlock
  <2> QED
    BY <2>2 DEF idx
<1> QED
  BY <1>1, <1>2, <1>3

(* Every step keeps the list of ranges that of the live payloads.          *)
LEMMA RangesInvStep ==
    ASSUME IInv, [Next]_vars PROVE RangesInv'
<1>1. SUFFICES ASSUME Replaying', phase' \in {"valid", "fill"}
               PROVE  /\ \A x : x \in ToSet(ranges)' <=> \E id \in Held' : x = Extent(Lo'[id], Sz'[id])
                      /\ DistinctLo(ranges')
  <2>1. \A x : (\E id \in Held' : x = Extent(Lo'[id], Sz'[id]))
                <=> x \in {Extent(Lo'[id], Sz'[id]) : id \in Held'}
    OBVIOUS
  <2> QED
    BY <2>1 DEF RangesInv
<1>2. CASE StartValid
  <2>1. ranges' = <<>> /\ Held' = {}
    BY <1>2, StartKind, EnterEffect DEF StartValid
  <2>2. ToSet(<<>>) = {} /\ Len(<<>>) = 0
    BY DEF ToSet
  <2> QED
    BY <2>1, <2>2 DEF DistinctLo
<1>3. CASE ValidCall /\ Take /\ phase' = "fill"
  <2> DEFINE idx   == req.index
             list  == IF req.type = "ALLOC" THEN ranges ELSE remove_range(ranges, blocks[idx])
             range == Extent(Answer.ret, req.size)
  <2>1. Calls("valid") /\ req.type # "FREE"
    BY <1>3, ValidCallKind
  <2>2. /\ Replaying /\ phase = "valid" /\ ~Pending /\ idx \in Ids /\ req.size \in Sizes /\ Done = i - 1
        /\ req.type \in {"ALLOC", "REALLOC"} /\ (req.type = "ALLOC" <=> idx \notin Held)
        /\ i \in 1 .. Len(ops) /\ Len(ops) \in Nat
        /\ \A id \in Held : Lo[id] = blocks[id] /\ Placed(heap, Lo[id], Sz[id])
    BY <2>1, AtRequest DEF Calls
  <2>3. ranges' = <<range>> \o list /\ Answer.ret \in Pointers /\ Answer.ret # NULL
    <3>1. ~NextFile
      BY <1>3 DEF NextFile
    <3> QED
      BY <1>3, <2>1, <3>1, AnswerType DEF ValidCall, Reject
  <2>4. /\ list \in Seq(Extents) /\ DistinctLo(list)
        /\ \A x : x \in ToSet(list) <=> \E id \in Held \ {idx} : x = Extent(Lo[id], Sz[id])
    BY <2>1, ListIsOfTheOthers DEF ListLeft
  <2>5. range \in Extents
    BY <2>2, <2>3, ExtentType
  <2> HIDE DEF list
  <2>6. /\ Done' = i /\ ops[Done'] = req
    BY <1>3, <2>2 DEF Take, req
  <2>7. /\ Held' = Held \cup {idx}
        /\ \A id \in Held' : /\ Lo'[id] = IF id = idx THEN heap.brk + SIZE_T_SIZE ELSE Lo[id]
                             /\ Sz'[id] = IF id = idx THEN req.size ELSE Sz[id]
    BY <1>3, <2>6, TakeEffect
  <2>8. Answer.ret = heap.brk + SIZE_T_SIZE
    BY <2>1, <2>3, AnswerIs DEF Grown
  <2>9. range = Extent(Lo'[idx], Sz'[idx])
    BY <2>7, <2>8
  <2>10. \A id \in Held \ {idx} : Lo[id] # Answer.ret
    <3>1. ASSUME NEW id \in Held PROVE Lo[id] # Answer.ret
      <4>1. heap \in Heaps /\ Placed(heap, Lo[id], Sz[id])
        BY <2>2 DEF IInv, Types, StoreTypes
      <4>2. /\ Lo[id] \in Nat /\ Sz[id] \in Nat /\ heap.brk \in Nat /\ SIZE_T_SIZE \in Nat \ {0}
            /\ Lo[id] + Sz[id] <= heap.brk
        BY <4>1, PlacedFacts
      <4> QED
        BY <2>8, <4>2
    <3> QED
      BY <3>1
  <2>11. \A x \in ToSet(list) : x.lo # range.lo
    BY <2>4, <2>10 DEF Extent
  <2>12. /\ \A x : x \in ToSet(ranges') <=> x = range \/ x \in ToSet(list)
         /\ DistinctLo(ranges')
    BY <2>3, <2>4, <2>5, <2>11, PushRange
  <2>13. ASSUME NEW x PROVE x \in ToSet(ranges') <=> \E id \in Held' : x = Extent(Lo'[id], Sz'[id])
    <3>1. \A id \in Held' : id # idx => id \in Held \ {idx} /\ Extent(Lo'[id], Sz'[id]) = Extent(Lo[id], Sz[id])
      BY <2>7
    <3>2. \A id \in Held \ {idx} : id \in Held'
      BY <2>7
    <3>3. idx \in Held'
      BY <2>7
    <3> HIDE DEF idx, range
    <3> QED
      BY <2>4, <2>9, <2>12, <3>1, <3>2, <3>3
  <2> QED
    BY <2>12, <2>13
<1>4. CASE ValidFill /\ Fill /\ phase' = "valid"
  <2>1. Held' = Held /\ Lo' = Lo /\ Sz' = Sz /\ ranges' = ranges
    BY <1>4, SameHeld DEF Fill, GoesOn, ValidFill
  <2>2. Replaying /\ phase = "fill"
    BY <1>4 DEF Fill, GoesOn, ValidFill
  <2> QED
    BY <2>1, <2>2 DEF IInv, RangesInv
<1>5. CASE ValidFree
  <2>1. Drop /\ Calls("valid") /\ req.type = "FREE"
    BY <1>5, FreeKind DEF ValidFree, At
  <2>2. /\ Replaying /\ phase = "valid" /\ Done = i - 1 /\ i \in 1 .. Len(ops) /\ Len(ops) \in Nat
        /\ \A id \in Held : Lo[id] = blocks[id]
    BY <2>1, AtRequest DEF Calls
  <2>3. Done' = i /\ ops[Done'] = req
    BY <2>1, <2>2 DEF Drop, req
  <2>4. /\ req.index \in Held /\ Held' = Held \ {req.index}
        /\ \A id \in Held' : Lo'[id] = Lo[id] /\ Sz'[id] = Sz[id]
    BY <2>1, <2>3, DropEffect
  <2>5. ranges' = remove_range(ranges, Lo[req.index])
    BY <1>5, <2>2, <2>4 DEF ValidFree
  <2> QED
    BY <2>2, <2>4, <2>5, WithoutBlock
<1>6. CASE UNCHANGED <<pkg, phase, i, ops, blocks, block_sizes, p, heap, ranges>>
  <2>1. Held' = Held /\ Lo' = Lo /\ Sz' = Sz /\ ranges' = ranges /\ Replaying /\ phase' = phase
    BY <1>1, <1>6 DEF Held, Lo, Sz, Done, Pending, Replaying, req
  <2> QED
    BY <1>1, <2>1 DEF IInv, RangesInv
<1> QED
  BY <1>1, <1>2, <1>3, <1>4, <1>5, <1>6, CheckingSteps
-----------------------------------------------------------------------------
(* What the client finds in its blocks.                                    *)
LEMMA HeldFacts ==
    ASSUME IInv, Done \in 0 .. Len(ops)
    PROVE  /\ IsFiniteSet(Held) /\ Held \subseteq Ids
           /\ \A id \in Held : Sz[id] \in Sizes /\ Sz[id] \in Nat \ {0}
<1>1. ops \in Seq(Op)
  BY TraceTypes DEF IInv
<1>2. IsFiniteSet(Held) /\ Held \subseteq Ids
  BY <1>1, LiveFinite DEF Held, LiveIn
<1>3. ASSUME NEW id \in Held PROVE Sz[id] \in Sizes /\ Sz[id] \in Nat \ {0}
  <2>1. SizeIn(ops, Done, id) \in Sizes
    BY <1>1, <1>3, SizeType DEF Held
  <2>2. Sz[id] \in Sizes
    BY <1>3, <2>1 DEF Sz
  <2> QED
    BY <2>2, NeedFacts
<1> QED
  BY <1>2, <1>3

(* What a block holds stays when the heap grows.                           *)
LEMMA GrownStaysFilled ==
    ASSUME NEW h \in Heaps, NEW new, NEW size \in Sizes, Grown(h, new, size),
           NEW lo, NEW n, NEW id, Placed(h, lo, n), Filled(h, lo, n, id)
    PROVE  Filled(new.heap, lo, n, id)
<1>1. \A k \in 0 .. n - 1 : lo + k \in HeapAddr /\ lo + k < h.brk
  BY PlacedFacts
<1>2. \A k \in 0 .. n - 1 : new.heap.mem[lo + k] = h.mem[lo + k]
  BY <1>1 DEF Grown
<1> QED
  BY <1>2 DEF Filled

(* Every step keeps the live payloads filled with the bytes of their ids.  *)
LEMMA FilledInvStep ==
    ASSUME IInv, [Next]_vars PROVE FilledInv'
<1>1. SUFFICES ASSUME Replaying', phase' \in {"valid", "fill"} PROVE FilledInv'
  BY DEF FilledInv
<1>0. heap \in Heaps /\ block_sizes \in [Ids -> {0} \cup Sizes] /\ FilledInv /\ LayoutInv
  BY DEF IInv, Types, StoreTypes
<1>2. CASE StartValid
  <2>1. Held' = {} /\ ~Pending'
    BY <1>2, StartKind, EnterEffect
  <2> QED
    BY <2>1 DEF FilledInv
<1>3. CASE ValidCall /\ Take /\ phase' = "fill"
  <2> DEFINE idx == req.index
             new == [heap |-> heap', ret |-> heap.brk + SIZE_T_SIZE]
  <2>1. Calls("valid") /\ req.type # "FREE"
    BY <1>3, ValidCallKind
  <2>2. /\ Replaying /\ phase = "valid" /\ ~Pending /\ idx \in Ids /\ req.size \in Sizes /\ Done = i - 1
        /\ req.type \in {"ALLOC", "REALLOC"} /\ (req.type = "ALLOC" <=> idx \notin Held)
        /\ i \in 1 .. Len(ops) /\ Len(ops) \in Nat
        /\ \A id \in Held : Placed(heap, Lo[id], Sz[id])
    BY <2>1, AtRequest DEF Calls
  <2>3. p' = Answer.ret /\ i' = i /\ ops' = ops /\ block_sizes' = block_sizes
    <3>1. ~NextFile
      BY <1>3 DEF NextFile
    <3> QED
      BY <1>3, <3>1 DEF ValidCall, Reject, traceVars, blockVars
  <2>4. Done' = i /\ ops[Done'] = req /\ Pending' /\ req' = req
    BY <1>3, <2>2, <2>3 DEF Take, req, Pending
  <2>5. /\ Held' = Held \cup {idx}
        /\ \A id \in Held' : /\ Lo'[id] = IF id = idx THEN heap.brk + SIZE_T_SIZE ELSE Lo[id]
                             /\ Sz'[id] = IF id = idx THEN req.size ELSE Sz[id]
    BY <1>3, <2>4, TakeEffect
  <2>6. /\ Grown(heap, new, req.size)
        /\ req.type = "REALLOC" => Carried(heap, new, Lo[idx], Sz[idx], req.size)
    BY <1>3, <2>4 DEF Take
  <2>7. p' = new.ret
    <3>1. Answer.ret # NULL
      <4>1. ~NextFile
        BY <1>3 DEF NextFile
      <4> QED
        BY <1>3, <4>1 DEF ValidCall, Reject
    <3> QED
      BY <2>1, <2>3, <3>1, AnswerIs DEF Grown
  <2>8. \A id \in Held : block_sizes[id] = Sz[id] /\ Filled(heap, Lo[id], Sz[id], id)
    BY <1>0, <2>2 DEF FilledInv
  <2>9. ASSUME NEW id \in Held', id # idx
        PROVE  block_sizes'[id] = Sz'[id] /\ Filled(heap', Lo'[id], Sz'[id], id)
    <3>1. id \in Held /\ Lo'[id] = Lo[id] /\ Sz'[id] = Sz[id]
      BY <2>5, <2>9
    <3>2. Filled(new.heap, Lo[id], Sz[id], id)
      <4> HIDE DEF new
      <4> QED
        BY <1>0, <2>2, <2>6, <2>8, <3>1, GrownStaysFilled
    <3> QED
      BY <2>3, <2>8, <3>1, <3>2
  <2>10. ASSUME req.type = "REALLOC"
         PROVE  /\ block_sizes[idx] \in Sizes
                /\ \A k \in 0 .. req.size - 1 :
                     k < block_sizes[idx] => heap'.mem[p' + k] = LowByte(idx)
    <3>1. idx \in Held /\ block_sizes[idx] = Sz[idx] /\ Filled(heap, Lo[idx], Sz[idx], idx)
      BY <2>2, <2>8, <2>10
    <3>2. Sz[idx] \in Sizes
      BY <2>2, <3>1 DEF Placed
    <3>3. Sz[idx] \in Nat /\ req.size \in Nat
      BY <2>2, <3>2, NeedFacts
    <3>4. ASSUME NEW k \in 0 .. req.size - 1, k < Sz[idx] PROVE heap'.mem[p' + k] = LowByte(idx)
      <4>1. heap'.mem[p' + k] = heap.mem[Lo[idx] + k]
        BY <2>6, <2>7, <2>10, <3>4 DEF Carried
      <4>2. k \in 0 .. Sz[idx] - 1
        BY <3>3, <3>4
      <4> QED
        BY <3>1, <4>1, <4>2 DEF Filled
    <3> QED
      BY <3>1, <3>2, <3>4
  <2> QED
    BY <2>3, <2>4, <2>9, <2>10 DEF FilledInv
<1>4. CASE ValidFill /\ Fill /\ phase' = "valid"
  <2> DEFINE idx == req.index
             c   == LowByte(idx)
  <2>1. /\ Replaying /\ Pending /\ idx \in Ids /\ req.size \in Sizes /\ idx \in Held
        /\ Lo[idx] = p /\ Sz[idx] = req.size
    BY <1>4, AtFill DEF ValidFill
  <2>2. /\ heap' = memset(heap, p, req.size, c)
        /\ block_sizes' = [block_sizes EXCEPT ![idx] = req.size]
    <3>1. ~NextFile
      BY <1>4 DEF NextFile
    <3> QED
      BY <1>4, <3>1 DEF ValidFill, Reject
  <2>3. Held' = Held /\ Lo' = Lo /\ Sz' = Sz /\ ~Pending'
    BY <1>4, SameHeld DEF Fill, GoesOn, Pending
  <2>4. c \in 0 .. B - 1 /\ Held \subseteq Ids
    BY <2>1, LowByteFits DEF Held, LiveIn
  <2>5. ASSUME NEW id \in Held
        PROVE  block_sizes'[id] = Sz[id] /\ Filled(heap', Lo[id], Sz[id], id)
    <3>1. /\ Placed(heap, Lo[idx], Sz[idx]) /\ Placed(heap, Lo[id], Sz[id])
          /\ id # idx => Apart(Lo[idx], Sz[idx], Lo[id], Sz[id])
      BY <1>0, <2>1 DEF LayoutInv
    <3>2. CASE id = idx
      <4>1. \A k \in 0 .. Sz[idx] - 1 : heap'.mem[Lo[idx] + k] = c
        BY <1>0, <2>1, <2>2, <2>4, <3>1, <3>2, MemsetKeeps
      <4> QED
        BY <1>0, <2>1, <2>2, <3>2, <4>1 DEF Filled
    <3>3. CASE id # idx
      <4>1. \A k \in 0 .. Sz[id] - 1 : heap'.mem[Lo[id] + k] = heap.mem[Lo[id] + k]
        BY <1>0, <2>1, <2>2, <2>4, <3>1, <3>3, MemsetKeeps
      <4>2. block_sizes[id] = Sz[id] /\ Filled(heap, Lo[id], Sz[id], id)
        BY <1>0, <1>4, <2>1, <3>3 DEF FilledInv, ValidFill
      <4>3. block_sizes'[id] = block_sizes[id]
        BY <1>0, <2>2, <2>4, <3>3
      <4> QED
        BY <4>1, <4>2, <4>3 DEF Filled
    <3> QED
      BY <3>2, <3>3
  <2> QED
    BY <2>3, <2>5 DEF FilledInv
<1>5. CASE ValidFree
  <2>1. Drop /\ Calls("valid")
    BY <1>5, FreeKind DEF ValidFree, At
  <2>2. Replaying /\ ~Pending /\ phase = "valid" /\ phase' = "valid"
    BY <1>5, <2>1, AtRequest DEF Calls, ValidFree
  <2>3. Held' \subseteq Held /\ \A id \in Held' : Lo'[id] = Lo[id] /\ Sz'[id] = Sz[id]
    BY <2>1, DropEffect
  <2>4. heap' = heap /\ block_sizes' = block_sizes /\ ~Pending'
    BY <1>5, <2>2 DEF ValidFree, mm_free, blockVars, Pending
  <2> QED
    BY <1>0, <2>2, <2>3, <2>4 DEF FilledInv
<1>6. CASE UNCHANGED <<pkg, phase, i, ops, blocks, block_sizes, p, heap, ranges>>
  <2>1. /\ Held' = Held /\ Lo' = Lo /\ Sz' = Sz /\ Replaying /\ Pending' = Pending /\ req' = req
        /\ UNCHANGED <<phase, block_sizes, p, heap>>
    BY <1>1, <1>6 DEF Held, Lo, Sz, Done, Pending, Replaying, req
  <2> QED
    BY <1>0, <1>1, <2>1 DEF FilledInv
<1> QED
  BY <1>1, <1>2, <1>3, <1>4, <1>5, <1>6, CheckingSteps
-----------------------------------------------------------------------------
(* The totals of eval_mm_util.                                             *)
LEMMA UtilSteps ==
    ASSUME IInv, [Next]_vars, Replaying', phase' = "util"
    PROVE  \/ StartUtil
           \/ UtilCall /\ Take
           \/ UtilFree
           \/ UNCHANGED <<pkg, phase, i, ops, blocks, block_sizes, p, heap, utilVars>>
<1>0. ~NextFile
  BY DEF NextFile
<1>1. CASE \E op \in Op : ReadLine(op)
  BY <1>1 DEF ReadLine
<1>2. CASE \E num_ids, num_ops : EndOfFile(num_ids, num_ops)
  BY <1>2 DEF EndOfFile, Replaying
<1>3. CASE StartValid \/ StartSpeed \/ StartLibc
  BY <1>3 DEF StartValid, StartSpeed, StartLibc, Entered, traceVars, Replaying
<1>4. CASE ValidCall \/ ValidFill
  BY <1>0, <1>4 DEF ValidCall, ValidFill, Reject
<1>5. CASE ValidFree \/ SpeedFree
  BY <1>5 DEF ValidFree, SpeedFree, At
<1>6. CASE ValidReturns \/ UtilReturns \/ LibcReturns
  BY <1>6 DEF ValidReturns, UtilReturns, LibcReturns, Replaying
<1>7. CASE UtilCall
  <2>1. CASE Die("app_error")
    BY <2>1 DEF Die, traceVars, blockVars
  <2> QED
    BY <1>7, <2>1, UtilCallKind
<1>8. CASE SpeedCall
  BY <1>8 DEF SpeedCall, Die, At
<1>9. CASE SpeedReturns
  BY <1>0, <1>9 DEF SpeedReturns, Finished
<1>10. CASE LibcCall \/ LibcFails \/ LibcFree
  BY <1>10 DEF LibcCall, LibcFails, LibcFree, At, traceVars, Replaying
<1>11. CASE Report \/ Ended \/ UNCHANGED vars
  BY <1>11 DEF Report, Ended, vars, traceVars, blockVars
<1> QED
  BY <1>1, <1>2, <1>3, <1>4, <1>5, <1>7, <1>8, <1>6, <1>9, <1>10, <1>11 DEF Next

(* The sum of the sizes after a request.                                   *)
LEMMA SumAfterTake ==
    ASSUME IInv, Done \in 0 .. Len(ops), NEW id \in Ids, NEW size \in Sizes,
           NEW held, held = Held \cup {id},
           NEW sz, \A id2 \in held : sz[id2] = IF id2 = id THEN size ELSE Sz[id2]
    PROVE  SumFunctionOnSet(sz, held) =
             SumFunctionOnSet(Sz, Held) + size - (IF id \in Held THEN Sz[id] ELSE 0)
<1>1. /\ IsFiniteSet(Held) /\ \A id2 \in Held : Sz[id2] \in Int
      /\ size \in Int /\ SumFunctionOnSet(Sz, Held) \in Int
  <2>1. IsFiniteSet(Held) /\ \A id2 \in Held : Sz[id2] \in Int
    BY HeldFacts
  <2> QED
    BY <2>1, SumType, NeedFacts
<1>2. CASE id \in Held
  <2>1. /\ held = Held /\ \A id2 \in Held : Sz[id2] \in Int /\ sz[id2] \in Int
        /\ \A id2 \in Held \ {id} : Sz[id2] = sz[id2]
    BY <1>1, <1>2
  <2>2. SumFunctionOnSet(sz, Held) = SumFunctionOnSet(Sz, Held) - Sz[id] + sz[id]
    BY <1>1, <1>2, <2>1, SumOneChanged
  <2>3. sz[id] = size /\ Sz[id] \in Int
    BY <1>1, <1>2
  <2> DEFINE total == SumFunctionOnSet(Sz, Held)
             v     == Sz[id]
  <2>4. total \in Int /\ v \in Int /\ SumFunctionOnSet(sz, held) = total - v + size
    BY <1>1, <2>1, <2>2, <2>3
  <2>5. (IF id \in Held THEN Sz[id] ELSE 0) = v
    BY <1>2
  <2> HIDE DEF total, v
  <2>6. SumFunctionOnSet(sz, held) = total + size - v
    BY <1>1, <2>4
  <2> QED
    BY <2>5, <2>6 DEF total
<1>3. CASE id \notin Held
  <2>1. IsFiniteSet(held) /\ held \ {id} = Held /\ id \in held
    BY <1>1, <1>3, FS_AddElement
  <2>2. \A id2 \in held : sz[id2] \in Int
    BY <1>1
  <2>3. SumFunctionOnSet(sz, held) = sz[id] + SumFunctionOnSet(sz, held \ {id})
    BY <2>1, <2>2, SumTakeOne
  <2>4. SumFunctionOnSet(sz, Held) = SumFunctionOnSet(Sz, Held)
    <3>1. \A id2 \in Held : sz[id2] = Sz[id2]
      BY <1>3
    <3> QED
      BY <1>1, <3>1, SumSameValues
  <2>5. sz[id] = size
    OBVIOUS
  <2> DEFINE total == SumFunctionOnSet(Sz, Held)
  <2>6. total \in Int /\ SumFunctionOnSet(sz, held) = size + total
    BY <1>1, <2>1, <2>3, <2>4, <2>5
  <2>7. (IF id \in Held THEN Sz[id] ELSE 0) = 0
    BY <1>3
  <2> HIDE DEF total
  <2>8. SumFunctionOnSet(sz, held) = total + size - 0
    BY <1>1, <2>6
  <2> QED
    BY <2>7, <2>8 DEF total
<1> QED
  BY <1>2, <1>3

(* Freeing a payload takes its size off the sum of the sizes.              *)
LEMMA SumAfterDrop ==
    ASSUME IInv, Done \in 0 .. Len(ops), NEW id \in Held,
           NEW held, held = Held \ {id},
           NEW sz, \A id2 \in held : sz[id2] = Sz[id2]
    PROVE  SumFunctionOnSet(sz, held) = SumFunctionOnSet(Sz, Held) - Sz[id]
<1>1. /\ IsFiniteSet(Held) /\ \A id2 \in Held : Sz[id2] \in Int
      /\ SumFunctionOnSet(Sz, Held) \in Int /\ IsFiniteSet(held)
  <2>1. IsFiniteSet(Held) /\ \A id2 \in Held : Sz[id2] \in Int
    BY HeldFacts
  <2> QED
    BY <2>1, SumType, FS_RemoveElement
<1>2. SumFunctionOnSet(Sz, Held) = Sz[id] + SumFunctionOnSet(Sz, held)
  BY <1>1, SumTakeOne
<1>3. SumFunctionOnSet(sz, held) = SumFunctionOnSet(Sz, held) /\ SumFunctionOnSet(Sz, held) \in Int
  BY <1>1, SumSameValues, SumType
<1> QED
  BY <1>1, <1>2, <1>3

(* Every step keeps total_size the sum of the live sizes, and the maximum  *)
(* within the heap.                                                        *)
LEMMA UtilInvStep ==
    ASSUME IInv, [Next]_vars PROVE UtilInv'
<1>1. SUFFICES ASSUME Replaying', phase' = "util" PROVE UtilInv'
  BY DEF UtilInv
<1>0. /\ heap \in Heaps /\ block_sizes \in [Ids -> {0} \cup Sizes] /\ UtilInv
      /\ total_size \in Int /\ max_total_size \in Nat /\ heap.brk \in Nat /\ mem_start_brk \in Nat
  <2>1. /\ heap \in Heaps /\ block_sizes \in [Ids -> {0} \cup Sizes] /\ UtilInv
        /\ total_size \in Int /\ max_total_size \in Nat
    BY DEF IInv, Types, StoreTypes, ScoreTypes
  <2>2. heap.brk \in Nat /\ mem_start_brk \in Nat
    BY <2>1, ConstantFacts DEF Heaps
  <2> QED
    BY <2>1, <2>2
<1>2. CASE StartUtil
  <2>1. Held' = {} /\ total_size' = 0 /\ max_total_size' = 0 /\ heap'.brk = mem_start_brk
    BY <1>0, <1>2, StartKind, EnterEffect DEF StartUtil, Enter, Heaps
  <2>2. SumFunctionOnSet(Sz', {}) = 0
    BY SumOfZeros, FS_EmptySet
  <2> QED
    BY <1>0, <2>1, <2>2 DEF UtilInv, mem_heapsize
<1>3. CASE UtilCall /\ Take
  <2> DEFINE idx == req.index
  <2>1. Calls("util") /\ req.type # "FREE"
    BY <1>3, UtilCallKind
  <2>2. /\ Replaying /\ phase = "util" /\ idx \in Ids /\ req.size \in Sizes /\ Done = i - 1
        /\ Done \in 0 .. Len(ops) /\ i \in 1 .. Len(ops) /\ Len(ops) \in Nat
        /\ req.type \in {"ALLOC", "REALLOC"} /\ (req.type = "ALLOC" <=> idx \notin Held)
    BY <2>1, AtRequest DEF Calls
  <2>3. Done' = i /\ ops[Done'] = req
    BY <1>3, <2>2 DEF Take, req
  <2>4. /\ Held' = Held \cup {idx}
        /\ \A id \in Held' : Sz'[id] = IF id = idx THEN req.size ELSE Sz[id]
    BY <1>3, <2>3, TakeEffect
  <2>5. /\ \A id \in Held : block_sizes[id] = Sz[id]
        /\ total_size = SumFunctionOnSet(Sz, Held)
        /\ total_size <= max_total_size /\ max_total_size <= heap.brk - mem_start_brk
    BY <1>0, <2>2 DEF UtilInv, mem_heapsize
  <2> DEFINE old == IF req.type = "ALLOC" THEN 0 ELSE block_sizes[idx]
  <2>6. /\ block_sizes' = [block_sizes EXCEPT ![idx] = req.size]
        /\ Total(IF req.type = "ALLOC" THEN req.size ELSE req.size - block_sizes[idx])
    <3>1. ~Die("app_error")
      BY <1>3, <2>2 DEF Die, Take, Done, Pending
    <3> QED
      BY <1>3, <3>1 DEF UtilCall
  <2>7. old \in Nat /\ req.size \in Nat /\ old = IF idx \in Held THEN Sz[idx] ELSE 0
    <3>1. idx \in Held => Sz[idx] \in Nat
      BY <2>2, HeldFacts
    <3> QED
      BY <2>2, <2>5, <3>1, NeedFacts
  <2>8. total_size' = total_size + req.size - old
    <3>1. CASE req.type = "ALLOC"
      BY <1>0, <2>6, <2>7, <3>1 DEF Total
    <3>2. CASE req.type # "ALLOC"
      BY <1>0, <2>6, <2>7, <3>2 DEF Total
    <3> QED
      BY <3>1, <3>2
  <2> HIDE DEF old
  <2>9. total_size' = SumFunctionOnSet(Sz', Held')
    <3>1. SumFunctionOnSet(Sz', Held') =
            SumFunctionOnSet(Sz, Held) + req.size - (IF idx \in Held THEN Sz[idx] ELSE 0)
      <4> HIDE DEF idx
      <4> QED
        BY <2>2, <2>4, SumAfterTake
    <3> QED
      BY <2>5, <2>7, <2>8, <3>1
  <2>10. total_size' \in Int /\ max_total_size' = IF total_size' >= max_total_size THEN total_size' ELSE max_total_size
    <3>1. total_size' \in Int /\ max_total_size' = Max({total_size', max_total_size})
      BY <1>0, <2>6, <2>7, <2>8 DEF Total
    <3> QED
      BY <1>0, <3>1, MaxOfTwo
  <2>11. heap'.brk = heap.brk + Need(req.size) /\ Need(req.size) \in Nat /\ req.size <= Need(req.size)
    <3>1. heap'.brk = heap.brk + Need(req.size)
      BY <1>3, <2>3 DEF Take, Grown
    <3>2. /\ Need(req.size) \in Nat /\ req.size \in Nat /\ SIZE_T_SIZE \in Nat
          /\ req.size + SIZE_T_SIZE <= Need(req.size)
      BY <2>2, NeedFacts, HeaderFacts
    <3> QED
      BY <3>1, <3>2
  <2>12. total_size' <= max_total_size' /\ max_total_size' <= heap'.brk - mem_start_brk
    BY <1>0, <2>5, <2>7, <2>8, <2>10, <2>11
  <2>13. \A id \in Held' : block_sizes'[id] = Sz'[id]
    <3>1. Held' \subseteq Ids
      BY <2>2, <2>4, HeldFacts
    <3> QED
      BY <1>0, <2>4, <2>5, <2>6, <3>1
  <2> QED
    BY <2>9, <2>12, <2>13 DEF UtilInv, mem_heapsize
<1>4. CASE UtilFree
  <2> DEFINE idx == req.index
  <2>1. Drop /\ Calls("util") /\ req.type = "FREE"
    BY <1>4, FreeKind DEF UtilFree, At
  <2>2. /\ Replaying /\ phase = "util" /\ Done = i - 1 /\ Done \in 0 .. Len(ops)
        /\ i \in 1 .. Len(ops) /\ Len(ops) \in Nat
    BY <2>1, AtRequest DEF Calls
  <2>3. Done' = i /\ ops[Done'] = req
    BY <2>1, <2>2 DEF Drop, req
  <2>4. /\ idx \in Held /\ Held' = Held \ {idx}
        /\ \A id \in Held' : Sz'[id] = Sz[id]
    BY <2>1, <2>3, DropEffect
  <2>5. /\ \A id \in Held : block_sizes[id] = Sz[id]
        /\ total_size = SumFunctionOnSet(Sz, Held)
        /\ total_size <= max_total_size /\ max_total_size <= heap.brk - mem_start_brk
    BY <1>0, <2>2 DEF UtilInv, mem_heapsize
  <2>6. total_size' = total_size - Sz[idx] /\ block_sizes' = block_sizes
        /\ max_total_size' = max_total_size /\ heap' = heap
    BY <1>4, <2>4, <2>5 DEF UtilFree, mm_free, blockVars
  <2>7. Sz[idx] \in Nat
    BY <2>2, <2>4, HeldFacts
  <2> HIDE DEF idx
  <2>8. SumFunctionOnSet(Sz', Held') = SumFunctionOnSet(Sz, Held) - Sz[idx]
    BY <2>2, <2>4, SumAfterDrop
  <2>9. total_size' <= max_total_size'
    BY <1>0, <2>5, <2>6, <2>7
  <2> QED
    BY <2>4, <2>5, <2>6, <2>8, <2>9 DEF UtilInv, mem_heapsize
<1>5. CASE UNCHANGED <<pkg, phase, i, ops, blocks, block_sizes, p, heap, utilVars>>
  <2>1. /\ Held' = Held /\ Sz' = Sz /\ Replaying
        /\ UNCHANGED <<phase, block_sizes, heap, total_size, max_total_size>>
    BY <1>1, <1>5 DEF Held, Sz, Done, Pending, Replaying, utilVars
  <2> QED
    BY <1>0, <1>1, <2>1 DEF UtilInv
<1> QED
  BY <1>1, <1>2, <1>3, <1>4, <1>5, UtilSteps
-----------------------------------------------------------------------------
(* The blocks of libc.                                                     *)
LEMMA LibcInvStep ==
    ASSUME IInv, [Next]_vars PROVE LibcInv'
<1>1. SUFFICES ASSUME pkg' = "libc", phase' \in {"valid", "speed"}, i' > 0 PROVE LibcInv'
  BY DEF LibcInv
<1>0. /\ LibcInv /\ ops \in Seq(Op) /\ Len(ops) \in Nat /\ WellFormed(ops)
      /\ blocks \in [Ids -> Nat] /\ IsFiniteSet(libc)
  BY TraceTypes DEF IInv, Types, ControlTypes, StoreTypes, TraceInv
<1>2. CASE UNCHANGED <<pkg, phase, i, ops, blocks, libc>>
  <2>1. Held' = Held
    BY <1>2 DEF Held, Done, Pending
  <2> QED
    BY <1>0, <1>2, <2>1 DEF LibcInv
<1>3. CASE \E op \in Op : ReadLine(op)
  BY <1>1, <1>3 DEF ReadLine
<1>4. i' # 0
  BY <1>1
<1>5. CASE \E num_ids, num_ops : EndOfFile(num_ids, num_ops)
  BY <1>4, <1>5 DEF EndOfFile
<1>6. CASE StartLibc
  <2>1. Done' = 0 /\ ops' = ops
    BY <1>1, <1>6 DEF StartLibc, Entered, NextOp, Done, Pending, traceVars
  <2>2. Held' = {}
    BY <2>1, LiveAtStart DEF Held
  <2> QED
    BY <2>2 DEF LibcInv
<1>7. ASSUME NEW ph \in {"valid", "speed"}, At("libc", ph, req.type), NextOp,
             UNCHANGED <<traceVars, phase>>
      PROVE  /\ i \in 1 .. Len(ops) /\ Held = LiveIn(ops, i - 1) /\ Held' = LiveIn(ops, i)
             /\ Held \subseteq Ids /\ Held' \subseteq Ids /\ req.index \in Ids
             /\ \A id \in Held : blocks[id] \in libc
             /\ \A id, id2 \in Held : id # id2 => blocks[id] # blocks[id2]
  <2>1. i \in 1 .. Len(ops) /\ pkg = "libc" /\ phase = ph /\ i' = i + 1 /\ ops' = ops /\ phase' = phase
    BY <1>7 DEF At, NextOp, traceVars
  <2>2. Done = i - 1 /\ Done' = i /\ i > 0
    BY <1>0, <2>1 DEF Done, Pending
  <2>3. Held = LiveIn(ops, i - 1) /\ Held' = LiveIn(ops, i)
    BY <2>1, <2>2 DEF Held
  <2>4. req.index \in Ids
    BY <1>0, <2>1, OpType DEF req
  <2> QED
    BY <1>0, <2>1, <2>2, <2>3, <2>4 DEF LibcInv, LiveIn
<1>8. CASE LibcCall
  <2> DEFINE idx == req.index
             old == IF req.type = "ALLOC" THEN {} ELSE {blocks[idx]}
  <2>1. PICK ph \in {"valid", "speed"}, type \in {"ALLOC", "REALLOC"} : At("libc", ph, type)
    BY <1>8 DEF LibcCall
  <2>2. /\ req.type = type /\ NextOp /\ UNCHANGED <<traceVars, phase>>
        /\ libc' = (libc \ old) \cup {LibcBlock}
        /\ blocks' = [blocks EXCEPT ![idx] = LibcBlock]
    BY <1>8, <2>1 DEF LibcCall, At
  <2>3. /\ i \in 1 .. Len(ops) /\ Held = LiveIn(ops, i - 1) /\ Held' = LiveIn(ops, i)
        /\ Held \subseteq Ids /\ Held' \subseteq Ids /\ idx \in Ids
        /\ \A id \in Held : blocks[id] \in libc
        /\ \A id, id2 \in Held : id # id2 => blocks[id] # blocks[id2]
    BY <1>7, <2>1, <2>2
  <2>4. (req.type = "ALLOC" <=> idx \notin Held) /\ Held' = Held \cup {idx}
    <3>1. req.type = "ALLOC" <=> idx \notin Held
      BY <1>0, <2>3 DEF WellFormed, req
    <3>2. Held' = Held \cup {idx}
      BY <1>0, <2>1, <2>2, <2>3, <3>1, LiveStep DEF req
    <3> QED
      BY <3>1, <3>2
  <2>5. LibcBlock \notin libc
    BY <1>0, LibcBlockIsFree
  <2>6. blocks'[idx] = LibcBlock /\ \A id \in Held' : id # idx => id \in Held /\ blocks'[id] = blocks[id]
    BY <1>0, <2>2, <2>3, <2>4
  <2>7. \A id \in Held : id # idx => blocks[id] \notin old
    BY <2>3, <2>4
  <2> HIDE DEF old, idx
  <2>8. \A id \in Held' : blocks'[id] \in libc'
    BY <2>2, <2>3, <2>6, <2>7
  <2>9. \A id, id2 \in Held' : id # id2 => blocks'[id] # blocks'[id2]
    BY <2>3, <2>5, <2>6
  <2> QED
    BY <2>8, <2>9 DEF LibcInv
<1>9. CASE LibcFree
  <2> DEFINE idx == req.index
  <2>1. PICK ph \in {"valid", "speed"} : At("libc", ph, "FREE")
    BY <1>9 DEF LibcFree
  <2>2. /\ req.type = "FREE" /\ NextOp /\ UNCHANGED <<traceVars, phase>>
        /\ libc' = libc \ {blocks[idx]} /\ blocks' = blocks
    BY <1>9, <2>1 DEF LibcFree, At, blockVars
  <2>3. /\ i \in 1 .. Len(ops) /\ Held = LiveIn(ops, i - 1) /\ Held' = LiveIn(ops, i)
        /\ \A id \in Held : blocks[id] \in libc
        /\ \A id, id2 \in Held : id # id2 => blocks[id] # blocks[id2]
    BY <1>7, <2>1, <2>2
  <2>4. Held' = Held \ {idx} /\ idx \in Held
    BY <1>0, <2>2, <2>3, LiveStep DEF WellFormed, req
  <2> QED
    BY <2>2, <2>3, <2>4 DEF LibcInv
<1>10. CASE LibcFails
  BY <1>2, <1>10 DEF LibcFails, traceVars, blockVars
<1>11. CASE Report \/ Ended \/ UNCHANGED vars
  BY <1>2, <1>11 DEF Report, Ended, vars, traceVars, blockVars
<1>12. CASE LibcReturns \/ ValidReturns \/ UtilReturns
  BY <1>4, <1>12 DEF LibcReturns, ValidReturns, UtilReturns
<1>13. CASE SpeedReturns
  BY <1>4, <1>13 DEF SpeedReturns, NextFile
<1>14. ~NextFile
  BY <1>4 DEF NextFile
<1>15. pkg = "mm" => pkg' = "mm" \/ NextFile
  BY DEF NextFile, Next, vars, traceVars, ReadLine, EndOfFile, StartValid, StartUtil, StartSpeed, StartLibc,
     ValidCall, ValidFill, ValidFree, UtilFree, SpeedFree, ValidReturns, UtilReturns, UtilCall, SpeedCall,
     SpeedReturns, LibcCall, LibcFails, LibcFree, LibcReturns, Report, Ended, Reject, Die
<1>16. CASE StartValid \/ StartUtil \/ StartSpeed \/ ValidCall \/ ValidFree \/ UtilCall \/ UtilFree
            \/ SpeedCall \/ SpeedFree
  BY <1>1, <1>14, <1>15, <1>16 DEF StartValid, StartUtil, StartSpeed, Entered, ValidCall, ValidFree, UtilCall,
     UtilFree, SpeedCall, SpeedFree, At
<1>17. CASE ValidFill
  BY <1>1, <1>14, <1>15, <1>17 DEF ValidFill, IInv, TraceInv
<1> QED
  BY <1>3, <1>5, <1>6, <1>8, <1>9, <1>10, <1>11, <1>12, <1>13, <1>16, <1>17 DEF Next
-----------------------------------------------------------------------------
(* The parts of the invariant hold at the start.                           *)
LEMMA InitIInv ==
    ASSUME NoRequestWraps, Init PROVE IInv
<1>1. /\ phase = "read" /\ i = 0 /\ p = NULL /\ ops = <<>> /\ files = <<>> /\ tracenum = 1
      /\ status = "running"
  BY DEF Init
<1>2. Len(<<>>) = 0
  OBVIOUS
<1>3. Types
  <2>1. num_tracefiles \in Nat \ {0} /\ Repeats \in Nat \ {0}
    BY TraceAssumption
  <2>2. ControlTypes
    <3>1. 1 \in Files /\ 0 \in 0 .. Repeats - 1
      BY <2>1 DEF Files
    <3> QED
      BY <1>2, <3>1 DEF Init, ControlTypes, Phases
  <2>3. /\ NULL \in Pointers /\ mem_start_brk \in mem_start_brk .. mem_max_addr
        /\ 0 \in 0 .. 2^WordBits - 1
    BY ConstantFacts DEF NULL, Pointers, B
  <2>4. heap \in Heaps
    BY <2>3 DEF Init, Heaps
  <2>5. blocks \in [Ids -> Nat] /\ block_sizes \in [Ids -> {0} \cup Sizes]
    BY DEF Init, NoTrace
  <2>6. IsFiniteSet({})
    BY FS_EmptySet
  <2>7. StoreTypes
    BY <1>1, <2>3, <2>4, <2>5, <2>6 DEF Init, StoreTypes
  <2>8. ScoreTypes
    BY DEF Init, ScoreTypes
  <2> QED
    BY <2>2, <2>7, <2>8 DEF Types
<1>4. TraceInv
  <2>1. num_tracefiles \in Nat \ {0}
    BY TraceAssumption
  <2> QED
    BY <1>1, <1>2, <2>1 DEF TraceInv, WellFormed
<1>5. ~Replaying
  BY <1>1 DEF Replaying
<1> QED
  BY <1>1, <1>3, <1>4, <1>5 DEF IInv, LayoutInv, DemandInv, RangesInv, FilledInv, UtilInv, LibcInv

(* They hold in every reachable state of the driver.                       *)
LEMMA MdriverInvariant == ASSUME NoRequestWraps PROVE Spec => []IInv
<1>1. IInv /\ [Next]_vars => IInv'
  BY TypesStep, TraceInvStep, LayoutInvStep, DemandInvStep, RangesInvStep, FilledInvStep,
     UtilInvStep, LibcInvStep, NoAppError DEF IInv
<1> QED
  BY InitIInv, <1>1, PTL DEF Spec
-----------------------------------------------------------------------------
(* mem_sbrk refuses a negative increment ("heap cannot be shrunk") and one *)
(* that does not fit, by comparing the sum after the addition.  It keeps   *)
(* the break where it was or above, and in the region, exactly when the    *)
(* sum does not wrap; a sum that wraps is accepted, and shrinks the heap.  *)
THEOREM SbrkKeepsRegion ==
    ASSUME NEW brk \in mem_start_brk .. mem_max_addr, NEW incr \in -H .. H - 1
    PROVE  mem_sbrk(brk, incr).brk \in brk .. mem_max_addr <=> brk + incr < B
<1>0. /\ brk \in Nat /\ brk <= mem_max_addr /\ mem_max_addr \in Nat /\ mem_max_addr < B
      /\ H \in Nat /\ B = 2 * H /\ B \in Nat \ {0} /\ incr \in Int /\ incr < H
  BY ConstantFacts
<1>1. CASE incr < 0
  <2>1. mem_sbrk(brk, incr).brk = brk
    BY <1>1 DEF mem_sbrk
  <2> QED
    BY <1>0, <1>1, <2>1
<1>2. CASE incr >= 0 /\ brk + incr < B
  <2>1. Word(brk + incr) = brk + incr
    BY <1>0, <1>2, ModBelow DEF Word, B
  <2>2. mem_sbrk(brk, incr).brk =
          IF brk + incr > mem_max_addr THEN brk ELSE brk + incr
    BY <1>0, <1>2, <2>1 DEF mem_sbrk
  <2> QED
    BY <1>0, <1>2, <2>2
<1>3. CASE incr >= 0 /\ brk + incr >= B
  <2>1. Word(brk + incr) = brk + incr - B
    <3> DEFINE y == brk + incr
               r == brk + incr - B
    <3>1. y \in Int /\ r \in 0 .. B - 1 /\ y = B * 1 + r /\ 1 \in Int /\ B \in Nat \ {0}
      BY <1>0, <1>3
    <3> HIDE DEF y, r
    <3>2. r = y % B
      BY <3>1, DivModUnique
    <3> QED
      BY <3>2 DEF y, r, Word, B
  <2>2. brk + incr - B < brk /\ brk + incr - B <= mem_max_addr
    BY <1>0, <1>3
  <2>3. mem_sbrk(brk, incr).brk = brk + incr - B
    BY <1>0, <1>3, <2>1, <2>2 DEF mem_sbrk
  <2> QED
    BY <1>0, <1>3, <2>2, <2>3
<1> QED
  BY <1>0, <1>1, <1>2, <1>3

(* main and its helpers keep every variable within its type: the break     *)
(* stays within the region, where no request's sum wraps (which mem_sbrk   *)
(* does not check), for the sizes that are negative as an int as well.     *)
THEOREM TypesHold == ASSUME NoRequestWraps PROVE Spec => []TypeOK
<1>1. IInv => TypeOK
  <2>1. SUFFICES ASSUME IInv PROVE TypeOK
    OBVIOUS
  <2>2. runs \in 0 .. Repeats
    <3>1. runs \in 0 .. Repeats - 1 /\ Repeats \in Nat
      BY <2>1, TraceAssumption DEF IInv, Types, ControlTypes
    <3> QED
      BY <3>1
  <2> QED
    BY <2>1, <2>2 DEF IInv, Types, ControlTypes, StoreTypes, ScoreTypes, TypeOK, Extents
<1> QED
  BY <1>1, MdriverInvariant, PTL

(* eval_mm_util and eval_mm_speed replay what eval_mm_valid has accepted,  *)
(* each time on an empty heap: the package never fails there.              *)
THEOREM AcceptedTracesReplay == ASSUME NoRequestWraps PROVE Spec => []ReplaysSucceed
<1>1. IInv => ReplaysSucceed
  BY DEF IInv, ReplaysSucceed
<1> QED
  BY <1>1, MdriverInvariant, PTL

(* No pointer of an earlier replay is given to free or realloc.            *)
THEOREM OnlyLiveIsFreed == ASSUME NoRequestWraps PROVE Spec => []FreesWhatIsLive
<1>1. ASSUME IInv PROVE FreesWhatIsLive
  <2>1. SUFFICES ASSUME Running, i \in 1 .. Len(ops), phase \in {"valid", "util", "speed"},
                        req.type \in {"REALLOC", "FREE"}
                 PROVE  IF pkg = "libc" THEN blocks[req.index] \in libc
                        ELSE blocks[req.index] \in mem_heap_lo .. mem_heap_hi(heap.brk)
    BY DEF FreesWhatIsLive
  <2>2. CASE pkg = "libc"
    <3>1. Done = i - 1 /\ i > 0 /\ phase \in {"valid", "speed"}
      BY <1>1, <2>1, <2>2, TraceTypes DEF Done, Pending, IInv, TraceInv
    <3>2. req.index \in Held
      BY <1>1, <2>1, <3>1 DEF IInv, TraceInv, WellFormed, Held, req
    <3> QED
      BY <1>1, <2>2, <3>1, <3>2 DEF IInv, LibcInv
  <2>3. CASE pkg = "mm"
    <3>1. Calls(phase)
      BY <2>1, <2>3 DEF Calls
    <3>2. /\ req.index \in Held /\ Lo[req.index] = blocks[req.index]
          /\ Placed(heap, Lo[req.index], Sz[req.index])
      BY <1>1, <2>1, <3>1, AtRequest
    <3> DEFINE lo == Lo[req.index]
               n  == Sz[req.index]
    <3>3. heap \in Heaps
      BY <1>1 DEF IInv, Types, StoreTypes
    <3>4. /\ lo \in Nat /\ n \in Nat \ {0} /\ heap.brk \in Nat /\ SIZE_T_SIZE \in Nat
          /\ mem_start_brk \in Nat \ {0} /\ mem_start_brk + SIZE_T_SIZE <= lo /\ lo + n <= heap.brk
          /\ heap.brk <= mem_max_addr /\ mem_max_addr \in Nat /\ mem_max_addr < B - 1
      BY <3>2, <3>3, PlacedFacts
    <3> HIDE DEF lo, n
    <3>5. heap.brk - 1 \in Nat /\ heap.brk - 1 < B /\ lo <= heap.brk - 1 /\ mem_start_brk <= lo
      BY <3>4, ConstantFacts
    <3>6. mem_heap_hi(heap.brk) = heap.brk - 1
      BY <3>5, ModBelow, ConstantFacts DEF mem_heap_hi, Word, B
    <3>7. blocks[req.index] = lo
      BY <3>2 DEF lo
    <3>8. lo \in mem_heap_lo .. mem_heap_hi(heap.brk)
      BY <3>4, <3>5, <3>6 DEF mem_heap_lo
    <3>9. pkg # "libc"
      BY <2>3
    <3> QED
      BY <3>7, <3>8, <3>9
  <2> QED
    BY <1>1, <2>2, <2>3 DEF IInv, Types, ControlTypes
<1> QED
  BY <1>1, MdriverInvariant, PTL

(* Between two requests of eval_mm_util the total is that of the payloads  *)
(* allocated, and the utilization is at most one.                          *)
THEOREM TotalsAreRight == ASSUME NoRequestWraps PROVE Spec => []UtilizationBounded
<1>1. ASSUME IInv PROVE UtilizationBounded
  <2>1. SUFFICES ASSUME OnMm, phase = "util"
                 PROVE  /\ total_size = SumFunction([id \in Live |-> Size(id)])
                        /\ max_total_size >= total_size
                        /\ max_total_size <= mem_heapsize(heap.brk)
    BY DEF UtilizationBounded
  <2>2. Replaying /\ Done = i - 1
    BY <2>1 DEF OnMm, Replaying, Done, Pending
  <2>3. Live = Held /\ \A id : Size(id) = SizeIn(ops, i - 1, id)
    BY <2>2 DEF Live, LiveAfter, Held, LiveIn, Size, SizeIn
  <2>4. [id \in Live |-> Size(id)] = Sz
    BY <2>2, <2>3 DEF Sz
  <2>5. SumFunction([id \in Live |-> Size(id)]) = SumFunctionOnSet(Sz, Held)
    BY <2>4 DEF SumFunction, Sz
  <2>6. /\ total_size = SumFunctionOnSet(Sz, Held) /\ total_size <= max_total_size
        /\ max_total_size <= mem_heapsize(heap.brk)
    BY <1>1, <2>1, <2>2 DEF IInv, UtilInv
  <2>7. total_size \in Int /\ max_total_size \in Nat
    BY <1>1 DEF IInv, Types, ScoreTypes
  <2>8. max_total_size >= total_size
    BY <2>6, <2>7
  <2> QED
    BY <2>5, <2>6, <2>8
<1> QED
  BY <1>1, MdriverInvariant, PTL

(* The range list has one entry for each payload allocated.                *)
LEMMA RangesCount ==
    ASSUME IInv, Replaying, phase \in {"valid", "fill"}
    PROVE  Len(ranges) = Cardinality(Held)
<1>1. ranges \in Seq(Extents) /\ DistinctLo(ranges)
      /\ \A x : x \in ToSet(ranges) <=> \E id \in Held : x = Extent(Lo[id], Sz[id])
  BY DEF IInv, Types, StoreTypes, RangesInv
<1>2. Len(ranges) \in Nat /\ \A x : x \in ToSet(ranges) <=> \E k \in 1 .. Len(ranges) : ranges[k] = x
  BY <1>1, LenProperties, InToSet
<1> DEFINE n == Len(ranges)
           f == [k \in 1 .. n |-> CHOOSE id \in Held : Lo[id] = ranges[k].lo]
<1>3. \A id : Extent(Lo[id], Sz[id]).lo = Lo[id]
  BY DEF Extent
<1>4. \A k \in 1 .. n : f[k] \in Held /\ Lo[f[k]] = ranges[k].lo
  <2>1. ASSUME NEW k \in 1 .. n PROVE \E id \in Held : Lo[id] = ranges[k].lo
    <3>1. ranges[k] \in ToSet(ranges)
      BY <1>2
    <3>2. PICK id \in Held : ranges[k] = Extent(Lo[id], Sz[id])
      BY <1>1, <3>1
    <3> QED
      BY <1>3, <3>2
  <2> QED
    BY <2>1
<1>5. \A id \in Held : \E k \in 1 .. n : f[k] = id
  <2>1. SUFFICES ASSUME NEW id \in Held PROVE \E k \in 1 .. n : f[k] = id
    OBVIOUS
  <2>2. PICK k \in 1 .. n : ranges[k] = Extent(Lo[id], Sz[id])
    BY <1>1, <1>2
  <2>3. Lo[f[k]] = Lo[id]
    BY <1>3, <1>4, <2>2
  <2> QED
    BY <1>4, <2>3, LoDistinct
<1>6. \A j, k \in 1 .. n : f[j] = f[k] => j = k
  BY <1>1, <1>4 DEF DistinctLo
<1>7. f \in Bijection(1 .. n, Held)
  <2> HIDE DEF f
  <2>1. f \in [1 .. n -> Held]
    BY <1>4 DEF f
  <2> QED
    BY <1>5, <1>6, <2>1 DEF Bijection, Injection, Surjection, IsInjective
<1>8. IsFiniteSet(1 .. n) /\ Cardinality(1 .. n) = n
  <2> HIDE DEF n
  <2>1. n \in Nat /\ 1 \in Int /\ n \in Int
    BY <1>2 DEF n
  <2>2. IsFiniteSet(1 .. n) /\ Cardinality(1 .. n) = IF 1 > n THEN 0 ELSE n - 1 + 1
    BY <2>1, FS_Interval, Zenon
  <2> QED
    BY <2>1, <2>2
<1>9. Cardinality(Held) = Cardinality(1 .. n)
  BY <1>7, <1>8, FS_Bijection DEF ExistsBijection
<1> QED
  BY <1>8, <1>9

(* Between two requests of eval_mm_valid the list names exactly the        *)
(* payloads allocated, each once.                                          *)
THEOREM ListIsOfTheLive == ASSUME NoRequestWraps PROVE Spec => []RangesAreLive
<1>1. ASSUME IInv PROVE RangesAreLive
  <2>1. SUFFICES ASSUME OnMm, phase = "valid"
                 PROVE  /\ Len(ranges) = Cardinality(Live)
                        /\ ToSet(ranges) = {Extent(blocks[id], Size(id)) : id \in Live}
    BY DEF RangesAreLive
  <2>2. Replaying /\ Done = i - 1 /\ ~Pending
    BY <2>1 DEF OnMm, Replaying, Done, Pending
  <2>3. Live = Held /\ \A id : Size(id) = SizeIn(ops, i - 1, id)
    BY <2>2 DEF Live, LiveAfter, Held, LiveIn, Size, SizeIn
  <2>4. \A id \in Held : Lo[id] = blocks[id] /\ Sz[id] = Size(id)
    BY <2>2, <2>3 DEF Lo, Sz
  <2>5. ToSet(ranges) = {Extent(Lo[id], Sz[id]) : id \in Held}
    BY <1>1, <2>1, <2>2 DEF IInv, RangesInv
  <2>6. Len(ranges) = Cardinality(Held)
    BY <1>1, <2>1, <2>2, RangesCount
  <2> QED
    BY <2>3, <2>4, <2>5, <2>6
<1> QED
  BY <1>1, MdriverInvariant, PTL
-----------------------------------------------------------------------------
(* The refinement of Allocator.                                            *)

(* Owned, by the state of the replay.                                      *)
Payload(h, lo, n) == [lo |-> lo, data |-> [k \in 0 .. n - 1 |-> h.mem[lo + k]]]
Holds(id)         == Running /\ Replaying /\ id \in Held

(* The parts of a payload as Allocator sees it.                            *)
LEMMA PayloadFields ==
    ASSUME NEW h, NEW lo, NEW n
    PROVE  /\ Payload(h, lo, n).lo = lo /\ DOMAIN Payload(h, lo, n).data = 0 .. n - 1
           /\ \A k \in 0 .. n - 1 : Payload(h, lo, n).data[k] = h.mem[lo + k]
  BY DEF Payload

(* What the client of Allocator owns, in terms of heap and live ids.       *)
LEMMA OwnedIs ==
    IInv => Owned = [id \in Ids |-> IF Holds(id) THEN Payload(heap, Lo[id], Sz[id]) ELSE NoBlock]
<1> SUFFICES ASSUME IInv, NEW id \in Ids
             PROVE  Owned[id] = IF Holds(id) THEN Payload(heap, Lo[id], Sz[id]) ELSE NoBlock
  BY DEF Owned
<1>1. OnMm <=> Running /\ Replaying
  BY DEF OnMm, Replaying
<1>2. CASE phase = "fill"
  <2>1. /\ Done = i /\ i \in 1 .. Len(ops) /\ Len(ops) \in Nat /\ Pending /\ Replaying
        /\ req.type \in {"ALLOC", "REALLOC"} /\ req.index \in Held
        /\ Lo[req.index] = p /\ Sz[req.index] = req.size
    BY <1>2, AtFill
  <2>2. ops \in Seq(Op)
    BY TraceTypes DEF IInv
  <2>3. Live = LiveIn(ops, i - 1) /\ Held = LiveIn(ops, i)
    BY <2>1 DEF Live, LiveAfter, LiveIn, Held
  <2>4. id \in Held <=> id = req.index \/ id \in Live
    BY <2>1, <2>2, <2>3, LiveStep DEF req
  <2>5. CASE id = req.index
    BY <1>1, <1>2, <2>1, <2>5 DEF Owned, Holds, Payload
  <2>6. CASE id # req.index /\ id \in Live
    <3>1. Sz[id] = SizeIn(ops, i, id)
      BY <2>1, <2>4, <2>6 DEF Sz
    <3>2. SizeIn(ops, i, id) = SizeIn(ops, i - 1, id)
      BY <2>1, <2>2, <2>6, SizeStep DEF req
    <3>3. Size(id) = SizeIn(ops, i - 1, id)
      BY DEF Size, SizeIn
    <3>4. Lo[id] = blocks[id]
      BY <2>4, <2>6 DEF Lo
    <3> QED
      BY <1>1, <1>2, <2>1, <2>4, <2>6, <3>1, <3>2, <3>3, <3>4 DEF Owned, Holds, Payload
  <2>7. CASE id # req.index /\ id \notin Live
    BY <1>1, <1>2, <2>4, <2>7 DEF Owned, Holds
  <2> QED
    BY <2>5, <2>6, <2>7
<1>3. CASE phase # "fill"
  <2>1. ~Pending /\ Done = i - 1
    BY <1>3 DEF Pending, Done
  <2>2. Held = Live
    BY <2>1 DEF Live, LiveAfter, LiveIn, Held
  <2>3. CASE Holds(id)
    <3>1. Sz[id] = Size(id)
      BY <2>1, <2>3 DEF Holds, Sz, Size, SizeIn
    <3>2. Lo[id] = blocks[id]
      BY <2>1, <2>3 DEF Holds, Lo
    <3> QED
      BY <1>1, <1>3, <2>2, <2>3, <3>1, <3>2 DEF Owned, Holds, Payload
  <2>4. CASE ~Holds(id)
    BY <1>1, <1>3, <2>2, <2>4 DEF Owned, Holds
  <2> QED
    BY <2>3, <2>4
<1> QED
  BY <1>2, <1>3

(* A payload held may be handed out.                                       *)
LEMMA HeldFits ==
    IInv => \A id \in Ids : Holds(id) =>
              /\ Owned[id] = Payload(heap, Lo[id], Sz[id])
              /\ Owned[id] # NoBlock /\ Alloc!Fits(id)
<1> SUFFICES ASSUME IInv, NEW id \in Ids, Holds(id)
             PROVE  /\ Owned[id] = Payload(heap, Lo[id], Sz[id])
                    /\ Owned[id] # NoBlock /\ Alloc!Fits(id)
  OBVIOUS
<1>1. heap \in Heaps /\ LayoutInv /\ Replaying
  BY DEF IInv, Types, StoreTypes, Holds
<1>2. \A k \in Ids : Owned[k] = IF Holds(k) THEN Payload(heap, Lo[k], Sz[k]) ELSE NoBlock
  BY OwnedIs
<1>3. ASSUME NEW k \in Ids, Holds(k)
      PROVE  /\ Placed(heap, Lo[k], Sz[k]) /\ Owned[k] = Payload(heap, Lo[k], Sz[k])
             /\ Owned[k].lo = Lo[k] /\ Alloc!Cells(Owned[k]) = {Lo[k] + j : j \in 0 .. Sz[k] - 1}
  <2>1. Placed(heap, Lo[k], Sz[k])
    BY <1>1, <1>3 DEF LayoutInv, Holds
  <2>2. Owned[k] = Payload(heap, Lo[k], Sz[k])
    BY <1>2, <1>3
  <2>3. Owned[k].lo = Lo[k] /\ DOMAIN Owned[k].data = 0 .. Sz[k] - 1
    BY <2>2, PayloadFields
  <2> QED
    BY <2>1, <2>2, <2>3 DEF Alloc!Cells
<1>4. Owned[id] # NoBlock
  <2>1. Lo[id] \in Nat /\ Lo[id] # 0
    <3> DEFINE lo == Lo[id]
    <3>1. lo \in Nat /\ SIZE_T_SIZE \in Nat /\ mem_start_brk \in Nat \ {0}
          /\ mem_start_brk + SIZE_T_SIZE <= lo
      BY <1>1, <1>3, PlacedFacts
    <3> HIDE DEF lo
    <3>2. lo # 0
      BY <3>1
    <3> QED
      BY <3>1, <3>2 DEF lo
  <2>2. Owned[id].lo = Lo[id] /\ NoBlock.lo = 0
    BY <1>3 DEF NoBlock, NULL
  <2> QED
    BY <2>1, <2>2
<1>5. Owned[id].lo % ALIGNMENT = 0
  BY <1>3 DEF Placed
<1>6. Alloc!Cells(Owned[id]) \subseteq HeapAddr
  BY <1>1, <1>3, PlacedFacts
<1>7. ASSUME NEW other \in Ids \ {id}, Owned[other] # NoBlock
      PROVE  Alloc!Cells(Owned[id]) \cap Alloc!Cells(Owned[other]) = {}
  <2>1. Holds(other)
    BY <1>2, <1>7
  <2>2. Apart(Lo[id], Sz[id], Lo[other], Sz[other])
    BY <1>1, <1>7, <2>1 DEF LayoutInv, Holds
  <2> DEFINE lo == Lo[id]
             n  == Sz[id]
             lo2 == Lo[other]
             n2  == Sz[other]
  <2>3. /\ lo \in Nat /\ n \in Nat /\ lo2 \in Nat /\ n2 \in Nat /\ SIZE_T_SIZE \in Nat
    BY <1>1, <1>3, <2>1, PlacedFacts
  <2>4. lo + n <= lo2 - SIZE_T_SIZE \/ lo2 + n2 <= lo - SIZE_T_SIZE
    BY <2>2 DEF Apart
  <2> HIDE DEF lo, n, lo2, n2
  <2>5. \A j \in 0 .. n - 1, k \in 0 .. n2 - 1 : lo + j # lo2 + k
    BY <2>3, <2>4
  <2>6. /\ Alloc!Cells(Owned[id]) = {lo + j : j \in 0 .. n - 1}
        /\ Alloc!Cells(Owned[other]) = {lo2 + j : j \in 0 .. n2 - 1}
    BY <1>3, <2>1 DEF lo, n, lo2, n2
  <2> QED
    BY <2>5, <2>6
<1>8. Alloc!Fits(id)
  BY <1>4, <1>5, <1>6, <1>7 DEF Alloc!Fits
<1> QED
  BY <1>3, <1>4, <1>8

(* A payload that keeps its place and its cells is the same.               *)
LEMMA SamePayload ==
    ASSUME NEW h, NEW h2, NEW lo, NEW n, \A k \in 0 .. n - 1 : h2.mem[lo + k] = h.mem[lo + k]
    PROVE  Payload(h2, lo, n) = Payload(h, lo, n)
  BY DEF Payload

(* Every step of the driver is a step of Allocator, or one it does not     *)
(* see.                                                                    *)
LEMMA OwnedStep ==
    ASSUME IInv, IInv', [Next]_vars PROVE [Alloc!Next]_Owned
<1> DEFINE All(k) == Payload(heap, Lo[k], Sz[k])
<1>1. \A k \in Ids : Owned[k] = IF Holds(k) THEN Payload(heap, Lo[k], Sz[k]) ELSE NoBlock
  BY OwnedIs
<1>2. Owned' = [k \in Ids |-> IF Holds(k)' THEN Payload(heap', Lo'[k], Sz'[k]) ELSE NoBlock]
  <2>1. (IInv => Owned = [id \in Ids |-> IF Holds(id) THEN Payload(heap, Lo[id], Sz[id]) ELSE NoBlock])'
    BY OwnedIs, PTL
  <2> QED
    BY <2>1
<1>3. \A k \in Ids : Holds(k) => Owned[k] # NoBlock
  BY HeldFits
<1>4. \A k \in Ids : Holds(k)' => Owned'[k] # NoBlock /\ Alloc!Fits(k)'
  <2>1. (IInv => \A id \in Ids : Holds(id) =>
              /\ Owned[id] = Payload(heap, Lo[id], Sz[id])
              /\ Owned[id] # NoBlock /\ Alloc!Fits(id))'
    BY HeldFits, PTL
  <2> QED
    BY <2>1
<1>5. heap \in Heaps /\ LayoutInv
  BY DEF IInv, Types, StoreTypes
<1>6. ASSUME \A k \in Ids : ~Holds(k)' PROVE Alloc!Next
  <2>1. Owned' = [k \in Ids |-> NoBlock]
    BY <1>2, <1>6
  <2> QED
    BY <2>1 DEF Alloc!Next, Alloc!Reset
<1>7. CASE Take
  <2> DEFINE op  == ops[Done']
             lo0 == heap.brk + SIZE_T_SIZE
             new == [heap |-> heap', ret |-> lo0]
  <2>0. op.index \in Ids
    BY <1>7, TakeEffect
  <2> PICK x \in Ids : x = op.index
    BY <2>0
  <2>1. /\ op.size \in Sizes /\ x \in Ids /\ op.type \in {"ALLOC", "REALLOC"}
        /\ (op.type = "ALLOC" <=> x \notin Held) /\ Held' = Held \cup {x}
        /\ \A k \in Held' : /\ Lo'[k] = IF k = x THEN lo0 ELSE Lo[k]
                            /\ Sz'[k] = IF k = x THEN op.size ELSE Sz[k]
    BY <1>7, TakeEffect
  <2>2. /\ \A k : Holds(k) <=> k \in Held
        /\ \A k : Holds(k)' <=> k \in Held'
    BY <1>7 DEF Take, GoesOn, Holds
  <2>3. /\ Grown(heap, new, op.size)
        /\ op.type = "REALLOC" => Carried(heap, new, Lo[x], Sz[x], op.size)
    BY <1>7 DEF Take
  <2> HIDE DEF op, lo0
  <2>4. \A k \in Held : Placed(heap, Lo[k], Sz[k])
    BY <1>5, <1>7 DEF LayoutInv, Take, GoesOn
  <2>5. ASSUME NEW k \in Ids \ {x} PROVE Owned'[k] = Owned[k]
    <3>1. CASE k \in Held
      <4>1. Lo'[k] = Lo[k] /\ Sz'[k] = Sz[k]
        BY <2>1, <2>5, <3>1
      <4>2. \A j \in 0 .. Sz[k] - 1 : Lo[k] + j \in HeapAddr /\ Lo[k] + j < heap.brk
        BY <1>5, <2>4, <3>1, PlacedFacts
      <4>3. \A j \in 0 .. Sz[k] - 1 : heap'.mem[Lo[k] + j] = heap.mem[Lo[k] + j]
        BY <2>3, <4>2 DEF Grown
      <4>4. Payload(heap', Lo[k], Sz[k]) = Payload(heap, Lo[k], Sz[k])
        BY <4>3, SamePayload
      <4> QED
        BY <1>1, <1>2, <2>1, <2>2, <2>5, <3>1, <4>1, <4>4
    <3>2. CASE k \notin Held
      BY <1>1, <1>2, <2>1, <2>2, <2>5, <3>2
    <3> QED
      BY <3>1, <3>2
  <2>6. Alloc!Others(x)
    BY <2>5 DEF Alloc!Others
  <2>7. Alloc!Fits(x)'
    BY <1>4, <2>1, <2>2
  <2>8. CASE op.type = "ALLOC"
    <3>1. Owned[x] = NoBlock
      BY <1>1, <2>1, <2>2, <2>8
    <3> QED
      BY <2>1, <2>6, <2>7, <3>1 DEF Alloc!Next, Alloc!Malloc
  <2>9. CASE op.type = "REALLOC"
    <3>1. x \in Held /\ x \in Held' /\ Lo'[x] = lo0 /\ Sz'[x] = op.size
      BY <2>1, <2>9
    <3>2. Owned[x] = Payload(heap, Lo[x], Sz[x]) /\ Owned[x] # NoBlock
      BY <1>1, <1>3, <2>1, <2>2, <3>1
    <3>3. Owned'[x] = Payload(heap', lo0, op.size)
      BY <1>2, <2>1, <2>2, <3>1
    <3>4. op.size \in Nat /\ Sz[x] \in Nat
      BY <1>5, <2>1, <2>4, <3>1, NeedFacts, PlacedFacts
    <3>5. ASSUME NEW j \in 0 .. Sz[x] - 1, j \in 0 .. op.size - 1
          PROVE  heap'.mem[lo0 + j] = heap.mem[Lo[x] + j]
      BY <2>3, <2>9, <3>4, <3>5 DEF Carried
    <3>6. /\ DOMAIN Owned[x].data = 0 .. Sz[x] - 1 /\ DOMAIN Owned'[x].data = 0 .. op.size - 1
          /\ \A j \in 0 .. Sz[x] - 1 : Owned[x].data[j] = heap.mem[Lo[x] + j]
          /\ \A j \in 0 .. op.size - 1 : Owned'[x].data[j] = heap'.mem[lo0 + j]
      BY <3>2, <3>3 DEF Payload
    <3>7. \A j \in DOMAIN Owned[x].data \cap DOMAIN Owned'[x].data :
             Owned'[x].data[j] = Owned[x].data[j]
      BY <3>5, <3>6
    <3>8. Alloc!Realloc(x)
      BY <2>6, <2>7, <3>2, <3>7 DEF Alloc!Realloc
    <3> QED
      BY <2>1, <3>8 DEF Alloc!Next
  <2> QED
    BY <2>1, <2>8, <2>9
<1>8. CASE Drop
  <2> DEFINE x == ops[Done'].index
  <2>1. x \in Held /\ Held' = Held \ {x} /\ \A k \in Held' : Lo'[k] = Lo[k] /\ Sz'[k] = Sz[k]
    BY <1>8, DropEffect
  <2>2. /\ \A k : Holds(k) <=> k \in Held
        /\ \A k : Holds(k)' <=> k \in Held'
        /\ heap' = heap
    BY <1>8 DEF Drop, GoesOn, Holds
  <2> HIDE DEF x
  <2>3. x \in Ids
    BY <2>1 DEF Held, LiveIn
  <2>4. Owned[x] # NoBlock /\ Owned'[x] = NoBlock
    BY <1>2, <1>3, <2>1, <2>2, <2>3
  <2>5. \A k \in Ids \ {x} : Owned'[k] = Owned[k]
    BY <1>1, <1>2, <2>1, <2>2
  <2> QED
    BY <2>3, <2>4, <2>5 DEF Alloc!Next, Alloc!Free, Alloc!Others
<1>9. CASE Fill
  <2>1. Held' = Held /\ Sz' = Sz /\ Lo' = Lo
    BY <1>9, SameHeld DEF Fill, GoesOn
  <2>2. PICK x \in Held : heap' = memset(heap, Lo[x], Sz[x], LowByte(x))
    BY <1>9 DEF Fill
  <2>3. /\ \A k : Holds(k) <=> k \in Held
        /\ \A k : Holds(k)' <=> k \in Held
    BY <1>9, <2>1 DEF Fill, GoesOn, Holds
  <2>4. x \in Ids /\ LowByte(x) \in 0 .. B - 1
    BY LowByteFits DEF Held, LiveIn
  <2>5. /\ Owned[x] = Payload(heap, Lo[x], Sz[x]) /\ Owned'[x] = Payload(heap', Lo[x], Sz[x])
        /\ Owned[x] # NoBlock /\ Owned'[x] # NoBlock
    BY <1>1, <1>2, <1>3, <1>4, <2>1, <2>3, <2>4
  <2>6. Owned'[x].lo = Owned[x].lo /\ DOMAIN Owned'[x].data = DOMAIN Owned[x].data
    BY <2>5 DEF Payload
  <2>7. ASSUME NEW k \in Ids \ {x} PROVE Owned'[k] = Owned[k]
    <3>1. CASE k \in Held
      <4>1. /\ Placed(heap, Lo[x], Sz[x]) /\ Placed(heap, Lo[k], Sz[k])
            /\ Apart(Lo[x], Sz[x], Lo[k], Sz[k])
        BY <1>5, <1>9, <2>7, <3>1 DEF LayoutInv, Fill, GoesOn
      <4>2. \A j \in 0 .. Sz[k] - 1 : heap'.mem[Lo[k] + j] = heap.mem[Lo[k] + j]
        BY <1>5, <2>2, <2>4, <4>1, MemsetKeeps
      <4>3. Payload(heap', Lo[k], Sz[k]) = Payload(heap, Lo[k], Sz[k])
        BY <4>2, SamePayload
      <4> QED
        BY <1>1, <1>2, <2>1, <2>3, <2>7, <3>1, <4>3
    <3>2. CASE k \notin Held
      BY <1>1, <1>2, <2>3, <2>7, <3>2
    <3> QED
      BY <3>1, <3>2
  <2> QED
    BY <2>4, <2>5, <2>6, <2>7 DEF Alloc!Next, Alloc!Write, Alloc!Others
<1>10. CASE Enter
  BY <1>6, <1>10, EnterEffect DEF Holds
<1>11. CASE Idle
  <2>1. Replaying /\ Replaying' /\ Held' = Held /\ Sz' = Sz /\ Lo' = Lo /\ heap' = heap
    BY <1>11, SameHeld DEF Idle
  <2>2. CASE ~Running'
    BY <1>6, <2>2 DEF Holds
  <2>3. CASE Running'
    <3>1. status' = status
      BY <1>11, <2>3 DEF Idle
    <3>2. \A k : Holds(k)' <=> Holds(k)
      BY <2>1, <3>1 DEF Holds, Running
    <3>3. Owned' = [k \in Ids |-> IF Holds(k) THEN Payload(heap, Lo[k], Sz[k]) ELSE NoBlock]
      BY <1>2, <2>1, <3>2
    <3> QED
      BY <3>3, OwnedIs
  <2> QED
    BY <2>2, <2>3
<1>12. CASE Leave
  BY <1>6, <1>12 DEF Leave, Holds
<1> QED
  BY <1>7, <1>8, <1>9, <1>10, <1>11, <1>12, StepKinds

(* mm.c does what a malloc package promises in every replay: payloads that *)
(* are aligned, lie in the heap and never overlap, whose contents only the *)
(* client changes, and which realloc carries over.                         *)
THEOREM ReplaysImplementAllocator == ASSUME NoRequestWraps PROVE Spec => ImplementsAllocator
<1>1. Init => Alloc!Init
  BY DEF Init, Alloc!Init, Owned, OnMm
<1>2. IInv /\ IInv' /\ [Next]_vars => [Alloc!Next]_Owned
  BY OwnedStep
<1> QED
  BY <1>1, <1>2, MdriverInvariant, PTL DEF Spec, ImplementsAllocator, Alloc!Spec
-----------------------------------------------------------------------------
(* The verdicts of eval_mm_valid.                                          *)

(* The low byte of every id survives a char, which is signed.  For other   *)
(* ids the comparison after a realloc fails, whatever the package does.    *)
CharsFit == \A id \in Ids : LowByte(id) < 2^(ByteBits - 1)

Settled  == {"util", "speed", "report"}
Judged   == {t \in Files : pkg = "mm" /\ (t < tracenum \/ (t = tracenum /\ phase \in Settled))}
Rejected == {t \in Judged : ~valid[t]}

VerdictInv ==
    /\ \A t \in Judged : valid[t] <=> FitsHeap(files[t])
    /\ status # "unix_error" => errors = Cardinality(Rejected)

(* The ends of a payload, and of the heap, as numbers.                     *)
LEMMA ExtentFacts ==
    ASSUME NEW h \in Heaps, NEW lo, NEW n, Placed(h, lo, n)
    PROVE  /\ Extent(lo, n).lo = lo /\ Extent(lo, n).hi = lo + n - 1
           /\ mem_heap_hi(h.brk) = h.brk - 1
<1>1. /\ lo \in Nat /\ n \in Nat \ {0} /\ h.brk \in Nat /\ SIZE_T_SIZE \in Nat
      /\ mem_start_brk \in Nat \ {0} /\ mem_start_brk + SIZE_T_SIZE <= lo /\ lo + n <= h.brk
      /\ h.brk <= mem_max_addr /\ mem_max_addr \in Nat /\ mem_max_addr < B - 1
  BY PlacedFacts
<1>2. B \in Nat \ {0} /\ H \in Nat
  BY ConstantFacts
<1>3. /\ lo + n - 1 \in Nat /\ lo + n - 1 < B
      /\ h.brk - 1 \in Nat /\ h.brk - 1 < B
  BY <1>1, <1>2
<1>4. Word(lo + n - 1) = lo + n - 1
  BY <1>2, <1>3, ModBelow DEF Word, B
<1>5. mem_heap_hi(h.brk) = h.brk - 1
  BY <1>2, <1>3, ModBelow DEF mem_heap_hi, Word, B
<1> QED
  BY <1>4, <1>5 DEF Extent

(* add_range never objects to a block of mm.c.                             *)
LEMMA NewRangeIsOK ==
    ASSUME IInv, Calls("valid"), req.type # "FREE", Room(heap, req.size)
    PROVE  LET range == Extent(Answer.ret, req.size)
           IN  RangeOK(Answer.heap, ListLeft, range.lo, range.hi)
<1> DEFINE lo0   == heap.brk + SIZE_T_SIZE
           size  == req.size
           range == Extent(Answer.ret, size)
<1>1. /\ Replaying /\ req.size \in Sizes /\ heap \in Heaps /\ heap.brk % ALIGNMENT = 0
      /\ \A id \in Held : Placed(heap, Lo[id], Sz[id])
  BY AtRequest DEF IInv, Types, StoreTypes
<1>2. Grown(heap, Answer, size)
  BY AnswerIs
<1>3. Placed(Answer.heap, lo0, size) /\ Answer.heap \in Heaps /\ Answer.ret = lo0
  BY <1>1, <1>2, NewPlaced DEF Grown
<1>4. /\ range.lo = lo0 /\ range.hi = lo0 + size - 1
      /\ mem_heap_hi(Answer.heap.brk) = Answer.heap.brk - 1
  BY <1>3, ExtentFacts
<1>5. /\ lo0 \in Nat /\ size \in Nat \ {0} /\ Answer.heap.brk \in Nat /\ SIZE_T_SIZE \in Nat \ {0}
      /\ mem_start_brk \in Nat /\ mem_start_brk + SIZE_T_SIZE <= lo0 /\ lo0 + size <= Answer.heap.brk
  BY <1>3, PlacedFacts
<1>6. heap.brk \in Nat
  BY <1>1, ConstantFacts DEF Heaps
<1>7. lo0 % ALIGNMENT = 0
  BY <1>3 DEF Placed
<1>8. ASSUME NEW a \in {range.lo, range.hi}
      PROVE  a \in Nat /\ a >= mem_heap_lo /\ a <= mem_heap_hi(Answer.heap.brk) /\ a >= lo0
  <2>1. a = lo0 \/ a = lo0 + size - 1
    BY <1>4
  <2> HIDE DEF lo0, size, range
  <2> QED
    BY <1>4, <1>5, <2>1 DEF mem_heap_lo
<1>9. ASSUME NEW r \in ToSet(ListLeft), NEW a \in {range.lo, range.hi}
      PROVE  ~(a >= r.lo /\ a <= r.hi)
  <2>1. PICK id \in Held : r = Extent(Lo[id], Sz[id])
    BY <1>9, ListIsOfTheOthers
  <2>2. /\ r.hi = Lo[id] + Sz[id] - 1 /\ Lo[id] \in Nat /\ Sz[id] \in Nat
        /\ Lo[id] + Sz[id] <= heap.brk
    BY <1>1, <2>1, ExtentFacts, PlacedFacts
  <2>3. a \in Nat /\ a >= heap.brk
    BY <1>5, <1>6, <1>8, <1>9
  <2> QED
    BY <1>6, <2>2, <2>3
<1> QED
  BY <1>4, <1>7, <1>8, <1>9 DEF RangeOK

(* What realloc carried over is what is read back.                         *)
LEMMA CarriedIsPreserved ==
    ASSUME CharsFit, IInv, phase = "fill", req.type = "REALLOC"
    PROVE  Preserved
<1> DEFINE idx == req.index
           c   == LowByte(idx)
           bs  == block_sizes[idx]
           n   == Min({req.size, bs})
<1>1. /\ Replaying /\ Pending /\ idx \in Ids /\ req.size \in Sizes
  BY AtFill
<1>2. /\ bs \in Sizes
      /\ \A k \in 0 .. req.size - 1 : k < bs => heap.mem[p + k] = c
  BY <1>1 DEF IInv, FilledInv
<1>3. bs \in Nat /\ req.size \in Nat
  BY <1>1, <1>2, NeedFacts
<1>4. n = IF req.size <= bs THEN req.size ELSE bs
  BY <1>3, MinOfTwo
<1>5. \A j \in 0 .. n - 1 : heap.mem[p + j] = c
  <2> HIDE DEF n, bs
  <2> QED
    BY <1>2, <1>3, <1>4
<1>6. Char(c) = c
  <2> DEFINE d == 2^ByteBits
             h == 2^(ByteBits - 1)
  <2>1. c \in 0 .. d - 1 /\ d \in Nat \ {0} /\ c < h
    <3>1. c \in 0 .. d - 1
      BY <1>1, LowByteFits
    <3>2. c < h
      BY <1>1 DEF CharsFit
    <3>3. d \in Nat
      BY TraceAssumption
    <3> HIDE DEF c, d, h
    <3>4. d # 0
      BY <3>1, <3>3
    <3> QED
      BY <3>1, <3>2, <3>3, <3>4
  <2>2. c \in Nat /\ c < d
    BY <2>1
  <2>3. c % d = c
    <3> HIDE DEF c, d
    <3> QED
      BY <2>1, <2>2, ModBelow
  <2>4. LowByte(c) = c
    BY <2>3 DEF LowByte
  <2> QED
    BY <2>1, <2>4 DEF Char
<1>7. \A j \in 0 .. n - 1 : Char(heap.mem[p + j]) = c
  BY <1>5, <1>6
<1> QED
  BY <1>7 DEF Preserved

(* What a step does to the verdicts.                                       *)
Stays ==
    /\ UNCHANGED <<pkg, tracenum, valid, errors>>
    /\ pkg = "mm" => (phase \in Settled <=> phase' \in Settled)
    /\ files' = files \/ (tracenum > Len(files) /\ files' = Append(files, ops))
    /\ status = "unix_error" => status' = "unix_error"
LibcEnds == pkg = "libc" /\ pkg' = "libc" /\ status' = "unix_error"
Accepted ==
    /\ pkg = "mm" /\ phase = "valid" /\ phase' = "util" /\ FitsHeap(ops)
    /\ valid' = [valid EXCEPT ![tracenum] = TRUE]
    /\ UNCHANGED <<pkg, tracenum, files, errors, status>>
Refused ==
    /\ pkg = "mm" /\ phase = "valid" /\ ~FitsHeap(ops) /\ Reject
    /\ UNCHANGED <<files, status>>
Passed == Running /\ phase = "speed" /\ NextFile /\ UNCHANGED <<files, verdicts, status>>

(* Every step leaves the verdicts alone or is one of the four that give    *)
(* one.                                                                    *)
LEMMA VerdictSteps ==
    ASSUME CharsFit, IInv, [Next]_vars
    PROVE  Stays \/ LibcEnds \/ Accepted \/ Refused \/ Passed
<1>1. CASE \E op \in Op : ReadLine(op)
  BY <1>1 DEF ReadLine, Stays, verdicts
<1>2. CASE \E num_ids \in {0, MaxIndex(ops) + 1}, num_ops \in {Len(ops), Len(ops) + 1} :
             EndOfFile(num_ids, num_ops)
  <2>1. tracenum \in Nat /\ Len(files) \in Nat
    BY TraceTypes DEF IInv
  <2> QED
    BY <1>2, <2>1 DEF EndOfFile, Stays, verdicts, Settled, Running
<1>3. CASE StartValid \/ StartUtil \/ StartSpeed \/ StartLibc
  BY <1>3 DEF StartValid, StartUtil, StartSpeed, StartLibc, Stays, traceVars, verdicts
<1>4. CASE ValidCall
  <2>1. Calls("valid") /\ req.type # "FREE"
    BY <1>4, ValidCallKind
  <2>2. CASE Room(heap, req.size)
    <3>1. Answer.ret # NULL
      BY <2>1, <2>2, AnswerIs
    <3>2. LET range == Extent(Answer.ret, req.size)
          IN  RangeOK(Answer.heap, ListLeft, range.lo, range.hi)
      BY <2>1, <2>2, NewRangeIsOK
    <3>3. phase = "valid" /\ phase' = "fill" /\ UNCHANGED <<traceVars, verdicts, status>>
      BY <1>4, <2>1, <3>1, <3>2 DEF ValidCall, ListLeft, Calls
    <3> QED
      BY <3>3 DEF Stays, Settled, traceVars, verdicts
  <2>3. CASE ~Room(heap, req.size)
    <3>1. ~FitsHeap(ops)
      BY <2>1, <2>3, FitsHasRoom
    <3>2. Answer.ret = NULL
      BY <2>1, <2>3, AnswerIs DEF NoRoom
    <3>3. Reject /\ UNCHANGED <<files, status>>
      BY <1>4, <3>2 DEF ValidCall
    <3> QED
      BY <2>1, <3>1, <3>3 DEF Refused, Calls
  <2> QED
    BY <2>2, <2>3
<1>5. CASE ValidFill
  <2>1. req.type = "REALLOC" => Preserved
    BY <1>5, CarriedIsPreserved DEF ValidFill
  <2>2. phase = "fill" /\ phase' = "valid" /\ UNCHANGED <<traceVars, verdicts, status>>
    BY <1>5, <2>1 DEF ValidFill
  <2> QED
    BY <2>2 DEF Stays, Settled, traceVars, verdicts
<1>6. CASE ValidFree \/ UtilFree \/ SpeedFree
  BY <1>6 DEF ValidFree, UtilFree, SpeedFree, Stays, traceVars, verdicts
<1>7. CASE ValidReturns
  <2>1. i = Len(ops) + 1 /\ Len(ops) \in Nat /\ phase = "valid" /\ pkg = "mm" /\ ops' = ops
    BY <1>7, TraceTypes DEF ValidReturns, Finished, traceVars, IInv
  <2>2. Replaying /\ Done = Len(ops)
    BY <2>1 DEF Replaying, Done, Pending
  <2>3. FitsHeap(ops)
    BY <2>2, ReplayedFits
  <2> QED
    BY <1>7, <2>1, <2>3 DEF ValidReturns, Accepted, traceVars
<1>8. CASE UtilCall \/ SpeedCall
  <2>1. Running
    BY <1>8 DEF UtilCall, SpeedCall, At
  <2> QED
    BY <1>8, <2>1 DEF UtilCall, SpeedCall, Die, Stays, Running, traceVars, verdicts
<1>9. CASE UtilReturns
  BY <1>9 DEF UtilReturns, Finished, Stays, Settled, traceVars, verdicts
<1>10. CASE SpeedReturns
  <2>1. CASE NextFile
    BY <1>10, <2>1 DEF SpeedReturns, Finished, Passed
  <2>2. CASE UNCHANGED <<traceVars, phase>>
    BY <1>10, <2>2 DEF SpeedReturns, Stays, traceVars, verdicts
  <2> QED
    BY <1>10, <2>1, <2>2 DEF SpeedReturns
<1>11. CASE LibcCall \/ LibcFree \/ LibcReturns
  BY <1>11 DEF LibcCall, LibcFree, LibcReturns, At, Finished, Stays, traceVars, verdicts
<1>12. CASE LibcFails
  BY <1>12 DEF LibcFails, At, LibcEnds, traceVars
<1>13. CASE Report \/ Ended \/ UNCHANGED vars
  BY <1>13 DEF Report, Ended, Stays, Running, vars, traceVars, verdicts
<1> QED
  BY <1>1, <1>2, <1>3, <1>4, <1>5, <1>6, <1>7, <1>8, <1>9, <1>10, <1>11, <1>12, <1>13 DEF Next

(* Every step keeps the verdicts right, if the characters fit.             *)
LEMMA VerdictInvStep ==
    ASSUME CharsFit, IInv, VerdictInv, [Next]_vars PROVE VerdictInv'
<1>1. /\ tracenum \in Files /\ Files = 1 .. num_tracefiles /\ num_tracefiles \in Nat
      /\ tracenum \in Nat /\ files \in Seq(Seq(Op)) /\ ops \in Seq(Op) /\ Len(files) \in Nat
      /\ valid \in [Files -> BOOLEAN] /\ errors \in Nat
  BY TraceTypes, TraceAssumption DEF IInv, Types, ControlTypes, ScoreTypes, Files
<1>2. IsFiniteSet(Files)
  BY <1>1, FS_Interval
<1>3. IsFiniteSet(Rejected) /\ Judged \subseteq Files /\ Rejected \subseteq Judged
  <2>1. Judged \subseteq Files /\ Rejected \subseteq Judged
    BY DEF Judged, Rejected
  <2> QED
    BY <1>2, <2>1, FS_Subset
<1>4. ASSUME NEW t \in Judged PROVE t \in 1 .. Len(files)
  <2>1. /\ t \in Nat \ {0} /\ (t < tracenum \/ (t = tracenum /\ phase \in Settled))
    BY <1>1 DEF Judged
  <2>2. /\ Len(files) \in tracenum - 1 .. num_tracefiles
        /\ phase \in {"util", "speed"} => tracenum <= Len(files)
        /\ phase = "report" => tracenum = num_tracefiles /\ Len(files) = num_tracefiles
    BY DEF IInv, TraceInv
  <2> QED
    BY <1>1, <2>1, <2>2 DEF Settled
<1>5. CASE Stays
  <2>1. Judged' = Judged /\ Rejected' = Rejected
    BY <1>5 DEF Stays, Judged, Rejected
  <2>2. ASSUME NEW t \in Judged PROVE files'[t] = files[t]
    BY <1>1, <1>4, <1>5, <2>2, AppendProperties DEF Stays
  <2>3. \A t \in Judged' : valid'[t] <=> FitsHeap(files'[t])
    BY <1>5, <2>1, <2>2 DEF Stays, VerdictInv
  <2>4. status' # "unix_error" => errors' = Cardinality(Rejected')
    BY <1>5, <2>1 DEF Stays, VerdictInv
  <2> QED
    BY <2>3, <2>4 DEF VerdictInv
<1>6. CASE LibcEnds
  <2>1. Judged' = {}
    BY <1>6 DEF LibcEnds, Judged
  <2> QED
    BY <1>6, <2>1 DEF LibcEnds, VerdictInv
<1>7. ASSUME pkg = "mm", phase = "valid"
      PROVE  tracenum \notin Judged /\ ops = files[tracenum]
             /\ \A t \in Files : t \in Judged <=> t < tracenum
  BY <1>1, <1>7 DEF Judged, Settled, IInv, TraceInv
<1>8. CASE Accepted
  <2>1. \A t \in Files : t \in Judged' <=> t \in Judged \/ t = tracenum
    BY <1>1, <1>7, <1>8 DEF Accepted, Judged, Settled
  <2>2. /\ valid'[tracenum] /\ \A t \in Judged : valid'[t] = valid[t]
    BY <1>1, <1>3, <1>7, <1>8, Zenon DEF Accepted
  <2>3. Judged' \subseteq Files
    BY DEF Judged, Files
  <2>4. Rejected' = Rejected
    BY <1>3, <2>1, <2>2, <2>3 DEF Rejected
  <2>5. \A t \in Judged' : valid'[t] <=> FitsHeap(files'[t])
    <3>1. files' = files /\ FitsHeap(files[tracenum])
      BY <1>7, <1>8 DEF Accepted
    <3> QED
      BY <2>1, <2>2, <2>3, <3>1 DEF VerdictInv
  <2>6. status' # "unix_error" => errors' = Cardinality(Rejected')
    BY <1>8, <2>4 DEF Accepted, VerdictInv
  <2> QED
    BY <2>5, <2>6 DEF VerdictInv
<1>9. CASE Refused
  <2>1. /\ tracenum < num_tracefiles => tracenum' = tracenum + 1 /\ phase' = "read" /\ pkg' = "mm"
        /\ tracenum = num_tracefiles => tracenum' = tracenum /\ phase' = "report" /\ pkg' = "mm"
        /\ valid' = [valid EXCEPT ![tracenum] = FALSE] /\ errors' = errors + 1
        /\ UNCHANGED <<files, status>>
    BY <1>1, <1>9 DEF Refused, Reject, NextFile
  <2>2. \A t \in Files : t \in Judged' <=> t \in Judged \/ t = tracenum
    BY <1>1, <1>7, <1>9, <2>1 DEF Refused, Judged, Settled
  <2>3. /\ ~valid'[tracenum] /\ \A t \in Judged : valid'[t] = valid[t]
    BY <1>1, <1>3, <1>7, <1>9, <2>1, Zenon DEF Refused
  <2>4. Judged' \subseteq Files
    BY DEF Judged, Files
  <2>5. Rejected' = Rejected \cup {tracenum} /\ tracenum \notin Rejected
    BY <1>1, <1>3, <1>7, <1>9, <2>2, <2>3, <2>4 DEF Rejected, Refused
  <2>6. Cardinality(Rejected') = Cardinality(Rejected) + 1
    BY <1>3, <2>5, FS_AddElement
  <2>7. \A t \in Judged' : valid'[t] <=> FitsHeap(files'[t])
    <3>1. files' = files /\ ~FitsHeap(files[tracenum])
      BY <1>7, <1>9 DEF Refused
    <3> QED
      BY <2>2, <2>3, <2>4, <3>1 DEF VerdictInv
  <2> QED
    BY <2>1, <2>6, <2>7 DEF VerdictInv
<1>10. CASE Passed
  <2>1. UNCHANGED <<files, valid, errors, status>> /\ status = "running"
    BY <1>10 DEF Passed, verdicts, Running
  <2>2. Judged' = Judged
    BY <1>1, <1>10 DEF Passed, NextFile, Judged, Settled, Files
  <2>3. Rejected' = Rejected
    BY <2>1, <2>2 DEF Rejected
  <2> QED
    BY <2>1, <2>2, <2>3 DEF VerdictInv
<1> QED
  BY <1>5, <1>6, <1>8, <1>9, <1>10, VerdictSteps

(* eval_mm_valid finds a trace invalid only when the heap is too small for *)
(* it, and reports it once, if no id has a low byte that a signed char     *)
(* cannot hold.                                                            *)
THEOREM VerdictsAreDeserved == ASSUME CharsFit, NoRequestWraps PROVE Spec => []VerdictsRight
<1>1. Init => VerdictInv
  <2>1. SUFFICES ASSUME Init PROVE VerdictInv
    OBVIOUS
  <2>2. Judged = {}
    BY <2>1 DEF Init, Judged, Settled, Files
  <2>3. Rejected = {} /\ Cardinality({}) = 0
    BY <2>2, FS_EmptySet DEF Rejected
  <2> QED
    BY <2>1, <2>2, <2>3 DEF VerdictInv, Init
<1>2. IInv /\ VerdictInv /\ [Next]_vars => VerdictInv'
  BY VerdictInvStep
<1>3. VerdictInv => VerdictsRight
  BY DEF VerdictInv, VerdictsRight, Judged, Rejected, Settled
<1> QED
  BY <1>1, <1>2, <1>3, MdriverInvariant, PTL DEF Spec
-----------------------------------------------------------------------------
=============================================================================
