------------------------------- MODULE Mdriver -------------------------------
(***************************************************************************)
(* The driver of the malloc lab (mdriver.c) and the allocator under test.  *)
(* It reads trace files, replays each on the allocator while it checks     *)
(* every block (eval_mm_valid), replays it to measure utilization          *)
(* (eval_mm_util), and again several times to measure speed                *)
(* (eval_mm_speed).  With -l it does the first and the last for libc's     *)
(* malloc before.  One step is one request of a trace; a request that is   *)
(* checked takes two, the call and what the driver does with the block.    *)
(*                                                                         *)
(* Trace files hold requests a program could have made: a block is         *)
(* reallocated or freed only while it is allocated.                        *)
(***************************************************************************)
EXTENDS Mm, FiniteSets, SequencesExt

CONSTANTS
    Ids,        \* block ids that occur in traces
    Sizes,      \* sizes that occur in traces
    ByteBits,   \* width of a char, which is signed
    num_tracefiles,
    Repeats,    \* how often fsecs runs its function
    MaxOps      \* bound of the model: requests in all traces together

ASSUME TraceAssumption ==
    /\ Ids \subseteq Nat /\ Sizes \subseteq 1 .. 2^(WordBits - 1) - 1
    /\ ByteBits \in Nat \ {0} /\ num_tracefiles \in Nat \ {0}
    /\ Repeats \in Nat \ {0} /\ MaxOps \in Nat
    /\ 2^ByteBits \in Nat /\ 2^ByteBits = 2 * 2^(ByteBits - 1)
    /\ 2^(ByteBits - 1) \in Nat \ {0} /\ 2^ByteBits <= 2^WordBits

VARIABLES
    pkg,            \* "libc" or "mm": the package being evaluated
    phase,          \* the function at work
    tracenum,       \* the file being read or evaluated, from 1
    files,          \* what the files read so far contain
    ops, i,         \* the requests of the trace in memory; the next one, 0 on entry
    blocks, block_sizes,
    p,              \* the block just handed out and not yet filled
    heap, ranges,
    libc,           \* blocks of libc's malloc that have not been freed
    total_size, max_total_size,
    runs,           \* runs of the measured function that fsecs has completed
    valid, errors,  \* the verdict on each trace, the number of error messages
    status          \* "running", or how the driver ended

traceVars == <<pkg, tracenum, files, ops>>
blockVars == <<blocks, block_sizes>>
utilVars  == <<total_size, max_total_size>>
verdicts  == <<valid, errors>>
vars == <<traceVars, phase, i, blockVars, p, heap, ranges, libc, utilVars, runs,
          verdicts, status>>

Files  == 1 .. num_tracefiles
Phases == {"read", "valid", "fill", "util", "speed", "report"}
Op     == [type : {"ALLOC", "REALLOC"}, index : Ids, size : Sizes]
            \cup [type : {"FREE"}, index : Ids, size : {0}]

Running == status = "running"
req     == ops[i]
(* The function in phase ph is at a request of the given type of pkg k.    *)
At(k, ph, type) ==
    Running /\ pkg = k /\ phase = ph /\ i \in 1 .. Len(ops) /\ req.type = type
Entered(k, ph)  == Running /\ pkg = k /\ phase = ph /\ i = 0
Finished(k, ph) == Running /\ pkg = k /\ phase = ph /\ i = Len(ops) + 1
NextOp == i' = i + 1

(* Ids that are allocated after the first n requests.                      *)
LiveAfter(n) ==
    {id \in Ids : \E m \in 1 .. n :
        /\ ops[m].index = id /\ ops[m].type = "ALLOC"
        /\ \A k \in m + 1 .. n : ~(ops[k].index = id /\ ops[k].type = "FREE")}

NoTrace == [id \in Ids |-> 0]       \* freshly allocated arrays are never read

Init ==
    /\ pkg \in {"libc", "mm"}       \* -l or not
    /\ phase = "read" /\ tracenum = 1 /\ files = <<>> /\ ops = <<>> /\ i = 0
    /\ blocks = NoTrace /\ block_sizes = NoTrace /\ p = NULL
    /\ heap = [brk |-> mem_start_brk, mem |-> [a \in HeapAddr |-> 0]]
    /\ ranges = <<>> /\ libc = {}
    /\ total_size = 0 /\ max_total_size = 0 /\ runs = 0
    /\ valid = [t \in Files |-> FALSE] /\ errors = 0
    /\ status = "running"
-----------------------------------------------------------------------------
(* read_trace. *)

LastOp == FoldLeft(LAMBDA n, f : n + Len(f), 0, files) + Len(ops)

(* One request line.  A file read before, for libc, has not changed.       *)
ReadLine(op) ==
    /\ Running /\ phase = "read"
    /\ IF tracenum <= Len(files)
         THEN Len(ops) < Len(files[tracenum]) /\ op = files[tracenum][Len(ops) + 1]
         ELSE /\ LastOp < MaxOps
              /\ (op.type = "ALLOC") <=> (op.index \notin LiveAfter(Len(ops)))
    /\ ops' = Append(ops, op)
    /\ UNCHANGED <<pkg, tracenum, files, phase, i, blockVars, p, heap, ranges, libc,
                   utilVars, runs, verdicts, status>>

(* Only the lines that name a size count towards the largest id.           *)
MaxIndex(s) == Max({0} \cup {s[k].index : k \in {j \in DOMAIN s : s[j].type # "FREE"}})

(* The end of the file, and the assertions about the numbers in its        *)
(* header.  The requests are in memory, the arrays allocated.  (A header   *)
(* that announces too few requests is left out: they would be written past *)
(* the array before the assertion.)                                        *)
EndOfFile(num_ids, num_ops) ==
    /\ Running /\ phase = "read"
    /\ tracenum <= Len(files) => ops = files[tracenum]
    /\ IF MaxIndex(ops) = Word(num_ids - 1) /\ num_ops = Len(ops)
         THEN /\ phase' = "valid"
              /\ files' = IF tracenum <= Len(files) THEN files ELSE Append(files, ops)
              /\ UNCHANGED status
         ELSE status' = "assert" /\ UNCHANGED <<phase, files>>
    /\ blocks' = NoTrace /\ block_sizes' = NoTrace /\ i' = 0
    /\ UNCHANGED <<pkg, tracenum, ops, p, heap, ranges, libc, utilVars, runs, verdicts>>
-----------------------------------------------------------------------------
(* main: free_trace, and the next file, the next package or the report.    *)
(* mem_init comes before the package mm, when the heap is as in Init.      *)
NextFile ==
    /\ ops' = <<>> /\ i' = 0 /\ runs' = 0
    /\ \/ /\ tracenum < num_tracefiles
          /\ tracenum' = tracenum + 1 /\ phase' = "read"
          /\ UNCHANGED pkg
       \/ /\ tracenum = num_tracefiles /\ pkg = "libc"
          /\ pkg' = "mm" /\ tracenum' = 1 /\ phase' = "read"
       \/ /\ tracenum = num_tracefiles /\ pkg = "mm"
          /\ phase' = "report"
          /\ UNCHANGED <<pkg, tracenum>>

(* malloc_error, after which eval_mm_valid returns 0.                      *)
Reject ==
    /\ errors' = errors + 1
    /\ valid' = [valid EXCEPT ![tracenum] = FALSE]
    /\ p' = NULL
    /\ NextFile

(* printresults counts, and the index is computed if there was no error.   *)
Report ==
    /\ Running /\ phase = "report"
    /\ status' = IF errors = 0 THEN "graded" ELSE "terminated with errors"
    /\ UNCHANGED <<traceVars, phase, i, blockVars, p, heap, ranges, libc, utilVars,
                   runs, verdicts>>

Die(how) ==
    /\ status' = how
    /\ UNCHANGED <<traceVars, phase, i, blockVars, p, heap, ranges, libc, utilVars,
                   runs, verdicts>>
-----------------------------------------------------------------------------
(* The range list: payloads that have been handed out, latest first.       *)

(* Seeded fault: the head of the list is never unlinked.                   *)
remove_range_NotHead(list, lo) ==
    IF list = <<>> THEN list
    ELSE <<Head(list)>> \o RemoveFirstMatch(Tail(list), LAMBDA r : r.lo = lo)

remove_range(list, lo) == RemoveFirstMatch(list, LAMBDA r : r.lo = lo)

(* Whether add_range accepts the payload: aligned, inside the heap, and    *)
(* neither of its ends inside another payload.                             *)
RangeOK(h, list, lo, hi) ==
    /\ lo % ALIGNMENT = 0
    /\ \A a \in {lo, hi} : a >= mem_heap_lo /\ a <= mem_heap_hi(h.brk)
    /\ \A r \in ToSet(list) : \A a \in {lo, hi} : ~(a >= r.lo /\ a <= r.hi)

Extent(lo, size) == [lo |-> lo, hi |-> Word(lo + size - 1)]
-----------------------------------------------------------------------------
(* The calls of the package, and what the client does with its blocks.     *)

Answer == IF req.type = "ALLOC" THEN mm_malloc(heap, req.size)
          ELSE mm_realloc(heap, blocks[req.index], req.size)

memset(h, lo, size, c) ==
    [h EXCEPT !.mem = [a \in DOMAIN @ |-> IF a \in lo .. lo + size - 1 THEN c ELSE @[a]]]

(* index & 0xFF, and what is read back through a char pointer.             *)
LowByte(index) == index % 2^ByteBits
Char(cell) == LET b == LowByte(cell)
              IN  IF b < 2^(ByteBits - 1) THEN b ELSE b - 2^ByteBits

(* Entry of eval_mm_valid, eval_mm_util and eval_mm_speed: the driver      *)
(* empties the heap, then the package is initialized.                      *)
Reset(h) == [h EXCEPT !.brk = mem_reset_brk]

StartValid ==
    /\ Entered("mm", "valid") /\ NextOp
    /\ heap' = mm_init(Reset(heap)) /\ ranges' = <<>>
    /\ UNCHANGED <<traceVars, phase, blockVars, p, libc, utilVars, runs, verdicts, status>>

StartUtil ==
    /\ Entered("mm", "util") /\ NextOp
    /\ heap' = mm_init(Reset(heap))
    /\ total_size' = 0 /\ max_total_size' = 0
    /\ UNCHANGED <<traceVars, phase, blockVars, p, ranges, libc, runs, verdicts, status>>

(* Seeded fault: the heap is not emptied between the measured runs.        *)
StartSpeed_KeepsHeap ==
    /\ Entered("mm", "speed") /\ NextOp
    /\ UNCHANGED <<traceVars, phase, blockVars, p, heap, ranges, libc, utilVars, runs,
                   verdicts, status>>

StartSpeed ==
    /\ Entered("mm", "speed") /\ NextOp
    /\ heap' = mm_init(Reset(heap))
    /\ UNCHANGED <<traceVars, phase, blockVars, p, ranges, libc, utilVars, runs,
                   verdicts, status>>

StartLibc ==
    /\ Entered("libc", "valid") \/ Entered("libc", "speed")
    /\ NextOp
    /\ UNCHANGED <<traceVars, phase, blockVars, p, heap, ranges, libc, utilVars, runs,
                   verdicts, status>>
-----------------------------------------------------------------------------
(* eval_mm_valid. *)

(* mm_malloc or mm_realloc is called and its block added to the list; a    *)
(* block that moves leaves the list first.                                 *)
ValidCall ==
    /\ \E type \in {"ALLOC", "REALLOC"} : At("mm", "valid", type)
    /\ LET list  == IF req.type = "ALLOC" THEN ranges
                    ELSE remove_range(ranges, blocks[req.index])
           new   == Answer
           range == Extent(new.ret, req.size)
       IN  /\ heap' = new.heap
           /\ \/ new.ret = NULL /\ Reject /\ UNCHANGED ranges
              \/ /\ new.ret # NULL /\ ~RangeOK(new.heap, list, range.lo, range.hi)
                 /\ ranges' = list
                 /\ Reject
              \/ /\ new.ret # NULL /\ RangeOK(new.heap, list, range.lo, range.hi)
                 /\ ranges' = <<range>> \o list
                 /\ p' = new.ret /\ phase' = "fill"
                 /\ UNCHANGED <<traceVars, i, runs, verdicts>>
    /\ UNCHANGED <<files, blockVars, libc, utilVars, status>>

(* Seeded fault: all of the new block is compared.                         *)
Preserved_Whole ==
    \A j \in 0 .. req.size - 1 : Char(heap.mem[p + j]) = LowByte(req.index)

(* The data that must have been carried over is what the fill wrote.       *)
Preserved ==
    LET n == Min({req.size, block_sizes[req.index]})
    IN  \A j \in 0 .. n - 1 : Char(heap.mem[p + j]) = LowByte(req.index)

ValidFill ==
    /\ Running /\ phase = "fill"
    /\ \/ /\ req.type = "REALLOC" /\ ~Preserved
          /\ Reject
          /\ UNCHANGED <<heap, blockVars>>
       \/ /\ req.type = "REALLOC" => Preserved
          /\ heap' = memset(heap, p, req.size, LowByte(req.index))
          /\ blocks' = [blocks EXCEPT ![req.index] = p]
          /\ block_sizes' = [block_sizes EXCEPT ![req.index] = req.size]
          /\ p' = NULL /\ phase' = "valid" /\ NextOp
          /\ UNCHANGED <<traceVars, runs, verdicts>>
    /\ UNCHANGED <<files, ranges, libc, utilVars, status>>

ValidFree ==
    /\ At("mm", "valid", "FREE") /\ NextOp
    /\ ranges' = remove_range(ranges, blocks[req.index])
    /\ heap' = mm_free(heap, blocks[req.index])
    /\ UNCHANGED <<traceVars, phase, blockVars, p, libc, utilVars, runs, verdicts, status>>

ValidReturns ==
    /\ Finished("mm", "valid")
    /\ valid' = [valid EXCEPT ![tracenum] = TRUE]
    /\ phase' = "util" /\ i' = 0
    /\ UNCHANGED <<traceVars, blockVars, p, heap, ranges, libc, utilVars, runs,
                   errors, status>>
-----------------------------------------------------------------------------
(* eval_mm_util.  The total counts the payloads that are allocated.        *)

Total(size) ==
    /\ total_size' = total_size + size
    /\ max_total_size' = Max({total_size', max_total_size})

(* Seeded fault: a reallocation does not note the new size.                *)
UtilCall_KeepsSize ==
    /\ \E type \in {"ALLOC", "REALLOC"} : At("mm", "util", type)
    /\ LET new == Answer
       IN  \/ new.ret = NULL /\ Die("app_error")
          \/ /\ new.ret # NULL /\ NextOp
             /\ heap' = new.heap
             /\ blocks' = [blocks EXCEPT ![req.index] = new.ret]
             /\ block_sizes' = IF req.type = "ALLOC"
                                 THEN [block_sizes EXCEPT ![req.index] = req.size]
                                 ELSE block_sizes
             /\ Total(IF req.type = "ALLOC" THEN req.size
                      ELSE req.size - block_sizes[req.index])
             /\ UNCHANGED <<traceVars, phase, p, ranges, libc, runs, verdicts, status>>

UtilCall ==
    /\ \E type \in {"ALLOC", "REALLOC"} : At("mm", "util", type)
    /\ LET new == Answer
       IN  \/ new.ret = NULL /\ Die("app_error")
          \/ /\ new.ret # NULL /\ NextOp
             /\ heap' = new.heap
             /\ blocks' = [blocks EXCEPT ![req.index] = new.ret]
             /\ block_sizes' = [block_sizes EXCEPT ![req.index] = req.size]
             /\ Total(IF req.type = "ALLOC" THEN req.size
                      ELSE req.size - block_sizes[req.index])
             /\ UNCHANGED <<traceVars, phase, p, ranges, libc, runs, verdicts, status>>

UtilFree ==
    /\ At("mm", "util", "FREE") /\ NextOp
    /\ heap' = mm_free(heap, blocks[req.index])
    /\ total_size' = total_size - block_sizes[req.index]
    /\ UNCHANGED <<traceVars, phase, blockVars, p, ranges, libc, max_total_size, runs,
                   verdicts, status>>

UtilReturns ==
    /\ Finished("mm", "util")
    /\ phase' = "speed" /\ i' = 0
    /\ UNCHANGED <<traceVars, blockVars, p, heap, ranges, libc, utilVars, runs,
                   verdicts, status>>
-----------------------------------------------------------------------------
(* eval_mm_speed, which fsecs calls several times. *)

SpeedCall ==
    /\ \E type \in {"ALLOC", "REALLOC"} : At("mm", "speed", type)
    /\ LET new == Answer
       IN  \/ new.ret = NULL /\ Die("app_error")
          \/ /\ new.ret # NULL /\ NextOp
             /\ heap' = new.heap
             /\ blocks' = [blocks EXCEPT ![req.index] = new.ret]
             /\ UNCHANGED <<traceVars, phase, block_sizes, p, ranges, libc, utilVars,
                            runs, verdicts, status>>

SpeedFree ==
    /\ At("mm", "speed", "FREE") /\ NextOp
    /\ heap' = mm_free(heap, blocks[req.index])
    /\ UNCHANGED <<traceVars, phase, blockVars, p, ranges, libc, utilVars, runs,
                   verdicts, status>>

SpeedReturns ==
    /\ Finished(pkg, "speed")
    /\ \/ /\ runs + 1 < Repeats
          /\ runs' = runs + 1 /\ i' = 0
          /\ UNCHANGED <<traceVars, phase>>
       \/ runs + 1 = Repeats /\ NextFile
    /\ UNCHANGED <<files, blockVars, p, heap, ranges, libc, utilVars, verdicts, status>>
-----------------------------------------------------------------------------
(* eval_libc_valid and eval_libc_speed.  libc hands out blocks that are    *)
(* not in use, or fails; a failure ends the driver.                        *)

LibcBlock == Min((1 .. Cardinality(libc) + 1) \ libc)

LibcFails ==
    /\ \E ph \in {"valid", "speed"}, type \in {"ALLOC", "REALLOC"} : At("libc", ph, type)
    /\ errors' = IF phase = "valid" THEN errors + 1 ELSE errors
    /\ status' = "unix_error"
    /\ UNCHANGED <<traceVars, phase, i, blockVars, p, heap, ranges, libc, utilVars,
                   runs, valid>>

(* Seeded fault: a block that realloc moved is not remembered.             *)
LibcCall_Forgets ==
    /\ \E ph \in {"valid", "speed"}, type \in {"ALLOC", "REALLOC"} : At("libc", ph, type)
    /\ NextOp
    /\ LET old == IF req.type = "ALLOC" THEN {} ELSE {blocks[req.index]}
       IN  /\ libc' = (libc \ old) \cup {LibcBlock}
           /\ blocks' = IF req.type = "ALLOC"
                          THEN [blocks EXCEPT ![req.index] = LibcBlock] ELSE blocks
    /\ UNCHANGED <<traceVars, phase, block_sizes, p, heap, ranges, utilVars, runs,
                   verdicts, status>>

LibcCall ==
    /\ \E ph \in {"valid", "speed"}, type \in {"ALLOC", "REALLOC"} : At("libc", ph, type)
    /\ NextOp
    /\ LET old == IF req.type = "ALLOC" THEN {} ELSE {blocks[req.index]}
       IN  /\ libc' = (libc \ old) \cup {LibcBlock}
           /\ blocks' = [blocks EXCEPT ![req.index] = LibcBlock]
    /\ UNCHANGED <<traceVars, phase, block_sizes, p, heap, ranges, utilVars, runs,
                   verdicts, status>>

LibcFree ==
    /\ \E ph \in {"valid", "speed"} : At("libc", ph, "FREE")
    /\ NextOp
    /\ libc' = libc \ {blocks[req.index]}
    /\ UNCHANGED <<traceVars, phase, blockVars, p, heap, ranges, utilVars, runs,
                   verdicts, status>>

LibcReturns ==
    /\ Finished("libc", "valid")
    /\ phase' = "speed" /\ i' = 0
    /\ UNCHANGED <<traceVars, blockVars, p, heap, ranges, libc, utilVars, runs,
                   verdicts, status>>
-----------------------------------------------------------------------------
(* The driver has ended.                                                   *)
Ended == ~Running /\ UNCHANGED vars

Next ==
    \/ \E op \in Op : ReadLine(op)
    \/ \E num_ids \in {0, MaxIndex(ops) + 1}, num_ops \in {Len(ops), Len(ops) + 1} :
         EndOfFile(num_ids, num_ops)
    \/ StartValid \/ ValidCall \/ ValidFill \/ ValidFree \/ ValidReturns
    \/ StartUtil \/ UtilCall \/ UtilFree \/ UtilReturns
    \/ StartSpeed \/ SpeedCall \/ SpeedFree \/ SpeedReturns
    \/ StartLibc \/ LibcCall \/ LibcFails \/ LibcFree \/ LibcReturns
    \/ Report \/ Ended

Spec == Init /\ [][Next]_vars
-----------------------------------------------------------------------------
Pointers == 0 .. 2^WordBits - 1

(* No request of a trace makes mem_brk + incr wrap.  It is a fact about    *)
(* the sizes in the traces and where the region lies, not one the code     *)
(* checks: mem_sbrk refuses a sum beyond the region, and a sum that wraps  *)
(* is not beyond it.  Sizes that exceed an int with their header are       *)
(* negative increments, which are refused wherever the region lies.        *)
(* The properties below are about traces for which it holds.               *)
NoRequestWraps ==
    \A size \in Sizes :
        LET newsize == Signed(ALIGN(Word(size + SIZE_T_SIZE)))
        IN  newsize >= 0 => mem_max_addr + newsize < 2^WordBits

(* The break stays within the region, for every size with which            *)
(* NoRequestWraps holds, those that are negative as an int among them.     *)
TypeOK ==
    /\ pkg \in {"libc", "mm"} /\ phase \in Phases
    /\ tracenum \in Files /\ files \in Seq(Seq(Op)) /\ ops \in Seq(Op)
    /\ i \in 0 .. Len(ops) + 1
    /\ blocks \in [Ids -> Nat] /\ block_sizes \in [Ids -> {0} \cup Sizes]
    /\ pkg = "mm" /\ phase # "read" => blocks \in [Ids -> Pointers]
    /\ p \in Pointers
    /\ heap \in Heaps
    /\ ranges \in Seq([lo : Pointers, hi : Pointers]) /\ libc \subseteq Nat
    /\ total_size \in Int /\ max_total_size \in Nat /\ runs \in 0 .. Repeats
    /\ valid \in [Files -> BOOLEAN] /\ errors \in Nat
    /\ status \in {"running", "assert", "app_error", "unix_error", "graded",
                   "terminated with errors"}

(* The replay of a trace on mm is under way; the ids that are allocated    *)
(* then, where they are and how big.                                       *)
OnMm == Running /\ pkg = "mm" /\ phase \in {"valid", "fill", "util", "speed"} /\ i > 0

Live    == LiveAfter(i - 1)
Size(id) ==
    LET k == Max({j \in 1 .. i - 1 : ops[j].index = id /\ ops[j].type # "FREE"})
    IN  ops[k].size

(* add_range: "remember the extent of this block".  Between two requests   *)
(* the list names exactly the payloads that are allocated.                 *)
RangesAreLive ==
    OnMm /\ phase = "valid" =>
        /\ Len(ranges) = Cardinality(Live)
        /\ ToSet(ranges) = {Extent(blocks[id], Size(id)) : id \in Live}

(* What a trace takes from a heap that never gives anything back; a size   *)
(* whose block would exceed an int is refused.                             *)
Demand(s) ==
    SumFunction([k \in {j \in DOMAIN s : s[j].type # "FREE"} |->
                   ALIGN(s[k].size + SIZE_T_SIZE)])
FitsHeap(s) ==
    /\ \A k \in DOMAIN s : ALIGN(s[k].size + SIZE_T_SIZE) < 2^(WordBits - 1)
    /\ Demand(s) <= MAX_HEAP

(* eval_mm_valid: the package is right, so a trace is found invalid only   *)
(* because the heap is too small for it, and then with one message.        *)
VerdictsRight ==
    LET judged == {t \in Files :
            /\ pkg = "mm"
            /\ t < tracenum \/ (t = tracenum /\ phase \in {"util", "speed", "report"})}
    IN  /\ \A t \in judged : valid[t] <=> FitsHeap(files[t])
        /\ status # "unix_error" => errors = Cardinality({t \in judged : ~valid[t]})

(* eval_mm_util and eval_mm_speed end the program if the package fails.    *)
(* It does not: they replay a trace found valid, each time on an empty     *)
(* heap, however often fsecs calls.                                        *)
ReplaysSucceed == status # "app_error"

(* eval_mm_util: the total is that of the live payloads, and the           *)
(* utilization it computes from the largest total never exceeds one.       *)
UtilizationBounded ==
    OnMm /\ phase = "util" =>
        /\ total_size = SumFunction([id \in Live |-> Size(id)])
        /\ max_total_size >= total_size
        /\ max_total_size <= mem_heapsize(heap.brk)

(* `blocks' still holds pointers of earlier replays.  None of them is      *)
(* given to free or realloc: libc gets only blocks it has handed out and   *)
(* not taken back, mm only payloads in the heap as it is now.              *)
FreesWhatIsLive ==
    Running /\ i \in 1 .. Len(ops) /\ phase \in {"valid", "util", "speed"}
      /\ req.type \in {"REALLOC", "FREE"} =>
        IF pkg = "libc" THEN blocks[req.index] \in libc
        ELSE blocks[req.index] \in mem_heap_lo .. mem_heap_hi(heap.brk)
-----------------------------------------------------------------------------
NoBlock == [lo |-> NULL, data |-> <<>>]

(* The blocks of the replay as their owner sees them; one that has been    *)
(* handed out and not yet filled is at p.                                  *)
Owned ==
    [id \in Ids |->
        LET pending == phase = "fill" /\ req.index = id
            lo      == IF pending THEN p ELSE blocks[id]
            size    == IF pending THEN req.size ELSE Size(id)
        IN  IF OnMm /\ (pending \/ id \in Live)
              THEN [lo |-> lo, data |-> [k \in 0 .. size - 1 |-> heap.mem[lo + k]]]
              ELSE NoBlock]

Alloc == INSTANCE Allocator WITH
             Ids <- Ids, Heap <- HeapAddr, ALIGNMENT <- ALIGNMENT,
             NoBlock <- NoBlock, owned <- Owned

(* mm.c does what a malloc package promises, in every replay.              *)
ImplementsAllocator == Alloc!Spec
=============================================================================
