------------------------------- MODULE Cache --------------------------------
(***************************************************************************)
(* The cache simulator (cache.c, driven by csim.c): a set-associative      *)
(* cache whose sets keep their lines in recency order, most recent first,  *)
(* and the counts of hits, misses and evictions over a trace of memory     *)
(* accesses.  One step of the specification is one line of the trace.      *)
(* The verbose output and the counters inside struct Cache, which nothing  *)
(* updates, are left out; so are the sizes of the accesses, which the code *)
(* reads past.                                                             *)
(***************************************************************************)
EXTENDS Integers, FiniteSetsExt

CONSTANTS
    setBits, linePerSet, offsetBits,    \* -s, -E, -b
    IntBits,        \* width of the int that holds a tag
    INVALID,        \* 0x20150912, the mark of an unused line: an int like any other
    Addr,           \* addresses that occur in the trace
    MaxLines        \* bound of the model: length of the trace

ASSUME GeometryAssumption ==
    setBits \in Nat /\ linePerSet \in Nat \ {0} /\ offsetBits \in Nat
ASSUME IntAssumption ==
    IntBits \in Nat \ {0} /\ INVALID \in 0 .. 2^IntBits - 1 /\ INVALID # 1
(* A law of arithmetic, for the provers, which do not know exponentiation. *)
ASSUME PowerAssumption ==
    \A n \in {setBits, offsetBits, IntBits} : 2^n \in Nat \ {0}
ASSUME TraceAssumption == Addr \subseteq Nat /\ MaxLines \in Nat

VARIABLES
    cacheSets,                  \* the sets, each an array of lines and its size
    hit, miss, eviction,        \* main's counters
    read                        \* lines of the trace read so far

counters == <<hit, miss, eviction>>
vars == <<cacheSets, counters, read>>

Ops   == {"I", "L", "S", "M"}
Ways  == 0 .. linePerSet - 1
Sets  == 0 .. 2^setBits - 1
Tags  == 0 .. 2^IntBits - 1
Lines == [Ways -> [valid : {1, INVALID}, tag : Tags]]

initCacheSet ==
    [lines |-> [w \in Ways |-> [valid |-> INVALID, tag |-> INVALID]], size |-> 0]

(* splitAddr.  The set index is a mask; the tag is what is left of the     *)
(* address, cut to the width of an int on assignment.                      *)
block(addr)    == addr \div 2^offsetBits
setIndex(addr) == block(addr) % 2^setBits
tagIndex(addr) == (block(addr) \div 2^setBits) % 2^IntBits

(* The lookup of accessMem.                                                *)
hitWays(set, tag) ==
    {w \in Ways : set.lines[w].valid # INVALID /\ set.lines[w].tag = tag}

(* Seeded fault: a hit does not count as a use.                            *)
hitCacheLine_NoMove(set, tag) == set

(* hitCacheLine: tags move down one line until the hit tag comes out; its  *)
(* loop stops at the first line that carries the tag.                      *)
hitCacheLine(set, tag) ==
    LET last == Min({w \in Ways : set.lines[w].tag = tag})
    IN  [set EXCEPT !.lines =
          [w \in Ways |->
            [set.lines[w] EXCEPT !.tag = IF w = 0 THEN tag
                                         ELSE IF w <= last THEN set.lines[w - 1].tag
                                         ELSE @]]]

(* The first `size' lines after tag has been pushed on top of them.        *)
pushed(lines, size, tag) ==
    [w \in Ways |-> IF w >= size THEN lines[w]
                    ELSE [valid |-> 1, tag |-> IF w = 0 THEN tag ELSE lines[w - 1].tag]]

(* Seeded faults: the set grows after it has shifted; it grows when full.  *)
addCacheLine_GrowsLate(set, tag) ==
    [lines |-> pushed(set.lines, set.size, tag),
     size  |-> IF set.size < linePerSet THEN set.size + 1 ELSE set.size]

addCacheLine_Unbounded(set, tag) ==
    [lines |-> pushed(set.lines, set.size + 1, tag), size |-> set.size + 1]

(* addCacheLine: grow if there is room, then shift; the last tag drops out *)
(* of a full set.                                                          *)
addCacheLine(set, tag) ==
    LET size == IF set.size < linePerSet THEN set.size + 1 ELSE set.size
    IN  [lines |-> pushed(set.lines, size, tag), size |-> size]

(* accessMem: the set afterwards, and what happened. *)
accessMem(set, tag) ==
    IF hitWays(set, tag) # {}
      THEN [set |-> hitCacheLine(set, tag), res |-> "HIT"]
      ELSE [set |-> addCacheLine(set, tag),
            res |-> IF set.size < linePerSet THEN "MISS" ELSE "EVICTION"]

Init ==
    /\ cacheSets = [s \in Sets |-> initCacheSet]
    /\ hit = 0 /\ miss = 0 /\ eviction = 0
    /\ read = 0

(* Seeded fault: an eviction is not counted as a miss.                     *)
Access_EvictionOnly(op, addr) ==
    LET s   == setIndex(addr)
        acc == accessMem(cacheSets[s], tagIndex(addr))
    IN  /\ cacheSets' = [cacheSets EXCEPT ![s] = acc.set]
        /\ hit' = hit + (IF acc.res = "HIT" THEN 1 ELSE 0) + (IF op = "M" THEN 1 ELSE 0)
        /\ miss' = miss + (IF acc.res = "MISS" THEN 1 ELSE 0)
        /\ eviction' = eviction + (IF acc.res = "EVICTION" THEN 1 ELSE 0)

(* analyseOneLine for a load, a store, or a modify: a modify is a load and *)
(* a store, and the store is counted as a hit without looking.             *)
Access(op, addr) ==
    LET s   == setIndex(addr)
        acc == accessMem(cacheSets[s], tagIndex(addr))
    IN  /\ cacheSets' = [cacheSets EXCEPT ![s] = acc.set]
        /\ hit' = hit + (IF acc.res = "HIT" THEN 1 ELSE 0) + (IF op = "M" THEN 1 ELSE 0)
        /\ miss' = miss + (IF acc.res # "HIT" THEN 1 ELSE 0)
        /\ eviction' = eviction + (IF acc.res = "EVICTION" THEN 1 ELSE 0)

(* The trace loop of csim: instruction fetches are read and ignored.       *)
Line(op, addr) ==
    /\ read < MaxLines
    /\ read' = read + 1
    /\ \/ op = "I" /\ UNCHANGED <<cacheSets, counters>>
       \/ op # "I" /\ Access(op, addr)

Next == \E op \in Ops, addr \in Addr : Line(op, addr)

Spec == Init /\ [][Next]_vars
-----------------------------------------------------------------------------
(* Sizes stay within the array and tags within an int.                     *)
TypeOK ==
    /\ cacheSets \in [Sets -> [lines : Lines, size : 0 .. linePerSet]]
    /\ hit \in Nat /\ miss \in Nat /\ eviction \in Nat
    /\ read \in 0 .. MaxLines

(* What both scans of accessMem rely on: the lines in use are the first    *)
(* `size' ones and no tag occurs twice.  Otherwise a hit could rotate the  *)
(* wrong lines, or the loop of hitCacheLine run past the end of the set.   *)
SetsWellFormed ==
    \A s \in Sets :
        LET set == cacheSets[s]
        IN  /\ \A w \in Ways : set.lines[w].valid = 1 <=> w < set.size
            /\ \A v, w \in Ways : v < w /\ w < set.size => set.lines[v].tag # set.lines[w].tag

(* Every miss either filled a free line, for good, or evicted one.         *)
MissesFillOrEvict ==
    miss - eviction = SumFunction([s \in Sets |-> cacheSets[s].size])
=============================================================================
