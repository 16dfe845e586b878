----------------------------- MODULE CacheProofs ----------------------------
(***************************************************************************)
(* The invariants of module Cache, and that with the history of CacheLru   *)
(* it implements LruCache: for every geometry and every trace.             *)
(***************************************************************************)
EXTENDS CacheLru, DataLemmas, SequenceTheorems

(* One set of the cache: its type, and what SetsWellFormed says of it.     *)
CacheSet == [lines : Lines, size : 0 .. linePerSet]

WellFormed(set) ==
    /\ \A w \in Ways : set.lines[w].valid = 1 <=> w < set.size
    /\ \A v, w \in Ways : v < w /\ w < set.size => set.lines[v].tag # set.lines[w].tag

(* A lookup finds the one line in use that carries the tag, which is also  *)
(* the first line of all that carries it.                                  *)
LEMMA HitLine ==
    ASSUME NEW set \in CacheSet, WellFormed(set), NEW tag \in Tags
    PROVE  /\ hitWays(set, tag) = {w \in Ways : w < set.size /\ set.lines[w].tag = tag}
           /\ \A p \in hitWays(set, tag) : Min({w \in Ways : set.lines[w].tag = tag}) = p
<1>1. hitWays(set, tag) = {w \in Ways : w < set.size /\ set.lines[w].tag = tag}
  BY IntAssumption DEF hitWays, WellFormed, CacheSet, Lines
<1>2. ASSUME NEW p \in hitWays(set, tag)
      PROVE  Min({w \in Ways : set.lines[w].tag = tag}) = p
  <2> DEFINE M == {w \in Ways : set.lines[w].tag = tag}
  <2>1. M \in SUBSET Nat /\ p \in M
    BY <1>1 DEF Ways
  <2>2. Min(M) \in M /\ Min(M) <= p
    BY <2>1, MinOfNats
  <2>3. p < set.size /\ set.size \in Nat /\ p \in Nat /\ Min(M) \in Nat
    BY <1>1, <2>1, <2>2 DEF CacheSet
  <2>4. ~(Min(M) < p)
    BY <1>1, <2>2, <2>3 DEF WellFormed
  <2> QED
    BY <2>2, <2>3, <2>4
<1> QED
  BY <1>1, <1>2

(* What a hit in line p does to a set.                                     *)
LEMMA HitEffect ==
    ASSUME NEW set \in CacheSet, WellFormed(set), NEW tag \in Tags,
           NEW p \in hitWays(set, tag)
    PROVE  LET new == hitCacheLine(set, tag)
           IN  /\ new \in CacheSet /\ new.size = set.size
               /\ \A w \in Ways :
                    /\ new.lines[w].valid = set.lines[w].valid
                    /\ new.lines[w].tag = IF w = 0 THEN tag
                                          ELSE IF w <= p THEN set.lines[w - 1].tag
                                          ELSE set.lines[w].tag
               /\ WellFormed(new)
<1> DEFINE new == hitCacheLine(set, tag)
           moved(w) == IF w = 0 THEN tag ELSE IF w <= p THEN set.lines[w - 1].tag
                       ELSE set.lines[w].tag
<1>0. linePerSet \in Nat \ {0} /\ tag = set.lines[p].tag /\ p \in Ways /\ p < set.size
      /\ set.size \in 0 .. linePerSet
  BY HitLine, GeometryAssumption DEF CacheSet
<1>1. new = [set EXCEPT !.lines =
               [w \in Ways |-> [set.lines[w] EXCEPT !.tag = moved(w)]]]
  <2> DEFINE last == Min({w \in Ways : set.lines[w].tag = tag})
  <2>1. last = p
    BY HitLine
  <2>2. new = [set EXCEPT !.lines =
                 [w \in Ways |->
                   [set.lines[w] EXCEPT !.tag = IF w = 0 THEN tag
                                                ELSE IF w <= last THEN set.lines[w - 1].tag
                                                ELSE set.lines[w].tag]]]
    BY DEF hitCacheLine
  <2> HIDE DEF last, new
  <2> QED
    BY <2>1, <2>2
<1>2. \A w \in Ways : w # 0 => w - 1 \in Ways
  BY <1>0 DEF Ways
<1>3. \A w \in Ways : moved(w) \in Tags
  BY <1>2 DEF CacheSet, Lines
<1> HIDE DEF moved, new
<1>4. /\ new.size = set.size
      /\ new.lines = [w \in Ways |-> [set.lines[w] EXCEPT !.tag = moved(w)]]
      /\ new = [lines |-> new.lines, size |-> new.size]
  BY <1>1 DEF CacheSet
<1>5. \A w \in Ways : /\ [set.lines[w] EXCEPT !.tag = moved(w)]
                           \in [valid : {1, INVALID}, tag : Tags]
                      /\ [set.lines[w] EXCEPT !.tag = moved(w)].valid = set.lines[w].valid
                      /\ [set.lines[w] EXCEPT !.tag = moved(w)].tag = moved(w)
  BY <1>3 DEF CacheSet, Lines
<1>6. \A w \in Ways : new.lines[w].valid = set.lines[w].valid /\ new.lines[w].tag = moved(w)
  BY <1>4, <1>5
<1>7. new \in CacheSet
  BY <1>0, <1>4, <1>5 DEF CacheSet, Lines
<1>8. WellFormed(new)
  <2>1. \A w \in Ways : new.lines[w].valid = 1 <=> w < new.size
    BY <1>4, <1>6 DEF WellFormed
  <2>2. ASSUME NEW v \in Ways, NEW w \in Ways, v < w, w < new.size
        PROVE  new.lines[v].tag # new.lines[w].tag
    <3>1. \A x, y \in Ways : x < set.size /\ y < set.size /\ x # y =>
                               set.lines[x].tag # set.lines[y].tag
      BY <1>0 DEF WellFormed, Ways
    <3>2. w \in Nat /\ v \in Nat /\ p \in Nat /\ w < set.size /\ set.size \in Nat
      BY <1>0, <1>4, <2>2 DEF Ways
    <3>3. /\ w <= p => moved(w) = set.lines[w - 1].tag
          /\ ~(w <= p) => moved(w) = set.lines[w].tag
      BY <2>2, <3>2 DEF moved
    <3>4. CASE v = 0
      BY <1>0, <1>2, <1>6, <2>2, <3>1, <3>2, <3>3, <3>4 DEF moved
    <3>5. CASE v # 0
      <4>1. /\ v <= p => moved(v) = set.lines[v - 1].tag
            /\ ~(v <= p) => moved(v) = set.lines[v].tag
        BY <3>2, <3>5 DEF moved
      <4> QED
        BY <1>2, <1>6, <2>2, <3>1, <3>2, <3>3, <3>5, <4>1
    <3> QED
      BY <3>4, <3>5
  <2> QED
    BY <2>1, <2>2 DEF WellFormed
<1> QED
  BY <1>4, <1>6, <1>7, <1>8 DEF moved, new

(* What a miss does: the set grows if it can, and every tag moves down.    *)
LEMMA MissEffect ==
    ASSUME NEW set \in CacheSet, WellFormed(set), NEW tag \in Tags,
           hitWays(set, tag) = {}
    PROVE  LET new == addCacheLine(set, tag)
           IN  /\ new \in CacheSet
               /\ new.size = IF set.size < linePerSet THEN set.size + 1 ELSE set.size
               /\ \A w \in Ways : w < new.size =>
                    new.lines[w].tag = IF w = 0 THEN tag ELSE set.lines[w - 1].tag
               /\ WellFormed(new)
<1> DEFINE new  == addCacheLine(set, tag)
           size == IF set.size < linePerSet THEN set.size + 1 ELSE set.size
           line(w) == IF w >= size THEN set.lines[w]
                      ELSE [valid |-> 1, tag |-> IF w = 0 THEN tag ELSE set.lines[w - 1].tag]
<1>0. linePerSet \in Nat \ {0} /\ set.size \in 0 .. linePerSet
      /\ size \in 0 .. linePerSet /\ size > 0
  BY GeometryAssumption DEF CacheSet
<1>1. new = [lines |-> [w \in Ways |-> line(w)], size |-> size]
  BY DEF addCacheLine, pushed
<1>2. \A w \in Ways : w \in Nat /\ (w # 0 => w - 1 \in Ways)
  BY <1>0 DEF Ways
<1>3. \A w \in Ways : line(w) \in [valid : {1, INVALID}, tag : Tags]
  BY <1>2 DEF CacheSet, Lines
<1>4. \A w \in Ways :
        /\ w < size => line(w).valid = 1 /\ line(w).tag = IF w = 0 THEN tag ELSE set.lines[w - 1].tag
        /\ w >= size => line(w) = set.lines[w]
  BY <1>0, <1>2
<1> HIDE DEF line, new, size
<1>5. new.size = size /\ new.lines = [w \in Ways |-> line(w)] /\ new \in CacheSet
  BY <1>0, <1>1, <1>3 DEF CacheSet, Lines
<1>6. \A w \in Ways : new.lines[w] = line(w)
  BY <1>5
<1>7. WellFormed(new)
  <2>1. size = set.size \/ size = set.size + 1
    BY DEF size
  <2>2. \A w \in Ways : w >= size => line(w).valid # 1
    BY <1>0, <1>2, <1>4, <2>1, IntAssumption DEF WellFormed, CacheSet, Lines
  <2>3. \A w \in Ways : new.lines[w].valid = 1 <=> w < new.size
    BY <1>0, <1>2, <1>4, <1>5, <1>6, <2>2
  <2>4. ASSUME NEW v \in Ways, NEW w \in Ways, v < w, w < new.size
        PROVE  new.lines[v].tag # new.lines[w].tag
    <3>1. \A x \in Ways : x < set.size => set.lines[x].tag # tag
      BY HitLine
    <3>2. /\ w \in Nat /\ v \in Nat /\ w < size /\ w - 1 \in Ways /\ w - 1 < set.size
          /\ w # 0 /\ v < size /\ (v # 0 => v - 1 \in Ways /\ v - 1 < w - 1)
      BY <1>0, <1>2, <1>5, <2>1, <2>4
    <3>3. new.lines[w].tag = set.lines[w - 1].tag
          /\ new.lines[v].tag = IF v = 0 THEN tag ELSE set.lines[v - 1].tag
      BY <1>4, <1>6, <3>2
    <3>4. CASE v = 0
      BY <3>1, <3>2, <3>3, <3>4
    <3>5. CASE v # 0
      BY <3>2, <3>3, <3>5 DEF WellFormed
    <3> QED
      BY <3>4, <3>5
  <2> QED
    BY <2>3, <2>4 DEF WellFormed
<1> QED
  BY <1>4, <1>5, <1>6, <1>7 DEF new, size

(* accessMem either hits, and the set keeps its size, or misses; it then   *)
(* grows by a line, or evicts one.                                         *)
LEMMA AccessMemEffect ==
    ASSUME NEW set \in CacheSet, WellFormed(set), NEW tag \in Tags
    PROVE  LET acc == accessMem(set, tag)
           IN  /\ acc.set \in CacheSet /\ WellFormed(acc.set)
               /\ acc.res \in {"HIT", "MISS", "EVICTION"}
               /\ acc.set.size = set.size + (IF acc.res = "MISS" THEN 1 ELSE 0)
<1> DEFINE acc == accessMem(set, tag)
<1>0. set.size \in Nat
  BY DEF CacheSet
<1>1. CASE hitWays(set, tag) # {}
  <2>1. acc.set = hitCacheLine(set, tag) /\ acc.res = "HIT"
    BY <1>1 DEF accessMem
  <2>2. PICK p \in hitWays(set, tag) : TRUE
    BY <1>1
  <2>3. acc.set \in CacheSet /\ WellFormed(acc.set) /\ acc.set.size = set.size
    BY <2>1, <2>2, HitEffect
  <2> QED
    BY <1>0, <2>1, <2>3
<1>2. CASE hitWays(set, tag) = {}
  <2>1. acc.set = addCacheLine(set, tag)
        /\ acc.res = IF set.size < linePerSet THEN "MISS" ELSE "EVICTION"
    BY <1>2 DEF accessMem
  <2>2. /\ acc.set \in CacheSet /\ WellFormed(acc.set)
        /\ acc.set.size = IF set.size < linePerSet THEN set.size + 1 ELSE set.size
    BY <1>2, <2>1, MissEffect
  <2> QED
    BY <1>0, <2>1, <2>2
<1> QED
  BY <1>1, <1>2

(* An address has a set and a tag.                                         *)
LEMMA AddressParts ==
    ASSUME NEW addr \in Addr
    PROVE  /\ block(addr) \in Nat
           /\ setIndex(addr) \in Sets /\ tagIndex(addr) \in Tags
<1>1. addr \in Nat /\ 2^offsetBits \in Nat \ {0} /\ 2^setBits \in Nat \ {0}
      /\ 2^IntBits \in Nat \ {0}
  BY TraceAssumption, PowerAssumption
<1>2. block(addr) \in Nat
  BY <1>1 DEF block
<1>3. setIndex(addr) \in Sets
  BY <1>1, <1>2 DEF setIndex, Sets
<1>4. block(addr) \div 2^setBits \in Int
  BY <1>1, <1>2
<1>5. tagIndex(addr) \in Tags
  BY <1>1, <1>4, DivMod DEF tagIndex, Tags
<1> QED
  BY <1>2, <1>3, <1>5

(* There are finitely many sets.                                           *)
LEMMA SetsAreFinite == IsFiniteSet(Sets)
  BY PowerAssumption, FS_Interval DEF Sets

Sizes(sets) == [s \in Sets |-> sets[s].size]

(* The inductive invariant: the three invariants together.                 *)
IInv == TypeOK /\ SetsWellFormed /\ MissesFillOrEvict

(* The invariants, said set by set.                                        *)
LEMMA EachSet ==
    /\ TypeOK => /\ cacheSets \in [Sets -> CacheSet]
                 /\ hit \in Nat /\ miss \in Nat /\ eviction \in Nat
    /\ SetsWellFormed <=> \A s \in Sets : WellFormed(cacheSets[s])
    /\ MissesFillOrEvict <=> miss - eviction = SumFunctionOnSet(Sizes(cacheSets), Sets)
<1>1. SumFunction(Sizes(cacheSets)) = SumFunctionOnSet(Sizes(cacheSets), Sets)
  BY DEF SumFunction, Sizes
<1> QED
  BY <1>1 DEF TypeOK, CacheSet, SetsWellFormed, WellFormed, MissesFillOrEvict, Sizes

(* The empty cache satisfies them.                                         *)
LEMMA InitIInv == Init => IInv
<1> SUFFICES ASSUME Init PROVE IInv
  OBVIOUS
<1>0. linePerSet \in Nat \ {0} /\ INVALID \in Tags /\ INVALID # 1
  BY GeometryAssumption, IntAssumption DEF Tags
<1>1. initCacheSet \in CacheSet /\ initCacheSet.size = 0 /\ WellFormed(initCacheSet)
  <2>1. \A w \in Ways : w \in Nat
    BY DEF Ways
  <2> QED
    BY <1>0, <2>1 DEF initCacheSet, CacheSet, Lines, WellFormed
<1>2. cacheSets \in [Sets -> CacheSet] /\ \A s \in Sets : cacheSets[s] = initCacheSet
  BY <1>1 DEF Init
<1>3. TypeOK
  BY <1>2, TraceAssumption DEF Init, TypeOK, CacheSet
<1>4. SetsWellFormed
  BY <1>1, <1>2, EachSet
<1>5. MissesFillOrEvict
  <2> DEFINE zero == [s \in Sets |-> 0]
             Empty == {s \in Sets : FALSE}
  <2>1. \A D \in SUBSET Sets : IsFiniteSet(D)
    BY SetsAreFinite, FS_Subset
  <2>2. SumFunctionOnSet(Sizes(cacheSets), Sets) = 0
    <3> DEFINE z == Sizes(cacheSets)
    <3>1. \A s \in Sets : z[s] = 0
      BY <1>1, <1>2 DEF Sizes
    <3> HIDE DEF z
    <3>2. SumFunctionOnSet(z, Sets) = 0
      BY <3>1, SetsAreFinite, SumOfZeros
    <3> QED
      BY <3>2 DEF z
  <2> QED
    BY <2>2, EachSet DEF Init
<1> QED
  BY <1>3, <1>4, <1>5 DEF IInv

(* One use of a line, or the two of a modify, preserves them.              *)
LEMMA AccessIInv ==
    ASSUME IInv, NEW op \in Ops, NEW addr \in Addr, Access(op, addr),
           read' \in 0 .. MaxLines
    PROVE  IInv'
<1> DEFINE s   == setIndex(addr)
           acc == accessMem(cacheSets[s], tagIndex(addr))
<1>1. s \in Sets /\ tagIndex(addr) \in Tags
  BY AddressParts
<1>2. /\ cacheSets \in [Sets -> CacheSet] /\ \A x \in Sets : WellFormed(cacheSets[x])
      /\ hit \in Nat /\ miss \in Nat /\ eviction \in Nat
      /\ miss - eviction = SumFunctionOnSet(Sizes(cacheSets), Sets)
  BY EachSet DEF IInv
<1>3. /\ acc.set \in CacheSet /\ WellFormed(acc.set)
      /\ acc.res \in {"HIT", "MISS", "EVICTION"}
      /\ acc.set.size = cacheSets[s].size + (IF acc.res = "MISS" THEN 1 ELSE 0)
  BY <1>1, <1>2, AccessMemEffect
<1>4. /\ cacheSets' = [cacheSets EXCEPT ![s] = acc.set]
      /\ hit' = hit + (IF acc.res = "HIT" THEN 1 ELSE 0) + (IF op = "M" THEN 1 ELSE 0)
      /\ miss' = miss + (IF acc.res # "HIT" THEN 1 ELSE 0)
      /\ eviction' = eviction + (IF acc.res = "EVICTION" THEN 1 ELSE 0)
  BY DEF Access
<1> HIDE DEF s, acc
<1>5. /\ cacheSets' \in [Sets -> CacheSet]
      /\ cacheSets'[s] = acc.set /\ \A x \in Sets \ {s} : cacheSets'[x] = cacheSets[x]
  BY <1>1, <1>2, <1>3, <1>4
<1>6. TypeOK'
  BY <1>2, <1>3, <1>4, <1>5 DEF TypeOK, CacheSet
<1>7. \A x \in Sets : WellFormed(cacheSets'[x])
  BY <1>2, <1>3, <1>5
<1>8. miss' - eviction' = SumFunctionOnSet(Sizes(cacheSets'), Sets)
  <2> DEFINE before == Sizes(cacheSets)
             after  == Sizes(cacheSets')
  <2>1. /\ \A x \in Sets : before[x] \in Int /\ after[x] \in Int
        /\ \A x \in Sets \ {s} : before[x] = after[x]
        /\ before[s] = cacheSets[s].size /\ after[s] = acc.set.size
    BY <1>1, <1>2, <1>5 DEF Sizes, CacheSet
  <2> HIDE DEF before, after
  <2>21. \A x \in Sets : before[x] \in Int /\ after[x] \in Int
    BY <2>1
  <2>22. \A x \in Sets \ {s} : before[x] = after[x]
    BY <2>1
  <2>2. SumFunctionOnSet(after, Sets) = SumFunctionOnSet(before, Sets) - before[s] + after[s]
    BY <1>1, <2>21, <2>22, SetsAreFinite, SumOneChanged
  <2>3. SumFunctionOnSet(before, Sets) \in Int
    BY <2>1, SetsAreFinite, SumType
  <2>4. before[s] \in Int /\ after[s] = before[s] + (IF acc.res = "MISS" THEN 1 ELSE 0)
    BY <1>1, <1>3, <2>1
  <2>5. miss - eviction = SumFunctionOnSet(before, Sets)
    BY <1>2 DEF before
  <2>6. miss' - eviction' = miss - eviction + (IF acc.res = "MISS" THEN 1 ELSE 0)
    BY <1>2, <1>3, <1>4
  <2>7. miss' - eviction' = SumFunctionOnSet(after, Sets)
    BY <2>2, <2>3, <2>4, <2>5, <2>6
  <2> QED
    BY <2>7 DEF after
<1>9. SetsWellFormed' /\ MissesFillOrEvict'
  <2>1. SumFunction(Sizes(cacheSets')) = SumFunctionOnSet(Sizes(cacheSets'), Sets)
    BY DEF SumFunction, Sizes
  <2> QED
    BY <1>7, <1>8, <2>1 DEF SetsWellFormed, WellFormed, MissesFillOrEvict, Sizes
<1> QED
  BY <1>6, <1>9 DEF IInv

(* So does every line of the trace.                                        *)
LEMMA NextIInv == IInv /\ [Next]_vars => IInv'
<1> SUFFICES ASSUME IInv, [Next]_vars PROVE IInv'
  OBVIOUS
<1>1. ASSUME NEW op \in Ops, NEW addr \in Addr, Line(op, addr) PROVE IInv'
  <2>1. read' \in 0 .. MaxLines
    BY <1>1, TraceAssumption DEF Line, IInv, TypeOK
  <2>2. CASE UNCHANGED <<cacheSets, counters>>
    BY <2>1, <2>2 DEF counters, IInv, TypeOK, SetsWellFormed, MissesFillOrEvict
  <2>3. CASE Access(op, addr)
    BY <2>1, <2>3, AccessIInv
  <2> QED
    BY <1>1, <2>2, <2>3 DEF Line
<1>2. CASE UNCHANGED vars
  BY <1>2 DEF vars, counters, IInv, TypeOK, SetsWellFormed, MissesFillOrEvict
<1> QED
  BY <1>1, <1>2 DEF Next

(* So they hold throughout every trace.                                    *)
LEMMA CacheInvariant == Spec => []IInv
  BY InitIInv, NextIInv, PTL DEF Spec

(* Sizes stay within the arrays, and tags within an int (cache.c,          *)
(* addCacheLine, splitAddr).                                               *)
THEOREM TypesHold == Spec => []TypeOK
<1>1. IInv => TypeOK
  BY DEF IInv
<1> QED
  BY <1>1, CacheInvariant, PTL

(* The lines in use come first and carry different tags, after any trace:  *)
(* what both scans of accessMem and the loop of hitCacheLine rely on.      *)
THEOREM ScansAreSafe == Spec => []SetsWellFormed
<1>1. IInv => SetsWellFormed
  BY DEF IInv
<1> QED
  BY <1>1, CacheInvariant, PTL

(* Every miss has filled a line or evicted one (analyseOneLine counts an   *)
(* eviction as a miss too).                                                *)
THEOREM MissesAreAccounted == Spec => []MissesFillOrEvict
<1>1. IInv => MissesFillOrEvict
  BY DEF IInv
<1> QED
  BY <1>1, CacheInvariant, PTL
-----------------------------------------------------------------------------
(* The hypothesis of the comparison: what splitAddr keeps of a tag in an   *)
(* int is the whole tag, as in the traces of the lab.  With longer         *)
(* addresses two blocks can share a tag, and csim reports hits that no     *)
(* cache would have.                                                       *)
TagsFit == \A addr \in Addr : block(addr) \div 2^setBits < 2^IntBits

(* The blocks of set s whose tags fit.                                     *)
tagOf(b)  == b \div 2^setBits
Blocks(s) == {b \in Nat : b % 2^setBits = s /\ tagOf(b) < 2^IntBits}

NoRepeats(hist) == \A i, j \in 1 .. Len(hist) : hist[i] = hist[j] => i = j

(* The lines in use hold the tags of the blocks used last, in order.       *)
Tracks(set, hist) ==
    /\ set.size = IF Len(hist) < linePerSet THEN Len(hist) ELSE linePerSet
    /\ \A w \in Ways : w < set.size => set.lines[w].tag = tagOf(hist[w + 1])

LruInv ==
    /\ IInv
    /\ recency \in [Sets -> Seq(Nat)]
    /\ \A s \in Sets : /\ recency[s] \in Seq(Blocks(s))
                       /\ NoRepeats(recency[s])
                       /\ Tracks(cacheSets[s], recency[s])

(* Within a set, blocks that fit have tags of their own.                   *)
LEMMA TagsTellBlocks ==
    ASSUME NEW s \in Sets, NEW a \in Blocks(s), NEW b \in Blocks(s), tagOf(a) = tagOf(b)
    PROVE  a = b
<1> DEFINE d == 2^setBits
<1>1. d \in Nat \ {0}
  BY PowerAssumption
<1>2. a \in Nat /\ b \in Nat /\ a % d = b % d /\ a \div d = b \div d
  BY DEF Blocks, tagOf
<1> HIDE DEF d
<1>3. a = d * (a \div d) + (a % d) /\ b = d * (b \div d) + (b % d)
  BY <1>1, <1>2, DivMod
<1> QED
  BY <1>2, <1>3

(* What RemoveFirst leaves of a sequence without repetitions.              *)
LEMMA RemoveFirstEffect ==
    ASSUME NEW S, NEW hist \in Seq(S), NoRepeats(hist), NEW b,
           NEW p \in 1 .. Len(hist), hist[p] = b
    PROVE  LET rest == RemoveFirst(hist, b)
           IN  /\ rest \in Seq(S) /\ Len(rest) = Len(hist) - 1
               /\ \A i \in 1 .. Len(hist) - 1 : rest[i] = hist[IF i < p THEN i ELSE i + 1]
<1> DEFINE I == {i \in 1 .. Len(hist) : hist[i] = b}
<1>1. I = {p} /\ I # {} /\ p \in Nat
  BY LenProperties DEF NoRepeats
<1>2. Min(I) = p
  <2>1. {p} \in SUBSET Nat /\ {p} # {}
    BY <1>1
  <2>2. Min({p}) \in {p}
    BY <2>1, MinOfNats
  <2> QED
    BY <1>1, <2>2
<1>3. RemoveFirst(hist, b) = RemoveAt(hist, p)
  BY <1>1, <1>2 DEF RemoveFirst, SelectInSeq
<1> QED
  BY <1>3, RemoveAtEffect

(* A use of block b moves it to the front of the history.                  *)
Used(hist, b) == <<b>> \o RemoveFirst(hist, b)

(* What using a block does to a history: it comes to the front, what was   *)
(* before it moves back by one, and nothing is repeated.                   *)
LEMMA UsedEffect ==
    ASSUME NEW S, NEW hist \in Seq(S), NoRepeats(hist), NEW b \in S
    PROVE  LET new == Used(hist, b)
           IN  /\ new \in Seq(S) /\ Len(new) \in Nat /\ Len(new) >= 1 /\ new[1] = b
               /\ \A p \in 1 .. Len(hist) : hist[p] = b =>
                    /\ Len(new) = Len(hist)
                    /\ \A i \in 2 .. Len(hist) : new[i] = hist[IF i <= p THEN i - 1 ELSE i]
               /\ (\A p \in 1 .. Len(hist) : hist[p] # b) =>
                    /\ Len(new) = Len(hist) + 1
                    /\ \A i \in 2 .. Len(hist) + 1 : new[i] = hist[i - 1]
               /\ NoRepeats(new)
<1> DEFINE new  == Used(hist, b)
           rest == RemoveFirst(hist, b)
<1>0. Len(hist) \in Nat /\ <<b>> \in Seq(S) /\ Len(<<b>>) = 1 /\ <<b>>[1] = b
  BY LenProperties
<1>1. ASSUME rest \in Seq(S)
      PROVE  /\ new \in Seq(S) /\ Len(new) = 1 + Len(rest) /\ Len(rest) \in Nat /\ new[1] = b
             /\ \A i \in 2 .. 1 + Len(rest) : new[i] = rest[i - 1]
  <2>1. Len(rest) \in Nat
    BY <1>1, LenProperties
  <2>2. /\ <<b>> \o rest \in Seq(S) /\ Len(<<b>> \o rest) = Len(<<b>>) + Len(rest)
        /\ \A i \in 1 .. Len(<<b>>) + Len(rest) : (<<b>> \o rest)[i] =
              IF i <= Len(<<b>>) THEN <<b>>[i] ELSE rest[i - Len(<<b>>)]
    BY <1>0, <1>1, ConcatProperties
  <2>3. new = <<b>> \o rest
    BY DEF Used
  <2> HIDE DEF new, rest
  <2> QED
    BY <1>0, <2>1, <2>2, <2>3
<1>2. ASSUME NEW p \in 1 .. Len(hist), hist[p] = b
      PROVE  /\ new \in Seq(S) /\ Len(new) = Len(hist) /\ new[1] = b /\ NoRepeats(new)
             /\ \A i \in 2 .. Len(hist) : new[i] = hist[IF i <= p THEN i - 1 ELSE i]
  <2>1. /\ rest \in Seq(S) /\ Len(rest) = Len(hist) - 1
        /\ \A i \in 1 .. Len(hist) - 1 : rest[i] = hist[IF i < p THEN i ELSE i + 1]
    BY <1>2, RemoveFirstEffect
  <2>2. /\ new \in Seq(S) /\ Len(new) = Len(hist) /\ new[1] = b
        /\ \A i \in 2 .. Len(hist) : new[i] = rest[i - 1]
    BY <1>0, <1>1, <2>1
  <2> HIDE DEF new, rest
  <2>3. \A i \in 2 .. Len(hist) : new[i] = hist[IF i <= p THEN i - 1 ELSE i]
    BY <1>0, <2>1, <2>2
  <2>4. ASSUME NEW i \in 1 .. Len(new), NEW j \in 1 .. Len(new), new[i] = new[j] PROVE i = j
    <3>1. \A k \in 1 .. Len(hist) :
            new[k] = hist[IF k = 1 THEN p ELSE IF k <= p THEN k - 1 ELSE k]
      BY <1>0, <1>2, <2>2, <2>3
    <3> DEFINE f(k) == IF k = 1 THEN p ELSE IF k <= p THEN k - 1 ELSE k
    <3>2. new[i] = hist[f(i)] /\ new[j] = hist[f(j)]
          /\ f(i) \in 1 .. Len(hist) /\ f(j) \in 1 .. Len(hist)
      BY <1>0, <2>2, <3>1
    <3>3. f(i) = f(j)
      BY <2>4, <3>2 DEF NoRepeats
    <3> QED
      BY <1>0, <2>2, <3>3
  <2> QED
    BY <2>2, <2>3, <2>4 DEF NoRepeats
<1>3. ASSUME \A p \in 1 .. Len(hist) : hist[p] # b
      PROVE  /\ new \in Seq(S) /\ Len(new) = Len(hist) + 1 /\ new[1] = b /\ NoRepeats(new)
             /\ \A i \in 2 .. Len(hist) + 1 : new[i] = hist[i - 1]
  <2>1. rest = hist
    BY <1>3 DEF RemoveFirst
  <2>2. /\ new \in Seq(S) /\ Len(new) = Len(hist) + 1 /\ new[1] = b
        /\ \A i \in 2 .. Len(hist) + 1 : new[i] = hist[i - 1]
    BY <1>0, <1>1, <2>1
  <2> HIDE DEF new, rest
  <2>3. ASSUME NEW i \in 1 .. Len(new), NEW j \in 1 .. Len(new), new[i] = new[j] PROVE i = j
    <3>1. \A k \in 1 .. Len(new) : k # 1 => k - 1 \in 1 .. Len(hist) /\ new[k] = hist[k - 1]
      BY <1>0, <2>2
    <3>2. i = 1 <=> j = 1
      BY <1>3, <2>2, <2>3, <3>1
    <3>3. i # 1 /\ j # 1 => i - 1 = j - 1
      BY <2>3, <3>1 DEF NoRepeats
    <3> QED
      BY <1>0, <2>2, <3>2, <3>3
  <2> QED
    BY <2>2, <2>3 DEF NoRepeats
<1>4. CASE \E p \in 1 .. Len(hist) : hist[p] = b
  <2>1. PICK p \in 1 .. Len(hist) : hist[p] = b
    BY <1>4
  <2>2. /\ new \in Seq(S) /\ Len(new) = Len(hist) /\ new[1] = b /\ NoRepeats(new)
    BY <1>2, <2>1
  <2> HIDE DEF new
  <2> QED
    BY <1>0, <1>2, <2>1, <2>2 DEF new
<1>5. CASE \A p \in 1 .. Len(hist) : hist[p] # b
  BY <1>0, <1>3, <1>5
<1> QED
  BY <1>4, <1>5

(* A second use changes nothing.                                           *)
LEMMA UsedTwice ==
    ASSUME NEW S, NEW hist \in Seq(S), NoRepeats(hist), NEW b \in S
    PROVE  Used(Used(hist, b), b) = Used(hist, b)
<1> DEFINE new == Used(hist, b)
           two == Used(new, b)
<1>1. new \in Seq(S) /\ Len(new) \in Nat /\ Len(new) >= 1 /\ new[1] = b /\ NoRepeats(new)
  BY UsedEffect
<1> HIDE DEF new
<1>2. /\ two \in Seq(S) /\ two[1] = b /\ Len(two) = Len(new)
      /\ \A i \in 2 .. Len(new) : two[i] = new[IF i <= 1 THEN i - 1 ELSE i]
  <2>1. 1 \in 1 .. Len(new)
    BY <1>1
  <2>2. /\ two \in Seq(S) /\ two[1] = b
        /\ \A p \in 1 .. Len(new) : new[p] = b =>
             /\ Len(two) = Len(new)
             /\ \A i \in 2 .. Len(new) : two[i] = new[IF i <= p THEN i - 1 ELSE i]
    BY <1>1, UsedEffect
  <2> HIDE DEF two
  <2> QED
    BY <1>1, <2>1, <2>2
<1> HIDE DEF two
<1>3. \A i \in 1 .. Len(two) : two[i] = new[i]
  BY <1>1, <1>2
<1>4. two = new
  BY <1>1, <1>2, <1>3, SeqEqual
<1> QED
  BY <1>4 DEF two, new

(* What the access of a block does to its set and its history together.    *)
LEMMA AccessTracks ==
    ASSUME NEW s \in Sets, NEW set \in CacheSet, WellFormed(set),
           NEW hist \in Seq(Blocks(s)), NoRepeats(hist), Tracks(set, hist),
           NEW b \in Blocks(s), tagOf(b) \in Tags
    PROVE  LET acc == accessMem(set, tagOf(b))
               hits == \E i \in 1 .. Len(hist) : hist[i] = b /\ i <= linePerSet
           IN  /\ Tracks(acc.set, Used(hist, b))
               /\ acc.res = IF hits THEN "HIT"
                            ELSE IF Len(hist) >= linePerSet THEN "EVICTION" ELSE "MISS"
<1> DEFINE acc  == accessMem(set, tagOf(b))
           new  == Used(hist, b)
           ways == hitWays(set, tagOf(b))
<1>0. /\ linePerSet \in Nat \ {0} /\ Len(hist) \in Nat /\ set.size \in Nat
      /\ set.size <= linePerSet
      /\ set.size <= Len(hist) /\ (set.size < linePerSet => set.size = Len(hist))
      /\ \A i \in 1 .. Len(hist) : hist[i] \in Blocks(s)
      /\ \A w \in Ways : w \in Nat
  BY GeometryAssumption, LenProperties, ElementOfSeq DEF CacheSet, Tracks, Ways
<1>1. \A w \in Ways : w \in ways <=> w < set.size /\ hist[w + 1] = b
  <2>1. ways = {w \in Ways : w < set.size /\ set.lines[w].tag = tagOf(b)}
    BY HitLine
  <2>2. \A w \in Ways : w < set.size => w + 1 \in 1 .. Len(hist)
                                        /\ set.lines[w].tag = tagOf(hist[w + 1])
    BY <1>0 DEF Tracks
  <2>3. \A w \in Ways : w < set.size => (tagOf(hist[w + 1]) = tagOf(b) <=> hist[w + 1] = b)
    BY <1>0, <2>2, TagsTellBlocks
  <2> HIDE DEF ways
  <2> QED
    BY <2>1, <2>2, <2>3
<1>2. \A i \in 1 .. Len(hist) : hist[i] = b /\ i <= linePerSet => i - 1 \in ways
  <2>1. \A i \in 1 .. Len(hist) : i <= linePerSet =>
          i - 1 \in Ways /\ i - 1 < set.size /\ (i - 1) + 1 = i
    BY <1>0 DEF Ways
  <2> HIDE DEF ways
  <2> QED
    BY <1>1, <2>1
<1>3. \A w \in ways : w \in Ways /\ w < set.size /\ w + 1 \in 1 .. Len(hist)
                      /\ hist[w + 1] = b /\ w + 1 <= linePerSet
  BY <1>0, <1>1 DEF hitWays, Ways
<1>4. /\ new \in Seq(Blocks(s)) /\ Len(new) \in Nat /\ Len(new) >= 1 /\ new[1] = b
      /\ \A p \in 1 .. Len(hist) : hist[p] = b =>
           /\ Len(new) = Len(hist)
           /\ \A i \in 2 .. Len(hist) : new[i] = hist[IF i <= p THEN i - 1 ELSE i]
      /\ (\A p \in 1 .. Len(hist) : hist[p] # b) =>
           /\ Len(new) = Len(hist) + 1
           /\ \A i \in 2 .. Len(hist) + 1 : new[i] = hist[i - 1]
      /\ NoRepeats(new)
  <2> HIDE DEF Blocks, acc, ways
  <2> QED
    BY UsedEffect
<1> HIDE DEF new
<1>5. CASE ways # {}
  <2>1. PICK p \in ways : TRUE
    BY <1>5
  <2>2. acc.set = hitCacheLine(set, tagOf(b)) /\ acc.res = "HIT"
    BY <1>5 DEF accessMem
  <2>3. /\ p \in Ways /\ p \in Nat /\ p < set.size /\ p + 1 \in 1 .. Len(hist)
        /\ hist[p + 1] = b /\ p + 1 <= linePerSet
    BY <1>0, <1>3, <2>1
  <2>4. /\ Len(new) = Len(hist)
        /\ \A i \in 2 .. Len(hist) : new[i] = hist[IF i <= p + 1 THEN i - 1 ELSE i]
    BY <1>4, <2>3
  <2>5. /\ acc.set.size = set.size
        /\ \A w \in Ways : acc.set.lines[w].tag = IF w = 0 THEN tagOf(b)
                                                  ELSE IF w <= p THEN set.lines[w - 1].tag
                                                  ELSE set.lines[w].tag
    BY <2>1, <2>2, HitEffect
  <2> HIDE DEF acc, ways
  <2>6. ASSUME NEW w \in Ways, w < set.size
        PROVE  acc.set.lines[w].tag = tagOf(new[w + 1])
    <3>1. CASE w = 0
      BY <1>4, <2>5, <3>1
    <3>2. CASE w # 0 /\ w <= p
      <4>1. /\ w - 1 \in Ways /\ w - 1 < set.size /\ (w - 1) + 1 = w
            /\ w + 1 \in 2 .. Len(hist) /\ (w + 1) - 1 = w /\ w + 1 <= p + 1
        BY <1>0, <2>3, <2>6, <3>2 DEF Ways
      <4>2. set.lines[w - 1].tag = tagOf(hist[w])
        BY <4>1 DEF Tracks
      <4>3. new[w + 1] = hist[w]
        BY <2>4, <4>1
      <4> QED
        BY <2>5, <3>2, <4>2, <4>3
    <3>3. CASE w # 0 /\ ~(w <= p)
      <4>1. w + 1 \in 2 .. Len(hist) /\ ~(w + 1 <= p + 1)
        BY <1>0, <2>3, <2>6, <3>3
      <4>2. new[w + 1] = hist[w + 1]
        BY <2>4, <4>1
      <4> QED
        BY <2>5, <2>6, <3>3, <4>2 DEF Tracks
    <3> QED
      BY <3>1, <3>2, <3>3
  <2>7. Tracks(acc.set, new)
    BY <2>4, <2>5, <2>6 DEF Tracks
  <2>8. \E i \in 1 .. Len(hist) : hist[i] = b /\ i <= linePerSet
    BY <2>3
  <2> QED
    BY <2>2, <2>7, <2>8 DEF acc, new
<1>6. CASE ways = {}
  <2>1. acc.set = addCacheLine(set, tagOf(b))
        /\ acc.res = IF set.size < linePerSet THEN "MISS" ELSE "EVICTION"
    BY <1>6 DEF accessMem
  <2>2. /\ acc.set.size = IF set.size < linePerSet THEN set.size + 1 ELSE set.size
        /\ \A w \in Ways : w < acc.set.size =>
             acc.set.lines[w].tag = IF w = 0 THEN tagOf(b) ELSE set.lines[w - 1].tag
    BY <1>6, <2>1, MissEffect
  <2>3. \A i \in 1 .. Len(hist) : hist[i] = b => i > linePerSet
    BY <1>0, <1>2, <1>6
  <2> HIDE DEF acc, ways
  <2>4. /\ Len(new) = Len(hist) \/ Len(new) = Len(hist) + 1
        /\ Len(new) = Len(hist) => Len(hist) > linePerSet
        /\ \A i \in 2 .. Len(new) : i <= linePerSet => new[i] = hist[i - 1]
    <3>1. CASE \E p \in 1 .. Len(hist) : hist[p] = b
      <4>1. PICK p \in 1 .. Len(hist) : hist[p] = b
        BY <3>1
      <4>2. p \in Nat /\ p <= Len(hist) /\ p > linePerSet
        BY <1>0, <2>3, <4>1
      <4>3. /\ Len(new) = Len(hist)
            /\ \A i \in 2 .. Len(hist) : new[i] = hist[IF i <= p THEN i - 1 ELSE i]
        BY <1>4, <4>1
      <4> DEFINE len == Len(hist)
      <4>4. \A i \in 2 .. len : i <= linePerSet => i <= p
        BY <1>0, <4>2
      <4>5. len > linePerSet
        BY <1>0, <4>2
      <4> HIDE DEF new, len
      <4> QED
        BY <4>3, <4>4, <4>5 DEF len
    <3>2. CASE \A p \in 1 .. Len(hist) : hist[p] # b
      BY <1>0, <1>4, <3>2
    <3> QED
      BY <3>1, <3>2
  <2>5. acc.set.size = IF Len(new) < linePerSet THEN Len(new) ELSE linePerSet
    BY <1>0, <2>2, <2>4
  <2>6. ASSUME NEW w \in Ways, w < acc.set.size
        PROVE  acc.set.lines[w].tag = tagOf(new[w + 1])
    <3>1. CASE w = 0
      BY <1>4, <2>2, <2>6, <3>1
    <3>2. CASE w # 0
      <4>1. /\ w - 1 \in Ways /\ w - 1 < set.size /\ (w - 1) + 1 = w
            /\ w + 1 \in 2 .. Len(new) /\ w + 1 <= linePerSet /\ (w + 1) - 1 = w
        BY <1>0, <2>2, <2>4, <2>6, <3>2 DEF Ways
      <4>2. set.lines[w - 1].tag = tagOf(hist[w])
        BY <4>1 DEF Tracks
      <4>3. new[w + 1] = hist[w]
        BY <2>4, <4>1
      <4> QED
        BY <2>2, <2>6, <3>2, <4>2, <4>3
    <3> QED
      BY <3>1, <3>2
  <2>7. Tracks(acc.set, new)
    BY <2>5, <2>6 DEF Tracks
  <2>8. acc.res = IF Len(hist) >= linePerSet THEN "EVICTION" ELSE "MISS"
    BY <1>0, <2>1
  <2>9. ~ \E i \in 1 .. Len(hist) : hist[i] = b /\ i <= linePerSet
    BY <1>0, <2>3
  <2> QED
    BY <2>7, <2>8, <2>9 DEF acc, new
<1> QED
  BY <1>5, <1>6

(* Every address has a block, a set and a tag that fit, if the tag fits    *)
(* its int.                                                                *)
LEMMA BlockFits ==
    ASSUME TagsFit, NEW addr \in Addr
    PROVE  /\ setIndex(addr) \in Sets /\ block(addr) \in Blocks(setIndex(addr))
           /\ tagIndex(addr) = tagOf(block(addr)) /\ tagIndex(addr) \in Tags
<1>1. block(addr) \in Nat /\ setIndex(addr) \in Sets /\ tagIndex(addr) \in Tags
  BY AddressParts
<1>2. 2^setBits \in Nat \ {0} /\ 2^IntBits \in Nat \ {0}
  BY PowerAssumption
<1>3. tagOf(block(addr)) \in Nat /\ tagOf(block(addr)) < 2^IntBits
  BY <1>1, <1>2 DEF TagsFit, tagOf
<1>4. tagOf(block(addr)) % 2^IntBits = tagOf(block(addr))
  <2> DEFINE t == tagOf(block(addr))
             d == 2^IntBits
  <2>1. t \in Nat /\ t < d /\ d \in Nat \ {0}
    BY <1>2, <1>3
  <2> HIDE DEF t, d
  <2>2. t % d = t
    BY <2>1
  <2> QED
    BY <2>2 DEF t, d
<1> QED
  BY <1>1, <1>3, <1>4 DEF Blocks, setIndex, tagIndex, tagOf

(* The empty cache matches the empty history.                              *)
LEMMA InitLruInv == HInit => LruInv /\ Lru!Init
<1> SUFFICES ASSUME HInit PROVE LruInv /\ Lru!Init
  OBVIOUS
<1>1. IInv
  BY InitIInv DEF HInit
<1>2. recency = [s \in Sets |-> <<>>] /\ \A s \in Sets : recency[s] = <<>>
  BY DEF HInit, HistoryInit
<1>3. \A S : <<>> \in Seq(S) /\ Len(<<>>) = 0
  BY EmptySeq
<1>4. ASSUME NEW s \in Sets
      PROVE  /\ recency[s] \in Seq(Blocks(s)) /\ NoRepeats(recency[s])
             /\ Tracks(cacheSets[s], recency[s])
  <2>1. recency[s] = <<>> /\ cacheSets[s].size = 0
    BY <1>2 DEF HInit, Init, initCacheSet
  <2>2. linePerSet > 0 /\ \A w \in Ways : ~(w < 0)
    BY GeometryAssumption DEF Ways
  <2> QED
    BY <1>3, <2>1, <2>2 DEF NoRepeats, Tracks
<1>5. recency \in [Sets -> Seq(Nat)]
  BY <1>2, <1>3
<1>6. Lru!Init
  BY <1>2 DEF HInit, Init, Lru!Init, Sets
<1> QED
  BY <1>1, <1>4, <1>5, <1>6 DEF LruInv

(* What one use of a block is, with its hit spelled out.                   *)
Hits(hist, b) == \E i \in {j \in 1 .. Len(hist) : hist[j] = b} : i <= linePerSet

(* One use, as LruCache counts it.                                         *)
LEMMA UseEffect ==
    ASSUME NEW st, NEW b
    PROVE  LET new == Lru!Use(st, b)
           IN  /\ new.recency = Used(st.recency, b)
               /\ new.hit = st.hit + (IF Hits(st.recency, b) THEN 1 ELSE 0)
               /\ new.miss = st.miss + (IF Hits(st.recency, b) THEN 0 ELSE 1)
               /\ new.eviction = st.eviction
                    + (IF ~Hits(st.recency, b) /\ Len(st.recency) >= linePerSet THEN 1 ELSE 0)
<1>0. Lru!RemoveFirst(st.recency, b) = RemoveFirst(st.recency, b)
  <2>1. Lru!SelectInSeq(st.recency, LAMBDA v : v = b) = SelectInSeq(st.recency, LAMBDA v : v = b)
    BY DEF Lru!SelectInSeq, SelectInSeq, Lru!Min, Min
  <2> QED
    BY <2>1 DEF Lru!RemoveFirst, RemoveFirst, Lru!RemoveAt, RemoveAt
<1>1. Lru!Use(st, b) =
        [recency  |-> Used(st.recency, b),
         hit      |-> st.hit + (IF Hits(st.recency, b) THEN 1 ELSE 0),
         miss     |-> st.miss + (IF Hits(st.recency, b) THEN 0 ELSE 1),
         eviction |-> st.eviction
           + (IF ~Hits(st.recency, b) /\ Len(st.recency) >= linePerSet THEN 1 ELSE 0)]
  BY <1>0, Zenon DEF Lru!Use, Used, Hits
<1> QED
  BY <1>1

(* One line of the trace: the histories stay tracked, and the counts move  *)
(* as an LRU cache would move them.                                        *)
LEMMA AccessIsUse ==
    ASSUME TagsFit, LruInv, NEW op \in Ops, op # "I", NEW addr \in Addr,
           Access(op, addr), Remember(addr), IInv'
    PROVE  LruInv' /\ Lru!Access(op, addr)
<1> DEFINE s    == setIndex(addr)
           b    == block(addr)
           hist == recency[s]
           acc  == accessMem(cacheSets[s], tagOf(b))
           old  == {i \in 1 .. Len(hist) : hist[i] = b}
           hits == \E i \in old : i <= linePerSet
           now  == [recency |-> hist, hit |-> hit, miss |-> miss, eviction |-> eviction]
<1>1. s \in Sets /\ b \in Blocks(s) /\ tagIndex(addr) = tagOf(b) /\ tagOf(b) \in Tags
  BY BlockFits
<1>2. /\ hist \in Seq(Blocks(s)) /\ NoRepeats(hist) /\ Tracks(cacheSets[s], hist)
      /\ cacheSets \in [Sets -> CacheSet] /\ WellFormed(cacheSets[s])
      /\ hit \in Nat /\ miss \in Nat /\ eviction \in Nat
  BY <1>1, EachSet DEF LruInv, IInv
<1>3. /\ Tracks(acc.set, Used(hist, b))
      /\ acc.res = IF hits THEN "HIT" ELSE IF Len(hist) >= linePerSet THEN "EVICTION" ELSE "MISS"
  <2>1. cacheSets[s] \in CacheSet
    BY <1>1, <1>2
  <2>2. hits <=> \E i \in 1 .. Len(hist) : hist[i] = b /\ i <= linePerSet
    OBVIOUS
  <2> HIDE DEF s, b, hist, hits
  <2> QED
    BY <1>1, <1>2, <2>1, <2>2, AccessTracks
<1>4. /\ cacheSets' = [cacheSets EXCEPT ![s] = acc.set]
      /\ hit' = hit + (IF acc.res = "HIT" THEN 1 ELSE 0) + (IF op = "M" THEN 1 ELSE 0)
      /\ miss' = miss + (IF acc.res # "HIT" THEN 1 ELSE 0)
      /\ eviction' = eviction + (IF acc.res = "EVICTION" THEN 1 ELSE 0)
  BY <1>1 DEF Access
<1>5. recency' = [recency EXCEPT ![s] = Used(hist, b)]
  BY DEF Remember, Used
<1>6. Used(hist, b) \in Seq(Blocks(s)) /\ NoRepeats(Used(hist, b)) /\ Used(hist, b)[1] = b
      /\ Len(Used(hist, b)) \in Nat /\ Len(Used(hist, b)) >= 1
  <2> HIDE DEF Blocks, s, b, hist
  <2> QED
    BY <1>1, <1>2, UsedEffect
<1>7. Used(Used(hist, b), b) = Used(hist, b)
  <2> HIDE DEF Blocks, s, b, hist
  <2> QED
    BY <1>1, <1>2, UsedTwice
<1>8. LruInv'
  <2>1. Used(hist, b) \in Seq(Nat)
    BY <1>6, SeqMonotonic DEF Blocks
  <2> HIDE DEF s, b, hist, acc
  <2>2. recency' \in [Sets -> Seq(Nat)]
    BY <1>1, <1>5, <2>1 DEF LruInv
  <2>3. ASSUME NEW x \in Sets
        PROVE  /\ recency'[x] \in Seq(Blocks(x)) /\ NoRepeats(recency'[x])
               /\ Tracks(cacheSets'[x], recency'[x])
    <3>1. CASE x = s
      <4>1. recency'[x] = Used(hist, b) /\ cacheSets'[x] = acc.set
        BY <1>1, <1>2, <1>4, <1>5, <3>1 DEF LruInv
      <4> QED
        BY <1>3, <1>6, <3>1, <4>1
    <3>2. CASE x # s
      <4>1. recency'[x] = recency[x] /\ cacheSets'[x] = cacheSets[x]
        BY <1>1, <1>2, <1>4, <1>5, <3>2 DEF LruInv
      <4> QED
        BY <4>1 DEF LruInv
    <3> QED
      BY <3>1, <3>2
  <2> QED
    BY <2>2, <2>3 DEF LruInv
<1>9. hits <=> Hits(hist, b)
  BY DEF Hits
<1>10. Hits(Used(hist, b), b)
  <2>1. 1 \in {j \in 1 .. Len(Used(hist, b)) : Used(hist, b)[j] = b} /\ 1 <= linePerSet
    BY <1>6, GeometryAssumption
  <2> QED
    BY <2>1 DEF Hits
<1>11. Lru!Access(op, addr)
  <2> DEFINE once == Lru!Use(now, b)
             new  == IF op = "M" THEN Lru!Use(once, b) ELSE once
  <2>1. Lru!setOf(addr) = s /\ Lru!blockOf(addr) = b
    BY DEF Lru!setOf, Lru!blockOf, setIndex, block
  <2> HIDE DEF hits
  <2>2. /\ once.recency = Used(hist, b)
        /\ once.hit = hit + (IF hits THEN 1 ELSE 0)
        /\ once.miss = miss + (IF hits THEN 0 ELSE 1)
        /\ once.eviction = eviction + (IF ~hits /\ Len(hist) >= linePerSet THEN 1 ELSE 0)
    <3>1. /\ now.recency = hist /\ now.hit = hit /\ now.miss = miss /\ now.eviction = eviction
      OBVIOUS
    <3> HIDE DEF now, s, b, hist
    <3> QED
      BY <1>9, <3>1, UseEffect
  <2> HIDE DEF once, now, s, b, hist
  <2>3. /\ new.recency = Used(hist, b)
        /\ new.hit = once.hit + (IF op = "M" THEN 1 ELSE 0)
        /\ new.miss = once.miss /\ new.eviction = once.eviction
    <3>1. /\ Lru!Use(once, b).recency = Used(hist, b)
          /\ Lru!Use(once, b).hit = once.hit + 1
          /\ Lru!Use(once, b).miss = once.miss + 0
          /\ Lru!Use(once, b).eviction = once.eviction + 0
      BY <1>7, <1>10, <2>2, UseEffect
    <3>2. once.hit \in Nat /\ once.miss \in Nat /\ once.eviction \in Nat
      BY <1>2, <2>2
    <3> QED
      BY <2>2, <3>1, <3>2
  <2>4. hit' = new.hit /\ miss' = new.miss /\ eviction' = new.eviction
    <3> HIDE DEF new, acc
    <3>2. /\ acc.res = "HIT" <=> hits
          /\ acc.res = "EVICTION" <=> ~hits /\ Len(hist) >= linePerSet
      BY <1>3
    <3> QED
      BY <1>2, <1>4, <2>2, <2>3, <3>2
  <2> USE DEF now, once
  <2> QED
    BY <1>5, <2>1, <2>3, <2>4 DEF Lru!Access, hist
<1> QED
  BY <1>8, <1>11

(* Every line of the trace keeps cache and history matched, and is an      *)
(* access of LruCache or no step of it.                                    *)
LEMMA NextLruInv ==
    ASSUME TagsFit
    PROVE  LruInv /\ [HNext]_<<vars, recency>> => LruInv' /\ [Lru!Next]_Lru!vars
<1> SUFFICES ASSUME LruInv, [HNext]_<<vars, recency>>
             PROVE  LruInv' /\ [Lru!Next]_Lru!vars
  OBVIOUS
<1>1. ASSUME NEW op \in Ops, NEW addr \in Addr, Line(op, addr),
             IF op = "I" THEN UNCHANGED recency ELSE Remember(addr)
      PROVE  LruInv' /\ [Lru!Next]_Lru!vars
  <2>1. IInv'
    BY <1>1, NextIInv DEF LruInv, Next
  <2>2. CASE op = "I"
    <3>1. UNCHANGED <<cacheSets, counters, recency>>
      BY <1>1, <2>2 DEF Line
    <3> QED
      BY <2>1, <3>1 DEF LruInv, counters, Lru!vars
  <2>3. CASE op # "I"
    <3>1. LruInv' /\ Lru!Access(op, addr)
      BY <1>1, <2>1, <2>3, AccessIsUse DEF Line
    <3>2. op \in {"L", "S", "M"}
      BY <2>3 DEF Ops
    <3> QED
      BY <3>1, <3>2 DEF Lru!Next
  <2> QED
    BY <2>2, <2>3
<1>2. CASE UNCHANGED <<vars, recency>>
  <2>1. IInv'
    BY <1>2, NextIInv DEF LruInv
  <2> QED
    BY <1>2, <2>1 DEF vars, counters, LruInv, Lru!vars
<1> QED
  BY <1>1, <1>2 DEF HNext

(* csim counts what an LRU cache of this geometry would: the refinement of *)
(* accessMem, hitCacheLine and addCacheLine on arrays of tags by a history *)
(* of blocks, for every geometry and trace whose tags fit an int.          *)
THEOREM CountsAreLru == ASSUME TagsFit PROVE HSpec => ImplementsLru
<1>1. HInit => LruInv /\ Lru!Init
  BY InitLruInv
<1>2. LruInv /\ [HNext]_<<vars, recency>> => LruInv' /\ [Lru!Next]_Lru!vars
  BY NextLruInv
<1> QED
  BY <1>1, <1>2, PTL DEF HSpec, ImplementsLru, Lru!Spec
=============================================================================
