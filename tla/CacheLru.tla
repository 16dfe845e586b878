------------------------------ MODULE CacheLru ------------------------------
(***************************************************************************)
(* The simulator with a history variable: the blocks used in each set, by  *)
(* their whole numbers.  It decides nothing and lets the simulator be      *)
(* compared with module LruCache.                                          *)
(***************************************************************************)
EXTENDS Cache, SequencesExt

VARIABLE recency

HistoryInit == recency = [s \in Sets |-> <<>>]

Remember(addr) ==
    recency' = [recency EXCEPT ![setIndex(addr)] = <<block(addr)>> \o RemoveFirst(@, block(addr))]

HInit == Init /\ HistoryInit

HNext ==
    \E op \in Ops, addr \in Addr :
        /\ Line(op, addr)
        /\ IF op = "I" THEN UNCHANGED recency ELSE Remember(addr)

HSpec == HInit /\ [][HNext]_<<vars, recency>>
-----------------------------------------------------------------------------
Lru == INSTANCE LruCache
         WITH recency <- recency, hit <- hit, miss <- miss, eviction <- eviction

(* The counts csim reports are those of an LRU cache: a hit exactly when   *)
(* fewer than linePerSet other blocks of the set were used in between, and *)
(* the store of a modify always a hit.                                     *)
ImplementsLru == Lru!Spec
=============================================================================
