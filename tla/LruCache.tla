------------------------------ MODULE LruCache ------------------------------
(***************************************************************************)
(* What a simulator of an LRU cache has to report, with no cache in sight. *)
(* Each set remembers the blocks ever used in it, most recent first; a     *)
(* block is in the cache if fewer than linePerSet others have been used    *)
(* since.  Blocks are told apart by their whole number.                    *)
(***************************************************************************)
EXTENDS Integers, SequencesExt

CONSTANTS setBits, linePerSet, offsetBits, Addr

VARIABLES recency, hit, miss, eviction

vars == <<recency, hit, miss, eviction>>

blockOf(addr) == addr \div 2^offsetBits
setOf(addr)   == blockOf(addr) % 2^setBits

Init ==
    /\ recency = [s \in 0 .. 2^setBits - 1 |-> <<>>]
    /\ hit = 0 /\ miss = 0 /\ eviction = 0

(* One use of a block: how the history of its set and the counts change.   *)
Use(st, b) ==
    LET used == st.recency
        old  == {i \in 1 .. Len(used) : used[i] = b}
        hits == \E i \in old : i <= linePerSet
    IN  [recency  |-> <<b>> \o RemoveFirst(used, b),
         hit      |-> st.hit + (IF hits THEN 1 ELSE 0),
         miss     |-> st.miss + (IF hits THEN 0 ELSE 1),
         eviction |-> st.eviction + (IF ~hits /\ Len(used) >= linePerSet THEN 1 ELSE 0)]

(* A modify uses its block twice.                                          *)
Access(op, addr) ==
    LET s   == setOf(addr)
        b   == blockOf(addr)
        now == [recency |-> recency[s], hit |-> hit, miss |-> miss, eviction |-> eviction]
        new == IF op = "M" THEN Use(Use(now, b), b) ELSE Use(now, b)
    IN  /\ recency' = [recency EXCEPT ![s] = new.recency]
        /\ hit' = new.hit /\ miss' = new.miss /\ eviction' = new.eviction

Next == \E op \in {"L", "S", "M"}, addr \in Addr : Access(op, addr)

Spec == Init /\ [][Next]_vars
=============================================================================
