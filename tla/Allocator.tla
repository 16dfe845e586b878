------------------------------ MODULE Allocator ------------------------------
(***************************************************************************)
(* What a malloc package promises its client (the comments of add_range    *)
(* and eval_mm_valid): payloads that are aligned, lie in the heap          *)
(* and never overlap, whose contents only the client changes, and which    *)
(* realloc carries over.  `owned' gives the payload of each live id: where *)
(* it starts and what it contains.                                         *)
(***************************************************************************)
EXTENDS Integers

CONSTANTS Ids, Heap, ALIGNMENT, NoBlock

VARIABLE owned

Cells(b) == {b.lo + k : k \in DOMAIN b.data}

(* The block of id is one an allocator may hand out.                       *)
Fits(id) ==
    /\ owned[id] # NoBlock
    /\ owned[id].lo % ALIGNMENT = 0
    /\ Cells(owned[id]) \subseteq Heap
    /\ \A other \in Ids \ {id} :
         owned[other] # NoBlock => Cells(owned[id]) \cap Cells(owned[other]) = {}

Others(id) == \A other \in Ids \ {id} : owned'[other] = owned[other]

Init == owned = [id \in Ids |-> NoBlock]

Malloc(id) == owned[id] = NoBlock /\ Fits(id)' /\ Others(id)

(* The contents survive as far as both blocks reach.                       *)
Realloc(id) ==
    /\ owned[id] # NoBlock /\ Fits(id)' /\ Others(id)
    /\ LET old == owned[id].data
           new == owned[id]'.data
       IN  \A k \in DOMAIN old \cap DOMAIN new : new[k] = old[k]

(* The client writes into its block.                                       *)
Write(id) ==
    /\ owned[id] # NoBlock /\ owned'[id] # NoBlock /\ Others(id)
    /\ owned'[id].lo = owned[id].lo
    /\ DOMAIN owned'[id].data = DOMAIN owned[id].data

Free(id) == owned[id] # NoBlock /\ owned'[id] = NoBlock /\ Others(id)

(* The heap is emptied and all blocks go with it.                          *)
Reset == owned' = [id \in Ids |-> NoBlock]

Next ==
    \/ Reset
    \/ \E id \in Ids : Malloc(id) \/ Realloc(id) \/ Write(id) \/ Free(id)

Spec == Init /\ [][Next]_owned
=============================================================================
