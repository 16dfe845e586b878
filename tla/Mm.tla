--------------------------------- MODULE Mm ---------------------------------
(***************************************************************************)
(* The allocator of the malloc lab (mm.c): every block is cut off the top  *)
(* of the heap and carries its payload size in a header; freed memory is   *)
(* never used again.  The heap is a record: the break, and what each cell  *)
(* of the region holds.  A header takes SIZE_T_SIZE cells and its number   *)
(* is kept in the first of them.                                           *)
(***************************************************************************)
EXTENDS Memlib

CONSTANTS ALIGNMENT, sizeof_size_t

ASSUME AlignmentAssumption ==
    /\ ALIGNMENT \in Nat \ {0} /\ sizeof_size_t \in Nat \ {0}
    /\ mem_start_brk % ALIGNMENT = 0      \* malloc aligns at least as well
    /\ 2^(WordBits - 1) % ALIGNMENT = 0
    /\ sizeof_size_t + 2 * ALIGNMENT <= 2^(WordBits - 1)   \* they are far smaller

Heaps == [brk : mem_start_brk .. mem_max_addr, mem : [HeapAddr -> 0 .. 2^WordBits - 1]]

ALIGN(size) == (Word(size + (ALIGNMENT - 1)) \div ALIGNMENT) * ALIGNMENT
SIZE_T_SIZE == ALIGN(sizeof_size_t)

mm_init(heap) == heap

(* Seeded fault: no room is asked for the header.                          *)
mm_malloc_NoRoom(heap, size) ==
    LET p == mem_sbrk(heap.brk, Signed(ALIGN(size)))
    IN  IF p.ret = Failed
          THEN [heap |-> heap, ret |-> NULL]
          ELSE [heap |-> [brk |-> p.brk, mem |-> [heap.mem EXCEPT ![p.ret] = size]],
                ret  |-> Word(p.ret + SIZE_T_SIZE)]

mm_malloc(heap, size) ==
    LET newsize == Signed(ALIGN(Word(size + SIZE_T_SIZE)))
        p       == mem_sbrk(heap.brk, newsize)
    IN  IF p.ret = Failed
          THEN [heap |-> heap, ret |-> NULL]
          ELSE [heap |-> [brk |-> p.brk, mem |-> [heap.mem EXCEPT ![p.ret] = size]],
                ret  |-> Word(p.ret + SIZE_T_SIZE)]

mm_free(heap, ptr) == heap

memcpy(mem, dst, src, n) ==
    [a \in DOMAIN mem |-> IF a \in dst .. dst + n - 1 THEN mem[a - dst + src] ELSE mem[a]]

(* Seeded fault: the copy into a smaller block stops one byte short.       *)
mm_realloc_Short(heap, oldptr, size) ==
    LET new == mm_malloc(heap, size)
        oldsize == new.heap.mem[oldptr - SIZE_T_SIZE]
    IN  IF new.ret = NULL THEN new
        ELSE [new EXCEPT !.heap.mem = memcpy(@, new.ret, oldptr,
                                             IF size < oldsize THEN size - 1 ELSE oldsize)]

mm_realloc(heap, oldptr, size) ==
    LET new == mm_malloc(heap, size)
        copySize == new.heap.mem[oldptr - SIZE_T_SIZE]
    IN  IF new.ret = NULL THEN new
        ELSE [ret  |-> new.ret,
              heap |-> mm_free([new.heap EXCEPT !.mem =
                         memcpy(@, new.ret, oldptr,
                                IF size < copySize THEN size ELSE copySize)], oldptr)]
=============================================================================
