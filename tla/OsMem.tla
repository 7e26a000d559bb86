------------------------------- MODULE OsMem -------------------------------
(***************************************************************************)
(* Memory partitions (os_mem.c): a linked list of free blocks.  OSMemCreate*)
(* links the blocks of the array it is given in ascending order.           *)
(***************************************************************************)
EXTENDS OsCore

CONSTANT NBlocks                 \* blocks of the partition that is created

ASSUME MemAssumption == NBlocks \in Nat \ {0}

Block == 1 .. NBlocks

OS_MemInit == [mem |-> << >>, nblks |-> 0]

OSMemCreate(k) == [k EXCEPT !.mem = [i \in Block |-> i], !.nblks = NBlocks]

OSMemGet(k) ==
    IF k.mem # << >>
    THEN Gives([k EXCEPT !.mem = Tail(@)], {Head(k.mem)})
    ELSE Fails(k)                                       \* OS_ERR_MEM_NO_FREE_BLKS

OSMemPut(k, blk) ==
    IF Len(k.mem) >= k.nblks THEN Fails(k)              \* OS_ERR_MEM_FULL
    ELSE Done([k EXCEPT !.mem = << blk >> \o @])
=============================================================================
