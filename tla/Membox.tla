------------------------------ MODULE Membox -------------------------------
(***************************************************************************)
(* A pool of blocks of one size (kernel/src/mm/los_membox.c), as a record: *)
(* free, the list from stFreeList; marked, the blocks whose head holds     *)
(* OS_MEMBOX_MAGIC instead of a pointer; cnt, uwBlkCnt.  Every call is one *)
(* section between MEMBOX_LOCK and MEMBOX_UNLOCK.                          *)
(***************************************************************************)
EXTENDS Naturals, SequencesExt

LOS_MemboxInit(blocks) == [free |-> SetToSeq(blocks), marked |-> {}, cnt |-> 0]

\* The block LOS_MemboxAlloc returns if there is one, and the box after that.
FirstBox(box) == Head(box.free)

LOS_MemboxAlloc(box) ==
    [free |-> Tail(box.free), marked |-> box.marked \cup {FirstBox(box)}, cnt |-> box.cnt + 1]

\* OsCheckBoxMem: b is a block of the pool and has the magic.
OsCheckBoxMem(box, b) == b \in box.marked

LOS_MemboxFree(box, b) ==
    IF OsCheckBoxMem(box, b)
    THEN [free |-> <<b>> \o box.free, marked |-> box.marked \ {b}, cnt |-> box.cnt - 1]
    ELSE box
=============================================================================
