-------------------------------- MODULE Mem --------------------------------
(***************************************************************************)
(* A memory pool (kernel/src/mm/los_memory.c): nodes that cover the pool,  *)
(* each with a header in front, and the free ones in lists by size class.  *)
(*                                                                         *)
(* Addresses and sizes are in words of OS_MEM_ALIGN_SIZE bytes, counted    *)
(* from the first node; sizes that are no multiple are rounded up by       *)
(* OS_MEM_ALIGN.  Every call is one section between MEM_LOCK and           *)
(* MEM_UNLOCK, so that it is one action, but LOS_MemRegionsAdd, which      *)
(* takes no lock: it is taken to be called while nobody else uses the      *)
(* pool.  Calls that return NULL or LOS_NOK change nothing and are no      *)
(* actions.  The configuration is that of los_config.h with                *)
(* LOSCFG_MEM_FREE_BY_TASKID and LOSCFG_MEM_MUL_REGIONS: no expansion, no  *)
(* LMS, no leak check.                                                     *)
(***************************************************************************)
EXTENDS DList, FiniteSetsExt, SequencesExt, TLC

CONSTANTS
    Handles,      \* blocks the applications hold
    MemTasks,     \* the tasks that allocate
    Sizes,        \* the sizes they ask for
    Boundaries,   \* the boundaries they align to
    PoolWords,    \* the size of the pool without OsMemPoolHead
    HEAD,         \* OS_MEM_NODE_HEAD_SIZE
    MIN_LEFT,     \* OS_MEM_MIN_LEFT_SIZE: the header of a free node
    MIN_ALLOC,    \* OS_MEM_MIN_ALLOC_SIZE
    LargeStart,   \* OS_MEM_LARGE_START_BUCKET, in words
    SLI,          \* OS_MEM_SLI
    Region,       \* the memory region to add: [gap, length]
    NULL,
    ReallocAligned   \* whether blocks of LOS_MemAllocAlign are reallocated

ASSUME MemAssumption ==
    /\ HEAD \in Nat \ {0} /\ MIN_LEFT > HEAD /\ MIN_ALLOC + HEAD >= MIN_LEFT
    /\ PoolWords >= HEAD + MIN_LEFT
    /\ LargeStart \in Nat /\ SLI \in 0..LargeStart
    /\ Sizes \subseteq Nat \ {0} /\ Boundaries \subseteq {2^i : i \in 0..10}
    /\ Region.gap \in Nat \ {0} /\ Region.length >= HEAD + MIN_LEFT

GapMagic == -1                    \* OS_MEM_GAP_NODE_MAGIC

VARIABLES
    pool,   \* the pool: head, list, bitmap, cur, end; see OsMemPoolInit
    mem,    \* mem[a]: what a word in a used node holds: the name of the block whose first word
            \* it is, or [gap |-> n], n > 0 if it is the word with a gap size
    blk     \* blk[h]: [ptr, size, boundary] of a block, or NULL

memVars == <<pool, mem, blk>>

Held == {h \in Handles : blk[h] # NULL}
NoWord == [gap |-> 0]
Words == 0..(PoolWords + Region.gap + Region.length)

-----------------------------------------------------------------------------
(***************************************************************************)
(* Size classes.                                                           *)
(***************************************************************************)
SmallCount == 2^LargeStart - 1      \* OS_MEM_SMALL_BUCKET_COUNT

OsMemLog2(n) == CHOOSE k \in 0..30 : 2^k <= n /\ n < 2^(k + 1)

OsMemFlGet(size) ==
    IF size < 2^LargeStart THEN size - 1 ELSE OsMemLog2(size) - LargeStart + SmallCount

OsMemSlGet(size, fl) == (size * 2^SLI) \div 2^(fl - SmallCount + LargeStart) - 2^SLI

OsMemFreeListIndexGet(size) ==
    LET fl == OsMemFlGet(size)
    IN  IF fl < SmallCount THEN fl
        ELSE SmallCount + (fl - SmallCount) * 2^SLI + OsMemSlGet(size, fl)

\* Up to the class of the largest node.
Classes == 0..OsMemFreeListIndexGet(PoolWords + Region.length)

-----------------------------------------------------------------------------
(***************************************************************************)
(* Free lists.  p is a pool, n a node.                                     *)
(***************************************************************************)
OsMemListAdd(p, i, n) ==
    [p EXCEPT !.list[i] = <<n>> \o @, !.bitmap = @ \cup {i}]

OsMemListDelete(p, i, n) ==
    [p EXCEPT !.list[i] = Without(@, n),
              !.bitmap = IF p.list[i] = <<n>> THEN @ \ {i} ELSE @]

OsMemFreeNodeAdd(p, n) == OsMemListAdd(p, OsMemFreeListIndexGet(p.head[n].size), n)

OsMemFreeNodeDelete(p, n) == OsMemListDelete(p, OsMemFreeListIndexGet(p.head[n].size), n)

\* Mutant of FirstClass: larger classes are searched from the class of the size itself.
FirstClassSame(size) == OsMemFreeListIndexGet(size)

\* The first class in which every node is large enough.
FirstClass(size) ==
    OsMemFreeListIndexGet(size) + (IF OsMemFlGet(size) < SmallCount THEN 0 ELSE 1)

\* OsMemFindNextSuitableBlock, with OsMemNotEmptyIndexGet and OsMemFindCurSuitableBlock: the
\* first node of the first class that has one, else the first one of the size's own class that fits.
OsMemFindNextSuitableBlock(p, size) ==
    LET above == {i \in p.bitmap : i >= FirstClass(size)}
        own == OsMemFreeListIndexGet(size)
        fit == SelectSeq(p.list[own], LAMBDA n : p.head[n].size >= size)
    IN  IF above # {} THEN Head(p.list[Min(above)])
        ELSE IF own \notin Classes \/ OsMemFlGet(size) < SmallCount \/ fit = <<>> THEN NULL
        ELSE Head(fit)

-----------------------------------------------------------------------------
(***************************************************************************)
(* Nodes.                                                                  *)
(***************************************************************************)
OS_MEM_NEXT_NODE(p, n) == n + p.head[n].size

OS_MEM_IS_GAP_NODE(p, n) == p.head[n].prev = GapMagic

\* A header that is not that of a used node.
FreeHead(size, prev) ==
    [size |-> size, prev |-> prev, used |-> FALSE, aligned |-> FALSE, task |-> NULL]

\* Both merging and splitting tell the next node, unless it is a gap.
SetPrev(p, n, prev) ==
    IF OS_MEM_IS_GAP_NODE(p, n) THEN p ELSE [p EXCEPT !.head[n].prev = prev]

\* OsMemMergeNode: into the node before.  The header of n stays in memory.
OsMemMergeNode(p, n) ==
    LET prev == p.head[n].prev
    IN  SetPrev([p EXCEPT !.head[prev].size = @ + p.head[n].size], OS_MEM_NEXT_NODE(p, n), prev)

\* A free node is taken from its list and merged into the node before it.
TakeAndMerge(p, n) == OsMemMergeNode(OsMemFreeNodeDelete(p, n), n)

\* Mutant of OsMemSplitNode: the rest is not merged with a free node after it.
SplitNodeNoMerge(p, n, size) ==
    LET rest == n + size
        next == OS_MEM_NEXT_NODE(p, n)
    IN  OsMemFreeNodeAdd(SetPrev([p EXCEPT !.head = (n :> [@[n] EXCEPT !.size = size]) @@
                                     (rest :> FreeHead(@[n].size - size, n)) @@ @], next, rest), rest)

\* OsMemSplitNode: the rest becomes a free node, together with a free node after it.
OsMemSplitNode(p, n, size) ==
    LET rest == n + size
        next == OS_MEM_NEXT_NODE(p, n)
        split == SetPrev([p EXCEPT !.head = (n :> [@[n] EXCEPT !.size = size]) @@
                                            (rest :> FreeHead(@[n].size - size, n)) @@ @], next, rest)
        merged == IF OS_MEM_IS_GAP_NODE(p, next) \/ p.head[next].used THEN split
                  ELSE TakeAndMerge(split, next)
    IN  OsMemFreeNodeAdd(merged, rest)

\* What is left is a node of its own if a free node fits.
SplitIfWorth(p, n, size) ==
    IF size + MIN_LEFT <= p.head[n].size THEN OsMemSplitNode(p, n, size) ELSE p

\* OsMemAlloc with OsMemFreeNodeGet, OsMemWaterUsedRecord and OsMemCreateUsedNode, from the
\* node the search has found.
OsMemAlloc(p, n, size, t) ==
    LET p1 == SplitIfWorth(OsMemFreeNodeDelete(p, n), n, size + HEAD)
    IN  [p1 EXCEPT !.head[n].used = TRUE, !.head[n].task = t, !.cur = @ + p1.head[n].size]

\* OsMemIsNodeValid
OsMemIsNodeValid(p, n) ==
    /\ n \in 0..p.end
    /\ n \in DOMAIN p.head
    /\ p.head[n].used \/ p.head[n].prev \in 0..(p.end + HEAD - 1)

OsMemCheckUsedNode(p, n) ==
    /\ OsMemIsNodeValid(p, n)
    /\ ~OS_MEM_IS_GAP_NODE(p, n)
    /\ p.head[n].used
    /\ LET next == OS_MEM_NEXT_NODE(p, n)
       IN  OsMemIsNodeValid(p, next) /\ (OS_MEM_IS_GAP_NODE(p, next) \/ p.head[next].prev = n)
    /\ \/ n = 0
       \/ OsMemIsNodeValid(p, p.head[n].prev) /\ OS_MEM_NEXT_NODE(p, p.head[n].prev) = n

\* OsMemFree: merges with the free nodes on both sides.  The first node has the end node,
\* which is used, before it.
OsMemFree(p, n) ==
    LET p1 == [p EXCEPT !.head[n] = [@ EXCEPT !.used = FALSE, !.aligned = FALSE],
                        !.cur = @ - p.head[n].size]
        prev == p.head[n].prev
        before == ~p.head[prev].used
        p2 == IF before THEN OsMemMergeNode(OsMemFreeNodeDelete(p1, prev), n) ELSE p1
        node == IF before THEN prev ELSE n
        next == OS_MEM_NEXT_NODE(p2, node)
        p3 == IF p2.head[next].used THEN p2 ELSE TakeAndMerge(p2, next)
    IN  OsMemFreeNodeAdd(p3, node)

-----------------------------------------------------------------------------
(***************************************************************************)
(* The contents of memory.                                                 *)
(***************************************************************************)
\* The nodes one finds from the first one on.
Nodes(p) ==
    LET from[n \in 0..p.end] == IF n = p.end THEN {} ELSE {n} \cup from[OS_MEM_NEXT_NODE(p, n)]
    IN  from[0]

\* The words a used node gives its owner.
Payload(p, n) == (n + HEAD)..(OS_MEM_NEXT_NODE(p, n) - 1)

\* The pool and the memory after a call.  Headers that are no nodes any more and words of free
\* nodes are forgotten: nobody reads them before they are written.
Becomes(p, m) ==
    LET nodes == Nodes(p)
        used == UNION {Payload(p, n) : n \in {n \in nodes : p.head[n].used}}
    IN  /\ pool' = [p EXCEPT !.head = [n \in nodes \cup {p.end} |-> @[n]]]
        /\ mem' = [a \in Words |-> IF a \in used THEN m[a] ELSE NoWord]

\* OsGetRealPtr: the word before the pointer is the size of a header, or a gap size.
OsGetRealPtr(p, m, ptr) ==
    IF ptr - HEAD \in DOMAIN p.head THEN ptr ELSE ptr - m[ptr - 1].gap

RealNode(h) == OsGetRealPtr(pool, mem, blk[h].ptr) - HEAD

-----------------------------------------------------------------------------
(***************************************************************************)
(* The calls.                                                              *)
(***************************************************************************)
AtLeastMin(size) == Max({size, MIN_ALLOC})

LOS_MemAlloc(h, size, t) ==
    /\ blk[h] = NULL
    /\ LET n == OsMemFindNextSuitableBlock(pool, AtLeastMin(size) + HEAD)
       IN  /\ n # NULL
           /\ Becomes(OsMemAlloc(pool, n, AtLeastMin(size), t), [mem EXCEPT ![n + HEAD] = h])
           /\ blk' = [blk EXCEPT ![h] = [ptr |-> n + HEAD, size |-> size, boundary |-> 1]]

\* Mutant of UseSize: no room for the gap.
UseSizeExact(size, boundary) == size

\* What LOS_MemAllocAlign allocates: a word less than the boundary more.
UseSize(size, boundary) == size + boundary - 1

LOS_MemAllocAlign(h, size, boundary, t) ==
    /\ blk[h] = NULL
    /\ LET use == UseSize(AtLeastMin(size), boundary)
           n == OsMemFindNextSuitableBlock(pool, use + HEAD)
           ptr == n + HEAD
           aligned == ((ptr + boundary - 1) \div boundary) * boundary
           p == OsMemAlloc(pool, n, use, t)
       IN  /\ n # NULL
           /\ IF aligned = ptr
              THEN Becomes(p, [mem EXCEPT ![ptr] = h])
              ELSE Becomes([p EXCEPT !.head[n].aligned = TRUE],
                           [mem EXCEPT ![aligned - 1] = [gap |-> aligned - ptr], ![aligned] = h])
           /\ blk' = [blk EXCEPT ![h] = [ptr |-> aligned, size |-> size, boundary |-> boundary]]

LOS_MemFree(h) ==
    /\ h \in Held
    /\ OsMemCheckUsedNode(pool, RealNode(h))
    /\ Becomes(OsMemFree(pool, RealNode(h)), mem)
    /\ blk' = [blk EXCEPT ![h] = NULL]

\* Mutant of ReAllocInPlace: curUsedSize is updated only when the block grows.
ReAllocNotCounted(p, n, size) ==
    LET nodeSize == p.head[n].size
        next == OS_MEM_NEXT_NODE(p, n)
        p1 == IF nodeSize >= size THEN p ELSE TakeAndMerge(p, next)
        p2 == SplitIfWorth([p1 EXCEPT !.head[n].aligned = FALSE], n, size)
    IN  [p2 EXCEPT !.cur = @ + (IF nodeSize >= size THEN 0 ELSE p2.head[n].size - nodeSize)]

\* OsMemReAllocSmaller and OsMemMergeNodeForReAllocBigger: the node stays where it is.
ReAllocInPlace(p, n, size) ==
    LET nodeSize == p.head[n].size
        next == OS_MEM_NEXT_NODE(p, n)
        p1 == IF nodeSize >= size THEN p ELSE TakeAndMerge(p, next)
        p2 == SplitIfWorth([p1 EXCEPT !.head[n].aligned = FALSE], n, size)
    IN  [p2 EXCEPT !.cur = @ + p2.head[n].size - nodeSize]

FitsInPlace(p, n, size) ==
    LET next == OS_MEM_NEXT_NODE(p, n)
    IN  \/ p.head[n].size >= size
        \/ ~p.head[next].used /\ p.head[n].size + p.head[next].size >= size

\* Mutant of Copied: from the header on.
CopiedFromHead(m, from, to, count) ==
    [x \in Words |-> IF x \in to..(to + count - 1) THEN m[from - HEAD + x - to] ELSE m[x]]

\* memcpy_s in OsMemRealloc.
Copied(m, from, to, count) ==
    [a \in Words |-> IF a \in to..(to + count - 1) THEN m[from + a - to] ELSE m[a]]

\* LOS_MemRealloc of a block.  Without a block, or to size 0, it is one of the other calls.
LOS_MemRealloc(h, size, t) ==
    /\ h \in Held
    /\ ReallocAligned \/ blk[h].boundary = 1
    /\ LET n == RealNode(h)
           want == AtLeastMin(size)
           new == OsMemFindNextSuitableBlock(pool, want + HEAD)
       IN  /\ OsMemCheckUsedNode(pool, n)
           /\ \/ /\ FitsInPlace(pool, n, want + HEAD)
                 /\ Becomes(ReAllocInPlace(pool, n, want + HEAD), mem)
                 /\ blk' = [blk EXCEPT ![h] = [ptr |-> n + HEAD, size |-> size, boundary |-> 1]]
              \/ /\ ~FitsInPlace(pool, n, want + HEAD) /\ new # NULL
                 /\ Becomes(OsMemFree(OsMemAlloc(pool, new, want, t), n),
                            Copied(mem, n + HEAD, new + HEAD, pool.head[n].size - HEAD))
                 /\ blk' = [blk EXCEPT ![h] = [ptr |-> new + HEAD, size |-> size, boundary |-> 1]]

\* One round of OsAllMemNodeDoHandle's loop with MemNodeFreeByTaskIDHandle.  It goes on from
\* the header of a node it may just have freed and merged into another.
FreeIfOf(t, w) ==
    IF w.at = w.pool.end THEN w
    ELSE LET n == w.pool.head[w.at]
             p == IF n.used /\ n.task = t /\ OsMemCheckUsedNode(w.pool, w.at) THEN OsMemFree(w.pool, w.at) ELSE w.pool
         IN  [pool |-> p, at |-> OS_MEM_NEXT_NODE(p, w.at)]

LOS_MemFreeByTaskID(t) ==
    /\ \E h \in Held : pool.head[RealNode(h)].task = t
    /\ LET walk == FoldLeft(LAMBDA w, i : FreeIfOf(t, w), [pool |-> pool, at |-> 0],
                            [i \in 1..Cardinality(DOMAIN pool.head) |-> i])
       IN  Becomes(walk.pool, mem)
    /\ blk' = [h \in Handles |-> IF h \in Held /\ pool.head[RealNode(h)].task = t THEN NULL ELSE blk[h]]

\* LOS_MemRegionsAdd of one region, with OsMemMulRegionsLink: the old end node becomes a used
\* node over the gap, and the first node's prev the new end.
LOS_MemRegionsAdd ==
    /\ pool.end = PoolWords - HEAD
    /\ LET start == pool.end + HEAD + Region.gap
           end == start + Region.length - HEAD
           gap == [FreeHead(HEAD + Region.gap, GapMagic) EXCEPT !.used = TRUE]
           last == [FreeHead(0, start) EXCEPT !.used = TRUE]
           p == [pool EXCEPT !.head = (pool.end :> gap) @@ (end :> last) @@
                                      (start :> FreeHead(Region.length - HEAD, pool.end)) @@ @,
                             !.end = end, !.cur = @ + HEAD]
       IN  Becomes([OsMemFreeNodeAdd(p, start) EXCEPT !.head[0].prev = end], mem)
    /\ UNCHANGED blk

-----------------------------------------------------------------------------
\* OsMemPoolInit: head[n], the header of the node at n; list[i], freeList[i]; bitmap,
\* freeListBitmap; cur, curUsedSize without the pool's header; end, the end node.
OsMemPoolInit ==
    LET end == PoolWords - HEAD
        p == [head |-> (0 :> FreeHead(end, end)) @@ (end :> [FreeHead(0, 0) EXCEPT !.used = TRUE]),
              list |-> [i \in Classes |-> <<>>], bitmap |-> {}, cur |-> HEAD, end |-> end]
    IN  OsMemFreeNodeAdd(p, 0)

MemInit ==
    /\ pool = OsMemPoolInit
    /\ mem = [a \in Words |-> NoWord]
    /\ blk = [h \in Handles |-> NULL]

MemNext ==
    \/ \E h \in Handles, t \in MemTasks, size \in Sizes :
          \/ LOS_MemAlloc(h, size, t)
          \/ \E boundary \in Boundaries : LOS_MemAllocAlign(h, size, boundary, t)
          \/ LOS_MemRealloc(h, size, t)
    \/ \E h \in Handles : LOS_MemFree(h)
    \/ \E t \in MemTasks : LOS_MemFreeByTaskID(t)
    \/ LOS_MemRegionsAdd

MemSpec == MemInit /\ [][MemNext]_memVars

-----------------------------------------------------------------------------
(***************************************************************************)
(* Properties.                                                             *)
(***************************************************************************)
FreeNodes == {n \in Nodes(pool) : ~pool.head[n].used}
BlockNodes == {n \in Nodes(pool) : pool.head[n].used /\ ~OS_MEM_IS_GAP_NODE(pool, n)}

\* Each node knows the one before it, every node is large enough to be free, and no two free
\* nodes are neighbours, whatever sequence of splits and merges made them.
NodesLinked ==
    \A n \in Nodes(pool) :
        LET next == OS_MEM_NEXT_NODE(pool, n)
        IN  /\ OS_MEM_IS_GAP_NODE(pool, next) \/ pool.head[next].prev = n
            /\ ~OS_MEM_IS_GAP_NODE(pool, n) => pool.head[n].size >= MIN_LEFT
            /\ ~pool.head[n].used => pool.head[next].used

\* The free lists hold exactly the free nodes, each once and in the list of its present
\* size, and the bitmap says which lists are not empty.
FreeListed ==
    /\ \A i \in Classes :
          /\ Range(pool.list[i]) =
                {n \in FreeNodes : OsMemFreeListIndexGet(pool.head[n].size) = i}
          /\ NoDup(pool.list[i])
    /\ pool.bitmap = {i \in Classes : pool.list[i] # <<>>}

\* Every block lies in a node of its own, as long and as aligned as it was asked for, and
\* every used node has a block: nothing is given out twice, and LOS_MemFreeByTaskID leaves
\* nothing behind.
BlocksApart ==
    /\ \A h \in Held :
          /\ RealNode(h) \in BlockNodes
          /\ blk[h].ptr..(blk[h].ptr + blk[h].size - 1) \subseteq Payload(pool, RealNode(h))
          /\ blk[h].ptr % blk[h].boundary = 0
          /\ \A g \in Held \ {h} : RealNode(g) # RealNode(h)
    /\ BlockNodes = {RealNode(h) : h \in Held}

\* The check LOS_MemFree and LOS_MemRealloc make lets every block through.
BlocksPassCheck == \A h \in Held : OsMemCheckUsedNode(pool, RealNode(h))

\* An allocation fails only if no free node is large enough, and what the search over
\* the size classes finds is large enough.
SearchComplete ==
    \A size \in {AtLeastMin(s) + HEAD : s \in Sizes} :
        LET n == OsMemFindNextSuitableBlock(pool, size)
        IN  IF n = NULL THEN \A f \in FreeNodes : pool.head[f].size < size
                        ELSE pool.head[n].size >= size

\* curUsedSize is what LOS_MemTotalUsedGet would count, with the end node.
UsedAccounted ==
    pool.cur = HEAD * Cardinality({n \in DOMAIN pool.head : pool.head[n].used} \ BlockNodes)
                 + MapThenSumSet(LAMBDA n : pool.head[n].size, BlockNodes)

\* A block keeps its contents, wherever LOS_MemRealloc moves it ("The new memory block will
\* copy the data in the original memory block", los_memory.h).
ContentsKept == \A h \in Held : mem[blk[h].ptr] = h

\* The nodes and the free lists that cover the pool are consistent.
PoolSound == NodesLinked /\ FreeListed

\* What the callers hold is theirs, and they can give it back.
BlocksSound == BlocksApart /\ BlocksPassCheck
=============================================================================
