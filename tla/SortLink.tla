------------------------------ MODULE SortLink ------------------------------
(***************************************************************************)
(* The sort link (kernel/src/los_sortlink.c): a list of nodes in the order *)
(* of their response times.  at is a function from nodes to response       *)
(* times, Never for a node that is on no link.                             *)
(***************************************************************************)
EXTENDS DList, SequencesExt, FiniteSetsExt

CONSTANT Never    \* OS_SCHED_MAX_RESPONSE_TIME, OS_SORT_LINK_INVALID_TIME: (UINT64)-1

\* Mutant of OsAddNode2SortLink: the comparison with the first node is the wrong way round.
AddNodeReversed(s, n, at) ==
    IF s = <<>> \/ at[Head(s)] < at[n] THEN <<n>> \o s ELSE InsertAt(s, 2, n)

\* OsAddNode2SortLink: before the first, after a first node it ties with, or, searched
\* from the end, after the last node that is not later.
OsAddNode2SortLink(s, n, at) ==
    IF s = <<>> \/ at[Head(s)] > at[n] THEN <<n>> \o s
    ELSE IF at[Head(s)] = at[n] THEN InsertAt(s, 2, n)
    ELSE InsertAt(s, 1 + Max({i \in DOMAIN s : at[s[i]] <= at[n]}), n)

\* GetSortLinkNextExpireTime: never less than the precision from now.
GetSortLinkNextExpireTime(s, at, start, precision) ==
    IF s = <<>> THEN Never - precision
    ELSE IF at[Head(s)] <= start + precision THEN start + precision ELSE at[Head(s)]

\* How many nodes a scan takes from the link: while (responseTime <= currTime), from the first on.
Expired(s, at, curr) == Max({0} \cup {i \in DOMAIN s : \A j \in 1..i : at[s[j]] <= curr})
=============================================================================
