----------------------------- MODULE TickProofs -----------------------------
(***************************************************************************)
(* Tick, for every set of tasks and timers, every length of tick, slice    *)
(* and period: the clock is right, the sort links are in order, slices     *)
(* end, and no timeout is handled late.                                    *)
(*                                                                         *)
(* All need interrupts to be locked for less than the shortest period the  *)
(* tick timer is armed for (Brief): then a second period never ends while  *)
(* the interrupt of the first is pending.  All but the clock need time to  *)
(* be far from OS_SORT_LINK_INVALID_TIME (FarFromEnd, FarAhead).           *)
(***************************************************************************)
EXTENDS Tick, SequenceTheorems, FiniteSetTheorems, WellFoundedInduction, TLAPS

-----------------------------------------------------------------------------
(***************************************************************************)
(* Numbers.                                                                *)
(***************************************************************************)
LEMMA SmallestNat ==
    ASSUME NEW T, T \subseteq Nat, T # {}
    PROVE  \E x \in T : \A y \in T : x <= y
<1>1. IsWellFoundedOn(OpToRel(<, Nat), Nat)
  BY NatLessThanWellFounded
<1>2. PICK x \in T : \A y \in T : ~(<<y, x>> \in OpToRel(<, Nat))
  BY <1>1, WFMin
<1>3. \A y \in T : ~(y < x)
  BY <1>2 DEF OpToRel
<1> QED BY <1>3

\* A set of numbers up to n has a maximum.
LEMMA MaxOf ==
    ASSUME NEW n \in Nat, NEW T, T \subseteq 0..n, T # {}
    PROVE  Max(T) \in T /\ \A y \in T : y <= Max(T)
<1> DEFINE U == {u \in Nat : n - u \in T}
<1>1. U \subseteq Nat /\ U # {}
  <2>1. PICK y \in T : y \in 0..n
    OBVIOUS
  <2>2. n - y \in Nat /\ n - (n - y) = y
    BY <2>1
  <2> QED BY <2>1, <2>2
<1>2. PICK u \in U : \A v \in U : u <= v
  <2> HIDE DEF U
  <2> QED BY <1>1, SmallestNat
<1>3. n - u \in T /\ u \in Nat
  BY <1>2
<1>4. ASSUME NEW y \in T PROVE n - u >= y
  <2>1. y \in 0..n
    OBVIOUS
  <2>2. n - y \in Nat /\ n - (n - y) = y
    BY <2>1
  <2>3. n - y \in U
    BY <2>2
  <2>4. u <= n - y
    BY <1>2, <2>3
  <2> QED BY <1>3, <2>1, <2>4
<1>5. \E x \in T : \A y \in T : x >= y
  BY <1>3, <1>4
<1>6. Max(T) \in T /\ \A y \in T : Max(T) >= y
  BY <1>5 DEF Max
<1>7. \A y \in T : y \in Int
  OBVIOUS
<1> QED BY <1>6, <1>7

LEMMA TwoNumbers ==
    ASSUME NEW a \in Int, NEW b \in Int
    PROVE  /\ Max({a, b}) \in {a, b} /\ Max({a, b}) >= a /\ Max({a, b}) >= b
           /\ Min({a, b}) \in {a, b} /\ Min({a, b}) <= a /\ Min({a, b}) <= b
<1>1. \E x \in {a, b} : \A y \in {a, b} : x >= y
  BY a >= b \/ b >= a
<1>2. \E x \in {a, b} : \A y \in {a, b} : x <= y
  BY a >= b \/ b >= a
<1> QED BY <1>1, <1>2 DEF Max, Min

\* What a multiplication and a division that undoes it leave.
LEMMA Multiples ==
    ASSUME NEW I \in Nat, I > 0, NEW x \in Nat
    PROVE  /\ x \div I \in Nat
           /\ I * (1 + (x \div I)) \in Nat
           /\ I * (1 + (x \div I)) > x /\ I * (1 + (x \div I)) <= x + I
<1>1. x \div I \in Int /\ I * (x \div I) <= x /\ x < I * (x \div I) + I
  OBVIOUS
<1>2. x \div I \in Nat
  OBVIOUS
<1> DEFINE q == x \div I
<1>3. q \in Nat /\ I * q <= x /\ x < I * q + I
  BY <1>1, <1>2
<1> HIDE DEF q
<1>4. I * (1 + q) = I * q + I /\ I * q \in Nat
  BY <1>3
<1>5. I * (1 + q) \in Nat /\ I * (1 + q) > x /\ I * (1 + q) <= x + I
  BY <1>3, <1>4
<1> QED BY <1>3, <1>5 DEF q

-----------------------------------------------------------------------------
(***************************************************************************)
(* The sort link.                                                          *)
(***************************************************************************)
Ordered(s, f) == \A i, j \in DOMAIN s : i < j => f[s[i]] <= f[s[j]]

\* r is the list s with n inserted at position p.
Inserted(r, s, p, n) ==
    /\ p \in 1..(Len(s) + 1)
    /\ r = [i \in 1..(Len(s) + 1) |-> IF i < p THEN s[i] ELSE IF i = p THEN n ELSE s[i - 1]]

\* The nodes before position p are not later than n, and the others not earlier.
FitsAt(s, p, n, f) ==
    /\ \A i \in DOMAIN s : i < p => f[s[i]] <= f[n]
    /\ \A i \in DOMAIN s : i >= p => f[n] <= f[s[i]]

LEMMA InsertAtIs ==
    ASSUME NEW S, NEW s \in Seq(S), NEW n \in S, NEW p \in 1..(Len(s) + 1)
    PROVE  Inserted(InsertAt(s, p, n), s, p, n)
<1> DEFINE a == SubSeq(s, 1, p - 1)
           b == SubSeq(s, p, Len(s))
           c == a \o <<n>>
           r == c \o b
           v == [i \in 1..(Len(s) + 1) |-> IF i < p THEN s[i] ELSE IF i = p THEN n ELSE s[i - 1]]
<1>0. Len(s) \in Nat /\ DOMAIN s = 1..Len(s) /\ \A i \in 1..Len(s) : s[i] \in S
  BY LenProperties, ElementOfSeq
<1>1. /\ a \in Seq(S) /\ Len(a) = p - 1
      /\ \A i \in 1..(p - 1) : a[i] = s[i]
  BY <1>0, SubSeqProperties
<1>2. /\ b \in Seq(S) /\ Len(b) = Len(s) - p + 1
      /\ \A i \in 1..(Len(s) - p + 1) : b[i] = s[p + i - 1]
  BY <1>0, SubSeqProperties
<1> HIDE DEF a, b
<1>3. <<n>> \in Seq(S) /\ Len(<<n>>) = 1 /\ <<n>>[1] = n
  OBVIOUS
<1>4. /\ c \in Seq(S) /\ Len(c) = p
      /\ \A i \in 1..p : c[i] = IF i <= p - 1 THEN s[i] ELSE n
  BY <1>0, <1>1, <1>3, ConcatProperties
<1> HIDE DEF c
<1>5. /\ r \in Seq(S) /\ Len(r) = Len(s) + 1
      /\ \A i \in 1..(Len(s) + 1) : r[i] = IF i <= p THEN c[i] ELSE b[i - p]
  <2>1. /\ r \in Seq(S) /\ Len(r) = Len(c) + Len(b)
        /\ \A i \in 1..(Len(c) + Len(b)) : r[i] = IF i <= Len(c) THEN c[i] ELSE b[i - Len(c)]
    BY <1>2, <1>4, ConcatProperties
  <2>2. Len(c) + Len(b) = Len(s) + 1 /\ Len(c) = p
    BY <1>0, <1>2, <1>4
  <2> HIDE DEF r
  <2> QED BY <2>1, <2>2
<1> HIDE DEF r
<1>6. ASSUME NEW i \in 1..(Len(s) + 1) PROVE r[i] = v[i]
  <2>1. CASE i < p
    BY <1>0, <1>4, <1>5, <2>1
  <2>2. CASE i = p
    BY <1>0, <1>4, <1>5, <2>2
  <2>3. CASE i > p
    <3>1. i - p \in 1..(Len(s) - p + 1) /\ p + (i - p) - 1 = i - 1
      BY <1>0, <2>3
    <3>2. r[i] = b[i - p] /\ b[i - p] = s[p + (i - p) - 1]
      BY <1>0, <1>2, <1>5, <2>3, <3>1
    <3>3. v[i] = s[i - 1]
      BY <1>0, <2>3
    <3> QED BY <3>1, <3>2, <3>3
  <2> QED BY <1>0, <2>1, <2>2, <2>3
<1>7. DOMAIN r = 1..(Len(s) + 1)
  BY <1>5, LenProperties
<1>8. r = v
  BY <1>5, <1>6, <1>7, SeqEqual, IsASeq, LenProperties
<1> QED BY <1>8 DEF Inserted, InsertAt, r, c, a, b

LEMMA InsertFirstIs ==
    ASSUME NEW S, NEW s \in Seq(S), NEW n \in S
    PROVE  Inserted(<<n>> \o s, s, 1, n)
<1> DEFINE r == <<n>> \o s
           v == [i \in 1..(Len(s) + 1) |-> IF i < 1 THEN s[i] ELSE IF i = 1 THEN n ELSE s[i - 1]]
<1>0. Len(s) \in Nat /\ DOMAIN s = 1..Len(s)
  BY LenProperties
<1>1. <<n>> \in Seq(S) /\ Len(<<n>>) = 1 /\ <<n>>[1] = n
  OBVIOUS
<1>2. /\ r \in Seq(S) /\ Len(r) = Len(s) + 1
      /\ \A i \in 1..(Len(s) + 1) : r[i] = IF i <= 1 THEN n ELSE s[i - 1]
  BY <1>0, <1>1, ConcatProperties
<1> HIDE DEF r
<1>3. \A i \in 1..(Len(s) + 1) : r[i] = v[i]
  BY <1>0, <1>2
<1>4. DOMAIN r = 1..(Len(s) + 1) /\ r = [i \in DOMAIN r |-> r[i]]
  BY <1>2, LenProperties
<1>5. r = v
  BY <1>3, <1>4
<1> QED BY <1>0, <1>5 DEF Inserted, r

\* What an insertion makes of a list.
LEMMA InsertedList ==
    ASSUME NEW S, NEW s \in Seq(S), NEW n \in S, NEW r, NEW p, Inserted(r, s, p, n)
    PROVE  /\ r \in Seq(S)
           /\ Range(r) = Range(s) \cup {n}
           /\ NoDup(s) /\ n \notin Range(s) => NoDup(r)
<1>0. /\ Len(s) \in Nat /\ DOMAIN s = 1..Len(s) /\ \A i \in 1..Len(s) : s[i] \in S
      /\ p \in 1..(Len(s) + 1) /\ Range(s) = {s[i] : i \in 1..Len(s)}
  BY LenProperties, ElementOfSeq DEF Inserted, Range
<1>1. /\ DOMAIN r = 1..(Len(s) + 1) /\ Range(r) = {r[i] : i \in 1..(Len(s) + 1)}
      /\ \A i \in 1..(Len(s) + 1) : r[i] = IF i < p THEN s[i] ELSE IF i = p THEN n ELSE s[i - 1]
  BY DEF Inserted, Range
<1>2. r \in Seq(S)
  <2>1. \A i \in 1..(Len(s) + 1) : r[i] \in S
    BY <1>0, <1>1
  <2>2. r = [i \in 1..(Len(s) + 1) |-> r[i]]
    BY <1>1 DEF Inserted
  <2> QED BY <1>0, <2>1, <2>2, IsASeq
<1>3. Range(r) \subseteq Range(s) \cup {n}
  BY <1>0, <1>1
<1>4. Range(s) \cup {n} \subseteq Range(r)
  <2>1. n \in Range(r)
    BY <1>0, <1>1
  <2>2. ASSUME NEW i \in 1..Len(s) PROVE s[i] \in Range(r)
    <3>1. i < p => i \in 1..(Len(s) + 1) /\ r[i] = s[i]
      BY <1>0, <1>1
    <3>2. i >= p => i + 1 \in 1..(Len(s) + 1) /\ r[i + 1] = s[i]
      BY <1>0, <1>1
    <3> QED BY <1>0, <1>1, <3>1, <3>2
  <2> QED BY <1>0, <2>1, <2>2
<1>5. ASSUME NoDup(s), n \notin Range(s), NEW i \in DOMAIN r, NEW j \in DOMAIN r, r[i] = r[j]
      PROVE  i = j
  <2>1. \A h \in 1..Len(s) : s[h] # n
    BY <1>0, <1>5
  <2>2. \A h, l \in 1..Len(s) : s[h] = s[l] => h = l
    BY <1>0, <1>5 DEF NoDup
  <2> DEFINE of(h) == IF h < p THEN h ELSE h - 1
  <2>3. \A h \in DOMAIN r : h # p => of(h) \in 1..Len(s) /\ r[h] = s[of(h)]
    BY <1>0, <1>1
  <2>4. r[p] = n
    BY <1>0, <1>1
  <2>5. i = p <=> j = p
    BY <1>5, <2>1, <2>3, <2>4
  <2>6. ASSUME i # p, j # p PROVE i = j
    <3>1. of(i) = of(j)
      BY <1>5, <2>2, <2>3, <2>6
    <3> QED BY <1>0, <1>1, <2>6, <3>1
  <2> QED BY <2>5, <2>6
<1> QED BY <1>2, <1>3, <1>4, <1>5 DEF NoDup

LEMMA InsertedOrdered ==
    ASSUME NEW S, NEW s \in Seq(S), NEW n \in S, NEW r, NEW p, Inserted(r, s, p, n),
           NEW f, \A x \in S : f[x] \in Int, Ordered(s, f), FitsAt(s, p, n, f)
    PROVE  Ordered(r, f)
<1>0. /\ Len(s) \in Nat /\ DOMAIN s = 1..Len(s) /\ \A i \in 1..Len(s) : s[i] \in S
      /\ p \in 1..(Len(s) + 1)
  BY LenProperties, ElementOfSeq DEF Inserted
<1>1. /\ DOMAIN r = 1..(Len(s) + 1)
      /\ \A i \in 1..(Len(s) + 1) : r[i] = IF i < p THEN s[i] ELSE IF i = p THEN n ELSE s[i - 1]
  BY DEF Inserted
<1> DEFINE of(h) == IF h < p THEN h ELSE h - 1
           g == [i \in 1..Len(s) |-> f[s[i]]]
<1>2. \A h \in DOMAIN r : h # p => of(h) \in 1..Len(s) /\ f[r[h]] = g[of(h)]
  BY <1>0, <1>1
<1>3. f[r[p]] = f[n] /\ f[n] \in Int
  BY <1>0, <1>1
<1>4. /\ \A i \in 1..Len(s) : g[i] \in Int /\ (i < p => g[i] <= f[n]) /\ (i >= p => f[n] <= g[i])
      /\ \A i, j \in 1..Len(s) : i < j => g[i] <= g[j]
  BY <1>0 DEF Ordered, FitsAt
<1> HIDE DEF g
<1>5. ASSUME NEW i \in DOMAIN r, NEW j \in DOMAIN r, i < j PROVE f[r[i]] <= f[r[j]]
  <2>0. i \in Int /\ j \in Int /\ p \in Int
    BY <1>0, <1>1
  <2>1. CASE i = p
    <3>1. j # p /\ of(j) \in 1..Len(s) /\ of(j) >= p
      BY <1>0, <1>1, <1>2, <1>5, <2>1
    <3>2. f[r[j]] = g[of(j)]
      BY <1>2, <3>1
    <3> QED BY <1>3, <1>4, <2>1, <3>1, <3>2
  <2>2. CASE j = p
    <3>1. i # p /\ of(i) \in 1..Len(s) /\ of(i) < p
      BY <1>0, <1>1, <1>2, <1>5, <2>2
    <3>2. f[r[i]] = g[of(i)]
      BY <1>2, <3>1
    <3> QED BY <1>3, <1>4, <2>2, <3>1, <3>2
  <2>3. CASE i # p /\ j # p
    <3>1. of(i) \in 1..Len(s) /\ of(j) \in 1..Len(s) /\ of(i) < of(j)
      BY <1>0, <1>1, <1>2, <1>5, <2>0, <2>3
    <3>2. f[r[i]] = g[of(i)] /\ f[r[j]] = g[of(j)]
      BY <1>2, <2>3
    <3> HIDE DEF of
    <3> QED BY <1>4, <3>1, <3>2
  <2> QED BY <2>1, <2>2, <2>3
<1> QED BY <1>5 DEF Ordered

\* Where OsAddNode2SortLink inserts.
LEMMA AddPosition ==
    ASSUME NEW S, NEW s \in Seq(S), NEW n \in S, NEW f, \A x \in S : f[x] \in Int
    PROVE  \E p : /\ Inserted(OsAddNode2SortLink(s, n, f), s, p, n)
                  /\ Ordered(s, f) => FitsAt(s, p, n, f)
<1> DEFINE r == OsAddNode2SortLink(s, n, f)
<1>0. /\ Len(s) \in Nat /\ DOMAIN s = 1..Len(s) /\ \A i \in 1..Len(s) : s[i] \in S /\ f[s[i]] \in Int
      /\ f[n] \in Int /\ (s # <<>> => Len(s) > 0 /\ Head(s) = s[1] /\ 1 \in 1..Len(s))
  BY LenProperties, ElementOfSeq, EmptySeq
<1>1. CASE s = <<>> \/ f[Head(s)] > f[n]
  <2>1. Inserted(r, s, 1, n)
    BY <1>1, InsertFirstIs DEF OsAddNode2SortLink
  <2>2. ASSUME Ordered(s, f), NEW i \in DOMAIN s PROVE i >= 1 /\ f[n] <= f[s[i]]
    <3>1. s # <<>> /\ i \in 1..Len(s)
      BY <1>0
    <3>2. f[s[1]] > f[n] /\ (1 < i => f[s[1]] <= f[s[i]]) /\ f[s[i]] \in Int /\ f[s[1]] \in Int
      BY <1>0, <1>1, <2>2, <3>1 DEF Ordered
    <3> QED BY <1>0, <3>1, <3>2
  <2>3. \A i \in DOMAIN s : ~(i < 1)
    BY <1>0
  <2> QED BY <2>1, <2>2, <2>3 DEF FitsAt
<1>2. CASE s # <<>> /\ ~(f[Head(s)] > f[n]) /\ f[Head(s)] = f[n]
  <2>1. Inserted(r, s, 2, n)
    <3>1. 2 \in 1..(Len(s) + 1)
      BY <1>0, <1>2
    <3> QED BY <1>2, <3>1, InsertAtIs DEF OsAddNode2SortLink
  <2>2. ASSUME Ordered(s, f), NEW i \in DOMAIN s, i >= 2 PROVE f[n] <= f[s[i]]
    BY <1>0, <1>2, <2>2 DEF Ordered
  <2>3. ASSUME NEW i \in DOMAIN s, i < 2 PROVE f[s[i]] <= f[n]
    <3>1. i = 1
      BY <1>0, <2>3
    <3> QED BY <1>0, <1>2, <3>1
  <2> QED BY <2>1, <2>2, <2>3 DEF FitsAt
<1>3. CASE s # <<>> /\ ~(f[Head(s)] > f[n]) /\ f[Head(s)] # f[n]
  <2> DEFINE T == {i \in DOMAIN s : f[s[i]] <= f[n]}
             m == Max(T)
  <2>1. m \in T /\ \A y \in T : y <= m
    <3>1. 1 \in T
      BY <1>0, <1>3
    <3>2. T \subseteq 0..Len(s)
      BY <1>0
    <3> HIDE DEF T
    <3> QED BY <1>0, <3>1, <3>2, MaxOf
  <2>2. r = InsertAt(s, 1 + m, n)
    BY <1>3 DEF OsAddNode2SortLink
  <2> HIDE DEF m
  <2>3. m \in 1..Len(s) /\ f[s[m]] <= f[n] /\ \A i \in DOMAIN s : f[s[i]] <= f[n] => i <= m
    BY <1>0, <2>1
  <2>4. 1 + m \in 1..(Len(s) + 1)
    BY <1>0, <2>3
  <2>5. Inserted(r, s, 1 + m, n)
    BY <2>2, <2>4, InsertAtIs
  <2>6. ASSUME Ordered(s, f), NEW i \in DOMAIN s, i < 1 + m PROVE f[s[i]] <= f[n]
    <3>1. i < m => f[s[i]] <= f[s[m]]
      BY <1>0, <2>3, <2>6 DEF Ordered
    <3>2. i = m \/ i < m
      BY <1>0, <2>3, <2>6
    <3> QED BY <1>0, <2>3, <3>1, <3>2
  <2>7. ASSUME NEW i \in DOMAIN s, i >= 1 + m PROVE f[n] <= f[s[i]]
    <3>1. ~(i <= m)
      BY <1>0, <2>3, <2>7
    <3> QED BY <1>0, <2>3, <3>1
  <2> QED BY <2>5, <2>6, <2>7 DEF FitsAt
<1> QED BY <1>1, <1>2, <1>3

\* What LOS_ListDelete makes of a list.
LEMMA WithoutList ==
    ASSUME NEW S, NEW s \in Seq(S), NEW e
    PROVE  /\ Without(s, e) \in Seq(S)
           /\ NoDup(s) => NoDup(Without(s, e)) /\ Range(Without(s, e)) = Range(s) \ {e}
           /\ \A f : Ordered(s, f) => Ordered(Without(s, e), f)
<1>0. /\ Len(s) \in Nat /\ DOMAIN s = 1..Len(s) /\ \A i \in 1..Len(s) : s[i] \in S
      /\ Range(s) = {s[i] : i \in 1..Len(s)}
  BY LenProperties, ElementOfSeq DEF Range
<1>1. CASE e \notin Range(s)
  BY <1>1 DEF Without
<1>2. CASE e \in Range(s)
  <2> DEFINE p == IndexIn(s, e)
             w == [j \in 1..(Len(s) - 1) |-> IF j < p THEN s[j] ELSE s[j + 1]]
             of(j) == IF j < p THEN j ELSE j + 1
  <2>1. p \in 1..Len(s) /\ s[p] = e
    BY <1>0, <1>2 DEF IndexIn
  <2>2. Without(s, e) = w
    BY <1>2 DEF Without
  <2> HIDE DEF p
  <2>3. /\ DOMAIN w = 1..(Len(s) - 1) /\ Range(w) = {w[j] : j \in 1..(Len(s) - 1)}
        /\ \A j \in 1..(Len(s) - 1) : of(j) \in 1..Len(s) /\ of(j) # p /\ w[j] = s[of(j)]
    <3>1. DOMAIN w = 1..(Len(s) - 1)
      OBVIOUS
    <3>2. \A j \in 1..(Len(s) - 1) : of(j) \in 1..Len(s) /\ of(j) # p
      BY <1>0, <2>1
    <3>3. \A j \in 1..(Len(s) - 1) : w[j] = s[of(j)]
      OBVIOUS
    <3> QED BY <3>1, <3>2, <3>3 DEF Range
  <2>4. \A i, j \in 1..(Len(s) - 1) : i < j => of(i) < of(j)
    BY <1>0, <2>1
  <2>5. w \in Seq(S)
    <3>1. \A j \in 1..(Len(s) - 1) : w[j] \in S
      BY <1>0, <2>3
    <3> QED BY <1>0, <2>1, <3>1, IsASeq
  <2>6. ASSUME NEW i \in 1..Len(s), i # p
        PROVE  \E j \in 1..(Len(s) - 1) : of(j) = i
    <3>1. CASE i < p
      BY <1>0, <2>1, <3>1
    <3>2. CASE i > p
      <4>1. i - 1 \in 1..(Len(s) - 1) /\ of(i - 1) = i
        BY <1>0, <2>1, <3>2
      <4> QED BY <4>1
    <3> QED BY <1>0, <2>1, <2>6, <3>1, <3>2
  <2> HIDE DEF w
  <2>7. ASSUME NoDup(s) PROVE NoDup(w) /\ Range(w) = Range(s) \ {e}
    <3>0. \A i, j \in 1..Len(s) : s[i] = s[j] => i = j
      BY <1>0, <2>7 DEF NoDup
    <3>1. ASSUME NEW i \in 1..(Len(s) - 1), NEW j \in 1..(Len(s) - 1), w[i] = w[j]
          PROVE  i = j
      <4>1. of(i) = of(j)
        BY <2>3, <3>0, <3>1
      <4> QED BY <1>0, <2>1, <2>4, <4>1
    <3>2. Range(w) \subseteq Range(s) \ {e}
      BY <1>0, <2>1, <2>3, <3>0
    <3>3. Range(s) \ {e} \subseteq Range(w)
      <4>1. ASSUME NEW x \in Range(s), x # e PROVE x \in Range(w)
        <5>1. PICK i \in 1..Len(s) : x = s[i]
          BY <1>0
        <5>2. i # p
          BY <2>1, <4>1, <5>1
        <5>3. PICK j \in 1..(Len(s) - 1) : of(j) = i
          BY <2>6, <5>2
        <5> QED BY <2>3, <5>1, <5>3
      <4> QED BY <4>1
    <3> QED BY <2>3, <3>1, <3>2, <3>3 DEF NoDup
  <2>8. ASSUME NEW f, Ordered(s, f) PROVE Ordered(w, f)
    <3>1. \A i, j \in 1..Len(s) : i < j => f[s[i]] <= f[s[j]]
      BY <1>0, <2>8 DEF Ordered
    <3>2. ASSUME NEW i \in 1..(Len(s) - 1), NEW j \in 1..(Len(s) - 1), i < j
          PROVE  f[w[i]] <= f[w[j]]
      <4>1. of(i) \in 1..Len(s) /\ of(j) \in 1..Len(s) /\ of(i) < of(j)
        BY <2>3, <2>4, <3>2
      <4>2. w[i] = s[of(i)] /\ w[j] = s[of(j)]
        BY <2>3
      <4> HIDE DEF of
      <4> QED BY <3>1, <4>1, <4>2
    <3> QED BY <2>3, <3>2 DEF Ordered
  <2> QED BY <2>2, <2>5, <2>7, <2>8
<1> QED BY <1>1, <1>2

FirstOf(s, d) == {s[i] : i \in 1..d}

\* What is left of a list when its first d nodes have left it.
LEMMA RestList ==
    ASSUME NEW S, NEW s \in Seq(S), NEW d \in 0..Len(s), NEW r, r = SubSeq(s, d + 1, Len(s))
    PROVE  /\ r \in Seq(S)
           /\ NoDup(s) => /\ NoDup(r)
                          /\ Range(r) = Range(s) \ FirstOf(s, d)
           /\ \A f : Ordered(s, f) => Ordered(r, f)
<1>0. /\ Len(s) \in Nat /\ DOMAIN s = 1..Len(s) /\ \A i \in 1..Len(s) : s[i] \in S
      /\ Range(s) = {s[i] : i \in 1..Len(s)}
  BY LenProperties, ElementOfSeq DEF Range
<1>1. /\ r \in Seq(S) /\ Len(r) = Len(s) - d
      /\ \A i \in 1..(Len(s) - d) : r[i] = s[d + i]
  <2>1. \A i \in (d + 1)..Len(s) : s[i] \in S
    BY <1>0
  <2>2. /\ r \in Seq(S) /\ Len(r) = IF d + 1 <= Len(s) THEN Len(s) - (d + 1) + 1 ELSE 0
        /\ \A i \in 1..(Len(s) - (d + 1) + 1) : r[i] = s[(d + 1) + i - 1]
    BY <1>0, <2>1, SubSeqProperties
  <2>3. Len(s) - (d + 1) + 1 = Len(s) - d /\ Len(r) = Len(s) - d
    <3> DEFINE n == Len(s)
               l == Len(r)
    <3>1. n \in Nat /\ d \in 0..n /\ l = IF d + 1 <= n THEN n - (d + 1) + 1 ELSE 0
      BY <1>0, <2>2
    <3> HIDE DEF n, l
    <3>2. n - (d + 1) + 1 = n - d /\ l = n - d
      BY <3>1
    <3> QED BY <3>2 DEF n, l
  <2>4. ASSUME NEW i \in 1..(Len(s) - d) PROVE (d + 1) + i - 1 = d + i
    BY <1>0
  <2> QED BY <2>2, <2>3, <2>4
<1>2. DOMAIN r = 1..(Len(s) - d) /\ Range(r) = {r[i] : i \in 1..(Len(s) - d)}
  BY <1>1, LenProperties DEF Range
<1>3. \A i \in 1..(Len(s) - d) : d + i \in 1..Len(s) /\ d + i > d
  BY <1>0
<1>4. ASSUME NoDup(s) PROVE NoDup(r) /\ Range(r) = Range(s) \ {s[i] : i \in 1..d}
  <2>0. \A i, j \in 1..Len(s) : s[i] = s[j] => i = j
    BY <1>0, <1>4 DEF NoDup
  <2>1. NoDup(r)
    <3>1. ASSUME NEW i \in 1..(Len(s) - d), NEW j \in 1..(Len(s) - d), r[i] = r[j]
          PROVE  i = j
      <4>1. d + i = d + j
        BY <1>1, <1>3, <2>0, <3>1
      <4> QED BY <1>0, <4>1
    <3> QED BY <1>2, <3>1 DEF NoDup
  <2>2. ASSUME NEW i \in 1..(Len(s) - d) PROVE r[i] \in Range(s) \ {s[j] : j \in 1..d}
    <3>1. r[i] = s[d + i] /\ d + i \in 1..Len(s) /\ d + i > d
      BY <1>1, <1>3
    <3>2. \A j \in 1..d : s[j] # s[d + i]
      BY <1>0, <2>0, <3>1
    <3> QED BY <1>0, <3>1, <3>2
  <2>3. ASSUME NEW i \in 1..Len(s), i \notin 1..d PROVE s[i] \in Range(r)
    <3>1. i - d \in 1..(Len(s) - d) /\ d + (i - d) = i
      BY <1>0, <2>3
    <3>2. r[i - d] = s[d + (i - d)]
      BY <1>1, <3>1
    <3> QED BY <1>2, <3>1, <3>2
  <2>4. Range(r) \subseteq Range(s) \ {s[i] : i \in 1..d}
    BY <1>2, <2>2
  <2>5. ASSUME NEW m \in Range(s) \ {s[i] : i \in 1..d} PROVE m \in Range(r)
    <3>1. PICK i \in 1..Len(s) : m = s[i]
      BY <1>0, <2>5
    <3>2. i \notin 1..d
      BY <2>5, <3>1
    <3> QED BY <2>3, <3>1, <3>2
  <2> QED BY <2>1, <2>4, <2>5
<1>5. ASSUME NEW f, Ordered(s, f) PROVE Ordered(r, f)
  <2>1. \A i, j \in 1..Len(s) : i < j => f[s[i]] <= f[s[j]]
    BY <1>0, <1>5 DEF Ordered
  <2>2. ASSUME NEW i \in 1..(Len(s) - d), NEW j \in 1..(Len(s) - d), i < j
        PROVE  f[r[i]] <= f[r[j]]
    <3>1. d + i < d + j
      BY <1>0, <2>2
    <3> QED BY <1>1, <1>3, <2>1, <3>1
  <2> QED BY <1>2, <2>2 DEF Ordered
<1> QED BY <1>1, <1>4, <1>5 DEF FirstOf

-----------------------------------------------------------------------------
(***************************************************************************)
(* The two links and the times of their nodes.                             *)
(***************************************************************************)
KindOf(x) == IF x = "TASK" THEN Tasks ELSE Timers

LinksType(ls) ==
    /\ ls = [x \in LinkTypes |-> ls[x]]
    /\ \A x \in LinkTypes : ls[x] \in Seq(KindOf(x))

\* Each link holds the nodes of its kind that have a time, once, and in order.
Linked(f, ls) ==
    \A x \in LinkTypes :
       /\ Range(ls[x]) = {n \in KindOf(x) : f[n] # Never}
       /\ NoDup(ls[x]) /\ Ordered(ls[x], f)

LEMMA KindsApart ==
    ASSUME NEW x \in LinkTypes
    PROVE  /\ KindOf(x) \subseteq Nodes
           /\ \A y \in LinkTypes : y # x => KindOf(x) \cap KindOf(y) = {}
  BY TickAssumption DEF KindOf, Nodes, LinkTypes

\* g and ms are f and ls after node n has been added to link x with time t.
Added(g, ms, f, ls, x, n, t) ==
    g = [f EXCEPT ![n] = t] /\ ms = [ls EXCEPT ![x] = OsAddNode2SortLink(ls[x], n, g)]

LEMMA AddedToLink ==
    ASSUME NEW f \in [Nodes -> Int], NEW ls, LinksType(ls), NEW x \in LinkTypes,
           NEW n \in KindOf(x), NEW t \in Int, NEW g, NEW ms, Added(g, ms, f, ls, x, n, t)
    PROVE  /\ g \in [Nodes -> Int] /\ LinksType(ms)
           /\ Linked(f, ls) /\ f[n] = Never /\ t # Never => Linked(g, ms)
<1>a. g = [f EXCEPT ![n] = t] /\ ms = [ls EXCEPT ![x] = OsAddNode2SortLink(ls[x], n, g)]
  BY DEF Added
<1>0. /\ n \in Nodes /\ g \in [Nodes -> Int] /\ g[n] = t /\ KindOf(x) \subseteq Nodes
      /\ \A m \in Nodes : m # n => g[m] = f[m]
  BY <1>a, KindsApart
<1> DEFINE s == ls[x]
           r == OsAddNode2SortLink(s, n, g)
<1>1. s \in Seq(KindOf(x)) /\ \A m \in KindOf(x) : g[m] \in Int
  BY <1>0 DEF LinksType
<1>2. PICK p : /\ Inserted(r, s, p, n)
               /\ Ordered(s, g) => FitsAt(s, p, n, g)
  <2> HIDE DEF s
  <2> QED BY <1>1, AddPosition
<1>3. /\ r \in Seq(KindOf(x)) /\ Range(r) = Range(s) \cup {n}
      /\ NoDup(s) /\ n \notin Range(s) => NoDup(r)
  <2> HIDE DEF s, r
  <2> QED BY <1>1, <1>2, InsertedList
<1>4. ms[x] = r /\ \A y \in LinkTypes : y # x => ms[y] = ls[y]
  BY <1>a DEF LinksType
<1>5. LinksType(ms)
  <2>1. ms = [y \in LinkTypes |-> ms[y]]
    BY <1>a DEF LinksType
  <2> HIDE DEF r
  <2> QED BY <1>3, <1>4, <2>1 DEF LinksType
<1>6. ASSUME Linked(f, ls), f[n] = Never, t # Never PROVE Linked(g, ms)
  <2>1. \A y \in LinkTypes : n \notin Range(ls[y])
    BY <1>6 DEF Linked
  <2>2. ASSUME NEW y \in LinkTypes PROVE Ordered(ls[y], g)
    <3>1. Ordered(ls[y], f) /\ ls[y] \in Seq(KindOf(y)) /\ KindOf(y) \subseteq Nodes
      BY <1>6, KindsApart DEF Linked, LinksType
    <3>2. \A i \in DOMAIN ls[y] : ls[y][i] \in Nodes /\ ls[y][i] # n
      BY <2>1, <3>1, ElementOfSeq, LenProperties DEF Range
    <3>3. \A i \in DOMAIN ls[y] : g[ls[y][i]] = f[ls[y][i]]
      BY <1>0, <3>2
    <3> QED BY <3>1, <3>3 DEF Ordered
  <2>3. Ordered(s, g) /\ NoDup(s) /\ n \notin Range(s)
    BY <1>6, <2>1, <2>2 DEF Linked
  <2>4. Ordered(r, g)
    <3> HIDE DEF s, r
    <3>1. Inserted(r, s, p, n) /\ Ordered(s, g) /\ FitsAt(s, p, n, g)
      BY <1>2, <2>3
    <3> QED BY <1>1, <3>1, InsertedOrdered
  <2>5. Range(r) = {m \in KindOf(x) : g[m] # Never}
    <3>1. Range(s) = {m \in KindOf(x) : f[m] # Never}
      BY <1>6 DEF Linked
    <3> HIDE DEF r, s
    <3> QED BY <1>0, <1>3, <1>6, <3>1
  <2>6. ASSUME NEW y \in LinkTypes, y # x
        PROVE  Range(ls[y]) = {m \in KindOf(y) : g[m] # Never} /\ NoDup(ls[y])
    <3>1. n \notin KindOf(y) /\ KindOf(y) \subseteq Nodes
      BY <2>6, KindsApart
    <3>2. Range(ls[y]) = {m \in KindOf(y) : f[m] # Never} /\ NoDup(ls[y])
      BY <1>6 DEF Linked
    <3>3. {m \in KindOf(y) : f[m] # Never} = {m \in KindOf(y) : g[m] # Never}
      BY <1>0, <3>1
    <3> QED BY <3>2, <3>3
  <2>7. NoDup(r)
    BY <1>3, <2>3
  <2> HIDE DEF r
  <2> QED BY <1>4, <2>2, <2>4, <2>5, <2>6, <2>7 DEF Linked
<1> QED BY <1>0, <1>5, <1>6

\* g and ms are f and ls after node n has left its link.
Deleted(g, ms, f, ls, n) ==
    g = [f EXCEPT ![n] = Never] /\ ms = [x \in DOMAIN ls |-> Without(ls[x], n)]

LEMMA DeletedFromLinks ==
    ASSUME NEW f \in [Nodes -> Int], NEW ls, LinksType(ls), NEW n \in Nodes,
           NEW g, NEW ms, Deleted(g, ms, f, ls, n)
    PROVE  /\ g \in [Nodes -> Int] /\ LinksType(ms)
           /\ Linked(f, ls) => Linked(g, ms)
<1>0. /\ g \in [Nodes -> Int] /\ g[n] = Never /\ DOMAIN ls = LinkTypes
      /\ \A m \in Nodes : m # n => g[m] = f[m]
  BY TickAssumption DEF LinksType, Deleted
<1>1. \A x \in LinkTypes : /\ ms[x] = Without(ls[x], n) /\ ls[x] \in Seq(KindOf(x))
                           /\ KindOf(x) \subseteq Nodes
  BY <1>0, KindsApart DEF LinksType, Deleted
<1>2. LinksType(ms)
  <2>1. ms = [x \in LinkTypes |-> ms[x]]
    BY <1>0 DEF Deleted
  <2>2. \A x \in LinkTypes : ms[x] \in Seq(KindOf(x))
    BY <1>1, WithoutList
  <2> QED BY <2>1, <2>2 DEF LinksType
<1>3. ASSUME Linked(f, ls), NEW x \in LinkTypes
      PROVE  /\ Range(ms[x]) = {m \in KindOf(x) : g[m] # Never}
             /\ NoDup(ms[x]) /\ Ordered(ms[x], g)
  <2>1. Range(ls[x]) = {m \in KindOf(x) : f[m] # Never} /\ NoDup(ls[x]) /\ Ordered(ls[x], f)
    BY <1>3 DEF Linked
  <2>2. /\ Range(ms[x]) = Range(ls[x]) \ {n} /\ NoDup(ms[x]) /\ Ordered(ms[x], f)
        /\ ms[x] \in Seq(KindOf(x))
    <3>1. PICK s : s = ls[x] /\ s \in Seq(KindOf(x)) /\ NoDup(s) /\ Ordered(s, f)
      BY <1>1, <2>1
    <3>2. /\ Range(Without(s, n)) = Range(s) \ {n} /\ NoDup(Without(s, n))
          /\ Without(s, n) \in Seq(KindOf(x))
      BY <3>1, WithoutList
    <3>3. Ordered(Without(s, n), f)
      BY <3>1, WithoutList
    <3> QED BY <1>1, <3>1, <3>2, <3>3
  <2>3. Range(ms[x]) = {m \in KindOf(x) : g[m] # Never}
    BY <1>0, <1>1, <2>1, <2>2
  <2>4. \A i \in DOMAIN ms[x] : g[ms[x][i]] = f[ms[x][i]]
    <3>1. \A i \in DOMAIN ms[x] : ms[x][i] \in Range(ms[x])
      BY DEF Range
    <3> QED BY <1>0, <1>1, <2>1, <2>2, <3>1
  <2>5. Ordered(ms[x], g)
    BY <2>2, <2>4 DEF Ordered
  <2> QED BY <2>2, <2>3, <2>5
<1> QED BY <1>0, <1>2, <1>3 DEF Linked

-----------------------------------------------------------------------------
(***************************************************************************)
(* A kernel step.                                                          *)
(***************************************************************************)
Ids == Tasks \cup {Idle, "TIMER"}

KernelType(k) ==
    /\ k = [clk |-> k.clk, hw |-> k.hw, resp |-> k.resp, at |-> k.at, links |-> k.links]
    /\ k.clk \in [base : Int, old : Int, update : BOOLEAN]
    /\ k.hw \in [load : Int, at : Int, pend : BOOLEAN]
    /\ k.resp \in [time : Int, id : Ids]
    /\ k.at \in [Nodes -> Int]
    /\ LinksType(k.links)

\* r differs from k in the times and the links only.
SameClock(r, k) == r.clk = k.clk /\ r.hw = k.hw /\ r.resp = k.resp

\* Time is so far from the largest that whatever may be waited for comes before it.
FarFromEnd ==
    /\ \A w \in Waits : now + w * CyclesPerTick < Never
    /\ \A s \in Timers : now + Interval[s] * CyclesPerTick < Never

LEMMA Ticks ==
    ASSUME NEW w \in Nat \ {0}
    PROVE  w * CyclesPerTick \in Nat /\ w * CyclesPerTick > 0
<1>1. CyclesPerTick \in Nat /\ CyclesPerTick > 0
  BY TickAssumption
<1>2. PICK c \in Nat : c > 0 /\ c = CyclesPerTick
  BY <1>1
<1>3. w * c \in Nat /\ w * c > 0
  BY <1>2
<1> QED BY <1>2, <1>3

LEMMA ExpiredIs ==
    ASSUME NEW S, NEW s \in Seq(S), NEW f, NEW curr, NEW d, d = Expired(s, f, curr)
    PROVE  /\ d \in 0..Len(s) /\ \A i \in 1..d : f[s[i]] <= curr
           /\ d < Len(s) => ~(f[s[d + 1]] <= curr)
<1> DEFINE T == {0} \cup {i \in DOMAIN s : \A j \in 1..i : f[s[j]] <= curr}
<1>0. Len(s) \in Nat /\ DOMAIN s = 1..Len(s)
  BY LenProperties
<1>1. T \subseteq 0..Len(s) /\ T # {}
  BY <1>0
<1>2. Max(T) \in T /\ \A i \in T : i <= Max(T)
  <2> HIDE DEF T
  <2> QED BY <1>0, <1>1, MaxOf
<1>3. d \in T /\ \A i \in T : i <= d
  BY <1>2 DEF Expired
<1>4. d \in 0..Len(s) /\ \A i \in 1..d : f[s[i]] <= curr
  <2>1. CASE d = 0
    BY <1>0, <2>1
  <2>2. CASE d # 0
    <3>1. d \in DOMAIN s /\ \A j \in 1..d : f[s[j]] <= curr
      BY <1>3, <2>2
    <3> QED BY <1>0, <3>1
  <2> QED BY <2>1, <2>2
<1>5. ASSUME d < Len(s), f[s[d + 1]] <= curr PROVE FALSE
  <2>1. d + 1 \in DOMAIN s
    BY <1>0, <1>4, <1>5
  <2>2. \A j \in 1..(d + 1) : f[s[j]] <= curr
    <3>1. \A j \in 1..(d + 1) : j \in 1..d \/ j = d + 1
      BY <1>4
    <3> QED BY <1>4, <1>5, <3>1
  <2>3. d + 1 \in T
    BY <2>1, <2>2
  <2>4. d + 1 <= d
    <3> HIDE DEF T
    <3> QED BY <1>3, <2>3
  <2> QED BY <1>4, <2>4
<1> QED BY <1>4, <1>5

\* The times and the links after the first d[x] nodes of each link x have left it.
Gone(ls, d) == {n \in Nodes : \E x \in LinkTypes : \E i \in 1..d[x] : ls[x][i] = n}
TimesLeft(f, ls, d) == [n \in Nodes |-> IF n \in Gone(ls, d) THEN Never ELSE f[n]]
LinksLeft(ls, d) == [x \in LinkTypes |-> SubSeq(ls[x], d[x] + 1, Len(ls[x]))]

LEMMA DueLeave ==
    ASSUME NEW f \in [Nodes -> Int], NEW ls, LinksType(ls), NEW d,
           \A x \in LinkTypes : d[x] \in 0..Len(ls[x]),
           NEW g, g = TimesLeft(f, ls, d), NEW ms, ms = LinksLeft(ls, d)
    PROVE  /\ g \in [Nodes -> Int] /\ LinksType(ms)
           /\ Linked(f, ls) => Linked(g, ms)
<1>g. PICK gone : gone = Gone(ls, d)
  OBVIOUS
<1>0. g \in [Nodes -> Int] /\ \A m \in Nodes : g[m] = IF m \in gone THEN Never ELSE f[m]
  BY <1>g, TickAssumption DEF TimesLeft
<1>1. \A x \in LinkTypes : /\ ms[x] = SubSeq(ls[x], d[x] + 1, Len(ls[x])) /\ ls[x] \in Seq(KindOf(x))
                           /\ KindOf(x) \subseteq Nodes
  BY KindsApart DEF LinksType, LinksLeft
<1>2. LinksType(ms)
  <2>1. ms = [x \in LinkTypes |-> ms[x]]
    BY DEF LinksLeft
  <2>2. \A x \in LinkTypes : ms[x] \in Seq(KindOf(x))
    BY <1>1, RestList
  <2> QED BY <2>1, <2>2 DEF LinksType
<1>3. ASSUME Linked(f, ls), NEW x \in LinkTypes
      PROVE  /\ Range(ms[x]) = {m \in KindOf(x) : g[m] # Never}
             /\ NoDup(ms[x]) /\ Ordered(ms[x], g)
  <2>1. Range(ls[x]) = {m \in KindOf(x) : f[m] # Never} /\ NoDup(ls[x]) /\ Ordered(ls[x], f)
    BY <1>3 DEF Linked
  <2>2. PICK s : s = ls[x] /\ s \in Seq(KindOf(x)) /\ NoDup(s) /\ Ordered(s, f)
    BY <1>1, <2>1
  <2>e. PICK e \in 0..Len(s) : e = d[x]
    BY <2>2
  <2>3. PICK r : r = SubSeq(s, e + 1, Len(s)) /\ r = ms[x]
    BY <1>1, <2>2, <2>e
  <2>4. NoDup(r) /\ Range(r) = Range(s) \ {s[i] : i \in 1..d[x]}
    <3>1. NoDup(r) /\ Range(r) = Range(s) \ FirstOf(s, e)
      BY <2>2, <2>3, RestList
    <3> QED BY <2>e, <3>1 DEF FirstOf
  <2>5. Ordered(r, f)
    BY <2>2, <2>3, RestList
  <2>6. ASSUME NEW m \in KindOf(x) PROVE m \in gone <=> m \in {s[i] : i \in 1..d[x]}
    <3>1. m \in Nodes
      BY <1>1
    <3>2. ASSUME NEW y \in LinkTypes, y # x, NEW i \in 1..d[y] PROVE ls[y][i] # m
      <4>1. d[y] \in 0..Len(ls[y]) /\ ls[y] \in Seq(KindOf(y)) /\ Len(ls[y]) \in Nat
        BY <1>1, LenProperties
      <4>2. i \in 1..Len(ls[y])
        BY <4>1
      <4>3. ls[y][i] \in KindOf(y)
        BY <4>1, <4>2, ElementOfSeq
      <4> QED BY <3>2, <4>3, KindsApart
    <3>3. m \in gone <=> \E i \in 1..d[x] : ls[x][i] = m
      BY <1>g, <3>1, <3>2 DEF Gone
    <3> QED BY <2>2, <3>3
  <2>7. Range(r) = {m \in KindOf(x) : g[m] # Never}
    <3>1. ASSUME NEW m \in KindOf(x) PROVE m \in Range(r) <=> g[m] # Never
      <4>1. m \in Range(r) <=> f[m] # Never /\ m \notin gone
        BY <2>1, <2>2, <2>4, <2>6
      <4>2. g[m] = IF m \in gone THEN Never ELSE f[m]
        BY <1>0, <1>1
      <4> QED BY <4>1, <4>2
    <3>2. Range(r) \subseteq KindOf(x)
      BY <2>1, <2>2, <2>4
    <3> QED BY <3>1, <3>2
  <2>8. \A i \in DOMAIN r : g[r[i]] = f[r[i]]
    <3>1. \A i \in DOMAIN r : r[i] \in Range(r)
      BY DEF Range
    <3>2. \A m \in Range(r) : m \in KindOf(x) /\ m \in Nodes /\ m \notin gone
      BY <1>1, <2>1, <2>2, <2>4, <2>6
    <3> QED BY <1>0, <3>1, <3>2
  <2>9. Ordered(r, g)
    BY <2>5, <2>8 DEF Ordered
  <2> QED BY <2>3, <2>4, <2>7, <2>9
<1> QED BY <1>0, <1>2, <1>3 DEF Linked

\* A periodic timer that is due is started again for a time that comes after curr.
LEMMA NextPeriodIs ==
    ASSUME at \in [Nodes -> Int], NEW s \in Timers, NEW curr \in Int, at[s] <= curr
    PROVE  /\ NextPeriod(s, curr) \in Int
           /\ NextPeriod(s, curr) > curr
           /\ NextPeriod(s, curr) <= curr + Interval[s] * CyclesPerTick
<1>1. PICK I \in Nat : I > 0 /\ I = Interval[s] * CyclesPerTick
  BY Ticks, TickAssumption
<1>2. PICK a \in Int : a = at[s] /\ curr - a \in Nat
  BY DEF Nodes
<1>3. PICK x \in Nat : x = curr - a
  BY <1>2
<1>4. PICK m \in Nat : m = I * (1 + (x \div I)) /\ m > x /\ m <= x + I
  BY <1>1, Multiples
<1>5. NextPeriod(s, curr) = a + m
  BY <1>1, <1>2, <1>3, <1>4 DEF NextPeriod
<1>6. a + m \in Int /\ a + m > curr /\ a + m <= curr + I
  BY <1>2, <1>3, <1>4
<1> QED BY <1>1, <1>5, <1>6

LEMMA RestartIs ==
    ASSUME NEW k, KernelType(k), at \in [Nodes -> Int], NEW s \in Timers, NEW curr \in Int,
           at[s] <= curr, NEW r, r = Restart(k, s, curr)
    PROVE  /\ KernelType(r) /\ SameClock(r, k)
           /\ r.at[s] = NextPeriod(s, curr) /\ \A n \in Nodes : n # s => r.at[n] = k.at[n]
           /\ Linked(k.at, k.links) /\ k.at[s] = Never /\ NextPeriod(s, curr) # Never
                => Linked(r.at, r.links)
<1>1. PICK t \in Int : t = NextPeriod(s, curr)
  BY NextPeriodIs
<1>2. PICK g : g = [k.at EXCEPT ![s] = t]
  OBVIOUS
<1>3. PICK ms : ms = [k.links EXCEPT !["SWTMR"] = OsAddNode2SortLink(k.links["SWTMR"], s, g)]
  OBVIOUS
<1>4. "SWTMR" \in LinkTypes /\ s \in KindOf("SWTMR") /\ s \in Nodes
  BY DEF LinkTypes, KindOf, Nodes
<1>5. /\ g \in [Nodes -> Int] /\ LinksType(ms)
      /\ Linked(k.at, k.links) /\ k.at[s] = Never /\ t # Never => Linked(g, ms)
  <2>1. PICK f \in [Nodes -> Int] : f = k.at
    BY DEF KernelType
  <2>2. PICK ls : ls = k.links /\ LinksType(ls)
    BY DEF KernelType
  <2>3. g = [f EXCEPT ![s] = t] /\ ms = [ls EXCEPT !["SWTMR"] = OsAddNode2SortLink(ls["SWTMR"], s, g)]
    BY <1>2, <1>3, <2>1, <2>2
  <2>4. PICK x \in LinkTypes : x = "SWTMR" /\ s \in KindOf(x)
    BY <1>4
  <2>5. Added(g, ms, f, ls, x, s, t)
    BY <2>3, <2>4 DEF Added
  <2>6. /\ g \in [Nodes -> Int] /\ LinksType(ms)
        /\ Linked(f, ls) /\ f[s] = Never /\ t # Never => Linked(g, ms)
    BY <2>2, <2>4, <2>5, AddedToLink
  <2> QED BY <2>1, <2>2, <2>6
<1>6. r = [clk |-> k.clk, hw |-> k.hw, resp |-> k.resp, at |-> g, links |-> ms]
  BY <1>1, <1>2, <1>3 DEF Restart, KernelType
<1>7. r.clk = k.clk /\ r.hw = k.hw /\ r.resp = k.resp /\ r.at = g /\ r.links = ms
  BY <1>6
<1>8. KernelType(r)
  BY <1>5, <1>6, <1>7 DEF KernelType
<1>9. g[s] = t /\ \A n \in Nodes : n # s => g[n] = k.at[n]
  BY <1>2, <1>4 DEF KernelType
<1> QED BY <1>1, <1>5, <1>7, <1>8, <1>9 DEF SameClock

\* The function that Restarted defines exists.
Loop(f, k, timers, n, curr) ==
    f = [i \in 0..n |-> IF i = 0 THEN k
                        ELSE IF timers[i] \in Periodic THEN Restart(f[i - 1], timers[i], curr)
                        ELSE f[i - 1]]

LEMMA LoopRuns ==
    ASSUME NEW k, NEW timers, NEW n \in Nat, NEW curr
    PROVE  \E f : Loop(f, k, timers, n, curr)
<1> DEFINE T == {m \in Nat : ~ \E f : Loop(f, k, timers, m, curr)}
<1> SUFFICES ASSUME T # {} PROVE FALSE
  OBVIOUS
<1>1. PICK m \in T : \A y \in T : m <= y
  <2>1. T \subseteq Nat
    OBVIOUS
  <2> HIDE DEF T
  <2> QED BY <2>1, SmallestNat
<1>2. CASE m = 0
  <2> DEFINE g == [i \in 0..0 |-> k]
  <2>1. Loop(g, k, timers, 0, curr)
    BY DEF Loop
  <2> QED BY <1>1, <1>2, <2>1
<1>3. CASE m # 0
  <2>1. m - 1 \in Nat /\ m - 1 \notin T
    BY <1>1, <1>3
  <2>2. PICK f : Loop(f, k, timers, m - 1, curr)
    BY <2>1
  <2> DEFINE last == IF timers[m] \in Periodic THEN Restart(f[m - 1], timers[m], curr) ELSE f[m - 1]
             g == [i \in 0..m |-> IF i = m THEN last ELSE f[i]]
  <2>3. ASSUME NEW i \in 0..m
        PROVE  g[i] = IF i = 0 THEN k
                      ELSE IF timers[i] \in Periodic THEN Restart(g[i - 1], timers[i], curr)
                      ELSE g[i - 1]
    BY <1>1, <1>3, <2>2, <2>3 DEF Loop
  <2>4. Loop(g, k, timers, m, curr)
    BY <2>3 DEF Loop
  <2> QED BY <1>1, <2>4
<1> QED BY <1>2, <1>3

LEMMA RestartedIs ==
    ASSUME NEW k, NEW timers, NEW n \in Nat, NEW curr
    PROVE  \E f : Loop(f, k, timers, n, curr) /\ Restarted(k, timers, n, curr) = f[n]
<1> DEFINE f == CHOOSE g : Loop(g, k, timers, n, curr)
<1>1. Loop(f, k, timers, n, curr)
  BY LoopRuns
<1>2. Restarted(k, timers, n, curr) = f[n]
  BY DEF Restarted, Loop
<1> QED BY <1>1, <1>2

\* The timers the loop is to start again have no time, and get one.
Restartable(k, timers, n, curr) ==
    /\ \A i, j \in 1..n : timers[i] = timers[j] => i = j
    /\ \A i \in 1..n : k.at[timers[i]] = Never /\ NextPeriod(timers[i], curr) # Never

\* The time of a node is what it was, or that of the next expiry of a timer that is due.
MovedOn(r, k, m, curr) ==
    r.at[m] = k.at[m] \/ (m \in Timers /\ at[m] <= curr /\ r.at[m] = NextPeriod(m, curr))

\* The loop keeps the links in order: the timers it has still to start again have no time.
LEMMA LoopLinks ==
    ASSUME NEW k, KernelType(k), at \in [Nodes -> Int], NEW timers, NEW n \in Nat, NEW curr \in Int,
           \A i \in 1..n : timers[i] \in Timers /\ at[timers[i]] <= curr,
           NEW r, r = Restarted(k, timers, n, curr)
    PROVE  /\ KernelType(r) /\ SameClock(r, k)
           /\ \A t \in Tasks : r.at[t] = k.at[t]
           /\ \A m \in Nodes : MovedOn(r, k, m, curr)
           /\ Linked(k.at, k.links) /\ Restartable(k, timers, n, curr) => Linked(r.at, r.links)
<1> DEFINE Good == /\ Linked(k.at, k.links)
                   /\ \A i, j \in 1..n : timers[i] = timers[j] => i = j
                   /\ \A i \in 1..n : k.at[timers[i]] = Never /\ NextPeriod(timers[i], curr) # Never
           OK(kk, i) == /\ KernelType(kk) /\ SameClock(kk, k)
                        /\ \A t \in Tasks : kk.at[t] = k.at[t]
                        /\ \A m \in Nodes : MovedOn(kk, k, m, curr)
                        /\ Good => /\ Linked(kk.at, kk.links)
                                   /\ \A j \in 1..n : j > i => kk.at[timers[j]] = Never
<1>1. PICK f : Loop(f, k, timers, n, curr) /\ r = f[n]
  BY RestartedIs
<1> DEFINE T == {i \in 0..n : ~OK(f[i], i)}
<1>2. T = {}
  <2> SUFFICES ASSUME T # {} PROVE FALSE
    OBVIOUS
  <2>1. PICK i \in T : \A y \in T : i <= y
    <3>1. T \subseteq Nat
      OBVIOUS
    <3> HIDE DEF T
    <3> QED BY <3>1, SmallestNat
  <2>2. i \in 0..n /\ ~OK(f[i], i)
    BY <2>1
  <2>3. CASE i = 0
    <3>1. f[0] = k
      BY <1>1 DEF Loop
    <3>2. OK(k, 0)
      BY DEF SameClock, MovedOn
    <3> QED BY <2>2, <2>3, <3>1, <3>2
  <2>4. CASE i # 0
    <3>1. i \in 1..n /\ i - 1 \in 0..n /\ ~(i <= i - 1)
      BY <2>2, <2>4
    <3>2. i - 1 \notin T
      <4> HIDE DEF T
      <4> QED BY <2>1, <3>1
    <3>3. OK(f[i - 1], i - 1)
      <4> HIDE DEF OK
      <4> QED BY <3>1, <3>2
    <3>4. PICK kk : kk = f[i - 1]
      OBVIOUS
    <3>5. PICK s \in Timers : s = timers[i] /\ at[s] <= curr
      BY <3>1
    <3>6. f[i] = IF s \in Periodic THEN Restart(kk, s, curr) ELSE kk
      BY <1>1, <2>4, <3>1, <3>4, <3>5 DEF Loop
    <3>7. \A j \in 1..n : j > i => j > i - 1 /\ j # i
      BY <3>1
    <3>8. OK(kk, i - 1)
      BY <3>3, <3>4
    <3>9. CASE s \notin Periodic
      BY <2>2, <3>6, <3>7, <3>8, <3>9
    <3>10. CASE s \in Periodic
      <4>1. PICK q : q = Restart(kk, s, curr) /\ q = f[i]
        BY <3>6, <3>10
      <4>2. /\ KernelType(q) /\ SameClock(q, kk)
            /\ q.at[s] = NextPeriod(s, curr) /\ \A m \in Nodes : m # s => q.at[m] = kk.at[m]
            /\ Linked(kk.at, kk.links) /\ kk.at[s] = Never /\ NextPeriod(s, curr) # Never
                 => Linked(q.at, q.links)
        <5>1. KernelType(kk) /\ q = Restart(kk, s, curr) /\ at[s] <= curr
          BY <3>5, <3>8, <4>1
        <5> HIDE DEF OK, T, Good
        <5> QED BY <5>1, RestartIs
      <4>3. \A t \in Tasks : t \in Nodes /\ t # s
        BY TickAssumption DEF Nodes
      <4>4. \A t \in Tasks : q.at[t] = k.at[t]
        BY <3>8, <4>2, <4>3
      <4>5. SameClock(q, k)
        BY <3>8, <4>2 DEF SameClock
      <4>6. ASSUME Good PROVE Linked(q.at, q.links)
        <5>1. i > i - 1 /\ i \in 1..n
          BY <3>1
        <5>2. kk.at[s] = Never /\ Linked(kk.at, kk.links)
          BY <3>5, <3>8, <4>6, <5>1
        <5>3. NextPeriod(s, curr) # Never
          BY <3>5, <4>6, <5>1
        <5> QED BY <4>2, <5>2, <5>3
      <4>7. ASSUME Good, NEW j \in 1..n, j > i PROVE q.at[timers[j]] = Never
        <5>1. timers[j] # s /\ timers[j] \in Nodes
          BY <3>1, <3>5, <3>7, <4>7 DEF Nodes
        <5>2. kk.at[timers[j]] = Never
          BY <3>7, <3>8, <4>7
        <5> QED BY <4>2, <5>1, <5>2
      <4>m. \A m \in Nodes : MovedOn(q, k, m, curr)
        BY <3>5, <3>8, <4>2 DEF MovedOn
      <4>8. OK(q, i)
        BY <4>2, <4>4, <4>5, <4>6, <4>7, <4>m
      <4> HIDE DEF OK
      <4> QED BY <2>2, <4>1, <4>8
    <3> QED BY <3>9, <3>10
  <2> QED BY <2>3, <2>4
<1>3. OK(f[n], n)
  BY <1>2
<1> QED BY <1>1, <1>3 DEF Restartable

\* After a scan at curr a node has no time, the one it had, or that of its next period, and is
\* not due.
Ahead(r, m, curr) ==
    \/ r.at[m] = Never
    \/ /\ r.at[m] > curr
       /\ r.at[m] = at[m] \/ (m \in Timers /\ r.at[m] <= curr + Interval[m] * CyclesPerTick)

LEMMA ScannedIs ==
    ASSUME NEW k, KernelType(k), k.at = at, NEW r, r = Scanned(k)
    PROVE  /\ KernelType(r) /\ SameClock(r, k)
           /\ \A t \in Tasks : r.at[t] \in {Never, k.at[t]}
           /\ Linked(k.at, k.links) /\ FarFromEnd /\ k.clk.old = now => Linked(r.at, r.links)
           /\ Linked(k.at, k.links) => \A m \in Nodes : Ahead(r, m, k.clk.old)
<1>1. PICK f \in [Nodes -> Int] : f = k.at
  BY DEF KernelType
<1>2. PICK ls : ls = k.links /\ LinksType(ls) /\ DOMAIN ls = LinkTypes
  BY DEF KernelType, LinksType
<1>3. PICK curr \in Int : curr = k.clk.old
  BY DEF KernelType
<1>4. PICK d : d = [x \in LinkTypes |-> Expired(ls[x], f, curr)]
  OBVIOUS
<1>5. PICK g : g = TimesLeft(f, ls, d)
  OBVIOUS
<1>6. PICK ms : ms = LinksLeft(ls, d)
  OBVIOUS
<1>8. ASSUME NEW x \in LinkTypes
      PROVE  /\ d[x] \in 0..Len(ls[x]) /\ \A i \in 1..d[x] : f[ls[x][i]] <= curr
             /\ d[x] < Len(ls[x]) => ~(f[ls[x][d[x] + 1]] <= curr)
  <2>1. d[x] = Expired(ls[x], f, curr) /\ ls[x] \in Seq(KindOf(x))
    BY <1>2, <1>4 DEF LinksType
  <2> QED BY <2>1, ExpiredIs
<1>9. g \in [Nodes -> Int] /\ LinksType(ms) /\ (Linked(f, ls) => Linked(g, ms))
  <2>1. \A x \in LinkTypes : d[x] \in 0..Len(ls[x])
    BY <1>8
  <2> QED BY <1>2, <1>5, <1>6, <2>1, DueLeave
<1>10. PICK rest : rest = [clk |-> k.clk, hw |-> k.hw, resp |-> k.resp, at |-> g, links |-> ms]
  OBVIOUS
<1>11. /\ rest.clk = k.clk /\ rest.hw = k.hw /\ rest.resp = k.resp /\ rest.at = g /\ rest.links = ms
       /\ KernelType(rest)
  BY <1>9, <1>10 DEF KernelType
<1> DEFINE timers == ls["SWTMR"]
           n == d["SWTMR"]
<1>12. "SWTMR" \in LinkTypes /\ timers \in Seq(Timers) /\ n \in 0..Len(timers) /\ Len(timers) \in Nat
  BY <1>2, <1>8, LenProperties DEF LinkTypes, LinksType, KindOf
<1>13. r = Restarted(rest, timers, n, curr)
  <2>1. DOMAIN k.links = LinkTypes
    BY <1>2
  <2>2. rest = [k EXCEPT !.at = g, !.links = ms]
    <3>1. PICK q : q = [k EXCEPT !.at = g, !.links = ms]
      OBVIOUS
    <3>2. q = [clk |-> k.clk, hw |-> k.hw, resp |-> k.resp, at |-> g, links |-> ms]
      BY <3>1 DEF KernelType
    <3> QED BY <1>10, <3>1, <3>2
  <2>3. d = [x \in LinkTypes |-> Expired(k.links[x], k.at, k.clk.old)] /\ DOMAIN d = LinkTypes
    BY <1>1, <1>2, <1>3, <1>4
  <2>4. g = [m \in Nodes |-> IF m \in {h \in Nodes : \E x \in LinkTypes : \E i \in 1..d[x] : k.links[x][i] = h}
                             THEN Never ELSE k.at[m]]
    BY <1>1, <1>2, <1>5 DEF TimesLeft, Gone
  <2>5. ms = [x \in LinkTypes |-> SubSeq(k.links[x], d[x] + 1, Len(k.links[x]))]
    BY <1>2, <1>6 DEF LinksLeft
  <2> QED BY <1>2, <1>3, <2>1, <2>2, <2>3, <2>4, <2>5 DEF Scanned
<1>14. \A i \in 1..n : timers[i] \in Timers /\ timers[i] \in Nodes /\ f[timers[i]] <= curr
  <2>1. \A i \in 1..n : i \in 1..Len(timers)
    BY <1>12
  <2> QED BY <1>8, <1>12, <2>1, ElementOfSeq DEF Nodes
<1>15. n \in Nat /\ at \in [Nodes -> Int] /\ \A i \in 1..n : timers[i] \in Timers /\ at[timers[i]] <= curr
  BY <1>1, <1>12, <1>14
<1>16. PICK tt : tt = timers
  OBVIOUS
<1>m. PICK m \in Nat : m = n
  BY <1>15
<1>17. /\ KernelType(r) /\ SameClock(r, rest)
       /\ \A t \in Tasks : r.at[t] = rest.at[t]
       /\ \A h \in Nodes : MovedOn(r, rest, h, curr)
       /\ Linked(rest.at, rest.links) /\ Restartable(rest, tt, m, curr) => Linked(r.at, r.links)
  <2>1. r = Restarted(rest, tt, m, curr) /\ \A i \in 1..m : tt[i] \in Timers /\ at[tt[i]] <= curr
    BY <1>13, <1>15, <1>16, <1>m
  <2> HIDE DEF timers, n
  <2> QED BY <1>11, <1>15, <2>1, LoopLinks
<1>18. \A t \in Tasks : r.at[t] \in {Never, k.at[t]}
  BY <1>1, <1>5, <1>11, <1>17 DEF Nodes, TimesLeft
<1>19. ASSUME Linked(k.at, k.links), FarFromEnd, k.clk.old = now
       PROVE  Linked(r.at, r.links)
  <2>1. Linked(rest.at, rest.links)
    BY <1>1, <1>2, <1>9, <1>11, <1>19
  <2>2. \A i, j \in 1..n : timers[i] = timers[j] => i = j
    <3>1. NoDup(timers)
      BY <1>2, <1>12, <1>19 DEF Linked
    <3>2. \A i \in 1..n : i \in DOMAIN timers
      BY <1>12, LenProperties
    <3> QED BY <3>1, <3>2 DEF NoDup
  <2>3. \A i \in 1..n : rest.at[timers[i]] = Never
    <3>1. \A i \in 1..n : timers[i] \in Gone(ls, d)
      BY <1>12, <1>14 DEF Gone
    <3> QED BY <1>5, <1>11, <1>14, <3>1 DEF TimesLeft
  <2>4. ASSUME NEW i \in 1..n PROVE NextPeriod(timers[i], curr) # Never
    <3>1. PICK s \in Timers : s = timers[i] /\ at[s] <= curr
      BY <1>15
    <3>2. PICK t \in Int : t = NextPeriod(s, curr) /\ t <= curr + Interval[s] * CyclesPerTick
      BY <1>15, <3>1, NextPeriodIs
    <3>3. PICK I \in Nat : I = Interval[s] * CyclesPerTick /\ now + I < Never
      BY <1>19, TickAssumption, Ticks DEF FarFromEnd
    <3>4. t <= curr + I /\ curr + I < Never /\ Never \in Nat
      BY <1>3, <1>19, <3>2, <3>3, TickAssumption
    <3>5. t # Never
      BY <3>3, <3>4
    <3> QED BY <3>1, <3>2, <3>5
  <2> HIDE DEF timers, n
  <2>5. Restartable(rest, tt, m, curr)
    BY <1>16, <1>m, <2>2, <2>3, <2>4 DEF Restartable
  <2> QED BY <1>17, <2>1, <2>5
<1>20. ASSUME Linked(f, ls), NEW h \in Nodes, f[h] # Never, h \notin Gone(ls, d)
       PROVE  f[h] > curr
  <2>1. PICK x \in LinkTypes : h \in KindOf(x)
    BY DEF Nodes, LinkTypes, KindOf
  <2>2. PICK s : s = ls[x] /\ s \in Seq(KindOf(x)) /\ Ordered(s, f) /\ h \in Range(s)
    BY <1>2, <1>20, <2>1 DEF Linked, LinksType
  <2>3. PICK i \in DOMAIN s : s[i] = h
    BY <2>2 DEF Range
  <2>4. DOMAIN s = 1..Len(s) /\ Len(s) \in Nat
    BY <2>2, LenProperties
  <2>5. PICK e \in 0..Len(s) : e = d[x] /\ (e < Len(s) => ~(f[s[e + 1]] <= curr))
    BY <1>8, <2>2
  <2>6. i \notin 1..e
    <3>1. i \in 1..d[x] => h \in Gone(ls, d)
      BY <2>2, <2>3 DEF Gone
    <3> QED BY <1>20, <2>5, <3>1
  <2>7. e < Len(s) /\ e + 1 \in DOMAIN s /\ (e + 1 < i \/ e + 1 = i)
    BY <2>3, <2>4, <2>5, <2>6
  <2>8. s[e + 1] \in Nodes
    BY <2>2, <2>4, <2>7, ElementOfSeq, KindsApart
  <2>9. f[s[e + 1]] <= f[h] /\ f[h] \in Int /\ f[s[e + 1]] \in Int
    BY <2>2, <2>3, <2>7, <2>8 DEF Ordered
  <2> QED BY <2>5, <2>7, <2>9
<1>21. ASSUME Linked(k.at, k.links), NEW h \in Nodes PROVE Ahead(r, h, curr)
  <2>1. CASE h \in Timers /\ at[h] <= curr /\ r.at[h] = NextPeriod(h, curr)
    BY <1>15, <2>1, NextPeriodIs DEF Ahead
  <2>2. CASE r.at[h] = rest.at[h]
    <3>1. r.at[h] = IF h \in Gone(ls, d) THEN Never ELSE f[h]
      BY <1>5, <1>11, <2>2 DEF TimesLeft
    <3>2. CASE h \in Gone(ls, d) \/ f[h] = Never
      BY <3>1, <3>2 DEF Ahead
    <3>3. CASE h \notin Gone(ls, d) /\ f[h] # Never
      <4>1. f[h] > curr
        BY <1>1, <1>2, <1>20, <1>21, <3>3
      <4> QED BY <1>1, <3>1, <3>3, <4>1 DEF Ahead
    <3> QED BY <3>2, <3>3
  <2> QED BY <1>17, <2>1, <2>2 DEF MovedOn
<1> QED BY <1>3, <1>11, <1>17, <1>18, <1>19, <1>21 DEF SameClock

LEMMA Consts ==
    /\ Precision \in Nat /\ Precision > 0 /\ PeriodMax \in Nat /\ PeriodMax > Precision
    /\ Slice \in Nat /\ Slice > 0 /\ SliceMin \in Nat /\ Never \in Nat /\ MaskMax \in Nat
    /\ MinPeriod \in Nat
<1>1. /\ PeriodMax \in Nat /\ Slice \in Nat /\ Never \in Nat /\ MaskMax \in Nat /\ MinPeriod \in Nat
      /\ Precision > 0 /\ PeriodMax > Precision /\ SliceMin \in 0..(Slice - 1)
  BY TickAssumption
<1>2. PICK m \in Nat : m = MinPeriod
  BY <1>1
<1>3. (m * 75) \div 100 \in Nat
  OBVIOUS
<1>4. Precision \in Nat
  BY <1>2, <1>3, TickAssumption
<1>5. Slice > 0 /\ SliceMin \in Nat
  BY <1>1
<1> QED BY <1>1, <1>4, <1>5

LEMMA AddIs ==
    ASSUME NEW k, KernelType(k), NEW x \in LinkTypes, NEW n \in KindOf(x), NEW from \in Int,
           NEW ticks \in Nat \ {0}, NEW r, r = OsAdd2SortLink(k, n, from, ticks, x)
    PROVE  /\ KernelType(r) /\ SameClock(r, k)
           /\ r.at[n] = from + ticks * CyclesPerTick
           /\ \A m \in Nodes : m # n => r.at[m] = k.at[m]
           /\ Linked(k.at, k.links) /\ k.at[n] = Never /\ from + ticks * CyclesPerTick < Never
                => Linked(r.at, r.links)
<1>0. PICK w \in Nat : w = ticks * CyclesPerTick
  BY Ticks
<1>1. PICK t \in Int : t = from + w
  OBVIOUS
<1>2. PICK f \in [Nodes -> Int] : f = k.at
  BY DEF KernelType
<1>3. PICK ls : ls = k.links /\ LinksType(ls)
  BY DEF KernelType
<1>4. PICK g : g = [f EXCEPT ![n] = t]
  OBVIOUS
<1>5. PICK ms : ms = [ls EXCEPT ![x] = OsAddNode2SortLink(ls[x], n, g)]
  OBVIOUS
<1>6. Added(g, ms, f, ls, x, n, t)
  BY <1>4, <1>5 DEF Added
<1>7. /\ g \in [Nodes -> Int] /\ LinksType(ms)
      /\ Linked(f, ls) /\ f[n] = Never /\ t # Never => Linked(g, ms)
  BY <1>3, <1>6, AddedToLink
<1>8. r = [clk |-> k.clk, hw |-> k.hw, resp |-> k.resp, at |-> g, links |-> ms]
  BY <1>0, <1>1, <1>2, <1>3, <1>4, <1>5 DEF OsAdd2SortLink, KernelType
<1>9. r.clk = k.clk /\ r.hw = k.hw /\ r.resp = k.resp /\ r.at = g /\ r.links = ms
  BY <1>8
<1>10. KernelType(r)
  BY <1>7, <1>8, <1>9 DEF KernelType
<1>11. g[n] = t /\ \A m \in Nodes : m # n => g[m] = f[m]
  BY <1>4, KindsApart
<1>12. from + ticks * CyclesPerTick < Never => t # Never
  BY <1>0, <1>1, Consts
<1> QED BY <1>0, <1>1, <1>2, <1>3, <1>7, <1>9, <1>10, <1>11, <1>12 DEF SameClock

\* What OsDeleteSortLink leaves alone: the clock, the tick timer and who it is for.
LEMMA DeleteIs ==
    ASSUME NEW k, KernelType(k), NEW n \in Nodes, NEW r, r = OsDeleteSortLink(k, n)
    PROVE  /\ KernelType(r) /\ r.clk = k.clk /\ r.hw = k.hw /\ r.at[n] = Never
           /\ r.resp.id = k.resp.id
           /\ r.resp.time = IF k.at[n] # Never /\ k.at[n] <= k.resp.time THEN Never ELSE k.resp.time
           /\ \A m \in Nodes : m # n => r.at[m] = k.at[m]
           /\ Linked(k.at, k.links) => Linked(r.at, r.links)
<1>1. CASE k.at[n] = Never
  BY <1>1 DEF OsDeleteSortLink
<1>2. CASE k.at[n] # Never
  <2>1. PICK q : q = IF k.at[n] <= k.resp.time THEN [k EXCEPT !.resp.time = Never] ELSE k
    OBVIOUS
  <2>2. /\ KernelType(q) /\ q.clk = k.clk /\ q.hw = k.hw /\ q.at = k.at /\ q.links = k.links
        /\ q.resp.id = k.resp.id
        /\ q.resp.time = IF k.at[n] <= k.resp.time THEN Never ELSE k.resp.time
    <3>1. CASE k.at[n] <= k.resp.time
      <4>1. PICK u : u = [k.resp EXCEPT !.time = Never]
        OBVIOUS
      <4>2. u \in [time : Int, id : Ids] /\ u.time = Never /\ u.id = k.resp.id
        BY <4>1, Consts DEF KernelType
      <4>3. q = [clk |-> k.clk, hw |-> k.hw, resp |-> u, at |-> k.at, links |-> k.links]
        BY <2>1, <3>1, <4>1 DEF KernelType
      <4>4. q.clk = k.clk /\ q.hw = k.hw /\ q.resp = u /\ q.at = k.at /\ q.links = k.links
        BY <4>3
      <4> QED BY <3>1, <4>2, <4>3, <4>4 DEF KernelType
    <3>2. CASE ~(k.at[n] <= k.resp.time)
      BY <2>1, <3>2
    <3> QED BY <3>1, <3>2
  <2>3. PICK f \in [Nodes -> Int] : f = q.at
    BY <2>2 DEF KernelType
  <2>4. PICK ls : ls = q.links /\ LinksType(ls)
    BY <2>2 DEF KernelType
  <2>5. PICK g : g = [f EXCEPT ![n] = Never]
    OBVIOUS
  <2>6. PICK ms : ms = [x \in DOMAIN ls |-> Without(ls[x], n)]
    OBVIOUS
  <2>7. g \in [Nodes -> Int] /\ LinksType(ms) /\ (Linked(f, ls) => Linked(g, ms))
    <3>1. Deleted(g, ms, f, ls, n)
      BY <2>5, <2>6 DEF Deleted
    <3> QED BY <2>4, <3>1, DeletedFromLinks
  <2>8. r = OsDeleteNodeSortLink(q, n)
    BY <1>2, <2>1 DEF OsDeleteSortLink
  <2>9. r = [clk |-> q.clk, hw |-> q.hw, resp |-> q.resp, at |-> g, links |-> ms]
    <3>1. KernelType(q)
      BY <2>2
    <3>2. r = [q EXCEPT !.at = g, !.links = ms]
      BY <2>3, <2>4, <2>5, <2>6, <2>8 DEF OsDeleteNodeSortLink
    <3> QED BY <3>1, <3>2 DEF KernelType
  <2>10. r.clk = q.clk /\ r.hw = q.hw /\ r.resp = q.resp /\ r.at = g /\ r.links = ms
    BY <2>9
  <2>11. KernelType(r)
    BY <2>2, <2>7, <2>9, <2>10 DEF KernelType
  <2>12. g[n] = Never /\ \A m \in Nodes : m # n => g[m] = f[m]
    BY <2>5
  <2> QED BY <1>2, <2>2, <2>3, <2>4, <2>7, <2>10, <2>11, <2>12
<1> QED BY <1>1, <1>2

-----------------------------------------------------------------------------
(***************************************************************************)
(* The clock and the tick timer.                                           *)
(***************************************************************************)
\* Interrupts are locked for less than any period the tick timer is armed for, and the kernel
\* is not called while they are locked and the tick is pending.
Brief == ~CallsOverTick /\ MaskMax <= Precision /\ MaskMax <= Slice

\* The clock c and the tick timer h agree with the time, and no period has been missed.
GoodClock(c, h) ==
    /\ ~c.update /\ c.old <= now
    /\ c.base + (now - h.at) + (IF h.pend THEN h.load ELSE 0) = now
    /\ h.load >= 1 /\ h.load >= MaskMax
    /\ h.at <= now /\ (~h.pend => now < h.at + h.load)

\* A reading of a good clock is the time.
LEMMA ReadIs ==
    ASSUME now \in Int, NEW c \in [base : Int, old : Int, update : BOOLEAN],
           hw \in [load : Int, at : Int, pend : BOOLEAN], c.base + Elapsed = now, c.old <= now,
           NEW r, r = LOS_SysCycleGet(c)
    PROVE  /\ r \in [base : Int, old : Int, update : BOOLEAN]
           /\ r.base = c.base /\ r.old = now /\ r.update = c.update
<1>1. ~(c.base + Elapsed < c.old)
  <2>1. c.old \in Int
    OBVIOUS
  <2> QED BY <2>1
<1>2. r = [c EXCEPT !.old = now]
  BY <1>1 DEF LOS_SysCycleGet
<1> QED BY <1>2

LEMMA ExpireTimeIs ==
    ASSUME NEW S, NEW s \in Seq(S), NEW f, \A m \in S : f[m] \in Int, NEW curr \in Int
    PROVE  GetSortLinkNextExpireTime(s, f, curr, Precision) \in Int
<1>1. CASE s = <<>>
  BY <1>1, Consts DEF GetSortLinkNextExpireTime
<1>2. CASE s # <<>>
  <2>1. Head(s) \in S
    BY <1>2
  <2> QED BY <1>2, <2>1, Consts DEF GetSortLinkNextExpireTime
<1> QED BY <1>1, <1>2

\* OsSchedSetNextExpireTime leaves times and links alone, and a good clock good.
LEMMA ArmIs ==
    ASSUME now \in Int, NEW k, KernelType(k), NEW id \in Ids, NEW end \in Int,
           NEW r, r = OsSchedSetNextExpireTime(k, id, end)
    PROVE  /\ KernelType(r) /\ r.at = k.at /\ r.links = k.links /\ r.clk.old = k.clk.old
           /\ ~k.hw.pend => ~r.hw.pend
           /\ Brief /\ k.clk.old = now /\ GoodClock(k.clk, k.hw) => GoodClock(r.clk, r.hw)
<1>0. /\ PeriodMax \in Nat /\ Precision \in Nat /\ Precision > 0 /\ PeriodMax > Precision
      /\ MinPeriod \in Nat /\ MaskMax \in Nat
  BY Consts
<1>1. PICK curr \in Int : curr = k.clk.old
  BY DEF KernelType
<1> DEFINE T == {GetSortLinkNextExpireTime(k.links[x], k.at, curr, Precision) : x \in DOMAIN k.links}
<1>2. PICK timeout \in Int : timeout = Min(T)
  <2> DEFINE e(x) == GetSortLinkNextExpireTime(k.links[x], k.at, curr, Precision)
  <2>1. ASSUME NEW x \in LinkTypes PROVE e(x) \in Int
    <3>1. k.links[x] \in Seq(KindOf(x)) /\ \A m \in KindOf(x) : k.at[m] \in Int
      BY KindsApart DEF KernelType, LinksType
    <3> QED BY <3>1, ExpireTimeIs
  <2>2. PICK a \in Int : a = e("TASK")
    BY <2>1 DEF LinkTypes
  <2>3. PICK b \in Int : b = e("SWTMR")
    BY <2>1 DEF LinkTypes
  <2>4. DOMAIN k.links = LinkTypes
    BY DEF KernelType, LinksType
  <2>5. T = {a, b}
    BY <2>2, <2>3, <2>4 DEF LinkTypes
  <2> HIDE DEF T
  <2>6. Min({a, b}) \in Int
    BY TwoNumbers
  <2> QED BY <2>5, <2>6
<1>3. PICK next \in Int : next = IF IsTimeSlice(timeout, end) THEN end ELSE timeout
  OBVIOUS
<1>4. PICK period \in Int : /\ period = IF next < curr THEN PeriodMax ELSE Max({next - curr, Precision})
                            /\ period >= Precision
  <2>1. CASE next < curr
    BY <1>0, <2>1
  <2>2. CASE ~(next < curr)
    <3>1. PICK a \in Int : a = next - curr
      OBVIOUS
    <3>2. PICK b \in Int : b = Precision
      BY <1>0
    <3>3. Max({a, b}) \in Int /\ Max({a, b}) >= b
      BY TwoNumbers
    <3> QED BY <2>2, <3>1, <3>2, <3>3
  <2> QED BY <2>1, <2>2
<1>5. PICK load \in Int : load = Min({period, PeriodMax}) /\ load >= Precision
  <2>1. PICK b \in Int : b = PeriodMax
    BY <1>0
  <2>2. Min({period, b}) \in {period, b}
    BY TwoNumbers
  <2>3. PICK load \in Int : load = Min({period, b})
    BY <2>2
  <2>4. load >= Precision
    BY <1>0, <1>4, <2>1, <2>2, <2>3
  <2> QED BY <2>1, <2>3, <2>4
<1>6. PICK h : h = SysTickReload(period)
  OBVIOUS
<1>7. h = [load |-> load, at |-> now, pend |-> FALSE]
  BY <1>5, <1>6 DEF SysTickReload
<1>8. PICK q : q = [time |-> curr + h.load, id |-> IF IsTimeSlice(timeout, end) THEN id ELSE "TIMER"]
  OBVIOUS
<1>9. PICK c : c = [k.clk EXCEPT !.base = curr]
  OBVIOUS
<1>10. r = IF k.resp.time <= next \/ k.resp.time - next < Precision THEN k
           ELSE [k EXCEPT !.resp = q, !.hw = h, !.clk.base = curr]
  <2> HIDE DEF T
  <2>1. timeout = Min({GetSortLinkNextExpireTime(k.links[x], k.at, k.clk.old, Precision) : x \in DOMAIN k.links})
    BY <1>1, <1>2 DEF T
  <2> QED BY <1>1, <1>3, <1>4, <1>6, <1>8, <2>1 DEF OsSchedSetNextExpireTime
<1>11. CASE k.resp.time <= next \/ k.resp.time - next < Precision
  BY <1>10, <1>11
<1>12. CASE ~(k.resp.time <= next \/ k.resp.time - next < Precision)
  <2>1. r = [k EXCEPT !.resp = q, !.hw = h, !.clk.base = curr]
    BY <1>10, <1>12
  <2>2. r = [clk |-> c, hw |-> h, resp |-> q, at |-> k.at, links |-> k.links]
    BY <1>9, <2>1 DEF KernelType
  <2>3. r.clk = c /\ r.hw = h /\ r.resp = q /\ r.at = k.at /\ r.links = k.links
    BY <2>2
  <2>4. /\ c \in [base : Int, old : Int, update : BOOLEAN]
        /\ c.base = curr /\ c.old = curr /\ c.update = k.clk.update
    BY <1>1, <1>9 DEF KernelType
  <2>5. /\ h \in [load : Int, at : Int, pend : BOOLEAN]
        /\ h.load = load /\ h.at = now /\ h.pend = FALSE
    BY <1>7
  <2>6. q \in [time : Int, id : Ids]
    BY <1>8, <2>5 DEF Ids
  <2>7. KernelType(r)
    BY <2>2, <2>3, <2>4, <2>5, <2>6 DEF KernelType
  <2>8. ASSUME Brief, k.clk.old = now, GoodClock(k.clk, k.hw) PROVE GoodClock(c, h)
    <3>1. curr = now /\ ~c.update /\ MaskMax <= Precision
      BY <1>1, <2>4, <2>8 DEF GoodClock, Brief
    <3>2. h.load >= 1 /\ h.load >= MaskMax /\ h.at <= now /\ now < h.at + h.load
      BY <1>0, <1>5, <2>5, <3>1
    <3>3. c.old <= now /\ c.base + (now - h.at) + 0 = now
      BY <1>1, <2>4, <2>5, <3>1
    <3> QED BY <2>5, <3>1, <3>2, <3>3 DEF GoodClock
  <2> QED BY <1>1, <2>3, <2>4, <2>5, <2>7, <2>8
<1> QED BY <1>11, <1>12

LEMMA ResponseIs ==
    ASSUME NEW k, KernelType(k), NEW v \in Int, NEW r, r = [k EXCEPT !.resp.time = v]
    PROVE  /\ KernelType(r) /\ r.clk = k.clk /\ r.hw = k.hw /\ r.at = k.at /\ r.links = k.links
           /\ r.resp.time = v /\ r.resp.id = k.resp.id
<1>1. PICK u : u = [k.resp EXCEPT !.time = v]
  OBVIOUS
<1>2. u \in [time : Int, id : Ids] /\ u.time = v /\ u.id = k.resp.id
  BY <1>1 DEF KernelType
<1>3. r = [clk |-> k.clk, hw |-> k.hw, resp |-> u, at |-> k.at, links |-> k.links]
  BY <1>1 DEF KernelType
<1>4. r.clk = k.clk /\ r.hw = k.hw /\ r.resp = u /\ r.at = k.at /\ r.links = k.links
  BY <1>3
<1> QED BY <1>2, <1>3, <1>4 DEF KernelType

-----------------------------------------------------------------------------
(***************************************************************************)
(* The invariant.                                                          *)
(***************************************************************************)
TickType ==
    /\ now \in Int
    /\ clk \in [base : Int, old : Int, update : BOOLEAN]
    /\ hw \in [load : Int, at : Int, pend : BOOLEAN]
    /\ resp \in [time : Int, id : Ids]
    /\ at \in [Nodes -> Int] /\ LinksType(links)
    /\ run \in Tasks \cup {Idle} /\ start \in Int /\ slice \in [Tasks \cup {Idle} -> Int]
    /\ wait \in Waits \cup {0} /\ (run = Idle => wait = 0)
    /\ pendsv \in BOOLEAN /\ locked \in BOOLEAN /\ mask \in 0..(MaskMax + 1)

\* A tick that is pending has been for as long as interrupts have been locked at most, and
\* the lock began before.
ClockInv ==
    /\ GoodClock(clk, hw)
    /\ hw.pend => IF mask > 0 THEN Elapsed <= mask - 2 ELSE Elapsed = 0 \/ Elapsed <= MaskMax - 1

\* A task that runs does not wait.
LinkInv ==
    /\ Linked(at, links)
    /\ run # Idle => at[run] = Never

\* What a kernel step starts with and keeps: the clock has been read, and is right.
Fine(k) ==
    /\ KernelType(k) /\ k.clk.old = now /\ ~k.hw.pend
    /\ GoodClock(k.clk, k.hw)

LEMMA KernelFine ==
    ASSUME TickType, ClockInv, ~hw.pend
    PROVE  Fine(Kernel) /\ Kernel.at = at /\ Kernel.links = links
<1>1. clk.base + Elapsed = now /\ clk.old <= now
  BY DEF ClockInv, GoodClock, Elapsed, TickType
<1>2. PICK c : c = LOS_SysCycleGet(clk)
  OBVIOUS
<1>3. /\ c \in [base : Int, old : Int, update : BOOLEAN]
      /\ c.base = clk.base /\ c.old = now /\ c.update = clk.update
  BY <1>1, <1>2, ReadIs DEF TickType
<1>4. PICK k : k = Kernel
  OBVIOUS
<1>5. k = [clk |-> c, hw |-> hw, resp |-> resp, at |-> at, links |-> links]
  BY <1>2, <1>4 DEF Kernel
<1>6. k.clk = c /\ k.hw = hw /\ k.resp = resp /\ k.at = at /\ k.links = links
  BY <1>5
<1>7. KernelType(k)
  BY <1>3, <1>5, <1>6 DEF KernelType, TickType
<1>8. GoodClock(c, hw)
  BY <1>3 DEF ClockInv, GoodClock, TickType
<1> QED BY <1>3, <1>4, <1>6, <1>7, <1>8 DEF Fine

LEMMA ArmFine ==
    ASSUME Brief, TickType, NEW k, Fine(k), NEW id \in Ids, NEW end \in Int,
           NEW r, r = OsSchedSetNextExpireTime(k, id, end)
    PROVE  Fine(r) /\ r.at = k.at /\ r.links = k.links
<1>1. /\ KernelType(r) /\ r.at = k.at /\ r.links = k.links /\ r.clk.old = k.clk.old
      /\ ~k.hw.pend => ~r.hw.pend
      /\ Brief /\ k.clk.old = now /\ GoodClock(k.clk, k.hw) => GoodClock(r.clk, r.hw)
  <2>1. KernelType(k) /\ now \in Int
    BY DEF Fine, TickType
  <2> QED BY <2>1, ArmIs
<1> QED BY <1>1 DEF Fine

LEMMA UpdateFine ==
    ASSUME Brief, TickType, NEW k, Fine(k), NEW r, r = OsSchedUpdateExpireTime(k)
    PROVE  Fine(r) /\ r.at = k.at /\ r.links = k.links
<1>1. PICK id \in Ids : id = run
  BY DEF TickType, Ids
<1>2. SliceEnd \in Int
  BY Consts DEF SliceEnd, TickType
<1>3. PICK end \in Int : end = IF run = Idle THEN Never - Precision ELSE SliceEnd
  <2>1. Never - Precision \in Int
    BY Consts
  <2> QED BY <1>2, <2>1
<1>4. r = OsSchedSetNextExpireTime(k, id, end)
  BY <1>1, <1>3 DEF OsSchedUpdateExpireTime
<1> QED BY <1>4, ArmFine

\* A kernel step that ends in k.
LEMMA BecomesFine ==
    ASSUME TickType, NEW k, Fine(k), Becomes(k), now' = now
    PROVE  /\ clk' \in [base : Int, old : Int, update : BOOLEAN]
           /\ hw' \in [load : Int, at : Int, pend : BOOLEAN]
           /\ resp' \in [time : Int, id : Ids]
           /\ at' \in [Nodes -> Int] /\ LinksType(links') /\ ClockInv'
<1>1. clk' = k.clk /\ hw' = k.hw /\ resp' = k.resp /\ at' = k.at /\ links' = k.links
  BY DEF Becomes
<1>2. KernelType(k) /\ ~k.hw.pend /\ GoodClock(k.clk, k.hw)
  BY DEF Fine
<1>3. ClockInv'
  BY <1>1, <1>2 DEF ClockInv, GoodClock
<1> QED BY <1>1, <1>2, <1>3 DEF KernelType

-----------------------------------------------------------------------------
(***************************************************************************)
(* The steps.                                                              *)
(***************************************************************************)
Keeps == TickType' /\ ClockInv' /\ (FarFromEnd /\ LinkInv => LinkInv')

LEMMA TimePassesKeeps ==
    ASSUME Brief, TickType, ClockInv, TimePasses
    PROVE  Keeps
<1>0. /\ now \in Int /\ hw \in [load : Int, at : Int, pend : BOOLEAN] /\ mask \in 0..(MaskMax + 1)
      /\ clk \in [base : Int, old : Int, update : BOOLEAN] /\ MaskMax \in Nat
  BY Consts DEF TickType
<1>1. /\ mask > 0 \/ ~hw.pend
      /\ mask > 0 => mask <= MaskMax
      /\ now' = now + 1
      /\ mask' = IF mask > 0 THEN mask + 1 ELSE 0
      /\ hw' = IF now + 1 = hw.at + hw.load THEN [hw EXCEPT !.at = now + 1, !.pend = TRUE] ELSE hw
      /\ clk' = clk
  BY DEF TimePasses
<1>2. mask' \in 0..(MaskMax + 1) /\ (mask > 0 => mask' = mask + 1)
  BY <1>0, <1>1
<1>3. /\ ~clk.update /\ clk.old <= now
      /\ clk.base + (now - hw.at) + (IF hw.pend THEN hw.load ELSE 0) = now
      /\ hw.load >= 1 /\ hw.load >= MaskMax
      /\ hw.at <= now /\ (~hw.pend => now < hw.at + hw.load)
      /\ hw.pend => IF mask > 0 THEN now - hw.at <= mask - 2
                    ELSE now - hw.at = 0 \/ now - hw.at <= MaskMax - 1
  BY DEF ClockInv, GoodClock, Elapsed
<1>4. ASSUME now + 1 = hw.at + hw.load
      PROVE  ClockInv' /\ hw' \in [load : Int, at : Int, pend : BOOLEAN]
  <2>1. ~hw.pend
    <3>1. ASSUME hw.pend PROVE FALSE
      <4>1. now - hw.at <= mask - 2 /\ mask <= MaskMax
        BY <1>1, <1>3, <3>1
      <4> QED BY <1>0, <1>3, <1>4, <4>1
    <3> QED BY <3>1
  <2>2. PICK h : h = [hw EXCEPT !.at = now + 1, !.pend = TRUE]
    OBVIOUS
  <2>a. h = [load |-> hw.load, at |-> now + 1, pend |-> TRUE]
    BY <1>0, <2>2
  <2>3. /\ h \in [load : Int, at : Int, pend : BOOLEAN] /\ h.load = hw.load /\ h.at = now + 1
        /\ h.pend = TRUE /\ hw' = h
    <3>1. hw' = h
      BY <1>1, <1>4, <2>2
    <3>2. hw.load \in Int /\ now + 1 \in Int
      BY <1>0
    <3>3. h \in [load : Int, at : Int, pend : BOOLEAN]
      BY <2>a, <3>2
    <3>4. h.load = hw.load /\ h.at = now + 1 /\ h.pend = TRUE
      BY <2>a
    <3> QED BY <3>1, <3>3, <3>4
  <2>4. clk.base + (now' - hw'.at) + hw'.load = now'
    BY <1>0, <1>1, <1>3, <1>4, <2>1, <2>3
  <2>5. now' - hw'.at = 0 /\ hw'.at <= now' /\ clk.old <= now'
    <3>1. clk.old \in Int
      BY <1>0
    <3>2. now' = hw'.at /\ now' \in Int /\ now < now'
      BY <1>0, <1>1, <2>3
    <3> QED BY <1>0, <1>3, <3>1, <3>2
  <2>6. mask' > 0 => 0 <= mask' - 2
    BY <1>0, <1>1, <1>2
  <2> QED BY <1>1, <1>2, <1>3, <2>3, <2>4, <2>5, <2>6 DEF ClockInv, GoodClock, Elapsed
<1>5. ASSUME now + 1 # hw.at + hw.load
      PROVE  ClockInv' /\ hw' \in [load : Int, at : Int, pend : BOOLEAN]
  <2>1. hw' = hw
    BY <1>1, <1>5
  <2>2. /\ clk.base + (now' - hw.at) + (IF hw.pend THEN hw.load ELSE 0) = now'
        /\ clk.old <= now' /\ hw.at <= now' /\ (~hw.pend => now' < hw.at + hw.load)
    BY <1>0, <1>1, <1>3, <1>5
  <2>3. hw.pend => mask' > 0 /\ now' - hw.at <= mask' - 2
    BY <1>0, <1>1, <1>2, <1>3
  <2> QED BY <1>0, <1>1, <1>3, <2>1, <2>2, <2>3 DEF ClockInv, GoodClock, Elapsed
<1>6. ClockInv' /\ hw' \in [load : Int, at : Int, pend : BOOLEAN] /\ now' \in Int
  BY <1>0, <1>1, <1>4, <1>5
<1>7. TickType'
  BY <1>1, <1>2, <1>6 DEF TickType, TimePasses
<1>8. LinkInv => LinkInv'
  BY DEF LinkInv, Linked, TimePasses
<1> QED BY <1>6, <1>7, <1>8 DEF Keeps

\* The steps that leave the kernel alone.
LEMMA QuietKeeps ==
    ASSUME Brief, TickType, ClockInv,
           \/ IntLock \/ IntRestore \/ TaskYield \/ TaskLock \/ TaskUnlock
           \/ \E ticks \in Waits : TaskWait(ticks)
           \/ UNCHANGED vars
    PROVE  Keeps
<1>0. MaskMax \in Nat
  BY Consts
<1>1. UNCHANGED <<now, hw, clk, resp, at, links, run, start>>
  BY DEF IntLock, IntRestore, TaskYield, TaskLock, TaskUnlock, TaskWait, timeVars, vars
<1>2. LinkInv => LinkInv'
  BY <1>1 DEF LinkInv, Linked
<1>3. CASE IntLock
  <2>1. ~hw.pend /\ mask' = 1 /\ mask' \in 0..(MaskMax + 1)
    BY <1>0, <1>3 DEF IntLock
  <2>2. TickType'
    BY <1>1, <1>3, <2>1 DEF TickType, IntLock
  <2>3. ClockInv'
    BY <1>1, <2>1 DEF ClockInv, GoodClock
  <2> QED BY <1>2, <2>2, <2>3 DEF Keeps
<1>4. CASE IntRestore
  <2>1. mask > 0 /\ mask' = 0 /\ mask \in 0..(MaskMax + 1) /\ mask' \in 0..(MaskMax + 1)
    BY <1>0, <1>4 DEF IntRestore, TickType
  <2>2. TickType'
    BY <1>1, <1>4, <2>1 DEF TickType, IntRestore
  <2>3. hw.pend => Elapsed <= MaskMax - 1
    <3>1. Elapsed \in Int
      BY DEF Elapsed, TickType
    <3>2. hw.pend => Elapsed <= mask - 2
      BY <2>1 DEF ClockInv
    <3> QED BY <1>0, <2>1, <3>1, <3>2
  <2>4. Elapsed' = Elapsed
    BY <1>1 DEF Elapsed
  <2>5. ClockInv'
    BY <1>1, <2>1, <2>3, <2>4 DEF ClockInv, GoodClock
  <2> QED BY <1>2, <2>2, <2>5 DEF Keeps
<1>5. CASE mask' = mask
  <2>1. ClockInv'
    BY <1>1, <1>5 DEF ClockInv, GoodClock, Elapsed
  <2>2. CASE TaskYield
    <3>1. slice' \in [Tasks \cup {Idle} -> Int] /\ UNCHANGED <<wait, locked>> /\ pendsv' = TRUE
      BY <2>2 DEF TaskYield, TickType
    <3> QED BY <1>1, <1>2, <1>5, <2>1, <3>1 DEF Keeps, TickType
  <2>3. CASE TaskLock \/ TaskUnlock
    <3>1. UNCHANGED <<slice, wait>> /\ locked' \in BOOLEAN /\ pendsv' \in BOOLEAN
      BY <2>3 DEF TaskLock, TaskUnlock, TickType
    <3> QED BY <1>1, <1>2, <1>5, <2>1, <3>1 DEF Keeps, TickType
  <2>4. CASE \E ticks \in Waits : TaskWait(ticks)
    <3>1. run # Idle /\ wait' \in Waits /\ pendsv' = TRUE /\ UNCHANGED <<slice, locked>>
      BY <2>4 DEF TaskWait
    <3> QED BY <1>1, <1>2, <1>5, <2>1, <3>1 DEF Keeps, TickType
  <2>5. CASE UNCHANGED vars
    <3>1. UNCHANGED <<slice, wait, locked, pendsv>>
      BY <2>5 DEF vars
    <3> QED BY <1>1, <1>2, <1>5, <2>1, <3>1 DEF Keeps, TickType
  <2>6. CASE IntLock \/ IntRestore
    BY <1>3, <1>4, <2>6
  <2> QED BY <2>2, <2>3, <2>4, <2>5, <2>6
<1>6. IntLock \/ IntRestore \/ mask' = mask
  BY DEF TaskYield, TaskLock, TaskUnlock, TaskWait, vars
<1> QED BY <1>3, <1>4, <1>5, <1>6

LEMMA NotPending ==
    ASSUME Brief, TickFirst
    PROVE  ~hw.pend
  BY DEF Brief, TickFirst

\* A call that leaves the tasks alone and ends the kernel step in k.
LEMMA CallKeeps ==
    ASSUME TickType, NEW k, Fine(k), Becomes(k),
           UNCHANGED <<now, run, start, slice, wait, pendsv, locked, mask>>,
           FarFromEnd /\ LinkInv => Linked(k.at, k.links),
           \A t \in Tasks : k.at[t] = at[t]
    PROVE  Keeps
<1>1. /\ clk' \in [base : Int, old : Int, update : BOOLEAN]
      /\ hw' \in [load : Int, at : Int, pend : BOOLEAN]
      /\ resp' \in [time : Int, id : Ids]
      /\ at' \in [Nodes -> Int] /\ LinksType(links') /\ ClockInv'
  BY BecomesFine
<1>2. TickType'
  BY <1>1 DEF TickType
<1>3. at' = k.at /\ links' = k.links /\ run' = run
  BY DEF Becomes
<1>4. run # Idle => run \in Tasks
  BY DEF TickType
<1>5. FarFromEnd /\ LinkInv => LinkInv'
  BY <1>3, <1>4 DEF LinkInv, Linked
<1> QED BY <1>1, <1>2, <1>5 DEF Keeps

\* OsSchedUpdateExpireTime after OsDeleteSortLink.
LEMMA StopFine ==
    ASSUME Brief, TickType, NEW k, Fine(k), NEW s \in Timers,
           NEW r, r = OsSchedUpdateExpireTime(OsDeleteSortLink(k, s))
    PROVE  /\ Fine(r) /\ r.at[s] = Never /\ \A t \in Tasks : r.at[t] = k.at[t]
           /\ Linked(k.at, k.links) => Linked(r.at, r.links)
<1>1. PICK q : q = OsDeleteSortLink(k, s)
  OBVIOUS
<1>2. s \in Nodes /\ KernelType(k) /\ \A t \in Tasks : t \in Nodes /\ t # s
  BY TickAssumption DEF Nodes, Fine
<1>3. /\ KernelType(q) /\ q.clk = k.clk /\ q.hw = k.hw /\ q.at[s] = Never
      /\ \A m \in Nodes : m # s => q.at[m] = k.at[m]
      /\ Linked(k.at, k.links) => Linked(q.at, q.links)
  BY <1>1, <1>2, DeleteIs
<1>4. Fine(q)
  BY <1>3 DEF Fine
<1>5. Fine(r) /\ r.at = q.at /\ r.links = q.links
  BY <1>1, <1>4, UpdateFine
<1> QED BY <1>2, <1>3, <1>5

LEMMA StopKeeps ==
    ASSUME Brief, TickType, ClockInv, NEW s \in Timers, LOS_SwtmrStop(s)
    PROVE  Keeps
<1>1. ~hw.pend
  BY NotPending DEF LOS_SwtmrStop, MayCall
<1>2. PICK k : k = Kernel /\ Fine(k) /\ k.at = at /\ k.links = links
  BY <1>1, KernelFine
<1>3. PICK r : r = OsSchedUpdateExpireTime(OsDeleteSortLink(k, s))
  OBVIOUS
<1>4. /\ Fine(r) /\ \A t \in Tasks : r.at[t] = k.at[t]
      /\ Linked(k.at, k.links) => Linked(r.at, r.links)
  BY <1>2, <1>3, StopFine
<1>5. Becomes(r) /\ UNCHANGED <<now, run, start, slice, wait, pendsv, locked, mask>>
  BY <1>2, <1>3 DEF LOS_SwtmrStop
<1>6. FarFromEnd /\ LinkInv => Linked(r.at, r.links)
  BY <1>2, <1>4 DEF LinkInv
<1>7. \A t \in Tasks : r.at[t] = at[t]
  BY <1>2, <1>4
<1> QED BY <1>4, <1>5, <1>6, <1>7, CallKeeps

LEMMA StartKeeps ==
    ASSUME Brief, TickType, ClockInv, NEW s \in Timers, LOS_SwtmrStart(s)
    PROVE  Keeps
<1>1. ~hw.pend
  BY NotPending DEF LOS_SwtmrStart, MayCall
<1>2. PICK k : k = Kernel /\ Fine(k) /\ k.at = at /\ k.links = links
  BY <1>1, KernelFine
<1>3. PICK stopped : stopped = IF at[s] = Never THEN k
                               ELSE OsSchedUpdateExpireTime(OsDeleteSortLink(k, s))
  OBVIOUS
<1>4. /\ Fine(stopped) /\ stopped.at[s] = Never /\ \A t \in Tasks : stopped.at[t] = at[t]
      /\ Linked(at, links) => Linked(stopped.at, stopped.links)
  <2>1. CASE at[s] = Never
    BY <1>2, <1>3, <2>1
  <2>2. CASE at[s] # Never
    <3>1. stopped = OsSchedUpdateExpireTime(OsDeleteSortLink(k, s))
      BY <1>3, <2>2
    <3>2. /\ Fine(stopped) /\ stopped.at[s] = Never /\ \A t \in Tasks : stopped.at[t] = k.at[t]
          /\ Linked(k.at, k.links) => Linked(stopped.at, stopped.links)
      BY <1>2, <3>1, StopFine
    <3> QED BY <1>2, <3>2
  <2> QED BY <2>1, <2>2
<1>5. PICK x \in LinkTypes : x = "SWTMR" /\ s \in KindOf(x)
  BY DEF LinkTypes, KindOf
<1>6. PICK from \in Int : from = now /\ from = stopped.clk.old
  BY <1>4 DEF Fine, TickType
<1>7. PICK w \in Nat \ {0} : w = Interval[s]
  BY TickAssumption
<1>8. PICK q : q = OsAdd2SortLink(stopped, s, from, w, x)
  OBVIOUS
<1>9. /\ KernelType(q) /\ SameClock(q, stopped)
      /\ \A m \in Nodes : m # s => q.at[m] = stopped.at[m]
      /\ Linked(stopped.at, stopped.links) /\ stopped.at[s] = Never /\ from + w * CyclesPerTick < Never
           => Linked(q.at, q.links)
  <2>1. KernelType(stopped)
    BY <1>4 DEF Fine
  <2>2. s \in KindOf(x)
    BY <1>5
  <2> QED BY <1>8, <2>1, <2>2, AddIs
<1>10. Fine(q)
  BY <1>4, <1>9 DEF Fine, SameClock
<1>11. PICK r : r = OsSchedUpdateExpireTime(q)
  OBVIOUS
<1>12. Fine(r) /\ r.at = q.at /\ r.links = q.links
  BY <1>10, <1>11, UpdateFine
<1>13. Becomes(r) /\ UNCHANGED <<now, run, start, slice, wait, pendsv, locked, mask>>
  BY <1>2, <1>3, <1>5, <1>6, <1>7, <1>8, <1>11 DEF LOS_SwtmrStart
<1>14. ASSUME FarFromEnd, LinkInv PROVE Linked(r.at, r.links)
  <2>1. from + w * CyclesPerTick < Never
    BY <1>6, <1>7, <1>14 DEF FarFromEnd
  <2>2. Linked(at, links)
    BY <1>14 DEF LinkInv
  <2> QED BY <1>4, <1>9, <1>12, <2>1, <2>2
<1>15. \A t \in Tasks : r.at[t] = at[t]
  <2>1. \A t \in Tasks : t \in Nodes /\ t # s
    BY TickAssumption DEF Nodes
  <2> QED BY <1>4, <1>9, <1>12, <2>1
<1> QED BY <1>12, <1>13, <1>14, <1>15, CallKeeps

LEMMA RefilledIs ==
    ASSUME NEW left \in [Tasks \cup {Idle} -> Int], NEW W
    PROVE  Refilled(left, W) \in [Tasks \cup {Idle} -> Int]
  BY Consts DEF Refilled

\* The clock is not read, and time goes on from where it was.
LEMMA WakeKeeps ==
    ASSUME Brief, TickType, ClockInv, NEW t \in Tasks, TaskWake(t)
    PROVE  Keeps
<1>1. ~hw.pend
  BY NotPending DEF TaskWake
<1>2. PICK k : k = Kernel /\ Fine(k) /\ k.at = at /\ k.links = links
  BY <1>1, KernelFine
<1>3. PICK q : q = OsDeleteSortLink(k, t)
  OBVIOUS
<1>4. k.hw = hw
  BY <1>2 DEF Kernel
<1>5. /\ KernelType(q) /\ q.clk = k.clk /\ q.hw = k.hw /\ q.at[t] = Never
      /\ \A m \in Nodes : m # t => q.at[m] = k.at[m]
      /\ Linked(k.at, k.links) => Linked(q.at, q.links)
  <2>1. KernelType(k) /\ t \in Nodes
    BY <1>2 DEF Fine, Nodes
  <2> QED BY <1>3, <2>1, DeleteIs
<1>6. PICK r : r = [q EXCEPT !.clk = clk]
  OBVIOUS
<1>7. r = [clk |-> clk, hw |-> q.hw, resp |-> q.resp, at |-> q.at, links |-> q.links]
  BY <1>5, <1>6 DEF KernelType
<1>8. r.clk = clk /\ r.hw = q.hw /\ r.resp = q.resp /\ r.at = q.at /\ r.links = q.links
  BY <1>7
<1>9. Becomes(r) /\ slice' = Refilled(slice, {t}) /\ pendsv' = (pendsv \/ ~locked)
      /\ UNCHANGED <<now, run, start, wait, locked, mask>>
  BY <1>2, <1>3, <1>6 DEF TaskWake
<1>10. clk' = clk /\ hw' = hw /\ resp' = q.resp /\ at' = q.at /\ links' = q.links
  BY <1>4, <1>5, <1>8, <1>9 DEF Becomes
<1>11. ClockInv'
  BY <1>9, <1>10 DEF ClockInv, GoodClock, Elapsed
<1>12. slice' \in [Tasks \cup {Idle} -> Int]
  BY <1>9, RefilledIs DEF TickType
<1>13. pendsv' \in BOOLEAN
  BY <1>9, Zenon DEF TickType
<1>14. TickType'
  BY <1>5, <1>9, <1>10, <1>12, <1>13 DEF TickType, KernelType
<1>15. ASSUME LinkInv PROVE LinkInv'
  <2>1. Linked(q.at, q.links)
    BY <1>2, <1>5, <1>15 DEF LinkInv
  <2>2. run # Idle => q.at[run] = Never
    BY <1>2, <1>5, <1>15 DEF LinkInv, TickType, Nodes
  <2> QED BY <1>9, <1>10, <2>1, <2>2 DEF LinkInv, Linked
<1> QED BY <1>11, <1>14, <1>15 DEF Keeps

LEMMA SliceUpdateIs ==
    ASSUME TickType, NEW curr \in Int
    PROVE  OsTimeSliceUpdate(curr) \in [Tasks \cup {Idle} -> Int]
<1>1. CASE run = Idle
  BY <1>1 DEF OsTimeSliceUpdate, TickType
<1>2. CASE run # Idle
  <2>1. slice[run] - (curr - start) \in Int
    BY DEF TickType
  <2> QED BY <1>2, <2>1 DEF OsTimeSliceUpdate, TickType
<1> QED BY <1>1, <1>2

LEMMA SwitchKeeps ==
    ASSUME Brief, TickType, ClockInv, OsSchedTaskSwitch
    PROVE  Keeps
<1>1. ~hw.pend
  BY DEF OsSchedTaskSwitch
<1>2. PICK k : k = Kernel /\ Fine(k) /\ k.at = at /\ k.links = links
  BY <1>1, KernelFine
<1>3. PICK curr \in Int : curr = k.clk.old /\ curr = now
  BY <1>2 DEF Fine, TickType
<1>4. PICK full \in [Tasks \cup {Idle} -> Int] :
        full = Refilled(OsTimeSliceUpdate(curr), IF wait = 0 THEN {run} \ {Idle} ELSE {})
  <2>1. PICK left \in [Tasks \cup {Idle} -> Int] : left = OsTimeSliceUpdate(curr)
    BY SliceUpdateIs
  <2>2. Refilled(left, IF wait = 0 THEN {run} \ {Idle} ELSE {}) \in [Tasks \cup {Idle} -> Int]
    BY RefilledIs
  <2> QED BY <2>1, <2>2
<1>5. PICK k1 : k1 = IF wait > 0 THEN OsAdd2SortLink(k, run, curr, wait, "TASK") ELSE k
  OBVIOUS
<1>6. /\ Fine(k1)
      /\ wait = 0 => k1 = k
      /\ \A m \in Tasks : m # run => k1.at[m] = at[m]
      /\ FarFromEnd /\ LinkInv => Linked(k1.at, k1.links)
  <2>1. CASE wait = 0
    BY <1>2, <1>5, <2>1 DEF LinkInv
  <2>2. CASE wait # 0
    <3>1. PICK w \in Nat \ {0} : w = wait /\ w \in Waits
      BY <2>2, TickAssumption DEF TickType
    <3>2. PICK t \in Tasks : t = run /\ run # Idle
      BY <2>2 DEF TickType
    <3>3. PICK x \in LinkTypes : x = "TASK" /\ t \in KindOf(x)
      BY DEF LinkTypes, KindOf
    <3>4. k1 = OsAdd2SortLink(k, t, curr, w, x)
      BY <1>5, <3>1, <3>2, <3>3
    <3>5. KernelType(k) /\ t \in KindOf(x)
      BY <1>2, <3>3 DEF Fine
    <3>6. /\ KernelType(k1) /\ SameClock(k1, k)
          /\ \A m \in Nodes : m # t => k1.at[m] = k.at[m]
          /\ Linked(k.at, k.links) /\ k.at[t] = Never /\ curr + w * CyclesPerTick < Never
               => Linked(k1.at, k1.links)
      BY <3>4, <3>5, AddIs
    <3>7. Fine(k1)
      BY <1>2, <3>6 DEF Fine, SameClock
    <3>8. ASSUME FarFromEnd, LinkInv PROVE Linked(k1.at, k1.links)
      <4>1. curr + w * CyclesPerTick < Never
        BY <1>3, <3>1, <3>8 DEF FarFromEnd
      <4>2. Linked(k.at, k.links) /\ k.at[t] = Never
        BY <1>2, <3>2, <3>8 DEF LinkInv
      <4> QED BY <3>6, <4>1, <4>2
    <3>9. \A m \in Tasks : m # run => k1.at[m] = at[m]
      BY <1>2, <3>2, <3>6 DEF Nodes
    <3> QED BY <2>2, <3>7, <3>8, <3>9
  <2> QED BY <2>1, <2>2
<1>7. PICK k2 : k2 = [k1 EXCEPT !.resp.time = IF resp.id = run THEN Never ELSE @]
  OBVIOUS
<1>8. Fine(k2) /\ k2.at = k1.at /\ k2.links = k1.links
  <2>1. KernelType(k1) /\ k1.resp.time \in Int
    BY <1>6 DEF Fine, KernelType
  <2>2. PICK v \in Int : v = IF resp.id = run THEN Never ELSE k1.resp.time
    BY <2>1, Consts
  <2>3. k2 = [k1 EXCEPT !.resp.time = v]
    BY <1>7, <2>2
  <2>4. KernelType(k2) /\ k2.clk = k1.clk /\ k2.hw = k1.hw /\ k2.at = k1.at /\ k2.links = k1.links
    BY <2>1, <2>3, ResponseIs
  <2> QED BY <1>6, <2>4 DEF Fine
<1> DEFINE ready == Ready \cup (IF wait = 0 THEN {run} \ {Idle} ELSE {})
<1>9. PICK new \in IF ready = {} THEN {Idle} ELSE ready :
        /\ run' = new /\ start' = curr /\ slice' = full
        /\ Becomes(OsSchedSetNextExpireTime(k2, new,
                      IF new = Idle THEN Never - Precision ELSE curr + full[new]))
  BY <1>2, <1>3, <1>4, <1>5, <1>7 DEF OsSchedTaskSwitch
<1>10. new \in ready \/ new = Idle
  BY <1>9
<1>11. ready \subseteq Tasks
  BY DEF Ready, TickType
<1>12. PICK id \in Ids : id = new
  BY <1>10, <1>11 DEF Ids
<1>13. PICK end \in Int : end = IF new = Idle THEN Never - Precision ELSE curr + full[new]
  <2>1. Never - Precision \in Int
    BY Consts
  <2>2. new # Idle => full[new] \in Int
    BY <1>10, <1>11
  <2> QED BY <2>1, <2>2
<1>14. PICK r : r = OsSchedSetNextExpireTime(k2, id, end)
  OBVIOUS
<1>15. Fine(r) /\ r.at = k2.at /\ r.links = k2.links
  BY <1>8, <1>14, ArmFine
<1>16. Becomes(r) /\ now' = now /\ wait' = 0 /\ pendsv' = FALSE /\ UNCHANGED <<locked, mask>>
  BY <1>9, <1>12, <1>13, <1>14 DEF OsSchedTaskSwitch
<1>17. /\ clk' \in [base : Int, old : Int, update : BOOLEAN]
       /\ hw' \in [load : Int, at : Int, pend : BOOLEAN]
       /\ resp' \in [time : Int, id : Ids]
       /\ at' \in [Nodes -> Int] /\ LinksType(links') /\ ClockInv'
  BY <1>15, <1>16, BecomesFine
<1>18. TickType'
  BY <1>9, <1>10, <1>11, <1>16, <1>17 DEF TickType
<1>19. at' = k1.at /\ links' = k1.links /\ run' = new
  BY <1>8, <1>9, <1>15, <1>16 DEF Becomes
<1>20. ASSUME FarFromEnd, LinkInv PROVE LinkInv'
  <2>1. Linked(k1.at, k1.links)
    BY <1>6, <1>20
  <2>2. ASSUME new # Idle PROVE k1.at[new] = Never
    <3>1. CASE new \in Ready
      <4>1. new \in Tasks /\ at[new] = Never /\ new # run
        BY <3>1 DEF Ready
      <4> QED BY <1>6, <4>1
    <3>2. CASE new \notin Ready
      <4>1. new = run /\ wait = 0
        BY <1>10, <2>2, <3>2
      <4>2. at[run] = Never
        BY <1>20, <2>2, <4>1 DEF LinkInv
      <4> QED BY <1>2, <1>6, <4>1, <4>2
    <3> QED BY <3>1, <3>2
  <2> QED BY <1>19, <2>1, <2>2 DEF LinkInv, Linked
<1> QED BY <1>17, <1>18, <1>20 DEF Keeps

\* The kernel in the tick: the period that has ended has been added to the clock.
LEMMA TickKernel ==
    ASSUME Brief, TickType, ClockInv, hw.pend, mask = 0,
           NEW c, c = LOS_SysCycleGet(OsUpdateSysTimeBase(clk)),
           NEW k0, k0 = [Kernel EXCEPT !.clk = c, !.hw.pend = FALSE]
    PROVE  /\ Fine(k0) /\ k0.at = at /\ k0.links = links /\ k0.resp = resp /\ c.old = now
           /\ now <= hw.at + MaskMax
<1>0. /\ now \in Int /\ hw \in [load : Int, at : Int, pend : BOOLEAN] /\ MaskMax \in Nat
      /\ clk \in [base : Int, old : Int, update : BOOLEAN] /\ hw.pend /\ mask = 0
  BY Consts DEF TickType
<1>1. /\ ~clk.update /\ clk.old <= now /\ clk.base + Elapsed + hw.load = now
      /\ hw.load >= 1 /\ hw.load >= MaskMax /\ hw.at <= now
      /\ now - hw.at = 0 \/ now - hw.at <= MaskMax - 1
  BY <1>0 DEF ClockInv, GoodClock, Elapsed
<1>2. now < hw.at + hw.load
  BY <1>0, <1>1
<1>3. PICK u : u = OsUpdateSysTimeBase(clk)
  OBVIOUS
<1>4. u = [base |-> clk.base + hw.load, old |-> clk.old, update |-> FALSE]
  <2>1. u = [clk EXCEPT !.base = clk.base + hw.load, !.update = FALSE]
    BY <1>1, <1>3 DEF OsUpdateSysTimeBase
  <2> QED BY <1>0, <2>1
<1>5. /\ u \in [base : Int, old : Int, update : BOOLEAN] /\ ~u.update
      /\ u.base + Elapsed = now /\ u.old <= now
  <2>1. clk.base \in Int /\ hw.load \in Int /\ clk.old \in Int /\ hw.at \in Int
    BY <1>0
  <2>2. u.base = clk.base + hw.load /\ u.old = clk.old /\ u.update = FALSE
    BY <1>4
  <2>3. u \in [base : Int, old : Int, update : BOOLEAN]
    BY <1>4, <2>1
  <2>4. clk.base + hw.load + Elapsed = now
    BY <1>0, <1>1, <2>1 DEF Elapsed
  <2> QED BY <1>1, <2>2, <2>3, <2>4
<1>6. c = LOS_SysCycleGet(u)
  BY <1>3
<1>7. /\ c \in [base : Int, old : Int, update : BOOLEAN]
      /\ c.base = u.base /\ c.old = now /\ c.update = u.update
  BY <1>0, <1>5, <1>6, ReadIs
<1>8. PICK h : h = [hw EXCEPT !.pend = FALSE]
  OBVIOUS
<1>9. /\ h \in [load : Int, at : Int, pend : BOOLEAN]
      /\ h.load = hw.load /\ h.at = hw.at /\ h.pend = FALSE
  BY <1>0, <1>8
<1>11. k0 = [clk |-> c, hw |-> h, resp |-> resp, at |-> at, links |-> links]
  BY <1>8 DEF Kernel
<1>12. k0.clk = c /\ k0.hw = h /\ k0.resp = resp /\ k0.at = at /\ k0.links = links
  BY ONLY <1>11
<1>13. KernelType(k0)
  BY <1>7, <1>9, <1>11, <1>12 DEF KernelType, TickType
<1>14. Fine(k0)
  <2>1. GoodClock(c, h)
    <3>1. ~c.update /\ c.old <= now /\ c.base + (now - h.at) + 0 = now
      BY <1>0, <1>5, <1>7, <1>9 DEF Elapsed
    <3> QED BY <1>1, <1>2, <1>9, <3>1 DEF GoodClock
  <2> QED BY <1>7, <1>9, <1>12, <1>13, <2>1 DEF Fine
<1>15. now <= hw.at + MaskMax
  BY <1>0, <1>1
<1> QED BY <1>7, <1>12, <1>14, <1>15

LEMMA TickKeeps ==
    ASSUME Brief, TickType, ClockInv, OsTickHandler
    PROVE  Keeps
<1>0. now \in Int /\ hw.pend /\ mask = 0 /\ MaskMax \in Nat
  BY Consts DEF TickType, OsTickHandler
<1>1. PICK c : c = LOS_SysCycleGet(OsUpdateSysTimeBase(clk))
  OBVIOUS
<1>10. PICK k0 : k0 = [Kernel EXCEPT !.clk = c, !.hw.pend = FALSE]
  OBVIOUS
<1>12. Fine(k0) /\ k0.at = at /\ k0.links = links /\ c.old = now
  BY <1>0, <1>1, <1>10, TickKernel
<1>13. KernelType(k0) /\ k0.clk.old = now
  BY <1>12 DEF Fine
<1>15. PICK k1 : k1 = IF Scans THEN Scanned(k0) ELSE k0
  OBVIOUS
<1>16. /\ Fine(k1)
       /\ \A t \in Tasks : k1.at[t] \in {Never, at[t]}
       /\ FarFromEnd /\ Linked(at, links) => Linked(k1.at, k1.links)
  <2>1. CASE Scans
    <3>1. k1 = Scanned(k0) /\ k0.at = at
      BY <1>12, <1>15, <2>1
    <3>2. /\ KernelType(k1) /\ SameClock(k1, k0)
          /\ \A t \in Tasks : k1.at[t] \in {Never, k0.at[t]}
          /\ Linked(k0.at, k0.links) /\ FarFromEnd /\ k0.clk.old = now => Linked(k1.at, k1.links)
      BY <1>13, <3>1, ScannedIs
    <3>3. Fine(k1)
      BY <1>12, <3>2 DEF Fine, SameClock
    <3> QED BY <1>12, <1>13, <3>2, <3>3
  <2>2. CASE ~Scans
    BY <1>12, <1>15, <2>2
  <2> QED BY <2>1, <2>2
<1>17. PICK k2 : k2 = [k1 EXCEPT !.resp.time = Never]
  OBVIOUS
<1>18. Fine(k2) /\ k2.at = k1.at /\ k2.links = k1.links
  <2>1. KernelType(k1)
    BY <1>16 DEF Fine
  <2>2. PICK v \in Int : v = Never
    BY Consts
  <2>3. k2 = [k1 EXCEPT !.resp.time = v]
    BY <1>17, <2>2
  <2>4. KernelType(k2) /\ k2.clk = k1.clk /\ k2.hw = k1.hw /\ k2.at = k1.at /\ k2.links = k1.links
    BY <2>1, <2>3, ResponseIs
  <2> QED BY <1>16, <2>4 DEF Fine
<1>19. PICK left \in [Tasks \cup {Idle} -> Int] : left = OsTimeSliceUpdate(now)
  BY <1>0, SliceUpdateIs
<1>20. PICK end \in Int : end = IF run = Idle THEN Never - Precision
                                ELSE now + (IF left[run] <= SliceMin THEN Slice ELSE left[run])
  <2>1. Never - Precision \in Int /\ Slice \in Int
    BY Consts
  <2>2. PICK q \in Int : q = IF left[run] <= SliceMin THEN Slice ELSE left[run]
    BY <2>1 DEF TickType
  <2>3. now + q \in Int
    BY <1>0
  <2> QED BY <2>1, <2>2, <2>3
<1>21. PICK W : W = {t \in Tasks : at[t] # Never /\ k2.at[t] = Never}
  OBVIOUS
<1>22. /\ slice' = Refilled(left, W) /\ start' = now
       /\ IF locked THEN Becomes(OsSchedSetNextExpireTime(k2, run, end)) /\ UNCHANGED pendsv
                    ELSE Becomes(k2) /\ pendsv' = TRUE
       /\ UNCHANGED <<now, run, wait, locked, mask>>
  BY <1>1, <1>10, <1>12, <1>15, <1>17, <1>19, <1>20, <1>21 DEF OsTickHandler
<1>23. PICK r : Becomes(r) /\ Fine(r) /\ r.at = k1.at /\ r.links = k1.links
  <2>1. CASE locked
    <3>1. PICK id \in Ids : id = run
      BY DEF TickType, Ids
    <3>2. PICK r : r = OsSchedSetNextExpireTime(k2, id, end)
      OBVIOUS
    <3>3. Fine(r) /\ r.at = k2.at /\ r.links = k2.links
      BY <1>18, <3>2, ArmFine
    <3>4. Becomes(r)
      BY <1>22, <2>1, <3>1, <3>2
    <3> QED BY <1>18, <3>3, <3>4
  <2>2. CASE ~locked
    BY <1>18, <1>22, <2>2
  <2> QED BY <2>1, <2>2
<1>24. /\ clk' \in [base : Int, old : Int, update : BOOLEAN]
       /\ hw' \in [load : Int, at : Int, pend : BOOLEAN]
       /\ resp' \in [time : Int, id : Ids]
       /\ at' \in [Nodes -> Int] /\ LinksType(links') /\ ClockInv'
  BY <1>22, <1>23, BecomesFine
<1>25. slice' \in [Tasks \cup {Idle} -> Int]
  BY <1>22, RefilledIs
<1>26. pendsv' \in BOOLEAN
  BY <1>22 DEF TickType
<1>27. TickType'
  BY <1>0, <1>22, <1>24, <1>25, <1>26 DEF TickType
<1>28. at' = k1.at /\ links' = k1.links
  BY <1>23 DEF Becomes
<1>29. ASSUME FarFromEnd, LinkInv PROVE LinkInv'
  <2>1. Linked(at', links')
    BY <1>16, <1>28, <1>29 DEF LinkInv
  <2>2. run # Idle => at'[run] = Never
    <3>1. run # Idle => run \in Tasks /\ at[run] = Never
      BY <1>29 DEF LinkInv, TickType
    <3> QED BY <1>16, <1>28, <3>1
  <2> QED BY <1>22, <2>1, <2>2 DEF LinkInv, Linked
<1> QED BY <1>24, <1>27, <1>29 DEF Keeps

-----------------------------------------------------------------------------
(***************************************************************************)
(* The theorems.                                                           *)
(***************************************************************************)
LEMMA InitGood ==
    ASSUME Brief, TickInit
    PROVE  TickType /\ ClockInv /\ LinkInv
<1>0. /\ Slice \in Nat /\ Slice > 0 /\ PeriodMax \in Nat /\ PeriodMax > Precision /\ Precision \in Nat
      /\ MaskMax \in Nat /\ MaskMax <= Precision /\ MaskMax <= Slice /\ Never \in Nat
  BY Consts DEF Brief
<1>1. PICK a \in Int : a = Slice
  BY <1>0
<1>2. PICK b \in Int : b = PeriodMax
  BY <1>0
<1>3. Min({a, b}) \in {a, b}
  BY TwoNumbers
<1>4. PICK load \in Int : load = Min({Slice, PeriodMax}) /\ load >= 1 /\ load >= MaskMax
  <2>1. Min({a, b}) \in Int /\ Min({a, b}) >= 1 /\ Min({a, b}) >= MaskMax
    BY <1>0, <1>1, <1>2, <1>3
  <2> QED BY <1>1, <1>2, <2>1
<1>5. hw = [load |-> load, at |-> 0, pend |-> FALSE] /\ now = 0
  BY <1>4 DEF TickInit, SysTickReload
<1>6. /\ hw \in [load : Int, at : Int, pend : BOOLEAN]
      /\ hw.load = load /\ hw.at = 0 /\ hw.pend = FALSE
  BY <1>5
<1>7. /\ clk \in [base : Int, old : Int, update : BOOLEAN]
      /\ clk.base = 0 /\ clk.old = 0 /\ clk.update = FALSE
  BY DEF TickInit
<1>8. run \in Tasks /\ run # Idle /\ resp \in [time : Int, id : Ids]
  BY <1>6, TickAssumption DEF TickInit, Ids
<1>9. at \in [Nodes -> Int] /\ \A n \in Nodes : at[n] = Never
  BY <1>0 DEF TickInit
<1>10. links = [x \in LinkTypes |-> <<>>]
  BY DEF TickInit
<1>11. LinksType(links)
  BY <1>10 DEF LinksType
<1>12. TickType
  <2>1. slice \in [Tasks \cup {Idle} -> Int] /\ start \in Int /\ wait = 0
    BY <1>0 DEF TickInit
  <2>2. pendsv \in BOOLEAN /\ locked \in BOOLEAN
    BY DEF TickInit
  <2>3. mask \in 0..(MaskMax + 1) /\ now \in Int
    BY <1>0 DEF TickInit
  <2> QED BY <1>6, <1>7, <1>8, <1>9, <1>11, <2>1, <2>2, <2>3 DEF TickType
<1>13. ClockInv
  BY <1>4, <1>5, <1>6, <1>7 DEF ClockInv, GoodClock
<1>14. LinkInv
  <2>1. ASSUME NEW x \in LinkTypes
        PROVE  /\ Range(links[x]) = {n \in KindOf(x) : at[n] # Never}
               /\ NoDup(links[x]) /\ Ordered(links[x], at)
    <3>1. links[x] = <<>> /\ \A n \in KindOf(x) : at[n] = Never
      BY <1>9, <1>10, KindsApart
    <3>2. DOMAIN links[x] = {}
      BY <3>1
    <3> QED BY <3>1, <3>2 DEF Range, NoDup, Ordered
  <2> QED BY <1>8, <1>9, <2>1 DEF LinkInv, Linked, Nodes
<1> QED BY <1>12, <1>13, <1>14

LEMMA StepKeeps ==
    ASSUME Brief, TickType, ClockInv, [TickNext]_vars
    PROVE  Keeps
<1>1. CASE TimePasses
  BY <1>1, TimePassesKeeps
<1>2. CASE OsTickHandler
  BY <1>2, TickKeeps
<1>3. CASE OsSchedTaskSwitch
  BY <1>3, SwitchKeeps
<1>4. CASE \E s \in Timers : LOS_SwtmrStart(s) \/ LOS_SwtmrStop(s)
  BY <1>4, StartKeeps, StopKeeps
<1>5. CASE \E t \in Tasks : TaskWake(t)
  BY <1>5, WakeKeeps
<1>6. CASE \/ IntLock \/ IntRestore \/ TaskYield \/ TaskLock \/ TaskUnlock
           \/ \E ticks \in Waits : TaskWait(ticks)
           \/ UNCHANGED vars
  BY <1>6, QuietKeeps
<1> QED BY <1>1, <1>2, <1>3, <1>4, <1>5, <1>6 DEF TickNext

\* The clock, read off a timer that is reloaded at every turn, is the time: no period is lost or
\* counted twice by LOS_SysCycleGet and OsUpdateSysTimeBase, if interrupts are locked for less
\* than the shortest period and the kernel is not called while the tick is pending.
THEOREM ClockIsTrue == Brief => (TickSpec => []ClockTrue)
<1> SUFFICES ASSUME Brief PROVE TickSpec => []ClockTrue
  OBVIOUS
<1>1. TickInit => TickType /\ ClockInv
  BY InitGood
<1>2. TickType /\ ClockInv /\ [TickNext]_vars => (TickType /\ ClockInv)'
  BY StepKeeps DEF Keeps
<1>3. TickType /\ ClockInv => ClockTrue
  BY DEF TickType, ClockInv, GoodClock, ClockTrue, Elapsed
<1> QED BY <1>1, <1>2, <1>3, PTL DEF TickSpec

\* The sort links hold what waits for time, each node once and in the order of the response
\* times, as OsAdd2SortLink, OsDeleteSortLink and the two scans leave them, as long as time is
\* far from OS_SORT_LINK_INVALID_TIME.
THEOREM LinksStayOrdered == Brief => (TickSpec /\ []FarFromEnd => []LinksOrdered)
<1> SUFFICES ASSUME Brief PROVE TickSpec /\ []FarFromEnd => []LinksOrdered
  OBVIOUS
<1>1. TickInit => TickType /\ ClockInv /\ LinkInv
  BY InitGood
<1>2. TickType /\ ClockInv /\ LinkInv /\ FarFromEnd /\ [TickNext]_vars
        => (TickType /\ ClockInv /\ LinkInv)'
  BY StepKeeps DEF Keeps
<1>3. ASSUME TickType, LinkInv PROVE LinksOrdered
  <2>1. DOMAIN links = LinkTypes
    BY <1>3 DEF TickType, LinksType
  <2>2. /\ Range(links["TASK"]) = {t \in Tasks : at[t] # Never}
        /\ Range(links["SWTMR"]) = {s \in Timers : at[s] # Never}
    BY <1>3 DEF LinkInv, Linked, LinkTypes, KindOf
  <2>3. ASSUME NEW x \in LinkTypes
        PROVE  /\ NoDup(links[x])
               /\ \A i \in 1..(Len(links[x]) - 1) : at[links[x][i]] <= at[links[x][i + 1]]
    <3>1. NoDup(links[x]) /\ Ordered(links[x], at) /\ links[x] \in Seq(KindOf(x))
      BY <1>3 DEF LinkInv, Linked, TickType, LinksType
    <3>2. Len(links[x]) \in Nat /\ DOMAIN links[x] = 1..Len(links[x])
      BY <3>1, LenProperties
    <3>3. \A i \in 1..(Len(links[x]) - 1) : i \in DOMAIN links[x] /\ i + 1 \in DOMAIN links[x] /\ i < i + 1
      BY <3>2
    <3> QED BY <3>1, <3>3 DEF Ordered
  <2> QED BY <2>1, <2>2, <2>3 DEF LinksOrdered
<1>4. TickType /\ LinkInv => LinksOrdered
  BY <1>3
<1> QED BY <1>1, <1>2, <1>4, PTL DEF TickSpec

-----------------------------------------------------------------------------
(***************************************************************************)
(* What the tick is armed for.                                             *)
(***************************************************************************)
\* FarFromEnd, with room for a slice and the tolerances.
FarAhead ==
    /\ now + Slice + MinPeriod + Precision < Never
    /\ \A w \in Waits : now + w * CyclesPerTick + Precision < Never
    /\ \A s \in Timers : now + Interval[s] * CyclesPerTick + Precision < Never

LEMMA FarAheadIs ==
    ASSUME now \in Int, FarAhead
    PROVE  FarFromEnd
<1>1. Precision \in Nat /\ Never \in Nat
  BY Consts
<1>2. ASSUME NEW w \in Waits PROVE now + w * CyclesPerTick < Never
  <2>1. PICK c \in Nat : c = w * CyclesPerTick /\ now + c + Precision < Never
    BY Ticks, TickAssumption DEF FarAhead
  <2> QED BY <1>1, <2>1
<1>3. ASSUME NEW s \in Timers PROVE now + Interval[s] * CyclesPerTick < Never
  <2>1. PICK c \in Nat : c = Interval[s] * CyclesPerTick /\ now + c + Precision < Never
    BY Ticks, TickAssumption DEF FarAhead
  <2> QED BY <1>1, <2>1
<1> QED BY <1>2, <1>3 DEF FarFromEnd

LEMMA Tolerance == Precision < MinPeriod /\ MinPeriod <= CyclesPerTick /\ CyclesPerTick \in Nat
<1>1. PICK m \in Nat : m = MinPeriod
  BY TickAssumption
<1>2. (m * 75) \div 100 > 0 => (m * 75) \div 100 < m
  OBVIOUS
<1> QED BY <1>1, <1>2, TickAssumption

\* Times are as far from the largest.
Near(f) == \A n \in Nodes : f[n] # Never => f[n] + Precision < Never

\* When the period of the tick timer h ends.
Ends(h) == h.at + h.load

\* The tick is armed for no time before that.
Soonest(t) == IF t <= now + Precision THEN now + Precision ELSE t

LEMMA ExpireTimeBounds ==
    ASSUME now \in Int, FarAhead, NEW f \in [Nodes -> Int], NEW ls, LinksType(ls), Linked(f, ls), Near(f),
           NEW x \in LinkTypes, NEW e, e = GetSortLinkNextExpireTime(ls[x], f, now, Precision)
    PROVE  /\ e \in Int /\ e >= now + Precision /\ e <= Never - Precision
           /\ \A n \in KindOf(x) : f[n] # Never => e <= Soonest(f[n])
<1>0. /\ Precision \in Nat /\ Never \in Nat /\ now + Precision <= Never - Precision
      /\ now + Precision \in Int /\ Never - Precision \in Int
  <2>1. Precision \in Nat /\ Never \in Nat /\ Slice \in Nat /\ MinPeriod \in Nat /\ Precision < MinPeriod
    BY Consts, Tolerance
  <2>2. now + Slice + MinPeriod + Precision < Never
    BY DEF FarAhead
  <2> QED BY <2>1, <2>2
<1>1. PICK s : s = ls[x] /\ s \in Seq(KindOf(x)) /\ Ordered(s, f) /\ Range(s) = {n \in KindOf(x) : f[n] # Never}
  BY DEF LinksType, Linked
<1>2. DOMAIN s = 1..Len(s) /\ Len(s) \in Nat
  BY <1>1, LenProperties
<1>3. CASE s = <<>>
  <2>1. Range(s) = {}
    BY <1>3 DEF Range
  <2>2. e = Never - Precision
    BY <1>1, <1>3 DEF GetSortLinkNextExpireTime
  <2> QED BY <1>0, <1>1, <2>1, <2>2
<1>4. CASE s # <<>>
  <2>1. 1 \in DOMAIN s /\ Head(s) = s[1]
    BY <1>1, <1>2, <1>4
  <2>2. PICK a \in Int : a = f[s[1]] /\ a + Precision < Never
    <3>1. s[1] \in Range(s) /\ s[1] \in Nodes
      BY <1>1, <2>1, KindsApart DEF Range
    <3> QED BY <1>1, <3>1 DEF Near
  <2>3. e = Soonest(a)
    BY <1>1, <1>4, <2>1, <2>2 DEF GetSortLinkNextExpireTime, Soonest
  <2>4. ASSUME NEW n \in KindOf(x), f[n] # Never PROVE e <= Soonest(f[n])
    <3>1. PICK i \in DOMAIN s : s[i] = n
      BY <1>1, <2>4 DEF Range
    <3>2. PICK b \in Int : b = f[n]
      BY KindsApart
    <3>3. a <= b
      <4>1. i = 1 \/ 1 < i
        BY <1>2
      <4> QED BY <1>1, <2>1, <2>2, <3>1, <3>2, <4>1 DEF Ordered
    <3> QED BY <1>0, <2>3, <3>2, <3>3 DEF Soonest
  <2>5. e \in Int /\ e >= now + Precision /\ e <= Never - Precision
    BY <1>0, <2>2, <2>3 DEF Soonest
  <2> QED BY <2>4, <2>5
<1> QED BY <1>3, <1>4

LEMMA TimeoutBounds ==
    ASSUME now \in Int, FarAhead, NEW f \in [Nodes -> Int], NEW ls, LinksType(ls), Linked(f, ls), Near(f),
           NEW timeout,
           timeout = Min({GetSortLinkNextExpireTime(ls[x], f, now, Precision) : x \in DOMAIN ls})
    PROVE  /\ timeout \in Int /\ timeout >= now + Precision /\ timeout <= Never - Precision
           /\ \A n \in Nodes : f[n] # Never => timeout <= Soonest(f[n])
<1> DEFINE e(x) == GetSortLinkNextExpireTime(ls[x], f, now, Precision)
<1>1. ASSUME NEW x \in LinkTypes
      PROVE  /\ e(x) \in Int /\ e(x) >= now + Precision /\ e(x) <= Never - Precision
             /\ \A n \in KindOf(x) : f[n] # Never => e(x) <= Soonest(f[n])
  <2>1. PICK y : y = e(x)
    OBVIOUS
  <2>2. /\ y \in Int /\ y >= now + Precision /\ y <= Never - Precision
        /\ \A n \in KindOf(x) : f[n] # Never => y <= Soonest(f[n])
    <3>1. y = GetSortLinkNextExpireTime(ls[x], f, now, Precision)
      BY <2>1
    <3> HIDE DEF e
    <3> QED BY <3>1, ExpireTimeBounds
  <2> QED BY <2>1, <2>2
<1>2. PICK a \in Int : /\ a = e("TASK") /\ a >= now + Precision /\ a <= Never - Precision
                       /\ \A n \in Tasks : f[n] # Never => a <= Soonest(f[n])
  <2>1. "TASK" \in LinkTypes /\ KindOf("TASK") = Tasks
    BY DEF LinkTypes, KindOf
  <2> HIDE DEF e
  <2> QED BY <1>1, <2>1
<1>3. PICK b \in Int : /\ b = e("SWTMR") /\ b >= now + Precision /\ b <= Never - Precision
                       /\ \A n \in Timers : f[n] # Never => b <= Soonest(f[n])
  <2>1. "SWTMR" \in LinkTypes /\ KindOf("SWTMR") = Timers
    BY DEF LinkTypes, KindOf
  <2> HIDE DEF e
  <2> QED BY <1>1, <2>1
<1>4. {GetSortLinkNextExpireTime(ls[x], f, now, Precision) : x \in DOMAIN ls} = {a, b}
  <2>1. DOMAIN ls = {"TASK", "SWTMR"}
    BY DEF LinksType, LinkTypes
  <2>2. a = GetSortLinkNextExpireTime(ls["TASK"], f, now, Precision)
        /\ b = GetSortLinkNextExpireTime(ls["SWTMR"], f, now, Precision)
    BY <1>2, <1>3
  <2> HIDE DEF e
  <2> QED BY <2>1, <2>2
<1>5. timeout \in {a, b} /\ timeout <= a /\ timeout <= b
  <2> HIDE DEF e
  <2> QED BY <1>4, TwoNumbers
<1>6. ASSUME NEW n \in Nodes, f[n] # Never PROVE timeout <= Soonest(f[n])
  <2>1. Soonest(f[n]) \in Int
    BY Consts DEF Soonest
  <2>2. a <= Soonest(f[n]) \/ b <= Soonest(f[n])
    BY <1>2, <1>3, <1>6 DEF Nodes
  <2> QED BY <1>5, <2>1, <2>2
<1> QED BY <1>2, <1>3, <1>5, <1>6

\* OsSchedSetNextExpireTime with a clock that has just been read and a time to arm for that has
\* not passed: it leaves the tick as it is, or reloads the timer.
LEMMA ArmForm ==
    ASSUME now \in Int, NEW k, Fine(k), NEW id \in Ids, NEW end \in Int, NEW timeout \in Int,
           timeout = Min({GetSortLinkNextExpireTime(k.links[x], k.at, now, Precision) : x \in DOMAIN k.links}),
           NEW next \in Int, next = IF IsTimeSlice(timeout, end) THEN end ELSE timeout, next >= now,
           NEW r, r = OsSchedSetNextExpireTime(k, id, end)
    PROVE  \/ /\ k.resp.time <= next \/ k.resp.time - next < Precision
              /\ r = k
           \/ /\ ~(k.resp.time <= next) /\ ~(k.resp.time - next < Precision)
              /\ Ends(r.hw) = r.resp.time
              /\ r.resp.id = IF IsTimeSlice(timeout, end) THEN id ELSE "TIMER"
              /\ r.resp.time <= next \/ r.resp.time <= now + Precision
<1>0. /\ Precision \in Nat /\ PeriodMax \in Nat /\ k.clk.old = now /\ KernelType(k)
  BY Consts DEF Fine
<1>1. PICK period \in Int : period = Max({next - now, Precision}) /\ (period = next - now \/ period = Precision)
  <2>1. PICK a \in Int : a = next - now
    <3>1. next - now \in Int
      OBVIOUS
    <3> QED BY <3>1
  <2>2. PICK b \in Int : b = Precision
    BY <1>0
  <2>3. Max({a, b}) \in {a, b}
    BY TwoNumbers
  <2> QED BY <2>1, <2>2, <2>3
<1>2. PICK load \in Int : load = Min({period, PeriodMax}) /\ load <= period
  <2>1. PICK b \in Int : b = PeriodMax
    BY <1>0
  <2>2. Min({period, b}) \in {period, b} /\ Min({period, b}) <= period
    BY TwoNumbers
  <2> QED BY <2>1, <2>2
<1>3. PICK h : h = SysTickReload(period)
  OBVIOUS
<1>4. h = [load |-> load, at |-> now, pend |-> FALSE]
  BY <1>2, <1>3 DEF SysTickReload
<1>5. PICK q : q = [time |-> now + h.load, id |-> IF IsTimeSlice(timeout, end) THEN id ELSE "TIMER"]
  OBVIOUS
<1>6. r = IF k.resp.time <= next \/ k.resp.time - next < Precision THEN k
          ELSE [k EXCEPT !.resp = q, !.hw = h, !.clk.base = now]
  <2>1. period = IF next < now THEN PeriodMax ELSE Max({next - now, Precision})
    BY <1>1
  <2>2. timeout = Min({GetSortLinkNextExpireTime(k.links[x], k.at, k.clk.old, Precision) : x \in DOMAIN k.links})
    BY <1>0
  <2> QED BY <1>0, <1>3, <1>5, <2>1, <2>2 DEF OsSchedSetNextExpireTime
<1>7. CASE k.resp.time <= next \/ k.resp.time - next < Precision
  BY <1>6, <1>7
<1>8. CASE ~(k.resp.time <= next \/ k.resp.time - next < Precision)
  <2>1. r = [k EXCEPT !.resp = q, !.hw = h, !.clk.base = now]
    BY <1>6, <1>8
  <2>2. r.resp = q /\ r.hw = h
    BY <1>0, <2>1 DEF KernelType
  <2>3. r.hw.at = now /\ r.hw.load = load /\ r.resp.time = now + load
        /\ r.resp.id = IF IsTimeSlice(timeout, end) THEN id ELSE "TIMER"
    BY <1>4, <1>5, <2>2
  <2>4. Ends(r.hw) = r.resp.time
    BY <2>3 DEF Ends
  <2>5. now + load <= next \/ now + load <= now + Precision
    BY <1>0, <1>1, <1>2
  <2> QED BY <1>8, <2>3, <2>4, <2>5
<1> QED BY <1>7, <1>8

\* What a slice is armed for: nothing for the idle task, else an end to come.
SliceFor(id, end) ==
    /\ id \in Tasks \cup {Idle}
    /\ id = Idle => end = Never - Precision
    /\ id # Idle => end >= now /\ end <= now + Slice

\* If the tick is armed, its time is when the period of the tick timer ends.
Armed(k) == k.resp.time # Never => k.resp.time = Ends(k.hw)

\* The tick has been left as it is, close to what it is needed for, or armed for what comes
\* first: before a slice only if no timeout is near.
Kept(r, k) ==
    /\ r = k
    /\ \A n \in Nodes : k.at[n] # Never => Ends(k.hw) < Soonest(k.at[n]) + Precision
Reloaded(r, k, id) ==
    /\ k.resp.time = Never \/ Ends(r.hw) <= Ends(k.hw)
    /\ \A n \in Nodes : k.at[n] # Never => Ends(r.hw) <= Soonest(k.at[n])
    /\ r.resp.id # "TIMER" => /\ r.resp.id = id /\ id \in Tasks
                              /\ \A n \in Nodes : k.at[n] # Never => k.at[n] > now + Precision

LEMMA ArmTimes ==
    ASSUME now \in Int, FarAhead, NEW k, Fine(k), Linked(k.at, k.links), Near(k.at), Armed(k),
           NEW id, NEW end \in Int, SliceFor(id, end), NEW r, r = OsSchedSetNextExpireTime(k, id, end)
    PROVE  /\ r.resp.time # Never /\ Armed(r)
           /\ id # Idle => Ends(r.hw) < end + MinPeriod + Precision
           /\ Kept(r, k) \/ Reloaded(r, k, id)
<1>0. /\ Precision \in Nat /\ Precision > 0 /\ Never \in Nat /\ Slice \in Nat /\ MinPeriod \in Nat
      /\ Precision < MinPeriod /\ now + Slice + MinPeriod + Precision < Never
  BY Consts, Tolerance DEF FarAhead
<1>1. /\ KernelType(k) /\ k.at \in [Nodes -> Int] /\ k.resp.time \in Int /\ LinksType(k.links)
      /\ Ends(k.hw) \in Int /\ id \in Ids
  BY DEF Fine, KernelType, Ends, SliceFor, Ids
<1>2. PICK timeout : timeout = Min({GetSortLinkNextExpireTime(k.links[x], k.at, now, Precision) : x \in DOMAIN k.links})
  OBVIOUS
<1>3. /\ timeout \in Int /\ timeout >= now + Precision /\ timeout <= Never - Precision
      /\ \A n \in Nodes : k.at[n] # Never => timeout <= Soonest(k.at[n])
  BY <1>1, <1>2, TimeoutBounds
<1>4. PICK next \in Int : next = IF IsTimeSlice(timeout, end) THEN end ELSE timeout
  BY <1>3
<1>5. /\ next >= now /\ next <= timeout /\ next <= Never - Precision
      /\ id # Idle => next <= end + MinPeriod
  <2>1. CASE IsTimeSlice(timeout, end)
    <3>1. next = end /\ timeout > end
      BY <1>4, <2>1 DEF IsTimeSlice
    <3>2. end >= now
      BY <1>0 DEF SliceFor
    <3> QED BY <1>0, <1>3, <3>1, <3>2
  <2>2. CASE ~IsTimeSlice(timeout, end)
    <3>1. next = timeout /\ ~(timeout > end /\ timeout - end > MinPeriod)
      BY <1>4, <2>2 DEF IsTimeSlice
    <3>2. timeout <= end + MinPeriod
      BY <1>0, <1>3, <3>1
    <3> QED BY <1>0, <1>3, <3>1, <3>2
  <2> QED BY <2>1, <2>2
<1>6. ASSUME NEW n \in Nodes, k.at[n] # Never
      PROVE  Soonest(k.at[n]) \in Int /\ timeout <= Soonest(k.at[n]) /\ now + Precision <= Soonest(k.at[n])
  BY <1>0, <1>1, <1>3, <1>6 DEF Soonest
<1>7. ASSUME k.resp.time <= next \/ k.resp.time - next < Precision, r = k
      PROVE  /\ r.resp.time # Never /\ Armed(r)
             /\ id # Idle => Ends(r.hw) < end + MinPeriod + Precision
             /\ Kept(r, k)
  <2>1. k.resp.time # Never
    BY <1>0, <1>1, <1>5, <1>7
  <2>2. Ends(k.hw) = k.resp.time /\ Ends(k.hw) < next + Precision
    BY <1>0, <1>1, <1>7, <2>1 DEF Armed
  <2>3. id # Idle => Ends(k.hw) < end + MinPeriod + Precision
    BY <1>0, <1>1, <1>5, <2>2
  <2>4. ASSUME NEW n \in Nodes, k.at[n] # Never PROVE Ends(k.hw) < Soonest(k.at[n]) + Precision
    <3>1. Soonest(k.at[n]) \in Int /\ timeout <= Soonest(k.at[n])
      BY <1>6, <2>4
    <3> QED BY <1>0, <1>1, <1>3, <1>5, <2>2, <3>1
  <2> QED BY <1>7, <2>1, <2>3, <2>4 DEF Kept
<1>8. ASSUME ~(k.resp.time <= next), ~(k.resp.time - next < Precision), Ends(r.hw) = r.resp.time,
             r.resp.id = IF IsTimeSlice(timeout, end) THEN id ELSE "TIMER",
             r.resp.time <= next \/ r.resp.time <= now + Precision
      PROVE  /\ r.resp.time # Never /\ Armed(r)
             /\ id # Idle => Ends(r.hw) < end + MinPeriod + Precision
             /\ Reloaded(r, k, id)
  <2>1. PICK t \in Int : t = r.resp.time /\ t = Ends(r.hw)
    <3>1. KernelType(r)
      BY <1>1, ArmIs
    <3> QED BY <1>8, <3>1 DEF KernelType
  <2>2. t <= Never - Precision /\ r.resp.time # Never
    BY <1>0, <1>5, <1>8, <2>1
  <2>3. id # Idle => t < end + MinPeriod + Precision
    <3>1. id # Idle => end >= now
      BY DEF SliceFor
    <3> QED BY <1>0, <1>5, <1>8, <2>1, <3>1
  <2>4. k.resp.time = Never \/ t <= Ends(k.hw)
    <3>1. k.resp.time >= next + Precision
      BY <1>0, <1>1, <1>8
    <3>2. t <= k.resp.time
      BY <1>0, <1>1, <1>5, <1>8, <2>1, <3>1
    <3> QED BY <2>1, <3>2 DEF Armed
  <2>5. ASSUME NEW n \in Nodes, k.at[n] # Never PROVE t <= Soonest(k.at[n])
    <3>1. PICK b \in Int : b = Soonest(k.at[n]) /\ timeout <= b /\ now + Precision <= b
      BY <1>6, <2>5
    <3> QED BY <1>0, <1>3, <1>5, <1>8, <2>1, <3>1
  <2>6. ASSUME r.resp.id # "TIMER"
        PROVE  r.resp.id = id /\ id \in Tasks /\ \A n \in Nodes : k.at[n] # Never => k.at[n] > now + Precision
    <3>1. r.resp.id = id /\ timeout > end /\ timeout - end > MinPeriod
      BY <1>8, <2>6 DEF IsTimeSlice
    <3>2. id # Idle
      <4>1. id = Idle => end = Never - Precision
        BY DEF SliceFor
      <4> QED BY <1>0, <1>3, <3>1, <4>1
    <3>3. id \in Tasks /\ end >= now
      BY <3>2 DEF SliceFor
    <3>4. timeout > now + Precision
      BY <1>0, <1>3, <3>1, <3>3
    <3>5. ASSUME NEW n \in Nodes, k.at[n] # Never PROVE k.at[n] > now + Precision
      <4>1. PICK a \in Int : a = k.at[n]
        BY <1>1
      <4>2. timeout <= Soonest(a)
        BY <1>3, <3>5, <4>1
      <4> QED BY <1>0, <1>3, <3>4, <4>1, <4>2 DEF Soonest
    <3> QED BY <3>1, <3>3, <3>5
  <2> QED BY <2>1, <2>2, <2>3, <2>4, <2>5, <2>6 DEF Armed, Reloaded
<1>9. \/ /\ k.resp.time <= next \/ k.resp.time - next < Precision
         /\ r = k
      \/ /\ ~(k.resp.time <= next) /\ ~(k.resp.time - next < Precision)
         /\ Ends(r.hw) = r.resp.time
         /\ r.resp.id = IF IsTimeSlice(timeout, end) THEN id ELSE "TIMER"
         /\ r.resp.time <= next \/ r.resp.time <= now + Precision
  BY <1>1, <1>2, <1>3, <1>4, <1>5, ArmForm
<1> QED BY <1>7, <1>8, <1>9

-----------------------------------------------------------------------------
(***************************************************************************)
(* The parts of a kernel step keep this of the tick.                       *)
(***************************************************************************)
\* A tick for the end of a slice is for that of the task that runs.
IdFor(k, id) == k.resp.time # Never /\ k.resp.id # "TIMER" => k.resp.id = id /\ id \in Tasks

Sound(k, id) == Fine(k) /\ Linked(k.at, k.links) /\ Near(k.at) /\ Armed(k) /\ IdFor(k, id)

LEMMA ArmSound ==
    ASSUME Brief, TickType, FarAhead, NEW id, NEW k, Sound(k, id), NEW end \in Int, SliceFor(id, end),
           NEW r, r = OsSchedSetNextExpireTime(k, id, end)
    PROVE  /\ Sound(r, id) /\ r.at = k.at /\ r.resp.time # Never
           /\ id # Idle => Ends(r.hw) < end + MinPeriod + Precision
           /\ Kept(r, k) \/ Reloaded(r, k, id)
<1>1. Fine(r) /\ r.at = k.at /\ r.links = k.links
  <2>1. id \in Ids
    BY DEF SliceFor, Ids
  <2> QED BY <2>1, ArmFine DEF Sound
<1>2. /\ r.resp.time # Never /\ Armed(r)
      /\ id # Idle => Ends(r.hw) < end + MinPeriod + Precision
      /\ Kept(r, k) \/ Reloaded(r, k, id)
  BY ArmTimes DEF Sound, TickType
<1>3. IdFor(r, id)
  BY <1>2 DEF Kept, Reloaded, Sound, IdFor
<1> QED BY <1>1, <1>2, <1>3 DEF Sound

LEMMA DeleteSound ==
    ASSUME NEW id, NEW k, Sound(k, id), NEW n \in Nodes, NEW r, r = OsDeleteSortLink(k, n)
    PROVE  Sound(r, id)
<1>1. /\ KernelType(r) /\ r.clk = k.clk /\ r.hw = k.hw /\ r.at[n] = Never
      /\ r.resp.id = k.resp.id
      /\ r.resp.time = IF k.at[n] # Never /\ k.at[n] <= k.resp.time THEN Never ELSE k.resp.time
      /\ \A m \in Nodes : m # n => r.at[m] = k.at[m]
      /\ Linked(r.at, r.links)
  BY DeleteIs DEF Sound, Fine
<1>2. Fine(r)
  BY <1>1 DEF Sound, Fine
<1>3. Near(r.at)
  BY <1>1 DEF Sound, Near
<1>4. Armed(r) /\ IdFor(r, id)
  BY <1>1 DEF Sound, Armed, IdFor
<1> QED BY <1>1, <1>2, <1>3, <1>4 DEF Sound

LEMMA AddSound ==
    ASSUME NEW id, NEW k, Sound(k, id), NEW x \in LinkTypes, NEW n \in KindOf(x), NEW ticks \in Nat \ {0},
           k.at[n] = Never, now \in Int, now + ticks * CyclesPerTick + Precision < Never,
           NEW r, r = OsAdd2SortLink(k, n, now, ticks, x)
    PROVE  Sound(r, id)
<1>0. PICK c \in Nat : c = ticks * CyclesPerTick /\ now + c < Never /\ now + c + Precision < Never
  BY Ticks, Consts
<1>1. /\ KernelType(r) /\ SameClock(r, k)
      /\ r.at[n] = now + c
      /\ \A m \in Nodes : m # n => r.at[m] = k.at[m]
      /\ Linked(r.at, r.links)
  BY <1>0, AddIs DEF Sound, Fine
<1>2. Fine(r)
  BY <1>1 DEF Sound, Fine, SameClock
<1>3. Near(r.at)
  BY <1>0, <1>1 DEF Sound, Near
<1>4. Armed(r) /\ IdFor(r, id)
  BY <1>1 DEF Sound, Armed, IdFor, SameClock
<1> QED BY <1>1, <1>2, <1>3, <1>4 DEF Sound

\* With no tick armed.
LEMMA UnarmedSound ==
    ASSUME NEW id, NEW k, Fine(k), Linked(k.at, k.links), Near(k.at), k.resp.time = Never
    PROVE  Sound(k, id)
  BY DEF Sound, Armed, IdFor

-----------------------------------------------------------------------------
(***************************************************************************)
(* Slices.                                                                 *)
(***************************************************************************)
\* The tick is armed for when its timer's period ends, and for the slice of who runs.
ArmInv ==
    /\ ~hw.pend /\ resp.time # Never => resp.time = Ends(hw)
    /\ resp.time # Never /\ resp.id # "TIMER" => resp.id = run /\ run \in Tasks

\* Who is ready has a slice to run, and none is longer than Slice.
SliceOK ==
    /\ start <= now
    /\ \A t \in Tasks : slice[t] <= Slice /\ (at[t] = Never /\ t # run => slice[t] > SliceMin)

\* When the tick timer's interrupt comes, or came.
Due(h) == IF h.pend THEN h.at ELSE Ends(h)

\* After the tick: the switch comes at once.
Rest == pendsv /\ mask = 0 /\ ~hw.pend /\ resp.time = Never /\ now = start

SliceInv == run # Idle => Rest \/ Due(hw) < SliceEnd + MinPeriod + Precision

Setup == TickType /\ ClockInv /\ LinkInv /\ Near(at) /\ ArmInv /\ SliceOK

\* How long the slice of a task is.
Quantum(left) == IF left <= SliceMin THEN Slice ELSE left

LEMMA QuantumIs ==
    ASSUME NEW left \in Int, left <= Slice
    PROVE  Quantum(left) \in Int /\ Quantum(left) >= 0 /\ Quantum(left) <= Slice /\ left <= Quantum(left)
  BY Consts DEF Quantum

LEMMA SliceEndIs ==
    ASSUME TickType, SliceOK, run # Idle
    PROVE  SliceEnd \in Int /\ SliceEnd >= start /\ SliceEnd <= now + Slice /\ run \in Tasks
<1>1. run \in Tasks /\ slice[run] \in Int /\ slice[run] <= Slice /\ start <= now
  BY DEF TickType, SliceOK
<1>2. start \in Int /\ now \in Int /\ Slice \in Nat
  BY Consts DEF TickType
<1>3. PICK q \in Int : q = Quantum(slice[run]) /\ q >= 0 /\ q <= Slice
  BY <1>1, QuantumIs
<1>4. SliceEnd = start + q
  BY <1>3 DEF SliceEnd, Quantum
<1> QED BY <1>1, <1>2, <1>3, <1>4

LEMMA SetupSlicesEnd ==
    ASSUME Brief, Setup, SliceInv
    PROVE  SlicesEnd
<1> SUFFICES ASSUME run # Idle
             PROVE  now < SliceEnd + MinPeriod + Precision + MaskMax
  BY DEF SlicesEnd
<1>1. /\ now \in Int /\ start \in Int /\ hw.at \in Int /\ hw.load \in Int /\ mask \in 0..(MaskMax + 1)
      /\ Precision \in Nat /\ Precision > 0 /\ MinPeriod \in Nat /\ MaskMax \in Nat
      /\ SliceEnd \in Int /\ SliceEnd >= start
  BY Consts, SliceEndIs DEF Setup, TickType
<1>2. CASE Rest
  BY <1>1, <1>2 DEF Rest
<1>3. CASE ~Rest /\ ~hw.pend
  <2>1. Ends(hw) < SliceEnd + MinPeriod + Precision /\ now < Ends(hw) /\ Ends(hw) \in Int
    BY <1>1, <1>3 DEF SliceInv, Due, Setup, ClockInv, GoodClock, Ends
  <2> QED BY <1>1, <2>1
<1>4. CASE hw.pend
  <2>1. hw.at < SliceEnd + MinPeriod + Precision
    BY <1>4 DEF SliceInv, Due, Rest
  <2>2. now <= hw.at + MaskMax
    BY <1>1, <1>4 DEF Setup, ClockInv, Elapsed
  <2> QED BY <1>1, <2>1, <2>2
<1> QED BY <1>2, <1>3, <1>4

-----------------------------------------------------------------------------
(***************************************************************************)
(* How late a timeout may be.  Each node that leaves its link before the   *)
(* tick disarms it, and the tick is armed again within Precision: what is  *)
(* reserved for a node counts the nodes that may leave before it.          *)
(***************************************************************************)
Lateness == (1 + Cardinality(Nodes)) * Precision + MaskMax

\* A tick is longer than that, so that a node that is added now is no rival of one that is late.
Roomy == CyclesPerTick >= Lateness + Precision

Rivals(f, n) == {m \in Nodes \ {n} : f[m] # Never /\ f[m] <= f[n] + Lateness}
Reserve(f, n) == Cardinality(Rivals(f, n)) * Precision

\* What the tick may be later than it is armed for, until the timeouts have been scanned: it
\* may be disarmed, or scan nothing, and then be armed once more.
Credit(q) ==
    IF q.id # "TIMER" THEN Precision + 2 * MaskMax
    ELSE IF q.time = Never THEN Precision + MaskMax
    ELSE MaskMax

\* Node n will be handled in time by a tick of timer h armed for q, or by one armed now.
Safe(h, q, f, n) == Due(h) + Reserve(f, n) + Credit(q) < f[n] + Lateness
Spare(f, n) == now + Reserve(f, n) + Precision + MaskMax < f[n] + Lateness

AllSafe(h, q, f) == \A n \in Nodes : f[n] # Never => Safe(h, q, f, n)
AllSpare(f) == \A n \in Nodes : f[n] # Never => Spare(f, n)

\* From here it is enough to arm the tick.
Timely(k) ==
    \A n \in Nodes : k.at[n] # Never =>
       IF k.resp.time = Never THEN Spare(k.at, n)
       ELSE now > k.at[n] - Precision => Safe(k.hw, k.resp, k.at, n)

LEMMA Shares ==
    ASSUME NEW T, IsFiniteSet(T), NEW S, S \subseteq T
    PROVE  /\ Cardinality(S) * Precision \in Nat /\ Cardinality(T) * Precision \in Nat
           /\ Cardinality(S) * Precision <= Cardinality(T) * Precision
           /\ \A u \in T \ S : Cardinality(S) * Precision + Precision <= Cardinality(T) * Precision
<1>1. PICK p \in Nat : p = Precision
  BY Consts
<1>2. \A a, b \in Nat : a <= b => a * p \in Nat /\ b * p \in Nat /\ a * p <= b * p
  OBVIOUS
<1>3. \A a \in Nat : (a + 1) * p = a * p + p
  OBVIOUS
<1>4. PICK a \in Nat : a = Cardinality(S)
  BY FS_Subset, FS_CardinalityType
<1>5. PICK b \in Nat : b = Cardinality(T) /\ a <= b
  BY <1>4, FS_Subset, FS_CardinalityType
<1>6. ASSUME NEW u \in T \ S PROVE a + 1 <= b
  <2>1. S \subseteq T \ {u}
    BY <1>6
  <2>2. IsFiniteSet(T \ {u}) /\ Cardinality(T \ {u}) = b - 1
    BY <1>5, <1>6, FS_RemoveElement
  <2>3. a <= b - 1
    BY <1>4, <2>1, <2>2, FS_Subset
  <2> QED BY <2>3
<1>7. ASSUME NEW u \in T \ S PROVE a * p + p <= b * p
  BY <1>2, <1>3, <1>6, <1>7
<1> QED BY <1>1, <1>2, <1>4, <1>5, <1>7

LEMMA NodesFinite == IsFiniteSet(Nodes)
  BY TickAssumption, FS_Union DEF Nodes

LEMMA RivalsFinite ==
    ASSUME NEW f, NEW n
    PROVE  IsFiniteSet(Rivals(f, n)) /\ Rivals(f, n) \subseteq Nodes
<1>1. Rivals(f, n) \subseteq Nodes
  BY DEF Rivals
<1> QED BY <1>1, NodesFinite, FS_Subset

\* Fewer rivals need a smaller reserve.
LEMMA ReserveLess ==
    ASSUME NEW f, NEW g, NEW n, Rivals(g, n) \subseteq Rivals(f, n)
    PROVE  /\ Reserve(g, n) \in Nat /\ Reserve(f, n) \in Nat /\ Reserve(g, n) <= Reserve(f, n)
           /\ \A u \in Rivals(f, n) \ Rivals(g, n) : Reserve(g, n) + Precision <= Reserve(f, n)
  BY RivalsFinite, Shares DEF Reserve

\* The reserve never uses up what a timeout may be late, and less of it if another node is idle.
LEMMA ReserveIs ==
    ASSUME NEW f, NEW n \in Nodes
    PROVE  /\ Reserve(f, n) \in Nat /\ Lateness \in Nat
           /\ Reserve(f, n) + 2 * Precision + MaskMax <= Lateness
           /\ \A u \in Nodes \ {n} : f[u] = Never => Reserve(f, n) + 3 * Precision + MaskMax <= Lateness
<1>1. PICK p \in Nat : p = Precision
  BY Consts
<1>2. PICK N \in Nat : N = Cardinality(Nodes)
  BY NodesFinite, FS_CardinalityType
<1>3. MaskMax \in Nat
  BY Consts
<1>4. PICK all \in Nat : all = N * p
  BY <1>1, <1>2
<1>5. (1 + N) * p = all + p
  BY <1>1, <1>2, <1>4
<1>6. Lateness = all + p + MaskMax
  BY <1>1, <1>2, <1>5 DEF Lateness
<1>7. PICK a \in Nat : a = Reserve(f, n)
  BY ReserveLess
<1>8. Rivals(f, n) \subseteq Nodes \ {n}
  BY DEF Rivals
<1>9. a + p <= all
  BY <1>1, <1>2, <1>4, <1>7, <1>8, NodesFinite, Shares DEF Reserve
<1>10. ASSUME NEW u \in Nodes \ {n}, f[u] = Never PROVE a + p + p <= all
  <2>1. IsFiniteSet(Nodes \ {n}) /\ Nodes \ {n} \subseteq Nodes
    BY NodesFinite, FS_RemoveElement
  <2>2. PICK b \in Nat : b = Cardinality(Nodes \ {n}) * p
    BY <1>1, <2>1, NodesFinite, Shares
  <2>3. b + p <= all
    BY <1>1, <1>2, <1>4, <2>2, NodesFinite, Shares
  <2>4. u \notin Rivals(f, n)
    BY <1>10 DEF Rivals
  <2>5. a + p <= b
    BY <1>1, <1>7, <1>8, <2>1, <2>2, <2>4, Shares DEF Reserve
  <2> QED BY <2>3, <2>5
<1>11. a + 2 * p + MaskMax <= all + p + MaskMax
  BY <1>3, <1>9
<1>12. \A u \in Nodes \ {n} : f[u] = Never => a + 3 * p + MaskMax <= all + p + MaskMax
  BY <1>3, <1>10
<1>13. all + p + MaskMax \in Nat
  BY <1>3
<1> QED BY <1>1, <1>6, <1>7, <1>11, <1>12, <1>13

\* The numbers of the lemmas that follow.
LEMMA CreditIs ==
    ASSUME NEW q
    PROVE  /\ Credit(q) \in Nat /\ Credit(q) >= MaskMax
           /\ Precision \in Nat /\ Precision > 0 /\ MaskMax \in Nat
           /\ q.time = Never \/ q.id # "TIMER" => Credit(q) >= Precision + MaskMax
  BY Consts DEF Credit

\* A timeout that is not late is handled in time by a tick armed now.
LEMMA EarlySpare ==
    ASSUME now \in Int, NEW f \in [Nodes -> Int], NEW n \in Nodes, now < f[n] + Precision
    PROVE  Spare(f, n)
<1>1. PICK a \in Int : a = f[n]
  OBVIOUS
<1>2. PICK b \in Nat : b = Reserve(f, n) /\ b + 2 * Precision + MaskMax <= Lateness
  BY ReserveIs
<1>3. Lateness \in Nat /\ Precision \in Nat /\ MaskMax \in Nat
  BY ReserveIs, Consts
<1>4. now + b + Precision + MaskMax < a + Lateness
  BY <1>1, <1>2, <1>3
<1> QED BY <1>1, <1>2, <1>4 DEF Spare

LEMMA ArmTimely ==
    ASSUME Brief, now \in Int, NEW id, NEW k, Sound(k, id), Timely(k), id # Idle => k.at[id] = Never,
           NEW r, Sound(r, id), r.at = k.at, r.resp.time # Never, Kept(r, k) \/ Reloaded(r, k, id)
    PROVE  AllSafe(r.hw, r.resp, r.at)
<1> SUFFICES ASSUME NEW n \in Nodes, k.at[n] # Never PROVE Safe(r.hw, r.resp, r.at, n)
  BY DEF AllSafe
<1>0. /\ Precision \in Nat /\ Precision > 0 /\ MaskMax \in Nat /\ MaskMax <= Precision /\ Lateness \in Nat
  BY Consts, ReserveIs DEF Brief
<1>1. PICK a \in Int : a = k.at[n]
  BY DEF Sound, Fine, KernelType
<1>2. PICK b \in Nat : /\ b = Reserve(k.at, n) /\ b + 2 * Precision + MaskMax <= Lateness
                       /\ \A u \in Nodes \ {n} : k.at[u] = Never => b + 3 * Precision + MaskMax <= Lateness
  BY ReserveIs
<1>3. PICK e \in Int : e = Ends(r.hw) /\ e = Due(r.hw)
  BY DEF Sound, Fine, KernelType, Ends, Due
<1>4. PICK c \in Nat : /\ c = Credit(r.resp)
                       /\ r.resp.id = "TIMER" => c = MaskMax
                       /\ r.resp.id # "TIMER" => c = Precision + 2 * MaskMax
  BY CreditIs DEF Credit
<1>5. r.resp.id # "TIMER" => b + 3 * Precision + MaskMax <= Lateness
  <2>1. ASSUME r.resp.id # "TIMER" PROVE id \in Nodes \ {n} /\ k.at[id] = Never
    <3>1. id \in Tasks
      BY <2>1 DEF Sound, IdFor
    <3>2. k.at[id] = Never
      BY <3>1, TickAssumption
    <3> QED BY <3>1, <3>2 DEF Nodes
  <2> QED BY <1>2, <2>1
<1>6. CASE Kept(r, k)
  <2>1. r = k /\ e < Soonest(a) + Precision
    BY <1>1, <1>3, <1>6 DEF Kept
  <2>2. CASE now > a - Precision
    BY <1>1, <2>1, <2>2 DEF Timely
  <2>3. CASE ~(now > a - Precision)
    <3>1. e < a + Precision
      BY <1>0, <1>1, <2>1, <2>3 DEF Soonest
    <3>2. e + b + c < a + Lateness
      BY <1>0, <1>2, <1>4, <1>5, <3>1
    <3> QED BY <1>1, <1>2, <1>3, <1>4, <3>2 DEF Safe
  <2> QED BY <2>2, <2>3
<1>7. CASE Reloaded(r, k, id)
  <2>1. /\ e <= Soonest(a) /\ (k.resp.time = Never \/ e <= Ends(k.hw))
        /\ r.resp.id # "TIMER" => a > now + Precision
    BY <1>1, <1>3, <1>7 DEF Reloaded
  <2>2. CASE a >= now + Precision
    <3>1. e <= a
      BY <1>0, <1>1, <2>1, <2>2 DEF Soonest
    <3>2. e + b + c < a + Lateness
      BY <1>0, <1>2, <1>4, <1>5, <3>1
    <3> QED BY <1>1, <1>2, <1>3, <1>4, <3>2 DEF Safe
  <2>3. CASE ~(a >= now + Precision)
    <3>1. e <= now + Precision /\ c = MaskMax
      BY <1>0, <1>1, <1>4, <2>1, <2>3 DEF Soonest
    <3>2. CASE k.resp.time = Never
      <4>1. now + b + Precision + MaskMax < a + Lateness
        BY <1>1, <1>2, <3>2 DEF Timely, Spare
      <4>2. e + b + c < a + Lateness
        BY <1>0, <3>1, <4>1
      <4> QED BY <1>1, <1>2, <1>3, <1>4, <4>2 DEF Safe
    <3>3. CASE k.resp.time # Never
      <4>1. now > a - Precision
        BY <1>0, <1>1, <2>3
      <4>2. Safe(k.hw, k.resp, k.at, n)
        BY <1>1, <3>3, <4>1 DEF Timely
      <4>3. PICK d \in Int : d = Ends(k.hw) /\ d = Due(k.hw)
        BY DEF Sound, Fine, KernelType, Ends, Due
      <4>4. PICK c0 \in Nat : c0 = Credit(k.resp) /\ c0 >= MaskMax
        BY CreditIs
      <4>5. d + b + c0 < a + Lateness /\ e <= d
        BY <1>1, <1>2, <2>1, <3>3, <4>2, <4>3, <4>4 DEF Safe
      <4>6. e + b + c < a + Lateness
        BY <1>0, <3>1, <4>3, <4>4, <4>5
      <4> QED BY <1>1, <1>2, <1>3, <1>4, <4>6 DEF Safe
    <3> QED BY <3>2, <3>3
  <2> QED BY <2>2, <2>3
<1> QED BY <1>6, <1>7

\* If every timeout is safe, and the tick is not pending, it is enough to arm it again.
LEMMA SafeTimely ==
    ASSUME now \in Int, NEW id, NEW k, Sound(k, id),
           AllSafe(k.hw, k.resp, k.at) \/ (k.resp.time = Never /\ AllSpare(k.at))
    PROVE  Timely(k)
<1> SUFFICES ASSUME NEW n \in Nodes, k.at[n] # Never, AllSafe(k.hw, k.resp, k.at), k.resp.time = Never
             PROVE  Spare(k.at, n)
  BY DEF Timely, AllSafe, AllSpare
<1>1. PICK a \in Int : a = k.at[n]
  BY DEF Sound, Fine, KernelType
<1>2. PICK b \in Nat : b = Reserve(k.at, n)
  BY ReserveIs
<1>3. PICK d \in Int : d = Due(k.hw) /\ now < d
  BY DEF Sound, Fine, KernelType, GoodClock, Ends, Due
<1>4. PICK c \in Nat : c = Credit(k.resp) /\ c >= Precision + MaskMax
  BY CreditIs
<1>5. d + b + c < a + Lateness
  BY <1>1, <1>2, <1>3, <1>4 DEF AllSafe, Safe
<1>6. Lateness \in Nat /\ Precision \in Nat /\ MaskMax \in Nat
  BY ReserveIs, Consts
<1>7. now + b + Precision + MaskMax < a + Lateness
  BY <1>3, <1>4, <1>5, <1>6
<1> QED BY <1>1, <1>2, <1>7 DEF Spare

\* A node that leaves is no rival any more.
LEMMA LeaverIs ==
    ASSUME NEW f \in [Nodes -> Int], NEW g, NEW u \in Nodes, g[u] = Never,
           \A m \in Nodes : m # u => g[m] = f[m], NEW n \in Nodes, n # u
    PROVE  /\ Rivals(g, n) \subseteq Rivals(f, n)
           /\ Reserve(g, n) \in Nat /\ Reserve(f, n) \in Nat /\ Reserve(g, n) <= Reserve(f, n)
           /\ f[u] # Never /\ f[u] <= f[n] + Lateness => Reserve(g, n) + Precision <= Reserve(f, n)
<1>1. Rivals(g, n) \subseteq Rivals(f, n) /\ u \notin Rivals(g, n)
  BY DEF Rivals
<1>2. f[u] # Never /\ f[u] <= f[n] + Lateness => u \in Rivals(f, n)
  BY DEF Rivals
<1> QED BY <1>1, <1>2, ReserveLess

LEMMA DeleteTimely ==
    ASSUME now \in Int, NEW id, NEW k, Sound(k, id), Timely(k), NEW u \in Nodes,
           NEW r, r = OsDeleteSortLink(k, u)
    PROVE  Timely(r)
<1>1. /\ r.hw = k.hw /\ r.at[u] = Never /\ r.resp.id = k.resp.id
      /\ r.resp.time = IF k.at[u] # Never /\ k.at[u] <= k.resp.time THEN Never ELSE k.resp.time
      /\ \A m \in Nodes : m # u => r.at[m] = k.at[m]
      /\ r.at \in [Nodes -> Int] /\ k.at \in [Nodes -> Int] /\ k.resp.time \in Int
  BY DeleteIs DEF Sound, Fine, KernelType
<1> SUFFICES ASSUME NEW n \in Nodes, r.at[n] # Never
             PROVE  IF r.resp.time = Never THEN Spare(r.at, n)
                    ELSE now > r.at[n] - Precision => Safe(r.hw, r.resp, r.at, n)
  BY DEF Timely
<1>2. n # u /\ r.at[n] = k.at[n]
  BY <1>1
<1>3. PICK a \in Int : a = k.at[n] /\ a = r.at[n]
  BY <1>1, <1>2
<1>4. PICK b \in Nat : b = Reserve(k.at, n)
  BY ReserveIs
<1>5. PICK g \in Nat : /\ g = Reserve(r.at, n) /\ g <= b
                       /\ k.at[u] # Never /\ k.at[u] <= a + Lateness => g + Precision <= b
  BY <1>1, <1>2, <1>3, <1>4, LeaverIs
<1>6. PICK d \in Int : d = Due(k.hw) /\ d = Ends(k.hw) /\ now < d
  BY DEF Sound, Fine, KernelType, GoodClock, Ends, Due
<1>7. PICK c \in Nat : c = Credit(k.resp) /\ c >= MaskMax
  BY CreditIs
<1>8. Lateness \in Nat /\ Precision \in Nat /\ MaskMax \in Nat
  BY ReserveIs, Consts
<1>9. CASE k.resp.time = Never
  <2>1. r.resp.time = Never
    BY <1>1, <1>9
  <2>2. now + b + Precision + MaskMax < a + Lateness
    BY <1>2, <1>3, <1>4, <1>9 DEF Timely, Spare
  <2>3. now + g + Precision + MaskMax < a + Lateness
    BY <1>5, <1>8, <2>2
  <2> QED BY <1>3, <1>5, <2>1, <2>3 DEF Spare
<1>10. CASE k.resp.time # Never /\ now > a - Precision
  <2>1. d + b + c < a + Lateness
    BY <1>2, <1>3, <1>4, <1>6, <1>7, <1>10 DEF Timely, Safe
  <2>2. CASE r.resp.time = Never
    <3>1. k.at[u] # Never /\ k.at[u] <= d
      BY <1>1, <1>6, <1>10, <2>2 DEF Sound, Armed
    <3>2. PICK v \in Int : v = k.at[u]
      BY <1>1
    <3>3. v <= a + Lateness
      BY <1>6, <1>7, <1>8, <2>1, <3>1, <3>2
    <3>4. g + Precision <= b
      BY <1>5, <3>1, <3>2, <3>3
    <3>5. now + g + Precision + MaskMax < a + Lateness
      BY <1>6, <1>7, <1>8, <2>1, <3>4
    <3> QED BY <1>3, <1>5, <2>2, <3>5 DEF Spare
  <2>3. CASE r.resp.time # Never
    <3>1. Credit(r.resp) = c
      BY <1>1, <1>7, <2>3 DEF Credit
    <3>2. d + g + c < a + Lateness
      BY <1>5, <1>8, <2>1
    <3> QED BY <1>1, <1>3, <1>5, <1>6, <2>3, <3>1, <3>2 DEF Safe
  <2> QED BY <2>2, <2>3
<1>11. CASE k.resp.time # Never /\ ~(now > a - Precision)
  <2>1. now < a + Precision
    BY <1>8, <1>11, Consts
  <2>2. Spare(r.at, n)
    BY <1>1, <1>3, <2>1, EarlySpare
  <2> QED BY <1>3, <1>11, <2>2
<1> QED BY <1>9, <1>10, <1>11

\* OsSchedTaskWake arms nothing: the switch, or the end of the lock, does.
LEMMA DeleteSafe ==
    ASSUME now \in Int, NEW id, NEW k, Sound(k, id), AllSafe(k.hw, k.resp, k.at), NEW u \in Nodes,
           NEW r, r = OsDeleteSortLink(k, u)
    PROVE  AllSafe(r.hw, r.resp, r.at)
<1>1. /\ r.hw = k.hw /\ r.at[u] = Never /\ r.resp.id = k.resp.id
      /\ r.resp.time = IF k.at[u] # Never /\ k.at[u] <= k.resp.time THEN Never ELSE k.resp.time
      /\ \A m \in Nodes : m # u => r.at[m] = k.at[m]
      /\ r.at \in [Nodes -> Int] /\ k.at \in [Nodes -> Int] /\ k.resp.time \in Int
  BY DeleteIs DEF Sound, Fine, KernelType
<1> SUFFICES ASSUME NEW n \in Nodes, r.at[n] # Never PROVE Safe(r.hw, r.resp, r.at, n)
  BY DEF AllSafe
<1>2. n # u /\ r.at[n] = k.at[n]
  BY <1>1
<1>3. PICK a \in Int : a = k.at[n] /\ a = r.at[n]
  BY <1>1, <1>2
<1>4. PICK b \in Nat : b = Reserve(k.at, n)
  BY ReserveIs
<1>5. PICK g \in Nat : /\ g = Reserve(r.at, n) /\ g <= b
                       /\ k.at[u] # Never /\ k.at[u] <= a + Lateness => g + Precision <= b
  BY <1>1, <1>2, <1>3, <1>4, LeaverIs
<1>6. PICK d \in Int : d = Due(k.hw) /\ d = Ends(k.hw)
  BY DEF Sound, Fine, KernelType, GoodClock, Ends, Due
<1>7. PICK c \in Nat : c = Credit(k.resp)
  BY CreditIs
<1>8. Lateness \in Nat /\ Precision \in Nat /\ MaskMax \in Nat
  BY ReserveIs, Consts
<1>9. d + b + c < a + Lateness
  BY <1>2, <1>3, <1>4, <1>6, <1>7 DEF AllSafe, Safe
<1>10. PICK e \in Nat : e = Credit(r.resp)
  BY CreditIs
<1>11. d + g + e < a + Lateness
  <2>1. CASE k.resp.id # "TIMER" \/ r.resp.time = k.resp.time
    <3>1. e = c
      BY <1>1, <1>7, <1>10, <2>1 DEF Credit
    <3> QED BY <1>5, <1>8, <1>9, <3>1
  <2>2. CASE k.resp.id = "TIMER" /\ r.resp.time # k.resp.time
    <3>1. k.at[u] # Never /\ k.at[u] <= k.resp.time /\ k.resp.time # Never /\ r.resp.time = Never
      BY <1>1, <2>2
    <3>2. PICK v \in Int : v = k.at[u] /\ v <= d
      BY <1>1, <1>6, <3>1 DEF Sound, Armed
    <3>3. v <= a + Lateness
      BY <1>8, <1>9, <3>2
    <3>4. g + Precision <= b
      BY <1>5, <3>1, <3>2, <3>3
    <3>5. c = MaskMax /\ e = Precision + MaskMax
      BY <1>1, <1>7, <1>10, <2>2, <3>1 DEF Credit
    <3> QED BY <1>8, <1>9, <3>4, <3>5
  <2> QED BY <2>1, <2>2
<1> QED BY <1>1, <1>3, <1>5, <1>6, <1>10, <1>11 DEF Safe

LEMMA DeleteSpare ==
    ASSUME NEW f \in [Nodes -> Int], AllSpare(f), now \in Int, NEW u \in Nodes,
           NEW g, g[u] = Never, \A m \in Nodes : m # u => g[m] = f[m]
    PROVE  AllSpare(g)
<1> SUFFICES ASSUME NEW n \in Nodes, g[n] # Never PROVE Spare(g, n)
  BY DEF AllSpare
<1>1. n # u /\ g[n] = f[n]
  OBVIOUS
<1>2. PICK a \in Int : a = f[n] /\ a = g[n]
  BY <1>1
<1>3. PICK b \in Nat : b = Reserve(f, n)
  BY ReserveIs
<1>4. PICK c \in Nat : c = Reserve(g, n) /\ c <= b
  BY <1>1, <1>3, LeaverIs
<1>5. Lateness \in Nat /\ Precision \in Nat /\ MaskMax \in Nat
  BY ReserveIs, Consts
<1>6. now + b + Precision + MaskMax < a + Lateness
  BY <1>1, <1>2, <1>3 DEF AllSpare, Spare
<1>7. now + c + Precision + MaskMax < a + Lateness
  BY <1>4, <1>5, <1>6
<1> QED BY <1>2, <1>4, <1>7 DEF Spare

\* What is added is due at least a tick from now.
LEMMA AddTimely ==
    ASSUME Roomy, now \in Int, NEW id, NEW k, Sound(k, id), Timely(k), NEW x \in LinkTypes,
           NEW u \in KindOf(x), NEW ticks \in Nat \ {0}, k.at[u] = Never,
           NEW r, r = OsAdd2SortLink(k, u, now, ticks, x)
    PROVE  Timely(r)
<1>0. PICK t \in Int : t = now + ticks * CyclesPerTick /\ t >= now + Lateness + Precision
  <2>1. PICK c \in Nat : c = CyclesPerTick
    BY TickAssumption
  <2>2. ticks * c \in Nat /\ ticks * c >= c
    OBVIOUS
  <2>3. Lateness \in Nat /\ Precision \in Nat
    BY ReserveIs, Consts, KindsApart
  <2>4. c >= Lateness + Precision
    BY <2>1 DEF Roomy
  <2>5. now + ticks * c >= now + Lateness + Precision
    BY <2>1, <2>2, <2>3, <2>4
  <2> QED BY <2>1, <2>2, <2>5
<1>1. /\ KernelType(k) /\ KernelType(r) /\ SameClock(r, k) /\ r.at[u] = t
      /\ \A m \in Nodes : m # u => r.at[m] = k.at[m]
  BY <1>0, AddIs DEF Sound, Fine
<1>2. r.at \in [Nodes -> Int] /\ k.at \in [Nodes -> Int] /\ r.hw = k.hw /\ r.resp = k.resp
  BY <1>1 DEF KernelType, SameClock
<1>3. Lateness \in Nat /\ Precision \in Nat /\ Precision > 0 /\ MaskMax \in Nat /\ u \in Nodes
  BY ReserveIs, Consts, KindsApart
<1> SUFFICES ASSUME NEW n \in Nodes, r.at[n] # Never
             PROVE  IF r.resp.time = Never THEN Spare(r.at, n)
                    ELSE now > r.at[n] - Precision => Safe(r.hw, r.resp, r.at, n)
  BY DEF Timely
<1>4. PICK a \in Int : a = r.at[n]
  BY <1>2
<1>5. CASE now <= a - Precision
  <2>1. Spare(r.at, n)
    <3>1. now < r.at[n] + Precision
      BY <1>3, <1>4, <1>5
    <3> QED BY <1>2, <3>1, EarlySpare
  <2>2. ~(now > r.at[n] - Precision)
    BY <1>3, <1>4, <1>5
  <2> QED BY <2>1, <2>2
<1>6. CASE ~(now <= a - Precision)
  <2>1. n # u /\ a = k.at[n]
    <3>1. n # u
      BY <1>0, <1>1, <1>3, <1>4, <1>6
    <3> QED BY <1>1, <1>4, <3>1
  <2>2. ~(t <= a + Lateness)
    BY <1>0, <1>3, <1>4, <1>6
  <2>3. Rivals(r.at, n) = Rivals(k.at, n)
    BY <1>1, <1>4, <2>1, <2>2 DEF Rivals
  <2>4. Reserve(r.at, n) = Reserve(k.at, n)
    BY <2>3 DEF Reserve
  <2> QED BY <1>2, <1>4, <2>1, <2>4 DEF Timely, Spare, Safe
<1> QED BY <1>5, <1>6

\* OsSchedTaskSwitch forgets a tick for the slice that it ends.
LEMMA DisarmTimely ==
    ASSUME now \in Int, NEW id, NEW k, Sound(k, id), Timely(k), k.resp.id # "TIMER",
           NEW r, r = [k EXCEPT !.resp.time = Never]
    PROVE  Timely(r)
<1>1. r.at = k.at /\ r.resp.time = Never /\ KernelType(k)
  BY ResponseIs, Consts DEF Sound, Fine
<1> SUFFICES ASSUME NEW n \in Nodes, k.at[n] # Never, k.resp.time # Never PROVE Spare(k.at, n)
  BY <1>1 DEF Timely
<1>2. PICK a \in Int : a = k.at[n]
  BY <1>1 DEF KernelType
<1>3. Lateness \in Nat /\ Precision \in Nat /\ Precision > 0 /\ MaskMax \in Nat
  BY ReserveIs, Consts
<1>4. CASE now > a - Precision
  <2>1. PICK b \in Nat : b = Reserve(k.at, n)
    BY ReserveIs
  <2>2. PICK d \in Int : d = Due(k.hw) /\ now < d
    BY DEF Sound, Fine, KernelType, GoodClock, Ends, Due
  <2>3. PICK c \in Nat : c = Credit(k.resp) /\ c >= Precision + MaskMax
    BY CreditIs
  <2>4. d + b + c < a + Lateness
    BY <1>2, <1>4, <2>1, <2>2, <2>3 DEF Timely, Safe
  <2>5. now + b + Precision + MaskMax < a + Lateness
    BY <1>3, <2>2, <2>3, <2>4
  <2> QED BY <1>2, <2>1, <2>5 DEF Spare
<1>5. CASE ~(now > a - Precision)
  <2>1. now < k.at[n] + Precision
    BY <1>2, <1>3, <1>5
  <2> QED BY <1>1, <2>1, EarlySpare DEF KernelType
<1> QED BY <1>4, <1>5

-----------------------------------------------------------------------------
(***************************************************************************)
(* The steps.                                                              *)
(***************************************************************************)
TimeoutInv == AllSafe(hw, resp, at) \/ (Rest /\ AllSpare(at))

\* What a step does to what the tick is armed for.
Serves ==
    /\ (Near(at) /\ ArmInv /\ SliceOK /\ SliceInv)'
    /\ Roomy /\ TimeoutInv => TimeoutInv'

LEMMA InTime ==
    ASSUME Brief, Setup, TimeoutInv
    PROVE  TimeoutsInTime
<1> SUFFICES ASSUME NEW n \in Nodes, at[n] # Never
             PROVE  now < at[n] + (1 + Cardinality(Nodes)) * Precision + MaskMax
  BY DEF TimeoutsInTime
<1>1. /\ now \in Int /\ hw \in [load : Int, at : Int, pend : BOOLEAN] /\ mask \in 0..(MaskMax + 1)
      /\ Precision \in Nat /\ MaskMax \in Nat
  BY Consts DEF Setup, TickType
<1>2. PICK a \in Int : a = at[n]
  BY DEF Setup, TickType
<1>3. PICK b \in Nat : b = Reserve(at, n) /\ Lateness \in Nat
  BY ReserveIs
<1>4. now < a + Lateness
  <2>1. CASE AllSafe(hw, resp, at)
    <3>1. PICK d \in Int : d = Due(hw) /\ now <= d + MaskMax
      <4>1. CASE hw.pend
        <5>1. Due(hw) = hw.at /\ hw.at \in Int
          BY <1>1, <4>1 DEF Due
        <5>2. now <= hw.at + MaskMax
          BY <1>1, <4>1 DEF Setup, ClockInv, Elapsed
        <5> QED BY <5>1, <5>2
      <4>2. CASE ~hw.pend
        <5>1. Due(hw) = hw.at + hw.load /\ hw.at \in Int /\ hw.load \in Int
          BY <1>1, <4>2 DEF Due, Ends
        <5>2. now < hw.at + hw.load
          BY <4>2 DEF Setup, ClockInv, GoodClock
        <5> QED BY <1>1, <5>1, <5>2
      <4> QED BY <4>1, <4>2
    <3>2. PICK c \in Nat : c = Credit(resp) /\ c >= MaskMax
      BY CreditIs
    <3>3. d + b + c < a + Lateness
      BY <1>2, <1>3, <2>1, <3>1, <3>2 DEF AllSafe, Safe
    <3> QED BY <1>1, <1>3, <3>1, <3>2, <3>3
  <2>2. CASE AllSpare(at)
    <3>1. now + b + Precision + MaskMax < a + Lateness
      BY <1>2, <1>3, <2>2 DEF AllSpare, Spare
    <3> QED BY <1>1, <1>3, <3>1
  <2> QED BY <2>1, <2>2 DEF TimeoutInv
<1>5. PICK m \in Int : m = (1 + Cardinality(Nodes)) * Precision
  BY NodesFinite, FS_CardinalityType, <1>1
<1> QED BY <1>1, <1>2, <1>4, <1>5 DEF Lateness

\* The kernel at the start of a call.
LEMMA KernelSound ==
    ASSUME Setup, ~hw.pend
    PROVE  /\ Sound(Kernel, run) /\ Kernel.at = at /\ Kernel.hw = hw /\ Kernel.resp = resp
           /\ TimeoutInv => Timely(Kernel)
<1>1. PICK k : k = Kernel
  OBVIOUS
<1>2. Fine(k) /\ k.at = at /\ k.links = links /\ k.hw = hw /\ k.resp = resp
  BY <1>1, KernelFine DEF Setup, Kernel
<1>3. Sound(k, run)
  BY <1>2 DEF Setup, LinkInv, ArmInv, Armed, IdFor, Sound
<1>4. ASSUME TimeoutInv PROVE Timely(k)
  <2>1. AllSafe(k.hw, k.resp, k.at) \/ (k.resp.time = Never /\ AllSpare(k.at))
    BY <1>2, <1>4 DEF TimeoutInv, Rest
  <2>2. now \in Int
    BY DEF Setup, TickType
  <2> QED BY <1>3, <2>1, <2>2, SafeTimely
<1> QED BY <1>1, <1>2, <1>3, <1>4

\* The same of the next state.
LEMMA NextSafe ==
    ASSUME AllSafe(hw', resp', at')
    PROVE  TimeoutInv'
<1>1. (AllSafe(hw, resp, at))'
  BY DEF AllSafe, Safe, Reserve, Rivals, Due, Ends, Credit, Lateness, Nodes
<1> QED BY <1>1 DEF TimeoutInv

\* A step that ends by arming the tick.
LEMMA ArmServes ==
    ASSUME Brief, Setup, FarAhead, now' = now, SliceOK', NEW id, id = run', NEW k, Sound(k, id),
           NEW end \in Int, SliceFor(id, end), id # Idle => k.at[id] = Never /\ end = SliceEnd',
           NEW r, r = OsSchedSetNextExpireTime(k, id, end), Becomes(r),
           Roomy /\ TimeoutInv => Timely(k)
    PROVE  Serves
<1>0. TickType /\ now \in Int
  BY DEF Setup, TickType
<1>1. /\ Sound(r, id) /\ r.at = k.at /\ r.resp.time # Never
      /\ id # Idle => Ends(r.hw) < end + MinPeriod + Precision
      /\ Kept(r, k) \/ Reloaded(r, k, id)
  BY <1>0, ArmSound
<1>2. hw' = r.hw /\ resp' = r.resp /\ at' = r.at /\ ~hw'.pend
  BY <1>1 DEF Becomes, Sound, Fine
<1>3. (Near(at))'
  BY <1>1, <1>2 DEF Sound, Near, Nodes
<1>4. ArmInv'
  BY <1>1, <1>2 DEF ArmInv, Sound, Armed, IdFor, Ends
<1>5. SliceInv'
  <2>1. run' # Idle => Ends(hw') < SliceEnd' + MinPeriod + Precision
    BY <1>1, <1>2
  <2>2. (Due(hw))' = Ends(hw')
    BY <1>2 DEF Due, Ends
  <2> QED BY <2>1, <2>2 DEF SliceInv
<1>6. ASSUME Roomy, TimeoutInv PROVE TimeoutInv'
  <2>1. Timely(k)
    BY <1>6
  <2>2. AllSafe(r.hw, r.resp, r.at)
    BY <1>0, <1>1, <2>1, ArmTimely
  <2> QED BY <1>2, <2>2, NextSafe
<1> QED BY <1>3, <1>4, <1>5, <1>6 DEF Serves

LEMMA TimePassesServes ==
    ASSUME Brief, Setup, SliceInv, TimePasses
    PROVE  Serves
<1>0. /\ now \in Int /\ hw \in [load : Int, at : Int, pend : BOOLEAN] /\ mask \in 0..(MaskMax + 1)
      /\ MaskMax \in Nat /\ start \in Int
  BY Consts DEF Setup, TickType
<1>1. /\ mask > 0 \/ ~(hw.pend \/ pendsv)
      /\ mask > 0 => mask <= MaskMax
      /\ now' = now + 1
      /\ hw' = IF now + 1 = hw.at + hw.load THEN [hw EXCEPT !.at = now + 1, !.pend = TRUE] ELSE hw
      /\ UNCHANGED <<resp, at, run, start, slice>>
  BY DEF TimePasses
<1>2. ~Rest
  BY <1>1, <1>0 DEF Rest
<1>3. /\ Due(hw') = Due(hw)
      /\ ~hw'.pend => hw' = hw
  <2>1. CASE now + 1 = hw.at + hw.load
    <3>1. ~hw.pend
      <4>1. ASSUME hw.pend PROVE FALSE
        <5>1. now - hw.at <= mask - 2 /\ mask <= MaskMax /\ hw.load >= MaskMax
          BY <1>0, <1>1, <4>1 DEF Setup, ClockInv, GoodClock, Elapsed
        <5> QED BY <1>0, <2>1, <5>1
      <4> QED BY <4>1
    <3>2. hw' = [load |-> hw.load, at |-> now + 1, pend |-> TRUE]
      BY <1>0, <1>1, <2>1
    <3>3. hw'.at = now + 1 /\ hw'.pend = TRUE
      BY <3>2
    <3> QED BY <2>1, <3>1, <3>3 DEF Due, Ends
  <2>2. CASE now + 1 # hw.at + hw.load
    BY <1>1, <2>2
  <2> QED BY <2>1, <2>2
<1>4. (Near(at))'
  BY <1>1 DEF Setup, Near, Nodes
<1>5. ArmInv'
  <2>1. ~hw'.pend => ~hw.pend /\ (Ends(hw))' = Ends(hw)
    BY <1>3 DEF Ends
  <2> QED BY <1>1, <2>1 DEF Setup, ArmInv
<1>6. SliceOK'
  BY <1>0, <1>1 DEF Setup, SliceOK
<1>7. SliceInv'
  <2>1. (Due(hw))' = Due(hw)
    BY <1>3 DEF Due, Ends
  <2>2. SliceEnd' = SliceEnd
    BY <1>1 DEF SliceEnd
  <2> QED BY <1>1, <1>2, <2>1, <2>2 DEF SliceInv
<1>8. ASSUME TimeoutInv PROVE TimeoutInv'
  <2>1. AllSafe(hw, resp, at)
    BY <1>2, <1>8 DEF TimeoutInv
  <2>2. AllSafe(hw', resp, at)
    BY <1>3, <2>1 DEF AllSafe, Safe
  <2> QED BY <1>1, <2>2, NextSafe
<1> QED BY <1>4, <1>5, <1>6, <1>7, <1>8 DEF Serves

\* Steps that change neither the tick nor the links, and leave what rests at rest.
LEMMA QuietServes ==
    ASSUME Brief, Setup, SliceInv,
           \/ IntLock \/ IntRestore \/ TaskYield \/ TaskLock \/ TaskUnlock
           \/ \E ticks \in Waits : TaskWait(ticks)
           \/ UNCHANGED vars
    PROVE  Serves
<1>0. now \in Int /\ start \in Int /\ slice \in [Tasks \cup {Idle} -> Int] /\ run \in Tasks \cup {Idle}
  BY DEF Setup, TickType
<1>1. UNCHANGED <<now, hw, resp, at, run, start>>
  BY DEF IntLock, IntRestore, TaskYield, TaskLock, TaskUnlock, TaskWait, timeVars, vars
<1>2. slice' = slice \/ (run # Idle /\ ~pendsv /\ slice' = [slice EXCEPT ![run] = 0])
  BY DEF IntLock, IntRestore, TaskYield, TaskLock, TaskUnlock, TaskWait, vars
<1>3. Rest => pendsv' /\ mask' = 0
  <2>1. Rest => pendsv /\ mask = 0
    BY DEF Rest
  <2>2. IntLock \/ TaskYield \/ TaskLock \/ (\E ticks \in Waits : TaskWait(ticks)) => ~pendsv
    BY DEF IntLock, TaskYield, TaskLock, TaskWait
  <2>3. IntRestore => mask # 0
    <3>1. mask > 0 => mask # 0
      BY Consts DEF Setup, TickType
    <3> QED BY <3>1 DEF IntRestore
  <2>4. TaskUnlock => pendsv' /\ mask' = mask
    BY DEF TaskUnlock
  <2>5. UNCHANGED vars => pendsv' = pendsv /\ mask' = mask
    BY DEF vars
  <2> QED BY <2>1, <2>2, <2>3, <2>4, <2>5
<1>4. Rest => Rest'
  BY <1>1, <1>3 DEF Rest
<1>5. (Near(at))' /\ ArmInv'
  BY <1>1 DEF Setup, Near, Nodes, ArmInv, Ends
<1>6. SliceOK' /\ (run # Idle => SliceEnd' >= SliceEnd /\ SliceEnd' \in Int /\ SliceEnd \in Int)
  <2>1. run # Idle => SliceEnd \in Int /\ SliceEnd <= start + Slice
    <3>1. ASSUME run # Idle PROVE SliceEnd \in Int /\ SliceEnd <= start + Slice
      <4>1. slice[run] \in Int /\ slice[run] <= Slice
        BY <1>0, <3>1 DEF Setup, SliceOK
      <4>2. PICK q \in Int : q = Quantum(slice[run]) /\ q <= Slice
        BY <4>1, QuantumIs
      <4>3. SliceEnd = start + q
        BY <4>2 DEF SliceEnd, Quantum
      <4> QED BY <1>0, <4>2, <4>3, Consts
    <3> QED BY <3>1
  <2>2. CASE slice' = slice
    <3>1. SliceEnd' = SliceEnd /\ SliceOK'
      BY <1>1, <2>2 DEF SliceEnd, Setup, SliceOK
    <3> QED BY <2>1, <3>1
  <2>3. CASE run # Idle /\ slice' = [slice EXCEPT ![run] = 0]
    <3>1. slice'[run] = 0 /\ \A t \in Tasks : t # run => slice'[t] = slice[t]
      BY <1>0, <2>3
    <3>2. SliceEnd' = start + Slice
      BY <1>1, <3>1, Consts DEF SliceEnd
    <3>3. SliceOK'
      BY <1>1, <3>1, Consts DEF Setup, SliceOK
    <3> QED BY <1>0, <2>1, <3>2, <3>3, Consts
  <2> QED BY <1>2, <2>2, <2>3
<1>7. SliceInv'
  <2>1. (Due(hw))' = Due(hw) /\ Due(hw) \in Int
    BY <1>1 DEF Due, Ends, Setup, TickType
  <2>2. MinPeriod \in Nat /\ Precision \in Nat
    BY Consts
  <2>3. ASSUME run # Idle, ~Rest PROVE Due(hw) < SliceEnd' + MinPeriod + Precision
    BY <1>6, <2>1, <2>2, <2>3 DEF SliceInv
  <2> QED BY <1>1, <1>4, <2>1, <2>3 DEF SliceInv
<1>8. ASSUME TimeoutInv PROVE TimeoutInv'
  <2>1. CASE AllSafe(hw, resp, at)
    BY <1>1, <2>1, NextSafe
  <2>2. CASE Rest /\ AllSpare(at)
    <3>1. (AllSpare(at))'
      BY <1>1, <2>2 DEF AllSpare, Spare, Reserve, Rivals, Lateness, Nodes
    <3> QED BY <1>4, <2>2, <3>1 DEF TimeoutInv
  <2> QED BY <1>8, <2>1, <2>2 DEF TimeoutInv
<1> QED BY <1>5, <1>6, <1>7, <1>8 DEF Serves

LEMMA WakeServes ==
    ASSUME Brief, Setup, SliceInv, NEW t \in Tasks, TaskWake(t)
    PROVE  Serves
<1>0. /\ now \in Int /\ start \in Int /\ slice \in [Tasks \cup {Idle} -> Int] /\ run \in Tasks \cup {Idle}
      /\ at \in [Nodes -> Int] /\ t \in Nodes
  BY DEF Setup, TickType, Nodes
<1>1. ~hw.pend
  BY NotPending DEF TaskWake
<1>2. PICK k : /\ k = Kernel /\ Sound(k, run) /\ k.at = at /\ k.hw = hw /\ k.resp = resp
  BY <1>1, KernelSound
<1>3. PICK q : q = OsDeleteSortLink(k, t)
  OBVIOUS
<1>4. Sound(q, run)
  BY <1>0, <1>2, <1>3, DeleteSound
<1>5. /\ KernelType(q) /\ q.hw = k.hw /\ q.at[t] = Never
      /\ q.resp.time = IF k.at[t] # Never /\ k.at[t] <= k.resp.time THEN Never ELSE k.resp.time
      /\ \A m \in Nodes : m # t => q.at[m] = k.at[m]
  BY <1>0, <1>2, <1>3, DeleteIs DEF Sound, Fine
<1>6. PICK r : r = [q EXCEPT !.clk = clk]
  OBVIOUS
<1>7. r = [clk |-> clk, hw |-> q.hw, resp |-> q.resp, at |-> q.at, links |-> q.links]
  BY <1>5, <1>6 DEF KernelType
<1>8. r.hw = q.hw /\ r.resp = q.resp /\ r.at = q.at
  BY <1>7
<1>9. Becomes(r) /\ slice' = Refilled(slice, {t}) /\ pendsv' = (pendsv \/ ~locked) /\ at[t] # Never
      /\ UNCHANGED <<now, run, start, wait, locked, mask>>
  BY <1>2, <1>3, <1>6 DEF TaskWake
<1>10. hw' = hw /\ resp' = q.resp /\ at' = q.at
  BY <1>2, <1>5, <1>8, <1>9 DEF Becomes
<1>11. Rest => Rest'
  <2>1. Rest => pendsv'
    BY <1>9 DEF Rest
  <2>2. resp.time = Never => q.resp.time = Never
    BY <1>2, <1>5
  <2> QED BY <1>9, <1>10, <2>1, <2>2 DEF Rest
<1>12. (Near(at))' /\ ArmInv'
  <2>1. (Near(at))'
    BY <1>4, <1>10 DEF Sound, Near, Nodes
  <2>2. /\ q.resp.time # Never => q.resp.time = hw.at + hw.load
        /\ q.resp.time # Never /\ q.resp.id # "TIMER" => q.resp.id = run /\ run \in Tasks
    BY <1>2, <1>4, <1>5 DEF Sound, Armed, IdFor, Ends
  <2>3. run' = run
    BY <1>9
  <2>4. ArmInv'
    BY <1>10, <2>2, <2>3 DEF ArmInv, Ends
  <2> QED BY <2>1, <2>4
<1>13. t # run
  BY <1>9, TickAssumption DEF Setup, LinkInv
<1>14. SliceOK'
  <2>1. start <= now /\ \A u \in Tasks : slice[u] <= Slice /\ (at[u] = Never /\ u # run => slice[u] > SliceMin)
    BY DEF Setup, SliceOK
  <2>2. ASSUME NEW u \in Tasks
        PROVE  slice'[u] <= Slice /\ (at'[u] = Never /\ u # run => slice'[u] > SliceMin)
    <3>1. PICK v \in Int : v = slice[u] /\ v <= Slice
      BY <1>0, <2>1
    <3>2. slice'[u] = IF u = t /\ v <= SliceMin THEN Slice ELSE v
      BY <1>0, <1>9, <3>1 DEF Refilled
    <3>3. CASE u = t
      BY <3>1, <3>2, <3>3, Consts, TickAssumption
    <3>4. CASE u # t
      <4>1. at'[u] = at[u] /\ slice'[u] = v
        BY <1>2, <1>5, <1>10, <3>2, <3>4 DEF Nodes
      <4> QED BY <2>1, <3>1, <4>1
    <3> QED BY <3>3, <3>4
  <2> QED BY <1>9, <2>1, <2>2 DEF SliceOK
<1>15. SliceInv'
  <2>1. slice'[run] = slice[run]
    BY <1>0, <1>9, <1>13 DEF Refilled
  <2>2. SliceEnd' = SliceEnd
    BY <1>9, <2>1 DEF SliceEnd
  <2>3. (Due(hw))' = Due(hw)
    BY <1>10 DEF Due, Ends
  <2> QED BY <1>9, <1>11, <2>2, <2>3 DEF SliceInv
<1>16. ASSUME TimeoutInv PROVE TimeoutInv'
  <2>1. CASE AllSafe(hw, resp, at)
    <3>1. AllSafe(q.hw, q.resp, q.at)
      BY <1>0, <1>2, <1>3, <2>1, DeleteSafe
    <3> QED BY <1>2, <1>5, <1>10, <3>1, NextSafe
  <2>2. CASE Rest /\ AllSpare(at)
    <3>1. AllSpare(q.at)
      BY <1>0, <1>2, <1>5, <2>2, DeleteSpare
    <3>2. (AllSpare(at))'
      BY <1>9, <1>10, <3>1 DEF AllSpare, Spare, Reserve, Rivals, Lateness, Nodes
    <3> QED BY <1>11, <2>2, <3>2 DEF TimeoutInv
  <2> QED BY <1>16, <2>1, <2>2 DEF TimeoutInv
<1> QED BY <1>12, <1>14, <1>15, <1>16 DEF Serves

\* A slice that has not ended is one the tick can be armed for.
LEMMA CallSlice ==
    ASSUME Setup, ~CallsInOverrun, MayCall
    PROVE  \E end \in Int :
              /\ end = IF run = Idle THEN Never - Precision ELSE SliceEnd
              /\ SliceFor(run, end)
<1>1. now \in Int /\ run \in Tasks \cup {Idle}
  BY DEF Setup, TickType
<1>2. CASE run = Idle
  <2>1. Never - Precision \in Int
    BY Consts
  <2> QED BY <1>1, <1>2, <2>1 DEF SliceFor
<1>3. CASE run # Idle
  <2>1. SliceEnd \in Int /\ SliceEnd <= now + Slice
    BY <1>3, SliceEndIs DEF Setup
  <2>2. SliceEnd >= now
    BY <1>1, <1>3, <2>1 DEF MayCall, Overrun
  <2> QED BY <1>1, <1>3, <2>1, <2>2 DEF SliceFor
<1> QED BY <1>2, <1>3

\* What is left alone by the calls of timers.
LEMMA TimersServe ==
    ASSUME Brief, ~CallsInOverrun, Setup, FarAhead, MayCall, NEW k, Sound(k, run),
           \A t \in Tasks : k.at[t] = at[t], Roomy /\ TimeoutInv => Timely(k),
           UNCHANGED <<now, run, start, slice, wait, pendsv, locked, mask>>,
           Becomes(OsSchedUpdateExpireTime(k))
    PROVE  Serves
<1>1. PICK end \in Int : /\ end = IF run = Idle THEN Never - Precision ELSE SliceEnd
                         /\ SliceFor(run, end)
  BY CallSlice
<1>2. PICK r : r = OsSchedSetNextExpireTime(k, run, end)
  OBVIOUS
<1>3. Becomes(r)
  BY <1>1, <1>2 DEF OsSchedUpdateExpireTime
<1>4. run # Idle => k.at[run] = Never /\ end = SliceEnd'
  <2>1. run # Idle => run \in Tasks /\ at[run] = Never
    BY DEF Setup, TickType, LinkInv
  <2>2. SliceEnd' = SliceEnd
    BY DEF SliceEnd
  <2> QED BY <1>1, <2>1, <2>2
<1>5. SliceOK'
  <2>1. at' = r.at /\ r.at = k.at
    <3>1. TickType
      BY DEF Setup
    <3> QED BY <1>1, <1>2, <1>3, <3>1, ArmSound DEF Becomes
  <2> QED BY <2>1 DEF Setup, SliceOK
<1>6. run' = run /\ now' = now
  OBVIOUS
<1> QED BY <1>1, <1>2, <1>3, <1>4, <1>5, <1>6, ArmServes

LEMMA StopServes ==
    ASSUME Brief, ~CallsInOverrun, Setup, FarAhead, NEW s \in Timers, LOS_SwtmrStop(s)
    PROVE  Serves
<1>0. now \in Int /\ s \in Nodes /\ MayCall /\ \A t \in Tasks : t \in Nodes /\ t # s
  BY TickAssumption DEF Setup, TickType, Nodes, LOS_SwtmrStop
<1>1. ~hw.pend
  BY NotPending DEF LOS_SwtmrStop, MayCall
<1>2. PICK k : k = Kernel /\ Sound(k, run) /\ k.at = at /\ (TimeoutInv => Timely(k))
  BY <1>1, KernelSound
<1>3. PICK q : q = OsDeleteSortLink(k, s)
  OBVIOUS
<1>4. Sound(q, run) /\ (TimeoutInv => Timely(q))
  BY <1>0, <1>2, <1>3, DeleteSound, DeleteTimely
<1>5. \A t \in Tasks : q.at[t] = at[t]
  <2>1. \A m \in Nodes : m # s => q.at[m] = k.at[m]
    BY <1>0, <1>2, <1>3, DeleteIs DEF Sound, Fine
  <2> QED BY <1>0, <1>2, <2>1
<1>6. /\ Becomes(OsSchedUpdateExpireTime(q))
      /\ UNCHANGED <<now, run, start, slice, wait, pendsv, locked, mask>>
  BY <1>2, <1>3 DEF LOS_SwtmrStop
<1> QED BY <1>0, <1>4, <1>5, <1>6, TimersServe

LEMMA StartServes ==
    ASSUME Brief, ~CallsInOverrun, Setup, FarAhead, NEW s \in Timers, LOS_SwtmrStart(s)
    PROVE  Serves
<1>0. /\ TickType /\ now \in Int /\ s \in Nodes /\ MayCall /\ \A t \in Tasks : t \in Nodes /\ t # s
      /\ run # Idle => run \in Tasks /\ at[run] = Never
  BY TickAssumption DEF Setup, TickType, LinkInv, Nodes, LOS_SwtmrStart
<1>1. ~hw.pend
  BY NotPending DEF LOS_SwtmrStart, MayCall
<1>2. PICK k : k = Kernel /\ Sound(k, run) /\ k.at = at /\ (TimeoutInv => Timely(k))
  BY <1>1, KernelSound
<1>3. PICK stopped : stopped = IF at[s] = Never THEN k
                               ELSE OsSchedUpdateExpireTime(OsDeleteSortLink(k, s))
  OBVIOUS
<1>4. /\ Sound(stopped, run) /\ stopped.at[s] = Never /\ \A t \in Tasks : stopped.at[t] = at[t]
      /\ TimeoutInv => Timely(stopped)
  <2>1. CASE at[s] = Never
    BY <1>2, <1>3, <2>1
  <2>2. CASE at[s] # Never
    <3>1. PICK q : q = OsDeleteSortLink(k, s)
      OBVIOUS
    <3>2. Sound(q, run) /\ (TimeoutInv => Timely(q))
      BY <1>0, <1>2, <3>1, DeleteSound, DeleteTimely
    <3>3. q.at[s] = Never /\ \A t \in Tasks : q.at[t] = at[t]
      <4>1. q.at[s] = Never /\ \A m \in Nodes : m # s => q.at[m] = k.at[m]
        BY <1>0, <1>2, <3>1, DeleteIs DEF Sound, Fine
      <4> QED BY <1>0, <1>2, <4>1
    <3>4. PICK end \in Int : /\ end = IF run = Idle THEN Never - Precision ELSE SliceEnd
                             /\ SliceFor(run, end)
      BY <1>0, CallSlice
    <3>5. stopped = OsSchedSetNextExpireTime(q, run, end)
      BY <1>3, <2>2, <3>1, <3>4 DEF OsSchedUpdateExpireTime
    <3>6. /\ Sound(stopped, run) /\ stopped.at = q.at /\ stopped.resp.time # Never
          /\ Kept(stopped, q) \/ Reloaded(stopped, q, run)
      BY <1>0, <3>2, <3>4, <3>5, ArmSound
    <3>7. ASSUME TimeoutInv PROVE Timely(stopped)
      <4>1. Timely(q)
        BY <3>2, <3>7
      <4>2. run # Idle => q.at[run] = Never
        BY <1>0, <3>3
      <4>3. AllSafe(stopped.hw, stopped.resp, stopped.at)
        BY <1>0, <3>2, <3>6, <4>1, <4>2, ArmTimely
      <4> QED BY <1>0, <3>6, <4>3, SafeTimely
    <3> QED BY <3>3, <3>6, <3>7
  <2> QED BY <2>1, <2>2
<1>5. PICK x \in LinkTypes : x = "SWTMR" /\ s \in KindOf(x)
  BY DEF LinkTypes, KindOf
<1>6. PICK w \in Nat \ {0} : w = Interval[s] /\ now + w * CyclesPerTick + Precision < Never
  BY TickAssumption DEF FarAhead
<1>7. PICK q : q = OsAdd2SortLink(stopped, s, now, w, x)
  OBVIOUS
<1>8. Sound(q, run)
  <2>1. s \in KindOf(x) /\ stopped.at[s] = Never
    BY <1>4, <1>5
  <2> QED BY <1>0, <1>4, <1>6, <1>7, <2>1, AddSound
<1>9. ASSUME Roomy, TimeoutInv PROVE Timely(q)
  <2>1. s \in KindOf(x) /\ stopped.at[s] = Never /\ Timely(stopped)
    BY <1>4, <1>5, <1>9
  <2> QED BY <1>0, <1>4, <1>7, <1>9, <2>1, AddTimely
<1>10. \A t \in Tasks : q.at[t] = at[t]
  <2>1. KernelType(stopped) /\ s \in KindOf(x)
    BY <1>4, <1>5 DEF Sound, Fine
  <2>2. \A m \in Nodes : m # s => q.at[m] = stopped.at[m]
    BY <1>0, <1>7, <2>1, AddIs
  <2> QED BY <1>0, <1>4, <2>2
<1>11. stopped.clk.old = now
  BY <1>4 DEF Sound, Fine
<1>12. /\ Becomes(OsSchedUpdateExpireTime(q))
       /\ UNCHANGED <<now, run, start, slice, wait, pendsv, locked, mask>>
  BY <1>2, <1>3, <1>5, <1>6, <1>7, <1>11 DEF LOS_SwtmrStart
<1>13. Roomy /\ TimeoutInv => Timely(q)
  BY <1>9
<1> QED BY <1>0, <1>8, <1>10, <1>12, <1>13, TimersServe

\* What is left of the slices after OsTimeSliceUpdate.
LEMMA LeftIs ==
    ASSUME Setup, NEW left, left = OsTimeSliceUpdate(now)
    PROVE  /\ left \in [Tasks \cup {Idle} -> Int]
           /\ \A t \in Tasks : left[t] <= Slice /\ (at[t] = Never /\ t # run => left[t] > SliceMin)
<1>0. /\ now \in Int /\ start \in Int /\ start <= now /\ slice \in [Tasks \cup {Idle} -> Int]
      /\ run \in Tasks \cup {Idle} /\ TickType
      /\ \A t \in Tasks : slice[t] <= Slice /\ (at[t] = Never /\ t # run => slice[t] > SliceMin)
  BY DEF Setup, TickType, SliceOK
<1>1. left \in [Tasks \cup {Idle} -> Int]
  BY <1>0, SliceUpdateIs
<1>2. \A t \in Tasks : left[t] = IF t = run /\ run # Idle THEN slice[t] - (now - start) ELSE slice[t]
  BY <1>0 DEF OsTimeSliceUpdate
<1>3. ASSUME NEW t \in Tasks PROVE left[t] <= Slice
  <2>1. PICK v \in Int : v = slice[t] /\ v <= Slice
    BY <1>0
  <2>2. left[t] = v \/ left[t] = v - (now - start)
    BY <1>2, <2>1
  <2> QED BY <1>0, <2>1, <2>2, Consts
<1> QED BY <1>0, <1>1, <1>2, <1>3

LEMMA SwitchServes ==
    ASSUME Brief, Setup, FarAhead, OsSchedTaskSwitch
    PROVE  Serves
<1>0. /\ TickType /\ now \in Int /\ run \in Tasks \cup {Idle} /\ Idle \notin Tasks
      /\ run # Idle => at[run] = Never
      /\ wait \in Waits \cup {0} /\ (run = Idle => wait = 0)
  BY TickAssumption DEF Setup, TickType, LinkInv
<1>1. ~hw.pend
  BY DEF OsSchedTaskSwitch
<1>2. PICK k : /\ k = Kernel /\ Sound(k, run) /\ k.at = at /\ k.resp = resp
               /\ TimeoutInv => Timely(k)
  BY <1>1, KernelSound
<1>3. k.clk.old = now
  BY <1>2 DEF Sound, Fine
<1>4. PICK left \in [Tasks \cup {Idle} -> Int] :
        /\ left = OsTimeSliceUpdate(now)
        /\ \A t \in Tasks : left[t] <= Slice /\ (at[t] = Never /\ t # run => left[t] > SliceMin)
  BY LeftIs
<1>5. PICK full \in [Tasks \cup {Idle} -> Int] :
        full = Refilled(left, IF wait = 0 THEN {run} \ {Idle} ELSE {})
  BY RefilledIs
<1>6. \A t \in Tasks : full[t] = IF wait = 0 /\ t = run /\ left[t] <= SliceMin THEN Slice ELSE left[t]
  BY <1>0, <1>4, <1>5 DEF Refilled
<1>7. PICK k1 : k1 = IF wait > 0 THEN OsAdd2SortLink(k, run, now, wait, "TASK") ELSE k
  OBVIOUS
<1>8. /\ Sound(k1, run) /\ k1.resp = resp
      /\ wait = 0 => k1.at = at
      /\ wait # 0 => k1.at[run] # Never
      /\ \A m \in Tasks : m # run => k1.at[m] = at[m]
      /\ Roomy /\ TimeoutInv => Timely(k1)
  <2>1. CASE wait = 0
    BY <1>2, <1>7, <2>1
  <2>2. CASE wait # 0
    <3>1. PICK w \in Nat \ {0} : w = wait /\ w \in Waits
      BY <1>0, <2>2, TickAssumption
    <3>2. PICK t \in Tasks : t = run /\ run # Idle /\ k.at[t] = Never
      BY <1>0, <1>2, <2>2
    <3>3. PICK x \in LinkTypes : x = "TASK" /\ t \in KindOf(x)
      BY DEF LinkTypes, KindOf
    <3>4. k1 = OsAdd2SortLink(k, t, now, w, x)
      BY <1>7, <3>1, <3>2, <3>3
    <3>5. KernelType(k) /\ t \in KindOf(x) /\ k.at[t] = Never
      BY <1>2, <3>2, <3>3 DEF Sound, Fine
    <3>6. now + w * CyclesPerTick + Precision < Never
      BY <3>1 DEF FarAhead
    <3>7. Sound(k1, run)
      BY <1>0, <1>2, <3>4, <3>5, <3>6, AddSound
    <3>8. /\ SameClock(k1, k) /\ k1.at[t] = now + w * CyclesPerTick
          /\ \A m \in Nodes : m # t => k1.at[m] = k.at[m]
      BY <1>0, <3>4, <3>5, AddIs
    <3>9. k1.at[t] # Never
      <4>1. PICK c \in Nat : c = w * CyclesPerTick
        BY Ticks
      <4>2. now + c < Never
        BY <1>0, <3>6, <4>1, Consts
      <4> QED BY <1>0, <3>8, <4>1, <4>2, Consts
    <3>10. ASSUME Roomy, TimeoutInv PROVE Timely(k1)
      <4>1. Timely(k)
        BY <1>2, <3>10
      <4> QED BY <1>0, <1>2, <3>4, <3>5, <3>10, <4>1, AddTimely
    <3>11. k1.resp = resp /\ \A m \in Tasks : m # run => k1.at[m] = at[m]
      BY <1>2, <3>2, <3>8 DEF SameClock, Nodes
    <3> QED BY <2>2, <3>2, <3>7, <3>9, <3>10, <3>11
  <2> QED BY <2>1, <2>2
<1>9. PICK k2 : k2 = [k1 EXCEPT !.resp.time = IF resp.id = run THEN Never ELSE @]
  OBVIOUS
<1>10. /\ Fine(k2) /\ k2.at = k1.at /\ k2.links = k1.links /\ k2.hw = k1.hw /\ k2.resp.id = resp.id
       /\ k2.resp.time = IF resp.id = run THEN Never ELSE resp.time
  <2>1. KernelType(k1) /\ k1.resp.time \in Int /\ k1.resp = resp
    BY <1>8 DEF Sound, Fine, KernelType
  <2>2. PICK v \in Int : v = IF resp.id = run THEN Never ELSE resp.time
    BY <2>1, Consts
  <2>3. k2 = [k1 EXCEPT !.resp.time = v]
    BY <1>9, <2>1, <2>2
  <2>4. /\ KernelType(k2) /\ k2.clk = k1.clk /\ k2.hw = k1.hw /\ k2.at = k1.at /\ k2.links = k1.links
        /\ k2.resp.time = v /\ k2.resp.id = k1.resp.id
    BY <2>1, <2>3, ResponseIs
  <2>5. Fine(k2)
    BY <1>8, <2>4 DEF Sound, Fine
  <2> QED BY <2>1, <2>2, <2>4, <2>5
<1>11. \A id : Sound(k2, id)
  <2>1. Linked(k2.at, k2.links) /\ Near(k2.at)
    BY <1>8, <1>10 DEF Sound
  <2>2. Armed(k2)
    <3>1. resp.time # Never => resp.time = Ends(k1.hw)
      BY <1>8 DEF Sound, Armed
    <3> QED BY <1>10, <3>1 DEF Armed
  <2>3. k2.resp.time # Never => k2.resp.id = "TIMER"
    <3>1. resp.time # Never /\ resp.id # "TIMER" => resp.id = run
      BY <1>8 DEF Sound, IdFor
    <3> QED BY <1>10, <3>1
  <2> QED BY <1>10, <2>1, <2>2, <2>3 DEF Sound, IdFor
<1>12. ASSUME Roomy, TimeoutInv PROVE Timely(k2)
  <2>0. Timely(k1)
    BY <1>8, <1>12
  <2>1. CASE resp.id = run
    <3>1. k1.resp.id # "TIMER"
      BY <1>0, <1>8, <2>1, TickAssumption
    <3>2. k2 = [k1 EXCEPT !.resp.time = Never]
      BY <1>9, <2>1
    <3> QED BY <1>0, <1>8, <2>0, <3>1, <3>2, DisarmTimely
  <2>2. CASE resp.id # run
    <3>1. k2.resp.time = k1.resp.time /\ k2.resp.id = k1.resp.id
      BY <1>8, <1>10, <2>2
    <3>2. Credit(k2.resp) = Credit(k1.resp)
      BY <3>1 DEF Credit
    <3> QED BY <1>10, <2>0, <3>1, <3>2 DEF Timely, Safe
  <2> QED BY <2>1, <2>2
<1> DEFINE ready == Ready \cup (IF wait = 0 THEN {run} \ {Idle} ELSE {})
<1>13. PICK new \in IF ready = {} THEN {Idle} ELSE ready :
        /\ run' = new /\ start' = now /\ slice' = full
        /\ Becomes(OsSchedSetNextExpireTime(k2, new,
                      IF new = Idle THEN Never - Precision ELSE now + full[new]))
  BY <1>2, <1>3, <1>4, <1>5, <1>7, <1>9 DEF OsSchedTaskSwitch
<1>14. new \in Tasks \cup {Idle} /\ (new # Idle => new \in ready)
  BY <1>0, <1>13 DEF Ready
<1>15. ASSUME new # Idle
       PROVE  /\ k2.at[new] = Never /\ full[new] \in Int /\ full[new] > SliceMin /\ full[new] <= Slice
  <2>1. CASE new \in Ready
    <3>1. new \in Tasks /\ at[new] = Never /\ new # run
      BY <2>1 DEF Ready
    <3> QED BY <1>4, <1>6, <1>8, <1>10, <3>1
  <2>2. CASE new \notin Ready
    <3>1. new = run /\ wait = 0 /\ new \in Tasks
      BY <1>0, <1>14, <1>15, <2>2
    <3>2. at[new] = Never
      BY <1>0, <1>15, <3>1
    <3>3. full[new] = IF left[new] <= SliceMin THEN Slice ELSE left[new]
      BY <1>6, <3>1
    <3>4. full[new] > SliceMin /\ full[new] <= Slice
      BY <1>4, <3>1, <3>3, Consts, TickAssumption
    <3> QED BY <1>8, <1>10, <3>1, <3>2, <3>4
  <2> QED BY <2>1, <2>2
<1>16. PICK end \in Int : end = IF new = Idle THEN Never - Precision ELSE now + full[new]
  <2>1. Never - Precision \in Int
    BY Consts
  <2>2. new # Idle => now + full[new] \in Int
    BY <1>0, <1>15
  <2> QED BY <2>1, <2>2
<1>17. PICK r : r = OsSchedSetNextExpireTime(k2, new, end)
  OBVIOUS
<1>18. Becomes(r) /\ now' = now
  BY <1>13, <1>16, <1>17 DEF OsSchedTaskSwitch
<1>19. SliceFor(new, end)
  <2>1. new # Idle => end >= now /\ end <= now + Slice
    BY <1>0, <1>15, <1>16, Consts
  <2> QED BY <1>14, <1>16, <2>1 DEF SliceFor
<1>20. new # Idle => k2.at[new] = Never /\ end = SliceEnd'
  <2>1. ASSUME new # Idle PROVE end = SliceEnd'
    <3>1. ~(full[new] <= SliceMin)
      BY <1>15, <2>1, Consts
    <3>2. SliceEnd' = now + full[new]
      BY <1>13, <3>1 DEF SliceEnd
    <3> QED BY <1>16, <2>1, <3>2
  <2> QED BY <1>15, <2>1
<1>21. SliceOK'
  <2>1. at' = k1.at
    <3>1. Sound(k2, new)
      BY <1>11
    <3>2. r.at = k2.at
      BY <1>0, <1>16, <1>17, <1>19, <3>1, ArmSound
    <3> QED BY <1>10, <1>18, <3>2 DEF Becomes
  <2>2. ASSUME NEW t \in Tasks
        PROVE  slice'[t] <= Slice /\ (at'[t] = Never /\ t # new => slice'[t] > SliceMin)
    <3>1. slice'[t] = IF wait = 0 /\ t = run /\ left[t] <= SliceMin THEN Slice ELSE left[t]
      BY <1>6, <1>13
    <3>2. left[t] \in Int /\ left[t] <= Slice /\ (at[t] = Never /\ t # run => left[t] > SliceMin)
      BY <1>4
    <3>3. slice'[t] <= Slice
      BY <3>1, <3>2, Consts
    <3>4. ASSUME at'[t] = Never PROVE slice'[t] > SliceMin
      <4>1. CASE t = run
        <5>1. wait = 0
          BY <1>8, <2>1, <3>4, <4>1
        <5> QED BY <3>1, <3>2, <4>1, <5>1, Consts, TickAssumption
      <4>2. CASE t # run
        <5>1. at[t] = Never
          BY <1>8, <2>1, <3>4, <4>2
        <5> QED BY <3>1, <3>2, <4>2, <5>1
      <4> QED BY <4>1, <4>2
    <3> QED BY <3>3, <3>4
  <2>3. start' <= now'
    BY <1>0, <1>13, <1>18
  <2> QED BY <1>13, <2>2, <2>3 DEF SliceOK
<1>22. Sound(k2, new) /\ new = run' /\ (Roomy /\ TimeoutInv => Timely(k2))
  BY <1>11, <1>12, <1>13
<1> QED BY <1>16, <1>17, <1>18, <1>19, <1>20, <1>21, <1>22, ArmServes

LEMMA TickServes ==
    ASSUME Brief, Setup, FarAhead, OsTickHandler
    PROVE  Serves
<1>0. /\ TickType /\ ClockInv /\ now \in Int /\ hw.pend /\ mask = 0 /\ at \in [Nodes -> Int]
      /\ run \in Tasks \cup {Idle} /\ (run # Idle => run \in Tasks /\ at[run] = Never) /\ Linked(at, links)
  BY TickAssumption DEF Setup, TickType, LinkInv, OsTickHandler
<1>1. PICK c : c = LOS_SysCycleGet(OsUpdateSysTimeBase(clk))
  OBVIOUS
<1>2. PICK k0 : k0 = [Kernel EXCEPT !.clk = c, !.hw.pend = FALSE]
  OBVIOUS
<1>3. /\ Fine(k0) /\ k0.at = at /\ k0.links = links /\ k0.resp = resp /\ c.old = now
      /\ now <= hw.at + MaskMax
  BY <1>0, <1>1, <1>2, TickKernel
<1>4. KernelType(k0) /\ k0.clk.old = now
  BY <1>3 DEF Fine
<1>5. PICK k1 : k1 = IF Scans THEN Scanned(k0) ELSE k0
  OBVIOUS
<1>6. /\ Fine(k1) /\ Linked(k1.at, k1.links) /\ Near(k1.at)
      /\ \A t \in Tasks : k1.at[t] \in {Never, at[t]}
      /\ TimeoutInv => AllSpare(k1.at)
  <2>1. CASE Scans
    <3>1. k1 = Scanned(k0) /\ FarFromEnd
      BY <1>0, <1>5, <2>1, FarAheadIs
    <3>2. /\ KernelType(k1) /\ SameClock(k1, k0)
          /\ \A t \in Tasks : k1.at[t] \in {Never, k0.at[t]}
          /\ Linked(k0.at, k0.links) /\ FarFromEnd /\ k0.clk.old = now => Linked(k1.at, k1.links)
          /\ Linked(k0.at, k0.links) => \A m \in Nodes : Ahead(k1, m, k0.clk.old)
      BY <1>3, <1>4, <3>1, ScannedIs
    <3>3. Linked(k1.at, k1.links) /\ \A m \in Nodes : Ahead(k1, m, now)
      BY <1>0, <1>3, <1>4, <3>1, <3>2
    <3>4. Fine(k1)
      BY <1>3, <3>2 DEF Fine, SameClock
    <3>5. k1.at \in [Nodes -> Int]
      BY <3>2 DEF KernelType
    <3>6. ASSUME NEW m \in Nodes, k1.at[m] # Never PROVE k1.at[m] + Precision < Never
      <4>1. k1.at[m] = at[m] \/ (m \in Timers /\ k1.at[m] <= now + Interval[m] * CyclesPerTick)
        BY <3>3, <3>6 DEF Ahead
      <4>2. CASE k1.at[m] = at[m]
        BY <3>6, <4>2 DEF Setup, Near
      <4>3. CASE m \in Timers /\ k1.at[m] <= now + Interval[m] * CyclesPerTick
        <5>1. PICK i \in Nat : i = Interval[m] * CyclesPerTick /\ now + i + Precision < Never
          BY <4>3, Ticks, TickAssumption DEF FarAhead
        <5> QED BY <1>0, <3>5, <4>3, <5>1, Consts
      <4> QED BY <4>1, <4>2, <4>3
    <3>7. ASSUME NEW m \in Nodes, k1.at[m] # Never PROVE Spare(k1.at, m)
      <4>1. k1.at[m] > now /\ k1.at[m] \in Int
        BY <3>3, <3>5, <3>7 DEF Ahead
      <4>2. now < k1.at[m] + Precision
        BY <1>0, <4>1, Consts
      <4> QED BY <1>0, <3>5, <4>2, EarlySpare
    <3> QED BY <1>3, <3>2, <3>3, <3>4, <3>6, <3>7 DEF Near, AllSpare
  <2>2. CASE ~Scans
    <3>1. k1 = k0 /\ resp.id # "TIMER"
      BY <1>5, <2>2 DEF Scans
    <3>2. ASSUME TimeoutInv, NEW n \in Nodes, at[n] # Never PROVE Spare(at, n)
      <4>1. Safe(hw, resp, at, n)
        BY <1>0, <3>2 DEF TimeoutInv, Rest, AllSafe
      <4>2. PICK a \in Int : a = at[n]
        BY <1>0
      <4>3. PICK b \in Nat : b = Reserve(at, n)
        BY ReserveIs
      <4>4. PICK d \in Int : d = Due(hw) /\ d = hw.at
        BY <1>0 DEF Due, TickType
      <4>5. Lateness \in Nat /\ Precision \in Nat /\ MaskMax \in Nat
        BY ReserveIs, Consts
      <4>6. d + b + (Precision + 2 * MaskMax) < a + Lateness
        BY <3>1, <4>1, <4>2, <4>3, <4>4 DEF Safe, Credit
      <4>7. now + b + Precision + MaskMax < a + Lateness
        BY <1>0, <1>3, <4>4, <4>5, <4>6
      <4> QED BY <4>2, <4>3, <4>7 DEF Spare
    <3> QED BY <1>0, <1>3, <3>1, <3>2 DEF Setup, AllSpare
  <2> QED BY <2>1, <2>2
<1>7. PICK k2 : k2 = [k1 EXCEPT !.resp.time = Never]
  OBVIOUS
<1>8. Fine(k2) /\ k2.at = k1.at /\ k2.links = k1.links /\ k2.resp.time = Never
  <2>1. KernelType(k1)
    BY <1>6 DEF Fine
  <2>2. PICK v \in Int : v = Never
    BY Consts
  <2>3. k2 = [k1 EXCEPT !.resp.time = v]
    BY <1>7, <2>2
  <2>4. /\ KernelType(k2) /\ k2.clk = k1.clk /\ k2.hw = k1.hw /\ k2.at = k1.at /\ k2.links = k1.links
        /\ k2.resp.time = v
    BY <2>1, <2>3, ResponseIs
  <2> QED BY <1>6, <2>2, <2>4 DEF Fine
<1>9. Sound(k2, run)
  BY <1>6, <1>8, UnarmedSound
<1>10. PICK left \in [Tasks \cup {Idle} -> Int] :
         /\ left = OsTimeSliceUpdate(now)
         /\ \A t \in Tasks : left[t] <= Slice /\ (at[t] = Never /\ t # run => left[t] > SliceMin)
  BY LeftIs
<1>11. PICK q \in Int : q = Quantum(left[run]) /\ (run # Idle => q >= 0 /\ q <= Slice)
  <2>1. left[run] \in Int
    BY <1>0
  <2>2. Quantum(left[run]) \in Int
    BY <2>1, Consts DEF Quantum
  <2>3. run # Idle => left[run] <= Slice
    BY <1>0, <1>10
  <2> QED BY <2>1, <2>2, <2>3, QuantumIs
<1>12. PICK end \in Int : end = IF run = Idle THEN Never - Precision ELSE now + q
  <2>1. Never - Precision \in Int /\ now + q \in Int
    BY <1>0, Consts
  <2> QED BY <2>1
<1>13. PICK W : W = {t \in Tasks : at[t] # Never /\ k2.at[t] = Never}
  OBVIOUS
<1>14. /\ slice' = Refilled(left, W) /\ start' = now
       /\ IF locked THEN Becomes(OsSchedSetNextExpireTime(k2, run, end)) /\ UNCHANGED pendsv
                    ELSE Becomes(k2) /\ pendsv' = TRUE
       /\ UNCHANGED <<now, run, wait, locked, mask>>
  BY <1>1, <1>2, <1>3, <1>5, <1>7, <1>10, <1>11, <1>12, <1>13 DEF OsTickHandler, Quantum
<1>15. \A t \in Tasks : slice'[t] = IF t \in W /\ left[t] <= SliceMin THEN Slice ELSE left[t]
  BY <1>14 DEF Refilled
<1>16. SliceFor(run, end)
  <2>1. run # Idle => end >= now /\ end <= now + Slice
    BY <1>0, <1>11, <1>12, Consts
  <2> QED BY <1>0, <1>12, <2>1 DEF SliceFor
<1>17. run # Idle => k2.at[run] = Never /\ end = SliceEnd'
  <2>1. ASSUME run # Idle PROVE k2.at[run] = Never /\ end = SliceEnd'
    <3>1. run \in Tasks /\ at[run] = Never /\ run \notin W
      BY <1>0, <1>13, <2>1
    <3>2. k2.at[run] = Never
      BY <1>6, <1>8, <3>1
    <3>3. slice'[run] = left[run]
      BY <1>15, <3>1
    <3>4. SliceEnd' = now + q
      BY <1>11, <1>14, <3>3 DEF SliceEnd, Quantum
    <3> QED BY <1>12, <2>1, <3>2, <3>4
  <2> QED BY <2>1
<1>18. at' = k1.at
  <2>1. CASE locked
    <3>1. PICK r : r = OsSchedSetNextExpireTime(k2, run, end)
      OBVIOUS
    <3>2. r.at = k2.at
      BY <1>0, <1>9, <1>16, <3>1, ArmSound
    <3> QED BY <1>8, <1>14, <2>1, <3>1, <3>2 DEF Becomes
  <2>2. CASE ~locked
    BY <1>8, <1>14, <2>2 DEF Becomes
  <2> QED BY <2>1, <2>2
<1>19. SliceOK'
  <2>1. ASSUME NEW t \in Tasks
        PROVE  slice'[t] <= Slice /\ (at'[t] = Never /\ t # run => slice'[t] > SliceMin)
    <3>1. left[t] \in Int /\ left[t] <= Slice /\ (at[t] = Never /\ t # run => left[t] > SliceMin)
      BY <1>10
    <3>2. slice'[t] = IF t \in W /\ left[t] <= SliceMin THEN Slice ELSE left[t]
      BY <1>15
    <3>3. at'[t] = Never => at[t] = Never \/ t \in W
      BY <1>8, <1>13, <1>18
    <3> QED BY <3>1, <3>2, <3>3, Consts, TickAssumption
  <2> QED BY <1>0, <1>14, <2>1 DEF SliceOK
<1>20. CASE locked
  <2>1. PICK r : r = OsSchedSetNextExpireTime(k2, run, end)
    OBVIOUS
  <2>2. Becomes(r) /\ now' = now /\ run = run'
    BY <1>14, <1>20, <2>1
  <2>3. TimeoutInv => Timely(k2)
    BY <1>6, <1>8 DEF Timely, AllSpare
  <2>4. Roomy /\ TimeoutInv => Timely(k2)
    BY <2>3
  <2> QED BY <1>9, <1>16, <1>17, <1>19, <2>1, <2>2, <2>4, ArmServes
<1>21. CASE ~locked
  <2>1. hw' = k2.hw /\ resp' = k2.resp /\ at' = k2.at /\ pendsv' /\ now' = now /\ mask' = 0
    BY <1>0, <1>14, <1>21 DEF Becomes
  <2>2. ~hw'.pend /\ resp'.time = Never
    BY <1>8, <2>1 DEF Fine
  <2>3. Rest'
    BY <1>14, <2>1, <2>2 DEF Rest
  <2>4. (Near(at))'
    BY <1>6, <1>18 DEF Near, Nodes
  <2>5. ArmInv'
    BY <2>2 DEF ArmInv
  <2>6. SliceInv'
    BY <2>3 DEF SliceInv
  <2>7. ASSUME TimeoutInv PROVE TimeoutInv'
    <3>1. AllSpare(k1.at)
      BY <1>6, <2>7
    <3>2. (AllSpare(at))'
      BY <1>18, <2>1, <3>1 DEF AllSpare, Spare, Reserve, Rivals, Lateness, Nodes
    <3> QED BY <2>3, <3>2 DEF TimeoutInv
  <2> QED BY <1>19, <2>4, <2>5, <2>6, <2>7 DEF Serves
<1> QED BY <1>20, <1>21

LEMMA InitServes ==
    ASSUME Brief, TickInit
    PROVE  Setup /\ SliceInv /\ TimeoutInv
<1>0. TickType /\ ClockInv /\ LinkInv
  BY InitGood
<1>1. /\ Slice \in Nat /\ PeriodMax \in Nat /\ MinPeriod \in Nat /\ Precision \in Nat /\ Precision > 0
      /\ SliceMin < Slice /\ SliceMin \in Nat
  BY Consts, TickAssumption
<1>2. PICK load \in Int : load = Min({Slice, PeriodMax}) /\ load <= Slice
  <2>1. PICK a \in Int, b \in Int : a = Slice /\ b = PeriodMax
    BY <1>1
  <2>2. Min({a, b}) \in {a, b} /\ Min({a, b}) <= a
    BY TwoNumbers
  <2> QED BY <2>1, <2>2
<1>3. hw = [load |-> load, at |-> 0, pend |-> FALSE]
  BY <1>2 DEF TickInit, SysTickReload
<1>4. hw.load = load /\ hw.at = 0 /\ hw.pend = FALSE
  BY ONLY <1>3
<1>5. /\ now = 0 /\ run \in Tasks /\ start = 0 /\ slice = [t \in Tasks \cup {Idle} |-> Slice]
      /\ resp = [time |-> hw.load, id |-> run] /\ at = [n \in Nodes |-> Never]
  BY DEF TickInit
<1>6. resp.time = load /\ resp.id = run
  BY <1>4, <1>5
<1>7. Ends(hw) = load /\ Due(hw) = load
  BY <1>2, <1>4 DEF Ends, Due
<1>8. Near(at) /\ AllSafe(hw, resp, at)
  BY <1>5 DEF Near, AllSafe
<1>9. ArmInv
  BY <1>5, <1>6, <1>7 DEF ArmInv
<1>10. \A t \in Tasks : slice[t] = Slice
  BY <1>5
<1>11. SliceOK
  BY <1>1, <1>5, <1>10 DEF SliceOK
<1>12. SliceInv
  <2>1. SliceEnd = Slice
    BY <1>1, <1>5, <1>10 DEF SliceEnd
  <2> QED BY <1>1, <1>2, <1>7, <2>1 DEF SliceInv
<1> QED BY <1>0, <1>8, <1>9, <1>11, <1>12 DEF Setup, TimeoutInv

LEMMA StepServes ==
    ASSUME Brief, ~CallsInOverrun, FarAhead, Setup, SliceInv, [TickNext]_vars
    PROVE  Setup' /\ SliceInv' /\ (Roomy /\ TimeoutInv => TimeoutInv')
<1>1. Serves
  <2>1. CASE TimePasses
    BY <2>1, TimePassesServes
  <2>2. CASE OsTickHandler
    BY <2>2, TickServes
  <2>3. CASE OsSchedTaskSwitch
    BY <2>3, SwitchServes
  <2>4. CASE \E s \in Timers : LOS_SwtmrStart(s) \/ LOS_SwtmrStop(s)
    BY <2>4, StartServes, StopServes
  <2>5. CASE \E t \in Tasks : TaskWake(t)
    BY <2>5, WakeServes
  <2>6. CASE \/ IntLock \/ IntRestore \/ TaskYield \/ TaskLock \/ TaskUnlock
             \/ \E ticks \in Waits : TaskWait(ticks)
             \/ UNCHANGED vars
    BY <2>6, QuietServes
  <2> QED BY <2>1, <2>2, <2>3, <2>4, <2>5, <2>6 DEF TickNext
<1>2. TickType /\ ClockInv /\ LinkInv /\ FarFromEnd
  <2>1. now \in Int
    BY DEF Setup, TickType
  <2> QED BY <2>1, FarAheadIs DEF Setup
<1>3. TickType' /\ ClockInv' /\ LinkInv'
  BY <1>2, StepKeeps DEF Keeps
<1> QED BY <1>1, <1>3 DEF Serves, Setup

-----------------------------------------------------------------------------
\* No task runs much longer than its slice: the tick for its end is moved to a timeout
\* close to it by at most MinPeriod, kept by OsSchedSetNextExpireTime if it is at most Precision
\* too late, and delayed by at most MaskMax, if no timer is started while a slice overruns.
THEOREM SlicesAlwaysEnd ==
    Brief /\ ~CallsInOverrun => (TickSpec /\ []FarAhead => []SlicesEnd)
<1> SUFFICES ASSUME Brief, ~CallsInOverrun PROVE TickSpec /\ []FarAhead => []SlicesEnd
  OBVIOUS
<1>1. TickInit => Setup /\ SliceInv
  BY InitServes
<1>2. Setup /\ SliceInv /\ FarAhead /\ [TickNext]_vars => (Setup /\ SliceInv)'
  BY StepServes
<1>3. Setup /\ SliceInv => SlicesEnd
  BY SetupSlicesEnd
<1> QED BY <1>1, <1>2, <1>3, PTL DEF TickSpec

\* No timeout is handled later than the nodes that may disarm the tick before it account for,
\* whatever the tick is armed for when it is started and in whatever order timers are started
\* and stopped, tasks block and are woken, if a tick is longer than that (Roomy).
THEOREM TimeoutsAlwaysInTime ==
    Brief /\ ~CallsInOverrun /\ Roomy => (TickSpec /\ []FarAhead => []TimeoutsInTime)
<1> SUFFICES ASSUME Brief, ~CallsInOverrun, Roomy PROVE TickSpec /\ []FarAhead => []TimeoutsInTime
  OBVIOUS
<1>1. TickInit => Setup /\ SliceInv /\ TimeoutInv
  BY InitServes
<1>2. Setup /\ SliceInv /\ TimeoutInv /\ FarAhead /\ [TickNext]_vars
        => (Setup /\ SliceInv /\ TimeoutInv)'
  BY StepServes
<1>3. Setup /\ TimeoutInv => TimeoutsInTime
  BY InTime
<1> QED BY <1>1, <1>2, <1>3, PTL DEF TickSpec
=============================================================================
