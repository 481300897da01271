---------------------------- MODULE QueueProofs ----------------------------
(***************************************************************************)
(* A queue of any length and a mail pool of any size, used by any number   *)
(* of tasks and by interrupt handlers: every slot is counted once, nobody  *)
(* waits for what is there, a block is handed over before its waiter goes  *)
(* on, and los_queue.c implements the deque of module BoundedDeque.        *)
(*                                                                         *)
(* OsQueueOperate does not count the slot it gives to a task it wakes, so  *)
(* counters and ring agree only if the tasks on their way back from a wait *)
(* are counted as well: Total, on which the ring is expressed (Ring).  The *)
(* other parts of the inductive invariant are those of TaskProofs, with    *)
(* two more places to wait at, what a waiting task has asked for (Asked),  *)
(* and the membox with the blocks that are not in it (MailOK).             *)
(***************************************************************************)
EXTENDS Queue, TaskProofs

-----------------------------------------------------------------------------
(***************************************************************************)
(* The ring buffer.                                                        *)
(***************************************************************************)
RingType ==
    [used : BOOLEAN, len : 0..MaxLen, cnt : [Side -> 0..MaxLen], head : 0..MaxLen,
     tail : 0..MaxLen, buf : [0..(MaxLen - 1) -> Values \cup {NULL}]]

\* nr slots hold messages and nw are empty, whoever they are granted to.
Ring(qq, nr, nw) ==
    /\ nr \in Nat /\ nw \in Nat
    /\ ~qq.used => nr = 0 /\ nw = 0
    /\ qq.used => /\ qq.len > 0 /\ qq.head < qq.len /\ qq.tail < qq.len
                  /\ nr + nw = qq.len
                  /\ (qq.head + nr) % qq.len = qq.tail

\* The messages, from the head on.
Items(qq, n) == [i \in 1..n |-> qq.buf[(qq.head + i - 1) % qq.len]]

LEMMA ModLow ==
    ASSUME NEW n \in Nat \ {0}, NEW x \in Nat, x < n
    PROVE  x % n = x
  OBVIOUS

LEMMA ModHigh ==
    ASSUME NEW n \in Nat \ {0}, NEW x \in Nat, n <= x, x < 2 * n
    PROVE  x % n = x - n
<1> DEFINE y == x - n
<1>1. y \in Nat /\ y < n /\ x = y + n
  OBVIOUS
<1> HIDE DEF y
<1>2. (y + n) % n = y
  BY <1>1
<1> QED BY <1>1, <1>2 DEF y

\* The slot i places behind h in a ring of n.
LEMMA Slots ==
    ASSUME NEW n \in Nat \ {0}, NEW h \in Nat, h < n, NEW i \in Nat, i <= n
    PROVE  /\ (h + i) % n = IF h + i < n THEN h + i ELSE h + i - n
           /\ (h + i) % n \in 0..(n - 1)
<1> DEFINE x == h + i
<1>0. x \in Nat /\ x < 2 * n
  OBVIOUS
<1> HIDE DEF x
<1>1. CASE x < n
  BY <1>0, <1>1, ModLow DEF x
<1>2. CASE ~(x < n)
  <2>0. n <= x
    BY <1>0, <1>2
  <2>1. x % n = x - n
    BY <1>0, <2>0, ModHigh
  <2> QED BY <1>0, <1>2, <2>1 DEF x
<1> QED BY <1>1, <1>2

LEMMA ItemsType ==
    ASSUME NEW qq \in RingType, NEW nr, NEW nw, Ring(qq, nr, nw), qq.used
    PROVE  /\ Items(qq, nr) \in Seq(Values \cup {NULL}) /\ Len(Items(qq, nr)) = nr
           /\ \A i \in 1..nr : Items(qq, nr)[i] = qq.buf[(qq.head + i - 1) % qq.len]
<1>0. /\ qq.len \in Nat \ {0} /\ qq.head \in Nat /\ qq.head < qq.len /\ nr \in Nat /\ nr <= qq.len
      /\ qq.len <= MaxLen /\ MaxLen \in Nat
      /\ qq.buf \in [0..(MaxLen - 1) -> Values \cup {NULL}]
  BY QueueAssumption DEF RingType, Ring
<1>1. ASSUME NEW i \in 1..nr PROVE qq.buf[(qq.head + i - 1) % qq.len] \in Values \cup {NULL}
  <2> DEFINE j == i - 1
  <2>1. j \in Nat /\ j <= qq.len /\ qq.head + i - 1 = qq.head + j
    BY <1>0, <1>1
  <2> HIDE DEF j
  <2>2. (qq.head + j) % qq.len \in 0..(qq.len - 1)
    BY <1>0, <2>1, Slots
  <2>3. (qq.head + j) % qq.len \in 0..(MaxLen - 1)
    BY <1>0, <2>2
  <2> QED BY <1>0, <2>1, <2>3
<1>2. Items(qq, nr) \in [1..nr -> Values \cup {NULL}]
  BY <1>1 DEF Items
<1> QED BY <1>0, <1>2 DEF Items

\* One place on, seen from the next slot.
LEMMA Advance ==
    ASSUME NEW n \in Nat \ {0}, NEW h \in Nat, h < n, NEW i \in Nat, i < n, NEW g,
           g = IF h + 1 = n THEN 0 ELSE h + 1
    PROVE  g \in Nat /\ g < n /\ (g + i) % n = (h + (i + 1)) % n
<1>1. g \in Nat /\ g < n /\ i <= n /\ i + 1 \in Nat /\ i + 1 <= n
  OBVIOUS
<1> DEFINE j == i + 1
<1>2. j \in Nat /\ j <= n /\ j = i + 1
  BY <1>1
<1> HIDE DEF j
<1>3. (g + i) % n = IF g + i < n THEN g + i ELSE g + i - n
  BY <1>1, Slots
<1>4. (h + j) % n = IF h + j < n THEN h + j ELSE h + j - n
  BY <1>2, Slots
<1>5. (IF g + i < n THEN g + i ELSE g + i - n) = IF h + j < n THEN h + j ELSE h + j - n
  BY <1>1, <1>2
<1> QED BY <1>1, <1>2, <1>3, <1>4, <1>5

\* Slots at different distances are different slots.
LEMMA Apart ==
    ASSUME NEW n \in Nat \ {0}, NEW h \in Nat, h < n, NEW i \in Nat, NEW j \in Nat, i < j, j < n
    PROVE  (h + i) % n # (h + j) % n
<1>0. i <= n /\ j <= n
  OBVIOUS
<1>1. (h + i) % n = IF h + i < n THEN h + i ELSE h + i - n
  BY <1>0, Slots
<1>2. (h + j) % n = IF h + j < n THEN h + j ELSE h + j - n
  BY <1>0, Slots
<1> DEFINE a == (h + i) % n
           b == (h + j) % n
<1> HIDE DEF a, b
<1>3. /\ a = (IF h + i < n THEN h + i ELSE h + i - n)
      /\ b = (IF h + j < n THEN h + j ELSE h + j - n)
  BY <1>1, <1>2 DEF a, b
<1>4. a # b
  BY <1>3
<1> QED BY <1>4 DEF a, b

\* What is known of a queue that is in use.
LEMMA RingFacts ==
    ASSUME NEW qq \in RingType, NEW nr, NEW nw, Ring(qq, nr, nw), qq.used
    PROVE  /\ qq.len \in Nat \ {0} /\ qq.head \in Nat /\ qq.head < qq.len
           /\ qq.tail \in Nat /\ qq.tail < qq.len
           /\ nr \in Nat /\ nw \in Nat /\ nr + nw = qq.len
           /\ qq.len <= MaxLen /\ MaxLen \in Nat /\ (qq.head + nr) % qq.len = qq.tail
           /\ qq.buf \in [0..(MaxLen - 1) -> Values \cup {NULL}]
  BY QueueAssumption DEF RingType, Ring

LEMMA ReadStep ==
    ASSUME NEW qq \in RingType, NEW nr, NEW nw, Ring(qq, nr, nw), qq.used, nr > 0, NEW v,
           NEW a, a = OsQueueBufferOperate(qq, "readHead", v)
    PROVE  /\ a \in RingType /\ a.used /\ a.len = qq.len /\ a.cnt = qq.cnt
           /\ Ring(a, nr - 1, nw + 1)
           /\ Items(a, nr - 1) = Tail(Items(qq, nr))
<1>0. PICK n, h : n = qq.len /\ h = qq.head
  OBVIOUS
<1>a. /\ n \in Nat \ {0} /\ h \in Nat /\ h < n /\ qq.tail \in Nat /\ qq.tail < n
      /\ nr \in Nat /\ nw \in Nat /\ nr + nw = n
      /\ n <= MaxLen /\ MaxLen \in Nat /\ (h + nr) % n = qq.tail
      /\ qq.buf \in [0..(MaxLen - 1) -> Values \cup {NULL}]
  BY <1>0, RingFacts
<1>1. a = [qq EXCEPT !.head = After(qq, qq.head), !.buf[qq.head] = NULL]
  BY DEF OsQueueBufferOperate
<1>2. After(qq, qq.head) = IF h + 1 = n THEN 0 ELSE h + 1
  BY <1>0 DEF After
<1>3. /\ a.head = (IF h + 1 = n THEN 0 ELSE h + 1) /\ a.tail = qq.tail /\ a.len = n
      /\ a.used = qq.used /\ a.cnt = qq.cnt /\ a.buf = [qq.buf EXCEPT ![h] = NULL]
  BY <1>0, <1>1, <1>2 DEF RingType
<1>u. a.used
  BY <1>3, Zenon
<1>g. a.head \in Nat /\ a.head < n
  BY <1>a, <1>3
<1>4. a \in RingType
  <2>1. a.head \in 0..MaxLen /\ a.tail \in 0..MaxLen
        /\ a.buf \in [0..(MaxLen - 1) -> Values \cup {NULL}]
    BY <1>a, <1>3, <1>g
  <2> QED BY <1>1, <2>1 DEF RingType
<1>5. ASSUME NEW i \in Nat, i < nr
      PROVE  (a.head + i) % n = (h + (i + 1)) % n
  <2>1. i < n
    BY <1>a, <1>5
  <2> QED BY <1>a, <1>3, <2>1, Advance
<1>b. PICK m : m = nr - 1
  OBVIOUS
<1>c. m \in Nat /\ m + 1 = nr /\ m < nr /\ nw + 1 \in Nat /\ m + (nw + 1) = n
  BY <1>a, <1>b
<1>6. Ring(a, m, nw + 1)
  <2>2. (a.head + m) % n = (h + nr) % n
    BY <1>5, <1>c
  <2> QED BY <1>a, <1>3, <1>g, <1>c, <2>2 DEF Ring
<1>7. /\ Items(qq, nr) \in Seq(Values \cup {NULL}) /\ Len(Items(qq, nr)) = nr
      /\ \A i \in 1..nr : Items(qq, nr)[i] = qq.buf[(h + i - 1) % n]
  BY <1>0, ItemsType
<1>8. /\ Items(a, m) \in Seq(Values \cup {NULL}) /\ Len(Items(a, m)) = m
      /\ \A i \in 1..m : Items(a, m)[i] = a.buf[(a.head + i - 1) % n]
  BY <1>3, <1>4, <1>6, <1>u, ItemsType
<1>9. ASSUME NEW i \in 1..m
      PROVE  Items(a, m)[i] = Items(qq, nr)[i + 1]
  <2>0. PICK j : j = i - 1
    OBVIOUS
  <2>1. j \in Nat /\ j < nr /\ i + 1 \in 1..nr /\ i \in Nat /\ i < n /\ i <= n /\ 0 < i /\ j + 1 = i
    BY <1>a, <1>c, <2>0
  <2>2. (a.head + j) % n = (h + i) % n
    BY <1>5, <2>1
  <2>3. (a.head + i - 1) % n = (h + i) % n /\ (h + (i + 1) - 1) % n = (h + i) % n
    <3>1. a.head + i - 1 = a.head + j /\ h + (i + 1) - 1 = h + i
      BY <1>a, <1>g, <2>0, <2>1
    <3> QED BY <2>2, <3>1
  <2>4. (h + i) % n # h /\ (h + i) % n \in 0..(MaxLen - 1)
    <3>1. (h + 0) % n # (h + i) % n
      BY <1>a, <2>1, Apart
    <3>5. h % n = h
      BY <1>a, ModLow
    <3>2. h + 0 = h /\ h % n = h
      BY <1>a, <3>5
    <3>3. (h + i) % n \in 0..(n - 1)
      BY <1>a, <2>1, Slots
    <3>4. 0..(n - 1) \subseteq 0..(MaxLen - 1)
      BY <1>a
    <3> QED BY <3>1, <3>2, <3>3, <3>4
  <2>5. a.buf[(h + i) % n] = qq.buf[(h + i) % n]
    BY <1>a, <1>3, <2>4
  <2> QED BY <1>7, <1>8, <2>1, <2>3, <2>5
<1>10. Items(qq, nr) # << >>
  BY <1>a, <1>7
<1>11. /\ Tail(Items(qq, nr)) \in Seq(Values \cup {NULL}) /\ Len(Tail(Items(qq, nr))) = m
       /\ \A i \in 1..m : Tail(Items(qq, nr))[i] = Items(qq, nr)[i + 1]
  BY <1>7, <1>10, <1>b, HeadTailProperties
<1>12. Items(a, m) = Tail(Items(qq, nr))
  BY <1>8, <1>9, <1>11, SeqEqual
<1> QED BY <1>0, <1>b, <1>u, <1>3, <1>4, <1>6, <1>12

LEMMA WriteTailStep ==
    ASSUME NEW qq \in RingType, NEW nr, NEW nw, Ring(qq, nr, nw), qq.used, nw > 0,
           NEW v \in Values, NEW a, a = OsQueueBufferOperate(qq, "writeTail", v)
    PROVE  /\ a \in RingType /\ a.used /\ a.len = qq.len /\ a.cnt = qq.cnt
           /\ Ring(a, nr + 1, nw - 1)
           /\ Items(a, nr + 1) = Append(Items(qq, nr), v)
<1>0. PICK n, h, e : n = qq.len /\ h = qq.head /\ e = qq.tail
  OBVIOUS
<1>a. /\ n \in Nat \ {0} /\ h \in Nat /\ h < n /\ e \in Nat /\ e < n
      /\ nr \in Nat /\ nw \in Nat /\ nr + nw = n
      /\ n <= MaxLen /\ MaxLen \in Nat /\ (h + nr) % n = e
      /\ qq.buf \in [0..(MaxLen - 1) -> Values \cup {NULL}]
  BY <1>0, RingFacts
<1>b. PICK m : m = nr + 1
  OBVIOUS
<1>c. m \in Nat /\ m <= n /\ nw - 1 \in Nat /\ m + (nw - 1) = n /\ nr < n /\ nr <= n
  BY <1>a, <1>b
<1>1. a = [qq EXCEPT !.tail = After(qq, qq.tail), !.buf[qq.tail] = v]
  BY DEF OsQueueBufferOperate
<1>3. After(qq, qq.tail) = IF e + 1 = n THEN 0 ELSE e + 1
  BY <1>0 DEF After
<1>4. /\ a.head = h /\ a.tail = (IF e + 1 = n THEN 0 ELSE e + 1) /\ a.len = n
      /\ a.used = qq.used /\ a.cnt = qq.cnt /\ a.buf = [qq.buf EXCEPT ![e] = v]
  BY <1>0, <1>1, <1>3 DEF RingType
<1>u. a.used
  BY <1>4, Zenon
<1>g. a.tail \in Nat /\ a.tail < n
  BY <1>a, <1>4
<1>5. a \in RingType
  <2>1. a.head \in 0..MaxLen /\ a.tail \in 0..MaxLen
        /\ a.buf \in [0..(MaxLen - 1) -> Values \cup {NULL}]
    BY <1>a, <1>4, <1>g
  <2> QED BY <1>1, <2>1 DEF RingType
<1>6. Ring(a, m, nw - 1)
  <2>1. e = IF h + nr < n THEN h + nr ELSE h + nr - n
    BY <1>a, <1>c, Slots
  <2>2. (h + m) % n = IF h + m < n THEN h + m ELSE h + m - n
    BY <1>a, <1>c, Slots
  <2>3. a.tail = IF h + m < n THEN h + m ELSE h + m - n
    BY <1>a, <1>b, <1>c, <1>4, <2>1
  <2>4. (a.head + m) % a.len = a.tail
    BY <1>4, <2>2, <2>3
  <2> QED BY <1>a, <1>c, <1>4, <1>g, <2>4 DEF Ring
<1>7. /\ Items(qq, nr) \in Seq(Values \cup {NULL}) /\ Len(Items(qq, nr)) = nr
      /\ \A i \in 1..nr : Items(qq, nr)[i] = qq.buf[(h + i - 1) % n]
  BY <1>0, ItemsType
<1>8. /\ Items(a, m) \in Seq(Values \cup {NULL}) /\ Len(Items(a, m)) = m
      /\ \A i \in 1..m : Items(a, m)[i] = a.buf[(h + i - 1) % n]
  BY <1>4, <1>5, <1>6, <1>u, ItemsType
<1>9. ASSUME NEW i \in 1..nr
      PROVE  Items(a, m)[i] = Items(qq, nr)[i]
  <2>0. PICK j : j = i - 1
    OBVIOUS
  <2>1. j \in Nat /\ j < nr /\ j <= n /\ i \in 1..m /\ h + i - 1 = h + j
    BY <1>a, <1>b, <2>0
  <2>2. (h + j) % n # e /\ (h + j) % n \in 0..(MaxLen - 1)
    <3>1. (h + j) % n # (h + nr) % n
      BY <1>a, <1>c, <2>1, Apart
    <3>2. (h + j) % n \in 0..(n - 1)
      BY <1>a, <2>1, Slots
    <3>3. 0..(n - 1) \subseteq 0..(MaxLen - 1)
      BY <1>a
    <3> QED BY <1>a, <3>1, <3>2, <3>3
  <2>3. a.buf[(h + j) % n] = qq.buf[(h + j) % n]
    BY <1>a, <1>4, <2>2
  <2> QED BY <1>7, <1>8, <2>1, <2>3
<1>10. Items(a, m)[m] = v
  <2>1. m \in 1..m /\ h + m - 1 = h + nr /\ e \in 0..(MaxLen - 1)
    BY <1>a, <1>b, <1>c
  <2>2. a.buf[e] = v
    BY <1>a, <1>4, <2>1
  <2>3. Items(a, m)[m] = a.buf[(h + nr) % n]
    BY <1>8, <2>1
  <2> QED BY <1>a, <2>2, <2>3
<1>11. /\ Append(Items(qq, nr), v) \in Seq(Values \cup {NULL})
       /\ Len(Append(Items(qq, nr), v)) = m
       /\ \A i \in 1..nr : Append(Items(qq, nr), v)[i] = Items(qq, nr)[i]
       /\ Append(Items(qq, nr), v)[m] = v
  <2>1. v \in Values \cup {NULL}
    OBVIOUS
  <2> QED BY <1>a, <1>b, <1>7, <2>1, AppendProperties
<1>12. \A i \in 1..m : Items(a, m)[i] = Append(Items(qq, nr), v)[i]
  <2>1. \A i \in 1..m : i = m \/ i \in 1..nr
    BY <1>a, <1>b
  <2> QED BY <1>9, <1>10, <1>11, <2>1
<1>13. Items(a, m) = Append(Items(qq, nr), v)
  BY <1>8, <1>11, <1>12, SeqEqual
<1> QED BY <1>0, <1>b, <1>u, <1>4, <1>5, <1>6, <1>13

LEMMA WriteHeadStep ==
    ASSUME NEW qq \in RingType, NEW nr, NEW nw, Ring(qq, nr, nw), qq.used, nw > 0,
           NEW v \in Values, NEW a, a = OsQueueBufferOperate(qq, "writeHead", v)
    PROVE  /\ a \in RingType /\ a.used /\ a.len = qq.len /\ a.cnt = qq.cnt
           /\ Ring(a, nr + 1, nw - 1)
           /\ Items(a, nr + 1) = <<v>> \o Items(qq, nr)
<1>0. PICK n, h, g : n = qq.len /\ h = qq.head /\ g = IF qq.head = 0 THEN qq.len - 1 ELSE qq.head - 1
  OBVIOUS
<1>a. /\ n \in Nat \ {0} /\ h \in Nat /\ h < n /\ qq.tail \in Nat /\ qq.tail < n
      /\ nr \in Nat /\ nw \in Nat /\ nr + nw = n
      /\ n <= MaxLen /\ MaxLen \in Nat /\ (h + nr) % n = qq.tail
      /\ qq.buf \in [0..(MaxLen - 1) -> Values \cup {NULL}]
  BY <1>0, RingFacts
<1>b. PICK m : m = nr + 1
  OBVIOUS
<1>c. m \in Nat /\ m <= n /\ nw - 1 \in Nat /\ m + (nw - 1) = n /\ nr < n /\ nr <= n
  BY <1>a, <1>b
<1>1. a = [qq EXCEPT !.head = g, !.buf[g] = v]
  BY <1>0 DEF OsQueueBufferOperate
<1>2. /\ g \in Nat /\ g < n /\ g \in 0..(MaxLen - 1) /\ g \in 0..MaxLen
      /\ h = IF g + 1 = n THEN 0 ELSE g + 1
  <2>1. CASE h = 0
    <3>1. g = n - 1
      BY <1>0, <2>1
    <3> QED BY <1>a, <2>1, <3>1
  <2>2. CASE h # 0
    <3>1. g = h - 1
      BY <1>0, <2>2
    <3> QED BY <1>a, <2>2, <3>1
  <2> QED BY <2>1, <2>2
<1>3. /\ a.head = g /\ a.tail = qq.tail /\ a.len = n /\ a.used = qq.used
      /\ a.cnt = qq.cnt /\ a.buf = [qq.buf EXCEPT ![g] = v]
  BY <1>0, <1>1 DEF RingType
<1>u. a.used
  BY <1>3, Zenon
<1>4. a \in RingType
  <2>1. a.head \in 0..MaxLen /\ a.tail \in 0..MaxLen
        /\ a.buf \in [0..(MaxLen - 1) -> Values \cup {NULL}]
    BY <1>a, <1>2, <1>3
  <2> QED BY <1>1, <2>1 DEF RingType
<1>5. ASSUME NEW i \in Nat, i <= nr
      PROVE  (h + i) % n = (g + (i + 1)) % n
  <2>1. i < n
    BY <1>a, <1>c, <1>5
  <2> QED BY <1>a, <1>2, <2>1, Advance
<1>6. Ring(a, m, nw - 1)
  <2>2. (g + m) % n = (h + nr) % n
    BY <1>a, <1>b, <1>5
  <2> QED BY <1>a, <1>c, <1>2, <1>3, <2>2 DEF Ring
<1>7. /\ Items(qq, nr) \in Seq(Values \cup {NULL}) /\ Len(Items(qq, nr)) = nr
      /\ \A i \in 1..nr : Items(qq, nr)[i] = qq.buf[(h + i - 1) % n]
  BY <1>0, ItemsType
<1>8. /\ Items(a, m) \in Seq(Values \cup {NULL}) /\ Len(Items(a, m)) = m
      /\ \A i \in 1..m : Items(a, m)[i] = a.buf[(g + i - 1) % n]
  BY <1>3, <1>4, <1>6, <1>u, ItemsType
<1>9. ASSUME NEW i \in 1..nr
      PROVE  Items(a, m)[i + 1] = Items(qq, nr)[i]
  <2>0. PICK j : j = i - 1
    OBVIOUS
  <2>1. /\ j \in Nat /\ j <= nr /\ i + 1 \in 1..m /\ i \in Nat /\ i < n /\ i <= n /\ 0 < i
        /\ h + i - 1 = h + j /\ g + (i + 1) - 1 = g + i /\ j + 1 = i
    BY <1>a, <1>b, <1>c, <1>2, <2>0
  <2>2. (h + j) % n = (g + i) % n
    BY <1>5, <2>1
  <2>3. (g + i) % n # g /\ (g + i) % n \in 0..(MaxLen - 1)
    <3>1. (g + 0) % n # (g + i) % n
      BY <1>a, <1>2, <2>1, Apart
    <3>5. g % n = g
      BY <1>a, <1>2, ModLow
    <3>2. g + 0 = g /\ g % n = g
      BY <1>2, <3>5
    <3>3. (g + i) % n \in 0..(n - 1)
      BY <1>a, <1>2, <2>1, Slots
    <3>4. 0..(n - 1) \subseteq 0..(MaxLen - 1)
      BY <1>a
    <3> QED BY <3>1, <3>2, <3>3, <3>4
  <2>4. a.buf[(g + i) % n] = qq.buf[(g + i) % n]
    BY <1>a, <1>3, <2>3
  <2> QED BY <1>7, <1>8, <2>1, <2>2, <2>4
<1>10. Items(a, m)[1] = v
  <2>4. g % n = g
    BY <1>a, <1>2, ModLow
  <2>1. 1 \in 1..m /\ g + 1 - 1 = g /\ g % n = g
    BY <1>a, <1>b, <1>2, <2>4
  <2>2. a.buf[g] = v
    BY <1>a, <1>2, <1>3
  <2>3. Items(a, m)[1] = a.buf[(g + 1 - 1) % n]
    BY <1>8, <2>1
  <2> QED BY <2>1, <2>2, <2>3
<1>11. /\ <<v>> \o Items(qq, nr) \in Seq(Values \cup {NULL})
       /\ Len(<<v>> \o Items(qq, nr)) = m
       /\ (<<v>> \o Items(qq, nr))[1] = v
       /\ \A i \in 1..nr : (<<v>> \o Items(qq, nr))[i + 1] = Items(qq, nr)[i]
  <2>1. <<v>> \in Seq(Values \cup {NULL}) /\ Len(<<v>>) = 1 /\ <<v>>[1] = v
    OBVIOUS
  <2>2. /\ <<v>> \o Items(qq, nr) \in Seq(Values \cup {NULL})
        /\ Len(<<v>> \o Items(qq, nr)) = 1 + nr
        /\ \A i \in 1..(1 + nr) : (<<v>> \o Items(qq, nr))[i] =
              IF i <= 1 THEN <<v>>[i] ELSE Items(qq, nr)[i - 1]
    BY <1>7, <2>1, ConcatProperties
  <2>3. \A i \in 1..nr : i + 1 \in 1..(1 + nr) /\ ~(i + 1 <= 1) /\ (i + 1) - 1 = i
    BY <1>a
  <2>4. 1 + nr = m /\ 1 \in 1..(1 + nr)
    BY <1>a, <1>b
  <2> QED BY <2>1, <2>2, <2>3, <2>4
<1>12. \A i \in 1..m : Items(a, m)[i] = (<<v>> \o Items(qq, nr))[i]
  <2>1. ASSUME NEW i \in 1..m, i # 1
        PROVE  Items(a, m)[i] = (<<v>> \o Items(qq, nr))[i]
    <3>1. PICK j : j = i - 1
      OBVIOUS
    <3>2. j \in 1..nr /\ i = j + 1
      BY <1>a, <1>b, <2>1, <3>1
    <3> QED BY <1>9, <1>11, <3>2
  <2> QED BY <1>10, <1>11, <2>1
<1>13. Items(a, m) = <<v>> \o Items(qq, nr)
  BY <1>8, <1>11, <1>12, SeqEqual
<1> QED BY <1>0, <1>b, <1>u, <1>3, <1>4, <1>6, <1>13

-----------------------------------------------------------------------------
(***************************************************************************)
(* The inductive invariant.                                                *)
(***************************************************************************)
QueueAt == At \cup {"queue", "mail"}

\* The kernels considered: tasks delete only themselves, since one that is deleted with
\* a slot or a block it was woken with takes it along; and where tasks wait for mail,
\* none locks the scheduler, since OsQueueMailAlloc waits without asking for the lock.
QueueKernel == Plain /\ Victims = {} /\ ("mail" \in TaskCalls => "lock" \notin TaskCalls)

Kernel(kk, x) ==
    /\ CoreInv(QueueAt, kk, x) /\ Highest(kk, x) /\ TcbKept(kk, x)
    /\ WaitsAt({"queue", "mail"}, kk, x)
    /\ "mail" \in TaskCalls => kk.lock = 0

\* Thread t does not wait, and its last wait has not timed out.
Served(kk, t) == kk.status[t] \cap {"PEND", "TIMEOUT"} = {}

\* The tasks that have been granted a slot, and the slots of a side.
Slot(kk, x, s) == {t \in Tasks : x[t].at = "queue" /\ x[t].obj = s /\ Served(kk, t)}

Total(qq, kk, x, s) == qq.cnt[s] + Cardinality(Slot(kk, x, s))

RingOK(qq, kk, x) ==
    qq \in RingType /\ Ring(qq, Total(qq, kk, x, "read"), Total(qq, kk, x, "write"))

\* Nobody waits for a slot that is there, or for a queue that is not.
SidesWait(qq, kk) ==
    \A s \in Side : qq.cnt[s] > 0 \/ ~qq.used => kk.list[WaitList(s)] = << >>

\* What a thread inside a call has asked for.
Asked(x, ar) ==
    /\ ar \in [Tasks -> [op : Operate, val : Values \cup {NULL}]]
    /\ \A t \in Tasks :
          /\ x[t].at = "queue" => /\ x[t].obj = ReadWrite(ar[t].op)
                                  /\ x[t].obj = "write" => ar[t].val \in Values
          /\ x[t].at = "mail" => x[t].obj = "mem"

BoxOK(box) ==
    /\ box \in [free : Seq(Blocks), marked : SUBSET Blocks, cnt : Nat]
    /\ NoDup(box.free)
    /\ box.marked = Blocks \ Range(box.free)
    /\ box.cnt = Cardinality(box.marked)

\* Nobody waits for a block that is there, and whoever was woken has been given one.
MailOK(box, ms, kk, x) ==
    /\ BoxOK(box)
    /\ box.free # << >> => kk.list[WaitList("mem")] = << >>
    /\ ms \in [Tasks -> Blocks \cup {NULL}]
    /\ \A t \in Tasks : x[t].at = "mail" /\ Served(kk, t) => ms[t] # NULL

QueueSafe ==
    /\ Kernel(k, ctx)
    /\ RingOK(q, k, ctx)
    /\ SidesWait(q, k)
    /\ Asked(ctx, arg)
    /\ MailOK(pool, msg, k, ctx)

LEMMA QueuePlaces ==
    /\ {"queue", "mail"} \cap At = {} /\ At \subseteq QueueAt
    /\ "queue" \in QueueAt /\ "mail" \in QueueAt /\ "user" \in At
    /\ {"queue", "mail", "user"} \cap (Creating \cup {"join"}) = {}
  BY DEF At, QueueAt, Creating

\* Without LOS_TaskLock the scheduler stays unlocked.
LEMMA CallLockKept ==
    ASSUME NEW A, CoreInv(A, k, ctx), k.lock = 0, NEW c \in Tasks \cup {Isr}, AnyCall(c)
    PROVE  k'.lock = 0
<1>0. /\ Sane(k) /\ Creators(k, ctx) /\ RunNotSuspended(k) /\ c \in TCB \cup {Isr}
      /\ ctx \in [TCB -> ThreadState(A)]
  BY TasksAreTCBs DEF CoreInv
<1>1. ASSUME NEW kk, Sane(kk), kk.lock = 0, NEW need \in BOOLEAN, Finish(c, kk, need)
      PROVE  k'.lock = 0
  <2>1. Finished(c, kk, need)
    BY <1>0, <1>1, FinishStep
  <2> QED BY <1>1, <2>1 DEF Finished
<1>2. ASSUME NEW t \in Tasks, LOS_TaskSuspend(c, t) PROVE k'.lock = 0
  <2>1. Exists(t) /\ Finish(c, OsSchedSuspend(k, t), t = k.run)
    BY <1>2 DEF LOS_TaskSuspend
  <2>2. "UNUSED" \notin k.status[t]
    BY <1>0, <2>1, ExistsNotHeld
  <2>3. PICK kk : kk = OsSchedSuspend(k, t)
    OBVIOUS
  <2>4. /\ Sane(kk)
        /\ Becomes(kk, k, t, (k.status[t] \ {"READY"}) \cup {"SUSPEND"}, k.sort)
    BY <1>0, <2>2, <2>3, SuspendSafe
  <2> QED BY <1>1, <2>1, <2>3, <2>4 DEF Becomes, SameBut, SameCtl
<1>3. ASSUME NEW t \in Tasks, LOS_TaskResume(c, t) PROVE k'.lock = 0
  <2>1. /\ Exists(t) /\ Finish(c, OsSchedResume(k, t), OsSchedResumeResult(k, t))
        /\ "SUSPEND" \in k.status[t] /\ Caller(c, "resume")
    BY <1>3 DEF LOS_TaskResume, Has
  <2>2. "UNUSED" \notin k.status[t] /\ Calling(c)
    BY <1>0, <2>1, ExistsNotHeld, CallerCalls
  <2>3. t # k.run
    <3>1. CASE c \in Tasks
      BY <2>1, <2>2, <3>1, CallerNotStuck DEF Blocked
    <3>2. CASE c = Isr
      BY <1>0, <2>1, <3>2 DEF Caller, RunNotSuspended
    <3> QED BY <3>1, <3>2
  <2>4. PICK kk, need : kk = OsSchedResume(k, t) /\ need = OsSchedResumeResult(k, t)
    OBVIOUS
  <2>5. Sane(kk) /\ SameBut(kk, k, t) /\ need \in BOOLEAN
    BY <1>0, <2>1, <2>2, <2>3, <2>4, ResumeSafe DEF OsSchedResumeResult
  <2> QED BY <1>1, <2>1, <2>4, <2>5 DEF SameBut, SameCtl
<1>4. ASSUME NEW t \in Tasks, NEW p \in Prio, LOS_TaskPriSet(c, t, p) PROVE k'.lock = 0
  <2>1. Finish(c, OsSchedModifyTaskSchedParam(k, t, p), OsSchedModifyResult(k, t))
    BY <1>4 DEF LOS_TaskPriSet
  <2>2. PICK kk, need : kk = OsSchedModifyTaskSchedParam(k, t, p) /\ need = OsSchedModifyResult(k, t)
    OBVIOUS
  <2>3. Sane(kk) /\ SameBut(kk, k, t) /\ need \in BOOLEAN
    BY <1>0, <2>2, ModifySafe DEF OsSchedModifyResult, Has
  <2> QED BY <1>1, <2>1, <2>2, <2>3 DEF SameBut, SameCtl
<1>5. ASSUME NEW t \in Tasks, LOS_TaskDelete(c, t) PROVE k'.lock = 0
  <2>1. PICK kk, need : kk = TaskDeleteEffect(k, t) /\ need = Has(k, t, {"RUNNING"})
    OBVIOUS
  <2>2. /\ Exists(t) /\ need \in BOOLEAN
        /\ c = t => k' = kk
        /\ c # t => Finish(c, kk, need)
    BY <1>5, <2>1 DEF LOS_TaskDelete, Has
  <2>3. Deleted(kk, k, t)
    BY <1>0, <2>1, <2>2, ExistsNotHeld, DeleteSafe
  <2>4. Sane(kk) /\ kk.lock = 0
    BY <2>3 DEF Deleted
  <2> QED BY <1>1, <2>2, <2>4
<1> QED BY <1>2, <1>3, <1>4, <1>5 DEF AnyCall

LEMMA LockKept ==
    ASSUME NEW A, CoreInv(A, k, ctx), Plain, "lock" \notin TaskCalls, k.lock = 0, Next
    PROVE  k'.lock = 0
<1>0. Sane(k) /\ Booting(k) /\ ctx \in [TCB -> ThreadState(A)] /\ Creators(k, ctx)
  BY DEF CoreInv
<1>1. CASE LOS_Start
  <2>1. k.run = Dummy /\ k' = OsSchedStart(k)
    BY <1>1 DEF LOS_Start, InUser, Running
  <2>2. Switched(k', k)
    BY <1>0, <2>1, StartSafe
  <2> QED BY <2>2 DEF Switched
<1>2. CASE PendSV
  <2>1. PICK left \in BOOLEAN : k' = OsSchedTaskSwitch(k, left)
    BY <1>2 DEF PendSV
  <2>2. Switched(k', k)
    BY <1>0, <2>1, SwitchSafe
  <2> QED BY <2>2 DEF Switched
<1>3. ASSUME NEW due, due = {} \/ \E t \in k.sort : due = {t}, Tick(due) PROVE k'.lock = 0
  <2>1. PICK left \in BOOLEAN : k' = LOS_SchedTickHandler(k, due, left)
    BY <1>3 DEF Tick
  <2>2. PICK a : Ticked(k', a, k, due)
    BY <1>0, <1>3, <2>1, TickSafe
  <2> QED BY <2>2 DEF Ticked
<1>4. ASSUME k.list[RecycleList] # << >>, k' = RecycleFirst(k) PROVE k'.lock = 0
  <2>1. PICK t \in Tasks : Recycled(k', k, t)
    BY <1>0, <1>4, RecycleFirstSafe
  <2> QED BY <2>1 DEF Recycled, SameBut, SameCtl
<1>5. CASE OsIdleTask
  BY <1>4, <1>5 DEF OsIdleTask
<1>6. ASSUME NEW c \in TCB, LOS_Schedule(c) PROVE k'.lock = 0
  BY <1>0, <1>6, ScheduleSafe DEF LOS_Schedule
<1>7. ASSUME NEW c \in Tasks, TaskCall(c) PROVE k'.lock = 0
  <2>0. c \in TCB /\ c # Isr /\ k.run \in TCB /\ k \in KernelState
    BY <1>0, TasksAreTCBs, TaskAssumption DEF Sane, KInv, KernelState
  <2>1. CASE LOS_TaskDelay(c)
    <3>1. k' = SetStatus(k, k.run, {}, {"DELAY"})
      BY <2>0, <2>1 DEF LOS_TaskDelay, Finish, OsSchedDelay
    <3> QED BY <2>0, <3>1 DEF SetStatus, KernelState
  <2>2. CASE LOS_TaskYield(c)
    <3>1. k' = OsSchedYield(k)
      BY <2>0, <2>2 DEF LOS_TaskYield, Finish
    <3> QED BY <2>0, <3>1 DEF OsSchedYield, KernelState
  <2>3. ~LOS_TaskLock(c) /\ ~LOS_TaskUnlock(c)
    BY <2>0 DEF LOS_TaskLock, LOS_TaskUnlock, Caller
  <2>4. ~JoinRecycle(c) /\ \A t \in Tasks : ~LOS_TaskJoin(c, t) /\ ~LOS_TaskDetach(c, t)
    BY <2>0, NobodyJoins
  <2> QED BY <1>7, <2>1, <2>2, <2>3, <2>4 DEF TaskCall
<1>8. ASSUME NEW c \in Tasks \cup {Isr}, AnyCall(c) PROVE k'.lock = 0
  BY <1>8, CallLockKept
<1>9. ASSUME NEW c \in Tasks \cup {Dummy}, CreateCall(c) PROVE k'.lock = 0
  <2>0. c \in TCB
    BY TasksAreTCBs
  <2>1. CASE LOS_TaskCreate(c)
    BY <2>1 DEF LOS_TaskCreate
  <2>2. CASE OsRecycleFinishedTask(c)
    BY <1>4, <2>2 DEF OsRecycleFinishedTask
  <2>3. CASE TakeFreeTask(c)
    <3>1. CASE k.list[FreeTask] = << >>
      BY <2>3, <3>1 DEF TakeFreeTask
    <3>2. CASE k.list[FreeTask] # << >>
      <4>1. PICK t : t = k.list[FreeTask][1]
        OBVIOUS
      <4>2. k' = LOS_ListDelete(k, t)
        BY <2>3, <3>2, <4>1 DEF TakeFreeTask
      <4>3. TakenOff(k', k, FreeTask, t)
        BY <1>0, <3>2, <4>1, <4>2, UnlinkFirstStep
      <4> QED BY <4>3 DEF TakenOff, SameBut, SameCtl
    <3> QED BY <3>1, <3>2
  <2>4. CASE LOS_TaskCreateOnly(c)
    <3>1. PICK t : t = ctx[c].obj
      OBVIOUS
    <3>2. t \in Tasks /\ "UNUSED" \in k.status[t] /\ ~Linked(k, t)
      BY <1>0, <2>0, <2>4, <3>1 DEF LOS_TaskCreateOnly, Creators, Holding
    <3>3. PICK p \in CreatePrios, joinable \in BOOLEAN :
             /\ joinable => t \in Joinables
             /\ \/ k' = OsInsertTCBToFreeList(OsNewTaskInit(k, t, p, joinable), t)
                \/ k' = OsNewTaskInit(k, t, p, joinable)
      BY <2>4, <3>1 DEF LOS_TaskCreateOnly
    <3>4. PICK a : a = OsNewTaskInit(k, t, p, FALSE)
      OBVIOUS
    <3>5. k' = OsInsertTCBToFreeList(a, t) \/ k' = a
      BY <3>3, <3>4 DEF Plain
    <3>6. Sane(a) /\ SameBut(a, k, t) /\ ~Linked(a, t) /\ t \notin a.sort
      BY <1>0, <3>2, <3>4, NewTaskSafe
    <3>7. KInv(a) /\ ~a.fault /\ a.lock = 0
      BY <3>6 DEF Sane, SameBut, SameCtl
    <3>8. CASE k' = OsInsertTCBToFreeList(a, t)
      <4>1. SameBut(k', a, t)
        BY <3>2, <3>6, <3>7, <3>8, InsertFreeStep
      <4> QED BY <3>7, <4>1 DEF SameBut, SameCtl
    <3> QED BY <3>5, <3>7, <3>8
  <2>5. CASE LOS_TaskCreateEnQueue(c)
    <3>1. PICK t : t = ctx[c].obj
      OBVIOUS
    <3>2. t \in Tasks /\ k.status[t] = {"SUSPEND"} /\ KInv(k) /\ ~k.fault
          /\ k' = OsSchedTaskEnQueue(k, t)
      BY <1>0, <2>0, <2>5, <3>1 DEF LOS_TaskCreateEnQueue, Creators, Holding, Sane
    <3>3. Becomes(k', k, t, (k.status[t] \ {"SUSPEND", "DELAY", "PEND_TIME"}) \cup {"READY"}, k.sort)
      BY <3>2, EnQueueStep
    <3> QED BY <3>3 DEF Becomes, SameBut, SameCtl
  <2> QED BY <1>9, <2>1, <2>2, <2>3, <2>4, <2>5 DEF CreateCall
<1> QED BY <1>1, <1>2, <1>3, <1>5, <1>6, <1>7, <1>8, <1>9 DEF Next

\* Thread u goes on as before, or had and has nothing to do with the queue.
Stays(u) ==
    \/ ctx'[u].at = ctx[u].at /\ ctx'[u].obj = ctx[u].obj /\ (Served(k', u) <=> Served(k, u))
    \/ ctx'[u].at \in At /\ ctx[u].at \in At

LEMMA StillThere ==
    ASSUME Kernel(k, ctx), Kernel(k', ctx'), Waits
    PROVE  \A u \in Tasks : Stays(u)
<1>0. TcbKept(k, ctx) /\ TcbKept(k', ctx') /\ "user" \in At
  BY QueuePlaces DEF Kernel
<1>1. ASSUME NEW u \in Tasks, SameWait(k', ctx', k, ctx, u) PROVE Stays(u)
  <2>1. CASE k'.status[u] \cap WaitFlags = k.status[u] \cap WaitFlags
    <3>1. Served(k', u) <=> Served(k, u)
      BY <2>1 DEF Served, WaitFlags
    <3>2. CASE "UNUSED" \in k.status[u]
      <4>1. "UNUSED" \in k'.status[u]
        BY <2>1, <3>2 DEF WaitFlags
      <4> QED BY <1>0, <3>2, <4>1 DEF TcbKept, Stays
    <3>3. CASE "UNUSED" \notin k.status[u]
      BY <1>1, <3>1, <3>3 DEF SameWait, Stays
    <3> QED BY <3>2, <3>3
  <2>2. CASE "UNUSED" \in k.status[u] /\ ("UNUSED" \in k'.status[u] \/ ctx'[u].at = "user")
    BY <1>0, <2>2 DEF TcbKept, Stays
  <2> QED BY <1>1, <2>1, <2>2 DEF SameWait
<1>2. CASE Calm
  BY <1>1, <1>2 DEF Calm
<1>3. ASSUME NEW t \in Tasks, TimesOut(t) PROVE \A u \in Tasks : Stays(u)
  <2>1. ~Served(k, t) /\ ~Served(k', t) /\ ctx'[t] = ctx[t]
    BY <1>3 DEF TimesOut, Served, WaitFlags
  <2>2. Stays(t)
    BY <2>1 DEF Stays
  <2> QED BY <1>1, <1>3, <2>2 DEF TimesOut, OthersWait
<1>4. ASSUME NEW t \in Tasks, Dies(t) PROVE \A u \in Tasks : Stays(u)
  <2>1. ctx'[t].at = "user" /\ ctx[t].at = "user"
    BY <1>0, <1>4 DEF Dies, TcbKept
  <2>2. Stays(t)
    BY <1>0, <2>1 DEF Stays
  <2> QED BY <1>1, <1>4, <2>2 DEF Dies, OthersWait
<1> QED BY <1>2, <1>3, <1>4 DEF Waits

LEMMA SlotType ==
    ASSUME NEW kk, NEW x, NEW s
    PROVE  /\ Slot(kk, x, s) \subseteq Tasks /\ IsFiniteSet(Slot(kk, x, s))
           /\ Cardinality(Slot(kk, x, s)) \in Nat
<1>1. Slot(kk, x, s) \in SUBSET Tasks
  BY DEF Slot
<1>2. IsFiniteSet(Slot(kk, x, s))
  BY <1>1, SchedAssumption, FS_Subset
<1> QED BY <1>1, <1>2, FS_CardinalityType

LEMMA SlotsStay ==
    ASSUME \A u \in Tasks : Stays(u)
    PROVE  \A s : Slot(k', ctx', s) = Slot(k, ctx, s)
<1> SUFFICES ASSUME NEW s, NEW u \in Tasks
             PROVE  u \in Slot(k', ctx', s) <=> u \in Slot(k, ctx, s)
  BY DEF Slot
<1>1. Stays(u) /\ "queue" \notin At
  BY QueuePlaces
<1> QED BY <1>1 DEF Stays, Slot

LEMMA AskedStays ==
    ASSUME Asked(ctx, arg), arg' = arg, \A u \in Tasks : Stays(u)
    PROVE  Asked(ctx', arg')
<1>1. "queue" \notin At /\ "mail" \notin At
  BY QueuePlaces
<1> QED BY <1>1 DEF Asked, Stays

LEMMA MailStays ==
    ASSUME MailOK(pool, msg, k, ctx), pool' = pool, msg' = msg, \A u \in Tasks : Stays(u),
           k.list[WaitList("mem")] = << >> => k'.list[WaitList("mem")] = << >>
    PROVE  MailOK(pool', msg', k', ctx')
<1>1. "queue" \notin At /\ "mail" \notin At
  BY QueuePlaces
<1>2. ASSUME NEW t \in Tasks, ctx'[t].at = "mail", Served(k', t) PROVE msg[t] # NULL
  <2>1. Stays(t)
    OBVIOUS
  <2>2. ctx[t].at = "mail" /\ Served(k, t)
    BY <1>1, <1>2, <2>1 DEF Stays
  <2> QED BY <2>2 DEF MailOK
<1> QED BY <1>2 DEF MailOK

LEMMA ObjectLists == \A o \in {"read", "write", "mem"} : o \in WaitObjs /\ WaitList(o) \in Blockers
  BY QueueAssumption, HeadsDiffer

LEMMA QueueTaskStepKept ==
    ASSUME QueueSafe, QueueKernel, Next, UNCHANGED <<q, arg, pool, msg>>
    PROVE  QueueSafe' /\ \A s : Slot(k', ctx', s) = Slot(k, ctx, s)
<1>0. /\ CoreInv(QueueAt, k, ctx) /\ Highest(k, ctx) /\ TcbKept(k, ctx)
      /\ WaitsAt({"queue", "mail"}, k, ctx) /\ Plain /\ Victims = {}
      /\ q' = q /\ arg' = arg /\ pool' = pool /\ msg' = msg /\ Sane(k)
  BY DEF QueueSafe, Kernel, QueueKernel, CoreInv
<1>1. StepKeeps(QueueAt) /\ Waits
  BY <1>0, QueuePlaces, NextKept, NextWaits
<1>2. CoreInv(QueueAt, k', ctx') /\ Highest(k', ctx') /\ TcbKept(k', ctx')
  BY <1>0, <1>1 DEF StepKeeps
<1>3. WaitsAt({"queue", "mail"}, k', ctx')
  BY <1>0, <1>1, <1>2, QueuePlaces, WaitsGoOn
<1>4. "mail" \in TaskCalls => k'.lock = 0
  BY <1>0, LockKept DEF QueueSafe, Kernel, QueueKernel
<1>5. Kernel(k, ctx) /\ Kernel(k', ctx')
  BY <1>2, <1>3, <1>4 DEF Kernel, QueueSafe
<1>6. \A u \in Tasks : Stays(u)
  BY <1>1, <1>5, StillThere
<1>7. \A h \in Blockers : k.list[h] = << >> => k'.list[h] = << >>
  BY <1>0, <1>1, ListsShrink
<1>8. \A s : Slot(k', ctx', s) = Slot(k, ctx, s)
  BY <1>6, SlotsStay
<1>9. RingOK(q', k', ctx')
  BY <1>0, <1>8 DEF QueueSafe, RingOK, Total
<1>10. SidesWait(q', k')
  <2>1. \A s \in Side : WaitList(s) \in Blockers
    BY ObjectLists DEF Side
  <2> QED BY <1>0, <1>7, <2>1 DEF QueueSafe, SidesWait
<1>11. Asked(ctx', arg')
  BY <1>0, <1>6, AskedStays DEF QueueSafe
<1>12. MailOK(pool', msg', k', ctx')
  BY <1>0, <1>6, <1>7, ObjectLists, MailStays DEF QueueSafe
<1> QED BY <1>5, <1>8, <1>9, <1>10, <1>11, <1>12 DEF QueueSafe

-----------------------------------------------------------------------------
(***************************************************************************)
(* The ways a call of the queue can end.                                   *)
(***************************************************************************)
\* It waits ...
LEMMA QueueWaits ==
    ASSUME Kernel(k, ctx), QueueKernel, NEW c \in Tasks, Calling(c), k.lock = 0,
           NEW o \in {"read", "write", "mem"}, NEW place \in {"queue", "mail"},
           NEW timed \in BOOLEAN, k' = OsSchedTaskWait(k, WaitList(o), timed),
           ctx' = [ctx EXCEPT ![c] = Thread(place, o, TRUE)]
    PROVE  /\ Kernel(k', ctx') /\ Begins(c, WaitList(o)) /\ ~Served(k', c)
           /\ ctx'[c].at = place /\ ctx'[c].obj = o /\ ctx[c].at = "user"
           /\ \A u \in Tasks \ {c} : Stays(u)
<1>0. /\ CoreInv(QueueAt, k, ctx) /\ Highest(k, ctx) /\ TcbKept(k, ctx) /\ Sane(k)
      /\ WaitsAt({"queue", "mail"}, k, ctx) /\ Victims = {} /\ k \in KernelState
  BY DEF Kernel, QueueKernel, CoreInv, Sane, KInv
<1>1. PICK x, h : x = Thread(place, o, TRUE) /\ h = WaitList(o)
  OBVIOUS
<1>2. /\ x \in ThreadState(QueueAt) /\ x.win /\ x.at = place /\ x.obj = o
      /\ h \in Blockers /\ o \in WaitObjs /\ x.at \notin Creating \cup {"join"}
  BY <1>1, QueuePlaces, ObjectLists DEF Thread, ThreadState
<1>3. Reprioritised(k)
  BY <1>0 DEF Reprioritised, SameCtl, SameWaiters
<1>4. StepKeeps(QueueAt) /\ Begins(c, h) /\ ctx'[c] = x /\ ctx[c].at = "user"
  BY <1>0, <1>1, <1>2, <1>3, WaitKept
<1>5. CoreInv(QueueAt, k', ctx') /\ Highest(k', ctx') /\ TcbKept(k', ctx')
  BY <1>0, <1>4 DEF StepKeeps
<1>6. WaitsAt({"queue", "mail"}, k', ctx')
  BY <1>0, <1>1, <1>2, <1>4, <1>5, QueuePlaces, WaitBegins
<1>7. k'.lock = k.lock
  BY <1>0 DEF OsSchedTaskWait, SetStatus, LOS_ListTailInsert, KernelState
<1>8. ~Served(k', c)
  BY <1>4 DEF Begins, Served, WaitFlags
<1>9. \A u \in Tasks \ {c} : Stays(u)
  BY <1>4 DEF Begins, Stays, Served
<1> QED BY <1>1, <1>2, <1>4, <1>5, <1>6, <1>7, <1>8, <1>9 DEF Kernel, Begins

\* ... or it wakes t, or it just ends; a task is back in its application then.
BackInUser(c) == c # Isr => ctx'[c].at = "user"

Ready(c) ==
    IF c = Isr THEN Calling(c)
    ELSE Running(c) /\ ~ctx[c].win /\ ctx[c].at \notin Creating /\ "TIMEOUT" \notin k.status[c]

Handed(c, t) ==
    /\ t # c /\ Left(k', k, t) /\ Served(k', t) /\ ~Served(k, t)
    /\ ctx'[t].at = ctx[t].at /\ ctx'[t].obj = ctx[t].obj
    /\ \A u \in Tasks \ {t, c} : Stays(u)
    /\ BackInUser(c)

LEMMA HandedWaits ==
    ASSUME NEW P, P \cap At = {}, WaitsAt(P, k, ctx), Sane(k), NEW c \in Tasks, NEW t \in Tasks,
           t # c, "PEND" \in k.status[t], WakesUp(t), ctx'[c].at \in At,
           \A u \in Tasks \ {c} : ctx'[u] = ctx[u],
           k.status[c] \cap {"PEND", "TIMEOUT"} = {}
    PROVE  WaitsAt(P, k', ctx')
<1>1. /\ ctx[t].at \in P /\ ctx[t].obj \in WaitObjs /\ "TIMEOUT" \notin k.status[t]
  BY WhereItWaits
<1>2. k'.status[t] \cap {"PEND", "TIMEOUT", "UNUSED"} = {}
  BY <1>1 DEF WakesUp
<1>3. ASSUME NEW u \in Tasks, u # t
      PROVE  /\ k'.status[u] = k.status[u]
             /\ \A h \in Blockers : u \in Range(k.list[h]) => u \in Range(k'.list[h])
  BY <1>3, BlockerLists, WithoutRange DEF WakesUp, Left
<1>4. ASSUME NEW u \in Tasks, "PEND" \in k.status[u]
      PROVE  WaitList(ctx[u].obj) \in Blockers
  BY <1>4, WhereItWaits, HeadsDiffer
<1> QED BY <1>1, <1>2, <1>3, <1>4 DEF WaitsAt

LEMMA DoneWakes ==
    ASSUME Kernel(k, ctx), QueueKernel, NEW c \in Tasks \cup {Isr}, Ready(c),
           NEW t \in Tasks, "PEND" \in k.status[t], Done(c, OsSchedTaskWake(k, t), TRUE)
    PROVE  Kernel(k', ctx') /\ Handed(c, t)
<1>0. /\ CoreInv(QueueAt, k, ctx) /\ Highest(k, ctx) /\ TcbKept(k, ctx) /\ Sane(k)
      /\ WaitsAt({"queue", "mail"}, k, ctx) /\ Victims = {} /\ ctx \in [TCB -> ThreadState(QueueAt)]
  BY DEF Kernel, QueueKernel, CoreInv
<1>1. "TIMEOUT" \notin k.status[t] /\ ~Served(k, t)
  BY <1>0, WhereItWaits DEF Served
<1>2. CASE c = Isr
  <2>1. Finish(c, OsSchedTaskWake(k, t), TRUE) /\ Calling(c) /\ c \in TCB \cup {Isr}
    BY <1>2 DEF Done, Ready
  <2>2. Reprioritised(k)
    BY <1>0 DEF Reprioritised, SameCtl, SameWaiters
  <2>3. StepKeeps(QueueAt) /\ Ends(t)
    BY <1>0, <2>1, <2>2, WakeKept
  <2>4. CoreInv(QueueAt, k', ctx') /\ Highest(k', ctx') /\ TcbKept(k', ctx')
    BY <1>0, <2>3 DEF StepKeeps
  <2>5. WaitsAt({"queue", "mail"}, k', ctx')
    BY <1>0, <2>3, <2>4, WaitEnds
  <2>6. k'.lock = k.lock
    <3>1. PICK w : w = OsSchedTaskWake(k, t)
      OBVIOUS
    <3>2. Sane(w) /\ SameBut(w, k, t)
      BY <1>0, <3>1, WakeSafe
    <3>3. Finished(c, w, TRUE)
      BY <1>0, <2>1, <3>1, <3>2, FinishStep
    <3> QED BY <3>2, <3>3 DEF Finished, SameBut, SameCtl
  <2>7. Served(k', t) /\ \A u \in Tasks \ {t} : Served(k', u) <=> Served(k, u)
    BY <1>1, <2>3 DEF Ends, Served
  <2>8. \A u \in Tasks : ctx'[u].at = ctx[u].at /\ ctx'[u].obj = ctx[u].obj
    BY <2>3, TasksAreTCBs DEF Ends
  <2>9. t # c /\ Left(k', k, t)
    BY <1>2, <2>3, TaskAssumption, TasksAreTCBs DEF Ends
  <2>10. Handed(c, t)
    BY <1>1, <1>2, <2>7, <2>8, <2>9 DEF Handed, Stays, BackInUser
  <2> QED BY <2>4, <2>5, <2>6, <2>10 DEF Kernel
<1>3. CASE c \in Tasks
  <2>0. c # Isr
    BY <1>3, TaskAssumption, TasksAreTCBs
  <2>1. /\ k' = OsSchedTaskWake(k, t) /\ ctx' = [ctx EXCEPT ![c] = Thread("user", Idle, TRUE)]
        /\ Running(c) /\ ~ctx[c].win /\ ctx[c].at \notin Creating /\ "TIMEOUT" \notin k.status[c]
    BY <2>0 DEF Done, Ready
  <2>2. /\ StepKeeps(QueueAt) /\ WakesUp(t) /\ t # c /\ k'.lock = k.lock
        /\ ctx'[c] = Thread("user", Idle, TRUE) /\ \A u \in Tasks \ {c} : ctx'[u] = ctx[u]
        /\ k.status[c] \cap (Blocked \cup {"DELAY"}) = {}
    BY <1>0, <1>3, <2>1, QueuePlaces, HandKept
  <2>3. CoreInv(QueueAt, k', ctx') /\ Highest(k', ctx') /\ TcbKept(k', ctx')
    BY <1>0, <2>2 DEF StepKeeps
  <2>4. ctx'[c].at = "user" /\ ctx'[c].at \in At /\ k.status[c] \cap {"PEND", "TIMEOUT"} = {}
    BY <2>1, <2>2, QueuePlaces DEF Thread, Blocked
  <2>5. WaitsAt({"queue", "mail"}, k', ctx')
    BY <1>0, <1>3, <2>2, <2>4, QueuePlaces, HandedWaits
  <2>6. Served(k', t) /\ \A u \in Tasks \ {t} : Served(k', u) <=> Served(k, u)
    BY <1>1, <2>2 DEF WakesUp, Served
  <2>7. Handed(c, t)
    BY <1>1, <2>2, <2>4, <2>6 DEF Handed, Stays, WakesUp, BackInUser
  <2> QED BY <2>2, <2>3, <2>5, <2>7 DEF Kernel
<1> QED BY <1>2, <1>3

LEMMA DonePasses ==
    ASSUME Kernel(k, ctx), QueueKernel, NEW c \in Tasks \cup {Isr}, Ready(c), Done(c, k, FALSE)
    PROVE  Kernel(k', ctx') /\ k' = k /\ BackInUser(c) /\ \A u \in Tasks \ {c} : Stays(u)
<1>0. /\ CoreInv(QueueAt, k, ctx) /\ Highest(k, ctx) /\ TcbKept(k, ctx) /\ Sane(k)
      /\ WaitsAt({"queue", "mail"}, k, ctx) /\ Victims = {}
  BY DEF Kernel, QueueKernel, CoreInv
<1>2. CASE c = Isr
  <2>1. k' = k /\ ctx' = ctx
    BY <1>2 DEF Done, Finish
  <2> QED BY <1>2, <2>1 DEF BackInUser, Stays
<1>3. CASE c \in Tasks
  <2>0. c # Isr
    BY <1>3, TaskAssumption, TasksAreTCBs
  <2>1. /\ k' = k /\ ctx' = [ctx EXCEPT ![c] = UserThread]
        /\ Running(c) /\ ~ctx[c].win /\ ctx[c].at \notin Creating /\ "TIMEOUT" \notin k.status[c]
    BY <2>0 DEF Done, Ready, UserThread
  <2>2. /\ StepKeeps(QueueAt) /\ ctx'[c] = UserThread /\ \A u \in Tasks \ {c} : ctx'[u] = ctx[u]
        /\ k.status[c] \cap (Blocked \cup {"DELAY"}) = {}
    BY <1>0, <1>3, <2>1, QueuePlaces, PassKept
  <2>3. CoreInv(QueueAt, k', ctx') /\ Highest(k', ctx') /\ TcbKept(k', ctx')
    BY <1>0, <2>2 DEF StepKeeps
  <2>4. /\ k'.list = k.list /\ k'.status[c] = k.status[c] \ {"TIMEOUT"} /\ "PEND" \notin k.status[c]
        /\ \A u \in Tasks \ {c} : k'.status[u] = k.status[u] /\ ctx'[u] = ctx[u]
        /\ ctx'[c].at = "user"
    BY <2>1, <2>2 DEF Blocked, UserThread, Thread
  <2>5. WaitsAt({"queue", "mail"}, k', ctx')
    BY <1>0, <1>3, <2>2, <2>4, QueuePlaces, WaitReturns
  <2>6. \A u \in Tasks \ {c} : Stays(u)
    BY <2>1, <2>2 DEF Stays
  <2> QED BY <2>1, <2>3, <2>4, <2>5, <2>6 DEF Kernel, BackInUser
<1> QED BY <1>2, <1>3

\* The return from a wait that may have timed out.
LEMMA DoneReturns ==
    ASSUME Kernel(k, ctx), QueueKernel, NEW c \in Tasks, Running(c), ~ctx[c].win,
           ctx[c].at \notin Creating, Done(c, SetStatus(k, c, {"TIMEOUT"}, {}), FALSE)
    PROVE  /\ Kernel(k', ctx') /\ k'.list = k.list /\ ctx'[c].at = "user"
           /\ \A u \in Tasks \ {c} : Stays(u)
           /\ "PEND" \notin k.status[c]
<1>0. /\ CoreInv(QueueAt, k, ctx) /\ Highest(k, ctx) /\ TcbKept(k, ctx) /\ k \in KernelState
      /\ WaitsAt({"queue", "mail"}, k, ctx) /\ Victims = {} /\ c # Isr
  BY TaskAssumption, TasksAreTCBs DEF Kernel, QueueKernel, CoreInv, Sane, KInv
<1>1. k' = SetStatus(k, c, {"TIMEOUT"}, {}) /\ ctx' = [ctx EXCEPT ![c] = UserThread]
  BY <1>0 DEF Done, UserThread
<1>2. /\ StepKeeps(QueueAt) /\ k'.list = k.list /\ k'.status[c] = k.status[c] \ {"TIMEOUT"}
      /\ \A u \in Tasks \ {c} : k'.status[u] = k.status[u] /\ ctx'[u] = ctx[u]
      /\ ctx'[c] = UserThread /\ k.status[c] \cap (Blocked \cup {"DELAY"}) = {}
  BY <1>0, <1>1, QueuePlaces, ReturnKept
<1>3. CoreInv(QueueAt, k', ctx') /\ Highest(k', ctx') /\ TcbKept(k', ctx')
  BY <1>0, <1>2 DEF StepKeeps
<1>4. "PEND" \notin k.status[c] /\ ctx'[c].at = "user"
  BY <1>2 DEF Blocked, UserThread, Thread
<1>5. WaitsAt({"queue", "mail"}, k', ctx')
  BY <1>0, <1>2, <1>4, QueuePlaces, WaitReturns
<1>6. k'.lock = k.lock
  BY <1>0, <1>1 DEF SetStatus, KernelState
<1>7. \A u \in Tasks \ {c} : Stays(u)
  BY <1>2 DEF Stays, Served
<1> QED BY <1>2, <1>3, <1>4, <1>5, <1>6, <1>7 DEF Kernel

-----------------------------------------------------------------------------
(***************************************************************************)
(* OsQueueOperate with a slot.                                             *)
(***************************************************************************)
\* The messages after the operation.
Put(op, v, s) ==
    CASE op = "readHead" -> Tail(s)
      [] op = "writeHead" -> <<v>> \o s
      [] op = "writeTail" -> Append(s, v)

LEMMA BufferStep ==
    ASSUME NEW qq \in RingType, NEW nr, NEW nw, Ring(qq, nr, nw), qq.used, NEW op \in Operate,
           NEW v, op = "readHead" \/ v \in Values, op = "readHead" => nr > 0,
           op # "readHead" => nw > 0, NEW a, a = OsQueueBufferOperate(qq, op, v),
           NEW mr, mr = (IF op = "readHead" THEN nr - 1 ELSE nr + 1),
           NEW mw, mw = (IF op = "readHead" THEN nw + 1 ELSE nw - 1)
    PROVE  /\ a \in RingType /\ a.used /\ a.len = qq.len /\ a.cnt = qq.cnt
           /\ Ring(a, mr, mw) /\ Items(a, mr) = Put(op, v, Items(qq, nr))
<1>1. CASE op = "readHead"
  <2>1. Put(op, v, Items(qq, nr)) = Tail(Items(qq, nr)) /\ mr = nr - 1 /\ mw = nw + 1
    BY <1>1 DEF Put
  <2>2. a = OsQueueBufferOperate(qq, "readHead", v) /\ nr > 0
    BY <1>1
  <2> QED BY <2>1, <2>2, ReadStep
<1>2. CASE op = "writeHead"
  <2>1. Put(op, v, Items(qq, nr)) = <<v>> \o Items(qq, nr) /\ mr = nr + 1 /\ mw = nw - 1
    BY <1>2 DEF Put
  <2>2. a = OsQueueBufferOperate(qq, "writeHead", v) /\ nw > 0 /\ v \in Values
    BY <1>2
  <2> QED BY <2>1, <2>2, WriteHeadStep
<1>3. CASE op = "writeTail"
  <2>1. Put(op, v, Items(qq, nr)) = Append(Items(qq, nr), v) /\ mr = nr + 1 /\ mw = nw - 1
    BY <1>3 DEF Put
  <2>2. a = OsQueueBufferOperate(qq, "writeTail", v) /\ nw > 0 /\ v \in Values
    BY <1>3
  <2> QED BY <2>1, <2>2, WriteTailStep
<1> QED BY <1>1, <1>2, <1>3 DEF Operate

\* Counting does not touch the ring.
LEMMA RingSame ==
    ASSUME NEW a, NEW b, a.used = b.used, a.len = b.len, a.head = b.head, a.tail = b.tail,
           a.buf = b.buf
    PROVE  /\ \A nr, nw : Ring(a, nr, nw) <=> Ring(b, nr, nw)
           /\ \A n : Items(a, n) = Items(b, n)
  BY DEF Ring, Items

LEMMA SlotsPass ==
    ASSUME NEW c \in Tasks \cup {Isr}, BackInUser(c), \A u \in Tasks \ {c} : Stays(u)
    PROVE  \A s : Slot(k', ctx', s) = Slot(k, ctx, s) \ {c}
<1>0. Isr \notin Tasks /\ "queue" \notin At /\ "user" # "queue"
  BY TaskAssumption, TasksAreTCBs, QueuePlaces
<1> SUFFICES ASSUME NEW s, NEW u \in Tasks
             PROVE  u \in Slot(k', ctx', s) <=> u \in Slot(k, ctx, s) /\ u # c
  BY DEF Slot
<1>1. CASE u = c
  BY <1>0, <1>1 DEF BackInUser, Slot
<1>2. CASE u # c
  <2>1. Stays(u)
    BY <1>2
  <2> QED BY <1>0, <1>2, <2>1 DEF Stays, Slot
<1> QED BY <1>1, <1>2

LEMMA SlotsHanded ==
    ASSUME NEW c \in Tasks \cup {Isr}, NEW t \in Tasks, Handed(c, t), NEW s
    PROVE  /\ ctx[t].at = "queue" /\ ctx[t].obj = s =>
                 Slot(k', ctx', s) = (Slot(k, ctx, s) \ {c}) \cup {t}
           /\ ~(ctx[t].at = "queue" /\ ctx[t].obj = s) =>
                 Slot(k', ctx', s) = Slot(k, ctx, s) \ {c}
           /\ t \notin Slot(k, ctx, s) /\ t # c
<1>0. Isr \notin Tasks /\ "queue" \notin At /\ "user" # "queue"
  BY TaskAssumption, TasksAreTCBs, QueuePlaces
<1>1. t \notin Slot(k, ctx, s) /\ t # c
  BY DEF Handed, Slot
<1>2. t \in Slot(k', ctx', s) <=> ctx[t].at = "queue" /\ ctx[t].obj = s
  BY DEF Handed, Slot
<1>3. ASSUME NEW u \in Tasks, u # t
      PROVE  u \in Slot(k', ctx', s) <=> u \in Slot(k, ctx, s) /\ u # c
  <2>1. CASE u = c
    BY <1>0, <2>1 DEF Handed, BackInUser, Slot
  <2>2. CASE u # c
    <3>1. Stays(u)
      BY <1>3, <2>2 DEF Handed
    <3> QED BY <1>0, <2>2, <3>1 DEF Stays, Slot
  <2> QED BY <2>1, <2>2
<1>4. Slot(k', ctx', s) \subseteq Tasks /\ Slot(k, ctx, s) \subseteq Tasks
  BY SlotType
<1> QED BY <1>1, <1>2, <1>3, <1>4

\* The places and the blocks of threads after a call that woke t or none.
LEMMA PlacesAfter ==
    ASSUME NEW c \in Tasks \cup {Isr}, BackInUser(c), Asked(ctx, arg), MailOK(pool, msg, k, ctx),
           NEW W, \A u \in Tasks \ (W \cup {c}) : Stays(u),
           \A u \in W : ctx'[u].at = ctx[u].at /\ ctx'[u].obj = ctx[u].obj /\ ctx[u].at = "queue",
           k.list[WaitList("mem")] = << >> => k'.list[WaitList("mem")] = << >>
    PROVE  Asked(ctx', arg) /\ MailOK(pool, msg, k', ctx')
<1>0. /\ Isr \notin Tasks /\ "queue" \notin At /\ "mail" \notin At
      /\ "user" # "queue" /\ "user" # "mail" /\ "mail" # "queue"
  BY TaskAssumption, TasksAreTCBs, QueuePlaces
<1>1. ASSUME NEW u \in Tasks
      PROVE  \/ ctx'[u].at \notin {"queue", "mail"}
             \/ /\ ctx'[u].at = ctx[u].at /\ ctx'[u].obj = ctx[u].obj
                /\ ctx'[u].at = "mail" /\ Served(k', u) => Served(k, u)
  <2>1. CASE u = c
    BY <1>0, <2>1 DEF BackInUser
  <2>2. CASE u \in W
    BY <1>0, <2>2
  <2>3. CASE u # c /\ u \notin W
    <3>1. Stays(u)
      BY <2>3
    <3> QED BY <1>0, <3>1 DEF Stays
  <2> QED BY <2>1, <2>2, <2>3
<1>2. Asked(ctx', arg)
  BY <1>1 DEF Asked
<1>3. ASSUME NEW u \in Tasks, ctx'[u].at = "mail", Served(k', u) PROVE msg[u] # NULL
  BY <1>1, <1>3 DEF MailOK
<1> QED BY <1>2, <1>3 DEF MailOK

\* What the counters and the granted slots add up to.
Messages(qq, kk, x) == Items(qq, Total(qq, kk, x, "read"))

\* c takes a slot of the side op works on: qq is the control block after that.
Takes(c, qq, op) ==
    LET own == ReadWrite(op)
        oth == Other(own)
    IN  /\ qq \in RingType /\ qq = [q EXCEPT !.cnt = qq.cnt]
        /\ qq.cnt[oth] = q.cnt[oth] /\ qq.cnt[own] <= q.cnt[own]
        /\ qq.cnt[own] + Cardinality(Slot(k, ctx, own) \ {c}) + 1 = Total(q, k, ctx, own)
        /\ c \notin Slot(k, ctx, oth)

\* The step is an operation on the abstract queue.
Operated(op, v) ==
    /\ q.used /\ q'.used /\ q'.len = q.len
    /\ Total(q, k, ctx, ReadWrite(op)) > 0
    /\ Messages(q', k', ctx') = Put(op, v, Messages(q, k, ctx))

LEMMA Sides ==
    ASSUME NEW op \in Operate
    PROVE  /\ ReadWrite(op) \in Side /\ Other(ReadWrite(op)) \in Side
           /\ ReadWrite(op) # Other(ReadWrite(op))
           /\ op = "readHead" => ReadWrite(op) = "read" /\ Other(ReadWrite(op)) = "write"
           /\ op # "readHead" => ReadWrite(op) = "write" /\ Other(ReadWrite(op)) = "read"
           /\ \A s \in Side : s = ReadWrite(op) \/ s = Other(ReadWrite(op))
  BY DEF Operate, ReadWrite, Other, Side

LEMMA OperateKept ==
    ASSUME QueueSafe, QueueKernel, NEW c \in Tasks \cup {Isr}, Ready(c), NEW op \in Operate,
           NEW v, op = "readHead" \/ v \in Values, q.used, NEW qq, Takes(c, qq, op),
           OperateSlot(c, qq, op, v)
    PROVE  /\ Kernel(k', ctx') /\ RingOK(q', k', ctx') /\ SidesWait(q', k')
           /\ Asked(ctx', arg) /\ MailOK(pool, msg, k', ctx') /\ BackInUser(c)
           /\ Operated(op, v)
<1>0. PICK own, oth, nr, nw, to, tt, a :
         /\ own = ReadWrite(op) /\ oth = Other(ReadWrite(op))
         /\ nr = Total(q, k, ctx, "read") /\ nw = Total(q, k, ctx, "write")
         /\ to = Total(q, k, ctx, own) /\ tt = Total(q, k, ctx, oth)
         /\ a = OsQueueBufferOperate(qq, op, v)
  OBVIOUS
<1>a. /\ own \in Side /\ oth \in Side /\ own # oth /\ \A s \in Side : s = own \/ s = oth
      /\ op = "readHead" => own = "read" /\ oth = "write" /\ to = nr /\ tt = nw
      /\ op # "readHead" => own = "write" /\ oth = "read" /\ to = nw /\ tt = nr
  BY <1>0, Sides
<1>b. /\ Kernel(k, ctx) /\ q \in RingType /\ Ring(q, nr, nw) /\ Sane(k)
      /\ WaitsAt({"queue", "mail"}, k, ctx) /\ SidesWait(q, k)
      /\ Asked(ctx, arg) /\ MailOK(pool, msg, k, ctx)
  BY <1>0 DEF QueueSafe, RingOK, Kernel, CoreInv
<1>c. /\ qq \in RingType /\ qq = [q EXCEPT !.cnt = qq.cnt]
      /\ qq.cnt[oth] = q.cnt[oth] /\ qq.cnt[own] <= q.cnt[own]
      /\ qq.cnt[own] + Cardinality(Slot(k, ctx, own) \ {c}) + 1 = to
      /\ c \notin Slot(k, ctx, oth)
  BY <1>0 DEF Takes
<1>d. /\ q.cnt[own] \in 0..MaxLen /\ q.cnt[oth] \in 0..MaxLen /\ MaxLen \in Nat
      /\ qq.cnt[own] \in 0..MaxLen /\ qq.cnt \in [Side -> 0..MaxLen]
  BY <1>a, <1>b, <1>c, QueueAssumption DEF RingType
<1>e. /\ qq.used = q.used /\ qq.len = q.len /\ qq.head = q.head /\ qq.tail = q.tail
      /\ qq.buf = q.buf
  BY <1>b, <1>c DEF RingType
<1>f. Ring(qq, nr, nw) /\ Items(qq, nr) = Items(q, nr) /\ qq.used
  BY <1>b, <1>e, RingSame
<1>g. /\ nr \in Nat /\ nw \in Nat /\ nr + nw = q.len /\ q.len <= MaxLen /\ q.len \in Nat
  BY <1>b, RingFacts
<1>h. /\ Cardinality(Slot(k, ctx, own) \ {c}) \in Nat /\ Cardinality(Slot(k, ctx, oth)) \in Nat
      /\ IsFiniteSet(Slot(k, ctx, oth))
  <2>1. IsFiniteSet(Slot(k, ctx, own)) /\ IsFiniteSet(Slot(k, ctx, oth))
    BY SlotType
  <2>2. IsFiniteSet(Slot(k, ctx, own) \ {c})
    BY <2>1, FS_RemoveElement
  <2> QED BY <2>1, <2>2, FS_CardinalityType
<1>i. to \in Nat /\ tt \in Nat /\ to > 0 /\ to + tt = q.len
  BY <1>a, <1>c, <1>d, <1>g, <1>h DEF Operate
<1>j. tt = q.cnt[oth] + Cardinality(Slot(k, ctx, oth))
  BY <1>0 DEF Total
<1>k. PICK mr, mw : /\ mr = (IF op = "readHead" THEN nr - 1 ELSE nr + 1)
                    /\ mw = (IF op = "readHead" THEN nw + 1 ELSE nw - 1)
  OBVIOUS
<1>l. (op = "readHead" => nr > 0) /\ (op # "readHead" => nw > 0)
  BY <1>a, <1>i
<1>1. /\ a \in RingType /\ a.used /\ a.len = qq.len /\ a.cnt = qq.cnt
      /\ Ring(a, mr, mw) /\ Items(a, mr) = Put(op, v, Items(qq, nr))
  BY <1>0, <1>c, <1>f, <1>k, <1>l, BufferStep
<1>2. /\ op = "readHead" => mr = to - 1 /\ mw = tt + 1
      /\ op # "readHead" => mw = to - 1 /\ mr = tt + 1
  BY <1>a, <1>k
\* Whatever becomes of the slot, one is taken and one is given.
<1>3. ASSUME q' \in RingType, q'.used = a.used, q'.len = a.len, q'.head = a.head,
             q'.tail = a.tail, q'.buf = a.buf, Total(q', k', ctx', own) = to - 1,
             Total(q', k', ctx', oth) = tt + 1
      PROVE  RingOK(q', k', ctx') /\ Operated(op, v)
  <2>1. Total(q', k', ctx', "read") = mr /\ Total(q', k', ctx', "write") = mw
    BY <1>a, <1>2, <1>3
  <2>2. Ring(q', mr, mw) /\ Items(q', mr) = Items(a, mr)
    BY <1>1, <1>3, RingSame
  <2>3. q'.used /\ q'.len = q.len
    BY <1>1, <1>3, <1>e
  <2>4. Messages(q', k', ctx') = Put(op, v, Messages(q, k, ctx))
    BY <1>0, <1>1, <1>f, <2>1, <2>2 DEF Messages
  <2> QED BY <1>0, <1>3, <1>i, <2>1, <2>2, <2>3, <2>4 DEF RingOK, Operated
<1>4. WaitList(oth) \in Blockers /\ oth \in WaitObjs /\ WaitList(own) \in Blockers
      /\ WaitList("mem") \in Blockers
  BY <1>a, ObjectLists DEF Side
<1>5. CASE k.list[WaitList(oth)] # << >>
  <2>0. PICK t : t = k.list[WaitList(oth)][1]
    OBVIOUS
  <2>1. q' = a /\ Done(c, OsSchedTaskWake(k, t), TRUE)
    BY <1>0, <1>5, <2>0 DEF OperateSlot
  <2>2. t \in Tasks /\ t \in Range(k.list[WaitList(oth)]) /\ "PEND" \in k.status[t]
    BY <1>b, <1>4, <1>5, <2>0, FirstWaiter
  <2>3. Kernel(k', ctx') /\ Handed(c, t)
    BY <1>b, <2>1, <2>2, DoneWakes
  <2>4. ctx[t].at = "queue" /\ ctx[t].obj = oth
    <3>1. ctx[t].at \in {"queue", "mail"} /\ ctx[t].obj = oth
      BY <1>b, <1>4, <2>2, WhereItWaits
    <3> QED BY <1>a, <1>b, <2>2, <3>1 DEF Asked, Side
  <2>5. /\ Slot(k', ctx', own) = Slot(k, ctx, own) \ {c}
        /\ Slot(k', ctx', oth) = Slot(k, ctx, oth) \cup {t}
        /\ t \notin Slot(k, ctx, oth)
    <3>1. Slot(k', ctx', own) = Slot(k, ctx, own) \ {c}
      BY <1>a, <2>2, <2>3, <2>4, SlotsHanded
    <3>2. Slot(k', ctx', oth) = (Slot(k, ctx, oth) \ {c}) \cup {t} /\ t \notin Slot(k, ctx, oth)
      BY <2>2, <2>3, <2>4, SlotsHanded
    <3> QED BY <1>c, <3>1, <3>2
  <2>6. Cardinality(Slot(k', ctx', oth)) = Cardinality(Slot(k, ctx, oth)) + 1
    BY <1>h, <2>5, FS_AddElement
  <2>7. q'.cnt = qq.cnt
    BY <1>1, <2>1
  <2>8. Total(q', k', ctx', own) = to - 1 /\ Total(q', k', ctx', oth) = tt + 1
    <3>1. Total(q', k', ctx', own) = qq.cnt[own] + Cardinality(Slot(k, ctx, own) \ {c})
      BY <2>5, <2>7 DEF Total
    <3>2. Total(q', k', ctx', oth) = q.cnt[oth] + (Cardinality(Slot(k, ctx, oth)) + 1)
      BY <1>c, <2>6, <2>7 DEF Total
    <3> QED BY <1>c, <1>d, <1>h, <1>i, <1>j, <3>1, <3>2
  <2>9. RingOK(q', k', ctx') /\ Operated(op, v)
    BY <1>1, <1>3, <2>1, <2>8
  <2>10. \A h \in Blockers : k.list[h] = << >> => k'.list[h] = << >>
    BY <2>3, NothingLeft DEF Handed
  <2>11. SidesWait(q', k')
    <3> SUFFICES ASSUME NEW s \in Side, q'.cnt[s] > 0 PROVE k'.list[WaitList(s)] = << >>
      BY <2>9 DEF SidesWait, Operated
    <3>1. q.cnt[s] > 0
      BY <1>a, <1>c, <1>d, <2>7
    <3>2. k.list[WaitList(s)] = << >>
      BY <1>b, <3>1 DEF SidesWait
    <3> QED BY <1>a, <1>4, <2>10, <3>2
  <2>12. BackInUser(c)
    BY <2>3 DEF Handed
  <2>13. Asked(ctx', arg) /\ MailOK(pool, msg, k', ctx')
    <3>1. PICK W : W = {t}
      OBVIOUS
    <3>2. /\ \A u \in Tasks \ (W \cup {c}) : Stays(u)
          /\ \A u \in W : ctx'[u].at = ctx[u].at /\ ctx'[u].obj = ctx[u].obj /\ ctx[u].at = "queue"
      BY <2>3, <2>4, <3>1 DEF Handed
    <3> QED BY <1>b, <1>4, <2>10, <2>12, <3>2, PlacesAfter
  <2> QED BY <2>3, <2>9, <2>11, <2>12, <2>13
<1>6. CASE k.list[WaitList(oth)] = << >>
  <2>1. q' = [a EXCEPT !.cnt[oth] = a.cnt[oth] + 1] /\ Done(c, k, FALSE)
    BY <1>0, <1>6 DEF OperateSlot
  <2>2. Kernel(k', ctx') /\ k' = k /\ BackInUser(c) /\ \A u \in Tasks \ {c} : Stays(u)
    BY <1>b, <2>1, DonePasses
  <2>3. \A s : Slot(k', ctx', s) = Slot(k, ctx, s) \ {c}
    BY <2>2, SlotsPass
  <2>4. Slot(k', ctx', oth) = Slot(k, ctx, oth)
    BY <1>c, <2>3
  <2>5. /\ q'.used = a.used /\ q'.len = a.len /\ q'.head = a.head /\ q'.tail = a.tail
        /\ q'.buf = a.buf /\ q'.cnt = [qq.cnt EXCEPT ![oth] = q.cnt[oth] + 1]
    BY <1>1, <1>c, <2>1 DEF RingType
  <2>6. q'.cnt[own] = qq.cnt[own] /\ q'.cnt[oth] = q.cnt[oth] + 1
    BY <1>a, <1>d, <2>5
  <2>7. q.cnt[oth] + 1 \in 0..MaxLen
    BY <1>d, <1>g, <1>h, <1>i, <1>j
  <2>8. q' \in RingType
    <3>1. q'.cnt \in [Side -> 0..MaxLen]
      BY <1>d, <2>5, <2>7
    <3>2. q' = [a EXCEPT !.cnt = q'.cnt]
      BY <1>1, <2>1 DEF RingType
    <3> QED BY <1>1, <3>1, <3>2 DEF RingType
  <2>9. Total(q', k', ctx', own) = to - 1 /\ Total(q', k', ctx', oth) = tt + 1
    <3>1. Total(q', k', ctx', own) = qq.cnt[own] + Cardinality(Slot(k, ctx, own) \ {c})
      BY <2>3, <2>6 DEF Total
    <3>2. Total(q', k', ctx', oth) = (q.cnt[oth] + 1) + Cardinality(Slot(k, ctx, oth))
      BY <2>4, <2>6 DEF Total
    <3> QED BY <1>c, <1>d, <1>h, <1>i, <1>j, <3>1, <3>2
  <2>10. RingOK(q', k', ctx') /\ Operated(op, v)
    BY <1>3, <2>5, <2>8, <2>9
  <2>11. SidesWait(q', k')
    <3> SUFFICES ASSUME NEW s \in Side, q'.cnt[s] > 0 PROVE k'.list[WaitList(s)] = << >>
      BY <2>10 DEF SidesWait, Operated
    <3>1. CASE s = oth
      BY <1>6, <2>2, <3>1
    <3>2. CASE s = own
      <4>1. q.cnt[own] > 0
        BY <1>c, <1>d, <2>6, <3>2
      <4> QED BY <1>a, <1>b, <2>2, <3>2, <4>1 DEF SidesWait
    <3> QED BY <1>a, <3>1, <3>2
  <2>12. Asked(ctx', arg) /\ MailOK(pool, msg, k', ctx')
    <3>1. PICK W : W = {}
      OBVIOUS
    <3>2. /\ \A u \in Tasks \ (W \cup {c}) : Stays(u)
          /\ \A u \in W : ctx'[u].at = ctx[u].at /\ ctx'[u].obj = ctx[u].obj /\ ctx[u].at = "queue"
          /\ k.list[WaitList("mem")] = << >> => k'.list[WaitList("mem")] = << >>
      BY <2>2, <3>1
    <3> QED BY <1>b, <2>2, <3>2, PlacesAfter
  <2> QED BY <2>2, <2>10, <2>11, <2>12
<1> QED BY <1>5, <1>6

-----------------------------------------------------------------------------
(***************************************************************************)
(* The actions of Queue.                                                   *)
(***************************************************************************)
LEMMA NewQueueRing ==
    ASSUME NEW len \in 0..MaxLen, NEW used \in BOOLEAN, NEW qq, qq = NewQueue(used, len)
    PROVE  /\ qq \in RingType /\ qq.used = used /\ qq.len = len
           /\ qq.cnt["read"] = 0 /\ qq.cnt["write"] = len
           /\ used /\ len > 0 => Ring(qq, 0, len)
           /\ ~used => Ring(qq, 0, 0)
           /\ Items(qq, 0) = << >>
<1>0. MaxLen \in Nat \ {0} /\ len \in Nat /\ len <= MaxLen
  BY QueueAssumption
<1>1. /\ qq.used = used /\ qq.len = len /\ qq.head = 0 /\ qq.tail = 0
      /\ qq.cnt = [s \in Side |-> IF s = "read" THEN 0 ELSE len]
      /\ qq.buf = [i \in 0..(MaxLen - 1) |-> NULL]
  BY DEF NewQueue
<1>2. qq.cnt["read"] = 0 /\ qq.cnt["write"] = len /\ qq.cnt \in [Side -> 0..MaxLen]
  BY <1>0, <1>1 DEF Side
<1>3. qq \in RingType
  <2>1. qq.buf \in [0..(MaxLen - 1) -> Values \cup {NULL}] /\ 0 \in 0..MaxLen
    BY <1>0, <1>1
  <2> QED BY <1>0, <1>1, <1>2, <2>1 DEF RingType, NewQueue
<1>4. ASSUME used, len > 0 PROVE Ring(qq, 0, len)
  <2>1. len \in Nat \ {0} /\ 0 \in Nat /\ 0 < len
    BY <1>0, <1>4
  <2>2. 0 % len = 0
    BY <2>1, ModLow
  <2> QED BY <1>0, <1>1, <1>4, <2>1, <2>2 DEF Ring
<1>5. ASSUME ~used PROVE Ring(qq, 0, 0)
  BY <1>1, <1>5 DEF Ring
<1>6. Items(qq, 0) = << >>
  <2>1. DOMAIN Items(qq, 0) = {}
    BY DEF Items
  <2>2. Items(qq, 0) \in Seq({})
    BY DEF Items
  <2> QED BY <2>2, EmptySeq
<1> QED BY <1>1, <1>2, <1>3, <1>4, <1>5, <1>6

LEMMA NobodyGranted ==
    ASSUME q \in RingType, Total(q, k, ctx, "read") + Total(q, k, ctx, "write")
                              = q.cnt["read"] + q.cnt["write"]
    PROVE  \A s \in Side : Cardinality(Slot(k, ctx, s)) = 0
<1>1. q.cnt["read"] \in Nat /\ q.cnt["write"] \in Nat
  BY QueueAssumption DEF RingType, Side
<1>2. Cardinality(Slot(k, ctx, "read")) \in Nat /\ Cardinality(Slot(k, ctx, "write")) \in Nat
  BY SlotType
<1> QED BY <1>1, <1>2 DEF Total, Side

LEMMA QueueRenewed ==
    ASSUME QueueSafe, NEW used \in BOOLEAN, NEW len \in 0..MaxLen, used => len > 0, ~used => len = 0,
           q' = NewQueue(used, len), UNCHANGED <<k, ctx, arg, pool, msg>>,
           \A s \in Side : Cardinality(Slot(k, ctx, s)) = 0 /\ k.list[WaitList(s)] = << >>
    PROVE  QueueSafe' /\ Messages(q', k', ctx') = << >>
<1>0. k' = k /\ ctx' = ctx /\ arg' = arg /\ pool' = pool /\ msg' = msg /\ len \in Nat
  BY QueueAssumption
<1>1. PICK qq : qq = NewQueue(used, len)
  OBVIOUS
<1>2. /\ qq \in RingType /\ qq.cnt["read"] = 0 /\ qq.cnt["write"] = len
      /\ Ring(qq, 0, len) /\ Items(qq, 0) = << >>
  BY <1>1, NewQueueRing
<1>3. Total(q', k', ctx', "read") = 0 /\ Total(q', k', ctx', "write") = len
  <2>1. Cardinality(Slot(k, ctx, "read")) = 0 /\ Cardinality(Slot(k, ctx, "write")) = 0
    BY DEF Side
  <2> QED BY <1>0, <1>1, <1>2, <2>1 DEF Total
<1>4. RingOK(q', k', ctx') /\ Messages(q', k', ctx') = << >>
  BY <1>1, <1>2, <1>3 DEF RingOK, Messages
<1>5. SidesWait(q', k')
  BY <1>0 DEF SidesWait
<1> QED BY <1>0, <1>4, <1>5 DEF QueueSafe

LEMMA QueueCreateKept ==
    ASSUME QueueSafe, NEW c \in Tasks \cup {Isr}, NEW len \in 1..MaxLen, OsQueueCreate(c, len)
    PROVE  QueueSafe' /\ Messages(q', k', ctx') = << >>
<1>1. q \in RingType /\ Ring(q, Total(q, k, ctx, "read"), Total(q, k, ctx, "write")) /\ ~q.used
      /\ SidesWait(q, k)
  BY DEF QueueSafe, RingOK, OsQueueCreate
<1>2. Total(q, k, ctx, "read") = 0 /\ Total(q, k, ctx, "write") = 0
  BY <1>1 DEF Ring
<1>3. \A s \in Side : Cardinality(Slot(k, ctx, s)) = 0
  <2>1. q.cnt["read"] \in Nat /\ q.cnt["write"] \in Nat
    BY <1>1, QueueAssumption DEF RingType, Side
  <2>2. Cardinality(Slot(k, ctx, "read")) \in Nat /\ Cardinality(Slot(k, ctx, "write")) \in Nat
    BY SlotType
  <2> QED BY <1>2, <2>1, <2>2 DEF Total, Side
<1>4. \A s \in Side : k.list[WaitList(s)] = << >>
  BY <1>1 DEF SidesWait
<1>5. len \in 0..MaxLen /\ len > 0 /\ q' = NewQueue(TRUE, len) /\ UNCHANGED <<k, ctx, arg, pool, msg>>
  BY QueueAssumption DEF OsQueueCreate
<1> QED BY <1>3, <1>4, <1>5, QueueRenewed

LEMMA QueueDeleteKept ==
    ASSUME QueueSafe, NEW c \in Tasks \cup {Isr}, LOS_QueueDelete(c)
    PROVE  QueueSafe' /\ Messages(q', k', ctx') = << >>
<1>1. /\ q \in RingType /\ Ring(q, Total(q, k, ctx, "read"), Total(q, k, ctx, "write")) /\ q.used
      /\ q.cnt["read"] + q.cnt["write"] = q.len
      /\ \A o \in WaitObjs : k.list[WaitList(o)] = << >>
      /\ q' = NewQueue(FALSE, 0) /\ UNCHANGED <<k, ctx, arg, pool, msg>>
  BY DEF QueueSafe, RingOK, LOS_QueueDelete
<1>2. Total(q, k, ctx, "read") + Total(q, k, ctx, "write") = q.len
  BY <1>1 DEF Ring
<1>3. \A s \in Side : Cardinality(Slot(k, ctx, s)) = 0
  BY <1>1, <1>2, NobodyGranted
<1>4. \A s \in Side : k.list[WaitList(s)] = << >>
  BY <1>1, ObjectLists DEF Side
<1>5. 0 \in 0..MaxLen
  BY QueueAssumption
<1> QED BY <1>1, <1>3, <1>4, <1>5, QueueRenewed

LEMMA QueueOperateKept ==
    ASSUME QueueSafe, QueueKernel, NEW c \in Tasks \cup {Isr}, NEW op \in Operate, NEW v,
           v \in Values \cup {NULL}, op = "readHead" \/ v \in Values, OsQueueOperate(c, op, v)
    PROVE  QueueSafe' /\ (Operated(op, v) \/ (q' = q /\ \A s : Slot(k', ctx', s) = Slot(k, ctx, s)))
<1>0. PICK own : own = ReadWrite(op)
  OBVIOUS
<1>a. /\ Kernel(k, ctx) /\ CoreInv(QueueAt, k, ctx) /\ WaitsAt({"queue", "mail"}, k, ctx)
      /\ q \in RingType /\ SidesWait(q, k) /\ Asked(ctx, arg) /\ MailOK(pool, msg, k, ctx)
      /\ q.used /\ Caller(c, "queue") /\ pool' = pool /\ msg' = msg /\ Sane(k)
  BY DEF QueueSafe, RingOK, Kernel, OsQueueOperate, CoreInv
<1>b. own \in Side /\ Other(own) \in Side /\ own # Other(own) /\ own \in {"read", "write", "mem"}
      /\ \A s \in Side : s = own \/ s = Other(own)
  BY <1>0, Sides DEF Side
<1>c. Calling(c)
  BY <1>a, CallerCalls
<1>d. q.cnt[own] \in 0..MaxLen /\ MaxLen \in Nat /\ q.cnt \in [Side -> 0..MaxLen]
  BY <1>a, <1>b, QueueAssumption DEF RingType
<1>e. c \in Tasks => c # Isr /\ ctx[c].at = "user" /\ k.status[c] \cap (Blocked \cup {"DELAY"}) = {}
                       /\ Running(c) /\ ~ctx[c].win
  <2> SUFFICES ASSUME c \in Tasks
               PROVE  c # Isr /\ ctx[c].at = "user" /\ k.status[c] \cap (Blocked \cup {"DELAY"}) = {}
                       /\ Running(c) /\ ~ctx[c].win
    OBVIOUS
  <2>1. c # Isr
    BY TaskAssumption, TasksAreTCBs
  <2>2. /\ k.run = c /\ ~k.pendsv /\ ~k.fault /\ ctx[c].at = "user" /\ ~ctx[c].win
        /\ k.status[c] \cap (Blocked \cup {"DELAY"}) = {}
    BY <1>a, <1>c, CallerNotStuck
  <2> QED BY <2>1, <2>2 DEF Running
<1>1. CASE /\ q.cnt[own] > 0
           /\ OperateSlot(c, [q EXCEPT !.cnt[own] = q.cnt[own] - 1], op, v)
           /\ arg' = arg
  <2>0. PICK qq : qq = [q EXCEPT !.cnt[own] = q.cnt[own] - 1]
    OBVIOUS
  <2>1. /\ qq.cnt = [q.cnt EXCEPT ![own] = q.cnt[own] - 1]
        /\ qq = [q EXCEPT !.cnt = qq.cnt]
    BY <1>a, <2>0 DEF RingType
  <2>2. qq.cnt[own] = q.cnt[own] - 1 /\ qq.cnt[Other(own)] = q.cnt[Other(own)]
        /\ qq.cnt \in [Side -> 0..MaxLen]
    BY <1>1, <1>b, <1>d, <2>1
  <2>3. qq \in RingType
    BY <1>a, <2>1, <2>2 DEF RingType
  <2>4. \A s : c \notin Slot(k, ctx, s)
    BY <1>e DEF Slot
  <2>5. qq.cnt[own] + Cardinality(Slot(k, ctx, own) \ {c}) + 1 = Total(q, k, ctx, own)
    <3>1. Slot(k, ctx, own) \ {c} = Slot(k, ctx, own) /\ Cardinality(Slot(k, ctx, own)) \in Nat
      BY <2>4, SlotType
    <3> QED BY <1>d, <2>2, <3>1 DEF Total
  <2>6. Takes(c, qq, op)
    <3>1. qq.cnt[own] <= q.cnt[own]
      BY <1>d, <2>2
    <3> QED BY <1>0, <2>1, <2>2, <2>3, <2>4, <2>5, <3>1 DEF Takes
  <2>7. Ready(c)
    <3>1. CASE c \in Tasks
      <4>1. "TIMEOUT" \notin k.status[c]
        BY <1>a, <1>e, <3>1, QueuePlaces DEF WaitsAt, Blocked
      <4> QED BY <1>e, <3>1, <4>1, QueuePlaces DEF Ready
    <3>2. CASE c = Isr
      BY <1>c, <3>2 DEF Ready
    <3> QED BY <3>1, <3>2
  <2>8. OperateSlot(c, qq, op, v)
    BY <1>1, <2>0
  <2>9. /\ Kernel(k', ctx') /\ RingOK(q', k', ctx') /\ SidesWait(q', k')
        /\ Asked(ctx', arg) /\ MailOK(pool, msg, k', ctx') /\ Operated(op, v)
    BY <1>a, <2>6, <2>7, <2>8, OperateKept
  <2> QED BY <1>1, <1>a, <2>9 DEF QueueSafe
<1>2. CASE /\ q.cnt[own] = 0 /\ c # Isr /\ k.lock = 0
           /\ \E timed \in BOOLEAN : k' = OsSchedTaskWait(k, WaitList(own), timed)
           /\ ctx' = [ctx EXCEPT ![c] = Thread("queue", own, TRUE)]
           /\ arg' = [arg EXCEPT ![c] = [op |-> op, val |-> v]]
           /\ q' = q
  <2>0. c \in Tasks
    BY <1>2
  <2>1. PICK timed \in BOOLEAN : k' = OsSchedTaskWait(k, WaitList(own), timed)
    BY <1>2
  <2>2. /\ Kernel(k', ctx') /\ Begins(c, WaitList(own)) /\ ~Served(k', c)
        /\ ctx'[c].at = "queue" /\ ctx'[c].obj = own /\ ctx[c].at = "user"
        /\ \A u \in Tasks \ {c} : Stays(u)
    BY <1>2, <1>a, <1>b, <1>c, <2>0, <2>1, QueueWaits
  <2>3. \A s : Slot(k', ctx', s) = Slot(k, ctx, s)
    <3> SUFFICES ASSUME NEW s, NEW u \in Tasks
                 PROVE  u \in Slot(k', ctx', s) <=> u \in Slot(k, ctx, s)
      BY DEF Slot
    <3>1. CASE u = c
      BY <2>2, <3>1 DEF Slot
    <3>2. CASE u # c
      <4>1. Stays(u)
        BY <2>2, <3>2
      <4> QED BY <4>1, QueuePlaces DEF Stays, Slot
    <3> QED BY <3>1, <3>2
  <2>4. RingOK(q', k', ctx')
    BY <1>2, <2>3 DEF QueueSafe, RingOK, Total
  <2>5. \A h \in Blockers : h # WaitList(own) => k'.list[h] = k.list[h]
    BY <2>2 DEF Begins
  <2>6. SidesWait(q', k')
    <3> SUFFICES ASSUME NEW s \in Side, q.cnt[s] > 0 PROVE k'.list[WaitList(s)] = << >>
      BY <1>2, <1>a DEF SidesWait
    <3>1. s # own
      BY <1>2, <1>d
    <3>2. WaitList(s) # WaitList(own) /\ WaitList(s) \in Blockers
      BY <3>1, ObjectLists DEF WaitList, Side
    <3>3. k.list[WaitList(s)] = << >>
      BY <1>a DEF SidesWait
    <3> QED BY <2>5, <3>2, <3>3
  <2>7. Asked(ctx', arg')
    <3>1. [op |-> op, val |-> v] \in [op : Operate, val : Values \cup {NULL}]
      OBVIOUS
    <3>2. arg'[c] = [op |-> op, val |-> v] /\ \A u \in Tasks \ {c} : arg'[u] = arg[u]
      BY <1>2, <1>a, <2>0 DEF Asked
    <3>3. arg' \in [Tasks -> [op : Operate, val : Values \cup {NULL}]]
      BY <1>2, <1>a, <3>1 DEF Asked
    <3>4. arg'[c].op = op /\ arg'[c].val = v
      BY <3>2
    <3>5. own = "write" => v \in Values
      BY <1>0, Sides
    <3>6. ASSUME NEW u \in Tasks \ {c}
          PROVE  \/ ctx'[u].at = ctx[u].at /\ ctx'[u].obj = ctx[u].obj
                 \/ ctx'[u].at \notin {"queue", "mail"}
      <4>1. Stays(u)
        BY <2>2
      <4> QED BY <4>1, QueuePlaces DEF Stays
    <3> QED BY <1>0, <1>a, <2>2, <3>2, <3>3, <3>4, <3>5, <3>6 DEF Asked
  <2>8. MailOK(pool', msg', k', ctx')
    <3>1. WaitList("mem") # WaitList(own) /\ WaitList("mem") \in Blockers
      BY <1>b, ObjectLists DEF WaitList, Side
    <3>2. ASSUME NEW u \in Tasks, ctx'[u].at = "mail", Served(k', u) PROVE msg[u] # NULL
      <4>1. u # c
        BY <2>2, <3>2
      <4>2. Stays(u)
        BY <2>2, <4>1
      <4>3. ctx[u].at = "mail" /\ Served(k, u)
        BY <3>2, <4>2, QueuePlaces DEF Stays
      <4> QED BY <1>a, <4>3 DEF MailOK
    <3> QED BY <1>a, <2>5, <3>1, <3>2 DEF MailOK
  <2> QED BY <1>2, <2>2, <2>3, <2>4, <2>6, <2>7, <2>8 DEF QueueSafe
<1> QED BY <1>0, <1>1, <1>2 DEF OsQueueOperate

\* A task that runs inside a call has left its wait.
LEMMA NotWaiting ==
    ASSUME Kernel(k, ctx), NEW c \in Tasks, Running(c), ~ctx[c].win
    PROVE  /\ "PEND" \notin k.status[c] /\ "UNUSED" \notin k.status[c]
           /\ Served(k, c) <=> "TIMEOUT" \notin k.status[c]
<1>0. CoreInv(QueueAt, k, ctx) /\ c \in TCB /\ c # Dummy /\ c # Idle
  BY TasksAreTCBs DEF Kernel
<1>1. k.run = c /\ ~(k.scheduled /\ Stuck(k))
  BY <1>0, DummyNeverRuns
<1>2. k.scheduled
  BY <1>0, <1>1 DEF CoreInv, Booting
<1>3. "PEND" \notin k.status[c] /\ "UNUSED" \notin k.status[c]
  BY <1>0, <1>1, <1>2 DEF Stuck, Blocked
<1> QED BY <1>3 DEF Served

LEMMA QueueReturnKept ==
    ASSUME QueueSafe, QueueKernel, NEW c \in Tasks, QueueOperateReturn(c)
    PROVE  QueueSafe' /\ \/ q' = q /\ \A s : Slot(k', ctx', s) = Slot(k, ctx, s)
                         \/ /\ arg[c].op = "readHead" \/ arg[c].val \in Values
                            /\ Operated(arg[c].op, arg[c].val)
<1>0. /\ Kernel(k, ctx) /\ RingOK(q, k, ctx) /\ SidesWait(q, k) /\ Asked(ctx, arg)
      /\ MailOK(pool, msg, k, ctx) /\ pool' = pool /\ msg' = msg /\ q \in RingType
      /\ Running(c) /\ ctx[c].at = "queue" /\ ~ctx[c].win /\ arg' = [arg EXCEPT ![c] = NoArg]
  BY DEF QueueSafe, QueueOperateReturn, RingOK
<1>1. PICK op, v : op = arg[c].op /\ v = arg[c].val
  OBVIOUS
<1>2. PICK own : own = ReadWrite(op)
  OBVIOUS
<1>3. /\ op \in Operate /\ ctx[c].obj = own /\ (own = "write" => v \in Values) /\ c # Isr
      /\ arg \in [Tasks -> [op : Operate, val : Values \cup {NULL}]]
  BY <1>0, <1>1, <1>2, TaskAssumption, TasksAreTCBs DEF Asked
<1>4. op = "readHead" \/ v \in Values
  BY <1>2, <1>3, Sides
<1>5. ctx[c].at \notin Creating
  BY <1>0, QueuePlaces
\* The arguments of a call that is over do not matter.
<1>6. ASSUME Asked(ctx', arg), ctx'[c].at = "user" PROVE Asked(ctx', arg')
  <2>1. NoArg \in [op : Operate, val : Values \cup {NULL}]
    BY DEF NoArg, Operate
  <2>2. /\ arg' \in [Tasks -> [op : Operate, val : Values \cup {NULL}]]
        /\ \A u \in Tasks \ {c} : arg'[u] = arg[u]
    BY <1>0, <1>3, <2>1
  <2> QED BY <1>6, <2>2 DEF Asked
<1>7. CASE "TIMEOUT" \in k.status[c]
  <2>1. Done(c, SetStatus(k, c, {"TIMEOUT"}, {}), FALSE) /\ q' = q
    BY <1>7 DEF QueueOperateReturn, Has
  <2>2. /\ Kernel(k', ctx') /\ k'.list = k.list /\ ctx'[c].at = "user"
        /\ \A u \in Tasks \ {c} : Stays(u)
    BY <1>0, <1>5, <2>1, DoneReturns
  <2>3. BackInUser(c) /\ c \in Tasks \cup {Isr}
    BY <2>2 DEF BackInUser
  <2>4. \A s : Slot(k', ctx', s) = Slot(k, ctx, s)
    <3>1. \A s : c \notin Slot(k, ctx, s)
      BY <1>7 DEF Slot, Served
    <3>2. \A s : Slot(k', ctx', s) = Slot(k, ctx, s) \ {c}
      BY <2>2, <2>3, SlotsPass
    <3> QED BY <3>1, <3>2
  <2>5. RingOK(q', k', ctx') /\ SidesWait(q', k')
    BY <1>0, <2>1, <2>2, <2>4 DEF RingOK, Total, SidesWait
  <2>6. Asked(ctx', arg) /\ MailOK(pool, msg, k', ctx')
    <3>1. PICK W : W = {}
      OBVIOUS
    <3>2. /\ \A u \in Tasks \ (W \cup {c}) : Stays(u)
          /\ \A u \in W : ctx'[u].at = ctx[u].at /\ ctx'[u].obj = ctx[u].obj /\ ctx[u].at = "queue"
          /\ k.list[WaitList("mem")] = << >> => k'.list[WaitList("mem")] = << >>
      BY <2>2, <3>1
    <3> QED BY <1>0, <2>3, <3>2, PlacesAfter
  <2> QED BY <1>0, <1>6, <2>1, <2>2, <2>4, <2>5, <2>6 DEF QueueSafe
<1>8. CASE "TIMEOUT" \notin k.status[c]
  <2>1. OperateSlot(c, q, op, v)
    BY <1>1, <1>8 DEF QueueOperateReturn, Has
  <2>2. c \in Slot(k, ctx, own) /\ c \notin Slot(k, ctx, Other(own))
    BY <1>0, <1>2, <1>3, <1>8, NotWaiting, Sides DEF Slot
  <2>3. own \in Side /\ Other(own) \in Side /\ q.cnt[own] \in Nat
    BY <1>0, <1>2, <1>3, Sides, QueueAssumption DEF RingType
  <2>4. /\ Cardinality(Slot(k, ctx, own) \ {c}) \in Nat
        /\ Cardinality(Slot(k, ctx, own) \ {c}) + 1 = Cardinality(Slot(k, ctx, own))
    <3>1. IsFiniteSet(Slot(k, ctx, own)) /\ Cardinality(Slot(k, ctx, own)) \in Nat
      BY SlotType
    <3>2. /\ IsFiniteSet(Slot(k, ctx, own) \ {c})
          /\ Cardinality(Slot(k, ctx, own) \ {c}) = Cardinality(Slot(k, ctx, own)) - 1
      BY <2>2, <3>1, FS_RemoveElement
    <3>3. Cardinality(Slot(k, ctx, own) \ {c}) \in Nat
      BY <3>2, FS_CardinalityType
    <3> QED BY <3>1, <3>2, <3>3
  <2>5. q.cnt[own] + Cardinality(Slot(k, ctx, own) \ {c}) + 1 = Total(q, k, ctx, own)
    BY <2>3, <2>4 DEF Total
  <2>6. q.used
    <3>1. Total(q, k, ctx, own) # 0
      BY <2>3, <2>4, <2>5
    <3>2. ~q.used => Total(q, k, ctx, "read") = 0 /\ Total(q, k, ctx, "write") = 0
      BY <1>0 DEF RingOK, Ring
    <3> QED BY <2>3, <3>1, <3>2 DEF Side
  <2>7. Takes(c, q, op)
    <3>1. q = [q EXCEPT !.cnt = q.cnt] /\ q.cnt[own] <= q.cnt[own]
      BY <1>0, <2>3 DEF RingType
    <3> QED BY <1>0, <1>2, <2>2, <2>5, <3>1 DEF Takes
  <2>8. Ready(c) /\ c \in Tasks \cup {Isr}
    BY <1>0, <1>3, <1>5, <1>8 DEF Ready
  <2>9. PICK qq : qq = q
    OBVIOUS
  <2>10. Takes(c, qq, op) /\ OperateSlot(c, qq, op, v)
    BY <2>1, <2>7, <2>9
  <2>11. /\ Kernel(k', ctx') /\ RingOK(q', k', ctx') /\ SidesWait(q', k')
         /\ Asked(ctx', arg) /\ MailOK(pool, msg, k', ctx') /\ BackInUser(c)
         /\ Operated(op, v)
    BY <1>3, <1>4, <2>6, <2>8, <2>10, OperateKept
  <2>12. Asked(ctx', arg')
    BY <1>3, <1>6, <2>11 DEF BackInUser
  <2> QED BY <1>0, <1>1, <1>4, <2>11, <2>12 DEF QueueSafe
<1> QED BY <1>7, <1>8

-----------------------------------------------------------------------------
(***************************************************************************)
(* Mail.                                                                   *)
(***************************************************************************)
LEMMA BoxAlloc ==
    ASSUME NEW box, BoxOK(box), box.free # << >>, NEW b, b = LOS_MemboxAlloc(box)
    PROVE  BoxOK(b)
<1>0. /\ box.free \in Seq(Blocks) /\ NoDup(box.free) /\ box.marked = Blocks \ Range(box.free)
      /\ box.cnt = Cardinality(box.marked) /\ IsFiniteSet(Blocks)
  BY QueueAssumption DEF BoxOK
<1>1. PICK e : e = box.free[1]
  OBVIOUS
<1>2. e \in Blocks /\ e \in Range(box.free) /\ Head(box.free) = e
  BY <1>0, <1>1, FirstOfList
<1>3. Tail(box.free) = Without(box.free, e)
  BY <1>0, <1>1, TailIsWithout
<1>4. /\ Tail(box.free) \in Seq(Blocks) /\ NoDup(Tail(box.free))
      /\ Range(Tail(box.free)) = Range(box.free) \ {e}
  BY <1>0, <1>3, WithoutType, WithoutRange
<1>5. b.free = Tail(box.free) /\ b.marked = box.marked \cup {e} /\ b.cnt = box.cnt + 1
      /\ b = [free |-> b.free, marked |-> b.marked, cnt |-> b.cnt]
  BY <1>2 DEF LOS_MemboxAlloc, FirstBox
<1>6. b.marked = Blocks \ Range(b.free) /\ b.marked \subseteq Blocks
  BY <1>0, <1>2, <1>4, <1>5
<1>7. IsFiniteSet(box.marked) /\ e \notin box.marked
  <2>1. box.marked \in SUBSET Blocks
    BY <1>0
  <2> QED BY <1>0, <1>2, <2>1, FS_Subset
<1>8. b.cnt = Cardinality(b.marked)
  <2>1. Cardinality(box.marked \cup {e}) = Cardinality(box.marked) + 1
    BY <1>7, FS_AddElement
  <2> QED BY <1>0, <1>5, <2>1
<1>9. b.cnt \in Nat
  <2>1. IsFiniteSet(b.marked)
    BY <1>5, <1>7, FS_AddElement
  <2> QED BY <1>8, <2>1, FS_CardinalityType
<1> QED BY <1>4, <1>5, <1>6, <1>8, <1>9 DEF BoxOK

LEMMA BoxFree ==
    ASSUME NEW box, BoxOK(box), NEW e \in Blocks, e \notin Range(box.free),
           NEW b, b = LOS_MemboxFree(box, e)
    PROVE  BoxOK(b) /\ b.free # << >>
<1>0. /\ box.free \in Seq(Blocks) /\ NoDup(box.free) /\ box.marked = Blocks \ Range(box.free)
      /\ box.cnt = Cardinality(box.marked) /\ IsFiniteSet(Blocks)
  BY QueueAssumption DEF BoxOK
<1>1. /\ b.free = <<e>> \o box.free /\ b.marked = box.marked \ {e} /\ b.cnt = box.cnt - 1
      /\ b = [free |-> b.free, marked |-> b.marked, cnt |-> b.cnt]
  BY <1>0 DEF LOS_MemboxFree, OsCheckBoxMem
<1>2. /\ b.free \in Seq(Blocks) /\ b.free # << >> /\ NoDup(b.free)
      /\ Range(b.free) = Range(box.free) \cup {e}
  BY <1>0, <1>1, PrependRange
<1>3. IsFiniteSet(box.marked) /\ e \in box.marked /\ box.marked \in SUBSET Blocks
  <2>1. box.marked \in SUBSET Blocks
    BY <1>0
  <2> QED BY <1>0, <2>1, FS_Subset
<1>4. b.cnt = Cardinality(b.marked)
  <2>1. Cardinality(box.marked \ {e}) = Cardinality(box.marked) - 1
    BY <1>3, FS_RemoveElement
  <2> QED BY <1>0, <1>1, <2>1
<1>5. b.cnt \in Nat
  <2>1. IsFiniteSet(b.marked)
    BY <1>1, <1>3, FS_RemoveElement
  <2> QED BY <1>4, <2>1, FS_CardinalityType
<1>6. b.marked = Blocks \ Range(b.free) /\ b.marked \subseteq Blocks
  BY <1>0, <1>1, <1>2
<1> QED BY <1>1, <1>2, <1>4, <1>5, <1>6 DEF BoxOK

\* Steps that leave the queue alone.
QueueAlone == q' = q /\ \A s : Slot(k', ctx', s) = Slot(k, ctx, s)

LEMMA MailAllocKept ==
    ASSUME QueueSafe, QueueKernel, NEW c \in Tasks \cup {Isr}, OsQueueMailAlloc(c)
    PROVE  QueueSafe' /\ QueueAlone
<1>0. /\ Kernel(k, ctx) /\ RingOK(q, k, ctx) /\ SidesWait(q, k) /\ Asked(ctx, arg)
      /\ MailOK(pool, msg, k, ctx) /\ q' = q /\ arg' = arg /\ msg' = msg
      /\ CoreInv(QueueAt, k, ctx) /\ Caller(c, "mail")
  BY DEF QueueSafe, OsQueueMailAlloc, Kernel
<1>1. CASE pool.free # << >> /\ pool' = LOS_MemboxAlloc(pool) /\ k' = k /\ ctx' = ctx
  <2>1. BoxOK(pool)
    BY <1>0 DEF MailOK
  <2>2. BoxOK(pool')
    BY <1>1, <2>1, BoxAlloc
  <2>3. MailOK(pool', msg', k', ctx')
    BY <1>0, <1>1, <2>2 DEF MailOK
  <2> QED BY <1>0, <1>1, <2>3 DEF QueueSafe, QueueAlone
<1>2. CASE /\ pool.free = << >> /\ c # Isr /\ pool' = pool
           /\ \E timed \in BOOLEAN : k' = OsSchedTaskWait(k, WaitList("mem"), timed)
           /\ ctx' = [ctx EXCEPT ![c] = Thread("mail", "mem", TRUE)]
  <2>0. c \in Tasks /\ Calling(c)
    BY <1>0, <1>2, CallerCalls
  <2>1. k.lock = 0
    <3>1. "mail" \in TaskCalls
      BY <1>0, <1>2 DEF Caller
    <3> QED BY <1>0, <3>1 DEF Kernel
  <2>2. PICK timed \in BOOLEAN : k' = OsSchedTaskWait(k, WaitList("mem"), timed)
    BY <1>2
  <2>3. /\ Kernel(k', ctx') /\ Begins(c, WaitList("mem")) /\ ~Served(k', c)
        /\ ctx'[c].at = "mail" /\ ctx'[c].obj = "mem" /\ ctx[c].at = "user"
        /\ \A u \in Tasks \ {c} : Stays(u)
    BY <1>0, <1>2, <2>0, <2>1, <2>2, QueueWaits
  <2>4. \A s : Slot(k', ctx', s) = Slot(k, ctx, s)
    <3> SUFFICES ASSUME NEW s, NEW u \in Tasks
                 PROVE  u \in Slot(k', ctx', s) <=> u \in Slot(k, ctx, s)
      BY DEF Slot
    <3>1. CASE u = c
      BY <2>3, <3>1 DEF Slot
    <3>2. CASE u # c
      <4>1. Stays(u)
        BY <2>3, <3>2
      <4> QED BY <4>1, QueuePlaces DEF Stays, Slot
    <3> QED BY <3>1, <3>2
  <2>5. RingOK(q', k', ctx')
    BY <1>0, <2>4 DEF RingOK, Total
  <2>6. SidesWait(q', k')
    <3>1. \A s \in Side : WaitList(s) # WaitList("mem") /\ WaitList(s) \in Blockers
      BY ObjectLists DEF WaitList, Side
    <3>2. \A s \in Side : k'.list[WaitList(s)] = k.list[WaitList(s)]
      BY <2>3, <3>1 DEF Begins
    <3> QED BY <1>0, <3>2 DEF SidesWait
  <2>7. Asked(ctx', arg')
    <3>1. ASSUME NEW u \in Tasks \ {c}
          PROVE  \/ ctx'[u].at = ctx[u].at /\ ctx'[u].obj = ctx[u].obj
                 \/ ctx'[u].at \notin {"queue", "mail"}
      <4>1. Stays(u)
        BY <2>3
      <4> QED BY <4>1, QueuePlaces DEF Stays
    <3> QED BY <1>0, <2>3, <3>1 DEF Asked
  <2>8. MailOK(pool', msg', k', ctx')
    <3>1. ASSUME NEW u \in Tasks, ctx'[u].at = "mail", Served(k', u) PROVE msg[u] # NULL
      <4>1. u # c
        BY <2>3, <3>1
      <4>2. Stays(u)
        BY <2>3, <4>1
      <4>3. ctx[u].at = "mail" /\ Served(k, u)
        BY <3>1, <4>2, QueuePlaces DEF Stays
      <4> QED BY <1>0, <4>3 DEF MailOK
    <3> QED BY <1>0, <1>2, <3>1 DEF MailOK
  <2> QED BY <1>0, <2>3, <2>4, <2>5, <2>6, <2>7, <2>8 DEF QueueSafe, QueueAlone
<1> QED BY <1>1, <1>2 DEF OsQueueMailAlloc

LEMMA MailReturnKept ==
    ASSUME QueueSafe, QueueKernel, NEW c \in Tasks, MailAllocReturn(c)
    PROVE  QueueSafe' /\ QueueAlone
<1>0. /\ Kernel(k, ctx) /\ RingOK(q, k, ctx) /\ SidesWait(q, k) /\ Asked(ctx, arg)
      /\ MailOK(pool, msg, k, ctx) /\ q' = q /\ arg' = arg /\ pool' = pool
      /\ Running(c) /\ ctx[c].at = "mail" /\ ~ctx[c].win
      /\ msg' = (IF Has(k, c, {"TIMEOUT"}) THEN msg ELSE [msg EXCEPT ![c] = NULL])
      /\ Done(c, SetStatus(k, c, {"TIMEOUT"}, {}), FALSE)
  BY DEF QueueSafe, MailAllocReturn
<1>1. ctx[c].at \notin Creating
  BY <1>0 DEF Creating
<1>2. /\ Kernel(k', ctx') /\ k'.list = k.list /\ ctx'[c].at = "user"
      /\ \A u \in Tasks \ {c} : Stays(u)
  BY <1>0, <1>1, DoneReturns
<1>3. BackInUser(c) /\ c \in Tasks \cup {Isr}
  BY <1>2 DEF BackInUser
<1>4. \A s : Slot(k', ctx', s) = Slot(k, ctx, s)
  <2>1. \A s : c \notin Slot(k, ctx, s)
    BY <1>0 DEF Slot
  <2>2. \A s : Slot(k', ctx', s) = Slot(k, ctx, s) \ {c}
    BY <1>2, <1>3, SlotsPass
  <2> QED BY <2>1, <2>2
<1>5. RingOK(q', k', ctx') /\ SidesWait(q', k')
  BY <1>0, <1>2, <1>4 DEF RingOK, Total, SidesWait
<1>6. Asked(ctx', arg) /\ MailOK(pool, msg, k', ctx')
  <2>1. PICK W : W = {}
    OBVIOUS
  <2>2. /\ \A u \in Tasks \ (W \cup {c}) : Stays(u)
        /\ \A u \in W : ctx'[u].at = ctx[u].at /\ ctx'[u].obj = ctx[u].obj /\ ctx[u].at = "queue"
        /\ k.list[WaitList("mem")] = << >> => k'.list[WaitList("mem")] = << >>
    BY <1>2, <2>1
  <2> QED BY <1>0, <1>3, <2>2, PlacesAfter
<1>7. msg' \in [Tasks -> Blocks \cup {NULL}] /\ \A u \in Tasks \ {c} : msg'[u] = msg[u]
  BY <1>0 DEF MailOK
<1>8. MailOK(pool', msg', k', ctx')
  BY <1>0, <1>2, <1>6, <1>7 DEF MailOK
<1> QED BY <1>0, <1>2, <1>4, <1>5, <1>6, <1>8 DEF QueueSafe, QueueAlone

LEMMA MailFreeKept ==
    ASSUME QueueSafe, QueueKernel, NEW c \in Tasks \cup {Isr}, NEW b \in Blocks,
           OsQueueMailFree(c, b)
    PROVE  QueueSafe' /\ QueueAlone
<1>0. /\ Kernel(k, ctx) /\ RingOK(q, k, ctx) /\ SidesWait(q, k) /\ Asked(ctx, arg)
      /\ MailOK(pool, msg, k, ctx) /\ q' = q /\ arg' = arg /\ BoxOK(pool)
      /\ CoreInv(QueueAt, k, ctx) /\ Caller(c, "mail") /\ b \in Allocated
      /\ Sane(k) /\ WaitsAt({"queue", "mail"}, k, ctx) /\ msg \in [Tasks -> Blocks \cup {NULL}]
  BY DEF QueueSafe, OsQueueMailFree, Kernel, MailOK, CoreInv
<1>1. Calling(c) /\ b \notin Range(pool.free) /\ b # NULL
  BY <1>0, CallerCalls, QueueAssumption DEF Allocated
<1>2. WaitList("mem") \in Blockers /\ "mem" \in WaitObjs
  BY ObjectLists
<1>3. CASE k.list[WaitList("mem")] = << >> /\ pool' = LOS_MemboxFree(pool, b)
           /\ k' = k /\ ctx' = ctx /\ msg' = msg
  <2>1. BoxOK(pool')
    BY <1>0, <1>1, <1>3, BoxFree
  <2>2. MailOK(pool', msg', k', ctx')
    BY <1>0, <1>3, <2>1 DEF MailOK
  <2> QED BY <1>0, <1>3, <2>2 DEF QueueSafe, QueueAlone
<1>4. CASE /\ k.list[WaitList("mem")] # << >>
           /\ msg' = [msg EXCEPT ![k.list[WaitList("mem")][1]] = b]
           /\ Done(c, OsSchedTaskWake(k, k.list[WaitList("mem")][1]), TRUE)
           /\ pool' = pool
  <2>0. PICK t : t = k.list[WaitList("mem")][1]
    OBVIOUS
  <2>1. t \in Tasks /\ t \in Range(k.list[WaitList("mem")]) /\ "PEND" \in k.status[t]
    BY <1>0, <1>2, <1>4, <2>0, FirstWaiter
  <2>2. Ready(c) /\ (c # Isr => ctx[c].at = "user")
    <3>1. CASE c \in Tasks
      <4>1. c # Isr
        BY <3>1, TaskAssumption, TasksAreTCBs
      <4>2. /\ k.run = c /\ ~k.pendsv /\ ~k.fault /\ ctx[c].at = "user" /\ ~ctx[c].win
            /\ k.status[c] \cap (Blocked \cup {"DELAY"}) = {}
        BY <1>0, <1>1, <3>1, CallerNotStuck
      <4>3. "TIMEOUT" \notin k.status[c]
        BY <1>0, <3>1, <4>2, QueuePlaces DEF WaitsAt, Blocked
      <4> QED BY <3>1, <4>1, <4>2, <4>3, QueuePlaces DEF Ready, Running
    <3>2. CASE c = Isr
      BY <1>1, <3>2 DEF Ready
    <3> QED BY <3>1, <3>2
  <2>3. Kernel(k', ctx') /\ Handed(c, t)
    BY <1>0, <1>4, <2>0, <2>1, <2>2, DoneWakes
  <2>4. ctx[t].at = "mail" /\ ctx[t].obj = "mem"
    <3>1. ctx[t].at \in {"queue", "mail"} /\ ctx[t].obj = "mem"
      BY <1>0, <1>2, <2>1, WhereItWaits
    <3>2. ctx[t].at = "queue" => ctx[t].obj \in Side
      BY <1>0, <2>1, Sides DEF Asked
    <3> QED BY <3>1, <3>2 DEF Side
  <2>5. \A s : Slot(k', ctx', s) = Slot(k, ctx, s)
    <3>1. \A s : c \notin Slot(k, ctx, s)
      BY <2>2, TaskAssumption, TasksAreTCBs DEF Slot
    <3>2. \A s : Slot(k', ctx', s) = Slot(k, ctx, s) \ {c}
      BY <2>1, <2>3, <2>4, SlotsHanded
    <3> QED BY <3>1, <3>2
  <2>6. \A h \in Blockers : k.list[h] = << >> => k'.list[h] = << >>
    BY <2>3, NothingLeft DEF Handed
  <2>7. RingOK(q', k', ctx') /\ SidesWait(q', k')
    <3>1. \A s \in Side : WaitList(s) \in Blockers
      BY ObjectLists DEF Side
    <3> QED BY <1>0, <2>5, <2>6, <3>1 DEF RingOK, Total, SidesWait
  <2>8. msg'[t] = b /\ (\A u \in Tasks \ {t} : msg'[u] = msg[u]) /\ msg' \in [Tasks -> Blocks \cup {NULL}]
    BY <1>0, <1>4, <2>0, <2>1
  <2>9. ASSUME NEW u \in Tasks, u # t
        PROVE  \/ ctx'[u].at \notin {"queue", "mail"}
               \/ /\ ctx'[u].at = ctx[u].at /\ ctx'[u].obj = ctx[u].obj
                  /\ Served(k', u) => Served(k, u)
    <3>1. CASE u = c
      BY <2>3, <3>1, TaskAssumption, TasksAreTCBs DEF Handed, BackInUser
    <3>2. CASE u # c
      <4>1. Stays(u)
        BY <2>3, <2>9, <3>2 DEF Handed
      <4> QED BY <4>1, QueuePlaces DEF Stays
    <3> QED BY <3>1, <3>2
  <2>10. ctx'[t].at = "mail" /\ ctx'[t].obj = "mem"
    BY <2>3, <2>4 DEF Handed
  <2>11. Asked(ctx', arg')
    BY <1>0, <2>9, <2>10 DEF Asked
  <2>12. MailOK(pool', msg', k', ctx')
    <3>1. ASSUME NEW u \in Tasks, ctx'[u].at = "mail", Served(k', u) PROVE msg'[u] # NULL
      <4>1. CASE u = t
        BY <1>1, <2>8, <4>1
      <4>2. CASE u # t
        <5>1. ctx[u].at = "mail" /\ Served(k, u)
          BY <2>9, <3>1, <4>2
        <5> QED BY <1>0, <2>8, <4>2, <5>1 DEF MailOK
      <4> QED BY <4>1, <4>2
    <3> QED BY <1>0, <1>2, <1>4, <2>6, <2>8, <3>1 DEF MailOK
  <2> QED BY <1>0, <2>3, <2>5, <2>7, <2>11, <2>12 DEF QueueSafe, QueueAlone
<1> QED BY <1>3, <1>4 DEF OsQueueMailFree

-----------------------------------------------------------------------------
(***************************************************************************)
(* The invariant in every state.                                           *)
(***************************************************************************)
\* The pool starts with every block once.
LEMMA BoxInit == BoxOK(LOS_MemboxInit(Blocks))
<1>0. IsFiniteSet(Blocks)
  BY QueueAssumption
<1> DEFINE n == Cardinality(Blocks)
           OneEach(f) == \A i, j \in 1..n : f[i] = f[j] => i = j
<1>1. n \in Nat /\ ExistsBijection(1..n, Blocks)
  BY <1>0, FS_CardinalityType
<1>2. \E f \in [1..n -> Blocks] : OneEach(f)
  <2>1. PICK f \in Bijection(1..n, Blocks) : TRUE
    BY <1>1, Zenon DEF ExistsBijection
  <2>2. f \in [1..n -> Blocks] /\ IsInjective(f) /\ DOMAIN f = 1..n
    BY <2>1 DEF Bijection, Injection
  <2>3. OneEach(f)
    BY <2>2 DEF IsInjective
  <2> QED BY <2>2, <2>3
<1>3. SetToSeq(Blocks) = CHOOSE f \in [1..n -> Blocks] : IsInjective(f)
  BY DEF SetToSeq
<1>4. \A f \in [1..n -> Blocks] : IsInjective(f) <=> OneEach(f)
  BY DEF IsInjective
<1> HIDE DEF n
<1>5. PICK s : s = SetToSeq(Blocks)
  OBVIOUS
<1>6. s \in [1..n -> Blocks] /\ IsInjective(s)
  BY <1>2, <1>3, <1>4, <1>5
<1>7. OneEach(s)
  BY <1>4, <1>6
<1>8. s \in Injection(1..n, Blocks)
  BY <1>6, <1>7 DEF Injection
<1>9. Cardinality(1..n) = n
  <2>1. Cardinality(1..n) = IF 1 > n THEN 0 ELSE n - 1 + 1
    BY <1>1, FS_Interval
  <2> QED BY <1>1, <2>1
<1>10. s \in Surjection(1..n, Blocks)
  BY <1>0, <1>8, <1>9, FS_Injection DEF n
<1>11. Range(s) = Blocks
  BY <1>6, <1>10 DEF Surjection, Range
<1>12. s \in Seq(Blocks) /\ NoDup(s)
  BY <1>1, <1>6, <1>7 DEF NoDup
<1>13. Cardinality({}) = 0
  BY FS_EmptySet
<1> QED BY <1>5, <1>11, <1>12, <1>13 DEF BoxOK, LOS_MemboxInit

LEMMA QueueInitSafe ==
    ASSUME QueueInit
    PROVE  QueueSafe
<1>1. CoreInv(At, k, ctx) /\ Highest(k, ctx) /\ TcbKept(k, ctx)
  BY InitSafe DEF QueueInit
<1>2. CoreInv(QueueAt, k, ctx)
  <2>1. ctx \in [TCB -> ThreadState(QueueAt)]
    BY <1>1, QueuePlaces DEF CoreInv, ThreadState
  <2> QED BY <1>1, <2>1 DEF CoreInv
<1>3. PICK free \in [1..Cardinality(Tasks) -> Tasks] : k = InitialKernel(free)
  BY DEF QueueInit, Init
<1>4. /\ \A t \in Tasks : k.status[t] = {"UNUSED"} /\ ctx[t].at = "user"
      /\ k.list = [h \in Head_ |-> IF h = FreeTask THEN free ELSE << >>] /\ k.lock = 0
  BY <1>3, TasksAreTCBs, SchedAssumption DEF InitialKernel, QueueInit, Init, UserThread, Thread
<1>5. \A h \in Blockers : k.list[h] = << >>
  BY <1>4, HeadsDiffer
<1>6. WaitsAt({"queue", "mail"}, k, ctx)
  BY <1>4, <1>5 DEF WaitsAt
<1>8. Kernel(k, ctx)
  BY <1>1, <1>2, <1>4, <1>6 DEF Kernel
<1>9. \A s \in Side : Cardinality(Slot(k, ctx, s)) = 0 /\ k.list[WaitList(s)] = << >>
  <2>1. \A s : Slot(k, ctx, s) = {}
    BY <1>4 DEF Slot
  <2>2. \A s \in Side : WaitList(s) \in Blockers
    BY ObjectLists DEF Side
  <2> QED BY <1>5, <2>1, <2>2, FS_EmptySet
<1>10. /\ q = NewQueue(FALSE, 0) /\ arg = [t \in Tasks |-> NoArg]
       /\ pool = LOS_MemboxInit(Blocks) /\ msg = [t \in Tasks |-> NULL]
  BY DEF QueueInit, OsQueueInit
<1>11. RingOK(q, k, ctx)
  <2>1. 0 \in 0..MaxLen
    BY QueueAssumption
  <2>2. q \in RingType /\ q.cnt["read"] = 0 /\ q.cnt["write"] = 0 /\ Ring(q, 0, 0)
    BY <1>10, <2>1, NewQueueRing
  <2>3. Total(q, k, ctx, "read") = 0 /\ Total(q, k, ctx, "write") = 0
    BY <1>9, <2>2 DEF Total, Side
  <2> QED BY <2>2, <2>3 DEF RingOK
<1>12. SidesWait(q, k)
  BY <1>9 DEF SidesWait
<1>13. Asked(ctx, arg)
  BY <1>4, <1>10 DEF Asked, NoArg, Operate
<1>14. MailOK(pool, msg, k, ctx)
  BY <1>4, <1>5, <1>10, ObjectLists, BoxInit DEF MailOK
<1> QED BY <1>8, <1>11, <1>12, <1>13, <1>14 DEF QueueSafe

\* What a step does to the queue as its users see it.
QueueMoves ==
    \/ QueueAlone
    \/ ~q.used /\ q'.used /\ q'.len \in 1..MaxLen /\ Messages(q', k', ctx') = << >>
    \/ q.used /\ ~q'.used
    \/ Operated("readHead", NULL)
    \/ \E v \in Values, op \in {"writeHead", "writeTail"} : Operated(op, v)

LEMMA Reads ==
    ASSUME NEW v, Operated("readHead", v)
    PROVE  Operated("readHead", NULL)
  BY DEF Operated, Put

LEMMA QueueStep ==
    ASSUME QueueSafe, QueueKernel, [QueueNext]_<<k, ctx, q, arg, pool, msg>>
    PROVE  QueueSafe' /\ QueueMoves
<1>1. CASE Next /\ UNCHANGED <<q, arg, pool, msg>>
  BY <1>1, QueueTaskStepKept DEF QueueMoves, QueueAlone
<1>2. ASSUME NEW c \in Tasks, QueueOperateReturn(c) PROVE QueueSafe' /\ QueueMoves
  <2>1. PICK op, v : op = arg[c].op /\ v = arg[c].val
    OBVIOUS
  <2>2. op \in Operate
    BY <2>1 DEF QueueSafe, Asked
  <2>3. QueueSafe' /\ (QueueAlone \/ ((op = "readHead" \/ v \in Values) /\ Operated(op, v)))
    BY <1>2, <2>1, QueueReturnKept DEF QueueAlone
  <2>4. QueueAlone \/ Operated("readHead", NULL)
          \/ \E w \in Values, p \in {"writeHead", "writeTail"} : Operated(p, w)
    BY <2>2, <2>3, Reads DEF Operate
  <2> QED BY <2>3, <2>4 DEF QueueMoves
<1>3. ASSUME NEW c \in Tasks, MailAllocReturn(c) PROVE QueueSafe' /\ QueueMoves
  BY <1>3, MailReturnKept DEF QueueMoves
<1>4. ASSUME NEW c \in Tasks \cup {Isr}, NEW len \in 1..MaxLen, OsQueueCreate(c, len)
      PROVE  QueueSafe' /\ QueueMoves
  <2>1. QueueSafe' /\ Messages(q', k', ctx') = << >>
    BY <1>4, QueueCreateKept
  <2>2. ~q.used /\ q' = NewQueue(TRUE, len)
    BY <1>4 DEF OsQueueCreate
  <2>3. q'.used /\ q'.len = len
    BY <2>2 DEF NewQueue
  <2> QED BY <2>1, <2>2, <2>3 DEF QueueMoves
<1>5. ASSUME NEW c \in Tasks \cup {Isr}, LOS_QueueDelete(c) PROVE QueueSafe' /\ QueueMoves
  <2>1. QueueSafe'
    BY <1>5, QueueDeleteKept
  <2>2. q.used /\ q' = NewQueue(FALSE, 0)
    BY <1>5 DEF LOS_QueueDelete
  <2>3. ~q'.used
    BY <2>2 DEF NewQueue
  <2> QED BY <2>1, <2>2, <2>3 DEF QueueMoves
<1>6. ASSUME NEW c \in Tasks \cup {Isr}, OsQueueOperate(c, "readHead", NULL)
      PROVE  QueueSafe' /\ QueueMoves
  <2>1. "readHead" \in Operate /\ NULL \in Values \cup {NULL}
    BY DEF Operate
  <2>2. QueueSafe' /\ (Operated("readHead", NULL) \/ (q' = q /\ \A s : Slot(k', ctx', s) = Slot(k, ctx, s)))
    BY <1>6, <2>1, QueueOperateKept
  <2> QED BY <2>2 DEF QueueMoves, QueueAlone
<1>7. ASSUME NEW c \in Tasks \cup {Isr}, NEW v \in Values, NEW op \in {"writeHead", "writeTail"},
             OsQueueOperate(c, op, v)
      PROVE  QueueSafe' /\ QueueMoves
  <2>1. op \in Operate /\ v \in Values \cup {NULL}
    BY DEF Operate
  <2>2. QueueSafe' /\ (Operated(op, v) \/ (q' = q /\ \A s : Slot(k', ctx', s) = Slot(k, ctx, s)))
    BY <1>7, <2>1, QueueOperateKept
  <2> QED BY <2>2 DEF QueueMoves, QueueAlone
<1>8. ASSUME NEW c \in Tasks \cup {Isr}, OsQueueMailAlloc(c) PROVE QueueSafe' /\ QueueMoves
  BY <1>8, MailAllocKept DEF QueueMoves
<1>9. ASSUME NEW c \in Tasks \cup {Isr}, NEW b \in Blocks, OsQueueMailFree(c, b)
      PROVE  QueueSafe' /\ QueueMoves
  BY <1>9, MailFreeKept DEF QueueMoves
<1>10. CASE UNCHANGED <<k, ctx, q, arg, pool, msg>>
  BY <1>10 DEF QueueSafe, QueueMoves, QueueAlone
<1> QED BY <1>1, <1>2, <1>3, <1>4, <1>5, <1>6, <1>7, <1>8, <1>9, <1>10 DEF QueueNext

\* The invariant holds in every reachable state.
THEOREM QueueSafeAlways == QueueKernel => (QueueSpec => []QueueSafe)
<1> SUFFICES ASSUME QueueKernel PROVE QueueSpec => []QueueSafe
  OBVIOUS
<1>1. QueueInit => QueueSafe
  BY QueueInitSafe
<1>2. QueueSafe /\ [QueueNext]_<<k, ctx, q, arg, pool, msg>> => QueueSafe'
  BY QueueStep
<1> QED BY <1>1, <1>2, PTL DEF QueueSpec, queueVars

LEMMA QueueSafeHolds ==
    ASSUME QueueSafe
    PROVE  QueueInv
<1>0. /\ CoreInv(QueueAt, k, ctx) /\ q \in RingType
      /\ Ring(q, Total(q, k, ctx, "read"), Total(q, k, ctx, "write"))
      /\ SidesWait(q, k) /\ Asked(ctx, arg) /\ MailOK(pool, msg, k, ctx) /\ BoxOK(pool)
  BY DEF QueueSafe, Kernel, RingOK, MailOK
<1>1. pool.cnt \in 0..Cardinality(Blocks)
  <2>1. pool.marked \in SUBSET Blocks /\ pool.cnt = Cardinality(pool.marked) /\ pool.cnt \in Nat
    BY <1>0 DEF BoxOK
  <2>2. Cardinality(pool.marked) <= Cardinality(Blocks) /\ Cardinality(Blocks) \in Nat
    BY <2>1, QueueAssumption, FS_Subset, FS_CardinalityType
  <2> QED BY <2>1, <2>2
<1>2. QueueTypeOK
  <2>1. k \in KernelState /\ ctx \in [TCB -> ThreadState(At \cup {"queue", "mail"})]
    BY <1>0 DEF CoreInv, Sane, KInv, QueueAt
  <2>2. pool \in [free : Seq(Blocks), marked : SUBSET Blocks, cnt : 0..Cardinality(Blocks)]
    BY <1>0, <1>1 DEF BoxOK
  <2>3. /\ arg \in [Tasks -> [op : Operate, val : Values \cup {NULL}]]
        /\ msg \in [Tasks -> Blocks \cup {NULL}]
    BY <1>0 DEF Asked, MailOK
  <2> QED BY <1>0, <2>1, <2>2, <2>3 DEF QueueTypeOK, RingType
<1>3. \A s : Granted(s) = Slot(k, ctx, s)
  BY DEF Granted, Slot, Served, Has
<1>4. SlotsAccounted
  <2> SUFFICES ASSUME q.used
               PROVE  /\ Readable + q.cnt["write"] + Cardinality(Granted("write")) = q.len
                      /\ (q.head + Readable) % q.len = q.tail
    BY DEF SlotsAccounted
  <2>1. Readable = Total(q, k, ctx, "read")
    BY <1>3 DEF Readable, Total
  <2>2. PICK nr, nw : nr = Total(q, k, ctx, "read") /\ nw = Total(q, k, ctx, "write")
    OBVIOUS
  <2>3. nr \in Nat /\ nw \in Nat /\ nr + nw = q.len /\ (q.head + nr) % q.len = q.tail
    BY <1>0, <2>2, RingFacts
  <2>4. nw = q.cnt["write"] + Cardinality(Granted("write"))
    BY <1>3, <2>2 DEF Total
  <2>5. q.cnt["write"] \in Nat /\ Cardinality(Granted("write")) \in Nat
    BY <1>0, <1>3, SlotType, QueueAssumption DEF RingType, Side
  <2> QED BY <2>1, <2>2, <2>3, <2>4, <2>5
<1>5. NobodyWaitsInVain
  BY <1>0 DEF NobodyWaitsInVain, SidesWait, MailOK
<1> QED BY <1>2, <1>4, <1>5 DEF QueueInv

\* A queue of any length, any number of readers, writers and handlers: every slot is
\* counted exactly once, as readable, as writable or as granted to a task OsQueueOperate
\* has woken, head and tail agree with the counters, and nobody waits for a slot or a
\* mail block that is there.
THEOREM QueueSound == QueueKernel => (QueueSpec => []QueueInv)
<1> SUFFICES ASSUME QueueKernel PROVE QueueSpec => []QueueInv
  OBVIOUS
<1>1. QueueSafe => QueueInv
  BY QueueSafeHolds
<1>2. QueueSpec => []QueueSafe
  BY QueueSafeAlways
<1> QED BY <1>1, <1>2, PTL

\* A task whose OsQueueMailAlloc is resumed before its timeout finds the block that
\* OsQueueMailFree put into its control block: taskCB->msg is not NULL.
THEOREM MailAlwaysHanded == QueueKernel => (QueueSpec => []MailHanded)
<1> SUFFICES ASSUME QueueKernel PROVE QueueSpec => []MailHanded
  OBVIOUS
<1>1. QueueSafe => MailHanded
  <2> SUFFICES ASSUME QueueSafe, NEW t \in Tasks, Running(t), ctx[t].at = "mail", ~ctx[t].win,
                      ~Has(k, t, {"TIMEOUT"})
               PROVE  msg[t] # NULL
    BY DEF MailHanded
  <2>1. Kernel(k, ctx) /\ MailOK(pool, msg, k, ctx)
    BY DEF QueueSafe
  <2>2. Served(k, t)
    BY <2>1, NotWaiting DEF Has
  <2> QED BY <2>1, <2>2 DEF MailOK
<1>2. QueueSpec => []QueueSafe
  BY QueueSafeAlways
<1> QED BY <1>1, <1>2, PTL

\* Queues and mail do not break the kernel: no assertion of the scheduler fails and every
\* list node is met where it is expected.
THEOREM QueueNeverFaults == QueueKernel => (QueueSpec => []NoFault)
<1> SUFFICES ASSUME QueueKernel PROVE QueueSpec => []NoFault
  OBVIOUS
<1>1. QueueSafe => NoFault
  BY DEF QueueSafe, Kernel, CoreInv, Sane, NoFault
<1>2. QueueSpec => []QueueSafe
  BY QueueSafeAlways
<1> QED BY <1>1, <1>2, PTL

\* Every operation that wakes a task ends in LOS_Schedule, the second half of one that
\* waited too: application code runs only while no ready task has a higher priority.
THEOREM QueueRunsHighest == QueueKernel => (QueueSpec => []RunHighest)
<1> SUFFICES ASSUME QueueKernel PROVE QueueSpec => []RunHighest
  OBVIOUS
<1>1. QueueSafe => RunHighest
  <2> SUFFICES ASSUME QueueSafe, NEW t \in Tasks, NEW r \in Tasks, InUser(t), k.lock = 0,
                      Has(k, r, {"READY"})
               PROVE  k.prio[t] <= k.prio[r]
    BY DEF RunHighest
  <2>1. k.run = t /\ ~k.pendsv /\ ~ctx[t].win /\ t # Dummy
    BY TasksAreTCBs DEF InUser, Running
  <2>2. k.scheduled
    BY <2>1 DEF QueueSafe, Kernel, CoreInv, Booting
  <2>3. Top(k)
    BY <2>1, <2>2 DEF QueueSafe, Kernel, Highest
  <2> QED BY <2>1, <2>3 DEF Top, Has
<1>2. QueueSpec => []QueueSafe
  BY QueueSafeAlways
<1> QED BY <1>1, <1>2, PTL

-----------------------------------------------------------------------------
(***************************************************************************)
(* The bounded deque.                                                      *)
(***************************************************************************)
\* The abstract state, as Abstract substitutes it.
QueueCap == IF q.used THEN q.len ELSE 0

QueueItems ==
    IF q.used THEN [i \in 1..Readable |-> q.buf[(q.head + i - 1) % q.len]] ELSE << >>

LEMMA QueueItemsAre ==
    ASSUME TRUE
    PROVE  /\ q.used => QueueItems = Messages(q, k, ctx)
           /\ ~q.used => QueueItems = << >>
<1>1. Granted("read") = Slot(k, ctx, "read")
  BY DEF Granted, Slot, Served, Has
<1>2. Readable = Total(q, k, ctx, "read")
  BY <1>1 DEF Readable, Total
<1> QED BY <1>2 DEF QueueItems, Messages, Items

LEMMA QueueItemsThen ==
    ASSUME TRUE
    PROVE  /\ q'.used => QueueItems' = Messages(q', k', ctx')
           /\ ~q'.used => QueueItems' = << >>
<1>1. Granted("read")' = Slot(k', ctx', "read")
  BY DEF Granted, Slot, Served, Has
<1>2. Readable' = Total(q', k', ctx', "read")
  BY <1>1 DEF Readable, Total
<1> QED BY <1>2 DEF QueueItems, Messages, Items

\* How many messages there are.
LEMMA QueueItemsFit ==
    ASSUME QueueSafe, q.used
    PROVE  /\ QueueItems \in Seq(Values \cup {NULL}) /\ q.len \in Nat \ {0}
           /\ Len(QueueItems) = Total(q, k, ctx, "read")
           /\ Total(q, k, ctx, "read") \in Nat /\ Total(q, k, ctx, "write") \in Nat
           /\ Total(q, k, ctx, "read") + Total(q, k, ctx, "write") = q.len
<1>0. PICK nr, nw : nr = Total(q, k, ctx, "read") /\ nw = Total(q, k, ctx, "write")
  OBVIOUS
<1>1. q \in RingType /\ Ring(q, nr, nw)
  BY <1>0 DEF QueueSafe, RingOK
<1>2. nr \in Nat /\ nw \in Nat /\ nr + nw = q.len /\ q.len \in Nat \ {0}
  BY <1>1, RingFacts
<1>3. Items(q, nr) \in Seq(Values \cup {NULL}) /\ Len(Items(q, nr)) = nr
  BY <1>1, ItemsType
<1>4. QueueItems = Items(q, nr)
  BY <1>0, QueueItemsAre DEF Messages
<1> QED BY <1>0, <1>2, <1>3, <1>4

LEMMA OperatedIs ==
    ASSUME QueueSafe, NEW op \in Operate, NEW v, Operated(op, v)
    PROVE  /\ QueueCap' = QueueCap /\ QueueItems' = Put(op, v, QueueItems)
           /\ op = "readHead" => QueueItems # << >>
           /\ op # "readHead" => Len(QueueItems) < QueueCap
<1>0. /\ q.used /\ q'.used /\ q'.len = q.len /\ Total(q, k, ctx, ReadWrite(op)) > 0
      /\ Messages(q', k', ctx') = Put(op, v, Messages(q, k, ctx))
  BY DEF Operated
<1>1. QueueItems = Messages(q, k, ctx) /\ QueueItems' = Messages(q', k', ctx')
  BY <1>0, QueueItemsAre, QueueItemsThen
<1>2. QueueCap = q.len /\ QueueCap' = q'.len
  BY <1>0 DEF QueueCap
<1>3. PICK nr, nw : nr = Total(q, k, ctx, "read") /\ nw = Total(q, k, ctx, "write")
  OBVIOUS
<1>4. nr \in Nat /\ nw \in Nat /\ nr + nw = q.len /\ Len(QueueItems) = nr
      /\ QueueItems \in Seq(Values \cup {NULL}) /\ q.len \in Nat
  BY <1>0, <1>3, QueueItemsFit
<1>5. op = "readHead" => QueueItems # << >>
  <2> SUFFICES ASSUME op = "readHead" PROVE QueueItems # << >>
    OBVIOUS
  <2>1. nr > 0
    BY <1>0, <1>3, Sides
  <2> QED BY <1>4, <2>1
<1>6. op # "readHead" => Len(QueueItems) < QueueCap
  <2> SUFFICES ASSUME op # "readHead" PROVE Len(QueueItems) < QueueCap
    OBVIOUS
  <2>1. nw > 0
    BY <1>0, <1>3, Sides
  <2> QED BY <1>2, <1>4, <2>1
<1> QED BY <1>0, <1>1, <1>2, <1>5, <1>6

LEMMA MoveIsDequeStep ==
    ASSUME QueueSafe, QueueSafe', QueueMoves
    PROVE  Abstract!DequeNext \/ UNCHANGED Abstract!dequeVars
<1>1. CASE QueueAlone
  <2>1. Messages(q', k', ctx') = Messages(q, k, ctx) /\ q' = q
    BY <1>1 DEF QueueAlone, Messages, Total
  <2>2. QueueItems' = QueueItems
    BY <2>1, QueueItemsAre, QueueItemsThen
  <2>3. QueueCap' = QueueCap
    BY <2>1 DEF QueueCap
  <2> QED BY <2>2, <2>3 DEF Abstract!dequeVars, QueueItems, QueueCap
<1>2. CASE ~q.used /\ q'.used /\ q'.len \in 1..MaxLen /\ Messages(q', k', ctx') = << >>
  <2>1. QueueCap = 0 /\ QueueCap' = q'.len /\ QueueItems' = << >>
    BY <1>2, QueueItemsThen DEF QueueCap
  <2>2. PICK n \in 1..MaxLen : n = q'.len
    BY <1>2
  <2>3. Abstract!Open(n)
    BY <2>1, <2>2 DEF Abstract!Open, QueueItems, QueueCap
  <2> QED BY <2>3 DEF Abstract!DequeNext
<1>3. CASE q.used /\ ~q'.used
  <2>1. QueueCap = q.len /\ QueueCap' = 0 /\ QueueItems' = << >> /\ q.len # 0
    BY <1>3, QueueItemsThen, QueueItemsFit DEF QueueCap
  <2>2. Abstract!Close
    BY <2>1 DEF Abstract!Close, QueueItems, QueueCap
  <2> QED BY <2>2 DEF Abstract!DequeNext
<1>4. CASE Operated("readHead", NULL)
  <2>0. "readHead" \in Operate
    BY DEF Operate
  <2>1. /\ QueueCap' = QueueCap /\ QueueItems' = Put("readHead", NULL, QueueItems)
        /\ QueueItems # << >>
    BY <1>4, <2>0, OperatedIs
  <2>2. QueueItems' = Tail(QueueItems)
    BY <2>1 DEF Put
  <2>3. Abstract!TakeHead
    BY <2>1, <2>2 DEF Abstract!TakeHead, QueueItems, QueueCap
  <2> QED BY <2>3 DEF Abstract!DequeNext
<1>5. ASSUME NEW v \in Values, NEW op \in {"writeHead", "writeTail"}, Operated(op, v)
      PROVE  Abstract!DequeNext
  <2>0. op \in Operate /\ op # "readHead"
    BY DEF Operate
  <2>1. /\ QueueCap' = QueueCap /\ QueueItems' = Put(op, v, QueueItems)
        /\ Len(QueueItems) < QueueCap
    BY <1>5, <2>0, OperatedIs
  <2>2. CASE op = "writeHead"
    <3>1. QueueItems' = <<v>> \o QueueItems
      BY <2>1, <2>2 DEF Put
    <3>2. Abstract!PutHead(v)
      BY <2>1, <3>1 DEF Abstract!PutHead, QueueItems, QueueCap
    <3> QED BY <3>2 DEF Abstract!DequeNext
  <2>3. CASE op = "writeTail"
    <3>1. QueueItems' = Append(QueueItems, v)
      BY <2>1, <2>3 DEF Put
    <3>2. Abstract!PutTail(v)
      BY <2>1, <3>1 DEF Abstract!PutTail, QueueItems, QueueCap
    <3> QED BY <3>2 DEF Abstract!DequeNext
  <2> QED BY <2>2, <2>3
<1> QED BY <1>1, <1>2, <1>3, <1>4, <1>5 DEF QueueMoves

\* los_queue.c implements the bounded queue, whatever its length: no message is lost,
\* repeated, overwritten or overtaken by writers at both ends, readers, handlers and
\* timeouts that meet between the two halves of OsQueueOperate.
THEOREM QueueImplementsDeque == QueueKernel => (QueueSpec => ImplementsDeque)
<1> SUFFICES ASSUME QueueKernel PROVE QueueSpec => ImplementsDeque
  OBVIOUS
<1>1. QueueInit => Abstract!DequeInit
  <2> SUFFICES ASSUME QueueInit PROVE Abstract!DequeInit
    OBVIOUS
  <2>1. q = NewQueue(FALSE, 0)
    BY DEF QueueInit, OsQueueInit
  <2>2. ~q.used
    BY <2>1 DEF NewQueue
  <2> QED BY <2>2 DEF Abstract!DequeInit
<1>2. QueueSafe /\ QueueSafe' /\ [QueueNext]_<<k, ctx, q, arg, pool, msg>>
         => [Abstract!DequeNext]_(Abstract!dequeVars)
  BY QueueStep, MoveIsDequeStep
<1>3. QueueSpec => []QueueSafe
  BY QueueSafeAlways
<1> QED BY <1>1, <1>2, <1>3, PTL DEF QueueSpec, queueVars, ImplementsDeque, Abstract!DequeSpec
=============================================================================
