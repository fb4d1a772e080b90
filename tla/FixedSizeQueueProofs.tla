----------------------- MODULE FixedSizeQueueProofs -------------------------
(***************************************************************************)
(* PfFixedSizeQueue is a bounded first-in first-out queue, for every depth *)
(* and every position of its two indices in the ring.                      *)
(***************************************************************************)
EXTENDS FixedSizeQueue, SequenceTheorems, TLAPS

\* The index after x in the ring, the i-th index from x on, the distance from
\* index h to index t, and the free indices from t round to h (one always
\* stays empty).
Succ(x, n) == IF x + 1 <= n THEN x + 1 ELSE x + 1 - (n + 1)
SlotOf(x, i, n) == IF x + i - 1 <= n THEN x + i - 1 ELSE x + i - 1 - (n + 1)
Between(h, t, n) == IF h <= t THEN t - h ELSE n + 1 + t - h
Room(h, t, n) == IF h <= t THEN (n + 1) - t + h - 1 ELSE h - t - 1

LEMMA ModSmall ==
    ASSUME NEW n \in Nat, NEW x \in 0..n
    PROVE  x % Depth(n) = x
BY DEF Depth

LEMMA ModWraps ==
    ASSUME NEW n \in Nat, NEW x \in (n + 1)..(2 * n + 1)
    PROVE  x % Depth(n) = x - (n + 1)
BY DEF Depth

LEMMA Slot ==
    ASSUME NEW n \in Nat, NEW x \in 0..n, NEW i \in 1..(n + 1)
    PROVE  (x + i - 1) % Depth(n) = SlotOf(x, i, n) /\ SlotOf(x, i, n) \in 0..n
<1>1. CASE x + i - 1 <= n
  BY <1>1, ModSmall DEF SlotOf
<1>2. CASE ~(x + i - 1 <= n)
  BY <1>2, ModWraps DEF SlotOf
<1> QED
  BY <1>1, <1>2

LEMMA NextIndex ==
    ASSUME NEW n \in Nat, NEW x \in 0..n
    PROVE  (x + 1) % Depth(n) = Succ(x, n) /\ Succ(x, n) \in 0..n
<1>1. CASE x + 1 <= n
  BY <1>1, ModSmall DEF Succ
<1>2. CASE ~(x + 1 <= n)
  BY <1>2, ModWraps DEF Succ
<1> QED
  BY <1>1, <1>2

LEMMA BetweenAndRoom ==
    ASSUME NEW n \in Nat, NEW h \in 0..n, NEW t \in 0..n
    PROVE  /\ Between(h, t, n) \in 0..n /\ Room(h, t, n) \in 0..n
           /\ Between(h, t, n) + Room(h, t, n) = n
           /\ t = h <=> Between(h, t, n) = 0
           /\ Room(h, t, n) = 0 <=> Between(h, t, n) = n
<1>1. CASE h <= t
  BY <1>1 DEF Between, Room
<1>2. CASE ~(h <= t)
  BY <1>2 DEF Between, Room
<1> QED
  BY <1>1, <1>2

LEMMA BetweenGrows ==
    ASSUME NEW n \in Nat, NEW h \in 0..n, NEW t \in 0..n, Between(h, t, n) # n
    PROVE  Between(h, Succ(t, n), n) = Between(h, t, n) + 1
<1>1. CASE t + 1 <= n /\ h <= t
  BY <1>1 DEF Between, Succ
<1>2. CASE t + 1 <= n /\ ~(h <= t)
  BY <1>2 DEF Between, Succ
<1>3. CASE ~(t + 1 <= n)
  BY <1>3 DEF Between, Succ
<1> QED
  BY <1>1, <1>2, <1>3

LEMMA BetweenShrinks ==
    ASSUME NEW n \in Nat, NEW h \in 0..n, NEW t \in 0..n, t # h
    PROVE  Between(Succ(h, n), t, n) = Between(h, t, n) - 1
<1>1. CASE h + 1 <= n /\ h <= t
  BY <1>1 DEF Between, Succ
<1>2. CASE h + 1 <= n /\ ~(h <= t)
  BY <1>2 DEF Between, Succ
<1>3. CASE ~(h + 1 <= n)
  BY <1>3 DEF Between, Succ
<1> QED
  BY <1>1, <1>2, <1>3

\* The tail is the slot behind the last element, and no element's slot.
LEMMA TailSlot ==
    ASSUME NEW n \in Nat, NEW h \in 0..n, NEW t \in 0..n,
           NEW i \in 1..(Between(h, t, n) + 1)
    PROVE  SlotOf(h, i, n) = t <=> i = Between(h, t, n) + 1
<1>1. CASE h <= t
  BY <1>1 DEF Between, SlotOf
<1>2. CASE ~(h <= t)
  BY <1>2 DEF Between, SlotOf
<1> QED
  BY <1>1, <1>2

LEMMA SlotShifts ==
    ASSUME NEW n \in Nat, NEW h \in 0..n, NEW i \in 1..n
    PROVE  SlotOf(Succ(h, n), i, n) = SlotOf(h, i + 1, n)
<1>1. CASE h + 1 <= n
  BY <1>1 DEF Succ, SlotOf
<1>2. CASE ~(h + 1 <= n)
  BY <1>2 DEF Succ, SlotOf
<1> QED
  BY <1>1, <1>2

LEMMA CountIsBetween ==
    ASSUME NEW n, NEW q
    PROVE  count(q, n) = Between(q.head, q.tail, n) /\ space(q, n) = Room(q.head, q.tail, n)
<1>1. Depth(n) = n + 1
  BY Zenon DEF Depth
<1>2. CASE q.head <= q.tail
  BY <1>1, <1>2, Zenon DEF count, space, Between, Room
<1>3. CASE ~(q.head <= q.tail)
  BY <1>1, <1>3, Zenon DEF count, space, Between, Room
<1> QED
  BY <1>2, <1>3, Zenon

\* QUEUE_COUNT and QUEUE_SPACE always add up to the capacity, so is_full and
\* is_empty are the two ends of the count.
THEOREM CountAndSpace ==
    ASSUME NEW n \in Nat, NEW T, NEW q \in QueueType(n, T)
    PROVE  /\ count(q, n) \in 0..n /\ space(q, n) \in 0..n
           /\ count(q, n) + space(q, n) = n
           /\ is_empty(q) <=> count(q, n) = 0
           /\ is_full(q, n) <=> count(q, n) = n
<1>1. q.head \in 0..n /\ q.tail \in 0..n
  BY DEF QueueType
<1>2. count(q, n) = Between(q.head, q.tail, n) /\ space(q, n) = Room(q.head, q.tail, n)
  BY CountIsBetween, Zenon
<1>3. /\ Between(q.head, q.tail, n) \in 0..n /\ Room(q.head, q.tail, n) \in 0..n
      /\ Between(q.head, q.tail, n) + Room(q.head, q.tail, n) = n
      /\ q.tail = q.head <=> Between(q.head, q.tail, n) = 0
      /\ Room(q.head, q.tail, n) = 0 <=> Between(q.head, q.tail, n) = n
  BY <1>1, BetweenAndRoom, Zenon
<1> QED
  BY <1>2, <1>3 DEF is_empty, is_full

LEMMA ContentsType ==
    ASSUME NEW n \in Nat, NEW T, NEW q \in QueueType(n, T)
    PROVE  Contents(q, n) \in Seq(T) /\ Len(Contents(q, n)) = count(q, n)
<1>1. count(q, n) \in 0..n
  BY CountAndSpace
<1>2. \A i \in 1..count(q, n) : q.data[(q.head + i - 1) % Depth(n)] \in T
  <2> TAKE i \in 1..count(q, n)
  <2>1. q.head \in 0..n /\ q.data \in [0..n -> T]
    BY DEF QueueType
  <2>2. i \in 1..(n + 1)
    BY <1>1
  <2>3. (q.head + i - 1) % Depth(n) \in 0..n
    BY <2>1, <2>2, Slot, Zenon
  <2> QED
    BY <2>1, <2>3, Zenon
<1> DEFINE f == [i \in 1..count(q, n) |-> q.data[(q.head + i - 1) % Depth(n)]]
<1>3. f \in [1..count(q, n) -> T]
  BY <1>2
<1> HIDE DEF f
<1>4. f \in Seq(T) /\ Len(f) = count(q, n)
  BY <1>1, <1>3
<1> QED
  BY <1>4, Zenon DEF f, Contents

\* enqueue appends its element to the queue, unless the ring is full: no other
\* element moves, is lost or shows twice, wherever the indices wrap.
THEOREM EnqueueAppends ==
    ASSUME NEW n \in Nat, NEW T, NEW q \in QueueType(n, T), NEW e \in T, ~is_full(q, n)
    PROVE  /\ enqueue(q, e, n) \in QueueType(n, T)
           /\ Contents(enqueue(q, e, n), n) = Append(Contents(q, n), e)
<1> DEFINE r == enqueue(q, e, n)
           k == count(q, n)
<1>1. q.head \in 0..n /\ q.tail \in 0..n /\ q.data \in [0..n -> T]
  BY DEF QueueType
<1>2. k \in 0..n /\ k < n
  BY CountAndSpace
<1>3. r = [head |-> q.head, tail |-> (q.tail + 1) % Depth(n),
           data |-> [q.data EXCEPT ![q.tail] = e]]
  BY Zenon DEF enqueue, QueueType
<1>4. (q.tail + 1) % Depth(n) = Succ(q.tail, n) /\ (q.tail + 1) % Depth(n) \in 0..n
  BY <1>1, NextIndex, Zenon
<1>5. r \in QueueType(n, T)
  <2>1. [q.data EXCEPT ![q.tail] = e] \in [0..n -> T]
    BY <1>1
  <2> QED
    BY <1>1, <1>3, <1>4, <2>1 DEF QueueType
<1>6. r.head = q.head /\ r.data = [q.data EXCEPT ![q.tail] = e]
      /\ r.tail = (q.tail + 1) % Depth(n)
  BY <1>3
<1> HIDE DEF r
<1>7. count(r, n) = k + 1
  <2>1. k = Between(q.head, q.tail, n) /\ count(r, n) = Between(q.head, Succ(q.tail, n), n)
    BY <1>4, <1>6, CountIsBetween, Zenon
  <2>2. Between(q.head, q.tail, n) # n
    BY <2>1, CountAndSpace, Zenon
  <2> QED
    BY <1>1, <2>1, <2>2, BetweenGrows, Zenon
<1>8. \A i \in 1..(k + 1) : /\ (q.head + i - 1) % Depth(n) \in 0..n
                            /\ (q.head + i - 1) % Depth(n) = q.tail <=> i = k + 1
  <2> TAKE i \in 1..(k + 1)
  <2>1. i \in 1..(n + 1)
    BY <1>2
  <2>2. (q.head + i - 1) % Depth(n) = SlotOf(q.head, i, n) /\ SlotOf(q.head, i, n) \in 0..n
    BY <1>1, <2>1, Slot, Zenon
  <2>3. k = Between(q.head, q.tail, n)
    BY CountIsBetween, Zenon
  <2>4. SlotOf(q.head, i, n) = q.tail <=> i = k + 1
    BY <1>1, <2>3, TailSlot
  <2> QED
    BY <2>2, <2>4
<1>9. \A i \in 1..(k + 1) : r.data[(q.head + i - 1) % Depth(n)]
          = IF i = k + 1 THEN e ELSE q.data[(q.head + i - 1) % Depth(n)]
  BY <1>1, <1>6, <1>8, Zenon
<1>10. \A i \in 1..(k + 1) : Contents(r, n)[i] = IF i = k + 1 THEN e ELSE Contents(q, n)[i]
  BY <1>2, <1>6, <1>7, <1>9 DEF Contents
<1>11. Contents(r, n) \in Seq(T) /\ Len(Contents(r, n)) = k + 1
       /\ Contents(q, n) \in Seq(T) /\ Len(Contents(q, n)) = k
  BY <1>5, <1>7, ContentsType
<1> HIDE DEF k
<1>12. Append(Contents(q, n), e) \in Seq(T) /\ Len(Append(Contents(q, n), e)) = k + 1
       /\ \A i \in 1..(k + 1) : Append(Contents(q, n), e)[i]
                                = IF i = k + 1 THEN e ELSE Contents(q, n)[i]
  BY <1>2, <1>11, AppendProperties
<1>13. Contents(r, n) = Append(Contents(q, n), e)
  BY <1>10, <1>11, <1>12, SeqEqual
<1> QED
  BY <1>5, <1>13 DEF r

\* dequeue removes the oldest element and keeps the others in order.
THEOREM DequeueTakesFirst ==
    ASSUME NEW n \in Nat, NEW T, NEW q \in QueueType(n, T), ~is_empty(q)
    PROVE  /\ dequeue(q, n) \in QueueType(n, T)
           /\ front(q) = Head(Contents(q, n))
           /\ Contents(dequeue(q, n), n) = Tail(Contents(q, n))
<1> DEFINE r == dequeue(q, n)
           k == count(q, n)
<1>1. q.head \in 0..n /\ q.tail \in 0..n /\ q.data \in [0..n -> T]
  BY DEF QueueType
<1>2. k \in 1..n
  BY CountAndSpace
<1>3. r = [head |-> (q.head + 1) % Depth(n), tail |-> q.tail, data |-> q.data]
  BY DEF dequeue, QueueType
<1>4. (q.head + 1) % Depth(n) = Succ(q.head, n) /\ (q.head + 1) % Depth(n) \in 0..n
  BY <1>1, NextIndex, Zenon
<1>5. r \in QueueType(n, T)
  BY <1>1, <1>3, <1>4 DEF QueueType
<1>6. r.head = (q.head + 1) % Depth(n) /\ r.data = q.data /\ r.tail = q.tail
  BY <1>3
<1> HIDE DEF r
<1>7. count(r, n) = k - 1
  <2>1. k = Between(q.head, q.tail, n) /\ count(r, n) = Between(Succ(q.head, n), q.tail, n)
    BY <1>4, <1>6, CountIsBetween, Zenon
  <2> QED
    BY <1>1, <2>1, BetweenShrinks, Zenon DEF is_empty
<1>8. \A i \in 1..(k - 1) : (r.head + i - 1) % Depth(n) = (q.head + (i + 1) - 1) % Depth(n)
  <2> TAKE i \in 1..(k - 1)
  <2>1. i \in 1..n /\ i \in 1..(n + 1) /\ i + 1 \in 1..(n + 1)
    BY <1>2
  <2>2. r.head = Succ(q.head, n) /\ r.head \in 0..n
    BY <1>4, <1>6, Zenon
  <2>3. /\ (r.head + i - 1) % Depth(n) = SlotOf(r.head, i, n)
        /\ (q.head + (i + 1) - 1) % Depth(n) = SlotOf(q.head, i + 1, n)
    BY <1>1, <2>1, <2>2, Slot, Zenon
  <2> QED
    BY <1>1, <2>1, <2>2, <2>3, SlotShifts, Zenon
<1>9. \A i \in 1..(k - 1) : Contents(r, n)[i] = Contents(q, n)[i + 1]
  BY <1>2, <1>6, <1>7, <1>8 DEF Contents
<1>10. Contents(r, n) \in Seq(T) /\ Len(Contents(r, n)) = k - 1
       /\ Contents(q, n) \in Seq(T) /\ Len(Contents(q, n)) = k
  BY <1>5, <1>7, ContentsType
<1>11. front(q) = Contents(q, n)[1]
  <2>1. (q.head + 1 - 1) % Depth(n) = q.head
    BY <1>1, ModSmall
  <2> QED
    BY <1>2, <2>1 DEF front, Contents
<1> HIDE DEF k
<1>12. Contents(q, n) # <<>>
  BY <1>2, <1>10
<1>13. Tail(Contents(q, n)) \in Seq(T) /\ Len(Tail(Contents(q, n))) = k - 1
       /\ \A i \in 1..(k - 1) : Tail(Contents(q, n))[i] = Contents(q, n)[i + 1]
  BY <1>2, <1>10, <1>12
<1>14. Contents(r, n) = Tail(Contents(q, n))
  BY <1>9, <1>10, <1>13, SeqEqual
<1>15. front(q) = Head(Contents(q, n))
  BY <1>10, <1>11, <1>12
<1> QED
  BY <1>5, <1>14, <1>15 DEF r

=============================================================================
