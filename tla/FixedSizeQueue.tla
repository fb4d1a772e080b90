--------------------------- MODULE FixedSizeQueue ---------------------------
(***************************************************************************)
(* PfFixedSizeQueue: a ring of queue_depth slots, one of them always       *)
(* unused, with a head and a tail index.  A queue is a record              *)
(*     [head, tail, data], data a function on 0..(depth - 1).              *)
(***************************************************************************)
EXTENDS Naturals, Sequences

\* init(n): room for n elements, calloc'ed slots.
NewQueue(n) == [head |-> 0, tail |-> 0, data |-> [i \in 0..n |-> 0]]

QueueType(n, T) == [head : 0..n, tail : 0..n, data : [0..n -> T]]

Depth(n) == n + 1

\* QUEUE_SPACE and QUEUE_COUNT
space(q, n) == IF q.head <= q.tail THEN Depth(n) - q.tail + q.head - 1
                                   ELSE q.head - q.tail - 1
count(q, n) == IF q.head <= q.tail THEN q.tail - q.head
                                   ELSE Depth(n) + q.tail - q.head

is_empty(q) == q.tail = q.head
is_full(q, n) == space(q, n) = 0

\* enqueue returns -EAGAIN and changes nothing when the ring is full.
enqueue(q, e, n) ==
    IF is_full(q, n) THEN q
    ELSE [q EXCEPT !.data[q.tail] = e, !.tail = (q.tail + 1) % Depth(n)]

\* Mutant: the head index does not wrap.
dequeueNoWrap(q, n) == [q EXCEPT !.head = q.head + 1]

\* dequeue, of a queue that is not empty: the element and the queue left.
front(q) == q.data[q.head]
dequeue(q, n) == [q EXCEPT !.head = (q.head + 1) % Depth(n)]

\* The queued elements, oldest first.
Contents(q, n) ==
    [i \in 1..count(q, n) |-> q.data[(q.head + i - 1) % Depth(n)]]
=============================================================================
