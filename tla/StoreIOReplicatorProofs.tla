---------------------- MODULE StoreIOReplicatorProofs -----------------------
(***************************************************************************)
(* The steps of the replicator with its requests, of its delay thread and  *)
(* of the error handler keep the invariant of StoreIO.                     *)
(***************************************************************************)
EXTENDS StoreIOInvariant

\* Zenon proves the leaves that do not name another prover.
USE ZenonT(30)

\* The request at the head of the queue.
LEMMA TakeRequest ==
    ASSUME Inv, NextEvent("req")
    PROVE  \E i \in Iocb :
           /\ i = Head(repQ).i /\ Queued(repQ, i)
           /\ Tail(repQ) \in Seq(Event)
           /\ QueuedOnce(Tail(repQ)) /\ CompletedOnce(Tail(repQ)) /\ ClosedLast(Tail(repQ), rio)
           /\ \A j \in Iocb : Queued(Tail(repQ), j) <=> Queued(repQ, j) /\ j # i
           /\ \A r \in RepIocb : Completed(Tail(repQ), r) <=> Completed(repQ, r)
           /\ \A r \in RepIocb : CompletedOk(Tail(repQ), r) => CompletedOk(repQ, r)
           /\ \A c \in Nat : HasClosed(Tail(repQ), c) => HasClosed(repQ, c)
           /\ (\A r \in RepIocb : ~Posting(r)) /\ (\A j \in Iocb : ~Reported(j))
<1>1. rep = Idle /\ repQ # <<>>
  BY DEF NextEvent
<1>2. PICK e : e = Head(repQ)
  OBVIOUS
<1>3. e.k = "req"
  BY <1>2 DEF NextEvent
<1>4. repQ \in Seq(Event) /\ QueuedOnce(repQ) /\ CompletedOnce(repQ) /\ ClosedLast(repQ, rio)
  BY DEF Inv, QueueInv, ReplicatorType
<1>5. PICK t : t = Tail(repQ)
  OBVIOUS
<1>6. /\ e \in Event /\ t \in Seq(Event)
      /\ QueuedOnce(t) /\ CompletedOnce(t) /\ ClosedLast(t, rio)
      /\ e.k = "req" => Queued(repQ, e.i)
      /\ \A i \in Iocb : Queued(t, i) <=> Queued(repQ, i) /\ ~(e.k = "req" /\ e.i = i)
      /\ \A r \in RepIocb : Completed(t, r) <=> Completed(repQ, r) /\ ~(e.k = "complete" /\ e.r = r)
      /\ \A r \in RepIocb : CompletedOk(t, r) => CompletedOk(repQ, r) /\ Completed(t, r)
      /\ \A c \in Nat : HasClosed(t, c) => HasClosed(repQ, c)
  BY <1>1, <1>2, <1>4, <1>5, PopEvent
<1>7. e.i \in Iocb
  BY <1>3, <1>6 DEF Event
<1>8. (\A r \in RepIocb : ~Posting(r)) /\ (\A j \in Iocb : ~Reported(j))
  BY <1>1 DEF Posting, Reported, Idle
<1> QED
  BY <1>2, <1>3, <1>5, <1>6, <1>7, <1>8

\* get_conn fails.
LEMMA CannotConnectInv ==
    ASSUME Inv, CannotConnect
    PROVE  Inv'
<1>1. NextEvent("req") /\ repQ' = Tail(repQ) /\ rep' = [pc |-> "report", i |-> Head(repQ).i]
      /\ UNCHANGED <<server, health, delayed, rio, conns, network, data, acked, disturbed>>
  BY DEF CannotConnect
<1>2. PICK i \in Iocb :
           /\ i = Head(repQ).i /\ Queued(repQ, i)
           /\ repQ' \in Seq(Event)
           /\ QueuedOnce(repQ') /\ CompletedOnce(repQ') /\ ClosedLast(repQ', rio)
           /\ \A j \in Iocb : Queued(repQ', j) <=> Queued(repQ, j) /\ j # i
           /\ \A r \in RepIocb : Completed(repQ', r) <=> Completed(repQ, r)
           /\ \A r \in RepIocb : CompletedOk(repQ', r) => CompletedOk(repQ, r)
           /\ \A c \in Nat : HasClosed(repQ', c) => HasClosed(repQ, c)
           /\ (\A r \in RepIocb : ~Posting(r)) /\ (\A j \in Iocb : ~Reported(j))
  BY <1>1, TakeRequest
<1>3. rep' = [pc |-> "report", i |-> i]
  BY <1>1, <1>2
<1>4. rep'.pc = "report" /\ rep'.i = i
  BY <1>3
<1>5. \A r \in RepIocb : ~Posting(r)'
  BY <1>4 DEF Posting
<1>6. rep' \in RepState
  BY <1>3 DEF RepState
<1>7. QueueInv'
  BY <1>1, <1>2, <1>5, <1>6, RequestsMove DEF Inv, QueueInv, ReplicatorType
<1>8. OnePlace'
  <2>1. \A j \in Iocb : /\ Delayed(delayed, j)' <=> Delayed(delayed, j)
                        /\ Sent(j)' <=> Sent(j)
                        /\ Reported(j)' <=> j = i
                        /\ Answered(j)' <=> Answered(j)
    BY <1>1, <1>4 DEF Delayed, Sent, Reported, Answered, server
  <2>2. sio' = sio
    BY <1>1 DEF server
  <2> QED
    BY <1>2, <2>1, <2>2 DEF Inv, OnePlace
<1> QED
  BY <1>1, <1>2, <1>5, <1>7, <1>8, MoveInv

\* A request at the head of the queue goes to the delay thread.
LEMMA DelayRequest ==
    ASSUME Inv, NextEvent("req"), repQ' = Tail(repQ), delayed' = Append(delayed, Head(repQ).i),
           UNCHANGED <<server, rep, rio>>
    PROVE  /\ OnePlace'
           /\ repQ' \in Seq(Event) /\ delayed' \in Seq(Iocb)
           /\ QueuedOnce(repQ') /\ CompletedOnce(repQ') /\ ClosedLast(repQ', rio) /\ DelayedOnce(delayed')
           /\ \A r \in RepIocb : Completed(repQ', r) <=> Completed(repQ, r)
           /\ \A r \in RepIocb : CompletedOk(repQ', r) => CompletedOk(repQ, r)
           /\ \A c \in Nat : HasClosed(repQ', c) => HasClosed(repQ, c)
           /\ \A r \in RepIocb : Posting(r)' <=> Posting(r)
<1>1. PICK i \in Iocb :
           /\ i = Head(repQ).i /\ Queued(repQ, i)
           /\ repQ' \in Seq(Event)
           /\ QueuedOnce(repQ') /\ CompletedOnce(repQ') /\ ClosedLast(repQ', rio)
           /\ \A j \in Iocb : Queued(repQ', j) <=> Queued(repQ, j) /\ j # i
           /\ \A r \in RepIocb : Completed(repQ', r) <=> Completed(repQ, r)
           /\ \A r \in RepIocb : CompletedOk(repQ', r) => CompletedOk(repQ, r)
           /\ \A c \in Nat : HasClosed(repQ', c) => HasClosed(repQ, c)
           /\ (\A r \in RepIocb : ~Posting(r)) /\ (\A j \in Iocb : ~Reported(j))
  BY TakeRequest
<1>2. delayed \in Seq(Iocb) /\ DelayedOnce(delayed) /\ ~Delayed(delayed, i) /\ delayed' = Append(delayed, i)
  BY <1>1 DEF Inv, QueueInv, ReplicatorType, OnePlace
<1>3. /\ delayed' \in Seq(Iocb) /\ DelayedOnce(delayed')
      /\ \A j \in Iocb : Delayed(delayed', j) <=> Delayed(delayed, j) \/ j = i
  BY <1>2, PushDelayed, SMT
<1>4. \A r \in RepIocb : Posting(r)' <=> Posting(r)
  BY DEF Posting
<1>5. OnePlace'
  <2>1. \A j \in Iocb : /\ Sent(j)' <=> Sent(j)
                        /\ Reported(j)' <=> Reported(j)
                        /\ Answered(j)' <=> Answered(j)
    BY DEF Sent, Reported, Answered, server
  <2>2. sio' = sio
    BY DEF server
  <2> QED
    BY <1>1, <1>3, <2>1, <2>2 DEF Inv, OnePlace
<1> QED
  BY <1>1, <1>3, <1>4, <1>5

\* begin_replicate_io with io_depth requests in flight.
LEMMA ThrottledInv ==
    ASSUME Inv, Throttled
    PROVE  Inv'
<1>1. NextEvent("req") /\ repQ' = Tail(repQ) /\ delayed' = Append(delayed, Head(repQ).i)
      /\ UNCHANGED <<server, health, rep, rio, conns, network, data, acked, disturbed>>
  BY DEF Throttled
<1>2. /\ OnePlace'
      /\ repQ' \in Seq(Event) /\ delayed' \in Seq(Iocb)
      /\ QueuedOnce(repQ') /\ CompletedOnce(repQ') /\ ClosedLast(repQ', rio) /\ DelayedOnce(delayed')
      /\ \A r \in RepIocb : Completed(repQ', r) <=> Completed(repQ, r)
      /\ \A r \in RepIocb : CompletedOk(repQ', r) => CompletedOk(repQ, r)
      /\ \A c \in Nat : HasClosed(repQ', c) => HasClosed(repQ, c)
      /\ \A r \in RepIocb : Posting(r)' <=> Posting(r)
  BY <1>1, DelayRequest
<1>3. QueueInv'
  BY <1>1, <1>2, RequestsMove DEF Inv, QueueInv, ReplicatorType
<1> QED
  BY <1>1, <1>2, <1>3, MoveInv

\* The delay thread returns a request.
LEMMA DelayOverInv ==
    ASSUME Inv, DelayOver
    PROVE  Inv'
<1>1. /\ delayed # <<>> /\ delayed' = Tail(delayed) /\ repQ' = repQ \o Requests(<<Head(delayed)>>)
      /\ UNCHANGED <<server, health, rep, rio, conns, network, data, acked, disturbed>>
  BY DEF DelayOver
<1>2. delayed \in Seq(Iocb) /\ DelayedOnce(delayed)
  BY DEF Inv, QueueInv, ReplicatorType
<1>3. PICK i \in Iocb :
          /\ i = Head(delayed) /\ Delayed(delayed, i)
          /\ delayed' \in Seq(Iocb) /\ DelayedOnce(delayed')
          /\ \A j \in Iocb : Delayed(delayed', j) <=> Delayed(delayed, j) /\ j # i
  BY <1>1, <1>2, PopDelayed
<1>4. PICK is \in Seq(Iocb) : /\ is = <<i>> /\ DelayedOnce(is)
                              /\ \A j \in Iocb : Delayed(is, j) <=> j = i
  <2>1. PICK s : s = <<i>>
    OBVIOUS
  <2>2. s \in Seq(Iocb) /\ DOMAIN s = {1} /\ s[1] = i
    BY <2>1, SMT
  <2>3. DelayedOnce(s)
    BY <2>2 DEF DelayedOnce
  <2>4. \A j \in Iocb : Delayed(s, j) <=> j = i
    BY <2>2 DEF Delayed
  <2> QED
    BY <2>1, <2>2, <2>3, <2>4
<1>5. repQ \in Seq(Event) /\ QueuedOnce(repQ) /\ CompletedOnce(repQ) /\ ClosedLast(repQ, rio)
  BY DEF Inv, QueueInv, ReplicatorType
<1>6. ~Queued(repQ, i)
  BY <1>3 DEF Inv, OnePlace
<1>7. /\ repQ' \in Seq(Event)
      /\ QueuedOnce(repQ') /\ CompletedOnce(repQ') /\ ClosedLast(repQ', rio)
      /\ \A j \in Iocb : Queued(repQ', j) <=> Queued(repQ, j) \/ j = i
      /\ \A r \in RepIocb : Completed(repQ', r) <=> Completed(repQ, r)
      /\ \A r \in RepIocb : CompletedOk(repQ', r) <=> CompletedOk(repQ, r)
      /\ \A c \in Nat : HasClosed(repQ', c) <=> HasClosed(repQ, c)
  <2>1. repQ' = repQ \o Requests(is)
    BY <1>1, <1>3, <1>4
  <2>2. \A j \in Iocb : Delayed(is, j) => ~Queued(repQ, j)
    BY <1>4, <1>6
  <2>3. /\ repQ' \in Seq(Event)
        /\ QueuedOnce(repQ') /\ CompletedOnce(repQ') /\ ClosedLast(repQ', rio)
        /\ \A j \in Iocb : Queued(repQ', j) <=> Queued(repQ, j) \/ Delayed(is, j)
        /\ \A r \in RepIocb : Completed(repQ', r) <=> Completed(repQ, r)
        /\ \A r \in RepIocb : CompletedOk(repQ', r) <=> CompletedOk(repQ, r)
        /\ \A c \in Nat : HasClosed(repQ', c) <=> HasClosed(repQ, c)
    BY <1>4, <1>5, <2>1, <2>2, PushRequests
  <2> QED
    BY <1>4, <2>3
<1>8. \A r \in RepIocb : Posting(r)' <=> Posting(r)
  BY <1>1 DEF Posting
<1>9. QueueInv'
  <2>1. QueueInv /\ rep' \in RepState
    BY <1>1 DEF Inv, QueueInv, ReplicatorType
  <2>2. \A c \in Nat : HasClosed(repQ', c) => HasClosed(repQ, c)
    BY <1>7
  <2>3. \A r \in RepIocb : Posting(r)' => Posting(r)
    BY <1>8
  <2>4. UNCHANGED <<rio, conns>> /\ delayed' \in Seq(Iocb) /\ DelayedOnce(delayed')
    BY <1>1, <1>3
  <2> QED
    BY <1>7, <2>1, <2>2, <2>3, <2>4, RequestsMove
<1>10. OnePlace'
  <2>1. \A j \in Iocb : /\ Sent(j)' <=> Sent(j)
                        /\ Reported(j)' <=> Reported(j)
                        /\ Answered(j)' <=> Answered(j)
    BY <1>1 DEF Sent, Reported, Answered, server
  <2>2. sio' = sio
    BY <1>1 DEF server
  <2> QED
    BY <1>3, <1>7, <2>1, <2>2 DEF Inv, OnePlace
<1> QED
  BY <1>1, <1>7, <1>8, <1>9, <1>10, MoveInv

\* A step that only moves requests and counts something else than a request.
LEMMA RecountInv ==
    ASSUME Inv, SameConns, OnePlace', ThrottleOK',
           UNCHANGED <<server, health, rep, rio, network, data, acked>>,
           disturbed \subseteq disturbed',
           repQ' \in Seq(Event), delayed' \in Seq(Iocb),
           QueuedOnce(repQ'), CompletedOnce(repQ'), ClosedLast(repQ', rio), DelayedOnce(delayed'),
           \A r \in RepIocb : Completed(repQ', r) <=> Completed(repQ, r),
           \A r \in RepIocb : CompletedOk(repQ', r) => CompletedOk(repQ, r),
           \A c \in Nat : HasClosed(repQ', c) => HasClosed(repQ, c)
    PROVE  Inv'
<1>1. \A r \in RepIocb : Posting(r)' <=> Posting(r)
  BY DEF Posting
<1>2. QueueInv'
  <2>1. ReplicatorType'
    BY DEF Inv, QueueInv, ReplicatorType, SameConns
  <2>2. SentOnce'
    BY DEF Inv, QueueInv, SentOnce
  <2>3. ConnOK'
    <3>1. ConnOK /\ Current' = Current
      BY DEF Inv, QueueInv, SameConns, Current
    <3>2. \A c \in 1..Current : conns'[c].ok = conns[c].ok
      BY DEF SameConns, Current
    <3>3. \A c \in 1..Current' : conns'[c].ok => c = Current'
      BY <3>1, <3>2 DEF ConnOK
    <3>4. \A r \in RepIocb : \A io \in rio'[r] : io.c \in 1..Current'
      BY <3>1 DEF ConnOK
    <3>5. \A r \in RepIocb : /\ Posting(r)' \/ Completed(repQ', r) => rio'[r] # {}
                             /\ Posting(r)' => ~Completed(repQ', r)
      BY <1>1, <3>1 DEF ConnOK
    <3>6. \A c \in Nat : HasClosed(repQ', c) => c \in 1..Current' /\ ~conns'[c].ok
      BY <3>1, <3>2 DEF ConnOK
    <3> QED
      BY <3>3, <3>4, <3>5, <3>6 DEF ConnOK
  <2> QED
    BY <2>1, <2>2, <2>3 DEF QueueInv
<1>3. ServerInv'
  BY ServerFrame DEF Inv
<1>4. UNCHANGED <<sio, reqs, done, peer, replies>>
  BY DEF server, network
<1>5. WireInv'
  <2>1. NetworkType'
    BY <1>4 DEF Inv, WireInv, NetworkType
  <2>2. \A r \in RepIocb : KeptFor(r)
    BY <1>1 DEF KeptFor
  <2>3. (\A m \in peer : m.r \in RepIocb) /\ (\A x \in replies : x.r \in RepIocb)
    BY DEF Inv, WireInv, NetworkType
  <2>4. \A x \in replies' : Open(x.c)'
    <3>1. \A x \in replies : x.c \in 1..Len(conns) /\ conns[x.c].ok
      BY DEF Inv, WireInv, WireOK, Open
    <3> QED
      BY <1>4, <3>1 DEF Open, SameConns
  <2> QED
    BY <1>4, <2>1, <2>2, <2>3, <2>4, WireShrinks, SMTT(30) DEF SameConns
<1>6. NumbersOK'
  BY <1>4, NumbersFrame DEF Inv
<1>7. StoredInv'
  BY <1>4, StoredFrame, Named
<1> QED
  BY <1>2, <1>3, <1>5, <1>6, <1>7 DEF Inv

\* The number of requests without a reply is a number.
LEMMA UnansweredCounted ==
    ASSUME CardinalityFacts
    PROVE  Cardinality(Unanswered(Current)) \in Nat
<1>1. Unanswered(Current) \in SUBSET RepIocb
  BY DEF Unanswered, OnConn
<1>2. IsFiniteSet(RepIocb)
  BY StoreIOAssumption
<1>3. IsFiniteSet(Unanswered(Current))
  BY <1>1, <1>2 DEF CardinalityFacts
<1> QED
  BY <1>3 DEF CardinalityFacts

\* A connection counts something else than a request, in a step that takes no
\* request from it.
LEMMA MiscountStep ==
    ASSUME CardinalityFacts, Inv, Connected, NEW n \in {-1, 1},
           conns' = [conns EXCEPT ![Current] = Miscount(@, n)],
           disturbed' \cap Miscounts # {}, rio' = rio,
           \A r \in RepIocb : Completed(repQ', r) <=> Completed(repQ, r)
    PROVE  SameConns /\ ThrottleOK'
<1>1. conns \in Seq(Conn) /\ conns # <<>>
  BY DEF Inv, QueueInv, ReplicatorType, Connected
<1>2. conns[Current] \in Conn
  BY <1>1, ElementFacts, SMT DEF Current
<1>3. PICK z : z = Miscount(conns[Current], n)
  OBVIOUS
<1>4. z \in Conn /\ z.ok = conns[Current].ok
      /\ z.infly - z.drift = conns[Current].infly - conns[Current].drift
  <2>1. n \in Int
    BY SMT
  <2> QED
    BY <1>2, <1>3, <2>1, MiscountFacts
<1>5. conns' = [conns EXCEPT ![Current] = z]
  BY <1>3
<1> QED
  BY <1>4, <1>5, UnansweredCounted, Recount

\* begin_replicate_io without an iocb.
LEMMA NoRepIocbInv ==
    ASSUME CardinalityFacts, Inv, NoRepIocb
    PROVE  Inv'
<1>1. /\ NextEvent("req") /\ repQ' = Tail(repQ) /\ delayed' = Append(delayed, Head(repQ).i)
      /\ Connected /\ conns' = [conns EXCEPT ![Current] = Miscount(@, 1)]
      /\ UNCHANGED <<server, health, rep, rio, network, data, acked>>
  BY DEF NoRepIocb
<1>2. disturbed' \cap Miscounts # {} /\ disturbed \subseteq disturbed'
  BY DEF NoRepIocb, Disturb, Miscounts
<1>3. /\ OnePlace'
      /\ repQ' \in Seq(Event) /\ delayed' \in Seq(Iocb)
      /\ QueuedOnce(repQ') /\ CompletedOnce(repQ') /\ ClosedLast(repQ', rio) /\ DelayedOnce(delayed')
      /\ \A r \in RepIocb : Completed(repQ', r) <=> Completed(repQ, r)
      /\ \A r \in RepIocb : CompletedOk(repQ', r) => CompletedOk(repQ, r)
      /\ \A c \in Nat : HasClosed(repQ', c) => HasClosed(repQ, c)
  BY <1>1, DelayRequest
<1>4. SameConns /\ ThrottleOK'
  BY <1>1, <1>2, <1>3, MiscountStep
<1> QED
  BY <1>1, <1>2, <1>3, <1>4, RecountInv

\* begin_replicate_io without a reply buffer.
LEMMA RequeueInv ==
    ASSUME CardinalityFacts, Inv, Requeue
    PROVE  Inv'
<1>1. /\ NextEvent("req") /\ repQ' = Append(Tail(repQ), Head(repQ))
      /\ Connected /\ conns' = [conns EXCEPT ![Current] = Miscount(@, 1)]
      /\ UNCHANGED <<server, health, rep, delayed, rio, network, data, acked>>
  BY DEF Requeue
<1>2. disturbed' \cap Miscounts # {} /\ disturbed \subseteq disturbed'
  BY DEF Requeue, Disturb, Miscounts
<1>3. PICK t : t = Tail(repQ)
  OBVIOUS
<1>4. PICK i \in Iocb :
           /\ i = Head(repQ).i /\ Queued(repQ, i)
           /\ t \in Seq(Event)
           /\ QueuedOnce(t) /\ CompletedOnce(t) /\ ClosedLast(t, rio)
           /\ \A j \in Iocb : Queued(t, j) <=> Queued(repQ, j) /\ j # i
           /\ \A r \in RepIocb : Completed(t, r) <=> Completed(repQ, r)
           /\ \A r \in RepIocb : CompletedOk(t, r) => CompletedOk(repQ, r)
           /\ \A c \in Nat : HasClosed(t, c) => HasClosed(repQ, c)
  BY <1>1, <1>3, TakeRequest
<1>5. PICK e : e = Head(repQ)
  OBVIOUS
<1>6. e \in Event /\ e.k = "req" /\ e.i = i
  <2>1. repQ \in Seq(Event) /\ repQ # <<>>
    BY <1>1 DEF NextEvent, Inv, QueueInv, ReplicatorType
  <2>2. e \in Event
    BY <1>5, <2>1, TailFacts
  <2> QED
    BY <1>1, <1>4, <1>5, <2>2 DEF NextEvent
<1>7. repQ' = Append(t, e)
  BY <1>1, <1>3, <1>5
<1>8. /\ repQ' \in Seq(Event)
      /\ QueuedOnce(repQ') /\ CompletedOnce(repQ') /\ ClosedLast(repQ', rio)
      /\ \A j \in Iocb : Queued(repQ', j) <=> Queued(repQ, j)
      /\ \A r \in RepIocb : Completed(repQ', r) <=> Completed(repQ, r)
      /\ \A r \in RepIocb : CompletedOk(repQ', r) => CompletedOk(repQ, r)
      /\ \A c \in Nat : HasClosed(repQ', c) => HasClosed(repQ, c)
  <2>1. ~Queued(t, e.i) /\ ~(e.k = "complete") /\ ~(e.k = "closed")
    BY <1>4, <1>6
  <2>2. /\ repQ' \in Seq(Event)
        /\ QueuedOnce(repQ') /\ CompletedOnce(repQ') /\ ClosedLast(repQ', rio)
        /\ \A j \in Iocb : Queued(repQ', j) <=> Queued(t, j) \/ j = i
        /\ \A r \in RepIocb : Completed(repQ', r) <=> Completed(t, r)
        /\ \A r \in RepIocb : CompletedOk(repQ', r) <=> CompletedOk(t, r)
        /\ \A c \in Nat : HasClosed(repQ', c) <=> HasClosed(t, c)
    BY <1>4, <1>6, <1>7, <2>1, PushEvent
  <2> QED
    BY <1>4, <2>2
<1>9. SameConns /\ ThrottleOK'
  BY <1>1, <1>2, <1>8, MiscountStep
<1>10. OnePlace'
  <2>1. \A j \in Iocb : /\ Sent(j)' <=> Sent(j)
                        /\ Reported(j)' <=> Reported(j)
                        /\ Answered(j)' <=> Answered(j)
    BY <1>1 DEF Sent, Reported, Answered, server
  <2>2. sio' = sio /\ delayed' = delayed
    BY <1>1 DEF server
  <2> QED
    BY <1>8, <2>1, <2>2 DEF Inv, OnePlace
<1>11. delayed' \in Seq(Iocb) /\ DelayedOnce(delayed')
  BY <1>1 DEF Inv, QueueInv, ReplicatorType
<1> QED
  BY <1>1, <1>2, <1>8, <1>9, <1>10, <1>11, RecountInv

\* A recovery read gives back a count that it did not take.
LEMMA RecoveryReadDoneInv ==
    ASSUME CardinalityFacts, Inv, RecoveryReadDone
    PROVE  Inv'
<1>1. /\ Connected
      /\ conns' = [conns EXCEPT ![Current] = Miscount(@, -1)]
      /\ UNCHANGED <<server, health, rep, repQ, delayed, rio, network, data, acked>>
  BY DEF RecoveryReadDone
<1>2. disturbed' \cap Miscounts # {} /\ disturbed \subseteq disturbed'
  BY DEF RecoveryReadDone, Disturb, Miscounts
<1>8. SameConns /\ ThrottleOK'
  BY <1>1, <1>2, MiscountStep
<1>9. OnePlace'
  BY <1>1 DEF Inv, OnePlace, Queued, Delayed, Sent, Reported, Answered, server
<1>10. /\ repQ' \in Seq(Event) /\ delayed' \in Seq(Iocb)
       /\ QueuedOnce(repQ') /\ CompletedOnce(repQ') /\ ClosedLast(repQ', rio) /\ DelayedOnce(delayed')
  BY <1>1 DEF Inv, QueueInv, ReplicatorType
<1> QED
  BY <1>1, <1>2, <1>8, <1>9, <1>10, RecountInv

\* get_conn connects.
LEMMA ConnectInv ==
    ASSUME CardinalityFacts, Inv, Connect
    PROVE  Inv'
<1> PICK v \in StartCounts \union {0} :
          /\ conns' = Append(conns, [ok |-> TRUE, infly |-> v, drift |-> v, unclean |-> FALSE])
          /\ Disturb({x \in {"uninit_count"} : v # 0})
  BY DEF Connect
<1>1. /\ ~Connected
      /\ conns' = Append(conns, [ok |-> TRUE, infly |-> v, drift |-> v, unclean |-> FALSE])
      /\ UNCHANGED <<server, health, rep, repQ, delayed, rio, network, data, acked>>
      /\ disturbed \subseteq disturbed'
  BY DEF Connect, Disturb
<1>2. PICK y : y = [ok |-> TRUE, infly |-> v, drift |-> v, unclean |-> FALSE]
  OBVIOUS
<1>3. y \in Conn /\ y.ok /\ y.infly = v /\ y.drift = v /\ v \in Int
  <2>1. v \in Int
    BY StoreIOAssumption, SMT
  <2> QED
    BY <1>2, <2>1, SMT DEF Conn
<1>4. conns \in Seq(Conn) /\ Len(conns) \in Nat
  BY SMT DEF Inv, QueueInv, ReplicatorType
<1>5. conns' = Append(conns, y)
  BY <1>1, <1>2
<1>6. /\ conns' \in Seq(Conn)
      /\ Len(conns') = Len(conns) + 1 /\ conns'[Len(conns) + 1] = y
      /\ \A c \in 1..Len(conns) : conns'[c] = conns[c]
  BY <1>3, <1>4, <1>5, SMT
<1>7. \A c \in 1..Len(conns) : ~conns[c].ok
  BY <1>1, <1>4, SMT DEF Inv, QueueInv, ConnOK, Connected, Current
<1>8. \A r \in RepIocb : \A io \in rio[r] : io.c \in 1..Len(conns)
  BY DEF Inv, QueueInv, ConnOK, Current
<1>9. UNCHANGED <<sio, reqs, done, peer, replies>>
  BY <1>1 DEF server, network
<1>10. ServerInv'
  BY <1>1, ServerFrame DEF Inv
<1>11. QueueInv'
  <2>1. ReplicatorType'
    BY <1>1, <1>6 DEF Inv, QueueInv, ReplicatorType
  <2>2. SentOnce' /\ QueuedOnce(repQ)' /\ DelayedOnce(delayed)' /\ CompletedOnce(repQ)' /\ ClosedLast(repQ, rio)'
    BY <1>1, SMT DEF Inv, QueueInv, SentOnce, QueuedOnce, DelayedOnce, CompletedOnce, ClosedLast
  <2>3. ConnOK'
    <3>1. \A c \in 1..Current' : conns'[c].ok => c = Current'
      BY <1>4, <1>6, <1>7, SMTT(30) DEF Current
    <3>2. \A r \in RepIocb : \A io \in rio'[r] : io.c \in 1..Current'
      BY <1>1, <1>4, <1>6, <1>8, SMTT(30) DEF Current
    <3>3. \A r \in RepIocb : (Posting(r) \/ Completed(repQ, r))' => rio'[r] # {}
      BY <1>1 DEF Inv, QueueInv, ConnOK, Posting, Completed
    <3>4. \A r \in RepIocb : Posting(r)' => ~Completed(repQ, r)'
      BY <1>1 DEF Inv, QueueInv, ConnOK, Posting, Completed
    <3>5. \A c \in Nat : HasClosed(repQ, c)' => c \in 1..Current' /\ ~conns'[c].ok
      <4>1. \A c \in Nat : HasClosed(repQ, c)' => c \in 1..Len(conns) /\ ~conns[c].ok
        BY <1>1 DEF Inv, QueueInv, ConnOK, HasClosed, Current
      <4> QED
        BY <1>7, <4>1, <1>4, <1>6, SMTT(30) DEF Current
    <3> QED
      BY <3>1, <3>2, <3>3, <3>4, <3>5 DEF ConnOK
  <2> QED
    BY <2>1, <2>2, <2>3 DEF QueueInv
<1>12. OnePlace'
  BY <1>1, <1>9 DEF Inv, OnePlace, Queued, Delayed, Sent, Reported, Answered
<1>13. ThrottleOK'
  <2>1. Current' = Len(conns) + 1 /\ conns'[Current'].infly = v /\ conns'[Current'].drift = v
    BY <1>3, <1>6 DEF Current
  <2>2. Unanswered(Current)' = {}
    BY <1>1, <1>4, <1>8, <2>1, SMTT(30) DEF Unanswered, OnConn
  <2>3. Cardinality({}) = 0
    BY DEF CardinalityFacts
  <2>4. v = v + 0
    BY <1>3, SMT
  <2>5. disturbed' \cap Miscounts = {} => v = 0
    BY DEF Disturb, Miscounts
  <2> QED
    BY <2>1, <2>2, <2>3, <2>4, <2>5 DEF ThrottleOK
<1>14. WireInv'
  <2>1. NetworkType'
    BY <1>1, <1>9 DEF Inv, WireInv, NetworkType
  <2>2. \A r : KeptFor(r)
    BY <1>1 DEF KeptFor, Posting
  <2>3. \A x \in replies : x.c \in 1..Len(conns) /\ conns[x.c].ok
    BY DEF Inv, WireInv, WireOK, Open
  <2>4. replies = {}
    BY <1>7, <2>3
  <2> QED
    BY <1>4, <1>6, <1>9, <2>1, <2>2, <2>4, WireShrinks, SMTT(30)
<1>15. NumbersOK'
  BY <1>1, <1>9, NumbersFrame DEF Inv
<1>16. StoredInv'
  BY <1>1, <1>9, StoredFrame
<1> QED
  BY <1>10, <1>11, <1>12, <1>13, <1>14, <1>15, <1>16 DEF Inv

\* begin_replicate_io up to post_send.
LEMMA BeginReplicateInv ==
    ASSUME CardinalityFacts, Inv, NEW r \in RepIocb, BeginReplicate(r)
    PROVE  Inv'
<1>1. /\ NextEvent("req") /\ repQ' = Tail(repQ)
      /\ Connected /\ conns' = [conns EXCEPT ![Current].infly = @ + 1]
      /\ rio[r] = {} /\ rio' = [rio EXCEPT ![r] = {[i |-> Head(repQ).i, c |-> Current]}]
      /\ rep' = [pc |-> "post", r |-> r]
      /\ UNCHANGED <<server, health, delayed, network, data, acked, disturbed>>
  BY DEF BeginReplicate, FreeIocbs
<1>2. PICK i \in Iocb :
           /\ i = Head(repQ).i /\ Queued(repQ, i)
           /\ repQ' \in Seq(Event)
           /\ QueuedOnce(repQ') /\ CompletedOnce(repQ') /\ ClosedLast(repQ', rio)
           /\ \A j \in Iocb : Queued(repQ', j) <=> Queued(repQ, j) /\ j # i
           /\ \A q \in RepIocb : Completed(repQ', q) <=> Completed(repQ, q)
           /\ \A q \in RepIocb : CompletedOk(repQ', q) => CompletedOk(repQ, q)
           /\ \A c \in Nat : HasClosed(repQ', c) => HasClosed(repQ, c)
           /\ (\A q \in RepIocb : ~Posting(q)) /\ (\A j \in Iocb : ~Reported(j))
  BY <1>1, TakeRequest
<1>3. /\ SameConns /\ Connected' /\ Len(conns) \in 1..Len(conns)
      /\ conns[Len(conns)].infly \in Int /\ conns[Len(conns)].drift \in Int
      /\ conns'[Len(conns)].infly = conns[Len(conns)].infly + 1
      /\ conns'[Len(conns)].drift = conns[Len(conns)].drift
  BY <1>1, CountUp
<1>4. PICK io : io = [i |-> i, c |-> Len(conns)]
  OBVIOUS
<1>5. io \in [i : Iocb, c : Nat] /\ io.i = i /\ io.c = Len(conns)
  BY <1>3, <1>4 DEF SameConns
<1>6. rio \in [RepIocb -> SUBSET [i : Iocb, c : Nat]]
  BY DEF Inv, QueueInv, ReplicatorType
<1>7. /\ rio' \in [RepIocb -> SUBSET [i : Iocb, c : Nat]] /\ rio'[r] = {io}
      /\ \A q \in RepIocb : q # r => rio'[q] = rio[q]
  <2>1. rio' = [rio EXCEPT ![r] = {io}]
    BY <1>1, <1>2, <1>4 DEF Current
  <2>2. {io} \in SUBSET [i : Iocb, c : Nat]
    BY <1>5
  <2> QED
    BY <1>6, <2>1, <2>2
<1>8. rep'.pc = "post" /\ rep'.r = r
  BY <1>1
<1>9. (\A q \in RepIocb : Posting(q)' <=> q = r) /\ (\A j \in Iocb : ~Reported(j)')
  BY <1>8 DEF Posting, Reported
<1>10. ~Completed(repQ, r)
  BY <1>1 DEF Inv, QueueInv, ConnOK
<1>11. ~Sent(i) /\ "remote" \in sio[i].mask
  BY <1>2 DEF Inv, OnePlace
<1>12. UNCHANGED <<sio, reqs, done, peer, replies>>
  BY <1>1 DEF server, network
<1>13. ServerInv'
  BY <1>1, ServerFrame DEF Inv
<1>14. QueueInv'
  <2>1. ReplicatorType'
    <3>1. rep' \in RepState
      BY <1>1 DEF RepState
    <3>2. \A q \in RepIocb : \A x, y \in rio'[q] : x = y
      BY <1>7, SMT DEF Inv, QueueInv, ReplicatorType
    <3>3. delayed' \in Seq(Iocb)
      BY <1>1 DEF Inv, QueueInv, ReplicatorType
    <3> QED
      BY <1>2, <1>3, <1>7, <3>1, <3>2, <3>3 DEF ReplicatorType, SameConns
  <2>2. SentOnce'
    BY <1>5, <1>7, <1>11 DEF Inv, QueueInv, SentOnce, Sent
  <2>3. ClosedLast(repQ', rio')
    <3>1. \A q \in RepIocb : Completed(repQ', q) => rio'[q] = rio[q]
      BY <1>2, <1>7, <1>10
    <3> QED
      BY <1>2, <3>1, ClosedLastFor
  <2>4. ConnOK'
    <3>1. ConnOK /\ Current' = Current /\ Current = Len(conns)
      BY <1>3 DEF Inv, QueueInv, SameConns, Current
    <3>2. \A c \in 1..Current : conns'[c].ok = conns[c].ok
      BY <1>3 DEF SameConns, Current
    <3>3. \A c \in 1..Current' : conns'[c].ok => c = Current'
      BY <3>1, <3>2 DEF ConnOK
    <3>4. \A q \in RepIocb : \A x \in rio'[q] : x.c \in 1..Current'
      BY <1>3, <1>5, <1>7, <3>1 DEF ConnOK
    <3>5. \A q \in RepIocb : /\ Posting(q)' \/ Completed(repQ', q) => rio'[q] # {}
                             /\ Posting(q)' => ~Completed(repQ', q)
      BY <1>2, <1>7, <1>9, <1>10, <3>1 DEF ConnOK
    <3>6. \A c \in Nat : HasClosed(repQ', c) => c \in 1..Current' /\ ~conns'[c].ok
      BY <1>2, <3>1, <3>2 DEF ConnOK
    <3> QED
      BY <3>3, <3>4, <3>5, <3>6 DEF ConnOK
  <2>5. DelayedOnce(delayed')
    BY <1>1 DEF Inv, QueueInv
  <2> QED
    BY <1>2, <2>1, <2>2, <2>3, <2>4, <2>5 DEF QueueInv
<1>15. OnePlace'
  <2>1. \A j \in Iocb : Sent(j)' <=> Sent(j) \/ j = i
    BY <1>1, <1>5, <1>7 DEF Sent
  <2>2. \A j \in Iocb : /\ Delayed(delayed, j)' <=> Delayed(delayed, j)
                        /\ Answered(j)' <=> Answered(j)
    BY <1>1, <1>12 DEF Delayed, Answered
  <2> QED
    BY <1>2, <1>9, <1>12, <2>1, <2>2 DEF Inv, OnePlace
<1>16. ThrottleOK'
  <2>1. PICK W : W = Unanswered(Len(conns))
    OBVIOUS
  <2>2. r \notin W /\ W \subseteq RepIocb
    BY <1>1, <2>1 DEF Unanswered, OnConn
  <2>3. IsFiniteSet(W)
    BY <2>2, StoreIOAssumption DEF CardinalityFacts
  <2>4. Cardinality(W \union {r}) = Cardinality(W) + 1 /\ Cardinality(W) \in Nat
    BY <2>2, <2>3 DEF CardinalityFacts
  <2>5. Unanswered(Len(conns))' = W \union {r}
    BY <1>1, <1>2, <1>3, <1>5, <1>7, <1>10, <2>1, SMTT(30) DEF Unanswered, OnConn, SameConns
  <2>6. Current' = Len(conns) /\ Current = Len(conns) /\ Len(conns') = Len(conns)
    BY <1>3 DEF SameConns, Current
  <2>7. /\ conns[Len(conns)].infly = conns[Len(conns)].drift + Cardinality(W)
        /\ disturbed \cap Miscounts = {} => conns[Len(conns)].drift = 0
    BY <1>1, <2>1, <2>6 DEF Inv, ThrottleOK
  <2>8. Unanswered(Current)' = W \union {r}
    BY <2>5, <2>6 DEF Unanswered, OnConn
  <2>9. conns'[Len(conns)].infly = conns'[Len(conns)].drift + Cardinality(W \union {r})
    BY <1>3, <2>4, <2>7, SMT
  <2> QED
    BY <1>1, <1>3, <2>6, <2>7, <2>8, <2>9 DEF ThrottleOK
<1>17. WireInv'
  <2>1. NetworkType'
    BY <1>1, <1>12 DEF Inv, WireInv, NetworkType
  <2>2. \A q \in RepIocb : q # r => KeptFor(q)
    BY <1>2, <1>7, <1>9 DEF KeptFor
  <2>3. /\ \A m \in peer : m.r \in RepIocb /\ m.c \in 1..Len(conns)
        /\ \A x \in replies : x.r \in RepIocb /\ x.r # r /\ x.c \in 1..Len(conns) /\ conns[x.c].ok
        /\ \A m \in peer : conns[m.c].ok => m.r # r
    BY <1>1 DEF Inv, WireInv, NetworkType, WireOK, Current, Open
  <2>4. \A x \in replies' : Open(x.c)'
    BY <1>3, <1>12, <2>3 DEF Open, SameConns
  <2>5. \A m \in peer' : conns'[m.c].ok => KeptFor(m.r)
    BY <1>3, <1>12, <2>2, <2>3 DEF SameConns
  <2>6. \A x \in replies' : KeptFor(x.r)
    BY <1>12, <2>2, <2>3
  <2> QED
    BY <1>3, <1>12, <2>1, <2>4, <2>5, <2>6, WireShrinks, SMTT(30) DEF SameConns
<1>18. NumbersOK'
  BY <1>1, <1>12, NumbersFrame DEF Inv
<1>19. StoredInv'
  <2>1. \A x \in replies : x.r \in RepIocb /\ x.r # r
    BY <1>1 DEF Inv, WireInv, NetworkType, WireOK
  <2>2. \A q \in RepIocb : CompletedOk(repQ', q) => CompletedOk(repQ, q) /\ q # r
    BY <1>2, <1>10, SMT DEF CompletedOk, Completed
  <2> QED
    BY <1>1, <1>7, <1>12, <2>1, <2>2, StoredFrame
<1> QED
  BY <1>13, <1>14, <1>15, <1>16, <1>17, <1>18, <1>19 DEF Inv

\* post_recv and post_send.
LEMMA PostSendInv ==
    ASSUME Inv, PostSend
    PROVE  Inv'
<1>1. PICK r : r = rep.r
  OBVIOUS
<1>2. rep.pc = "post" /\ rep' = Idle
      /\ UNCHANGED <<server, health, repQ, delayed, rio, conns, replies, data, acked>>
  BY DEF PostSend
<1>3. r \in RepIocb /\ Posting(r) /\ \A i \in Iocb : ~Reported(i)
  BY <1>1, <1>2, SMT DEF Inv, QueueInv, ReplicatorType, RepState, Idle, Posting, Reported
<1>4. PICK io \in rio[r] :
          /\ peer' = IF conns[io.c].ok
                     THEN peer \union {[c |-> io.c, r |-> r, n |-> sio[io.i].n, b |-> sio[io.i].b]}
                     ELSE peer
          /\ disturbed \subseteq disturbed'
  BY <1>1 DEF PostSend, Disturb
<1>5. io \in [i : Iocb, c : Nat] /\ io.c \in 1..Len(conns) /\ "remote" \in sio[io.i].mask
  BY <1>3, <1>4, Named DEF Inv, QueueInv, ReplicatorType, ConnOK, Current
<1>6. PICK m : m = [c |-> io.c, r |-> r, n |-> sio[io.i].n, b |-> sio[io.i].b]
  OBVIOUS
<1>7. m.c = io.c /\ m.r = r /\ m.n = sio[io.i].n /\ m.b = sio[io.i].b
  BY <1>6
<1>8. peer' = peer \/ (conns[m.c].ok /\ peer' = peer \union {m})
  BY <1>4, <1>6, <1>7
<1>9. UNCHANGED <<sio, reqs, done, repQ, rio, conns, replies>>
  BY <1>2 DEF server
<1>10. (\A q \in RepIocb : ~Posting(q)') /\ (\A i \in Iocb : ~Reported(i)')
  BY <1>2 DEF Posting, Reported, Idle
<1>11. ServerInv'
  BY <1>2, ServerFrame DEF Inv
<1>12. QueueInv'
  <2>1. ReplicatorType'
    BY <1>2 DEF Inv, QueueInv, ReplicatorType, RepState
  <2>2. SentOnce' /\ QueuedOnce(repQ)' /\ DelayedOnce(delayed)' /\ CompletedOnce(repQ)' /\ ClosedLast(repQ, rio)'
    BY <1>2, SMT DEF Inv, QueueInv, SentOnce, QueuedOnce, DelayedOnce, CompletedOnce, ClosedLast
  <2>3. ConnOK'
    BY <1>2, <1>10 DEF Inv, QueueInv, ConnOK, Completed, HasClosed, Current
  <2> QED
    BY <2>1, <2>2, <2>3 DEF QueueInv
<1>13. OnePlace'
  BY <1>2, <1>3, <1>9, <1>10 DEF Inv, OnePlace, Queued, Delayed, Sent, Answered
<1>14. ThrottleOK'
  BY <1>2, <1>4, ThrottleFrame DEF Inv
<1>15. io.i \in Iocb /\ Active(io.i) /\ sio[io.i] \in ServerIocb
  BY <1>5 DEF Inv, ServerInv, ServerType, IocbOK, Active
<1>16. m \in [c : Nat, r : RepIocb, n : Nat, b : Block]
  BY <1>3, <1>5, <1>6, <1>15 DEF ServerIocb
<1>17. WireInv'
  <2>1. NetworkType'
    BY <1>2, <1>8, <1>16 DEF Inv, WireInv, NetworkType
  <2>2. WireOK /\ \A q \in peer : q.r \in RepIocb
    BY DEF Inv, WireInv, NetworkType
  <2>3. ~Completed(repQ, r)
    BY <1>3 DEF Inv, QueueInv, ConnOK
  <2>4. (\A q \in peer : conns[q.c].ok => q.r # r) /\ (\A x \in replies : x.r # r)
    BY <1>3, <2>2 DEF WireOK
  <2>5. \A q \in peer' : q.c \in 1..Current'
    BY <1>5, <1>7, <1>8, <1>9, <2>2 DEF WireOK, Current
  <2>6. ASSUME NEW q \in peer', conns'[q.c].ok
        PROVE  /\ \E y \in rio'[q.r] : y.c = q.c /\ sio'[y.i].n = q.n
               /\ ~Completed(repQ, q.r)' /\ ~Posting(q.r)'
               /\ \A x \in replies' : x.r # q.r
               /\ \A l \in peer' : conns'[l.c].ok /\ l.r = q.r => l = q
    <3>1. conns[q.c].ok /\ (q \in peer \/ q = m)
      BY <1>8, <1>9, <2>6
    <3>2. \A l \in peer' : l \in peer \/ l = m
      BY <1>8
    <3>3. ~Posting(q.r)'
      BY <1>3, <1>7, <1>10, <2>2, <3>1
    <3>4. CASE q = m
      BY <1>4, <1>7, <1>9, <2>3, <2>4, <3>2, <3>3, <3>4
    <3>5. CASE q \in peer
      <4>1. /\ \E y \in rio[q.r] : y.c = q.c /\ sio[y.i].n = q.n
            /\ ~Completed(repQ, q.r)
            /\ \A x \in replies : x.r # q.r
            /\ \A l \in peer : conns[l.c].ok /\ l.r = q.r => l = q
        BY <2>2, <3>1, <3>5 DEF WireOK
      <4>2. q.r # m.r
        BY <1>7, <2>4, <3>1, <3>5
      <4> QED
        BY <1>9, <3>2, <3>3, <4>1, <4>2
    <3> QED
      BY <3>1, <3>4, <3>5
  <2>7. \A x \in replies : ~Posting(x.r)'
    BY <1>10 DEF Inv, WireInv, NetworkType
  <2>8. ASSUME NEW x \in replies'
        PROVE  /\ Open(x.c)' /\ (\E y \in rio'[x.r] : y.c = x.c)
               /\ ~Completed(repQ, x.r)' /\ ~Posting(x.r)'
               /\ \A y \in replies' : x.r = y.r => x = y
    BY <1>9, <2>2, <2>7, <2>8 DEF WireOK, Open
  <2> QED
    BY <2>1, <2>5, <2>6, <2>8 DEF WireInv, WireOK
<1>18. NumbersOK'
  <2>1. NumbersOK
    BY DEF Inv
  <2>2. m.n <= reqs /\ \A i \in Iocb : Active(i) /\ sio[i].n = m.n => sio[i].b = m.b
    BY <1>7, <1>15, <2>1 DEF NumbersOK
  <2>3. \A i \in Iocb : Active(i)' <=> Active(i)
    BY <1>9 DEF Active
  <2> QED
    BY <1>2, <1>8, <1>9, <2>1, <2>2, <2>3 DEF NumbersOK
<1>19. StoredInv'
  BY <1>2, <1>4, <1>9, StoredFrame
<1> QED
  BY <1>11, <1>12, <1>13, <1>14, <1>17, <1>18, <1>19 DEF Inv

\* post_send fails.
LEMMA PostSendFailsInv ==
    ASSUME CardinalityFacts, Inv, PostSendFails
    PROVE  Inv'
<1>1. PICK r : r = rep.r
  OBVIOUS
<1>2. PICK io \in rio[r] :
          /\ conns' = [conns EXCEPT ![io.c] =
                          [ok |-> @.ok, infly |-> @.infly, drift |-> @.drift + 1,
                           unclean |-> @.unclean \/ @.ok]]
          /\ repQ' = Append(repQ, [k |-> "req", i |-> io.i])
  BY <1>1 DEF PostSendFails
<1>3. /\ rep.pc = "post" /\ rep' = Idle /\ rio' = [rio EXCEPT ![r] = {}]
      /\ UNCHANGED <<server, health, delayed, network, data, acked>>
  BY <1>1 DEF PostSendFails
<1>4. disturbed' \cap Miscounts # {} /\ disturbed \subseteq disturbed'
  BY DEF PostSendFails, Disturb, Miscounts
<1>5. r \in RepIocb /\ Posting(r) /\ (\A i \in Iocb : ~Reported(i)) /\ ~Completed(repQ, r)
  <2>1. r \in RepIocb /\ Posting(r) /\ (\A i \in Iocb : ~Reported(i))
    BY <1>1, <1>3, SMT DEF Inv, QueueInv, ReplicatorType, RepState, Idle, Posting, Reported
  <2> QED
    BY <2>1 DEF Inv, QueueInv, ConnOK
<1>6. PICK i \in Iocb : i = io.i
  BY <1>2, <1>5, Named
<1>7. PICK c \in 1..Len(conns) : c = io.c
  BY <1>2, <1>5 DEF Inv, QueueInv, ConnOK, Current
<1>8. \A x \in rio[r] : x = io
  BY <1>2, <1>5 DEF Inv, QueueInv, ReplicatorType
<1>9. Sent(i) /\ "remote" \in sio[i].mask /\ ~Queued(repQ, i)
  BY <1>2, <1>5, <1>6 DEF Sent, Inv, OnePlace
<1>10. conns \in Seq(Conn) /\ conns[c] \in Conn
  BY ElementFacts DEF Inv, QueueInv, ReplicatorType
<1>11. PICK y : y = [ok |-> conns[c].ok, infly |-> conns[c].infly, drift |-> conns[c].drift + 1,
                     unclean |-> conns[c].unclean \/ conns[c].ok]
  OBVIOUS
<1>12. /\ y \in Conn /\ y.ok = conns[c].ok
       /\ y.infly = conns[c].infly /\ y.drift = conns[c].drift + 1
       /\ conns[c].infly \in Int /\ conns[c].drift \in Int
  <2>1. PICK u \in BOOLEAN : u = (conns[c].unclean \/ conns[c].ok)
    OBVIOUS
  <2>2. conns[c].ok \in BOOLEAN /\ conns[c].infly \in Int /\ conns[c].drift \in Int
    BY <1>10 DEF Conn
  <2>3. conns[c].drift + 1 \in Int
    BY <2>2, SMT
  <2>4. y = [ok |-> conns[c].ok, infly |-> conns[c].infly, drift |-> conns[c].drift + 1, unclean |-> u]
    BY <1>11, <2>1
  <2>5. y \in Conn
    BY <2>2, <2>3, <2>4 DEF Conn
  <2> QED
    BY <2>2, <2>4, <2>5
<1>13. conns' = [conns EXCEPT ![c] = y]
  BY <1>2, <1>7, <1>11
<1>14. /\ SameConns /\ conns'[c] = y /\ (Connected' <=> Connected)
       /\ \A d \in 1..Len(conns) : d # c => conns'[d] = conns[d]
  BY <1>12, <1>13, CountConn
<1>15. PICK e : e = [k |-> "req", i |-> i]
  OBVIOUS
<1>16. e \in Event /\ e.k = "req" /\ e.i = i
  BY <1>15 DEF Event
<1>17. repQ \in Seq(Event) /\ QueuedOnce(repQ) /\ CompletedOnce(repQ) /\ ClosedLast(repQ, rio)
  BY DEF Inv, QueueInv, ReplicatorType
<1>18. /\ repQ' \in Seq(Event)
       /\ QueuedOnce(repQ') /\ CompletedOnce(repQ') /\ ClosedLast(repQ', rio)
       /\ \A j \in Iocb : Queued(repQ', j) <=> Queued(repQ, j) \/ j = i
       /\ \A q \in RepIocb : Completed(repQ', q) <=> Completed(repQ, q)
       /\ \A q \in RepIocb : CompletedOk(repQ', q) => CompletedOk(repQ, q)
       /\ \A d \in Nat : HasClosed(repQ', d) => HasClosed(repQ, d)
  <2>1. repQ' = Append(repQ, e)
    BY <1>2, <1>6, <1>15
  <2> QED
    BY <1>9, <1>16, <1>17, <2>1, PushEvent
<1>19. /\ rio' \in [RepIocb -> SUBSET [i : Iocb, c : Nat]] /\ rio'[r] = {}
       /\ \A q \in RepIocb : q # r => rio'[q] = rio[q]
  <2>1. rio \in [RepIocb -> SUBSET [i : Iocb, c : Nat]]
    BY DEF Inv, QueueInv, ReplicatorType
  <2> QED
    BY <1>3, <1>5, <2>1
<1>20. (\A q \in RepIocb : ~Posting(q)') /\ (\A j \in Iocb : ~Reported(j)')
  BY <1>3 DEF Posting, Reported, Idle
<1>21. UNCHANGED <<sio, reqs, done, peer, replies>>
  BY <1>3 DEF server, network
<1>22. ServerInv'
  BY <1>3, ServerFrame DEF Inv
<1>23. \A q \in RepIocb : Completed(repQ', q) => rio'[q] = rio[q]
  BY <1>5, <1>18, <1>19
<1>24. QueueInv'
  <2>1. ReplicatorType'
    <3>1. \A q \in RepIocb : \A x, z \in rio'[q] : x = z
      BY <1>19 DEF Inv, QueueInv, ReplicatorType
    <3>2. delayed' \in Seq(Iocb)
      BY <1>3 DEF Inv, QueueInv, ReplicatorType
    <3> QED
      BY <1>3, <1>14, <1>18, <1>19, <3>1, <3>2 DEF ReplicatorType, RepState, SameConns
  <2>2. SentOnce'
    BY <1>19 DEF Inv, QueueInv, SentOnce
  <2>3. ClosedLast(repQ', rio')
    BY <1>18, <1>23, ClosedLastFor
  <2>4. ConnOK'
    <3>1. ConnOK /\ Current' = Current /\ Current = Len(conns)
      BY <1>14 DEF Inv, QueueInv, SameConns, Current
    <3>2. \A d \in 1..Current : conns'[d].ok = conns[d].ok
      BY <1>14 DEF SameConns, Current
    <3>3. \A d \in 1..Current' : conns'[d].ok => d = Current'
      BY <3>1, <3>2 DEF ConnOK
    <3>4. \A q \in RepIocb : \A x \in rio'[q] : x.c \in 1..Current'
      BY <1>19, <3>1 DEF ConnOK
    <3>5. \A q \in RepIocb : /\ Posting(q)' \/ Completed(repQ', q) => rio'[q] # {}
                             /\ Posting(q)' => ~Completed(repQ', q)
      BY <1>18, <1>20, <1>23, <3>1 DEF ConnOK
    <3>6. \A d \in Nat : HasClosed(repQ', d) => d \in 1..Current' /\ ~conns'[d].ok
      BY <1>18, <3>1, <3>2 DEF ConnOK
    <3> QED
      BY <3>3, <3>4, <3>5, <3>6 DEF ConnOK
  <2>5. DelayedOnce(delayed')
    BY <1>3 DEF Inv, QueueInv
  <2> QED
    BY <1>18, <2>1, <2>2, <2>3, <2>4, <2>5 DEF QueueInv
<1>25. OnePlace'
  <2>1. \A j \in Iocb : Sent(j)' <=> Sent(j) /\ j # i
    <3>1. \A q \in RepIocb : \A x \in rio[q] : x.i = i => q = r
      BY <1>2, <1>5, <1>6 DEF Inv, QueueInv, SentOnce
    <3> QED
      BY <1>5, <1>6, <1>8, <1>19, <3>1, SMTT(30) DEF Sent
  <2>2. \A j \in Iocb : /\ Delayed(delayed, j)' <=> Delayed(delayed, j)
                        /\ Answered(j)' <=> Answered(j)
    BY <1>3, <1>21 DEF Delayed, Answered
  <2> QED
    BY <1>5, <1>9, <1>18, <1>20, <1>21, <2>1, <2>2 DEF Inv, OnePlace
<1>26. ThrottleOK'
  <2>1. PICK W : W = Unanswered(Len(conns))
    OBVIOUS
  <2>2. W \in SUBSET RepIocb /\ IsFiniteSet(RepIocb)
    BY <2>1, StoreIOAssumption DEF Unanswered, OnConn
  <2>3. IsFiniteSet(W)
    BY <2>2 DEF CardinalityFacts
  <2>4. Current' = Len(conns) /\ Current = Len(conns)
    BY <1>14 DEF SameConns, Current
  <2>5. Connected => conns[Len(conns)].infly = conns[Len(conns)].drift + Cardinality(W)
    BY <2>1, <2>4 DEF Inv, ThrottleOK
  <2>6. Cardinality(W) \in Nat
    BY <2>3 DEF CardinalityFacts
  <2>7. CASE c = Len(conns)
    <3>1. r \in W
      BY <1>2, <1>5, <1>7, <2>1, <2>7 DEF Unanswered, OnConn
    <3>2. Cardinality(W \ {r}) = Cardinality(W) - 1
      BY <2>3, <3>1 DEF CardinalityFacts
    <3>3. Unanswered(Current)' = W \ {r}
      BY <1>18, <1>19, <2>1, <2>4 DEF Unanswered, OnConn
    <3>4. Connected => y.infly = y.drift + Cardinality(W \ {r})
      BY <1>12, <2>5, <2>6, <2>7, <3>2, SMT
    <3> QED
      BY <1>4, <1>14, <2>4, <2>7, <3>3, <3>4 DEF ThrottleOK
  <2>8. CASE c # Len(conns)
    <3>1. \A x \in rio[r] : x.c # Len(conns)
      BY <1>7, <1>8, <2>8
    <3>2. Unanswered(Current)' = W
      BY <1>18, <1>19, <2>1, <2>4, <3>1 DEF Unanswered, OnConn
    <3>3. Connected => conns'[Len(conns)] = conns[Len(conns)]
      <4>1. conns # <<>> => Len(conns) \in 1..Len(conns)
        BY <1>10, SMT
      <4> QED
        BY <1>14, <2>8, <4>1 DEF Connected
    <3> QED
      BY <1>4, <1>14, <2>4, <2>5, <3>2, <3>3 DEF ThrottleOK
  <2> QED
    BY <2>7, <2>8
<1>27. WireInv'
  <2>1. NetworkType'
    BY <1>3, <1>21 DEF Inv, WireInv, NetworkType
  <2>2. \A q \in RepIocb : q # r => KeptFor(q)
    BY <1>18, <1>19, <1>20 DEF KeptFor
  <2>3. /\ \A m \in peer : m.r \in RepIocb /\ m.c \in 1..Len(conns)
        /\ \A x \in replies : x.r \in RepIocb /\ x.r # r /\ x.c \in 1..Len(conns) /\ conns[x.c].ok
        /\ \A m \in peer : conns[m.c].ok => m.r # r
    BY <1>5 DEF Inv, WireInv, NetworkType, WireOK, Current, Open
  <2>4. \A x \in replies' : Open(x.c)'
    BY <1>14, <1>21, <2>3 DEF Open, SameConns
  <2>5. \A m \in peer' : conns'[m.c].ok => KeptFor(m.r)
    BY <1>14, <1>21, <2>2, <2>3 DEF SameConns
  <2>6. \A x \in replies' : KeptFor(x.r)
    BY <1>21, <2>2, <2>3
  <2> QED
    BY <1>14, <1>21, <2>1, <2>4, <2>5, <2>6, WireShrinks, SMTT(30) DEF SameConns
<1>28. NumbersOK'
  BY <1>3, <1>21, NumbersFrame DEF Inv
<1>29. StoredInv'
  <2>1. \A x \in replies : x.r \in RepIocb /\ x.r # r
    BY <1>5 DEF Inv, WireInv, NetworkType, WireOK
  <2>2. \A q \in RepIocb : CompletedOk(repQ', q) => CompletedOk(repQ, q) /\ q # r
    BY <1>5, <1>18, SMT DEF CompletedOk, Completed
  <2> QED
    BY <1>3, <1>4, <1>19, <1>21, <2>1, <2>2, StoredFrame
<1> QED
  BY <1>22, <1>24, <1>25, <1>26, <1>27, <1>28, <1>29 DEF Inv

\* The replicator completes a remote subtask that is not completed yet.
LEMMA RemoteDoneInv ==
    ASSUME Inv, NEW i \in Iocb, NEW ok \in BOOLEAN, RemoteDone(i, ok), ~Answered(i),
           UNCHANGED <<sio, client, reqs, disp, disk>>, health' \in {"OK", "ERROR"}
    PROVE  /\ ServerInv'
           /\ \A j \in Iocb : Answered(j)' <=> Answered(j) \/ j = i
           /\ \A d \in done' : d \in done \/ (d.i = i /\ d.sub = "remote" /\ d.ok = ok)
<1>1. PICK d : d = [i |-> i, sub |-> "remote", ok |-> ok]
  OBVIOUS
<1>2. d \in [i : Iocb, sub : Subtask, ok : BOOLEAN] /\ d.i = i /\ d.sub = "remote" /\ d.ok = ok
  BY <1>1 DEF Subtask
<1>3. done' = done \union {d}
  BY <1>1 DEF RemoteDone
<1>4. ServerType'
  BY <1>2, <1>3 DEF Inv, ServerInv, ServerType
<1>5. IocbOK'
  BY DEF Inv, ServerInv, IocbOK, Replying
<1>6. DoneOnce'
  BY <1>2, <1>3, SMT DEF Inv, ServerInv, DoneOnce, Answered
<1>7. LocalOK'
  BY <1>2, <1>3 DEF Inv, ServerInv, LocalOK
<1>8. \A j \in Iocb : Answered(j)' <=> Answered(j) \/ j = i
  BY <1>2, <1>3 DEF Answered
<1>9. \A e \in done' : e \in done \/ (e.i = i /\ e.sub = "remote" /\ e.ok = ok)
  BY <1>2, <1>3
<1> QED
  BY <1>4, <1>5, <1>6, <1>7, <1>8, <1>9 DEF ServerInv

\* submit_error completes the subtask that was reported.
LEMMA ReportedInv ==
    ASSUME Inv, rep.pc = "report", NEW ok \in BOOLEAN, RemoteDone(rep.i, ok), rep' = Idle,
           health' \in {"OK", "ERROR"}, health' = "OK" => health = "OK",
           disturbed \subseteq disturbed', ok => ~Calm',
           UNCHANGED <<sio, client, reqs, disp, disk, repQ, delayed, rio, conns, network, data, acked>>
    PROVE  Inv'
<1>1. PICK i : i = rep.i
  OBVIOUS
<1>2. i \in Iocb
  BY <1>1, SMT DEF Inv, QueueInv, ReplicatorType, RepState, Idle
<1>3. Reported(i) /\ RemoteDone(i, ok)
  BY <1>1 DEF Reported
<1>4. ~Answered(i) /\ "remote" \in sio[i].mask
  BY <1>2, <1>3 DEF Inv, OnePlace
<1>5. /\ ServerInv'
      /\ \A j \in Iocb : Answered(j)' <=> Answered(j) \/ j = i
      /\ \A d \in done' : d \in done \/ (d.i = i /\ d.sub = "remote" /\ d.ok = ok)
  BY <1>2, <1>3, <1>4, RemoteDoneInv
<1>6. (\A q \in RepIocb : ~Posting(q)') /\ (\A j \in Iocb : ~Reported(j)')
  BY DEF Posting, Reported, Idle
<1>7. QueueInv'
  <2>1. ReplicatorType'
    BY DEF Inv, QueueInv, ReplicatorType, RepState
  <2>2. SentOnce' /\ QueuedOnce(repQ)' /\ DelayedOnce(delayed)' /\ CompletedOnce(repQ)' /\ ClosedLast(repQ, rio)'
    BY SMT DEF Inv, QueueInv, SentOnce, QueuedOnce, DelayedOnce, CompletedOnce, ClosedLast
  <2>3. ConnOK'
    BY <1>6 DEF Inv, QueueInv, ConnOK, Completed, HasClosed, Current
  <2> QED
    BY <2>1, <2>2, <2>3 DEF QueueInv
<1>8. OnePlace'
  <2>1. \A j \in Iocb : /\ Queued(repQ, j)' <=> Queued(repQ, j)
                        /\ Delayed(delayed, j)' <=> Delayed(delayed, j)
                        /\ Sent(j)' <=> Sent(j)
    BY DEF Queued, Delayed, Sent
  <2> QED
    BY <1>2, <1>3, <1>5, <1>6, <2>1 DEF Inv, OnePlace
<1>9. ThrottleOK'
  BY ThrottleFrame DEF Inv
<1>10. UNCHANGED <<peer, replies>>
  BY DEF network
<1>11. WireInv'
  <2>1. NetworkType'
    BY <1>10 DEF Inv, WireInv, NetworkType
  <2>2. \A r \in RepIocb : KeptFor(r)
    BY <1>6 DEF KeptFor
  <2>3. (\A m \in peer : m.r \in RepIocb) /\ (\A x \in replies : x.r \in RepIocb)
    BY DEF Inv, WireInv, NetworkType
  <2>4. \A x \in replies' : Open(x.c)'
    BY <1>10 DEF Inv, WireInv, WireOK, Open
  <2>5. Len(conns) \in Nat /\ Len(conns') \in Nat /\ Len(conns) <= Len(conns')
    BY SMT DEF Inv, QueueInv, ReplicatorType
  <2> QED
    BY <1>10, <2>1, <2>2, <2>3, <2>4, <2>5, WireShrinks
<1>12. NumbersOK'
  BY <1>10, NumbersFrame DEF Inv
<1>13. StoredInv'
  BY <1>5, <1>10, StoredStep
<1> QED
  BY <1>5, <1>7, <1>8, <1>9, <1>11, <1>12, <1>13 DEF Inv

\* An answered error report keeps the invariant: the replica is out of service.
LEMMA ConductorAnswersInv ==
    ASSUME Inv, ConductorAnswers
    PROVE  Inv'
<1>1. PICK ok \in BOOLEAN : ok = FALSE
  OBVIOUS
<1>2. RemoteDone(rep.i, ok)
  BY <1>1 DEF ConductorAnswers
<1>3. ~ok
  BY <1>1
<1> QED
  BY <1>2, <1>3, ReportedInv DEF ConductorAnswers

\* An error report without an answer keeps the invariant up to the disturbance.
LEMMA ConductorSilentInv ==
    ASSUME Inv, ConductorSilent
    PROVE  Inv'
<1>1. PICK ok \in BOOLEAN : RemoteDone(rep.i, ok)
  BY DEF ConductorSilent
<1>2. disturbed \subseteq disturbed' /\ ~Calm'
  BY DEF ConductorSilent, Disturb, Calm
<1>3. health' = health /\ health \in {"OK", "ERROR"}
  BY DEF ConductorSilent, Inv, ServerInv, ServerType
<1> QED
  BY <1>1, <1>2, <1>3, ReportedInv DEF ConductorSilent

\* process_io_complete.
LEMMA RepCompleteInv ==
    ASSUME Inv, RepComplete
    PROVE  Inv'
<1>1. PICK e : e = Head(repQ)
  OBVIOUS
<1>2. PICK t : t = Tail(repQ)
  OBVIOUS
<1>3. /\ rep = Idle /\ repQ # <<>> /\ e.k = "complete" /\ repQ' = t
      /\ rio' = [rio EXCEPT ![e.r] = {}]
      /\ UNCHANGED <<sio, client, reqs, disp, disk, health, rep, delayed, conns, network, data,
                     acked, disturbed>>
  BY <1>1, <1>2 DEF RepComplete, NextEvent
<1>4. repQ \in Seq(Event) /\ QueuedOnce(repQ) /\ CompletedOnce(repQ) /\ ClosedLast(repQ, rio)
  BY DEF Inv, QueueInv, ReplicatorType
<1>5. /\ e \in Event /\ t \in Seq(Event)
      /\ QueuedOnce(t) /\ CompletedOnce(t) /\ ClosedLast(t, rio)
      /\ Completed(repQ, e.r) /\ (e.ok => CompletedOk(repQ, e.r))
      /\ \A i \in Iocb : Queued(t, i) <=> Queued(repQ, i)
      /\ \A r \in RepIocb : Completed(t, r) <=> Completed(repQ, r) /\ e.r # r
      /\ \A r \in RepIocb : CompletedOk(t, r) => CompletedOk(repQ, r) /\ Completed(t, r)
      /\ \A c \in Nat : HasClosed(t, c) => HasClosed(repQ, c)
  BY <1>1, <1>2, <1>3, <1>4, PopEvent
<1>6. e.r \in RepIocb /\ e.ok \in BOOLEAN
  BY <1>3, <1>5 DEF Event
<1>7. PICK io \in rio[e.r] : RemoteDone(io.i, e.ok)
  BY <1>1 DEF RepComplete
<1>8. io.i \in Iocb /\ Sent(io.i) /\ ~Answered(io.i) /\ "remote" \in sio[io.i].mask
  BY <1>6, <1>7, Named DEF Sent, Inv, OnePlace
<1>9. \A x \in rio[e.r] : x = io
  BY <1>6, <1>7 DEF Inv, QueueInv, ReplicatorType
<1>10. health' \in {"OK", "ERROR"}
  BY <1>3 DEF Inv, ServerInv, ServerType
<1>11. /\ ServerInv'
       /\ \A j \in Iocb : Answered(j)' <=> Answered(j) \/ j = io.i
       /\ \A d \in done' : d \in done \/ (d.i = io.i /\ d.sub = "remote" /\ d.ok = e.ok)
  BY <1>3, <1>6, <1>7, <1>8, <1>10, RemoteDoneInv
<1>12. /\ rio' \in [RepIocb -> SUBSET [i : Iocb, c : Nat]] /\ rio'[e.r] = {}
       /\ \A q \in RepIocb : q # e.r => rio'[q] = rio[q]
  <2>1. rio \in [RepIocb -> SUBSET [i : Iocb, c : Nat]]
    BY DEF Inv, QueueInv, ReplicatorType
  <2> QED
    BY <1>3, <1>6, <2>1
<1>13. (\A q \in RepIocb : ~Posting(q) /\ ~Posting(q)') /\ (\A j \in Iocb : ~Reported(j) /\ ~Reported(j)')
  BY <1>3 DEF Posting, Reported, Idle
<1>14. UNCHANGED <<peer, replies>>
  BY <1>3 DEF network
<1>15. QueueInv'
  <2>1. ReplicatorType'
    BY <1>3, <1>5, <1>12, SMTT(30) DEF Inv, QueueInv, ReplicatorType
  <2>2. SentOnce'
    BY <1>12, SMT DEF Inv, QueueInv, SentOnce
  <2>3. ClosedLast(repQ', rio')
    <3>1. \A q \in RepIocb : Completed(repQ', q) => rio'[q] = rio[q]
      BY <1>3, <1>5, <1>12
    <3>2. repQ' \in Seq(Event) /\ ClosedLast(repQ', rio)
      BY <1>3, <1>5
    <3> QED
      BY <3>1, <3>2, ClosedLastFor
  <2>4. ConnOK'
    <3>1. ConnOK /\ Current' = Current
      BY <1>3 DEF Inv, QueueInv, Current
    <3>2. \A q \in RepIocb : \A x \in rio'[q] : x.c \in 1..Current'
      BY <1>12, <3>1 DEF ConnOK
    <3>3. \A q \in RepIocb : Posting(q)' \/ Completed(repQ', q) => rio'[q] # {}
      BY <1>3, <1>5, <1>12, <1>13, <3>1 DEF ConnOK
    <3> QED
      BY <1>3, <1>5, <1>13, <3>1, <3>2, <3>3 DEF ConnOK
  <2>5. DelayedOnce(delayed')
    BY <1>3 DEF Inv, QueueInv
  <2> QED
    BY <1>3, <1>5, <2>1, <2>2, <2>3, <2>4, <2>5 DEF QueueInv
<1>16. OnePlace'
  <2>1. \A j \in Iocb : Sent(j)' <=> Sent(j) /\ j # io.i
    <3>1. \A q \in RepIocb : \A x \in rio[q] : x.i = io.i => q = e.r
      BY <1>6, <1>7 DEF Inv, QueueInv, SentOnce
    <3> QED
      BY <1>6, <1>9, <1>12, <3>1, SMTT(30) DEF Sent
  <2>2. \A j \in Iocb : /\ Queued(repQ', j) <=> Queued(repQ, j)
                        /\ Delayed(delayed, j)' <=> Delayed(delayed, j)
    BY <1>3, <1>5 DEF Delayed
  <2> QED
    BY <1>3, <1>8, <1>11, <1>13, <2>1, <2>2 DEF Inv, OnePlace
<1>17. ThrottleOK'
  <2>1. Unanswered(Current)' = Unanswered(Current)
    BY <1>3, <1>5, <1>6, <1>12, SMTT(30) DEF Unanswered, OnConn, Current
  <2> QED
    BY <1>3, <2>1 DEF Inv, ThrottleOK, Connected, Current
<1>18. WireInv'
  <2>1. NetworkType'
    BY <1>3, <1>14 DEF Inv, WireInv, NetworkType
  <2>2. \A q \in RepIocb : q # e.r => KeptFor(q)
    BY <1>3, <1>5, <1>12, <1>13 DEF KeptFor
  <2>3. /\ \A m \in peer : m.r \in RepIocb /\ (conns[m.c].ok => m.r # e.r)
        /\ \A x \in replies : x.r \in RepIocb /\ x.r # e.r
    BY <1>5 DEF Inv, WireInv, NetworkType, WireOK
  <2>4. \A x \in replies' : Open(x.c)'
    BY <1>3, <1>14 DEF Inv, WireInv, WireOK, Open
  <2>5. Len(conns) \in Nat
    BY SMT DEF Inv, QueueInv, ReplicatorType
  <2> QED
    BY <1>3, <1>14, <2>1, <2>2, <2>3, <2>4, <2>5, WireShrinks, SMTT(30)
<1>19. NumbersOK'
  BY <1>3, <1>14, NumbersFrame DEF Inv
<1>20. StoredInv'
  <2>1. \A x \in replies : x.r \in RepIocb /\ x.r # e.r
    BY <1>5 DEF Inv, WireInv, NetworkType, WireOK
  <2>2. \A q \in RepIocb : CompletedOk(repQ', q) => CompletedOk(repQ, q) /\ q # e.r
    BY <1>3, <1>5
  <2>3. e.ok /\ RemoteStored => Stored("remote", io.i)
    BY <1>5, <1>6, <1>7 DEF RemoteStored
  <2> QED
    BY <1>3, <1>11, <1>12, <1>14, <2>1, <2>2, <2>3, StoredStep
<1> QED
  BY <1>11, <1>15, <1>16, <1>17, <1>18, <1>19, <1>20 DEF Inv

\* The order in which requests are sent again.
LEMMA Sequenced ==
    ASSUME CardinalityFacts, NEW S \in SUBSET Iocb, NEW is \in Orders(S)
    PROVE  /\ is \in Seq(Iocb) /\ DelayedOnce(is)
           /\ \A i \in Iocb : Delayed(is, i) => i \in S
<1>1. IsFiniteSet(S)
  BY StoreIOAssumption DEF CardinalityFacts
<1>2. PICK n \in Nat : n = Cardinality(S)
  BY <1>1 DEF CardinalityFacts
<1>3. is \in [1..n -> S] /\ \A i, j \in 1..n : i # j => is[i] # is[j]
  BY <1>2 DEF Orders, Bijection, Injection, IsInjective
<1>4. is \in Seq(Iocb) /\ DOMAIN is = 1..n
  BY <1>3, SMTT(30)
<1> QED
  BY <1>3, <1>4 DEF DelayedOnce, Delayed

\* handle_conn_close.
LEMMA HandleConnCloseInv ==
    ASSUME CardinalityFacts, Inv, HandleConnClose
    PROVE  Inv'
<1>1. PICK e : e = Head(repQ)
  OBVIOUS
<1>2. PICK t : t = Tail(repQ)
  OBVIOUS
<1>3. PICK rs : rs = OnConn(e.c)
  OBVIOUS
<1>4. PICK S : S = {io.i : io \in UNION {rio[r] : r \in rs}}
  OBVIOUS
<1>5. /\ rep = Idle /\ repQ # <<>> /\ e.k = "closed"
      /\ rio' = [r \in RepIocb |-> IF r \in rs THEN {} ELSE rio[r]]
      /\ UNCHANGED <<server, health, rep, delayed, conns, network, data, acked, disturbed>>
  BY <1>1, <1>3 DEF HandleConnClose, NextEvent
<1>6. PICK is \in Orders(S) : repQ' = t \o Requests(is)
  <2>1. \E is \in Orders({io.i : io \in UNION {rio[r] : r \in OnConn(Head(repQ).c)}}) :
            repQ' = Tail(repQ) \o Requests(is)
    BY DEF HandleConnClose
  <2>2. S = {io.i : io \in UNION {rio[r] : r \in OnConn(Head(repQ).c)}}
    BY <1>1, <1>3, <1>4
  <2> QED
    BY <1>2, <2>1, <2>2
<1>7. repQ \in Seq(Event) /\ QueuedOnce(repQ) /\ CompletedOnce(repQ) /\ ClosedLast(repQ, rio)
  BY DEF Inv, QueueInv, ReplicatorType
<1>8. /\ e \in Event /\ t \in Seq(Event)
      /\ QueuedOnce(t) /\ CompletedOnce(t) /\ ClosedLast(t, rio)
      /\ HasClosed(repQ, e.c)
      /\ \A r \in RepIocb : Completed(repQ, r) => \A io \in rio[r] : io.c # e.c
      /\ \A i \in Iocb : Queued(t, i) <=> Queued(repQ, i)
      /\ \A r \in RepIocb : Completed(t, r) <=> Completed(repQ, r)
      /\ \A r \in RepIocb : CompletedOk(t, r) => CompletedOk(repQ, r)
      /\ \A c \in Nat : HasClosed(t, c) => HasClosed(repQ, c)
  BY <1>1, <1>2, <1>5, <1>7, PopEvent
<1>9. e.c \in Nat
  BY <1>5, <1>8 DEF Event
<1>10. e.c \in 1..Len(conns) /\ ~conns[e.c].ok
  BY <1>8, <1>9 DEF Inv, QueueInv, ConnOK, Current
<1>11. /\ rs \subseteq RepIocb
       /\ \A r \in rs : \E io \in rio[r] : io.c = e.c
       /\ \A r \in RepIocb : r \notin rs => \A io \in rio[r] : io.c # e.c
  BY <1>3 DEF OnConn
<1>12. \A r \in rs : ~Completed(repQ, r) /\ \A io \in rio[r] : io.c = e.c
  BY <1>8, <1>11, SMTT(30) DEF Inv, QueueInv, ReplicatorType
<1>13. /\ S \in SUBSET Iocb /\ \A i \in S : Sent(i)
       /\ \A r \in rs : \A io \in rio[r] : io.i \in S
  BY <1>4, <1>11, Named, SMTT(30) DEF Sent
<1>14. is \in Seq(Iocb) /\ DelayedOnce(is) /\ \A i \in Iocb : Delayed(is, i) => i \in S
  BY <1>6, <1>13, Sequenced
<1>15. \A i \in Iocb : Delayed(is, i) => ~Queued(t, i)
  BY <1>8, <1>13, <1>14 DEF Inv, OnePlace
<1>16. /\ repQ' \in Seq(Event)
       /\ QueuedOnce(repQ') /\ CompletedOnce(repQ') /\ ClosedLast(repQ', rio)
       /\ \A i \in Iocb : Queued(repQ', i) <=> Queued(t, i) \/ Delayed(is, i)
       /\ \A r \in RepIocb : Completed(repQ', r) <=> Completed(t, r)
       /\ \A r \in RepIocb : CompletedOk(repQ', r) <=> CompletedOk(t, r)
       /\ \A c \in Nat : HasClosed(repQ', c) <=> HasClosed(t, c)
  BY <1>6, <1>8, <1>14, <1>15, PushRequests
<1>17. /\ \A i \in Iocb : Queued(repQ', i) => Queued(repQ, i) \/ i \in S
       /\ \A r \in RepIocb : Completed(repQ', r) <=> Completed(repQ, r)
       /\ \A r \in RepIocb : CompletedOk(repQ', r) => CompletedOk(repQ, r)
       /\ \A c \in Nat : HasClosed(repQ', c) => HasClosed(repQ, c)
  BY <1>8, <1>14, <1>16
<1>18. /\ rio' \in [RepIocb -> SUBSET [i : Iocb, c : Nat]]
       /\ \A r \in rs : rio'[r] = {}
       /\ \A r \in RepIocb : r \notin rs => rio'[r] = rio[r]
  <2>1. rio \in [RepIocb -> SUBSET [i : Iocb, c : Nat]]
    BY DEF Inv, QueueInv, ReplicatorType
  <2> QED
    BY <1>5, <1>11, <2>1
<1>19. (\A q \in RepIocb : ~Posting(q) /\ ~Posting(q)') /\ (\A j \in Iocb : ~Reported(j) /\ ~Reported(j)')
  BY <1>5 DEF Posting, Reported, Idle
<1>20. UNCHANGED <<sio, reqs, done, peer, replies>>
  BY <1>5 DEF server, network
<1>21. ServerInv'
  BY <1>5, ServerFrame DEF Inv
<1>22. QueueInv'
  <2>1. ReplicatorType'
    <3>1. \A r \in RepIocb : \A x, y \in rio'[r] : x = y
      BY <1>18 DEF Inv, QueueInv, ReplicatorType
    <3>2. rep' \in RepState
      BY <1>5 DEF RepState
    <3>3. delayed' \in Seq(Iocb) /\ conns' \in Seq(Conn)
      BY <1>5 DEF Inv, QueueInv, ReplicatorType
    <3> QED
      BY <1>16, <1>18, <3>1, <3>2, <3>3 DEF ReplicatorType
  <2>2. SentOnce'
    BY <1>18 DEF Inv, QueueInv, SentOnce
  <2>3. ClosedLast(repQ', rio')
    <3>1. \A q \in RepIocb : Completed(repQ', q) => rio'[q] = rio[q]
      BY <1>12, <1>17, <1>18
    <3> QED
      BY <1>16, <3>1, ClosedLastFor
  <2>4. ConnOK'
    <3>1. ConnOK /\ Current' = Current /\ conns' = conns
      BY <1>5 DEF Inv, QueueInv, Current
    <3>2. \A q \in RepIocb : \A x \in rio'[q] : x.c \in 1..Current'
      BY <1>18, <3>1 DEF ConnOK
    <3>3. \A q \in RepIocb : Posting(q)' \/ Completed(repQ', q) => rio'[q] # {}
      BY <1>12, <1>17, <1>18, <1>19, <3>1 DEF ConnOK
    <3> QED
      BY <1>17, <1>19, <3>1, <3>2, <3>3 DEF ConnOK
  <2>5. DelayedOnce(delayed')
    BY <1>5 DEF Inv, QueueInv
  <2> QED
    BY <1>16, <2>1, <2>2, <2>3, <2>4, <2>5 DEF QueueInv
<1>23. OnePlace'
  <2>1. \A j \in Iocb : Sent(j)' => Sent(j) /\ j \notin S
    <3>1. SUFFICES ASSUME NEW j \in Iocb, NEW q \in RepIocb, NEW x \in rio'[q], x.i = j
                   PROVE  Sent(j) /\ j \notin S
      BY DEF Sent
    <3>2. q \notin rs /\ x \in rio[q]
      BY <1>18
    <3>3. ASSUME j \in S PROVE FALSE
      <4>1. PICK r \in rs : \E y \in rio[r] : y.i = j
        BY <1>4, <3>3
      <4>2. r = q
        BY <1>11, <3>1, <3>2, <4>1 DEF Inv, QueueInv, SentOnce
      <4> QED
        BY <3>2, <4>2
    <3> QED
      BY <3>1, <3>2, <3>3 DEF Sent
  <2>2. \A j \in Iocb : /\ Delayed(delayed, j)' <=> Delayed(delayed, j)
                        /\ Answered(j)' <=> Answered(j)
    BY <1>5, <1>20 DEF Delayed, Answered
  <2> QED
    BY <1>13, <1>17, <1>19, <1>20, <2>1, <2>2 DEF Inv, OnePlace
<1>24. ThrottleOK'
  <2>1. ASSUME Connected PROVE Unanswered(Current)' = Unanswered(Current)
    <3>1. e.c # Current /\ Current' = Current
      BY <1>5, <1>10, <2>1 DEF Connected, Current
    <3>2. \A r \in RepIocb : (\E io \in rio'[r] : io.c = Current) <=> (\E io \in rio[r] : io.c = Current)
      BY <1>12, <1>18, <3>1
    <3> QED
      BY <1>17, <3>1, <3>2 DEF Unanswered, OnConn
  <2> QED
    BY <1>5, <2>1 DEF Inv, ThrottleOK, Connected, Current
<1>25. (\A m \in peer : conns[m.c].ok => m.r \in RepIocb \ rs) /\ (\A x \in replies : x.r \in RepIocb \ rs)
  <2>1. ASSUME NEW m \in peer, conns[m.c].ok PROVE m.r \in RepIocb \ rs
    <3>1. m.r \in RepIocb /\ \E io \in rio[m.r] : io.c = m.c
      BY <2>1 DEF Inv, WireInv, NetworkType, WireOK
    <3> QED
      BY <1>10, <1>12, <2>1, <3>1
  <2>2. ASSUME NEW x \in replies PROVE x.r \in RepIocb \ rs
    <3>1. x.r \in RepIocb /\ conns[x.c].ok /\ \E io \in rio[x.r] : io.c = x.c
      BY DEF Inv, WireInv, NetworkType, WireOK, Open
    <3> QED
      BY <1>10, <1>12, <3>1
  <2> QED
    BY <2>1, <2>2
<1>26. WireInv'
  <2>1. NetworkType'
    BY <1>5, <1>20 DEF Inv, WireInv, NetworkType
  <2>2. \A q \in RepIocb : q \notin rs => KeptFor(q)
    BY <1>17, <1>18, <1>19 DEF KeptFor
  <2>3. \A x \in replies' : Open(x.c)'
    BY <1>5, <1>20 DEF Inv, WireInv, WireOK, Open
  <2>4. Len(conns) \in Nat
    BY SMTT(30) DEF Inv, QueueInv, ReplicatorType
  <2> QED
    BY <1>5, <1>20, <1>25, <2>1, <2>2, <2>3, <2>4, WireShrinks, SMT
<1>27. NumbersOK'
  BY <1>5, <1>20, NumbersFrame DEF Inv
<1>28. StoredInv'
  <2>1. \A r \in RepIocb : CompletedOk(repQ', r) => rio'[r] = rio[r]
    BY <1>12, <1>17, <1>18, SMTT(30) DEF CompletedOk, Completed
  <2> QED
    BY <1>5, <1>17, <1>18, <1>20, <1>25, <2>1, StoredFrame
<1> QED
  BY <1>21, <1>22, <1>23, <1>24, <1>26, <1>27, <1>28 DEF Inv
=============================================================================
