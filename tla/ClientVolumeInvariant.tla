------------------------ MODULE ClientVolumeInvariant ------------------------
(***************************************************************************)
(* The inductive invariant of ClientVolume, for any number of iocbs,       *)
(* requests, versions and lost connections and any set of disturbances.    *)
(* Every step keeps it.                                                    *)
(***************************************************************************)
EXTENDS ClientVolume, Integers, TLAPS

\* Zenon proves the leaves that do not name another prover.
USE ZenonT(30)

-----------------------------------------------------------------------------
(* The inductive invariant.                                                *)

Complete == [type : {"IO_COMPLETE"}, io : Iocb, reopen : BOOLEAN, ver : Nat]
Event ==
    [type : {"IO_REQ", "IO_TIMEOUT"}, io : Iocb] \union Complete
    \union [type : {"REOPEN"}, fresh : BOOLEAN]
IocbRecord ==
    [req : 0..MaxReq, op : {"READ", "WRITE"}, sent : {"zero", "fresh", "old"},
     conn : {"none", "live", "dead"}, marked : BOOLEAN]
Request == [io : Iocb, op : {"READ", "WRITE"}, ver : Nat, stale : BOOLEAN]
Link == [up : BOOLEAN, posted : Int, payload : SUBSET Complete]
Cut ==
    [orphans : SUBSET Iocb, lost : Int, pooled : Int, posted : Int, stuck : Int, jammed : BOOLEAN]

TypeInv ==
    /\ pool \in Seq(Iocb) /\ waiting \in Seq(Iocb) /\ events \in Seq(Event)
    /\ iocb \in [Iocb -> IocbRecord]
    /\ metaVer \in Nat /\ store \in [conductor : Nat, node : Nat]
    /\ link \in Link
    /\ net \subseteq Request
    /\ rbds \in Int /\ stuck \in Int /\ cut \in Cut
    /\ reqs \in 0..MaxReq /\ answers \in [0..MaxReq -> Nat]

\* The queues hold an iocb at most once, and an EVT_IO_COMPLETE is handled
\* before the next EVT_IO_REQ of its iocb.
In(s, i) == \E k \in DOMAIN s : s[k] = i
Queued(q, i) == \E k \in DOMAIN q : q[k].type = "IO_REQ" /\ q[k].io = i
Completing(q, i) == \E k \in DOMAIN q : q[k].type = "IO_COMPLETE" /\ q[k].io = i

Once(s) == \A j, k \in DOMAIN s : s[j] = s[k] => j = k
QueuedOnce(q) ==
    \A j, k \in DOMAIN q :
        q[j].type = "IO_REQ" /\ q[k].type = "IO_REQ" /\ q[j].io = q[k].io => j = k
CompletingOnce(q) ==
    \A j, k \in DOMAIN q :
        q[j].type = "IO_COMPLETE" /\ q[k].type = "IO_COMPLETE" /\ q[j].io = q[k].io => j = k
CompletedFirst(q) ==
    \A j, k \in DOMAIN q :
        q[j].type = "IO_COMPLETE" /\ q[k].type = "IO_REQ" /\ q[j].io = q[k].io => j < k

EventsOK(q) == QueuedOnce(q) /\ CompletingOnce(q) /\ CompletedFirst(q)

QueueInv == Once(pool) /\ Once(waiting) /\ EventsOK(events)

\* An iocb is in exactly one place.
Flying(i) == iocb[i].conn # "none"
PlaceInv ==
    \A i \in Iocb :
        /\ In(pool, i) => ~Queued(events, i) /\ ~In(waiting, i) /\ ~Flying(i)
        /\ Queued(events, i) => ~In(waiting, i) /\ ~Flying(i)
        /\ In(waiting, i) => ~Flying(i)
        /\ In(pool, i) \/ Queued(events, i) \/ In(waiting, i) \/ Flying(i)

\* A request under way has the command_seq of its iocb, the live connection
\* and no completion yet; so has the READ whose payload is received.  A
\* completion finds its iocb in flight, or sent again by a timeout before it.
FlightInv ==
    /\ \A r \in net : ~r.stale /\ iocb[r.io].conn = "live" /\ ~Completing(events, r.io)
    /\ \A r, s \in net : r.io = s.io => r = s
    /\ \A d \in link.payload :
          /\ iocb[d.io].conn = "live" /\ ~Completing(events, d.io)
          /\ \A r \in net : r.io # d.io
    /\ \A c, d \in link.payload : c = d
    /\ \A i \in Iocb : Completing(events, i) => Flying(i) \/ Queued(events, i)
    /\ fault # "stale_reply"

\* A request is unanswered as long as it has an iocb.
RequestInv ==
    /\ \A i \in Iocb : ~In(pool, i) => iocb[i].req \in 1..reqs /\ answers[iocb[i].req] = 0
    /\ \A i, j \in Iocb :
          ~In(pool, i) /\ ~In(pool, j) /\ iocb[i].req = iocb[j].req => i = j
    /\ answers[0] = 0
    /\ \A n \in 1..MaxReq : answers[n] <= 1 /\ (n > reqs => answers[n] = 0)

\* A reply buffer is in the pool, posted, with a payload, with a completion,
\* posted to a closed connection, or lost and replaced by a data buffer.
BufferInv ==
    /\ Cardinality(Iocb) =
         rbds + link.posted + (IF link.payload = {} THEN 0 ELSE 1) + stuck
         + Cardinality({i \in Iocb : Completing(events, i)}) + cut.lost
    /\ cut.lost = cut.pooled + cut.posted + cut.stuck

Inv == TypeInv /\ QueueInv /\ PlaceInv /\ FlightInv /\ RequestInv /\ BufferInv

\* The facts about cardinalities that the proofs of the actions use.
CardinalityFacts ==
    /\ IsFiniteSet({}) /\ Cardinality({}) = 0
    /\ \A S : IsFiniteSet(S) =>
        /\ Cardinality(S) \in Nat
        /\ \A x : x \notin S => Cardinality(S \union {x}) = Cardinality(S) + 1
        /\ \A x \in S : Cardinality(S \ {x}) = Cardinality(S) - 1
        /\ \A T \in SUBSET S : IsFiniteSet(T)

-----------------------------------------------------------------------------
(* Queues.                                                                 *)

\* What is used of sequences in general.
LEMMA LengthFacts ==
    ASSUME NEW S, NEW s \in Seq(S)
    PROVE  Len(s) \in Nat /\ DOMAIN s = 1..Len(s) /\ (s # <<>> => Len(s) # 0)
  BY SMT

\* The elements of a sequence over S are in S.
LEMMA ElementFacts ==
    ASSUME NEW S, NEW s \in Seq(S), NEW n \in 1..Len(s)
    PROVE  s[n] \in S
  BY SMT

\* A function on 1..n is a sequence.
LEMMA FunctionSeq ==
    ASSUME NEW S, NEW n \in Nat, NEW f \in [1..n -> S]
    PROVE  f \in Seq(S) /\ Len(f) = n
  BY SMT

\* Taking the first event moves the others up by one.
LEMMA TailFacts ==
    ASSUME NEW S, NEW s \in Seq(S), s # <<>>
    PROVE  /\ Tail(s) \in Seq(S) /\ 1 \in DOMAIN s /\ Head(s) = s[1] /\ s[1] \in S
           /\ \A j \in DOMAIN Tail(s) :
                 j + 1 \in DOMAIN s /\ j + 1 # 1 /\ j \in Nat /\ Tail(s)[j] = s[j + 1]
           /\ \A j \in DOMAIN s :
                 j # 1 => j \in Nat /\ j - 1 \in DOMAIN Tail(s) /\ Tail(s)[j - 1] = s[j]
<1>1. /\ Tail(s) \in Seq(S) /\ Len(Tail(s)) = Len(s) - 1
      /\ \A i \in 1..Len(Tail(s)) : Tail(s)[i] = s[i + 1]
  BY SMT
<1>2. Len(s) \in Nat \ {0}
  BY LengthFacts
<1>3. DOMAIN s = 1..Len(s) /\ DOMAIN Tail(s) = 1..Len(Tail(s))
  BY <1>1, LengthFacts
<1>4. Head(s) = s[1] /\ s[1] \in S
  BY <1>2, ElementFacts, SMT
<1> QED
  BY <1>1, <1>2, <1>3, <1>4, SMT

\* Events are appended behind the others.
LEMMA ConcatFacts ==
    ASSUME NEW S, NEW s \in Seq(S), NEW t \in Seq(S)
    PROVE  /\ s \o t \in Seq(S)
           /\ \A j \in DOMAIN s : j \in DOMAIN (s \o t) /\ j \in Nat /\ (s \o t)[j] = s[j]
           /\ \A j \in DOMAIN t : /\ j \in Nat /\ Len(s) + j \in DOMAIN (s \o t)
                                  /\ (s \o t)[Len(s) + j] = t[j]
           /\ \A j \in DOMAIN (s \o t) :
                 \/ j \in DOMAIN s
                 \/ j - Len(s) \in DOMAIN t /\ j = Len(s) + (j - Len(s)) /\ \A k \in DOMAIN s : k < j
<1>1. /\ s \o t \in Seq(S) /\ Len(s \o t) = Len(s) + Len(t)
      /\ \A i \in 1 .. Len(s) + Len(t) :
            (s \o t)[i] = IF i <= Len(s) THEN s[i] ELSE t[i - Len(s)]
  BY SMT
<1>2. Len(s) \in Nat /\ Len(t) \in Nat
  BY LengthFacts
<1>3. DOMAIN s = 1..Len(s) /\ DOMAIN t = 1..Len(t) /\ DOMAIN (s \o t) = 1..Len(s \o t)
  BY <1>1, LengthFacts
<1> QED
  BY <1>1, <1>2, <1>3, SMT

\* The elements of a sequence with one more at the end.
LEMMA AppendFacts ==
    ASSUME NEW S, NEW s \in Seq(S), NEW e \in S
    PROVE  /\ Append(s, e) \in Seq(S)
           /\ \A j \in DOMAIN s : j \in DOMAIN Append(s, e) /\ j < Len(s) + 1 /\ Append(s, e)[j] = s[j]
           /\ Len(s) + 1 \in DOMAIN Append(s, e) /\ Append(s, e)[Len(s) + 1] = e
           /\ Len(s) + 1 \notin DOMAIN s
           /\ \A j \in DOMAIN Append(s, e) : j \in DOMAIN s \/ j = Len(s) + 1
<1>1. /\ Append(s, e) \in Seq(S) /\ Len(Append(s, e)) = Len(s) + 1
      /\ \A i \in 1 .. Len(s) : Append(s, e)[i] = s[i]
      /\ Append(s, e)[Len(s) + 1] = e
  BY SMT
<1>2. Len(s) \in Nat
  BY LengthFacts
<1>3. DOMAIN s = 1..Len(s) /\ DOMAIN Append(s, e) = 1..Len(Append(s, e))
  BY <1>1, LengthFacts
<1> QED
  BY <1>1, <1>2, <1>3, SMT

\* vol_proc takes the next event; when that is an EVT_IO_REQ, no completion of
\* its iocb is queued.
LEMMA PopEvent ==
    ASSUME NEW q \in Seq(Event), q # <<>>, EventsOK(q)
    PROVE  LET e == Head(q)  t == Tail(q) IN
           /\ e \in Event /\ t \in Seq(Event) /\ EventsOK(t)
           /\ \A i : Queued(t, i) <=> Queued(q, i) /\ ~(e.type = "IO_REQ" /\ e.io = i)
           /\ \A i : Completing(t, i) <=> Completing(q, i) /\ ~(e.type = "IO_COMPLETE" /\ e.io = i)
           /\ e.type = "IO_REQ" => Queued(q, e.io) /\ ~Completing(q, e.io)
           /\ e.type = "IO_COMPLETE" => Completing(q, e.io)
<1> DEFINE e == Head(q)  t == Tail(q)
<1>1. /\ t \in Seq(Event) /\ 1 \in DOMAIN q /\ e = q[1] /\ e \in Event
      /\ \A j \in DOMAIN t : j + 1 \in DOMAIN q /\ j + 1 # 1 /\ j \in Nat /\ t[j] = q[j + 1]
      /\ \A j \in DOMAIN q : j # 1 => j \in Nat /\ j - 1 \in DOMAIN t /\ t[j - 1] = q[j]
  BY TailFacts
<1> HIDE DEF e, t
<1>up. ASSUME NEW j \in DOMAIN t
       PROVE  \E k \in DOMAIN q : k # 1 /\ k = j + 1 /\ t[j] = q[k]
  BY <1>1
<1>down. ASSUME NEW j \in DOMAIN q, j # 1
         PROVE  \E k \in DOMAIN t : t[k] = q[j]
  BY <1>1, <1>down
<1>2. QueuedOnce(t)
  <2> SUFFICES ASSUME NEW j \in DOMAIN t, NEW k \in DOMAIN t,
                      t[j].type = "IO_REQ", t[k].type = "IO_REQ", t[j].io = t[k].io
               PROVE  j = k
    BY DEF QueuedOnce
  <2>1. j + 1 \in DOMAIN q /\ k + 1 \in DOMAIN q /\ t[j] = q[j + 1] /\ t[k] = q[k + 1] /\ j \in Nat /\ k \in Nat
    BY <1>1
  <2>2. j + 1 = k + 1
    BY <2>1 DEF EventsOK, QueuedOnce
  <2> QED
    BY <2>1, <2>2, SMT
<1>3. CompletingOnce(t)
  <2> SUFFICES ASSUME NEW j \in DOMAIN t, NEW k \in DOMAIN t,
                      t[j].type = "IO_COMPLETE", t[k].type = "IO_COMPLETE", t[j].io = t[k].io
               PROVE  j = k
    BY DEF CompletingOnce
  <2>1. j + 1 \in DOMAIN q /\ k + 1 \in DOMAIN q /\ t[j] = q[j + 1] /\ t[k] = q[k + 1] /\ j \in Nat /\ k \in Nat
    BY <1>1
  <2>2. j + 1 = k + 1
    BY <2>1 DEF EventsOK, CompletingOnce
  <2> QED
    BY <2>1, <2>2, SMT
<1>4. CompletedFirst(t)
  <2> SUFFICES ASSUME NEW j \in DOMAIN t, NEW k \in DOMAIN t,
                      t[j].type = "IO_COMPLETE", t[k].type = "IO_REQ", t[j].io = t[k].io
               PROVE  j < k
    BY DEF CompletedFirst
  <2>1. j + 1 \in DOMAIN q /\ k + 1 \in DOMAIN q /\ t[j] = q[j + 1] /\ t[k] = q[k + 1] /\ j \in Nat /\ k \in Nat
    BY <1>1
  <2>2. j + 1 < k + 1
    BY <2>1 DEF EventsOK, CompletedFirst
  <2> QED
    BY <2>1, <2>2, SMT
<1>5. ASSUME NEW i
      PROVE  Queued(t, i) <=> Queued(q, i) /\ ~(e.type = "IO_REQ" /\ e.io = i)
  <2>1. ASSUME Queued(t, i) PROVE Queued(q, i) /\ ~(e.type = "IO_REQ" /\ e.io = i)
    <3>1. PICK j \in DOMAIN t : t[j].type = "IO_REQ" /\ t[j].io = i
      BY <2>1 DEF Queued
    <3>2. PICK k \in DOMAIN q : k # 1 /\ t[j] = q[k]
      BY <1>up
    <3> QED
      BY <3>1, <3>2, <1>1 DEF Queued, EventsOK, QueuedOnce
  <2>2. ASSUME Queued(q, i), ~(e.type = "IO_REQ" /\ e.io = i) PROVE Queued(t, i)
    <3>1. PICK j \in DOMAIN q : q[j].type = "IO_REQ" /\ q[j].io = i
      BY <2>2 DEF Queued
    <3>2. j # 1
      BY <3>1, <2>2, <1>1
    <3> QED
      BY <3>1, <3>2, <1>down DEF Queued
  <2> QED
    BY <2>1, <2>2
<1>6. ASSUME NEW i
      PROVE  Completing(t, i) <=> Completing(q, i) /\ ~(e.type = "IO_COMPLETE" /\ e.io = i)
  <2>1. ASSUME Completing(t, i) PROVE Completing(q, i) /\ ~(e.type = "IO_COMPLETE" /\ e.io = i)
    <3>1. PICK j \in DOMAIN t : t[j].type = "IO_COMPLETE" /\ t[j].io = i
      BY <2>1 DEF Completing
    <3>2. PICK k \in DOMAIN q : k # 1 /\ t[j] = q[k]
      BY <1>up
    <3> QED
      BY <3>1, <3>2, <1>1 DEF Completing, EventsOK, CompletingOnce
  <2>2. ASSUME Completing(q, i), ~(e.type = "IO_COMPLETE" /\ e.io = i) PROVE Completing(t, i)
    <3>1. PICK j \in DOMAIN q : q[j].type = "IO_COMPLETE" /\ q[j].io = i
      BY <2>2 DEF Completing
    <3>2. j # 1
      BY <3>1, <2>2, <1>1
    <3> QED
      BY <3>1, <3>2, <1>down DEF Completing
  <2> QED
    BY <2>1, <2>2
<1>7. ASSUME e.type = "IO_REQ" PROVE Queued(q, e.io) /\ ~Completing(q, e.io)
  <2>1. Queued(q, e.io)
    BY <1>1, <1>7 DEF Queued
  <2>2. ASSUME NEW j \in DOMAIN q, q[j].type = "IO_COMPLETE", q[j].io = e.io PROVE FALSE
    <3>1. j < 1
      BY <1>1, <1>7, <2>2 DEF EventsOK, CompletedFirst
    <3>2. j # 1
      BY <1>1, <1>7, <2>2
    <3> QED
      BY <3>1, <3>2, <1>1, SMT
  <2> QED
    BY <2>1, <2>2 DEF Completing
<1>8. e.type = "IO_COMPLETE" => Completing(q, e.io)
  BY <1>1 DEF Completing
<1> QED
  BY <1>1, <1>2, <1>3, <1>4, <1>5, <1>6, <1>7, <1>8 DEF EventsOK, e, t

\* An event is posted.
LEMMA PushEvent ==
    ASSUME NEW q \in Seq(Event), NEW e \in Event, EventsOK(q),
           e.type = "IO_REQ" => ~Queued(q, e.io),
           e.type = "IO_COMPLETE" => ~Completing(q, e.io) /\ ~Queued(q, e.io)
    PROVE  LET t == Append(q, e) IN
           /\ t \in Seq(Event) /\ EventsOK(t)
           /\ \A i : Queued(t, i) <=> Queued(q, i) \/ (e.type = "IO_REQ" /\ e.io = i)
           /\ \A i : Completing(t, i) <=> Completing(q, i) \/ (e.type = "IO_COMPLETE" /\ e.io = i)
<1> DEFINE t == Append(q, e)
<1>1. PICK n : n = Len(q) + 1
  OBVIOUS
<1>2. /\ t \in Seq(Event)
      /\ \A j \in DOMAIN q : j \in DOMAIN t /\ j < n /\ t[j] = q[j]
      /\ n \in DOMAIN t /\ t[n] = e /\ n \notin DOMAIN q
      /\ \A j \in DOMAIN t : j \in DOMAIN q \/ j = n
  BY <1>1, AppendFacts
<1> HIDE DEF t
<1>old. \A j \in DOMAIN q : j \in DOMAIN t /\ t[j] = q[j]
  BY <1>2
<1>3. QueuedOnce(t)
  BY <1>2 DEF EventsOK, QueuedOnce, Queued
<1>4. CompletingOnce(t)
  BY <1>2 DEF EventsOK, CompletingOnce, Completing
<1>5. CompletedFirst(t)
  <2> SUFFICES ASSUME NEW j \in DOMAIN t, NEW k \in DOMAIN t,
                      t[j].type = "IO_COMPLETE", t[k].type = "IO_REQ", t[j].io = t[k].io
               PROVE  j < k
    BY DEF CompletedFirst
  <2>1. CASE j \in DOMAIN q /\ k \in DOMAIN q
    BY <1>2, <2>1 DEF EventsOK, CompletedFirst
  <2>2. CASE j \in DOMAIN q /\ k = n
    BY <1>2, <2>2
  <2>3. CASE j = n
    BY <1>2, <2>3 DEF Queued
  <2> QED
    BY <1>2, <2>1, <2>2, <2>3
<1>6. \A i : Queued(t, i) <=> Queued(q, i) \/ (e.type = "IO_REQ" /\ e.io = i)
  BY <1>2 DEF Queued
<1>7. \A i : Completing(t, i) <=> Completing(q, i) \/ (e.type = "IO_COMPLETE" /\ e.io = i)
  BY <1>2 DEF Completing
<1> QED
  BY <1>2, <1>3, <1>4, <1>5, <1>6, <1>7 DEF EventsOK, t

\* A REOPEN posted before the volume was opened does not touch the others.
LEMMA PassEvents ==
    ASSUME NEW q \in Seq(Event), NEW m \in Seq(Event), EventsOK(q), DOMAIN m = DOMAIN q,
           \A k \in DOMAIN q : /\ m[k].type = q[k].type
                               /\ q[k].type # "REOPEN" => m[k] = q[k]
    PROVE  /\ EventsOK(m)
           /\ \A i : Queued(m, i) <=> Queued(q, i)
           /\ \A i : Completing(m, i) <=> Completing(q, i)
<1>1. \A k \in DOMAIN q : q[k].type \in {"IO_REQ", "IO_COMPLETE"} => m[k] = q[k]
  OBVIOUS
<1>2. EventsOK(m)
  BY <1>1 DEF EventsOK, QueuedOnce, CompletingOnce, CompletedFirst
<1>3. \A i : Queued(m, i) <=> Queued(q, i)
  BY <1>1 DEF Queued
<1>4. \A i : Completing(m, i) <=> Completing(q, i)
  BY <1>1 DEF Completing
<1> QED
  BY <1>2, <1>3, <1>4

\* The waiting I/Os are queued again.
LEMMA PushRequests ==
    ASSUME NEW q \in Seq(Event), NEW is \in Seq(Iocb), EventsOK(q), Once(is),
           \A i \in Iocb : In(is, i) => ~Queued(q, i)
    PROVE  LET t == q \o [k \in 1..Len(is) |-> IoReq(is[k])] IN
           /\ t \in Seq(Event) /\ EventsOK(t)
           /\ \A i : Queued(t, i) <=> Queued(q, i) \/ In(is, i)
           /\ \A i : Completing(t, i) <=> Completing(q, i)
<1> DEFINE u == [k \in 1..Len(is) |-> IoReq(is[k])]  t == q \o u
<1>1. /\ u \in Seq(Event) /\ DOMAIN u = DOMAIN is
      /\ \A j \in DOMAIN u : u[j].type = "IO_REQ" /\ u[j].io = is[j] /\ is[j] \in Iocb
  <2>1. DOMAIN is = 1..Len(is) /\ Len(is) \in Nat /\ \A j \in 1..Len(is) : is[j] \in Iocb
    BY LengthFacts, ElementFacts
  <2>2. u \in [1..Len(is) -> Event]
    BY <2>1 DEF Event, IoReq
  <2>3. u \in Seq(Event)
    BY <2>1, <2>2, FunctionSeq
  <2> QED
    BY <2>1, <2>3 DEF IoReq
<1> HIDE DEF u
<1>2. /\ t \in Seq(Event)
      /\ \A j \in DOMAIN q : j \in DOMAIN t /\ j \in Nat /\ t[j] = q[j]
      /\ \A j \in DOMAIN u : j \in Nat /\ Len(q) + j \in DOMAIN t /\ t[Len(q) + j] = u[j]
      /\ \A j \in DOMAIN t :
            \/ j \in DOMAIN q
            \/ j - Len(q) \in DOMAIN u /\ j = Len(q) + (j - Len(q)) /\ \A k \in DOMAIN q : k < j
  BY <1>1, ConcatFacts
<1> HIDE DEF t
<1>old. \A j \in DOMAIN q : j \in DOMAIN t /\ t[j] = q[j]
  BY <1>2
<1>new. ASSUME NEW j \in DOMAIN is
        PROVE  \E k \in DOMAIN t : t[k].type = "IO_REQ" /\ t[k].io = is[j]
  <2>1. j \in DOMAIN u /\ u[j].type = "IO_REQ" /\ u[j].io = is[j]
    BY <1>1
  <2>2. PICK k : k = Len(q) + j
    OBVIOUS
  <2>3. k \in DOMAIN t /\ t[k] = u[j]
    BY <1>2, <2>1, <2>2
  <2> QED
    BY <2>1, <2>3
<1>from. ASSUME NEW j \in DOMAIN t, j \notin DOMAIN q
         PROVE  /\ \A k \in DOMAIN q : k < j
                /\ \E k \in DOMAIN is : j = Len(q) + k /\ t[j].type = "IO_REQ" /\ t[j].io = is[k] /\ is[k] \in Iocb
  <2>1. PICK k \in DOMAIN u : k = j - Len(q) /\ j = Len(q) + k
    BY <1>2, <1>from
  <2>2. t[j] = u[k] /\ \A m \in DOMAIN q : m < j
    BY <1>2, <1>from, <2>1
  <2> QED
    BY <1>1, <2>1, <2>2
<1>3. QueuedOnce(t)
  <2> SUFFICES ASSUME NEW j \in DOMAIN t, NEW k \in DOMAIN t,
                      t[j].type = "IO_REQ", t[k].type = "IO_REQ", t[j].io = t[k].io
               PROVE  j = k
    BY DEF QueuedOnce
  <2>1. CASE j \in DOMAIN q /\ k \in DOMAIN q
    BY <2>1, <1>old DEF EventsOK, QueuedOnce
  <2>2. CASE j \notin DOMAIN q /\ k \notin DOMAIN q
    <3>1. PICK m \in DOMAIN is : j = Len(q) + m /\ t[j].io = is[m]
      BY <2>2, <1>from
    <3>2. PICK n \in DOMAIN is : k = Len(q) + n /\ t[k].io = is[n]
      BY <2>2, <1>from
    <3> QED
      BY <3>1, <3>2 DEF Once
  <2>3. ASSUME NEW x \in DOMAIN q, NEW y \in DOMAIN t, y \notin DOMAIN q,
               t[x].type = "IO_REQ", t[x].io = t[y].io
        PROVE  FALSE
    <3>1. PICK n \in DOMAIN is : t[y].io = is[n] /\ is[n] \in Iocb
      BY <2>3, <1>from
    <3> QED
      BY <3>1, <2>3, <1>old DEF Queued, In
  <2> QED
    BY <2>1, <2>2, <2>3
<1>4. CompletingOnce(t)
  BY <1>old, <1>from DEF EventsOK, CompletingOnce
<1>5. CompletedFirst(t)
  BY <1>old, <1>from DEF EventsOK, CompletedFirst
<1>6. \A i : Queued(t, i) <=> Queued(q, i) \/ In(is, i)
  BY <1>old, <1>new, <1>from, SMT DEF Queued, In
<1>7. \A i : Completing(t, i) <=> Completing(q, i)
  BY <1>old, <1>from DEF Completing
<1> QED
  BY <1>2, <1>3, <1>4, <1>5, <1>6, <1>7 DEF EventsOK, t, u

\* An iocb is taken from the front of a list.
LEMMA PopIocb ==
    ASSUME NEW s \in Seq(Iocb), s # <<>>, Once(s)
    PROVE  /\ Tail(s) \in Seq(Iocb) /\ Once(Tail(s)) /\ Head(s) \in Iocb /\ In(s, Head(s))
           /\ \A i : In(Tail(s), i) <=> In(s, i) /\ i # Head(s)
<1> DEFINE h == Head(s)  t == Tail(s)
<1>1. /\ t \in Seq(Iocb) /\ 1 \in DOMAIN s /\ h = s[1] /\ h \in Iocb
      /\ \A j \in DOMAIN t : j + 1 \in DOMAIN s /\ j + 1 # 1 /\ j \in Nat /\ t[j] = s[j + 1]
      /\ \A j \in DOMAIN s : j # 1 => j \in Nat /\ j - 1 \in DOMAIN t /\ t[j - 1] = s[j]
  BY TailFacts
<1> HIDE DEF h, t
<1>2. Once(t)
  <2> SUFFICES ASSUME NEW j \in DOMAIN t, NEW k \in DOMAIN t, t[j] = t[k]
               PROVE  j = k
    BY DEF Once
  <2>1. j + 1 \in DOMAIN s /\ k + 1 \in DOMAIN s /\ s[j + 1] = s[k + 1] /\ j \in Nat /\ k \in Nat
    BY <1>1
  <2>2. j + 1 = k + 1
    BY <2>1 DEF Once
  <2> QED
    BY <2>1, <2>2, SMT
<1>3. \A j \in DOMAIN t : \E k \in DOMAIN s : k # 1 /\ t[j] = s[k]
  BY <1>1
<1>4. \A j \in DOMAIN s : j # 1 => \E k \in DOMAIN t : t[k] = s[j]
  BY <1>1
<1>5. ASSUME NEW i, In(t, i) PROVE In(s, i) /\ i # h
  <2>1. PICK j \in DOMAIN t : t[j] = i
    BY <1>5 DEF In
  <2>2. PICK k \in DOMAIN s : k # 1 /\ t[j] = s[k]
    BY <1>3
  <2>3. s[k] # s[1]
    BY <1>1, <2>2 DEF Once
  <2> QED
    BY <1>1, <2>1, <2>2, <2>3 DEF In
<1>6. ASSUME NEW i, In(s, i), i # h PROVE In(t, i)
  <2>1. PICK j \in DOMAIN s : s[j] = i
    BY <1>6 DEF In
  <2>2. j # 1
    BY <1>1, <1>6, <2>1
  <2> QED
    BY <1>4, <2>1, <2>2 DEF In
<1>7. In(s, h)
  BY <1>1 DEF In
<1> QED
  BY <1>1, <1>2, <1>5, <1>6, <1>7 DEF h, t

\* An iocb is put at the end, or in front, of a list.
LEMMA PushIocb ==
    ASSUME NEW s \in Seq(Iocb), NEW i \in Iocb, Once(s), ~In(s, i)
    PROVE  /\ Append(s, i) \in Seq(Iocb) /\ Once(Append(s, i))
           /\ \A j : In(Append(s, i), j) <=> In(s, j) \/ j = i
<1> DEFINE t == Append(s, i)
<1>1. PICK n : n = Len(s) + 1
  OBVIOUS
<1>2. /\ t \in Seq(Iocb)
      /\ \A j \in DOMAIN s : j \in DOMAIN t /\ t[j] = s[j]
      /\ n \in DOMAIN t /\ t[n] = i
      /\ \A j \in DOMAIN t : j \in DOMAIN s \/ j = n
  BY <1>1, AppendFacts
<1> HIDE DEF t
<1>3. Once(t)
  BY <1>2 DEF Once, In
<1>4. \A j : In(t, j) <=> In(s, j) \/ j = i
  BY <1>2 DEF In
<1> QED
  BY <1>2, <1>3, <1>4 DEF t

\* An iocb is put in front of a list.
LEMMA PutIocb ==
    ASSUME NEW s \in Seq(Iocb), NEW i \in Iocb, Once(s), ~In(s, i)
    PROVE  /\ <<i>> \o s \in Seq(Iocb) /\ Once(<<i>> \o s)
           /\ \A j : In(<<i>> \o s, j) <=> In(s, j) \/ j = i
<1> DEFINE t == <<i>> \o s
<1>1. /\ t \in Seq(Iocb) /\ DOMAIN t = 1..Len(s) + 1 /\ Len(s) \in Nat /\ DOMAIN s = 1..Len(s)
      /\ t[1] = i /\ \A j \in 1..Len(s) + 1 : j # 1 => t[j] = s[j - 1]
  BY LengthFacts, SMT
<1> HIDE DEF t
<1>2. \A j \in DOMAIN s : j + 1 \in DOMAIN t /\ t[j + 1] = s[j]
  BY <1>1, SMT
<1>3. \A j \in DOMAIN t : j # 1 => j - 1 \in DOMAIN s /\ t[j] = s[j - 1]
  BY <1>1, SMT
<1>4. Once(t)
  <2> SUFFICES ASSUME NEW j \in DOMAIN t, NEW k \in DOMAIN t, t[j] = t[k]
               PROVE  j = k
    BY DEF Once
  <2>1. CASE j # 1 /\ k # 1
    <3>1. j - 1 = k - 1
      BY <1>3, <2>1 DEF Once
    <3> QED
      BY <1>1, <3>1, SMT
  <2>2. CASE j = 1 \/ k = 1
    BY <1>1, <1>3, <2>2 DEF In
  <2> QED
    BY <2>1, <2>2
<1>5. \A j : In(s, j) => In(t, j)
  BY <1>2 DEF In
<1>6. \A j : In(t, j) => In(s, j) \/ j = i
  BY <1>1, <1>3 DEF In
<1>7. In(t, i)
  BY <1>1, SMT DEF In
<1> QED
  BY <1>1, <1>4, <1>5, <1>6, <1>7 DEF t

\* What Post adds behind the other events.
LEMMA PostFacts ==
    ASSUME NEW S, NEW s \in Seq(S), NEW e \in S, NEW f \in S
    PROVE  s \o <<>> = s /\ s \o <<e>> = Append(s, e) /\ s \o (<<f>> \o <<e>>) = Append(Append(s, f), e)
  BY SMT

\* The next event of vol_proc is taken.
LEMMA TakeEvent ==
    ASSUME Inv, NEW type, Handles(type)
    PROVE  LET e == Head(events)  t == Tail(events) IN
           /\ e \in Event /\ e.type = type /\ t \in Seq(Event) /\ EventsOK(t)
           /\ \A i : Queued(t, i) <=> Queued(events, i) /\ ~(type = "IO_REQ" /\ e.io = i)
           /\ \A i : Completing(t, i) <=> Completing(events, i) /\ ~(type = "IO_COMPLETE" /\ e.io = i)
           /\ type = "IO_REQ" => e.io \in Iocb /\ Queued(events, e.io) /\ ~Completing(events, e.io)
           /\ type = "IO_COMPLETE" => e \in Complete /\ e.io \in Iocb /\ Completing(events, e.io)
           /\ type = "IO_TIMEOUT" => e.io \in Iocb
           /\ t \o <<>> = t
<1>1. events \in Seq(Event) /\ EventsOK(events) /\ events # <<>> /\ Head(events).type = type
  BY DEF Inv, TypeInv, QueueInv, Handles
<1>2. PICK e, t : e = Head(events) /\ t = Tail(events)
  OBVIOUS
<1>3. /\ e \in Event /\ t \in Seq(Event) /\ EventsOK(t)
      /\ \A i : Queued(t, i) <=> Queued(events, i) /\ ~(e.type = "IO_REQ" /\ e.io = i)
      /\ \A i : Completing(t, i) <=> Completing(events, i) /\ ~(e.type = "IO_COMPLETE" /\ e.io = i)
      /\ e.type = "IO_REQ" => Queued(events, e.io) /\ ~Completing(events, e.io)
      /\ e.type = "IO_COMPLETE" => Completing(events, e.io)
  BY <1>1, <1>2, PopEvent
<1>4. e.type = type
  BY <1>1, <1>2
<1>5. /\ type = "IO_REQ" \/ type = "IO_TIMEOUT" => e.io \in Iocb
      /\ type = "IO_COMPLETE" => e \in Complete /\ e.io \in Iocb
  BY <1>3, <1>4 DEF Event, Complete
<1>6. t \o <<>> = t
  BY <1>3, PostFacts
<1> QED
  BY <1>2, <1>3, <1>4, <1>5, <1>6

\* A step that moves no iocb: it takes or posts a REOPEN or IO_TIMEOUT, or
\* changes marks and times only.
LEMMA NothingMoves ==
    ASSUME Inv, events' \in Seq(Event), EventsOK(events'),
           \A i : Queued(events', i) <=> Queued(events, i),
           \A i : Completing(events', i) <=> Completing(events, i),
           iocb' \in [Iocb -> IocbRecord],
           \A i \in Iocb : iocb'[i].conn = iocb[i].conn /\ iocb'[i].req = iocb[i].req,
           metaVer' \in Nat, store' \in [conductor : Nat, node : Nat],
           UNCHANGED <<pool, waiting, link, net, rbds, cut, stuck, reqs, answers>>,
           fault' # "stale_reply"
    PROVE  Inv'
<1>1. TypeInv'
  BY DEF Inv, TypeInv
<1>2. QueueInv'
  BY DEF Inv, QueueInv, Once
<1>3. PlaceInv'
  BY SMT DEF Inv, PlaceInv, In, Flying
<1>4. FlightInv'
  <2>1. \A r \in net : r.io \in Iocb
    BY DEF Inv, TypeInv, Request
  <2>2. \A d \in link.payload : d.io \in Iocb
    BY DEF Inv, TypeInv, Link, Complete
  <2> QED
    BY <2>1, <2>2 DEF Inv, FlightInv, Flying
<1>5. RequestInv'
  BY SMT DEF Inv, RequestInv, In
<1>6. BufferInv'
  <2>1. {i \in Iocb : Completing(events, i)}' = {i \in Iocb : Completing(events, i)}
    OBVIOUS
  <2> QED
    BY <2>1 DEF Inv, BufferInv
<1> QED
  BY <1>1, <1>2, <1>3, <1>4, <1>5, <1>6 DEF Inv

\* The fields of one iocb are set.
LEMMA SetIocb ==
    ASSUME Inv, NEW i \in Iocb, NEW r \in IocbRecord, Set(i, r)
    PROVE  iocb' \in [Iocb -> IocbRecord] /\ iocb'[i] = r /\ \A j \in Iocb : j # i => iocb'[j] = iocb[j]
<1>1. iocb \in [Iocb -> IocbRecord]
  BY DEF Inv, TypeInv
<1> QED
  BY <1>1 DEF Set

\* What an iocb may be, and what the steps make of it.
LEMMA IocbUpdates ==
    ASSUME NEW r \in IocbRecord
    PROVE  /\ r.req \in 0..MaxReq /\ r.op \in {"READ", "WRITE"} /\ r.conn \in {"none", "live", "dead"}
           /\ [r EXCEPT !.marked = TRUE] \in IocbRecord
           /\ [r EXCEPT !.marked = TRUE].conn = r.conn /\ [r EXCEPT !.marked = TRUE].req = r.req
           /\ [r EXCEPT !.sent = "old"] \in IocbRecord
           /\ [r EXCEPT !.sent = "old"].conn = r.conn /\ [r EXCEPT !.sent = "old"].req = r.req
  BY DEF IocbRecord

\* The steps that change no list of iocbs.
LEMMA MarkTimeoutInv ==
    ASSUME Inv, NEW i \in Iocb, MarkTimeout(i)
    PROVE  Inv'
<1>1. PICK r : r = iocb[i]
  OBVIOUS
<1>2. r \in IocbRecord
  BY <1>1 DEF Inv, TypeInv
<1>3. PICK s : s = [r EXCEPT !.marked = TRUE]
  OBVIOUS
<1>4. s \in IocbRecord /\ s.conn = r.conn /\ s.req = r.req
  BY <1>2, <1>3, IocbUpdates
<1>5. Set(i, s)
  BY <1>1, <1>3 DEF MarkTimeout
<1>6. iocb' \in [Iocb -> IocbRecord] /\ iocb'[i] = s /\ \A j \in Iocb : j # i => iocb'[j] = iocb[j]
  BY <1>4, <1>5, SetIocb
<1>7. \A j \in Iocb : iocb'[j].conn = iocb[j].conn /\ iocb'[j].req = iocb[j].req
  BY <1>1, <1>4, <1>6
<1> QED
  BY <1>6, <1>7, NothingMoves DEF MarkTimeout, Inv, TypeInv, QueueInv, FlightInv

\* Time passes: a request becomes overdue.
LEMMA AgeInv ==
    ASSUME Inv, NEW i \in Iocb, Age(i)
    PROVE  Inv'
<1>1. PICK r : r = iocb[i]
  OBVIOUS
<1>2. r \in IocbRecord
  BY <1>1 DEF Inv, TypeInv
<1>3. PICK s : s = [r EXCEPT !.sent = "old"]
  OBVIOUS
<1>4. s \in IocbRecord /\ s.conn = r.conn /\ s.req = r.req
  BY <1>2, <1>3, IocbUpdates
<1>5. Set(i, s)
  BY <1>1, <1>3 DEF Age
<1>6. iocb' \in [Iocb -> IocbRecord] /\ iocb'[i] = s /\ \A j \in Iocb : j # i => iocb'[j] = iocb[j]
  BY <1>4, <1>5, SetIocb
<1>7. \A j \in Iocb : iocb'[j].conn = iocb[j].conn /\ iocb'[j].req = iocb[j].req
  BY <1>1, <1>4, <1>6
<1> QED
  BY <1>6, <1>7, NothingMoves DEF Age, Inv, TypeInv, QueueInv, FlightInv

\* The conductor changes the volume's meta_ver, or a store learns it.
LEMMA ChangeVolumeInv ==
    ASSUME Inv, ChangeVolume
    PROVE  Inv'
<1>1. store' \in [conductor : Nat, node : Nat]
  <2>1. PICK s \in [conductor : Nat, node : Nat] : s = store
    BY DEF Inv, TypeInv
  <2>2. /\ [s EXCEPT !.conductor = @ + 1] \in [conductor : Nat, node : Nat]
        /\ [s EXCEPT !.node = s.conductor] \in [conductor : Nat, node : Nat]
    BY SMT
  <2> QED
    BY <2>1, <2>2 DEF ChangeVolume
<1> QED
  BY <1>1, NothingMoves DEF ChangeVolume, Inv, TypeInv, QueueInv, FlightInv

\* An event other than the moves of an iocb is posted.
LEMMA PushOther ==
    ASSUME Inv, NEW e \in Event, e.type \in {"REOPEN", "IO_TIMEOUT"}, events' = Append(events, e)
    PROVE  /\ events' \in Seq(Event) /\ EventsOK(events')
           /\ \A i : Queued(events', i) <=> Queued(events, i)
           /\ \A i : Completing(events', i) <=> Completing(events, i)
<1>1. e.type # "IO_REQ" /\ e.type # "IO_COMPLETE"
  OBVIOUS
<1>2. events \in Seq(Event) /\ EventsOK(events)
  BY DEF Inv, TypeInv, QueueInv
<1> QED
  BY <1>1, <1>2, PushEvent

\* The end of the sleep before the volume is opened again.
LEMMA WakeInv ==
    ASSUME Inv, Wake
    PROVE  Inv'
<1>1. Reopen \in Event /\ Reopen.type \in {"REOPEN", "IO_TIMEOUT"}
  BY DEF Reopen, Event
<1>2. /\ events' \in Seq(Event) /\ EventsOK(events')
      /\ \A i : Queued(events', i) <=> Queued(events, i)
      /\ \A i : Completing(events', i) <=> Completing(events, i)
  BY <1>1, PushOther DEF Wake
<1> QED
  BY <1>2, NothingMoves DEF Wake, Inv, TypeInv, FlightInv

\* timeout_check_proc posts EVT_IO_TIMEOUT.
LEMMA PostTimeoutInv ==
    ASSUME Inv, NEW i \in Iocb, PostTimeout(i)
    PROVE  Inv'
<1>1. IoTimeout(i) \in Event /\ IoTimeout(i).type \in {"REOPEN", "IO_TIMEOUT"}
  BY DEF IoTimeout, Event
<1>2. /\ events' \in Seq(Event) /\ EventsOK(events')
      /\ \A j : Queued(events', j) <=> Queued(events, j)
      /\ \A j : Completing(events', j) <=> Completing(events, j)
  BY <1>1, PushOther DEF PostTimeout
<1> QED
  BY <1>2, NothingMoves DEF PostTimeout, Inv, TypeInv, FlightInv

\* Such an event is taken, and nothing is posted.
LEMMA TakeOther ==
    ASSUME Inv, NEW type \in {"REOPEN", "IO_TIMEOUT"}, Handles(type), Post(<<>>)
    PROVE  /\ events' \in Seq(Event) /\ EventsOK(events')
           /\ \A i : Queued(events', i) <=> Queued(events, i)
           /\ \A i : Completing(events', i) <=> Completing(events, i)
<1>1. type # "IO_REQ" /\ type # "IO_COMPLETE"
  OBVIOUS
<1>2. events' = Tail(events) \o <<>>
  BY DEF Post
<1> QED
  BY <1>1, <1>2, TakeEvent

\* EVT_IO_TIMEOUT, dropped.
LEMMA DropTimeoutInv ==
    ASSUME Inv, DropTimeout
    PROVE  Inv'
<1>1. /\ events' \in Seq(Event) /\ EventsOK(events')
      /\ \A i : Queued(events', i) <=> Queued(events, i)
      /\ \A i : Completing(events', i) <=> Completing(events, i)
  BY TakeOther DEF DropTimeout
<1> QED
  BY <1>1, NothingMoves DEF DropTimeout, Inv, TypeInv, FlightInv

\* EVT_REOPEN_VOLUME of an earlier opening.
LEMMA SkipReopenInv ==
    ASSUME Inv, SkipReopen
    PROVE  Inv'
<1>1. /\ events' \in Seq(Event) /\ EventsOK(events')
      /\ \A i : Queued(events', i) <=> Queued(events, i)
      /\ \A i : Completing(events', i) <=> Completing(events, i)
  BY TakeOther DEF SkipReopen
<1> QED
  BY <1>1, NothingMoves DEF SkipReopen, Inv, TypeInv, FlightInv

\* No iocb is freed or taken, and no request is answered.
LEMMA RequestFrame ==
    ASSUME Inv, \A i \in Iocb : In(pool', i) <=> In(pool, i),
           \A i \in Iocb : iocb'[i].req = iocb[i].req, UNCHANGED <<reqs, answers>>
    PROVE  RequestInv'
  BY DEF Inv, RequestInv

\* The request of an iocb is answered and the iocb freed.
LEMMA AnswerRequest ==
    ASSUME Inv, NEW i \in Iocb, ~In(pool, i), Answer(i), UNCHANGED reqs,
           \A j \in Iocb : In(pool', j) <=> In(pool, j) \/ j = i,
           \A j \in Iocb : j # i => iocb'[j].req = iocb[j].req
    PROVE  RequestInv' /\ answers' \in [0..MaxReq -> Nat]
<1>1. PICK n : n = iocb[i].req
  OBVIOUS
<1>2. reqs \in 0..MaxReq /\ MaxReq \in Nat /\ answers \in [0..MaxReq -> Nat]
  BY ClientVolumeAssumption DEF Inv, TypeInv
<1>3. n \in 1..reqs /\ answers[n] = 0
  BY <1>1 DEF Inv, RequestInv
<1>4. answers' = [answers EXCEPT ![n] = @ + 1]
  BY <1>1 DEF Answer
<1>5. /\ answers' \in [0..MaxReq -> Nat] /\ answers'[n] = 1
      /\ \A m \in 0..MaxReq : m # n => answers'[m] = answers[m]
  BY <1>2, <1>3, <1>4, SMT
<1>6. \A j \in Iocb : ~In(pool', j) => /\ j # i /\ ~In(pool, j) /\ iocb'[j].req = iocb[j].req
                                       /\ iocb'[j].req # n
  BY <1>1 DEF Inv, RequestInv
<1>7. \A j \in Iocb : ~In(pool', j) => iocb'[j].req \in 1..reqs /\ answers'[iocb'[j].req] = 0
  <2> SUFFICES ASSUME NEW j \in Iocb, ~In(pool', j)
               PROVE  iocb'[j].req \in 1..reqs /\ answers'[iocb'[j].req] = 0
    OBVIOUS
  <2>1. PICK m : m = iocb[j].req
    OBVIOUS
  <2>2. iocb'[j].req = m /\ m # n /\ m \in 1..reqs /\ answers[m] = 0
    BY <1>6, <2>1 DEF Inv, RequestInv
  <2> QED
    BY <1>2, <1>5, <2>2, SMT
<1>8. \A j, k \in Iocb : ~In(pool', j) /\ ~In(pool', k) /\ iocb'[j].req = iocb'[k].req => j = k
  BY <1>6, SMT DEF Inv, RequestInv
<1>9. answers'[0] = 0
  BY <1>2, <1>3, <1>5, SMT DEF Inv, RequestInv
<1>10. \A m \in 1..MaxReq : answers'[m] <= 1 /\ (m > reqs => answers'[m] = 0)
  <2>1. \A m \in 1..MaxReq : answers[m] <= 1 /\ (m > reqs => answers[m] = 0)
    BY DEF Inv, RequestInv
  <2> QED
    <3> SUFFICES ASSUME NEW m \in 1..MaxReq
                 PROVE  answers'[m] <= 1 /\ (m > reqs => answers'[m] = 0)
      OBVIOUS
    <3>1. CASE m = n
      BY <1>2, <1>3, <1>5, <3>1, SMT
    <3>2. CASE m # n
      <4>1. m \in 0..MaxReq
        BY <1>2, SMT
      <4> QED
        BY <1>5, <2>1, <3>2, <4>1
    <3> QED
      BY <3>1, <3>2
<1> QED
  BY <1>5, <1>7, <1>8, <1>9, <1>10 DEF RequestInv

\* The iocbs after their connection was closed.
LEMMA DeadFacts ==
    ASSUME NEW f \in [Iocb -> IocbRecord]
    PROVE  /\ Dead(f) \in [Iocb -> IocbRecord]
           /\ \A i \in Iocb : /\ Dead(f)[i].conn = "none" <=> f[i].conn = "none"
                              /\ Dead(f)[i].req = f[i].req
<1>1. ASSUME NEW r \in IocbRecord
      PROVE  LET d == [r EXCEPT !.conn = IF @ = "live" THEN "dead" ELSE @]
             IN  d \in IocbRecord /\ (d.conn = "none" <=> r.conn = "none") /\ d.req = r.req
  <2>1. PICK c : c = IF r.conn = "live" THEN "dead" ELSE r.conn
    OBVIOUS
  <2>2. c \in {"none", "live", "dead"} /\ (c = "none" <=> r.conn = "none")
    BY <2>1 DEF IocbRecord
  <2>3. [r EXCEPT !.conn = c] \in IocbRecord /\ [r EXCEPT !.conn = c].conn = c /\ [r EXCEPT !.conn = c].req = r.req
    BY <2>2 DEF IocbRecord
  <2> QED
    BY <2>1, <2>2, <2>3
<1>2. \A i \in Iocb : f[i] \in IocbRecord
  OBVIOUS
<1>3. \A i \in Iocb : Dead(f)[i] = [f[i] EXCEPT !.conn = IF @ = "live" THEN "dead" ELSE @]
  BY DEF Dead
<1>4. \A i \in Iocb : /\ Dead(f)[i] \in IocbRecord
                      /\ Dead(f)[i].conn = "none" <=> f[i].conn = "none"
                      /\ Dead(f)[i].req = f[i].req
  <2> TAKE i \in Iocb
  <2>1. PICK r : r = f[i]
    OBVIOUS
  <2>2. r \in IocbRecord /\ Dead(f)[i] = [r EXCEPT !.conn = IF @ = "live" THEN "dead" ELSE @]
    BY <1>2, <1>3, <2>1
  <2> QED
    BY <1>1, <2>1, <2>2
<1>5. Dead(f) \in [Iocb -> IocbRecord]
  BY <1>4 DEF Dead
<1> QED
  BY <1>4, <1>5

\* What the steps make of the connection.
LEMMA LinkUpdates ==
    ASSUME NEW l \in Link
    PROVE  /\ l.posted \in Int /\ l.payload \subseteq Complete
           /\ [l EXCEPT !.up = TRUE] \in Link
           /\ [l EXCEPT !.up = TRUE].posted = l.posted /\ [l EXCEPT !.up = TRUE].payload = l.payload
           /\ [l EXCEPT !.up = TRUE, !.posted = @ + 1] \in Link
           /\ [l EXCEPT !.up = TRUE, !.posted = @ + 1].posted = l.posted + 1
           /\ [l EXCEPT !.up = TRUE, !.posted = @ + 1].payload = l.payload
           /\ [l EXCEPT !.payload = {}] \in Link
           /\ [l EXCEPT !.payload = {}].posted = l.posted /\ [l EXCEPT !.payload = {}].payload = {}
           /\ ClosedLink \in Link /\ ClosedLink.posted = 0 /\ ClosedLink.payload = {}
<1>1. l.posted \in Int /\ l.payload \subseteq Complete
  BY DEF Link
<1>2. PICK n : n = l.posted + 1
  OBVIOUS
<1>3. n \in Int /\ 0 \in Int
  BY <1>1, <1>2, SMT
<1>4. /\ [l EXCEPT !.up = TRUE] \in Link
      /\ [l EXCEPT !.up = TRUE].posted = l.posted /\ [l EXCEPT !.up = TRUE].payload = l.payload
  BY DEF Link
<1>5. /\ [l EXCEPT !.up = TRUE, !.posted = n] \in Link
      /\ [l EXCEPT !.up = TRUE, !.posted = n].posted = n
      /\ [l EXCEPT !.up = TRUE, !.posted = n].payload = l.payload
  BY <1>3 DEF Link
<1>6. /\ [l EXCEPT !.payload = {}] \in Link
      /\ [l EXCEPT !.payload = {}].posted = l.posted /\ [l EXCEPT !.payload = {}].payload = {}
  BY DEF Link
<1>7. ClosedLink \in Link /\ ClosedLink.posted = 0 /\ ClosedLink.payload = {}
  BY <1>3 DEF Link, ClosedLink
<1> QED
  BY <1>1, <1>2, <1>4, <1>5, <1>6, <1>7

\* What the steps make of the buffers that a cut payload left behind.
LEMMA CutUpdates ==
    ASSUME NEW c \in Cut
    PROVE  /\ c.lost \in Int /\ c.pooled \in Int /\ c.posted \in Int /\ c.stuck \in Int
           /\ LET d == [c EXCEPT !.pooled = @ - 1, !.posted = @ + 1] IN
              /\ d \in Cut /\ d.lost = c.lost /\ d.stuck = c.stuck
              /\ d.pooled = c.pooled - 1 /\ d.posted = c.posted + 1
           /\ LET d == [c EXCEPT !.pooled = @ - 1, !.stuck = @ + 1] IN
              /\ d \in Cut /\ d.lost = c.lost /\ d.posted = c.posted
              /\ d.pooled = c.pooled - 1 /\ d.stuck = c.stuck + 1
           /\ LET d == [c EXCEPT !.jammed = TRUE] IN
              /\ d \in Cut /\ d.lost = c.lost /\ d.posted = c.posted
              /\ d.pooled = c.pooled /\ d.stuck = c.stuck
<1>1. c.lost \in Int /\ c.pooled \in Int /\ c.posted \in Int /\ c.stuck \in Int
  BY DEF Cut
<1>2. PICK k, m, n : k = c.pooled - 1 /\ m = c.posted + 1 /\ n = c.stuck + 1
  OBVIOUS
<1>3. k \in Int /\ m \in Int /\ n \in Int
  BY <1>1, <1>2, SMT
<1>4. LET d == [c EXCEPT !.pooled = k, !.posted = m] IN
      d \in Cut /\ d.lost = c.lost /\ d.stuck = c.stuck /\ d.pooled = k /\ d.posted = m
  BY <1>3 DEF Cut
<1>5. LET d == [c EXCEPT !.pooled = k, !.stuck = n] IN
      d \in Cut /\ d.lost = c.lost /\ d.posted = c.posted /\ d.pooled = k /\ d.stuck = n
  BY <1>3 DEF Cut
<1>6. LET d == [c EXCEPT !.jammed = TRUE] IN
      /\ d \in Cut /\ d.lost = c.lost /\ d.posted = c.posted
      /\ d.pooled = c.pooled /\ d.stuck = c.stuck
  BY DEF Cut
<1> QED
  BY <1>1, <1>2, <1>4, <1>5, <1>6

\* flush_wr in the middle of a payload puts a data buffer into the place of
\* one reply buffer.
LEMMA FlushedFacts ==
    ASSUME CardinalityFacts, Inv
    PROVE  LET d == Flushed(cut)  p == IF link.payload = {} THEN 0 ELSE 1 IN
           /\ d \in Cut /\ d.lost = cut.lost + p /\ d.posted = 0 /\ d.stuck = cut.stuck
           /\ d.pooled = cut.pooled + cut.posted + p
<1>1. PICK c \in Cut, l \in Link : c = cut /\ l = link
  BY DEF Inv, TypeInv
<1>2. PICK n : n = IF l.payload = {} THEN 0 ELSE 1
  OBVIOUS
<1>3. Cardinality(l.payload) = n
  <2>1. CASE l.payload = {}
    BY <1>2, <2>1 DEF CardinalityFacts
  <2>2. CASE l.payload # {}
    <3>1. PICK x : l.payload = {} \union {x}
      BY <1>1, <2>2, SMT DEF Inv, FlightInv
    <3>2. Cardinality({} \union {x}) = Cardinality({}) + 1
      BY DEF CardinalityFacts
    <3>3. Cardinality({}) + 1 = 1
      BY SMT DEF CardinalityFacts
    <3> QED
      BY <1>2, <2>2, <3>1, <3>2, <3>3
  <2> QED
    BY <2>1, <2>2
<1>4. PICK k, m, s : k = c.lost + n /\ m = c.pooled + c.posted + n
                     /\ s = c.orphans \union {d.io : d \in l.payload}
  OBVIOUS
<1>5. k \in Int /\ m \in Int /\ 0 \in Int
  <2>1. c.lost \in Int /\ c.pooled \in Int /\ c.posted \in Int
    BY CutUpdates
  <2> QED
    BY <1>2, <1>4, <2>1, SMT
<1>6. s \in SUBSET Iocb /\ c.stuck \in Int
  BY <1>4 DEF Cut, Link, Complete
<1>7. Flushed(c) = [orphans |-> s, lost |-> k, pooled |-> m, posted |-> 0,
                    stuck |-> c.stuck, jammed |-> FALSE]
  BY <1>1, <1>3, <1>4 DEF Flushed
<1>8. PICK e : e = Flushed(c)
  OBVIOUS
<1>9. e \in Cut /\ e.lost = k /\ e.pooled = m /\ e.posted = 0 /\ e.stuck = c.stuck
  <2>1. PICK g \in Int, z \in Int : g = c.stuck /\ z = 0
    BY <1>5, <1>6
  <2>2. k \in Int /\ m \in Int /\ s \in SUBSET Iocb
    BY <1>5, <1>6
  <2>3. LET d == [orphans |-> s, lost |-> k, pooled |-> m, posted |-> z, stuck |-> g, jammed |-> FALSE] IN
        d \in Cut /\ d.lost = k /\ d.pooled = m /\ d.posted = z /\ d.stuck = g
    BY <2>2 DEF Cut
  <2> QED
    BY <1>7, <1>8, <2>1, <2>3
<1> QED
  BY <1>1, <1>2, <1>4, <1>8, <1>9

\* Every connection is closed: nothing is under way.
LEMMA ClosedFlight ==
    ASSUME net' = {}, link' = ClosedLink, fault' # "stale_reply",
           \A i \in Iocb : Completing(events', i) => Flying(i)' \/ Queued(events', i)
    PROVE  FlightInv'
  BY DEF FlightInv, ClosedLink

\* The reply buffers when the completions stay the same.
LEMMA SameCompletions ==
    ASSUME CardinalityFacts, Inv, \A i \in Iocb : Completing(events', i) <=> Completing(events, i)
    PROVE  LET n == Cardinality({i \in Iocb : Completing(events, i)}) IN
           /\ n \in Nat /\ Cardinality({i \in Iocb : Completing(events', i)}) = n
           /\ rbds \in Int /\ stuck \in Int /\ link.posted \in Int /\ cut.lost \in Int
           /\ cut \in Cut /\ link.payload \subseteq Complete
<1>1. {i \in Iocb : Completing(events', i)} = {i \in Iocb : Completing(events, i)}
  OBVIOUS
<1>2. {i \in Iocb : Completing(events, i)} \in SUBSET Iocb /\ IsFiniteSet(Iocb)
  BY ClientVolumeAssumption
<1>3. Cardinality({i \in Iocb : Completing(events, i)}) \in Nat
  BY <1>2 DEF CardinalityFacts
<1> QED
  BY <1>1, <1>3, LinkUpdates, CutUpdates DEF Inv, TypeInv

\* An EVT_IO_REQ is posted for an iocb that has none.
LEMMA PushRequest ==
    ASSUME NEW q \in Seq(Event), EventsOK(q), NEW i \in Iocb, ~Queued(q, i)
    PROVE  LET t == Append(q, IoReq(i)) IN
           /\ t \in Seq(Event) /\ EventsOK(t)
           /\ \A j : Queued(t, j) <=> Queued(q, j) \/ j = i
           /\ \A j : Completing(t, j) <=> Completing(q, j)
<1>1. PICK e : e = IoReq(i)
  OBVIOUS
<1>2. e \in Event /\ e.type = "IO_REQ" /\ e.io = i /\ e.type # "IO_COMPLETE"
  BY <1>1 DEF IoReq, Event
<1>3. /\ Append(q, e) \in Seq(Event) /\ EventsOK(Append(q, e))
      /\ \A j : Queued(Append(q, e), j) <=> Queued(q, j) \/ j = i
      /\ \A j : Completing(Append(q, e), j) <=> Completing(q, j)
  BY <1>2, PushEvent
<1> QED
  BY <1>1, <1>3

\* A step that moves reply buffers and loses none.
LEMMA BufferStep ==
    ASSUME Inv, UNCHANGED cut,
           NEW n, n = Cardinality({i \in Iocb : Completing(events, i)}),
           NEW m, m = Cardinality({i \in Iocb : Completing(events', i)}),
           NEW p, p = IF link.payload = {} THEN 0 ELSE 1,
           NEW q, q = IF link'.payload = {} THEN 0 ELSE 1,
           rbds' + link'.posted + q + stuck' + m = rbds + link.posted + p + stuck + n
    PROVE  BufferInv'
<1>1. Cardinality(Iocb) = rbds + link.posted + p + stuck + n + cut.lost
  BY DEF Inv, BufferInv
<1>2. Cardinality(Iocb) = rbds' + link'.posted + q + stuck' + m + cut'.lost
  BY <1>1
<1> QED
  BY <1>2 DEF Inv, BufferInv

\* pf_io_submit.
LEMMA SubmitInv ==
    ASSUME Inv, Submit
    PROVE  Inv'
<1>1. PICK i, r : i = Head(pool) /\ r = iocb[i]
  OBVIOUS
<1>2. /\ pool' \in Seq(Iocb) /\ Once(pool') /\ i \in Iocb /\ In(pool, i)
      /\ \A j : In(pool', j) <=> In(pool, j) /\ j # i
  BY <1>1, PopIocb DEF Submit, Inv, TypeInv, QueueInv
<1>3. ~Queued(events, i) /\ ~In(waiting, i) /\ ~Flying(i)
  BY <1>2 DEF Inv, PlaceInv
<1>4. /\ events' \in Seq(Event) /\ EventsOK(events')
      /\ \A j : Queued(events', j) <=> Queued(events, j) \/ j = i
      /\ \A j : Completing(events', j) <=> Completing(events, j)
  <2>1. events \in Seq(Event) /\ EventsOK(events) /\ events' = Append(events, IoReq(i))
    BY <1>1 DEF Submit, Inv, TypeInv, QueueInv
  <2> QED
    BY <1>2, <1>3, <2>1, PushRequest
<1>5. PICK n, s : n = reqs + 1 /\ s = [r EXCEPT !.req = n, !.op = IF n \in Reads THEN "READ" ELSE "WRITE"]
  OBVIOUS
<1>6. reqs \in 0..MaxReq /\ MaxReq \in Nat /\ reqs' = n /\ n \in 0..MaxReq /\ n \in 1..n
  <2>1. reqs \in 0..MaxReq /\ MaxReq \in Nat
    BY ClientVolumeAssumption DEF Inv, TypeInv
  <2>2. reqs < MaxReq /\ reqs' = reqs + 1
    BY DEF Submit
  <2> QED
    BY <1>5, <2>1, <2>2, SMT
<1>7. s \in IocbRecord /\ s.req = n /\ s.conn = r.conn
  <2>1. PICK o \in {"READ", "WRITE"} : o = IF n \in Reads THEN "READ" ELSE "WRITE"
    OBVIOUS
  <2>2. r \in IocbRecord
    BY <1>1, <1>2 DEF Inv, TypeInv
  <2>3. s = [r EXCEPT !.req = n, !.op = o]
    BY <1>5, <2>1
  <2> QED
    BY <1>6, <2>2, <2>3 DEF IocbRecord
<1>8. iocb' \in [Iocb -> IocbRecord] /\ iocb'[i] = s /\ \A j \in Iocb : j # i => iocb'[j] = iocb[j]
  <2>1. Set(i, s)
    BY <1>1, <1>5 DEF Submit
  <2> QED
    BY <1>2, <1>7, <2>1, SetIocb
<1>9. \A j \in Iocb : iocb'[j].conn = iocb[j].conn
  BY <1>1, <1>7, <1>8
<1>10. UNCHANGED <<waiting, metaVer, link, net, rbds, cut, stuck, store, answers, fault>>
  BY DEF Submit
<1>11. TypeInv'
  BY <1>2, <1>4, <1>6, <1>8, <1>10 DEF Inv, TypeInv
<1>12. QueueInv'
  BY <1>2, <1>4, <1>10 DEF Inv, QueueInv, Once
<1>13. PlaceInv'
  BY <1>2, <1>3, <1>4, <1>9, <1>10 DEF Inv, PlaceInv, In, Flying
<1>14. FlightInv'
  <2>1. (\A c \in net : c.io \in Iocb) /\ \A d \in link.payload : d.io \in Iocb
    BY DEF Inv, TypeInv, Link, Request, Complete
  <2> QED
    BY <1>4, <1>9, <1>10, <2>1 DEF Inv, FlightInv, Flying
<1>15. RequestInv'
  <2>1. \A j \in Iocb : ~In(pool', j) /\ j # i => iocb'[j].req \in 1..reqs /\ answers[iocb'[j].req] = 0
    BY <1>2, <1>8 DEF Inv, RequestInv
  <2>2. \A j \in Iocb : ~In(pool', j) => iocb'[j].req \in 1..n /\ answers[iocb'[j].req] = 0
    <3>1. answers[n] = 0
      BY <1>5, <1>6, SMT DEF Inv, RequestInv
    <3>2. \A m \in 1..reqs : m \in 1..n
      BY <1>5, <1>6, SMT
    <3> QED
      BY <1>6, <1>7, <1>8, <2>1, <3>1, <3>2
  <2>3. \A j, k \in Iocb : ~In(pool', j) /\ ~In(pool', k) /\ iocb'[j].req = iocb'[k].req => j = k
    <3>1. \A j, k \in Iocb : j # i /\ k # i /\ ~In(pool', j) /\ ~In(pool', k) /\ iocb'[j].req = iocb'[k].req => j = k
      BY <1>2, <1>8 DEF Inv, RequestInv
    <3>2. \A j \in Iocb : j # i /\ ~In(pool', j) => iocb'[j].req # iocb'[i].req
      BY <1>5, <1>6, <1>7, <1>8, <2>1, SMT
    <3> QED
      BY <3>1, <3>2
  <2>4. answers[0] = 0 /\ \A m \in 1..MaxReq : answers[m] <= 1 /\ (m > n => answers[m] = 0)
    BY <1>5, <1>6, SMT DEF Inv, RequestInv
  <2> QED
    BY <1>6, <1>10, <2>2, <2>3, <2>4 DEF RequestInv
<1>16. BufferInv'
  <2>1. {j \in Iocb : Completing(events, j)}' = {j \in Iocb : Completing(events, j)}
    BY <1>4
  <2> QED
    BY <1>10, <2>1 DEF Inv, BufferInv
<1> QED
  BY <1>11, <1>12, <1>13, <1>14, <1>15, <1>16 DEF Inv

\* vol_proc takes an EVT_IO_REQ.
LEMMA TakeRequest ==
    ASSUME Inv, Handles("IO_REQ"), Post(<<>>), NEW i, i = Head(events).io
    PROVE  /\ i \in Iocb /\ events' \in Seq(Event) /\ EventsOK(events')
           /\ \A j : Queued(events', j) <=> Queued(events, j) /\ j # i
           /\ \A j : Completing(events', j) <=> Completing(events, j)
           /\ Queued(events, i) /\ ~Completing(events, i)
           /\ ~In(pool, i) /\ ~In(waiting, i) /\ ~Flying(i)
<1>1. events' = Tail(events) \o <<>> /\ "IO_REQ" # "IO_COMPLETE"
  BY DEF Post
<1>2. /\ i \in Iocb /\ events' \in Seq(Event) /\ EventsOK(events')
      /\ \A j : Queued(events', j) <=> Queued(events, j) /\ j # i
      /\ \A j : Completing(events', j) <=> Completing(events, j)
      /\ Queued(events, i) /\ ~Completing(events, i)
  BY <1>1, TakeEvent
<1>3. ~In(pool, i) /\ ~In(waiting, i) /\ ~Flying(i)
  BY <1>2 DEF Inv, PlaceInv
<1> QED
  BY <1>2, <1>3

\* The iocb of a request that is sent.
LEMMA SentIocb ==
    ASSUME NEW r \in IocbRecord
    PROVE  LET s == [r EXCEPT !.marked = FALSE, !.conn = "live", !.sent = "fresh"]
           IN  s \in IocbRecord /\ s.conn = "live" /\ s.req = r.req
  BY DEF IocbRecord

\* EVT_IO_REQ: the request is sent.
LEMMA SendIoInv ==
    ASSUME CardinalityFacts, Inv, SendIo
    PROVE  Inv'
<1>1. PICK i, r, s : i = Head(events).io /\ r = iocb[i]
                     /\ s = [r EXCEPT !.marked = FALSE, !.conn = "live", !.sent = "fresh"]
  OBVIOUS
<1>2. /\ i \in Iocb /\ events' \in Seq(Event) /\ EventsOK(events')
      /\ \A j : Queued(events', j) <=> Queued(events, j) /\ j # i
      /\ \A j : Completing(events', j) <=> Completing(events, j)
      /\ Queued(events, i) /\ ~Completing(events, i)
      /\ ~In(pool, i) /\ ~In(waiting, i) /\ ~Flying(i)
  BY <1>1, TakeRequest DEF SendIo
<1>3. r \in IocbRecord /\ s \in IocbRecord /\ s.conn = "live" /\ s.req = r.req
  <2>1. r \in IocbRecord
    BY <1>1, <1>2 DEF Inv, TypeInv
  <2> QED
    BY <1>1, <2>1, SentIocb
<1>4. iocb' \in [Iocb -> IocbRecord] /\ iocb'[i] = s /\ \A j \in Iocb : j # i => iocb'[j] = iocb[j]
  <2>1. Set(i, s)
    BY <1>1 DEF SendIo
  <2> QED
    BY <1>2, <1>3, <2>1, SetIocb
<1>5. PICK q : q = [io |-> i, op |-> r.op, ver |-> metaVer, stale |-> FALSE]
  OBVIOUS
<1>6. q \in Request /\ q.io = i /\ ~q.stale /\ net' = net \union {q}
  <2>1. q \in Request /\ q.io = i /\ ~q.stale
    BY <1>2, <1>3, <1>5 DEF Inv, TypeInv, Request, IocbRecord
  <2>2. net' = net \union {q}
    BY <1>1, <1>5 DEF SendIo
  <2> QED
    BY <2>1, <2>2
<1>7. /\ link' \in Link /\ link'.payload = link.payload /\ rbds' \in Int /\ cut' \in Cut
      /\ rbds' + link'.posted = rbds + link.posted /\ cut'.lost = cut.lost
      /\ cut'.pooled + cut'.posted + cut'.stuck = cut.pooled + cut.posted + cut.stuck
  <2>1. PICK l \in Link, c \in Cut : l = link /\ c = cut
    BY DEF Inv, TypeInv
  <2>2. rbds \in Int /\ l.posted \in Int
    BY LinkUpdates DEF Inv, TypeInv
  <2>3. CASE rbds' = rbds - 1 /\ link' = [l EXCEPT !.up = TRUE, !.posted = @ + 1] /\ cut' = c
    <3>1. link' \in Link /\ link'.payload = l.payload /\ link'.posted = l.posted + 1
      BY <2>3, LinkUpdates
    <3>2. rbds' \in Int /\ rbds' + link'.posted = rbds + l.posted
      BY <2>2, <2>3, <3>1, SMT
    <3> QED
      BY <2>1, <2>3, <3>1, <3>2
  <2>4. CASE /\ rbds' = rbds /\ link' = [l EXCEPT !.up = TRUE]
             /\ cut' = [c EXCEPT !.pooled = @ - 1, !.posted = @ + 1]
    <3>1. link' \in Link /\ link'.payload = l.payload /\ link'.posted = l.posted
      BY <2>4, LinkUpdates
    <3>2. /\ cut' \in Cut /\ cut'.lost = c.lost /\ cut'.stuck = c.stuck
          /\ cut'.pooled = c.pooled - 1 /\ cut'.posted = c.posted + 1
      BY <2>4, CutUpdates
    <3>3. c.pooled \in Int /\ c.posted \in Int /\ c.stuck \in Int
      BY CutUpdates
    <3>4. cut'.pooled + cut'.posted + cut'.stuck = c.pooled + c.posted + c.stuck
      BY <3>2, <3>3, SMT
    <3> QED
      BY <2>1, <2>2, <2>4, <3>1, <3>2, <3>4
  <2> QED
    BY <2>1, <2>3, <2>4 DEF SendIo
<1>8. UNCHANGED <<pool, waiting, metaVer, stuck, store, reqs, answers, fault>>
  BY DEF SendIo
<1>9. (\A d \in net : d.io \in Iocb /\ d.io # i) /\ \A d \in link.payload : d.io \in Iocb /\ d.io # i
  <2>1. (\A d \in net : d.io \in Iocb) /\ \A d \in link.payload : d.io \in Iocb
    BY DEF Inv, TypeInv, Link, Request, Complete
  <2> QED
    BY <1>2, <2>1 DEF Inv, FlightInv, Flying
<1>10. TypeInv'
  BY <1>2, <1>4, <1>6, <1>7, <1>8, SMTT(30) DEF Inv, TypeInv
<1>11. QueueInv'
  BY <1>2, <1>8 DEF Inv, QueueInv, Once
<1>12. PlaceInv'
  BY <1>2, <1>3, <1>4, <1>8, SMT DEF Inv, PlaceInv, In, Flying
<1>13. FlightInv'
  <2>1. \A d \in net' : ~d.stale /\ iocb'[d.io].conn = "live" /\ ~Completing(events', d.io)
    BY <1>2, <1>3, <1>4, <1>6, <1>9 DEF Inv, FlightInv
  <2>2. \A d, e \in net' : d.io = e.io => d = e
    BY <1>6, <1>9 DEF Inv, FlightInv
  <2>3. \A d \in link.payload : /\ iocb'[d.io].conn = "live" /\ ~Completing(events', d.io)
                                /\ \A e \in net' : e.io # d.io
    BY <1>2, <1>4, <1>6, <1>9 DEF Inv, FlightInv
  <2>4. \A j \in Iocb : Completing(events', j) => iocb'[j].conn # "none" \/ Queued(events', j)
    BY <1>2, <1>4 DEF Inv, FlightInv, Flying
  <2> QED
    BY <1>7, <1>8, <2>1, <2>2, <2>3, <2>4 DEF Inv, FlightInv, Flying
<1>14. RequestInv'
  BY <1>1, <1>3, <1>4, <1>8, RequestFrame DEF In
<1>15. BufferInv'
  <2>1. PICK n : n = Cardinality({j \in Iocb : Completing(events, j)})
    OBVIOUS
  <2>2. n \in Nat /\ Cardinality({j \in Iocb : Completing(events', j)}) = n
    BY <1>2, <2>1, SameCompletions
  <2> QED
    BY <1>7, <1>8, <2>1, <2>2 DEF Inv, BufferInv
<1> QED
  BY <1>10, <1>11, <1>12, <1>13, <1>14, <1>15 DEF Inv

\* The buffer for a reply is posted to a connection that was just closed.
LEMMA PostedClosed ==
    ASSUME CardinalityFacts, Inv, SendIoClosed
    PROVE  LET p == IF link.payload = {} THEN 0 ELSE 1 IN
           /\ rbds' \in Int /\ stuck' \in Int /\ cut' \in Cut
           /\ rbds' + stuck' + cut'.lost = rbds + link.posted + p + stuck + cut.lost
           /\ cut'.lost = cut'.pooled + cut'.posted + cut'.stuck
<1>1. PICK d, p, c : d = Flushed(cut) /\ p = (IF link.payload = {} THEN 0 ELSE 1) /\ c = cut
  OBVIOUS
<1>2. /\ d \in Cut /\ d.lost = c.lost + p /\ d.posted = 0 /\ d.stuck = c.stuck
      /\ d.pooled = c.pooled + c.posted + p
  BY <1>1, FlushedFacts
<1>3. /\ rbds \in Int /\ stuck \in Int /\ link.posted \in Int /\ p \in Int
      /\ c.lost \in Int /\ c.pooled \in Int /\ c.posted \in Int /\ c.stuck \in Int
  <2>1. p \in Int
    BY <1>1, SMT
  <2> QED
    BY <1>1, <2>1, LinkUpdates, CutUpdates DEF Inv, TypeInv
<1>4. c.lost = c.pooled + c.posted + c.stuck
  BY <1>1 DEF Inv, BufferInv
<1>5. CASE rbds' = rbds + link.posted - 1 /\ stuck' = stuck + 1 /\ cut' = d
  <2>1. rbds' \in Int /\ stuck' \in Int
    BY <1>3, <1>5, SMT
  <2>2. d.lost = d.pooled + d.posted + d.stuck
    BY <1>2, <1>3, <1>4, SMT
  <2>3. rbds' + stuck' + d.lost = rbds + link.posted + p + stuck + c.lost
    <3>1. PICK a, b, e, g \in Int : a = rbds /\ b = link.posted /\ e = stuck /\ g = c.lost
      BY <1>3
    <3>2. (a + b - 1) + (e + 1) + (g + p) = a + b + p + e + g
      BY <1>3, SMT
    <3> QED
      BY <1>2, <1>5, <3>1, <3>2
  <2> QED
    BY <1>1, <1>2, <1>5, <2>1, <2>2, <2>3
<1>6. CASE /\ rbds' = rbds + link.posted /\ stuck' = stuck
           /\ cut' = [d EXCEPT !.pooled = @ - 1, !.stuck = @ + 1]
  <2>1. rbds' \in Int /\ stuck' \in Int
    BY <1>3, <1>6, SMT
  <2>2. /\ cut' \in Cut /\ cut'.lost = d.lost /\ cut'.posted = d.posted
        /\ cut'.pooled = d.pooled - 1 /\ cut'.stuck = d.stuck + 1
    BY <1>2, <1>6, CutUpdates
  <2>3. cut'.lost = cut'.pooled + cut'.posted + cut'.stuck
    BY <1>2, <1>3, <1>4, <2>2, SMT
  <2>4. rbds' + stuck' + cut'.lost = rbds + link.posted + p + stuck + c.lost
    BY <1>2, <1>3, <1>6, <2>2, SMT
  <2> QED
    BY <1>1, <2>1, <2>2, <2>3, <2>4
<1> QED
  BY <1>1, <1>5, <1>6 DEF SendIoClosed

\* EVT_IO_REQ, the connection closed before the buffers are posted.
LEMMA SendIoClosedInv ==
    ASSUME CardinalityFacts, Inv, SendIoClosed
    PROVE  Inv'
<1>1. PICK i, r, s : i = Head(events).io /\ r = iocb[i]
                     /\ s = [r EXCEPT !.marked = FALSE, !.conn = "live", !.sent = "fresh"]
  OBVIOUS
<1>2. /\ i \in Iocb /\ events' \in Seq(Event) /\ EventsOK(events')
      /\ \A j : Queued(events', j) <=> Queued(events, j) /\ j # i
      /\ \A j : Completing(events', j) <=> Completing(events, j)
      /\ Queued(events, i) /\ ~Completing(events, i)
      /\ ~In(pool, i) /\ ~In(waiting, i) /\ ~Flying(i)
  BY <1>1, TakeRequest DEF SendIoClosed
<1>3. r \in IocbRecord /\ s \in IocbRecord /\ s.conn = "live" /\ s.req = r.req
  <2>1. r \in IocbRecord
    BY <1>1, <1>2 DEF Inv, TypeInv
  <2> QED
    BY <1>1, <2>1, SentIocb
<1>4. PICK f : f = [iocb EXCEPT ![i].marked = FALSE, ![i].conn = "live", ![i].sent = "fresh"]
  OBVIOUS
<1>5. f = [iocb EXCEPT ![i] = s]
  BY <1>1, <1>2, <1>4 DEF Inv, TypeInv
<1>6. f \in [Iocb -> IocbRecord] /\ f[i] = s /\ \A j \in Iocb : j # i => f[j] = iocb[j]
  BY <1>2, <1>3, <1>5 DEF Inv, TypeInv
<1>7. /\ iocb' \in [Iocb -> IocbRecord] /\ iocb'[i].conn # "none"
      /\ \A j \in Iocb : iocb'[j].req = iocb[j].req
      /\ \A j \in Iocb : j # i => (iocb'[j].conn = "none" <=> iocb[j].conn = "none")
  <2>1. iocb' = Dead(f)
    BY <1>1, <1>4 DEF SendIoClosed
  <2>2. /\ iocb' \in [Iocb -> IocbRecord]
        /\ \A j \in Iocb : (iocb'[j].conn = "none" <=> f[j].conn = "none") /\ iocb'[j].req = f[j].req
    BY <1>6, <2>1, DeadFacts
  <2>3. f[i].conn # "none" /\ f[i].req = iocb[i].req
    BY <1>1, <1>3, <1>6
  <2>4. \A j \in Iocb : f[j].req = iocb[j].req /\ (j # i => f[j].conn = iocb[j].conn)
    BY <1>6, <2>3
  <2> QED
    BY <1>2, <2>2, <2>3, <2>4
<1>8. /\ UNCHANGED <<pool, waiting, metaVer, store, reqs, answers, fault>>
      /\ link' = ClosedLink /\ net' = {}
  BY DEF SendIoClosed
<1>9. fault' # "stale_reply"
  BY <1>8 DEF Inv, FlightInv
<1>10. /\ rbds \in Int /\ stuck \in Int /\ link.posted \in Int
       /\ link' \in Link /\ link'.posted = 0 /\ link'.payload = {}
  BY <1>8, LinkUpdates DEF Inv, TypeInv
<1>11. TypeInv'
  BY <1>2, <1>7, <1>8, <1>10, PostedClosed DEF Inv, TypeInv
<1>12. QueueInv'
  BY <1>2, <1>8 DEF Inv, QueueInv, Once
<1>13. PlaceInv'
  BY <1>2, <1>7, <1>8, SMT DEF Inv, PlaceInv, In, Flying
<1>14. FlightInv'
  <2>1. \A j \in Iocb : Completing(events', j) => Flying(j)' \/ Queued(events', j)
    BY <1>2, <1>7 DEF Inv, FlightInv, Flying
  <2> QED
    BY <1>8, <1>9, <2>1, ClosedFlight
<1>15. RequestInv'
  BY <1>7, <1>8, RequestFrame DEF In
<1>16. BufferInv'
  <2>1. PICK n : n = Cardinality({j \in Iocb : Completing(events, j)})
    OBVIOUS
  <2>2. n \in Nat /\ Cardinality({j \in Iocb : Completing(events', j)}) = n
    BY <1>2, <2>1, SameCompletions
  <2>3. PICK p \in Int : p = IF link.payload = {} THEN 0 ELSE 1
    BY SMT
  <2>4. Cardinality(Iocb) = rbds + link.posted + p + stuck + n + cut.lost
    BY <2>1, <2>3 DEF Inv, BufferInv
  <2>5. /\ rbds' \in Int /\ stuck' \in Int /\ cut'.lost \in Int /\ cut.lost \in Int
        /\ rbds' + stuck' + cut'.lost = rbds + link.posted + p + stuck + cut.lost
        /\ cut'.lost = cut'.pooled + cut'.posted + cut'.stuck
    BY <2>3, PostedClosed, CutUpdates DEF Inv, TypeInv
  <2>6. Cardinality(Iocb) = rbds' + 0 + 0 + stuck' + n + cut'.lost
    BY <1>10, <2>2, <2>4, <2>5, SMTT(30)
  <2> QED
    BY <1>10, <2>1, <2>2, <2>5, <2>6 DEF BufferInv
<1> QED
  BY <1>11, <1>12, <1>13, <1>14, <1>15, <1>16 DEF Inv

\* An EVT_IO_REQ is answered without having been sent.
LEMMA FailRequest ==
    ASSUME Inv, Handles("IO_REQ"), Post(<<>>), NEW i, i = Head(events).io,
           Answer(i), FreeIocb(i, iocb[i]), link' \in Link,
           link'.posted = link.posted, link'.payload = link.payload,
           UNCHANGED <<waiting, metaVer, net, rbds, cut, stuck, store, reqs, fault>>
    PROVE  Inv'
<1>1. /\ i \in Iocb /\ events' \in Seq(Event) /\ EventsOK(events')
      /\ \A j : Queued(events', j) <=> Queued(events, j) /\ j # i
      /\ \A j : Completing(events', j) <=> Completing(events, j)
      /\ Queued(events, i) /\ ~Completing(events, i)
      /\ ~In(pool, i) /\ ~In(waiting, i) /\ ~Flying(i)
  BY TakeRequest
<1>2. PICK r, s : r = iocb[i] /\ s = [r EXCEPT !.req = 0, !.op = "WRITE"]
  OBVIOUS
<1>3. r \in IocbRecord /\ s \in IocbRecord /\ s.conn = r.conn
  <2>1. r \in IocbRecord
    BY <1>1, <1>2 DEF Inv, TypeInv
  <2>2. 0 \in 0..MaxReq
    BY ClientVolumeAssumption, SMT
  <2> QED
    BY <1>2, <2>1, <2>2 DEF IocbRecord
<1>4. iocb' \in [Iocb -> IocbRecord] /\ iocb'[i] = s /\ \A j \in Iocb : j # i => iocb'[j] = iocb[j]
  <2>1. Set(i, s)
    BY <1>2 DEF FreeIocb
  <2> QED
    BY <1>1, <1>3, <2>1, SetIocb
<1>5. \A j \in Iocb : iocb'[j].conn = iocb[j].conn
  BY <1>2, <1>3, <1>4
<1>6. pool' \in Seq(Iocb) /\ Once(pool') /\ \A j : In(pool', j) <=> In(pool, j) \/ j = i
  BY <1>1, PushIocb DEF FreeIocb, Inv, TypeInv, QueueInv
<1>7. RequestInv' /\ answers' \in [0..MaxReq -> Nat]
  BY <1>1, <1>4, <1>6, AnswerRequest
<1>8. TypeInv'
  BY <1>1, <1>4, <1>6, <1>7 DEF Inv, TypeInv
<1>9. QueueInv'
  BY <1>1, <1>6 DEF Inv, QueueInv, Once
<1>10. PlaceInv'
  <2> SUFFICES ASSUME NEW j \in Iocb
               PROVE  /\ In(pool', j) => ~Queued(events', j) /\ ~In(waiting', j) /\ ~Flying(j)'
                      /\ Queued(events', j) => ~In(waiting', j) /\ ~Flying(j)'
                      /\ In(waiting', j) => ~Flying(j)'
                      /\ In(pool', j) \/ Queued(events', j) \/ In(waiting', j) \/ Flying(j)'
    BY DEF PlaceInv, In, Queued
  <2>1. In(waiting', j) = In(waiting, j) /\ Flying(j)' = Flying(j)
    BY <1>5 DEF Flying
  <2>2. CASE j = i
    BY <1>1, <1>6, <2>1, <2>2
  <2>3. CASE j # i
    BY <1>1, <1>6, <2>1, <2>3 DEF Inv, PlaceInv
  <2> QED
    BY <2>2, <2>3
<1>11. FlightInv'
  <2>1. (\A d \in net : d.io \in Iocb) /\ \A d \in link.payload : d.io \in Iocb
    BY DEF Inv, TypeInv, Link, Request, Complete
  <2> QED
    BY <1>1, <1>5, <2>1 DEF Inv, FlightInv, Flying
<1>12. BufferInv'
  <2>1. {j \in Iocb : Completing(events, j)}' = {j \in Iocb : Completing(events, j)}
    BY <1>1
  <2> QED
    BY <2>1 DEF Inv, BufferInv
<1> QED
  BY <1>7, <1>8, <1>9, <1>10, <1>11, <1>12 DEF Inv

\* EVT_IO_REQ without a reply buffer.
LEMMA NoReplyBufferInv ==
    ASSUME Inv, NoReplyBuffer
    PROVE  Inv'
<1>1. PICK i : i = Head(events).io
  OBVIOUS
<1>2. link' \in Link /\ link'.posted = link.posted /\ link'.payload = link.payload
  BY LinkUpdates DEF Inv, TypeInv, NoReplyBuffer
<1>3. Handles("IO_REQ") /\ Post(<<>>) /\ Answer(i) /\ FreeIocb(i, iocb[i])
  BY <1>1 DEF NoReplyBuffer
<1>4. UNCHANGED <<waiting, metaVer, net, rbds, cut, stuck, store, reqs, fault>>
  BY DEF NoReplyBuffer
<1> QED
  BY <1>1, <1>2, <1>3, <1>4, FailRequest

\* EVT_IO_REQ without a connection, overdue.
LEMMA FailOverdueInv ==
    ASSUME Inv, FailOverdue
    PROVE  Inv'
<1>1. PICK i : i = Head(events).io
  OBVIOUS
<1>2. Handles("IO_REQ") /\ Post(<<>>) /\ Answer(i) /\ FreeIocb(i, iocb[i])
  BY <1>1 DEF FailOverdue, NoConnection
<1>3. UNCHANGED <<waiting, metaVer, link, net, rbds, cut, stuck, store, reqs, fault>>
  BY DEF FailOverdue, NoConnection
<1>4. link' \in Link /\ link'.posted = link.posted /\ link'.payload = link.payload
  BY <1>3 DEF Inv, TypeInv
<1> QED
  BY <1>1, <1>2, <1>3, <1>4, FailRequest

\* EVT_IO_REQ without a connection: the iocb waits for the reopening.
LEMMA WaitReopenInv ==
    ASSUME Inv, WaitReopen
    PROVE  Inv'
<1>1. PICK i : i = Head(events).io
  OBVIOUS
<1>2. /\ i \in Iocb /\ events' \in Seq(Event) /\ EventsOK(events')
      /\ \A j : Queued(events', j) <=> Queued(events, j) /\ j # i
      /\ \A j : Completing(events', j) <=> Completing(events, j)
      /\ Queued(events, i) /\ ~Completing(events, i)
      /\ ~In(pool, i) /\ ~In(waiting, i) /\ ~Flying(i)
  BY <1>1, TakeRequest DEF WaitReopen, NoConnection
<1>3. waiting' \in Seq(Iocb) /\ Once(waiting') /\ \A j : In(waiting', j) <=> In(waiting, j) \/ j = i
  BY <1>1, <1>2, PutIocb DEF WaitReopen, Inv, TypeInv, QueueInv
<1>4. UNCHANGED <<pool, iocb, metaVer, link, net, rbds, cut, stuck, store, reqs, answers, fault>>
  BY DEF WaitReopen, NoConnection
<1>5. TypeInv'
  BY <1>2, <1>3, <1>4 DEF Inv, TypeInv
<1>6. QueueInv'
  BY <1>2, <1>3, <1>4 DEF Inv, QueueInv, Once
<1>7. PlaceInv'
  BY <1>2, <1>3, <1>4 DEF Inv, PlaceInv, In, Flying
<1>8. FlightInv'
  BY <1>2, <1>4 DEF Inv, FlightInv, Flying
<1>9. RequestInv'
  BY <1>4, RequestFrame DEF In
<1>10. BufferInv'
  <2>1. {j \in Iocb : Completing(events, j)}' = {j \in Iocb : Completing(events, j)}
    BY <1>2
  <2> QED
    BY <1>4, <2>1 DEF Inv, BufferInv
<1> QED
  BY <1>5, <1>6, <1>7, <1>8, <1>9, <1>10 DEF Inv

\* resend_io overtakes no request that can still be answered.
LEMMA NoneOvertaken ==
    ASSUME Inv, NEW S, \A i \in S : i \in Iocb => iocb[i].conn # "live"
    PROVE  Overtaken(S) = net
<1>1. \A r \in net : r \in Request /\ r.io \in Iocb /\ r.stale = FALSE /\ r.io \notin S
  <2>1. \A r \in net : r \in Request /\ r.io \in Iocb /\ r.stale \in BOOLEAN
    BY DEF Inv, TypeInv, Request
  <2>2. \A r \in net : ~r.stale /\ iocb[r.io].conn = "live"
    BY DEF Inv, FlightInv
  <2> QED
    BY <2>1, <2>2
<1>2. \A r \in net : [r EXCEPT !.stale = @ \/ r.io \in S] = r
  <2> SUFFICES ASSUME NEW r \in net
               PROVE  [r EXCEPT !.stale = @ \/ r.io \in S] = r
    OBVIOUS
  <2>1. r \in Request /\ r.stale = FALSE /\ r.io \notin S
    BY <1>1
  <2>2. (r.stale \/ r.io \in S) = FALSE
    BY <2>1
  <2>3. [r EXCEPT !.stale = FALSE] = r
    BY <2>1 DEF Request
  <2> QED
    BY <2>2, <2>3
<1> DEFINE over(r) == [r EXCEPT !.stale = @ \/ r.io \in S]
<1>3. Overtaken(S) = {over(r) : r \in net}
  BY DEF Overtaken
<1>4. \A r \in net : over(r) = r
  BY <1>2
<1> HIDE DEF over
<1> QED
  BY <1>3, <1>4

\* EVT_REOPEN_VOLUME: reopen_volume queues the waiting iocbs again.
LEMMA ReopenVolumeInv ==
    ASSUME Inv, ReopenVolume
    PROVE  Inv'
<1>1. PICK t : t = Tail(events)
  OBVIOUS
<1>2. /\ Handles("REOPEN") /\ "REOPEN" # "IO_REQ" /\ "REOPEN" # "IO_COMPLETE"
      /\ UNCHANGED <<pool, iocb, link, rbds, cut, stuck, store, reqs, answers, fault>>
  BY DEF ReopenVolume
<1>3. /\ t \in Seq(Event) /\ EventsOK(t)
      /\ \A i : Queued(t, i) <=> Queued(events, i)
      /\ \A i : Completing(t, i) <=> Completing(events, i)
  BY <1>1, <1>2, TakeEvent
<1>4. CASE Post(<<>>) /\ UNCHANGED <<metaVer, waiting, net>>
  <2>1. /\ events' \in Seq(Event) /\ EventsOK(events')
        /\ \A i : Queued(events', i) <=> Queued(events, i)
        /\ \A i : Completing(events', i) <=> Completing(events, i)
    BY <1>2, <1>4, TakeOther
  <2> QED
    BY <1>2, <1>4, <2>1, NothingMoves DEF Inv, TypeInv, FlightInv
<1>5. CASE /\ events' = [k \in 1..Len(t) |-> IF t[k].type = "REOPEN" THEN [t[k] EXCEPT !.fresh = FALSE]
                                                                 ELSE t[k]]
                        \o [k \in 1..Len(waiting) |-> IoReq(waiting[k])]
           /\ metaVer' = store.conductor /\ waiting' = <<>> /\ net' = Overtaken(Range(waiting))
  <2>1. PICK m : m = [k \in 1..Len(t) |-> IF t[k].type = "REOPEN" THEN [t[k] EXCEPT !.fresh = FALSE]
                                                             ELSE t[k]]
    OBVIOUS
  <2>2. DOMAIN t = 1..Len(t) /\ Len(t) \in Nat /\ \A k \in 1..Len(t) : t[k] \in Event
    BY <1>3, LengthFacts, ElementFacts
  <2>3. \A e \in Event : e.type = "REOPEN" =>
            [e EXCEPT !.fresh = FALSE] \in Event /\ [e EXCEPT !.fresh = FALSE].type = "REOPEN"
    <3> SUFFICES ASSUME NEW e \in Event, e.type = "REOPEN"
                 PROVE  [e EXCEPT !.fresh = FALSE] \in Event /\ [e EXCEPT !.fresh = FALSE].type = "REOPEN"
      OBVIOUS
    <3>1. e \in [type : {"REOPEN"}, fresh : BOOLEAN]
      BY DEF Event, Complete
    <3>2. [e EXCEPT !.fresh = FALSE] \in [type : {"REOPEN"}, fresh : BOOLEAN]
      BY <3>1
    <3> QED
      BY <3>2 DEF Event
  <2>4. \A k \in 1..Len(t) : /\ m[k] \in Event /\ m[k].type = t[k].type
                             /\ t[k].type # "REOPEN" => m[k] = t[k]
    BY <2>1, <2>2, <2>3
  <2>5. m \in [1..Len(t) -> Event] /\ DOMAIN m = 1..Len(t)
    BY <2>1, <2>4
  <2>6. m \in Seq(Event)
    BY <2>2, <2>5, FunctionSeq
  <2>7. /\ EventsOK(m) /\ \A i : Queued(m, i) <=> Queued(events, i)
        /\ \A i : Completing(m, i) <=> Completing(events, i)
    BY <1>3, <2>2, <2>4, <2>5, <2>6, PassEvents
  <2>8. waiting \in Seq(Iocb) /\ Once(waiting) /\ \A i \in Iocb : In(waiting, i) => ~Queued(m, i)
    BY <2>7 DEF Inv, TypeInv, QueueInv, PlaceInv
  <2>9. /\ events' \in Seq(Event) /\ EventsOK(events')
        /\ \A i : Queued(events', i) <=> Queued(events, i) \/ In(waiting, i)
        /\ \A i : Completing(events', i) <=> Completing(events, i)
    <3>1. events' = m \o [k \in 1..Len(waiting) |-> IoReq(waiting[k])]
      BY <1>5, <2>1
    <3>2. PICK u : u = m \o [k \in 1..Len(waiting) |-> IoReq(waiting[k])]
      OBVIOUS
    <3>3. /\ u \in Seq(Event) /\ EventsOK(u)
          /\ \A i : Queued(u, i) <=> Queued(m, i) \/ In(waiting, i)
          /\ \A i : Completing(u, i) <=> Completing(m, i)
      <4>1. EventsOK(m) /\ m \in Seq(Event)
        BY <2>6, <2>7
      <4> QED
        BY <2>8, <3>2, <4>1, PushRequests, SMTT(30)
    <3>4. events' = u
      BY <3>1, <3>2
    <3> QED
      BY <2>7, <3>3, <3>4
  <2>10. net' = net
    <3>1. \A i \in Range(waiting) : i \in Iocb => iocb[i].conn # "live"
      BY DEF Range, In, Inv, PlaceInv, Flying
    <3> QED
      BY <1>5, <3>1, NoneOvertaken
  <2>11. waiting' \in Seq(Iocb) /\ Once(waiting') /\ \A i : ~In(waiting', i)
    BY <1>5, SMT DEF Once, In
  <2>12. TypeInv'
    BY <1>2, <1>5, <2>9, <2>10, <2>11 DEF Inv, TypeInv
  <2>13. QueueInv'
    BY <1>2, <2>9, <2>11 DEF Inv, QueueInv, Once
  <2>14. PlaceInv'
    BY <1>2, <2>9, <2>11 DEF Inv, PlaceInv, In, Flying
  <2>15. FlightInv'
    BY <1>2, <2>9, <2>10 DEF Inv, FlightInv, Flying
  <2>16. RequestInv'
    BY <1>2, RequestFrame DEF In
  <2>17. BufferInv'
    <3>1. {i \in Iocb : Completing(events, i)}' = {i \in Iocb : Completing(events, i)}
      BY <2>9
    <3> QED
      BY <1>2, <3>1 DEF Inv, BufferInv
  <2> QED
    BY <2>12, <2>13, <2>14, <2>15, <2>16, <2>17 DEF Inv
<1> QED
  BY <1>1, <1>4, <1>5 DEF ReopenVolume

\* A completion is posted.
LEMMA MoreCompletions ==
    ASSUME CardinalityFacts, NEW q, NEW p, NEW i \in Iocb, ~Completing(q, i),
           \A j \in Iocb : Completing(p, j) <=> Completing(q, j) \/ j = i
    PROVE  LET n == Cardinality({j \in Iocb : Completing(q, j)}) IN
           n \in Nat /\ Cardinality({j \in Iocb : Completing(p, j)}) = n + 1
<1>1. PICK S : S = {j \in Iocb : Completing(q, j)}
  OBVIOUS
<1>2. S \in SUBSET Iocb /\ i \notin S /\ IsFiniteSet(Iocb)
  BY <1>1, ClientVolumeAssumption
<1>3. {j \in Iocb : Completing(p, j)} = S \union {i}
  BY <1>1
<1>4. IsFiniteSet(S)
  BY <1>2 DEF CardinalityFacts
<1>5. Cardinality(S) \in Nat /\ Cardinality(S \union {i}) = Cardinality(S) + 1
  BY <1>2, <1>4 DEF CardinalityFacts
<1> QED
  BY <1>1, <1>3, <1>5

\* A completion is taken.
LEMMA FewerCompletions ==
    ASSUME CardinalityFacts, NEW q, NEW p, NEW i \in Iocb, Completing(q, i),
           \A j \in Iocb : Completing(p, j) <=> Completing(q, j) /\ j # i
    PROVE  LET n == Cardinality({j \in Iocb : Completing(q, j)}) IN
           n \in Nat /\ Cardinality({j \in Iocb : Completing(p, j)}) = n - 1
<1>1. PICK S : S = {j \in Iocb : Completing(q, j)}
  OBVIOUS
<1>2. S \in SUBSET Iocb /\ i \in S /\ IsFiniteSet(Iocb)
  BY <1>1, ClientVolumeAssumption
<1>3. {j \in Iocb : Completing(p, j)} = S \ {i}
  BY <1>1
<1>4. IsFiniteSet(S)
  BY <1>2 DEF CardinalityFacts
<1>5. Cardinality(S) \in Nat /\ Cardinality(S \ {i}) = Cardinality(S) - 1
  BY <1>2, <1>4 DEF CardinalityFacts
<1> QED
  BY <1>1, <1>3, <1>5

\* A completion of an iocb in flight is posted.
LEMMA PushCompletion ==
    ASSUME Inv, NEW d \in Complete, iocb[d.io].conn = "live", ~Completing(events, d.io),
           events' = Append(events, d)
    PROVE  /\ events' \in Seq(Event) /\ EventsOK(events')
           /\ \A j : Queued(events', j) <=> Queued(events, j)
           /\ \A j : Completing(events', j) <=> Completing(events, j) \/ j = d.io
<1>1. d \in Event /\ d.type = "IO_COMPLETE" /\ d.io \in Iocb /\ d.type # "IO_REQ"
  BY DEF Complete, Event
<1>2. ~Queued(events, d.io)
  BY <1>1 DEF Inv, PlaceInv, Flying
<1>3. events \in Seq(Event) /\ EventsOK(events)
  BY DEF Inv, TypeInv, QueueInv
<1> QED
  BY <1>1, <1>2, <1>3, PushEvent

\* A reply arrives, or the payload of a READ: the request or the payload is
\* no longer under way, and another completion may be.
LEMMA Arrival ==
    ASSUME Inv, events' \in Seq(Event), EventsOK(events'),
           \A j : Queued(events', j) <=> Queued(events, j),
           \A j \in Iocb : Completing(events', j) => Completing(events, j) \/ iocb[j].conn = "live",
           net' \subseteq net, link' \in Link, \A c, d \in link'.payload : c = d,
           \A c \in net' : ~Completing(events', c.io),
           \A d \in link'.payload : /\ iocb[d.io].conn = "live" /\ ~Completing(events', d.io)
                                    /\ \A c \in net' : c.io # d.io,
           UNCHANGED <<pool, iocb, waiting, metaVer, rbds, stuck, store, reqs, answers, fault>>,
           cut' \in Cut
    PROVE  TypeInv' /\ QueueInv' /\ PlaceInv' /\ FlightInv' /\ RequestInv'
<1>1. TypeInv'
  BY DEF Inv, TypeInv
<1>2. QueueInv'
  BY DEF Inv, QueueInv, Once
<1>3. PlaceInv'
  BY DEF Inv, PlaceInv, In, Flying
<1>4. FlightInv'
  BY DEF Inv, FlightInv, Flying
<1>5. RequestInv'
  BY RequestFrame DEF In
<1> QED
  BY <1>1, <1>2, <1>3, <1>4, <1>5

\* The payload of a READ arrives.
LEMMA PayloadInv ==
    ASSUME CardinalityFacts, Inv, Payload
    PROVE  Inv'
<1>1. PICK d \in link.payload : events' = Append(events, d)
  BY DEF Payload
<1>2. d \in Complete /\ d.io \in Iocb
  BY DEF Inv, TypeInv, Link, Complete
<1>3. iocb[d.io].conn = "live" /\ ~Completing(events, d.io) /\ \A c \in net : c.io # d.io
  BY DEF Inv, FlightInv
<1>4. /\ events' \in Seq(Event) /\ EventsOK(events')
      /\ \A j : Queued(events', j) <=> Queued(events, j)
      /\ \A j : Completing(events', j) <=> Completing(events, j) \/ j = d.io
  BY <1>1, <1>2, <1>3, PushCompletion
<1>5. link' \in Link /\ link'.posted = link.posted /\ link'.payload = {} /\ link.posted \in Int
  BY LinkUpdates DEF Inv, TypeInv, Payload
<1>6. UNCHANGED <<pool, iocb, waiting, metaVer, net, rbds, cut, stuck, store, reqs, answers, fault>>
  BY DEF Payload
<1>7. TypeInv' /\ QueueInv' /\ PlaceInv' /\ FlightInv' /\ RequestInv'
  <2>1. \A c \in net' : ~Completing(events', c.io)
    BY <1>3, <1>4, <1>6 DEF Inv, FlightInv
  <2>2. \A j \in Iocb : Completing(events', j) => Completing(events, j) \/ iocb[j].conn = "live"
    BY <1>3, <1>4
  <2>3. (\A b, c \in link'.payload : b = c) /\ net' \subseteq net
        /\ \A c \in link'.payload : /\ iocb[c.io].conn = "live" /\ ~Completing(events', c.io)
                                    /\ \A b \in net' : b.io # c.io
    BY <1>5, <1>6
  <2>4. cut' \in Cut
    BY <1>6 DEF Inv, TypeInv
  <2> QED
    BY <1>4, <1>5, <1>6, <2>1, <2>2, <2>3, <2>4, Arrival
<1>8. BufferInv'
  <2>1. PICK n : n = Cardinality({j \in Iocb : Completing(events, j)})
    OBVIOUS
  <2>2. n \in Nat /\ Cardinality({j \in Iocb : Completing(events', j)}) = n + 1
    BY <1>2, <1>3, <1>4, <2>1, MoreCompletions
  <2>3. rbds' + link'.posted + 0 + stuck' + (n + 1) = rbds + link.posted + 1 + stuck + n
    <3>1. rbds \in Int /\ stuck \in Int
      BY DEF Inv, TypeInv
    <3> QED
      BY <1>5, <1>6, <2>2, <3>1, SMTT(30)
  <2>4. link.payload # {}
    OBVIOUS
  <2> QED
    BY <1>5, <1>6, <2>1, <2>2, <2>3, <2>4, BufferStep
<1> QED
  BY <1>7, <1>8 DEF Inv

\* client_on_tcp_network_done for a reply.
LEMMA ReplyInv ==
    ASSUME CardinalityFacts, Inv, NEW r \in net, Reply(r)
    PROVE  Inv'
<1>1. r \in Request /\ r.io \in Iocb /\ r.op \in {"READ", "WRITE"} /\ store.node \in Nat
  BY DEF Inv, TypeInv, Request
<1>2. /\ ~r.stale /\ iocb[r.io].conn = "live" /\ ~Completing(events, r.io)
      /\ \A c \in net : c.io = r.io => c = r
  BY DEF Inv, FlightInv
<1>3. PICK d : d = [type |-> "IO_COMPLETE", io |-> r.io, reopen |-> (r.ver # store.node), ver |-> store.node]
  OBVIOUS
<1>4. d \in Complete /\ d.io = r.io
  BY <1>1, <1>3 DEF Complete
<1>5. /\ net' = net \ {r} /\ link.payload = {}
      /\ link' = [link EXCEPT !.posted = @ - 1, !.payload = IF r.op = "READ" THEN {d} ELSE {}]
      /\ events' = IF r.op = "READ" THEN events ELSE Append(events, d)
      /\ UNCHANGED <<pool, iocb, waiting, metaVer, rbds, cut, stuck, store, reqs, answers, fault>>
  BY <1>2, <1>3 DEF Reply
<1>6. /\ link' \in Link /\ link'.posted = link.posted - 1 /\ link.posted \in Int
      /\ link'.payload = IF r.op = "READ" THEN {d} ELSE {}
  <2>1. PICK l \in Link : l = link
    BY DEF Inv, TypeInv
  <2>2. PICK n, s : n = l.posted - 1 /\ s = IF r.op = "READ" THEN {d} ELSE {}
    OBVIOUS
  <2>3. l.posted \in Int /\ n \in Int /\ s \in SUBSET Complete
    BY <1>4, <2>2, SMTT(30) DEF Link
  <2>4. /\ [l EXCEPT !.posted = n, !.payload = s] \in Link
        /\ [l EXCEPT !.posted = n, !.payload = s].posted = n /\ [l EXCEPT !.posted = n, !.payload = s].payload = s
    BY <2>3 DEF Link
  <2>5. link' = [l EXCEPT !.posted = n, !.payload = s]
    BY <1>5, <2>1, <2>2
  <2> QED
    BY <2>1, <2>2, <2>3, <2>4, <2>5
<1>7. rbds \in Int /\ stuck \in Int /\ events \in Seq(Event) /\ EventsOK(events) /\ cut' \in Cut
  BY <1>5 DEF Inv, TypeInv, QueueInv
<1>8. \A c \in net' : c \in net /\ c.io # r.io /\ ~Completing(events, c.io)
  BY <1>2, <1>5 DEF Inv, FlightInv
<1>9. CASE r.op = "READ"
  <2>1. events' = events /\ link'.payload = {d} /\ link.payload = {} /\ net' \subseteq net
    BY <1>5, <1>6, <1>9
  <2>2. TypeInv' /\ QueueInv' /\ PlaceInv' /\ FlightInv' /\ RequestInv'
    <3>1. /\ \A b, c \in link'.payload : b = c
          /\ \A c \in link'.payload : /\ iocb[c.io].conn = "live" /\ ~Completing(events', c.io)
                                      /\ \A b \in net' : b.io # c.io
      BY <1>2, <1>4, <1>8, <2>1
    <3> QED
      BY <1>5, <1>6, <1>7, <1>8, <2>1, <3>1, Arrival
  <2>3. BufferInv'
    <3>1. PICK n : n = Cardinality({j \in Iocb : Completing(events, j)})
      OBVIOUS
    <3>2. n \in Nat /\ Cardinality({j \in Iocb : Completing(events', j)}) = n
      BY <2>1, <3>1, SameCompletions
    <3>3. rbds' + link'.posted + 1 + stuck' + n = rbds + link.posted + 0 + stuck + n
      BY <1>5, <1>6, <1>7, <3>2, SMTT(30)
    <3>4. link'.payload # {} /\ UNCHANGED cut
      BY <1>5, <2>1
    <3> QED
      BY <2>1, <3>1, <3>2, <3>3, <3>4, BufferStep
  <2> QED
    BY <2>2, <2>3 DEF Inv
<1>10. CASE r.op # "READ"
  <2>1. events' = Append(events, d) /\ link'.payload = {} /\ link.payload = {} /\ net' \subseteq net
    BY <1>5, <1>6, <1>10
  <2>2. /\ events' \in Seq(Event) /\ EventsOK(events')
        /\ \A j : Queued(events', j) <=> Queued(events, j)
        /\ \A j : Completing(events', j) <=> Completing(events, j) \/ j = r.io
    BY <1>2, <1>4, <2>1, PushCompletion
  <2>3. TypeInv' /\ QueueInv' /\ PlaceInv' /\ FlightInv' /\ RequestInv'
    <3>1. \A c \in net' : ~Completing(events', c.io)
      BY <1>8, <2>2
    <3>2. \A j \in Iocb : Completing(events', j) => Completing(events, j) \/ iocb[j].conn = "live"
      BY <1>2, <2>2
    <3> QED
      BY <1>5, <1>6, <1>7, <2>1, <2>2, <3>1, <3>2, Arrival
  <2>4. BufferInv'
    <3>1. PICK n : n = Cardinality({j \in Iocb : Completing(events, j)})
      OBVIOUS
    <3>2. n \in Nat /\ Cardinality({j \in Iocb : Completing(events', j)}) = n + 1
      BY <1>1, <1>2, <2>2, <3>1, MoreCompletions
    <3>3. fault' = fault /\ rbds' = rbds /\ stuck' = stuck /\ link'.posted = link.posted - 1
      BY <1>5, <1>6
    <3>4. rbds' + link'.posted + 0 + stuck' + (n + 1) = rbds + link.posted + 0 + stuck + n
      <4>1. n \in Nat /\ rbds \in Int /\ stuck \in Int /\ link.posted \in Int
        BY <1>6, <1>7, <3>2
      <4> QED
        BY <3>3, <4>1, SMTT(30)
    <3> QED
      BY <1>5, <2>1, <3>1, <3>2, <3>3, <3>4, BufferStep, SMTT(30)
  <2> QED
    BY <2>3, <2>4 DEF Inv
<1> QED
  BY <1>9, <1>10

\* A reply goes into a data buffer.
LEMMA SwallowInv ==
    ASSUME CardinalityFacts, Inv, NEW r \in net, Swallow(r)
    PROVE  Inv'
<1>1. /\ net' \subseteq net
      /\ UNCHANGED <<pool, iocb, events, waiting, metaVer, link, rbds, stuck, store, reqs, answers, fault>>
  BY DEF Swallow
<1>2. /\ cut' \in Cut /\ cut'.lost = cut.lost /\ cut'.pooled = cut.pooled
      /\ cut'.posted = cut.posted /\ cut'.stuck = cut.stuck
  BY CutUpdates DEF Swallow, Inv, TypeInv
<1>3. /\ events \in Seq(Event) /\ EventsOK(events) /\ link \in Link
      /\ \A c, d \in link.payload : c = d
      /\ \A c \in net : ~Completing(events, c.io)
      /\ \A d \in link.payload : /\ iocb[d.io].conn = "live" /\ ~Completing(events, d.io)
                                /\ \A c \in net : c.io # d.io
  BY DEF Inv, TypeInv, QueueInv, FlightInv
<1>4. TypeInv' /\ QueueInv' /\ PlaceInv' /\ FlightInv' /\ RequestInv'
  BY <1>1, <1>2, <1>3, Arrival
<1>5. BufferInv'
  BY <1>1, <1>2 DEF Inv, BufferInv
<1> QED
  BY <1>4, <1>5 DEF Inv

\* The end of a transfer through an orphan's buffer.
LEMMA OrphanDoneInv ==
    ASSUME Inv, OrphanDone
    PROVE  Inv'
<1>1. UNCHANGED <<pool, iocb, events, waiting, metaVer, link, net, rbds, cut, stuck, store, reqs, answers>>
  BY DEF OrphanDone
<1>2. fault' # "stale_reply"
  BY DEF OrphanDone
<1> QED
  BY <1>1, <1>2, NothingMoves DEF Inv, TypeInv, QueueInv

\* The connection is closed, and at most one iocb is sent again by a timeout.
LEMMA Closing ==
    ASSUME CardinalityFacts, Inv, CloseLink, events' \in Seq(Event), EventsOK(events'),
           \A j : Completing(events', j) <=> Completing(events, j),
           iocb' \in [Iocb -> IocbRecord],
           \A j \in Iocb : iocb'[j].req = iocb[j].req,
           \A j \in Iocb : Queued(events', j) => Queued(events, j) \/ Flying(j),
           \A j \in Iocb : iocb[j].conn = "none" => (Queued(events, j) => Queued(events', j)),
           \A j \in Iocb : iocb'[j].conn # "none" <=> iocb[j].conn # "none" /\ ~Queued(events', j),
           UNCHANGED <<pool, waiting, metaVer, stuck, store, reqs, answers, fault>>
    PROVE  Inv'
<1>1. fault' # "stale_reply"
  BY DEF Inv, FlightInv
<1>2. net' = {} /\ link' = ClosedLink /\ rbds' = rbds + link.posted /\ cut' = Flushed(cut)
  BY DEF CloseLink
<1>3. /\ rbds \in Int /\ stuck \in Int /\ link.posted \in Int
      /\ link' \in Link /\ link'.posted = 0 /\ link'.payload = {}
  BY <1>2, LinkUpdates DEF Inv, TypeInv
<1>4. TypeInv'
  <2>1. rbds' \in Int
    BY <1>2, <1>3, SMTT(30)
  <2>2. cut' \in Cut
    BY <1>2, FlushedFacts
  <2> QED
    BY <1>2, <1>3, <2>1, <2>2 DEF Inv, TypeInv
<1>5. QueueInv'
  BY DEF Inv, QueueInv, Once
<1>6. PlaceInv'
  BY DEF Inv, PlaceInv, In, Flying
<1>7. FlightInv'
  <2>1. \A j \in Iocb : Completing(events', j) => Flying(j)' \/ Queued(events', j)
    BY DEF Inv, FlightInv, Flying
  <2> QED
    BY <1>1, <1>2, <2>1, ClosedFlight
<1>8. RequestInv'
  BY RequestFrame DEF In
<1>9. BufferInv'
  <2>1. PICK n : n = Cardinality({j \in Iocb : Completing(events, j)})
    OBVIOUS
  <2>2. n \in Nat /\ Cardinality({j \in Iocb : Completing(events', j)}) = n
    BY <2>1, SameCompletions
  <2>3. PICK p \in Int, c \in Cut : p = (IF link.payload = {} THEN 0 ELSE 1) /\ c = cut
    <3>1. PICK p : p = IF link.payload = {} THEN 0 ELSE 1
      OBVIOUS
    <3>2. p \in Int
      BY <3>1, SMT
    <3> QED
      BY <3>1, <3>2 DEF Inv, TypeInv
  <2>4. /\ cut'.lost = c.lost + p /\ cut'.posted = 0 /\ cut'.stuck = c.stuck
        /\ cut'.pooled = c.pooled + c.posted + p
    BY <1>2, <2>3, FlushedFacts
  <2>5. c.lost \in Int /\ c.pooled \in Int /\ c.posted \in Int /\ c.stuck \in Int
    BY CutUpdates
  <2>6. /\ Cardinality(Iocb) = rbds + link.posted + p + stuck + n + c.lost
        /\ c.lost = c.pooled + c.posted + c.stuck
    BY <2>1, <2>3 DEF Inv, BufferInv
  <2>7. Cardinality(Iocb) = rbds' + 0 + 0 + stuck' + n + cut'.lost
    <3>1. PICK a, b, e, g \in Int : a = rbds /\ b = link.posted /\ e = stuck /\ g = c.lost
      BY <1>3, <2>5
    <3>2. (a + b) + 0 + 0 + e + n + (g + p) = a + b + p + e + n + g
      BY <2>2, SMT
    <3> QED
      BY <1>2, <2>4, <2>6, <3>1, <3>2
  <2>8. cut'.lost = cut'.pooled + cut'.posted + cut'.stuck
    BY <2>3, <2>4, <2>5, <2>6, SMTT(30)
  <2> QED
    BY <1>3, <2>2, <2>7, <2>8 DEF BufferInv
<1> QED
  BY <1>4, <1>5, <1>6, <1>7, <1>8, <1>9 DEF Inv

\* The connection is lost.
LEMMA LoseConnectionInv ==
    ASSUME CardinalityFacts, Inv, LoseConnection
    PROVE  Inv'
<1>1. CloseLink /\ iocb' = Dead(iocb)
  BY DEF LoseConnection
<1>2. UNCHANGED <<pool, events, waiting, metaVer, stuck, store, reqs, answers, fault>>
  BY DEF LoseConnection
<1>3. iocb \in [Iocb -> IocbRecord] /\ events \in Seq(Event) /\ EventsOK(events)
  BY DEF Inv, TypeInv, QueueInv
<1>4. /\ iocb' \in [Iocb -> IocbRecord]
      /\ \A j \in Iocb : (iocb'[j].conn = "none" <=> iocb[j].conn = "none") /\ iocb'[j].req = iocb[j].req
  BY <1>1, <1>3, DeadFacts
<1>5. \A j \in Iocb : Queued(events, j) => iocb[j].conn = "none"
  BY DEF Inv, PlaceInv, Flying
<1> QED
  BY <1>1, <1>2, <1>3, <1>4, <1>5, Closing

\* The iocb of a completed request.
LEMMA DoneIocb ==
    ASSUME NEW r \in IocbRecord
    PROVE  /\ LET s == [r EXCEPT !.conn = "none"]
              IN  s \in IocbRecord /\ s.conn = "none" /\ s.req = r.req
           /\ LET s == [[r EXCEPT !.conn = "none", !.sent = "zero"] EXCEPT !.req = 0, !.op = "WRITE"]
              IN  s \in IocbRecord /\ s.conn = "none"
           /\ TimedOut(r) \in IocbRecord /\ TimedOut(r).conn = "none" /\ TimedOut(r).req = r.req
<1>1. 0 \in 0..MaxReq
  BY ClientVolumeAssumption, SMT
<1> QED
  BY <1>1 DEF IocbRecord, TimedOut

\* What is under way is not the iocb of a completion.
LEMMA OthersFly ==
    ASSUME Inv, NEW i \in Iocb, Completing(events, i)
    PROVE  /\ \A c \in net : c.io \in Iocb /\ c.io # i
           /\ \A d \in link.payload : d.io \in Iocb /\ d.io # i
<1>1. (\A c \in net : c.io \in Iocb) /\ \A d \in link.payload : d.io \in Iocb
  BY DEF Inv, TypeInv, Link, Request, Complete
<1> QED
  BY <1>1 DEF Inv, FlightInv

\* EVT_IO_COMPLETE: client_do_complete.
LEMMA IoCompleteInv ==
    ASSUME CardinalityFacts, Inv, IoComplete
    PROVE  Inv'
<1>1. PICK e, i, r, t : e = Head(events) /\ i = e.io /\ r = iocb[i] /\ t = Tail(events)
  OBVIOUS
<1>2. Handles("IO_COMPLETE") /\ "IO_COMPLETE" # "IO_REQ"
      /\ UNCHANGED <<waiting, metaVer, link, net, cut, stuck, store, reqs>>
  BY DEF IoComplete
<1>3. /\ t \in Seq(Event) /\ EventsOK(t) /\ i \in Iocb /\ Completing(events, i) /\ t \o <<>> = t
      /\ \A j : Queued(t, j) <=> Queued(events, j)
      /\ \A j : Completing(t, j) <=> Completing(events, j) /\ j # i
  BY <1>1, <1>2, TakeEvent
<1>4. r \in IocbRecord
  BY <1>1, <1>3 DEF Inv, TypeInv
<1>5. /\ \A c \in net : c.io \in Iocb /\ c.io # i
      /\ \A d \in link.payload : d.io \in Iocb /\ d.io # i
  BY <1>3, OthersFly
<1>6. rbds \in Int /\ stuck \in Int /\ link.posted \in Int
  BY LinkUpdates DEF Inv, TypeInv
<1>7. PICK n : n = Cardinality({j \in Iocb : Completing(events, j)})
  OBVIOUS
<1>8. ASSUME NEW q, \A j \in Iocb : Completing(q, j) <=> Completing(events, j) /\ j # i
      PROVE  n \in Nat /\ Cardinality({j \in Iocb : Completing(q, j)}) = n - 1
  <2>1. LET k == Cardinality({j \in Iocb : Completing(events, j)}) IN
        k \in Nat /\ Cardinality({j \in Iocb : Completing(q, j)}) = k - 1
    BY <1>3, <1>8, FewerCompletions
  <2> QED
    BY <1>7, <2>1
<1>9. CASE fault' = "null_conn" /\ UNCHANGED <<pool, iocb, events, rbds, answers>>
  <2>1. fault' # "stale_reply"
    BY <1>9
  <2> QED
    BY <1>2, <1>9, <2>1, NothingMoves DEF Inv, TypeInv, QueueInv
<1>10. CASE /\ iocb[i].conn # "none" /\ Set(i, [r EXCEPT !.conn = "none"]) /\ rbds' = rbds + 1
            /\ UNCHANGED <<pool, answers, fault>>
            /\ \/ events' = t \o (<<Reopen>> \o <<IoReq(i)>>)
               \/ events' = t \o (<<>> \o <<IoReq(i)>>)
  <2>1. PICK s : s = [r EXCEPT !.conn = "none"]
    OBVIOUS
  <2>2. s \in IocbRecord /\ s.conn = "none" /\ s.req = r.req
    BY <1>4, <2>1, DoneIocb
  <2>3. iocb' \in [Iocb -> IocbRecord] /\ iocb'[i] = s /\ \A j \in Iocb : j # i => iocb'[j] = iocb[j]
    BY <1>3, <1>10, <2>1, <2>2, SetIocb
  <2>4. ~In(pool, i) /\ ~In(waiting, i) /\ ~Queued(events, i)
    BY <1>3, <1>10 DEF Inv, PlaceInv, Flying
  <2>5. /\ Reopen \in Event /\ Reopen.type = "REOPEN"
        /\ IoReq(i) \in Event /\ IoReq(i).type = "IO_REQ" /\ IoReq(i).io = i
    BY <1>3 DEF Reopen, IoReq, Event
  <2>6. PICK u \in Seq(Event) : /\ EventsOK(u) /\ events' = Append(u, IoReq(i))
                                /\ \A j : Queued(u, j) <=> Queued(events, j)
                                /\ \A j : Completing(u, j) <=> Completing(events, j) /\ j # i
    <3>1. CASE events' = t \o (<<Reopen>> \o <<IoReq(i)>>)
      <4>1. events' = Append(Append(t, Reopen), IoReq(i))
        BY <1>3, <2>5, <3>1, PostFacts, SMTT(30)
      <4>2. Reopen.type # "IO_REQ" /\ Reopen.type # "IO_COMPLETE"
        BY <2>5
      <4>3. PICK u : u = Append(t, Reopen)
        OBVIOUS
      <4>4. /\ u \in Seq(Event) /\ EventsOK(u)
            /\ \A j : Queued(u, j) <=> Queued(t, j)
            /\ \A j : Completing(u, j) <=> Completing(t, j)
        BY <1>3, <2>5, <4>2, <4>3, PushEvent
      <4> QED
        BY <1>3, <4>1, <4>3, <4>4
    <3>2. CASE events' = t \o (<<>> \o <<IoReq(i)>>)
      <4>1. <<>> \o <<IoReq(i)>> = <<IoReq(i)>>
        BY <2>5, SMTT(30)
      <4>2. t \o <<IoReq(i)>> = Append(t, IoReq(i))
        BY <1>3, <2>5, PostFacts
      <4> QED
        BY <1>3, <3>2, <4>1, <4>2
    <3> QED
      BY <1>10, <3>1, <3>2
  <2>7. /\ events' \in Seq(Event) /\ EventsOK(events')
        /\ \A j : Queued(events', j) <=> Queued(events, j) \/ j = i
        /\ \A j : Completing(events', j) <=> Completing(events, j) /\ j # i
    <3>1. ~Queued(u, i)
      BY <2>4, <2>6
    <3>2. /\ events' \in Seq(Event) /\ EventsOK(events')
          /\ \A j : Queued(events', j) <=> Queued(u, j) \/ j = i
          /\ \A j : Completing(events', j) <=> Completing(u, j)
      BY <1>3, <2>6, <3>1, PushRequest
    <3> QED
      BY <2>6, <3>2
  <2>8. TypeInv'
    <3>1. rbds' \in Int
      BY <1>6, <1>10, SMTT(30)
    <3> QED
      BY <1>2, <1>10, <2>3, <2>7, <3>1 DEF Inv, TypeInv
  <2>9. QueueInv'
    BY <1>2, <1>10, <2>7 DEF Inv, QueueInv, Once
  <2>10. PlaceInv'
    BY <1>2, <1>10, <2>2, <2>3, <2>4, <2>7, SMTT(30) DEF Inv, PlaceInv, In, Flying
  <2>11. FlightInv'
    BY <1>2, <1>5, <1>10, <2>3, <2>7 DEF Inv, FlightInv, Flying
  <2>12. RequestInv'
    BY <1>1, <1>2, <1>10, <2>2, <2>3, RequestFrame DEF In
  <2>13. BufferInv'
    <3>1. n \in Nat /\ Cardinality({j \in Iocb : Completing(events', j)}) = n - 1
      BY <1>8, <2>7
    <3>2. PICK p \in Int : p = IF link.payload = {} THEN 0 ELSE 1
      BY SMT
    <3>3. rbds' + link'.posted + p + stuck' + (n - 1) = rbds + link.posted + p + stuck + n
      <4>1. n \in Nat /\ p \in Int /\ rbds' = rbds + 1 /\ stuck' = stuck /\ link' = link
        BY <1>2, <1>10, <3>1
      <4>2. PICK a, b, c \in Int : a = rbds /\ b = link.posted /\ c = stuck
        BY <1>6
      <4>3. a + 1 + b + p + c + (n - 1) = a + b + p + c + n
        BY <4>1, SMT
      <4> QED
        BY <4>1, <4>2, <4>3
    <3>4. UNCHANGED cut /\ p = IF link'.payload = {} THEN 0 ELSE 1
      BY <1>2, <1>10, <3>2
    <3> QED
      BY <1>7, <3>1, <3>2, <3>3, <3>4, BufferStep
  <2> QED
    BY <2>8, <2>9, <2>10, <2>11, <2>12, <2>13 DEF Inv
<1>11. CASE /\ iocb[i].conn # "none" /\ FreeIocb(i, [r EXCEPT !.conn = "none", !.sent = "zero"])
            /\ rbds' = rbds + 1 /\ Answer(i) /\ Post(<<>>) /\ UNCHANGED fault
  <2>1. events' = t
    BY <1>1, <1>3, <1>11 DEF Post
  <2>2. PICK s : s = [[r EXCEPT !.conn = "none", !.sent = "zero"] EXCEPT !.req = 0, !.op = "WRITE"]
    OBVIOUS
  <2>3. s \in IocbRecord /\ s.conn = "none"
    BY <1>4, <2>2, DoneIocb
  <2>4. iocb' \in [Iocb -> IocbRecord] /\ iocb'[i] = s /\ \A j \in Iocb : j # i => iocb'[j] = iocb[j]
    <3>1. Set(i, s)
      BY <1>11, <2>2 DEF FreeIocb
    <3> QED
      BY <1>3, <2>3, <3>1, SetIocb
  <2>5. ~In(pool, i) /\ ~In(waiting, i) /\ ~Queued(events, i)
    BY <1>3, <1>11 DEF Inv, PlaceInv, Flying
  <2>6. pool' \in Seq(Iocb) /\ Once(pool') /\ \A j : In(pool', j) <=> In(pool, j) \/ j = i
    BY <1>3, <1>11, <2>5, PushIocb DEF FreeIocb, Inv, TypeInv, QueueInv
  <2>7. RequestInv' /\ answers' \in [0..MaxReq -> Nat]
    BY <1>2, <1>3, <1>11, <2>4, <2>5, <2>6, AnswerRequest
  <2>8. TypeInv'
    <3>1. rbds' \in Int
      BY <1>6, <1>11, SMTT(30)
    <3> QED
      BY <1>2, <1>3, <2>1, <2>4, <2>6, <2>7, <3>1 DEF Inv, TypeInv
  <2>9. QueueInv'
    BY <1>2, <1>3, <2>1, <2>6 DEF Inv, QueueInv, Once
  <2>10. PlaceInv'
    BY <1>2, <1>3, <2>1, <2>3, <2>4, <2>5, <2>6 DEF Inv, PlaceInv, In, Flying
  <2>11. FlightInv'
    BY <1>2, <1>3, <1>5, <1>11, <2>1, <2>4 DEF Inv, FlightInv, Flying
  <2>12. BufferInv'
    <3>1. n \in Nat /\ Cardinality({j \in Iocb : Completing(events', j)}) = n - 1
      BY <1>3, <1>8, <2>1
    <3>2. PICK p \in Int : p = IF link.payload = {} THEN 0 ELSE 1
      BY SMT
    <3>3. rbds' + link'.posted + p + stuck' + (n - 1) = rbds + link.posted + p + stuck + n
      <4>1. n \in Nat /\ p \in Int /\ rbds' = rbds + 1 /\ stuck' = stuck /\ link' = link
        BY <1>2, <1>11, <3>1
      <4> QED
        BY <1>6, <4>1, SMTT(30)
    <3>4. UNCHANGED cut /\ p = IF link'.payload = {} THEN 0 ELSE 1
      BY <1>2, <1>11, <3>2
    <3> QED
      BY <1>7, <3>1, <3>2, <3>3, <3>4, BufferStep
  <2> QED
    BY <2>7, <2>8, <2>9, <2>10, <2>11, <2>12 DEF Inv
<1> QED
  <2>1. CASE iocb[i].conn # "none" /\ e.reopen
    BY <1>1, <1>10, <2>1 DEF IoComplete, Post
  <2>2. CASE iocb[i].conn # "none" /\ ~e.reopen
    BY <1>1, <1>11, <2>2 DEF IoComplete
  <2>3. CASE iocb[i].conn = "none"
    BY <1>1, <1>9, <2>3 DEF IoComplete
  <2> QED
    BY <2>1, <2>2, <2>3

\* EVT_IO_TIMEOUT of an overdue request: resend_io.
LEMMA ResendOverdueInv ==
    ASSUME CardinalityFacts, Inv, ResendOverdue
    PROVE  Inv'
<1>1. PICK i, r, s, t : i = Head(events).io /\ r = iocb[i] /\ s = TimedOut(r) /\ t = Tail(events)
  OBVIOUS
<1>2. /\ Handles("IO_TIMEOUT") /\ "IO_TIMEOUT" # "IO_REQ" /\ "IO_TIMEOUT" # "IO_COMPLETE"
      /\ UNCHANGED <<pool, waiting, metaVer, stuck, store, reqs, answers>>
  BY DEF ResendOverdue
<1>3. /\ t \in Seq(Event) /\ EventsOK(t) /\ i \in Iocb
      /\ \A j : Queued(t, j) <=> Queued(events, j)
      /\ \A j : Completing(t, j) <=> Completing(events, j)
  BY <1>1, <1>2, TakeEvent
<1>4. r \in IocbRecord /\ s \in IocbRecord /\ s.conn = "none" /\ s.req = r.req
      /\ iocb \in [Iocb -> IocbRecord]
  <2>1. r \in IocbRecord /\ iocb \in [Iocb -> IocbRecord]
    BY <1>1, <1>3 DEF Inv, TypeInv
  <2> QED
    BY <1>1, <2>1, DoneIocb
<1>5. CASE Post(<<>>) /\ UNCHANGED <<iocb, link, net, rbds, cut, fault>>
  <2>1. /\ events' \in Seq(Event) /\ EventsOK(events')
        /\ \A j : Queued(events', j) <=> Queued(events, j)
        /\ \A j : Completing(events', j) <=> Completing(events, j)
    BY <1>2, <1>5, TakeOther
  <2>2. fault' # "stale_reply"
    BY <1>5 DEF Inv, FlightInv
  <2> QED
    BY <1>2, <1>4, <1>5, <2>1, <2>2, NothingMoves DEF Inv, TypeInv
<1>9. CASE UNCHANGED <<iocb, events, link, net, rbds, cut>> /\ fault' = "null_conn"
  <2>1. fault' # "stale_reply"
    BY <1>9
  <2> QED
    BY <1>2, <1>9, <2>1, NothingMoves DEF Inv, TypeInv, QueueInv
<1>6. ASSUME iocb[i].conn # "none", Post(<<IoReq(i)>>)
      PROVE  /\ events' \in Seq(Event) /\ EventsOK(events')
             /\ \A j : Queued(events', j) <=> Queued(events, j) \/ j = i
             /\ \A j : Completing(events', j) <=> Completing(events, j)
             /\ ~In(pool, i) /\ ~In(waiting, i) /\ ~Queued(events, i)
  <2>1. ~In(pool, i) /\ ~In(waiting, i) /\ ~Queued(events, i)
    BY <1>3, <1>6 DEF Inv, PlaceInv, Flying
  <2>2. IoReq(i) \in Event
    BY <1>3 DEF IoReq, Event
  <2>3. events' = Append(t, IoReq(i))
    BY <1>1, <1>3, <1>6, <2>2, PostFacts DEF Post
  <2>4. ~Queued(t, i)
    BY <1>3, <2>1
  <2>5. /\ events' \in Seq(Event) /\ EventsOK(events')
        /\ \A j : Queued(events', j) <=> Queued(t, j) \/ j = i
        /\ \A j : Completing(events', j) <=> Completing(t, j)
    BY <1>3, <2>3, <2>4, PushRequest
  <2> QED
    BY <1>3, <2>1, <2>5
<1>7. CASE /\ iocb[i].conn = "dead" /\ Set(i, s) /\ net' = Overtaken({i}) /\ Post(<<IoReq(i)>>)
           /\ UNCHANGED <<link, rbds, cut, fault>>
  <2>1. /\ events' \in Seq(Event) /\ EventsOK(events')
        /\ \A j : Queued(events', j) <=> Queued(events, j) \/ j = i
        /\ \A j : Completing(events', j) <=> Completing(events, j)
        /\ ~In(pool, i) /\ ~In(waiting, i) /\ ~Queued(events, i)
    BY <1>6, <1>7
  <2>2. iocb' \in [Iocb -> IocbRecord] /\ iocb'[i] = s /\ \A j \in Iocb : j # i => iocb'[j] = iocb[j]
    BY <1>3, <1>4, <1>7, SetIocb
  <2>3. net' = net
    <3>1. \A j \in {i} : j \in Iocb => iocb[j].conn # "live"
      BY <1>7
    <3> QED
      BY <1>7, <3>1, NoneOvertaken
  <2>4. /\ \A c \in net : c.io \in Iocb /\ c.io # i
        /\ \A d \in link.payload : d.io \in Iocb /\ d.io # i
    <3>1. (\A c \in net : c.io \in Iocb) /\ \A d \in link.payload : d.io \in Iocb
      BY DEF Inv, TypeInv, Link, Request, Complete
    <3> QED
      BY <1>7, <3>1 DEF Inv, FlightInv
  <2>5. TypeInv'
    BY <1>2, <1>7, <2>1, <2>2, <2>3 DEF Inv, TypeInv
  <2>6. QueueInv'
    BY <1>2, <2>1 DEF Inv, QueueInv, Once
  <2>7. PlaceInv'
    BY <1>2, <1>4, <2>1, <2>2 DEF Inv, PlaceInv, In, Flying
  <2>8. FlightInv'
    BY <1>2, <1>7, <2>1, <2>2, <2>3, <2>4 DEF Inv, FlightInv, Flying
  <2>9. RequestInv'
    BY <1>1, <1>2, <1>4, <2>2, RequestFrame DEF In
  <2>10. BufferInv'
    <3>1. {j \in Iocb : Completing(events, j)}' = {j \in Iocb : Completing(events, j)}
      BY <2>1
    <3> QED
      BY <1>2, <1>7, <3>1 DEF Inv, BufferInv
  <2> QED
    BY <2>5, <2>6, <2>7, <2>8, <2>9, <2>10 DEF Inv
<1>8. CASE /\ iocb[i].conn # "none" /\ CloseLink /\ Post(<<IoReq(i)>>)
           /\ iocb' = Dead([iocb EXCEPT ![i] = TimedOut(@)]) /\ UNCHANGED fault
  <2>1. /\ events' \in Seq(Event) /\ EventsOK(events')
        /\ \A j : Queued(events', j) <=> Queued(events, j) \/ j = i
        /\ \A j : Completing(events', j) <=> Completing(events, j)
        /\ ~In(pool, i) /\ ~In(waiting, i) /\ ~Queued(events, i)
    BY <1>6, <1>8
  <2>2. PICK f : f = [iocb EXCEPT ![i] = s]
    OBVIOUS
  <2>3. f \in [Iocb -> IocbRecord] /\ f[i] = s /\ \A j \in Iocb : j # i => f[j] = iocb[j]
    BY <1>3, <1>4, <2>2
  <2>4. iocb' = Dead(f)
    BY <1>1, <1>8, <2>2
  <2>5. /\ iocb' \in [Iocb -> IocbRecord]
        /\ \A j \in Iocb : (iocb'[j].conn = "none" <=> f[j].conn = "none") /\ iocb'[j].req = f[j].req
    BY <2>3, <2>4, DeadFacts
  <2>6. \A j \in Iocb : iocb'[j].req = iocb[j].req
    BY <1>1, <1>4, <2>3, <2>5
  <2>7. \A j \in Iocb : Queued(events, j) => iocb[j].conn = "none"
    BY DEF Inv, PlaceInv, Flying
  <2>8. \A j \in Iocb : iocb'[j].conn # "none" <=> iocb[j].conn # "none" /\ ~Queued(events', j)
    BY <1>4, <2>1, <2>3, <2>5, <2>7
  <2>9. \A j \in Iocb : Queued(events', j) => Queued(events, j) \/ Flying(j)
    BY <1>8, <2>1 DEF Flying
  <2> QED
    BY <1>2, <1>8, <2>1, <2>5, <2>6, <2>8, <2>9, Closing
<1> QED
  BY <1>1, <1>5, <1>7, <1>8, <1>9 DEF ResendOverdue
=============================================================================
