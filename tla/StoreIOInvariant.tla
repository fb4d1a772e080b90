-------------------------- MODULE StoreIOInvariant --------------------------
(***************************************************************************)
(* The inductive invariant of StoreIO, for any number of iocbs, blocks,    *)
(* requests and connections and any set of disturbances, and lemmas about  *)
(* its parts: the event queues, and the steps that leave a part alone.     *)
(***************************************************************************)
EXTENDS StoreIO, TLAPS

\* Zenon proves the leaves that do not name another prover.
USE ZenonT(30)

-----------------------------------------------------------------------------
(* The inductive invariant.                                                *)

Subtask == {"local", "remote"}
ServerIocb ==
    [st : {"recv", "req", "busy", "reply", "dead", "pool"}, n : Nat, b : Block,
     mask : SUBSET Subtask, ok : BOOLEAN, refs : Int]
Event ==
    [k : {"req"}, i : Iocb] \union [k : {"complete"}, r : RepIocb, ok : BOOLEAN]
        \union [k : {"closed"}, c : Nat]
Conn == [ok : BOOLEAN, infly : Int, drift : Int, unclean : BOOLEAN]
RepState ==
    {Idle, [pc |-> "aborted"]} \union [pc : {"report"}, i : Iocb] \union [pc : {"post"}, r : RepIocb]

ServerType ==
    /\ sio \in [Iocb -> ServerIocb]
    /\ client \in {"OK", "CLOSED"} /\ reqs \in Nat
    /\ disp \in {Idle, [pc |-> "stuck"]} \union [pc : {"post"}, i : Iocb, drop : {0, 1}]
    /\ done \subseteq [i : Iocb, sub : Subtask, ok : BOOLEAN]
    /\ disk \subseteq Iocb
    /\ health \in {"OK", "ERROR"}

ReplicatorType ==
    /\ rep \in RepState
    /\ repQ \in Seq(Event)
    /\ delayed \in Seq(Iocb)
    /\ rio \in [RepIocb -> SUBSET [i : Iocb, c : Nat]]
    /\ \A r \in RepIocb : \A x, y \in rio[r] : x = y
    /\ conns \in Seq(Conn)

NetworkType ==
    /\ peer \subseteq [c : Nat, r : RepIocb, n : Nat, b : Block]
    /\ replies \subseteq [c : Nat, r : RepIocb, ok : BOOLEAN]
    /\ data \in [Subtask -> [Block -> Nat]]
    /\ acked \in [Block -> SUBSET Nat]

\* The references to an iocb are those of its connection, of the subtasks that
\* are not done, and of the dispatcher while it answers.
Replying(i) == disp.pc = "post" /\ disp.i = i
IocbOK ==
    \A i \in Iocb :
        /\ sio[i].mask # {} => sio[i].st = "busy"
        /\ Replying(i) => sio[i].st = "busy" /\ sio[i].mask = {}
        /\ sio[i].refs = IF sio[i].st = "pool" THEN 0
                         ELSE 1 + (IF "local" \in sio[i].mask THEN 1 ELSE 0)
                                + (IF "remote" \in sio[i].mask THEN 1 ELSE 0)
                                + (IF Replying(i) THEN disp.drop ELSE 0)

\* A local subtask is at the disk or done, once.
DoneOnce == \A d, e \in done : d.i = e.i /\ d.sub = e.sub => d = e
LocalOK ==
    /\ \A i \in disk : "local" \in sio[i].mask
    /\ \A d \in done : d.sub = "local" => "local" \in sio[d.i].mask /\ d.i \notin disk

\* A remote subtask is in one place, once.
Queued(q, i) == \E j \in DOMAIN q : q[j].k = "req" /\ q[j].i = i
Delayed(q, i) == \E j \in DOMAIN q : q[j] = i
Sent(i) == \E r \in RepIocb : \E io \in rio[r] : io.i = i
Reported(i) == rep.pc = "report" /\ rep.i = i
Answered(i) == \E d \in done : d.i = i /\ d.sub = "remote"
OnePlace ==
    \A i \in Iocb :
        /\ Queued(repQ, i) => ~Delayed(delayed, i) /\ ~Sent(i) /\ ~Reported(i) /\ ~Answered(i)
        /\ Delayed(delayed, i) => ~Sent(i) /\ ~Reported(i) /\ ~Answered(i)
        /\ Sent(i) => ~Reported(i) /\ ~Answered(i)
        /\ Reported(i) => ~Answered(i)
        /\ Queued(repQ, i) \/ Delayed(delayed, i) \/ Sent(i) \/ Reported(i) \/ Answered(i)
              => "remote" \in sio[i].mask
QueuedOnce(q) ==
    \A j, k \in DOMAIN q :
        q[j].k = "req" /\ q[k].k = "req" /\ q[j].i = q[k].i => j = k
DelayedOnce(q) == \A j, k \in DOMAIN q : q[j] = q[k] => j = k
SentOnce ==
    \A r, q \in RepIocb : \A x \in rio[r], y \in rio[q] : x.i = y.i => r = q

\* The current connection is the only open one.  A request on it waits for its
\* post_send, for the peer, for the reply or for process_io_complete; the events
\* of replies come before the event that the connection has closed.
Completed(q, r) == \E j \in DOMAIN q : q[j].k = "complete" /\ q[j].r = r
CompletedOk(q, r) == \E j \in DOMAIN q : q[j].k = "complete" /\ q[j].r = r /\ q[j].ok
CompletedOnce(q) ==
    \A j, k \in DOMAIN q :
        q[j].k = "complete" /\ q[k].k = "complete" /\ q[j].r = q[k].r => j = k
HasClosed(q, c) == \E j \in DOMAIN q : q[j].k = "closed" /\ q[j].c = c
ClosedLast(q, f) ==
    \A j, k \in DOMAIN q :
        q[j].k = "closed" /\ q[k].k = "complete"
            /\ (\E io \in f[q[k].r] : io.c = q[j].c) => k < j
Posting(r) == rep.pc = "post" /\ rep.r = r
Open(c) == c \in 1..Len(conns) /\ conns[c].ok
ConnOK ==
    /\ \A c \in 1..Current : conns[c].ok => c = Current
    /\ \A r \in RepIocb : \A io \in rio[r] : io.c \in 1..Current
    /\ \A r \in RepIocb : Posting(r) \/ Completed(repQ, r) => rio[r] # {}
    /\ \A r \in RepIocb : Posting(r) => ~Completed(repQ, r)
    /\ \A c \in Nat : HasClosed(repQ, c) => c \in 1..Current /\ ~conns[c].ok
WireOK ==
    /\ \A m \in peer : m.c \in 1..Current
    /\ \A m \in peer : conns[m.c].ok =>
          /\ \E io \in rio[m.r] : io.c = m.c /\ sio[io.i].n = m.n
          /\ ~Completed(repQ, m.r) /\ ~Posting(m.r)
          /\ \A x \in replies : x.r # m.r
          /\ \A l \in peer : conns[l.c].ok /\ l.r = m.r => l = m
    /\ \A x \in replies :
          /\ Open(x.c)
          /\ \E io \in rio[x.r] : io.c = x.c
          /\ ~Completed(repQ, x.r) /\ ~Posting(x.r)
          /\ \A y \in replies : x.r = y.r => x = y

\* Requests have different numbers, and different blocks while they last.
Active(i) == sio[i].st \notin {"recv", "pool"}
NumbersOK ==
    /\ \A i, j \in Iocb : Active(i) /\ Active(j) /\ (sio[i].b = sio[j].b \/ sio[i].n = sio[j].n) => i = j
    /\ \A i \in Iocb : Active(i) => sio[i].n <= reqs /\ acked[sio[i].b] = {}
    /\ \A m \in peer : m.n <= reqs /\ \A i \in Iocb : Active(i) /\ sio[i].n = m.n => sio[i].b = m.b

\* What is known to be written has been written.
Calm == "late_original" \notin disturbed /\ "conductor_silent" \notin disturbed
Stored(p, i) == data[p][sio[i].b] = sio[i].n
Answering(i) == sio[i].st \in {"busy", "reply"} /\ sio[i].ok
LocalStored ==
    /\ \A d \in done : d.sub = "local" /\ d.ok => Stored("local", d.i)
    /\ \A i \in Iocb : Answering(i) /\ "local" \notin sio[i].mask => Stored("local", i)
    /\ \A b \in Block : \A n \in acked[b] : data["local"][b] = n
RemoteStored ==
    /\ \A x \in replies : x.ok => \A io \in rio[x.r] : Stored("remote", io.i)
    /\ \A r \in RepIocb : CompletedOk(repQ, r) => \A io \in rio[r] : Stored("remote", io.i)
    /\ \A d \in done : d.sub = "remote" /\ d.ok => Stored("remote", d.i)
    /\ health = "OK" => \A i \in Iocb : Answering(i) /\ "remote" \notin sio[i].mask => Stored("remote", i)
    /\ health = "OK" => \A b \in Block : \A n \in acked[b] : data["remote"][b] = n

\* The throttle counts the requests without a reply, and what was miscounted.
Unanswered(c) == {r \in OnConn(c) : ~Completed(repQ, r)}
ThrottleOK ==
    Connected =>
        /\ conns[Current].infly = conns[Current].drift + Cardinality(Unanswered(Current))
        /\ disturbed \cap Miscounts = {} => conns[Current].drift = 0

ServerInv == ServerType /\ IocbOK /\ DoneOnce /\ LocalOK
QueueInv ==
    /\ ReplicatorType
    /\ QueuedOnce(repQ) /\ DelayedOnce(delayed) /\ SentOnce
    /\ CompletedOnce(repQ) /\ ClosedLast(repQ, rio) /\ ConnOK
WireInv == NetworkType /\ WireOK
StoredInv == LocalStored /\ (Calm => RemoteStored)
Inv == ServerInv /\ QueueInv /\ OnePlace /\ WireInv /\ ThrottleOK /\ NumbersOK /\ StoredInv

\* The facts about cardinalities that the proofs of the actions use. They are
\* proved in StoreIOProofs: the library of finite sets is extended only there,
\* because it slows every step of a module that extends it.
CardinalityFacts ==
    /\ IsFiniteSet({}) /\ Cardinality({}) = 0
    /\ \A x : IsFiniteSet({x}) /\ Cardinality({x}) = 1
    /\ \A S : IsFiniteSet(S) =>
          /\ Cardinality(S) \in Nat
          /\ \A x : x \notin S => Cardinality(S \union {x}) = Cardinality(S) + 1
          /\ \A x \in S : Cardinality(S \ {x}) = Cardinality(S) - 1
          /\ \A T \in SUBSET S : IsFiniteSet(T)

-----------------------------------------------------------------------------
(* Queues.                                                                 *)

\* What is used of sequences in general.
LEMMA LengthFacts ==
    ASSUME NEW S, NEW s \in Seq(S)
    PROVE  Len(s) \in Nat /\ DOMAIN s = 1..Len(s) /\ (s # <<>> => Len(s) # 0)
  BY SMT

\* The elements of a sequence over S are in S.
LEMMA ElementFacts ==
    ASSUME NEW S, NEW s \in Seq(S), NEW n \in 1..Len(s)
    PROVE  s[n] \in S
  BY SMT

\* A change of one element.
LEMMA ExceptFacts ==
    ASSUME NEW S, NEW s \in Seq(S), NEW i \in 1..Len(s), NEW e \in S
    PROVE  /\ [s EXCEPT ![i] = e] \in Seq(S) /\ Len([s EXCEPT ![i] = e]) = Len(s)
           /\ \A j \in 1..Len(s) : [s EXCEPT ![i] = e][j] = IF j = i THEN e ELSE s[j]
  BY SMT

\* A function on 1..n is a sequence.
LEMMA FunctionSeq ==
    ASSUME NEW S, NEW n \in Nat, NEW f \in [1..n -> S]
    PROVE  f \in Seq(S) /\ Len(f) = n
  BY SMT

\* Taking the first event moves the others up by one.
LEMMA TailFacts ==
    ASSUME NEW S, NEW s \in Seq(S), s # <<>>
    PROVE  /\ Tail(s) \in Seq(S) /\ 1 \in DOMAIN s /\ Head(s) = s[1] /\ s[1] \in S
           /\ \A j \in DOMAIN Tail(s) :
                 j + 1 \in DOMAIN s /\ j + 1 # 1 /\ j \in Nat /\ Tail(s)[j] = s[j + 1]
           /\ \A j \in DOMAIN s :
                 j # 1 => j \in Nat /\ j - 1 \in DOMAIN Tail(s) /\ Tail(s)[j - 1] = s[j]
<1>1. /\ Tail(s) \in Seq(S) /\ Len(Tail(s)) = Len(s) - 1
      /\ \A i \in 1..Len(Tail(s)) : Tail(s)[i] = s[i + 1]
  BY SMT
<1>2. Len(s) \in Nat \ {0}
  BY LengthFacts
<1>3. DOMAIN s = 1..Len(s) /\ DOMAIN Tail(s) = 1..Len(Tail(s))
  BY <1>1, LengthFacts
<1>4. Head(s) = s[1] /\ s[1] \in S
  BY <1>2, ElementFacts, SMT
<1> QED
  BY <1>1, <1>2, <1>3, <1>4, SMT

\* Events are appended behind the others.
LEMMA ConcatFacts ==
    ASSUME NEW S, NEW s \in Seq(S), NEW t \in Seq(S)
    PROVE  /\ s \o t \in Seq(S)
           /\ \A j \in DOMAIN s : j \in DOMAIN (s \o t) /\ j \in Nat /\ (s \o t)[j] = s[j]
           /\ \A j \in DOMAIN t : /\ j \in Nat /\ Len(s) + j \in DOMAIN (s \o t)
                                  /\ (s \o t)[Len(s) + j] = t[j]
           /\ \A j \in DOMAIN (s \o t) :
                 \/ j \in DOMAIN s
                 \/ j - Len(s) \in DOMAIN t /\ j = Len(s) + (j - Len(s)) /\ \A k \in DOMAIN s : k < j
<1>1. /\ s \o t \in Seq(S) /\ Len(s \o t) = Len(s) + Len(t)
      /\ \A i \in 1 .. Len(s) + Len(t) :
            (s \o t)[i] = IF i <= Len(s) THEN s[i] ELSE t[i - Len(s)]
  BY SMT
<1>2. Len(s) \in Nat /\ Len(t) \in Nat
  BY LengthFacts
<1>3. DOMAIN s = 1..Len(s) /\ DOMAIN t = 1..Len(t) /\ DOMAIN (s \o t) = 1..Len(s \o t)
  BY <1>1, LengthFacts
<1> QED
  BY <1>1, <1>2, <1>3, SMT

\* The elements of a sequence with one more at the end.
LEMMA AppendFacts ==
    ASSUME NEW S, NEW s \in Seq(S), NEW e \in S
    PROVE  /\ Append(s, e) \in Seq(S)
           /\ \A j \in DOMAIN s : j \in DOMAIN Append(s, e) /\ j < Len(s) + 1 /\ Append(s, e)[j] = s[j]
           /\ Len(s) + 1 \in DOMAIN Append(s, e) /\ Append(s, e)[Len(s) + 1] = e
           /\ Len(s) + 1 \notin DOMAIN s
           /\ \A j \in DOMAIN Append(s, e) : j \in DOMAIN s \/ j = Len(s) + 1
<1>1. /\ Append(s, e) \in Seq(S) /\ Len(Append(s, e)) = Len(s) + 1
      /\ \A i \in 1 .. Len(s) : Append(s, e)[i] = s[i]
      /\ Append(s, e)[Len(s) + 1] = e
  BY SMT
<1>2. Len(s) \in Nat
  BY LengthFacts
<1>3. DOMAIN s = 1..Len(s) /\ DOMAIN Append(s, e) = 1..Len(Append(s, e))
  BY <1>1, LengthFacts
<1> QED
  BY <1>1, <1>2, <1>3, SMT

\* The event taken from the replicator's queue was there once, and behind a
\* "closed" event no reply of its connection waits.
LEMMA PopEvent ==
    ASSUME NEW q \in Seq(Event), q # <<>>, NEW f,
           QueuedOnce(q), CompletedOnce(q), ClosedLast(q, f)
    PROVE  LET e == Head(q)  t == Tail(q) IN
           /\ e \in Event /\ t \in Seq(Event)
           /\ QueuedOnce(t) /\ CompletedOnce(t) /\ ClosedLast(t, f)
           /\ e.k = "req" => Queued(q, e.i)
           /\ e.k = "complete" => Completed(q, e.r) /\ (e.ok => CompletedOk(q, e.r))
           /\ e.k = "closed" =>
                 HasClosed(q, e.c) /\ \A r \in RepIocb : Completed(q, r) => \A io \in f[r] : io.c # e.c
           /\ \A i \in Iocb : Queued(t, i) <=> Queued(q, i) /\ ~(e.k = "req" /\ e.i = i)
           /\ \A r \in RepIocb : Completed(t, r) <=> Completed(q, r) /\ ~(e.k = "complete" /\ e.r = r)
           /\ \A r \in RepIocb : CompletedOk(t, r) => CompletedOk(q, r) /\ Completed(t, r)
           /\ \A c \in Nat : HasClosed(t, c) => HasClosed(q, c)
<1> DEFINE e == Head(q)  t == Tail(q)
<1>1. /\ t \in Seq(Event) /\ 1 \in DOMAIN q /\ e = q[1] /\ q[1] \in Event
      /\ \A j \in DOMAIN t : j + 1 \in DOMAIN q /\ j + 1 # 1 /\ j \in Nat /\ t[j] = q[j + 1]
      /\ \A j \in DOMAIN q : j # 1 => j \in Nat /\ j - 1 \in DOMAIN t /\ t[j - 1] = q[j]
  BY TailFacts
<1> HIDE DEF e, t
<1>up. ASSUME NEW j \in DOMAIN t
      PROVE  \E k \in DOMAIN q : k = j + 1 /\ k # 1 /\ j \in Nat /\ t[j] = q[k]
  BY <1>1
<1>down. ASSUME NEW j \in DOMAIN q, j # 1
      PROVE  \E k \in DOMAIN t : t[k] = q[j]
  BY <1>1, <1>down
<1>2. QueuedOnce(t)
  <2> SUFFICES ASSUME NEW j \in DOMAIN t, NEW k \in DOMAIN t,
                      t[j].k = "req", t[k].k = "req", t[j].i = t[k].i
               PROVE  j = k
    BY DEF QueuedOnce
  <2>1. PICK m \in DOMAIN q : m = j + 1 /\ m # 1 /\ j \in Nat /\ t[j] = q[m]
    BY <1>up
  <2>2. PICK n \in DOMAIN q : n = k + 1 /\ n # 1 /\ k \in Nat /\ t[k] = q[n]
    BY <1>up
  <2>3. m = n
    BY <2>1, <2>2 DEF QueuedOnce
  <2> QED
    BY <2>1, <2>2, <2>3, SMT
<1>3. CompletedOnce(t)
  <2> SUFFICES ASSUME NEW j \in DOMAIN t, NEW k \in DOMAIN t,
                      t[j].k = "complete", t[k].k = "complete", t[j].r = t[k].r
               PROVE  j = k
    BY DEF CompletedOnce
  <2>1. PICK m \in DOMAIN q : m = j + 1 /\ m # 1 /\ j \in Nat /\ t[j] = q[m]
    BY <1>up
  <2>2. PICK n \in DOMAIN q : n = k + 1 /\ n # 1 /\ k \in Nat /\ t[k] = q[n]
    BY <1>up
  <2>3. m = n
    BY <2>1, <2>2 DEF CompletedOnce
  <2> QED
    BY <2>1, <2>2, <2>3, SMT
<1>4. ClosedLast(t, f)
  <2> SUFFICES ASSUME NEW j \in DOMAIN t, NEW k \in DOMAIN t,
                      t[j].k = "closed", t[k].k = "complete",
                      NEW io \in f[t[k].r], io.c = t[j].c
               PROVE  k < j
    BY DEF ClosedLast
  <2>1. PICK m \in DOMAIN q : m = j + 1 /\ m # 1 /\ j \in Nat /\ t[j] = q[m]
    BY <1>up
  <2>2. PICK n \in DOMAIN q : n = k + 1 /\ n # 1 /\ k \in Nat /\ t[k] = q[n]
    BY <1>up
  <2>3. n < m
    BY <2>1, <2>2 DEF ClosedLast
  <2> QED
    BY <2>1, <2>2, <2>3, SMT
<1>5. e.k = "req" => Queued(q, e.i)
  BY <1>1 DEF Queued
<1>6. e.k = "complete" => Completed(q, e.r) /\ (e.ok => CompletedOk(q, e.r))
  BY <1>1 DEF Completed, CompletedOk
<1>7. ASSUME e.k = "closed"
      PROVE  /\ HasClosed(q, e.c)
             /\ \A r \in RepIocb : Completed(q, r) => \A io \in f[r] : io.c # e.c
  <2>1. HasClosed(q, e.c)
    BY <1>7, <1>1 DEF HasClosed
  <2>2. ASSUME NEW r \in RepIocb, Completed(q, r), NEW io \in f[r], io.c = e.c
        PROVE  FALSE
    <3>1. PICK k \in DOMAIN q : q[k].k = "complete" /\ q[k].r = r
      BY <2>2 DEF Completed
    <3>2. k < 1
      BY <3>1, <2>2, <1>7, <1>1 DEF ClosedLast
    <3>3. k # 1
      BY <3>1, <1>7, <1>1
    <3> QED
      BY <3>2, <3>3, <1>1, LengthFacts, SMT
  <2> QED
    BY <2>1, <2>2
<1>8. ASSUME NEW i \in Iocb
      PROVE  Queued(t, i) <=> Queued(q, i) /\ ~(e.k = "req" /\ e.i = i)
  <2>1. ASSUME Queued(t, i) PROVE Queued(q, i) /\ ~(e.k = "req" /\ e.i = i)
    <3>1. PICK j \in DOMAIN t : t[j].k = "req" /\ t[j].i = i
      BY <2>1 DEF Queued
    <3>2. PICK m \in DOMAIN q : m # 1 /\ t[j] = q[m]
      BY <1>up
    <3> QED
      BY <3>1, <3>2, <1>1 DEF QueuedOnce, Queued
  <2>2. ASSUME Queued(q, i), ~(e.k = "req" /\ e.i = i) PROVE Queued(t, i)
    <3>1. PICK j \in DOMAIN q : q[j].k = "req" /\ q[j].i = i
      BY <2>2 DEF Queued
    <3>2. PICK k \in DOMAIN t : t[k] = q[j]
      BY <3>1, <2>2, <1>1, <1>down
    <3> QED
      BY <3>1, <3>2 DEF Queued
  <2> QED
    BY <2>1, <2>2
<1>9. ASSUME NEW r \in RepIocb
      PROVE  Completed(t, r) <=> Completed(q, r) /\ ~(e.k = "complete" /\ e.r = r)
  <2>1. ASSUME Completed(t, r) PROVE Completed(q, r) /\ ~(e.k = "complete" /\ e.r = r)
    <3>1. PICK j \in DOMAIN t : t[j].k = "complete" /\ t[j].r = r
      BY <2>1 DEF Completed
    <3>2. PICK m \in DOMAIN q : m # 1 /\ t[j] = q[m]
      BY <1>up
    <3> QED
      BY <3>1, <3>2, <1>1 DEF CompletedOnce, Completed
  <2>2. ASSUME Completed(q, r), ~(e.k = "complete" /\ e.r = r) PROVE Completed(t, r)
    <3>1. PICK j \in DOMAIN q : q[j].k = "complete" /\ q[j].r = r
      BY <2>2 DEF Completed
    <3>2. PICK k \in DOMAIN t : t[k] = q[j]
      BY <3>1, <2>2, <1>1, <1>down
    <3> QED
      BY <3>1, <3>2 DEF Completed
  <2> QED
    BY <2>1, <2>2
<1>10. ASSUME NEW r \in RepIocb, CompletedOk(t, r)
       PROVE  CompletedOk(q, r) /\ Completed(t, r)
  <2>1. PICK j \in DOMAIN t : t[j].k = "complete" /\ t[j].r = r /\ t[j].ok
    BY <1>10 DEF CompletedOk
  <2>2. PICK m \in DOMAIN q : t[j] = q[m]
    BY <1>up
  <2> QED
    BY <2>1, <2>2 DEF CompletedOk, Completed
<1>11. ASSUME NEW c \in Nat, HasClosed(t, c) PROVE HasClosed(q, c)
  <2>1. PICK j \in DOMAIN t : t[j].k = "closed" /\ t[j].c = c
    BY <1>11 DEF HasClosed
  <2>2. PICK m \in DOMAIN q : t[j] = q[m]
    BY <1>up
  <2> QED
    BY <2>1, <2>2 DEF HasClosed
<1> QED
  BY <1>1, <1>2, <1>3, <1>4, <1>5, <1>6, <1>7, <1>8, <1>9, <1>10, <1>11 DEF e, t

\* An event appended to the replicator's queue.
LEMMA PushEvent ==
    ASSUME NEW q \in Seq(Event), NEW e \in Event, NEW f
    PROVE  LET t == Append(q, e) IN
           /\ t \in Seq(Event)
           /\ QueuedOnce(q) /\ (e.k = "req" => ~Queued(q, e.i)) => QueuedOnce(t)
           /\ CompletedOnce(q) /\ (e.k = "complete" => ~Completed(q, e.r)) => CompletedOnce(t)
           /\ ClosedLast(q, f)
                 /\ (e.k = "complete" => \A c \in Nat : HasClosed(q, c) => \A io \in f[e.r] : io.c # c)
                 => ClosedLast(t, f)
           /\ \A i \in Iocb : Queued(t, i) <=> Queued(q, i) \/ (e.k = "req" /\ e.i = i)
           /\ \A r \in RepIocb : Completed(t, r) <=> Completed(q, r) \/ (e.k = "complete" /\ e.r = r)
           /\ \A r \in RepIocb :
                 CompletedOk(t, r) <=> CompletedOk(q, r) \/ (e.k = "complete" /\ e.r = r /\ e.ok)
           /\ \A c \in Nat : HasClosed(t, c) <=> HasClosed(q, c) \/ (e.k = "closed" /\ e.c = c)
<1> DEFINE t == Append(q, e)  l == Len(q) + 1
<1>1. /\ t \in Seq(Event)
      /\ \A j \in DOMAIN q : j \in DOMAIN t /\ j < l /\ t[j] = q[j] /\ q[j] \in Event
      /\ l \in DOMAIN t /\ t[l] = e /\ l \notin DOMAIN q
      /\ \A j \in DOMAIN t : j \in DOMAIN q \/ j = l
  BY AppendFacts, ElementFacts, LengthFacts, SMT
<1> HIDE DEF t, l
<1>2. QueuedOnce(q) /\ (e.k = "req" => ~Queued(q, e.i)) => QueuedOnce(t)
  BY <1>1 DEF QueuedOnce, Queued
<1>3. CompletedOnce(q) /\ (e.k = "complete" => ~Completed(q, e.r)) => CompletedOnce(t)
  BY <1>1 DEF CompletedOnce, Completed
<1>4. ASSUME ClosedLast(q, f),
             e.k = "complete" => \A c \in Nat : HasClosed(q, c) => \A io \in f[e.r] : io.c # c
      PROVE  ClosedLast(t, f)
  <2> SUFFICES ASSUME NEW j \in DOMAIN t, NEW k \in DOMAIN t,
                      t[j].k = "closed", t[k].k = "complete",
                      NEW io \in f[t[k].r], io.c = t[j].c
               PROVE  k < j
    BY DEF ClosedLast
  <2>1. CASE j = l
    BY <2>1, <1>1
  <2>2. CASE j # l /\ k # l
    BY <2>2, <1>1, <1>4, SMT DEF ClosedLast
  <2>3. CASE j # l /\ k = l
    <3>1. q[j].c \in Nat /\ HasClosed(q, q[j].c)
      BY <2>3, <1>1 DEF HasClosed, Event
    <3> QED
      BY <3>1, <2>3, <1>1, <1>4
  <2> QED
    BY <2>1, <2>2, <2>3
<1>5. \A i \in Iocb : Queued(t, i) <=> Queued(q, i) \/ (e.k = "req" /\ e.i = i)
  BY <1>1 DEF Queued
<1>6. \A r \in RepIocb : Completed(t, r) <=> Completed(q, r) \/ (e.k = "complete" /\ e.r = r)
  BY <1>1 DEF Completed
<1>7. \A r \in RepIocb :
         CompletedOk(t, r) <=> CompletedOk(q, r) \/ (e.k = "complete" /\ e.r = r /\ e.ok)
  BY <1>1 DEF CompletedOk
<1>8. \A c \in Nat : HasClosed(t, c) <=> HasClosed(q, c) \/ (e.k = "closed" /\ e.c = c)
  BY <1>1 DEF HasClosed
<1> QED
  BY <1>1, <1>2, <1>3, <1>4, <1>5, <1>6, <1>7, <1>8 DEF t

\* Requests appended to the replicator's queue.
LEMMA PushRequests ==
    ASSUME NEW q \in Seq(Event), NEW is \in Seq(Iocb), NEW f,
           QueuedOnce(q), CompletedOnce(q), ClosedLast(q, f), DelayedOnce(is),
           \A i \in Iocb : Delayed(is, i) => ~Queued(q, i)
    PROVE  LET t == q \o Requests(is) IN
           /\ t \in Seq(Event)
           /\ QueuedOnce(t) /\ CompletedOnce(t) /\ ClosedLast(t, f)
           /\ \A i \in Iocb : Queued(t, i) <=> Queued(q, i) \/ Delayed(is, i)
           /\ \A r \in RepIocb : Completed(t, r) <=> Completed(q, r)
           /\ \A r \in RepIocb : CompletedOk(t, r) <=> CompletedOk(q, r)
           /\ \A c \in Nat : HasClosed(t, c) <=> HasClosed(q, c)
<1> DEFINE u == Requests(is)  t == q \o u
<1>1. /\ u \in Seq(Event) /\ DOMAIN u = DOMAIN is
      /\ \A j \in DOMAIN u : u[j].k = "req" /\ u[j].i = is[j] /\ is[j] \in Iocb
  <2>1. DOMAIN is = 1..Len(is) /\ Len(is) \in Nat /\ \A j \in 1..Len(is) : is[j] \in Iocb
    BY LengthFacts, ElementFacts
  <2>2. u = [j \in 1..Len(is) |-> [k |-> "req", i |-> is[j]]]
    BY <2>1 DEF Requests
  <2>3. u \in [1..Len(is) -> Event]
    BY <2>1, <2>2, SMT DEF Event
  <2>4. u \in Seq(Event)
    BY <2>1, <2>3, FunctionSeq
  <2> QED
    BY <2>1, <2>2, <2>4, SMT
<1> HIDE DEF u
<1>2. /\ t \in Seq(Event)
      /\ \A j \in DOMAIN q : j \in DOMAIN t /\ j \in Nat /\ t[j] = q[j]
      /\ \A j \in DOMAIN u : j \in Nat /\ Len(q) + j \in DOMAIN t /\ t[Len(q) + j] = u[j]
      /\ \A j \in DOMAIN t :
            \/ j \in DOMAIN q
            \/ j - Len(q) \in DOMAIN u /\ j = Len(q) + (j - Len(q)) /\ \A k \in DOMAIN q : k < j
  BY <1>1, ConcatFacts
<1> HIDE DEF t
<1>old. ASSUME NEW j \in DOMAIN q
        PROVE  j \in DOMAIN t /\ j \in Nat /\ t[j] = q[j]
  BY <1>2
<1>new. ASSUME NEW j \in DOMAIN is
        PROVE  \E k \in DOMAIN t : t[k].k = "req" /\ t[k].i = is[j]
  <2>1. j \in DOMAIN u /\ u[j].k = "req" /\ u[j].i = is[j]
    BY <1>1
  <2>2. PICK k : k = Len(q) + j
    OBVIOUS
  <2>3. k \in DOMAIN t /\ t[k] = u[j]
    BY <1>2, <2>1, <2>2
  <2> QED
    BY <2>1, <2>3
<1>from. ASSUME NEW j \in DOMAIN t, j \notin DOMAIN q
         PROVE  /\ \A k \in DOMAIN q : k < j
                /\ \E k \in DOMAIN is : j = Len(q) + k /\ t[j].k = "req" /\ t[j].i = is[k]
  BY <1>1, <1>2, <1>from, SMTT(30)
<1>3. QueuedOnce(t)
  <2> SUFFICES ASSUME NEW j \in DOMAIN t, NEW k \in DOMAIN t,
                      t[j].k = "req", t[k].k = "req", t[j].i = t[k].i
               PROVE  j = k
    BY DEF QueuedOnce
  <2>1. CASE j \in DOMAIN q /\ k \in DOMAIN q
    BY <2>1, <1>old DEF QueuedOnce
  <2>2. CASE j \notin DOMAIN q /\ k \notin DOMAIN q
    <3>1. PICK m \in DOMAIN is : j = Len(q) + m /\ t[j].i = is[m]
      BY <2>2, <1>from
    <3>2. PICK n \in DOMAIN is : k = Len(q) + n /\ t[k].i = is[n]
      BY <2>2, <1>from
    <3> QED
      BY <3>1, <3>2 DEF DelayedOnce
  <2>3. ASSUME NEW x \in DOMAIN q, NEW y \in DOMAIN t, y \notin DOMAIN q,
               t[x].k = "req", t[x].i = t[y].i
        PROVE  FALSE
    <3>1. PICK n \in DOMAIN is : t[y].i = is[n]
      BY <2>3, <1>from
    <3> QED
      BY <3>1, <2>3, <1>old, <1>1, SMT DEF Queued, Delayed
  <2> QED
    BY <2>1, <2>2, <2>3
<1>4. CompletedOnce(t)
  BY <1>old, <1>from DEF CompletedOnce
<1>5. ClosedLast(t, f)
  BY <1>old, <1>from, SMT DEF ClosedLast
<1>6. \A i \in Iocb : Queued(t, i) <=> Queued(q, i) \/ Delayed(is, i)
  BY <1>old, <1>new, <1>from, SMT DEF Queued, Delayed
<1>7. \A r \in RepIocb : Completed(t, r) <=> Completed(q, r)
  BY <1>old, <1>from DEF Completed
<1>8. \A r \in RepIocb : CompletedOk(t, r) <=> CompletedOk(q, r)
  BY <1>old, <1>from DEF CompletedOk
<1>9. \A c \in Nat : HasClosed(t, c) <=> HasClosed(q, c)
  BY <1>old, <1>from DEF HasClosed
<1> QED
  BY <1>2, <1>3, <1>4, <1>5, <1>6, <1>7, <1>8, <1>9 DEF t, u

\* The order of events concerns only iocbs whose reply has arrived.
LEMMA ClosedLastFor ==
    ASSUME NEW q \in Seq(Event), NEW f, NEW g, ClosedLast(q, f),
           \A r \in RepIocb : Completed(q, r) => g[r] = f[r]
    PROVE  ClosedLast(q, g)
<1> SUFFICES ASSUME NEW j \in DOMAIN q, NEW k \in DOMAIN q,
                    q[j].k = "closed", q[k].k = "complete",
                    NEW io \in g[q[k].r], io.c = q[j].c
             PROVE  k < j
  BY DEF ClosedLast
<1>1. q[k] \in Event
  BY ElementFacts, LengthFacts
<1>2. q[k].r \in RepIocb
  BY <1>1 DEF Event
<1>3. g[q[k].r] = f[q[k].r]
  BY <1>2 DEF Completed
<1> QED
  BY <1>3 DEF ClosedLast

\* The queue of the delay thread.
LEMMA PopDelayed ==
    ASSUME NEW q \in Seq(Iocb), q # <<>>, DelayedOnce(q)
    PROVE  /\ Head(q) \in Iocb /\ Tail(q) \in Seq(Iocb)
           /\ DelayedOnce(Tail(q)) /\ Delayed(q, Head(q))
           /\ \A i \in Iocb : Delayed(Tail(q), i) <=> Delayed(q, i) /\ i # Head(q)
<1> DEFINE t == Tail(q)
<1>1. /\ t \in Seq(Iocb) /\ 1 \in DOMAIN q /\ Head(q) = q[1] /\ q[1] \in Iocb
      /\ \A j \in DOMAIN t : j + 1 \in DOMAIN q /\ j + 1 # 1 /\ j \in Nat /\ t[j] = q[j + 1]
      /\ \A j \in DOMAIN q : j # 1 => j \in Nat /\ j - 1 \in DOMAIN t /\ t[j - 1] = q[j]
  BY TailFacts
<1> HIDE DEF t
<1>2. ASSUME NEW j \in DOMAIN t
      PROVE  \E k \in DOMAIN q : k = j + 1 /\ k # 1 /\ j \in Nat /\ t[j] = q[k]
  BY <1>1
<1>3. ASSUME NEW j \in DOMAIN q, j # 1
      PROVE  \E k \in DOMAIN t : t[k] = q[j]
  BY <1>1, <1>3
<1>4. DelayedOnce(t)
  <2> SUFFICES ASSUME NEW j \in DOMAIN t, NEW k \in DOMAIN t, t[j] = t[k]
               PROVE  j = k
    BY DEF DelayedOnce
  <2>1. PICK m \in DOMAIN q : m = j + 1 /\ j \in Nat /\ t[j] = q[m]
    BY <1>2
  <2>2. PICK n \in DOMAIN q : n = k + 1 /\ k \in Nat /\ t[k] = q[n]
    BY <1>2
  <2>3. m = n
    BY <2>1, <2>2 DEF DelayedOnce
  <2> QED
    BY <2>1, <2>2, <2>3, SMT
<1>5. ASSUME NEW i \in Iocb
      PROVE  Delayed(t, i) <=> Delayed(q, i) /\ i # Head(q)
  <2>1. ASSUME Delayed(t, i) PROVE Delayed(q, i) /\ i # Head(q)
    <3>1. PICK j \in DOMAIN t : t[j] = i
      BY <2>1 DEF Delayed
    <3>2. PICK m \in DOMAIN q : m # 1 /\ t[j] = q[m]
      BY <1>2
    <3> QED
      BY <3>1, <3>2, <1>1 DEF DelayedOnce, Delayed
  <2>2. ASSUME Delayed(q, i), i # Head(q) PROVE Delayed(t, i)
    <3>1. PICK j \in DOMAIN q : q[j] = i
      BY <2>2 DEF Delayed
    <3>2. PICK k \in DOMAIN t : t[k] = q[j]
      BY <3>1, <2>2, <1>1, <1>3
    <3> QED
      BY <3>1, <3>2 DEF Delayed
  <2> QED
    BY <2>1, <2>2
<1> QED
  BY <1>1, <1>4, <1>5 DEF t, Delayed

\* An iocb appended to the queue of the delay thread.
LEMMA PushDelayed ==
    ASSUME NEW q \in Seq(Iocb), NEW e \in Iocb, DelayedOnce(q), ~Delayed(q, e)
    PROVE  /\ Append(q, e) \in Seq(Iocb)
           /\ DelayedOnce(Append(q, e))
           /\ \A i \in Iocb : Delayed(Append(q, e), i) <=> Delayed(q, i) \/ i = e
<1> DEFINE t == Append(q, e)  l == Len(q) + 1
<1>1. /\ t \in Seq(Iocb)
      /\ \A j \in DOMAIN q : j \in DOMAIN t /\ t[j] = q[j]
      /\ l \in DOMAIN t /\ t[l] = e
      /\ \A j \in DOMAIN t : j \in DOMAIN q \/ j = l
  BY AppendFacts
<1> HIDE DEF t, l
<1> QED
  BY <1>1 DEF t, DelayedOnce, Delayed

-----------------------------------------------------------------------------
(* What leaves the variables of an invariant alone keeps it.               *)

\* A step that leaves the replicator alone keeps its queues in order.
LEMMA QueueFrame ==
    ASSUME QueueInv, UNCHANGED replicator
    PROVE  QueueInv'
BY SMT
   DEF QueueInv, replicator, ReplicatorType, QueuedOnce, DelayedOnce, SentOnce, CompletedOnce,
       ClosedLast, ConnOK, Completed, HasClosed, Posting, Open, Current

\* A step that leaves queue, iocbs and connections alone keeps the count.
LEMMA ThrottleFrame ==
    ASSUME ThrottleOK, UNCHANGED <<repQ, rio, conns>>, disturbed \subseteq disturbed'
    PROVE  ThrottleOK'
BY DEF ThrottleOK, Unanswered, OnConn, Completed, Connected, Current

\* A step that leaves the server alone keeps its part of the invariant.
LEMMA ServerFrame ==
    ASSUME ServerInv, UNCHANGED server, UNCHANGED health
    PROVE  ServerInv'
BY SMT DEF ServerInv, server, ServerType, IocbOK, DoneOnce, LocalOK, Replying

\* A step that leaves messages, iocbs and data alone keeps the messages valid.
LEMMA WireFrame ==
    ASSUME WireInv, UNCHANGED <<sio, replicator, network, data, acked>>
    PROVE  WireInv'
BY SMT DEF WireInv, replicator, network, NetworkType, WireOK, Open, Completed, Posting, Current

\* A step that leaves requests and messages alone keeps their numbers apart.
LEMMA NumbersFrame ==
    ASSUME NumbersOK, UNCHANGED <<sio, reqs, peer, acked>>
    PROVE  NumbersOK'
BY DEF NumbersOK, Active

\* Requests enter or leave the queues; replies and closed connections do not.
LEMMA RequestsMove ==
    ASSUME QueueInv, UNCHANGED <<rio, conns>>,
           rep' \in RepState,
           \A r \in RepIocb : Posting(r)' => Posting(r),
           repQ' \in Seq(Event), delayed' \in Seq(Iocb),
           QueuedOnce(repQ'), CompletedOnce(repQ'), ClosedLast(repQ', rio), DelayedOnce(delayed'),
           \A r \in RepIocb : Completed(repQ', r) <=> Completed(repQ, r),
           \A c \in Nat : HasClosed(repQ', c) => HasClosed(repQ, c)
    PROVE  QueueInv'
<1>1. ReplicatorType'
  BY DEF QueueInv, ReplicatorType
<1>2. SentOnce'
  BY DEF QueueInv, SentOnce
<1>3. ConnOK'
  BY DEF QueueInv, ConnOK, Open, Current
<1> QED
  BY <1>1, <1>2, <1>3 DEF QueueInv

\* The count of the throttle stays exact when the same requests have replies.
LEMMA ThrottleKept ==
    ASSUME ThrottleOK, UNCHANGED <<rio, conns>>, disturbed \subseteq disturbed',
           \A r \in RepIocb : Completed(repQ', r) <=> Completed(repQ, r)
    PROVE  ThrottleOK'
<1>1. Unanswered(Current)' = Unanswered(Current)
  BY DEF Unanswered, OnConn, Current
<1> QED
  BY <1>1 DEF ThrottleOK, Connected, Current

-----------------------------------------------------------------------------
(* The dispatcher and the client's connection.                             *)

\* A request whose remote subtask is pending keeps its number, so the messages
\* for it stay valid.
LEMMA WireKept ==
    ASSUME Inv, NetworkType', OnePlace', UNCHANGED <<rep, rio, conns, network>>,
           \A r \in RepIocb : Completed(repQ, r)' => Completed(repQ, r),
           \A i \in Iocb : "remote" \in sio'[i].mask => sio'[i].n = sio[i].n
    PROVE  WireInv'
<1>1. \A r \in RepIocb : \A io \in rio[r] : sio'[io.i].n = sio[io.i].n
  BY SMT DEF Inv, QueueInv, ReplicatorType, OnePlace, Sent
<1>2. \A m \in peer : m.r \in RepIocb
  BY DEF Inv, WireInv, NetworkType
<1>3. \A x \in replies : x.r \in RepIocb
  BY DEF Inv, WireInv, NetworkType
<1>4. WireOK
  BY DEF Inv, WireInv
<1>5. UNCHANGED <<rep, rio, conns, peer, replies>>
  BY DEF network
<1>6. \A m \in peer' : m.c \in 1..Current'
  BY <1>4, <1>5 DEF WireOK, Current
<1>7. ASSUME NEW m \in peer', conns'[m.c].ok
      PROVE  /\ \E io \in rio'[m.r] : io.c = m.c /\ sio'[io.i].n = m.n
             /\ ~Completed(repQ, m.r)' /\ ~Posting(m.r)'
             /\ \A x \in replies' : x.r # m.r
             /\ \A l \in peer' : conns'[l.c].ok /\ l.r = m.r => l = m
  BY <1>7, <1>1, <1>2, <1>4, <1>5, SMT DEF WireOK, Posting
<1>8. ASSUME NEW x \in replies'
      PROVE  /\ Open(x.c)'
             /\ \E io \in rio'[x.r] : io.c = x.c
             /\ ~Completed(repQ, x.r)' /\ ~Posting(x.r)'
             /\ \A y \in replies' : x.r = y.r => x = y
  BY <1>3, <1>4, <1>5 DEF WireOK, Posting, Open
<1> QED
  BY <1>6, <1>7, <1>8 DEF WireInv, WireOK

\* Where iocbs are named.
LEMMA Named ==
    ASSUME Inv
    PROVE  /\ \A d \in done : d.i \in Iocb /\ d.sub \in Subtask /\ d.ok \in BOOLEAN
           /\ \A r \in RepIocb : \A io \in rio[r] : io.i \in Iocb
           /\ \A x \in replies : x.r \in RepIocb
           /\ \A d \in done : d.sub \in sio[d.i].mask
           /\ \A r \in RepIocb : \A io \in rio[r] : "remote" \in sio[io.i].mask
<1>1. \A d \in done : d.i \in Iocb /\ d.sub \in Subtask /\ d.ok \in BOOLEAN
  BY DEF Inv, ServerInv, ServerType
<1>2. \A r \in RepIocb : \A io \in rio[r] : io.i \in Iocb
  BY SMT DEF Inv, QueueInv, ReplicatorType
<1>3. \A x \in replies : x.r \in RepIocb
  BY DEF Inv, WireInv, NetworkType
<1>4. \A d \in done : d.sub \in sio[d.i].mask
  BY <1>1 DEF Inv, ServerInv, LocalOK, OnePlace, Answered, Subtask
<1>5. \A r \in RepIocb : \A io \in rio[r] : "remote" \in sio[io.i].mask
  BY <1>2 DEF Inv, OnePlace, Sent
<1> QED
  BY <1>1, <1>2, <1>3, <1>4, <1>5

Same(i) == sio'[i].n = sio[i].n /\ sio'[i].b = sio[i].b

\* A step that writes no data keeps what is known to be written, when a subtask
\* leaves the mask by its completion and a write is acknowledged with an empty
\* mask.
LEMMA StoredKept ==
    ASSUME Inv, data' = data, rio' = rio, replies' = replies, health' = health,
           disturbed \subseteq disturbed', done' \subseteq done,
           \A r \in RepIocb : CompletedOk(repQ, r)' => CompletedOk(repQ, r),
           \A d \in done' : sio'[d.i].mask # {},
           \A r \in RepIocb : \A io \in rio[r] : sio'[io.i].mask # {},
           \A i \in Iocb : sio'[i].mask # {} \/ Answering(i)' => Same(i),
           \A i \in Iocb : \A p \in Subtask :
               Answering(i)' /\ p \notin sio'[i].mask =>
                   \/ Answering(i) /\ p \notin sio[i].mask
                   \/ \E d \in done : d.i = i /\ d.sub = p /\ d.ok
                   \/ p = "remote" /\ health # "OK",
           \A b \in Block : \A n \in acked'[b] :
               \/ n \in acked[b]
               \/ \E i \in Iocb : Answering(i) /\ sio[i].mask = {} /\ sio[i].b = b /\ sio[i].n = n
    PROVE  StoredInv'
<1> USE DEF Subtask
<1>1. ASSUME NEW p, NEW i \in Iocb, sio'[i].mask # {} \/ Answering(i)'
      PROVE  Stored(p, i)' <=> Stored(p, i)
  BY <1>1 DEF Same, Stored
<1>2. LocalStored'
  <2>1. LocalStored
    BY DEF Inv, StoredInv
  <2>2. \A d \in done' : d.sub = "local" /\ d.ok => Stored("local", d.i)'
    BY <1>1, <2>1, Named, SMTT(30) DEF LocalStored
  <2>3. \A i \in Iocb : Answering(i)' /\ "local" \notin sio'[i].mask => Stored("local", i)'
    BY <1>1, <2>1, SMTT(30) DEF LocalStored
  <2>4. \A b \in Block : \A n \in acked'[b] : data'["local"][b] = n
    BY <2>1, SMTT(30) DEF LocalStored, Stored
  <2> QED
    BY <2>2, <2>3, <2>4 DEF LocalStored
<1>3. ASSUME RemoteStored
      PROVE  RemoteStored'
  <2>1. \A x \in replies' : x.ok => \A io \in rio'[x.r] : Stored("remote", io.i)'
    BY <1>1, <1>3, Named, SMTT(30) DEF RemoteStored
  <2>2. \A r \in RepIocb : CompletedOk(repQ, r)' => \A io \in rio'[r] : Stored("remote", io.i)'
    BY <1>1, <1>3, Named, SMTT(30) DEF RemoteStored
  <2>3. \A d \in done' : d.sub = "remote" /\ d.ok => Stored("remote", d.i)'
    BY <1>1, <1>3, Named, SMTT(30) DEF RemoteStored
  <2>4. health' = "OK" => \A i \in Iocb :
            Answering(i)' /\ "remote" \notin sio'[i].mask => Stored("remote", i)'
    BY <1>1, <1>3, SMTT(30) DEF RemoteStored
  <2>5. health' = "OK" => \A b \in Block : \A n \in acked'[b] : data'["remote"][b] = n
    BY <1>3, SMTT(30) DEF RemoteStored, Stored
  <2> QED
    BY <2>1, <2>2, <2>3, <2>4, <2>5 DEF RemoteStored
<1> QED
  BY <1>2, <1>3 DEF Inv, StoredInv, Calm

\* Requests keep number and block while they last.
LEMMA NumbersKept ==
    ASSUME Inv, UNCHANGED <<reqs, peer>>,
           \A i \in Iocb : Active(i)' => Active(i) /\ Same(i) /\ acked'[sio[i].b] = acked[sio[i].b]
    PROVE  NumbersOK'
BY SMT DEF Inv, NumbersOK, Same, Active

\* The remote subtasks stay where they are.
LEMMA PlaceKept ==
    ASSUME Inv, UNCHANGED replicator,
           \A i \in Iocb : Answered(i)' => Answered(i),
           \A i \in Iocb : "remote" \in sio[i].mask =>
               "remote" \in sio'[i].mask \/ (Answered(i) /\ ~Answered(i)')
    PROVE  OnePlace'
BY DEF Inv, OnePlace, replicator, Queued, Delayed, Sent, Reported

\* The step keeps what the replicator knows of the request of iocb r.
KeptFor(r) ==
    /\ rio'[r] = rio[r]
    /\ Completed(repQ', r) => Completed(repQ, r)
    /\ Posting(r)' => Posting(r)

\* Messages that stay on an open connection stay valid when the replicator
\* keeps their requests.
LEMMA WireShrinks ==
    ASSUME Inv, NetworkType', sio' = sio, Len(conns') \in Nat, Len(conns) <= Len(conns'),
           peer' \subseteq peer, replies' \subseteq replies,
           \A c \in 1..Len(conns) : conns'[c].ok => conns[c].ok,
           \A x \in replies' : Open(x.c)',
           \A m \in peer' : conns'[m.c].ok => KeptFor(m.r),
           \A x \in replies' : KeptFor(x.r)
    PROVE  WireInv'
<1>1. WireOK /\ Len(conns) \in Nat
  BY SMT DEF Inv, WireInv, QueueInv, ReplicatorType
<1>2. ASSUME NEW m \in peer'
      PROVE  m \in peer /\ m.c \in 1..Len(conns) /\ m.c \in 1..Len(conns')
  BY <1>1, <1>2, SMT DEF WireOK, Current
<1>3. ASSUME NEW m \in peer', conns'[m.c].ok
      PROVE  /\ \E io \in rio'[m.r] : io.c = m.c /\ sio'[io.i].n = m.n
             /\ ~Completed(repQ', m.r) /\ ~Posting(m.r)'
             /\ \A x \in replies' : x.r # m.r
             /\ \A l \in peer' : conns'[l.c].ok /\ l.r = m.r => l = m
  <2>1. conns[m.c].ok /\ m \in peer
    BY <1>2, <1>3
  <2>2. KeptFor(m.r)
    BY <1>3
  <2>3. \A l \in peer' : conns'[l.c].ok => conns[l.c].ok /\ l \in peer
    BY <1>2
  <2>4. /\ \E io \in rio[m.r] : io.c = m.c /\ sio[io.i].n = m.n
        /\ ~Completed(repQ, m.r) /\ ~Posting(m.r)
        /\ \A x \in replies : x.r # m.r
        /\ \A l \in peer : conns[l.c].ok /\ l.r = m.r => l = m
    BY <1>1, <2>1 DEF WireOK
  <2> QED
    BY <2>2, <2>3, <2>4 DEF KeptFor
<1>4. ASSUME NEW x \in replies'
      PROVE  /\ Open(x.c)'
             /\ \E io \in rio'[x.r] : io.c = x.c
             /\ ~Completed(repQ', x.r) /\ ~Posting(x.r)'
             /\ \A y \in replies' : x.r = y.r => x = y
  <2>1. KeptFor(x.r) /\ x \in replies /\ Open(x.c)'
    BY <1>4
  <2>2. /\ \E io \in rio[x.r] : io.c = x.c
        /\ ~Completed(repQ, x.r) /\ ~Posting(x.r)
        /\ \A y \in replies : x.r = y.r => x = y
    BY <1>1, <2>1 DEF WireOK
  <2> QED
    BY <2>1, <2>2 DEF KeptFor
<1>5. WireOK'
  BY <1>2, <1>3, <1>4 DEF WireOK, Current
<1> QED
  BY <1>5 DEF WireInv

\* A step that writes no data keeps what is known to be written, when it keeps
\* the requests that have a reply and completes what the peer has done.
LEMMA StoredStep ==
    ASSUME Inv, UNCHANGED <<sio, data, acked>>, disturbed \subseteq disturbed',
           health' = "OK" => health = "OK",
           replies' \subseteq replies,
           \A x \in replies' : rio'[x.r] = rio[x.r],
           \A r \in RepIocb : CompletedOk(repQ', r) => rio'[r] = rio[r],
           \A r \in RepIocb : CompletedOk(repQ', r) =>
               \/ CompletedOk(repQ, r)
               \/ \E x \in replies : x.r = r /\ x.ok,
           \A d \in done' :
               \/ d \in done
               \/ d.sub = "remote" /\ (d.ok /\ Calm' /\ RemoteStored => Stored("remote", d.i))
    PROVE  StoredInv'
<1>1. \A p, i : Stored(p, i)' <=> Stored(p, i)
  BY DEF Stored
<1>2. \A i \in Iocb : Answering(i)' <=> Answering(i)
  BY DEF Answering
<1>3. LocalStored'
  BY <1>1, <1>2 DEF Inv, StoredInv, LocalStored
<1>4. ASSUME RemoteStored, Calm' PROVE RemoteStored'
  <2>1. \A x \in replies' : x.ok => \A io \in rio'[x.r] : Stored("remote", io.i)'
    BY <1>1, <1>4 DEF RemoteStored
  <2>2. \A r \in RepIocb : CompletedOk(repQ', r) => \A io \in rio'[r] : Stored("remote", io.i)'
    BY <1>1, <1>4, SMT DEF RemoteStored
  <2>3. \A d \in done' : d.sub = "remote" /\ d.ok => Stored("remote", d.i)'
    BY <1>1, <1>4 DEF RemoteStored
  <2> QED
    BY <1>1, <1>2, <1>4, <2>1, <2>2, <2>3 DEF RemoteStored
<1>5. Calm' => Calm
  BY DEF Calm
<1> QED
  BY <1>3, <1>4, <1>5 DEF Inv, StoredInv

\* The special case without completions.
LEMMA StoredFrame ==
    ASSUME Inv, UNCHANGED <<sio, data, acked, health, done>>, disturbed \subseteq disturbed',
           replies' \subseteq replies,
           \A x \in replies' : rio'[x.r] = rio[x.r],
           \A r \in RepIocb : CompletedOk(repQ', r) => rio'[r] = rio[r],
           \A r \in RepIocb : CompletedOk(repQ', r) =>
               \/ CompletedOk(repQ, r)
               \/ \E x \in replies : x.r = r /\ x.ok
    PROVE  StoredInv'
<1>1. \A d \in done' : d \in done
  OBVIOUS
<1>2. health' = "OK" => health = "OK"
  OBVIOUS
<1> QED
  BY <1>1, <1>2, StoredStep

\* Requests move between the queues and the report.
LEMMA MoveInv ==
    ASSUME Inv, QueueInv', OnePlace',
           UNCHANGED <<server, health, rio, conns, network, data, acked, disturbed>>,
           \A r \in RepIocb : Posting(r)' => Posting(r),
           \A r \in RepIocb : Completed(repQ', r) <=> Completed(repQ, r),
           \A r \in RepIocb : CompletedOk(repQ', r) => CompletedOk(repQ, r)
    PROVE  Inv'
<1>1. ServerInv'
  BY ServerFrame DEF Inv
<1>2. ThrottleOK'
  BY ThrottleKept DEF Inv
<1>3. UNCHANGED <<sio, reqs, done, peer, replies>>
  BY DEF server, network
<1>4. WireInv'
  <2>1. NetworkType'
    BY <1>3 DEF Inv, WireInv, NetworkType
  <2>2. \A r \in RepIocb : KeptFor(r)
    BY DEF KeptFor
  <2>3. (\A m \in peer : m.r \in RepIocb) /\ (\A x \in replies : x.r \in RepIocb)
    BY DEF Inv, WireInv, NetworkType
  <2>4. \A x \in replies' : Open(x.c)'
    BY <1>3 DEF Inv, WireInv, WireOK, Open
  <2>5. Len(conns) \in Nat /\ Len(conns') \in Nat /\ Len(conns) <= Len(conns')
    BY SMT DEF Inv, QueueInv, ReplicatorType
  <2> QED
    BY <1>3, <2>1, <2>2, <2>3, <2>4, <2>5, WireShrinks
<1>5. NumbersOK'
  BY <1>3, NumbersFrame DEF Inv
<1>6. StoredInv'
  BY <1>3, StoredFrame
<1> QED
  BY <1>1, <1>2, <1>4, <1>5, <1>6 DEF Inv

\* The count of a connection changes, and nothing else of it.
SameConns ==
    /\ conns' \in Seq(Conn)
    /\ Len(conns') = Len(conns) /\ Len(conns) \in Nat
    /\ \A d \in 1..Len(conns) : conns'[d].ok = conns[d].ok

\* A connection is replaced by one with the same state.
LEMMA CountConn ==
    ASSUME Inv, NEW c \in 1..Len(conns), NEW y \in Conn, y.ok = conns[c].ok,
           conns' = [conns EXCEPT ![c] = y]
    PROVE  /\ SameConns /\ conns'[c] = y
           /\ \A d \in 1..Len(conns) : d # c => conns'[d] = conns[d]
           /\ Connected' <=> Connected
<1>1. conns \in Seq(Conn)
  BY DEF Inv, QueueInv, ReplicatorType
<1>2. Len(conns) \in Nat
  BY <1>1, SMT
<1>3. /\ conns' \in Seq(Conn) /\ Len(conns') = Len(conns)
      /\ \A d \in 1..Len(conns) : conns'[d] = IF d = c THEN y ELSE conns[d]
  BY <1>1, ExceptFacts, SMT
<1>4. \A d \in 1..Len(conns) : conns'[d].ok = conns[d].ok
  BY <1>3
<1>5. conns # <<>> /\ conns' # <<>> /\ Len(conns) \in 1..Len(conns)
  BY <1>1, <1>2, <1>3, SMTT(30)
<1>6. Connected' <=> Connected
  <2>1. Len(conns') = Len(conns) /\ conns'[Len(conns)].ok = conns[Len(conns)].ok
    BY <1>3, <1>4, <1>5
  <2> QED
    BY <1>5, <2>1 DEF Connected, Current
<1> QED
  BY <1>2, <1>3, <1>4, <1>6 DEF SameConns

\* get_throttle counts a request.
LEMMA CountUp ==
    ASSUME Inv, Connected, conns' = [conns EXCEPT ![Current].infly = @ + 1]
    PROVE  /\ SameConns /\ Connected'
           /\ Len(conns) \in 1..Len(conns)
           /\ conns[Len(conns)].infly \in Int /\ conns[Len(conns)].drift \in Int
           /\ conns'[Len(conns)].infly = conns[Len(conns)].infly + 1
           /\ conns'[Len(conns)].drift = conns[Len(conns)].drift
<1>1. conns \in Seq(Conn) /\ conns # <<>>
  BY DEF Inv, QueueInv, ReplicatorType, Connected
<1>2. Len(conns) \in 1..Len(conns)
  BY <1>1, SMT
<1>3. conns[Len(conns)] \in Conn
  BY <1>1, <1>2, ElementFacts
<1>4. PICK y : y = [conns[Len(conns)] EXCEPT !.infly = conns[Len(conns)].infly + 1]
  OBVIOUS
<1>5. /\ y \in Conn /\ y.ok = conns[Len(conns)].ok
      /\ y.infly = conns[Len(conns)].infly + 1 /\ conns[Len(conns)].infly \in Int
      /\ y.drift = conns[Len(conns)].drift /\ conns[Len(conns)].drift \in Int
  BY <1>3, <1>4, SMT DEF Conn
<1>6. conns' = [conns EXCEPT ![Len(conns)] = y]
  BY <1>4 DEF Current
<1>7. SameConns /\ conns'[Len(conns)] = y /\ Connected'
  <2>1. PICK c \in 1..Len(conns) : c = Len(conns)
    BY <1>2
  <2>2. conns' = [conns EXCEPT ![c] = y] /\ y.ok = conns[c].ok
    BY <1>5, <1>6, <2>1
  <2>3. SameConns /\ conns'[c] = y /\ (Connected' <=> Connected)
    BY <1>5, <2>2, CountConn
  <2> QED
    BY <2>1, <2>3
<1> QED
  BY <1>2, <1>5, <1>7

\* A reply gives the count of its request back.
LEMMA CountDown ==
    ASSUME Inv, NEW c \in 1..Len(conns), conns' = [conns EXCEPT ![c].infly = @ - 1]
    PROVE  /\ SameConns /\ (Connected' <=> Connected)
           /\ conns[c].infly \in Int /\ conns[c].drift \in Int
           /\ conns'[c].infly = conns[c].infly - 1 /\ conns'[c].drift = conns[c].drift
<1>1. conns \in Seq(Conn)
  BY DEF Inv, QueueInv, ReplicatorType
<1>2. conns[c] \in Conn
  BY <1>1, ElementFacts
<1>3. PICK y : y = [conns[c] EXCEPT !.infly = conns[c].infly - 1]
  OBVIOUS
<1>4. /\ y \in Conn /\ y.ok = conns[c].ok
      /\ y.infly = conns[c].infly - 1 /\ conns[c].infly \in Int
      /\ y.drift = conns[c].drift /\ conns[c].drift \in Int
  BY <1>2, <1>3, SMTT(30) DEF Conn
<1>5. conns' = [conns EXCEPT ![c] = y]
  BY <1>3
<1>6. SameConns /\ conns'[c] = y /\ (Connected' <=> Connected)
  BY <1>4, <1>5, CountConn
<1> QED
  BY <1>4, <1>6

\* A connection counts something else than a request.
LEMMA MiscountFacts ==
    ASSUME NEW k \in Conn, NEW n \in Int
    PROVE  /\ Miscount(k, n) \in Conn /\ Miscount(k, n).ok = k.ok
           /\ Miscount(k, n).infly - Miscount(k, n).drift = k.infly - k.drift
<1>1. k.ok \in BOOLEAN /\ k.unclean \in BOOLEAN /\ k.infly \in Int /\ k.drift \in Int
  BY DEF Conn
<1>2. k.infly + n \in Int /\ k.drift + n \in Int
      /\ (k.infly + n) - (k.drift + n) = k.infly - k.drift
  BY <1>1, SMT
<1>3. PICK y : y = Miscount(k, n)
  OBVIOUS
<1>4. y = [ok |-> k.ok, infly |-> k.infly + n, drift |-> k.drift + n, unclean |-> k.unclean]
  BY <1>3 DEF Miscount
<1>5. y \in Conn
  BY <1>1, <1>2, <1>4 DEF Conn
<1>6. y.ok = k.ok /\ y.infly = k.infly + n /\ y.drift = k.drift + n
  BY <1>4
<1> QED
  BY <1>2, <1>3, <1>5, <1>6

\* Something else than a request is counted, or given back without a count.
LEMMA Recount ==
    ASSUME Inv, Connected, NEW y \in Conn, y.ok = conns[Current].ok,
           y.infly - y.drift = conns[Current].infly - conns[Current].drift,
           conns' = [conns EXCEPT ![Current] = y],
           disturbed' \cap Miscounts # {}, rio' = rio,
           \A r \in RepIocb : Completed(repQ', r) <=> Completed(repQ, r),
           IsFiniteSet(RepIocb) => Cardinality(Unanswered(Current)) \in Nat
    PROVE  SameConns /\ ThrottleOK'
<1>1. conns \in Seq(Conn) /\ conns # <<>>
  BY DEF Inv, QueueInv, ReplicatorType, Connected
<1>2. Len(conns) \in 1..Len(conns)
  BY <1>1, SMT
<1>3. PICK c \in 1..Len(conns) : c = Len(conns)
  BY <1>2
<1>4. y.ok = conns[c].ok /\ conns' = [conns EXCEPT ![c] = y]
  BY <1>3 DEF Current
<1>5. SameConns /\ conns'[c] = y /\ (Connected' <=> Connected)
  BY <1>4, CountConn
<1>6. Current' = Current /\ Current = c
  BY <1>3, <1>5 DEF SameConns, Current
<1>7. Unanswered(Current)' = Unanswered(Current)
  BY <1>6 DEF Unanswered, OnConn
<1>8. conns[c] \in Conn
  BY <1>1, ElementFacts
<1>9. conns[c].infly = conns[c].drift + Cardinality(Unanswered(Current))
  BY <1>6 DEF Inv, ThrottleOK
<1>10. y.infly = y.drift + Cardinality(Unanswered(Current))
  <2>1. /\ y.infly \in Int /\ y.drift \in Int /\ conns[c].infly \in Int /\ conns[c].drift \in Int
    BY <1>8 DEF Conn
  <2>2. y.infly - y.drift = conns[c].infly - conns[c].drift
    BY <1>6
  <2>3. Cardinality(Unanswered(Current)) \in Nat
    BY StoreIOAssumption
  <2> QED
    BY <1>9, <2>1, <2>2, <2>3, SMT
<1> QED
  BY <1>5, <1>6, <1>7, <1>10 DEF ThrottleOK
=============================================================================
