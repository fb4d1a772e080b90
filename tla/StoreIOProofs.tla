--------------------------- MODULE StoreIOProofs ----------------------------
(***************************************************************************)
(* The steps of the peer and of the connections to it keep the invariant   *)
(* of StoreIO.  So it holds in every state, and so does what follows from  *)
(* it.                                                                     *)
(***************************************************************************)
EXTENDS StoreIOServerProofs, StoreIOReplicatorProofs, FiniteSetTheorems

\* Zenon proves the leaves that do not name another prover.
USE ZenonT(30)

-----------------------------------------------------------------------------
(* The connection and the peer.                                            *)

\* The peer answers a message; on an open connection it has answered no other
\* for that request.
LEMMA AnswerWire ==
    ASSUME Inv, NEW m \in peer, NEW ok \in BOOLEAN, Answer(m, ok),
           data' \in [Subtask -> [Block -> Nat]]
    PROVE  /\ WireInv' /\ ServerInv' /\ QueueInv' /\ OnePlace' /\ NumbersOK'
           /\ \A x \in replies' : x \in replies \/ (conns[m.c].ok /\ x.c = m.c /\ x.r = m.r /\ x.ok = ok)
<1>1. PICK x : x = [c |-> m.c, r |-> m.r, ok |-> ok]
  OBVIOUS
<1>2. x.c = m.c /\ x.r = m.r /\ x.ok = ok
  BY <1>1
<1>3. peer' = peer \ {m} /\ (replies' = replies \/ (conns[m.c].ok /\ replies' = replies \union {x}))
      /\ UNCHANGED <<server, health, replicator, acked>>
  BY <1>1 DEF Answer
<1>4. UNCHANGED <<sio, reqs, done, rep, repQ, delayed, rio, conns>>
  BY <1>3 DEF server, replicator
<1>5. ServerInv' /\ QueueInv'
  BY <1>3, ServerFrame, QueueFrame DEF Inv
<1>6. OnePlace'
  BY <1>4 DEF Inv, OnePlace, Queued, Delayed, Sent, Reported, Answered
<1>7. NumbersOK'
  BY <1>3, <1>4 DEF Inv, NumbersOK, Active
<1>8. WireOK /\ m \in [c : Nat, r : RepIocb, n : Nat, b : Block]
  BY DEF Inv, WireInv, NetworkType
<1>9. NetworkType'
  <2>1. x \in [c : Nat, r : RepIocb, ok : BOOLEAN]
    BY <1>1, <1>8
  <2> QED
    BY <1>3, <2>1 DEF Inv, WireInv, NetworkType
<1>10. WireOK'
  <2>1. \A q \in peer' : q.c \in 1..Current'
    BY <1>3, <1>4, <1>8 DEF WireOK, Current
  <2>2. ASSUME NEW q \in peer', conns'[q.c].ok
        PROVE  /\ \E y \in rio'[q.r] : y.c = q.c /\ sio'[y.i].n = q.n
               /\ ~Completed(repQ, q.r)' /\ ~Posting(q.r)'
               /\ \A y \in replies' : y.r # q.r
               /\ \A l \in peer' : conns'[l.c].ok /\ l.r = q.r => l = q
    <3>1. q \in peer /\ q # m /\ conns[q.c].ok
      BY <1>3, <1>4, <2>2
    <3>2. /\ \E y \in rio[q.r] : y.c = q.c /\ sio[y.i].n = q.n
          /\ ~Completed(repQ, q.r) /\ ~Posting(q.r)
          /\ \A y \in replies : y.r # q.r
          /\ \A l \in peer : conns[l.c].ok /\ l.r = q.r => l = q
      BY <1>8, <3>1 DEF WireOK
    <3>3. \A y \in replies' : y.r # q.r
      BY <1>2, <1>3, <3>1, <3>2
    <3> QED
      BY <1>3, <1>4, <3>2, <3>3 DEF Completed, Posting
  <2>3. ASSUME NEW y \in replies'
        PROVE  /\ Open(y.c)' /\ (\E io \in rio'[y.r] : io.c = y.c)
               /\ ~Completed(repQ, y.r)' /\ ~Posting(y.r)'
               /\ \A z \in replies' : y.r = z.r => y = z
    <3>1. CASE y \in replies
      <4>1. /\ Open(y.c) /\ (\E io \in rio[y.r] : io.c = y.c)
            /\ ~Completed(repQ, y.r) /\ ~Posting(y.r)
            /\ \A z \in replies : y.r = z.r => y = z
        BY <1>8, <3>1 DEF WireOK
      <4>2. \A z \in replies' : y.r = z.r => y = z
        BY <1>2, <1>3, <1>8, <3>1, <4>1, SMTT(30) DEF WireOK
      <4> QED
        BY <1>4, <4>1, <4>2 DEF Completed, Posting, Open
    <3>2. CASE y = x /\ conns[m.c].ok
      <4>1. /\ m.c \in 1..Len(conns) /\ (\E io \in rio[m.r] : io.c = m.c)
            /\ ~Completed(repQ, m.r) /\ ~Posting(m.r)
            /\ \A z \in replies : m.r # z.r
        BY <1>8, <3>2 DEF WireOK, Current
      <4>2. \A z \in replies' : y.r = z.r => y = z
        BY <1>2, <1>3, <3>2, <4>1
      <4>3. y.c = m.c /\ y.r = m.r
        BY <1>2, <3>2
      <4> QED
        BY <1>4, <3>2, <4>1, <4>2, <4>3 DEF Completed, Posting, Open
    <3> QED
      BY <1>3, <3>1, <3>2
  <2> QED
    BY <2>1, <2>2, <2>3 DEF WireOK
<1>11. \A y \in replies' : y \in replies \/ (conns[m.c].ok /\ y.c = m.c /\ y.r = m.r /\ y.ok = ok)
  BY <1>2, <1>3
<1> QED
  BY <1>5, <1>6, <1>7, <1>9, <1>10, <1>11 DEF WireInv

\* The peer refuses a message.
LEMMA PeerRefusesInv ==
    ASSUME Inv, NEW m \in peer, PeerRefuses(m)
    PROVE  Inv'
<1>1. PICK ok \in BOOLEAN : ok = FALSE
  OBVIOUS
<1>2. Answer(m, ok)
  BY <1>1 DEF PeerRefuses
<1>3. UNCHANGED <<data, disturbed, health, acked, server, replicator>>
  BY DEF PeerRefuses, Answer
<1>4. data' \in [Subtask -> [Block -> Nat]]
  BY <1>3 DEF Inv, WireInv, NetworkType
<1>5. /\ WireInv' /\ ServerInv' /\ QueueInv' /\ OnePlace' /\ NumbersOK'
      /\ \A x \in replies' : x \in replies \/ (conns[m.c].ok /\ x.c = m.c /\ x.r = m.r /\ x.ok = ok)
  BY <1>2, <1>4, AnswerWire
<1>6. ThrottleOK'
  BY <1>3, ThrottleFrame DEF Inv, replicator
<1>7. UNCHANGED <<sio, done, repQ, rio>>
  BY <1>3 DEF server, replicator
<1>8. StoredInv'
  <2>1. LocalStored'
    BY <1>3, <1>7 DEF Inv, StoredInv, LocalStored, Stored, Answering
  <2>2. ASSUME RemoteStored PROVE RemoteStored'
    <3>1. \A i : Stored("remote", i)' <=> Stored("remote", i)
      BY <1>3, <1>7 DEF Stored
    <3>2. \A x \in replies' : x.ok => \A io \in rio'[x.r] : Stored("remote", io.i)'
      BY <1>1, <1>5, <1>7, <2>2, <3>1 DEF RemoteStored
    <3>3. \A r \in RepIocb : CompletedOk(repQ, r)' <=> CompletedOk(repQ, r)
      BY <1>7 DEF CompletedOk
    <3>4. \A i \in Iocb : Answering(i)' <=> Answering(i)
      BY <1>7 DEF Answering
    <3> QED
      BY <1>3, <1>7, <2>2, <3>1, <3>2, <3>3, <3>4 DEF RemoteStored
  <2> QED
    BY <1>3, <2>1, <2>2 DEF Inv, StoredInv, Calm
<1> QED
  BY <1>5, <1>6, <1>8 DEF Inv

\* The peer executes a message.  Without a late original its iocb still waits
\* for the subtask, and no other request is to that block.
LEMMA PeerExecutesInv ==
    ASSUME Inv, NEW m \in peer, PeerExecutes(m)
    PROVE  Inv'
<1>1. PICK ok \in BOOLEAN :
          /\ Disturb({x \in {"late_original"} : ~RemotePending(m.n)}
                     \union {x \in {"disk_error"} : ~ok})
          /\ Answer(m, ok)
  BY DEF PeerExecutes
<1>2. Answer(m, ok)
  BY <1>1
<1>3. UNCHANGED <<health, acked, server, replicator>> /\ disturbed \subseteq disturbed'
  BY DEF PeerExecutes, Answer, Disturb
<1>4. data' = [data EXCEPT !["remote"][m.b] = m.n]
  BY DEF PeerExecutes
<1>5. m.b \in Block /\ m.n \in Nat /\ data \in [Subtask -> [Block -> Nat]]
  BY DEF Inv, WireInv, NetworkType
<1>6. /\ data' \in [Subtask -> [Block -> Nat]] /\ data'["local"] = data["local"]
      /\ \A b \in Block : data'["remote"][b] = IF b = m.b THEN m.n ELSE data["remote"][b]
  BY <1>4, <1>5 DEF Subtask
<1>7. /\ WireInv' /\ ServerInv' /\ QueueInv' /\ OnePlace' /\ NumbersOK'
      /\ \A x \in replies' : x \in replies \/ (conns[m.c].ok /\ x.c = m.c /\ x.r = m.r /\ x.ok = ok)
  BY <1>2, <1>6, AnswerWire
<1>8. ThrottleOK'
  BY <1>3, ThrottleFrame DEF Inv, replicator
<1>9. UNCHANGED <<sio, done, repQ, rio>>
  BY <1>3 DEF server, replicator
<1>10. LocalStored'
  <2>1. \A i : Stored("local", i)' <=> Stored("local", i)
    BY <1>6, <1>9 DEF Stored
  <2> QED
    BY <1>3, <1>6, <1>9, <2>1 DEF Inv, StoredInv, LocalStored, Answering
<1>11. ASSUME RemoteStored, Calm' PROVE RemoteStored'
  <2>1. "late_original" \notin disturbed'
    BY <1>11 DEF Calm
  <2>2. RemotePending(m.n)
    BY <1>1, <2>1 DEF Disturb
  <2>3. PICK j \in Iocb : sio[j].n = m.n /\ "remote" \in sio[j].mask
    BY <2>2 DEF RemotePending
  <2>4. \A i \in Iocb : sio[i].mask # {} => Active(i)
    BY DEF Inv, ServerInv, IocbOK, Active
  <2>5. sio[j].b = m.b /\ acked[m.b] = {} /\ Active(j)
    BY <2>3, <2>4 DEF Inv, NumbersOK
  <2>6. \A i \in Iocb : Active(i) /\ (sio[i].b = m.b \/ sio[i].n = m.n) => i = j
    BY <2>3, <2>5 DEF Inv, NumbersOK
  <2>7. \A i \in Iocb : sio[i].b \in Block
    BY DEF Inv, ServerInv, ServerType, ServerIocb
  <2>8. Stored("remote", j)'
    BY <1>6, <1>9, <2>3, <2>5, <2>7 DEF Stored
  <2>9. \A i \in Iocb : Active(i) /\ Stored("remote", i) => Stored("remote", i)'
    <3>1. SUFFICES ASSUME NEW i \in Iocb, Active(i), Stored("remote", i), i # j
                   PROVE  Stored("remote", i)'
      BY <2>8
    <3>2. sio[i].b # m.b
      BY <2>6, <3>1
    <3> QED
      BY <1>6, <1>9, <2>7, <3>1, <3>2 DEF Stored
  <2>10. \A x \in replies' : x.ok => \A io \in rio'[x.r] : Stored("remote", io.i)'
    <3>1. SUFFICES ASSUME NEW x \in replies', x.ok, NEW io \in rio[x.r]
                   PROVE  Stored("remote", io.i)'
      BY <1>9
    <3>2. CASE x \in replies
      BY <1>11, <2>4, <2>9, <3>1, <3>2, Named DEF RemoteStored
    <3>3. CASE conns[m.c].ok /\ x.r = m.r
      <4>1. m.r \in RepIocb /\ \E y \in rio[m.r] : y.c = m.c /\ sio[y.i].n = m.n
        BY <3>3 DEF Inv, WireInv, NetworkType, WireOK
      <4>2. sio[io.i].n = m.n
        BY <3>1, <3>3, <4>1 DEF Inv, QueueInv, ReplicatorType
      <4>3. io.i \in Iocb /\ Active(io.i)
        BY <2>4, <3>1, <3>3, <4>1, Named
      <4> QED
        BY <2>6, <2>8, <4>2, <4>3
    <3> QED
      BY <1>7, <3>2, <3>3
  <2>11. \A r \in RepIocb : CompletedOk(repQ, r)' => \A io \in rio'[r] : Stored("remote", io.i)'
    BY <1>9, <1>11, <2>4, <2>9, Named DEF RemoteStored, CompletedOk
  <2>12. \A d \in done' : d.sub = "remote" /\ d.ok => Stored("remote", d.i)'
    BY <1>9, <1>11, <2>4, <2>9, Named DEF RemoteStored
  <2>13. health' = "OK" => \A i \in Iocb : Answering(i)' /\ "remote" \notin sio'[i].mask => Stored("remote", i)'
    BY <1>3, <1>9, <1>11, <2>9 DEF RemoteStored, Answering, Active
  <2>14. health' = "OK" => \A b \in Block : \A n \in acked'[b] : data'["remote"][b] = n
    BY <1>3, <1>6, <1>11, <2>5 DEF RemoteStored
  <2> QED
    BY <2>10, <2>11, <2>12, <2>13, <2>14 DEF RemoteStored
<1>12. Calm' => Calm
  BY <1>3 DEF Calm
<1> QED
  BY <1>7, <1>8, <1>10, <1>11, <1>12 DEF Inv, StoredInv

\* replicator_on_tcp_network_done for a reply.
LEMMA ReplyArrivesInv ==
    ASSUME CardinalityFacts, Inv, NEW x \in replies, ReplyArrives(x)
    PROVE  Inv'
<1>1. /\ replies' = replies \ {x} /\ conns' = [conns EXCEPT ![x.c].infly = @ - 1]
      /\ repQ' = Append(repQ, [k |-> "complete", r |-> x.r, ok |-> x.ok])
      /\ UNCHANGED <<server, health, rep, delayed, rio, peer, data, acked, disturbed>>
  BY DEF ReplyArrives
<1>2. /\ x.c \in 1..Len(conns) /\ conns[x.c].ok
      /\ ~Completed(repQ, x.r) /\ ~Posting(x.r) /\ (\E io \in rio[x.r] : io.c = x.c)
      /\ \A y \in replies : x.r = y.r => x = y
  BY DEF Inv, WireInv, WireOK, Open
<1>3. x.r \in RepIocb /\ x.ok \in BOOLEAN
  BY DEF Inv, WireInv, NetworkType
<1>4. x.c = Len(conns)
  BY <1>2 DEF Inv, QueueInv, ConnOK, Current
<1>5. PICK e : e = [k |-> "complete", r |-> x.r, ok |-> x.ok]
  OBVIOUS
<1>6. e \in Event /\ e.k = "complete" /\ e.r = x.r /\ e.ok = x.ok
  BY <1>3, <1>5 DEF Event
<1>7. repQ' = Append(repQ, e)
  BY <1>1, <1>5
<1>8. repQ \in Seq(Event) /\ QueuedOnce(repQ) /\ CompletedOnce(repQ) /\ ClosedLast(repQ, rio)
  BY DEF Inv, QueueInv, ReplicatorType
<1>9. \A io \in rio[x.r] : io.c = x.c
  BY <1>2, <1>3 DEF Inv, QueueInv, ReplicatorType
<1>10. \A c \in Nat : HasClosed(repQ, c) => \A io \in rio[e.r] : io.c # c
  BY <1>2, <1>6, <1>9 DEF Inv, QueueInv, ConnOK
<1>11. /\ repQ' \in Seq(Event)
       /\ QueuedOnce(repQ') /\ CompletedOnce(repQ') /\ ClosedLast(repQ', rio)
       /\ \A i \in Iocb : Queued(repQ', i) <=> Queued(repQ, i)
       /\ \A r \in RepIocb : Completed(repQ', r) <=> Completed(repQ, r) \/ r = x.r
       /\ \A r \in RepIocb : CompletedOk(repQ', r) => CompletedOk(repQ, r) \/ (r = x.r /\ x.ok)
       /\ \A c \in Nat : HasClosed(repQ', c) => HasClosed(repQ, c)
  BY <1>2, <1>6, <1>7, <1>8, <1>10, PushEvent, SMTT(30)
<1>12. /\ SameConns /\ (Connected' <=> Connected)
       /\ conns[x.c].infly \in Int /\ conns'[x.c].infly = conns[x.c].infly - 1
       /\ conns[x.c].drift \in Int /\ conns'[x.c].drift = conns[x.c].drift
  <2>1. PICK c \in 1..Len(conns) : c = x.c
    BY <1>2
  <2>2. conns' = [conns EXCEPT ![c].infly = @ - 1]
    BY <1>1, <2>1
  <2>3. /\ SameConns /\ (Connected' <=> Connected)
        /\ conns[c].infly \in Int /\ conns'[c].infly = conns[c].infly - 1
        /\ conns[c].drift \in Int /\ conns'[c].drift = conns[c].drift
    BY <2>2, CountDown
  <2> QED
    BY <2>1, <2>3
<1>13. UNCHANGED <<sio, reqs, done>>
  BY <1>1 DEF server
<1>14. \A r \in RepIocb : Posting(r)' <=> Posting(r)
  BY <1>1 DEF Posting
<1>15. ServerInv'
  BY <1>1, ServerFrame DEF Inv
<1>16. QueueInv'
  <2>1. ReplicatorType'
    BY <1>1, <1>11, <1>12 DEF Inv, QueueInv, ReplicatorType, SameConns
  <2>2. SentOnce' /\ DelayedOnce(delayed') /\ ClosedLast(repQ', rio')
    BY <1>1, <1>11 DEF Inv, QueueInv, SentOnce
  <2>3. ConnOK'
    <3>1. ConnOK /\ Current' = Current /\ Current = Len(conns)
      BY <1>12 DEF Inv, QueueInv, SameConns, Current
    <3>2. \A c \in 1..Current : conns'[c].ok = conns[c].ok
      BY <1>12 DEF SameConns, Current
    <3>3. \A c \in 1..Current' : conns'[c].ok => c = Current'
      BY <3>1, <3>2 DEF ConnOK
    <3>4. \A q \in RepIocb : \A io \in rio'[q] : io.c \in 1..Current'
      BY <1>1, <3>1 DEF ConnOK
    <3>5. \A q \in RepIocb : /\ Posting(q)' \/ Completed(repQ', q) => rio'[q] # {}
                             /\ Posting(q)' => ~Completed(repQ', q)
      BY <1>1, <1>2, <1>11, <1>14, <3>1 DEF ConnOK
    <3>6. \A c \in Nat : HasClosed(repQ', c) => c \in 1..Current' /\ ~conns'[c].ok
      BY <1>11, <3>1, <3>2 DEF ConnOK
    <3> QED
      BY <3>3, <3>4, <3>5, <3>6 DEF ConnOK
  <2> QED
    BY <1>11, <2>1, <2>2, <2>3 DEF QueueInv
<1>17. OnePlace'
  <2>1. \A j \in Iocb : /\ Delayed(delayed, j)' <=> Delayed(delayed, j)
                        /\ Sent(j)' <=> Sent(j)
                        /\ Reported(j)' <=> Reported(j)
                        /\ Answered(j)' <=> Answered(j)
    BY <1>1, <1>13 DEF Delayed, Sent, Reported, Answered
  <2> QED
    BY <1>11, <1>13, <2>1 DEF Inv, OnePlace
<1>18. ThrottleOK'
  <2>1. PICK W : W = Unanswered(Len(conns))
    OBVIOUS
  <2>2. x.r \in W /\ W \subseteq RepIocb
    BY <1>2, <1>3, <1>4, <2>1 DEF Unanswered, OnConn
  <2>3. IsFiniteSet(W)
    BY <2>2, StoreIOAssumption DEF CardinalityFacts
  <2>4. Cardinality(W \ {x.r}) = Cardinality(W) - 1 /\ Cardinality(W) \in Nat
    <3>1. PICK q \in W : q = x.r
      BY <2>2
    <3>2. Cardinality(W \ {q}) = Cardinality(W) - 1 /\ Cardinality(W) \in Nat
      BY <2>3 DEF CardinalityFacts
    <3> QED
      BY <3>1, <3>2
  <2>5. Current' = Len(conns) /\ Current = Len(conns)
    BY <1>12 DEF SameConns, Current
  <2>6. Unanswered(Current)' = W \ {x.r}
    BY <1>1, <1>11, <2>1, <2>5 DEF Unanswered, OnConn
  <2>7. Connected => /\ conns[Len(conns)].infly = conns[Len(conns)].drift + Cardinality(W)
                     /\ disturbed \cap Miscounts = {} => conns[Len(conns)].drift = 0
    BY <2>1, <2>5 DEF Inv, ThrottleOK
  <2>8. conns[Len(conns)].infly = conns[Len(conns)].drift + Cardinality(W)
        => conns'[Len(conns)].infly = conns'[Len(conns)].drift + Cardinality(W \ {x.r})
    BY <1>4, <1>12, <2>4, SMT
  <2> QED
    BY <1>1, <1>4, <1>12, <2>5, <2>6, <2>7, <2>8 DEF ThrottleOK
<1>19. WireInv'
  <2>1. NetworkType'
    BY <1>1 DEF Inv, WireInv, NetworkType
  <2>2. \A q \in RepIocb : q # x.r => KeptFor(q)
    BY <1>1, <1>11, <1>14 DEF KeptFor
  <2>3. /\ \A m \in peer : m.r \in RepIocb /\ m.c \in 1..Len(conns)
        /\ \A y \in replies' : y.r \in RepIocb /\ y.r # x.r /\ y.c \in 1..Len(conns) /\ conns[y.c].ok
        /\ \A m \in peer : conns[m.c].ok => m.r # x.r
    BY <1>1, <1>2 DEF Inv, WireInv, NetworkType, WireOK, Current, Open
  <2>4. \A y \in replies' : Open(y.c)'
    BY <1>12, <2>3 DEF Open, SameConns
  <2>5. \A m \in peer' : conns'[m.c].ok => KeptFor(m.r)
    BY <1>1, <1>12, <2>2, <2>3 DEF SameConns
  <2>6. \A y \in replies' : KeptFor(y.r)
    BY <2>2, <2>3
  <2> QED
    BY <1>1, <1>12, <1>13, <2>1, <2>4, <2>5, <2>6, WireShrinks, SMTT(30) DEF SameConns
<1>20. NumbersOK'
  BY <1>1, <1>13, NumbersFrame DEF Inv
<1>21. StoredInv'
  BY <1>1, <1>11, <1>13, StoredFrame
<1> QED
  BY <1>15, <1>16, <1>17, <1>18, <1>19, <1>20, <1>21 DEF Inv

\* The connection to the peer closes.
LEMMA ConnCloseInv ==
    ASSUME Inv, ConnClose
    PROVE  Inv'
<1>1. PICK u \in BOOLEAN : u = (conns[Current].unclean \/ Waiting(Current) # {})
  OBVIOUS
<1>2. /\ Connected /\ replies' = {} /\ peer' \subseteq peer
      /\ conns' = [conns EXCEPT ![Current] = [@ EXCEPT !.ok = FALSE, !.unclean = u]]
      /\ repQ' = IF u THEN Append(repQ, [k |-> "closed", c |-> Current]) ELSE repQ
      /\ UNCHANGED <<server, health, rep, delayed, rio, data, acked, disturbed>>
  <2>1. /\ conns' = [conns EXCEPT ![Current] = [@ EXCEPT !.ok = FALSE, !.unclean = u]]
        /\ repQ' = IF u THEN Append(repQ, [k |-> "closed", c |-> Current]) ELSE repQ
    BY <1>1 DEF ConnClose
  <2>2. /\ Connected /\ replies' = {} /\ peer' \subseteq peer
        /\ UNCHANGED <<server, health, rep, delayed, rio, data, acked, disturbed>>
    BY DEF ConnClose
  <2> QED
    BY <2>1, <2>2
<1>3. conns \in Seq(Conn) /\ conns # <<>>
  BY <1>2 DEF Inv, QueueInv, ReplicatorType, Connected
<1>4. Len(conns) \in 1..Len(conns) /\ Len(conns) \in Nat
  BY <1>3, SMTT(30)
<1>5. PICK y : y = [conns[Len(conns)] EXCEPT !.ok = FALSE, !.unclean = u]
  OBVIOUS
<1>6. y \in Conn /\ ~y.ok
  <2>1. conns[Len(conns)] \in Conn
    BY <1>3, <1>4, ElementFacts
  <2>2. PICK z : z = [conns[Len(conns)] EXCEPT !.ok = FALSE]
    OBVIOUS
  <2>3. z \in Conn /\ z.ok = FALSE
    <3>1. PICK f \in BOOLEAN : f = FALSE
      OBVIOUS
    <3>2. z = [conns[Len(conns)] EXCEPT !.ok = f]
      BY <2>2, <3>1
    <3>3. z \in Conn /\ z.ok = f
      BY <2>1, <3>2 DEF Conn
    <3> QED
      BY <3>1, <3>3
  <2>4. y = [z EXCEPT !.unclean = u]
    BY <1>5, <2>2
  <2>5. y \in Conn /\ y.ok = z.ok
    BY <2>3, <2>4 DEF Conn
  <2> QED
    BY <2>3, <2>5
<1>7. conns' = [conns EXCEPT ![Len(conns)] = y]
  BY <1>2, <1>5 DEF Current
<1>8. /\ conns' \in Seq(Conn) /\ Len(conns') = Len(conns)
      /\ \A d \in 1..Len(conns) : conns'[d] = IF d = Len(conns) THEN y ELSE conns[d]
  BY <1>3, <1>4, <1>6, <1>7, ExceptFacts, SMTT(30)
<1>9. \A d \in 1..Len(conns) : ~conns'[d].ok
  BY <1>6, <1>8 DEF Inv, QueueInv, ConnOK, Current
<1>10. repQ \in Seq(Event) /\ QueuedOnce(repQ) /\ CompletedOnce(repQ) /\ ClosedLast(repQ, rio)
  BY DEF Inv, QueueInv, ReplicatorType
<1>11. /\ repQ' \in Seq(Event)
       /\ QueuedOnce(repQ') /\ CompletedOnce(repQ') /\ ClosedLast(repQ', rio)
       /\ \A i \in Iocb : Queued(repQ', i) <=> Queued(repQ, i)
       /\ \A r \in RepIocb : Completed(repQ', r) <=> Completed(repQ, r)
       /\ \A r \in RepIocb : CompletedOk(repQ', r) => CompletedOk(repQ, r)
       /\ \A c \in Nat : HasClosed(repQ', c) => HasClosed(repQ, c) \/ c = Len(conns)
  <2>1. CASE u
    <3>1. PICK e : e = [k |-> "closed", c |-> Len(conns)]
      OBVIOUS
    <3>2. e \in Event /\ e.k = "closed" /\ e.c = Len(conns)
      BY <1>4, <3>1 DEF Event
    <3>3. repQ' = Append(repQ, e)
      BY <1>2, <2>1, <3>1 DEF Current
    <3> QED
      BY <1>10, <3>2, <3>3, PushEvent
  <2>2. CASE ~u
    BY <1>2, <1>10, <2>2
  <2> QED
    BY <2>1, <2>2
<1>12. UNCHANGED <<sio, reqs, done, rep, delayed, rio>>
  BY <1>2 DEF server
<1>13. ServerInv'
  BY <1>2, ServerFrame DEF Inv
<1>14. QueueInv'
  <2>1. ReplicatorType'
    BY <1>8, <1>11, <1>12 DEF Inv, QueueInv, ReplicatorType
  <2>2. SentOnce' /\ DelayedOnce(delayed') /\ ClosedLast(repQ', rio')
    BY <1>11, <1>12 DEF Inv, QueueInv, SentOnce
  <2>3. ConnOK'
    <3>1. ConnOK /\ Current' = Current /\ Current = Len(conns)
      BY <1>8 DEF Inv, QueueInv, Current
    <3>2. \A q \in RepIocb : Posting(q)' <=> Posting(q)
      BY <1>12 DEF Posting
    <3>3. \A c \in Nat : HasClosed(repQ', c) => c \in 1..Current' /\ ~conns'[c].ok
      BY <1>4, <1>9, <1>11, <3>1 DEF ConnOK
    <3> QED
      BY <1>9, <1>11, <1>12, <3>1, <3>2, <3>3 DEF ConnOK
  <2> QED
    BY <1>11, <2>1, <2>2, <2>3 DEF QueueInv
<1>15. OnePlace'
  <2>1. \A j \in Iocb : /\ Delayed(delayed, j)' <=> Delayed(delayed, j)
                        /\ Sent(j)' <=> Sent(j)
                        /\ Reported(j)' <=> Reported(j)
                        /\ Answered(j)' <=> Answered(j)
    BY <1>12 DEF Delayed, Sent, Reported, Answered
  <2> QED
    BY <1>11, <1>12, <2>1 DEF Inv, OnePlace
<1>16. ThrottleOK'
  BY <1>4, <1>8, <1>9 DEF ThrottleOK, Connected, Current
<1>17. WireInv'
  <2>1. NetworkType'
    BY <1>2 DEF Inv, WireInv, NetworkType
  <2>2. \A m \in peer' : m.c \in 1..Len(conns)
    BY <1>2 DEF Inv, WireInv, WireOK, Current
  <2> QED
    BY <1>2, <1>8, <1>9, <2>1, <2>2 DEF WireInv, WireOK, Current
<1>18. NumbersOK'
  BY <1>2, <1>12 DEF Inv, NumbersOK, Active
<1>19. StoredInv'
  BY <1>2, <1>11, <1>12, StoredFrame
<1> QED
  BY <1>13, <1>14, <1>15, <1>16, <1>17, <1>18, <1>19 DEF Inv

-----------------------------------------------------------------------------
(* The theorems.                                                           *)

\* The facts about cardinalities, from the library of finite sets.
LEMMA CardinalityFactsHold == CardinalityFacts
<1>1. IsFiniteSet({}) /\ Cardinality({}) = 0
  BY FS_EmptySet
<1>2. \A x : IsFiniteSet({x}) /\ Cardinality({x}) = 1
  BY FS_Singleton
<1>3. ASSUME NEW S, IsFiniteSet(S)
      PROVE  /\ Cardinality(S) \in Nat
             /\ \A x : x \notin S => Cardinality(S \union {x}) = Cardinality(S) + 1
             /\ \A x \in S : Cardinality(S \ {x}) = Cardinality(S) - 1
             /\ \A T \in SUBSET S : IsFiniteSet(T)
  <2>1. Cardinality(S) \in Nat
    BY <1>3, FS_CardinalityType
  <2>2. ASSUME NEW x, x \notin S PROVE Cardinality(S \union {x}) = Cardinality(S) + 1
    BY <1>3, <2>2, FS_AddElement
  <2>3. ASSUME NEW x \in S PROVE Cardinality(S \ {x}) = Cardinality(S) - 1
    BY <1>3, FS_RemoveElement
  <2>4. ASSUME NEW T \in SUBSET S PROVE IsFiniteSet(T)
    BY <1>3, FS_Subset
  <2> QED
    BY <2>1, <2>2, <2>3, <2>4
<1> QED
  BY <1>1, <1>2, <1>3 DEF CardinalityFacts

\* The invariant holds initially.
LEMMA InitInv == Init => Inv
<1> SUFFICES ASSUME Init PROVE Inv
  OBVIOUS
<1>1. /\ sio = [i \in Iocb |-> Fresh]
      /\ client = "OK" /\ reqs = 0 /\ disp = Idle
      /\ done = {} /\ disk = {} /\ health = "OK"
      /\ rep = Idle /\ repQ = <<>> /\ delayed = <<>>
      /\ rio = [r \in RepIocb |-> {}]
      /\ conns = <<>>
      /\ peer = {} /\ replies = {}
      /\ data = [p \in Subtask |-> [b \in Block |-> 0]]
      /\ acked = [b \in Block |-> {0}]
  BY DEF Init, Subtask
<1>2. PICK f : f = Fresh
  OBVIOUS
<1>3. /\ f \in ServerIocb /\ f.st = "recv" /\ f.mask = {} /\ f.refs = 1
  BY <1>2, FreshType
<1>4. \A i \in Iocb : sio[i] = f
  BY <1>1, <1>2
<1>5. disp.pc = "idle" /\ rep.pc = "idle"
  BY <1>1 DEF Idle
<1>6. ServerInv
  <2>1. ServerType
    <3>1. sio \in [Iocb -> ServerIocb]
      BY <1>1, <1>3, <1>2
    <3> QED
      BY <1>1, <3>1 DEF ServerType
  <2>2. IocbOK
    BY <1>3, <1>4, <1>5, SMTT(30) DEF IocbOK, Replying
  <2> QED
    BY <1>1, <2>1, <2>2 DEF ServerInv, DoneOnce, LocalOK
<1>7. /\ repQ \in Seq(Event) /\ delayed \in Seq(Iocb) /\ conns \in Seq(Conn)
      /\ DOMAIN repQ = {} /\ DOMAIN delayed = {} /\ Len(conns) = 0
  BY <1>1, SMTT(30)
<1>8. QueueInv
  <2>1. ReplicatorType
    BY <1>1, <1>7 DEF ReplicatorType, RepState
  <2>2. QueuedOnce(repQ) /\ DelayedOnce(delayed) /\ SentOnce /\ CompletedOnce(repQ) /\ ClosedLast(repQ, rio)
    BY <1>1, <1>7 DEF QueuedOnce, DelayedOnce, SentOnce, CompletedOnce, ClosedLast
  <2>3. ConnOK
    BY <1>1, <1>5, <1>7, SMTT(30) DEF ConnOK, Posting, Completed, HasClosed, Current
  <2> QED
    BY <2>1, <2>2, <2>3 DEF QueueInv
<1>9. OnePlace
  BY <1>1, <1>5, <1>7 DEF OnePlace, Queued, Delayed, Sent, Reported, Answered
<1>10. WireInv
  <2>1. NetworkType
    BY <1>1, SMTT(30) DEF NetworkType
  <2>2. WireOK
    BY <1>1 DEF WireOK
  <2> QED
    BY <2>1, <2>2 DEF WireInv
<1>11. ThrottleOK
  BY <1>1 DEF ThrottleOK, Connected
<1>12. \A i \in Iocb : ~Active(i) /\ ~Answering(i)
  BY <1>3, <1>4 DEF Active, Answering
<1>13. NumbersOK
  BY <1>1, <1>12 DEF NumbersOK
<1>14. \A p \in Subtask : \A b \in Block : \A n \in acked[b] : data[p][b] = n
  BY <1>1
<1>15. StoredInv
  <2>1. LocalStored
    BY <1>1, <1>12, <1>14 DEF LocalStored, Subtask
  <2>2. RemoteStored
    BY <1>1, <1>7, <1>12, <1>14 DEF RemoteStored, Subtask, CompletedOk
  <2> QED
    BY <2>1, <2>2 DEF StoredInv
<1> QED
  BY <1>6, <1>8, <1>9, <1>10, <1>11, <1>13, <1>15 DEF Inv

\* A step that changes nothing keeps the invariant.
LEMMA StutterInv ==
    ASSUME Inv, UNCHANGED vars
    PROVE  Inv'
<1>1. UNCHANGED <<server, health, replicator, network, data, acked, disturbed>>
  BY DEF vars
<1>2. UNCHANGED <<sio, reqs, done, rep, repQ, delayed, rio, conns, peer, replies>>
  BY <1>1 DEF server, replicator, network
<1>3. ServerInv' /\ QueueInv' /\ WireInv' /\ NumbersOK' /\ ThrottleOK'
  BY <1>1, <1>2, ServerFrame, QueueFrame, WireFrame, NumbersFrame, ThrottleFrame DEF Inv
<1>4. OnePlace'
  BY <1>2 DEF Inv, OnePlace, Queued, Delayed, Sent, Reported, Answered
<1>5. StoredInv'
  BY <1>1, <1>2, StoredFrame
<1> QED
  BY <1>3, <1>4, <1>5 DEF Inv

\* The inductive invariant holds in every reachable state.
THEOREM InvHolds == Spec => []Inv
<1>1. Init => Inv
  BY InitInv
<1>2. Inv /\ [Next]_vars => Inv'
  <2> SUFFICES ASSUME Inv, [Next]_vars PROVE Inv'
    OBVIOUS
  <2>1. CASE \E b \in Block : Receive(b)
    BY <2>1, ReceiveInv
  <2>2. CASE Dispatcher
    BY <2>2, CardinalityFactsHold, PostReplyInv, DispatchWriteInv, DispatchRefusedInv, DispatchCompleteInv DEF Dispatcher
  <2>3. CASE \E i \in Iocb : DispatchNotPrimary(i)
    BY <2>3, DispatchNotPrimaryInv
  <2>4. CASE SendReply \/ ClientClose \/ Disk
    BY <2>4, ReplySentInv, ClientCloseInv, LocalWriteInv DEF SendReply, Disk
  <2>5. CASE Replicator
    BY <2>5, CardinalityFactsHold, ConnectInv, CannotConnectInv, ThrottledInv, NoRepIocbInv, PostSendInv,
       BeginReplicateInv, RepCompleteInv, HandleConnCloseInv, ConductorAnswersInv DEF Replicator
  <2>6. CASE DelayOver \/ Requeue \/ PostSendFails \/ ConductorSilent \/ ConductorRefuses
    BY <2>6, CardinalityFactsHold, DelayOverInv, RequeueInv, PostSendFailsInv, ConductorSilentInv, ConductorRefusesInv
  <2>7. CASE Transport \/ RecoveryReadDone \/ ConnClose
    BY <2>7, CardinalityFactsHold, PeerExecutesInv, PeerRefusesInv, ReplyArrivesInv, RecoveryReadDoneInv,
       ConnCloseInv DEF Transport
  <2>8. CASE UNCHANGED vars
    BY <2>8, StutterInv
  <2> QED
    BY <2>1, <2>2, <2>3, <2>4, <2>5, <2>6, <2>7, <2>8 DEF Next
<1> QED
  BY <1>1, <1>2, PTL DEF Spec

\* The throttle of the replicator counts the requests without a reply and what
\* its history of miscounts says, whatever is throttled, sent again or answered
\* late, and under every disturbance, for any io_depth; without a recovery read,
\* a request put back or a count that did not start at 0 it is exact.
THEOREM Throttle == Spec => []ThrottleAccounted
<1>1. Inv => ThrottleAccounted
  <2> SUFFICES ASSUME Inv, Connected
               PROVE  /\ conns[Current].infly = conns[Current].drift +
                             Cardinality(Waiting(Current) \union {r \in OnConn(Current) : rep.pc = "post" /\ rep.r = r})
                      /\ disturbed \cap Miscounts = {} => conns[Current].drift = 0
    BY DEF ThrottleAccounted
  <2>1. \A r \in RepIocb : rep.pc = "post" /\ rep.r = r => ~Completed(repQ, r)
    BY DEF Inv, QueueInv, ConnOK, Posting
  <2>2. Waiting(Current) \union {r \in OnConn(Current) : rep.pc = "post" /\ rep.r = r} = Unanswered(Current)
    BY <2>1 DEF Waiting, Unanswered, OnConn, Completed
  <2> QED
    BY <2>2 DEF Inv, ThrottleOK
<1> QED
  BY <1>1, InvHolds, PTL

\* No iocb is in the pool, takes the next request or carries an answer while a
\* subtask of it is pending, for any number of iocbs and connections and under
\* every disturbance.
THEOREM FreedLast == Spec => []IocbFreedLast
<1>1. Inv => IocbFreedLast
  <2> SUFFICES ASSUME Inv, NEW i \in Iocb, sio[i].st \in {"pool", "recv", "reply"}
               PROVE  ~Pending(i) /\ sio[i].mask = {}
    BY DEF IocbFreedLast
  <2>1. sio[i].mask = {}
    BY DEF Inv, ServerInv, IocbOK
  <2>2. i \notin disk /\ \A d \in done : d.i # i
    BY <2>1, Named DEF Inv, ServerInv, LocalOK
  <2>3. ~Queued(repQ, i) /\ ~Delayed(delayed, i) /\ ~Sent(i) /\ ~Reported(i)
    BY <2>1 DEF Inv, OnePlace
  <2>4. i \notin Range(delayed)
    BY <2>3 DEF Delayed, Range
  <2> QED
    BY <2>1, <2>2, <2>3, <2>4 DEF Pending, Queued, Sent, Reported
<1> QED
  BY <1>1, InvHolds, PTL

\* An acknowledged write is on every replica in service, for any number of
\* requests and connections, however often it was sent.
THEOREM AckedStored == Spec => []AckedOnEveryReplica
<1>1. Inv => AckedOnEveryReplica
  BY DEF Inv, StoredInv, LocalStored, RemoteStored, Calm, AckedOnEveryReplica
<1> QED
  BY <1>1, InvHolds, PTL
=============================================================================
