------------------------ MODULE StoreIOServerProofs -------------------------
(***************************************************************************)
(* The steps of the dispatcher, of the client's connection and of the local *)
(* disk keep the invariant of StoreIO.                                     *)
(***************************************************************************)
EXTENDS StoreIOInvariant

\* Zenon proves the leaves that do not name another prover.
USE ZenonT(30)

\* server_on_tcp_network_done keeps the invariant.
LEMMA ReceiveInv ==
    ASSUME Inv, NEW b \in Block, Receive(b)
    PROVE  Inv'
<1> DEFINE i == CHOOSE i \in Posted : TRUE
<1>1. i \in Iocb /\ sio[i].st = "recv"
  BY DEF Receive, Posted
<1>2. sio' = [sio EXCEPT ![i].st = "req", ![i].n = reqs + 1, ![i].b = b]
  BY DEF Receive
<1>3. UNCHANGED <<client, disp, done, disk, health, replicator, network, data, disturbed>>
  BY DEF Receive
<1> HIDE DEF i
<1>t. /\ sio'[i] = [sio[i] EXCEPT !.st = "req", !.n = reqs + 1, !.b = b]
      /\ \A j \in Iocb : j # i => sio'[j] = sio[j]
      /\ DOMAIN sio' = Iocb
  BY <1>1, <1>2 DEF Inv, ServerInv, ServerType
<1>4. /\ sio'[i].st = "req" /\ sio'[i].n = reqs + 1 /\ sio'[i].b = b
      /\ sio'[i].mask = sio[i].mask /\ sio'[i].refs = sio[i].refs
      /\ \A j \in Iocb : j # i => sio'[j] = sio[j]
  BY <1>1, <1>t DEF Inv, ServerInv, ServerType, ServerIocb
<1>s. ServerType /\ ServerType'
  <2>1. sio \in [Iocb -> ServerIocb] /\ reqs \in Nat /\ reqs' = reqs + 1
    BY DEF Inv, ServerInv, ServerType, Receive
  <2>2. sio[i] \in ServerIocb
    BY <1>1, <2>1
  <2>3. sio'[i] \in ServerIocb
    <3>1. ASSUME NEW s \in ServerIocb, NEW n \in Nat
          PROVE  [s EXCEPT !.st = "req", !.n = n, !.b = b] \in ServerIocb
      BY DEF ServerIocb
    <3>2. reqs + 1 \in Nat
      BY <2>1, SMT
    <3> QED
      BY <1>t, <2>2, <3>1, <3>2
  <2>4. sio' \in [Iocb -> ServerIocb]
    BY <1>2, <1>t, <2>1, <2>3
  <2>5. ServerType
    BY DEF Inv, ServerInv
  <2> QED
    BY <2>1, <2>4, <2>5, <1>3, SMT DEF ServerType
<1>5. sio[i].mask = {} /\ ~Replying(i)
  BY <1>1 DEF Inv, ServerInv, IocbOK
<1>6. IocbOK'
  BY <1>1, <1>3, <1>4, <1>5, SMT DEF Inv, ServerInv, IocbOK, Replying
<1>7. DoneOnce' /\ LocalOK'
  BY <1>3, <1>4, <1>s DEF Inv, ServerInv, ServerType, DoneOnce, LocalOK
<1>8. QueueInv' /\ ThrottleOK'
  BY <1>3, QueueFrame, ThrottleFrame DEF Inv, replicator
<1>9. OnePlace'
  BY <1>3, <1>4 DEF Inv, OnePlace, replicator, Queued, Delayed, Sent, Reported, Answered
<1>10. NetworkType'
  BY <1>3 DEF Inv, WireInv, NetworkType, network, Receive
<1>11. WireInv'
  BY <1>3, <1>4, <1>5, <1>9, <1>10, WireKept DEF replicator, Completed
<1>12. NumbersOK'
  <2>1. \A j \in Iocb : Active(j) => sio[j].b # b
    BY DEF Receive, Active
  <2>2. acked' = [acked EXCEPT ![b] = {}] /\ reqs' = reqs + 1 /\ peer' = peer
    BY DEF Receive, network
  <2>3. NumbersOK /\ reqs \in Nat /\ acked \in [Block -> SUBSET Nat]
    BY DEF Inv, ServerInv, ServerType, WireInv, NetworkType
  <2>4. \A j \in Iocb : sio[j].n \in Nat /\ sio[j].b \in Block
    BY <1>s DEF ServerType, ServerIocb
  <2>5. \A m \in peer : m.n \in Nat
    BY DEF Inv, WireInv, NetworkType
  <2> QED
    BY <1>1, <1>4, <2>1, <2>2, <2>3, <2>4, <2>5, SMTT(30) DEF NumbersOK, Active
<1>13. StoredInv'
  <2>1. \A j \in Iocb : sio'[j].mask = sio[j].mask /\ (sio'[j].mask # {} \/ Answering(j)' => sio'[j] = sio[j])
    BY <1>4, <1>5 DEF Answering
  <2>2. \A n \in acked'[b] : n \in acked[b]
    BY DEF Inv, WireInv, NetworkType, Receive
  <2>3. \A c \in Block : \A n \in acked'[c] : n \in acked[c]
    BY <2>2 DEF Inv, WireInv, NetworkType, Receive
  <2> QED
    BY <1>3, <2>1, <2>3, Named, StoredKept DEF replicator, network, Same, Answering, CompletedOk
<1> QED
  BY <1>s, <1>6, <1>7, <1>8, <1>9, <1>11, <1>12, <1>13 DEF Inv, ServerInv

\* The fields of the server iocbs after a change of one of them.
LEMMA OneIocb ==
    ASSUME Inv, NEW i \in Iocb, NEW s \in ServerIocb, sio' = [sio EXCEPT ![i] = s]
    PROVE  /\ sio' \in [Iocb -> ServerIocb] /\ sio'[i] = s
           /\ \A j \in Iocb : j # i => sio'[j] = sio[j]
BY DEF Inv, ServerInv, ServerType

\* Steps of the dispatcher that give iocb i another status, fewer references or
\* a smaller mask.
IocbChange(i, s) ==
    /\ sio' = [sio EXCEPT ![i] = s]
    /\ UNCHANGED <<reqs, disk, health, replicator, network, data>>
    /\ disturbed \subseteq disturbed' /\ done' \subseteq done
    /\ \A j \in Iocb : j # i => (Replying(j)' <=> Replying(j)) /\ (Replying(j) => disp' = disp)
    /\ s.mask # {} => s.st = "busy"
    /\ Replying(i)' => s.st = "busy" /\ s.mask = {}
    /\ s.refs = IF s.st = "pool" THEN 0
                ELSE 1 + (IF "local" \in s.mask THEN 1 ELSE 0)
                       + (IF "remote" \in s.mask THEN 1 ELSE 0)
                       + (IF Replying(i)' THEN disp'.drop ELSE 0)
    \* the request lasts, or not
    /\ s.st \notin {"recv", "pool"} =>
           Active(i) /\ s.n = sio[i].n /\ s.b = sio[i].b /\ acked' = acked
    /\ \A j \in Iocb : j # i /\ Active(j) => acked'[sio[j].b] = acked[sio[j].b]
    \* a subtask leaves the mask when it is done
    /\ \A p \in Subtask : p \in sio[i].mask /\ p \notin s.mask =>
           \E d \in done : d \notin done' /\ d.i = i /\ d.sub = p
               /\ (s.st \in {"busy", "reply"} /\ s.ok => d.ok)
    /\ s.st \in {"busy", "reply"} /\ s.ok => Answering(i)
    \* a write is acknowledged with an empty mask
    /\ \A b \in Block : \A n \in acked'[b] :
           n \in acked[b] \/ (Answering(i) /\ sio[i].mask = {} /\ sio[i].b = b /\ sio[i].n = n)

\* A change of one iocb by the dispatcher keeps the invariant.
LEMMA IocbStep ==
    ASSUME Inv, NEW i \in Iocb, NEW s \in ServerIocb, IocbChange(i, s),
           ServerType', acked' \in [Block -> SUBSET Nat]
    PROVE  Inv'
<1>0. sio' = [sio EXCEPT ![i] = s]
  BY DEF IocbChange
<1>1. /\ sio' \in [Iocb -> ServerIocb] /\ sio'[i] = s
      /\ \A j \in Iocb : j # i => sio'[j] = sio[j]
  BY <1>0 DEF Inv, ServerInv, ServerType
<1> USE DEF IocbChange
<1>2. IocbOK'
  BY <1>1, SMT DEF Inv, ServerInv, IocbOK, Replying
<1>3. DoneOnce'
  BY DEF Inv, ServerInv, DoneOnce
<1>4. \A d, e \in done : d.i = e.i /\ d.sub = e.sub => d = e
  BY DEF Inv, ServerInv, DoneOnce
<1>5. \A d \in done' : d \in done /\ d.i \in Iocb /\ d.sub \in sio'[d.i].mask
  BY <1>1, <1>4, Named, SMT
<1>6. LocalOK'
  <2>1. \A j \in disk : j \in Iocb /\ "local" \in sio[j].mask /\ \A d \in done : ~(d.i = j /\ d.sub = "local")
    BY SMT DEF Inv, ServerInv, LocalOK, ServerType
  <2>2. \A j \in disk' : "local" \in sio'[j].mask
    BY <1>1, <2>1, SMTT(30) DEF Subtask
  <2>3. \A d \in done' : d.sub = "local" => "local" \in sio'[d.i].mask /\ d.i \notin disk'
    BY <1>5, <2>1, SMT
  <2> QED
    BY <2>2, <2>3 DEF LocalOK
<1>7. QueueInv' /\ ThrottleOK'
  BY QueueFrame, ThrottleFrame DEF Inv, replicator
<1>8. OnePlace'
  <2>1. \A j \in Iocb : Answered(j)' => Answered(j)
    BY DEF Answered
  <2>2. ASSUME "remote" \in sio[i].mask, "remote" \notin s.mask
        PROVE  Answered(i) /\ ~Answered(i)'
    <3>1. PICK d \in done : d \notin done' /\ d.i = i /\ d.sub = "remote"
      BY <2>2 DEF Subtask
    <3> QED
      BY <3>1, <1>4, SMT DEF Answered
  <2> QED
    BY <1>1, <2>1, <2>2, PlaceKept
<1>9. WireInv'
  <2>1. NetworkType'
    BY DEF Inv, WireInv, NetworkType, network
  <2> QED
    BY <1>1, <1>8, <2>1, WireKept DEF replicator, Completed
<1>10. NumbersOK'
  BY <1>1, NumbersKept DEF Active, Same, network
<1>11. StoredInv'
  <2>1. \A j \in Iocb : sio'[j].mask # {} \/ Answering(j)' => Same(j)
    BY <1>1, SMTT(30) DEF Answering, Same
  <2>2. \A j \in Iocb : \A p \in Subtask :
           Answering(j)' /\ p \notin sio'[j].mask =>
               \/ Answering(j) /\ p \notin sio[j].mask
               \/ \E d \in done : d.i = j /\ d.sub = p /\ d.ok
    BY <1>1, SMT DEF Answering
  <2>3. \A r \in RepIocb : CompletedOk(repQ, r)' => CompletedOk(repQ, r)
    BY DEF replicator, CompletedOk
  <2>4. rio' = rio /\ replies' = replies
    BY DEF replicator, network
  <2>5. \A r \in RepIocb : \A io \in rio[r] : sio'[io.i].mask # {}
    BY <1>8, <2>4, Named DEF OnePlace, Sent
  <2> QED
    BY <1>5, <2>1, <2>2, <2>3, <2>4, <2>5, StoredKept, SMTT(30)
<1> QED
  BY <1>2, <1>3, <1>6, <1>7, <1>8, <1>9, <1>10, <1>11 DEF Inv, ServerInv

Status == {"recv", "req", "busy", "reply", "dead", "pool"}
SetSt(s, st) == [s EXCEPT !.st = st]
SetMask(s, mask) == [s EXCEPT !.mask = mask]
SetOk(s, ok) == [s EXCEPT !.ok = ok]
SetRefs(s, refs) == [s EXCEPT !.refs = refs]
SameRequest(t, s) == t.n = s.n /\ t.b = s.b

\* The updates of an iocb keep its type and its other fields.
LEMMA SetField ==
    ASSUME NEW s \in ServerIocb
    PROVE  /\ \A st \in Status :
                 /\ SetSt(s, st) \in ServerIocb /\ SetSt(s, st).st = st
                 /\ SetSt(s, st).mask = s.mask /\ SetSt(s, st).ok = s.ok /\ SetSt(s, st).refs = s.refs
                 /\ SameRequest(SetSt(s, st), s)
           /\ \A mask \in SUBSET Subtask :
                 /\ SetMask(s, mask) \in ServerIocb /\ SetMask(s, mask).mask = mask
                 /\ SetMask(s, mask).st = s.st /\ SetMask(s, mask).ok = s.ok /\ SetMask(s, mask).refs = s.refs
                 /\ SameRequest(SetMask(s, mask), s)
           /\ \A ok \in BOOLEAN :
                 /\ SetOk(s, ok) \in ServerIocb /\ SetOk(s, ok).ok = ok
                 /\ SetOk(s, ok).st = s.st /\ SetOk(s, ok).mask = s.mask /\ SetOk(s, ok).refs = s.refs
                 /\ SameRequest(SetOk(s, ok), s)
           /\ \A refs \in Int :
                 /\ SetRefs(s, refs) \in ServerIocb /\ SetRefs(s, refs).refs = refs
                 /\ SetRefs(s, refs).st = s.st /\ SetRefs(s, refs).mask = s.mask /\ SetRefs(s, refs).ok = s.ok
                 /\ SameRequest(SetRefs(s, refs), s)
<1>1. ASSUME NEW st \in Status
      PROVE  /\ SetSt(s, st) \in ServerIocb /\ SetSt(s, st).st = st
             /\ SetSt(s, st).mask = s.mask /\ SetSt(s, st).ok = s.ok /\ SetSt(s, st).refs = s.refs
             /\ SameRequest(SetSt(s, st), s)
  BY DEF SetSt, ServerIocb, Status, SameRequest
<1>2. ASSUME NEW mask \in SUBSET Subtask
      PROVE  /\ SetMask(s, mask) \in ServerIocb /\ SetMask(s, mask).mask = mask
             /\ SetMask(s, mask).st = s.st /\ SetMask(s, mask).ok = s.ok /\ SetMask(s, mask).refs = s.refs
             /\ SameRequest(SetMask(s, mask), s)
  BY DEF SetMask, ServerIocb, SameRequest
<1>3. ASSUME NEW ok \in BOOLEAN
      PROVE  /\ SetOk(s, ok) \in ServerIocb /\ SetOk(s, ok).ok = ok
             /\ SetOk(s, ok).st = s.st /\ SetOk(s, ok).mask = s.mask /\ SetOk(s, ok).refs = s.refs
             /\ SameRequest(SetOk(s, ok), s)
  BY DEF SetOk, ServerIocb, SameRequest
<1>4. ASSUME NEW refs \in Int
      PROVE  /\ SetRefs(s, refs) \in ServerIocb /\ SetRefs(s, refs).refs = refs
             /\ SetRefs(s, refs).st = s.st /\ SetRefs(s, refs).mask = s.mask /\ SetRefs(s, refs).ok = s.ok
             /\ SameRequest(SetRefs(s, refs), s)
  BY DEF SetRefs, ServerIocb, SameRequest
<1> QED
  BY <1>1, <1>2, <1>3, <1>4

Fail(s) == [s EXCEPT !.ok = FALSE]
\* A refused request is a request with a bad status.
LEMMA FailType ==
    ASSUME NEW s \in ServerIocb
    PROVE  /\ Fail(s) \in ServerIocb /\ ~Fail(s).ok
           /\ Fail(s).st = s.st /\ Fail(s).mask = s.mask /\ Fail(s).refs = s.refs
           /\ SameRequest(Fail(s), s)
<1>1. SetOk(s, FALSE) = Fail(s)
  BY DEF SetOk, Fail
<1>2. FALSE \in BOOLEAN
  OBVIOUS
<1>3. SetOk(s, FALSE) \in ServerIocb
  BY <1>2, SetField
<1>4. ~Fail(s).ok
  BY DEF Fail, ServerIocb
<1>5. Fail(s).st = s.st /\ Fail(s).mask = s.mask /\ Fail(s).refs = s.refs
           /\ SameRequest(Fail(s), s)
  BY DEF Fail, ServerIocb, SameRequest
<1>6. Fail(s) \in ServerIocb
  BY <1>1, <1>3
<1> QED
  BY <1>4, <1>5, <1>6

\* A fresh iocb has one reference and no subtasks.
LEMMA FreshType == Fresh \in ServerIocb /\ Fresh.mask = {} /\ Fresh.st = "recv" /\ Fresh.refs = 1
<1>1. (CHOOSE b \in Block : TRUE) \in Block
  BY StoreIOAssumption
<1> QED
  BY <1>1, SMT DEF Fresh, ServerIocb, Subtask

\* An iocb in the pool.
Pooled == [Fresh EXCEPT !.st = "pool", !.refs = 0]
\* An iocb in the pool has no references and no subtasks.
LEMMA PooledType == Pooled \in ServerIocb /\ Pooled.mask = {} /\ Pooled.st = "pool" /\ Pooled.refs = 0
<1>1. "pool" \in Status /\ 0 \in Int
  BY SMT DEF Status
<1>2. PICK s : s = SetSt(Fresh, "pool")
  OBVIOUS
<1>3. s \in ServerIocb /\ s.mask = {} /\ s.st = "pool"
  BY <1>1, <1>2, FreshType, SetField, SMTT(30)
<1>4. Pooled = SetRefs(s, 0)
  BY <1>2 DEF Pooled, SetRefs, SetSt
<1> QED
  BY <1>1, <1>3, <1>4, SetField, SMTT(30)

\* post_send of the reply keeps the invariant.
LEMMA PostReplyInv ==
    ASSUME Inv, PostReply
    PROVE  Inv'
<1>1. PICK i \in Iocb : i = disp.i
  BY SMT DEF Inv, ServerInv, ServerType, PostReply, Idle
<1>2. disp.drop \in {0, 1} /\ disp.pc = "post"
  BY SMT DEF Inv, ServerInv, ServerType, PostReply, Idle
<1>3. PICK s0 : s0 = sio[i]
  OBVIOUS
<1>4. PICK st \in {"reply", "dead"} : st = IF client = "OK" THEN "reply" ELSE "dead"
  OBVIOUS
<1>5. /\ s0 \in ServerIocb /\ s0.st = "busy" /\ s0.mask = {} /\ s0.refs = 1 + disp.drop
      /\ Replying(i)
  BY <1>1, <1>2, <1>3, SMTT(30) DEF Inv, ServerInv, ServerType, IocbOK, Replying
<1>6. s0.refs # disp.drop /\ s0.refs - disp.drop = 1
  BY <1>2, <1>5, SMT
<1>7. Unref(s0, disp.drop) = SetRefs(s0, 1)
  BY <1>6 DEF Unref, SetRefs
<1>8. PICK s : s = SetSt(SetRefs(s0, 1), st)
  OBVIOUS
<1>9. sio' = [sio EXCEPT ![i] = s]
  BY <1>1, <1>3, <1>4, <1>7, <1>8 DEF PostReply, SetSt
<1>10. /\ s \in ServerIocb /\ s.st = st /\ s.mask = {} /\ s.refs = 1
       /\ s.n = s0.n /\ s.b = s0.b /\ s.ok = s0.ok
  <2>1. SetRefs(s0, 1) \in ServerIocb /\ st \in Status
    BY <1>5, SetField, SMT DEF Status
  <2> QED
    BY <1>5, <1>8, <2>1, SetField, SMTT(30) DEF SameRequest
<1>11. /\ disp' = Idle /\ disturbed \subseteq disturbed' /\ done' = done /\ acked' = acked
       /\ UNCHANGED <<client, reqs, disk, health, replicator, network, data>>
  BY DEF PostReply, Disturb
<1>12. \A j \in Iocb : ~Replying(j)' /\ (j # i => ~Replying(j))
  BY <1>1, <1>11 DEF Replying, Idle
<1>13. ServerType'
  BY <1>9, <1>10, <1>11, OneIocb DEF Inv, ServerInv, ServerType
<1>14. acked' \in [Block -> SUBSET Nat]
  BY <1>11 DEF Inv, WireInv, NetworkType
<1>15. Active(i) /\ (s.st \in {"busy", "reply"} /\ s.ok => Answering(i))
  BY <1>3, <1>5, <1>10 DEF Answering, Active
<1>16. s.refs = IF s.st = "pool" THEN 0
                ELSE 1 + (IF "local" \in s.mask THEN 1 ELSE 0)
                       + (IF "remote" \in s.mask THEN 1 ELSE 0)
                       + (IF Replying(i)' THEN disp'.drop ELSE 0)
  BY <1>4, <1>10, <1>12, SMTT(30)
<1>17. IocbChange(i, s)
  BY <1>3, <1>5, <1>9, <1>10, <1>11, <1>12, <1>15, <1>16 DEF IocbChange
<1> QED
  BY <1>10, <1>13, <1>14, <1>17, IocbStep

\* dispatch_write on a node that is not the primary keeps the invariant.
LEMMA DispatchNotPrimaryInv ==
    ASSUME Inv, NEW i \in Iocb, DispatchNotPrimary(i)
    PROVE  Inv'
<1>1. /\ disp = Idle /\ disp' = [pc |-> "stuck"] /\ disturbed \subseteq disturbed'
      /\ UNCHANGED <<sio, client, reqs, done, disk, health, replicator, network, data, acked>>
  BY DEF DispatchNotPrimary, Disturb
<1>2. \A j \in Iocb : ~Replying(j) /\ ~Replying(j)'
  BY <1>1 DEF Replying, Idle
<1>3. ServerInv'
  BY <1>1, <1>2, SMT DEF Inv, ServerInv, ServerType, IocbOK, DoneOnce, LocalOK
<1>4. QueueInv' /\ ThrottleOK' /\ WireInv' /\ NumbersOK'
  BY <1>1, QueueFrame, ThrottleFrame, WireFrame, NumbersFrame DEF Inv, replicator, network
<1>5. OnePlace'
  BY <1>1, PlaceKept DEF Answered
<1>6. StoredInv'
  BY <1>1, SMTT(30)
     DEF Inv, StoredInv, LocalStored, RemoteStored, Stored, Answering, Calm, replicator, network,
         CompletedOk
<1> QED
  BY <1>3, <1>4, <1>5, <1>6 DEF Inv

\* The iocb in the hands of an idle dispatcher.
LEMMA IdleIocb ==
    ASSUME Inv, disp = Idle, NEW i \in Iocb
    PROVE  /\ sio[i] \in ServerIocb
           /\ sio[i].mask # {} => sio[i].st = "busy"
           /\ sio[i].refs = IF sio[i].st = "pool" THEN 0
                            ELSE 1 + (IF "local" \in sio[i].mask THEN 1 ELSE 0)
                                   + (IF "remote" \in sio[i].mask THEN 1 ELSE 0)
           /\ \A j \in Iocb : ~Replying(j)
<1>1. \A j \in Iocb : ~Replying(j)
  BY DEF Replying, Idle
<1> QED
  BY <1>1, SMT DEF Inv, ServerInv, ServerType, IocbOK, ServerIocb

\* dispatch_io with another meta_ver keeps the invariant.
LEMMA DispatchRefusedInv ==
    ASSUME Inv, NEW i \in Iocb, DispatchRefused(i)
    PROVE  Inv'
<1>1. PICK s0 : s0 = sio[i]
  OBVIOUS
<1>2. disp = Idle /\ s0.st = "req"
  BY <1>1 DEF DispatchRefused
<1>3. s0 \in ServerIocb /\ s0.mask = {} /\ s0.refs = 1 /\ \A j \in Iocb : ~Replying(j)
  BY <1>1, <1>2, IdleIocb, SMTT(30)
<1>4. PICK t : t = Fail(SetSt(s0, "busy"))
  OBVIOUS
<1>5. /\ t \in ServerIocb /\ t.st = "busy" /\ t.mask = {} /\ t.refs = 1
      /\ t.n = s0.n /\ t.b = s0.b /\ ~t.ok
  <2>1. SetSt(s0, "busy") \in ServerIocb /\ "busy" \in Status
    BY <1>3, SetField DEF Status
  <2> QED
    BY <1>3, <1>4, <2>1, SetField, FailType, SMTT(30) DEF SameRequest
<1>6. Reply(i, t, 0)
  <2>1. t = [sio[i] EXCEPT !.st = "busy", !.ok = FALSE]
    BY <1>1, <1>4 DEF Fail, SetSt
  <2> QED
    BY <2>1 DEF DispatchRefused
<1>7. UNCHANGED <<client, reqs, done, disk, health, replicator, network, data, acked, disturbed>>
  BY DEF DispatchRefused
<1>8. acked' \in [Block -> SUBSET Nat]
  BY <1>7 DEF Inv, WireInv, NetworkType
<1>9. CASE client = "OK"
  <2>1. disp' = [pc |-> "post", i |-> i, drop |-> 0] /\ sio' = [sio EXCEPT ![i] = t]
    BY <1>6, <1>9 DEF Reply
  <2>2. Replying(i)' /\ disp'.drop = 0 /\ \A j \in Iocb : j # i => ~Replying(j)'
    BY <2>1 DEF Replying
  <2>3. IocbChange(i, t)
    BY <1>1, <1>2, <1>3, <1>5, <1>7, <2>1, <2>2, SMTT(30) DEF IocbChange, Active, Answering
  <2>4. ServerType'
    BY <1>5, <1>7, <2>1, OneIocb DEF Inv, ServerInv, ServerType
  <2> QED
    BY <1>5, <1>8, <2>3, <2>4, IocbStep
<1>10. CASE client # "OK"
  <2>1. disp' = Idle /\ sio' = [sio EXCEPT ![i] = Pooled]
    BY <1>5, <1>6, <1>10, SMTT(30) DEF Reply, Unref, Pooled
  <2>2. \A j \in Iocb : ~Replying(j)'
    BY <2>1 DEF Replying, Idle
  <2>3. IocbChange(i, Pooled)
    BY <1>1, <1>3, <1>7, <2>1, <2>2, PooledType DEF IocbChange
  <2>4. ServerType'
    BY <1>7, <2>1, PooledType, OneIocb DEF Inv, ServerInv, ServerType
  <2> QED
    BY <1>8, <2>3, <2>4, PooledType, IocbStep
<1> QED
  BY <1>9, <1>10

\* dispatch_complete keeps the invariant.
LEMMA DispatchCompleteInv ==
    ASSUME Inv, NEW d \in done, DispatchComplete(d)
    PROVE  Inv'
<1>1. PICK i \in Iocb : i = d.i
  BY Named
<1>2. PICK s0 : s0 = sio[i]
  OBVIOUS
<1>3. disp = Idle /\ d.sub \in Subtask /\ d.sub \in s0.mask
  BY <1>1, <1>2, Named DEF DispatchComplete
<1>4. /\ s0 \in ServerIocb /\ s0.st = "busy" /\ \A j \in Iocb : ~Replying(j)
      /\ s0.refs = 1 + (IF "local" \in s0.mask THEN 1 ELSE 0) + (IF "remote" \in s0.mask THEN 1 ELSE 0)
  BY <1>2, <1>3, IdleIocb
<1>5. PICK ok \in BOOLEAN : ok = MergeStatus(s0.ok, d.ok) /\ (ok => d.ok /\ s0.ok)
  <2>1. s0.ok \in BOOLEAN /\ d.ok \in BOOLEAN
    BY <1>4, Named DEF ServerIocb
  <2>2. MergeStatus(s0.ok, d.ok) \in BOOLEAN /\ (MergeStatus(s0.ok, d.ok) => d.ok /\ s0.ok)
    BY <2>1 DEF MergeStatus
  <2> QED
    BY <2>2
<1>6. ok => d.ok /\ s0.ok
  BY <1>5
<1>7. PICK t : t = SetOk(SetMask(s0, s0.mask \ {d.sub}), ok)
  OBVIOUS
<1>8. /\ t \in ServerIocb /\ t.st = "busy" /\ t.mask = s0.mask \ {d.sub} /\ t.refs = s0.refs
      /\ t.n = s0.n /\ t.b = s0.b /\ t.ok = ok
  <2>1. s0.mask \ {d.sub} \in SUBSET Subtask
    BY <1>4 DEF ServerIocb
  <2>2. SetMask(s0, s0.mask \ {d.sub}) \in ServerIocb
    BY <1>4, <2>1, SetField, SMTT(30)
  <2> QED
    BY <1>4, <1>7, <2>1, <2>2, SetField, SMTT(30) DEF SameRequest
<1>9. /\ done' = done \ {d}
      /\ UNCHANGED <<client, reqs, disk, health, replicator, network, data, acked, disturbed>>
  BY DEF DispatchComplete
<1>10. IF t.mask = {} THEN Reply(i, t, 1)
       ELSE sio' = [sio EXCEPT ![i] = Unref(t, 1)] /\ UNCHANGED disp
  BY <1>1, <1>2, <1>5, <1>7 DEF DispatchComplete, SetOk, SetMask
<1>11. acked' \in [Block -> SUBSET Nat]
  BY <1>9 DEF Inv, WireInv, NetworkType
<1>12. \A p \in Subtask : p \in sio[i].mask /\ p \notin t.mask => p = d.sub
  BY <1>2, <1>8
<1>13. Active(i) /\ (ok => Answering(i))
  BY <1>2, <1>4, <1>6 DEF Active, Answering
<1>14. t.mask \subseteq Subtask /\ Subtask = {"local", "remote"}
  BY <1>8 DEF ServerIocb, Subtask
<1>15. CASE t.mask = {} /\ client = "OK"
  <2>1. disp' = [pc |-> "post", i |-> i, drop |-> 1] /\ sio' = [sio EXCEPT ![i] = t]
    BY <1>10, <1>15 DEF Reply
  <2>2. Replying(i)' /\ disp'.drop = 1 /\ \A j \in Iocb : j # i => ~Replying(j)'
    BY <2>1 DEF Replying
  <2>3. t.refs = 1 + (IF "local" \in t.mask THEN 1 ELSE 0) + (IF "remote" \in t.mask THEN 1 ELSE 0)
                   + (IF Replying(i)' THEN disp'.drop ELSE 0)
    BY <1>3, <1>4, <1>8, <1>14, <1>15, <2>2, SMTT(30)
  <2>4. IocbChange(i, t)
    BY <1>1, <1>2, <1>4, <1>6, <1>8, <1>9, <1>12, <1>13, <1>15, <2>1, <2>2, <2>3 DEF IocbChange
  <2>5. ServerType'
    BY <1>8, <1>9, <2>1, OneIocb DEF Inv, ServerInv, ServerType
  <2> QED
    BY <1>8, <1>11, <2>4, <2>5, IocbStep
<1>16. CASE t.mask = {} /\ client # "OK"
  <2>1. t.refs = 2
    BY <1>3, <1>4, <1>8, <1>14, <1>16, SMTT(30)
  <2>2. disp' = Idle /\ sio' = [sio EXCEPT ![i] = Pooled]
    BY <1>10, <1>16, <2>1, SMTT(30) DEF Reply, Unref, Pooled
  <2>3. \A j \in Iocb : ~Replying(j)'
    BY <2>2 DEF Replying, Idle
  <2>4. IocbChange(i, Pooled)
    BY <1>1, <1>4, <1>9, <1>12, <1>16, <2>2, <2>3, PooledType DEF IocbChange
  <2>5. ServerType'
    BY <1>9, <2>2, PooledType, OneIocb DEF Inv, ServerInv, ServerType
  <2> QED
    BY <1>11, <2>4, <2>5, PooledType, IocbStep
<1>17. CASE t.mask # {}
  <2>1. t.refs = 3 /\ t.refs # 1 /\ t.refs - 1 = 2
    BY <1>3, <1>4, <1>8, <1>14, <1>17, SMTT(30)
  <2>2. PICK s : s = SetRefs(t, 2)
    OBVIOUS
  <2>3. disp' = disp /\ sio' = [sio EXCEPT ![i] = s]
    BY <1>10, <1>17, <2>1, <2>2 DEF Unref, SetRefs
  <2>4. /\ s \in ServerIocb /\ s.st = "busy" /\ s.mask = t.mask /\ s.refs = 2
        /\ s.n = s0.n /\ s.b = s0.b /\ s.ok = ok
    BY <1>8, <2>2, SetField, SMTT(30) DEF SameRequest
  <2>5. \A j \in Iocb : ~Replying(j)'
    BY <1>4, <2>3 DEF Replying
  <2>6. s.refs = 1 + (IF "local" \in s.mask THEN 1 ELSE 0) + (IF "remote" \in s.mask THEN 1 ELSE 0)
                   + (IF Replying(i)' THEN disp'.drop ELSE 0)
    BY <1>3, <1>8, <1>14, <1>17, <2>4, <2>5, SMTT(30)
  <2>7. IocbChange(i, s)
    BY <1>1, <1>2, <1>4, <1>6, <1>9, <1>12, <1>13, <2>3, <2>4, <2>5, <2>6 DEF IocbChange
  <2>8. ServerType'
    BY <1>9, <2>3, <2>4, OneIocb DEF Inv, ServerInv, ServerType
  <2> QED
    BY <1>11, <2>4, <2>7, <2>8, IocbStep
<1> QED
  BY <1>15, <1>16, <1>17

\* The completion of a reply keeps the invariant.
LEMMA ReplySentInv ==
    ASSUME Inv, NEW i \in Iocb, ReplySent(i)
    PROVE  Inv'
<1>1. PICK s0 : s0 = sio[i]
  OBVIOUS
<1>2. s0.st = "reply" /\ s0 \in ServerIocb /\ s0.mask = {} /\ s0.refs = 1 /\ ~Replying(i)
  BY <1>1, SMT DEF ReplySent, Inv, ServerInv, ServerType, IocbOK
<1>3. PICK s : s = SetRefs(Fresh, 1)
  OBVIOUS
<1>4. /\ sio' = [sio EXCEPT ![i] = s]
      /\ acked' = [acked EXCEPT ![s0.b] = {n \in {s0.n} : s0.ok}]
      /\ UNCHANGED <<client, reqs, disp, done, disk, health, replicator, network, data, disturbed>>
  BY <1>1, <1>2, <1>3 DEF ReplySent, SetRefs
<1>5. s \in ServerIocb /\ s.st = "recv" /\ s.mask = {} /\ s.refs = 1
  BY <1>3, FreshType, SetField, SMTT(30)
<1>6. acked \in [Block -> SUBSET Nat] /\ s0.b \in Block /\ s0.n \in Nat
  BY <1>2 DEF Inv, WireInv, NetworkType, ServerIocb
<1>7. acked' \in [Block -> SUBSET Nat]
  BY <1>4, <1>6
<1>8. \A j \in Iocb : j # i /\ Active(j) => acked'[sio[j].b] = acked[sio[j].b]
  <2>1. Active(i)
    BY <1>1, <1>2 DEF Active
  <2>2. \A j \in Iocb : j # i /\ Active(j) => sio[j].b # s0.b
    BY <1>1, <2>1 DEF Inv, NumbersOK
  <2>3. \A j \in Iocb : sio[j].b \in Block
    BY DEF Inv, ServerInv, ServerType, ServerIocb
  <2> QED
    BY <1>4, <1>6, <2>2, <2>3
<1>9. \A b \in Block : \A n \in acked'[b] :
         n \in acked[b] \/ (Answering(i) /\ sio[i].mask = {} /\ sio[i].b = b /\ sio[i].n = n)
  BY <1>1, <1>2, <1>4, <1>6 DEF Answering
<1>10. \A j \in Iocb : Replying(j)' <=> Replying(j)
  BY <1>4 DEF Replying
<1>11. IocbChange(i, s)
  <2>1. s.refs = IF s.st = "pool" THEN 0
                 ELSE 1 + (IF "local" \in s.mask THEN 1 ELSE 0)
                        + (IF "remote" \in s.mask THEN 1 ELSE 0)
                        + (IF Replying(i)' THEN disp'.drop ELSE 0)
    BY <1>2, <1>5, <1>10, SMTT(30)
  <2>2. UNCHANGED <<reqs, disk, health, replicator, network, data>> /\ done' = done /\ disp' = disp
        /\ disturbed' = disturbed
    BY <1>4
  <2>3. sio[i].mask = {}
    BY <1>1, <1>2
  <2>4. sio' = [sio EXCEPT ![i] = s]
    BY <1>4
  <2> QED
    BY <1>2, <1>5, <1>8, <1>9, <1>10, <2>1, <2>2, <2>3, <2>4 DEF IocbChange
<1>12. ServerType'
  BY <1>4, <1>5, OneIocb DEF Inv, ServerInv, ServerType
<1> QED
  BY <1>5, <1>7, <1>11, <1>12, IocbStep

\* The close of the client's connection keeps the invariant.
LEMMA ClientCloseInv ==
    ASSUME Inv, ClientClose
    PROVE  Inv'
<1>1. /\ sio' = [i \in Iocb |-> IF sio[i].st \in {"recv", "reply"} THEN Unref(sio[i], 1) ELSE sio[i]]
      /\ client' = "CLOSED"
      /\ UNCHANGED <<reqs, disp, done, disk, health, replicator, network, data, acked, disturbed>>
  BY DEF ClientClose
<1>2. \A i \in Iocb : sio[i] \in ServerIocb
  BY DEF Inv, ServerInv, ServerType
<1>3. ASSUME NEW i \in Iocb, sio[i].st \in {"recv", "reply"}
      PROVE  sio'[i] = Pooled /\ sio[i].mask = {} /\ ~Replying(i)
  <2>1. sio[i].mask = {} /\ ~Replying(i)
    BY <1>3 DEF Inv, ServerInv, IocbOK
  <2>2. sio[i].refs = 1
    BY <1>3, <2>1, SMTT(30) DEF Inv, ServerInv, IocbOK
  <2> QED
    BY <1>1, <1>3, <2>1, <2>2 DEF Unref, Pooled
<1>4. \A i \in Iocb : sio[i].st \notin {"recv", "reply"} => sio'[i] = sio[i]
  BY <1>1
<1>5. ASSUME NEW i \in Iocb
      PROVE  sio'[i].mask = sio[i].mask
  <2>1. Pooled.mask = {}
    BY PooledType
  <2>2. CASE sio[i].st \in {"recv", "reply"}
    <3>1. sio'[i] = Pooled /\ sio[i].mask = {}
      BY <1>3, <2>2
    <3> QED
      BY <2>1, <3>1
  <2>3. CASE sio[i].st \notin {"recv", "reply"}
    BY <1>4, <2>3
  <2> QED
    BY <2>2, <2>3
<1>6. ServerType'
  <2>1. \A i \in Iocb : sio'[i] \in ServerIocb
    BY <1>2, <1>3, <1>4, PooledType
  <2>2. sio' \in [Iocb -> ServerIocb]
    BY <1>1, <2>1
  <2> QED
    BY <1>1, <2>2 DEF Inv, ServerInv, ServerType
<1>7. IocbOK'
  <2>1. \A i \in Iocb : Replying(i)' <=> Replying(i)
    BY <1>1 DEF Replying
  <2>2. ASSUME NEW i \in Iocb, sio'[i] = sio[i]
        PROVE  /\ sio'[i].mask # {} => sio'[i].st = "busy"
               /\ Replying(i)' => sio'[i].st = "busy" /\ sio'[i].mask = {}
               /\ sio'[i].refs = IF sio'[i].st = "pool" THEN 0
                                 ELSE 1 + (IF "local" \in sio'[i].mask THEN 1 ELSE 0)
                                        + (IF "remote" \in sio'[i].mask THEN 1 ELSE 0)
                                        + (IF Replying(i)' THEN disp'.drop ELSE 0)
    BY <1>1, <2>1, <2>2 DEF Inv, ServerInv, IocbOK
  <2>3. ASSUME NEW i \in Iocb, sio'[i] = Pooled, ~Replying(i)
        PROVE  /\ sio'[i].mask # {} => sio'[i].st = "busy"
               /\ Replying(i)' => sio'[i].st = "busy" /\ sio'[i].mask = {}
               /\ sio'[i].refs = IF sio'[i].st = "pool" THEN 0
                                 ELSE 1 + (IF "local" \in sio'[i].mask THEN 1 ELSE 0)
                                        + (IF "remote" \in sio'[i].mask THEN 1 ELSE 0)
                                        + (IF Replying(i)' THEN disp'.drop ELSE 0)
    BY <2>1, <2>3, PooledType
  <2> QED
    BY <1>3, <1>4, <2>2, <2>3 DEF IocbOK
<1>8. DoneOnce' /\ LocalOK'
  BY <1>1, <1>5, Named DEF Inv, ServerInv, ServerType, DoneOnce, LocalOK
<1>9. QueueInv' /\ ThrottleOK'
  BY <1>1, QueueFrame, ThrottleFrame DEF Inv, replicator
<1>10. OnePlace'
  BY <1>1, <1>5, PlaceKept DEF Answered
<1>11. \A i \in Iocb : Active(i)' => sio'[i] = sio[i]
  BY <1>3, <1>4, PooledType DEF Active
<1>12. \A i \in Iocb : sio'[i].mask # {} => sio'[i] = sio[i]
  BY <1>3, <1>4, <1>5
<1>13. NetworkType'
  BY <1>1 DEF Inv, WireInv, NetworkType, network
<1>14. WireInv'
  <2>1. \A i \in Iocb : "remote" \in sio'[i].mask => sio'[i].n = sio[i].n
    BY <1>12
  <2> QED
    BY <1>1, <1>10, <1>13, <2>1, WireKept DEF replicator, Completed
<1>15. NumbersOK'
  BY <1>1, <1>11, NumbersKept DEF Active, Same, network
<1>16. StoredInv'
  <2>1. \A i \in Iocb : Answering(i)' => Active(i)'
    BY DEF Answering, Active
  <2>2. \A i \in Iocb : sio'[i].mask # {} \/ Answering(i)' => Same(i)
    BY <1>11, <1>12, <2>1 DEF Same
  <2>3. \A i \in Iocb : \A p \in Subtask :
           Answering(i)' /\ p \notin sio'[i].mask => Answering(i) /\ p \notin sio[i].mask
    BY <1>11, <2>1 DEF Answering
  <2>4. rio' = rio /\ replies' = replies /\ repQ' = repQ
    BY <1>1 DEF replicator, network
  <2> QED
    BY <1>1, <1>5, <2>2, <2>3, <2>4, Named, StoredKept DEF CompletedOk
<1> QED
  BY <1>6, <1>7, <1>8, <1>9, <1>10, <1>14, <1>15, <1>16 DEF Inv, ServerInv

\* dispatch_write keeps the invariant.
LEMMA DispatchWriteInv ==
    ASSUME CardinalityFacts, Inv, NEW i \in Iocb, DispatchWrite(i)
    PROVE  Inv'
<1>1. PICK mask \in SUBSET Subtask : mask = {"local"} \union {x \in {"remote"} : health = "OK"}
  <2>1. {"local"} \union {x \in {"remote"} : health = "OK"} \in SUBSET Subtask
    BY DEF Subtask
  <2> QED
    BY <2>1
<1>2. PICK s0 : s0 = sio[i]
  OBVIOUS
<1>3. disp = Idle /\ s0.st = "req"
  BY <1>2 DEF DispatchWrite
<1>4. s0 \in ServerIocb /\ s0.mask = {} /\ s0.refs = 1 /\ \A j \in Iocb : ~Replying(j)
  BY <1>2, <1>3, IdleIocb, SMT
<1>5. "local" \in mask /\ ("remote" \in mask <=> health = "OK")
  BY <1>1
<1>6. PICK refs \in Int : /\ refs = 1 + Cardinality(mask)
                          /\ refs = 1 + 1 + (IF "remote" \in mask THEN 1 ELSE 0)
  <2>1. CASE health = "OK"
    <3>1. PICK L : L = {"local"}
      OBVIOUS
    <3>2. IsFiniteSet(L) /\ Cardinality(L) = 1
      BY <3>1 DEF CardinalityFacts
    <3>3. mask = L \union {"remote"} /\ "remote" \notin L
      BY <1>1, <2>1, <3>1
    <3>4. Cardinality(mask) = 2
      BY <3>2, <3>3, SMT DEF CardinalityFacts
    <3> QED
      BY <1>5, <2>1, <3>4, SMT
  <2>2. CASE health # "OK"
    <3>1. mask = {"local"}
      BY <1>1, <2>2
    <3>2. Cardinality(mask) = 1
      BY <3>1 DEF CardinalityFacts
    <3> QED
      BY <1>5, <2>2, <3>2, SMT
  <2> QED
    BY <2>1, <2>2
<1>7. PICK s1, s2, s : /\ s1 = SetSt(s0, "busy") /\ s2 = SetMask(s1, mask)
                       /\ s = SetRefs(s2, refs)
  OBVIOUS
<1>8. /\ s \in ServerIocb /\ s.st = "busy" /\ s.mask = mask /\ s.refs = refs
      /\ s.n = s0.n /\ s.b = s0.b /\ s.ok = s0.ok
  <2>1. "busy" \in Status
    BY DEF Status
  <2>2. /\ s1 \in ServerIocb /\ s1.st = "busy" /\ s1.n = s0.n /\ s1.b = s0.b /\ s1.ok = s0.ok
    BY <1>4, <1>7, <2>1, SetField, SMTT(30) DEF SameRequest
  <2>3. /\ s2 \in ServerIocb /\ s2.st = "busy" /\ s2.n = s0.n /\ s2.b = s0.b /\ s2.ok = s0.ok
        /\ s2.mask = mask
    BY <1>7, <2>2, SetField, SMT DEF SameRequest
  <2> QED
    BY <1>7, <2>3, SetField, SMT DEF SameRequest
<1>9. sio'[i] = s /\ DOMAIN sio' = Iocb /\ \A j \in Iocb : j # i => sio'[j] = sio[j]
  <2>1. s = [s0 EXCEPT !.st = "busy", !.mask = mask, !.refs = refs]
    BY <1>7 DEF SetSt, SetMask, SetRefs
  <2>2. sio' = [sio EXCEPT ![i].st = "busy", ![i].mask = mask, ![i].refs = @ + Cardinality(mask)]
    BY <1>1 DEF DispatchWrite
  <2>3. sio \in [Iocb -> ServerIocb]
    BY DEF Inv, ServerInv, ServerType
  <2>4. /\ sio'[i] = [sio[i] EXCEPT !.st = "busy", !.mask = mask, !.refs = sio[i].refs + Cardinality(mask)]
        /\ DOMAIN sio' = Iocb /\ \A j \in Iocb : j # i => sio'[j] = sio[j]
    BY <2>2, <2>3 DEF ServerIocb
  <2>5. sio[i].refs + Cardinality(mask) = refs
    BY <1>2, <1>4, <1>6
  <2>6. [sio[i] EXCEPT !.st = "busy", !.mask = mask, !.refs = sio[i].refs + Cardinality(mask)] = s
    BY <1>2, <2>1, <2>5
  <2> QED
    BY <2>4, <2>6
<1>10. /\ repQ' = IF "remote" \in mask THEN Append(repQ, [k |-> "req", i |-> i]) ELSE repQ
       /\ disk' = disk \union {i}
       /\ UNCHANGED <<client, reqs, disp, done, health, rep, delayed, rio, conns, network,
                      data, acked, disturbed>>
  BY <1>1 DEF DispatchWrite
<1>11. /\ sio' \in [Iocb -> ServerIocb] /\ sio'[i] = s
       /\ \A j \in Iocb : j # i => sio'[j] = sio[j]
  <2>1. \A j \in Iocb : sio[j] \in ServerIocb
    BY DEF Inv, ServerInv, ServerType
  <2>2. sio \in [Iocb -> ServerIocb]
    BY DEF Inv, ServerInv, ServerType
  <2>3. sio' = [sio EXCEPT ![i].st = "busy", ![i].mask = mask, ![i].refs = @ + Cardinality(mask)]
    BY <1>1 DEF DispatchWrite
  <2>4. sio' \in [Iocb -> ServerIocb]
    BY <1>8, <1>9, <2>1, <2>2, <2>3
  <2> QED
    BY <1>9, <2>4
<1>12. ServerType'
  BY <1>10, <1>11 DEF Inv, ServerInv, ServerType
<1>13. IocbOK'
  <2>1. \A j \in Iocb : ~Replying(j)'
    BY <1>4, <1>10 DEF Replying
  <2>2. s.refs = 1 + (IF "local" \in s.mask THEN 1 ELSE 0) + (IF "remote" \in s.mask THEN 1 ELSE 0)
    BY <1>5, <1>6, <1>8
  <2> QED
    BY <1>4, <1>8, <1>11, <2>1, <2>2, SMTT(30) DEF Inv, ServerInv, IocbOK
<1>14. DoneOnce'
  BY <1>10 DEF Inv, ServerInv, DoneOnce
<1>15. \A d \in done : d.i # i
  BY <1>2, <1>4, Named
<1>16. LocalOK'
  BY <1>5, <1>8, <1>10, <1>11, <1>15, Named DEF Inv, ServerInv, ServerType, LocalOK
<1>17. ~Queued(repQ, i) /\ ~Delayed(delayed, i) /\ ~Sent(i) /\ ~Reported(i) /\ ~Answered(i)
  BY <1>2, <1>4 DEF Inv, OnePlace
<1>18. /\ repQ' \in Seq(Event)
       /\ QueuedOnce(repQ') /\ CompletedOnce(repQ') /\ ClosedLast(repQ', rio)
       /\ \A j \in Iocb : Queued(repQ', j) => Queued(repQ, j) \/ (j = i /\ "remote" \in mask)
       /\ \A r \in RepIocb : Completed(repQ', r) <=> Completed(repQ, r)
       /\ \A r \in RepIocb : CompletedOk(repQ', r) => CompletedOk(repQ, r)
       /\ \A c \in Nat : HasClosed(repQ', c) => HasClosed(repQ, c)
  <2>1. repQ \in Seq(Event) /\ QueuedOnce(repQ) /\ CompletedOnce(repQ) /\ ClosedLast(repQ, rio)
    BY DEF Inv, QueueInv, ReplicatorType
  <2>2. CASE "remote" \in mask
    <3>1. PICK e \in Event : e = [k |-> "req", i |-> i]
      <4>1. [k |-> "req", i |-> i] \in Event
        BY DEF Event
      <4> QED
        BY <4>1
    <3>2. repQ' = Append(repQ, e) /\ e.k = "req" /\ e.i = i
      BY <1>10, <2>2, <3>1
    <3> QED
      BY <1>17, <2>1, <2>2, <3>2, PushEvent
  <2>3. CASE "remote" \notin mask
    BY <1>10, <2>1, <2>3
  <2> QED
    BY <2>2, <2>3
<1>19. QueueInv'
  BY <1>10, <1>18, RequestsMove DEF Inv, QueueInv, ReplicatorType, Posting
<1>20. ThrottleOK'
  BY <1>10, <1>18, ThrottleKept DEF Inv
<1>21. OnePlace'
  <2>1. \A j \in Iocb : /\ Delayed(delayed, j)' <=> Delayed(delayed, j)
                        /\ Sent(j)' <=> Sent(j)
                        /\ Reported(j)' <=> Reported(j)
                        /\ Answered(j)' <=> Answered(j)
    BY <1>10 DEF Delayed, Sent, Reported, Answered
  <2> QED
    BY <1>8, <1>11, <1>17, <1>18, <2>1, SMTT(30) DEF Inv, OnePlace
<1>22. WireInv'
  <2>1. NetworkType'
    BY <1>10 DEF Inv, WireInv, NetworkType, network
  <2>2. \A j \in Iocb : sio'[j].n = sio[j].n
    BY <1>2, <1>8, <1>11
  <2> QED
    BY <1>10, <1>18, <1>21, <2>1, <2>2, WireKept
<1>23. NumbersOK'
  BY <1>2, <1>3, <1>8, <1>10, <1>11, NumbersKept DEF Active, Same, network
<1>24. StoredInv'
  <2>1. \A j \in Iocb : Same(j)
    BY <1>2, <1>8, <1>11 DEF Same
  <2>2. \A j \in Iocb : \A p \in Subtask :
           Answering(j)' /\ p \notin sio'[j].mask =>
               \/ Answering(j) /\ p \notin sio[j].mask
               \/ p = "remote" /\ health # "OK"
    BY <1>5, <1>8, <1>11 DEF Answering, Subtask
  <2>3. \A d \in done' : sio'[d.i].mask # {}
    BY <1>10, <1>11, <1>15, Named
  <2>4. \A r \in RepIocb : \A io \in rio[r] : sio'[io.i].mask # {}
    BY <1>11, <1>17, Named DEF Sent
  <2> QED
    BY <1>10, <1>18, <2>1, <2>2, <2>3, <2>4, StoredKept DEF network
<1> QED
  BY <1>12, <1>13, <1>14, <1>16, <1>19, <1>20, <1>21, <1>22, <1>23, <1>24 DEF Inv, ServerInv

\* The completion of the local disk keeps the invariant: no other request is to
\* that block.
LEMMA LocalWriteInv ==
    ASSUME Inv, NEW i \in disk, LocalWrite(i)
    PROVE  Inv'
<1> PICK ok \in BOOLEAN :
          /\ \/ data' = [data EXCEPT !["local"][sio[i].b] = sio[i].n]
             \/ ~ok /\ data' = data
          /\ done' = done \union {[i |-> i, sub |-> "local", ok |-> ok]}
          /\ Disturb({x \in {"disk_error"} : ~ok})
  BY DEF LocalWrite
<1>1. PICK e : e = [i |-> i, sub |-> "local", ok |-> ok]
  OBVIOUS
<1>2. e.i = i /\ e.sub = "local" /\ e.ok = ok
  BY <1>1
<1>3. /\ disk' = disk \ {i} /\ done' = done \union {e}
      /\ data' = [data EXCEPT !["local"][sio[i].b] = sio[i].n] \/ (~ok /\ data' = data)
      /\ UNCHANGED <<sio, client, reqs, disp, health, replicator, network, acked>>
      /\ disturbed \subseteq disturbed'
  BY <1>1 DEF LocalWrite, Disturb
<1>4. i \in Iocb /\ "local" \in sio[i].mask /\ \A d \in done : ~(d.i = i /\ d.sub = "local")
  BY DEF Inv, ServerInv, ServerType, LocalOK
<1>5. sio[i].b \in Block /\ sio[i].n \in Nat /\ data \in [Subtask -> [Block -> Nat]]
  BY <1>4 DEF Inv, ServerInv, ServerType, ServerIocb, WireInv, NetworkType
<1>6. /\ data' \in [Subtask -> [Block -> Nat]] /\ data'["remote"] = data["remote"]
      /\ \A b \in Block : b # sio[i].b => data'["local"][b] = data["local"][b]
      /\ ok => data'["local"][sio[i].b] = sio[i].n
  <2>1. CASE data' = [data EXCEPT !["local"][sio[i].b] = sio[i].n]
    BY <1>5, <2>1 DEF Subtask
  <2>2. CASE ~ok /\ data' = data
    BY <1>5, <2>2
  <2> QED
    BY <1>3, <2>1, <2>2
<1>7. ServerType'
  <2>1. e \in [i : Iocb, sub : Subtask, ok : BOOLEAN]
    BY <1>1, <1>4 DEF Subtask
  <2> QED
    BY <1>3, <2>1 DEF Inv, ServerInv, ServerType
<1>8. IocbOK'
  BY <1>3 DEF Inv, ServerInv, IocbOK, Replying
<1>9. DoneOnce'
  BY <1>2, <1>3, <1>4, SMTT(30) DEF Inv, ServerInv, DoneOnce
<1>10. LocalOK'
  BY <1>2, <1>3, <1>4 DEF Inv, ServerInv, LocalOK
<1>11. QueueInv' /\ ThrottleOK'
  BY <1>3, QueueFrame, ThrottleFrame DEF Inv, replicator
<1>12. \A j \in Iocb : Answered(j)' <=> Answered(j)
  BY <1>2, <1>3 DEF Answered
<1>13. OnePlace'
  BY <1>3, <1>12, PlaceKept
<1>14. WireInv'
  <2>1. NetworkType'
    BY <1>3, <1>6 DEF Inv, WireInv, NetworkType, network
  <2> QED
    BY <1>3, <1>13, <2>1, WireKept DEF replicator
<1>15. NumbersOK'
  BY <1>3, NumbersFrame DEF Inv, network
<1>16. LocalStored'
  <2>1. \A j \in Iocb : sio[j].mask # {} => Active(j)
    BY DEF Inv, ServerInv, IocbOK, Active
  <2>2. Active(i) /\ acked[sio[i].b] = {}
    BY <1>4, <2>1 DEF Inv, NumbersOK
  <2>3. \A j \in Iocb : Active(j) /\ j # i => sio[j].b # sio[i].b
    BY <1>4, <2>2 DEF Inv, NumbersOK
  <2>4. \A j \in Iocb : sio[j].b \in Block
    BY DEF Inv, ServerInv, ServerType, ServerIocb
  <2>5. \A j \in Iocb : Active(j) /\ j # i /\ Stored("local", j) => Stored("local", j)'
    BY <1>3, <1>6, <2>3, <2>4 DEF Stored
  <2>6. ok => Stored("local", i)'
    BY <1>3, <1>6, <2>4, <1>4 DEF Stored
  <2>7. LocalStored
    BY DEF Inv, StoredInv
  <2>8. \A d \in done' : d.sub = "local" /\ d.ok => Stored("local", d.i)'
    BY <1>2, <1>3, <1>4, <2>1, <2>5, <2>6, <2>7, Named DEF LocalStored
  <2>9. \A j \in Iocb : Answering(j)' /\ "local" \notin sio'[j].mask => Stored("local", j)'
    BY <1>3, <1>4, <2>5, <2>7 DEF LocalStored, Answering, Active
  <2>10. \A b \in Block : \A n \in acked'[b] : data'["local"][b] = n
    <3>1. SUFFICES ASSUME NEW b \in Block, NEW n \in acked[b]
                   PROVE  data'["local"][b] = n
      BY <1>3
    <3>2. b # sio[i].b
      BY <2>2
    <3>3. data["local"][b] = n
      BY <2>7 DEF LocalStored
    <3> QED
      BY <1>6, <3>2, <3>3
  <2> QED
    BY <2>8, <2>9, <2>10 DEF LocalStored
<1>17. ASSUME RemoteStored PROVE RemoteStored'
  <2>1. \A j \in Iocb : Stored("remote", j)' <=> Stored("remote", j)
    BY <1>3, <1>6 DEF Stored
  <2>2. rio' = rio /\ replies' = replies /\ repQ' = repQ
    BY <1>3 DEF replicator, network
  <2> QED
    BY <1>2, <1>3, <1>6, <1>17, <2>1, <2>2, Named, SMTT(30) DEF RemoteStored, Answering, CompletedOk
<1> QED
  BY <1>3, <1>7, <1>8, <1>9, <1>10, <1>11, <1>13, <1>14, <1>15, <1>16, <1>17
     DEF Inv, ServerInv, StoredInv, Calm

\* The process ends, and nothing but the data and the peer's messages stays.
LEMMA ConductorRefusesInv ==
    ASSUME Inv, ConductorRefuses
    PROVE  Inv'
<1>1. /\ rep' = [pc |-> "aborted"] /\ disp' = [pc |-> "stuck"] /\ client' = "CLOSED"
      /\ sio' = [i \in Iocb |-> Unref(Fresh, 1)] /\ rio' = [r \in RepIocb |-> {}]
      /\ done' = {} /\ disk' = {} /\ repQ' = <<>> /\ delayed' = <<>> /\ replies' = {}
      /\ conns' = [c \in DOMAIN conns |-> [conns[c] EXCEPT !.ok = FALSE]]
      /\ UNCHANGED <<reqs, health, peer, data, acked>>
      /\ disturbed \subseteq disturbed'
  BY DEF ConductorRefuses, Disturb
<1>2. \A i \in Iocb : sio'[i] = Pooled
  BY <1>1, FreshType DEF Unref, Pooled
<1>3. \A i \in Iocb : /\ sio'[i] \in ServerIocb /\ sio'[i].mask = {}
                      /\ sio'[i].st = "pool" /\ sio'[i].refs = 0
  BY <1>2, PooledType
<1>4. disp'.pc = "stuck" /\ rep'.pc = "aborted"
  BY <1>1
<1>5. ServerInv'
  <2>1. ServerType'
    <3>1. sio' \in [Iocb -> ServerIocb]
      BY <1>1, <1>3
    <3> QED
      BY <1>1, <3>1 DEF Inv, ServerInv, ServerType
  <2>2. IocbOK'
    BY <1>3, <1>4 DEF IocbOK, Replying
  <2> QED
    BY <1>1, <2>1, <2>2 DEF ServerInv, DoneOnce, LocalOK
<1>6. /\ repQ' \in Seq(Event) /\ delayed' \in Seq(Iocb)
      /\ DOMAIN repQ' = {} /\ DOMAIN delayed' = {}
  BY <1>1, SMTT(30)
<1>7. conns \in Seq(Conn) /\ DOMAIN conns = 1..Len(conns) /\ Len(conns) \in Nat
  BY LengthFacts DEF Inv, QueueInv, ReplicatorType
<1>8. \A c \in 1..Len(conns) : conns'[c] \in Conn /\ ~conns'[c].ok
  <2> TAKE c \in 1..Len(conns)
  <2>1. conns[c] \in Conn
    BY <1>7, ElementFacts
  <2>2. PICK f \in BOOLEAN : f = FALSE
    OBVIOUS
  <2>3. conns'[c] = [conns[c] EXCEPT !.ok = f]
    BY <1>1, <1>7, <2>2
  <2>4. conns'[c] \in Conn /\ conns'[c].ok = f
    BY <2>1, <2>3 DEF Conn
  <2> QED
    BY <2>2, <2>4
<1>9. conns' \in Seq(Conn) /\ Len(conns') = Len(conns)
  <2>1. PICK g : g = conns'
    OBVIOUS
  <2>2. g \in [1..Len(conns) -> Conn]
    BY <1>1, <1>7, <1>8, <2>1
  <2>3. g \in Seq(Conn) /\ Len(g) = Len(conns)
    BY <1>7, <2>2, FunctionSeq
  <2> QED
    BY <2>1, <2>3
<1>10. QueueInv'
  <2>1. ReplicatorType'
    BY <1>1, <1>6, <1>9 DEF ReplicatorType, RepState
  <2>2. /\ QueuedOnce(repQ') /\ DelayedOnce(delayed') /\ SentOnce'
        /\ CompletedOnce(repQ') /\ ClosedLast(repQ', rio')
    BY <1>1, <1>6 DEF QueuedOnce, DelayedOnce, SentOnce, CompletedOnce, ClosedLast
  <2>3. ConnOK'
    BY <1>1, <1>4, <1>6, <1>8, <1>9 DEF ConnOK, Posting, Completed, HasClosed, Current
  <2> QED
    BY <2>1, <2>2, <2>3 DEF QueueInv
<1>11. OnePlace'
  BY <1>1, <1>4, <1>6 DEF OnePlace, Queued, Delayed, Sent, Reported, Answered
<1>12. WireInv'
  <2>1. NetworkType'
    BY <1>1 DEF Inv, WireInv, NetworkType
  <2>2. \A m \in peer' : m.c \in 1..Len(conns)
    BY <1>1 DEF Inv, WireInv, WireOK, Current
  <2> QED
    BY <1>1, <1>8, <1>9, <2>1, <2>2 DEF WireInv, WireOK, Current
<1>13. ThrottleOK'
  <2>1. ~Connected'
    <3>1. conns' # <<>> => Len(conns') \in 1..Len(conns')
      BY <1>9, SMT
    <3> QED
      BY <1>8, <1>9, <3>1 DEF Connected, Current
  <2> QED
    BY <2>1 DEF ThrottleOK
<1>14. \A i \in Iocb : ~Active(i)' /\ ~Answering(i)'
  BY <1>3 DEF Active, Answering
<1>15. NumbersOK'
  BY <1>1, <1>14 DEF Inv, NumbersOK
<1>16. StoredInv'
  <2>1. LocalStored'
    BY <1>1, <1>14 DEF Inv, StoredInv, LocalStored
  <2>2. ASSUME RemoteStored PROVE RemoteStored'
    BY <1>1, <1>6, <1>14, <2>2 DEF RemoteStored, CompletedOk
  <2> QED
    BY <1>1, <2>1, <2>2 DEF Inv, StoredInv, Calm
<1> QED
  BY <1>5, <1>10, <1>11, <1>12, <1>13, <1>15, <1>16 DEF Inv
=============================================================================
