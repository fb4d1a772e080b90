------------------------------ MODULE StoreIO ------------------------------
(***************************************************************************)
(* Writes through the primary's store: the dispatcher of the client's      *)
(* connection gives each write to the local disk and to the replicator,    *)
(* which sends it over a connection to the peer that has the other         *)
(* replica, and answers the client when both are done.  The replicator     *)
(* throttles, delays, resends after its connection broke, and reports a    *)
(* peer that it cannot reach to the conductor, which takes the replica out *)
(* of service.                                                             *)
(*                                                                         *)
(* A value is the number of the request.  The client has at most one write *)
(* to a block outstanding.  What the peer has received it executes in any  *)
(* order: each connection has a dispatcher and disk queue of its own there.*)
(* Completions wait in the dispatcher's event queue as a set, since those  *)
(* of one write commute and so do those of different writes.               *)
(***************************************************************************)
EXTENDS Integers, Sequences, FiniteSets, Functions

CONSTANTS
    Iocb,         \* PfServerIocb's of the client's connection
    RepIocb,      \* the replicator's PfClientIocb's
    Block,        \* blocks of the volume
    IoDepth,      \* io_depth of the replicator's connection
    StartCounts,  \* what inflying_io may hold in a new connection
    Disturbances, \* which of the events below may happen
    MaxReq,       \* bound: requests
    MaxConns,     \* bound: connections to the peer, one after the other
    MaxRecoveryReads, \* bound: recovery reads on a connection
    MaxDisturbances \* bound: kinds of disturbances in one behaviour

\* close_race: the replicator's connection closes, with nothing in flight,
\*   between get_conn and post_send;
\* late_original: the peer executes a request of a closed connection after the
\*   write was done by the one that was sent again;
\* no_iocb: the replicator has no free iocb;
\* requeued: there is no reply buffer, or post_recv or post_send fails;
\* recovery_read: a recovery read uses the replicator's connection;
\* uninit_count: inflying_io, which no constructor sets, does not start at 0;
\* conductor_silent: none of the five error reports is answered;
\* conductor_refuses: the conductor answers a report with an error;
\* disk_error: a disk reports an error, and may have written all the same;
\* reply_race: the client's connection closes between reply_io_to_client's
\*   test and post_send;
\* not_primary: a write comes to a node that is not the shard's primary.
Miscounts == {"no_iocb", "requeued", "recovery_read", "uninit_count"}
DisturbanceKinds ==
    Miscounts \union {"close_race", "late_original", "conductor_silent", "conductor_refuses",
                      "disk_error", "reply_race", "not_primary"}

ASSUME StoreIOAssumption ==
    /\ IsFiniteSet(Iocb) /\ IsFiniteSet(RepIocb) /\ IsFiniteSet(Block)
    /\ Block # {}
    /\ IoDepth \in Nat \ {0} /\ MaxReq \in Nat /\ MaxConns \in Nat
    /\ MaxRecoveryReads \in Nat /\ MaxDisturbances \in Nat
    /\ StartCounts \subseteq Int
    /\ Disturbances \subseteq DisturbanceKinds

VARIABLES
    sio,       \* server iocb -> [st, n, b, mask, ok, refs]
    client,    \* state of the client's connection
    reqs,      \* requests so far (bound, and the next value)
    disp,      \* the dispatcher thread: [pc, ...]
    done,      \* EVT_IO_COMPLETE events: set of [i, sub, ok]
    disk,      \* local subtasks at the disk
    health,    \* status of the remote replica in the shard
    rep,       \* the replicator thread: [pc, ...]
    repQ,      \* its event queue
    delayed,   \* the delay thread's event queue
    rio,       \* replicator iocb -> {} in the pool, or {[i, c]}
    conns,     \* connections to the peer: [ok, infly, drift, unclean], where drift
               \* is what infly counts besides requests (history)
    peer,      \* requests sent and not executed yet
    replies,   \* replies on the way back
    data,      \* replica -> block -> value
    acked,     \* block -> {value of the last write, if acknowledged}
    disturbed  \* the disturbances that have happened (history)

server == <<sio, client, reqs, disp, done, disk>>
replicator == <<rep, repQ, delayed, rio, conns>>
network == <<peer, replies>>
vars == <<server, health, replicator, network, data, acked, disturbed>>

Idle == [pc |-> "idle"]
Fresh == [st |-> "recv", n |-> 0, b |-> CHOOSE b \in Block : TRUE, mask |-> {},
          ok |-> TRUE, refs |-> 1]

Init ==
    /\ sio = [i \in Iocb |-> Fresh]
    /\ client = "OK" /\ reqs = 0 /\ disp = Idle
    /\ done = {} /\ disk = {} /\ health = "OK"
    /\ rep = Idle /\ repQ = <<>> /\ delayed = <<>>
    /\ rio = [r \in RepIocb |-> {}]
    /\ conns = <<>>
    /\ peer = {} /\ replies = {}
    /\ data = [p \in {"local", "remote"} |-> [b \in Block |-> 0]]
    /\ acked = [b \in Block |-> {0}]
    /\ disturbed = {}

Disturb(kinds) ==
    /\ kinds \subseteq Disturbances
    /\ Cardinality(disturbed \union kinds) <= MaxDisturbances
    /\ disturbed' = disturbed \union kinds

-----------------------------------------------------------------------------
(* The client's connection and the dispatcher.                             *)

\* The iocb has lost k references; with the last it goes back to the pool.
Unref(s, k) ==
    IF s.refs = k THEN [Fresh EXCEPT !.st = "pool", !.refs = 0]
    ELSE [s EXCEPT !.refs = @ - k]

Posted == {i \in Iocb : sio[i].st = "recv"}

\* server_on_tcp_network_done: a write and its data have been received, by one
\* of the iocbs posted for it (which one makes no difference, nor does it which
\* of the blocks that were never written is the next one).
Receive(b) ==
    /\ client = "OK" /\ reqs < MaxReq /\ Posted # {}
    /\ \A j \in Iocb : sio[j].st \notin {"recv", "pool"} => sio[j].b # b
    /\ acked[b] = {0} => b = CHOOSE x \in Block : acked[x] = {0}
    /\ reqs' = reqs + 1
    /\ LET i == CHOOSE i \in Posted : TRUE
       IN  sio' = [sio EXCEPT ![i].st = "req", ![i].n = reqs', ![i].b = b]
    /\ acked' = [acked EXCEPT ![b] = {}]
    /\ UNCHANGED <<client, disp, done, disk, health, replicator, network, data, disturbed>>

\* reply_io_to_client, its test: s is the iocb, and the dispatcher drops `drop`
\* references after it.  A closed connection gives up its own reference too.
Reply(i, s, drop) ==
    IF client = "OK"
    THEN disp' = [pc |-> "post", i |-> i, drop |-> drop] /\ sio' = [sio EXCEPT ![i] = s]
    ELSE disp' = Idle /\ sio' = [sio EXCEPT ![i] = Unref(s, drop + 1)]

\* post_send of the reply.  A buffer posted after the flush of the closed
\* connection stays there, and its iocb with it.
PostReply ==
    /\ disp.pc = "post"
    /\ LET s == Unref(sio[disp.i], disp.drop)
       IN  sio' = [sio EXCEPT ![disp.i] = [s EXCEPT !.st = IF client = "OK" THEN "reply" ELSE "dead"]]
    /\ Disturb({x \in {"reply_race"} : client = "CLOSED"})
    /\ disp' = Idle
    /\ UNCHANGED <<client, reqs, done, disk, health, replicator, network, data, acked>>

\* dispatch_io, dispatch_write: to the replicas in service.
DispatchWrite(i) ==
    /\ disp = Idle /\ sio[i].st = "req"
    /\ LET mask == {"local"} \union {x \in {"remote"} : health = "OK"}
       IN  /\ sio' = [sio EXCEPT ![i].st = "busy", ![i].mask = mask,
                                 ![i].refs = @ + Cardinality(mask)]
           /\ repQ' = IF "remote" \in mask THEN Append(repQ, [k |-> "req", i |-> i]) ELSE repQ
    /\ disk' = disk \union {i}
    /\ UNCHANGED <<client, reqs, disp, done, health, rep, delayed, rio, conns, network,
                   data, acked, disturbed>>

\* dispatch_io: the volume is not open here, or has another meta_ver.
DispatchRefused(i) ==
    /\ disp = Idle /\ sio[i].st = "req"
    /\ Reply(i, [sio[i] EXCEPT !.st = "busy", !.ok = FALSE], 0)
    /\ UNCHANGED <<client, reqs, done, disk, health, replicator, network, data, acked, disturbed>>

\* dispatch_write on a node that is not the primary: the future of std::async
\* makes the dispatcher wait for a task that waits for the dispatcher.
DispatchNotPrimary(i) ==
    /\ disp = Idle /\ sio[i].st = "req"
    /\ Disturb({"not_primary"})
    /\ disp' = [pc |-> "stuck"]
    /\ UNCHANGED <<sio, client, reqs, done, disk, health, replicator, network, data, acked>>

\* Mutant: the last status is the answer.
MergeStatusLast(old, new) == new

\* The first status that is not SUCCESS is the answer.
MergeStatus(old, new) == old /\ new

\* Mutant: the first subtask to complete answers the client.
DispatchCompleteFirst(d) ==
    /\ disp = Idle /\ d \in done
    /\ done' = done \ {d}
    /\ Reply(d.i, [sio[d.i] EXCEPT !.mask = @ \ {d.sub}, !.ok = MergeStatus(@, d.ok)], 1)
    /\ UNCHANGED <<client, reqs, disk, health, replicator, network, data, acked, disturbed>>

DispatchComplete(d) ==
    /\ disp = Idle /\ d \in done
    /\ done' = done \ {d}
    /\ LET s == [sio[d.i] EXCEPT !.mask = @ \ {d.sub}, !.ok = MergeStatus(@, d.ok)]
       IN  IF s.mask = {} THEN Reply(d.i, s, 1)
           ELSE sio' = [sio EXCEPT ![d.i] = Unref(s, 1)] /\ UNCHANGED disp
    /\ UNCHANGED <<client, reqs, disk, health, replicator, network, data, acked, disturbed>>

\* The reply is sent: the client has it, and the iocb takes the next request.
ReplySent(i) ==
    /\ client = "OK" /\ sio[i].st = "reply"
    /\ acked' = [acked EXCEPT ![sio[i].b] = {n \in {sio[i].n} : sio[i].ok}]
    /\ sio' = [sio EXCEPT ![i] = [Fresh EXCEPT !.refs = sio[i].refs]]
    /\ UNCHANGED <<client, reqs, disp, done, disk, health, replicator, network, data, disturbed>>

\* The client's connection closes: flush_wr completes what is posted on it.
ClientClose ==
    /\ client = "OK"
    /\ client' = "CLOSED"
    /\ sio' = [i \in Iocb |-> IF sio[i].st \in {"recv", "reply"} THEN Unref(sio[i], 1) ELSE sio[i]]
    /\ UNCHANGED <<reqs, disp, done, disk, health, replicator, network, data, acked, disturbed>>

\* The local disk has done its part, or failed.
LocalWrite(i) ==
    /\ i \in disk
    /\ disk' = disk \ {i}
    /\ \E ok \in BOOLEAN :
          /\ \/ data' = [data EXCEPT !["local"][sio[i].b] = sio[i].n]
             \/ ~ok /\ data' = data
          /\ done' = done \union {[i |-> i, sub |-> "local", ok |-> ok]}
          /\ Disturb({x \in {"disk_error"} : ~ok})
    /\ UNCHANGED <<sio, client, reqs, disp, health, replicator, network, acked>>

-----------------------------------------------------------------------------
(* The replicator.                                                         *)

Current == Len(conns)
Connected == conns # <<>> /\ conns[Current].ok
NextEvent(k) == rep = Idle /\ repQ # <<>> /\ Head(repQ).k = k
FreeIocbs == {r \in RepIocb : rio[r] = {}}
Requests(is) == [j \in DOMAIN is |-> [k |-> "req", i |-> is[j]]]

\* get_conn: connect, or fail to.  Without a connection the error is reported.
\* The constructor of PfConnection leaves inflying_io as it finds it.
Connect ==
    /\ NextEvent("req") /\ ~Connected /\ Len(conns) < MaxConns
    /\ \E v \in StartCounts \union {0} :
          /\ conns' = Append(conns, [ok |-> TRUE, infly |-> v, drift |-> v, unclean |-> FALSE])
          /\ Disturb({x \in {"uninit_count"} : v # 0})
    /\ UNCHANGED <<server, health, rep, repQ, delayed, rio, network, data, acked>>

CannotConnect ==
    /\ NextEvent("req") /\ ~Connected
    /\ rep' = [pc |-> "report", i |-> Head(repQ).i]
    /\ repQ' = Tail(repQ)
    /\ UNCHANGED <<server, health, delayed, rio, conns, network, data, acked, disturbed>>

\* Mutant: get_throttle does not undo its count.
ThrottledCounts ==
    /\ NextEvent("req") /\ Connected /\ conns[Current].infly >= IoDepth
    /\ conns' = [conns EXCEPT ![Current].infly = @ + 1]
    /\ delayed' = Append(delayed, Head(repQ).i)
    /\ repQ' = Tail(repQ)
    /\ UNCHANGED <<server, health, rep, rio, network, data, acked, disturbed>>

\* begin_replicate_io: io_depth requests are in flight, try again later.
Throttled ==
    /\ NextEvent("req") /\ Connected /\ conns[Current].infly >= IoDepth
    /\ delayed' = Append(delayed, Head(repQ).i)
    /\ repQ' = Tail(repQ)
    /\ UNCHANGED <<server, health, rep, rio, conns, network, data, acked, disturbed>>

\* begin_replicate_io up to post_send.
BeginReplicate(r) ==
    /\ NextEvent("req") /\ Connected /\ conns[Current].infly < IoDepth /\ r \in FreeIocbs
    /\ conns' = [conns EXCEPT ![Current].infly = @ + 1]
    /\ rio' = [rio EXCEPT ![r] = {[i |-> Head(repQ).i, c |-> Current]}]
    /\ rep' = [pc |-> "post", r |-> r]
    /\ repQ' = Tail(repQ)
    /\ UNCHANGED <<server, health, delayed, network, data, acked, disturbed>>

\* Connection k counts n more, and no request.
Miscount(k, n) ==
    [ok |-> k.ok, infly |-> k.infly + n, drift |-> k.drift + n, unclean |-> k.unclean]

\* No iocb: the count that get_throttle took is not given back.
NoRepIocb ==
    /\ NextEvent("req") /\ Connected /\ conns[Current].infly < IoDepth /\ FreeIocbs = {}
    /\ Disturb({"no_iocb"})
    /\ conns' = [conns EXCEPT ![Current] = Miscount(@, 1)]
    /\ delayed' = Append(delayed, Head(repQ).i)
    /\ repQ' = Tail(repQ)
    /\ UNCHANGED <<server, health, rep, rio, network, data, acked>>

\* No reply buffer, or post_recv fails: the request goes back to the queue.
Requeue ==
    /\ NextEvent("req") /\ Connected /\ conns[Current].infly < IoDepth /\ FreeIocbs # {}
    /\ Disturb({"requeued"})
    /\ conns' = [conns EXCEPT ![Current] = Miscount(@, 1)]
    /\ repQ' = Append(Tail(repQ), Head(repQ))
    /\ UNCHANGED <<server, health, rep, delayed, rio, network, data, acked>>

\* post_recv and post_send, also on a connection that has closed meanwhile.
\* handle_conn_close finds the request there if the close was unclean.
PostSend ==
    /\ rep.pc = "post"
    /\ \E io \in rio[rep.r] :
          /\ peer' = IF conns[io.c].ok
                     THEN peer \union {[c |-> io.c, r |-> rep.r, n |-> sio[io.i].n, b |-> sio[io.i].b]}
                     ELSE peer
          /\ Disturb({x \in {"close_race"} : ~conns[io.c].ok /\ ~conns[io.c].unclean})
    /\ rep' = Idle
    /\ UNCHANGED <<server, health, repQ, delayed, rio, conns, replies, data, acked>>

\* post_send fails: the request goes back to the queue, its count is kept, and
\* the reply buffer stays posted, where flush_wr will find it.
PostSendFails ==
    /\ rep.pc = "post"
    /\ Disturb({"requeued"})
    /\ \E io \in rio[rep.r] :
          /\ conns' = [conns EXCEPT ![io.c] =
                          [ok |-> @.ok, infly |-> @.infly, drift |-> @.drift + 1,
                           unclean |-> @.unclean \/ @.ok]]
          /\ repQ' = Append(repQ, [k |-> "req", i |-> io.i])
    /\ rio' = [rio EXCEPT ![rep.r] = {}]
    /\ rep' = Idle
    /\ UNCHANGED <<server, health, delayed, network, data, acked>>

DelayOver ==
    /\ delayed # <<>>
    /\ delayed' = Tail(delayed)
    /\ repQ' = repQ \o Requests(<<Head(delayed)>>)
    /\ UNCHANGED <<server, health, rep, rio, conns, network, data, acked, disturbed>>

RemoteDone(i, ok) == done' = done \union {[i |-> i, sub |-> "remote", ok |-> ok]}

\* process_io_complete.
RepComplete ==
    /\ NextEvent("complete")
    /\ LET e == Head(repQ)
       IN  /\ \E io \in rio[e.r] : RemoteDone(io.i, e.ok)
           /\ rio' = [rio EXCEPT ![e.r] = {}]
    /\ repQ' = Tail(repQ)
    /\ UNCHANGED <<sio, client, reqs, disp, disk, health, rep, delayed, conns, network, data,
                   acked, disturbed>>

\* The orders in which the requests of S can be sent.
Orders(S) == Bijection(1..Cardinality(S), S)

OnConn(c) == {r \in RepIocb : \E io \in rio[r] : io.c = c}

\* Mutant: the requests of the closed connection are released, not sent again.
HandleConnCloseForgets ==
    /\ NextEvent("closed")
    /\ rio' = [r \in RepIocb |-> IF r \in OnConn(Head(repQ).c) THEN {} ELSE rio[r]]
    /\ repQ' = Tail(repQ)
    /\ UNCHANGED <<server, health, rep, delayed, conns, network, data, acked, disturbed>>

\* handle_conn_close: the requests of the connection are sent again.
HandleConnClose ==
    /\ NextEvent("closed")
    /\ LET rs == OnConn(Head(repQ).c)
       IN  /\ rio' = [r \in RepIocb |-> IF r \in rs THEN {} ELSE rio[r]]
           /\ \E is \in Orders({io.i : io \in UNION {rio[r] : r \in rs}}) :
                 repQ' = Tail(repQ) \o Requests(is)
    /\ UNCHANGED <<server, health, rep, delayed, conns, network, data, acked, disturbed>>

\* submit_error.  The conductor (external) takes the replica out of service and
\* answers that the client has to open the volume again.
ConductorAnswers ==
    /\ rep.pc = "report"
    /\ health' = "ERROR"
    /\ RemoteDone(rep.i, FALSE)
    /\ rep' = Idle
    /\ UNCHANGED <<sio, client, reqs, disp, disk, repQ, delayed, rio, conns, network, data,
                   acked, disturbed>>

\* report_error_to_conductor throws when ret_code is not 0, and nothing catches
\* it: the process ends, and with it all that it had in memory or was to send.
ConductorRefuses ==
    /\ rep.pc = "report"
    /\ Disturb({"conductor_refuses"})
    /\ rep' = [pc |-> "aborted"] /\ disp' = [pc |-> "stuck"] /\ client' = "CLOSED"
    /\ sio' = [i \in Iocb |-> Unref(Fresh, 1)] /\ rio' = [r \in RepIocb |-> {}]
    /\ done' = {} /\ disk' = {} /\ repQ' = <<>> /\ delayed' = <<>> /\ replies' = {}
    /\ conns' = [c \in DOMAIN conns |-> [conns[c] EXCEPT !.ok = FALSE]]
    /\ UNCHANGED <<reqs, health, peer, data, acked>>

\* All reports fail: the status is that of an ErrorReportReply never filled in.
ConductorSilent ==
    /\ rep.pc = "report"
    /\ Disturb({"conductor_silent"})
    /\ \E ok \in BOOLEAN : RemoteDone(rep.i, ok)
    /\ rep' = Idle
    /\ UNCHANGED <<sio, client, reqs, disp, disk, health, repQ, delayed, rio, conns, network,
                   data, acked>>

-----------------------------------------------------------------------------
(* The connection and the peer.                                            *)

Answer(m, ok) ==
    /\ peer' = peer \ {m}
    /\ replies' = IF conns[m.c].ok THEN replies \union {[c |-> m.c, r |-> m.r, ok |-> ok]} ELSE replies
    /\ UNCHANGED <<server, health, replicator, acked>>

RemotePending(n) == \E i \in Iocb : sio[i].n = n /\ "remote" \in sio[i].mask

\* dispatch_rep_write at the peer, and its disk.
PeerExecutes(m) ==
    /\ m \in peer
    /\ data' = [data EXCEPT !["remote"][m.b] = m.n]
    /\ \E ok \in BOOLEAN :
          /\ Disturb({x \in {"late_original"} : ~RemotePending(m.n)}
                     \union {x \in {"disk_error"} : ~ok})
          /\ Answer(m, ok)

\* The peer has another meta_ver, or its disk has written nothing.
PeerRefuses(m) ==
    /\ m \in peer
    /\ Answer(m, FALSE)
    /\ UNCHANGED <<data, disturbed>>

\* replicator_on_tcp_network_done for a reply.
ReplyArrives(x) ==
    /\ x \in replies
    /\ replies' = replies \ {x}
    /\ conns' = [conns EXCEPT ![x.c].infly = @ - 1]
    /\ repQ' = Append(repQ, [k |-> "complete", r |-> x.r, ok |-> x.ok])
    /\ UNCHANGED <<server, health, rep, delayed, rio, peer, data, acked, disturbed>>

\* The same for the payload of a recovery read (begin_recovery_read_io), which
\* ends with put_throttle although it began without get_throttle.
RecoveryReadDone ==
    /\ Connected /\ conns[Current].drift > -MaxRecoveryReads
    /\ Disturb({"recovery_read"})
    /\ conns' = [conns EXCEPT ![Current] = Miscount(@, -1)]
    /\ UNCHANGED <<server, health, rep, repQ, delayed, rio, network, data, acked>>

\* Iocbs of a connection that wait for a reply.
Waiting(c) ==
    {r \in OnConn(c) : /\ ~(rep.pc = "post" /\ rep.r = r)
                       /\ \A j \in DOMAIN repQ : repQ[j].k = "complete" => repQ[j].r # r}

\* The connection closes: flush_wr finds the reply buffers that are posted, and
\* replicator_on_conn_close has the requests sent again.  What was on the way is
\* lost; requests that the peer has received already it still executes.
ConnClose ==
    /\ Connected
    /\ LET unclean == conns[Current].unclean \/ Waiting(Current) # {}
       IN  /\ conns' = [conns EXCEPT ![Current] = [@ EXCEPT !.ok = FALSE, !.unclean = unclean]]
           /\ repQ' = IF unclean THEN Append(repQ, [k |-> "closed", c |-> Current]) ELSE repQ
    /\ replies' = {}
    /\ \E lost \in SUBSET {m \in peer : m.c = Current} : peer' = peer \ lost
    /\ UNCHANGED <<server, health, rep, delayed, rio, data, acked, disturbed>>

-----------------------------------------------------------------------------
Dispatcher ==
    \/ PostReply
    \/ \E i \in Iocb : DispatchWrite(i) \/ DispatchRefused(i)
    \/ \E d \in done : DispatchComplete(d)

Replicator ==
    \/ Connect \/ CannotConnect \/ Throttled \/ NoRepIocb \/ PostSend
    \/ \E r \in RepIocb : BeginReplicate(r)
    \/ RepComplete \/ HandleConnClose \/ ConductorAnswers

Transport ==
    \/ \E m \in peer : PeerExecutes(m) \/ PeerRefuses(m)
    \/ \E x \in replies : ReplyArrives(x)

Disk == \E i \in disk : LocalWrite(i)
SendReply == \E i \in Iocb : ReplySent(i)

Next ==
    \/ \E b \in Block : Receive(b)
    \/ Dispatcher \/ \E i \in Iocb : DispatchNotPrimary(i)
    \/ SendReply \/ ClientClose \/ Disk
    \/ Replicator \/ DelayOver \/ Requeue \/ PostSendFails
    \/ ConductorSilent \/ ConductorRefuses
    \/ Transport \/ RecoveryReadDone \/ ConnClose

\* Every thread goes on while it has work, and the network delivers while it is
\* connected.  Nothing is assumed once something has disturbed them.
Undisturbed == disturbed = {}
Fairness ==
    /\ WF_vars(Undisturbed /\ Dispatcher) /\ WF_vars(Undisturbed /\ Replicator)
    /\ WF_vars(Undisturbed /\ DelayOver) /\ WF_vars(Undisturbed /\ Disk)
    /\ WF_vars(Undisturbed /\ SendReply) /\ WF_vars(Undisturbed /\ Transport)

Spec == Init /\ [][Next]_vars
FairSpec == Spec /\ Fairness

-----------------------------------------------------------------------------
\* A write that was acknowledged is on the local replica, and on the remote one
\* as long as that is in service: the answer waits for both, and keeps the
\* first bad status, whatever was throttled, delayed, sent twice or reported
\* meanwhile.
AckedOnEveryReplica ==
    ("late_original" \notin disturbed /\ "conductor_silent" \notin disturbed) =>
        \A b \in Block : \A n \in acked[b] :
            data["local"][b] = n /\ (health = "OK" => data["remote"][b] = n)

\* Where a subtask of iocb i is.
Pending(i) ==
    \/ i \in disk \/ i \in Range(delayed)
    \/ \E d \in done : d.i = i
    \/ \E j \in DOMAIN repQ : repQ[j].k = "req" /\ repQ[j].i = i
    \/ \E r \in RepIocb : \E io \in rio[r] : io.i = i
    \/ rep.pc = "report" /\ rep.i = i

\* An iocb that is back in the pool, or takes the next request, is not used any
\* more by the disk or the replicator, whose subtasks point into it.
IocbFreedLast ==
    \A i \in Iocb : sio[i].st \in {"pool", "recv", "reply"} => ~Pending(i) /\ sio[i].mask = {}

\* inflying_io of the open connection counts the requests on it that have no
\* reply yet, and besides only what it held when the connection was made, one
\* for each request put back after get_throttle, less one for each recovery
\* read: throttling, resending and failing replies miscount nothing.  Without
\* those four causes it is exact.
ThrottleAccounted ==
    Connected =>
        /\ conns[Current].infly = conns[Current].drift +
               Cardinality(Waiting(Current) \union {r \in OnConn(Current) : rep.pc = "post" /\ rep.r = r})
        /\ disturbed \cap Miscounts = {} => conns[Current].drift = 0

\* Every request is answered in the end, or its iocb returns to the pool when
\* the client is gone; no request is forgotten by a closed connection, the
\* throttle or the delay thread.
EveryRequestSettled ==
    []<>(~Undisturbed \/ \A i \in Iocb : sio[i].st \in {"recv", "pool"})
=============================================================================
