---------------------------- MODULE ClientVolume ----------------------------
(***************************************************************************)
(* The client library's view of one opened volume: user requests take a    *)
(* PfClientIocb from the pool, the vol_proc thread sends them, the poller  *)
(* thread receives the replies, the timeout thread finds the I/Os that are *)
(* overdue, and the volume is opened again when no store can be reached or *)
(* a store answers MSG_STATUS_REOPEN.  All work meets in one event queue,  *)
(* whose events vol_proc handles one at a time.                            *)
(*                                                                         *)
(* The transport is TCP to one store, so at most one connection is open:   *)
(* an iocb's connection is none, the live one, or one that has been closed *)
(* (dead).  Replies come only on the live connection.  command_seq matters *)
(* only by being equal or not to the iocb's, so a request in the network   *)
(* carries whether it has been overtaken.  Times matter only by being over *)
(* io_timeout old or not.                                                  *)
(***************************************************************************)
EXTENDS Naturals, Sequences, FiniteSets, Functions

CONSTANTS
    Iocb,          \* the iocbs of iocb_pool; reply_pool is of the same size
    Disturbances,  \* which of the events below may happen
    Reads,         \* the requests that are reads
    MaxReq,        \* bound: user requests
    MaxVer,        \* bound: meta_ver of the volume
    MaxLosses      \* bound: connections lost

\* close_race: a connection is closed by the poller after get_conn returned
\*   it and before the buffers of the request were posted;
\* read_refused: a store refuses a READ, whose reply has then no payload;
\* reopen_fails: the conductor cannot be reached for a reopen.
DisturbanceKinds == {"close_race", "read_refused", "reopen_fails"}

ASSUME ClientVolumeAssumption ==
    /\ IsFiniteSet(Iocb) /\ Iocb # {}
    /\ Reads \subseteq 1..MaxReq
    /\ MaxReq \in Nat /\ MaxVer \in Nat \ {0} /\ MaxLosses \in Nat
    /\ Disturbances \subseteq DisturbanceKinds

VARIABLES
    pool,      \* iocb_pool.free_obj_queue
    iocb,      \* the fields of each PfClientIocb
    events,    \* event_queue of vol_proc
    waiting,   \* reopen_waiting: the next to pop first
    state,     \* PfClientVolume::state
    metaVer,   \* PfClientVolume::meta_ver
    asleep,    \* vol_proc waits for the five seconds before a reopen
    marking,   \* iocbs whose timeout is posted and not yet marked
    link,      \* the connection: up, reply buffers posted on it, and the READ
               \* whose payload is being received
    net,       \* requests that the store has not answered
    rbds,      \* reply buffers in reply_pool
    cut,       \* what the closes in the middle of a payload left behind
    stuck,     \* reply buffers posted to a closed connection (history)
    store,     \* meta_ver at the conductor and at the store
    reqs,      \* requests submitted (bound)
    losses,    \* connections lost (bound)
    answers,   \* request -> calls of its ulp_handler (history)
    fault      \* how the process died, or "none"

vars == <<pool, iocb, events, waiting, state, metaVer, asleep, marking, link, net,
          rbds, cut, stuck, store, reqs, losses, answers, fault>>

Req == 1..MaxReq

\* An event is an IO_REQ or IO_TIMEOUT with its io, an IO_COMPLETE with its io,
\* whether the status was MSG_STATUS_REOPEN, and the meta_ver of the reply, or
\* a REOPEN, fresh if it was posted after open_time.  Of an iocb, sent stands
\* for sent_time ("zero", "fresh" or "old", over io_timeout ago), conn for the
\* connection ("none", "live" or "dead") and marked for is_timeout.
\* A close while the payload of a READ is received puts the data_bd of its
\* iocb into reply_pool, as if it were a reply buffer, and clears its
\* client_iocb; the reply buffer is forgotten.  cut counts the ones forgotten
\* (lost, history) and the data buffers in their place: in reply_pool, posted
\* on the connection or stuck in a closed one.  jammed: such a buffer is the
\* one being filled.  orphans are the iocbs of these data buffers.
NoCut == [orphans |-> {}, lost |-> 0, pooled |-> 0, posted |-> 0, stuck |-> 0, jammed |-> FALSE]
ClosedLink == [up |-> FALSE, posted |-> 0, payload |-> {}]
NewIocb == [req |-> 0, op |-> "WRITE", sent |-> "zero",
            conn |-> "none", marked |-> FALSE]

\* After do_open(false): iocb_pool and reply_pool are full.
Init ==
    /\ pool = CHOOSE f \in Bijection(1..Cardinality(Iocb), Iocb) : TRUE
    /\ iocb = [i \in Iocb |-> NewIocb]
    /\ events = <<>> /\ waiting = <<>>
    /\ state = "OPENED" /\ metaVer = 1
    /\ asleep = FALSE /\ marking = {}
    /\ link = ClosedLink
    /\ net = {}
    /\ rbds = Cardinality(Iocb) /\ cut = NoCut /\ stuck = 0
    /\ store = [conductor |-> 1, node |-> 1]
    /\ reqs = 0 /\ losses = 0
    /\ answers = [n \in 0..MaxReq |-> 0]
    /\ fault = "none"

-----------------------------------------------------------------------------
IoReq(i) == [type |-> "IO_REQ", io |-> i]
IoTimeout(i) == [type |-> "IO_TIMEOUT", io |-> i]
Reopen == [type |-> "REOPEN", fresh |-> TRUE]

Alive == fault = "none"

\* vol_proc takes the next event, of the given type.
Handles(type) == Alive /\ ~asleep /\ events # <<>> /\ Head(events).type = type
Post(es) == events' = Tail(events) \o es

\* The user's handler is called.
Answer(i) == answers' = [answers EXCEPT ![iocb[i].req] = @ + 1]
Set(i, r) == iocb' = [iocb EXCEPT ![i] = r]

\* ObjectMemoryPool::free.  The fields that the next submission fills in are
\* cleared here; the others keep their values.
FreeIocb(i, r) ==
    /\ pool' = Append(pool, i)
    /\ Set(i, [r EXCEPT !.req = 0, !.op = "WRITE"])

\* PfConnection::close with flush_wr: the posted buffers return to the pool,
\* the iocbs keep pointers to a dead connection, and its requests are never
\* answered.  The buffer of a payload is treated like a reply buffer.
Flushed(c) ==
    LET n == Cardinality(link.payload)
    IN  [orphans |-> c.orphans \cup {d.io : d \in link.payload}, lost |-> c.lost + n,
         pooled |-> c.pooled + c.posted + n, posted |-> 0, stuck |-> c.stuck, jammed |-> FALSE]
Dead(f) == [i \in Iocb |-> [f[i] EXCEPT !.conn = IF @ = "live" THEN "dead" ELSE @]]

\* Mutants: close() does nothing to the socket; flush_wr is not called.
CloseLinkSkipped ==
    /\ net' = {[r EXCEPT !.stale = TRUE] : r \in net}
    /\ UNCHANGED <<link, rbds, cut>>
CloseLinkUnflushed ==
    /\ link' = ClosedLink
    /\ net' = {}
    /\ UNCHANGED <<rbds, cut>>

CloseLink ==
    /\ link' = ClosedLink
    /\ net' = {}
    /\ rbds' = rbds + link.posted
    /\ cut' = Flushed(cut)

\* The requests of some iocbs no longer have the command_seq of their iocb.
Overtaken(is) == {[r EXCEPT !.stale = @ \/ r.io \in is] : r \in net}

-----------------------------------------------------------------------------
\* User threads: pf_io_submit and pf_iov_submit.  sent_time and is_timeout
\* keep what the last use of the iocb left there.
Submit ==
    /\ Alive /\ pool # <<>> /\ reqs < MaxReq
    /\ reqs' = reqs + 1
    /\ LET i == Head(pool)
       IN  /\ Set(i, [iocb[i] EXCEPT !.req = reqs + 1,
                                     !.op = IF reqs + 1 \in Reads THEN "READ" ELSE "WRITE"])
           /\ events' = Append(events, IoReq(i))
    /\ pool' = Tail(pool)
    /\ UNCHANGED <<waiting, state, metaVer, asleep, marking, link, net, rbds, cut,
                   stuck, store, losses, answers, fault>>

\* EVT_IO_REQ, with a connection and a buffer for the reply: the request is
\* sent.  post_recv and post_send find room, since the queues of a connection
\* are as deep as reply_pool and iocb_pool are large.
SendIo ==
    /\ Handles("IO_REQ") /\ state = "OPENED"
    /\ LET i == Head(events).io
       IN  /\ Set(i, [iocb[i] EXCEPT !.marked = FALSE, !.conn = "live", !.sent = "fresh"])
           /\ net' = net \cup {[io |-> i, op |-> iocb[i].op, ver |-> metaVer, stale |-> FALSE]}
    /\ \/ /\ rbds > 0 /\ rbds' = rbds - 1
          /\ link' = [link EXCEPT !.up = TRUE, !.posted = @ + 1]
          /\ UNCHANGED cut
       \/ /\ cut.pooled > 0 /\ cut' = [cut EXCEPT !.pooled = @ - 1, !.posted = @ + 1]
          /\ link' = [link EXCEPT !.up = TRUE]
          /\ UNCHANGED rbds
    /\ Post(<<>>)
    /\ UNCHANGED <<pool, waiting, state, metaVer, asleep, marking, stuck, store, reqs,
                   losses, answers, fault>>

\* The same, when the connection is closed before the buffers are posted:
\* they stay in the queues of a connection that was already flushed.
SendIoClosed ==
    /\ "close_race" \in Disturbances /\ losses < MaxLosses
    /\ Handles("IO_REQ") /\ state = "OPENED"
    /\ LET i == Head(events).io
       IN  iocb' = Dead([iocb EXCEPT ![i].marked = FALSE, ![i].conn = "live", ![i].sent = "fresh"])
    /\ link' = ClosedLink /\ net' = {}
    /\ \/ /\ rbds > 0 /\ rbds' = rbds + link.posted - 1
          /\ stuck' = stuck + 1 /\ cut' = Flushed(cut)
       \/ /\ cut.pooled > 0 /\ rbds' = rbds + link.posted
          /\ cut' = [Flushed(cut) EXCEPT !.pooled = @ - 1, !.stuck = @ + 1]
          /\ UNCHANGED stuck
    /\ losses' = losses + 1
    /\ Post(<<>>)
    /\ UNCHANGED <<pool, waiting, state, metaVer, asleep, marking, store, reqs, answers, fault>>

\* Mutant: the request is queued again, as the log message says.
NoReplyBufferRequeues ==
    /\ Handles("IO_REQ") /\ state = "OPENED" /\ rbds = 0 /\ cut.pooled = 0
    /\ LET i == Head(events).io IN Answer(i) /\ Post(<<IoReq(i)>>)
    /\ link' = [link EXCEPT !.up = TRUE]
    /\ UNCHANGED <<pool, iocb, waiting, state, metaVer, asleep, marking, net, rbds, cut,
                   stuck, store, reqs, losses, fault>>

\* EVT_IO_REQ, with a connection but nothing in reply_pool: -EAGAIN.
NoReplyBuffer ==
    /\ Handles("IO_REQ") /\ state = "OPENED" /\ rbds = 0 /\ cut.pooled = 0
    /\ LET i == Head(events).io IN Answer(i) /\ FreeIocb(i, iocb[i])
    /\ link' = [link EXCEPT !.up = TRUE]
    /\ Post(<<>>)
    /\ UNCHANGED <<waiting, state, metaVer, asleep, marking, net, rbds, cut, stuck, store, reqs,
                   losses, fault>>

\* EVT_IO_REQ, without a connection: the volume is not open, or the store
\* cannot be reached.  An overdue request fails with -EIO, another one waits.
\* The first one to find this out makes vol_proc sleep: the future returned
\* by std::async is destroyed at once, which waits for its task.
NoConnection ==
    /\ Handles("IO_REQ") /\ (state = "OPENED" => ~link.up)
    /\ state' = IF state = "OPENED" THEN "WAIT_REOPEN" ELSE state
    /\ asleep' = (state = "OPENED")
    /\ Post(<<>>)
    /\ UNCHANGED <<metaVer, marking, link, net, rbds, cut, stuck, store, reqs, losses, fault>>

FailOverdue ==
    /\ NoConnection
    /\ LET i == Head(events).io IN Answer(i) /\ FreeIocb(i, iocb[i])
    /\ UNCHANGED waiting

WaitReopen ==
    /\ NoConnection
    /\ waiting' = <<Head(events).io>> \o waiting
    /\ UNCHANGED <<answers, pool, iocb>>

\* The end of that sleep.
Wake ==
    /\ Alive /\ asleep
    /\ asleep' = FALSE
    /\ events' = Append(events, Reopen)
    /\ UNCHANGED <<pool, iocb, waiting, state, metaVer, marking, link, net, rbds, cut,
                   stuck, store, reqs, losses, answers, fault>>

\* EVT_IO_COMPLETE: client_do_complete.  io->conn is used without a test; a
\* step that ends the process changes nothing else.
IoComplete ==
    /\ Handles("IO_COMPLETE")
    /\ LET e == Head(events)
           i == e.io
           behind == IF metaVer < e.ver THEN <<Reopen>> ELSE <<>>
       IN  \/ /\ iocb[i].conn = "none"
              /\ fault' = "null_conn"
              /\ UNCHANGED <<pool, iocb, events, rbds, answers>>
           \/ /\ iocb[i].conn # "none" /\ e.reopen
              /\ Set(i, [iocb[i] EXCEPT !.conn = "none"])
              /\ Post(behind \o <<IoReq(i)>>)
              /\ rbds' = rbds + 1
              /\ UNCHANGED <<pool, answers, fault>>
           \/ /\ iocb[i].conn # "none" /\ ~e.reopen
              /\ FreeIocb(i, [iocb[i] EXCEPT !.conn = "none", !.sent = "zero"])
              /\ rbds' = rbds + 1
              /\ Answer(i)
              /\ Post(<<>>)
              /\ UNCHANGED fault
    /\ UNCHANGED <<waiting, state, metaVer, asleep, marking, link, net, cut, stuck, store,
                   reqs, losses>>

\* Mutant: io->conn keeps the closed connection.
TimedOutKeepsConn(r) == [r EXCEPT !.sent = "zero", !.conn = "dead"]

\* What EVT_IO_TIMEOUT does to an overdue iocb before resend_io.
TimedOut(r) == [r EXCEPT !.sent = "zero", !.conn = "none"]

\* EVT_IO_TIMEOUT: dropped while the volume is not open, ignored when the I/O
\* is not overdue any more; otherwise the connection is closed and the I/O
\* queued again under a new command_seq (resend_io).
DropTimeout ==
    /\ Handles("IO_TIMEOUT") /\ state # "OPENED"
    /\ Post(<<>>)
    /\ UNCHANGED <<pool, iocb, waiting, state, metaVer, asleep, marking, link, net, rbds,
                   cut, stuck, store, reqs, losses, answers, fault>>

ResendOverdue ==
    /\ Handles("IO_TIMEOUT") /\ state = "OPENED"
    /\ LET i == Head(events).io
       IN  CASE iocb[i].sent # "old" ->
                    /\ Post(<<>>)
                    /\ UNCHANGED <<iocb, link, net, rbds, cut, fault>>
             [] iocb[i].sent = "old" /\ iocb[i].conn = "none" ->
                    /\ fault' = "null_conn"
                    /\ UNCHANGED <<iocb, events, link, net, rbds, cut>>
             [] iocb[i].sent = "old" /\ iocb[i].conn = "dead" ->
                    /\ Set(i, TimedOut(iocb[i]))
                    /\ net' = Overtaken({i})
                    /\ Post(<<IoReq(i)>>)
                    /\ UNCHANGED <<link, rbds, cut, fault>>
             [] OTHER ->
                    /\ CloseLink
                    /\ iocb' = Dead([iocb EXCEPT ![i] = TimedOut(@)])
                    /\ Post(<<IoReq(i)>>)
                    /\ UNCHANGED fault
    /\ UNCHANGED <<pool, waiting, state, metaVer, asleep, marking, stuck, store, reqs,
                   losses, answers>>

\* EVT_REOPEN_VOLUME: reopen_volume, unless the volume was opened after the
\* event was posted.  The waiting I/Os are queued again, the last one first.
ReopenVolume ==
    /\ Handles("REOPEN") /\ Head(events).fresh
    /\ \/ LET passed(e) == IF e.type = "REOPEN" THEN [e EXCEPT !.fresh = FALSE] ELSE e
          IN  /\ events' = [k \in 1..Len(Tail(events)) |-> passed(Tail(events)[k])]
                            \o [k \in 1..Len(waiting) |-> IoReq(waiting[k])]
              /\ state' = "OPENED" /\ metaVer' = store.conductor
              /\ waiting' = <<>>
              /\ net' = Overtaken(Range(waiting))
       \/ /\ "reopen_fails" \in Disturbances
          /\ state' = "REOPEN_FAIL"
          /\ Post(<<>>)
          /\ UNCHANGED <<metaVer, waiting, net>>
    /\ UNCHANGED <<pool, iocb, asleep, marking, link, rbds, cut, stuck, store, reqs, losses,
                   answers, fault>>

SkipReopen ==
    /\ Handles("REOPEN") /\ ~Head(events).fresh
    /\ Post(<<>>)
    /\ UNCHANGED <<pool, iocb, waiting, state, metaVer, asleep, marking, link, net, rbds,
                   cut, stuck, store, reqs, losses, answers, fault>>

-----------------------------------------------------------------------------
\* Mutant: only the I/Os of an open connection are looked at.
PostTimeoutIfLive(i) ==
    /\ Alive /\ marking = {}
    /\ iocb[i].sent = "old" /\ ~iocb[i].marked /\ iocb[i].conn = "live"
    /\ events' = Append(events, IoTimeout(i))
    /\ marking' = {i}
    /\ UNCHANGED <<pool, iocb, waiting, state, metaVer, asleep, link, net, rbds, cut, stuck, store,
                   reqs, losses, answers, fault>>

\* The timeout thread: timeout_check_proc reads every iocb, in use or not, and
\* sets is_timeout after it has posted the event.
PostTimeout(i) ==
    /\ Alive /\ marking = {}
    /\ iocb[i].sent = "old" /\ ~iocb[i].marked
    /\ events' = Append(events, IoTimeout(i))
    /\ marking' = {i}
    /\ UNCHANGED <<pool, iocb, waiting, state, metaVer, asleep, link, net, rbds, cut, stuck, store,
                   reqs, losses, answers, fault>>

MarkTimeout(i) ==
    /\ Alive /\ i \in marking
    /\ marking' = {}
    /\ Set(i, [iocb[i] EXCEPT !.marked = TRUE])
    /\ UNCHANGED <<pool, events, waiting, state, metaVer, asleep, link, net, rbds, cut,
                   stuck, store, reqs, losses, answers, fault>>

-----------------------------------------------------------------------------
\* The poller thread: client_on_tcp_network_done.  A reply whose command_seq
\* is not the iocb's is fatal; after the reply to a READ the connection
\* receives the payload, whatever the status.  The data of a WRITE has been
\* sent before its reply.
Reply(r) ==
    LET refused == r.ver # store.node
        done == [type |-> "IO_COMPLETE", io |-> r.io, reopen |-> refused, ver |-> store.node]
    IN  /\ Alive /\ r \in net /\ link.payload = {} /\ link.posted > 0 /\ ~cut.jammed
        /\ r.op = "READ" /\ refused => "read_refused" \in Disturbances
        /\ r.op = "WRITE" => r.io \notin cut.orphans
        /\ net' = net \ {r}
        /\ IF r.stale
           THEN fault' = "stale_reply" /\ UNCHANGED <<events, link>>
           ELSE /\ link' = [link EXCEPT !.posted = @ - 1,
                                        !.payload = IF r.op = "READ" THEN {done} ELSE {}]
                /\ events' = IF r.op = "READ" THEN events ELSE Append(events, done)
                /\ UNCHANGED fault
        /\ UNCHANGED <<pool, iocb, waiting, state, metaVer, asleep, marking, rbds, cut, stuck,
                       store, reqs, losses, answers>>

\* The payload of a READ has arrived; a store sends one only on success.
Payload ==
    /\ Alive
    /\ \E done \in link.payload :
          ~done.reopen /\ done.io \notin cut.orphans /\ events' = Append(events, done)
    /\ link' = [link EXCEPT !.payload = {}]
    /\ UNCHANGED <<pool, iocb, waiting, state, metaVer, asleep, marking, net, rbds, cut,
                   stuck, store, reqs, losses, answers, fault>>

\* A data buffer at the head of recv_q takes the replies that follow as its
\* contents, until the connection is closed.
Swallow(r) ==
    /\ Alive /\ r \in net /\ link.payload = {} /\ cut.posted > 0
    /\ r.op = "WRITE" => r.io \notin cut.orphans
    /\ net' = net \ {r}
    /\ cut' = [cut EXCEPT !.jammed = TRUE]
    /\ UNCHANGED <<pool, iocb, events, waiting, state, metaVer, asleep, marking, link, rbds,
                   stuck, store, reqs, losses, answers, fault>>

\* The end of a transfer through the data_bd of an orphan, be it the data of
\* a WRITE, the payload of a READ or the replies that it swallowed: its
\* client_iocb, which is NULL, is used without a test.
OrphanDone ==
    /\ Alive
    /\ \/ \E r \in net : r.op = "WRITE" /\ r.io \in cut.orphans
       \/ \E done \in link.payload : ~done.reopen /\ done.io \in cut.orphans
       \/ cut.jammed
    /\ fault' = "null_client_iocb"
    /\ UNCHANGED <<pool, iocb, events, waiting, state, metaVer, asleep, marking, link, net,
                   rbds, cut, stuck, store, reqs, losses, answers>>

\* The peer closes, or the connection breaks.
LoseConnection ==
    /\ Alive /\ link.up /\ losses < MaxLosses
    /\ losses' = losses + 1
    /\ CloseLink
    /\ iocb' = Dead(iocb)
    /\ UNCHANGED <<pool, events, waiting, state, metaVer, asleep, marking, stuck, store,
                   reqs, answers, fault>>

-----------------------------------------------------------------------------
\* Outside the client: time, and the volume's meta_ver, which the conductor
\* changes first and then gives to the store (prepare_volume).
Age(i) ==
    /\ Alive
    /\ iocb[i].sent = "fresh"
    /\ Set(i, [iocb[i] EXCEPT !.sent = "old"])
    /\ UNCHANGED <<pool, events, waiting, state, metaVer, asleep, marking, link, net, rbds,
                   cut, stuck, store, reqs, losses, answers, fault>>

ChangeVolume ==
    /\ Alive
    /\ \/ store.conductor < MaxVer /\ store' = [store EXCEPT !.conductor = @ + 1]
       \/ store.node # store.conductor /\ store' = [store EXCEPT !.node = store.conductor]
    /\ UNCHANGED <<pool, iocb, events, waiting, state, metaVer, asleep, marking, link, net,
                   rbds, cut, stuck, reqs, losses, answers, fault>>

VolProc ==
    \/ SendIo \/ SendIoClosed \/ NoReplyBuffer \/ FailOverdue \/ WaitReopen \/ Wake \/ IoComplete
    \/ DropTimeout \/ ResendOverdue \/ ReopenVolume \/ SkipReopen
TimeoutThread == \E i \in Iocb : PostTimeout(i) \/ MarkTimeout(i)
Answered(i) == \E r \in net : r.io = i /\ Reply(r)

Next ==
    \/ Submit
    \/ VolProc \/ TimeoutThread
    \/ \E i \in Iocb : Answered(i) \/ Age(i)
    \/ \E r \in net : Swallow(r)
    \/ Payload \/ OrphanDone \/ LoseConnection \/ ChangeVolume

Spec == Init /\ [][Next]_vars

\* vol_proc, the poller, the timeout thread and the clock keep running, and
\* the conductor completes what it began.  A store that is asked again and
\* again answers in time at last, and a request that waits again and again
\* for a connection is overdue at last.
FairSpec ==
    /\ Spec
    /\ WF_vars(VolProc) /\ WF_vars(TimeoutThread) /\ WF_vars(Payload)
    /\ WF_vars(\E i \in Iocb : Age(i))
    /\ WF_vars(store.node # store.conductor /\ ChangeVolume)
    /\ SF_vars(\E i \in Iocb : Answered(i)) /\ SF_vars(FailOverdue)

-----------------------------------------------------------------------------
Occurrences(i, type) == Cardinality({k \in DOMAIN events : events[k].type = type /\ events[k].io = i})

\* An iocb is in exactly one place: in iocb_pool, in an EVT_IO_REQ, in
\* reopen_waiting, or in flight with a connection.  So none is freed twice or
\* forgotten, whatever the order of replies, timeouts, reopens and resends.
IocbInOnePlace ==
    \A i \in Iocb :
        1 = Cardinality({k \in DOMAIN pool : pool[k] = i})
            + Occurrences(i, "IO_REQ")
            + Cardinality({k \in DOMAIN waiting : waiting[k] = i})
            + (IF iocb[i].conn = "none" THEN 0 ELSE 1)

\* The ulp_handler of a request is called at most once, and never for an
\* iocb that is free, although a request may be sent many times and its iocb
\* is reused with its old sent_time and is_timeout.
AnsweredAtMostOnce == answers[0] = 0 /\ \A n \in Req : answers[n] <= 1

\* A reply to a request that has timed out is never received ("this should
\* never happen, since whenever an IO timeout, the connection will be closed",
\* client_on_tcp_network_done), so that the S5LOG_FATAL is not reached.
TimedOutReplyNeverSeen == fault # "stale_reply"

\* Reply buffers are conserved through losses, timeouts and resends, but for
\* the ones posted to a connection that had just been closed and the ones
\* whose READ was closed in the middle of its payload; and for each of the
\* latter exactly one data buffer is taken for a reply buffer.
ReplyBuffersKept ==
    /\ Cardinality(Iocb) =
         rbds + link.posted + Cardinality(link.payload) + stuck
         + Cardinality({k \in DOMAIN events : events[k].type = "IO_COMPLETE"}) + cut.lost
    /\ cut.lost = cut.pooled + cut.posted + cut.stuck

\* An I/O in flight whose timeout was already noticed, but whose event has
\* been dropped while the volume was not open, or ignored before the mark was
\* made: no timeout will be noticed again.
Abandoned(i) ==
    /\ iocb[i].conn # "none" /\ iocb[i].marked
    /\ IoTimeout(i) \notin Range(events)

\* Every request is answered, by a reply, by -EIO or by -EAGAIN, unless its
\* own iocb is abandoned, the volume stays in VOLUME_REOPEN_FAIL, a data buffer
\* is in the place of a reply buffer, or the process stopped: again and again
\* there is no request without its answer.
EveryRequestAnswered ==
    []<>(\A n \in 1..reqs :
            \/ answers[n] > 0
            \/ \E i \in Iocb : iocb[i].req = n /\ Abandoned(i)
            \/ state = "REOPEN_FAIL" \/ cut.lost > 0 \/ ~Alive)
=============================================================================
