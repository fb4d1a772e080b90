------------------------- MODULE ClientVolumeProofs -------------------------
(***************************************************************************)
(* The theorems about ClientVolume: its invariant holds in every state,    *)
(* and so does what follows from it.                                       *)
(***************************************************************************)
EXTENDS ClientVolumeInvariant, FiniteSetTheorems

\* Zenon proves the leaves that do not name another prover.
USE ZenonT(30)

\* The facts about cardinalities that the steps use.
LEMMA CardinalityFactsHold == CardinalityFacts
<1> SUFFICES ASSUME NEW S, IsFiniteSet(S)
             PROVE  /\ Cardinality(S) \in Nat
                    /\ \A x : x \notin S => Cardinality(S \union {x}) = Cardinality(S) + 1
                    /\ \A x \in S : Cardinality(S \ {x}) = Cardinality(S) - 1
                    /\ \A T \in SUBSET S : IsFiniteSet(T)
  BY FS_EmptySet DEF CardinalityFacts
<1>1. Cardinality(S) \in Nat
  BY FS_CardinalityType
<1>2. \A x : x \notin S => Cardinality(S \union {x}) = Cardinality(S) + 1
  BY FS_AddElement
<1>3. \A x \in S : Cardinality(S \ {x}) = Cardinality(S) - 1
  BY FS_RemoveElement
<1>4. \A T \in SUBSET S : IsFiniteSet(T)
  BY FS_Subset
<1> QED
  BY <1>1, <1>2, <1>3, <1>4

\* The initial states.
LEMMA InitInv ==
    ASSUME Init
    PROVE  Inv
<1>1. PICK n \in Nat : n = Cardinality(Iocb) /\ ExistsBijection(1..n, Iocb)
  BY FS_CardinalityType, ClientVolumeAssumption
<1>2. pool \in Bijection(1..n, Iocb)
  <2>1. \E f : f \in Bijection(1..n, Iocb)
    BY <1>1 DEF ExistsBijection
  <2> QED
    BY <1>1, <2>1 DEF Init
<1>3. pool \in Seq(Iocb) /\ Once(pool) /\ \A i \in Iocb : In(pool, i)
  <2>1. pool \in [1..n -> Iocb] /\ DOMAIN pool = 1..n
    BY <1>2 DEF Bijection, Injection
  <2>2. Once(pool)
    BY <1>2, <2>1 DEF Bijection, Injection, IsInjective, Once
  <2>3. \A i \in Iocb : In(pool, i)
    BY <1>2, <2>1 DEF Bijection, Surjection, In
  <2> QED
    BY <1>1, <2>1, <2>2, <2>3, FunctionSeq
<1>4. NewIocb \in IocbRecord /\ NewIocb.conn = "none"
  <2>1. 0 \in 0..MaxReq
    BY ClientVolumeAssumption, SMTT(30)
  <2> QED
    BY <2>1 DEF NewIocb, IocbRecord
<1>5. /\ iocb = [i \in Iocb |-> NewIocb] /\ events = <<>> /\ waiting = <<>> /\ metaVer = 1
      /\ link = ClosedLink /\ net = {} /\ rbds = n /\ cut = NoCut /\ stuck = 0
      /\ store = [conductor |-> 1, node |-> 1] /\ reqs = 0
      /\ answers = [m \in 0..MaxReq |-> 0] /\ fault = "none"
  BY <1>1 DEF Init
<1>6. iocb \in [Iocb -> IocbRecord] /\ \A i \in Iocb : ~Flying(i)
  BY <1>4, <1>5 DEF Flying
<1>7. link \in Link /\ link.posted = 0 /\ link.payload = {}
  <2>1. ClosedLink \in Link /\ ClosedLink.posted = 0 /\ ClosedLink.payload = {}
    BY SMTT(30) DEF ClosedLink, Link
  <2> QED
    BY <1>5, <2>1
<1>15. /\ cut \in Cut /\ cut.lost = 0 /\ cut.pooled = 0 /\ cut.posted = 0 /\ cut.stuck = 0
  <2>1. /\ NoCut \in Cut /\ NoCut.lost = 0 /\ NoCut.pooled = 0 /\ NoCut.posted = 0
        /\ NoCut.stuck = 0
    BY SMTT(30) DEF NoCut, Cut
  <2> QED
    BY <1>5, <2>1
<1>8. \A i : ~Queued(events, i) /\ ~Completing(events, i) /\ ~In(waiting, i)
  BY <1>5, SMTT(30) DEF Queued, Completing, In
<1>9. TypeInv
  BY <1>3, <1>5, <1>6, <1>7, <1>15, ClientVolumeAssumption, SMTT(30) DEF TypeInv
<1>10. QueueInv
  BY <1>3, <1>5, SMTT(30) DEF QueueInv, Once, EventsOK, QueuedOnce, CompletingOnce, CompletedFirst
<1>11. PlaceInv
  BY <1>3, <1>6, <1>8 DEF PlaceInv
<1>12. FlightInv
  BY <1>5, <1>7, <1>8 DEF FlightInv
<1>13. RequestInv
  BY <1>3, <1>5, ClientVolumeAssumption, SMTT(30) DEF RequestInv
<1>14. BufferInv
  <2>1. {i \in Iocb : Completing(events, i)} = {}
    BY <1>8
  <2>2. Cardinality({i \in Iocb : Completing(events, i)}) = 0
    BY <2>1, FS_EmptySet
  <2> QED
    BY <1>1, <1>5, <1>7, <1>15, <2>2, SMTT(30) DEF BufferInv
<1> QED
  BY <1>9, <1>10, <1>11, <1>12, <1>13, <1>14 DEF Inv

\* Every reachable state satisfies the inductive invariant.
THEOREM InvHolds == Spec => []Inv
<1>1. Init => Inv
  BY InitInv
<1>2. Inv /\ [Next]_vars => Inv'
  <2> SUFFICES ASSUME Inv, [Next]_vars
               PROVE  Inv'
    OBVIOUS
  <2> USE CardinalityFactsHold
  <2>1. CASE Submit
    BY <2>1, SubmitInv
  <2>2. CASE VolProc
    BY <2>2, SendIoInv, SendIoClosedInv, NoReplyBufferInv, FailOverdueInv, WaitReopenInv, WakeInv,
       IoCompleteInv, DropTimeoutInv, ResendOverdueInv, ReopenVolumeInv, SkipReopenInv DEF VolProc
  <2>3. CASE TimeoutThread
    BY <2>3, PostTimeoutInv, MarkTimeoutInv DEF TimeoutThread
  <2>4. CASE \E i \in Iocb : Answered(i) \/ Age(i)
    BY <2>4, ReplyInv, AgeInv DEF Answered
  <2>5. CASE (\E r \in net : Swallow(r)) \/ Payload \/ OrphanDone \/ LoseConnection \/ ChangeVolume
    BY <2>5, SwallowInv, PayloadInv, OrphanDoneInv, LoseConnectionInv, ChangeVolumeInv
  <2>6. CASE UNCHANGED vars
    <3>1. UNCHANGED <<pool, iocb, events, waiting, metaVer, link, net, rbds, cut, stuck, store, reqs,
                      answers, fault>>
      BY <2>6 DEF vars
    <3> QED
      BY <3>1, NothingMoves DEF Inv, TypeInv, QueueInv, FlightInv
  <2> QED
    BY <2>1, <2>2, <2>3, <2>4, <2>5, <2>6 DEF Next
<1> QED
  BY <1>1, <1>2, PTL DEF Spec

\* A set whose elements are all equal has at most one.
LEMMA AtMostOne ==
    ASSUME NEW S, \A j, k \in S : j = k
    PROVE  IsFiniteSet(S) /\ Cardinality(S) = IF S = {} THEN 0 ELSE 1
<1>1. CASE S = {}
  BY <1>1, FS_EmptySet
<1>2. CASE S # {}
  <2>1. PICK x : S = {x}
    BY <1>2, SMT
  <2> QED
    BY <1>2, <2>1, FS_Singleton
<1> QED
  BY <1>1, <1>2

\* An iocb is in exactly one place (IocbInOnePlace), whatever the order of
\* replies, timeouts, reopens and resends: none is freed twice or forgotten.
THEOREM OnePlace == Spec => []IocbInOnePlace
<1>1. Inv => IocbInOnePlace
  <2> SUFFICES ASSUME Inv, NEW i \in Iocb
               PROVE  1 = Cardinality({k \in DOMAIN pool : pool[k] = i}) + Occurrences(i, "IO_REQ")
                          + Cardinality({k \in DOMAIN waiting : waiting[k] = i})
                          + (IF iocb[i].conn = "none" THEN 0 ELSE 1)
    BY DEF IocbInOnePlace
  <2>1. Cardinality({k \in DOMAIN pool : pool[k] = i}) = IF In(pool, i) THEN 1 ELSE 0
    <3>1. PICK S : S = {k \in DOMAIN pool : pool[k] = i}
      OBVIOUS
    <3>2. (\A j, k \in S : j = k) /\ (S = {} <=> ~In(pool, i))
      BY <3>1 DEF Inv, QueueInv, Once, In
    <3> QED
      BY <3>1, <3>2, AtMostOne
  <2>2. Cardinality({k \in DOMAIN waiting : waiting[k] = i}) = IF In(waiting, i) THEN 1 ELSE 0
    <3>1. PICK S : S = {k \in DOMAIN waiting : waiting[k] = i}
      OBVIOUS
    <3>2. (\A j, k \in S : j = k) /\ (S = {} <=> ~In(waiting, i))
      BY <3>1 DEF Inv, QueueInv, Once, In
    <3> QED
      BY <3>1, <3>2, AtMostOne
  <2>3. Occurrences(i, "IO_REQ") = IF Queued(events, i) THEN 1 ELSE 0
    <3>1. PICK S : S = {k \in DOMAIN events : events[k].type = "IO_REQ" /\ events[k].io = i}
      OBVIOUS
    <3>2. (\A j, k \in S : j = k) /\ (S = {} <=> ~Queued(events, i))
      BY <3>1 DEF Inv, QueueInv, EventsOK, QueuedOnce, Queued
    <3> QED
      BY <3>1, <3>2, AtMostOne DEF Occurrences
  <2>4. /\ In(pool, i) => ~Queued(events, i) /\ ~In(waiting, i) /\ iocb[i].conn = "none"
        /\ Queued(events, i) => ~In(waiting, i) /\ iocb[i].conn = "none"
        /\ In(waiting, i) => iocb[i].conn = "none"
        /\ In(pool, i) \/ Queued(events, i) \/ In(waiting, i) \/ iocb[i].conn # "none"
    BY DEF Inv, PlaceInv, Flying
  <2> QED
    BY <2>1, <2>2, <2>3, <2>4, SMTT(30)
<1> QED
  BY <1>1, InvHolds, PTL

\* The ulp_handler of a request is called at most once, and never for a free
\* iocb (AnsweredAtMostOnce), although a request may be sent many times.
THEOREM AnsweredOnce == Spec => []AnsweredAtMostOnce
<1>1. Inv => AnsweredAtMostOnce
  BY DEF Inv, RequestInv, AnsweredAtMostOnce, Req
<1> QED
  BY <1>1, InvHolds, PTL

\* No reply is received to a request that has timed out
\* (TimedOutReplyNeverSeen): client_on_tcp_network_done never finds another
\* command_seq than the one of the iocb.
THEOREM NoStaleReply == Spec => []TimedOutReplyNeverSeen
<1>1. Inv => TimedOutReplyNeverSeen
  BY DEF Inv, FlightInv, TimedOutReplyNeverSeen
<1> QED
  BY <1>1, InvHolds, PTL

\* No reply buffer is lost but the ones posted to a connection that had just
\* been closed and the ones of a READ whose connection was closed in the
\* middle of its payload, and each of the latter has exactly one data buffer
\* in its place (ReplyBuffersKept).
THEOREM BuffersKept == Spec => []ReplyBuffersKept
<1>1. Inv => ReplyBuffersKept
  <2> SUFFICES ASSUME Inv
               PROVE  ReplyBuffersKept
    OBVIOUS
  <2>1. PICK K, T, f : /\ K = {k \in DOMAIN events : events[k].type = "IO_COMPLETE"}
                       /\ T = {i \in Iocb : Completing(events, i)}
                       /\ f = [k \in K |-> events[k].io]
    OBVIOUS
  <2>2. \A k \in K : k \in DOMAIN events /\ events[k].type = "IO_COMPLETE" /\ events[k].io \in Iocb
    <3>1. events \in Seq(Event)
      BY DEF Inv, TypeInv
    <3>2. \A k \in DOMAIN events : events[k] \in Event
      BY <3>1, LengthFacts, ElementFacts
    <3> QED
      BY <2>1, <3>2 DEF Event, Complete
  <2>3. f \in [K -> T] /\ DOMAIN f = K /\ \A k \in K : f[k] = events[k].io
    BY <2>1, <2>2 DEF Completing
  <2>4. f \in Injection(K, T)
    BY <2>2, <2>3 DEF Injection, IsInjective, Inv, QueueInv, EventsOK, CompletingOnce
  <2>5. f \in Surjection(K, T)
    BY <2>1, <2>3 DEF Surjection, Completing
  <2>6. IsFiniteSet(T)
    BY <2>1, ClientVolumeAssumption, FS_Subset
  <2>7. Cardinality(K) = Cardinality(T)
    BY <2>4, <2>5, <2>6, FS_Injection
  <2>8. Cardinality(link.payload) = IF link.payload = {} THEN 0 ELSE 1
    BY AtMostOne DEF Inv, FlightInv
  <2> QED
    BY <2>1, <2>7, <2>8 DEF Inv, BufferInv, ReplyBuffersKept
<1> QED
  BY <1>1, InvHolds, PTL

=============================================================================
