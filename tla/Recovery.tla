------------------------------ MODULE Recovery ------------------------------
(***************************************************************************)
(* The recovery of one object of a replica from the primary, while clients *)
(* write.  A replica that was out of service (ERROR) gets the writes again *)
(* from begin_recovery on (RECOVERYING).  For each object the recovery     *)
(* thread puts a placeholder entry before the object's chain, which takes  *)
(* the writes into a buffer, compares the snap_seqs with the primary's,    *)
(* reads the objects it lacks, and at last writes the buffer over them.    *)
(*                                                                         *)
(* Entries hold their data, and do_write is one step on each replica.  The *)
(* window that matters, a write done by one replica and not by the other,  *)
(* is kept: out[b] is the write to block b that is not acknowledged yet.   *)
(* Clients do not overlap writes to a block, snapshots are taken when no   *)
(* write is outstanding, and deleted only while the replica is in ERROR.   *)
(***************************************************************************)
EXTENDS LmtChain, FiniteSets, FiniteSetsExt

CONSTANTS
    Block,         \* blocks of the object, each read by one RecoverySubTask
    Disturbances,  \* which of the events below may happen
    MaxSeq,        \* bound: snap_seq of the volume
    MaxWrites,     \* bound: writes
    MaxOutstanding, \* bound: writes at a time
    MaxOutages,    \* bound: times that the replica leaves service
    MaxDisturbances \* bound: kinds of disturbances in one behaviour

\* slow_write: a recovery read returns the data from before a write that is
\*   still in flight on the primary's device;
\* snapshot: a snapshot is taken while the replica is RECOVERYING;
\* newer_entry: the replica has an entry newer than all of the primary's;
\* two_newer: a recovery trusts an entry of the time since the replica left
\*   service, because two newer entries have been made before it;
\* query_fails: the primary does not answer get_snap_list;
\* disk_fails: the replica's disk has no free object, or a write to it fails.
DisturbanceKinds == {"slow_write", "snapshot", "newer_entry", "two_newer",
                     "query_fails", "disk_fails"}

ASSUME RecoveryAssumption ==
    /\ IsFiniteSet(Block)
    /\ MaxSeq \in Nat /\ MaxWrites \in Nat /\ MaxOutstanding \in Nat
    /\ MaxOutages \in Nat /\ MaxDisturbances \in Nat
    /\ Disturbances \subseteq DisturbanceKinds

VARIABLES
    vol,       \* the volume: [seq, snaps], current snap_seq and snapshots
    prim,      \* the primary's chain
    repl,      \* the replica's chain, without the placeholder
    head,      \* the placeholder: [set, seq, buf, known], in obj_lmt if set,
               \* and the recovery_head_entry of the thread if known
    out,       \* block -> {} or the outstanding write {[val, seq, p, r]},
               \* done or not on the primary and on the replica
    health,    \* status of the replica at the primary's dispatcher
    rec,       \* the recovery thread: [pc, todo, done, failed]
    since,     \* snap_seq of the volume when the replica left service, 0 in
               \* service (history)
    writes,    \* writes so far (bound, and the next value)
    outages,   \* times the replica left service (bound)
    disturbed, \* the disturbances that have happened (history)
    fault      \* how the replica's process died, or "none"

vars == <<vol, prim, repl, head, out, health, rec, since, writes, outages, disturbed, fault>>
replica == <<repl, head, rec>>
bounds == <<writes, outages, since>>

\* A block reads as the number of the write to it, as 0 where there is no
\* entry, or as what the object held before it was allocated: nothing clears
\* a new object, and the two stores have different leftovers.
OldOnPrimary == [b \in Block |-> -1]
OldOnReplica == [b \in Block |-> -2]
Entry(seq, st, data) == [seq |-> seq, st |-> st, data |-> data]
NoHead == [set |-> FALSE, seq |-> 0, buf |-> [b \in Block |-> {}], known |-> TRUE]
Idle == [pc |-> "idle", todo |-> <<>>, done |-> {}, failed |-> FALSE]

Init ==
    /\ vol = [seq |-> 1, snaps |-> {}]
    /\ prim = <<>> /\ repl = <<>>
    /\ head = NoHead
    /\ out = [b \in Block |-> {}]
    /\ health = "OK"
    /\ rec = Idle
    /\ writes = 0 /\ outages = 0 /\ since = 0
    /\ disturbed = {} /\ fault = "none"

Alive == fault = "none"
Disturb(kinds) ==
    /\ kinds \subseteq Disturbances
    /\ Cardinality(disturbed \union kinds) <= MaxDisturbances
    /\ disturbed' = disturbed \union kinds
Quiet == \A b \in Block : out[b] = {}

\* do_read: what block b of the chain holds for snap_seq s.
ReadAt(chain, s, b) ==
    LET i == EntryFor(chain, s) IN IF i = 0 THEN 0 ELSE chain[i].data[b]

\* do_write, with the copy that a write to a new snap_seq makes first; an
\* object that is the first of its chain keeps its leftovers.
Put(chain, w, b, leftovers) ==
    IF chain # <<>> /\ chain[1].seq = w.seq
    THEN [chain EXCEPT ![1].data[b] = w.val]
    ELSE LET old == IF chain = <<>> THEN leftovers ELSE chain[1].data
         IN  <<Entry(w.seq, "NORMAL", [old EXCEPT ![b] = w.val])>> \o chain

-----------------------------------------------------------------------------
(* The volume.                                                             *)

\* dispatch_write: to the replicas that are OK or RECOVERYING.
Write(b) ==
    /\ writes < MaxWrites /\ out[b] = {}
    /\ Cardinality({c \in Block : out[c] # {}}) < MaxOutstanding
    /\ writes' = writes + 1
    /\ out' = [out EXCEPT ![b] = {[val |-> writes', seq |-> vol.seq,
                                   p |-> FALSE, r |-> health = "ERROR"]}]
    /\ UNCHANGED <<vol, prim, replica, health, since, outages, disturbed, fault>>

\* The write is acknowledged when the last replica has done it.
Done(b, w) == out' = [out EXCEPT ![b] = IF w.p /\ w.r THEN {} ELSE {w}]

PrimaryWrites(b) ==
    \E w \in out[b] :
        /\ ~w.p
        /\ prim' = Put(prim, w, b, OldOnPrimary)
        /\ Done(b, [w EXCEPT !.p = TRUE])
        /\ UNCHANGED <<vol, replica, health, bounds, disturbed, fault>>

\* do_write on the replica: the placeholder takes the snap_seq of the first
\* write, and asserts that the others have the same.
ReplicaWrites(b) ==
    \E w \in out[b] :
        /\ ~w.r /\ Alive
        /\ IF head.set
           THEN /\ head' = [head EXCEPT !.seq = w.seq, !.buf[b] = {w.val}]
                /\ fault' = IF head.seq \in {0, w.seq} THEN "none" ELSE "snapshot_in_recovery"
                /\ UNCHANGED repl
           ELSE repl' = Put(repl, w, b, OldOnReplica) /\ UNCHANGED <<head, fault>>
        /\ Done(b, [w EXCEPT !.r = TRUE])
        /\ UNCHANGED <<vol, prim, health, rec, bounds, disturbed>>

TakeSnapshot ==
    /\ vol.seq < MaxSeq /\ Quiet
    /\ vol' = [seq |-> vol.seq + 1, snaps |-> vol.snaps \union {vol.seq}]
    /\ Disturb({x \in {"snapshot"} : health = "RECOVERYING"})
    /\ UNCHANGED <<prim, replica, out, health, bounds, fault>>

\* delete_obj_snapshot on the primary, without the replica.
DeleteSnapshot(s) ==
    /\ s \in vol.snaps /\ health = "ERROR" /\ Quiet
    /\ vol' = [vol EXCEPT !.snaps = @ \ {s}]
    /\ LET next == Min({n \in vol.snaps \union {vol.seq} : n > s})
           i    == EntryFor(prim, s)
       IN  \/ SnapDecision(prim, s, next) = "absent" /\ UNCHANGED prim
           \/ SnapDecision(prim, s, next) = "delete" /\ prim' = RemoveAt(prim, i)
           \/ SnapDecision(prim, s, next) = "move" /\ prim' = [prim EXCEPT ![i].seq = next]
    /\ UNCHANGED <<replica, out, health, bounds, disturbed, fault>>

-----------------------------------------------------------------------------
(* The replica's service.                                                  *)

\* The replica's process stops, and comes back without its unfinished entries
\* (post_load_fix).  Writes that are not acknowledged end where they are: it
\* may have been this replica that was the primary.
Outage ==
    /\ outages < MaxOutages
    /\ outages' = outages + 1
    /\ health' = "ERROR" /\ fault' = "none"
    /\ since' = IF health = "OK" THEN vol.seq ELSE since
    /\ repl' = DropUnfinished(repl)
    /\ head' = NoHead /\ rec' = Idle
    /\ out' = [b \in Block |-> {}]
    /\ UNCHANGED <<vol, prim, writes, disturbed>>

\* handle_begin_recovery at the primary, then recovery_replica at the replica.
BeginRecovery ==
    /\ health = "ERROR" /\ rec.pc = "idle" /\ Alive
    /\ health' = "RECOVERYING"
    /\ rec' = [Idle EXCEPT !.pc = "start"]
    /\ UNCHANGED <<vol, prim, repl, head, out, bounds, disturbed, fault>>

\* handle_end_recovery, with the result of the task.
EndRecovery ==
    /\ health = "RECOVERYING" /\ rec.pc = "idle"
    /\ health' = IF rec.failed THEN "ERROR" ELSE "OK"
    /\ since' = IF rec.failed THEN since ELSE 0
    /\ rec' = Idle
    /\ UNCHANGED <<vol, prim, repl, head, out, writes, outages, disturbed, fault>>

-----------------------------------------------------------------------------
(* recovery_object_series, by the recovery thread; what it does through    *)
(* sync_invoke is a step of the replica's disk thread.                     *)

At(pc) == rec.pc = pc /\ Alive
Goto(pc) == rec' = [rec EXCEPT !.pc = pc]
environment == <<vol, prim, out, health, bounds>>

PlaceHead ==
    /\ At("start")
    /\ IF head.set
       THEN fault' = "already_recovering" /\ UNCHANGED <<head, rec>>
       ELSE head' = [NoHead EXCEPT !.set = TRUE] /\ Goto("query") /\ UNCHANGED fault
    /\ UNCHANGED <<environment, repl, disturbed>>

\* get_snap_list, and its elements.
SeqsOf(chain) == [i \in DOMAIN chain |-> chain[i].seq]
Seqs(chain) == Range(SeqsOf(chain))

\* Mutant: the first two entries of the replica are taken as they are.
ToRecoverTrusting(local) == SelectSeq(SeqsOf(prim), LAMBDA s : s \notin Seqs(local))

\* The primary's entries that the replica reads, newest first: all but those
\* that the replica has behind its first two.
ToRecover(local) ==
    SelectSeq(SeqsOf(prim), LAMBDA s : \A i \in DOMAIN local : local[i].seq = s => i <= 2)

\* get_snap_list of the primary and of the replica.  The primary's disk thread
\* answers after it has made the entries for the writes that came before.  An
\* entry of the replica between two of the primary's is deleted.
CompareSnaps ==
    /\ At("query")
    /\ \A b \in Block : \A w \in out[b] : w.seq \in Seqs(prim)
    /\ LET theirs == Seqs(prim)
           local  == SelectSeq(repl, LAMBDA e : e.seq \in theirs \/ \A s \in theirs : s < e.seq)
       IN  /\ repl' = local
           /\ rec' = [rec EXCEPT !.pc = IF ToRecover(local) = <<>> THEN "finish" ELSE "entry",
                                 !.todo = Reverse(ToRecover(local))]
           /\ Disturb({x \in {"newer_entry"} : \E s \in Seqs(local) : \A t \in theirs : t < s}
                      \union {x \in {"two_newer"} : \E i \in DOMAIN local : i > 2 /\ local[i].seq >= since})
    /\ UNCHANGED <<environment, head, fault>>

\* The placeholder stays in obj_lmt, although its memory is freed.
QueryFails ==
    /\ At("query")
    /\ Disturb({"query_fails"})
    /\ rec' = [Idle EXCEPT !.failed = TRUE]
    /\ UNCHANGED <<environment, repl, head, fault>>

\* Mutant: the new entry goes right behind the placeholder.
BeginEntryInFront ==
    /\ At("entry")
    /\ LET s == Head(rec.todo)
       IN  repl' = IF s \in Seqs(repl) THEN repl ELSE <<Entry(s, "RECOVERYING", OldOnReplica)>> \o repl
    /\ rec' = [rec EXCEPT !.pc = "copy", !.done = {}]
    /\ UNCHANGED <<environment, head, disturbed, fault>>

\* recovery_single_object_entry: find or allocate the entry.  A placeholder
\* that has taken a write of this snap_seq looks like a duplicate.  One that
\* has taken a write of an older snap_seq gets the new entry in front, which
\* is the recovery_head_entry from then on; obj_lmt has the placeholder still.
BeginEntry ==
    /\ At("entry")
    /\ LET s == Head(rec.todo)
       IN  \/ s \in Seqs(repl) /\ UNCHANGED <<repl, head, fault>>
           \/ s \notin Seqs(repl) /\ head.seq = s
              /\ fault' = "duplicate_entry" /\ UNCHANGED <<repl, head>>
           \/ s \notin Seqs(repl) /\ head.seq # s
              /\ repl' = InsertEntry(repl, Entry(s, "RECOVERYING", OldOnReplica))
              /\ head' = [head EXCEPT !.known = @ /\ (head.seq = 0 \/ head.seq > s)]
              /\ UNCHANGED fault
    /\ rec' = [rec EXCEPT !.pc = "copy", !.done = {}]
    /\ UNCHANGED <<environment, disturbed>>

NoSpaceForEntry ==
    /\ At("entry") /\ Head(rec.todo) \notin Seqs(repl)
    /\ Disturb({"disk_fails"})
    /\ rec' = [rec EXCEPT !.pc = "finish", !.failed = TRUE]
    /\ UNCHANGED <<environment, repl, head, fault>>

\* A RECOVERY_READ of one block is answered, and recovery_write writes what it
\* brought, or it is answered with an error.
CopyBlock(b) ==
    /\ At("copy") /\ b \notin rec.done /\ ~rec.failed
    /\ Disturb({x \in {"slow_write"} : \E w \in out[b] : ~w.p})
    /\ LET s == Head(rec.todo)
           i == SelectInSeq(repl, LAMBDA e : e.seq = s)
       IN  repl' = [repl EXCEPT ![i].data[b] = ReadAt(prim, s, b)]
    /\ rec' = [rec EXCEPT !.done = @ \union {b}]
    /\ UNCHANGED <<environment, head, fault>>

ReadFails ==
    /\ At("copy") /\ rec.done # Block /\ ~rec.failed
    /\ rec' = [rec EXCEPT !.failed = TRUE]
    /\ UNCHANGED <<environment, repl, head, disturbed, fault>>

\* The entry becomes NORMAL, even when a block is missing.
EndEntry ==
    /\ At("copy") /\ (rec.failed \/ rec.done = Block)
    /\ LET i == SelectInSeq(repl, LAMBDA e : e.seq = Head(rec.todo))
       IN  repl' = [repl EXCEPT ![i].st = "NORMAL"]
    /\ rec' = [rec EXCEPT !.todo = Tail(@),
                          !.pc = IF rec.failed \/ Len(rec.todo) = 1 THEN "finish" ELSE "entry"]
    /\ UNCHANGED <<environment, head, disturbed, fault>>

-----------------------------------------------------------------------------
(* finish_recovery_object, which is given recovery_head_entry.             *)

\* assert(head->status == EntryStatus::RECOVERYING): the entry that has taken
\* the place of the placeholder is NORMAL by now.
HeadNotRecovering ==
    /\ At("finish") /\ ~head.known
    /\ fault' = "head_replaced"
    /\ UNCHANGED <<environment, replica, disturbed>>

AtFinish == At("finish") /\ head.known
Buffered == {b \in Block : head.buf[b] # {}}
NewEntryNeeded == repl # <<>> => head.seq > repl[1].seq

DropHead ==
    /\ AtFinish /\ (rec.failed \/ Buffered = {})
    /\ head' = NoHead
    /\ rec' = [Idle EXCEPT !.failed = rec.failed]
    /\ UNCHANGED <<environment, repl, disturbed, fault>>

AllocForBuffer ==
    /\ AtFinish /\ ~rec.failed /\ Buffered # {} /\ NewEntryNeeded
    /\ repl' = <<Entry(head.seq, "COPYING", OldOnReplica)>> \o repl
    /\ Goto(IF repl = <<>> THEN "overlay" ELSE "cow")
    /\ UNCHANGED <<environment, head, disturbed, fault>>

\* "BUG: Head snap_seq should not less than first data's".
UseFirstEntry ==
    /\ AtFinish /\ ~rec.failed /\ Buffered # {} /\ ~NewEntryNeeded
    /\ fault' = IF head.seq < repl[1].seq THEN "head_behind" ELSE "none"
    /\ Goto("overlay")
    /\ UNCHANGED <<environment, repl, head, disturbed>>

\* No free object, or the copy or a write of the buffer fails.  The placeholder
\* stays, as after QueryFails.
FinishFails ==
    /\ \/ AtFinish /\ ~rec.failed /\ Buffered # {} /\ NewEntryNeeded
       \/ At("cow") \/ At("overlay")
    /\ Disturb({"disk_fails"})
    /\ rec' = [Idle EXCEPT !.failed = TRUE]
    /\ UNCHANGED <<environment, repl, head, fault>>

CopyOnWrite ==
    /\ At("cow")
    /\ repl' = [repl EXCEPT ![1].data = repl[2].data]
    /\ Goto("overlay")
    /\ UNCHANGED <<environment, head, disturbed, fault>>

\* Mutant: the placeholder is not replaced.
OverlayKeepsHead ==
    /\ At("overlay")
    /\ repl' = [repl EXCEPT ![1].st = "NORMAL",
                            ![1].data = [b \in Block |-> IF b \in Buffered
                                         THEN CHOOSE v \in head.buf[b] : TRUE ELSE @[b]]]
    /\ rec' = Idle
    /\ UNCHANGED <<environment, head, disturbed, fault>>

Overlay ==
    /\ At("overlay")
    /\ repl' = [repl EXCEPT ![1].st = "NORMAL",
                            ![1].data = [b \in Block |-> IF b \in Buffered
                                         THEN CHOOSE v \in head.buf[b] : TRUE ELSE @[b]]]
    /\ head' = NoHead /\ rec' = Idle
    /\ UNCHANGED <<environment, disturbed, fault>>

-----------------------------------------------------------------------------
RecoveryThread ==
    \/ PlaceHead \/ CompareSnaps \/ QueryFails \/ BeginEntry \/ NoSpaceForEntry
    \/ (\E b \in Block : CopyBlock(b)) \/ ReadFails \/ EndEntry
    \/ HeadNotRecovering \/ DropHead \/ AllocForBuffer \/ UseFirstEntry \/ FinishFails \/ CopyOnWrite \/ Overlay

Next ==
    \/ \E b \in Block : Write(b) \/ PrimaryWrites(b) \/ ReplicaWrites(b)
    \/ TakeSnapshot \/ \E s \in vol.snaps : DeleteSnapshot(s)
    \/ Outage \/ BeginRecovery \/ EndRecovery
    \/ RecoveryThread

Spec == Init /\ [][Next]_vars

\* The blocks are treated alike.
BlockSymmetry == Permutations(Block)

-----------------------------------------------------------------------------
\* A replica in service reads like the primary, for the volume and for every
\* snapshot, in the blocks without an outstanding write: recovery brings back
\* what the replica missed and loses no write that came meanwhile.  A block
\* that was never written reads as zeros or as leftovers on either.  Not
\* promised after one of the disturbances.
ReplicaReadsLikePrimary ==
    (health = "OK" /\ disturbed = {}) =>
        \A s \in vol.snaps \union {vol.seq}, b \in Block :
            out[b] = {} => LET p == ReadAt(prim, s, b)
                               r == ReadAt(repl, s, b)
                           IN  r = p \/ (r <= 0 /\ p <= 0)

\* When recovery_replica has returned, whatever the result, the placeholder
\* (whose memory is freed then) is out of obj_lmt and no entry is left
\* unfinished; not so when the query or the last allocation failed.
NothingLeftBehind ==
    (rec.pc = "idle" /\ Alive /\ disturbed \intersect {"query_fails", "disk_fails"} = {}) =>
        ~head.set /\ \A i \in DOMAIN repl : repl[i].st = "NORMAL"

\* The replica's chain has its entries newest first, one for each snap_seq,
\* although recovery inserts entries in the middle of it, and the writes in the
\* placeholder are never older than its first entry; the placeholder itself is
\* the head of the recovery until the end unless a snapshot was taken meanwhile.
ReplicaChainOrdered ==
    /\ \A i \in DOMAIN repl : i > 1 => repl[i - 1].seq > repl[i].seq
    /\ fault # "head_behind"
    /\ fault = "head_replaced" => "snapshot" \in disturbed

\* A missing entry can always be inserted into the replica's chain
\* ("Unexcepted error during insert recovering object" is fatal).
EntryCanBeInserted == fault # "duplicate_entry"
=============================================================================
