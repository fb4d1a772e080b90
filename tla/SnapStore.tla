----------------------------- MODULE SnapStore ------------------------------
(***************************************************************************)
(* The data of one object of a volume through writes, copy-on-write,       *)
(* snapshot creation and deletion, and restarts.  do_write, the end of a   *)
(* copy and delete_obj_snapshot are steps of the ssd thread; device writes *)
(* complete on their own, and the pieces of a copy are read and written by *)
(* threads of cow_thread_pool while the ssd thread goes on.                *)
(*                                                                         *)
(* A write is the number v of its data.  For the volume and for each       *)
(* snapshot the module keeps which values a block may hold: the last value *)
(* acknowledged and those of the writes that were never acknowledged.      *)
(* What FlashMeta shows of the tables (they survive a crash, every object  *)
(* is used once) is taken for granted here, and so is the log record of    *)
(* the end of a copy: FlashMeta has the copies that are logged under       *)
(* another key and dropped at the next restart, this module has not.       *)
(***************************************************************************)
EXTENDS LmtChain, FiniteSets, FiniteSetsExt

CONSTANTS
    ObjCount,      \* objects on the disk
    Block,         \* blocks of the object
    Disturbances,  \* which of the events below may happen
    MaxSeq,        \* bound: snap_seq of the volume
    MaxWrites      \* bound: writes

\* Events after which a block may read back wrong:
\* shared_object: a snapshot is deleted while its entry also serves the
\*   snapshot before it;
\* copying_source: a copy starts from an entry that is still being copied;
\* inflight_source: a copy starts while a write to its source is in flight.
DisturbanceKinds == {"shared_object", "copying_source", "inflight_source"}

ASSUME SnapStoreAssumption ==
    /\ ObjCount \in Nat /\ MaxSeq \in Nat /\ MaxWrites \in Nat
    /\ IsFiniteSet(Block)
    /\ Disturbances \subseteq DisturbanceKinds

VARIABLES
    chain,     \* obj_lmt[key]
    free,      \* objects in free_obj_queue (trim_obj_queue included)
    data,      \* device: object -> block -> value
    ios,       \* device writes in flight: [blk, val, obj]
    waiting,   \* object -> writes in the waiting_io list of its entry: [blk, val]
    cows,      \* copies in progress: [src, dst, left]
    vol,       \* the volume: [seq, snaps], current snap_seq and snapshots
    may,       \* block -> the values it may hold now (history)
    snapMay,   \* snapshot -> block -> the values it may hold (history)
    writes,    \* writes so far (bound, and the next value)
    disturbed  \* one of the disturbances has happened (history)

vars == <<chain, free, data, ios, waiting, cows, vol, may, snapMay, writes, disturbed>>
client == <<vol, may, snapMay, writes>>

Obj == 1..ObjCount
Val == 0..MaxWrites

\* No object yet.  A block that was never written may hold anything: a new
\* object keeps what its last user left there.
Init ==
    /\ chain = <<>>
    /\ free = Obj
    /\ data = [o \in Obj |-> [b \in Block |-> 0]]
    /\ ios = {}
    /\ waiting = [o \in Obj |-> {}]
    /\ cows = {}
    /\ vol = [seq |-> 1, snaps |-> {}]
    /\ may = [b \in Block |-> Val]
    /\ snapMay = [s \in 1..MaxSeq |-> [b \in Block |-> Val]]
    /\ writes = 0
    /\ disturbed = FALSE

\* The step is a disturbance of these kinds.
Disturb(kinds) ==
    /\ kinds \subseteq Disturbances
    /\ disturbed' = (disturbed \/ kinds # {})

\* A client does not overlap its writes to a block.
Outstanding(b) ==
    \E w \in ios \union UNION {waiting[o] : o \in Obj} : w.blk = b

\* A write of a new value to block b arrives.
Arrives(b) ==
    /\ writes < MaxWrites
    /\ ~Outstanding(b)
    /\ writes' = writes + 1
    /\ may' = [may EXCEPT ![b] = @ \union {writes'}]
    /\ UNCHANGED <<vol, snapMay>>

Alloc(o, st) ==
    /\ free # {}
    /\ o = Min(free)
    /\ free' = free \ {o}
    /\ chain' = <<[obj |-> o, seq |-> vol.seq, st |-> st]>> \o chain

-----------------------------------------------------------------------------
(* do_write.                                                               *)

WriteNew(b) ==
    /\ chain = <<>>
    /\ Arrives(b)
    /\ \E o \in free : /\ Alloc(o, "NORMAL")
                       /\ ios' = ios \union {[blk |-> b, val |-> writes', obj |-> o]}
    /\ UNCHANGED <<data, waiting, cows, disturbed>>

\* Mutant: the snap_seq of the entry is not looked at.
WriteNormalAnySeq(b) ==
    /\ chain # <<>> /\ chain[1].st = "NORMAL"
    /\ Arrives(b)
    /\ ios' = ios \union {[blk |-> b, val |-> writes', obj |-> chain[1].obj]}
    /\ UNCHANGED <<chain, free, data, waiting, cows, disturbed>>

WriteNormal(b) ==
    /\ chain # <<>> /\ chain[1].seq = vol.seq /\ chain[1].st = "NORMAL"
    /\ Arrives(b)
    /\ ios' = ios \union {[blk |-> b, val |-> writes', obj |-> chain[1].obj]}
    /\ UNCHANGED <<chain, free, data, waiting, cows, disturbed>>

\* The write joins the waiting_io list of the entry being copied.
WriteWait(b) ==
    /\ chain # <<>> /\ chain[1].seq = vol.seq /\ chain[1].st = "COPYING"
    /\ Arrives(b)
    /\ waiting' = [waiting EXCEPT ![chain[1].obj] = @ \union {[blk |-> b, val |-> writes']}]
    /\ UNCHANGED <<chain, free, data, ios, cows, disturbed>>

\* The entry belongs to a snapshot: begin_cow, whatever the state of that
\* entry and of the writes to it.
WriteCow(b) ==
    /\ chain # <<>> /\ chain[1].seq < vol.seq
    /\ Disturb({x \in {"copying_source"} : chain[1].st # "NORMAL"}
               \union {x \in {"inflight_source"} : \E w \in ios : w.obj = chain[1].obj})
    /\ Arrives(b)
    /\ \E o \in free :
          /\ Alloc(o, "COPYING")
          /\ waiting' = [waiting EXCEPT ![o] = {[blk |-> b, val |-> writes']}]
          /\ cows' = cows \union {[src |-> chain[1].obj, dst |-> o, left |-> Block]}
    /\ UNCHANGED <<data, ios>>

\* The device has written the data and the write is acknowledged.
IoDone(w) ==
    /\ ios' = ios \ {w}
    /\ data' = [data EXCEPT ![w.obj][w.blk] = w.val]
    /\ may' = [may EXCEPT ![w.blk] = {w.val}]
    /\ UNCHANGED <<chain, free, waiting, cows, vol, snapMay, writes, disturbed>>

-----------------------------------------------------------------------------
(* do_cow_entry.                                                           *)

CowPiece(c, b) ==
    /\ data' = [data EXCEPT ![c.dst][b] = data[c.src][b]]
    /\ cows' = (cows \ {c}) \union {[c EXCEPT !.left = @ \ {b}]}
    /\ UNCHANGED <<chain, free, ios, waiting, client, disturbed>>

\* Mutant: the pieces still under way are not waited for.
CopyBegun(c) == c.left # Block

CopyComplete(c) == c.left = {}

\* Mutant: the waiting_io list is not run.
CowDoneNoWake(c) ==
    /\ CopyComplete(c)
    /\ chain' = [chain EXCEPT ![IndexOfObj(chain, c.dst)].st = "NORMAL"]
    /\ cows' = cows \ {c}
    /\ UNCHANGED <<free, data, ios, waiting, client, disturbed>>

\* The copy is complete: the entry becomes NORMAL and the waiting writes are
\* done again, which fails (MSG_STATUS_READONLY) if the entry is no longer
\* the first one.
CowDone(c) ==
    /\ CopyComplete(c)
    /\ chain' = [chain EXCEPT ![IndexOfObj(chain, c.dst)].st = "NORMAL"]
    /\ cows' = cows \ {c}
    /\ ios' = ios \union {[blk |-> w.blk, val |-> w.val, obj |-> c.dst] :
                             w \in {x \in waiting[c.dst] : chain[1].obj = c.dst}}
    /\ waiting' = [waiting EXCEPT ![c.dst] = {}]
    /\ UNCHANGED <<free, data, client, disturbed>>

\* A read or write of the copy fails: the waiting writes are answered with
\* MSG_STATUS_REOPEN and the entry stays COPYING.
CowFail(c) ==
    /\ c.left # {}
    /\ cows' = cows \ {c}
    /\ waiting' = [waiting EXCEPT ![c.dst] = {}]
    /\ UNCHANGED <<chain, free, data, ios, client, disturbed>>

-----------------------------------------------------------------------------
\* set_snap_seq: the snapshot keeps the current snap_seq, later writes carry
\* the next one.  Nothing waits for the writes under way.
CreateSnapshot ==
    /\ vol.seq < MaxSeq
    /\ vol' = [seq |-> vol.seq + 1, snaps |-> vol.snaps \union {vol.seq}]
    /\ snapMay' = [snapMay EXCEPT ![vol.seq] = may]
    /\ UNCHANGED <<chain, free, data, ios, waiting, cows, may, writes, disturbed>>

\* post_load_fix drops the entry of an unfinished copy; its object is in no
\* queue any more.
Crash ==
    /\ chain' = DropUnfinished(chain)
    /\ ios' = {}
    /\ waiting' = [o \in Obj |-> {}]
    /\ cows' = {}
    /\ UNCHANGED <<free, data, client, disturbed>>

PrevSnap(s) == Max({x \in vol.snaps : x < s} \union {0})

\* Mutant: the last snapshot is followed by a snap_seq nobody has.
NextSnapBeyond(s) == Min({x \in vol.snaps : x > s} \union {vol.seq + 1})

NextSnap(s) == Min({x \in vol.snaps : x > s} \union {vol.seq})

\* delete_obj_snapshot, see SnapDecision; trimming is immediate.
DeleteSnapshot(s) ==
    LET i == EntryFor(chain, s)
        decision == SnapDecision(chain, s, NextSnap(s))
    IN  /\ decision # "dies"
        /\ Disturb({x \in {"shared_object"} :
                      decision \in {"delete", "move"} /\ chain[i].seq <= PrevSnap(s)})
        /\ chain' = CASE decision = "delete" -> RemoveAt(chain, i)
                      [] decision = "move"   -> [chain EXCEPT ![i].seq = NextSnap(s)]
                      [] OTHER -> chain
        /\ free' = free \union {chain[j].obj : j \in {x \in {i} : decision = "delete"}}
        /\ vol' = [vol EXCEPT !.snaps = @ \ {s}]
        /\ UNCHANGED <<data, ios, waiting, cows, may, snapMay, writes>>

DeleteSnapshotDies(s) ==
    /\ SnapDecision(chain, s, NextSnap(s)) = "dies"
    /\ Crash

Next ==
    \/ \E b \in Block : WriteNew(b) \/ WriteNormal(b) \/ WriteWait(b) \/ WriteCow(b)
    \/ \E w \in ios : IoDone(w)
    \/ \E c \in cows : \/ \E b \in c.left : CowPiece(c, b)
                       \/ CowDone(c) \/ CowFail(c)
    \/ CreateSnapshot
    \/ \E s \in vol.snaps : DeleteSnapshot(s) \/ DeleteSnapshotDies(s)
    \/ Crash

Spec == Init /\ [][Next]_vars

\* The device answers and the copying threads run.
Fairness ==
    /\ WF_vars(\E w \in ios : IoDone(w))
    /\ WF_vars(\E c \in cows : CowDone(c) \/ \E b \in c.left : CowPiece(c, b))

FairSpec == Spec /\ Fairness

-----------------------------------------------------------------------------
(* Properties.                                                             *)

Write == [blk : Block, val : Val]

TypeOK ==
    /\ \A i \in DOMAIN chain : chain[i] \in [obj : Obj, seq : 1..MaxSeq, st : {"NORMAL", "COPYING"}]
    /\ free \subseteq Obj
    /\ data \in [Obj -> [Block -> Val]]
    /\ ios \subseteq [blk : Block, val : Val, obj : Obj]
    /\ waiting \in [Obj -> SUBSET Write]
    /\ cows \subseteq [src : Obj, dst : Obj, left : SUBSET Block]
    /\ vol.seq \in 1..MaxSeq /\ vol.snaps \subseteq 1..(vol.seq - 1)
    /\ may \in [Block -> SUBSET Val]
    /\ snapMay \in [1..MaxSeq -> [Block -> SUBSET Val]]
    /\ writes \in Val /\ disturbed \in BOOLEAN

\* do_read of block b at snap_seq s: zero without an entry, an error (no
\* value) while the entry is being copied.
Reads(s, b) ==
    LET i == EntryFor(chain, s)
    IN  IF i = 0 THEN {0}
        ELSE {data[e.obj][b] : e \in {x \in {chain[i]} : x.st = "NORMAL"}}

\* Each snapshot keeps reading back what the volume held when it was taken,
\* whatever is written, copied, deleted or lost in a crash afterwards.
SnapshotsKeepData ==
    \A s \in vol.snaps : \A b \in Block : Reads(s, b) \subseteq snapMay[s][b]

SnapshotsReadBack == ~disturbed => SnapshotsKeepData

\* The volume reads back the last acknowledged write, across the copies that
\* writes after a snapshot start.
VolumeKeepsData == \A b \in Block : Reads(vol.seq, b) \subseteq may[b]

VolumeReadsBack == ~disturbed => VolumeKeepsData

\* The source of a copy is not deleted, and its object not given to another
\* user, before the copy ends.
CopySourceKept == \A c \in cows : IndexOfObj(chain, c.src) # 0 /\ c.src \notin free

\* A write waits only on an entry whose copy is under way or has failed; the
\* end of the copy leaves nobody behind.
NobodyLeftWaiting ==
    \A o \in Obj : waiting[o] # {} =>
        IndexOfObj(chain, o) # 0 /\ chain[IndexOfObj(chain, o)].st = "COPYING"

CopyFailed == \E i \in DOMAIN chain :
    chain[i].st = "COPYING" /\ \A c \in cows : c.dst # chain[i].obj

\* Every write is answered, unless a copy has failed: its entry stays COPYING
\* and later writes to it wait for a copy that nobody runs.
WritesAnswered == \A b \in Block : Outstanding(b) ~> (~Outstanding(b) \/ CopyFailed)
=============================================================================
