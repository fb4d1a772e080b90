----------------------------- MODULE FlashMeta ------------------------------
(***************************************************************************)
(* The operations of a PfFlashStore that change its tables, each with the  *)
(* redo-log items it writes: allocation and copy-on-write in do_write, the *)
(* end of a copy, snapshot deletion, replica deletion and trimming, all of *)
(* them steps of the ssd thread; and compaction, crash and restart.        *)
(*                                                                         *)
(* The disk is what DurableLog (implemented by RedoZones) provides: a saved*)
(* image of the tables and the log items accepted after it.                *)
(***************************************************************************)
EXTENDS LmtTables, FiniteSets, FiniteSetsExt

CONSTANTS
    Disturbances,  \* {"log_error"} if write_entry may fail, else {}
    MaxSeq,        \* bound: snap_seq of the volume
    MaxLog         \* bound: log items not yet compacted

ASSUME FlashMetaAssumption ==
    /\ Disturbances \subseteq {"log_error"}
    /\ MaxSeq \in Nat /\ MaxLog \in Nat

VARIABLES
    tab,     \* the tables in memory: obj_lmt, free_obj_queue, trim_obj_queue
    img,     \* disk: the tables in the current metadata zone
    rlog,    \* disk: the log items after img
    cow,     \* copies in progress: [key, dst], dst the object copied to
    vol,     \* the volume: [seq, snaps], current snap_seq and snapshots (conductor)
    del,     \* delete_snapshot in progress: [s, lns, todo]
    lost,    \* objects post_load_fix has dropped so far (history)
    misfiled \* objects whose copy was finished under another key (history)

diskVars == <<img, rlog>>
vars == <<tab, img, rlog, cow, vol, del, lost, misfiled>>

\* The objects that a table has entries for.
InUse(t) == {e.obj : e \in UNION {Range(t.lmt[k]) : k \in Key}}

NoDelete == [s |-> 0, lns |-> 0, todo |-> {}]

Init ==
    /\ tab = NewTables /\ img = NewTables /\ rlog = <<>>
    /\ cow = {}
    /\ vol = [seq |-> 1, snaps |-> {}]
    /\ del = NoDelete
    /\ lost = {} /\ misfiled = {}

-----------------------------------------------------------------------------
\* The tables become t; the items are logged, or write_entry fails and the
\* tables keep their change all the same.
Logged(t, items) ==
    /\ Len(rlog) + Len(items) <= MaxLog
    /\ tab' = t
    /\ rlog' \in {rlog \o items} \union {x \in {rlog} : "log_error" \in Disturbances}
    /\ UNCHANGED img

\* dequeue from free_obj_queue, log_allocation of the new first entry.
Allocate(k, status) ==
    LET e == [obj |-> front(tab.freeq), seq |-> vol.seq, st |-> status]
        q == dequeue(tab.freeq, ObjCount)
    IN  Logged([tab EXCEPT !.lmt[k] = <<e>> \o @, !.freeq = q],
               <<AllocItem(k, e, q.head)>>)

\* do_write to an object that is not there yet.
WriteNew(k) ==
    /\ tab.lmt[k] = <<>>
    /\ ~is_empty(tab.freeq)
    /\ Allocate(k, "NORMAL")
    /\ UNCHANGED <<cow, vol, del, lost, misfiled>>

\* do_write above a snapshot: allocate, and copy in the background (unless
\* the allocation could not be logged).  Nothing asks whether the entry
\* below is itself still being copied.
WriteCow(k) ==
    /\ tab.lmt[k] # <<>>
    /\ tab.lmt[k][1].seq < vol.seq
    /\ ~is_empty(tab.freeq)
    /\ Allocate(k, "COPYING")
    /\ cow' = IF rlog' = rlog THEN cow
              ELSE cow \union {[key |-> k, dst |-> front(tab.freeq)]}
    /\ UNCHANGED <<vol, del, lost, misfiled>>

\* do_cow_entry: all pieces are copied, the entry becomes NORMAL.  The key
\* for the log is read through a pointer to a variable of the do_write that
\* began the copy and has returned: it may be any key by now.  (Whether a
\* wrong key is the key of an object or of none makes no difference to the
\* replay, which looks for the object of the item in the chain of its key.)
CowDone(c) ==
    LET chain == tab.lmt[c.key]
        i == IndexOfObj(chain, c.dst)
    IN  \E key \in Key :
            /\ Logged([tab EXCEPT !.lmt[c.key][i].st = "NORMAL"],
                      <<StatusItem(key, [chain[i] EXCEPT !.st = "NORMAL"], chain[i].st)>>)
            /\ misfiled' = IF key = c.key THEN misfiled ELSE misfiled \union {c.dst}
            /\ cow' = cow \ {c}
            /\ UNCHANGED <<vol, del, lost>>

\* do_cow_entry after an I/O error: the entry stays COPYING.
CowFail(c) ==
    /\ cow' = cow \ {c}
    /\ UNCHANGED <<tab, diskVars, vol, del, lost, misfiled>>

-----------------------------------------------------------------------------
\* Mutant: the object is not queued for trimming.
DeleteEntryNoTrim(t, k, i) ==
    [t |-> [t EXCEPT !.lmt[k] = RemoveAt(@, i)],
     item |-> TrimItem(k, t.lmt[k][i], t.trimq.tail)]

\* delete_obj(entry i of key k) on tables t and items so far: the object goes
\* to trim_obj_queue and its entry goes.
DeleteEntry(t, k, i) ==
    LET e == t.lmt[k][i]
        q == enqueue(t.trimq, e.obj, ObjCount)
    IN  [t |-> [t EXCEPT !.lmt[k] = RemoveAt(@, i), !.trimq = q],
         item |-> TrimItem(k, e, q.tail)]

\* conductor: a snapshot takes the current snap_seq, later writes the next.
CreateSnapshot ==
    /\ vol.seq < MaxSeq
    /\ vol' = [seq |-> vol.seq + 1, snaps |-> vol.snaps \union {vol.seq}]
    /\ UNCHANGED <<tab, diskVars, cow, del, lost, misfiled>>

\* conductor: op=delete_snapshot with the snapshot after s; the current
\* snap_seq follows the last snapshot.
BeginDeleteSnapshot(s) ==
    /\ del = NoDelete
    /\ del' = [s |-> s,
               lns |-> Min({x \in vol.snaps : x > s} \union {vol.seq}),
               todo |-> Key]
    /\ UNCHANGED <<tab, diskVars, cow, vol, lost, misfiled>>

\* delete_snapshot, one sync_invoke: delete_obj_snapshot of one object.  Its
\* -EAGAIN is ignored.
DeleteObjSnapshot(k) ==
    LET chain == tab.lmt[k]
        i == EntryFor(chain, del.s)
        decision == SnapDecision(chain, del.s, del.lns)
        d == DeleteEntry(tab, k, i)
    IN  /\ k \in del.todo
        /\ decision # "dies"
        /\ del' = IF del.todo = {k} THEN NoDelete ELSE [del EXCEPT !.todo = @ \ {k}]
        /\ vol' = IF del.todo = {k} THEN [vol EXCEPT !.snaps = @ \ {del.s}] ELSE vol
        /\ CASE decision = "delete" -> Logged(d.t, <<d.item>>)
             [] decision = "move" ->
                    Logged([tab EXCEPT !.lmt[k][i].seq = del.lns],
                           <<SeqItem(k, [chain[i] EXCEPT !.seq = del.lns], chain[i].seq)>>)
             [] OTHER -> UNCHANGED <<tab, diskVars>>
        /\ misfiled' = misfiled \intersect InUse(tab')
        /\ UNCHANGED <<cow, lost>>

\* delete_replica: every entry of the object, newest first.  (The volume is
\* being removed or moved away, so no copy is in progress.)
DeleteReplica(k) ==
    LET step(acc, e) ==
            LET d == DeleteEntry(acc.t, k, 1)
            IN  [t |-> d.t, items |-> Append(acc.items, d.item)]
        r == FoldLeft(step, [t |-> tab, items |-> <<>>], tab.lmt[k])
    IN  /\ tab.lmt[k] # <<>>
        /\ \A c \in cow : c.key # k
        /\ Logged(r.t, r.items)
        /\ misfiled' = misfiled \intersect InUse(tab')
        /\ UNCHANGED <<cow, vol, del, lost>>

\* trim_proc, one sync_invoke: an object goes from trim_obj_queue to
\* free_obj_queue.
TrimStep ==
    LET id == front(tab.trimq)
        tq == dequeue(tab.trimq, ObjCount)
        fq == enqueue(tab.freeq, id, ObjCount)
    IN  /\ ~is_empty(tab.trimq)
        /\ Logged([tab EXCEPT !.trimq = tq, !.freeq = fq],
                  <<FreeItem(id, tq.head, fq.tail)>>)
        /\ UNCHANGED <<cow, vol, del, lost, misfiled>>

-----------------------------------------------------------------------------
\* compact_meta_data replays the items of the finished log zone into the
\* image, while later items wait in the other zone.
Compact(n) ==
    /\ img' = redoAll(load_meta_data(img), SubSeq(rlog, 1, n))
    /\ rlog' = SubSeq(rlog, n + 1, Len(rlog))
    /\ UNCHANGED <<tab, cow, vol, del, lost, misfiled>>

\* save_meta_data of the tables in memory (stop_app, or the synchronous save
\* after a failed compaction).
SaveLive ==
    /\ img' = tab
    /\ rlog' = <<>> /\ misfiled' = {}
    /\ UNCHANGED <<tab, cow, vol, del, lost>>

\* What start_metadata_service rebuilds.
Replayed == redoAll(load_meta_data(img), rlog)

Dropped(t) == {e \in UNION {Range(t.lmt[k]) : k \in Key} :
                  e.st \in {"COPYING", "RECOVERYING"}}

\* The process dies at any moment and starts again: load, replay, fix, save.
CrashRestart ==
    /\ tab' = post_load_fix(Replayed)
    /\ img' = tab'
    /\ rlog' = <<>>
    /\ cow' = {} /\ misfiled' = {}
    /\ del' = NoDelete
    /\ lost' = lost \union {e.obj : e \in Dropped(Replayed)}
    /\ UNCHANGED vol

\* delete_obj_snapshot of an object first written after the snapshot: the
\* search runs off the chain and the process dies.
DeleteObjSnapshotDies(k) ==
    /\ k \in del.todo
    /\ SnapDecision(tab.lmt[k], del.s, del.lns) = "dies"
    /\ CrashRestart

Next ==
    \/ \E k \in Key : \/ WriteNew(k) \/ WriteCow(k)
                      \/ DeleteObjSnapshot(k) \/ DeleteObjSnapshotDies(k)
                      \/ DeleteReplica(k)
    \/ \E c \in cow : CowDone(c) \/ CowFail(c)
    \/ CreateSnapshot
    \/ \E s \in vol.snaps : BeginDeleteSnapshot(s)
    \/ TrimStep
    \/ \E n \in 1..Len(rlog) : Compact(n)
    \/ SaveLive
    \/ CrashRestart

Spec == Init /\ [][Next]_vars

-----------------------------------------------------------------------------
(* Properties.                                                             *)

Tables == [lmt : [Key -> Seq(Entry)],
           freeq : QueueType(ObjCount, Obj), trimq : QueueType(ObjCount, Obj)]

TypeOK ==
    /\ tab \in Tables /\ img \in Tables
    /\ Len(rlog) <= MaxLog
    /\ cow \subseteq [key : Key, dst : Obj]
    /\ vol.seq \in 1..MaxSeq /\ vol.snaps \subseteq 1..MaxSeq
    /\ del.todo \subseteq Key
    /\ lost \subseteq Obj /\ misfiled \subseteq Obj

\* Replaying the log items gives back the very tables the running store has,
\* wherever a compaction has cut the log, but for the copies whose end was
\* logged under another key: their entries, and no others, are COPYING again.
\* Every other operation writes the items that reproduce it.
ReplayMatchesMemory ==
    LET unfinished(e) == IF e.obj \in misfiled THEN [e EXCEPT !.st = "COPYING"] ELSE e
    IN  Replayed = [tab EXCEPT !.lmt = [k \in Key |->
                       [i \in DOMAIN @[k] |-> unfinished(@[k][i])]]]

UsedObjs == FoldSet(LAMBDA k, acc : acc \o [i \in DOMAIN tab.lmt[k] |-> tab.lmt[k][i].obj],
                    <<>>, Key)
AllRefs == UsedObjs \o Contents(tab.freeq, ObjCount) \o Contents(tab.trimq, ObjCount)

\* post_load_check: "an object should be referenced only once" - by one entry
\* of obj_lmt, by free_obj_queue or by trim_obj_queue.
ObjectReferencedOnce == IsInjective(AllRefs)

\* No object disappears except the ones post_load_fix drops at a restart: the
\* objects of unfinished copies, and of copies that the replay believes so.
NoOtherLeak == Range(AllRefs) \union lost = Obj

\* post_load_check: "used obj count + free + trim= total. any object should
\* in one of three state: {used, free, trim}".
EveryObjectAccounted == Range(AllRefs) = Obj

\* delete_obj_snapshot: "we have the always truth:   Pts <= Lts, Lts < Pns" -
\* there is an entry that is not newer than the snapshot to delete.
DeleteFindsTarget ==
    \A k \in del.todo : tab.lmt[k] # <<>> => EntryFor(tab.lmt[k], del.s) # 0

\* post_load_check: "no duplicate snap_seq", and the chain is newest first,
\* which is what the searches of do_read and delete_obj_snapshot rely on.
ChainsNewestFirst ==
    \A k \in Key : \A i, j \in DOMAIN tab.lmt[k] :
        i < j => tab.lmt[k][i].seq > tab.lmt[k][j].seq
=============================================================================
