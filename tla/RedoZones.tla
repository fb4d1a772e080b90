----------------------------- MODULE RedoZones ------------------------------
(***************************************************************************)
(* The persistence protocol of a PfFlashStore: two metadata zones, two     *)
(* redo-log zones, and a head page that says which of each is current and  *)
(* which phase the log items of the current log zone carry.  The ssd       *)
(* thread logs every change of the metadata; a second thread compacts the  *)
(* finished log zone into the other metadata zone while the ssd thread     *)
(* already logs to the other log zone under the next phase.  The process   *)
(* may die between any two disk writes.                                    *)
(*                                                                         *)
(* A log record is its ordinal, and the content of a metadata image is the *)
(* sequence of records whose effects it holds: replaying a record appends  *)
(* it.  What the records do to the tables is the subject of FlashMeta.     *)
(***************************************************************************)
EXTENDS Naturals, Sequences

CONSTANTS
    ZoneSize,      \* items in one log zone: REDO_LOG_SIZE / LBA_LENGTH
    Disturbances,  \* which of the events below may happen
    MaxRecords,    \* bound: records logged
    MaxExternal    \* bound: crashes, shutdowns, save_md requests, log errors

\* Events after which the protocol promises nothing any more:
\* late_compaction: a trigger finds COMPACT_TODO, so the compaction thread has
\*   not run since the previous trigger signalled it;
\* sync_save: a trigger finds COMPACT_ERROR and saves synchronously;
\* flush_error: the last write of save_meta_data to the metadata zone fails,
\*   which goes unnoticed;
\* startup_save_error: the save_meta_data call of start_metadata_service fails;
\* busy_stop: stop_app finds a compaction outstanding or failed, or the ssd
\*   thread logs a record or triggers a compaction after stop_app's save;
\* log_error: the disk write of write_entry fails.
DisturbanceKinds ==
    {"late_compaction", "sync_save", "flush_error", "startup_save_error", "busy_stop",
     "log_error"}

ASSUME ConstantsAssumption ==
    /\ ZoneSize \in Nat \ {0}
    /\ Disturbances \subseteq DisturbanceKinds
    /\ MaxRecords \in Nat
    /\ MaxExternal \in Nat

VARIABLES
    md,        \* disk: metadata zone -> [torn, recs]
    logArea,   \* disk: the two log zones, one after the other: item -> [phase, rec]
    diskHead,  \* disk: the head page [phase, md, redo]
    pc,        \* the ssd thread
    head,      \* PfFlashStore::head of the running process
    mem,       \* the records the tables in memory hold
    log,       \* PfRedoLog: [phase, zone, off]; off = items from start_offset to current_offset
    cstate,    \* to_run_compact
    cpc,       \* the compaction thread
    tool,      \* compact_tool: [exist, recs]
    savemd,    \* an EVT_SAVEMD is queued
    stopping,  \* stop_app has begun for this disk
    accepted,  \* records write_entry has accepted (history)
    disturbed, \* one of the disturbances has happened (history)
    external   \* crashes, shutdowns, save_md requests and log errors (bound)

diskVars == <<md, logArea, diskHead>>
compactVars == <<cstate, cpc, tool>>
vars == <<md, logArea, diskHead, pc, head, mem, log, cstate, cpc, tool,
          savemd, stopping, accepted, disturbed, external>>

Zone == {1, 2}
oppsite(z) == 3 - z          \* oppsite_md_zone, oppsite_redolog_zone
EmptyItem == [phase |-> 0, rec |-> 0]

-----------------------------------------------------------------------------
(* Replay.  The second zone starts where the first one ends and the area   *)
(* behind it is zeroed at format time; replay has no bound of its own, it  *)
(* reads until an item carries another phase.                              *)

Base(z) == IF z = 1 THEN 0 ELSE ZoneSize
ItemAt(z, i) == IF Base(z) + i <= 2 * ZoneSize
                THEN logArea[Base(z) + i] ELSE EmptyItem

\* The number of items that replay(ph, z) applies.
RunLength(z, ph) ==
    CHOOSE n \in 0..(2 * ZoneSize) :
        /\ \A i \in 1..n : ItemAt(z, i).phase = ph
        /\ ItemAt(z, n + 1).phase # ph

replay(recs, z, ph) == recs \o [i \in 1..RunLength(z, ph) |-> ItemAt(z, i).rec]

\* Mutants: the opposite zone is not replayed, or under the phase of the
\* current one.
LoadAndReplayCurrent(h) == replay(md[h.md].recs, h.redo, h.phase)
LoadAndReplaySamePhase(h) ==
    replay(replay(md[h.md].recs, h.redo, h.phase), oppsite(h.redo), h.phase)

\* What start_metadata_service rebuilds from a disk whose head page is h.
LoadAndReplay(h) ==
    replay(replay(md[h.md].recs, h.redo, h.phase), oppsite(h.redo), h.phase + 1)

-----------------------------------------------------------------------------
NoLog == [phase |-> 0, zone |-> 1, off |-> 0]
NoTool == [exist |-> FALSE, recs |-> <<>>]

\* A freshly formatted disk, its process running: phase 0 at
\* initialize_store_head, then one save_meta_data into the first zone.
Init ==
    /\ md = [z \in Zone |-> [torn |-> FALSE, recs |-> <<>>]]
    /\ logArea = [i \in 1..(2 * ZoneSize) |-> EmptyItem]
    /\ diskHead = [phase |-> 1, md |-> 1, redo |-> 2]
    /\ pc = "idle"
    /\ head = diskHead
    /\ mem = <<>>
    /\ log = [phase |-> 1, zone |-> 2, off |-> 0]
    /\ cstate = "IDLE"
    /\ cpc = "wait"
    /\ tool = NoTool
    /\ savemd = FALSE
    /\ stopping = FALSE
    /\ accepted = 0
    /\ disturbed = FALSE
    /\ external = 0

\* The step is a disturbance of these kinds.
Disturb(kinds) ==
    /\ kinds \subseteq Disturbances
    /\ disturbed' = (disturbed \/ kinds # {})

\* Bound: a crash, a shutdown, a request from outside or a log error; explored
\* only up to the first disturbance.
External ==
    /\ ~disturbed
    /\ external < MaxExternal
    /\ external' = external + 1

\* Mutant: the zone in use is overwritten.
CurrentZone(h) == h.md

\* The zone every caller of save_meta_data passes.
ZoneToSave(h) == oppsite(h.md)

\* save_meta_data(zone), first half: the zone is being overwritten.
SaveTorn(zone) == md' = [md EXCEPT ![zone].torn = TRUE]

\* Mutants: discard forgets the log zone, or the phase.
HeadSameRedo(h, zone) == [phase |-> h.phase + 1, md |-> zone, redo |-> h.redo]
HeadSamePhase(h, zone) == [phase |-> h.phase, md |-> zone, redo |-> oppsite(h.redo)]

\* discard(): the head page that save_meta_data(zone) writes, given the
\* in-memory head h.
HeadAfterSave(h, zone) ==
    [phase |-> h.phase + 1, md |-> zone, redo |-> oppsite(h.redo)]

\* save_meta_data(zone), second half: the zone is complete (or its last write
\* has failed, for the result of flush_buffer is overwritten), the head page
\* is written in one piece and becomes the in-memory head.
SaveHead(h, zone, recs) ==
    /\ \E torn \in BOOLEAN :
          /\ Disturb({x \in {"flush_error"} : torn})
          /\ md' = [md EXCEPT ![zone] = [torn |-> torn, recs |-> recs]]
    /\ head' = HeadAfterSave(h, zone)
    /\ diskHead' = head'

set_log_phase(ph, zone) == log' = [phase |-> ph, zone |-> zone, off |-> 0]

-----------------------------------------------------------------------------
(* The ssd thread.                                                         *)

\* Mutant: the zone is found full one item late.
ZoneFullLate(off) == off > ZoneSize

ZoneFull(off) == off >= ZoneSize

\* write_entry: one item is written at current_offset; when that fills the
\* zone the call goes on to meta_data_compaction_trigger(COMPACT_TODO, true).
WriteEntry ==
    /\ pc = "idle"
    /\ Disturb({x \in {"busy_stop"} : stopping})
    /\ accepted < MaxRecords
    /\ logArea' = [logArea EXCEPT ![Base(log.zone) + log.off + 1] =
                      [phase |-> log.phase, rec |-> accepted + 1]]
    /\ log' = [log EXCEPT !.off = @ + 1]
    /\ mem' = Append(mem, accepted + 1)
    /\ accepted' = accepted + 1
    /\ pc' = IF ZoneFull(log'.off) THEN "trigger" ELSE pc
    /\ UNCHANGED <<md, diskHead, head, compactVars, savemd, stopping, external>>

\* The disk write of write_entry fails: current_offset stays, and the callers
\* keep the change of the tables (as record 0, for no record tells of it).
\* The item may have reached the disk all the same.
WriteEntryFails ==
    /\ pc = "idle"
    /\ External
    /\ Disturb({"log_error"})
    /\ logArea' \in {logArea, [logArea EXCEPT ![Base(log.zone) + log.off + 1] =
                                  [phase |-> log.phase, rec |-> 0]]}
    /\ mem' = Append(mem, 0)
    /\ UNCHANGED <<md, diskHead, pc, head, log, compactVars, savemd, stopping, accepted>>

\* Mutant: a zone that is not full is not worth a compaction.
NothingToSaveUnlessFull == log.off < ZoneSize

NothingToSave == log.off = 0

\* process_event(EVT_SAVEMD): nothing to do while the log zone is empty or a
\* compaction runs, otherwise meta_data_compaction_trigger(COMPACT_TODO, false).
EventSaveMd ==
    /\ pc = "idle" /\ savemd
    /\ savemd' = FALSE
    /\ pc' = IF NothingToSave \/ cstate = "RUNNING" THEN pc ELSE "trigger"
    /\ UNCHANGED <<diskVars, head, mem, log, compactVars, stopping, accepted, disturbed, external>>

\* handle_save_md_disk: the same request from the REST interface, which does
\* not look at the offset.
RestSaveMd ==
    /\ pc = "idle"
    /\ External
    /\ pc' = IF cstate = "RUNNING" THEN pc ELSE "trigger"
    /\ UNCHANGED <<diskVars, head, mem, log, compactVars, savemd, stopping, accepted, disturbed>>

\* Mutant: the opposite zone is written under the phase of the current one.
SamePhase(h) == h.phase

NextPhase(h) == h.phase + 1

\* meta_data_compaction_trigger(COMPACT_TODO, _) with md_lock held (the
\* compaction thread holds it while RUNNING): later records go to the
\* opposite zone under the next phase, the compaction thread is signalled.
TriggerTodo ==
    /\ pc = "trigger"
    /\ cstate \notin {"RUNNING", "ERROR"}
    /\ Disturb({x \in {"late_compaction"} : cstate = "TODO"}
               \union {x \in {"busy_stop"} : stopping})
    /\ set_log_phase(NextPhase(head), oppsite(head.redo))
    /\ cstate' = "TODO"
    /\ pc' = "idle"
    /\ UNCHANGED <<diskVars, head, mem, cpc, tool, savemd, stopping, accepted, external>>

\* The same call after a failed compaction saves the metadata synchronously.
TriggerAfterError ==
    /\ pc = "trigger"
    /\ cstate = "ERROR"
    /\ Disturb({"sync_save"})
    /\ head' = [head EXCEPT !.phase = log.phase]
    /\ SaveTorn(ZoneToSave(head))
    /\ pc' = "errsave"
    /\ UNCHANGED <<logArea, diskHead, mem, log, compactVars, savemd, stopping, accepted, external>>

TriggerAfterErrorSaved ==
    /\ pc = "errsave"
    /\ SaveHead(head, ZoneToSave(head), mem)
    /\ set_log_phase(head'.phase, oppsite(head'.redo))
    /\ cstate' = "IDLE"
    /\ pc' = "idle"
    /\ UNCHANGED <<logArea, mem, cpc, tool, savemd, stopping, accepted, external>>

-----------------------------------------------------------------------------
(* The compaction thread (PfRedoLog::start), which holds md_lock from the  *)
(* moment it finds COMPACT_TODO to the end of compact_meta_data.           *)

\* pthread_cond_timedwait timed out (and perhaps got md_lock only after a
\* trigger had set COMPACT_TODO).
AutoSaveTimeout ==
    /\ pc \notin {"down", "starting", "errsave"}
    /\ cstate \in {"IDLE", "TODO", "ERROR"}
    /\ ~savemd
    /\ savemd' = TRUE
    /\ UNCHANGED <<diskVars, pc, head, mem, log, compactVars, stopping, accepted, disturbed, external>>

\* Mutant: the tool is used without loading it.
ToolNotLoaded(t) == t

\* compact_meta_data loads the current metadata unless the tool still holds it.
LoadedTool(t) == IF t.exist THEN t ELSE [t EXCEPT !.recs = md[head.md].recs]

\* to_run_compact := COMPACT_RUNNING, compact_meta_data begins.
CompactLoad ==
    /\ cstate = "TODO"
    /\ cstate' = "RUNNING"
    /\ cpc' = "replay"
    /\ tool' = LoadedTool(tool)
    /\ UNCHANGED <<diskVars, pc, head, mem, log, savemd, stopping, accepted, disturbed, external>>

CompactReplay ==
    /\ cpc = "replay"
    /\ tool' = [tool EXCEPT !.recs = replay(@, head.redo, head.phase)]
    /\ SaveTorn(ZoneToSave(head))
    /\ cpc' = "save"
    /\ UNCHANGED <<logArea, diskHead, pc, head, mem, log, cstate, savemd, stopping, accepted, disturbed, external>>

\* Mutant: to_run_compact is not reset.
StillRunning == "RUNNING"

StateAfterCompaction == "IDLE"

CompactSave ==
    /\ cpc = "save"
    /\ SaveHead(head, ZoneToSave(head), tool.recs)
    /\ tool' = [tool EXCEPT !.exist = TRUE]
    /\ cstate' = StateAfterCompaction
    /\ cpc' = "wait"
    /\ UNCHANGED <<logArea, pc, mem, log, savemd, stopping, accepted, external>>

\* A read or write of compact_meta_data fails: the tool is emptied, the state
\* is COMPACT_ERROR and an EVT_SAVEMD is posted.
CompactError ==
    /\ cpc \in {"replay", "save"}
    /\ tool' = NoTool
    /\ cstate' = "ERROR"
    /\ cpc' = "wait"
    /\ savemd' = TRUE
    /\ UNCHANGED <<diskVars, pc, head, mem, log, stopping, accepted, disturbed, external>>

-----------------------------------------------------------------------------
(* Shutdown, crash and restart.                                            *)

\* stop_app on the ssd thread: COMPACT_STOP (waiting for md_lock), then
\* save_meta_data of the tables in memory.
Stop ==
    /\ pc = "idle" /\ ~stopping
    /\ cstate # "RUNNING"
    /\ Disturb({x \in {"busy_stop"} : cstate \in {"TODO", "ERROR"}})
    /\ External
    /\ stopping' = TRUE
    /\ cstate' = "STOP"
    /\ SaveTorn(ZoneToSave(head))
    /\ pc' = "stopsave"
    /\ UNCHANGED <<logArea, diskHead, head, mem, log, cpc, tool, savemd, accepted>>

\* The ssd thread then serves on until all disks have saved and the process
\* exits.
StopSaved ==
    /\ pc = "stopsave"
    /\ SaveHead(head, ZoneToSave(head), mem)
    /\ pc' = "idle"
    /\ UNCHANGED <<logArea, mem, log, compactVars, savemd, stopping, accepted, external>>

\* Nobody looks at the result of that save_meta_data call either.
StopSaveError ==
    /\ pc = "stopsave"
    /\ pc' = "idle"
    /\ UNCHANGED <<diskVars, head, mem, log, compactVars, savemd, stopping, accepted, disturbed, external>>

\* The process is gone: everything but the disk is lost.
Vanish ==
    /\ pc' = "down"
    /\ head' = diskHead
    /\ mem' = <<>>
    /\ log' = NoLog
    /\ cstate' = "IDLE"
    /\ cpc' = "wait"
    /\ tool' = NoTool
    /\ savemd' = FALSE
    /\ stopping' = FALSE
    /\ UNCHANGED <<diskVars, accepted, disturbed>>

Exit == stopping /\ pc # "stopsave" /\ Vanish /\ UNCHANGED external

Crash ==
    /\ pc # "down"
    /\ External
    /\ Vanish

\* start_metadata_service(false): load, replay both zones (++redolog_phase),
\* and begin to save the result in the other metadata zone.
StartLoad ==
    /\ pc = "down"
    /\ mem' = LoadAndReplay(diskHead)
    /\ head' = [diskHead EXCEPT !.phase = @ + 1]
    /\ SaveTorn(ZoneToSave(diskHead))
    /\ pc' = "starting"
    /\ UNCHANGED <<logArea, diskHead, log, compactVars, savemd, stopping, accepted, disturbed, external>>

StartSaved ==
    /\ pc = "starting"
    /\ SaveHead(head, ZoneToSave(head), mem)
    /\ set_log_phase(head'.phase, head'.redo)
    /\ pc' = "idle"
    /\ UNCHANGED <<logArea, mem, compactVars, savemd, stopping, accepted, external>>

\* The result of that save_meta_data call is not looked at.
StartSaveError ==
    /\ pc = "starting"
    /\ Disturb({"startup_save_error"})
    /\ set_log_phase(head.phase, head.redo)
    /\ pc' = "idle"
    /\ UNCHANGED <<diskVars, head, mem, compactVars, savemd, stopping, accepted, external>>

-----------------------------------------------------------------------------
SsdThread == \/ WriteEntry \/ WriteEntryFails \/ EventSaveMd \/ RestSaveMd
             \/ TriggerTodo \/ TriggerAfterError \/ TriggerAfterErrorSaved
CompactionThread == \/ AutoSaveTimeout \/ CompactLoad \/ CompactReplay
                    \/ CompactSave \/ CompactError
Restart == \/ Stop \/ StopSaved \/ StopSaveError \/ Exit \/ Crash
           \/ StartLoad \/ StartSaved \/ StartSaveError

Next == SsdThread \/ CompactionThread \/ Restart

Spec == Init /\ [][Next]_vars

\* Threads that can run do run, and the 120 s timer of the compaction thread
\* fires; nothing is assumed of clients, operators and failures.
Fairness ==
    /\ WF_vars(EventSaveMd)
    /\ WF_vars(TriggerTodo \/ TriggerAfterError \/ TriggerAfterErrorSaved)
    /\ WF_vars(AutoSaveTimeout)
    /\ WF_vars(CompactLoad \/ CompactReplay \/ CompactSave)
    /\ WF_vars(StopSaved \/ Exit)
    /\ WF_vars(StartLoad \/ StartSaved)

FairSpec == Spec /\ Fairness

-----------------------------------------------------------------------------
(* Properties.                                                             *)

HeadPage == [phase : Nat, md : Zone, redo : Zone]

TypeOK ==
    /\ md \in [Zone -> [torn : BOOLEAN, recs : Seq(Nat)]]
    /\ logArea \in [1..(2 * ZoneSize) -> [phase : Nat, rec : Nat]]
    /\ diskHead \in HeadPage /\ head \in HeadPage
    /\ pc \in {"down", "starting", "idle", "trigger", "errsave", "stopsave"}
    /\ mem \in Seq(Nat)
    /\ log \in [phase : Nat, zone : Zone, off : 0..ZoneSize]
    /\ cstate \in {"IDLE", "TODO", "STOP", "RUNNING", "ERROR"}
    /\ cpc \in {"wait", "replay", "save"}
    /\ tool \in [exist : BOOLEAN, recs : Seq(Nat)]
    /\ savemd \in BOOLEAN /\ stopping \in BOOLEAN /\ disturbed \in BOOLEAN
    /\ accepted \in Nat /\ external \in Nat

FirstRecords(n) == [i \in 1..n |-> i]

\* What a restart finds is exactly what write_entry accepted: no record lost,
\* none twice, none out of order.
RestartKeepsWrites == LoadAndReplay(diskHead) = FirstRecords(accepted)

\* That holds wherever the process dies, compaction errors included, as long
\* as none of the disturbances has happened.
RestartRecoversLog == ~disturbed => RestartKeepsWrites

\* A running store's tables are what a restart would rebuild.
MemoryIsDurable ==
    ~disturbed /\ pc \notin {"down", "starting"} => mem = LoadAndReplay(diskHead)

\* The head page never points at a metadata zone that is partly overwritten,
\* whose md5 mismatch load_meta_data would only report.
CurrentZoneIntact == ~disturbed => ~md[diskHead.md].torn

\* replay stops inside the zone it was asked to read, though it has no bound:
\* the zone behind it never starts with an item of the same phase.
ReplayStaysInZone ==
    ~disturbed =>
        /\ RunLength(diskHead.redo, diskHead.phase) <= ZoneSize
        /\ RunLength(oppsite(diskHead.redo), diskHead.phase + 1) <= ZoneSize

\* What the compaction thread is about to save plus the running log zone is
\* what the tables in memory hold: it neither folds in a record of the running
\* zone nor misses one of the finished zone.
CompactionImageExact ==
    ~disturbed /\ cpc = "save" =>
        replay(tool.recs, oppsite(head.redo), head.phase + 1) = mem

\* The head page moves forward: no two saves carry the same phase.
PhaseAdvances == [][diskHead'.phase > diskHead.phase]_diskHead

D == INSTANCE DurableLog
       WITH durable <- IF disturbed THEN FirstRecords(accepted) ELSE LoadAndReplay(diskHead)

\* Until a disturbance the protocol implements the durable log of DurableLog:
\* compaction, crash and restart change nothing of what is recoverable.
ImplementsDurableLog == D!DSpec

\* A write blocked in meta_data_compaction_trigger gets through.
TriggerCompletes == (pc = "trigger") ~> (pc # "trigger")

\* Every accepted record reaches a saved metadata image, after which its log
\* zone can be reused - unless a compaction fails: its EVT_SAVEMD does nothing
\* while the running zone is empty, so an idle store does not try again.
LogIsAbsorbed ==
    \A n \in 1..MaxRecords :
        (accepted >= n) ~> (disturbed \/ cstate = "ERROR" \/ Len(md[diskHead.md].recs) >= n)

-----------------------------------------------------------------------------
(* The inductive invariant behind RestartRecoversLog and its companions.   *)

\* In log area la the first n items of zone z are the records after record r,
\* under phase ph; every other item of the zone is older than phase cur.
ZoneHolds(la, cur, z, ph, r, n) ==
    \A i \in 1..ZoneSize :
        IF i <= n THEN la[Base(z) + i] = [phase |-> ph, rec |-> r + i]
                  ELSE la[Base(z) + i].phase < cur

\* The current metadata zone holds the oldest records, the current log zone
\* the next b, the opposite log zone the last c.
DiskHolds(b, c) ==
    LET a == Len(md[diskHead.md].recs)
        p == diskHead.phase
    IN  /\ md[diskHead.md] = [torn |-> FALSE, recs |-> FirstRecords(a)]
        /\ ZoneHolds(logArea, p, diskHead.redo, p, a, b)
        /\ ZoneHolds(logArea, p, oppsite(diskHead.redo), p + 1, a + b, c)
        /\ accepted = a + b + c

\* The next record goes behind the last one: in the current zone, or in the
\* opposite zone from a trigger until its compaction is saved.
LogFollows(b, c) ==
    IF cstate \in {"IDLE", "STOP"}
    THEN /\ log = [phase |-> diskHead.phase, zone |-> diskHead.redo, off |-> b]
         /\ c = 0
    ELSE log = [phase |-> diskHead.phase + 1, zone |-> oppsite(diskHead.redo), off |-> c]

\* compact_tool holds the current metadata zone, and once it has replayed,
\* the current log zone as well.
ToolFollows(b) ==
    LET recs == md[diskHead.md].recs
    IN  /\ cpc = "wait" /\ tool.exist => tool.recs = recs
        /\ cpc = "replay" => tool.recs = recs
        /\ cpc = "save" => tool.recs = FirstRecords(Len(recs) + b)

\* The seams between the three parts, b and c items long the last two.  The
\* log and the tool are not used again once stop_app has saved.
Seams(b, c) ==
    /\ DiskHolds(b, c)
    /\ pc \notin {"down", "starting"} /\ (stopping => pc = "stopsave") => LogFollows(b, c)
    /\ ~stopping => ToolFollows(b)

\* The two threads, as long as nothing has disturbed the protocol.
ThreadsAgree ==
    /\ pc # "errsave"
    /\ head = IF pc = "starting" THEN [diskHead EXCEPT !.phase = @ + 1] ELSE diskHead
    /\ pc # "down" => mem = FirstRecords(accepted)
    /\ pc \in {"down", "starting"} => cstate = "IDLE" /\ tool = NoTool
    /\ (cstate = "RUNNING") <=> (cpc # "wait")
    /\ stopping <=> (cstate = "STOP")
    /\ pc = "stopsave" => stopping

\* In any case: write_entry has room for an item, and phase 0 is the phase of
\* an item that was never written.
RoomAndPhase ==
    /\ pc \in {"idle", "stopsave"} => log.off < ZoneSize
    /\ pc \notin {"down", "starting"} => log.phase > 0
    /\ head.phase > 0 /\ diskHead.phase > 0

\* At every step of the two threads the disk splits the accepted records over
\* the current metadata zone and the two log zones, without gap or overlap,
\* and the log, the tables and the compaction tool stand at the seams.
RecordsPartitioned ==
    /\ RoomAndPhase
    /\ ~disturbed =>
          /\ ThreadsAgree
          /\ \E b, c \in 0..ZoneSize : Seams(b, c)
=============================================================================
