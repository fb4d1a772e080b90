----------------------------- MODULE LmtTables ------------------------------
(***************************************************************************)
(* The tables a PfFlashStore keeps in memory, saves in a metadata zone and *)
(* rebuilds from the redo log, as one value                                *)
(*     [lmt, freeq, trimq]                                                 *)
(* lmt maps a key to the chain of its entries, newest snapshot first (the  *)
(* empty chain: the key is not in obj_lmt); freeq and trimq are rings of   *)
(* object ids.  Here are the changes the code makes to them, live and when *)
(* it replays a log item.                                                  *)
(***************************************************************************)
EXTENDS Naturals, Sequences, SequencesExt, LmtChain, FixedSizeQueue

CONSTANTS
    Key,        \* lmt_key: the objects of the volumes on this disk
    ObjCount    \* objects on the disk

ASSUME TablesAssumption == ObjCount \in Nat \ {0}

Obj == 0..(ObjCount - 1)
Entry == [obj : Obj, seq : Nat, st : Status]

\* start_metadata_service(true): every object is free.
NewTables ==
    [lmt   |-> [k \in Key |-> <<>>],
     freeq |-> [head |-> 0, tail |-> ObjCount,
                data |-> [i \in 0..ObjCount |-> IF i < ObjCount THEN i ELSE 0]],
     trimq |-> NewQueue(ObjCount)]

-----------------------------------------------------------------------------
(* Log items and their replay.                                             *)

AllocItem(k, e, freeHead) == [type |-> "ALLOCATE_OBJ", key |-> k, entry |-> e, at |-> freeHead]
TrimItem(k, e, trimTail) == [type |-> "TRIM_OBJ", key |-> k, entry |-> e, at |-> trimTail]
FreeItem(obj, trimHead, freeTail) ==
    [type |-> "FREE_OBJ", obj |-> obj, trimHead |-> trimHead, freeTail |-> freeTail]
SeqItem(k, e, old) == [type |-> "SNAP_SEQ_CHANGE", key |-> k, entry |-> e, old |-> old]
StatusItem(k, e, old) == [type |-> "STATUS_CHANGE", key |-> k, entry |-> e, old |-> old]

\* The slot before an index of a ring of ObjCount + 1 slots.
SlotBefore(i) == IF i = 0 THEN ObjCount ELSE i - 1

\* Mutant: the head of free_obj_queue is not restored.
redo_allocation_keep_head(t, r) == [t EXCEPT !.lmt[r.key] = InsertEntry(@, r.entry)]

redo_allocation(t, r) ==
    [t EXCEPT !.lmt[r.key] = InsertEntry(@, r.entry), !.freeq.head = r.at]

redo_trim(t, r) ==
    [t EXCEPT !.lmt[r.key] = RemoveObj(@, r.entry.obj),
              !.trimq.tail = r.at,
              !.trimq.data[SlotBefore(r.at)] = r.entry.obj]

\* Mutant: the head of trim_obj_queue is not restored.
redo_free_keep_head(t, r) ==
    [t EXCEPT !.freeq.tail = r.freeTail,
              !.freeq.data[SlotBefore(r.freeTail)] = r.obj]

redo_free(t, r) ==
    [t EXCEPT !.freeq.tail = r.freeTail,
              !.freeq.data[SlotBefore(r.freeTail)] = r.obj,
              !.trimq.head = r.trimHead]

redo_snap_seq_change(t, r) ==
    LET i == IndexOfObj(t.lmt[r.key], r.entry.obj)
    IN  IF i = 0 \/ t.lmt[r.key][i].seq # r.old THEN t
        ELSE [t EXCEPT !.lmt[r.key][i].seq = r.entry.seq]

redo_state_change(t, r) ==
    LET i == IndexOfObj(t.lmt[r.key], r.entry.obj)
    IN  IF i = 0 \/ t.lmt[r.key][i].st # r.old THEN t
        ELSE [t EXCEPT !.lmt[r.key][i].st = r.entry.st]

redo(t, r) ==
    CASE r.type = "ALLOCATE_OBJ"    -> redo_allocation(t, r)
      [] r.type = "TRIM_OBJ"        -> redo_trim(t, r)
      [] r.type = "FREE_OBJ"        -> redo_free(t, r)
      [] r.type = "SNAP_SEQ_CHANGE" -> redo_snap_seq_change(t, r)
      [] r.type = "STATUS_CHANGE"   -> redo_state_change(t, r)

redoAll(t, items) == FoldLeft(redo, t, items)

\* load_meta_data drops the entries a recovery left unfinished.
load_meta_data(t) ==
    [t EXCEPT !.lmt = [k \in Key |->
        SelectSeq(@[k], LAMBDA e : e.st # "RECOVERYING")]]

\* post_load_fix drops the entries of an unfinished copy or recovery; their
\* objects go to neither queue.
post_load_fix(t) ==
    [t EXCEPT !.lmt = [k \in Key |-> DropUnfinished(@[k])]]
=============================================================================
