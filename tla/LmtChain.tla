------------------------------ MODULE LmtChain ------------------------------
(***************************************************************************)
(* The chain of lmt_entry's of one object: a sequence of [obj, seq, st],   *)
(* the current entry first, each followed by its prev_snap.                *)
(***************************************************************************)
EXTENDS Naturals, Sequences, SequencesExt

\* EntryStatus; DELAY_DELETE_AFTER_COW is never set, because the two places
\* that would set it are reached with next_entry NORMAL only.
Status == {"NORMAL", "COPYING", "RECOVERYING"}

\* insert_lmt_entry_list: behind the entries with a larger snap_seq; a
\* duplicate is noticed (-EEXIST) only when it is the first entry.
InsertEntry(chain, e) ==
    IF chain # <<>> /\ chain[1].seq = e.seq THEN chain
    ELSE LET later == SelectInSeq(chain, LAMBDA x : x.seq <= e.seq)
             at    == IF later = 0 THEN Len(chain) + 1 ELSE later
         IN  InsertAt(chain, at, e)

\* delete_matched_entry for the entries that hold an object.
RemoveObj(chain, obj) == SelectSeq(chain, LAMBDA x : x.obj # obj)

\* The first entry that holds the object, 0 if there is none.
IndexOfObj(chain, obj) == SelectInSeq(chain, LAMBDA x : x.obj = obj)

\* do_read, delete_obj_snapshot: the newest entry that is not newer than
\* snap_seq s, 0 if there is none.
EntryFor(chain, s) == SelectInSeq(chain, LAMBDA e : e.seq <= s)

\* post_load_fix, for one chain.
DropUnfinished(chain) ==
    SelectSeq(chain, LAMBDA e : e.st \notin {"COPYING", "RECOVERYING"})

\* Mutants: an entry is moved onto the next one, or an entry that is being
\* copied (from) is not spared.
SnapDecisionOffByOne(chain, s, lns) ==
    LET i == EntryFor(chain, s)
        near == {i - 1, i, i + 1} \cap DOMAIN chain
    IN  CASE chain = <<>> -> "absent"
          [] chain # <<>> /\ i = 0 -> "dies"
          [] i # 0 /\ (\E j \in near : chain[j].st # "NORMAL") -> "again"
          [] OTHER -> IF i > 1 /\ chain[i - 1].seq < lns THEN "delete" ELSE "move"
SnapDecisionNoStatus(chain, s, lns) ==
    LET i == EntryFor(chain, s)
    IN  CASE chain = <<>> -> "absent"
          [] chain # <<>> /\ i = 0 -> "dies"
          [] OTHER -> IF i > 1 /\ chain[i - 1].seq <= lns THEN "delete" ELSE "move"

\* What delete_obj_snapshot decides for a chain, the snapshot s to delete and
\* the next snapshot lns.  "dies": the search for the entry runs off the end
\* of the chain and dereferences NULL.  "again": an entry around the target
\* is not NORMAL (-EAGAIN).  Cases A1-B1 and A2-B1 delete the entry, A1-B2 and
\* A2-B2 move it to the next snapshot; the previous snapshot lps only tells
\* A1 from A2, and with them every case is taken, so A3 is never reached.
SnapDecision(chain, s, lns) ==
    LET i == EntryFor(chain, s)
        near == {i - 1, i, i + 1} \cap DOMAIN chain
    IN  CASE chain = <<>> -> "absent"
          [] chain # <<>> /\ i = 0 -> "dies"
          [] i # 0 /\ (\E j \in near : chain[j].st # "NORMAL") -> "again"
          [] OTHER -> IF i > 1 /\ chain[i - 1].seq <= lns THEN "delete" ELSE "move"
=============================================================================
