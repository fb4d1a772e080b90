-------------------------- MODULE RedoZonesProofs ---------------------------
(***************************************************************************)
(* Proofs about RedoZones, for zones of any size, any number of records    *)
(* and any set of disturbances.  TypeOK /\ RecordsPartitioned is the       *)
(* inductive invariant; the promises of the protocol follow from it.       *)
(***************************************************************************)
EXTENDS RedoZones, SequenceTheorems, WellFoundedInduction, TLAPS

-----------------------------------------------------------------------------
(* Replay.                                                                 *)

\* An item read by replay is an item, even behind the log area.
LEMMA ItemType ==
    ASSUME TypeOK, NEW z \in Zone, NEW i \in Nat \ {0}
    PROVE  ItemAt(z, i) \in [phase : Nat, rec : Nat]
<1>1. EmptyItem \in [phase : Nat, rec : Nat]
  BY DEF EmptyItem
<1>2. ASSUME Base(z) + i <= 2 * ZoneSize
      PROVE  Base(z) + i \in 1..(2 * ZoneSize)
  BY <1>2, ConstantsAssumption DEF Base
<1>3. logArea \in [1..(2 * ZoneSize) -> [phase : Nat, rec : Nat]]
  BY DEF TypeOK
<1> QED
  BY <1>1, <1>2, <1>3 DEF ItemAt

\* replay ends: behind the log area no item carries a phase other than 0, so
\* some item is the first with another phase than the one asked for.
LEMMA RunLengthType ==
    ASSUME TypeOK, NEW z \in Zone, NEW ph \in Nat \ {0}
    PROVE  RunLength(z, ph) \in 0..(2 * ZoneSize)
<1> DEFINE T == {n \in Nat : ItemAt(z, n + 1).phase # ph}
<1>1. 2 * ZoneSize \in T
  BY ConstantsAssumption DEF Zone, ItemAt, Base, EmptyItem
<1>2. PICK m \in T : \A n \in T : ~(<<n, m>> \in OpToRel(<, Nat))
  <2> HIDE DEF T
  <2>1. T \subseteq Nat /\ T # {}
    BY <1>1 DEF T
  <2> QED
    BY <2>1, NatLessThanWellFounded, WFMin, Zenon
<1>3. \A n \in T : ~(n < m)
  BY <1>2, Zenon DEF OpToRel
<1>4. m \in 0..(2 * ZoneSize)
  BY <1>1, <1>3, ConstantsAssumption
<1>5. \A i \in 1..m : ItemAt(z, i).phase = ph
  <2> TAKE i \in 1..m
  <2>1. i - 1 \in Nat /\ i - 1 < m /\ (i - 1) + 1 = i
    BY <1>4
  <2> QED
    BY <2>1, <1>3
<1> QED
  BY <1>4, <1>5 DEF RunLength

\* The run of items under one phase has one length.
LEMMA RunLengthIs ==
    ASSUME NEW z \in Zone, NEW ph \in Nat, NEW n \in 0..(2 * ZoneSize),
           \A i \in 1..n : ItemAt(z, i).phase = ph,
           ItemAt(z, n + 1).phase # ph
    PROVE  RunLength(z, ph) = n
<1> DEFINE P(m) == /\ \A i \in 1..m : ItemAt(z, i).phase = ph
                   /\ ItemAt(z, m + 1).phase # ph
<1>1. P(n)
  OBVIOUS
<1>2. ASSUME NEW m \in 0..(2 * ZoneSize), P(m)
      PROVE  m = n
  <2>1. CASE m < n
    <3>1. m + 1 \in 1..n
      BY <2>1, ConstantsAssumption
    <3> QED
      BY <3>1, <1>2
  <2>2. CASE n < m
    <3>1. n + 1 \in 1..m
      BY <2>2, ConstantsAssumption
    <3> QED
      BY <3>1, <1>2
  <2> QED
    BY <2>1, <2>2, ConstantsAssumption
<1> HIDE DEF P
<1>3. RunLength(z, ph) = CHOOSE m \in 0..(2 * ZoneSize) : P(m)
  BY DEF RunLength, P
<1> QED
  BY <1>1, <1>2, <1>3

\* replay yields a sequence of records.
LEMMA ReplayType ==
    ASSUME TypeOK, NEW recs \in Seq(Nat), NEW z \in Zone, NEW ph \in Nat \ {0}
    PROVE  replay(recs, z, ph) \in Seq(Nat)
<1>1. RunLength(z, ph) \in Nat
  BY RunLengthType, ConstantsAssumption
<1>2. \A i \in 1..RunLength(z, ph) : ItemAt(z, i).rec \in Nat
  BY ItemType, <1>1
<1> DEFINE s == [i \in 1..RunLength(z, ph) |-> ItemAt(z, i).rec]
<1>3. s \in Seq(Nat)
  BY <1>1, <1>2, SMTT(30)
<1> HIDE DEF s
<1>4. recs \o s \in Seq(Nat)
  BY <1>3
<1> QED
  BY <1>4 DEF replay, s

-----------------------------------------------------------------------------
(* Type correctness, disturbed or not.                                     *)

Typed == TypeOK /\ RoomAndPhase

LEMMA oppsiteType ==
    ASSUME NEW z \in Zone
    PROVE  oppsite(z) \in Zone /\ oppsite(z) # z /\ oppsite(oppsite(z)) = z
BY DEF Zone, oppsite

LEMMA DisturbType ==
    ASSUME TypeOK, NEW kinds, Disturb(kinds)
    PROVE  disturbed' \in BOOLEAN /\ (disturbed => disturbed')
BY DEF Disturb, TypeOK

LEMMA ExternalType ==
    ASSUME TypeOK, External
    PROVE  external' \in Nat
<1>1. external \in Nat
  BY DEF TypeOK
<1> QED
  BY <1>1 DEF External

LEMMA SaveTornType ==
    ASSUME TypeOK, NEW zone \in Zone, SaveTorn(zone)
    PROVE  md' \in [Zone -> [torn : BOOLEAN, recs : Seq(Nat)]]
BY ZenonT(30) DEF SaveTorn, TypeOK

LEMMA SaveHeadType ==
    ASSUME TypeOK, NEW h \in HeadPage, NEW zone \in Zone, NEW recs \in Seq(Nat),
           SaveHead(h, zone, recs)
    PROVE  /\ md' \in [Zone -> [torn : BOOLEAN, recs : Seq(Nat)]]
           /\ head' \in HeadPage /\ diskHead' = head' /\ head'.phase > 0
           /\ disturbed' \in BOOLEAN
<1>1. PICK torn \in BOOLEAN :
          /\ Disturb({x \in {"flush_error"} : torn})
          /\ md' = [md EXCEPT ![zone] = [torn |-> torn, recs |-> recs]]
  BY Zenon DEF SaveHead
<1>2. disturbed' \in BOOLEAN
  BY <1>1, DisturbType
<1>3. md' \in [Zone -> [torn : BOOLEAN, recs : Seq(Nat)]]
  BY <1>1 DEF TypeOK
<1>4. head' = [phase |-> h.phase + 1, md |-> zone, redo |-> oppsite(h.redo)]
      /\ diskHead' = head'
  BY DEF SaveHead, HeadAfterSave
<1> QED
  BY <1>2, <1>3, <1>4, oppsiteType DEF HeadPage

LEMMA InitTyped == Init => Typed
<1> SUFFICES ASSUME Init PROVE Typed
  OBVIOUS
<1>1. /\ md \in [Zone -> [torn : BOOLEAN, recs : Seq(Nat)]]
      /\ tool \in [exist : BOOLEAN, recs : Seq(Nat)]
      /\ mem \in Seq(Nat)
  BY DEF Init, NoTool
<1>2. logArea \in [1..(2 * ZoneSize) -> [phase : Nat, rec : Nat]]
  BY DEF Init, EmptyItem
<1>3. /\ diskHead \in HeadPage /\ head \in HeadPage
      /\ head.phase > 0 /\ diskHead.phase > 0
  BY DEF Init, HeadPage, Zone
<1>4. /\ log \in [phase : Nat, zone : Zone, off : 0..ZoneSize]
      /\ log.phase > 0 /\ log.off < ZoneSize
  BY ConstantsAssumption DEF Init, Zone
<1> QED
  BY <1>1, <1>2, <1>3, <1>4, Zenon DEF Init, Typed, TypeOK, RoomAndPhase

\* Every step of the two threads, of a shutdown, a crash and a restart leaves
\* the state well typed, the running log zone with room for an item, and the
\* phases above that of an unwritten item.
LEMMA NextTyped == Typed /\ [Next]_vars => Typed'
<1> SUFFICES ASSUME Typed, [Next]_vars PROVE Typed'
  OBVIOUS
<1> USE ConstantsAssumption DEF Typed
<1>h. /\ head.md \in Zone /\ head.redo \in Zone /\ head.phase \in Nat \ {0}
      /\ diskHead.md \in Zone /\ diskHead.redo \in Zone /\ diskHead.phase \in Nat \ {0}
      /\ ZoneToSave(head) \in Zone /\ ZoneToSave(diskHead) \in Zone
  <2>1. head \in HeadPage /\ diskHead \in HeadPage /\ head.phase > 0 /\ diskHead.phase > 0
    BY DEF TypeOK, RoomAndPhase
  <2> QED
    BY <2>1, oppsiteType DEF HeadPage, ZoneToSave
<1>1. CASE WriteEntry
  <2>1. disturbed' \in BOOLEAN
    BY <1>1, DisturbType DEF WriteEntry
  <2>2. log.off \in 0..(ZoneSize - 1) /\ log.zone \in Zone /\ log.phase \in Nat
    BY <1>1, SMTT(30) DEF WriteEntry, TypeOK, RoomAndPhase
  <2>3. log' = [log EXCEPT !.off = @ + 1] /\ log'.off = log.off + 1
    BY <1>1 DEF WriteEntry, TypeOK
  <2>4. log' \in [phase : Nat, zone : Zone, off : 0..ZoneSize] /\ log'.phase = log.phase
    <3>1. log \in [phase : Nat, zone : Zone, off : 0..ZoneSize]
      BY DEF TypeOK
    <3>2. log.off + 1 \in 0..ZoneSize
      BY <2>2
    <3> QED
      BY <3>1, <3>2, <2>3
  <2>5. pc' \in {"idle", "trigger"} /\ (pc' = "idle" => log'.off < ZoneSize)
    BY <1>1, <2>2, <2>3, SMTT(30) DEF WriteEntry, ZoneFull
  <2>6. logArea' \in [1..(2 * ZoneSize) -> [phase : Nat, rec : Nat]]
    <3>1. [phase |-> log.phase, rec |-> accepted + 1] \in [phase : Nat, rec : Nat]
      BY <2>2 DEF TypeOK
    <3> QED
      BY <1>1, <3>1, Zenon DEF WriteEntry, TypeOK
  <2>7. mem' \in Seq(Nat) /\ accepted' \in Nat
    BY <1>1, SMTT(30) DEF WriteEntry, TypeOK
  <2> QED
    BY <1>1, <2>1, <2>2, <2>4, <2>5, <2>6, <2>7, ZenonT(30)
    DEF WriteEntry, compactVars, TypeOK, RoomAndPhase
<1>22. CASE WriteEntryFails
  <2>1. disturbed' \in BOOLEAN /\ external' \in Nat
    BY <1>22, DisturbType, ExternalType, Zenon DEF WriteEntryFails
  <2>2. logArea' \in [1..(2 * ZoneSize) -> [phase : Nat, rec : Nat]]
    <3>1. [phase |-> log.phase, rec |-> 0] \in [phase : Nat, rec : Nat]
      BY DEF TypeOK
    <3>2. logArea \in [1..(2 * ZoneSize) -> [phase : Nat, rec : Nat]]
      BY DEF TypeOK
    <3> QED
      BY <1>22, <3>1, <3>2, ZenonT(30) DEF WriteEntryFails
  <2>3. mem' \in Seq(Nat)
    BY <1>22, SMTT(30) DEF WriteEntryFails, TypeOK
  <2> QED
    BY <1>22, <2>1, <2>2, <2>3, ZenonT(30) DEF WriteEntryFails, compactVars, TypeOK, RoomAndPhase
<1>2. CASE EventSaveMd
  BY <1>2, Zenon DEF EventSaveMd, compactVars, diskVars, TypeOK, RoomAndPhase
<1>3. CASE RestSaveMd
  BY <1>3, SMTT(30) DEF RestSaveMd, External, compactVars, diskVars, TypeOK, RoomAndPhase
<1>4. CASE TriggerTodo
  <2>1. disturbed' \in BOOLEAN
    BY <1>4, DisturbType DEF TriggerTodo
  <2>2. log' = [phase |-> head.phase + 1, zone |-> oppsite(head.redo), off |-> 0]
    BY <1>4 DEF TriggerTodo, set_log_phase, NextPhase
  <2>3. log' \in [phase : Nat, zone : Zone, off : 0..ZoneSize]
        /\ log'.phase > 0 /\ log'.off < ZoneSize
    BY <2>2, <1>h, oppsiteType
  <2> QED
    BY <1>4, <2>1, <2>3, Zenon DEF TriggerTodo, diskVars, TypeOK, RoomAndPhase
<1>5. CASE TriggerAfterError
  <2>1. disturbed' \in BOOLEAN
    BY <1>5, DisturbType DEF TriggerAfterError
  <2>2. md' \in [Zone -> [torn : BOOLEAN, recs : Seq(Nat)]]
    BY <1>5, <1>h, SaveTornType DEF TriggerAfterError
  <2>3. head' \in HeadPage /\ head'.phase > 0
    BY <1>5, Zenon DEF TriggerAfterError, TypeOK, RoomAndPhase, HeadPage
  <2> QED
    BY <1>5, <2>1, <2>2, <2>3, Zenon DEF TriggerAfterError, compactVars, TypeOK, RoomAndPhase
<1>6. CASE TriggerAfterErrorSaved
  <2>1. SaveHead(head, ZoneToSave(head), mem)
    BY <1>6 DEF TriggerAfterErrorSaved
  <2>2. /\ md' \in [Zone -> [torn : BOOLEAN, recs : Seq(Nat)]]
        /\ head' \in HeadPage /\ diskHead' = head' /\ head'.phase > 0
        /\ disturbed' \in BOOLEAN
    BY <2>1, <1>h, SaveHeadType, Zenon DEF TypeOK
  <2>3. log' = [phase |-> head'.phase, zone |-> oppsite(head'.redo), off |-> 0]
    BY <1>6 DEF TriggerAfterErrorSaved, set_log_phase
  <2>4. log' \in [phase : Nat, zone : Zone, off : 0..ZoneSize]
        /\ log'.phase > 0 /\ log'.off < ZoneSize
    BY <2>2, <2>3, oppsiteType DEF HeadPage
  <2> QED
    BY <1>6, <2>2, <2>4, Zenon DEF TriggerAfterErrorSaved, TypeOK, RoomAndPhase
<1>7. CASE AutoSaveTimeout
  BY <1>7, ZenonT(30) DEF AutoSaveTimeout, compactVars, diskVars, TypeOK, RoomAndPhase
<1>8. CASE CompactLoad
  <2>1. tool' \in [exist : BOOLEAN, recs : Seq(Nat)]
    BY <1>8, <1>h, Zenon DEF CompactLoad, LoadedTool, TypeOK
  <2> QED
    BY <1>8, <2>1, ZenonT(30) DEF CompactLoad, diskVars, TypeOK, RoomAndPhase
<1>9. CASE CompactReplay
  <2>1. replay(tool.recs, head.redo, head.phase) \in Seq(Nat)
    BY <1>h, ReplayType, Zenon DEF TypeOK
  <2>2. tool' \in [exist : BOOLEAN, recs : Seq(Nat)]
    BY <1>9, <2>1, Zenon DEF CompactReplay, TypeOK
  <2>3. md' \in [Zone -> [torn : BOOLEAN, recs : Seq(Nat)]]
    BY <1>9, <1>h, SaveTornType, Zenon DEF CompactReplay
  <2> QED
    BY <1>9, <2>2, <2>3, ZenonT(30) DEF CompactReplay, TypeOK, RoomAndPhase
<1>10. CASE CompactSave
  <2>1. SaveHead(head, ZoneToSave(head), tool.recs)
    BY <1>10 DEF CompactSave
  <2>2. /\ md' \in [Zone -> [torn : BOOLEAN, recs : Seq(Nat)]]
        /\ head' \in HeadPage /\ diskHead' = head' /\ head'.phase > 0
        /\ disturbed' \in BOOLEAN
    BY <2>1, <1>h, SaveHeadType, Zenon DEF TypeOK
  <2> QED
    BY <1>10, <2>2, Zenon DEF CompactSave, StateAfterCompaction, TypeOK, RoomAndPhase
<1>11. CASE CompactError
  <2>1. tool' \in [exist : BOOLEAN, recs : Seq(Nat)]
    BY <1>11 DEF CompactError, NoTool
  <2> QED
    BY <1>11, <2>1, Zenon DEF CompactError, diskVars, TypeOK, RoomAndPhase
<1>12. CASE Stop
  <2>1. disturbed' \in BOOLEAN /\ external' \in Nat
    BY <1>12, DisturbType, ExternalType DEF Stop
  <2>2. md' \in [Zone -> [torn : BOOLEAN, recs : Seq(Nat)]]
    BY <1>12, <1>h, SaveTornType DEF Stop
  <2> QED
    BY <1>12, <2>1, <2>2, ZenonT(30) DEF Stop, TypeOK, RoomAndPhase
<1>13. CASE StopSaved
  <2>1. SaveHead(head, ZoneToSave(head), mem)
    BY <1>13 DEF StopSaved
  <2>2. /\ md' \in [Zone -> [torn : BOOLEAN, recs : Seq(Nat)]]
        /\ head' \in HeadPage /\ diskHead' = head' /\ head'.phase > 0
        /\ disturbed' \in BOOLEAN
    BY <2>1, <1>h, SaveHeadType DEF TypeOK
  <2> QED
    BY <1>13, <2>2, ZenonT(30) DEF StopSaved, compactVars, TypeOK, RoomAndPhase
<1>14. CASE StopSaveError
  BY <1>14, ZenonT(30) DEF StopSaveError, diskVars, compactVars, TypeOK, RoomAndPhase
<1>15. ASSUME Vanish, external' \in Nat PROVE Typed'
  <2>1. /\ log' \in [phase : Nat, zone : Zone, off : 0..ZoneSize]
        /\ tool' \in [exist : BOOLEAN, recs : Seq(Nat)]
        /\ mem' \in Seq(Nat)
    BY <1>15 DEF Vanish, NoLog, NoTool, Zone
  <2> QED
    BY <1>15, <2>1, Zenon DEF Vanish, diskVars, TypeOK, RoomAndPhase
<1>16. CASE Exit
  BY <1>15, <1>16, Zenon DEF Exit, TypeOK
<1>17. CASE Crash
  BY <1>15, <1>17, ExternalType, Zenon DEF Crash
<1>18. CASE StartLoad
  <2>1. LoadAndReplay(diskHead) \in Seq(Nat)
    <3>1. replay(md[diskHead.md].recs, diskHead.redo, diskHead.phase) \in Seq(Nat)
      BY <1>h, ReplayType, Zenon DEF TypeOK
    <3>2. oppsite(diskHead.redo) \in Zone /\ diskHead.phase + 1 \in Nat \ {0}
      BY <1>h, oppsiteType
    <3> QED
      BY <3>1, <3>2, ReplayType DEF LoadAndReplay
  <2>2. md' \in [Zone -> [torn : BOOLEAN, recs : Seq(Nat)]]
    BY <1>18, <1>h, SaveTornType DEF StartLoad
  <2>3. head' \in HeadPage /\ head'.phase > 0
    <3>1. head' = [diskHead EXCEPT !.phase = diskHead.phase + 1]
      BY <1>18, Zenon DEF StartLoad
    <3>2. diskHead \in HeadPage
      BY DEF TypeOK
    <3> QED
      BY <3>1, <3>2 DEF HeadPage
  <2> QED
    BY <1>18, <2>1, <2>2, <2>3, ZenonT(30) DEF StartLoad, compactVars, TypeOK, RoomAndPhase
<1>19. CASE StartSaved
  <2>1. SaveHead(head, ZoneToSave(head), mem)
    BY <1>19, Zenon DEF StartSaved
  <2>2. /\ md' \in [Zone -> [torn : BOOLEAN, recs : Seq(Nat)]]
        /\ head' \in HeadPage /\ diskHead' = head' /\ head'.phase > 0
        /\ disturbed' \in BOOLEAN
    BY <2>1, <1>h, SaveHeadType DEF TypeOK
  <2>3. log' \in [phase : Nat, zone : Zone, off : 0..ZoneSize]
        /\ log'.phase > 0 /\ log'.off < ZoneSize
    BY <1>19, <2>2, SMTT(30) DEF StartSaved, set_log_phase, HeadPage
  <2> QED
    BY <1>19, <2>2, <2>3, Zenon DEF StartSaved, compactVars, TypeOK, RoomAndPhase
<1>20. CASE StartSaveError
  <2>1. disturbed' \in BOOLEAN
    BY <1>20, DisturbType DEF StartSaveError
  <2>2. log' \in [phase : Nat, zone : Zone, off : 0..ZoneSize]
        /\ log'.phase > 0 /\ log'.off < ZoneSize
    BY <1>20, <1>h DEF StartSaveError, set_log_phase
  <2> QED
    BY <1>20, <2>1, <2>2, ZenonT(30) DEF StartSaveError, diskVars, compactVars, TypeOK, RoomAndPhase
<1>21. CASE UNCHANGED vars
  BY <1>21, SMTT(30) DEF vars, TypeOK, RoomAndPhase
<1> QED
  BY <1>1, <1>2, <1>3, <1>4, <1>5, <1>6, <1>7, <1>8, <1>9, <1>10, <1>11, <1>12,
     <1>13, <1>14, <1>16, <1>17, <1>18, <1>19, <1>20, <1>21, <1>22, ZenonT(30)
  DEF Next, SsdThread, CompactionThread, Restart

\* The variables of the two threads and of the disk keep their types, whatever
\* happens: write_entry never leaves its zone and replay always comes to an end.
THEOREM TypeCorrect == Spec => []TypeOK
<1>1. Typed => TypeOK
  BY DEF Typed
<1> QED
  BY <1>1, InitTyped, NextTyped, PTL DEF Spec

-----------------------------------------------------------------------------
(* What replay makes of the two log zones.                                 *)

LEMMA FirstRecordsType ==
    ASSUME NEW n \in Nat
    PROVE  FirstRecords(n) \in Seq(Nat) /\ Len(FirstRecords(n)) = n
BY DEF FirstRecords

LEMMA FirstRecordsAppend ==
    ASSUME NEW n \in Nat
    PROVE  Append(FirstRecords(n), n + 1) = FirstRecords(n + 1)
<1> DEFINE s == FirstRecords(n)
           t == FirstRecords(n + 1)
<1>1. s \in Seq(Nat) /\ Len(s) = n /\ t \in Seq(Nat) /\ Len(t) = n + 1
  BY FirstRecordsType
<1>2. /\ \A i \in 1..n : s[i] = i
      /\ \A i \in 1..(n + 1) : t[i] = i
  BY DEF FirstRecords
<1> HIDE DEF s, t
<1>3. /\ Append(s, n + 1) \in Seq(Nat) /\ Len(Append(s, n + 1)) = n + 1
      /\ \A i \in 1..(n + 1) : Append(s, n + 1)[i] = t[i]
  BY <1>1, <1>2, SMTT(30)
<1>4. Append(s, n + 1) = t
  BY <1>1, <1>3, SeqEqual
<1> QED
  BY <1>4 DEF s, t

\* The run of items of phase ph at the start of zone z is n long and holds the
\* records after record r.
RunIs(z, ph, r, n) ==
    /\ \A i \in 1..n : ItemAt(z, i) = [phase |-> ph, rec |-> r + i]
    /\ ItemAt(z, n + 1).phase # ph

\* Replaying a zone whose first n items carry phase ph, and whose next item
\* does not, adds exactly those n records.
LEMMA ReplayOfRun ==
    ASSUME TypeOK, NEW z \in Zone, NEW ph \in Nat, NEW r \in Nat, NEW n \in 0..ZoneSize,
           RunIs(z, ph, r, n)
    PROVE  /\ RunLength(z, ph) = n
           /\ replay(FirstRecords(r), z, ph) = FirstRecords(r + n)
<1>1. RunLength(z, ph) = n
  BY RunLengthIs, ConstantsAssumption DEF RunIs
<1> DEFINE s == FirstRecords(r)
           u == [i \in 1..n |-> ItemAt(z, i).rec]
           t == FirstRecords(r + n)
<1>2. replay(s, z, ph) = s \o u
  BY <1>1 DEF replay
<1>3. /\ s \in Seq(Nat) /\ Len(s) = r
      /\ t \in Seq(Nat) /\ Len(t) = r + n
  BY FirstRecordsType, ConstantsAssumption
<1>4. /\ \A i \in 1..r : s[i] = i
      /\ \A i \in 1..(r + n) : t[i] = i
  BY ConstantsAssumption DEF FirstRecords
<1>5. \A i \in 1..n : ItemAt(z, i).rec = r + i
  BY DEF RunIs
<1>6. /\ u \in Seq(Nat) /\ Len(u) = n
      /\ \A i \in 1..n : u[i] = r + i
  BY <1>5, ConstantsAssumption
<1> HIDE DEF s, t, u
<1>7. /\ s \o u \in Seq(Nat) /\ Len(s \o u) = r + n
      /\ \A i \in 1..(r + n) : (s \o u)[i] = IF i <= r THEN s[i] ELSE u[i - r]
  BY <1>3, <1>6, ConcatProperties, ZenonT(30)
<1>8. \A i \in 1..(r + n) : (s \o u)[i] = t[i]
  <2> TAKE i \in 1..(r + n)
  <2>1. CASE i <= r
    BY <2>1, <1>4, <1>7, SMTT(30)
  <2>2. CASE ~(i <= r)
    <3>1. i - r \in 1..n /\ r + (i - r) = i
      BY <2>2, ConstantsAssumption
    <3> QED
      BY <3>1, <2>2, <1>4, <1>6, <1>7, Zenon
  <2> QED
    BY <2>1, <2>2, Zenon
<1>9. s \o u = t
  BY <1>3, <1>7, <1>8, SeqEqual, ZenonT(30)
<1> QED
  BY <1>1, <1>2, <1>9 DEF s, t

LEMMA ItemInZone ==
    ASSUME NEW z \in Zone, NEW i \in 1..ZoneSize
    PROVE  ItemAt(z, i) = logArea[Base(z) + i] /\ Base(z) + i \in 1..(2 * ZoneSize)
BY ConstantsAssumption DEF Zone, ItemAt, Base

\* The item behind a full zone is the first of the other zone, or one behind
\* the log area that was never written.
LEMMA ItemBehindZone ==
    ASSUME NEW z \in Zone
    PROVE  ItemAt(z, ZoneSize + 1) = IF z = 1 THEN ItemAt(oppsite(z), 1) ELSE EmptyItem
BY ConstantsAssumption, SMTT(30) DEF Zone, ItemAt, Base, oppsite

\* Where the records are split over the disk, both replays stop at the seams
\* and together rebuild all accepted records.
LEMMA DiskRecovers ==
    ASSUME Typed, NEW b \in 0..ZoneSize, NEW c \in 0..ZoneSize, DiskHolds(b, c)
    PROVE  LET a == Len(md[diskHead.md].recs)
           IN  /\ RunLength(diskHead.redo, diskHead.phase) = b
               /\ RunLength(oppsite(diskHead.redo), diskHead.phase + 1) = c
               /\ replay(FirstRecords(a), diskHead.redo, diskHead.phase) = FirstRecords(a + b)
               /\ replay(FirstRecords(a + b), oppsite(diskHead.redo), diskHead.phase + 1)
                     = FirstRecords(accepted)
               /\ LoadAndReplay(diskHead) = FirstRecords(accepted)
<1> DEFINE a == Len(md[diskHead.md].recs)
           p == diskHead.phase
           cz == diskHead.redo
           oz == oppsite(diskHead.redo)
<1>1. /\ p \in Nat \ {0} /\ cz \in Zone /\ oz \in Zone /\ a \in Nat
      /\ oppsite(oz) = cz /\ TypeOK
  <2>1. diskHead \in HeadPage /\ diskHead.phase > 0
        /\ md \in [Zone -> [torn : BOOLEAN, recs : Seq(Nat)]]
    BY ZenonT(30) DEF Typed, TypeOK, RoomAndPhase
  <2> QED
    BY <2>1, oppsiteType, SMTT(30) DEF HeadPage, Typed
<1>2. /\ md[diskHead.md].recs = FirstRecords(a)
      /\ ZoneHolds(logArea, p, cz, p, a, b) /\ ZoneHolds(logArea, p, oz, p + 1, a + b, c)
      /\ accepted = a + b + c
  BY DEF DiskHolds
<1>3. /\ \A i \in 1..ZoneSize : IF i <= b THEN ItemAt(cz, i) = [phase |-> p, rec |-> a + i]
                                           ELSE ItemAt(cz, i).phase < p
      /\ \A i \in 1..ZoneSize : IF i <= c THEN ItemAt(oz, i) = [phase |-> p + 1, rec |-> a + b + i]
                                           ELSE ItemAt(oz, i).phase < p
  BY <1>1, <1>2, ItemInZone, Zenon DEF ZoneHolds
<1> HIDE DEF a, p, cz, oz
<1>4. ItemAt(cz, 1).phase # p + 1 /\ ItemAt(oz, 1).phase # p
  <2>1. 1 \in 1..ZoneSize
    BY ConstantsAssumption
  <2>2. ItemAt(cz, 1).phase = p \/ ItemAt(cz, 1).phase < p
    BY <2>1, <1>3, SMTT(30)
  <2>3. ItemAt(oz, 1).phase = p + 1 \/ ItemAt(oz, 1).phase < p
    BY <2>1, <1>3
  <2>4. ItemAt(cz, 1).phase \in Nat /\ ItemAt(oz, 1).phase \in Nat
    BY <1>1, ItemType
  <2> QED
    BY <2>2, <2>3, <2>4, <1>1
<1>5. /\ RunLength(cz, p) = b
      /\ replay(FirstRecords(a), cz, p) = FirstRecords(a + b)
  <2>1. \A i \in 1..b : ItemAt(cz, i) = [phase |-> p, rec |-> a + i]
    BY <1>3, ConstantsAssumption
  <2>2. ItemAt(cz, b + 1).phase # p
    <3>1. CASE b = ZoneSize
      BY <3>1, <1>1, <1>4, ItemBehindZone, SMTT(30) DEF EmptyItem, oz, cz
    <3>2. CASE b # ZoneSize
      <4>1. b + 1 \in 1..ZoneSize /\ ~(b + 1 <= b)
        BY <3>2, ConstantsAssumption
      <4>2. ItemAt(cz, b + 1).phase < p /\ ItemAt(cz, b + 1).phase \in Nat
        BY <4>1, <1>1, <1>3, ItemType
      <4> QED
        BY <4>2, <1>1
    <3> QED
      BY <3>1, <3>2
  <2>3. RunIs(cz, p, a, b)
    BY <2>1, <2>2, Zenon DEF RunIs
  <2> QED
    BY <1>1, <2>3, ReplayOfRun
<1>6. /\ RunLength(oz, p + 1) = c
      /\ replay(FirstRecords(a + b), oz, p + 1) = FirstRecords(a + b + c)
  <2>1. \A i \in 1..c : ItemAt(oz, i) = [phase |-> p + 1, rec |-> a + b + i]
    BY <1>3, ConstantsAssumption, SMTT(30)
  <2>2. ItemAt(oz, c + 1).phase # p + 1
    <3>1. CASE c = ZoneSize
      BY <3>1, <1>1, <1>4, ItemBehindZone DEF EmptyItem
    <3>2. CASE c # ZoneSize
      <4>1. c + 1 \in 1..ZoneSize /\ ~(c + 1 <= c)
        BY <3>2, ConstantsAssumption
      <4>2. ItemAt(oz, c + 1).phase < p /\ ItemAt(oz, c + 1).phase \in Nat
        BY <4>1, <1>1, <1>3, ItemType
      <4> QED
        BY <4>2, <1>1
    <3> QED
      BY <3>1, <3>2
  <2>3. a + b \in Nat /\ p + 1 \in Nat
    BY <1>1, ConstantsAssumption, SMTT(30)
  <2>4. RunIs(oz, p + 1, a + b, c)
    BY <2>1, <2>2, ZenonT(30) DEF RunIs
  <2> QED
    BY <1>1, <2>3, <2>4, ReplayOfRun, Zenon
<1>7. LoadAndReplay(diskHead) = FirstRecords(accepted)
  BY <1>2, <1>5, <1>6 DEF LoadAndReplay, a, p, cz, oz
<1> QED
  BY <1>2, <1>5, <1>6, <1>7, Zenon DEF a, p, cz, oz

-----------------------------------------------------------------------------
(* Steps of the disk, while nothing disturbs the protocol.                 *)

LEMMA Heads ==
    ASSUME Typed
    PROVE  /\ diskHead \in HeadPage /\ head \in HeadPage
           /\ diskHead.phase \in Nat \ {0} /\ diskHead.md \in Zone
           /\ diskHead.redo \in Zone /\ oppsite(diskHead.redo) \in Zone
           /\ oppsite(diskHead.redo) # diskHead.redo
           /\ oppsite(oppsite(diskHead.redo)) = diskHead.redo
           /\ oppsite(diskHead.md) \in Zone /\ oppsite(diskHead.md) # diskHead.md
           /\ md[diskHead.md].recs \in Seq(Nat)
           /\ Len(md[diskHead.md].recs) \in Nat
<1>1. /\ diskHead \in HeadPage /\ head \in HeadPage /\ diskHead.phase > 0
      /\ md \in [Zone -> [torn : BOOLEAN, recs : Seq(Nat)]]
  BY DEF Typed, TypeOK, RoomAndPhase
<1> QED
  BY <1>1, oppsiteType, SMTT(30) DEF HeadPage

LEMMA DisturbQuiet ==
    ASSUME TypeOK, NEW kinds, Disturb(kinds), ~disturbed'
    PROVE  ~disturbed /\ kinds = {}
BY Zenon DEF Disturb, TypeOK

LEMMA SaveHeadQuiet ==
    ASSUME TypeOK, NEW h, NEW zone \in Zone, NEW recs, SaveHead(h, zone, recs), ~disturbed'
    PROVE  /\ ~disturbed
           /\ md'[zone] = [torn |-> FALSE, recs |-> recs]
           /\ diskHead' = [phase |-> h.phase + 1, md |-> zone, redo |-> oppsite(h.redo)]
           /\ head' = diskHead'
<1>1. PICK torn \in BOOLEAN :
          /\ Disturb({x \in {"flush_error"} : torn})
          /\ md' = [md EXCEPT ![zone] = [torn |-> torn, recs |-> recs]]
  BY ZenonT(30) DEF SaveHead
<1>2. ~disturbed /\ {x \in {"flush_error"} : torn} = {}
  BY <1>1, DisturbQuiet
<1>3. torn = FALSE
  BY <1>2
<1>4. md'[zone] = [torn |-> FALSE, recs |-> recs]
  BY <1>1, <1>3, Zenon DEF TypeOK
<1> QED
  BY <1>2, <1>4 DEF SaveHead, HeadAfterSave

\* Overwriting the other metadata zone leaves the current one alone.
LEMMA SaveTornOther ==
    ASSUME Typed, NEW h, h.md = diskHead.md, SaveTorn(ZoneToSave(h))
    PROVE  md'[diskHead.md] = md[diskHead.md]
BY Heads, ZenonT(30) DEF SaveTorn, ZoneToSave, Typed, TypeOK

\* A step that touches neither log zones, head page nor the current metadata
\* zone leaves the records where they are.
LEMMA DiskKept ==
    ASSUME NEW b, NEW c, DiskHolds(b, c), logArea' = logArea, diskHead' = diskHead,
           accepted' = accepted, md'[diskHead.md] = md[diskHead.md]
    PROVE  DiskHolds(b, c)'
BY DEF DiskHolds, ZoneHolds

\* All items of a zone count as old once the head page carries a phase above
\* the one they were written under.
LEMMA ZoneAges ==
    ASSUME NEW la \in [1..(2 * ZoneSize) -> [phase : Nat, rec : Nat]],
           NEW z \in Zone, NEW ph \in Nat, NEW r, NEW n \in 0..ZoneSize, NEW cur \in Nat, NEW new \in Nat,
           ZoneHolds(la, cur, z, ph, r, n), ph < new, cur <= new, NEW ph2, NEW r2
    PROVE  ZoneHolds(la, new, z, ph2, r2, 0)
<1> SUFFICES ASSUME NEW i \in 1..ZoneSize
             PROVE  ~(i <= 0) /\ la[Base(z) + i].phase < new
  BY DEF ZoneHolds
<1>1. Base(z) + i \in 1..(2 * ZoneSize)
  BY ConstantsAssumption DEF Base
<1>2. la[Base(z) + i].phase \in Nat
  BY <1>1
<1>3. la[Base(z) + i].phase = ph \/ la[Base(z) + i].phase < cur
  <2>1. CASE i <= n
    <3>1. la[Base(z) + i] = [phase |-> ph, rec |-> r + i]
      BY <2>1 DEF ZoneHolds
    <3> QED
      BY <3>1
  <2>2. CASE ~(i <= n)
    BY <2>2, Zenon DEF ZoneHolds
  <2> QED
    BY <2>1, <2>2
<1> QED
  BY <1>2, <1>3, ConstantsAssumption, SMTT(30)

\* A zone stays as it is when only the current phase moves on.
LEMMA ZoneKept ==
    ASSUME NEW la \in [1..(2 * ZoneSize) -> [phase : Nat, rec : Nat]],
           NEW z \in Zone, NEW ph, NEW r, NEW n \in 0..ZoneSize, NEW cur \in Nat, NEW new \in Nat,
           ZoneHolds(la, cur, z, ph, r, n), cur <= new
    PROVE  ZoneHolds(la, new, z, ph, r, n)
<1> SUFFICES ASSUME NEW i \in 1..ZoneSize, ~(i <= n)
             PROVE  la[Base(z) + i].phase < new
  BY DEF ZoneHolds
<1>1. Base(z) + i \in 1..(2 * ZoneSize)
  BY ConstantsAssumption DEF Base
<1>2. la[Base(z) + i].phase \in Nat /\ la[Base(z) + i].phase < cur
  BY <1>1, Zenon DEF ZoneHolds
<1> QED
  BY <1>2, SMTT(30)

\* Saving all records under a phase above every phase in the log empties both
\* zones: a start, and a stop that finds no compaction outstanding.
LEMMA DiskAllSaved ==
    ASSUME Typed, NEW b \in 0..ZoneSize, NEW c \in 0..ZoneSize, DiskHolds(b, c),
           diskHead'.phase \in Nat, diskHead.phase < diskHead'.phase,
           diskHead.phase + 1 < diskHead'.phase \/ c = 0,
           diskHead'.redo = oppsite(diskHead.redo),
           md'[diskHead'.md] = [torn |-> FALSE, recs |-> FirstRecords(accepted)],
           logArea' = logArea, accepted' = accepted
    PROVE  DiskHolds(0, 0)'
<1> DEFINE a == Len(md[diskHead.md].recs)
           p == diskHead.phase
           q == diskHead'.phase
           cz == diskHead.redo
           oz == oppsite(diskHead.redo)
<1>1. /\ ZoneHolds(logArea, p, cz, p, a, b)
      /\ ZoneHolds(logArea, p, oz, p + 1, a + b, c)
  BY Zenon DEF DiskHolds
<1>2. accepted \in Nat /\ Len(FirstRecords(accepted)) = accepted
  BY FirstRecordsType, Zenon DEF Typed, TypeOK
<1>3. logArea \in [1..(2 * ZoneSize) -> [phase : Nat, rec : Nat]]
  BY Zenon DEF Typed, TypeOK
<1>4. p \in Nat /\ p + 1 \in Nat /\ p <= q /\ cz \in Zone /\ oz \in Zone
  BY Heads, SMTT(30)
<1>5. oppsite(diskHead'.redo) = cz /\ diskHead'.redo = oz
  BY Heads, Zenon
<1> HIDE DEF a, p, q, cz, oz
<1>6. ZoneHolds(logArea, q, cz, q + 1, accepted + 0, 0)
  BY <1>1, <1>3, <1>4, ZoneAges, Zenon DEF p, q
<1>7. ZoneHolds(logArea, q, oz, q, accepted, 0)
  <2>1. CASE p + 1 < q
    BY <1>1, <1>3, <1>4, <2>1, ZoneAges, ZenonT(30) DEF q
  <2>2. CASE c = 0
    <3>1. ZoneHolds(logArea, p, oz, p, a + b, c)
      <4>1. \A i \in 1..ZoneSize : ~(i <= c)
        BY <2>2, ConstantsAssumption
      <4> QED
        BY <1>1, <4>1, Zenon DEF ZoneHolds
    <3> QED
      BY <3>1, <1>3, <1>4, ZoneAges, Zenon DEF p, q
  <2> QED
    BY <2>1, <2>2, ZenonT(30) DEF p, q
<1>8. Len(md'[diskHead'.md].recs) = accepted
  BY <1>2, SMTT(30)
<1>9. accepted' = accepted + 0 + 0
  BY <1>2, SMTT(30)
<1>10. /\ ZoneHolds(logArea', diskHead'.phase, diskHead'.redo, diskHead'.phase, accepted, 0)
       /\ ZoneHolds(logArea', diskHead'.phase, oppsite(diskHead'.redo), diskHead'.phase + 1, accepted + 0, 0)
  BY <1>5, <1>6, <1>7, Zenon DEF q
<1> QED
  BY <1>8, <1>9, <1>10, ZenonT(30) DEF DiskHolds, oppsite

\* Saving metadata plus current zone makes the opposite zone the current one,
\* with the same items, and the current one empty: a compaction.
LEMMA DiskCompacted ==
    ASSUME Typed, NEW b \in 0..ZoneSize, NEW c \in 0..ZoneSize, DiskHolds(b, c),
           diskHead'.phase = diskHead.phase + 1,
           diskHead'.redo = oppsite(diskHead.redo),
           md'[diskHead'.md] = [torn |-> FALSE,
                                recs |-> FirstRecords(Len(md[diskHead.md].recs) + b)],
           logArea' = logArea, accepted' = accepted
    PROVE  DiskHolds(c, 0)'
<1> DEFINE a == Len(md[diskHead.md].recs)
           p == diskHead.phase
           cz == diskHead.redo
           oz == oppsite(diskHead.redo)
<1>1. /\ ZoneHolds(logArea, p, cz, p, a, b)
      /\ ZoneHolds(logArea, p, oz, p + 1, a + b, c)
      /\ accepted = a + b + c
  BY Zenon DEF DiskHolds
<1>2. a + b \in Nat /\ Len(FirstRecords(a + b)) = a + b
  <2>1. a \in Nat
    BY Heads, ZenonT(30)
  <2> HIDE DEF a
  <2>2. a + b \in Nat
    BY <2>1, ConstantsAssumption
  <2> QED
    BY <2>2, FirstRecordsType, ZenonT(30)
<1>3. logArea \in [1..(2 * ZoneSize) -> [phase : Nat, rec : Nat]]
  BY DEF Typed, TypeOK
<1>4. p \in Nat /\ p + 1 \in Nat /\ p < p + 1 /\ p <= p + 1 /\ cz \in Zone /\ oz \in Zone
  BY Heads
<1>5. oppsite(diskHead'.redo) = cz /\ diskHead'.redo = oz /\ diskHead'.phase = p + 1
  BY Heads, Zenon
<1>6. md'[diskHead'.md] = [torn |-> FALSE, recs |-> FirstRecords(a + b)]
  OBVIOUS
<1> HIDE DEF a, p, cz, oz
<1>7. ZoneHolds(logArea, p + 1, cz, p + 1 + 1, a + b + c, 0)
  BY <1>1, <1>3, <1>4, ZoneAges, ZenonT(30)
<1>8. ZoneHolds(logArea, p + 1, oz, p + 1, a + b, c)
  BY <1>1, <1>3, <1>4, ZoneKept, Zenon
<1>9. accepted' = (a + b) + c + 0
  BY <1>1, <1>2, ConstantsAssumption, SMTT(30)
<1>10. Len(md'[diskHead'.md].recs) = a + b
  BY <1>2, <1>6, SMTT(30)
<1>11. /\ ZoneHolds(logArea', diskHead'.phase, diskHead'.redo, diskHead'.phase, a + b, c)
       /\ ZoneHolds(logArea', diskHead'.phase, oppsite(diskHead'.redo), diskHead'.phase + 1, a + b + c, 0)
  BY <1>5, <1>7, <1>8, Zenon
<1> QED
  BY <1>6, <1>9, <1>10, <1>11, Zenon DEF DiskHolds, oppsite

\* lb is la with record r + n + 1 written as item n + 1 of zone z.
ItemWritten(la, lb, z, ph, r, n) ==
    /\ la \in [1..(2 * ZoneSize) -> [phase : Nat, rec : Nat]]
    /\ lb = [la EXCEPT ![Base(z) + n + 1] = [phase |-> ph, rec |-> r + (n + 1)]]

\* Writing the item behind the last one of a zone makes its run one longer.
LEMMA ZoneExtended ==
    ASSUME NEW la, NEW lb, NEW z \in Zone, NEW ph, NEW r \in Nat,
           NEW n \in 0..(ZoneSize - 1), NEW cur,
           ItemWritten(la, lb, z, ph, r, n), ZoneHolds(la, cur, z, ph, r, n)
    PROVE  ZoneHolds(lb, cur, z, ph, r, n + 1)
<1>1. \A i \in 1..ZoneSize : /\ Base(z) + i \in 1..(2 * ZoneSize)
                              /\ Base(z) + i = Base(z) + n + 1 <=> i = n + 1
  BY ConstantsAssumption, SMTT(30) DEF Base
<1>2. \A i \in 1..ZoneSize :
          lb[Base(z) + i] = IF i = n + 1 THEN [phase |-> ph, rec |-> r + (n + 1)]
                                         ELSE la[Base(z) + i]
  BY <1>1, SMTT(30) DEF ItemWritten
<1> SUFFICES ASSUME NEW i \in 1..ZoneSize
             PROVE  IF i <= n + 1 THEN lb[Base(z) + i] = [phase |-> ph, rec |-> r + i]
                                  ELSE lb[Base(z) + i].phase < cur
  BY Zenon DEF ZoneHolds
<1>3. CASE i = n + 1
  BY <1>3, <1>2, ConstantsAssumption, SMTT(30)
<1>4. CASE i # n + 1
  <2>1. (i <= n + 1) <=> (i <= n)
    BY <1>4, ConstantsAssumption, SMTT(30)
  <2> QED
    BY <1>4, <2>1, <1>2, Zenon DEF ZoneHolds
<1> QED
  BY <1>3, <1>4

\* It touches no item of the other zone.
LEMMA OtherZoneKept ==
    ASSUME NEW la, NEW lb, NEW z \in Zone, NEW ph, NEW r, NEW n \in 0..(ZoneSize - 1),
           ItemWritten(la, lb, z, ph, r, n), NEW y \in Zone, y # z,
           NEW cur, NEW ph2, NEW r2, NEW m, ZoneHolds(la, cur, y, ph2, r2, m)
    PROVE  ZoneHolds(lb, cur, y, ph2, r2, m)
<1>1. \A i \in 1..ZoneSize : /\ Base(y) + i \in 1..(2 * ZoneSize)
                              /\ Base(y) + i # Base(z) + n + 1
  BY ConstantsAssumption, SMTT(30) DEF Base, Zone
<1>2. \A i \in 1..ZoneSize : lb[Base(y) + i] = la[Base(y) + i]
  BY <1>1 DEF ItemWritten
<1> QED
  BY <1>2 DEF ZoneHolds

LEMMA DisturbedStays ==
    ASSUME TypeOK, [Next]_vars, disturbed
    PROVE  disturbed'
<1>1. CASE WriteEntry
  BY <1>1, DisturbType, Zenon DEF WriteEntry
<1>11. CASE WriteEntryFails
  BY <1>11, DisturbType, Zenon DEF WriteEntryFails
<1>2. CASE TriggerTodo
  BY <1>2, DisturbType DEF TriggerTodo
<1>3. CASE TriggerAfterError
  BY <1>3, DisturbType, Zenon DEF TriggerAfterError
<1>4. ASSUME NEW h, NEW zone, NEW recs, SaveHead(h, zone, recs) PROVE disturbed'
  <2>1. PICK torn \in BOOLEAN : Disturb({x \in {"flush_error"} : torn})
    BY <1>4, Zenon DEF SaveHead
  <2> QED
    BY <2>1, DisturbType
<1>5. CASE TriggerAfterErrorSaved \/ CompactSave \/ StopSaved \/ StartSaved
  BY <1>4, <1>5, Zenon DEF TriggerAfterErrorSaved, CompactSave, StopSaved, StartSaved
<1>6. CASE StartSaveError
  BY <1>6, DisturbType DEF StartSaveError
<1>7. CASE Stop
  BY <1>7, DisturbType DEF Stop
<1>8. CASE EventSaveMd \/ RestSaveMd \/ AutoSaveTimeout \/ CompactLoad \/ CompactReplay
           \/ CompactError \/ StopSaveError \/ StartLoad
  BY <1>8, Zenon DEF EventSaveMd, RestSaveMd, AutoSaveTimeout, CompactLoad, CompactReplay,
              CompactError, StopSaveError, StartLoad
<1>9. CASE Exit \/ Crash
  BY <1>9, Zenon DEF Exit, Crash, Vanish
<1>10. CASE UNCHANGED vars
  BY <1>10, Zenon DEF vars
<1> QED
  BY <1>1, <1>2, <1>3, <1>5, <1>6, <1>7, <1>8, <1>9, <1>10, <1>11, ZenonT(30)
  DEF Next, SsdThread, CompactionThread, Restart

-----------------------------------------------------------------------------
(* The inductive invariant.                                                *)

LEMMA InitPartitioned == Init => RecordsPartitioned
<1> SUFFICES ASSUME Init PROVE RecordsPartitioned
  OBVIOUS
<1>1. Typed /\ RoomAndPhase
  BY InitTyped DEF Typed
<1>2. FirstRecords(0) = <<>> /\ Len(FirstRecords(0)) = 0
  BY FirstRecordsType, EmptySeq, Zenon DEF FirstRecords
<1>3. ThreadsAgree
  BY <1>2, Zenon DEF Init, ThreadsAgree
<1>4. md[diskHead.md] = [torn |-> FALSE, recs |-> <<>>]
  BY ZenonT(30) DEF Init, Zone
<1>5. \A z \in Zone, ph \in Nat, r \in Nat : ZoneHolds(logArea, 1, z, ph, r, 0)
  <2> TAKE z \in Zone, ph \in Nat, r \in Nat
  <2> SUFFICES ASSUME NEW i \in 1..ZoneSize
               PROVE  ~(i <= 0) /\ logArea[Base(z) + i].phase < 1
    BY DEF ZoneHolds
  <2>1. Base(z) + i \in 1..(2 * ZoneSize)
    BY ConstantsAssumption, SMTT(30) DEF Base
  <2> QED
    BY <2>1, ConstantsAssumption, SMTT(30) DEF Init, EmptyItem
<1>6. DiskHolds(0, 0)
  <2>1. diskHead.phase = 1 /\ diskHead.redo \in Zone /\ oppsite(diskHead.redo) \in Zone
    BY SMTT(30) DEF Init, Zone, oppsite
  <2>2. accepted = 0 + 0 + 0 /\ Len(<<>>) = 0
    BY DEF Init
  <2>3. Len(md[diskHead.md].recs) = 0
    BY <1>4, <2>2
  <2>4. /\ ZoneHolds(logArea, 1, diskHead.redo, 1, 0, 0)
        /\ ZoneHolds(logArea, 1, oppsite(diskHead.redo), 1 + 1, 0 + 0, 0)
    BY <1>5, <2>1, SMTT(30)
  <2> QED
    BY <1>2, <1>4, <2>1, <2>2, <2>3, <2>4, ZenonT(30) DEF DiskHolds
<1>7. LogFollows(0, 0) /\ ToolFollows(0)
  BY DEF Init, LogFollows, ToolFollows, NoTool
<1>8. 0 \in 0..ZoneSize
  BY ConstantsAssumption, SMTT(30)
<1> QED
  BY <1>1, <1>3, <1>6, <1>7, <1>8, Zenon DEF RecordsPartitioned, Seams

\* The invariant survives every step: one case per action.  A case that writes
\* to the disk names the new seams b and c; one that does not keeps them.
LEMMA NextPartitioned ==
    Typed /\ RecordsPartitioned /\ [Next]_vars => RecordsPartitioned'
<1> SUFFICES ASSUME Typed, RecordsPartitioned, [Next]_vars, ~disturbed'
             PROVE  ThreadsAgree' /\ \E b, c \in 0..ZoneSize : Seams(b, c)'
  BY NextTyped DEF Typed, RecordsPartitioned
<1>a. ~disturbed /\ TypeOK
  BY DisturbedStays DEF Typed
<1>b. ThreadsAgree
  BY <1>a DEF RecordsPartitioned
<1>c. PICK b \in 0..ZoneSize, c \in 0..ZoneSize : Seams(b, c)
  BY <1>a DEF RecordsPartitioned
<1>d. DiskHolds(b, c)
  BY <1>c DEF Seams
<1>e. 0 \in 0..ZoneSize
  BY ConstantsAssumption, SMTT(30)
<1>f. UNCHANGED diskVars /\ accepted' = accepted => DiskHolds(b, c)'
  BY <1>d, DiskKept, ZenonT(30) DEF diskVars
<1>g. \A h : h.md = diskHead.md /\ SaveTorn(ZoneToSave(h)) /\ UNCHANGED <<logArea, diskHead, accepted>>
        => DiskHolds(b, c)' /\ md'[diskHead.md] = md[diskHead.md]
  BY <1>d, DiskKept, SaveTornOther, Zenon
<1>1. CASE WriteEntry
  <2> DEFINE a == Len(md[diskHead.md].recs)
             p == diskHead.phase
             cz == diskHead.redo
             oz == oppsite(diskHead.redo)
  <2>1. pc = "idle" /\ ~stopping /\ head = diskHead /\ mem = FirstRecords(accepted)
    <3>1. {x \in {"busy_stop"} : stopping} = {}
      BY <1>1, <1>a, DisturbQuiet, ZenonT(30) DEF WriteEntry
    <3> QED
      BY <1>1, <1>b, <3>1 DEF WriteEntry, ThreadsAgree
  <2>2. LogFollows(b, c) /\ ToolFollows(b) /\ log.off < ZoneSize
    BY <1>c, <2>1, ZenonT(30) DEF Seams, Typed, RoomAndPhase
  <2>3. /\ md[diskHead.md] = [torn |-> FALSE, recs |-> FirstRecords(a)]
        /\ ZoneHolds(logArea, p, cz, p, a, b)
        /\ ZoneHolds(logArea, p, oz, p + 1, a + b, c)
        /\ accepted = a + b + c
    BY <1>d, ZenonT(30) DEF DiskHolds
  <2>4. /\ logArea \in [1..(2 * ZoneSize) -> [phase : Nat, rec : Nat]]
        /\ cz \in Zone /\ oz \in Zone /\ cz # oz /\ oz # cz
        /\ a \in Nat /\ p \in Nat /\ accepted \in Nat /\ a + b \in Nat
    <3>1. logArea \in [1..(2 * ZoneSize) -> [phase : Nat, rec : Nat]] /\ accepted \in Nat
      BY <1>a, ZenonT(30) DEF TypeOK
    <3>2. cz \in Zone /\ oz \in Zone /\ cz # oz /\ a \in Nat /\ p \in Nat
      BY Heads
    <3> QED
      BY <3>1, <3>2, ConstantsAssumption, SMTT(30)
  <2>5. /\ md' = md /\ diskHead' = diskHead /\ accepted' = accepted + 1
        /\ log' = [log EXCEPT !.off = @ + 1]
        /\ logArea' = [logArea EXCEPT ![Base(log.zone) + log.off + 1] =
                          [phase |-> log.phase, rec |-> accepted + 1]]
        /\ cstate' = cstate /\ cpc' = cpc /\ tool' = tool
        /\ stopping' = stopping /\ head' = head /\ pc' \in {"idle", "trigger"}
        /\ mem' = Append(mem, accepted + 1)
    BY <1>1 DEF WriteEntry, compactVars
  <2>6. mem' = FirstRecords(accepted')
    BY <2>1, <2>4, <2>5, FirstRecordsAppend, ZenonT(30)
  <2>7. ThreadsAgree'
    BY <1>b, <2>1, <2>5, <2>6, ZenonT(30) DEF ThreadsAgree
  <2>8. CASE cstate = "IDLE"
    <3>1. log = [phase |-> p, zone |-> cz, off |-> b] /\ c = 0 /\ b \in 0..(ZoneSize - 1)
      BY <2>2, <2>8, ConstantsAssumption, SMTT(30) DEF LogFollows
    <3>2. accepted + 1 = a + (b + 1)
      <4> HIDE DEF a, p, cz, oz
      <4>1. a \in Nat /\ c = 0 /\ b \in Nat
        BY <2>4, <3>1
      <4>2. accepted = a + b + c
        BY <2>3, Zenon
      <4> QED
        BY <4>1, <4>2
    <3>3. logArea' = [logArea EXCEPT ![Base(cz) + b + 1] = [phase |-> p, rec |-> a + (b + 1)]]
      BY <2>5, <3>1, <3>2, ZenonT(30)
    <3>4. /\ ZoneHolds(logArea', p, cz, p, a, b + 1)
          /\ ZoneHolds(logArea', p, oz, p + 1, a + b, 0)
      <4> HIDE DEF a, p, cz, oz
      <4>1. ItemWritten(logArea, logArea', cz, p, a, b)
        BY <2>4, <3>3, Zenon DEF ItemWritten
      <4>2. ZoneHolds(logArea', p, cz, p, a, b + 1)
        BY <2>3, <2>4, <3>1, <4>1, ZoneExtended, ZenonT(30)
      <4>3. ZoneHolds(logArea', p, oz, p + 1, a + b, c)
        BY <2>3, <2>4, <3>1, <4>1, OtherZoneKept, Zenon
      <4> QED
        BY <3>1, <4>2, <4>3
    <3>5. ZoneHolds(logArea', p, oz, p + 1, a + (b + 1), 0)
      <4>1. \A i \in 1..ZoneSize : ~(i <= 0)
        BY ConstantsAssumption
      <4> QED
        BY <3>4, <4>1, ZenonT(30) DEF ZoneHolds
    <3>6. b + 1 \in 0..ZoneSize /\ accepted' = a + (b + 1) + 0
      <4> HIDE DEF a
      <4> QED
        BY <2>4, <2>5, <3>1, <3>2, ConstantsAssumption, SMTT(30)
    <3>7. DiskHolds(b + 1, 0)'
      BY <2>3, <2>5, <3>4, <3>5, <3>6 DEF DiskHolds, oppsite
    <3>8. LogFollows(b + 1, 0)'
      BY <2>5, <2>8, <3>1 DEF LogFollows
    <3>9. ToolFollows(b + 1)'
      BY <1>b, <2>2, <2>5, <2>8, ZenonT(30) DEF ToolFollows, ThreadsAgree
    <3> QED
      BY <1>e, <2>7, <3>6, <3>7, <3>8, <3>9, ZenonT(30) DEF Seams
  <2>9. CASE cstate # "IDLE"
    <3>1. cstate # "STOP"
      BY <1>b, <2>1, ZenonT(30) DEF ThreadsAgree
    <3>2. log = [phase |-> p + 1, zone |-> oz, off |-> c] /\ c \in 0..(ZoneSize - 1)
      BY <2>2, <2>9, <3>1, ConstantsAssumption, SMTT(30) DEF LogFollows
    <3>3. accepted + 1 = (a + b) + (c + 1)
      <4> HIDE DEF a
      <4> QED
        BY <2>3, <2>4, <3>2, ConstantsAssumption
    <3>4. logArea' = [logArea EXCEPT ![Base(oz) + c + 1] = [phase |-> p + 1, rec |-> (a + b) + (c + 1)]]
      BY <2>5, <3>2, <3>3, ZenonT(30)
    <3>5. /\ ZoneHolds(logArea', p, oz, p + 1, a + b, c + 1)
          /\ ZoneHolds(logArea', p, cz, p, a, b)
      <4> HIDE DEF a, p, cz, oz
      <4>1. ItemWritten(logArea, logArea', oz, p + 1, a + b, c)
        BY <2>4, <3>4, ZenonT(30) DEF ItemWritten
      <4>2. ZoneHolds(logArea', p, oz, p + 1, a + b, c + 1)
        BY <2>3, <2>4, <3>2, <4>1, ZoneExtended, ZenonT(30)
      <4>3. ZoneHolds(logArea', p, cz, p, a, b)
        BY <2>3, <2>4, <3>2, <4>1, OtherZoneKept, Zenon
      <4> QED
        BY <4>2, <4>3, Zenon
    <3>6. c + 1 \in 0..ZoneSize /\ accepted' = a + b + (c + 1)
      <4>1. c + 1 \in 0..ZoneSize
        BY <3>2, ConstantsAssumption, SMTT(30)
      <4> QED
        BY <2>5, <3>3, <4>1, ZenonT(30)
    <3>7. DiskHolds(b, c + 1)'
      BY <2>3, <2>5, <3>5, <3>6, Zenon DEF DiskHolds, oppsite
    <3>8. LogFollows(b, c + 1)' /\ ToolFollows(b)'
      BY <2>2, <2>5, <2>9, <3>1, <3>2, Zenon DEF LogFollows, ToolFollows
    <3> QED
      BY <2>7, <3>6, <3>7, <3>8, ZenonT(30) DEF Seams
  <2> QED
    BY <2>8, <2>9
<1>2. CASE EventSaveMd
  <2>1. ThreadsAgree'
    BY <1>2, <1>b, ZenonT(30) DEF EventSaveMd, diskVars, compactVars, ThreadsAgree
  <2>2. Seams(b, c)'
    BY <1>2, <1>c, <1>f DEF EventSaveMd, diskVars, compactVars, Seams, LogFollows, ToolFollows
  <2> QED
    BY <2>1, <2>2
<1>3. CASE RestSaveMd
  <2>1. ThreadsAgree'
    BY <1>3, <1>b, ZenonT(30) DEF RestSaveMd, diskVars, compactVars, ThreadsAgree
  <2>2. Seams(b, c)'
    BY <1>3, <1>c, <1>f DEF RestSaveMd, diskVars, compactVars, Seams, LogFollows, ToolFollows
  <2> QED
    BY <2>1, <2>2
<1>4. CASE TriggerTodo
  <2>1. cstate # "TODO" /\ ~stopping
    <3>1. {x \in {"late_compaction"} : cstate = "TODO"} \union {x \in {"busy_stop"} : stopping} = {}
      BY <1>4, <1>a, DisturbQuiet, ZenonT(30) DEF TriggerTodo
    <3> QED
      BY <3>1
  <2>2. cstate = "IDLE" /\ cpc = "wait" /\ pc = "trigger" /\ head = diskHead
    BY <1>4, <1>a, <1>b, <2>1, ZenonT(30) DEF TriggerTodo, ThreadsAgree, TypeOK
  <2>3. LogFollows(b, c) /\ c = 0 /\ ToolFollows(b)
    <3>1. LogFollows(b, c) /\ ToolFollows(b)
      BY <1>c, <2>1, <2>2, Zenon DEF Seams
    <3> QED
      BY <2>2, <3>1, Zenon DEF LogFollows
  <2>4. log' = [phase |-> diskHead.phase + 1, zone |-> oppsite(diskHead.redo), off |-> 0]
    BY <1>4, <2>2 DEF TriggerTodo, set_log_phase, NextPhase
  <2>5. ThreadsAgree'
    BY <1>4, <1>b, <2>1, <2>2, ZenonT(30) DEF TriggerTodo, diskVars, ThreadsAgree
  <2>6. LogFollows(b, c)' /\ ToolFollows(b)'
    <3>1. /\ md' = md /\ diskHead' = diskHead /\ cpc' = cpc /\ tool' = tool
          /\ cstate' \notin {"IDLE", "STOP"}
      BY <1>4 DEF TriggerTodo, diskVars
    <3>2. LogFollows(b, c)'
      BY <2>3, <2>4, <3>1, Zenon DEF LogFollows
    <3> QED
      BY <2>3, <3>1, <3>2, Zenon DEF ToolFollows
  <2>7. DiskHolds(b, c)'
    BY <1>4, <1>f DEF TriggerTodo
  <2> QED
    BY <2>5, <2>6, <2>7 DEF Seams
<1>5. CASE TriggerAfterError
  BY <1>5, <1>a, DisturbQuiet DEF TriggerAfterError
<1>6. CASE TriggerAfterErrorSaved
  BY <1>6, <1>b, ZenonT(30) DEF TriggerAfterErrorSaved, ThreadsAgree
<1>7. CASE AutoSaveTimeout
  <2>1. ThreadsAgree'
    BY <1>7, <1>b, Zenon DEF AutoSaveTimeout, diskVars, compactVars, ThreadsAgree
  <2>2. Seams(b, c)'
    BY <1>7, <1>c, <1>f, Zenon DEF AutoSaveTimeout, diskVars, compactVars, Seams, LogFollows, ToolFollows
  <2> QED
    BY <2>1, <2>2
<1>8. CASE CompactLoad
  <2>1. cstate = "TODO" /\ cpc = "wait" /\ ~stopping /\ pc \notin {"down", "starting"}
        /\ head = diskHead
    BY <1>8, <1>b DEF CompactLoad, ThreadsAgree
  <2>2. LogFollows(b, c) /\ ToolFollows(b)
    BY <1>c, <2>1 DEF Seams
  <2>3. tool'.recs = md[diskHead.md].recs
    BY <1>8, <1>a, <2>1, <2>2, Zenon DEF CompactLoad, LoadedTool, ToolFollows, TypeOK
  <2>4. ThreadsAgree'
    BY <1>8, <1>b, <2>1, ZenonT(30) DEF CompactLoad, diskVars, ThreadsAgree
  <2>5. LogFollows(b, c)' /\ ToolFollows(b)'
    BY <1>8, <2>1, <2>2, <2>3, ZenonT(30) DEF CompactLoad, diskVars, LogFollows, ToolFollows
  <2>6. DiskHolds(b, c)'
    BY <1>8, <1>f, Zenon DEF CompactLoad
  <2> QED
    BY <2>4, <2>5, <2>6 DEF Seams
<1>9. CASE CompactReplay
  <2>1. cstate = "RUNNING" /\ cpc = "replay" /\ ~stopping /\ pc \notin {"down", "starting"}
        /\ head = diskHead
    BY <1>9, <1>b, ZenonT(30) DEF CompactReplay, ThreadsAgree
  <2>2. LogFollows(b, c) /\ tool.recs = md[diskHead.md].recs
    BY <1>c, <2>1 DEF Seams, ToolFollows
  <2>3. DiskHolds(b, c)' /\ md'[diskHead.md] = md[diskHead.md]
    BY <1>9, <1>g, <2>1, ZenonT(30) DEF CompactReplay
  <2>4. replay(tool.recs, diskHead.redo, diskHead.phase)
          = FirstRecords(Len(md[diskHead.md].recs) + b)
    <3>1. tool.recs = FirstRecords(Len(md[diskHead.md].recs))
      BY <1>d, <2>2 DEF DiskHolds
    <3> QED
      BY <1>d, <3>1, DiskRecovers, ZenonT(30)
  <2>5. tool'.recs = FirstRecords(Len(md[diskHead.md].recs) + b)
    BY <1>9, <1>a, <2>1, <2>4, ZenonT(30) DEF CompactReplay, TypeOK
  <2>6. ThreadsAgree'
    BY <1>9, <1>b, <2>1, Zenon DEF CompactReplay, ThreadsAgree
  <2>7. LogFollows(b, c)' /\ ToolFollows(b)'
    BY <1>9, <2>1, <2>2, <2>3, <2>5, Zenon DEF CompactReplay, LogFollows, ToolFollows
  <2> QED
    BY <2>3, <2>6, <2>7, ZenonT(30) DEF Seams
<1>10. CASE CompactSave
  <2>1. cstate = "RUNNING" /\ cpc = "save" /\ ~stopping /\ pc \notin {"down", "starting"}
        /\ head = diskHead
    BY <1>10, <1>b, Zenon DEF CompactSave, ThreadsAgree
  <2>2. LogFollows(b, c) /\ tool.recs = FirstRecords(Len(md[diskHead.md].recs) + b)
    BY <1>c, <2>1 DEF Seams, ToolFollows
  <2>3. SaveHead(diskHead, oppsite(diskHead.md), tool.recs)
    BY <1>10, <2>1, ZenonT(30) DEF CompactSave, ZoneToSave
  <2>4. /\ md'[oppsite(diskHead.md)] = [torn |-> FALSE, recs |-> tool.recs]
        /\ diskHead' = [phase |-> diskHead.phase + 1, md |-> oppsite(diskHead.md),
                        redo |-> oppsite(diskHead.redo)]
        /\ head' = diskHead'
    <3>1. oppsite(diskHead.md) \in Zone
      BY Heads, Zenon
    <3> QED
      BY <1>a, <2>3, <3>1, SaveHeadQuiet, ZenonT(30)
  <2>5. /\ diskHead'.phase = diskHead.phase + 1 /\ diskHead'.redo = oppsite(diskHead.redo)
        /\ md'[diskHead'.md] = [torn |-> FALSE, recs |-> tool.recs]
    BY <2>4
  <2>6. DiskHolds(c, 0)'
    BY <1>10, <1>d, <2>2, <2>5, DiskCompacted, Zenon DEF CompactSave
  <2>7. ThreadsAgree'
    BY <1>10, <1>b, <2>1, <2>4, ZenonT(30) DEF CompactSave, StateAfterCompaction, ThreadsAgree
  <2>8. LogFollows(c, 0)'
    BY <1>10, <2>1, <2>2, <2>5, Zenon DEF CompactSave, StateAfterCompaction, LogFollows
  <2>9. ToolFollows(c)'
    <3>1. tool'.recs = tool.recs /\ cpc' = "wait"
      BY <1>10, <1>a, ZenonT(30) DEF CompactSave, TypeOK
    <3> QED
      BY <2>5, <3>1 DEF ToolFollows
  <2> QED
    BY <1>e, <2>6, <2>7, <2>8, <2>9, ZenonT(30) DEF Seams
<1>11. CASE CompactError
  <2>1. cstate = "RUNNING" /\ ~stopping /\ pc \notin {"down", "starting"}
    BY <1>11, <1>b DEF CompactError, ThreadsAgree
  <2>2. LogFollows(b, c)
    BY <1>c, <2>1 DEF Seams
  <2>3. ThreadsAgree'
    BY <1>11, <1>b, <2>1, ZenonT(30) DEF CompactError, diskVars, ThreadsAgree
  <2>4. LogFollows(b, c)' /\ ToolFollows(b)'
    <3>1. /\ diskHead' = diskHead /\ log' = log /\ cpc' = "wait" /\ ~tool'.exist
          /\ cstate \notin {"IDLE", "STOP"} /\ cstate' \notin {"IDLE", "STOP"}
      BY <1>11, <2>1 DEF CompactError, diskVars, NoTool
    <3>2. LogFollows(b, c)'
      BY <2>2, <3>1, Zenon DEF LogFollows
    <3> QED
      BY <3>1, <3>2 DEF ToolFollows
  <2>5. DiskHolds(b, c)'
    BY <1>11, <1>f DEF CompactError
  <2> QED
    BY <2>3, <2>4, <2>5 DEF Seams
<1>12. CASE Stop
  <2>1. cstate \notin {"TODO", "ERROR"}
    <3>1. {x \in {"busy_stop"} : cstate \in {"TODO", "ERROR"}} = {}
      BY <1>12, <1>a, DisturbQuiet DEF Stop
    <3> QED
      BY <3>1
  <2>2. cstate = "IDLE" /\ cpc = "wait" /\ pc = "idle" /\ ~stopping /\ head = diskHead
    BY <1>12, <1>a, <1>b, <2>1, ZenonT(30) DEF Stop, ThreadsAgree, TypeOK
  <2>3. LogFollows(b, c)
    BY <1>c, <2>2, Zenon DEF Seams
  <2>4. DiskHolds(b, c)'
    BY <1>12, <1>g, <2>2 DEF Stop
  <2>5. ThreadsAgree'
    BY <1>12, <1>b, <2>2, ZenonT(30) DEF Stop, ThreadsAgree
  <2>6. LogFollows(b, c)' /\ stopping'
    BY <1>12, <2>2, <2>3, ZenonT(30) DEF Stop, LogFollows
  <2> QED
    BY <2>4, <2>5, <2>6, ZenonT(30) DEF Seams
<1>13. CASE StopSaved
  <2>1. pc = "stopsave" /\ stopping /\ cstate = "STOP" /\ cpc = "wait" /\ head = diskHead
        /\ mem = FirstRecords(accepted)
    BY <1>13, <1>b, ZenonT(30) DEF StopSaved, ThreadsAgree
  <2>2. c = 0
    BY <1>c, <2>1 DEF Seams, LogFollows
  <2>3. SaveHead(diskHead, oppsite(diskHead.md), mem)
    BY <1>13, <2>1, Zenon DEF StopSaved, ZoneToSave
  <2>4. /\ md'[oppsite(diskHead.md)] = [torn |-> FALSE, recs |-> mem]
        /\ diskHead' = [phase |-> diskHead.phase + 1, md |-> oppsite(diskHead.md),
                        redo |-> oppsite(diskHead.redo)]
        /\ head' = diskHead'
    <3>1. oppsite(diskHead.md) \in Zone
      BY Heads, Zenon
    <3> QED
      BY <1>a, <2>3, <3>1, SaveHeadQuiet, ZenonT(30)
  <2>5. /\ diskHead'.phase = diskHead.phase + 1 /\ diskHead'.redo = oppsite(diskHead.redo)
        /\ md'[diskHead'.md] = [torn |-> FALSE, recs |-> FirstRecords(accepted)]
    <3>1. /\ diskHead'.phase = diskHead.phase + 1 /\ diskHead'.redo = oppsite(diskHead.redo)
          /\ diskHead'.md = oppsite(diskHead.md)
      BY <2>4, Zenon
    <3>2. md'[oppsite(diskHead.md)] = [torn |-> FALSE, recs |-> FirstRecords(accepted)]
      BY <2>1, <2>4, Zenon
    <3> QED
      BY <3>1, <3>2, Zenon
  <2>6. diskHead'.phase \in Nat /\ diskHead.phase < diskHead'.phase
    <3>1. diskHead.phase \in Nat
      BY Heads, Zenon
    <3>2. diskHead'.phase = diskHead.phase + 1
      BY <2>5, Zenon
    <3> QED
      BY <3>1, <3>2, SMTT(30)
  <2>7. DiskHolds(0, 0)'
    BY <1>13, <1>d, <2>2, <2>5, <2>6, DiskAllSaved, Zenon DEF StopSaved
  <2>8. ThreadsAgree'
    BY <1>13, <2>1, <2>4, ZenonT(30) DEF StopSaved, compactVars, ThreadsAgree
  <2>9. stopping' /\ pc' # "stopsave"
    BY <1>13, <2>1 DEF StopSaved
  <2> QED
    BY <1>e, <2>7, <2>8, <2>9, Zenon DEF Seams
<1>14. CASE StopSaveError
  <2>1. stopping' /\ pc' # "stopsave"
    BY <1>14, <1>b DEF StopSaveError, ThreadsAgree
  <2>2. ThreadsAgree'
    BY <1>14, <1>b DEF StopSaveError, diskVars, compactVars, ThreadsAgree
  <2>3. DiskHolds(b, c)'
    BY <1>14, <1>f DEF StopSaveError
  <2> QED
    BY <2>1, <2>2, <2>3 DEF Seams
<1>15. CASE Exit \/ Crash
  <2>1. Vanish
    BY <1>15 DEF Exit, Crash
  <2>2. ThreadsAgree'
    BY <2>1 DEF Vanish, diskVars, ThreadsAgree
  <2>3. DiskHolds(b, c)'
    BY <2>1, <1>f, ZenonT(30) DEF Vanish
  <2>4. ToolFollows(b)' /\ pc' = "down"
    BY <2>1 DEF Vanish, ToolFollows, NoTool
  <2> QED
    BY <2>2, <2>3, <2>4 DEF Seams
<1>16. CASE StartLoad
  <2>1. pc = "down" /\ cstate = "IDLE" /\ cpc = "wait" /\ tool = NoTool /\ ~stopping
    BY <1>16, <1>b DEF StartLoad, ThreadsAgree
  <2>2. mem' = FirstRecords(accepted)
    BY <1>16, <1>d, DiskRecovers DEF StartLoad
  <2>3. DiskHolds(b, c)'
    BY <1>16, <1>g DEF StartLoad
  <2>4. ThreadsAgree'
    BY <1>16, <2>1, <2>2 DEF StartLoad, compactVars, ThreadsAgree
  <2>5. ToolFollows(b)' /\ pc' = "starting"
    BY <1>16, <2>1, Zenon DEF StartLoad, compactVars, ToolFollows, NoTool
  <2> QED
    BY <2>3, <2>4, <2>5 DEF Seams
<1>17. CASE StartSaved
  <2>1. /\ pc = "starting" /\ cstate = "IDLE" /\ cpc = "wait" /\ tool = NoTool /\ ~stopping
        /\ head = [diskHead EXCEPT !.phase = diskHead.phase + 1]
        /\ mem = FirstRecords(accepted)
    BY <1>17, <1>b DEF StartSaved, ThreadsAgree
  <2>2. head.phase = diskHead.phase + 1 /\ head.md = diskHead.md /\ head.redo = diskHead.redo
    BY <2>1, Heads, Zenon DEF HeadPage
  <2>3. SaveHead(head, oppsite(diskHead.md), mem)
    BY <1>17, <2>2, ZenonT(30) DEF StartSaved, ZoneToSave
  <2>4. /\ md'[oppsite(diskHead.md)] = [torn |-> FALSE, recs |-> mem]
        /\ diskHead' = [phase |-> head.phase + 1, md |-> oppsite(diskHead.md),
                        redo |-> oppsite(head.redo)]
        /\ head' = diskHead'
    <3>1. oppsite(diskHead.md) \in Zone
      BY Heads, Zenon
    <3> QED
      BY <1>a, <2>3, <3>1, SaveHeadQuiet, ZenonT(30)
  <2>5. /\ diskHead'.phase = diskHead.phase + 1 + 1 /\ diskHead'.redo = oppsite(diskHead.redo)
        /\ md'[diskHead'.md] = [torn |-> FALSE, recs |-> FirstRecords(accepted)]
    BY <2>1, <2>2, <2>4
  <2>6. diskHead'.phase \in Nat /\ diskHead.phase < diskHead'.phase
        /\ diskHead.phase + 1 < diskHead'.phase
    <3>1. diskHead.phase \in Nat
      BY Heads, Zenon
    <3> QED
      BY <2>5, <3>1, SMTT(30)
  <2>7. DiskHolds(0, 0)'
    BY <1>17, <1>d, <2>5, <2>6, DiskAllSaved, Zenon DEF StartSaved
  <2>8. ThreadsAgree'
    BY <1>17, <2>1, <2>4, Zenon DEF StartSaved, compactVars, ThreadsAgree
  <2>9. LogFollows(0, 0)' /\ ToolFollows(0)'
    BY <1>17, <2>1, <2>4, ZenonT(30) DEF StartSaved, set_log_phase, compactVars, LogFollows, ToolFollows, NoTool
  <2> QED
    BY <1>e, <2>7, <2>8, <2>9, ZenonT(30) DEF Seams
<1>18. CASE StartSaveError
  BY <1>18, <1>a, DisturbQuiet, ZenonT(30) DEF StartSaveError
<1>20. CASE WriteEntryFails
  <2>1. {"log_error"} = {}
    BY <1>20, <1>a, DisturbQuiet, ZenonT(30) DEF WriteEntryFails
  <2> QED
    BY <2>1, Zenon
<1>19. CASE UNCHANGED vars
  <2>1. ThreadsAgree'
    BY <1>19, <1>b, Zenon DEF vars, ThreadsAgree
  <2>2. Seams(b, c)'
    BY <1>19, <1>c, <1>f, Zenon DEF vars, diskVars, Seams, LogFollows, ToolFollows
  <2> QED
    BY <2>1, <2>2
<1> QED
  BY <1>1, <1>2, <1>3, <1>4, <1>5, <1>6, <1>7, <1>8, <1>9, <1>10, <1>11, <1>12,
     <1>13, <1>14, <1>15, <1>16, <1>17, <1>18, <1>19, <1>20, SMTT(30), ZenonT(30)
  DEF Next, SsdThread, CompactionThread, Restart

\* At every moment up to the first disturbance the disk holds the accepted
\* records in three consecutive parts: metadata zone, current log zone,
\* opposite log zone.
THEOREM Partitioned == Spec => [](TypeOK /\ RecordsPartitioned)
<1>1. Init => Typed /\ RecordsPartitioned
  BY InitTyped, InitPartitioned
<1>2. Typed /\ RecordsPartitioned /\ [Next]_vars => (Typed /\ RecordsPartitioned)'
  BY NextTyped, NextPartitioned
<1>3. Typed /\ RecordsPartitioned => TypeOK /\ RecordsPartitioned
  BY ZenonT(30) DEF Typed
<1> QED
  BY <1>1, <1>2, <1>3, PTL DEF Spec

-----------------------------------------------------------------------------
(* The promises of the protocol.                                           *)

LEMMA PartitionedRecovers ==
    ASSUME TypeOK, RecordsPartitioned
    PROVE  /\ RestartRecoversLog /\ MemoryIsDurable /\ CurrentZoneIntact
           /\ ReplayStaysInZone /\ CompactionImageExact
<1> SUFFICES ASSUME ~disturbed
             PROVE  /\ RestartKeepsWrites
                    /\ pc \notin {"down", "starting"} => mem = LoadAndReplay(diskHead)
                    /\ ~md[diskHead.md].torn
                    /\ RunLength(diskHead.redo, diskHead.phase) <= ZoneSize
                    /\ RunLength(oppsite(diskHead.redo), diskHead.phase + 1) <= ZoneSize
                    /\ cpc = "save" =>
                          replay(tool.recs, oppsite(head.redo), head.phase + 1) = mem
  BY DEF RestartRecoversLog, MemoryIsDurable, CurrentZoneIntact, ReplayStaysInZone,
         CompactionImageExact
<1>1. Typed /\ ThreadsAgree
  BY DEF Typed, RecordsPartitioned
<1>2. PICK b \in 0..ZoneSize, c \in 0..ZoneSize : Seams(b, c)
  BY DEF RecordsPartitioned
<1>3. DiskHolds(b, c)
  BY <1>2, ZenonT(30) DEF Seams
<1>4. /\ RunLength(diskHead.redo, diskHead.phase) = b
      /\ RunLength(oppsite(diskHead.redo), diskHead.phase + 1) = c
      /\ replay(FirstRecords(Len(md[diskHead.md].recs) + b),
                oppsite(diskHead.redo), diskHead.phase + 1) = FirstRecords(accepted)
      /\ LoadAndReplay(diskHead) = FirstRecords(accepted)
  BY <1>1, <1>3, DiskRecovers, ZenonT(30)
<1>5. ~md[diskHead.md].torn
  BY <1>3 DEF DiskHolds
<1>6. pc \notin {"down", "starting"} => mem = LoadAndReplay(diskHead)
  BY <1>1, <1>4, ZenonT(30) DEF ThreadsAgree
<1>7. ASSUME cpc = "save"
      PROVE  replay(tool.recs, oppsite(head.redo), head.phase + 1) = mem
  <2>1. pc \notin {"down", "starting"} /\ ~stopping /\ head = diskHead
        /\ mem = FirstRecords(accepted)
    BY <1>1, <1>7, Zenon DEF ThreadsAgree
  <2>2. tool.recs = FirstRecords(Len(md[diskHead.md].recs) + b)
    BY <1>2, <1>7, <2>1 DEF Seams, ToolFollows
  <2> QED
    BY <1>4, <2>1, <2>2
<1>8. b <= ZoneSize /\ c <= ZoneSize
  BY ConstantsAssumption
<1>9. RunLength(diskHead.redo, diskHead.phase) <= ZoneSize
      /\ RunLength(oppsite(diskHead.redo), diskHead.phase + 1) <= ZoneSize
  BY <1>4, <1>8, Zenon
<1> QED
  BY <1>4, <1>5, <1>6, <1>7, <1>9, Zenon DEF RestartKeepsWrites

\* Wherever the process dies, a restart finds exactly the records write_entry
\* accepted, as long as none of the disturbances has happened.
THEOREM Recovery == Spec => []RestartRecoversLog
BY Partitioned, PartitionedRecovers, PTL

\* A running store's tables are what a restart would rebuild.
THEOREM Memory == Spec => []MemoryIsDurable
BY Partitioned, PartitionedRecovers, PTL

\* The head page never points at a metadata zone being overwritten.
THEOREM ZoneIntact == Spec => []CurrentZoneIntact
BY Partitioned, PartitionedRecovers, PTL

\* replay, which has no bound of its own, never runs from one log zone into the
\* other.
THEOREM ZonesSeparate == Spec => []ReplayStaysInZone
BY Partitioned, PartitionedRecovers, PTL

\* The compaction thread saves the finished zone, all of it and nothing else.
THEOREM CompactionExact == Spec => []CompactionImageExact
BY Partitioned, PartitionedRecovers, PTL

LEMMA AcceptedSteps ==
    ASSUME TypeOK, [Next]_vars
    PROVE  accepted' = accepted \/ accepted' = accepted + 1
BY DEF Next, SsdThread, CompactionThread, Restart, WriteEntry, WriteEntryFails, EventSaveMd,
       RestSaveMd, TriggerTodo, TriggerAfterError, TriggerAfterErrorSaved, AutoSaveTimeout, CompactLoad,
       CompactReplay, CompactSave, CompactError, Stop, StopSaved, StopSaveError, Exit, Crash,
       Vanish, StartLoad, StartSaved, StartSaveError, vars

\* Seen from its records the protocol is the durable log: what a restart would
\* find grows by the record write_entry accepts and changes in no other step,
\* compaction, crash, restart and shutdown included.
THEOREM Refinement == Spec => ImplementsDurableLog
<1> DEFINE Durable == IF disturbed THEN FirstRecords(accepted) ELSE LoadAndReplay(diskHead)
           I == TypeOK /\ RecordsPartitioned
<1>1. I => Durable = FirstRecords(accepted) /\ accepted \in Nat
  BY PartitionedRecovers DEF RestartRecoversLog, RestartKeepsWrites, TypeOK
<1>2. Init => D!DInit
  <2> SUFFICES ASSUME Init PROVE Durable = <<>> /\ accepted = 0
    BY DEF D!DInit
  <2>1. I
    BY InitTyped, InitPartitioned, Zenon DEF Typed
  <2>2. accepted = 0 /\ FirstRecords(0) = <<>>
    BY EmptySeq DEF Init, FirstRecords
  <2> QED
    BY <1>1, <2>1, <2>2
<1>3. (I => Durable = FirstRecords(accepted))'
  BY <1>1, PTL
<1>4. I /\ I' /\ [Next]_vars => [D!Accept]_(D!dvars)
  <2> SUFFICES ASSUME I, I', [Next]_vars PROVE [D!Accept]_(D!dvars)
    OBVIOUS
  <2>1. Durable = FirstRecords(accepted) /\ accepted \in Nat
    BY <1>1
  <2>2. Durable' = FirstRecords(accepted')
    BY <1>3
  <2>3. accepted' = accepted \/ accepted' = accepted + 1
    BY AcceptedSteps
  <2>4. CASE accepted' = accepted
    <3>1. Durable' = Durable
      BY <2>1, <2>2, <2>4
    <3> QED
      BY <2>4, <3>1 DEF D!dvars
  <2>5. CASE accepted' = accepted + 1
    <3>1. Durable' = Append(Durable, accepted + 1)
      BY <2>1, <2>2, <2>5, FirstRecordsAppend, ZenonT(30)
    <3> QED
      BY <2>5, <3>1 DEF D!Accept
  <2> QED
    BY <2>3, <2>4, <2>5
<1> QED
  BY <1>2, <1>4, Partitioned, PTL DEF Spec, ImplementsDurableLog, D!DSpec

-----------------------------------------------------------------------------
(* The phases, disturbed or not.                                           *)

\* The phase in memory is never behind the one on disk, nor the phase of the
\* log behind it while a compaction is asked for, runs or has failed.
PhaseOrder ==
    /\ diskHead.phase <= head.phase
    /\ cstate \in {"TODO", "RUNNING", "ERROR"} => head.phase <= log.phase
    /\ cpc # "wait" => cstate = "RUNNING"
    /\ pc = "stopsave" => cstate = "STOP"
    /\ pc \in {"down", "starting"} => cstate = "IDLE"
    /\ pc = "errsave" => cstate = "ERROR"

LEMMA SaveHeadPhase ==
    ASSUME NEW h, NEW zone, NEW recs, SaveHead(h, zone, recs)
    PROVE  head'.phase = h.phase + 1 /\ diskHead' = head'
BY Zenon DEF SaveHead, HeadAfterSave

LEMMA NextPhaseOrder ==
    ASSUME Typed, PhaseOrder, [Next]_vars
    PROVE  PhaseOrder' /\ (diskHead' = diskHead \/ diskHead'.phase > diskHead.phase)
<1>1. head.phase \in Nat /\ diskHead.phase \in Nat /\ log.phase \in Nat
  BY DEF Typed, TypeOK, HeadPage
<1>2. CASE WriteEntry
  <2>1. log'.phase = log.phase
    BY <1>2, Zenon DEF WriteEntry, Typed, TypeOK
  <2> QED
    BY <1>2, <2>1 DEF WriteEntry, compactVars, PhaseOrder
<1>16. CASE WriteEntryFails
  BY <1>16, Zenon DEF WriteEntryFails, compactVars, PhaseOrder
<1>3. CASE TriggerTodo
  <2>1. log'.phase = head.phase + 1
    BY <1>3, Zenon DEF TriggerTodo, set_log_phase, NextPhase
  <2>2. cpc = "wait"
    BY <1>3 DEF TriggerTodo, PhaseOrder, Typed, TypeOK
  <2> QED
    BY <1>1, <1>3, <2>1, <2>2, SMTT(30) DEF TriggerTodo, diskVars, PhaseOrder
<1>4. CASE TriggerAfterError
  <2>1. head'.phase = log.phase
    BY <1>4, ZenonT(30) DEF TriggerAfterError, Typed, TypeOK, HeadPage
  <2> QED
    BY <1>1, <1>4, <2>1 DEF TriggerAfterError, compactVars, PhaseOrder
<1>5. CASE TriggerAfterErrorSaved
  <2>1. head'.phase = head.phase + 1 /\ diskHead' = head'
    BY <1>5, SaveHeadPhase DEF TriggerAfterErrorSaved
  <2> QED
    BY <1>1, <1>5, <2>1, SMTT(30) DEF TriggerAfterErrorSaved, PhaseOrder
<1>6. CASE CompactSave
  <2>1. head'.phase = head.phase + 1 /\ diskHead' = head'
    BY <1>6, SaveHeadPhase, Zenon DEF CompactSave
  <2> QED
    BY <1>1, <1>6, <2>1 DEF CompactSave, StateAfterCompaction, PhaseOrder
<1>7. CASE StopSaved
  <2>1. head'.phase = head.phase + 1 /\ diskHead' = head'
    BY <1>7, SaveHeadPhase, ZenonT(30) DEF StopSaved
  <2> QED
    BY <1>1, <1>7, <2>1, SMTT(30) DEF StopSaved, compactVars, PhaseOrder
<1>8. CASE StartSaved
  <2>1. head'.phase = head.phase + 1 /\ diskHead' = head'
    BY <1>8, SaveHeadPhase, Zenon DEF StartSaved
  <2> QED
    BY <1>1, <1>8, <2>1 DEF StartSaved, compactVars, PhaseOrder
<1>9. CASE EventSaveMd \/ RestSaveMd \/ AutoSaveTimeout
  BY <1>9 DEF EventSaveMd, RestSaveMd, AutoSaveTimeout, diskVars, compactVars, PhaseOrder
<1>10. CASE CompactLoad \/ CompactReplay \/ CompactError
  BY <1>10 DEF CompactLoad, CompactReplay, CompactError, diskVars, PhaseOrder
<1>11. CASE Stop \/ StopSaveError
  BY <1>11 DEF Stop, StopSaveError, diskVars, compactVars, PhaseOrder
<1>12. CASE Exit \/ Crash
  BY <1>1, <1>12 DEF Exit, Crash, Vanish, diskVars, PhaseOrder
<1>13. CASE StartLoad
  <2>1. head'.phase = diskHead.phase + 1
    BY <1>13, Zenon DEF StartLoad, Typed, TypeOK, HeadPage
  <2> QED
    BY <1>1, <1>13, <2>1 DEF StartLoad, compactVars, PhaseOrder
<1>14. CASE StartSaveError
  BY <1>14, ZenonT(30) DEF StartSaveError, diskVars, compactVars, PhaseOrder
<1>15. CASE UNCHANGED vars
  BY <1>15 DEF vars, PhaseOrder
<1> QED
  BY <1>2, <1>3, <1>4, <1>5, <1>6, <1>7, <1>8, <1>9, <1>10, <1>11, <1>12, <1>13, <1>14, <1>15, <1>16, ZenonT(30)
  DEF Next, SsdThread, CompactionThread, Restart

\* No two saves carry the same phase, even after a disturbance: replay can tell
\* the items of one generation of a log zone from those of the next.
THEOREM PhasesAdvance == Spec => PhaseAdvances
<1>1. Init => Typed /\ PhaseOrder
  BY InitTyped DEF Init, PhaseOrder
<1>2. Typed /\ PhaseOrder /\ [Next]_vars => (Typed /\ PhaseOrder)'
  BY NextTyped, NextPhaseOrder
<1>3. Typed /\ PhaseOrder /\ [Next]_vars => [diskHead'.phase > diskHead.phase]_diskHead
  BY NextPhaseOrder
<1> QED
  BY <1>1, <1>2, <1>3, PTL DEF Spec, PhaseAdvances

=============================================================================
