------------------------ MODULE AnalysisCacheProofs ------------------------
(* Theorems about AnalysisCache, for every set of processes, digests and     *)
(* pins and every bound on moves and faults.                                 *)
EXTENDS AnalysisCache, TLAPS

\* What the position of a process says about its own variables.
Control ==
    \A p \in Procs :
        /\ pc[p] \in Loading \cup Saving => pin[p] \in Pins
        /\ pc[p] \in {"load", "evict"} => pre[p] \in Digests
        /\ pc[p] \in Saving => key[p] \in Digests

Shape == TypeOK /\ Control

USE DEF Refs, Loading, Saving, Pruning, Ended, Working, Goto

\* What no file holds is content too.
LEMMA NothingType == Nothing \in Content
  BY DEF Nothing, Content

\* A file without a readable record is an entry.
LEMMA BlankType == \A s \in FileStates : Blank(s) \in Entries
  BY NothingType DEF Blank, Entries

\* The sentinels and the records the actions build are of the declared types.
LEMMA TempType ==
  /\ NoTemp \in Temps
  /\ \A d \in Digests : [st |-> "partial", dir |-> d, old |-> FALSE] \in Temps
  /\ \A t \in Temps : /\ [t EXCEPT !.old = TRUE] \in Temps
                      /\ [t EXCEPT !.st = "full", !.old = FALSE] \in Temps
                      /\ [t EXCEPT !.st = "synced"] \in Temps
                      /\ [dir |-> t.dir, old |-> t.old] \in Orphaned
  BY DEF NoTemp, Temps, TempStates, Orphaned

\* A temp file that nobody owns stays one as it grows old.
LEMMA OrphanType == \A t \in Orphaned : [t EXCEPT !.old = TRUE] \in Orphaned
  BY DEF Orphaned

\* What a rename puts in place is an entry.
LEMMA EntryType ==
  \A s \in TempStates, d \in Digests, c \in Content :
     [st |-> Renamed(s), env |-> d, what |-> c] \in Entries
  BY DEF Renamed, TempStates, FileStates, Entries

\* What an engine exports is content.
LEMMA ExportType ==
  ASSUME TypeOK, NEW n \in Pins, NEW w \in Exportable(n), NEW b \in BOOLEAN
  PROVE  [of |-> tag, plat |-> w, warm |-> b] \in Content
  BY CacheAssumption DEF Exportable, TypeOK, Content

\* Faults are counted.
LEMMA FaultType == ASSUME TypeOK, Fault PROVE faults' \in Nat
  BY DEF TypeOK, Fault

\* A step of the reference keeps its own variables well typed.
LEMMA MoveType ==
  ASSUME TypeOK, NEW d \in Refs, MoveTag(d)
  PROVE  tag' \in Refs /\ past' \subseteq Digests /\ moves' \in Nat
  BY DEF TypeOK, MoveTag

\* The first state has the shape.
LEMMA ShapeInit == Init => Shape
<1> SUFFICES ASSUME Init PROVE Shape
  OBVIOUS
<1>1. TypeOK
  BY TempType, BlankType, NothingType, CacheAssumption DEF Init, TypeOK, FileStates
<1>2. Control
  BY DEF Init, Control
<1> QED
  BY <1>1, <1>2 DEF Shape

\* Every step keeps the shape.
LEMMA ShapeStep == Shape /\ [Next]_vars => Shape'
<1> SUFFICES ASSUME TypeOK, Control, [Next]_vars PROVE TypeOK' /\ Control'
  BY DEF Shape
<1> USE DEF engine, disk, run
<1>1. ASSUME NEW p \in Procs, NEW n \in Pins, NEW b \in BOOLEAN, Start(p, n, b)
      PROVE  TypeOK' /\ Control'
  <2>1. Shows(tag, n) => tag \in Digests
    BY DEF Shows, TypeOK
  <2>2. faults' \in Nat /\ pre' \in [Procs -> Refs]
    BY <1>1, <2>1 DEF Start, TypeOK, Fault
  <2>3. pc' \in [Procs -> {"idle"} \cup Working \cup Ended]
    BY <1>1 DEF Start, TypeOK
  <2>4. TypeOK'
    BY <1>1, <2>2, <2>3, NothingType DEF Start, TypeOK
  <2>5. Control'
    BY <1>1, <2>2 DEF Start, TypeOK, Control
  <2> QED
    BY <2>4, <2>5
<1>2. ASSUME NEW p \in Procs, LoadRead(p) PROVE TypeOK' /\ Control'
  <2>1. file[Slot(pre[p], pin[p])] \in Entries
    BY <1>2 DEF LoadRead, TypeOK, Control, Slot, Slots
  <2>2. file[Slot(pre[p], pin[p])].what \in Content
    BY <2>1 DEF Entries
  <2>3. got' \in [Procs -> Content]
    BY <1>2, <2>2 DEF LoadRead, TypeOK
  <2>4. hit' \in [Procs -> BOOLEAN]
    BY <1>2 DEF LoadRead, TypeOK
  <2>8. faults' \in Nat
    BY <1>2, FaultType DEF LoadRead, TypeOK
  <2>5. pc' \in [Procs -> {"idle"} \cup Working \cup Ended]
    BY <1>2 DEF LoadRead, TypeOK
  <2>6. TypeOK'
    BY <1>2, <2>3, <2>4, <2>5, <2>8 DEF LoadRead, TypeOK
  <2>7. Control'
    BY <1>2 DEF LoadRead, TypeOK, Control
  <2> QED
    BY <2>6, <2>7
<1>3. ASSUME NEW p \in Procs, LoadEvict(p) PROVE TypeOK' /\ Control'
  BY <1>3, BlankType DEF LoadEvict, TypeOK, Control, FileStates
<1>4. ASSUME NEW p \in Procs, Ensure(p) PROVE TypeOK' /\ Control'
  BY <1>4 DEF Ensure, TypeOK, Control
<1>5. ASSUME NEW p \in Procs, Pull(p) PROVE TypeOK' /\ Control'
  BY <1>5, MoveType DEF Pull, TypeOK, Control
<1>6. ASSUME NEW p \in Procs, Export(p) PROVE TypeOK' /\ Control'
  <2> DEFINE b == pre[p] # NoDigest
  <2>0. pin[p] \in Pins /\ b \in BOOLEAN
    BY <1>6 DEF Export, Control
  <2>1. got' \in [Procs -> Content]
    <3>1. \A w \in Exportable(pin[p]) : [of |-> tag, plat |-> w, warm |-> b] \in Content
      BY <2>0, ExportType
    <3> QED
      BY <1>6, <3>1 DEF Export, TypeOK
  <2>2. TypeOK'
    BY <1>6, <2>1 DEF Export, TypeOK, Fault
  <2>3. Control'
    BY <1>6 DEF Export, TypeOK, Control
  <2> QED
    BY <2>2, <2>3
<1>7. ASSUME NEW p \in Procs, PostID(p) PROVE TypeOK' /\ Control'
  <2> DEFINE seen == SecondID(p)
  <2>1. /\ seen \in Refs
        /\ seen # NoDigest => seen \in Digests
    BY DEF TypeOK, SecondID
  <2>2. \/ seen # NoDigest /\ key' = [key EXCEPT ![p] = seen] /\ pc' = [pc EXCEPT ![p] = "mkdir"]
        \/ key' = key /\ pc' = [pc EXCEPT ![p] = "done"]
    BY <1>7 DEF PostID, Judge
  <2> HIDE DEF seen
  <2>3. faults' \in Nat
    BY <1>7, FaultType DEF PostID, Judge, TypeOK
  <2>4. TypeOK'
    BY <1>7, <2>1, <2>2, <2>3 DEF PostID, Judge, TypeOK
  <2>5. Control'
    BY <1>7, <2>1, <2>2 DEF PostID, Judge, TypeOK, Control
  <2> QED
    BY <2>4, <2>5
<1>8. ASSUME NEW p \in Procs, SaveMkdir(p) PROVE TypeOK' /\ Control'
  BY <1>8, TempType DEF SaveMkdir, TypeOK, Control
<1>9. ASSUME NEW p \in Procs, SaveCreate(p) PROVE TypeOK' /\ Control'
  <2> DEFINE t == [st |-> "partial", dir |-> key[p], old |-> FALSE]
  <2>0. key[p] \in Digests
    BY <1>9 DEF SaveCreate, Control
  <2>2. t \in Temps
    BY <2>0, TempType
  <2>3. tmp' = tmp \/ tmp' = [tmp EXCEPT ![p] = t]
    BY <1>9 DEF SaveCreate
  <2> HIDE DEF t
  <2>1. tmp' \in [Procs -> Temps]
    BY <2>2, <2>3 DEF TypeOK
  <2> QED
    BY <1>9, <2>1 DEF SaveCreate, TypeOK, Control
<1>10. ASSUME NEW p \in Procs, SaveWrite(p) PROVE TypeOK' /\ Control'
  BY <1>10, TempType DEF SaveWrite, TypeOK, Control
<1>11. ASSUME NEW p \in Procs, SaveSync(p) PROVE TypeOK' /\ Control'
  BY <1>11, TempType DEF SaveSync, TypeOK, Control
<1>12. ASSUME NEW p \in Procs, SaveRename(p) PROVE TypeOK' /\ Control'
  <2>1. tmp[p].st \in TempStates /\ got[p] \in Content /\ key[p] \in Digests
    BY <1>12 DEF SaveRename, TypeOK, Control, Temps
  <2>2. file' \in [Slots -> Entries]
    BY <1>12, <2>1, EntryType DEF SaveRename, TypeOK
  <2> QED
    BY <1>12, <2>2, TempType DEF SaveRename, TypeOK, Control
<1>13. ASSUME NEW p \in Procs, SaveMeta(p) PROVE TypeOK' /\ Control'
  BY <1>13 DEF SaveMeta, TypeOK, Control
<1>14. ASSUME NEW p \in Procs, SaveFail(p) PROVE TypeOK' /\ Control'
  <2>1. tmp' \in [Procs -> Temps] /\ faults' \in Nat
    BY <1>14, TempType, FaultType DEF SaveFail, TypeOK
  <2> QED
    BY <1>14, <2>1 DEF SaveFail, TypeOK, Control
<1>15. ASSUME NEW p \in Procs, StartPrune(p) PROVE TypeOK' /\ Control'
  BY <1>15 DEF StartPrune, TypeOK, Control
<1>16. ASSUME NEW p \in Procs, PruneScan(p) PROVE TypeOK' /\ Control'
  BY <1>16 DEF PruneScan, Evictable, Candidates, TypeOK, Control
<1>17. ASSUME NEW p \in Procs, NEW d \in Digests, PruneRemove(p, d) PROVE TypeOK' /\ Control'
  <2>1. file' \in [Slots -> Entries]
    BY <1>17, BlankType DEF PruneRemove, TypeOK, FileStates
  <2>2. dirs' \subseteq Digests /\ litter' \subseteq Orphaned /\ faults' \in Nat
    BY <1>17 DEF PruneRemove, Fault, TypeOK
  <2>3. tmp' \in [Procs -> Temps]
    BY <1>17, TempType DEF PruneRemove, TypeOK
  <2> QED
    BY <1>17, <2>1, <2>2, <2>3 DEF PruneRemove, TypeOK, Control
<1>18. ASSUME NEW p \in Procs, PruneEnd(p) PROVE TypeOK' /\ Control'
  BY <1>18 DEF PruneEnd, TypeOK, Control
<1>19. ASSUME NEW p \in Procs, Exit(p) PROVE TypeOK' /\ Control'
  BY <1>19, NothingType DEF Exit, Forget, TypeOK, Control
<1>20. ASSUME NEW p \in Procs, Kill(p) PROVE TypeOK' /\ Control'
  <2>1. litter' \subseteq Orphaned
    BY <1>20, TempType DEF Kill, Orphans, TypeOK
  <2>2. tmp' \in [Procs -> Temps] /\ faults' \in Nat
    BY <1>20, TempType, FaultType DEF Kill, TypeOK
  <2>3. got' \in [Procs -> Content]
    BY <1>20, NothingType DEF Kill, Forget, TypeOK
  <2> QED
    BY <1>20, <2>1, <2>2, <2>3 DEF Kill, Forget, TypeOK, Control
<1>21. ASSUME PowerCut PROVE TypeOK' /\ Control'
  <2>1. litter' \subseteq Orphaned
    BY <1>21, TempType DEF PowerCut, Orphans, TypeOK
  <2>2. file' \in [Slots -> Entries]
    BY <1>21, BlankType DEF PowerCut, TypeOK, FileStates
  <2>3. tmp' \in [Procs -> Temps] /\ faults' \in Nat
    BY <1>21, TempType, FaultType DEF PowerCut, TypeOK
  <2>4. got' \in [Procs -> Content]
    BY <1>21, NothingType DEF PowerCut
  <2> QED
    BY <1>21, <2>1, <2>2, <2>3, <2>4 DEF PowerCut, TypeOK, Control
<1>22. ASSUME HourPasses PROVE TypeOK' /\ Control'
  <2>1. litter' \subseteq Orphaned
    BY <1>22, OrphanType DEF HourPasses, TypeOK
  <2>2. tmp' \in [Procs -> Temps]
    BY <1>22, TempType DEF HourPasses, TypeOK
  <2> QED
    BY <1>22, <2>1, <2>2 DEF HourPasses, TypeOK, Control
<1>23. ASSUME Retag PROVE TypeOK' /\ Control'
  BY <1>23, MoveType DEF Retag, TypeOK, Control
<1>24. ASSUME NEW s \in Slots, Tamper(s) PROVE TypeOK' /\ Control'
  <2>1. \A d \in Digests : file[Slot(d, s[2])] \in Entries
    BY DEF TypeOK, Slot, Slots
  <2>2. file' \in [Slots -> Entries]
    BY <1>24, <2>1, BlankType DEF Tamper, TypeOK, FileStates
  <2> QED
    BY <1>24, <2>2 DEF Tamper, Fault, TypeOK, Control
<1>25. CASE UNCHANGED vars
  BY <1>25 DEF vars, TypeOK, Control
<1> QED
  BY <1>1, <1>2, <1>3, <1>4, <1>5, <1>6, <1>7, <1>8, <1>9, <1>10, <1>11, <1>12, <1>13,
     <1>14, <1>15, <1>16, <1>17, <1>18, <1>19, <1>20, <1>21, <1>22, <1>23, <1>24, <1>25
  DEF Next, Begin, Work, Environment

\* Every variable of AnalysisCache keeps its type, and every process has the
\* pin, digest and key its position needs.
THEOREM TypeCorrect == Spec => []TypeOK
<1>1. Shape => TypeOK
  BY DEF Shape
<1> QED
  BY ShapeInit, ShapeStep, <1>1, PTL DEF Spec

-----------------------------------------------------------------------------
(* No cache file is torn: only fsynced temp files are ever renamed. *)

SyncedFirst ==
    /\ \A s \in Slots : file[s].st \notin {"torn", "unsynced"}
    /\ \A p \in Procs : pc[p] = "rename" => tmp[p].st \in {"none", "synced"}

\* No file is there that was not synced before its rename.
LEMMA SyncedInit == Init => SyncedFirst
  BY DEF Init, SyncedFirst, Blank, NoTemp

\* No step renames a file that is not synced.
LEMMA SyncedStep == Shape /\ SyncedFirst /\ [Next]_vars => SyncedFirst'
<1> SUFFICES ASSUME TypeOK, Control, SyncedFirst, [Next]_vars PROVE SyncedFirst'
  BY DEF Shape
<1> USE DEF engine, disk, run, SyncedFirst
\* The steps that touch neither a cache file nor a temp file.
<1>1. ASSUME UNCHANGED <<file, tmp>>, NEW p \in Procs, NEW l \in (Working \cup Ended \cup {"idle"}) \ {"rename"},
             pc' = [pc EXCEPT ![p] = l]
      PROVE  SyncedFirst'
  BY <1>1 DEF TypeOK
<1>2. ASSUME NEW p \in Procs, Begin(p) \/ LoadRead(p) \/ Ensure(p) \/ Pull(p) \/ Export(p)
                              \/ PostID(p) \/ SaveMeta(p) \/ PruneScan(p) \/ PruneEnd(p)
                              \/ StartPrune(p) \/ Exit(p)
      PROVE  SyncedFirst'
  <2>1. /\ UNCHANGED <<file, tmp>>
        /\ \E l \in (Working \cup Ended \cup {"idle"}) \ {"rename"} : pc' = [pc EXCEPT ![p] = l]
    BY <1>2 DEF Begin, Start, LoadRead, Ensure, Pull, Export, PostID, SaveMeta, PruneScan,
                PruneEnd, StartPrune, Exit, Judge
  <2> QED
    BY <2>1, <1>1
<1>3. ASSUME NEW p \in Procs, LoadEvict(p) PROVE SyncedFirst'
  BY <1>3 DEF LoadEvict, TypeOK, Blank
<1>4. ASSUME NEW p \in Procs, SaveMkdir(p) PROVE SyncedFirst'
  BY <1>4 DEF SaveMkdir, TypeOK, NoTemp
<1>5. ASSUME NEW p \in Procs, SaveCreate(p) PROVE SyncedFirst'
  BY <1>5 DEF SaveCreate, TypeOK
<1>6. ASSUME NEW p \in Procs, SaveWrite(p) PROVE SyncedFirst'
  BY <1>6 DEF SaveWrite, TypeOK
<1>7. ASSUME NEW p \in Procs, SaveSync(p) PROVE SyncedFirst'
  BY <1>7 DEF SaveSync, TypeOK, Temps
<1>8. ASSUME NEW p \in Procs, SaveRename(p) PROVE SyncedFirst'
  BY <1>8 DEF SaveRename, Renamed, TypeOK, NoTemp
<1>9. ASSUME NEW p \in Procs, SaveFail(p) PROVE SyncedFirst'
  BY <1>9 DEF SaveFail, TypeOK
<1>10. ASSUME NEW p \in Procs, NEW d \in Digests, PruneRemove(p, d) PROVE SyncedFirst'
  BY <1>10 DEF PruneRemove, TypeOK, Blank, NoTemp
<1>11. ASSUME NEW p \in Procs, Kill(p) PROVE SyncedFirst'
  BY <1>11 DEF Kill, TypeOK
<1>12. CASE PowerCut
  BY <1>12 DEF PowerCut, TypeOK
<1>13. CASE HourPasses
  BY <1>13 DEF HourPasses, TypeOK, Temps
<1>14. CASE Retag
  BY <1>14 DEF Retag
<1>15. ASSUME NEW s \in Slots, Tamper(s) PROVE SyncedFirst'
  <2>1. \A d \in Digests : Slot(d, s[2]) \in Slots
    BY DEF Slot, Slots
  <2> QED
    BY <1>15, <2>1 DEF Tamper, TypeOK, Blank
<1>16. CASE UNCHANGED vars
  BY <1>16 DEF vars
<1> QED
  BY <1>2, <1>3, <1>4, <1>5, <1>6, <1>7, <1>8, <1>9, <1>10, <1>11, <1>12, <1>13, <1>14,
     <1>15, <1>16
  DEF Next, Begin, Work, Environment

\* Kills, power cuts, concurrent saves and prunes never leave a half-written
\* file in the cache.
THEOREM NeverTorn == Spec => []NoTornEntry
<1>1. SyncedFirst => NoTornEntry
  BY DEF SyncedFirst, NoTornEntry
<1> QED
  BY ShapeInit, ShapeStep, SyncedInit, SyncedStep, <1>1, PTL DEF Spec

-----------------------------------------------------------------------------
(* Platforms: what a pinned run exports is filed under its own pin.          *)

RightPlatform(c, n) == Scope(n) = {Wanted(n)} => c.plat = Wanted(n)

Filed ==
    /\ \A s \in Slots : Readable(file[s]) => RightPlatform(file[s].what, s[2])
    /\ \A p \in Procs : pc[p] \in {"post"} \cup Saving => RightPlatform(got[p], pin[p])

\* A file without a readable record serves no run.
LEMMA BlankUnreadable == \A s \in {"absent", "torn", "alien"} : ~Readable(Blank(s))
  BY DEF Readable, Blank

\* Nothing is filed at first.
LEMMA FiledInit == Init => Filed
  BY BlankUnreadable DEF Init, Filed

\* No step files content where it does not belong.
LEMMA FiledStep == Shape /\ Filed /\ [Next]_vars => Filed'
<1> SUFFICES ASSUME TypeOK, Control, Filed, [Next]_vars PROVE Filed'
  BY DEF Shape
<1> USE DEF engine, disk, run, Filed
<1>1. ASSUME NEW p \in Procs, NEW l \in (Working \cup Ended \cup {"idle"}) \ ({"post"} \cup Saving),
             pc' = [pc EXCEPT ![p] = l], UNCHANGED file,
             \A q \in Procs \ {p} : got'[q] = got[q] /\ pin'[q] = pin[q]
      PROVE  Filed'
  BY <1>1 DEF TypeOK
<1>2. ASSUME NEW p \in Procs, Begin(p) \/ LoadRead(p) \/ Ensure(p) \/ Pull(p)
                              \/ PruneScan(p) \/ PruneEnd(p) \/ StartPrune(p) \/ Exit(p)
                              \/ SaveMeta(p) \/ SaveFail(p) \/ Kill(p)
      PROVE  Filed'
  <2>1. /\ UNCHANGED file
        /\ \E l \in (Working \cup Ended \cup {"idle"}) \ ({"post"} \cup Saving) : pc' = [pc EXCEPT ![p] = l]
    BY <1>2 DEF Begin, Start, LoadRead, Ensure, Pull, SaveMeta, PruneScan, PruneEnd, StartPrune,
                Exit, SaveFail, Kill
  <2>2. \A q \in Procs \ {p} : got'[q] = got[q] /\ pin'[q] = pin[q]
    BY <1>2 DEF Begin, Start, LoadRead, Ensure, Pull, SaveMeta, PruneScan, PruneEnd, StartPrune,
                Exit, SaveFail, Kill, Forget, TypeOK
  <2> QED
    BY <2>1, <2>2, <1>1
<1>3. ASSUME NEW p \in Procs, LoadEvict(p) PROVE Filed'
  BY <1>3, BlankUnreadable DEF LoadEvict, TypeOK
<1>4. ASSUME NEW p \in Procs, Export(p) PROVE Filed'
  <2>1. \A w \in Exportable(pin[p]) : w \in Scope(pin[p])
    BY DEF Exportable
  <2>2. got' \in [Procs -> Content] /\ UNCHANGED <<file, pin>>
    BY <1>4, ShapeStep DEF Export, Shape, TypeOK
  <2>3. pc'[p] = "post" => RightPlatform(got'[p], pin[p])
    BY <1>4, <2>1 DEF Export, TypeOK, RightPlatform
  <2>4. \A q \in Procs \ {p} : got'[q] = got[q] /\ pc'[q] = pc[q]
    BY <1>4 DEF Export, TypeOK
  <2>5. pc'[p] \in {"post", "failed"}
    BY <1>4 DEF Export, TypeOK
  <2> QED
    BY <2>2, <2>3, <2>4, <2>5
<1>5. ASSUME NEW p \in Procs, PostID(p) PROVE Filed'
  <2>1. pc[p] = "post" /\ UNCHANGED <<file, got, pin>>
    BY <1>5 DEF PostID, Judge
  <2>2. \A q \in Procs \ {p} : pc'[q] = pc[q]
    BY <1>5 DEF PostID, Judge, TypeOK
  <2> QED
    BY <2>1, <2>2
<1>6. ASSUME NEW p \in Procs, SaveMkdir(p) \/ SaveCreate(p) \/ SaveWrite(p) \/ SaveSync(p)
      PROVE  Filed'
  BY <1>6 DEF SaveMkdir, SaveCreate, SaveWrite, SaveSync, TypeOK
<1>7. ASSUME NEW p \in Procs, SaveRename(p) PROVE Filed'
  <2>1. pc[p] = "rename" /\ UNCHANGED <<got, pin>>
    BY <1>7 DEF SaveRename
  <2>2. RightPlatform(got[p], pin[p])
    BY <2>1
  <2> DEFINE e == [st |-> Renamed(tmp[p].st), env |-> key[p], what |-> got[p]]
  <2>5. e.what = got[p] /\ Slot(key[p], pin[p])[2] = pin[p]
    BY DEF Slot
  <2>6. file' = file \/ file' = [file EXCEPT ![Slot(key[p], pin[p])] = e]
    BY <1>7 DEF SaveRename
  <2> HIDE DEF e
  <2>3. \A s \in Slots : file'[s] = file[s] \/ (s[2] = pin[p] /\ file'[s].what = got[p])
    BY <2>5, <2>6 DEF TypeOK
  <2>4. \A q \in Procs : pc'[q] \in {"post"} \cup Saving => pc[q] \in {"post"} \cup Saving
    BY <1>7 DEF SaveRename, TypeOK
  <2> QED
    BY <2>1, <2>2, <2>3, <2>4
<1>8. ASSUME NEW p \in Procs, NEW d \in Digests, PruneRemove(p, d) PROVE Filed'
  BY <1>8, BlankUnreadable DEF PruneRemove, TypeOK
<1>9. CASE PowerCut
  BY <1>9, BlankUnreadable DEF PowerCut, TypeOK
<1>10. CASE HourPasses
  BY <1>10 DEF HourPasses
<1>11. CASE Retag
  BY <1>11 DEF Retag
<1>12. ASSUME NEW s \in Slots, Tamper(s) PROVE Filed'
  <2>1. \A d \in Digests : Slot(d, s[2]) \in Slots /\ Slot(d, s[2])[2] = s[2]
    BY DEF Slot, Slots
  <2> QED
    BY <1>12, <2>1, BlankUnreadable DEF Tamper, TypeOK
<1>13. CASE UNCHANGED vars
  BY <1>13 DEF vars
<1> QED
  BY <1>2, <1>3, <1>4, <1>5, <1>6, <1>7, <1>8, <1>9, <1>10, <1>11, <1>12, <1>13
  DEF Next, Begin, Work, Environment

\* Analyses pinned to different platforms never share a cache entry, whatever
\* the reference does between two engine calls.
THEOREM PlatformsApart == Spec => []PlatformFiled
<1>1. Filed => PlatformFiled
  BY DEF Filed, PlatformFiled, RightPlatform
<1> QED
  BY ShapeInit, ShapeStep, FiledInit, FiledStep, <1>1, PTL DEF Spec

-----------------------------------------------------------------------------
(* Digests: what the second ImageID call is worth when the reference never   *)
(* returns to a digest it named before.                                      *)

Verified ==
    /\ tag \notin past
    /\ \A p \in Procs :
        /\ pre[p] # NoDigest => pre[p] = tag \/ pre[p] \in past
        /\ pc[p] = "post" /\ got[p].warm =>
             pre[p] # NoDigest /\ (got[p].of = pre[p] \/ pre[p] \in past)
        /\ pc[p] \in Saving /\ got[p].warm => got[p].of = key[p]
    /\ WarmEntriesTrue

\* At first no run has verified anything.
LEMMA VerifiedInit == Init => Verified
  BY BlankUnreadable DEF Init, Verified, WarmEntriesTrue

\* Moving the reference cannot undo what a run knows about it.
LEMMA MoveKeeps ==
  ASSUME ~TagReturns, TypeOK, tag \notin past, NEW d \in Refs, MoveTag(d)
  PROVE  /\ tag' \notin past'
         /\ past \subseteq past'
         /\ tag # NoDigest => tag \in past'
  BY CacheAssumption DEF MoveTag, TypeOK

\* While the reference does not return, no step makes an entry of a warm run untrue.
LEMMA VerifiedStep == ASSUME ~TagReturns PROVE Shape /\ Verified /\ [Next]_vars => Verified'
<1> SUFFICES ASSUME TypeOK, Control, Verified, [Next]_vars PROVE Verified'
  BY DEF Shape
<1> USE DEF engine, disk, run, Verified, WarmEntriesTrue
<1>0. TypeOK'
  BY ShapeStep DEF Shape
\* Steps of one process that leave the reference and the files alone and do
\* not reach the export or the save.
<1>1. ASSUME NEW p \in Procs, NEW l \in (Working \cup Ended \cup {"idle"}) \ ({"post"} \cup Saving),
             pc' = [pc EXCEPT ![p] = l], UNCHANGED <<engine, file>>,
             pre'[p] \in {pre[p], tag, NoDigest},
             \A q \in Procs \ {p} : got'[q] = got[q] /\ pre'[q] = pre[q] /\ key'[q] = key[q]
      PROVE  Verified'
  BY <1>1 DEF TypeOK
<1>2. ASSUME NEW p \in Procs, Begin(p) \/ LoadRead(p) \/ Ensure(p)
                              \/ PruneScan(p) \/ PruneEnd(p) \/ StartPrune(p) \/ Exit(p)
                              \/ SaveMeta(p) \/ SaveFail(p) \/ Kill(p)
      PROVE  Verified'
  <2>1. /\ UNCHANGED <<engine, file>>
        /\ \E l \in (Working \cup Ended \cup {"idle"}) \ ({"post"} \cup Saving) : pc' = [pc EXCEPT ![p] = l]
    BY <1>2 DEF Begin, Start, LoadRead, Ensure, SaveMeta, PruneScan, PruneEnd, StartPrune,
                Exit, SaveFail, Kill
  <2>2. \A q \in Procs \ {p} : got'[q] = got[q] /\ pre'[q] = pre[q] /\ key'[q] = key[q]
    BY <1>2 DEF Begin, Start, LoadRead, Ensure, SaveMeta, PruneScan, PruneEnd, StartPrune,
                Exit, SaveFail, Kill, Forget, TypeOK
  <2>3. pre'[p] \in {pre[p], tag, NoDigest}
    BY <1>2 DEF Begin, Start, LoadRead, Ensure, SaveMeta, PruneScan, PruneEnd, StartPrune,
                Exit, SaveFail, Kill, Forget, TypeOK
  <2> QED
    BY <2>1, <2>2, <2>3, <1>1
<1>3. ASSUME NEW p \in Procs, LoadEvict(p) PROVE Verified'
  BY <1>3, BlankUnreadable DEF LoadEvict, TypeOK
<1>4. ASSUME NEW p \in Procs, Pull(p) PROVE Verified'
  <2>1. /\ tag' \notin past'
        /\ past \subseteq past'
        /\ tag' = tag \/ (tag # NoDigest => tag \in past')
    BY <1>4, MoveKeeps DEF Pull
  <2>2. UNCHANGED <<file, pre, got, key>>
    BY <1>4 DEF Pull
  <2>3. pc'[p] \in {"export", "failed"} /\ \A q \in Procs \ {p} : pc'[q] = pc[q]
    BY <1>4 DEF Pull, TypeOK
  <2> QED
    BY <2>1, <2>2, <2>3
<1>5. ASSUME NEW p \in Procs, Export(p) PROVE Verified'
  <2>1. pc[p] = "export" /\ UNCHANGED <<tag, past, file, pre, key>>
    BY <1>5 DEF Export
  <2> DEFINE c(w) == [of |-> tag, plat |-> w, warm |-> pre[p] # NoDigest]
  <2>4. \A w \in Exportable(pin[p]) : c(w).of = tag /\ (c(w).warm => pre[p] # NoDigest)
    OBVIOUS
  <2>5. \/ \E w \in Exportable(pin[p]) : got' = [got EXCEPT ![p] = c(w)]
        \/ pc' = [pc EXCEPT ![p] = "failed"]
    BY <1>5 DEF Export
  <2> HIDE DEF c
  <2>2. pc'[p] = "post" => got'[p].of = tag /\ (got'[p].warm => pre[p] # NoDigest)
    BY <2>4, <2>5 DEF TypeOK
  <2>3. pc'[p] \in {"post", "failed"} /\ \A q \in Procs \ {p} : pc'[q] = pc[q] /\ got'[q] = got[q]
    BY <1>5 DEF Export, TypeOK
  <2> QED
    BY <2>1, <2>2, <2>3
<1>6. ASSUME NEW p \in Procs, PostID(p) PROVE Verified'
  <2> DEFINE seen == SecondID(p)
  <2>1. pc[p] = "post" /\ UNCHANGED <<tag, past, file, pre, got>>
    BY <1>6 DEF PostID, Judge
  <2>2. \/ /\ seen # NoDigest /\ (pre[p] = NoDigest \/ seen = pre[p])
           /\ key' = [key EXCEPT ![p] = seen] /\ pc' = [pc EXCEPT ![p] = "mkdir"]
        \/ key' = key /\ pc' = [pc EXCEPT ![p] = "done"]
    BY <1>6 DEF PostID, Judge
  <2>3. seen # NoDigest => seen = tag
    BY DEF SecondID
  <2> HIDE DEF seen
  \* The run trusts its export because the digest it began with is still the
  \* reference's, hence none of the earlier ones.
  <2>4. pc'[p] = "mkdir" /\ got[p].warm => got[p].of = key'[p]
    BY <2>1, <2>2, <2>3 DEF TypeOK
  <2>5. pc'[p] \in {"mkdir", "done"} /\ \A q \in Procs \ {p} : pc'[q] = pc[q] /\ key'[q] = key[q]
    BY <2>2 DEF TypeOK
  <2> QED
    BY <2>1, <2>4, <2>5
<1>7. ASSUME NEW p \in Procs, SaveMkdir(p) \/ SaveCreate(p) \/ SaveWrite(p) \/ SaveSync(p)
      PROVE  Verified'
  BY <1>7 DEF SaveMkdir, SaveCreate, SaveWrite, SaveSync, TypeOK
<1>8. ASSUME NEW p \in Procs, SaveRename(p) PROVE Verified'
  <2>1. pc[p] = "rename" /\ UNCHANGED <<tag, past, pre, got, key>>
    BY <1>8 DEF SaveRename
  <2> DEFINE e == [st |-> Renamed(tmp[p].st), env |-> key[p], what |-> got[p]]
  <2>2. e.what.warm => e.what.of = e.env
    BY <2>1
  <2>3. file' = file \/ file' = [file EXCEPT ![Slot(key[p], pin[p])] = e]
    BY <1>8 DEF SaveRename
  <2> HIDE DEF e
  <2>4. WarmEntriesTrue'
    BY <2>2, <2>3 DEF TypeOK
  <2>5. \A q \in Procs : pc'[q] = pc[q] \/ (q = p /\ pc'[q] \in {"meta", "done"})
    BY <1>8 DEF SaveRename, TypeOK
  <2> QED
    BY <2>1, <2>4, <2>5
<1>9. ASSUME NEW p \in Procs, NEW d \in Digests, PruneRemove(p, d) PROVE Verified'
  BY <1>9, BlankUnreadable DEF PruneRemove, TypeOK
<1>10. CASE PowerCut
  BY <1>10, BlankUnreadable DEF PowerCut, TypeOK
<1>11. CASE HourPasses
  BY <1>11 DEF HourPasses
<1>12. CASE Retag
  <2>1. /\ tag' \notin past'
        /\ past \subseteq past'
        /\ tag # NoDigest => tag \in past'
    BY <1>12, MoveKeeps DEF Retag
  <2> QED
    BY <1>12, <2>1 DEF Retag
<1>13. ASSUME NEW s \in Slots, Tamper(s) PROVE Verified'
  <2>1. \A d \in Digests : Slot(d, s[2]) \in Slots
    BY DEF Slot, Slots
  <2> QED
    BY <1>13, <2>1, BlankUnreadable DEF Tamper, TypeOK
<1>14. CASE UNCHANGED vars
  BY <1>14 DEF vars
<1> QED
  BY <1>2, <1>3, <1>4, <1>5, <1>6, <1>7, <1>8, <1>9, <1>10, <1>11, <1>12, <1>13, <1>14
  DEF Next, Begin, Work, Environment

\* When the reference never returns to an earlier digest, a run that knew the
\* digest beforehand files only the layers of that digest under it.
THEOREM WarmRunsTellTheTruth == ASSUME ~TagReturns PROVE Spec => []WarmEntriesTrue
<1>1. Shape /\ Verified /\ [Next]_vars => Verified'
  BY VerifiedStep
<1>2. Verified => WarmEntriesTrue
  BY DEF Verified
<1> QED
  BY ShapeInit, ShapeStep, VerifiedInit, <1>1, <1>2, PTL DEF Spec

-----------------------------------------------------------------------------
(* What a user of the cache sees.                                            *)

Served ==
    /\ \A p \in Procs : hit[p] => pc[p] = "done"
    /\ HitsTrue

\* At first no run was served.
LEMMA ServedInit == Init => Served
  BY DEF Init, Served, HitsTrue

\* A run is served what the entries hold.
LEMMA ServedStep ==
  Shape /\ Filed /\ WarmEntriesTrue /\ Served /\ [Next]_vars => Served'
<1> SUFFICES ASSUME TypeOK, Control, Filed, WarmEntriesTrue, Served, [Next]_vars PROVE Served'
  BY DEF Shape
<1> USE DEF engine, disk, run, Served, HitsTrue
\* Every step but LoadRead's hit leaves a served run alone or forgets it.
<1>1. ASSUME \A p \in Procs : ~hit'[p] \/ (/\ hit[p] /\ pc'[p] = "done"
                                            /\ got'[p] = got[p] /\ pre'[p] = pre[p] /\ pin'[p] = pin[p])
      PROVE  Served'
  BY <1>1
<1>2. ASSUME NEW p \in Procs, LoadRead(p) PROVE Served'
  <2> DEFINE s == Slot(pre[p], pin[p])
  <2>1. s \in Slots /\ s[2] = pin[p]
    BY <1>2 DEF LoadRead, Control, Slot, Slots
  <2>2. ~hit[p]
    BY <1>2 DEF LoadRead
  <2>3. \A q \in Procs \ {p} : /\ hit'[q] = hit[q] /\ pc'[q] = pc[q] /\ got'[q] = got[q]
                               /\ pre'[q] = pre[q] /\ pin'[q] = pin[q]
    BY <1>2 DEF LoadRead, TypeOK
  <2>4. \/ ~hit'[p]
        \/ /\ Readable(file[s]) /\ file[s].env = pre[p] /\ got'[p] = file[s].what
           /\ pc'[p] = "done" /\ UNCHANGED <<pre, pin>>
    BY <1>2, <2>2 DEF LoadRead, Usable, TypeOK
  <2> HIDE DEF s
  <2>5. hit'[p] => /\ pc'[p] = "done"
                   /\ got'[p].warm => got'[p].of = pre'[p]
                   /\ RightPlatform(got'[p], pin'[p])
    BY <2>1, <2>4 DEF WarmEntriesTrue, Filed
  <2> QED
    BY <2>3, <2>5 DEF RightPlatform
<1>3. ASSUME NEW p \in Procs,
             Begin(p) \/ StartPrune(p) \/ Ensure(p) \/ Pull(p) \/ Export(p) \/ PostID(p)
             \/ LoadEvict(p) \/ SaveMkdir(p) \/ SaveCreate(p) \/ SaveWrite(p) \/ SaveSync(p)
             \/ SaveRename(p) \/ SaveMeta(p) \/ SaveFail(p) \/ PruneScan(p)
             \/ (\E d \in Digests : PruneRemove(p, d)) \/ PruneEnd(p) \/ Exit(p) \/ Kill(p)
      PROVE  Served'
  <2>1. ~hit'[p]
    <3>1. CASE Begin(p)
      BY <3>1 DEF Begin, Start, TypeOK
    <3>2. CASE Exit(p) \/ Kill(p)
      BY <3>2 DEF Exit, Kill, Forget, TypeOK
    <3>3. CASE ~Begin(p) /\ ~Exit(p) /\ ~Kill(p)
      BY <1>3, <3>3 DEF StartPrune, Ensure, Pull, Export, PostID, LoadEvict, SaveMkdir, SaveCreate,
         SaveWrite, SaveSync, SaveRename, SaveMeta, SaveFail, PruneScan, PruneRemove, PruneEnd, Judge
    <3> QED
      BY <3>1, <3>2, <3>3
  <2>2. \A q \in Procs \ {p} : /\ hit'[q] = hit[q] /\ pc'[q] = pc[q] /\ got'[q] = got[q]
                               /\ pre'[q] = pre[q] /\ pin'[q] = pin[q]
    BY <1>3 DEF Begin, Start, StartPrune, Ensure, Pull, Export, PostID, LoadEvict, SaveMkdir,
       SaveCreate, SaveWrite, SaveSync, SaveRename, SaveMeta, SaveFail, PruneScan, PruneRemove,
       PruneEnd, Exit, Kill, Forget, Judge, TypeOK
  <2> QED
    BY <2>1, <2>2
<1>4. CASE PowerCut
  BY <1>4 DEF PowerCut
<1>5. CASE HourPasses \/ Retag \/ UNCHANGED vars
  BY <1>5 DEF HourPasses, Retag, vars
<1>6. ASSUME NEW s \in Slots, Tamper(s) PROVE Served'
  BY <1>6 DEF Tamper
<1> QED
  BY <1>2, <1>3, <1>4, <1>5, <1>6 DEF Next, Begin, Work, Environment

\* A cache hit shows the image the reference named when the run began, on the
\* platform the run asked for, even after files were moved between entries.
THEOREM HitsTellTheTruth == ASSUME ~TagReturns PROVE Spec => []HitsTrue
<1>1. Shape /\ Verified /\ [Next]_vars => Verified'
  BY VerifiedStep
<1>2. Verified => WarmEntriesTrue
  BY DEF Verified
<1>3. Served => HitsTrue
  BY DEF Served
<1> QED
  BY ShapeInit, ShapeStep, FiledInit, FiledStep, VerifiedInit, <1>1, <1>2, ServedInit, ServedStep,
     <1>3, PTL DEF Spec

=============================================================================
