---------------------------- MODULE RestoreProofs ----------------------------
(***************************************************************************)
(* Proofs about module Restore, for every number of entries, requests,     *)
(* boots, backups and changes of the state.                                *)
(***************************************************************************)
EXTENDS Restore, TLAPS

-----------------------------------------------------------------------------
(* Types *)

\* The first entry is an entry, a bundle of absent entries is a bundle, and
\* pruning keeps some of what it is given.
LEMMA Basics ==
    /\ Database \in Entries
    /\ Nothing \in Bundle
    /\ \A S : Kept(S) \subseteq S
BY RestoreAssumption DEF Database, Entries, Nothing, Bundle, Kept

\* The type invariant with its larger sets named, so that a step need not look
\* inside them.
MarkerType == [id : Ids \cup {NoId}, state : {"none", "staged", "applying"}]
ZipType == [kind : {"none", "corrupt", "zip"}, data : Bundle]
SafetyType == [kind : {"none", "zip"}, data : Bundle]
StatusType == [id : Ids \cup {NoId},
               state : {"none", "applied", "failed_preflight", "failed_partial"}]
BootType == [pc : {"idle", "import", "read", "validate", "safety", "mark", "apply",
                   "clear", "report"},
             enabled : BOOLEAN]
BuildType == [on : BOOLEAN, next : Nat, data : Bundle, torn : BOOLEAN]
BackupType == [no : Nat, data : Bundle, torn : BOOLEAN]

Typed ==
    /\ state \in Bundle /\ version \in Nat
    /\ log \in {"own", "stale", "kept"}
    /\ marker \in MarkerType
    /\ zips \in [Ids -> ZipType] /\ safety \in [Ids -> SafetyType]
    /\ status \in StatusType
    /\ proc \in {"down", "boot", "up"} /\ workers \in BOOLEAN
    /\ boot \in BootType
    /\ req \in [Ids -> {"new", "copied", "accepted", "refused"}]
    /\ cancel \in Ids \cup {NoId}
    /\ building \in [Builders -> BuildType]
    /\ backups \subseteq BackupType /\ exports \subseteq Bundle
    /\ written \in Nat /\ boots \in Nat
    /\ todo \subseteq Entries /\ replaced \subseteq Entries /\ before \in Bundle
    /\ applied \in Ids \cup {NoId} /\ settled \subseteq Ids
    /\ misread \in BOOLEAN

LEMMA TypeParts == TypeOK <=> Typed
BY DEF TypeOK, Typed, MarkerType, ZipType, SafetyType, StatusType, BootType, BuildType,
       BackupType

\* How the values of these sets are made and taken apart.
LEMMA Values ==
    /\ NoMarker \in MarkerType
    /\ \A r \in Ids : [id |-> r, state |-> "staged"] \in MarkerType
    /\ NoZip \in ZipType /\ NoZip \in SafetyType /\ CorruptZip \in ZipType
    /\ \A d \in Bundle : Zip(d) \in ZipType /\ Zip(d) \in SafetyType
    /\ \A i \in Ids \cup {NoId}, o \in {"none", "applied", "failed_preflight", "failed_partial"} :
          [id |-> i, state |-> o] \in StatusType
    /\ Idle \in BootType
    /\ \A e \in BOOLEAN : [pc |-> "import", enabled |-> e] \in BootType
    /\ NoBuild \in BuildType
    /\ \A t \in BOOLEAN : [NoBuild EXCEPT !.on = TRUE, !.torn = t] \in BuildType
BY Basics DEF MarkerType, NoMarker, ZipType, SafetyType, NoZip, CorruptZip, Zip, StatusType,
              BootType, Idle, BuildType, NoBuild, Entries, Database

LEMMA Updates ==
    /\ \A d \in Bundle, e \in Entries, v \in Nat : [d EXCEPT ![e] = v] \in Bundle
    /\ \A d \in Bundle, e \in Entries : d[e] \in Nat
    /\ \A f \in MarkerType : f.id \in Ids \cup {NoId}
                             /\ [f EXCEPT !.state = "applying"] \in MarkerType
    /\ \A f \in BootType :
          \A p \in {"idle", "import", "read", "validate", "safety", "mark", "apply", "clear",
                  "report"} :
             [f EXCEPT !.pc = p] \in BootType
    /\ \A z \in ZipType : z.data \in Bundle
    /\ \A z \in SafetyType : z.data \in Bundle
    /\ \A b \in BackupType : b.data \in Bundle
    /\ \A b \in BuildType : b.data \in Bundle /\ b.next \in Nat /\ b.torn \in BOOLEAN
    /\ \A n \in Nat, d \in Bundle, t \in BOOLEAN :
          [no |-> n, data |-> d, torn |-> t] \in BackupType
    /\ \A b \in BuildType, d \in Bundle, n \in Nat :
          [b EXCEPT !.data = d, !.next = n] \in BuildType
BY DEF Bundle, MarkerType, BootType, ZipType, SafetyType, BackupType, BuildType

\* Where the marker stands at each step of the boot, and during a request.
Position ==
    /\ marker.state = "none" <=> marker.id = NoId
    /\ proc = "boot" /\ boot.pc \in {"validate", "safety", "mark"} => marker.state = "staged"
    /\ proc = "boot" /\ boot.pc \in {"apply", "clear"} =>
          marker.state = "applying" /\ applied = marker.id
    /\ proc = "boot" /\ boot.pc = "report" => applied \in Ids
    /\ cancel # NoId => proc = "up"
    /\ \A r \in Ids : req[r] = "copied" =>
          proc = "up" /\ marker.state = "none" /\ (\A q \in Ids : req[q] = "copied" => q = r)

LEMMA MarkerIsNamed ==
    ASSUME Typed, Position
    PROVE  marker = NoMarker \/ (marker.state # "none" /\ marker.id \in Ids)
BY DEF Typed, Position, MarkerType, NoMarker

LEMMA Opening ==
    ASSUME Typed, init
    PROVE  state' \in Bundle /\ version' \in Nat /\ log' = "own"
<1>1. version + 1 \in Nat /\ version \in Nat /\ state \in Bundle
    BY DEF Typed
<1>2. [state EXCEPT ![Database] = version + 1] \in Bundle
    BY <1>1, Basics, Updates
<1>3. CASE log = "own"
    BY <1>1, <1>3 DEF init
<1>4. CASE log # "own"
    BY <1>1, <1>2, <1>4 DEF init
<1> QED
    BY <1>3, <1>4

LEMMA InitTypes == Init => Typed
<1> SUFFICES ASSUME Init PROVE Typed
    OBVIOUS
<1>1. state \in Bundle
    BY DEF Init, Bundle
<1>2. status \in StatusType
    BY Values DEF Init
<1> QED
    BY <1>1, <1>2, Values DEF Init, Typed

LEMMA StepTypes == Typed /\ Position /\ [Next]_vars => Typed'
<1> SUFFICES ASSUME Typed, Position, [Next]_vars PROVE Typed'
    OBVIOUS
<1>0. marker.state # "none" => marker.id \in Ids
    BY MarkerIsNamed DEF NoMarker
<1> USE DEF Typed
<1>1. ASSUME NEW e \in Entries, Work(e) PROVE Typed'
  <2>0. version' = version + 1 /\ version + 1 \in Nat
      BY <1>1 DEF Work
  <2>1. version' \in Nat /\ state' \in Bundle
      BY <1>1, <2>0, Updates DEF Work
  <2> QED
      BY <1>1, <2>1 DEF Work, process, requests, archive, observers
<1>2. ASSUME NEW k \in Builders, StartBackup(k) PROVE Typed'
  <2>1. building' \in [Builders -> BuildType]
      BY <1>2, Values DEF StartBackup, Torn
  <2> QED
      BY <1>2, <2>1 DEF StartBackup, disk, process, requests, observers
<1>3. ASSUME NEW k \in Builders, CopyEntry(k) PROVE Typed'
  <2>1. building[k] \in BuildType /\ building[k].next \in Entries
      BY <1>3 DEF CopyEntry
  <2>2. [building[k].data EXCEPT ![building[k].next] = state[building[k].next]] \in Bundle
      BY <2>1, Updates
  <2>3. building[k].next + 1 \in Nat
    <3>1. building[k].next \in Nat
        BY <2>1, Updates
    <3> QED
        BY <3>1
  <2> DEFINE new == [building[k] EXCEPT
                       !.data = [building[k].data EXCEPT
                                   ![building[k].next] = state[building[k].next]],
                       !.next = building[k].next + 1]
  <2>4. new \in BuildType
      BY <2>1, <2>2, <2>3, Updates
  <2>5. building' = [building EXCEPT ![k] = new]
      BY <1>3, <2>1 DEF CopyEntry, BuildType
  <2>6. building' \in [Builders -> BuildType]
    <3> HIDE DEF new
    <3> QED
        BY <2>4, <2>5
  <2> QED
      BY <1>3, <2>6 DEF CopyEntry, disk, process, requests, observers
<1>4. ASSUME NEW k \in Builders, FailBackup(k) PROVE Typed'
  <2>1. building' \in [Builders -> BuildType]
      BY <1>4, Values DEF FailBackup
  <2> QED
      BY <1>4, <2>1 DEF FailBackup, disk, process, requests, observers
<1>5. ASSUME NEW k \in Builders, FinishBackup(k) PROVE Typed'
  <2>1. building' \in [Builders -> BuildType]
      BY <1>5, Values DEF FinishBackup
  <2>2. [no |-> written, data |-> building[k].data, torn |-> building[k].torn] \in BackupType
        /\ building[k].data \in Bundle
      BY Updates
  <2>3. backups' \subseteq BackupType /\ exports' \subseteq Bundle /\ written' \in Nat
      BY <1>5, <2>2, Basics DEF FinishBackup
  <2> QED
      BY <1>5, <2>1, <2>3 DEF FinishBackup, disk, process, requests, observers
<1>6. ASSUME NEW r \in Ids, StageCopy(r) PROVE Typed'
  <2>1. \A z \in Sources : z \in ZipType
    <3>1. \A b \in backups : b.data \in Bundle
        BY Updates
    <3> QED
        BY <3>1, Values DEF Sources
  <2>2. zips' \in [Ids -> ZipType]
      BY <1>6, <2>1 DEF StageCopy
  <2> QED
      BY <1>6, <2>2 DEF StageCopy, process, archive, observers
<1>7. ASSUME NEW r \in Ids, StageMark(r) PROVE Typed'
  <2>1. zips' \in [Ids -> ZipType] /\ marker' \in MarkerType
      BY <1>7, Values DEF StageMark
  <2> QED
      BY <1>7, <2>1 DEF StageMark, process, archive, observers
<1>8. CASE CancelMarker
  <2>1. marker' \in MarkerType /\ marker.id \in Ids \cup {NoId}
      BY <1>8, Values, Updates DEF CancelMarker
  <2>2. marker.id \in Ids
      BY <1>8, <1>0 DEF CancelMarker
  <2> QED
      BY <1>8, <2>1, <2>2 DEF CancelMarker, process, archive
<1>9. CASE CancelZip
  <2>1. zips' \in [Ids -> ZipType]
      BY <1>9, Values DEF CancelZip
  <2> QED
      BY <1>9, <2>1 DEF CancelZip, process, archive, observers
<1>10. CASE Boot
  <2>1. boot' \in BootType
      BY <1>10, Values DEF Boot
  <2>2. boots' \in Nat
      BY <1>10 DEF Boot
  <2> QED
      BY <1>10, <2>1, <2>2 DEF Boot, observers, disk, requests, archive
<1>11. CASE ExpireReviews
  <2>1. boot' \in BootType
      BY <1>11, Updates DEF ExpireReviews, Goto
  <2>2. state' \in Bundle /\ version' \in Nat
      BY <1>11 DEF ExpireReviews, Bundle
  <2> QED
      BY <1>11, <2>1, <2>2 DEF ExpireReviews, Goto, requests, archive, observers
<1>12. CASE NothingToApply \/ Disabled \/ Revalidate
  <2>1. boot' \in BootType
      BY <1>12, Updates DEF NothingToApply, Disabled, Revalidate, Up, Goto
  <2>2. CASE NothingToApply \/ Disabled
      BY <2>1, <2>2, Opening DEF NothingToApply, Disabled, Up, requests, archive, observers
  <2>3. CASE Revalidate
      BY <2>1, <2>3 DEF Revalidate, Goto, disk, requests, archive, observers
  <2> QED
      BY <1>12, <2>2, <2>3
<1>13. CASE Interrupted
  <2>1. boot' \in BootType
      BY <1>13, Updates DEF Interrupted, Up
  <2>2. status' \in StatusType
      BY <1>13, Updates, Values DEF Interrupted, Report
  <2> QED
      BY <1>13, <2>1, <2>2, Opening DEF Interrupted, Up, requests, archive, observers
<1>14. CASE TakeUp
  <2>1. boot' \in BootType
      BY <1>14, Updates DEF TakeUp, Goto
  <2>2. marker.id \in Ids
      BY <1>14, <1>0 DEF TakeUp
  <2> QED
      BY <1>14, <2>1, <2>2 DEF TakeUp, Goto, disk, requests, archive
<1>15. CASE Unreadable
  <2>1. boot' \in BootType
      BY <1>15, Updates DEF Unreadable, Up
  <2>2. marker' \in MarkerType /\ status' \in StatusType
      BY <1>15, Values DEF Unreadable, Report
  <2>3. marker.id \in Ids
      BY <1>15, MarkerIsNamed DEF Unreadable
  <2> QED
      BY <1>15, <2>1, <2>2, <2>3, Opening DEF Unreadable, Up, requests, archive
<1>16. CASE FailPreflight
  <2>1. boot' \in BootType
      BY <1>16, Updates DEF FailPreflight, Up
  <2>2. marker' \in MarkerType
      BY <1>16, Values DEF FailPreflight
  <2>4. status' \in StatusType
    <3>1. marker.id \in Ids \cup {NoId}
        BY Updates
    <3> QED
        BY <1>16, <3>1, Values DEF FailPreflight, Report
  <2>3. zips' \in [Ids -> ZipType]
      BY <1>16, Values DEF FailPreflight
  <2> QED
      BY <1>16, <2>1, <2>2, <2>3, <2>4, Opening DEF FailPreflight, Up, requests, archive, observers
<1>17. CASE WriteSafety
  <2>1. boot' \in BootType
      BY <1>17, Updates DEF WriteSafety, Goto
  <2>2. safety' \in [Ids -> SafetyType]
      BY <1>17, Values DEF WriteSafety
  <2> QED
      BY <1>17, <2>1, <2>2 DEF WriteSafety, Goto, requests, archive, observers
<1>18. CASE MarkApplying
  <2>1. boot' \in BootType
      BY <1>18, Updates DEF MarkApplying, Goto
  <2>2. marker' \in MarkerType /\ marker.id \in Ids \cup {NoId}
      BY <1>18, Updates DEF MarkApplying
  <2> QED
      BY <1>18, <2>1, <2>2 DEF MarkApplying, Goto, requests, archive
<1>19. CASE ApplyEntry
  <2>2. marker.id \in Ids
      BY <1>19, <1>0 DEF ApplyEntry, At, Position
  <2>3. zips[marker.id].data \in Bundle
      BY <2>2, Updates
  <2>4. \A e \in todo : [state EXCEPT ![e] = zips[marker.id].data[e]] \in Bundle
      BY <2>3, Updates
  <2>1. state' \in Bundle /\ log' \in {"own", "stale", "kept"}
      BY <1>19, <2>4 DEF ApplyEntry
  <2>5. boot' \in BootType /\ UNCHANGED <<proc, workers, boots>>
      BY <1>19, Updates DEF ApplyEntry, Goto, process
  <2> QED
      BY <1>19, <2>1, <2>5 DEF ApplyEntry, requests, archive
<1>26. CASE _remove_wal_shm
  <2>1. boot' \in BootType
      BY <1>26, Updates DEF _remove_wal_shm, Goto
  <2> QED
      BY <1>26, <2>1 DEF _remove_wal_shm, Goto, requests, archive, observers
<1>20. CASE FailPartial
  <2>1. boot' \in BootType
      BY <1>20, Updates DEF FailPartial, Up
  <2>2. status' \in StatusType
      BY <1>20, Updates, Values DEF FailPartial, Report
  <2> QED
      BY <1>20, <2>1, <2>2, Opening DEF FailPartial, Up, requests, archive, observers
<1>21. CASE ClearMarker
  <2>1. boot' \in BootType
      BY <1>21, Updates DEF ClearMarker, Goto
  <2>2. marker' \in MarkerType
      BY <1>21, Values DEF ClearMarker
  <2> QED
      BY <1>21, <2>1, <2>2 DEF ClearMarker, Goto, requests, archive, observers
<1>22. CASE ReportApplied
  <2>1. boot' \in BootType
      BY <1>22, Updates DEF ReportApplied, Up
  <2>2. status' \in StatusType
      BY <1>22, Values DEF ReportApplied, Report
  <2>3. zips' \in [Ids -> ZipType]
      BY <1>22, Values DEF ReportApplied
  <2> QED
      BY <1>22, <2>1, <2>2, <2>3, Opening DEF ReportApplied, Up, requests, archive, observers
<1>23. CASE Stop
  <2>1. building' \in [Builders -> BuildType] /\ boot' \in BootType
      BY <1>23, Values DEF Stop
  <2> QED
      BY <1>23, <2>1 DEF Stop, disk, observers
<1>24. CASE Recover
  <2>2. marker.id \in Ids
      BY <1>24, <1>0 DEF Recover
  <2>1. state' \in Bundle /\ marker' \in MarkerType
      BY <1>24, <2>2, Updates, Values DEF Recover, Bundle
  <2> QED
      BY <1>24, <2>1 DEF Recover, process, requests, archive
<1>25. CASE UNCHANGED vars
    BY <1>25 DEF vars, disk, process, requests, archive, observers
<1> QED
    BY <1>1, <1>2, <1>3, <1>4, <1>5, <1>6, <1>7, <1>8, <1>9, <1>10, <1>11, <1>12, <1>13,
       <1>14, <1>15, <1>16, <1>17, <1>18, <1>19, <1>20, <1>21, <1>22, <1>23, <1>24, <1>25,
       <1>26 DEF Next

LEMMA InitPosition == Init => Position
BY DEF Init, Position, NoMarker, Idle

LEMMA StepPosition == Typed /\ Position /\ [Next]_vars => Position'
<1> SUFFICES ASSUME Typed, Position, [Next]_vars PROVE Position'
    OBVIOUS
<1>0. marker.state # "none" => marker.id \in Ids
    BY MarkerIsNamed DEF NoMarker
<1> USE RestoreAssumption DEF Position
<1>1. ASSUME NEW e \in Entries, Work(e) PROVE Position'
    BY <1>1 DEF Work, process, requests, observers
<1>2. ASSUME NEW k \in Builders, StartBackup(k) \/ CopyEntry(k) \/ FailBackup(k) \/ FinishBackup(k)
      PROVE  Position'
    BY <1>2 DEF StartBackup, CopyEntry, FailBackup, FinishBackup, disk, process, requests,
                observers
<1>3. ASSUME NEW r \in Ids, StageCopy(r) PROVE Position'
    BY <1>3 DEF StageCopy, Free, NoMarker, Typed, process, observers
<1>4. ASSUME NEW r \in Ids, StageMark(r) PROVE Position'
    BY <1>4 DEF StageMark, Typed, process, observers
<1>5. CASE CancelMarker
    BY <1>5 DEF CancelMarker, Free, NoMarker, process
<1>6. CASE CancelZip
    BY <1>6 DEF CancelZip, process, observers
<1>7. CASE Boot
    BY <1>7 DEF Boot, Typed, disk, requests
<1>8. CASE ExpireReviews \/ NothingToApply \/ Interrupted \/ Disabled \/ TakeUp \/ Revalidate
           \/ WriteSafety \/ FailPartial \/ ReportApplied
    BY <1>8 DEF ExpireReviews, NothingToApply, Interrupted, Disabled, TakeUp, Revalidate,
                WriteSafety, FailPartial, ReportApplied, At, Goto, Up, Typed, BootType, disk,
                requests, observers
<1>9. CASE Unreadable
    BY <1>9 DEF Unreadable, NoMarker, At, Up, requests
<1>10. CASE FailPreflight
    BY <1>10 DEF FailPreflight, NoMarker, Up, requests, observers
<1>11. CASE MarkApplying
    BY <1>0, <1>11 DEF MarkApplying, At, Goto, Typed, MarkerType, BootType, requests
<1>12. CASE ApplyEntry \/ _remove_wal_shm
    BY <1>12 DEF ApplyEntry, _remove_wal_shm, At, Goto, Typed, BootType, process, requests,
                 observers
<1>13. CASE ClearMarker
  <2>1. applied \in Ids
      BY <1>0, <1>13 DEF ClearMarker, At
  <2> QED
      BY <1>13, <2>1 DEF ClearMarker, NoMarker, At, Goto, Typed, BootType, requests, observers
<1>14. CASE Stop
    BY <1>14 DEF Stop, Typed, disk, observers
<1>15. CASE Recover
    BY <1>15 DEF Recover, NoMarker, process, requests
<1>16. CASE UNCHANGED vars
    BY <1>16 DEF vars, disk, process, requests, observers
<1> QED
    BY <1>1, <1>2, <1>3, <1>4, <1>5, <1>6, <1>7, <1>8, <1>9, <1>10, <1>11, <1>12, <1>13,
       <1>14, <1>15, <1>16 DEF Next

\* Every step of requests, backup threads, boot, faults and operator keeps the
\* types of disk, process and observers.
THEOREM RestoreTypeCorrect == Spec => []TypeOK
<1>1. Init => Typed /\ Position
    BY InitTypes, InitPosition
<1>2. Typed /\ Position /\ [Next]_vars => (Typed /\ Position)'
    BY StepTypes, StepPosition
<1>3. Typed => TypeOK
    BY TypeParts
<1> QED
    BY <1>1, <1>2, <1>3, PTL DEF Spec

-----------------------------------------------------------------------------
(* Failing closed *)

Preflight == proc = "boot" /\ boot.pc \in {"validate", "safety", "mark"}

\* A half-replaced state is under an `applying' marker as long as every boot
\* could read it, and the steps that start the workers are not behind one.
Closed ==
    /\ workers => proc = "up"
    /\ Preflight => replaced = {} /\ todo = {}
    /\ proc = "boot" /\ boot.pc = "report" => todo = {}
    /\ ~misread =>
          /\ Torn => marker.state = "applying"
          /\ workers => ~Torn
          /\ ~building["scheduled"].torn
          /\ \A b \in backups : ~b.torn

LEMMA InitClosed == Init => Closed
BY DEF Init, Closed, Preflight, Idle, Torn, NoBuild, Builders

LEMMA StepClosed == Typed /\ Position /\ Closed /\ [Next]_vars => Closed'
<1> SUFFICES ASSUME Typed, Position, Closed, [Next]_vars PROVE Closed'
    OBVIOUS
<1> USE DEF Closed, Preflight, Torn
<1>1. ASSUME NEW e \in Entries, Work(e) PROVE Closed'
    BY <1>1 DEF Work, process, archive, observers
<1>2. ASSUME NEW k \in Builders, StartBackup(k) PROVE Closed'
    BY <1>2 DEF StartBackup, NoBuild, Builders, Typed, disk, process, observers
<1>3. ASSUME NEW k \in Builders, CopyEntry(k) PROVE Closed'
  <2>1. building'["scheduled"].torn = building["scheduled"].torn
      BY <1>3 DEF CopyEntry, Builders, Typed, BuildType
  <2> QED
      BY <1>3, <2>1 DEF CopyEntry, disk, process, observers
<1>4. ASSUME NEW k \in Builders, FailBackup(k) PROVE Closed'
    BY <1>4 DEF FailBackup, NoBuild, Builders, Typed, disk, process, observers
<1>5. ASSUME NEW k \in Builders, FinishBackup(k) PROVE Closed'
  <2>1. ~misread => ~building'["scheduled"].torn
      BY <1>5 DEF FinishBackup, NoBuild, Builders, Typed
  <2>2. ~misread => \A b \in backups' : ~b.torn
      BY <1>5, Basics DEF FinishBackup
  <2> QED
      BY <1>5, <2>1, <2>2 DEF FinishBackup, disk, process, observers
<1>6. ASSUME NEW r \in Ids, StageCopy(r) PROVE Closed'
    BY <1>6 DEF StageCopy, process, archive, observers
<1>7. ASSUME NEW r \in Ids, StageMark(r) PROVE Closed'
    BY <1>7 DEF StageMark, Position, process, archive, observers
<1>8. CASE CancelMarker \/ CancelZip
    BY <1>8 DEF CancelMarker, CancelZip, process, archive, observers
<1>9. CASE Boot
    BY <1>9 DEF Boot, observers, Typed, disk, archive
<1>10. CASE ExpireReviews \/ NothingToApply \/ Interrupted \/ Disabled \/ TakeUp
    BY <1>10 DEF ExpireReviews, NothingToApply, Interrupted, Disabled, TakeUp, NoMarker, At,
                 Goto, Up, Typed, BootType, disk, archive, observers
<1>11. CASE Unreadable
    BY <1>11 DEF Unreadable, At, Up, Typed, BootType, archive
<1>12. CASE FailPreflight
    BY <1>12 DEF FailPreflight, Up, Typed, BootType, archive, observers
<1>13. CASE Revalidate \/ WriteSafety
    BY <1>13 DEF Revalidate, WriteSafety, At, Goto, Typed, BootType, disk, archive, observers
<1>14. CASE MarkApplying
    BY <1>14 DEF MarkApplying, At, Goto, Typed, BootType, archive
<1>15. CASE ApplyEntry \/ _remove_wal_shm
    BY <1>15 DEF ApplyEntry, _remove_wal_shm, At, Goto, Position, Typed, BootType, process,
                 archive, observers
<1>16. CASE FailPartial
    BY <1>16 DEF FailPartial, At, Up, Typed, BootType, archive, observers
<1>17. CASE ClearMarker \/ ReportApplied
    BY <1>17 DEF ClearMarker, ReportApplied, At, Goto, Up, Typed, BootType, archive, observers
<1>18. CASE Stop
    BY <1>18 DEF Stop, NoBuild, Builders, disk, observers
<1>19. CASE Recover
    BY <1>19 DEF Recover, process, archive
<1>20. CASE UNCHANGED vars
    BY <1>20 DEF vars, disk, process, archive, observers
<1> QED
    BY <1>1, <1>2, <1>3, <1>4, <1>5, <1>6, <1>7, <1>8, <1>9, <1>10, <1>11, <1>12, <1>13,
       <1>14, <1>15, <1>16, <1>17, <1>18, <1>19, <1>20 DEF Next

\* No worker and no scheduled backup meets a half-replaced state, for any number
\* of crashes, reboots and restores, while the boots can read the marker.
THEOREM RestoreFailsClosed == Spec => []FailsClosed
<1>1. Init => Typed /\ Position /\ Closed
    BY InitTypes, InitPosition, InitClosed
<1>2. Typed /\ Position /\ Closed /\ [Next]_vars => (Typed /\ Position /\ Closed)'
    BY StepTypes, StepPosition, StepClosed
<1>3. Closed => FailsClosed
    BY DEF Closed, FailsClosed
<1> QED
    BY <1>1, <1>2, <1>3, PTL DEF Spec

-----------------------------------------------------------------------------
(* The safety backup *)

Captured ==
    /\ Preflight => replaced = {} /\ state = before
    /\ proc = "boot" /\ boot.pc = "mark" => safety[marker.id] = Zip(before)
    /\ proc = "boot" /\ boot.pc \in {"apply", "clear"} => safety[applied] = Zip(before)
    /\ SafetyFirst

LEMMA InitCaptured == Init => Captured
BY DEF Init, Captured, Preflight, Idle, SafetyFirst

LEMMA StepCaptured == Typed /\ Position /\ Captured /\ [Next]_vars => Captured'
<1> SUFFICES ASSUME Typed, Position, Captured, [Next]_vars PROVE Captured'
    OBVIOUS
<1>0. marker.state # "none" => marker.id \in Ids
    BY MarkerIsNamed DEF NoMarker
<1> USE DEF Captured, Preflight, SafetyFirst
<1>1. ASSUME NEW e \in Entries, Work(e) PROVE Captured'
    BY <1>1 DEF Work, process, observers
<1>2. ASSUME NEW k \in Builders, StartBackup(k) \/ CopyEntry(k) \/ FailBackup(k) \/ FinishBackup(k)
      PROVE  Captured'
    BY <1>2 DEF StartBackup, CopyEntry, FailBackup, FinishBackup, disk, process, observers
<1>3. ASSUME NEW r \in Ids, StageCopy(r) \/ StageMark(r) PROVE Captured'
    BY <1>3 DEF StageCopy, StageMark, Position, process, observers
<1>4. CASE CancelMarker \/ CancelZip
    BY <1>4 DEF CancelMarker, CancelZip, Free, process, observers
<1>5. CASE Boot
    BY <1>5 DEF Boot, observers, Typed, disk
<1>6. CASE ExpireReviews \/ NothingToApply \/ Interrupted \/ Disabled
    BY <1>6 DEF ExpireReviews, NothingToApply, Interrupted, Disabled, At, Goto, Up, Typed,
                BootType, disk, observers
<1>7. CASE TakeUp
    BY <1>7 DEF TakeUp, At, Goto, Typed, BootType, disk
<1>8. CASE Unreadable \/ FailPreflight
    BY <1>8 DEF Unreadable, FailPreflight, At, Up, Typed, BootType, observers
<1>9. CASE Revalidate
    BY <1>9 DEF Revalidate, At, Goto, Typed, BootType, disk, observers
<1>10. CASE WriteSafety
    BY <1>0, <1>10 DEF WriteSafety, At, Goto, Position, Typed, BootType, observers
<1>11. CASE MarkApplying
    BY <1>11 DEF MarkApplying, At, Goto, Typed, MarkerType, BootType
<1>12. CASE ApplyEntry \/ _remove_wal_shm
    BY <1>12 DEF ApplyEntry, _remove_wal_shm, At, Goto, Typed, BootType, process, observers
<1>13. CASE FailPartial \/ ClearMarker \/ ReportApplied
    BY <1>13 DEF FailPartial, ClearMarker, ReportApplied, At, Goto, Up, Typed, BootType,
                 observers
<1>14. CASE Stop
    BY <1>14 DEF Stop, disk, observers
<1>15. CASE Recover
    BY <1>15 DEF Recover, process
<1>16. CASE UNCHANGED vars
    BY <1>16 DEF vars, disk, process, observers
<1> QED
    BY <1>1, <1>2, <1>3, <1>4, <1>5, <1>6, <1>7, <1>8, <1>9, <1>10, <1>11, <1>12, <1>13,
       <1>14, <1>15, <1>16 DEF Next

\* The safety backup of a restore that has replaced anything holds every entry
\* as its boot found it, and no later boot writes over it.
THEOREM SafetyBackupHolds == Spec => []SafetyFirst
<1>1. Init => Typed /\ Position /\ Captured
    BY InitTypes, InitPosition, InitCaptured
<1>2. Typed /\ Position /\ Captured /\ [Next]_vars => (Typed /\ Position /\ Captured)'
    BY StepTypes, StepPosition, StepCaptured
<1>3. Captured => SafetyFirst
    BY DEF Captured
<1> QED
    BY <1>1, <1>2, <1>3, PTL DEF Spec

-----------------------------------------------------------------------------
(* Accepted restores *)

Promised ==
    /\ Preflight => marker.id \in settled
    /\ proc = "boot" /\ boot.pc \in {"apply", "clear", "report"} => applied \in settled
    /\ cancel # NoId => cancel \in settled
    /\ AcceptedIsHonoured

LEMMA InitPromised == Init => Promised
BY DEF Init, Promised, Preflight, Idle, AcceptedIsHonoured

LEMMA StepPromised == Typed /\ Position /\ Promised /\ [Next]_vars => Promised'
<1> SUFFICES ASSUME Typed, Position, Promised, [Next]_vars PROVE Promised'
    OBVIOUS
<1>0. marker.state # "none" => marker.id \in Ids
    BY MarkerIsNamed DEF NoMarker
<1> USE DEF Promised, Preflight, AcceptedIsHonoured
<1>1. ASSUME NEW e \in Entries, Work(e) PROVE Promised'
    BY <1>1 DEF Work, process, requests, observers
<1>2. ASSUME NEW k \in Builders, StartBackup(k) \/ CopyEntry(k) \/ FailBackup(k) \/ FinishBackup(k)
      PROVE  Promised'
    BY <1>2 DEF StartBackup, CopyEntry, FailBackup, FinishBackup, disk, process, requests,
                observers
<1>3. ASSUME NEW r \in Ids, StageCopy(r) PROVE Promised'
    BY <1>3 DEF StageCopy, Typed, process, observers
<1>4. ASSUME NEW r \in Ids, StageMark(r) PROVE Promised'
  <2>1. \A q \in Ids : req[q] = "accepted" => q \in settled
      BY <1>4 DEF StageMark, Position
  <2>2. proc = "up"
      BY <1>4 DEF StageMark, Position
  <2>3. \A q \in Ids : req'[q] = "accepted" /\ q # r => req[q] = "accepted"
      BY <1>4 DEF StageMark, Typed
  <2>4. req'[r] = "accepted" => marker' = [id |-> r, state |-> "staged"] /\ zips'[r].kind = "zip"
      BY <1>4 DEF StageMark, Typed
  <2> QED
      BY <1>4, <2>1, <2>2, <2>3, <2>4 DEF StageMark, process, observers
<1>5. CASE CancelMarker
    BY <1>0, <1>5 DEF CancelMarker, Free, process
<1>6. CASE CancelZip
    BY <1>6 DEF CancelZip, Typed, process, observers
<1>7. CASE Boot
    BY <1>7 DEF Boot, observers, Typed, disk, requests
<1>8. CASE ExpireReviews \/ NothingToApply \/ Interrupted \/ Disabled \/ Revalidate
           \/ WriteSafety \/ FailPartial
    BY <1>8 DEF ExpireReviews, NothingToApply, Interrupted, Disabled, Revalidate,
                WriteSafety, FailPartial, At, Goto, Up, Typed, BootType, disk, requests,
                observers
<1>9. CASE TakeUp
    BY <1>9 DEF TakeUp, At, Goto, Typed, BootType, disk, requests
<1>10. CASE Unreadable
    BY <1>10 DEF Unreadable, At, Up, Typed, BootType, requests
<1>11. CASE FailPreflight
  <2>1. \A q \in Ids : req[q] = "accepted" => q \in settled
      BY <1>11 DEF FailPreflight
  <2> QED
      BY <1>11, <2>1 DEF FailPreflight, Up, Typed, BootType, requests, observers
<1>12. CASE MarkApplying
  <2>1. \A q \in Ids : req[q] = "accepted" => q \in settled
      BY <1>12 DEF MarkApplying, At
  <2> QED
      BY <1>12, <2>1 DEF MarkApplying, At, Goto, Typed, BootType, requests
<1>13. CASE ApplyEntry \/ _remove_wal_shm
    BY <1>13 DEF ApplyEntry, _remove_wal_shm, At, Goto, Typed, BootType, process, requests,
                 observers
<1>14. CASE ClearMarker
  <2>1. \A q \in Ids : req[q] = "accepted" => q \in settled
      BY <1>14 DEF ClearMarker, At, Position
  <2> QED
      BY <1>14, <2>1 DEF ClearMarker, At, Goto, Typed, BootType, requests, observers
<1>15. CASE ReportApplied
  <2>1. \A q \in Ids : q \notin settled => zips'[q] = zips[q]
      BY <1>15 DEF ReportApplied, At, Typed
  <2> QED
      BY <1>15, <2>1 DEF ReportApplied, At, Up, Typed, BootType, requests, observers
<1>16. CASE Stop
    BY <1>16 DEF Stop, Typed, disk, observers
<1>17. CASE Recover
    BY <1>17 DEF Recover, process, requests
<1>18. CASE UNCHANGED vars
    BY <1>18 DEF vars, disk, process, requests, observers
<1> QED
    BY <1>1, <1>2, <1>3, <1>4, <1>5, <1>6, <1>7, <1>8, <1>9, <1>10, <1>11, <1>12, <1>13,
       <1>14, <1>15, <1>16, <1>17, <1>18 DEF Next

\* A restore answered with 202 is the pending one, with its validated zip, until
\* it is cancelled or taken up by a boot, for any number of requests and restarts.
THEOREM AcceptedRestoreIsKept == Spec => []AcceptedIsHonoured
<1>1. Init => Typed /\ Position /\ Promised
    BY InitTypes, InitPosition, InitPromised
<1>2. Typed /\ Position /\ Promised /\ [Next]_vars => (Typed /\ Position /\ Promised)'
    BY StepTypes, StepPosition, StepPromised
<1>3. Promised => AcceptedIsHonoured
    BY DEF Promised
<1> QED
    BY <1>1, <1>2, <1>3, PTL DEF Spec

-----------------------------------------------------------------------------
(* The report *)

\* What the apply has left behind it is as in the zip.  A log of another
\* database is there only between a crash and the next opening, or until the
\* apply has tried to unlink it.
Replacing ==
    /\ proc = "up" \/ marker.state = "staged" => log = "own"
    /\ proc = "boot" /\ boot.pc \in {"apply", "report"} => log # "stale"
    /\ Preflight => state = before
    /\ proc = "boot" /\ boot.pc \in {"apply", "clear", "report"} =>
          \A e \in Entries \ todo : zips[applied].data[e] \in {0, state[e]}
    /\ proc = "boot" /\ boot.pc = "report" => todo = {}

LEMMA InitReplacing == Init => Replacing
BY DEF Init, Replacing, Preflight, Idle

LEMMA StepReplacing == Typed /\ Position /\ Replacing /\ [Next]_vars => Replacing'
<1> SUFFICES ASSUME Typed, Position, Replacing, [Next]_vars PROVE Replacing'
    OBVIOUS
<1>0. marker.state # "none" => marker.id \in Ids
    BY MarkerIsNamed DEF NoMarker
<1> USE DEF Replacing, Preflight
<1>1. ASSUME NEW e \in Entries, Work(e) PROVE Replacing'
    BY <1>1 DEF Work, process, observers
<1>2. ASSUME NEW k \in Builders, StartBackup(k) \/ CopyEntry(k) \/ FailBackup(k) \/ FinishBackup(k)
      PROVE  Replacing'
    BY <1>2 DEF StartBackup, CopyEntry, FailBackup, FinishBackup, disk, process, observers
<1>3. ASSUME NEW r \in Ids, StageCopy(r) \/ StageMark(r) PROVE Replacing'
    BY <1>3 DEF StageCopy, StageMark, Free, Position, process, observers
<1>4. CASE CancelMarker
    BY <1>4 DEF CancelMarker, Free, process
<1>5. CASE CancelZip
  <2>1. proc # "boot"
      BY <1>5 DEF CancelZip, Position
  <2> QED
      BY <1>5, <2>1 DEF CancelZip, process, observers
<1>6. CASE Boot
    BY <1>6 DEF Boot, Typed, disk
<1>7. CASE ExpireReviews \/ TakeUp \/ Revalidate \/ WriteSafety
    BY <1>7 DEF ExpireReviews, TakeUp, Revalidate, WriteSafety, At, Goto, Typed, BootType,
                disk, observers
<1>8. CASE NothingToApply \/ Interrupted \/ Disabled \/ Unreadable \/ FailPreflight
           \/ FailPartial \/ ReportApplied
  <2>1. proc' = "up" /\ log' = "own"
      BY <1>8 DEF NothingToApply, Interrupted, Disabled, Unreadable, FailPreflight, FailPartial,
                  ReportApplied, Up, init
  <2> QED
      BY <2>1
<1>9. CASE MarkApplying
    BY <1>9 DEF MarkApplying, At, Goto, Position, Typed, MarkerType, BootType
<1>10. CASE ApplyEntry
  <2>1. /\ marker.id \in Ids /\ applied = marker.id
        /\ UNCHANGED <<marker, zips, applied>> /\ marker.state = "applying"
      BY <1>0, <1>10 DEF ApplyEntry, At, Position
  <2>2. \A e \in Entries \ todo' : zips'[applied'].data[e] \in {0, state'[e]}
      BY <1>10, <2>1 DEF ApplyEntry, At, Typed, Bundle
  <2>3. /\ proc' = proc /\ proc = "boot"
        /\ \/ boot' = boot /\ boot.pc = "apply" /\ log' = log
           \/ boot'.pc = "clear"
      BY <1>10 DEF ApplyEntry, At, Goto, Typed, BootType, process
  <2> QED
      BY <2>1, <2>2, <2>3
<1>15. CASE _remove_wal_shm
    BY <1>15 DEF _remove_wal_shm, At, Goto, Position, Typed, BootType, observers
<1>11. CASE ClearMarker
    BY <1>11 DEF ClearMarker, NoMarker, At, Goto, Position, Typed, BootType, observers
<1>12. CASE Stop
    BY <1>12 DEF Stop, disk, observers
<1>13. CASE Recover
    BY <1>13 DEF Recover, NoMarker, process
<1>14. CASE UNCHANGED vars
    BY <1>14 DEF vars, disk, process, observers
<1> QED
    BY <1>1, <1>2, <1>3, <1>4, <1>5, <1>6, <1>7, <1>8, <1>9, <1>10, <1>11, <1>12, <1>13,
       <1>14, <1>15 DEF Next

\* Only five steps write the status, and each of them knows what it says.
LEMMA StatusSteps ==
    Typed /\ Position /\ Replacing /\ [Next]_vars => [TrueReport]_vars
<1> SUFFICES ASSUME Typed, Position, Replacing, Next PROVE TrueReport
    BY DEF TrueReport
<1> USE DEF TrueReport
<1>1. ASSUME UNCHANGED status PROVE TrueReport
    BY <1>1
<1>2. CASE Interrupted \/ FailPartial
    BY <1>2 DEF Interrupted, FailPartial, Report, Up, At, Position
<1>3. CASE Unreadable
    BY <1>3 DEF Unreadable, Report
<1>4. CASE FailPreflight
  <2>1. state' = state
      BY <1>4 DEF FailPreflight, Replacing, Position, Up, init
  <2> QED
      BY <1>4, <2>1 DEF FailPreflight, Report, Replacing, Preflight
<1>5. CASE ReportApplied
  <2>1. \/ state' = state
        \/ log = "kept" /\ state' = [state EXCEPT ![Database] = version + 1]
      BY <1>5 DEF ReportApplied, Replacing, At, Up, init, Typed
  <2>2. \A e \in Entries : state'[e] = state[e] \/ (e = Database /\ log = "kept")
      BY <2>1 DEF Typed, Bundle
  <2>3. /\ \A e \in Entries : zips[applied].data[e] \in {0, state[e]}
        /\ status' # status => status'.id = applied /\ status'.state = "applied"
      BY <1>5 DEF ReportApplied, Report, Replacing, At
  <2> QED
      BY <2>2, <2>3
<1>6. Next => UNCHANGED status \/ Interrupted \/ FailPartial \/ Unreadable \/ FailPreflight
              \/ ReportApplied
    BY DEF Next, Work, StartBackup, CopyEntry, FailBackup, FinishBackup, StageCopy, StageMark,
           CancelMarker, CancelZip, Boot, ExpireReviews, NothingToApply, Disabled, TakeUp,
           Revalidate, WriteSafety, MarkApplying, ApplyEntry, _remove_wal_shm, ClearMarker, Stop,
           Recover, disk
<1> QED
    BY <1>1, <1>2, <1>3, <1>4, <1>5, <1>6

\* What restore_status.json newly says of a restore is so, for any number of
\* entries, restores and crashes, except of a database whose stale log could not
\* be unlinked.
THEOREM StatusIsTrue == Spec => ReportIsTrue
<1>1. Init => Typed /\ Position /\ Replacing
    BY InitTypes, InitPosition, InitReplacing
<1>2. Typed /\ Position /\ Replacing /\ [Next]_vars => (Typed /\ Position /\ Replacing)'
    BY StepTypes, StepPosition, StepReplacing
<1>3. Typed /\ Position /\ Replacing /\ [Next]_vars => [TrueReport]_vars
    BY StatusSteps
<1> QED
    BY <1>1, <1>2, <1>3, PTL DEF Spec, ReportIsTrue
=============================================================================
