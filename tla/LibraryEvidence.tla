-------------------------- MODULE LibraryEvidence --------------------------
(***************************************************************************)
(* The library_evidence row of one track file and everyone who measures    *)
(* that file: the scan thread in one of its tiers, and the import path,    *)
(* which measures an album's existing files before it decides whether a    *)
(* candidate may replace them.  Rows of different files are independent.   *)
(*                                                                         *)
(* The file on disk is replaced or retagged at any time; its successive    *)
(* contents are numbered, and a (path, size, mtime) triple identifies one. *)
(* A verdict is represented by the number of the content it was measured   *)
(* on, 0 standing for NULL.  A sensor version column is reduced to whether *)
(* it equals the version of the running code.                              *)
(***************************************************************************)
EXTENDS Naturals

CONSTANTS
    SpectralOn,    \* MINTARR_LIBRARY_SPECTRAL
    MaxContents,   \* bound on the contents the file goes through
    MaxUpgrades    \* bound on deployments that bump a sensor version

AllTiers == {"cheap", "metadata", "integrity", "spectral"}

ASSUME LibraryEvidenceAssumption ==
    /\ SpectralOn \in BOOLEAN
    /\ MaxContents \in Nat \ {0} /\ MaxUpgrades \in Nat

VARIABLES
    file,      \* the content now on disk
    row,       \* the library_evidence row
    task,      \* what each measurer is doing
    upgrades,
    split      \* ghost: a scan of the metadata or the integrity tier has run

evidenceVars == <<file, row, task, upgrades, split>>

Measurers == {"scan", "import"}

\* `stat' is path/size/mtime, the freshness basis all tiers share; `status',
\* `codec' and `sensor_version' belong to the metadata tier, and so on.
Row == [stat : Nat, status : {"none", "measured", "unmeasured"}, codec : Nat,
        sensor_version : BOOLEAN, integrity_ok : Nat,
        integrity_sensor_version : BOOLEAN,
        spectral_status : {"none", "measured", "unmeasured"}, authentic : Nat,
        spectral_sensor_version : BOOLEAN]

NoRow == [stat |-> 0, status |-> "none", codec |-> 0, sensor_version |-> FALSE,
          integrity_ok |-> 0, integrity_sensor_version |-> FALSE,
          spectral_status |-> "none", authentic |-> 0,
          spectral_sensor_version |-> FALSE]

\* A measurer's locals: the tier, the stat it took, what it measured on.
Task == [pc : {"idle", "measure", "write", "spectral"}, tier : AllTiers,
         stat : Nat, seen : Nat, status : {"none", "measured", "unmeasured"}]

Idle == [pc |-> "idle", tier |-> "cheap", stat |-> 0, seen |-> 0, status |-> "none"]

EvidenceInit ==
    /\ file = 1
    /\ row = NoRow
    /\ task = [m \in Measurers |-> Idle]
    /\ upgrades = 0
    /\ split = FALSE

-----------------------------------------------------------------------------
(* Freshness *)

OnDisk == row.stat # 0 /\ row.stat = file

is_measured_row_fresh == row.status = "measured" /\ row.sensor_version /\ OnDisk
is_integrity_row_fresh == row.integrity_sensor_version /\ OnDisk
is_spectral_row_fresh ==
    row.spectral_status = "measured" /\ row.spectral_sensor_version /\ OnDisk

\* The fused tier's own test: both sensor versions must be current.
CheapFresh == is_measured_row_fresh /\ row.integrity_sensor_version

-----------------------------------------------------------------------------
(* Measuring.  A task reads the row and stats the file, measures whatever  *)
(* content it then finds, and writes; the file and the row may change in   *)
(* between.                                                                *)

\* Whether the tier has anything to do.  Integrity and spectral scans need a
\* fresh metadata row; the import path's spectral measurement does not.
Due(t) ==
    CASE t = "cheap"     -> ~CheapFresh
      [] t = "metadata"  -> ~is_measured_row_fresh
      [] t = "integrity" -> is_measured_row_fresh /\ ~is_integrity_row_fresh
      [] t = "spectral"  -> is_measured_row_fresh /\ ~is_spectral_row_fresh

BeginTask(m, t, stat) ==
    task' = [task EXCEPT ![m] = [Idle EXCEPT !.pc = "measure", !.tier = t, !.stat = stat]]

\* The scan thread takes the file up in one of its modes.  stat_for_freshness
\* may fail to resolve the path, then no prior row matches.
ScanLooks(t) ==
    /\ task["scan"].pc = "idle"
    /\ t = "spectral" => SpectralOn
    /\ \/ Due(t) /\ BeginTask("scan", t, file)
       \/ t \in {"cheap", "metadata"} /\ BeginTask("scan", t, 0)
    /\ split' = (split \/ t \in {"metadata", "integrity"})
    /\ UNCHANGED <<file, row, upgrades>>

\* _record_existing_library_evidence
ImportLooks ==
    /\ task["import"].pc = "idle"
    /\ \/ Due("cheap") /\ BeginTask("import", "cheap", file)
       \/ BeginTask("import", "cheap", 0)
    /\ UNCHANGED <<file, row, upgrades, split>>

\* _record_existing_spectral_evidence, after the cheap row was written
ImportLooksSpectral ==
    /\ task["import"].pc = "spectral"
    /\ \/ SpectralOn /\ ~is_spectral_row_fresh /\ BeginTask("import", "spectral", 0)
       \/ /\ ~SpectralOn \/ is_spectral_row_fresh
          /\ task' = [task EXCEPT !["import"] = Idle]
    /\ UNCHANGED <<file, row, upgrades, split>>

\* The probe runs on the content it finds, and may fail.
Measure(m) ==
    /\ task[m].pc = "measure"
    /\ \E s \in {"measured", "unmeasured"} :
          task' = [task EXCEPT ![m].pc = "write", ![m].seen = file, ![m].status = s]
    /\ UNCHANGED <<file, row, upgrades, split>>

Verdict(k) == IF k.status = "measured" THEN k.seen ELSE 0

\* Mutant: an integrity verdict of the current sensor version is kept.
UpsertKeepsIntegrity(k) ==
    row' = [row EXCEPT !.stat = k.stat, !.status = k.status, !.codec = Verdict(k),
                       !.sensor_version = TRUE,
                       !.integrity_ok = IF row.integrity_sensor_version
                                        THEN row.integrity_ok ELSE Verdict(k),
                       !.integrity_sensor_version = TRUE]

\* Both tiers, with both sensor versions, whatever the probe's status.
upsert_library_evidence(k) ==
    row' = [row EXCEPT !.stat = k.stat, !.status = k.status, !.codec = Verdict(k),
                       !.sensor_version = TRUE, !.integrity_ok = Verdict(k),
                       !.integrity_sensor_version = TRUE]

\* Mutant: the file is stated again when the row is written.
UpsertStatsAgain(k) ==
    row' = [row EXCEPT !.stat = file, !.status = k.status, !.codec = Verdict(k),
                       !.sensor_version = TRUE]

\* Leaves the integrity and spectral columns alone.
upsert_library_metadata(k) ==
    row' = [row EXCEPT !.stat = k.stat, !.status = k.status, !.codec = Verdict(k),
                       !.sensor_version = TRUE]

\* Leaves the freshness basis alone; a failed measurement is not written.
update_library_integrity(k) ==
    row' = IF k.status = "measured"
           THEN [row EXCEPT !.integrity_ok = k.seen, !.integrity_sensor_version = TRUE]
           ELSE row

update_library_spectral(k) ==
    row' = [row EXCEPT !.spectral_status = k.status, !.authentic = Verdict(k),
                       !.spectral_sensor_version = TRUE]

Write(m) ==
    LET k == task[m] IN
    /\ k.pc = "write"
    /\ \/ k.tier = "cheap" /\ upsert_library_evidence(k)
       \/ k.tier = "metadata" /\ upsert_library_metadata(k)
       \/ k.tier = "integrity" /\ update_library_integrity(k)
       \/ k.tier = "spectral" /\ update_library_spectral(k)
    /\ task' = [task EXCEPT ![m] = IF m = "import" /\ k.tier = "cheap"
                                   THEN [Idle EXCEPT !.pc = "spectral"] ELSE Idle]
    /\ UNCHANGED <<file, upgrades, split>>

-----------------------------------------------------------------------------
(* The environment *)

\* Lidarr replaces the file, or someone retags it.
FileChanges ==
    /\ file < MaxContents
    /\ file' = file + 1
    /\ UNCHANGED <<row, task, upgrades, split>>

\* A deployment bumps one sensor version: running tasks die, and stored
\* evidence of that sensor no longer carries the current version.
Upgrade ==
    /\ upgrades < MaxUpgrades
    /\ upgrades' = upgrades + 1
    /\ task' = [m \in Measurers |-> Idle]
    /\ \/ row' = [row EXCEPT !.sensor_version = FALSE]
       \/ row' = [row EXCEPT !.integrity_sensor_version = FALSE]
       \/ row' = [row EXCEPT !.spectral_sensor_version = FALSE]
    /\ UNCHANGED <<file, split>>

EvidenceNext ==
    \/ \E t \in AllTiers : ScanLooks(t)
    \/ ImportLooks \/ ImportLooksSpectral
    \/ \E m \in Measurers : Measure(m) \/ Write(m)
    \/ FileChanges \/ Upgrade

EvidenceSpec == EvidenceInit /\ [][EvidenceNext]_evidenceVars

-----------------------------------------------------------------------------
(* _decision_evidence_view: what may drive an import decision *)

integrity_known == is_integrity_row_fresh

\* The type invariant: every column keeps to its values, and so do the locals a
\* measurer will write into them.
EvidenceTypeOK ==
    /\ file \in Nat \ {0}
    /\ row \in Row
    /\ task \in [Measurers -> Task]
    /\ upgrades \in Nat /\ split \in BOOLEAN

\* A row that passes is_measured_row_fresh carries the codec evidence of the
\* file as it is now, whatever measurers overlapped and whenever the file
\* changed under them.
FreshMetadataIsCurrent == is_measured_row_fresh => row.codec = file

\* The same of the integrity verdict of a row that drives a decision, while all
\* evidence comes from the fused tier: fresh, it was measured, and on the file as
\* it is now ("a stale verdict never drives a decision and unknown is never read
\* as good").  Split-tier scans void this: they move the stat that all tiers
\* share, or write a verdict beside a stat that has moved.
KnownIntegrityIsCurrent ==
    ~split /\ is_measured_row_fresh /\ integrity_known => row.integrity_ok = file

\* The same of the spectral verdict: "a stale authentic=0/1 can never drive a
\* verdict".
FreshSpectralIsCurrent ==
    is_measured_row_fresh /\ is_spectral_row_fresh => row.authentic = file

\* Why metadata is never stale: a stat is taken before the probe it is stored
\* with, and contents do not come back.
StatBeforeProbe ==
    /\ row.stat <= file /\ row.codec <= file
    /\ row.status = "measured" => row.stat <= row.codec
    /\ \A m \in Measurers :
          /\ task[m].stat <= file /\ task[m].seen <= file
          /\ task[m].pc = "write" => task[m].stat <= task[m].seen

EvidenceInv == EvidenceTypeOK /\ StatBeforeProbe

\* Until a split-tier scan runs, integrity is written only together with the
\* metadata it belongs to.
FusedOnly ==
    ~split =>
    /\ row.integrity_ok = row.codec
    /\ \A m \in Measurers : task[m].tier \in {"cheap", "spectral"}
=============================================================================
