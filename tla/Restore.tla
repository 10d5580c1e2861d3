------------------------------- MODULE Restore -------------------------------
(***************************************************************************)
(* Backups of Mintarr's state, and the restore that is staged over HTTP    *)
(* and applied when the process next boots.                                *)
(*                                                                         *)
(* The state is the SQLite database and the evidence files beside it, each *)
(* an entry of a backup zip.  A boot is one thread and may die between any *)
(* two of its steps; what is on disk survives (entries, marker, zips,      *)
(* safety backups, status), the rest is gone.  While the process is up the *)
(* one request being served, the worker and the backup thread interleave.  *)
(***************************************************************************)
EXTENDS Naturals, FiniteSets

CONSTANTS
    NEntries,    \* entry 1 is the database, the others are evidence files
    Ids,         \* restore ids, one for each POST /restore
    NoId,        \* no restore id
    Retention,   \* MINTARR_BACKUP_RETENTION, 0 disables pruning
    MaxVersion,  \* bound on changes of the state
    MaxBoots,    \* bound on boots
    MaxBackups   \* bound on scheduled backups and exports together

ASSUME RestoreAssumption ==
    /\ NEntries \in Nat \ {0}
    /\ NoId \notin Ids
    /\ Retention \in Nat
    /\ MaxVersion \in Nat \ {0} /\ MaxBoots \in Nat /\ MaxBackups \in Nat

Entries == 1 .. NEntries
Database == 1

VARIABLES
    state,     \* the version of every entry on disk, 0 when it is absent
    version,   \* the newest version written so far
    log,       \* the write-ahead log beside the database: its own (or none), that of
               \* the database a restore replaced, or that one after unlinking failed
    marker,    \* restore_request.json
    zips,      \* the staged zips
    safety,    \* the pre-restore zips
    status,    \* restore_status.json
    proc,      \* down, booting or up
    boot,      \* the boot's step, and whether restore is enabled
    todo,      \* the entries the apply has still to write; kept for Torn afterwards
    workers,   \* the worker, scan and backup threads run
    req,       \* where each POST /restore stands
    cancel,    \* the restore whose zip DELETE /restore has still to remove
    building,  \* the backups in progress, of the backup thread and of GET /backup
    backups,   \* mintarr-backup-*.zip in MINTARR_BACKUP_DIR
    exports,   \* the zips GET /backup handed out
    written,   \* scheduled backups so far
    boots,     \* boots so far
    replaced,  \* observer: the entries the last apply has replaced
    before,    \* observer: the state its boot found
    applied,   \* the id of the last apply, a local of the boot and then an observer
    settled,   \* observer: ids cancelled, or taken up by a boot
    misread    \* observer: a boot could not read an `applying' marker

disk == <<state, version, log, marker, zips, safety, status>>
process == <<proc, boot, workers, boots>>
requests == <<req, cancel>>
archive == <<building, backups, exports, written>>
observers == <<todo, replaced, before, applied, settled, misread>>
vars == <<disk, process, requests, archive, observers>>

Bundle == [Entries -> Nat]
Nothing == [e \in Entries |-> 0]

Zip(data) == [kind |-> "zip", data |-> data]
NoZip == [kind |-> "none", data |-> Nothing]
CorruptZip == [kind |-> "corrupt", data |-> Nothing]
NoMarker == [id |-> NoId, state |-> "none"]
Idle == [pc |-> "idle", enabled |-> FALSE]
NoBuild == [on |-> FALSE, next |-> Database, data |-> Nothing, torn |-> FALSE]

Builders == {"scheduled", "export"}

\* gunicorn -w 1: one request is served at a time.
Free ==
    /\ proc = "up" /\ cancel = NoId /\ ~building["export"].on
    /\ \A r \in Ids : req[r] # "copied"

\* A restore has replaced some of its entries and not the others.
Torn == replaced # {} /\ todo # {}

TypeOK ==
    /\ state \in Bundle /\ version \in Nat
    /\ log \in {"own", "stale", "kept"}
    /\ marker \in [id : Ids \cup {NoId}, state : {"none", "staged", "applying"}]
    /\ zips \in [Ids -> [kind : {"none", "corrupt", "zip"}, data : Bundle]]
    /\ safety \in [Ids -> [kind : {"none", "zip"}, data : Bundle]]
    /\ status \in [id : Ids \cup {NoId},
                   state : {"none", "applied", "failed_preflight", "failed_partial"}]
    /\ proc \in {"down", "boot", "up"} /\ workers \in BOOLEAN
    /\ boot \in [pc : {"idle", "import", "read", "validate", "safety", "mark",
                       "apply", "clear", "report"},
                 enabled : BOOLEAN]
    /\ req \in [Ids -> {"new", "copied", "accepted", "refused"}]
    /\ cancel \in Ids \cup {NoId}
    /\ building \in [Builders -> [on : BOOLEAN, next : Nat, data : Bundle, torn : BOOLEAN]]
    /\ backups \subseteq [no : Nat, data : Bundle, torn : BOOLEAN]
    /\ exports \subseteq Bundle
    /\ written \in Nat /\ boots \in Nat
    /\ todo \subseteq Entries /\ replaced \subseteq Entries /\ before \in Bundle
    /\ applied \in Ids \cup {NoId} /\ settled \subseteq Ids
    /\ misread \in BOOLEAN

(* A database and some evidence; nothing was ever staged or backed up. *)
Init ==
    /\ state \in [Entries -> {0, 1}] /\ state[Database] = 1
    /\ version = 1 /\ log = "own"
    /\ marker = NoMarker
    /\ zips = [r \in Ids |-> NoZip] /\ safety = [r \in Ids |-> NoZip]
    /\ status = [id |-> NoId, state |-> "none"]
    /\ proc = "down" /\ boot = Idle /\ workers = FALSE
    /\ req = [r \in Ids |-> "new"]
    /\ cancel = NoId
    /\ building = [k \in Builders |-> NoBuild]
    /\ backups = {} /\ exports = {} /\ written = 0
    /\ boots = 0 /\ todo = {} /\ replaced = {} /\ before = state /\ applied = NoId
    /\ settled = {} /\ misread = FALSE

-----------------------------------------------------------------------------
(* The program at work *)

\* The worker, a request or a review action writes an entry, also in a
\* process whose workers are off.
Work(e) ==
    /\ proc = "up" /\ version < MaxVersion
    /\ version' = version + 1
    /\ state' = [state EXCEPT ![e] = version + 1]
    /\ UNCHANGED <<log, marker, zips, safety, status, process, requests, archive, observers>>

\* build_backup_zip, for the backup thread or for GET /backup: the database is
\* snapshotted first and the other entries follow one by one.
StartBackup(k) ==
    /\ IF k = "export" THEN Free ELSE workers /\ ~building[k].on
    /\ written + Cardinality(exports) < MaxBackups
    /\ building' = [building EXCEPT ![k] = [NoBuild EXCEPT !.on = TRUE, !.torn = Torn]]
    /\ UNCHANGED <<disk, process, requests, backups, exports, written, observers>>

CopyEntry(k) ==
    /\ building[k].on /\ building[k].next \in Entries
    /\ building' = [building EXCEPT
                      ![k].data = [@ EXCEPT ![building[k].next] = state[building[k].next]],
                      ![k].next = @ + 1]
    /\ UNCHANGED <<disk, process, requests, backups, exports, written, observers>>

\* An entry vanished under the builder, or the zip could not be written.
FailBackup(k) ==
    /\ building[k].on
    /\ building' = [building EXCEPT ![k] = NoBuild]
    /\ UNCHANGED <<disk, process, requests, backups, exports, written, observers>>

\* prune_scheduled_backups keeps the newest.
Kept(all) ==
    IF Retention = 0 THEN all
    ELSE {b \in all : Cardinality({c \in all : c.no > b.no}) < Retention}

FinishBackup(k) ==
    /\ building[k].on /\ building[k].next \notin Entries
    /\ building' = [building EXCEPT ![k] = NoBuild]
    /\ \/ /\ k = "scheduled"
          /\ backups' = Kept(backups \cup {[no |-> written, data |-> building[k].data,
                                            torn |-> building[k].torn]})
          /\ written' = written + 1
          /\ UNCHANGED exports
       \/ /\ k = "export"
          /\ exports' = exports \cup {building[k].data}
          /\ UNCHANGED <<backups, written>>
    /\ UNCHANGED <<disk, process, requests, observers>>

-----------------------------------------------------------------------------
(* POST /restore and DELETE /restore *)

\* What can be staged: a backup of the directory, or an upload, which is one of
\* our exports or not a backup at all.
Sources ==
    {Zip(b.data) : b \in backups} \cup {Zip(d) : d \in exports} \cup {CorruptZip}

\* Mutant: a pending restore is not looked for.
StageUnchecked(r) ==
    /\ Free /\ boot.enabled /\ req[r] = "new"
    /\ \E z \in Sources : zips' = [zips EXCEPT ![r] = z]
    /\ req' = [req EXCEPT ![r] = "copied"]
    /\ UNCHANGED <<state, version, log, marker, safety, status, process, cancel, archive,
                   observers>>

\* _ensure_no_pending_restore, and the copy into the staging directory.
StageCopy(r) ==
    /\ Free /\ boot.enabled /\ req[r] = "new"
    /\ marker = NoMarker
    /\ \E z \in Sources : zips' = [zips EXCEPT ![r] = z]
    /\ req' = [req EXCEPT ![r] = "copied"]
    /\ UNCHANGED <<state, version, log, marker, safety, status, process, cancel, archive,
                   observers>>

\* validate_restore_zip, then the marker; a refused request takes its zip away.
StageMark(r) ==
    /\ req[r] = "copied"
    /\ \/ /\ zips[r].kind = "zip"
          /\ marker' = [id |-> r, state |-> "staged"]
          /\ req' = [req EXCEPT ![r] = "accepted"]
          /\ UNCHANGED zips
       \/ /\ zips' = [zips EXCEPT ![r] = NoZip]
          /\ req' = [req EXCEPT ![r] = "refused"]
          /\ UNCHANGED marker
    /\ UNCHANGED <<state, version, log, safety, status, process, cancel, archive, observers>>

\* cancel_staged_restore: the marker goes before the zip it names.
CancelMarker ==
    /\ Free /\ boot.enabled
    /\ marker.state = "staged"
    /\ marker' = NoMarker
    /\ settled' = settled \cup {marker.id}
    /\ cancel' = marker.id
    /\ UNCHANGED <<state, version, log, zips, safety, status, process, req, archive,
                   todo, replaced, before, applied, misread>>

CancelZip ==
    /\ cancel # NoId
    /\ zips' = [zips EXCEPT ![cancel] = NoZip]
    /\ cancel' = NoId
    /\ UNCHANGED <<state, version, log, marker, safety, status, process, req, archive,
                   observers>>

-----------------------------------------------------------------------------
(* The boot *)

At(pc) == proc = "boot" /\ boot.pc = pc
Goto(pc) == boot' = [boot EXCEPT !.pc = pc] /\ UNCHANGED <<proc, workers, boots>>

\* state_db.init opens the database, whatever the restore came to, and SQLite
\* takes the log it finds beside it for its own: with the log of another
\* database the content is then neither the one nor the other.
init ==
    /\ log' = "own"
    /\ IF log = "own" THEN UNCHANGED <<state, version>>
       ELSE /\ version' = version + 1
            /\ state' = [state EXCEPT ![Database] = version + 1]

\* The module is imported to its end; the threads start unless told not to.
Up(startWorkers) ==
    /\ init
    /\ proc' = "up" /\ workers' = startWorkers
    /\ boot' = [boot EXCEPT !.pc = "idle"]
    /\ UNCHANGED boots

\* _safe_write_status: an error is swallowed.
Report(id, outcome) == status' \in {status, [id |-> id, state |-> outcome]}

Boot ==
    /\ proc = "down" /\ boots < MaxBoots
    /\ boots' = boots + 1
    /\ proc' = "boot" /\ workers' = FALSE
    /\ \E e \in BOOLEAN : boot' = [pc |-> "import", enabled |-> e]
    /\ UNCHANGED <<disk, requests, archive, observers>>

\* _load_jobs and _expire_review_required_jobs, at import: a review that is
\* overdue moves from the sidecars to the archive.
ExpireReviews ==
    /\ At("import")
    /\ \/ UNCHANGED <<state, version>>
       \/ /\ version < MaxVersion
          /\ version' = version + 1
          /\ state' = [e \in Entries |-> IF e = Database THEN state[e] ELSE version + 1]
    /\ Goto("read")
    /\ UNCHANGED <<log, marker, zips, safety, status, requests, archive, observers>>

NothingToApply ==
    /\ At("read") /\ marker = NoMarker
    /\ Up(TRUE)
    /\ UNCHANGED <<marker, zips, safety, status, requests, archive, observers>>

\* Mutant: an interrupted apply is tried once more.
RetryInterrupted ==
    /\ At("read") /\ marker.state = "applying"
    /\ Goto("safety")
    /\ UNCHANGED <<disk, requests, archive, observers>>

\* An interrupted apply fails closed, whether restore is enabled or not.
Interrupted ==
    /\ At("read") /\ marker.state = "applying"
    /\ Report(marker.id, "failed_partial")
    /\ Up(FALSE)
    /\ UNCHANGED <<marker, zips, safety, requests, archive, observers>>

\* Mutant: MINTARR_RESTORE_ENABLED is asked first.
DisabledFirst ==
    /\ At("read") /\ marker # NoMarker /\ ~boot.enabled
    /\ Up(TRUE)
    /\ UNCHANGED <<marker, zips, safety, status, requests, archive, observers>>

Disabled ==
    /\ At("read") /\ marker.state = "staged" /\ ~boot.enabled
    /\ Up(TRUE)
    /\ UNCHANGED <<marker, zips, safety, status, requests, archive, observers>>

TakeUp ==
    /\ At("read") /\ marker.state = "staged" /\ boot.enabled
    /\ Goto("validate")
    /\ settled' = settled \cup {marker.id}
    /\ todo' = {} /\ replaced' = {} /\ before' = state
    /\ UNCHANGED <<disk, requests, archive, applied, misread>>

\* The marker is there and cannot be read: it is removed, if restore is
\* enabled, and the boot goes on as after any failed preflight.  Or looking for
\* it raises, and _apply_pending_restore_at_boot boots normally.
Unreadable ==
    /\ At("read") /\ marker # NoMarker
    /\ misread' = (misread \/ marker.state = "applying")
    /\ \/ /\ boot.enabled
          /\ marker' \in {marker, NoMarker}
          /\ settled' = settled \cup {marker.id}
          /\ Report(NoId, "failed_preflight")
       \/ UNCHANGED <<marker, settled, status>>
    /\ Up(TRUE)
    /\ UNCHANGED <<zips, safety, requests, archive, todo, replaced,
                   before, applied>>

\* Before the first replacement everything ends here: marker and zip are
\* unlinked, and _unlink_if_exists swallows its errors.
FailPreflight ==
    /\ proc = "boot" /\ boot.pc \in {"validate", "safety", "mark"}
    /\ marker' \in {marker, NoMarker}
    /\ zips' \in {zips, [zips EXCEPT ![marker.id] = NoZip]}
    /\ Report(marker.id, "failed_preflight")
    /\ Up(TRUE)
    /\ UNCHANGED <<safety, requests, archive, observers>>

Revalidate ==
    /\ At("validate") /\ zips[marker.id].kind = "zip"
    /\ Goto("safety")
    /\ UNCHANGED <<disk, requests, archive, observers>>

\* _write_safety_backup: the backup builder once more, with nothing beside it.
WriteSafety ==
    /\ At("safety")
    /\ safety' = [safety EXCEPT ![marker.id] = Zip(state)]
    /\ Goto("mark")
    /\ UNCHANGED <<state, version, log, marker, zips, status, requests, archive, observers>>

MarkApplying ==
    /\ At("mark")
    /\ marker' = [marker EXCEPT !.state = "applying"]
    /\ todo' = {e \in Entries : zips[marker.id].data[e] # 0}
    /\ applied' = marker.id
    /\ Goto("apply")
    /\ UNCHANGED <<state, version, log, zips, safety, status, requests, archive,
                   replaced, before, settled, misread>>

\* Mutant: the log is left to SQLite.
ApplyEntryOnly ==
    /\ At("apply")
    /\ \E e \in todo :
          /\ \A f \in todo : e <= f
          /\ state' = [state EXCEPT ![e] = zips[marker.id].data[e]]
          /\ log' \in IF e = Database THEN {"own", "stale"} ELSE {log}
          /\ todo' = todo \ {e}
          /\ replaced' = replaced \cup {e}
    /\ UNCHANGED <<version, marker, zips, safety, status, process, requests,
                   archive, before, applied, settled, misread>>

\* _apply_entries: the database first, and no entry is deleted.  A process that
\* did not close the database has left its log there.
ApplyEntry ==
    /\ At("apply")
    /\ \E e \in todo :
          /\ \A f \in todo : e <= f
          /\ state' = [state EXCEPT ![e] = zips[marker.id].data[e]]
          /\ IF e = Database THEN log' \in {"own", "stale"} /\ Goto("clear")
                             ELSE UNCHANGED <<log, process>>
          /\ todo' = todo \ {e}
          /\ replaced' = replaced \cup {e}
    /\ UNCHANGED <<version, marker, zips, safety, status, requests, archive,
                   before, applied, settled, misread>>

\* _unlink_if_exists swallows its errors here too.
_remove_wal_shm ==
    /\ At("clear")
    /\ \/ log' = "own"
       \/ log = "stale" /\ log' = "kept"
    /\ Goto("apply")
    /\ UNCHANGED <<state, version, marker, zips, safety, status, requests, archive,
                   observers>>

FailPartial ==
    /\ At("apply") /\ todo # {}
    /\ Report(marker.id, "failed_partial")
    /\ Up(FALSE)
    /\ UNCHANGED <<marker, zips, safety, requests, archive, observers>>

ClearMarker ==
    /\ At("apply") /\ todo = {}
    /\ marker' \in {marker, NoMarker}
    /\ Goto("report")
    /\ UNCHANGED <<state, version, log, zips, safety, status, requests, archive, observers>>

ReportApplied ==
    /\ At("report")
    /\ zips' \in {zips, [zips EXCEPT ![applied] = NoZip]}
    /\ Report(applied, "applied")
    /\ Up(TRUE)
    /\ UNCHANGED <<marker, safety, requests, archive, observers>>

-----------------------------------------------------------------------------
(* Faults, and the operator *)

\* The process is stopped or dies; what its threads were doing is lost.
Stop ==
    /\ proc # "down"
    /\ proc' = "down" /\ workers' = FALSE /\ boot' = Idle
    /\ req' = [r \in Ids |-> IF req[r] = "copied" THEN "refused" ELSE req[r]]
    /\ cancel' = NoId
    /\ building' = [k \in Builders |-> NoBuild]
    /\ UNCHANGED <<disk, boots, backups, exports, written, observers>>

\* BACKUP_RESTORE.md: recover from the safety backup and clear the marker; a
\* database copied over another leaves the other's log where it is.
Recover ==
    /\ proc = "down" /\ marker.state = "applying"
    /\ state' = [e \in Entries |-> IF safety[marker.id].data[e] # 0
                                   THEN safety[marker.id].data[e] ELSE state[e]]
    /\ log' \in {"own", "stale"}
    /\ marker' = NoMarker
    /\ todo' = {} /\ replaced' = {}
    /\ UNCHANGED <<version, zips, safety, status, process, requests, archive,
                   before, applied, settled, misread>>

Next ==
    \/ \E e \in Entries : Work(e)
    \/ \E k \in Builders : StartBackup(k) \/ CopyEntry(k) \/ FailBackup(k) \/ FinishBackup(k)
    \/ \E r \in Ids : StageCopy(r) \/ StageMark(r)
    \/ CancelMarker \/ CancelZip
    \/ Boot \/ ExpireReviews \/ NothingToApply \/ Interrupted \/ Disabled \/ TakeUp
    \/ Unreadable \/ FailPreflight \/ Revalidate \/ WriteSafety \/ MarkApplying
    \/ ApplyEntry \/ _remove_wal_shm \/ FailPartial \/ ClearMarker \/ ReportApplied
    \/ Stop \/ Recover

Spec == Init /\ [][Next]_vars

-----------------------------------------------------------------------------
(* Properties *)

\* No worker or scan runs over a half-replaced state, and no scheduled backup of
\* one pushes a sound backup out of the directory, through any number of crashes,
\* reboots and changes of MINTARR_RESTORE_ENABLED, as long as the boots could read
\* the marker.
FailsClosed ==
    ~misread => (workers => ~Torn) /\ (\A b \in backups : ~b.torn)

\* From the first replaced entry on, the safety backup of that restore holds
\* every entry as the boot found it: a later boot never overwrites it.
SafetyFirst == replaced # {} => safety[applied] = Zip(before)

TrueReport ==
    status' # status /\ ~misread' =>
        /\ status'.state = "applied" =>
              \A e \in Entries : \/ zips[status'.id].data[e] \in {0, state'[e]}
                                 \/ e = Database /\ log = "kept"
        /\ status'.state = "failed_preflight" /\ status'.id # NoId => state' = before
        /\ status'.state = "failed_partial" => ~workers' /\ marker'.state = "applying"

\* What restore_status.json newly says is so once the database is open again:
\* `applied' when the state has every entry of the zip, `failed_preflight' when
\* nothing was touched, and `failed_partial' only with workers off and the marker
\* kept for later boots.  Not covered is a database whose stale log could not be
\* unlinked, which the code does not notice (restore.py 410-415), although
\* BACKUP_RESTORE.md 175-176 has the stale log cleared.
ReportIsTrue == [][TrueReport]_vars

\* A restore answered with 202 stays the one that is pending, with its
\* validated zip, until it is cancelled or a boot takes it up, whatever is
\* requested, pruned or restarted meanwhile.
AcceptedIsHonoured ==
    \A r \in Ids : req[r] = "accepted" /\ r \notin settled =>
        marker = [id |-> r, state |-> "staged"] /\ zips[r].kind = "zip"
=============================================================================
