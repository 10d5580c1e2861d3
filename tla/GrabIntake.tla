----------------------------- MODULE GrabIntake -----------------------------
(***************************************************************************)
(* How a grab comes in and how Lidarr takes it back: Newznab search, SAB   *)
(* addurl, the folder ingests, SAB delete, and the album hold between a    *)
(* removal and the next search.                                            *)
(*                                                                         *)
(* A grab is known by its jid in three places, written one after another:  *)
(* the _jobs projection that Lidarr's queue is rendered from, the jobs     *)
(* table, and the answer Lidarr gets.  Handlers run one at a time and stop *)
(* between their transactions; the worker runs beside them, and so does    *)
(* the thread addurl starts when SQLite is unavailable.  What a pipeline   *)
(* does in between is module ImportFlow's subject; one Lidarr album is     *)
(* behind all releases.                                                    *)
(***************************************************************************)
EXTENDS JobStore

CONSTANTS
    Jids,         \* the fresh uuids of handlers, a set of naturals
    TidalKeys,    \* the dedupe keys of TIDAL releases; the others are folders
    MaxRequests,  \* bound on searches, ingests, cancels and changes of the hold
    MaxFaults     \* bound on crashes and database or Lidarr failures together

ASSUME GrabIntakeAssumption ==
    /\ Jids \subseteq Nat \ {0}
    /\ TidalKeys \subseteq Keys
    /\ MaxRequests \in Nat /\ MaxFaults \in Nat

VARIABLES
    jid,      \* jobs.jid, 0 for an absent row
    handler,  \* the HTTP handler, with its locals
    worker,   \* the import worker
    threads,  \* the jids of direct download threads
    proj,     \* the _jobs projections, saved with every change
    told,     \* the jids Lidarr was given as nzo_ids
    hold,     \* the album_holds row
    offers,   \* what Lidarr was offered: nothing, or a release, `late' while banned
    banned,   \* a removal was accepted, and no hold cleared or run out since
    removed,  \* the jids whose removal was answered
    known,    \* the album's id can be told from Lidarr's queue and from searches
    spent     \* how much of each bound is used up

vars == <<jobs, jid, handler, worker, threads, proj, told, hold, offers, banned,
          removed, known, spent>>

\* A jid has no entry in _jobs when its status is `none', or `lost' if it had
\* one that a crash lost.
Projection == [status : {"none", "queued", "active", "review", "done", "lost"},
               hidden : BOOLEAN]
NoProjection == [status |-> "none", hidden |-> FALSE]
LostProjection == [NoProjection EXCEPT !.status = "lost"]

Idle == [pc |-> "idle", key |-> CHOOSE k \in Keys : TRUE, jid |-> 0, row |-> 0]
NoWork == [pc |-> "idle", job |-> 0, outcome |-> "none"]

TypeOK ==
    /\ JobsTypeOK
    /\ jid \in [JobIds -> Jids \cup {0}]
    /\ \A j \in JobIds : jid[j] = 0 <=> jobs[j].state = "absent"
    /\ handler \in [pc : {"idle", "publish", "enqueue", "confirm", "direct",
                          "cancel", "hold", "hide"},
                    key : Keys, jid : Jids \cup {0}, row : JobIds \cup {0}]
    /\ worker \in [pc : {"down", "idle", "claimed", "running", "ending"},
                   job : JobIds \cup {0},
                   outcome : {"none", "completed", "raised", "cancelled"}]
    /\ threads \subseteq Jids /\ told \subseteq Jids /\ removed \subseteq told
    /\ proj \in [Jids -> Projection]
    /\ hold \in {"none", "live", "lapsed", "cleared"}
    /\ offers \in [Keys -> {"none", "early", "late"}]
    /\ banned \in BOOLEAN
    /\ known \in BOOLEAN
    /\ spent \in [requests : 0 .. MaxRequests, crashes : 0 .. MaxFaults,
                  failures : 0 .. MaxFaults]

Init ==
    /\ JobsInit
    /\ jid = [j \in JobIds |-> 0]
    /\ handler = Idle /\ worker = NoWork /\ threads = {}
    /\ proj = [t \in Jids |-> NoProjection]
    /\ told = {} /\ removed = {}
    /\ hold = "none" /\ offers = [k \in Keys |-> "none"] /\ banned = FALSE
    /\ known \in BOOLEAN
    /\ spent = [requests |-> 0, crashes |-> 0, failures |-> 0]

Free == handler.pc = "idle" /\ worker.pc # "down"
Request == /\ spent.requests < MaxRequests
           /\ spent' = [spent EXCEPT !.requests = @ + 1]
Fault(f) == /\ spent.crashes + spent.failures < MaxFaults
            /\ spent' = [spent EXCEPT ![f] = @ + 1]
Failure == Fault("failures")
Works == UNCHANGED spent

-----------------------------------------------------------------------------
(* Search and the album hold *)

\* get_album_hold: neither cleared nor run out.
get_album_hold == hold = "live"

\* Fail-open: an album that is not resolved, or not looked up, is not held.
_album_hold_suppressed_album_id == known /\ get_album_hold

newznab ==
    /\ Free
    /\ IF _album_hold_suppressed_album_id
       THEN Failure /\ spent.requests < MaxRequests
       ELSE Request
    /\ \E k \in Keys : offers' = [offers EXCEPT ![k] = IF banned THEN "late" ELSE "early"]
    /\ UNCHANGED <<jobs, jid, handler, worker, threads, proj, told, hold, banned,
                   removed, known>>

create_album_hold == hold' = "live"

\* clear_album_hold, of a hold that was not cleared before.
clear_album_hold ==
    /\ hold \in {"live", "lapsed"}
    /\ hold' = "cleared"

album_hold_create ==
    /\ Free /\ known
    /\ Request
    /\ create_album_hold
    /\ UNCHANGED <<jobs, jid, handler, worker, threads, proj, told, offers, banned,
                   removed, known>>

album_hold_clear ==
    /\ Free
    /\ Request
    /\ clear_album_hold
    /\ banned' = FALSE
    /\ UNCHANGED <<jobs, jid, handler, worker, threads, proj, told, offers, removed,
                   known>>

HoldRunsOut ==
    /\ hold = "live"
    /\ hold' = "lapsed" /\ banned' = FALSE
    /\ UNCHANGED <<jobs, jid, handler, worker, threads, proj, told, offers, removed,
                   known, spent>>

-----------------------------------------------------------------------------
(* A grab comes in *)

Unused == {t \in Jids : proj[t].status = "none" /\ t \notin told /\ \A j \in JobIds : jid[j] # t}

\* The dedupe lookup, which takes an error for a miss.  A hit answers with the
\* job's jid; a miss draws a fresh one.
Intake(k, ok) ==
    /\ Free
    /\ LET hits == find_active_job_by_dedupe(k) IN
       \/ /\ hits # {} /\ ok
          /\ \E j \in hits : told' = told \cup {jid[j]}
          /\ UNCHANGED handler
       \/ /\ IF hits = {} THEN ok /\ \E j \in JobIds : jobs[j].state = "absent"
                          ELSE Failure
          /\ \E t \in Unused :
                /\ \A u \in Unused : t <= u
                /\ handler' = [pc |-> "publish", key |-> k, jid |-> t, row |-> 0]
          /\ UNCHANGED told
    /\ UNCHANGED <<jobs, jid, worker, threads, proj, hold, banned, removed, known>>

\* What Lidarr was offered it may send any time later; addurl asks no hold.
addurl(k) ==
    /\ offers[k] # "none"
    /\ Intake(k, Works)
    /\ offers' = [offers EXCEPT ![k] = "none"]

\* The ingest endpoints, which scripts and operators call, differ in what they
\* accept as a folder; all of them dedupe, publish, enqueue and confirm alike.
Ingest(k) == k \notin TidalKeys /\ Intake(k, Request) /\ UNCHANGED offers
local_ingest(k) == Ingest(k)
soulseek_ingest(k) == Ingest(k)
_completed_folder_ingest(k) == Ingest(k)

\* The projection is there before the job: a fast worker finds it.
Publish ==
    /\ handler.pc = "publish"
    /\ proj' = [proj EXCEPT ![handler.jid] = [status |-> "queued", hidden |-> FALSE]]
    /\ handler' = [handler EXCEPT !.pc = "enqueue"]
    /\ UNCHANGED <<jobs, jid, worker, threads, told, hold, offers, banned, removed,
                   known, spent>>

\* enqueue_job answers with a new row, an active one, or None for an error.
Enqueue ==
    /\ handler.pc = "enqueue"
    /\ \/ /\ Works
          /\ \E j \in JobIds :
                /\ enqueue_job(handler.key, j)
                /\ jid' = [jid EXCEPT ![j] = IF @ = 0 THEN handler.jid ELSE @]
                /\ handler' = [handler EXCEPT !.pc = "confirm", !.row = j]
       \/ /\ Failure
          /\ handler' = [handler EXCEPT !.pc = "direct"]
          /\ UNCHANGED <<jobs, jid>>
    /\ UNCHANGED <<worker, threads, proj, told, hold, offers, banned, removed, known>>

Answer(t) == told' = told \cup {t} /\ handler' = Idle
Pop(t) == proj' = [proj EXCEPT ![t] = NoProjection]

\* Mutant: the row is taken for the handler's own.
ConfirmUnread ==
    /\ handler.pc = "confirm"
    /\ Answer(handler.jid)
    /\ UNCHANGED <<jobs, jid, worker, threads, proj, hold, offers, banned, removed,
                   known, spent>>

\* Mutant: the handler writes its projection once more.
ConfirmQueued ==
    /\ handler.pc = "confirm"
    /\ Answer(jid[handler.row])
    /\ proj' = [proj EXCEPT ![jid[handler.row]] = [status |-> "queued", hidden |-> FALSE]]
    /\ UNCHANGED <<jobs, jid, worker, threads, hold, offers, banned, removed, known, spent>>

\* get_job: another jid in the row means that the job was there before.  A row
\* that cannot be read counts as the handler's own.
Confirm ==
    /\ handler.pc = "confirm"
    /\ \/ /\ Works
          /\ Answer(jid[handler.row])
          /\ IF jid[handler.row] # handler.jid THEN Pop(handler.jid) ELSE UNCHANGED proj
       \/ Failure /\ Answer(handler.jid) /\ UNCHANGED proj
    /\ UNCHANGED <<jobs, jid, worker, threads, hold, offers, banned, removed, known>>

\* Without a queue TIDAL downloads in a thread of its own, the others give up.
Direct ==
    /\ handler.pc = "direct"
    /\ IF handler.key \in TidalKeys
       THEN /\ threads' = threads \cup {handler.jid}
            /\ Answer(handler.jid) /\ UNCHANGED proj
       ELSE /\ Pop(handler.jid)
            /\ handler' = Idle /\ UNCHANGED <<threads, told>>
    /\ UNCHANGED <<jobs, jid, worker, hold, offers, banned, removed, known, spent>>

-----------------------------------------------------------------------------
(* Lidarr removes a grab: _cancel_and_hide_job *)

get_active_job_by_jid(t) == {j \in JobIds : IsActive(j) /\ jid[j] = t}

Delete(t) ==
    /\ Free /\ t \in told \ removed
    /\ \/ /\ Works
          /\ \E j \in get_active_job_by_jid(t) :
                handler' = [Idle EXCEPT !.pc = "cancel", !.jid = t, !.row = j]
       \/ /\ IF get_active_job_by_jid(t) = {} THEN Works ELSE Failure
          /\ handler' = [Idle EXCEPT !.pc = "hide", !.jid = t]
    /\ UNCHANGED <<jobs, jid, worker, threads, proj, told, hold, offers, banned, removed,
                   known>>

\* The job may have ended since; then there is nothing to hold either.
CancelJob ==
    /\ handler.pc = "cancel"
    /\ \/ /\ Works
          /\ request_job_cancel(handler.row)
          /\ banned' = TRUE
          /\ handler' = [handler EXCEPT !.pc = "hold"]
       \/ /\ IF IsActive(handler.row) THEN Failure ELSE Works
          /\ handler' = [handler EXCEPT !.pc = "hide"]
          /\ UNCHANGED <<jobs, banned>>
    /\ UNCHANGED <<jid, worker, threads, proj, told, hold, offers, removed, known>>

\* Mutant: a hold that was cleared or has run out is left as it is.
HoldOnce ==
    /\ handler.pc = "hold"
    /\ hold' = IF known /\ hold = "none" THEN "live" ELSE hold
    /\ handler' = [handler EXCEPT !.pc = "hide"]
    /\ UNCHANGED <<jobs, jid, worker, threads, proj, told, offers, banned, removed,
                   known, spent>>

\* The album's id is known from the grab or from Lidarr's queue, or there is
\* no hold.
_create_album_hold_for_cancel ==
    /\ handler.pc = "hold"
    /\ \/ known /\ Works /\ create_album_hold
       \/ /\ IF known THEN Failure ELSE Works
          /\ UNCHANGED hold
    /\ handler' = [handler EXCEPT !.pc = "hide"]
    /\ UNCHANGED <<jobs, jid, worker, threads, proj, told, offers, banned, removed, known>>

\* Only an entry that is there is hidden.
_hide_from_lidarr ==
    /\ handler.pc = "hide"
    /\ proj' = [proj EXCEPT ![handler.jid].hidden = @ \/ proj[handler.jid].status # "lost"]
    /\ removed' = removed \cup {handler.jid}
    /\ handler' = Idle
    /\ UNCHANGED <<jobs, jid, worker, threads, told, hold, offers, banned, known, spent>>

\* The dashboard's cancel does neither hold nor hide.
job_cancel ==
    /\ Free
    /\ Request
    /\ \E j \in JobIds : request_job_cancel(j)
    /\ UNCHANGED <<jid, handler, worker, threads, proj, told, hold, offers, banned,
                   removed, known>>

-----------------------------------------------------------------------------
(* The worker and the direct threads *)

\* Mutant: a status of its own for what was imported.
EndedImported(p) == [done   |-> [p EXCEPT !.status = "imported", !.hidden = TRUE],
                     failed |-> [p EXCEPT !.status = "done"],
                     review |-> [status |-> "review", hidden |-> FALSE]]

\* How a pipeline ends: imported or failed to import and hidden, failed to
\* download and shown, or held for review, which shows it again.
Ended(p) == [done   |-> [p EXCEPT !.status = "done", !.hidden = TRUE],
             failed |-> [p EXCEPT !.status = "done"],
             review |-> [status |-> "review", hidden |-> FALSE]]

Claim ==
    /\ worker.pc = "idle"
    /\ \E j \in JobIds :
          /\ dequeue_next_job(j, Types)
          /\ worker' = [NoWork EXCEPT !.pc = "claimed", !.job = j]
    /\ UNCHANGED <<jid, handler, threads, proj, told, hold, offers, banned, removed,
                   known, spent>>

\* A job cancelled before its start ends without a word in its projection; one
\* that starts makes a new entry if jobs.json was lost.
Start ==
    /\ worker.pc = "claimed"
    /\ IF is_job_cancel_requested(worker.job)
       THEN /\ mark_job_cancelled(worker.job)
            /\ worker' = NoWork /\ UNCHANGED proj
       ELSE /\ proj' = [proj EXCEPT ![jid[worker.job]].status = "active"]
            /\ worker' = [worker EXCEPT !.pc = "running"]
            /\ UNCHANGED jobs
    /\ UNCHANGED <<jid, handler, threads, told, hold, offers, banned, removed, known, spent>>

\* The pipeline ends, with a projection, at a cancel checkpoint, or, when a
\* file operation raises, with none.
Run ==
    /\ worker.pc = "running"
    /\ LET t == jid[worker.job] IN
       \/ /\ is_job_cancel_requested(worker.job)
          /\ proj' = [proj EXCEPT ![t] = [status |-> "done", hidden |-> TRUE]]
          /\ worker' = [worker EXCEPT !.pc = "ending", !.outcome = "cancelled"]
          /\ Works
       \/ /\ \E e \in {"done", "failed", "review"}, o \in {"completed", "raised"} :
                /\ e = "failed" => o = "raised"
                /\ e = "review" => o = "completed"
                /\ proj' = [proj EXCEPT ![t] = Ended(@)[e]]
                /\ worker' = [worker EXCEPT !.pc = "ending", !.outcome = o]
          /\ Works
       \/ /\ Failure
          /\ worker' = [worker EXCEPT !.pc = "ending", !.outcome = "raised"]
          /\ UNCHANGED proj
    /\ UNCHANGED <<jobs, jid, handler, threads, told, hold, offers, banned, removed, known>>

Finish ==
    /\ worker.pc = "ending"
    /\ CASE worker.outcome = "completed" -> mark_job_completed(worker.job)
         [] worker.outcome = "cancelled" -> mark_job_cancelled(worker.job)
         [] OTHER -> \/ mark_job_failed(worker.job)
                     \/ CanRetry(worker.job) /\ schedule_job_retry(worker.job)
    /\ worker' = NoWork
    /\ UNCHANGED <<jid, handler, threads, proj, told, hold, offers, banned, removed,
                   known, spent>>

RetryFallsDue ==
    /\ \E j \in JobIds : BecomesDue(j)
    /\ UNCHANGED <<jid, handler, worker, threads, proj, told, hold, offers, banned,
                   removed, known, spent>>

\* A direct thread has no job to be cancelled by.
_run_download_job ==
    /\ \E t \in threads :
          \/ /\ proj[t].status = "queued"
             /\ proj' = [proj EXCEPT ![t].status = "active"]
             /\ UNCHANGED threads
          \/ /\ proj[t].status = "active"
             /\ \E e \in {"done", "failed", "review"} :
                   proj' = [proj EXCEPT ![t] = Ended(@)[e]]
             /\ threads' = threads \ {t}
    /\ UNCHANGED <<jobs, jid, handler, worker, told, hold, offers, banned, removed,
                   known, spent>>

-----------------------------------------------------------------------------
(* Crash and boot *)

\* jobs.json is rewritten in place, and one cut short is read as an empty one.
Crash ==
    /\ worker.pc # "down"
    /\ Fault("crashes")
    /\ worker' = [NoWork EXCEPT !.pc = "down"]
    /\ handler' = Idle /\ threads' = {}
    /\ \/ UNCHANGED proj
       \/ proj' = [t \in Jids |-> IF proj[t].status = "none" THEN proj[t] ELSE LostProjection]
    /\ UNCHANGED <<jobs, jid, told, hold, offers, banned, removed, known>>

\* _load_jobs fails what has been under way for half an hour, the worker takes
\* over its jobs.
Boot ==
    /\ worker.pc = "down"
    /\ \E old \in SUBSET {t \in Jids : proj[t].status \in {"queued", "active"}} :
          proj' = [t \in Jids |-> IF t \in old THEN [proj[t] EXCEPT !.status = "done"]
                                               ELSE proj[t]]
    /\ recover_stale_running_jobs(Running)
    /\ worker' = NoWork
    /\ UNCHANGED <<jid, handler, threads, told, hold, offers, banned, removed, known, spent>>

Next ==
    \/ newznab \/ album_hold_create \/ album_hold_clear \/ HoldRunsOut
    \/ \E k \in Keys : \/ addurl(k) \/ local_ingest(k)
                       \/ soulseek_ingest(k) \/ _completed_folder_ingest(k)
    \/ Publish \/ Enqueue \/ Confirm \/ Direct
    \/ \E t \in Jids : Delete(t)
    \/ CancelJob \/ _create_album_hold_for_cancel \/ _hide_from_lidarr \/ job_cancel
    \/ Claim \/ Start \/ Run \/ Finish \/ RetryFallsDue \/ _run_download_job
    \/ Crash \/ Boot

Spec == Init /\ [][Next]_vars

-----------------------------------------------------------------------------
(* Properties *)

Visible(t) == ~proj[t].hidden /\ proj[t].status \in {"queued", "active"}
Carried(t) == t \in threads \/ get_active_job_by_jid(t) # {}
RowsOf(t) == {j \in JobIds : jid[j] = t}
Harmed == spent.crashes + spent.failures > 0

\* The ends of a grab that write no projection: cancelled before its start,
\* failed in a pipeline that raised or by recovery, or a thread lost in a crash.
Dropped(t) ==
    \/ \E j \in RowsOf(t) : jobs[j].state = "cancelled" \/ (jobs[j].state = "failed" /\ Harmed)
    \/ RowsOf(t) = {} /\ spent.crashes > 0

\* A jid given to Lidarr has a projection, unless it had one that a crash in
\* the middle of rewriting jobs.json lost with all others (`lost', server.py
\* 496-500), and while Lidarr is shown a download under way somebody is at work
\* on it, whichever single lookup, INSERT or reading back failed on the way in
\* (server.py 1619-1706: the dedupe before and after the enqueue, and the
\* direct thread).
AnsweredIsCarried ==
    spent.failures <= 1 =>
        \A t \in told : /\ proj[t].status # "none"
                        /\ Visible(t) => Carried(t) \/ Dropped(t)

\* Once Lidarr's removal of a grab is answered, neither worker nor boot shows
\* the download to it again, except as a review, not even when a crash has lost
\* jobs.json and the hidden flag with it; and if the removal stopped an active
\* job, no search offers the album until the hold is cleared or has run out,
\* however many holds came and went before (server.py 5061-5099, 821-863).
RemovalSticks ==
    /\ (spent.crashes = 0 \/ spent.failures = 0)
           => \A t \in removed : proj[t].hidden \/ proj[t].status \in {"review", "lost"}
    /\ (known /\ ~Harmed) => \A k \in Keys : offers[k] # "late"

\* The progress a worker has made is never undone by the handler that queued
\* its job and is still at work: "a fast worker cannot lose progress to an
\* endpoint-side queued write" (server.py 1664-1665).  What a crash lost with
\* jobs.json stays lost, or starts again as under way.
ProgressKept ==
    [][\A t \in Jids : proj[t].status \notin {"none", "queued"}
                           => proj'[t].status \notin {"none", "queued"}]_vars
=============================================================================
