------------------------- MODULE BackendLaneProofs -------------------------
(***************************************************************************)
(* Theorems about BackendLane, for any number of releases, ingest jobs,    *)
(* removals, cancellations, crashes and database errors.                   *)
(***************************************************************************)
EXTENDS BackendLane, JobStoreProofs

-----------------------------------------------------------------------------
(* The inductive invariant *)

\* The types of the places TypeOK leaves open.
HttpSet == [pc : {"idle", "ingest", "enqueue", "revert", "deleting", "cancelling",
                  "discarding"}, jid : Jids]
WorkerPcs == {"idle", "down", "claimed", "pipeline", "posting", "waiting", "mirror",
              "mirroring", "finishing"}
WorkerSet == [pc : WorkerPcs, job : JobIds \cup {0}, raised : BOOLEAN,
              state : {"imported", "failed", "review"}, verdict : TerminalJobStates]
Spent == [deletes : Nat, cancels : Nat, crashes : Nat, faults : Nat]
Shape == /\ TypeOK /\ http \in HttpSet /\ worker \in WorkerSet /\ spent \in Spent
         /\ removed \subseteq Jids

Busy == worker.pc \notin {"idle", "down"}
Early == {"absent", "queued", "downloading", "completed"}
Open == {"queued", "downloading", "completed", "importing"}
Reporting == {"mirror", "mirroring", "finishing"}

\* The backend was asked before there is an open row; a key has one active job, and
\* the worker's job is active.
Backed ==
    /\ \A j \in Jids : lane[j] \in Open => remote[j] # "none"
    /\ \A i, k \in JobIds : IsActive(i) /\ IsActive(k) /\ jobs[i].key = jobs[k].key => i = k
    /\ Busy => IsActive(worker.job)

\* Until the job is there, nobody else moves the row the poll is handing over.
Handing ==
    /\ http.pc = "ingest" => lane[http.jid] = "completed"
    /\ http.pc \in {"enqueue", "revert"} =>
          lane[http.jid] = "importing" /\ find_active_job_by_dedupe(http.jid) = {}
    /\ http.pc = "revert" => spent.faults > 0

\* A removal flags the one active job, and then no poll starts another.
Flagged ==
    http.pc \in {"deleting", "cancelling"} /\ spent.faults = 0 =>
        \A i \in find_active_job_by_dedupe(http.jid) : jobs[i].cancel
Closed == \A j \in removed : lane[j] \in BACKEND_JOB_TERMINAL_STATES \cup {"review"}

Lane == Backed /\ DurableFirst /\ Handing /\ Flagged /\ Closed /\ RemovalReachesIngest

\* While neither process nor database failed, a release is judged once: when
\* there is a record, its job is only on its way to report.
Calm == spent.faults = 0 /\ spent.crashes = 0
JudgedOnce ==
    Calm => \A j \in Jids : record[j] # "none" =>
        /\ lane[j] \notin Early
        /\ http.jid = j => http.pc \notin {"ingest", "enqueue"}
        /\ \A i \in find_active_job_by_dedupe(j) : worker.job = i /\ worker.pc \in Reporting

\* A row is cancelled by a removal or by the discard of a record.
Cause ==
    /\ \A j \in Jids : lane[j] = "cancelled" => j \in removed \/ record[j] # "none"
    /\ http.pc = "discarding" => record[http.jid] # "none" /\ (Calm => record[http.jid] # "review")

\* What the worker is about to report as a review is still on display.
OnDisplay ==
    Calm => \A j \in Jids :
        (/\ record[j] = "review" /\ lane[j] = "importing"
         /\ worker.pc \in {"mirror", "mirroring"} /\ Jid = j)
            => ~proj[j].hidden /\ proj[j].hold

IInv == Shape /\ Lane /\ JudgedOnce /\ Cause /\ OnDisplay

-----------------------------------------------------------------------------
(* Types *)

\* The bounds' counters only grow.
LEMMA Spending ==
    ASSUME spent \in Spent, NEW f \in {"deletes", "cancels", "crashes", "faults"}
    PROVE  LET s == [spent EXCEPT ![f] = @ + 1] IN
           /\ s \in Spent
           /\ s.faults >= spent.faults /\ s.crashes >= spent.crashes
           /\ f = "faults" => s.faults > 0
           /\ f = "crashes" => s.crashes > 0
           /\ f # "faults" => s.faults = spent.faults
  <1> USE DEF Spent
  <1>1. CASE f = "deletes"
    BY <1>1
  <1>2. CASE f = "cancels"
    BY <1>2
  <1>3. CASE f = "crashes"
    BY <1>3
  <1>4. CASE f = "faults"
    BY <1>4
  <1> QED BY <1>1, <1>2, <1>3, <1>4

Grows == spent' \in Spent /\ spent'.faults >= spent.faults /\ spent'.crashes >= spent.crashes

LEMMA SpendingGrows ==
    ASSUME spent \in Spent, NoFault \/ Fault \/ UNCHANGED spent
    PROVE  Grows /\ (Fault => spent'.faults > 0)
  <1>1. UNCHANGED spent => Grows
    BY DEF Grows, Spent
  <1>2. Fault => Grows /\ spent'.faults > 0
    <2>1. [spent EXCEPT !.faults = @ + 1] = [spent EXCEPT !["faults"] = @ + 1]
      OBVIOUS
    <2> QED BY <2>1, Spending DEF Fault, Grows
  <1> QED BY <1>1, <1>2 DEF NoFault, Fault

ProjectionStatus == {"none", "downloading", "processing", "review_required", "completed", "failed"}

\* The writes to the projection.
LEMMA ProjectionWrites ==
    ASSUME proj \in [Jids -> Projection], NEW j \in Jids
    PROVE  /\ \A s \in ProjectionStatus : Status(j, s) =>
                 /\ proj' \in [Jids -> Projection]
                 /\ \A k \in Jids \ {j} : proj'[k] = proj[k]
           /\ \A s \in ProjectionStatus, h, d \in BOOLEAN : Project(j, s, h, d) =>
                 /\ proj' \in [Jids -> Projection]
                 /\ \A k \in Jids \ {j} : proj'[k] = proj[k]
                 /\ proj'[j].hold = h /\ proj'[j].hidden = d
           /\ Hide(j) =>
                 /\ proj' \in [Jids -> Projection]
                 /\ \A k \in Jids \ {j} : proj'[k] = proj[k]
  <1> USE DEF Projection, ProjectionStatus
  <1>1. \A s \in ProjectionStatus : Status(j, s) =>
            /\ proj' \in [Jids -> Projection]
            /\ \A k \in Jids \ {j} : proj'[k] = proj[k]
    BY DEF Status
  <1>2. \A s \in ProjectionStatus, h, d \in BOOLEAN : Project(j, s, h, d) =>
            /\ proj' \in [Jids -> Projection]
            /\ \A k \in Jids \ {j} : proj'[k] = proj[k]
            /\ proj'[j].hold = h /\ proj'[j].hidden = d
    BY DEF Project
  <1>3. Hide(j) => /\ proj' \in [Jids -> Projection]
                   /\ \A k \in Jids \ {j} : proj'[k] = proj[k]
    BY DEF Hide
  <1> QED BY <1>1, <1>2, <1>3

LEMMA WorkerMoves ==
    ASSUME worker \in WorkerSet
    PROVE  /\ \A p \in WorkerPcs : Goto(p) =>
                 /\ worker' \in WorkerSet /\ worker'.pc = p /\ worker'.job = worker.job
                 /\ worker'.state = worker.state
           /\ \A v \in TerminalJobStates : Raises(v) =>
                 worker' \in WorkerSet /\ worker'.pc = "mirror" /\ worker'.job = worker.job
           /\ \A p \in {"idle", "down"} : WorkerAt(p) \in WorkerSet /\ WorkerAt(p).pc = p
  <1>1. \A p \in WorkerPcs : Goto(p) =>
            /\ worker' \in WorkerSet /\ worker'.pc = p /\ worker'.job = worker.job
            /\ worker'.state = worker.state
    BY DEF Goto, WorkerSet
  <1>2. \A v \in TerminalJobStates : Raises(v) =>
            worker' \in WorkerSet /\ worker'.pc = "mirror" /\ worker'.job = worker.job
    BY DEF Raises, WorkerSet, WorkerPcs
  <1>3. \A p \in {"idle", "down"} : WorkerAt(p) \in WorkerSet /\ WorkerAt(p).pc = p
    BY DEF WorkerAt, WorkerSet, WorkerPcs, TerminalJobStates
  <1> QED BY <1>1, <1>2, <1>3

LEMMA HttpMoves ==
    /\ Done => http' \in HttpSet /\ http'.pc = "idle"
    /\ \A p \in {"idle", "ingest", "enqueue", "revert", "deleting", "cancelling", "discarding"},
          j \in Jids : To(p, j) => http' \in HttpSet /\ http'.pc = p /\ http'.jid = j
  BY JobStoreAssumption DEF Done, HttpIdle, To, HttpSet, Jids

LEMMA Shaped ==
    ASSUME JobsTypeOK',
           lane' \in [Jids -> BACKEND_JOB_STATES \cup {"absent"}],
           remote' \in [Jids -> {"none", "queued", "downloading", "completed", "failed", "gone"}],
           proj' \in [Jids -> Projection], record' \in [Jids -> RecordStates],
           library' \in [Jids -> {"none", "posted", "imported", "refused"}],
           http' \in HttpSet, worker' \in WorkerSet, Busy' => worker'.job \in JobIds,
           spent' \in Spent, removed' \subseteq Jids
    PROVE  Shape'
  BY DEF Shape, TypeOK, HttpSet, WorkerSet, Busy, BACKEND_JOB_STATES

-----------------------------------------------------------------------------
(* Steps that leave the rows of the lane alone *)

\* The handler stays, ends, or goes on with its removal.
LEMMA HttpStill ==
    ASSUME Shape, Lane, RowsKept, UNCHANGED lane, Grows,
           \/ http' = http \/ http'.pc \in {"idle", "discarding"}
           \/ http.pc = "deleting" /\ http'.pc = "cancelling" /\ http'.jid = http.jid
    PROVE  Handing' /\ Flagged'
  <1>0. http \in HttpSet /\ http.jid \in Jids
    BY DEF Shape, HttpSet
  <1>1. \A i \in JobIds : /\ jobs'[i].state \in ActiveJobStates => jobs[i].state \in ActiveJobStates
                          /\ jobs'[i].key = jobs[i].key
                          /\ jobs[i].cancel => jobs'[i].cancel
    BY DEF RowsKept, RowStays
  <1>2. spent \in Spent /\ spent'.faults >= spent.faults /\ spent' \in Spent
    BY DEF Shape, Grows
  <1>3. (spent'.faults = 0 => spent.faults = 0) /\ (spent.faults > 0 => spent'.faults > 0)
    BY <1>2 DEF Spent
  <1>4. Handing'
    BY <1>1, <1>3 DEF Lane, Handing, find_active_job_by_dedupe, IsActive
  <1>5. Flagged'
    BY <1>1, <1>3 DEF Lane, Flagged, find_active_job_by_dedupe, IsActive
  <1> QED BY <1>4, <1>5

LEMMA LaneStill ==
    ASSUME Shape, Lane, RowsKept, UNCHANGED <<lane, removed>>, Grows,
           \A j \in Jids : remote[j] # "none" => remote'[j] # "none",
           Handing', Flagged', Busy' => jobs'[worker'.job].state \in ActiveJobStates
    PROVE  Lane'
  <1>1. \A j \in Jids : \A i \in find_active_job_by_dedupe(j)' :
            i \in find_active_job_by_dedupe(j) /\ (jobs[i].cancel => jobs'[i].cancel)
    BY ActiveEnd
  <1>2. spent'.faults = 0 => spent.faults = 0
    BY DEF Shape, Grows, Spent
  <1>3. Backed'
    BY DEF Lane, Backed, RowsKept, RowStays, IsActive
  <1>4. DurableFirst' /\ Closed'
    BY <1>1 DEF Lane, DurableFirst, Closed
  <1>5. RemovalReachesIngest'
    BY <1>1, <1>2 DEF Lane, RemovalReachesIngest, Shape
  <1> QED BY <1>3, <1>4, <1>5 DEF Lane

\* While nothing fails: no record appears, no handed-over row is taken back, and
\* the worker only goes on with its report.
LEMMA CalmStill ==
    ASSUME Shape, JudgedOnce, Cause, OnDisplay, RowsKept, Grows, removed \subseteq removed',
           \A j \in Jids : record'[j] = record[j]
                           \/ (record[j] # "none" /\ record'[j] \notin {"none", "review"}),
           Calm' => \A j \in Jids : lane[j] \notin Early => lane'[j] \notin Early,
           http'.pc \in {"ingest", "enqueue"} =>
               \/ lane[http'.jid] \in Early
               \/ http.jid = http'.jid /\ http.pc \in {"ingest", "enqueue"},
           worker.pc \in Reporting /\ jobs'[worker.job].state \in ActiveJobStates =>
               worker'.job = worker.job /\ worker'.pc \in Reporting,
           worker'.pc \in {"mirror", "mirroring"} =>
               worker'.job = worker.job /\ worker.pc \in {"mirror", "mirroring"},
           Calm' /\ worker'.pc \in {"mirror", "mirroring"} =>
               \A j \in Jids : record[j] = "review" /\ record'[j] = "review" /\ lane'[j] = "importing"
                              => lane[j] = "importing" /\ proj'[j] = proj[j],
           \A j \in Jids : lane'[j] = "cancelled" =>
               lane[j] = "cancelled" \/ j \in removed' \/ record'[j] # "none",
           http'.pc = "discarding" => http' = http \/ record'[http'.jid] \notin {"none", "review"}
    PROVE  JudgedOnce' /\ Cause' /\ OnDisplay'
  <1>1. Calm' => Calm
    BY DEF Calm, Shape, Grows, Spent
  <1>2. \A j \in Jids : \A i \in find_active_job_by_dedupe(j)' :
            i \in find_active_job_by_dedupe(j) /\ jobs'[i].state \in ActiveJobStates
    BY ActiveEnd DEF find_active_job_by_dedupe, IsActive
  <1>3. JudgedOnce'
    BY <1>1, <1>2 DEF JudgedOnce
  <1>4. Cause'
    <2>1. http \in HttpSet /\ http.jid \in Jids
      BY DEF Shape, HttpSet
    <2> QED BY <1>1, <2>1 DEF Cause
  <1>5. OnDisplay'
    <2> SUFFICES ASSUME Calm', NEW j \in Jids, record'[j] = "review", lane'[j] = "importing",
                        worker'.pc \in {"mirror", "mirroring"}, jobs'[worker'.job].key = j
                 PROVE  ~proj'[j].hidden /\ proj'[j].hold
      BY DEF OnDisplay, Jid
    <2>1. worker.job \in JobIds
      BY DEF Shape, TypeOK
    <2>2. record[j] = "review" /\ jobs[worker.job].key = j
      BY <2>1 DEF RowsKept, RowStays
    <2> QED BY <1>1, <2>2 DEF OnDisplay, Jid
  <1> QED BY <1>3, <1>4, <1>5

\* A step beside handler and worker.
LEMMA BesideKeeps ==
    ASSUME IInv, Shape', RowsKept, Grows, UNCHANGED <<lane, http, worker, removed>>,
           \A j \in Jids : remote[j] # "none" => remote'[j] # "none",
           \A i \in JobIds : IsActive(i) => IsActive(i)',
           \A j \in Jids : record'[j] = record[j]
                           \/ (record[j] # "none" /\ record'[j] \notin {"none", "review"}),
           \A j \in Jids : record[j] = "review" /\ record'[j] = "review" /\ lane[j] = "importing"
                               => proj'[j] = proj[j]
    PROVE  IInv'
  <1>1. Busy' => jobs'[worker'.job].state \in ActiveJobStates
    BY DEF IInv, Lane, Backed, Busy, Shape, TypeOK, IsActive
  <1>2. Handing' /\ Flagged'
    BY HttpStill DEF IInv
  <1>3. Lane'
    BY <1>1, <1>2, LaneStill DEF IInv
  <1>4. JudgedOnce' /\ Cause' /\ OnDisplay'
    BY CalmStill DEF IInv
  <1> QED BY <1>3, <1>4 DEF IInv

\* What the steps below find.
LEMMA Found ==
    ASSUME IInv
    PROVE  /\ TypeOK /\ JobsTypeOK /\ spent \in Spent /\ http \in HttpSet /\ worker \in WorkerSet
           /\ http.jid \in Jids /\ removed \subseteq Jids
           /\ lane \in [Jids -> BACKEND_JOB_STATES \cup {"absent"}]
           /\ remote \in [Jids -> {"none", "queued", "downloading", "completed", "failed", "gone"}]
           /\ proj \in [Jids -> Projection] /\ record \in [Jids -> RecordStates]
           /\ library \in [Jids -> {"none", "posted", "imported", "refused"}]
           /\ \A j \in Jids : proj[j].hidden \in BOOLEAN /\ proj[j].hold \in BOOLEAN
           /\ Busy => worker.job \in JobIds /\ Jid \in Jids /\ jobs[worker.job].state \in ActiveJobStates
  <1>1. Shape /\ TypeOK
    BY DEF IInv, Shape
  <1>2. Busy => worker.job \in JobIds /\ Jid \in Jids /\ jobs[worker.job].state \in ActiveJobStates
    <2>1. Busy => worker.job \in JobIds
      BY <1>1 DEF TypeOK, Busy
    <2>2. \A i \in JobIds : jobs[i].key \in Keys
      BY <1>1, LimitType DEF TypeOK
    <2> QED BY <2>1, <2>2 DEF Jid, Jids, IInv, Lane, Backed, IsActive
  <1>3. \A j \in Jids : proj[j].hidden \in BOOLEAN /\ proj[j].hold \in BOOLEAN
    BY <1>1 DEF TypeOK, Projection
  <1> QED BY <1>1, <1>2, <1>3 DEF Shape, TypeOK

LEMMA OthersKeep ==
    ASSUME IInv,
           \/ \E j \in Jids : \/ RestoreReview(j) \/ SettlePending(j) \/ Expire(j) \/ Promote(j)
                              \/ RemoteMoves(j) \/ LidarrWorks(j)
           \/ \E i \in JobIds : CancelJob(i)
           \/ TimePasses \/ UNCHANGED vars
    PROVE  IInv'
  <1>0. /\ TypeOK /\ JobsTypeOK /\ spent \in Spent /\ http \in HttpSet /\ worker \in WorkerSet
        /\ removed \subseteq Jids
        /\ lane \in [Jids -> BACKEND_JOB_STATES \cup {"absent"}]
        /\ remote \in [Jids -> {"none", "queued", "downloading", "completed", "failed", "gone"}]
        /\ proj \in [Jids -> Projection] /\ record \in [Jids -> RecordStates]
        /\ library \in [Jids -> {"none", "posted", "imported", "refused"}]
        /\ \A j \in Jids : proj[j].hidden \in BOOLEAN
        /\ Busy => worker.job \in JobIds
    BY Found
  <1>1. UNCHANGED <<lane, http, worker, removed>>
    BY DEF RestoreReview, SettlePending, Expire, Promote, RemoteMoves, LidarrWorks, CancelJob,
           TimePasses, vars
  <1>2. ASSUME JobsTypeOK', RowsKept, Grows, \A i \in JobIds : IsActive(i) => IsActive(i)',
               UNCHANGED remote \/ remote' \in [Jids -> {"queued", "downloading", "completed", "failed", "gone", "none"}],
               \A j \in Jids : remote[j] # "none" => remote'[j] # "none",
               proj' \in [Jids -> Projection], record' \in [Jids -> RecordStates],
               library' \in [Jids -> {"none", "posted", "imported", "refused"}],
               \A j \in Jids : record'[j] = record[j]
                               \/ (record[j] # "none" /\ record'[j] \notin {"none", "review"}),
               \A j \in Jids : record[j] = "review" /\ record'[j] = "review" /\ lane[j] = "importing"
                               => proj'[j] = proj[j]
        PROVE  IInv'
    <2>1. Shape'
      <3>1. Busy' => worker'.job \in JobIds
        BY <1>0, <1>1 DEF Busy
      <3> QED BY <1>0, <1>1, <1>2, <3>1, Shaped DEF Grows
    <2> QED BY <1>1, <1>2, <2>1, BesideKeeps
  <1>3. UNCHANGED jobs => JobsTypeOK' /\ RowsKept /\ \A i \in JobIds : IsActive(i) => IsActive(i)'
    BY <1>0, TableSteps DEF IsActive
  <1>4. UNCHANGED spent => Grows
    BY <1>0, SpendingGrows
  <1>5. ASSUME NEW j \in Jids, RestoreReview(j) PROVE IInv'
    <2>1. proj' \in [Jids -> Projection] /\ \A k \in Jids \ {j} : proj'[k] = proj[k]
      BY <1>0, <1>5, ProjectionWrites DEF RestoreReview, ProjectionStatus
    <2> QED BY <1>0, <1>2, <1>3, <1>4, <1>5, <2>1 DEF RestoreReview
  <1>6. ASSUME NEW j \in Jids, SettlePending(j) \/ Expire(j) \/ Promote(j) PROVE IInv'
    <2>1. proj' \in [Jids -> Projection] /\ \A k \in Jids \ {j} : proj'[k] = proj[k]
      BY <1>0, <1>6, ProjectionWrites DEF SettlePending, Expire, Promote, ProjectionStatus
    <2>2. /\ record[j] \in {"pending", "review"}
          /\ \E s \in {"imported", "failed", "expired"} : record' = [record EXCEPT ![j] = s]
      BY <1>6 DEF SettlePending, Expire, Promote
    <2>3. /\ record' \in [Jids -> RecordStates] /\ record'[j] \notin {"none", "review"}
          /\ \A k \in Jids \ {j} : record'[k] = record[k]
      BY <1>0, <2>2 DEF RecordStates
    <2>4. library' \in [Jids -> {"none", "posted", "imported", "refused"}]
      BY <1>0, <1>6 DEF SettlePending, Expire, Promote
    <2>5. UNCHANGED <<jobs, spent, remote>>
      BY <1>6 DEF SettlePending, Expire, Promote
    <2> QED BY <1>0, <1>2, <1>3, <1>4, <2>1, <2>2, <2>3, <2>4, <2>5
  <1>7. ASSUME NEW j \in Jids, RemoteMoves(j) \/ LidarrWorks(j) PROVE IInv'
    <2>1. /\ remote' \in [Jids -> {"none", "queued", "downloading", "completed", "failed", "gone"}]
          /\ \A k \in Jids : remote[k] # "none" => remote'[k] # "none"
          /\ library' \in [Jids -> {"none", "posted", "imported", "refused"}]
      BY <1>0, <1>7 DEF RemoteMoves, LidarrWorks
    <2>2. UNCHANGED <<jobs, spent, proj, record>>
      BY <1>7 DEF RemoteMoves, LidarrWorks
    <2> QED BY <1>0, <1>2, <1>3, <1>4, <2>1, <2>2
  <1>8. ASSUME NEW i \in JobIds, CancelJob(i) PROVE IInv'
    <2>1. Grows
      <3>1. [spent EXCEPT !.cancels = @ + 1] = [spent EXCEPT !["cancels"] = @ + 1]
        OBVIOUS
      <3> QED BY <1>0, <1>8, <3>1, Spending DEF CancelJob, Grows
    <2>2. JobsTypeOK' /\ RowsKept /\ \A k \in JobIds : IsActive(k) => IsActive(k)'
      BY <1>0, <1>8, TableSteps DEF CancelJob
    <2> QED BY <1>0, <1>2, <1>8, <2>1, <2>2 DEF CancelJob
  <1>9. CASE TimePasses
    <2>1. JobsTypeOK' /\ RowsKept /\ \A k \in JobIds : IsActive(k) => IsActive(k)'
      BY <1>0, <1>9, TableSteps DEF TimePasses
    <2> QED BY <1>0, <1>2, <1>4, <1>9, <2>1 DEF TimePasses
  <1>10. CASE UNCHANGED vars
    BY <1>0, <1>2, <1>3, <1>4, <1>10 DEF vars
  <1> QED BY <1>5, <1>6, <1>7, <1>8, <1>9, <1>10
-----------------------------------------------------------------------------
(* The worker, up to its report *)

\* A step of the worker that may judge its release: while nothing fails there
\* was no record before, and nobody else is about to touch the release.
LEMMA JudgingKeeps ==
    ASSUME IInv, worker.pc \in {"claimed", "pipeline", "posting", "waiting"},
           UNCHANGED <<jobs, lane, remote, http, spent, removed>>,
           worker' \in WorkerSet, worker'.job = worker.job,
           worker'.pc \in {"pipeline", "posting", "waiting", "mirror"},
           library' \in [Jids -> {"none", "posted", "imported", "refused"}],
           proj' \in [Jids -> Projection], record' \in [Jids -> RecordStates],
           \A k \in Jids \ {Jid} : proj'[k] = proj[k] /\ record'[k] = record[k],
           \/ record'[Jid] = record[Jid]
           \/ /\ record'[Jid] # "none" /\ worker'.pc = "mirror"
              /\ record'[Jid] = "review" => ~proj'[Jid].hidden /\ proj'[Jid].hold
    PROVE  IInv'
  <1>0. /\ Busy /\ worker.job \in JobIds /\ Jid \in Jids /\ http.jid \in Jids
        /\ jobs[worker.job].state \in ActiveJobStates
        /\ JobsTypeOK /\ spent \in Spent /\ http \in HttpSet /\ removed \subseteq Jids
        /\ lane \in [Jids -> BACKEND_JOB_STATES \cup {"absent"}]
        /\ remote \in [Jids -> {"none", "queued", "downloading", "completed", "failed", "gone"}]
    BY Found DEF Busy
  <1>1. RowsKept /\ JobsTypeOK' /\ Grows
    BY <1>0, TableSteps, SpendingGrows
  <1>2. Shape'
    BY <1>0, <1>1, Shaped
  <1>3. Lane'
    <2>1. Handing' /\ Flagged'
      BY <1>1, HttpStill DEF IInv
    <2> QED BY <1>0, <1>1, <2>1, LaneStill DEF IInv
  <1>4. worker.job \in find_active_job_by_dedupe(Jid)
    BY <1>0 DEF find_active_job_by_dedupe, IsActive, Jid
  <1>5. Calm => record[Jid] = "none"
    BY <1>0, <1>4 DEF IInv, JudgedOnce, Reporting
  <1>6. /\ lane[Jid] \notin Early
        /\ http.jid = Jid => http.pc \notin {"ingest", "enqueue"}
        /\ \A i \in find_active_job_by_dedupe(Jid) : i = worker.job
    <2>1. lane[Jid] \notin Early
      BY <1>0, <1>4 DEF IInv, Lane, DurableFirst, Early
    <2>2. http.jid = Jid => http.pc \notin {"ingest", "enqueue"}
      BY <1>0, <1>4, <2>1 DEF IInv, Lane, Handing, Early
    <2>3. \A i \in find_active_job_by_dedupe(Jid) : i = worker.job
      BY <1>0 DEF IInv, Lane, Backed, find_active_job_by_dedupe, IsActive, Jid
    <2> QED BY <2>1, <2>2, <2>3
  <1>7. Calm' <=> Calm
    BY DEF Calm
  <1>8. JudgedOnce'
    <2> SUFFICES ASSUME Calm, NEW j \in Jids, record'[j] # "none"
                 PROVE  /\ lane[j] \notin Early
                        /\ http.jid = j => http.pc \notin {"ingest", "enqueue"}
                        /\ \A i \in find_active_job_by_dedupe(j) :
                              worker'.job = i /\ worker'.pc \in Reporting
      BY <1>7 DEF JudgedOnce, find_active_job_by_dedupe, IsActive
    <2>1. CASE j = Jid
      BY <1>5, <1>6, <2>1 DEF Reporting
    <2>2. CASE j # Jid
      <3>1. record[j] # "none"
        BY <2>2
      <3>2. find_active_job_by_dedupe(j) = {}
        BY <1>0, <2>2, <3>1 DEF IInv, JudgedOnce, find_active_job_by_dedupe, Jid
      <3> QED BY <3>1, <3>2 DEF IInv, JudgedOnce
    <2> QED BY <2>1, <2>2
  <1>9. Cause'
    <2>1. \A j \in Jids : record[j] # "none" => record'[j] # "none"
      OBVIOUS
    <2>2. \A j \in Jids : Calm /\ record[j] # "none" => record'[j] = record[j]
      BY <1>5
    <2> QED BY <1>0, <1>7, <2>1, <2>2 DEF IInv, Cause
  <1>10. OnDisplay'
    <2> SUFFICES ASSUME Calm, NEW j \in Jids, record'[j] = "review", jobs'[worker'.job].key = j
                 PROVE  ~proj'[j].hidden /\ proj'[j].hold
      BY <1>7 DEF OnDisplay, Jid
    <2>1. j = Jid
      BY DEF Jid
    <2> QED BY <1>5, <2>1
  <1> QED BY <1>2, <1>3, <1>8, <1>9, <1>10 DEF IInv

\* What a judgement writes.
LEMMA RecordWrites ==
    ASSUME record \in [Jids -> RecordStates], NEW j \in Jids, NEW s \in RecordStates,
           record' = [record EXCEPT ![j] = s]
    PROVE  /\ record' \in [Jids -> RecordStates] /\ record'[j] = s
           /\ \A k \in Jids \ {j} : record'[k] = record[k]
  OBVIOUS

LEMMA PipelineKeeps ==
    ASSUME IInv, Checkpoint \/ CopyFails \/ Judge \/ LastGate \/ PostImport \/ AwaitImport
    PROVE  IInv'
  <1>0. /\ worker.pc \in {"claimed", "pipeline", "posting", "waiting"}
        /\ UNCHANGED <<jobs, lane, remote, http, spent, removed>>
    BY DEF Checkpoint, CopyFails, Judge, LastGate, PostImport, AwaitImport
  <1>1. /\ worker \in WorkerSet /\ worker.job \in JobIds /\ Jid \in Jids
        /\ proj \in [Jids -> Projection] /\ record \in [Jids -> RecordStates]
        /\ library \in [Jids -> {"none", "posted", "imported", "refused"}]
        /\ proj[Jid].hidden \in BOOLEAN /\ proj[Jid].hold \in BOOLEAN
    BY <1>0, Found DEF Busy
  <1>2. /\ \A p \in WorkerPcs : Goto(p) =>
               worker' \in WorkerSet /\ worker'.pc = p /\ worker'.job = worker.job
        /\ \A v \in TerminalJobStates : Raises(v) =>
               worker' \in WorkerSet /\ worker'.pc = "mirror" /\ worker'.job = worker.job
    BY <1>1, WorkerMoves
  <1>3. /\ \A s \in ProjectionStatus : Status(Jid, s) =>
              /\ proj' \in [Jids -> Projection]
              /\ \A k \in Jids \ {Jid} : proj'[k] = proj[k]
        /\ \A s \in ProjectionStatus, h, d \in BOOLEAN : Project(Jid, s, h, d) =>
              /\ proj' \in [Jids -> Projection]
              /\ \A k \in Jids \ {Jid} : proj'[k] = proj[k]
              /\ proj'[Jid].hold = h /\ proj'[Jid].hidden = d
    BY <1>1, ProjectionWrites
  <1>4. \A s \in RecordStates : record' = [record EXCEPT ![Jid] = s] =>
            /\ record' \in [Jids -> RecordStates] /\ record'[Jid] = s
            /\ \A k \in Jids \ {Jid} : record'[k] = record[k]
    BY <1>1, RecordWrites
  <1> DEFINE Same == record' = record
             Wrote == record' \in [Jids -> RecordStates] /\ record'[Jid] # "none"
                      /\ \A k \in Jids \ {Jid} : record'[k] = record[k]
             Shown == record'[Jid] = "review" => ~proj'[Jid].hidden /\ proj'[Jid].hold
             Moves == /\ worker' \in WorkerSet /\ worker'.job = worker.job
                      /\ worker'.pc \in {"pipeline", "posting", "waiting", "mirror"}
             Projects == proj' \in [Jids -> Projection] /\ \A k \in Jids \ {Jid} : proj'[k] = proj[k]
  <1>5. ASSUME Moves, Projects, Same \/ (Wrote /\ Shown /\ worker'.pc = "mirror"),
               library' \in [Jids -> {"none", "posted", "imported", "refused"}]
        PROVE  IInv'
    <2>1. /\ \A k \in Jids \ {Jid} : proj'[k] = proj[k] /\ record'[k] = record[k]
          /\ record' \in [Jids -> RecordStates]
      BY <1>1, <1>5
    <2> QED BY <1>0, <1>5, <2>1, JudgingKeeps
  <1>6. "mirror" \in WorkerPcs /\ "posting" \in WorkerPcs /\ "waiting" \in WorkerPcs
        /\ {"cancelled", "failed"} \subseteq TerminalJobStates
        /\ ProjectionStatus = {"none", "downloading", "processing", "review_required",
                               "completed", "failed"}
        /\ {"blocked", "review", "failed", "imported", "pending"} \subseteq RecordStates
    BY DEF WorkerPcs, TerminalJobStates, ProjectionStatus, RecordStates
  <1> HIDE DEF Same, Wrote, Shown, Moves, Projects
  <1> USE DEF Same, Moves, Projects
  <1>7. CASE Checkpoint
    BY <1>1, <1>2, <1>3, <1>5, <1>6, <1>7 DEF Checkpoint
  <1>8. CASE CopyFails
    BY <1>1, <1>2, <1>3, <1>5, <1>6, <1>8 DEF CopyFails
  <1>9. CASE LastGate
    BY <1>1, <1>2, <1>3, <1>5, <1>6, <1>9 DEF LastGate
  <1>10. ImportRaises => Moves /\ Projects /\ Same
    BY <1>1, <1>2, <1>3, <1>6 DEF ImportRaises, Returns
  <1>11. ASSUME worker.pc = "pipeline", Judge PROVE IInv'
    <2>1. Moves /\ Projects
      BY <1>1, <1>2, <1>3, <1>6, <1>10, <1>11 DEF Judge, Returns
    <2>2. Same \/ (Wrote /\ Shown /\ worker'.pc = "mirror")
      <3>1. \/ Same
            \/ Returns /\ \E s \in {"blocked", "failed"} : record' = [record EXCEPT ![Jid] = s]
            \/ /\ Returns /\ record' = [record EXCEPT ![Jid] = "review"]
               /\ Project(Jid, "review_required", TRUE, FALSE)
        BY <1>11 DEF Judge, ImportRaises
      <3> QED BY <1>2, <1>3, <1>4, <1>6, <3>1 DEF Wrote, Shown, Returns
    <2>3. library' \in [Jids -> {"none", "posted", "imported", "refused"}]
      BY <1>1, <1>11 DEF Judge
    <2> QED BY <1>5, <2>1, <2>2, <2>3
  <1>12. CASE PostImport
    <2>1. library' \in [Jids -> {"none", "posted", "imported", "refused"}]
      BY <1>1, <1>12 DEF PostImport
    <2>2. Moves /\ Projects /\ Same
      BY <1>1, <1>2, <1>6, <1>10, <1>12 DEF PostImport
    <2> QED BY <1>5, <2>1, <2>2
  <1>13. CASE AwaitImport
    <2>1. library' \in [Jids -> {"none", "posted", "imported", "refused"}]
      BY <1>1, <1>13 DEF AwaitImport
    <2>2. Moves /\ Projects /\ worker'.pc = "mirror"
      BY <1>1, <1>2, <1>3, <1>6, <1>13 DEF AwaitImport, Returns
    <2>3. Wrote /\ Shown
      <3>1. \E s \in {"imported", "failed", "pending"} : record' = [record EXCEPT ![Jid] = s]
        BY <1>13 DEF AwaitImport
      <3> QED BY <1>4, <1>6, <3>1 DEF Wrote, Shown
    <2> QED BY <1>5, <2>1, <2>2, <2>3
  <1> QED BY <1>7, <1>8, <1>9, <1>11, <1>12, <1>13 DEF Judge
-----------------------------------------------------------------------------
(* The worker between its jobs, its look at the row, crash and restart *)

\* A step that writes no record and touches no projection the worker is about
\* to report from, and takes nobody into the report.
LEMMA ProcessKeeps ==
    ASSUME IInv, RowsKept, JobsTypeOK', Grows, UNCHANGED <<lane, remote, record, library, removed>>,
           http' = http \/ Done,
           worker' \in WorkerSet, Busy' => worker'.job \in JobIds /\ jobs'[worker'.job].state \in ActiveJobStates,
           proj' \in [Jids -> Projection],
           Calm' /\ worker'.pc \in {"mirror", "mirroring"} => UNCHANGED proj,
           worker.pc \in Reporting /\ jobs'[worker.job].state \in ActiveJobStates =>
               (Calm' => worker'.job = worker.job /\ worker'.pc \in Reporting),
           worker'.pc \in {"mirror", "mirroring"} =>
               worker'.job = worker.job /\ worker.pc \in {"mirror", "mirroring"}
    PROVE  IInv'
  <1>0. /\ JobsTypeOK /\ http \in HttpSet /\ removed \subseteq Jids
        /\ lane \in [Jids -> BACKEND_JOB_STATES \cup {"absent"}]
        /\ remote \in [Jids -> {"none", "queued", "downloading", "completed", "failed", "gone"}]
        /\ record \in [Jids -> RecordStates]
        /\ library \in [Jids -> {"none", "posted", "imported", "refused"}]
        /\ spent \in Spent
    BY Found
  <1>1. http' \in HttpSet /\ (http' = http \/ http'.pc = "idle")
    BY <1>0, HttpMoves
  <1>2. Shape'
    BY <1>0, <1>1, Shaped DEF Grows
  <1>3. Handing' /\ Flagged'
    BY <1>1, HttpStill DEF IInv
  <1>4. Lane'
    BY <1>3, LaneStill DEF IInv
  <1>5. CASE Calm'
    BY <1>1, <1>2, <1>4, <1>5, CalmStill DEF IInv
  <1>6. CASE ~Calm'
    <2>1. Cause'
      BY <1>0, <1>1, <1>6 DEF IInv, Cause
    <2> QED BY <1>2, <1>4, <1>6, <2>1 DEF IInv, JudgedOnce, OnDisplay
  <1> QED BY <1>5, <1>6

LEMMA LoopKeeps ==
    ASSUME IInv, Claim \/ EarlyCheck \/ MirrorReads \/ Finish
    PROVE  IInv'
  <1>0. /\ JobsTypeOK /\ spent \in Spent /\ worker \in WorkerSet
        /\ proj \in [Jids -> Projection] /\ record \in [Jids -> RecordStates]
        /\ Busy => worker.job \in JobIds /\ Jid \in Jids /\ jobs[worker.job].state \in ActiveJobStates
    BY Found
  <1>1. UNCHANGED <<lane, remote, record, library, http, spent, removed>> /\ Grows
    BY <1>0, SpendingGrows DEF Claim, EarlyCheck, MirrorReads, Finish
  <1>2. CASE Claim
    <2>1. PICK i \in JobIds : dequeue_next_job(i, Types) /\ worker' = [WorkerAt("claimed") EXCEPT !.job = i]
      BY <1>2 DEF Claim
    <2>2. RowsKept /\ JobsTypeOK' /\ jobs'[i].state \in ActiveJobStates
      BY <1>0, <2>1, TableSteps
    <2>3. worker' \in WorkerSet /\ worker'.job = i /\ worker'.pc = "claimed"
      BY <2>1 DEF WorkerAt, WorkerSet, WorkerPcs, TerminalJobStates
    <2>4. worker.pc = "idle" /\ UNCHANGED proj
      BY <1>2 DEF Claim
    <2> QED BY <1>0, <1>1, <2>2, <2>3, <2>4, ProcessKeeps DEF Reporting
  <1>3. CASE EarlyCheck
    <2>0. worker.pc = "claimed" /\ Busy
      BY <1>3 DEF EarlyCheck, Busy
    <2>1. CASE mark_job_cancelled(worker.job) /\ worker' = WorkerAt("idle") /\ UNCHANGED proj
      <3>1. RowsKept /\ JobsTypeOK'
        BY <1>0, <2>0, <2>1, TableSteps DEF mark_job_cancelled, TerminalJobStates, IsActive
      <3>2. worker' \in WorkerSet /\ worker'.pc = "idle"
        BY <1>0, <2>1, WorkerMoves
      <3> QED BY <1>0, <1>1, <2>0, <2>1, <3>1, <3>2, ProcessKeeps DEF Reporting, Busy
    <2>2. CASE Goto("pipeline") /\ Status(Jid, "downloading") /\ UNCHANGED jobs
      <3>1. worker' \in WorkerSet /\ worker'.pc = "pipeline" /\ worker'.job = worker.job
        BY <1>0, <2>2, WorkerMoves DEF WorkerPcs
      <3>2. proj' \in [Jids -> Projection] /\ \A k \in Jids \ {Jid} : proj'[k] = proj[k]
        BY <1>0, <2>0, <2>2, ProjectionWrites DEF ProjectionStatus
      <3>3. library' \in [Jids -> {"none", "posted", "imported", "refused"}]
        BY <1>1, Found
      <3> QED BY <1>0, <1>1, <2>0, <2>2, <3>1, <3>2, <3>3, JudgingKeeps
    <2> QED BY <1>3, <2>1, <2>2 DEF EarlyCheck
  <1>4. CASE MirrorReads
    <2>0. worker.pc = "mirror" /\ Busy /\ UNCHANGED <<jobs, proj>>
      BY <1>4 DEF MirrorReads, Busy
    <2>1. /\ worker' \in WorkerSet /\ worker'.job = worker.job
          /\ worker'.pc \in {"mirroring", "finishing"}
      <3>1. CASE Goto("finishing")
        BY <1>0, <3>1, WorkerMoves DEF WorkerPcs
      <3>2. CASE worker' = [worker EXCEPT !.pc = "mirroring",
                                !.state = IF worker.raised THEN "failed"
                                          ELSE _backend_ingest_outcome(Jid)]
        BY <1>0, <3>2 DEF WorkerSet, WorkerPcs, _backend_ingest_outcome
      <3> QED BY <1>4, <3>1, <3>2 DEF MirrorReads
    <2>2. RowsKept /\ JobsTypeOK'
      BY <1>0, <2>0, TableSteps
    <2> QED BY <1>0, <1>1, <2>0, <2>1, <2>2, ProcessKeeps DEF Reporting
  <1>5. CASE Finish
    <2>0. worker.pc = "finishing" /\ Busy /\ UNCHANGED proj
      BY <1>5 DEF Finish, Busy
    <2>1. RowsKept /\ JobsTypeOK' /\ jobs'[worker.job].state \notin ActiveJobStates
      <3>1. worker.verdict \in TerminalJobStates
        BY <1>0 DEF WorkerSet
      <3> QED BY <1>0, <1>5, <2>0, <3>1, TableSteps DEF Finish, IsActive, ActiveJobStates, TerminalJobStates
    <2>2. worker' \in WorkerSet /\ worker'.pc = "idle"
      BY <1>0, <1>5, WorkerMoves DEF Finish
    <2> QED BY <1>0, <1>1, <2>0, <2>1, <2>2, ProcessKeeps DEF Reporting, Busy
  <1> QED BY <1>2, <1>3, <1>4, <1>5

LEMMA RestartKeeps ==
    ASSUME IInv, Crash \/ Boot
    PROVE  IInv'
  <1>0. /\ JobsTypeOK /\ spent \in Spent /\ worker \in WorkerSet
        /\ proj \in [Jids -> Projection] /\ record \in [Jids -> RecordStates]
    BY Found
  <1>1. CASE Crash
    <2>1. Grows /\ spent'.crashes > 0
      <3>1. [spent EXCEPT !.crashes = @ + 1] = [spent EXCEPT !["crashes"] = @ + 1]
        OBVIOUS
      <3> QED BY <1>0, <1>1, <3>1, Spending DEF Crash, Grows
    <2>2. ~Calm'
      BY <2>1 DEF Calm
    <2>3. proj' \in [Jids -> Projection]
      <3>1. NoProjection \in Projection
        BY DEF NoProjection, Projection
      <3> QED BY <1>0, <1>1, <3>1 DEF Crash
    <2>4. RowsKept /\ JobsTypeOK'
      BY <1>0, <1>1, TableSteps DEF Crash
    <2>5. worker' \in WorkerSet /\ worker'.pc = "down"
      BY <1>0, <1>1, WorkerMoves DEF Crash
    <2>6. UNCHANGED <<lane, remote, record, library, removed>> /\ Done
      BY <1>1 DEF Crash
    <2> QED BY <2>1, <2>2, <2>3, <2>4, <2>5, <2>6, ProcessKeeps DEF Busy
  <1>2. CASE Boot
    <2>1. worker.pc = "down"
      BY <1>2 DEF Boot, Up
    <2>2. PICK old \in SUBSET {j \in Jids : proj[j].status \in {"downloading", "processing"}} :
              proj' = [j \in Jids |-> IF j \in old THEN [proj[j] EXCEPT !.status = "failed"]
                                                   ELSE proj[j]]
      BY <1>2 DEF Boot
    <2>3. proj' \in [Jids -> Projection]
      BY <1>0, <2>2 DEF Projection
    <2>4. RowsKept /\ JobsTypeOK'
      BY <1>0, <1>2, TableSteps DEF Boot
    <2>5. worker' \in WorkerSet /\ worker'.pc = "idle"
      BY <1>0, <1>2, WorkerMoves DEF Boot
    <2>6. Grows /\ UNCHANGED <<lane, remote, record, library, http, removed>>
      BY <1>0, <1>2, SpendingGrows DEF Boot
    <2> QED BY <2>1, <2>3, <2>4, <2>5, <2>6, ProcessKeeps DEF Busy, Reporting
  <1> QED BY <1>1, <1>2
-----------------------------------------------------------------------------
(* Handlers that leave the row alone *)

LEMMA HandlerStill ==
    ASSUME IInv, RowsKept, JobsTypeOK', Grows, UNCHANGED <<lane, remote, library, worker, removed>>,
           \A i \in JobIds : IsActive(i) => IsActive(i)',
           http' \in HttpSet, http'.pc \notin {"ingest", "enqueue"}, Handing', Flagged',
           proj' \in [Jids -> Projection], record' \in [Jids -> RecordStates],
           \A j \in Jids : record'[j] = record[j]
                           \/ (record[j] # "none" /\ record'[j] \notin {"none", "review"}),
           \A j \in Jids : record[j] = "review" /\ record'[j] = "review" /\ lane[j] = "importing"
                              => proj'[j] = proj[j],
           http'.pc = "discarding" => http' = http \/ record'[http'.jid] \notin {"none", "review"}
    PROVE  IInv'
  <1>0. /\ worker \in WorkerSet /\ removed \subseteq Jids
        /\ lane \in [Jids -> BACKEND_JOB_STATES \cup {"absent"}]
        /\ remote \in [Jids -> {"none", "queued", "downloading", "completed", "failed", "gone"}]
        /\ library \in [Jids -> {"none", "posted", "imported", "refused"}]
        /\ Busy => worker.job \in JobIds /\ jobs[worker.job].state \in ActiveJobStates
    BY Found
  <1>1. Busy' => worker'.job \in JobIds /\ jobs'[worker'.job].state \in ActiveJobStates
    BY <1>0 DEF Busy, IsActive
  <1>2. Shape'
    BY <1>0, <1>1, Shaped DEF Grows
  <1>3. Lane'
    BY <1>1, LaneStill DEF IInv
  <1>4. JudgedOnce' /\ Cause' /\ OnDisplay'
    BY <1>2, CalmStill DEF IInv
  <1> QED BY <1>2, <1>3, <1>4 DEF IInv

LEMMA RemovalBegins ==
    ASSUME IInv, NEW j \in Jids, Delete(j)
    PROVE  IInv'
  <1>0. /\ JobsTypeOK /\ spent \in Spent /\ http \in HttpSet
        /\ proj \in [Jids -> Projection] /\ record \in [Jids -> RecordStates]
    BY Found
  <1>1. http' \in HttpSet /\ http'.pc = "deleting" /\ http'.jid = j
    BY HttpMoves DEF Delete
  <1>2. UNCHANGED <<lane, remote, proj, record, library, worker, removed>>
    BY DEF Delete
  <1> DEFINE used == [spent EXCEPT !.deletes = @ + 1]
  <1>3. used \in Spent /\ used.faults = spent.faults /\ used.crashes >= spent.crashes
    <2>1. used = [spent EXCEPT !["deletes"] = @ + 1]
      OBVIOUS
    <2> HIDE DEF used
    <2>2. \A s : s = [spent EXCEPT !["deletes"] = @ + 1] =>
              s \in Spent /\ s.faults = spent.faults /\ s.crashes >= spent.crashes
      BY <1>0, Spending
    <2> QED BY <2>1, <2>2
  <1>4. \A u \in Spent : LET v == [u EXCEPT !.faults = @ + 1] IN
            v \in Spent /\ v.faults > 0 /\ v.faults >= u.faults /\ v.crashes = u.crashes
    BY DEF Spent
  <1>5. \/ /\ \E i \in find_active_job_by_dedupe(j) : request_job_cancel(i)
           /\ spent' = used
        \/ /\ find_active_job_by_dedupe(j) = {} /\ UNCHANGED jobs
           /\ spent' = used
        \/ /\ UNCHANGED jobs
           /\ spent' = [used EXCEPT !.faults = @ + 1]
    BY DEF Delete
  <1> HIDE DEF used
  <1>6. Grows
    BY <1>0, <1>3, <1>4, <1>5 DEF Grows, Spent
  <1>7. RowsKept /\ JobsTypeOK' /\ \A i \in JobIds : IsActive(i) => IsActive(i)'
    BY <1>0, <1>5, TableSteps DEF find_active_job_by_dedupe, IsActive
  <1>8. Flagged'
    <2> SUFFICES ASSUME spent'.faults = 0,
                        NEW i \in JobIds, jobs'[i].state \in ActiveJobStates, jobs'[i].key = j
                 PROVE  jobs'[i].cancel = TRUE
      BY <1>1 DEF Flagged, find_active_job_by_dedupe, IsActive
    <2>1. IsActive(i) /\ jobs[i].key = j
      BY <1>7 DEF RowsKept, RowStays, IsActive
    <2>2. ~(spent' = [used EXCEPT !.faults = @ + 1])
      BY <1>3, <1>4 DEF Spent
    <2>3. PICK k \in find_active_job_by_dedupe(j) : request_job_cancel(k)
      BY <1>5, <2>1, <2>2 DEF find_active_job_by_dedupe
    <2>4. k = i
      BY <2>1 DEF IInv, Lane, Backed, find_active_job_by_dedupe
    <2> QED BY <1>0, <2>3, <2>4, TableSteps
  <1>9. Handing'
    BY <1>1 DEF Handing
  <1> QED BY <1>0, <1>1, <1>2, <1>6, <1>7, <1>8, <1>9, HandlerStill

LEMMA RemovalReads ==
    ASSUME IInv, DeleteReads
    PROVE  IInv'
  <1>0. /\ JobsTypeOK /\ spent \in Spent /\ http \in HttpSet /\ http.jid \in Jids
        /\ proj \in [Jids -> Projection] /\ record \in [Jids -> RecordStates]
    BY Found
  <1>1. UNCHANGED <<jobs, lane, remote, record, library, worker, spent, removed>>
    BY DEF DeleteReads
  <1>2. /\ http' \in HttpSet
        /\ \/ http'.pc = "idle"
           \/ http.pc = "deleting" /\ http'.pc = "cancelling" /\ http'.jid = http.jid
    BY <1>0, HttpMoves DEF DeleteReads
  <1>3. RowsKept /\ JobsTypeOK' /\ Grows /\ \A i \in JobIds : IsActive(i) => IsActive(i)'
    BY <1>0, <1>1, TableSteps, SpendingGrows DEF IsActive
  <1>4. Handing' /\ Flagged'
    BY <1>1, <1>2, <1>3, HttpStill DEF IInv
  <1>5. /\ proj' \in [Jids -> Projection]
        /\ \A j \in Jids : lane[j] = "importing" => proj'[j] = proj[j]
    <2>1. CASE lane[http.jid] \in BACKEND_JOB_TERMINAL_STATES /\ Hide(http.jid)
      BY <1>0, <2>1, ProjectionWrites DEF BACKEND_JOB_TERMINAL_STATES
    <2>2. CASE UNCHANGED proj
      BY <1>0, <2>2
    <2> QED BY <2>1, <2>2 DEF DeleteReads
  <1> QED BY <1>0, <1>1, <1>2, <1>3, <1>4, <1>5, HandlerStill

LEMMA DiscardBegins ==
    ASSUME IInv, NEW j \in Jids, Discard(j)
    PROVE  IInv'
  <1>0. /\ JobsTypeOK /\ spent \in Spent /\ http \in HttpSet
        /\ proj \in [Jids -> Projection] /\ record \in [Jids -> RecordStates]
    BY Found
  <1>1. http' \in HttpSet /\ http'.pc = "discarding" /\ http'.jid = j
    BY HttpMoves DEF Discard
  <1>2. UNCHANGED <<jobs, lane, remote, library, worker, spent, removed>>
    BY DEF Discard
  <1>3. RowsKept /\ JobsTypeOK' /\ Grows /\ \A i \in JobIds : IsActive(i) => IsActive(i)'
    BY <1>0, <1>2, TableSteps, SpendingGrows DEF IsActive
  <1>4. Handing' /\ Flagged'
    BY <1>1, <1>2, <1>3, HttpStill DEF IInv
  <1>5. proj' \in [Jids -> Projection] /\ \A k \in Jids \ {j} : proj'[k] = proj[k]
    BY <1>0, ProjectionWrites DEF Discard
  <1>6. /\ record[j] = "review" /\ record'[j] = "discarded" /\ record' \in [Jids -> RecordStates]
        /\ \A k \in Jids \ {j} : record'[k] = record[k]
    <2>1. "discarded" \in RecordStates /\ record' = [record EXCEPT ![j] = "discarded"]
      BY DEF RecordStates, Discard
    <2> QED BY <1>0, <2>1, RecordWrites DEF Discard
  <1> QED BY <1>0, <1>1, <1>2, <1>3, <1>4, <1>5, <1>6, HandlerStill
-----------------------------------------------------------------------------
(* Steps that write the row of a release *)

LEMMA RowWritten ==
    ASSUME IInv, UNCHANGED <<jobs, library>>, Grows, removed \subseteq removed', removed' \subseteq Jids,
           lane' \in [Jids -> BACKEND_JOB_STATES \cup {"absent"}],
           remote' \in [Jids -> {"none", "queued", "downloading", "completed", "failed", "gone"}],
           proj' \in [Jids -> Projection], record' \in [Jids -> RecordStates],
           http' \in HttpSet, worker' \in WorkerSet,
           worker' = worker \/ (/\ worker.pc = "mirroring" /\ worker'.pc = "finishing"
                                /\ worker'.job = worker.job),
           \A j \in Jids : lane'[j] \in Open => remote'[j] # "none",
           \A j \in Jids : find_active_job_by_dedupe(j) # {} => lane'[j] \notin Early,
           Handing', http' = http \/ http'.pc \notin {"deleting", "cancelling"}, Closed',
           \A j \in removed' \ removed : spent'.faults = 0 =>
               \A i \in find_active_job_by_dedupe(j) : jobs[i].cancel,
           \A j \in Jids : record'[j] = record[j]
                           \/ (record[j] # "none" /\ record'[j] \notin {"none", "review"}),
           Calm' => \A j \in Jids : lane[j] \notin Early => lane'[j] \notin Early,
           http'.pc \in {"ingest", "enqueue"} =>
               \/ lane[http'.jid] \in Early
               \/ http.jid = http'.jid /\ http.pc \in {"ingest", "enqueue"},
           Calm' /\ worker'.pc \in {"mirror", "mirroring"} =>
               \A j \in Jids : record[j] = "review" /\ record'[j] = "review" /\ lane'[j] = "importing"
                              => lane[j] = "importing" /\ proj'[j] = proj[j],
           \A j \in Jids : lane'[j] = "cancelled" =>
               lane[j] = "cancelled" \/ j \in removed' \/ record'[j] # "none",
           http'.pc = "discarding" => http' = http
    PROVE  IInv'
  <1>0. /\ JobsTypeOK /\ library \in [Jids -> {"none", "posted", "imported", "refused"}]
        /\ Busy => worker.job \in JobIds /\ jobs[worker.job].state \in ActiveJobStates
        /\ spent \in Spent /\ http \in HttpSet /\ removed \subseteq Jids
    BY Found
  <1>1. RowsKept /\ JobsTypeOK'
    BY <1>0, TableSteps
  <1>2. Busy' => worker'.job \in JobIds /\ jobs'[worker'.job].state \in ActiveJobStates
    BY <1>0 DEF Busy
  <1>3. Shape'
    BY <1>0, <1>1, <1>2, Shaped DEF Grows
  <1>4. \A j : find_active_job_by_dedupe(j)' = find_active_job_by_dedupe(j)
    BY DEF find_active_job_by_dedupe, IsActive
  <1>5. spent'.faults = 0 => spent.faults = 0
    BY <1>0 DEF Grows, Spent
  <1>6. Lane'
    <2>1. Backed'
      BY <1>2 DEF IInv, Lane, Backed, IsActive
    <2>2. DurableFirst'
      BY <1>4 DEF DurableFirst, Early
    <2>3. Flagged'
      BY <1>5 DEF IInv, Lane, Flagged, find_active_job_by_dedupe, IsActive
    <2>4. RemovalReachesIngest'
      BY <1>4, <1>5 DEF IInv, Lane, RemovalReachesIngest
    <2> QED BY <2>1, <2>2, <2>3, <2>4 DEF Lane
  <1>7. worker.pc \in Reporting /\ jobs'[worker.job].state \in ActiveJobStates =>
            worker'.job = worker.job /\ worker'.pc \in Reporting
    BY DEF Reporting
  <1>8. JudgedOnce' /\ Cause' /\ OnDisplay'
    BY <1>1, <1>7, CalmStill DEF IInv
  <1> QED BY <1>3, <1>6, <1>8 DEF IInv

\* The row after update_backend_job.
LEMMA LaneWrites ==
    ASSUME lane \in [Jids -> BACKEND_JOB_STATES \cup {"absent"}],
           NEW j \in Jids, NEW s \in BACKEND_JOB_STATES, update_backend_job(j, s)
    PROVE  /\ lane' \in [Jids -> BACKEND_JOB_STATES \cup {"absent"}] /\ lane'[j] = s
           /\ \A k \in Jids \ {j} : lane'[k] = lane[k]
  BY DEF update_backend_job

\* What is known of a row that no job is under yet, and of one that is.
LEMMA RowFacts ==
    ASSUME IInv, NEW j \in Jids
    PROVE  /\ lane[j] \in Early => j \notin removed /\ find_active_job_by_dedupe(j) = {}
           /\ lane[j] = "importing" => j \notin removed
           /\ lane[j] \in Open => remote[j] # "none"
           /\ Busy /\ j = Jid => /\ lane[j] \notin Early
                                 /\ http.pc \in {"ingest", "enqueue", "revert"} => http.jid # j
           /\ \A i \in find_active_job_by_dedupe(j) : lane[j] \notin Early
  <1>1. \A i \in find_active_job_by_dedupe(j) : lane[j] \notin Early
    BY DEF IInv, Lane, DurableFirst, Early
  <1>2. /\ lane[j] \in Early => j \notin removed
        /\ lane[j] = "importing" => j \notin removed
    BY DEF IInv, Lane, Closed, Early, BACKEND_JOB_TERMINAL_STATES
  <1>3. lane[j] \in Open => remote[j] # "none"
    BY DEF IInv, Lane, Backed
  <1>4. ASSUME Busy, j = Jid
        PROVE  lane[j] \notin Early /\ (http.pc \in {"ingest", "enqueue", "revert"} => http.jid # j)
    <2>1. worker.job \in find_active_job_by_dedupe(j)
      BY <1>4, Found DEF find_active_job_by_dedupe, IsActive, Jid
    <2>2. lane[j] \notin Early
      BY <1>1, <2>1
    <2> QED BY <2>1, <2>2 DEF IInv, Lane, Handing, Early
  <1> QED BY <1>1, <1>2, <1>3, <1>4

LEMMA SubmissionKeeps ==
    ASSUME IInv, NEW j \in Jids, AddUrl(j)
    PROVE  IInv'
  <1>0. /\ spent \in Spent /\ http \in HttpSet /\ worker \in WorkerSet /\ removed \subseteq Jids
        /\ lane \in [Jids -> BACKEND_JOB_STATES \cup {"absent"}]
        /\ remote \in [Jids -> {"none", "queued", "downloading", "completed", "failed", "gone"}]
        /\ proj \in [Jids -> Projection] /\ record \in [Jids -> RecordStates]
    BY Found
  <1>1. /\ UNCHANGED <<jobs, record, library, http, worker, removed>>
        /\ http.pc = "idle" /\ lane[j] = "absent"
    BY DEF AddUrl, Ready
  <1>2. Grows
    BY <1>0, SpendingGrows DEF AddUrl
  <1>3. /\ proj' \in [Jids -> Projection] /\ \A k \in Jids \ {j} : proj'[k] = proj[k]
        /\ lane' \in [Jids -> BACKEND_JOB_STATES \cup {"absent"}]
        /\ lane'[j] \in {"absent", "downloading"} /\ \A k \in Jids \ {j} : lane'[k] = lane[k]
    <2>1. CASE update_backend_job(j, "downloading") /\ Status(j, "downloading")
      BY <1>0, <2>1, LaneWrites, ProjectionWrites DEF ProjectionStatus, BACKEND_JOB_STATES
    <2>2. CASE UNCHANGED <<lane, proj>>
      BY <1>0, <1>1, <2>2
    <2> QED BY <2>1, <2>2 DEF AddUrl
  <1>4. /\ remote' \in [Jids -> {"none", "queued", "downloading", "completed", "failed", "gone"}]
        /\ remote'[j] # "none" /\ \A k \in Jids \ {j} : remote'[k] = remote[k]
    BY <1>0 DEF AddUrl
  <1>5. \A k \in Jids : lane'[k] \in Open => remote'[k] # "none"
    BY <1>3, <1>4, RowFacts
  <1>6. \A k \in Jids : find_active_job_by_dedupe(k) # {} => lane'[k] \notin Early
    BY <1>1, <1>3, RowFacts DEF Early
  <1>7. Handing' /\ Closed'
    <2>1. j \notin removed
      BY <1>1, RowFacts DEF Early
    <2>2. Handing'
      BY <1>1 DEF Handing
    <2>3. Closed'
      BY <1>0, <1>1, <1>3, <2>1 DEF Closed, IInv, Lane
    <2> QED BY <2>2, <2>3
  <1>8. \A k \in Jids : lane[k] \notin Early => lane'[k] \notin Early
    BY <1>1, <1>3 DEF Early
  <1> QED BY <1>0, <1>1, <1>2, <1>3, <1>4, <1>5, <1>6, <1>7, <1>8, RowWritten

LEMMA PollKeeps ==
    ASSUME IInv, NEW j \in Jids, Poll(j)
    PROVE  IInv'
  <1>0. /\ spent \in Spent /\ http \in HttpSet /\ worker \in WorkerSet /\ removed \subseteq Jids
        /\ lane \in [Jids -> BACKEND_JOB_STATES \cup {"absent"}]
        /\ remote \in [Jids -> {"none", "queued", "downloading", "completed", "failed", "gone"}]
        /\ proj \in [Jids -> Projection] /\ record \in [Jids -> RecordStates]
    BY Found
  <1>1. /\ UNCHANGED <<jobs, remote, record, library, worker, removed>>
        /\ http.pc = "idle" /\ lane[j] \in {"queued", "downloading", "completed"}
    BY DEF Poll, Ready
  <1>2. Grows
    BY <1>0, SpendingGrows DEF Poll
  <1>3. remote[j] # "none" /\ lane[j] \in Early
    BY <1>1, RowFacts DEF Early, Open
  <1>4. /\ proj' \in [Jids -> Projection] /\ \A k \in Jids \ {j} : proj'[k] = proj[k]
        /\ lane' \in [Jids -> BACKEND_JOB_STATES \cup {"absent"}]
        /\ lane'[j] \in {"queued", "downloading", "completed", "failed"}
        /\ \A k \in Jids \ {j} : lane'[k] = lane[k]
        /\ http' \in HttpSet
        /\ http' = http \/ (http'.pc = "ingest" /\ http'.jid = j /\ lane'[j] = "completed")
    <2>1. CASE UNCHANGED <<lane, proj, http>>
      BY <1>0, <1>1, <2>1
    <2>2. ASSUME NEW report \in Reports(j), NEW s, s = next_lifecycle_state(lane[j], report),
                 update_backend_job(j, s), Status(j, _backend_state_to_jobs_status(s)),
                 (s = "completed" /\ To("ingest", j)) \/ UNCHANGED http
          PROVE  <1>4!:
      <3>1. report \in {"unknown", "queued", "downloading", "completed", "failed"}
        BY <1>0, <1>3 DEF Reports
      <3>2. s \in {"queued", "downloading", "completed", "failed"}
        BY <1>1, <2>2, <3>1 DEF next_lifecycle_state
      <3>3. s \in BACKEND_JOB_STATES /\ _backend_state_to_jobs_status(s) \in ProjectionStatus
        BY <3>2 DEF BACKEND_JOB_STATES, _backend_state_to_jobs_status, ProjectionStatus
      <3>4. /\ lane' \in [Jids -> BACKEND_JOB_STATES \cup {"absent"}] /\ lane'[j] = s
            /\ \A k \in Jids \ {j} : lane'[k] = lane[k]
        BY <1>0, <2>2, <3>3, LaneWrites
      <3>5. proj' \in [Jids -> Projection] /\ \A k \in Jids \ {j} : proj'[k] = proj[k]
        BY <1>0, <2>2, <3>3, ProjectionWrites
      <3>6. /\ http' \in HttpSet
            /\ http' = http \/ (http'.pc = "ingest" /\ http'.jid = j /\ s = "completed")
        BY <1>0, <2>2, HttpMoves
      <3> QED BY <3>2, <3>4, <3>5, <3>6
    <2> QED BY <2>1, <2>2 DEF Poll
  <1>5. \A k \in Jids : lane'[k] \in Open => remote'[k] # "none"
    BY <1>1, <1>3, <1>4, RowFacts
  <1>6. \A k \in Jids : find_active_job_by_dedupe(k) # {} => lane'[k] \notin Early
    BY <1>3, <1>4, RowFacts
  <1>7. Handing' /\ Closed'
    <2>1. j \notin removed
      BY <1>3, RowFacts
    <2>2. Handing'
      BY <1>1, <1>4 DEF Handing
    <2>3. Closed'
      BY <1>0, <1>1, <1>4, <2>1 DEF Closed, IInv, Lane
    <2> QED BY <2>2, <2>3
  <1>8. \A k \in Jids : lane[k] \notin Early => lane'[k] \notin Early
    BY <1>3, <1>4
  <1> QED BY <1>0, <1>1, <1>2, <1>3, <1>4, <1>5, <1>6, <1>7, <1>8, RowWritten
LEMMA HandoverKeeps ==
    ASSUME IInv, StartIngest \/ RevertIngest
    PROVE  IInv'
  <1>0. /\ spent \in Spent /\ http \in HttpSet /\ http.jid \in Jids /\ worker \in WorkerSet
        /\ removed \subseteq Jids
        /\ lane \in [Jids -> BACKEND_JOB_STATES \cup {"absent"}]
        /\ remote \in [Jids -> {"none", "queued", "downloading", "completed", "failed", "gone"}]
        /\ proj \in [Jids -> Projection] /\ record \in [Jids -> RecordStates]
    BY Found
  <1> DEFINE j == http.jid
  <1>1. /\ UNCHANGED <<jobs, remote, proj, record, library, worker, removed>>
        /\ http.pc \in {"ingest", "revert"}
    BY DEF StartIngest, RevertIngest
  <1>2. Grows
    BY <1>0, SpendingGrows DEF StartIngest, RevertIngest
  <1>3. /\ lane[j] \in {"completed", "importing"} /\ find_active_job_by_dedupe(j) = {}
        /\ j \notin removed
        /\ http.pc = "ingest" => lane[j] = "completed"
        /\ http.pc = "revert" => spent.faults > 0
    <2>1. /\ http.pc = "ingest" => lane[j] = "completed"
          /\ http.pc = "revert" => lane[j] = "importing" /\ find_active_job_by_dedupe(j) = {}
          /\ http.pc = "revert" => spent.faults > 0
      BY <1>1 DEF IInv, Lane, Handing
    <2> QED BY <1>0, <1>1, <2>1, RowFacts DEF Early
  <1>4. /\ lane' \in [Jids -> BACKEND_JOB_STATES \cup {"absent"}]
        /\ \/ lane'[j] = lane[j] /\ http'.pc = "idle"
           \/ http.pc = "ingest" /\ lane'[j] = "importing" /\ http'.pc = "enqueue" /\ http'.jid = j
           \/ http.pc = "revert" /\ lane'[j] = "completed" /\ http'.pc = "idle"
        /\ \A k \in Jids \ {j} : lane'[k] = lane[k]
        /\ http' \in HttpSet
    <2>1. CASE update_backend_job(j, "importing") /\ To("enqueue", j) /\ http.pc = "ingest"
      BY <1>0, <2>1, LaneWrites, HttpMoves DEF BACKEND_JOB_STATES
    <2>2. CASE Done /\ UNCHANGED lane
      BY <1>0, <2>2, HttpMoves
    <2>3. CASE update_backend_job(j, "completed") /\ Done /\ http.pc = "revert"
      BY <1>0, <2>3, LaneWrites, HttpMoves DEF BACKEND_JOB_STATES
    <2> QED BY <2>1, <2>2, <2>3 DEF StartIngest, RevertIngest
  <1>5. j \in Jids
    BY <1>0
  <1> HIDE DEF j
  <1>6. \A k \in Jids : lane'[k] \in Open => remote'[k] # "none"
    BY <1>1, <1>3, <1>4, <1>5, RowFacts DEF Open
  <1>7. \A k \in Jids : find_active_job_by_dedupe(k) # {} => lane'[k] \notin Early
    BY <1>3, <1>4, RowFacts
  <1>8. Handing'
    <2>1. http'.pc # "idle" => /\ http'.pc = "enqueue" /\ http'.jid = j
                               /\ lane'[j] = "importing" /\ find_active_job_by_dedupe(j) = {}
      BY <1>3, <1>4
    <2>2. http'.pc # "idle" => find_active_job_by_dedupe(http'.jid) = {} /\ lane'[http'.jid] = "importing"
      BY <2>1
    <2> QED BY <1>1, <2>1, <2>2 DEF Handing, find_active_job_by_dedupe, IsActive
  <1>9. Closed'
    BY <1>0, <1>1, <1>3, <1>4 DEF Closed, IInv, Lane
  <1>10. Calm' => Calm
    BY <1>0, <1>2 DEF Calm, Grows, Spent
  <1>11. Calm' => \A k \in Jids : lane[k] \notin Early => lane'[k] \notin Early
    BY <1>3, <1>4, <1>10 DEF Calm, Early, Spent
  <1>12. Calm' => \A k \in Jids : record[k] = "review" /\ lane'[k] = "importing" => lane[k] = "importing"
    <2>1. Calm => (record[j] # "none" => lane[j] \notin Early)
      BY <1>5 DEF IInv, JudgedOnce
    <2> QED BY <1>3, <1>4, <1>10, <2>1 DEF Early
  <1>13. http'.pc = "enqueue" => http.jid = http'.jid /\ http.pc = "ingest"
    BY <1>4 DEF j
  <1>14. /\ http'.pc \in {"idle", "enqueue"}
         /\ \A k \in Jids : lane'[k] = "cancelled" => lane[k] = "cancelled"
    BY <1>4
  <1> QED BY <1>0, <1>1, <1>2, <1>4, <1>6, <1>7, <1>8, <1>9, <1>11, <1>12, <1>13, <1>14, RowWritten

LEMMA RemovalWrites ==
    ASSUME IInv, DeleteWrites
    PROVE  IInv'
  <1>0. /\ spent \in Spent /\ http \in HttpSet /\ http.jid \in Jids /\ worker \in WorkerSet
        /\ removed \subseteq Jids
        /\ lane \in [Jids -> BACKEND_JOB_STATES \cup {"absent"}]
        /\ remote \in [Jids -> {"none", "queued", "downloading", "completed", "failed", "gone"}]
        /\ proj \in [Jids -> Projection] /\ record \in [Jids -> RecordStates]
    BY Found
  <1> DEFINE j == http.jid
  <1>1. UNCHANGED <<jobs, record, library, worker>> /\ http.pc = "cancelling"
    BY DEF DeleteWrites
  <1>2. Grows
    BY <1>0, SpendingGrows DEF DeleteWrites
  <1>3. http' \in HttpSet /\ http'.pc = "idle"
    BY HttpMoves DEF DeleteWrites
  <1>4. CASE Fault /\ UNCHANGED <<lane, remote, proj, removed>>
    <2>1. Handing'
      BY <1>3 DEF Handing
    <2>2. Closed'
      BY <1>4 DEF IInv, Lane, Closed
    <2> QED BY <1>0, <1>1, <1>2, <1>3, <1>4, <2>1, <2>2, RowFacts, RowWritten
  <1>5. CASE /\ update_backend_job(j, "cancelled") /\ Hide(j)
             /\ \E r \in {"gone", remote[j]} : remote' = [remote EXCEPT ![j] = r]
             /\ removed' = removed \cup {j} /\ NoFault
    <2>1. /\ lane' \in [Jids -> BACKEND_JOB_STATES \cup {"absent"}] /\ lane'[j] = "cancelled"
          /\ \A k \in Jids \ {j} : lane'[k] = lane[k]
      BY <1>0, <1>5, LaneWrites DEF BACKEND_JOB_STATES
    <2>2. proj' \in [Jids -> Projection] /\ \A k \in Jids \ {j} : proj'[k] = proj[k]
      BY <1>0, <1>5, ProjectionWrites
    <2>3. /\ remote' \in [Jids -> {"none", "queued", "downloading", "completed", "failed", "gone"}]
          /\ remote'[j] \in {"gone", remote[j]} /\ \A k \in Jids \ {j} : remote'[k] = remote[k]
      BY <1>0, <1>5
    <2>4. j \in Jids /\ removed' = removed \cup {j} /\ spent' = spent
      BY <1>0, <1>5 DEF NoFault
    <2>6. spent.faults = 0 => \A i \in find_active_job_by_dedupe(j) : jobs[i].cancel
      BY <1>1 DEF IInv, Lane, Flagged
    <2> HIDE DEF j
    <2>7. \A k \in Jids : lane'[k] \in Open => remote'[k] # "none"
      BY <2>1, <2>3, RowFacts DEF Open
    <2>8. \A k \in Jids : find_active_job_by_dedupe(k) # {} => lane'[k] \notin Early
      BY <2>1, RowFacts DEF Early
    <2>9. Handing'
      BY <1>3 DEF Handing
    <2>10. Closed'
      BY <1>0, <2>1, <2>4 DEF Closed, IInv, Lane, BACKEND_JOB_TERMINAL_STATES
    <2>11. /\ \A k \in Jids : lane'[k] = "importing" => lane[k] = "importing" /\ proj'[k] = proj[k]
           /\ \A k \in Jids : lane'[k] = "cancelled" => lane[k] = "cancelled" \/ k \in removed'
           /\ \A k \in Jids : lane[k] \notin Early => lane'[k] \notin Early
      BY <2>1, <2>2, <2>4 DEF Early
    <2>12. \A k \in removed' \ removed : spent'.faults = 0 =>
               \A i \in find_active_job_by_dedupe(k) : jobs[i].cancel
      BY <2>4, <2>6
    <2>13. removed \subseteq removed' /\ removed' \subseteq Jids
      BY <1>0, <2>4
    <2> QED BY <1>0, <1>1, <1>2, <1>3, <2>1, <2>2, <2>3, <2>7, <2>8, <2>9, <2>10, <2>11, <2>12,
               <2>13, RowWritten
  <1> QED BY <1>4, <1>5 DEF DeleteWrites
LEMMA DiscardWrites ==
    ASSUME IInv, DiscardLane
    PROVE  IInv'
  <1>0. /\ spent \in Spent /\ http \in HttpSet /\ http.jid \in Jids /\ worker \in WorkerSet
        /\ removed \subseteq Jids
        /\ lane \in [Jids -> BACKEND_JOB_STATES \cup {"absent"}]
        /\ remote \in [Jids -> {"none", "queued", "downloading", "completed", "failed", "gone"}]
        /\ proj \in [Jids -> Projection] /\ record \in [Jids -> RecordStates]
    BY Found
  <1> DEFINE j == http.jid
  <1>1. UNCHANGED <<jobs, remote, record, library, worker, removed>> /\ http.pc = "discarding"
    BY DEF DiscardLane
  <1>2. Grows /\ (Fault => ~Calm')
    BY <1>0, SpendingGrows DEF DiscardLane, Calm
  <1>3. http' \in HttpSet /\ http'.pc = "idle"
    BY HttpMoves DEF DiscardLane
  <1>4. proj' \in [Jids -> Projection] /\ \A k \in Jids \ {j} : proj'[k] = proj[k]
    BY <1>0, ProjectionWrites DEF DiscardLane, ProjectionStatus
  <1>5. /\ lane' \in [Jids -> BACKEND_JOB_STATES \cup {"absent"}]
        /\ \/ lane'[j] = lane[j] /\ (lane[j] \in BACKEND_JOB_TERMINAL_STATES \/ ~Calm')
           \/ lane'[j] = "cancelled"
        /\ \A k \in Jids \ {j} : lane'[k] = lane[k]
    <2>1. CASE update_backend_job(j, "cancelled")
      BY <1>0, <2>1, LaneWrites DEF BACKEND_JOB_STATES
    <2>2. CASE UNCHANGED lane /\ (lane[j] \in BACKEND_JOB_TERMINAL_STATES \/ Fault)
      BY <1>0, <1>2, <2>2
    <2> QED BY <2>1, <2>2 DEF DiscardLane
  <1>6. j \in Jids /\ record[j] # "none"
    BY <1>0, <1>1 DEF IInv, Cause
  <1> HIDE DEF j
  <1>7. \A k \in Jids : lane'[k] \in Open => remote'[k] # "none"
    BY <1>1, <1>5, RowFacts DEF Open
  <1>8. \A k \in Jids : find_active_job_by_dedupe(k) # {} => lane'[k] \notin Early
    BY <1>5, RowFacts DEF Early
  <1>9. Handing'
    BY <1>3 DEF Handing
  <1>10. Closed'
    BY <1>0, <1>1, <1>5 DEF Closed, IInv, Lane, BACKEND_JOB_TERMINAL_STATES
  <1>11. /\ Calm' => \A k \in Jids : lane'[k] = "importing" => lane[k] = "importing" /\ proj'[k] = proj[k]
         /\ \A k \in Jids : lane'[k] = "cancelled" => lane[k] = "cancelled" \/ record'[k] # "none"
         /\ \A k \in Jids : lane[k] \notin Early => lane'[k] \notin Early
    BY <1>1, <1>4, <1>5, <1>6 DEF Early, BACKEND_JOB_TERMINAL_STATES
  <1> QED BY <1>0, <1>1, <1>2, <1>3, <1>4, <1>5, <1>7, <1>8, <1>9, <1>10, <1>11, RowWritten

LEMMA ReportKeeps ==
    ASSUME IInv, MirrorWrites
    PROVE  IInv'
  <1>0. /\ spent \in Spent /\ http \in HttpSet /\ http.jid \in Jids /\ worker \in WorkerSet
        /\ removed \subseteq Jids
        /\ lane \in [Jids -> BACKEND_JOB_STATES \cup {"absent"}]
        /\ remote \in [Jids -> {"none", "queued", "downloading", "completed", "failed", "gone"}]
        /\ proj \in [Jids -> Projection] /\ record \in [Jids -> RecordStates]
    BY Found
  <1>1. UNCHANGED <<jobs, remote, library, http, removed>> /\ worker.pc = "mirroring" /\ Busy
    BY DEF MirrorWrites, Busy
  <1>2. Grows
    BY <1>0, SpendingGrows DEF MirrorWrites
  <1>3. worker' \in WorkerSet /\ worker'.pc = "finishing" /\ worker'.job = worker.job
    BY <1>0, WorkerMoves DEF MirrorWrites, WorkerPcs
  <1>4. /\ Jid \in Jids /\ lane[Jid] \notin Early
        /\ http.pc \in {"ingest", "enqueue", "revert"} => http.jid # Jid
    BY <1>1, Found, RowFacts
  <1>5. worker.state \in {"imported", "failed", "review"}
    BY <1>0 DEF WorkerSet
  <1>6. /\ lane' \in [Jids -> BACKEND_JOB_STATES \cup {"absent"}]
        /\ lane'[Jid] = lane[Jid] \/ lane'[Jid] \in {"imported", "failed", "review"}
        /\ \A k \in Jids \ {Jid} : lane'[k] = lane[k]
    <2>1. CASE update_backend_job(Jid, worker.state)
      <3>1. worker.state \in BACKEND_JOB_STATES
        BY <1>5 DEF BACKEND_JOB_STATES
      <3> QED BY <1>0, <1>4, <1>5, <2>1, <3>1, LaneWrites
    <2>2. CASE UNCHANGED lane
      BY <1>0, <2>2
    <2> QED BY <2>1, <2>2 DEF MirrorWrites
  <1>7. /\ proj' \in [Jids -> Projection] /\ record' \in [Jids -> RecordStates]
        /\ \A k \in Jids : \/ record'[k] = record[k]
                           \/ record[k] # "none" /\ record'[k] \notin {"none", "review"}
    <2>1. CASE UNCHANGED <<proj, record>>
      BY <1>0, <2>1
    <2>2. CASE /\ record[Jid] \in {"pending", "imported"}
               /\ record' = [record EXCEPT ![Jid] = "imported"]
               /\ Project(Jid, "completed", FALSE, TRUE)
      <3>1. proj' \in [Jids -> Projection]
        BY <1>0, <1>4, <2>2, ProjectionWrites DEF ProjectionStatus
      <3>2. "imported" \in RecordStates
        BY DEF RecordStates
      <3> QED BY <1>0, <1>4, <2>2, <3>1, <3>2, RecordWrites
    <2> QED BY <2>1, <2>2 DEF MirrorWrites
  <1>8. \A k \in Jids : lane'[k] \in Open => remote'[k] # "none"
    BY <1>1, <1>6, RowFacts DEF Open
  <1>9. \A k \in Jids : find_active_job_by_dedupe(k) # {} => lane'[k] \notin Early
    BY <1>6, RowFacts DEF Early
  <1>10. Handing'
    <2>1. http.pc \in {"ingest", "enqueue", "revert"} => lane'[http.jid] = lane[http.jid]
      BY <1>0, <1>4, <1>6
    <2>2. spent.faults > 0 => spent'.faults > 0
      BY <1>0, <1>2 DEF Grows, Spent
    <2> QED BY <1>1, <2>1, <2>2 DEF IInv, Lane, Handing, find_active_job_by_dedupe, IsActive
  <1>11. Closed'
    BY <1>0, <1>1, <1>6 DEF Closed, IInv, Lane, BACKEND_JOB_TERMINAL_STATES
  <1>12. /\ \A k \in Jids : lane'[k] = "cancelled" => lane[k] = "cancelled"
         /\ \A k \in Jids : lane[k] \notin Early => lane'[k] \notin Early
    BY <1>6 DEF Early
  <1> QED BY <1>0, <1>1, <1>2, <1>3, <1>6, <1>7, <1>8, <1>9, <1>10, <1>11, <1>12, RowWritten
\* The one INSERT.
LEMMA EnqueueKeeps ==
    ASSUME IInv, EnqueueIngest
    PROVE  IInv'
  <1>0. /\ JobsTypeOK /\ spent \in Spent /\ http \in HttpSet /\ http.jid \in Jids
        /\ worker \in WorkerSet /\ removed \subseteq Jids
        /\ lane \in [Jids -> BACKEND_JOB_STATES \cup {"absent"}]
        /\ remote \in [Jids -> {"none", "queued", "downloading", "completed", "failed", "gone"}]
        /\ proj \in [Jids -> Projection] /\ record \in [Jids -> RecordStates]
        /\ library \in [Jids -> {"none", "posted", "imported", "refused"}]
        /\ Busy => worker.job \in JobIds /\ jobs[worker.job].state \in ActiveJobStates
    BY Found
  <1>1. UNCHANGED <<lane, remote, proj, record, library, worker, removed>> /\ http.pc = "enqueue"
    BY DEF EnqueueIngest
  <1>2. Grows
    BY <1>0, SpendingGrows DEF EnqueueIngest
  <1>3. lane[http.jid] = "importing" /\ find_active_job_by_dedupe(http.jid) = {}
    BY <1>1 DEF IInv, Lane, Handing
  <1>4. CASE Fault /\ To("revert", http.jid) /\ UNCHANGED jobs
    <2>1. http' \in HttpSet /\ http'.pc = "revert" /\ http'.jid = http.jid
      BY <1>0, <1>4, HttpMoves
    <2>2. spent'.faults > 0
      BY <1>0, <1>4, SpendingGrows
    <2>3. Handing'
      BY <1>1, <1>3, <1>4, <2>1, <2>2 DEF Handing, find_active_job_by_dedupe, IsActive
    <2>4. Closed'
      BY <1>1 DEF IInv, Lane, Closed
    <2> QED BY <1>0, <1>1, <1>2, <1>4, <2>1, <2>3, <2>4, RowFacts, RowWritten
  <1>5. CASE (\E i \in JobIds : enqueue_job(http.jid, i)) /\ Done
    <2>1. PICK i \in JobIds : enqueue_job(http.jid, i)
      BY <1>5
    <2> DEFINE r == InsertedRow(http.jid)
    <2>2. jobs[i].state = "absent" /\ jobs' = [jobs EXCEPT ![i] = r]
      BY <1>3, <2>1 DEF enqueue_job, IsNextId
    <2>3. r.key = http.jid /\ r.state \in ActiveJobStates /\ r.cancel = FALSE
      BY DEF InsertedRow, ActiveJobStates
    <2> HIDE DEF r
    <2>4. JobsTypeOK'
      BY <1>0, <2>1, EnqueueTypes DEF Jids
    <2>5. jobs'[i] = r /\ \A k \in JobIds \ {i} : jobs'[k] = jobs[k]
      BY <1>0, <2>2 DEF JobsTypeOK
    <2>6. Busy => worker.job # i
      BY <1>0, <2>2 DEF ActiveJobStates
    <2>7. http' \in HttpSet /\ http'.pc = "idle"
      BY <1>5, HttpMoves
    <2>8. Shape'
      <3>1. Busy' => worker'.job \in JobIds
        BY <1>0, <1>1 DEF Busy
      <3> QED BY <1>0, <1>1, <1>2, <2>4, <2>7, <3>1, Shaped DEF Grows
    <2>9. \A k \in Jids \ {http.jid}, m \in JobIds :
              jobs'[m].state \in ActiveJobStates /\ jobs'[m].key = k =>
                  m \in find_active_job_by_dedupe(k) /\ jobs'[m] = jobs[m]
      BY <2>3, <2>5 DEF find_active_job_by_dedupe, IsActive
    <2>10. \A m \in JobIds : jobs'[m].state \in ActiveJobStates /\ jobs'[m].key = http.jid => m = i
      BY <1>3, <2>5 DEF find_active_job_by_dedupe, IsActive
    <2>11. spent'.faults = 0 => spent.faults = 0
      BY <1>0, <1>2 DEF Grows, Spent
    <2>12. Backed'
      <3>1. \A m, k \in JobIds : jobs'[m].state \in ActiveJobStates /\ jobs'[k].state \in ActiveJobStates
                                 /\ jobs'[m].key = jobs'[k].key => m = k
        <4> SUFFICES ASSUME NEW m \in JobIds, NEW k \in JobIds, jobs'[m].state \in ActiveJobStates,
                            jobs'[k].state \in ActiveJobStates, jobs'[m].key = jobs'[k].key, m # k
                     PROVE  FALSE
          OBVIOUS
        <4>1. m # i /\ k # i
          BY <2>3, <2>5, <2>10
        <4> QED BY <2>5, <4>1 DEF IInv, Lane, Backed, IsActive
      <3>2. Busy' => jobs'[worker'.job].state \in ActiveJobStates
        BY <1>0, <1>1, <2>5, <2>6 DEF Busy
      <3>3. \A j \in Jids : lane'[j] \in Open => remote'[j] # "none"
        BY <1>1, RowFacts
      <3> QED BY <3>1, <3>2, <3>3 DEF Backed, IsActive
    <2>13. DurableFirst'
      BY <1>1, <1>3, <2>9 DEF IInv, Lane, DurableFirst, find_active_job_by_dedupe, IsActive
    <2>14. Handing' /\ Flagged'
      BY <2>7 DEF Handing, Flagged
    <2>15. Closed' /\ http.jid \notin removed
      BY <1>0, <1>1, <1>3, RowFacts DEF IInv, Lane, Closed
    <2>16. RemovalReachesIngest'
      BY <1>0, <1>1, <2>9, <2>11, <2>15
      DEF IInv, Lane, RemovalReachesIngest, find_active_job_by_dedupe, IsActive
    <2>17. Calm' => Calm
      BY <1>0, <1>2 DEF Calm, Grows, Spent
    <2>18. JudgedOnce'
      <3> SUFFICES ASSUME Calm', NEW j \in Jids, record[j] # "none"
                   PROVE  /\ lane[j] \notin Early
                          /\ \A m \in JobIds : jobs'[m].state \in ActiveJobStates /\ jobs'[m].key = j =>
                                worker.job = m /\ worker.pc \in Reporting
        BY <1>1, <2>7 DEF JudgedOnce, find_active_job_by_dedupe, IsActive
      <3>1. j # http.jid
        BY <1>1, <2>17 DEF IInv, JudgedOnce
      <3> QED BY <2>9, <2>17, <3>1 DEF IInv, JudgedOnce
    <2>19. Cause'
      BY <1>1, <2>7 DEF IInv, Cause
    <2>20. OnDisplay'
      <3>1. Busy => jobs'[worker'.job].key = Jid
        BY <1>0, <1>1, <2>5, <2>6 DEF Jid
      <3> QED BY <1>1, <2>17, <3>1 DEF IInv, OnDisplay, Jid, Busy
    <2> QED BY <2>8, <2>12, <2>13, <2>14, <2>15, <2>16, <2>18, <2>19, <2>20 DEF IInv, Lane
  <1> QED BY <1>4, <1>5 DEF EnqueueIngest

-----------------------------------------------------------------------------
(* The invariant holds *)

LEMMA InitIInv == Init => IInv
  <1> SUFFICES ASSUME Init PROVE IInv
    OBVIOUS
  <1>1. AbsentRow \in JobRow /\ AbsentRow.state \notin ActiveJobStates
    BY NewRowTypes DEF AbsentRow, ActiveJobStates
  <1>2. jobs \in [JobIds -> JobRow] /\ \A i \in JobIds : jobs[i].state \notin ActiveJobStates
    BY <1>1 DEF Init, JobsInit
  <1>3. worker \in WorkerSet /\ worker.pc = "idle"
    BY DEF Init, WorkerAt, WorkerSet, WorkerPcs, TerminalJobStates
  <1>4. http \in HttpSet /\ http.pc = "idle" /\ http.jid \in Jids
    BY JobStoreAssumption DEF Init, HttpIdle, HttpSet, Jids
  <1>5. spent \in Spent /\ removed = {}
    BY DEF Init, Spent
  <1>6. NoProjection \in Projection /\ proj \in [Jids -> Projection]
    <2>1. NoProjection \in Projection
      BY DEF NoProjection, Projection
    <2> QED BY <2>1 DEF Init
  <1>7. /\ \A j \in Jids : lane[j] = "absent" /\ record[j] = "none"
        /\ lane \in [Jids -> BACKEND_JOB_STATES \cup {"absent"}]
        /\ remote \in [Jids -> {"none", "queued", "downloading", "completed", "failed", "gone"}]
        /\ record \in [Jids -> RecordStates]
        /\ library \in [Jids -> {"none", "posted", "imported", "refused"}]
    BY DEF Init, RecordStates
  <1>8. worker.state \in BACKEND_JOB_STATES
    BY DEF Init, WorkerAt, BACKEND_JOB_STATES
  <1>9. Shape
    BY <1>2, <1>3, <1>4, <1>5, <1>6, <1>7, <1>8 DEF Shape, TypeOK, JobsTypeOK
  <1>10. \A j : find_active_job_by_dedupe(j) = {}
    BY <1>2 DEF find_active_job_by_dedupe, IsActive
  <1>11. Lane
    BY <1>2, <1>3, <1>4, <1>5, <1>7, <1>10
    DEF Lane, Backed, DurableFirst, Handing, Flagged, Closed, RemovalReachesIngest, Busy, Open, IsActive
  <1>12. JudgedOnce /\ Cause /\ OnDisplay
    BY <1>4, <1>7 DEF JudgedOnce, Cause, OnDisplay
  <1> QED BY <1>9, <1>11, <1>12 DEF IInv

LEMMA NextIInv == IInv /\ [Next]_vars => IInv'
  <1> SUFFICES ASSUME IInv, [Next]_vars PROVE IInv'
    OBVIOUS
  <1>1. ASSUME NEW j \in Jids,
               \/ AddUrl(j) \/ Poll(j) \/ RestoreReview(j) \/ SettlePending(j) \/ Delete(j)
               \/ Discard(j) \/ Expire(j) \/ Promote(j) \/ RemoteMoves(j) \/ LidarrWorks(j)
        PROVE  IInv'
    BY <1>1, SubmissionKeeps, PollKeeps, RemovalBegins, DiscardBegins, OthersKeep
  <1>2. CASE Handler
    BY <1>2, HandoverKeeps, EnqueueKeeps, RemovalReads, RemovalWrites, DiscardWrites DEF Handler
  <1>3. CASE Worker
    BY <1>3, LoopKeeps, PipelineKeeps, ReportKeeps DEF Worker
  <1>4. CASE Crash \/ Boot
    BY <1>4, RestartKeeps
  <1>5. CASE (\E i \in JobIds : CancelJob(i)) \/ TimePasses \/ UNCHANGED vars
    BY <1>5, OthersKeep
  <1> QED BY <1>1, <1>2, <1>3, <1>4, <1>5 DEF Next

\* The lane's invariant: rows, projections, records, ingest jobs and the two
\* processes of the backend lane stay in step, through every order of polls,
\* removals, discards, worker steps, crashes and swallowed database errors.
THEOREM LaneInvariant == Spec => []IInv
  <1> QED BY InitIInv, NextIInv, PTL DEF Spec

\* Every place keeps to its own vocabulary, although update_backend_job, the
\* projection and the mirror translate into each other.
THEOREM LaneTypeCorrect == Spec => []TypeOK
  <1>1. IInv => TypeOK
    BY DEF IInv, Shape
  <1> QED BY <1>1, LaneInvariant, PTL

\* _start_backend_ingest writes the row before it creates the job: there is no
\* active ingest job under a row that a later poll would start again.
THEOREM RowBeforeJob == Spec => []DurableFirst
  <1>1. IInv => DurableFirst
    BY DEF IInv, Lane
  <1> QED BY <1>1, LaneInvariant, PTL

\* Once _cancel_and_hide_job has recorded Lidarr's removal, every active ingest
\* job of the release carries its cancel flag, as long as no database error was
\* swallowed.
THEOREM RemovalReachesTheJob == Spec => []RemovalReachesIngest
  <1>1. IInv => RemovalReachesIngest
    BY DEF IInv, Lane
  <1> QED BY <1>1, LaneInvariant, PTL

\* A review is on display to Lidarr from the judgement of the worker until the
\* record is closed, also after restarts and a lost jobs.json.
THEOREM ReviewsStayVisible == Spec => []ReviewStaysVisible
  <1>1. ASSUME IInv PROVE ReviewStaysVisible
    <2> SUFFICES ASSUME NEW j \in Jids, spent.faults = 0, record[j] = "review",
                        \/ lane[j] = "review"
                        \/ /\ lane[j] = "importing" /\ worker.pc \in {"mirror", "mirroring"}
                           /\ Jid = j /\ spent.crashes = 0
                 PROVE  ShownToLidarr(j)
      BY DEF ReviewStaysVisible
    <2>1. CASE lane[j] = "review"
      BY <2>1 DEF ShownToLidarr, _backend_review_row_visible, ClosedRecords
    <2>2. CASE /\ lane[j] = "importing" /\ worker.pc \in {"mirror", "mirroring"}
               /\ Jid = j /\ spent.crashes = 0
      <3>1. ~proj[j].hidden /\ proj[j].hold
        BY <1>1, <2>2 DEF IInv, OnDisplay, Calm
      <3> QED BY <2>2, <3>1 DEF ShownToLidarr, BACKEND_JOB_TERMINAL_STATES
    <2> QED BY <2>1, <2>2
  <1> QED BY <1>1, LaneInvariant, PTL

\* Of all steps, only LastGate takes the worker from the pipeline to the import.
LEMMA GateOnly ==
    ASSUME worker \in WorkerSet, [Next]_vars, worker.pc = "pipeline", worker'.pc = "posting"
    PROVE  LastGate
  <1>1. worker' # worker
    OBVIOUS
  <1>2. ~Crash /\ ~Boot
    BY DEF Crash, Boot, Up, WorkerAt
  <1>3. ~Checkpoint /\ ~CopyFails /\ ~Judge
    <2>1. (Returns \/ \E v \in TerminalJobStates : Raises(v)) => worker'.pc = "mirror"
      BY WorkerMoves DEF Returns, WorkerPcs
    <2>2. Checkpoint \/ CopyFails \/ Judge => Returns \/ \E v \in TerminalJobStates : Raises(v)
      BY DEF Checkpoint, CopyFails, Judge, ImportRaises, TerminalJobStates
    <2> QED BY <2>1, <2>2
  <1>4. Worker
    BY <1>1, <1>2
    DEF Next, Handler, vars, AddUrl, Poll, RestoreReview, SettlePending, Delete, Discard, Expire,
        Promote, RemoteMoves, LidarrWorks, CancelJob, StartIngest, EnqueueIngest, RevertIngest,
        DeleteReads, DeleteWrites, DiscardLane, TimePasses
  <1> QED BY <1>3, <1>4 DEF Worker, Claim, EarlyCheck, PostImport, AwaitImport, MirrorReads,
                            MirrorWrites, Finish

\* The worker does not pass its last gate before the import of a release whose
\* row says cancelled, by a removal or, while the process stays up, by a discard.
THEOREM CancelStopsTheImport == Spec => CancelledIsNotImported
  <1> DEFINE Stopped == \A j \in Jids : /\ lane[j] = "cancelled" /\ spent.faults = 0
                                        /\ j \in removed \/ spent.crashes = 0
                                        => ~PassesGate(j)
  <1>1. ASSUME IInv, [Next]_vars PROVE [Stopped]_vars
    <2> SUFFICES ASSUME NEW j \in Jids, lane[j] = "cancelled", spent.faults = 0,
                        j \in removed \/ spent.crashes = 0, PassesGate(j)
                 PROVE  FALSE
      BY DEF vars
    <2>1. worker.pc = "pipeline" /\ worker'.pc = "posting" /\ Jid = j /\ Busy
      BY DEF PassesGate, Busy
    <2>2. worker \in WorkerSet /\ worker.job \in JobIds /\ jobs[worker.job].state \in ActiveJobStates
      BY <1>1, <2>1, Found
    <2>3. ~jobs[worker.job].cancel
      <3>1. LastGate
        BY <1>1, <2>1, <2>2, GateOnly
      <3> QED BY <3>1 DEF LastGate, is_job_cancel_requested
    <2>4. worker.job \in find_active_job_by_dedupe(j)
      BY <2>1, <2>2 DEF find_active_job_by_dedupe, IsActive, Jid
    <2>5. j \notin removed
      BY <1>1, <2>3, <2>4 DEF IInv, Lane, RemovalReachesIngest
    <2>6. record[j] # "none" /\ Calm
      BY <1>1, <2>5 DEF IInv, Cause, Calm
    <2> QED BY <1>1, <2>1, <2>4, <2>6 DEF IInv, JudgedOnce, Reporting
  <1> QED BY <1>1, LaneInvariant, PTL DEF Spec, CancelledIsNotImported

=============================================================================
