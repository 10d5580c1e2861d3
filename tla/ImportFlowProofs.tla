-------------------------- MODULE ImportFlowProofs --------------------------
(* Theorems about ImportFlow for any number of attempts, albums, crashes,  *)
(* failures and cancellations.                                             *)
EXTENDS ImportFlow, JobStoreProofs

Max == MaxAttempts[TypeOf[Key]]

\* The constants that the assumptions fix.
LEMMA Constants ==
    /\ J \in JobIds /\ JobIds = {J}
    /\ Key \in Keys
    /\ Max \in Nat \ {0}
    /\ Attempts = 1 .. Max
  <1>1. J \in JobIds /\ JobIds = {J}
    BY ImportFlowAssumption DEF J
  <1>2. Key \in Keys
    BY JobStoreAssumption DEF Key
  <1> QED BY <1>1, <1>2, JobStoreAssumption DEF Max, Attempts

-----------------------------------------------------------------------------
(* Types *)

\* The type invariant with its larger sets named, so that a step need not look
\* inside them.
DiskType == [raw : BOOLEAN, out : BOOLEAN]
RecordType == [state : RecordStates, at : {"none", "out", "raw", "archive"}]
Statuses == {"queued", "downloading", "processing", "review_required", "completed",
             "failed", "lost"}
ProjType == [status : Statuses, hold : BOOLEAN, hidden : BOOLEAN,
             dir : {"none", "out", "raw"}]
ConfigType == [v2 : BOOLEAN, had : BOOLEAN]
SpentType == [cancels : 0 .. MaxCancels, crashes : 0 .. MaxCrashes,
              failures : 0 .. MaxFailures]

Typed == /\ JobsTypeOK
         /\ worker \in Worker
         /\ http \in {"idle", "counted"}
         /\ disk \in DiskType
         /\ record \in RecordType
         /\ proj \in ProjType
         /\ lidarr \in Lidarr
         /\ config \in ConfigType
         /\ spent \in SpentType
         /\ begun \in Nat

LEMMA TypeParts == TypeOK <=> Typed
  BY DEF TypeOK, Typed, DiskType, RecordType, Statuses, ProjType, ConfigType, SpentType

\* How each record changes; w is a worker that stands at p.
Moved(w, p) == w \in Worker /\ w.pc = p

LEMMA WorkerTypes ==
    ASSUME worker \in Worker
    PROVE  /\ \A p \in Positions : Goto(p) => Moved(worker', p)
           /\ \A p \in Positions : Moved(WorkerAt(p), p)
           /\ worker.pc \in Positions /\ worker.after \in {"cleanup", "returned"}
           /\ worker.dir \in {"out", "raw"}
  <1>1. \A p \in Positions : Goto(p) => Moved(worker', p)
    BY DEF Worker, Goto, Moved
  <1>2. \A p \in Positions : Moved(WorkerAt(p), p)
    BY DEF Worker, WorkerAt, Moved
  <1>3. /\ worker.pc \in Positions /\ worker.after \in {"cleanup", "returned"}
        /\ worker.dir \in {"out", "raw"}
    BY DEF Worker
  <1> QED BY <1>1, <1>2, <1>3

LEMMA WorkerUpdates ==
    ASSUME worker \in Worker
    PROVE  /\ \A t \in BOOLEAN : worker' = [worker EXCEPT !.pc = "raised", !.transient = t] =>
                 Moved(worker', "raised")
           /\ \A t \in BOOLEAN : worker' = [worker EXCEPT !.pc = "cleanup", !.transient = t] =>
                 Moved(worker', "cleanup")
           /\ \A d \in {"out", "raw"} : worker' = [worker EXCEPT !.pc = "entry", !.dir = d] =>
                 Moved(worker', "entry")
           /\ \A A \in SUBSET Albums : worker' = [worker EXCEPT !.pc = "switch", !.todo = A] =>
                 Moved(worker', "switch")
           /\ \A z \in BOOLEAN : worker' = [worker EXCEPT !.pc = "rescue", !.zero = z] =>
                 Moved(worker', "rescue")
           /\ worker' = [worker EXCEPT !.pc = "restoring", !.after = "returned"] =>
                 Moved(worker', "restoring")
           /\ \A a \in Albums : worker' = [worker EXCEPT !.todo = @ \ {a}] =>
                 Moved(worker', worker.pc)
           /\ \A a \in Albums :
                 worker' = [worker EXCEPT !.todo = @ \ {a}, !.applied = @ \cup {a}] =>
                    Moved(worker', worker.pc)
           /\ \A a \in Albums : worker' = [worker EXCEPT !.applied = @ \ {a}] =>
                 Moved(worker', worker.pc)
  <1> USE DEF Worker, Moved, Positions
  <1>1. \A t \in BOOLEAN : worker' = [worker EXCEPT !.pc = "raised", !.transient = t] =>
          Moved(worker', "raised")
    OBVIOUS
  <1>2. \A t \in BOOLEAN : worker' = [worker EXCEPT !.pc = "cleanup", !.transient = t] =>
          Moved(worker', "cleanup")
    OBVIOUS
  <1>3. \A d \in {"out", "raw"} : worker' = [worker EXCEPT !.pc = "entry", !.dir = d] =>
          Moved(worker', "entry")
    OBVIOUS
  <1>4. \A A \in SUBSET Albums : worker' = [worker EXCEPT !.pc = "switch", !.todo = A] =>
          Moved(worker', "switch")
    OBVIOUS
  <1>5. \A z \in BOOLEAN : worker' = [worker EXCEPT !.pc = "rescue", !.zero = z] =>
          Moved(worker', "rescue")
    OBVIOUS
  <1>6. worker' = [worker EXCEPT !.pc = "restoring", !.after = "returned"] =>
          Moved(worker', "restoring")
    OBVIOUS
  <1>7. \A a \in Albums : worker' = [worker EXCEPT !.todo = @ \ {a}] =>
          Moved(worker', worker.pc)
    OBVIOUS
  <1>8. \A a \in Albums :
          worker' = [worker EXCEPT !.todo = @ \ {a}, !.applied = @ \cup {a}] =>
             Moved(worker', worker.pc)
    <2> TAKE a \in Albums
    <2> DEFINE S == worker.todo \ {a}
               T == worker.applied \cup {a}
    <2>1. S \in SUBSET Albums /\ T \in SUBSET Albums
      OBVIOUS
    <2> HIDE DEF S, T
    <2>2. worker' = [worker EXCEPT !.todo = S, !.applied = T] => Moved(worker', worker.pc)
      BY <2>1
    <2> QED BY <2>2 DEF S, T
  <1>9. \A a \in Albums : worker' = [worker EXCEPT !.applied = @ \ {a}] =>
          Moved(worker', worker.pc)
    OBVIOUS
  <1> QED BY <1>1, <1>2, <1>3, <1>4, <1>5, <1>6, <1>7, <1>8, <1>9

LEMMA ProjUpdates ==
    ASSUME proj \in ProjType
    PROVE  /\ \A st \in Statuses : Status(st) => proj' \in ProjType /\ proj'.status = st
           /\ [proj EXCEPT !.hidden = TRUE] \in ProjType
           /\ [proj EXCEPT !.hidden = TRUE].status = proj.status
           /\ [proj EXCEPT !.status = "failed", !.hidden = TRUE] \in ProjType
           /\ [proj EXCEPT !.status = "failed", !.hidden = TRUE].status = "failed"
           /\ \A d \in {"out", "raw"} :
                 /\ [proj EXCEPT !.status = "processing", !.dir = d] \in ProjType
                 /\ [proj EXCEPT !.status = "processing", !.dir = d].status = "processing"
           /\ proj.dir \in {"none", "out", "raw"}
           /\ _mark_import_failed => proj' \in ProjType /\ proj'.status = "failed"
           /\ \A d \in {"none", "out", "raw"} : _mark_import_completed(d) =>
                 proj' \in ProjType
           /\ _mark_review_required =>
                 proj' \in ProjType /\ proj'.status = "review_required"
  <1> USE DEF ProjType, Statuses
  <1>1. /\ \A st \in Statuses : Status(st) => proj' \in ProjType /\ proj'.status = st
        /\ proj.dir \in {"none", "out", "raw"}
    BY DEF Status
  <1>2. /\ [proj EXCEPT !.hidden = TRUE] \in ProjType
        /\ [proj EXCEPT !.hidden = TRUE].status = proj.status
    OBVIOUS
  <1>3. /\ [proj EXCEPT !.status = "failed", !.hidden = TRUE] \in ProjType
        /\ [proj EXCEPT !.status = "failed", !.hidden = TRUE].status = "failed"
    OBVIOUS
  <1>4. \A d \in {"out", "raw"} :
           /\ [proj EXCEPT !.status = "processing", !.dir = d] \in ProjType
           /\ [proj EXCEPT !.status = "processing", !.dir = d].status = "processing"
    OBVIOUS
  <1>5. _mark_import_failed => proj' \in ProjType /\ proj'.status = "failed"
    BY DEF _mark_import_failed
  <1>6. \A d \in {"none", "out", "raw"} : _mark_import_completed(d) => proj' \in ProjType
    BY DEF _mark_import_completed
  <1>7. _mark_review_required => proj' \in ProjType /\ proj'.status = "review_required"
    BY DEF _mark_review_required
  <1> QED BY <1>1, <1>2, <1>3, <1>4, <1>5, <1>6, <1>7

LEMMA RecordUpdates ==
    ASSUME record \in RecordType
    PROVE  /\ \A st \in RecordStates, at \in {"out", "raw", "archive"} :
                 WriteRecord(st, at) =>
                    record' \in RecordType /\ record'.state \in {record.state, st}
           /\ \A at : Without(at) \in RecordType
                      /\ Without(at).state \in {record.state, "none"}
           /\ [record EXCEPT !.at = "out"] \in RecordType
           /\ [record EXCEPT !.at = "out"].state = record.state
           /\ \A st \in RecordStates : /\ [record EXCEPT !.state = st] \in RecordType
                                        /\ [record EXCEPT !.state = st].state = st
  BY DEF RecordType, RecordStates, WriteRecord, Without, NoRecord

LEMMA DiskUpdates ==
    ASSUME disk \in DiskType, NEW b \in BOOLEAN
    PROVE  /\ [disk EXCEPT !.raw = b] \in DiskType
           /\ [disk EXCEPT !.out = b] \in DiskType
           /\ [raw |-> FALSE, out |-> disk.raw] \in DiskType
  BY DEF DiskType

LEMMA LidarrUpdates ==
    ASSUME lidarr \in Lidarr
    PROVE  /\ [lidarr EXCEPT !.queue = FALSE] \in Lidarr
           /\ \A a \in Albums :
                 /\ [lidarr EXCEPT !.switched = @ \cup {a}] \in Lidarr
                 /\ [lidarr EXCEPT !.switched = @ \ {a}] \in Lidarr
           /\ \A a \in Attempts : [lidarr EXCEPT !.placed = @ \cup {a}] \in Lidarr
           /\ \A f \in BOOLEAN : [lidarr EXCEPT !.registered = @ \/ f] \in Lidarr
           /\ \A a \in Attempts : \A c \in {"none", "queued", "imported", "refused"} :
                 [lidarr EXCEPT !.cmd[a] = c] \in Lidarr
  <1> USE DEF Lidarr
  <1>1. [lidarr EXCEPT !.queue = FALSE] \in Lidarr
    OBVIOUS
  <1>2. \A a \in Albums : /\ [lidarr EXCEPT !.switched = @ \cup {a}] \in Lidarr
                          /\ [lidarr EXCEPT !.switched = @ \ {a}] \in Lidarr
    OBVIOUS
  <1>3. \A a \in Attempts : [lidarr EXCEPT !.placed = @ \cup {a}] \in Lidarr
    OBVIOUS
  <1>4. \A f \in BOOLEAN : [lidarr EXCEPT !.registered = @ \/ f] \in Lidarr
    OBVIOUS
  <1>5. \A a \in Attempts : \A c \in {"none", "queued", "imported", "refused"} :
           [lidarr EXCEPT !.cmd[a] = c] \in Lidarr
    OBVIOUS
  <1> QED BY <1>1, <1>2, <1>3, <1>4, <1>5

LEMMA SpentUpdates ==
    ASSUME spent \in SpentType
    PROVE  /\ Failure => spent' \in SpentType
           /\ Works => spent' \in SpentType
           /\ spent.cancels < MaxCancels => [spent EXCEPT !.cancels = @ + 1] \in SpentType
           /\ spent.crashes < MaxCrashes => [spent EXCEPT !.crashes = @ + 1] \in SpentType
  <1> USE ImportFlowAssumption DEF SpentType
  <1>1. Failure => spent' \in SpentType
    <2> HAVE Failure
    <2>1. spent.failures + 1 \in 0 .. MaxFailures
      BY DEF Failure
    <2> QED BY <2>1 DEF Failure
  <1>2. Works => spent' \in SpentType
    BY DEF Works
  <1>3. spent.cancels < MaxCancels => [spent EXCEPT !.cancels = @ + 1] \in SpentType
    <2> HAVE spent.cancels < MaxCancels
    <2>1. spent.cancels + 1 \in 0 .. MaxCancels
      OBVIOUS
    <2> QED BY <2>1
  <1>4. spent.crashes < MaxCrashes => [spent EXCEPT !.crashes = @ + 1] \in SpentType
    <2> HAVE spent.crashes < MaxCrashes
    <2>1. spent.crashes + 1 \in 0 .. MaxCrashes
      OBVIOUS
    <2> QED BY <2>1
  <1> QED BY <1>1, <1>2, <1>3, <1>4

\* What the helpers that end a stage leave behind.
LEMMA StageEnds ==
    ASSUME Typed
    PROVE  /\ \A c \in BOOLEAN : Cancel(c) =>
                 /\ jobs[J].cancel
                 /\ worker' \in Worker /\ worker'.pc = "cancelled"
                 /\ disk' \in DiskType
                 /\ record' \in RecordType /\ record'.state \in {record.state, "none"}
                 /\ proj' \in ProjType /\ proj'.status = "failed"
           /\ \A t \in BOOLEAN : Fails(t) =>
                 /\ worker' \in Worker /\ worker'.pc = "restoring"
                 /\ record' \in RecordType /\ record'.state \in {record.state, "failed"}
                 /\ proj' \in ProjType /\ proj'.status = "failed"
           /\ ImportRaises =>
                 /\ worker' \in Worker /\ worker'.pc = "returned"
                 /\ record' = record
                 /\ proj' \in ProjType /\ proj'.status = "failed"
  <1> USE DEF Typed
  <1>0. "cancelled" \in Positions /\ "restoring" \in Positions /\ "returned" \in Positions
        /\ "failed" \in RecordStates
    BY DEF Positions, RecordStates
  <1>1. ASSUME NEW c \in BOOLEAN, Cancel(c)
        PROVE  /\ jobs[J].cancel
               /\ worker' \in Worker /\ worker'.pc = "cancelled"
               /\ disk' \in DiskType
               /\ record' \in RecordType /\ record'.state \in {record.state, "none"}
               /\ proj' \in ProjType /\ proj'.status = "failed"
    <2>1. worker' \in Worker /\ worker'.pc = "cancelled"
      BY <1>0, <1>1, WorkerTypes DEF Cancel, Moved
    <2>2. disk' \in DiskType
      BY <1>1, DiskUpdates DEF Cancel
    <2>3. record' \in RecordType /\ record'.state \in {record.state, "none"}
      BY <1>1, RecordUpdates DEF Cancel
    <2>4. proj' \in ProjType /\ proj'.status = "failed"
      BY <1>1, ProjUpdates DEF Cancel
    <2> QED BY <1>1, <2>1, <2>2, <2>3, <2>4 DEF Cancel, is_job_cancel_requested
  <1>2. ASSUME NEW t \in BOOLEAN, Fails(t)
        PROVE  /\ worker' \in Worker /\ worker'.pc = "restoring"
               /\ record' \in RecordType /\ record'.state \in {record.state, "failed"}
               /\ proj' \in ProjType /\ proj'.status = "failed"
    <2>1. worker' \in Worker /\ worker'.pc = "restoring"
      BY <1>2 DEF Fails, Worker, Positions
    <2>2. record' \in RecordType /\ record'.state \in {record.state, "failed"}
      BY <1>0, <1>2, RecordUpdates, WorkerTypes DEF Fails
    <2>3. proj' \in ProjType /\ proj'.status = "failed"
      BY <1>2, ProjUpdates DEF Fails
    <2> QED BY <2>1, <2>2, <2>3
  <1>3. ASSUME ImportRaises
        PROVE  /\ worker' \in Worker /\ worker'.pc = "returned"
               /\ record' = record
               /\ proj' \in ProjType /\ proj'.status = "failed"
    <2>1. worker' \in Worker /\ worker'.pc = "returned"
      BY <1>3 DEF ImportRaises, Worker, Positions
    <2> QED BY <1>3, <2>1, ProjUpdates DEF ImportRaises
  <1> QED BY <1>1, <1>2, <1>3

\* A preparation cut short leaves folders and at most the record there was.
LEMMA CutShortTypes ==
    ASSUME Typed, CutShort
    PROVE  /\ disk' \in DiskType
           /\ record' \in RecordType /\ record'.state \in {record.state, "none"}
  <1>1. disk' \in DiskType
    BY DEF Typed, DiskType, CutShort
  <1>2. record' \in {record, Without("out"), [record EXCEPT !.at = "out"]}
    BY DEF CutShort
  <1> QED BY <1>1, <1>2, RecordUpdates DEF Typed

-----------------------------------------------------------------------------
(* The inductive invariant.  Pre are the positions before the attempt has  *)
(* touched the library, and those a cancelled pipeline goes through.       *)

Out == {"down", "idle"}
Pre == {"claimed", "download", "normalise", "prepare", "entry", "policy", "switch",
        "gate", "post", "cancelled"}
Untouched(a) == lidarr.cmd[a] = "none" /\ a \notin lidarr.placed

\* The job never starts more attempts than it has.
Budget ==
    /\ jobs[J].key = Key
    /\ Attempt <= Max
    /\ jobs[J].state = "queued" => Attempt < Max

\* A pipeline under way runs for a job that is being worked on.
Owned == worker.pc \notin Out =>
            jobs[J].state \in {"running", "cancelling"} /\ Attempt > 0

\* Later attempts, and the current one up to its command, left no trace.
Fresh ==
    /\ \A a \in Attempts : a > Attempt => Untouched(a)
    /\ worker.pc \in Pre => Untouched(Attempt)
    /\ jobs[J].state = "cancelled" /\ Attempt > 0 => Untouched(Attempt)

\* The one mutation after a cancellation is the command behind the last gate,
\* or the copy behind the rescue's check.
OneLate ==
    /\ begun \in {0, 1}
    /\ begun = 1 => jobs[J].cancel
    /\ worker.pc \in {"post", "copy"} => begun = 0

IInv == Typed /\ Budget /\ Owned /\ Fresh /\ OneLate /\ SuccessIsReal

-----------------------------------------------------------------------------
(* What a step does to the state the invariant speaks of *)

\* The job's row and the position of the worker: a stage of the pipeline, a
\* step of somebody else, a claim, or the end of a pipeline.
Stage ==
    /\ jobs' = jobs
    /\ worker.pc \notin Out /\ worker'.pc \notin Out
    /\ worker'.pc \in Pre => worker.pc \in Pre \ {"post", "cancelled"}
    /\ worker'.pc \in {"post", "copy"} => ~jobs[J].cancel
Beside ==
    /\ worker' = worker
    /\ jobs'[J].attempts = Attempt
    /\ \/ jobs'[J].state = jobs[J].state
       \/ jobs[J].state = "running" /\ jobs'[J].state = "cancelling"
Claims ==
    /\ worker.pc = "idle" /\ worker'.pc = "claimed"
    /\ jobs[J].state = "queued" /\ jobs'[J].state = "running"
    /\ jobs'[J].attempts = Attempt + 1
Leaves ==
    /\ worker'.pc \in Out
    /\ jobs'[J].attempts = Attempt
    /\ jobs'[J].state = "queued" => jobs[J].state = "queued" \/ Attempt < Max
    /\ jobs'[J].state = "cancelled" =>
          jobs[J].state = "cancelled" \/ worker.pc \in {"claimed", "cancelled"}
JobEffect ==
    /\ jobs'[J].key = jobs[J].key
    /\ jobs[J].cancel => jobs'[J].cancel
    /\ Stage \/ Beside \/ Claims \/ Leaves

\* Lidarr: nothing, a command sent, files placed, or a command carried out.
Sends ==
    /\ worker.pc = "post" /\ worker'.pc \notin Out \cup Pre
    /\ lidarr'.placed = lidarr.placed
    /\ \E c \in {"queued", "none"} : lidarr'.cmd = [lidarr.cmd EXCEPT ![Attempt] = c]
Places ==
    /\ worker.pc = "copy" /\ worker'.pc \notin Out
    /\ lidarr'.placed = lidarr.placed \cup {Attempt} /\ lidarr'.cmd = lidarr.cmd
CarriesOut ==
    /\ worker' = worker
    /\ lidarr'.placed = lidarr.placed
    /\ \E a \in Attempts : \E c \in {"imported", "refused"} :
          /\ lidarr.cmd[a] = "queued"
          /\ lidarr'.cmd = [lidarr.cmd EXCEPT ![a] = c]
LidarrEffect ==
    /\ lidarr.registered => lidarr'.registered
    /\ \/ lidarr'.cmd = lidarr.cmd /\ lidarr'.placed = lidarr.placed
       \/ Sends \/ Places \/ CarriesOut
    /\ \/ begun' = begun
       \/ /\ worker.pc \in {"post", "copy"} /\ worker'.pc \notin {"post", "copy"}
          /\ jobs[J].cancel /\ begun' = begun + 1

\* What is reported, and on which evidence.
ReportEffect ==
    /\ config' = config
    /\ record'.state = "imported" => record.state = "imported" \/ Imported \/ config.had
    /\ record'.state = "rescued" =>
          record.state = "rescued" \/ lidarr'.registered \/ config.had
    /\ proj'.status = "completed" =>
          proj.status = "completed" \/ Imported \/ lidarr'.registered \/ config.had

Effect == Typed' /\ JobEffect /\ LidarrEffect /\ ReportEffect

\* The effects carry the invariant.
LEMMA EffectKeepsIInv ==
    ASSUME IInv, Effect
    PROVE  IInv'
  <1> USE Constants
  <1>1. /\ Attempt \in Nat /\ Attempt' \in Nat
        /\ lidarr.cmd \in [Attempts -> {"none", "queued", "imported", "refused"}]
        /\ lidarr.placed \subseteq Attempts
    BY DEF IInv, Effect, Typed, JobsTypeOK, JobRow, Attempt, Lidarr
  <1>2. Budget'
    BY <1>1 DEF IInv, Effect, Budget, JobEffect, Stage, Beside, Claims, Leaves, Attempt
  <1>3. Owned'
    BY <1>1 DEF IInv, Effect, Owned, JobEffect, Stage, Beside, Claims, Leaves, Attempt, Out
  <1>4. Fresh'
    <2>1. CASE lidarr'.cmd = lidarr.cmd /\ lidarr'.placed = lidarr.placed
      BY <1>1, <2>1 DEF IInv, Effect, Fresh, Untouched, Budget, Owned, JobEffect, Stage,
         Beside, Claims, Leaves, Attempt, Out, Pre
    <2>2. CASE Sends \/ Places
      <3>1. /\ worker.pc \notin Out /\ worker'.pc \notin Out
            /\ worker'.pc \notin Pre /\ worker'.pc # "claimed"
        BY <2>2 DEF Sends, Places, Out, Pre, Effect, JobEffect, Stage, Beside, Claims, Leaves
      <3>2. /\ Attempt' = Attempt
            /\ Attempt \in Attempts
            /\ jobs'[J].state # "cancelled"
        BY <1>1, <3>1 DEF IInv, Effect, Budget, Owned, JobEffect, Stage, Beside, Claims,
           Leaves, Attempt, Out
      <3>3. \A a \in Attempts : a # Attempt => (Untouched(a) => Untouched(a)')
        BY <1>1, <2>2, <3>2 DEF Untouched, Sends, Places
      <3> QED BY <1>1, <3>1, <3>2, <3>3 DEF IInv, Fresh
    <2>3. CASE CarriesOut
      BY <1>1, <2>3 DEF IInv, Effect, Fresh, Untouched, Budget, Owned, JobEffect, Stage,
         Beside, Claims, Leaves, Attempt, Out, Pre, CarriesOut
    <2> QED BY <2>1, <2>2, <2>3 DEF Effect, LidarrEffect
  <1>5. OneLate'
    BY DEF IInv, Effect, OneLate, JobEffect, LidarrEffect, Stage, Beside, Claims, Leaves, Out, Pre
  <1>6. SuccessIsReal'
    <2>1. Imported => Imported'
      <3>1. CASE lidarr'.cmd = lidarr.cmd
        BY <3>1 DEF Imported
      <3>2. CASE Sends
        BY <1>1, <3>2 DEF Imported, Sends, IInv, Fresh, Untouched, Pre
      <3>3. CASE CarriesOut
        BY <1>1, <3>3 DEF Imported, CarriesOut
      <3> QED BY <3>1, <3>2, <3>3 DEF Effect, LidarrEffect, Places
    <2> QED BY <2>1 DEF IInv, Effect, ReportEffect, LidarrEffect, SuccessIsReal
  <1> QED BY <1>2, <1>3, <1>4, <1>5, <1>6 DEF IInv, Effect

\* What the transactions on the jobs table do to the job's row.
LEMMA RowEffects ==
    ASSUME JobsTypeOK, jobs[J].key = Key
    PROVE  /\ \A T : dequeue_next_job(J, T) =>
                 /\ jobs[J].state = "queued" /\ jobs'[J].state = "running"
                 /\ jobs'[J].attempts = Attempt + 1
                 /\ jobs'[J].key = jobs[J].key /\ jobs'[J].cancel = jobs[J].cancel
           /\ \A s : MarkJob(J, s) =>
                 /\ jobs'[J].state = s /\ jobs'[J].attempts = Attempt
                 /\ jobs'[J].key = jobs[J].key /\ jobs'[J].cancel = jobs[J].cancel
           /\ schedule_job_retry(J) =>
                 /\ Attempt < Max /\ ~jobs[J].cancel
                 /\ jobs'[J].state = "queued" /\ jobs'[J].attempts = Attempt
                 /\ jobs'[J].key = jobs[J].key
           /\ request_job_cancel(J) =>
                 /\ \/ jobs'[J].state = jobs[J].state
                    \/ jobs[J].state = "running" /\ jobs'[J].state = "cancelling"
                 /\ jobs'[J].cancel /\ jobs'[J].attempts = Attempt
                 /\ jobs'[J].key = jobs[J].key
           /\ BecomesDue(J) =>
                 /\ jobs'[J].state = jobs[J].state /\ jobs'[J].attempts = Attempt
                 /\ jobs'[J].key = jobs[J].key /\ jobs'[J].cancel = jobs[J].cancel
           /\ recover_stale_running_jobs(Running) =>
                 /\ jobs'[J].state = "queued" => jobs[J].state = "queued" \/ Attempt < Max
                 /\ jobs'[J].state = "cancelled" => jobs[J].state = "cancelled"
                 /\ jobs'[J].attempts = Attempt
                 /\ jobs'[J].key = jobs[J].key /\ jobs'[J].cancel = jobs[J].cancel
  <1> USE Constants
  <1>0. jobs[J] \in JobRow /\ MaxOf(J) = Max /\ Attempt \in Nat /\ Max \in Nat
    BY DEF JobsTypeOK, MaxOf, Max, Attempt, JobRow
  <1>1. ASSUME NEW r
        PROVE  [jobs EXCEPT ![J] = r][J] = r
    BY DEF JobsTypeOK
  <1>2. \A T : dequeue_next_job(J, T) =>
           /\ jobs[J].state = "queued" /\ jobs'[J].state = "running"
           /\ jobs'[J].attempts = Attempt + 1
           /\ jobs'[J].key = jobs[J].key /\ jobs'[J].cancel = jobs[J].cancel
    BY <1>0, <1>1 DEF dequeue_next_job, Eligible, ClaimedRow, JobRow, Attempt
  <1>3. \A s : MarkJob(J, s) =>
           /\ jobs'[J].state = s /\ jobs'[J].attempts = Attempt
           /\ jobs'[J].key = jobs[J].key /\ jobs'[J].cancel = jobs[J].cancel
    BY <1>0, <1>1 DEF MarkJob, MarkedRow, JobRow, Attempt
  <1>4. schedule_job_retry(J) =>
           /\ Attempt < Max /\ ~jobs[J].cancel
           /\ jobs'[J].state = "queued" /\ jobs'[J].attempts = Attempt
           /\ jobs'[J].key = jobs[J].key
    BY <1>0, <1>1 DEF schedule_job_retry, CanRetry, RetryRow, JobRow, Attempt
  <1>5. request_job_cancel(J) =>
           /\ \/ jobs'[J].state = jobs[J].state
              \/ jobs[J].state = "running" /\ jobs'[J].state = "cancelling"
           /\ jobs'[J].cancel /\ jobs'[J].attempts = Attempt
           /\ jobs'[J].key = jobs[J].key
    BY <1>0, <1>1 DEF request_job_cancel, CancelRow, JobRow, Attempt
  <1>6. BecomesDue(J) =>
           /\ jobs'[J].state = jobs[J].state /\ jobs'[J].attempts = Attempt
           /\ jobs'[J].key = jobs[J].key /\ jobs'[J].cancel = jobs[J].cancel
    BY <1>0, <1>1 DEF BecomesDue, JobRow, Attempt
  <1>7. recover_stale_running_jobs(Running) =>
           /\ jobs'[J].state = "queued" => jobs[J].state = "queued" \/ Attempt < Max
           /\ jobs'[J].state = "cancelled" => jobs[J].state = "cancelled"
           /\ jobs'[J].attempts = Attempt
           /\ jobs'[J].key = jobs[J].key /\ jobs'[J].cancel = jobs[J].cancel
    <2> HAVE recover_stale_running_jobs(Running)
    <2>1. \/ jobs'[J] = jobs[J]
          \/ jobs'[J] = RecoveredRow(jobs[J], Max)
      BY <1>0 DEF recover_stale_running_jobs
    <2>2. CASE jobs'[J] = jobs[J]
      BY <2>2 DEF Attempt
    <2>3. CASE jobs'[J] = MarkedRow(jobs[J], "failed")
      BY <1>0, <2>3 DEF MarkedRow, JobRow, Attempt
    <2>4. CASE Attempt < Max /\ jobs'[J] = [jobs[J] EXCEPT !.state = "queued", !.lease = "none",
                                                          !.due = FALSE]
      BY <1>0, <2>4 DEF JobRow, Attempt
    <2> QED BY <1>0, <2>1, <2>2, <2>3, <2>4 DEF RecoveredRow, Attempt
  <1> QED BY <1>2, <1>3, <1>4, <1>5, <1>6, <1>7

\* A step that leaves Lidarr alone, and a stage of the pipeline.
LEMMA Quiet ==
    ASSUME lidarr' = lidarr, begun' = begun
    PROVE  LidarrEffect
  BY DEF LidarrEffect

LEMMA StageIsEffect ==
    ASSUME Typed', jobs' = jobs, worker.pc \notin Out, worker'.pc \notin Out,
           worker'.pc \in Pre => worker.pc \in Pre \ {"post", "cancelled"},
           worker'.pc \in {"post", "copy"} => ~jobs[J].cancel,
           LidarrEffect, ReportEffect
    PROVE  Effect
  BY DEF Effect, JobEffect, Stage

LEMMA PreparationEffects ==
    ASSUME IInv, Download \/ Normalise \/ Prepare \/ Enter
    PROVE  Effect
  <1> USE DEF At
  <1>0. Typed /\ Works = (spent' = spent)
    BY DEF IInv, Works
  <1>1. CASE Download
    <2>1. Moved(worker', "cancelled") \/ Moved(worker', "normalise") \/ Moved(worker', "raised")
      <3>1. Cancel(TRUE) => Moved(worker', "cancelled")
        BY <1>0, StageEnds DEF Moved
      <3>2. Goto("normalise") => Moved(worker', "normalise")
        BY <1>0, WorkerTypes DEF Typed, Positions
      <3> QED BY <1>0, <1>1, <3>1, <3>2, WorkerUpdates DEF Download, Typed
    <2>2. /\ disk' \in DiskType
          /\ record' \in RecordType /\ record'.state \in {record.state, "none"}
          /\ proj' \in ProjType /\ proj'.status \in {proj.status, "failed"}
      BY <1>0, <1>1, StageEnds, DiskUpdates, ProjUpdates DEF Download, Typed, Statuses
    <2>3. Typed'
      BY <1>0, <1>1, <2>1, <2>2 DEF Download, Typed, JobsTypeOK, Moved
    <2>4. LidarrEffect /\ ReportEffect
      BY <1>1, <2>2, Quiet DEF Download, ReportEffect
    <2> QED BY <1>1, <2>1, <2>3, <2>4, StageIsEffect DEF Download, Moved, Out, Pre
  <1>2. CASE Normalise
    <2>1. Moved(worker', "cancelled") \/ Moved(worker', "prepare")
      BY <1>0, <1>2, StageEnds, WorkerTypes DEF Normalise, Typed, Moved, Positions
    <2>2. /\ disk' \in DiskType
          /\ record' \in RecordType /\ record'.state \in {record.state, "none"}
          /\ proj' \in ProjType /\ proj'.status \in {"processing", "failed"}
      BY <1>0, <1>2, StageEnds, DiskUpdates, ProjUpdates DEF Normalise, Typed, Statuses
    <2>3. Typed'
      BY <1>0, <1>2, <2>1, <2>2 DEF Normalise, Typed, JobsTypeOK, Moved
    <2>4. LidarrEffect /\ ReportEffect
      BY <1>2, <2>2, Quiet DEF Normalise, ReportEffect
    <2> QED BY <1>2, <2>1, <2>3, <2>4, StageIsEffect DEF Normalise, Moved, Out, Pre
  <1>3. CASE Prepare
    <2>1. Moved(worker', "cancelled") \/ Moved(worker', "entry")
      <3>1. Cancel(TRUE) => Moved(worker', "cancelled")
        BY <1>0, StageEnds DEF Moved
      <3> QED BY <1>0, <1>3, <3>1, WorkerUpdates DEF Prepare, Typed
    <2>2. /\ disk' \in DiskType
          /\ record' \in RecordType /\ record'.state \in {record.state, "none"}
          /\ proj' \in ProjType /\ proj'.status \in {"processing", "failed"}
          /\ spent' \in SpentType
      <3>0. spent' \in SpentType
        BY <1>0, <1>3, SpentUpdates DEF Prepare, Typed
      <3>1. CASE Cancel(TRUE)
        BY <1>0, <3>0, <3>1, StageEnds
      <3>2. CASE ~Cancel(TRUE)
        <4>1. disk' \in DiskType
          <5>1. disk' = [raw |-> FALSE, out |-> disk.raw] \/ CutShort
            BY <1>3, <3>2 DEF Prepare
          <5>2. [raw |-> FALSE, out |-> disk.raw] \in DiskType
            BY <1>0 DEF Typed, DiskType
          <5> QED BY <1>0, <5>1, <5>2, CutShortTypes
        <4>2. record' \in RecordType /\ record'.state \in {record.state, "none"}
          BY <1>0, <1>3, <3>2, RecordUpdates, CutShortTypes DEF Prepare, Typed
        <4>3. proj' \in ProjType /\ proj'.status = "processing"
          BY <1>0, <1>3, <3>2 DEF Prepare, Typed, ProjType, Statuses
        <4> QED BY <3>0, <4>1, <4>2, <4>3
      <3> QED BY <3>1, <3>2
    <2>3. Typed'
      BY <1>0, <1>3, <2>1, <2>2 DEF Prepare, Typed, JobsTypeOK, Moved
    <2>4. LidarrEffect /\ ReportEffect
      BY <1>3, <2>2, Quiet DEF Prepare, ReportEffect
    <2> QED BY <1>3, <2>1, <2>3, <2>4, StageIsEffect DEF Prepare, Moved, Out, Pre
  <1>4. CASE Enter
    <2>1. Moved(worker', "cancelled") \/ Moved(worker', "policy") \/ Moved(worker', "returned")
      BY <1>0, <1>4, StageEnds, WorkerTypes DEF Enter, Typed, Moved, Positions
    <2>2. /\ disk' \in DiskType
          /\ record' \in RecordType /\ record'.state \in {record.state, "none"}
          /\ proj' \in ProjType /\ proj'.status \in {proj.status, "failed"}
      BY <1>0, <1>4, StageEnds DEF Enter, Typed
    <2>3. Typed'
      BY <1>0, <1>4, <2>1, <2>2 DEF Enter, Typed, JobsTypeOK, Moved
    <2>4. LidarrEffect /\ ReportEffect
      BY <1>4, <2>2, Quiet DEF Enter, ReportEffect
    <2> QED BY <1>4, <2>1, <2>3, <2>4, StageIsEffect DEF Enter, Moved, Out, Pre
  <1> QED BY <1>1, <1>2, <1>3, <1>4

LEMMA PolicyEffects ==
    ASSUME IInv, Block \/ _create_review_required \/ Accept \/ Lookup \/ Gate
    PROVE  Effect
  <1> USE DEF At
  <1>0. Typed
    BY DEF IInv
  <1>1. CASE Block
    <2>1. Moved(worker', "cleanup")
      BY <1>0, <1>1, WorkerUpdates DEF Block, Typed
    <2>2. /\ disk' \in DiskType
          /\ record' \in RecordType /\ record'.state \in {record.state, "blocked"}
          /\ proj' \in ProjType /\ proj'.status = "failed"
      <3>1. disk' \in DiskType
        BY <1>0, <1>1, DiskUpdates DEF Block, Typed
      <3>2. record' \in RecordType /\ record'.state \in {record.state, "blocked"}
        BY <1>0, <1>1, RecordUpdates DEF Block, Typed, RecordStates
      <3> QED BY <1>0, <1>1, <3>1, <3>2, ProjUpdates DEF Block, Typed
    <2>3. Typed'
      BY <1>0, <1>1, <2>1, <2>2 DEF Block, Typed, JobsTypeOK, Moved
    <2>4. LidarrEffect /\ ReportEffect
      BY <1>1, <2>2, Quiet DEF Block, ReportEffect
    <2> QED BY <1>1, <2>1, <2>3, <2>4, StageIsEffect DEF Block, Moved, Out, Pre
  <1>2. CASE _create_review_required
    <2>1. Moved(worker', "returned")
      BY <1>0, <1>2, WorkerTypes DEF _create_review_required, Typed, Positions
    <2>2. /\ record' \in RecordType /\ record'.state \in {record.state, "review"}
          /\ proj' \in ProjType /\ proj'.status = "review_required"
      <3>1. record' \in RecordType /\ record'.state \in {record.state, "review"}
        BY <1>0, <1>2, RecordUpdates, WorkerTypes
        DEF _create_review_required, Typed, RecordStates
      <3> QED BY <1>0, <1>2, <3>1, ProjUpdates DEF _create_review_required, Typed
    <2>3. Typed'
      BY <1>0, <1>2, <2>1, <2>2 DEF _create_review_required, Typed, JobsTypeOK, Moved
    <2>4. LidarrEffect /\ ReportEffect
      BY <1>2, <2>2, Quiet DEF _create_review_required, ReportEffect
    <2> QED BY <1>2, <2>1, <2>3, <2>4, StageIsEffect DEF _create_review_required, Moved, Out, Pre
  <1>3. CASE Accept
    <2>1. Moved(worker', "switch")
      BY <1>0, <1>3, WorkerUpdates DEF Accept, Typed
    <2>2. record' = record /\ proj' = proj
      BY <1>3 DEF Accept
    <2>3. Typed'
      BY <1>0, <1>3, <2>1, <2>2 DEF Accept, Typed, JobsTypeOK, Moved
    <2>4. LidarrEffect /\ ReportEffect
      BY <1>3, <2>2, Quiet DEF Accept, ReportEffect
    <2> QED BY <1>3, <2>1, <2>3, <2>4, StageIsEffect DEF Accept, Moved, Out, Pre
  <1>4. CASE Lookup
    <2>1. Moved(worker', "restoring") \/ Moved(worker', "rescue") \/ Moved(worker', "gate")
          \/ Moved(worker', "returned")
      <3>1. /\ \A t \in BOOLEAN : Fails(t) => Moved(worker', "restoring")
            /\ ImportRaises => Moved(worker', "returned")
        BY <1>0, StageEnds DEF Moved
      <3>2. Goto("gate") => Moved(worker', "gate")
        BY <1>0, WorkerTypes DEF Typed, Positions
      <3> QED BY <1>0, <1>4, <3>1, <3>2, WorkerUpdates DEF Lookup, Typed
    <2>2. /\ record' \in RecordType /\ record'.state \in {record.state, "failed"}
          /\ proj' \in ProjType /\ proj'.status \in {proj.status, "failed"}
          /\ spent' \in SpentType
      <3>1. spent' \in SpentType
        BY <1>0, <1>4, SpentUpdates DEF Lookup, Typed
      <3>2. \/ \E t \in BOOLEAN : Fails(t)
            \/ ImportRaises
            \/ record' = record /\ proj' = proj
        BY <1>4 DEF Lookup
      <3> QED BY <1>0, <3>1, <3>2, StageEnds DEF Typed
    <2>3. Typed'
      BY <1>0, <1>4, <2>1, <2>2 DEF Lookup, Typed, JobsTypeOK, Moved
    <2>4. LidarrEffect /\ ReportEffect
      BY <1>4, <2>2, Quiet DEF Lookup, ReportEffect
    <2> QED BY <1>4, <2>1, <2>3, <2>4, StageIsEffect DEF Lookup, Moved, Out, Pre
  <1>5. CASE Gate
    <2>1. Moved(worker', "cancelled") \/ (Moved(worker', "post") /\ ~jobs[J].cancel)
      <3>1. Cancel(FALSE) => Moved(worker', "cancelled")
        BY <1>0, StageEnds DEF Moved
      <3>2. Goto("post") => Moved(worker', "post")
        BY <1>0, WorkerTypes DEF Typed, Positions
      <3> QED BY <1>5, <3>1, <3>2 DEF Gate, is_job_cancel_requested
    <2>2. /\ disk' \in DiskType
          /\ record' \in RecordType /\ record'.state \in {record.state, "none"}
          /\ proj' \in ProjType /\ proj'.status \in {proj.status, "failed"}
      BY <1>0, <1>5, StageEnds DEF Gate, Typed
    <2>3. Typed'
      BY <1>0, <1>5, <2>1, <2>2 DEF Gate, Typed, JobsTypeOK, Moved
    <2>4. LidarrEffect /\ ReportEffect
      BY <1>5, <2>2, Quiet DEF Gate, ReportEffect
    <2> QED BY <1>5, <2>1, <2>3, <2>4, StageIsEffect DEF Gate, Moved, Out, Pre
  <1> QED BY <1>1, <1>2, <1>3, <1>4, <1>5

LEMMA SwitchEffect ==
    ASSUME IInv, NEW a \in Albums, Switch(a)
    PROVE  Effect
  <1> USE DEF At
  <1>0. Typed
    BY DEF IInv
  <1>1. Moved(worker', "switch")
    BY <1>0, WorkerUpdates DEF Switch, Typed
  <1>2. spent' \in SpentType
    BY <1>0, SpentUpdates DEF Switch, Typed
  <1>3. lidarr' \in Lidarr
    BY <1>0, LidarrUpdates DEF Switch, Typed
  <1>4. /\ lidarr'.cmd = lidarr.cmd /\ lidarr'.placed = lidarr.placed
        /\ lidarr'.registered = lidarr.registered
    BY <1>0 DEF Switch, Typed, Lidarr
  <1>5. Typed'
    BY <1>0, <1>1, <1>2, <1>3 DEF Switch, Typed, JobsTypeOK, Moved
  <1>6. LidarrEffect /\ ReportEffect
    BY <1>4 DEF Switch, LidarrEffect, ReportEffect
  <1> QED BY <1>1, <1>5, <1>6, StageIsEffect DEF Switch, Moved, Out, Pre

\* A pipeline under way is in one of the attempts the job may make.
LEMMA AttemptInRange ==
    ASSUME IInv, worker.pc \notin Out
    PROVE  Attempt \in Attempts
  BY Constants DEF IInv, Typed, Budget, Owned, JobsTypeOK, JobRow, Attempt

LEMMA ImportEffects ==
    ASSUME IInv, Post \/ Wait \/ CheckPending
    PROVE  Effect
  <1> USE DEF At
  <1>0. Typed
    BY DEF IInv
  <1>1. CASE Post
    <2>0. Attempt \in Attempts
      BY <1>1, AttemptInRange DEF Post, Out
    <2>1. Moved(worker', "wait") \/ Moved(worker', "returned")
      <3>1. Goto("wait") => Moved(worker', "wait")
        BY <1>0, WorkerTypes DEF Typed, Positions
      <3> QED BY <1>0, <1>1, <3>1, StageEnds DEF Post, Moved
    <2>2. /\ record' = record
          /\ proj' \in ProjType /\ proj'.status \in {proj.status, "failed"}
          /\ spent' \in SpentType
          /\ begun' \in Nat
          /\ begun' = begun \/ (jobs[J].cancel /\ begun' = begun + 1)
      <3>1. spent' \in SpentType
        BY <1>0, <1>1, SpentUpdates DEF Post, Typed
      <3>2. begun' \in Nat /\ (begun' = begun \/ (jobs[J].cancel /\ begun' = begun + 1))
        BY <1>0, <1>1 DEF Post, Mutates, is_job_cancel_requested, Typed
      <3> QED BY <1>0, <1>1, <3>1, <3>2, StageEnds DEF Post, Typed
    <2>5. PICK c \in {"queued", "none"} : lidarr' = [lidarr EXCEPT !.cmd[Attempt] = c]
      BY <1>1 DEF Post
    <2>6. lidarr' \in Lidarr
      BY <1>0, <2>0, <2>5, LidarrUpdates DEF Typed
    <2>7. /\ lidarr'.cmd = [lidarr.cmd EXCEPT ![Attempt] = c]
          /\ lidarr'.placed = lidarr.placed /\ lidarr'.registered = lidarr.registered
      BY <1>0, <2>5 DEF Typed, Lidarr
    <2>3. Typed'
      BY <1>0, <1>1, <2>1, <2>2, <2>6 DEF Post, Typed, JobsTypeOK, Moved
    <2>8. Sends
      BY <1>1, <2>1, <2>7 DEF Post, Sends, Moved, Out, Pre
    <2>4. LidarrEffect /\ ReportEffect
      BY <1>1, <2>1, <2>2, <2>7, <2>8 DEF Post, LidarrEffect, ReportEffect, Moved
    <2> QED BY <1>1, <2>1, <2>3, <2>4, StageIsEffect DEF Post, Moved, Out, Pre
  <1>2. CASE Wait
    <2>1. Moved(worker', "returned") \/ Moved(worker', "pending")
      BY <1>0, <1>2, WorkerTypes DEF Wait, Typed, Positions
    <2>2. /\ record' \in RecordType /\ proj' \in ProjType /\ spent' \in SpentType
          /\ \/ record' = record /\ proj' = proj
             \/ (Imported \/ config.had) /\ record'.state \in {record.state, "imported"}
      <3>1. spent' \in SpentType
        BY <1>0, <1>2, SpentUpdates DEF Wait, Typed
      <3>2. CASE record' = record /\ proj' = proj
        BY <1>0, <3>1, <3>2 DEF Typed
      <3>3. CASE /\ Imported \/ config.had
                 /\ WriteRecord("imported", worker.dir)
                 /\ _mark_import_completed(worker.dir)
        <4>1. record' \in RecordType /\ record'.state \in {record.state, "imported"}
          BY <1>0, <3>3, RecordUpdates, WorkerTypes DEF Typed, RecordStates
        <4>2. proj' \in ProjType
          BY <1>0, <3>3, ProjUpdates, WorkerTypes DEF Typed
        <4> QED BY <3>1, <3>3, <4>1, <4>2
      <3> QED BY <1>2, <3>2, <3>3 DEF Wait
    <2>3. Typed'
      BY <1>0, <1>2, <2>1, <2>2 DEF Wait, Typed, JobsTypeOK, Moved
    <2>4. LidarrEffect /\ ReportEffect
      BY <1>2, <2>2, Quiet DEF Wait, ReportEffect
    <2> QED BY <1>2, <2>1, <2>3, <2>4, StageIsEffect DEF Wait, Moved, Out, Pre
  <1>3. CASE CheckPending
    <2>1. Moved(worker', "restoring") \/ Moved(worker', "rescue")
      BY <1>0, <1>3, WorkerUpdates DEF CheckPending, Typed
    <2>2. /\ record' \in RecordType /\ record'.state \in {record.state, "pending"}
          /\ spent' \in SpentType
      <3>1. spent' \in SpentType
        BY <1>0, <1>3, SpentUpdates DEF CheckPending, Typed
      <3> QED BY <1>0, <1>3, <3>1, RecordUpdates, WorkerTypes
              DEF CheckPending, Typed, RecordStates
    <2>3. Typed'
      BY <1>0, <1>3, <2>1, <2>2 DEF CheckPending, Typed, JobsTypeOK, Moved
    <2>4. LidarrEffect /\ ReportEffect
      BY <1>3, <2>2, Quiet DEF CheckPending, ReportEffect
    <2> QED BY <1>3, <2>1, <2>3, <2>4, StageIsEffect DEF CheckPending, Moved, Out, Pre
  <1> QED BY <1>1, <1>2, <1>3

LEMMA RescueEffects ==
    ASSUME IInv, Rescue \/ Copy \/ Rescan
    PROVE  Effect
  <1> USE DEF At
  <1>0. Typed
    BY DEF IInv
  <1>1. CASE Rescue
    <2>1. \/ Moved(worker', "copy") /\ ~jobs[J].cancel
          \/ Moved(worker', "restoring")
      <3>1. Goto("copy") => Moved(worker', "copy")
        BY <1>0, WorkerTypes DEF Typed, Positions
      <3> QED BY <1>0, <1>1, <3>1, StageEnds DEF Rescue, Moved, is_job_cancel_requested
    <2>2. /\ record' \in RecordType /\ record'.state \in {record.state, "failed"}
          /\ proj' \in ProjType /\ proj'.status \in {proj.status, "failed"}
      <3>1. Fails(FALSE) \/ (record' = record /\ proj' = proj)
        BY <1>1 DEF Rescue
      <3> QED BY <1>0, <3>1, StageEnds DEF Typed
    <2>3. Typed'
      BY <1>0, <1>1, <2>1, <2>2 DEF Rescue, Typed, JobsTypeOK, Moved
    <2>4. LidarrEffect /\ ReportEffect
      BY <1>1, <2>2, Quiet DEF Rescue, ReportEffect
    <2> QED BY <1>1, <2>1, <2>3, <2>4, StageIsEffect DEF Rescue, Moved, Out, Pre
  <1>3. CASE Copy
    <2>0. Attempt \in Attempts
      BY <1>3, AttemptInRange DEF Copy, Out
    <2>1. Moved(worker', "rescan") \/ Moved(worker', "restoring")
      <3>1. Goto("rescan") => Moved(worker', "rescan")
        BY <1>0, WorkerTypes DEF Typed, Positions
      <3> QED BY <1>0, <1>3, <3>1, StageEnds DEF Copy, Moved
    <2>2. /\ record' \in RecordType /\ record'.state \in {record.state, "failed"}
          /\ proj' \in ProjType /\ proj'.status \in {proj.status, "failed"}
      <3>1. Fails(FALSE) \/ (record' = record /\ proj' = proj)
        BY <1>3 DEF Copy
      <3> QED BY <1>0, <3>1, StageEnds DEF Typed
    <2>5. begun' \in Nat /\ (begun' = begun \/ (jobs[J].cancel /\ begun' = begun + 1))
      <3>1. Mutates \/ begun' = begun
        BY <1>3 DEF Copy
      <3> QED BY <1>0, <3>1 DEF Mutates, is_job_cancel_requested, Typed
    <2>6. lidarr' = lidarr \/ lidarr' = [lidarr EXCEPT !.placed = @ \cup {Attempt}]
      BY <1>3 DEF Copy
    <2>7. /\ lidarr' \in Lidarr /\ lidarr'.cmd = lidarr.cmd
          /\ lidarr'.registered = lidarr.registered
          /\ lidarr'.placed = lidarr.placed \/ lidarr'.placed = lidarr.placed \cup {Attempt}
      BY <1>0, <2>0, <2>6 DEF Typed, Lidarr
    <2>3. Typed'
      BY <1>0, <1>3, <2>1, <2>2, <2>5, <2>7 DEF Copy, Typed, JobsTypeOK, Moved
    <2>4. LidarrEffect /\ ReportEffect
      BY <1>3, <2>1, <2>2, <2>5, <2>7
      DEF Copy, LidarrEffect, ReportEffect, Moved, Places, Out
    <2> QED BY <1>3, <2>1, <2>3, <2>4, StageIsEffect DEF Copy, Moved, Out, Pre
  <1>2. CASE Rescan
    <2>0. PICK found \in BOOLEAN : lidarr' = [lidarr EXCEPT !.registered = @ \/ found]
      BY <1>2 DEF Rescan
    <2>5. /\ lidarr' \in Lidarr /\ lidarr'.cmd = lidarr.cmd
          /\ lidarr'.placed = lidarr.placed
          /\ lidarr.registered => lidarr'.registered
      BY <1>0, <2>0 DEF Typed, Lidarr
    <2>1. Moved(worker', "returned") \/ Moved(worker', "restoring")
      <3>1. Goto("returned") => Moved(worker', "returned")
        BY <1>0, WorkerTypes DEF Typed, Positions
      <3>2. Fails(FALSE) => Moved(worker', "restoring")
        BY <1>0, StageEnds DEF Moved
      <3> QED BY <1>2, <3>1, <3>2 DEF Rescan
    <2>2. /\ record' \in RecordType /\ proj' \in ProjType /\ spent' \in SpentType
          /\ \/ /\ record'.state \in {record.state, "failed"}
                /\ proj'.status \in {proj.status, "failed"}
             \/ /\ lidarr'.registered \/ config.had
                /\ record'.state \in {record.state, "rescued"}
      <3>1. spent' \in SpentType
        BY <1>0, <1>2, SpentUpdates DEF Rescan, Typed
      <3>2. CASE Fails(FALSE)
        BY <1>0, <3>1, <3>2, StageEnds
      <3>3. CASE proj' = [proj EXCEPT !.hidden = TRUE] /\ record' = record
        BY <1>0, <3>1, <3>3, ProjUpdates DEF Typed
      <3>4. CASE /\ lidarr'.registered \/ config.had
                 /\ WriteRecord("rescued", worker.dir)
                 /\ _mark_import_completed(worker.dir)
        <4>1. record' \in RecordType /\ record'.state \in {record.state, "rescued"}
          BY <1>0, <3>4, RecordUpdates, WorkerTypes DEF Typed, RecordStates
        <4>2. proj' \in ProjType
          BY <1>0, <3>4, ProjUpdates, WorkerTypes DEF Typed
        <4> QED BY <3>1, <3>4, <4>1, <4>2
      <3> QED BY <1>2, <3>2, <3>3, <3>4 DEF Rescan
    <2>3. Typed'
      BY <1>0, <1>2, <2>1, <2>2, <2>5 DEF Rescan, Typed, JobsTypeOK, Moved
    <2>4. LidarrEffect /\ ReportEffect
      BY <1>2, <2>2, <2>5 DEF Rescan, LidarrEffect, ReportEffect
    <2> QED BY <1>2, <2>1, <2>3, <2>4, StageIsEffect DEF Rescan, Moved, Out, Pre
  <1> QED BY <1>1, <1>2, <1>3

LEMMA EndingEffects ==
    ASSUME IInv, Restore \/ _cleanup_lidarr_queue
    PROVE  Effect
  <1> USE DEF At
  <1>0. Typed
    BY DEF IInv
  <1>1. CASE Restore
    <2>1. Moved(worker', "restoring") \/ Moved(worker', "cleanup") \/ Moved(worker', "returned")
      <3>1. \A a \in worker.applied : a \in Albums
        BY <1>0 DEF Typed, Worker
      <3>2. Goto(worker.after) => Moved(worker', worker.after)
        BY <1>0, WorkerTypes DEF Typed, Positions
      <3> QED BY <1>0, <1>1, <3>1, <3>2, WorkerUpdates, WorkerTypes DEF Restore, Typed
    <2>2. spent' \in SpentType
      BY <1>0, <1>1, SpentUpdates DEF Restore, Typed
    <2>5. /\ lidarr' \in Lidarr /\ lidarr'.cmd = lidarr.cmd
          /\ lidarr'.placed = lidarr.placed /\ lidarr'.registered = lidarr.registered
      BY <1>0, <1>1 DEF Restore, Typed, Lidarr
    <2>3. Typed'
      BY <1>0, <1>1, <2>1, <2>2, <2>5 DEF Restore, Typed, JobsTypeOK, Moved
    <2>4. LidarrEffect /\ ReportEffect
      BY <1>1, <2>5 DEF Restore, LidarrEffect, ReportEffect
    <2> QED BY <1>1, <2>1, <2>3, <2>4, StageIsEffect DEF Restore, Moved, Out, Pre
  <1>2. CASE _cleanup_lidarr_queue
    <2>1. Moved(worker', "returned")
      BY <1>0, <1>2, WorkerTypes DEF _cleanup_lidarr_queue, Typed, Positions
    <2>2. /\ spent' \in SpentType
          /\ proj' \in ProjType /\ proj'.status = proj.status
      <3>1. spent' \in SpentType
        BY <1>0, <1>2, SpentUpdates DEF _cleanup_lidarr_queue, Typed
      <3> QED BY <1>0, <1>2, <3>1, ProjUpdates DEF _cleanup_lidarr_queue, Typed
    <2>5. /\ lidarr' \in Lidarr /\ lidarr'.cmd = lidarr.cmd
          /\ lidarr'.placed = lidarr.placed /\ lidarr'.registered = lidarr.registered
      BY <1>0, <1>2 DEF _cleanup_lidarr_queue, Typed, Lidarr
    <2>3. Typed'
      BY <1>0, <1>2, <2>1, <2>2, <2>5 DEF _cleanup_lidarr_queue, Typed, JobsTypeOK, Moved
    <2>4. LidarrEffect /\ ReportEffect
      BY <1>2, <2>2, <2>5 DEF _cleanup_lidarr_queue, LidarrEffect, ReportEffect
    <2> QED BY <1>2, <2>1, <2>3, <2>4, StageIsEffect DEF _cleanup_lidarr_queue, Moved, Out, Pre
  <1> QED BY <1>1, <1>2

\* The worker takes the job, gives its verdict, crashes or boots.
LEMMA WorkerEffects ==
    ASSUME IInv, Claim \/ Start \/ Return \/ Raise \/ Cancelled \/ Crash \/ Boot
    PROVE  Effect
  <1> USE DEF At
  <1>0. /\ Typed /\ jobs[J].key = Key /\ J \in JobIds
        /\ Moved(WorkerAt("idle"), "idle") /\ Moved(WorkerAt("down"), "down")
    BY Constants, WorkerTypes DEF IInv, Budget, Typed, Positions
  <1>1. CASE Claim
    <2>1. Moved(worker', "claimed")
      BY <1>0, <1>1, WorkerTypes DEF Claim, Typed, Positions
    <2>2. JobsTypeOK'
      BY <1>0, <1>1, UpdateTypes DEF Claim, Typed
    <2>3. Typed'
      BY <1>0, <1>1, <2>1, <2>2 DEF Claim, Typed, Moved
    <2>4. JobEffect
      BY <1>0, <1>1, <2>1, RowEffects DEF Claim, JobEffect, Claims, Moved, Typed
    <2> QED BY <1>1, <2>3, <2>4, Quiet DEF Claim, Effect, ReportEffect
  <1>2. CASE Start
    <2>1. CASE is_job_cancel_requested(J)
      <3>1. mark_job_cancelled(J) /\ worker' = WorkerAt("idle") /\ proj' = proj
        BY <1>2, <2>1 DEF Start
      <3>2. JobsTypeOK'
        BY <1>0, <3>1, UpdateTypes DEF Typed
      <3>3. Typed'
        BY <1>0, <1>2, <3>1, <3>2 DEF Start, Typed, Moved
      <3>4. JobEffect
        BY <1>0, <1>2, <3>1, RowEffects
        DEF Start, JobEffect, Leaves, Moved, Out, mark_job_cancelled, Typed
      <3> QED BY <1>2, <3>1, <3>3, <3>4, Quiet DEF Start, Effect, ReportEffect
    <2>2. CASE ~is_job_cancel_requested(J)
      <3>1. Status("downloading") /\ Moved(worker', "download") /\ jobs' = jobs
        BY <1>0, <1>2, <2>2, WorkerTypes DEF Start, Typed, Positions
      <3>2. proj' \in ProjType /\ proj'.status = "downloading"
        BY <1>0, <3>1, ProjUpdates DEF Typed, Statuses
      <3>3. Typed'
        BY <1>0, <1>2, <3>1, <3>2 DEF Start, Typed, Moved, JobsTypeOK
      <3>4. LidarrEffect /\ ReportEffect
        BY <1>2, <3>2, Quiet DEF Start, ReportEffect
      <3> QED BY <1>2, <3>1, <3>3, <3>4, StageIsEffect DEF Start, Moved, Out, Pre
    <2> QED BY <2>1, <2>2
  <1>3. CASE Return
    <2>1. CASE mark_job_completed(J) /\ worker' = WorkerAt("idle")
      <3>1. JobsTypeOK'
        BY <1>0, <2>1, UpdateTypes DEF Typed
      <3>2. Typed'
        BY <1>0, <1>3, <2>1, <3>1 DEF Return, Typed, Moved
      <3>3. JobEffect
        BY <1>0, <2>1, RowEffects
        DEF JobEffect, Leaves, Moved, Out, mark_job_completed, Typed
      <3> QED BY <1>3, <3>2, <3>3, Quiet DEF Return, Effect, ReportEffect
    <2>2. CASE Goto("raised") /\ jobs' = jobs
      <3>1. Moved(worker', "raised")
        BY <1>0, <2>2, WorkerTypes DEF Typed, Positions
      <3>2. Typed'
        BY <1>0, <1>3, <2>2, <3>1 DEF Return, Typed, Moved, JobsTypeOK
      <3>3. LidarrEffect /\ ReportEffect
        BY <1>3, Quiet DEF Return, ReportEffect
      <3> QED BY <1>3, <2>2, <3>1, <3>2, <3>3, StageIsEffect DEF Return, Moved, Out, Pre
    <2> QED BY <1>3, <2>1, <2>2 DEF Return
  <1>4. CASE Raise \/ Cancelled
    <2>1. schedule_job_retry(J) \/ MarkJob(J, "failed")
          \/ (MarkJob(J, "cancelled") /\ worker.pc = "cancelled")
      BY <1>4 DEF Raise, Cancelled, mark_job_failed, mark_job_cancelled
    <2>2. JobsTypeOK'
      BY <1>0, <2>1, UpdateTypes DEF Typed, mark_job_failed, mark_job_cancelled
    <2>3. Typed'
      BY <1>0, <1>4, <2>2 DEF Raise, Cancelled, Typed, Moved
    <2>4. JobEffect
      BY <1>0, <1>4, <2>1, RowEffects DEF Raise, Cancelled, JobEffect, Leaves, Moved, Out, Typed
    <2> QED BY <1>4, <2>3, <2>4, Quiet DEF Raise, Cancelled, Effect, ReportEffect
  <1>5. CASE Crash
    <2>0. /\ disk' \in DiskType
          /\ record' \in RecordType /\ record'.state \in {record.state, "none"}
      BY <1>0, <1>5, CutShortTypes DEF Crash, Typed
    <2>3. proj' \in ProjType /\ proj'.status \in {proj.status, "lost"}
      <3>1. proj' = proj \/ proj' = LostProjection
        BY <1>5 DEF Crash
      <3>2. LostProjection \in ProjType /\ LostProjection.status = "lost"
        BY DEF LostProjection, ProjType, Statuses
      <3> QED BY <1>0, <3>1, <3>2 DEF Typed
    <2>1. Typed'
      BY <1>0, <1>5, <2>0, <2>3, SpentUpdates DEF Crash, Typed, Moved, JobsTypeOK
    <2>2. JobEffect
      BY <1>0, <1>5 DEF Crash, JobEffect, Leaves, Moved, Out, Attempt
    <2> QED BY <1>5, <2>0, <2>1, <2>2, <2>3, Quiet DEF Crash, Effect, ReportEffect
  <1>6. CASE Boot
    <2>1. JobsTypeOK'
      BY <1>0, <1>6, RecoverTypes DEF Boot, Typed
    <2>2. proj' \in ProjType /\ proj'.status \in {proj.status, "failed"}
      BY <1>0, <1>6, ProjUpdates DEF Boot, Typed, Statuses
    <2>3. Typed'
      BY <1>0, <1>6, <2>1, <2>2 DEF Boot, Typed, Moved
    <2>4. JobEffect
      BY <1>0, <1>6, RowEffects DEF Boot, JobEffect, Leaves, Moved, Out, Typed
    <2> QED BY <1>6, <2>2, <2>3, <2>4, Quiet DEF Boot, Effect, ReportEffect
  <1> QED BY <1>1, <1>2, <1>3, <1>4, <1>5, <1>6

\* The operator, Lidarr, the reconciling request and the clock.
LEMMA OutsideEffects ==
    ASSUME IInv,
           \/ RequestCancel \/ Reconcile \/ ReconcileGone \/ RetryFallsDue
           \/ \E a \in Attempts : LidarrRuns(a)
           \/ UNCHANGED vars
    PROVE  Effect
  <1>0. Typed /\ jobs[J].key = Key /\ J \in JobIds
    BY Constants DEF IInv, Budget
  <1>1. CASE RequestCancel
    <2>1. JobsTypeOK'
      BY <1>0, <1>1, UpdateTypes DEF RequestCancel, Typed
    <2>2. Typed'
      BY <1>0, <1>1, <2>1, SpentUpdates DEF RequestCancel, Typed
    <2>3. JobEffect
      BY <1>0, <1>1, RowEffects DEF RequestCancel, JobEffect, Beside, Typed
    <2> QED BY <1>1, <2>2, <2>3, Quiet DEF RequestCancel, Effect, ReportEffect
  <1>2. CASE RetryFallsDue
    <2>1. JobsTypeOK'
      BY <1>0, <1>2, UpdateTypes DEF RetryFallsDue, Typed
    <2>2. Typed'
      BY <1>0, <1>2, <2>1 DEF RetryFallsDue, Typed
    <2>3. JobEffect
      BY <1>0, <1>2, RowEffects DEF RetryFallsDue, JobEffect, Beside, Typed
    <2> QED BY <1>2, <2>2, <2>3, Quiet DEF RetryFallsDue, Effect, ReportEffect
  <1>3. CASE Reconcile
    <2>1. spent' \in SpentType /\ http' \in {"idle", "counted"}
      BY <1>0, <1>3, SpentUpdates DEF Reconcile, Typed
    <2>2. /\ record' \in RecordType /\ proj' \in ProjType
          /\ \/ record' = record /\ proj' = proj
             \/ (Imported \/ config.had) /\ record'.state = "imported"
      <3>1. CASE record' = record /\ proj' = proj
        BY <1>0, <3>1 DEF Typed
      <3>2. CASE /\ Imported \/ config.had
                 /\ record' = [record EXCEPT !.state = "imported"]
                 /\ _mark_import_completed(OutputDir)
        <4>1. record' \in RecordType /\ record'.state = "imported"
          BY <1>0, <3>2, RecordUpdates DEF Typed, RecordStates
        <4>2. proj' \in ProjType
          BY <1>0, <3>2, ProjUpdates DEF Typed, OutputDir
        <4> QED BY <3>2, <4>1, <4>2
      <3> QED BY <1>3, <3>1, <3>2 DEF Reconcile
    <2>3. Typed'
      BY <1>0, <1>3, <2>1, <2>2 DEF Reconcile, Typed, JobsTypeOK
    <2>4. JobEffect
      BY <1>3 DEF Reconcile, JobEffect, Beside, Attempt
    <2>5. ReportEffect
      BY <1>3, <2>2 DEF Reconcile, ReportEffect
    <2> QED BY <1>3, <2>3, <2>4, <2>5, Quiet DEF Reconcile, Effect
  <1>4. CASE ReconcileGone
    <2>1. /\ record' \in RecordType /\ record'.state \in {record.state, "failed"}
          /\ proj' \in ProjType /\ proj'.status \in {proj.status, "failed"}
      <3>1. \/ record' = record /\ proj' = proj
            \/ record' = [record EXCEPT !.state = "failed"] /\ _mark_import_failed
        BY <1>4 DEF ReconcileGone
      <3> QED BY <1>0, <3>1, RecordUpdates, ProjUpdates DEF Typed, RecordStates
    <2>2. /\ lidarr' \in Lidarr /\ lidarr'.cmd = lidarr.cmd
          /\ lidarr'.placed = lidarr.placed /\ lidarr'.registered = lidarr.registered
      <3>1. lidarr' = lidarr \/ lidarr' = [lidarr EXCEPT !.queue = FALSE]
        BY <1>4 DEF ReconcileGone
      <3> QED BY <1>0, <3>1 DEF Typed, Lidarr
    <2>3. Typed'
      BY <1>0, <1>4, <2>1, <2>2 DEF ReconcileGone, Typed, JobsTypeOK
    <2>4. JobEffect
      BY <1>4 DEF ReconcileGone, JobEffect, Beside, Attempt
    <2>5. LidarrEffect /\ ReportEffect
      BY <1>4, <2>1, <2>2 DEF ReconcileGone, LidarrEffect, ReportEffect
    <2> QED BY <2>3, <2>4, <2>5 DEF Effect
  <1>5. ASSUME NEW a \in Attempts, LidarrRuns(a)
        PROVE  Effect
    <2>1. PICK c \in {"imported", "refused"} : lidarr' = [lidarr EXCEPT !.cmd[a] = c]
      BY <1>5 DEF LidarrRuns
    <2>2. lidarr' \in Lidarr
      BY <1>0, <2>1, LidarrUpdates DEF Typed
    <2>3. /\ lidarr'.cmd = [lidarr.cmd EXCEPT ![a] = c]
          /\ lidarr'.placed = lidarr.placed /\ lidarr'.registered = lidarr.registered
      BY <1>0, <2>1 DEF Typed, Lidarr
    <2>4. disk' \in DiskType
      BY <1>0, <1>5, DiskUpdates DEF LidarrRuns, Typed
    <2>5. Typed'
      BY <1>0, <1>5, <2>2, <2>4 DEF LidarrRuns, Typed, JobsTypeOK
    <2>6. JobEffect
      BY <1>5 DEF LidarrRuns, JobEffect, Beside, Attempt
    <2>7. LidarrEffect /\ ReportEffect
      BY <1>5, <2>3 DEF LidarrRuns, LidarrEffect, ReportEffect, CarriesOut
    <2> QED BY <2>5, <2>6, <2>7 DEF Effect
  <1>6. CASE UNCHANGED vars
    BY <1>0, <1>6, Quiet
    DEF vars, Effect, Typed, JobsTypeOK, JobEffect, Beside, Attempt, ReportEffect
  <1> QED BY <1>1, <1>2, <1>3, <1>4, <1>5, <1>6

-----------------------------------------------------------------------------
(* The theorems *)

LEMMA InitIInv == Init => IInv
  <1> SUFFICES ASSUME Init PROVE IInv
    OBVIOUS
  <1> USE Constants
  <1>1. InsertedRow(Key) \in JobRow /\ jobs[J] = InsertedRow(Key)
    BY NewRowTypes DEF Init
  <1>2. jobs[J].key = Key /\ Attempt = 0 /\ jobs[J].state = "queued" /\ ~jobs[J].cancel
    BY <1>1 DEF InsertedRow, Attempt
  <1>3. Moved(worker, "idle")
    BY DEF Init, WorkerAt, Moved, Worker, Positions
  <1>4. lidarr \in Lidarr /\ lidarr.cmd = [a \in Attempts |-> "none"] /\ lidarr.placed = {}
    BY DEF Init, Lidarr
  <1>5. record \in RecordType /\ record.state = "none"
    BY DEF Init, NoRecord, RecordType, RecordStates
  <1>6. proj \in ProjType /\ proj.status = "queued"
    BY DEF Init, ProjType, Statuses
  <1>7. /\ JobsTypeOK /\ http \in {"idle", "counted"} /\ disk \in DiskType
        /\ config \in ConfigType /\ spent \in SpentType /\ begun = 0
    BY <1>1, ImportFlowAssumption
    DEF Init, JobsTypeOK, DiskType, ConfigType, SpentType
  <1>8. Typed
    BY <1>3, <1>4, <1>5, <1>6, <1>7 DEF Typed, Moved
  <1>9. Budget /\ Owned /\ OneLate /\ SuccessIsReal
    BY <1>2, <1>3, <1>5, <1>6, <1>7 DEF Budget, Owned, OneLate, SuccessIsReal, Moved, Out
  <1>10. Fresh
    BY <1>2, <1>3, <1>4 DEF Fresh, Untouched, Moved, Pre
  <1> QED BY <1>8, <1>9, <1>10 DEF IInv

LEMMA NextIInv == IInv /\ [Next]_vars => IInv'
  <1> SUFFICES ASSUME IInv, [Next]_vars PROVE Effect
    BY EffectKeepsIInv
  <1>1. CASE Pipeline
    BY <1>1, PreparationEffects, PolicyEffects, SwitchEffect, ImportEffects, RescueEffects,
       EndingEffects, WorkerEffects DEF Pipeline
  <1>2. CASE Crash \/ Boot
    BY <1>2, WorkerEffects
  <1>3. CASE RequestCancel \/ Reconcile \/ ReconcileGone \/ RetryFallsDue
             \/ (\E a \in Attempts : LidarrRuns(a)) \/ UNCHANGED vars
    BY <1>3, OutsideEffects
  <1> QED BY <1>1, <1>2, <1>3 DEF Next

LEMMA Inductive == Spec => []IInv
  BY InitIInv, NextIInv, PTL DEF Spec

\* Every step of the pipeline, of Lidarr and of the requests beside them keeps
\* the types; that a rescue and a command name a legal attempt rests on the
\* claim never exceeding max_attempts.
THEOREM ImportTypeCorrect == Spec => []TypeOK
  <1>1. IInv => TypeOK
    BY TypeParts DEF IInv
  <1> QED BY <1>1, Inductive, PTL

\* A cancelled job: at most one library mutation begins after the request, and
\* a job that ends as cancelled has left neither a command nor a copied file
\* in its last attempt, for any number of attempts, crashes, failures and
\* cancellations (the gates of _trigger_lidarr_import and of the rescue).
THEOREM CancelIsHonoured == Spec => []CancelStopsImport
  <1>1. IInv => CancelStopsImport
    BY DEF IInv, Fresh, OneLate, Untouched, CancelStopsImport
  <1> QED BY <1>1, Inductive, PTL

\* Nothing is reported as imported, rescued or completed unless Lidarr carried
\* a command out or the rescan found the files (or the album was in the library
\* before), however the crashes, failed polls and late imports fall.
THEOREM ReportedSuccessIsReal == Spec => []SuccessIsReal
  <1>1. IInv => SuccessIsReal
    BY DEF IInv
  <1> QED BY <1>1, Inductive, PTL

-----------------------------------------------------------------------------
(* The second invariant: while nothing crashed and no request failed.      *)
(* It says where the switched releases, the traces of earlier attempts and *)
(* a pending import can be, and rests on the first.                        *)

Early == {"claimed", "download", "normalise", "prepare", "entry", "policy"}
Midway == {"switch", "gate", "post", "wait", "pending", "rescue", "copy",
           "rescan"}

\* The album is reported as imported, or its files were placed and nothing
\* says otherwise.
Reported == \/ proj.status = "completed"
            \/ proj.status = "processing" /\ Attempt \in lidarr.placed

\* What the worker's locals say at each position.
Fitting ==
    /\ worker.pc # "down"
    /\ worker.pc \in Out \cup Early \cup Midway => ~worker.transient
    /\ worker.pc \in Out \cup Early => worker.applied = {}

\* Only the current attempt may have touched Lidarr, and one that has is not
\* tried again.
Sole ==
    /\ \A a \in Attempts : a < Attempt => Untouched(a)
    /\ Attempt \in Attempts /\ ~Untouched(Attempt) =>
           jobs[J].state # "queued" /\ ~worker.transient

\* The switched releases are the ones the worker remembers until they are
\* restored; they stay only with a release that is reported.
Undone ==
    /\ worker.pc \in Early \cup Midway \cup {"restoring"} =>
           lidarr.switched = worker.applied
    /\ worker.pc \in Midway \cup {"entry", "policy"} => proj.status = "processing"
    /\ worker.pc = "rescan" => Attempt \in lidarr.placed
    /\ worker.pc \in {"cleanup", "raised"} => lidarr.switched = {}
    /\ worker.pc = "returned" /\ lidarr.switched # {} => Reported
    /\ worker.pc = "idle" /\ lidarr.switched # {} /\ jobs[J].state # "cancelled" =>
           Reported /\ jobs[J].state # "queued"

\* An import left pending, or being reconciled, belongs to an attempt that
\* sent its command and is past it.
Late ==
    http = "counted" \/ record.state = "pending" =>
        /\ Attempt \in Attempts /\ ~Untouched(Attempt)
        /\ worker.pc \in {"idle", "restoring", "cleanup", "returned", "raised"}
        /\ lidarr.switched # {} => worker.pc = "restoring"

Steady == Fitting /\ Sole /\ Undone /\ Late
Calm == Unharmed => Steady

\* A request that fails does harm, and harm stays.
LEMMA FailureHarms == Typed /\ Failure => ~Unharmed'
  BY ImportFlowAssumption DEF Typed, SpentType, Failure, Unharmed

LEMMA CrashHarms == Typed /\ Crash => ~Unharmed'
  BY ImportFlowAssumption DEF Typed, SpentType, Crash, Unharmed

LEMMA HarmStays ==
    ASSUME Typed, [Next]_vars, Unharmed'
    PROVE  Unharmed
  <1>1. \/ spent' = spent
        \/ Failure
        \/ Crash
        \/ spent' = [spent EXCEPT !.cancels = @ + 1]
    <2>1. CASE Pipeline
      BY <2>1 DEF Pipeline, Claim, Start, Download, Normalise, Prepare, Enter, Block,
         _create_review_required, Accept, Switch, Lookup, Gate, Post, Wait, CheckPending,
         Rescue, Copy, Rescan, Restore, _cleanup_lidarr_queue, Return, Raise, Cancelled, Works
    <2>2. CASE ~Pipeline
      BY <2>2 DEF Next, vars, RequestCancel, Reconcile, ReconcileGone, LidarrRuns, Boot,
         RetryFallsDue, Works
    <2> QED BY <2>1, <2>2
  <1>2. spent' = [spent EXCEPT !.cancels = @ + 1] => Unharmed
    BY DEF Typed, SpentType, Unharmed
  <1> QED BY <1>1, <1>2, FailureHarms, CrashHarms DEF Unharmed

\* Where a pipeline under way finds the job and a pending import.
LEMMA UnderWay ==
    ASSUME IInv, Steady, worker.pc \notin Out
    PROVE  /\ jobs[J].state \in {"running", "cancelling"}
           /\ Attempt \in Attempts
           /\ worker.pc \in Early \cup Midway =>
                 ~worker.transient /\ http # "counted" /\ record.state # "pending"
           /\ worker.pc \in Early => lidarr.switched = {}
           /\ worker.pc \in Early \cup {"switch", "gate"} => Untouched(Attempt)
  BY AttemptInRange
  DEF IInv, Owned, Fresh, Pre, Steady, Fitting, Undone, Late, Early, Midway

Before == \/ Start /\ ~is_job_cancel_requested(J)
          \/ Download \/ Normalise \/ Prepare \/ Enter
          \/ Block \/ _create_review_required \/ Accept

\* Up to the decision to import nothing of Lidarr is touched.
LEMMA BeforeKeepsSteady ==
    ASSUME IInv, Steady, Unharmed', Before
    PROVE  Steady'
  <1> USE DEF At
  <1>0. Typed /\ ~Failure
    BY FailureHarms DEF IInv
  <1>1. /\ worker.pc \in Early
        /\ jobs' = jobs /\ lidarr' = lidarr /\ http' = http
    BY DEF Before, Start, Download, Normalise, Prepare, Enter, Block,
       _create_review_required, Accept, Early
  <1>2. /\ worker.pc \notin Out
        /\ ~worker.transient /\ worker.applied = {} /\ lidarr.switched = {}
        /\ http # "counted" /\ record.state # "pending" /\ Untouched(Attempt)
        /\ worker.pc \in {"entry", "policy"} => proj.status = "processing"
    BY <1>1, UnderWay DEF Early, Out, Steady, Fitting, Undone
  <1>3. /\ worker'.applied = worker.applied
        /\ worker'.pc \in Early \cup {"switch", "cancelled", "raised", "cleanup", "returned"}
        /\ worker'.pc \in Early \cup {"switch"} => worker'.transient = worker.transient
        /\ worker'.pc # "claimed"
    <2>1. \A p \in Positions : Goto(p) =>
             /\ worker'.pc = p /\ worker'.applied = worker.applied
             /\ worker'.transient = worker.transient
      BY <1>0 DEF Typed, Worker, Goto
    <2>2. \A c \in BOOLEAN : Cancel(c) =>
             worker'.pc = "cancelled" /\ worker'.applied = worker.applied
      BY <2>1 DEF Cancel, Positions
    <2>3. \A t \in BOOLEAN, p \in {"raised", "cleanup"} :
             worker' = [worker EXCEPT !.pc = p, !.transient = t] =>
                worker'.pc = p /\ worker'.applied = worker.applied
      BY <1>0 DEF Typed, Worker
    <2>4. CASE (Start /\ ~is_job_cancel_requested(J)) \/ Normalise \/ Enter
               \/ _create_review_required
      BY <2>1, <2>2, <2>4 DEF Start, Normalise, Enter, _create_review_required, Early, Positions
    <2>5. CASE Download \/ Block
      BY <2>1, <2>2, <2>3, <2>5 DEF Download, Block, Early, Positions
    <2>6. CASE Prepare
      <3>1. CASE Cancel(TRUE)
        BY <2>2, <3>1 DEF Early
      <3>2. CASE worker' = [worker EXCEPT !.pc = "entry", !.dir = "out"]
        BY <1>0, <3>2 DEF Typed, Worker, Early
      <3>3. Cancel(TRUE) \/ worker' = [worker EXCEPT !.pc = "entry", !.dir = "out"]
        BY <1>0, <2>6 DEF Prepare
      <3> QED BY <3>1, <3>2, <3>3
    <2>7. CASE Accept
      BY <1>0, <2>7 DEF Accept, Typed, Worker, Early
    <2> QED BY <2>4, <2>5, <2>6, <2>7 DEF Before
  <1>4. record'.state # "pending"
    <2>1. \A c \in BOOLEAN : Cancel(c) => record'.state \in {record.state, "none"}
      BY <1>0, StageEnds
    <2>2. \A s \in {"blocked", "review"} : \A at \in {"archive", worker.dir} :
             WriteRecord(s, at) => record'.state \in {record.state, s}
      BY <1>0, RecordUpdates, WorkerTypes DEF Typed, RecordStates
    <2>3. /\ Without("out").state \in {record.state, "none"}
          /\ [record EXCEPT !.at = "out"].state = record.state
      BY <1>0, RecordUpdates DEF Typed
    <2> QED BY <1>0, <1>2, <2>1, <2>2, <2>3 DEF Before, Start, Download, Normalise, Prepare,
            Enter, Block, _create_review_required, Accept
  <1>5. worker'.pc \in {"entry", "policy", "switch"} => proj'.status = "processing"
    <2>1. [proj EXCEPT !.status = "processing", !.dir = "out"].status = "processing"
      BY <1>0, ProjUpdates DEF Typed
    <2>2. \A p \in Positions : Goto(p) => worker'.pc = p
      BY <1>0 DEF Typed, Worker, Goto
    <2>3. \A c \in BOOLEAN : Cancel(c) => worker'.pc = "cancelled"
      BY <2>2 DEF Cancel, Positions
    <2>4. CASE Prepare
      BY <1>0, <2>1, <2>3, <2>4 DEF Prepare
    <2>5. CASE Enter \/ Normalise
      <3>1. Status("processing") => proj'.status = "processing"
        BY <1>0, ProjUpdates DEF Typed, Statuses
      <3>2. "prepare" \in Positions /\ "policy" \in Positions /\ "returned" \in Positions
        BY DEF Positions
      <3>3. CASE Normalise
        BY <2>2, <2>3, <3>2, <3>3 DEF Normalise
      <3>4. CASE Enter
        BY <1>2, <2>2, <2>3, <3>2, <3>4 DEF Enter
      <3> QED BY <2>5, <3>3, <3>4
    <2>6. CASE Download \/ Block \/ _create_review_required
               \/ (Start /\ ~is_job_cancel_requested(J))
      BY <1>0, <2>2, <2>3, <2>6
      DEF Download, Block, _create_review_required, Start, Positions, Typed, Worker
    <2>7. CASE Accept
      BY <1>2, <2>7 DEF Accept
    <2> QED BY <2>4, <2>5, <2>6, <2>7 DEF Before
  <1>6. Fitting' /\ Late'
    BY <1>1, <1>2, <1>3, <1>4 DEF Fitting, Late, Out, Early, Midway
  <1>7. Sole'
    BY <1>1, <1>2 DEF Steady, Sole, Attempt, Untouched
  <1>8. Undone'
    BY <1>1, <1>2, <1>3, <1>5 DEF Undone, Early, Midway
  <1> QED BY <1>6, <1>7, <1>8 DEF Steady

\* A stage of the import that touches at most the current attempt, leaves no
\* import pending without its command and may fail as transient only while
\* the attempt is untouched.
LEMMA MidwayKeepsSteady ==
    ASSUME IInv, Steady, worker.pc \in Midway,
           jobs' = jobs, http' = http,
           worker'.pc \in Midway \cup {"cancelled", "restoring", "returned"},
           lidarr'.placed \subseteq lidarr.placed \cup {Attempt},
           \A a \in Attempts \ {Attempt} : lidarr'.cmd[a] = lidarr.cmd[a],
           worker'.transient => /\ worker'.pc \notin Midway
                                /\ lidarr'.cmd[Attempt] = "none" /\ Attempt \notin lidarr'.placed,
           record'.state = "pending" => /\ lidarr'.cmd[Attempt] # "none"
                                        /\ worker'.pc = "restoring",
           Undone'
    PROVE  Steady'
  <1>1. /\ jobs[J].state \in {"running", "cancelling"} /\ http # "counted"
        /\ Attempt \in Attempts /\ Attempt' = Attempt
    BY UnderWay DEF Midway, Out, Attempt
  <1>2. Fitting'
    BY DEF Fitting, Out, Early, Midway
  <1>3. Sole'
    <2>1. Attempt \in Nat /\ Attempts \subseteq Nat
      BY <1>1, Constants
    <2>2. \A a \in Attempts : a < Attempt => Untouched(a)'
      BY <2>1 DEF Steady, Sole, Untouched
    <2> QED BY <1>1, <2>2 DEF Sole, Untouched
  <1>4. Late'
    BY <1>1 DEF Late, Untouched
  <1> QED BY <1>2, <1>3, <1>4 DEF Steady

\* The worker's fields after the steps of the import.
LEMMA MidwayMoves ==
    ASSUME Typed
    PROVE  /\ \A p \in Positions : Goto(p) =>
                 /\ worker'.pc = p /\ worker'.applied = worker.applied
                 /\ worker'.transient = worker.transient
           /\ \A t \in BOOLEAN : Fails(t) =>
                 /\ worker'.pc = "restoring" /\ worker'.applied = worker.applied
                 /\ worker'.transient = t
                 /\ record'.state \in {record.state, "failed"}
           /\ Cancel(FALSE) =>
                 /\ worker'.pc = "cancelled" /\ worker'.applied = worker.applied
                 /\ worker'.transient = worker.transient
                 /\ record' = record
           /\ \A z \in BOOLEAN : worker' = [worker EXCEPT !.pc = "rescue", !.zero = z] =>
                 /\ worker'.pc = "rescue" /\ worker'.applied = worker.applied
                 /\ worker'.transient = worker.transient
           /\ worker' = [worker EXCEPT !.pc = "restoring", !.after = "returned"] =>
                 /\ worker'.pc = "restoring" /\ worker'.applied = worker.applied
                 /\ worker'.transient = worker.transient
           /\ \A d : _mark_import_completed(d) => proj'.status = "completed"
  <1>1. \A p \in Positions : Goto(p) =>
           /\ worker'.pc = p /\ worker'.applied = worker.applied
           /\ worker'.transient = worker.transient
    BY DEF Typed, Worker, Goto
  <1>2. \A t \in BOOLEAN : Fails(t) =>
           /\ worker'.pc = "restoring" /\ worker'.applied = worker.applied
           /\ worker'.transient = t
           /\ record'.state \in {record.state, "failed"}
    <2>1. \A t \in BOOLEAN : Fails(t) => record'.state \in {record.state, "failed"}
      BY StageEnds
    <2>2. \A t \in BOOLEAN : Fails(t) =>
             /\ worker'.pc = "restoring" /\ worker'.applied = worker.applied
             /\ worker'.transient = t
      BY DEF Typed, Worker, Fails
    <2> QED BY <2>1, <2>2
  <1>3. Cancel(FALSE) =>
           /\ worker'.pc = "cancelled" /\ worker'.applied = worker.applied
           /\ worker'.transient = worker.transient
           /\ record' = record
    BY <1>1 DEF Cancel, Positions
  <1>4. /\ \A z \in BOOLEAN : worker' = [worker EXCEPT !.pc = "rescue", !.zero = z] =>
              /\ worker'.pc = "rescue" /\ worker'.applied = worker.applied
              /\ worker'.transient = worker.transient
        /\ worker' = [worker EXCEPT !.pc = "restoring", !.after = "returned"] =>
              /\ worker'.pc = "restoring" /\ worker'.applied = worker.applied
              /\ worker'.transient = worker.transient
    BY DEF Typed, Worker
  <1>5. \A d : _mark_import_completed(d) => proj'.status = "completed"
    BY DEF Typed, ProjType, _mark_import_completed
  <1> QED BY <1>1, <1>2, <1>3, <1>4, <1>5

LEMMA SwitchKeepsSteady ==
    ASSUME IInv, Steady, Unharmed', NEW a \in Albums, Switch(a)
    PROVE  Steady'
  <1> USE DEF At
  <1>0. Typed /\ ~Failure
    BY FailureHarms DEF IInv
  <1>1. /\ worker.pc = "switch" /\ worker.pc \in Midway
        /\ jobs' = jobs /\ http' = http /\ record' = record /\ proj' = proj
    BY DEF Switch, Midway
  <1>2. /\ ~worker.transient /\ record.state # "pending"
        /\ proj.status = "processing" /\ lidarr.switched = worker.applied
    BY <1>1, UnderWay DEF Steady, Undone, Midway, Out
  <1>3. /\ worker'.pc = "switch" /\ worker'.transient = worker.transient
        /\ lidarr'.cmd = lidarr.cmd /\ lidarr'.placed = lidarr.placed
        /\ lidarr'.switched = worker'.applied
    <2>1. CASE /\ lidarr' = [lidarr EXCEPT !.switched = @ \cup {a}]
               /\ worker' = [worker EXCEPT !.todo = @ \ {a}, !.applied = @ \cup {a}]
      <3>1. /\ lidarr'.cmd = lidarr.cmd /\ lidarr'.placed = lidarr.placed
            /\ lidarr'.switched = lidarr.switched \cup {a}
        BY <1>0, <2>1 DEF Typed, Lidarr
      <3>2. /\ worker'.pc = worker.pc /\ worker'.transient = worker.transient
            /\ worker'.applied = worker.applied \cup {a}
        BY <1>0, <2>1 DEF Typed, Worker
      <3> QED BY <1>1, <1>2, <3>1, <3>2
    <2>2. CASE worker' = [worker EXCEPT !.todo = @ \ {a}] /\ lidarr' = lidarr
      BY <1>0, <1>1, <1>2, <2>2 DEF Typed, Worker
    <2> QED BY <1>0, <2>1, <2>2 DEF Switch
  <1>4. Undone'
    BY <1>1, <1>2, <1>3 DEF Undone, Midway
  <1> QED BY <1>1, <1>2, <1>3, <1>4, MidwayKeepsSteady DEF Midway

\* What holds when a step of the import starts.
LEMMA MidwayStart ==
    ASSUME IInv, Steady, worker.pc \in Midway
    PROVE  /\ ~worker.transient /\ http # "counted" /\ record.state # "pending"
           /\ proj.status = "processing" /\ lidarr.switched = worker.applied
           /\ jobs[J].state \in {"running", "cancelling"} /\ Attempt \in Attempts
           /\ worker.pc \in {"switch", "gate"} =>
                 lidarr.cmd[Attempt] = "none" /\ Attempt \notin lidarr.placed
           /\ worker.pc = "rescan" => Attempt \in lidarr.placed
  BY UnderWay DEF Steady, Undone, Midway, Out, Untouched

LEMMA LookupKeepsSteady ==
    ASSUME IInv, Steady, Unharmed', Lookup \/ Gate
    PROVE  Steady'
  <1> USE DEF At
  <1>0. Typed /\ ~Failure
    BY FailureHarms DEF IInv
  <1>1. /\ worker.pc \in {"switch", "gate"} /\ worker.pc \in Midway
        /\ jobs' = jobs /\ http' = http /\ lidarr' = lidarr
    BY DEF Lookup, Gate, Midway
  <1>2. /\ worker'.applied = worker.applied
        /\ \/ /\ worker'.pc \in {"rescue", "gate", "post"}
              /\ worker'.transient = worker.transient
              /\ record' = record /\ proj' = proj
           \/ /\ worker'.pc = "cancelled"
              /\ worker'.transient = worker.transient /\ record' = record
           \/ /\ worker'.pc = "restoring" /\ record'.state \in {record.state, "failed"}
    <2>1. CASE Gate
      BY <1>0, <2>1, MidwayMoves DEF Gate, Positions
    <2>2. CASE Lookup
      <3>1. \/ \E t \in BOOLEAN : Fails(t)
            \/ /\ worker' = [worker EXCEPT !.pc = "rescue", !.zero = TRUE]
               /\ record' = record /\ proj' = proj
            \/ Goto("gate") /\ record' = record /\ proj' = proj
        BY <1>0, <2>2 DEF Lookup
      <3> QED BY <1>0, <3>1, MidwayMoves DEF Positions
    <2> QED BY <2>1, <2>2
  <1>3. /\ worker'.pc \in Midway \cup {"cancelled", "restoring"}
        /\ worker'.pc # "rescan"
        /\ worker'.transient => worker'.pc \notin Midway
        /\ record'.state # "pending"
    BY <1>1, <1>2, MidwayStart DEF Midway
  <1>4. Undone'
    BY <1>1, <1>2, <1>3, MidwayStart DEF Undone, Midway, Early
  <1> QED BY <1>1, <1>2, <1>3, <1>4, MidwayStart, MidwayKeepsSteady

LEMMA CommandKeepsSteady ==
    ASSUME IInv, Steady, Unharmed', Post \/ Wait \/ CheckPending
    PROVE  Steady'
  <1> USE DEF At
  <1>0. Typed /\ ~Failure
    BY FailureHarms DEF IInv
  <1>1. /\ worker.pc \in {"post", "wait", "pending"} /\ worker.pc \in Midway
        /\ jobs' = jobs /\ http' = http
    BY DEF Post, Wait, CheckPending, Midway
  <1>2. Attempt \in Attempts
    BY <1>1, MidwayStart
  <1>3. CASE Post
    <2>1. /\ Goto("wait") /\ record' = record /\ proj' = proj
          /\ \E c \in {"queued", "none"} : lidarr' = [lidarr EXCEPT !.cmd[Attempt] = c]
      BY <1>0, <1>3 DEF Post
    <2>2. /\ worker'.pc = "wait" /\ worker'.applied = worker.applied
          /\ worker'.transient = worker.transient
      BY <1>0, <2>1, MidwayMoves DEF Positions
    <2>3. /\ lidarr'.placed = lidarr.placed /\ lidarr'.switched = lidarr.switched
          /\ \A a \in Attempts \ {Attempt} : lidarr'.cmd[a] = lidarr.cmd[a]
      BY <1>0, <1>2, <2>1 DEF Typed, Lidarr
    <2>4. Undone'
      BY <1>1, <2>1, <2>2, <2>3, MidwayStart DEF Undone, Midway, Early
    <2> QED BY <1>1, <2>1, <2>2, <2>3, <2>4, MidwayStart, MidwayKeepsSteady DEF Midway
  <1>4. CASE Wait
    <2>1. /\ lidarr' = lidarr
          /\ \/ /\ Goto("returned")
                /\ WriteRecord("imported", worker.dir)
                /\ _mark_import_completed(worker.dir)
             \/ Goto("pending") /\ record' = record /\ proj' = proj
      BY <1>0, <1>4 DEF Wait
    <2>2. /\ worker'.applied = worker.applied /\ worker'.transient = worker.transient
          /\ \/ /\ worker'.pc = "returned" /\ proj'.status = "completed"
                /\ record'.state \in {record.state, "imported"}
             \/ worker'.pc = "pending" /\ record' = record /\ proj' = proj
      <3>1. WriteRecord("imported", worker.dir) => record'.state \in {record.state, "imported"}
        BY <1>0, RecordUpdates, WorkerTypes DEF Typed, RecordStates
      <3> QED BY <1>0, <2>1, <3>1, MidwayMoves DEF Positions
    <2>3. worker'.pc \in {"returned", "pending"} /\ record'.state # "pending" /\ ~worker'.transient
      BY <1>1, <2>2, MidwayStart
    <2>4. Undone'
      BY <1>1, <2>1, <2>2, <2>3, MidwayStart DEF Undone, Midway, Early, Reported
    <2> QED BY <1>1, <2>1, <2>2, <2>3, <2>4, MidwayStart, MidwayKeepsSteady DEF Midway
  <1>5. CASE CheckPending
    <2>1. /\ lidarr' = lidarr /\ proj' = proj
          /\ \/ /\ lidarr.cmd[Attempt] = "queued"
                /\ worker' = [worker EXCEPT !.pc = "restoring", !.after = "returned"]
             \/ /\ worker' = [worker EXCEPT !.pc = "rescue", !.zero = FALSE]
                /\ record' = record
      BY <1>0, <1>5 DEF CheckPending
    <2>2. /\ worker'.applied = worker.applied /\ worker'.transient = worker.transient
          /\ \/ lidarr.cmd[Attempt] = "queued" /\ worker'.pc = "restoring"
             \/ worker'.pc = "rescue" /\ record' = record
      BY <1>0, <2>1, MidwayMoves
    <2>3. worker'.pc \in {"restoring", "rescue"} /\ ~worker'.transient
      BY <1>1, <2>2, MidwayStart
    <2>4. record'.state = "pending" =>
             lidarr'.cmd[Attempt] # "none" /\ worker'.pc = "restoring"
      BY <1>1, <2>1, <2>2, MidwayStart
    <2>5. Undone'
      BY <1>1, <2>1, <2>2, <2>3, MidwayStart DEF Undone, Midway, Early
    <2> QED BY <1>1, <2>1, <2>3, <2>4, <2>5, MidwayKeepsSteady DEF Midway
  <1> QED BY <1>3, <1>4, <1>5

LEMMA RescueKeepsSteady ==
    ASSUME IInv, Steady, Unharmed', Rescue \/ Copy \/ Rescan
    PROVE  Steady'
  <1> USE DEF At
  <1>0. Typed /\ ~Failure
    BY FailureHarms DEF IInv
  <1>1. /\ worker.pc \in {"rescue", "copy", "rescan"} /\ worker.pc \in Midway
        /\ jobs' = jobs /\ http' = http
    BY DEF Rescue, Copy, Rescan, Midway
  <1>2. Attempt \in Attempts
    BY <1>1, MidwayStart
  <1>5. CASE Rescue
    <2>1. /\ lidarr' = lidarr
          /\ \/ Goto("copy") /\ record' = record /\ proj' = proj
             \/ Fails(FALSE)
      BY <1>5 DEF Rescue
    <2>2. /\ worker'.applied = worker.applied
          /\ ~worker'.transient /\ record'.state # "pending"
          /\ \/ worker'.pc = "copy" /\ proj' = proj
             \/ worker'.pc = "restoring"
      BY <1>0, <1>1, <2>1, MidwayMoves, MidwayStart DEF Positions
    <2>3. worker'.pc \in {"copy", "restoring"}
      BY <2>2
    <2>4. Undone'
      BY <1>1, <2>1, <2>2, MidwayStart DEF Undone, Midway, Early
    <2> QED BY <1>1, <2>1, <2>2, <2>3, <2>4, MidwayKeepsSteady DEF Midway
  <1>3. CASE Copy
    <2>1. \/ /\ lidarr' = [lidarr EXCEPT !.placed = @ \cup {Attempt}]
             /\ Goto("rescan") /\ record' = record /\ proj' = proj
          \/ Fails(FALSE) /\ lidarr' = lidarr
      BY <1>3 DEF Copy
    <2>2. /\ worker'.applied = worker.applied
          /\ ~worker'.transient /\ record'.state # "pending"
          /\ lidarr'.cmd = lidarr.cmd /\ lidarr'.switched = lidarr.switched
          /\ lidarr'.placed \subseteq lidarr.placed \cup {Attempt}
          /\ \/ worker'.pc = "rescan" /\ proj' = proj /\ Attempt \in lidarr'.placed
             \/ worker'.pc = "restoring"
      <3>1. CASE /\ lidarr' = [lidarr EXCEPT !.placed = @ \cup {Attempt}]
                 /\ Goto("rescan") /\ record' = record /\ proj' = proj
        <4>1. /\ lidarr'.cmd = lidarr.cmd /\ lidarr'.switched = lidarr.switched
              /\ lidarr'.placed = lidarr.placed \cup {Attempt}
          BY <1>0, <3>1 DEF Typed, Lidarr
        <4> QED BY <1>0, <1>1, <3>1, <4>1, MidwayMoves, MidwayStart DEF Positions
      <3>2. CASE Fails(FALSE) /\ lidarr' = lidarr
        BY <1>0, <1>1, <3>2, MidwayMoves, MidwayStart
      <3> QED BY <2>1, <3>1, <3>2
    <2>3. worker'.pc \in {"rescan", "restoring"}
      BY <2>2
    <2>4. Undone'
      BY <1>1, <2>2, MidwayStart DEF Undone, Midway, Early, Attempt
    <2> QED BY <1>1, <2>2, <2>3, <2>4, MidwayKeepsSteady DEF Midway
  <1>4. CASE Rescan
    <2>1. /\ lidarr'.cmd = lidarr.cmd /\ lidarr'.switched = lidarr.switched
          /\ lidarr'.placed = lidarr.placed
      <3>1. \E found \in BOOLEAN : lidarr' = [lidarr EXCEPT !.registered = @ \/ found]
        BY <1>4 DEF Rescan
      <3> QED BY <1>0, <3>1 DEF Typed, Lidarr
    <2>2. /\ worker'.applied = worker.applied
          /\ ~worker'.transient /\ record'.state # "pending"
          /\ \/ worker'.pc = "returned" /\ proj'.status \in {"processing", "completed"}
             \/ worker'.pc = "restoring"
      <3>1. \/ /\ Goto("returned")
               /\ \/ proj' = [proj EXCEPT !.hidden = TRUE] /\ record' = record
                  \/ WriteRecord("rescued", worker.dir) /\ _mark_import_completed(worker.dir)
            \/ Fails(FALSE)
        BY <1>4 DEF Rescan
      <3>2. WriteRecord("rescued", worker.dir) => record'.state \in {record.state, "rescued"}
        BY <1>0, RecordUpdates, WorkerTypes DEF Typed, RecordStates
      <3>3. [proj EXCEPT !.hidden = TRUE].status = proj.status
        BY <1>0, ProjUpdates DEF Typed
      <3>4. CASE Goto("returned") /\ proj' = [proj EXCEPT !.hidden = TRUE] /\ record' = record
        BY <1>0, <1>1, <3>3, <3>4, MidwayMoves, MidwayStart DEF Positions
      <3>5. CASE /\ Goto("returned")
                 /\ WriteRecord("rescued", worker.dir)
                 /\ _mark_import_completed(worker.dir)
        BY <1>0, <1>1, <3>2, <3>5, MidwayMoves, MidwayStart DEF Positions
      <3>6. CASE Fails(FALSE)
        BY <1>0, <1>1, <3>6, MidwayMoves, MidwayStart
      <3> QED BY <3>1, <3>4, <3>5, <3>6
    <2>3. worker'.pc \in {"returned", "restoring"} /\ Attempt \in lidarr'.placed
      BY <1>1, <1>4, <2>1, <2>2, MidwayStart DEF Rescan
    <2>4. Undone'
      BY <1>1, <2>1, <2>2, <2>3, MidwayStart DEF Undone, Midway, Early, Reported, Attempt
    <2> QED BY <1>1, <2>1, <2>2, <2>3, <2>4, MidwayKeepsSteady DEF Midway
  <1> QED BY <1>3, <1>4, <1>5

LEMMA EndingKeepsSteady ==
    ASSUME IInv, Steady, Unharmed', Restore \/ _cleanup_lidarr_queue
    PROVE  Steady'
  <1> USE DEF At
  <1>0. Typed /\ ~Failure
    BY FailureHarms DEF IInv
  <1>1. /\ jobs' = jobs /\ http' = http /\ record' = record /\ Attempt' = Attempt
        /\ worker.pc \in {"restoring", "cleanup"} /\ worker.pc \notin Out
    BY DEF Restore, _cleanup_lidarr_queue, Out, Attempt
  <1>2. /\ lidarr'.cmd = lidarr.cmd /\ lidarr'.placed = lidarr.placed
        /\ worker'.transient = worker.transient
        /\ \/ worker'.pc = "restoring" /\ lidarr'.switched = worker'.applied
           \/ /\ worker'.pc \in {"cleanup", "returned"}
              /\ lidarr'.switched = {}
    <2>1. CASE Restore
      <3>1. CASE \E a \in worker.applied :
                    /\ worker' = [worker EXCEPT !.applied = @ \ {a}]
                    /\ lidarr' = [lidarr EXCEPT !.switched = @ \ {a}]
        <4>1. PICK a \in worker.applied :
                    /\ worker' = [worker EXCEPT !.applied = @ \ {a}]
                    /\ lidarr' = [lidarr EXCEPT !.switched = @ \ {a}]
          BY <3>1
        <4>2. /\ worker'.pc = worker.pc /\ worker'.transient = worker.transient
              /\ worker'.applied = worker.applied \ {a}
          BY <1>0, <4>1 DEF Typed, Worker
        <4>3. /\ lidarr'.cmd = lidarr.cmd /\ lidarr'.placed = lidarr.placed
              /\ lidarr'.switched = lidarr.switched \ {a}
          BY <1>0, <4>1 DEF Typed, Lidarr
        <4> QED BY <2>1, <4>2, <4>3 DEF Restore, Steady, Undone
      <3>2. CASE worker.applied = {} /\ Goto(worker.after) /\ lidarr' = lidarr
        BY <1>0, <2>1, <3>2, WorkerTypes, MidwayMoves
        DEF Restore, Steady, Undone, Typed, Positions
      <3> QED BY <1>0, <2>1, <3>1, <3>2 DEF Restore
    <2>2. CASE _cleanup_lidarr_queue
      <3>1. Goto("returned") /\ lidarr' = [lidarr EXCEPT !.queue = FALSE]
        BY <1>0, <2>2 DEF _cleanup_lidarr_queue
      <3>2. /\ lidarr'.cmd = lidarr.cmd /\ lidarr'.placed = lidarr.placed
            /\ lidarr'.switched = lidarr.switched
        BY <1>0, <3>1 DEF Typed, Lidarr
      <3> QED BY <1>0, <2>2, <3>1, <3>2, MidwayMoves
              DEF _cleanup_lidarr_queue, Steady, Undone, Positions
    <2> QED BY <2>1, <2>2
  <1>3. Fitting' /\ Undone'
    BY <1>2 DEF Fitting, Undone, Out, Early, Midway
  <1>4. Sole'
    BY <1>1, <1>2 DEF Steady, Sole, Untouched
  <1>5. Late'
    BY <1>1, <1>2 DEF Steady, Late, Untouched
  <1> QED BY <1>3, <1>4, <1>5 DEF Steady

\* The worker gives up the job; a job to be tried again has touched nothing.
LEMMA VerdictKeepsSteady ==
    ASSUME IInv, Steady, Unharmed',
           \/ Start /\ is_job_cancel_requested(J)
           \/ Return \/ Raise \/ Cancelled
    PROVE  Steady'
  <1> USE DEF At
  <1>0. /\ Typed /\ JobsTypeOK /\ jobs[J].key = Key
        /\ worker.pc \in {"claimed", "returned", "raised", "cancelled"}
        /\ lidarr' = lidarr /\ http' = http /\ record' = record /\ proj' = proj
    BY DEF IInv, Typed, Budget, Start, Return, Raise, Cancelled
  <1>1. /\ jobs[J].state \in {"running", "cancelling"} /\ Attempt \in Attempts
        /\ worker.pc = "cancelled" => http # "counted" /\ record.state # "pending"
    BY <1>0, UnderWay DEF Out, Steady, Late
  <1>2. /\ WorkerAt("idle").pc = "idle" /\ WorkerAt("idle").applied = {}
        /\ WorkerAt("idle").transient = FALSE
    BY DEF WorkerAt
  <1>3. ASSUME worker' = WorkerAt("idle"), jobs'[J].attempts = Attempt,
               \/ jobs'[J].state = "cancelled" /\ worker.pc \in {"claimed", "cancelled"}
               \/ jobs'[J].state = "completed" /\ worker.pc = "returned"
               \/ jobs'[J].state = "failed" /\ worker.pc = "raised"
               \/ /\ jobs'[J].state = "queued" /\ worker.pc = "raised"
                  /\ worker.transient
        PROVE  Steady'
    <2>1. worker'.pc = "idle" /\ worker'.applied = {} /\ worker'.transient = FALSE
      BY <1>2, <1>3
    <2>2. Attempt' = Attempt
      BY <1>3 DEF Attempt
    <2>3. Fitting'
      BY <2>1 DEF Fitting
    <2>4. Sole'
      BY <1>0, <1>1, <1>3, <2>1, <2>2 DEF Steady, Sole, Untouched
    <2>5. Undone'
      BY <1>0, <1>3, <2>1, <2>2 DEF Steady, Undone, Reported, Early, Midway
    <2>6. Late'
      BY <1>0, <1>1, <1>3, <2>1, <2>2, UnderWay
      DEF Steady, Late, Untouched, Undone, Early, Out
    <2> QED BY <2>3, <2>4, <2>5, <2>6 DEF Steady
  <1>4. CASE Start /\ is_job_cancel_requested(J)
    BY <1>0, <1>3, <1>4, RowEffects DEF Start, mark_job_cancelled
  <1>5. CASE Cancelled
    BY <1>0, <1>3, <1>5, RowEffects DEF Cancelled, mark_job_cancelled
  <1>6. CASE Raise
    <2>1. CASE worker.transient /\ CanRetry(J)
      BY <1>0, <1>3, <1>6, <2>1, RowEffects DEF Raise
    <2>2. CASE ~(worker.transient /\ CanRetry(J))
      BY <1>0, <1>3, <1>6, <2>2, RowEffects DEF Raise, mark_job_failed
    <2> QED BY <2>1, <2>2
  <1>7. CASE Return
    <2>1. CASE mark_job_completed(J) /\ worker' = WorkerAt("idle")
      BY <1>0, <1>3, <1>7, <2>1, RowEffects DEF Return, mark_job_completed
    <2>2. CASE Goto("raised") /\ jobs' = jobs /\ proj.status = "failed"
      <3>1. /\ worker'.pc = "raised" /\ worker'.applied = worker.applied
            /\ worker'.transient = worker.transient
        BY <1>0, <2>2, MidwayMoves DEF Positions
      <3>2. Attempt' = Attempt /\ worker.pc = "returned"
        BY <1>7, <2>2 DEF Attempt, Return
      <3>3. lidarr.switched = {}
        BY <2>2, <3>2 DEF Steady, Undone, Reported
      <3>4. Fitting' /\ Undone'
        BY <1>0, <3>1, <3>3 DEF Fitting, Undone, Out, Early, Midway
      <3>5. Sole' /\ Late'
        BY <1>0, <2>2, <3>1, <3>2, <3>3 DEF Steady, Sole, Late, Untouched
      <3> QED BY <3>4, <3>5 DEF Steady
    <2> QED BY <1>7, <2>1, <2>2 DEF Return
  <1> QED BY <1>4, <1>5, <1>6, <1>7

\* The next attempt begins on a clean slate.
LEMMA ClaimKeepsSteady ==
    ASSUME IInv, Steady, Claim
    PROVE  Steady'
  <1> USE DEF At
  <1>0. /\ Typed /\ JobsTypeOK /\ jobs[J].key = Key /\ Attempt \in Nat
    BY Constants DEF IInv, Typed, Budget, JobsTypeOK, JobRow, Attempt
  <1>1. /\ worker.pc = "idle" /\ dequeue_next_job(J, Types)
        /\ lidarr' = lidarr /\ http' = http /\ record' = record /\ proj' = proj
    BY DEF Claim
  <1>2. /\ jobs[J].state = "queued" /\ jobs'[J].state = "running"
        /\ Attempt' = Attempt + 1
    BY <1>0, <1>1, RowEffects DEF Attempt
  <1>3. /\ worker'.pc = "claimed" /\ worker'.applied = {} /\ ~worker'.transient
    BY <1>0, <1>1, MidwayMoves DEF Claim, Positions, Steady, Fitting, Out
  <1>4. Attempt \in Attempts => Untouched(Attempt)
    BY <1>2 DEF Steady, Sole
  <1>5. lidarr.switched = {}
    BY <1>1, <1>2 DEF Steady, Undone
  <1>6. Fitting' /\ Undone'
    BY <1>1, <1>3, <1>5 DEF Fitting, Undone, Out, Early, Midway
  <1>7. Sole'
    <2>1. \A a \in Attempts : a < Attempt + 1 => a < Attempt \/ a = Attempt
      BY <1>0, Constants
    <2> QED BY <1>1, <1>2, <1>3, <1>4, <2>1 DEF Steady, Sole, Untouched
  <1>8. Late'
    BY <1>1, <1>2, <1>4 DEF Steady, Late
  <1> QED BY <1>6, <1>7, <1>8 DEF Steady

\* The operator, Lidarr, the reconciling request and the clock.
LEMMA AsideKeepsSteady ==
    ASSUME IInv, Steady, Unharmed',
           \/ RequestCancel \/ Reconcile \/ ReconcileGone \/ RetryFallsDue
           \/ \E a \in Attempts : LidarrRuns(a)
           \/ UNCHANGED vars
    PROVE  Steady'
  <1>0. /\ Typed /\ ~Failure /\ JobsTypeOK /\ jobs[J].key = Key
    BY FailureHarms DEF IInv, Typed, Budget
  <1>1. worker' = worker
    BY DEF RequestCancel, Reconcile, ReconcileGone, RetryFallsDue, LidarrRuns, vars
  <1>2. CASE RequestCancel \/ RetryFallsDue \/ UNCHANGED vars
    <2>1. /\ jobs'[J].attempts = Attempt
          /\ \/ jobs'[J].state = jobs[J].state
             \/ jobs[J].state = "running" /\ jobs'[J].state = "cancelling"
      BY <1>0, <1>2, RowEffects DEF RequestCancel, RetryFallsDue, vars, Attempt
    <2>2. /\ http' = http /\ record' = record /\ proj' = proj /\ lidarr' = lidarr
          /\ Attempt' = Attempt
      BY <1>2, <2>1 DEF RequestCancel, RetryFallsDue, vars, Attempt
    <2>3. Fitting' /\ Undone'
      BY <1>1, <2>1, <2>2 DEF Steady, Fitting, Undone, Reported
    <2>4. Sole' /\ Late'
      BY <1>1, <2>1, <2>2 DEF Steady, Sole, Late, Untouched
    <2> QED BY <2>3, <2>4 DEF Steady
  <1>3. ASSUME NEW a \in Attempts, LidarrRuns(a)
        PROVE  Steady'
    <2>1. /\ jobs' = jobs /\ http' = http /\ record' = record /\ proj' = proj
          /\ Attempt' = Attempt /\ lidarr.cmd[a] = "queued"
      BY <1>3 DEF LidarrRuns, Attempt
    <2>2. PICK c \in {"imported", "refused"} : lidarr' = [lidarr EXCEPT !.cmd[a] = c]
      BY <1>3 DEF LidarrRuns
    <2>3. /\ lidarr'.placed = lidarr.placed /\ lidarr'.switched = lidarr.switched
          /\ \A b \in Attempts : (lidarr'.cmd[b] = "none") = (lidarr.cmd[b] = "none")
      <3>1. /\ lidarr'.placed = lidarr.placed /\ lidarr'.switched = lidarr.switched
            /\ lidarr'.cmd = [lidarr.cmd EXCEPT ![a] = c]
        BY <1>0, <2>2 DEF Typed, Lidarr
      <3>2. lidarr.cmd \in [Attempts -> {"none", "queued", "imported", "refused"}]
        BY <1>0 DEF Typed, Lidarr
      <3> QED BY <2>1, <3>1, <3>2
    <2>4. Fitting' /\ Undone'
      BY <1>1, <2>1, <2>3 DEF Steady, Fitting, Undone, Reported
    <2>5. Sole' /\ Late'
      BY <1>1, <2>1, <2>3 DEF Steady, Sole, Late, Untouched
    <2> QED BY <2>4, <2>5 DEF Steady
  <1>4. ASSUME Reconcile \/ ReconcileGone
        PROVE  Steady'
    <2>1. /\ jobs' = jobs /\ Attempt' = Attempt
          /\ http = "counted" \/ record.state = "pending"
      BY <1>4 DEF Reconcile, ReconcileGone, Attempt
    <2>2. /\ lidarr'.cmd = lidarr.cmd /\ lidarr'.placed = lidarr.placed
          /\ lidarr'.switched = lidarr.switched
      <3>1. lidarr' = lidarr \/ lidarr' = [lidarr EXCEPT !.queue = FALSE]
        BY <1>4 DEF Reconcile, ReconcileGone
      <3> QED BY <1>0, <3>1 DEF Typed, Lidarr
    <2>3. Fitting' /\ Sole'
      BY <1>1, <2>1, <2>2 DEF Steady, Fitting, Sole, Untouched
    <2>4. Undone'
      BY <1>1, <2>1, <2>2 DEF Steady, Undone, Late, Early, Midway
    <2>5. Late'
      BY <1>1, <2>1, <2>2 DEF Steady, Late, Untouched
    <2> QED BY <2>3, <2>4, <2>5 DEF Steady
  <1> QED BY <1>2, <1>3, <1>4

LEMMA InitCalm == Init => Calm
  <1> SUFFICES ASSUME Init PROVE Steady
    BY DEF Calm
  <1> USE Constants
  <1>1. jobs[J].attempts = 0
    BY DEF Init, InsertedRow
  <1>2. worker.pc = "idle" /\ worker.applied = {} /\ worker.transient = FALSE
    BY DEF Init, WorkerAt
  <1>3. http = "idle" /\ record.state = "none" /\ lidarr.switched = {} /\ Attempt \notin Attempts
    BY <1>1 DEF Init, NoRecord, Attempt
  <1>4. \A a \in Attempts : ~(a < Attempt)
    BY <1>1 DEF Attempt
  <1>5. Fitting /\ Sole
    BY <1>2, <1>3, <1>4 DEF Fitting, Sole
  <1>6. Undone /\ Late
    BY <1>2, <1>3 DEF Undone, Late, Early, Midway
  <1> QED BY <1>5, <1>6 DEF Steady

LEMMA NextCalm == IInv /\ Calm /\ [Next]_vars => Calm'
  <1> SUFFICES ASSUME IInv, Calm, [Next]_vars, Unharmed' PROVE Steady'
    BY DEF Calm
  <1>0. Typed /\ Steady
    BY HarmStays DEF IInv, Calm
  <1>1. CASE Pipeline
    <2>1. Start => Before \/ (Start /\ is_job_cancel_requested(J))
      BY DEF Before
    <2> QED BY <1>0, <1>1, <2>1, ClaimKeepsSteady, BeforeKeepsSteady, SwitchKeepsSteady,
            LookupKeepsSteady, CommandKeepsSteady, RescueKeepsSteady, EndingKeepsSteady,
            VerdictKeepsSteady DEF Pipeline, Before
  <1>2. CASE Crash \/ Boot
    BY <1>0, <1>2, CrashHarms DEF Boot, At, Steady, Fitting
  <1>3. CASE RequestCancel \/ Reconcile \/ ReconcileGone \/ RetryFallsDue
             \/ (\E a \in Attempts : LidarrRuns(a)) \/ UNCHANGED vars
    BY <1>0, <1>3, AsideKeepsSteady
  <1> QED BY <1>1, <1>2, <1>3 DEF Next

LEMMA AlwaysCalm == Spec => []Calm
  BY InitCalm, NextCalm, Inductive, PTL DEF Spec

\* Without a crash or a failed request, a job that is over for another reason
\* than its cancellation leaves an album switched only with a release that is
\* reported, for any number of albums and attempts: every path out of
\* _trigger_lidarr_import after the switches goes through
\* _restore_release_switches or has reported the import.
THEOREM SwitchesAreUndone == Spec => []ReleaseRestored
  <1>1. Calm => ReleaseRestored
    BY DEF Calm, Steady, Undone, Reported, ReleaseRestored, Settled, At
  <1> QED BY <1>1, AlwaysCalm, PTL

\* Without a crash or a failed request only the current attempt of a job has
\* sent a command or placed files, however many attempts there are: a pipeline
\* that got that far fails permanently or with a record (worker.py 110-132).
THEOREM CommandIsSentOnce == Spec => []OneCommand
  <1>1. IInv /\ Calm => OneCommand
    <2> SUFFICES ASSUME IInv, Calm, Unharmed,
                        NEW a \in {b \in Attempts : lidarr.cmd[b] # "none"} \cup lidarr.placed
                 PROVE  a = Attempt
      BY DEF OneCommand
    <2>1. a \in Attempts /\ ~Untouched(a)
      BY DEF IInv, Typed, Lidarr, Untouched
    <2>2. ~(a < Attempt) /\ ~(a > Attempt)
      BY <2>1 DEF IInv, Fresh, Calm, Steady, Sole
    <2>3. a \in Nat /\ Attempt \in Nat
      BY <2>1, Constants DEF IInv, Typed, JobsTypeOK, JobRow, Attempt
    <2> QED BY <2>2, <2>3
  <1> QED BY <1>1, Inductive, AlwaysCalm, PTL

-----------------------------------------------------------------------------
(* The files next to a record *)

\* Without V2 verification nothing is ever recorded or reconciled.
Unrecorded == ~config.v2 => record.state = "none" /\ http = "idle"

LEMMA NextUnrecorded == IInv /\ Unrecorded /\ [Next]_vars => Unrecorded'
  <1> SUFFICES ASSUME IInv, [Next]_vars, ~config.v2, record.state = "none", http = "idle"
               PROVE  record'.state = "none" /\ http' = "idle"
    <2>1. IInv /\ [Next]_vars => config' = config
      BY DEF Next, Pipeline, vars, Claim, Start, Download, Normalise, Prepare, Enter, Block,
         _create_review_required, Accept, Switch, Lookup, Gate, Post, Wait, CheckPending,
         Rescue, Copy, Rescan, Restore, _cleanup_lidarr_queue, Return, Raise, Cancelled,
         RequestCancel, Reconcile, ReconcileGone, LidarrRuns, Crash, Boot, RetryFallsDue
    <2> QED BY <2>1 DEF Unrecorded
  <1>0. Typed
    BY DEF IInv
  <1>1. /\ \A s, at : WriteRecord(s, at) => record' = record
        /\ \A c \in BOOLEAN : Cancel(c) => record'.state = "none"
        /\ \A t \in BOOLEAN : Fails(t) => record' = record
        /\ ImportRaises => record' = record
        /\ Without("out").state = "none" /\ [record EXCEPT !.at = "out"].state = "none"
    <2>1. \A s, at : WriteRecord(s, at) => record' = record
      BY DEF WriteRecord
    <2>2. \A t \in BOOLEAN : Fails(t) => record' = record
      BY <2>1 DEF Fails
    <2>3. /\ \A c \in BOOLEAN : Cancel(c) => record'.state = "none"
          /\ ImportRaises => record' = record
      BY <1>0, StageEnds
    <2>4. Without("out").state = "none" /\ [record EXCEPT !.at = "out"].state = "none"
      BY <1>0, RecordUpdates DEF Typed
    <2> QED BY <2>1, <2>2, <2>3, <2>4
  <1>2. http' = "idle"
    <2>1. ~Reconcile /\ ~ReconcileGone
      BY DEF Reconcile, ReconcileGone
    <2> QED BY <2>1 DEF Next, Pipeline, vars, Claim, Start, Download, Normalise, Prepare, Enter,
            Block, _create_review_required, Accept, Switch, Lookup, Gate, Post, Wait,
            CheckPending, Rescue, Copy, Rescan, Restore, _cleanup_lidarr_queue, Return, Raise,
            Cancelled, RequestCancel, LidarrRuns, Crash, Boot, RetryFallsDue
  <1>3. record'.state = "none"
    <2>1. CASE Download \/ Normalise \/ Prepare \/ Enter \/ Gate
      BY <1>0, <1>1, <2>1, CutShortTypes DEF Download, Normalise, Prepare, Enter, Gate
    <2>2. CASE Block \/ _create_review_required \/ Lookup \/ Post \/ Wait \/ CheckPending
               \/ Rescue \/ Copy \/ Rescan
      BY <1>1, <2>2 DEF Block, _create_review_required, Lookup, Post, Wait, CheckPending,
         Rescue, Copy, Rescan
    <2>3. CASE Claim \/ Start \/ Accept \/ (\E a \in Albums : Switch(a)) \/ Restore
               \/ _cleanup_lidarr_queue \/ Return \/ Raise \/ Cancelled
      BY <2>3 DEF Claim, Start, Accept, Switch, Restore, _cleanup_lidarr_queue, Return, Raise,
         Cancelled
    <2>4. CASE ~Pipeline
      <3>1. CutShort => record'.state = "none"
        BY <1>0, CutShortTypes
      <3> QED BY <2>4, <3>1 DEF Next, vars, RequestCancel, Reconcile, ReconcileGone, LidarrRuns,
              Crash, Boot, RetryFallsDue
    <2> QED BY <2>1, <2>2, <2>3, <2>4 DEF Pipeline
  <1> QED BY <1>2, <1>3

\* A record that stands next to files keeps them: a step that removes the
\* output folder's files is Lidarr's import, or takes the record along (the
\* new output folder of a retry, the archive of a blocked release), or is a
\* retry's preparation that an exception or a crash cuts short.
THEOREM RecordKeepsFiles == Spec => FilesStayWithRecord
  <1>1. Init => Unrecorded
    BY DEF Init, Unrecorded, NoRecord
  <1>2. ASSUME IInv, Unrecorded, [Next]_vars,
               record.state \in {"review", "pending", "failed"},
               record.at = "out", record' = record, disk.out
        PROVE  \/ disk'.out
               \/ \E a \in Attempts : lidarr'.cmd[a] # lidarr.cmd[a]
               \/ At("prepare") /\ spent' # spent
    <2>0. disk \in DiskType /\ config.v2 /\ Typed
      BY <1>2 DEF IInv, Typed, Unrecorded
    <2>1. \A b \in BOOLEAN : disk' = [disk EXCEPT !.raw = b] => disk'.out
      BY <1>2, <2>0 DEF DiskType
    <2>2. \A c \in BOOLEAN : Cancel(c) => disk'.out
      BY <1>2, <2>1 DEF Cancel
    <2>3. record # Without("out")
      BY <1>2 DEF Without, NoRecord
    <2>4. CASE Download \/ Normalise \/ Enter \/ Gate
      BY <1>2, <2>1, <2>2, <2>4 DEF Download, Normalise, Enter, Gate
    <2>5. CASE Prepare
      <3>1. Failure => spent' # spent
        BY <2>0 DEF Typed, SpentType, Failure
      <3> QED BY <1>2, <2>2, <2>3, <2>5, <3>1 DEF Prepare
    <2>6. CASE Block
      BY <1>2, <2>0, <2>6 DEF Block, WriteRecord
    <2>7. CASE \E a \in Attempts : LidarrRuns(a)
      <3>1. PICK a \in Attempts : LidarrRuns(a)
        BY <2>7
      <3>2. \A c \in {"imported", "refused"} :
               lidarr' = [lidarr EXCEPT !.cmd[a] = c] => lidarr'.cmd[a] = c
        BY <2>0 DEF Typed, Lidarr
      <3>3. lidarr.cmd[a] = "queued" /\ lidarr'.cmd[a] # "queued"
        BY <3>1, <3>2 DEF LidarrRuns
      <3> QED BY <3>3
    <2>8. CASE \/ Claim \/ Start \/ _create_review_required \/ Accept
               \/ (\E a \in Albums : Switch(a)) \/ Lookup \/ Post \/ Wait \/ CheckPending
               \/ Rescue \/ Copy \/ Rescan \/ Restore \/ _cleanup_lidarr_queue \/ Return \/ Raise
               \/ Cancelled
      BY <1>2, <2>8 DEF Claim, Start, _create_review_required, Accept, Switch, Lookup, Post,
         Wait, CheckPending, Rescue, Copy, Rescan, Restore, _cleanup_lidarr_queue, Return, Raise,
         Cancelled
    <2>9. CASE RequestCancel \/ Reconcile \/ ReconcileGone \/ Boot \/ RetryFallsDue
               \/ UNCHANGED vars
      BY <1>2, <2>9 DEF RequestCancel, Reconcile, ReconcileGone, Boot, RetryFallsDue, vars
    <2>10. CASE Crash
      <3>1. [spent EXCEPT !.crashes = @ + 1] # spent
        BY <2>0 DEF Typed, SpentType
      <3> QED BY <1>2, <2>10, <3>1 DEF Crash
    <2> QED BY <1>2, <2>4, <2>5, <2>6, <2>7, <2>8, <2>9, <2>10 DEF Next, Pipeline
  <1>3. IInv /\ Unrecorded /\ [Next]_vars =>
           [(/\ record.state \in {"review", "pending", "failed"}
             /\ record.at = "out" /\ record' = record /\ disk.out)
               => \/ disk'.out
                  \/ \E a \in Attempts : lidarr'.cmd[a] # lidarr.cmd[a]
                  \/ At("prepare") /\ spent' # spent]_vars
    BY <1>2
  <1> QED BY <1>1, <1>3, NextUnrecorded, Inductive, PTL DEF Spec, FilesStayWithRecord
=============================================================================
