-------------------------- MODULE GrabIntakeProofs --------------------------
(***************************************************************************)
(* Theorems about GrabIntake, for any number of releases, jobs, jids,      *)
(* requests, crashes and failures.                                         *)
(***************************************************************************)
EXTENDS GrabIntake, JobStoreProofs

-----------------------------------------------------------------------------
(* The inductive invariant *)

InTable(t) == \E j \in JobIds : jid[j] = t
Busy == worker.pc \in {"claimed", "running", "ending"}
\* A jid that was drawn and is not in the table, or not under its own row.
Astray == \/ handler.pc \in {"publish", "enqueue", "direct"}
          \/ handler.pc = "confirm" /\ jid[handler.row] # handler.jid

\* A jid is that of one job or of one thread; what has a job or was answered
\* has a projection, or had one that a crash lost.
Named ==
    /\ \A i, j \in JobIds : jid[i] = jid[j] /\ jid[i] # 0 => i = j
    /\ \A j \in JobIds : jid[j] # 0 => proj[jid[j]].status # "none"
    /\ \A t \in told : proj[t].status # "none"
    /\ \A t \in Jids : proj[t].status = "lost" => spent.crashes > 0
    /\ threads \subseteq told /\ \A t \in threads : ~InTable(t)

\* Until it is answered, the handler alone knows its jid.  Without a failure
\* nobody comes between the dedupe lookup and the INSERT.
Drawn ==
    /\ handler.pc \in {"publish", "enqueue", "direct", "confirm"} =>
          handler.jid \in Jids /\ handler.jid \notin told
    /\ handler.pc = "confirm" => handler.row \in JobIds /\ jid[handler.row] # 0
    /\ Astray => ~InTable(handler.jid)
    /\ handler.pc = "publish" => proj[handler.jid].status = "none"
    /\ Astray /\ handler.pc # "publish" => proj[handler.jid].status = "queued"
    /\ spent.failures = 0 =>
          /\ handler.pc \in {"publish", "enqueue"} => find_active_job_by_dedupe(handler.key) = {}
          /\ handler.pc = "confirm" => jid[handler.row] = handler.jid

Removing ==
    /\ handler.pc \in {"cancel", "hold", "hide"} => handler.jid \in told
    /\ handler.pc = "cancel" => handler.row \in JobIds /\ jid[handler.row] = handler.jid

\* The worker's job is active, and its projection says how far it is.
Working ==
    /\ worker.pc = "down" => handler.pc = "idle" /\ spent.crashes > 0
    /\ Busy => worker.job \in JobIds /\ IsActive(worker.job)
    /\ worker.pc = "running" => proj[jid[worker.job]].status = "active"
    /\ worker.pc = "ending" /\ Visible(jid[worker.job]) => Harmed /\ worker.outcome # "completed"

\* What is shown as under way is worked on, or was dropped.
Carrying ==
    /\ \A j \in JobIds : jid[j] # 0 /\ Visible(jid[j]) =>
          IsActive(j) \/ jobs[j].state = "cancelled" \/ (jobs[j].state = "failed" /\ Harmed)
    /\ spent.failures <= 1 =>
          \A t \in told : Visible(t) => t \in threads \/ InTable(t) \/ spent.crashes > 0

\* Without a failure a removal has flagged the job; without a crash a job that
\* has put up a review is about to end.
Stopped ==
    /\ spent.failures = 0 => \A j \in JobIds :
          IsActive(j) /\ (jid[j] \in removed
                          \/ (handler.pc \in {"hold", "hide"} /\ jid[j] = handler.jid))
              => jobs[j].cancel
    /\ spent.crashes = 0 => \A j \in JobIds :
          IsActive(j) /\ proj[jid[j]].status = "review" =>
              worker.pc = "ending" /\ worker.job = j /\ worker.outcome = "completed"

\* A removal that stopped a job has its hold, or is about to make it.
Banning == banned /\ known /\ ~Harmed => hold = "live" \/ handler.pc = "hold"

IInv == /\ TypeOK /\ Named /\ Drawn /\ Removing /\ Working /\ Carrying /\ Stopped /\ Banning
        /\ RemovalSticks
-----------------------------------------------------------------------------
(* Types and bounds *)

\* A projection that shows a download under way.
Shown(p) == ~p.hidden /\ p.status \in {"queued", "active"}

SpentSet == [requests : 0 .. MaxRequests, crashes : 0 .. MaxFaults, failures : 0 .. MaxFaults]
HandlerPcs == {"idle", "publish", "enqueue", "confirm", "direct", "cancel", "hold", "hide"}
HandlerSet == [pc : HandlerPcs, key : Keys, jid : Jids \cup {0}, row : JobIds \cup {0}]
WorkerSet == [pc : {"down", "idle", "claimed", "running", "ending"}, job : JobIds \cup {0},
              outcome : {"none", "completed", "raised", "cancelled"}]

\* The counters only grow.
Grows == /\ spent' \in SpentSet
         /\ spent'.crashes >= spent.crashes /\ spent'.failures >= spent.failures

LEMMA Spending ==
    ASSUME spent \in SpentSet
    PROVE  /\ Works \/ Request => Grows /\ (Harmed' <=> Harmed)
           /\ Failure => Grows /\ Harmed' /\ spent'.failures > 0
                         /\ (spent'.failures <= 1 => spent.failures = 0)
           /\ Fault("crashes") => Grows /\ Harmed' /\ spent'.crashes > 0
  <1>0. MaxFaults \in Nat /\ MaxRequests \in Nat
    BY GrabIntakeAssumption
  <1>1. Works => Grows /\ (Harmed' <=> Harmed)
    BY <1>0 DEF Works, Grows, Harmed, SpentSet
  <1>2. Request => Grows /\ (Harmed' <=> Harmed)
    <2> SUFFICES ASSUME Request PROVE Grows /\ (Harmed' <=> Harmed)
      OBVIOUS
    <2>1. spent.requests \in 0 .. MaxRequests /\ spent.requests < MaxRequests
      BY DEF Request, SpentSet
    <2>2. spent.requests + 1 \in 0 .. MaxRequests
      BY <1>0, <2>1
    <2>3. spent' = [spent EXCEPT !.requests = spent.requests + 1]
      BY DEF Request
    <2>4. spent' \in SpentSet /\ spent'.crashes = spent.crashes /\ spent'.failures = spent.failures
      BY <2>2, <2>3 DEF SpentSet
    <2> QED BY <1>0, <2>4 DEF Grows, Harmed, SpentSet
  <1>3. Failure => Grows /\ Harmed' /\ spent'.failures > 0
                   /\ (spent'.failures <= 1 => spent.failures = 0)
    <2> SUFFICES ASSUME Failure
                 PROVE  Grows /\ Harmed' /\ spent'.failures > 0
                        /\ (spent'.failures <= 1 => spent.failures = 0)
      OBVIOUS
    <2>1. spent.crashes \in 0 .. MaxFaults /\ spent.failures \in 0 .. MaxFaults
          /\ spent.crashes + spent.failures < MaxFaults
      BY DEF Failure, Fault, SpentSet
    <2>2. spent.failures + 1 \in 0 .. MaxFaults
      BY <1>0, <2>1
    <2>3. spent' = [spent EXCEPT !.failures = spent.failures + 1]
      BY DEF Failure, Fault
    <2>4. spent' \in SpentSet /\ spent'.crashes = spent.crashes
          /\ spent'.failures = spent.failures + 1
      BY <2>2, <2>3 DEF SpentSet
    <2> QED BY <1>0, <2>1, <2>4 DEF Grows, Harmed
  <1>4. Fault("crashes") => Grows /\ Harmed' /\ spent'.crashes > 0
    <2> SUFFICES ASSUME Fault("crashes") PROVE Grows /\ Harmed' /\ spent'.crashes > 0
      OBVIOUS
    <2>1. spent.crashes \in 0 .. MaxFaults /\ spent.failures \in 0 .. MaxFaults
          /\ spent.crashes + spent.failures < MaxFaults
      BY DEF Fault, SpentSet
    <2>2. spent.crashes + 1 \in 0 .. MaxFaults
      BY <1>0, <2>1
    <2>3. spent' = [spent EXCEPT !.crashes = spent.crashes + 1]
      BY DEF Fault
    <2>4. spent' \in SpentSet /\ spent'.failures = spent.failures
          /\ spent'.crashes = spent.crashes + 1
      BY <2>2, <2>3 DEF SpentSet
    <2> QED BY <1>0, <2>1, <2>4 DEF Grows, Harmed
  <1> QED BY <1>1, <1>2, <1>3, <1>4

LEMMA Growth ==
    ASSUME spent \in SpentSet, Grows
    PROVE  /\ spent'.failures = 0 => spent.failures = 0
           /\ spent'.failures <= 1 => spent.failures <= 1
           /\ spent'.crashes = 0 => spent.crashes = 0
           /\ spent.crashes > 0 => spent'.crashes > 0
           /\ Harmed => Harmed'
  <1>1. /\ spent.crashes \in Nat /\ spent.failures \in Nat
        /\ spent'.crashes \in Nat /\ spent'.failures \in Nat
        /\ spent'.crashes >= spent.crashes /\ spent'.failures >= spent.failures
    BY GrabIntakeAssumption DEF Grows, SpentSet
  <1> QED BY <1>1 DEF Harmed

LEMMA Found ==
    ASSUME IInv
    PROVE  /\ JobsTypeOK /\ jid \in [JobIds -> Jids \cup {0}]
           /\ \A j \in JobIds : jid[j] = 0 <=> jobs[j].state = "absent"
           /\ handler \in HandlerSet /\ worker \in WorkerSet /\ spent \in SpentSet
           /\ threads \subseteq Jids /\ told \subseteq Jids /\ removed \subseteq told
           /\ proj \in [Jids -> Projection]
           /\ hold \in {"none", "live", "lapsed", "cleared"}
           /\ offers \in [Keys -> {"none", "early", "late"}]
           /\ banned \in BOOLEAN /\ known \in BOOLEAN
           /\ \A j \in JobIds : IsActive(j) => jid[j] # 0 /\ jid[j] \in Jids
           /\ 0 \notin Jids
           /\ Busy => worker.job \in JobIds /\ IsActive(worker.job) /\ jid[worker.job] \in Jids
                      /\ jid[worker.job] # 0
  <1>1. TypeOK /\ Working
    BY DEF IInv
  <1>2. 0 \notin Jids
    BY GrabIntakeAssumption
  <1>3. \A j \in JobIds : IsActive(j) => jid[j] # 0 /\ jid[j] \in Jids
    BY <1>1 DEF TypeOK, IsActive, ActiveJobStates
  <1> QED BY <1>1, <1>2, <1>3
          DEF TypeOK, Working, Busy, HandlerSet, HandlerPcs, WorkerSet, SpentSet

LEMMA Typed ==
    ASSUME JobsTypeOK', jid' \in [JobIds -> Jids \cup {0}],
           \A j \in JobIds : jid'[j] = 0 <=> jobs'[j].state = "absent",
           handler' \in HandlerSet, worker' \in WorkerSet, Grows,
           threads' \subseteq Jids, told' \subseteq Jids, removed' \subseteq told',
           proj' \in [Jids -> Projection],
           hold' \in {"none", "live", "lapsed", "cleared"},
           offers' \in [Keys -> {"none", "early", "late"}],
           banned' \in BOOLEAN, known' \in BOOLEAN
    PROVE  TypeOK'
  BY DEF TypeOK, HandlerSet, HandlerPcs, WorkerSet, SpentSet, Grows

-----------------------------------------------------------------------------
(* The worker, the threads, and what happens beside the handler *)

\* A step that leaves the handler alone, or loses it in a crash.
LEMMA WorkKeeps ==
    ASSUME IInv, JobsTypeOK', RowsKept, Grows,
           UNCHANGED <<jid, told, hold, offers, banned, removed, known>>,
           handler' = handler \/ (handler' = Idle /\ Harmed'),
           worker' \in WorkerSet, threads' \subseteq threads, proj' \in [Jids -> Projection],
           \A t \in Jids : \/ proj'[t] = proj[t]
                           \/ /\ proj[t].status # "none" /\ proj'[t].status \notin {"none", "queued"}
                              /\ \/ InTable(t) \/ t \in threads
                                 \/ handler.pc = "idle" \/ handler' = Idle
                              /\ proj'[t].status = "lost" => spent'.crashes > 0,
           Working',
           \A j \in JobIds : jid[j] # 0 /\ Shown(proj'[jid[j]]) =>
               /\ Shown(proj[jid[j]]) \/ jobs'[j].state \in ActiveJobStates
               /\ IsActive(j) => \/ jobs'[j].state \in ActiveJobStates \cup {"cancelled"}
                                 \/ jobs'[j].state = "failed" /\ Harmed',
           \A t \in told : ~InTable(t) /\ Shown(proj'[t]) =>
               Shown(proj[t]) /\ (t \in threads => t \in threads' \/ spent'.crashes > 0),
           spent'.crashes = 0 => \A j \in JobIds :
               jobs'[j].state \in ActiveJobStates /\ proj'[jid[j]].status = "review" =>
                   worker'.pc = "ending" /\ worker'.job = j /\ worker'.outcome = "completed",
           spent'.crashes = 0 \/ spent'.failures = 0 =>
               \A t \in removed : proj'[t].hidden \/ proj'[t].status \in {"review", "lost"}
    PROVE  IInv'
  <1>0. /\ jid \in [JobIds -> Jids \cup {0}]
        /\ \A j \in JobIds : jid[j] = 0 <=> jobs[j].state = "absent"
        /\ handler \in HandlerSet /\ spent \in SpentSet
        /\ threads \subseteq Jids /\ told \subseteq Jids /\ removed \subseteq told
        /\ hold \in {"none", "live", "lapsed", "cleared"}
        /\ offers \in [Keys -> {"none", "early", "late"}]
        /\ banned \in BOOLEAN /\ known \in BOOLEAN
    BY Found
  <1>1. \A j \in JobIds : /\ jobs'[j].state = "absent" <=> jobs[j].state = "absent"
                          /\ jobs'[j].state \in ActiveJobStates => IsActive(j)
                          /\ ~IsActive(j) => jobs'[j].state = jobs[j].state
                          /\ jobs[j].cancel => jobs'[j].cancel
                          /\ jobs'[j].key = jobs[j].key
    BY DEF RowsKept, RowStays, IsActive
  <1>2. /\ spent'.failures = 0 => spent.failures = 0
        /\ spent'.failures <= 1 => spent.failures <= 1
        /\ spent.crashes > 0 => spent'.crashes > 0
        /\ Harmed => Harmed'
    BY <1>0, Growth
  <1>3. Idle \in HandlerSet /\ Idle.pc = "idle"
    BY JobStoreAssumption DEF Idle, HandlerSet, HandlerPcs
  <1>4. TypeOK'
    BY <1>0, <1>1, <1>3, Typed
  <1>6. Named'
    <2>1. /\ \A t \in Jids : proj[t].status # "none" => proj'[t].status # "none"
          /\ \A t \in Jids : proj'[t].status = "lost" => spent'.crashes > 0
      BY <1>2 DEF IInv, Named
    <2>2. \A t \in threads' : \A j \in JobIds : jid'[j] # t
      BY DEF IInv, Named, InTable
    <2>3. \A j \in JobIds : jid[j] # 0 => jid[j] \in Jids
      BY <1>0
    <2>4. /\ \A i, j \in JobIds : jid[i] = jid[j] /\ jid[i] # 0 => i = j
          /\ \A j \in JobIds : jid[j] # 0 => proj[jid[j]].status # "none"
          /\ \A t \in told : proj[t].status # "none"
          /\ threads' \subseteq told
      BY DEF IInv, Named
    <2> QED BY <1>0, <2>1, <2>2, <2>3, <2>4 DEF Named, InTable
  <1>7. ASSUME handler' = Idle PROVE Drawn' /\ Removing'
    BY <1>3, <1>7 DEF Drawn, Removing, Astray
  <1>8. Drawn' /\ Removing'
    <2>1. CASE handler' = handler
      <3>1. handler.pc = "idle" => Drawn' /\ Removing'
        BY <2>1 DEF Drawn, Removing, Astray
      <3>2. ASSUME handler.pc # "idle" PROVE Drawn'
        <4>1. Astray' <=> Astray
          BY <2>1 DEF Astray
        <4>2. Astray => handler.jid \in Jids /\ handler.jid \notin told /\ ~InTable(handler.jid)
          BY DEF IInv, Drawn, Astray
        <4>3. Astray => proj'[handler.jid] = proj[handler.jid]
          BY <1>3, <2>1, <3>2, <4>2 DEF IInv, Named
        <4>5. find_active_job_by_dedupe(handler.key) = {} =>
                  {j \in JobIds : jobs'[j].state \in ActiveJobStates /\ jobs'[j].key = handler'.key} = {}
          BY <1>1, <2>1 DEF find_active_job_by_dedupe
        <4>6. /\ handler'.pc \in {"publish", "enqueue", "direct", "confirm"} =>
                    handler'.jid \in Jids /\ handler'.jid \notin told'
              /\ handler'.pc = "confirm" => handler'.row \in JobIds /\ jid'[handler'.row] # 0
              /\ Astray' => \A j \in JobIds : jid'[j] # handler'.jid
          BY <2>1, <4>1 DEF IInv, Drawn, InTable
        <4>7. /\ handler'.pc = "publish" => proj'[handler'.jid].status = "none"
              /\ Astray' /\ handler'.pc # "publish" => proj'[handler'.jid].status = "queued"
          BY <2>1, <4>1, <4>3 DEF IInv, Drawn, Astray
        <4>8. spent'.failures = 0 =>
                /\ handler'.pc \in {"publish", "enqueue"} =>
                     {j \in JobIds : jobs'[j].state \in ActiveJobStates /\ jobs'[j].key = handler'.key} = {}
                /\ handler'.pc = "confirm" => jid'[handler'.row] = handler'.jid
          BY <1>2, <2>1, <4>5 DEF IInv, Drawn
        <4> QED BY <2>1, <4>6, <4>7, <4>8 DEF Drawn, find_active_job_by_dedupe, IsActive, InTable
      <3>3. Removing'
        BY <2>1 DEF IInv, Removing
      <3> QED BY <3>1, <3>2, <3>3
    <2> QED BY <1>7, <2>1
  <1>9. Carrying'
    <2>1. \A j \in JobIds : jid[j] # 0 /\ Shown(proj'[jid[j]]) =>
              \/ jobs'[j].state \in ActiveJobStates \/ jobs'[j].state = "cancelled"
              \/ jobs'[j].state = "failed" /\ Harmed'
      BY <1>1, <1>2 DEF IInv, Carrying, Visible, Shown
    <2>2. spent'.failures <= 1 => \A t \in told : Shown(proj'[t]) =>
              t \in threads' \/ InTable(t) \/ spent'.crashes > 0
      BY <1>2 DEF IInv, Carrying, Visible, Shown
    <2> QED BY <2>1, <2>2 DEF Carrying, IsActive, Visible, Shown, InTable
  <1>10. Stopped'
    <2>1. spent'.failures = 0 => \A j \in JobIds :
              jobs'[j].state \in ActiveJobStates
              /\ (jid[j] \in removed \/ (handler'.pc \in {"hold", "hide"} /\ jid[j] = handler'.jid))
                  => jobs'[j].cancel
      <3>1. handler'.pc \in {"hold", "hide"} => handler' = handler
        BY <1>3
      <3> QED BY <1>1, <1>2, <3>1 DEF IInv, Stopped
    <2> QED BY <2>1 DEF Stopped, IsActive
  <1>11. Banning'
    BY <1>2 DEF IInv, Banning
  <1>12. RemovalSticks'
    BY <1>2 DEF IInv, RemovalSticks
  <1> QED BY <1>4, <1>6, <1>8, <1>9, <1>10, <1>11, <1>12 DEF IInv
\* A step of the jobs table that writes no projection.
LEMMA QuietKeeps ==
    ASSUME IInv, JobsTypeOK', RowsKept, Works \/ Request,
           UNCHANGED <<jid, handler, threads, proj, told, hold, offers, banned, removed, known>>,
           worker' \in WorkerSet, Working',
           \A j \in JobIds : jid[j] # 0 /\ Shown(proj[jid[j]]) /\ IsActive(j) =>
               \/ jobs'[j].state \in ActiveJobStates \cup {"cancelled"}
               \/ jobs'[j].state = "failed" /\ Harmed,
           spent.crashes = 0 => \A j \in JobIds :
               jobs'[j].state \in ActiveJobStates /\ proj[jid[j]].status = "review" =>
                   worker'.pc = "ending" /\ worker'.job = j /\ worker'.outcome = "completed"
    PROVE  IInv'
  <1>1. spent \in SpentSet /\ proj \in [Jids -> Projection]
    BY Found
  <1>2. Grows /\ (Harmed' <=> Harmed)
    BY <1>1, Spending
  <1>3. /\ spent'.failures = 0 => spent.failures = 0
        /\ spent'.crashes = 0 => spent.crashes = 0
    BY <1>1, <1>2, Growth
  <1>4. spent'.crashes = 0 \/ spent'.failures = 0 =>
            \A t \in removed : proj'[t].hidden \/ proj'[t].status \in {"review", "lost"}
    BY <1>3 DEF IInv, RemovalSticks
  <1>5. \A j \in JobIds : jid[j] # 0 /\ Shown(proj'[jid[j]]) =>
            /\ Shown(proj[jid[j]]) \/ jobs'[j].state \in ActiveJobStates
            /\ IsActive(j) => \/ jobs'[j].state \in ActiveJobStates \cup {"cancelled"}
                              \/ jobs'[j].state = "failed" /\ Harmed'
    BY <1>2
  <1>6. spent'.crashes = 0 => \A j \in JobIds :
            jobs'[j].state \in ActiveJobStates /\ proj'[jid[j]].status = "review" =>
                worker'.pc = "ending" /\ worker'.job = j /\ worker'.outcome = "completed"
    BY <1>3
  <1>7. \A t \in told : ~InTable(t) /\ Shown(proj'[t]) =>
            Shown(proj[t]) /\ (t \in threads => t \in threads' \/ spent'.crashes > 0)
    OBVIOUS
  <1>8. /\ threads' \subseteq threads /\ proj' \in [Jids -> Projection]
        /\ \A t \in Jids : proj'[t] = proj[t]
    BY <1>1
  <1> QED BY <1>2, <1>4, <1>5, <1>6, <1>7, <1>8, WorkKeeps

LEMMA ClaimKeeps ==
    ASSUME IInv, Claim PROVE IInv'
  <1>1. PICK i \in JobIds : /\ dequeue_next_job(i, Types)
                            /\ worker' = [NoWork EXCEPT !.pc = "claimed", !.job = i]
    BY DEF Claim
  <1>2. JobsTypeOK
    BY Found
  <1>3. /\ RowsKept /\ JobsTypeOK' /\ jobs'[i].state \in ActiveJobStates
        /\ \A k \in JobIds \ {i} : jobs'[k] = jobs[k]
    BY <1>1, <1>2, TableSteps
  <1>4. worker' \in WorkerSet /\ worker'.pc = "claimed" /\ worker'.job = i
    BY <1>1 DEF NoWork, WorkerSet
  <1>5. Working'
    BY <1>3, <1>4 DEF Working, Busy, IsActive
  <1>6. \A j \in JobIds : IsActive(j) => jobs'[j].state \in ActiveJobStates
    BY <1>3 DEF IsActive
  <1>7. spent.crashes = 0 => \A j \in JobIds :
            ~(jobs'[j].state \in ActiveJobStates /\ proj[jid[j]].status = "review")
    <2>1. \A j \in JobIds : jobs'[j].state \in ActiveJobStates => IsActive(j)
      BY <1>3 DEF RowsKept, RowStays, IsActive
    <2> QED BY <2>1 DEF IInv, Stopped, Claim
  <1> QED BY <1>3, <1>4, <1>5, <1>6, <1>7, QuietKeeps DEF Claim, Works

LEMMA DueAndCancelKeep ==
    ASSUME IInv, RetryFallsDue \/ job_cancel PROVE IInv'
  <1>1. JobsTypeOK /\ worker \in WorkerSet
    BY Found
  <1>2. /\ RowsKept /\ JobsTypeOK'
        /\ \A k \in JobIds : IsActive(k) => jobs'[k].state \in ActiveJobStates
    BY <1>1, TableSteps DEF RetryFallsDue, job_cancel, IsActive
  <1>3. /\ Works \/ Request
        /\ UNCHANGED <<jid, handler, worker, threads, proj, told, hold, offers, banned, removed, known>>
    BY DEF RetryFallsDue, job_cancel, Works
  <1>4. spent \in SpentSet
    BY Found
  <1>5. Grows /\ (Harmed' <=> Harmed)
    BY <1>3, <1>4, Spending
  <1>6. spent.crashes > 0 => spent'.crashes > 0
    BY <1>4, <1>5, Growth
  <1>7. Working'
    BY <1>2, <1>3, <1>5, <1>6 DEF IInv, Working, Busy, IsActive, Visible
  <1>8. spent.crashes = 0 => \A j \in JobIds :
            jobs'[j].state \in ActiveJobStates /\ proj[jid[j]].status = "review" =>
                worker'.pc = "ending" /\ worker'.job = j /\ worker'.outcome = "completed"
    <2>1. \A j \in JobIds : jobs'[j].state \in ActiveJobStates => IsActive(j)
      BY <1>2 DEF RowsKept, RowStays, IsActive
    <2> QED BY <1>3, <2>1 DEF IInv, Stopped
  <1> QED BY <1>1, <1>2, <1>3, <1>7, <1>8, QuietKeeps

\* The worker is rid of its job, which has ended, or goes back to the queue.
LEMMA FinishKeeps ==
    ASSUME IInv, Finish PROVE IInv'
  <1> DEFINE w == worker.job
  <1>1. /\ JobsTypeOK /\ w \in JobIds /\ IsActive(w) /\ jid[w] # 0
    BY Found DEF Finish, Busy
  <1>2. /\ RowsKept /\ JobsTypeOK' /\ \A k \in JobIds \ {w} : jobs'[k] = jobs[k]
        /\ \/ worker.outcome = "completed" /\ jobs'[w].state = "completed"
           \/ worker.outcome # "completed" /\ jobs'[w].state \in {"cancelled", "failed", "queued"}
    <2>1. CASE worker.outcome = "completed"
      BY <1>1, <2>1, TableSteps DEF Finish, mark_job_completed, TerminalJobStates
    <2>2. CASE worker.outcome = "cancelled"
      BY <1>1, <2>2, TableSteps DEF Finish, mark_job_cancelled, TerminalJobStates
    <2>3. CASE worker.outcome \notin {"completed", "cancelled"}
      BY <1>1, <2>3, TableSteps DEF Finish, mark_job_failed, TerminalJobStates
    <2> QED BY <2>1, <2>2, <2>3
  <1>3. worker' = NoWork /\ NoWork \in WorkerSet /\ NoWork.pc = "idle"
    BY DEF Finish, NoWork, WorkerSet
  <1>4. Working'
    BY <1>3 DEF Working, Busy
  <1>5. Shown(proj[jid[w]]) => Harmed /\ worker.outcome # "completed"
    BY DEF IInv, Working, Finish, Shown, Visible
  <1>6. \A j \in JobIds : Shown(proj[jid[j]]) /\ IsActive(j) =>
            \/ jobs'[j].state \in ActiveJobStates \cup {"cancelled"}
            \/ jobs'[j].state = "failed" /\ Harmed
    BY <1>2, <1>5 DEF IsActive, ActiveJobStates
  <1>7. spent.crashes = 0 => \A j \in JobIds :
            ~(jobs'[j].state \in ActiveJobStates /\ proj[jid[j]].status = "review")
    <2>1. \A j \in JobIds : jobs'[j].state \in ActiveJobStates => IsActive(j)
      BY <1>2 DEF RowsKept, RowStays, IsActive
    <2> QED BY <1>2, <2>1 DEF IInv, Stopped, ActiveJobStates
  <1> QED BY <1>2, <1>3, <1>4, <1>6, <1>7, QuietKeeps DEF Finish, Works
\* A step that writes the projection of one grab, a job's or a thread's.
LEMMA ProjectionKeeps ==
    ASSUME IInv, Works, NEW t \in Jids, NEW p \in Projection,
           UNCHANGED <<jobs, jid, handler, told, hold, offers, banned, removed, known>>,
           proj' = [proj EXCEPT ![t] = p], p.status \notin {"none", "queued", "lost"},
           InTable(t) \/ t \in threads,
           worker' \in WorkerSet, threads' \subseteq threads, threads \ {t} \subseteq threads',
           Working',
           Shown(p) => \/ Shown(proj[t]) /\ t \in threads'
                       \/ InTable(t) /\ \A j \in JobIds : jid[j] = t => IsActive(j),
           spent.crashes = 0 => \A j \in JobIds :
               IsActive(j) /\ proj'[jid[j]].status = "review" =>
                   worker'.pc = "ending" /\ worker'.job = j /\ worker'.outcome = "completed",
           t \in removed /\ (spent.crashes = 0 \/ spent.failures = 0) =>
               p.hidden \/ p.status = "review"
    PROVE  IInv'
  <1>1. /\ JobsTypeOK /\ jid \in [JobIds -> Jids \cup {0}]
        /\ spent \in SpentSet /\ proj \in [Jids -> Projection]
        /\ told \subseteq Jids /\ removed \subseteq told /\ threads \subseteq Jids
    BY Found
  <1>2. RowsKept /\ JobsTypeOK'
    BY <1>1, TableSteps
  <1>3. Grows /\ (Harmed' <=> Harmed)
    BY <1>1, Spending
  <1>4. proj' \in [Jids -> Projection] /\ proj'[t] = p /\ \A u \in Jids \ {t} : proj'[u] = proj[u]
    BY <1>1
  <1>5. proj[t].status # "none"
    BY GrabIntakeAssumption DEF IInv, Named, InTable
  <1>6. \A u \in Jids : \/ proj'[u] = proj[u]
                        \/ /\ proj[u].status # "none" /\ proj'[u].status \notin {"none", "queued"}
                           /\ InTable(u) \/ u \in threads \/ handler.pc = "idle"
                           /\ proj'[u].status # "lost"
    BY <1>4, <1>5
  <1>7. \A j \in JobIds : jid[j] # 0 /\ Shown(proj'[jid[j]]) =>
            /\ Shown(proj[jid[j]]) \/ jobs'[j].state \in ActiveJobStates
            /\ IsActive(j) => jobs'[j].state \in ActiveJobStates \cup {"cancelled"}
    BY <1>1, <1>4 DEF IsActive
  <1>8. \A u \in told : ~InTable(u) /\ Shown(proj'[u]) =>
            Shown(proj[u]) /\ (u \in threads => u \in threads' \/ spent'.crashes > 0)
    BY <1>1, <1>4
  <1>9. spent'.crashes = 0 \/ spent'.failures = 0 =>
            \A u \in removed : proj'[u].hidden \/ proj'[u].status \in {"review", "lost"}
    BY <1>1, <1>4 DEF Works, IInv, RemovalSticks
  <1>10. spent'.crashes = 0 => \A j \in JobIds :
            jobs'[j].state \in ActiveJobStates /\ proj'[jid[j]].status = "review" =>
                worker'.pc = "ending" /\ worker'.job = j /\ worker'.outcome = "completed"
    BY DEF Works, IsActive
  <1> QED BY <1>2, <1>3, <1>4, <1>6, <1>7, <1>8, <1>9, <1>10, WorkKeeps

\* What a pipeline leaves of a projection.
LEMMA Endings ==
    ASSUME NEW p \in Projection, NEW e \in {"done", "failed", "review"}
    PROVE  /\ Ended(p)[e] \in Projection
           /\ Ended(p)[e].status \in {"done", "review"}
           /\ Ended(p)[e].status = "review" <=> e = "review"
           /\ p.hidden => Ended(p)[e].hidden \/ e = "review"
  <1>1. /\ Ended(p).done = [p EXCEPT !.status = "done", !.hidden = TRUE]
        /\ Ended(p).failed = [p EXCEPT !.status = "done"]
        /\ Ended(p).review = [status |-> "review", hidden |-> FALSE]
    BY DEF Ended
  <1>2. CASE e = "done"
    BY <1>1, <1>2 DEF Projection
  <1>3. CASE e = "failed"
    BY <1>1, <1>3 DEF Projection
  <1>4. CASE e = "review"
    <2> DEFINE r == [status |-> "review", hidden |-> FALSE]
    <2>1. r \in Projection /\ r.status = "review"
      BY DEF Projection
    <2>2. Ended(p)[e] = r
      BY <1>1, <1>4
    <2> HIDE DEF r
    <2> QED BY <1>4, <2>1, <2>2
  <1> QED BY <1>2, <1>3, <1>4

\* The worker's own grab.
LEMMA Own ==
    ASSUME IInv, Busy
    PROVE  /\ worker.job \in JobIds /\ IsActive(worker.job) /\ jid[worker.job] \in Jids
           /\ InTable(jid[worker.job])
           /\ \A j \in JobIds : jid[j] = jid[worker.job] => j = worker.job
           /\ proj[jid[worker.job]] \in Projection
           /\ proj[jid[worker.job]].status # "none"
  <1>1. /\ worker.job \in JobIds /\ IsActive(worker.job) /\ jid[worker.job] \in Jids
        /\ jid[worker.job] # 0 /\ proj \in [Jids -> Projection]
    BY Found
  <1> QED BY <1>1 DEF IInv, Named, InTable

LEMMA StartKeeps ==
    ASSUME IInv, Start PROVE IInv'
  <1> DEFINE w == worker.job
  <1> DEFINE t == jid[w]
  <1>1. /\ w \in JobIds /\ IsActive(w) /\ t \in Jids /\ InTable(t)
        /\ \A j \in JobIds : jid[j] = t => j = w
        /\ proj[t] \in Projection /\ proj[t].status # "none"
    BY Own DEF Start, Busy
  <1>2. JobsTypeOK /\ worker \in WorkerSet /\ t # 0
    BY Found DEF Start, Busy
  <1>3. spent.crashes = 0 => \A j \in JobIds : ~(IsActive(j) /\ proj[jid[j]].status = "review")
    BY DEF IInv, Stopped, Start
  <1>4. CASE is_job_cancel_requested(w)
    <2>1. /\ RowsKept /\ JobsTypeOK' /\ jobs'[w].state = "cancelled"
          /\ \A k \in JobIds \ {w} : jobs'[k] = jobs[k]
      BY <1>1, <1>2, <1>4, TableSteps DEF Start, mark_job_cancelled, TerminalJobStates
    <2>2. worker' = NoWork /\ NoWork \in WorkerSet /\ NoWork.pc = "idle"
      BY <1>4 DEF Start, NoWork, WorkerSet
    <2>3. Working'
      BY <2>2 DEF Working, Busy
    <2>4. \A j \in JobIds : IsActive(j) => jobs'[j].state \in ActiveJobStates \cup {"cancelled"}
      BY <2>1 DEF IsActive
    <2>5. \A j \in JobIds : jobs'[j].state \in ActiveJobStates => IsActive(j)
      BY <2>1 DEF RowsKept, RowStays, IsActive
    <2> QED BY <1>3, <1>4, <2>1, <2>2, <2>3, <2>4, <2>5, QuietKeeps DEF Start, Works
  <1>5. CASE ~is_job_cancel_requested(w)
    <2> DEFINE p == [proj[t] EXCEPT !.status = "active"]
    <2>1. p \in Projection /\ p.status = "active" /\ p.hidden = proj[t].hidden
      BY <1>1 DEF Projection
    <2>2. proj' = [proj EXCEPT ![t] = p] /\ worker' = [worker EXCEPT !.pc = "running"] /\ UNCHANGED jobs
      BY <1>5 DEF Start
    <2> HIDE DEF p
    <2>3. worker' \in WorkerSet /\ worker'.pc = "running" /\ worker'.job = w
      BY <1>2, <2>2 DEF WorkerSet
    <2>4. proj \in [Jids -> Projection] /\ jid \in [JobIds -> Jids \cup {0}]
      BY Found
    <2>5. proj'[t] = p /\ \A u \in Jids \ {t} : proj'[u] = proj[u]
      BY <1>1, <2>2, <2>4
    <2>6. UNCHANGED <<jid, handler, threads, told, hold, offers, banned, removed, known, spent>>
      BY DEF Start
    <2>7. Working'
      BY <1>1, <2>1, <2>2, <2>3, <2>5, <2>6 DEF Working, Busy, IsActive
    <2>8. spent.crashes = 0 => \A j \in JobIds : ~(IsActive(j) /\ proj'[jid[j]].status = "review")
      <3>1. \A j \in JobIds : IsActive(j) => jid[j] \in Jids
        BY Found
      <3> QED BY <1>3, <2>1, <2>5, <3>1
    <2>9. t \in removed /\ (spent.crashes = 0 \/ spent.failures = 0) => p.hidden
      <3>1. spent.failures = 0 => t \notin removed
        BY <1>1, <1>5 DEF IInv, Stopped, is_job_cancel_requested
      <3>2. spent.crashes = 0 /\ t \in removed => proj[t].hidden
        BY <1>1, <1>3 DEF IInv, Named, RemovalSticks
      <3> QED BY <2>1, <3>1, <3>2
    <2> QED BY <1>1, <2>1, <2>2, <2>3, <2>6, <2>7, <2>8, <2>9, ProjectionKeeps DEF Works
  <1> QED BY <1>4, <1>5

LEMMA RunKeeps ==
    ASSUME IInv, Run PROVE IInv'
  <1> DEFINE w == worker.job
  <1> DEFINE t == jid[w]
  <1>1. /\ w \in JobIds /\ IsActive(w) /\ t \in Jids /\ InTable(t)
        /\ \A j \in JobIds : jid[j] = t => j = w
        /\ proj[t] \in Projection /\ proj[t].status = "active"
    BY Own DEF Run, Busy, IInv, Working
  <1>2. /\ JobsTypeOK /\ worker \in WorkerSet /\ t # 0 /\ spent \in SpentSet
        /\ proj \in [Jids -> Projection]
        /\ \A j \in JobIds : IsActive(j) => jid[j] \in Jids
    BY Found DEF Run, Busy
  <1>3. spent.crashes = 0 => \A j \in JobIds : ~(IsActive(j) /\ proj[jid[j]].status = "review")
    BY DEF IInv, Stopped, Run
  <1>4. spent.crashes = 0 \/ spent.failures = 0 => (t \in removed => proj[t].hidden)
    BY <1>1 DEF IInv, RemovalSticks
  <1>5. UNCHANGED <<jobs, jid, handler, threads, told, hold, offers, banned, removed, known>>
    BY DEF Run
  <1>6. ASSUME Works, NEW p \in Projection, proj' = [proj EXCEPT ![t] = p],
               NEW o \in {"completed", "raised", "cancelled"},
               worker' = [worker EXCEPT !.pc = "ending", !.outcome = o],
               p.status \in {"done", "review"}, p.status = "review" => o = "completed",
               proj[t].hidden => p.hidden \/ p.status = "review"
        PROVE  IInv'
    <2>1. worker' \in WorkerSet /\ worker'.pc = "ending" /\ worker'.job = w /\ worker'.outcome = o
      BY <1>2, <1>6 DEF WorkerSet
    <2>2. proj'[t] = p /\ \A u \in Jids \ {t} : proj'[u] = proj[u]
      BY <1>1, <1>2, <1>6
    <2>3. ~Shown(p)
      BY <1>6 DEF Shown
    <2>4. Working'
      BY <1>1, <1>5, <2>1, <2>2, <2>3 DEF Working, Busy, IsActive, Visible, Shown
    <2>5. spent.crashes = 0 => \A j \in JobIds :
               IsActive(j) /\ proj'[jid[j]].status = "review" =>
                   worker'.pc = "ending" /\ worker'.job = j /\ worker'.outcome = "completed"
      BY <1>1, <1>2, <1>3, <1>6, <2>1, <2>2
    <2> QED BY <1>1, <1>4, <1>5, <1>6, <2>1, <2>3, <2>4, <2>5, ProjectionKeeps
  <1>7. CASE /\ is_job_cancel_requested(worker.job)
             /\ proj' = [proj EXCEPT ![t] = [status |-> "done", hidden |-> TRUE]]
             /\ worker' = [worker EXCEPT !.pc = "ending", !.outcome = "cancelled"]
             /\ Works
    <2> DEFINE p == [status |-> "done", hidden |-> TRUE]
    <2>1. p \in Projection /\ p.status = "done" /\ p.hidden
      BY DEF Projection
    <2>2. proj' = [proj EXCEPT ![t] = p]
      BY <1>7
    <2> HIDE DEF p
    <2> QED BY <1>6, <1>7, <2>1, <2>2
  <1>8. ASSUME NEW e \in {"done", "failed", "review"}, NEW o \in {"completed", "raised"},
               e = "review" => o = "completed",
               proj' = [proj EXCEPT ![t] = Ended(@)[e]],
               worker' = [worker EXCEPT !.pc = "ending", !.outcome = o],
               Works
        PROVE  IInv'
    <2> DEFINE p == Ended(proj[t])[e]
    <2>1. /\ p \in Projection /\ p.status \in {"done", "review"}
          /\ p.status = "review" <=> e = "review"
          /\ proj[t].hidden => p.hidden \/ e = "review"
      BY <1>1, Endings
    <2>2. proj' = [proj EXCEPT ![t] = p]
      BY <1>8
    <2> HIDE DEF p
    <2> QED BY <1>6, <1>8, <2>1, <2>2
  <1>9. ASSUME Failure, worker' = [worker EXCEPT !.pc = "ending", !.outcome = "raised"],
               UNCHANGED proj
        PROVE  IInv'
    <2>1. Grows /\ Harmed'
      BY <1>2, <1>9, Spending
    <2>2. /\ spent'.failures = 0 => spent.failures = 0
          /\ spent'.crashes = 0 => spent.crashes = 0
      BY <1>2, <2>1, Growth
    <2>3. worker' \in WorkerSet /\ worker'.pc = "ending" /\ worker'.job = w /\ worker'.outcome = "raised"
      BY <1>2, <1>9 DEF WorkerSet
    <2>4. RowsKept /\ JobsTypeOK'
      BY <1>2, <1>5, TableSteps
    <2>5. Working'
      BY <1>1, <1>5, <2>1, <2>3 DEF Working, Busy, IsActive
    <2>6. spent'.crashes = 0 \/ spent'.failures = 0 =>
               \A u \in removed : proj'[u].hidden \/ proj'[u].status \in {"review", "lost"}
      BY <1>9, <2>2 DEF IInv, RemovalSticks
    <2>7. spent'.crashes = 0 => \A j \in JobIds :
               ~(jobs'[j].state \in ActiveJobStates /\ proj'[jid[j]].status = "review")
      BY <1>3, <1>5, <1>9, <2>2 DEF IsActive
    <2>8. \A j \in JobIds : jid[j] # 0 /\ Shown(proj'[jid[j]]) =>
            /\ Shown(proj[jid[j]])
            /\ IsActive(j) => jobs'[j].state \in ActiveJobStates
      BY <1>5, <1>9 DEF IsActive
    <2>9. proj' \in [Jids -> Projection] /\ threads' \subseteq threads /\ \A u \in Jids : proj'[u] = proj[u]
      BY <1>2, <1>5, <1>9
    <2>10. \A u \in told : ~InTable(u) /\ Shown(proj'[u]) =>
               Shown(proj[u]) /\ (u \in threads => u \in threads' \/ spent'.crashes > 0)
      BY <1>5, <1>9
    <2> QED BY <1>5, <2>1, <2>3, <2>4, <2>5, <2>6, <2>7, <2>8, <2>9, <2>10, WorkKeeps
  <1> QED BY <1>7, <1>8, <1>9 DEF Run
LEMMA ThreadKeeps ==
    ASSUME IInv, _run_download_job PROVE IInv'
  <1>1. PICK t \in threads :
          \/ /\ proj[t].status = "queued"
             /\ proj' = [proj EXCEPT ![t].status = "active"]
             /\ UNCHANGED threads
          \/ /\ proj[t].status = "active"
             /\ \E e \in {"done", "failed", "review"} :
                   proj' = [proj EXCEPT ![t] = Ended(@)[e]]
             /\ threads' = threads \ {t}
    BY DEF _run_download_job
  <1>2. UNCHANGED <<jobs, jid, handler, worker, told, hold, offers, banned, removed, known, spent>>
    BY DEF _run_download_job
  <1>3. /\ worker \in WorkerSet /\ proj \in [Jids -> Projection]
        /\ t \in Jids /\ proj[t] \in Projection /\ t \in threads
        /\ \A j \in JobIds : IsActive(j) => jid[j] \in Jids
        /\ Busy => worker.job \in JobIds /\ jid[worker.job] \in Jids
    BY Found
  <1>4. \A j \in JobIds : jid[j] # t
    BY DEF IInv, Named, InTable
  <1>5. proj[t].status \in {"queued", "active"}
    BY <1>1
  <1>6. spent.crashes = 0 \/ spent.failures = 0 => (t \in removed => proj[t].hidden)
    BY <1>5 DEF IInv, RemovalSticks
  <1>7. ASSUME NEW p \in Projection, proj' = [proj EXCEPT ![t] = p],
               p.status \notin {"none", "queued", "lost"},
               threads' \subseteq threads, threads \ {t} \subseteq threads',
               Shown(p) => Shown(proj[t]) /\ t \in threads',
               proj[t].hidden => p.hidden \/ p.status = "review"
        PROVE  IInv'
    <2>1. \A u \in Jids \ {t} : proj'[u] = proj[u]
      BY <1>3, <1>7
    <2>2. Working'
      BY <1>2, <1>3, <1>4, <2>1 DEF IInv, Working, Busy, IsActive, Visible, Harmed
    <2>3. spent.crashes = 0 => \A j \in JobIds :
               IsActive(j) /\ proj'[jid[j]].status = "review" =>
                   worker'.pc = "ending" /\ worker'.job = j /\ worker'.outcome = "completed"
      BY <1>2, <1>3, <1>4, <2>1 DEF IInv, Stopped
    <2> QED BY <1>2, <1>3, <1>6, <1>7, <2>2, <2>3, ProjectionKeeps DEF Works
  <1>8. CASE /\ proj[t].status = "queued"
             /\ proj' = [proj EXCEPT ![t].status = "active"]
             /\ UNCHANGED threads
    <2> DEFINE p == [proj[t] EXCEPT !.status = "active"]
    <2>1. p \in Projection /\ p.status = "active" /\ p.hidden = proj[t].hidden
      BY <1>3 DEF Projection
    <2>2. proj' = [proj EXCEPT ![t] = p]
      BY <1>8
    <2> HIDE DEF p
    <2>3. Shown(p) => Shown(proj[t])
      BY <1>8, <2>1 DEF Shown
    <2> QED BY <1>3, <1>7, <1>8, <2>1, <2>2, <2>3
  <1>9. ASSUME NEW e \in {"done", "failed", "review"},
               proj' = [proj EXCEPT ![t] = Ended(@)[e]], threads' = threads \ {t}
        PROVE  IInv'
    <2> DEFINE p == Ended(proj[t])[e]
    <2>1. /\ p \in Projection /\ p.status \in {"done", "review"}
          /\ p.status = "review" <=> e = "review"
          /\ proj[t].hidden => p.hidden \/ e = "review"
      BY <1>3, Endings
    <2>2. proj' = [proj EXCEPT ![t] = p]
      BY <1>9
    <2> HIDE DEF p
    <2>3. ~Shown(p)
      BY <2>1 DEF Shown
    <2> QED BY <1>7, <1>9, <2>1, <2>2, <2>3
  <1> QED BY <1>1, <1>8, <1>9

LEMMA CrashKeeps ==
    ASSUME IInv, Crash PROVE IInv'
  <1>1. JobsTypeOK /\ spent \in SpentSet /\ proj \in [Jids -> Projection]
        /\ jid \in [JobIds -> Jids \cup {0}] /\ told \subseteq Jids /\ removed \subseteq told
    BY Found
  <1>2. Grows /\ Harmed' /\ spent'.crashes > 0
    BY <1>1, Spending DEF Crash
  <1>3. /\ spent'.failures = 0 => spent.failures = 0
        /\ spent'.crashes # 0
    BY <1>1, <1>2, Growth
  <1>4. /\ UNCHANGED <<jobs, jid, told, hold, offers, banned, removed, known>>
        /\ handler' = Idle /\ threads' = {}
    BY DEF Crash
  <1>5. worker' \in WorkerSet /\ worker'.pc = "down"
    BY DEF Crash, NoWork, WorkerSet
  <1>6. Working'
    BY <1>2, <1>4, <1>5 DEF Working, Busy, Idle
  <1>7. RowsKept /\ JobsTypeOK'
    BY <1>1, <1>4, TableSteps
  <1>8. LostProjection \in Projection /\ LostProjection.status = "lost" /\ ~Shown(LostProjection)
    BY DEF LostProjection, NoProjection, Projection, Shown
  <1>9. /\ proj' \in [Jids -> Projection]
        /\ \A u \in Jids : \/ proj'[u] = proj[u]
                           \/ proj[u].status # "none" /\ proj'[u] = LostProjection
    <2>1. CASE UNCHANGED proj
      BY <1>1, <2>1
    <2>2. CASE proj' = [t \in Jids |-> IF proj[t].status = "none" THEN proj[t] ELSE LostProjection]
      BY <1>1, <1>8, <2>2
    <2> QED BY <2>1, <2>2 DEF Crash
  <1>10. \A u \in Jids : /\ Shown(proj'[u]) => Shown(proj[u])
                         /\ proj'[u].hidden \/ proj'[u].status = "lost" \/ proj'[u] = proj[u]
    BY <1>8, <1>9
  <1>11. spent'.crashes = 0 \/ spent'.failures = 0 =>
               \A u \in removed : proj'[u].hidden \/ proj'[u].status \in {"review", "lost"}
    BY <1>1, <1>3, <1>10 DEF IInv, RemovalSticks
  <1>12. \A j \in JobIds : jid[j] # 0 /\ Shown(proj'[jid[j]]) =>
            /\ Shown(proj[jid[j]])
            /\ IsActive(j) => jobs'[j].state \in ActiveJobStates
    BY <1>1, <1>4, <1>10 DEF IsActive
  <1>13. /\ threads' \subseteq threads
         /\ \A u \in told : Shown(proj'[u]) => Shown(proj[u])
    BY <1>1, <1>4, <1>10
  <1>14. \A u \in Jids : \/ proj'[u] = proj[u]
                         \/ proj[u].status # "none" /\ proj'[u].status = "lost"
    BY <1>8, <1>9
  <1> QED BY <1>2, <1>3, <1>4, <1>5, <1>6, <1>7, <1>9, <1>11, <1>12, <1>13, <1>14, WorkKeeps

\* Boot comes after a crash, with no handler at work.
LEMMA BootKeeps ==
    ASSUME IInv, Boot PROVE IInv'
  <1>1. JobsTypeOK /\ spent \in SpentSet /\ proj \in [Jids -> Projection]
        /\ jid \in [JobIds -> Jids \cup {0}] /\ told \subseteq Jids /\ removed \subseteq told
    BY Found
  <1>2. handler.pc = "idle" /\ spent.crashes > 0
    BY DEF IInv, Working, Boot
  <1>3. spent.crashes # 0 /\ Harmed
    BY <1>1, <1>2, GrabIntakeAssumption DEF Harmed, SpentSet
  <1>4. UNCHANGED <<jid, handler, threads, told, hold, offers, banned, removed, known, spent>>
    BY DEF Boot
  <1>5. Grows /\ Harmed'
    BY <1>1, <1>3, <1>4, Spending DEF Works
  <1>6. worker' \in WorkerSet /\ worker'.pc = "idle"
    BY DEF Boot, NoWork, WorkerSet
  <1>7. Working'
    BY <1>6 DEF Working, Busy
  <1>8. /\ RowsKept /\ JobsTypeOK'
        /\ \A k \in JobIds : IsActive(k) => jobs'[k].state \in ActiveJobStates \cup {"failed"}
    BY <1>1, TableSteps DEF Boot
  <1>9. PICK old \in SUBSET {t \in Jids : proj[t].status \in {"queued", "active"}} :
          proj' = [t \in Jids |-> IF t \in old THEN [proj[t] EXCEPT !.status = "done"]
                                               ELSE proj[t]]
    BY DEF Boot
  <1>10. \A t \in Jids : /\ proj'[t] \in Projection
                         /\ \/ proj'[t] = proj[t]
                            \/ /\ proj[t].status \in {"queued", "active"}
                               /\ proj'[t].status = "done" /\ proj'[t].hidden = proj[t].hidden
    <2> SUFFICES ASSUME NEW t \in Jids
                 PROVE  /\ proj'[t] \in Projection
                        /\ \/ proj'[t] = proj[t]
                           \/ /\ proj[t].status \in {"queued", "active"}
                              /\ proj'[t].status = "done" /\ proj'[t].hidden = proj[t].hidden
      OBVIOUS
    <2> DEFINE r == [proj[t] EXCEPT !.status = "done"]
    <2>1. proj[t] \in Projection
      BY <1>1
    <2>2. r \in Projection /\ r.status = "done" /\ r.hidden = proj[t].hidden
      BY <2>1 DEF Projection
    <2>3. proj'[t] = IF t \in old THEN r ELSE proj[t]
      BY <1>9
    <2>4. t \in old => proj[t].status \in {"queued", "active"}
      OBVIOUS
    <2> HIDE DEF r
    <2> QED BY <2>1, <2>2, <2>3, <2>4
  <1>11. proj' \in [Jids -> Projection]
    <2>1. proj' = [t \in Jids |-> proj'[t]]
      BY <1>9
    <2> QED BY <1>10, <2>1
  <1>12. \A t \in Jids : Shown(proj'[t]) => Shown(proj[t])
    BY <1>10 DEF Shown
  <1>13. \A t \in Jids : \/ proj'[t] = proj[t]
                         \/ proj[t].status # "none" /\ proj'[t].status \notin {"none", "queued"}
    BY <1>10
  <1>14. spent'.crashes = 0 \/ spent'.failures = 0 =>
               \A u \in removed : proj'[u].hidden \/ proj'[u].status \in {"review", "lost"}
    BY <1>1, <1>4, <1>10 DEF IInv, RemovalSticks
  <1>15. \A j \in JobIds : jid[j] # 0 /\ Shown(proj'[jid[j]]) => Shown(proj[jid[j]])
    BY <1>1, <1>12
  <1>16. \A t \in told : Shown(proj'[t]) => Shown(proj[t])
    BY <1>1, <1>12
  <1> QED BY <1>2, <1>3, <1>4, <1>5, <1>6, <1>7, <1>8, <1>11, <1>13, <1>14, <1>15, <1>16, WorkKeeps
-----------------------------------------------------------------------------
(* Searches and the hold *)

\* A step that touches neither a grab nor the handler.
LEMMA BesideKeeps ==
    ASSUME IInv, Grows,
           UNCHANGED <<jobs, jid, handler, worker, threads, proj, told, removed, known>>,
           hold' \in {"none", "live", "lapsed", "cleared"},
           offers' \in [Keys -> {"none", "early", "late"}], banned' \in BOOLEAN,
           banned' /\ known /\ ~Harmed' => hold' = "live" \/ handler.pc = "hold",
           known /\ ~Harmed' => \A k \in Keys : offers'[k] # "late"
    PROVE  IInv'
  <1>1. /\ JobsTypeOK /\ jid \in [JobIds -> Jids \cup {0}]
        /\ \A j \in JobIds : jid[j] = 0 <=> jobs[j].state = "absent"
        /\ handler \in HandlerSet /\ worker \in WorkerSet /\ spent \in SpentSet
        /\ threads \subseteq Jids /\ told \subseteq Jids /\ removed \subseteq told
        /\ proj \in [Jids -> Projection] /\ known \in BOOLEAN
    BY Found
  <1>2. JobsTypeOK'
    BY <1>1, TableSteps
  <1>3. TypeOK'
    BY <1>1, <1>2, Typed
  <1>4. /\ spent'.failures = 0 => spent.failures = 0
        /\ spent'.failures <= 1 => spent.failures <= 1
        /\ spent'.crashes = 0 => spent.crashes = 0
        /\ spent.crashes > 0 => spent'.crashes > 0
        /\ Harmed => Harmed'
    BY <1>1, Growth
  <1>5. Named' /\ Removing'
    BY <1>4 DEF IInv, Named, Removing, InTable
  <1>6. Drawn'
    BY <1>4 DEF IInv, Drawn, Astray, InTable, find_active_job_by_dedupe, IsActive
  <1>7. Working'
    BY <1>4 DEF IInv, Working, Busy, IsActive, Visible
  <1>8. Carrying'
    BY <1>4 DEF IInv, Carrying, IsActive, Visible, InTable
  <1>9. Stopped'
    BY <1>4 DEF IInv, Stopped, IsActive
  <1>10. Banning'
    BY DEF Banning
  <1>11. RemovalSticks'
    BY <1>4 DEF IInv, RemovalSticks
  <1> QED BY <1>3, <1>5, <1>6, <1>7, <1>8, <1>9, <1>10, <1>11 DEF IInv

LEMMA SearchKeeps ==
    ASSUME IInv, newznab PROVE IInv'
  <1>1. /\ spent \in SpentSet /\ hold \in {"none", "live", "lapsed", "cleared"}
        /\ offers \in [Keys -> {"none", "early", "late"}] /\ banned \in BOOLEAN
    BY Found
  <1>2. PICK k \in Keys : offers' = [offers EXCEPT ![k] = IF banned THEN "late" ELSE "early"]
    BY DEF newznab
  <1>3. offers' \in [Keys -> {"none", "early", "late"}]
    BY <1>1, <1>2
  <1>4. UNCHANGED <<jobs, jid, handler, worker, threads, proj, told, hold, banned, removed, known>>
    BY DEF newznab
  <1>5. CASE _album_hold_suppressed_album_id
    <2>1. Grows /\ Harmed'
      BY <1>1, <1>5, Spending DEF newznab
    <2> QED BY <1>1, <1>3, <1>4, <2>1, BesideKeeps
  <1>6. CASE ~_album_hold_suppressed_album_id
    <2>1. Grows /\ (Harmed' <=> Harmed)
      BY <1>1, <1>6, Spending DEF newznab
    <2>2. known /\ ~Harmed => ~banned
      BY <1>6 DEF IInv, Banning, newznab, Free, _album_hold_suppressed_album_id, get_album_hold
    <2>3. known /\ ~Harmed => \A i \in Keys : offers'[i] # "late"
      BY <1>1, <1>2, <2>2 DEF IInv, RemovalSticks
    <2> QED BY <1>1, <1>3, <1>4, <2>1, <2>2, <2>3, BesideKeeps
  <1> QED BY <1>5, <1>6

LEMMA HoldKeeps ==
    ASSUME IInv, album_hold_create \/ album_hold_clear \/ HoldRunsOut PROVE IInv'
  <1>1. /\ spent \in SpentSet /\ hold \in {"none", "live", "lapsed", "cleared"}
        /\ offers \in [Keys -> {"none", "early", "late"}] /\ banned \in BOOLEAN
    BY Found
  <1>2. UNCHANGED <<jobs, jid, handler, worker, threads, proj, told, offers, removed, known>>
    BY DEF album_hold_create, album_hold_clear, HoldRunsOut
  <1>3. Works \/ Request
    BY DEF album_hold_create, album_hold_clear, HoldRunsOut, Works
  <1>4. Grows /\ (Harmed' <=> Harmed)
    BY <1>1, <1>3, Spending
  <1>5. /\ hold' \in {"none", "live", "lapsed", "cleared"} /\ banned' \in BOOLEAN
        /\ hold' = "live" \/ banned' = FALSE
    BY <1>1 DEF album_hold_create, create_album_hold, album_hold_clear, clear_album_hold, HoldRunsOut
  <1>6. known /\ ~Harmed' => \A i \in Keys : offers'[i] # "late"
    BY <1>2, <1>4 DEF IInv, RemovalSticks
  <1> QED BY <1>1, <1>2, <1>4, <1>5, <1>6, BesideKeeps
-----------------------------------------------------------------------------
(* A removal *)

RemovalPcs == {"idle", "cancel", "hold", "hide"}

\* Every step of _cancel_and_hide_job.
LEMMA RemoveKeeps ==
    ASSUME IInv, JobsTypeOK', RowsKept, Grows,
           \A j \in JobIds : IsActive(j) => jobs'[j].state \in ActiveJobStates,
           worker.pc # "down" \/ handler'.pc = "idle",
           handler' \in HandlerSet, handler'.pc \in RemovalPcs,
           UNCHANGED <<jid, worker, threads, told, offers, known>>,
           hold' \in {"none", "live", "lapsed", "cleared"}, banned' \in BOOLEAN,
           removed' \subseteq told, proj' \in [Jids -> Projection],
           \A t \in Jids : proj'[t].status = proj[t].status /\ (proj[t].hidden => proj'[t].hidden),
           \A t \in removed' : t \in removed \/ proj'[t].hidden \/ proj'[t].status = "lost",
           Removing', Banning',
           spent'.failures = 0 => \A j \in JobIds :
               jobs'[j].state \in ActiveJobStates
               /\ (jid[j] \in removed' \/ (handler'.pc \in {"hold", "hide"} /\ jid[j] = handler'.jid))
                   => jobs'[j].cancel
    PROVE  IInv'
  <1>1. /\ jid \in [JobIds -> Jids \cup {0}]
        /\ \A j \in JobIds : jid[j] = 0 <=> jobs[j].state = "absent"
        /\ worker \in WorkerSet /\ spent \in SpentSet
        /\ threads \subseteq Jids /\ told \subseteq Jids /\ removed \subseteq told
        /\ offers \in [Keys -> {"none", "early", "late"}] /\ known \in BOOLEAN
        /\ \A j \in JobIds : IsActive(j) => jid[j] \in Jids
        /\ Busy => worker.job \in JobIds /\ IsActive(worker.job) /\ jid[worker.job] \in Jids
    BY Found
  <1>2. \A j \in JobIds : /\ jobs'[j].state = "absent" <=> jobs[j].state = "absent"
                          /\ jobs'[j].state \in ActiveJobStates => IsActive(j)
                          /\ ~IsActive(j) => jobs'[j].state = jobs[j].state
    BY DEF RowsKept, RowStays, IsActive
  <1>3. TypeOK'
    BY <1>1, <1>2, Typed
  <1>4. /\ spent'.failures <= 1 => spent.failures <= 1
        /\ spent'.failures = 0 => spent.failures = 0
        /\ spent'.crashes = 0 => spent.crashes = 0
        /\ spent.crashes > 0 => spent'.crashes > 0
        /\ Harmed => Harmed'
    BY <1>1, Growth
  <1>5. \A t \in Jids : Shown(proj'[t]) => Shown(proj[t])
    BY DEF Shown
  <1>6. \A j \in JobIds : jid[j] # 0 => jid[j] \in Jids
    BY <1>1
  <1>7. Named'
    BY <1>1, <1>4, <1>6 DEF IInv, Named, InTable
  <1>8. Drawn'
    BY DEF Drawn, Astray, RemovalPcs
  <1>9. Working'
    <2>1. worker'.pc = "down" => handler'.pc = "idle" /\ spent'.crashes > 0
      BY <1>4 DEF IInv, Working
    <2>2. Busy' => worker'.job \in JobIds /\ jobs'[worker'.job].state \in ActiveJobStates
      BY <1>1 DEF Busy
    <2>3. worker'.pc = "running" => proj'[jid'[worker'.job]].status = "active"
      BY <1>1 DEF IInv, Working, Busy
    <2>4. worker'.pc = "ending" /\ Shown(proj'[jid'[worker'.job]]) =>
              Harmed' /\ worker'.outcome # "completed"
      BY <1>1, <1>4, <1>5 DEF IInv, Working, Busy, Visible, Shown
    <2> QED BY <2>1, <2>2, <2>3, <2>4 DEF Working, IsActive, Visible, Shown
  <1>10. Carrying'
    <2>1. \A j \in JobIds : jid[j] # 0 /\ Shown(proj'[jid[j]]) =>
              \/ jobs'[j].state \in ActiveJobStates \/ jobs'[j].state = "cancelled"
              \/ jobs'[j].state = "failed" /\ Harmed'
      BY <1>2, <1>4, <1>5, <1>6 DEF IInv, Carrying, Visible, Shown
    <2>2. spent'.failures <= 1 => \A t \in told : Shown(proj'[t]) =>
              t \in threads' \/ InTable(t) \/ spent'.crashes > 0
      BY <1>1, <1>4, <1>5 DEF IInv, Carrying, Visible, Shown
    <2> QED BY <2>1, <2>2 DEF Carrying, IsActive, Visible, Shown, InTable
  <1>11. Stopped'
    <2>1. spent'.crashes = 0 => \A j \in JobIds :
              jobs'[j].state \in ActiveJobStates /\ proj'[jid'[j]].status = "review" =>
                  worker'.pc = "ending" /\ worker'.job = j /\ worker'.outcome = "completed"
      BY <1>1, <1>2, <1>4 DEF IInv, Stopped
    <2> QED BY <2>1 DEF Stopped, IsActive
  <1>12. RemovalSticks'
    <2>1. spent'.crashes = 0 \/ spent'.failures = 0 =>
              \A t \in removed' : proj'[t].hidden \/ proj'[t].status \in {"review", "lost"}
      BY <1>1, <1>4 DEF IInv, RemovalSticks
    <2>2. known' /\ ~Harmed' => \A k \in Keys : offers'[k] # "late"
      BY <1>4 DEF IInv, RemovalSticks
    <2> QED BY <2>1, <2>2 DEF RemovalSticks
  <1> QED BY <1>3, <1>7, <1>8, <1>9, <1>10, <1>11, <1>12 DEF IInv

LEMMA DeleteKeeps ==
    ASSUME IInv, NEW t \in Jids, Delete(t) PROVE IInv'
  <1>1. /\ JobsTypeOK /\ spent \in SpentSet /\ proj \in [Jids -> Projection]
        /\ hold \in {"none", "live", "lapsed", "cleared"} /\ banned \in BOOLEAN
        /\ removed \subseteq told
    BY Found
  <1>2. /\ UNCHANGED <<jobs, jid, worker, threads, proj, told, hold, offers, banned, removed, known>>
        /\ handler.pc = "idle" /\ worker.pc # "down" /\ t \in told
    BY DEF Delete, Free
  <1>3. \/ /\ Works
           /\ \E j \in JobIds : jid[j] = t /\ handler' = [Idle EXCEPT !.pc = "cancel", !.jid = t, !.row = j]
        \/ /\ Failure \/ (Works /\ get_active_job_by_jid(t) = {})
           /\ handler' = [Idle EXCEPT !.pc = "hide", !.jid = t]
    <2>1. \A j \in get_active_job_by_jid(t) : j \in JobIds /\ jid[j] = t
      BY DEF get_active_job_by_jid
    <2>2. CASE get_active_job_by_jid(t) = {}
      BY <2>1, <2>2, Zenon DEF Delete
    <2>3. CASE get_active_job_by_jid(t) # {}
      BY <2>1, <2>3, Zenon DEF Delete
    <2> QED BY <2>2, <2>3
  <1>4. /\ handler' \in HandlerSet /\ handler'.pc \in {"cancel", "hide"} /\ handler'.jid = t
        /\ handler'.pc = "cancel" => handler'.row \in JobIds /\ jid[handler'.row] = t
        /\ handler'.pc = "hide" => Failure \/ get_active_job_by_jid(t) = {}
        /\ Works \/ Failure
    BY <1>3, JobStoreAssumption DEF Idle, HandlerSet, HandlerPcs
  <1>5. Grows /\ (Harmed => Harmed') /\ (Failure => spent'.failures > 0)
    BY <1>1, <1>4, Spending, Growth
  <1>6. /\ spent'.failures = 0 => spent.failures = 0
        /\ spent'.failures = 0 => ~Failure
    <2>1. spent'.failures \in Nat
      BY <1>5, GrabIntakeAssumption DEF Grows, SpentSet
    <2> QED BY <1>1, <1>5, <2>1, Growth
  <1>7. RowsKept /\ JobsTypeOK'
    BY <1>1, <1>2, TableSteps
  <1>8. Removing'
    BY <1>2, <1>4 DEF Removing
  <1>9. Banning'
    BY <1>2, <1>5 DEF IInv, Banning
  <1>10. spent'.failures = 0 => \A j \in JobIds :
               jobs'[j].state \in ActiveJobStates
               /\ (jid[j] \in removed' \/ (handler'.pc \in {"hold", "hide"} /\ jid[j] = handler'.jid))
                   => jobs'[j].cancel
    BY <1>2, <1>4, <1>6 DEF IInv, Stopped, get_active_job_by_jid, IsActive
  <1>11. /\ \A j \in JobIds : IsActive(j) => jobs'[j].state \in ActiveJobStates
         /\ \A u \in Jids : proj'[u] = proj[u]
         /\ removed' \subseteq told /\ proj' \in [Jids -> Projection] /\ handler'.pc \in RemovalPcs
         /\ hold' \in {"none", "live", "lapsed", "cleared"} /\ banned' \in BOOLEAN
    BY <1>1, <1>2, <1>4 DEF IsActive, RemovalPcs
  <1> QED BY <1>2, <1>4, <1>5, <1>7, <1>8, <1>9, <1>10, <1>11, RemoveKeeps

LEMMA CancelKeeps ==
    ASSUME IInv, CancelJob PROVE IInv'
  <1> DEFINE r == handler.row
  <1>1. /\ JobsTypeOK /\ spent \in SpentSet /\ proj \in [Jids -> Projection]
        /\ handler \in HandlerSet /\ 0 \notin Jids
        /\ hold \in {"none", "live", "lapsed", "cleared"} /\ banned \in BOOLEAN
        /\ removed \subseteq told /\ told \subseteq Jids
        /\ \A j \in JobIds : IsActive(j) => jid[j] # 0
    BY Found
  <1>2. /\ UNCHANGED <<jid, worker, threads, proj, told, hold, offers, removed, known>>
        /\ handler.pc = "cancel"
    BY DEF CancelJob
  <1>3. r \in JobIds /\ jid[r] = handler.jid /\ handler.jid \in told
    BY <1>2 DEF IInv, Removing
  <1>4. \A j \in JobIds : jid[j] = handler.jid => j = r
    BY <1>1, <1>3 DEF IInv, Named
  <1>5. worker.pc # "down"
    BY <1>2 DEF IInv, Working
  <1>6. proj' \in [Jids -> Projection] /\ \A u \in Jids : proj'[u] = proj[u]
    BY <1>1, <1>2
  <1>7. CASE Works /\ request_job_cancel(r) /\ banned' = TRUE
             /\ handler' = [handler EXCEPT !.pc = "hold"]
    <2>1. handler' \in HandlerSet /\ handler'.pc = "hold" /\ handler'.jid = handler.jid
      BY <1>1, <1>7 DEF HandlerSet, HandlerPcs
    <2>2. /\ RowsKept /\ JobsTypeOK' /\ jobs'[r].cancel = TRUE
          /\ \A k \in JobIds : IsActive(k) => jobs'[k].state \in ActiveJobStates
      BY <1>1, <1>3, <1>7, TableSteps DEF IsActive
    <2>3. Grows /\ spent' = spent
      BY <1>1, <1>7, Spending DEF Works
    <2>4. Removing' /\ Banning'
      BY <1>2, <1>3, <2>1 DEF Removing, Banning
    <2>5. spent'.failures = 0 => \A j \in JobIds :
               jobs'[j].state \in ActiveJobStates
               /\ (jid[j] \in removed' \/ (handler'.pc \in {"hold", "hide"} /\ jid[j] = handler'.jid))
                   => jobs'[j].cancel
      <3>1. \A j \in JobIds : /\ jobs'[j].state \in ActiveJobStates => IsActive(j)
                              /\ jobs[j].cancel => jobs'[j].cancel
        BY <2>2 DEF RowsKept, RowStays, IsActive
      <3> QED BY <1>2, <1>4, <2>1, <2>2, <2>3, <3>1 DEF IInv, Stopped
    <2> QED BY <1>1, <1>2, <1>5, <1>6, <1>7, <2>1, <2>2, <2>3, <2>4, <2>5, RemoveKeeps DEF RemovalPcs
  <1>8. ASSUME Failure \/ (Works /\ ~IsActive(r)), handler' = [handler EXCEPT !.pc = "hide"],
               UNCHANGED <<jobs, banned>>
        PROVE  IInv'
    <2>1. handler' \in HandlerSet /\ handler'.pc = "hide" /\ handler'.jid = handler.jid
      BY <1>1, <1>8 DEF HandlerSet, HandlerPcs
    <2>2. RowsKept /\ JobsTypeOK'
      BY <1>1, <1>8, TableSteps
    <2>3. Grows /\ (Harmed => Harmed') /\ (Failure => spent'.failures > 0)
      BY <1>1, <1>8, Spending, Growth
    <2>4. /\ spent'.failures = 0 => spent.failures = 0
          /\ spent'.failures = 0 => ~IsActive(r)
      <3>1. spent'.failures \in Nat
        BY <2>3, GrabIntakeAssumption DEF Grows, SpentSet
      <3> QED BY <1>1, <1>8, <2>3, <3>1, Growth
    <2>5. Removing' /\ Banning'
      BY <1>2, <1>3, <1>8, <2>1, <2>3 DEF IInv, Removing, Banning
    <2>6. spent'.failures = 0 => \A j \in JobIds :
               jobs'[j].state \in ActiveJobStates
               /\ (jid[j] \in removed' \/ (handler'.pc \in {"hold", "hide"} /\ jid[j] = handler'.jid))
                   => jobs'[j].cancel
      BY <1>2, <1>4, <1>8, <2>1, <2>4 DEF IInv, Stopped, IsActive
    <2>7. \A k \in JobIds : IsActive(k) => jobs'[k].state \in ActiveJobStates
      BY <1>8 DEF IsActive
    <2> QED BY <1>1, <1>2, <1>5, <1>6, <1>8, <2>1, <2>2, <2>3, <2>5, <2>6, <2>7, RemoveKeeps
            DEF RemovalPcs
  <1>9. CASE IsActive(r)
    BY <1>7, <1>8, <1>9, Zenon DEF CancelJob
  <1>10. CASE ~IsActive(r)
    BY <1>7, <1>8, <1>10, Zenon DEF CancelJob
  <1> QED BY <1>9, <1>10

LEMMA AlbumHoldKeeps ==
    ASSUME IInv, _create_album_hold_for_cancel PROVE IInv'
  <1>1. /\ JobsTypeOK /\ spent \in SpentSet /\ proj \in [Jids -> Projection]
        /\ handler \in HandlerSet
        /\ hold \in {"none", "live", "lapsed", "cleared"} /\ banned \in BOOLEAN
        /\ removed \subseteq told /\ told \subseteq Jids
    BY Found
  <1>2. /\ UNCHANGED <<jobs, jid, worker, threads, proj, told, offers, banned, removed, known>>
        /\ handler.pc = "hold" /\ handler' = [handler EXCEPT !.pc = "hide"]
        /\ Works \/ Failure
        /\ known => hold' = "live" \/ Failure
        /\ hold' = "live" \/ UNCHANGED hold
    BY DEF _create_album_hold_for_cancel, create_album_hold
  <1>3. handler' \in HandlerSet /\ handler'.pc = "hide" /\ handler'.jid = handler.jid
    BY <1>1, <1>2 DEF HandlerSet, HandlerPcs
  <1>4. Grows /\ (Harmed => Harmed') /\ (Failure => Harmed')
    BY <1>1, <1>2, Spending, Growth
  <1>5. spent'.failures = 0 => spent.failures = 0
    BY <1>1, <1>4, Growth
  <1>6. handler.jid \in told /\ worker.pc # "down"
    BY <1>2 DEF IInv, Removing, Working
  <1>7. Removing' /\ Banning'
    BY <1>2, <1>3, <1>4, <1>6 DEF Removing, Banning
  <1>8. RowsKept /\ JobsTypeOK'
    BY <1>1, <1>2, TableSteps
  <1>9. spent'.failures = 0 => \A j \in JobIds :
               jobs'[j].state \in ActiveJobStates
               /\ (jid[j] \in removed' \/ (handler'.pc \in {"hold", "hide"} /\ jid[j] = handler'.jid))
                   => jobs'[j].cancel
    BY <1>2, <1>3, <1>5 DEF IInv, Stopped, IsActive
  <1>10. /\ \A j \in JobIds : IsActive(j) => jobs'[j].state \in ActiveJobStates
         /\ proj' \in [Jids -> Projection] /\ \A u \in Jids : proj'[u] = proj[u]
         /\ hold' \in {"none", "live", "lapsed", "cleared"}
    BY <1>1, <1>2 DEF IsActive
  <1> QED BY <1>1, <1>2, <1>3, <1>4, <1>6, <1>7, <1>8, <1>9, <1>10, RemoveKeeps DEF RemovalPcs

LEMMA HideKeeps ==
    ASSUME IInv, _hide_from_lidarr PROVE IInv'
  <1> DEFINE t == handler.jid
  <1> DEFINE p == [proj[t] EXCEPT !.hidden = proj[t].hidden \/ proj[t].status # "lost"]
  <1>1. /\ JobsTypeOK /\ spent \in SpentSet /\ proj \in [Jids -> Projection]
        /\ hold \in {"none", "live", "lapsed", "cleared"} /\ banned \in BOOLEAN
        /\ removed \subseteq told /\ told \subseteq Jids
    BY Found
  <1>2. /\ UNCHANGED <<jobs, jid, worker, threads, told, hold, offers, banned, known, spent>>
        /\ handler.pc = "hide" /\ handler' = Idle /\ removed' = removed \cup {t}
        /\ proj' = [proj EXCEPT ![t] = p]
    BY DEF _hide_from_lidarr
  <1>3. t \in told /\ worker.pc # "down" /\ t \in Jids
    BY <1>1, <1>2 DEF IInv, Removing, Working
  <1>4. /\ p \in Projection /\ p.status = proj[t].status
        /\ proj[t].hidden => p.hidden
        /\ p.hidden \/ p.status = "lost"
    BY <1>1, <1>3 DEF Projection
  <1> HIDE DEF p
  <1>5. /\ proj' \in [Jids -> Projection]
        /\ \A u \in Jids : proj'[u].status = proj[u].status /\ (proj[u].hidden => proj'[u].hidden)
        /\ proj'[t].hidden \/ proj'[t].status = "lost"
    BY <1>1, <1>2, <1>3, <1>4
  <1>6. Grows /\ (Harmed' <=> Harmed)
    BY <1>1, <1>2, Spending DEF Works
  <1>7. Idle \in HandlerSet /\ Idle.pc = "idle"
    BY JobStoreAssumption DEF Idle, HandlerSet, HandlerPcs
  <1>8. Removing' /\ Banning'
    BY <1>2, <1>6, <1>7 DEF IInv, Removing, Banning
  <1>9. RowsKept /\ JobsTypeOK'
    BY <1>1, <1>2, TableSteps
  <1>10. spent'.failures = 0 => \A j \in JobIds :
               jobs'[j].state \in ActiveJobStates
               /\ (jid[j] \in removed' \/ (handler'.pc \in {"hold", "hide"} /\ jid[j] = handler'.jid))
                   => jobs'[j].cancel
    BY <1>2, <1>7 DEF IInv, Stopped, IsActive
  <1>11. /\ \A j \in JobIds : IsActive(j) => jobs'[j].state \in ActiveJobStates
         /\ \A u \in removed' : u \in removed \/ proj'[u].hidden \/ proj'[u].status = "lost"
         /\ removed' \subseteq told
    BY <1>1, <1>2, <1>3, <1>5 DEF IsActive
  <1> QED BY <1>1, <1>2, <1>5, <1>6, <1>7, <1>8, <1>9, <1>10, <1>11, RemoveKeeps DEF RemovalPcs
-----------------------------------------------------------------------------
(* A grab comes in *)

IntakePcs == {"idle", "publish", "enqueue", "confirm", "direct"}

\* Every step on the way in, but the INSERT: only the jid the handler drew
\* changes its projection, and nobody else knows that jid yet.
LEMMA IntakeKeeps ==
    ASSUME IInv, Grows, handler.pc \in IntakePcs, worker.pc # "down",
           UNCHANGED <<jobs, jid, worker, hold, banned, removed, known>>,
           handler' \in HandlerSet, handler'.pc \in IntakePcs,
           told \subseteq told', told' \subseteq Jids,
           threads \subseteq threads', threads' \subseteq told',
           \A t \in threads' : t \in threads \/ ~InTable(t),
           proj' \in [Jids -> Projection],
           \A t \in Jids : InTable(t) \/ t \in told => proj'[t] = proj[t],
           \A t \in Jids : proj'[t].status = "lost" => proj[t].status = "lost",
           offers' \in [Keys -> {"none", "early", "late"}],
           \A k \in Keys : offers'[k] = "late" => offers[k] = "late",
           Drawn',
           \A t \in told' : t \in told \/ proj'[t].status # "none",
           spent'.failures <= 1 => \A t \in told' :
               t \in told \/ t \in threads' \/ InTable(t) \/ spent'.crashes > 0
    PROVE  IInv'
  <1>1. /\ JobsTypeOK /\ jid \in [JobIds -> Jids \cup {0}]
        /\ \A j \in JobIds : jid[j] = 0 <=> jobs[j].state = "absent"
        /\ worker \in WorkerSet /\ spent \in SpentSet
        /\ threads \subseteq Jids /\ told \subseteq Jids /\ removed \subseteq told
        /\ hold \in {"none", "live", "lapsed", "cleared"}
        /\ banned \in BOOLEAN /\ known \in BOOLEAN
        /\ \A j \in JobIds : IsActive(j) => jid[j] \in Jids
        /\ Busy => worker.job \in JobIds /\ IsActive(worker.job) /\ jid[worker.job] \in Jids
    BY Found
  <1>2. JobsTypeOK'
    BY <1>1, TableSteps
  <1>3. TypeOK'
    BY <1>1, <1>2, Typed
  <1>4. /\ spent'.failures <= 1 => spent.failures <= 1
        /\ spent'.failures = 0 => spent.failures = 0
        /\ spent'.crashes = 0 => spent.crashes = 0
        /\ spent.crashes > 0 => spent'.crashes > 0
        /\ Harmed => Harmed'
    BY <1>1, Growth
  <1>5. \A j \in JobIds : jid[j] # 0 => jid[j] \in Jids /\ proj'[jid[j]] = proj[jid[j]]
    BY <1>1 DEF InTable
  <1>6. \A t \in told : proj'[t] = proj[t]
    BY <1>1
  <1>7. Named'
    <2>1. /\ \A i, j \in JobIds : jid[i] = jid[j] /\ jid[i] # 0 => i = j
          /\ \A j \in JobIds : jid[j] # 0 => proj'[jid[j]].status # "none"
      BY <1>5 DEF IInv, Named
    <2>2. \A t \in told' : proj'[t].status # "none"
      BY <1>6 DEF IInv, Named
    <2>3. \A t \in threads' : \A j \in JobIds : jid'[j] # t
      BY DEF IInv, Named, InTable
    <2>4. \A t \in Jids : proj'[t].status = "lost" => spent'.crashes > 0
      BY <1>4 DEF IInv, Named
    <2> QED BY <2>1, <2>2, <2>3, <2>4 DEF Named, InTable
  <1>8. Removing'
    BY DEF Removing, IntakePcs
  <1>9. Working'
    <2>1. Busy => proj'[jid[worker.job]] = proj[jid[worker.job]]
      BY <1>1 DEF InTable
    <2>2. worker'.pc = "running" => proj'[jid'[worker'.job]].status = "active"
      BY <2>1 DEF IInv, Working, Busy
    <2>3. worker'.pc = "ending" /\ Shown(proj'[jid'[worker'.job]]) =>
              Harmed' /\ worker'.outcome # "completed"
      BY <1>4, <2>1 DEF IInv, Working, Busy, Visible, Shown
    <2>4. Busy' => worker'.job \in JobIds /\ jobs'[worker'.job].state \in ActiveJobStates
      BY <1>1 DEF Busy, IsActive
    <2> QED BY <2>2, <2>3, <2>4 DEF Working, IsActive, Visible, Shown
  <1>10. Carrying'
    <2>1. \A j \in JobIds : jid'[j] # 0 /\ Shown(proj'[jid'[j]]) =>
              \/ jobs'[j].state \in ActiveJobStates \/ jobs'[j].state = "cancelled"
              \/ jobs'[j].state = "failed" /\ Harmed'
      BY <1>4, <1>5 DEF IInv, Carrying, Visible, Shown, IsActive
    <2>2. spent'.failures <= 1 => \A t \in told' : Shown(proj'[t]) =>
              t \in threads' \/ (\E j \in JobIds : jid'[j] = t) \/ spent'.crashes > 0
      BY <1>4, <1>6 DEF IInv, Carrying, Visible, Shown, InTable
    <2> QED BY <2>1, <2>2 DEF Carrying, IsActive, Visible, Shown, InTable
  <1>11. Stopped'
    <2>1. spent'.failures = 0 => \A j \in JobIds :
              jobs'[j].state \in ActiveJobStates /\ jid'[j] \in removed' => jobs'[j].cancel
      BY <1>4 DEF IInv, Stopped, IsActive
    <2>2. spent'.crashes = 0 => \A j \in JobIds :
              jobs'[j].state \in ActiveJobStates /\ proj'[jid'[j]].status = "review" =>
                  worker'.pc = "ending" /\ worker'.job = j /\ worker'.outcome = "completed"
      <3>1. \A j \in JobIds : IsActive(j) => proj'[jid[j]] = proj[jid[j]]
        BY <1>1 DEF InTable
      <3> QED BY <1>4, <3>1 DEF IInv, Stopped, IsActive
    <2> QED BY <2>1, <2>2 DEF Stopped, IsActive, IntakePcs
  <1>12. Banning'
    BY <1>4 DEF IInv, Banning, IntakePcs
  <1>13. RemovalSticks'
    <2>1. spent'.crashes = 0 \/ spent'.failures = 0 =>
              \A t \in removed' : proj'[t].hidden \/ proj'[t].status \in {"review", "lost"}
      BY <1>1, <1>4, <1>6 DEF IInv, RemovalSticks
    <2>2. known' /\ ~Harmed' => \A k \in Keys : offers'[k] # "late"
      BY <1>4 DEF IInv, RemovalSticks
    <2> QED BY <2>1, <2>2 DEF RemovalSticks
  <1> QED BY <1>3, <1>7, <1>8, <1>9, <1>10, <1>11, <1>12, <1>13 DEF IInv

\* The dedupe lookup, of addurl and of the folder ingests.
LEMMA LookupKeeps ==
    ASSUME IInv, NEW k \in Keys, Intake(k, Works) \/ Intake(k, Request),
           offers' \in [Keys -> {"none", "early", "late"}],
           \A i \in Keys : offers'[i] = "late" => offers[i] = "late"
    PROVE  IInv'
  <1>1. /\ JobsTypeOK /\ spent \in SpentSet /\ proj \in [Jids -> Projection]
        /\ handler \in HandlerSet /\ threads \subseteq Jids /\ told \subseteq Jids
        /\ \A j \in JobIds : IsActive(j) => jid[j] \in Jids /\ jid[j] # 0
    BY Found
  <1>2. /\ handler.pc = "idle" /\ worker.pc # "down"
        /\ UNCHANGED <<jobs, jid, worker, threads, proj, hold, banned, removed, known>>
    BY DEF Intake, Free
  <1>3. threads \subseteq told
    BY DEF IInv, Named
  <1>4. \/ /\ Works \/ Request
           /\ UNCHANGED handler
           /\ \E j \in find_active_job_by_dedupe(k) : told' = told \cup {jid[j]}
        \/ /\ (Works \/ Request) \/ Failure
           /\ find_active_job_by_dedupe(k) = {} \/ Failure
           /\ UNCHANGED told
           /\ \E t \in Unused : handler' = [pc |-> "publish", key |-> k, jid |-> t, row |-> 0]
    <2>1. CASE find_active_job_by_dedupe(k) = {}
      BY <2>1, Zenon DEF Intake
    <2>2. CASE find_active_job_by_dedupe(k) # {}
      BY <2>2, Zenon DEF Intake
    <2> QED BY <2>1, <2>2
  <1>5. (Works \/ Request) \/ Failure
    BY <1>4
  <1>6. Grows /\ (Failure => spent'.failures > 0)
    BY <1>1, <1>5, Spending
  <1>7. spent'.failures = 0 => ~Failure
    <2>1. spent'.failures \in Nat
      BY <1>6, GrabIntakeAssumption DEF Grows, SpentSet
    <2> QED BY <1>6, <2>1
  <1>8. CASE /\ UNCHANGED handler
             /\ \E j \in find_active_job_by_dedupe(k) : told' = told \cup {jid[j]}
    <2>1. PICK j \in JobIds : IsActive(j) /\ told' = told \cup {jid[j]}
      BY <1>8 DEF find_active_job_by_dedupe
    <2>2. jid[j] \in Jids /\ InTable(jid[j]) /\ proj[jid[j]].status # "none"
      BY <1>1, <2>1 DEF IInv, Named, InTable
    <2>3. Drawn'
      BY <1>2, <1>8 DEF Drawn, Astray
    <2>4. handler' \in HandlerSet /\ handler'.pc \in IntakePcs /\ handler.pc \in IntakePcs
      BY <1>1, <1>2, <1>8 DEF IntakePcs
    <2> QED BY <1>1, <1>2, <1>3, <1>6, <2>1, <2>2, <2>3, <2>4, IntakeKeeps
  <1>9. CASE /\ find_active_job_by_dedupe(k) = {} \/ Failure
             /\ UNCHANGED told
             /\ \E t \in Unused : handler' = [pc |-> "publish", key |-> k, jid |-> t, row |-> 0]
    <2>1. PICK t \in Unused : handler' = [pc |-> "publish", key |-> k, jid |-> t, row |-> 0]
      BY <1>9
    <2>2. t \in Jids /\ proj[t].status = "none" /\ t \notin told /\ \A j \in JobIds : jid[j] # t
      BY DEF Unused
    <2>3. /\ handler' \in HandlerSet /\ handler'.pc = "publish" /\ handler'.key = k
          /\ handler'.jid = t
      BY <2>1, <2>2 DEF HandlerSet, HandlerPcs
    <2>4. spent'.failures = 0 =>
            {j \in JobIds : jobs'[j].state \in ActiveJobStates /\ jobs'[j].key = handler'.key} = {}
      BY <1>2, <1>7, <1>9, <2>3 DEF find_active_job_by_dedupe, IsActive
    <2>5. Drawn'
      BY <1>2, <1>9, <2>2, <2>3, <2>4 DEF Drawn, Astray, InTable, find_active_job_by_dedupe, IsActive
    <2>6. handler'.pc \in IntakePcs /\ handler.pc \in IntakePcs
      BY <1>2, <2>3 DEF IntakePcs
    <2> QED BY <1>1, <1>2, <1>3, <1>6, <1>9, <2>3, <2>5, <2>6, IntakeKeeps
  <1> QED BY <1>4, <1>8, <1>9

LEMMA PublishKeeps ==
    ASSUME IInv, Publish PROVE IInv'
  <1> DEFINE t == handler.jid
  <1> DEFINE p == [status |-> "queued", hidden |-> FALSE]
  <1>1. /\ spent \in SpentSet /\ proj \in [Jids -> Projection]
        /\ handler \in HandlerSet /\ told \subseteq Jids
        /\ offers \in [Keys -> {"none", "early", "late"}]
    BY Found
  <1>2. /\ handler.pc = "publish" /\ handler' = [handler EXCEPT !.pc = "enqueue"]
        /\ UNCHANGED <<jobs, jid, worker, threads, told, hold, offers, banned, removed, known, spent>>
        /\ proj' = [proj EXCEPT ![t] = p]
    BY DEF Publish
  <1>3. t \in Jids /\ t \notin told /\ ~InTable(t) /\ worker.pc # "down" /\ threads \subseteq told
    BY <1>2 DEF IInv, Drawn, Astray, Working, Named
  <1>4. p \in Projection /\ p.status = "queued"
    BY DEF Projection
  <1> HIDE DEF p
  <1>5. /\ proj' \in [Jids -> Projection] /\ proj'[t].status = "queued"
        /\ \A u \in Jids \ {t} : proj'[u] = proj[u]
    BY <1>1, <1>2, <1>3, <1>4
  <1>6. /\ handler' \in HandlerSet /\ handler'.pc = "enqueue" /\ handler'.jid = t
        /\ handler'.key = handler.key
    BY <1>1, <1>2 DEF HandlerSet, HandlerPcs
  <1>7. Grows
    BY <1>1, <1>2, Spending DEF Works
  <1>8. spent'.failures = 0 =>
            {j \in JobIds : jobs'[j].state \in ActiveJobStates /\ jobs'[j].key = handler'.key} = {}
    BY <1>2, <1>6 DEF IInv, Drawn, find_active_job_by_dedupe, IsActive
  <1>9. Drawn'
    BY <1>2, <1>3, <1>5, <1>6, <1>8 DEF Drawn, Astray, InTable, find_active_job_by_dedupe, IsActive
  <1>10. handler'.pc \in IntakePcs /\ handler.pc \in IntakePcs
    BY <1>2, <1>6 DEF IntakePcs
  <1> QED BY <1>1, <1>2, <1>3, <1>5, <1>6, <1>7, <1>9, <1>10, IntakeKeeps
\* The INSERT puts the drawn jid under a row of its own.
LEMMA InsertKeeps ==
    ASSUME IInv, handler.pc = "enqueue", Works, NEW j \in JobIds,
           IsNextId(j), jobs' = [jobs EXCEPT ![j] = InsertedRow(handler.key)],
           jid' = [jid EXCEPT ![j] = IF @ = 0 THEN handler.jid ELSE @],
           handler' = [handler EXCEPT !.pc = "confirm", !.row = j],
           UNCHANGED <<worker, threads, proj, told, hold, offers, banned, removed, known>>
    PROVE  IInv'
  <1> DEFINE t == handler.jid
  <1> DEFINE r == InsertedRow(handler.key)
  <1>1. /\ JobsTypeOK /\ jid \in [JobIds -> Jids \cup {0}]
        /\ \A i \in JobIds : jid[i] = 0 <=> jobs[i].state = "absent"
        /\ handler \in HandlerSet /\ worker \in WorkerSet /\ spent \in SpentSet
        /\ threads \subseteq Jids /\ told \subseteq Jids /\ removed \subseteq told
        /\ proj \in [Jids -> Projection] /\ hold \in {"none", "live", "lapsed", "cleared"}
        /\ offers \in [Keys -> {"none", "early", "late"}]
        /\ banned \in BOOLEAN /\ known \in BOOLEAN /\ 0 \notin Jids
        /\ Busy => worker.job \in JobIds /\ IsActive(worker.job)
    BY Found
  <1>2. /\ t \in Jids /\ t \notin told /\ ~InTable(t) /\ worker.pc # "down"
        /\ threads \subseteq told /\ proj[t].status = "queued"
    BY DEF IInv, Drawn, Astray, Working, Named
  <1>3. r \in JobRow /\ r.state = "queued"
    BY <1>1, NewRowTypes DEF InsertedRow, HandlerSet
  <1> HIDE DEF r
  <1>4. jobs[j].state = "absent" /\ jid[j] = 0
    BY <1>1 DEF IsNextId
  <1>5. /\ jobs' \in [JobIds -> JobRow] /\ jobs'[j] = r
        /\ \A i \in JobIds \ {j} : jobs'[i] = jobs[i]
    BY <1>1, <1>3 DEF JobsTypeOK, r
  <1>6. /\ jid' \in [JobIds -> Jids \cup {0}] /\ jid'[j] = t
        /\ \A i \in JobIds \ {j} : jid'[i] = jid[i]
    BY <1>1, <1>2, <1>4
  <1>7. handler' \in HandlerSet /\ handler'.pc = "confirm" /\ handler'.jid = t /\ handler'.row = j
    BY <1>1 DEF HandlerSet, HandlerPcs
  <1>8. Grows /\ spent' = spent /\ (Harmed' <=> Harmed)
    BY <1>1, Spending DEF Works
  <1>9. TypeOK'
    <2>1. \A i \in JobIds : jid'[i] = 0 <=> jobs'[i].state = "absent"
      BY <1>1, <1>2, <1>3, <1>5, <1>6
    <2>2. JobsTypeOK'
      BY <1>5 DEF JobsTypeOK
    <2> QED BY <1>1, <1>6, <1>7, <1>8, <2>1, <2>2, Typed
  <1>10. Named'
    <2>1. \A i \in JobIds : jid[i] # t
      BY <1>2 DEF InTable
    <2>2. \A i, k \in JobIds : jid'[i] = jid'[k] /\ jid'[i] # 0 => i = k
      BY <1>6, <2>1 DEF IInv, Named
    <2>3. \A i \in JobIds : jid'[i] # 0 => proj'[jid'[i]].status # "none"
      BY <1>2, <1>6 DEF IInv, Named
    <2>4. \A u \in threads' : \A i \in JobIds : jid'[i] # u
      BY <1>2, <1>6 DEF IInv, Named, InTable
    <2>5. /\ \A u \in told' : proj'[u].status # "none"
          /\ \A u \in Jids : proj'[u].status = "lost" => spent'.crashes > 0
          /\ threads' \subseteq told'
      BY <1>8 DEF IInv, Named
    <2> QED BY <2>2, <2>3, <2>4, <2>5 DEF Named, InTable
  <1>11. Drawn' /\ Removing'
    BY <1>1, <1>2, <1>6, <1>7 DEF Drawn, Removing, Astray
  <1>12. Working'
    <2>1. Busy => worker.job \in JobIds \ {j}
      BY <1>1, <1>4 DEF IsActive, ActiveJobStates
    <2>2. Busy => jobs'[worker.job] = jobs[worker.job] /\ jid'[worker.job] = jid[worker.job]
      BY <1>5, <1>6, <2>1
    <2> QED BY <1>1, <1>2, <1>8, <2>1, <2>2 DEF IInv, Working, Busy, IsActive, Visible
  <1>13. Carrying'
    <2>1. \A i \in JobIds : jid'[i] # 0 /\ Shown(proj'[jid'[i]]) =>
              \/ jobs'[i].state \in ActiveJobStates \/ jobs'[i].state = "cancelled"
              \/ jobs'[i].state = "failed" /\ Harmed'
      <3>1. jobs'[j].state \in ActiveJobStates
        BY <1>3, <1>5 DEF ActiveJobStates
      <3>2. \A i \in JobIds \ {j} : jid[i] # 0 /\ Shown(proj[jid[i]]) =>
              \/ jobs[i].state \in ActiveJobStates \/ jobs[i].state = "cancelled"
              \/ jobs[i].state = "failed" /\ Harmed
        BY DEF IInv, Carrying, Visible, Shown, IsActive
      <3> QED BY <1>5, <1>6, <1>8, <3>1, <3>2
    <2>2. spent'.failures <= 1 => \A u \in told' : Shown(proj'[u]) =>
              u \in threads' \/ (\E i \in JobIds : jid'[i] = u) \/ spent'.crashes > 0
      <3>1. \A u \in told : InTable(u) => \E i \in JobIds : jid'[i] = u
        BY <1>1, <1>4, <1>6 DEF InTable
      <3> QED BY <1>8, <3>1 DEF IInv, Carrying, Visible, Shown
    <2> QED BY <2>1, <2>2 DEF Carrying, IsActive, Visible, Shown, InTable
  <1>14. Stopped'
    <2>1. spent'.failures = 0 => \A i \in JobIds :
              jobs'[i].state \in ActiveJobStates /\ jid'[i] \in removed' => jobs'[i].cancel
      BY <1>1, <1>2, <1>5, <1>6, <1>8 DEF IInv, Stopped, IsActive
    <2>2. spent'.crashes = 0 => \A i \in JobIds :
              jobs'[i].state \in ActiveJobStates /\ proj'[jid'[i]].status = "review" =>
                  worker'.pc = "ending" /\ worker'.job = i /\ worker'.outcome = "completed"
      BY <1>2, <1>5, <1>6, <1>8 DEF IInv, Stopped, IsActive
    <2> QED BY <1>7, <2>1, <2>2 DEF Stopped, IsActive
  <1>15. Banning'
    BY <1>8 DEF IInv, Banning
  <1>16. RemovalSticks'
    BY <1>8 DEF IInv, RemovalSticks
  <1> QED BY <1>9, <1>10, <1>11, <1>12, <1>13, <1>14, <1>15, <1>16 DEF IInv

LEMMA EnqueueKeeps ==
    ASSUME IInv, Enqueue PROVE IInv'
  <1>1. /\ JobsTypeOK /\ jid \in [JobIds -> Jids \cup {0}] /\ spent \in SpentSet
        /\ handler \in HandlerSet /\ told \subseteq Jids /\ proj \in [Jids -> Projection]
        /\ offers \in [Keys -> {"none", "early", "late"}]
        /\ \A i \in JobIds : IsActive(i) => jid[i] # 0
    BY Found
  <1>2. /\ handler.pc = "enqueue"
        /\ UNCHANGED <<worker, threads, proj, told, hold, offers, banned, removed, known>>
    BY DEF Enqueue
  <1>3. /\ handler.jid \in Jids /\ handler.jid \notin told /\ ~InTable(handler.jid)
        /\ worker.pc # "down" /\ threads \subseteq told /\ proj[handler.jid].status = "queued"
    BY <1>2 DEF IInv, Drawn, Astray, Working, Named
  <1>4. ASSUME Works, NEW j \in JobIds, j \in find_active_job_by_dedupe(handler.key),
               UNCHANGED jobs, jid' = [jid EXCEPT ![j] = IF @ = 0 THEN handler.jid ELSE @],
               handler' = [handler EXCEPT !.pc = "confirm", !.row = j]
        PROVE  IInv'
    <2>1. jid' = jid /\ jid[j] # 0
      BY <1>1, <1>4 DEF find_active_job_by_dedupe
    <2>2. /\ handler' \in HandlerSet /\ handler'.pc = "confirm" /\ handler'.row = j
          /\ handler'.jid = handler.jid
      BY <1>1, <1>4 DEF HandlerSet, HandlerPcs
    <2>3. Grows /\ spent' = spent
      BY <1>1, <1>4, Spending DEF Works
    <2>4. spent.failures # 0
      BY <1>2, <1>4 DEF IInv, Drawn
    <2>5. Drawn'
      BY <1>2, <1>3, <2>1, <2>2, <2>3, <2>4 DEF Drawn, Astray, InTable
    <2>6. handler'.pc \in IntakePcs /\ handler.pc \in IntakePcs
      BY <1>2, <2>2 DEF IntakePcs
    <2> QED BY <1>1, <1>2, <1>3, <1>4, <2>1, <2>2, <2>3, <2>5, <2>6, IntakeKeeps
  <1>5. ASSUME Failure, handler' = [handler EXCEPT !.pc = "direct"], UNCHANGED <<jobs, jid>>
        PROVE  IInv'
    <2>1. handler' \in HandlerSet /\ handler'.pc = "direct" /\ handler'.jid = handler.jid
      BY <1>1, <1>5 DEF HandlerSet, HandlerPcs
    <2>2. Grows
      BY <1>1, <1>5, Spending
    <2>3. Drawn'
      BY <1>2, <1>3, <1>5, <2>1 DEF Drawn, Astray, InTable
    <2>4. handler'.pc \in IntakePcs /\ handler.pc \in IntakePcs
      BY <1>2, <2>1 DEF IntakePcs
    <2> QED BY <1>1, <1>2, <1>3, <1>5, <2>1, <2>2, <2>3, <2>4, IntakeKeeps
  <1>6. ASSUME NEW j \in JobIds, enqueue_job(handler.key, j), Works,
               jid' = [jid EXCEPT ![j] = IF @ = 0 THEN handler.jid ELSE @],
               handler' = [handler EXCEPT !.pc = "confirm", !.row = j]
        PROVE  IInv'
    <2>1. CASE j \in find_active_job_by_dedupe(handler.key) /\ UNCHANGED jobs
      BY <1>4, <1>6, <2>1
    <2>2. CASE IsNextId(j) /\ jobs' = [jobs EXCEPT ![j] = InsertedRow(handler.key)]
      BY <1>2, <1>6, <2>2, InsertKeeps
    <2> QED BY <1>6, <2>1, <2>2 DEF enqueue_job
  <1> QED BY <1>5, <1>6 DEF Enqueue

\* The jid that is answered is in the table or, when two failures meet, has at
\* least its projection; a jid that was drawn in vain is forgotten.
LEMMA ConfirmKeeps ==
    ASSUME IInv, Confirm PROVE IInv'
  <1> DEFINE t == handler.jid
  <1> DEFINE a == jid[handler.row]
  <1>1. /\ spent \in SpentSet /\ jid \in [JobIds -> Jids \cup {0}]
        /\ handler \in HandlerSet /\ told \subseteq Jids /\ proj \in [Jids -> Projection]
        /\ offers \in [Keys -> {"none", "early", "late"}]
    BY Found
  <1>2. /\ handler.pc = "confirm"
        /\ UNCHANGED <<jobs, jid, worker, threads, hold, offers, banned, removed, known>>
    BY DEF Confirm
  <1>3. /\ t \in Jids /\ t \notin told /\ handler.row \in JobIds /\ a # 0
        /\ worker.pc # "down" /\ threads \subseteq told
        /\ a # t => ~InTable(t) /\ proj[t].status = "queued"
    BY <1>2 DEF IInv, Drawn, Astray, Working, Named
  <1>4. a \in Jids /\ InTable(a) /\ proj[a].status # "none"
    BY <1>1, <1>3 DEF IInv, Named, InTable
  <1>5. Idle \in HandlerSet /\ Idle.pc = "idle"
    BY JobStoreAssumption DEF Idle, HandlerSet, HandlerPcs
  <1>6. ASSUME handler' = Idle
        PROVE  /\ handler' \in HandlerSet /\ handler'.pc \in IntakePcs /\ handler.pc \in IntakePcs
               /\ Drawn'
    BY <1>2, <1>5, <1>6 DEF Drawn, Astray, IntakePcs
  <1>7. CASE Works /\ Answer(a) /\ IF a # t THEN Pop(t) ELSE UNCHANGED proj
    <2>1. told' = told \cup {a} /\ handler' = Idle
      BY <1>7 DEF Answer
    <2>2. Grows
      BY <1>1, <1>7, Spending
    <2>3. /\ proj' \in [Jids -> Projection]
          /\ \A u \in Jids : InTable(u) \/ u \in told => proj'[u] = proj[u]
          /\ proj'[a] = proj[a]
          /\ \A u \in Jids : proj'[u].status = "lost" => proj[u].status = "lost"
      <3>1. NoProjection \in Projection /\ NoProjection.status = "none"
        BY DEF NoProjection, Projection
      <3>2. CASE a # t
        BY <1>1, <1>3, <1>4, <1>7, <3>1, <3>2 DEF Pop
      <3>3. CASE a = t
        BY <1>1, <1>7, <3>3
      <3> QED BY <3>2, <3>3
    <2> QED BY <1>1, <1>2, <1>3, <1>4, <1>6, <2>1, <2>2, <2>3, IntakeKeeps
  <1>8. CASE Failure /\ Answer(t) /\ UNCHANGED proj
    <2>1. told' = told \cup {t} /\ handler' = Idle
      BY <1>8 DEF Answer
    <2>2. Grows /\ (spent'.failures <= 1 => spent.failures = 0)
      BY <1>1, <1>8, Spending
    <2>3. spent.failures = 0 => InTable(t)
      BY <1>2, <1>3, <1>4 DEF IInv, Drawn
    <2>4. proj[t].status # "none"
      BY <1>3, <1>4
    <2> QED BY <1>1, <1>2, <1>3, <1>6, <1>8, <2>1, <2>2, <2>3, <2>4, IntakeKeeps
  <1>9. CASE a = t
    BY <1>7, <1>8, <1>9, Zenon DEF Confirm
  <1>10. CASE a # t
    BY <1>7, <1>8, <1>10, Zenon DEF Confirm
  <1> QED BY <1>9, <1>10

LEMMA DirectKeeps ==
    ASSUME IInv, Direct PROVE IInv'
  <1> DEFINE t == handler.jid
  <1>1. /\ spent \in SpentSet /\ jid \in [JobIds -> Jids \cup {0}]
        /\ handler \in HandlerSet /\ told \subseteq Jids /\ proj \in [Jids -> Projection]
        /\ offers \in [Keys -> {"none", "early", "late"}]
    BY Found
  <1>2. /\ handler.pc = "direct"
        /\ UNCHANGED <<jobs, jid, worker, hold, offers, banned, removed, known, spent>>
        /\ handler' = Idle
    BY DEF Direct, Answer
  <1>3. /\ t \in Jids /\ t \notin told /\ ~InTable(t) /\ proj[t].status = "queued"
        /\ worker.pc # "down" /\ threads \subseteq told
    BY <1>2 DEF IInv, Drawn, Astray, Working, Named
  <1>4. Idle \in HandlerSet /\ Idle.pc = "idle"
    BY JobStoreAssumption DEF Idle, HandlerSet, HandlerPcs
  <1>5. /\ handler' \in HandlerSet /\ handler'.pc \in IntakePcs /\ handler.pc \in IntakePcs
        /\ Drawn'
    BY <1>2, <1>4 DEF Drawn, Astray, IntakePcs
  <1>6. Grows
    BY <1>1, <1>2, Spending DEF Works
  <1>7. CASE handler.key \in TidalKeys
    <2>1. threads' = threads \cup {t} /\ told' = told \cup {t} /\ UNCHANGED proj
      BY <1>7 DEF Direct, Answer
    <2> QED BY <1>1, <1>2, <1>3, <1>5, <1>6, <2>1, IntakeKeeps
  <1>8. CASE handler.key \notin TidalKeys
    <2>1. UNCHANGED <<threads, told>> /\ proj' = [proj EXCEPT ![t] = NoProjection]
      BY <1>8 DEF Direct, Pop
    <2>2. NoProjection \in Projection /\ NoProjection.status = "none"
      BY DEF NoProjection, Projection
    <2>3. /\ proj' \in [Jids -> Projection]
          /\ \A u \in Jids : proj'[u].status = "lost" => proj[u].status = "lost"
          /\ \A u \in Jids : InTable(u) \/ u \in told => proj'[u] = proj[u]
      BY <1>1, <1>3, <2>1, <2>2
    <2>4. \A u \in told : proj'[u].status # "none"
      BY <1>1, <2>3 DEF IInv, Named
    <2> QED BY <1>1, <1>2, <1>3, <1>5, <1>6, <2>1, <2>3, <2>4, IntakeKeeps
  <1> QED BY <1>7, <1>8
-----------------------------------------------------------------------------
(* The theorems *)

LEMMA InitIInv == Init => IInv
  <1> SUFFICES ASSUME Init PROVE IInv
    OBVIOUS
  <1>1. /\ jobs = [j \in JobIds |-> AbsentRow] /\ jid = [j \in JobIds |-> 0]
        /\ handler = Idle /\ worker = NoWork /\ threads = {} /\ told = {} /\ removed = {}
        /\ proj = [t \in Jids |-> NoProjection] /\ hold = "none"
        /\ offers = [k \in Keys |-> "none"] /\ banned = FALSE /\ known \in BOOLEAN
        /\ spent = [requests |-> 0, crashes |-> 0, failures |-> 0]
    BY DEF Init, JobsInit
  <1>2. JobsTypeOK /\ \A j \in JobIds : jobs[j].state = "absent" /\ ~IsActive(j)
    BY <1>1, NewRowTypes DEF JobsTypeOK, AbsentRow, IsActive, ActiveJobStates
  <1>3. Idle \in HandlerSet /\ Idle.pc = "idle"
    BY JobStoreAssumption DEF Idle, HandlerSet, HandlerPcs
  <1>4. NoWork \in WorkerSet /\ NoWork.pc = "idle"
    BY DEF NoWork, WorkerSet
  <1>5. NoProjection \in Projection
    BY DEF NoProjection, Projection
  <1>6. spent \in SpentSet /\ spent.failures = 0 /\ spent.crashes = 0
    BY <1>1, GrabIntakeAssumption DEF SpentSet
  <1>7. TypeOK
    BY <1>1, <1>2, <1>3, <1>4, <1>5, <1>6 DEF TypeOK, HandlerSet, HandlerPcs, WorkerSet, SpentSet
  <1>8. Named /\ Drawn /\ Removing
    <2>1. \A t \in Jids : proj[t].status = "none"
      BY <1>1 DEF NoProjection
    <2> QED BY <1>1, <1>3, <2>1 DEF Named, Drawn, Removing, Astray, InTable
  <1>9. Working /\ Carrying /\ Stopped /\ Banning
    BY <1>1, <1>2, <1>3, <1>4 DEF Working, Carrying, Stopped, Banning, Busy
  <1>10. RemovalSticks
    BY <1>1 DEF RemovalSticks
  <1> QED BY <1>7, <1>8, <1>9, <1>10 DEF IInv

LEMMA NextIInv == IInv /\ [Next]_vars => IInv'
  <1> SUFFICES ASSUME IInv, [Next]_vars PROVE IInv'
    OBVIOUS
  <1>0. offers \in [Keys -> {"none", "early", "late"}] /\ spent \in SpentSet
    BY Found
  <1>1. CASE newznab
    BY <1>1, SearchKeeps
  <1>2. CASE album_hold_create \/ album_hold_clear \/ HoldRunsOut
    BY <1>2, HoldKeeps
  <1>3. ASSUME NEW k \in Keys, addurl(k) PROVE IInv'
    <2>1. /\ offers' = [offers EXCEPT ![k] = "none"] /\ Intake(k, Works)
      BY <1>3 DEF addurl
    <2>2. /\ offers' \in [Keys -> {"none", "early", "late"}]
          /\ \A i \in Keys : offers'[i] = "late" => offers[i] = "late"
      BY <1>0, <2>1
    <2> QED BY <2>1, <2>2, LookupKeeps
  <1>4. ASSUME NEW k \in Keys,
               local_ingest(k) \/ soulseek_ingest(k) \/ _completed_folder_ingest(k)
        PROVE  IInv'
    <2>1. Intake(k, Request) /\ UNCHANGED offers
      BY <1>4 DEF local_ingest, soulseek_ingest, _completed_folder_ingest, Ingest
    <2> QED BY <1>0, <2>1, LookupKeeps
  <1>5. CASE Publish \/ Enqueue \/ Confirm \/ Direct
    BY <1>5, PublishKeeps, EnqueueKeeps, ConfirmKeeps, DirectKeeps
  <1>6. ASSUME NEW t \in Jids, Delete(t) PROVE IInv'
    BY <1>6, DeleteKeeps
  <1>7. CASE CancelJob \/ _create_album_hold_for_cancel \/ _hide_from_lidarr
    BY <1>7, CancelKeeps, AlbumHoldKeeps, HideKeeps
  <1>8. CASE job_cancel \/ RetryFallsDue
    BY <1>8, DueAndCancelKeep
  <1>9. CASE Claim \/ Start \/ Run \/ Finish
    BY <1>9, ClaimKeeps, StartKeeps, RunKeeps, FinishKeeps
  <1>10. CASE _run_download_job \/ Crash \/ Boot
    BY <1>10, ThreadKeeps, CrashKeeps, BootKeeps
  <1>11. CASE UNCHANGED vars
    <2>1. /\ Works /\ UNCHANGED <<jobs, jid, handler, worker, threads, proj, told, hold, offers,
                                  banned, removed, known>>
      BY <1>11 DEF vars, Works
    <2>2. Grows /\ (Harmed' <=> Harmed)
      BY <1>0, <2>1, Spending
    <2>3. hold \in {"none", "live", "lapsed", "cleared"} /\ banned \in BOOLEAN
      BY Found
    <2>4. banned' /\ known /\ ~Harmed' => hold' = "live" \/ handler.pc = "hold"
      BY <2>1, <2>2 DEF IInv, Banning
    <2>5. known /\ ~Harmed' => \A k \in Keys : offers'[k] # "late"
      BY <2>1, <2>2 DEF IInv, RemovalSticks
    <2> QED BY <1>0, <2>1, <2>2, <2>3, <2>4, <2>5, BesideKeeps
  <1> QED BY <1>1, <1>2, <1>3, <1>4, <1>5, <1>6, <1>7, <1>8, <1>9, <1>10, <1>11 DEF Next

\* What is below holds in every reachable state: whose each jid is, how far the
\* handler and the worker are with it, and what a removal has left behind.
THEOREM GrabInvariant == Spec => []IInv
  BY InitIInv, NextIInv, PTL DEF Spec

\* The state of the intake (JOBS, _jobs_table, album_holds and the handlers'
\* locals) keeps its types.
THEOREM IntakeTypeCorrect == Spec => []TypeOK
  <1>1. IInv => TypeOK
    BY DEF IInv
  <1> QED BY <1>1, GrabInvariant, PTL

\* A jid given to Lidarr has a projection unless a crash lost jobs.json, and
\* while Lidarr is shown a download under way somebody is at work on it or the
\* grab was dropped, as long as at most one database call fails (server.py
\* 1619-1706, 496-500).
THEOREM GrabsAreCarried == Spec => []AnsweredIsCarried
  <1>1. IInv => AnsweredIsCarried
    <2> SUFFICES ASSUME IInv, spent.failures <= 1, NEW t \in told
                 PROVE  proj[t].status # "none" /\ (Visible(t) => Carried(t) \/ Dropped(t))
      BY DEF AnsweredIsCarried
    <2>1. proj[t].status # "none"
      BY DEF IInv, Named
    <2>2. ASSUME Visible(t), t \notin threads, InTable(t) PROVE Carried(t) \/ Dropped(t)
      <3>1. PICK j \in JobIds : jid[j] = t
        BY <2>2 DEF InTable
      <3>2. t # 0
        BY Found
      <3>3. IsActive(j) \/ jobs[j].state = "cancelled" \/ (jobs[j].state = "failed" /\ Harmed)
        BY <2>2, <3>1, <3>2 DEF IInv, Carrying
      <3> QED BY <3>1, <3>3 DEF Carried, Dropped, get_active_job_by_jid, RowsOf
    <2>3. ASSUME Visible(t), t \notin threads, ~InTable(t) PROVE Dropped(t)
      BY <2>3 DEF IInv, Carrying, InTable, Dropped, RowsOf
    <2> QED BY <2>1, <2>2, <2>3 DEF Carried
  <1> QED BY <1>1, GrabInvariant, PTL

\* Once Lidarr's removal of a grab is answered, neither worker nor boot shows
\* it the download again, and no search offers the album while the hold is due
\* (server.py 5061-5099, 821-863).
THEOREM RemovalsStick == Spec => []RemovalSticks
  <1>1. IInv => RemovalSticks
    BY DEF IInv
  <1> QED BY <1>1, GrabInvariant, PTL

LEMMA ProgressStep ==
    ASSUME IInv, Next
    PROVE  \A t \in Jids : proj[t].status \notin {"none", "queued"}
                             => proj'[t].status \notin {"none", "queued"}
  <1>1. proj \in [Jids -> Projection] /\ jid \in [JobIds -> Jids \cup {0}]
    BY Found
  <1>2. CASE UNCHANGED proj
    BY <1>2
  \* The handler writes only what is not under way yet.
  <1>3. CASE Publish
    BY <1>1, <1>3 DEF IInv, Drawn, Publish
  <1>4. CASE Confirm
    <2>1. handler.jid \in Jids /\ (jid[handler.row] # handler.jid => proj[handler.jid].status = "queued")
      BY <1>4 DEF IInv, Drawn, Astray, Confirm
    <2>2. \/ UNCHANGED proj
          \/ jid[handler.row] # handler.jid /\ proj' = [proj EXCEPT ![handler.jid] = NoProjection]
      BY <1>4 DEF Confirm, Pop
    <2> QED BY <1>1, <2>1, <2>2
  <1>5. CASE Direct
    <2>1. handler.jid \in Jids /\ proj[handler.jid].status = "queued"
      BY <1>5 DEF IInv, Drawn, Astray, Direct
    <2>2. UNCHANGED proj \/ proj' = [proj EXCEPT ![handler.jid] = NoProjection]
      BY <1>5 DEF Direct, Pop
    <2> QED BY <1>1, <2>1, <2>2
  <1>6. CASE _hide_from_lidarr
    <2>1. \A t \in Jids : proj[t] \in Projection
      BY <1>1
    <2>2. \A t \in Jids : \/ proj'[t] = proj[t]
                          \/ \E b \in BOOLEAN : proj'[t] = [proj[t] EXCEPT !.hidden = b]
      BY <1>1, <1>6 DEF _hide_from_lidarr
    <2> QED BY <2>1, <2>2 DEF Projection
  \* The workers and boot lead on from there.
  <1>7. CASE Start
    <2> DEFINE t == jid[worker.job]
    <2>1. t \in Jids
      BY <1>7, Own DEF Start, Busy
    <2>2. \/ UNCHANGED proj
          \/ proj' = [proj EXCEPT ![t] = [proj[t] EXCEPT !.status = "active"]]
      BY <1>7 DEF Start
    <2>3. [proj[t] EXCEPT !.status = "active"].status = "active"
      BY <1>1, <2>1 DEF Projection
    <2> QED BY <1>1, <2>1, <2>2, <2>3
  <1>8. ASSUME NEW t \in Jids, NEW p, p.status \notin {"none", "queued"},
               proj' = [proj EXCEPT ![t] = p]
        PROVE  \A u \in Jids : proj[u].status \notin {"none", "queued"}
                             => proj'[u].status \notin {"none", "queued"}
    BY <1>1, <1>8
  <1>9. CASE Run
    <2> DEFINE t == jid[worker.job]
    <2>1. t \in Jids /\ proj[t] \in Projection
      BY <1>9, Own DEF Run, Busy
    <2>2. \/ UNCHANGED proj
          \/ proj' = [proj EXCEPT ![t] = [status |-> "done", hidden |-> TRUE]]
          \/ \E e \in {"done", "failed", "review"} : proj' = [proj EXCEPT ![t] = Ended(proj[t])[e]]
      BY <1>9 DEF Run
    <2>3. \A e \in {"done", "failed", "review"} : Ended(proj[t])[e].status \in {"done", "review"}
      BY <2>1, Endings
    <2> QED BY <1>2, <1>8, <2>1, <2>2, <2>3
  <1>10. CASE _run_download_job
    <2>1. PICK t \in threads :
            \/ proj' = [proj EXCEPT ![t] = [proj[t] EXCEPT !.status = "active"]]
            \/ \E e \in {"done", "failed", "review"} : proj' = [proj EXCEPT ![t] = Ended(proj[t])[e]]
      BY <1>10 DEF _run_download_job
    <2>2. t \in Jids /\ proj[t] \in Projection
      BY <1>1, Found
    <2>3. [proj[t] EXCEPT !.status = "active"].status = "active"
      BY <2>2 DEF Projection
    <2>4. \A e \in {"done", "failed", "review"} : Ended(proj[t])[e].status \in {"done", "review"}
      BY <2>2, Endings
    <2> QED BY <1>8, <2>1, <2>2, <2>3, <2>4
  <1>11. CASE Boot
    <2>1. \A t \in Jids : [proj[t] EXCEPT !.status = "done"].status = "done"
      BY <1>1 DEF Projection
    <2>2. \A t \in Jids : proj'[t] = proj[t] \/ proj'[t] = [proj[t] EXCEPT !.status = "done"]
      BY <1>11 DEF Boot
    <2> QED BY <2>1, <2>2
  <1>12. CASE Crash
    <2>1. LostProjection.status = "lost"
      BY DEF LostProjection, NoProjection
    <2>2. \A t \in Jids : proj'[t] = proj[t] \/ proj'[t] = LostProjection
      BY <1>12 DEF Crash
    <2> QED BY <2>1, <2>2
  <1>13. \/ UNCHANGED proj \/ Publish \/ Confirm \/ Direct \/ _hide_from_lidarr \/ Start \/ Run
         \/ _run_download_job \/ Boot \/ Crash
    BY DEF Next, newznab, album_hold_create, album_hold_clear, HoldRunsOut, addurl, local_ingest,
           soulseek_ingest, _completed_folder_ingest, Ingest, Intake, Enqueue, Delete, CancelJob,
           _create_album_hold_for_cancel, job_cancel, Claim, Finish, RetryFallsDue
  <1> QED BY <1>2, <1>3, <1>4, <1>5, <1>6, <1>7, <1>9, <1>10, <1>11, <1>12, <1>13

\* No step, but a crash that loses jobs.json, takes a projection that is under
\* way or ended back to queued or to nothing: an endpoint-side write cannot
\* undo what a fast worker has done (server.py 1664-1665).
THEOREM ProgressIsKept == Spec => ProgressKept
  <1>1. IInv /\ [Next]_vars => [\A t \in Jids : proj[t].status \notin {"none", "queued"}
                                    => proj'[t].status \notin {"none", "queued"}]_vars
    BY ProgressStep
  <1> QED BY <1>1, GrabInvariant, PTL DEF Spec, ProgressKept

=============================================================================
