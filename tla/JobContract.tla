----------------------------- MODULE JobContract ----------------------------
(***************************************************************************)
(* What the job queue promises its callers, without workers, leases,       *)
(* transactions or clocks.  A submitted job waits, is taken by a worker,   *)
(* and is either handed back or settled; a verdict is final.  It is taken  *)
(* at most Limit times, so it is handed back only with a take to spare.    *)
(* Two open jobs never share a key, and "cancelled" is the verdict only of *)
(* a job somebody asked to cancel.  Recovery may hand back or settle       *)
(* several jobs at once, hence a step is a simultaneous move of any number *)
(* of jobs.                                                                *)
(***************************************************************************)
EXTENDS Naturals

CONSTANTS JobIds, Keys, Limit

VARIABLES key, status, taken, wanted

cvars == <<key, status, taken, wanted>>

Verdicts == {"completed", "failed", "cancelled"}
Open == {"waiting", "owned"}

\* No two open jobs share a key.
OneOpenPerKey ==
    \A i, j \in JobIds :
        status[i] \in Open /\ status[j] \in Open /\ key[i] = key[j] => i = j

Stays(j) == key'[j] = key[j] /\ taken'[j] = taken[j]

Submit(j) == /\ status[j] = "none" /\ status'[j] = "waiting"
             /\ key'[j] \in Keys /\ taken'[j] = 0
Take(j) == /\ status[j] = "waiting" /\ status'[j] = "owned"
           /\ key'[j] = key[j]
           /\ taken'[j] = taken[j] + 1 /\ taken'[j] <= Limit[key[j]]
HandBack(j) == /\ status[j] = "owned" /\ status'[j] = "waiting"
               /\ taken[j] < Limit[key[j]] /\ Stays(j)
Settle(j) == /\ status[j] = "owned" /\ status'[j] \in Verdicts
             /\ status'[j] = "cancelled" => j \in wanted
             /\ Stays(j)
Rest(j) == status'[j] = status[j] /\ Stays(j)

CInit == /\ status = [j \in JobIds |-> "none"]
         /\ taken = [j \in JobIds |-> 0]
         /\ wanted = {}

CNext == /\ \A j \in JobIds :
               Submit(j) \/ Take(j) \/ HandBack(j) \/ Settle(j) \/ Rest(j)
         /\ OneOpenPerKey'
         /\ wanted \subseteq wanted'
         /\ \A j \in wanted' \ wanted : status[j] \in Open

CSpec == CInit /\ [][CNext]_cvars
=============================================================================
