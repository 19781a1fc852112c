------------------------------ MODULE JobQueue ------------------------------
(***************************************************************************)
(* What a table of jobs promises the one worker that serves it, and        *)
(* everybody who queues work for it: a job the worker has taken is its own *)
(* until it settles it, jobs are offered again only when nothing was       *)
(* found, what is synced or failed stays so, and a new process finds no    *)
(* job taken.                                                              *)
(***************************************************************************)
CONSTANTS
  Jobs,
  None  \* no job

VARIABLES
  status,  \* the status of each job, "none" without a row
  holder   \* the job the worker is on

Init ==
  /\ status \in [Jobs -> {"none", "pending"}]
  /\ holder = None

Offer(j) ==
  /\ status[j] \in {"none", "not_found"}
  /\ status' = [status EXCEPT ![j] = "pending"]
  /\ UNCHANGED holder

Take(j) ==
  /\ holder = None /\ status[j] = "pending"
  /\ status' = [status EXCEPT ![j] = "syncing"]
  /\ holder' = j

(* A failure leaves the job to another attempt.                            *)
Settle(outcome) ==
  /\ holder # None
  /\ status' = [status EXCEPT ![holder] = outcome]
  /\ holder' = None

(* The worker goes on without an outcome: the job stays taken, by nobody.  *)
Abandon ==
  /\ holder # None
  /\ holder' = None
  /\ UNCHANGED status

(* A new process puts back what was taken, offers what has no row, and     *)
(* gives up what it will not try again.                                    *)
Recovered(old, new) ==
  \/ old # "syncing" /\ new = old
  \/ old \in {"none", "syncing"} /\ new = "pending"
  \/ old \in {"pending", "syncing"} /\ new = "failed"

Recover ==
  /\ \E now \in [Jobs -> {"none", "pending", "synced", "not_found", "failed"}] :
       /\ \A j \in Jobs : Recovered(status[j], now[j])
       /\ status' = now
  /\ holder' = None

Next ==
  \/ \E j \in Jobs : Offer(j) \/ Take(j)
  \/ \E outcome \in {"pending", "synced", "not_found"} : Settle(outcome)
  \/ Abandon \/ Recover

Spec == Init /\ [][Next]_<<status, holder>>

=============================================================================
