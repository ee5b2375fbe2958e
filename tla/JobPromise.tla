----------------------------- MODULE JobPromise -----------------------------
(***************************************************************************)
(* What the queue promises whoever enqueues a job, without locks, batches  *)
(* or workers: a committed job has one life, from open to done to deleted; *)
(* its handler may run any number of times; and it is done either because  *)
(* a run ended well (or the kind was rejected) or because MAX_ATTEMPTS     *)
(* runs of it have failed (overtake/workers/jobs.py, run_one).             *)
(***************************************************************************)
EXTENDS Naturals

CONSTANTS Jobs, MaxAttempts

VARIABLES status, failures

pvars == <<status, failures>>

Init ==
  /\ status = [j \in Jobs |-> "absent"]
  /\ failures = [j \in Jobs |-> 0]

Submit(j) ==
  /\ status[j] = "absent"
  /\ status' = [status EXCEPT ![j] = "open"]
  /\ UNCHANGED failures

Settle(j) ==
  /\ status[j] = "open"
  /\ status' = [status EXCEPT ![j] = "done"]
  /\ UNCHANGED failures

FailedRun(j) ==
  /\ status[j] \in {"open", "done"}
  /\ failures' = [failures EXCEPT ![j] = @ + 1]
  /\ \/ UNCHANGED status
     \/ /\ failures[j] + 1 >= MaxAttempts
        /\ status' = [status EXCEPT ![j] = "done"]

Forget(j) ==
  /\ status[j] = "done"
  /\ status' = [status EXCEPT ![j] = "purged"]
  /\ UNCHANGED failures

Next == \E j \in Jobs : Submit(j) \/ Settle(j) \/ FailedRun(j) \/ Forget(j)

Spec == Init /\ [][Next]_pvars
=============================================================================
