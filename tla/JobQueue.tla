------------------------------ MODULE JobQueue ------------------------------
(***************************************************************************)
(* The `jobs` table and everything that writes to it: `enqueue`, `claim`,  *)
(* `run_one`, `drain` and `purge_completed` of overtake/workers/jobs.py,   *)
(* run by several worker processes against one PostgreSQL database.        *)
(*                                                                         *)
(* A row of the table is an element of Jobs.  Time is kept as ages: the    *)
(* lock of a row grows older and its run_after comes nearer with every     *)
(* Tick, both saturating where the code stops telling values apart.        *)
(*                                                                         *)
(* A definition whose name continues another's after an underscore is that *)
(* operation with one slip in it (a dropped guard, an off-by-one); nothing *)
(* uses it but the sensitivity runs the README describes.                  *)
(***************************************************************************)
EXTENDS Integers, Sequences, FiniteSets

CONSTANTS
  Jobs,          \* the rows that may ever be inserted
  Keys,          \* the dedupe keys; every caller passes one
  KeyOf,         \* the dedupe key a row is inserted with
  Unregistered,  \* the keys whose job kind has no handler
  Workers,       \* the worker processes
  Producers,     \* the transactions that enqueue: requests, schedules, handlers
  MaxAttempts,   \* MAX_ATTEMPTS
  LockTimeout,   \* LOCK_TIMEOUT, in ticks
  BatchLimit,    \* drain's `limit`
  MaxBackoff,    \* the hour the backoff is capped at, in ticks
  Horizon,       \* how far past run_after a due row's order is remembered
  MaxCrashes,    \* bound on worker deaths
  None

ASSUME QueueAssumption ==
  /\ KeyOf \in [Jobs -> Keys]
  /\ IsFiniteSet(Jobs) /\ IsFiniteSet(Producers)
  /\ MaxAttempts \in Nat \ {0}
  /\ LockTimeout \in Nat
  /\ BatchLimit \in Nat \ {0}
  /\ MaxBackoff \in Nat \ {0}
  /\ Horizon \in Nat
  /\ MaxCrashes \in Nat
  /\ None \notin Jobs

VARIABLES
  status,    \* of each row: not inserted, completed_at NULL, set, or deleted
  attempts,  \* the attempts column
  wait,      \* run_after - now
  lock,      \* now - locked_at, or Unlocked
  pending,   \* of each producer: the row its open transaction has inserted
  batch,     \* of each worker: the claimed jobs it has still to run, in order
  failing,   \* of each worker: whether its first job's failure is being recorded
  crashes,   \* worker deaths so far
  failures,  \* history: recorded failures of each row
  overran    \* history: rows a living worker has held past the lock timeout

table   == <<status, attempts, wait, lock>>
history == <<failures, overran>>
vars    == <<table, pending, batch, failing, crashes, history>>

Unlocked == -1

(* A claimed job is held with the `attempts` its object had when loaded.   *)
Claimed == [job : Jobs, seen : Nat]

TypeOK ==
  /\ status \in [Jobs -> {"absent", "open", "done", "purged"}]
  /\ attempts \in [Jobs -> Nat]
  /\ wait \in [Jobs -> -Horizon..MaxBackoff]
  /\ lock \in [Jobs -> Unlocked..LockTimeout + 1]
  /\ pending \in [Producers -> Jobs \cup {None}]
  /\ batch \in [Workers -> Seq(Claimed)]
  /\ failing \in [Workers -> {"no", "kept", "expired"}]
  /\ crashes \in Nat
  /\ failures \in [Jobs -> Nat]
  /\ overran \in [Jobs -> BOOLEAN]

Init ==
  /\ status = [j \in Jobs |-> "absent"]
  /\ attempts = [j \in Jobs |-> 0]
  /\ wait = [j \in Jobs |-> 0]
  /\ lock = [j \in Jobs |-> Unlocked]
  /\ pending = [p \in Producers |-> None]
  /\ batch = [w \in Workers |-> << >>]
  /\ failing = [w \in Workers |-> "no"]
  /\ crashes = 0
  /\ failures = [j \in Jobs |-> 0]
  /\ overran = [j \in Jobs |-> FALSE]

Positions(w) == DOMAIN batch[w]
Holds(w, j)  == \E i \in Positions(w) : batch[w][i].job = j
Held(j)      == \E w \in Workers : Holds(w, j)
Busy(w)      == batch[w] # << >>
Current(w)   == batch[w][1].job

OpenRows(k) == {j \in Jobs : status[j] = "open" /\ KeyOf[j] = k}

-----------------------------------------------------------------------------
(* enqueue: the duplicate check reads committed rows only, and the insert   *)
(* is flushed inside the caller's transaction.                             *)
EnqueueCheck_Unchecked(p, j) ==
  /\ pending[p] = None
  /\ status[j] = "absent"
  /\ \A q \in Producers : pending[q] # j
  /\ pending' = [pending EXCEPT ![p] = j]
  /\ UNCHANGED <<table, batch, failing, crashes, history>>

EnqueueCheck(p, j) ==
  /\ pending[p] = None
  /\ status[j] = "absent"
  /\ \A q \in Producers : pending[q] # j
  /\ OpenRows(KeyOf[j]) = {}
  /\ pending' = [pending EXCEPT ![p] = j]
  /\ UNCHANGED <<table, batch, failing, crashes, history>>

(* The caller's commit makes the row visible, due at once. *)
EnqueueCommit(p) ==
  /\ pending[p] # None
  /\ status' = [status EXCEPT ![pending[p]] = "open"]
  /\ pending' = [pending EXCEPT ![p] = None]
  /\ UNCHANGED <<attempts, wait, lock, batch, failing, crashes, history>>

(* The caller failed after enqueueing: the row goes with the rollback. *)
EnqueueRollback(p) ==
  /\ pending[p] # None
  /\ pending' = [pending EXCEPT ![p] = None]
  /\ UNCHANGED <<table, batch, failing, crashes, history>>

-----------------------------------------------------------------------------
(* The WHERE clause of claim. *)
Claimable_NeverStale(j) ==
  status[j] = "open" /\ wait[j] <= 0 /\ attempts[j] < MaxAttempts /\ lock[j] = Unlocked
Claimable_EarlyStale(j) ==
  /\ status[j] = "open" /\ wait[j] <= 0 /\ attempts[j] < MaxAttempts
  /\ lock[j] = Unlocked \/ lock[j] >= LockTimeout

Claimable(j) ==
  /\ status[j] = "open"
  /\ wait[j] <= 0
  /\ attempts[j] < MaxAttempts
  /\ lock[j] = Unlocked \/ lock[j] > LockTimeout

(* ORDER BY run_after LIMIT limit: s lists as many claimable rows as there  *)
(* are, up to the limit, the longest due first.                            *)
DueFirst(s) ==
  LET due   == {j \in Jobs : Claimable(j)}
      taken == {s[i] : i \in DOMAIN s}
  IN /\ taken \subseteq due
     /\ \A i, k \in DOMAIN s : i # k => s[i] # s[k]
     /\ Len(s) = BatchLimit \/ taken = due
     /\ \A i, k \in DOMAIN s : i < k => wait[s[i]] <= wait[s[k]]
     /\ \A i \in DOMAIN s, j \in due \ taken : wait[s[i]] <= wait[j]

(* One transaction: FOR UPDATE SKIP LOCKED, then the lock, then the commit. *)
Claim(w) ==
  /\ ~Busy(w)
  /\ \E n \in 1..BatchLimit : \E s \in [1..n -> Jobs] :
       /\ DueFirst(s)
       /\ batch' = [batch EXCEPT ![w] =
                      [i \in 1..n |-> [job |-> s[i], seen |-> attempts[s[i]]]]]
       /\ lock' = [j \in Jobs |-> IF \E i \in 1..n : s[i] = j THEN 0 ELSE lock[j]]
  /\ UNCHANGED <<status, attempts, wait, pending, failing, crashes, history>>

Runnable(w) == Busy(w) /\ failing[w] = "no"

(* run_one, no handler: the row is completed with its lock left in place.   *)
RejectUnknown(w) ==
  /\ Runnable(w)
  /\ KeyOf[Current(w)] \in Unregistered
  /\ status' = [status EXCEPT ![Current(w)] = "done"]
  /\ batch' = [batch EXCEPT ![w] = Tail(@)]
  /\ UNCHANGED <<attempts, wait, lock, pending, failing, crashes, history>>

(* run_one, the handler returned. *)
Succeed(w) ==
  /\ Runnable(w)
  /\ KeyOf[Current(w)] \notin Unregistered
  /\ status' = [status EXCEPT ![Current(w)] = "done"]
  /\ lock' = [lock EXCEPT ![Current(w)] = Unlocked]
  /\ batch' = [batch EXCEPT ![w] = Tail(@)]
  /\ UNCHANGED <<attempts, wait, pending, failing, crashes, history>>

(* run_one, the handler raised.  If it had used the database the rollback   *)
(* expires every object of the session: the failed job is read again, the  *)
(* rest of the batch can no longer be.  If it had not, rollback() has no    *)
(* transaction to end and session.get returns the object as it was loaded. *)
Raise(w) ==
  /\ Runnable(w)
  /\ KeyOf[Current(w)] \notin Unregistered
  /\ \/ /\ failing' = [failing EXCEPT ![w] = "expired"]
        /\ batch' = [batch EXCEPT ![w][1].seen = attempts[Current(w)]]
     \/ /\ failing' = [failing EXCEPT ![w] = "kept"]
        /\ UNCHANGED batch
  /\ UNCHANGED <<table, pending, crashes, history>>

(* min(60 * 2**attempts, 3600) seconds; a tick is a minute. *)
Backoff_Uncapped(n) == 2^n
Backoff(n) == IF 2^n \in 1..MaxBackoff THEN 2^n ELSE MaxBackoff

(* What a failure recorded as the n-th makes of the row: given up at        *)
(* MAX_ATTEMPTS, otherwise completed_at is left as it is.                   *)
AfterFailure_OneMore(n, s) == IF n > MaxAttempts THEN "done" ELSE s
AfterFailure_OneLess(n, s) == IF n + 1 >= MaxAttempts THEN "done" ELSE s
AfterFailure(n, s) == IF n >= MaxAttempts THEN "done" ELSE s

(* ... and the failure is written from the attempts that were read, whoever *)
(* holds the lock by now.  drain then goes on to the next job, unless that  *)
(* job's object has expired: reading its kind raises out of drain.          *)
RecordFailure(w) ==
  LET j == Current(w)
      n == batch[w][1].seen + 1
  IN /\ Busy(w)
     /\ failing[w] # "no"
     /\ attempts' = [attempts EXCEPT ![j] = n]
     /\ lock' = [lock EXCEPT ![j] = Unlocked]
     /\ wait' = [wait EXCEPT ![j] = Backoff(n)]
     /\ status' = [status EXCEPT ![j] = AfterFailure(n, @)]
     /\ batch' = [batch EXCEPT ![w] = IF failing[w] = "expired" THEN << >> ELSE Tail(@)]
     /\ failing' = [failing EXCEPT ![w] = "no"]
     /\ failures' = [failures EXCEPT ![j] = @ + 1]
     /\ UNCHANGED <<pending, crashes, overran>>

(* The process dies, or a commit of the queue itself raises out of drain:   *)
(* the handler's transaction is gone, the locks stay.                       *)
Crash_Counted(w) ==
  /\ Busy(w)
  /\ crashes < MaxCrashes
  /\ crashes' = crashes + 1
  /\ attempts' = [attempts EXCEPT ![Current(w)] = @ + 1]
  /\ batch' = [batch EXCEPT ![w] = << >>]
  /\ failing' = [failing EXCEPT ![w] = "no"]
  /\ UNCHANGED <<status, wait, lock, pending, history>>

Crash(w) ==
  /\ Busy(w)
  /\ crashes < MaxCrashes
  /\ crashes' = crashes + 1
  /\ batch' = [batch EXCEPT ![w] = << >>]
  /\ failing' = [failing EXCEPT ![w] = "no"]
  /\ UNCHANGED <<table, pending, history>>

(* purge_completed.  A row is deleted fourteen days after it completed:     *)
(* nobody still holds it.                                                   *)
PurgeCompleted(j) ==
  /\ status[j] = "done"
  /\ ~Held(j)
  /\ status' = [status EXCEPT ![j] = "purged"]
  /\ UNCHANGED <<attempts, wait, lock, pending, batch, failing, crashes, history>>

(* A minute passes.  Recording a failure is two statements, never a minute. *)
Older(j) ==
  IF lock[j] = Unlocked \/ lock[j] > LockTimeout THEN lock[j] ELSE lock[j] + 1

Tick ==
  /\ \A w \in Workers : failing[w] = "no"
  /\ wait' = [j \in Jobs |->
                IF status[j] = "open" /\ wait[j] > -Horizon THEN wait[j] - 1 ELSE wait[j]]
  /\ lock' = [j \in Jobs |-> IF status[j] = "open" THEN Older(j) ELSE lock[j]]
  /\ overran' = [j \in Jobs |->
                   overran[j] \/ (Held(j) /\ status[j] = "open" /\ Older(j) > LockTimeout)]
  /\ UNCHANGED <<status, attempts, pending, batch, failing, crashes, failures>>

Finish(w) == RejectUnknown(w) \/ Succeed(w) \/ Raise(w)

Next ==
  \/ \E p \in Producers : \/ \E j \in Jobs : EnqueueCheck(p, j)
                          \/ EnqueueCommit(p)
                          \/ EnqueueRollback(p)
  \/ \E w \in Workers : Claim(w) \/ Finish(w) \/ RecordFailure(w) \/ Crash(w)
  \/ \E j \in Jobs : PurgeCompleted(j)
  \/ Tick

Spec == Init /\ [][Next]_vars

(* The worker loop repeats drain for ever and every handler ends; producers *)
(* owe nothing, and a dead worker's process is restarted by its supervisor. *)
Fairness ==
  /\ WF_vars(Tick)
  /\ \A w \in Workers : /\ WF_vars(Claim(w))
                        /\ WF_vars(Finish(w))
                        /\ WF_vars(RecordFailure(w))

FairSpec == Spec /\ Fairness

-----------------------------------------------------------------------------
(* A row whose attempts are used up is complete: claim would never take it  *)
(* again, so an open one would block its dedupe key for ever (run_one's     *)
(* `attempts >= MAX_ATTEMPTS` against claim's `attempts < MAX_ATTEMPTS`).   *)
NoWedgedJob ==
  \A j \in Jobs : status[j] = "open" => attempts[j] < MaxAttempts

(* A job is given up only after MAX_ATTEMPTS runs of it really failed: the  *)
(* stale read-modify-write of attempts, by several owners of one row, may   *)
(* lose a failure but never invents one.                                    *)
AttemptsAreFailures == \A j \in Jobs : attempts[j] <= failures[j]

(* Two workers hold one job only if a living worker outlived its lock.      *)
ExclusiveUnlessOverrun ==
  \A v, w \in Workers, j \in Jobs :
    Holds(v, j) /\ Holds(w, j) /\ v # w => overran[j]

(* Duplicates of a dedupe key are bounded by the enqueues that overlap: with *)
(* one producer at a time there is never a second open row of a key.         *)
Inserting(k) == {p \in Producers : pending[p] # None /\ KeyOf[pending[p]] = k}
DuplicatesBounded ==
  \A k \in Keys :
    Cardinality(OpenRows(k)) + Cardinality(Inserting(k)) <= Cardinality(Producers)

(* A completed row is never opened again, however late a former owner's      *)
(* failure is recorded: so JobPromise promises (KeepsPromise, below).        *)
CompletedIsFinal ==
  [][\A j \in Jobs : status[j] = "done" => status'[j] \in {"done", "purged"}]_vars

(* drain runs every job it claimed unless the worker dies: "a failing job    *)
(* does not stop the batch" (tests/unit/test_workers.py).                    *)
EveryClaimedJobIsRun ==
  [][\A w \in Workers, j \in Jobs :
       Holds(w, j) /\ ~Holds(w, j)' /\ crashes' = crashes => j = Current(w)]_vars

(* The queue keeps its promise: every step of it is a step of JobPromise.    *)
Promise == INSTANCE JobPromise
KeepsPromise == Promise!Spec

(* Every job put on the queue is run to completion or given up: a lock left  *)
(* by a dead worker, a retry, an abandoned batch only delay it.              *)
EveryJobSettles ==
  \A j \in Jobs : status[j] = "open" ~> status[j] # "open"
=============================================================================
