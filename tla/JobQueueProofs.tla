--------------------------- MODULE JobQueueProofs ---------------------------
(***************************************************************************)
(* Proofs about JobQueue for any number of rows, workers and producers,    *)
(* any MAX_ATTEMPTS, lock timeout, batch size and backoff.                 *)
(***************************************************************************)
EXTENDS JobQueue, SequenceTheorems, FiniteSetTheorems, TLAPS

(* A failure is written from a count no greater than the failures so far.   *)
SeenAreFailures ==
  \A w \in Workers : \A i \in Positions(w) :
    batch[w][i].seen <= failures[batch[w][i].job]

(* What a worker holds has been inserted and is not yet deleted. *)
HeldRowsExist ==
  \A w \in Workers : \A i \in Positions(w) :
    status[batch[w][i].job] \in {"open", "done"}

(* A batch lists a row once, and only a busy worker records a failure.      *)
BatchesDistinct ==
  \A w \in Workers :
    /\ \A i, k \in Positions(w) : i # k => batch[w][i].job # batch[w][k].job
    /\ failing[w] # "no" => Busy(w)

(* A row nobody has committed yet is as insert leaves it. *)
NewRowsBlank ==
  /\ \A j \in Jobs : status[j] = "absent" => attempts[j] = 0
  /\ \A p \in Producers : pending[p] # None => status[pending[p]] = "absent"
  /\ \A p, q \in Producers : pending[p] = pending[q] /\ p # q => pending[p] = None

(* Until a worker overruns it, the lock of a held row is fresh. *)
HeldLocksFresh ==
  \A w \in Workers : \A i \in Positions(w) :
    LET j == batch[w][i].job
    IN status[j] = "open" /\ ~overran[j] => lock[j] \in 0..LockTimeout

IInv ==
  /\ TypeOK
  /\ NoWedgedJob
  /\ AttemptsAreFailures
  /\ SeenAreFailures
  /\ HeldRowsExist
  /\ BatchesDistinct
  /\ NewRowsBlank
  /\ HeldLocksFresh
  /\ ExclusiveUnlessOverrun
-----------------------------------------------------------------------------
(* What drain leaves of a batch: the tail, each job one position earlier.   *)
LEMMA TailOfBatch ==
  ASSUME NEW b \in Seq(Claimed), b # << >>
  PROVE  /\ b[1] \in Claimed
         /\ Tail(b) \in Seq(Claimed)
         /\ DOMAIN Tail(b) \subseteq Nat
         /\ \A i \in DOMAIN Tail(b) :
              i + 1 \in DOMAIN b /\ i + 1 # 1 /\ Tail(b)[i] = b[i + 1]
<1>1. Len(b) \in Nat /\ Len(b) > 0 /\ DOMAIN b = 1..Len(b)
  OBVIOUS
<1>2. b[1] \in Claimed
  BY <1>1
<1>3. Tail(b) \in Seq(Claimed) /\ Len(Tail(b)) = Len(b) - 1
  BY <1>1
<1>4. \A i \in 1..Len(b) - 1 : Tail(b)[i] = b[i + 1]
  BY <1>1
<1>5. DOMAIN Tail(b) = 1..Len(b) - 1
  BY <1>1, <1>3
<1> QED
  BY <1>1, <1>2, <1>3, <1>4, <1>5

(* Rereading a failed job changes nothing but the count it was seen with.   *)
LEMMA RereadBatch ==
  ASSUME NEW b \in Seq(Claimed), b # << >>, NEW n \in Nat
  PROVE  LET c == [b EXCEPT ![1].seen = n]
         IN /\ c \in Seq(Claimed)
            /\ DOMAIN c = DOMAIN b
            /\ \A i \in DOMAIN b : c[i].job = b[i].job
            /\ c[1].seen = n
            /\ \A i \in DOMAIN b : i # 1 => c[i] = b[i]
<1> DEFINE r == [b[1] EXCEPT !.seen = n]
           c == [b EXCEPT ![1] = r]
<1>1. Len(b) \in Nat /\ 1 \in 1..Len(b) /\ DOMAIN b = 1..Len(b)
  OBVIOUS
<1>2. b[1] \in Claimed
  BY <1>1
<1>3. r \in Claimed /\ r.job = b[1].job /\ r.seen = n
  BY <1>2 DEF Claimed
<1>4. c \in Seq(Claimed)
  BY <1>1, <1>3, ExceptSeq
<1>5. DOMAIN c = DOMAIN b /\ c[1] = r /\ \A i \in DOMAIN b : i # 1 => c[i] = b[i]
  BY <1>1
<1>6. \A i \in DOMAIN b : c[i].job = b[i].job
  BY <1>3, <1>5
<1> QED
  BY <1>3, <1>4, <1>5, <1>6

(* A backoff is bounded, whatever the count it is computed from. *)
LEMMA BackoffType == \A n : Backoff(n) \in -Horizon..MaxBackoff
  BY QueueAssumption DEF Backoff

(* A busy worker's first job is a row, with the count it was seen with. *)
LEMMA CurrentType ==
  ASSUME TypeOK, NEW w \in Workers, Busy(w)
  PROVE  /\ batch[w] \in Seq(Claimed)
         /\ 1 \in Positions(w)
         /\ Current(w) \in Jobs
         /\ batch[w][1].seen \in Nat
<1>1. batch[w] \in Seq(Claimed) /\ batch[w] # << >>
  BY DEF TypeOK, Busy
<1>2. batch[w][1] \in Claimed /\ 1 \in DOMAIN batch[w]
  BY <1>1
<1> QED
  BY <1>1, <1>2 DEF Current, Claimed, Positions

(* What a worker holds is a row and the count it was seen with.             *)
LEMMA HeldType ==
  ASSUME TypeOK, NEW w \in Workers, NEW i \in Positions(w)
  PROVE  batch[w][i].job \in Jobs /\ batch[w][i].seen \in Nat
<1>1. batch[w] \in Seq(Claimed)
  BY DEF TypeOK
<1>2. DOMAIN batch[w] = 1..Len(batch[w])
  BY <1>1
<1>3. batch[w][i] \in Claimed
  BY <1>1, <1>2 DEF Positions
<1> QED  BY <1>3 DEF Claimed

(* The empty table is well typed. *)
LEMMA InitType == Init => TypeOK
  BY QueueAssumption DEF Init, TypeOK, Unlocked

(* Every operation of the queue keeps the table well typed. *)
LEMMA NextType ==
  ASSUME TypeOK, [Next]_vars
  PROVE  TypeOK'
<1> USE QueueAssumption DEF TypeOK, Unlocked
<1>1. ASSUME NEW p \in Producers, NEW j \in Jobs, EnqueueCheck(p, j)  PROVE TypeOK'
  BY <1>1 DEF EnqueueCheck, table, history
<1>2. ASSUME NEW p \in Producers, EnqueueCommit(p)  PROVE TypeOK'
  BY <1>2 DEF EnqueueCommit, history
<1>3. ASSUME NEW p \in Producers, EnqueueRollback(p)  PROVE TypeOK'
  BY <1>3 DEF EnqueueRollback, table, history
<1>4. ASSUME NEW w \in Workers, Claim(w)  PROVE TypeOK'
  <2>0. PICK n \in 1..BatchLimit : \E s \in [1..n -> Jobs] :
          /\ batch' = [batch EXCEPT ![w] =
                         [i \in 1..n |-> [job |-> s[i], seen |-> attempts[s[i]]]]]
          /\ lock' = [j \in Jobs |-> IF \E i \in 1..n : s[i] = j THEN 0 ELSE lock[j]]
    BY <1>4, ZenonT(30) DEF Claim
  <2>1. PICK s \in [1..n -> Jobs] :
          /\ batch' = [batch EXCEPT ![w] =
                         [i \in 1..n |-> [job |-> s[i], seen |-> attempts[s[i]]]]]
          /\ lock' = [j \in Jobs |-> IF \E i \in 1..n : s[i] = j THEN 0 ELSE lock[j]]
    BY <2>0
  <2>2. [i \in 1..n |-> [job |-> s[i], seen |-> attempts[s[i]]]] \in Seq(Claimed)
    <3>1. \A i \in 1..n : [job |-> s[i], seen |-> attempts[s[i]]] \in Claimed
      BY DEF Claimed
    <3> QED  BY <3>1
  <2>3. batch' \in [Workers -> Seq(Claimed)]
    BY <2>1, <2>2
  <2>4. lock' \in [Jobs -> Unlocked..LockTimeout + 1]
    BY <2>1, SMTT(30)
  <2> QED  BY <1>4, <2>3, <2>4 DEF Claim, history
<1>5. ASSUME NEW w \in Workers, RejectUnknown(w)  PROVE TypeOK'
  <2>1. Busy(w)
    BY <1>5 DEF RejectUnknown, Runnable
  <2>2. Tail(batch[w]) \in Seq(Claimed)
    BY <2>1, TailOfBatch DEF Busy
  <2> QED  BY <1>5, <2>2 DEF RejectUnknown, history
<1>6. ASSUME NEW w \in Workers, Succeed(w)  PROVE TypeOK'
  <2>1. Busy(w)
    BY <1>6 DEF Succeed, Runnable
  <2>2. Tail(batch[w]) \in Seq(Claimed)
    BY <2>1, TailOfBatch DEF Busy
  <2>3. batch' = [batch EXCEPT ![w] = Tail(batch[w])]
    BY <1>6 DEF Succeed
  <2>4. batch' \in [Workers -> Seq(Claimed)]
    BY <2>2, <2>3
  <2>5. lock' = [lock EXCEPT ![Current(w)] = -1]
    BY <1>6 DEF Succeed
  <2>6. lock' \in [Jobs -> Unlocked..LockTimeout + 1]
    <3>1. -1 \in Unlocked..LockTimeout + 1
      OBVIOUS
    <3>2. lock \in [Jobs -> Unlocked..LockTimeout + 1]
      OBVIOUS
    <3> HIDE QueueAssumption DEF TypeOK, Unlocked
    <3> QED  BY <2>5, <3>1, <3>2
  <2> QED  BY <1>6, <2>4, <2>6 DEF Succeed, history
<1>7. ASSUME NEW w \in Workers, Raise(w)  PROVE TypeOK'
  <2>1. Busy(w)
    BY <1>7 DEF Raise, Runnable
  <2>2. attempts[Current(w)] \in Nat
    BY <2>1, CurrentType
  <2>3. [batch[w] EXCEPT ![1].seen = attempts[Current(w)]] \in Seq(Claimed)
    BY <2>1, <2>2, RereadBatch DEF Busy
  <2>4. batch' \in [Workers -> Seq(Claimed)]
    BY <1>7, <2>3 DEF Raise
  <2> QED  BY <1>7, <2>4 DEF Raise, table, history
<1>8. ASSUME NEW w \in Workers, RecordFailure(w)  PROVE TypeOK'
  <2> DEFINE j == Current(w)
             n == batch[w][1].seen + 1
  <2>1. Busy(w) /\ j \in Jobs /\ n \in Nat
    <3>1. Busy(w)
      BY <1>8 DEF RecordFailure
    <3>2. j \in Jobs /\ batch[w][1].seen \in Nat
      BY <3>1, CurrentType
    <3> QED  BY <3>1, <3>2, SMTT(30)
  <2>2. Tail(batch[w]) \in Seq(Claimed) /\ << >> \in Seq(Claimed)
    BY <2>1, TailOfBatch DEF Busy
  <2>3. Backoff(n) \in -Horizon..MaxBackoff
    BY BackoffType
  <2>4. AfterFailure(n, status[j]) \in {"absent", "open", "done", "purged"}
    BY <2>1 DEF AfterFailure
  <2> HIDE DEF j, n
  <2>5. /\ attempts' = [attempts EXCEPT ![j] = n]
        /\ lock' = [lock EXCEPT ![j] = Unlocked]
        /\ wait' = [wait EXCEPT ![j] = Backoff(n)]
        /\ status' = [status EXCEPT ![j] = AfterFailure(n, status[j])]
        /\ batch' = [batch EXCEPT ![w] = IF failing[w] = "expired"
                                          THEN << >> ELSE Tail(batch[w])]
        /\ failing' = [failing EXCEPT ![w] = "no"]
        /\ failures' = [failures EXCEPT ![j] = failures[j] + 1]
        /\ UNCHANGED <<pending, crashes, overran>>
    BY <1>8 DEF RecordFailure, j, n
  <2>6. batch' \in [Workers -> Seq(Claimed)]
    BY <2>2, <2>5
  <2>7. attempts' \in [Jobs -> Nat] /\ failures' \in [Jobs -> Nat]
    BY <2>1, <2>5
  <2>8. wait' \in [Jobs -> -Horizon..MaxBackoff] /\ lock' \in [Jobs -> Unlocked..LockTimeout + 1]
    BY <2>1, <2>3, <2>5
  <2>9. status' \in [Jobs -> {"absent", "open", "done", "purged"}]
    BY <2>1, <2>4, <2>5
  <2> QED  BY <2>5, <2>6, <2>7, <2>8, <2>9
<1>9. ASSUME NEW w \in Workers, Crash(w)  PROVE TypeOK'
  <2>1. << >> \in Seq(Claimed)
    OBVIOUS
  <2> QED  BY <1>9, <2>1 DEF Crash, table, history
<1>10. ASSUME NEW j \in Jobs, PurgeCompleted(j)  PROVE TypeOK'
  BY <1>10 DEF PurgeCompleted, history
<1>11. CASE Tick
  <2>1. wait' \in [Jobs -> -Horizon..MaxBackoff]
    BY <1>11 DEF Tick
  <2>2. lock' \in [Jobs -> Unlocked..LockTimeout + 1]
    BY <1>11 DEF Tick, Older
  <2>3. overran' \in [Jobs -> BOOLEAN]
    <3>1. \A j \in Jobs : (overran[j] \/ (Held(j) /\ status[j] = "open" /\ Older(j) > LockTimeout))
                             \in BOOLEAN
      OBVIOUS
    <3> QED  BY <1>11, <3>1, Zenon DEF Tick
  <2> QED  BY <1>11, <2>1, <2>2, <2>3 DEF Tick
<1>12. CASE UNCHANGED vars
  BY <1>12 DEF vars, table, history
<1> QED
  BY <1>1, <1>2, <1>3, <1>4, <1>5, <1>6, <1>7, <1>8, <1>9, <1>10, <1>11, <1>12
  DEF Next, Finish

(* The theorem TypeCorrect states the type invariant of the whole table.    *)
THEOREM TypeCorrect == Spec => []TypeOK
<1>1. Init => TypeOK
  BY InitType
<1>2. TypeOK /\ [Next]_vars => TypeOK'
  BY NextType
<1> QED
  BY <1>1, <1>2, PTL DEF Spec

-----------------------------------------------------------------------------
(* A worker that finishes its current job keeps at most the jobs behind it. *)
LEMMA ShrunkBatch ==
  ASSUME TypeOK, BatchesDistinct, NEW w \in Workers, Busy(w),
         batch' = [batch EXCEPT ![w] = Tail(batch[w])]
           \/ batch' = [batch EXCEPT ![w] = << >>]
  PROVE  /\ \A v \in Workers : \A i \in Positions(v)' :
              \E k \in Positions(v) :
                 /\ batch'[v][i] = batch[v][k]
                 /\ v = w => batch[v][k].job # Current(w)
         /\ \A v \in Workers : \A i, k \in Positions(v)' :
              i # k => batch'[v][i].job # batch'[v][k].job
<1>1. batch[w] \in Seq(Claimed) /\ batch[w] # << >>
  BY DEF TypeOK, Busy
<1>2. \A v \in Workers : v # w => batch'[v] = batch[v]
  BY DEF TypeOK
<1>3. CASE batch'[w] = << >>
  <2>1. Positions(w)' = {}
    BY <1>3 DEF Positions
  <2> QED
    BY <1>2, <2>1 DEF Positions, BatchesDistinct
<1>4. CASE batch'[w] = Tail(batch[w])
  <2>1. /\ DOMAIN Tail(batch[w]) \subseteq Nat
        /\ \A i \in DOMAIN Tail(batch[w]) :
             i + 1 \in DOMAIN batch[w] /\ i + 1 # 1 /\ Tail(batch[w])[i] = batch[w][i + 1]
    BY <1>1, TailOfBatch
  <2>2. 1 \in DOMAIN batch[w]
    BY <1>1
  <2>3. \A i \in Positions(w)' : /\ i + 1 \in Positions(w)
                                  /\ batch'[w][i] = batch[w][i + 1]
                                  /\ batch[w][i + 1].job # Current(w)
    BY <1>4, <2>1, <2>2 DEF Positions, BatchesDistinct, Current
  <2>4. \A i, k \in Positions(w)' : i # k => i + 1 # k + 1
    BY <1>4, <2>1 DEF Positions
  <2>5. \A i, k \in Positions(w)' : i # k => batch'[w][i].job # batch'[w][k].job
    BY <2>3, <2>4 DEF BatchesDistinct
  <2> QED
    BY <1>2, <2>3, <2>5 DEF Positions, BatchesDistinct
<1> QED
  BY <1>3, <1>4 DEF TypeOK

(* The inductive invariant holds of the empty table. *)
LEMMA InitInv == Init => IInv
<1> SUFFICES ASSUME Init  PROVE IInv
  OBVIOUS
<1>1. TypeOK
  BY InitType
<1>2. \A w \in Workers : Positions(w) = {}
  BY DEF Init, Positions
<1>3. NoWedgedJob /\ AttemptsAreFailures /\ NewRowsBlank
  BY QueueAssumption DEF Init, NoWedgedJob, AttemptsAreFailures, NewRowsBlank
<1>4. SeenAreFailures /\ HeldRowsExist /\ BatchesDistinct /\ HeldLocksFresh
  BY <1>2 DEF SeenAreFailures, HeldRowsExist, BatchesDistinct, HeldLocksFresh, Init
<1>5. ExclusiveUnlessOverrun
  BY <1>2 DEF ExclusiveUnlessOverrun, Holds
<1> QED
  BY <1>1, <1>3, <1>4, <1>5 DEF IInv

(* The enqueues touch no batch and no lock. *)
LEMMA EnqueueInv ==
  ASSUME IInv, TypeOK', NEW p \in Producers,
         (\E j \in Jobs : EnqueueCheck(p, j)) \/ EnqueueCommit(p) \/ EnqueueRollback(p)
  PROVE  IInv'
<1> USE QueueAssumption
<1>1. UNCHANGED <<attempts, lock, batch, failing, failures, overran>>
  BY DEF EnqueueCheck, EnqueueCommit, EnqueueRollback, table, history
<1>2. SeenAreFailures' /\ BatchesDistinct' /\ ExclusiveUnlessOverrun' /\ AttemptsAreFailures'
  BY <1>1 DEF IInv, SeenAreFailures, BatchesDistinct, ExclusiveUnlessOverrun,
              AttemptsAreFailures, Holds, Positions, Busy
<1>3. \/ UNCHANGED status
      \/ /\ pending[p] \in Jobs /\ status[pending[p]] = "absent"
         /\ status' = [status EXCEPT ![pending[p]] = "open"]
         /\ pending' = [pending EXCEPT ![p] = None]
  BY DEF EnqueueCheck, EnqueueCommit, EnqueueRollback, table, IInv, NewRowsBlank, TypeOK
<1>4. HeldRowsExist' /\ HeldLocksFresh'
  <2>1. \A w \in Workers : \A i \in Positions(w) : batch[w][i].job \in Jobs
    BY HeldType DEF IInv
  <2>2. \A j \in Jobs : status[j] # "absent" => status'[j] = status[j]
    BY <1>3 DEF IInv, TypeOK
  <2>3. \A w \in Workers : \A i \in Positions(w) : status[batch[w][i].job] # "absent"
    BY DEF IInv, HeldRowsExist
  <2>4. \A w \in Workers : \A i \in Positions(w) :
          status'[batch[w][i].job] = status[batch[w][i].job]
    BY <2>1, <2>2, <2>3
  <2> QED
    BY <1>1, <2>4 DEF IInv, HeldRowsExist, HeldLocksFresh, Positions
<1>5. NoWedgedJob'
  <2>1. \A j \in Jobs : status'[j] = "open" => status[j] = "open" \/ attempts[j] = 0
    BY <1>3 DEF IInv, NewRowsBlank, TypeOK
  <2> QED
    BY <1>1, <2>1 DEF IInv, NoWedgedJob
<1>6. NewRowsBlank'
  <2>1. CASE \E j \in Jobs : EnqueueCheck(p, j)
    BY <2>1 DEF EnqueueCheck, IInv, NewRowsBlank, TypeOK, table
  <2>2. CASE EnqueueCommit(p)
    BY <2>2 DEF EnqueueCommit, IInv, NewRowsBlank, TypeOK
  <2>3. CASE EnqueueRollback(p)
    BY <2>3 DEF EnqueueRollback, IInv, NewRowsBlank, TypeOK, table
  <2> QED  BY <2>1, <2>2, <2>3
<1> QED
  BY <1>2, <1>4, <1>5, <1>6 DEF IInv

(* claim takes only rows whose lock is absent or stale: a row somebody      *)
(* holds without having overrun it is neither.                              *)
LEMMA ClaimInv ==
  ASSUME IInv, TypeOK', NEW w \in Workers, Claim(w)
  PROVE  IInv'
<1> USE QueueAssumption
<1>1. PICK n \in 1..BatchLimit : \E s \in [1..n -> Jobs] :
        /\ DueFirst(s)
        /\ batch' = [batch EXCEPT ![w] =
                       [i \in 1..n |-> [job |-> s[i], seen |-> attempts[s[i]]]]]
        /\ lock' = [j \in Jobs |-> IF \E i \in 1..n : s[i] = j THEN 0 ELSE lock[j]]
  BY DEF Claim
<1>2. PICK s \in [1..n -> Jobs] :
        /\ DueFirst(s)
        /\ batch' = [batch EXCEPT ![w] =
                       [i \in 1..n |-> [job |-> s[i], seen |-> attempts[s[i]]]]]
        /\ lock' = [j \in Jobs |-> IF \E i \in 1..n : s[i] = j THEN 0 ELSE lock[j]]
  BY <1>1
<1>3. UNCHANGED <<status, attempts, pending, failing, failures, overran>>
  BY DEF Claim, history
<1>4. /\ \A i \in 1..n : s[i] \in Jobs /\ Claimable(s[i])
      /\ \A i, k \in 1..n : i # k => s[i] # s[k]
  BY <1>2 DEF DueFirst
<1>5. /\ Positions(w)' = 1..n
      /\ \A i \in 1..n : batch'[w][i].job = s[i] /\ batch'[w][i].seen = attempts[s[i]]
      /\ \A v \in Workers : v # w => batch'[v] = batch[v] /\ Positions(v)' = Positions(v)
  BY <1>2 DEF Positions, IInv, TypeOK
<1>6. NoWedgedJob' /\ AttemptsAreFailures' /\ NewRowsBlank'
  BY <1>3 DEF IInv, NoWedgedJob, AttemptsAreFailures, NewRowsBlank
<1>7. SeenAreFailures'
  BY <1>3, <1>4, <1>5 DEF IInv, SeenAreFailures, AttemptsAreFailures
<1>8. HeldRowsExist'
  BY <1>3, <1>4, <1>5 DEF IInv, HeldRowsExist, Claimable
<1>9. BatchesDistinct'
  <2>1. batch'[w] # << >>
    BY <1>5 DEF Positions
  <2> QED
    BY <1>3, <1>4, <1>5, <2>1, SMTT(30) DEF IInv, BatchesDistinct, Busy
<1>10. HeldLocksFresh'
  <2>1. \A i \in 1..n : lock'[s[i]] = 0
    BY <1>2, <1>4
  <2>2. \A j \in Jobs : lock'[j] \in {0, lock[j]}
    BY <1>2
  <2>3. \A v \in Workers : v # w => \A i \in Positions(v) : batch[v][i].job \in Jobs
    BY HeldType DEF IInv
  <2>4. ASSUME NEW v \in Workers, NEW i \in Positions(v)',
               status[batch'[v][i].job] = "open", ~overran[batch'[v][i].job]
        PROVE  lock'[batch'[v][i].job] \in 0..LockTimeout
    <3>1. CASE v = w
      BY <1>5, <2>1, <3>1
    <3>2. CASE v # w
      BY <1>5, <2>2, <2>3, <2>4, <3>2 DEF IInv, HeldLocksFresh
    <3> QED  BY <3>1, <3>2
  <2> QED
    BY <1>3, <2>4 DEF HeldLocksFresh
<1>11. ExclusiveUnlessOverrun'
  <2>1. ASSUME NEW v \in Workers, NEW j \in Jobs, v # w, Holds(v, j), Holds(w, j)'
        PROVE  overran[j]
    <3>1. PICK i \in Positions(v) : batch[v][i].job = j
      BY <2>1 DEF Holds
    <3>2. Claimable(j)
      BY <1>4, <1>5, <2>1 DEF Holds
    <3>3. lock[j] \in Int
      BY DEF IInv, TypeOK, Unlocked
    <3>4. status[j] = "open" /\ lock[j] \notin 0..LockTimeout
      BY <3>2, <3>3 DEF Claimable, Unlocked
    <3> QED
      BY <3>1, <3>4 DEF IInv, HeldLocksFresh
  <2>2. \A v \in Workers, j \in Jobs : v # w => (Holds(v, j)' <=> Holds(v, j))
    BY <1>5 DEF Holds, Positions
  <2> QED
    BY <1>3, <2>1, <2>2 DEF IInv, ExclusiveUnlessOverrun
<1> QED
  BY <1>6, <1>7, <1>8, <1>9, <1>10, <1>11 DEF IInv

(* Whatever a worker is done with, it lets go of; nobody takes hold.        *)
LEMMA LetGo ==
  ASSUME IInv, NEW w \in Workers, Busy(w),
         batch' = [batch EXCEPT ![w] = Tail(batch[w])]
           \/ batch' = [batch EXCEPT ![w] = << >>]
  PROVE  /\ \A v \in Workers, j \in Jobs :
              Holds(v, j)' => Holds(v, j) /\ (v = w => j # Current(w))
         /\ \A v \in Workers : \A i \in Positions(v)' :
              \E k \in Positions(v) : batch'[v][i] = batch[v][k]
         /\ \A v \in Workers : \A i, k \in Positions(v)' :
              i # k => batch'[v][i].job # batch'[v][k].job
         /\ \A v \in Workers : v # w => batch'[v] = batch[v]
<1>1. \A v \in Workers : v # w => batch'[v] = batch[v]
  BY DEF IInv, TypeOK
<1> QED
  BY <1>1, ShrunkBatch DEF IInv, Holds

(* Rows keep their locks and their status but for one, which its worker     *)
(* settles and lets go of, or which that worker is alone in holding.        *)
LEMMA SettleInv ==
  ASSUME IInv, TypeOK', NEW w \in Workers, RejectUnknown(w) \/ Succeed(w)
  PROVE  IInv'
<1> DEFINE c == Current(w)
<1>1. Busy(w) /\ c \in Jobs /\ 1 \in Positions(w)
  <2>1. Busy(w)
    BY DEF RejectUnknown, Succeed, Runnable
  <2> QED  BY <2>1, CurrentType DEF IInv
<1>2. /\ batch' = [batch EXCEPT ![w] = Tail(batch[w])]
      /\ status' = [status EXCEPT ![c] = "done"]
      /\ failing[w] = "no"
      /\ UNCHANGED <<attempts, pending, failing, failures, overran>>
      /\ lock' = lock \/ lock' = [lock EXCEPT ![c] = Unlocked]
  BY DEF RejectUnknown, Succeed, Runnable, history
<1> HIDE DEF c
<1>3. /\ \A v \in Workers, j \in Jobs :
           Holds(v, j)' => Holds(v, j) /\ (v = w => j # Current(w))
      /\ \A v \in Workers : \A i \in Positions(v)' :
           \E k \in Positions(v) : batch'[v][i] = batch[v][k]
      /\ \A v \in Workers : \A i, k \in Positions(v)' :
           i # k => batch'[v][i].job # batch'[v][k].job
      /\ \A v \in Workers : v # w => batch'[v] = batch[v]
  BY <1>1, <1>2, LetGo
<1>4. /\ status'[c] = "done"
      /\ \A j \in Jobs : j # c => status'[j] = status[j] /\ lock'[j] = lock[j]
  BY <1>1, <1>2 DEF IInv, TypeOK
<1>5. \A v \in Workers : \A i \in Positions(v) : batch[v][i].job \in Jobs
  BY HeldType DEF IInv
<1>6. NoWedgedJob' /\ AttemptsAreFailures'
  BY <1>2, <1>4 DEF IInv, NoWedgedJob, AttemptsAreFailures
<1>7. SeenAreFailures'
  BY <1>2, <1>3, ZenonT(30) DEF IInv, SeenAreFailures
<1>8. HeldRowsExist'
  BY <1>3, <1>4, <1>5 DEF IInv, HeldRowsExist
<1>9. BatchesDistinct'
  BY <1>2, <1>3 DEF IInv, BatchesDistinct, Busy
<1>10. NewRowsBlank'
  <2>1. status[c] # "absent"
    BY <1>1 DEF IInv, HeldRowsExist, Current, c
  <2> QED
    BY <1>1, <1>2, <1>4, <2>1, SMTT(30) DEF IInv, NewRowsBlank, TypeOK
<1>11. HeldLocksFresh'
  <2> SUFFICES ASSUME NEW v \in Workers, NEW i \in Positions(v)',
                      status'[batch'[v][i].job] = "open", ~overran[batch'[v][i].job]
               PROVE  lock'[batch'[v][i].job] \in 0..LockTimeout
    BY <1>2 DEF HeldLocksFresh
  <2>1. PICK k \in Positions(v) : batch'[v][i] = batch[v][k]
    BY <1>3
  <2>2. batch[v][k].job \in Jobs /\ batch[v][k].job # c
    BY <1>4, <1>5, <2>1
  <2> QED
    BY <1>4, <2>1, <2>2 DEF IInv, HeldLocksFresh
<1>12. ExclusiveUnlessOverrun'
  BY <1>2, <1>3 DEF IInv, ExclusiveUnlessOverrun
<1> QED
  BY <1>6, <1>7, <1>8, <1>9, <1>10, <1>11, <1>12 DEF IInv

(* Rereading a failed job's row can only learn of failures that happened.   *)
LEMMA RaiseInv ==
  ASSUME IInv, TypeOK', NEW w \in Workers, Raise(w)
  PROVE  IInv'
<1>1. Busy(w) /\ Current(w) \in Jobs /\ 1 \in Positions(w)
  <2>1. Busy(w)
    BY DEF Raise, Runnable
  <2> QED  BY <2>1, CurrentType DEF IInv
<1>2. /\ UNCHANGED <<status, attempts, lock, pending, failures, overran>>
      /\ \A v \in Workers : v # w => failing'[v] = failing[v]
  BY DEF Raise, table, history, IInv, TypeOK
<1>3. /\ \A v \in Workers : Positions(v)' = Positions(v)
      /\ \A v \in Workers : \A i \in Positions(v) : batch'[v][i].job = batch[v][i].job
      /\ \A v \in Workers : \A i \in Positions(v) :
           \/ batch'[v][i] = batch[v][i]
           \/ batch'[v][i].seen = attempts[batch[v][i].job]
  <2>1. CASE UNCHANGED batch
    BY <2>1 DEF Positions
  <2>2. CASE batch' = [batch EXCEPT ![w][1].seen = attempts[Current(w)]]
    <3>1. batch[w] \in Seq(Claimed) /\ batch[w] # << >> /\ attempts[Current(w)] \in Nat
      BY <1>1 DEF IInv, TypeOK, Busy
    <3>2. batch'[w] = [batch[w] EXCEPT ![1].seen = attempts[Current(w)]]
      BY <2>2 DEF IInv, TypeOK
    <3>3. /\ DOMAIN batch'[w] = DOMAIN batch[w]
          /\ \A i \in DOMAIN batch[w] : batch'[w][i].job = batch[w][i].job
          /\ batch'[w][1].seen = attempts[Current(w)]
          /\ \A i \in DOMAIN batch[w] : i # 1 => batch'[w][i] = batch[w][i]
      BY <3>1, <3>2, RereadBatch
    <3>4. \A v \in Workers : v # w => batch'[v] = batch[v]
      BY <2>2 DEF IInv, TypeOK
    <3> QED
      BY <3>3, <3>4 DEF Positions, Current
  <2> QED  BY <2>1, <2>2 DEF Raise
<1>4. \A v \in Workers : \A i \in Positions(v) : batch[v][i].job \in Jobs
  BY HeldType DEF IInv
<1>5. NoWedgedJob' /\ AttemptsAreFailures' /\ NewRowsBlank'
  BY <1>2 DEF IInv, NoWedgedJob, AttemptsAreFailures, NewRowsBlank
<1>6. SeenAreFailures'
  BY <1>2, <1>3, <1>4 DEF IInv, SeenAreFailures, AttemptsAreFailures
<1>7. HeldRowsExist' /\ HeldLocksFresh'
  BY <1>2, <1>3 DEF IInv, HeldRowsExist, HeldLocksFresh
<1>8. BatchesDistinct'
  <2>1. batch'[w] # << >>
    BY <1>1, <1>3 DEF Positions
  <2> QED
    BY <1>2, <1>3, <2>1 DEF IInv, BatchesDistinct, Busy, Positions
<1>9. ExclusiveUnlessOverrun'
  BY <1>2, <1>3 DEF IInv, ExclusiveUnlessOverrun, Holds
<1> QED
  BY <1>5, <1>6, <1>7, <1>8, <1>9 DEF IInv

(* A failure may be recorded on a row others hold too, but then the row was *)
(* overrun; otherwise its only holder lets go of it.                        *)
LEMMA RecordFailureInv ==
  ASSUME IInv, TypeOK', NEW w \in Workers, RecordFailure(w)
  PROVE  IInv'
<1> DEFINE c == Current(w)
           n == batch[w][1].seen + 1
<1>1. Busy(w) /\ c \in Jobs /\ 1 \in Positions(w) /\ batch[w][1].seen \in Nat
  <2>1. Busy(w)
    BY DEF RecordFailure
  <2> QED  BY <2>1, CurrentType DEF IInv
<1>2. n \in Nat /\ n <= failures[c] + 1 /\ status[c] \in {"open", "done"}
  <2>1. batch[w][1].seen <= failures[c] /\ status[c] \in {"open", "done"}
    BY <1>1 DEF IInv, SeenAreFailures, HeldRowsExist, Current
  <2>2. failures[c] \in Nat
    BY <1>1 DEF IInv, TypeOK
  <2> QED  BY <1>1, <2>1, <2>2
<1>3. Holds(w, c)
  BY <1>1 DEF Holds, Current
<1> HIDE DEF c, n
<1>4. /\ attempts' = [attempts EXCEPT ![c] = n]
      /\ lock' = [lock EXCEPT ![c] = Unlocked]
      /\ status' = [status EXCEPT ![c] = AfterFailure(n, status[c])]
      /\ \/ batch' = [batch EXCEPT ![w] = << >>]
         \/ batch' = [batch EXCEPT ![w] = Tail(batch[w])]
      /\ failing' = [failing EXCEPT ![w] = "no"]
      /\ failures' = [failures EXCEPT ![c] = failures[c] + 1]
      /\ UNCHANGED <<pending, overran>>
  <2>1. batch' = [batch EXCEPT ![w] = IF failing[w] = "expired"
                                      THEN << >> ELSE Tail(batch[w])]
    BY DEF RecordFailure
  <2> QED  BY <2>1 DEF RecordFailure, c, n
<1>5. /\ \A v \in Workers, j \in Jobs :
           Holds(v, j)' => Holds(v, j) /\ (v = w => j # c)
      /\ \A v \in Workers : \A i \in Positions(v)' :
           \E k \in Positions(v) : batch'[v][i] = batch[v][k]
      /\ \A v \in Workers : \A i, k \in Positions(v)' :
           i # k => batch'[v][i].job # batch'[v][k].job
      /\ \A v \in Workers : v # w => batch'[v] = batch[v]
  BY <1>1, <1>4, LetGo DEF c
<1>6. /\ attempts'[c] = n
      /\ failures'[c] = failures[c] + 1
      /\ status'[c] \in {"open", "done"}
      /\ status'[c] = "open" => n < MaxAttempts
      /\ \A j \in Jobs : j # c => /\ status'[j] = status[j]
                                  /\ lock'[j] = lock[j]
                                  /\ attempts'[j] = attempts[j]
                                  /\ failures'[j] = failures[j]
  <2>1. AfterFailure(n, status[c]) \in {"open", "done"}
    BY <1>2 DEF AfterFailure
  <2>2. AfterFailure(n, status[c]) = "open" => n < MaxAttempts
    BY <1>2, QueueAssumption DEF AfterFailure
  <2>3. status'[c] = AfterFailure(n, status[c])
    BY <1>1, <1>4 DEF IInv, TypeOK
  <2>4. attempts'[c] = n /\ failures'[c] = failures[c] + 1
    BY <1>1, <1>4 DEF IInv, TypeOK
  <2>5. \A j \in Jobs : j # c => /\ status'[j] = status[j]
                                 /\ lock'[j] = lock[j]
                                 /\ attempts'[j] = attempts[j]
                                 /\ failures'[j] = failures[j]
    BY <1>4 DEF IInv, TypeOK
  <2> QED
    BY <2>1, <2>2, <2>3, <2>4, <2>5
<1>7. \A v \in Workers : \A i \in Positions(v) :
        batch[v][i].job \in Jobs /\ batch[v][i].seen \in Nat
  BY HeldType DEF IInv
<1>8. NoWedgedJob'
  BY <1>6 DEF IInv, NoWedgedJob
<1>9. AttemptsAreFailures'
  BY <1>2, <1>6 DEF IInv, AttemptsAreFailures
<1>10. SeenAreFailures'
  <2>1. \A j \in Jobs : failures[j] \in Nat /\ failures[j] <= failures'[j]
    <3>1. \A j \in Jobs : failures[j] \in Nat
      BY DEF IInv, TypeOK
    <3> QED  BY <1>1, <1>6, <3>1
  <2>2. \A v \in Workers : \A i \in Positions(v) :
          batch[v][i].seen <= failures'[batch[v][i].job]
    <3> SUFFICES ASSUME NEW v \in Workers, NEW i \in Positions(v)
                 PROVE  batch[v][i].seen <= failures'[batch[v][i].job]
      OBVIOUS
    <3>1. batch[v][i].seen \in Nat /\ batch[v][i].job \in Jobs
      BY <1>7
    <3>2. batch[v][i].seen <= failures[batch[v][i].job]
      BY DEF IInv, SeenAreFailures
    <3>3. failures'[batch[v][i].job] \in Nat
      BY <3>1 DEF TypeOK
    <3> QED  BY <2>1, <3>1, <3>2, <3>3
  <2> QED
    BY <1>5, <2>2 DEF SeenAreFailures
<1>11. HeldRowsExist'
  BY <1>5, <1>6, <1>7 DEF IInv, HeldRowsExist
<1>12. BatchesDistinct'
  <2>1. \A v \in Workers : failing'[v] # "no" => v # w /\ failing[v] # "no"
    BY <1>4 DEF IInv, TypeOK
  <2> QED
    BY <1>5, <2>1 DEF IInv, BatchesDistinct, Busy
<1>13. NewRowsBlank'
  <2>1. \A p \in Producers : pending[p] # None => pending[p] \in Jobs /\ pending[p] # c
    BY <1>2 DEF IInv, NewRowsBlank, TypeOK
  <2>2. \A j \in Jobs : status'[j] = "absent" => j # c
    BY <1>6
  <2> QED
    BY <1>4, <1>6, <2>1, <2>2 DEF IInv, NewRowsBlank
<1>14. HeldLocksFresh'
  <2> SUFFICES ASSUME NEW v \in Workers, NEW i \in Positions(v)',
                      status'[batch'[v][i].job] = "open", ~overran[batch'[v][i].job]
               PROVE  lock'[batch'[v][i].job] \in 0..LockTimeout
    BY <1>4 DEF HeldLocksFresh
  <2>1. PICK k \in Positions(v) : batch'[v][i] = batch[v][k]
    BY <1>5
  <2>2. PICK j \in Jobs : j = batch[v][k].job
    BY <1>7
  <2>3. j # c
    <3>. Holds(v, j) /\ Holds(v, j)'
      BY <2>1, <2>2 DEF Holds
    <3>1. CASE v = w
      BY <1>5, <3>1
    <3>2. CASE v # w
      BY <1>3, <2>1, <2>2, <3>2 DEF IInv, ExclusiveUnlessOverrun
    <3> QED  BY <3>1, <3>2
  <2> QED
    BY <1>6, <2>1, <2>2, <2>3 DEF IInv, HeldLocksFresh
<1>15. ExclusiveUnlessOverrun'
  BY <1>4, <1>5 DEF IInv, ExclusiveUnlessOverrun
<1> QED
  BY <1>8, <1>9, <1>10, <1>11, <1>12, <1>13, <1>14, <1>15 DEF IInv

(* A dead worker holds nothing; the rows it locked are as they were.        *)
LEMMA CrashInv ==
  ASSUME IInv, TypeOK', NEW w \in Workers, Crash(w)
  PROVE  IInv'
<1>1. /\ Busy(w)
      /\ batch' = [batch EXCEPT ![w] = << >>]
      /\ failing' = [failing EXCEPT ![w] = "no"]
      /\ UNCHANGED <<status, attempts, lock, pending, failures, overran>>
  BY DEF Crash, table, history
<1>2. /\ \A v \in Workers, j \in Jobs : Holds(v, j)' => Holds(v, j)
      /\ \A v \in Workers : \A i \in Positions(v)' :
           \E k \in Positions(v) : batch'[v][i] = batch[v][k]
      /\ \A v \in Workers : \A i, k \in Positions(v)' :
           i # k => batch'[v][i].job # batch'[v][k].job
      /\ \A v \in Workers : v # w => batch'[v] = batch[v]
  BY <1>1, LetGo
<1>3. NoWedgedJob' /\ AttemptsAreFailures' /\ NewRowsBlank'
  BY <1>1 DEF IInv, NoWedgedJob, AttemptsAreFailures, NewRowsBlank
<1>4. SeenAreFailures' /\ HeldRowsExist' /\ HeldLocksFresh'
  BY <1>1, <1>2 DEF IInv, SeenAreFailures, HeldRowsExist, HeldLocksFresh
<1>5. BatchesDistinct'
  <2>1. \A v \in Workers : failing'[v] # "no" => v # w /\ failing[v] # "no"
    BY <1>1 DEF IInv, TypeOK
  <2> QED
    BY <1>2, <2>1 DEF IInv, BatchesDistinct, Busy
<1>6. ExclusiveUnlessOverrun'
  BY <1>1, <1>2 DEF IInv, ExclusiveUnlessOverrun
<1> QED
  BY <1>3, <1>4, <1>5, <1>6 DEF IInv

(* Only a completed row nobody holds is deleted. *)
LEMMA PurgeInv ==
  ASSUME IInv, TypeOK', NEW r \in Jobs, PurgeCompleted(r)
  PROVE  IInv'
<1>1. /\ status[r] = "done" /\ ~Held(r)
      /\ status' = [status EXCEPT ![r] = "purged"]
      /\ UNCHANGED <<attempts, lock, pending, batch, failing, failures, overran>>
  BY DEF PurgeCompleted, history
<1>2. /\ status'[r] = "purged"
      /\ \A j \in Jobs : j # r => status'[j] = status[j]
  BY <1>1 DEF IInv, TypeOK
<1>3. \A v \in Workers : \A i \in Positions(v) :
        batch[v][i].job \in Jobs /\ batch[v][i].job # r
  BY <1>1, HeldType DEF IInv, Held, Holds
<1>4. NoWedgedJob' /\ AttemptsAreFailures' /\ SeenAreFailures' /\ BatchesDistinct'
  BY <1>1, <1>2 DEF IInv, NoWedgedJob, AttemptsAreFailures, SeenAreFailures,
                    BatchesDistinct, Positions, Busy
<1>5. NewRowsBlank'
  <2>1. \A p \in Producers : pending[p] # None => pending[p] \in Jobs /\ pending[p] # r
    BY <1>1 DEF IInv, NewRowsBlank, TypeOK
  <2> QED
    BY <1>1, <1>2, <2>1 DEF IInv, NewRowsBlank
<1>6. HeldRowsExist' /\ HeldLocksFresh'
  BY <1>1, <1>2, <1>3 DEF IInv, HeldRowsExist, HeldLocksFresh, Positions
<1>7. ExclusiveUnlessOverrun'
  BY <1>1 DEF IInv, ExclusiveUnlessOverrun, Holds, Positions
<1> QED
  BY <1>4, <1>5, <1>6, <1>7 DEF IInv

(* When time carries a held lock past its timeout, the row counts overrun.  *)
LEMMA TickInv ==
  ASSUME IInv, TypeOK', Tick
  PROVE  IInv'
<1>1. /\ UNCHANGED <<status, attempts, pending, batch, failing, failures>>
      /\ \A j \in Jobs : status[j] = "open" => lock'[j] = Older(j)
      /\ \A j \in Jobs : overran[j] => overran'[j]
      /\ \A j \in Jobs : Held(j) /\ status[j] = "open" /\ Older(j) > LockTimeout
                           => overran'[j]
  BY DEF Tick
<1>2. NoWedgedJob' /\ AttemptsAreFailures' /\ SeenAreFailures' /\ BatchesDistinct'
      /\ NewRowsBlank' /\ HeldRowsExist'
  BY <1>1 DEF IInv, NoWedgedJob, AttemptsAreFailures, SeenAreFailures,
              BatchesDistinct, NewRowsBlank, HeldRowsExist, Positions, Busy
<1>3. HeldLocksFresh'
  <2> SUFFICES ASSUME NEW v \in Workers, NEW i \in Positions(v),
                      status[batch[v][i].job] = "open", ~overran'[batch[v][i].job]
               PROVE  lock'[batch[v][i].job] \in 0..LockTimeout
    BY <1>1 DEF HeldLocksFresh, Positions
  <2>1. PICK j \in Jobs : j = batch[v][i].job
    BY HeldType DEF IInv
  <2>2. Held(j)
    BY <2>1 DEF Held, Holds
  <2>3. ~overran[j] /\ lock'[j] = Older(j) /\ ~(Older(j) > LockTimeout)
    BY <1>1, <2>1, <2>2
  <2>4. lock[j] \in 0..LockTimeout
    BY <2>1, <2>3 DEF IInv, HeldLocksFresh
  <2>5. Older(j) \in 0..LockTimeout
    BY <2>3, <2>4, QueueAssumption DEF Older, Unlocked
  <2> QED
    BY <2>1, <2>3, <2>5
<1>4. ExclusiveUnlessOverrun'
  <2>1. \A v \in Workers, j \in Jobs : Holds(v, j)' <=> Holds(v, j)
    BY <1>1 DEF Holds, Positions
  <2> QED
    BY <1>1, <2>1 DEF IInv, ExclusiveUnlessOverrun
<1> QED
  BY <1>2, <1>3, <1>4 DEF IInv

(* Every operation of the queue preserves the inductive invariant. *)
LEMMA NextInv == IInv /\ [Next]_vars => IInv'
<1> SUFFICES ASSUME IInv, [Next]_vars  PROVE IInv'
  OBVIOUS
<1> USE NextType DEF IInv
<1>1. TypeOK'
  BY NextType
<1> HIDE DEF IInv
<1>2. ASSUME NEW p \in Producers,
             (\E j \in Jobs : EnqueueCheck(p, j)) \/ EnqueueCommit(p) \/ EnqueueRollback(p)
      PROVE  IInv'
  BY <1>1, <1>2, EnqueueInv
<1>3. ASSUME NEW w \in Workers, Claim(w)  PROVE IInv'
  BY <1>1, <1>3, ClaimInv
<1>4. ASSUME NEW w \in Workers, RejectUnknown(w) \/ Succeed(w)  PROVE IInv'
  BY <1>1, <1>4, SettleInv
<1>5. ASSUME NEW w \in Workers, Raise(w)  PROVE IInv'
  BY <1>1, <1>5, RaiseInv
<1>6. ASSUME NEW w \in Workers, RecordFailure(w)  PROVE IInv'
  BY <1>1, <1>6, RecordFailureInv
<1>7. ASSUME NEW w \in Workers, Crash(w)  PROVE IInv'
  BY <1>1, <1>7, CrashInv
<1>8. ASSUME NEW j \in Jobs, PurgeCompleted(j)  PROVE IInv'
  BY <1>1, <1>8, PurgeInv
<1>9. CASE Tick
  BY <1>1, <1>9, TickInv
<1>10. CASE UNCHANGED vars
  <2>1. UNCHANGED <<status, attempts, wait, lock, pending, batch, failing, crashes,
                    failures, overran>>
    BY <1>10 DEF vars, table, history
  <2> QED
    BY <1>1, <2>1 DEF IInv, NoWedgedJob, AttemptsAreFailures, SeenAreFailures, HeldRowsExist,
                      BatchesDistinct, NewRowsBlank, HeldLocksFresh, ExclusiveUnlessOverrun,
                      Holds, Positions, Busy
<1> QED
  BY <1>2, <1>3, <1>4, <1>5, <1>6, <1>7, <1>8, <1>9, <1>10 DEF Next, Finish

(* The inductive invariant holds throughout. *)
LEMMA Inductive == Spec => []IInv
  BY InitInv, NextInv, PTL DEF Spec

-----------------------------------------------------------------------------
(* No row that claim would never take again is left open: run_one closes    *)
(* every row whose attempts it brings to MAX_ATTEMPTS.                      *)
THEOREM NoWedgedJobAlways == Spec => []NoWedgedJob
<1>1. IInv => NoWedgedJob
  BY DEF IInv
<1> QED  BY <1>1, Inductive, PTL

(* run_one never counts a failure that did not happen, so a job is given up *)
(* only after MAX_ATTEMPTS runs of it failed.                               *)
THEOREM AttemptsAreFailuresAlways == Spec => []AttemptsAreFailures
<1>1. IInv => AttemptsAreFailures
  BY DEF IInv
<1> QED  BY <1>1, Inductive, PTL

(* Two workers run one job only after a living worker outlived its lock.    *)
THEOREM ExclusiveUnlessOverrunAlways == Spec => []ExclusiveUnlessOverrun
<1>1. IInv => ExclusiveUnlessOverrun
  BY DEF IInv
<1> QED  BY <1>1, Inductive, PTL

-----------------------------------------------------------------------------
(* Each step of the queue is a step of JobPromise, or leaves the life of    *)
(* every job as it is.                                                      *)
LEMMA StepKeepsPromise ==
  ASSUME IInv, [Next]_vars
  PROVE  [Promise!Next]_(Promise!pvars)
<1> USE DEF Promise!Next, Promise!pvars
<1>1. ASSUME NEW p \in Producers, NEW j \in Jobs, EnqueueCheck(p, j)
      PROVE  UNCHANGED <<status, failures>>
  BY <1>1 DEF EnqueueCheck, table, history
<1>2. ASSUME NEW p \in Producers, EnqueueCommit(p)
      PROVE  \E j \in Jobs : Promise!Submit(j)
  <2>1. pending[p] \in Jobs /\ status[pending[p]] = "absent"
    BY <1>2 DEF EnqueueCommit, IInv, NewRowsBlank, TypeOK
  <2> QED
    BY <1>2, <2>1 DEF EnqueueCommit, history, Promise!Submit
<1>3. ASSUME NEW p \in Producers, EnqueueRollback(p)
      PROVE  UNCHANGED <<status, failures>>
  BY <1>3 DEF EnqueueRollback, table, history
<1>4. ASSUME NEW w \in Workers, Claim(w) \/ Raise(w) \/ Crash(w)
      PROVE  UNCHANGED <<status, failures>>
  BY <1>4 DEF Claim, Raise, Crash, table, history
<1>5. ASSUME NEW w \in Workers, RejectUnknown(w) \/ Succeed(w)
      PROVE  \/ \E j \in Jobs : Promise!Settle(j)
             \/ UNCHANGED <<status, failures>>
  <2>1. Busy(w)
    BY <1>5 DEF RejectUnknown, Succeed, Runnable
  <2>2. Current(w) \in Jobs /\ status[Current(w)] \in {"open", "done"}
    BY <2>1, CurrentType DEF IInv, HeldRowsExist, Current
  <2>3. status' = [status EXCEPT ![Current(w)] = "done"] /\ UNCHANGED failures
    BY <1>5 DEF RejectUnknown, Succeed, history
  <2>4. CASE status[Current(w)] = "open"
    BY <2>2, <2>3, <2>4 DEF Promise!Settle
  <2>5. CASE status[Current(w)] = "done"
    <3>1. status' = status
      BY <2>2, <2>3, <2>5 DEF IInv, TypeOK
    <3> QED  BY <2>3, <3>1
  <2> QED  BY <2>2, <2>4, <2>5
<1>6. ASSUME NEW w \in Workers, RecordFailure(w)
      PROVE  \E j \in Jobs : Promise!FailedRun(j)
  <2> DEFINE c == Current(w)
             n == batch[w][1].seen + 1
  <2>1. Busy(w)
    BY <1>6 DEF RecordFailure
  <2>2. c \in Jobs /\ status[c] \in {"open", "done"} /\ batch[w][1].seen <= failures[c]
    BY <2>1, CurrentType DEF IInv, HeldRowsExist, SeenAreFailures, Current
  <2>3. /\ status' = [status EXCEPT ![c] = AfterFailure(n, status[c])]
        /\ failures' = [failures EXCEPT ![c] = failures[c] + 1]
    BY <1>6 DEF RecordFailure
  <2>4. batch[w][1].seen \in Nat /\ failures[c] \in Nat
    BY <2>1, <2>2, CurrentType DEF IInv, TypeOK
  <2>5. CASE n >= MaxAttempts
    <3>1. AfterFailure(n, status[c]) = "done" /\ failures[c] + 1 >= MaxAttempts
      BY <2>2, <2>4, <2>5, QueueAssumption DEF AfterFailure
    <3> QED  BY <2>2, <2>3, <3>1 DEF Promise!FailedRun
  <2>6. CASE ~(n >= MaxAttempts)
    <3>1. status' = status
      BY <2>2, <2>3, <2>6 DEF AfterFailure, IInv, TypeOK
    <3> QED  BY <2>2, <2>3, <3>1 DEF Promise!FailedRun
  <2> QED  BY <2>5, <2>6
<1>7. ASSUME NEW j \in Jobs, PurgeCompleted(j)
      PROVE  Promise!Forget(j)
  BY <1>7 DEF PurgeCompleted, history, Promise!Forget
<1>8. CASE Tick
  BY <1>8 DEF Tick
<1>9. CASE UNCHANGED vars
  BY <1>9 DEF vars, table, history
<1> QED
  BY <1>1, <1>2, <1>3, <1>4, <1>5, <1>6, <1>7, <1>8, <1>9 DEF Next, Finish

(* The queue implements the promise made to those who enqueue: one life per *)
(* job, given up only after MAX_ATTEMPTS failed runs.                       *)
THEOREM QueueKeepsPromise == Spec => KeepsPromise
<1>1. Init => Promise!Init
  BY DEF Init, Promise!Init
<1>2. IInv /\ [Next]_vars => [Promise!Next]_(Promise!pvars)
  BY StepKeepsPromise
<1> QED
  BY <1>1, <1>2, Inductive, PTL DEF Spec, KeepsPromise, Promise!Spec

(* A completed job is never opened again, whatever a former owner records.  *)
THEOREM CompletedStaysCompleted == Spec => CompletedIsFinal
<1>1. [Promise!Next]_(Promise!pvars) /\ TypeOK
        => \A j \in Jobs : status[j] = "done" => status'[j] \in {"done", "purged"}
  BY DEF Promise!Next, Promise!pvars, Promise!Submit, Promise!Settle, Promise!FailedRun,
         Promise!Forget, TypeOK
<1>2. IInv /\ [Next]_vars
        => [\A j \in Jobs : status[j] = "done" => status'[j] \in {"done", "purged"}]_vars
  BY <1>1, StepKeepsPromise DEF IInv
<1> QED
  BY <1>2, Inductive, PTL DEF Spec, CompletedIsFinal

-----------------------------------------------------------------------------
(* Enqueues that passed the check together are the only source of           *)
(* duplicates, and each adds one row.                                       *)
LEMMA StepBoundsDuplicates ==
  ASSUME IInv, DuplicatesBounded, [Next]_vars
  PROVE  DuplicatesBounded'
<1> SUFFICES ASSUME NEW k \in Keys
             PROVE  Cardinality(OpenRows(k)') + Cardinality(Inserting(k)')
                      <= Cardinality(Producers)
  BY DEF DuplicatesBounded
<1> DEFINE O == OpenRows(k)  I == Inserting(k)  OO == OpenRows(k)'  II == Inserting(k)'
<1>1. /\ O \subseteq Jobs /\ OO \subseteq Jobs
      /\ I \subseteq Producers /\ II \subseteq Producers
  BY DEF OpenRows, Inserting
<1>2. /\ IsFiniteSet(O) /\ IsFiniteSet(OO) /\ IsFiniteSet(I) /\ IsFiniteSet(II)
      /\ Cardinality(O) \in Nat /\ Cardinality(OO) \in Nat
      /\ Cardinality(I) \in Nat /\ Cardinality(II) \in Nat
      /\ Cardinality(Producers) \in Nat
      /\ Cardinality(II) <= Cardinality(Producers)
  BY <1>1, QueueAssumption, FS_Subset, FS_CardinalityType
<1>3. Cardinality(O) + Cardinality(I) <= Cardinality(Producers)
  BY DEF DuplicatesBounded
<1>4. CASE OO \subseteq O /\ II \subseteq I
  <2>1. Cardinality(OO) <= Cardinality(O) /\ Cardinality(II) <= Cardinality(I)
    BY <1>2, <1>4, FS_Subset
  <2> QED  BY <1>2, <1>3, <2>1
<1>5. ASSUME NEW p \in Producers, NEW j \in Jobs, EnqueueCheck(p, j)
      PROVE  Cardinality(OO) + Cardinality(II) <= Cardinality(Producers)
  <2>1. OO = O
    BY <1>5 DEF EnqueueCheck, table, OpenRows
  <2>2. CASE KeyOf[j] = k
    <3>1. Cardinality(OO) = 0
      BY <1>5, <2>1, <2>2, FS_EmptySet DEF EnqueueCheck
    <3> QED  BY <1>2, <3>1
  <2>3. CASE KeyOf[j] # k
    <3>1. II \subseteq I
      BY <1>5, <2>3, QueueAssumption DEF EnqueueCheck, Inserting, IInv, TypeOK
    <3> QED  BY <1>4, <2>1, <3>1
  <2> QED  BY <2>2, <2>3
<1>6. ASSUME NEW p \in Producers, EnqueueCommit(p)
      PROVE  Cardinality(OO) + Cardinality(II) <= Cardinality(Producers)
  <2> DEFINE r == pending[p]
  <2>1. /\ r \in Jobs /\ r # None
        /\ status' = [status EXCEPT ![r] = "open"]
        /\ pending' = [pending EXCEPT ![p] = None]
    BY <1>6, QueueAssumption DEF EnqueueCommit, IInv, TypeOK
  <2> HIDE DEF r
  <2>2. CASE KeyOf[r] = k
    <3>1. OO \subseteq O \cup {r}
      BY <2>1 DEF OpenRows, IInv, TypeOK
    <3>2. II = I \ {p} /\ p \in I
      BY <2>1, <2>2 DEF Inserting, IInv, TypeOK, r
    <3>3. Cardinality(OO) <= Cardinality(O) + 1
      <4>. IsFiniteSet(O) /\ Cardinality(O) \in Nat
        BY <1>2
      <4>. HIDE DEF O
      <4>0. IsFiniteSet(O \cup {r}) /\ Cardinality(O \cup {r}) =
              IF r \in O THEN Cardinality(O) ELSE Cardinality(O) + 1
        BY FS_AddElement
      <4>1. IsFiniteSet(O \cup {r}) /\ Cardinality(O \cup {r}) <= Cardinality(O) + 1
        BY <4>0
      <4>2. Cardinality(O \cup {r}) \in Nat
        BY <4>1, FS_CardinalityType
      <4>3. Cardinality(OO) <= Cardinality(O \cup {r})
        BY <3>1, <4>1, FS_Subset
      <4> QED  BY <1>2, <4>1, <4>2, <4>3
    <3>4. Cardinality(II) = Cardinality(I) - 1
      BY <1>2, <3>2, FS_RemoveElement
    <3> QED  BY <1>2, <1>3, <3>3, <3>4
  <2>3. CASE KeyOf[r] # k
    <3>1. OO \subseteq O /\ II \subseteq I
      BY <2>1, <2>3 DEF OpenRows, Inserting, IInv, TypeOK
    <3> QED  BY <1>4, <3>1
  <2> QED  BY <2>2, <2>3
<1>7. ASSUME NEW p \in Producers, EnqueueRollback(p)
      PROVE  OO \subseteq O /\ II \subseteq I
  BY <1>7 DEF EnqueueRollback, table, OpenRows, Inserting, IInv, TypeOK
<1>8. ASSUME [(\E w \in Workers : Claim(w) \/ Finish(w) \/ RecordFailure(w) \/ Crash(w))
                \/ (\E j \in Jobs : PurgeCompleted(j)) \/ Tick]_vars
      PROVE  OO \subseteq O /\ II \subseteq I
  <2>1. UNCHANGED pending
    BY <1>8 DEF Claim, Finish, RejectUnknown, Succeed, Raise, RecordFailure, Crash,
                PurgeCompleted, Tick, vars
  <2>2. \A j \in Jobs : status'[j] = "open" => status[j] = "open"
    BY <1>8 DEF Claim, Finish, RejectUnknown, Succeed, Raise, RecordFailure, Crash,
                PurgeCompleted, Tick, vars, table, AfterFailure, IInv, TypeOK
  <2> QED
    BY <2>1, <2>2 DEF OpenRows, Inserting
<1> QED
  BY <1>4, <1>5, <1>6, <1>7, <1>8 DEF Next

(* However many requests enqueue the same key at once, no more rows of it   *)
(* are open than there are overlapping enqueues.                            *)
THEOREM DuplicatesBoundedAlways == Spec => []DuplicatesBounded
<1>1. Init => DuplicatesBounded
  <2> SUFFICES ASSUME Init, NEW k \in Keys
               PROVE  Cardinality(OpenRows(k)) + Cardinality(Inserting(k))
                        <= Cardinality(Producers)
    BY DEF DuplicatesBounded
  <2>1. OpenRows(k) = {} /\ Inserting(k) = {}
    BY DEF Init, OpenRows, Inserting
  <2>2. Cardinality(Producers) \in Nat
    BY QueueAssumption, FS_CardinalityType
  <2> QED  BY <2>1, <2>2, FS_EmptySet
<1>2. IInv /\ DuplicatesBounded /\ [Next]_vars => DuplicatesBounded'
  BY StepBoundsDuplicates
<1> QED
  BY <1>1, <1>2, Inductive, PTL DEF Spec
=============================================================================
