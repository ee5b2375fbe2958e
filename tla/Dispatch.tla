------------------------------- MODULE Dispatch -------------------------------
(***************************************************************************)
(* The worker process (overtake/workers/runner.py) and the two jobs of it  *)
(* that write to people (dispatch_deadline_briefs and dispatch_recaps of   *)
(* overtake/workers/tasks.py): when a schedule puts its job on the queue,  *)
(* how long the worker sleeps, and how a letter is sent, then recorded.    *)
(*                                                                         *)
(* There is one worker (fly.toml).  It dies, and its supervisor starts it  *)
(* again with an empty memory.  The queue is the one of JobQueue, reduced  *)
(* to what a schedule sees of it: one open job of a kind at most (dedupe   *)
(* key), which after a failure or a death waits for less than a tick.      *)
(* The mail service and the FPL website are external.                      *)
(*                                                                         *)
(* A definition whose name continues another's after an underscore is that *)
(* operation with one slip in it, used by the sensitivity runs only.       *)
(***************************************************************************)
EXTENDS Integers, FiniteSets, FiniteSetsExt

CONSTANTS
  Users,        \* members who track a league
  Pro,          \* those of them who pay
  Every, Near,  \* SCHEDULES: the intervals in ticks, and close to a deadline
  IdleMax,      \* settings.worker_idle_max_seconds
  CacheTtl,     \* DEADLINE_CACHE_TTL
  NearWindow,   \* DEADLINE_WINDOW
  Lead,         \* BRIEF_EMAIL_LEAD_HOURS
  Week, MaxGameweek,  \* ticks between deadlines, and how many there are
  Played,       \* ticks after a deadline until the gameweek is settled
  MaxTime,      \* bound on time
  MaxSlow,      \* bound on the ticks between two sleeps of the worker
  MaxMishaps,   \* bound on what goes wrong
  MaxRewrites,  \* bound on what members do
  None

Schedules == {"ingest_core", "dispatch_deadline_briefs", "dispatch_recaps"}

ASSUME DispatchAssumption ==
  /\ IsFiniteSet(Users) /\ Pro \subseteq Users
  /\ Every \in [Schedules -> Nat \ {0}] /\ Near \in [Schedules -> Nat \ {0}]
  /\ \A s \in Schedules : Near[s] <= Every[s]
  /\ IdleMax \in Nat \ {0} /\ CacheTtl \in Nat /\ NearWindow \in Nat /\ Lead \in Nat
  /\ Week \in Nat \ {0} /\ MaxGameweek \in Nat \ {0} /\ Played \in 0..Week - 1
  /\ MaxTime \in Nat /\ MaxSlow \in Nat /\ MaxMishaps \in Nat /\ MaxRewrites \in Nat
  /\ None \notin Nat \cup BOOLEAN \cup Users
               \cup {"brief", "recap", "ingest_core", "delivered", "not"}

VARIABLES
  now,
  worker,    \* the process: where it is in its loop, and what it remembers
  job,       \* of each schedule: the state of its open row of `jobs`
  batch,     \* the jobs drain claimed and has still to run
  current,   \* the handler that runs
  next,      \* the gameweek flagged is_next
  finished,  \* the last gameweek flagged is_finished
  brief,     \* briefs.emailed_at of each member's brief, if there is one
  recap,     \* user_leagues.recap_emailed_gameweek
  mishaps, rewrites,
  sent,      \* history: how often each letter reached its member
  slips,     \* history: how often its record was lost
  queuedAt   \* history: when each schedule last had its job on the queue

tables  == <<next, finished, brief, recap>>
bounds  == <<mishaps, rewrites>>
history == <<sent, slips, queuedAt>>
vars    == <<now, worker, job, batch, current, tables, bounds, history>>

Gameweeks    == 1..MaxGameweek
DeadlineOf(g) == g * Week
Letters      == {"brief", "recap"} \X Users \X Gameweeks
Times        == 0..MaxTime

Fresh == [at |-> "asleep", wake |-> 0, slow |-> 0, worked |-> FALSE,
          lastRun |-> [s \in Schedules |-> None], deadline |-> None, readAt |-> None]
Idle  == [kind |-> None]

Memory ==
  [at : {"asleep", "drain", "rest", "down"}, wake : Nat, slow : 0..MaxSlow, worked : BOOLEAN,
   lastRun : [Schedules -> Times \cup {None}],
   deadline : Nat \cup {None}, readAt : Times \cup {None}]

(* A handler that writes letters: for which gameweek, to whom it has still   *)
(* to write, to whom it is writing, what the mail service answered, and      *)
(* whether the row it holds has been replaced.                               *)
Handler ==
  [kind : {"brief", "recap"}, gw : Gameweeks, todo : SUBSET Users,
   user : Users \cup {None}, answer : {None, "delivered", "not"}, sent : BOOLEAN, gone : BOOLEAN]
  \cup [kind : {"ingest_core"}]

TypeOK ==
  /\ now \in Times
  /\ worker \in Memory
  /\ job \in [Schedules -> {"none", "ready", "claimed", "held"}]
  /\ batch \subseteq Schedules
  /\ current \in Handler \cup {Idle}
  /\ next \in Gameweeks \cup {None} /\ finished \in Gameweeks \cup {0}
  /\ brief \in [Users \X Gameweeks -> BOOLEAN \cup {None}]
  /\ recap \in [Users -> 0..MaxGameweek]
  /\ mishaps \in Nat /\ rewrites \in 0..MaxRewrites
  /\ sent \in [Letters -> Nat] /\ slips \in [Letters -> Nat]
  /\ queuedAt \in [Schedules -> Times]

Init ==
  /\ now = 0 /\ worker = Fresh
  /\ job = [s \in Schedules |-> "none"] /\ batch = {} /\ current = Idle
  /\ next = 1 /\ finished = 0
  /\ brief = [x \in Users \X Gameweeks |-> None] /\ recap = [u \in Users |-> 0]
  /\ mishaps = 0 /\ rewrites = 0
  /\ sent = [l \in Letters |-> 0] /\ slips = sent
  /\ queuedAt = [s \in Schedules |-> 0]

Mishap == mishaps < MaxMishaps /\ mishaps' = mishaps + 1 /\ UNCHANGED rewrites

-----------------------------------------------------------------------------
(* get_next_gameweek: the flag, or else the first deadline to come.          *)
Upcoming == {g \in Gameweeks : DeadlineOf(g) > now}
NextGameweek == IF next # None THEN next
                ELSE IF Upcoming = {} THEN None ELSE Min(Upcoming)

(* Worker.next_deadline, remembered for an hour, and near_deadline.          *)
Remembered ==
  IF worker.readAt # None /\ now - worker.readAt < CacheTtl THEN worker
  ELSE [worker EXCEPT !.readAt = now,
                      !.deadline = IF NextGameweek = None THEN None ELSE DeadlineOf(NextGameweek)]

NearDeadline(w) == w.deadline # None /\ w.deadline - now \in 1..NearWindow

Interval(s, near) == IF near THEN Near[s] ELSE Every[s]

(* tick_schedules: what is due is noted as run, then queued unless a job of  *)
(* the kind is open, in one transaction at the end of which it is committed. *)
IsDue(s, near) == worker.lastRun[s] = None \/ now - worker.lastRun[s] >= Interval(s, near)
Due == {s \in Schedules : IsDue(s, NearDeadline(Remembered))}

Noted_NextRun == [Remembered EXCEPT
  !.lastRun = [s \in Schedules |-> IF s \in Due THEN now + Every[s] ELSE @[s]]]
Noted == [Remembered EXCEPT !.lastRun = [s \in Schedules |-> IF s \in Due THEN now ELSE @[s]]]

Looks == worker.at = "asleep" /\ now >= worker.wake

TickSchedules ==
  /\ Looks
  /\ worker' = [Noted EXCEPT !.at = "drain", !.worked = \E s \in Due : job[s] = "none"]
  /\ job' = [s \in Schedules |-> IF s \in Due /\ job[s] = "none" THEN "ready" ELSE job[s]]
  /\ queuedAt' = [s \in Schedules |-> IF s \in Due THEN now ELSE queuedAt[s]]
  /\ UNCHANGED <<now, batch, current, tables, bounds, sent, slips>>

(* The commit fails: what was noted stays noted.  run_forever catches it and *)
(* looks again after POLL_SECONDS, within the tick.                          *)
TickFails ==
  /\ Looks /\ Due # {} /\ Mishap
  /\ worker' = Noted
  /\ UNCHANGED <<now, job, batch, current, tables, history>>

(* drain claims all there is; `limit` is more than there are schedules.      *)
Drain ==
  /\ worker.at = "drain"
  /\ batch' = {s \in Schedules : job[s] = "ready"}
  /\ job' = [s \in Schedules |-> IF job[s] = "ready" THEN "claimed" ELSE job[s]]
  /\ worker' = [worker EXCEPT !.at = "rest", !.worked = @ \/ batch' # {}]
  /\ UNCHANGED <<now, current, tables, bounds, history>>

(* delay_after and seconds_until_due: five seconds while there is work, else *)
(* until the first schedule is due, and never longer than the cap.           *)
UntilDue_Longest(w) == Max({Interval(s, NearDeadline(w)) - (now - w.lastRun[s]) : s \in Schedules})
UntilDue(w) ==
  IF \E s \in Schedules : w.lastRun[s] = None THEN 0
  ELSE Max({0, Min({Interval(s, NearDeadline(w)) - (now - w.lastRun[s]) : s \in Schedules})})

Sleep ==
  /\ worker.at = "rest" /\ batch = {} /\ current = Idle
  /\ worker' = [Remembered EXCEPT
       !.at = "asleep", !.slow = IF worker.worked THEN @ ELSE 0,
       !.wake = now + IF worker.worked THEN 0 ELSE Min({IdleMax, UntilDue(Remembered)})]
  /\ UNCHANGED <<now, job, batch, current, tables, bounds, history>>

-----------------------------------------------------------------------------
(* run_one: a handler starts, and ends.                                      *)
Begins(s) ==
  /\ worker.at = "rest" /\ current = Idle
  /\ s \in batch /\ batch' = batch \ {s}

Ends(s) ==
  /\ current' = Idle
  /\ job' = [job EXCEPT ![s] = "none"]

(* ingest_core: the flags as FPL has them.                                   *)
StartIngest ==
  /\ Begins("ingest_core")
  /\ current' = [kind |-> "ingest_core"]
  /\ UNCHANGED <<now, worker, job, tables, bounds, history>>

Settled == {g \in Gameweeks : DeadlineOf(g) + Played <= now}

FinishIngest ==
  /\ current.kind = "ingest_core"
  /\ next' = IF Upcoming = {} THEN None ELSE Min(Upcoming)
  /\ finished' = Max(Settled \cup {0})
  /\ Ends("ingest_core")
  /\ UNCHANGED <<now, worker, batch, brief, recap, bounds, history>>

(* dispatch_deadline_briefs works inside the window before the deadline,     *)
(* dispatch_recaps once a gameweek is finished; else they return.            *)
InWindow == NextGameweek # None /\ DeadlineOf(NextGameweek) - now \in 1..Lead

Writing(kind, g, to) == [kind |-> kind, gw |-> g, todo |-> to, user |-> None, answer |-> None,
                         sent |-> FALSE, gone |-> FALSE]

(* Whose letter is on record is passed over.                                 *)
OnRecord_Restarted(kind, u, g) == kind = "brief" /\ brief[u, g] = TRUE
OnRecord(kind, u, g) == IF kind = "brief" THEN brief[u, g] = TRUE ELSE recap[u] >= g

StartBriefs ==
  /\ Begins("dispatch_deadline_briefs")
  /\ IF InWindow THEN current' = Writing("brief", NextGameweek, Users) /\ UNCHANGED job
                 ELSE Ends("dispatch_deadline_briefs")
  /\ UNCHANGED <<now, worker, tables, bounds, history>>

(* The record of a recap is in the row the list of recipients is made of,    *)
(* which is read once.                                                       *)
StartRecaps ==
  /\ Begins("dispatch_recaps")
  /\ IF finished > 0
     THEN /\ current' = Writing("recap", finished, {u \in Users : ~OnRecord("recap", u, finished)})
          /\ UNCHANGED job
     ELSE Ends("dispatch_recaps")
  /\ UNCHANGED <<now, worker, tables, bounds, history>>

Handles(kind) == current.kind = kind
Writes        == current.kind \in {"brief", "recap"}
Between       == Writes /\ current.user = None

(* A brief is for members who pay, and its record is looked up when it is    *)
(* their turn.                                                               *)
Wanted(u) == current.kind = "brief" => u \in Pro /\ ~OnRecord("brief", u, current.gw)

PassOver(u) ==
  /\ Between /\ u \in current.todo /\ ~Wanted(u)
  /\ current' = [current EXCEPT !.todo = @ \ {u}]
  /\ UNCHANGED <<now, worker, job, batch, tables, bounds, history>>

(* current_brief, which writes a brief if there is none.                     *)
TakeUp(u) ==
  /\ Between /\ u \in current.todo /\ Wanted(u)
  /\ current' = [current EXCEPT !.todo = @ \ {u}, !.user = u]
  /\ UNCHANGED <<now, worker, job, batch, tables, bounds, history>>

(* ... or raises an AppError: there is nothing to write from.                *)
SkipBrief(u) ==
  /\ Between /\ Handles("brief") /\ u \in current.todo /\ Wanted(u)
  /\ Mishap
  /\ current' = [current EXCEPT !.todo = @ \ {u}]
  /\ UNCHANGED <<now, worker, job, batch, tables, history>>

(* deliver: the mail service takes the letter, takes it and its answer is    *)
(* lost, or does not take it.  `not` is delivered = False.                   *)
Letter == <<current.kind, current.user, current.gw>>
Sending == Writes /\ current.user # None /\ current.answer = None

Deliver ==
  /\ Sending
  /\ sent' = [sent EXCEPT ![Letter] = @ + 1]
  /\ current' = [current EXCEPT !.answer = "delivered", !.sent = TRUE]
  /\ UNCHANGED <<now, worker, job, batch, tables, bounds, slips, queuedAt>>

AnswerLost ==
  /\ Sending /\ Mishap
  /\ sent' = [sent EXCEPT ![Letter] = @ + 1]
  /\ slips' = [slips EXCEPT ![Letter] = @ + 1]
  /\ current' = [current EXCEPT !.answer = "not"]
  /\ UNCHANGED <<now, worker, job, batch, tables, queuedAt>>

NotTaken ==
  /\ Sending /\ Mishap
  /\ current' = [current EXCEPT !.answer = "not"]
  /\ UNCHANGED <<now, worker, job, batch, tables, history>>

(* The record, and the commit for this recipient.                            *)
Delivered_Always == TRUE
Delivered == current.answer = "delivered"

NextRecipient == [current EXCEPT !.user = None, !.answer = None, !.sent = FALSE, !.gone = FALSE]

RecordBrief ==
  /\ Handles("brief") /\ current.answer # None /\ ~(current.gone /\ Delivered)
  /\ brief' = [brief EXCEPT ![<<current.user, current.gw>>] = Delivered \/ @ = TRUE]
  /\ current' = NextRecipient
  /\ UNCHANGED <<now, worker, job, batch, next, finished, recap, bounds, history>>

RecordRecap ==
  /\ Handles("recap") /\ current.answer # None
  /\ recap' = [recap EXCEPT ![current.user] = IF Delivered THEN current.gw ELSE @]
  /\ current' = NextRecipient
  /\ UNCHANGED <<now, worker, job, batch, next, finished, brief, bounds, history>>

JobOf(kind) == CASE kind = "brief" -> "dispatch_deadline_briefs"
                 [] kind = "recap" -> "dispatch_recaps"
                 [] OTHER          -> kind

FinishLetters ==
  /\ Between /\ current.todo = {}
  /\ Ends(JobOf(current.kind))
  /\ UNCHANGED <<now, worker, batch, tables, bounds, history>>

-----------------------------------------------------------------------------
(* What goes wrong.  A letter that was sent and not recorded is a slip.      *)
LostRecord ==
  slips' = IF Writes /\ current.user # None /\ current.sent
           THEN [slips EXCEPT ![Letter] = @ + 1] ELSE slips

(* The handler raises: run_one rolls back and lets the job wait, and drain   *)
(* raises on the rest of its batch, which stays locked (JobQueue).           *)
Abandoned_StillLocked == job
Abandoned == [s \in Schedules |-> IF job[s] = "claimed" THEN "held" ELSE job[s]]

HandlerRaises ==
  /\ job' = Abandoned
  /\ batch' = {} /\ current' = Idle
  /\ worker' = [worker EXCEPT !.at = "asleep", !.wake = now]
  /\ LostRecord
  /\ UNCHANGED <<now, tables, sent, queuedAt>>

HandlerFails == current # Idle /\ Mishap /\ HandlerRaises

(* The row it holds was replaced: the update finds nothing to update.  The   *)
(* run is lost for who comes after too, a mishap that MaxRewrites bounds.    *)
RecordConflicts ==
  /\ Handles("brief") /\ current.answer # None /\ current.gone /\ Delivered
  /\ HandlerRaises
  /\ mishaps' = mishaps + 1 /\ UNCHANGED rewrites

WorkerDies ==
  /\ worker.at # "down" /\ Mishap
  /\ worker' = [worker EXCEPT !.at = "down"]
  /\ job' = Abandoned
  /\ batch' = {} /\ current' = Idle
  /\ LostRecord
  /\ UNCHANGED <<now, tables, sent, queuedAt>>

(* Worker.__init__: it remembers nothing.                                    *)
Restart ==
  /\ worker.at = "down"
  /\ worker' = [Fresh EXCEPT !.wake = now, !.slow = worker.slow]
  /\ UNCHANGED <<now, job, batch, current, tables, bounds, history>>

(* The member looks at the brief: current_brief stores one.  It waits while  *)
(* the worker holds an uncommitted one.                                      *)
HeldByWorker(u) == current.kind = "brief" /\ current.user = u

ViewBrief(u) ==
  /\ NextGameweek # None /\ brief[u, NextGameweek] = None /\ ~HeldByWorker(u) /\ u \in Pro
  /\ rewrites < MaxRewrites /\ rewrites' = rewrites + 1 /\ UNCHANGED mishaps
  /\ brief' = [brief EXCEPT ![<<u, NextGameweek>>] = FALSE]
  /\ UNCHANGED <<now, worker, job, batch, current, next, finished, recap, history>>

(* regenerate_brief: the row is replaced by one that was never e-mailed.     *)
RewriteBrief(u) ==
  /\ NextGameweek # None /\ brief[u, NextGameweek] # None
  /\ rewrites < MaxRewrites /\ rewrites' = rewrites + 1 /\ UNCHANGED mishaps
  /\ brief' = [brief EXCEPT ![<<u, NextGameweek>>] = FALSE]
  /\ slips' = [slips EXCEPT ![<<"brief", u, NextGameweek>>] =
                 IF brief[u, NextGameweek] = TRUE THEN @ + 1 ELSE @]
  /\ current' = IF HeldByWorker(u) THEN [current EXCEPT !.gone = TRUE] ELSE current
  /\ UNCHANGED <<now, worker, job, batch, next, finished, recap, sent, queuedAt>>

(* untrack_league and track_league: the new row has no record.  An update by *)
(* its key finds it.                                                         *)
TrackAgain(u) ==
  /\ recap[u] > 0
  /\ rewrites < MaxRewrites /\ rewrites' = rewrites + 1 /\ UNCHANGED mishaps
  /\ recap' = [recap EXCEPT ![u] = 0]
  /\ slips' = [l \in Letters |-> IF l[1] = "recap" /\ l[2] = u THEN slips[l] + 1 ELSE slips[l]]
  /\ UNCHANGED <<now, worker, job, batch, current, next, finished, brief, sent, queuedAt>>

(* Time does not pass the moment a sleeping worker wakes.  Between two       *)
(* sleeps it loses MaxSlow ticks at most, at work or being restarted.  What  *)
(* failed or was left locked comes back with the next tick.                  *)
Tick ==
  /\ now < MaxTime
  /\ \/ worker.at = "asleep" /\ now < worker.wake /\ UNCHANGED worker
     \/ /\ current # Idle \/ worker.at = "down"
        /\ worker.slow < MaxSlow /\ worker' = [worker EXCEPT !.slow = @ + 1]
  /\ now' = now + 1
  /\ job' = [s \in Schedules |-> IF job[s] = "held" THEN "ready" ELSE job[s]]
  /\ UNCHANGED <<batch, current, tables, bounds, history>>

Next ==
  \/ TickSchedules \/ TickFails \/ Drain \/ Sleep
  \/ StartIngest \/ FinishIngest \/ StartBriefs \/ StartRecaps
  \/ \E u \in Users : PassOver(u) \/ TakeUp(u) \/ SkipBrief(u) \/ ViewBrief(u) \/ RewriteBrief(u)
                      \/ TrackAgain(u)
  \/ Deliver \/ AnswerLost \/ NotTaken \/ RecordBrief \/ RecordRecap \/ RecordConflicts
  \/ FinishLetters
  \/ HandlerFails \/ WorkerDies \/ Restart
  \/ Tick

Spec == Init /\ [][Next]_vars

-----------------------------------------------------------------------------
(* A letter reaches its member twice only for a reason: its record was lost  *)
(* (a death or a failed commit after the mail was taken, an answer that did  *)
(* not come back; a brief rewritten, a league tracked anew).  A restart,     *)
(* which runs every schedule again, is not one ("is what makes that          *)
(* harmless", dispatch_recaps).                                              *)
NeverTwice == \A l \in Letters : sent[l] <= 1 + slips[l]

(* "We only have to be on time" (dispatch_deadline_briefs): at the deadline  *)
(* every paying member has had the brief, as long as the window has more     *)
(* runs than mishaps.  A run comes at least this often; the window opens     *)
(* once the flags are of the gameweek.                                       *)
RunsInWindow == (Lead - 1) \div (Every["dispatch_deadline_briefs"] + MaxSlow)
BriefedInTime ==
  mishaps < RunsInWindow =>
    \A g \in Gameweeks, u \in Pro : now >= DeadlineOf(g) => sent["brief", u, g] > 0

(* An idle worker sleeps, but never through a schedule: a schedule is on the *)
(* queue again after its interval and what the worker lost at work; as much  *)
(* later again for each commit that failed after it was noted                *)
(* (tick_schedules, seconds_until_due).                                      *)
ScheduleKept ==
  \A s \in Schedules : now - queuedAt[s] <= (1 + mishaps) * (Every[s] + MaxSlow)

(* The letters keep the promise of Mailing, with emailed_at and              *)
(* recap_emailed_gameweek for the record.                                    *)
OnFile(l) ==
  \/ l[1] = "brief" /\ brief[l[2], l[3]] = TRUE
  \/ l[1] = "recap" /\ recap[l[2]] >= l[3]
Promise == INSTANCE Mailing WITH known <- [l \in Letters |-> OnFile(l)]
KeepsPromise == Promise!Spec
=============================================================================
