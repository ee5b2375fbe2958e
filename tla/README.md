# Overtake: a verification project

Overtake tells the managers of a fantasy-football mini-league how likely they
are to overtake each rival.  A FastAPI service and a worker process share one
PostgreSQL database; Stripe, the FPL website, an e-mail service and a language
model are outside.  This directory holds TLA+ models of the parts of
`src/api/overtake` whose correctness depends on the order in which things
happen, the TLC configurations that check them on small instances, and TLAPS
proofs for every instance.

## Inventory

| Component | State it keeps | Operations | What is hard | What makes it correct |
|---|---|---|---|---|
| Job queue (`workers/jobs.py`) | rows of `jobs`: `attempts`, `run_after`, `locked_at`, `completed_at` | `enqueue`, `claim`, `run_one`, `drain`, `purge_completed` | several workers, a lock taken over by age, a batch locked at once, failures written from stale objects, deaths | every job settles, none is reopened or given up early, nothing blocks a dedupe key for ever |
| Worker scheduler (`workers/runner.py`) | `_last_run`, the remembered deadline, in memory | `tick_schedules`, `run_once`, `seconds_until_due`, `delay_after` | restarts, a failed commit after `_last_run` was set, a deadline remembered for an hour, the summer | a schedule is on the queue in time, an idle worker sleeps and never through a schedule |
| Worker tasks (`workers/tasks.py`) | none of their own | the handlers | several commits in one handler | can be run again after a failure |
| Billing (`services/billing_service.py`, `routes/webhooks.py`) | one `subscriptions` row per customer, `users.season_pass_ends_at`, the `stripe_events` ledger | checkout, six webhook handlers, `_sync_subscription_from_stripe`, `_upsert_subscription` | events late, repeated, reordered, concurrent; a fetch between read and write | paid days are honoured, access ends, the row agrees with Stripe |
| Entitlement (`services/entitlements.py`, `for_user`) | none: decides from the above | `for_user`, `limits_for` | boundaries of periods and of grace | as above |
| League view and simulation cache (`services/first_view.py`, `services/league_service.py`, `routes/leagues.py`) | `leagues.squads_read_at`, standings, picks, `simulations` | first visit, squad read, board, `run_and_cache_simulation` | seconds of computing between read and insert, deletion by another transaction | the board is of the whole league and catches up with the table |
| Metering (`entitlements.consume`, `llm/provider.py` `SpendCap`, `core/ratelimit.py`) | `usage_counters`, `llm_spend`, `rate_limit_counters` | check, call, record, consume | read-then-write, charge after the work, row locks held across calls to the model | allowances and the cap are exceeded only as far as requests overlap, a failure is never charged |
| Briefs (`routes/briefs.py`, `llm/brief.py`) | `briefs` | read, rewrite, ask | seconds of generating between load and write | a brief's label and numbers are its own, the writer's words stay |
| E-mail dispatch (`workers/tasks.py`, `services/email_service.py`) | `briefs.emailed_at`, `user_leagues.recap_emailed_gameweek` | the two dispatchers, rewrite, track again | an e-mail sent before it is recorded, a rewrite that replaces the row | every letter in time, and no letter twice |
| Accounts (`services/auth_service.py`, `routes/auth.py`, `routes/profile.py`, `routes/deps.py`) | `users`, `auth_tokens`, `sessions`, `user_leagues` | link, code, sessions, linked entry, deletion, return, purge | two ways to use one token, checks before inserts, a deletion beside sign-ins, an account that comes back | a token is used once, a deletion ends every session whose sign-in it did not overlap |
| FPL client and ingest (`fpl/client.py`, `fpl/ingest.py`) | `http_cache`, `raw_snapshots`, the mirror's tables; bucket and breaker in memory | fetch, upserts, pages of standings, pruning | retries, "not modified", pages of a table that moves, two readers | a validator never outlives its rows, pruning takes nobody who stayed |
| Odds engine (`engine/simulator.py`), scenarios (`routes/leagues.py`), advice (`services/dossier_service.py`) | none | one pass over the remaining gameweeks for managers, scenarios and the captaincy table | locked lineups, chips, drift, numbers got by difference | every page answers a question about a move as a played season would |
| Draft checks (`llm/validation.py`), dossiers, players, analytics | none | pure functions and reads | text and numbers | |
| Web application (`src/web`) | none that matters here | rendering | | |

The components meet in the database.  Requests and schedules enqueue jobs
(`first_view`, `league_service`, `routes/leagues.py`, `runner`); jobs ingest,
project and simulate; requests read what jobs wrote; webhooks write the row that
decides which requests are allowed.

## Plan

In this order, the most important first.

1. `JobQueue`, with `JobPromise` as its abstract specification.  Done: checked and proved.
2. `Billing`.  Done: checked and proved.
3. `LeagueView`: first visit, squad read, simulation cache and the two jobs
   that feed it.  Done: checked, its safety proved.  Left: gameweeks that
   change, rival profiles (`history_complete`).
4. `Writer`: metering, the spend cap and the briefs, as one request meets all
   three.  Done: checked, its counting invariants and its briefs proved.
5. `Dispatch`: the worker's loop and its letters, with `Mailing` as its abstract
   specification.  Done: checked and proved.
6. `Accounts`: tokens, sessions, entries, choices, deletion and return.  Done:
   checked and proved.
7. `FplIngest`: documents, validators and standings.  Done: checked and proved.
8. `Odds`: the season simulator against seasons played in full.  Done: checked and proved.

What comes next: the rest of `LeagueView` (3), and the draft checks if their
text can be abstracted without losing what they check.

## Modules

### JobQueue

A row is an element of `Jobs`; `status` is `absent` before its insert, `open`
while `completed_at` is NULL, `done`, and `purged`.  `attempts` is the column.
`wait` is `run_after - now` and `lock` is `now - locked_at`, in minutes
(`Tick`), each kept only as far as the code compares it.  `pending` holds a row
flushed in a transaction that has not committed.  A worker's `batch` is the list
of rows `claim` gave it, each with the `attempts` its object was loaded with
(`seen`), and `failing` is where it stands between the handler's exception and
the commit that records it.

| Action | Code |
|---|---|
| `EnqueueCheck`, `EnqueueCommit`, `EnqueueRollback` | `enqueue`, and the end of the caller's transaction |
| `Claim` | `claim`: the WHERE clause (`Claimable`), ORDER BY and LIMIT (`DueFirst`), SKIP LOCKED, one commit |
| `RejectUnknown`, `Succeed`, `Raise` | the three ways out of `run_one`'s handler |
| `RecordFailure` | the rest of `run_one` after an exception, and what `drain` does next |
| `Crash` | the process dies, or the queue's own commit raises |
| `PurgeCompleted` | the retention sweep |

`Raise` is where SQLAlchemy matters.  `rollback()` expires every object of the
session if a transaction was open: the failed row is then read again (`seen` is
refreshed) and the rest of the batch can no longer be read, so `drain` raises.
If the handler never used the database there is no transaction to roll back and
`session.get` returns the object as it was loaded, possibly stale.

`failures` and `overran` are history: the failures that were recorded, and the
rows a living worker held past `LOCK_TIMEOUT`.

Fairness (`Fairness`): the worker loop repeats `drain` for ever, a handler ends,
a failure is recorded, time passes.  Nothing is assumed of producers, of purging
or of crashes.  A dead worker's place is taken by a new process, which the model
shows as the same worker with an empty batch.

### JobPromise

What a caller of `enqueue` may rely on: a committed job is open, then done, then
deleted; it is done because a run ended well or because `MAX_ATTEMPTS` runs have
failed.  Under `INSTANCE` with the variables of the same names, every step of
the queue is a step of it.

### Billing

One customer.  The first half of the module is Stripe, which is external:
purchases, renewals, failed charges, cancellations, and the events each sends.
A failed renewal moves the subscription's period on, as Stripe does.  The second
half is the code: `Handle` for the events that are handled in one transaction
with the body they carry, `StartSync`, `Retrieve`, `RetrieveFails`,
`FinishSync` and `RequestFails` for those that fetch the subscription from
Stripe, with other requests in between, and `Redelivered`.  `row` is the
customer's one `subscriptions` row and `IsPro` is `Entitlements.for_user`.

Two details are deliberate.  `Merge` writes a column only if it differs from the
row object as the session loaded it, because that is what the unit of work
does; for an invoice that object was loaded before the fetch.  And a handler
that fetches nothing is one step: between its SELECT and its flush it awaits
only the database.  What that hides, two first webhooks that both find no row,
ends in a unique violation and a retry (`RequestFails`, for a sync).

`paidUntil`, `asOf`, `disordered`, `crossed` and `beside` are history: the day
each purchase is paid through, the newest version of Stripe's state written to
the row, whether an older one was ever written after it, whether a period was
renewed while events of the period before were still to be processed, and
whether a subscription was bought then, or beside a live one.

Assumed of Stripe: every change sends its events; an event is delivered within
`DeliveryWindow` days, less than a period; a due period is renewed or closed on
its day; a past-due subscription is settled before its period ends.  A
webhook request takes less than a day.

### LeagueView

One league.  `table` and `upstream` are versions of the standings, what FPL has
and what `league_members` holds; `MembersAt` says who is in each.  `known` is the
set of managers with a row in `manager_picks`, `read` is `squads_read_at`,
`stored` the rows of `simulations` and `latest` the one with the newest
`computed_at`.  A run is its input: a table and the squads it was given.

| Action | Code |
|---|---|
| `FirstVisit`, `StoreStandings` | `league_board` of an unknown league: `read_standings`, its commit |
| `BoardWaits` | the 425 answer and `start_squad_read`, at most one per process |
| `BoardServes` | the cached run, `odds_match_standings`, `_resync_if_stale`, `_queue_recompute` |
| `BoardRuns`, `FinishBoardRun`, `RunCollides` | `run_and_cache_simulation` inline: inputs read, seconds of computing, insert or unique violation |
| `OtherPage` (`PageRuns`, `PageServed`), `ForcedPage`, `FinishPageRun` | the dossier, the squad page, the simulator: the same cache without `squads_are_read` |
| `SquadsStored`, `SquadsFail` | the one transaction of `_read_squads`, or nothing |
| `RefreshTracked`, `FetchLeague`, `StoreLeague`, `QueueRecompute` | the hourly schedule and the `ingest_league` job with its two commits |
| `StartRecompute`, `FinishRecompute`, `GiveUpRecompute` | the `recompute_league` job: touch the stored row, or run and insert |
| `JobFails`, `RequestFails` | what the queue does with a failed handler; a request that dies |

`Enqueue` is the dedupe key: it does nothing while a job is open, a running one
included, although that one may have read its inputs already.  The clocks behind
`REFRESH_AFTER` and `RESYNC_LEAGUE_AFTER` are left out: those enqueues may happen
at any view.  The statements that gather one input are one step, because the
seconds that matter lie between them and the insert.  One gameweek; the rewrite
of runs older than the captaincy table is left out; a job has one open row,
which `JobQueue` shows to hold as long as enqueues do not overlap.

Fairness: the worker runs its jobs and its schedule, requests and reads end
(each may fail, `MaxMishaps` times), and somebody looks at the board again.  The
last is the premise of the promise, not something the code ensures, though the
page refreshes itself while its odds are flagged.

### Writer

One Pro member on one day, with several requests at a time.  A request is one
transaction: `Commit` makes its spend and its counters seen, `Rollback` forgets
them; the limiter's hit (`hits`) is committed on its own, before the handler.
`own` is spend recorded and not committed, and stands for the lock on the day's
row; `CounterFree` is the lock on a usage counter.

| Action | Code |
|---|---|
| `Admit` | `RateLimiter.check`, and the request begins |
| `ServeStored`, `StartBrief` | `current_brief` up to `generate` |
| `StartRewrite`, `StartAsk`, `StartScenarios`, `Refused` | `regenerate_brief`, `ask_the_gaffer`, `simulate` up to their work; `ensure_available` |
| `CheckCap`, `ProviderDrafts`, `ProviderFails`, `RecordSpend` | `LlmClient.complete` with its fallback provider, `SpendCap`, and the attempts of `generate` and `answer_question` |
| `ReadAllowance`, `AllowanceSpent`, `ScoreScenarios`, `ChargeDay`, `Answer`, `MonthSpent` | `consume`: its SELECT and its write, which other requests come between |
| `LoadForBrief`, `FirstBrief`, `UpdateBrief`, `KeepBrief` | the second half of `current_brief` |
| `LoadForRewrite`, `ReplaceBrief`, `Conflict` | the second half of `regenerate_brief`; a row that is gone or already there |

As in `Billing`, an UPDATE writes only the columns that differ from the row as
its session loaded it, and a second SELECT does not refresh a row the session
holds (`Loaded`).  `raced` is history: two requests wrote one row from the same
reading.  Left out: the stored conversation, requests that span midnight,
unlimited accounts, windows that roll over.  A payload is of one simulation, the
newest when it is built; in the code its several reads may straddle two.

### Dispatch and Mailing

The worker process: `TickSchedules`, `TickFails`, `Drain` and `Sleep` are one
turn of `run_forever` with its commit failing or not, and `Memory` is what
`Worker` holds.  `job` is the queue as a schedule sees it, after `JobQueue`: one
open job of a kind, abandoned ones held until the next tick.  Three of the seven
schedules are there, the two that write to people and the one that moves the
gameweek's flags.  A dispatcher is `StartBriefs` or `StartRecaps`, one of
`PassOver`, `TakeUp` and `SkipBrief` for each recipient, then `Deliver`,
`AnswerLost` or `NotTaken`, then its record and commit.  `HandlerFails`,
`WorkerDies`, `Restart` and `RecordConflicts` are what goes wrong; `ViewBrief`,
`RewriteBrief` and `TrackAgain` are what members do meanwhile.  `mishaps` counts
everything that costs a run, a conflict with a rewrite included.

There is one worker (`fly.toml`).  A tick is half an hour.  `sent` counts the
letters that reached a member, `slips` the records that were lost.  `Mailing`
says it without any of this: a letter is sent only while it is not on record,
and recorded only after it was sent; `known` is `emailed_at` and
`recap_emailed_gameweek`.

### Accounts

Every address has at most one `users` row.  `RequestLink` and `IssueLink` are
`request_magic_link`, `OpenLink`, `OpenDeadLink` and `SignIn` the callback,
`TypeCode`, `CodeRefused`, `CodeRight` and `CodeLate` are
`consume_sign_in_code`; the conditional update that uses a token holds its row
until the request ends (`Locked`).  `ClaimEntry` and `StoreEntry`, `Choose` and
`StorePick` are checks and the writes they allow.  `StartSweep` and
`FinishSweep` are the part of `retention_sweep` that deletes accounts.

A deletion takes two steps, as `delete_me` does.  `DeleteAccount` is its UPDATE
of the sessions, which reaches those committed by then (`seen`); an e-mail later
`CloseAccount` commits `deleted_at` and the revocations.  A sign-in reads the
account when it uses the token (`OpenLink`, `TypeCode`) and stores its session
when it commits (`SignIn`), without looking again.  Three pieces of history say
which came first: the account's `deletion` is the number of the request that
deleted it last, a session's `after` the one its sign-in had read, and `beside`
those under way when it was stored, or over since its sign-in read the account.

### FplIngest

`upstream` is FPL: a version of each document and of the league's table.  `etag`
and `rows` are what `http_cache` and the mirror's tables stand for.  A reader is
one job or request with its own client, as every handler makes one.  A 304
(`NotModified`) and a 200 (`Modified`) are kept until the handler's transaction
commits (`CommitDocuments`); `ReadPage`, `StandingsRefused` and `StoreStandings`
are `ingest_league`.  The token bucket's pacing and the waits between retries
are left out.  `dropped` and `wronged` are history.

### Odds

One season of the simulation.  `PlayGameweek` is one turn of the loop in `run`:
one draw scores every manager (`Own`, `Field`, `Weights`, `Autosubs`), every
scenario (`ScenarioLineup`, with the override `simulate` builds) and, in the
decision gameweek, the captaincy table (`Deltas`).  `Finish` adds the chips in
hand.  `Above` is the board's `p_above`, of one season; `Advice` is
`best_move_against`, from the table alone.  `moved` is the reference: for every
starter, the same season played in full with the armband on him.  Draws are
choices from small sets, shares are whole numbers; the distributions the draws
come from are not modelled.  Of the lineups a manager may have locked the module
assumes that one player wears the armband (`OneCaptain`): the FPL accepts no
other, and `_captain_deltas` takes the first of the most boosted for the captain.

## Runs

| Run | Instance | What it shows |
|---|---|---|
| `queue_safety` | 3 rows of one key, 2 workers, 2 producers, batches of 2, `MaxAttempts` 2, lock timeout 1, one crash | type, `NoWedgedJob`, `AttemptsAreFailures`, `ExclusiveUnlessOverrun`, `DuplicatesBounded` |
| `queue_live` | 2 rows, one of them without a handler, 2 workers, 1 producer, one crash, fair | `KeepsPromise` and with it `CompletedIsFinal`, `EveryJobSettles` |
| `queue_batch` | 2 rows, both with a handler, otherwise the same | `EveryClaimedJobIsRun` is violated |
| `billing` | 1 subscription, 1 pass, 2 requests, 3 changes at Stripe, 5 days, periods of 2 | type, `PaidTimeIsHonoured`, `MirrorTrueInOrder`, `FreeRideBounded`, `ReplayIsNoOp` |
| `billing_pass` | a pass | `AccessEndsWithPass` is violated |
| `billing_grace` | periods of 3, one grace day | `GraceIsGraceDays` is violated |
| `league` | 3 managers, one leaves and one joins, 2 requests, 2 processes, one failure, fair | type, `MarkerIsTrue`, `EventuallyCurrent` |
| `writer` | 2 requests at a time, 3 in all, a cap of 2 calls, one new simulation or one deadline, one failure | type, `NeverOvercharged`, `AllowanceBounded`, `CapOvershootBounded`, `BillBounded`, `LabelIsTrue`, `NoDeadlock`, `OnlyRowsDelay`, `WriterStays`, `ServedInStep` |
| `dispatch` | 2 members who pay, two deadlines eight half hours apart, one mishap, two deeds of members | type, `NeverTwice`, `BriefedInTime`, `ScheduleKept`, `KeepsPromise` |
| `accounts` | 2 addresses, one entry, 2 requests at a time, 4 in all, 3 days | type, `TokenUsedOnce`, `EntryHasOneOwner`, `DeletionEndsSessions`, `ChoicesBounded` |
| `fpl` | 2 readers, 3 reads, 2 failures, documents in two versions, a league of 2 that is reordered, grows past the cap and loses a member, pages of one | type (no breaker opens), `NotModifiedLosesNothing`, `PruneIsTruthful` |
| `engine` | 2 managers of squads of 3, 4 players, 2 gameweeks, every kind of locked lineup, every draw | `CaptaincyAnswersHold`, `ScenariosMeasureTheMove` |

Why the bounds are enough.  Two producers and three rows of one key give the
duplicate and would give a third; two workers, a batch of two and a timeout of one tick give a row that
is taken over while it waits its turn, while it runs and while its failure is
recorded; two attempts distinguish a retry from giving up.  One crash per
behaviour is enough to lose a batch at every point of it; a second would only
repeat it from a state already reached.  For billing, three changes are a
purchase, a failed charge and its recovery or its end, or a purchase beside a
pass; two requests give the same event twice and a fetch with a write in the
middle.  For the league, one change of the table with a member leaving and one
joining makes every stored thing stale once: standings, squads, runs and the
inputs of a running job; two requests and two processes give the overlapping
first visits, reads and runs.  Two requests of the writer at a time give every pair of kinds in every order of
reading and writing, and with three in all one of them meets what the pair has
left; one new simulation, or one deadline, puts each stored brief out of step
once; a cap of two calls is reached by one request that tries twice or by two.
For the dispatcher a week of eight ticks with a lead of seven has two to three
runs of a schedule of two ticks in the window, so that the one mishap can take
any of them and `BriefedInTime` still speaks; the second week lets a recap be
late by a gameweek and a letter of the first meet one of the second.  Two
requests with four in all are a link, both ways to use it, and a deletion or a
second link, and a sign-in that stores its session before, between and after
the two steps of a deletion; three days are a deletion, a purge and a return.
(One address with seven requests, two deletions of it with a return between
them, was checked as well.)  In `fpl` a page
holds one member, so that the table moves between any two pages; four tables
are an overtaking, a newcomer who exceeds the cap and a departure; two attempts
below a threshold of three stand for four below five.  In `engine` the locked
lineups are those the code treats differently: none, a captain, a triple
captain, a captain who is not the best projected, nobody boosted; two gameweeks
put the decision on the locked one and on the one after it.

`writer`, `dispatch`, `accounts`, `fpl` and `engine` stop when
their bounds are reached, which is why they do not check deadlock; that requests
never wait for each other in a circle is `NoDeadlock`, and that nothing but
another's row ever stops one is `OnlyRowsDelay`.

Symmetry is used for rows, workers, producers, requests, readers, and the
addresses and choices of `accounts`, in the safety runs; never with liveness or
a refinement, and never between members of `dispatch`.  `writer` checks two
action properties under the symmetry of requests: they speak of single steps and
name no request.

For every property there is a version of an operation with one slip in it, named
after it (`Claimable_EarlyStale`, `Merge_KeepsEnd`), under which the property
fails: that is how we know the property speaks about the code.

## What the checks found

* **A failing job stops the batch** (`queue_batch`).  `run_one` rolls back the
  session it shares with the rest of the batch.  If the failed handler had used
  the database, the next job's `kind` can no longer be read and `drain` raises:
  the jobs behind it stay locked for fifteen minutes.  The test
  `test_a_failing_job_does_not_stop_the_batch` uses a handler that never touches
  the database.  `EveryJobSettles` still holds: they are delayed, not lost.
* **A season pass never ends** (`billing_pass`).  The purchase also writes an
  `active` row, which outlives the pass and makes the customer Pro; the same row
  makes `create_checkout` refuse next season's purchase.
* **Grace is a month and a week** (`billing_grace`).  It is counted from the end
  of the period whose charge failed.  `FreeRideBounded` is what does hold.
* **Half a league can reach the board.**  Not a run of its own any more.
  `first_view.py:14` says the board never simulates half a league.  The dossier,
  the squad page and the simulator do not wait for the squads; a run one of them
  started can be inserted after the deletion that should have removed it, and
  the board serves it, flagged, until a recompute ends.  `EventuallyCurrent`
  covers the repair.
* **A late event can take a paid period away.**  Not a run of its own: it needs
  five changes at Stripe.  `customer.subscription.updated` is written as it
  comes.  If one of the period before a renewal is processed last, or an invoice
  handler fetched before the renewal and merges after it, the row has the old
  period end again; once such a customer is also cancelled or past due, access
  ends before what was paid for does, and no event follows that would put it
  right.  `PaidTimeIsHonoured` therefore asks that not both happened: a renewal
  over unprocessed events (`crossed`) and an older state written over a newer
  one (`disordered`).  Any other disorder does no harm.
* **A duplicate read is not quite harmless.**  The second process's read of the
  squads also deletes the league's simulations, the one the board has just
  stored included; the next view computes it again.
* **A member without picks keeps the odds flagged.**  Not a run of its own:
  `odds_match_standings` compares every member with those that had a squad, so
  one member FPL has no picks for means a recompute at every view.
* **A subscription bought beside a pass may be forgotten.**  Not a run of its
  own: both share one row, and an invoice handler that loaded it before the pass
  was recorded writes only the columns that differ from what it loaded.
  `PaidTimeIsHonoured` therefore speaks of a subscription only while no pass was
  bought.

* **Two visits can put the template's words under the writer's label.**
  `current_brief` writes over a template row it loaded before seconds of
  generating.  If a writer's brief was stored in between by another visit, and
  this one fell back, only the columns that differ from its own reading are
  written: the content, not `is_fallback`.  `LabelIsTrue` and `WriterStays` hold
  where that race (`raced`) did not happen.
* **A rolled-back request forgets what it paid.**  A refusal at `consume`, a
  conflict or an error after a draft rolls its spend back too.  The cap
  therefore bounds only what is recorded (`CapOvershootBounded`); what is paid is
  bounded by the limiter (`BillBounded`).
* **Uses are lost at zero.**  Two requests that both read no counter both write
  their own cost, and the second may undo more than one use if the first has
  consumed again in between.  `AllowanceBounded` is what holds: `n` requests at a
  time are given `n + (a - 1) * n * (n + 1) / 2` uses of an allowance `a` at most.
* **Letters.**  The recipients of a recap are read once, so a member who deletes
  the account during a long run is still written to.  A long run can finish
  after the deadline.  `deliver` "never raises", but an answer that is not the
  JSON it expects does: the letter is out, its record is not (`HandlerFails`).
  Each is within `NeverTwice`, which counts lost records.
* **A rewrite can cost the others their run.**  The dispatcher loads a
  member's brief, sends it and then marks it.  If the member rewrites it
  meanwhile, the update finds no row, the run ends, and everyone behind that
  member waits for the next one.  The letter itself goes out again.
  `BriefedInTime` counts such a run as a mishap.
* **Two accounts can come to share an FPL entry**: by claiming it at once, or
  when a deleted account, which keeps its entry, comes back, at the request of a
  link and before any sign-in.  Then `update_me`'s own check finds two rows
  where it expects one.  `EntryHasOneOwner` says there is no third way.
* **A sign-in beside a deletion survives it.**  `delete_me` revokes the
  sessions it sees and commits after an e-mail.  A session stored in between,
  or by a sign-in that read the account before it was deleted, is not revoked.
  It is refused while the account is deleted (`resolve_session`) and is good
  again once a link is asked for.  `DeletionEndsSessions` says that these are the
  only ones; without the exception (`beside`) it is violated.
* **The return is not clean.**  `auth_service.py:117` promises "a clean one back
  rather than a resurrected profile"; only `deleted_at`, the age band and the
  marketing choice are set.  The linked entry, the tracked leagues and the chosen
  rivals are there again: `IssueLink` leaves `entry` and `picks` alone.  No run is
  about this; what it does to owners of an entry is in `EntryHasOneOwner`.
* **Eleven sessions.**  The new session is not flushed when `_prune_sessions`
  reads the others (autoflush is off), so one more than the maximum stays.
* **The sweep deletes what it read.**  An account that came back between the
  SELECT of `retention_sweep` and its commit is deleted all the same.
* **The breaker and the bucket are per job.**  `client.py:6` speaks of one
  shared client; every handler and request makes its own, gives up at the first
  fetch that fails four times, and never reaches the five failures that open the
  breaker.  `FplIngest!TypeOK` says so.
* **A reshuffled table fails the batch.**  A member who slips to the next page
  while the standings are read is listed twice, which PostgreSQL refuses and
  SQLite, which the tests use, does not.  That refusal is what keeps pruning
  truthful.
* **A row that refers to an unknown player or gameweek is dropped** and stays
  missing until its document changes again (`dropped`).  `manager_picks.points`
  is frozen at the first read of a gameweek, which may be in the middle of it.
* **A captain move next to a transfer is about the wrong gameweek.**  Not a run
  of its own.  `simulate` puts a captain move of a list that also has a transfer
  into the lineup of the first simulated gameweek; in a live gameweek that one
  is locked and the decision is about the next
  (`tests/unit/test_engine.py:486`), so its odds differ from those of the
  captaincy table.  The same path writes a plain captaincy over a triple one,
  takes a captain from the bench, does nothing without a locked lineup, and a
  transfer rebuilds a locked team with the best eleven.
  `ScenariosMeasureTheMove` speaks of captain moves where the decision is about
  the first gameweek.

## Proofs

`JobQueueProofs` proves, for any rows, keys, workers, producers and bounds that
satisfy `QueueAssumption`, that the queue is well typed and that
`NoWedgedJob`, `AttemptsAreFailures`, `ExclusiveUnlessOverrun`,
`DuplicatesBounded`, `CompletedIsFinal` and `KeepsPromise` hold of `Spec`.

The argument is one inductive invariant, `IInv`.  None of the properties is
inductive alone: that attempts never exceed failures needs that the `seen` of a
claimed job never does, because that is what is written back; that the holder of
a row is alone unless it overran needs that a held row is locked, for as long
as its holder says, unless it overran; the bound on duplicates follows
step by step from `IInv`: an enqueue that goes ahead has found no open row of its
key, and every row pending then is another producer's.  Its parts are the type invariant, the three invariants of
the run that are about rows, and `SeenAreFailures`, `HeldRowsExist`,
`BatchesDistinct`, `NewRowsBlank` and `HeldLocksFresh`; each has its own step
under every action.  The refinement follows from `IInv` and a step lemma per action; the
last step of every theorem is temporal (`PTL`).

`LeagueViewProofs` proves, from `LeagueAssumption`, that the league is well typed
and that `MarkerIsTrue` holds.  The strengthening says that nothing is stored
before the table is (`NothingBeforeTheTable`), which makes every input a run, and
that until the squads are read a read under way is of the members the table
lists (`ReadsAreOfTheTable`): only an overlapping first visit changes the table
under it, and everything else that changes the table stores squads with it.

`DispatchProofs` proves, from `DispatchAssumption`, type correctness,
`NeverTwice`, the refinement of `Mailing` (`KeepsPromise`) and `ScheduleKept`.
The first three rest on one invariant.  Its parts `HandlerKnows` and `Accounted`
say what a dispatcher may rely on between its SELECT and its record: whoever is
left to write to has no record of the letter, and a letter that is neither on
record nor in the dispatcher's hands was only ever sent by a slip.  That is what
makes a restart or a rewrite in the middle safe.  `ScheduleKept` has an invariant
of its own, `ClockInv`: a schedule was noted no later than its mishaps allow, no
sleep goes past its interval, and a worker that has just looked and found
nothing has nothing that is due.

`BriefedInTime` builds on both.  An errand is what a schedule has to get done
once in a gameweek: the ingest has to move the flags to it, the dispatcher to
write to a member.  While an errand is open and not done, a run that will do it
is on its way (queued, claimed, or with the member still before it), or every
run noted since it opened went to a mishap; and the worker's next look at its
schedules is no later than those mishaps allow (`ErrandsOnSchedule`).  The
argument has two storeys: a dispatcher does its errand only if the flags are of
the gameweek, which is the ingest's errand.  Hence the one hypothesis beyond
`DispatchAssumption`, `FlagsSettle`: as many runs of the ingest as the window has
of the dispatcher fit between a deadline and the opening of the next window.  In
the code both run every hour, so it says that the window, 36 hours, is at most
half of a week.  The run's instance lies beyond it (a window of seven ticks in a
week of eight), which is why the property is checked there as well; the
invariant was checked on a week of eleven.

`AccountsProofs` proves, from `AccountsAssumption` and `NoAccountAssumption`,
type correctness and all four properties of the run.  A request between its
check and its commit is what the invariant is about.  A sign-in holds a token
that is not used up (`RequestKnows`), alone (`OneHolder`), and a token that is
not used up has given no sign-in (`UnusedIsNew`).  A live session has its
account's last deletion behind it or beside it (`SessionsOutlive`), and that
survives the next one because a deletion under way has seen every live session
but those that were stored beside it (`DeletionsSee`).  The stored choices
together with the requests that have counted and not yet stored are bounded
(`ChoicesCounted`).

`FplIngestProofs` proves, from `FplAssumption` and `AttemptsAssumption`
(MAX_ATTEMPTS = 4 is less than CIRCUIT_FAILURE_THRESHOLD = 5), type correctness,
which says that no breaker opens, `NotModifiedLosesNothing` and
`PruneIsTruthful`.  For pruning the invariant follows a read of the standings
during which nobody left (`PagesAddUp`): its pages are as long as they should be
and hold members of the table there is now, so that a complete read without a
name twice, being as long as the table, is all of it.  The counting is
`RanksAreMembers` and `TablesCompared`.

`WriterProofs` proves, from `WriterAssumption` and `NoneAssumption`, type
correctness, the four bounds, the three properties of a brief and `NoDeadlock`.  The parts of
the invariant are what a request in flight still may do.  `SpendAccounted`: one
request holds spend, and what is committed, held and about to be recorded stays
within the cap and a call for each further request.  `CallsAccounted`: the calls
paid and the calls still to be paid by the requests in flight are no more than
the limiter let in.  `UsesAccounted` is the hard one.  A request that has read no
counter is blind: it will set the counter back.  The uses that were undone are
bounded by a quadratic in the number of requests that are blind no more, and the
counter itself by the requests that are elsewhere; the month's counter is
simpler (`MonthAccounted`), for it is charged under the lock of the day's.
`TemplateIsTrue`, in the table and in every session, carries the briefs.
`NoDeadlock` follows from `SpendAccounted`: a request that holds a counter has
nothing more to wait for, and if there is none, the only one that holds spend,
or any request if nobody does, has nobody to wait for.

`BillingProofs` proves, from `BillingAssumption` and `NoRowAssumption`, type
correctness and the four properties of the run.  All of them are about the last
change of a subscription Stripe told of (`Latest`).  `RemoteKnows` and
`EventsKnow` are Stripe's side: an end is at most one period ahead of the charge,
and the events of one change agree.  `LatestIsTrue` says that the last change
is what Stripe would answer, and that a sync that fetched after it has it.
Then there are three ways to know the row.  Without a subscription bought beside
another, everything under way is of the newest (`OneAtATime`).  Without a renewal
over unprocessed events either, everything under way has the end of the last
change, so that the order no longer matters (`SamePeriod`).  And while nothing
overtook anything the row has every column of the last change as soon as that
is processed (`RowInOrder`): a sync that merges into a row it has not seen leaves
only columns that are right already.  The one exception is a season pass written
in between, whose columns a later sync takes back (`Returned`).

`OddsProofs` proves, from `OddsAssumption`, `OneCaptain` and `NoneAssumption`,
type correctness, `CaptaincyAnswersHold` and `ScenariosMeasureTheMove`.  What a
lineup scores is a sum over the players, a fold whose order the library leaves
open.  The first part of the module gives such sums their laws: a fold is
unfolded to the function it chooses (`Tallies`), which exists (`TallyExists`) and
is the same wherever it adds up the same (`TalliesAgree`); then any term can be
taken out (`SumTakes`), sums and factors distribute (`SumOfSums`,
`SumOfMultiples`), and zeros can be left out (`SumOfPart`).  Each is shown on a
least counterexample (`SubsetInduction`), because an induction rule with a
predicate as a parameter could not be used.  `ArmbandMoves` is what they are for:
a lineup with the armband on another starter scores exactly what `Deltas` says
more, whatever lineup and draw it is, since what the drift adds, rounding
included, is the same on both sides.  The invariant then follows a run gameweek
by gameweek: each season with another captain is the manager's own and, from the
decision on, the table's entry more (`TableOfSeasons`); the entry of the captain
they have is nought (`CaptainAddsNothing`); the baseline is the user's own row,
and a captain move the season with that captain (`ScenariosInStep`).  That the
advice is the best follows because being ahead, by the odds and then by
projection, is an order of the players, which has a first (`TopOfOrder`).

Proving changed the models where they said too much.

* `ScheduleKept` had a bound that held because `MaxSlow` was one in the run: each
  mishap costs an interval and a whole job.
* `AllowanceBounded` had a linear bound.  With two requests and an allowance of
  two, five uses are given; the bound above is attained there.
* `PaidTimeIsHonoured` was true of three changes at Stripe and false of five (see
  above).  `crossed` and `beside` came from there; a cancellation can now be taken
  back as well.
* `BriefedInTime` was false as soon as two members pay (see above, a rewrite): its
  run had one.  Now both do, and a conflict is a mishap.
* An attempt after a draft was a CASE of two conditions that overlap.
* `NoDeadlock` said with ENABLED that somebody can go on.  It now says that
  somebody waits for no row, which can be proved, and `OnlyRowsDelay` that whoever
  waits for no row can go on, which is more than it said before.
* The captaincy table is right only if one player wears the armband
  (`OneCaptain`): with two, the entry of the captain they have is not nought.
* The constants that stand for "none" have to differ from the rows they are
  compared with (`NoneAssumption`, `NoAccountAssumption`, `NoRowAssumption`), and a
  season ends after the first day.

Every invariant above was checked with TLC on the instance of its run, or on a
larger one, before it was proved.

Only model-checked: `EveryJobSettles` and `EventuallyCurrent`, because liveness
under fairness is out of the prover's reach, and `OnlyRowsDelay`, which is about
ENABLED.

## Not modelled

* The numbers of the engine: distributions, `projections.py`, `profiling.py`,
  and anything that is a frequency over many seasons.
* The draft checks of `llm/validation.py` and the composition of prompts, pages
  and e-mails: text.  The models take a draft that passes or one that does not.
* Dossiers, players and analytics: reads without state, except what `LeagueView`
  and `Odds` take from them.
* The Gaffer's stored conversation; a member's own history and transfers in the
  ingest; `recompute_projections` and `_record_league_memory`; the other
  deletions of the retention sweep; the portal link and the founder offer, which
  only read; the export of a profile.
* The first two webhooks of a customer that find no row at the same moment:
  `Handle` is one step.  The second insert fails on the unique subscription id
  and Stripe delivers the event again, which `Billing` has as a late event.
* A job that kills its worker every time: one death per behaviour
  (`MaxCrashes`), so `EveryJobSettles` does not speak of it.
* A bound on wrong codes: two that are typed at once may count as one
  (`CodeRefused` has it), and no property is about it.
* The windows of the rate limits of `writer`, and a call to the model that the
  provider refused, which is not counted as paid there.
* Fixtures of a gameweek the mirror does not know are stored without one; in
  `FplIngest` they are `dropped`.  `FinishSync` merges a stale row in for every
  event; for those of a payment the code most likely reads the row again, so the
  model allows more there than the code does.
* The summer: out of season no schedule is noted as run, `seconds_until_due` is
  zero and the loop polls at full speed (`runner.py:112`).  `Dispatch` is of the
  season.
* Operations alerts, which are marked as sent before they are sent, on purpose;
  configuration and schema, except for the constraints the modules rely on.
* The web application.
