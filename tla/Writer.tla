------------------------------- MODULE Writer -------------------------------
(***************************************************************************)
(* A Pro member's requests that cost something: reading the Deadline       *)
(* Brief, rewriting it, asking the Gaffer and scoring custom scenarios     *)
(* (overtake/routes/briefs.py, routes/leagues.py), with what rations them: *)
(* the rate limiter (core/ratelimit.py), the allowances of the plan        *)
(* (services/entitlements.py), and the daily spend cap (llm/provider.py).  *)
(*                                                                         *)
(* A request is one transaction (db/session.py): it reads what has been    *)
(* committed, its own writes are seen by others when it ends well, and are *)
(* gone when it ends in an exception.  The calls to the language model lie *)
(* in the middle of it and take seconds.  The limiter is the exception: it *)
(* commits on its own.  The scale is one day: that of the limiter's        *)
(* windows, of the spend cap and of the Gaffer's daily allowance.          *)
(*                                                                         *)
(* The language model is external: a call is answered with a draft that    *)
(* passes the checks or one that does not, is declined, or fails.          *)
(*                                                                         *)
(* A definition whose name continues another's after an underscore is that *)
(* operation with one slip in it, used by the sensitivity runs only.       *)
(***************************************************************************)
EXTENDS Integers, FiniteSets

CONSTANTS
  Requests,     \* requests served at the same time
  Providers,    \* language models configured: none, a primary, a fallback
  Cap,          \* settings.llm_daily_spend_cap_usd, in calls
  MaxAttempts,  \* MAX_ATTEMPTS
  RateLimit,    \* LIMITS: requests of a kind in a window
  Allowance,    \* PRO_LIMITS: uses of a metric in its period
  MaxCost,      \* moves in one scenario request
  MaxGameweek, MaxRun, MaxChanges,  \* bounds on deadlines, simulations and both
  MaxRequests,  \* bound on the requests that come
  MaxFailures,  \* bound on the requests that die
  None

Kinds   == {"brief", "rewrite", "ask", "simulate"}
Metrics == {"brief_regen", "sim_scenario", "gaffer_day", "gaffer_month"}

ASSUME WriterAssumption ==
  /\ IsFiniteSet(Requests)
  /\ Providers \in Nat /\ Cap \in Nat /\ MaxAttempts \in Nat \ {0} /\ MaxCost \in Nat \ {0}
  /\ RateLimit \in [Kinds -> Nat] /\ Allowance \in [Metrics -> Nat]
  /\ MaxGameweek \in Nat \ {0} /\ MaxRun \in Nat /\ MaxChanges \in Nat
  /\ MaxRequests \in Nat /\ MaxFailures \in Nat

VARIABLES
  gameweek,   \* get_next_gameweek
  run,        \* latest_simulation_ref: the league's newest simulation
  hits,       \* rate_limit_counters of the day's windows
  used,       \* usage_counters
  spend,      \* llm_spend
  brief,      \* the member's `briefs` row for each gameweek
  rows,       \* briefs inserted so far: a new row has a new id
  request,
  admitted,   \* requests so far
  failures,
  delivered,  \* history: uses of each metric that were answered with a result
  paid,       \* history: calls to the language model that were paid for
  raced       \* history: two requests wrote one brief row from the same reading

clock    == <<gameweek, run>>
counters == <<used, delivered>>
bounds   == <<admitted, failures>>
stored   == <<brief, rows, raced>>
vars     == <<clock, hits, counters, spend, stored, request, bounds, paid>>

Gameweeks == 1..MaxGameweek
Today     == 1
Periods   == Gameweeks \cup {Today}

(* Content is by the writer or by the template, from a simulation's numbers. *)
(* is_fallback and simulation_id are columns of their own.                   *)
Content == [by : {"writer", "template"}, from : 0..MaxRun]
Brief == [id : Nat, is_fallback : BOOLEAN, from : 0..MaxRun, content : Content]

ASSUME NoneAssumption == None \notin Kinds /\ None \notin Brief

Idle == [kind |-> None]
Steps == {"start", "check", "call", "record", "done", "consume", "store", "month"}
Request == [kind : Kinds, at : Steps, run0 : 0..MaxRun,
            gw : Gameweeks,            \* the gameweek it works for
            from : 0..MaxRun,          \* the simulation its payload is of
            loaded : Brief \cup {None},  \* the brief row as its session holds it
            attempt : Nat, provider : Nat,
            outcome : {"none", "draft", "bad", "written", "template", "declined", "unavailable"},
            seen : Nat, cost : Nat,
            own : Nat]                 \* spend recorded and not committed

TypeOK ==
  /\ gameweek \in Gameweeks /\ run \in 0..MaxRun
  /\ hits \in [Kinds -> Nat]
  /\ used \in [Metrics \X Periods -> Nat]
  /\ spend \in Nat
  /\ brief \in [Gameweeks -> Brief \cup {None}]
  /\ rows \in Nat
  /\ request \in [Requests -> Request \cup {Idle}]
  /\ admitted \in 0..MaxRequests /\ failures \in 0..MaxFailures
  /\ delivered \in [Metrics \X Periods -> Nat]
  /\ paid \in Nat /\ raced \in BOOLEAN

Init ==
  /\ gameweek = 1 /\ run = 0
  /\ hits = [k \in Kinds |-> 0]
  /\ used = [m \in Metrics \X Periods |-> 0]
  /\ spend = 0
  /\ brief = [g \in Gameweeks |-> None] /\ rows = 0
  /\ request = [r \in Requests |-> Idle]
  /\ admitted = 0 /\ failures = 0
  /\ delivered = used /\ paid = 0 /\ raced = FALSE

-----------------------------------------------------------------------------
(* The world around a request.                                              *)
Simulated ==
  /\ run < MaxRun /\ gameweek + run <= MaxChanges
  /\ run' = run + 1
  /\ UNCHANGED <<gameweek, hits, counters, spend, stored, request, bounds, paid>>

DeadlinePasses ==
  /\ gameweek < MaxGameweek /\ gameweek + run <= MaxChanges
  /\ gameweek' = gameweek + 1
  /\ UNCHANGED <<run, hits, counters, spend, stored, request, bounds, paid>>

-----------------------------------------------------------------------------
(* The ways a request ends.  Its transaction commits, with the spend it      *)
(* recorded, or is rolled back, and that spend is forgotten.                *)
Ends(r) == request' = [request EXCEPT ![r] = Idle]

Commit(r) ==
  /\ spend' = spend + request[r].own
  /\ Ends(r)

Rollback_ReturnsHit(r) ==
  /\ Ends(r)
  /\ hits' = [hits EXCEPT ![request[r].kind] = IF @ > 0 THEN @ - 1 ELSE 0]
  /\ UNCHANGED <<clock, counters, spend, stored, paid>>

Rollback(r) ==
  /\ Ends(r)
  /\ UNCHANGED <<clock, hits, counters, spend, stored, paid>>

AtStep(r, kinds, step) == request[r] # Idle /\ request[r].kind \in kinds /\ request[r].at = step

-----------------------------------------------------------------------------
(* RateLimiter.check: one statement, committed before the handler starts.   *)
Admit(r, k) ==
  /\ request[r] = Idle
  /\ hits[k] < RateLimit[k]
  /\ hits' = [hits EXCEPT ![k] = @ + 1]
  /\ admitted < MaxRequests /\ admitted' = admitted + 1
  /\ \E c \in IF k = "simulate" THEN 1..MaxCost ELSE {1} :
       request' = [request EXCEPT ![r] =
         [kind |-> k, at |-> "start", run0 |-> run, gw |-> gameweek,
          from |-> 0, loaded |-> None, attempt |-> 1, provider |-> 1, outcome |-> "none",
          seen |-> 0, cost |-> c, own |-> 0]]
  /\ UNCHANGED <<clock, counters, spend, stored, failures, paid>>

(* _out_of_date: only a template brief can be, when the league has been      *)
(* simulated since.  (A new release of the template is the same case.)       *)
OutOfDate_Never(b) == FALSE
OutOfDate(b) == b.is_fallback /\ b.from # run

(* _payload_for: the latest simulation's numbers, for the next deadline.    *)
WithPayload(r, step) ==
  [request[r] EXCEPT !.gw = gameweek, !.from = run, !.at = step]

(* current_brief: a stored brief that is in step is served.  Without one,    *)
(* or with one that fell behind, it is written; with no provider, by the     *)
(* template.                                                                 *)
ServeStored(r) ==
  /\ AtStep(r, {"brief"}, "start")
  /\ brief[gameweek] # None /\ ~OutOfDate(brief[gameweek])
  /\ Commit(r)
  /\ UNCHANGED <<clock, hits, counters, stored, bounds, paid>>

StartBrief(r) ==
  /\ AtStep(r, {"brief"}, "start")
  /\ brief[gameweek] # None => OutOfDate(brief[gameweek])
  /\ request' = [request EXCEPT ![r] =
       [WithPayload(r, IF Providers = 0 THEN "done" ELSE "check") EXCEPT
          !.loaded = brief[gameweek],
          !.outcome = IF Providers = 0 THEN "template" ELSE "none"]]
  /\ UNCHANGED <<clock, hits, counters, spend, stored, bounds, paid>>

(* ensure_available: what is refused now is refused before anything is paid.*)
Available(m, period, cost) == used[m, period] + cost <= Allowance[m]

(* regenerate_brief checks the allowance of the gameweek it files under.     *)
StartRewrite(r) ==
  /\ AtStep(r, {"rewrite"}, "start")
  /\ Providers > 0 /\ Available("brief_regen", gameweek, 1)
  /\ request' = [request EXCEPT ![r] = WithPayload(r, "check")]
  /\ UNCHANGED <<clock, hits, counters, spend, stored, bounds, paid>>

StartAsk(r) ==
  /\ AtStep(r, {"ask"}, "start")
  /\ Providers > 0
  /\ Available("gaffer_day", Today, 1) /\ Available("gaffer_month", Today, 1)
  /\ request' = [request EXCEPT ![r] = WithPayload(r, "check")]
  /\ UNCHANGED <<clock, hits, counters, spend, stored, bounds, paid>>

(* simulate and _captaincy_scenarios: no draft, straight to the allowance.   *)
StartScenarios(r) ==
  /\ AtStep(r, {"simulate"}, "start")
  /\ request' = [request EXCEPT ![r] = [WithPayload(r, "done") EXCEPT !.outcome = "written"]]
  /\ UNCHANGED <<clock, hits, counters, spend, stored, bounds, paid>>

Refused(r) ==
  /\ \/ AtStep(r, {"rewrite"}, "start") /\ (Providers = 0 \/ ~Available("brief_regen", gameweek, 1))
     \/ /\ AtStep(r, {"ask"}, "start")
        /\ \/ Providers = 0
           \/ ~Available("gaffer_day", Today, 1) \/ ~Available("gaffer_month", Today, 1)
  /\ Rollback(r)
  /\ UNCHANGED bounds

-----------------------------------------------------------------------------
(* BriefGenerator.generate and answer_question: how an attempt ends.         *)
Concluded(r, outcome) == [request[r] EXCEPT !.at = "done", !.outcome = outcome]

(* LlmClient.complete raised: generate falls back to the template, the       *)
(* Gaffer tells a refusal, which is an answer, from an outage.              *)
AfterFailure(r, refused) ==
  Concluded(r, IF request[r].kind # "ask" THEN "template"
               ELSE IF refused THEN "declined" ELSE "unavailable")

(* SpendCap.would_exceed, which sees the spend of its own transaction too.   *)
WouldExceed_OwnOnly(r) == request[r].own >= Cap
WouldExceed(r) == spend + request[r].own >= Cap

CheckCap(r) ==
  /\ AtStep(r, Kinds, "check")
  /\ request' = [request EXCEPT ![r] =
       IF WouldExceed(r) THEN AfterFailure(r, FALSE)
       ELSE [request[r] EXCEPT !.at = "call", !.provider = 1]]
  /\ UNCHANGED <<clock, hits, counters, spend, stored, bounds, paid>>

(* validate_output: every number and name is the payload's, or the draft is  *)
(* refused.                                                                  *)
Verdicts == {"draft", "bad"}

ProviderDrafts(r) ==
  /\ AtStep(r, Kinds, "call")
  /\ paid' = paid + 1
  /\ \E verdict \in Verdicts :
       request' = [request EXCEPT ![r].at = "record", ![r].outcome = verdict]
  /\ UNCHANGED <<clock, hits, counters, spend, stored, bounds>>

(* LlmUnavailable, or LlmRefused: the next provider is tried, and after the  *)
(* last its exception is the result.                                        *)
ProviderFails(r) ==
  /\ AtStep(r, Kinds, "call")
  /\ \E refused \in BOOLEAN :
       request' = [request EXCEPT ![r] =
         IF request[r].provider < Providers THEN [request[r] EXCEPT !.provider = @ + 1]
         ELSE AfterFailure(r, refused)]
  /\ UNCHANGED <<clock, hits, counters, spend, stored, bounds, paid>>

(* SpendCap.record: one upsert of the day's row, which waits for any other   *)
(* transaction that has written it and has not ended.                       *)
SpendRowFree_SharedLock(r) == \A q \in Requests \ {r} :
  request[q] # Idle => request[q].own = 0 /\ request[q].at # "record"
SpendRowFree(r) == \A q \in Requests \ {r} : request[q] # Idle => request[q].own = 0

AfterDraft(r) ==
  IF request[r].outcome = "draft" THEN Concluded(r, "written")
  ELSE IF request[r].attempt < MaxAttempts
  THEN [request[r] EXCEPT !.at = "check", !.attempt = @ + 1, !.outcome = "none"]
  ELSE Concluded(r, IF request[r].kind = "ask" THEN "declined" ELSE "template")

RecordSpend(r) ==
  /\ AtStep(r, Kinds, "record") /\ SpendRowFree(r)
  /\ request' = [request EXCEPT ![r] = [AfterDraft(r) EXCEPT !.own = @ + 1]]
  /\ UNCHANGED <<clock, hits, counters, spend, stored, bounds, paid>>

-----------------------------------------------------------------------------
(* Entitlements.consume.                                                     *)
Metric(r) == CASE request[r].kind = "rewrite"  -> <<"brief_regen", request[r].gw>>
               [] request[r].kind = "simulate" -> <<"sim_scenario", request[r].gw>>
               [] OTHER                        -> <<"gaffer_day", Today>>

Month == <<"gaffer_month", Today>>

(* Its SELECT, and the refusal.                                              *)
ReadAllowance_Unchecked(r) ==
  /\ AtStep(r, {"rewrite", "ask", "simulate"}, "done") /\ request[r].outcome = "written"
  /\ request' = [request EXCEPT ![r].at = "consume", ![r].seen = used[Metric(r)]]
  /\ UNCHANGED <<clock, hits, counters, spend, stored, bounds, paid>>

ReadAllowance(r) ==
  /\ AtStep(r, {"rewrite", "ask", "simulate"}, "done") /\ request[r].outcome = "written"
  /\ used[Metric(r)] + request[r].cost <= Allowance[Metric(r)[1]]
  /\ request' = [request EXCEPT ![r].at = "consume", ![r].seen = used[Metric(r)]]
  /\ UNCHANGED <<clock, hits, counters, spend, stored, bounds, paid>>

AllowanceSpent(r) ==
  /\ AtStep(r, {"rewrite", "ask", "simulate"}, "done") /\ request[r].outcome = "written"
  /\ used[Metric(r)] + request[r].cost > Allowance[Metric(r)[1]]
  /\ Rollback(r)
  /\ UNCHANGED bounds

(* Its write: an upsert of `cost` where it read nothing, an increment        *)
(* elsewhere.  The counter's row stays locked until the transaction ends.    *)
Consumed_Twice(r) == IF request[r].seen = 0 THEN request[r].cost + 1
                     ELSE used[Metric(r)] + request[r].cost
Consumed(r) == IF request[r].seen = 0 THEN request[r].cost
               ELSE used[Metric(r)] + request[r].cost

CounterFree(r) == \A q \in Requests \ {r} :
  request[q] # Idle /\ request[q].at \in {"store", "month"} /\ request[q].kind # "brief" =>
    Metric(q) # Metric(r)

Charge(r, m, count) ==
  /\ used' = [used EXCEPT ![m] = count]
  /\ delivered' = [delivered EXCEPT ![m] = @ + request[r].cost]

(* simulate commits when its run is done; a move that is not legal is an     *)
(* exception, and costs nothing.                                             *)
ScoreScenarios(r) ==
  /\ AtStep(r, {"simulate"}, "consume") /\ CounterFree(r)
  /\ Charge(r, Metric(r), Consumed(r))
  /\ Commit(r)
  /\ UNCHANGED <<clock, hits, stored, bounds, paid>>

IllegalMove(r) ==
  /\ AtStep(r, {"simulate"}, "consume")
  /\ Rollback(r)
  /\ UNCHANGED bounds

(* The Gaffer charges the day and then the month.  The day's row is locked   *)
(* from the first to the end, so `seen` is the month as it then is.          *)
ChargeDay(r) ==
  /\ AtStep(r, {"ask"}, "consume") /\ CounterFree(r)
  /\ request' = [request EXCEPT ![r].at = "month"]
  /\ UNCHANGED <<clock, hits, counters, spend, stored, bounds, paid>>

Answer(r) ==
  /\ AtStep(r, {"ask"}, "month")
  /\ used["gaffer_month", Today] + 1 <= Allowance["gaffer_month"]
  /\ used' = [used EXCEPT ![Metric(r)] = Consumed(r), ![Month] = @ + 1]
  /\ delivered' = [delivered EXCEPT ![Metric(r)] = @ + 1, ![Month] = @ + 1]
  /\ Commit(r)
  /\ UNCHANGED <<clock, hits, stored, bounds, paid>>

MonthSpent(r) ==
  /\ AtStep(r, {"ask"}, "month")
  /\ used["gaffer_month", Today] + 1 > Allowance["gaffer_month"]
  /\ Rollback(r)
  /\ UNCHANGED bounds

(* A question the writer declined is answered so, and not counted.  One it   *)
(* never tried is a 503: an exception, whatever an earlier attempt cost.     *)
Decline(r) ==
  /\ AtStep(r, {"ask"}, "done") /\ request[r].outcome = "declined"
  /\ Commit(r)
  /\ UNCHANGED <<clock, hits, counters, stored, bounds, paid>>

GafferUnavailable(r) ==
  /\ AtStep(r, {"ask"}, "done") /\ request[r].outcome = "unavailable"
  /\ Rollback(r)
  /\ UNCHANGED bounds

(* A rewrite that fell back is refused too, but commits its spend first.     *)
RewriteFailed(r) ==
  /\ AtStep(r, {"rewrite"}, "done") /\ request[r].outcome = "template"
  /\ Commit(r)
  /\ UNCHANGED <<clock, hits, counters, stored, bounds, paid>>

-----------------------------------------------------------------------------
(* _stored_brief, before the write.  A row the session already holds is not  *)
(* refreshed by a second SELECT.                                            *)
Loaded(r) ==
  LET now == brief[request[r].gw]
      old == request[r].loaded
  IN IF now # None /\ old # None /\ now.id = old.id THEN old ELSE now

LoadForBrief(r) ==
  /\ AtStep(r, {"brief"}, "done")
  /\ request' = [request EXCEPT ![r].at = "store", ![r].loaded = Loaded(r)]
  /\ UNCHANGED <<clock, hits, counters, spend, stored, bounds, paid>>

LoadForRewrite(r) ==
  /\ AtStep(r, {"rewrite"}, "consume") /\ CounterFree(r)
  /\ request' = [request EXCEPT ![r].at = "store", ![r].loaded = brief[request[r].gw]]
  /\ UNCHANGED <<clock, hits, counters, spend, stored, bounds, paid>>

(* _write_brief.                                                             *)
Words(r) == [by |-> IF request[r].outcome = "template" THEN "template" ELSE "writer",
             from |-> request[r].from]

Written_KeepsLabel(r, id) ==
  [id |-> id, is_fallback |-> TRUE, from |-> request[r].from, content |-> Words(r)]
Written_NoSimulation(r, id) ==
  [id |-> id, is_fallback |-> request[r].outcome = "template", from |-> None, content |-> Words(r)]
Written(r, id) ==
  [id |-> id, is_fallback |-> request[r].outcome = "template", from |-> request[r].from,
   content |-> Words(r)]

StoreBrief(r, new) ==
  /\ brief' = [brief EXCEPT ![request[r].gw] = new]
  /\ Commit(r)

(* The row is still what the request loaded: no other one, and none gone.    *)
SameRow(r) == LET now == brief[request[r].gw]
              IN IF request[r].loaded = None THEN now = None
                 ELSE now # None /\ now.id = request[r].loaded.id

(* current_brief stores a first brief, rewrites a template in place, and     *)
(* leaves the writer's alone.  An update writes the columns that differ      *)
(* from the row as it was loaded.                                            *)
FirstBrief(r) ==
  /\ AtStep(r, {"brief"}, "store") /\ SameRow(r) /\ request[r].loaded = None
  /\ StoreBrief(r, Written(r, rows + 1))
  /\ rows' = rows + 1
  /\ UNCHANGED <<clock, hits, counters, raced, bounds, paid>>

KeepsInStep_Always(r) == TRUE
KeepsInStep(r) == request[r].loaded.is_fallback

UpdateBrief(r) ==
  LET row == brief[request[r].gw]
      old == request[r].loaded
      new == Written(r, old.id)
  IN /\ AtStep(r, {"brief"}, "store") /\ old # None /\ SameRow(r) /\ KeepsInStep(r)
     /\ StoreBrief(r, [c \in DOMAIN new |-> IF new[c] = old[c] THEN row[c] ELSE new[c]])
     /\ raced' = (raced \/ row # old)
     /\ UNCHANGED <<clock, hits, counters, rows, bounds, paid>>

KeepBrief_SameRow(r) ==
  /\ AtStep(r, {"brief"}, "store") /\ request[r].loaded # None /\ ~KeepsInStep(r) /\ SameRow(r)
  /\ Commit(r)
  /\ UNCHANGED <<clock, hits, counters, stored, bounds, paid>>

KeepBrief(r) ==
  /\ AtStep(r, {"brief"}, "store") /\ request[r].loaded # None /\ ~KeepsInStep(r)
  /\ Commit(r)
  /\ UNCHANGED <<clock, hits, counters, stored, bounds, paid>>

(* A rewrite deletes the row and inserts another.                            *)
ReplaceBrief(r) ==
  /\ AtStep(r, {"rewrite"}, "store") /\ SameRow(r)
  /\ Charge(r, Metric(r), Consumed(r))
  /\ StoreBrief(r, Written(r, rows + 1))
  /\ rows' = rows + 1
  /\ UNCHANGED <<clock, hits, raced, bounds, paid>>

(* The row loaded is gone, or uq_briefs_user_league_gw has another.          *)
Conflict(r) ==
  /\ AtStep(r, {"brief", "rewrite"}, "store") /\ ~SameRow(r)
  /\ request[r].kind = "brief" /\ request[r].loaded # None => KeepsInStep(r)
  /\ Rollback(r)
  /\ UNCHANGED bounds

(* A death, a lost connection, an error of the handler.                      *)
RequestFails(r) ==
  /\ request[r] # Idle
  /\ failures < MaxFailures
  /\ failures' = failures + 1
  /\ Rollback(r)
  /\ UNCHANGED admitted

Proceed(r) ==
  \/ ServeStored(r) \/ StartBrief(r) \/ StartRewrite(r) \/ StartAsk(r) \/ StartScenarios(r)
  \/ Refused(r)
  \/ CheckCap(r) \/ ProviderDrafts(r) \/ ProviderFails(r) \/ RecordSpend(r)
  \/ ReadAllowance(r) \/ AllowanceSpent(r)
  \/ ScoreScenarios(r) \/ IllegalMove(r)
  \/ ChargeDay(r) \/ Answer(r) \/ MonthSpent(r) \/ Decline(r) \/ GafferUnavailable(r)
  \/ RewriteFailed(r)
  \/ LoadForBrief(r) \/ LoadForRewrite(r)
  \/ FirstBrief(r) \/ UpdateBrief(r) \/ KeepBrief(r) \/ ReplaceBrief(r) \/ Conflict(r)

(* A request that has a row to write which another transaction has written.  *)
Waits(r) ==
  \/ AtStep(r, Kinds, "record") /\ ~SpendRowFree(r)
  \/ AtStep(r, {"rewrite", "ask", "simulate"}, "consume") /\ ~CounterFree(r)

Next ==
  \/ Simulated \/ DeadlinePasses
  \/ \E r \in Requests : \/ \E k \in Kinds : Admit(r, k)
                         \/ Proceed(r)
                         \/ RequestFails(r)

Spec == Init /\ [][Next]_vars

-----------------------------------------------------------------------------
(* Nobody is charged for what was not delivered: neither a failure, nor a    *)
(* refusal, nor two requests that consume at once make a counter exceed the  *)
(* results its member was given ("a failure is never charged",               *)
(* ensure_available).                                                        *)
NeverOvercharged == \A m \in Metrics \X Periods : used[m] <= delivered[m]

(* consume lets through more than the allowance only as far as requests      *)
(* overlap.  One that had read nothing undoes what the others counted since, *)
(* and those can have passed the allowance together: with an allowance of a, *)
(* one request at a time is answered a uses of a period, two 3a - 1, three   *)
(* 6a - 3.                                                                   *)
AllowanceBounded ==
  LET overlap == Cardinality(Requests)
  IN \A m \in Metrics \X Periods : delivered[m] > 0 =>
       2 * delivered[m] <= overlap * (2 + (Allowance[m[1]] - 1) * (overlap + 1))

(* The cap is read before a call and written after it, so concurrent calls   *)
(* pass it together: it is exceeded by no more than one call for each        *)
(* request beyond the first, second attempts included.                       *)
CapOvershootBounded ==
  spend > 0 => spend <= Cap - 1 + Cardinality(Requests)

(* What the cap forgets, a rollback after a paid draft, the limiter bounds:  *)
(* failures do not return a request to its window (ratelimit.py, "Its own    *)
(* transaction").                                                            *)
BillBounded == paid <= MaxAttempts * (hits["brief"] + hits["rewrite"] + hits["ask"])

(* Where no two requests wrote one row from the same reading, the label of   *)
(* a stored brief is true of its words, and its simulation is theirs: what   *)
(* is refreshed is the template, what is kept is the writer's.               *)
LabelIsTrue ==
  ~raced => \A g \in Gameweeks : brief[g] # None =>
    /\ brief[g].is_fallback <=> brief[g].content.by = "template"
    /\ brief[g].from = brief[g].content.from

(* "A brief from the AI writer stays as written; changing that is what       *)
(* Rewrite is for" (current_brief): without such a race its words change     *)
(* only together with the allowance.                                         *)
WriterStays ==
  [][\A g \in Gameweeks :
       brief[g] # None /\ brief[g].content.by = "writer" /\ brief'[g] # brief[g] /\ ~raced' =>
         /\ brief'[g] # None /\ brief'[g].content.by = "writer"
         /\ delivered'["brief_regen", g] > delivered["brief_regen", g]]_vars

(* A template brief a request is answered with quotes a simulation at least  *)
(* as new as the newest when the request came in ("kept in step with the     *)
(* numbers", current_brief), whatever other requests store meanwhile.        *)
ServedInStep ==
  [][\A r \in Requests :
       AtStep(r, {"brief"}, "start") /\ request'[r] = Idle /\ failures' = failures =>
         LET b == brief[gameweek]
         IN b # None /\ (b.is_fallback => b.content.from >= request[r].run0)]_vars

(* Requests wait for each other's rows, of the day's spend, of a counter, and *)
(* keep their own until they end, across calls to the language model; but     *)
(* never in a circle: there is always one that waits for nobody.              *)
NoDeadlock ==
  (\E r \in Requests : request[r] # Idle) => \E r \in Requests : request[r] # Idle /\ ~Waits(r)

(* Nothing else stops a request: whatever the others stored, spent or         *)
(* charged meanwhile, one that waits for no row is answered or refused.       *)
OnlyRowsDelay ==
  \A r \in Requests : request[r] # Idle /\ ~Waits(r) => ENABLED Proceed(r)
=============================================================================
