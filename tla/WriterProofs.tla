---------------------------- MODULE WriterProofs ----------------------------
(***************************************************************************)
(* Proofs about Writer for any requests at the same time, providers, cap,  *)
(* attempts, limits and allowances.                                        *)
(***************************************************************************)
EXTENDS Writer, FiniteSetTheorems, TLAPS

(* What a request knows at the step it has reached: only the first three    *)
(* kinds call the language model, and only with an attempt left; what is    *)
(* charged as a rewrite was written.                                        *)
Knows(q) ==
  /\ q.run0 <= run
  /\ q.attempt \in 1..MaxAttempts
  /\ q.cost >= 1 /\ (q.kind # "simulate" => q.cost = 1)
  /\ q.at \in {"check", "call", "record"} => q.kind # "simulate"
  /\ q.at = "month" => q.kind = "ask"
  /\ q.kind = "rewrite" /\ q.at \in {"consume", "store"} => q.outcome = "written"
RequestKnows == \A r \in Requests : request[r] # Idle => Knows(request[r])

(* Requests that have passed the cap and not yet recorded their call.       *)
InCall(q) == q # Idle /\ q.at \in {"call", "record"}
Calling == {r \in Requests : InCall(request[r])}
Own(r) == IF request[r] = Idle THEN 0 ELSE request[r].own

(* Only one request holds spend, it can pass the cap by its last call only   *)
(* if it has passed the check, and all that is committed, held and about to  *)
(* be recorded stays within the cap and a call for each further request.     *)
Within(s, own, C) ==
  /\ \A q, r \in Requests : own[q] > 0 /\ own[r] > 0 => q = r
  /\ \A r \in Requests :
       /\ own[r] >= 2 => s + own[r] <= Cap
       /\ r \in C /\ own[r] >= 1 => s + own[r] <= Cap - 1
       /\ s + own[r] + Cardinality(C) <= Cap - 1 + Cardinality(Requests)
SpendAccounted ==
  /\ Within(spend, [r \in Requests |-> Own(r)], Calling)
  /\ spend > 0 => Requests # {}

(* The calls a request may still have to pay for.                           *)
MayPay(q, a) ==
  /\ q # Idle /\ q.kind # "simulate"
  /\ \/ q.at \in {"start", "check", "call"} /\ a >= q.attempt
     \/ q.at = "record" /\ a > q.attempt
ToPay == {s \in Requests \X (1..MaxAttempts) : MayPay(request[s[1]], s[2])}
CallsAccounted ==
  paid + Cardinality(ToPay) <= MaxAttempts * (hits["brief"] + hits["rewrite"] + hits["ask"])

(* A brief that is labelled the template's is the template's, of the        *)
(* simulation it names, in the table and in every session.                  *)
Truthful(b) == b.is_fallback => b.content = [by |-> "template", from |-> b.from]
TemplateIsTrue ==
  /\ \A g \in Gameweeks : brief[g] # None => Truthful(brief[g])
  /\ \A r \in Requests : request[r] # Idle /\ request[r].loaded # None => Truthful(request[r].loaded)

(* Requests between the two halves of consume.                              *)
Charging(q) == q # Idle /\ q.kind # "brief" /\ q.at \in {"consume", "store", "month"}
Pending(m) == {r \in Requests : Charging(request[r]) /\ Metric(r) = m}
Seen == [r \in Requests |-> IF request[r] = Idle THEN 0 ELSE request[r].seen]
Cost == [r \in Requests |-> IF request[r] = Idle THEN 0 ELSE request[r].cost]

(* The counter of an allowance a, the uses that were given, and the requests *)
(* P that are about to charge.  One of them that has read nothing is blind:  *)
(* it sets the counter back.  The counter exceeds one use by spare = a - 1   *)
(* for each request elsewhere at most, and each time it was set back it lost *)
(* no more than what it could hold while so many were blind.                 *)
Room(n, k)   == n * k
Undone(n, k) == n * (2 + k * (n + 1))
Blind(P, seen) == {r \in P : seen[r] = 0}
Uses(a, count, given, P, seen, cost) ==
  LET spare     == a - 1
      elsewhere == Cardinality(Requests \ P)
      sighted   == Cardinality(Requests \ Blind(P, seen))
  IN /\ count <= given
     /\ \A r \in P : seen[r] + cost[r] <= a /\ cost[r] >= 1
     /\ count = 0 => given = 0 /\ \A r \in P : seen[r] = 0
     /\ count > 0 =>
          /\ a >= 1 /\ sighted >= 1
          /\ 2 * (given - count) <= Undone(sighted - 1, spare)
          /\ \/ count <= 1 + Room(elsewhere, spare)
             \/ \E r \in P : seen[r] > 0 /\ count + cost[r] <= 1 + Room(elsewhere + 1, spare)
UsesAccounted ==
  \A m \in (Metrics \ {"gaffer_month"}) \X Periods :
    Uses(Allowance[m[1]], used[m], delivered[m], Pending(m), Seen, Cost)

(* Only one request at a time charges the month, under the lock of its day.  *)
MonthAccounted ==
  \A g \in Periods :
    /\ used[<<"gaffer_month", g>>] = delivered[<<"gaffer_month", g>>]
    /\ delivered[<<"gaffer_month", g>>] <= Allowance["gaffer_month"]
    /\ delivered[<<"gaffer_month", g>>] > 0 => Requests # {}
IInv == /\ TypeOK /\ RequestKnows /\ SpendAccounted /\ CallsAccounted /\ TemplateIsTrue
        /\ UsesAccounted /\ MonthAccounted

-----------------------------------------------------------------------------
(* A request is told from none by its kind. *)
LEMMA IdleIsNone ==
  /\ Idle \notin Request
  /\ \A q \in Request : q # Idle
<1>1. \A q \in Request : q.kind \in Kinds
  BY DEF Request
<1>2. Idle.kind = None
  BY DEF Idle
<1> QED
  BY <1>1, <1>2, NoneAssumption

(* The request a step is about, with what it knows. *)
LEMMA TheRequest ==
  ASSUME TypeOK, NEW r \in Requests, request[r] # Idle
  PROVE  request[r] \in Request
  BY DEF TypeOK

(* The first state has no request and nothing counted. *)
LEMMA TypeStarts == Init => TypeOK
<1> SUFFICES ASSUME Init PROVE TypeOK
  OBVIOUS
<1> USE WriterAssumption DEF Init
<1>1. gameweek \in Gameweeks /\ run \in 0..MaxRun
  BY DEF Gameweeks
<1>2. hits \in [Kinds -> Nat] /\ used \in [Metrics \X Periods -> Nat] /\ delivered \in [Metrics \X Periods -> Nat]
  OBVIOUS
<1>3. brief \in [Gameweeks -> Brief \cup {None}] /\ request \in [Requests -> Request \cup {Idle}]
  OBVIOUS
<1>4. spend \in Nat /\ rows \in Nat /\ paid \in Nat /\ raced \in BOOLEAN
  OBVIOUS
<1>5. admitted \in 0..MaxRequests /\ failures \in 0..MaxFailures
  OBVIOUS
<1> QED
  BY <1>1, <1>2, <1>3, <1>4, <1>5, Zenon DEF TypeOK

(* What a request may have become after a step. *)
Sound(q) == q = Idle \/ (q \in Request /\ Knows(q))

(* One request goes on, the others stay as they are. *)
LEMMA RequestGoesOn ==
  ASSUME TypeOK, RequestKnows, UNCHANGED run, NEW r \in Requests, NEW x, Sound(x),
         request' = [request EXCEPT ![r] = x]
  PROVE  request' \in [Requests -> Request \cup {Idle}] /\ RequestKnows'
<1>1. request \in [Requests -> Request \cup {Idle}] /\ x \in Request \cup {Idle}
  BY DEF TypeOK, Sound
<1>2. request' \in [Requests -> Request \cup {Idle}]
  BY <1>1
<1>3. \A q \in Requests : request'[q] = IF q = r THEN x ELSE request[q]
  BY <1>1
<1>4. ASSUME NEW q \in Requests, request'[q] # Idle
      PROVE  Knows(request[q])'
  <2>1. Knows(request'[q])
    BY <1>3, <1>4 DEF RequestKnows, Sound
  <2> QED
    BY <2>1 DEF Knows
<1> QED
  BY <1>2, <1>4 DEF RequestKnows

(* A request that starts to work for the next deadline. *)
LEMMA PayloadSound ==
  ASSUME TypeOK, RequestKnows, NEW r \in Requests, request[r] # Idle, NEW step \in {"check", "done"},
         step = "check" => request[r].kind # "simulate"
  PROVE  /\ WithPayload(r, step) \in Request /\ Knows(WithPayload(r, step))
         /\ WithPayload(r, step) = [request[r] EXCEPT !.gw = gameweek, !.from = run, !.at = step]
<1> PICK q \in Request : q = request[r]
  BY TheRequest
<1>1. gameweek \in Gameweeks /\ run \in 0..MaxRun /\ Knows(q) /\ step \in Steps
  BY DEF TypeOK, RequestKnows, Steps
<1>2. WithPayload(r, step) = [q EXCEPT !.gw = gameweek, !.from = run, !.at = step]
  BY DEF WithPayload
<1>3. [q EXCEPT !.gw = gameweek, !.from = run, !.at = step] \in Request
  BY <1>1 DEF Request
<1>4. Knows([q EXCEPT !.gw = gameweek, !.from = run, !.at = step])
  BY <1>1 DEF Knows, Request
<1> QED
  BY <1>2, <1>3, <1>4

(* What a step leaves of the calls a request may make, of the spend it holds, *)
(* of the use it is about to charge, and of the row it has loaded.            *)
SpendFollows(r, x) ==
  \/ x.own = request[r].own /\ (InCall(x) => InCall(request[r]))
  \/ x.own = request[r].own /\ ~WouldExceed(r)
  \/ x.own = request[r].own + 1 /\ InCall(request[r]) /\ ~InCall(x) /\ SpendRowFree(r)
CallsFollow(r, x) ==
  \/ paid' = paid /\ \A a \in 1..MaxAttempts : MayPay(x, a) => MayPay(request[r], a)
  \/ /\ paid' = paid + 1 /\ request[r].at = "call" /\ request[r].kind # "simulate"
     /\ x.at = "record" /\ x.attempt = request[r].attempt
SameUse(r, x) == x.kind = request[r].kind /\ x.gw = request[r].gw /\ x.cost = request[r].cost
ChargeFollows(r, x) ==
  \/ ~Charging(x) /\ ~Charging(request[r])
  \/ Charging(x) /\ Charging(request[r]) /\ SameUse(r, x) /\ x.seen = request[r].seen
  \/ /\ Charging(x) /\ ~Charging(request[r]) /\ SameUse(r, x) /\ x.seen = used[Metric(r)]
     /\ used[Metric(r)] + request[r].cost <= Allowance[Metric(r)[1]]
LoadFollows(r, x) == x.loaded = request[r].loaded \/ \E g \in Gameweeks : x.loaded = brief[g]
Follows(r, x) == SpendFollows(r, x) /\ CallsFollow(r, x) /\ ChargeFollows(r, x) /\ LoadFollows(r, x)
GoesOn(r) ==
  /\ UNCHANGED <<used, delivered, spend, brief, rows, raced>>
  /\ \E x \in Request : Knows(x) /\ request' = [request EXCEPT ![r] = x] /\ Follows(r, x)

EndsAs(r) == Ends(r) /\ paid' = paid /\ spend' \in {spend, spend + request[r].own}

(* Whatever a request does, it ends, or goes on as one that knows what it     *)
(* should, before anything is stored.                                       *)
LEMMA EndsOrGoesOn ==
  ASSUME TypeOK, RequestKnows, NEW r \in Requests, Proceed(r)
  PROVE  request[r] # Idle /\ (EndsAs(r) \/ GoesOn(r))
<1>r. request[r] # Idle
  BY DEF Proceed, ServeStored, StartBrief, StartRewrite, StartAsk, StartScenarios, Refused, CheckCap, ProviderDrafts,
     ProviderFails, RecordSpend, ReadAllowance, AllowanceSpent, ScoreScenarios, IllegalMove, ChargeDay, Answer, MonthSpent,
     Decline, GafferUnavailable, RewriteFailed, LoadForBrief, LoadForRewrite, FirstBrief, UpdateBrief, KeepBrief,
     ReplaceBrief, Conflict, AtStep
<1> PICK q \in Request : q = request[r]
  BY <1>r, TheRequest
<1>0. /\ gameweek \in Gameweeks /\ run \in 0..MaxRun /\ MaxAttempts \in Nat
      /\ q \in Request /\ Knows(q) /\ q # Idle
  BY <1>r, WriterAssumption DEF TypeOK, RequestKnows
<1>i. \A x \in Request : x # Idle
  BY IdleIsNone
<1> DEFINE Kept == UNCHANGED <<used, delivered, spend, brief, rows, raced>>
<1> USE DEF GoesOn
<1>1. CASE ServeStored(r) \/ Refused(r) \/ AllowanceSpent(r) \/ ScoreScenarios(r) \/ IllegalMove(r)
           \/ Answer(r) \/ MonthSpent(r) \/ Decline(r) \/ GafferUnavailable(r) \/ RewriteFailed(r)
  BY <1>r, <1>1 DEF ServeStored, Refused, AllowanceSpent, ScoreScenarios, IllegalMove, Answer, MonthSpent,
       Decline, GafferUnavailable, RewriteFailed, Commit, Rollback, EndsAs
<1>2. CASE FirstBrief(r) \/ UpdateBrief(r) \/ KeepBrief(r) \/ ReplaceBrief(r) \/ Conflict(r)
  BY <1>r, <1>2
     DEF FirstBrief, UpdateBrief, KeepBrief, ReplaceBrief, Conflict, StoreBrief, Commit, Rollback, EndsAs
<1>c. ASSUME NEW x \in Request, x.kind = q.kind, q.at = "start", x.at \in {"check", "done"},
             x.attempt = q.attempt, x.own = q.own, LoadFollows(r, x), paid' = paid
      PROVE  Follows(r, x)
  <2>1. SpendFollows(r, x)
    BY <1>c DEF SpendFollows, InCall
  <2>2. CallsFollow(r, x)
    BY <1>0, <1>c DEF CallsFollow, MayPay
  <2>3. ChargeFollows(r, x)
    BY <1>c DEF ChargeFollows, Charging
  <2> QED
    BY <2>1, <2>2, <2>3, <1>c DEF Follows
<1>3. CASE StartBrief(r)
  <2> DEFINE step == IF Providers = 0 THEN "done" ELSE "check"
             p == WithPayload(r, step)
             x == [p EXCEPT !.loaded = brief[gameweek], !.outcome = IF Providers = 0 THEN "template" ELSE "none"]
  <2>0. q.at = "start" /\ q.kind = "brief"
    BY <1>3 DEF StartBrief, AtStep
  <2>p. /\ p \in Request /\ Knows(p)
        /\ p = [q EXCEPT !.gw = gameweek, !.from = run, !.at = step]
    <3>1. step \in {"check", "done"}
      OBVIOUS
    <3> HIDE DEF step
    <3> QED
      BY <1>r, <2>0, <3>1, PayloadSound
  <2>1. p \in Request /\ Knows(p) /\ p.kind = "brief" /\ p.at = step /\ p.attempt = q.attempt /\ p.own = q.own
    <3> HIDE DEF p, step
    <3> QED
      BY <2>0, <2>p DEF Request
  <2>2. brief[gameweek] \in Brief \cup {None}
    BY <1>0 DEF TypeOK
  <2>3. request' = [request EXCEPT ![r] = x] /\ Kept /\ paid' = paid
    BY <1>3 DEF StartBrief, counters, stored
  <2>4. /\ x \in Request /\ Knows(x) /\ x.kind = "brief" /\ x.at = step /\ x.attempt = q.attempt /\ x.own = q.own
        /\ x.loaded = brief[gameweek]
    <3> HIDE DEF p
    <3> QED
      BY <2>1, <2>2, ZenonT(30) DEF Request, Knows
  <2>5. Follows(r, x)
    <3> HIDE DEF x
    <3> QED
      BY <2>0, <2>3, <2>4, <1>0, <1>c DEF LoadFollows
  <2> QED
    BY <1>r, <2>3, <2>4, <2>5
<1>4. CASE StartRewrite(r) \/ StartAsk(r)
  <2> DEFINE x == WithPayload(r, "check")
  <2>1. request' = [request EXCEPT ![r] = x] /\ Kept /\ paid' = paid
    BY <1>4 DEF StartRewrite, StartAsk, counters, stored
  <2>2. q.kind # "simulate" /\ q.at = "start"
    BY <1>4 DEF StartRewrite, StartAsk, AtStep
  <2>3. x \in Request /\ Knows(x) /\ x = [q EXCEPT !.gw = gameweek, !.from = run, !.at = "check"]
    BY <1>r, <2>2, PayloadSound
  <2>4. Follows(r, x)
    <3> HIDE DEF x
    <3>1. x.kind = q.kind /\ x.at = "check" /\ x.attempt = q.attempt /\ x.own = q.own /\ x.loaded = q.loaded
      BY <2>3 DEF Request
    <3> QED
      BY <3>1, <2>1, <2>2, <2>3, <1>c DEF LoadFollows
  <2> QED
    BY <1>r, <2>1, <2>3, <2>4
<1>5. CASE StartScenarios(r)
  <2> DEFINE p == WithPayload(r, "done")
             x == [p EXCEPT !.outcome = "written"]
  <2>0. q.at = "start" /\ q.kind = "simulate"
    BY <1>5 DEF StartScenarios, AtStep
  <2>p. /\ p \in Request /\ Knows(p)
        /\ p = [q EXCEPT !.gw = gameweek, !.from = run, !.at = "done"]
    BY <1>r, PayloadSound
  <2>1. /\ p \in Request /\ Knows(p) /\ p.kind = "simulate" /\ p.at = "done" /\ p.attempt = q.attempt /\ p.own = q.own
        /\ p.loaded = q.loaded
    <3> HIDE DEF p
    <3> QED
      BY <2>0, <2>p DEF Request
  <2>2. request' = [request EXCEPT ![r] = x] /\ Kept /\ paid' = paid
    BY <1>5 DEF StartScenarios, counters, stored
  <2>3. /\ x \in Request /\ Knows(x) /\ x.kind = "simulate" /\ x.at = "done" /\ x.attempt = q.attempt /\ x.own = q.own
        /\ x.loaded = q.loaded
    <3> HIDE DEF p
    <3> QED
      BY <2>1 DEF Request, Knows
  <2>4. Follows(r, x)
    <3> HIDE DEF x
    <3> QED
      BY <2>0, <2>2, <2>3, <1>c DEF LoadFollows
  <2> QED
    BY <1>r, <2>2, <2>3, <2>4
<1>d. ASSUME NEW outcome \in {"template", "declined", "unavailable", "written"},
             q.at \in {"check", "call", "record"}
      PROVE  /\ Concluded(r, outcome) \in Request /\ Knows(Concluded(r, outcome))
             /\ Concluded(r, outcome).at = "done" /\ Concluded(r, outcome).kind = q.kind
             /\ Concluded(r, outcome).own = q.own /\ Concluded(r, outcome).loaded = q.loaded
  <2>1. Concluded(r, outcome) = [q EXCEPT !.at = "done", !.outcome = outcome]
    BY DEF Concluded
  <2>2. [q EXCEPT !.at = "done", !.outcome = outcome] \in Request
    BY <1>0, <1>d DEF Request, Steps
  <2>3. Knows([q EXCEPT !.at = "done", !.outcome = outcome])
    BY <1>0, <1>d DEF Knows, Request, Steps
  <2>4. LET x == [q EXCEPT !.at = "done", !.outcome = outcome]
        IN x.at = "done" /\ x.kind = q.kind /\ x.own = q.own /\ x.loaded = q.loaded
    BY DEF Request
  <2> QED
    BY <2>1, <2>2, <2>3, <2>4
<1>f. ASSUME NEW x \in Request, x.at = "done", x.own = q.own, x.loaded = q.loaded,
             q.at \in {"check", "call", "record"}, paid' = paid
      PROVE  Follows(r, x)
  BY <1>f DEF Follows, SpendFollows, CallsFollow, ChargeFollows, LoadFollows, InCall, MayPay, Charging
<1>6. CASE CheckCap(r)
  <2>1. q.at = "check" /\ Kept /\ paid' = paid
    BY <1>6 DEF CheckCap, AtStep, counters, stored
  <2>2. CASE WouldExceed(r)
    <3>1. PICK x \in Request : x = AfterFailure(r, FALSE)
      BY <2>1, <1>d DEF AfterFailure
    <3>2. Knows(x) /\ x.at = "done" /\ x.own = q.own /\ x.loaded = q.loaded
      BY <3>1, <2>1, <1>d DEF AfterFailure
    <3>3. request' = [request EXCEPT ![r] = x]
      BY <1>6, <2>2, <3>1 DEF CheckCap
    <3>4. Follows(r, x)
      BY <3>2, <2>1, <1>f
    <3> QED
      BY <1>r, <2>1, <3>2, <3>3, <3>4
  <2>3. CASE ~WouldExceed(r)
    <3> DEFINE x == [q EXCEPT !.at = "call", !.provider = 1]
    <3>1. x \in Request /\ Knows(x)
      BY <1>0, <2>1 DEF Knows, Request, Steps
    <3>2. request' = [request EXCEPT ![r] = x]
      BY <1>6, <2>3 DEF CheckCap
    <3>3. x.at = "call" /\ x.own = q.own /\ x.loaded = q.loaded /\ x.kind = q.kind /\ x.attempt = q.attempt
      BY DEF Request
    <3>4. Follows(r, x)
      <4> HIDE DEF x
      <4> QED
        BY <2>1, <2>3, <3>3, <1>0
           DEF Follows, SpendFollows, CallsFollow, ChargeFollows, LoadFollows, MayPay, Charging
    <3> QED
      BY <1>r, <2>1, <3>1, <3>2, <3>4
  <2> QED
    BY <2>2, <2>3
<1>7. CASE ProviderDrafts(r)
  <2>1. q.at = "call" /\ Kept /\ paid' = paid + 1
    BY <1>7 DEF ProviderDrafts, AtStep, counters, stored
  <2>2. PICK verdict \in {"draft", "bad"} : request' = [request EXCEPT ![r].at = "record", ![r].outcome = verdict]
    BY <1>7 DEF ProviderDrafts, Verdicts
  <2> DEFINE x == [q EXCEPT !.at = "record", !.outcome = verdict]
  <2>3. request' = [request EXCEPT ![r] = x]
    BY <2>2
  <2>4. x \in Request /\ Knows(x)
    BY <1>0, <2>1 DEF Knows, Request, Steps
  <2>5. x.at = "record" /\ x.own = q.own /\ x.loaded = q.loaded /\ x.kind = q.kind /\ x.attempt = q.attempt
    BY DEF Request
  <2>6. q.kind # "simulate"
    BY <1>0, <2>1 DEF Knows
  <2>7. Follows(r, x)
    <3> HIDE DEF x
    <3> QED
      BY <2>1, <2>5, <2>6, <1>0
         DEF Follows, SpendFollows, CallsFollow, ChargeFollows, LoadFollows, InCall, Charging
  <2> QED
    BY <1>r, <2>1, <2>3, <2>4, <2>7
<1>8. CASE ProviderFails(r)
  <2>1. q.at = "call" /\ Kept /\ paid' = paid
    BY <1>8 DEF ProviderFails, AtStep, counters, stored
  <2>2. PICK refused \in BOOLEAN :
       request' = [request EXCEPT ![r] =
         IF request[r].provider < Providers THEN [request[r] EXCEPT !.provider = @ + 1]
         ELSE AfterFailure(r, refused)]
    BY <1>8 DEF ProviderFails
  <2>3. CASE ~(q.provider < Providers)
    <3>1. PICK x \in Request : x = AfterFailure(r, refused)
      BY <2>1, <1>d DEF AfterFailure
    <3>2. Knows(x) /\ x.at = "done" /\ x.own = q.own /\ x.loaded = q.loaded
      BY <3>1, <2>1, <1>d DEF AfterFailure
    <3>3. request' = [request EXCEPT ![r] = x]
      BY <2>2, <2>3, <3>1
    <3>4. Follows(r, x)
      BY <3>2, <2>1, <1>f
    <3> QED
      BY <1>r, <2>1, <3>2, <3>3, <3>4
  <2>4. CASE q.provider < Providers
    <3> DEFINE x == [q EXCEPT !.provider = q.provider + 1]
    <3>1. x \in Request /\ Knows(x)
      BY <1>0, <2>1 DEF Knows, Request, Steps
    <3>2. request' = [request EXCEPT ![r] = x]
      BY <2>2, <2>4
    <3>3. x.at = "call" /\ x.own = q.own /\ x.loaded = q.loaded /\ x.kind = q.kind /\ x.attempt = q.attempt
      BY <2>1 DEF Request
    <3>4. Follows(r, x)
      <4> HIDE DEF x
      <4> QED
        BY <2>1, <3>3, <1>0
           DEF Follows, SpendFollows, CallsFollow, ChargeFollows, LoadFollows, InCall, MayPay, Charging
    <3> QED
      BY <1>r, <2>1, <3>1, <3>2, <3>4
  <2> QED
    BY <2>3, <2>4
<1>9. CASE RecordSpend(r)
  <2>1. q.at = "record" /\ Kept /\ paid' = paid /\ SpendRowFree(r)
    BY <1>9 DEF RecordSpend, AtStep, counters, stored
  <2>2. PICK d \in Request : d = AfterDraft(r)
    <3>1. CASE q.outcome = "draft"
      <4>1. AfterDraft(r) = Concluded(r, "written")
        BY <3>1 DEF AfterDraft
      <4> QED
        BY <4>1, <2>1, <1>d
    <3>2. CASE q.outcome # "draft" /\ q.attempt < MaxAttempts
      <4>0. PICK n \in Nat : n = q.attempt + 1
        BY <1>0 DEF Request
      <4>1. AfterDraft(r) = [q EXCEPT !.at = "check", !.attempt = n, !.outcome = "none"]
        BY <3>2, <4>0 DEF AfterDraft
      <4>2. [q EXCEPT !.at = "check", !.attempt = n, !.outcome = "none"] \in Request
        BY <1>0 DEF Request, Steps
      <4> QED
        BY <4>1, <4>2
    <3>3. CASE q.outcome # "draft" /\ ~(q.attempt < MaxAttempts)
      <4>1. AfterDraft(r) = Concluded(r, IF q.kind = "ask" THEN "declined" ELSE "template")
        BY <3>3 DEF AfterDraft
      <4> QED
        BY <4>1, <2>1, <1>d
    <3> QED
      BY <3>1, <3>2, <3>3
  <2>3. /\ Knows(d) /\ d.own = q.own /\ d.loaded = q.loaded /\ d.kind = q.kind
        /\ \/ d.at = "done"
           \/ d.at = "check" /\ d.attempt = q.attempt + 1
    <3>1. CASE q.outcome = "draft"
      <4>1. d = Concluded(r, "written")
        BY <3>1, <2>2 DEF AfterDraft
      <4> QED
        BY <4>1, <2>1, <1>d
    <3>2. CASE q.outcome # "draft" /\ q.attempt < MaxAttempts
      <4>1. d = [q EXCEPT !.at = "check", !.attempt = q.attempt + 1, !.outcome = "none"]
        BY <3>2, <2>2 DEF AfterDraft
      <4>2. Knows(d)
        BY <4>1, <3>2, <2>1, <1>0 DEF Knows, Request
      <4> QED
        BY <4>1, <4>2 DEF Request
    <3>3. CASE q.outcome # "draft" /\ ~(q.attempt < MaxAttempts)
      <4>1. d = Concluded(r, IF q.kind = "ask" THEN "declined" ELSE "template")
        BY <3>3, <2>2 DEF AfterDraft
      <4> QED
        BY <4>1, <2>1, <1>d
    <3> QED
      BY <3>1, <3>2, <3>3
  <2> DEFINE x == [d EXCEPT !.own = d.own + 1]
  <2>4. request' = [request EXCEPT ![r] = x]
    BY <1>9, <2>2 DEF RecordSpend
  <2>5. x \in Request /\ Knows(x)
    BY <2>2, <2>3 DEF Knows, Request
  <2>6. /\ x.own = q.own + 1 /\ x.loaded = q.loaded /\ x.kind = q.kind
        /\ \/ x.at = "done"
           \/ x.at = "check" /\ x.attempt = q.attempt + 1
    BY <2>2, <2>3 DEF Request
  <2>7. Follows(r, x)
    <3> HIDE DEF x
    <3>1. CallsFollow(r, x)
      <4>1. q.attempt \in Nat
        BY DEF Request
      <4> QED
        BY <4>1, <2>1, <2>6, <1>0 DEF CallsFollow, MayPay
    <3> QED
      BY <3>1, <2>1, <2>6, <1>0 DEF Follows, SpendFollows, ChargeFollows, LoadFollows, InCall, Charging
  <2> QED
    BY <1>r, <2>1, <2>4, <2>5, <2>7
<1>10. CASE ReadAllowance(r)
  <2>1. /\ q.at = "done" /\ q.outcome = "written" /\ q.kind \in {"rewrite", "ask", "simulate"} /\ Kept /\ paid' = paid
        /\ used[Metric(r)] + q.cost <= Allowance[Metric(r)[1]]
    BY <1>10 DEF ReadAllowance, AtStep, counters, stored
  <2>2. Metric(r) \in Metrics \X Periods
    BY DEF Metric, Metrics, Periods, Request
  <2>3. PICK n \in Nat : n = used[Metric(r)]
    BY <2>2 DEF TypeOK
  <2> DEFINE x == [q EXCEPT !.at = "consume", !.seen = n]
  <2>4. request' = [request EXCEPT ![r] = x]
    BY <1>10, <2>3 DEF ReadAllowance
  <2>5. x \in Request /\ Knows(x)
    BY <1>0, <2>1 DEF Knows, Request, Steps
  <2>6. x.at = "consume" /\ x.seen = n /\ x.own = q.own /\ x.loaded = q.loaded /\ SameUse(r, x)
    BY DEF Request, SameUse
  <2>7. Follows(r, x)
    <3> HIDE DEF x
    <3>1. Charging(x) /\ ~Charging(q)
      BY <2>1, <2>5, <2>6, <1>0, <1>i DEF Charging, SameUse
    <3> QED
      BY <3>1, <2>1, <2>3, <2>6 DEF Follows, SpendFollows, CallsFollow, ChargeFollows, LoadFollows, InCall, MayPay
  <2> QED
    BY <1>r, <2>1, <2>4, <2>5, <2>7
<1>g. ASSUME NEW x \in Request, x.kind = q.kind, x.gw = q.gw, x.cost = q.cost, x.seen = q.seen, x.own = q.own,
             x.at \in {"store", "month"}, q.at = "consume" \/ q.kind = "brief",
             LoadFollows(r, x), paid' = paid
      PROVE  Follows(r, x)
  BY <1>0, <1>g, <1>i DEF Follows, SpendFollows, CallsFollow, ChargeFollows, SameUse, InCall, MayPay, Charging
<1>11. CASE ChargeDay(r)
  <2>1. q.at = "consume" /\ q.kind = "ask" /\ Kept /\ paid' = paid
    BY <1>11 DEF ChargeDay, AtStep, counters, stored
  <2> DEFINE x == [q EXCEPT !.at = "month"]
  <2>2. request' = [request EXCEPT ![r] = x]
    BY <1>11 DEF ChargeDay
  <2>3. x \in Request /\ Knows(x)
    BY <1>0, <2>1 DEF Knows, Request, Steps
  <2>4. /\ x.kind = q.kind /\ x.gw = q.gw /\ x.cost = q.cost /\ x.seen = q.seen /\ x.own = q.own
        /\ x.at = "month" /\ x.loaded = q.loaded
    BY DEF Request
  <2>5. Follows(r, x)
    <3> HIDE DEF x
    <3> QED
      BY <2>1, <2>3, <2>4, <1>g DEF LoadFollows
  <2> QED
    BY <1>r, <2>1, <2>2, <2>3, <2>5
<1>12. CASE LoadForBrief(r) \/ LoadForRewrite(r)
  <2>1. (q.kind = "brief" \/ (q.kind = "rewrite" /\ q.at = "consume")) /\ Kept /\ paid' = paid
    BY <1>12 DEF LoadForBrief, LoadForRewrite, AtStep, counters, stored
  <2>2. brief[q.gw] \in Brief \cup {None} /\ q.gw \in Gameweeks
    BY DEF TypeOK, Request
  <2>3. Loaded(r) \in Brief \cup {None} /\ Loaded(r) \in {q.loaded, brief[q.gw]}
    BY <2>2 DEF Loaded, Request
  <2>4. PICK row \in Brief \cup {None} : /\ request' = [request EXCEPT ![r] = [q EXCEPT !.at = "store", !.loaded = row]]
                                         /\ row \in {q.loaded, brief[q.gw]}
    <3>1. CASE LoadForBrief(r)
      <4>1. request' = [request EXCEPT ![r] = [q EXCEPT !.at = "store", !.loaded = Loaded(r)]]
        BY <3>1 DEF LoadForBrief
      <4> QED
        BY <4>1, <2>3
    <3>2. CASE LoadForRewrite(r)
      <4>1. request' = [request EXCEPT ![r] = [q EXCEPT !.at = "store", !.loaded = brief[q.gw]]]
        BY <3>2 DEF LoadForRewrite
      <4> QED
        BY <4>1, <2>2
    <3> QED
      BY <1>12, <3>1, <3>2
  <2> DEFINE x == [q EXCEPT !.at = "store", !.loaded = row]
  <2>5. x \in Request /\ Knows(x)
    BY <1>0, <2>1 DEF Knows, Request, Steps
  <2>6. /\ x.kind = q.kind /\ x.gw = q.gw /\ x.cost = q.cost /\ x.seen = q.seen /\ x.own = q.own
        /\ x.at = "store" /\ x.loaded = row
    BY DEF Request
  <2>7. Follows(r, x)
    <3> HIDE DEF x
    <3> QED
      BY <2>1, <2>2, <2>4, <2>5, <2>6, <1>g DEF LoadFollows
  <2> QED
    BY <1>r, <2>1, <2>4, <2>5, <2>7
<1> QED
  BY <1>1, <1>2, <1>3, <1>4, <1>5, <1>6, <1>7, <1>8, <1>9, <1>10, <1>11, <1>12 DEF Proceed

(* Every request about a metric of a period. *)
LEMMA MetricTyped ==
  ASSUME TypeOK, NEW r \in Requests, request[r] # Idle
  PROVE  Metric(r) \in (Metrics \ {"gaffer_month"}) \X Periods /\ Consumed(r) \in Nat
<1> PICK q \in Request : q = request[r]
  BY TheRequest
<1>1. Metric(r) \in (Metrics \ {"gaffer_month"}) \X Periods
  <2>1. q.gw \in Periods /\ Today \in Periods
    BY DEF Request, Periods
  <2> QED
    BY <2>1 DEF Metric, Metrics
<1>2. used[Metric(r)] \in Nat
  BY <1>1 DEF TypeOK
<1> QED
  BY <1>1, <1>2 DEF Consumed, Request

(* A brief as _write_brief fills it. *)
LEMMA WrittenTyped ==
  ASSUME TypeOK, NEW r \in Requests, request[r] # Idle, NEW id \in Nat
  PROVE  Written(r, id) \in Brief
<1> PICK q \in Request : q = request[r]
  BY TheRequest
<1>1. q.from \in 0..MaxRun
  BY DEF Request
<1>2. Words(r) \in Content
  BY <1>1 DEF Words, Content
<1> QED
  BY <1>1, <1>2 DEF Written, Brief

(* An update of the columns that differ leaves a brief. *)
LEMMA UpdateTyped ==
  ASSUME TypeOK, NEW new \in Brief, NEW old \in Brief, NEW row \in Brief
  PROVE  LET merged == [c \in DOMAIN new |-> IF new[c] = old[c] THEN row[c] ELSE new[c]]
         IN /\ merged \in Brief
            /\ merged.id = IF new.id = old.id THEN row.id ELSE new.id
            /\ merged.is_fallback = IF new.is_fallback = old.is_fallback THEN row.is_fallback ELSE new.is_fallback
            /\ merged.from = IF new.from = old.from THEN row.from ELSE new.from
            /\ merged.content = IF new.content = old.content THEN row.content ELSE new.content
<1> DEFINE merged == [c \in DOMAIN new |-> IF new[c] = old[c] THEN row[c] ELSE new[c]]
<1>1. DOMAIN new = {"id", "is_fallback", "from", "content"}
  BY DEF Brief
<1>2. merged.id = IF new.id = old.id THEN row.id ELSE new.id
  BY <1>1
<1>3. merged.is_fallback = IF new.is_fallback = old.is_fallback THEN row.is_fallback ELSE new.is_fallback
  BY <1>1
<1>4. merged.from = IF new.from = old.from THEN row.from ELSE new.from
  BY <1>1
<1>5. merged.content = IF new.content = old.content THEN row.content ELSE new.content
  BY <1>1
<1>6. merged = [id |-> merged.id, is_fallback |-> merged.is_fallback, from |-> merged.from, content |-> merged.content]
  BY <1>1
<1> HIDE DEF merged
<1>7. merged.id \in Nat /\ merged.is_fallback \in BOOLEAN /\ merged.from \in 0..MaxRun /\ merged.content \in Content
  BY <1>2, <1>3, <1>4, <1>5 DEF Brief
<1>8. merged \in Brief
  BY <1>6, <1>7 DEF Brief
<1> QED
  BY <1>2, <1>3, <1>4, <1>5, <1>8 DEF merged

(* The rest of the state keeps its types when a request goes on. *)
LEMMA ProceedTyped ==
  ASSUME TypeOK, RequestKnows, NEW r \in Requests, Proceed(r)
  PROVE  TypeOK' /\ RequestKnows' /\ UNCHANGED <<gameweek, run, hits>>
<1>1. UNCHANGED <<gameweek, run, admitted, failures, hits>>
  BY DEF Proceed, ServeStored, StartBrief, StartRewrite, StartAsk, StartScenarios, Refused, CheckCap, ProviderDrafts,
     ProviderFails, RecordSpend, ReadAllowance, AllowanceSpent, ScoreScenarios, IllegalMove, ChargeDay, Answer, MonthSpent,
     Decline, GafferUnavailable, RewriteFailed, LoadForBrief, LoadForRewrite, FirstBrief, UpdateBrief, KeepBrief,
     ReplaceBrief, Conflict, Rollback, clock, bounds
<1>2. request' \in [Requests -> Request \cup {Idle}] /\ RequestKnows'
  BY <1>1, EndsOrGoesOn, RequestGoesOn DEF EndsAs, Ends, GoesOn, Sound
<1>3. request[r] # Idle
  BY DEF Proceed, ServeStored, StartBrief, StartRewrite, StartAsk, StartScenarios, Refused, CheckCap, ProviderDrafts,
     ProviderFails, RecordSpend, ReadAllowance, AllowanceSpent, ScoreScenarios, IllegalMove, ChargeDay, Answer, MonthSpent,
     Decline, GafferUnavailable, RewriteFailed, LoadForBrief, LoadForRewrite, FirstBrief, UpdateBrief, KeepBrief,
     ReplaceBrief, Conflict, AtStep
<1> PICK q \in Request : q = request[r]
  BY <1>3, TheRequest
<1>4. spend' \in Nat
  <2>1. spend \in Nat /\ q.own \in Nat
    BY DEF TypeOK, Request
  <2>2. spend' = spend \/ spend' = spend + q.own
    BY DEF Proceed, ServeStored, StartBrief, StartRewrite, StartAsk, StartScenarios, Refused, CheckCap, ProviderDrafts,
     ProviderFails, RecordSpend, ReadAllowance, AllowanceSpent, ScoreScenarios, IllegalMove, ChargeDay, Answer, MonthSpent,
     Decline, GafferUnavailable, RewriteFailed, LoadForBrief, LoadForRewrite, FirstBrief, UpdateBrief, KeepBrief,
     ReplaceBrief, Conflict, Rollback, StoreBrief, Commit
  <2> QED
    BY <2>1, <2>2
<1>5. paid' \in Nat
  <2>1. paid' = paid \/ paid' = paid + 1
    BY DEF Proceed, ServeStored, StartBrief, StartRewrite, StartAsk, StartScenarios, Refused, CheckCap, ProviderDrafts,
     ProviderFails, RecordSpend, ReadAllowance, AllowanceSpent, ScoreScenarios, IllegalMove, ChargeDay, Answer, MonthSpent,
     Decline, GafferUnavailable, RewriteFailed, LoadForBrief, LoadForRewrite, FirstBrief, UpdateBrief, KeepBrief,
     ReplaceBrief, Conflict, Rollback
  <2> QED
    BY <2>1 DEF TypeOK
<1>6. used' \in [Metrics \X Periods -> Nat] /\ delivered' \in [Metrics \X Periods -> Nat]
  <2>0. used \in [Metrics \X Periods -> Nat] /\ delivered \in [Metrics \X Periods -> Nat]
    BY DEF TypeOK
  <2>1. CASE UNCHANGED <<used, delivered>>
    BY <2>0, <2>1
  <2>2. CASE Charge(r, Metric(r), Consumed(r))
    <3>1. PICK m \in Metrics \X Periods, n \in Nat : m = Metric(r) /\ n = Consumed(r)
      BY <1>3, MetricTyped
    <3>2. q.cost \in Nat
      BY DEF Request
    <3> QED
      BY <2>0, <2>2, <3>1, <3>2 DEF Charge
  <2>3. CASE Answer(r)
    <3>1. PICK m \in Metrics \X Periods, n \in Nat : m = Metric(r) /\ n = Consumed(r)
      BY <1>3, MetricTyped
    <3>2. Month \in Metrics \X Periods
      BY DEF Month, Metrics, Periods
    <3>3. used' = [used EXCEPT ![m] = n, ![Month] = @ + 1]
      BY <2>3, <3>1 DEF Answer
    <3>4. delivered' = [delivered EXCEPT ![m] = @ + 1, ![Month] = @ + 1]
      BY <2>3, <3>1 DEF Answer
    <3> QED
      BY <2>0, <3>2, <3>3, <3>4
  <2> QED
    BY <2>1, <2>2, <2>3
     DEF Proceed, ServeStored, StartBrief, StartRewrite, StartAsk, StartScenarios, Refused, CheckCap, ProviderDrafts,
     ProviderFails, RecordSpend, ReadAllowance, AllowanceSpent, ScoreScenarios, IllegalMove, ChargeDay, MonthSpent,
     Decline, GafferUnavailable, RewriteFailed, LoadForBrief, LoadForRewrite, FirstBrief, UpdateBrief, KeepBrief,
     ReplaceBrief, Conflict, Rollback, counters
<1>7. brief' \in [Gameweeks -> Brief \cup {None}] /\ rows' \in Nat /\ raced' \in BOOLEAN
  <2>0. brief \in [Gameweeks -> Brief \cup {None}] /\ rows \in Nat /\ raced \in BOOLEAN /\ q.gw \in Gameweeks
    BY DEF TypeOK, Request
  <2>1. CASE UNCHANGED <<brief, rows, raced>>
    BY <2>0, <2>1
  <2>2. CASE FirstBrief(r) \/ ReplaceBrief(r)
    <3>1. PICK b \in Brief : b = Written(r, rows + 1)
      BY <2>0, <1>3, WrittenTyped
    <3>2. brief' = [brief EXCEPT ![q.gw] = b] /\ rows' = rows + 1 /\ raced' = raced
      BY <2>2, <3>1 DEF FirstBrief, ReplaceBrief, StoreBrief
    <3> QED
      BY <2>0, <3>2
  <2>3. CASE UpdateBrief(r)
    <3>1. q.loaded \in Brief /\ brief[q.gw] \in Brief
      BY <2>0, <2>3 DEF UpdateBrief, SameRow, Request
    <3>2. q.loaded.id \in Nat
      BY <3>1 DEF Brief
    <3>3. PICK new \in Brief : new = Written(r, q.loaded.id)
      BY <3>2, <1>3, WrittenTyped
    <3>a. PICK old \in Brief, row \in Brief : old = q.loaded /\ row = brief[q.gw]
      BY <3>1
    <3>4. PICK b \in Brief : b = [c \in DOMAIN new |-> IF new[c] = old[c] THEN row[c] ELSE new[c]]
      BY UpdateTyped
    <3>5. /\ brief' = [brief EXCEPT ![q.gw] = b] /\ rows' = rows
          /\ raced' = (raced \/ brief[q.gw] # q.loaded)
      BY <2>3, <3>3, <3>a, <3>4 DEF UpdateBrief, StoreBrief
    <3> QED
      BY <2>0, <3>5
  <2> QED
    BY <2>1, <2>2, <2>3
     DEF Proceed, ServeStored, StartBrief, StartRewrite, StartAsk, StartScenarios, Refused, CheckCap, ProviderDrafts,
     ProviderFails, RecordSpend, ReadAllowance, AllowanceSpent, ScoreScenarios, IllegalMove, ChargeDay, Answer, MonthSpent,
     Decline, GafferUnavailable, RewriteFailed, LoadForBrief, LoadForRewrite, KeepBrief,
     Conflict, Rollback, stored
<1> QED
  BY <1>1, <1>2, <1>4, <1>5, <1>6, <1>7 DEF TypeOK

(* RateLimiter.check lets in a request with an attempt before it. *)
LEMMA AdmitIsSound ==
  ASSUME TypeOK, RequestKnows, NEW r \in Requests, NEW k \in Kinds, Admit(r, k)
  PROVE  \E x \in Request : /\ Knows(x) /\ request' = [request EXCEPT ![r] = x]
                            /\ x.kind = k /\ x.at = "start" /\ x.attempt = 1 /\ x.own = 0 /\ x.loaded = None
<1>1. PICK c \in IF k = "simulate" THEN 1..MaxCost ELSE {1} :
       request' = [request EXCEPT ![r] =
         [kind |-> k, at |-> "start", run0 |-> run, gw |-> gameweek,
          from |-> 0, loaded |-> None, attempt |-> 1, provider |-> 1, outcome |-> "none",
          seen |-> 0, cost |-> c, own |-> 0]]
  BY DEF Admit
<1> DEFINE x == [kind |-> k, at |-> "start", run0 |-> run, gw |-> gameweek,
                 from |-> 0, loaded |-> None, attempt |-> 1, provider |-> 1, outcome |-> "none",
                 seen |-> 0, cost |-> c, own |-> 0]
<1>2. c \in Nat /\ c >= 1 /\ (k # "simulate" => c = 1)
  BY <1>1, WriterAssumption
<1>3. run \in 0..MaxRun /\ gameweek \in Gameweeks /\ 0 \in 0..MaxRun
  BY WriterAssumption DEF TypeOK
<1>4. x \in Request
  BY <1>2, <1>3 DEF Request, Steps
<1>5. Knows(x)
  BY <1>2, <1>3, WriterAssumption DEF Knows
<1> QED
  BY <1>1, <1>4, <1>5

(* What every step but a request's own leaves alone, and what it does. *)
LEMMA TypeKept ==
  TypeOK /\ RequestKnows /\ [Next]_vars => TypeOK' /\ RequestKnows'
<1> SUFFICES ASSUME TypeOK, RequestKnows, [Next]_vars PROVE TypeOK' /\ RequestKnows'
  OBVIOUS
<1>1. CASE UNCHANGED vars
  <2>1. UNCHANGED <<gameweek, run, hits, used, spend, brief, rows, request, admitted, failures, delivered, paid, raced>>
    BY <1>1 DEF vars, clock, counters, stored, bounds
  <2> QED
    BY <2>1 DEF TypeOK, RequestKnows, Knows
<1>2. CASE Simulated
  <2>1. /\ run' = run + 1 /\ run < MaxRun
        /\ UNCHANGED <<gameweek, hits, used, spend, brief, rows, request, admitted, failures, delivered, paid, raced>>
    BY <1>2 DEF Simulated, counters, stored, bounds
  <2>2. run' \in 0..MaxRun
    BY <2>1, WriterAssumption DEF TypeOK
  <2>3. TypeOK'
    BY <2>1, <2>2 DEF TypeOK
  <2>4. ASSUME NEW r \in Requests, request'[r] # Idle PROVE Knows(request[r])'
    <3>1. PICK q \in Request : q = request[r]
      BY <2>1, <2>4, TheRequest
    <3> QED
      BY <2>1, <2>4, <3>1 DEF Knows, RequestKnows, Request, TypeOK
  <2> QED
    BY <2>3, <2>4 DEF RequestKnows
<1>3. CASE DeadlinePasses
  <2>1. /\ gameweek' = gameweek + 1 /\ gameweek < MaxGameweek
        /\ UNCHANGED <<run, hits, used, spend, brief, rows, request, admitted, failures, delivered, paid, raced>>
    BY <1>3 DEF DeadlinePasses, counters, stored, bounds
  <2>2. gameweek' \in Gameweeks
    BY <2>1, WriterAssumption DEF TypeOK, Gameweeks
  <2> QED
    BY <2>1, <2>2 DEF TypeOK, RequestKnows, Knows
<1>4. ASSUME NEW r \in Requests, NEW k \in Kinds, Admit(r, k) PROVE TypeOK' /\ RequestKnows'
  <2>1. /\ admitted < MaxRequests /\ admitted' = admitted + 1 /\ hits' = [hits EXCEPT ![k] = @ + 1]
        /\ UNCHANGED <<gameweek, run, used, spend, brief, rows, failures, delivered, paid, raced>>
    BY <1>4 DEF Admit, clock, counters, stored
  <2>2. hits' \in [Kinds -> Nat] /\ admitted' \in 0..MaxRequests
    BY <2>1, WriterAssumption DEF TypeOK
  <2>3. request' \in [Requests -> Request \cup {Idle}] /\ RequestKnows'
    BY <2>1, <1>4, AdmitIsSound, RequestGoesOn DEF Sound
  <2> QED
    BY <2>1, <2>2, <2>3 DEF TypeOK
<1>5. ASSUME NEW r \in Requests, RequestFails(r) PROVE TypeOK' /\ RequestKnows'
  <2>1. /\ failures < MaxFailures /\ failures' = failures + 1 /\ request' = [request EXCEPT ![r] = Idle]
        /\ UNCHANGED <<gameweek, run, hits, used, spend, brief, rows, admitted, delivered, paid, raced>>
    BY <1>5 DEF RequestFails, Rollback, Ends, clock, counters, stored
  <2>2. failures' \in 0..MaxFailures
    BY <2>1, WriterAssumption DEF TypeOK
  <2>3. request' \in [Requests -> Request \cup {Idle}] /\ RequestKnows'
    BY <2>1, RequestGoesOn DEF Sound
  <2> QED
    BY <2>1, <2>2, <2>3 DEF TypeOK
<1> QED
  BY <1>1, <1>2, <1>3, <1>4, <1>5, ProceedTyped DEF Next

(* Every variable keeps its type, and every request knows what it should at  *)
(* the step it has reached, for any requests at the same time.               *)
THEOREM WriterTypeCorrect == Spec => []TypeOK
<1>1. Init => TypeOK /\ RequestKnows
  BY TypeStarts DEF Init, RequestKnows
<1> QED
  BY <1>1, TypeKept, PTL DEF Spec

-----------------------------------------------------------------------------
(* A set of requests with one of them put in or taken out. *)
LEMMA RequestsCounted ==
  ASSUME NEW r \in Requests, NEW C \in SUBSET Requests
  PROVE  /\ IsFiniteSet(C) /\ Cardinality(C) \in Nat /\ Cardinality(Requests) \in Nat
         /\ Cardinality(C) <= Cardinality(Requests)
         /\ Cardinality(C) = Cardinality(Requests) => C = Requests
         /\ Cardinality(C \ {r}) = IF r \in C THEN Cardinality(C) - 1 ELSE Cardinality(C)
         /\ Cardinality(C \cup {r}) = IF r \in C THEN Cardinality(C) ELSE Cardinality(C) + 1
<1>1. IsFiniteSet(Requests)
  BY WriterAssumption
<1>2. IsFiniteSet(C) /\ Cardinality(C) <= Cardinality(Requests) /\ (Cardinality(C) = Cardinality(Requests) => C = Requests)
  BY <1>1, FS_Subset
<1>3. Cardinality(C) \in Nat /\ Cardinality(Requests) \in Nat
  BY <1>1, <1>2, FS_CardinalityType
<1> QED
  BY <1>2, <1>3, FS_AddElement, FS_RemoveElement

(* The arithmetic of the cap: one request ends, goes on, passes the check, or *)
(* records its call while nobody else holds spend.                          *)
LEMMA CapArithmetic ==
  ASSUME NEW own \in [Requests -> Nat], NEW r \in Requests, NEW n \in Nat, NEW s \in Nat, NEW t \in Nat,
         NEW C \in SUBSET Requests, NEW D \in SUBSET Requests, D = C \ {r} \/ D = C \cup {r},
         Within(s, own, C),
         \/ r \notin D /\ n = 0 /\ t \in {s, s + own[r]}
         \/ t = s /\ n = own[r] /\ (r \in D => r \in C)
         \/ t = s /\ n = own[r] /\ s + own[r] < Cap
         \/ t = s /\ n = own[r] + 1 /\ r \in C /\ r \notin D /\ \A q \in Requests \ {r} : own[q] = 0
  PROVE  Within(t, [own EXCEPT ![r] = n], D)
<1> DEFINE new == [own EXCEPT ![r] = n]
<1>0. Cap \in Nat
  BY WriterAssumption
<1>1. \A h \in Requests : own[h] \in Nat /\ new[h] = IF h = r THEN n ELSE own[h]
  OBVIOUS
<1>2. PICK c \in Nat, d \in Nat, size \in Nat : c = Cardinality(C) /\ d = Cardinality(D) /\ size = Cardinality(Requests)
  BY RequestsCounted
<1>3. /\ d <= size /\ c <= size
      /\ r \in D /\ r \notin C => d = c + 1
      /\ r \notin D /\ r \in C => d = c - 1
      /\ (r \in D <=> r \in C) => d = c
      /\ \A h \in Requests : h \notin D => d <= size - 1
  <2>1. /\ Cardinality(C \ {r}) = IF r \in C THEN Cardinality(C) - 1 ELSE Cardinality(C)
        /\ Cardinality(C \cup {r}) = IF r \in C THEN Cardinality(C) ELSE Cardinality(C) + 1
    BY RequestsCounted
  <2>2. d <= size /\ c <= size /\ (d = size => D = Requests)
    BY <1>2, RequestsCounted
  <2>3. d = IF r \in D THEN IF r \in C THEN c ELSE c + 1 ELSE IF r \in C THEN c - 1 ELSE c
    <3>1. CASE D = C \ {r}
      BY <3>1, <1>2, <2>1
    <3>2. CASE D = C \cup {r}
      BY <3>2, <1>2, <2>1
    <3> QED
      BY <3>1, <3>2
  <2>4. \A h \in Requests : h \notin D => d <= size - 1
    BY <2>2
  <2> QED
    BY <2>2, <2>3, <2>4
<1>4. /\ \A q, h \in Requests : own[q] > 0 /\ own[h] > 0 => q = h
      /\ \A h \in Requests : /\ own[h] >= 2 => s + own[h] <= Cap
                             /\ h \in C /\ own[h] >= 1 => s + own[h] <= Cap - 1
                             /\ s + own[h] + c <= Cap - 1 + size
  BY <1>2 DEF Within
<1> HIDE DEF new
<1>5. ASSUME NEW q \in Requests, NEW h \in Requests, new[q] > 0, new[h] > 0 PROVE q = h
  BY <1>0, <1>1, <1>4, <1>5
<1>6. ASSUME NEW h \in Requests
      PROVE  /\ new[h] >= 2 => t + new[h] <= Cap
             /\ h \in D /\ new[h] >= 1 => t + new[h] <= Cap - 1
             /\ t + new[h] + d <= Cap - 1 + size
  <2>1. CASE h = r
    BY <2>1, <1>0, <1>1, <1>3, <1>4
  <2>2. CASE h # r
    <3>1. new[h] = own[h] /\ own[h] \in Nat /\ own[r] \in Nat /\ (h \in D <=> h \in C)
      BY <2>2, <1>1
    <3>2. own[h] > 0 => own[r] = 0
      BY <2>2, <1>1, <1>4
    <3> QED
      BY <3>1, <3>2, <2>2, <1>0, <1>3, <1>4
  <2> QED
    BY <2>1, <2>2
<1> QED
  BY <1>2, <1>5, <1>6 DEF Within, new

(* A request's part of the spend, and of the calls, when it alone moves. *)
LEMMA SpendKept ==
  ASSUME TypeOK, TypeOK', SpendAccounted, NEW r \in Requests, NEW x,
         request' = [request EXCEPT ![r] = x],
         \/ x = Idle /\ spend' \in {spend, spend + Own(r)}
         \/ x \in Request /\ spend' = spend /\ request[r] # Idle /\ SpendFollows(r, x)
         \/ x \in Request /\ spend' = spend /\ request[r] = Idle /\ x.own = 0 /\ ~InCall(x)
  PROVE  SpendAccounted'
<1>1. PICK own \in [Requests -> Nat] : own = [h \in Requests |-> Own(h)]
  BY DEF TypeOK, Own, Request
<1>2. PICK n \in Nat : n = IF x = Idle THEN 0 ELSE x.own
  BY DEF Request
<1>3. \A h \in Requests : request'[h] = IF h = r THEN x ELSE request[h]
  BY DEF TypeOK
<1>4. [h \in Requests |-> Own(h)]' = [own EXCEPT ![r] = n]
  BY <1>1, <1>2, <1>3 DEF Own
<1>5. PICK C \in SUBSET Requests, D \in SUBSET Requests : C = Calling /\ D = Calling'
  BY DEF Calling
<1>6. D = C \ {r} \/ D = C \cup {r}
  BY <1>3, <1>5 DEF Calling
<1>7. /\ r \in C <=> InCall(request[r])
      /\ r \in D <=> InCall(x)
  BY <1>3, <1>5 DEF Calling
<1>8. PICK s \in Nat, t \in Nat : s = spend /\ t = spend'
  BY DEF TypeOK
<1>9. Within(s, own, C)
  BY <1>1, <1>5, <1>8 DEF SpendAccounted
<1>10. \/ r \notin D /\ n = 0 /\ t \in {s, s + own[r]}
       \/ t = s /\ n = own[r] /\ (r \in D => r \in C)
       \/ t = s /\ n = own[r] /\ s + own[r] < Cap
       \/ t = s /\ n = own[r] + 1 /\ r \in C /\ r \notin D /\ \A q \in Requests \ {r} : own[q] = 0
  <2>0. own[r] = Own(r)
    BY <1>1
  <2>1. CASE x = Idle /\ spend' \in {spend, spend + Own(r)}
    BY <2>0, <2>1, <1>2, <1>7, <1>8 DEF InCall
  <2>2. CASE x \in Request /\ spend' = spend /\ request[r] # Idle /\ SpendFollows(r, x)
    <3>1. n = x.own /\ own[r] = request[r].own /\ t = s
      BY <2>0, <2>2, <1>2, <1>8, IdleIsNone DEF Own
    <3>2. SpendRowFree(r) => \A q \in Requests \ {r} : own[q] = 0
      BY <1>1 DEF SpendRowFree, Own
    <3>3. ~WouldExceed(r) => s + own[r] < Cap
      BY <3>1, <1>8, WriterAssumption DEF WouldExceed
    <3> QED
      BY <3>1, <3>2, <3>3, <2>2, <1>7 DEF SpendFollows
  <2>3. CASE x \in Request /\ spend' = spend /\ request[r] = Idle /\ x.own = 0 /\ ~InCall(x)
    <3>1. n = 0 /\ own[r] = 0
      BY <2>0, <2>3, <1>2, IdleIsNone DEF Own
    <3> QED
      BY <3>1, <2>3, <1>7, <1>8
  <2> QED
    BY <2>1, <2>2, <2>3
<1>11. Within(t, [own EXCEPT ![r] = n], D)
  BY <1>6, <1>9, <1>10, CapArithmetic
<1>12. Within(spend, [h \in Requests |-> Own(h)], Calling)'
  BY <1>4, <1>5, <1>8, <1>11 DEF Within
<1> QED
  BY <1>12 DEF SpendAccounted

(* At first nothing is spent and no request is on its way. *)
LEMMA SpendStarts == Init => SpendAccounted
<1> SUFFICES ASSUME Init PROVE SpendAccounted
  OBVIOUS
<1>1. spend = 0 /\ Calling = {} /\ \A r \in Requests : Own(r) = 0
  BY DEF Init, Calling, InCall, Own
<1>2. Cardinality({}) = 0
  BY FS_EmptySet
<1>3. ASSUME NEW r \in Requests PROVE Cardinality(Requests) \in Nat /\ Cardinality(Requests) >= 1
  <2>1. Requests # {} /\ IsFiniteSet(Requests)
    BY <1>3, WriterAssumption
  <2> QED
    BY <2>1, FS_EmptySet, FS_CardinalityType
<1> QED
  BY <1>1, <1>2, <1>3, WriterAssumption DEF SpendAccounted, Within

(* Every step of the specification keeps the account of the spend.           *)
LEMMA SpendStep ==
  TypeOK /\ RequestKnows /\ SpendAccounted /\ [Next]_vars => SpendAccounted'
<1> SUFFICES ASSUME TypeOK, RequestKnows, SpendAccounted, [Next]_vars PROVE SpendAccounted'
  OBVIOUS
<1>0. TypeOK'
  BY TypeKept
<1>1. CASE UNCHANGED <<spend, request>>
  BY <1>1 DEF SpendAccounted, Within, Calling, InCall, Own
<1>2. CASE UNCHANGED vars \/ Simulated \/ DeadlinePasses
  BY <1>1, <1>2 DEF vars, Simulated, DeadlinePasses
<1>3. ASSUME NEW r \in Requests, NEW k \in Kinds, Admit(r, k) PROVE SpendAccounted'
  <2>1. spend' = spend /\ request[r] = Idle
    BY <1>3 DEF Admit
  <2> QED
    BY <1>0, <1>3, <2>1, AdmitIsSound, SpendKept DEF InCall
<1>4. ASSUME NEW r \in Requests, RequestFails(r) PROVE SpendAccounted'
  <2>1. spend' = spend /\ request' = [request EXCEPT ![r] = Idle]
    BY <1>4 DEF RequestFails, Rollback, Ends
  <2> QED
    BY <1>0, <2>1, SpendKept
<1>5. ASSUME NEW r \in Requests, Proceed(r) PROVE SpendAccounted'
  <2>1. request[r] # Idle /\ (EndsAs(r) \/ GoesOn(r))
    BY <1>5, EndsOrGoesOn
  <2>2. CASE EndsAs(r)
    BY <1>0, <2>1, <2>2, SpendKept DEF EndsAs, Ends, Own
  <2>3. CASE GoesOn(r)
    BY <1>0, <2>1, <2>3, SpendKept DEF GoesOn, Follows
  <2> QED
    BY <2>1, <2>2, <2>3
<1> QED
  BY <1>2, <1>3, <1>4, <1>5 DEF Next

(* The cap is read before a call and written after it, so concurrent calls   *)
(* pass it together, by no more than one call for each request beyond the    *)
(* first: for any cap, requests at the same time, attempts and providers.    *)
THEOREM CapOvershootBoundedAlways == Spec => []CapOvershootBounded
<1>1. TypeOK /\ SpendAccounted => CapOvershootBounded
  <2> SUFFICES ASSUME TypeOK, SpendAccounted, spend > 0
               PROVE  spend <= Cap - 1 + Cardinality(Requests)
    BY DEF CapOvershootBounded
  <2>1. PICK r \in Requests : TRUE
    BY DEF SpendAccounted
  <2>2. Own(r) \in Nat
    BY DEF TypeOK, Own, Request
  <2>3. Calling \in SUBSET Requests
    BY DEF Calling
  <2>4. Cardinality(Calling) \in Nat /\ Cardinality(Requests) \in Nat
    BY <2>3, RequestsCounted
  <2>5. spend + Own(r) + Cardinality(Calling) <= Cap - 1 + Cardinality(Requests)
    BY DEF SpendAccounted, Within
  <2> QED
    BY <2>2, <2>4, <2>5, WriterAssumption DEF TypeOK
<1>2. Init => TypeOK /\ RequestKnows /\ SpendAccounted
  BY TypeStarts, SpendStarts DEF Init, RequestKnows
<1> QED
  BY <1>1, <1>2, TypeKept, SpendStep, PTL DEF Spec

-----------------------------------------------------------------------------
(* The calls that requests may still pay for are finitely many. *)
LEMMA ToPayCounted ==
  /\ IsFiniteSet(Requests \X (1..MaxAttempts))
  /\ \A S \in SUBSET (Requests \X (1..MaxAttempts)) : IsFiniteSet(S) /\ Cardinality(S) \in Nat
  /\ \A r \in Requests : /\ IsFiniteSet({r} \X (1..MaxAttempts))
                         /\ Cardinality({r} \X (1..MaxAttempts)) = MaxAttempts
<1>1. MaxAttempts \in Nat /\ IsFiniteSet(Requests)
  BY WriterAssumption
<1>2. IsFiniteSet(1..MaxAttempts) /\ Cardinality(1..MaxAttempts) = MaxAttempts
  BY <1>1, FS_Interval
<1>3. IsFiniteSet(Requests \X (1..MaxAttempts))
  BY <1>1, <1>2, FS_Product
<1>4. \A S \in SUBSET (Requests \X (1..MaxAttempts)) : IsFiniteSet(S) /\ Cardinality(S) \in Nat
  BY <1>3, FS_Subset, FS_CardinalityType
<1>5. ASSUME NEW r \in Requests
      PROVE  /\ IsFiniteSet({r} \X (1..MaxAttempts))
             /\ Cardinality({r} \X (1..MaxAttempts)) = MaxAttempts
  <2>1. IsFiniteSet({r}) /\ Cardinality({r}) = 1
    BY FS_Singleton
  <2>2. /\ IsFiniteSet({r} \X (1..MaxAttempts))
        /\ Cardinality({r} \X (1..MaxAttempts)) = Cardinality({r}) * Cardinality(1..MaxAttempts)
    BY <2>1, <1>2, FS_Product
  <2> QED
    BY <2>1, <2>2, <1>1, <1>2
<1> QED
  BY <1>3, <1>4, <1>5

(* What a request that alone moves does to the calls that may be paid for. *)
LEMMA ToPayMoved ==
  ASSUME TypeOK, NEW r \in Requests, NEW x, request' = [request EXCEPT ![r] = x]
  PROVE  /\ ToPay \in SUBSET (Requests \X (1..MaxAttempts)) /\ ToPay' \in SUBSET (Requests \X (1..MaxAttempts))
         /\ \A s \in ToPay' : s \in ToPay \/ (s \in {r} \X (1..MaxAttempts) /\ MayPay(x, s[2]))
         /\ \A a \in 1..MaxAttempts : MayPay(request[r], a) => <<r, a>> \in ToPay
         /\ \A a \in 1..MaxAttempts : <<r, a>> \in ToPay' => MayPay(x, a)
<1>1. \A h \in Requests : request'[h] = IF h = r THEN x ELSE request[h]
  BY DEF TypeOK
<1>2. ToPay' = {s \in Requests \X (1..MaxAttempts) : MayPay(request'[s[1]], s[2])}
  BY DEF ToPay, MayPay
<1>3. ASSUME NEW s \in ToPay' PROVE s \in ToPay \/ (s \in {r} \X (1..MaxAttempts) /\ MayPay(x, s[2]))
  <2>1. PICK h \in Requests, a \in 1..MaxAttempts : s = <<h, a>>
    BY <1>2
  <2>2. MayPay(request'[h], a)
    BY <1>2, <2>1
  <2>3. CASE h = r
    BY <2>1, <2>2, <2>3, <1>1
  <2>4. CASE h # r
    BY <2>1, <2>2, <2>4, <1>1 DEF ToPay
  <2> QED
    BY <2>3, <2>4
<1>4. ASSUME NEW a \in 1..MaxAttempts, <<r, a>> \in ToPay' PROVE MayPay(x, a)
  BY <1>1, <1>2, <1>4
<1>5. ToPay \in SUBSET (Requests \X (1..MaxAttempts)) /\ ToPay' \in SUBSET (Requests \X (1..MaxAttempts))
  BY <1>2 DEF ToPay
<1> QED
  BY <1>3, <1>4, <1>5 DEF ToPay

(* A step that opens no further call, and pays for none or for one of those  *)
(* that were open.                                                          *)
LEMMA CallsKept ==
  ASSUME TypeOK, TypeOK', CallsAccounted, UNCHANGED hits, NEW r \in Requests, NEW x, request' = [request EXCEPT ![r] = x],
         \/ paid' = paid /\ \A a \in 1..MaxAttempts : MayPay(x, a) => MayPay(request[r], a)
         \/ /\ paid' = paid + 1 /\ request[r] # Idle
            /\ \E a \in 1..MaxAttempts : /\ MayPay(request[r], a) /\ ~MayPay(x, a)
                                         /\ \A b \in 1..MaxAttempts : MayPay(x, b) => MayPay(request[r], b)
  PROVE  CallsAccounted'
<1>1. PICK S \in SUBSET (Requests \X (1..MaxAttempts)), T \in SUBSET (Requests \X (1..MaxAttempts)) :
        S = ToPay /\ T = ToPay'
  BY ToPayMoved
<1>2. T \subseteq S
  <2>1. ASSUME NEW s \in T PROVE s \in S
    <3>1. s \in ToPay \/ (s \in {r} \X (1..MaxAttempts) /\ MayPay(x, s[2]))
      BY <1>1, ToPayMoved
    <3>2. CASE s \in {r} \X (1..MaxAttempts) /\ MayPay(x, s[2])
      <4>1. PICK a \in 1..MaxAttempts : s = <<r, a>>
        BY <3>2
      <4>2. MayPay(request[r], a)
        BY <4>1, <3>2
      <4> QED
        BY <4>1, <4>2, <1>1, ToPayMoved
    <3> QED
      BY <3>1, <3>2, <1>1
  <2> QED
    BY <2>1
<1>3. IsFiniteSet(S) /\ Cardinality(S) \in Nat /\ Cardinality(T) \in Nat /\ Cardinality(T) <= Cardinality(S)
  BY <1>2, ToPayCounted, FS_Subset
<1>4. paid' = paid \/ (paid' = paid + 1 /\ Cardinality(T) <= Cardinality(S) - 1)
  <2>1. CASE paid' = paid + 1 /\ \E a \in 1..MaxAttempts : MayPay(request[r], a) /\ ~MayPay(x, a)
    <3>1. PICK a \in 1..MaxAttempts : MayPay(request[r], a) /\ ~MayPay(x, a)
      BY <2>1
    <3>2. <<r, a>> \in S /\ <<r, a>> \notin T
      BY <3>1, <1>1, ToPayMoved
    <3>3. Cardinality(T) # Cardinality(S)
      BY <3>2, <1>2, <1>3, FS_Subset
    <3> QED
      BY <3>3, <1>3, <2>1
  <2> QED
    BY <2>1
<1>5. PICK calls : calls = MaxAttempts * (hits["brief"] + hits["rewrite"] + hits["ask"])
  OBVIOUS
<1>6. calls \in Int
  BY <1>5, WriterAssumption DEF TypeOK, Kinds
<1>7. paid + Cardinality(S) <= calls
  BY <1>1, <1>5 DEF CallsAccounted
<1>8. paid' + Cardinality(T) <= calls
  BY <1>3, <1>4, <1>6, <1>7 DEF TypeOK
<1> QED
  BY <1>1, <1>5, <1>8 DEF CallsAccounted

(* A request that is let in may pay for MAX_ATTEMPTS calls, and the limiter  *)
(* has counted it; scenarios pay for none.                                  *)
LEMMA CallsAdmitted ==
  ASSUME TypeOK, RequestKnows, CallsAccounted, NEW r \in Requests, NEW k \in Kinds, Admit(r, k)
  PROVE  CallsAccounted'
<1>1. PICK x \in Request : request' = [request EXCEPT ![r] = x] /\ x.kind = k
  BY AdmitIsSound
<1>2. paid' = paid /\ hits' = [hits EXCEPT ![k] = @ + 1]
  BY DEF Admit
<1>3. TypeOK'
  BY TypeKept DEF Next
<1>4. PICK S \in SUBSET (Requests \X (1..MaxAttempts)), T \in SUBSET (Requests \X (1..MaxAttempts)) :
        S = ToPay /\ T = ToPay'
  BY <1>1, ToPayMoved
<1>5. IsFiniteSet(S) /\ Cardinality(S) \in Nat /\ Cardinality(T) \in Nat
  BY ToPayCounted
<1>6. PICK n \in Nat, m \in Nat : /\ n = hits["brief"] + hits["rewrite"] + hits["ask"]
                                  /\ m = hits'["brief"] + hits'["rewrite"] + hits'["ask"]
  BY <1>3 DEF TypeOK, Kinds
<1>7. MaxAttempts \in Nat /\ paid \in Nat
  BY WriterAssumption DEF TypeOK
<1>8. paid + Cardinality(S) <= MaxAttempts * n
  BY <1>4, <1>6 DEF CallsAccounted
<1>9. CASE k = "simulate"
  <2>1. T \subseteq S
    <3>1. \A a \in 1..MaxAttempts : ~MayPay(x, a)
      BY <1>1, <1>9 DEF MayPay
    <3> QED
      BY <3>1, <1>1, <1>4, ToPayMoved, ZenonT(30)
  <2>2. m = n
    BY <1>2, <1>6, <1>9 DEF TypeOK, Kinds
  <2>3. Cardinality(T) <= Cardinality(S)
    BY <2>1, <1>5, FS_Subset
  <2>4. paid + Cardinality(T) <= MaxAttempts * m
    BY <2>2, <2>3, <1>5, <1>7, <1>8
  <2> QED
    BY <2>4, <1>2, <1>4, <1>6 DEF CallsAccounted
<1>10. CASE k # "simulate"
  <2> DEFINE mine == {r} \X (1..MaxAttempts)
  <2>1. T \subseteq S \cup mine
    BY <1>1, <1>4, ToPayMoved
  <2>2. m = n + 1
    <3>1. k \in {"brief", "rewrite", "ask"}
      BY <1>10 DEF Kinds
    <3> QED
      BY <3>1, <1>2, <1>6 DEF TypeOK, Kinds
  <2>3. IsFiniteSet(mine) /\ Cardinality(mine) = MaxAttempts
    BY ToPayCounted
  <2> HIDE DEF mine
  <2>4. /\ IsFiniteSet(S \cup mine)
        /\ Cardinality(S \cup mine) = Cardinality(S) + Cardinality(mine) - Cardinality(S \cap mine)
    BY <2>3, <1>5, FS_Union
  <2>5. Cardinality(S \cap mine) \in Nat
    BY <1>5, FS_Intersection, FS_CardinalityType
  <2>6. Cardinality(T) <= Cardinality(S \cup mine)
    BY <2>1, <2>4, FS_Subset
  <2>7. MaxAttempts * (n + 1) = MaxAttempts * n + MaxAttempts
    BY <1>7
  <2>8. PICK c \in Nat : c = MaxAttempts * n
    BY <1>7
  <2>9. paid + Cardinality(T) <= MaxAttempts * m
    BY <2>2, <2>3, <2>4, <2>5, <2>6, <2>7, <2>8, <1>5, <1>7, <1>8
  <2> QED
    BY <2>9, <1>2, <1>4, <1>6 DEF CallsAccounted
<1> QED
  BY <1>9, <1>10

(* Every step of the specification keeps the account of the model calls.     *)
LEMMA CallsStep ==
  TypeOK /\ RequestKnows /\ CallsAccounted /\ [Next]_vars => CallsAccounted'
<1> SUFFICES ASSUME TypeOK, RequestKnows, CallsAccounted, [Next]_vars PROVE CallsAccounted'
  OBVIOUS
<1>0. TypeOK'
  BY TypeKept
<1>1. CASE UNCHANGED <<paid, request, hits>>
  BY <1>1 DEF CallsAccounted, ToPay, MayPay
<1>2. CASE UNCHANGED vars \/ Simulated \/ DeadlinePasses
  BY <1>1, <1>2 DEF vars, Simulated, DeadlinePasses
<1>3. ASSUME NEW r \in Requests, NEW k \in Kinds, Admit(r, k) PROVE CallsAccounted'
  BY <1>3, CallsAdmitted
<1>4. \A a : ~MayPay(Idle, a)
  BY DEF MayPay
<1>5. ASSUME NEW r \in Requests, RequestFails(r) PROVE CallsAccounted'
  <2>1. paid' = paid /\ hits' = hits /\ request' = [request EXCEPT ![r] = Idle]
    BY <1>5 DEF RequestFails, Rollback, Ends
  <2> QED
    BY <1>0, <1>4, <2>1, CallsKept
<1>6. ASSUME NEW r \in Requests, Proceed(r) PROVE CallsAccounted'
  <2>1. request[r] # Idle /\ (EndsAs(r) \/ GoesOn(r)) /\ hits' = hits
    BY <1>6, EndsOrGoesOn, ProceedTyped
  <2>2. CASE EndsAs(r)
    BY <1>0, <1>4, <2>1, <2>2, CallsKept DEF EndsAs, Ends
  <2>3. CASE GoesOn(r)
    <3>1. PICK x \in Request : request' = [request EXCEPT ![r] = x] /\ CallsFollow(r, x)
      BY <2>3 DEF GoesOn, Follows
    <3>2. PICK q \in Request : q = request[r] /\ q # Idle /\ q.attempt \in 1..MaxAttempts
      BY <2>1, TheRequest DEF RequestKnows, Knows
    <3>3. CASE paid' = paid /\ \A a \in 1..MaxAttempts : MayPay(x, a) => MayPay(request[r], a)
      BY <1>0, <2>1, <3>1, <3>3, CallsKept
    <3>4. CASE /\ paid' = paid + 1 /\ request[r].at = "call" /\ request[r].kind # "simulate"
               /\ x.at = "record" /\ x.attempt = request[r].attempt
      <4>1. MayPay(q, q.attempt) /\ ~MayPay(x, q.attempt)
        BY <3>2, <3>4 DEF MayPay
      <4>2. \A b \in 1..MaxAttempts : MayPay(x, b) => MayPay(q, b)
        BY <3>2, <3>4 DEF MayPay
      <4> QED
        BY <1>0, <2>1, <3>1, <3>2, <3>4, <4>1, <4>2, CallsKept
    <3> QED
      BY <3>1, <3>3, <3>4 DEF CallsFollow
  <2> QED
    BY <2>1, <2>2, <2>3
<1> QED
  BY <1>2, <1>3, <1>5, <1>6 DEF Next

(* What the cap forgets, a rollback after a paid call, the limiter bounds:   *)
(* a request of the day pays for MAX_ATTEMPTS calls at most, for any limits, *)
(* failures and requests at the same time.                                  *)
THEOREM BillBoundedAlways == Spec => []BillBounded
<1>1. TypeOK /\ CallsAccounted => BillBounded
  <2> SUFFICES ASSUME TypeOK, CallsAccounted PROVE BillBounded
    OBVIOUS
  <2>1. PICK n \in Nat : n = Cardinality(ToPay)
    BY ToPayCounted DEF ToPay
  <2>2. PICK calls \in Int : calls = MaxAttempts * (hits["brief"] + hits["rewrite"] + hits["ask"])
    BY WriterAssumption DEF TypeOK, Kinds
  <2>3. paid + n <= calls
    BY <2>1, <2>2 DEF CallsAccounted
  <2>4. paid <= calls
    BY <2>3 DEF TypeOK
  <2> QED
    BY <2>2, <2>4 DEF BillBounded
<1>2. Init => TypeOK /\ RequestKnows /\ CallsAccounted
  <2> SUFFICES ASSUME Init PROVE TypeOK /\ RequestKnows /\ CallsAccounted
    OBVIOUS
  <2>1. TypeOK /\ RequestKnows
    BY TypeStarts DEF Init, RequestKnows
  <2>2. ToPay = {}
    BY DEF Init, ToPay, MayPay
  <2>3. MaxAttempts * (0 + 0 + 0) = 0
    BY WriterAssumption
  <2> QED
    BY <2>1, <2>2, <2>3, FS_EmptySet DEF Init, Kinds, CallsAccounted
<1> QED
  BY <1>1, <1>2, TypeKept, CallsStep, PTL DEF Spec

-----------------------------------------------------------------------------
(* What _write_brief fills in is labelled for what it is. *)
LEMMA WrittenTruthful ==
  ASSUME TypeOK, NEW r \in Requests, request[r] # Idle, NEW id \in Nat
  PROVE  /\ Truthful(Written(r, id))
         /\ Written(r, id).is_fallback <=> Written(r, id).content.by = "template"
         /\ Written(r, id).from = Written(r, id).content.from
         /\ Written(r, id).content.by = IF request[r].outcome = "template" THEN "template" ELSE "writer"
  BY DEF Written, Words, Truthful

(* How a request changes the briefs: not at all; with what it has written,   *)
(* where there was none or as a rewrite; or by updating a template in place. *)
Merges(r, new, old, row, merged) ==
  /\ old = request[r].loaded /\ row = brief[request[r].gw] /\ new = Written(r, old.id)
  /\ old.is_fallback
  /\ merged.is_fallback = IF new.is_fallback = old.is_fallback THEN row.is_fallback ELSE new.is_fallback
  /\ merged.from = IF new.from = old.from THEN row.from ELSE new.from
  /\ merged.content = IF new.content = old.content THEN row.content ELSE new.content
  /\ row = old => merged = new
  /\ brief' = [brief EXCEPT ![request[r].gw] = merged] /\ raced' = (raced \/ row # old)
UpdatesInPlace(r) ==
  \E new \in Brief, old \in Brief, row \in Brief, merged \in Brief : Merges(r, new, old, row, merged)
StoresNew(r) ==
  /\ raced' = raced
  /\ \E id \in Nat : brief' = [brief EXCEPT ![request[r].gw] = Written(r, id)]
  /\ \/ brief[request[r].gw] = None
     \/ /\ request[r].kind = "rewrite" /\ request[r].outcome = "written"
        /\ Metric(r) = <<"brief_regen", request[r].gw>>
        /\ delivered' = [delivered EXCEPT ![Metric(r)] = @ + request[r].cost]

(* An update of the columns that differ, over whatever has been stored in    *)
(* the meantime, does not call the writer's words a template, nor name a     *)
(* simulation the template does not quote.                                  *)
LEMMA UpdateTruthful ==
  ASSUME NEW new \in Brief, NEW old \in Brief, NEW row \in Brief, NEW merged \in Brief,
         Truthful(new), Truthful(old), Truthful(row),
         NEW r \in Requests, Merges(r, new, old, row, merged)
  PROVE  Truthful(merged)
<1>m. /\ merged.is_fallback = IF new.is_fallback = old.is_fallback THEN row.is_fallback ELSE new.is_fallback
      /\ merged.from = IF new.from = old.from THEN row.from ELSE new.from
      /\ merged.content = IF new.content = old.content THEN row.content ELSE new.content
      /\ old.is_fallback
  BY DEF Merges
<1> SUFFICES ASSUME merged.is_fallback PROVE merged.content = [by |-> "template", from |-> merged.from]
  BY DEF Truthful
<1>1. new.is_fallback \in BOOLEAN /\ old.is_fallback \in BOOLEAN /\ row.is_fallback \in BOOLEAN
  BY DEF Brief
<1>2. new.is_fallback /\ row.is_fallback
  BY <1>1, <1>m
<1>3. /\ new.content = [by |-> "template", from |-> new.from]
      /\ old.content = [by |-> "template", from |-> old.from]
      /\ row.content = [by |-> "template", from |-> row.from]
  BY <1>2, <1>m DEF Truthful
<1>4. new.content = old.content <=> new.from = old.from
  <2>1. ASSUME new.content = old.content PROVE new.from = old.from
    <3>1. new.content.from = new.from /\ old.content.from = old.from
      BY <1>3
    <3> QED
      BY <2>1, <3>1
  <2> QED
    BY <1>3, <2>1
<1> QED
  BY <1>3, <1>4, <1>m

(* Each step of a request is one of these. *)
LEMMA BriefMoves ==
  ASSUME TypeOK, RequestKnows, NEW r \in Requests, Proceed(r)
  PROVE  UNCHANGED <<brief, raced>> \/ StoresNew(r) \/ UpdatesInPlace(r)
<1>0. request[r] # Idle
  BY EndsOrGoesOn
<1> PICK q \in Request : q = request[r]
  BY <1>0, TheRequest
<1>1. CASE FirstBrief(r)
  <2>1. brief[q.gw] = None /\ rows + 1 \in Nat
    BY <1>1 DEF FirstBrief, SameRow, TypeOK
  <2>2. brief' = [brief EXCEPT ![q.gw] = Written(r, rows + 1)] /\ raced' = raced
    BY <1>1 DEF FirstBrief, StoreBrief
  <2> QED
    BY <2>1, <2>2 DEF StoresNew
<1>2. CASE ReplaceBrief(r)
  <2>1. rows + 1 \in Nat /\ q.kind = "rewrite" /\ q.at = "store"
    BY <1>2 DEF ReplaceBrief, AtStep, TypeOK
  <2>2. brief' = [brief EXCEPT ![q.gw] = Written(r, rows + 1)] /\ raced' = raced
    BY <1>2 DEF ReplaceBrief, StoreBrief
  <2>3. q.outcome = "written"
    BY <2>1, <1>0 DEF RequestKnows, Knows
  <2>4. Metric(r) = <<"brief_regen", q.gw>>
    BY <2>1 DEF Metric
  <2>5. delivered' = [delivered EXCEPT ![Metric(r)] = @ + request[r].cost]
    BY <1>2 DEF ReplaceBrief, Charge
  <2> QED
    BY <2>1, <2>2, <2>3, <2>4, <2>5 DEF StoresNew
<1>3. CASE UpdateBrief(r)
  <2>1. q.gw \in Gameweeks /\ q.loaded \in Brief \cup {None} /\ brief[q.gw] \in Brief \cup {None}
    BY DEF TypeOK, Request
  <2>2. PICK old \in Brief, row \in Brief : old = q.loaded /\ row = brief[q.gw] /\ row.id = old.id
    BY <2>1, <1>3 DEF UpdateBrief, SameRow
  <2>3. old.is_fallback /\ old.id \in Nat
    BY <1>3, <2>2 DEF UpdateBrief, KeepsInStep, Brief
  <2>4. PICK new \in Brief : new = Written(r, old.id)
    BY <2>3, <1>0, WrittenTyped
  <2>5. PICK merged : merged = [c \in DOMAIN new |-> IF new[c] = old[c] THEN row[c] ELSE new[c]]
    OBVIOUS
  <2>6. /\ merged \in Brief
        /\ merged.is_fallback = IF new.is_fallback = old.is_fallback THEN row.is_fallback ELSE new.is_fallback
        /\ merged.from = IF new.from = old.from THEN row.from ELSE new.from
        /\ merged.content = IF new.content = old.content THEN row.content ELSE new.content
    BY <2>5, UpdateTyped
  <2>7. brief' = [brief EXCEPT ![q.gw] = merged] /\ raced' = (raced \/ row # old)
    BY <1>3, <2>2, <2>4, <2>5 DEF UpdateBrief, StoreBrief
  <2>8. row = old => merged = new
    <3>1. ASSUME row = old PROVE merged = [c \in DOMAIN new |-> new[c]]
      BY <2>5, <3>1
    <3>2. new = [c \in DOMAIN new |-> new[c]]
      BY DEF Brief
    <3> QED
      BY <3>1, <3>2
  <2>9. /\ old = request[r].loaded /\ row = brief[request[r].gw] /\ new = Written(r, old.id) /\ old.is_fallback
        /\ brief' = [brief EXCEPT ![request[r].gw] = merged] /\ raced' = (raced \/ row # old)
    BY <2>2, <2>3, <2>4, <2>7
  <2>10. Merges(r, new, old, row, merged)
    BY <2>6, <2>8, <2>9, Zenon DEF Merges
  <2> QED
    BY <2>6, <2>10 DEF UpdatesInPlace
<1>4. CASE GoesOn(r)
  BY <1>4 DEF GoesOn
<1> QED
  BY <1>1, <1>2, <1>3
     DEF Proceed, ServeStored, StartBrief, StartRewrite, StartAsk, StartScenarios, Refused, CheckCap, ProviderDrafts,
     ProviderFails, RecordSpend, ReadAllowance, AllowanceSpent, ScoreScenarios, IllegalMove, ChargeDay, Answer, MonthSpent,
     Decline, GafferUnavailable, RewriteFailed, LoadForBrief, LoadForRewrite, KeepBrief, Conflict, Rollback, stored

(* The label of a stored brief where no two requests raced. *)
Labelled(b) == /\ b.is_fallback <=> b.content.by = "template"
               /\ b.from = b.content.from

(* Every step of the specification leaves a brief that says who wrote it:    *)
(* the label and the figures are stored with the text, never one without the *)
(* other.                                                                    *)
LEMMA BriefsKept ==
  TypeOK /\ RequestKnows /\ TemplateIsTrue /\ LabelIsTrue /\ [Next]_vars => TemplateIsTrue' /\ LabelIsTrue'
<1> SUFFICES ASSUME TypeOK, RequestKnows, TemplateIsTrue, LabelIsTrue, [Next]_vars
             PROVE  TemplateIsTrue' /\ LabelIsTrue'
  OBVIOUS
<1>0. TypeOK'
  BY TypeKept
<1>1. CASE UNCHANGED <<brief, request, raced>>
  BY <1>1 DEF TemplateIsTrue, LabelIsTrue, Truthful
<1>2. CASE UNCHANGED vars \/ Simulated \/ DeadlinePasses
  BY <1>1, <1>2 DEF vars, stored, Simulated, DeadlinePasses
<1>a. ASSUME NEW r \in Requests, NEW x, request' = [request EXCEPT ![r] = x],
             x = Idle \/ x.loaded = None \/ Truthful(x.loaded)
      PROVE  \A h \in Requests : request'[h] # Idle /\ request'[h].loaded # None => Truthful(request'[h].loaded)
  <2>1. \A h \in Requests : request'[h] = IF h = r THEN x ELSE request[h]
    BY <1>a DEF TypeOK
  <2> QED
    BY <2>1, <1>a DEF TemplateIsTrue
<1>b. ASSUME UNCHANGED <<brief, raced>>,
             \A h \in Requests : request'[h] # Idle /\ request'[h].loaded # None => Truthful(request'[h].loaded)
      PROVE  TemplateIsTrue' /\ LabelIsTrue'
  BY <1>b DEF TemplateIsTrue, LabelIsTrue, Truthful
<1>c. ASSUME NEW g \in Gameweeks, NEW b \in Brief, brief' = [brief EXCEPT ![g] = b], Truthful(b),
             ~raced' => ~raced /\ Labelled(b),
             \A h \in Requests : request'[h] # Idle /\ request'[h].loaded # None => Truthful(request'[h].loaded)
      PROVE  TemplateIsTrue' /\ LabelIsTrue'
  <2>1. \A f \in Gameweeks : brief'[f] = IF f = g THEN b ELSE brief[f]
    BY <1>c DEF TypeOK
  <2>2. TemplateIsTrue'
    BY <2>1, <1>c DEF TemplateIsTrue, Truthful
  <2>3. LabelIsTrue'
    BY <2>1, <1>c DEF LabelIsTrue, Labelled
  <2> QED
    BY <2>2, <2>3
<1>3. ASSUME NEW r \in Requests, NEW k \in Kinds, Admit(r, k) PROVE TemplateIsTrue' /\ LabelIsTrue'
  <2>1. UNCHANGED <<brief, raced>>
    BY <1>3 DEF Admit, stored
  <2>2. PICK x \in Request : request' = [request EXCEPT ![r] = x] /\ x.loaded = None
    BY <1>3, AdmitIsSound
  <2> QED
    BY <2>1, <2>2, <1>a, <1>b
<1>4. ASSUME NEW r \in Requests, RequestFails(r) PROVE TemplateIsTrue' /\ LabelIsTrue'
  <2>1. UNCHANGED <<brief, raced>> /\ request' = [request EXCEPT ![r] = Idle]
    BY <1>4 DEF RequestFails, Rollback, Ends, stored
  <2> QED
    BY <2>1, <1>a, <1>b
<1>5. ASSUME NEW r \in Requests, Proceed(r) PROVE TemplateIsTrue' /\ LabelIsTrue'
  <2>1. request[r] # Idle /\ (EndsAs(r) \/ GoesOn(r))
    BY <1>5, EndsOrGoesOn
  <2> PICK q \in Request : q = request[r]
    BY <2>1, TheRequest
  <2>2. \A h \in Requests : request'[h] # Idle /\ request'[h].loaded # None => Truthful(request'[h].loaded)
    <3>1. CASE EndsAs(r)
      BY <3>1, <1>a DEF EndsAs, Ends
    <3>2. CASE GoesOn(r)
      <4>1. PICK x \in Request : request' = [request EXCEPT ![r] = x] /\ LoadFollows(r, x)
        BY <3>2 DEF GoesOn, Follows
      <4>2. x.loaded = None \/ Truthful(x.loaded)
        BY <4>1, <2>1 DEF LoadFollows, TemplateIsTrue
      <4> QED
        BY <4>1, <4>2, <1>a
    <3> QED
      BY <2>1, <3>1, <3>2
  <2>3. CASE UNCHANGED <<brief, raced>>
    BY <2>2, <2>3, <1>b
  <2>4. CASE StoresNew(r)
    <3>1. PICK id \in Nat : brief' = [brief EXCEPT ![q.gw] = Written(r, id)]
      BY <2>4 DEF StoresNew
    <3>2. PICK b \in Brief : b = Written(r, id)
      BY <2>1, WrittenTyped
    <3>3. Truthful(b) /\ Labelled(b)
      BY <2>1, <3>2, WrittenTruthful DEF Labelled
    <3>4. q.gw \in Gameweeks /\ raced' = raced
      BY <2>4 DEF StoresNew, Request
    <3> QED
      BY <3>1, <3>2, <3>3, <3>4, <2>2, <1>c
  <2>5. CASE UpdatesInPlace(r)
    <3>p. PICK new \in Brief, old \in Brief, row \in Brief, merged \in Brief : Merges(r, new, old, row, merged)
      BY <2>5 DEF UpdatesInPlace
    <3>1. /\ old = request[r].loaded /\ row = brief[request[r].gw] /\ new = Written(r, old.id)
          /\ old.is_fallback
          /\ row = old => merged = new
          /\ brief' = [brief EXCEPT ![request[r].gw] = merged] /\ raced' = (raced \/ row # old)
      BY <3>p DEF Merges
    <3>2. q.gw \in Gameweeks /\ old.id \in Nat
      BY DEF Request, Brief
    <3>3. Truthful(new) /\ Labelled(new)
      BY <2>1, <3>1, <3>2, WrittenTruthful DEF Labelled
    <3>4. Truthful(old) /\ Truthful(row)
      BY <2>1, <3>1, <3>2, NoneAssumption DEF TemplateIsTrue
    <3>5. Truthful(merged)
      BY <3>p, <3>3, <3>4, UpdateTruthful
    <3>6. ~raced' => ~raced /\ Labelled(merged)
      BY <3>1, <3>3
    <3> QED
      BY <3>1, <3>2, <3>5, <3>6, <2>2, <1>c
  <2> QED
    BY <1>5, <2>3, <2>4, <2>5, BriefMoves
<1> QED
  BY <1>2, <1>3, <1>4, <1>5 DEF Next

(* There is no brief at first, so nothing is labelled wrongly.               *)
LEMMA BriefsStart == Init => TypeOK /\ RequestKnows /\ TemplateIsTrue /\ LabelIsTrue
<1> SUFFICES ASSUME Init PROVE TypeOK /\ RequestKnows /\ TemplateIsTrue /\ LabelIsTrue
  OBVIOUS
<1>1. TypeOK /\ RequestKnows
  BY TypeStarts DEF Init, RequestKnows
<1>2. TemplateIsTrue /\ LabelIsTrue
  BY DEF Init, TemplateIsTrue, LabelIsTrue
<1> QED
  BY <1>1, <1>2

(* A brief labelled the template's holds the template's words, of the        *)
(* simulation it names, whatever the order in which requests store.         *)
THEOREM TemplateIsTrueAlways == Spec => []TemplateIsTrue
BY BriefsStart, TypeKept, BriefsKept, PTL DEF Spec

(* Where no two requests wrote a row from the same reading, the label of a   *)
(* stored brief is true of its words both ways, and its simulation is        *)
(* theirs, for any requests, simulations and deadlines.                      *)
THEOREM LabelIsTrueAlways == Spec => []LabelIsTrue
BY BriefsStart, TypeKept, BriefsKept, PTL DEF Spec

(* The one step that changes a brief the writer wrote, without an overlap,   *)
(* is regenerate_brief's: another of the writer's, and a rewrite is counted. *)
LEMMA WriterStaysInStep ==
  ASSUME TypeOK, RequestKnows, TemplateIsTrue, LabelIsTrue, [Next]_vars,
         NEW g \in Gameweeks, brief[g] # None, brief[g].content.by = "writer", brief'[g] # brief[g], ~raced'
  PROVE  /\ brief'[g] # None /\ brief'[g].content.by = "writer"
         /\ delivered'["brief_regen", g] > delivered["brief_regen", g]
<1>1. PICK r \in Requests : Proceed(r)
  <2>1. ~UNCHANGED vars /\ ~Simulated /\ ~DeadlinePasses
    BY DEF vars, stored, Simulated, DeadlinePasses
  <2>2. ASSUME NEW r \in Requests, NEW k \in Kinds, Admit(r, k) PROVE FALSE
    BY <2>2 DEF Admit, stored
  <2>3. ASSUME NEW r \in Requests, RequestFails(r) PROVE FALSE
    BY <2>3 DEF RequestFails, Rollback, stored
  <2> QED
    BY <2>1, <2>2, <2>3 DEF Next
<1>2. request[r] # Idle
  BY <1>1, EndsOrGoesOn
<1> PICK q \in Request : q = request[r]
  BY <1>2, TheRequest
<1>3. q.gw \in Gameweeks
  BY DEF Request
<1>4. CASE StoresNew(r)
  <2>1. PICK id \in Nat : brief' = [brief EXCEPT ![q.gw] = Written(r, id)]
    BY <1>4 DEF StoresNew
  <2>2. PICK b \in Brief : b = Written(r, id)
    BY <1>2, WrittenTyped
  <2>3. g = q.gw /\ brief'[g] = b
    BY <2>1, <2>2, <1>3 DEF TypeOK
  <2>4. /\ q.outcome = "written" /\ Metric(r) = <<"brief_regen", g>>
        /\ delivered' = [delivered EXCEPT ![<<"brief_regen", g>>] = @ + q.cost]
    BY <1>4, <2>3 DEF StoresNew
  <2>5. b.content.by = "writer"
    BY <1>2, <2>2, <2>4, WrittenTruthful
  <2>6. q.cost \in Nat /\ q.cost >= 1
    BY <1>2 DEF RequestKnows, Knows, Request
  <2>7. <<"brief_regen", g>> \in Metrics \X Periods
    BY DEF Metrics, Periods
  <2>8. delivered'[<<"brief_regen", g>>] > delivered[<<"brief_regen", g>>]
    BY <2>4, <2>6, <2>7 DEF TypeOK
  <2> QED
    BY <2>2, <2>3, <2>5, <2>8, NoneAssumption
<1>5. CASE UpdatesInPlace(r)
  <2>1. PICK new \in Brief, old \in Brief, row \in Brief, merged \in Brief : Merges(r, new, old, row, merged)
    BY <1>5 DEF UpdatesInPlace
  <2>2. /\ row = brief[q.gw] /\ old.is_fallback /\ raced' = (raced \/ row # old)
        /\ brief' = [brief EXCEPT ![q.gw] = merged]
    BY <2>1 DEF Merges
  <2>3. g = q.gw
    BY <2>2, <1>3 DEF TypeOK
  <2>4. ~raced /\ row.is_fallback
    BY <2>2
  <2>5. row.content.by = "template"
    BY <2>2, <2>3, <2>4 DEF LabelIsTrue
  <2> QED
    BY <2>2, <2>3, <2>5
<1> QED
  BY <1>1, <1>4, <1>5, BriefMoves

(* What the writer wrote changes only by a rewrite that is counted, unless   *)
(* two requests raced, for any requests at the same time.                    *)
THEOREM WriterStaysAlways == Spec => WriterStays
<1>1. TypeOK /\ RequestKnows /\ TemplateIsTrue /\ LabelIsTrue /\ [Next]_vars =>
      [\A g \in Gameweeks :
         brief[g] # None /\ brief[g].content.by = "writer" /\ brief'[g] # brief[g] /\ ~raced' =>
           /\ brief'[g] # None /\ brief'[g].content.by = "writer"
           /\ delivered'["brief_regen", g] > delivered["brief_regen", g]]_vars
  BY WriterStaysInStep
<1> QED
  BY <1>1, BriefsStart, TypeKept, BriefsKept, PTL DEF Spec, WriterStays

(* What current_brief answers from the stored row was in step with the       *)
(* league when the request was started.                                      *)
LEMMA ServedAsStored ==
  ASSUME TypeOK, RequestKnows, TemplateIsTrue, [Next]_vars,
         NEW r \in Requests, AtStep(r, {"brief"}, "start"), request'[r] = Idle, failures' = failures
  PROVE  LET b == brief[gameweek]
         IN b # None /\ (b.is_fallback => b.content.from >= request[r].run0)
<1>0. request[r] # Idle
  BY DEF AtStep
<1> PICK q \in Request : q = request[r]
  BY <1>0, TheRequest
<1>1. Proceed(r)
  <2>1. request' # request
    BY <1>0
  <2>2. ~UNCHANGED vars /\ ~Simulated /\ ~DeadlinePasses
    BY <2>1 DEF vars, Simulated, DeadlinePasses
  <2>3. ASSUME NEW h \in Requests, NEW x, request' = [request EXCEPT ![h] = x] PROVE h = r
    BY <2>3, <1>0 DEF TypeOK
  <2>4. ASSUME NEW h \in Requests, NEW k \in Kinds, Admit(h, k) PROVE FALSE
    <3>1. request[h] = Idle
      BY <2>4 DEF Admit
    <3>2. h = r
      BY <2>3, <2>4, AdmitIsSound
    <3> QED
      BY <3>1, <3>2, <1>0
  <2>5. ASSUME NEW h \in Requests, RequestFails(h) PROVE FALSE
    BY <2>5 DEF RequestFails, TypeOK
  <2>6. ASSUME NEW h \in Requests, Proceed(h) PROVE h = r
    BY <2>3, <2>6, EndsOrGoesOn DEF EndsAs, Ends, GoesOn
  <2> QED
    BY <2>2, <2>4, <2>5, <2>6 DEF Next
<1>2. ~GoesOn(r)
  BY IdleIsNone DEF GoesOn, TypeOK
<1>3. ~StartBrief(r)
  <2>1. ASSUME StartBrief(r) PROVE FALSE
    <3> DEFINE step == IF Providers = 0 THEN "done" ELSE "check"
               p == WithPayload(r, step)
               x == [p EXCEPT !.loaded = brief[gameweek], !.outcome = IF Providers = 0 THEN "template" ELSE "none"]
    <3>1. request'[r] = x
      BY <2>1 DEF StartBrief, TypeOK
    <3>2. p = [q EXCEPT !.gw = gameweek, !.from = run, !.at = step]
      BY DEF WithPayload
    <3>3. x.kind = q.kind
      <4> HIDE DEF step
      <4>1. p.kind = q.kind /\ "kind" \in DOMAIN p
        <5> HIDE DEF p
        <5> QED
          BY <3>2 DEF Request
      <4> HIDE DEF p
      <4> QED
        BY <4>1
    <3>4. q.kind \in Kinds
      BY DEF Request
    <3> HIDE DEF x
    <3> QED
      BY <3>1, <3>3, <3>4, NoneAssumption DEF Idle
  <2> QED
    BY <2>1
<1>4. q.kind = "brief" /\ q.at = "start"
  BY DEF AtStep
<1>5. ServeStored(r)
  BY <1>1, <1>2, <1>3, <1>4
     DEF Proceed, StartRewrite, StartAsk, StartScenarios, Refused, CheckCap, ProviderDrafts,
     ProviderFails, RecordSpend, ReadAllowance, AllowanceSpent, ScoreScenarios, IllegalMove, ChargeDay, Answer, MonthSpent,
     Decline, GafferUnavailable, RewriteFailed, LoadForBrief, LoadForRewrite, FirstBrief, UpdateBrief, KeepBrief,
     ReplaceBrief, Conflict, AtStep
<1>6. brief[gameweek] # None /\ (brief[gameweek].is_fallback => brief[gameweek].from = run)
  BY <1>5 DEF ServeStored, OutOfDate
<1>7. q.run0 <= run /\ gameweek \in Gameweeks
  BY <1>0 DEF RequestKnows, Knows, TypeOK
<1>8. Truthful(brief[gameweek])
  BY <1>6, <1>7 DEF TemplateIsTrue
<1>9. brief[gameweek].is_fallback => brief[gameweek].content.from = run
  BY <1>6, <1>8 DEF Truthful
<1> QED
  BY <1>6, <1>7, <1>9 DEF Request, TypeOK

(* A template brief a request is answered with, without anything written,    *)
(* quotes a simulation at least as new as the newest when the request came,  *)
(* for any requests at the same time and any simulations.                    *)
THEOREM ServedInStepAlways == Spec => ServedInStep
<1>1. TypeOK /\ RequestKnows /\ TemplateIsTrue /\ [Next]_vars =>
      [\A r \in Requests :
         AtStep(r, {"brief"}, "start") /\ request'[r] = Idle /\ failures' = failures =>
           LET b == brief[gameweek]
           IN b # None /\ (b.is_fallback => b.content.from >= request[r].run0)]_vars
  BY ServedAsStored
<1> QED
  BY <1>1, BriefsStart, TypeKept, BriefsKept, PTL DEF Spec, ServedInStep

-----------------------------------------------------------------------------
(* Products of natural numbers, as the arithmetic of the allowances needs    *)
(* them.                                                                    *)
LEMMA Products ==
  /\ \A n, k \in Nat : Room(n, k) \in Nat /\ Room(n + 1, k) = Room(n, k) + k
  /\ \A n, h, k \in Nat : n <= h => Room(n, k) <= Room(h, k)
  /\ \A n, k \in Nat : Undone(n, k) \in Nat /\ Undone(n + 1, k) = Undone(n, k) + 2 + 2 * Room(n + 1, k)
  /\ \A n, h, k \in Nat : n <= h => Undone(n, k) <= Undone(h, k)
<1>1. ASSUME NEW n \in Nat, NEW k \in Nat PROVE n * k \in Nat /\ (n + 1) * k = n * k + k
  OBVIOUS
<1>2. ASSUME NEW n \in Nat, NEW h \in Nat, NEW k \in Nat, n <= h PROVE n * k <= h * k
  <2>1. PICK e \in Nat : h = n + e
    <3>1. h - n \in Nat /\ h = n + (h - n)
      BY <1>2
    <3> QED
      BY <3>1
  <2>2. (n + e) * k = n * k + e * k /\ e * k \in Nat /\ n * k \in Nat
    OBVIOUS
  <2> QED
    BY <2>1, <2>2
<1>3. ASSUME NEW n \in Nat, NEW k \in Nat
      PROVE  /\ n * (2 + k * (n + 1)) \in Nat
             /\ (n + 1) * (2 + k * (n + 2)) = n * (2 + k * (n + 1)) + 2 + 2 * ((n + 1) * k)
  OBVIOUS
<1>4. ASSUME NEW n \in Nat, NEW h \in Nat, NEW k \in Nat, n <= h
      PROVE  n * (2 + k * (n + 1)) <= h * (2 + k * (h + 1))
  <2>1. PICK x \in Nat, y \in Nat : x = 2 + k * (n + 1) /\ y = 2 + k * (h + 1)
    OBVIOUS
  <2>2. x <= y
    <3>1. (n + 1) * k <= (h + 1) * k
      BY <1>2, <1>4
    <3>2. k * (n + 1) = (n + 1) * k /\ k * (h + 1) = (h + 1) * k
      OBVIOUS
    <3>3. (n + 1) * k \in Nat /\ (h + 1) * k \in Nat
      OBVIOUS
    <3> QED
      BY <2>1, <3>1, <3>2, <3>3
  <2>3. n * x <= h * x
    BY <1>2, <1>4
  <2>4. x * h <= y * h
    BY <1>2, <2>2
  <2>5. x * h = h * x /\ y * h = h * y /\ n * x \in Nat /\ h * x \in Nat /\ h * y \in Nat
    OBVIOUS
  <2>6. n * x <= h * y
    BY <2>3, <2>4, <2>5
  <2> QED
    BY <2>1, <2>6
<1>5. ASSUME NEW n \in Nat, NEW k \in Nat PROVE Undone(n + 1, k) = Undone(n, k) + 2 + 2 * Room(n + 1, k)
  <2>1. n + 1 + 1 = n + 2
    OBVIOUS
  <2> QED
    BY <1>3, <2>1 DEF Undone, Room
<1>6. \A n, k \in Nat : Room(n, k) \in Nat /\ Room(n + 1, k) = Room(n, k) + k
  BY <1>1 DEF Room
<1>7. \A n, h, k \in Nat : n <= h => Room(n, k) <= Room(h, k)
  BY <1>2 DEF Room
<1>8. \A n, h, k \in Nat : n <= h => Undone(n, k) <= Undone(h, k)
  BY <1>4 DEF Undone
<1>9. \A n, k \in Nat : Undone(n, k) \in Nat
  BY <1>3 DEF Undone
<1> QED
  BY <1>5, <1>6, <1>7, <1>8, <1>9

(* How many requests are elsewhere and how many are not blind. *)
LEMMA UsesCounted ==
  ASSUME NEW P \in SUBSET Requests, NEW seen \in [Requests -> Nat]
  PROVE  /\ Cardinality(Requests \ P) \in Nat /\ Cardinality(Requests \ Blind(P, seen)) \in Nat
         /\ Cardinality(Requests \ P) <= Cardinality(Requests \ Blind(P, seen))
         /\ Cardinality(Requests \ Blind(P, seen)) <= Cardinality(Requests) /\ Cardinality(Requests) \in Nat
         /\ \A r \in P : seen[r] > 0 =>
              Cardinality(Requests \ P) + 1 <= Cardinality(Requests \ Blind(P, seen))
<1> DEFINE E == Requests \ P
           S == Requests \ Blind(P, seen)
<1>1. E \subseteq S /\ S \subseteq Requests /\ E \subseteq Requests
  BY DEF Blind
<1>2. IsFiniteSet(Requests) /\ IsFiniteSet(E) /\ IsFiniteSet(S)
  BY <1>1, FS_Subset, WriterAssumption
<1>3. Cardinality(E) \in Nat /\ Cardinality(S) \in Nat /\ Cardinality(Requests) \in Nat
  BY <1>2, FS_CardinalityType
<1>4. ASSUME NEW r \in P, seen[r] > 0 PROVE r \in S /\ r \notin E
  BY <1>4 DEF Blind
<1> HIDE DEF E, S
<1>5. Cardinality(E) <= Cardinality(S) /\ Cardinality(S) <= Cardinality(Requests)
  BY <1>1, <1>2, FS_Subset
<1>6. ASSUME NEW r \in P, seen[r] > 0 PROVE Cardinality(E) + 1 <= Cardinality(S)
  <2>1. E # S
    BY <1>4, <1>6
  <2>2. Cardinality(E) # Cardinality(S)
    BY <2>1, <1>1, <1>2, FS_Subset
  <2> QED
    BY <2>2, <1>3, <1>5
<1> QED
  BY <1>3, <1>5, <1>6 DEF E, S

(* What the counter can hold, and all that can have been given. *)
LEMMA UsesBounded ==
  ASSUME NEW a \in Nat, NEW count \in Nat, NEW given \in Nat, NEW P \in SUBSET Requests,
         NEW seen \in [Requests -> Nat], NEW cost \in [Requests -> Nat], Uses(a, count, given, P, seen, cost)
  PROVE  LET sighted == Cardinality(Requests \ Blind(P, seen))
         IN /\ count > 0 => count <= 1 + Room(sighted, a - 1)
            /\ count > 0 => 2 * given <= Undone(sighted, a - 1)
            /\ given > 0 => 2 * given <= Undone(Cardinality(Requests), a - 1)
<1> PICK s \in Nat, w \in Nat, size \in Nat :
      s = Cardinality(Requests \ P) /\ w = Cardinality(Requests \ Blind(P, seen)) /\ size = Cardinality(Requests)
  BY UsesCounted
<1>1. s <= w /\ w <= size /\ \A r \in P : seen[r] > 0 => s + 1 <= w
  BY UsesCounted
<1>2. count = 0 => given = 0
  BY DEF Uses
<1>3. ASSUME count > 0
      PROVE  count <= 1 + Room(w, a - 1) /\ 2 * given <= Undone(w, a - 1) /\ 2 * given <= Undone(size, a - 1)
  <2>1. /\ a >= 1 /\ w >= 1
        /\ 2 * (given - count) <= Undone(w - 1, a - 1)
        /\ \/ count <= 1 + Room(s, a - 1)
           \/ \E r \in P : seen[r] > 0 /\ count + cost[r] <= 1 + Room(s + 1, a - 1)
    BY <1>3 DEF Uses
  <2>2. PICK k \in Nat, n \in Nat : k = a - 1 /\ n = w - 1 /\ n + 1 = w
    BY <2>1
  <2>3. /\ Room(w, k) \in Nat /\ Room(s, k) \in Nat /\ Room(s + 1, k) \in Nat
        /\ Undone(n, k) \in Nat /\ Undone(w, k) \in Nat /\ Undone(size, k) \in Nat
    <3>1. s + 1 \in Nat
      OBVIOUS
    <3> QED
      BY <3>1, Products
  <2>4. count <= 1 + Room(w, k)
    <3>1. CASE count <= 1 + Room(s, k)
      <4>1. Room(s, k) <= Room(w, k)
        BY <1>1, Products
      <4> QED
        BY <4>1, <3>1, <2>3
    <3>2. CASE \E r \in P : seen[r] > 0 /\ count + cost[r] <= 1 + Room(s + 1, k)
      <4>1. PICK r \in P : seen[r] > 0 /\ count + cost[r] <= 1 + Room(s + 1, k)
        BY <3>2
      <4>2. s + 1 <= w
        BY <4>1, <1>1
      <4>3. Room(s + 1, k) <= Room(w, k)
        BY <4>2, Products
      <4>4. cost[r] \in Nat
        OBVIOUS
      <4> QED
        BY <4>1, <4>3, <4>4, <2>3
    <3> QED
      BY <2>1, <2>2, <3>1, <3>2
  <2>5. Undone(w, k) = Undone(n, k) + 2 + 2 * Room(w, k)
    BY <2>2, Products
  <2>6. 2 * given <= Undone(w, k)
    BY <2>1, <2>2, <2>3, <2>4, <2>5
  <2>7. Undone(w, k) <= Undone(size, k)
    BY <1>1, Products
  <2>8. 2 * given <= Undone(size, k)
    BY <2>3, <2>6, <2>7
  <2> QED
    BY <2>2, <2>4, <2>6, <2>8
<1> QED
  BY <1>2, <1>3

(* A request reads the counter, goes on, gives up or charges; everyone else   *)
(* stays.                                                                   *)
UseMoves(a, count, given, now, sum, r, P, Q, seen, cost, seen2, cost2) ==
  /\ Q \ {r} = P \ {r}
  /\ \A h \in Requests \ {r} : seen2[h] = seen[h] /\ cost2[h] = cost[h]
  /\ \/ now = count /\ sum = given /\ r \notin Q
     \/ now = count /\ sum = given /\ r \in P /\ r \in Q /\ seen2[r] = seen[r] /\ cost2[r] = cost[r]
     \/ /\ now = count /\ sum = given /\ r \notin P /\ r \in Q
        /\ seen2[r] = count /\ count + cost2[r] <= a /\ cost2[r] >= 1
     \/ /\ now = (IF seen[r] = 0 THEN cost[r] ELSE count + cost[r])
        /\ sum = given + cost[r] /\ r \in P /\ r \notin Q

(* The counter, the uses given and the requests about to charge move         *)
(* together, so that every move of one of them keeps the account.            *)
LEMMA UsesMoved ==
  ASSUME NEW a \in Nat, NEW count \in Nat, NEW given \in Nat, NEW now \in Nat, NEW sum \in Nat,
         NEW r \in Requests, NEW P \in SUBSET Requests, NEW Q \in SUBSET Requests,
         NEW seen \in [Requests -> Nat], NEW cost \in [Requests -> Nat],
         NEW seen2 \in [Requests -> Nat], NEW cost2 \in [Requests -> Nat],
         Uses(a, count, given, P, seen, cost),
         UseMoves(a, count, given, now, sum, r, P, Q, seen, cost, seen2, cost2)
  PROVE  Uses(a, now, sum, Q, seen2, cost2)
<1> USE DEF UseMoves
<1> DEFINE B == Blind(P, seen)
           C == Blind(Q, seen2)
<1> PICK s \in Nat, w \in Nat, size \in Nat :
      s = Cardinality(Requests \ P) /\ w = Cardinality(Requests \ B) /\ size = Cardinality(Requests)
  BY UsesCounted
<1> PICK t \in Nat, v \in Nat : t = Cardinality(Requests \ Q) /\ v = Cardinality(Requests \ C)
  BY UsesCounted
<1>1. /\ r \in P /\ r \notin Q => t = s + 1
      /\ r \notin P /\ r \in Q => s = t + 1
      /\ (r \in P <=> r \in Q) => t = s
  <2>1. CASE r \in P /\ r \notin Q
    <3>1. Requests \ Q = (Requests \ P) \cup {r} /\ r \notin Requests \ P
      BY <2>1
    <3> QED
      BY <2>1, <3>1, RequestsCounted
  <2>2. CASE r \notin P /\ r \in Q
    <3>1. Requests \ P = (Requests \ Q) \cup {r} /\ r \notin Requests \ Q
      BY <2>2
    <3> QED
      BY <2>2, <3>1, RequestsCounted
  <2>3. CASE r \in P <=> r \in Q
    <3>1. Requests \ Q = Requests \ P
      BY <2>3
    <3> QED
      BY <2>3, <3>1
  <2> QED
    BY <2>1, <2>2, <2>3
<1>2. /\ r \in B /\ r \notin C => v = w + 1
      /\ (r \in B <=> r \in C) => v = w
  <2>0. B \in SUBSET Requests /\ C \in SUBSET Requests /\ C \ {r} = B \ {r}
    BY DEF Blind
  <2> HIDE DEF B, C
  <2>1. CASE r \in B /\ r \notin C
    <3>1. Requests \ C = (Requests \ B) \cup {r} /\ r \notin Requests \ B
      BY <2>0, <2>1
    <3> QED
      BY <2>0, <2>1, <3>1, RequestsCounted
  <2>2. CASE r \in B <=> r \in C
    <3>1. Requests \ C = Requests \ B
      BY <2>0, <2>2
    <3> QED
      BY <2>2, <3>1
  <2> QED
    BY <2>1, <2>2
<1>3. (r \in B <=> r \in P /\ seen[r] = 0) /\ (r \in C <=> r \in Q /\ seen2[r] = 0)
  BY DEF Blind
<1> HIDE DEF B, C
<1>4. /\ count <= given
      /\ \A h \in P : seen[h] + cost[h] <= a /\ cost[h] >= 1
      /\ count = 0 => given = 0 /\ \A h \in P : seen[h] = 0
      /\ count > 0 =>
           /\ a >= 1 /\ w >= 1
           /\ 2 * (given - count) <= Undone(w - 1, a - 1)
           /\ \/ count <= 1 + Room(s, a - 1)
              \/ \E h \in P : seen[h] > 0 /\ count + cost[h] <= 1 + Room(s + 1, a - 1)
  BY DEF Uses, B
<1>5. /\ now <= sum
      /\ \A h \in Q : seen2[h] + cost2[h] <= a /\ cost2[h] >= 1
  <2>1. cost[r] \in Nat /\ \A h \in Q : h # r => h \in P
    OBVIOUS
  <2>2. now <= sum
    BY <1>4, <2>1
  <2>3. ASSUME NEW h \in Q PROVE seen2[h] + cost2[h] <= a /\ cost2[h] >= 1
    <3>1. CASE h = r
      BY <3>1, <1>4
    <3>2. CASE h # r
      BY <3>2, <1>4, <2>1
    <3> QED
      BY <3>1, <3>2
  <2> QED
    BY <2>2, <2>3
<1>6. now = 0 => sum = 0 /\ \A h \in Q : seen2[h] = 0
  <2> SUFFICES ASSUME now = 0 PROVE sum = 0 /\ \A h \in Q : seen2[h] = 0
    OBVIOUS
  <2>1. now = count /\ sum = given /\ count = 0
    BY <1>4
  <2>2. ASSUME NEW h \in Q PROVE seen2[h] = 0
    <3>1. CASE h = r
      BY <3>1, <2>1, <1>4
    <3>2. CASE h # r
      BY <3>2, <2>1, <1>4
    <3> QED
      BY <3>1, <3>2
  <2> QED
    BY <2>1, <2>2, <1>4
<1>7. ASSUME now > 0
      PROVE  /\ a >= 1 /\ v >= 1
             /\ 2 * (sum - now) <= Undone(v - 1, a - 1)
             /\ \/ now <= 1 + Room(t, a - 1)
                \/ \E h \in Q : seen2[h] > 0 /\ now + cost2[h] <= 1 + Room(t + 1, a - 1)
  <2>1. a >= 1
    <3>1. CASE count > 0
      BY <3>1, <1>4
    <3>2. CASE count = 0
      <4>1. r \in P
        BY <3>2, <1>7
      <4>2. seen[r] + cost[r] <= a /\ cost[r] >= 1 /\ seen[r] \in Nat
        BY <4>1, <1>4
      <4> QED
        BY <4>2
    <3> QED
      BY <3>1, <3>2
  <2> PICK k \in Nat : k = a - 1 /\ a = k + 1
    BY <2>1
  <2>2. /\ Room(s, k) \in Nat /\ Room(s + 1, k) = Room(s, k) + k
        /\ Room(s + 2, k) = Room(s, k) + k + k
    <3>1. PICK n \in Nat : n = s + 1 /\ s + 2 = n + 1
      OBVIOUS
    <3>2. Room(s, k) \in Nat /\ Room(s + 1, k) = Room(s, k) + k /\ Room(n + 1, k) = Room(n, k) + k
      BY Products
    <3> QED
      BY <3>1, <3>2
  <2>3. count > 0 => /\ w >= 1
                     /\ 2 * (given - count) <= Undone(w - 1, k)
                     /\ \/ count <= 1 + Room(s, k)
                        \/ \E h \in P : seen[h] > 0 /\ count + cost[h] <= 1 + Room(s + 1, k)
    BY <1>4
  <2>4. \A h \in Requests : seen[h] \in Nat /\ cost[h] \in Nat
    OBVIOUS
  <2>5. CASE now = count /\ sum = given /\ r \notin Q
    <3>1. count > 0
      BY <2>5, <1>7
    <3>2. CASE r \notin P
      <4>1. t = s /\ v = w /\ P = Q
        BY <2>5, <3>2, <1>1, <1>2, <1>3
      <4>2. \A h \in Q : seen2[h] = seen[h] /\ cost2[h] = cost[h]
        BY <2>5
      <4> QED
        BY <2>1, <2>3, <2>5, <3>1, <4>1, <4>2
    <3>3. CASE r \in P
      <4>1. t = s + 1
        BY <2>5, <3>3, <1>1
      <4>2. v >= 1 /\ 2 * (given - count) <= Undone(v - 1, k)
        <5>1. CASE r \in B
          <6>1. v = w + 1 /\ w >= 1
            BY <5>1, <2>3, <2>5, <3>1, <1>2, <1>3
          <6>2. PICK n \in Nat : n = w - 1 /\ w = n + 1 /\ v - 1 = n + 1
            BY <6>1
          <6>3. Undone(n, k) <= Undone(n + 1, k) /\ Undone(n, k) \in Nat /\ Undone(n + 1, k) \in Nat
            <7>1. n + 1 \in Nat /\ n <= n + 1
              OBVIOUS
            <7> QED
              BY <7>1, Products
          <6> QED
            BY <6>1, <6>2, <6>3, <2>3, <3>1
        <5>2. CASE r \notin B
          <6>1. v = w
            BY <5>2, <2>5, <1>2, <1>3
          <6> QED
            BY <6>1, <2>3, <3>1
        <5> QED
          BY <5>1, <5>2
      <4>3. \/ count <= 1 + Room(t, k)
            \/ \E h \in Q : seen2[h] > 0 /\ count + cost2[h] <= 1 + Room(t + 1, k)
        <5>1. CASE count <= 1 + Room(s, k)
          BY <5>1, <4>1, <2>2
        <5>2. CASE \E h \in P : seen[h] > 0 /\ count + cost[h] <= 1 + Room(s + 1, k)
          <6>1. PICK h \in P : seen[h] > 0 /\ count + cost[h] <= 1 + Room(s + 1, k)
            BY <5>2
          <6>2. count <= 1 + Room(s + 1, k)
            BY <6>1, <2>2, <2>4
          <6> QED
            BY <6>2, <4>1
        <5> QED
          BY <5>1, <5>2, <2>3, <3>1
      <4> QED
        BY <2>1, <2>5, <4>2, <4>3
    <3> QED
      BY <3>2, <3>3
  <2>6. CASE now = count /\ sum = given /\ r \in P /\ r \in Q /\ seen2[r] = seen[r] /\ cost2[r] = cost[r]
    <3>1. t = s /\ v = w /\ P = Q
      BY <2>6, <1>1, <1>2, <1>3
    <3>2. \A h \in Q : seen2[h] = seen[h] /\ cost2[h] = cost[h]
      BY <2>6
    <3> QED
      BY <2>1, <2>3, <2>6, <1>7, <3>1, <3>2
  <2>7. CASE /\ now = count /\ sum = given /\ r \notin P /\ r \in Q
             /\ seen2[r] = count /\ count + cost2[r] <= a /\ cost2[r] >= 1
    <3>1. s = t + 1 /\ v = w /\ count > 0
      BY <2>7, <1>1, <1>2, <1>3, <1>7
    <3>2. Room(t + 1, k) = Room(t, k) + k /\ Room(t, k) \in Nat
      BY Products
    <3>3. count + cost2[r] <= 1 + Room(t + 1, k)
      BY <2>7, <3>2
    <3> QED
      BY <2>1, <2>3, <2>7, <3>1, <3>3
  <2>8. CASE /\ now = (IF seen[r] = 0 THEN cost[r] ELSE count + cost[r])
             /\ sum = given + cost[r] /\ r \in P /\ r \notin Q
    <3>1. t = s + 1
      BY <2>8, <1>1
    <3>2. seen[r] + cost[r] <= a /\ cost[r] >= 1
      BY <2>8, <1>4
    <3>3. CASE seen[r] = 0
      <4>1. v = w + 1 /\ now = cost[r] /\ sum - now = given
        BY <2>8, <3>3, <1>2, <1>3
      <4>2. 2 * given <= Undone(w, k)
        <5>1. CASE count > 0
          BY <5>1, UsesBounded DEF B
        <5>2. CASE count = 0
          <6>1. given = 0 /\ Undone(w, k) \in Nat
            BY <5>2, <1>4, Products
          <6> QED
            BY <6>1
        <5> QED
          BY <5>1, <5>2
      <4>3. now <= 1 + Room(t, k)
        BY <4>1, <3>1, <3>2, <2>2, <2>4
      <4>4. v - 1 = w /\ v >= 1
        BY <4>1
      <4> QED
        BY <2>1, <4>1, <4>2, <4>3, <4>4
    <3>4. CASE seen[r] > 0
      <4>1. v = w /\ now = count + cost[r] /\ sum - now = given - count
        BY <2>8, <3>4, <1>2, <1>3
      <4>2. count > 0
        BY <2>8, <3>4, <1>4
      <4>3. cost[r] <= k
        BY <3>2, <3>4, <2>4
      <4>4. \/ now <= 1 + Room(t, k)
            \/ \E h \in Q : seen2[h] > 0 /\ now + cost2[h] <= 1 + Room(t + 1, k)
        <5>1. CASE count <= 1 + Room(s, k)
          BY <5>1, <4>1, <4>3, <3>1, <2>2, <2>4
        <5>2. CASE \E h \in P : seen[h] > 0 /\ count + cost[h] <= 1 + Room(s + 1, k)
          <6>1. PICK h \in P : seen[h] > 0 /\ count + cost[h] <= 1 + Room(s + 1, k)
            BY <5>2
          <6>2. CASE h = r
            BY <6>1, <6>2, <4>1, <3>1
          <6>3. CASE h # r
            <7>1. h \in Q /\ seen2[h] = seen[h] /\ cost2[h] = cost[h]
              BY <6>3
            <7>2. t + 1 = s + 2
              BY <3>1
            <7>3. now + cost[h] <= 1 + Room(t + 1, k)
              BY <6>1, <7>2, <4>1, <4>3, <2>2, <2>4
            <7> QED
              BY <7>1, <7>3, <6>1
          <6> QED
            BY <6>2, <6>3
        <5> QED
          BY <5>1, <5>2, <4>2, <2>3
      <4> QED
        BY <2>1, <2>3, <4>1, <4>2, <4>4
    <3>5. seen[r] = 0 \/ seen[r] > 0
      BY <2>4
    <3> QED
      BY <3>3, <3>4, <3>5
  <2> QED
    BY <2>5, <2>6, <2>7, <2>8
<1> QED
  BY <1>5, <1>6, <1>7 DEF Uses, C

(* What a request does to the counters: nothing, or, when it ends well, it   *)
(* writes the one it has read and is given what it asked for.               *)
Daily == (Metrics \ {"gaffer_month"}) \X Periods
Charged(r) ==
  /\ Ends(r) /\ Charging(request[r])
  /\ \A m \in Daily :
       /\ used'[m] = IF m = Metric(r) THEN Consumed(r) ELSE used[m]
       /\ delivered'[m] = IF m = Metric(r) THEN delivered[m] + request[r].cost ELSE delivered[m]

(* consume is the only writer of the counters: any other step leaves them.   *)
LEMMA CounterMoves ==
  ASSUME TypeOK, RequestKnows, NEW r \in Requests, Proceed(r)
  PROVE  UNCHANGED <<used, delivered>> \/ Charged(r)
<1>0. request[r] # Idle
  BY EndsOrGoesOn
<1> PICK q \in Request : q = request[r]
  BY <1>0, TheRequest
<1>1. PICK own \in Daily : own = Metric(r)
  BY <1>0, MetricTyped DEF Daily
<1>2. /\ used \in [Metrics \X Periods -> Nat] /\ delivered \in [Metrics \X Periods -> Nat]
      /\ own \in Metrics \X Periods /\ Daily \subseteq Metrics \X Periods
  BY <1>1 DEF TypeOK, Daily
<1>3. ASSUME Charge(r, Metric(r), Consumed(r)), Ends(r), Charging(q) PROVE Charged(r)
  <2>1. PICK n \in Nat : n = Consumed(r)
    BY <1>0, MetricTyped
  <2>2. used' = [used EXCEPT ![own] = n] /\ delivered' = [delivered EXCEPT ![own] = @ + q.cost]
    BY <1>1, <1>3, <2>1 DEF Charge
  <2>3. \A m \in Daily : /\ used'[m] = IF m = own THEN n ELSE used[m]
                         /\ delivered'[m] = IF m = own THEN delivered[m] + q.cost ELSE delivered[m]
    BY <2>2, <1>2
  <2> QED
    BY <1>1, <1>3, <2>1, <2>3 DEF Charged
<1>4. CASE ScoreScenarios(r)
  <2>1. Charge(r, Metric(r), Consumed(r)) /\ Ends(r) /\ Charging(q)
    BY <1>0, <1>4 DEF ScoreScenarios, Commit, AtStep, Charging
  <2> QED
    BY <2>1, <1>3
<1>5. CASE ReplaceBrief(r)
  <2>1. Charge(r, Metric(r), Consumed(r)) /\ Ends(r) /\ Charging(q)
    BY <1>0, <1>5 DEF ReplaceBrief, StoreBrief, Commit, AtStep, Charging
  <2> QED
    BY <2>1, <1>3
<1>6. CASE Answer(r)
  <2>1. Ends(r) /\ Charging(q) /\ q.cost = 1
    BY <1>0, <1>6 DEF Answer, Commit, AtStep, Charging, RequestKnows, Knows
  <2>2. PICK n \in Nat : n = Consumed(r)
    BY <1>0, MetricTyped
  <2>3. /\ used' = [used EXCEPT ![own] = n, ![Month] = @ + 1]
        /\ delivered' = [delivered EXCEPT ![own] = @ + 1, ![Month] = @ + 1]
    BY <1>1, <1>6, <2>2 DEF Answer
  <2>4. Month \notin Daily
    BY DEF Month, Daily
  <2>5. \A m \in Daily : /\ used'[m] = IF m = own THEN n ELSE used[m]
                         /\ delivered'[m] = IF m = own THEN delivered[m] + q.cost ELSE delivered[m]
    BY <2>1, <2>3, <2>4, <1>2
  <2> QED
    BY <1>1, <2>1, <2>2, <2>5 DEF Charged
<1> QED
  BY <1>4, <1>5, <1>6
     DEF Proceed, ServeStored, StartBrief, StartRewrite, StartAsk, StartScenarios, Refused, CheckCap, ProviderDrafts,
     ProviderFails, RecordSpend, ReadAllowance, AllowanceSpent, IllegalMove, ChargeDay, MonthSpent,
     Decline, GafferUnavailable, RewriteFailed, LoadForBrief, LoadForRewrite, FirstBrief, UpdateBrief, KeepBrief,
     Conflict, Rollback, counters

(* A step of one request, for one counter. *)
LEMMA UsesKept ==
  ASSUME TypeOK, TypeOK', RequestKnows, UsesAccounted, NEW r \in Requests, NEW x, x \in Request \/ x = Idle,
         request' = [request EXCEPT ![r] = x],
         \/ UNCHANGED <<used, delivered>> /\ ~Charging(x)
         \/ UNCHANGED <<used, delivered>> /\ x \in Request /\ Knows(x) /\ request[r] # Idle /\ ChargeFollows(r, x)
         \/ x = Idle /\ Charged(r)
  PROVE  UsesAccounted'
<1>1. \A h \in Requests : request'[h] = IF h = r THEN x ELSE request[h]
  BY DEF TypeOK
<1>2. PICK seen \in [Requests -> Nat], cost \in [Requests -> Nat] : seen = Seen /\ cost = Cost
  BY DEF TypeOK, Seen, Cost, Request
<1>3. PICK seen2 \in [Requests -> Nat], cost2 \in [Requests -> Nat] : seen2 = Seen' /\ cost2 = Cost'
  BY DEF TypeOK, Seen, Cost, Request
<1>4. \A h \in Requests \ {r} : seen2[h] = seen[h] /\ cost2[h] = cost[h]
  BY <1>1, <1>2, <1>3 DEF Seen, Cost
<1>5. /\ x # Idle => seen2[r] = x.seen /\ cost2[r] = x.cost
      /\ request[r] # Idle => seen[r] = request[r].seen /\ cost[r] = request[r].cost
  BY <1>1, <1>2, <1>3 DEF Seen, Cost
<1>6. ASSUME NEW m \in Daily PROVE Uses(Allowance[m[1]], used[m], delivered[m], Pending(m), Seen, Cost)'
  <2>1. PICK a \in Nat : a = Allowance[m[1]]
    BY WriterAssumption DEF Daily
  <2>2. PICK count \in Nat, given \in Nat, now \in Nat, sum \in Nat :
          count = used[m] /\ given = delivered[m] /\ now = used'[m] /\ sum = delivered'[m]
    BY DEF TypeOK, Daily
  <2>3. PICK P \in SUBSET Requests, Q \in SUBSET Requests : P = Pending(m) /\ Q = Pending(m)'
    BY DEF Pending
  <2>4. Uses(a, count, given, P, seen, cost)
    BY <1>2, <2>1, <2>2, <2>3 DEF UsesAccounted, Daily
  <2>5. \A h \in Requests \ {r} : h \in Q <=> h \in P
    BY <1>1, <2>3 DEF Pending, Metric
  <2>6. r \in Q => Charging(x) /\ Metric(r)' = m
    BY <1>1, <2>3 DEF Pending
  <2>7. r \in P <=> Charging(request[r]) /\ Metric(r) = m
    BY <2>3 DEF Pending
  <2>8. \/ now = count /\ sum = given /\ r \notin Q
        \/ now = count /\ sum = given /\ r \in P /\ r \in Q /\ seen2[r] = seen[r] /\ cost2[r] = cost[r]
        \/ /\ now = count /\ sum = given /\ r \notin P /\ r \in Q
           /\ seen2[r] = count /\ count + cost2[r] <= a /\ cost2[r] >= 1
        \/ /\ now = (IF seen[r] = 0 THEN cost[r] ELSE count + cost[r])
           /\ sum = given + cost[r] /\ r \in P /\ r \notin Q
    <3>1. CASE UNCHANGED <<used, delivered>> /\ ~Charging(x)
      BY <3>1, <2>2, <2>6
    <3>2. CASE /\ UNCHANGED <<used, delivered>> /\ x \in Request /\ Knows(x)
               /\ request[r] # Idle /\ ChargeFollows(r, x)
      <4>1. now = count /\ sum = given /\ x # Idle
        BY <3>2, <2>2, IdleIsNone
      <4>2. SameUse(r, x) => Metric(r)' = Metric(r)
        BY <1>1 DEF SameUse, Metric
      <4>3. CASE ~Charging(x) /\ ~Charging(request[r])
        BY <4>1, <4>3, <2>6
      <4>4. CASE Charging(x) /\ Charging(request[r]) /\ SameUse(r, x) /\ x.seen = request[r].seen
        <5>1. seen2[r] = seen[r] /\ cost2[r] = cost[r]
          BY <4>1, <4>4, <3>2, <1>5 DEF SameUse
        <5>2. r \in Q => r \in P
          BY <2>6, <2>7, <4>2, <4>4
        <5> QED
          BY <4>1, <5>1, <5>2
      <4>5. CASE /\ Charging(x) /\ ~Charging(request[r]) /\ SameUse(r, x) /\ x.seen = used[Metric(r)]
                 /\ used[Metric(r)] + request[r].cost <= Allowance[Metric(r)[1]]
        <5>1. r \notin P
          BY <4>5, <2>7
        <5>2. r \in Q => Metric(r) = m
          BY <2>6, <4>2, <4>5
        <5>3. seen2[r] = used[Metric(r)] /\ cost2[r] = request[r].cost /\ cost2[r] >= 1
          BY <4>1, <4>5, <3>2, <1>5 DEF SameUse, Knows
        <5> QED
          BY <4>1, <4>5, <5>1, <5>2, <5>3, <2>1, <2>2
      <4> QED
        BY <3>2, <4>3, <4>4, <4>5 DEF ChargeFollows
    <3>3. CASE x = Idle /\ Charged(r)
      <4>1. r \notin Q /\ Charging(request[r]) /\ request[r] # Idle
        BY <3>3, <2>6 DEF Charging, Charged
      <4>2. /\ now = IF m = Metric(r) THEN Consumed(r) ELSE count
            /\ sum = IF m = Metric(r) THEN given + request[r].cost ELSE given
        BY <3>3, <2>2 DEF Charged
      <4>3. CASE m = Metric(r)
        <5>1. seen[r] = request[r].seen /\ cost[r] = request[r].cost /\ r \in P
          BY <4>1, <4>3, <1>5, <2>7
        <5>2. Consumed(r) = IF seen[r] = 0 THEN cost[r] ELSE count + cost[r]
          BY <5>1, <4>3, <2>2 DEF Consumed
        <5> QED
          BY <4>1, <4>2, <4>3, <5>1, <5>2
      <4>4. CASE m # Metric(r)
        BY <4>1, <4>2, <4>4
      <4> QED
        BY <4>3, <4>4
    <3> QED
      BY <3>1, <3>2, <3>3
  <2>9. Q \ {r} = P \ {r}
    BY <2>5
  <2>10. Uses(a, now, sum, Q, seen2, cost2)
    <3>1. UseMoves(a, count, given, now, sum, r, P, Q, seen, cost, seen2, cost2)
      BY <1>4, <2>8, <2>9 DEF UseMoves
    <3> QED
      BY <2>4, <3>1, UsesMoved
  <2> QED
    BY <1>3, <2>1, <2>2, <2>3, <2>10 DEF Uses, Blind
<1> QED
  BY <1>6 DEF UsesAccounted, Daily

(* consume of the month adds one to the counter and to the uses given, under *)
(* the lock of the same question's day, and only below the allowance.        *)
LEMMA MonthKept ==
  ASSUME TypeOK, RequestKnows, MonthAccounted, NEW r \in Requests, Proceed(r)
  PROVE  MonthAccounted'
<1>0. request[r] # Idle
  BY EndsOrGoesOn
<1>1. PICK own \in Daily : own = Metric(r)
  BY <1>0, MetricTyped DEF Daily
<1>2. /\ used \in [Metrics \X Periods -> Nat] /\ delivered \in [Metrics \X Periods -> Nat]
      /\ own \in Metrics \X Periods /\ Month \in Metrics \X Periods
  BY <1>1 DEF TypeOK, Daily, Month, Metrics, Periods
<1>3. \A g \in Periods : <<"gaffer_month", g>> # own /\ <<"gaffer_month", g>> \in Metrics \X Periods
  BY <1>1 DEF Daily, Metrics
<1>4. CASE UNCHANGED <<used, delivered>>
  BY <1>4 DEF MonthAccounted
<1>5. CASE Charge(r, Metric(r), Consumed(r))
  <2>1. /\ used' = [used EXCEPT ![own] = Consumed(r)]
        /\ delivered' = [delivered EXCEPT ![own] = @ + request[r].cost]
    BY <1>1, <1>5 DEF Charge
  <2>2. \A g \in Periods : /\ used'[<<"gaffer_month", g>>] = used[<<"gaffer_month", g>>]
                           /\ delivered'[<<"gaffer_month", g>>] = delivered[<<"gaffer_month", g>>]
    BY <2>1, <1>2, <1>3
  <2> QED
    BY <2>2 DEF MonthAccounted
<1>6. CASE Answer(r)
  <2>1. /\ used' = [used EXCEPT ![own] = Consumed(r), ![Month] = @ + 1]
        /\ delivered' = [delivered EXCEPT ![own] = @ + 1, ![Month] = @ + 1]
    BY <1>1, <1>6 DEF Answer
  <2>2. used[Month] + 1 <= Allowance["gaffer_month"]
    BY <1>6 DEF Answer, Month
  <2>3. ASSUME NEW g \in Periods
        PROVE  LET m == <<"gaffer_month", g>>
               IN used'[m] = delivered'[m] /\ delivered'[m] <= Allowance["gaffer_month"] /\ Requests # {}
    <3>1. PICK m \in Metrics \X Periods : m = <<"gaffer_month", g>> /\ m # own
      BY <1>3
    <3>2. used[m] = delivered[m] /\ delivered[m] <= Allowance["gaffer_month"] /\ used[m] \in Nat
      BY <3>1, <1>2 DEF MonthAccounted
    <3>3. CASE m = Month
      BY <3>1, <3>2, <3>3, <2>1, <2>2, <1>2
    <3>4. CASE m # Month
      BY <3>1, <3>2, <3>4, <2>1, <1>2
    <3> QED
      BY <3>1, <3>3, <3>4
  <2> QED
    BY <2>3 DEF MonthAccounted
<1> QED
  BY <1>4, <1>5, <1>6
     DEF Proceed, ServeStored, StartBrief, StartRewrite, StartAsk, StartScenarios, Refused, CheckCap, ProviderDrafts,
     ProviderFails, RecordSpend, ReadAllowance, AllowanceSpent, ScoreScenarios, IllegalMove, ChargeDay, MonthSpent,
     Decline, GafferUnavailable, RewriteFailed, LoadForBrief, LoadForRewrite, FirstBrief, UpdateBrief, KeepBrief,
     ReplaceBrief, Conflict, Rollback, counters

(* Every step of the specification keeps the account of the uses.            *)
LEMMA UsesStep ==
  TypeOK /\ RequestKnows /\ UsesAccounted /\ MonthAccounted /\ [Next]_vars => UsesAccounted' /\ MonthAccounted'
<1> SUFFICES ASSUME TypeOK, RequestKnows, UsesAccounted, MonthAccounted, [Next]_vars
             PROVE  UsesAccounted' /\ MonthAccounted'
  OBVIOUS
<1>0. TypeOK'
  BY TypeKept
<1>1. CASE UNCHANGED <<used, delivered, request>>
  <2>1. UsesAccounted'
    <3>1. PICK seen, cost : seen = Seen /\ cost = Cost /\ seen = Seen' /\ cost = Cost'
      BY <1>1 DEF Seen, Cost
    <3>2. ASSUME NEW m \in Daily
          PROVE  Uses(Allowance[m[1]], used[m], delivered[m], Pending(m), Seen, Cost)'
      <4>1. PICK a, count, given, P : a = Allowance[m[1]] /\ count = used[m] /\ given = delivered[m] /\ P = Pending(m)
        OBVIOUS
      <4>2. count = used'[m] /\ given = delivered'[m] /\ P = Pending(m)'
        BY <1>1, <4>1 DEF Pending, Metric
      <4>3. Uses(a, count, given, P, seen, cost)
        BY <3>1, <4>1 DEF UsesAccounted, Daily
      <4> QED
        BY <3>1, <4>1, <4>2, <4>3 DEF Uses, Blind
    <3> QED
      BY <3>2 DEF UsesAccounted, Daily
  <2>2. MonthAccounted'
    BY <1>1 DEF MonthAccounted
  <2> QED
    BY <2>1, <2>2
<1>2. CASE UNCHANGED vars \/ Simulated \/ DeadlinePasses
  BY <1>1, <1>2 DEF vars, counters, Simulated, DeadlinePasses
<1>3. ASSUME NEW r \in Requests, NEW k \in Kinds, Admit(r, k) PROVE UsesAccounted' /\ MonthAccounted'
  <2>1. UNCHANGED <<used, delivered>>
    BY <1>3 DEF Admit, counters
  <2>2. PICK x \in Request : request' = [request EXCEPT ![r] = x] /\ x.at = "start"
    BY <1>3, AdmitIsSound
  <2>3. ~Charging(x)
    BY <2>2 DEF Charging
  <2>4. UsesAccounted'
    BY <1>0, <2>1, <2>2, <2>3, UsesKept
  <2> QED
    BY <2>1, <2>4 DEF MonthAccounted
<1>4. ASSUME NEW r \in Requests, RequestFails(r) PROVE UsesAccounted' /\ MonthAccounted'
  <2>1. UNCHANGED <<used, delivered>> /\ request' = [request EXCEPT ![r] = Idle]
    BY <1>4 DEF RequestFails, Rollback, Ends, counters
  <2>2. UsesAccounted'
    BY <1>0, <2>1, UsesKept DEF Charging
  <2> QED
    BY <2>1, <2>2 DEF MonthAccounted
<1>5. ASSUME NEW r \in Requests, Proceed(r) PROVE UsesAccounted' /\ MonthAccounted'
  <2>1. request[r] # Idle /\ (EndsAs(r) \/ GoesOn(r))
    BY <1>5, EndsOrGoesOn
  <2>2. CASE EndsAs(r)
    <3>1. request' = [request EXCEPT ![r] = Idle] /\ ~Charging(Idle)
      BY <2>2 DEF EndsAs, Ends, Charging
    <3>2. UNCHANGED <<used, delivered>> \/ Charged(r)
      BY <1>5, CounterMoves
    <3> QED
      BY <1>0, <1>5, <3>1, <3>2, UsesKept, MonthKept
  <2>3. CASE GoesOn(r)
    BY <1>0, <1>5, <2>1, <2>3, UsesKept, MonthKept DEF GoesOn, Follows
  <2> QED
    BY <2>1, <2>2, <2>3
<1> QED
  BY <1>2, <1>3, <1>4, <1>5 DEF Next

(* Nothing is used at first, and no request is about to charge.              *)
LEMMA UsesStart == Init => TypeOK /\ RequestKnows /\ UsesAccounted /\ MonthAccounted
<1> SUFFICES ASSUME Init PROVE TypeOK /\ RequestKnows /\ UsesAccounted /\ MonthAccounted
  OBVIOUS
<1>1. TypeOK /\ RequestKnows
  BY TypeStarts DEF Init, RequestKnows
<1>2. /\ \A m \in Metrics \X Periods : used[m] = 0 /\ delivered[m] = 0
      /\ \A r \in Requests : request[r] = Idle
  BY DEF Init
<1>3. \A m \in Daily : Pending(m) = {} /\ m \in Metrics \X Periods
  BY <1>2 DEF Pending, Charging, Daily
<1>4. UsesAccounted
  BY <1>2, <1>3 DEF UsesAccounted, Uses, Daily
<1>5. MonthAccounted
  <2>1. \A g \in Periods : <<"gaffer_month", g>> \in Metrics \X Periods
    BY DEF Metrics
  <2>2. Allowance["gaffer_month"] \in Nat
    BY WriterAssumption DEF Metrics
  <2>3. ASSUME NEW g \in Periods
        PROVE  LET m == <<"gaffer_month", g>>
               IN used[m] = delivered[m] /\ delivered[m] <= Allowance["gaffer_month"] /\ ~(delivered[m] > 0)
    <3>1. PICK m \in Metrics \X Periods : m = <<"gaffer_month", g>>
      BY <2>1
    <3>2. used[m] = 0 /\ delivered[m] = 0
      BY <1>2
    <3> QED
      BY <2>2, <3>1, <3>2
  <2> QED
    BY <2>3 DEF MonthAccounted
<1> QED
  BY <1>1, <1>4, <1>5

(* Nobody is charged for what was not delivered, for any requests at the     *)
(* same time: a failure, a refusal and two requests that consume at once     *)
(* leave every counter at or below the results that were given.             *)
THEOREM NeverOverchargedAlways == Spec => []NeverOvercharged
<1>1. UsesAccounted /\ MonthAccounted /\ TypeOK => NeverOvercharged
  <2> SUFFICES ASSUME UsesAccounted, MonthAccounted, TypeOK, NEW m \in Metrics \X Periods
               PROVE  used[m] <= delivered[m]
    BY DEF NeverOvercharged
  <2>1. CASE m[1] # "gaffer_month"
    <3>1. m \in (Metrics \ {"gaffer_month"}) \X Periods
      BY <2>1
    <3> QED
      BY <3>1 DEF UsesAccounted, Uses
  <2>2. CASE m[1] = "gaffer_month"
    <3>1. PICK g \in Periods : m = <<"gaffer_month", g>>
      BY <2>2
    <3> QED
      BY <3>1 DEF MonthAccounted, TypeOK
  <2> QED
    BY <2>1, <2>2
<1> QED
  BY <1>1, UsesStart, TypeKept, UsesStep, PTL DEF Spec

(* consume lets through more than the allowance only as far as requests      *)
(* overlap, for any allowances, costs and requests at the same time: n of    *)
(* them are given n + (a - 1) * n * (n + 1) / 2 uses of a at most.           *)
THEOREM AllowanceBoundedAlways == Spec => []AllowanceBounded
<1>1. UsesAccounted /\ MonthAccounted /\ TypeOK => AllowanceBounded
  <2> SUFFICES ASSUME UsesAccounted, MonthAccounted, TypeOK, NEW m \in Metrics \X Periods, delivered[m] > 0
               PROVE  2 * delivered[m] <= Undone(Cardinality(Requests), Allowance[m[1]] - 1)
    BY DEF AllowanceBounded, Undone
  <2>1. CASE m[1] # "gaffer_month"
    <3>1. m \in Daily
      BY <2>1 DEF Daily
    <3>2. PICK a \in Nat, count \in Nat, given \in Nat : a = Allowance[m[1]] /\ count = used[m] /\ given = delivered[m]
      BY WriterAssumption DEF TypeOK
    <3>3. PICK P \in SUBSET Requests, seen \in [Requests -> Nat], cost \in [Requests -> Nat] :
            P = Pending(m) /\ seen = Seen /\ cost = Cost
      BY DEF Pending, Seen, Cost, TypeOK, Request
    <3>4. Uses(a, count, given, P, seen, cost)
      BY <3>1, <3>2, <3>3 DEF UsesAccounted, Daily
    <3> QED
      BY <3>2, <3>4, UsesBounded
  <2>2. CASE m[1] = "gaffer_month"
    <3>1. PICK g \in Periods : m = <<"gaffer_month", g>>
      BY <2>2
    <3>2. delivered[m] <= Allowance["gaffer_month"] /\ Requests # {}
      BY <3>1 DEF MonthAccounted
    <3>3. PICK size \in Nat : size = Cardinality(Requests) /\ 1 <= size
      <4>1. IsFiniteSet(Requests)
        BY WriterAssumption
      <4> QED
        BY <3>2, <4>1, FS_EmptySet, FS_CardinalityType
    <3>4. PICK k \in Nat : k = Allowance["gaffer_month"] - 1 /\ delivered[m] <= k + 1 /\ delivered[m] \in Nat
      BY <3>2, WriterAssumption DEF TypeOK, Metrics
    <3>5. Undone(1, k) <= Undone(size, k) /\ Undone(size, k) \in Nat
      BY <3>3, Products
    <3>6. Undone(1, k) = 2 + 2 * k
      BY DEF Undone
    <3> QED
      BY <2>2, <3>3, <3>4, <3>5, <3>6
  <2> QED
    BY <2>1, <2>2
<1> QED
  BY <1>1, UsesStart, TypeKept, UsesStep, PTL DEF Spec

-----------------------------------------------------------------------------
(* No two requests ever wait for each other's rows, for any requests, caps   *)
(* and allowances: who holds a counter has all it needs, and but for those   *)
(* the one request that holds the day's spend waits for nothing.             *)
THEOREM NoDeadlockAlways == Spec => []NoDeadlock
<1>1. TypeOK /\ SpendAccounted => NoDeadlock
  <2> SUFFICES ASSUME TypeOK, SpendAccounted, NEW one \in Requests, request[one] # Idle
               PROVE  \E r \in Requests : request[r] # Idle /\ ~Waits(r)
    BY DEF NoDeadlock
  <2> DEFINE holds(q) == request[q] # Idle /\ request[q].at \in {"store", "month"}
             spends(q) == request[q] # Idle /\ request[q].own > 0
  <2>1. \A q, r \in Requests : spends(q) /\ spends(r) => q = r
    BY DEF SpendAccounted, Within, Own
  <2>2. \A q \in Requests : request[q] # Idle => request[q].own \in Nat
    BY TheRequest DEF Request
  <2>3. CASE \E q \in Requests : holds(q)
    BY <2>3 DEF Waits, AtStep
  <2>4. CASE \A q \in Requests : ~holds(q)
    <3>1. \A r \in Requests : CounterFree(r)
      BY <2>4 DEF CounterFree
    <3>2. \E r \in Requests : request[r] # Idle /\ SpendRowFree(r)
      <4>1. CASE \E q \in Requests : spends(q)
        BY <2>1, <2>2, <4>1 DEF SpendRowFree
      <4>2. CASE \A q \in Requests : ~spends(q)
        BY <2>2, <4>2 DEF SpendRowFree
      <4> QED
        BY <4>1, <4>2
    <3> QED
      BY <3>1, <3>2 DEF Waits
  <2> QED
    BY <2>3, <2>4
<1>2. Init => TypeOK /\ RequestKnows /\ SpendAccounted
  BY TypeStarts, SpendStarts DEF Init, RequestKnows
<1> QED
  BY <1>1, <1>2, TypeKept, SpendStep, PTL DEF Spec
=============================================================================
