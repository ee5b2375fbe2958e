---------------------------- MODULE DispatchProofs ----------------------------
(***************************************************************************)
(* Proofs about Dispatch for any members, gameweeks, intervals, windows    *)
(* and number of mishaps and rewrites.                                     *)
(***************************************************************************)
EXTENDS Dispatch, WellFoundedInduction, TLAPS

(* The handler has sent this letter and not yet recorded it.                *)
Holding(l) == Writes /\ current.user # None /\ current.sent /\ l = Letter

(* What a handler that writes can rely on until its turn with a member is   *)
(* over: who is left to write to has no record of this recap, the member at *)
(* hand none of this letter, and `sent` is what the mail service answered.  *)
HandlerKnows ==
  Writes =>
    /\ current.user \notin current.todo
    /\ current.user # None => ~OnFile(Letter)
    /\ current.kind = "recap" => \A u \in current.todo : recap[u] < current.gw
    /\ current.sent <=> current.answer = "delivered"
    /\ current.answer # None => current.user # None
    /\ current.sent => sent[Letter] > 0

(* Of a letter that is neither on record nor in the hands of the handler    *)
(* every sending was a slip.                                                *)
Accounted == \A l \in Letters : ~OnFile(l) /\ ~Holding(l) => sent[l] <= slips[l]

IInv == TypeOK /\ HandlerKnows /\ Accounted /\ NeverTwice
-----------------------------------------------------------------------------
(* A set of naturals that is not empty has a least element, Min (the first  *)
(* of the deadlines to come, get_next_gameweek). *)
LEMMA MinOfNaturals ==
  ASSUME NEW S, S \subseteq Nat, S # {}
  PROVE  Min(S) \in S /\ \A y \in S : Min(S) <= y
<1> DEFINE R == {ss \in Nat \X Nat : ss[1] < ss[2]}
<1>1. IsWellFoundedOn(R, Nat)
  BY NatLessThanWellFounded, Zenon DEF OpToRel
<1>2. ASSUME NEW x \in Nat, NEW y \in Nat, y < x
      PROVE  <<y, x>> \in R
  BY <1>2
<1> HIDE DEF R
<1>3. PICK x \in S : \A y \in S : ~(<<y, x>> \in R)
  BY <1>1, WFMin, Zenon
<1>4. \A y \in S : x <= y
  <2>1. \A y \in S : ~(y < x) /\ x \in Nat /\ y \in Nat
    BY <1>2, <1>3
  <2> QED
    BY <2>1
<1> QED
  BY <1>4 DEF Min

(* A bounded set of naturals that is not empty has a greatest element, Max  *)
(* (the last gameweek that is finished). *)
LEMMA MaxOfNaturals ==
  ASSUME NEW S, S \subseteq Nat, S # {}, NEW n \in Nat, \A y \in S : y <= n
  PROVE  Max(S) \in S /\ \A y \in S : Max(S) >= y
<1> DEFINE T == {n - y : y \in S}
<1>1. T \subseteq Nat /\ T # {}
  <2>1. \A y \in S : n - y \in Nat
    OBVIOUS
  <2>2. PICK y \in S : TRUE
    OBVIOUS
  <2>3. n - y \in T
    OBVIOUS
  <2> QED
    BY <2>1, <2>3
<1>2. Min(T) \in T /\ \A z \in T : Min(T) <= z
  <2> HIDE DEF T
  <2> QED
    BY <1>1, MinOfNaturals
<1>3. PICK x \in S : Min(T) = n - x
  BY <1>2
<1>4. \A y \in S : x >= y
  BY <1>2, <1>3
<1> QED
  BY <1>4 DEF Max

(* Min and Max of two numbers (how long the worker sleeps at most). *)
LEMMA ExtremaOfTwo ==
  ASSUME NEW a \in Int, NEW b \in Int
  PROVE  /\ Min({a, b}) = IF a <= b THEN a ELSE b
         /\ Max({a, b}) = IF a >= b THEN a ELSE b
<1>1. Min({a, b}) \in {a, b} /\ \A y \in {a, b} : Min({a, b}) <= y
  <2>1. \E x \in {a, b} : \A y \in {a, b} : x <= y
    BY a <= b \/ b <= a
  <2> QED
    BY <2>1 DEF Min
<1>2. Max({a, b}) \in {a, b} /\ \A y \in {a, b} : Max({a, b}) >= y
  <2>1. \E x \in {a, b} : \A y \in {a, b} : x >= y
    BY a <= b \/ b <= a
  <2> QED
    BY <2>1 DEF Max
<1> QED
  BY <1>1, <1>2

-----------------------------------------------------------------------------
(* The state of a handler tells what it is. *)
LEMMA HandlerIs ==
  ASSUME TypeOK
  PROVE  /\ Writes => /\ current \in [kind : {"brief", "recap"}, gw : Gameweeks, todo : SUBSET Users,
                                 user : Users \cup {None}, answer : {None, "delivered", "not"},
                                 sent : BOOLEAN, gone : BOOLEAN]
                      /\ current # Idle
         /\ current.kind = "ingest_core" => ~Writes
         /\ current = Idle => ~Writes
  BY DispatchAssumption DEF TypeOK, Handler, Idle, Writes

(* The gameweek the dispatcher works for is one of the season. *)
LEMMA GameweekOf ==
  ASSUME TypeOK
  PROVE  /\ Upcoming # {} => Min(Upcoming) \in Gameweeks
         /\ NextGameweek \in Gameweeks \cup {None}
         /\ Max(Settled \cup {0}) \in Gameweeks \cup {0}
<1>1. Upcoming # {} => Min(Upcoming) \in Gameweeks
  <2>1. Upcoming \subseteq Nat /\ Upcoming \subseteq Gameweeks
    BY DispatchAssumption DEF Upcoming, Gameweeks
  <2> QED
    BY <2>1, MinOfNaturals
<1>2. NextGameweek \in Gameweeks \cup {None}
  BY <1>1 DEF NextGameweek, TypeOK
<1>3. Max(Settled \cup {0}) \in Settled \cup {0}
  <2>1. Settled \cup {0} \subseteq Nat /\ \A y \in Settled \cup {0} : y <= MaxGameweek
    BY DispatchAssumption DEF Settled, Gameweeks
  <2> QED
    BY <2>1, MaxOfNaturals, DispatchAssumption
<1> QED
  BY <1>1, <1>2, <1>3 DEF Settled

(* The worker that has looked at the deadline remembers where it was, and   *)
(* when every schedule last ran. *)
LEMMA RememberedIs ==
  ASSUME TypeOK
  PROVE  /\ Remembered \in Memory
         /\ Remembered.at = worker.at /\ Remembered.lastRun = worker.lastRun
         /\ Remembered.slow = worker.slow /\ Remembered.wake = worker.wake
         /\ Remembered.worked = worker.worked
<1>1. NextGameweek # None => DeadlineOf(NextGameweek) \in Nat
  BY GameweekOf, DispatchAssumption DEF DeadlineOf, Gameweeks
<1>2. worker \in Memory
  BY DEF TypeOK
<1>3. now \in Times
  BY DEF TypeOK
<1> QED
  BY <1>1, <1>2, <1>3 DEF Remembered, Memory

(* How long the worker sleeps, if nothing is due, is a number of ticks. *)
LEMMA UntilDueIs ==
  ASSUME TypeOK, NEW w \in Memory
  PROVE  UntilDue(w) \in Nat
<1>1. CASE \E s \in Schedules : w.lastRun[s] = None
  BY <1>1 DEF UntilDue
<1>2. CASE \A s \in Schedules : w.lastRun[s] # None
  <2> DEFINE d(s) == Interval(s, NearDeadline(w)) - (now - w.lastRun[s])
             D == {d(s) : s \in Schedules}
  <2>1. \A s \in Schedules : d(s) \in Int
    BY <1>2, DispatchAssumption DEF TypeOK, Interval, Memory, Times
  <2>2. \E x \in D : \A y \in D : x <= y
    <3> DEFINE a == d("ingest_core")
               b == d("dispatch_deadline_briefs")
               c == d("dispatch_recaps")
    <3>1. D = {a, b, c}
      BY DEF Schedules
    <3>2. a \in Int /\ b \in Int /\ c \in Int
      BY <2>1 DEF Schedules
    <3> HIDE DEF a, b, c, D
    <3>3. \E x \in {a, b, c} : x <= a /\ x <= b /\ x <= c
      BY <3>2
    <3> QED
      BY <3>1, <3>3
  <2>3. Min(D) \in Int
    <3>1. Min(D) \in D
      BY <2>2 DEF Min
    <3> QED
      BY <2>1, <3>1
  <2>4. UntilDue(w) = Max({0, Min(D)})
    BY <1>2 DEF UntilDue
  <2> DEFINE m == Min(D)
  <2> HIDE DEF m
  <2>5. m \in Int
    BY <2>3 DEF m
  <2>6. Max({0, m}) \in Nat
    BY <2>5, ExtremaOfTwo
  <2> QED
    BY <2>4, <2>6 DEF m
<1> QED
  BY <1>1, <1>2

(* What the worker remembers once it has looked at its schedules. *)
LEMMA NotedIs ==
  ASSUME TypeOK
  PROVE  Noted \in Memory /\ Noted.at = worker.at
<1>1. Remembered \in Memory /\ Remembered.at = worker.at
  BY RememberedIs
<1>2. now \in Times
  BY DEF TypeOK
<1> QED
  BY <1>1, <1>2 DEF Noted, Memory

(* A dispatcher starts with nobody at hand. *)
LEMMA WritingIs ==
  ASSUME NEW kind \in {"brief", "recap"}, NEW g \in Gameweeks, NEW to \in SUBSET Users
  PROVE  Writing(kind, g, to) \in Handler
  BY DEF Writing, Handler

(* A letter at hand is one of the letters. *)
LEMMA LetterIs ==
  ASSUME TypeOK, Writes, current.user # None
  PROVE  Letter \in Letters
  BY HandlerIs DEF Letter, Letters
-----------------------------------------------------------------------------
(* The worker starts well typed, with nothing sent. *)
LEMMA InitInv == Init => IInv
<1> SUFFICES ASSUME Init  PROVE IInv
  OBVIOUS
<1>1. TypeOK
  <2>1. worker \in Memory
    BY DispatchAssumption DEF Init, Fresh, Memory, Times
  <2>2. now \in Times /\ next \in Gameweeks /\ queuedAt \in [Schedules -> Times]
    BY DispatchAssumption DEF Init, Times, Gameweeks
  <2>3. recap \in [Users -> 0..MaxGameweek] /\ mishaps \in Nat
        /\ rewrites \in 0..MaxRewrites
    BY DispatchAssumption DEF Init
  <2> QED
    BY <2>1, <2>2, <2>3 DEF Init, TypeOK
<1>2. HandlerKnows
  BY <1>1, HandlerIs DEF Init, HandlerKnows
<1>3. Accounted /\ NeverTwice
  BY DEF Init, Accounted, NeverTwice
<1> QED
  BY <1>1, <1>2, <1>3 DEF IInv

(* Every step keeps the state well typed. *)
LEMMA NextType ==
  ASSUME TypeOK, HandlerKnows, [Next]_vars
  PROVE  TypeOK'
<1> USE DispatchAssumption DEF tables, bounds, history
<1>0. now \in Nat /\ worker \in Memory
  BY DEF TypeOK, Times
<1>1. CASE TickSchedules
  BY <1>1, NotedIs DEF TickSchedules, TypeOK, Memory
<1>2. CASE TickFails
  BY <1>2, NotedIs DEF TickFails, TypeOK, Mishap
<1>3. CASE Drain
  BY <1>3 DEF Drain, TypeOK, Memory
<1>4. CASE Sleep
  <2> DEFINE nap == IF worker.worked THEN 0 ELSE Min({IdleMax, UntilDue(Remembered)})
             lost == IF worker.worked THEN Remembered.slow ELSE 0
  <2>1. Remembered \in Memory
    BY RememberedIs
  <2>2. UntilDue(Remembered) \in Nat
    BY <2>1, UntilDueIs
  <2>3. nap \in Nat
    BY <2>2, ExtremaOfTwo, SMTT(30)
  <2>4. now + nap \in Nat
    BY <2>3 DEF TypeOK, Times
  <2> HIDE DEF nap
  <2>5. worker' = [Remembered EXCEPT !.at = "asleep", !.wake = now + nap, !.slow = lost]
    BY <1>4, <2>1 DEF Sleep, nap, Memory
  <2>6. lost \in 0..MaxSlow
    BY <2>1 DEF Memory
  <2> HIDE DEF lost
  <2>7. worker' \in Memory
    BY <2>1, <2>4, <2>5, <2>6 DEF Memory
  <2> QED
    BY <1>4, <2>7 DEF Sleep, TypeOK
<1>5. CASE StartIngest
  BY <1>5 DEF StartIngest, Begins, TypeOK, Handler
<1>6. CASE FinishIngest
  BY <1>6, GameweekOf DEF FinishIngest, Ends, TypeOK
<1>7. CASE StartBriefs
  <2>1. current' \in Handler \cup {Idle}
    BY <1>7, GameweekOf, WritingIs DEF StartBriefs, Ends, InWindow
  <2>2. job' \in [Schedules -> {"none", "ready", "claimed", "held"}]
    BY <1>7 DEF StartBriefs, Ends, TypeOK
  <2> QED
    BY <1>7, <2>1, <2>2 DEF StartBriefs, Begins, TypeOK
<1>8. CASE StartRecaps
  <2>1. current' \in Handler \cup {Idle}
    BY <1>8, WritingIs DEF StartRecaps, Ends, TypeOK, Gameweeks
  <2>2. job' \in [Schedules -> {"none", "ready", "claimed", "held"}]
    BY <1>8 DEF StartRecaps, Ends, TypeOK
  <2> QED
    BY <1>8, <2>1, <2>2 DEF StartRecaps, Begins, TypeOK
<1>9. ASSUME NEW u \in Users, PassOver(u)  PROVE TypeOK'
  BY <1>9, HandlerIs DEF PassOver, Between, TypeOK, Handler
<1>10. ASSUME NEW u \in Users, TakeUp(u)  PROVE TypeOK'
  BY <1>10, HandlerIs DEF TakeUp, Between, TypeOK, Handler
<1>11. ASSUME NEW u \in Users, SkipBrief(u)  PROVE TypeOK'
  BY <1>11, HandlerIs DEF SkipBrief, Between, Mishap, TypeOK, Handler
<1>12. ASSUME NEW u \in Users, ViewBrief(u)  PROVE TypeOK'
  <2>1. brief' \in [Users \X Gameweeks -> BOOLEAN \cup {None}]
    BY <1>12, GameweekOf DEF ViewBrief, TypeOK
  <2>2. rewrites < MaxRewrites /\ rewrites' = rewrites + 1 /\ rewrites \in 0..MaxRewrites
    BY <1>12, Zenon DEF ViewBrief, TypeOK
  <2>3. rewrites' \in 0..MaxRewrites
    BY <2>2
  <2> QED
    BY <1>12, <2>1, <2>3 DEF ViewBrief, TypeOK
<1>13. ASSUME NEW u \in Users, RewriteBrief(u)  PROVE TypeOK'
  <2>1. <<u, NextGameweek>> \in Users \X Gameweeks /\ <<"brief", u, NextGameweek>> \in Letters
    BY <1>13, GameweekOf DEF RewriteBrief, Letters
  <2>3. slips' \in [Letters -> Nat] /\ rewrites' \in 0..MaxRewrites
    <3>1. slips[<<"brief", u, NextGameweek>>] \in Nat
      BY <2>1 DEF TypeOK
    <3>2. rewrites < MaxRewrites /\ rewrites' = rewrites + 1 /\ rewrites \in 0..MaxRewrites
      BY <1>13, Zenon DEF RewriteBrief, TypeOK
    <3> DEFINE l == <<"brief", u, NextGameweek>>
               mailed == brief[u, NextGameweek] = TRUE
               k == IF mailed THEN slips[l] + 1 ELSE slips[l]
    <3>3. slips' = [slips EXCEPT ![l] = k]
      BY <1>13, Zenon DEF RewriteBrief
    <3>6. k \in Nat
      <4> HIDE DEF mailed
      <4> QED
        BY <3>1
    <3> HIDE DEF l, k
    <3>4. slips' \in [Letters -> Nat]
      BY <3>3, <3>6 DEF TypeOK
    <3>5. rewrites' \in 0..MaxRewrites
      BY <3>2
    <3> QED
      BY <3>4, <3>5
  <2>4. brief' \in [Users \X Gameweeks -> BOOLEAN \cup {None}]
    BY <1>13, <2>1 DEF RewriteBrief, TypeOK
  <2>2. current' \in Handler \cup {Idle}
    BY <1>13, HandlerIs DEF RewriteBrief, HeldByWorker, TypeOK, Handler, Writes
  <2> QED
    BY <1>13, <2>1, <2>2, <2>3, <2>4 DEF RewriteBrief, TypeOK
<1>14. ASSUME NEW u \in Users, TrackAgain(u)  PROVE TypeOK'
  BY <1>14 DEF TrackAgain, TypeOK
<1>15. CASE Deliver
  <2>1. current' \in Handler
    BY <1>15, HandlerIs DEF Deliver, Sending, Handler
  <2>2. sent' \in [Letters -> Nat]
    BY <1>15, LetterIs DEF Deliver, Sending, TypeOK
  <2> QED
    BY <1>15, <2>1, <2>2 DEF Deliver, TypeOK
<1>16. CASE AnswerLost
  BY <1>16, HandlerIs, LetterIs DEF AnswerLost, Sending, Mishap, TypeOK, Handler
<1>17. CASE NotTaken
  BY <1>17, HandlerIs DEF NotTaken, Sending, Mishap, TypeOK, Handler
<1>18. CASE RecordBrief
  <2>1. Writes
    BY <1>18 DEF RecordBrief, Handles, Writes
  <2>2. current.user \in Users /\ current.gw \in Gameweeks
    BY <1>18, <2>1, HandlerIs DEF RecordBrief, HandlerKnows
  <2>3. current' \in Handler
    BY <1>18, <2>1, HandlerIs DEF RecordBrief, NextRecipient, Handler
  <2>4. brief' \in [Users \X Gameweeks -> BOOLEAN \cup {None}]
    BY <1>18, <2>2 DEF RecordBrief, Delivered, TypeOK
  <2> QED
    BY <1>18, <2>3, <2>4 DEF RecordBrief, TypeOK
<1>19. CASE RecordRecap
  <2>1. Writes
    BY <1>19 DEF RecordRecap, Handles, Writes
  <2>2. current.user \in Users /\ current.gw \in 0..MaxGameweek
    BY <1>19, <2>1, HandlerIs DEF RecordRecap, HandlerKnows, Gameweeks
  <2>3. current' \in Handler
    BY <1>19, <2>1, HandlerIs DEF RecordRecap, NextRecipient, Handler
  <2>4. recap' \in [Users -> 0..MaxGameweek]
    BY <1>19, <2>2 DEF RecordRecap, TypeOK
  <2> QED
    BY <1>19, <2>3, <2>4 DEF RecordRecap, TypeOK
<1>20. ASSUME HandlerRaises, mishaps' = mishaps + 1, UNCHANGED rewrites  PROVE TypeOK'
  <2>1. slips' \in [Letters -> Nat]
    BY <1>20, LetterIs DEF HandlerRaises, LostRecord, TypeOK
  <2>2. worker' \in Memory
    BY <1>0, <1>20 DEF HandlerRaises, Memory
  <2> QED
    BY <1>20, <2>1, <2>2 DEF HandlerRaises, Abandoned, TypeOK
<1>21. CASE RecordConflicts
  BY <1>20, <1>21 DEF RecordConflicts
<1>22. CASE HandlerFails
  BY <1>20, <1>22 DEF HandlerFails, Mishap
<1>23. CASE FinishLetters
  BY <1>23 DEF FinishLetters, Ends, JobOf, TypeOK
<1>24. CASE WorkerDies
  <2>1. slips' \in [Letters -> Nat]
    BY <1>24, LetterIs DEF WorkerDies, LostRecord, TypeOK
  <2>2. worker' \in Memory
    BY <1>24 DEF WorkerDies, TypeOK, Memory
  <2> QED
    BY <1>24, <2>1, <2>2 DEF WorkerDies, Abandoned, Mishap, TypeOK
<1>25. CASE Restart
  <2>1. Fresh \in Memory /\ worker.slow \in 0..MaxSlow
    BY DEF Fresh, Memory, TypeOK
  <2>2. worker' \in Memory
    BY <1>25, <2>1, <1>0 DEF Restart, Memory
  <2> QED
    BY <1>25, <2>2 DEF Restart, TypeOK
<1>26. CASE Tick
  <2>1. worker' \in Memory
    BY <1>26 DEF Tick, TypeOK, Memory
  <2> QED
    BY <1>26, <2>1 DEF Tick, TypeOK, Times
<1>27. CASE UNCHANGED vars
  BY <1>27 DEF vars, TypeOK
<1> QED
  BY <1>1, <1>2, <1>3, <1>4, <1>5, <1>6, <1>7, <1>8, <1>9, <1>10, <1>11, <1>12, <1>13, <1>14,
     <1>15, <1>16, <1>17, <1>18, <1>19, <1>21, <1>22, <1>23, <1>24, <1>25, <1>26, <1>27 DEF Next
-----------------------------------------------------------------------------
(* What each action does to the record. *)

(* Only who writes, views, rewrites or tracks anew changes what is on file. *)
LEMMA RecordKept ==
  ASSUME UNCHANGED <<brief, recap>>
  PROVE  \A l \in Letters : OnFile(l)' <=> OnFile(l)
  BY DEF OnFile

(* A brief that a member looks at is not on record as e-mailed, before or   *)
(* after. *)
LEMMA RecordViewed ==
  ASSUME TypeOK, NEW u \in Users, ViewBrief(u)
  PROVE  \A l \in Letters : OnFile(l)' <=> OnFile(l)
<1>1. PICK g \in Gameweeks : brief[<<u, g>>] = None /\ brief' = [brief EXCEPT ![<<u, g>>] = FALSE]
  BY GameweekOf DEF ViewBrief
<1>2. recap' = recap
  BY DEF ViewBrief
<1> SUFFICES ASSUME NEW l \in Letters  PROVE OnFile(l)' <=> OnFile(l)
  OBVIOUS
<1>3. CASE l[1] = "brief" /\ <<l[2], l[3]>> = <<u, g>>
  BY <1>1, <1>3, DispatchAssumption DEF OnFile, TypeOK
<1>4. CASE l[1] = "brief" /\ <<l[2], l[3]>> # <<u, g>>
  BY <1>1, <1>4 DEF OnFile, TypeOK, Letters
<1>5. CASE l[1] # "brief"
  BY <1>2, <1>5 DEF OnFile
<1> QED
  BY <1>3, <1>4, <1>5

(* A brief that is rewritten is off the record. *)
LEMMA RecordRewritten ==
  ASSUME TypeOK, NEW u \in Users, RewriteBrief(u)
  PROVE  /\ NextGameweek \in Gameweeks
         /\ \A l \in Letters : OnFile(l)' <=> OnFile(l) /\ l # <<"brief", u, NextGameweek>>
<1>1. NextGameweek \in Gameweeks
  BY GameweekOf DEF RewriteBrief
<1>2. PICK g \in Gameweeks : g = NextGameweek
  BY <1>1
<1>3. brief' = [brief EXCEPT ![<<u, g>>] = FALSE] /\ recap' = recap
  BY <1>2 DEF RewriteBrief
<1>4. ASSUME NEW l \in Letters  PROVE OnFile(l)' <=> OnFile(l) /\ l # <<"brief", u, g>>
  <2>0. l = <<l[1], l[2], l[3]>> /\ <<l[2], l[3]>> \in Users \X Gameweeks
    BY DEF Letters
  <2>1. CASE l[1] = "brief" /\ <<l[2], l[3]>> = <<u, g>>
    <3>1. brief'[<<l[2], l[3]>>] = FALSE
      BY <1>3, <2>0, <2>1 DEF TypeOK
    <3> QED
      BY <2>0, <2>1, <3>1, Zenon DEF OnFile
  <2>2. CASE l[1] = "brief" /\ <<l[2], l[3]>> # <<u, g>>
    <3>1. brief'[<<l[2], l[3]>>] = brief[<<l[2], l[3]>>]
      BY <1>3, <2>0, <2>2 DEF TypeOK
    <3>2. l # <<"brief", u, g>>
      BY <2>2
    <3> QED
      BY <2>2, <3>1, <3>2, Zenon DEF OnFile
  <2>3. CASE l[1] # "brief"
    <3>1. l # <<"brief", u, g>>
      BY <2>3
    <3> QED
      BY <1>3, <2>3, <3>1, Zenon DEF OnFile
  <2> QED
    BY <2>1, <2>2, <2>3
<1> QED
  BY <1>1, <1>2, <1>4

(* Of a league that is tracked anew no recap is on record. *)
LEMMA RecordTrackedAgain ==
  ASSUME TypeOK, NEW u \in Users, TrackAgain(u)
  PROVE  \A l \in Letters : OnFile(l)' <=> OnFile(l) /\ ~(l[1] = "recap" /\ l[2] = u)
<1>1. brief' = brief /\ recap' = [recap EXCEPT ![u] = 0]
  BY DEF TrackAgain
<1> SUFFICES ASSUME NEW l \in Letters
             PROVE  OnFile(l)' <=> OnFile(l) /\ ~(l[1] = "recap" /\ l[2] = u)
  OBVIOUS
<1>2. CASE l[1] = "brief"
  BY <1>1, <1>2 DEF OnFile
<1>3. CASE l[1] = "recap"
  BY <1>1, <1>3 DEF OnFile, TypeOK, Letters, Gameweeks
<1> QED
  BY <1>2, <1>3 DEF Letters

(* A brief that was delivered is put on record, and no other. *)
LEMMA RecordOfBrief ==
  ASSUME TypeOK, HandlerKnows, RecordBrief
  PROVE  /\ Writes /\ current.user # None
         /\ \A l \in Letters : OnFile(l)' <=> OnFile(l) \/ (Delivered /\ l = Letter)
<1>1. Writes /\ current.user # None /\ current.kind = "brief"
  BY DEF RecordBrief, Handles, Writes, HandlerKnows
<1>2. PICK u \in Users, g \in Gameweeks : current.user = u /\ current.gw = g
  BY <1>1, HandlerIs
<1>3. brief' = [brief EXCEPT ![<<u, g>>] = Delivered \/ @ = TRUE] /\ recap' = recap
  BY <1>2 DEF RecordBrief
<1>4. ~OnFile(Letter) /\ Letter = <<"brief", u, g>>
  BY <1>1, <1>2 DEF HandlerKnows, Letter
<1>5. brief[<<u, g>>] # TRUE
  BY <1>4 DEF OnFile
<1>6. brief' = [brief EXCEPT ![<<u, g>>] = Delivered]
  BY <1>3, <1>5 DEF Delivered
<1>7. ASSUME NEW l \in Letters  PROVE OnFile(l)' <=> OnFile(l) \/ (Delivered /\ l = Letter)
  <2>1. CASE l = Letter
    BY <1>4, <1>6, <2>1 DEF OnFile, TypeOK, Delivered
  <2>2. CASE l # Letter /\ l[1] = "brief"
    <3>1. l = <<l[1], l[2], l[3]>> /\ <<l[2], l[3]>> \in Users \X Gameweeks
      BY DEF Letters
    <3>2. brief'[<<l[2], l[3]>>] = brief[<<l[2], l[3]>>]
      BY <1>4, <1>6, <2>2, <3>1 DEF TypeOK
    <3> QED
      BY <2>2, <3>2, Zenon DEF OnFile
  <2>3. CASE l # Letter /\ l[1] # "brief"
    BY <1>3, <2>3 DEF OnFile
  <2> QED
    BY <2>1, <2>2, <2>3
<1> QED
  BY <1>1, <1>7

(* A recap that was delivered is put on record, with those of the           *)
(* gameweeks before it. *)
LEMMA RecordOfRecap ==
  ASSUME TypeOK, HandlerKnows, RecordRecap
  PROVE  /\ Writes /\ current.user # None
         /\ Letter = <<"recap", current.user, current.gw>>
         /\ \A l \in Letters :
              OnFile(l)' <=> OnFile(l) \/ (/\ Delivered
                                         /\ l[1] = "recap" /\ l[2] = current.user
                                         /\ l[3] <= current.gw)
<1>1. Writes /\ current.user # None /\ current.kind = "recap"
  BY DEF RecordRecap, Handles, Writes, HandlerKnows
<1>2. PICK u \in Users, g \in Gameweeks : current.user = u /\ current.gw = g
  BY <1>1, HandlerIs
<1>3. recap' = [recap EXCEPT ![u] = IF Delivered THEN g ELSE @] /\ brief' = brief
  BY <1>2 DEF RecordRecap
<1>4. ~OnFile(Letter) /\ Letter = <<"recap", u, g>>
  BY <1>1, <1>2 DEF HandlerKnows, Letter
<1>5. recap[u] < g /\ g \in Nat /\ recap[u] \in Nat
  BY <1>4 DEF OnFile, TypeOK, Gameweeks
<1>6. ASSUME NEW l \in Letters
      PROVE  OnFile(l)' <=> OnFile(l) \/ (Delivered /\ l[1] = "recap" /\ l[2] = u /\ l[3] <= g)
  <2>1. CASE l[1] = "brief"
    BY <1>3, <2>1 DEF OnFile
  <2>2. CASE l[1] = "recap" /\ l[2] # u
    BY <1>3, <2>2 DEF OnFile, TypeOK, Letters
  <2>3. CASE l[1] = "recap" /\ l[2] = u
    <3>1. l[3] \in Nat
      BY DEF Letters, Gameweeks
    <3>2. CASE Delivered
      BY <1>3, <1>5, <2>3, <3>1, <3>2 DEF OnFile, TypeOK
    <3>3. CASE ~Delivered
      BY <1>3, <1>5, <2>3, <3>1, <3>3 DEF OnFile, TypeOK
    <3> QED
      BY <3>2, <3>3
  <2> QED
    BY <2>1, <2>2, <2>3 DEF Letters
<1> QED
  BY <1>1, <1>2, <1>4, <1>6
-----------------------------------------------------------------------------
(* The invariant is kept. *)

(* A step that leaves the handler and the record alone leaves what the      *)
(* handler knows true. *)
LEMMA KnowsStutter ==
  ASSUME HandlerKnows, UNCHANGED <<current, brief, recap, sent>>
  PROVE  HandlerKnows'
  BY DEF HandlerKnows, Writes, OnFile, Letter

(* Without a handler that writes there is nothing to know. *)
LEMMA KnowsNothing ==
  ASSUME TypeOK', current' = Idle \/ current' = [kind |-> "ingest_core"]
  PROVE  HandlerKnows'
  BY DispatchAssumption DEF HandlerKnows, Writes, Idle

(* What a handler knows of the member at hand stays true through every      *)
(* step, its own and those of members who look, rewrite and track anew. *)
LEMMA NextKnows ==
  ASSUME TypeOK, TypeOK', HandlerKnows, [Next]_vars
  PROVE  HandlerKnows'
<1> USE DEF tables, bounds, history
<1>1. CASE TickSchedules \/ TickFails \/ Drain \/ Sleep \/ Restart \/ Tick \/ UNCHANGED vars
  BY <1>1, KnowsStutter DEF TickSchedules, TickFails, Drain, Sleep, Restart, Tick, vars
<1>2. CASE StartIngest \/ FinishIngest \/ FinishLetters \/ RecordConflicts \/ HandlerFails \/ WorkerDies
  BY <1>2, KnowsNothing DEF StartIngest, FinishIngest, FinishLetters, RecordConflicts, HandlerFails,
                            WorkerDies, HandlerRaises, Ends
<1>3. CASE StartBriefs
  <2>1. CASE current' = Idle
    BY <2>1, KnowsNothing
  <2>2. CASE current' = Writing("brief", NextGameweek, Users)
    BY <2>2, DispatchAssumption DEF Writing, HandlerKnows, Writes, OnFile, Letter
  <2> QED
    BY <1>3, <2>1, <2>2 DEF StartBriefs, Ends
<1>4. CASE StartRecaps
  <2>1. CASE current' = Idle
    BY <2>1, KnowsNothing
  <2>2. CASE current' = Writing("recap", finished, {u \in Users : ~OnRecord("recap", u, finished)})
    <3>1. recap' = recap
      BY <1>4 DEF StartRecaps
    <3>2. \A u \in current'.todo : recap'[u] < current'.gw
      BY <2>2, <3>1, DispatchAssumption DEF Writing, OnRecord, TypeOK, Gameweeks
    <3> QED
      BY <2>2, <3>2, DispatchAssumption DEF Writing, HandlerKnows, Writes, OnFile, Letter
  <2> QED
    BY <1>4, <2>1, <2>2 DEF StartRecaps, Ends
<1>5. ASSUME NEW u \in Users, PassOver(u) \/ SkipBrief(u)  PROVE HandlerKnows'
  BY <1>5, HandlerIs DEF PassOver, SkipBrief, Between, HandlerKnows, Writes, OnFile, Letter
<1>6. ASSUME NEW u \in Users, TakeUp(u)  PROVE HandlerKnows'
  <2>1. Writes /\ u \in current.todo /\ Wanted(u) /\ UNCHANGED <<brief, recap>>
        /\ current.user = None /\ current' = [current EXCEPT !.todo = @ \ {u}, !.user = u]
    BY <1>6 DEF TakeUp, Between
  <2>2. /\ current'.kind = current.kind /\ current'.gw = current.gw
        /\ current'.todo = current.todo \ {u} /\ current'.user = u
        /\ current'.answer = current.answer /\ current'.sent = current.sent
    BY <2>1, HandlerIs
  <2>3. ~current.sent /\ current.answer = None
    BY <2>1, DispatchAssumption DEF HandlerKnows
  <2>4. current.kind = "brief" => brief[u, current.gw] # TRUE
    BY <2>1, Zenon DEF Wanted, OnRecord
  <2>5. current.kind = "recap" => ~(recap[u] >= current.gw)
    BY <2>1, HandlerIs DEF HandlerKnows, TypeOK, Gameweeks
  <2>6. ~OnFile(Letter)'
    BY <2>1, <2>2, <2>4, <2>5, HandlerIs DEF OnFile, Letter
  <2> QED
    BY <2>1, <2>2, <2>3, <2>6, DispatchAssumption DEF HandlerKnows
<1>7. ASSUME NEW u \in Users, ViewBrief(u)  PROVE HandlerKnows'
  <2>1. UNCHANGED <<current, recap, sent>>
    BY <1>7 DEF ViewBrief
  <2>2. Writes /\ current.user # None => ~OnFile(Letter)'
    BY <1>7, <2>1, RecordViewed, LetterIs DEF Letter, HandlerKnows
  <2> QED
    BY <2>1, <2>2 DEF HandlerKnows, Writes, Letter
<1>8. ASSUME NEW u \in Users, RewriteBrief(u)  PROVE HandlerKnows'
  <2>1. recap' = recap /\ sent' = sent
    BY <1>8 DEF RewriteBrief
  <2>2. current' = current \/ (Writes /\ current' = [current EXCEPT !.gone = TRUE])
    BY <1>8 DEF RewriteBrief, HeldByWorker, Writes
  <2>3. \A l \in Letters : OnFile(l)' => OnFile(l)
    BY <1>8, RecordRewritten
  <2>4. CASE current' = current
    <3>1. Writes /\ current.user # None => ~OnFile(Letter)'
      BY <2>3, <2>4, LetterIs DEF Letter, HandlerKnows
    <3> QED
      BY <2>1, <2>4, <3>1 DEF HandlerKnows, Writes, Letter
  <2>5. CASE Writes /\ current' = [current EXCEPT !.gone = TRUE]
    <3>1. /\ current'.kind = current.kind /\ current'.gw = current.gw /\ current'.todo = current.todo
          /\ current'.user = current.user /\ current'.answer = current.answer
          /\ current'.sent = current.sent
      BY <2>5, HandlerIs
    <3>2. Letter' = Letter /\ Writes'
      BY <2>5, <3>1 DEF Letter, Writes
    <3>3. current.user # None => ~OnFile(Letter)'
      BY <2>3, <2>5, <3>2, LetterIs DEF HandlerKnows, OnFile
    <3> QED
      BY <2>1, <2>5, <3>1, <3>2, <3>3 DEF HandlerKnows
  <2> QED
    BY <2>2, <2>4, <2>5
<1>9. ASSUME NEW u \in Users, TrackAgain(u)  PROVE HandlerKnows'
  <2>1. UNCHANGED <<current, brief, sent>> /\ recap' = [recap EXCEPT ![u] = 0]
    BY <1>9 DEF TrackAgain
  <2>2. Writes /\ current.user # None => ~OnFile(Letter)'
    BY <1>9, <2>1, RecordTrackedAgain, LetterIs DEF Letter, HandlerKnows
  <2>3. Writes /\ current.kind = "recap" => \A v \in current.todo : recap'[v] < current.gw
    <3> SUFFICES ASSUME Writes, current.kind = "recap", NEW v \in current.todo
                 PROVE  recap'[v] < current.gw
      OBVIOUS
    <3>1. v \in Users /\ current.gw \in Gameweeks
      BY HandlerIs
    <3>2. recap[v] < current.gw
      BY DEF HandlerKnows
    <3> QED
      BY <2>1, <3>1, <3>2, DispatchAssumption DEF TypeOK, Gameweeks
  <2> QED
    BY <2>1, <2>2, <2>3 DEF HandlerKnows, Writes, Letter
<1>10. CASE Deliver
  <2>1. current' = [current EXCEPT !.answer = "delivered", !.sent = TRUE]
        /\ sent' = [sent EXCEPT ![Letter] = @ + 1] /\ UNCHANGED <<brief, recap>>
    BY <1>10 DEF Deliver
  <2>2. Writes /\ current.user # None
    BY <1>10 DEF Deliver, Sending
  <2>3. /\ current'.kind = current.kind /\ current'.gw = current.gw /\ current'.todo = current.todo
        /\ current'.user = current.user /\ current'.answer = "delivered" /\ current'.sent = TRUE
    BY <2>1, <2>2, HandlerIs
  <2>4. Letter' = Letter /\ sent'[Letter] > 0
    BY <2>1, <2>2, <2>3, LetterIs DEF Letter, TypeOK
  <2> QED
    BY <2>1, <2>2, <2>3, <2>4 DEF HandlerKnows, Writes, OnFile
<1>11. CASE AnswerLost \/ NotTaken
  <2>1. current' = [current EXCEPT !.answer = "not"] /\ UNCHANGED <<brief, recap>>
    BY <1>11 DEF AnswerLost, NotTaken
  <2>2. Writes /\ current.user # None /\ current.answer = None
    BY <1>11 DEF AnswerLost, NotTaken, Sending
  <2>3. ~current.sent
    BY <2>2, DispatchAssumption DEF HandlerKnows
  <2>4. /\ current'.kind = current.kind /\ current'.gw = current.gw /\ current'.todo = current.todo
        /\ current'.user = current.user /\ current'.answer = "not" /\ current'.sent = current.sent
    BY <2>1, <2>2, HandlerIs
  <2> QED
    BY <2>1, <2>2, <2>3, <2>4 DEF HandlerKnows, Writes, OnFile, Letter
<1>12. ASSUME RecordBrief \/ RecordRecap  PROVE HandlerKnows'
  <2>1. Writes /\ current.user # None /\ current' = NextRecipient
    BY <1>12, RecordOfBrief, RecordOfRecap DEF RecordBrief, RecordRecap
  <2>2. /\ current'.kind = current.kind /\ current'.gw = current.gw /\ current'.todo = current.todo
        /\ current'.user = None /\ current'.answer = None /\ current'.sent = FALSE
    BY <2>1, HandlerIs DEF NextRecipient
  <2>3. None \notin current.todo
    BY <2>1, HandlerIs, DispatchAssumption
  <2>4. current.kind = "recap" => \A u \in current.todo : recap'[u] < current.gw
    <3> SUFFICES ASSUME current.kind = "recap", NEW u \in current.todo
                 PROVE  recap'[u] < current.gw
      OBVIOUS
    <3>1. u # current.user /\ recap[u] < current.gw /\ u \in Users
      BY <2>1, HandlerIs DEF HandlerKnows
    <3>2. recap' = [recap EXCEPT ![current.user] = IF Delivered THEN current.gw ELSE @]
      BY <1>12 DEF RecordBrief, RecordRecap, Handles
    <3> QED
      BY <3>1, <3>2 DEF TypeOK
  <2> QED
    BY <2>2, <2>3, <2>4, DispatchAssumption DEF HandlerKnows
<1> QED
  BY <1>1, <1>2, <1>3, <1>4, <1>5, <1>6, <1>7, <1>8, <1>9, <1>10, <1>11, <1>12 DEF Next

(* A step that sends nothing, loses no record and keeps what is on file or  *)
(* at hand keeps the account. *)
LEMMA AccountKept ==
  ASSUME Accounted, NeverTwice, UNCHANGED <<sent, slips>>,
         \A l \in Letters : OnFile(l) \/ Holding(l) => OnFile(l)' \/ Holding(l)'
  PROVE  Accounted' /\ NeverTwice'
  BY DEF Accounted, NeverTwice

(* A handler that is rolled back, or dies, slips the letter it has sent and *)
(* not recorded. *)
LEMMA AccountOfTheLost ==
  ASSUME TypeOK, Accounted, NeverTwice, LostRecord, UNCHANGED <<sent, brief, recap>>
  PROVE  Accounted' /\ NeverTwice'
<1> SUFFICES ASSUME NEW l \in Letters
             PROVE  sent'[l] <= 1 + slips'[l] /\ (~OnFile(l)' => sent'[l] <= slips'[l])
  BY DEF Accounted, NeverTwice
<1>1. sent[l] \in Nat /\ slips[l] \in Nat /\ sent' = sent
  BY DEF TypeOK
<1>2. OnFile(l)' <=> OnFile(l)
  BY RecordKept
<1>3. CASE Holding(l)
  <2>1. slips'[l] = slips[l] + 1
    BY <1>3 DEF LostRecord, Holding, TypeOK
  <2> QED
    BY <1>1, <2>1 DEF NeverTwice
<1>4. CASE ~Holding(l)
  <2>1. slips'[l] = slips[l]
    BY <1>4 DEF LostRecord, Holding, TypeOK
  <2> QED
    BY <1>1, <1>2, <1>4, <2>1 DEF NeverTwice, Accounted
<1> QED
  BY <1>3, <1>4

(* Every step keeps the account: who sends has found no record, and who     *)
(* takes a letter off the record slips it. *)
LEMMA NextAccounted ==
  ASSUME IInv, [Next]_vars
  PROVE  Accounted' /\ NeverTwice'
<1> USE DEF IInv, tables, bounds, history
<1>1. CASE TickSchedules \/ TickFails \/ Drain \/ Sleep \/ Restart \/ Tick \/ UNCHANGED vars
  <2>1. UNCHANGED <<current, brief, recap, sent, slips>>
    BY <1>1 DEF TickSchedules, TickFails, Drain, Sleep, Restart, Tick, vars
  <2> QED
    BY <2>1, AccountKept DEF Holding, Writes, Letter, OnFile
<1>2. CASE StartIngest \/ StartBriefs \/ StartRecaps
  <2>1. UNCHANGED <<brief, recap, sent, slips>> /\ ~Writes
    BY <1>2, HandlerIs DEF StartIngest, StartBriefs, StartRecaps, Begins
  <2> QED
    BY <2>1, AccountKept DEF Holding, OnFile
<1>3. CASE FinishIngest \/ FinishLetters
  <2>1. UNCHANGED <<brief, recap, sent, slips>> /\ (Writes => current.user = None)
    BY <1>3, HandlerIs DEF FinishIngest, FinishLetters, Between
  <2> QED
    BY <2>1, AccountKept DEF Holding, OnFile
<1>4. ASSUME NEW u \in Users, PassOver(u) \/ TakeUp(u) \/ SkipBrief(u)
      PROVE  Accounted' /\ NeverTwice'
  <2>1. UNCHANGED <<brief, recap, sent, slips>> /\ current.user = None
    BY <1>4 DEF PassOver, TakeUp, SkipBrief, Between
  <2> QED
    BY <2>1, AccountKept DEF Holding, OnFile
<1>5. ASSUME NEW u \in Users, ViewBrief(u)  PROVE Accounted' /\ NeverTwice'
  <2>1. UNCHANGED <<current, sent, slips>>
    BY <1>5 DEF ViewBrief
  <2> QED
    BY <1>5, <2>1, AccountKept, RecordViewed DEF Holding, Writes, Letter
<1>6. CASE NotTaken
  <2>1. UNCHANGED <<brief, recap, sent, slips>> /\ (Writes => ~current.sent)
    BY <1>6, DispatchAssumption DEF NotTaken, Sending, HandlerKnows
  <2> QED
    BY <2>1, AccountKept DEF Holding, OnFile
<1>7. CASE RecordBrief
  <2>1. UNCHANGED <<sent, slips>>
    BY <1>7 DEF RecordBrief
  <2>2. \A l \in Letters : OnFile(l) \/ Holding(l) => OnFile(l)'
    BY <1>7, RecordOfBrief DEF Holding, HandlerKnows, Delivered
  <2> QED
    BY <2>1, <2>2, AccountKept
<1>8. CASE RecordRecap
  <2>1. UNCHANGED <<sent, slips>>
    BY <1>8 DEF RecordRecap
  <2>2. \A l \in Letters : OnFile(l) \/ Holding(l) => OnFile(l)'
    <3> SUFFICES ASSUME NEW l \in Letters, Holding(l)  PROVE OnFile(l)'
      BY <1>8, RecordOfRecap
    <3>1. Delivered /\ l = <<"recap", current.user, current.gw>> /\ current.gw \in Nat
      BY <1>8, RecordOfRecap, HandlerIs DEF Holding, HandlerKnows, Delivered, Gameweeks
    <3> QED
      BY <1>8, <3>1, RecordOfRecap
  <2> QED
    BY <2>1, <2>2, AccountKept
<1>9. CASE RecordConflicts \/ HandlerFails \/ WorkerDies
  <2>1. LostRecord /\ UNCHANGED <<sent, brief, recap>>
    BY <1>9 DEF RecordConflicts, HandlerFails, HandlerRaises, WorkerDies
  <2> QED
    BY <2>1, AccountOfTheLost
<1>10. CASE Deliver
  <2>1. Writes /\ current.user # None /\ Letter \in Letters /\ ~OnFile(Letter)
    BY <1>10, LetterIs DEF Deliver, Sending, HandlerKnows
  <2>2. ~current.sent
    BY <1>10, DispatchAssumption DEF Deliver, Sending, HandlerKnows
  <2>3. current' = [current EXCEPT !.answer = "delivered", !.sent = TRUE]
        /\ sent' = [sent EXCEPT ![Letter] = @ + 1] /\ UNCHANGED <<brief, recap, slips>>
    BY <1>10 DEF Deliver
  <2>4. Writes' /\ current'.user = current.user /\ current'.sent = TRUE /\ Letter' = Letter
    BY <2>1, <2>3, HandlerIs DEF Writes, Letter
  <2> SUFFICES ASSUME NEW l \in Letters
               PROVE  sent'[l] <= 1 + slips'[l] /\ (~OnFile(l)' /\ ~Holding(l)' => sent'[l] <= slips'[l])
    BY DEF Accounted, NeverTwice
  <2>5. sent[l] \in Nat /\ slips[l] \in Nat /\ ~Holding(l)
    BY <2>2 DEF TypeOK, Holding
  <2>6. CASE l = Letter
    <3>1. Holding(l)' /\ sent[l] <= slips[l]
      BY <2>1, <2>4, <2>5, <2>6 DEF Holding, Accounted
    <3> QED
      BY <2>1, <2>3, <2>5, <2>6, <3>1 DEF TypeOK
  <2>7. CASE l # Letter
    <3>1. sent'[l] = sent[l] /\ slips'[l] = slips[l] /\ (OnFile(l)' <=> OnFile(l))
      BY <2>3, <2>7 DEF TypeOK, OnFile
    <3> QED
      BY <2>5, <3>1 DEF Accounted, NeverTwice
  <2> QED
    BY <2>6, <2>7
<1>11. CASE AnswerLost
  <2>1. Writes /\ current.user # None /\ Letter \in Letters /\ ~current.sent
    BY <1>11, LetterIs, DispatchAssumption DEF AnswerLost, Sending, HandlerKnows
  <2>2. sent' = [sent EXCEPT ![Letter] = @ + 1] /\ slips' = [slips EXCEPT ![Letter] = @ + 1]
        /\ UNCHANGED <<brief, recap>>
    BY <1>11 DEF AnswerLost
  <2> SUFFICES ASSUME NEW l \in Letters
               PROVE  sent'[l] <= 1 + slips'[l] /\ (~OnFile(l)' => sent'[l] <= slips'[l])
    BY DEF Accounted, NeverTwice
  <2>3. sent[l] \in Nat /\ slips[l] \in Nat /\ ~Holding(l) /\ (OnFile(l)' <=> OnFile(l))
    BY <2>1, <2>2, RecordKept DEF TypeOK, Holding
  <2>4. sent[l] <= 1 + slips[l] /\ (~OnFile(l) => sent[l] <= slips[l])
    BY <2>3 DEF Accounted, NeverTwice
  <2>5. \/ sent'[l] = sent[l] + 1 /\ slips'[l] = slips[l] + 1
        \/ sent'[l] = sent[l] /\ slips'[l] = slips[l]
    BY <2>1, <2>2 DEF TypeOK
  <2> QED
    BY <2>3, <2>4, <2>5
<1>12. ASSUME NEW u \in Users, RewriteBrief(u)  PROVE Accounted' /\ NeverTwice'
  <2> DEFINE b == <<"brief", u, NextGameweek>>
  <2>1. /\ b \in Letters
        /\ \A l \in Letters : OnFile(l)' <=> OnFile(l) /\ l # b
    BY <1>12, RecordRewritten DEF Letters
  <2>2. sent' = sent /\ slips' = [slips EXCEPT ![b] = IF OnFile(b) THEN @ + 1 ELSE @]
    BY <1>12 DEF RewriteBrief, OnFile
  <2>3. \A l \in Letters : Holding(l)' <=> Holding(l)
    <3>1. current' = current \/ (Writes /\ current' = [current EXCEPT !.gone = TRUE])
      BY <1>12 DEF RewriteBrief, HeldByWorker, Writes
    <3>2. CASE current' = current
      BY <3>2 DEF Holding, Writes, Letter
    <3>3. CASE Writes /\ current' = [current EXCEPT !.gone = TRUE]
      BY <3>3, HandlerIs DEF Holding, Writes, Letter
    <3> QED
      BY <3>1, <3>2, <3>3
  <2> HIDE DEF b
  <2> SUFFICES ASSUME NEW l \in Letters
               PROVE  sent'[l] <= 1 + slips'[l] /\ (~OnFile(l)' /\ ~Holding(l)' => sent'[l] <= slips'[l])
    BY DEF Accounted, NeverTwice
  <2>4. sent[l] \in Nat /\ slips[l] \in Nat /\ sent[l] <= 1 + slips[l]
    BY DEF TypeOK, NeverTwice
  <2>5. CASE l = b /\ OnFile(b)
    BY <2>1, <2>2, <2>4, <2>5 DEF TypeOK
  <2>6. CASE ~(l = b /\ OnFile(b))
    <3>1. slips'[l] = slips[l] /\ (OnFile(l)' <=> OnFile(l))
      BY <2>1, <2>2, <2>6 DEF TypeOK
    <3> QED
      BY <2>2, <2>3, <2>4, <3>1 DEF Accounted
  <2> QED
    BY <2>5, <2>6
<1>13. ASSUME NEW u \in Users, TrackAgain(u)  PROVE Accounted' /\ NeverTwice'
  <2>1. UNCHANGED <<sent, current>>
        /\ slips' = [l \in Letters |-> IF l[1] = "recap" /\ l[2] = u THEN slips[l] + 1 ELSE slips[l]]
    BY <1>13 DEF TrackAgain
  <2>2. \A l \in Letters : Holding(l)' <=> Holding(l)
    BY <2>1 DEF Holding, Writes, Letter
  <2> SUFFICES ASSUME NEW l \in Letters
               PROVE  sent'[l] <= 1 + slips'[l] /\ (~OnFile(l)' /\ ~Holding(l)' => sent'[l] <= slips'[l])
    BY DEF Accounted, NeverTwice
  <2>3. sent[l] \in Nat /\ slips[l] \in Nat /\ sent[l] <= 1 + slips[l]
    BY DEF TypeOK, NeverTwice
  <2>4. CASE l[1] = "recap" /\ l[2] = u
    BY <2>1, <2>3, <2>4
  <2>5. CASE ~(l[1] = "recap" /\ l[2] = u)
    <3>1. slips'[l] = slips[l] /\ (OnFile(l)' <=> OnFile(l))
      BY <1>13, <2>1, <2>5, RecordTrackedAgain
    <3> QED
      BY <2>1, <2>2, <2>3, <3>1 DEF Accounted
  <2> QED
    BY <2>4, <2>5
<1> QED
  BY <1>1, <1>2, <1>3, <1>4, <1>5, <1>6, <1>7, <1>8, <1>9, <1>10, <1>11, <1>12, <1>13 DEF Next

(* Every step keeps the invariant. *)
LEMMA NextInv == IInv /\ [Next]_vars => IInv'
  BY NextType, NextKnows, NextAccounted DEF IInv
-----------------------------------------------------------------------------
(* The worker, its queue and its letters stay well typed, whatever fails    *)
(* (overtake/workers/runner.py, tasks.py). *)
THEOREM DispatchTypeCorrect == Spec => []TypeOK
<1>1. IInv => TypeOK
  BY DEF IInv
<1> QED
  BY <1>1, InitInv, NextInv, PTL DEF Spec

(* No member gets a letter twice but for a record that was lost, whatever   *)
(* restarts, failed jobs and rewrites there are (dispatch_deadline_briefs,  *)
(* dispatch_recaps). *)
THEOREM NeverTwiceAlways == Spec => []NeverTwice
<1>1. IInv => NeverTwice
  BY DEF IInv
<1> QED
  BY <1>1, InitInv, NextInv, PTL DEF Spec
-----------------------------------------------------------------------------
(* The worker's letters implement Mailing. *)

(* Both modules speak of the same letters. *)
LEMMA SameLetters == Promise!Letters = Letters
  BY DEF Promise!Letters, Letters, Gameweeks

(* A step that sends nothing and keeps the record is a stutter of Mailing.  *)
LEMMA PromiseStutter ==
  ASSUME sent' = sent, \A l \in Letters : OnFile(l)' <=> OnFile(l)
  PROVE  UNCHANGED Promise!mvars
<1>1. [l \in Letters |-> OnFile(l)]' = [l \in Letters |-> OnFile(l)]
  <2>1. \A l \in Letters : OnFile(l)' \in BOOLEAN /\ OnFile(l) \in BOOLEAN
    BY Zenon DEF OnFile
  <2> QED
    BY <2>1
<1> QED
  BY <1>1 DEF Promise!mvars

(* Sending is a Send of Mailing, of a letter that is not on record. *)
LEMMA PromiseSend ==
  ASSUME IInv, Sending, sent' = [sent EXCEPT ![Letter] = @ + 1], UNCHANGED <<brief, recap>>
  PROVE  Promise!Next
<1>1. Letter \in Letters /\ ~OnFile(Letter)
  BY LetterIs DEF IInv, Sending, HandlerKnows
<1>2. UNCHANGED [l \in Letters |-> OnFile(l)]
  BY DEF OnFile
<1>3. Promise!Send(Letter)
  BY <1>1, <1>2 DEF Promise!Send
<1> QED
  BY <1>1, <1>3, SameLetters DEF Promise!Next

(* Recording a brief is a Record of Mailing if it was delivered. *)
LEMMA PromiseRecordBrief ==
  ASSUME IInv, RecordBrief
  PROVE  Promise!Next \/ UNCHANGED Promise!mvars
<1>1. /\ TypeOK /\ HandlerKnows /\ sent' = sent
      /\ Writes /\ current.user # None /\ current.kind = "brief"
      /\ \A l \in Letters : OnFile(l)' <=> OnFile(l) \/ (Delivered /\ l = Letter)
  <2>1. TypeOK /\ HandlerKnows
    BY DEF IInv
  <2>2. sent' = sent /\ current.kind = "brief"
    BY DEF RecordBrief, Handles, history
  <2> QED
    BY <2>1, <2>2, RecordOfBrief
<1>2. CASE Delivered
  <2>1. PICK u \in Users, g \in Gameweeks : Letter = <<"brief", u, g>>
    BY <1>1, HandlerIs DEF Letter
  <2> DEFINE b == <<"brief", u, g>>
  <2>2. b \in Letters /\ sent[b] > 0
    BY <1>1, <1>2, <2>1, LetterIs DEF HandlerKnows, Delivered
  <2>3. [l \in Letters |-> OnFile(l)]' = [l \in Letters |->
           OnFile(l) \/ l = b \/ ("brief" = "recap" /\ l[1] = "brief" /\ l[2] = u /\ l[3] < g)]
    <3>1. \A l \in Letters : OnFile(l)' = (OnFile(l) \/ l = b)
      <4>1. \A l \in Letters : OnFile(l)' \in BOOLEAN
        BY Zenon DEF OnFile
      <4> QED
        BY <1>1, <1>2, <2>1, <4>1
    <3> QED
      BY <3>1
  <2>4. Promise!Record("brief", u, g)
    BY <1>1, <2>2, <2>3 DEF Promise!Record, Promise!Letters, Letters, Gameweeks
  <2>5. b[1] = "brief" /\ b[2] = u /\ b[3] = g
    OBVIOUS
  <2> HIDE DEF b
  <2> QED
    BY <2>2, <2>4, <2>5, SameLetters DEF Promise!Next
<1>3. CASE ~Delivered
  BY <1>1, <1>3, PromiseStutter
<1> QED
  BY <1>2, <1>3

(* So is recording a recap, which stands for those of earlier gameweeks. *)
LEMMA PromiseRecordRecap ==
  ASSUME IInv, RecordRecap
  PROVE  Promise!Next \/ UNCHANGED Promise!mvars
<1>1. TypeOK /\ HandlerKnows
  BY DEF IInv
<1>2. /\ sent' = sent /\ Writes /\ current.user # None
      /\ Letter = <<"recap", current.user, current.gw>>
      /\ \A l \in Letters :
           OnFile(l)' <=> OnFile(l) \/ (/\ Delivered
                                      /\ l[1] = "recap" /\ l[2] = current.user
                                      /\ l[3] <= current.gw)
  BY <1>1, RecordOfRecap DEF RecordRecap, history
<1>3. CASE Delivered
  <2>1. PICK u \in Users, g \in Gameweeks : current.user = u /\ current.gw = g
    BY <1>1, <1>2, HandlerIs
  <2> DEFINE b == <<"recap", u, g>>
  <2>2. b \in Letters /\ sent[b] > 0
    BY <1>1, <1>2, <1>3, <2>1, LetterIs DEF HandlerKnows, Delivered
  <2>3. [l \in Letters |-> OnFile(l)]' = [l \in Letters |->
           OnFile(l) \/ l = b \/ ("recap" = "recap" /\ l[1] = "recap" /\ l[2] = u /\ l[3] < g)]
    <3>1. \A l \in Letters : OnFile(l)' \in BOOLEAN
      BY Zenon DEF OnFile
    <3>2. ASSUME NEW l \in Letters
          PROVE  (l[1] = "recap" /\ l[2] = u /\ l[3] <= g)
                   <=> (l = b \/ (l[1] = "recap" /\ l[2] = u /\ l[3] < g))
      <4>1. l = <<l[1], l[2], l[3]>> /\ l[3] \in Nat /\ g \in Nat
        BY DEF Letters, Gameweeks
      <4>2. l[3] <= g <=> (l[3] = g \/ l[3] < g)
        BY <4>1
      <4> QED
        BY <4>1, <4>2
    <3>3. \A l \in Letters :
            OnFile(l)' = (OnFile(l) \/ l = b \/ (l[1] = "recap" /\ l[2] = u /\ l[3] < g))
      BY <1>2, <1>3, <2>1, <3>1, <3>2
    <3> QED
      BY <3>3
  <2>4. Promise!Record("recap", u, g)
    BY <1>2, <2>2, <2>3 DEF Promise!Record, Promise!Letters, Letters, Gameweeks
  <2>5. b[1] = "recap" /\ b[2] = u /\ b[3] = g
    OBVIOUS
  <2> HIDE DEF b
  <2> QED
    BY <2>2, <2>4, <2>5, SameLetters DEF Promise!Next
<1>4. CASE ~Delivered
  BY <1>2, <1>4, PromiseStutter
<1> QED
  BY <1>3, <1>4

(* A rewrite and a league tracked anew are those of Mailing. *)
LEMMA PromiseForgets ==
  ASSUME TypeOK, NEW u \in Users
  PROVE  RewriteBrief(u) \/ TrackAgain(u) => Promise!Next
<1>0. \A l \in Letters : OnFile(l)' \in BOOLEAN
  BY Zenon DEF OnFile
<1>1. ASSUME RewriteBrief(u)  PROVE Promise!Next
  <2>1. PICK g \in 1..MaxGameweek : g = NextGameweek
    BY <1>1, RecordRewritten DEF Gameweeks
  <2> DEFINE b == <<"brief", u, g>>
             known == [l \in Letters |-> OnFile(l)]
  <2>2. sent' = sent /\ b \in Letters
    BY <1>1, <2>1 DEF RewriteBrief, Letters, Gameweeks
  <2>3. \A l \in Letters : OnFile(l)' = IF l = b THEN FALSE ELSE OnFile(l)
    <3>1. \A l \in Letters : OnFile(l)' <=> OnFile(l) /\ l # b
      BY <1>1, <2>1, RecordRewritten
    <3>2. \A l \in Letters : OnFile(l) \in BOOLEAN
      BY Zenon DEF OnFile
    <3> HIDE DEF b
    <3> QED
      BY <1>0, <3>1, <3>2
  <2>4. known' = [known EXCEPT ![b] = FALSE]
    BY <2>2, <2>3
  <2>5. Promise!Rewrite(u, g)
    BY <2>2, <2>4 DEF Promise!Rewrite
  <2> QED
    BY <2>5 DEF Promise!Next
<1>2. ASSUME TrackAgain(u)  PROVE Promise!Next
  <2>1. sent' = sent
    BY <1>2 DEF TrackAgain
  <2>2. \A l \in Letters : OnFile(l)' = (OnFile(l) /\ ~(l[1] = "recap" /\ l[2] = u))
    BY <1>0, <1>2, RecordTrackedAgain
  <2>3. Promise!TrackAgain(u)
    BY <2>1, <2>2, SameLetters DEF Promise!TrackAgain
  <2> QED
    BY <2>3 DEF Promise!Next
<1> QED
  BY <1>1, <1>2

(* Every step of the worker is a step of Mailing or a stutter. *)
LEMMA PromiseStep == IInv /\ [Next]_vars => [Promise!Next]_(Promise!mvars)
<1> SUFFICES ASSUME IInv, [Next]_vars
             PROVE  Promise!Next \/ UNCHANGED Promise!mvars
  OBVIOUS
<1> USE DEF tables, bounds, history
<1>1. CASE UNCHANGED <<sent, brief, recap>>
  BY <1>1, RecordKept, PromiseStutter
<1>2. ASSUME NEW u \in Users, ViewBrief(u)  PROVE UNCHANGED Promise!mvars
  <2>1. sent' = sent /\ TypeOK
    BY <1>2 DEF ViewBrief, IInv
  <2> QED
    BY <1>2, <2>1, RecordViewed, PromiseStutter
<1>3. ASSUME NEW u \in Users, RewriteBrief(u) \/ TrackAgain(u)  PROVE Promise!Next
  BY <1>3, PromiseForgets DEF IInv
<1>4. CASE Deliver \/ AnswerLost
  BY <1>4, PromiseSend DEF Deliver, AnswerLost
<1>5. CASE RecordBrief \/ RecordRecap
  BY <1>5, PromiseRecordBrief, PromiseRecordRecap
<1>6. CASE \/ TickSchedules \/ TickFails \/ Drain \/ Sleep \/ Restart \/ Tick
           \/ StartIngest \/ StartBriefs \/ StartRecaps \/ FinishIngest \/ FinishLetters
           \/ UNCHANGED vars
  BY <1>1, <1>6 DEF TickSchedules, TickFails, Drain, Sleep, Restart, Tick, StartIngest, StartBriefs,
                    StartRecaps, FinishIngest, FinishLetters, vars
<1>7. CASE RecordConflicts \/ HandlerFails \/ WorkerDies \/ NotTaken
  BY <1>1, <1>7 DEF RecordConflicts, HandlerFails, HandlerRaises, WorkerDies, NotTaken
<1>8. ASSUME NEW u \in Users, PassOver(u) \/ TakeUp(u) \/ SkipBrief(u)
      PROVE  UNCHANGED Promise!mvars
  <2>1. UNCHANGED <<sent, brief, recap>>
    BY <1>8 DEF PassOver, TakeUp, SkipBrief
  <2> QED
    BY <2>1, RecordKept, PromiseStutter
<1> QED
  BY <1>2, <1>3, <1>4, <1>5, <1>6, <1>7, <1>8 DEF Next

(* Nothing is on record at the start. *)
LEMMA PromiseInit == Init => Promise!Init
<1> SUFFICES ASSUME Init  PROVE Promise!Init
  OBVIOUS
<1>1. \A l \in Letters : ~OnFile(l)
  <2>1. \A u \in Users, g \in Gameweeks : brief[<<u, g>>] # TRUE
    BY DispatchAssumption DEF Init
  <2>2. \A u \in Users, g \in Gameweeks : ~(recap[u] >= g)
    BY DispatchAssumption DEF Init, Gameweeks
  <2>3. ASSUME NEW l \in Letters  PROVE l[2] \in Users /\ l[3] \in Gameweeks
    BY DEF Letters
  <2> QED
    BY <2>1, <2>2, <2>3 DEF OnFile
<1>2. \A l \in Letters : OnFile(l) = FALSE
  BY <1>1, Zenon DEF OnFile
<1> QED
  BY <1>2, SameLetters DEF Init, Promise!Init

(* The dispatchers keep what Mailing promises: a letter is sent only while  *)
(* it is not on record, and recorded only after it was sent                 *)
(* (dispatch_deadline_briefs, dispatch_recaps). *)
THEOREM DispatchKeepsPromise == Spec => KeepsPromise
<1>1. Spec => []IInv
  BY InitInv, NextInv, PTL DEF Spec
<1> QED
  BY <1>1, PromiseInit, PromiseStep, PTL DEF Spec, KeepsPromise, Promise!Spec
-----------------------------------------------------------------------------
(* No schedule is slept through. *)

(* What mishaps cost a schedule at most, and the time the worker's next look *)
(* at the schedules is not before.                                          *)
Lost(s) == mishaps * (Every[s] + MaxSlow)
Reached == IF worker.at = "asleep" /\ worker.wake > now THEN worker.wake ELSE now

(* A schedule was noted no later than its mishaps allow after it was queued; *)
(* sleeping is never past its interval; a worker that has just looked and    *)
(* has nothing to do has nothing that is due, and time stands still.         *)
NotedInTime ==
  worker.at # "down" =>
    \A s \in Schedules : worker.lastRun[s] # None => worker.lastRun[s] - queuedAt[s] <= Lost(s)
SleepsInTime ==
  \A s \in Schedules : Reached - queuedAt[s] <= Lost(s) + Every[s] + worker.slow
LooksFirst ==
  worker.at = "drain" \/ (worker.at = "rest" /\ ~worker.worked) =>
    \A s \in Schedules : worker.lastRun[s] # None /\ now - worker.lastRun[s] <= Every[s]
IdleUnlessResting ==
  /\ worker.at # "rest" => current = Idle
  /\ worker.at = "rest" /\ ~worker.worked => batch = {} /\ current = Idle

ClockInv == NotedInTime /\ SleepsInTime /\ LooksFirst /\ IdleUnlessResting

(* What a schedule may lose grows with each mishap only. *)
LEMMA LostIs ==
  ASSUME TypeOK, NEW s \in Schedules
  PROVE  /\ Lost(s) \in Nat /\ Every[s] \in Nat /\ MaxSlow \in Nat
         /\ mishaps' = mishaps + 1 => Lost(s)' = Lost(s) + Every[s] + MaxSlow
         /\ mishaps' = mishaps => Lost(s)' = Lost(s)
         /\ (1 + mishaps) * (Every[s] + MaxSlow) = Lost(s) + Every[s] + MaxSlow
<1> DEFINE K == Every[s] + MaxSlow
<1>1. Every[s] \in Nat /\ MaxSlow \in Nat /\ mishaps \in Nat /\ K \in Nat
  BY DispatchAssumption DEF TypeOK
<1>2. Lost(s) = mishaps * K /\ Lost(s)' = mishaps' * K
  BY DEF Lost
<1> HIDE DEF K
<1>3. mishaps * K \in Nat /\ (mishaps + 1) * K = mishaps * K + K /\ (1 + mishaps) * K = mishaps * K + K
  BY <1>1
<1> QED
  BY <1>1, <1>2, <1>3 DEF K

(* The times are numbers. *)
LEMMA TimesAre ==
  ASSUME TypeOK, NEW s \in Schedules
  PROVE  /\ now \in Nat /\ queuedAt[s] \in Nat /\ Reached \in Nat /\ now <= Reached
         /\ worker.wake \in Nat /\ worker.slow \in Nat /\ worker.slow <= MaxSlow
         /\ worker.lastRun[s] # None => worker.lastRun[s] \in Nat
         /\ worker.at \in {"asleep", "drain", "rest", "down"} /\ worker \in Memory
  BY DispatchAssumption DEF TypeOK, Times, Memory, Reached

(* What is not due was noted less than its interval ago. *)
LEMMA NotDue ==
  ASSUME TypeOK, NEW s \in Schedules \ Due
  PROVE  worker.lastRun[s] # None /\ now - worker.lastRun[s] <= Every[s]
<1> DEFINE near == NearDeadline(Remembered)
<1>1. Interval(s, near) \in Nat /\ Interval(s, near) <= Every[s]
  BY DispatchAssumption DEF Interval
<1>2. worker.lastRun[s] # None /\ ~(now - worker.lastRun[s] >= Interval(s, near))
  BY DEF Due, IsDue
<1> QED
  BY <1>1, <1>2, TimesAre, DispatchAssumption

(* An idle worker wakes before any schedule is due that it had noted within *)
(* its interval. *)
LEMMA WakesInTime ==
  ASSUME TypeOK, NEW s \in Schedules,
         \A t \in Schedules : worker.lastRun[t] # None /\ now - worker.lastRun[t] <= Every[t]
  PROVE  now + Min({IdleMax, UntilDue(Remembered)}) <= worker.lastRun[s] + Every[s]
<1> DEFINE w == Remembered
           near == NearDeadline(w)
           d(t) == Interval(t, near) - (now - w.lastRun[t])
           D == {d(t) : t \in Schedules}
<1>1. w.lastRun = worker.lastRun /\ w \in Memory
  BY RememberedIs
<1>2. \A t \in Schedules : d(t) \in Int /\ d(t) <= Every[t] - (now - worker.lastRun[t])
  <2> SUFFICES ASSUME NEW t \in Schedules
               PROVE  d(t) \in Int /\ d(t) <= Every[t] - (now - worker.lastRun[t])
    OBVIOUS
  <2>1. Interval(t, near) \in Nat /\ Interval(t, near) <= Every[t] /\ Every[t] \in Nat
    BY DispatchAssumption DEF Interval
  <2>2. now \in Nat /\ worker.lastRun[t] \in Nat
    BY TimesAre
  <2> HIDE DEF near
  <2> QED
    BY <1>1, <2>1, <2>2
<1>3. UntilDue(w) = Max({0, Min(D)})
  BY <1>1 DEF UntilDue
<1> HIDE DEF near
<1>4. \E x \in D : \A y \in D : x <= y
  <2> DEFINE a == d("ingest_core")
             b == d("dispatch_deadline_briefs")
             c == d("dispatch_recaps")
  <2>1. D = {a, b, c}
    BY DEF Schedules
  <2>2. a \in Int /\ b \in Int /\ c \in Int
    BY <1>2 DEF Schedules
  <2> HIDE DEF a, b, c, D
  <2>3. \E x \in {a, b, c} : x <= a /\ x <= b /\ x <= c
    BY <2>2
  <2> QED
    BY <2>1, <2>3
<1> DEFINE m == Min(D)
<1>5. m \in D /\ m <= d(s)
  <2>1. d(s) \in D
    OBVIOUS
  <2>2. m \in D /\ \A y \in D : m <= y
    <3> HIDE DEF D
    <3> QED
      BY <1>4 DEF Min
  <2> QED
    BY <2>1, <2>2
<1>6. m \in Int
  BY <1>2, <1>5
<1>7. d(s) \in Int /\ d(s) <= Every[s] - (now - worker.lastRun[s])
  BY <1>2
<1> HIDE DEF m, d, w, D
<1>8. Max({0, m}) = IF 0 >= m THEN 0 ELSE m
  <2>1. \A a, b \in Int : Max({a, b}) = IF a >= b THEN a ELSE b
    BY ExtremaOfTwo
  <2>2. 0 \in Int
    OBVIOUS
  <2> QED
    BY <1>6, <2>1, <2>2, Zenon
<1>9. UntilDue(w) = IF 0 >= m THEN 0 ELSE m
  BY <1>3, <1>8 DEF m
<1>10. UntilDue(w) \in Int /\ (UntilDue(w) = 0 \/ UntilDue(w) <= d(s))
  BY <1>5, <1>6, <1>9
<1>11. Min({IdleMax, UntilDue(w)}) <= UntilDue(w) /\ Min({IdleMax, UntilDue(w)}) \in Int
  BY <1>10, ExtremaOfTwo, DispatchAssumption
<1>12. now \in Nat /\ worker.lastRun[s] \in Nat /\ Every[s] \in Nat /\ now - worker.lastRun[s] <= Every[s]
  BY TimesAre, DispatchAssumption
<1> QED
  BY <1>7, <1>10, <1>11, <1>12 DEF w

(* A step that takes no time, queues nothing and loses no record of what    *)
(* was noted keeps the worker within its bounds. *)
LEMMA InTimeStutter ==
  ASSUME TypeOK, TypeOK', NotedInTime, SleepsInTime, UNCHANGED <<now, queuedAt>>,
         UNCHANGED mishaps \/ mishaps' = mishaps + 1,
         worker'.slow = worker.slow, Reached' <= Reached,
         worker'.at # "down" => worker.at # "down" /\ worker'.lastRun = worker.lastRun
  PROVE  NotedInTime' /\ SleepsInTime'
<1> SUFFICES ASSUME NEW s \in Schedules
             PROVE  /\ worker'.at # "down" /\ worker'.lastRun[s] # None =>
                         worker'.lastRun[s] - queuedAt'[s] <= Lost(s)'
                    /\ Reached' - queuedAt'[s] <= Lost(s)' + Every[s] + worker'.slow
  BY DEF NotedInTime, SleepsInTime
<1>1. Lost(s) \in Nat /\ Lost(s)' \in Nat /\ Lost(s)' >= Lost(s) /\ Every[s] \in Nat
  BY LostIs
<1>2. /\ now \in Nat /\ queuedAt[s] \in Nat /\ Reached \in Nat /\ worker.slow \in Nat
      /\ worker.lastRun[s] # None => worker.lastRun[s] \in Nat
  BY TimesAre
<1>3. Reached' \in Nat
  BY DispatchAssumption DEF TypeOK, Memory, Times, Reached
<1>4. Reached - queuedAt[s] <= Lost(s) + Every[s] + worker.slow
  BY DEF SleepsInTime
<1>5. ASSUME worker'.at # "down", worker'.lastRun[s] # None
      PROVE  worker'.lastRun[s] - queuedAt'[s] <= Lost(s)'
  <2>1. worker'.lastRun = worker.lastRun /\ worker.lastRun[s] - queuedAt[s] <= Lost(s)
    BY <1>5 DEF NotedInTime
  <2> QED
    BY <1>1, <1>2, <1>5, <2>1
<1> QED
  BY <1>1, <1>2, <1>3, <1>4, <1>5

(* Looking at the schedules: what is due is queued now, or its commit fails *)
(* and it has lost its turn to a mishap. *)
LEMMA LooksInTime ==
  ASSUME TypeOK, NotedInTime, SleepsInTime, Looks,
         worker'.lastRun = Noted.lastRun, worker'.slow = worker.slow, now' = now, Reached' = now,
         \/ UNCHANGED mishaps /\ queuedAt' = [s \in Schedules |-> IF s \in Due THEN now ELSE queuedAt[s]]
         \/ mishaps' = mishaps + 1 /\ queuedAt' = queuedAt
  PROVE  NotedInTime' /\ SleepsInTime'
<1> SUFFICES ASSUME NEW s \in Schedules
             PROVE  /\ worker'.lastRun[s] # None => worker'.lastRun[s] - queuedAt'[s] <= Lost(s)'
                    /\ now - queuedAt'[s] <= Lost(s)' + Every[s] + worker.slow
  BY DEF NotedInTime, SleepsInTime
<1>1. /\ Lost(s) \in Nat /\ Every[s] \in Nat /\ MaxSlow \in Nat
      /\ mishaps' = mishaps + 1 => Lost(s)' = Lost(s) + Every[s] + MaxSlow
      /\ mishaps' = mishaps => Lost(s)' = Lost(s)
  BY LostIs
<1>2. /\ now \in Nat /\ queuedAt[s] \in Nat /\ worker.slow \in Nat /\ worker.slow <= MaxSlow
      /\ worker.lastRun[s] # None => worker.lastRun[s] \in Nat
      /\ now <= Reached /\ Reached \in Nat
  BY TimesAre
<1>3. now - queuedAt[s] <= Lost(s) + Every[s] + worker.slow
  <2>1. Reached - queuedAt[s] <= Lost(s) + Every[s] + worker.slow
    BY DEF SleepsInTime
  <2> QED
    BY <1>1, <1>2, <2>1
<1>4. worker'.lastRun[s] = IF s \in Due THEN now ELSE worker.lastRun[s]
  BY RememberedIs DEF Noted, Memory
<1>5. CASE s \in Due
  BY <1>1, <1>2, <1>3, <1>4, <1>5
<1>6. CASE s \notin Due
  <2>1. worker.lastRun[s] # None => worker.lastRun[s] - queuedAt[s] <= Lost(s)
    BY DEF NotedInTime, Looks
  <2>2. queuedAt'[s] = queuedAt[s]
    BY <1>6
  <2> QED
    BY <1>1, <1>2, <1>3, <1>4, <1>6, <2>1, <2>2
<1> QED
  BY <1>5, <1>6

(* Every step keeps the worker in time. *)
LEMMA NextInTime ==
  ASSUME TypeOK, TypeOK', ClockInv, [Next]_vars
  PROVE  NotedInTime' /\ SleepsInTime'
<1> USE DEF tables, bounds, history, ClockInv
<1>1. CASE TickSchedules
  <2>1. worker' = [Noted EXCEPT !.at = "drain", !.worked = \E s \in Due : job[s] = "none"]
    BY <1>1 DEF TickSchedules
  <2>2. /\ worker'.lastRun = Noted.lastRun /\ worker'.slow = Noted.slow /\ worker'.at = "drain"
        /\ Noted.slow = worker.slow
    BY <2>1, NotedIs, RememberedIs DEF Memory, Noted
  <2> QED
    BY <1>1, <2>2, LooksInTime DEF TickSchedules, Reached
<1>2. CASE TickFails
  <2>1. worker'.lastRun = Noted.lastRun /\ worker'.slow = worker.slow /\ worker'.wake = worker.wake
    BY <1>2, RememberedIs DEF TickFails, Memory, Noted
  <2>2. Reached' = now
    BY <1>2, <2>1, TimesAre DEF TickFails, Looks, Reached, Schedules
  <2> QED
    BY <1>2, <2>1, <2>2, LooksInTime DEF TickFails, Mishap
<1>3. CASE Drain
  <2>1. worker'.at = "rest" /\ worker'.slow = worker.slow /\ worker'.lastRun = worker.lastRun
    BY <1>3 DEF Drain, TypeOK, Memory
  <2>2. Reached' = now /\ now <= Reached
    BY <1>3, <2>1, TimesAre DEF Drain, Reached, Schedules
  <2> QED
    BY <1>3, <2>1, <2>2, InTimeStutter DEF Drain
<1>4. CASE Sleep
  <2> SUFFICES ASSUME NEW s \in Schedules
               PROVE  /\ worker'.lastRun[s] # None => worker'.lastRun[s] - queuedAt'[s] <= Lost(s)'
                      /\ Reached' - queuedAt'[s] <= Lost(s)' + Every[s] + worker'.slow
    BY DEF NotedInTime, SleepsInTime
  <2> DEFINE nap == IF worker.worked THEN 0 ELSE Min({IdleMax, UntilDue(Remembered)})
             lost == IF worker.worked THEN Remembered.slow ELSE 0
  <2>1. worker' = [Remembered EXCEPT !.at = "asleep", !.wake = now + nap, !.slow = lost]
    BY <1>4, RememberedIs DEF Sleep, Memory
  <2>2. /\ worker'.at = "asleep" /\ worker'.wake = now + nap /\ worker'.slow = lost
        /\ worker'.lastRun = worker.lastRun
    <3> HIDE DEF nap, lost
    <3> QED
      BY <2>1, RememberedIs DEF Memory
  <2>3. now' = now /\ queuedAt' = queuedAt /\ mishaps' = mishaps /\ worker.at = "rest"
    BY <1>4 DEF Sleep
  <2>4. worker.lastRun[s] # None => worker.lastRun[s] - queuedAt[s] <= Lost(s)
    BY <2>3 DEF NotedInTime
  <2>5. now - queuedAt[s] <= Lost(s) + Every[s] + worker.slow
    <3>1. Reached = now
      BY <2>3 DEF Reached
    <3> QED
      BY <3>1 DEF SleepsInTime
  <2>6. Lost(s)' = Lost(s) /\ Lost(s) \in Nat /\ Every[s] \in Nat
    BY <2>3, LostIs
  <2>7. CASE worker.worked
    <3>1. worker'.wake = now /\ worker'.slow = worker.slow
      BY <2>2, <2>7, RememberedIs, TimesAre
    <3>2. Reached' = now
      BY <2>3, <3>1 DEF Reached
    <3> QED
      BY <2>2, <2>3, <2>4, <2>5, <2>6, <3>1, <3>2
  <2>8. CASE ~worker.worked
    <3>1. worker'.wake = now + Min({IdleMax, UntilDue(Remembered)}) /\ worker'.slow = 0
      BY <2>2, <2>8
    <3>2. \A t \in Schedules : worker.lastRun[t] # None /\ now - worker.lastRun[t] <= Every[t]
      BY <2>3, <2>8 DEF LooksFirst
    <3>3. worker'.wake <= worker.lastRun[s] + Every[s]
      BY <3>1, <3>2, WakesInTime
    <3>4. Reached' = worker'.wake \/ Reached' = now
      BY <2>3 DEF Reached
    <3>5. now \in Nat /\ worker.lastRun[s] \in Nat /\ queuedAt[s] \in Nat /\ worker'.wake \in Nat
      BY <3>2, TimesAre DEF TypeOK, Memory
    <3>6. worker.lastRun[s] - queuedAt[s] <= Lost(s) /\ now - worker.lastRun[s] <= Every[s]
      BY <2>4, <3>2
    <3>7. Reached' - queuedAt[s] <= Lost(s) + Every[s]
      BY <2>6, <3>3, <3>4, <3>5, <3>6
    <3> QED
      BY <2>2, <2>3, <2>4, <2>6, <3>1, <3>5, <3>7
  <2> QED
    BY <2>7, <2>8
<1>5. CASE Restart
  <2>1. worker' = [Fresh EXCEPT !.wake = now, !.slow = worker.slow] /\ worker.at = "down"
    BY <1>5 DEF Restart
  <2>2. /\ worker'.at = "asleep" /\ worker'.wake = now /\ worker'.slow = worker.slow
        /\ worker'.lastRun = [s \in Schedules |-> None]
    BY <2>1 DEF Fresh
  <2>3. Reached' = now /\ Reached = now
    BY <1>5, <2>1, <2>2 DEF Restart, Reached
  <2>4. UNCHANGED <<now, queuedAt, mishaps>>
    BY <1>5 DEF Restart
  <2> SUFFICES ASSUME NEW s \in Schedules
               PROVE  Reached' - queuedAt'[s] <= Lost(s)' + Every[s] + worker'.slow
    BY <2>2 DEF NotedInTime, SleepsInTime
  <2> QED
    BY <2>2, <2>3, <2>4, LostIs DEF SleepsInTime
<1>6. CASE Tick
  <2> SUFFICES ASSUME NEW s \in Schedules
               PROVE  /\ worker'.at # "down" /\ worker'.lastRun[s] # None =>
                           worker'.lastRun[s] - queuedAt'[s] <= Lost(s)'
                      /\ Reached' - queuedAt'[s] <= Lost(s)' + Every[s] + worker'.slow
    BY DEF NotedInTime, SleepsInTime
  <2>1. now' = now + 1 /\ queuedAt' = queuedAt /\ mishaps' = mishaps
    BY <1>6 DEF Tick
  <2>2. worker'.at = worker.at /\ worker'.wake = worker.wake /\ worker'.lastRun = worker.lastRun
    BY <1>6, TimesAre DEF Tick, Memory
  <2>3. worker'.at # "down" /\ worker'.lastRun[s] # None =>
          worker'.lastRun[s] - queuedAt'[s] <= Lost(s)'
    BY <2>1, <2>2, LostIs DEF NotedInTime
  <2>4. /\ Reached - queuedAt[s] <= Lost(s) + Every[s] + worker.slow
        /\ Lost(s)' = Lost(s) /\ Lost(s) \in Nat /\ Every[s] \in Nat
    BY <2>1, LostIs DEF SleepsInTime
  <2>5. /\ now \in Nat /\ queuedAt[s] \in Nat /\ Reached \in Nat
        /\ worker.slow \in Nat /\ worker.wake \in Nat
    BY TimesAre
  <2>6. CASE worker.at = "asleep" /\ now < worker.wake /\ UNCHANGED worker
    <3>1. Reached' = Reached
      BY <2>1, <2>5, <2>6 DEF Reached
    <3> QED
      BY <2>1, <2>3, <2>4, <2>6, <3>1
  <2>7. CASE worker' = [worker EXCEPT !.slow = @ + 1]
    <3>1. worker'.slow = worker.slow + 1
      BY <2>7, TimesAre DEF Memory
    <3>2. Reached' \in Nat /\ Reached' <= Reached + 1
      BY <2>1, <2>2, <2>5 DEF Reached
    <3> QED
      BY <2>1, <2>3, <2>4, <2>5, <3>1, <3>2
  <2> QED
    BY <1>6, <2>6, <2>7 DEF Tick
<1>7. CASE RecordConflicts \/ HandlerFails
  <2>1. worker' = [worker EXCEPT !.at = "asleep", !.wake = now] /\ UNCHANGED <<now, queuedAt>>
        /\ mishaps' = mishaps + 1
    BY <1>7 DEF RecordConflicts, HandlerFails, HandlerRaises, Mishap
  <2>2. /\ worker'.at = "asleep" /\ worker'.wake = now
        /\ worker'.slow = worker.slow /\ worker'.lastRun = worker.lastRun
    BY <2>1 DEF TypeOK, Memory
  <2>3. current # Idle
    BY <1>7, HandlerIs DEF RecordConflicts, HandlerFails, Handles, Writes
  <2>4. worker.at = "rest"
    BY <2>3 DEF IdleUnlessResting
  <2>5. Reached' <= Reached
    BY <2>1, <2>2, <2>4, TimesAre DEF Reached, Schedules
  <2> QED
    BY <2>1, <2>2, <2>4, <2>5, InTimeStutter
<1>8. CASE WorkerDies
  <2>1. worker' = [worker EXCEPT !.at = "down"] /\ UNCHANGED <<now, queuedAt>> /\ mishaps' = mishaps + 1
    BY <1>8 DEF WorkerDies, Mishap
  <2>2. worker'.at = "down" /\ worker'.slow = worker.slow
    BY <2>1 DEF TypeOK, Memory
  <2>3. Reached' <= Reached
    BY <2>1, <2>2, TimesAre DEF Reached, Schedules
  <2> QED
    BY <2>1, <2>2, <2>3, InTimeStutter
<1>9. ASSUME UNCHANGED <<worker, now, queuedAt>>, UNCHANGED mishaps \/ mishaps' = mishaps + 1
      PROVE  NotedInTime' /\ SleepsInTime'
  <2>1. Reached' = Reached /\ Reached <= Reached
    BY <1>9, TimesAre DEF Reached, Schedules
  <2> QED
    BY <1>9, <2>1, InTimeStutter
<1>10. CASE \/ StartIngest \/ FinishIngest \/ StartBriefs \/ StartRecaps \/ FinishLetters
            \/ RecordBrief \/ RecordRecap \/ Deliver \/ UNCHANGED vars
  BY <1>9, <1>10 DEF StartIngest, FinishIngest, StartBriefs, StartRecaps, FinishLetters,
                     RecordBrief, RecordRecap, Deliver, vars
<1>11. CASE AnswerLost \/ NotTaken
  BY <1>9, <1>11 DEF AnswerLost, NotTaken, Mishap
<1>12. ASSUME NEW u \in Users, PassOver(u) \/ TakeUp(u) \/ SkipBrief(u)
       PROVE  NotedInTime' /\ SleepsInTime'
  BY <1>9, <1>12 DEF PassOver, TakeUp, SkipBrief, Mishap
<1>13. ASSUME NEW u \in Users, ViewBrief(u) \/ RewriteBrief(u) \/ TrackAgain(u)
       PROVE  NotedInTime' /\ SleepsInTime'
  BY <1>9, <1>13 DEF ViewBrief, RewriteBrief, TrackAgain
<1> QED
  BY <1>1, <1>2, <1>3, <1>4, <1>5, <1>6, <1>7, <1>8, <1>10, <1>11, <1>12, <1>13 DEF Next

(* A step that leaves the worker, its jobs and the time alone. *)
LEMMA LooksStutter ==
  ASSUME LooksFirst, IdleUnlessResting, UNCHANGED <<worker, now, batch, current>>
  PROVE  LooksFirst' /\ IdleUnlessResting'
  BY DEF LooksFirst, IdleUnlessResting

(* A worker that has looked has nothing due, until it works; a handler runs *)
(* only in a worker that works. *)
LEMMA NextLooks ==
  ASSUME TypeOK, TypeOK', LooksFirst, IdleUnlessResting, [Next]_vars
  PROVE  LooksFirst' /\ IdleUnlessResting'
<1> USE DEF tables, bounds, history
<1>1. CASE TickSchedules
  <2>1. /\ worker'.lastRun = Noted.lastRun /\ worker'.at = "drain" /\ now' = now
        /\ current' = current /\ worker.at = "asleep"
    BY <1>1, NotedIs DEF TickSchedules, Memory, Looks
  <2>2. ASSUME NEW s \in Schedules
        PROVE  worker'.lastRun[s] # None /\ now' - worker'.lastRun[s] <= Every[s]
    <3>1. worker'.lastRun[s] = IF s \in Due THEN now ELSE worker.lastRun[s]
      BY <2>1, RememberedIs DEF Noted, Memory
    <3>2. CASE s \in Due
      BY <2>1, <3>1, <3>2, TimesAre, DispatchAssumption
    <3>3. CASE s \notin Due
      BY <2>1, <3>1, <3>3, NotDue
    <3> QED
      BY <3>2, <3>3
  <2> QED
    BY <2>1, <2>2 DEF LooksFirst, IdleUnlessResting
<1>2. CASE TickFails
  <2>1. worker'.at = "asleep" /\ current' = current /\ worker.at = "asleep"
    BY <1>2, NotedIs DEF TickFails, Looks
  <2> QED
    BY <2>1 DEF LooksFirst, IdleUnlessResting
<1>3. CASE Drain
  <2>1. /\ worker.at = "drain" /\ worker'.at = "rest" /\ worker'.lastRun = worker.lastRun
        /\ worker'.worked = (worker.worked \/ batch' # {}) /\ now' = now /\ current' = current
    BY <1>3 DEF Drain, TypeOK, Memory
  <2> QED
    BY <2>1 DEF LooksFirst, IdleUnlessResting
<1>4. CASE Sleep
  <2>1. worker'.at = "asleep" /\ current' = Idle
    BY <1>4, RememberedIs DEF Sleep, Memory
  <2> QED
    BY <2>1 DEF LooksFirst, IdleUnlessResting
<1>5. CASE StartIngest \/ StartBriefs \/ StartRecaps
  <2>1. worker' = worker /\ worker.at = "rest" /\ batch # {} /\ now' = now
    BY <1>5 DEF StartIngest, StartBriefs, StartRecaps, Begins
  <2> QED
    BY <2>1 DEF LooksFirst, IdleUnlessResting
<1>6. CASE FinishIngest \/ FinishLetters
  <2>1. UNCHANGED <<worker, now, batch>> /\ current' = Idle
    BY <1>6 DEF FinishIngest, FinishLetters, Ends
  <2> QED
    BY <2>1 DEF LooksFirst, IdleUnlessResting
<1>7. ASSUME UNCHANGED <<worker, now, batch>>, current # Idle
      PROVE  LooksFirst' /\ IdleUnlessResting'
  BY <1>7 DEF LooksFirst, IdleUnlessResting
<1>8. ASSUME NEW u \in Users, PassOver(u) \/ TakeUp(u) \/ SkipBrief(u)
      PROVE  LooksFirst' /\ IdleUnlessResting'
  BY <1>7, <1>8, HandlerIs DEF PassOver, TakeUp, SkipBrief, Between
<1>9. CASE Deliver \/ AnswerLost \/ NotTaken
  BY <1>7, <1>9, HandlerIs DEF Deliver, AnswerLost, NotTaken, Sending
<1>10. CASE RecordBrief \/ RecordRecap
  <2>1. Writes
    BY <1>10 DEF RecordBrief, RecordRecap, Handles, Writes
  <2> QED
    BY <1>7, <1>10, <2>1, HandlerIs DEF RecordBrief, RecordRecap
<1>11. ASSUME NEW u \in Users, ViewBrief(u) \/ TrackAgain(u)
       PROVE  LooksFirst' /\ IdleUnlessResting'
  BY <1>11, LooksStutter DEF ViewBrief, TrackAgain
<1>12. ASSUME NEW u \in Users, RewriteBrief(u)  PROVE LooksFirst' /\ IdleUnlessResting'
  <2>1. UNCHANGED <<worker, now, batch>>
    BY <1>12 DEF RewriteBrief
  <2>2. CASE current' = current
    BY <2>1, <2>2, LooksStutter
  <2>3. CASE HeldByWorker(u)
    BY <1>7, <2>1, <2>3, HandlerIs DEF HeldByWorker, Writes
  <2> QED
    BY <1>12, <2>2, <2>3 DEF RewriteBrief
<1>13. CASE RecordConflicts \/ HandlerFails
  <2>1. worker'.at = "asleep" /\ current' = Idle
    BY <1>13 DEF RecordConflicts, HandlerFails, HandlerRaises, TypeOK, Memory
  <2> QED
    BY <2>1 DEF LooksFirst, IdleUnlessResting
<1>14. CASE WorkerDies
  <2>1. worker'.at = "down" /\ current' = Idle
    BY <1>14 DEF WorkerDies, TypeOK, Memory
  <2> QED
    BY <2>1 DEF LooksFirst, IdleUnlessResting
<1>15. CASE Restart
  <2>1. worker'.at = "asleep" /\ current' = current /\ worker.at = "down"
    BY <1>15 DEF Restart, Fresh
  <2> QED
    BY <2>1 DEF LooksFirst, IdleUnlessResting
<1>16. CASE Tick
  <2>1. worker'.at = worker.at /\ worker'.worked = worker.worked /\ UNCHANGED <<batch, current>>
    BY <1>16 DEF Tick, TypeOK, Memory
  <2>2. ~(worker.at = "drain" \/ (worker.at = "rest" /\ ~worker.worked))
    BY <1>16 DEF Tick, IdleUnlessResting
  <2> QED
    BY <2>1, <2>2 DEF LooksFirst, IdleUnlessResting
<1>17. CASE UNCHANGED vars
  BY <1>17, LooksStutter DEF vars
<1> QED
  BY <1>1, <1>2, <1>3, <1>4, <1>5, <1>6, <1>8, <1>9, <1>10, <1>11, <1>12, <1>13, <1>14, <1>15,
     <1>16, <1>17 DEF Next

(* The worker starts asleep, with every schedule due. *)
LEMMA InitClock == Init => ClockInv
<1> SUFFICES ASSUME Init  PROVE ClockInv
  OBVIOUS
<1>1. TypeOK /\ mishaps = 0
  BY InitInv DEF IInv, Init
<1>2. Reached = 0 /\ worker.at = "asleep" /\ current = Idle
  BY DEF Init, Fresh, Reached
<1>3. \A s \in Schedules : worker.lastRun[s] = None /\ queuedAt[s] = 0 /\ worker.slow = 0
  BY DEF Init, Fresh
<1>4. \A s \in Schedules : Lost(s) \in Nat /\ Every[s] \in Nat
  BY <1>1, LostIs
<1> QED
  BY <1>2, <1>3, <1>4 DEF ClockInv, NotedInTime, SleepsInTime, LooksFirst, IdleUnlessResting

(* No schedule is slept through, however long the worker is at work or      *)
(* down: after its interval and what the worker lost it is on the queue, or *)
(* a mishap has cost it a turn (seconds_until_due, tick_schedules). *)
THEOREM ScheduleKeptAlways == Spec => []ScheduleKept
<1>1. IInv /\ ClockInv /\ [Next]_vars => ClockInv'
  BY NextInv, NextInTime, NextLooks DEF IInv, ClockInv
<1>2. IInv /\ ClockInv => ScheduleKept
  <2> SUFFICES ASSUME TypeOK, ClockInv, NEW s \in Schedules
               PROVE  now - queuedAt[s] <= (1 + mishaps) * (Every[s] + MaxSlow)
    BY DEF IInv, ScheduleKept
  <2>1. Reached - queuedAt[s] <= Lost(s) + Every[s] + worker.slow
    BY DEF ClockInv, SleepsInTime
  <2> QED
    BY <2>1, LostIs, TimesAre
<1> QED
  BY <1>1, <1>2, InitInv, NextInv, InitClock, PTL DEF Spec
-----------------------------------------------------------------------------
(* Every brief in time. *)

(* The window does not open before the flags are of its gameweek, even if    *)
(* every run that the window has, but one, goes to a mishap.  In the code    *)
(* both schedules are of an hour, the window of 36 and the week of 168.      *)
FlagsSettle == RunsInWindow * (Every["ingest_core"] + MaxSlow) <= Week - Lead

(* An errand is what a schedule has to get done once in a gameweek: the      *)
(* flags moved to it after the last deadline, a member's brief sent before   *)
(* the next.                                                                 *)
Errands == ({"ingest_core"} \X Users \X Gameweeks) \cup ({"dispatch_deadline_briefs"} \X Pro \X Gameweeks)

Opens(e) == IF e[1] = "ingest_core" THEN DeadlineOf(e[3]) - Week ELSE DeadlineOf(e[3]) - Lead
IsOpen(e) == Opens(e) <= now /\ now < DeadlineOf(e[3])
Met(e) == IF e[1] = "ingest_core" THEN next = e[3] ELSE sent["brief", e[2], e[3]] > 0

(* A run that will do it is on its way: queued before a drain, claimed, or   *)
(* with the member still before it.                                          *)
InHand(e) ==
  IF e[1] = "ingest_core" THEN current.kind = "ingest_core"
  ELSE /\ current.kind = "brief" /\ current.gw = e[3]
       /\ e[2] \in current.todo \/ (current.user = e[2] /\ current.answer = None)
OnTheWay(e) ==
  \/ worker.at = "drain" /\ job[e[1]] = "ready"
  \/ worker.at = "rest" /\ e[1] \in batch
  \/ InHand(e)

(* Otherwise every run of the schedule that was noted since it opened went   *)
(* to a mishap, a run that a mishap holds back was of the time it cost, and  *)
(* the next look is no later than that allows.                               *)
Missed(s, o)   == worker.lastRun[s] # None => worker.lastRun[s] - o < Lost(s)
HeldBack(s, o) == job[s] = "held" => now - o < Lost(s)
NextLook(s, o) == Reached - o < Lost(s) + Every[s] + worker.slow

OnSchedule(e) ==
  /\ NextLook(e[1], Opens(e)) /\ HeldBack(e[1], Opens(e))
  /\ OnTheWay(e) \/ Missed(e[1], Opens(e))

ErrandsOnSchedule ==
  mishaps < RunsInWindow => \A e \in Errands : IsOpen(e) /\ ~Met(e) => OnSchedule(e)

(* Nothing was noted or queued in times to come; a claimed job is in the     *)
(* hands of a worker that is at work; a brief on record was sent.            *)
PastIsPast ==
  \A s \in Schedules : queuedAt[s] <= now /\ (worker.lastRun[s] # None => worker.lastRun[s] <= now)
ClaimedAtWork ==
  \A s \in Schedules : job[s] = "claimed" =>
    worker.at = "rest" /\ (s \in batch \/ (current # Idle /\ s = JobOf(current.kind)))
FiledIsSent ==
  \A u \in Users, g \in Gameweeks : brief[u, g] = TRUE => sent["brief", u, g] > 0

WorkInv == PastIsPast /\ ClaimedAtWork /\ FiledIsSent

(* A product grows with its first factor. *)
LEMMA TimesMore ==
  ASSUME NEW a \in Nat, NEW b \in Nat, NEW k \in Nat, a <= b
  PROVE  a * k <= b * k /\ a * k \in Nat /\ b * k \in Nat
<1>1. PICK c \in Nat : b = a + c
  <2>1. b - a \in Nat /\ b = a + (b - a)
    OBVIOUS
  <2> QED
    BY <2>1
<1>2. b * k = a * k + c * k /\ c * k \in Nat /\ a * k \in Nat
  BY <1>1
<1> QED
  BY <1>2

(* The deadlines are a week apart. *)
LEMMA DeadlinesApart ==
  ASSUME NEW g \in Gameweeks
  PROVE  /\ DeadlineOf(g) \in Nat /\ DeadlineOf(g) >= Week /\ Week \in Nat /\ Week > 0 /\ Lead \in Nat
         /\ \A h \in Gameweeks : DeadlineOf(h) > DeadlineOf(g) - Week => g <= h
<1>1. g \in Nat /\ g >= 1 /\ Week \in Nat /\ Week > 0 /\ Lead \in Nat
  BY DispatchAssumption DEF Gameweeks
<1>2. 1 * Week <= g * Week /\ g * Week \in Nat
  BY <1>1, TimesMore
<1>3. ASSUME NEW h \in Gameweeks, ~(g <= h)
      PROVE  DeadlineOf(h) <= DeadlineOf(g) - Week
  <2>1. h \in Nat /\ h + 1 \in Nat /\ h + 1 <= g
    BY <1>1, <1>3 DEF Gameweeks
  <2>2. (h + 1) * Week <= g * Week
    BY <1>1, <2>1, TimesMore
  <2>3. (h + 1) * Week = h * Week + Week /\ h * Week \in Nat
    BY <1>1, <2>1
  <2> QED
    BY <1>1, <1>2, <2>2, <2>3 DEF DeadlineOf
<1>4. \A h \in Gameweeks : DeadlineOf(h) \in Nat
  BY DispatchAssumption DEF DeadlineOf, Gameweeks
<1>5. DeadlineOf(g) = g * Week
  BY DEF DeadlineOf
<1> QED
  BY <1>1, <1>2, <1>3, <1>4, <1>5

(* Between two deadlines, FPL's next gameweek is the one of the second. *)
LEMMA UpcomingIs ==
  ASSUME TypeOK, NEW g \in Gameweeks, DeadlineOf(g) - Week <= now, now < DeadlineOf(g)
  PROVE  Upcoming # {} /\ Min(Upcoming) = g
<1>1. g \in Upcoming
  BY DEF Upcoming
<1>2. Upcoming \subseteq Gameweeks /\ Upcoming \subseteq Nat
  BY DEF Upcoming, Gameweeks
<1>3. Min(Upcoming) \in Upcoming /\ Min(Upcoming) <= g
  BY <1>1, <1>2, MinOfNaturals
<1> DEFINE h == Min(Upcoming)
<1>4. h \in Gameweeks /\ DeadlineOf(h) > now
  BY <1>3 DEF Upcoming
<1> HIDE DEF h
<1>5. DeadlineOf(h) \in Nat /\ DeadlineOf(g) \in Nat /\ now \in Nat /\ Week \in Nat
  BY <1>4, DeadlinesApart DEF TypeOK, Times
<1>6. g <= h
  BY <1>4, <1>5, DeadlinesApart
<1>7. h <= g /\ h \in Nat /\ g \in Nat
  BY <1>3, <1>4 DEF h, Gameweeks
<1>8. h = g
  BY <1>6, <1>7
<1> QED
  BY <1>1, <1>8 DEF h

(* How many runs the window has is a number. *)
LEMMA RunsAre == RunsInWindow \in Int
<1>1. Every["dispatch_deadline_briefs"] + MaxSlow \in Nat \ {0} /\ Lead - 1 \in Int
  BY DispatchAssumption DEF Schedules
<1> QED
  BY <1>1 DEF RunsInWindow

(* The window holds the runs it is said to hold. *)
LEMMA WindowHolds ==
  ASSUME RunsInWindow > 0
  PROVE  /\ RunsInWindow \in Nat /\ Lead > 0
         /\ RunsInWindow * (Every["dispatch_deadline_briefs"] + MaxSlow) < Lead
<1> DEFINE P == Every["dispatch_deadline_briefs"] + MaxSlow
<1>1. P \in Nat /\ P > 0 /\ Lead \in Nat
  BY DispatchAssumption DEF Schedules
<1>2. RunsInWindow = (Lead - 1) \div P
  BY DEF RunsInWindow
<1> HIDE DEF P
<1>3. CASE Lead = 0
  <2>1. (0 - 1) \div P \in Int /\ (0 - 1) \div P <= 0
    BY <1>1
  <2> QED
    BY <1>2, <1>3, <2>1
<1>4. CASE Lead # 0
  <2>1. Lead - 1 \in Nat
    BY <1>1, <1>4
  <2>2. (Lead - 1) \div P \in Nat /\ P * ((Lead - 1) \div P) <= Lead - 1
    BY <1>1, <2>1
  <2>3. P * RunsInWindow = RunsInWindow * P /\ RunsInWindow * P \in Nat
    BY <1>1, <1>2, <2>2
  <2> QED
    BY <1>1, <1>2, <1>4, <2>2, <2>3 DEF P
<1> QED
  BY <1>1, <1>3, <1>4

(* What mishaps cost leaves a run over. *)
LEMMA RunLeft ==
  ASSUME TypeOK, mishaps < RunsInWindow, NEW s \in Schedules
  PROVE  Lost(s) + Every[s] + MaxSlow <= RunsInWindow * (Every[s] + MaxSlow)
<1> DEFINE R == RunsInWindow
           K == Every[s] + MaxSlow
<1>1. mishaps \in Nat /\ K \in Nat /\ Every[s] \in Nat /\ MaxSlow \in Nat
  BY DispatchAssumption DEF TypeOK
<1>2. RunsInWindow \in Int
  BY RunsAre
<1>3. mishaps + 1 <= R /\ R \in Nat /\ mishaps + 1 \in Nat
  BY <1>1, <1>2
<1> HIDE DEF R, K
<1>4. (mishaps + 1) * K <= R * K
  BY <1>1, <1>3, TimesMore
<1>5. (mishaps + 1) * K = mishaps * K + K
  BY <1>1
<1>6. Lost(s) = mishaps * K /\ mishaps * K \in Nat /\ R * K \in Nat
  BY <1>1, <1>3 DEF Lost, K
<1> QED
  BY <1>1, <1>4, <1>5, <1>6 DEF K, R
(* Who an errand is for, and of which schedule. *)
LEMMA ErrandIs ==
  ASSUME NEW e \in Errands
  PROVE  /\ e[1] \in Schedules /\ e[2] \in Users /\ e[3] \in Gameweeks /\ Opens(e) \in Int
         /\ e[1] = "ingest_core" \/ (e[1] = "dispatch_deadline_briefs" /\ e[2] \in Pro)
<1>1. /\ e[1] \in Schedules /\ e[2] \in Users /\ e[3] \in Gameweeks
      /\ e[1] = "ingest_core" \/ (e[1] = "dispatch_deadline_briefs" /\ e[2] \in Pro)
  BY DispatchAssumption DEF Errands, Schedules
<1>2. DeadlineOf(e[3]) \in Nat /\ Week \in Nat /\ Lead \in Nat
  BY <1>1, DeadlinesApart
<1> QED
  BY <1>1, <1>2 DEF Opens

(* A brief that is still to be sent has more time than the next look at the *)
(* schedules takes. *)
LEMMA BriefHasTime ==
  ASSUME TypeOK, mishaps < RunsInWindow, NEW e \in Errands, e[1] = "dispatch_deadline_briefs",
         IsOpen(e), OnSchedule(e)
  PROVE  now + 1 < DeadlineOf(e[3])
<1> DEFINE s == "dispatch_deadline_briefs"
<1>1. s \in Schedules /\ mishaps \in Nat /\ RunsInWindow \in Int
  BY RunsAre DEF Schedules, TypeOK
<1>2. /\ Lost(s) + Every[s] + MaxSlow <= RunsInWindow * (Every[s] + MaxSlow)
      /\ RunsInWindow * (Every[s] + MaxSlow) < Lead
      /\ RunsInWindow * (Every[s] + MaxSlow) \in Int
  BY <1>1, RunLeft, WindowHolds, DispatchAssumption
<1>3. Reached - Opens(e) < Lost(s) + Every[s] + worker.slow
  BY DEF OnSchedule, NextLook
<1>4. Opens(e) = DeadlineOf(e[3]) - Lead /\ DeadlineOf(e[3]) \in Nat /\ Lead \in Nat
  BY ErrandIs, DeadlinesApart DEF Opens
<1>5. /\ now \in Nat /\ Reached \in Nat /\ now <= Reached /\ worker.slow \in Nat /\ worker.slow <= MaxSlow
      /\ Lost(s) \in Nat /\ Every[s] \in Nat /\ MaxSlow \in Nat
  BY <1>1, TimesAre, LostIs
<1> HIDE DEF s
<1> QED
  BY <1>2, <1>3, <1>4, <1>5

(* While the window is open the flags are of its gameweek. *)
LEMMA FlagsInTime ==
  ASSUME TypeOK, FlagsSettle, ErrandsOnSchedule, mishaps < RunsInWindow,
         NEW e \in Errands, e[1] = "dispatch_deadline_briefs", IsOpen(e)
  PROVE  NextGameweek = e[3] /\ InWindow
<1> DEFINE s == "ingest_core"
           g == e[3]
           f == <<s, e[2], g>>
<1>1. s \in Schedules /\ mishaps \in Nat /\ RunsInWindow \in Int /\ g \in Gameweeks
  BY ErrandIs, RunsAre DEF Schedules, TypeOK
<1>2. f \in Errands /\ f[1] = s /\ f[3] = g
  BY <1>1, ErrandIs DEF Errands
<1>3. /\ Lost(s) + Every[s] + MaxSlow <= RunsInWindow * (Every[s] + MaxSlow)
      /\ RunsInWindow * (Every[s] + MaxSlow) <= Week - Lead
      /\ RunsInWindow * (Every[s] + MaxSlow) \in Int
  BY <1>1, RunLeft, DispatchAssumption DEF FlagsSettle
<1>4. DeadlineOf(g) \in Nat /\ Lead \in Nat /\ Week \in Nat
  BY <1>1, DeadlinesApart
<1>5. /\ now \in Nat /\ Reached \in Nat /\ now <= Reached /\ worker.slow \in Nat /\ worker.slow <= MaxSlow
      /\ Lost(s) \in Nat /\ Every[s] \in Nat /\ MaxSlow \in Nat
  BY <1>1, TimesAre, LostIs
<1>6. Opens(e) = DeadlineOf(g) - Lead /\ Opens(f) = DeadlineOf(g) - Week
  BY <1>2 DEF Opens
<1>7. DeadlineOf(g) - Lead <= now /\ now < DeadlineOf(g)
  BY <1>6 DEF IsOpen
<1>8. Week - Lead \in Nat
  BY <1>3, <1>4, <1>5
<1>9. IsOpen(f)
  BY <1>2, <1>4, <1>5, <1>6, <1>7, <1>8 DEF IsOpen
<1>10. ASSUME ~Met(f)  PROVE FALSE
  <2>1. Reached - Opens(f) < Lost(s) + Every[s] + worker.slow
    BY <1>2, <1>9, <1>10 DEF ErrandsOnSchedule, OnSchedule, NextLook
  <2> HIDE DEF s, g, f
  <2> QED
    BY <1>3, <1>4, <1>5, <1>6, <1>7, <2>1
<1>11. next = g /\ g # None
  BY <1>1, <1>2, <1>10, DispatchAssumption DEF Met, Gameweeks
<1> QED
  BY <1>4, <1>5, <1>7, <1>11 DEF NextGameweek, InWindow
(* What was noted or queued stays in the past. *)
LEMMA NextPast ==
  ASSUME TypeOK, TypeOK', PastIsPast, [Next]_vars
  PROVE  PastIsPast'
<1> USE DEF tables, bounds, history
<1>0. now \in Nat /\ worker \in Memory /\ \A s \in Schedules : queuedAt[s] \in Nat
  BY DEF TypeOK, Times
<1>1. ASSUME UNCHANGED <<now, queuedAt>>, worker'.lastRun = worker.lastRun
      PROVE  PastIsPast'
  BY <1>1 DEF PastIsPast
<1>2. CASE TickSchedules \/ TickFails
  <2>1. /\ worker'.lastRun = Noted.lastRun /\ now' = now
        /\ \A s \in Schedules : queuedAt'[s] \in {queuedAt[s], now}
    BY <1>2, NotedIs, ZenonT(30) DEF TickSchedules, TickFails, Memory, TypeOK
  <2>2. \A s \in Schedules : Noted.lastRun[s] \in {worker.lastRun[s], now}
    BY RememberedIs DEF Noted, Memory
  <2> QED
    BY <1>0, <2>1, <2>2 DEF PastIsPast
<1>3. CASE Drain \/ Sleep
  <2>1. worker'.lastRun = worker.lastRun
    <3>1. CASE Drain
      BY <1>0, <3>1 DEF Drain, Memory
    <3>2. CASE Sleep
      <4>1. PICK at, wake, slow : worker' = [Remembered EXCEPT !.at = at, !.slow = slow, !.wake = wake]
        BY <3>2 DEF Sleep
      <4> QED
        BY <4>1, RememberedIs DEF Memory
    <3> QED
      BY <1>3, <3>1, <3>2
  <2> QED
    BY <1>1, <1>3, <2>1 DEF Drain, Sleep
<1>4. CASE RecordConflicts \/ HandlerFails \/ WorkerDies
  <2>1. worker'.lastRun = worker.lastRun
    BY <1>0, <1>4 DEF RecordConflicts, HandlerFails, HandlerRaises, WorkerDies, Memory
  <2> QED
    BY <1>1, <1>4, <2>1 DEF RecordConflicts, HandlerFails, HandlerRaises, WorkerDies
<1>5. CASE Restart
  <2>1. worker'.lastRun = [s \in Schedules |-> None] /\ UNCHANGED <<now, queuedAt>>
    BY <1>5 DEF Restart, Fresh
  <2> QED
    BY <2>1 DEF PastIsPast
<1>6. CASE Tick
  <2>1. worker'.lastRun = worker.lastRun /\ now' = now + 1 /\ queuedAt' = queuedAt
    BY <1>0, <1>6 DEF Tick, Memory
  <2>2. \A s \in Schedules : worker.lastRun[s] # None => worker.lastRun[s] \in Nat
    BY TimesAre
  <2> QED
    BY <1>0, <2>1, <2>2 DEF PastIsPast
<1>7. CASE \/ StartIngest \/ FinishIngest \/ StartBriefs \/ StartRecaps \/ FinishLetters
           \/ RecordBrief \/ RecordRecap \/ Deliver \/ AnswerLost \/ NotTaken \/ UNCHANGED vars
  BY <1>1, <1>7 DEF StartIngest, FinishIngest, StartBriefs, StartRecaps, FinishLetters,
                    RecordBrief, RecordRecap, Deliver, AnswerLost, NotTaken, vars
<1>8. ASSUME NEW u \in Users, \/ PassOver(u) \/ TakeUp(u) \/ SkipBrief(u)
                              \/ ViewBrief(u) \/ RewriteBrief(u) \/ TrackAgain(u)
      PROVE  PastIsPast'
  BY <1>1, <1>8 DEF PassOver, TakeUp, SkipBrief, ViewBrief, RewriteBrief, TrackAgain
<1> QED
  BY <1>2, <1>3, <1>4, <1>5, <1>6, <1>7, <1>8 DEF Next

(* A step that leaves the jobs and who has them alone. *)
LEMMA ClaimedStutter ==
  ASSUME ClaimedAtWork, UNCHANGED <<job, batch>>, worker'.at = worker.at,
         current # Idle => current' # Idle /\ current'.kind = current.kind
  PROVE  ClaimedAtWork'
  BY DEF ClaimedAtWork, JobOf

(* A claimed job is in the batch of a worker at work, or in hand: what a     *)
(* worker that raises or dies leaves behind is held back. *)
LEMMA NextClaimed ==
  ASSUME TypeOK, TypeOK', IdleUnlessResting, ClaimedAtWork, [Next]_vars
  PROVE  ClaimedAtWork'
<1> USE DEF tables, bounds, history
<1>0. worker \in Memory /\ Remembered \in Memory /\ job \in [Schedules -> {"none", "ready", "claimed", "held"}]
  BY RememberedIs DEF TypeOK
<1>1. CASE TickSchedules
  <2>1. worker.at # "rest" /\ \A s \in Schedules : job'[s] = job[s] \/ job'[s] = "ready"
    BY <1>0, <1>1 DEF TickSchedules, Looks
  <2> QED
    BY <2>1 DEF ClaimedAtWork
<1>2. CASE TickFails
  <2>1. worker'.at = worker.at
    BY <1>2, NotedIs DEF TickFails
  <2> QED
    BY <1>2, <2>1, ClaimedStutter DEF TickFails
<1>3. CASE Drain
  <2>1. worker'.at = "rest" /\ worker.at # "rest" /\ batch' = {s \in Schedules : job[s] = "ready"}
        /\ \A s \in Schedules : job'[s] = "claimed" => job[s] = "claimed" \/ job[s] = "ready"
    BY <1>0, <1>3 DEF Drain, Memory
  <2> QED
    BY <2>1 DEF ClaimedAtWork
<1>4. CASE Sleep
  <2>1. job' = job /\ batch = {} /\ current = Idle
    BY <1>4 DEF Sleep
  <2> QED
    BY <2>1 DEF ClaimedAtWork
<1>5. CASE StartIngest \/ StartBriefs \/ StartRecaps
  <2>1. PICK s \in Schedules : /\ Begins(s)
                               /\ \/ job' = job /\ current' # Idle /\ JobOf(current'.kind) = s
                                  \/ job' = [job EXCEPT ![s] = "none"]
    BY <1>5, DispatchAssumption
       DEF StartIngest, StartBriefs, StartRecaps, Ends, Schedules, JobOf, Writing, Idle
  <2>2. batch' = batch \ {s} /\ current = Idle /\ worker' = worker
    BY <1>5, <2>1 DEF Begins, StartIngest, StartBriefs, StartRecaps
  <2> QED
    BY <1>0, <2>1, <2>2 DEF ClaimedAtWork
<1>6. CASE FinishIngest \/ FinishLetters
  <2>1. UNCHANGED <<worker, batch>> /\ job' = [job EXCEPT ![JobOf(current.kind)] = "none"]
    BY <1>6 DEF FinishIngest, FinishLetters, Ends, JobOf
  <2>2. current # Idle => JobOf(current.kind) \in Schedules
    BY <1>6 DEF FinishIngest, FinishLetters, Between, Writes, JobOf, Schedules
  <2> QED
    BY <1>0, <2>1, <2>2 DEF ClaimedAtWork
<1>7. CASE RecordConflicts \/ HandlerFails \/ WorkerDies
  <2>1. job' = Abandoned
    BY <1>7 DEF RecordConflicts, HandlerFails, HandlerRaises, WorkerDies
  <2> QED
    BY <2>1 DEF Abandoned, ClaimedAtWork
<1>8. CASE Restart
  <2>1. job' = job /\ worker.at = "down"
    BY <1>8 DEF Restart
  <2> QED
    BY <2>1 DEF ClaimedAtWork
<1>9. CASE Tick
  <2>1. UNCHANGED <<batch, current>> /\ worker'.at = worker.at
        /\ \A s \in Schedules : job'[s] = "claimed" => job[s] = "claimed"
    BY <1>0, <1>9 DEF Tick, Memory
  <2> QED
    BY <2>1 DEF ClaimedAtWork
<1>10. ASSUME UNCHANGED <<worker, job, batch>>, Writes, current' \in Handler, current'.kind = current.kind
       PROVE  ClaimedAtWork'
  <2>1. current' # Idle
    BY <1>10, DispatchAssumption DEF Handler, Idle
  <2> QED
    BY <1>10, <2>1, ClaimedStutter
<1>11. ASSUME NEW u \in Users, PassOver(u) \/ TakeUp(u) \/ SkipBrief(u)  PROVE ClaimedAtWork'
  BY <1>10, <1>11, HandlerIs DEF PassOver, TakeUp, SkipBrief, Between, Handler
<1>12. CASE Deliver \/ AnswerLost \/ NotTaken
  BY <1>10, <1>12, HandlerIs DEF Deliver, AnswerLost, NotTaken, Sending, Handler
<1>13. CASE RecordBrief \/ RecordRecap
  <2>1. Writes
    BY <1>13 DEF RecordBrief, RecordRecap, Handles, Writes
  <2>2. current' = NextRecipient /\ UNCHANGED <<worker, job, batch>>
    BY <1>13 DEF RecordBrief, RecordRecap
  <2> QED
    BY <1>10, <2>1, <2>2, HandlerIs DEF NextRecipient, Handler
<1>14. ASSUME NEW u \in Users, ViewBrief(u) \/ TrackAgain(u)  PROVE ClaimedAtWork'
  BY <1>14, ClaimedStutter DEF ViewBrief, TrackAgain
<1>15. ASSUME NEW u \in Users, RewriteBrief(u)  PROVE ClaimedAtWork'
  <2>1. UNCHANGED <<worker, job, batch>>
    BY <1>15 DEF RewriteBrief
  <2>2. CASE current' = current
    BY <2>1, <2>2, ClaimedStutter
  <2>3. CASE HeldByWorker(u) /\ current' = [current EXCEPT !.gone = TRUE]
    <3>1. Writes
      BY <2>3 DEF HeldByWorker, Writes
    <3> QED
      BY <1>10, <2>1, <2>3, <3>1, HandlerIs DEF Handler
  <2> QED
    BY <1>15, <2>2, <2>3 DEF RewriteBrief
<1>16. CASE UNCHANGED vars
  BY <1>16, ClaimedStutter DEF vars
<1> QED
  BY <1>1, <1>2, <1>3, <1>4, <1>5, <1>6, <1>7, <1>8, <1>9, <1>11, <1>12, <1>13, <1>14, <1>15, <1>16 DEF Next

(* Only a brief that was sent is put on record. *)
LEMMA NextFiled ==
  ASSUME TypeOK, TypeOK', HandlerKnows, FiledIsSent, [Next]_vars
  PROVE  FiledIsSent'
<1> USE DEF tables, bounds, history
<1>0. \A u \in Users, g \in Gameweeks : <<"brief", u, g>> \in Letters /\ <<u, g>> \in Users \X Gameweeks
  BY DEF Letters
<1>1. ASSUME UNCHANGED brief,
             \A l \in Letters : sent'[l] >= sent[l]
      PROVE  FiledIsSent'
  <2>1. ASSUME NEW l \in Letters, sent[l] > 0  PROVE sent'[l] > 0
    <3>1. sent[l] \in Nat /\ sent'[l] \in Nat /\ sent'[l] >= sent[l]
      BY <1>1 DEF TypeOK
    <3> QED
      BY <2>1, <3>1
  <2>2. \A u \in Users, g \in Gameweeks : brief[u, g] = TRUE => sent'["brief", u, g] > 0
    BY <1>0, <2>1 DEF FiledIsSent
  <2> QED
    BY <1>1, <2>2 DEF FiledIsSent
<1>2. ASSUME UNCHANGED <<brief, sent>>  PROVE FiledIsSent'
  BY <1>2 DEF FiledIsSent
<1>3. CASE Deliver \/ AnswerLost
  <2>1. sent' = [sent EXCEPT ![Letter] = @ + 1] /\ UNCHANGED brief
    BY <1>3 DEF Deliver, AnswerLost
  <2>2. \A l \in Letters : sent'[l] >= sent[l]
    BY <2>1 DEF TypeOK
  <2> QED
    BY <1>1, <2>1, <2>2
<1>4. CASE RecordBrief
  <2>1. Writes /\ current.kind = "brief" /\ current.user \in Users /\ current.gw \in Gameweeks
    BY <1>4, HandlerIs DEF RecordBrief, Handles, Writes, HandlerKnows
  <2>2. /\ brief' = [brief EXCEPT ![<<current.user, current.gw>>] = Delivered \/ @ = TRUE]
        /\ sent' = sent
    BY <1>4 DEF RecordBrief
  <2>3. Delivered => sent["brief", current.user, current.gw] > 0
    BY <2>1 DEF Delivered, HandlerKnows, Letter
  <2> SUFFICES ASSUME NEW u \in Users, NEW g \in Gameweeks, brief'[u, g] = TRUE
               PROVE  sent["brief", u, g] > 0
    BY <2>2 DEF FiledIsSent
  <2>4. CASE u = current.user /\ g = current.gw
    <3>1. brief'[u, g] = (Delivered \/ brief[u, g] = TRUE)
      BY <1>0, <2>1, <2>2, <2>4 DEF TypeOK
    <3>2. Delivered \/ brief[u, g] = TRUE
      BY <3>1
    <3> QED
      BY <2>3, <2>4, <3>2 DEF FiledIsSent
  <2>5. CASE ~(u = current.user /\ g = current.gw)
    <3>1. brief'[u, g] = brief[u, g]
      BY <1>0, <2>2, <2>5 DEF TypeOK
    <3> QED
      BY <3>1 DEF FiledIsSent
  <2> QED
    BY <2>4, <2>5
<1>5. ASSUME NEW v \in Users, ViewBrief(v) \/ RewriteBrief(v)  PROVE FiledIsSent'
  <2>1. brief' = [brief EXCEPT ![<<v, NextGameweek>>] = FALSE] /\ sent' = sent
    BY <1>5 DEF ViewBrief, RewriteBrief
  <2>2. \A u \in Users, g \in Gameweeks : brief'[u, g] = brief[u, g] \/ brief'[u, g] = FALSE
    BY <1>0, <2>1 DEF TypeOK
  <2> QED
    BY <2>1, <2>2 DEF FiledIsSent
<1>6. CASE \/ TickSchedules \/ TickFails \/ Drain \/ Sleep \/ Restart \/ Tick \/ UNCHANGED vars
           \/ StartIngest \/ FinishIngest \/ StartBriefs \/ StartRecaps \/ FinishLetters
           \/ RecordRecap \/ NotTaken \/ RecordConflicts \/ HandlerFails \/ WorkerDies
  BY <1>2, <1>6 DEF TickSchedules, TickFails, Drain, Sleep, Restart, Tick, vars,
       StartIngest, FinishIngest, StartBriefs, StartRecaps, FinishLetters, RecordRecap, NotTaken,
       RecordConflicts, HandlerFails, HandlerRaises, WorkerDies
<1>7. ASSUME NEW u \in Users, PassOver(u) \/ TakeUp(u) \/ SkipBrief(u) \/ TrackAgain(u)  PROVE FiledIsSent'
  BY <1>2, <1>7 DEF PassOver, TakeUp, SkipBrief, TrackAgain
<1> QED
  BY <1>3, <1>4, <1>5, <1>6, <1>7 DEF Next
(* What is on schedule after a step, an opening time being no state. *)
LEMMA ScheduledAfter ==
  ASSUME NEW e \in Errands, NextLook(e[1], Opens(e))', HeldBack(e[1], Opens(e))',
         OnTheWay(e)' \/ Missed(e[1], Opens(e))'
  PROVE  OnSchedule(e)'
  BY DEF OnSchedule

(* A mishap costs a run, and the time until the next. *)
LEMMA MishapCostsARun ==
  ASSUME TypeOK, TypeOK', PastIsPast', NEW e \in Errands, NextLook(e[1], Opens(e)),
         mishaps' = mishaps + 1, now' = now, Reached' <= Reached, worker'.slow = worker.slow
  PROVE  OnSchedule(e)'
<1> DEFINE s == e[1]
<1>1. PICK o \in Int : o = Opens(e) /\ o = Opens(e)'
  BY ErrandIs DEF Opens, DeadlineOf
<1>2. s \in Schedules
  BY ErrandIs
<1>3. /\ Lost(s) \in Nat /\ Every[s] \in Nat /\ MaxSlow \in Nat
      /\ Lost(s)' = Lost(s) + Every[s] + MaxSlow
  BY <1>2, LostIs
<1>4. /\ now \in Nat /\ Reached \in Nat /\ now <= Reached /\ worker.slow \in Nat /\ worker.slow <= MaxSlow
  BY <1>2, TimesAre
<1>5. Reached' \in Nat /\ (worker'.lastRun[s] # None => worker'.lastRun[s] \in Nat /\ worker'.lastRun[s] <= now)
  <2>1. worker'.lastRun[s] # None => worker'.lastRun[s] \in Nat /\ worker'.lastRun[s] <= now'
    BY <1>2 DEF PastIsPast, TypeOK, Memory, Times
  <2> QED
    BY <2>1, DispatchAssumption DEF TypeOK, Memory, Times, Reached
<1>6. Reached - o < Lost(s) + Every[s] + worker.slow
  BY <1>1 DEF NextLook
<1> HIDE DEF s
<1>7. now - o < Lost(s)'
  BY <1>3, <1>4, <1>6
<1>8. Reached' - o < Lost(s)' + Every[s] + worker'.slow
  BY <1>3, <1>4, <1>5, <1>6
<1>9. worker'.lastRun[s] # None => worker'.lastRun[s] - o < Lost(s)'
  BY <1>3, <1>4, <1>5, <1>7
<1> QED
  BY <1>1, <1>7, <1>8, <1>9, ScheduledAfter DEF s, NextLook, HeldBack, Missed

(* A step that takes no time and costs no run. *)
LEMMA StaysOnSchedule ==
  ASSUME TypeOK, TypeOK', NEW e \in Errands, OnSchedule(e),
         UNCHANGED <<mishaps, now>>, Reached' <= Reached, worker'.slow = worker.slow,
         job'[e[1]] = "held" => job[e[1]] = "held",
         \/ OnTheWay(e)'
         \/ ~OnTheWay(e) /\ worker'.lastRun[e[1]] \in {None, worker.lastRun[e[1]]}
         \/ job[e[1]] = "held" /\ worker'.lastRun[e[1]] = now
  PROVE  OnSchedule(e)'
<1> DEFINE s == e[1]
<1>1. PICK o \in Int : o = Opens(e) /\ o = Opens(e)'
  BY ErrandIs DEF Opens, DeadlineOf
<1>2. s \in Schedules
  BY ErrandIs
<1>3. Lost(s) \in Nat /\ Every[s] \in Nat /\ Lost(s)' = Lost(s)
  BY <1>2, LostIs
<1>4. now \in Nat /\ Reached \in Nat /\ worker.slow \in Nat
  BY <1>2, TimesAre
<1>5. Reached' \in Nat
  BY DispatchAssumption DEF TypeOK, Memory, Times, Reached
<1>6. Reached - o < Lost(s) + Every[s] + worker.slow
  BY <1>1 DEF OnSchedule, NextLook
<1>7. job[s] = "held" => now - o < Lost(s)
  BY <1>1 DEF OnSchedule, HeldBack
<1>8. OnTheWay(e) \/ (worker.lastRun[s] # None => worker.lastRun[s] - o < Lost(s))
  BY <1>1 DEF OnSchedule, Missed
<1> HIDE DEF s
<1>9. NextLook(s, o)' /\ HeldBack(s, o)'
  <2>1. Reached' - o < Lost(s)' + Every[s] + worker'.slow
    BY <1>3, <1>4, <1>5, <1>6
  <2> QED
    BY <1>3, <1>7, <2>1 DEF NextLook, HeldBack, s
<1>10. OnTheWay(e)' \/ Missed(s, o)'
  BY <1>3, <1>7, <1>8 DEF Missed, s
<1> QED
  BY <1>1, <1>9, <1>10, ScheduledAfter DEF s, NextLook, HeldBack, Missed
(* No letter is unsent. *)
LEMMA SentGrows ==
  ASSUME TypeOK, TypeOK', [Next]_vars, NEW l \in Letters, sent[l] > 0
  PROVE  sent'[l] > 0
<1> USE DEF tables, bounds, history
<1>1. CASE Deliver \/ AnswerLost
  <2>1. sent' = [sent EXCEPT ![Letter] = @ + 1] /\ sent[l] \in Nat
    BY <1>1 DEF Deliver, AnswerLost, TypeOK
  <2>2. sent'[l] = sent[l] \/ sent'[l] = sent[l] + 1
    BY <2>1 DEF TypeOK
  <2> QED
    BY <2>1, <2>2
<1>2. CASE \/ TickSchedules \/ TickFails \/ Drain \/ Sleep \/ Restart \/ Tick \/ UNCHANGED vars
           \/ StartIngest \/ FinishIngest \/ StartBriefs \/ StartRecaps \/ FinishLetters
           \/ RecordRecap \/ RecordBrief \/ NotTaken \/ RecordConflicts \/ HandlerFails \/ WorkerDies
  BY <1>2 DEF TickSchedules, TickFails, Drain, Sleep, Restart, Tick, vars,
       StartIngest, FinishIngest, StartBriefs, StartRecaps, FinishLetters, RecordRecap, RecordBrief, NotTaken,
       RecordConflicts, HandlerFails, HandlerRaises, WorkerDies
<1>3. ASSUME NEW u \in Users, \/ PassOver(u) \/ TakeUp(u) \/ SkipBrief(u)
                              \/ ViewBrief(u) \/ RewriteBrief(u) \/ TrackAgain(u)
      PROVE  sent'[l] > 0
  BY <1>3 DEF PassOver, TakeUp, SkipBrief, ViewBrief, RewriteBrief, TrackAgain
<1> QED
  BY <1>1, <1>2, <1>3 DEF Next

(* Between two deadlines the flags stay of the second once they are. *)
LEMMA FlagsStay ==
  ASSUME TypeOK, NEW g \in Gameweeks, DeadlineOf(g) - Week <= now, now < DeadlineOf(g),
         next = g, [Next]_vars
  PROVE  next' = g
<1> USE DEF tables, bounds, history
<1>1. CASE FinishIngest
  BY <1>1, UpcomingIs DEF FinishIngest
<1>2. CASE \/ TickSchedules \/ TickFails \/ Drain \/ Sleep \/ Restart \/ Tick \/ UNCHANGED vars
           \/ StartIngest \/ StartBriefs \/ StartRecaps \/ FinishLetters \/ Deliver \/ AnswerLost
           \/ RecordRecap \/ RecordBrief \/ NotTaken \/ RecordConflicts \/ HandlerFails \/ WorkerDies
  BY <1>2 DEF TickSchedules, TickFails, Drain, Sleep, Restart, Tick, vars, Deliver, AnswerLost,
       StartIngest, StartBriefs, StartRecaps, FinishLetters, RecordRecap, RecordBrief, NotTaken,
       RecordConflicts, HandlerFails, HandlerRaises, WorkerDies
<1>3. ASSUME NEW u \in Users, \/ PassOver(u) \/ TakeUp(u) \/ SkipBrief(u)
                              \/ ViewBrief(u) \/ RewriteBrief(u) \/ TrackAgain(u)
      PROVE  next' = g
  BY <1>3 DEF PassOver, TakeUp, SkipBrief, ViewBrief, RewriteBrief, TrackAgain
<1> QED
  BY <1>1, <1>2, <1>3 DEF Next

(* An errand that is open and done stays done. *)
LEMMA MetStays ==
  ASSUME TypeOK, TypeOK', [Next]_vars, NEW e \in Errands, IsOpen(e), Met(e)
  PROVE  Met(e)'
<1>1. e[2] \in Users /\ e[3] \in Gameweeks
  BY ErrandIs
<1>2. CASE e[1] = "ingest_core"
  <2>1. next = e[3] /\ DeadlineOf(e[3]) - Week <= now /\ now < DeadlineOf(e[3])
    BY <1>2 DEF Met, IsOpen, Opens
  <2>2. next' = e[3]
    BY <1>1, <2>1, FlagsStay
  <2> QED
    BY <1>2, <2>2 DEF Met
<1>3. CASE e[1] # "ingest_core"
  <2>1. <<"brief", e[2], e[3]>> \in Letters
    BY <1>1 DEF Letters
  <2>2. sent["brief", e[2], e[3]] > 0
    BY <1>3 DEF Met
  <2>3. sent'["brief", e[2], e[3]] > 0
    BY <2>1, <2>2, SentGrows
  <2> QED
    BY <1>3, <2>3 DEF Met
<1> QED
  BY <1>2, <1>3

(* Until time passes, what is still to do was to do before. *)
LEMMA WasOpen ==
  ASSUME TypeOK, TypeOK', [Next]_vars, ErrandsOnSchedule, mishaps < RunsInWindow, now' = now,
         NEW e \in Errands, IsOpen(e)', ~Met(e)'
  PROVE  IsOpen(e) /\ ~Met(e) /\ OnSchedule(e)
<1>1. IsOpen(e)
  BY DEF IsOpen, Opens, DeadlineOf
<1>2. ~Met(e)
  BY <1>1, MetStays
<1> QED
  BY <1>1, <1>2 DEF ErrandsOnSchedule
(* A worker that is not at work has nothing on the way but what it is to     *)
(* drain. *)
LEMMA NotAtWork ==
  ASSUME TypeOK, IdleUnlessResting, NEW e \in Errands, worker.at # "rest" \/ (batch = {} /\ current = Idle)
  PROVE  OnTheWay(e) => worker.at = "drain" /\ job[e[1]] = "ready"
<1>1. current = Idle
  BY DEF IdleUnlessResting
<1>2. ~InHand(e)
  BY <1>1, DispatchAssumption DEF InHand, Idle
<1> QED
  BY <1>2 DEF OnTheWay

(* The worker's loop keeps every errand on schedule: what is due is queued, *)
(* or was held back by a mishap, and it does not sleep past a run. *)
LEMMA LoopOnSchedule ==
  ASSUME TypeOK, TypeOK', ClockInv, ClaimedAtWork, PastIsPast', NEW e \in Errands, OnSchedule(e),
         TickSchedules \/ TickFails \/ Drain \/ Sleep \/ Restart
  PROVE  OnSchedule(e)'
<1> USE DEF tables, bounds, history, ClockInv
<1> DEFINE s == e[1]
<1>0. s \in Schedules /\ now \in Nat /\ now <= Reached /\ Reached \in Nat /\ worker \in Memory
      /\ NextLook(s, Opens(e))
  BY ErrandIs, TimesAre DEF OnSchedule
<1>1. CASE TickSchedules
  <2>1. worker.at = "asleep" /\ UNCHANGED <<now, mishaps, batch, current>>
        /\ worker' = [Noted EXCEPT !.at = "drain", !.worked = \E t \in Due : job[t] = "none"]
        /\ job' = [t \in Schedules |-> IF t \in Due /\ job[t] = "none" THEN "ready" ELSE job[t]]
    BY <1>1 DEF TickSchedules, Looks
  <2>2. /\ worker'.at = "drain" /\ worker'.slow = worker.slow
        /\ worker'.lastRun[s] = IF s \in Due THEN now ELSE worker.lastRun[s]
    BY <1>0, <2>1, NotedIs, RememberedIs DEF Noted, Memory
  <2>3. Reached' <= Reached
    BY <1>0, <2>1, <2>2 DEF Reached
  <2>4. job[s] \in {"none", "ready", "held"}
    BY <1>0, <2>1 DEF ClaimedAtWork, TypeOK
  <2>5. job'[s] = IF s \in Due /\ job[s] = "none" THEN "ready" ELSE job[s]
    BY <1>0, <2>1
  <2>6. ~OnTheWay(e)
    BY <2>1, NotAtWork
  <2>7. CASE s \notin Due \/ job[s] = "held"
    BY <2>1, <2>2, <2>3, <2>4, <2>5, <2>6, <2>7, StaysOnSchedule
  <2>8. CASE s \in Due /\ job[s] # "held"
    <3>1. job'[s] = "ready"
      BY <2>4, <2>5, <2>8
    <3>2. OnTheWay(e)'
      BY <2>2, <3>1 DEF OnTheWay
    <3> QED
      BY <2>1, <2>2, <2>3, <3>1, <3>2, StaysOnSchedule
  <2> QED
    BY <2>7, <2>8
<1>2. CASE TickFails
  <2>1. worker' = Noted /\ now' = now /\ mishaps' = mishaps + 1 /\ worker.at = "asleep" /\ now >= worker.wake
    BY <1>2 DEF TickFails, Mishap, Looks
  <2>2. worker'.slow = worker.slow /\ worker'.wake = worker.wake
    BY <2>1, RememberedIs DEF Noted, Memory
  <2>3. Reached' <= Reached
    BY <1>0, <2>1, <2>2 DEF Reached, Memory
  <2> QED
    BY <1>0, <2>1, <2>2, <2>3, MishapCostsARun
<1>3. CASE Drain
  <2>1. worker.at = "drain" /\ UNCHANGED <<now, mishaps, current>>
        /\ worker' = [worker EXCEPT !.at = "rest", !.worked = @ \/ batch' # {}]
        /\ batch' = {t \in Schedules : job[t] = "ready"}
        /\ job' = [t \in Schedules |-> IF job[t] = "ready" THEN "claimed" ELSE job[t]]
    BY <1>3 DEF Drain
  <2>2. worker'.at = "rest" /\ worker'.slow = worker.slow /\ worker'.lastRun = worker.lastRun
    BY <1>0, <2>1 DEF Memory
  <2>3. Reached' <= Reached
    BY <1>0, <2>1, <2>2 DEF Reached
  <2>4. job'[s] = "held" => job[s] = "held"
    BY <1>0, <2>1
  <2>5. CASE job[s] = "ready"
    <3>1. OnTheWay(e)'
      BY <1>0, <2>1, <2>2, <2>5 DEF OnTheWay
    <3> QED
      BY <2>1, <2>2, <2>3, <2>4, <3>1, StaysOnSchedule
  <2>6. CASE job[s] # "ready"
    <3>1. ~OnTheWay(e)
      BY <2>1, <2>6, NotAtWork
    <3> QED
      BY <2>1, <2>2, <2>3, <2>4, <3>1, StaysOnSchedule
  <2> QED
    BY <2>5, <2>6
<1>4. CASE Sleep
  <2> DEFINE nap == IF worker.worked THEN 0 ELSE Min({IdleMax, UntilDue(Remembered)})
             lost == IF worker.worked THEN worker.slow ELSE 0
  <2>1. worker.at = "rest" /\ batch = {} /\ current = Idle /\ UNCHANGED <<now, mishaps, job>>
    BY <1>4 DEF Sleep
  <2>2. worker' = [Remembered EXCEPT !.at = "asleep", !.wake = now + nap, !.slow = lost]
    BY <1>4, RememberedIs DEF Sleep, Memory
  <2>3. /\ worker'.at = "asleep" /\ worker'.wake = now + nap /\ worker'.slow = lost
        /\ worker'.lastRun = worker.lastRun
    <3> HIDE DEF nap, lost
    <3> QED
      BY <2>2, RememberedIs DEF Memory
  <2>4. ~OnTheWay(e)
    BY <2>1, NotAtWork
  <2>5. CASE worker.worked
    <3>1. worker'.wake = now /\ worker'.slow = worker.slow
      BY <1>0, <2>3, <2>5
    <3>2. Reached' <= Reached
      BY <1>0, <2>1, <3>1 DEF Reached
    <3> QED
      BY <2>1, <2>3, <2>4, <3>1, <3>2, StaysOnSchedule
  <2>6. CASE ~worker.worked
    <3>1. worker'.wake = now + Min({IdleMax, UntilDue(Remembered)}) /\ worker'.slow = 0
      BY <2>3, <2>6
    <3>2. \A t \in Schedules : worker.lastRun[t] # None /\ now - worker.lastRun[t] <= Every[t]
      BY <2>1, <2>6 DEF LooksFirst
    <3>3. worker'.wake <= worker.lastRun[s] + Every[s]
      BY <1>0, <3>1, <3>2, WakesInTime
    <3>4. Reached' = worker'.wake \/ Reached' = now
      BY <2>1 DEF Reached
    <3>5. worker.lastRun[s] \in Nat /\ worker'.wake \in Nat /\ now - worker.lastRun[s] <= Every[s]
      BY <1>0, <3>2, TimesAre DEF TypeOK, Memory
    <3>6. Missed(s, Opens(e))
      BY <2>4 DEF OnSchedule
    <3>7. PICK o \in Int : o = Opens(e) /\ o = Opens(e)'
      BY ErrandIs DEF Opens, DeadlineOf
    <3>8. worker.lastRun[s] - o < Lost(s)
      BY <1>0, <3>2, <3>6, <3>7 DEF Missed
    <3>9. Lost(s)' = Lost(s) /\ Lost(s) \in Nat /\ Every[s] \in Nat
      BY <1>0, <2>1, LostIs
    <3>10. Reached' - o < Lost(s)' + Every[s] + worker'.slow
      BY <1>0, <3>1, <3>3, <3>4, <3>5, <3>8, <3>9
    <3>11. worker'.lastRun[s] - o < Lost(s)'
      BY <2>3, <3>8, <3>9
    <3>12. job'[s] = "held" => now' - o < Lost(s)'
      BY <2>1, <3>7, <3>9 DEF OnSchedule, HeldBack
    <3> QED
      BY <3>7, <3>10, <3>11, <3>12, ScheduledAfter DEF NextLook, HeldBack, Missed
  <2> QED
    BY <2>5, <2>6
<1>5. CASE Restart
  <2>1. worker' = [Fresh EXCEPT !.wake = now, !.slow = worker.slow] /\ worker.at = "down"
        /\ UNCHANGED <<now, mishaps, job>>
    BY <1>5 DEF Restart
  <2>2. /\ worker'.at = "asleep" /\ worker'.wake = now /\ worker'.slow = worker.slow
        /\ worker'.lastRun[s] = None
    BY <1>0, <2>1 DEF Fresh
  <2>3. Reached' <= Reached
    BY <1>0, <2>1, <2>2 DEF Reached
  <2>4. ~OnTheWay(e)
    BY <2>1, NotAtWork
  <2> QED
    BY <2>1, <2>2, <2>3, <2>4, StaysOnSchedule
<1> QED
  BY <1>1, <1>2, <1>3, <1>4, <1>5
(* A step of a handler that leaves the worker and the time alone. *)
LEMMA HandlerStays ==
  ASSUME TypeOK, TypeOK', NEW e \in Errands, OnSchedule(e), UNCHANGED <<worker, now, mishaps>>,
         job'[e[1]] = "held" => job[e[1]] = "held", OnTheWay(e) => OnTheWay(e)'
  PROVE  OnSchedule(e)'
<1>1. Reached' = Reached /\ Reached \in Nat
  BY ErrandIs, TimesAre DEF Reached
<1>2. Reached' <= Reached
  BY <1>1
<1> QED
  BY <1>2, StaysOnSchedule

(* ... and one that is a mishap. *)
LEMMA HandlerSlips ==
  ASSUME TypeOK, TypeOK', PastIsPast', NEW e \in Errands, OnSchedule(e),
         UNCHANGED <<worker, now>>, mishaps' = mishaps + 1
  PROVE  OnSchedule(e)'
<1>1. Reached' = Reached /\ Reached \in Nat
  BY ErrandIs, TimesAre DEF Reached
<1>2. Reached' <= Reached
  BY <1>1
<1> QED
  BY <1>2, MishapCostsARun DEF OnSchedule

(* A handler that starts has the errands of its schedule in hand: the flags *)
(* are of the gameweek whose window is open. *)
LEMMA StartsOnSchedule ==
  ASSUME TypeOK, TypeOK', FlagsSettle, ErrandsOnSchedule, mishaps < RunsInWindow,
         NEW e \in Errands, IsOpen(e), OnSchedule(e),
         StartIngest \/ StartBriefs \/ StartRecaps
  PROVE  OnSchedule(e)'
<1> USE DEF tables, bounds, history
<1> DEFINE s == e[1]
<1>1. UNCHANGED <<worker, now, mishaps>> /\ current = Idle /\ worker.at = "rest"
  BY DEF StartIngest, StartBriefs, StartRecaps, Begins
<1>2. s \in Schedules /\ job \in [Schedules -> {"none", "ready", "claimed", "held"}]
  BY ErrandIs DEF TypeOK
<1>3. job'[s] = "held" => job[s] = "held"
  BY <1>2 DEF StartIngest, StartBriefs, StartRecaps, Ends
<1>4. ~InHand(e)
  BY <1>1, DispatchAssumption DEF InHand, Idle
<1>5. OnTheWay(e) => s \in batch
  BY <1>1, <1>4 DEF OnTheWay
<1>6. ASSUME s \in batch'  PROVE OnTheWay(e)'
  BY <1>1, <1>6 DEF OnTheWay
<1>7. CASE StartIngest
  <2>1. batch' = batch \ {"ingest_core"} /\ current' = [kind |-> "ingest_core"]
    BY <1>7 DEF StartIngest, Begins
  <2>2. s = "ingest_core" => OnTheWay(e)'
    BY <2>1 DEF OnTheWay, InHand
  <2> QED
    BY <1>1, <1>3, <1>5, <1>6, <2>1, <2>2, HandlerStays
<1>8. CASE StartBriefs
  <2>1. batch' = batch \ {"dispatch_deadline_briefs"}
        /\ (InWindow => current' = Writing("brief", NextGameweek, Users))
    BY <1>8 DEF StartBriefs, Begins
  <2>2. ASSUME s = "dispatch_deadline_briefs"  PROVE OnTheWay(e)'
    <3>1. NextGameweek = e[3] /\ InWindow
      BY <2>2, FlagsInTime
    <3>2. current' = Writing("brief", e[3], Users)
      BY <2>1, <3>1
    <3>3. e[2] \in Users
      BY ErrandIs
    <3> QED
      BY <2>2, <3>2, <3>3 DEF OnTheWay, InHand, Writing
  <2> QED
    BY <1>1, <1>3, <1>5, <1>6, <2>1, <2>2, HandlerStays
<1>9. CASE StartRecaps
  <2>1. batch' = batch \ {"dispatch_recaps"}
    BY <1>9 DEF StartRecaps, Begins
  <2>2. s # "dispatch_recaps"
    BY ErrandIs
  <2> QED
    BY <1>1, <1>3, <1>5, <1>6, <2>1, <2>2, HandlerStays
<1> QED
  BY <1>7, <1>8, <1>9

(* A handler that ends has done the errands it had in hand. *)
LEMMA FinishesOnSchedule ==
  ASSUME TypeOK, TypeOK', IdleUnlessResting, NEW e \in Errands, IsOpen(e), OnSchedule(e), ~Met(e)',
         FinishIngest \/ FinishLetters
  PROVE  OnSchedule(e)'
<1> USE DEF tables, bounds, history
<1> DEFINE s == e[1]
<1>1. UNCHANGED <<worker, now, mishaps, batch>>
  BY DEF FinishIngest, FinishLetters
<1>2. s \in Schedules /\ e[2] \in Users /\ e[3] \in Gameweeks
      /\ job \in [Schedules -> {"none", "ready", "claimed", "held"}]
  BY ErrandIs DEF TypeOK
<1>3. job'[s] = "held" => job[s] = "held"
  BY <1>2 DEF FinishIngest, FinishLetters, Ends
<1>4. worker.at # "drain"
  BY HandlerIs, DispatchAssumption DEF FinishIngest, FinishLetters, Between, IdleUnlessResting, Idle
<1>5. ~InHand(e)
  <2>1. CASE FinishIngest
    <3>1. ASSUME s = "ingest_core"  PROVE FALSE
      <4>1. DeadlineOf(e[3]) - Week <= now /\ now < DeadlineOf(e[3])
        BY <3>1 DEF IsOpen, Opens
      <4>2. next' = e[3]
        BY <1>2, <2>1, <4>1, UpcomingIs DEF FinishIngest
      <4> QED
        BY <3>1, <4>2 DEF Met
    <3> QED
      BY <2>1, <3>1 DEF FinishIngest, InHand
  <2>2. CASE FinishLetters
    BY <1>2, <2>2, DispatchAssumption DEF FinishLetters, Between, Writes, InHand
  <2> QED
    BY <2>1, <2>2
<1> QED
  BY <1>1, <1>3, <1>4, <1>5, HandlerStays DEF OnTheWay
(* A dispatcher keeps who is still before it: whom it passes over has had    *)
(* the brief, whom it takes up is sent one, or there is a mishap. *)
LEMMA LettersOnSchedule ==
  ASSUME TypeOK, TypeOK', HandlerKnows, FiledIsSent, PastIsPast', NEW e \in Errands,
         ~Met(e), ~Met(e)', OnSchedule(e),
         \/ \E u \in Users : PassOver(u) \/ TakeUp(u) \/ SkipBrief(u)
         \/ Deliver \/ AnswerLost \/ NotTaken \/ RecordBrief \/ RecordRecap
  PROVE  OnSchedule(e)'
<1> USE DEF tables, bounds, history
<1> DEFINE s == e[1]
<1>0. e[2] \in Users /\ e[3] \in Gameweeks /\ (s # "ingest_core" => e[2] \in Pro)
  BY ErrandIs
<1>1. CASE AnswerLost \/ NotTaken \/ \E u \in Users : SkipBrief(u)
  BY <1>1, HandlerSlips DEF AnswerLost, NotTaken, SkipBrief, Mishap
<1>2. ASSUME UNCHANGED <<worker, job, batch, now, mishaps>>, InHand(e) => InHand(e)'
      PROVE  OnSchedule(e)'
  BY <1>2, HandlerStays DEF OnTheWay
<1>3. ASSUME Writes, s = "ingest_core"  PROVE ~InHand(e)
  BY <1>3, HandlerIs DEF InHand
<1>4. ASSUME NEW u \in Users, PassOver(u)  PROVE OnSchedule(e)'
  <2>1. UNCHANGED <<worker, job, batch, now, mishaps>> /\ Writes /\ current.user = None
        /\ current' = [current EXCEPT !.todo = @ \ {u}] /\ ~Wanted(u)
    BY <1>4 DEF PassOver, Between
  <2>2. current'.kind = current.kind /\ current'.gw = current.gw /\ current'.todo = current.todo \ {u}
    BY <2>1, HandlerIs
  <2>3. ASSUME s # "ingest_core", InHand(e)  PROVE InHand(e)'
    <3>1. current.kind = "brief" /\ current.gw = e[3] /\ e[2] \in current.todo
      BY <1>0, <2>1, <2>3, DispatchAssumption DEF InHand
    <3>2. u # e[2]
      <4>1. ASSUME u = e[2]  PROVE FALSE
        <5>1. brief[e[2], e[3]] = TRUE
          BY <1>0, <2>1, <2>3, <3>1, <4>1, Zenon DEF Wanted, OnRecord
        <5>2. sent["brief", e[2], e[3]] > 0
          BY <1>0, <5>1 DEF FiledIsSent
        <5> QED
          BY <2>3, <5>2 DEF Met
      <4> QED
        BY <4>1
    <3> QED
      BY <2>2, <2>3, <3>1, <3>2 DEF InHand
  <2> QED
    BY <1>2, <1>3, <2>1, <2>3
<1>5. ASSUME NEW u \in Users, TakeUp(u)  PROVE OnSchedule(e)'
  <2>1. UNCHANGED <<worker, job, batch, now, mishaps>> /\ Writes /\ current.user = None
        /\ current' = [current EXCEPT !.todo = @ \ {u}, !.user = u]
    BY <1>5 DEF TakeUp, Between
  <2>2. /\ current'.kind = current.kind /\ current'.gw = current.gw /\ current'.todo = current.todo \ {u}
        /\ current'.user = u /\ current'.answer = current.answer
    BY <2>1, HandlerIs
  <2>3. current.answer = None
    BY <2>1 DEF HandlerKnows
  <2>4. ASSUME s # "ingest_core", InHand(e)  PROVE InHand(e)'
    <3>1. current.kind = "brief" /\ current.gw = e[3] /\ e[2] \in current.todo
      BY <1>0, <2>1, <2>4, DispatchAssumption DEF InHand
    <3> QED
      BY <2>2, <2>3, <2>4, <3>1 DEF InHand
  <2> QED
    BY <1>2, <1>3, <2>1, <2>4
<1>6. CASE Deliver
  <2>1. UNCHANGED <<worker, job, batch, now, mishaps>> /\ Writes /\ current.user # None
        /\ sent' = [sent EXCEPT ![Letter] = @ + 1]
        /\ current' = [current EXCEPT !.answer = "delivered", !.sent = TRUE]
    BY <1>6 DEF Deliver, Sending
  <2>2. current'.kind = current.kind /\ current'.gw = current.gw /\ current'.todo = current.todo
    BY <2>1, HandlerIs
  <2>3. ASSUME s # "ingest_core", InHand(e)  PROVE InHand(e)'
    <3>1. current.kind = "brief" /\ current.gw = e[3]
      BY <2>3 DEF InHand
    <3>2. current.user # e[2]
      <4>1. ASSUME current.user = e[2]  PROVE FALSE
        <5>1. Letter = <<"brief", e[2], e[3]>> /\ Letter \in Letters
          BY <2>1, <3>1, <4>1, LetterIs DEF Letter
        <5>2. sent[Letter] \in Nat /\ sent'[Letter] = sent[Letter] + 1
          BY <2>1, <5>1 DEF TypeOK
        <5>3. sent'[Letter] > 0
          BY <5>2
        <5>4. sent'["brief", e[2], e[3]] > 0
          BY <5>1, <5>3
        <5> QED
          BY <2>3, <5>4 DEF Met
      <4> QED
        BY <4>1
    <3> QED
      BY <2>2, <2>3, <3>1, <3>2 DEF InHand
  <2> QED
    BY <1>2, <1>3, <2>1, <2>3
<1>7. CASE RecordBrief \/ RecordRecap
  <2>1. UNCHANGED <<worker, job, batch, now, mishaps>> /\ Writes /\ current.answer # None
        /\ current' = NextRecipient
    BY <1>7 DEF RecordBrief, RecordRecap, Handles, Writes
  <2>2. current'.kind = current.kind /\ current'.gw = current.gw /\ current'.todo = current.todo
    BY <2>1, HandlerIs DEF NextRecipient
  <2>3. s # "ingest_core" /\ InHand(e) => InHand(e)'
    BY <2>1, <2>2 DEF InHand
  <2> QED
    BY <1>2, <1>3, <2>1, <2>3
<1> QED
  BY <1>1, <1>4, <1>5, <1>6, <1>7

(* What members do meanwhile changes nothing in it. *)
LEMMA MembersOnSchedule ==
  ASSUME TypeOK, TypeOK', NEW e \in Errands, OnSchedule(e),
         \/ \E u \in Users : ViewBrief(u) \/ RewriteBrief(u) \/ TrackAgain(u)
         \/ UNCHANGED vars
  PROVE  OnSchedule(e)'
<1> USE DEF tables, bounds, history
<1>1. UNCHANGED <<worker, job, batch, now, mishaps>>
  BY DEF ViewBrief, RewriteBrief, TrackAgain, vars
<1>2. current' = current \/ (Writes /\ current' = [current EXCEPT !.gone = TRUE])
  BY DEF ViewBrief, RewriteBrief, TrackAgain, vars, HeldByWorker, Writes
<1>3. /\ InHand(e) => InHand(e)'
  <2>1. CASE current' = current
    BY <2>1 DEF InHand
  <2>2. CASE Writes /\ current' = [current EXCEPT !.gone = TRUE]
    <3>1. /\ current'.kind = current.kind /\ current'.gw = current.gw /\ current'.todo = current.todo
          /\ current'.user = current.user /\ current'.answer = current.answer
      BY <2>2, HandlerIs
    <3> QED
      BY <3>1 DEF InHand
  <2> QED
    BY <1>2, <2>1, <2>2
<1> QED
  BY <1>1, <1>3, HandlerStays DEF OnTheWay

(* Neither a handler that raises nor a death costs more than a run. *)
LEMMA LossesOnSchedule ==
  ASSUME TypeOK, TypeOK', IdleUnlessResting, PastIsPast', NEW e \in Errands, OnSchedule(e),
         RecordConflicts \/ HandlerFails \/ WorkerDies
  PROVE  OnSchedule(e)'
<1>1. worker \in Memory /\ now \in Nat /\ now <= Reached /\ Reached \in Nat
  BY ErrandIs, TimesAre
<1>2. now' = now /\ mishaps' = mishaps + 1
  BY DEF RecordConflicts, HandlerFails, HandlerRaises, WorkerDies, Mishap
<1>3. worker'.slow = worker.slow /\ (worker'.at = "down" \/ worker'.wake = now)
  BY <1>1 DEF RecordConflicts, HandlerFails, HandlerRaises, WorkerDies, Memory
<1>4. Reached' <= Reached
  BY <1>1, <1>2, <1>3 DEF Reached
<1> QED
  BY <1>2, <1>3, <1>4, MishapCostsARun DEF OnSchedule
(* A tick at which an errand opens: whatever its schedule had queued was of *)
(* before, and the next look comes within its interval and what was lost. *)
LEMMA OpensOnSchedule ==
  ASSUME TypeOK, TypeOK', PastIsPast, SleepsInTime', Tick, NEW e \in Errands, Opens(e) > now
  PROVE  OnSchedule(e)'
<1> USE DEF tables, bounds, history
<1> DEFINE s == e[1]
<1>1. PICK o \in Int : o = Opens(e) /\ o = Opens(e)'
  BY ErrandIs DEF Opens, DeadlineOf
<1>2. s \in Schedules /\ worker \in Memory
  BY ErrandIs DEF TypeOK
<1>3. /\ now' = now + 1 /\ mishaps' = mishaps /\ queuedAt' = queuedAt /\ worker'.lastRun = worker.lastRun
      /\ job'[s] # "held"
  BY <1>2 DEF Tick, Memory, TypeOK
<1>4. /\ now \in Nat /\ queuedAt[s] \in Nat /\ queuedAt[s] <= now
      /\ worker.lastRun[s] # None => worker.lastRun[s] \in Nat /\ worker.lastRun[s] <= now
  BY <1>2, TimesAre DEF PastIsPast
<1>5. Lost(s)' = Lost(s) /\ Lost(s) \in Nat /\ Every[s] \in Nat
  BY <1>2, <1>3, LostIs
<1>6. Reached' \in Nat /\ worker'.slow \in Nat
  BY DispatchAssumption DEF TypeOK, Memory, Times, Reached
<1>7. Reached' - queuedAt'[s] <= Lost(s)' + Every[s] + worker'.slow
  BY <1>2 DEF SleepsInTime
<1>8. now < o
  BY <1>1
<1> HIDE DEF s
<1>9. Reached' - o < Lost(s)' + Every[s] + worker'.slow
  BY <1>3, <1>4, <1>5, <1>6, <1>7, <1>8
<1>10. worker'.lastRun[s] # None => worker'.lastRun[s] - o < Lost(s)'
  BY <1>3, <1>4, <1>5, <1>8
<1> QED
  BY <1>1, <1>3, <1>9, <1>10, ScheduledAfter DEF s, NextLook, HeldBack, Missed

(* A tick while an errand is open: a worker that sleeps does not sleep       *)
(* longer for it, one at work or down loses it. *)
LEMMA TickOnSchedule ==
  ASSUME TypeOK, TypeOK', IdleUnlessResting, Tick, NEW e \in Errands, OnSchedule(e)
  PROVE  OnSchedule(e)'
<1> USE DEF tables, bounds, history
<1> DEFINE s == e[1]
<1>1. PICK o \in Int : o = Opens(e) /\ o = Opens(e)'
  BY ErrandIs DEF Opens, DeadlineOf
<1>2. s \in Schedules /\ worker \in Memory /\ job \in [Schedules -> {"none", "ready", "claimed", "held"}]
  BY ErrandIs DEF TypeOK
<1>3. /\ now' = now + 1 /\ UNCHANGED <<mishaps, batch, current>>
      /\ worker'.lastRun = worker.lastRun /\ worker'.at = worker.at /\ worker'.wake = worker.wake
      /\ job'[s] = IF job[s] = "held" THEN "ready" ELSE job[s]
  BY <1>2 DEF Tick, Memory
<1>4. /\ now \in Nat /\ Reached \in Nat /\ worker.slow \in Nat /\ worker.wake \in Nat
  BY <1>2, TimesAre
<1>5. Lost(s)' = Lost(s) /\ Lost(s) \in Nat /\ Every[s] \in Nat
  BY <1>2, <1>3, LostIs
<1>6. Reached - o < Lost(s) + Every[s] + worker.slow
  BY <1>1 DEF OnSchedule, NextLook
<1>7. Reached' - o < Lost(s)' + Every[s] + worker'.slow
  <2>1. CASE worker.at = "asleep" /\ now < worker.wake /\ UNCHANGED worker
    <3>1. Reached' = Reached
      BY <1>3, <1>4, <2>1 DEF Reached
    <3> QED
      BY <1>5, <1>6, <2>1, <3>1
  <2>2. CASE worker' = [worker EXCEPT !.slow = @ + 1]
    <3>1. worker'.slow = worker.slow + 1
      BY <1>2, <2>2 DEF Memory
    <3>2. Reached' \in Nat /\ Reached' <= Reached + 1
      BY <1>3, <1>4 DEF Reached
    <3> QED
      BY <1>4, <1>5, <1>6, <3>1, <3>2
  <2> QED
    BY <2>1, <2>2 DEF Tick
<1>8. OnTheWay(e) => OnTheWay(e)'
  BY <1>3 DEF OnTheWay, InHand
<1>9. OnTheWay(e) \/ Missed(s, o)
  BY <1>1 DEF OnSchedule
<1>10. Missed(s, o) => Missed(s, o)'
  BY <1>3, <1>5 DEF Missed
<1>11. NextLook(s, o)' /\ HeldBack(s, o)'
  BY <1>3, <1>7 DEF NextLook, HeldBack
<1> QED
  BY <1>1, <1>8, <1>9, <1>10, <1>11, ScheduledAfter DEF NextLook, HeldBack, Missed

(* Mishaps are not taken back. *)
LEMMA FewerMishaps ==
  ASSUME TypeOK, TypeOK', [Next]_vars
  PROVE  mishaps' \in {mishaps, mishaps + 1}
<1> USE DEF tables, bounds, history
<1>1. CASE \/ TickFails \/ AnswerLost \/ NotTaken \/ RecordConflicts \/ HandlerFails \/ WorkerDies
           \/ \E u \in Users : SkipBrief(u)
  BY <1>1 DEF TickFails, AnswerLost, NotTaken, RecordConflicts, HandlerFails, WorkerDies, SkipBrief, Mishap
<1>2. CASE \/ TickSchedules \/ Drain \/ Sleep \/ Restart \/ Tick \/ UNCHANGED vars
           \/ StartIngest \/ FinishIngest \/ StartBriefs \/ StartRecaps \/ FinishLetters
           \/ Deliver \/ RecordRecap \/ RecordBrief
  BY <1>2 DEF TickSchedules, Drain, Sleep, Restart, Tick, vars, Deliver,
       StartIngest, FinishIngest, StartBriefs, StartRecaps, FinishLetters, RecordRecap, RecordBrief
<1>3. ASSUME NEW u \in Users, PassOver(u) \/ TakeUp(u) \/ ViewBrief(u) \/ RewriteBrief(u) \/ TrackAgain(u)
      PROVE  UNCHANGED mishaps
  BY <1>3 DEF PassOver, TakeUp, ViewBrief, RewriteBrief, TrackAgain
<1> QED
  BY <1>1, <1>2, <1>3 DEF Next

(* Every step keeps every errand on schedule. *)
LEMMA NextErrands ==
  ASSUME TypeOK, TypeOK', HandlerKnows, ClockInv, ClockInv', WorkInv, WorkInv', FlagsSettle,
         ErrandsOnSchedule, [Next]_vars
  PROVE  ErrandsOnSchedule'
<1> SUFFICES ASSUME mishaps' < RunsInWindow, NEW e \in Errands, IsOpen(e)', ~Met(e)'
             PROVE  OnSchedule(e)'
  BY DEF ErrandsOnSchedule, RunsInWindow
<1> USE DEF WorkInv
<1>1. mishaps < RunsInWindow
  <2>1. mishaps \in Nat /\ RunsInWindow \in Int /\ mishaps' \in {mishaps, mishaps + 1}
    BY FewerMishaps, RunsAre DEF TypeOK
  <2> QED
    BY <2>1
<1>2. CASE Tick
  <2>1. CASE IsOpen(e)
    <3>1. ~Met(e)
      BY <2>1, MetStays
    <3>2. OnSchedule(e)
      BY <1>1, <2>1, <3>1 DEF ErrandsOnSchedule
    <3> QED
      BY <1>2, <3>2, TickOnSchedule DEF ClockInv
  <2>2. CASE ~IsOpen(e)
    <3>1. now' = now + 1 /\ now \in Nat
      BY <1>2 DEF Tick, TypeOK, Times
    <3>2. Opens(e) \in Int /\ DeadlineOf(e[3]) \in Nat
      BY ErrandIs, DeadlinesApart
    <3>3. Opens(e) <= now' /\ now' < DeadlineOf(e[3])
      BY DEF IsOpen, Opens, DeadlineOf
    <3>4. Opens(e) > now
      BY <2>2, <3>1, <3>2, <3>3 DEF IsOpen
    <3> QED
      BY <1>2, <3>4, OpensOnSchedule DEF ClockInv
  <2> QED
    BY <2>1, <2>2
<1>3. ASSUME now' = now  PROVE IsOpen(e) /\ ~Met(e) /\ OnSchedule(e)
  BY <1>1, <1>3, WasOpen
<1>4. CASE TickSchedules \/ TickFails \/ Drain \/ Sleep \/ Restart
  <2>1. now' = now
    BY <1>4 DEF TickSchedules, TickFails, Drain, Sleep, Restart
  <2> QED
    BY <1>3, <1>4, <2>1, LoopOnSchedule
<1>5. CASE StartIngest \/ StartBriefs \/ StartRecaps
  <2>1. now' = now
    BY <1>5 DEF StartIngest, StartBriefs, StartRecaps
  <2> QED
    BY <1>1, <1>3, <1>5, <2>1, StartsOnSchedule
<1>6. CASE FinishIngest \/ FinishLetters
  <2>1. now' = now
    BY <1>6 DEF FinishIngest, FinishLetters
  <2> QED
    BY <1>3, <1>6, <2>1, FinishesOnSchedule DEF ClockInv
<1>7. CASE \/ \E u \in Users : PassOver(u) \/ TakeUp(u) \/ SkipBrief(u)
           \/ Deliver \/ AnswerLost \/ NotTaken \/ RecordBrief \/ RecordRecap
  <2>1. now' = now
    BY <1>7 DEF PassOver, TakeUp, SkipBrief, Deliver, AnswerLost, NotTaken, RecordBrief, RecordRecap
  <2> QED
    BY <1>3, <1>7, <2>1, LettersOnSchedule
<1>8. CASE \/ \E u \in Users : ViewBrief(u) \/ RewriteBrief(u) \/ TrackAgain(u)
           \/ UNCHANGED vars
  <2>1. now' = now
    BY <1>8 DEF ViewBrief, RewriteBrief, TrackAgain, vars
  <2> QED
    BY <1>3, <1>8, <2>1, MembersOnSchedule
<1>9. CASE RecordConflicts \/ HandlerFails \/ WorkerDies
  <2>1. now' = now
    BY <1>9 DEF RecordConflicts, HandlerFails, HandlerRaises, WorkerDies
  <2> QED
    BY <1>3, <1>9, <2>1, LossesOnSchedule DEF ClockInv
<1> QED
  BY <1>2, <1>4, <1>5, <1>6, <1>7, <1>8, <1>9 DEF Next
(* Time passes with a tick only. *)
LEMMA OnlyTicks ==
  ASSUME [Next]_vars, ~Tick
  PROVE  now' = now
<1>1. CASE \/ TickSchedules \/ TickFails \/ Drain \/ Sleep \/ Restart \/ UNCHANGED vars
           \/ StartIngest \/ FinishIngest \/ StartBriefs \/ StartRecaps \/ FinishLetters
  BY <1>1 DEF TickSchedules, TickFails, Drain, Sleep, Restart, vars,
       StartIngest, FinishIngest, StartBriefs, StartRecaps, FinishLetters
<1>2. CASE \/ Deliver \/ AnswerLost \/ NotTaken \/ RecordRecap \/ RecordBrief
           \/ RecordConflicts \/ HandlerFails \/ WorkerDies
  BY <1>2 DEF Deliver, AnswerLost, NotTaken, RecordRecap, RecordBrief,
       RecordConflicts, HandlerFails, HandlerRaises, WorkerDies
<1>3. ASSUME NEW u \in Users, \/ PassOver(u) \/ TakeUp(u) \/ SkipBrief(u)
                              \/ ViewBrief(u) \/ RewriteBrief(u) \/ TrackAgain(u)
      PROVE  now' = now
  BY <1>3 DEF PassOver, TakeUp, SkipBrief, ViewBrief, RewriteBrief, TrackAgain
<1> QED
  BY <1>1, <1>2, <1>3 DEF Next

(* At the start only the first gameweek's flags are due, and they are there. *)
LEMMA InitErrands == FlagsSettle /\ Init => WorkInv /\ ErrandsOnSchedule /\ BriefedInTime
<1> SUFFICES ASSUME FlagsSettle, Init  PROVE WorkInv /\ ErrandsOnSchedule /\ BriefedInTime
  OBVIOUS
<1>1. TypeOK /\ now = 0 /\ next = 1 /\ mishaps = 0
  BY InitInv DEF IInv, Init
<1>2. WorkInv
  <2>1. PastIsPast /\ ClaimedAtWork
    BY DEF Init, Fresh, PastIsPast, ClaimedAtWork
  <2>2. \A u \in Users, g \in Gameweeks : brief[u, g] # TRUE
    BY DispatchAssumption DEF Init
  <2> QED
    BY <2>1, <2>2 DEF WorkInv, FiledIsSent
<1>3. ErrandsOnSchedule
  <2> SUFFICES ASSUME mishaps < RunsInWindow, NEW e \in Errands, IsOpen(e), ~Met(e)  PROVE FALSE
    BY DEF ErrandsOnSchedule
  <2> DEFINE g == e[3]
  <2>1. g \in Gameweeks /\ 1 \in Gameweeks /\ g >= 1
    BY ErrandIs, DispatchAssumption DEF Gameweeks
  <2>2. /\ DeadlineOf(g) \in Nat /\ DeadlineOf(g) >= Week /\ Week \in Nat /\ Week > 0 /\ Lead \in Nat
        /\ DeadlineOf(1) >= Week /\ DeadlineOf(1) \in Nat
    BY <2>1, DeadlinesApart
  <2>3. CASE e[1] = "ingest_core"
    <3>1. DeadlineOf(g) - Week <= 0
      BY <1>1, <2>3 DEF IsOpen, Opens
    <3>2. DeadlineOf(1) > DeadlineOf(g) - Week
      BY <2>2, <3>1
    <3>3. g <= 1
      BY <2>1, <3>2, DeadlinesApart
    <3>4. g = 1
      BY <2>1, <3>3 DEF Gameweeks
    <3> QED
      BY <1>1, <2>3, <3>4 DEF Met
  <2>4. CASE e[1] # "ingest_core"
    <3> DEFINE s == "ingest_core"
    <3>1. s \in Schedules
      BY DEF Schedules
    <3>2. /\ Lost(s) + Every[s] + MaxSlow <= RunsInWindow * (Every[s] + MaxSlow)
          /\ RunsInWindow * (Every[s] + MaxSlow) <= Week - Lead
          /\ RunsInWindow * (Every[s] + MaxSlow) \in Int
      BY <1>1, <3>1, RunLeft, RunsAre, DispatchAssumption DEF FlagsSettle
    <3>3. Lost(s) \in Nat /\ Every[s] \in Nat \ {0} /\ MaxSlow \in Nat
      BY <1>1, <3>1, LostIs, DispatchAssumption
    <3>4. DeadlineOf(g) - Lead <= 0
      BY <1>1, <2>4 DEF IsOpen, Opens
    <3> HIDE DEF s
    <3> QED
      BY <2>2, <3>2, <3>3, <3>4
  <2> QED
    BY <2>3, <2>4
<1>4. BriefedInTime
  <2>1. ASSUME NEW g \in Gameweeks  PROVE ~(now >= DeadlineOf(g))
    BY <1>1, DeadlinesApart
  <2> QED
    BY <2>1 DEF BriefedInTime
<1> QED
  BY <1>2, <1>3, <1>4

(* A brief that is not sent when time ticks has more than that tick left. *)
LEMMA NextBriefed ==
  ASSUME TypeOK, TypeOK', ErrandsOnSchedule, BriefedInTime, [Next]_vars
  PROVE  BriefedInTime'
<1> SUFFICES ASSUME mishaps' < RunsInWindow, NEW g \in Gameweeks, NEW u \in Pro, now' >= DeadlineOf(g)
             PROVE  sent'["brief", u, g] > 0
  BY DEF BriefedInTime, RunsInWindow, DeadlineOf
<1> DEFINE e == <<"dispatch_deadline_briefs", u, g>>
<1>1. /\ e \in Errands /\ e[1] = "dispatch_deadline_briefs" /\ e[2] = u /\ e[3] = g
      /\ <<"brief", u, g>> \in Letters
  BY DispatchAssumption DEF Errands, Letters
<1>2. mishaps \in Nat /\ mishaps < RunsInWindow /\ RunsInWindow > 0
  <2>1. mishaps \in Nat /\ RunsInWindow \in Int /\ mishaps' \in {mishaps, mishaps + 1}
    BY FewerMishaps, RunsAre DEF TypeOK
  <2> QED
    BY <2>1
<1>3. sent["brief", u, g] > 0
  <2>1. CASE now >= DeadlineOf(g)
    BY <1>2, <2>1 DEF BriefedInTime
  <2>2. CASE ~(now >= DeadlineOf(g))
    <3>1. DeadlineOf(g) \in Nat /\ Lead \in Nat /\ Lead > 0 /\ now \in Nat
      BY <1>2, DeadlinesApart, WindowHolds DEF TypeOK, Times
    <3>2. now' = now + 1
      BY <2>2, OnlyTicks DEF Tick
    <3>3. Opens(e) = DeadlineOf(g) - Lead
      BY <1>1 DEF Opens
    <3>4. IsOpen(e)
      BY <1>1, <2>2, <3>1, <3>2, <3>3 DEF IsOpen
    <3>5. ~(now + 1 < DeadlineOf(g))
      BY <3>1, <3>2
    <3>6. ~OnSchedule(e)
      BY <1>1, <1>2, <3>4, <3>5, BriefHasTime
    <3>7. Met(e)
      BY <1>1, <1>2, <3>4, <3>6 DEF ErrandsOnSchedule
    <3> QED
      BY <1>1, <3>7 DEF Met
  <2> QED
    BY <2>1, <2>2
<1> HIDE DEF e
<1> QED
  BY <1>1, <1>3, SentGrows

(* At the deadline every paying member has had the brief, as long as the    *)
(* window has more runs than there are mishaps: deaths, failed commits and  *)
(* handlers, refused mails, rewrites under the dispatcher                   *)
(* (dispatch_deadline_briefs: "we only have to be on time"). *)
THEOREM BriefedInTimeAlways ==
  ASSUME FlagsSettle
  PROVE  Spec => []BriefedInTime
<1> DEFINE BriefInv == WorkInv /\ ErrandsOnSchedule /\ BriefedInTime
<1>1. IInv /\ ClockInv /\ [Next]_vars => ClockInv'
  BY NextInv, NextInTime, NextLooks DEF IInv, ClockInv
<1>2. Init => BriefInv
  BY InitErrands
<1>3. IInv /\ IInv' /\ ClockInv /\ ClockInv' /\ BriefInv /\ [Next]_vars => BriefInv'
  BY NextPast, NextClaimed, NextFiled, NextErrands, NextBriefed DEF IInv, ClockInv, WorkInv
<1>4. BriefInv => BriefedInTime
  OBVIOUS
<1> QED
  BY <1>1, <1>2, <1>3, <1>4, InitInv, NextInv, InitClock, PTL DEF Spec
=============================================================================
