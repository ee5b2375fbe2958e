----------------------------- MODULE LeagueView -----------------------------
(***************************************************************************)
(* One mini-league from its first visit to a board that keeps up with the  *)
(* table: overtake/services/first_view.py, the simulation cache of         *)
(* services/league_service.py, the league routes that read it, and the two *)
(* jobs of workers/tasks.py that feed it.  Requests, the squad reads of    *)
(* several API processes and the worker all write the same rows.           *)
(*                                                                         *)
(* Points are versions of the table.  A run is known by what its input     *)
(* hash tells apart here: the table and the squads it was given.  A run is *)
(* seconds of computing between the reads of its input and its insert.     *)
(***************************************************************************)
EXTENDS Integers, FiniteSets

CONSTANTS
  Members,     \* the managers who are ever in the league
  MembersAt,   \* the members in each version of the table
  Shared,      \* managers whose squads other leagues' reads have stored
  Squadless,   \* managers whose picks FPL answers 404 for
  Visitors,    \* requests served at the same time
  Processes,   \* API processes, each with its own _READING
  MaxTable,    \* bound on the versions of the table
  MaxMishaps,  \* bound on failed fetches, failed jobs and deaths
  None, NoRun

ASSUME LeagueAssumption ==
  /\ MaxTable \in Nat \ {0}
  /\ MembersAt \in [1..MaxTable -> SUBSET Members]
  /\ Shared \subseteq Members \ Squadless
  /\ MaxMishaps \in Nat

VARIABLES
  upstream,    \* FPL: the version of the table now
  table,       \* league_members: the version stored, 0 before the first visit
  known,       \* manager_picks: whose squads are stored
  read,        \* leagues.squads_read_at is set
  stored,      \* simulations: the runs stored
  latest,      \* the one with the newest computed_at
  visit,       \* of each request: where it awaits
  reading,     \* of each process: the members whose squads it is reading
  ingest,      \* the league's open ingest_league job
  recompute,   \* the league's open recompute_league job
  mishaps,
  overlapped   \* history: a first visit stored standings after another had

league == <<table, known, read, overlapped>>
cache  == <<stored, latest>>
jobs   == <<ingest, recompute>>
vars   == <<upstream, league, cache, visit, reading, jobs, mishaps>>

Run == [table : 1..MaxTable, squads : SUBSET Members]

Idle     == [at |-> "idle"]
NoJob    == [at |-> "none"]
Queued   == [at |-> "queued"]
Holding(r)  == [at |-> "running", run |-> r]
Browsing(r) == [at |-> "browsing", run |-> r]
Fetched(t) == [at |-> "fetched", table |-> t]

TypeOK ==
  /\ upstream \in 1..MaxTable
  /\ table \in 0..MaxTable
  /\ known \subseteq Members
  /\ read \in BOOLEAN
  /\ stored \subseteq Run
  /\ latest \in stored \cup {NoRun}
  /\ visit \in [Visitors -> {Idle, [at |-> "board"]}
                              \cup {Holding(r) : r \in Run} \cup {Browsing(r) : r \in Run}
                              \cup {Fetched(t) : t \in 1..MaxTable}]
  /\ reading \in [Processes -> {None} \cup SUBSET Members]
  /\ ingest \in {NoJob, Queued, [at |-> "stored"]} \cup {Fetched(t) : t \in 1..MaxTable}
  /\ recompute \in {NoJob, Queued} \cup {Holding(r) : r \in Run}
  /\ mishaps \in 0..MaxMishaps
  /\ overlapped \in BOOLEAN

Init ==
  /\ upstream = 1
  /\ table = 0
  /\ known = Shared
  /\ read = FALSE
  /\ stored = {} /\ latest = NoRun
  /\ visit = [v \in Visitors |-> Idle]
  /\ reading = [p \in Processes |-> None]
  /\ ingest = NoJob /\ recompute = NoJob
  /\ mishaps = 0
  /\ overlapped = FALSE

-----------------------------------------------------------------------------
(* enqueue with the job's dedupe key: nothing while one is open, running    *)
(* ones included (JobQueue has the queue itself).                           *)
Enqueue(job) == IF job = NoJob THEN Queued ELSE job

(* squads_are_read, and the inference it replaced.                          *)
SquadsAreRead_Inferred == table # 0 /\ known \cap MembersAt[table] # {}
SquadsAreRead == read

(* build_simulation_input: members without a stored squad are left out.     *)
Input == [table |-> table, squads |-> known \cap MembersAt[table]]

(* odds_match_standings: the totals of the run against those of every       *)
(* member.                                                                  *)
OddsMatch(r) == r.table = table /\ r.squads = MembersAt[table]

(* The insert at the end of a run.  computed_at is the time of the insert,  *)
(* so the run that ends last is the newest, whatever it was computed from;  *)
(* the cache key refuses a second row of one input.                         *)
Insert_Uncommitted(r) == latest' = r /\ UNCHANGED stored
Insert(r) == stored' = stored \cup {r} /\ latest' = r

(* A forced run of an input that is stored marks that row current.          *)
MarkCurrent_Unmarked(r) == r \in stored /\ UNCHANGED cache
MarkCurrent(r) == r \in stored /\ latest' = r /\ UNCHANGED stored

(* ingest_manager_picks of each: a stored row stays, FPL has none for some.  *)
Picked(members) == known \cup (members \ Squadless)

Become(v, state) == visit' = [visit EXCEPT ![v] = state]

Mishap == mishaps < MaxMishaps /\ mishaps' = mishaps + 1

-----------------------------------------------------------------------------
(* FPL publishes new points, a member joins or leaves. *)
UpstreamMoves ==
  /\ upstream < MaxTable
  /\ upstream' = upstream + 1
  /\ UNCHANGED <<league, cache, visit, reading, jobs, mishaps>>

(* league_board of a league nobody has visited: read_standings fetches ...  *)
FirstVisit(v) ==
  /\ visit[v] = Idle
  /\ table = 0
  /\ Become(v, Fetched(upstream))
  /\ UNCHANGED <<upstream, league, cache, reading, jobs, mishaps>>

(* ... and commits, whatever another first visit committed meanwhile; the   *)
(* handler then goes on with the board.                                     *)
StoreStandings(v) ==
  /\ visit[v].at = "fetched"
  /\ table' = visit[v].table
  /\ overlapped' = (table # 0)
  /\ Become(v, [at |-> "board"])
  /\ UNCHANGED <<upstream, known, read, cache, reading, jobs, mishaps>>

AtBoard(v) == visit[v].at = "board" \/ (visit[v] = Idle /\ table # 0)

(* The squads are not read: start_squad_read in this process, unless it has *)
(* a read running, and answer 425.                                          *)
BoardWaits(v) ==
  /\ AtBoard(v)
  /\ ~SquadsAreRead
  /\ \E p \in Processes :
       reading' = [reading EXCEPT ![p] = IF @ = None THEN MembersAt[table] ELSE @]
  /\ Become(v, Idle)
  /\ UNCHANGED <<upstream, league, cache, jobs, mishaps>>

(* read_simulation serves the newest run; the board queues a recompute if   *)
(* the odds are not of this table.  _resync_if_stale and REFRESH_AFTER may  *)
(* queue too, by clocks that are left out.                                  *)
BoardServes(v) ==
  /\ AtBoard(v)
  /\ SquadsAreRead
  /\ latest # NoRun
  /\ \/ recompute' = Enqueue(recompute)
     \/ OddsMatch(latest) /\ UNCHANGED recompute
  /\ ingest' \in {ingest, Enqueue(ingest)}
  /\ Become(v, Idle)
  /\ UNCHANGED <<upstream, league, cache, reading, mishaps>>

(* read_simulation with nothing stored: run_and_cache_simulation inline,    *)
(* NotSimulatedYet when there is no squad at all.                           *)
BoardRuns(v) ==
  /\ AtBoard(v)
  /\ SquadsAreRead
  /\ latest = NoRun
  /\ Become(v, IF Input.squads = {} THEN Idle ELSE Holding(Input))
  /\ UNCHANGED <<upstream, league, cache, reading, jobs, mishaps>>

(* The squad page, the dossier, the brief and the simulator read the        *)
(* simulation too, and do not ask whether the squads were read: one of them *)
(* may be the first to need it (my_squad gathers the input on its own) ...  *)
PageRuns(v) ==
  /\ latest = NoRun /\ Input.squads # {}
  /\ Become(v, Browsing(Input))
  /\ UNCHANGED recompute

(* ... or is answered from the newest run.                                  *)
PageServed(v) ==
  /\ latest # NoRun
  /\ recompute' = Enqueue(recompute)
  /\ UNCHANGED visit

OtherPage(v) ==
  /\ visit[v] = Idle
  /\ table # 0
  /\ PageRuns(v) \/ PageServed(v)
  /\ UNCHANGED <<upstream, league, cache, reading, ingest, mishaps>>

(* _captaincy_scenarios, of a manager whose squad is not in the newest run. *)
ForcedPage(v) ==
  /\ visit[v] = Idle
  /\ latest # NoRun
  /\ ~(Input.squads \subseteq latest.squads)
  /\ \/ MarkCurrent(Input) /\ UNCHANGED visit
     \/ Input \notin stored /\ Become(v, Browsing(Input)) /\ UNCHANGED cache
  /\ UNCHANGED <<upstream, league, reading, jobs, mishaps>>

(* The board's run ends: its row is inserted and the board compared with    *)
(* the table it had loaded before the run.                                  *)
FinishBoardRun(v) ==
  /\ visit[v].at = "running"
  /\ visit[v].run \notin stored
  /\ Insert(visit[v].run)
  /\ ingest' \in {ingest, Enqueue(ingest)}
  /\ recompute' \in {recompute, Enqueue(recompute)}
  /\ Become(v, Idle)
  /\ UNCHANGED <<upstream, league, reading, mishaps>>

(* Another page's too, and goes with the rollback when the page then finds  *)
(* that its manager is not in the run.                                      *)
FinishPageRun(v) ==
  /\ visit[v].at = "browsing"
  /\ (visit[v].run \notin stored /\ Insert(visit[v].run)) \/ UNCHANGED cache
  /\ Become(v, Idle)
  /\ UNCHANGED <<upstream, league, reading, jobs, mishaps>>

(* Somebody inserted the same run first: the unique key fails the request.  *)
RunCollides(v) ==
  /\ visit[v].at = "running"
  /\ visit[v].run \in stored
  /\ Become(v, Idle)
  /\ UNCHANGED <<upstream, league, cache, reading, jobs, mishaps>>

(* FPL is down, or the process dies. *)
RequestFails(v) ==
  /\ visit[v] # Idle
  /\ Mishap
  /\ Become(v, Idle)
  /\ UNCHANGED <<upstream, league, cache, reading, jobs>>

-----------------------------------------------------------------------------
(* _read_squads: squads, marker, deletion and job in one transaction.       *)
SquadsStored(p) ==
  /\ reading[p] # None
  /\ known' = Picked(reading[p])
  /\ read' = TRUE
  /\ stored' = {} /\ latest' = NoRun
  /\ ingest' = Enqueue(ingest)
  /\ reading' = [reading EXCEPT ![p] = None]
  /\ UNCHANGED <<upstream, table, overlapped, visit, recompute, mishaps>>

(* Nothing was committed: the next visit starts another. *)
SquadsFail(p) ==
  /\ reading[p] # None
  /\ Mishap
  /\ reading' = [reading EXCEPT ![p] = None]
  /\ UNCHANGED <<upstream, league, cache, visit, jobs>>

-----------------------------------------------------------------------------
(* refresh_tracked_leagues, every hour. *)
RefreshTracked ==
  /\ table # 0
  /\ ingest' = Enqueue(ingest)
  /\ UNCHANGED <<upstream, league, cache, visit, reading, recompute, mishaps>>

(* ingest_league: the standings are fetched, then the members' squads; all  *)
(* is committed at once, and the recompute queued by a second transaction.  *)
FetchLeague ==
  /\ ingest = Queued
  /\ ingest' = Fetched(upstream)
  /\ UNCHANGED <<upstream, league, cache, visit, reading, recompute, mishaps>>

StoreLeague ==
  /\ ingest.at = "fetched"
  /\ table' = ingest.table
  /\ known' = Picked(MembersAt[ingest.table])
  /\ read' = TRUE
  /\ ingest' = [at |-> "stored"]
  /\ UNCHANGED <<upstream, overlapped, cache, visit, reading, recompute, mishaps>>

QueueRecompute ==
  /\ ingest.at = "stored"
  /\ recompute' = Enqueue(recompute)
  /\ ingest' = NoJob
  /\ UNCHANGED <<upstream, league, cache, visit, reading, mishaps>>

(* recompute_league: a forced run. *)
StartRecompute ==
  /\ recompute = Queued
  /\ Input.squads # {}
  /\ \/ MarkCurrent(Input) /\ recompute' = NoJob
     \/ Input \notin stored /\ recompute' = Holding(Input) /\ UNCHANGED cache
  /\ UNCHANGED <<upstream, league, visit, reading, ingest, mishaps>>

(* A request may have inserted the same run first: the unique key fails the *)
(* job, which the queue retries.                                            *)
FinishRecompute ==
  /\ recompute.at = "running"
  /\ \/ recompute.run \notin stored /\ Insert(recompute.run) /\ recompute' = NoJob
     \/ recompute.run \in stored /\ UNCHANGED cache /\ recompute' = Queued
  /\ UNCHANGED <<upstream, league, visit, reading, ingest, mishaps>>

(* No squad at all: NotSimulatedYet, until the queue gives the job up.      *)
GiveUpRecompute ==
  /\ recompute = Queued
  /\ Input.squads = {}
  /\ recompute' = NoJob
  /\ UNCHANGED <<upstream, league, cache, visit, reading, ingest, mishaps>>

(* A handler fails or its worker dies: it is run again, or given up.        *)
JobFails ==
  /\ Mishap
  /\ \/ ingest # NoJob /\ ingest' \in {Queued, NoJob} /\ UNCHANGED recompute
     \/ recompute # NoJob /\ recompute' \in {Queued, NoJob} /\ UNCHANGED ingest
  /\ UNCHANGED <<upstream, league, cache, visit, reading>>

-----------------------------------------------------------------------------
Board(v)  == FirstVisit(v) \/ BoardWaits(v) \/ BoardServes(v) \/ BoardRuns(v)
Answer(v) == StoreStandings(v) \/ FinishBoardRun(v) \/ FinishPageRun(v) \/ RunCollides(v)
Ingest    == FetchLeague \/ StoreLeague \/ QueueRecompute
Recompute == StartRecompute \/ FinishRecompute \/ GiveUpRecompute

Next ==
  \/ UpstreamMoves
  \/ \E v \in Visitors : Board(v) \/ OtherPage(v) \/ ForcedPage(v)
                           \/ Answer(v) \/ RequestFails(v)
  \/ \E p \in Processes : SquadsStored(p) \/ SquadsFail(p)
  \/ RefreshTracked \/ Ingest \/ Recompute \/ JobFails

Spec == Init /\ [][Next]_vars

(* The worker runs its jobs and its schedule, requests and reads end, and   *)
(* somebody looks at the board again (the page refreshes itself).           *)
Fairness ==
  /\ WF_vars(Ingest) /\ WF_vars(Recompute) /\ WF_vars(RefreshTracked)
  /\ WF_vars(\E v \in Visitors : Board(v))
  /\ \A v \in Visitors : WF_vars(Answer(v))
  /\ \A p \in Processes : WF_vars(SquadsStored(p))

FairSpec == Spec /\ Fairness

-----------------------------------------------------------------------------
(* A league counts as read only when the squads of its own members are      *)
(* stored, whoever they share other leagues with, however table, reads and  *)
(* jobs interleave (squads_are_read: "A stored fact, not an inference").    *)
(* Two first visits that overlap may still list a member nobody read.       *)
MarkerIsTrue ==
  SquadsAreRead /\ ~overlapped => MembersAt[table] \ Squadless \subseteq known

(* When FPL stops moving, a board that is looked at comes to show odds of   *)
(* the whole league's newest table, and goes on doing so: no run that ends  *)
(* late, no failed job, no suppressed enqueue leaves it behind.             *)
EventuallyCurrent ==
  <>[](latest = [table |-> upstream, squads |-> MembersAt[upstream] \ Squadless])
=============================================================================
