--------------------------- MODULE LeagueViewProofs ---------------------------
(***************************************************************************)
(* Proofs about LeagueView for any managers, tables, requests, processes   *)
(* and number of failures.                                                 *)
(***************************************************************************)
EXTENDS LeagueView, TLAPS

(* Before the first visit has stored standings nothing else is stored, and  *)
(* nobody is past fetching them.                                            *)
NothingBeforeTheTable ==
  table = 0 =>
    /\ ~read /\ ~overlapped
    /\ latest = NoRun /\ stored = {}
    /\ ingest = NoJob /\ recompute = NoJob
    /\ \A p \in Processes : reading[p] = None
    /\ \A v \in Visitors : visit[v] = Idle \/ visit[v].at = "fetched"

(* Until the squads are read, a read under way is of the members the table  *)
(* lists: only an overlapping first visit changes the table under it.       *)
ReadsAreOfTheTable ==
  ~read /\ ~overlapped =>
    \A p \in Processes : reading[p] # None => reading[p] = MembersAt[table]

IInv == TypeOK /\ NothingBeforeTheTable /\ ReadsAreOfTheTable /\ MarkerIsTrue
-----------------------------------------------------------------------------
(* Where a league is known its input is a run. *)
LEMMA InputIsRun ==
  ASSUME TypeOK, table # 0
  PROVE  Input \in Run /\ MembersAt[table] \subseteq Members
<1>1. table \in 1..MaxTable
  BY LeagueAssumption DEF TypeOK
<1>2. MembersAt[table] \subseteq Members
  BY <1>1, LeagueAssumption
<1> QED
  BY <1>1, <1>2 DEF Input, Run

(* The states of a request and of the jobs are told apart by `at`.          *)
LEMMA StatesDiffer ==
  ASSUME TypeOK
  PROVE  /\ \A v \in Visitors : visit[v].at = "fetched" =>
              visit[v].table \in 1..MaxTable
         /\ \A v \in Visitors : visit[v].at \in {"running", "browsing"} =>
              visit[v].run \in Run
         /\ ingest.at = "fetched" => ingest.table \in 1..MaxTable
         /\ recompute.at = "running" => recompute.run \in Run
  BY DEF TypeOK, Idle, NoJob, Queued, Fetched, Holding, Browsing

(* The unread league of the start satisfies the invariant. *)
LEMMA InitInv == Init => IInv
<1> SUFFICES ASSUME Init  PROVE IInv
  OBVIOUS
<1>1. TypeOK
  <2>1. upstream \in 1..MaxTable /\ table \in 0..MaxTable /\ mishaps \in 0..MaxMishaps
    BY LeagueAssumption DEF Init
  <2>2. known \subseteq Members
    BY LeagueAssumption DEF Init
  <2>3. reading \in [Processes -> {None} \cup SUBSET Members]
    BY DEF Init
  <2>4. visit \in [Visitors -> {Idle}]
    BY DEF Init
  <2>5. stored \subseteq Run /\ latest \in stored \cup {NoRun}
    BY DEF Init
  <2> QED
    BY <2>1, <2>2, <2>3, <2>4, <2>5 DEF Init, TypeOK
<1> QED
  BY <1>1 DEF Init, IInv, NothingBeforeTheTable, ReadsAreOfTheTable, MarkerIsTrue,
              SquadsAreRead

(* Every step keeps the state well typed. *)
LEMMA NextType ==
  ASSUME TypeOK, NothingBeforeTheTable, [Next]_vars
  PROVE  TypeOK'
<1> USE LeagueAssumption
<1>1. CASE UpstreamMoves
  BY <1>1 DEF UpstreamMoves, TypeOK, league, cache, jobs
<1>2. ASSUME NEW v \in Visitors, FirstVisit(v)  PROVE TypeOK'
  BY <1>2 DEF FirstVisit, TypeOK, league, cache, jobs, Become
<1>3. ASSUME NEW v \in Visitors, StoreStandings(v)  PROVE TypeOK'
  <2>1. visit[v].table \in 1..MaxTable
    BY <1>3, StatesDiffer DEF StoreStandings
  <2> QED
    BY <1>3, <2>1 DEF StoreStandings, TypeOK, cache, jobs, Become
<1>4. ASSUME NEW v \in Visitors, BoardWaits(v)  PROVE TypeOK'
  <2>1. table # 0
    BY <1>4 DEF BoardWaits, AtBoard, NothingBeforeTheTable, Idle
  <2>2. MembersAt[table] \subseteq Members
    BY <2>1, InputIsRun
  <2>3. reading' \in [Processes -> {None} \cup SUBSET Members]
    BY <1>4, <2>2 DEF BoardWaits, TypeOK
  <2> QED
    BY <1>4, <2>3 DEF BoardWaits, TypeOK, league, cache, jobs, Become
<1>5. ASSUME NEW v \in Visitors, BoardServes(v)  PROVE TypeOK'
  BY <1>5 DEF BoardServes, TypeOK, league, cache, Become, Enqueue
<1>6. ASSUME NEW v \in Visitors, BoardRuns(v)  PROVE TypeOK'
  <2>1. table # 0
    BY <1>6 DEF BoardRuns, AtBoard, NothingBeforeTheTable, Idle
  <2>2. Input \in Run
    BY <2>1, InputIsRun
  <2>3. visit' \in [Visitors -> {Idle, [at |-> "board"]}
                      \cup {Holding(r) : r \in Run} \cup {Browsing(r) : r \in Run}
                      \cup {Fetched(t) : t \in 1..MaxTable}]
    BY <1>6, <2>2 DEF BoardRuns, Become, TypeOK
  <2> QED
    BY <1>6, <2>3 DEF BoardRuns, TypeOK, league, cache, jobs
<1>7. ASSUME NEW v \in Visitors, OtherPage(v)  PROVE TypeOK'
  <2>1. Input \in Run
    BY <1>7, InputIsRun DEF OtherPage
  <2>2. visit' \in [Visitors -> {Idle, [at |-> "board"]}
                      \cup {Holding(r) : r \in Run} \cup {Browsing(r) : r \in Run}
                      \cup {Fetched(t) : t \in 1..MaxTable}]
    BY <1>7, <2>1 DEF OtherPage, PageRuns, PageServed, Become, TypeOK
  <2> QED
    BY <1>7, <2>2 DEF OtherPage, PageRuns, PageServed, TypeOK, league, cache, Enqueue
<1>8. ASSUME NEW v \in Visitors, ForcedPage(v)  PROVE TypeOK'
  <2>1. Input \in Run
    BY <1>8, InputIsRun DEF ForcedPage, NothingBeforeTheTable
  <2>2. visit' \in [Visitors -> {Idle, [at |-> "board"]}
                      \cup {Holding(r) : r \in Run} \cup {Browsing(r) : r \in Run}
                      \cup {Fetched(t) : t \in 1..MaxTable}]
    BY <1>8, <2>1 DEF ForcedPage, Become, TypeOK
  <2> QED
    BY <1>8, <2>2 DEF ForcedPage, TypeOK, league, cache, jobs, MarkCurrent
<1>9. ASSUME NEW v \in Visitors, FinishBoardRun(v)  PROVE TypeOK'
  <2>1. visit[v].run \in Run
    BY <1>9, StatesDiffer DEF FinishBoardRun
  <2> QED
    BY <1>9, <2>1 DEF FinishBoardRun, TypeOK, league, Become, Insert, Enqueue
<1>10. ASSUME NEW v \in Visitors, FinishPageRun(v)  PROVE TypeOK'
  <2>1. visit[v].run \in Run
    BY <1>10, StatesDiffer DEF FinishPageRun
  <2> QED
    BY <1>10, <2>1 DEF FinishPageRun, TypeOK, league, cache, jobs, Become, Insert
<1>11. ASSUME NEW v \in Visitors, RunCollides(v) \/ RequestFails(v)  PROVE TypeOK'
  BY <1>11 DEF RunCollides, RequestFails, TypeOK, league, cache, jobs, Become, Mishap
<1>12. ASSUME NEW p \in Processes, SquadsStored(p)  PROVE TypeOK'
  <2>1. reading[p] \subseteq Members
    BY <1>12 DEF SquadsStored, Picked, TypeOK
  <2> QED
    BY <1>12, <2>1 DEF SquadsStored, Picked, TypeOK, Enqueue
<1>13. ASSUME NEW p \in Processes, SquadsFail(p)  PROVE TypeOK'
  BY <1>13 DEF SquadsFail, TypeOK, league, cache, jobs, Mishap
<1>14. CASE RefreshTracked
  BY <1>14 DEF RefreshTracked, TypeOK, league, cache, Enqueue
<1>15. CASE FetchLeague
  BY <1>15 DEF FetchLeague, TypeOK, league, cache
<1>16. CASE StoreLeague
  <2>1. ingest.table \in 1..MaxTable
    BY <1>16, StatesDiffer DEF StoreLeague
  <2>2. MembersAt[ingest.table] \subseteq Members
    BY <2>1
  <2> QED
    BY <1>16, <2>1, <2>2 DEF StoreLeague, Picked, TypeOK, cache
<1>17. CASE QueueRecompute
  BY <1>17 DEF QueueRecompute, TypeOK, league, cache, Enqueue
<1>18. CASE StartRecompute
  <2>1. Input \in Run
    BY <1>18, InputIsRun DEF StartRecompute, NothingBeforeTheTable, Queued, NoJob
  <2>2. recompute' \in {NoJob, Queued} \cup {Holding(r) : r \in Run}
    BY <1>18, <2>1 DEF StartRecompute
  <2> QED
    BY <1>18, <2>2 DEF StartRecompute, TypeOK, league, cache, MarkCurrent
<1>19. CASE FinishRecompute
  <2>1. recompute.run \in Run
    BY <1>19, StatesDiffer DEF FinishRecompute
  <2> QED
    BY <1>19, <2>1 DEF FinishRecompute, TypeOK, league, cache, Insert
<1>20. CASE GiveUpRecompute
  BY <1>20 DEF GiveUpRecompute, TypeOK, league, cache
<1>21. CASE JobFails
  BY <1>21 DEF JobFails, TypeOK, league, cache, Mishap
<1>22. CASE UNCHANGED vars
  BY <1>22 DEF vars, league, cache, jobs, TypeOK
<1> QED
  BY <1>1, <1>2, <1>3, <1>4, <1>5, <1>6, <1>7, <1>8, <1>9, <1>10, <1>11, <1>12, <1>13,
     <1>14, <1>15, <1>16, <1>17, <1>18, <1>19, <1>20, <1>21, <1>22
  DEF Next, Board, Answer, Ingest, Recompute

(* Before the table is stored only first visits and FPL move.               *)
LEMMA NextBefore ==
  ASSUME TypeOK, NothingBeforeTheTable, [Next]_vars
  PROVE  NothingBeforeTheTable'
<1> USE LeagueAssumption
<1>1. CASE table = 0
  <2>1. \A v \in Visitors : ~AtBoard(v) /\ visit[v].at \notin {"running", "browsing"}
    BY <1>1 DEF NothingBeforeTheTable, AtBoard, Idle
  <2>2. \/ UpstreamMoves
        \/ \E v \in Visitors : FirstVisit(v) \/ StoreStandings(v) \/ RequestFails(v)
        \/ UNCHANGED vars
    <3>1. ~RefreshTracked /\ ~Ingest /\ ~Recompute /\ ~JobFails
      BY <1>1 DEF NothingBeforeTheTable, RefreshTracked, Ingest, FetchLeague, StoreLeague,
                  QueueRecompute, Recompute, StartRecompute, FinishRecompute,
                  GiveUpRecompute, JobFails, NoJob, Queued
    <3>2. \A p \in Processes : ~SquadsStored(p) /\ ~SquadsFail(p)
      BY <1>1 DEF NothingBeforeTheTable, SquadsStored, SquadsFail
    <3>3. \A v \in Visitors :
            /\ ~BoardWaits(v) /\ ~BoardServes(v) /\ ~BoardRuns(v)
            /\ ~OtherPage(v) /\ ~ForcedPage(v)
            /\ ~FinishBoardRun(v) /\ ~FinishPageRun(v) /\ ~RunCollides(v)
      BY <1>1, <2>1 DEF NothingBeforeTheTable, BoardWaits, BoardServes, BoardRuns, OtherPage,
                        ForcedPage, FinishBoardRun, FinishPageRun, RunCollides
    <3> QED
      BY <3>1, <3>2, <3>3 DEF Next, Board, Answer
  <2>3. CASE UpstreamMoves
    BY <2>3 DEF UpstreamMoves, NothingBeforeTheTable, league, cache, jobs
  <2>4. ASSUME NEW v \in Visitors, FirstVisit(v)  PROVE NothingBeforeTheTable'
    BY <2>4 DEF FirstVisit, NothingBeforeTheTable, league, cache, jobs, Become, Fetched, TypeOK
  <2>5. ASSUME NEW v \in Visitors, StoreStandings(v)  PROVE NothingBeforeTheTable'
    <3>1. visit[v].table \in 1..MaxTable
      BY <2>5, StatesDiffer DEF StoreStandings
    <3>2. table' # 0
      BY <2>5, <3>1 DEF StoreStandings
    <3> QED
      BY <3>2 DEF NothingBeforeTheTable
  <2>6. ASSUME NEW v \in Visitors, RequestFails(v)  PROVE NothingBeforeTheTable'
    BY <2>6 DEF RequestFails, NothingBeforeTheTable, league, cache, jobs, Become, TypeOK
  <2>7. CASE UNCHANGED vars
    BY <2>7 DEF vars, league, cache, jobs, NothingBeforeTheTable
  <2> QED
    BY <2>2, <2>3, <2>4, <2>5, <2>6, <2>7
<1>2. CASE table # 0
  <2>1. table' = table \/ table' \in 1..MaxTable
    BY StatesDiffer
    DEF Next, Board, Answer, Ingest, Recompute, UpstreamMoves, FirstVisit, StoreStandings,
        BoardWaits, BoardServes, BoardRuns, OtherPage, PageRuns, PageServed, ForcedPage,
        FinishBoardRun, FinishPageRun, RunCollides, RequestFails, SquadsStored, SquadsFail, RefreshTracked,
        FetchLeague, StoreLeague, QueueRecompute, StartRecompute, FinishRecompute,
        GiveUpRecompute, JobFails, vars, league
  <2> QED
    BY <1>2, <2>1 DEF NothingBeforeTheTable
<1> QED
  BY <1>1, <1>2

(* The marker: it is set together with the squads of the members the table  *)
(* lists, and the table changes under it only together with their squads.   *)
LEMMA NextMarker ==
  ASSUME IInv, [Next]_vars
  PROVE  ReadsAreOfTheTable' /\ MarkerIsTrue'
<1> USE LeagueAssumption DEF SquadsAreRead
<1>1. CASE UNCHANGED <<league, reading>>
  BY <1>1 DEF IInv, ReadsAreOfTheTable, MarkerIsTrue, league
<1>2. ASSUME NEW v \in Visitors, StoreStandings(v)
      PROVE  ReadsAreOfTheTable' /\ MarkerIsTrue'
  <2>1. CASE table = 0
    BY <1>2, <2>1 DEF StoreStandings, IInv, NothingBeforeTheTable, ReadsAreOfTheTable,
                      MarkerIsTrue
  <2>2. CASE table # 0
    BY <1>2, <2>2 DEF StoreStandings, ReadsAreOfTheTable, MarkerIsTrue
  <2> QED  BY <2>1, <2>2
<1>3. ASSUME NEW v \in Visitors, BoardWaits(v)
      PROVE  ReadsAreOfTheTable' /\ MarkerIsTrue'
  <2>1. UNCHANGED league
    BY <1>3 DEF BoardWaits
  <2>2. \A p \in Processes : reading'[p] = reading[p] \/ reading'[p] = MembersAt[table]
    BY <1>3 DEF BoardWaits, IInv, TypeOK
  <2> QED
    BY <2>1, <2>2 DEF IInv, ReadsAreOfTheTable, MarkerIsTrue, league
<1>4. ASSUME NEW p \in Processes, SquadsStored(p)
      PROVE  ReadsAreOfTheTable' /\ MarkerIsTrue'
  <2>1. read' /\ table' = table /\ overlapped' = overlapped
        /\ known' = known \cup (reading[p] \ Squadless) /\ reading[p] # None
    BY <1>4 DEF SquadsStored, Picked
  <2>2. CASE read
    BY <2>1, <2>2 DEF IInv, ReadsAreOfTheTable, MarkerIsTrue
  <2>3. CASE ~read
    BY <2>1, <2>3 DEF IInv, ReadsAreOfTheTable, MarkerIsTrue
  <2> QED  BY <2>2, <2>3
<1>5. ASSUME NEW p \in Processes, SquadsFail(p)
      PROVE  ReadsAreOfTheTable' /\ MarkerIsTrue'
  BY <1>5 DEF SquadsFail, IInv, TypeOK, ReadsAreOfTheTable, MarkerIsTrue, league
<1>6. CASE StoreLeague
  BY <1>6 DEF StoreLeague, Picked, ReadsAreOfTheTable, MarkerIsTrue
<1>7. \/ UNCHANGED <<league, reading>>
      \/ \E v \in Visitors : StoreStandings(v) \/ BoardWaits(v)
      \/ \E p \in Processes : SquadsStored(p) \/ SquadsFail(p)
      \/ StoreLeague
  BY DEF Next, Board, Answer, Ingest, Recompute, UpstreamMoves, FirstVisit, BoardServes,
         BoardRuns, OtherPage, PageRuns, PageServed, ForcedPage, FinishBoardRun, FinishPageRun,
         RunCollides,
         RequestFails, RefreshTracked, FetchLeague, QueueRecompute, StartRecompute,
         FinishRecompute, GiveUpRecompute, JobFails, vars
<1> QED
  BY <1>1, <1>2, <1>3, <1>4, <1>5, <1>6, <1>7

(* Every step preserves the invariant. *)
LEMMA NextInv == IInv /\ [Next]_vars => IInv'
  BY NextType, NextBefore, NextMarker DEF IInv

(* However requests, reads, jobs and failures interleave, the league's state *)
(* is well typed.                                                           *)
THEOREM LeagueTypeCorrect == Spec => []TypeOK
<1>1. IInv => TypeOK
  BY DEF IInv
<1> QED
  BY <1>1, InitInv, NextInv, PTL DEF Spec

(* The stored marker of read squads is true of the league's own members,    *)
(* unless two first visits overlapped.                                      *)
THEOREM MarkerAlwaysTrue == Spec => []MarkerIsTrue
<1>1. IInv => MarkerIsTrue
  BY DEF IInv
<1> QED
  BY <1>1, InitInv, NextInv, PTL DEF Spec
=============================================================================
