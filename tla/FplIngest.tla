------------------------------ MODULE FplIngest ------------------------------
(***************************************************************************)
(* The mirror of the public FPL API: overtake/fpl/client.py, fpl/ingest.py *)
(* and the two ingest jobs of workers/tasks.py.  A document is asked for   *)
(* with the validators of the copy that is stored, and comes back as it is *)
(* or as "not modified"; the standings of a league come page by page while *)
(* the league goes on changing.  Each reader is one job or request with a  *)
(* client of its own, one transaction, and one request at a time.          *)
(*                                                                         *)
(* A document is its version and the items it lists; the items of the      *)
(* bootstrap (gameweeks, teams, players) are what the others refer to.     *)
(*                                                                         *)
(* A definition whose name continues another's after an underscore is that *)
(* operation with one slip in it, used by the sensitivity runs only.       *)
(***************************************************************************)
EXTENDS Integers, Sequences, FiniteSets, FiniteSetsExt, SequencesExt

CONSTANTS
  Items,        \* what the documents list
  Content,      \* the items of each version of each document
  Members,      \* managers who are ever in the league
  Standings,    \* the league's members by rank, in each version of its table
  PageSize,     \* FPL: members of a page of standings
  Cap,          \* settings.fpl_max_league_size
  MaxPages,     \* MAX_STANDINGS_PAGES
  MaxAttempts,  \* MAX_ATTEMPTS
  Threshold,    \* CIRCUIT_FAILURE_THRESHOLD
  Readers,      \* jobs and requests that read FPL at the same time
  MaxReads,     \* bound on jobs and requests
  MaxFailures,  \* bound on answers that fail and readers that die
  None

(* What ingest_core and ingest_live ask for, in order.                      *)
Documents == [core |-> <<"bootstrap", "fixtures", "notes">>, live |-> <<"live">>]
Docs      == {"bootstrap", "fixtures", "notes", "live"}
Sources   == Docs \cup {"league"}
Versions(d) == IF d = "league" THEN 1..Len(Standings) ELSE 1..Len(Content[d])

ASSUME FplAssumption ==
  /\ \A d \in Docs : Content[d] \in Seq(SUBSET Items) /\ Content[d] # << >>
  /\ Standings \in Seq(Seq(Members)) /\ Standings # << >>
  /\ \A v \in DOMAIN Standings : IsInjective(Standings[v])
  /\ PageSize \in Nat \ {0} /\ Cap \in Nat /\ MaxPages \in Nat \ {0}
  /\ MaxAttempts \in Nat \ {0} /\ Threshold \in Nat
  /\ MaxReads \in Nat /\ MaxFailures \in Nat

(* MAX_ATTEMPTS = 4, CIRCUIT_FAILURE_THRESHOLD = 5.                          *)
ASSUME AttemptsAssumption == MaxAttempts < Threshold

VARIABLES
  upstream,  \* FPL: the version of each document, and of the table, now
  etag,      \* http_cache: the version each stored validator stands for, 0 without one
  rows,      \* the rows of each document: the version each item was stored in, 0 without
  dropped,   \* history: the items a document listed that the mirror did not know
  members,   \* league_members
  reader,    \* what each job or request is doing
  reads,     \* jobs and requests so far
  failures,  \* failures so far
  wronged    \* history: members pruned who had never left, in a read nobody left during

vars == <<upstream, etag, rows, dropped, members, reader, reads, failures, wronged>>

Idle == [op |-> None]
Blank(op) ==
  [op |-> op, tries |-> 0, failed |-> 0,
   step |-> 1, kept |-> [d \in Docs |-> 0], lost |-> [d \in Docs |-> {}],
   got |-> << >>, page |-> 1, more |-> TRUE, since |-> upstream["league"]]

Reader ==
  [op : {"core", "live", "league"}, tries : 0..MaxAttempts - 1,
   failed : 0..Threshold - 1,         \* the breaker's count
   step : 1..4,                       \* the document it is at
   kept : [Docs -> Nat],              \* the versions it is to store, 0 for none
   lost : [Docs -> SUBSET Items],     \* their items it does not know
   got : Seq(Members), page : Nat, more : BOOLEAN,
   since : Nat]                       \* history: the table its read began with

(* No breaker ever opens: a client has one reader, who gives up at the      *)
(* first fetch that fails for good, and MAX_ATTEMPTS is below the threshold. *)
TypeOK ==
  /\ \A d \in Sources : upstream[d] \in Versions(d)
  /\ DOMAIN upstream = Sources
  /\ etag \in [Docs -> Nat] /\ rows \in [Docs -> [Items -> Nat]]
  /\ dropped \in [Docs -> SUBSET Items]
  /\ members \subseteq Members /\ wronged \subseteq Members
  /\ reader \in [Readers -> Reader \cup {Idle}]
  /\ reads \in 0..MaxReads /\ failures \in 0..MaxFailures

Init ==
  /\ upstream = [d \in Sources |-> 1]
  /\ etag = [d \in Docs |-> 0] /\ rows = [d \in Docs |-> [i \in Items |-> 0]]
  /\ dropped = [d \in Docs |-> {}]
  /\ members = {} /\ wronged = {}
  /\ reader = [r \in Readers |-> Idle]
  /\ reads = 0 /\ failures = 0

Listed(d) == Content[d][upstream[d]]
Now       == Standings[upstream["league"]]

(* FPL publishes: a document refers to items its bootstrap lists.           *)
Publish(d) ==
  /\ upstream[d] + 1 \in Versions(d)
  /\ d \in Docs \ {"bootstrap"} => Content[d][upstream[d] + 1] \subseteq Listed("bootstrap")
  /\ upstream' = [upstream EXCEPT ![d] = @ + 1]
  /\ UNCHANGED <<etag, rows, dropped, members, reader, reads, failures, wronged>>

-----------------------------------------------------------------------------
Become(r, state) == reader' = [reader EXCEPT ![r] = state]
Doing(r, ops)    == reader[r] # Idle /\ reader[r].op \in ops

(* A handler starts, with a new client.  Its transaction reads validators    *)
(* as it goes; nobody changes them between, but another reader's commit.     *)
Start(r, op) ==
  /\ reader[r] = Idle /\ reads < MaxReads
  /\ reads' = reads + 1
  /\ Become(r, Blank(op))
  /\ UNCHANGED <<upstream, etag, rows, dropped, members, failures, wronged>>

(* FplClient.fetch: a timeout, a 429 or 5xx, a page that is no JSON.  The    *)
(* fourth failure raises, and the transaction is rolled back.                *)
Exhausted_OneMore(r) == reader[r].tries > MaxAttempts - 1
Exhausted(r) == reader[r].tries + 1 >= MaxAttempts

AttemptFails(r) ==
  /\ reader[r] # Idle /\ failures < MaxFailures
  /\ failures' = failures + 1
  /\ Become(r, IF Exhausted(r) THEN Idle
               ELSE [reader[r] EXCEPT !.tries = @ + 1, !.failed = @ + 1])
  /\ UNCHANGED <<upstream, etag, rows, dropped, members, reads, wronged>>

(* Any other refusal, an exception or a death: nothing was committed.        *)
Abandon_HeadersKept(r) ==
  /\ reader[r] # Idle /\ failures < MaxFailures
  /\ failures' = failures + 1 /\ Become(r, Idle)
  /\ etag' = [d \in Docs |-> IF reader[r].kept[d] # 0 THEN reader[r].kept[d] ELSE etag[d]]
  /\ UNCHANGED <<upstream, rows, dropped, members, reads, wronged>>

Abandon(r) ==
  /\ reader[r] # Idle /\ failures < MaxFailures
  /\ failures' = failures + 1 /\ Become(r, Idle)
  /\ UNCHANGED <<upstream, etag, rows, dropped, members, reads, wronged>>

(* A success closes the breaker's count.                                     *)
Fresh(state) == [state EXCEPT !.tries = 0, !.failed = 0]

-----------------------------------------------------------------------------
Doc(r) == Documents[reader[r].op][reader[r].step]
Reading(r) == Doing(r, {"core", "live"}) /\ reader[r].step <= Len(Documents[reader[r].op])

(* 304: the stored copy is kept.                                             *)
NotModified(r) ==
  /\ Reading(r)
  /\ etag[Doc(r)] = upstream[Doc(r)]
  /\ Become(r, [Fresh(reader[r]) EXCEPT !.step = @ + 1])
  /\ UNCHANGED <<upstream, etag, rows, dropped, members, reads, failures, wronged>>

(* What the session knows: what is committed, and its own bootstrap.         *)
Known(r) == {i \in Items : rows["bootstrap"][i] # 0} \cup
            (IF reader[r].kept["bootstrap"] # 0
             THEN Content["bootstrap"][reader[r].kept["bootstrap"]] ELSE {})

(* 200: the rows that refer to what is known are upserted.                   *)
Modified(r) ==
  /\ Reading(r)
  /\ etag[Doc(r)] # upstream[Doc(r)]
  /\ Become(r, [Fresh(reader[r]) EXCEPT
       !.step = @ + 1, !.kept[Doc(r)] = upstream[Doc(r)],
       !.lost[Doc(r)] = IF Doc(r) = "bootstrap" THEN {} ELSE Listed(Doc(r)) \ Known(r)])
  /\ UNCHANGED <<upstream, etag, rows, dropped, members, reads, failures, wronged>>

(* Raw body, validators and rows in the handler's one transaction.           *)
CommitDocuments(r) ==
  LET kept == reader[r].kept
      lost == reader[r].lost
  IN /\ Doing(r, {"core", "live"}) /\ ~Reading(r)
     /\ etag' = [d \in Docs |-> IF kept[d] # 0 THEN kept[d] ELSE etag[d]]
     /\ dropped' = [d \in Docs |-> IF kept[d] # 0 THEN lost[d] ELSE dropped[d]]
     /\ rows' = [d \in Docs |-> [i \in Items |->
          IF kept[d] # 0 /\ i \in Content[d][kept[d]] \ lost[d] THEN kept[d] ELSE rows[d][i]]]
     /\ Become(r, Idle)
     /\ UNCHANGED <<upstream, members, reads, failures, wronged>>

-----------------------------------------------------------------------------
(* ingest_league: page after page, until the last, the page cap, or more     *)
(* members than a mini-league has.                                           *)
Page(p)    == SubSeq(Now, (p - 1) * PageSize + 1, Min({p * PageSize, Len(Now)}))
HasNext(p) == Len(Now) > p * PageSize

MorePages(r) ==
  /\ reader[r].more /\ reader[r].page <= MaxPages
  /\ Len(reader[r].got) <= Cap

ReadPage(r) ==
  /\ Doing(r, {"league"}) /\ MorePages(r)
  /\ Become(r, [Fresh(reader[r]) EXCEPT
       !.got = @ \o Page(reader[r].page), !.more = HasNext(reader[r].page), !.page = @ + 1])
  /\ UNCHANGED <<upstream, etag, rows, dropped, members, reads, failures, wronged>>

(* A batch that names a row twice is refused by PostgreSQL: "ON CONFLICT DO  *)
(* UPDATE command cannot affect row a second time".                          *)
Repeats_Merged(got) == FALSE
Repeats(got) == ~IsInjective(got)

(* LeagueTooLarge, NotFound, or the refused batch.                           *)
StandingsRefused(r) ==
  /\ Doing(r, {"league"}) /\ ~MorePages(r)
  /\ Len(reader[r].got) > Cap \/ reader[r].got = << >> \/ Repeats(reader[r].got)
  /\ Become(r, Idle)
  /\ UNCHANGED <<upstream, etag, rows, dropped, members, reads, failures, wronged>>

Left(r) == \E v \in reader[r].since..upstream["league"] - 1 :
             ~(ToSet(Standings[v]) \subseteq ToSet(Standings[v + 1]))

StoreStandings(r) ==
  LET got    == ToSet(reader[r].got)
      pruned == IF reader[r].more THEN {} ELSE members \ got
  IN /\ Doing(r, {"league"}) /\ ~MorePages(r)
     /\ Len(reader[r].got) <= Cap /\ got # {} /\ ~Repeats(reader[r].got)
     /\ members' = (members \cup got) \ pruned
     /\ wronged' = wronged \cup
          {m \in pruned : ~Left(r) /\ m \in ToSet(Standings[reader[r].since])}
     /\ Become(r, Idle)
     /\ UNCHANGED <<upstream, etag, rows, dropped, reads, failures>>

-----------------------------------------------------------------------------
Next ==
  \/ \E d \in Sources : Publish(d)
  \/ \E r \in Readers :
       \/ \E op \in {"core", "live", "league"} : Start(r, op)
       \/ AttemptFails(r) \/ Abandon(r)
       \/ NotModified(r) \/ Modified(r) \/ CommitDocuments(r)
       \/ ReadPage(r) \/ StandingsRefused(r) \/ StoreStandings(r)

Spec == Init /\ [][Next]_vars

-----------------------------------------------------------------------------
(* When FPL would answer "not modified", everything the document lists is    *)
(* stored as it is now, but for what the mirror had not heard of when it     *)
(* read it: a validator never outlives the rows it came with, whatever fails *)
(* in between and however readers overlap (_store_headers, "a 304 costs      *)
(* nothing").                                                                *)
NotModifiedLosesNothing ==
  \A d \in Docs : etag[d] = upstream[d] =>
    \A i \in Listed(d) \ dropped[d] : rows[d][i] = upstream[d]

(* Pruning takes nobody out who stayed in the league, unless somebody left   *)
(* while it was being read: a reshuffle between two pages repeats a member,  *)
(* which fails the batch ("never drops a real member", ingest_league).       *)
PruneIsTruthful == wronged = {}
=============================================================================
