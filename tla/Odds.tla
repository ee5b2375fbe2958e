--------------------------------- MODULE Odds ---------------------------------
(***************************************************************************)
(* The season simulator: overtake/engine/simulator.py, the scenarios that  *)
(* routes/leagues.py asks it for and the advice services/dossier_service   *)
(* draws from its captaincy table.  A run plays every remaining gameweek   *)
(* once for all managers and all scenarios, on the same draws; this is one *)
(* of its n_sims seasons, so a probability is 0 or 1.                      *)
(*                                                                         *)
(* Draws are choices from small sets, means and shares whole numbers:      *)
(* totals are in points times Scale, and a product is rounded where the    *)
(* code rounds to float32.                                                 *)
(*                                                                         *)
(* A definition whose name continues another's after an underscore is that *)
(* operation with one slip in it, used by the sensitivity runs only.       *)
(***************************************************************************)
EXTENDS Integers, Sequences, FiniteSets, FiniteSetsExt, Functions

CONSTANTS
  Managers,     \* entry ids
  User,         \* the one who asks
  Players,      \* player ids
  Squad,        \* the squad of each manager
  Current,      \* current_total of each
  Lineups,      \* the lineups a manager may have locked: multipliers, or None
  Position, Club, ClubLimit,
  Starting,     \* STARTING_XI
  Gameweeks,    \* remaining_gameweeks
  Projected,    \* the projected mean of each player in each gameweek
  Absence,      \* 1 for a player who is not expected to start
  MaxAutosubs, Replacement,  \* MAX_AUTOSUBS, BENCH_REPLACEMENT_POINTS
  Scale, Kept,  \* of Scale shares of a team, those still the manager's own, per gameweek ahead
  Points, Adjustments, Bonuses,  \* what may be drawn
  Shortlist,    \* MAX_CANDIDATE_MOVES
  None

ASSUME OddsAssumption ==
  /\ Managers \subseteq Nat /\ Players \subseteq Nat /\ User \in Managers
  /\ IsFiniteSet(Managers) /\ IsFiniteSet(Players)
  /\ Squad \in [Managers -> SUBSET Players] /\ Current \in [Managers -> Int]
  /\ Lineups \in [Managers -> SUBSET ([Players -> 0..3] \cup {None})]
  /\ Gameweeks \in Seq(Nat) /\ Gameweeks # << >>
  /\ Projected \in [Players -> [Range(Gameweeks) -> Int]] /\ Absence \in [Players -> 0..1]
  /\ Scale \in Nat \ {0} /\ Kept \in [Managers -> [DOMAIN Gameweeks -> 0..Scale]]
  /\ Starting \in Nat \ {0} /\ Shortlist \in Nat \ {0}
  /\ MaxAutosubs \in Nat /\ Replacement \in Nat
  /\ Points \subseteq Int /\ Adjustments \subseteq Int /\ Bonuses \subseteq Int

(* The FPL lets one player of a team wear the armband.                       *)
ASSUME OneCaptain ==
  \A m \in Managers : \A l \in Lineups[m] \ {None} :
    \A p, q \in Players : l[p] > 1 /\ l[q] > 1 => p = q

ASSUME NoneAssumption == None \notin Players /\ None \notin [Players -> 0..3]

VARIABLES
  locked,    \* ManagerState.locked_xi of each manager
  decision,  \* the offset of decision_gameweek
  offset,    \* the gameweek being played
  totals,    \* each manager's season so far
  scenarios, \* the user's season under each scenario
  options,   \* the captaincy table: what each captain adds to each manager's season
  moved,     \* history: the season each manager has with the armband on another starter
  done

vars == <<locked, decision, offset, totals, scenarios, options, moved, done>>

Sum(f) == SumFunction(f)

(* _validate_transfer_legality, and the checks of `simulate` before it.      *)
Legal(squad, in, out) ==
  /\ out \in squad /\ in \notin squad /\ Position[in] = Position[out]
  /\ \A t \in Range(Club) :
       Cardinality({p \in (squad \ {out}) \cup {in} : Club[p] = t}) <= ClubLimit

(* Captain moves override the lineup of the first gameweek; transfers change *)
(* the squad of all of them.                                                 *)
Baseline == [kind |-> "baseline"]
Scenarios ==
  {Baseline} \cup {[kind |-> "captain", player |-> p] : p \in Squad[User]}
    \cup {[kind |-> "transfer", in |-> t[1], out |-> t[2]] :
            t \in {t \in Players \X Players : Legal(Squad[User], t[1], t[2])}}

Init ==
  /\ locked \in {l \in [Managers -> UNION Range(Lineups)] : \A m \in Managers : l[m] \in Lineups[m]}
  /\ decision \in DOMAIN Gameweeks
  /\ offset = 1
  /\ totals = [m \in Managers |-> Scale * Current[m]]
  /\ scenarios = [s \in Scenarios |-> Scale * Current[User]]
  /\ options = [m \in Managers |-> None]
  /\ moved = [m \in Managers |-> [p \in Squad[m] |-> Scale * Current[m]]]
  /\ done = FALSE

-----------------------------------------------------------------------------
(* The eleven with the highest means, the best of them captain: sorted by    *)
(* mean and id, in reverse.                                                  *)
Ahead(p, q, gw) ==
  \/ Projected[p][gw] > Projected[q][gw]
  \/ Projected[p][gw] = Projected[q][gw] /\ p > q

BestEleven(squad, gw) ==
  LET rank == [p \in squad |-> Cardinality({q \in squad : Ahead(q, p, gw)})]
  IN [p \in Players |-> IF p \notin squad \/ rank[p] >= Starting THEN 0
                        ELSE IF rank[p] = 0 THEN 2 ELSE 1]

(* _gameweek_weights: a manager's own lineup, and the field they drift to.   *)
Own(m) == IF offset = 1 /\ locked[m] # None THEN locked[m]
          ELSE BestEleven(Squad[m], Gameweeks[offset])

Field(own) ==
  LET shares == [p \in Players |-> Sum([m \in Managers |-> own[m][p]])]
      total  == Sum(shares)
  IN [p \in Players |-> IF total = 0 THEN 0 ELSE (shares[p] * (Starting + 1) * Scale) \div total]

(* A lineup that has drifted to the field as far as its manager has, and     *)
(* what it scores: points @ weights.                                         *)
Weights(lineup, field, keep) ==
  [p \in Players |-> keep * lineup[p] + ((Scale - keep) * field[p]) \div Scale]

Score(weights, points) == Sum([p \in Players |-> points[p] * weights[p]])

(* _autosub_credit.                                                          *)
Autosubs(lineup) ==
  Replacement * Scale * Min({MaxAutosubs, Sum([p \in Players |-> Min({1, lineup[p]}) * Absence[p]])})

-----------------------------------------------------------------------------
(* The override `simulate` builds of a captain move.                         *)
Override(s) ==
  IF s.kind # "captain" \/ locked[User] = None THEN None
  ELSE [p \in Players |-> IF p = s.player THEN 2 ELSE Min({1, locked[User][p]})]

(* _scenario_weights: what is locked stays, unless the scenario overrides it *)
(* or brings a player in.                                                    *)
ScenarioLineup_Best(s) ==
  LET squad == IF s.kind = "transfer" THEN (Squad[User] \ {s.out}) \cup {s.in} ELSE Squad[User]
  IN IF offset = 1 /\ Override(s) # None THEN Override(s)
     ELSE BestEleven(squad, Gameweeks[offset])

ScenarioLineup(s) ==
  LET override == IF s.kind = "transfer" \/ Override(s) # None THEN Override(s) ELSE locked[User]
      squad    == IF s.kind = "transfer" THEN (Squad[User] \ {s.out}) \cup {s.in} ELSE Squad[User]
  IN IF offset = 1 /\ override # None THEN override ELSE BestEleven(squad, Gameweeks[offset])

(* _captain_deltas: the armband moves, as it is, to another starter.         *)
Armband(lineup) == Max({2} \cup Range(lineup))
Boosted(lineup) == {p \in Players : lineup[p] > 1}
Captain(lineup) ==
  IF Boosted(lineup) = {} THEN None
  ELSE Min({p \in Players : \A q \in Players : lineup[q] <= lineup[p]})

Deltas_OnTop(m, points, keep) ==
  LET lineup == Own(m)
  IN [captain |-> Captain(lineup),
      deltas  |-> [c \in {p \in Squad[m] : lineup[p] > 0} |->
                     keep * points[c] * (Armband(lineup) - lineup[c])]]

Deltas(m, points, keep) ==
  LET lineup == Own(m)
  IN [captain |-> Captain(lineup),
      deltas  |-> [c \in {p \in Squad[m] : lineup[p] > 0} |->
        keep * (points[c] * (Armband(lineup) - lineup[c])
                + Sum([o \in Boosted(lineup) \ {c} |-> points[o] * (1 - lineup[o])]))]]

(* The lineup with the armband on c, for the seasons played in full.         *)
WithArmband(lineup, c) ==
  [p \in Players |-> IF p = c THEN Armband(lineup) ELSE Min({1, lineup[p]})]

(* One turn of the loop of `run`: one draw for managers and scenarios alike. *)
PlayGameweek ==
  LET own       == [m \in Managers |-> Own(m)]
      field     == Field(own)
      keep(m)   == Kept[m][offset]
      team(m, lineup) == [weights |-> Weights(lineup, field, keep(m)), subs |-> Autosubs(lineup)]
      rows      == [m \in Managers |-> team(m, own[m])]
      columns   == [s \in Scenarios |-> team(User, ScenarioLineup(s))]
      armbands  == [m \in Managers |-> [c \in Squad[m] |->
                     team(m, IF offset = decision /\ own[m][c] > 0
                             THEN WithArmband(own[m], c) ELSE own[m])]]
  IN /\ offset <= Len(Gameweeks)
     /\ \E points \in [Players -> Points], adjustment \in [Managers -> Adjustments] :
          LET season(m, x) == Score(x.weights, points) + x.subs + Scale * adjustment[m]
          IN /\ totals' = [m \in Managers |-> totals[m] + season(m, rows[m])]
             /\ scenarios' = [s \in Scenarios |-> scenarios[s] + season(User, columns[s])]
             /\ options' = IF offset # decision THEN options
                           ELSE [m \in Managers |-> Deltas(m, points, keep(m))]
             /\ moved' = [m \in Managers |-> [c \in Squad[m] |->
                           moved[m][c] + season(m, armbands[m][c])]]
     /\ offset' = offset + 1
     /\ UNCHANGED <<locked, decision, done>>

(* The chips in hand, and the end of the run.                                *)
Finish ==
  /\ offset > Len(Gameweeks) /\ ~done
  /\ \E bonus \in [Managers -> Bonuses] :
       /\ totals' = [m \in Managers |-> totals[m] + Scale * bonus[m]]
       /\ scenarios' = [s \in Scenarios |-> scenarios[s] + Scale * bonus[User]]
       /\ moved' = [m \in Managers |-> [c \in Squad[m] |-> moved[m][c] + Scale * bonus[m]]]
  /\ done' = TRUE
  /\ UNCHANGED <<locked, decision, offset, options>>

Next == PlayGameweek \/ Finish

Spec == Init /\ [][Next]_vars

-----------------------------------------------------------------------------
(* What a run knows of itself: before the decision gameweek there is no      *)
(* table, from it on it is about players of the squad, and only a run that   *)
(* has played all of its gameweeks is done.                                  *)
Candidates(m) == DOMAIN options[m].deltas

TypeOK ==
  /\ \A m \in Managers : locked[m] \in Lineups[m]
  /\ decision \in DOMAIN Gameweeks /\ offset \in 1..Len(Gameweeks) + 1
  /\ totals \in [Managers -> Int] /\ scenarios \in [Scenarios -> Int]
  /\ \A m \in Managers : moved[m] \in [Squad[m] -> Int]
  /\ \A m \in Managers :
       IF offset <= decision THEN options[m] = None
       ELSE /\ options[m].captain \in Players \cup {None}
            /\ Candidates(m) \subseteq Squad[m] /\ options[m].deltas \in [Candidates(m) -> Int]
  /\ done \in BOOLEAN /\ (done => offset > Len(Gameweeks))

(* _summarise: p_above of one season.  A tie is nobody's.                    *)
Above(m, r) == totals[m] > totals[r]

(* best_move_against: of the best projected starters, another captain with   *)
(* whom the user finishes above the rival more often.  None is to keep the   *)
(* one they have; without one there is always a tip.                         *)
AboveWith(m, c, r) == totals[m] + options[m].deltas[c] > totals[r]

Shortlisted(m) == {c \in Candidates(m) :
  Cardinality({o \in Candidates(m) : Ahead(o, c, Gameweeks[decision])}) < Shortlist}

(* The first of the highest, in the order of projection.                     *)
Advice(m, r) ==
  LET others == Shortlisted(m) \ {options[m].captain}
      behind(c, o) == \/ AboveWith(m, o, r) /\ ~AboveWith(m, c, r)
                      \/ AboveWith(m, o, r) = AboveWith(m, c, r) /\ Ahead(o, c, Gameweeks[decision])
      best == CHOOSE c \in others : \A o \in others \ {c} : ~behind(c, o)
      helps == AboveWith(m, best, r) /\ ~Above(m, r)
  IN IF others = {} \/ (options[m].captain # None /\ ~helps) THEN None ELSE best

(* Every question about a captaincy is answered from the table as a season   *)
(* played with that captain would, for every manager and whatever lineup is  *)
(* locked; so the advice it gives makes the difference it claims, and when   *)
(* it says to keep the captain no shortlisted one is better ("it has to      *)
(* agree with a real scenario run", tests/unit/test_engine.py).              *)
CaptaincyAnswersHold ==
  done => \A m \in Managers :
    /\ \A c \in Candidates(m) : totals[m] + options[m].deltas[c] = moved[m][c]
    /\ \A r \in Managers \ {m} :
         LET better == {c \in Shortlisted(m) : moved[m][c] > totals[r] /\ totals[m] <= totals[r]}
         IN IF better # {} THEN Advice(m, r) \in better
            ELSE options[m].captain # None => Advice(m, r) = None

(* A season in which nothing is done is the user's own row of the board, and *)
(* a captain move that can still be made gives the season of that captain:   *)
(* otherwise a difference between scenarios is not the move's ("every delta  *)
(* would be measured against the wrong thing", _scenario_weights).           *)
ScenariosMeasureTheMove ==
  done =>
    /\ scenarios[Baseline] = totals[User]
    /\ decision = 1 /\ locked[User] # None =>
         \A c \in Candidates(User) : Armband(locked[User]) = 2 =>
           scenarios[[kind |-> "captain", player |-> c]] = moved[User][c]
=============================================================================
