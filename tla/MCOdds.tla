-------------------------------- MODULE MCOdds --------------------------------
(* A user and one rival, two of three players each in a lineup, a gameweek   *)
(* that may be in play and one ahead: locked lineups with a captain, a       *)
(* triple captain, a bench boost and no captain at all.                      *)
EXTENDS Odds, TLC

MCGameweeks == <<1, 2>>
MCSquad   == (1 :> {1, 2, 3}) @@ (2 :> {2, 3, 4})
MCCurrent == (1 :> 10) @@ (2 :> 11)
MCLineups ==
  (1 :> {None, <<2, 1, 0, 0>>, <<0, 3, 1, 0>>, <<1, 2, 1, 0>>, <<1, 1, 0, 0>>})
    @@ (2 :> {None, <<0, 0, 1, 2>>})
MCPosition  == <<1, 2, 2, 1>>
MCClub      == <<1, 1, 2, 2>>
MCProjected == <<<<3, 1>>, <<2, 2>>, <<1, 3>>, <<2, 2>>>>
MCAbsence   == <<1, 0, 1, 0>>
MCKept      == (1 :> <<2, 1>>) @@ (2 :> <<1, 1>>)
=============================================================================
