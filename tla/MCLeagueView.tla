---------------------------- MODULE MCLeagueView ----------------------------
(* A small instance of LeagueView: manager a is known from another league,  *)
(* then leaves; manager c joins.                                            *)
EXTENDS LeagueView

CONSTANTS a, b, c

MCMembersAt == [t \in 1..MaxTable |-> IF t = 1 THEN {a, b} ELSE {b, c}]
=============================================================================
