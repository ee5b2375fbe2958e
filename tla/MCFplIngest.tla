----------------------------- MODULE MCFplIngest -----------------------------
(* Documents that grow by one item, and a league that overtakes, grows past *)
(* the cap and loses a member.                                              *)
EXTENDS FplIngest, TLC

CONSTANTS a, b, c, i1, i2, r1, r2

MCReaders == {r1, r2}
MCContent == [bootstrap |-> <<{i1}, {i1, i2}>>, fixtures |-> <<{i1}>>,
              notes |-> <<{}>>, live |-> <<{i1}, {i1, i2}>>]
MCStandings == <<<<a, b>>, <<b, a>>, <<b, a, c>>, <<a, c>>>>
MCSymmetry == Permutations(MCReaders)
=============================================================================
