------------------------------ MODULE MCWriter ------------------------------
(* A small instance of Writer: two requests at a time.                       *)
EXTENDS Writer, TLC

CONSTANTS r1, r2

MCRequests == {r1, r2}
MCRateLimit == [brief |-> 3, rewrite |-> 3, ask |-> 2, simulate |-> 4]
MCAllowance == [brief_regen |-> 1, sim_scenario |-> 2, gaffer_day |-> 2, gaffer_month |-> 1]
MCSymmetry == Permutations(MCRequests)
=============================================================================
