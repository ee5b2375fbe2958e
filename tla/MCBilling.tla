----------------------------- MODULE MCBilling -----------------------------
(* A small instance of Billing: two-day periods, a day of grace, a pass that *)
(* ends on day three, and two webhook requests served at once.               *)
EXTENDS Billing, TLC

CONSTANTS s1, s2, r1, r2

MCRequests == {r1, r2}
MCSymmetry == Permutations(MCRequests)
=============================================================================
