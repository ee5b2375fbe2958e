----------------------------- MODULE MCAccounts -----------------------------
(* Two accounts that claim one entry.                                       *)
EXTENDS Accounts, TLC

CONSTANTS u1, u2, r1, r2, p1, p2, p3

MCUsers    == {u1, u2}
MCRequests == {r1, r2}
MCPicks    == {p1, p2, p3}
MCSymmetry == Permutations(MCUsers) \cup Permutations(MCRequests) \cup Permutations(MCPicks)
=============================================================================
