----------------------------- MODULE MCJobQueue -----------------------------
(* Small instances of JobQueue: three rows of one key for the safety run,   *)
(* two workers, two overlapping producers.                                  *)
EXTENDS JobQueue, TLC

CONSTANTS j1, j2, j3, a, b, w1, w2, p1, p2

MCJobs  == {j1, j2, j3}
MCKeyOf == [j \in MCJobs |-> a]

MCWorkers   == {w1, w2}
MCProducers == {p1, p2}

(* The smaller instance of the liveness run: two rows of different keys,    *)
(* the second of a kind without a handler.                                  *)
MCTwoJobs  == {j1, j3}
MCTwoKeyOf == (j1 :> a) @@ (j3 :> b)

MCSymmetry == Permutations(MCJobs) \cup Permutations(MCWorkers) \cup Permutations(MCProducers)
=============================================================================
