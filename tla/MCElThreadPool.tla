--------------------------- MODULE MCElThreadPool ---------------------------
(* ElThreadPool for TLC: threads as model values. *)
EXTENDS ElThreadPool, TLC

CONSTANTS w1, w2, w3, w4

FourWorkers == {w1, w2, w3, w4}
TwoWorkers  == {w1, w2}

WorkerSymmetry == Permutations(Workers)
=============================================================================
