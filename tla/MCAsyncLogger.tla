--------------------------- MODULE MCAsyncLogger ---------------------------
(* AsyncLogger for TLC: records of one and two bytes that fill a small ring. *)
EXTENDS AsyncLogger, TLC

CONSTANTS p1, p2, p3, r1, r2, r3, r4

TwoProducers   == {p1, p2}
ThreeProducers == {p1, p2, p3}
FourRecords    == {r1, r2, r3, r4}
ThreeRecords   == {r1, r2, r3}

Sizes == [r \in Records |-> IF r \in {r1, r2} THEN 2 ELSE 1]

ProducerSymmetry == Permutations(Producers)
=============================================================================
