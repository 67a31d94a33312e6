----------------------------- MODULE MCCoService -----------------------------
(* CoService for TLC: few threads and items as model values. *)
EXTENDS CoService

CONSTANTS t1, t2, t3, i1, i2

Threads2 == {t1, t2}
Threads3 == {t1, t2, t3}
Items1   == {i1}
Items2   == {i1, i2}
=============================================================================
