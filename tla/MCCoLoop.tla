------------------------------ MODULE MCCoLoop ------------------------------
(* CoLoop for TLC: two items, and a revents_ that has to grow twice. *)
EXTENDS CoLoop

CONSTANTS i1, i2

TheItems == {i1, i2}
=============================================================================
