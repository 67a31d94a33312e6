--------------------------- MODULE MCTcpConnection ---------------------------
(* TcpConnection for TLC: short messages and a short send buffer. *)
EXTENDS TcpConnection, TLC

CONSTANTS c1, c2, m1, m2, m3

OneCaller     == {c1}
TwoCallers    == {c1, c2}
TwoMessages   == {m1, m2}
ThreeMessages == {m1, m2, m3}

Sizes == [m \in Messages |-> IF m = m1 THEN 2 ELSE 1]
=============================================================================
