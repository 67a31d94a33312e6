----------------------------- MODULE MCTcpServer -----------------------------
(* TcpServer for TLC: two descriptors, one place in the pool to begin with. *)
EXTENDS TcpServer

CONSTANTS f1, f2

TheFds == {f1, f2}
ThePlaces == 1..Init0 + 2 * Cardinality(Fds)
=============================================================================
