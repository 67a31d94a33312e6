------------------------------ MODULE MCBlocks ------------------------------
(***************************************************************************)
(* Blocks for TLC: small constants.  The letters of LogFile are few: 1, 2  *)
(* and 4, then comes the slash, 0.                                         *)
(***************************************************************************)
EXTENDS Blocks

CONSTANTS n1, n2,      \* timenodes
          t1, t2, t3,  \* threads
          c1, c2, c3,  \* coroutines, or channels
          x1, x2       \* items of the queue

TheNodes == {n1, n2}
TheCoThreads == {t1, t2}
TheCoroutines == {c1, c2, c3}
TheShared == {c1, c2}
TheFds == 0..2
TheThreads == {t1, t2, t3}
TheItems == {x1, x2}
TheTexts == {<<"a">>, <<"b", "\n">>}
TheNumbers == {-16, -1, 0, 10, 31}

\* Summer time ends after the second 2.
TheLocal == [t \in 1..3 |-> IF t < 3 THEN t ELSE t - 2]
=============================================================================
