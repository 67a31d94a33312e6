---------------------------- MODULE MCTimerQueue ----------------------------
(* TimerQueue for TLC: few timers, addresses and moments. *)
EXTENDS TimerQueue, TLC

CONSTANTS m1, m2, m3, a1, a2

TwoTimers   == {m1, m2}
ThreeTimers == {m1, m2, m3}
TheAddrs    == {a1, a2}
OneAddr     == {a1}
Once        == {0}
OnceOrEvery == {0, 1}

TimerSymmetry == Permutations(Ids) \cup Permutations(Addrs)
=============================================================================
