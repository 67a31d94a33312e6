----------------------------- MODULE MCEventLoop -----------------------------
(* EventLoop for TLC: few callers, functors and channels as model values. *)
EXTENDS EventLoop, TLC

CONSTANTS c1, c2, f1, f2, f3, ch1

TheCallers  == {c1, c2}
TheTasks    == {f1, f2, f3}
TwoTasks    == {f1, f2}
TheChannels == {ch1}

TaskSymmetry == Permutations(Tasks) \cup Permutations(Callers)
=============================================================================
