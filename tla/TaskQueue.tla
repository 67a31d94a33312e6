------------------------------ MODULE TaskQueue ------------------------------
(***************************************************************************)
(* What an eventloop promises about the functors handed to it: a queued    *)
(* functor is executed at most once and in the order of queueing.  Code    *)
(* that already runs in the loop's thread may also run a functor on the    *)
(* spot, ahead of the queued ones.                                         *)
(***************************************************************************)
EXTENDS Sequences

CONSTANT Tasks

VARIABLES pending,   \* the functors that were queued and not executed
          executed   \* the functors that were executed, in order

vars == <<pending, executed>>

Known(f) == \/ \E k \in DOMAIN pending : pending[k] = f
            \/ \E k \in DOMAIN executed : executed[k] = f

Init == pending = <<>> /\ executed = <<>>

Submit(f) ==
    /\ ~Known(f)
    /\ pending' = Append(pending, f)
    /\ UNCHANGED executed

RunNow(f) ==
    /\ ~Known(f)
    /\ executed' = Append(executed, f)
    /\ UNCHANGED pending

Execute ==
    /\ pending # <<>>
    /\ executed' = Append(executed, Head(pending))
    /\ pending' = Tail(pending)

Next == Execute \/ \E f \in Tasks : Submit(f) \/ RunNow(f)

Spec == Init /\ [][Next]_vars
==============================================================================
