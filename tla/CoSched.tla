------------------------------- MODULE CoSched -------------------------------
(***************************************************************************)
(* What a coservice promises to the coroutines given to it: a coroutine is *)
(* run by at most one thread at a time, a thread runs at most one          *)
(* coroutine, a parked coroutine runs again only after it was woken, a     *)
(* finished one never runs again and is deleted only then, and every       *)
(* runnable coroutine is eventually run.                                   *)
(***************************************************************************)
CONSTANTS Threads,   \* the threads inside coservice::run
          Items,     \* the coroutines that are ever created
          Listener,  \* the coroutine created before the threads start
          NoThread   \* "no thread runs it"

VARIABLES status,    \* what each coroutine is doing
          worker     \* the thread that runs it

vars == <<status, worker>>

Init ==
    /\ status = [i \in Items |-> IF i = Listener THEN "runnable" ELSE "absent"]
    /\ worker = [i \in Items |-> NoThread]

\* Only a running coroutine creates another one.
Spawn(i) ==
    /\ status[i] = "absent"
    /\ \E j \in Items : status[j] = "running"
    /\ status' = [status EXCEPT ![i] = "runnable"]
    /\ UNCHANGED worker

Dispatch(i) ==
    /\ status[i] = "runnable"
    /\ \E t \in Threads :
          /\ \A j \in Items : worker[j] # t
          /\ worker' = [worker EXCEPT ![i] = t]
    /\ status' = [status EXCEPT ![i] = "running"]

Leave(i, s) ==
    /\ status[i] = "running"
    /\ status' = [status EXCEPT ![i] = s]
    /\ worker' = [worker EXCEPT ![i] = NoThread]

Park(i)   == Leave(i, "parked")
Finish(i) == Leave(i, "finished")

\* Several coroutines are woken, or deleted, in one step.
Move(from, to) ==
    \E S \in SUBSET {i \in Items : status[i] = from} :
        /\ S # {}
        /\ status' = [i \in Items |-> IF i \in S THEN to ELSE status[i]]
        /\ UNCHANGED worker

Wake   == Move("parked", "runnable")
Delete == Move("finished", "deleted")

Next ==
    \/ \E i \in Items : Spawn(i) \/ Dispatch(i) \/ Park(i) \/ Finish(i)
    \/ Wake
    \/ Delete

Safety == Init /\ [][Next]_vars

Fairness == \A i \in Items : WF_vars(Dispatch(i))

Spec == Safety /\ Fairness
==============================================================================
