------------------------------ MODULE BlockQueue ------------------------------
(***************************************************************************)
(* blockqueue (pax/base/blockqueue.h): a deque with a mutex and a          *)
(* condition variable.  put notifies one waiter; a taker looks again when  *)
(* it wakes up, but timedwait returns without taking anything.             *)
(***************************************************************************)
EXTENDS Naturals, Sequences, FiniteSets

CONSTANTS Threads,
          Items,   \* what is put
          MaxLen   \* bound of the queue

BlockQueueAssumption == MaxLen \in Nat

VARIABLES
    queue,   \* queue_
    pc,      \* of each thread: "idle", or in cond_: "asleep", "woken", "timed" in timedwait
    stolen   \* notifications that timedwait took while there were items (history variable)

vars == <<queue, pc, stolen>>

Init == queue = <<>> /\ pc = [t \in Threads |-> "idle"] /\ stolen = 0

\* Mutant of Waiting: nobody is notified by a put into a queue that is not empty.
WaitingWhenEmpty == IF queue = <<>> THEN {t \in Threads : pc[t] \in {"asleep", "timed"}} ELSE {}

\* Who a notification can wake.
Waiting == {t \in Threads : pc[t] \in {"asleep", "timed"}}

\* put_front, put_back; tryput_front and tryput_back when nobody has the lock.
Put(t, x) ==
    /\ pc[t] = "idle" /\ Len(queue) < MaxLen
    /\ queue' \in {<<x>> \o queue, Append(queue, x)}
    /\ IF Waiting = {} THEN UNCHANGED <<pc, stolen>>
       ELSE \E w \in Waiting :
            /\ pc' = [pc EXCEPT ![w] = IF @ = "timed" THEN "idle" ELSE "woken"]
            /\ stolen' = IF pc[w] = "timed" THEN stolen + 1 ELSE stolen

\* take_front and take_back, when called or woken up.
Take(t) ==
    /\ pc[t] \in {"idle", "woken"}
    /\ IF queue = <<>>
       THEN pc' = [pc EXCEPT ![t] = "asleep"] /\ UNCHANGED <<queue, stolen>>
       ELSE /\ queue' \in {Tail(queue), SubSeq(queue, 1, Len(queue) - 1)}
            /\ pc' = [pc EXCEPT ![t] = "idle"]
            /\ stolen' = IF queue' = <<>> THEN 0 ELSE stolen

\* A spurious wakeup.
Wake(t) ==
    /\ pc[t] = "asleep"
    /\ pc' = [pc EXCEPT ![t] = "woken"]
    /\ UNCHANGED <<queue, stolen>>

\* timedwait waits only if there is nothing.
TimedWait(t) ==
    /\ pc[t] = "idle" /\ queue = <<>>
    /\ pc' = [pc EXCEPT ![t] = "timed"]
    /\ UNCHANGED <<queue, stolen>>

TimedWaitReturns(t) ==
    /\ pc[t] = "timed"
    /\ pc' = [pc EXCEPT ![t] = "idle"]
    /\ UNCHANGED <<queue, stolen>>

Next ==
    \E t \in Threads :
        Take(t) \/ Wake(t) \/ TimedWait(t) \/ TimedWaitReturns(t) \/ \E x \in Items : Put(t, x)

Spec == Init /\ [][Next]_vars
-----------------------------------------------------------------------------
\* A taker sleeps beside items only if as many takers are on their way to them, or if
\* timedwait took the notification.
ItemsAwaited ==
    (\E t \in Threads : pc[t] = "asleep")
        => Len(queue) <= Cardinality({t \in Threads : pc[t] = "woken"}) + stolen
==============================================================================
