-------------------------------- MODULE Thread --------------------------------
(***************************************************************************)
(* thread (pax/base/thread.cpp): an object, which one owner starts, joins, *)
(* detaches and destroys, and the thread that it starts, which uses the    *)
(* object until it has set started_.  started_ is volatile and not atomic: *)
(* the model assumes that a store to it is seen.                           *)
(***************************************************************************)
EXTENDS Naturals

VARIABLES
    object,    \* the object exists
    func,      \* threadFunc has not been moved away yet
    started,   \* started_
    joinable,  \* joinable_
    opc,       \* the owner: "idle", in "start", or in "join"
    rpc,       \* the thread: "none", "born", "moved", "run" or "ended"
    reaped     \* how often the thread was joined or detached

vars == <<object, func, started, joinable, opc, rpc, reaped>>

Init ==
    /\ object = TRUE /\ func = TRUE /\ started = FALSE /\ joinable = TRUE
    /\ opc = "idle" /\ rpc = "none" /\ reaped = 0

Idle == object /\ opc = "idle"

\* start, up to its loop
Start ==
    /\ Idle /\ ~started
    /\ rpc' = "born" /\ opc' = "start"
    /\ UNCHANGED <<object, func, started, joinable, reaped>>

\* Mutant of Seen: start does not wait.
SeenAlways == TRUE

\* started_ == 1
Seen == started

StartReturns ==
    /\ opc = "start" /\ Seen
    /\ opc' = "idle"
    /\ UNCHANGED <<object, func, started, joinable, rpc, reaped>>

\* std::move(temp->threadFunc)
Move ==
    /\ rpc = "born"
    /\ rpc' = "moved" /\ func' = FALSE
    /\ UNCHANGED <<object, started, joinable, opc, reaped>>

SetStarted ==
    /\ rpc = "moved"
    /\ rpc' = "run" /\ started' = TRUE
    /\ UNCHANGED <<object, func, joinable, opc, reaped>>

\* func() returns.
End ==
    /\ rpc = "run"
    /\ rpc' = "ended"
    /\ UNCHANGED <<object, func, started, joinable, opc, reaped>>

\* Without the thread, or for the second time, join and detach do nothing.
Detachable == started /\ joinable

Join ==
    /\ Idle /\ Detachable
    /\ joinable' = FALSE /\ opc' = "join"
    /\ UNCHANGED <<object, func, started, rpc, reaped>>

JoinReturns ==
    /\ opc = "join" /\ rpc = "ended"
    /\ opc' = "idle" /\ reaped' = reaped + 1
    /\ UNCHANGED <<object, func, started, joinable, rpc>>

Detach ==
    /\ Idle /\ Detachable
    /\ joinable' = FALSE /\ reaped' = reaped + 1
    /\ UNCHANGED <<object, func, started, opc, rpc>>

\* The destructor detaches.
Destroy ==
    /\ Idle
    /\ object' = FALSE /\ joinable' = FALSE
    /\ reaped' = IF Detachable THEN reaped + 1 ELSE reaped
    /\ UNCHANGED <<func, started, opc, rpc>>

Next ==
    \/ Start \/ StartReturns \/ Join \/ JoinReturns \/ Detach \/ Destroy
    \/ Move \/ SetStarted \/ End

Spec == Init /\ [][Next]_vars
-----------------------------------------------------------------------------
\* The new thread uses the object only while it exists, and the functor once; each thread
\* is joined or detached once by the time its object is destroyed, and never twice.
ThreadSafe ==
    /\ rpc \in {"born", "moved"} => object
    /\ rpc # "none" => (func <=> rpc = "born")
    /\ reaped <= 1
    /\ ~object => (reaped = 1 <=> rpc # "none")
==============================================================================
