------------------------------ MODULE CoService ------------------------------
(***************************************************************************)
(* The coroutine scheduler of pax/coroutine/coservice.{h,cpp}.  Any number *)
(* of threads execute coservice::run.  They share one task queue that      *)
(* holds runnable coroutines and exactly one null pointer, the token: the  *)
(* thread that pops the token is the reactor until it pushes it back.      *)
(*                                                                         *)
(* One action is one lock section or one step between two accesses to      *)
(* shared state.  The timing wheel is the set of the coroutines whose      *)
(* timenode is linked; time is abstract, an entry may expire at any        *)
(* collection.  epoll is level triggered: ready holds the registered       *)
(* descriptors that epoll_wait would report.                               *)
(***************************************************************************)
EXTENDS Integers, Sequences, FiniteSets, SeqSets

CONSTANTS Threads,   \* threads that execute run()
          Items,     \* coservice_item objects that are ever created
          Listener,  \* the item created by main before the threads start
          Nullptr,   \* the null pointer: the token, or "no item"
          Capacity   \* initial size of revents_ (128 in the code)

ASSUME ThreadsAssumption == Threads # {} /\ Nullptr \notin Threads
ASSUME ItemsAssumption ==
    IsFiniteSet(Items) /\ Listener \in Items /\ Nullptr \notin Items
ASSUME CapacityAssumption == Capacity \in Nat \ {0}

VARIABLES
    pc,         \* where each thread is
    cst,        \* run's local variable: the item the thread holds
    making,     \* the item a thread is constructing, inside its coroutine
    taskQueue,  \* task_queue_, under task_mutex_
    itemCount,  \* item_count_
    handling,   \* handling_ of each item
    state,      \* costate of each item, "none" before and "freed" after its life
    epoll,      \* items whose descriptor is registered with epfd_
    ready,      \* registered items whose descriptor has an event pending
    wheel,      \* items whose timenode is linked in timewheel_, under time_mutex_
    timed,      \* items that set a timeout in their last yield (history variable)
    capacity,   \* revents_.size()
    revents,    \* events of the current epoll_wait that are not filtered yet
    timenodes,  \* expired entries of the current round that are not filtered yet
    batch,      \* the items of revents_ and timenodes_ that survived the filter
    doneItems   \* done_items_, under done_mutex_

runVars     == <<pc, cst>>
queueVars   == <<taskQueue, itemCount>>
itemVars    == <<handling, state, making>>
eventVars   == <<epoll, ready, capacity>>
timeVars    == <<wheel, timed>>
reactorVars == <<revents, timenodes, batch>>

vars == <<runVars, queueVars, itemVars, eventVars, timeVars, reactorVars, doneItems>>

\* pc labels of a thread that is inside doReactor, and those that hold time_mutex_.
TimeSection    == {"epollWait", "filterEvents", "collect", "filterTimeouts"}
ReactorSection == TimeSection \cup {"lockTime", "push", "reap", "token"}
\* pc labels of a thread whose coroutine has the processor.
Inside         == {"running", "enqueue", "setTimeout", "yield"}
Labels         == ReactorSection \cup Inside \cup
                    {"loop", "fetch", "waiting", "resume", "resumed", "bury", "returned"}
-----------------------------------------------------------------------------
\* coservice::coservice pushed the token and main created the listener.
Init ==
    /\ pc = [t \in Threads |-> "loop"]
    /\ cst = [t \in Threads |-> Nullptr]
    /\ making = [t \in Threads |-> Nullptr]
    /\ taskQueue = <<Nullptr, Listener>>
    /\ itemCount = 1
    /\ handling = [i \in Items |-> i = Listener]
    /\ state = [i \in Items |-> IF i = Listener THEN "FREE" ELSE "none"]
    /\ epoll = {Listener}
    /\ ready = {}
    /\ wheel = {}
    /\ timed = {}
    /\ capacity = Capacity
    /\ revents = {}
    /\ timenodes = {}
    /\ batch = <<>>
    /\ doneItems = {}

Goto(t, label) == pc' = [pc EXCEPT ![t] = label]
-----------------------------------------------------------------------------
(***************************************************************************)
(* The loop of run().                                                      *)
(***************************************************************************)
\* while (item_count_)
Loop(t) ==
    /\ pc[t] = "loop"
    /\ Goto(t, IF itemCount = 0 THEN "returned" ELSE "fetch")
    /\ UNCHANGED <<cst, queueVars, itemVars, eventVars, timeVars, reactorVars, doneItems>>

\* task_cond_.wait: the item count was read before, outside of the lock.
Sleep(t) ==
    /\ pc[t] = "fetch"
    /\ taskQueue = <<>>
    /\ Goto(t, "waiting")
    /\ UNCHANGED <<cst, queueVars, itemVars, eventVars, timeVars, reactorVars, doneItems>>

\* A condition variable may also wake a thread on its own.
SpuriousWakeup(t) ==
    /\ pc[t] = "waiting"
    /\ Goto(t, "loop")
    /\ UNCHANGED <<cst, queueVars, itemVars, eventVars, timeVars, reactorVars, doneItems>>

Fetch(t) ==
    /\ pc[t] = "fetch"
    /\ taskQueue # <<>>
    /\ taskQueue' = Tail(taskQueue)
    /\ cst' = [cst EXCEPT ![t] = Head(taskQueue)]
    /\ Goto(t, IF Head(taskQueue) = Nullptr THEN "lockTime" ELSE "resume")
    /\ UNCHANGED <<itemCount, itemVars, eventVars, timeVars, reactorVars, doneItems>>

\* resume() throws unless the coroutine is FREE or SUSPEND.
Resumable(i) == state[i] \in {"FREE", "SUSPEND"}

Resume(t) ==
    /\ pc[t] = "resume"
    /\ Resumable(cst[t])
    /\ state' = [state EXCEPT ![cst[t]] = "RUNNING"]
    /\ timed' = timed \ {cst[t]}
    /\ Goto(t, "running")
    /\ UNCHANGED <<cst, making, handling, queueVars, eventVars, wheel, reactorVars, doneItems>>

\* resume() came back and the coroutine is not DONE.
Release(t) ==
    /\ pc[t] = "resumed"
    /\ state[cst[t]] # "DONE"
    /\ handling' = [handling EXCEPT ![cst[t]] = FALSE]
    /\ cst' = [cst EXCEPT ![t] = Nullptr]
    /\ Goto(t, "loop")
    /\ UNCHANGED <<state, making, queueVars, eventVars, timeVars, reactorVars, doneItems>>

\* remove(cst): EPOLL_CTL_DEL, --item_count_.
Remove(t) ==
    /\ pc[t] = "resumed"
    /\ state[cst[t]] = "DONE"
    /\ epoll' = epoll \ {cst[t]}
    /\ ready' = ready \ {cst[t]}
    /\ itemCount' = itemCount - 1
    /\ Goto(t, "bury")
    /\ UNCHANGED <<cst, taskQueue, itemVars, capacity, timeVars, reactorVars, doneItems>>

\* Mutant of Bury: the thread that finished the coroutine deletes it at once.
BuryDeletes(t) ==
    /\ pc[t] = "bury"
    /\ state' = [state EXCEPT ![cst[t]] = "freed"]
    /\ cst' = [cst EXCEPT ![t] = Nullptr]
    /\ Goto(t, "loop")
    /\ UNCHANGED <<making, handling, queueVars, eventVars, timeVars, reactorVars, doneItems>>

\* done_items_.push_back: the reactor deletes it later.
Bury(t) ==
    /\ pc[t] = "bury"
    /\ doneItems' = doneItems \cup {cst[t]}
    /\ cst' = [cst EXCEPT ![t] = Nullptr]
    /\ Goto(t, "loop")
    /\ UNCHANGED <<queueVars, itemVars, eventVars, timeVars, reactorVars>>
-----------------------------------------------------------------------------
(***************************************************************************)
(* What a coroutine does while it has the processor.                       *)
(***************************************************************************)
\* It reads or writes its descriptor until nothing is pending.
Consume(t) ==
    /\ pc[t] = "running"
    /\ cst[t] \in ready
    /\ ready' = ready \ {cst[t]}
    /\ UNCHANGED <<runVars, queueVars, itemVars, epoll, capacity, timeVars, reactorVars, doneItems>>

\* updateEvents: waiting for other events may make the descriptor ready or not.
Modify(t) ==
    /\ pc[t] = "running"
    /\ ready' \in {ready \cup {cst[t]}, ready \ {cst[t]}}
    /\ UNCHANGED <<runVars, queueVars, itemVars, epoll, capacity, timeVars, reactorVars, doneItems>>

\* Mutant of Counted: add() does not count the item.
CountedNever == itemCount

\* ++item_count_
Counted == itemCount + 1

\* add(): EPOLL_CTL_ADD and ++item_count_, before the item is queued.
Register(t, i) ==
    /\ pc[t] = "running"
    /\ state[i] = "none"
    /\ state' = [state EXCEPT ![i] = "FREE"]
    /\ handling' = [handling EXCEPT ![i] = TRUE]
    /\ making' = [making EXCEPT ![t] = i]
    /\ epoll' = epoll \cup {i}
    /\ itemCount' = Counted
    /\ Goto(t, "enqueue")
    /\ UNCHANGED <<cst, taskQueue, ready, capacity, timeVars, reactorVars, doneItems>>

\* Mutant of Enqueue: add() does not queue the item.
EnqueueForgotten(t) ==
    /\ pc[t] = "enqueue"
    /\ making' = [making EXCEPT ![t] = Nullptr]
    /\ Goto(t, "running")
    /\ UNCHANGED <<cst, queueVars, handling, state, eventVars, timeVars, reactorVars, doneItems>>

\* add(): the push under task_mutex_.
Enqueue(t) ==
    /\ pc[t] = "enqueue"
    /\ taskQueue' = Append(taskQueue, making[t])
    /\ making' = [making EXCEPT ![t] = Nullptr]
    /\ Goto(t, "running")
    /\ UNCHANGED <<cst, itemCount, handling, state, eventVars, timeVars, reactorVars, doneItems>>

\* yield(ms), ms >= 0: the timeout has to be set first.
AskTimeout(t) ==
    /\ pc[t] = "running"
    /\ Goto(t, "setTimeout")
    /\ UNCHANGED <<cst, queueVars, itemVars, eventVars, timeVars, reactorVars, doneItems>>

\* Mutant of TimeMutexFree: the reactor takes time_mutex_ around getTimeouts only.
TimeMutexLate == \A t \in Threads : pc[t] \notin {"collect", "filterTimeouts"}

\* The only holder that keeps time_mutex_ over several steps is the reactor.
TimeMutexFree == \A t \in Threads : pc[t] \notin TimeSection

\* setTimeout: addTimenode under time_mutex_.
SetTimeout(t) ==
    /\ pc[t] = "setTimeout"
    /\ TimeMutexFree
    /\ wheel' = wheel \cup {cst[t]}
    /\ timed' = timed \cup {cst[t]}
    /\ Goto(t, "yield")
    /\ UNCHANGED <<cst, queueVars, itemVars, eventVars, reactorVars, doneItems>>

\* yield(ms), ms < 0.
WaitForever(t) ==
    /\ pc[t] = "running"
    /\ Goto(t, "yield")
    /\ UNCHANGED <<cst, queueVars, itemVars, eventVars, timeVars, reactorVars, doneItems>>

\* coroutine::yield switches back to run().
Yield(t) ==
    /\ pc[t] = "yield"
    /\ state' = [state EXCEPT ![cst[t]] = "SUSPEND"]
    /\ Goto(t, "resumed")
    /\ UNCHANGED <<cst, making, handling, queueVars, eventVars, timeVars, reactorVars, doneItems>>

\* The function of the coroutine returned.
Finish(t) ==
    /\ pc[t] = "running"
    /\ state' = [state EXCEPT ![cst[t]] = "DONE"]
    /\ Goto(t, "resumed")
    /\ UNCHANGED <<cst, making, handling, queueVars, eventVars, timeVars, reactorVars, doneItems>>
-----------------------------------------------------------------------------
(***************************************************************************)
(* doReactor, executed by the thread that holds the token.                 *)
(***************************************************************************)
\* doReactor takes time_mutex_.
LockTime(t) ==
    /\ pc[t] = "lockTime"
    /\ TimeMutexFree
    /\ Goto(t, "epollWait")
    /\ UNCHANGED <<cst, queueVars, itemVars, eventVars, timeVars, reactorVars, doneItems>>

\* Mutant of StillReady: edge triggered mode, an event is reported once.
StillReadyEdge(S) == ready \ S

\* Level triggered mode: a reported event is reported again until it is handled.
StillReady(S) == ready

\* epoll_wait reports at most revents_.size() events; a full array is doubled at
\* the end of the round, before anybody else can look at it.
EpollWait(t) ==
    /\ pc[t] = "epollWait"
    /\ \E S \in SUBSET ready :
          /\ Cardinality(S) = IF Cardinality(ready) < capacity THEN Cardinality(ready)
                                                               ELSE capacity
          /\ revents' = S
          /\ ready' = StillReady(S)
          /\ capacity' = IF Cardinality(S) = capacity THEN 2 * capacity ELSE capacity
    /\ Goto(t, "filterEvents")
    /\ UNCHANGED <<cst, queueVars, itemVars, epoll, timeVars, timenodes, batch, doneItems>>

\* Mutant of Busy: the reactor does not look at handling_.
BusyIgnored(i) == FALSE

\* *cst->handling_ == true
Busy(i) == handling[i]

\* Mutant of Unlink: an event does not cancel the timeout of its item.
UnlinkForgotten(i) == wheel

\* if (cst->timenode_.isInlink()) removeTimenode
Unlink(i) == wheel \ {i}

\* The body of the loop over revents_: the timeout of the item is cancelled, and
\* its event is dropped if the item is being handled.
FilterEvent(t, i) ==
    /\ pc[t] = "filterEvents"
    /\ i \in revents
    /\ revents' = revents \ {i}
    /\ wheel' = Unlink(i)
    /\ batch' = IF Busy(i) THEN batch ELSE Append(batch, i)
    /\ UNCHANGED <<runVars, queueVars, itemVars, eventVars, timed, timenodes, doneItems>>

EventsFiltered(t) ==
    /\ pc[t] = "filterEvents"
    /\ revents = {}
    /\ Goto(t, "collect")
    /\ UNCHANGED <<cst, queueVars, itemVars, eventVars, timeVars, reactorVars, doneItems>>

\* getTimeouts takes the entries that expired off the wheel.
CollectTimeouts(t, expired) ==
    /\ pc[t] = "collect"
    /\ expired \subseteq wheel
    /\ timenodes' = expired
    /\ wheel' = wheel \ expired
    /\ Goto(t, "filterTimeouts")
    /\ UNCHANGED <<cst, queueVars, itemVars, eventVars, timed, revents, batch, doneItems>>

\* Mutant of Relink: the timeout of an item that has not parked yet is dropped.
RelinkForgotten(i) == wheel

\* addTimenode(1, ...)
Relink(i) == wheel \cup {i}

\* The body of the loop over timenodes_: the timeout of an item that is still
\* being handled fires again one millisecond later.
FilterTimeout(t, i) ==
    /\ pc[t] = "filterTimeouts"
    /\ i \in timenodes
    /\ timenodes' = timenodes \ {i}
    /\ IF Busy(i) THEN wheel' = Relink(i) /\ UNCHANGED batch
                  ELSE batch' = Append(batch, i) /\ UNCHANGED wheel
    /\ UNCHANGED <<runVars, queueVars, itemVars, eventVars, timed, revents, doneItems>>

\* The end of the first block releases time_mutex_.
UnlockTime(t) ==
    /\ pc[t] = "filterTimeouts"
    /\ timenodes = {}
    /\ Goto(t, "push")
    /\ UNCHANGED <<cst, queueVars, itemVars, eventVars, timeVars, reactorVars, doneItems>>

\* Mutant of Woken: the reactor notifies nobody.
WokenNever(s) == FALSE

\* notifyAll
Woken(s) == pc[s] = "waiting"

\* The second block: under task_mutex_ the batch is marked and queued, and all
\* sleeping threads are notified.
PushBatch(t) ==
    /\ pc[t] = "push"
    /\ handling' = [i \in Items |-> handling[i] \/ i \in SetOf(batch)]
    /\ taskQueue' = taskQueue \o batch
    /\ batch' = <<>>
    /\ pc' = [s \in Threads |-> IF s = t THEN "reap"
                                ELSE IF Woken(s) THEN "loop" ELSE pc[s]]
    /\ UNCHANGED <<cst, itemCount, state, making,
                   eventVars, timeVars, revents, timenodes, doneItems>>

\* The third block: under done_mutex_ the finished items are deleted.
Reap(t) ==
    /\ pc[t] = "reap"
    /\ state' = [i \in Items |-> IF i \in doneItems THEN "freed" ELSE state[i]]
    /\ doneItems' = {}
    /\ Goto(t, "token")
    /\ UNCHANGED <<cst, making, handling, queueVars, eventVars, timeVars, reactorVars>>

\* Mutant of PushToken: the reactor does not give the token back.
PushTokenForgotten(t) ==
    /\ pc[t] = "token"
    /\ Goto(t, "loop")
    /\ UNCHANGED <<cst, queueVars, itemVars, eventVars, timeVars, reactorVars, doneItems>>

\* task_queue_.push(nullptr): nobody is notified.
PushToken(t) ==
    /\ pc[t] = "token"
    /\ taskQueue' = Append(taskQueue, Nullptr)
    /\ Goto(t, "loop")
    /\ UNCHANGED <<cst, itemCount, itemVars, eventVars, timeVars, reactorVars, doneItems>>
-----------------------------------------------------------------------------
\* ~coservice, after every thread came back from run.
Destroy ==
    /\ \A t \in Threads : pc[t] = "returned"
    /\ doneItems # {}
    /\ state' = [i \in Items |-> IF i \in doneItems THEN "freed" ELSE state[i]]
    /\ doneItems' = {}
    /\ UNCHANGED <<runVars, making, handling, queueVars, eventVars, timeVars, reactorVars>>

\* The peer, or the kernel, makes a registered descriptor ready.
FdReady(i) ==
    /\ i \in epoll \ ready
    /\ ready' = ready \cup {i}
    /\ UNCHANGED <<runVars, queueVars, itemVars, epoll, capacity, timeVars, reactorVars, doneItems>>

Run(t) == Loop(t) \/ Sleep(t) \/ Fetch(t) \/ Resume(t) \/ Release(t) \/ Remove(t) \/ Bury(t)

Leave(t) == AskTimeout(t) \/ WaitForever(t) \/ Finish(t)

Coroutine(t) ==
    \/ Consume(t) \/ Modify(t)
    \/ \E i \in Items : Register(t, i)
    \/ Enqueue(t) \/ SetTimeout(t) \/ Yield(t)
    \/ Leave(t)

Reactor(t) ==
    \/ LockTime(t) \/ EpollWait(t)
    \/ \E i \in Items : FilterEvent(t, i) \/ FilterTimeout(t, i)
    \/ EventsFiltered(t)
    \/ \E expired \in SUBSET wheel : CollectTimeouts(t, expired)
    \/ UnlockTime(t) \/ PushBatch(t) \/ Reap(t) \/ PushToken(t)

Next ==
    \/ \E t \in Threads : Run(t) \/ SpuriousWakeup(t) \/ Coroutine(t) \/ Reactor(t)
    \/ \E i \in Items : FdReady(i)
    \/ Destroy

Spec == Init /\ [][Next]_vars

(***************************************************************************)
(* Threads are scheduled, a coroutine gives the processor back (scheduling *)
(* is cooperative), a thread that asks for time_mutex_ again and again     *)
(* gets it, and time passes: an entry that stays on the wheel expires.     *)
(***************************************************************************)
Expire(i) == \E t \in Threads, expired \in SUBSET wheel :
                i \in expired /\ CollectTimeouts(t, expired)

Fairness ==
    /\ \A t \in Threads : /\ WF_vars(Run(t))
                          /\ WF_vars(Leave(t))
                          /\ WF_vars(Enqueue(t) \/ Yield(t))
                          /\ SF_vars(SetTimeout(t))
                          /\ WF_vars(Reactor(t))
    /\ \A i \in Items : SF_vars(Expire(i))

FairSpec == Spec /\ Fairness
-----------------------------------------------------------------------------
(***************************************************************************)
(* Properties.                                                             *)
(***************************************************************************)
\* Every variable has its type.
TypeOK ==
    /\ pc \in [Threads -> Labels]
    /\ cst \in [Threads -> Items \cup {Nullptr}]
    /\ making \in [Threads -> Items \cup {Nullptr}]
    /\ taskQueue \in Seq(Items \cup {Nullptr})
    /\ itemCount \in Nat
    /\ handling \in [Items -> BOOLEAN]
    /\ state \in [Items -> {"none", "FREE", "RUNNING", "SUSPEND", "DONE", "freed"}]
    /\ epoll \subseteq Items
    /\ ready \subseteq epoll
    /\ wheel \subseteq Items
    /\ timed \subseteq Items
    /\ capacity \in Nat \ {0}
    /\ revents \subseteq Items
    /\ timenodes \subseteq Items
    /\ batch \in Seq(Items)
    /\ doneItems \subseteq Items

\* The token is never lost and never duplicated: at any time exactly one thread
\* is the reactor, or exactly one position of the queue is null
\* (coservice.cpp 211 "only one cst is nullptr").
IsReactor(t) == pc[t] \in ReactorSection

OneToken ==
    /\ \A t, u \in Threads : IsReactor(t) /\ IsReactor(u) => t = u
    /\ (\E t \in Threads : IsReactor(t)) <=> (Nullptr \notin SetOf(taskQueue))

\* No coroutine is resumed by two threads (coservice.cpp 148): it is at most once
\* in the queue or with one thread, and whoever is about to resume it finds it in
\* a state in which resume() does not throw.
NoDoubleResume ==
    /\ NoRepeat(taskQueue)
    /\ \A t, u \in Threads : cst[t] = cst[u] /\ cst[t] # Nullptr => t = u
    /\ \A t \in Threads : cst[t] # Nullptr => cst[t] \notin SetOf(taskQueue)
    /\ \A t \in Threads : pc[t] = "resume" => Resumable(cst[t])

\* An item the reactor deleted is referenced by nobody: not by the queue, a thread,
\* epoll, the timing wheel, or the reactor's own arrays, which were filled before
\* the item finished.
NoUseAfterFree ==
    \A i \in Items : state[i] = "freed" =>
        /\ i \notin SetOf(taskQueue) \cup SetOf(batch)
        /\ i \notin epoll \cup wheel \cup revents \cup timenodes
        /\ \A t \in Threads : cst[t] # i /\ making[t] # i

\* addTimenode's assertion: a timenode that is about to be linked is not linked.
TimenodeIsFree ==
    /\ \A t \in Threads : pc[t] = "setTimeout" => cst[t] \notin wheel \cup timenodes
    /\ wheel \cap timenodes = {}

\* A coroutine that yielded with a timeout is never left without a wakeup: its
\* timenode is on the wheel or in the reactor's hands, its event is pending, or it
\* is on its way through the batch and the queue to a thread (coservice.cpp 149).
TimedWaitCovered ==
    \A i \in timed : state[i] = "SUSPEND" =>
        \/ i \in wheel \cup timenodes \cup ready
        \/ i \in SetOf(batch) \cup SetOf(taskQueue)
        \/ \E t \in Threads : cst[t] = i /\ pc[t] = "resume"

\* While there are items, some thread is awake, although add() and the push of the
\* token notify nobody.
NotAllAsleep == itemCount > 0 => \E t \in Threads : pc[t] \notin {"waiting", "returned"}

\* run() returns only when no coroutine is alive, and once every thread is back the
\* destructor finds what its assertion claims and every finished item to delete.
CleanShutdown ==
    /\ \A t \in Threads : pc[t] = "returned" =>
          \A i \in Items : state[i] \in {"none", "DONE", "freed"}
    /\ (\A t \in Threads : pc[t] = "returned") =>
          /\ itemCount = 0 /\ epoll = {} /\ wheel = {}
          /\ doneItems = {i \in Items : state[i] = "DONE"}

\* The token protocol: with one reactor at any time, somebody is awake to go on.
TokenSafe == TypeOK /\ OneToken /\ NotAllAsleep

\* The life of an item: it is resumed by one thread at a time, deleted when nobody refers
\* to it any more, its timenode is linked once, and nothing is left behind at the end.
ItemSafe == NoDoubleResume /\ NoUseAfterFree /\ TimenodeIsFree /\ CleanShutdown

\* A coroutine parked with a timeout runs again, whatever its descriptor does.
TimedWaitEnds ==
    \A i \in Items : (i \in timed /\ state[i] = "SUSPEND") ~> (state[i] = "RUNNING")


\* Once every coroutine finished, every thread returns from run.
ShutdownReturns ==
    \A t \in Threads : (itemCount = 0) ~> (pc[t] = "returned")

\* The abstract scheduler that coservice implements.
NoThread == Nullptr

WorkerOf(i) ==
    IF \E t \in Threads : cst[t] = i /\ pc[t] \in Inside \cup {"resumed"}
    THEN CHOOSE t \in Threads : cst[t] = i /\ pc[t] \in Inside \cup {"resumed"}
    ELSE NoThread

\* An item that is not queued yet does not exist for anybody else.
Absent(i) == state[i] = "none" \/ \E t \in Threads : making[t] = i

StatusOf(i) ==
    IF WorkerOf(i) # NoThread THEN "running"
    ELSE IF Absent(i) THEN "absent"
    ELSE IF state[i] = "freed" THEN "deleted"
    ELSE IF state[i] = "DONE" THEN "finished"
    ELSE IF handling[i] THEN "runnable" ELSE "parked"

Sched == INSTANCE CoSched WITH status <- [i \in Items |-> StatusOf(i)],
                               worker <- [i \in Items |-> WorkerOf(i)]

\* Every step of coservice is a step of the abstract scheduler or leaves it alone: a
\* coroutine is run by one thread at a time, it runs again only after it was woken, and
\* it is deleted only when it finished.
SchedSafety == Sched!Safety

\* A parked coroutine whose descriptor has an event runs, even when its event was
\* dropped because handling_ was still set, and so does every runnable coroutine.
EventHandled ==
    /\ \A i \in Items : (i \in ready /\ state[i] = "SUSPEND") ~> (state[i] = "RUNNING")
    /\ Sched!Fairness
-----------------------------------------------------------------------------
(***************************************************************************)
(* The inductive invariant.                                                *)
(***************************************************************************)
Holding == Inside \cup {"resume", "resumed", "bury"}

\* Which threads have an item in their hands.
Hands ==
    /\ \A t \in Threads : pc[t] \in Holding <=> cst[t] # Nullptr
    /\ \A t \in Threads : pc[t] = "enqueue" <=> making[t] # Nullptr

\* The arrays of the reactor are empty outside of the part that uses them.
Arrays ==
    /\ revents # {} => \E t \in Threads : pc[t] = "filterEvents"
    /\ timenodes # {} => \E t \in Threads : pc[t] = "filterTimeouts"
    /\ batch # <<>> =>
          \E t \in Threads : pc[t] \in {"filterEvents", "collect", "filterTimeouts", "push"}

\* An item is in one place of the queue and the threads' hands.
Exclusive ==
    /\ NoRepeat(taskQueue)
    /\ \A t, u \in Threads : cst[t] = cst[u] /\ cst[t] # Nullptr => t = u
    /\ \A t \in Threads : cst[t] # Nullptr => cst[t] \notin SetOf(taskQueue)
    /\ \A t, u \in Threads : making[t] = making[u] /\ making[t] # Nullptr => t = u
    /\ \A t \in Threads : making[t] # Nullptr =>
          making[t] \notin SetOf(taskQueue) /\ \A u \in Threads : making[t] # cst[u]

\* What handling_ and the state of an item are, by the place where it is.
Places ==
    /\ \A i \in SetOf(taskQueue) : i # Nullptr => handling[i] /\ Resumable(i)
    /\ \A t \in Threads : cst[t] # Nullptr => handling[cst[t]]
    /\ \A t \in Threads : making[t] # Nullptr => handling[making[t]] /\ state[making[t]] = "FREE"
    /\ \A t \in Threads :
          /\ pc[t] = "resume"  => Resumable(cst[t])
          /\ pc[t] \in Inside  => state[cst[t]] = "RUNNING"
          /\ pc[t] = "resumed" => state[cst[t]] \in {"SUSPEND", "DONE"}
          /\ pc[t] = "bury"    => state[cst[t]] = "DONE"
    /\ \A i \in SetOf(batch) : ~handling[i] /\ state[i] = "SUSPEND"
    /\ \A i \in Items : state[i] \in {"FREE", "RUNNING", "DONE"} => handling[i]

\* No item is at two places of the reactor's arrays and the timing wheel.
Apart ==
    /\ NoRepeat(batch)
    /\ (revents \cup wheel \cup timenodes) \cap SetOf(batch) = {}
    /\ wheel \cap timenodes = {}

\* The owner of a linked timenode is parked or about to park.
Parking(i) == \E t \in Threads : cst[t] = i /\ pc[t] \in {"yield", "resumed"} /\ state[i] # "DONE"

Linked == \A i \in wheel \cup timenodes : (state[i] = "SUSPEND" /\ ~handling[i]) \/ Parking(i)

\* Finished items wait for the reactor, out of everybody's hands.
Buried == \A i \in doneItems : state[i] = "DONE" /\ \A t \in Threads : cst[t] # i

\* The items registered with epoll are the live ones, and they are counted.
Registered ==
    /\ \A i \in Items : i \in epoll <=>
          \/ state[i] \in {"FREE", "RUNNING", "SUSPEND"}
          \/ \E t \in Threads : cst[t] = i /\ pc[t] = "resumed"
    /\ itemCount = Cardinality(epoll)
    /\ \A i \in revents : state[i] \notin {"none", "freed"}

\* Where the wakeup of an item with a timeout is.
Covered ==
    /\ revents \cap wheel \subseteq ready
    /\ \A i \in timed :
          \/ state[i] = "SUSPEND"
          \/ \E t \in Threads : cst[t] = i /\ pc[t] = "yield"
    /\ \A i \in timed :
          \/ i \in wheel \cup timenodes \cup ready
          \/ i \in SetOf(batch) \cup SetOf(taskQueue)
          \/ \E t \in Threads : cst[t] = i /\ pc[t] = "resume"

\* Nothing is alive once a thread returned, and no finished item is lost.
Ended ==
    /\ (\E t \in Threads : pc[t] = "returned") => epoll = {}
    /\ \A i \in Items : state[i] = "DONE" =>
          i \in doneItems \/ \E t \in Threads : cst[t] = i /\ pc[t] \in {"resumed", "bury"}

Inv == TypeOK /\ OneToken /\ Hands /\ Arrays /\ Exclusive /\ Places /\ Apart
         /\ Linked /\ Buried /\ Registered /\ Covered /\ NotAllAsleep /\ Ended
=============================================================================
