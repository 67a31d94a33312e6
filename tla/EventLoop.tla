------------------------------ MODULE EventLoop ------------------------------
(***************************************************************************)
(* An eventloop (pax/net/eventloop.cpp) and its eventqueue                 *)
(* (pax/net/eventqueue.cpp).  One thread executes loop(); other threads    *)
(* hand it functors and ask it to quit.  They wake it from poll through    *)
(* an eventfd that is written after the functor was pushed or quit_ was    *)
(* set, and that the loop reads before it takes the functors.              *)
(*                                                                         *)
(* Callbacks of channels and functors are user code: while one runs        *)
(* (body), it may queue functors, run them on the spot, and call quit.     *)
(***************************************************************************)
EXTENDS Naturals, Sequences, SeqSets

CONSTANTS Callers,   \* other threads that use the loop
          Tasks,     \* functors, each handed over at most once
          Channels,  \* channels of the loop other than the eventqueue's
          Wakeup     \* the eventqueue's channel

ASSUME ChannelAssumption == Wakeup \notin Channels

VARIABLES
    lpc,        \* where the loop's thread is
    body,       \* the loop's thread is inside a callback or a functor
    active,     \* active_channels_ that are not handled yet
    quit,       \* quit_
    eventfd,    \* the counter of the eventfd is not 0
    functors,   \* eventqueue::functors_, under lock_
    batch,      \* eventloop::functors_
    index,      \* how many functors of batch were executed
    cpc,        \* where each other thread is
    executed,   \* all functors executed, in order (history variable)
    owed        \* how many functors had been queued or run when quit_ was set while
                \* loop() was running (history variable)

loopVars == <<lpc, body, active>>
taskVars == <<functors, batch, index, executed>>
quitVars == <<quit, owed>>

vars == <<loopVars, taskVars, quitVars, eventfd, cpc>>

\* The functors that were queued and are not executed yet, in order.
Remaining == SubSeq(batch, index + 1, Len(batch))
Pending   == Remaining \o functors

Fresh(f) == /\ \A k \in DOMAIN executed : executed[k] # f
            /\ \A k \in DOMAIN Pending : Pending[k] # f

Init ==
    /\ lpc = "idle"
    /\ body = FALSE
    /\ active = {}
    /\ quit = FALSE
    /\ eventfd = FALSE
    /\ functors = <<>>
    /\ batch = <<>>
    /\ index = 0
    /\ cpc = [c \in Callers |-> "idle"]
    /\ executed = <<>>
    /\ owed = 0
-----------------------------------------------------------------------------
(***************************************************************************)
(* The other threads.                                                      *)
(***************************************************************************)
Push(f) == Fresh(f) /\ functors' = Append(functors, f)

\* runInLoop and queueInLoop of another thread: addFunctor's lock section ...
AddFunctor(c, f) ==
    /\ cpc[c] = "idle"
    /\ Push(f)
    /\ cpc' = [cpc EXCEPT ![c] = "wakeup"]
    /\ UNCHANGED <<loopVars, batch, index, executed, quitVars, eventfd>>

\* Mutant of WriteEventfd: the loop is not woken.
WriteNothing == eventfd

\* eventfd_write(fd_, 1)
WriteEventfd == TRUE

\* ... and the write after it; also the wakeup() of quit.
WakeLoop(c) ==
    /\ cpc[c] = "wakeup"
    /\ eventfd' = WriteEventfd
    /\ cpc' = [cpc EXCEPT ![c] = "idle"]
    /\ UNCHANGED <<loopVars, taskVars, quitVars>>

\* quit(): if (quit_) return;
AskQuit(c) ==
    /\ cpc[c] = "idle"
    /\ ~quit
    /\ cpc' = [cpc EXCEPT ![c] = "quit"]
    /\ UNCHANGED <<loopVars, taskVars, quitVars, eventfd>>

SetQuit == /\ quit' = TRUE
           /\ owed' = IF quit \/ lpc = "idle" THEN owed ELSE Len(executed) + Len(Pending)

\* quit_ = 1; the wakeup follows.
Quit(c) ==
    /\ cpc[c] = "quit"
    /\ SetQuit
    /\ cpc' = [cpc EXCEPT ![c] = "wakeup"]
    /\ UNCHANGED <<loopVars, taskVars, eventfd>>
-----------------------------------------------------------------------------
(***************************************************************************)
(* The loop's thread.                                                      *)
(***************************************************************************)
Goto(label) == lpc' = label

\* loop() begins: quit_ = 0.
Start ==
    /\ lpc = "idle"
    /\ quit' = FALSE
    /\ owed' = 0
    /\ Goto("check")
    /\ UNCHANGED <<body, active, taskVars, eventfd, cpc>>

\* Mutant of AfterLoop: loop() returns without the last doFunctors().
AfterLoopDirect == "idle"

\* doFunctors() follows the while loop.
AfterLoop == "lastSwap"

\* while (!quit_)
Check ==
    /\ lpc = "check"
    /\ Goto(IF quit THEN AfterLoop ELSE "poll")
    /\ UNCHANGED <<body, active, taskVars, quitVars, eventfd, cpc>>

\* Mutant of After: the functors are taken before the channels are handled.
AfterSwapped(stage) ==
    CASE stage = "poll"     -> "swap"
      [] stage = "functors" -> "dispatch"
      [] stage = "dispatch" -> "check"

\* The order of the stages in the body of the while loop.
After(stage) ==
    CASE stage = "poll"     -> "dispatch"
      [] stage = "dispatch" -> "swap"
      [] stage = "functors" -> "check"

\* doPoll blocks until a channel has an event.
Poll(ready) ==
    /\ lpc = "poll"
    /\ active' = ready \cup (IF eventfd THEN {Wakeup} ELSE {})
    /\ active' # {}
    /\ Goto(After("poll"))
    /\ UNCHANGED <<body, taskVars, quitVars, eventfd, cpc>>

\* The eventqueue's channel: handleRead resets the counter.
HandleWakeup ==
    /\ lpc = "dispatch"
    /\ ~body
    /\ Wakeup \in active
    /\ active' = active \ {Wakeup}
    /\ eventfd' = FALSE
    /\ UNCHANGED <<lpc, body, taskVars, quitVars, cpc>>

\* Any other channel: its callback is user code.
HandleChannel(ch) ==
    /\ lpc = "dispatch"
    /\ ~body
    /\ ch \in active \ {Wakeup}
    /\ active' = active \ {ch}
    /\ body' = TRUE
    /\ UNCHANGED <<lpc, taskVars, quitVars, eventfd, cpc>>

Dispatched ==
    /\ lpc = "dispatch"
    /\ ~body
    /\ active = {}
    /\ Goto(After("dispatch"))
    /\ UNCHANGED <<body, active, taskVars, quitVars, eventfd, cpc>>

\* Mutant of Cleared: the executed functors are swapped back into the queue.
ClearedNever(q) == q

\* functors_.clear()
Cleared(q) == <<>>

\* Mutant of First: the loop over functors_ goes on where the last one ended.
FirstKept == index

\* The loop over functors_ starts at the beginning.
First == 0

\* doFunctors: clear, then swap under lock_.
Swap ==
    /\ lpc \in {"swap", "lastSwap"}
    /\ batch' = functors
    /\ functors' = Cleared(batch)
    /\ index' = First
    /\ Goto(IF lpc = "swap" THEN "functors" ELSE "lastFunctors")
    /\ UNCHANGED <<body, active, executed, quitVars, eventfd, cpc>>

\* doFunctors: for (auto& func : functors_) func();
DoFunctor ==
    /\ lpc \in {"functors", "lastFunctors"}
    /\ ~body
    /\ index < Len(batch)
    /\ index' = index + 1
    /\ executed' = Append(executed, batch[index + 1])
    /\ body' = TRUE
    /\ UNCHANGED <<lpc, active, functors, batch, quitVars, eventfd, cpc>>

FunctorsDone ==
    /\ lpc \in {"functors", "lastFunctors"}
    /\ ~body
    /\ index = Len(batch)
    /\ Goto(IF lpc = "functors" THEN After("functors") ELSE "idle")
    /\ UNCHANGED <<body, active, taskVars, quitVars, eventfd, cpc>>
-----------------------------------------------------------------------------
(***************************************************************************)
(* What a callback or a functor may do.                                    *)
(***************************************************************************)
\* queueInLoop
QueueInLoop(f) ==
    /\ body
    /\ Push(f)
    /\ eventfd' = WriteEventfd
    /\ UNCHANGED <<loopVars, batch, index, executed, quitVars, cpc>>

\* runInLoop calls the functor directly.
RunInLoop(f) ==
    /\ body
    /\ Fresh(f)
    /\ executed' = Append(executed, f)
    /\ UNCHANGED <<loopVars, functors, batch, index, quitVars, eventfd, cpc>>

\* quit() needs no wakeup in the loop's own thread.
QuitInLoop ==
    /\ body
    /\ SetQuit
    /\ UNCHANGED <<loopVars, taskVars, eventfd, cpc>>

Return ==
    /\ body
    /\ body' = FALSE
    /\ UNCHANGED <<lpc, active, taskVars, quitVars, eventfd, cpc>>
-----------------------------------------------------------------------------
Caller(c) == AskQuit(c) \/ \E f \in Tasks : AddFunctor(c, f)

Finishing(c) == WakeLoop(c) \/ Quit(c)

LoopStep == Check \/ HandleWakeup \/ (\E ch \in Channels : HandleChannel(ch))
              \/ Dispatched \/ Swap \/ DoFunctor \/ FunctorsDone \/ Return

UserCode == QuitInLoop \/ \E f \in Tasks : QueueInLoop(f) \/ RunInLoop(f)

PollAny == \E ready \in SUBSET Channels : Poll(ready)

Next ==
    \/ \E c \in Callers : Caller(c) \/ Finishing(c)
    \/ Start \/ LoopStep \/ PollAny \/ UserCode

Spec == Init /\ [][Next]_vars

(***************************************************************************)
(* The threads are scheduled and user code returns.  poll must return only *)
(* when the eventfd is readable: other events need not ever happen.        *)
(***************************************************************************)
Fairness ==
    /\ WF_vars(LoopStep)
    /\ WF_vars(eventfd /\ PollAny)
    /\ \A c \in Callers : WF_vars(Finishing(c))

FairSpec == Spec /\ Fairness
-----------------------------------------------------------------------------
\* Every variable has its type.
TypeOK ==
    /\ lpc \in {"idle", "check", "poll", "dispatch", "swap", "functors",
                "lastSwap", "lastFunctors"}
    /\ body \in BOOLEAN
    /\ active \subseteq Channels \cup {Wakeup}
    /\ quit \in BOOLEAN
    /\ eventfd \in BOOLEAN
    /\ functors \in Seq(Tasks)
    /\ batch \in Seq(Tasks)
    /\ index \in 0..Len(batch)
    /\ cpc \in [Callers -> {"idle", "wakeup", "quit"}]
    /\ executed \in Seq(Tasks)
    /\ owed \in Nat

\* The loop cannot sleep in poll while it has something to do: a functor is queued or
\* another thread set quit_ only if the eventfd is readable or about to be written.
NoLostWakeup ==
    lpc = "poll" /\ (functors # <<>> \/ quit) =>
        eventfd \/ \E c \in Callers : cpc[c] = "wakeup"

\* The functors queued before quit() was called are executed before loop() returns
\* (eventloop.cpp 83, "注意这里").
QuitDrains == lpc = "idle" /\ quit => owed <= Len(executed)

\* A functor never runs twice, and queued functors run in the order of queueing.
Queue == INSTANCE TaskQueue WITH pending <- Pending

RunsTasksInOrder == Queue!Spec

\* A queued functor is executed unless the loop stops.
TaskExecuted ==
    \A f \in Tasks : (f \in SetOf(functors)) ~> (f \in SetOf(executed) \/ lpc = "idle")

\* Once quit() took effect on a running loop, loop() returns.
QuitStops == (quit /\ lpc # "idle") ~> (lpc = "idle")
-----------------------------------------------------------------------------
(***************************************************************************)
(* The inductive invariant.                                                *)
(***************************************************************************)
\* Somebody has written the eventfd, or is about to.
Signalled == eventfd \/ \E c \in Callers : cpc[c] = "wakeup"

\* User code runs only where the loop calls it, and the functors taken from the
\* queue are executed before anything else happens.
Stages ==
    /\ body => lpc \in {"dispatch", "functors", "lastFunctors"}
    /\ lpc \notin {"functors", "lastFunctors"} => index = Len(batch)
    /\ lpc \in {"lastSwap", "lastFunctors"} => quit

\* A queued functor is announced, except between the reading of the eventfd and the
\* swap that follows; so is a quit that found the loop in poll.
Announced ==
    /\ functors # <<>> /\ lpc \notin {"dispatch", "swap"} => Signalled
    /\ quit /\ lpc = "poll" => Signalled

\* The functors that were queued before quit are executed or still to be executed.
Owed ==
    /\ owed <= Len(executed) + Len(Pending)
    /\ lpc = "lastFunctors" => owed <= Len(executed) + Len(Remaining)
    /\ lpc = "idle" => owed <= Len(executed)

Inv == TypeOK /\ Stages /\ Announced /\ Owed
=============================================================================
