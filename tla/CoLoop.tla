-------------------------------- MODULE CoLoop --------------------------------
(***************************************************************************)
(* coloop (pax/coroutine/coloop.cpp): the scheduler of one thread.  Its    *)
(* items are coroutines, each with a socket (coevent.cpp) registered with  *)
(* the loop's epoll and a timenode in the loop's timewheel.  Any thread    *)
(* creates items, which links their timenodes under time_mutex_; all else  *)
(* happens in the loop's thread.  Coroutines that the bodies of items      *)
(* resume in turn are left out: Coroutine has them, and they change        *)
(* nothing of the loop.                                                    *)
(*                                                                         *)
(* The bodies of items are user code: any sequence of the calls that       *)
(* coevent and coloop_item offer.  When time passes is left open: Expire   *)
(* says that the deadline of a linked timenode has come (TimeWheel shows   *)
(* that getTimeouts then returns it).                                      *)
(***************************************************************************)
EXTENDS Naturals, Sequences, FiniteSets

CONSTANTS Loop,    \* the loop's thread
          Items,   \* coloop_items
          None,    \* no item
          Room     \* size of revents_ when the loop is made: 128

ASSUME LoopAssumption == None \notin Items /\ Room \in Nat \ {0}

VARIABLES
    state, stack,   \* those of Coroutine
    pc,         \* where loop() is: "idle", "poll", "collect" or "run"
    quit,       \* quit_
    room,       \* revents_.size()
    revents,    \* items whose events were reported and are not handled yet
    timenodes,  \* timenodes_ that are not handled yet
    cur,        \* cpt in doItem
    epoll,      \* items registered with epfd_
    events,     \* events_ of each coevent
    wheel,      \* timenode_: "out", linked "in" the wheel, or linked and "due"
    op,         \* the coevent call each item is in: "body" for none
    timed,      \* that call has a timeout
    kept,       \* last_events of that call
    socket      \* of each item: "quiet", has "data" to read, or is "broken"

coVars   == <<state, stack>>
loopVars == <<pc, quit, room, revents, timenodes, cur>>
itemVars == <<epoll, events, wheel, op, timed, kept>>

vars == <<coVars, loopVars, itemVars, socket>>

\* Items have stacks of their own.
Co == INSTANCE Coroutine WITH
    Threads <- {Loop}, Coroutines <- Items, Shared <- {}, Depth <- 1,
    home    <- [i \in Items |-> None],  frames  <- [t \in {Loop} |-> None],
    saved   <- [i \in Items |-> FALSE], refused <- {}

Init ==
    /\ Co!CoInit
    /\ pc = "idle" /\ quit = FALSE /\ room = Room
    /\ revents = {} /\ timenodes = {} /\ cur = None
    /\ epoll = {}
    /\ events = [i \in Items |-> "NONE"]
    /\ wheel = [i \in Items |-> "out"]
    /\ op = [i \in Items |-> "body"]
    /\ timed = [i \in Items |-> FALSE]
    /\ kept = [i \in Items |-> "NONE"]
    /\ socket = [i \in Items |-> "quiet"]
-----------------------------------------------------------------------------
(***************************************************************************)
(* The loop.                                                               *)
(***************************************************************************)
\* loop() forgets a quit that came before.
Start ==
    /\ pc = "idle" /\ stack[Loop] = <<>>
    /\ pc' = "poll" /\ quit' = FALSE
    /\ UNCHANGED <<coVars, room, revents, timenodes, cur, itemVars, socket>>

Stop ==
    /\ pc = "poll" /\ quit
    /\ pc' = "idle"
    /\ UNCHANGED <<coVars, quit, room, revents, timenodes, cur, itemVars, socket>>

\* What epoll reports, level-triggered; a broken socket always.
Ready ==
    {i \in epoll : socket[i] = "broken" \/ (socket[i] = "data" /\ events[i] = "READ")}

\* epoll_wait fills revents_, which grows when it was full.
Poll ==
    /\ pc = "poll" /\ ~quit
    /\ \E S \in SUBSET Ready :
        /\ S = Ready \/ Cardinality(S) = room
        /\ Cardinality(S) <= room
        /\ revents' = S
        /\ room' = IF Cardinality(S) = room THEN 2 * room ELSE room
    /\ pc' = "collect"
    /\ UNCHANGED <<coVars, quit, timenodes, cur, itemVars, socket>>

\* Mutant of Disarmed: getTimeouts comes before the timenodes of revents_ are removed.
DisarmedNone == {}

\* Items that have an event do not time out in the same round.
Disarmed == revents

\* Under time_mutex_: removeTimenode and getTimeouts.
Collect ==
    /\ pc = "collect"
    /\ timenodes' = {i \in Items \ Disarmed : wheel[i] = "due"}
    /\ wheel' = [i \in Items |-> IF i \in revents \cup timenodes' THEN "out" ELSE wheel[i]]
    /\ pc' = "run"
    /\ UNCHANGED <<coVars, quit, room, revents, cur, epoll, events, op, timed, kept, socket>>

\* doItem: first all that have events, then those that timed out.
DoItem(i) ==
    /\ pc = "run" /\ cur = None
    /\ IF revents # {} THEN i \in revents ELSE i \in timenodes
    /\ revents' = revents \ {i}
    /\ timenodes' = IF revents # {} THEN timenodes ELSE timenodes \ {i}
    /\ epoll' = IF state[i] = "FREE" THEN epoll \cup {i} ELSE epoll
    /\ cur' = i
    /\ Co!Resume(Loop, i)
    /\ timed' = [timed EXCEPT ![i] = @ /\ op[i] # "body"]
    /\ UNCHANGED <<pc, quit, room, events, wheel, op, kept, socket>>

\* Mutant of Over: an item that has finished stays registered, and nobody deletes it.
OverNever(i) == FALSE

\* cpt->getState() == coloop_item::DONE
Over(i) == state[i] = "DONE"

\* The item has yielded: back in doItem.
ItemLeft ==
    /\ cur # None /\ stack[Loop] = <<>>
    /\ IF Over(cur)
       THEN /\ epoll' = epoll \ {cur}
            /\ Co!Delete(cur)
            /\ events' = [events EXCEPT ![cur] = "NONE"]
            /\ socket' = [socket EXCEPT ![cur] = "quiet"]
       ELSE UNCHANGED <<coVars, epoll, events, socket>>
    /\ cur' = None
    /\ UNCHANGED <<pc, quit, room, revents, timenodes, wheel, op, timed, kept>>

\* Mutant of AllHandled: the items that timed out wait when there were events.
AllHandledEvents == revents = {}

\* Both loops over the lists are through.
AllHandled == revents = {} /\ timenodes = {}

RoundEnds ==
    /\ pc = "run" /\ cur = None /\ AllHandled
    /\ pc' = "poll"
    /\ UNCHANGED <<coVars, quit, room, revents, timenodes, cur, itemVars, socket>>
-----------------------------------------------------------------------------
(***************************************************************************)
(* The bodies of items.                                                    *)
(***************************************************************************)
\* coloop_item::create, in any thread: the item first runs when its timenode expires.
Create(i) ==
    /\ Co!New(Loop, i)
    /\ wheel' = [wheel EXCEPT ![i] = "in"]
    /\ UNCHANGED <<loopVars, epoll, events, op, timed, kept, socket>>

Running(i) == Co!Top(Loop) = i

\* coloop_item::yield(ms), with a timenode if ms is not negative.
YieldItem(i, ms) ==
    /\ wheel' = IF ms THEN [wheel EXCEPT ![i] = "in"] ELSE wheel
    /\ timed' = [timed EXCEPT ![i] = ms]
    /\ Co!Yield(Loop)

\* enableReading or disableALL, and updateEvents.
SetEvents(i, e) ==
    /\ Running(i) /\ op[i] = "body"
    /\ events' = [events EXCEPT ![i] = e]
    /\ UNCHANGED <<coVars, loopVars, epoll, wheel, op, timed, kept, socket>>

\* yield(seconds), or coroutine::yield().
Pause(i, ms) ==
    /\ Running(i) /\ op[i] = "body"
    /\ YieldItem(i, ms)
    /\ UNCHANGED <<loopVars, epoll, events, op, kept, socket>>

\* ::read takes what has arrived.
Drained(i) == socket' = [socket EXCEPT ![i] = IF @ = "data" THEN "quiet" ELSE @]

\* The first ::read returns data, or ms is 0.
ReadNow(i) ==
    /\ Running(i) /\ op[i] = "body"
    /\ Drained(i)
    /\ UNCHANGED <<coVars, loopVars, itemVars>>

\* read and write wait with events_ = READ, and nothing else.
Wait(i, call, ms) ==
    /\ op' = [op EXCEPT ![i] = call]
    /\ kept' = [kept EXCEPT ![i] = events[i]]
    /\ events' = [events EXCEPT ![i] = "READ"]
    /\ YieldItem(i, ms)

\* EAGAIN
ReadWaits(i, ms) ==
    /\ Running(i) /\ op[i] = "body" /\ socket[i] = "quiet"
    /\ Wait(i, "read", ms)
    /\ UNCHANGED <<loopVars, epoll, socket>>

\* events_ = last_events
Restored(i) == kept[i]

Return(i) ==
    /\ op' = [op EXCEPT ![i] = "body"]
    /\ events' = [events EXCEPT ![i] = Restored(i)]
    /\ kept' = [kept EXCEPT ![i] = "NONE"]
    /\ timed' = [timed EXCEPT ![i] = FALSE]
    /\ UNCHANGED <<coVars, wheel>>

\* An event or the timeout: the second ::read is the last one.
ReadReturns(i) ==
    /\ Running(i) /\ op[i] = "read"
    /\ Drained(i)
    /\ Return(i)
    /\ UNCHANGED <<loopVars, epoll>>

\* ::write may take everything, a part or nothing; the first one did not take everything.
WriteWaits(i, ms) ==
    /\ Running(i) /\ op[i] = "body" /\ socket[i] # "broken"
    /\ Wait(i, "write", ms)
    /\ UNCHANGED <<loopVars, epoll, socket>>

\* Everything written, an error, or ms > 0, which tries only once more.
WriteReturns(i) ==
    /\ Running(i) /\ op[i] = "write"
    /\ Return(i)
    /\ UNCHANGED <<loopVars, epoll, socket>>

WriteWaitsOn(i) ==
    /\ Running(i) /\ op[i] = "write" /\ socket[i] # "broken" /\ ~timed[i]
    /\ Co!Yield(Loop)
    /\ UNCHANGED <<loopVars, itemVars, socket>>

FinishItem(i) ==
    /\ Running(i) /\ op[i] = "body"
    /\ Co!Finish(Loop)
    /\ UNCHANGED <<loopVars, itemVars, socket>>

Body(i) ==
    \/ \E ms \in BOOLEAN : Pause(i, ms) \/ ReadWaits(i, ms) \/ WriteWaits(i, ms)
    \/ \E e \in {"NONE", "READ"} : SetEvents(i, e)
    \/ ReadNow(i) \/ ReadReturns(i) \/ WriteReturns(i) \/ WriteWaitsOn(i)
    \/ FinishItem(i)

-----------------------------------------------------------------------------
Quit ==
    /\ quit' = TRUE
    /\ UNCHANGED <<coVars, pc, room, revents, timenodes, cur, itemVars, socket>>

\* A linked timenode expires.
Expire(i) ==
    /\ wheel[i] = "in"
    /\ wheel' = [wheel EXCEPT ![i] = "due"]
    /\ UNCHANGED <<coVars, loopVars, epoll, events, op, timed, kept, socket>>

\* The peer sends, or the connection breaks.
Peer(i) ==
    /\ Co!Exists(i)
    /\ \/ socket[i] = "quiet" /\ socket' = [socket EXCEPT ![i] = "data"]
       \/ socket[i] # "broken" /\ socket' = [socket EXCEPT ![i] = "broken"]
    /\ UNCHANGED <<coVars, loopVars, itemVars>>

LoopStep == Poll \/ Stop \/ Collect \/ ItemLeft \/ RoundEnds \/ \E i \in Items : DoItem(i)

Next ==
    \/ Start \/ LoopStep \/ Quit
    \/ \E i \in Items : Create(i) \/ Body(i) \/ Expire(i) \/ Peer(i)

Spec == Init /\ [][Next]_vars

\* The loop's thread is scheduled, time passes, and a coroutine that runs gives way some
\* time, whatever it calls before.
FairSpec ==
    /\ Spec
    /\ WF_vars(LoopStep)
    /\ \A i \in Items :
        /\ WF_vars(Expire(i))
        /\ SF_vars(Pause(i, FALSE) \/ Pause(i, TRUE) \/ FinishItem(i))
        /\ WF_vars(ReadReturns(i)) /\ WF_vars(WriteReturns(i) \/ WriteWaitsOn(i))
-----------------------------------------------------------------------------
\* Every variable has its type.
TypeOK ==
    /\ pc \in {"idle", "poll", "collect", "run"}
    /\ quit \in BOOLEAN /\ room \in Nat
    /\ revents \subseteq Items /\ timenodes \subseteq Items /\ cur \in Items \cup {None}
    /\ epoll \subseteq Items
    /\ events \in [Items -> {"NONE", "READ"}] /\ kept \in [Items -> {"NONE", "READ"}]
    /\ wheel \in [Items -> {"out", "in", "due"}]
    /\ op \in [Items -> {"body", "read", "write"}]
    /\ timed \in [Items -> BOOLEAN]
    /\ socket \in [Items -> {"quiet", "data", "broken"}]

\* Every item the loop has a pointer to exists, can be resumed and is in one list only, and
\* the timenode of an item that runs is not linked: no item is resumed twice, used after its
\* deletion, or linked when it sets a timeout (timewheel asserts that it is not).
ItemsSafe ==
    /\ TypeOK
    /\ \A i \in revents \cup timenodes : state[i] \in {"FREE", "SUSPEND"} /\ i # cur
    /\ revents \cap timenodes = {}
    /\ pc = "run" => \A i \in revents \cup timenodes : wheel[i] = "out"
    /\ \A i \in Items : Running(i) \/ state[i] \in {"INSTACK", "DONE", "NONE"} => wheel[i] = "out"
    /\ \A i \in Items : state[i] # "NONE" /\ state[i] # "FREE" <=> i \in epoll

\* A new item, and one that waits with a timeout, is linked in the wheel or is about to be
\* resumed: none waits for a wakeup that cannot come.
TimedWaitCovered ==
    \A i \in Items :
        state[i] = "FREE" \/ (state[i] = "SUSPEND" /\ timed[i])
            => wheel[i] # "out" \/ i \in revents \cup timenodes \cup {cur}

\* What has waited long enough, or has an event, is resumed unless the loop quits.
Awaited(i) == ((state[i] = "SUSPEND" /\ (timed[i] \/ i \in Ready)) \/ state[i] = "FREE") /\ pc # "idle"

WaitEnds == \A i \in Items : Awaited(i) ~> (~Awaited(i) \/ quit)
==============================================================================
