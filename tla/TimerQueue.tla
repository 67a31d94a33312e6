------------------------------ MODULE TimerQueue ------------------------------
(***************************************************************************)
(* The timerqueue of an eventloop (pax/net/timerqueue.cpp).  Timers are    *)
(* kept in a set ordered by time, the first of them arms a timerfd, and    *)
(* the loop calls handleRead when the timerfd is readable.  Everything is  *)
(* executed by the loop's thread; other threads hand it functors.          *)
(*                                                                         *)
(* A timer is a member of Ids and has an address, which is used again once *)
(* the timer was deleted.  A ktimerid, which is how the user and           *)
(* cancel_timers_ name a timer, is the time the timer was created for and  *)
(* its address.                                                            *)
(***************************************************************************)
EXTENDS Integers, Sequences, FiniteSets, FiniteSetsExt

CONSTANTS Ids,         \* timers that are ever created
          Addrs,       \* addresses of timers
          Intervals,   \* repetition intervals, 0 for none
          MinDelay,    \* the shortest delay the timerfd is armed with (100 us)
          Modulus,     \* 2^64, the width of a time
          MaxTime,     \* bound of the clock
          Horizon,     \* bound of the times timers are created for
          MaxPosted    \* bound of the queue of functors

ASSUME TimeAssumption ==
    /\ MaxTime \in Nat \ {0} /\ Horizon \in 0..MaxTime /\ MinDelay \in Nat \ {0}
    /\ Intervals \subseteq Nat /\ MaxPosted \in Nat
    /\ Modulus \in Nat /\ \A i \in Intervals \cup {MinDelay} : Modulus > 2 * (MaxTime + i)

Off == -1  \* the timerfd is not armed

VARIABLES
    now,       \* timestamp::getMicroSeconds()
    place,     \* where the loop's thread is
    active,    \* poll reported the timerfd's channel
    armed,     \* when the timerfd expires
    timers,    \* timers_: pairs of a time and a timer
    cancels,   \* cancel_timers_: ktimerids
    expire,    \* expire_timers_ that did not run yet
    running,   \* the timer whose callback runs: a set of at most one pair
    posted,    \* functors that other threads queued in the loop
    created,   \* timers that were created
    live,      \* timers that were not deleted
    addr,      \* address of each timer
    born,      \* born_ of each timer
    interval,  \* interval_ of each timer
    wanted,    \* timers whose cancellation the loop has noted (history variable)
    late       \* time has passed while the loop worked, or a timer was created for a
               \* time that had passed (history variable)

timeVars == <<now, late>>
setVars  == <<timers, cancels, expire, running>>
heapVars == <<created, live, addr, born, interval, wanted>>

timerqueueVars == <<timeVars, place, active, armed, setVars, posted, heapVars>>

TimersInit ==
    /\ now = 1 /\ late = FALSE
    /\ place = "idle"
    /\ active = FALSE
    /\ armed = Off
    /\ timers = {} /\ cancels = {} /\ expire = {} /\ running = {}
    /\ posted = <<>>
    /\ created = {} /\ live = {} /\ wanted = {}
    /\ addr \in {f \in [Ids -> Addrs] : \E a \in Addrs : \A id \in Ids : f[id] = a}
    /\ born = [id \in Ids |-> 0]
    /\ interval = [id \in Ids |-> 0]

First(S) == Min({e[1] : e \in S})

KtimerId(id) == <<born[id], addr[id]>>
-----------------------------------------------------------------------------
(***************************************************************************)
(* The timerfd and the set of timers.                                      *)
(***************************************************************************)
\* Mutant of AtLeast: a delay of 0 is not avoided.
AtLeastZero(delay) == delay

\* if (microseconds_ < 100) microseconds_ = 100;
AtLeast(delay) == Max({delay, MinDelay})

\* resetTimerfd: the difference of two unsigned times; a delay of 0 disarms a timerfd.
ResetTimerfd(time) ==
    LET delay == AtLeast((time - now) % Modulus)
    IN  armed' = IF delay = 0 THEN Off ELSE now + delay

\* Mutant of Earlier: only the first timer arms the timerfd.
EarlierFirst(time) == timers = {}

\* iter == timers_.end() || timer->time_ < iter->first
Earlier(time) == timers = {} \/ time < First(timers)

\* addTimerInLoop
AddTimerInLoop(id, time) ==
    /\ timers' = timers \cup {<<time, id>>}
    /\ IF Earlier(time) THEN ResetTimerfd(time) ELSE UNCHANGED armed

\* cancelTimerInLoop
CancelTimerInLoop(id) ==
    /\ cancels' = cancels \cup {KtimerId(id)}
    /\ wanted' = wanted \cup ({id} \cap live)

\* new timer(...): any address that no other timer has.
New(id, a, time, i) ==
    /\ id \notin created
    /\ \A other \in live : addr[other] # a
    /\ late' = (late \/ time < now)
    /\ created' = created \cup {id}
    /\ live' = live \cup {id}
    /\ addr' = [addr EXCEPT ![id] = a]
    /\ born' = [born EXCEPT ![id] = time]
    /\ interval' = [interval EXCEPT ![id] = i]
-----------------------------------------------------------------------------
(***************************************************************************)
(* The users: callbacks in the loop's thread, and other threads.           *)
(***************************************************************************)
InUserCode == place \in {"idle", "callback"}

\* addTimer in the loop's thread: runInLoop calls addTimerInLoop directly.
AddTimer(id, a, time, i) ==
    /\ InUserCode
    /\ New(id, a, time, i)
    /\ AddTimerInLoop(id, time)
    /\ UNCHANGED <<now, place, active, cancels, expire, running, posted, wanted>>

\* A ktimerid with born_ == 0 is that of no timer, for cancelTimer.
CancelTimer(id) ==
    /\ InUserCode
    /\ id \in created /\ born[id] # 0
    /\ CancelTimerInLoop(id)
    /\ UNCHANGED <<timeVars, place, active, armed, timers, expire, running, posted,
                   created, live, addr, born, interval>>

Post(op, id) ==
    /\ Len(posted) < MaxPosted
    /\ posted' = Append(posted, <<op, id>>)

\* addTimer in another thread.
PostAdd(id, a, time, i) ==
    /\ New(id, a, time, i)
    /\ Post("add", id)
    /\ UNCHANGED <<now, place, active, armed, setVars, wanted>>

\* cancelTimer in another thread.
PostCancel(id) ==
    /\ id \in created /\ born[id] # 0
    /\ Post("cancel", id)
    /\ UNCHANGED <<timeVars, place, active, armed, setVars, heapVars>>

\* doFunctors of the loop, after the channels were handled.
RunFunctor ==
    /\ place = "idle"
    /\ ~active
    /\ posted # <<>>
    /\ posted' = Tail(posted)
    /\ LET id == Head(posted)[2] IN
        \/ /\ Head(posted)[1] = "add"
           /\ AddTimerInLoop(id, born[id])
           /\ UNCHANGED <<cancels, wanted>>
        \/ /\ Head(posted)[1] = "cancel"
           /\ CancelTimerInLoop(id)
           /\ UNCHANGED <<armed, timers>>
    /\ UNCHANGED <<timeVars, place, active, expire, running, created, live, addr, born, interval>>
-----------------------------------------------------------------------------
(***************************************************************************)
(* handleRead.                                                             *)
(***************************************************************************)
Expired == armed # Off /\ armed <= now

\* poll finds the timerfd readable.
PollTimerfd ==
    /\ place = "idle"
    /\ ~active
    /\ Expired
    /\ active' = TRUE
    /\ UNCHANGED <<timeVars, place, armed, setVars, posted, heapVars>>

\* Mutant of Key: cancel_timers_ is searched for the next time of the timer.
KeyOfEntry(e) == <<e[1], addr[e[2]]>>

\* entry(x->born_, x)
Key(e) == KtimerId(e[2])

\* read() and setExpireTimers: cancelled timers are deleted, the others run.
HandleRead ==
    /\ place = "idle"
    /\ active
    /\ LET due     == {e \in timers : e[1] <= now}
           dropped == {e \in due : Key(e) \in cancels}
       IN  /\ expire' = due \ dropped
           /\ timers' = timers \ due
           /\ cancels' = cancels \ {Key(e) : e \in dropped}
           /\ live' = live \ {e[2] : e \in dropped}
    /\ armed' = IF Expired THEN Off ELSE armed
    /\ active' = FALSE
    /\ place' = "batch"
    /\ UNCHANGED <<timeVars, running, posted, created, addr, born, interval, wanted>>

\* temp->run()
RunTimer(e) ==
    /\ place = "batch"
    /\ e \in expire
    /\ e[1] = First(expire)
    /\ expire' = expire \ {e}
    /\ running' = {e}
    /\ place' = "callback"
    /\ UNCHANGED <<timeVars, active, armed, timers, cancels, posted, heapVars>>

\* Mutant of Repeats: a repeated timer is neither kept nor deleted.
RepeatsNever(id) == {}

\* temp->time_ = now + interval_; timers_.emplace
Repeats(id) == {<<now + interval[id], id>>}

\* The callback returned.
TimerDone ==
    /\ place = "callback"
    /\ \E e \in running :
        IF interval[e[2]] > 0
        THEN timers' = timers \cup Repeats(e[2]) /\ UNCHANGED live
        ELSE live' = live \ {e[2]} /\ UNCHANGED timers
    /\ running' = {}
    /\ place' = "batch"
    /\ UNCHANGED <<timeVars, active, armed, cancels, expire, posted, created, addr, born,
                   interval, wanted>>

\* if (!timers_.empty()) resetTimerfd(timers_.begin()->first)
FinishRead ==
    /\ place = "batch"
    /\ expire = {}
    /\ place' = "idle"
    /\ IF timers # {} THEN ResetTimerfd(First(timers)) ELSE UNCHANGED armed
    /\ UNCHANGED <<timeVars, active, setVars, posted, heapVars>>
-----------------------------------------------------------------------------
Tick ==
    /\ now < MaxTime
    /\ now' = now + 1
    /\ late' = (late \/ place # "idle" \/ posted # <<>>)
    /\ UNCHANGED <<place, active, armed, setVars, posted, heapVars>>

TimerStep == RunFunctor \/ PollTimerfd \/ HandleRead \/ (\E e \in expire : RunTimer(e))
              \/ TimerDone \/ FinishRead

User == \E id \in Ids :
    \/ CancelTimer(id)
    \/ PostCancel(id)
    \/ \E a \in Addrs, time \in 0..Horizon, i \in Intervals :
          AddTimer(id, a, time, i) \/ PostAdd(id, a, time, i)

TimersNext == User \/ TimerStep \/ Tick

TimersSpec == TimersInit /\ [][TimersNext]_timerqueueVars

\* The loop's thread is scheduled, callbacks return, and, however many functors other
\* threads post, the loop polls in between and time passes.
TimersFairSpec ==
    TimersSpec /\ WF_timerqueueVars(TimerStep) /\ SF_timerqueueVars(PollTimerfd) /\ SF_timerqueueVars(Tick)
-----------------------------------------------------------------------------
InAdd == {posted[k][2] : k \in {j \in DOMAIN posted : posted[j][1] = "add"}}

\* Every variable has its type.
TimersTypeOK ==
    /\ now \in 0..MaxTime /\ late \in BOOLEAN
    /\ place \in {"idle", "batch", "callback"}
    /\ active \in BOOLEAN
    /\ armed \in Nat \cup {Off}
    /\ timers \cup expire \cup running \subseteq Nat \X Ids
    /\ cancels \subseteq Nat \X Addrs
    /\ posted \in Seq({"add", "cancel"} \X Ids)
    /\ live \subseteq created /\ wanted \subseteq created /\ created \subseteq Ids
    /\ addr \in [Ids -> Addrs]
    /\ born \in [Ids -> Nat]
    /\ interval \in [Ids -> Intervals \cup {0}]

Owned == timers \cup expire \cup running

\* A timer that was not deleted is owned exactly once: by the set, the current batch,
\* the callback that runs, or the functor that will add it.  Nothing that was deleted
\* is owned, and nothing leaks.
OwnedOnce ==
    /\ live = {e[2] : e \in Owned} \cup InAdd
    /\ \A e, f \in Owned : e[2] = f[2] => e = f
    /\ timers \cap expire = {} /\ timers \cap running = {} /\ expire \cap running = {}
    /\ \A e \in Owned : e[2] \notin InAdd
    /\ \A j, k \in DOMAIN posted :
          posted[j] = posted[k] /\ posted[j][1] = "add" => j = k

\* The ktimerid, an address and a time, is not that of an earlier or later timer.
Unambiguous(id) == \A other \in created \ {id} : KtimerId(other) # KtimerId(id)

\* setExpireTimers runs no timer whose cancellation was noted, and deletes no other one
\* that has a ktimerid of its own ("确保不会把正在处理或将要处理的timer销毁", timerqueue.cpp
\* 61: a timer that is to be processed is not destroyed).
CancelIsExact ==
    [][HandleRead => /\ \A id \in live \ live' : id \in wanted \/ ~Unambiguous(id)
                     /\ {e[2] : e \in expire'} \cap wanted = {}]_timerqueueVars

\* No timer is lost, freed twice or used after it was freed.
MemorySafe == TimersTypeOK /\ OwnedOnce

\* While the loop waits, the timerfd expires by the time of the first timer, if the loop
\* was never late.
FirstIsArmed ==
    ~late /\ place = "idle" /\ timers # {} => /\ armed # Off
                                            /\ armed <= Max({First(timers), now + MinDelay})

\* Every timer has one owner, and the first one will be noticed.
TimersSafe == MemorySafe /\ FirstIsArmed

\* The timer waits for a time within the bounds of the model.
Waits(id) == \E e \in timers : e[2] = id /\ e[1] <= Horizon

\* A timer is taken from the set when its time has come, if the loop is never late.
TimerRuns == \A id \in Ids : Waits(id) ~> ~Waits(id) \/ late
==============================================================================
