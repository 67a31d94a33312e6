---------------------------- MODULE ElThreadPool ----------------------------
(***************************************************************************)
(* pax/net/elthreadpool.cpp: a pool of threads that each run one eventloop.*)
(* The owner starts the threads, hands out their loops, and stops them     *)
(* with quit().  An eventloop is a local variable of its thread: it exists *)
(* from the first line of threadFunc to its end.  Of the loop itself only  *)
(* quit_, the eventfd and the position of its thread are kept; EventLoop   *)
(* models the rest.                                                        *)
(***************************************************************************)
EXTENDS Naturals, Sequences, FiniteSets

CONSTANTS Workers,  \* threads that are ever created
          LoopNum   \* loop_num_, the size of the pool

ASSUME LoopNumAssumption == LoopNum \in Nat /\ LoopNum <= Cardinality(Workers)

VARIABLES
    opc,         \* where the owner is
    created,     \* start's counter i
    cursor,      \* stop's position in loops_
    started,     \* started_
    loops,       \* loops_, under lock_ while the threads register
    currentNum,  \* current_num_
    wpc,         \* where each thread is
    alive,       \* threads whose eventloop object exists
    quit,        \* quit_ of each loop
    eventfd      \* each loop's eventfd is readable

ownerVars  == <<opc, created, cursor, started>>
poolVars   == <<loops, currentNum>>
workerVars == <<wpc, alive>>
loopVars   == <<quit, eventfd>>

vars == <<ownerVars, poolVars, workerVars, loopVars>>

Init ==
    /\ opc = "idle"
    /\ created = 0
    /\ cursor = 0
    /\ started = FALSE
    /\ loops = <<>>
    /\ currentNum = 0
    /\ wpc = [w \in Workers |-> "absent"]
    /\ alive = {}
    /\ quit = [w \in Workers |-> FALSE]
    /\ eventfd = [w \in Workers |-> FALSE]
-----------------------------------------------------------------------------
(***************************************************************************)
(* The owner.                                                              *)
(***************************************************************************)
\* Mutant of Startable: start() on a pool that runs starts more threads.
StartableAlways == TRUE

\* if (started_) return;
Startable == ~started

Start ==
    /\ opc = "idle"
    /\ Startable
    /\ opc' = "spawn"
    /\ created' = 0
    /\ UNCHANGED <<cursor, started, poolVars, workerVars, loopVars>>

\* thread_.start() returns when the thread exists; its thread object detaches it.
Spawn(w) ==
    /\ opc = "spawn"
    /\ created < LoopNum
    /\ wpc[w] = "absent"
    /\ created' = created + 1
    /\ wpc' = [wpc EXCEPT ![w] = "construct"]
    /\ UNCHANGED <<opc, cursor, started, poolVars, alive, loopVars>>

\* Mutant of AllCounted: start does not wait for the threads.
NoneCounted == TRUE

\* current_num_ == loop_num_
AllCounted == currentNum = LoopNum

\* while (current_num_ != loop_num_);
AllStarted ==
    /\ opc = "spawn"
    /\ created = LoopNum
    /\ AllCounted
    /\ started' = TRUE
    /\ opc' = "idle"
    /\ UNCHANGED <<created, cursor, poolVars, workerVars, loopVars>>

Stop ==
    /\ opc = "idle"
    /\ started
    /\ opc' = "quit"
    /\ cursor' = 1
    /\ UNCHANGED <<created, started, poolVars, workerVars, loopVars>>

\* loop_->quit(): the flag is set, or was set already.
QuitLoop ==
    /\ opc = "quit"
    /\ cursor <= Len(loops)
    /\ LET w == loops[cursor] IN
        IF quit[w] THEN /\ cursor' = cursor + 1
                        /\ UNCHANGED <<opc, quit>>
                   ELSE /\ quit' = [quit EXCEPT ![w] = TRUE]
                        /\ opc' = "wakeup"
                        /\ UNCHANGED cursor
    /\ UNCHANGED <<created, started, poolVars, workerVars, eventfd>>

\* Mutant of Wakened: quit() does not wake the loop.
WakenedNever(w) == eventfd

\* eventfd_write
Wakened(w) == [eventfd EXCEPT ![w] = TRUE]

\* ... and wakeup() after it.
WakeLoop ==
    /\ opc = "wakeup"
    /\ eventfd' = Wakened(loops[cursor])
    /\ cursor' = cursor + 1
    /\ opc' = "quit"
    /\ UNCHANGED <<created, started, poolVars, workerVars, quit>>

\* Mutant of AllStopped: stop does not wait for the threads.
NoneAwaited == TRUE

\* current_num_ == 0
AllStopped == currentNum = 0

\* while (current_num_ != 0);
Stopped ==
    /\ opc = "quit"
    /\ cursor > Len(loops)
    /\ AllStopped
    /\ loops' = <<>>
    /\ started' = FALSE
    /\ opc' = "idle"
    /\ UNCHANGED <<created, cursor, currentNum, workerVars, loopVars>>
-----------------------------------------------------------------------------
(***************************************************************************)
(* threadFunc, and the parts of eventloop::loop that quit interacts with.  *)
(***************************************************************************)
Move(w, from, to) == wpc[w] = from /\ wpc' = [wpc EXCEPT ![w] = to]

\* eventloop loop_;
Construct(w) ==
    /\ Move(w, "construct", "register")
    /\ alive' = alive \cup {w}
    /\ quit' = [quit EXCEPT ![w] = FALSE]
    /\ eventfd' = [eventfd EXCEPT ![w] = FALSE]
    /\ UNCHANGED <<ownerVars, poolVars>>

\* loops_.push_back under lock_.
Register(w) ==
    /\ Move(w, "register", "count")
    /\ loops' = Append(loops, w)
    /\ UNCHANGED <<ownerVars, currentNum, alive, loopVars>>

\* ++current_num_
Count(w) ==
    /\ Move(w, "count", "start")
    /\ currentNum' = currentNum + 1
    /\ UNCHANGED <<ownerVars, loops, alive, loopVars>>

\* loop() begins with quit_ = 0.
EnterLoop(w) ==
    /\ Move(w, "start", "check")
    /\ quit' = [quit EXCEPT ![w] = FALSE]
    /\ UNCHANGED <<ownerVars, poolVars, alive, eventfd>>

\* while (!quit_)
Check(w) ==
    /\ Move(w, "check", IF quit[w] THEN "leave" ELSE "poll")
    /\ UNCHANGED <<ownerVars, poolVars, alive, loopVars>>

\* poll returns because the eventfd is readable; the counter is read.
PollWakeup(w) ==
    /\ Move(w, "poll", "check")
    /\ eventfd[w]
    /\ eventfd' = [eventfd EXCEPT ![w] = FALSE]
    /\ UNCHANGED <<ownerVars, poolVars, alive, quit>>

\* poll returns because of another channel.
PollOther(w) ==
    /\ Move(w, "poll", "check")
    /\ ~eventfd[w]
    /\ UNCHANGED <<ownerVars, poolVars, alive, loopVars>>

\* --current_num_
Discount(w) ==
    /\ Move(w, "leave", "destruct")
    /\ currentNum' = currentNum - 1
    /\ UNCHANGED <<ownerVars, loops, alive, loopVars>>

\* The eventloop goes out of scope and the thread ends.
Destruct(w) ==
    /\ Move(w, "destruct", "absent")
    /\ alive' = alive \ {w}
    /\ UNCHANGED <<ownerVars, poolVars, loopVars>>

Owner == (\E w \in Workers : Spawn(w)) \/ AllStarted \/ QuitLoop \/ WakeLoop \/ Stopped

Worker(w) == Construct(w) \/ Register(w) \/ Count(w) \/ EnterLoop(w) \/ Check(w)
               \/ PollWakeup(w) \/ Discount(w) \/ Destruct(w)

Next == Start \/ Stop \/ Owner \/ \E w \in Workers : Worker(w) \/ PollOther(w)

Spec == Init /\ [][Next]_vars

\* All threads are scheduled; other channels need not have events, ever.
FairSpec == Spec /\ WF_vars(Owner) /\ \A w \in Workers : WF_vars(Worker(w))
-----------------------------------------------------------------------------
InLoop(w) == wpc[w] \in {"check", "poll", "leave"}

\* Every variable has its type, and current_num_ counts the threads between its
\* increment and its decrement.
TypeOK ==
    /\ opc \in {"idle", "spawn", "quit", "wakeup"}
    /\ created \in 0..LoopNum
    /\ cursor \in 0..LoopNum + 1
    /\ started \in BOOLEAN
    /\ loops \in Seq(Workers)
    /\ currentNum \in 0..LoopNum
    /\ wpc \in [Workers -> {"absent", "construct", "register", "count", "start",
                            "check", "poll", "leave", "destruct"}]
    /\ alive \subseteq Workers
    /\ quit \in [Workers -> BOOLEAN]
    /\ eventfd \in [Workers -> BOOLEAN]

\* After start() and until stop(), getLoop always finds loop_num_ loops, all different
\* and none of them destroyed.
GetLoopIsSafe ==
    started /\ opc = "idle" =>
        /\ Len(loops) = LoopNum
        /\ \A k, l \in 1..Len(loops) : loops[k] = loops[l] => k = l
        /\ \A k \in 1..Len(loops) : loops[k] \in alive

\* When stop() has returned, no thread is inside a loop any more.
StopIsComplete == opc = "idle" /\ ~started => \A w \in Workers : ~InLoop(w) /\ wpc[w] # "start"

\* Together, with the types of the variables.
PoolIsSafe == TypeOK /\ GetLoopIsSafe /\ StopIsComplete

\* Once every loop of the pool is running, stop() returns.
StopReturnsOnceLooping ==
    opc = "quit" /\ cursor = 1 /\ (\A k \in 1..Len(loops) : InLoop(loops[k])) ~> ~started
=============================================================================
