------------------------------- MODULE Blocks -------------------------------
(***************************************************************************)
(* The classes that the others are built of: the timing wheel, the         *)
(* coroutines of some threads, the two pollers, the buffer, the blocking   *)
(* queue, the thread, and the log's records and files.  They do not        *)
(* interact: BlocksInit chooses one of them, part, and the others stay as  *)
(* they are.                                                               *)
(***************************************************************************)
EXTENDS TimeWheel, Sequences

CONSTANTS
    CoThreads, Coroutines, Shared, Depth,                       \* Coroutine
    Channels, Fds,                                              \* Poller
    kCheapPrepend, kInitialSize, Period, Junk, MaxCall, MaxUsed, \* Buffer
    Threads, Items, MaxQueue,                                   \* BlockQueue
    SIZE, kMaxNumericSize, Bits, Texts, Numbers,            \* LogStream
    rollsize_, Local, A, Z, a, Slash, CharMod, SizeMod,
        MaxRecord, MaxBytes, MaxFile, LastSecond                \* LogFile

VARIABLES
    part,
    state, home, stack, frames, saved, refused,          \* Coroutine
    kind, fd, mark, pollfds, channels, active,           \* Poller
    cells, begin, end, unread,                           \* Buffer
    queue, waits, stolen,                                \* BlockQueue
    object, func, started, joinable, opc, rpc, reaped,   \* Thread
    data, put, written,                                  \* LogStream
    time, lastRoll, tie, made, contents, writtenBytes, len,
        temp, remain, logged, short, aborted             \* LogFile

coVars == <<state, home, stack, frames, saved, refused>>
poVars == <<kind, fd, mark, pollfds, channels, active>>
buVars == <<cells, begin, end, unread>>
bqVars == <<queue, waits, stolen>>
thVars == <<object, func, started, joinable, opc, rpc, reaped>>
lsVars == <<data, put, written>>
lfVars == <<time, lastRoll, tie, made, contents, writtenBytes, len, temp, remain, logged, short, aborted>>

Co == INSTANCE Coroutine WITH Threads <- CoThreads
Po == INSTANCE Poller
Bu == INSTANCE Buffer WITH MaxLen <- MaxCall
BQ == INSTANCE BlockQueue WITH MaxLen <- MaxQueue, pc <- waits
Th == INSTANCE Thread
LS == INSTANCE LogStream
LF == INSTANCE LogFile WITH MaxLen <- MaxRecord, MaxTime <- LastSecond, now <- time

ASSUME BlocksAssumption ==
    /\ Co!CoroutineAssumption /\ Po!PollerAssumption /\ Bu!BufferAssumption
    /\ BQ!BlockQueueAssumption /\ LS!LogStreamAssumption /\ LF!LogFileAssumption

BlocksInit ==
    /\ part \in {"timewheel", "coroutine", "poller", "buffer", "blockqueue", "thread",
                "logstream", "logfile"}
    /\ Init /\ Co!CoInit /\ Bu!Init /\ BQ!Init /\ Th!Init /\ LS!Init /\ LF!Init
    /\ Po!Init /\ (part = "poller" \/ kind = "poll")

Wheel ==
    part = "timewheel" /\ Next /\ UNCHANGED <<part, coVars, poVars, buVars, bqVars, thVars, lsVars, lfVars>>

CallStacks ==
    part = "coroutine" /\ Co!Next /\ UNCHANGED <<part, vars, poVars, buVars, bqVars, thVars, lsVars, lfVars>>

Pollers ==
    part = "poller" /\ Po!Next /\ UNCHANGED <<part, vars, coVars, buVars, bqVars, thVars, lsVars, lfVars>>

Buffers ==
    part = "buffer" /\ Bu!Next /\ UNCHANGED <<part, vars, coVars, poVars, bqVars, thVars, lsVars, lfVars>>

Queues ==
    part = "blockqueue" /\ BQ!Next /\ UNCHANGED <<part, vars, coVars, poVars, buVars, thVars, lsVars, lfVars>>

TheThread ==
    part = "thread" /\ Th!Next /\ UNCHANGED <<part, vars, coVars, poVars, buVars, bqVars, lsVars, lfVars>>

Records ==
    part = "logstream" /\ LS!Next /\ UNCHANGED <<part, vars, coVars, poVars, buVars, bqVars, thVars, lfVars>>

Files ==
    part = "logfile" /\ LF!Next /\ UNCHANGED <<part, vars, coVars, poVars, buVars, bqVars, thVars, lsVars>>

BlocksNext ==
    \/ Wheel \/ CallStacks \/ Pollers \/ Buffers \/ Queues
    \/ TheThread \/ Records \/ Files

blocksVars == <<part, vars, coVars, poVars, buVars, bqVars, thVars, lsVars, lfVars>>

BlocksSpec == BlocksInit /\ [][BlocksNext]_blocksVars
-----------------------------------------------------------------------------
\* The invariants of the modules, where they are stated and explained:
\* the states of coroutines and their call stacks (coroutine.cpp) agree, ...
CoroutineSafe == Co!CoroutineSafe

\* ... marks, pollfds_ and channels_ (poll.cpp, epoll.cpp) agree, ...
RegistrationSafe == Po!RegistrationSafe

\* ... the buffer (buffer.cpp) holds what was put into it, ...
BufferIntact == Bu!BufferIntact

\* ... a taker does not sleep beside items (blockqueue.h), ...
ItemsAwaited == BQ!ItemsAwaited

\* ... a thread does not use an object that is gone (thread.cpp), ...
ThreadSafe == Th!ThreadSafe

\* ... the log's records (logstream.cpp) are what was logged, and so are its files (logfile.cpp)
\* as far as fwrite writes what it is given.
LogIntact == LS!RecordsIntact /\ LF!FilesIntact
=============================================================================
