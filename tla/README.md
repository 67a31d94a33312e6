# Verification of pax

TLA+ models of **pax** (the library under `src/pax`), the TLC configurations that check them and
TLAPS proofs about them. pax is a small C++ network library after muduo, with a second, coroutine
based way to write a server, and an asynchronous logger. Paths below are relative to `src/pax`.

* [1. The system](#1-the-system)
* [2. Modules](#2-modules)
* [3. Runs](#3-runs)
* [4. Fairness](#4-fairness)
* [5. Proofs](#5-proofs)
* [6. What the code does otherwise than it says](#6-what-the-code-does-otherwise-than-it-says)
* [7. What is not modelled, and the plan](#7-what-is-not-modelled-and-the-plan)

## 1. The system

### 1.1 Coroutine side (`coroutine/`)

**coservice** schedules coroutines on any number of threads that call `run`. State: the queue
`task_items_` guarded by `task_mutex_` with the condition `task_cond_`, the epoll instance, the
timing wheel guarded by `time_mutex_`, `item_count_`, the list `done_items_`, the arrays of the
reactor (`revents_`, `timenodes_`). A null pointer in the queue is a *token*: the thread that
takes it executes `doReactor` (one epoll_wait, one look at the wheel), queues every coroutine
with an event or a timeout, deletes finished coroutines, and puts the token back. Each item has
`handling_` (a thread resumed it and has not released it yet) and a timenode. A coroutine calls
`yield(ms)` to wait for its descriptor or a timeout. *Hard:* an event may arrive for a coroutine
that is still running down to its yield; a timeout and an event may come in one round; items are
deleted while epoll's results may still point to them; a thread may sleep while the last work
goes away. *Correct when:* the token is neither lost nor duplicated, no coroutine is resumed
twice at once, nothing deleted is reached, a timed wait always ends, all threads return at the end.

**coloop** is the scheduler for a single thread (`loop`, `quit`, `setTimeout`), with creation of
items from other threads. *Hard:* an event and a timeout of the same item in one round; an item that
ends while the lists of the round are worked off; a read that changes the events of its socket and
has to put them back. *Correct when:* each item the loop points to exists and can be resumed, and what
waits with a timeout or has an event is resumed. **coroutine** keeps per thread a call stack of
contexts with five states each; coroutines may share a stack, which is saved and restored around a
switch. *Hard:* two shared coroutines that resume each other, a switch for which there is no memory,
a resume in the wrong thread. *Correct when:* states and call stacks agree, and a coroutine finds its
own frames. **coevent** does non-blocking reads and writes around a yield. **timewheel** keeps
timenodes in `wheels_` slots of one millisecond with a count of rounds: `addTimenode`,
`removeTimenode`, `getTimeouts`.
*Correct when:* each node expires exactly at its deadline as seen by the wheel's own clock.

### 1.2 Event loop side (`net/`)

**eventloop** is one thread: poll, call the active channels, execute functors, until `quit`.
**eventqueue** is the queue through which other threads hand it functors, with an eventfd to wake
it. *Hard:* a push that falls between the last look at the queue and poll; functors queued by
functors; a quit from another thread. *Correct when:* the loop never sleeps on work, functors are
executed once and in order, and those queued before quit are executed before `loop` returns.

**timerqueue** keeps the timers of a loop in a set ordered by time, with a timerfd armed for the
first. *Hard:* callbacks that add and cancel timers while the batch they belong to is executed;
identity of timers whose memory is used again; times that have passed. *Correct when:* no timer
is lost or freed twice, exactly the cancelled ones are dropped, and each timer's turn comes.

**elthreadpool** starts and stops threads with one eventloop each. *Hard:* it shares `loops_` and
`current_num_` with threads that start and end. *Correct when:* `getLoop` finds live loops only,
and `stop` returns, after every thread has left its loop.

**tcpconnection** has four states, an input and an output **buffer**, and lives in one loop; other
threads read its state without a lock and ask it through functors. *Hard:* what is asked arrives
after the connection has changed; partial writes; several ends of a connection at once; callbacks
that close it between two handlers. *Correct when:* messages go out one after the other, none
inside another, and in each thread's order, pending output goes out, nothing follows the FIN, the connection is closed exactly once,
and a closed one is not registered with the loop.

**tcpserver** accepts connections in its own loop and gives them to the pool's. They are shared by
`connections_`, by functors and by users, and built in places of a **memorypool**. *Hard:* the last
reference may be dropped in any thread, but the place is given back in the server's; descriptors and
places are used again; the destructor runs while the pool's loops do. *Correct when:* nothing refers
to a destroyed connection, no place and no entry is mixed up with that of another connection, and a
closed connection is released. **channel**, **epoll**, **poll** register descriptors with a loop;
removal from `poll` moves another channel. *Correct when:* marks, `pollfds_` and `channels_` agree.

### 1.3 Logging and base (`log/`, `base/`)

**asynclogger**: any thread appends records to a ring of 64 MB without a lock, claiming ranges of
sequence numbers with an atomic addition; one thread writes what is published to a **logfile**,
which rolls. *Hard:* a full ring, slow producers, the end. *Correct when:* the file holds whole
records in the order of claiming, `append` returns, and what was published is written.

A **logstream** formats a record into a buffer of fixed size. **buffer** holds unread bytes between
two indices of a vector that grows, or whose bytes move to the front. **blockqueue** and
**disruptor** are queues for other programs. **thread** wraps pthreads: `start` waits until the new
thread has taken its functor out of the object. **linknode**, **socket**, **timestamp**, **mysql**
are helpers.

### 1.4 How they interact

```
 tcpserver ──accept──> tcpconnection ──channel──> eventloop ──> epoll/poll
     │  getLoop                │ functors          │   │
     └──> elthreadpool ─threads┴───────────────────┘   ├──> eventqueue (eventfd, lock)
                                                       └──> timerqueue (timerfd)
 coservice ─┬─> coroutine (resume/yield)          any thread ──append──> asynclogger ──> logfile
 coloop    ─┴─> timewheel, epoll, coevent
```

Calls are synchronous within a thread. Threads meet only at the eventqueue's lock and eventfd,
the two mutexes and `task_cond_` of coservice, `time_mutex_` of coloop, the mutex-free counters
of elthreadpool, a few unlocked flags (`quit_`, `state_`, `running_`), and the logger's atomics.

## 2. Modules

| Module | Models | Extends, instantiates |
| --- | --- | --- |
| `CoSched` | what a scheduler of coroutines promises: a coroutine is awaited, ready, running or finished, and each step moves one of them | |
| `CoService` | `coroutine/coservice.cpp`, with the state machine of `coroutine.cpp` and the wheel as a set of pending timeouts | implements `CoSched` |
| `TaskQueue` | what a queue of functors promises | |
| `EventLoop` | `net/eventloop.cpp`, `net/eventqueue.cpp` | implements `TaskQueue`; `SeqSets` |
| `ElThreadPool` | `net/elthreadpool.cpp` and the part of `eventloop` its threads meet in | |
| `TimerQueue` | `net/timerqueue.cpp`, `net/timer.*` | |
| `DeadlineSet` | what a timing wheel promises | |
| `TimeWheel` | `coroutine/timewheel.h` | implements `DeadlineSet` |
| `RecordLog` | what a log promises: whole records, one after the other | |
| `AsyncLogger` | `log/asynclogging.cpp` | implements `RecordLog` |
| `TcpConnection` | `net/tcpconnection.cpp`, with its channel in `channel.cpp`, `epoll.cpp` and the kernel's side of the socket | implements `RecordLog` |
| `Coroutine` | `coroutine/coroutine.cpp`: call stacks, states and shared stacks of all threads | |
| `CoLoop` | `coroutine/coloop.cpp` with `coroutine/coevent.cpp` | instantiates `Coroutine` |
| `TcpServer` | `net/tcpserver.cpp` with `base/memorypool.h`, `socket::accept`, and what its connections do to their state and references | |
| `Poller` | `net/poll.cpp`, `net/epoll.cpp`, the registration of `net/channel.cpp` | |
| `Buffer` | `base/buffer.cpp` | |
| `BlockQueue` | `base/blockqueue.h` | |
| `Thread` | `thread` of `base/thread.cpp` | |
| `LogStream` | `log/logstream.cpp` and `logger::flush` | |
| `LogFile` | `log/logfile.cpp`, `log/fileutil.cpp` | |
| `Blocks` | the classes that the others are built of, which do not interact: one of them at a time | extends `TimeWheel`; instantiates `Coroutine`, `Poller`, `Buffer`, `BlockQueue`, `Thread`, `LogStream`, `LogFile` |
| `SeqSets`, `SeqSetsProofs` | sets of the elements of a sequence, and facts about them | used by proofs |
| `CoServiceProofs`, `EventLoopProofs`, `AsyncLoggerProofs`, `TcpConnectionProofs`, `BlocksProofs` | theorems about the module of that name | extend it |
| `LoopProofs` | theorems about `CoLoop` and `TimerQueue` | extends both |
| `ServerProofs` | theorems about `TcpServer` and `ElThreadPool` | extends both |
| `MC...` | small constants for TLC | extends the module of that name |

Conventions: one action per lock section, system call or access to a shared variable, so that two
threads interleave wherever the code lets them. A variable has the name of the member it stands
for. A program counter (`pc`, `ppc`, `cpc`, `place`) says where a thread is. History variables are marked
as such; no guard reads them except to keep an input from being used twice. The operators named
`X` and `XForgotten`, `XNever`... next to each other are a step of the code and the same step
with a plausible mistake in it ("Mutant of X"); the mistakes show that the properties are able to
fail.

**CoService.** `pc[t]` walks through `run` and `doReactor`: *Fetch* and *Sleep* are the section
under `task_mutex_` (217-229), *Resume* / *Yield* / *Finish* the switch of contexts, *Release*
and *Bury* what follows it; *LockTime* takes `time_mutex_`, which is held over *EpollWait*,
*FilterEvent*, *FilterTimeout* until *UnlockTime*, because `setTimeout` takes it too; *PushBatch*
and *Reap* end the round. `FdReady` is the world. The wheel is the set of linked timenodes, of
which any may expire: a timeout may be early or late, never forgotten. `seats` is the length of
`revents_`.

**EventLoop.** The loop is `Check`, `Poll`, `HandleChannel`/`HandleWakeup`, `Swap`, `DoFunctor`.
The eventfd is its own variable, written after the lock of the queue is released. Users are other
threads and callbacks of the loop itself (*UserCode*).

**ElThreadPool.** The owner calls `start` and `stop` in turn; a worker constructs its loop,
registers it, counts itself, loops, discounts itself, and destroys its loop. `quit` is two steps,
because it sets a flag and then touches the loop's eventqueue.

**TimerQueue.** A timer is an element of `Ids` with an address from `Addrs`; `New` takes any
address that no live timer has, as an allocator may. Times wrap at `Modulus`. The history
variable `late` says that time has passed while the loop worked, or that a timer was made for the
past: then the code gives no guarantee (section 6), and the properties about turns say nothing.
`Unambiguous(id)` says that no other timer ever had the same time and address; for one that had,
a cancellation that came too late (it stays in `cancel_timers_`) deletes the wrong timer, which
`CancelIsExact` leaves out.

**TimeWheel.** `Turn` is one iteration of the loop in `getTimeouts`. `due` remembers the deadline.
The clock of the code is the time of day, set back it makes
`diff` 0 or negative (timewheel.h 122); the model assumes a clock that only goes forward. The
refinement reads the wheel's clock as `lastTime - left`, which moves by one per `Turn`.

**AsyncLogger.** A byte is a pair (record, position), the ring maps slots to bytes. Producers:
*Claim*, wait for space, *Copy*, *Publish*. Reader: *Check*, *Timeout*, *Look*, *Empty* or
*WriteFile* and *Update*. The variable `read_` of the class is written but never read, and left out.

**TcpConnection.** One connection in its loop's thread. `Poll` reports a set of events (`revent`),
which *HandleRead*, *HandleWrite* and *HandleHup* take in the order of `channel::handleEvent`;
between them callbacks of this or another channel may call the connection (*CallInLoop*). Only
when they are handled do functors run. Another thread's call is two steps, the unlocked look at
`state_` (*Call*) and the push of the functor (*QueueInLoop*). `room` is what the kernel's send
buffer can take, so that a write takes all, a part, or fails with EAGAIN. A byte is a pair
(message, position); `Stream`, what was written and what is pending, and `wire`, what was written,
are the log that `RecordLog` describes. `closed` counts calls of `closedCallback`.

**Coroutine.** `stack[t]` is `call_stack_` of a thread above the environment, `frames[t]` says whose
frames lie on its shared stack, `saved[c]` that those of c are in `stack_buff_`. *Resume*, *Yield*
and *Finish* are the whole call with both halves of `swapContext`; *Refuse* is `std::logic_error`,
*ResumeFails* `std::bad_alloc`. A coroutine that was refused because of the thread stays RUNNING;
`refused` remembers it.

**CoLoop.** *Poll*, *Collect* (under `time_mutex_`), *DoItem* and *ItemLeft* (doItem before and after
`resume`), *RoundEnds*. The state of items is that of `Coroutine`, whose *New*, *Resume*, *Yield*,
*Finish* and *Delete* are part of the actions. A body is any sequence of `yield`, `read`, `write` and
`updateEvents`; `op` says which call it waits in. `wheel` is abstract, *Expire* as in CoService.

**TcpServer.** `phase` is where the server's thread is, from `loop()` through the destructor. A
connection is its place in the pool. Who holds a reference: `connections`, the functors in `serverq`
and `ioq`, users (`held`), and `local`, the variable of `acceptConn`; whoever drops the last one runs
`deleter`, at once or through a functor with a plain pointer. `doFunctors` (eventloop.cpp 156-161) keeps
functors in `functors_` after it has executed them, until it is called again: `taken` functors of
`serverq` are in the vector and not executed, `kept` are the connections of those that are, dropped one
by one in *ServerClear* before the next *ServerSwap*; `ioTaken`, `ioKept`, *IoClear* and *IoSwap* are the
same of the io loop. A round begins with an event of whatever kind or a functor, so that a loop with no
functor to execute may sleep for ever (`ServerAwake`, `IoAwake`). `unclosed` are the connections that
were destroyed without being closed. `failed` is an assertion that has aborted the process.

**Poller.** `kind` chooses between the two pollers. Callbacks register, modify and remove any
channel between two steps through `active_channels_`. **Buffer.** Bytes outside of the two indices
become `Junk` whenever the vector changes, so that nothing depends on what was left there.
**BlockQueue.** `stolen` counts notifications that went to `timedwait`. **Thread.** The owner and the
new thread; `started_` is volatile, a store to it is assumed to be seen. **LogStream.** Integers of
`Bits` bits, with division that rounds to zero; texts are sequences of one-character strings, and
`Power`, `Digits` and `Value` recursive functions. That no integer needs more than
`kMaxNumericSize - 3` digits is an assumption on the constants, weaker than what `staticCheck`
(logstream.cpp 53-62) asserts. **LogFile.** `made` is the second and the letter of each file, `Name`
the local time and the letter; `Local` maps seconds to local times and may repeat. `Tie` is computed
modulo the values of a `char`, which is taken as unsigned with the same order of letters (`'A'`-`'Z'`,
`'a'` and all that follow, then from 0 on until `'/'` fails `fopen` and `assert(fp_)`). *AppendPart* begins
`appendfile::append`, *AppendFile(n)* is one `fwrite` in its loop, which writes n of the bytes, and
`remain` is a `size_t`. `short` are the files for which `fwrite` did not write all.

## 3. Runs

| Run | Checks | Instance | States |
| --- | --- | --- | --- |
| `coservice` | `TokenSafe ItemSafe TimedWaitCovered TimedWaitEnds EventHandled ShutdownReturns SchedSafety` | 2 threads, 2 coroutines | 46,786 |
| `coservice_shutdown` | `ShutdownReturns`, violated | 3 threads, 1 coroutine | |
| `eventloop` | `NoLostWakeup QuitDrains RunsTasksInOrder TaskExecuted QuitStops` | 2 callers, 1 channel | 106,824 |
| `elthreadpool` | `PoolIsSafe StopReturnsOnceLooping` | pool of 2, 4 threads | 135,044 |
| `timerqueue` | `TimersSafe CancelIsExact TimerRuns` | 2 timers, once or repeated | 313,512 |
| `asynclogger` | `RingSafe WritesInOrder AppendReturns EverythingWritten` | 3 producers, 4 records, ring of 4 | 279,417 |
| `tcpconnection` | `ConnectionSafe ThreadOrder StreamIntact OutputGoes EndIsNoticed` | 1 other thread, messages of 2 and 1 bytes, send buffer of 1 | 486,291 |
| `tcpconnection_reregistered` | `ClosedIsUnregistered`, violated | the same | |
| `coloop` | `ItemsSafe TimedWaitCovered WaitEnds` | 2 items, room for 1 event | 219,106 |
| `tcpserver` | `PlacesSafe EntriesSafe ClosedIsReleased` | 2 descriptors, 1 place at first | 239,053 |
| `tcpserver_unclosed` | `DestroyedIsClosed`, violated | the same | |
| `blocks` | `Exact OnDeadline CoroutineSafe RegistrationSafe BufferIntact ItemsAwaited ThreadSafe LogIntact` | one class of `Blocks` at a time, constants in `MCBlocks` | 300,885 |

An invariant is stated in named parts: `TokenSafe` is `TypeOK`, `OneToken` and
`NotAllAsleep`; `ItemSafe` is `NoDoubleResume`, `NoUseAfterFree`, `TimenodeIsFree` and `CleanShutdown`
(run returns only when every coroutine has finished); `PoolIsSafe` is
`TypeOK`, `GetLoopIsSafe` and `StopIsComplete`; `TimersSafe` is `MemorySafe` and `FirstIsArmed`;
`ConnectionSafe` is `TypeOK`, `OutputIsWatched`, `FinIsLast` and `ClosedOnce`; `PlacesSafe` is
`PoolSafe` and `ReferencesSafe`; `LogIntact` is `RecordsIntact` and `FilesIntact`. What CoService owes
to `CoSched` is in two properties: `SchedSafety`, its steps, and `EventHandled`, which next to what it says
of events has the fairness of `CoSched` (a runnable coroutine is run in the end).

Why these bounds are enough to be interesting. Two threads are one reactor and one that
resumes, or one that sleeps or waits for the same lock, and the safety properties are proved for any
number of them; two coroutines exceed the initial array of events, so that it grows.
`ShutdownReturns` holds with two threads and not with three:
it takes one sleeper besides the last worker and the reactor. In EventLoop a functor may queue
another, so three functors are one in execution, one in the queue and one in flight. The pool
needs more threads than seats because stopped threads may still be ending when the next ones
start. Three slots and delays up to seven are more than two rounds of the wheel and hit exact
multiples of a round. Records of one and two bytes sum to more than the ring, so producers wait
for space, wrap around, and overtake each other in copying. A message that is longer than the send
buffer is written in parts, a second one can try to get ahead of its rest, and one other thread
next to the user code in the loop is what the unlocked look at `state_` needs. Two items of coloop are
one that runs and one that is in the lists of the round, and with room for one event some wait for
the next round. Two descriptors and a pool that starts with one place make a connection that uses
the descriptor and the place of an earlier one while another is alive, and the pool grow. Of three
coroutines two share a stack, two threads can resume them, and call stacks are two deep, so that one
shared coroutine resumes the other and both overflow and a foreign thread happen. Three channels
are the one removed, the one that moves and one that stays. The buffer is filled, emptied and
overfilled. Three threads at the queue are a putter, a taker and one in `timedwait`. A file ends after
two bytes, and a second has three names: the letters 1 and 2 for `A` and `Z`, then 4 for `a`, then, in a
`char` of five values, 0 for `'/'`; so the log reaches the second alphabet and the abort. Of three seconds
two have the same local time. With `size_t` of eight values, `remain` wraps after a short write of a record
of two bytes and the loop goes on; `MaxFile` ends what would then make a file grow for ever. `CHECK_DEADLOCK FALSE` is set where
the system stops: threads return from `run` or `loop`, all records are written, the bounded
clock has run out.

In LogStream, `RecordsIntact` converts all integers of a width of 5 bits, signed and unsigned, while the
records are put together of a few of them (`Numbers`) and of short texts.

Bounds on what is unbounded in the code: `MaxTime`, `Horizon`, `MaxPosted` (TimerQueue),
`MaxTime`, `MaxDelay` (TimeWheel), `MaxQueued` (TcpConnection, TcpServer), `MaxStops` (TcpServer: the stops
that are queued at a time), `MaxLen`, `MaxUsed` (Buffer), `MaxLen` (BlockQueue), `MaxLen`, `MaxBytes`,
`MaxFile`, `MaxTime` (LogFile), finite sets of functors,
timers, records and messages that are used once each. Where a clock is bounded, liveness is only
stated for times within `Horizon`.

## 4. Fairness

* CoService: every thread that can move keeps moving (the kernel schedules it), coroutines yield
  or finish, and linked timeouts expire. epoll_wait returns even without events, after 1 ms
  (coservice.cpp 137). `SF` is used where a mutex is contended. Events of descriptors are *not*
  assumed to come.
* EventLoop, ElThreadPool: the loop's thread and callers inside a library call keep moving. No
  other channel need ever have an event: `poll` may sleep forever unless the eventfd is readable.
* TimerQueue: the loop keeps moving, polls now and then although functors keep coming, and time
  passes. AsyncLogger: producers that may move do, and the reader's timed wait ends
  (asynclogging.cpp 92).
* TcpConnection: the loop keeps moving and polls now and then, a thread that is about to queue a
  functor does so, and a peer with a working connection reads in the end.
* CoLoop: the loop's thread is scheduled, linked timenodes expire, and a body, whatever it calls
  before, yields or ends some time (`SF`, since it may go on calling for ever). epoll_wait returns
  after 1 ms (coloop.cpp 138). Events are not assumed to come, so that `WaitEnds` says nothing of a
  wait without a timeout on a quiet socket.
* TcpServer: both threads are scheduled as long as their loops are awake, and a round of the io loop
  handles a bounded number of events (`active_channels_` is finite). No event need ever come, and a user
  may keep a connection for ever: `ClosedIsReleased` says which connections then stay, those a user keeps
  and those that only executed functors in `functors_` of a sleeping loop keep (`Kept`).
* Nothing is assumed about users: whether they call `quit`, `stop`, `append` is up to them.

## 5. Proofs

`CoServiceProofs` proves for any number of threads and coroutines, and any initial length of the
array of events, every safety property that `coservice` checks. None of them is inductive.
The invariant `IInv` adds: which variables each program point has set (a thread between resume
and release holds exactly one item, which is marked `handling_`); where each item may be
(queue, one thread's hand, the reactor's batch, epoll) so that these places exclude each other;
that the token is either queued once or its holder is inside `doReactor`; that an item which is
parked with a timeout is linked, in the batch or queued; and a count that relates `item_count_`
to the items that are not buried. `Init => IInv` and one lemma per action show that it is
inductive; the safety properties follow from it by propositional steps. `SchedulerImplemented` is the
refinement of the safety part of `CoSched`. Under the mapping a coroutine is running while a thread
is in it, runnable while its `handling_` is set otherwise, and so on (`StatusOf`, `WorkerOf`). `IInv` says
that no two threads are in one coroutine, so that each step changes the status of the coroutines it is
about and of no other (`WorkerExact`, `WorkerIs`). Most steps are stutters; a resume is `Dispatch`, and
the reactor's steps, which wake or delete several at once, are `Wake` and `Delete`.

`EventLoopProofs` does the same for the event loop: the invariant relates the queue, the eventfd
and the position of the loop (work in the queue is announced by the eventfd, by a caller that
is about to write it, or is ahead of the loop in its round), and functors to the single place
they are in. It also proves that EventLoop implements `TaskQueue`: every step is a step of the
abstract queue or leaves it alone.

`ServerProofs` proves `PlacesSafe` and `EntriesSafe` of TcpServer for any number of descriptors,
users, calls and places that the pool begins with. `PlaceOK` says of each place what it is used for: a
connection that something refers to, or for which `deleterInLoop` is queued, never both; a connection
that is not closed has its entry, or is `new_` of `acceptConn`. So nobody but the server's thread can
drop the last reference of one that is open, `removeConnInLoop` is queued at most once, and the
assertion of `destroyPtr` can fail in the destructor only. There `VisitedOK` says of the entries the
destructor has passed that each is closed, has a `close` queued, or was skipped because it was
connecting or shutting down. `StartsOK` (while
`start` of a connection is queued, no other functor of it is) keeps a functor from opening a
connection again.
That the pool has at most twice the places that can be needed follows from `FullPool`: as many
connections as places means as many descriptors.

It also proves `PoolIsSafe` of ElThreadPool for any set of threads and any size of the pool, also
when it is started again while threads of its last round still end. The invariant has one part
for each phase of the owner. It compares three nested sets, the threads that were created and have
not left, those in `loops_` and those that `current_num_` counts: in `start` their sizes are
`created`, `Len(loops)` and `current_num_`, so that equal numbers make the sets equal, which is
what the loop of line 23 relies on; between `start` and the end of `stop` all are one set, or
shrink together. `NobodyLeaves` (no loop has its `quit_` set unless `stop` runs) is what makes
these numbers stay.

`AsyncLoggerProofs` proves `RingSafe` for any ring, producers and records, and that AsyncLogger
implements `RecordLog`. What is in the ring and needed, whether published and not yet written or claimed
and copied, has sequence numbers of which no two are a whole ring apart, and so slots of its own
(`ClaimsApart`, `CopiesOK`); `FileOK` says that the file is the beginning of the order of claiming.
That a claim waits until its *end* is at most `RingSize` ahead of the reader is what the step that
copies relies on.

`TcpConnectionProofs` proves `ConnectionSafe`, `ThreadOrder` and `StreamIntact` (an implementation of
`RecordLog`) for any messages, send buffer, water mark and threads. `NotYet` adds what has not happened
in early states of the connection. The order is a relation between three places: a message is in the
hand of a thread (`cpc`), in the queue of functors, or in the stream, in one of them at a time, and
none is in a later place than one that its thread sent after it (`OrderInv`).

`BlocksProofs` has one invariant for each class of `Blocks`, under the assumptions of its module:

* thread: the owner stays in `start` until the thread has set `started_`; `joinable_` is the right
  to join, given up once (`ThreadInv`);
* blockqueue: `ItemsAwaited` is inductive with the types and the finiteness of the set of those
  woken up (`QueueInv`);
* timewheel: `Exact` is, with the place of the wheel's clock between two looks (`WheelInv`), since
  a turn brings every slot nearer by one but the one it comes to; it gives the refinement of
  `DeadlineSet`;
* buffer: the bytes between the two indices are `unread` (`BufferInv`);
* the pollers: `channels_` maps the descriptors of the registered channels to them, and for `poll`
  marks are places in `pollfds_`, each of one channel (`PollerInv`), which the swap of
  `removeChannel` keeps;
* coroutine: call stacks hold each coroutine once and in one thread; its state is its place there;
  frames are on a shared stack or saved (`CoInv`). Which coroutines `resume` accepts is what keeps this;
* logfile: files follow each other in the order of (second, place of the letter) (`Before`, `Nth`), and
  before a file whose letter is the n-th of its second there are n others of this second (`Streak`), so
  that no letter comes twice in a second and `'/'` comes after all of them; what was logged is the
  full files before and `writtenBytes`, and each file has bytes of its part of the log only, all of
  them and in order unless a write was short (`FileInv`); this proves `FilesIntact`, one half of
  `LogIntact`;
* logstream: the buffer is the texts that were put into it, one after the other, and always leaves room
  for the newline (`StreamInv`); this is the other half, `RecordsIntact`, together with
  `ConversionIsExact`: the text of every integer of `Bits` bits, also of the smallest one, is that
  integer, has no zero in front and fits. That is induction over data, in a form the provers can
  do: what is shown by induction is a set of numbers, not a predicate (`Induction`), and the
  functions that the recursive definitions choose exist, since values that are computed one from the
  other do (`Recursion`). `DigitsExist` and `DigitsIs` say that `Digits` satisfies its equation,
  `DigitInduction` goes along the quotients, by which `DigitsValue` shows that `Value` undoes `Digits`,
  and `DigitsLength` counts the digits against the powers of the base.

`LoopProofs` is about the two that keep what waits in a loop. For coloop, `CurOK` ties
the item that runs to the call stack, `ListsOK` says that the lists of the round hold items that wait
and each one once, and `LinksOK` who is linked and registered; `ItemsSafe` and `TimedWaitCovered` follow. For timerqueue, `OwnersOK` adds to `OwnedOnce` what is empty when,
`TimesShort` that no time reaches the width of the type, so that `%` is not felt where the code is in
time, `ArmedOK` that a loop which was never late leaves no timer in the set that is due, and
`CancelsOK` that what is in `cancel_timers_` was wanted or belongs to a timer that is gone, which is
what `CancelIsExact`, an action property, needs. The first timer of a set of any size exists because
the natural numbers are well-ordered (`Least`).

`SeqSetsProofs` has facts about sequences and remainders, and induction and recursion over the natural
numbers for sets and functions. Assumptions are those in the modules
(`ASSUME`), which TLC evaluates in every run.

Only model-checked remains what is about fairness: `TimedWaitEnds`, `EventHandled`, `ShutdownReturns`,
`TaskExecuted`, `QuitStops`, `StopReturnsOnceLooping`, `TimerRuns`, `AppendReturns`, `EverythingWritten`,
`OutputGoes`, `EndIsNoticed`, `WaitEnds`, `ClosedIsReleased`, and with them the runs that must fail; the
prover has no rule for them. Every invariant and every action property that a passing run checks is a
theorem.

## 6. What the code does otherwise than it says

Three disagreements have a run that must fail; PROJECT.json quotes the line it contradicts.

1. `coservice_shutdown`: a thread asleep on `task_cond_` when the last coroutine finishes is never
   notified, so `run` does not return in it and a join hangs (coservice.cpp 216-220).
2. `tcpconnection_reregistered`: a callback that closes the connection between poll and handleWrite
   makes handleWrite register the removed channel again (tcpconnection.cpp 182), and the
   destructor's `assert(mark_ == -1)` (channel.cpp 24) cannot hold.
3. `tcpserver_unclosed`: the destructor's `forceClose` does nothing for a connection that is connecting
   or shutting down (tcpconnection.cpp 57), which is then destroyed although it is not closed, against
   `assert(state_ == kDisConnected)` (tcpconnection.cpp 34).

Others are in the models, without a run of their own; the properties state what holds besides.
`loop` resets `quit_` (eventloop.cpp 73), so the quit of a `stop` that comes between `start` of a pool and
the thread's `loop` is lost and `stop` waits for ever; `StopReturnsOnceLooping` is about the pools whose
threads are inside. `resetTimerfd` subtracts unsigned times (timerqueue.cpp 108): for a time that has
passed the timerfd is armed half a million years ahead; `TimerRuns` leaves these cases out (`late`).
`socket::accept` returns 0 when nobody is waiting (socket.cpp 104), but `acceptConn` stops only at -1
(tcpserver.cpp 74): a connection with descriptor 0 is built and `assert(fd_ > 0)` (socket.cpp 26) aborts
(*AcceptNone*). `handleEvent` and `handleClose` go on with a connection after `closedCallback`
(tcpconnection.cpp 172, channel.cpp 42-47), although nothing keeps it: the server's thread may have
destroyed it; TcpServer has what they do in one step. A `deleterInLoop` that is queued after the server's loop has returned
is never executed, and its connection never destroyed (*DestructorEnds*). A resume that is refused because
of the thread leaves the coroutine RUNNING, and it can never be resumed again (coroutine.cpp 194, 203).
`coevent::write` waits for readability (coevent.cpp 66), and after a timeout tries only once more,
where the header says that it writes everything or times out (coevent.h 34). A notification of a
blockqueue may go to `timedwait`, which takes nothing, while a taker sleeps (blockqueue.h 41). The functors
that a loop executed last, and the connections they are bound to, stay in `functors_` until it wakes
up again (eventloop.cpp 157): on a quiet server the connection closed last keeps its descriptor, which
`ClosedIsReleased` allows (`Kept`). After 232 files in one second the letter is `'/'`, `fopen` fails and
`assert(fp_)` aborts (logfile.cpp 78); local times come again when summer time ends, and with them names
(68-69); `appendfile::append` writes the same bytes again after a short `fwrite`, may then never end when
`remain` wraps, and counts bytes as written that were not (fileutil.cpp 16-28). `FilesIntact` says what is
true of the files all the same. `eventloop::quit` sets
`quit_` and then uses `eventque_`, while the loop may already be destroyed (eventloop.cpp 92-95). A
cancellation that came too late stays behind in `cancel_timers_` (timerqueue.cpp 95). Records
published between two reads of the logging thread are lost at exit (asynclogging.cpp 95-98).
`shutDown` while output is pending is forgotten (tcpconnection.cpp 108), and a first write that
would block drops its message (137).

## 7. What is not modelled, and the plan

Not meant to be modelled: `mysql`, `timestamp` and most of `socket` (wrappers of libraries and system
calls), `linknode` (unused), `disruptor` (unused, and it does not compile as it is: its
`sharedatomic` has no `++`; its protocol is that of asynclogger), the programs under `test/`, which
show how the library is called. Memory ordering weaker than sequential consistency is not modelled: shared plain variables
such as `quit_` and `started_` are read and written as if atomic.

Left out of what is modelled: `loopnum = 0` in TcpServer, where the server's loop is also the io loop; the
formatting of doubles, times and errno in logstream; `swap` and `findCRLF` of buffer; WRITE and edge
triggered events of coevent; bytes that overlap where buffer moves them (buffer.cpp 53), and the file
buffer of `appendfile`; a clock that is set back (timewheel.h 122; logfile.cpp 74); callbacks that destroy a channel which is still in `active_channels_`
(eventloop.cpp 79).

Planned, in this order:

1. TcpConnection composed with Poller and Buffer, so that the two buffers and the mark of the channel
   are those of the code.
2. TcpServer with `loopnum = 0`, and with connections of two loops.
