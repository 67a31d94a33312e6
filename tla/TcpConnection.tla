---------------------------- MODULE TcpConnection ----------------------------
(***************************************************************************)
(* A tcpconnection (pax/net/tcpconnection.cpp) with its channel and the    *)
(* kernel's side of its socket.  It lives in the thread of one eventloop;  *)
(* other threads look at state_ without a lock and hand the loop functors. *)
(*                                                                         *)
(* The loop executes either the handlers of the events that poll reported  *)
(* for the channel (revent), or functors.  In between, callbacks of this   *)
(* and of other channels are user code, which calls the connection in the  *)
(* loop's thread.                                                          *)
(*                                                                         *)
(* A byte is a pair of a message and a position in it.                     *)
(***************************************************************************)
EXTENDS Integers, Sequences, FiniteSets

CONSTANTS Callers,    \* other threads that use the connection
          Loop,       \* the loop's thread
          Messages,   \* messages, each sent at most once
          Size,       \* the length of each message
          Room,       \* capacity of the socket's send buffer
          Watermark,  \* watermark_
          MaxQueued   \* bound of the queue of functors for new calls

ASSUME SizeAssumption ==
    /\ Size \in [Messages -> Nat \ {0}]
    /\ Room \in Nat \ {0} /\ Watermark \in Nat /\ MaxQueued \in Nat
ASSUME LoopAssumption == Loop \notin Callers

VARIABLES
    state,     \* state_
    closed,    \* how often closedCallback was called (history variable)
    reading,   \* the channel's event_ has kReadEvent
    writing,   \* the channel's event_ has kWriteEvent
    marked,    \* the channel is registered with the poller (mark_ # -1)
    output,    \* buffer2_
    wire,      \* the bytes that the kernel has taken
    shut,      \* shutdownWrite was called
    functors,  \* functors and callbacks queued in the loop
    revent,    \* events of the channel that poll reported and that are not handled yet
    delayed,   \* a timer of forceCloseWithDelay is running
    cpc,       \* the functor each other thread is about to queue, <<>> for none
    asked,     \* the messages each thread sent, in order (history variable)
    room,      \* free space in the socket's send buffer
    data,      \* unread bytes have arrived
    fin,       \* the peer has closed its side
    reset      \* the connection is broken

stateVars  == <<state, closed, shut>>
chanVars   == <<reading, writing, marked>>
streamVars == <<output, wire, room>>
loopVars   == <<functors, revent, delayed>>
callVars   == <<cpc, asked>>
peerVars   == <<data, fin, reset>>

vars == <<stateVars, chanVars, streamVars, loopVars, callVars, peerVars>>

Bytes(m) == [k \in 1..Size[m] |-> <<m, k>>]

\* acceptConn has created the connection and runs start in its loop.
Init ==
    /\ state = "kConnecting" /\ closed = 0 /\ shut = FALSE
    /\ reading = FALSE /\ writing = FALSE /\ marked = FALSE
    /\ output = <<>> /\ wire = <<>> /\ room = Room
    /\ functors = <<<<"start">>>> /\ revent = {} /\ delayed = FALSE
    /\ cpc = [c \in Callers |-> <<>>]
    /\ asked = [t \in Callers \cup {Loop} |-> <<>>]
    /\ data = FALSE /\ fin = FALSE /\ reset = FALSE
-----------------------------------------------------------------------------
(***************************************************************************)
(* What the loop's thread does; queue is what the queue of functors has    *)
(* become by then.                                                         *)
(***************************************************************************)
Lesser(a, b) == IF a < b THEN a ELSE b

Start(queue) ==
    /\ state = "kConnecting"
    /\ state' = "kConnected"
    /\ reading' = TRUE
    /\ marked' = TRUE
    /\ functors' = queue
    /\ UNCHANGED <<closed, shut, writing, streamVars>>

\* Mutant of Closable: handleClose does not look whether it was called before.
ClosableAlways == TRUE

\* state_ == kDisConnected: return
Closable == state # "kDisConnected"

HandleClose(queue) ==
    /\ IF Closable
       THEN state' = "kDisConnected" /\ marked' = FALSE /\ closed' = closed + 1
       ELSE UNCHANGED <<state, marked, closed>>
    /\ functors' = queue
    /\ UNCHANGED <<shut, reading, writing, streamVars>>

\* Mutant of Idle: the end of the output is not waited for.
IdleAlways == TRUE

\* !channel_.isWriting()
Idle == ~writing

ShutDownInLoop(queue) ==
    /\ IF state = "kConnected" /\ Idle
       THEN state' = "kDisConnecting" /\ shut' = TRUE
       ELSE UNCHANGED <<state, shut>>
    /\ functors' = queue
    /\ UNCHANGED <<closed, chanVars, streamVars>>

StartReadInLoop(queue) ==
    /\ reading' = (reading \/ state = "kConnected")
    /\ functors' = queue
    /\ UNCHANGED <<stateVars, writing, marked, streamVars>>

StopReadInLoop(queue) ==
    /\ reading' = (reading /\ state # "kConnected")
    /\ functors' = queue
    /\ UNCHANGED <<stateVars, writing, marked, streamVars>>

Broken == reset \/ shut

\* Mutant of Direct: a message overtakes the output that is pending.
DirectAlways == TRUE

\* !channel_.isWriting() && buffer2_.usedBytes() == 0
Direct == ~writing /\ output = <<>>

\* Mutant of Watched: the rest of a message is buffered, but not watched.
WatchedNever == writing

\* if (!channel_.isWriting()) channel_.enableWriting();
Watched == TRUE

\* The rest of a message is buffered.
Buffer(bytes, queue) ==
    /\ output' = output \o bytes
    /\ writing' = Watched
    /\ marked' = TRUE
    /\ functors' = IF Len(output') >= Watermark THEN Append(queue, <<"highWater">>) ELSE queue

\* The connection is not open, or write failed (also with EAGAIN): the message is dropped.
SendNothing(m, queue) ==
    /\ state # "kConnected" \/ (Direct /\ (Broken \/ room = 0))
    /\ functors' = queue
    /\ UNCHANGED <<chanVars, streamVars>>

SendDirectly(m, queue) ==
    /\ state = "kConnected" /\ Direct /\ ~Broken /\ room > 0
    /\ LET n == Lesser(room, Size[m]) IN
        /\ wire' = wire \o SubSeq(Bytes(m), 1, n)
        /\ room' = room - n
        /\ \/ /\ n = Size[m]
              /\ functors' = Append(queue, <<"sendDone">>)
              /\ UNCHANGED <<output, writing, marked>>
           \/ /\ n < Size[m]
              /\ Buffer(SubSeq(Bytes(m), n + 1, Size[m]), queue)
    /\ UNCHANGED reading

SendBuffered(m, queue) ==
    /\ state = "kConnected" /\ ~Direct
    /\ Buffer(Bytes(m), queue)
    /\ UNCHANGED <<reading, wire, room>>

SendInLoop(m, queue) ==
    /\ SendNothing(m, queue) \/ SendDirectly(m, queue) \/ SendBuffered(m, queue)
    /\ UNCHANGED stateVars

\* sendDoneCallback and highWaterCallback: user code.
Callback(queue) ==
    /\ functors' = queue
    /\ UNCHANGED <<stateVars, chanVars, streamVars>>

Do(op, queue) ==
    \/ op[1] = "start" /\ Start(queue)
    \/ op[1] = "send" /\ SendInLoop(op[2], queue)
    \/ op[1] = "shutDown" /\ ShutDownInLoop(queue)
    \/ op[1] = "forceClose" /\ HandleClose(queue)
    \/ op[1] = "startRead" /\ StartReadInLoop(queue)
    \/ op[1] = "stopRead" /\ StopReadInLoop(queue)
    \/ op[1] \in {"sendDone", "highWater"} /\ Callback(queue)

\* The loop executes functors when the events of its channels are handled.
RunFunctor ==
    /\ revent = {}
    /\ functors # <<>>
    /\ Do(Head(functors), Tail(functors))
    /\ UNCHANGED <<revent, delayed, callVars, peerVars>>
-----------------------------------------------------------------------------
(***************************************************************************)
(* The users.                                                              *)
(***************************************************************************)
Requests == {<<"shutDown">>, <<"forceClose">>, <<"startRead">>, <<"stopRead">>}
              \cup {<<"send", m>> : m \in Messages}

Fresh(m) == \A t \in DOMAIN asked : \A k \in DOMAIN asked[t] : asked[t][k] # m

Note(t, op) ==
    IF op[1] = "send" THEN Fresh(op[2]) /\ asked' = [asked EXCEPT ![t] = Append(@, op[2])]
                      ELSE UNCHANGED asked

\* Another thread finds state_ == kConnected ...
Call(c, op) ==
    /\ state = "kConnected"
    /\ cpc[c] = <<>>
    /\ Len(functors) < MaxQueued
    /\ Note(c, op)
    /\ cpc' = [cpc EXCEPT ![c] = op]
    /\ UNCHANGED <<stateVars, chanVars, streamVars, loopVars, peerVars>>

\* ... and queues the functor.
QueueInLoop(c) ==
    /\ cpc[c] # <<>>
    /\ functors' = Append(functors, cpc[c])
    /\ cpc' = [cpc EXCEPT ![c] = <<>>]
    /\ UNCHANGED <<stateVars, chanVars, streamVars, revent, delayed, asked, peerVars>>

\* User code in the loop's thread: runInLoop does it at once.
CallInLoop(op) ==
    /\ state = "kConnected"
    /\ Note(Loop, op)
    /\ Do(op, functors)
    /\ UNCHANGED <<revent, delayed, cpc, peerVars>>

ForceCloseWithDelay ==
    /\ state = "kConnected"
    /\ delayed' = TRUE
    /\ UNCHANGED <<stateVars, chanVars, streamVars, functors, revent, callVars, peerVars>>

\* The timer of forceCloseWithDelay expires.
DelayedClose ==
    /\ delayed
    /\ delayed' = FALSE
    /\ HandleClose(functors)
    /\ UNCHANGED <<revent, callVars, peerVars>>
-----------------------------------------------------------------------------
(***************************************************************************)
(* The channel's events.                                                   *)
(***************************************************************************)
Events ==
    {e \in {"in", "out", "hup"} :
        \/ e = "in" /\ reading /\ (data \/ fin \/ reset)
        \/ e = "out" /\ writing /\ (room > 0 \/ Broken)
        \/ e = "hup" /\ (reset \/ (fin /\ shut))}

Poll ==
    /\ revent = {}
    /\ marked
    /\ Events # {}
    /\ revent' = Events
    /\ UNCHANGED <<stateVars, chanVars, streamVars, functors, delayed, callVars, peerVars>>

\* Mutant of EndOfStream: that 0 bytes were read is taken for an error.
EndOfStreamNever == FALSE

\* readFd returns 0
EndOfStream == fin /\ ~data /\ ~reset

\* handleRead: recvDoneCallback is user code; an error is only logged.
HandleRead ==
    /\ "in" \in revent
    /\ revent' = revent \ {"in"}
    /\ data' = FALSE
    /\ IF EndOfStream THEN HandleClose(functors)
                      ELSE UNCHANGED <<stateVars, chanVars, streamVars, functors>>
    /\ UNCHANGED <<delayed, callVars, fin, reset>>

\* Mutant of Unwatched: the channel goes on to be watched for writing.
UnwatchedNever == writing

\* channel_.disableWrting()
Unwatched == FALSE

\* handleWrite: update() registers a channel that is not registered.
HandleWrite ==
    /\ "out" \in revent /\ "in" \notin revent
    /\ revent' = revent \ {"out"}
    /\ IF output = <<>> \/ Broken \/ room = 0
       THEN UNCHANGED <<streamVars, writing, marked, functors>>
       ELSE LET n == Lesser(room, Len(output)) IN
            /\ wire' = wire \o SubSeq(output, 1, n)
            /\ output' = SubSeq(output, n + 1, Len(output))
            /\ room' = room - n
            /\ IF output' = <<>>
               THEN /\ writing' = Unwatched
                    /\ marked' = TRUE
                    /\ functors' = Append(functors, <<"sendDone">>)
               ELSE UNCHANGED <<writing, marked, functors>>
    /\ UNCHANGED <<stateVars, reading, delayed, callVars, peerVars>>

\* EPOLLHUP
HandleHup ==
    /\ revent = {"hup"}
    /\ revent' = {}
    /\ HandleClose(functors)
    /\ UNCHANGED <<delayed, callVars, peerVars>>
-----------------------------------------------------------------------------
(***************************************************************************)
(* The peer and the kernel.                                                *)
(***************************************************************************)
PeerReads ==
    /\ room < Room /\ ~reset
    /\ room' \in room + 1..Room
    /\ UNCHANGED <<stateVars, chanVars, output, wire, loopVars, callVars, peerVars>>

PeerSends ==
    /\ ~fin /\ ~reset /\ ~data
    /\ data' = TRUE
    /\ UNCHANGED <<stateVars, chanVars, streamVars, loopVars, callVars, fin, reset>>

PeerCloses ==
    /\ ~fin /\ ~reset
    /\ fin' = TRUE
    /\ UNCHANGED <<stateVars, chanVars, streamVars, loopVars, callVars, data, reset>>

PeerResets ==
    /\ ~reset
    /\ reset' = TRUE
    /\ UNCHANGED <<stateVars, chanVars, streamVars, loopVars, callVars, data, fin>>

LoopStep == RunFunctor \/ Poll \/ HandleRead \/ HandleWrite \/ HandleHup

User ==
    \/ \E op \in Requests : CallInLoop(op) \/ \E c \in Callers : Call(c, op)
    \/ ForceCloseWithDelay

Next ==
    \/ LoopStep \/ User \/ DelayedClose
    \/ \E c \in Callers : QueueInLoop(c)
    \/ PeerReads \/ PeerSends \/ PeerCloses \/ PeerResets

Spec == Init /\ [][Next]_vars

\* The threads are scheduled, the loop polls however many functors are queued, and a
\* peer with a working connection reads.
FairSpec ==
    /\ Spec
    /\ WF_vars(LoopStep) /\ SF_vars(Poll)
    /\ \A c \in Callers : WF_vars(QueueInLoop(c))
    /\ WF_vars(PeerReads)
-----------------------------------------------------------------------------
\* Every variable has its type.
TypeOK ==
    /\ state \in {"kConnecting", "kConnected", "kDisConnecting", "kDisConnected"}
    /\ closed \in 0..1
    /\ reading \in BOOLEAN /\ writing \in BOOLEAN /\ marked \in BOOLEAN
    /\ output \in Seq(Messages \X Nat) /\ wire \in Seq(Messages \X Nat)
    /\ shut \in BOOLEAN /\ delayed \in BOOLEAN
    /\ functors \in Seq(Requests \cup {<<"start">>, <<"sendDone">>, <<"highWater">>})
    /\ revent \subseteq {"in", "out", "hup"}
    /\ cpc \in [Callers -> Requests \cup {<<>>}]
    /\ asked \in [Callers \cup {Loop} -> Seq(Messages)]
    /\ room \in 0..Room
    /\ data \in BOOLEAN /\ fin \in BOOLEAN /\ reset \in BOOLEAN

\* While the connection is open, its channel is registered, and it is watched for
\* writing exactly when output is pending: no output is forgotten, and the loop does not
\* spin on a writable socket.
OutputIsWatched == state = "kConnected" => marked /\ (writing <=> output # <<>>)

\* The peer gets the FIN of shutDown after everything that was accepted before.
FinIsLast == shut => output = <<>>

\* The closedCallback is called once, when the state becomes kDisConnected, although
\* the peer, forceClose, its timer and functors all lead to handleClose.
ClosedOnce == closed = IF state = "kDisConnected" THEN 1 ELSE 0

\* Together, with the types of the variables.
ConnectionSafe == TypeOK /\ OutputIsWatched /\ FinIsLast /\ ClosedOnce

Stream == wire \o output

\* The end of a message.
End(m) == {k \in DOMAIN Stream : Stream[k] = <<m, Size[m]>>}

\* Messages of the same thread are not reordered, although those of the loop's thread
\* overtake those that others have queued.
ThreadOrder ==
    \A t \in DOMAIN asked : \A j, k \in DOMAIN asked[t] :
        j < k => \A a \in End(asked[t][j]), b \in End(asked[t][k]) : a < b

\* Messages go out one after the other, or not at all, and none inside another; one that is
\* cut off when the connection breaks is the last.
Log == INSTANCE RecordLog WITH Records <- Messages, order <- Stream, file <- wire

StreamIntact == Log!Spec

\* Pending output goes out while the connection is open.
OutputGoes ==
    (state = "kConnected" /\ output # <<>>) ~> (output = <<>> \/ state # "kConnected" \/ reset)

\* The end of a connection is noticed and reported by closedCallback.
Noticeable == state \in {"kConnected", "kDisConnecting"} /\ (reset \/ (fin /\ (reading \/ shut)))

EndIsNoticed == Noticeable ~> (state = "kDisConnected" \/ ~Noticeable)

\* Once nothing is left that refers to a closed connection, it is destroyed.
Destroyed ==
    /\ state = "kDisConnected"
    /\ functors = <<>> /\ revent = {} /\ ~delayed
    /\ \A c \in Callers : cpc[c] = <<>>

\* A channel that is destroyed is not registered any more: assert(mark_ == -1) in
\* channel.cpp 24.
ClosedIsUnregistered == Destroyed => ~marked
==============================================================================
