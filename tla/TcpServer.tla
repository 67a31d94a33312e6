------------------------------ MODULE TcpServer ------------------------------
(***************************************************************************)
(* tcpserver (pax/net/tcpserver.cpp): the lifetime of its connections.     *)
(* They are built in places of a memorypool and shared by connections_,    *)
(* by functors in the queues of two loops and by users; whoever drops the  *)
(* last reference calls deleter, which destroys the connection in the      *)
(* server's thread.  Accepting, removing and the destructor happen in that *)
(* thread, the handlers of a connection in the thread of an io loop (one   *)
(* here: connections of different loops do not meet; with loopnum = 0,     *)
(* which is left out, the server's loop is also the io loop).              *)
(*                                                                         *)
(* A connection is named by its place.  TcpConnection has its handlers;    *)
(* here only what changes state_ or a reference.                           *)
(***************************************************************************)
EXTENDS Naturals, FiniteSets, SeqSets

CONSTANTS Fds,       \* descriptors the process may still open
          Places,    \* bound of the places: more than the pool can need
          Init0,     \* init of the memorypool: 1024
          None,
          MaxQueued, \* bound of the io loop's queue for new calls of users
          MaxStops   \* bound of the stops that are queued at a time

States == {"kConnecting", "kConnected", "kDisConnecting", "kDisConnected"}

ASSUME ServerAssumption ==
    /\ Init0 \in Nat \ {0} /\ IsFiniteSet(Fds)
    /\ Places = 1..Init0 + 2 * Cardinality(Fds) /\ None \notin Places \cup Fds /\ None \notin States

VARIABLES
    phase,        \* of the server's thread: in its loop "poll" (or executing functors), "accept",
                  \* "clear" and "last", after it "returned", "close", "join" and "end"
    local,        \* new_ in acceptConn
    stopping,     \* stopInLoop has been called
    left,         \* descriptors the destructor still has to look up
    connections,  \* connections_
    space,        \* head_queue_: number of places allocated
    size,         \* size_ of the memorypool
    free,         \* ptr_queue_
    serverq,      \* functors of the server's loop that are not executed
    ioq,          \* functors of the io loop
    taken,        \* how many of serverq are already in eventloop::functors_
    ioTaken,      \* the same of ioq
    kept,         \* connections that executed functors in functors_ of the server's loop refer to
    ioKept,       \* the same of the io loop
    io,           \* the io loop's thread: "events" or "clear" when it has begun a round and has
                  \* still to clear functors_, otherwise "poll"
    held,         \* connections a user keeps
    state,        \* state_ of each connection; None if there is none
    fd,           \* fd_
    closedCb,     \* closedCallback: "remove" or the "user"'s
    skipped,      \* connections the destructor's forceClose did nothing for (history variable)
    unclosed,     \* connections destroyed without being closed (history variable)
    failed        \* the assertion that has aborted the process

serverVars == <<phase, local, stopping, left, connections, skipped>>
batchVars  == <<taken, kept>>
placeVars  == <<space, size, free>>
queueVars  == <<serverq, ioq>>
ioVars     == <<io, ioTaken, ioKept>>
connVars   == <<state, fd, closedCb>>
failVars   == <<unclosed, failed>>

tcpserverVars == <<serverVars, batchVars, placeVars, queueVars, ioVars, held, connVars, failVars>>

\* The constructor of memorypool: makeSpace has doubled size_, which is halved again.
PoolInit == space = Init0 /\ size = Init0 /\ free = [k \in 1..Init0 |-> k]

ServerInit ==
    /\ phase = "poll" /\ local = None /\ stopping = FALSE /\ left = {}
    /\ connections = [f \in Fds |-> None]
    /\ PoolInit
    /\ serverq = <<>> /\ taken = 0 /\ kept = {}
    /\ ioq = <<>> /\ ioTaken = 0 /\ ioKept = {} /\ io = "poll"
    /\ held = {}
    /\ state = [p \in Places |-> None]
    /\ fd = [p \in Places |-> None]
    /\ closedCb = [p \in Places |-> "remove"]
    /\ skipped = {} /\ unclosed = {} /\ failed = "none"
-----------------------------------------------------------------------------
(***************************************************************************)
(* References.                                                             *)
(***************************************************************************)
Live(p) == state[p] # None

\* Functors bind a tcpconn_ptr, but those of deleter a plain pointer.
References(q) == {p \in Places : \E op \in {"start", "shut", "close", "remove"} : <<op, p>> \in SetOf(q)}

Entered == {connections[f] : f \in Fds} \ {None}

\* Mutant of Unreferenced: a connection is destroyed when its entry is erased.
UnreferencedEntry(p, sq) == p \notin Entered'

\* Nothing will refer to p any more; sq is the server's queue.
Unreferenced(p, sq) ==
    p \notin Entered' \cup References(sq) \cup References(ioq') \cup kept' \cup ioKept' \cup held' \cup {local'}

\* mpool_.destroyPtr, which asserts that the connection is closed and closes the socket.
Destroy(p) ==
    /\ IF state[p] = "kDisConnected"
       THEN UNCHANGED failVars ELSE unclosed' = unclosed \cup {p} /\ failed' = "state"
    /\ state' = [state EXCEPT ![p] = None]
    /\ fd' = [fd EXCEPT ![p] = None]
    /\ closedCb' = [closedCb EXCEPT ![p] = "remove"]
    /\ free' = Append(free, p)
    /\ UNCHANGED <<space, size>>

\* The server's thread has dropped a reference: deleter runs deleterInLoop at once.
DropInServer(p) ==
    IF Unreferenced(p, serverq') THEN Destroy(p) ELSE UNCHANGED <<placeVars, connVars, failVars>>

\* Mutant of Deleter: another thread destroys the connection itself.
DeleterNone(p) == <<>>

\* deleter in another thread: deleterInLoop is queued.
Deleter(p) == <<<<"delete", p>>>>

\* Another thread has dropped a reference; sq are the functors it has queued.
DropOutside(p, sq) ==
    serverq' = IF Unreferenced(p, sq) THEN sq \o Deleter(p) ELSE sq
-----------------------------------------------------------------------------
(***************************************************************************)
(* The server's thread.                                                    *)
(***************************************************************************)
\* The listening socket is readable.
AcceptConn ==
    /\ phase = "poll" /\ taken = 0 /\ ~stopping
    /\ phase' = "accept"
    /\ UNCHANGED <<local, stopping, left, connections, skipped, batchVars, placeVars, queueVars, ioVars,
                   held, connVars, failVars>>

Unused == {f \in Fds : \A p \in Places : fd[p] # f}

\* makeSpace
MadeSpace == [k \in 1..size |-> space + k]

\* setPtr, with makeSpace if no place is free
SetPtr(p) ==
    IF free = <<>>
    THEN p = Head(MadeSpace) /\ free' = Tail(MadeSpace) /\ space' = space + size /\ size' = 2 * size
    ELSE p = Head(free) /\ free' = Tail(free) /\ UNCHANGED <<space, size>>

\* setPtr, the constructor, and start is queued in the io loop.
Accept ==
    /\ phase = "accept" /\ local = None
    /\ \E f \in Unused, p \in Places :
        /\ SetPtr(p)
        /\ state' = [state EXCEPT ![p] = "kConnecting"]
        /\ fd' = [fd EXCEPT ![p] = f]
        /\ closedCb' = [closedCb EXCEPT ![p] = "remove"]
        /\ ioq' = Append(ioq, <<"start", p>>)
        /\ local' = p
    /\ UNCHANGED <<phase, stopping, left, connections, skipped, batchVars, serverq, ioVars, held, failVars>>

\* connections_.emplace changes nothing if there is an entry; new_ goes out of scope.
Emplace ==
    /\ local # None
    /\ connections' = [connections EXCEPT ![fd[local]] = IF @ = None THEN local ELSE @]
    /\ local' = None
    /\ UNCHANGED <<phase, stopping, left, skipped, batchVars, queueVars, ioVars, held>>
    /\ DropInServer(local)

\* accept fails, for want of a descriptor or because of the peer: the loop ends, and
\* doFunctors follows.
AcceptFails ==
    /\ phase = "accept" /\ local = None
    /\ phase' = "clear"
    /\ UNCHANGED <<local, stopping, left, connections, skipped, batchVars, placeVars, queueVars, ioVars,
                   held, connVars, failVars>>

\* Nobody is waiting: accept returns 0, and assert(fd_ > 0) in the socket's constructor fails.
AcceptNone ==
    /\ phase = "accept" /\ local = None
    /\ failed' = "fd"
    /\ UNCHANGED <<serverVars, batchVars, placeVars, queueVars, ioVars, held, connVars, unclosed>>

\* poll has returned, for whatever event, or the loop has ended: functors_.clear() in
\* doFunctors drops what the functors executed in the round before refer to.
ServerClear(p) ==
    /\ phase \in {"poll", "clear"} /\ taken = 0
    /\ p \in kept /\ kept' = kept \ {p}
    /\ phase' = "clear"
    /\ UNCHANGED <<local, stopping, left, connections, skipped, taken, queueVars, ioVars, held>>
    /\ DropInServer(p)

\* getFunctors in doFunctors, which is the last one when quit_ is set.
ServerSwap ==
    /\ taken = 0 /\ kept = {}
    /\ phase = "clear" \/ (phase = "poll" /\ (serverq # <<>> \/ stopping))
    /\ taken' = Len(serverq)
    /\ phase' = IF stopping THEN "last" ELSE "poll"
    /\ UNCHANGED <<local, stopping, left, connections, skipped, kept, placeVars, queueVars, ioVars,
                   held, connVars, failVars>>

\* Mutant of Key: the entry is looked up by the place.
KeyAny(p) == CHOOSE f \in Fds : TRUE

\* connections_.erase(conn->getFd())
Key(p) == fd[p]

\* A functor of the server's loop: removeConnInLoop, deleterInLoop or stopInLoop, which does
\* nothing the second time.  It stays in functors_ until doFunctors is called again.
ServerFunctor ==
    /\ phase \in {"poll", "last"} /\ taken > 0
    /\ taken' = taken - 1
    /\ LET op == Head(serverq)[1]
           p  == Head(serverq)[2]
       IN  /\ serverq' = Tail(serverq)
           /\ UNCHANGED <<phase, local, left, skipped, ioq, ioVars, held>>
           /\ \/ /\ op = "remove"
                 /\ connections' = [connections EXCEPT ![Key(p)] = None]
                 /\ kept' = kept \cup {p}
                 /\ UNCHANGED <<stopping, placeVars, connVars, failVars>>
              \/ /\ op = "delete"
                 /\ Destroy(p)
                 /\ UNCHANGED <<connections, stopping, kept>>
              \/ /\ op = "stop"
                 /\ stopping' = TRUE
                 /\ UNCHANGED <<connections, kept, placeVars, connVars, failVars>>

\* loop() returns after its last doFunctors; what is queued later nobody executes.
LoopReturns ==
    /\ phase = "last" /\ taken = 0
    /\ phase' = "returned"
    /\ UNCHANGED <<local, stopping, left, connections, skipped, batchVars, placeVars, queueVars, ioVars,
                   held, connVars, failVars>>

\* The server is destroyed, when no user has a connection any more.
Destructor ==
    /\ phase = "returned" /\ held = {}
    /\ phase' = "close"
    /\ left' = {f \in Fds : connections[f] # None}
    /\ UNCHANGED <<local, stopping, connections, skipped, batchVars, placeVars, queueVars, ioVars,
                   held, connVars, failVars>>

\* Mutant of Forced: the destructor only sets the closedCallback.
ForcedNever(p) == FALSE

\* forceClose: state_ == kConnected
Forced(p) == state[p] = "kConnected"

\* setClosedCallback and forceClose, one connection after the other.
ForceClose(f) ==
    /\ phase = "close" /\ f \in left
    /\ left' = left \ {f}
    /\ LET p == connections[f] IN
        /\ closedCb' = [closedCb EXCEPT ![p] = "user"]
        /\ ioq' = IF Forced(p) THEN Append(ioq, <<"close", p>>) ELSE ioq
        /\ skipped' = IF state[p] \in {"kConnecting", "kDisConnecting"} THEN skipped \cup {p} ELSE skipped
    /\ UNCHANGED <<phase, local, stopping, connections, batchVars, placeVars, serverq, ioVars,
                   held, state, fd, failVars>>

\* delete looppool_: the io loop executes the functors it has, and ends when functors_ is
\* cleared or, with the loop, destroyed.
Join ==
    /\ phase = "close" /\ left = {} /\ ioq = <<>> /\ ioKept = {}
    /\ phase' = "join"
    /\ UNCHANGED <<local, stopping, left, connections, skipped, batchVars, placeVars, queueVars, ioVars,
                   held, connVars, failVars>>

\* connections_.clear(), and serverloop_ with all its functors: the connections are destroyed,
\* but for those whose deleterInLoop was queued too late.
DestructorEnds ==
    /\ phase = "join"
    /\ phase' = "end"
    /\ LET last == {p \in Places : Live(p) /\ <<"delete", p>> \notin SetOf(serverq)} IN
        /\ unclosed' = unclosed \cup {p \in last : state[p] # "kDisConnected"}
        /\ failed' = IF unclosed' = unclosed THEN failed ELSE "state"
        /\ state' = [p \in Places |-> IF p \in last THEN None ELSE state[p]]
        /\ fd' = [p \in Places |-> IF p \in last THEN None ELSE fd[p]]
    /\ connections' = [f \in Fds |-> None]
    /\ serverq' = <<>> /\ kept' = {}
    /\ UNCHANGED <<local, stopping, left, skipped, taken, placeVars, ioq, ioVars, held, closedCb>>
-----------------------------------------------------------------------------
(***************************************************************************)
(* The io loop's thread.                                                   *)
(***************************************************************************)
IoRuns == phase \notin {"join", "end"}

\* poll has returned, for whatever event, or the loop ends: functors_.clear(), or the end of
\* functors_ itself.
IoClear(p) ==
    /\ IoRuns /\ ioTaken = 0
    /\ p \in ioKept /\ ioKept' = ioKept \ {p}
    /\ io' = IF ioKept' = {} THEN "poll" ELSE "clear"
    /\ UNCHANGED <<serverVars, batchVars, placeVars, ioq, ioTaken, held, connVars, failVars>>
    /\ DropOutside(p, serverq)

\* getFunctors in doFunctors
IoSwap ==
    /\ IoRuns /\ ioTaken = 0 /\ ioKept = {} /\ ioq # <<>>
    /\ ioTaken' = Len(ioq)
    /\ UNCHANGED <<serverVars, batchVars, placeVars, queueVars, io, ioKept, held, connVars, failVars>>

\* Mutant of Open: handleClose does not look whether it was called before.
OpenAlways(p) == TRUE

\* state_ != kDisConnected
Open(p) == state[p] # "kDisConnected"

\* handleClose: closedCallback is removeConn, or the user's.
Removal(p) == IF Open(p) /\ closedCb[p] = "remove" THEN <<<<"remove", p>>>> ELSE <<>>

Handle(op, p) ==
    state' = [state EXCEPT ![p] =
        CASE op = "start" -> "kConnected"
          [] op = "shut"  -> IF @ = "kConnected" THEN "kDisConnecting" ELSE @
          [] op = "close" -> "kDisConnected"]

LoopRuns == phase \in {"poll", "accept", "clear", "last"}
UsersRun == LoopRuns \/ phase = "returned"

\* A functor; start also calls connectedCallback, where the user keeps the connection.
IoFunctor ==
    /\ IoRuns /\ ioTaken > 0
    /\ ioTaken' = ioTaken - 1
    /\ UNCHANGED <<serverVars, batchVars, placeVars, io, fd, closedCb, failVars>>
    /\ LET op == Head(ioq)[1]
           p  == Head(ioq)[2]
       IN  /\ ioq' = Tail(ioq)
           /\ ioKept' = ioKept \cup {p}
           /\ Handle(op, p)
           /\ \/ op = "start" /\ UsersRun /\ held' = held \cup {p}
              \/ UNCHANGED held
           /\ serverq' = serverq \o (IF op = "close" THEN Removal(p) ELSE <<>>)

\* An event of a registered channel: the peer closes, or recvDoneCallback shuts down.
\* (handleClose and handleEvent go on with the connection after that, without a reference.)
IoEvent(p) ==
    /\ IoRuns /\ ioTaken = 0 /\ io # "clear"
    /\ state[p] \in {"kConnected", "kDisConnecting"}
    /\ io' = IF ioKept = {} THEN "poll" ELSE "events"
    /\ \E op \in {"shut", "close"} :
        /\ Handle(op, p)
        /\ serverq' = IF op = "close" THEN serverq \o Removal(p) ELSE serverq
    /\ UNCHANGED <<serverVars, batchVars, placeVars, ioq, ioTaken, ioKept, held, fd, closedCb, failVars>>
-----------------------------------------------------------------------------
(***************************************************************************)
(* Users in other threads, as long as the server runs.                     *)
(***************************************************************************)
\* forceClose or shutDown
Call(p, op) ==
    /\ UsersRun /\ p \in held /\ state[p] = "kConnected"
    /\ Len(ioq) < MaxQueued
    /\ ioq' = Append(ioq, <<op, p>>)
    /\ UNCHANGED <<serverVars, batchVars, placeVars, serverq, ioVars, held, connVars, failVars>>

Release(p) ==
    /\ p \in held
    /\ held' = held \ {p}
    /\ UNCHANGED <<serverVars, batchVars, placeVars, ioq, ioVars, connVars, failVars>>
    /\ DropOutside(p, serverq)

\* stop: stopInLoop is queued, as often as users ask for it.  (What is queued after the last
\* doFunctors nobody executes.)
StopServer ==
    /\ phase \in {"poll", "accept", "clear"}
    /\ Cardinality({k \in DOMAIN serverq : serverq[k][1] = "stop"}) < MaxStops
    /\ serverq' = Append(serverq, <<"stop", None>>)
    /\ UNCHANGED <<serverVars, batchVars, placeVars, ioq, ioVars, held, connVars, failVars>>

ServerStep ==
    \/ Accept \/ Emplace \/ AcceptFails \/ AcceptNone
    \/ (\E p \in kept : ServerClear(p)) \/ ServerSwap \/ ServerFunctor
    \/ LoopReturns \/ Destructor \/ (\E f \in Fds : ForceClose(f)) \/ Join \/ DestructorEnds

IoStep == (\E p \in ioKept : IoClear(p)) \/ IoSwap \/ IoFunctor

ServerNext ==
    /\ failed = "none"
    /\ \/ ServerStep \/ AcceptConn \/ IoStep \/ StopServer
       \/ \E p \in Places : IoEvent(p) \/ Release(p) \/ \E op \in {"shut", "close"} : Call(p, op)

ServerSpec == ServerInit /\ [][ServerNext]_tcpserverVars

\* A loop that is not awake sleeps in poll and has no functor to execute.
ServerAwake == phase # "poll" \/ taken > 0 \/ serverq # <<>> \/ stopping
IoAwake == io # "poll" \/ ioTaken > 0 \/ ioq # <<>>

\* The threads are scheduled, and a round of the io loop handles so many events and no more.
\* Nothing but a functor need ever wake a loop.
ServerFairSpec ==
    /\ ServerSpec
    /\ WF_tcpserverVars(failed = "none" /\ ServerAwake /\ ServerStep)
    /\ WF_tcpserverVars(failed = "none" /\ IoAwake /\ IoStep)

-----------------------------------------------------------------------------
\* No functor is queued twice, but stopInLoop may be.
OnceEach(q) == \A j, k \in 1..Len(q) : q[j] = q[k] /\ q[j][1] # "stop" => j = k

\* The connections with a functor op in the server's queue.
Queued(op) == {p \in Places : <<op, p>> \in SetOf(serverq)}

\* The connections that something refers to.
Owned == (Entered \cup held \cup {local} \cup References(serverq) \cup References(ioq) \cup kept \cup ioKept) \ {None}

\* Every variable has its type.
ServerTypeOK ==
    /\ phase \in {"poll", "accept", "clear", "last", "returned", "close", "join", "end"}
    /\ local \in Places \cup {None} /\ io \in {"poll", "events", "clear"}
    /\ taken \in 0..Len(serverq) /\ ioTaken \in 0..Len(ioq) /\ kept \subseteq Places /\ ioKept \subseteq Places
    /\ stopping \in BOOLEAN /\ left \subseteq Fds
    /\ connections \in [Fds -> Places \cup {None}]
    /\ space \in Places /\ size \in Nat
    /\ held \subseteq Places /\ skipped \subseteq Places /\ unclosed \subseteq Places
    /\ state \in [Places -> States \cup {None}]
    /\ fd \in [Places -> Fds \cup {None}] /\ closedCb \in [Places -> {"remove", "user"}]
    /\ failed \in {"none", "fd", "state"}

\* Each place of the pool is free, once, or has a connection, and never both, and the pool
\* has allocated at most twice the places that can be needed at a time.
PoolSafe ==
    /\ ServerTypeOK
    /\ phase # "end" => /\ NoRepeat(free)
                        /\ {p \in Places : Live(p)} = 1..space \ SetOf(free)
    /\ space = Init0 \/ space < 2 * Cardinality(Fds)

\* What is referred to exists; a connection of which deleterInLoop is queued is closed and
\* referred to by nobody, so that nobody can refer to it again; no connection is removed or
\* deleted twice.
ReferencesSafe ==
    /\ \A p \in Owned \cup Queued("delete") : Live(p)
    /\ Owned \cap Queued("delete") = {}
    /\ OnceEach(serverq)
    /\ \A p \in Queued("delete") : state[p] = "kDisConnected"
    /\ phase # "end" => \A p \in Places : Live(p) => p \in Owned \cup Queued("delete")

\* Together: no place is used by two connections, by none, or after it was given back.
PlacesSafe == PoolSafe /\ ReferencesSafe

\* Descriptors of connections differ, although they are used again, and an entry of
\* connections_ is that of the connection with this descriptor; removeConn is called once
\* it is closed, and its entry is there when removeConnInLoop erases it.  The
\* destructor closes the connections it finds open: those that are destroyed without being
\* closed were connecting or shutting down when it looked at them.
EntriesSafe ==
    /\ \A p, q \in Places : Live(p) /\ Live(q) /\ fd[p] = fd[q] => p = q
    /\ \A f \in Fds : connections[f] # None => fd[connections[f]] = f
    /\ \A p \in Queued("remove") : state[p] = "kDisConnected" /\ p \in Entered \cup {local}
    /\ unclosed \subseteq skipped /\ (failed = "state" <=> unclosed # {})

\* f is the descriptor of a closed connection.
Closed(f) == \E p \in Places : fd[p] = f /\ state[p] = "kDisConnected"

\* It is, and a user keeps this connection, or all that keeps it are functors that a loop
\* executed before it fell asleep.
Kept(f) ==
    \E p \in Places :
        /\ fd[p] = f /\ state[p] = "kDisConnected"
        /\ \/ p \in held
           \/ /\ p \notin Entered \cup {local} \cup References(serverq) \cup References(ioq)
              /\ (p \in kept /\ ~ServerAwake) \/ (p \in ioKept /\ ~IoAwake)

\* A closed connection is destroyed, and its descriptor released, unless the server stops, a
\* user keeps it for ever, or functors that a loop has executed do, because nothing ever wakes
\* this loop again.
ClosedIsReleased ==
    \A f \in Fds : Closed(f) ~> (~Closed(f) \/ stopping \/ failed # "none" \/ []Kept(f))

\* assert(state_ == kDisConnected), tcpconnection.cpp 34, when a connection is destroyed.
DestroyedIsClosed == failed # "state"
==============================================================================
