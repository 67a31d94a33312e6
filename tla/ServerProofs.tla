----------------------------- MODULE ServerProofs -----------------------------
(***************************************************************************)
(* The server's side: its connections (pax/net/tcpserver.cpp) and its pool *)
(* of loops (pax/net/elthreadpool.cpp), for every number of descriptors    *)
(* and users, every set of threads and every size of the pool.             *)
(***************************************************************************)
EXTENDS TcpServer, ElThreadPool, FiniteSetTheorems, SeqSetsProofs
-----------------------------------------------------------------------------
(***************************************************************************)
(* The connections: where they are, and who refers to them.                *)
(***************************************************************************)
ServerFunctors == ({"remove", "delete"} \X Places) \cup {<<"stop", None>>}
IoFunctors     == {"start", "shut", "close"} \X Places

\* The values of the variables; the next block of the pool has as many places as all before.
ServerTypes ==
    /\ ServerTypeOK
    /\ serverq \in Seq(ServerFunctors) /\ OnceEach(serverq)
    /\ ioq \in Seq(IoFunctors)
    /\ free \in Seq(Places) /\ NoRepeat(free) /\ SetOf(free) \subseteq 1..space
    /\ size = space /\ (space = Init0 \/ space < 2 * Cardinality(Fds))

\* What a place is used for: by a connection or free; a connection has a descriptor and an owner or
\* waits for deleterInLoop, has an entry as long as it is not closed and until it is removed,
\* and connects when start is queued.
PlaceOK(p) ==
    /\ p \in Owned => Live(p)
    /\ p \in Queued("delete") => Live(p) /\ ~Open(p) /\ p \notin Owned
    /\ phase # "end" => /\ Live(p) <=> p \in 1..space /\ p \notin SetOf(free)
                        /\ Live(p) => p \in Owned \cup Queued("delete")
    /\ Live(p) <=> fd[p] # None
    /\ Live(p) /\ Open(p) => p \in Entered \cup {local}
    /\ p \in Queued("remove") => ~Open(p) /\ p \in Entered \cup {local}
    /\ <<"start", p>> \in SetOf(ioq) => state[p] = "kConnecting"

\* Descriptors are used once, and connections_ has connections under theirs.
FdsApart ==
    /\ \A p, q \in Places : Live(p) /\ Live(q) /\ fd[p] = fd[q] => p = q
    /\ \A f \in Fds : connections[f] # None => fd[connections[f]] = f

\* What is where in which phase.
PhasesOK ==
    /\ local # None => phase = "accept"
    /\ phase \in {"close", "join", "end"} => held = {}
    /\ phase \in {"join", "end"} => ioq = <<>> /\ ioKept = {}
    /\ phase = "end" => kept = {}
    /\ phase \notin {"poll", "last"} => taken = 0
    /\ \A f \in left : phase = "close" /\ connections[f] # None

\* No call is queued for a connection together with its start.
StartsOK ==
    \A j, k \in 1..Len(ioq) : ioq[j][1] = "start" /\ ioq[j][2] = ioq[k][2] => j = k

\* What the destructor has looked at is closed, will be closed, or was not forced; this is all
\* that is destroyed open.
VisitedOK ==
    /\ phase \in {"close", "join"} =>
        \A f \in Fds \ left : connections[f] # None =>
            \/ ~Open(connections[f])
            \/ <<"close", connections[f]>> \in SetOf(ioq)
            \/ connections[f] \in skipped
    /\ unclosed \subseteq skipped /\ (failed = "state" <=> unclosed # {})

ServerInv ==
    /\ ServerTypes /\ FdsApart /\ PhasesOK /\ StartsOK /\ VisitedOK
    /\ \A p \in Places : PlaceOK(p)
-----------------------------------------------------------------------------
LEMMA ServerConstants ==
    /\ Init0 \in Nat \ {0} /\ IsFiniteSet(Fds) /\ Cardinality(Fds) \in Nat
    /\ Places = 1..Init0 + 2 * Cardinality(Fds) /\ Places \subseteq Nat
    /\ None \notin Places /\ None \notin Fds /\ None \notin States
  <1>1. Cardinality(Fds) \in Nat
    BY ServerAssumption, FS_CardinalityType
  <1> QED BY <1>1, ServerAssumption

\* What refers to q, before and after a step.
LEMMA OwnedAt ==
    ASSUME NEW q \in Places
    PROVE  /\ q \in Entered <=> \E f \in Fds : connections[f] = q
           /\ q \in Entered' <=> \E f \in Fds : connections'[f] = q
           /\ q \in Owned <=> \/ q \in Entered \/ q \in held \/ q = local
                              \/ q \in References(serverq) \/ q \in References(ioq)
                              \/ q \in kept \/ q \in ioKept
           /\ q \in Owned' <=> \/ q \in Entered' \/ q \in held' \/ q = local'
                               \/ q \in References(serverq') \/ q \in References(ioq')
                               \/ q \in kept' \/ q \in ioKept'
  BY ServerConstants DEF Owned, Entered

\* What is left in a queue in which an element may occur again.
LEMMA RestSet ==
    ASSUME NEW S, NEW q \in Seq(S), q # <<>>
    PROVE  /\ Tail(q) \in Seq(S) /\ Head(q) \in S /\ Head(q) = q[1]
           /\ Len(q) \in Nat \ {0} /\ Len(Tail(q)) = Len(q) - 1
           /\ \A k \in 1..Len(q) - 1 : Tail(q)[k] = q[k + 1]
           /\ SetOf(q) = SetOf(Tail(q)) \cup {Head(q)}
  <1>1. /\ Tail(q) \in Seq(S) /\ Head(q) \in S /\ Head(q) = q[1]
        /\ Len(q) \in Nat \ {0} /\ Len(Tail(q)) = Len(q) - 1
        /\ \A k \in 1..Len(q) - 1 : Tail(q)[k] = q[k + 1]
    OBVIOUS
  <1> DEFINE t == Tail(q)
             n == Len(q)
  <1> HIDE DEF t, n
  <1>2. Len(t) = n - 1 /\ n \in Nat \ {0} /\ Len(q) = n /\ \A k \in 1..n - 1 : t[k] = q[k + 1]
    BY <1>1 DEF t, n
  <1>3. ASSUME NEW x \in SetOf(q) PROVE x \in SetOf(t) \cup {q[1]}
    <2>1. PICK k \in 1..n : x = q[k]
      BY <1>2, <1>3 DEF SetOf
    <2>2. CASE k = 1
      BY <2>1, <2>2
    <2>3. CASE k # 1
      <3>1. k - 1 \in 1..n - 1 /\ t[k - 1] = q[(k - 1) + 1] /\ (k - 1) + 1 = k
        BY <1>2, <2>3
      <3> QED BY <1>2, <2>1, <3>1 DEF SetOf
    <2> QED BY <2>2, <2>3
  <1>4. ASSUME NEW x \in SetOf(t) \cup {q[1]} PROVE x \in SetOf(q)
    <2>1. CASE x = q[1]
      <3>1. 1 \in 1..n
        BY <1>2
      <3> QED BY <1>2, <2>1, <3>1 DEF SetOf
    <2>2. CASE x \in SetOf(t)
      <3>1. PICK k \in 1..n - 1 : x = t[k]
        BY <1>2, <2>2 DEF SetOf
      <3>2. k + 1 \in 1..n /\ x = q[k + 1]
        BY <1>2, <3>1
      <3> QED BY <1>2, <3>2 DEF SetOf
    <2> QED BY <1>4, <2>1, <2>2
  <1>5. SetOf(q) = SetOf(t) \cup {q[1]}
    BY <1>3, <1>4
  <1> QED BY <1>1, <1>5 DEF t

\* A functor is queued that is not queued yet, or is stopInLoop.
LEMMA OnceMore ==
    ASSUME NEW s \in Seq(ServerFunctors), OnceEach(s), NEW x \in ServerFunctors,
           x \notin SetOf(s) \/ x[1] = "stop"
    PROVE  /\ s \o <<x>> = Append(s, x)
           /\ Append(s, x) \in Seq(ServerFunctors) /\ OnceEach(Append(s, x))
           /\ SetOf(Append(s, x)) = SetOf(s) \cup {x}
           /\ Len(Append(s, x)) = Len(s) + 1 /\ Len(s) \in Nat
  <1> DEFINE t == Append(s, x)
             n == Len(s)
  <1>1. s \o <<x>> = Append(s, x)
    BY AppendOne
  <1>2. t \in Seq(ServerFunctors) /\ SetOf(t) = SetOf(s) \cup {x}
    BY AppendSet
  <1>3. n \in Nat /\ Len(t) = n + 1 /\ t[n + 1] = x /\ \A k \in 1..n : t[k] = s[k]
    OBVIOUS
  <1> HIDE DEF t, n
  <1>4. \A k \in 1..n : s[k] # x \/ x[1] = "stop"
    BY DEF SetOf, n
  <1>5. \A j, k \in 1..n : s[j] = s[k] /\ s[j][1] # "stop" => j = k
    BY DEF OnceEach, n
  <1>6. ASSUME NEW j \in 1..Len(t), NEW k \in 1..Len(t), t[j] = t[k], t[j][1] # "stop" PROVE j = k
    <2>1. CASE j \in 1..n /\ k \in 1..n
      BY <1>3, <1>5, <1>6, <2>1
    <2>2. CASE j = n + 1 /\ k \in 1..n
      BY <1>3, <1>4, <1>6, <2>2
    <2>3. CASE k = n + 1 /\ j \in 1..n
      BY <1>3, <1>4, <1>6, <2>3
    <2>4. (j \in 1..n \/ j = n + 1) /\ (k \in 1..n \/ k = n + 1)
      BY <1>3
    <2> QED BY <2>1, <2>2, <2>3, <2>4
  <1>7. OnceEach(t)
    BY <1>6 DEF OnceEach
  <1> QED BY <1>1, <1>2, <1>3, <1>7 DEF t, n

\* The first functor is executed; unless it is stopInLoop, it is not queued any more.
LEMMA OnceLess ==
    ASSUME NEW s \in Seq(ServerFunctors), OnceEach(s), s # <<>>
    PROVE  /\ Tail(s) \in Seq(ServerFunctors) /\ OnceEach(Tail(s))
           /\ SetOf(s) = SetOf(Tail(s)) \cup {Head(s)}
           /\ Head(s)[1] # "stop" => Head(s) \notin SetOf(Tail(s))
           /\ Len(s) \in Nat \ {0} /\ Len(Tail(s)) = Len(s) - 1
  <1> DEFINE t == Tail(s)
             n == Len(s)
             h == Head(s)
  <1>1. /\ t \in Seq(ServerFunctors) /\ h = s[1]
        /\ n \in Nat \ {0} /\ Len(t) = n - 1
        /\ \A k \in 1..n - 1 : t[k] = s[k + 1]
        /\ SetOf(s) = SetOf(t) \cup {h}
    BY RestSet
  <1> HIDE DEF t, n, h
  <1>2. \A j, k \in 1..n : s[j] = s[k] /\ s[j][1] # "stop" => j = k
    BY DEF OnceEach, n
  <1>3. \A k \in 1..n - 1 : k + 1 \in 1..n /\ k + 1 # 1 /\ k \in Nat
    BY <1>1
  <1>4. ASSUME NEW j \in 1..n - 1, NEW k \in 1..n - 1, t[j] = t[k], t[j][1] # "stop" PROVE j = k
    <2>1. j + 1 = k + 1
      BY <1>1, <1>2, <1>3, <1>4
    <2> QED BY <1>3, <2>1
  <1>5. OnceEach(t)
    BY <1>1, <1>4 DEF OnceEach
  <1>6. ASSUME h[1] # "stop", h \in SetOf(t) PROVE FALSE
    <2>1. PICK k \in 1..n - 1 : h = t[k]
      BY <1>1, <1>6 DEF SetOf
    <2>2. s[1] = s[k + 1] /\ s[1][1] # "stop" /\ 1 \in 1..n
      BY <1>1, <1>6, <2>1
    <2> QED BY <1>2, <1>3, <2>1, <2>2
  <1> QED BY <1>1, <1>5, <1>6 DEF t, n, h

Ops == {"start", "shut", "close", "remove", "delete"}

\* The step changes nothing about q.
SameUse(q) ==
    /\ state'[q] = state[q] /\ fd'[q] = fd[q]
    /\ q \in held' <=> q \in held
    /\ q = local' <=> q = local
    /\ q \in Entered' <=> q \in Entered
    /\ \A op \in Ops : <<op, q>> \in SetOf(serverq') <=> <<op, q>> \in SetOf(serverq)
    /\ \A op \in Ops : <<op, q>> \in SetOf(ioq') <=> <<op, q>> \in SetOf(ioq)
    /\ q \in kept' <=> q \in kept
    /\ q \in ioKept' <=> q \in ioKept
    /\ (q \in 1..space' /\ q \notin SetOf(free')) <=> (q \in 1..space /\ q \notin SetOf(free))

LEMMA SameAt ==
    ASSUME NEW q \in Places, PlaceOK(q), SameUse(q), phase = "end" => phase' = "end"
    PROVE  PlaceOK(q)'
  <1>1. (q \in Owned' <=> q \in Owned)
        /\ (q \in Queued("delete")' <=> q \in Queued("delete"))
        /\ (q \in Queued("remove")' <=> q \in Queued("remove"))
    BY OwnedAt DEF SameUse, References, Queued, Ops
  <1>2. (<<"start", q>> \in SetOf(ioq'))  <=> <<"start", q>> \in SetOf(ioq)
    BY DEF SameUse, Ops
  <1>3. Live(q)' = Live(q) /\ Open(q)' = Open(q)
    BY DEF SameUse, Live, Open
  <1> QED BY <1>1, <1>2, <1>3 DEF SameUse, PlaceOK

\* The invariant says more than the properties.
LEMMA ServerIsSafe == ServerInv => PlacesSafe /\ EntriesSafe
  <1> SUFFICES ASSUME ServerInv PROVE PlacesSafe /\ EntriesSafe
    OBVIOUS
  <1> USE DEF ServerInv
  <1>1. Owned \subseteq Places /\ \A op : Queued(op) \subseteq Places
    <2>1. /\ connections \in [Fds -> Places \cup {None}] /\ local \in Places \cup {None}
          /\ held \subseteq Places /\ kept \subseteq Places /\ ioKept \subseteq Places
      BY DEF ServerTypes, ServerTypeOK
    <2>2. Entered \subseteq Places
      BY <2>1 DEF Entered
    <2>3. \A q : References(q) \subseteq Places
      BY DEF References
    <2> QED BY <2>1, <2>2, <2>3 DEF Owned, Queued
  <1>2. ReferencesSafe
    BY <1>1 DEF ReferencesSafe, PlaceOK, Open, ServerTypes
  <1>3. phase # "end" => {p \in Places : Live(p)} = 1..space \ SetOf(free)
    <2>1. 1..space \subseteq Places
      BY ServerConstants DEF ServerTypes, ServerTypeOK
    <2> QED BY <2>1 DEF PlaceOK
  <1>4. PoolSafe
    BY <1>3 DEF PoolSafe, ServerTypes
  <1>5. EntriesSafe
    BY <1>1 DEF EntriesSafe, FdsApart, PlaceOK, Open, VisitedOK
  <1> QED BY <1>2, <1>4, <1>5 DEF PlacesSafe

LEMMA InitServer == ServerInit => ServerInv
  <1> SUFFICES ASSUME ServerInit PROVE ServerInv
    OBVIOUS
  <1>1. /\ serverq = <<>> /\ ioq = <<>> /\ SetOf(<<>>) = {} /\ Len(<<>>) = 0
        /\ held = {} /\ local = None /\ connections = [f \in Fds |-> None] /\ left = {}
        /\ \A p \in Places : state[p] = None /\ fd[p] = None
        /\ phase = "poll" /\ stopping = FALSE /\ io = "poll"
        /\ taken = 0 /\ ioTaken = 0 /\ kept = {} /\ ioKept = {}
        /\ skipped = {} /\ unclosed = {} /\ failed = "none"
        /\ state = [p \in Places |-> None] /\ fd = [p \in Places |-> None]
        /\ closedCb = [p \in Places |-> "remove"]
    BY EmptySet DEF ServerInit
  <1>2. /\ space = Init0 /\ size = Init0 /\ free \in Seq(Places) /\ NoRepeat(free) /\ SetOf(free) = 1..Init0
        /\ Init0 \in Places
    BY ServerConstants DEF ServerInit, PoolInit, NoRepeat, SetOf
  <1>3. ServerTypes
    <2>1. ServerTypeOK
      <3>1. /\ state \in [Places -> States \cup {None}]
            /\ fd \in [Places -> Fds \cup {None}] /\ closedCb \in [Places -> {"remove", "user"}]
            /\ connections \in [Fds -> Places \cup {None}]
        BY <1>1
      <3>2. taken \in 0..Len(serverq) /\ ioTaken \in 0..Len(ioq)
        BY <1>1
      <3> QED BY <1>1, <1>2, <3>1, <3>2, ServerConstants DEF ServerTypeOK
    <2>2. serverq \in Seq(ServerFunctors) /\ ioq \in Seq(IoFunctors) /\ OnceEach(serverq)
      BY <1>1 DEF OnceEach
    <2> QED BY <1>1, <1>2, <2>1, <2>2 DEF ServerTypes
  <1>4. \A p \in Places : PlaceOK(p)
    <2> TAKE p \in Places
    <2>1. p \notin Entered
      BY <1>1, OwnedAt, ServerConstants
    <2>2. p \notin Owned
      BY <1>1, <2>1, OwnedAt, ServerConstants DEF References
    <2> QED BY <1>1, <1>2, <2>1, <2>2 DEF PlaceOK, Live, Queued
  <1>5. FdsApart /\ PhasesOK /\ StartsOK /\ VisitedOK
    BY <1>1 DEF FdsApart, PhasesOK, StartsOK, VisitedOK, Live
  <1> QED BY <1>3, <1>4, <1>5 DEF ServerInv
-----------------------------------------------------------------------------
\* Steps that only change where the threads are.
LEMMA QuietStep ==
    ASSUME ServerInv, ServerTypeOK', PhasesOK', VisitedOK', phase = "end" => phase' = "end",
           UNCHANGED <<connections, local, placeVars, queueVars, kept, ioKept, held, connVars>>
    PROVE  ServerInv'
  <1>1. UNCHANGED <<connections, local, space, size, free, serverq, ioq, kept, ioKept, held,
                    state, fd, closedCb>>
    BY DEF placeVars, queueVars, connVars
  <1>2. ServerTypes'
    BY <1>1 DEF ServerInv, ServerTypes
  <1>3. FdsApart' /\ StartsOK'
    BY <1>1 DEF ServerInv, FdsApart, StartsOK, Live
  <1>4. \A q \in Places : PlaceOK(q)'
    <2> TAKE q \in Places
    <2>1. SameUse(q)
      BY <1>1, OwnedAt DEF SameUse
    <2> QED BY <2>1, SameAt DEF ServerInv
  <1> QED BY <1>2, <1>3, <1>4 DEF ServerInv

LEMMA AcceptConnStep == ASSUME ServerInv, AcceptConn PROVE ServerInv'
  <1>1. /\ phase = "poll" /\ taken = 0 /\ phase' = "accept"
        /\ UNCHANGED <<local, stopping, left, connections, skipped, placeVars, queueVars, held, connVars>>
        /\ UNCHANGED <<space, size, serverq, ioq, state, fd, closedCb, taken, kept, io, ioTaken, ioKept,
                       unclosed, failed>>
    BY DEF AcceptConn, placeVars, queueVars, connVars, batchVars, ioVars, failVars
  <1>2. ServerTypeOK'
    BY <1>1 DEF ServerInv, ServerTypes, ServerTypeOK
  <1>3. PhasesOK' /\ VisitedOK'
    BY <1>1 DEF ServerInv, PhasesOK, VisitedOK
  <1> QED BY <1>1, <1>2, <1>3, QuietStep

LEMMA AcceptEndsStep == ASSUME ServerInv, failed = "none", AcceptFails \/ AcceptNone PROVE ServerInv'
  <1>1. /\ phase = "accept" /\ local = None /\ phase' \in {"clear", "accept"}
        /\ failed' \in {failed, "fd"}
        /\ UNCHANGED <<local, stopping, left, connections, skipped, placeVars, queueVars, held, connVars>>
        /\ UNCHANGED <<space, size, serverq, ioq, state, fd, closedCb, taken, kept, io, ioTaken, ioKept,
                       unclosed>>
    BY DEF AcceptFails, AcceptNone, placeVars, queueVars, connVars, serverVars, batchVars, ioVars, failVars
  <1>2. ServerTypeOK'
    BY <1>1 DEF ServerInv, ServerTypes, ServerTypeOK
  <1>3. PhasesOK' /\ VisitedOK'
    BY <1>1 DEF ServerInv, PhasesOK, VisitedOK
  <1> QED BY <1>1, <1>2, <1>3, QuietStep

LEMMA ServerSwapStep == ASSUME ServerInv, ServerSwap PROVE ServerInv'
  <1>1. /\ phase \in {"poll", "clear"} /\ phase' \in {"poll", "last"} /\ taken' = Len(serverq)
        /\ UNCHANGED <<local, stopping, left, connections, skipped, placeVars, queueVars, held, connVars>>
        /\ UNCHANGED <<space, size, serverq, ioq, state, fd, closedCb, kept, io, ioTaken, ioKept,
                       unclosed, failed>>
    BY DEF ServerSwap, placeVars, queueVars, connVars, ioVars, failVars
  <1>2. taken' \in 0..Len(serverq')
    BY <1>1 DEF ServerInv, ServerTypes
  <1>3. ServerTypeOK'
    BY <1>1, <1>2 DEF ServerInv, ServerTypes, ServerTypeOK
  <1>4. PhasesOK' /\ VisitedOK'
    BY <1>1 DEF ServerInv, PhasesOK, VisitedOK
  <1> QED BY <1>1, <1>3, <1>4, QuietStep

LEMMA IoSwapStep == ASSUME ServerInv, IoSwap PROVE ServerInv'
  <1>1. /\ ioTaken' = Len(ioq)
        /\ UNCHANGED <<local, phase, stopping, left, connections, skipped, placeVars, queueVars, held, connVars>>
        /\ UNCHANGED <<space, size, serverq, ioq, state, fd, closedCb, taken, kept, io, ioKept,
                       unclosed, failed>>
    BY DEF IoSwap, placeVars, queueVars, connVars, serverVars, batchVars, failVars
  <1>2. ioTaken' \in 0..Len(ioq')
    BY <1>1 DEF ServerInv, ServerTypes
  <1>3. ServerTypeOK'
    BY <1>1, <1>2 DEF ServerInv, ServerTypes, ServerTypeOK
  <1>4. PhasesOK' /\ VisitedOK'
    BY <1>1 DEF ServerInv, PhasesOK, VisitedOK, Open
  <1> QED BY <1>1, <1>3, <1>4, QuietStep

LEMMA LoopReturnsStep == ASSUME ServerInv, LoopReturns PROVE ServerInv'
  <1>1. /\ phase = "last" /\ taken = 0 /\ phase' = "returned"
        /\ UNCHANGED <<local, stopping, left, connections, skipped, placeVars, queueVars, held, connVars>>
        /\ UNCHANGED <<space, size, serverq, ioq, state, fd, closedCb, taken, kept, io, ioTaken, ioKept,
                       unclosed, failed>>
    BY DEF LoopReturns, placeVars, queueVars, connVars, batchVars, ioVars, failVars
  <1>2. ServerTypeOK'
    BY <1>1 DEF ServerInv, ServerTypes, ServerTypeOK
  <1>3. PhasesOK' /\ VisitedOK'
    BY <1>1 DEF ServerInv, PhasesOK, VisitedOK
  <1> QED BY <1>1, <1>2, <1>3, QuietStep

LEMMA DestructorStep == ASSUME ServerInv, Destructor PROVE ServerInv'
  <1>1. /\ phase = "returned" /\ held = {} /\ phase' = "close"
        /\ left' = {f \in Fds : connections[f] # None}
        /\ UNCHANGED <<local, stopping, connections, skipped, placeVars, queueVars, held, connVars>>
        /\ UNCHANGED <<space, size, serverq, ioq, state, fd, closedCb, taken, kept, io, ioTaken, ioKept,
                       unclosed, failed>>
    BY DEF Destructor, placeVars, queueVars, connVars, batchVars, ioVars, failVars
  <1>2. ServerTypeOK'
    BY <1>1 DEF ServerInv, ServerTypes, ServerTypeOK
  <1>3. PhasesOK' /\ VisitedOK'
    BY <1>1 DEF ServerInv, PhasesOK, VisitedOK
  <1> QED BY <1>1, <1>2, <1>3, QuietStep

LEMMA JoinStep == ASSUME ServerInv, Join PROVE ServerInv'
  <1>1. /\ phase = "close" /\ left = {} /\ ioq = <<>> /\ ioKept = {} /\ phase' = "join"
        /\ UNCHANGED <<local, stopping, left, connections, skipped, placeVars, queueVars, held, connVars>>
        /\ UNCHANGED <<space, size, serverq, ioq, state, fd, closedCb, taken, kept, io, ioTaken, ioKept,
                       unclosed, failed>>
    BY DEF Join, placeVars, queueVars, connVars, batchVars, ioVars, failVars
  <1>2. ServerTypeOK'
    BY <1>1 DEF ServerInv, ServerTypes, ServerTypeOK
  <1>3. PhasesOK' /\ VisitedOK'
    BY <1>1 DEF ServerInv, PhasesOK, VisitedOK, Open
  <1> QED BY <1>1, <1>2, <1>3, QuietStep


LEMMA StopStep == ASSUME ServerInv, StopServer PROVE ServerInv'
  <1> DEFINE x == <<"stop", None>>
  <1>1. /\ serverq' = Append(serverq, x)
        /\ UNCHANGED <<phase, local, stopping, left, connections, skipped, placeVars, ioq, held, connVars>>
        /\ UNCHANGED <<space, size, free, state, fd, closedCb, taken, kept, io, ioTaken, ioKept,
                       unclosed, failed>>
    BY DEF StopServer, placeVars, connVars, serverVars, batchVars, ioVars, failVars
  <1>2. x \in ServerFunctors /\ serverq \in Seq(ServerFunctors) /\ OnceEach(serverq) /\ x[1] = "stop"
    BY DEF ServerFunctors, ServerInv, ServerTypes
  <1> HIDE DEF x
  <1>3. /\ serverq' \in Seq(ServerFunctors) /\ OnceEach(serverq')
        /\ SetOf(serverq') = SetOf(serverq) \cup {x}
        /\ Len(serverq') = Len(serverq) + 1 /\ Len(serverq) \in Nat
    BY <1>1, <1>2, OnceMore
  <1>4. ServerTypes'
    <2>1. taken' \in 0..Len(serverq')
      BY <1>1, <1>3 DEF ServerInv, ServerTypes, ServerTypeOK
    <2>2. ServerTypeOK'
      BY <1>1, <2>1 DEF ServerInv, ServerTypes, ServerTypeOK
    <2> QED BY <1>1, <1>3, <2>2 DEF ServerInv, ServerTypes
  <1>5. FdsApart' /\ StartsOK' /\ PhasesOK' /\ VisitedOK'
    BY <1>1 DEF ServerInv, FdsApart, StartsOK, Live, PhasesOK, VisitedOK, Open
  <1>6. ASSUME NEW q \in Places PROVE PlaceOK(q)'
    <2>1. \A op \in Ops : <<op, q>> # x
      BY DEF Ops, x
    <2>2. SameUse(q)
      BY <1>1, <1>3, <2>1, OwnedAt DEF SameUse
    <2> QED BY <1>1, <2>2, SameAt DEF ServerInv
  <1> QED BY <1>4, <1>5, <1>6 DEF ServerInv
-----------------------------------------------------------------------------
\* When no place is free, each has a descriptor of its own, and there is another descriptor.
LEMMA FullPool ==
    ASSUME ServerInv, phase # "end", free = <<>>, NEW f \in Unused
    PROVE  space < Cardinality(Fds)
  <1> DEFINE S == 1..space
             T == Fds \ {f}
             g == [p \in S |-> fd[p]]
  <1>1. S \subseteq Places /\ space \in Nat
    BY ServerConstants DEF ServerInv, ServerTypes, ServerTypeOK
  <1>2. ASSUME NEW p \in S PROVE Live(p) /\ fd[p] \in T
    <2>1. PlaceOK(p) /\ p \in Places /\ SetOf(<<>>) = {}
      BY <1>1, EmptySet DEF ServerInv
    <2>2. Live(p) /\ fd[p] # None
      BY <2>1 DEF PlaceOK
    <2>3. fd[p] \in Fds \cup {None} /\ fd[p] # f
      BY <2>1 DEF ServerInv, ServerTypes, ServerTypeOK, Unused
    <2> QED BY <2>2, <2>3
  <1>3. \A p, q \in S : fd[p] = fd[q] => p = q
    BY <1>1, <1>2 DEF ServerInv, FdsApart
  <1>4. g \in Injection(S, T)
    BY <1>2, <1>3 DEF Injection, IsInjective
  <1>5. /\ IsFiniteSet(T) /\ Cardinality(T) = Cardinality(Fds) - 1 /\ f \in Fds
        /\ Cardinality(Fds) \in Nat
    BY FS_RemoveElement, ServerConstants DEF Unused
  <1> HIDE DEF S, T, g
  <1>6. Cardinality(S) <= Cardinality(T)
    BY <1>4, <1>5, FS_Injection
  <1>7. Cardinality(S) = space
    BY <1>1, FS_Interval DEF S
  <1> QED BY <1>1, <1>5, <1>6, <1>7

\* setPtr takes a place that was free, or makes as many as there are.
LEMMA SetPtrIs ==
    ASSUME ServerInv, phase # "end", Unused # {}, NEW p \in Places, SetPtr(p)
    PROVE  /\ ~Live(p)
           /\ free' \in Seq(Places) /\ NoRepeat(free') /\ SetOf(free') \subseteq 1..space'
           /\ size' = space' /\ space' \in Places /\ size' \in Nat
           /\ space' = Init0 \/ space' < 2 * Cardinality(Fds)
           /\ \A q \in Places : (q \in 1..space' /\ q \notin SetOf(free'))
                                    <=> (q \in 1..space /\ q \notin SetOf(free)) \/ q = p
  <1>1. /\ free \in Seq(Places) /\ NoRepeat(free) /\ SetOf(free) \subseteq 1..space
        /\ size = space /\ space \in Places /\ space \in Nat /\ size \in Nat /\ space > 0
        /\ space = Init0 \/ space < 2 * Cardinality(Fds)
    BY ServerConstants DEF ServerInv, ServerTypes, ServerTypeOK
  <1>2. Live(p) <=> p \in 1..space /\ p \notin SetOf(free)
    BY DEF ServerInv, PlaceOK
  <1>3. CASE free # <<>>
    <2>1. p = Head(free) /\ free' = Tail(free) /\ space' = space /\ size' = size
      BY <1>3 DEF SetPtr
    <2>2. /\ free' \in Seq(Places) /\ NoRepeat(free') /\ p \in SetOf(free)
          /\ SetOf(free') = SetOf(free) \ {p}
      BY <1>1, <1>3, <2>1, TailSet
    <2> QED BY <1>1, <1>2, <2>1, <2>2
  <1>4. CASE free = <<>>
    <2> DEFINE m == [k \in 1..space |-> space + k]
               r == Tail(m)
    <2>1. p = Head(m) /\ free' = r /\ space' = space + space /\ size' = 2 * space
      BY <1>1, <1>4 DEF SetPtr, MadeSpace
    <2>2. /\ m # <<>> /\ Head(m) = space + 1
          /\ r \in Seq(Nat) /\ Len(r) = space - 1 /\ \A k \in 1..space - 1 : r[k] = space + k + 1
      <3>1. m \in [1..space -> Nat] /\ \A k \in 1..space : m[k] = space + k
        BY <1>1
      <3> HIDE DEF m
      <3>2. m \in Seq(Nat) /\ Len(m) = space
        BY <1>1, <3>1
      <3>3. m # <<>> /\ Head(m) = m[1] /\ m[1] = space + 1
        BY <1>1, <3>1, <3>2
      <3>4. Tail(m) \in Seq(Nat) /\ Len(Tail(m)) = space - 1 /\ \A k \in 1..space - 1 : Tail(m)[k] = m[k + 1]
        BY <1>1, <3>2, <3>3
      <3>5. ASSUME NEW k \in 1..space - 1 PROVE Tail(m)[k] = space + k + 1
        <4>1. k + 1 \in 1..space /\ m[k + 1] = space + (k + 1) /\ k \in Nat
          BY <1>1, <3>1
        <4> QED BY <1>1, <3>4, <4>1
      <3> QED BY <3>3, <3>4, <3>5
    <2>3. /\ SetOf(<<>>) = {} /\ space < Cardinality(Fds) /\ Cardinality(Fds) \in Nat /\ Init0 \in Nat \ {0}
          /\ Places = 1..Init0 + 2 * Cardinality(Fds)
      <3>1. PICK f : f \in Unused
        OBVIOUS
      <3>2. space < Cardinality(Fds)
        BY <1>4, <3>1, FullPool
      <3> QED BY <3>2, EmptySet, ServerConstants
    <2> HIDE DEF m, r
    <2>4. space' < 2 * Cardinality(Fds) /\ space' \in Places /\ size' = space' /\ size' \in Nat
      BY <1>1, <2>1, <2>3
    <2>5. ASSUME NEW k \in 1..space - 1 PROVE r[k] \in Places
      <3>1. r[k] = space + k + 1 /\ k \in Nat /\ k >= 1 /\ k <= space - 1
        BY <1>1, <2>2
      <3>2. space + k + 1 <= 2 * Cardinality(Fds) /\ space + k + 1 \in Nat /\ space + k + 1 >= 1
        BY <1>1, <2>3, <3>1
      <3> HIDE DEF Unused
      <3> QED BY <2>3, <3>1, <3>2
    <2>6. free' \in Seq(Places) /\ NoRepeat(free')
      BY <1>1, <2>1, <2>2, <2>5 DEF NoRepeat
    <2>7. \A q : q \in SetOf(r) <=> q \in space + 2..space + space
      <3>1. ASSUME NEW q \in SetOf(r) PROVE q \in space + 2..space + space
        <4>1. PICK k \in 1..space - 1 : q = r[k]
          BY <2>2, <3>1 DEF SetOf
        <4>2. q = space + k + 1 /\ k \in Nat /\ k >= 1 /\ k <= space - 1
          BY <1>1, <2>2, <4>1
        <4> QED BY <1>1, <4>2
      <3>2. ASSUME NEW q \in space + 2..space + space PROVE q \in SetOf(r)
        <4>1. q - space - 1 \in 1..space - 1 /\ r[q - space - 1] = q
          BY <1>1, <2>2, <3>2
        <4> QED BY <2>2, <4>1 DEF SetOf
      <3> QED BY <3>1, <3>2
    <2>8. p = space + 1 /\ ~Live(p)
      BY <1>1, <1>2, <2>1, <2>2
    <2>9. SetOf(free') \subseteq 1..space'
      <3>1. \A q \in space + 2..space + space : q \in 1..space + space
        BY <1>1
      <3> QED BY <2>1, <2>7, <3>1
    <2>10. ASSUME NEW q \in Places
           PROVE  (q \in 1..space' /\ q \notin SetOf(free')) <=> q \in 1..space \/ q = p
      <3>1. q \in Nat /\ q >= 1
        BY ServerConstants
      <3>2. q \in SetOf(free') <=> space + 2 <= q /\ q <= space + space
        BY <1>1, <2>1, <2>7, <3>1
      <3>3. q \in 1..space' <=> q <= space + space
        BY <1>1, <2>1, <3>1
      <3> QED BY <1>1, <2>8, <3>1, <3>2, <3>3
    <2> QED BY <1>4, <2>1, <2>3, <2>4, <2>6, <2>8, <2>9, <2>10
  <1> QED BY <1>3, <1>4

\* The functors of the io loop.
LEMMA IoQueueIs ==
    ASSUME ServerInv, NEW k \in 1..Len(ioq)
    PROVE  /\ ioq[k] \in SetOf(ioq) /\ ioq[k] \in IoFunctors
           /\ ioq[k] = <<ioq[k][1], ioq[k][2]>>
           /\ ioq[k][1] \in {"start", "shut", "close"} /\ ioq[k][2] \in Places
  <1>1. ioq[k] \in IoFunctors
    BY DEF ServerInv, ServerTypes
  <1> QED BY <1>1 DEF IoFunctors, SetOf

\* Nothing knows a place that is not used.
LEMMA UnknownPlace ==
    ASSUME ServerInv, NEW p \in Places, ~Live(p)
    PROVE  /\ p \notin Owned /\ p \notin Entered /\ p \notin held /\ p # local
           /\ \A op \in Ops : <<op, p>> \notin SetOf(serverq) /\ <<op, p>> \notin SetOf(ioq)
           /\ \A k \in 1..Len(ioq) : ioq[k][2] # p
           /\ p \notin kept /\ p \notin ioKept
  <1>1. p \notin Owned /\ p \notin Queued("delete")
    BY DEF ServerInv, PlaceOK
  <1>2. /\ p \notin Entered /\ p \notin held /\ p # local /\ p \notin kept /\ p \notin ioKept
        /\ p \notin References(serverq) /\ p \notin References(ioq)
    BY <1>1, OwnedAt
  <1>3. <<"delete", p>> \notin SetOf(ioq)
    <2>1. SetOf(ioq) \subseteq IoFunctors
      BY IoQueueIs DEF SetOf
    <2> QED BY <2>1 DEF IoFunctors
  <1>4. \A op \in Ops : <<op, p>> \notin SetOf(serverq) /\ <<op, p>> \notin SetOf(ioq)
    BY <1>1, <1>2, <1>3 DEF References, Queued, Ops
  <1>5. \A k \in 1..Len(ioq) : ioq[k][2] # p
    BY <1>4, IoQueueIs DEF Ops
  <1> QED BY <1>1, <1>2, <1>4, <1>5

LEMMA AcceptStep == ASSUME ServerInv, Accept PROVE ServerInv'
  <1>1. PICK f \in Unused, p \in Places :
          /\ SetPtr(p)
          /\ state' = [state EXCEPT ![p] = "kConnecting"]
          /\ fd' = [fd EXCEPT ![p] = f]
          /\ closedCb' = [closedCb EXCEPT ![p] = "remove"]
          /\ ioq' = Append(ioq, <<"start", p>>)
          /\ local' = p
    BY DEF Accept
  <1>2. /\ phase = "accept" /\ local = None
        /\ UNCHANGED <<phase, stopping, left, connections, skipped, serverq, held,
                       taken, kept, io, ioTaken, ioKept, unclosed, failed>>
    BY DEF Accept, batchVars, ioVars, failVars
  <1> DEFINE x == <<"start", p>>
  <1>3. /\ ~Live(p)
        /\ free' \in Seq(Places) /\ NoRepeat(free') /\ SetOf(free') \subseteq 1..space'
        /\ size' = space' /\ space' \in Places /\ size' \in Nat
        /\ space' = Init0 \/ space' < 2 * Cardinality(Fds)
        /\ \A q \in Places : (q \in 1..space' /\ q \notin SetOf(free'))
                                 <=> (q \in 1..space /\ q \notin SetOf(free)) \/ q = p
    BY <1>1, <1>2, SetPtrIs
  <1>4. /\ p \notin Owned /\ p \notin Entered /\ p \notin held /\ p # local
        /\ \A op \in Ops : <<op, p>> \notin SetOf(serverq) /\ <<op, p>> \notin SetOf(ioq)
        /\ \A k \in 1..Len(ioq) : ioq[k][2] # p
    BY <1>3, UnknownPlace
  <1>5. /\ x \in IoFunctors /\ ioq \in Seq(IoFunctors)
        /\ ioq' \in Seq(IoFunctors) /\ SetOf(ioq') = SetOf(ioq) \cup {x}
        /\ Len(ioq') = Len(ioq) + 1 /\ Len(ioq) \in Nat
    <2>1. x \in IoFunctors /\ ioq \in Seq(IoFunctors)
      BY DEF IoFunctors, ServerInv, ServerTypes
    <2>2. Len(ioq') = Len(ioq) + 1 /\ Len(ioq) \in Nat
      BY <1>1, <2>1
    <2> QED BY <1>1, <2>1, <2>2, AppendSet
  <1>6. /\ \A q \in Places : state'[q] = IF q = p THEN "kConnecting" ELSE state[q]
        /\ \A q \in Places : fd'[q] = IF q = p THEN f ELSE fd[q]
        /\ f \in Fds /\ f # None
    BY <1>1, ServerConstants DEF ServerInv, ServerTypes, ServerTypeOK, Unused
  <1>7. ServerTypes'
    <2>1. /\ state' \in [Places -> States \cup {None}]
          /\ fd' \in [Places -> Fds \cup {None}] /\ closedCb' \in [Places -> {"remove", "user"}]
      BY <1>1, <1>6 DEF ServerInv, ServerTypes, ServerTypeOK, States
    <2>2. ioTaken' \in 0..Len(ioq')
      BY <1>2, <1>5 DEF ServerInv, ServerTypes, ServerTypeOK
    <2>3. ServerTypeOK'
      BY <1>1, <1>2, <1>3, <2>1, <2>2 DEF ServerInv, ServerTypes, ServerTypeOK
    <2> QED BY <1>2, <1>3, <1>5, <2>3 DEF ServerInv, ServerTypes
  <1>8. FdsApart'
    <2>1. ASSUME NEW q \in Places, NEW r \in Places, Live(q)', Live(r)', fd'[q] = fd'[r] PROVE q = r
      <3>1. \A s \in Places : fd[s] # f
        BY DEF Unused
      <3> QED BY <1>6, <2>1, <3>1 DEF ServerInv, FdsApart, Live
    <2>2. ASSUME NEW g \in Fds, connections'[g] # None PROVE fd'[connections'[g]] = g
      <3>1. connections[g] \in Places /\ connections[g] # p /\ fd[connections[g]] = g
        BY <1>2, <1>4, <2>2, OwnedAt DEF ServerInv, FdsApart, ServerTypes, ServerTypeOK
      <3> QED BY <1>2, <1>6, <3>1
    <2> QED BY <2>1, <2>2 DEF FdsApart
  <1>9. PhasesOK' /\ VisitedOK'
    BY <1>2 DEF ServerInv, PhasesOK, VisitedOK
  <1>10. StartsOK'
    <2>1. Len(ioq') = Len(ioq) + 1 /\ Len(ioq) \in Nat /\ ioq'[Len(ioq) + 1] = x
          /\ \A k \in 1..Len(ioq) : ioq'[k] = ioq[k]
      BY <1>1, <1>5
    <2>2. x[2] = p
      OBVIOUS
    <2> SUFFICES ASSUME NEW j \in 1..Len(ioq'), NEW k \in 1..Len(ioq'),
                        ioq'[j][1] = "start" /\ ioq'[j][2] = ioq'[k][2]
                 PROVE  j = k
      BY DEF StartsOK
    <2> HIDE DEF x
    <2>3. CASE j \in 1..Len(ioq) /\ k \in 1..Len(ioq)
      BY <2>1, <2>3 DEF ServerInv, StartsOK
    <2>4. CASE j \in 1..Len(ioq) /\ k = Len(ioq) + 1
      BY <1>4, <2>1, <2>2, <2>4
    <2>5. CASE k \in 1..Len(ioq) /\ j = Len(ioq) + 1
      BY <1>4, <2>1, <2>2, <2>5
    <2> QED BY <2>1, <2>3, <2>4, <2>5
  <1>11. PlaceOK(p)'
    <2>1. Live(p)' /\ Open(p)' /\ state'[p] = "kConnecting" /\ fd'[p] # None
      BY <1>6, ServerConstants DEF Live, Open, States
    <2>2. p \in Owned' /\ p \notin Queued("delete")' /\ p \notin Queued("remove")' /\ p = local'
      BY <1>1, <1>2, <1>4, OwnedAt DEF Queued, Ops
    <2> QED BY <1>2, <1>3, <2>1, <2>2 DEF PlaceOK
  <1>12. ASSUME NEW q \in Places, q # p PROVE PlaceOK(q)'
    <2>1. \A op \in Ops : <<op, q>> # x
      BY <1>12
    <2>2. q # local /\ q # local'
      BY <1>1, <1>2, <1>12, ServerConstants
    <2>3. \A op \in Ops : <<op, q>> \in SetOf(ioq') <=> <<op, q>> \in SetOf(ioq)
      BY <1>5, <2>1
    <2>4. SameUse(q)
      BY <1>2, <1>3, <1>6, <1>12, <2>2, <2>3, OwnedAt DEF SameUse
    <2> QED BY <1>2, <2>4, SameAt DEF ServerInv
  <1> QED BY <1>7, <1>8, <1>9, <1>10, <1>11, <1>12 DEF ServerInv

\* The entry of new_ is new_ itself, whether it is made now or was there.
LEMMA EmplaceStep == ASSUME ServerInv, Emplace PROVE ServerInv'
  <1>1. PICK p \in Places : p = local
    BY DEF Emplace, ServerInv, ServerTypes, ServerTypeOK
  <1>2. p \in Owned /\ Live(p) /\ p \notin Queued("delete") /\ fd[p] \in Fds
    <2>1. p \in Owned /\ PlaceOK(p)
      BY <1>1, OwnedAt DEF ServerInv
    <2>2. Live(p) /\ p \notin Queued("delete") /\ fd[p] # None
      BY <2>1 DEF PlaceOK
    <2> QED BY <2>1, <2>2 DEF ServerInv, ServerTypes, ServerTypeOK
  <1>3. PICK f \in Fds : f = fd[p]
    BY <1>2
  <1>4. /\ p # None /\ phase = "accept" /\ p \in Places
        /\ connections' = [connections EXCEPT ![f] = IF @ = None THEN p ELSE @]
        /\ local' = None
        /\ UNCHANGED <<phase, stopping, left, skipped, serverq, ioq, held, taken, kept, io, ioTaken, ioKept>>
        /\ DropInServer(p)
    BY <1>1, <1>3 DEF Emplace, queueVars, batchVars, ioVars, ServerInv, PhasesOK
  <1>5. connections[f] \in {p, None}
    <2> SUFFICES ASSUME connections[f] # None PROVE connections[f] = p
      OBVIOUS
    <2> DEFINE r == connections[f]
    <2>1. r \in Places /\ fd[r] = f
      BY <1>2 DEF ServerInv, FdsApart, ServerTypes, ServerTypeOK
    <2>2. PlaceOK(r) /\ r \in Owned
      BY <1>2, <2>1, OwnedAt DEF ServerInv
    <2>3. Live(r)
      BY <2>2 DEF PlaceOK
    <2> QED BY <1>4, <1>2, <1>3, <2>1, <2>3 DEF ServerInv, FdsApart
  <1>6. connections' = [connections EXCEPT ![f] = p] /\ connections \in [Fds -> Places \cup {None}]
    <2>1. (IF connections[f] = None THEN p ELSE connections[f]) = p
      BY <1>5
    <2> QED BY <1>4, <2>1 DEF ServerInv, ServerTypes, ServerTypeOK
  <1>7. \A g \in Fds : connections'[g] = IF g = f THEN p ELSE connections[g]
    BY <1>6
  <1>8. p \in Entered'
    BY <1>4, <1>2, <1>7, OwnedAt
  <1>9. UNCHANGED <<space, size, free, state, fd, closedCb, unclosed, failed>>
    BY <1>4, <1>8 DEF DropInServer, Unreferenced, placeVars, connVars, failVars
  <1>10. ServerTypes'
    <2>1. connections' \in [Fds -> Places \cup {None}]
      BY <1>4, <1>6
    <2>2. ServerTypeOK'
      BY <1>4, <1>9, <2>1 DEF ServerInv, ServerTypes, ServerTypeOK
    <2> QED BY <1>4, <1>9, <2>2 DEF ServerInv, ServerTypes
  <1>11. FdsApart'
    BY <1>3, <1>7, <1>9 DEF ServerInv, FdsApart, Live
  <1>12. PhasesOK' /\ VisitedOK' /\ StartsOK'
    BY <1>4, <1>9 DEF ServerInv, PhasesOK, VisitedOK, StartsOK
  <1>13. ASSUME NEW q \in Places, q # p PROVE q \in Entered' <=> q \in Entered
    BY <1>2, <1>5, <1>7, <1>13, OwnedAt, ServerConstants
  <1>14. PlaceOK(p)'
    <2>1. p \in Owned'
      BY <1>4, <1>8, OwnedAt
    <2>2. (p \in Queued("delete"))' = (p \in Queued("delete")) /\ Open(p)' = Open(p) /\ Live(p)' = Live(p)
          /\ (p \in Queued("remove"))' = (p \in Queued("remove"))
      BY <1>4, <1>9 DEF Queued, Open, Live
    <2> QED BY <1>4, <1>2, <1>8, <1>9, <2>1, <2>2 DEF ServerInv, PlaceOK
  <1>15. ASSUME NEW q \in Places, q # p PROVE PlaceOK(q)'
    <2>1. q # local /\ q # local'
      BY <1>4, <1>1, <1>15, ServerConstants
    <2>2. SameUse(q)
      BY <1>4, <1>9, <1>13, <1>15, <2>1 DEF SameUse
    <2> QED BY <1>4, <2>2, SameAt DEF ServerInv
  <1> QED BY <1>10, <1>11, <1>12, <1>14, <1>15 DEF ServerInv
-----------------------------------------------------------------------------
\* The place of a closed connection that nothing refers to is given back.
LEMMA DestroyIs ==
    ASSUME ServerInv, NEW p \in Places, Live(p), ~Open(p), Destroy(p), phase # "end",
           p \notin Owned', p \notin Queued("delete")',
           \A g \in Fds : connections'[g] \in {connections[g], None}
    PROVE  /\ UNCHANGED <<space, size, unclosed, failed>>
           /\ free' \in Seq(Places) /\ NoRepeat(free') /\ SetOf(free') \subseteq 1..space'
           /\ SetOf(free') = SetOf(free) \cup {p}
           /\ state' \in [Places -> States \cup {None}]
           /\ fd' \in [Places -> Fds \cup {None}] /\ closedCb' \in [Places -> {"remove", "user"}]
           /\ \A q \in Places : q # p => state'[q] = state[q] /\ fd'[q] = fd[q]
           /\ FdsApart' /\ PlaceOK(p)'
  <1>1. /\ state \in [Places -> States \cup {None}] /\ fd \in [Places -> Fds \cup {None}]
        /\ closedCb \in [Places -> {"remove", "user"}] /\ connections \in [Fds -> Places \cup {None}]
        /\ free \in Seq(Places) /\ NoRepeat(free) /\ SetOf(free) \subseteq 1..space
    BY DEF ServerInv, ServerTypes, ServerTypeOK
  <1>2. /\ state' = [state EXCEPT ![p] = None] /\ fd' = [fd EXCEPT ![p] = None]
        /\ closedCb' = [closedCb EXCEPT ![p] = "remove"] /\ free' = Append(free, p)
        /\ UNCHANGED <<space, size, unclosed, failed>>
    BY DEF Destroy, Open, failVars
  <1>3. /\ state'[p] = None /\ fd'[p] = None
        /\ \A q \in Places : q # p => state'[q] = state[q] /\ fd'[q] = fd[q]
        /\ state' \in [Places -> States \cup {None}]
        /\ fd' \in [Places -> Fds \cup {None}] /\ closedCb' \in [Places -> {"remove", "user"}]
    BY <1>1, <1>2
  <1>4. p \in 1..space /\ p \notin SetOf(free)
    BY DEF ServerInv, PlaceOK
  <1>5. /\ free' \in Seq(Places) /\ NoRepeat(free') /\ SetOf(free') = SetOf(free) \cup {p}
        /\ SetOf(free') \subseteq 1..space'
    <2>1. free' \in Seq(Places) /\ NoRepeat(free') /\ SetOf(free') = SetOf(free) \cup {p}
      BY <1>1, <1>2, <1>4, AppendSet
    <2> QED BY <1>1, <1>2, <1>4, <2>1
  <1>6. /\ p \notin Entered' /\ p \notin References(serverq') /\ p \notin References(ioq')
    BY OwnedAt
  <1>7. FdsApart'
    <2>1. \A q, r \in Places : Live(q)' /\ Live(r)' /\ fd'[q] = fd'[r] => q = r
      BY <1>3 DEF ServerInv, FdsApart, Live
    <2>2. ASSUME NEW g \in Fds, connections'[g] # None PROVE fd'[connections'[g]] = g
      <3>1. connections'[g] = connections[g] /\ connections[g] \in Places /\ fd[connections[g]] = g
        BY <1>1, <2>2 DEF ServerInv, FdsApart
      <3>2. connections[g] # p
        BY <1>6, <3>1, OwnedAt
      <3> QED BY <1>3, <3>1, <3>2
    <2> QED BY <2>1, <2>2 DEF FdsApart
  <1>8. PlaceOK(p)'
    <2>1. p \notin Queued("remove")' /\ <<"start", p>> \notin SetOf(ioq')
      BY <1>6 DEF Queued, References
    <2> QED BY <1>3, <1>5, <2>1 DEF PlaceOK, Live
  <1> QED BY <1>2, <1>3, <1>5, <1>7, <1>8

\* Functors of the server's loop.
LEMMA ServerFunctorStep == ASSUME ServerInv, ServerFunctor PROVE ServerInv'
  <1>1. PICK x \in ServerFunctors : x = Head(serverq) /\ serverq # <<>>
    <2>1. serverq # <<>> /\ serverq \in Seq(ServerFunctors)
      BY DEF ServerFunctor, ServerInv, ServerTypes, ServerTypeOK
    <2> QED BY <2>1
  <1>2. /\ phase \in {"poll", "last"} /\ serverq' = Tail(serverq) /\ taken > 0 /\ taken' = taken - 1
        /\ UNCHANGED <<phase, local, left, skipped, ioq, held, io, ioTaken, ioKept>>
        /\ \/ /\ x[1] = "remove"
              /\ connections' = [connections EXCEPT ![fd[x[2]]] = None]
              /\ kept' = kept \cup {x[2]}
              /\ UNCHANGED <<stopping, placeVars, connVars, failVars>>
           \/ /\ x[1] = "delete"
              /\ Destroy(x[2])
              /\ UNCHANGED <<connections, stopping, kept>>
           \/ /\ x[1] = "stop"
              /\ stopping' = TRUE
              /\ UNCHANGED <<connections, kept, placeVars, connVars, failVars>>
    BY <1>1 DEF ServerFunctor, Key, ioVars
  <1>3. /\ serverq' \in Seq(ServerFunctors) /\ OnceEach(serverq')
        /\ SetOf(serverq) = SetOf(serverq') \cup {x}
        /\ x[1] # "stop" => x \notin SetOf(serverq')
        /\ taken' \in 0..Len(serverq')
    <2>1. /\ serverq \in Seq(ServerFunctors) /\ OnceEach(serverq) /\ serverq # <<>>
          /\ taken \in 0..Len(serverq)
      BY <1>1 DEF ServerInv, ServerTypes, ServerTypeOK
    <2>2. /\ Tail(serverq) \in Seq(ServerFunctors) /\ OnceEach(Tail(serverq))
          /\ SetOf(serverq) = SetOf(Tail(serverq)) \cup {Head(serverq)}
          /\ Head(serverq)[1] # "stop" => Head(serverq) \notin SetOf(Tail(serverq))
          /\ Len(serverq) \in Nat \ {0} /\ Len(Tail(serverq)) = Len(serverq) - 1
      BY <2>1, OnceLess
    <2> QED BY <1>1, <1>2, <2>1, <2>2
  <1>4. local = None /\ local' = None
    BY <1>2 DEF ServerInv, PhasesOK
  <1>5. ASSUME UNCHANGED failVars PROVE PhasesOK' /\ VisitedOK' /\ StartsOK'
    BY <1>2, <1>5 DEF ServerInv, PhasesOK, VisitedOK, StartsOK, failVars
  <1>6. ASSUME NEW p \in Places, NEW op \in Ops
        PROVE  <<op, p>> \in SetOf(serverq') <=> <<op, p>> \in SetOf(serverq) /\ <<op, p>> # x
    <2>1. <<op, p>>[1] # "stop"
      BY DEF Ops
    <2> QED BY <1>3, <2>1
  <1>7. ASSUME NEW q \in Places, x[2] # q, connections' = connections, kept' = kept,
               state'[q] = state[q], fd'[q] = fd[q],
               (q \in 1..space' /\ q \notin SetOf(free')) <=> (q \in 1..space /\ q \notin SetOf(free))
        PROVE  PlaceOK(q)'
    <2>1. \A op \in Ops : <<op, q>> \in SetOf(serverq') <=> <<op, q>> \in SetOf(serverq)
      BY <1>6, <1>7
    <2>2. SameUse(q)
      BY <1>2, <1>4, <1>7, <2>1, OwnedAt DEF SameUse
    <2> QED BY <1>2, <2>2, SameAt DEF ServerInv
  <1>8. CASE x[1] = "stop"
    <2>1. x = <<"stop", None>> /\ x[2] = None
      BY <1>8 DEF ServerFunctors
    <2>2. UNCHANGED <<connections, kept, space, size, free, state, fd, closedCb, unclosed, failed>>
          /\ stopping' = TRUE /\ UNCHANGED failVars
      BY <1>2, <1>8 DEF placeVars, connVars, failVars
    <2>3. ServerTypes'
      BY <1>2, <1>3, <2>2 DEF ServerInv, ServerTypes, ServerTypeOK
    <2>4. FdsApart'
      BY <2>2 DEF ServerInv, FdsApart, Live
    <2>5. \A q \in Places : PlaceOK(q)'
      BY <1>7, <2>1, <2>2, ServerConstants
    <2> QED BY <1>5, <2>2, <2>3, <2>4, <2>5 DEF ServerInv
  <1>9. CASE x[1] = "delete"
    <2>1. PICK p \in Places : x = <<"delete", p>>
      BY <1>9 DEF ServerFunctors
    <2>2. Destroy(p) /\ UNCHANGED <<connections, stopping, kept>>
      BY <1>2, <2>1
    <2>3. p \in Queued("delete") /\ Live(p) /\ ~Open(p) /\ p \notin Owned
      <3>1. p \in Queued("delete")
        BY <1>3, <2>1 DEF Queued
      <3> QED BY <3>1 DEF ServerInv, PlaceOK
    <2>4. p \notin Owned' /\ p \notin Queued("delete")'
      <3>1. p \notin Queued("delete")'
        BY <1>6, <2>1 DEF Queued, Ops
      <3>2. p \notin References(serverq')
        BY <1>3, <2>3, OwnedAt DEF References
      <3>3. p \notin Entered' /\ p \notin References(ioq')
        BY <1>2, <2>2, <2>3, OwnedAt
      <3> QED BY <1>2, <2>2, <2>3, <3>1, <3>2, <3>3, OwnedAt
    <2>5. \A g \in Fds : connections'[g] \in {connections[g], None}
      BY <2>2
    <2>6. /\ UNCHANGED <<space, size, unclosed, failed>>
          /\ free' \in Seq(Places) /\ NoRepeat(free') /\ SetOf(free') \subseteq 1..space'
          /\ SetOf(free') = SetOf(free) \cup {p}
          /\ state' \in [Places -> States \cup {None}]
          /\ fd' \in [Places -> Fds \cup {None}] /\ closedCb' \in [Places -> {"remove", "user"}]
          /\ \A q \in Places : q # p => state'[q] = state[q] /\ fd'[q] = fd[q]
          /\ FdsApart' /\ PlaceOK(p)'
      BY <1>2, <2>2, <2>3, <2>4, <2>5, DestroyIs
    <2>7. ServerTypes'
      BY <1>2, <1>3, <2>2, <2>6 DEF ServerInv, ServerTypes, ServerTypeOK
    <2>8. ASSUME NEW q \in Places PROVE PlaceOK(q)'
      BY <1>7, <2>1, <2>2, <2>6
    <2> QED BY <1>5, <2>6, <2>7, <2>8 DEF ServerInv, failVars
  <1>10. CASE x[1] = "remove"
    <2>1. PICK p \in Places : x = <<"remove", p>>
      BY <1>10 DEF ServerFunctors
    <2>2. /\ connections' = [connections EXCEPT ![fd[p]] = None]
          /\ kept' = kept \cup {p}
          /\ UNCHANGED <<stopping, space, size, free, state, fd, closedCb, unclosed, failed>>
      BY <1>2, <2>1 DEF placeVars, connVars, failVars
    <2>3. /\ p \in Queued("remove") /\ Live(p) /\ ~Open(p) /\ p \in Entered
          /\ p \notin Queued("delete") /\ PlaceOK(p)
      <3>1. p \in Queued("remove") /\ p \in References(serverq) /\ PlaceOK(p)
        BY <1>3, <2>1 DEF Queued, References, ServerInv
      <3>2. p \in Owned /\ p # local
        BY <1>4, <3>1, OwnedAt, ServerConstants
      <3> QED BY <3>1, <3>2 DEF PlaceOK
    <2>4. fd[p] \in Fds /\ connections[fd[p]] = p
      BY <2>3, OwnedAt, ServerConstants DEF ServerInv, FdsApart
    <2>5. connections \in [Fds -> Places \cup {None}]
      BY DEF ServerInv, ServerTypes, ServerTypeOK
    <2>6. \A g \in Fds : connections'[g] = IF g = fd[p] THEN None ELSE connections[g]
      BY <2>2, <2>5
    <2>7. ASSUME NEW q \in Places, q # p PROVE q \in Entered' <=> q \in Entered
      BY <2>4, <2>6, <2>7, OwnedAt, ServerConstants
    <2>8. p \notin Queued("delete")' /\ p \notin Queued("remove")'
      BY <1>6, <2>1, <2>3 DEF Queued, Ops
    <2>9. ServerTypes'
      <3>1. connections' \in [Fds -> Places \cup {None}] /\ kept' \subseteq Places
        BY <2>2, <2>5 DEF ServerInv, ServerTypes, ServerTypeOK
      <3> QED BY <1>2, <1>3, <2>2, <3>1 DEF ServerInv, ServerTypes, ServerTypeOK
    <2>10. FdsApart'
      BY <2>2, <2>6 DEF ServerInv, FdsApart, Live
    <2>11. PlaceOK(p)'
      <3>1. Live(p)' = Live(p) /\ Open(p)' = Open(p) /\ p \in Owned'
            /\ ((<<"start", p>> \in SetOf(ioq))' <=> <<"start", p>> \in SetOf(ioq))
        BY <1>2, <2>2, OwnedAt DEF Live, Open
      <3> QED BY <1>2, <2>2, <2>3, <2>8, <3>1 DEF PlaceOK
    <2>12. ASSUME NEW q \in Places, q # p PROVE PlaceOK(q)'
      <3>1. \A op \in Ops : <<op, q>> \in SetOf(serverq') <=> <<op, q>> \in SetOf(serverq)
        BY <1>6, <2>1, <2>12
      <3>2. SameUse(q)
        BY <1>2, <1>4, <2>2, <2>7, <2>12, <3>1 DEF SameUse
      <3> QED BY <1>2, <3>2, SameAt DEF ServerInv
    <2> QED BY <1>5, <2>2, <2>9, <2>10, <2>11, <2>12 DEF ServerInv, failVars
  <1> QED BY <1>2, <1>8, <1>9, <1>10

\* The functors of the round before are cleared: the last reference was theirs, or it was not.
LEMMA ServerClearStep == ASSUME ServerInv, NEW p \in kept, ServerClear(p) PROVE ServerInv'
  <1>1. /\ phase \in {"poll", "clear"} /\ taken = 0 /\ phase' = "clear" /\ kept' = kept \ {p}
        /\ UNCHANGED <<local, stopping, left, connections, skipped, taken, serverq, ioq, io, ioTaken, ioKept,
                       held>>
        /\ DropInServer(p)
    BY DEF ServerClear, queueVars, ioVars
  <1>2. /\ p \in Places /\ PlaceOK(p) /\ Live(p) /\ p \notin Queued("delete")
    <2>1. p \in Places
      BY DEF ServerInv, ServerTypes, ServerTypeOK
    <2>2. p \in Owned /\ PlaceOK(p)
      BY <2>1, OwnedAt DEF ServerInv
    <2> QED BY <2>1, <2>2 DEF PlaceOK
  <1>3. /\ \A q \in Places : (q \in Queued("delete")' <=> q \in Queued("delete"))
                          /\ (q \in Queued("remove")' <=> q \in Queued("remove"))
                          /\ (q \in Entered' <=> q \in Entered)
    BY <1>1, OwnedAt DEF Queued
  <1>4. ASSUME NEW q \in Places, q # p, state'[q] = state[q], fd'[q] = fd[q],
               (q \in 1..space' /\ q \notin SetOf(free')) <=> (q \in 1..space /\ q \notin SetOf(free))
        PROVE  PlaceOK(q)'
    <2>1. SameUse(q)
      BY <1>1, <1>3, <1>4 DEF SameUse
    <2> QED BY <1>1, <2>1, SameAt DEF ServerInv
  <1>5. ASSUME UNCHANGED <<unclosed, failed>> PROVE PhasesOK' /\ VisitedOK' /\ StartsOK'
    BY <1>1, <1>5 DEF ServerInv, PhasesOK, VisitedOK, StartsOK
  <1>6. kept' \subseteq Places
    BY <1>1 DEF ServerInv, ServerTypes, ServerTypeOK
  <1>7. CASE Unreferenced(p, serverq')
    <2>1. Destroy(p) /\ p \notin Owned' /\ p \notin Entered' /\ p # local'
      BY <1>1, <1>2, <1>7, OwnedAt DEF DropInServer, Unreferenced
    <2>2. ~Open(p)
      BY <1>1, <1>2, <1>3, <2>1 DEF PlaceOK
    <2>3. \A g \in Fds : connections'[g] \in {connections[g], None}
      BY <1>1
    <2>4. phase # "end" /\ phase' # "end"
      BY <1>1
    <2>5. /\ UNCHANGED <<space, size, unclosed, failed>>
          /\ free' \in Seq(Places) /\ NoRepeat(free') /\ SetOf(free') \subseteq 1..space'
          /\ SetOf(free') = SetOf(free) \cup {p}
          /\ state' \in [Places -> States \cup {None}]
          /\ fd' \in [Places -> Fds \cup {None}] /\ closedCb' \in [Places -> {"remove", "user"}]
          /\ \A q \in Places : q # p => state'[q] = state[q] /\ fd'[q] = fd[q]
          /\ FdsApart' /\ PlaceOK(p)'
      BY <1>2, <1>3, <2>1, <2>2, <2>3, <2>4, DestroyIs
    <2>6. ServerTypes'
      BY <1>1, <1>6, <2>5 DEF ServerInv, ServerTypes, ServerTypeOK
    <2>7. ASSUME NEW q \in Places PROVE PlaceOK(q)'
      BY <1>4, <2>5
    <2> QED BY <1>5, <2>5, <2>6, <2>7 DEF ServerInv
  <1>8. CASE ~Unreferenced(p, serverq')
    <2>1. UNCHANGED <<space, size, free, state, fd, closedCb, unclosed, failed>>
      BY <1>1, <1>8 DEF DropInServer, placeVars, connVars, failVars
    <2>2. p \in Owned'
      BY <1>2, <1>8, OwnedAt DEF Unreferenced
    <2>3. ServerTypes'
      BY <1>1, <1>6, <2>1 DEF ServerInv, ServerTypes, ServerTypeOK
    <2>4. FdsApart'
      BY <1>1, <2>1 DEF ServerInv, FdsApart, Live
    <2>5. PlaceOK(p)'
      <3>1. Live(p)' = Live(p) /\ Open(p)' = Open(p)
        BY <2>1 DEF Live, Open
      <3> QED BY <1>1, <1>2, <1>3, <2>1, <2>2, <3>1 DEF PlaceOK
    <2>6. ASSUME NEW q \in Places PROVE PlaceOK(q)'
      BY <1>4, <2>1, <2>5
    <2> QED BY <1>5, <2>1, <2>3, <2>4, <2>6 DEF ServerInv
  <1> QED BY <1>7, <1>8
-----------------------------------------------------------------------------
\* A call for a connection that is known and has started is queued.
LEMMA CallIs ==
    ASSUME ServerInv, NEW p \in Places, NEW op \in {"shut", "close"}, ioq' = Append(ioq, <<op, p>>),
           UNCHANGED <<phase, connections, local, placeVars, serverq, kept, ioKept, held, state, fd>>,
           p \in Owned, state[p] # "kConnecting"
    PROVE  /\ ioq' \in Seq(IoFunctors) /\ SetOf(ioq') = SetOf(ioq) \cup {<<op, p>>}
           /\ \A n \in 0..Len(ioq) : n \in 0..Len(ioq')
           /\ FdsApart' /\ StartsOK' /\ \A q \in Places : PlaceOK(q)'
  <1> DEFINE x == <<op, p>>
  <1>1. UNCHANGED <<phase, connections, local, space, size, free, serverq, kept, ioKept, held, state, fd>>
    BY DEF placeVars
  <1>2. /\ x \in IoFunctors /\ ioq \in Seq(IoFunctors)
        /\ ioq' \in Seq(IoFunctors) /\ SetOf(ioq') = SetOf(ioq) \cup {x}
        /\ \A n \in 0..Len(ioq) : n \in 0..Len(ioq')
    <2>1. x \in IoFunctors /\ ioq \in Seq(IoFunctors)
      BY DEF IoFunctors, ServerInv, ServerTypes
    <2>2. Len(ioq') = Len(ioq) + 1 /\ Len(ioq) \in Nat
      BY <2>1
    <2>3. \A n \in 0..Len(ioq) : n \in 0..Len(ioq')
      BY <2>2
    <2> QED BY <2>1, <2>3, AppendSet
  <1>3. FdsApart'
    BY <1>1 DEF ServerInv, FdsApart, Live
  <1>4. StartsOK'
    <2>1. Len(ioq') = Len(ioq) + 1 /\ Len(ioq) \in Nat /\ ioq'[Len(ioq) + 1] = x
          /\ \A k \in 1..Len(ioq) : ioq'[k] = ioq[k]
      BY <1>2
    <2>2. x[2] = p /\ x[1] # "start"
      OBVIOUS
    <2>3. ASSUME NEW j \in 1..Len(ioq), ioq[j][1] = "start", ioq[j][2] = p PROVE FALSE
      <3>1. <<"start", p>> \in SetOf(ioq) /\ PlaceOK(p)
        BY <2>3, IoQueueIs DEF ServerInv
      <3> QED BY <3>1 DEF PlaceOK
    <2> SUFFICES ASSUME NEW j \in 1..Len(ioq'), NEW k \in 1..Len(ioq'),
                        ioq'[j][1] = "start" /\ ioq'[j][2] = ioq'[k][2]
                 PROVE  j = k
      BY DEF StartsOK
    <2> HIDE DEF x
    <2>4. CASE j \in 1..Len(ioq) /\ k \in 1..Len(ioq)
      BY <2>1, <2>4 DEF ServerInv, StartsOK
    <2>5. CASE j \in 1..Len(ioq) /\ k = Len(ioq) + 1
      BY <2>1, <2>2, <2>3, <2>5
    <2>6. CASE j = Len(ioq) + 1
      BY <2>1, <2>2, <2>6
    <2> QED BY <2>1, <2>4, <2>5, <2>6
  <1>5. PlaceOK(p)'
    <2>1. PlaceOK(p) /\ Live(p)' = Live(p) /\ Open(p)' = Open(p)
      BY <1>1 DEF ServerInv, Live, Open
    <2>2. p \in References(ioq')
      BY <1>2 DEF References
    <2>3. p \in Owned' /\ (p \in Entered' <=> p \in Entered)
      BY <1>1, <2>2, OwnedAt
    <2>4. (p \in Queued("delete")' <=> p \in Queued("delete"))
          /\ (p \in Queued("remove")' <=> p \in Queued("remove"))
      BY <1>1 DEF Queued
    <2>5. <<"start", p>> \notin SetOf(ioq')
      BY <1>2, <2>1 DEF PlaceOK
    <2> QED BY <1>1, <2>1, <2>3, <2>4, <2>5 DEF PlaceOK
  <1>6. ASSUME NEW q \in Places, q # p PROVE PlaceOK(q)'
    <2>1. \A o \in Ops : <<o, q>> # x
      BY <1>6
    <2>2. SameUse(q)
      BY <1>1, <1>2, <2>1, OwnedAt DEF SameUse
    <2> QED BY <1>1, <2>2, SameAt DEF ServerInv
  <1> QED BY <1>2, <1>3, <1>4, <1>5, <1>6

LEMMA CallStep ==
    ASSUME ServerInv, NEW p \in Places, NEW op \in {"shut", "close"}, Call(p, op)
    PROVE  ServerInv'
  <1>1. /\ UsersRun /\ p \in held /\ state[p] = "kConnected" /\ ioq' = Append(ioq, <<op, p>>)
        /\ UNCHANGED <<phase, local, stopping, left, connections, skipped, placeVars, serverq, held,
                       state, fd, closedCb, unclosed, failed>>
        /\ UNCHANGED <<space, size, free, taken, kept, io, ioTaken, ioKept>>
    BY DEF Call, serverVars, connVars, placeVars, batchVars, ioVars, failVars
  <1>2. p \in Owned
    BY <1>1, OwnedAt
  <1>3. /\ ioq' \in Seq(IoFunctors) /\ SetOf(ioq') = SetOf(ioq) \cup {<<op, p>>}
        /\ \A n \in 0..Len(ioq) : n \in 0..Len(ioq')
        /\ FdsApart' /\ StartsOK' /\ \A q \in Places : PlaceOK(q)'
    BY <1>1, <1>2, CallIs
  <1>4. ServerTypes'
    <2>1. ioTaken' \in 0..Len(ioq')
      BY <1>1, <1>3 DEF ServerInv, ServerTypes, ServerTypeOK
    <2>2. ServerTypeOK'
      BY <1>1, <2>1 DEF ServerInv, ServerTypes, ServerTypeOK
    <2> QED BY <1>1, <1>3, <2>2 DEF ServerInv, ServerTypes
  <1>5. PhasesOK' /\ VisitedOK'
    BY <1>1 DEF ServerInv, PhasesOK, VisitedOK, UsersRun, LoopRuns
  <1> QED BY <1>3, <1>4, <1>5 DEF ServerInv

LEMMA ForceCloseStep == ASSUME ServerInv, NEW f \in Fds, ForceClose(f) PROVE ServerInv'
  <1>1. PICK p \in Places : p = connections[f]
    BY DEF ForceClose, ServerInv, PhasesOK, ServerTypes, ServerTypeOK
  <1>2. /\ phase = "close" /\ f \in left /\ left' = left \ {f}
        /\ closedCb' = [closedCb EXCEPT ![p] = "user"]
        /\ ioq' = IF Forced(p) THEN Append(ioq, <<"close", p>>) ELSE ioq
        /\ skipped' = IF state[p] \in {"kConnecting", "kDisConnecting"} THEN skipped \cup {p} ELSE skipped
        /\ UNCHANGED <<phase, local, stopping, connections, placeVars, serverq, held, state, fd>>
        /\ UNCHANGED <<space, size, free, taken, kept, io, ioTaken, ioKept, unclosed, failed>>
    BY <1>1 DEF ForceClose, placeVars, batchVars, ioVars, failVars
  <1>3. p \in Owned /\ state[p] \in States
    <2>1. p \in Owned /\ PlaceOK(p)
      BY <1>1, OwnedAt DEF ServerInv
    <2> QED BY <2>1 DEF PlaceOK, Live, ServerInv, ServerTypes, ServerTypeOK
  <1>4. /\ ioq' \in Seq(IoFunctors) /\ SetOf(ioq) \subseteq SetOf(ioq')
        /\ Forced(p) => <<"close", p>> \in SetOf(ioq')
        /\ \A n \in 0..Len(ioq) : n \in 0..Len(ioq')
        /\ FdsApart' /\ StartsOK' /\ \A q \in Places : PlaceOK(q)'
    <2>1. CASE Forced(p)
      <3>1. state[p] # "kConnecting" /\ ioq' = Append(ioq, <<"close", p>>)
        BY <1>2, <2>1 DEF Forced
      <3>2. /\ ioq' \in Seq(IoFunctors) /\ SetOf(ioq') = SetOf(ioq) \cup {<<"close", p>>}
            /\ \A n \in 0..Len(ioq) : n \in 0..Len(ioq')
            /\ FdsApart' /\ StartsOK' /\ \A q \in Places : PlaceOK(q)'
        BY <1>2, <1>3, <3>1, CallIs
      <3> QED BY <3>2
    <2>2. CASE ~Forced(p)
      <3>1. ioq' = ioq
        BY <1>2, <2>2
      <3>2. ioq' \in Seq(IoFunctors) /\ FdsApart' /\ StartsOK'
        BY <1>2, <3>1 DEF ServerInv, ServerTypes, FdsApart, StartsOK, Live
      <3>3. ASSUME NEW q \in Places PROVE PlaceOK(q)'
        <4>1. SameUse(q)
          BY <1>2, <3>1, OwnedAt DEF SameUse
        <4> QED BY <1>2, <4>1, SameAt DEF ServerInv
      <3> QED BY <2>2, <3>1, <3>2, <3>3
    <2> QED BY <2>1, <2>2
  <1>5. ServerTypes'
    <2>1. closedCb' \in [Places -> {"remove", "user"}]
      BY <1>2 DEF ServerInv, ServerTypes, ServerTypeOK
    <2>2. ioTaken' \in 0..Len(ioq')
      BY <1>2, <1>4 DEF ServerInv, ServerTypes, ServerTypeOK
    <2>3. ServerTypeOK'
      BY <1>2, <2>1, <2>2 DEF ServerInv, ServerTypes, ServerTypeOK
    <2> QED BY <1>2, <1>4, <2>3 DEF ServerInv, ServerTypes
  <1>6. PhasesOK'
    BY <1>2 DEF ServerInv, PhasesOK
  <1>7. VisitedOK'
    <2>1. ASSUME NEW g \in Fds \ left', connections'[g] # None
          PROVE  \/ ~Open(connections[g])
                 \/ <<"close", connections[g]>> \in SetOf(ioq')
                 \/ connections[g] \in skipped'
      <3>1. CASE g = f
        BY <1>1, <1>2, <1>3, <1>4, <3>1 DEF Open, Forced, States
      <3>2. CASE g # f
        BY <1>2, <1>4, <2>1, <3>2 DEF ServerInv, VisitedOK
      <3> QED BY <3>1, <3>2
    <2>2. unclosed' \subseteq skipped' /\ (failed' = "state" <=> unclosed' # {})
      BY <1>2 DEF ServerInv, VisitedOK
    <2>3. \A g \in Fds : connections'[g] = connections[g] /\ Open(connections[g])' = Open(connections[g])
      BY <1>2 DEF Open
    <2> QED BY <2>1, <2>2, <2>3 DEF VisitedOK
  <1> QED BY <1>4, <1>5, <1>6, <1>7 DEF ServerInv

\* What is left open when the server has gone was not forced to close.
LEMMA DestructorEndsStep == ASSUME ServerInv, DestructorEnds PROVE ServerInv'
  <1> DEFINE last == {p \in Places : Live(p) /\ <<"delete", p>> \notin SetOf(serverq)}
  <1>1. /\ phase = "join" /\ phase' = "end"
        /\ unclosed' = unclosed \cup {p \in last : state[p] # "kDisConnected"}
        /\ failed' = IF unclosed' = unclosed THEN failed ELSE "state"
        /\ state' = [p \in Places |-> IF p \in last THEN None ELSE state[p]]
        /\ fd' = [p \in Places |-> IF p \in last THEN None ELSE fd[p]]
        /\ connections' = [g \in Fds |-> None]
        /\ serverq' = <<>> /\ kept' = {}
        /\ UNCHANGED <<local, stopping, left, skipped, taken, placeVars, ioq, held, closedCb>>
        /\ UNCHANGED <<space, size, free, io, ioTaken, ioKept>>
    BY DEF DestructorEnds, placeVars, ioVars
  <1>2. /\ local = None /\ held = {} /\ ioq = <<>> /\ ioKept = {} /\ left = {}
        /\ SetOf(<<>>) = {} /\ OnceEach(<<>>)
    BY <1>1, EmptySet DEF ServerInv, PhasesOK, OnceEach
  <1>3. \A q \in Places : /\ q \notin last => state'[q] = state[q] /\ fd'[q] = fd[q]
                          /\ q \in last => state'[q] = None /\ fd'[q] = None
    BY <1>1
  <1>4. \A q \in Places : Live(q) /\ q \notin last => q \in Queued("delete")
    BY DEF Queued
  <1> HIDE DEF last
  <1>5. ASSUME NEW p \in last, state[p] # "kDisConnected" PROVE p \in skipped
    <2>1. p \in Places /\ Live(p) /\ Open(p)
      BY <1>5 DEF Open, last
    <2>2. p \in Entered
      BY <1>2, <2>1, ServerConstants DEF ServerInv, PlaceOK
    <2>3. PICK g \in Fds : connections[g] = p
      BY <2>1, <2>2, OwnedAt
    <2> QED BY <1>1, <1>2, <2>1, <2>3, ServerConstants DEF ServerInv, VisitedOK
  <1>6. ServerTypes'
    <2>1. /\ state' \in [Places -> States \cup {None}] /\ fd' \in [Places -> Fds \cup {None}]
          /\ connections' \in [Fds -> Places \cup {None}] /\ failed' \in {"none", "fd", "state"}
          /\ unclosed' \subseteq Places
      BY <1>1 DEF ServerInv, ServerTypes, ServerTypeOK, last
    <2>2. taken = 0 /\ Len(serverq') = 0
      BY <1>1 DEF ServerInv, PhasesOK
    <2>3. ServerTypeOK'
      BY <1>1, <2>1, <2>2 DEF ServerInv, ServerTypes, ServerTypeOK
    <2> QED BY <1>1, <1>2, <2>3 DEF ServerInv, ServerTypes
  <1>7. FdsApart'
    <2>1. \A q \in Places : Live(q)' => Live(q) /\ fd'[q] = fd[q]
      BY <1>3 DEF Live
    <2> QED BY <1>1, <2>1 DEF ServerInv, FdsApart
  <1>8. PhasesOK' /\ StartsOK'
    BY <1>1, <1>2 DEF ServerInv, PhasesOK, StartsOK
  <1>10. VisitedOK'
    BY <1>1, <1>5 DEF ServerInv, VisitedOK
  <1>9. ASSUME NEW q \in Places PROVE PlaceOK(q)'
    <2>1. q \notin Entered' /\ q \notin References(serverq') /\ q \notin References(ioq')
      BY <1>1, <1>2, OwnedAt, ServerConstants DEF References
    <2>2. q \notin Owned' /\ q \notin Queued("delete")' /\ q \notin Queued("remove")'
      BY <1>1, <1>2, <2>1, OwnedAt, ServerConstants DEF Queued
    <2>3. Live(q)' <=> fd'[q] # None
      BY <1>3 DEF ServerInv, PlaceOK, Live
    <2>4. Live(q)' => ~Open(q)'
      BY <1>3, <1>4 DEF ServerInv, PlaceOK, Live, Open
    <2> QED BY <1>1, <1>2, <2>2, <2>3, <2>4 DEF PlaceOK
  <1> QED BY <1>6, <1>7, <1>8, <1>9, <1>10 DEF ServerInv
-----------------------------------------------------------------------------
\* handleClose queues removeConnInLoop for a connection that was open, hence not queued before.
LEMMA RemovalIs ==
    ASSUME ServerInv, NEW p \in Places
    PROVE  /\ serverq \o Removal(p) \in Seq(ServerFunctors) /\ OnceEach(serverq \o Removal(p))
           /\ SetOf(serverq) \subseteq SetOf(serverq \o Removal(p))
           /\ SetOf(serverq \o Removal(p)) \subseteq SetOf(serverq) \cup {<<"remove", p>>}
           /\ SetOf(serverq \o Removal(p)) # SetOf(serverq) => Open(p)
           /\ taken \in 0..Len(serverq \o Removal(p))
  <1> DEFINE x == <<"remove", p>>
  <1>1. /\ x \in ServerFunctors /\ serverq \in Seq(ServerFunctors) /\ OnceEach(serverq)
        /\ taken \in 0..Len(serverq)
    BY DEF ServerFunctors, ServerInv, ServerTypes, ServerTypeOK
  <1>2. Open(p) => x \notin SetOf(serverq)
    BY DEF ServerInv, PlaceOK, Queued
  <1>3. Removal(p) = IF Open(p) /\ closedCb[p] = "remove" THEN <<x>> ELSE <<>>
    BY DEF Removal
  <1> HIDE DEF x
  <1>4. CASE Open(p) /\ closedCb[p] = "remove"
    <2>1. /\ serverq \o <<x>> = Append(serverq, x)
          /\ Append(serverq, x) \in Seq(ServerFunctors) /\ OnceEach(Append(serverq, x))
          /\ SetOf(Append(serverq, x)) = SetOf(serverq) \cup {x}
          /\ Len(Append(serverq, x)) = Len(serverq) + 1 /\ Len(serverq) \in Nat
      BY <1>1, <1>2, <1>4, OnceMore
    <2>2. serverq \o Removal(p) = Append(serverq, x)
      BY <1>3, <1>4, <2>1
    <2>3. taken \in 0..Len(Append(serverq, x))
      BY <1>1, <2>1
    <2> QED BY <1>4, <2>1, <2>2, <2>3 DEF x
  <1>5. CASE ~(Open(p) /\ closedCb[p] = "remove")
    <2>1. serverq \o Removal(p) = serverq
      BY <1>1, <1>3, <1>5, ConcatEnds
    <2> QED BY <1>1, <2>1
  <1> QED BY <1>4, <1>5

\* When another thread has dropped a reference, either another is left or deleterInLoop is queued.
LEMMA DropIs ==
    ASSUME ServerInv, NEW p \in Places, <<"delete", p>> \notin SetOf(serverq), DropOutside(p, serverq)
    PROVE  /\ serverq' \in Seq(ServerFunctors) /\ OnceEach(serverq') /\ taken \in 0..Len(serverq')
           /\ SetOf(serverq) \subseteq SetOf(serverq')
           /\ SetOf(serverq') \subseteq SetOf(serverq) \cup {<<"delete", p>>}
           /\ p \in Queued("delete")' <=> p \notin Owned'
  <1> DEFINE x == <<"delete", p>>
  <1>1. x \in ServerFunctors /\ x \notin SetOf(serverq)
    BY DEF ServerFunctors
  <1>2. serverq \in Seq(ServerFunctors) /\ OnceEach(serverq) /\ taken \in 0..Len(serverq)
    BY DEF ServerInv, ServerTypes, ServerTypeOK
  <1> HIDE DEF x
  <1>3. serverq' = IF Unreferenced(p, serverq) THEN serverq \o <<x>> ELSE serverq
    BY DEF DropOutside, Deleter, x
  <1>4. /\ serverq \o <<x>> = Append(serverq, x)
        /\ Append(serverq, x) \in Seq(ServerFunctors) /\ OnceEach(Append(serverq, x))
        /\ SetOf(Append(serverq, x)) = SetOf(serverq) \cup {x}
        /\ Len(Append(serverq, x)) = Len(serverq) + 1 /\ Len(serverq) \in Nat
    BY <1>1, <1>2, OnceMore
  <1>5. CASE Unreferenced(p, serverq)
    <2>1. /\ serverq' \in Seq(ServerFunctors) /\ OnceEach(serverq') /\ taken \in 0..Len(serverq')
          /\ SetOf(serverq') = SetOf(serverq) \cup {x}
      <3>1. taken \in 0..Len(Append(serverq, x))
        BY <1>2, <1>4
      <3> QED BY <1>3, <1>4, <1>5, <3>1
    <2>2. p \in Queued("delete")'
      BY <2>1 DEF Queued, x
    <2>3. p \notin References(serverq')
      BY <1>5, <2>1 DEF Unreferenced, References, x
    <2>4. p \notin Owned'
      BY <1>5, <2>3, OwnedAt DEF Unreferenced
    <2> QED BY <2>1, <2>2, <2>4 DEF x
  <1>6. CASE ~Unreferenced(p, serverq)
    <2>1. serverq' = serverq
      BY <1>3, <1>6
    <2>2. p \notin Queued("delete")'
      BY <2>1 DEF Queued
    <2>3. p \in Owned'
      BY <1>6, <2>1, OwnedAt DEF Unreferenced
    <2> QED BY <1>2, <2>1, <2>2, <2>3
  <1> QED BY <1>5, <1>6

\* A connection of which the handlers and users have dropped a reference.
LEMMA DroppedPlace ==
    ASSUME ServerInv, NEW p \in Places, Live(p), Live(p)', Open(p)' => Open(p), phase' = phase,
           p \in Queued("delete")' <=> p \notin Owned',
           UNCHANGED <<connections, local, space, free, fd>>,
           p \in Queued("remove")' => ~Open(p)' /\ (p \in Queued("remove") \/ Open(p)),
           <<"start", p>> \in SetOf(ioq') => state'[p] = "kConnecting"
    PROVE  PlaceOK(p)'
  <1>1. PlaceOK(p) /\ (p \in Entered' <=> p \in Entered)
    BY OwnedAt DEF ServerInv
  <1>2. Open(p) => p \in Entered \cup {local}
    BY <1>1 DEF PlaceOK
  <1>3. Open(p)' => p \in Owned'
    BY <1>1, <1>2, OwnedAt
  <1>4. p \in Queued("remove")' => ~Open(p)' /\ p \in Entered' \cup {local'}
    BY <1>1, <1>2 DEF PlaceOK
  <1> QED BY <1>1, <1>2, <1>3, <1>4 DEF PlaceOK

LEMMA ReleaseStep == ASSUME ServerInv, NEW p \in Places, Release(p) PROVE ServerInv'
  <1>1. /\ p \in held /\ held' = held \ {p} /\ DropOutside(p, serverq)
        /\ UNCHANGED <<phase, local, stopping, left, connections, skipped, space, size, free, ioq,
                       taken, kept, io, ioTaken, ioKept, state, fd, closedCb, unclosed, failed>>
    BY DEF Release, serverVars, connVars, placeVars, batchVars, ioVars, failVars
  <1>2. /\ PlaceOK(p) /\ Live(p) /\ p \notin Queued("delete")
    <2>1. p \in Owned /\ PlaceOK(p)
      BY <1>1, OwnedAt DEF ServerInv
    <2> QED BY <2>1 DEF PlaceOK
  <1>3. /\ serverq' \in Seq(ServerFunctors) /\ OnceEach(serverq') /\ taken \in 0..Len(serverq')
        /\ SetOf(serverq) \subseteq SetOf(serverq')
        /\ SetOf(serverq') \subseteq SetOf(serverq) \cup {<<"delete", p>>}
        /\ p \in Queued("delete")' <=> p \notin Owned'
    <2>1. <<"delete", p>> \notin SetOf(serverq)
      BY <1>2 DEF Queued
    <2> QED BY <1>1, <2>1, DropIs
  <1>4. ServerTypes'
    BY <1>1, <1>3 DEF ServerInv, ServerTypes, ServerTypeOK
  <1>5. FdsApart' /\ PhasesOK' /\ StartsOK' /\ VisitedOK'
    BY <1>1 DEF ServerInv, FdsApart, PhasesOK, StartsOK, VisitedOK, Live, Open
  <1>6. PlaceOK(p)'
    <2>1. p \in Queued("remove")' <=> p \in Queued("remove")
      BY <1>3 DEF Queued
    <2>2. Live(p)' /\ (Open(p)' <=> Open(p)) /\ (p \in Queued("remove") => ~Open(p))
          /\ (<<"start", p>> \in SetOf(ioq') => state'[p] = "kConnecting")
      BY <1>1, <1>2 DEF Live, Open, PlaceOK
    <2> QED BY <1>1, <1>2, <1>3, <2>1, <2>2, DroppedPlace
  <1>7. ASSUME NEW q \in Places, q # p PROVE PlaceOK(q)'
    <2>1. \A op \in Ops : <<op, q>> \in SetOf(serverq') <=> <<op, q>> \in SetOf(serverq)
      BY <1>3, <1>7
    <2>2. SameUse(q)
      BY <1>1, <1>7, <2>1, OwnedAt DEF SameUse
    <2> QED BY <1>1, <2>2, SameAt DEF ServerInv
  <1> QED BY <1>4, <1>5, <1>6, <1>7 DEF ServerInv

\* The functors of the io loop's round before are cleared.
LEMMA IoClearStep == ASSUME ServerInv, NEW p \in ioKept, IoClear(p) PROVE ServerInv'
  <1>1. /\ ioKept' = ioKept \ {p} /\ io' \in {"poll", "clear"} /\ DropOutside(p, serverq)
        /\ UNCHANGED <<phase, local, stopping, left, connections, skipped, space, size, free, ioq, held,
                       taken, kept, ioTaken, state, fd, closedCb, unclosed, failed>>
    BY DEF IoClear, serverVars, connVars, placeVars, batchVars, failVars
  <1>2. p \in Places /\ PlaceOK(p) /\ Live(p) /\ p \notin Queued("delete")
    <2>1. p \in Places
      BY DEF ServerInv, ServerTypes, ServerTypeOK
    <2>2. p \in Owned /\ PlaceOK(p)
      BY <2>1, OwnedAt DEF ServerInv
    <2> QED BY <2>1, <2>2 DEF PlaceOK
  <1>3. /\ serverq' \in Seq(ServerFunctors) /\ OnceEach(serverq') /\ taken \in 0..Len(serverq')
        /\ SetOf(serverq) \subseteq SetOf(serverq')
        /\ SetOf(serverq') \subseteq SetOf(serverq) \cup {<<"delete", p>>}
        /\ p \in Queued("delete")' <=> p \notin Owned'
    <2>1. <<"delete", p>> \notin SetOf(serverq)
      BY <1>2 DEF Queued
    <2> QED BY <1>1, <1>2, <2>1, DropIs
  <1>4. ServerTypes'
    BY <1>1, <1>3 DEF ServerInv, ServerTypes, ServerTypeOK
  <1>5. FdsApart' /\ PhasesOK' /\ StartsOK' /\ VisitedOK'
    BY <1>1 DEF ServerInv, FdsApart, PhasesOK, StartsOK, VisitedOK, Live, Open
  <1>6. PlaceOK(p)'
    <2>1. p \in Queued("remove")' <=> p \in Queued("remove")
      BY <1>3 DEF Queued
    <2>2. Live(p)' /\ (Open(p)' <=> Open(p)) /\ (p \in Queued("remove") => ~Open(p))
          /\ (<<"start", p>> \in SetOf(ioq') => state'[p] = "kConnecting")
      BY <1>1, <1>2 DEF Live, Open, PlaceOK
    <2> QED BY <1>1, <1>2, <1>3, <2>1, <2>2, DroppedPlace
  <1>7. ASSUME NEW q \in Places, q # p PROVE PlaceOK(q)'
    <2>1. \A op \in Ops : <<op, q>> \in SetOf(serverq') <=> <<op, q>> \in SetOf(serverq)
      BY <1>3, <1>7
    <2>2. SameUse(q)
      BY <1>1, <1>7, <2>1, OwnedAt DEF SameUse
    <2> QED BY <1>1, <2>2, SameAt DEF ServerInv
  <1> QED BY <1>4, <1>5, <1>6, <1>7 DEF ServerInv

LEMMA IoEventStep == ASSUME ServerInv, NEW p \in Places, IoEvent(p) PROVE ServerInv'
  <1>1. PICK op \in {"shut", "close"} :
          /\ Handle(op, p)
          /\ serverq' = IF op = "close" THEN serverq \o Removal(p) ELSE serverq
    BY DEF IoEvent
  <1>2. /\ phase # "join" /\ phase # "end" /\ state[p] \in {"kConnected", "kDisConnecting"}
        /\ io' \in {"poll", "events"}
        /\ UNCHANGED <<phase, local, stopping, left, connections, skipped, space, size, free, ioq, held,
                       taken, kept, ioTaken, ioKept, fd, closedCb, unclosed, failed>>
    BY DEF IoEvent, IoRuns, serverVars, connVars, placeVars, batchVars, failVars
  <1>3. /\ state' \in [Places -> States \cup {None}]
        /\ \A q \in Places : q # p => state'[q] = state[q]
        /\ state'[p] = IF op = "shut" THEN "kDisConnecting" ELSE "kDisConnected"
    <2>1. state \in [Places -> States \cup {None}]
      BY DEF ServerInv, ServerTypes, ServerTypeOK
    <2>2. CASE op = "shut"
      <3>1. state' = [state EXCEPT ![p] = IF @ = "kConnected" THEN "kDisConnecting" ELSE @]
        BY <1>1, <2>2 DEF Handle
      <3> QED BY <1>2, <2>1, <2>2, <3>1 DEF States
    <2>3. CASE op = "close"
      <3>1. state' = [state EXCEPT ![p] = "kDisConnected"]
        BY <1>1, <2>3 DEF Handle
      <3> QED BY <2>1, <2>3, <3>1 DEF States
    <2> QED BY <2>2, <2>3
  <1>4. Live(p) /\ Open(p) /\ Live(p)' /\ (Open(p)' => op = "shut")
    BY <1>2, <1>3, ServerConstants DEF Live, Open, States
  <1>5. PlaceOK(p) /\ p \in Entered \cup {local} /\ p \in Owned /\ p \notin Queued("delete")
    <2>1. PlaceOK(p) /\ p \in Entered \cup {local}
      BY <1>4 DEF ServerInv, PlaceOK
    <2>2. p \in Owned
      BY <2>1, OwnedAt
    <2> QED BY <2>1, <2>2 DEF PlaceOK
  <1>6. /\ serverq' \in Seq(ServerFunctors) /\ OnceEach(serverq') /\ taken \in 0..Len(serverq')
        /\ SetOf(serverq) \subseteq SetOf(serverq')
        /\ SetOf(serverq') \subseteq SetOf(serverq) \cup {<<"remove", p>>}
        /\ op = "shut" => SetOf(serverq') = SetOf(serverq)
    <2>1. serverq \in Seq(ServerFunctors) /\ OnceEach(serverq) /\ taken \in 0..Len(serverq)
      BY DEF ServerInv, ServerTypes, ServerTypeOK
    <2> QED BY <1>1, <2>1, RemovalIs
  <1>7. ServerTypes'
    <2>1. ServerTypeOK'
      BY <1>2, <1>3, <1>6 DEF ServerInv, ServerTypes, ServerTypeOK
    <2> QED BY <1>2, <1>6, <2>1 DEF ServerInv, ServerTypes
  <1>8. FdsApart'
    <2>1. \A q \in Places : Live(q)' => Live(q)
      BY <1>3, <1>4 DEF Live
    <2> QED BY <1>2, <2>1 DEF ServerInv, FdsApart
  <1>9. VisitedOK'
    <2>1. \A g \in Fds : connections[g] # None => connections[g] \in Places
      BY DEF ServerInv, ServerTypes, ServerTypeOK
    <2>2. \A q \in Places : Open(q)' => Open(q)
      BY <1>3, <1>4 DEF Open
    <2> QED BY <1>2, <2>1, <2>2 DEF ServerInv, VisitedOK
  <1>10. PhasesOK' /\ StartsOK'
    BY <1>2 DEF ServerInv, PhasesOK, StartsOK
  <1>11. PlaceOK(p)'
    <2>1. p \in Owned' /\ p \notin Queued("delete")'
      <3>1. p \in Entered' \cup {local'}
        BY <1>2, <1>5, OwnedAt
      <3>2. <<"delete", p>> \notin SetOf(serverq')
        BY <1>5, <1>6 DEF Queued
      <3> QED BY <3>1, <3>2, OwnedAt DEF Queued
    <2>2. p \notin Queued("remove")
      BY <1>4, <1>5 DEF PlaceOK
    <2>3. p \in Queued("remove")' => op = "close"
      BY <1>6, <2>2 DEF Queued
    <2>4. <<"start", p>> \notin SetOf(ioq')
      BY <1>2, <1>5 DEF PlaceOK
    <2>5. p \in Queued("remove")' => ~Open(p)'
      BY <1>3, <2>3 DEF Open
    <2> QED BY <1>2, <1>4, <2>1, <2>4, <2>5, DroppedPlace
  <1>12. ASSUME NEW q \in Places, q # p PROVE PlaceOK(q)'
    <2>1. \A o \in Ops : <<o, q>> \in SetOf(serverq') <=> <<o, q>> \in SetOf(serverq)
      BY <1>6, <1>12
    <2>2. SameUse(q)
      BY <1>2, <1>3, <1>12, <2>1, OwnedAt DEF SameUse
    <2> QED BY <1>2, <2>2, SameAt DEF ServerInv
  <1> QED BY <1>7, <1>8, <1>9, <1>10, <1>11, <1>12 DEF ServerInv

\* A functor of the io loop is taken: it is not a start of a connection that has more to do.
LEMMA TakenIs ==
    ASSUME ServerInv, ioq # <<>>, ioq' = Tail(ioq)
    PROVE  /\ ioq' \in Seq(IoFunctors) /\ StartsOK'
           /\ \A q \in Places : \A op \in Ops :
                /\ <<op, q>> \in SetOf(ioq') => <<op, q>> \in SetOf(ioq)
                /\ <<op, q>> \in SetOf(ioq) /\ <<op, q>> # Head(ioq) => <<op, q>> \in SetOf(ioq')
           /\ Head(ioq) \in IoFunctors /\ Head(ioq) \in SetOf(ioq)
           /\ <<"start", Head(ioq)[2]>> \notin SetOf(ioq')
  <1>1. ioq \in Seq(IoFunctors)
    BY DEF ServerInv, ServerTypes
  <1>2. /\ ioq' \in Seq(IoFunctors) /\ Head(ioq) \in IoFunctors /\ Head(ioq) = ioq[1]
        /\ Len(ioq) \in Nat \ {0} /\ Len(ioq') = Len(ioq) - 1
        /\ \A k \in 1..Len(ioq) - 1 : ioq'[k] = ioq[k + 1]
        /\ SetOf(ioq) = SetOf(ioq') \cup {Head(ioq)}
    BY <1>1, RestSet
  <1>3. \A k \in 1..Len(ioq') : k + 1 \in 1..Len(ioq) /\ ioq'[k] = ioq[k + 1] /\ k \in Nat /\ k >= 1
    BY <1>2
  <1>4. StartsOK'
    <2> SUFFICES ASSUME NEW j \in 1..Len(ioq'), NEW k \in 1..Len(ioq'),
                        ioq'[j][1] = "start" /\ ioq'[j][2] = ioq'[k][2]
                 PROVE  j = k
      BY DEF StartsOK
    <2>1. j + 1 = k + 1
      BY <1>3 DEF ServerInv, StartsOK
    <2> QED BY <1>3, <2>1
  <1>5. <<"start", Head(ioq)[2]>> \notin SetOf(ioq')
    <2> SUFFICES ASSUME <<"start", Head(ioq)[2]>> \in SetOf(ioq') PROVE FALSE
      OBVIOUS
    <2>1. PICK k \in 1..Len(ioq') : ioq'[k] = <<"start", Head(ioq)[2]>>
      BY DEF SetOf
    <2>2. ioq[k + 1][1] = "start" /\ ioq[k + 1][2] = ioq[1][2] /\ 1 \in 1..Len(ioq)
      BY <1>2, <1>3, <2>1
    <2>3. k + 1 = 1
      BY <1>3, <2>2 DEF ServerInv, StartsOK
    <2> QED BY <1>3, <2>3
  <1> QED BY <1>2, <1>4, <1>5

LEMMA IoFunctorStep == ASSUME ServerInv, IoFunctor PROVE ServerInv'
  <1>1. /\ ioTaken > 0 /\ ioTaken' = ioTaken - 1 /\ ioq' = Tail(ioq) /\ phase # "join" /\ phase # "end"
        /\ UNCHANGED <<phase, local, stopping, left, connections, skipped, space, size, free,
                       taken, kept, io, fd, closedCb, unclosed, failed>>
    BY DEF IoFunctor, IoRuns, serverVars, placeVars, batchVars, failVars
  <1>16. ioq # <<>> /\ ioTaken' \in 0..Len(ioq')
    <2>1. ioq \in Seq(IoFunctors) /\ ioTaken \in 0..Len(ioq)
      BY DEF ServerInv, ServerTypes, ServerTypeOK
    <2>2. ioq # <<>>
      BY <1>1, <2>1
    <2>3. Len(Tail(ioq)) = Len(ioq) - 1 /\ Len(ioq) \in Nat
      BY <2>1, <2>2, RestSet
    <2> QED BY <1>1, <2>1, <2>2, <2>3
  <1>2. /\ ioq' \in Seq(IoFunctors) /\ StartsOK'
        /\ \A q \in Places : \A o \in Ops :
             /\ <<o, q>> \in SetOf(ioq') => <<o, q>> \in SetOf(ioq)
             /\ <<o, q>> \in SetOf(ioq) /\ <<o, q>> # Head(ioq) => <<o, q>> \in SetOf(ioq')
        /\ Head(ioq) \in IoFunctors /\ Head(ioq) \in SetOf(ioq)
        /\ <<"start", Head(ioq)[2]>> \notin SetOf(ioq')
    BY <1>1, <1>16, TakenIs
  <1>3. PICK op \in {"start", "shut", "close"}, p \in Places : Head(ioq) = <<op, p>>
    BY <1>2 DEF IoFunctors
  <1> DEFINE s == serverq \o (IF op = "close" THEN Removal(p) ELSE <<>>)
  <1>4. /\ Handle(op, p)
        /\ (held' = held) \/ (op = "start" /\ UsersRun /\ held' = held \cup {p})
        /\ ioKept' = ioKept \cup {p}
        /\ serverq' = s
    <2>1. Head(ioq)[1] = op /\ Head(ioq)[2] = p
      BY <1>3
    <2>2. /\ Handle(Head(ioq)[1], Head(ioq)[2])
          /\ \/ Head(ioq)[1] = "start" /\ UsersRun /\ held' = held \cup {Head(ioq)[2]}
             \/ UNCHANGED held
          /\ ioKept' = ioKept \cup {Head(ioq)[2]}
          /\ serverq' = serverq \o (IF Head(ioq)[1] = "close" THEN Removal(Head(ioq)[2]) ELSE <<>>)
      BY DEF IoFunctor
    <2>3. Handle(op, p)
      BY <2>1, <2>2
    <2>4. (held' = held) \/ (op = "start" /\ UsersRun /\ held' = held \cup {p})
      BY <2>1, <2>2
    <2>5. ioKept' = ioKept \cup {p} /\ serverq' = s
      BY <2>1, <2>2
    <2> QED BY <2>3, <2>4, <2>5
  <1>5. /\ PlaceOK(p) /\ p \in Owned /\ Live(p) /\ p \notin Queued("delete")
        /\ <<op, p>> \in SetOf(ioq)
        /\ op = "start" => state[p] = "kConnecting"
    <2>1. PlaceOK(p) /\ <<op, p>> \in SetOf(ioq) /\ p \in References(ioq)
      BY <1>2, <1>3 DEF ServerInv, References
    <2>2. p \in Owned
      BY <2>1, OwnedAt
    <2> QED BY <2>1, <2>2 DEF PlaceOK
  <1>6. /\ state' \in [Places -> States \cup {None}]
        /\ \A q \in Places : q # p => state'[q] = state[q]
        /\ state'[p] # None
        /\ state'[p] # "kDisConnected" => state[p] # "kDisConnected"
        /\ op = "close" => state'[p] = "kDisConnected"
    <2>1. state \in [Places -> States \cup {None}] /\ state[p] # None
      BY <1>5 DEF ServerInv, ServerTypes, ServerTypeOK, Live
    <2>2. CASE op = "start"
      <3>1. state' = [state EXCEPT ![p] = "kConnected"]
        BY <1>4, <2>2 DEF Handle
      <3> QED BY <1>5, <2>1, <2>2, <3>1, ServerConstants DEF States
    <2>3. CASE op = "shut"
      <3>1. state' = [state EXCEPT ![p] = IF @ = "kConnected" THEN "kDisConnecting" ELSE @]
        BY <1>4, <2>3 DEF Handle
      <3> QED BY <2>1, <2>3, <3>1, ServerConstants DEF States
    <2>4. CASE op = "close"
      <3>1. state' = [state EXCEPT ![p] = "kDisConnected"]
        BY <1>4, <2>4 DEF Handle
      <3> QED BY <2>1, <2>4, <3>1, ServerConstants DEF States
    <2> QED BY <2>2, <2>3, <2>4
  <1>7. /\ Live(p)' /\ (Open(p)' => Open(p)) /\ (op = "close" => ~Open(p)')
        /\ \A q \in Places : q # p => (Live(q)' <=> Live(q)) /\ (Open(q)' <=> Open(q))
    BY <1>6 DEF Live, Open
  <1>8. /\ s \in Seq(ServerFunctors) /\ OnceEach(s) /\ taken \in 0..Len(s)
        /\ SetOf(serverq) \subseteq SetOf(s)
        /\ SetOf(s) \subseteq SetOf(serverq) \cup {<<"remove", p>>}
        /\ SetOf(s) # SetOf(serverq) => op = "close" /\ Open(p)
    <2>1. serverq \in Seq(ServerFunctors) /\ OnceEach(serverq) /\ taken \in 0..Len(serverq)
      BY DEF ServerInv, ServerTypes, ServerTypeOK
    <2>2. CASE op = "close"
      <3>1. s = serverq \o Removal(p)
        BY <2>2
      <3> QED BY <2>1, <2>2, <3>1, RemovalIs
    <2>3. CASE op # "close"
      <3>1. s = serverq
        BY <2>1, <2>3, ConcatEnds DEF ServerFunctors
      <3> QED BY <2>1, <3>1
    <2> QED BY <2>2, <2>3
  <1> HIDE DEF s
  <1>9. /\ serverq' \in Seq(ServerFunctors) /\ OnceEach(serverq') /\ taken \in 0..Len(serverq')
        /\ SetOf(s) = SetOf(serverq')
        /\ p \notin Queued("delete")' /\ p \in Owned'
    <2>1. <<"delete", p>> \notin SetOf(s)
      BY <1>5, <1>8 DEF Queued
    <2> QED BY <1>4, <1>8, <2>1, OwnedAt DEF Queued
  <1>10. ServerTypes'
    <2>1. held' \subseteq Places /\ ioKept' \subseteq Places
      BY <1>4 DEF ServerInv, ServerTypes, ServerTypeOK
    <2>2. ServerTypeOK'
      BY <1>1, <1>6, <1>9, <1>16, <2>1 DEF ServerInv, ServerTypes, ServerTypeOK
    <2> QED BY <1>1, <1>2, <1>9, <2>2 DEF ServerInv, ServerTypes
  <1>11. FdsApart'
    <2>1. \A q \in Places : Live(q)' => Live(q)
      BY <1>5, <1>7
    <2> QED BY <1>1, <2>1 DEF ServerInv, FdsApart
  <1>12. PhasesOK'
    BY <1>1, <1>4 DEF ServerInv, PhasesOK, UsersRun, LoopRuns
  <1>13. VisitedOK'
    <2>1. ASSUME phase = "close", NEW g \in Fds \ left, connections[g] # None
          PROVE  \/ ~Open(connections[g])'
                 \/ <<"close", connections[g]>> \in SetOf(ioq')
                 \/ connections[g] \in skipped
      <3>1. PICK c \in Places : c = connections[g]
        BY <2>1 DEF ServerInv, ServerTypes, ServerTypeOK
      <3>2. ~Open(c) \/ <<"close", c>> \in SetOf(ioq) \/ c \in skipped
        BY <2>1, <3>1 DEF ServerInv, VisitedOK
      <3>3. ~Open(c) => ~Open(c)'
        BY <1>7
      <3>4. <<"close", c>> \in SetOf(ioq) => <<"close", c>> \in SetOf(ioq') \/ ~Open(c)'
        <4>1. CASE <<"close", c>> = Head(ioq)
          <5>1. op = "close" /\ c = p
            BY <1>3, <4>1
          <5> QED BY <1>7, <5>1
        <4>2. CASE <<"close", c>> # Head(ioq)
          BY <1>2, <4>2 DEF Ops
        <4> QED BY <4>1, <4>2
      <3>5. ~Open(c)' \/ <<"close", c>> \in SetOf(ioq') \/ c \in skipped
        BY <3>2, <3>3, <3>4
      <3> QED BY <1>1, <3>1, <3>5 DEF Open
    <2>2. \A g \in Fds : connections'[g] = connections[g]
      BY <1>1
    <2>3. \A g \in Fds : Open(connections[g])' <=> state'[connections'[g]] # "kDisConnected"
      BY DEF Open
    <2> QED BY <1>1, <2>1, <2>2, <2>3 DEF ServerInv, VisitedOK, Open
  <1>14. PlaceOK(p)'
    <2>1. p \in Queued("remove")' => p \in Queued("remove") \/ (op = "close" /\ Open(p))
      BY <1>8, <1>9 DEF Queued
    <2>2. p \in Queued("remove") => ~Open(p)
      BY <1>5 DEF PlaceOK
    <2>3. p \in Queued("remove")' => ~Open(p)' /\ (p \in Queued("remove") \/ Open(p))
      BY <1>7, <2>1, <2>2
    <2>4. <<"start", p>> \notin SetOf(ioq')
      BY <1>2, <1>3
    <2> QED BY <1>1, <1>5, <1>7, <1>9, <2>3, <2>4, DroppedPlace
  <1>15. ASSUME NEW q \in Places, q # p PROVE PlaceOK(q)'
    <2>1. \A o \in Ops : <<o, q>> \in SetOf(serverq') <=> <<o, q>> \in SetOf(serverq)
      BY <1>8, <1>9, <1>15
    <2>2. \A o \in Ops : <<o, q>> \in SetOf(ioq') <=> <<o, q>> \in SetOf(ioq)
      BY <1>2, <1>3, <1>15
    <2>3. (q \in held' <=> q \in held) /\ (q \in ioKept' <=> q \in ioKept)
      BY <1>4, <1>15
    <2>4. SameUse(q)
      BY <1>1, <1>6, <1>15, <2>1, <2>2, <2>3, OwnedAt DEF SameUse
    <2> QED BY <1>1, <2>4, SameAt DEF ServerInv
  <1> QED BY <1>2, <1>10, <1>11, <1>12, <1>13, <1>14, <1>15 DEF ServerInv
-----------------------------------------------------------------------------
LEMMA NextServer == ServerInv /\ [ServerNext]_tcpserverVars => ServerInv'
  <1> SUFFICES ASSUME ServerInv, [ServerNext]_tcpserverVars PROVE ServerInv'
    OBVIOUS
  <1>1. CASE failed = "none" /\ ServerStep
    <2>1. CASE AcceptFails \/ AcceptNone
      BY <1>1, <2>1, AcceptEndsStep
    <2>2. CASE Accept \/ Emplace \/ (\E p \in kept : ServerClear(p)) \/ ServerSwap \/ ServerFunctor
      BY <2>2, AcceptStep, EmplaceStep, ServerClearStep, ServerSwapStep, ServerFunctorStep
    <2>3. CASE LoopReturns \/ Destructor \/ (\E f \in Fds : ForceClose(f)) \/ Join \/ DestructorEnds
      BY <2>3, LoopReturnsStep, DestructorStep, ForceCloseStep, JoinStep, DestructorEndsStep
    <2> QED BY <1>1, <2>1, <2>2, <2>3 DEF ServerStep
  <1>2. CASE IoStep
    BY <1>2, IoClearStep, IoSwapStep, IoFunctorStep DEF IoStep
  <1>3. CASE \E p \in Places : IoEvent(p) \/ Release(p) \/ \E op \in {"shut", "close"} : Call(p, op)
    BY <1>3, IoEventStep, ReleaseStep, CallStep
  <1>4. CASE AcceptConn \/ StopServer
    BY <1>4, AcceptConnStep, StopStep
  <1>5. CASE UNCHANGED tcpserverVars
    <2>1. UNCHANGED <<phase, stopping, left, skipped, taken, kept, io, ioTaken, ioKept, unclosed, failed>>
          /\ UNCHANGED <<connections, local, placeVars, queueVars, held, connVars>>
      BY <1>5 DEF tcpserverVars, serverVars, batchVars, ioVars, failVars
    <2>2. UNCHANGED <<space, size, serverq, ioq, state, closedCb, fd>>
      BY <2>1 DEF placeVars, queueVars, connVars
    <2>3. ServerTypeOK' /\ PhasesOK' /\ VisitedOK'
      BY <2>1, <2>2 DEF ServerInv, ServerTypes, ServerTypeOK, PhasesOK, VisitedOK, Open
    <2> QED BY <2>1, <2>3, QuietStep
  <1> QED BY <1>1, <1>2, <1>3, <1>4, <1>5 DEF ServerNext

LEMMA ServerIsInvariant == ServerSpec => []ServerInv
  BY InitServer, NextServer, PTL DEF ServerSpec

\* Every connection has a place of its own, exists as long as something refers to it, is destroyed
\* once, by the server's thread, and its place is given back then and not before, with any number
\* of descriptors, users and calls.
THEOREM PlacesAreSafe == ServerSpec => []PlacesSafe
  BY ServerIsInvariant, ServerIsSafe, PTL

\* The entry of a connection is there when removeConnInLoop erases it, and is never that of
\* another connection which has the same descriptor later; the destructor destroys no connection
\* that is still open unless forceClose has passed it over.
THEOREM EntriesAreSafe == ServerSpec => []EntriesSafe
  BY ServerIsInvariant, ServerIsSafe, PTL
-----------------------------------------------------------------------------
(***************************************************************************)
(* The pool of loops: getLoop finds live loops, and stop returns when all  *)
(* loops have been left.                                                   *)
(***************************************************************************)
\* Threads that start has created and that have not left their loops.
Pending == {w \in Workers : wpc[w] \notin {"absent", "destruct"}}

\* Those whose loops are in loops_.
Registered == {w \in Workers : wpc[w] \in {"count", "start", "check", "poll", "leave"}}

\* Those that current_num_ counts.
Counted == {w \in Workers : wpc[w] \in {"start", "check", "poll", "leave"}}

\* What the counters count, and when an eventloop exists.
Bookkeeping ==
    /\ IsFiniteSet(Pending)
    /\ currentNum = Cardinality(Counted)
    /\ alive = {w \in Workers : wpc[w] \notin {"absent", "construct"}}
    /\ \A k, l \in 1..Len(loops) : loops[k] = loops[l] => k = l

\* Nobody leaves a loop.
NobodyLeaves == \A w \in Workers : wpc[w] # "leave" /\ (wpc[w] \in {"check", "poll"} => ~quit[w])

\* No thread of the pool is between start() and its own --current_num_.
Resting == opc = "idle" /\ ~started => Pending = {} /\ loops = <<>>

\* In start(): each created thread registers, and is counted after that.
Spawning ==
    opc = "spawn" =>
        /\ ~started
        /\ created = Cardinality(Pending)
        /\ Len(loops) = Cardinality(Registered)
        /\ \A k \in 1..Len(loops) : loops[k] \in Registered
        /\ NobodyLeaves

\* Between start() and stop() all loops run.
Serving ==
    opc = "idle" /\ started =>
        /\ Pending = Counted
        /\ Len(loops) = LoopNum
        /\ \A k \in 1..Len(loops) : loops[k] \in Counted
        /\ NobodyLeaves

\* In stop() threads leave one by one, and no thread is created.
Stopping ==
    opc \in {"quit", "wakeup"} =>
        /\ started
        /\ Pending = Counted
        /\ Len(loops) = LoopNum
        /\ cursor \in 1..LoopNum + 1
        /\ opc = "wakeup" => cursor <= LoopNum

\* The phases of the pool.
Phases == Resting /\ Spawning /\ Serving /\ Stopping

IInv == TypeOK /\ Bookkeeping /\ Phases

USE DEF vars, ownerVars, poolVars, workerVars, loopVars
-----------------------------------------------------------------------------
\* The three sets lie in each other and have sizes; the smallest is as large as the largest
\* only if they are the same.
LEMMA Sets ==
    ASSUME IsFiniteSet(Pending)
    PROVE  /\ Counted \subseteq Registered /\ Registered \subseteq Pending
           /\ IsFiniteSet(Counted) /\ IsFiniteSet(Registered)
           /\ Cardinality(Pending) \in Nat /\ Cardinality(Registered) \in Nat
           /\ Cardinality(Counted) \in Nat
           /\ Cardinality(Counted) <= Cardinality(Pending)
           /\ Cardinality(Counted) = Cardinality(Pending) => Counted = Pending
  <1>1. Counted \subseteq Registered /\ Registered \subseteq Pending
    BY DEF Counted, Registered, Pending
  <1>2. IsFiniteSet(Registered)
    BY <1>1, FS_Subset
  <1>3. /\ IsFiniteSet(Counted) /\ Cardinality(Counted) <= Cardinality(Pending)
        /\ Cardinality(Pending) = Cardinality(Counted) => Pending = Counted
    <2>1. Counted \in SUBSET Pending
      BY <1>1
    <2> QED
      BY <2>1, FS_Subset
  <1>4. Cardinality(Pending) \in Nat /\ Cardinality(Registered) \in Nat /\ Cardinality(Counted) \in Nat
    BY <1>2, <1>3, FS_CardinalityType
  <1> QED
    BY <1>1, <1>2, <1>3, <1>4

\* Nobody is pending when nobody is counted and everybody pending is.
LEMMA NobodyCounted ==
    ASSUME Bookkeeping, Pending = Counted, currentNum = 0
    PROVE  Pending = {}
  <1>1. IsFiniteSet(Pending) /\ Cardinality(Pending) = 0
    BY DEF Bookkeeping
  <1> QED
    BY <1>1, FS_EmptySet

\* The invariant gives what the runs check.
LEMMA IInvIsSafe == IInv => PoolIsSafe
  <1> SUFFICES ASSUME IInv PROVE PoolIsSafe
    OBVIOUS
  <1>1. GetLoopIsSafe
    BY DEF IInv, Phases, Serving, Bookkeeping, Counted, GetLoopIsSafe
  <1>2. StopIsComplete
    <2> SUFFICES ASSUME opc = "idle", ~started, NEW w \in Workers
                 PROVE  ~InLoop(w) /\ wpc[w] # "start"
      BY DEF StopIsComplete
    <2>1. w \notin Pending
      BY DEF IInv, Phases, Resting
    <2> QED
      BY <2>1 DEF Pending, InLoop
  <1> QED
    BY <1>1, <1>2 DEF IInv, PoolIsSafe

\* At first there is no thread.
LEMMA InitIInv == Init => IInv
  <1> SUFFICES ASSUME Init PROVE IInv
    OBVIOUS
  <1>1. Pending = {} /\ Counted = {}
    BY DEF Init, Pending, Counted
  <1>2. TypeOK
    <2>1. quit \in [Workers -> BOOLEAN] /\ eventfd \in [Workers -> BOOLEAN]
      BY Zenon DEF Init
    <2>2. <<>> \in Seq(Workers)
      OBVIOUS
    <2>3. created \in 0..LoopNum /\ cursor \in 0..LoopNum + 1 /\ currentNum \in 0..LoopNum
      BY LoopNumAssumption DEF Init
    <2>4. wpc \in [Workers -> {"absent", "construct", "register", "count", "start",
                              "check", "poll", "leave", "destruct"}]
      BY Zenon DEF Init
    <2>5. /\ opc \in {"idle", "spawn", "quit", "wakeup"} /\ started \in BOOLEAN
          /\ loops \in Seq(Workers) /\ alive \subseteq Workers
      BY <2>2 DEF Init
    <2> QED
      BY <2>1, <2>3, <2>4, <2>5 DEF TypeOK
  <1>3. Bookkeeping
    BY <1>1, FS_EmptySet DEF Init, Bookkeeping
  <1>4. Phases
    BY <1>1 DEF Init, Phases, Resting, Spawning, Serving, Stopping
  <1> QED
    BY <1>2, <1>3, <1>4 DEF IInv
-----------------------------------------------------------------------------
\* A step that leaves the threads' places alone leaves the three sets alone.
LEMMA SameSets ==
    ASSUME wpc' = wpc
    PROVE  Pending' = Pending /\ Registered' = Registered /\ Counted' = Counted
  BY DEF Pending, Registered, Counted

\* The steps of the owner that create no thread.
LEMMA OwnerSteps ==
    ASSUME IInv, Start \/ AllStarted \/ Stop \/ QuitLoop \/ WakeLoop \/ Stopped
    PROVE  IInv'
  <1>0. wpc' = wpc /\ alive' = alive /\ currentNum' = currentNum
    BY DEF Start, AllStarted, Stop, QuitLoop, WakeLoop, Stopped
  <1>1. Pending' = Pending /\ Registered' = Registered /\ Counted' = Counted
    BY <1>0, SameSets
  <1>2. CASE Start
    <2>1. opc = "idle" /\ ~started /\ Pending = {} /\ loops = <<>>
      BY <1>2 DEF IInv, Phases, Resting, Start, Startable
    <2>2. Registered = {} /\ NobodyLeaves
      BY <2>1 DEF Pending, Registered, NobodyLeaves
    <2>3. TypeOK'
      BY <1>2, LoopNumAssumption DEF IInv, TypeOK, Start
    <2>4. Bookkeeping'
      BY <1>0, <1>1, <1>2 DEF IInv, Bookkeeping, Start
    <2>5. Spawning'
      BY <1>1, <1>2, <2>1, <2>2, FS_EmptySet DEF Spawning, Start, NobodyLeaves
    <2> QED
      BY <1>2, <2>3, <2>4, <2>5 DEF IInv, Phases, Resting, Serving, Stopping, Start
  <1>3. CASE AllStarted
    <2>1. Cardinality(Counted) = Cardinality(Pending) /\ Cardinality(Pending) = LoopNum
      BY <1>3 DEF IInv, Phases, Spawning, Bookkeeping, AllStarted, AllCounted
    <2>2. Counted = Pending /\ Registered = Counted
      BY <2>1, Sets DEF IInv, Bookkeeping
    <2>3. TypeOK'
      BY <1>3 DEF IInv, TypeOK, AllStarted
    <2>4. Bookkeeping'
      BY <1>0, <1>1, <1>3 DEF IInv, Bookkeeping, AllStarted
    <2>5. Serving'
      BY <1>1, <1>3, <2>1, <2>2 DEF IInv, Phases, Spawning, Serving, AllStarted, NobodyLeaves
    <2> QED
      BY <1>3, <2>3, <2>4, <2>5 DEF IInv, Phases, Resting, Spawning, Stopping, AllStarted
  <1>4. CASE Stop
    <2>1. TypeOK'
      BY <1>4, LoopNumAssumption DEF IInv, TypeOK, Stop
    <2>2. Bookkeeping'
      BY <1>0, <1>1, <1>4 DEF IInv, Bookkeeping, Stop
    <2>3. Stopping'
      BY <1>1, <1>4, LoopNumAssumption DEF IInv, Phases, Serving, Stopping, Stop
    <2> QED
      BY <1>4, <2>1, <2>2, <2>3 DEF IInv, Phases, Resting, Spawning, Serving, Stop
  <1>5. CASE QuitLoop
    <2>1. opc = "quit" /\ started /\ Len(loops) = LoopNum /\ cursor \in 1..LoopNum
      BY <1>5, LoopNumAssumption DEF IInv, Phases, Stopping, QuitLoop, TypeOK
    <2>2. opc' \in {"quit", "wakeup"} /\ started' = started /\ loops' = loops
      BY <1>5, <2>1 DEF QuitLoop
    <2>3. /\ cursor' \in 1..LoopNum + 1
          /\ opc' = "wakeup" => cursor' <= LoopNum
      BY <1>5, <2>1, LoopNumAssumption DEF QuitLoop
    <2>4. TypeOK'
      <3>1. quit \in [Workers -> BOOLEAN] /\ loops[cursor] \in Workers
        BY <2>1 DEF IInv, TypeOK
      <3>2. quit' \in [Workers -> BOOLEAN]
        BY <1>5, <3>1 DEF QuitLoop
      <3>3. cursor' \in 0..LoopNum + 1
        BY <2>3, LoopNumAssumption
      <3> QED
        BY <1>5, <2>2, <3>2, <3>3 DEF IInv, TypeOK, QuitLoop
    <2>5. Bookkeeping'
      BY <1>0, <1>1, <2>2 DEF IInv, Bookkeeping
    <2>6. Stopping'
      BY <1>1, <2>1, <2>2, <2>3 DEF IInv, Phases, Stopping
    <2> QED
      BY <2>2, <2>4, <2>5, <2>6 DEF IInv, Phases, Resting, Spawning, Serving
  <1>6. CASE WakeLoop
    <2>1. opc = "wakeup" /\ cursor \in 1..LoopNum /\ opc' = "quit" /\ cursor' = cursor + 1
      BY <1>6, LoopNumAssumption DEF IInv, Phases, Stopping, WakeLoop
    <2>2. TypeOK'
      <3>1. eventfd' \in [Workers -> BOOLEAN]
        BY <1>6 DEF IInv, TypeOK, WakeLoop, Wakened
      <3>2. cursor' \in 0..LoopNum + 1
        BY <2>1, LoopNumAssumption
      <3> QED
        BY <1>6, <2>1, <3>1, <3>2 DEF IInv, TypeOK, WakeLoop
    <2>3. Bookkeeping'
      BY <1>0, <1>1, <1>6 DEF IInv, Bookkeeping, WakeLoop
    <2>4. Stopping'
      BY <1>1, <1>6, <2>1, LoopNumAssumption DEF IInv, Phases, Stopping, WakeLoop
    <2> QED
      BY <2>1, <2>2, <2>3, <2>4 DEF IInv, Phases, Resting, Spawning, Serving
  <1>7. CASE Stopped
    <2>1. Pending = {}
      BY <1>7, NobodyCounted DEF IInv, Phases, Stopping, Stopped, AllStopped
    <2>2. TypeOK'
      <3>1. <<>> \in Seq(Workers)
        OBVIOUS
      <3> QED
        BY <1>7, <3>1 DEF IInv, TypeOK, Stopped
    <2>3. Bookkeeping'
      BY <1>0, <1>1, <1>7 DEF IInv, Bookkeeping, Stopped
    <2> QED
      BY <1>1, <1>7, <2>1, <2>2, <2>3
         DEF IInv, Phases, Resting, Spawning, Serving, Stopping, Stopped
  <1> QED
    BY <1>2, <1>3, <1>4, <1>5, <1>6, <1>7
\* A thread that is not counted yet was created by a start() that has not returned.
LEMMA NotYetCounted ==
    ASSUME IInv, NEW w \in Workers, wpc[w] \in {"construct", "register", "count"}
    PROVE  opc = "spawn"
  <1>1. w \in Pending /\ w \notin Counted
    BY DEF Pending, Counted
  <1>2. opc \in {"idle", "spawn", "quit", "wakeup"}
    BY DEF IInv, TypeOK
  <1> QED
    BY <1>1, <1>2 DEF IInv, Phases, Resting, Serving, Stopping

\* Threads leave only while stop() runs.
LEMMA LeavesInStop ==
    ASSUME IInv, NEW w \in Workers, wpc[w] = "leave" \/ (wpc[w] \in {"check", "poll"} /\ quit[w])
    PROVE  opc \in {"quit", "wakeup"}
  <1>1. w \in Pending /\ ~NobodyLeaves
    BY DEF Pending, NobodyLeaves
  <1>2. opc \in {"idle", "spawn", "quit", "wakeup"}
    BY DEF IInv, TypeOK
  <1> QED
    BY <1>1, <1>2 DEF IInv, Phases, Resting, Spawning, Serving

\* start() creates one more thread.
LEMMA SpawnStep ==
    ASSUME IInv, NEW w \in Workers, Spawn(w)
    PROVE  IInv'
  <1>1. opc = "spawn" /\ opc' = "spawn" /\ created < LoopNum /\ created' = created + 1
    BY DEF Spawn
  <1>2. wpc[w] = "absent" /\ wpc' = [wpc EXCEPT ![w] = "construct"]
    BY DEF Spawn
  <1>3. wpc' \in [Workers -> {"absent", "construct", "register", "count", "start",
                              "check", "poll", "leave", "destruct"}]
    BY <1>2 DEF IInv, TypeOK
  <1>4. /\ Pending' = Pending \cup {w} /\ w \notin Pending
        /\ Registered' = Registered /\ Counted' = Counted
    BY <1>2 DEF IInv, TypeOK, Pending, Registered, Counted
  <1>5. IsFiniteSet(Pending') /\ Cardinality(Pending') = Cardinality(Pending) + 1
    BY <1>4, FS_AddElement DEF IInv, Bookkeeping
  <1>6. TypeOK'
    <2>1. created' \in 0..LoopNum
      BY <1>1, LoopNumAssumption DEF IInv, TypeOK
    <2> QED
      BY <1>1, <1>3, <2>1 DEF IInv, TypeOK, Spawn
  <1>7. Bookkeeping'
    <2>1. alive' = {v \in Workers : wpc'[v] \notin {"absent", "construct"}}
      BY <1>2 DEF IInv, TypeOK, Bookkeeping, Spawn
    <2> QED
      BY <1>4, <1>5, <2>1 DEF IInv, Bookkeeping, Spawn
  <1>8. Spawning'
    <2>1. NobodyLeaves'
      BY <1>1, <1>2 DEF IInv, TypeOK, Phases, Spawning, NobodyLeaves, Spawn
    <2> QED
      BY <1>1, <1>4, <1>5, <2>1 DEF IInv, Phases, Spawning, Spawn
  <1> QED
    BY <1>1, <1>6, <1>7, <1>8 DEF IInv, Phases, Resting, Serving, Stopping
-----------------------------------------------------------------------------
\* A thread that start() has created constructs its loop, enters it in loops_ and counts itself.
LEMMA StartingSteps ==
    ASSUME IInv, NEW w \in Workers, Construct(w) \/ Register(w) \/ Count(w)
    PROVE  IInv'
  <1>1. opc = "spawn" /\ w \in Pending
    BY NotYetCounted DEF Construct, Register, Count, Move, Pending
  <1>2. UNCHANGED ownerVars
    BY DEF Construct, Register, Count
  <1>3. PICK to \in {"register", "count", "start"} : wpc' = [wpc EXCEPT ![w] = to]
    BY DEF Construct, Register, Count, Move
  <1>4. Pending' = Pending
    BY <1>1, <1>3 DEF IInv, TypeOK, Pending
  <1>5. wpc' \in [Workers -> {"absent", "construct", "register", "count", "start",
                              "check", "poll", "leave", "destruct"}]
    BY <1>3 DEF IInv, TypeOK
  <1>6. ASSUME TypeOK', Bookkeeping', Len(loops') = Cardinality(Registered'), NobodyLeaves',
               \A k \in 1..Len(loops') : loops'[k] \in Registered'
        PROVE  IInv'
    BY <1>1, <1>2, <1>4, <1>6
       DEF IInv, Phases, Resting, Spawning, Serving, Stopping
  <1>7. /\ ~started /\ created = Cardinality(Pending) /\ Len(loops) = Cardinality(Registered)
        /\ NobodyLeaves /\ \A k \in 1..Len(loops) : loops[k] \in Registered
    BY <1>1 DEF IInv, Phases, Spawning
  <1>8. CASE Construct(w)
    <2>1. wpc[w] = "construct" /\ wpc' = [wpc EXCEPT ![w] = "register"]
      BY <1>8 DEF Construct, Move
    <2>2. Registered' = Registered /\ Counted' = Counted
      BY <2>1 DEF IInv, TypeOK, Registered, Counted
    <2>3. quit' \in [Workers -> BOOLEAN] /\ eventfd' \in [Workers -> BOOLEAN]
      BY <1>8 DEF IInv, TypeOK, Construct
    <2>4. TypeOK'
      BY <1>2, <1>5, <1>8, <2>3 DEF IInv, TypeOK, Construct
    <2>5. alive' = {v \in Workers : wpc'[v] \notin {"absent", "construct"}}
      BY <1>8, <2>1 DEF IInv, TypeOK, Bookkeeping, Construct
    <2>6. Bookkeeping'
      BY <1>4, <1>8, <2>2, <2>5 DEF IInv, Bookkeeping, Construct
    <2>7. NobodyLeaves'
      BY <1>7, <1>8, <2>1 DEF IInv, TypeOK, NobodyLeaves, Construct
    <2> QED
      BY <1>6, <1>7, <1>8, <2>2, <2>4, <2>6, <2>7 DEF Construct
  <1>9. CASE Register(w)
    <2>1. wpc[w] = "register" /\ wpc' = [wpc EXCEPT ![w] = "count"] /\ loops' = Append(loops, w)
      BY <1>9 DEF Register, Move
    <2>2. Registered' = Registered \cup {w} /\ w \notin Registered /\ Counted' = Counted
      BY <2>1 DEF IInv, TypeOK, Registered, Counted
    <2>3. Cardinality(Registered') = Cardinality(Registered) + 1
      BY <2>2, Sets, FS_AddElement DEF IInv, Bookkeeping
    <2>4. /\ loops \in Seq(Workers) /\ loops' \in Seq(Workers) /\ Len(loops') = Len(loops) + 1
          /\ \A k \in 1..Len(loops) : loops'[k] = loops[k]
          /\ loops'[Len(loops) + 1] = w
      BY <2>1 DEF IInv, TypeOK
    <2>5. TypeOK'
      BY <1>2, <1>5, <1>9, <2>4 DEF IInv, TypeOK, Register
    <2>6. \A k, l \in 1..Len(loops') : loops'[k] = loops'[l] => k = l
      BY <1>7, <2>2, <2>4 DEF IInv, Bookkeeping
    <2>7. alive' = {v \in Workers : wpc'[v] \notin {"absent", "construct"}}
      BY <1>9, <2>1 DEF IInv, TypeOK, Bookkeeping, Register
    <2>8. Bookkeeping'
      BY <1>4, <1>9, <2>2, <2>6, <2>7 DEF IInv, Bookkeeping, Register
    <2>9. NobodyLeaves'
      BY <1>7, <1>9, <2>1 DEF IInv, TypeOK, NobodyLeaves, Register
    <2>10. \A k \in 1..Len(loops') : loops'[k] \in Registered'
      BY <1>7, <2>2, <2>4
    <2> QED
      BY <1>6, <1>7, <2>3, <2>4, <2>5, <2>8, <2>9, <2>10
  <1>10. CASE Count(w)
    <2>1. wpc[w] = "count" /\ wpc' = [wpc EXCEPT ![w] = "start"]
      BY <1>10 DEF Count, Move
    <2>2. Registered' = Registered /\ Counted' = Counted \cup {w} /\ w \notin Counted
      BY <2>1 DEF IInv, TypeOK, Registered, Counted
    <2>3. IsFiniteSet(Pending') /\ currentNum' = Cardinality(Counted')
      BY <1>4, <1>10, <2>2, Sets, FS_AddElement DEF IInv, Bookkeeping, Count
    <2>4. currentNum' \in 0..LoopNum
      <3>1. Counted' \subseteq Pending'
        BY DEF Counted, Pending
      <3>2. Cardinality(Counted') <= Cardinality(Pending') /\ Cardinality(Counted') \in Nat
        BY <2>3, <3>1, FS_Subset, FS_CardinalityType
      <3>3. Cardinality(Pending') \in 0..LoopNum
        BY <1>4, <1>7 DEF IInv, TypeOK
      <3> QED
        BY <2>3, <3>2, <3>3, LoopNumAssumption
    <2>5. TypeOK'
      BY <1>2, <1>5, <1>10, <2>4 DEF IInv, TypeOK, Count
    <2>6. alive' = {v \in Workers : wpc'[v] \notin {"absent", "construct"}}
      BY <1>10, <2>1 DEF IInv, TypeOK, Bookkeeping, Count
    <2>7. Bookkeeping'
      BY <1>10, <2>3, <2>6 DEF IInv, Bookkeeping, Count
    <2>8. NobodyLeaves'
      BY <1>7, <1>10, <2>1 DEF IInv, TypeOK, NobodyLeaves, Count
    <2> QED
      BY <1>6, <1>7, <1>10, <2>2, <2>5, <2>7, <2>8 DEF Count
  <1> QED
    BY <1>8, <1>9, <1>10
-----------------------------------------------------------------------------
\* A thread that runs its loop.
LEMMA LoopingSteps ==
    ASSUME IInv, NEW w \in Workers,
           EnterLoop(w) \/ Check(w) \/ PollWakeup(w) \/ PollOther(w)
    PROVE  IInv'
  <1>1. UNCHANGED <<ownerVars, poolVars, alive>>
    BY DEF EnterLoop, Check, PollWakeup, PollOther
  <1>2. PICK to \in {"check", "poll", "leave"} : wpc' = [wpc EXCEPT ![w] = to]
    BY DEF EnterLoop, Check, PollWakeup, PollOther, Move
  <1>3. wpc[w] \in {"start", "check", "poll"}
    BY DEF EnterLoop, Check, PollWakeup, PollOther, Move
  <1>4. Pending' = Pending /\ Registered' = Registered /\ Counted' = Counted
    BY <1>2, <1>3 DEF IInv, TypeOK, Pending, Registered, Counted
  <1>5. TypeOK'
    <2>1. wpc' \in [Workers -> {"absent", "construct", "register", "count", "start",
                                "check", "poll", "leave", "destruct"}]
      BY <1>2 DEF IInv, TypeOK
    <2>2. quit' \in [Workers -> BOOLEAN] /\ eventfd' \in [Workers -> BOOLEAN]
      BY DEF IInv, TypeOK, EnterLoop, Check, PollWakeup, PollOther
    <2> QED
      BY <1>1, <2>1, <2>2 DEF IInv, TypeOK
  <1>6. Bookkeeping'
    <2>1. alive' = {v \in Workers : wpc'[v] \notin {"absent", "construct"}}
      BY <1>1, <1>2, <1>3 DEF IInv, TypeOK, Bookkeeping
    <2> QED
      BY <1>1, <1>4, <2>1 DEF IInv, Bookkeeping
  <1>7. NobodyLeaves => NobodyLeaves'
    BY DEF IInv, TypeOK, NobodyLeaves, EnterLoop, Check, PollWakeup, PollOther, Move
  <1> QED
    BY <1>1, <1>4, <1>5, <1>6, <1>7 DEF IInv, Phases, Resting, Spawning, Serving, Stopping

\* A thread leaves its loop, in stop(), and ends.
LEMMA EndingSteps ==
    ASSUME IInv, NEW w \in Workers, Discount(w) \/ Destruct(w)
    PROVE  IInv'
  <1>1. UNCHANGED <<ownerVars, loops, loopVars>>
    BY DEF Discount, Destruct
  <1>2. PICK to \in {"destruct", "absent"} : wpc' = [wpc EXCEPT ![w] = to]
    BY DEF Discount, Destruct, Move
  <1>3. wpc' \in [Workers -> {"absent", "construct", "register", "count", "start",
                              "check", "poll", "leave", "destruct"}]
    BY <1>2 DEF IInv, TypeOK
  <1>4. NobodyLeaves => NobodyLeaves'
    BY <1>1, <1>2 DEF IInv, TypeOK, NobodyLeaves
  <1>5. CASE Discount(w)
    <2>1. wpc[w] = "leave" /\ wpc' = [wpc EXCEPT ![w] = "destruct"]
      BY <1>5 DEF Discount, Move
    <2>2. opc \in {"quit", "wakeup"}
      BY <2>1, LeavesInStop
    <2>3. /\ Pending' = Pending \ {w} /\ Counted' = Counted \ {w} /\ w \in Counted
      BY <2>1 DEF IInv, TypeOK, Pending, Counted
    <2>4. IsFiniteSet(Pending') /\ currentNum' = Cardinality(Counted')
      BY <1>5, <2>3, Sets, FS_RemoveElement DEF IInv, Bookkeeping, Discount
    <2>5. currentNum' \in 0..LoopNum
      <3>1. Cardinality(Counted') \in Nat
        BY <2>3, <2>4, Sets, FS_RemoveElement, FS_CardinalityType DEF IInv, Bookkeeping
      <3> QED
        BY <1>5, <2>4, <3>1, LoopNumAssumption DEF IInv, TypeOK, Discount
    <2>6. TypeOK'
      BY <1>1, <1>3, <1>5, <2>5 DEF IInv, TypeOK, Discount
    <2>7. alive' = {v \in Workers : wpc'[v] \notin {"absent", "construct"}}
      BY <1>5, <2>1 DEF IInv, TypeOK, Bookkeeping, Discount
    <2>8. Bookkeeping'
      BY <1>1, <2>4, <2>7 DEF IInv, Bookkeeping
    <2> QED
      BY <1>1, <2>2, <2>3, <2>6, <2>8
         DEF IInv, Phases, Resting, Spawning, Serving, Stopping
  <1>6. CASE Destruct(w)
    <2>1. wpc[w] = "destruct" /\ wpc' = [wpc EXCEPT ![w] = "absent"]
      BY <1>6 DEF Destruct, Move
    <2>2. Pending' = Pending /\ Registered' = Registered /\ Counted' = Counted
      BY <2>1 DEF IInv, TypeOK, Pending, Registered, Counted
    <2>3. TypeOK'
      BY <1>1, <1>3, <1>6 DEF IInv, TypeOK, Destruct
    <2>4. alive' = {v \in Workers : wpc'[v] \notin {"absent", "construct"}}
      BY <1>6, <2>1 DEF IInv, TypeOK, Bookkeeping, Destruct
    <2>5. Bookkeeping'
      BY <1>1, <1>6, <2>2, <2>4 DEF IInv, Bookkeeping, Destruct
    <2> QED
      BY <1>1, <1>4, <2>2, <2>3, <2>5
         DEF IInv, Phases, Resting, Spawning, Serving, Stopping
  <1> QED
    BY <1>5, <1>6
-----------------------------------------------------------------------------
\* Every step keeps the invariant.
LEMMA NextIInv == IInv /\ [Next]_vars => IInv'
  <1> SUFFICES ASSUME IInv, [Next]_vars PROVE IInv'
    OBVIOUS
  <1>1. CASE Start \/ Stop \/ AllStarted \/ QuitLoop \/ WakeLoop \/ Stopped
    BY <1>1, OwnerSteps
  <1>2. CASE \E w \in Workers : Spawn(w)
    BY <1>2, SpawnStep
  <1>3. CASE \E w \in Workers : Worker(w) \/ PollOther(w)
    <2>1. PICK w \in Workers : Worker(w) \/ PollOther(w)
      BY <1>3
    <2>2. CASE Construct(w) \/ Register(w) \/ Count(w)
      BY <2>2, StartingSteps
    <2>3. CASE EnterLoop(w) \/ Check(w) \/ PollWakeup(w) \/ PollOther(w)
      BY <2>3, LoopingSteps
    <2>4. CASE Discount(w) \/ Destruct(w)
      BY <2>4, EndingSteps
    <2> QED
      BY <2>1, <2>2, <2>3, <2>4 DEF Worker
  <1>4. CASE UNCHANGED vars
    <2>1. Pending' = Pending /\ Registered' = Registered /\ Counted' = Counted
      BY <1>4, SameSets
    <2> QED
      BY <1>4, <2>1 DEF IInv, TypeOK, Bookkeeping, Phases, Resting, Spawning, Serving,
                        Stopping, NobodyLeaves
  <1> QED
    BY <1>1, <1>2, <1>3, <1>4 DEF Next, Owner

\* However start(), stop() and the threads of the pool interleave, and however often the pool
\* is started again: getLoop finds loop_num_ different loops that exist, and when stop() has
\* returned no thread is inside a loop.
THEOREM ThePoolIsSafe == Spec => []PoolIsSafe
  <1>1. Init => IInv
    BY InitIInv
  <1>2. IInv /\ [Next]_vars => IInv'
    BY NextIInv
  <1>3. IInv => PoolIsSafe
    BY IInvIsSafe
  <1> QED
    BY <1>1, <1>2, <1>3, PTL DEF Spec
=============================================================================
