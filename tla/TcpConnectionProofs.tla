------------------------- MODULE TcpConnectionProofs -------------------------
(***************************************************************************)
(* A tcpconnection in every behaviour: pending output is watched, the FIN  *)
(* is last, closedCallback is called once, messages go out whole           *)
(* (RecordLog), and those of one thread in the order in which it sent      *)
(* them.                                                                   *)
(*                                                                         *)
(* The argument for the order: a message of another thread goes from cpc   *)
(* into the queue of functors and from there into the stream, and none     *)
(* passes one that its thread sent earlier; one of the loop's own thread   *)
(* goes into the stream at once.                                           *)
(***************************************************************************)
EXTENDS TcpConnection, SeqSetsProofs

Threads == Callers \cup {Loop}

Functor == Requests \cup {<<"start">>, <<"sendDone">>, <<"highWater">>}

Byte == Messages \X Nat

(***************************************************************************)
(* The connection, what the loop's thread executes works on: state_, the   *)
(* channel and the buffer.  The other variables only have their types.     *)
(***************************************************************************)
\* Until start has run, nothing was sent, and until shutDown, the FIN was not sent.
NotYet ==
    /\ state = "kConnecting" => ~writing /\ output = <<>>
    /\ state \in {"kConnecting", "kConnected"} => ~shut

ConnTypes ==
    /\ state \in {"kConnecting", "kConnected", "kDisConnecting", "kDisConnected"}
    /\ closed \in 0..1
    /\ reading \in BOOLEAN /\ writing \in BOOLEAN /\ marked \in BOOLEAN
    /\ output \in Seq(Byte) /\ wire \in Seq(Byte)
    /\ shut \in BOOLEAN
    /\ room \in 0..Room

ConnOK == ConnTypes /\ OutputIsWatched /\ FinIsLast /\ ClosedOnce /\ NotYet

RestTypes ==
    /\ delayed \in BOOLEAN
    /\ functors \in Seq(Functor)
    /\ revent \subseteq {"in", "out", "hup"}
    /\ cpc \in [Callers -> Requests \cup {<<>>}]
    /\ asked \in [Threads -> Seq(Messages)]
    /\ data \in BOOLEAN /\ fin \in BOOLEAN /\ reset \in BOOLEAN

SafeInv == ConnOK /\ RestTypes
-----------------------------------------------------------------------------
(***************************************************************************)
(* The order of the messages, as a relation between the stream s, what the *)
(* other threads hold in their hands, h (cpc), the queue of functors q,    *)
(* and what each thread has sent, a (asked).  These are parameters because *)
(* a step changes them one after the other: a functor is executed when it  *)
(* has left the queue, and what it sends gets into the stream before the   *)
(* callback is queued.                                                     *)
(***************************************************************************)
\* Where m is in the stream.
At(s, m) == {k \in 1..Len(s) : s[k][1] = m}

\* The x-th functor sends m.
SendAt(q, x, m) == x \in 1..Len(q) /\ q[x] = <<"send", m>>

AskedBy(a, t, m) == \E k \in 1..Len(a[t]) : a[t][k] = m

\* The same thread sent m before n.
Earlier(a, m, n) ==
    \E t \in Threads : \E j, k \in 1..Len(a[t]) : j < k /\ a[t][j] = m /\ a[t][k] = n

\* No message was sent twice, and what is in the stream was sent.
SentOnce(s, a) ==
    /\ \A t, u \in Threads, m \in Messages : AskedBy(a, t, m) /\ AskedBy(a, u, m) => t = u
    /\ \A k \in 1..Len(s) : \E t \in Threads : AskedBy(a, t, s[k][1])

\* A message in the queue is there once, and not yet in the stream; another thread sent it.
QueuedOnce(s, h, q, a) ==
    \A m \in Messages : \A x \in Nat : SendAt(q, x, m) =>
        /\ At(s, m) = {}
        /\ \E c \in Callers : AskedBy(a, c, m)
        /\ \A y \in Nat : SendAt(q, y, m) => x = y
        /\ \A c \in Callers : h[c] # <<"send", m>>

\* The same for one that is about to be queued.
HeldOnce(s, h, a) ==
    \A m \in Messages, c \in Callers :
        h[c] = <<"send", m>> => At(s, m) = {} /\ AskedBy(a, c, m)

\* No message has passed an earlier one of its thread.
StreamOrder(s, a) ==
    \A m, n \in Messages : Earlier(a, m, n) => \A i \in At(s, m), j \in At(s, n) : i < j

QueueOrder(s, q, a) ==
    \A m, n \in Messages : Earlier(a, m, n) => \A x \in Nat : SendAt(q, x, m) =>
        At(s, n) = {} /\ \A y \in Nat : SendAt(q, y, n) => x < y

HeldOrder(s, h, q, a) ==
    \A m, n \in Messages : Earlier(a, m, n) => \A c \in Callers : h[c] = <<"send", m>> =>
        /\ At(s, n) = {}
        /\ \A y \in Nat : ~SendAt(q, y, n)
        /\ \A d \in Callers : h[d] # <<"send", n>>

OrderInv(s, h, q, a) ==
    /\ SentOnce(s, a) /\ QueuedOnce(s, h, q, a) /\ HeldOnce(s, h, a)
    /\ StreamOrder(s, a) /\ QueueOrder(s, q, a) /\ HeldOrder(s, h, q, a)

IInv == SafeInv /\ OrderInv(Stream, cpc, functors, asked)
-----------------------------------------------------------------------------
LEMMA SafeEnough == SafeInv => ConnectionSafe
  BY DEF SafeInv, ConnectionSafe, TypeOK, ConnOK, ConnTypes, RestTypes, Byte, Functor, Threads

\* The functors that a step of the loop leaves: at most a callback is queued.
QueueAfter(q) == {q, Append(q, <<"sendDone">>), Append(q, <<"highWater">>)}

LEMMA QueueTypes ==
    ASSUME NEW q \in Seq(Functor)
    PROVE  /\ QueueAfter(q) \subseteq Seq(Functor)
           /\ q # <<>> => Head(q) \in Functor /\ Tail(q) \in Seq(Functor)
  <1>1. <<"sendDone">> \in Functor /\ <<"highWater">> \in Functor
    BY DEF Functor
  <1>2. \A e \in Functor : Append(q, e) \in Seq(Functor)
    OBVIOUS
  <1>3. q # <<>> => Head(q) \in Functor /\ Tail(q) \in Seq(Functor)
    OBVIOUS
  <1> QED BY <1>1, <1>2, <1>3 DEF QueueAfter

LEMMA MessageBytes ==
    ASSUME NEW m \in Messages
    PROVE  /\ Bytes(m) \in Seq(Byte) /\ Len(Bytes(m)) = Size[m] /\ Size[m] \in Nat \ {0}
           /\ \A k \in 1..Size[m] : Bytes(m)[k] = <<m, k>>
  <1>1. Size[m] \in Nat \ {0}
    BY SizeAssumption
  <1>2. \A k \in 1..Size[m] : <<m, k>> \in Byte
    BY <1>1 DEF Byte
  <1> QED BY <1>1, <1>2 DEF Bytes

LEMMA ConnStart ==
    ASSUME ConnOK, NEW q \in Seq(Functor), Start(q)
    PROVE  ConnOK' /\ functors' \in QueueAfter(q) /\ UNCHANGED <<wire, output>>
  <1>1. functors' = q /\ UNCHANGED <<wire, output>>
    BY DEF Start, streamVars
  <1>2. ConnOK'
    BY DEF ConnOK, ConnTypes, OutputIsWatched, FinIsLast, ClosedOnce, NotYet, Start, streamVars
  <1> QED BY <1>1, <1>2 DEF QueueAfter

LEMMA ConnClose ==
    ASSUME ConnOK, NEW q, HandleClose(q)
    PROVE  ConnOK' /\ functors' = q /\ UNCHANGED <<wire, output>>
  <1>1. functors' = q /\ UNCHANGED <<wire, output, room, shut, reading, writing>>
    BY DEF HandleClose, streamVars
  <1>2. CASE Closable
    <2>1. closed = 0
      BY <1>2 DEF ConnOK, ClosedOnce, Closable
    <2>2. state' = "kDisConnected" /\ marked' = FALSE /\ closed' = 1
      BY <1>2, <2>1 DEF HandleClose
    <2>3. ConnTypes'
      <3>1. closed' \in 0..1
        BY <2>2
      <3>2. marked' \in BOOLEAN
        BY <2>2, Zenon
      <3> QED BY <1>1, <2>2, <3>1, <3>2 DEF ConnOK, ConnTypes
    <2>4. (OutputIsWatched /\ ClosedOnce)'
      BY <2>2 DEF OutputIsWatched, ClosedOnce
    <2>5. (FinIsLast /\ NotYet)'
      BY <1>1, <2>2 DEF ConnOK, FinIsLast, NotYet
    <2> QED BY <1>1, <2>3, <2>4, <2>5 DEF ConnOK
  <1>3. CASE ~Closable
    BY <1>1, <1>3 DEF ConnOK, ConnTypes, OutputIsWatched, FinIsLast, ClosedOnce, NotYet, HandleClose
  <1> QED BY <1>1, <1>2, <1>3

LEMMA ConnShutDown ==
    ASSUME ConnOK, NEW q, ShutDownInLoop(q)
    PROVE  ConnOK' /\ functors' = q /\ UNCHANGED <<wire, output>>
  <1>1. functors' = q /\ UNCHANGED <<wire, output, room, closed, reading, writing, marked>>
    BY DEF ShutDownInLoop, streamVars, chanVars
  <1>2. CASE state = "kConnected" /\ Idle
    BY <1>1, <1>2 DEF ConnOK, ConnTypes, OutputIsWatched, FinIsLast, ClosedOnce, NotYet,
                      ShutDownInLoop, Idle
  <1>3. CASE ~(state = "kConnected" /\ Idle)
    BY <1>1, <1>3 DEF ConnOK, ConnTypes, OutputIsWatched, FinIsLast, ClosedOnce, NotYet, ShutDownInLoop
  <1> QED BY <1>1, <1>2, <1>3

LEMMA ConnReading ==
    ASSUME ConnOK, NEW q, StartReadInLoop(q) \/ StopReadInLoop(q)
    PROVE  ConnOK' /\ functors' = q /\ UNCHANGED <<wire, output>>
  <1>1. functors' = q /\ UNCHANGED <<wire, output, room, state, closed, shut, writing, marked>>
        /\ reading' \in BOOLEAN
    BY DEF StartReadInLoop, StopReadInLoop, streamVars, stateVars
  <1> QED BY <1>1 DEF ConnOK, ConnTypes, OutputIsWatched, FinIsLast, ClosedOnce, NotYet

\* What a message adds to the stream, and what of it is left to be written.
LEMMA SendEffect ==
    ASSUME ConnOK, NEW q \in Seq(Functor), NEW m \in Messages,
           SendDirectly(m, q) \/ SendBuffered(m, q)
    PROVE  /\ state = "kConnected"
           /\ Stream' = Stream \o Bytes(m)
           /\ wire' \in Seq(Byte) /\ Len(wire) <= Len(wire')
           /\ \A k \in 1..Len(wire) : wire'[k] = wire[k]
           /\ output' \in Seq(Byte) /\ room' \in 0..Room
           /\ functors' \in QueueAfter(q)
           /\ \/ output' = output /\ writing' = writing /\ marked' = marked
              \/ output' # <<>> /\ writing' = TRUE /\ marked' = TRUE
  <1> DEFINE bytes == Bytes(m)
             size  == Size[m]
  <1>1. bytes \in Seq(Byte) /\ Len(bytes) = size /\ size \in Nat \ {0}
    BY MessageBytes
  <1>2. wire \in Seq(Byte) /\ output \in Seq(Byte) /\ room \in 0..Room /\ Room \in Nat
    BY SizeAssumption DEF ConnOK, ConnTypes
  <1>3. ASSUME SendBuffered(m, q)
        PROVE  /\ wire' = wire /\ room' = room /\ output' = output \o bytes
               /\ writing' = TRUE /\ marked' = TRUE /\ functors' \in QueueAfter(q)
               /\ state = "kConnected"
    BY <1>3 DEF SendBuffered, Buffer, Watched, QueueAfter
  <1>4. ASSUME SendDirectly(m, q)
        PROVE  \E n \in 1..size :
                  /\ state = "kConnected" /\ output = <<>>
                  /\ wire' = wire \o SubSeq(bytes, 1, n)
                  /\ room' = room - n /\ n <= room
                  /\ functors' \in QueueAfter(q)
                  /\ \/ n = size /\ output' = output /\ writing' = writing /\ marked' = marked
                     \/ /\ n < size /\ output' = output \o SubSeq(bytes, n + 1, size)
                        /\ writing' = TRUE /\ marked' = TRUE
    <2>1. Lesser(room, size) \in 1..size /\ Lesser(room, size) <= room
      BY <1>1, <1>2, <1>4 DEF SendDirectly, Lesser
    <2>2. output = <<>>
      BY <1>4 DEF SendDirectly, Direct
    <2> QED BY <1>4, <2>1, <2>2 DEF SendDirectly, Buffer, Watched, QueueAfter
  <1> HIDE DEF bytes, size
  <1>5. CASE SendBuffered(m, q)
    <2>1. output \o bytes \in Seq(Byte) /\ output \o bytes # <<>>
      BY <1>1, <1>2
    <2>2. wire \o (output \o bytes) = (wire \o output) \o bytes
      BY <1>1, <1>2, ConcatAssoc
    <2>3. Len(wire) \in Nat
      BY <1>2
    <2>4. Stream' = Stream \o bytes
      BY <1>3, <1>5, <2>2 DEF Stream
    <2>5. Len(wire) <= Len(wire') /\ \A k \in 1..Len(wire) : wire'[k] = wire[k]
      BY <1>3, <1>5, <2>3
    <2> QED BY <1>2, <1>3, <1>5, <2>1, <2>4, <2>5 DEF bytes
  <1>6. CASE SendDirectly(m, q)
    <2>1. PICK n \in 1..size :
                  /\ state = "kConnected" /\ output = <<>>
                  /\ wire' = wire \o SubSeq(bytes, 1, n)
                  /\ room' = room - n /\ n <= room
                  /\ functors' \in QueueAfter(q)
                  /\ \/ n = size /\ output' = output /\ writing' = writing /\ marked' = marked
                     \/ /\ n < size /\ output' = output \o SubSeq(bytes, n + 1, size)
                        /\ writing' = TRUE /\ marked' = TRUE
      BY <1>4, <1>6
    <2> DEFINE first == SubSeq(bytes, 1, n)
               rest  == SubSeq(bytes, n + 1, size)
    <2>2. n \in 0..Len(bytes)
      BY <1>1
    <2>3. first \in Seq(Byte) /\ rest \in Seq(Byte) /\ Len(rest) = size - n /\ first \o rest = bytes
      BY <1>1, <2>2, SplitAt
    <2>4. n = size => first = bytes
      BY <1>1, RestEnds
    <2> HIDE DEF first, rest
    <2>5. /\ wire \o first \in Seq(Byte) /\ Len(wire) <= Len(wire \o first)
          /\ \A k \in 1..Len(wire) : (wire \o first)[k] = wire[k]
      BY <1>2, <2>3
    <2>6. room' \in 0..Room
      BY <1>2, <2>1
    <2>7. CASE n = size /\ output' = output /\ writing' = writing /\ marked' = marked
      <3>1. wire' = wire \o bytes
        BY <2>1, <2>4, <2>7 DEF first
      <3>2. wire \o output = wire /\ wire' \o output = wire'
        BY <1>2, <2>1, <2>5 DEF first
      <3>3. Stream' = Stream \o bytes
        BY <2>7, <3>1, <3>2 DEF Stream
      <3> QED BY <1>2, <2>1, <2>5, <2>6, <2>7, <3>3 DEF first, bytes
    <2>8. CASE n < size /\ output' = output \o rest /\ writing' = TRUE /\ marked' = TRUE
      <3>1. output \o rest = rest /\ wire \o output = wire
        BY <1>2, <2>1, <2>3
      <3>2. rest # <<>> /\ rest \in Seq(Byte)
        BY <1>1, <2>3, <2>8
      <3>3. (wire \o first) \o rest = wire \o (first \o rest)
        <4>1. wire \in Seq(Byte) /\ first \in Seq(Byte) /\ rest \in Seq(Byte)
          BY <1>2, <2>3
        <4> QED BY ONLY <4>1, ConcatAssoc
      <3>4. Stream' = Stream \o bytes
        BY <2>1, <2>3, <2>8, <3>1, <3>3 DEF Stream, first
      <3> QED BY <2>1, <2>5, <2>6, <2>8, <3>1, <3>2, <3>4 DEF first, bytes
    <2> QED BY <2>1, <2>7, <2>8 DEF rest
  <1> QED BY <1>5, <1>6

LEMMA ConnSend ==
    ASSUME ConnOK, NEW q \in Seq(Functor), NEW m \in Messages, SendInLoop(m, q)
    PROVE  ConnOK' /\ functors' \in QueueAfter(q)
  <1>1. UNCHANGED <<state, closed, shut>>
    BY DEF SendInLoop, stateVars
  <1>2. CASE SendNothing(m, q)
    <2>1. functors' = q /\ UNCHANGED <<reading, writing, marked, output, wire, room>>
      BY <1>2 DEF SendNothing, chanVars, streamVars
    <2> QED BY <1>1, <2>1 DEF ConnOK, ConnTypes, OutputIsWatched, FinIsLast, ClosedOnce, NotYet,
                              QueueAfter
  <1>3. CASE SendDirectly(m, q) \/ SendBuffered(m, q)
    <2>1. reading' = reading
      BY <1>3 DEF SendDirectly, SendBuffered
    <2>2. /\ state = "kConnected"
          /\ wire' \in Seq(Byte) /\ output' \in Seq(Byte) /\ room' \in 0..Room
          /\ functors' \in QueueAfter(q)
          /\ \/ output' = output /\ writing' = writing /\ marked' = marked
             \/ output' # <<>> /\ writing' = TRUE /\ marked' = TRUE
      BY <1>3, SendEffect
    <2>3. ConnTypes'
      BY <1>1, <2>1, <2>2 DEF ConnOK, ConnTypes
    <2>4. OutputIsWatched'
      <3>1. CASE output' = output /\ writing' = writing /\ marked' = marked
        BY <1>1, <3>1 DEF ConnOK, OutputIsWatched
      <3>2. CASE output' # <<>> /\ writing' = TRUE /\ marked' = TRUE
        BY <3>2 DEF OutputIsWatched
      <3> QED BY <2>2, <3>1, <3>2
    <2>5. ~shut /\ (FinIsLast /\ NotYet)'
      BY <1>1, <2>2 DEF ConnOK, FinIsLast, NotYet
    <2>6. ClosedOnce'
      BY <1>1 DEF ConnOK, ClosedOnce
    <2> QED BY <2>2, <2>3, <2>4, <2>5, <2>6 DEF ConnOK
  <1> QED BY <1>2, <1>3 DEF SendInLoop

\* Whatever the loop's thread executes keeps the connection in order.
LEMMA ConnDo ==
    ASSUME ConnOK, NEW op \in Functor, NEW q \in Seq(Functor), Do(op, q)
    PROVE  ConnOK' /\ functors' \in QueueAfter(q)
  <1>1. q \in QueueAfter(q)
    BY DEF QueueAfter
  <1>2. CASE op[1] = "start" /\ Start(q)
    BY <1>2, ConnStart
  <1>3. CASE op[1] = "send" /\ SendInLoop(op[2], q)
    <2>1. op[2] \in Messages
      BY <1>3 DEF Functor, Requests
    <2> QED BY <1>3, <2>1, ConnSend
  <1>4. CASE ShutDownInLoop(q) \/ HandleClose(q) \/ StartReadInLoop(q) \/ StopReadInLoop(q)
    BY <1>1, <1>4, ConnClose, ConnShutDown, ConnReading
  <1>5. CASE Callback(q)
    <2>1. functors' = q /\ UNCHANGED <<stateVars, chanVars, streamVars>>
      BY <1>5 DEF Callback
    <2> QED BY <1>1, <2>1 DEF ConnOK, ConnTypes, OutputIsWatched, FinIsLast, ClosedOnce, NotYet,
                              stateVars, chanVars, streamVars
  <1> QED BY <1>2, <1>3, <1>4, <1>5 DEF Do

\* What handleWrite does to the stream: bytes go out, and the stream stays as it is.
LEMMA WriteEffect ==
    ASSUME ConnOK, HandleWrite, ~UNCHANGED streamVars
    PROVE  /\ output # <<>> /\ output' \in Seq(Byte) /\ room' \in 0..Room
           /\ wire' \in Seq(Byte) /\ Len(wire) <= Len(wire')
           /\ \A k \in 1..Len(wire) : wire'[k] = wire[k]
           /\ Stream' = Stream
           /\ \/ output' = <<>> /\ writing' = FALSE /\ marked' = TRUE
                 /\ functors' = Append(functors, <<"sendDone">>)
              \/ output' # <<>> /\ UNCHANGED <<writing, marked, functors>>
  <1> DEFINE n == Lesser(room, Len(output))
  <1>1. wire \in Seq(Byte) /\ output \in Seq(Byte) /\ room \in 0..Room /\ Room \in Nat
    BY SizeAssumption DEF ConnOK, ConnTypes
  <1>2. /\ output # <<>> /\ room # 0
        /\ wire' = wire \o SubSeq(output, 1, n)
        /\ output' = SubSeq(output, n + 1, Len(output))
        /\ room' = room - n
        /\ IF output' = <<>>
           THEN writing' = FALSE /\ marked' = TRUE /\ functors' = Append(functors, <<"sendDone">>)
           ELSE UNCHANGED <<writing, marked, functors>>
    BY DEF HandleWrite, Unwatched
  <1>3. n \in 0..Len(output) /\ n <= room
    BY <1>1, <1>2 DEF Lesser
  <1> HIDE DEF n
  <1> DEFINE first == SubSeq(output, 1, n)
             rest  == SubSeq(output, n + 1, Len(output))
  <1>4. first \in Seq(Byte) /\ rest \in Seq(Byte) /\ first \o rest = output
    BY <1>1, <1>3, SplitAt
  <1>5. wire' = wire \o first /\ output' = rest
    BY <1>2
  <1> HIDE DEF first, rest
  <1>6. /\ wire \o first \in Seq(Byte) /\ Len(wire) <= Len(wire \o first)
        /\ \A k \in 1..Len(wire) : (wire \o first)[k] = wire[k]
    BY <1>1, <1>4
  <1>7. (wire \o first) \o rest = wire \o (first \o rest)
    <2>1. wire \in Seq(Byte) /\ first \in Seq(Byte) /\ rest \in Seq(Byte)
      BY <1>1, <1>4
    <2> QED BY ONLY <2>1, ConcatAssoc
  <1>8. Stream' = Stream
    BY <1>4, <1>5, <1>7 DEF Stream
  <1>9. room' \in 0..Room
    BY <1>1, <1>2, <1>3
  <1> QED BY <1>2, <1>4, <1>5, <1>6, <1>8, <1>9

LEMMA ConnWrite ==
    ASSUME ConnOK, functors \in Seq(Functor), HandleWrite
    PROVE  ConnOK' /\ functors' \in QueueAfter(functors)
  <1>1. UNCHANGED <<state, closed, shut, reading>>
    BY DEF HandleWrite, stateVars
  <1>2. CASE UNCHANGED streamVars
    <2>1. UNCHANGED <<writing, marked, functors>>
      <3>1. output = <<>> \/ Broken \/ room = 0
        <4> SUFFICES ASSUME output # <<>>, room # 0, ~Broken PROVE FALSE
          OBVIOUS
        <4>1. room' = room - Lesser(room, Len(output)) /\ room' = room
          BY <1>2 DEF HandleWrite, streamVars
        <4>2. room \in Nat /\ Len(output) \in Nat \ {0}
          BY SizeAssumption DEF ConnOK, ConnTypes
        <4> QED BY <4>1, <4>2 DEF Lesser
      <3> QED BY <3>1 DEF HandleWrite
    <2> QED BY <1>1, <1>2, <2>1 DEF ConnOK, ConnTypes, OutputIsWatched, FinIsLast, ClosedOnce,
                                    NotYet, streamVars, QueueAfter
  <1>3. CASE ~UNCHANGED streamVars
    <2>1. /\ output # <<>> /\ output' \in Seq(Byte) /\ room' \in 0..Room /\ wire' \in Seq(Byte)
          /\ \/ output' = <<>> /\ writing' = FALSE /\ marked' = TRUE
                /\ functors' = Append(functors, <<"sendDone">>)
             \/ output' # <<>> /\ UNCHANGED <<writing, marked, functors>>
      BY <1>3, WriteEffect
    <2>2. writing' \in BOOLEAN /\ marked' \in BOOLEAN
      BY <2>1 DEF ConnOK, ConnTypes
    <2>3. ConnTypes'
      BY <1>1, <2>1, <2>2 DEF ConnOK, ConnTypes
    <2>4. OutputIsWatched'
      <3>1. CASE output' = <<>> /\ writing' = FALSE /\ marked' = TRUE
        BY <3>1 DEF OutputIsWatched
      <3>2. CASE output' # <<>> /\ UNCHANGED <<writing, marked, functors>>
        BY <1>1, <2>1, <3>2 DEF ConnOK, OutputIsWatched
      <3> QED BY <2>1, <3>1, <3>2
    <2>5. (FinIsLast /\ NotYet)'
      BY <1>1, <2>1 DEF ConnOK, FinIsLast, NotYet
    <2>6. ClosedOnce'
      BY <1>1 DEF ConnOK, ClosedOnce
    <2>7. functors' \in QueueAfter(functors)
      BY <2>1 DEF QueueAfter
    <2> QED BY <2>3, <2>4, <2>5, <2>6, <2>7 DEF ConnOK
  <1> QED BY <1>2, <1>3

LEMMA RequestTypes ==
    /\ Requests \subseteq Functor /\ <<>> \notin Requests
    /\ \A op \in Requests : op[1] = "send" => op[2] \in Messages /\ op = <<"send", op[2]>>
  BY DEF Requests, Functor

LEMMA NoteTypes ==
    ASSUME RestTypes, NEW t \in Threads, NEW op \in Requests, Note(t, op)
    PROVE  asked' \in [Threads -> Seq(Messages)]
  <1>1. CASE op[1] = "send"
    <2>1. asked' = [asked EXCEPT ![t] = Append(@, op[2])] /\ op[2] \in Messages
      BY <1>1, RequestTypes DEF Note
    <2>2. Append(asked[t], op[2]) \in Seq(Messages)
      BY <2>1 DEF RestTypes
    <2> QED BY <2>1, <2>2 DEF RestTypes
  <1>2. CASE op[1] # "send"
    BY <1>2 DEF Note, RestTypes
  <1> QED BY <1>1, <1>2

LEMMA SafeInit == Init => SafeInv
  <1> SUFFICES ASSUME Init PROVE SafeInv
    OBVIOUS
  <1>1. Room \in 0..Room
    BY SizeAssumption
  <1>2. <<>> \in Seq(Byte)
    OBVIOUS
  <1>3. ConnOK
    <2>1. closed \in 0..1 /\ room \in 0..Room
      BY <1>1 DEF Init
    <2>2. reading \in BOOLEAN /\ writing \in BOOLEAN /\ marked \in BOOLEAN /\ shut \in BOOLEAN
      BY Zenon DEF Init
    <2>3. ConnTypes
      BY <1>2, <2>1, <2>2 DEF Init, ConnTypes
    <2>4. OutputIsWatched /\ FinIsLast /\ ClosedOnce /\ NotYet
      BY DEF Init, OutputIsWatched, FinIsLast, ClosedOnce, NotYet
    <2> QED BY <2>3, <2>4 DEF ConnOK
  <1>4. <<<<"start">>>> \in Seq(Functor)
    BY DEF Functor
  <1>5. cpc \in [Callers -> Requests \cup {<<>>}] /\ asked \in [Threads -> Seq(Messages)]
    BY DEF Init, Threads
  <1>6. RestTypes
    BY <1>4, <1>5 DEF Init, RestTypes
  <1> QED BY <1>3, <1>6 DEF SafeInv

LEMMA SafeStep == SafeInv /\ [Next]_vars => SafeInv'
  <1> SUFFICES ASSUME ConnOK, RestTypes, [Next]_vars PROVE (ConnOK /\ RestTypes)'
    BY DEF SafeInv
  <1> USE DEF loopVars, callVars, peerVars
  <1>1. CASE RunFunctor
    <2>1. functors \in Seq(Functor) /\ functors # <<>> /\ Do(Head(functors), Tail(functors))
      BY <1>1 DEF RunFunctor, RestTypes
    <2>2. ConnOK' /\ functors' \in QueueAfter(Tail(functors))
      BY <2>1, QueueTypes, ConnDo
    <2>3. functors' \in Seq(Functor)
      BY <2>1, <2>2, QueueTypes
    <2> QED BY <1>1, <2>2, <2>3 DEF RunFunctor, RestTypes
  <1>2. ASSUME NEW op \in Requests, NEW c \in Callers, Call(c, op) PROVE (ConnOK /\ RestTypes)'
    <2>1. ConnOK'
      BY <1>2 DEF Call, ConnOK, ConnTypes, OutputIsWatched, FinIsLast, ClosedOnce, NotYet,
                  stateVars, chanVars, streamVars
    <2>2. asked' \in [Threads -> Seq(Messages)]
      BY <1>2, NoteTypes DEF Call, Threads
    <2>3. cpc' \in [Callers -> Requests \cup {<<>>}]
      BY <1>2 DEF Call, RestTypes
    <2> QED BY <1>2, <2>1, <2>2, <2>3 DEF Call, RestTypes
  <1>3. ASSUME NEW op \in Requests, CallInLoop(op) PROVE (ConnOK /\ RestTypes)'
    <2>1. functors \in Seq(Functor) /\ op \in Functor
      BY <1>3, RequestTypes DEF RestTypes
    <2>2. ConnOK' /\ functors' \in QueueAfter(functors)
      BY <1>3, <2>1, ConnDo DEF CallInLoop
    <2>3. functors' \in Seq(Functor)
      BY <2>1, <2>2, QueueTypes
    <2>4. asked' \in [Threads -> Seq(Messages)]
      BY <1>3, NoteTypes DEF CallInLoop, Threads
    <2> QED BY <1>3, <2>2, <2>3, <2>4 DEF CallInLoop, RestTypes
  <1>4. ASSUME NEW c \in Callers, QueueInLoop(c) PROVE (ConnOK /\ RestTypes)'
    <2>1. ConnOK'
      BY <1>4 DEF QueueInLoop, ConnOK, ConnTypes, OutputIsWatched, FinIsLast, ClosedOnce, NotYet,
                  stateVars, chanVars, streamVars
    <2>2. cpc[c] \in Functor
      BY <1>4, RequestTypes DEF QueueInLoop, RestTypes
    <2>3. functors' \in Seq(Functor) /\ cpc' \in [Callers -> Requests \cup {<<>>}]
      BY <1>4, <2>2 DEF QueueInLoop, RestTypes
    <2> QED BY <1>4, <2>1, <2>3 DEF QueueInLoop, RestTypes
  <1>5. CASE DelayedClose
    <2>1. ConnOK' /\ functors' = functors
      BY <1>5, ConnClose DEF DelayedClose
    <2> QED BY <1>5, <2>1 DEF DelayedClose, RestTypes
  <1>6. CASE HandleHup
    <2>1. ConnOK' /\ functors' = functors
      BY <1>6, ConnClose DEF HandleHup
    <2> QED BY <1>6, <2>1 DEF HandleHup, RestTypes
  <1>7. CASE HandleRead
    <2>1. ConnOK' /\ functors' = functors
      <3>1. CASE EndOfStream BY <1>7, <3>1, ConnClose DEF HandleRead
      <3>2. CASE ~EndOfStream
        BY <1>7, <3>2 DEF HandleRead, ConnOK, ConnTypes, OutputIsWatched, FinIsLast, ClosedOnce,
                          NotYet, stateVars, chanVars, streamVars
      <3> QED BY <3>1, <3>2
    <2> QED BY <1>7, <2>1 DEF HandleRead, RestTypes
  <1>8. CASE HandleWrite
    <2>1. ConnOK' /\ functors' \in Seq(Functor)
      BY <1>8, ConnWrite, QueueTypes DEF RestTypes
    <2> QED BY <1>8, <2>1 DEF HandleWrite, RestTypes
  <1>9. CASE PeerReads
    <2>1. room' \in 0..Room
      BY <1>9, SizeAssumption DEF PeerReads, ConnOK, ConnTypes
    <2>2. ConnOK'
      BY <1>9, <2>1 DEF PeerReads, ConnOK, ConnTypes, OutputIsWatched, FinIsLast, ClosedOnce,
                        NotYet, stateVars, chanVars
    <2> QED BY <1>9, <2>2 DEF PeerReads, RestTypes
  <1>10. CASE Poll \/ ForceCloseWithDelay \/ PeerSends \/ PeerCloses \/ PeerResets \/ UNCHANGED vars
    <2>1. UNCHANGED <<stateVars, chanVars, streamVars, functors, callVars>>
      BY <1>10 DEF Poll, ForceCloseWithDelay, PeerSends, PeerCloses, PeerResets, vars
    <2>2. ConnOK'
      BY <2>1 DEF ConnOK, ConnTypes, OutputIsWatched, FinIsLast, ClosedOnce, NotYet,
                  stateVars, chanVars, streamVars
    <2>3. delayed' \in BOOLEAN /\ revent' \subseteq {"in", "out", "hup"}
          /\ data' \in BOOLEAN /\ fin' \in BOOLEAN /\ reset' \in BOOLEAN
      <3>1. Events \subseteq {"in", "out", "hup"}
        BY DEF Events
      <3> QED BY <1>10, <3>1 DEF Poll, ForceCloseWithDelay, PeerSends, PeerCloses, PeerResets, vars,
                                 RestTypes
    <2> QED BY <2>1, <2>2, <2>3 DEF RestTypes
  <1> QED BY <1>1, <1>2, <1>3, <1>4, <1>5, <1>6, <1>7, <1>8, <1>9, <1>10 DEF Next, LoopStep, User

LEMMA SafeAlways == Spec => []SafeInv
  BY SafeInit, SafeStep, PTL DEF Spec

\* While the connection is open its pending output is watched, the peer gets the FIN after
\* everything that was accepted, and closedCallback is called once, in every order of
\* functors, events and calls.
THEOREM ConnectionIsSafe == Spec => []ConnectionSafe
  BY SafeAlways, SafeEnough, PTL
-----------------------------------------------------------------------------
(***************************************************************************)
(* The order of the messages: what each part of a step does to it.         *)
(***************************************************************************)
OrderTypes(s, h, q, a) ==
    /\ s \in Seq(Byte) /\ q \in Seq(Functor)
    /\ h \in [Callers -> Requests \cup {<<>>}]
    /\ a \in [Threads -> Seq(Messages)]

\* What it takes for m to be the next message of the stream.
Ready(m, s, h, q, a) ==
    /\ At(s, m) = {}
    /\ \E t \in Threads : AskedBy(a, t, m)
    /\ \A y \in Nat : ~SendAt(q, y, m)
    /\ \A c \in Callers : h[c] # <<"send", m>>
    /\ ~Earlier(a, m, m)
    /\ \A n \in Messages : Earlier(a, m, n) => At(s, n) = {}
    /\ \A n \in Messages : Earlier(a, n, m) =>
        /\ \A y \in Nat : ~SendAt(q, y, n)
        /\ \A c \in Callers : h[c] # <<"send", n>>

\* What follows the head of the queue.
LEMMA SendInTail ==
    ASSUME NEW q \in Seq(Functor), q # <<>>, NEW m, NEW x \in Nat, SendAt(Tail(q), x, m)
    PROVE  SendAt(q, x + 1, m)
  BY DEF SendAt

\* A functor leaves the queue.
LEMMA OrderPop ==
    ASSUME NEW s, NEW h, NEW q, NEW a, OrderTypes(s, h, q, a), OrderInv(s, h, q, a), q # <<>>
    PROVE  /\ OrderInv(s, h, Tail(q), a)
           /\ \A m \in Messages : Head(q) = <<"send", m>> => Ready(m, s, h, Tail(q), a)
  <1>1. q \in Seq(Functor)
    BY DEF OrderTypes
  <1>2. \A m, x : x \in Nat /\ SendAt(Tail(q), x, m) => SendAt(q, x + 1, m)
    BY <1>1, SendInTail
  <1>3. QueuedOnce(s, h, Tail(q), a)
    <2> SUFFICES ASSUME NEW m \in Messages, NEW x \in Nat, SendAt(Tail(q), x, m)
                 PROVE  /\ At(s, m) = {}
                        /\ \E c \in Callers : AskedBy(a, c, m)
                        /\ \A y \in Nat : SendAt(Tail(q), y, m) => x = y
                        /\ \A c \in Callers : h[c] # <<"send", m>>
      BY DEF QueuedOnce
    <2>1. x + 1 \in Nat /\ SendAt(q, x + 1, m)
      BY <1>2
    <2>2. \A y \in Nat : SendAt(Tail(q), y, m) => y + 1 \in Nat /\ SendAt(q, y + 1, m)
      BY <1>2
    <2>3. \A y \in Nat : SendAt(Tail(q), y, m) => x + 1 = y + 1
      BY <2>1, <2>2 DEF OrderInv, QueuedOnce
    <2> QED BY <2>1, <2>3 DEF OrderInv, QueuedOnce
  <1>4. QueueOrder(s, Tail(q), a)
    <2> SUFFICES ASSUME NEW m \in Messages, NEW n \in Messages, Earlier(a, m, n),
                        NEW x \in Nat, SendAt(Tail(q), x, m)
                 PROVE  At(s, n) = {} /\ \A y \in Nat : SendAt(Tail(q), y, n) => x < y
      BY DEF QueueOrder
    <2>1. x + 1 \in Nat /\ SendAt(q, x + 1, m)
      BY <1>2
    <2>2. \A y \in Nat : SendAt(Tail(q), y, n) => y + 1 \in Nat /\ SendAt(q, y + 1, n)
      BY <1>2
    <2>3. \A y \in Nat : SendAt(Tail(q), y, n) => x + 1 < y + 1
      BY <2>1, <2>2 DEF OrderInv, QueueOrder
    <2> QED BY <2>1, <2>3 DEF OrderInv, QueueOrder
  <1>5. HeldOrder(s, h, Tail(q), a)
    BY <1>2 DEF OrderInv, HeldOrder
  <1>6. OrderInv(s, h, Tail(q), a)
    BY <1>3, <1>4, <1>5 DEF OrderInv
  <1>7. ASSUME NEW m \in Messages, Head(q) = <<"send", m>>
        PROVE  Ready(m, s, h, Tail(q), a)
    <2>1. 1 \in Nat /\ SendAt(q, 1, m)
      BY <1>1, <1>7 DEF SendAt
    <2>2. /\ At(s, m) = {}
          /\ \E c \in Callers : AskedBy(a, c, m)
          /\ \A y \in Nat : SendAt(q, y, m) => 1 = y
          /\ \A c \in Callers : h[c] # <<"send", m>>
      BY <2>1 DEF OrderInv, QueuedOnce
    <2>3. \A y \in Nat : ~SendAt(Tail(q), y, m)
      <3> SUFFICES ASSUME NEW y \in Nat, SendAt(Tail(q), y, m) PROVE FALSE
        OBVIOUS
      <3>1. y + 1 = 1 /\ y \in 1..Len(Tail(q))
        BY <1>2, <2>2 DEF SendAt
      <3> QED BY <3>1
    <2>4. ASSUME NEW n \in Messages, Earlier(a, m, n)
          PROVE  At(s, n) = {} /\ n # m
      BY <2>1, <2>4 DEF OrderInv, QueueOrder
    <2>5. ASSUME NEW n \in Messages, Earlier(a, n, m)
          PROVE  /\ \A y \in Nat : ~SendAt(Tail(q), y, n)
                 /\ \A c \in Callers : h[c] # <<"send", n>>
      <3>1. ASSUME NEW y \in Nat, SendAt(Tail(q), y, n) PROVE FALSE
        <4>1. y + 1 < 1
          BY <1>2, <2>1, <2>5, <3>1 DEF OrderInv, QueueOrder
        <4> QED BY <4>1
      <3>2. \A c \in Callers : h[c] # <<"send", n>>
        BY <2>1, <2>5 DEF OrderInv, HeldOrder
      <3> QED BY <3>1, <3>2
    <2>6. ~Earlier(a, m, m)
      BY <2>4
    <2>7. \E t \in Threads : AskedBy(a, t, m)
      BY <2>2 DEF Threads
    <2> QED BY <2>2, <2>3, <2>4, <2>5, <2>6, <2>7 DEF Ready
  <1> QED BY <1>6, <1>7

\* Where the messages are when n has been added to the stream.
LEMMA AtAppend ==
    ASSUME NEW s \in Seq(Byte), NEW n \in Messages
    PROVE  /\ s \o Bytes(n) \in Seq(Byte)
           /\ \A m \in Messages \ {n} : At(s \o Bytes(n), m) = At(s, m)
           /\ \A k \in At(s \o Bytes(n), n) : k \in At(s, n) \/ k > Len(s)
           /\ \A m \in Messages : \A k \in At(s, m) : k <= Len(s) /\ k \in Nat
           /\ \A k \in 1..Len(s \o Bytes(n)) :
                (s \o Bytes(n))[k][1] = n \/ (k \in 1..Len(s) /\ (s \o Bytes(n))[k] = s[k])
  <1> DEFINE b == Bytes(n)
             u == s \o b
  <1>1. b \in Seq(Byte) /\ Len(b) = Size[n] /\ Size[n] \in Nat /\ \A k \in 1..Size[n] : b[k] = <<n, k>>
    BY MessageBytes
  <1> HIDE DEF b
  <1>2. u \in Seq(Byte) /\ Len(u) = Len(s) + Size[n] /\ Len(s) \in Nat
    BY <1>1, ConcatAt
  <1>3. \A k \in 1..Len(s) : u[k] = s[k]
    BY <1>1, ConcatAt
  <1>4. \A k \in 1..Size[n] : u[Len(s) + k] = b[k]
    <2>1. \A k \in 1..Len(b) : (s \o b)[Len(s) + k] = b[k]
      BY <1>1, ConcatAt
    <2> QED BY <1>1, <2>1
  <1> HIDE DEF u
  <1>5. ASSUME NEW k \in 1..Len(u), k > Len(s) PROVE u[k][1] = n
    <2>1. k - Len(s) \in 1..Size[n] /\ Len(s) + (k - Len(s)) = k
      BY <1>1, <1>2, <1>5
    <2>2. u[k] = <<n, k - Len(s)>>
      BY <1>1, <1>4, <2>1
    <2> QED BY <2>2
  <1>6. ASSUME NEW m \in Messages \ {n} PROVE At(u, m) = At(s, m)
    <2>1. ASSUME NEW k \in At(u, m) PROVE k \in At(s, m)
      <3>1. k \in 1..Len(u) /\ u[k][1] = m
        BY DEF At
      <3>2. k <= Len(s)
        BY <1>2, <1>5, <3>1
      <3> QED BY <1>2, <1>3, <3>1, <3>2 DEF At
    <2>2. ASSUME NEW k \in At(s, m) PROVE k \in At(u, m)
      <3>1. k \in 1..Len(s) /\ s[k][1] = m /\ k \in 1..Len(u)
        BY <1>1, <1>2 DEF At
      <3> QED BY <1>3, <3>1 DEF At
    <2> QED BY <2>1, <2>2
  <1>7. \A k \in At(u, n) : k \in At(s, n) \/ k > Len(s)
    BY <1>2, <1>3 DEF At
  <1>8. \A k \in 1..Len(u) : u[k][1] = n \/ (k \in 1..Len(s) /\ u[k] = s[k])
    BY <1>2, <1>3, <1>5
  <1>9. \A m \in Messages : \A k \in At(s, m) : k <= Len(s) /\ k \in Nat
    BY <1>2 DEF At
  <1> QED BY <1>2, <1>6, <1>7, <1>8, <1>9 DEF u, b

\* A message that is ready gets into the stream.
LEMMA OrderExtend ==
    ASSUME NEW s, NEW h, NEW q, NEW a, OrderTypes(s, h, q, a), OrderInv(s, h, q, a),
           NEW n \in Messages, Ready(n, s, h, q, a)
    PROVE  OrderTypes(s \o Bytes(n), h, q, a) /\ OrderInv(s \o Bytes(n), h, q, a)
  <1> DEFINE u == s \o Bytes(n)
  <1>1. s \in Seq(Byte)
    BY DEF OrderTypes
  <1>2. /\ u \in Seq(Byte)
        /\ \A m \in Messages \ {n} : At(u, m) = At(s, m)
        /\ \A k \in At(u, n) : k \in At(s, n) \/ k > Len(s)
        /\ \A m \in Messages : \A k \in At(s, m) : k <= Len(s) /\ k \in Nat
        /\ \A k \in 1..Len(u) : u[k][1] = n \/ (k \in 1..Len(s) /\ u[k] = s[k])
    BY <1>1, AtAppend
  <1> HIDE DEF u
  <1>3. At(s, n) = {} /\ ~Earlier(a, n, n)
    BY DEF Ready
  <1>4. SentOnce(u, a)
    <2>1. \E t \in Threads : AskedBy(a, t, n)
      BY DEF Ready
    <2> QED BY <1>2, <2>1 DEF OrderInv, SentOnce
  <1>5. QueuedOnce(u, h, q, a) /\ HeldOnce(u, h, a)
    BY <1>2 DEF OrderInv, QueuedOnce, HeldOnce, Ready
  <1>6. StreamOrder(u, a)
    <2> SUFFICES ASSUME NEW m \in Messages, NEW k \in Messages, Earlier(a, m, k),
                        NEW i \in At(u, m), NEW j \in At(u, k)
                 PROVE  i < j
      BY DEF StreamOrder
    <2>1. CASE k = n
      <3>1. m # n /\ i \in At(s, m)
        BY <1>2, <1>3, <2>1
      <3>2. i <= Len(s) /\ i \in Nat /\ j > Len(s) /\ j \in 1..Len(u)
        BY <1>2, <1>3, <2>1, <3>1 DEF At
      <3>3. Len(s) \in Nat /\ j \in Nat
        BY <1>1, <3>2
      <3> QED BY <3>2, <3>3
    <2>2. CASE k # n
      <3>1. j \in At(s, k)
        BY <1>2, <2>2
      <3>2. m # n
        BY <3>1 DEF Ready
      <3> QED BY <1>2, <3>1, <3>2 DEF OrderInv, StreamOrder
    <2> QED BY <2>1, <2>2
  <1>7. QueueOrder(u, q, a)
    <2> SUFFICES ASSUME NEW m \in Messages, NEW k \in Messages, Earlier(a, m, k),
                        NEW x \in Nat, SendAt(q, x, m)
                 PROVE  At(u, k) = {} /\ \A y \in Nat : SendAt(q, y, k) => x < y
      BY DEF QueueOrder
    <2>1. k # n
      BY DEF Ready
    <2> QED BY <1>2, <2>1 DEF OrderInv, QueueOrder
  <1>8. HeldOrder(u, h, q, a)
    <2> SUFFICES ASSUME NEW m \in Messages, NEW k \in Messages, Earlier(a, m, k),
                        NEW c \in Callers, h[c] = <<"send", m>>
                 PROVE  /\ At(u, k) = {}
                        /\ \A y \in Nat : ~SendAt(q, y, k)
                        /\ \A d \in Callers : h[d] # <<"send", k>>
      BY DEF HeldOrder
    <2>1. k # n
      BY DEF Ready
    <2> QED BY <1>2, <2>1 DEF OrderInv, HeldOrder
  <1> QED BY <1>2, <1>4, <1>5, <1>6, <1>7, <1>8 DEF OrderTypes, OrderInv, u

\* A functor is queued that sends nothing.
LEMMA OrderPush ==
    ASSUME NEW s, NEW h, NEW q, NEW a, OrderTypes(s, h, q, a), OrderInv(s, h, q, a),
           NEW e \in Functor, \A m \in Messages : e # <<"send", m>>
    PROVE  OrderInv(s, h, Append(q, e), a)
  <1>1. q \in Seq(Functor)
    BY DEF OrderTypes
  <1>2. ASSUME NEW m \in Messages, NEW x, SendAt(Append(q, e), x, m)
        PROVE  SendAt(q, x, m)
    <2>1. /\ Len(Append(q, e)) = Len(q) + 1 /\ Append(q, e)[Len(q) + 1] = e /\ Len(q) \in Nat
          /\ \A k \in 1..Len(q) : Append(q, e)[k] = q[k]
      BY <1>1
    <2>2. x \in 1..Len(q) + 1 /\ Append(q, e)[x] = <<"send", m>>
      BY <1>2, <2>1 DEF SendAt
    <2>3. x # Len(q) + 1
      BY <2>1, <2>2
    <2> QED BY <2>1, <2>2, <2>3 DEF SendAt
  <1>3. QueuedOnce(s, h, Append(q, e), a)
    BY <1>2 DEF OrderInv, QueuedOnce
  <1>4. QueueOrder(s, Append(q, e), a)
    BY <1>2 DEF OrderInv, QueueOrder
  <1>5. HeldOrder(s, h, Append(q, e), a)
    BY <1>2 DEF OrderInv, HeldOrder
  <1> QED BY <1>3, <1>4, <1>5 DEF OrderInv

\* What is sent is noted at the end.
LEMMA AskEffect ==
    ASSUME NEW a \in [Threads -> Seq(Messages)], NEW t \in Threads, NEW m \in Messages
    PROVE  LET b == [a EXCEPT ![t] = Append(@, m)] IN
           /\ b \in [Threads -> Seq(Messages)]
           /\ AskedBy(b, t, m)
           /\ \A u \in Threads, n \in Messages :
                /\ AskedBy(a, u, n) => AskedBy(b, u, n)
                /\ AskedBy(b, u, n) => AskedBy(a, u, n) \/ (u = t /\ n = m)
           /\ \A k, n \in Messages :
                Earlier(b, k, n) => Earlier(a, k, n) \/ (AskedBy(a, t, k) /\ n = m)
  <1> DEFINE l == Len(a[t])
             b == [a EXCEPT ![t] = Append(@, m)]
  <1>1. a[t] \in Seq(Messages) /\ l \in Nat
    OBVIOUS
  <1>2. /\ Append(a[t], m) \in Seq(Messages) /\ Len(Append(a[t], m)) = l + 1
        /\ \A k \in 1..l : Append(a[t], m)[k] = a[t][k]
        /\ Append(a[t], m)[l + 1] = m
    BY <1>1
  <1>3. b \in [Threads -> Seq(Messages)] /\ b[t] = Append(a[t], m)
        /\ \A u \in Threads \ {t} : b[u] = a[u]
    BY <1>2
  <1> HIDE DEF b, l
  <1>4. /\ Len(b[t]) = l + 1 /\ b[t][l + 1] = m /\ l \in Nat /\ Len(a[t]) = l
        /\ \A k \in 1..l : b[t][k] = a[t][k]
    BY <1>1, <1>2, <1>3 DEF l
  <1>5. AskedBy(b, t, m)
    BY <1>4 DEF AskedBy
  <1>6. ASSUME NEW u \in Threads, NEW n \in Messages
        PROVE  /\ AskedBy(a, u, n) => AskedBy(b, u, n)
               /\ AskedBy(b, u, n) => AskedBy(a, u, n) \/ (u = t /\ n = m)
    <2>1. CASE u = t BY <1>4, <2>1 DEF AskedBy
    <2>2. CASE u # t BY <1>3, <2>2 DEF AskedBy
    <2> QED BY <2>1, <2>2
  <1>7. ASSUME NEW k \in Messages, NEW n \in Messages, Earlier(b, k, n)
        PROVE  Earlier(a, k, n) \/ (AskedBy(a, t, k) /\ n = m)
    <2>1. PICK u \in Threads : \E i, j \in 1..Len(b[u]) : i < j /\ b[u][i] = k /\ b[u][j] = n
      BY <1>7 DEF Earlier
    <2>2. PICK i \in 1..Len(b[u]), j \in 1..Len(b[u]) : i < j /\ b[u][i] = k /\ b[u][j] = n
      BY <2>1
    <2>3. CASE u # t
      BY <1>3, <2>2, <2>3 DEF Earlier
    <2>4. CASE u = t /\ j = l + 1
      <3>1. i \in 1..l
        BY <1>4, <2>2, <2>4
      <3> QED BY <1>4, <2>2, <2>4, <3>1 DEF AskedBy
    <2>5. CASE u = t /\ j # l + 1
      <3>1. i \in 1..l /\ j \in 1..l
        BY <1>4, <2>2, <2>5
      <3> QED BY <1>4, <2>2, <2>5, <3>1 DEF Earlier
    <2> QED BY <2>3, <2>4, <2>5
  <1> QED BY <1>3, <1>5, <1>6, <1>7 DEF b

\* A message is sent: it is new, and about to be added to the stream or held by its thread.
LEMMA OrderAsk ==
    ASSUME NEW s, NEW h, NEW q, NEW a, OrderTypes(s, h, q, a), OrderInv(s, h, q, a),
           NEW t \in Threads, NEW m \in Messages, \A u \in Threads : ~AskedBy(a, u, m)
    PROVE  LET b == [a EXCEPT ![t] = Append(@, m)] IN
           /\ OrderTypes(s, h, q, b)
           /\ At(s, m) = {}
           /\ \A y \in Nat : ~SendAt(q, y, m)
           /\ \A c \in Callers : h[c] # <<"send", m>>
           /\ \A n \in Messages : ~Earlier(b, m, n)
           /\ OrderInv(s, h, q, b)
  <1> DEFINE b == [a EXCEPT ![t] = Append(@, m)]
  <1>1. a \in [Threads -> Seq(Messages)] /\ s \in Seq(Byte)
    BY DEF OrderTypes
  <1>2. /\ b \in [Threads -> Seq(Messages)]
        /\ \A u \in Threads, n \in Messages :
                /\ AskedBy(a, u, n) => AskedBy(b, u, n)
                /\ AskedBy(b, u, n) => AskedBy(a, u, n) \/ (u = t /\ n = m)
        /\ \A k, n \in Messages :
                Earlier(b, k, n) => Earlier(a, k, n) \/ (AskedBy(a, t, k) /\ n = m)
    BY <1>1, AskEffect
  <1> HIDE DEF b
  <1>3. /\ At(s, m) = {}
        /\ \A y \in Nat : ~SendAt(q, y, m)
        /\ \A c \in Callers : h[c] # <<"send", m>>
    BY DEF OrderInv, SentOnce, QueuedOnce, HeldOnce, At, Threads
  <1>4. \A n \in Messages : ~Earlier(a, m, n) /\ ~Earlier(a, n, m)
    BY DEF Earlier, AskedBy
  <1>5. \A n \in Messages : ~Earlier(b, m, n)
    BY <1>2, <1>4
  <1>6. SentOnce(s, b)
    <2>1. \A k \in 1..Len(s) : s[k][1] \in Messages
      BY <1>1 DEF Byte
    <2> QED BY <1>2, <2>1 DEF OrderInv, SentOnce
  <1>7. QueuedOnce(s, h, q, b) /\ HeldOnce(s, h, b)
    BY <1>2 DEF OrderInv, QueuedOnce, HeldOnce, Threads
  <1>8. StreamOrder(s, b)
    BY <1>2, <1>3 DEF OrderInv, StreamOrder
  <1>9. QueueOrder(s, q, b)
    BY <1>2, <1>3 DEF OrderInv, QueueOrder
  <1>10. HeldOrder(s, h, q, b)
    BY <1>2, <1>3 DEF OrderInv, HeldOrder
  <1> QED BY <1>2, <1>3, <1>5, <1>6, <1>7, <1>8, <1>9, <1>10 DEF OrderTypes, OrderInv, b

\* A thread holds something else than a message, or nothing any more.
LEMMA OrderDrop ==
    ASSUME NEW s, NEW h, NEW q, NEW a, OrderTypes(s, h, q, a), OrderInv(s, h, q, a),
           NEW c \in Callers, NEW op, \A m \in Messages : op # <<"send", m>>
    PROVE  OrderInv(s, [h EXCEPT ![c] = op], q, a)
  <1> DEFINE g == [h EXCEPT ![c] = op]
  <1>1. \A d \in Callers, m \in Messages : g[d] = <<"send", m>> => h[d] = <<"send", m>>
    BY DEF OrderTypes
  <1> HIDE DEF g
  <1>2. QueuedOnce(s, g, q, a) /\ HeldOnce(s, g, a)
    BY <1>1 DEF OrderInv, QueuedOnce, HeldOnce
  <1>3. HeldOrder(s, g, q, a)
    BY <1>1 DEF OrderInv, HeldOrder
  <1> QED BY <1>2, <1>3 DEF OrderInv, g

\* A thread holds the message that it has sent last.
LEMMA OrderHold ==
    ASSUME NEW s, NEW h, NEW q, NEW a, OrderTypes(s, h, q, a), OrderInv(s, h, q, a),
           NEW c \in Callers, NEW m \in Messages, AskedBy(a, c, m),
           At(s, m) = {},
           \A y \in Nat : ~SendAt(q, y, m),
           \A n \in Messages : ~Earlier(a, m, n)
    PROVE  OrderInv(s, [h EXCEPT ![c] = <<"send", m>>], q, a)
  <1> DEFINE g == [h EXCEPT ![c] = <<"send", m>>]
  <1>1. \A d \in Callers, n \in Messages :
            g[d] = <<"send", n>> => (d = c /\ n = m) \/ (d # c /\ h[d] = <<"send", n>>)
    BY DEF OrderTypes
  <1> HIDE DEF g
  <1>2. QueuedOnce(s, g, q, a) /\ HeldOnce(s, g, a)
    BY <1>1 DEF OrderInv, QueuedOnce, HeldOnce
  <1>3. HeldOrder(s, g, q, a)
    <2> SUFFICES ASSUME NEW k \in Messages, NEW n \in Messages, Earlier(a, k, n),
                        NEW d \in Callers, g[d] = <<"send", k>>
                 PROVE  /\ At(s, n) = {}
                        /\ \A y \in Nat : ~SendAt(q, y, n)
                        /\ \A e \in Callers : g[e] # <<"send", n>>
      BY DEF HeldOrder
    <2>1. d # c /\ h[d] = <<"send", k>>
      BY <1>1
    <2>2. n # m
      <3> SUFFICES ASSUME n = m PROVE FALSE
        OBVIOUS
      <3>1. PICK u \in Threads : AskedBy(a, u, k) /\ AskedBy(a, u, m)
        BY DEF Earlier, AskedBy
      <3>2. AskedBy(a, d, k)
        BY <2>1 DEF OrderInv, HeldOnce
      <3>3. u = c /\ u = d
        BY <3>1, <3>2 DEF OrderInv, SentOnce, Threads
      <3> QED BY <2>1, <3>3
    <2> QED BY <1>1, <2>1, <2>2 DEF OrderInv, HeldOrder
  <1> QED BY <1>2, <1>3 DEF OrderInv, g

\* A thread queues what it holds.
LEMMA OrderQueue ==
    ASSUME NEW s, NEW h, NEW q, NEW a, OrderTypes(s, h, q, a), OrderInv(s, h, q, a),
           NEW c \in Callers, h[c] # <<>>
    PROVE  OrderInv(s, [h EXCEPT ![c] = <<>>], Append(q, h[c]), a)
  <1>0. h[c] \in Requests /\ h[c] \in Functor /\ q \in Seq(Functor)
    BY DEF OrderTypes, Functor
  <1>1. CASE \A m \in Messages : h[c] # <<"send", m>>
    <2>1. OrderInv(s, h, Append(q, h[c]), a)
      BY <1>0, <1>1, OrderPush
    <2>2. OrderTypes(s, h, Append(q, h[c]), a)
      BY <1>0 DEF OrderTypes
    <2>3. \A m \in Messages : <<>> # <<"send", m>>
      OBVIOUS
    <2> QED BY <2>1, <2>2, <2>3, OrderDrop
  <1>2. CASE \E m \in Messages : h[c] = <<"send", m>>
    <2>1. PICK m \in Messages : h[c] = <<"send", m>>
      BY <1>2
    <2> DEFINE g == [h EXCEPT ![c] = <<>>]
               r == Append(q, h[c])
               l == Len(q)
    <2>2. \A d \in Callers, n \in Messages : g[d] = <<"send", n>> => d # c /\ h[d] = <<"send", n>>
      BY DEF OrderTypes
    <2>3. /\ l \in Nat /\ Len(r) = l + 1 /\ r[l + 1] = h[c]
          /\ \A k \in 1..l : r[k] = q[k]
      BY <1>0
    <2> HIDE DEF g, r
    <2>4. ASSUME NEW n \in Messages, NEW x \in Nat, SendAt(r, x, n)
          PROVE  (x <= l /\ SendAt(q, x, n)) \/ (x = l + 1 /\ n = m)
      <3>1. x \in 1..l + 1 /\ r[x] = <<"send", n>>
        BY <2>3, <2>4 DEF SendAt
      <3>2. CASE x = l + 1
        BY <2>1, <2>3, <3>1, <3>2
      <3>3. CASE x # l + 1
        BY <2>3, <3>1, <3>3 DEF SendAt
      <3> QED BY <3>2, <3>3
    <2>5. At(s, m) = {} /\ AskedBy(a, c, m) /\ \A y \in Nat : ~SendAt(q, y, m)
      BY <2>1 DEF OrderInv, HeldOnce, QueuedOnce
    <2>6. \A d \in Callers : g[d] # <<"send", m>>
      BY <2>2, <2>5 DEF OrderInv, HeldOnce, SentOnce, Threads
    <2>7. QueuedOnce(s, g, r, a)
      <3> SUFFICES ASSUME NEW n \in Messages, NEW x \in Nat, SendAt(r, x, n)
                   PROVE  /\ At(s, n) = {}
                          /\ \E d \in Callers : AskedBy(a, d, n)
                          /\ \A y \in Nat : SendAt(r, y, n) => x = y
                          /\ \A d \in Callers : g[d] # <<"send", n>>
        BY DEF QueuedOnce
      <3>1. CASE n = m
        BY <2>4, <2>5, <2>6, <3>1
      <3>2. CASE n # m
        <4>1. SendAt(q, x, n) /\ \A y \in Nat : SendAt(r, y, n) => SendAt(q, y, n)
          BY <2>4, <3>2
        <4> QED BY <2>2, <4>1 DEF OrderInv, QueuedOnce
      <3> QED BY <3>1, <3>2
    <2>8. HeldOnce(s, g, a)
      BY <2>2 DEF OrderInv, HeldOnce
    <2>9. QueueOrder(s, r, a)
      <3> SUFFICES ASSUME NEW k \in Messages, NEW n \in Messages, Earlier(a, k, n),
                          NEW x \in Nat, SendAt(r, x, k)
                   PROVE  At(s, n) = {} /\ \A y \in Nat : SendAt(r, y, n) => x < y
        BY DEF QueueOrder
      <3>1. CASE k = m
        <4>1. At(s, n) = {} /\ n # m /\ \A y \in Nat : ~SendAt(q, y, n)
          BY <2>1, <3>1 DEF OrderInv, HeldOrder
        <4> QED BY <2>4, <4>1
      <3>2. CASE k # m
        <4>1. x <= l /\ SendAt(q, x, k)
          BY <2>4, <3>2
        <4>2. At(s, n) = {} /\ \A y \in Nat : SendAt(q, y, n) => x < y
          BY <4>1 DEF OrderInv, QueueOrder
        <4>3. ASSUME NEW y \in Nat, SendAt(r, y, n) PROVE x < y
          BY <2>3, <2>4, <4>1, <4>2, <4>3
        <4> QED BY <4>2, <4>3
      <3> QED BY <3>1, <3>2
    <2>10. HeldOrder(s, g, r, a)
      <3> SUFFICES ASSUME NEW k \in Messages, NEW n \in Messages, Earlier(a, k, n),
                          NEW d \in Callers, g[d] = <<"send", k>>
                   PROVE  /\ At(s, n) = {}
                          /\ \A y \in Nat : ~SendAt(r, y, n)
                          /\ \A e \in Callers : g[e] # <<"send", n>>
        BY DEF HeldOrder
      <3>1. h[d] = <<"send", k>>
        BY <2>2
      <3>2. /\ At(s, n) = {}
            /\ \A y \in Nat : ~SendAt(q, y, n)
            /\ \A e \in Callers : h[e] # <<"send", n>>
        BY <3>1 DEF OrderInv, HeldOrder
      <3>3. n # m
        BY <2>1, <3>2
      <3> QED BY <2>2, <2>4, <3>2, <3>3
    <2> QED BY <2>7, <2>8, <2>9, <2>10 DEF OrderInv, g, r
  <1> QED BY <1>1, <1>2
-----------------------------------------------------------------------------
(***************************************************************************)
(* The steps.                                                              *)
(***************************************************************************)
\* What the loop's thread executes adds at most one message to the stream.
LEMMA StreamDo ==
    ASSUME ConnOK, NEW op \in Functor, NEW q \in Seq(Functor), Do(op, q)
    PROVE  \/ UNCHANGED <<wire, output>>
           \/ \E m \in Messages :
                /\ op = <<"send", m>>
                /\ Stream' = Stream \o Bytes(m)
                /\ wire' \in Seq(Byte) /\ Len(wire) <= Len(wire')
                /\ \A k \in 1..Len(wire) : wire'[k] = wire[k]
  <1>1. CASE op[1] = "start" /\ Start(q)
    BY <1>1, ConnStart
  <1>2. CASE op[1] = "send" /\ SendInLoop(op[2], q)
    <2>1. op[2] \in Messages /\ op = <<"send", op[2]>>
      BY <1>2 DEF Functor, Requests
    <2>2. CASE SendNothing(op[2], q)
      BY <2>2 DEF SendNothing, streamVars
    <2>3. CASE SendDirectly(op[2], q) \/ SendBuffered(op[2], q)
      BY <2>1, <2>3, SendEffect
    <2> QED BY <1>2, <2>2, <2>3 DEF SendInLoop
  <1>3. CASE ShutDownInLoop(q) \/ HandleClose(q) \/ StartReadInLoop(q) \/ StopReadInLoop(q)
    BY <1>3, ConnClose, ConnShutDown, ConnReading
  <1>4. CASE Callback(q)
    BY <1>4 DEF Callback, streamVars
  <1> QED BY <1>1, <1>2, <1>3, <1>4 DEF Do

LEMMA OrderDo ==
    ASSUME ConnOK, NEW op \in Functor, NEW h, NEW q, NEW a, Do(op, q),
           OrderTypes(Stream, h, q, a), OrderInv(Stream, h, q, a),
           \A m \in Messages : op = <<"send", m>> => Ready(m, Stream, h, q, a)
    PROVE  OrderInv(Stream', h, functors', a)
  <1>1. q \in Seq(Functor)
    BY DEF OrderTypes
  <1>2. OrderTypes(Stream', h, q, a) /\ OrderInv(Stream', h, q, a)
    <2>1. CASE UNCHANGED <<wire, output>>
      BY <2>1 DEF Stream
    <2>2. CASE \E m \in Messages : op = <<"send", m>> /\ Stream' = Stream \o Bytes(m)
      BY <2>2, OrderExtend
    <2> QED BY <1>1, <2>1, <2>2, StreamDo
  <1>3. functors' \in QueueAfter(q)
    BY <1>1, ConnDo
  <1>4. \A e \in {<<"sendDone">>, <<"highWater">>} :
            e \in Functor /\ \A m \in Messages : e # <<"send", m>>
    BY DEF Functor
  <1>5. \A e \in {<<"sendDone">>, <<"highWater">>} : OrderInv(Stream', h, Append(q, e), a)
    BY <1>2, <1>4, OrderPush
  <1> QED BY <1>2, <1>3, <1>5 DEF QueueAfter

LEMMA OrderTypesHold ==
    ASSUME SafeInv
    PROVE  OrderTypes(Stream, cpc, functors, asked)
  BY DEF SafeInv, ConnOK, ConnTypes, RestTypes, OrderTypes, Stream

\* A message that is fresh was sent by nobody.
LEMMA FreshMessage ==
    ASSUME SafeInv, NEW m \in Messages, Fresh(m)
    PROVE  \A t \in Threads : ~AskedBy(asked, t, m)
  BY DEF SafeInv, RestTypes, Fresh, AskedBy

\* A call of another thread: it holds what it will queue.
LEMMA OrderCall ==
    ASSUME IInv, NEW c \in Callers, NEW op \in Requests, Note(c, op)
    PROVE  OrderInv(Stream, [cpc EXCEPT ![c] = op], functors, asked')
  <1>1. OrderTypes(Stream, cpc, functors, asked) /\ c \in Threads
    BY OrderTypesHold DEF IInv, Threads
  <1>2. CASE op[1] # "send"
    <2>1. asked' = asked /\ \A m \in Messages : op # <<"send", m>>
      BY <1>2 DEF Note
    <2> QED BY <1>1, <2>1, OrderDrop DEF IInv
  <1>3. CASE op[1] = "send"
    <2> DEFINE m == op[2]
    <2>1. m \in Messages /\ op = <<"send", m>> /\ Fresh(m) /\ asked' = [asked EXCEPT ![c] = Append(@, m)]
      BY <1>3, RequestTypes DEF Note
    <2> HIDE DEF m
    <2>2. \A t \in Threads : ~AskedBy(asked, t, m)
      BY <2>1, FreshMessage DEF IInv
    <2>3. /\ OrderTypes(Stream, cpc, functors, asked') /\ OrderInv(Stream, cpc, functors, asked')
          /\ At(Stream, m) = {}
          /\ \A y \in Nat : ~SendAt(functors, y, m)
          /\ \A n \in Messages : ~Earlier(asked', m, n)
      BY <1>1, <2>1, <2>2, OrderAsk DEF IInv
    <2>4. AskedBy(asked', c, m)
      BY <1>1, <2>1, AskEffect DEF OrderTypes
    <2> QED BY <2>1, <2>3, <2>4, OrderHold
  <1> QED BY <1>2, <1>3

\* A call in the loop's thread: what it sends is the next message of the stream, although
\* other threads hold theirs.
LEMMA OrderCallInLoop ==
    ASSUME IInv, NEW op \in Requests, CallInLoop(op)
    PROVE  OrderInv(Stream', cpc', functors', asked')
  <1>1. OrderTypes(Stream, cpc, functors, asked) /\ Loop \in Threads
    BY OrderTypesHold DEF IInv, Threads
  <1>2. op \in Functor /\ ConnOK /\ cpc' = cpc /\ Do(op, functors)
    BY RequestTypes DEF CallInLoop, IInv, SafeInv
  <1>3. CASE op[1] # "send"
    <2>1. asked' = asked /\ \A m \in Messages : op # <<"send", m>>
      BY <1>3 DEF CallInLoop, Note
    <2> QED BY <1>1, <1>2, <2>1, OrderDo DEF IInv
  <1>4. CASE op[1] = "send"
    <2> DEFINE m == op[2]
    <2>1. m \in Messages /\ op = <<"send", m>> /\ Fresh(m)
          /\ asked' = [asked EXCEPT ![Loop] = Append(@, m)]
      BY <1>4, RequestTypes DEF CallInLoop, Note
    <2> HIDE DEF m
    <2>2. \A t \in Threads : ~AskedBy(asked, t, m)
      BY <2>1, FreshMessage DEF IInv
    <2>3. /\ OrderTypes(Stream, cpc, functors, asked') /\ OrderInv(Stream, cpc, functors, asked')
          /\ At(Stream, m) = {}
          /\ \A y \in Nat : ~SendAt(functors, y, m)
          /\ \A c \in Callers : cpc[c] # <<"send", m>>
          /\ \A n \in Messages : ~Earlier(asked', m, n)
      BY <1>1, <2>1, <2>2, OrderAsk DEF IInv
    <2>4. /\ AskedBy(asked', Loop, m)
          /\ \A k \in Messages : Earlier(asked', k, m) => Earlier(asked, k, m) \/ AskedBy(asked, Loop, k)
      BY <1>1, <2>1, AskEffect DEF OrderTypes
    <2>5. ASSUME NEW k \in Messages, Earlier(asked', k, m)
          PROVE  /\ \A y \in Nat : ~SendAt(functors, y, k)
                 /\ \A c \in Callers : cpc[c] # <<"send", k>>
      <3>1. AskedBy(asked, Loop, k)
        BY <2>2, <2>4, <2>5 DEF Earlier, AskedBy
      <3>2. \A c \in Callers : ~AskedBy(asked, c, k)
        BY <3>1, LoopAssumption DEF IInv, OrderInv, SentOnce, Threads
      <3> QED BY <3>2 DEF IInv, OrderInv, QueuedOnce, HeldOnce
    <2>6. Ready(m, Stream, cpc, functors, asked')
      BY <1>1, <2>1, <2>3, <2>4, <2>5 DEF Ready
    <2>7. \A n \in Messages : op = <<"send", n>> => n = m
      BY <2>1
    <2> QED BY <1>2, <2>3, <2>6, <2>7, OrderDo
  <1> QED BY <1>3, <1>4

LEMMA OrderStep == IInv /\ [Next]_vars => OrderInv(Stream, cpc, functors, asked)'
  <1> SUFFICES ASSUME IInv, [Next]_vars PROVE OrderInv(Stream', cpc', functors', asked')
    OBVIOUS
  <1> USE DEF loopVars, callVars, peerVars
  <1>0. OrderInv(Stream, cpc, functors, asked) /\ ConnOK /\ functors \in Seq(Functor)
        /\ OrderTypes(Stream, cpc, functors, asked)
    BY OrderTypesHold DEF IInv, SafeInv, RestTypes
  <1>1. CASE RunFunctor
    <2> DEFINE op == Head(functors)
               q  == Tail(functors)
    <2>1. op \in Functor /\ q \in Seq(Functor) /\ functors # <<>> /\ Do(op, q)
          /\ UNCHANGED <<cpc, asked>>
      BY <1>0, <1>1, QueueTypes DEF RunFunctor
    <2>2. /\ OrderInv(Stream, cpc, q, asked)
          /\ \A m \in Messages : op = <<"send", m>> => Ready(m, Stream, cpc, q, asked)
      BY <1>0, <2>1, OrderPop
    <2> HIDE DEF op, q
    <2>3. OrderTypes(Stream, cpc, q, asked)
      BY <1>0, <2>1 DEF OrderTypes
    <2> QED BY <1>0, <2>1, <2>2, <2>3, OrderDo
  <1>2. ASSUME NEW op \in Requests, NEW c \in Callers, Call(c, op)
        PROVE  OrderInv(Stream', cpc', functors', asked')
    <2>1. Note(c, op) /\ cpc' = [cpc EXCEPT ![c] = op] /\ functors' = functors /\ Stream' = Stream
      BY <1>2 DEF Call, Stream, streamVars
    <2> QED BY <2>1, OrderCall
  <1>3. ASSUME NEW op \in Requests, CallInLoop(op)
        PROVE  OrderInv(Stream', cpc', functors', asked')
    BY <1>3, OrderCallInLoop
  <1>4. ASSUME NEW c \in Callers, QueueInLoop(c)
        PROVE  OrderInv(Stream', cpc', functors', asked')
    <2>1. cpc[c] # <<>> /\ functors' = Append(functors, cpc[c]) /\ cpc' = [cpc EXCEPT ![c] = <<>>]
          /\ asked' = asked /\ Stream' = Stream
      BY <1>4 DEF QueueInLoop, Stream, streamVars
    <2> QED BY <1>0, <2>1, OrderQueue
  <1>5. CASE DelayedClose \/ HandleHup \/ HandleRead
    <2>1. functors' = functors /\ UNCHANGED <<wire, output>> /\ UNCHANGED <<cpc, asked>>
      <3>1. CASE HandleRead /\ ~EndOfStream
        BY <3>1 DEF HandleRead, streamVars
      <3>2. CASE HandleClose(functors) /\ UNCHANGED <<cpc, asked>>
        BY <1>0, <3>2, ConnClose
      <3> QED BY <1>5, <3>1, <3>2 DEF DelayedClose, HandleHup, HandleRead
    <2> QED BY <1>0, <2>1 DEF Stream
  <1>6. CASE HandleWrite
    <2>1. Stream' = Stream /\ UNCHANGED <<cpc, asked>>
      <3>1. CASE UNCHANGED streamVars
        BY <1>6, <3>1 DEF Stream, streamVars, HandleWrite
      <3>2. CASE ~UNCHANGED streamVars
        BY <1>0, <1>6, <3>2, WriteEffect DEF HandleWrite
      <3> QED BY <3>1, <3>2
    <2>2. functors' \in QueueAfter(functors)
      BY <1>0, <1>6, ConnWrite
    <2>3. \A e \in {<<"sendDone">>, <<"highWater">>} : OrderInv(Stream, cpc, Append(functors, e), asked)
      <3>1. \A e \in {<<"sendDone">>, <<"highWater">>} :
                e \in Functor /\ \A m \in Messages : e # <<"send", m>>
        BY DEF Functor
      <3> QED BY <1>0, <3>1, OrderPush
    <2> QED BY <1>0, <2>1, <2>2, <2>3 DEF QueueAfter
  <1>7. CASE Poll \/ ForceCloseWithDelay \/ PeerReads \/ PeerSends \/ PeerCloses \/ PeerResets
             \/ UNCHANGED vars
    <2>1. UNCHANGED <<output, wire, functors, cpc, asked>>
      BY <1>7 DEF Poll, ForceCloseWithDelay, PeerReads, PeerSends, PeerCloses, PeerResets,
                  vars, streamVars
    <2> QED BY <1>0, <2>1 DEF Stream
  <1> QED BY <1>1, <1>2, <1>3, <1>4, <1>5, <1>6, <1>7 DEF Next, LoopStep, User

LEMMA Initially == Init => IInv
  <1> SUFFICES ASSUME Init PROVE IInv
    OBVIOUS
  <1>1. SafeInv
    BY SafeInit
  <1>2. Stream = <<>> /\ functors = <<<<"start">>>>
    BY DEF Init, Stream
  <1>3. \A t \in Threads : asked[t] = <<>>
    BY DEF Init, Threads
  <1>4. \A c \in Callers : cpc[c] = <<>>
    BY DEF Init
  <1>5. \A m \in Messages : /\ \A x \in Nat : ~SendAt(functors, x, m)
                            /\ \A c \in Callers : cpc[c] # <<"send", m>>
                            /\ \A n \in Messages : ~Earlier(asked, m, n)
                            /\ \A t \in Threads : ~AskedBy(asked, t, m)
    BY <1>2, <1>3, <1>4 DEF SendAt, Earlier, AskedBy
  <1>6. SentOnce(Stream, asked)
    BY <1>2, <1>5 DEF SentOnce
  <1> QED BY <1>1, <1>5, <1>6 DEF IInv, OrderInv, QueuedOnce, HeldOnce, StreamOrder,
                                  QueueOrder, HeldOrder

LEMMA Inductive == IInv /\ [Next]_vars => IInv'
  BY SafeStep, OrderStep DEF IInv

LEMMA Invariance == Spec => []IInv
  BY Initially, Inductive, PTL DEF Spec

\* Messages of the same thread go into the stream in the order in which it sent them.
THEOREM MessagesKeepOrder == Spec => []ThreadOrder
  <1>1. ASSUME IInv PROVE ThreadOrder
    <2> SUFFICES ASSUME NEW t \in DOMAIN asked, NEW j \in DOMAIN asked[t], NEW k \in DOMAIN asked[t],
                        j < k, NEW x \in End(asked[t][j]), NEW y \in End(asked[t][k])
                 PROVE  x < y
      BY DEF ThreadOrder
    <2>1. t \in Threads /\ asked[t] \in Seq(Messages) /\ Stream \in Seq(Byte)
      BY <1>1, OrderTypesHold DEF IInv, SafeInv, RestTypes, OrderTypes
    <2>2. /\ j \in 1..Len(asked[t]) /\ k \in 1..Len(asked[t])
          /\ asked[t][j] \in Messages /\ asked[t][k] \in Messages
      BY <2>1
    <2>3. Earlier(asked, asked[t][j], asked[t][k])
      BY <2>1, <2>2 DEF Earlier
    <2>4. x \in At(Stream, asked[t][j]) /\ y \in At(Stream, asked[t][k])
      BY <2>1 DEF End, At
    <2> QED BY <1>1, <2>2, <2>3, <2>4 DEF IInv, OrderInv, StreamOrder
  <1> QED BY <1>1, Invariance, PTL
-----------------------------------------------------------------------------
(***************************************************************************)
(* What the peer gets is a log (RecordLog) of the messages.                *)
(***************************************************************************)
\* What is written, of what is accepted.
LEMMA GrowStep ==
    ASSUME ConnOK', wire \in Seq(Byte), Len(wire) <= Len(wire'),
           \A k \in 1..Len(wire) : wire'[k] = wire[k]
    PROVE  Log!Grow
  <1>1. wire' \in Seq(Byte) /\ output' \in Seq(Byte)
    BY DEF ConnOK, ConnTypes
  <1>2. ASSUME NEW p \in Seq(Byte), NEW q \in Seq(Byte), Len(p) <= Len(q),
               \A k \in 1..Len(p) : p[k] = q[k]
        PROVE  Log!IsPrefix(p, q)
    <2>1. Len(p) \in Nat
      OBVIOUS
    <2> QED BY <1>2, <2>1, SamePrefix DEF Log!IsPrefix
  <1>3. Log!IsPrefix(wire, wire')
    BY <1>1, <1>2
  <1>4. Log!IsPrefix(wire', wire' \o output')
    <2>1. wire' \o output' \in Seq(Byte) /\ Len(wire') <= Len(wire' \o output')
          /\ \A k \in 1..Len(wire') : wire'[k] = (wire' \o output')[k]
      BY <1>1
    <2> QED BY <1>1, <1>2, <2>1
  <1> QED BY <1>3, <1>4 DEF Log!Grow, Stream

LEMMA LogDo ==
    ASSUME SafeInv, SafeInv', NEW op \in Functor, NEW q \in Seq(Functor), Do(op, q),
           \A m \in Messages : op = <<"send", m>> => At(Stream, m) = {}
    PROVE  [Log!Next]_(Log!vars)
  <1>1. ConnOK /\ ConnOK' /\ wire \in Seq(Byte) /\ Stream \in Seq(Byte)
    BY DEF SafeInv, ConnOK, ConnTypes, Stream
  <1>2. CASE UNCHANGED <<wire, output>>
    BY <1>2 DEF Log!vars, Stream
  <1>3. ASSUME NEW m \in Messages, op = <<"send", m>>, Stream' = Stream \o Bytes(m),
               Len(wire) <= Len(wire'), \A k \in 1..Len(wire) : wire'[k] = wire[k]
        PROVE  Log!Next
    <2>1. Log!Grow
      BY <1>1, <1>3, GrowStep
    <2>2. \A k \in DOMAIN Stream : Stream[k][1] # m
      BY <1>1, <1>3 DEF At
    <2>3. Stream' = Stream \o Log!Bytes(m)
      BY <1>3 DEF Bytes, Log!Bytes
    <2> QED BY <2>1, <2>2, <2>3 DEF Log!Next, Log!Accept
  <1> QED BY <1>1, <1>2, <1>3, StreamDo

LEMMA LogStep == IInv /\ SafeInv' /\ [Next]_vars => [Log!Next]_(Log!vars)
  <1> SUFFICES ASSUME IInv, SafeInv', [Next]_vars PROVE [Log!Next]_(Log!vars)
    OBVIOUS
  <1>0. /\ SafeInv /\ ConnOK /\ ConnOK' /\ functors \in Seq(Functor) /\ wire \in Seq(Byte)
        /\ OrderInv(Stream, cpc, functors, asked) /\ OrderTypes(Stream, cpc, functors, asked)
    BY OrderTypesHold DEF IInv, SafeInv, RestTypes, ConnOK, ConnTypes
  <1>1. CASE RunFunctor
    <2>1. functors # <<>> /\ Do(Head(functors), Tail(functors))
          /\ Head(functors) \in Functor /\ Tail(functors) \in Seq(Functor)
      BY <1>0, <1>1, QueueTypes DEF RunFunctor
    <2>2. \A m \in Messages : Head(functors) = <<"send", m>> => At(Stream, m) = {}
      BY <1>0, <2>1, OrderPop DEF Ready
    <2> QED BY <1>0, <2>1, <2>2, LogDo
  <1>2. ASSUME NEW op \in Requests, CallInLoop(op) PROVE [Log!Next]_(Log!vars)
    <2>1. op \in Functor /\ Do(op, functors)
      BY <1>2, RequestTypes DEF CallInLoop
    <2>2. ASSUME NEW m \in Messages, op = <<"send", m>> PROVE At(Stream, m) = {}
      <3>1. Fresh(m)
        BY <1>2, <2>2 DEF CallInLoop, Note
      <3>2. \A t \in Threads : ~AskedBy(asked, t, m)
        BY <1>0, <3>1, FreshMessage
      <3> QED BY <1>0, <3>2 DEF OrderInv, SentOnce, At
    <2> QED BY <1>0, <2>1, <2>2, LogDo
  <1>3. CASE DelayedClose \/ HandleHup \/ HandleRead
    <2>1. UNCHANGED <<wire, output>>
      <3>1. CASE HandleRead /\ ~EndOfStream
        BY <3>1 DEF HandleRead, streamVars
      <3>2. CASE HandleClose(functors)
        BY <1>0, <3>2, ConnClose
      <3> QED BY <1>3, <3>1, <3>2 DEF DelayedClose, HandleHup, HandleRead
    <2> QED BY <2>1 DEF Log!vars, Stream
  <1>4. CASE HandleWrite
    <2>1. CASE UNCHANGED streamVars
      BY <2>1 DEF Log!vars, Stream, streamVars
    <2>2. CASE ~UNCHANGED streamVars
      <3>1. Stream' = Stream /\ Len(wire) <= Len(wire') /\ \A k \in 1..Len(wire) : wire'[k] = wire[k]
        BY <1>0, <1>4, <2>2, WriteEffect
      <3> QED BY <1>0, <3>1, GrowStep DEF Log!Next, Log!Write
    <2> QED BY <2>1, <2>2
  <1>5. CASE \/ Poll \/ ForceCloseWithDelay \/ PeerReads \/ PeerSends \/ PeerCloses \/ PeerResets
             \/ UNCHANGED vars
             \/ \E c \in Callers : QueueInLoop(c) \/ \E op \in Requests : Call(c, op)
    <2>1. UNCHANGED <<wire, output>>
      BY <1>5 DEF Poll, ForceCloseWithDelay, PeerReads, PeerSends, PeerCloses, PeerResets, vars,
                  QueueInLoop, Call, streamVars
    <2> QED BY <2>1 DEF Log!vars, Stream
  <1> QED BY <1>1, <1>2, <1>3, <1>4, <1>5 DEF Next, LoopStep, User

\* What is accepted of the messages goes out whole, one after the other, and in pieces as
\* small as the socket's send buffer wants them.
THEOREM StreamIsIntact == Spec => StreamIntact
  <1>1. Init => Log!Init
    BY DEF Init, Log!Init, Stream
  <1>2. IInv /\ IInv' /\ [Next]_vars => [Log!Next]_(Log!vars)
    BY LogStep DEF IInv
  <1> QED BY <1>1, <1>2, Invariance, PTL DEF Spec, Log!Spec, StreamIntact
=============================================================================
