----------------------------- MODULE BlocksProofs -----------------------------
(***************************************************************************)
(* Proofs about the classes that the others are built of, for all values   *)
(* of the constants.  Each class has its inductive invariant: TheClassInv  *)
(* holds at first, is kept by every step of its class, and says what its   *)
(* property says.  The steps of the other classes leave its variables      *)
(* alone.                                                                  *)
(***************************************************************************)
EXTENDS Blocks, SeqSetsProofs, FiniteSetTheorems, FunctionTheorems

\* Whatever class takes a step: it is a step of this one, or one that it does not see.
LEMMA Parts ==
    BlocksSpec =>
        /\ Init /\ [][Next]_vars
        /\ Co!CoInit /\ [][Co!Next]_coVars
        /\ Po!Init /\ [][Po!Next]_poVars
        /\ Bu!Init /\ [][Bu!Next]_buVars
        /\ BQ!Init /\ [][BQ!Next]_bqVars
        /\ Th!Init /\ [][Th!Next]_thVars
        /\ LS!Init /\ [][LS!Next]_lsVars
        /\ LF!Init /\ [][LF!Next]_lfVars
  <1>1. BlocksInit =>
            /\ Init /\ Co!CoInit /\ Po!Init /\ Bu!Init /\ BQ!Init /\ Th!Init /\ LS!Init /\ LF!Init
    BY DEF BlocksInit
  <1>2. [BlocksNext]_blocksVars =>
            /\ [Next]_vars /\ [Co!Next]_coVars /\ [Po!Next]_poVars /\ [Bu!Next]_buVars
            /\ [BQ!Next]_bqVars /\ [Th!Next]_thVars /\ [LS!Next]_lsVars /\ [LF!Next]_lfVars
    BY DEF BlocksNext, blocksVars, Wheel, CallStacks, Pollers, Buffers, Queues, TheThread,
           Records, Files
  <1> QED
    BY <1>1, <1>2, PTL DEF BlocksSpec
-----------------------------------------------------------------------------
(***************************************************************************)
(* thread (thread.cpp).                                                    *)
(***************************************************************************)
\* The values of the variables.
ThreadTypes ==
    /\ object \in BOOLEAN /\ func \in BOOLEAN
    /\ started \in BOOLEAN /\ joinable \in BOOLEAN
    /\ opc \in {"idle", "start", "join"}
    /\ rpc \in {"none", "born", "moved", "run", "ended"}
    /\ reaped \in {0, 1}

\* How far the thread is, told from the two flags it leaves behind.
ThreadProgress ==
    /\ func <=> rpc \in {"none", "born"}
    /\ started <=> rpc \in {"run", "ended"}

\* Until the thread has set started_ the owner is inside start, and so cannot destroy.
OwnerWaits ==
    /\ opc = "start" => rpc # "none"
    /\ rpc \in {"born", "moved"} => opc = "start"
    /\ opc # "idle" => object

\* joinable_ is the right to join or detach: it is given up when that is done, and,
\* between the call of join and its return, when it is being done.
JoinRight ==
    /\ joinable => reaped = 0
    /\ reaped = 1 => started
    /\ opc = "join" => ~joinable /\ reaped = 0 /\ started
    /\ object /\ ~joinable /\ opc # "join" => reaped = 1
    /\ object /\ ~joinable => started

\* What the destructor leaves.
ThreadGone == ~object => (reaped = 1 <=> rpc # "none")

ThreadInv == ThreadTypes /\ ThreadProgress /\ OwnerWaits /\ JoinRight /\ ThreadGone

\* The inductive invariant is enough.
LEMMA ThreadInvIsSafe == ThreadInv => ThreadSafe
BY DEF ThreadInv, ThreadTypes, ThreadProgress, OwnerWaits, JoinRight, ThreadGone, ThreadSafe, Th!ThreadSafe

\* The initial state satisfies it.
LEMMA InitThread == Th!Init => ThreadInv
<1> SUFFICES ASSUME Th!Init
             PROVE  ThreadInv
    OBVIOUS
<1>1. ThreadTypes
    BY DEF Th!Init, ThreadTypes
<1>2. ThreadProgress
    BY Zenon DEF Th!Init, ThreadProgress
<1>3. OwnerWaits
    BY DEF Th!Init, OwnerWaits
<1>4. JoinRight
    BY DEF Th!Init, JoinRight
<1>5. ThreadGone
    BY DEF Th!Init, ThreadGone
<1> QED
    BY <1>1, <1>2, <1>3, <1>4, <1>5 DEF ThreadInv

\* Every step of the owner and of the thread keeps it.
LEMMA NextThread == ThreadInv /\ [Th!Next]_thVars => ThreadInv'
<1> SUFFICES ASSUME ThreadInv, [Th!Next]_thVars
             PROVE  ThreadInv'
    OBVIOUS
<1> USE DEF ThreadInv, ThreadTypes, ThreadProgress, OwnerWaits, JoinRight, ThreadGone
<1>1. CASE Th!Start
    BY <1>1 DEF Th!Start, Th!Idle
<1>2. CASE Th!StartReturns
    BY <1>2 DEF Th!StartReturns, Th!Seen
<1>3. CASE Th!Join
    BY <1>3 DEF Th!Join, Th!Idle, Th!Detachable
<1>4. CASE Th!JoinReturns
    BY <1>4 DEF Th!JoinReturns
<1>5. CASE Th!Detach
  <2>1. reaped = 0
      BY <1>5 DEF Th!Detach, Th!Detachable
  <2>2. reaped' = 1
      BY <1>5, <2>1 DEF Th!Detach
  <2> QED
      BY <1>5, <2>1, <2>2 DEF Th!Detach, Th!Idle, Th!Detachable
<1>6. CASE Th!Destroy
  <2>1. CASE Th!Detachable
    <3>1. reaped = 0
        BY <2>1 DEF Th!Detachable
    <3>2. reaped' = 1
        BY <1>6, <2>1, <3>1 DEF Th!Destroy
    <3> QED
        BY <1>6, <2>1, <3>1, <3>2 DEF Th!Destroy, Th!Idle, Th!Detachable
  <2>2. CASE ~Th!Detachable
      BY <1>6, <2>2 DEF Th!Destroy, Th!Idle, Th!Detachable
  <2> QED
      BY <2>1, <2>2
<1>7. CASE Th!Move
    BY <1>7 DEF Th!Move
<1>8. CASE Th!SetStarted
    BY <1>8 DEF Th!SetStarted
<1>9. CASE Th!End
    BY <1>9 DEF Th!End
<1>10. CASE UNCHANGED thVars
    BY <1>10 DEF thVars
<1> QED
    BY <1>1, <1>2, <1>3, <1>4, <1>5, <1>6, <1>7, <1>8, <1>9, <1>10 DEF Th!Next

\* Whatever the order in which the owner starts, joins, detaches and destroys a thread, the
\* thread uses the object only while it exists and is joined or detached exactly once.
THEOREM ThreadIsSafe == BlocksSpec => []ThreadSafe
<1>1. Th!Init => ThreadInv
    BY InitThread
<1>2. ThreadInv /\ [Th!Next]_thVars => ThreadInv'
    BY NextThread
<1>3. ThreadInv => ThreadSafe
    BY ThreadInvIsSafe
<1> QED
    BY <1>1, <1>2, <1>3, Parts, PTL
-----------------------------------------------------------------------------
(***************************************************************************)
(* blockqueue (blockqueue.h).                                              *)
(***************************************************************************)
\* The takers that have been woken up and have not looked yet.
Woken == {t \in Threads : waits[t] = "woken"}

\* Nobody is in take_front or take_back, asleep.
NobodySleeps == \A t \in Threads : waits[t] # "asleep"

QueueTypes ==
    /\ queue \in Seq(Items)
    /\ waits \in [Threads -> {"idle", "asleep", "woken", "timed"}]
    /\ stolen \in Nat
    /\ IsFiniteSet(Woken)

QueueInv == QueueTypes /\ BQ!ItemsAwaited

\* The operator of the module FiniteSets that BlockQueue extends.
LEMMA QueueCardinality == \A S : BQ!Cardinality(S) = Cardinality(S)
  BY DEF BQ!Cardinality, Cardinality, BQ!IsFiniteSet, IsFiniteSet

\* The property in the terms of these proofs.
LEMMA Awaited == BQ!ItemsAwaited <=> NobodySleeps \/ Len(queue) <= Cardinality(Woken) + stolen
  BY QueueCardinality DEF BQ!ItemsAwaited, NobodySleeps, Woken

\* At first the queue is empty and nobody waits.
LEMMA InitQueue == BQ!Init => QueueInv
  <1> SUFFICES ASSUME BQ!Init PROVE QueueInv
    OBVIOUS
  <1>1. Woken = {} /\ NobodySleeps
    BY DEF BQ!Init, Woken, NobodySleeps
  <1>2. <<>> \in Seq(Items)
    OBVIOUS
  <1>3. QueueTypes
    BY <1>1, <1>2, FS_EmptySet DEF BQ!Init, QueueTypes
  <1> QED
    BY <1>1, <1>3, Awaited DEF QueueInv

\* put wakes a taker for its item, or gives the notification to a timedwait, if anybody waits.
LEMMA PutStep ==
    ASSUME QueueInv, NEW t \in Threads, NEW x \in Items, BQ!Put(t, x)
    PROVE  QueueInv'
  <1>1. queue' \in Seq(Items) /\ Len(queue') = Len(queue) + 1
    <2>1. \A q : q \in Seq(Items) => /\ <<x>> \o q \in Seq(Items) /\ Append(q, x) \in Seq(Items)
                                     /\ Len(<<x>> \o q) = Len(q) + 1
                                     /\ Len(Append(q, x)) = Len(q) + 1
      OBVIOUS
    <2> QED
      BY <2>1 DEF QueueInv, QueueTypes, BQ!Put
  <1>2. Cardinality(Woken) \in Nat
    BY FS_CardinalityType DEF QueueInv, QueueTypes
  <1>3. CASE BQ!Waiting = {}
    <2>1. waits' = waits /\ stolen' = stolen /\ NobodySleeps
      BY <1>3 DEF BQ!Put, BQ!Waiting, NobodySleeps
    <2>2. NobodySleeps' /\ Woken' = Woken
      BY <2>1 DEF NobodySleeps, Woken
    <2>3. BQ!ItemsAwaited'
      BY <2>2 DEF BQ!ItemsAwaited, NobodySleeps
    <2> QED
      BY <1>1, <2>1, <2>2, <2>3 DEF QueueInv, QueueTypes
  <1>4. CASE BQ!Waiting # {}
    <2>1. PICK w \in BQ!Waiting :
            /\ waits' = [waits EXCEPT ![w] = IF @ = "timed" THEN "idle" ELSE "woken"]
            /\ stolen' = IF waits[w] = "timed" THEN stolen + 1 ELSE stolen
      BY <1>4 DEF BQ!Put
    <2>2. w \in Threads /\ waits[w] \in {"asleep", "timed"}
      BY DEF BQ!Waiting
    <2>3. NobodySleeps => NobodySleeps'
      BY <2>1, <2>2 DEF QueueInv, QueueTypes, NobodySleeps
    <2>4. CASE waits[w] = "timed"
      <3>1. Woken' = Woken /\ stolen' = stolen + 1
        BY <2>1, <2>2, <2>4 DEF QueueInv, QueueTypes, Woken
      <3>2. QueueTypes'
        BY <1>1, <2>1, <2>2, <2>4, <3>1 DEF QueueInv, QueueTypes
      <3>3. Len(queue) <= Cardinality(Woken) + stolen => Len(queue') <= Cardinality(Woken') + stolen'
        BY <1>1, <1>2, <3>1 DEF QueueInv, QueueTypes
      <3>4. (NobodySleeps \/ Len(queue) <= Cardinality(Woken) + stolen)'
        BY <2>3, <3>3, Awaited DEF QueueInv
      <3>5. BQ!ItemsAwaited'
        BY <3>4, QueueCardinality DEF BQ!ItemsAwaited, NobodySleeps, Woken
      <3> QED
        BY <3>2, <3>5 DEF QueueInv
    <2>5. CASE waits[w] = "asleep"
      <3>1. Woken' = Woken \cup {w} /\ w \notin Woken /\ stolen' = stolen
        BY <2>1, <2>2, <2>5 DEF QueueInv, QueueTypes, Woken
      <3>2. IsFiniteSet(Woken') /\ Cardinality(Woken') = Cardinality(Woken) + 1
        BY <3>1, FS_AddElement DEF QueueInv, QueueTypes
      <3>3. QueueTypes'
        BY <1>1, <2>1, <2>2, <2>5, <3>1, <3>2 DEF QueueInv, QueueTypes
      <3>4. Len(queue) <= Cardinality(Woken) + stolen => Len(queue') <= Cardinality(Woken') + stolen'
        BY <1>1, <1>2, <3>1, <3>2 DEF QueueInv, QueueTypes
      <3>5. (NobodySleeps \/ Len(queue) <= Cardinality(Woken) + stolen)'
        BY <2>3, <3>4, Awaited DEF QueueInv
      <3>6. BQ!ItemsAwaited'
        BY <3>5, QueueCardinality DEF BQ!ItemsAwaited, NobodySleeps, Woken
      <3> QED
        BY <3>3, <3>6 DEF QueueInv
    <2> QED
      BY <2>2, <2>4, <2>5
  <1> QED
    BY <1>3, <1>4

\* take goes to sleep beside an empty queue, or takes an item.
LEMMA TakeStep ==
    ASSUME QueueInv, NEW t \in Threads, BQ!Take(t)
    PROVE  QueueInv'
  <1>1. waits[t] \in {"idle", "woken"}
    BY DEF BQ!Take
  <1>2. Woken' = Woken \ {t} /\ waits' \in [Threads -> {"idle", "asleep", "woken", "timed"}]
    BY <1>1 DEF QueueInv, QueueTypes, Woken, BQ!Take
  <1>3. /\ IsFiniteSet(Woken') /\ Cardinality(Woken') \in Nat /\ Cardinality(Woken) \in Nat
        /\ Cardinality(Woken') >= Cardinality(Woken) - 1
    <2>1. IsFiniteSet(Woken) /\ Cardinality(Woken) \in Nat
      BY FS_CardinalityType DEF QueueInv, QueueTypes
    <2>2. /\ IsFiniteSet(Woken')
          /\ Cardinality(Woken') = IF t \in Woken THEN Cardinality(Woken) - 1 ELSE Cardinality(Woken)
      BY <1>2, <2>1, FS_RemoveElement
    <2>3. Cardinality(Woken') \in Nat
      BY <2>2, FS_CardinalityType
    <2> QED
      BY <2>1, <2>2, <2>3
  <1>4. CASE queue = <<>>
    <2>1. queue' = queue /\ stolen' = stolen /\ Len(queue') = 0
      BY <1>4 DEF BQ!Take
    <2>2. Len(queue') <= Cardinality(Woken') + stolen'
      BY <1>3, <2>1 DEF QueueInv, QueueTypes
    <2>3. BQ!ItemsAwaited'
      BY <2>2, QueueCardinality DEF BQ!ItemsAwaited, Woken
    <2> QED
      BY <1>2, <1>3, <2>1, <2>3 DEF QueueInv, QueueTypes
  <1>5. CASE queue # <<>>
    <2>1. queue' \in Seq(Items) /\ Len(queue') = Len(queue) - 1
      <3>1. Tail(queue) \in Seq(Items) /\ Len(Tail(queue)) = Len(queue) - 1
        BY <1>5 DEF QueueInv, QueueTypes
      <3>2. queue \in Seq(Items) /\ Len(queue) - 1 \in 0..Len(queue)
        BY <1>5 DEF QueueInv, QueueTypes
      <3>3. \A q \in Seq(Items) : \A n \in 0..Len(q) :
                SubSeq(q, 1, n) \in Seq(Items) /\ Len(SubSeq(q, 1, n)) = n
        OBVIOUS
      <3> QED
        BY <1>5, <3>1, <3>2, <3>3 DEF BQ!Take
    <2>2. /\ waits' = [waits EXCEPT ![t] = "idle"]
          /\ stolen' = IF queue' = <<>> THEN 0 ELSE stolen
      BY <1>5 DEF BQ!Take
    <2>3. NobodySleeps => NobodySleeps'
      BY <2>2 DEF QueueInv, QueueTypes, NobodySleeps
    <2>4. Len(queue) <= Cardinality(Woken) + stolen => Len(queue') <= Cardinality(Woken') + stolen'
      <3>1. CASE queue' = <<>>
        BY <1>3, <2>2, <3>1 DEF QueueInv, QueueTypes
      <3>2. CASE queue' # <<>>
        BY <1>3, <2>1, <2>2, <3>2 DEF QueueInv, QueueTypes
      <3> QED
        BY <3>1, <3>2
    <2>5. (NobodySleeps \/ Len(queue) <= Cardinality(Woken) + stolen)'
      BY <2>3, <2>4, Awaited DEF QueueInv
    <2>6. BQ!ItemsAwaited'
      BY <2>5, QueueCardinality DEF BQ!ItemsAwaited, NobodySleeps, Woken
    <2> QED
      BY <1>2, <1>3, <2>1, <2>2, <2>6, SMTT(30) DEF QueueInv, QueueTypes
  <1> QED
    BY <1>4, <1>5

\* A wakeup without a notification only adds to those that will look.
LEMMA WakeStep ==
    ASSUME QueueInv, NEW t \in Threads, BQ!Wake(t)
    PROVE  QueueInv'
  <1>1. Woken' = Woken \cup {t} /\ t \notin Woken /\ UNCHANGED <<queue, stolen>>
    BY DEF QueueInv, QueueTypes, Woken, BQ!Wake
  <1>2. IsFiniteSet(Woken') /\ Cardinality(Woken') = Cardinality(Woken) + 1
    BY <1>1, FS_AddElement DEF QueueInv, QueueTypes
  <1>3. QueueTypes'
    BY <1>1, <1>2 DEF QueueInv, QueueTypes, BQ!Wake
  <1>4. ~NobodySleeps
    BY DEF BQ!Wake, NobodySleeps
  <1>5. Cardinality(Woken) \in Nat
    BY FS_CardinalityType DEF QueueInv, QueueTypes
  <1>6. Len(queue') <= Cardinality(Woken') + stolen'
    BY <1>1, <1>2, <1>4, <1>5, Awaited DEF QueueInv, QueueTypes
  <1>7. BQ!ItemsAwaited'
    BY <1>6, QueueCardinality DEF BQ!ItemsAwaited, Woken
  <1> QED
    BY <1>3, <1>7 DEF QueueInv

\* timedwait takes nothing and is not counted on.
LEMMA TimedStep ==
    ASSUME QueueInv, NEW t \in Threads, BQ!TimedWait(t) \/ BQ!TimedWaitReturns(t)
    PROVE  QueueInv'
  <1>1. Woken' = Woken /\ UNCHANGED <<queue, stolen>>
    BY DEF QueueInv, QueueTypes, Woken, BQ!TimedWait, BQ!TimedWaitReturns
  <1>2. NobodySleeps => NobodySleeps'
    BY DEF QueueInv, QueueTypes, NobodySleeps, BQ!TimedWait, BQ!TimedWaitReturns
  <1>3. QueueTypes'
    BY <1>1 DEF QueueInv, QueueTypes, BQ!TimedWait, BQ!TimedWaitReturns
  <1>4. (NobodySleeps \/ Len(queue) <= Cardinality(Woken) + stolen)'
    BY <1>1, <1>2, Awaited DEF QueueInv
  <1>5. BQ!ItemsAwaited'
    BY <1>4, QueueCardinality DEF BQ!ItemsAwaited, NobodySleeps, Woken
  <1> QED
    BY <1>3, <1>5 DEF QueueInv

\* Every step keeps the invariant.
LEMMA NextQueue == QueueInv /\ [BQ!Next]_bqVars => QueueInv'
  <1> SUFFICES ASSUME QueueInv, [BQ!Next]_bqVars PROVE QueueInv'
    OBVIOUS
  <1>1. CASE BQ!Next
    BY <1>1, PutStep, TakeStep, WakeStep, TimedStep DEF BQ!Next
  <1>2. CASE UNCHANGED bqVars
    BY <1>2 DEF bqVars, QueueInv, QueueTypes, Woken, BQ!ItemsAwaited
  <1> QED
    BY <1>1, <1>2

\* Whatever the order of puts, takes and timed waits: a taker sleeps beside items only if as many
\* takers are on their way to them, or if timedwait took the notification.
THEOREM ItemsAreAwaited == BlocksSpec => []ItemsAwaited
  <1>1. BQ!Init => QueueInv
    BY InitQueue
  <1>2. QueueInv /\ [BQ!Next]_bqVars => QueueInv'
    BY NextQueue
  <1>3. QueueInv => ItemsAwaited
    BY DEF QueueInv, ItemsAwaited
  <1> QED
    BY <1>1, <1>2, <1>3, Parts, PTL
-----------------------------------------------------------------------------
(***************************************************************************)
(* timewheel (timewheel.h).                                                *)
(***************************************************************************)
WheelInv ==
    /\ Exact
    /\ IsFiniteSet(Linked)
    /\ left <= lastTime /\ lastTime <= now
    /\ pc = "idle" => left = 0

\* The turns after which a wheel that stands at i comes to the slot s.
Turns(s, i) == ((s - i - 1) % Wheels) + 1

\* A turn brings every slot nearer, but the one it comes to, which is now farthest.
LEMMA TurnsStep ==
    ASSUME NEW s \in 0..Wheels - 1, NEW i \in 0..Wheels - 1
    PROVE  /\ Turns(s, i) \in 1..Wheels
           /\ (i + 1) % Wheels \in 0..Wheels - 1
           /\ s = (i + 1) % Wheels => Turns(s, i) = 1 /\ Turns(s, (i + 1) % Wheels) = Wheels
           /\ s # (i + 1) % Wheels => Turns(s, (i + 1) % Wheels) = Turns(s, i) - 1
  <1> DEFINE j == (i + 1) % Wheels
  <1>1. Wheels \in Nat \ {0} /\ i \in Int /\ s \in Int
    BY WheelsAssumption
  <1>2. j = IF i + 1 = Wheels THEN 0 ELSE i + 1
    <2>1. CASE i + 1 = Wheels
      <3>1. i + 1 = Wheels * 1 + 0 /\ 0 \in 0..Wheels - 1 /\ i + 1 \in Int
        BY <1>1, <2>1
      <3>2. (i + 1) % Wheels = 0
        BY ONLY <1>1, <3>1, UniqueRemainder
      <3> QED BY <2>1, <3>2
    <2>2. CASE i + 1 # Wheels
      <3>1. i + 1 = Wheels * 0 + (i + 1) /\ i + 1 \in 0..Wheels - 1 /\ i + 1 \in Int
        BY <1>1, <2>2
      <3>2. (i + 1) % Wheels = i + 1
        BY ONLY <1>1, <3>1, UniqueRemainder
      <3> QED BY <2>2, <3>2
    <2> QED BY <2>1, <2>2
  <1>3. \A h \in 0..Wheels - 1 :
            Turns(s, h) = IF s > h THEN s - h ELSE s - h + Wheels
    <2> SUFFICES ASSUME NEW h \in 0..Wheels - 1
                 PROVE  Turns(s, h) = IF s > h THEN s - h ELSE s - h + Wheels
      OBVIOUS
    <2>1. CASE s > h
      <3>1. s - h - 1 = Wheels * 0 + (s - h - 1) /\ s - h - 1 \in 0..Wheels - 1 /\ s - h - 1 \in Int
        BY <1>1, <2>1
      <3>2. (s - h - 1) % Wheels = s - h - 1
        BY ONLY <1>1, <3>1, UniqueRemainder
      <3> QED BY <2>1, <3>2 DEF Turns
    <2>2. CASE s <= h
      <3>1. /\ s - h - 1 = Wheels * (-1) + (s - h - 1 + Wheels)
            /\ s - h - 1 + Wheels \in 0..Wheels - 1 /\ s - h - 1 \in Int /\ -1 \in Int
        BY <1>1, <2>2
      <3>2. (s - h - 1) % Wheels = s - h - 1 + Wheels
        BY ONLY <1>1, <3>1, UniqueRemainder
      <3> QED BY <1>1, <2>2, <3>2 DEF Turns
    <2> QED BY <1>1, <2>1, <2>2
  <1>4. j \in 0..Wheels - 1
    BY <1>1, <1>2
  <1> HIDE DEF j
  <1>5. /\ Turns(s, i) = IF s > i THEN s - i ELSE s - i + Wheels
        /\ Turns(s, j) = IF s > j THEN s - j ELSE s - j + Wheels
    BY <1>3, <1>4
  <1>6. /\ Turns(s, i) \in 1..Wheels
        /\ s = j => Turns(s, i) = 1 /\ Turns(s, j) = Wheels
        /\ s # j => Turns(s, j) = Turns(s, i) - 1
    BY <1>1, <1>2, <1>5
  <1> QED BY <1>4, <1>6 DEF j

\* Slot and rounds of a node that expires in diff milliseconds say so.
LEMMA Placed ==
    ASSUME NEW i \in 0..Wheels - 1, NEW diff \in 1..Modulus - 1
    PROVE  /\ (i + diff) % Wheels \in 0..Wheels - 1
           /\ Rotation(diff) \in 0..Modulus - 1
           /\ diff = Rotation(diff) * Wheels + Turns((i + diff) % Wheels, i)
  <1> DEFINE r == diff % Wheels
             q == diff \div Wheels
             s == (i + diff) % Wheels
  <1>1. Wheels \in Nat \ {0} /\ Modulus \in Nat /\ i \in Int /\ diff \in Nat
    BY WheelsAssumption, TimeAssumption
  <1>2. q \in Int /\ r \in 0..Wheels - 1 /\ diff = Wheels * q + r
    BY <1>1
  <1>3. q \in Nat /\ q <= diff
    <2>1. q < 0 => Wheels * q <= -Wheels
      <3> SUFFICES ASSUME q < 0 PROVE Wheels * q <= -Wheels
        OBVIOUS
      <3> HIDE DEF q
      <3>1. -q - 1 \in Nat
        BY <1>2
      <3>2. Wheels * (-q - 1) >= 0 /\ Wheels * (-q - 1) = -(Wheels * q) - Wheels
        BY ONLY <1>1, <1>2, <3>1
      <3>3. Wheels * q \in Int
        BY ONLY <1>1, <1>2
      <3> QED BY <1>1, <3>2, <3>3
    <2>2. q >= 0 => Wheels * q >= q
      <3> SUFFICES ASSUME q >= 0 PROVE Wheels * q >= q
        OBVIOUS
      <3> HIDE DEF q
      <3>1. (Wheels - 1) * q >= 0 /\ (Wheels - 1) * q = Wheels * q - q
        BY <1>1, <1>2
      <3>2. Wheels * q \in Int
        BY ONLY <1>1, <1>2
      <3> QED BY <1>1, <1>2, <3>1, <3>2
    <2>3. Wheels * q \in Int
      <3> HIDE DEF q
      <3> QED BY ONLY <1>1, <1>2
    <2> QED BY <1>1, <1>2, <2>1, <2>2, <2>3
  <1>4. s \in 0..Wheels - 1
    BY <1>1
  <1> HIDE DEF q, r, s
  <1>5. Wheels * q = q * Wheels /\ Wheels * (q - 1) = (q - 1) * Wheels
        /\ Wheels * (q - 1) = Wheels * q - Wheels /\ Wheels * q \in Int /\ Wheels * (q + 1) = Wheels * q + Wheels
    BY <1>1, <1>2
  <1>6. CASE r # 0
    <2>1. Rotation(diff) = q
      BY <1>6 DEF Rotation, q, r
    <2>2. s = IF i + r < Wheels THEN i + r ELSE i + r - Wheels
      <3>1. CASE i + r < Wheels
        <4>1. i + diff = Wheels * q + (i + r) /\ i + r \in 0..Wheels - 1 /\ i + diff \in Int
          BY <1>1, <1>2, <1>5, <3>1
        <4>2. (i + diff) % Wheels = i + r
          BY ONLY <1>1, <1>2, <4>1, UniqueRemainder
        <4> QED BY <3>1, <4>2 DEF s
      <3>2. CASE i + r >= Wheels
        <4>1. /\ i + diff = Wheels * (q + 1) + (i + r - Wheels)
              /\ i + r - Wheels \in 0..Wheels - 1 /\ i + diff \in Int /\ q + 1 \in Int
          BY <1>1, <1>2, <1>5, <3>2
        <4>2. (i + diff) % Wheels = i + r - Wheels
          BY ONLY <1>1, <1>2, <4>1, UniqueRemainder
        <4> QED BY <1>1, <1>2, <3>2, <4>2 DEF s
      <3> QED BY <1>1, <1>2, <3>1, <3>2
    <2>3. Turns(s, i) = r
      <3>1. s - i - 1 \in Int /\ (s - i - 1 = Wheels * 0 + (r - 1) \/ s - i - 1 = Wheels * (-1) + (r - 1))
        BY <1>1, <1>2, <2>2
      <3>2. r - 1 \in 0..Wheels - 1 /\ 0 \in Int /\ -1 \in Int
        BY <1>1, <1>2, <1>6
      <3>3. (s - i - 1) % Wheels = r - 1
        <4>1. CASE s - i - 1 = Wheels * 0 + (r - 1)
          BY ONLY <1>1, <3>1, <3>2, <4>1, UniqueRemainder
        <4>2. CASE s - i - 1 = Wheels * (-1) + (r - 1)
          BY ONLY <1>1, <3>1, <3>2, <4>2, UniqueRemainder
        <4> QED BY <3>1, <4>1, <4>2
      <3> QED BY <1>2, <3>3 DEF Turns
    <2>4. q \in 0..Modulus - 1
      BY <1>1, <1>3
    <2>5. diff = q * Wheels + Turns(s, i)
      BY <1>2, <1>5, <2>3
    <2> QED BY <1>4, <2>1, <2>4, <2>5 DEF s
  <1>7. CASE r = 0
    <2>1. q - 1 \in 0..Modulus - 1
      <3>1. q # 0
        BY <1>1, <1>2, <1>7
      <3> QED BY <1>1, <1>3, <3>1
    <2>2. (q - 1) % Modulus = q - 1
      <3>1. q - 1 = Modulus * 0 + (q - 1) /\ q - 1 \in Int /\ Modulus \in Nat \ {0}
        BY <1>1, <2>1
      <3> QED BY ONLY <2>1, <3>1, UniqueRemainder
    <2>3. Rotation(diff) = q - 1
      BY <1>7, <2>2 DEF Rotation, q, r
    <2>4. s = i
      <3>1. i + diff = Wheels * q + i /\ i + diff \in Int
        BY <1>1, <1>2, <1>5, <1>7
      <3> QED BY ONLY <1>1, <1>2, <3>1, UniqueRemainder, i \in 0..Wheels - 1 DEF s
    <2>5. Turns(s, i) = Wheels
      <3>1. s - i - 1 = Wheels * (-1) + (Wheels - 1) /\ Wheels - 1 \in 0..Wheels - 1 /\ s - i - 1 \in Int
            /\ -1 \in Int
        BY <1>1, <2>4
      <3>2. (s - i - 1) % Wheels = Wheels - 1
        BY ONLY <1>1, <3>1, UniqueRemainder
      <3> QED BY <1>1, <3>2 DEF Turns
    <2>6. diff = (q - 1) * Wheels + Turns(s, i)
      BY <1>1, <1>2, <1>5, <1>7, <2>5
    <2> QED BY <1>4, <2>1, <2>3, <2>6 DEF s
  <1> QED BY <1>6, <1>7

\* At first no node is linked.
LEMMA InitWheel == Init => WheelInv
  <1> SUFFICES ASSUME Init PROVE WheelInv
    OBVIOUS
  <1>1. Linked = {}
    BY DEF Init, Linked
  <1>2. TypeOK
    BY <1>1, FS_EmptySet, WheelsAssumption, TimeAssumption DEF Init, TypeOK
  <1> QED
    BY <1>1, <1>2, FS_EmptySet DEF Init, WheelInv, Exact

\* The types as the arithmetic needs them, and an empty wheel counts 0.
LEMMA WheelBounds ==
    ASSUME WheelInv
    PROVE  /\ now \in Nat /\ lastTime \in Nat /\ left \in Nat /\ left < Modulus /\ now <= MaxTime
           /\ index \in 0..Wheels - 1 /\ Wheels \in Nat \ {0}
           /\ MaxTime \in Nat /\ MaxDelay \in Nat /\ Modulus \in Nat /\ Modulus > MaxTime + MaxDelay + 1
           /\ nodeCount = Cardinality(Linked) /\ nodeCount \in Nat
           /\ nodeCount = 0 <=> Linked = {}
           /\ \A n \in Nodes : rotation[n] \in Nat /\ due[n] \in Nat
           /\ \A n \in Linked : n \in Nodes /\ slot[n] \in 0..Wheels - 1
           /\ None \notin 0..Wheels - 1
  <1>1. TypeOK /\ IsFiniteSet(Linked)
    BY DEF WheelInv, Exact
  <1>2. nodeCount = Cardinality(Linked) /\ Cardinality(Linked) \in Nat
    BY <1>1, FS_CardinalityType DEF TypeOK
  <1>3. nodeCount = 0 <=> Linked = {}
    BY <1>1, <1>2, FS_EmptySet
  <1>4. \A n \in Linked : n \in Nodes /\ slot[n] \in 0..Wheels - 1
    BY <1>1 DEF TypeOK, Linked
  <1> QED
    BY <1>1, <1>2, <1>3, <1>4, WheelsAssumption, TimeAssumption DEF TypeOK

\* A node that waits is due after the time up to which the wheel has turned: its turns are
\* at least one.
LEMMA DueLater ==
    ASSUME WheelInv, NEW n \in Linked
    PROVE  /\ due[n] = lastTime - left + rotation[n] * Wheels + Turns(slot[n], index)
           /\ Turns(slot[n], index) \in 1..Wheels
           /\ rotation[n] * Wheels \in Nat
           /\ rotation[n] # 0 => rotation[n] * Wheels >= Wheels
           /\ due[n] > lastTime - left
  <1>1. due[n] = lastTime - left + rotation[n] * Wheels + Turns(slot[n], index)
    BY DEF WheelInv, Exact, Distance, Turns
  <1>2. Turns(slot[n], index) \in 1..Wheels
    BY WheelBounds, TurnsStep
  <1>3. rotation[n] \in Nat /\ Wheels \in Nat \ {0}
    BY WheelBounds
  <1>4. \A k \in Nat : k * Wheels \in Nat /\ (k # 0 => k * Wheels >= Wheels)
    BY <1>3
  <1>5. rotation[n] * Wheels \in Nat /\ (rotation[n] # 0 => rotation[n] * Wheels >= Wheels)
    BY <1>3, <1>4
  <1>6. due[n] > lastTime - left
    <2> DEFINE k == rotation[n] * Wheels
               j == Turns(slot[n], index)
    <2>1. k \in Nat /\ j \in 1..Wheels /\ lastTime - left \in Int /\ due[n] = lastTime - left + k + j
      BY <1>1, <1>2, <1>5, WheelBounds
    <2> HIDE DEF k, j
    <2> QED BY <1>3, <2>1
  <1> QED
    BY <1>1, <1>2, <1>5, <1>6

\* A node is added for a time after now.
LEMMA AddNode ==
    ASSUME WheelInv, NEW n \in Nodes, NEW ms \in 0..MaxDelay, AddTimenode(n, ms)
    PROVE  /\ WheelInv'
           /\ lastTime' = lastTime \/ (Linked = {} /\ lastTime' >= lastTime)
           /\ slot[n] = None /\ slot'[n] # None /\ left = 0
           /\ due'[n] \in Nat /\ due'[n] > lastTime' /\ due'[n] <= MaxTime + MaxDelay + 1
           /\ \A m \in Nodes \ {n} : slot'[m] = slot[m] /\ due'[m] = due[m]
  <1> DEFINE expireTime == now + (IF ms > 0 THEN ms ELSE 1)
             diff == (expireTime - Base) % Modulus
             diff0 == expireTime - Base
  <1>1. pc = "idle" /\ left = 0 /\ slot[n] = None
    BY DEF AddTimenode, WheelInv
  <1>2. Base \in Nat /\ Base <= now /\ Base >= lastTime /\ (Base = lastTime \/ Linked = {})
    BY WheelBounds DEF Base, WheelInv
  <1>3. /\ expireTime \in Nat /\ expireTime > now /\ expireTime <= MaxTime + MaxDelay + 1
        /\ diff0 \in 1..Modulus - 1
    BY <1>2, WheelBounds
  <1>4. diff = diff0
    <2>1. diff0 = Modulus * 0 + diff0 /\ diff0 \in Int /\ diff0 \in 0..Modulus - 1 /\ Modulus \in Nat \ {0}
      BY <1>3, WheelBounds
    <2> HIDE DEF diff0
    <2>2. diff0 % Modulus = diff0
      BY ONLY <2>1, UniqueRemainder
    <2> QED BY <2>2 DEF diff0
  <1>5. /\ due' = [due EXCEPT ![n] = expireTime]
        /\ rotation' = [rotation EXCEPT ![n] = Rotation(diff0)]
        /\ slot' = [slot EXCEPT ![n] = (index + diff0) % Wheels]
        /\ lastTime' = Base /\ nodeCount' = nodeCount + 1
        /\ now' = now /\ pc' = pc /\ left' = left /\ index' = index
    BY <1>4 DEF AddTimenode, loopVars
  <1>6. /\ (index + diff0) % Wheels \in 0..Wheels - 1 /\ Rotation(diff0) \in 0..Modulus - 1
        /\ diff0 = Rotation(diff0) * Wheels + Turns((index + diff0) % Wheels, index)
    <2> HIDE DEF diff0
    <2> QED BY <1>3, WheelBounds, Placed
  <1>7. Base = expireTime - diff0
    BY <1>2, <1>3
  <1> HIDE DEF expireTime, diff, diff0
  <1>8. /\ slot \in [Nodes -> (0..Wheels - 1) \cup {None}] /\ rotation \in [Nodes -> 0..Modulus - 1]
        /\ due \in [Nodes -> 0..MaxTime + MaxDelay + 1]
    BY DEF WheelInv, Exact, TypeOK
  <1>9. /\ slot'[n] = (index + diff0) % Wheels /\ due'[n] = expireTime /\ rotation'[n] = Rotation(diff0)
        /\ \A m \in Nodes \ {n} : slot'[m] = slot[m] /\ due'[m] = due[m] /\ rotation'[m] = rotation[m]
    BY <1>5, <1>8
  <1>10. Linked' = Linked \cup {n} /\ n \notin Linked
    BY <1>1, <1>6, <1>9, WheelBounds DEF Linked
  <1>11. IsFiniteSet(Linked') /\ nodeCount' = Cardinality(Linked')
    BY <1>5, <1>10, FS_AddElement, WheelBounds DEF WheelInv
  <1>12. TypeOK'
    <2>1. /\ slot' \in [Nodes -> (0..Wheels - 1) \cup {None}] /\ rotation' \in [Nodes -> 0..Modulus - 1]
          /\ due' \in [Nodes -> 0..MaxTime + MaxDelay + 1]
      BY <1>3, <1>5, <1>6, <1>8
    <2>2. lastTime' \in 0..MaxTime
      BY <1>2, <1>5, WheelBounds
    <2> QED BY <1>5, <1>11, <2>1, <2>2 DEF WheelInv, Exact, TypeOK
  <1>13. ASSUME NEW m \in Linked'
         PROVE  due'[m] = lastTime' - left' + rotation'[m] * Wheels + Turns(slot'[m], index')
    <2>1. CASE m = n
      <3>1. Rotation(diff0) * Wheels \in Int /\ Turns((index + diff0) % Wheels, index) \in Int
        BY <1>6, TurnsStep, WheelBounds
      <3> QED BY <1>1, <1>2, <1>3, <1>5, <1>6, <1>7, <1>9, <2>1, <3>1
    <2>2. CASE m # n
      <3>1. m \in Linked /\ m \in Nodes \ {n}
        BY <1>10, <2>2 DEF Linked
      <3>2. lastTime' = lastTime
        BY <1>2, <1>5, <3>1
      <3> QED BY <1>5, <1>9, <3>1, <3>2, DueLater
    <2> QED BY <2>1, <2>2
  <1>14. WheelInv'
    BY <1>1, <1>2, <1>5, <1>11, <1>12, <1>13, WheelBounds DEF WheelInv, Exact, Distance, Turns
  <1>15. slot'[n] # None
    BY <1>6, <1>9, WheelBounds
  <1>16. due'[n] \in Nat /\ due'[n] > lastTime' /\ due'[n] <= MaxTime + MaxDelay + 1
    BY <1>2, <1>3, <1>5, <1>9, WheelBounds
  <1>17. lastTime' = lastTime \/ (Linked = {} /\ lastTime' >= lastTime)
    BY <1>2, <1>5
  <1> QED
    BY <1>1, <1>9, <1>14, <1>15, <1>16, <1>17

\* A node is removed.
LEMMA RemoveNode ==
    ASSUME WheelInv, NEW n \in Nodes, RemoveTimenode(n)
    PROVE  /\ WheelInv'
           /\ slot[n] # None /\ slot'[n] = None /\ lastTime' = lastTime /\ left' = left /\ due' = due
           /\ \A m \in Nodes \ {n} : slot'[m] = slot[m]
  <1>1. slot \in [Nodes -> (0..Wheels - 1) \cup {None}]
    BY DEF WheelInv, Exact, TypeOK
  <1>2. /\ slot[n] # None /\ slot' = [slot EXCEPT ![n] = None] /\ nodeCount' = nodeCount - 1
        /\ UNCHANGED <<now, pc, left, index, lastTime, rotation, due>>
    BY DEF RemoveTimenode, loopVars
  <1>3. slot'[n] = None /\ \A m \in Nodes \ {n} : slot'[m] = slot[m]
    BY <1>1, <1>2
  <1>4. Linked' = Linked \ {n} /\ n \in Linked
    BY <1>2, <1>3 DEF Linked
  <1>5. IsFiniteSet(Linked') /\ nodeCount' = Cardinality(Linked')
    BY <1>2, <1>4, FS_RemoveElement, WheelBounds DEF WheelInv
  <1>6. TypeOK'
    <2>1. slot' \in [Nodes -> (0..Wheels - 1) \cup {None}]
      BY <1>1, <1>2
    <2> QED BY <1>2, <1>5, <2>1 DEF WheelInv, Exact, TypeOK
  <1>7. \A m \in Linked' : due'[m] = lastTime' - left' + rotation'[m] * Wheels + Distance(m)'
    <2>1. ASSUME NEW m \in Linked'
          PROVE  due'[m] = lastTime' - left' + rotation'[m] * Wheels + (((slot'[m] - index' - 1) % Wheels) + 1)
      <3>1. m \in Linked /\ slot'[m] = slot[m]
        BY <1>3, <1>4 DEF Linked
      <3>2. due[m] = lastTime - left + rotation[m] * Wheels + Distance(m)
        BY <3>1 DEF WheelInv, Exact
      <3> QED BY <1>2, <3>1, <3>2 DEF Distance
    <2> QED BY <2>1 DEF Distance
  <1> QED
    BY <1>2, <1>3, <1>5, <1>6, <1>7 DEF WheelInv, Exact

\* getTimeouts starts: what has to be turned is what the clock has advanced.
LEMMA StartTurns ==
    ASSUME WheelInv, GetTimeouts
    PROVE  /\ WheelInv'
           /\ lastTime' - left' = lastTime - left /\ slot' = slot /\ due' = due
  <1>1. left = 0 /\ lastTime \in Nat /\ now \in Nat /\ lastTime <= now /\ now < Modulus
    BY WheelBounds DEF GetTimeouts, WheelInv
  <1>2. left' = now - lastTime
    <2>1. /\ now - lastTime = Modulus * 0 + (now - lastTime) /\ now - lastTime \in 0..Modulus - 1
          /\ now - lastTime \in Int /\ Modulus \in Nat \ {0}
      BY <1>1, WheelBounds
    <2>2. (now - lastTime) % Modulus = now - lastTime
      BY ONLY <2>1, UniqueRemainder
    <2> QED BY <2>2 DEF GetTimeouts
  <1>3. lastTime' = now /\ now' = now /\ pc' = "turn" /\ index' = index /\ UNCHANGED nodeVars
    BY DEF GetTimeouts
  <1>4. lastTime' - left' = lastTime - left /\ left' <= lastTime' /\ left' \in 0..Modulus - 1
    BY <1>1, <1>2, <1>3, WheelBounds
  <1>5. Linked' = Linked
    BY <1>3 DEF Linked, nodeVars
  <1>6. TypeOK'
    BY <1>3, <1>4, <1>5 DEF WheelInv, Exact, TypeOK, nodeVars
  <1>7. \A m \in Linked : due'[m] = lastTime' - left' + rotation'[m] * Wheels + Distance(m)'
    BY <1>3, <1>4 DEF WheelInv, Exact, Distance, nodeVars
  <1> QED
    BY <1>1, <1>3, <1>4, <1>5, <1>6, <1>7 DEF WheelInv, Exact, nodeVars

\* A turn gives out the nodes that are due, and no other.
LEMMA TurnStep ==
    ASSUME WheelInv, Turn
    PROVE  /\ WheelInv'
           /\ lastTime' - left' = lastTime - left + 1 /\ due' = due
           /\ \A n \in Linked : slot'[n] = IF due[n] = lastTime - left + 1 THEN None ELSE slot[n]
           /\ \A n \in Nodes \ Linked : slot'[n] = None
  <1> DEFINE here == {n \in Linked : slot[n] = index'}
             expired == {n \in here : rotation[n] = 0}
  <1>1. /\ pc = "turn" /\ left > 0 /\ left' = left - 1 /\ index' = (index + 1) % Wheels
        /\ slot' = [n \in Nodes |-> IF n \in expired THEN None ELSE slot[n]]
        /\ rotation' = [n \in Nodes |-> IF n \in here \ expired THEN rotation[n] - 1 ELSE rotation[n]]
        /\ nodeCount' = nodeCount - Cardinality(expired)
        /\ UNCHANGED <<now, pc, lastTime, due>>
    BY DEF Turn
  <1>2. expired \subseteq Linked /\ expired \subseteq Nodes
    BY DEF Linked
  <1>3. index' \in 0..Wheels - 1
    BY <1>1, TurnsStep, WheelBounds
  <1>4. ASSUME NEW n \in Linked PROVE n \in expired <=> due[n] = lastTime - left + 1
    <2>1. /\ due[n] = lastTime - left + rotation[n] * Wheels + Turns(slot[n], index)
          /\ Turns(slot[n], index) \in 1..Wheels
          /\ rotation[n] * Wheels \in Nat /\ (rotation[n] # 0 => rotation[n] * Wheels >= Wheels)
      BY DueLater
    <2>2. slot[n] = index' => Turns(slot[n], index) = 1
      BY <1>1, TurnsStep, WheelBounds
    <2>3. slot[n] # index' => Turns(slot[n], index) # 1
      <3>1. slot[n] # index' => Turns(slot[n], index') = Turns(slot[n], index) - 1
        BY <1>1, TurnsStep, WheelBounds
      <3>2. Turns(slot[n], index') \in 1..Wheels
        BY <1>3, TurnsStep, WheelBounds
      <3> QED BY <3>1, <3>2
    <2>4. rotation[n] = 0 => rotation[n] * Wheels = 0
      BY WheelBounds
    <2>5. lastTime - left \in Int /\ Wheels \in Nat \ {0}
      BY WheelBounds
    <2>6. due[n] = lastTime - left + 1 <=> rotation[n] * Wheels + Turns(slot[n], index) = 1
      BY <2>1, <2>5
    <2>7. rotation[n] * Wheels + Turns(slot[n], index) = 1 <=> rotation[n] = 0 /\ Turns(slot[n], index) = 1
      BY <2>1, <2>4, <2>5
    <2> QED BY <2>2, <2>3, <2>6, <2>7
  <1> HIDE DEF expired
  <1>5. Linked' = Linked \ expired
    BY <1>1, <1>2 DEF Linked
  <1>6. IsFiniteSet(Linked') /\ nodeCount' = Cardinality(Linked')
    <2>1. IsFiniteSet(Linked)
      BY DEF WheelInv
    <2>2. Linked \cap expired = expired
      BY <1>2
    <2>3. /\ IsFiniteSet(Linked \ expired)
          /\ Cardinality(Linked \ expired) = Cardinality(Linked) - Cardinality(Linked \cap expired)
      BY <2>1, FS_Difference
    <2> QED BY <1>1, <1>5, <2>2, <2>3, WheelBounds
  <1>7. ASSUME NEW n \in Linked'
        PROVE  /\ n \in Nodes /\ slot'[n] = slot[n] /\ rotation'[n] \in 0..Modulus - 1
               /\ due[n] = lastTime - (left - 1) + rotation'[n] * Wheels + Turns(slot[n], index')
    <2>1. n \in Linked /\ n \notin expired /\ n \in Nodes /\ slot'[n] = slot[n]
      BY <1>1, <1>5 DEF Linked
    <2>2. /\ due[n] = lastTime - left + rotation[n] * Wheels + Turns(slot[n], index)
          /\ rotation[n] * Wheels \in Nat
      BY <2>1, DueLater
    <2>3. rotation[n] \in 0..Modulus - 1
      BY <2>1 DEF WheelInv, Exact, TypeOK
    <2>4. CASE slot[n] = index'
      <3>1. rotation[n] # 0 /\ rotation'[n] = rotation[n] - 1
        BY <1>1, <2>1, <2>4 DEF expired
      <3>2. Turns(slot[n], index) = 1 /\ Turns(slot[n], index') = Wheels
        BY <1>1, <2>1, <2>4, TurnsStep, WheelBounds
      <3>3. rotation'[n] * Wheels = rotation[n] * Wheels - Wheels
        BY <2>3, <3>1, WheelBounds
      <3>4. due[n] = lastTime - (left - 1) + rotation'[n] * Wheels + Turns(slot[n], index')
        BY <2>2, <3>2, <3>3, WheelBounds
      <3>5. rotation'[n] \in 0..Modulus - 1
        BY <2>3, <3>1, WheelBounds
      <3> QED BY <2>1, <3>4, <3>5
    <2>5. CASE slot[n] # index'
      <3>1. rotation'[n] = rotation[n]
        BY <1>1, <2>1, <2>5
      <3>2. Turns(slot[n], index') = Turns(slot[n], index) - 1 /\ Turns(slot[n], index) \in 1..Wheels
        BY <1>1, <2>1, <2>5, TurnsStep, WheelBounds
      <3>3. due[n] = lastTime - (left - 1) + rotation'[n] * Wheels + Turns(slot[n], index')
        BY <2>2, <3>1, <3>2, WheelBounds
      <3> QED BY <2>1, <2>3, <3>1, <3>3
    <2> QED BY <2>4, <2>5
  <1>8. TypeOK'
    <2>1. slot' \in [Nodes -> (0..Wheels - 1) \cup {None}]
      BY <1>1 DEF WheelInv, Exact, TypeOK
    <2>2. ASSUME NEW n \in Nodes PROVE rotation'[n] \in 0..Modulus - 1
      <3>1. CASE n \in here \ expired
        <4>1. rotation[n] # 0 /\ rotation[n] \in 0..Modulus - 1
          BY <3>1 DEF expired, WheelInv, Exact, TypeOK
        <4>2. rotation'[n] = rotation[n] - 1
          BY <1>1, <3>1, Zenon
        <4>3. Modulus \in Nat
          BY WheelBounds
        <4> QED BY <4>1, <4>2, <4>3
      <3>2. CASE n \notin here \ expired
        BY <1>1, <3>2 DEF WheelInv, Exact, TypeOK
      <3> QED BY <3>1, <3>2
    <2>3. rotation' \in [Nodes -> 0..Modulus - 1]
      BY <1>1, <2>2
    <2>4. left' \in 0..Modulus - 1
      BY <1>1, WheelBounds
    <2> QED BY <1>1, <1>3, <1>6, <2>1, <2>3, <2>4 DEF WheelInv, Exact, TypeOK
  <1>9. \A n \in Linked' : due'[n] = lastTime' - left' + rotation'[n] * Wheels + Distance(n)'
    BY <1>1, <1>7 DEF Distance, Turns
  <1>10. left' <= lastTime' /\ lastTime' <= now' /\ (pc' = "idle" => left' = 0)
    BY <1>1, WheelBounds DEF WheelInv
  <1>11. lastTime' - left' = lastTime - left + 1
    BY <1>1, WheelBounds
  <1>12. \A n \in Linked : slot'[n] = IF due[n] = lastTime - left + 1 THEN None ELSE slot[n]
    BY <1>1, <1>4 DEF Linked
  <1>13. \A n \in Nodes \ Linked : slot'[n] = None
    BY <1>1, <1>2 DEF Linked
  <1> QED
    BY <1>1, <1>6, <1>8, <1>9, <1>10, <1>11, <1>12, <1>13 DEF WheelInv, Exact

\* getTimeouts ends, or the clock goes on.
LEMMA RestOfWheel ==
    ASSUME WheelInv, Return \/ Tick \/ UNCHANGED vars
    PROVE  /\ WheelInv' /\ slot' = slot /\ due' = due
           /\ lastTime' - left' = lastTime - left \/ (Linked = {} /\ lastTime' - left' >= lastTime - left)
  <1>1. /\ UNCHANGED <<index, lastTime, nodeCount, slot, rotation, due>>
        /\ now' \in 0..MaxTime /\ now' >= now /\ pc' \in {"idle", "turn"} /\ (pc' = "idle" => left' = 0)
        /\ left' = left \/ (left' = 0 /\ nodeCount = 0)
    <2>1. now \in 0..MaxTime /\ pc \in {"idle", "turn"} /\ (pc = "idle" => left = 0) /\ now \in Nat
      BY WheelBounds DEF WheelInv, Exact, TypeOK
    <2>2. CASE Return
      BY <2>1, <2>2 DEF Return, nodeVars
    <2>3. CASE Tick
      <3>1. now' \in 0..MaxTime /\ now' >= now
        BY <2>1, <2>3, WheelBounds DEF Tick
      <3> QED BY <2>1, <2>3, <3>1 DEF Tick, loopVars, nodeVars
    <2>4. CASE UNCHANGED vars
      BY <2>1, <2>4 DEF vars, loopVars, nodeVars
    <2> QED BY <2>2, <2>3, <2>4
  <1>2. Linked' = Linked
    BY <1>1 DEF Linked
  <1>3. left' = left \/ (left' = 0 /\ Linked = {})
    BY <1>1, WheelBounds
  <1>4. left' \in 0..Modulus - 1 /\ left' <= lastTime'
    BY <1>1, <1>3, WheelBounds DEF WheelInv
  <1>5. TypeOK'
    BY <1>1, <1>2, <1>4 DEF WheelInv, Exact, TypeOK
  <1>6. \A n \in Linked' : due'[n] = lastTime' - left' + rotation'[n] * Wheels + Distance(n)'
    BY <1>1, <1>2, <1>3 DEF WheelInv, Exact, Distance
  <1>7. lastTime' <= now'
    BY <1>1, WheelBounds DEF WheelInv
  <1>8. lastTime' - left' = lastTime - left \/ (Linked = {} /\ lastTime' - left' >= lastTime - left)
    BY <1>1, <1>3, WheelBounds
  <1> QED
    BY <1>1, <1>2, <1>4, <1>5, <1>6, <1>7, <1>8 DEF WheelInv, Exact

LEMMA NextWheel == WheelInv /\ [Next]_vars => WheelInv'
  <1> SUFFICES ASSUME WheelInv, [Next]_vars PROVE WheelInv'
    OBVIOUS
  <1> QED
    BY AddNode, RemoveNode, StartTurns, TurnStep, RestOfWheel DEF Next

\* The places and rounds of nodes say exactly when they expire, for wheels of any size, whatever
\* delays nodes are added with and however late getTimeouts is called.
THEOREM WheelIsExact == BlocksSpec => []Exact
  <1>1. Init => WheelInv
    BY InitWheel
  <1>2. WheelInv /\ [Next]_vars => WheelInv'
    BY NextWheel
  <1>3. WheelInv => Exact
    BY DEF WheelInv
  <1> QED
    BY <1>1, <1>2, <1>3, Parts, PTL

\* What the abstract set of deadlines sees of the wheel.
Clock == lastTime - left
Deadline == [n \in Nodes |-> IF n \in Linked THEN due[n] ELSE None]

\* No time is None.
LEMMA NoneIsNoTime ==
    ASSUME WheelInv
    PROVE  /\ \A n \in Nodes : Deadline[n] = IF slot[n] # None THEN due[n] ELSE None
           /\ \A n \in Nodes : Deadline[n] = None <=> n \notin Linked
  BY WheelBounds, WheelsAssumption DEF Deadline, Linked

\* Every step of the wheel is one of the set of deadlines.
LEMMA WheelStep ==
    ASSUME WheelInv, WheelInv', [Next]_vars
    PROVE  [Deadlines!Next]_<<Clock, Deadline>>
  <1>1. /\ \A n \in Nodes : Deadline[n] = IF slot[n] # None THEN due[n] ELSE None
        /\ \A n \in Nodes : Deadline[n] = None <=> n \notin Linked
        /\ \A n \in Nodes : Deadline'[n] = IF slot'[n] # None THEN due'[n] ELSE None
    BY NoneIsNoTime, WheelBounds, WheelsAssumption DEF Deadline, Linked
  <1>2. /\ Deadline = [n \in Nodes |-> Deadline[n]]
        /\ Deadline' = [n \in Nodes |-> Deadline'[n]]
    BY DEF Deadline
  <1>3. ASSUME NEW n \in Nodes, NEW ms \in 0..MaxDelay, AddTimenode(n, ms) PROVE Deadlines!Add(n)
    <2>1. Deadline[n] = None /\ Deadline'[n] = due'[n] /\ \A m \in Nodes \ {n} : Deadline'[m] = Deadline[m]
      BY <1>1, <1>3, AddNode
    <2>2. Deadline' = [Deadline EXCEPT ![n] = due'[n]]
      BY <1>2, <2>1
    <2>3. /\ left = 0 /\ left' = 0
          /\ lastTime' = lastTime \/ (Linked = {} /\ lastTime' >= lastTime)
          /\ due'[n] \in Nat /\ due'[n] > lastTime' /\ due'[n] <= MaxTime + MaxDelay + 1
      <3>1. left' = left
        BY <1>3 DEF AddTimenode, loopVars
      <3> QED BY <1>3, <3>1, AddNode
    <2>4. Clock' = lastTime' /\ Clock = lastTime /\ lastTime' \in Nat /\ lastTime \in Nat
      <3>1. lastTime \in Nat /\ MaxTime \in Nat
        BY WheelBounds
      <3>2. lastTime' \in Nat
        BY <3>1 DEF WheelInv, Exact, TypeOK
      <3>3. \A t \in Nat : t - 0 = t
        OBVIOUS
      <3>4. Clock' = lastTime' - 0 /\ Clock = lastTime - 0
        BY <2>3 DEF Clock
      <3> QED BY <3>1, <3>2, <3>3, <3>4
    <2>5. Clock' = Clock \/ ((\A m \in Nodes : Deadline[m] = None) /\ Clock' > Clock)
      <3>1. Linked = {} => \A m \in Nodes : Deadline[m] = None
        BY <1>1
      <3>2. lastTime' >= lastTime /\ lastTime' # lastTime => lastTime' > lastTime
        BY <2>4
      <3> QED BY <2>3, <2>4, <3>1, <3>2
    <2>6. due'[n] \in 0..MaxTime + MaxDelay + 1 /\ due'[n] > Clock'
      BY <2>3, <2>4, WheelBounds
    <2> QED BY <2>1, <2>2, <2>5, <2>6 DEF Deadlines!Add, Deadlines!Jump, Deadlines!Empty, Clock, Deadline
  <1>4. ASSUME NEW n \in Nodes, RemoveTimenode(n) PROVE Deadlines!Remove(n)
    <2>1. Deadline[n] # None /\ Deadline'[n] = None /\ \A m \in Nodes \ {n} : Deadline'[m] = Deadline[m]
      <3>1. /\ slot[n] # None /\ slot'[n] = None /\ due' = due
            /\ \A m \in Nodes \ {n} : slot'[m] = slot[m]
        BY <1>4, RemoveNode
      <3>2. due[n] # None
        BY WheelBounds, WheelsAssumption
      <3> QED BY <1>1, <3>1, <3>2
    <2>2. Deadline' = [Deadline EXCEPT ![n] = None]
      BY <1>2, <2>1
    <2>3. Clock' = Clock
      BY <1>4, RemoveNode DEF Clock
    <2> QED BY <2>1, <2>2, <2>3 DEF Deadlines!Remove, Clock, Deadline
  <1>5. ASSUME Turn PROVE Deadlines!Advance
    <2>1. Clock' = Clock + 1 /\ Clock \in Int
      BY <1>5, TurnStep, WheelBounds DEF Clock
    <2>2. ASSUME NEW n \in Nodes
          PROVE  Deadline'[n] = IF Deadline[n] = Clock' THEN None ELSE Deadline[n]
      <3>1. due'[n] = due[n] /\ None \notin Nat
        BY <1>5, TurnStep, WheelsAssumption
      <3>2. CASE n \in Linked
        <4>1. slot'[n] = IF due[n] = Clock' THEN None ELSE slot[n]
          BY <1>5, <2>1, <3>2, TurnStep DEF Clock
        <4>2. slot[n] # None
          BY <3>2 DEF Linked
        <4> QED BY <1>1, <3>1, <4>1, <4>2
      <3>3. CASE n \notin Linked
        <4>1. slot'[n] = None
          BY <1>5, <3>3, TurnStep
        <4> QED BY <1>1, <3>3, <4>1
      <3> QED BY <3>2, <3>3
    <2>3. Deadline' = [n \in Nodes |-> IF Deadline[n] = Clock' THEN None ELSE Deadline[n]]
      BY <1>2, <2>2
    <2> QED BY <2>1, <2>3 DEF Deadlines!Advance, Clock, Deadline
  <1>6. ASSUME GetTimeouts \/ Return \/ Tick \/ UNCHANGED vars
        PROVE  Deadlines!Skip
    <2>1. slot' = slot /\ due' = due
      BY <1>6, StartTurns, RestOfWheel
    <2>2. Deadline' = Deadline
      BY <2>1 DEF Deadline, Linked
    <2>3. Clock' = Clock \/ ((\A m \in Nodes : Deadline[m] = None) /\ Clock' >= Clock)
      <3>1. CASE GetTimeouts
        BY <3>1, StartTurns DEF Clock
      <3>2. CASE Return \/ Tick \/ UNCHANGED vars
        BY <1>1, <3>2, RestOfWheel DEF Clock
      <3> QED BY <1>6, <3>1, <3>2
    <2>4. Clock \in Int /\ Clock' \in Int
      <3>1. lastTime \in Int /\ left \in Int /\ lastTime' \in Int /\ left' \in Int
        BY TimeAssumption DEF WheelInv, Exact, TypeOK
      <3> QED BY <3>1 DEF Clock
    <2>5. Clock' = Clock \/ ((\A m \in Nodes : Deadline[m] = None) /\ Clock' > Clock)
      BY <2>3, <2>4
    <2> QED BY <2>2, <2>5 DEF Deadlines!Skip, Deadlines!Jump, Deadlines!Empty, Clock, Deadline
  <1> QED
    BY <1>3, <1>4, <1>5, <1>6 DEF Next, Deadlines!Next

\* The wheel implements the set of deadlines: it gives out each node at exactly its deadline, and
\* its time jumps only while it is empty.
THEOREM WheelImplementsDeadlines == BlocksSpec => OnDeadline
  <1>1. Init => WheelInv
    BY InitWheel
  <1>2. WheelInv /\ [Next]_vars => WheelInv'
    BY NextWheel
  <1>3. Init => Deadlines!Init
    BY DEF Init, Deadlines!Init, Deadlines!Empty, Linked
  <1>4. WheelInv /\ WheelInv' /\ [Next]_vars => [Deadlines!Next]_(Deadlines!vars)
    BY WheelStep DEF Deadlines!vars, Clock, Deadline
  <1> QED
    BY <1>1, <1>2, <1>3, <1>4, Parts, PTL DEF OnDeadline, Deadlines!Spec
-----------------------------------------------------------------------------
(***************************************************************************)
(* buffer (buffer.cpp).                                                    *)
(***************************************************************************)
Byte == 0..Period - 1

BufferInv ==
    /\ cells \in Seq(Byte \cup {Junk}) /\ unread \in Seq(Byte)
    /\ begin \in Nat /\ end \in Nat /\ begin <= end /\ end <= Len(cells)
    /\ Bu!Content = unread
    /\ Len(cells) >= kCheapPrepend + kInitialSize

\* The assumption about the buffer's constants.
LEMMA BufferConstants ==
    /\ kCheapPrepend \in Nat /\ kInitialSize \in Nat /\ Period \in Nat \ {0}
    /\ MaxCall \in Nat /\ MaxUsed \in Nat
  BY BlocksAssumption DEF Bu!BufferAssumption

\* Content is what lies between the two indices, and no longer than they are apart.
LEMMA BufferBounds ==
    ASSUME BufferInv
    PROVE  /\ Bu!Size \in Nat /\ Bu!Left \in Nat /\ Bu!Used \in Nat /\ Bu!Size = Len(cells)
           /\ begin + Bu!Used = end /\ end + Bu!Left = Bu!Size
           /\ Bu!Used = Len(unread) /\ Bu!Content = unread
  <1>1. Len(cells) \in Nat
    BY DEF BufferInv
  <1>2. \A q \in Seq(Byte \cup {Junk}) : \A j, k \in Nat :
            j <= k /\ k <= Len(q) => Len(SubSeq(q, j + 1, k)) = k - j
    OBVIOUS
  <1>3. Len(Bu!Content) = end - begin
    BY <1>2 DEF BufferInv, Bu!Content
  <1> QED
    BY <1>1, <1>3 DEF BufferInv, Bu!Size, Bu!Left, Bu!Used

\* What Set puts into the cells is then the content.
LEMMA SetStep ==
    ASSUME NEW bytes \in Seq(Byte), NEW at \in Nat, NEW size \in Nat,
           at + Len(bytes) <= size, size >= kCheapPrepend + kInitialSize,
           Bu!Set(bytes, at, size), unread' = bytes
    PROVE  BufferInv'
  <1>1. /\ cells' = [k \in 1..size |-> IF k \in at + 1..at + Len(bytes) THEN bytes[k - at] ELSE Junk]
        /\ begin' = at /\ end' = at + Len(bytes)
    BY DEF Bu!Set
  <1> DEFINE c == [k \in 1..size |-> IF k \in at + 1..at + Len(bytes) THEN bytes[k - at] ELSE Junk]
             l == Len(bytes)
  <1>2. l \in Nat /\ \A k \in 1..l : bytes[k] \in Byte
    OBVIOUS
  <1>3. \A k \in 1..size : c[k] \in Byte \cup {Junk}
    BY <1>2
  <1>4. c \in Seq(Byte \cup {Junk}) /\ Len(c) = size
    BY <1>3
  <1>5. \A k \in 1..l : c[at + k] = bytes[k]
    BY <1>2
  <1> HIDE DEF c, l
  <1>6. SubSeq(c, at + 1, at + l) = bytes
    <2> DEFINE s == SubSeq(c, at + 1, at + l)
    <2>1. \A q \in Seq(Byte \cup {Junk}) : \A j, n \in Nat : j + n <= Len(q) =>
              /\ SubSeq(q, j + 1, j + n) \in Seq(Byte \cup {Junk})
              /\ Len(SubSeq(q, j + 1, j + n)) = n
              /\ \A k \in 1..n : SubSeq(q, j + 1, j + n)[k] = q[j + k]
      OBVIOUS
    <2>2. s \in Seq(Byte \cup {Junk}) /\ Len(s) = l /\ \A k \in 1..l : s[k] = c[at + k]
      BY <1>2, <1>4, <2>1 DEF l
    <2>3. bytes \in Seq(Byte \cup {Junk}) /\ Len(bytes) = l
      BY DEF l
    <2> HIDE DEF s
    <2>4. \A k \in 1..l : s[k] = bytes[k]
      BY <1>5, <2>2
    <2>5. s = bytes
      BY <2>2, <2>3, <2>4, SameSeq
    <2> QED BY <2>5 DEF s
  <1>7. cells' = c /\ begin' = at /\ end' = at + l
    BY <1>1 DEF c, l
  <1> QED
    BY <1>2, <1>4, <1>6, <1>7 DEF BufferInv, Bu!Content, l

\* The fresh bytes are bytes.
LEMMA FreshBytes ==
    ASSUME BufferInv, NEW n \in Nat
    PROVE  Bu!Fresh(n) \in Seq(Byte) /\ Len(Bu!Fresh(n)) = n
  <1> DEFINE last == IF unread = <<>> THEN 0 ELSE unread[Len(unread)]
  <1>1. last \in Nat
    BY BufferConstants DEF BufferInv, Byte
  <1> HIDE DEF last
  <1>2. \A k \in 1..n : (k + last) % Period \in Byte
    BY <1>1, BufferConstants DEF Byte
  <1>3. Bu!Fresh(n) = [k \in 1..n |-> (k + last) % Period]
    BY DEF Bu!Fresh, last
  <1> QED
    BY <1>2, <1>3

\* ensureLeftBytes(n), when the content ends left cells before the end, leaves room for n bytes.
LEMMA ExtendStep ==
    ASSUME BufferInv, NEW content \in Seq(Byte), NEW room \in Nat, NEW n \in Nat,
           NEW bytes \in Seq(Byte), Len(bytes) <= n,
           begin + Len(content) + room = Bu!Size,
           Bu!Extend(content, room, n, bytes), unread' = content \o bytes
    PROVE  BufferInv'
  <1>1. /\ content \o bytes \in Seq(Byte)
        /\ Len(content \o bytes) = Len(content) + Len(bytes)
        /\ Len(content) \in Nat /\ Len(bytes) \in Nat
    OBVIOUS
  <1>2. /\ begin \in Nat /\ Bu!Size \in Nat /\ Bu!Size >= kCheapPrepend + kInitialSize
        /\ kCheapPrepend \in Nat /\ kInitialSize \in Nat
    BY BufferBounds, BufferConstants DEF BufferInv
  <1> DEFINE all == content \o bytes
             sum == begin + Len(content) + n
  <1>3. CASE room >= n
    <2>1. Bu!Set(all, begin, Bu!Size) /\ begin + Len(all) <= Bu!Size
      BY <1>1, <1>2, <1>3 DEF Bu!Extend
    <2> HIDE DEF all
    <2> QED BY <1>1, <1>2, <2>1, SetStep DEF all
  <1>4. CASE room < n /\ Bu!Moves(room, n)
    <2>1. Bu!Set(all, kCheapPrepend, Bu!Size)
      BY <1>2, <1>4 DEF Bu!Extend
    <2>2. kCheapPrepend + Len(all) <= Bu!Size
      BY <1>1, <1>2, <1>4 DEF Bu!Moves
    <2> HIDE DEF all
    <2> QED BY <1>1, <1>2, <2>1, <2>2, SetStep DEF all
  <1>5. CASE room < n /\ ~Bu!Moves(room, n)
    <2>1. Bu!Set(all, begin, sum)
      BY <1>2, <1>5 DEF Bu!Extend
    <2>2. begin + Len(all) <= sum /\ sum \in Nat /\ sum >= kCheapPrepend + kInitialSize
      BY <1>1, <1>2, <1>5
    <2> HIDE DEF all, sum
    <2> QED BY <1>1, <1>2, <2>1, <2>2, SetStep DEF all
  <1> QED
    BY <1>2, <1>3, <1>4, <1>5

LEMMA InitBuffer == Bu!Init => BufferInv
  <1> SUFFICES ASSUME Bu!Init PROVE BufferInv
    OBVIOUS
  <1> DEFINE size == kCheapPrepend + kInitialSize
             c == [k \in 1..size |-> Junk]
  <1>1. cells = c /\ begin = kCheapPrepend /\ end = kCheapPrepend /\ unread = <<>>
    BY DEF Bu!Init
  <1>2. size \in Nat /\ kCheapPrepend \in Nat /\ kCheapPrepend <= size
    BY BufferConstants
  <1>3. c \in Seq(Byte \cup {Junk}) /\ Len(c) = size
    BY <1>2
  <1>4. \A q \in Seq(Byte \cup {Junk}) : \A j \in Nat : SubSeq(q, j + 1, j) = <<>>
    <2> SUFFICES ASSUME NEW q \in Seq(Byte \cup {Junk}), NEW j \in Nat PROVE SubSeq(q, j + 1, j) = <<>>
      OBVIOUS
    <2>1. SubSeq(q, j + 1, j) \in Seq(Byte \cup {Junk}) /\ Len(SubSeq(q, j + 1, j)) = 0
      OBVIOUS
    <2> QED BY <2>1
  <1> HIDE DEF c
  <1>5. <<>> \in Seq(Byte)
    OBVIOUS
  <1> QED
    BY <1>1, <1>2, <1>3, <1>4, <1>5 DEF BufferInv, Bu!Content

LEMMA NextBuffer == BufferInv /\ [Bu!Next]_buVars => BufferInv'
  <1> SUFFICES ASSUME BufferInv, [Bu!Next]_buVars PROVE BufferInv'
    OBVIOUS
  <1>1. CASE UNCHANGED buVars
    BY <1>1 DEF buVars, BufferInv, Bu!Content
  <1>2. ASSUME NEW n \in 1..MaxCall,
               \/ Bu!EnsureLeftBytes(n) \/ Bu!AppendBytes(n) \/ Bu!ReadFd(n) \/ Bu!Prepend(n)
               \/ Bu!Retrieve(n) \/ Bu!UnUsed(n)
        PROVE  BufferInv'
    <2>1. n \in Nat /\ unread \in Seq(Byte) /\ Len(unread) \in Nat /\ begin \in Nat /\ end \in Nat
      BY BufferConstants DEF BufferInv
    <2> DEFINE F == Bu!Fresh(n)
    <2>2. F \in Seq(Byte) /\ Len(F) = n
      BY <2>1, FreshBytes
    <2>3. /\ Bu!Size \in Nat /\ Bu!Left \in Nat /\ Bu!Used \in Nat /\ Bu!Content = unread
          /\ begin + Bu!Used = end /\ end + Bu!Left = Bu!Size /\ Bu!Used = Len(unread)
          /\ Bu!Size >= kCheapPrepend + kInitialSize
      BY BufferBounds DEF BufferInv
    <2> HIDE DEF F
    <2>4. CASE Bu!EnsureLeftBytes(n)
      <3>1. <<>> \in Seq(Byte) /\ Len(<<>>) <= n /\ unread' = unread \o <<>>
        BY <2>1, <2>4 DEF Bu!EnsureLeftBytes
      <3>2. Bu!Extend(unread, Bu!Left, n, <<>>)
        BY <2>3, <2>4 DEF Bu!EnsureLeftBytes
      <3>3. begin + Len(unread) + Bu!Left = Bu!Size
        BY <2>3
      <3> QED BY <2>1, <2>3, <3>1, <3>2, <3>3, ExtendStep
    <2>5. CASE Bu!AppendBytes(n)
      <3>1. unread' = unread \o F /\ Bu!Extend(unread, Bu!Left, n, F)
        BY <2>3, <2>5 DEF Bu!AppendBytes, F
      <3>2. begin + Len(unread) + Bu!Left = Bu!Size /\ Len(F) <= n
        BY <2>2, <2>3
      <3> QED BY <2>1, <2>2, <2>3, <3>1, <3>2, ExtendStep
    <2>6. CASE Bu!ReadFd(n)
      <3> DEFINE fit == IF n <= Bu!Left THEN n ELSE Bu!Left
                 p == SubSeq(F, 1, fit)
                 r == SubSeq(F, fit + 1, n)
      <3>1. unread' = unread \o F /\ Bu!Extend(unread \o p, Bu!Left - fit, n - fit, r)
        BY <2>3, <2>6 DEF Bu!ReadFd, F
      <3>2. fit \in 0..n /\ fit <= Bu!Left
        BY <2>1, <2>3
      <3> HIDE DEF fit
      <3>3. /\ p \in Seq(Byte) /\ Len(p) = fit /\ r \in Seq(Byte) /\ Len(r) = n - fit
            /\ p \o r = F
        BY <2>2, <3>2, SplitAt
      <3> HIDE DEF p, r
      <3>4. (unread \o p) \o r = unread \o F
        <4>1. unread \in Seq(Byte) /\ p \in Seq(Byte) /\ r \in Seq(Byte)
          BY <2>1, <3>3
        <4>2. (unread \o p) \o r = unread \o (p \o r)
          BY ONLY <4>1, ConcatAssoc
        <4> QED BY <3>3, <4>2
      <3>5. unread \o p \in Seq(Byte) /\ Len(unread \o p) = Len(unread) + fit
        BY <2>1, <3>3, ConcatAt
      <3>6. /\ Bu!Left - fit \in Nat /\ n - fit \in Nat /\ Len(r) <= n - fit
            /\ begin + Len(unread \o p) + (Bu!Left - fit) = Bu!Size
        <4> DEFINE l == Len(unread \o p)
        <4>1. l = Len(unread) + fit /\ fit \in Nat
          BY <2>1, <3>2, <3>5
        <4> HIDE DEF l
        <4>2. begin + l + (Bu!Left - fit) = Bu!Size
          BY <2>1, <2>3, <4>1
        <4>3. Bu!Left - fit \in Nat /\ n - fit \in Nat
          BY <2>1, <2>3, <3>2
        <4> QED BY <3>3, <4>2, <4>3 DEF l
      <3>7. unread' = (unread \o p) \o r
        BY <3>1, <3>4
      <3> QED BY <3>1, <3>3, <3>5, <3>6, <3>7, ExtendStep
    <2>7. CASE Bu!Prepend(n)
      <3>1. n <= begin /\ unread' = F \o unread /\ Bu!Set(F \o unread, begin - n, Bu!Size)
        BY <2>3, <2>7 DEF Bu!Prepend, F
      <3>2. F \o unread \in Seq(Byte) /\ Len(F \o unread) = n + Len(unread)
        BY <2>1, <2>2, ConcatAt
      <3>3. begin - n \in Nat /\ (begin - n) + Len(F \o unread) <= Bu!Size
        BY <2>1, <2>3, <3>1, <3>2
      <3> QED BY <2>3, <3>1, <3>2, <3>3, SetStep
    <2>8. CASE Bu!Retrieve(n)
      <3> DEFINE r == SubSeq(unread, n + 1, Len(unread))
      <3>1. n <= Len(unread) /\ unread' = r
        BY <2>3, <2>8 DEF Bu!Retrieve
      <3>2. r \in Seq(Byte) /\ Len(r) = Len(unread) - n
        BY <2>1, <3>1, SplitAt
      <3>3. CASE n < Len(unread)
        <4>1. Bu!Set(r, begin + n, Bu!Size)
          BY <2>3, <2>8, <3>3 DEF Bu!Retrieve
        <4> HIDE DEF r
        <4>2. begin + n \in Nat /\ (begin + n) + Len(r) <= Bu!Size
          BY <2>1, <2>3, <3>1, <3>2
        <4> QED BY <2>3, <3>1, <3>2, <4>1, <4>2, SetStep
      <3>4. CASE n = Len(unread)
        <4>1. Bu!Set(<<>>, kCheapPrepend, Bu!Size)
          BY <2>1, <2>3, <2>8, <3>4 DEF Bu!Retrieve
        <4> HIDE DEF r
        <4>2. <<>> \in Seq(Byte) /\ Len(<<>>) = 0
          OBVIOUS
        <4>3. Len(r) = 0
          BY <2>1, <3>2, <3>4
        <4>4. unread' = <<>>
          BY <3>1, <3>2, <4>3
        <4>5. kCheapPrepend \in Nat /\ kCheapPrepend + Len(<<>>) <= Bu!Size
          BY <2>3, <4>2, BufferConstants
        <4> QED BY <2>3, <4>1, <4>2, <4>4, <4>5, SetStep
      <3> HIDE DEF r
      <3> QED BY <2>1, <3>1, <3>3, <3>4
    <2>9. CASE Bu!UnUsed(n)
      <3> DEFINE m == Len(unread) - n
                 r == SubSeq(unread, 1, m)
      <3>1. n <= Len(unread) /\ unread' = r /\ Bu!Set(r, begin, Bu!Size)
        BY <2>3, <2>9 DEF Bu!UnUsed
      <3>2. m \in 0..Len(unread)
        BY <2>1, <3>1
      <3> HIDE DEF m
      <3>3. r \in Seq(Byte) /\ Len(r) = m
        BY <2>1, <3>2, SplitAt
      <3> HIDE DEF r
      <3>4. begin + Len(r) <= Bu!Size
        BY <2>1, <2>3, <3>2, <3>3
      <3> QED BY <2>1, <2>3, <3>1, <3>3, <3>4, SetStep
    <2> QED BY <1>2, <2>4, <2>5, <2>6, <2>7, <2>8, <2>9
  <1> QED
    BY <1>1, <1>2 DEF Bu!Next

LEMMA BufferInvIsIntact == BufferInv => BufferIntact
  <1> SUFFICES ASSUME BufferInv PROVE BufferIntact
    OBVIOUS
  <1>1. 0 <= begin /\ begin <= end /\ end <= Bu!Size /\ Bu!Content = unread
    BY DEF BufferInv, Bu!Size
  <1>2. ASSUME NEW n \in 1..MaxCall, Bu!Left < n, Bu!Moves(Bu!Left, n) PROVE kCheapPrepend < begin
    <2>1. Bu!Left \in Nat /\ begin \in Nat /\ kCheapPrepend \in Nat /\ n \in Nat
      BY BufferBounds, BufferConstants DEF BufferInv
    <2> QED BY <1>2, <2>1 DEF Bu!Moves
  <1> QED
    BY <1>1, <1>2 DEF BufferIntact, Bu!BufferIntact

\* The buffer holds what was appended, read and prepended and not retrieved yet, in order, for any
\* initial sizes and lengths, however it grew and moved.
THEOREM BufferIsIntact == BlocksSpec => []BufferIntact
  <1>1. Bu!Init => BufferInv
    BY InitBuffer
  <1>2. BufferInv /\ [Bu!Next]_buVars => BufferInv'
    BY NextBuffer
  <1>3. BufferInv => BufferIntact
    BY BufferInvIsIntact
  <1> QED
    BY <1>1, <1>2, <1>3, Parts, PTL
-----------------------------------------------------------------------------
(***************************************************************************)
(* The pollers (poll.cpp, epoll.cpp).                                      *)
(***************************************************************************)
\* The registered channels.
Reg == {c \in Channels : mark[c] # -1}

\* The values of the variables; a registered channel exists, and no two have one descriptor.
FdsOK ==
    /\ fd \in [Channels -> Fds \cup {-1}] /\ mark \in [Channels -> Nat \cup {-1}]
    /\ channels \in [Fds -> SUBSET Channels]
    /\ \A c \in Reg : fd[c] # -1
    /\ \A c, d \in Channels : fd[c] = fd[d] /\ fd[c] # -1 => c = d

\* channels_ has the registered channels under their descriptors.
MapOK == \A f \in Fds : channels[f] = {c \in Reg : fd[c] = f}

\* Each place of pollfds_ belongs to one registered channel, and each of them has a place.
PlacesOK ==
    /\ pollfds \in Seq(Int)
    /\ \A c \in Reg : /\ mark[c] \in 0..Len(pollfds) - 1
                      /\ pollfds[mark[c] + 1] \in {fd[c], -fd[c] - 1}
    /\ \A k \in 1..Len(pollfds) : \E c \in Reg : mark[c] + 1 = k
    /\ IsFiniteSet(Reg) /\ Len(pollfds) = Cardinality(Reg)

PollerInv == FdsOK /\ MapOK /\ (kind = "poll" => PlacesOK)

LEMMA FdsAreNat == Fds \subseteq Nat
  BY BlocksAssumption DEF Po!PollerAssumption

\* The operator of the module FiniteSets that Poller extends.
LEMMA PollerCardinality == \A S : Po!Cardinality(S) = Cardinality(S)
  BY DEF Po!Cardinality, Cardinality, Po!IsFiniteSet, IsFiniteSet

LEMMA InitPoller == Po!Init => PollerInv
  <1> SUFFICES ASSUME Po!Init PROVE PollerInv
    OBVIOUS
  <1>1. Reg = {}
    BY DEF Po!Init, Reg
  <1>2. FdsOK /\ MapOK
    BY <1>1 DEF Po!Init, FdsOK, MapOK
  <1>3. <<>> \in Seq(Int) /\ Len(<<>>) = 0
    OBVIOUS
  <1>4. PlacesOK
    BY <1>1, <1>3, FS_EmptySet DEF Po!Init, PlacesOK
  <1> QED
    BY <1>2, <1>4 DEF PollerInv

\* Channels are constructed and destroyed while they are not registered.
LEMMA ChannelStep ==
    ASSUME PollerInv, NEW c \in Channels, Po!Construct(c) \/ Po!Destroy(c)
    PROVE  PollerInv'
  <1>1. c \notin Reg /\ UNCHANGED <<kind, mark, pollfds, channels>>
    BY DEF Po!Construct, Po!Destroy, PollerInv, FdsOK, Reg, Po!Exists, Po!Registered
  <1>2. Reg' = Reg
    BY <1>1 DEF Reg
  <1>3. fd' \in [Channels -> Fds \cup {-1}] /\ \A d \in Channels \ {c} : fd'[d] = fd[d]
    BY DEF Po!Construct, Po!Destroy, PollerInv, FdsOK
  <1>4. fd'[c] = -1 \/ \A d \in Channels : fd'[c] # fd[d]
    BY DEF Po!Construct, Po!Destroy, PollerInv, FdsOK
  <1>5. \A d, e \in Channels : fd'[d] = fd'[e] /\ fd'[d] # -1 => d = e
    BY <1>3, <1>4 DEF PollerInv, FdsOK
  <1>6. \A d \in Reg : fd'[d] = fd[d]
    BY <1>1, <1>3 DEF Reg
  <1>7. FdsOK'
    BY <1>1, <1>2, <1>3, <1>5, <1>6 DEF PollerInv, FdsOK
  <1>8. MapOK'
    BY <1>1, <1>2, <1>6 DEF PollerInv, MapOK
  <1>9. PlacesOK => PlacesOK'
    BY <1>1, <1>2, <1>6 DEF PlacesOK
  <1> QED
    BY <1>1, <1>7, <1>8, <1>9 DEF PollerInv

\* A channel is registered.
LEMMA AddStep ==
    ASSUME PollerInv, NEW c \in Channels, Po!AddPollfd(c) \/ Po!EpollAdd(c)
    PROVE  PollerInv'
  <1> DEFINE m == IF kind = "poll" THEN Len(pollfds) ELSE 1
  <1>1. /\ c \notin Reg /\ fd[c] # -1 /\ fd[c] \in Fds
        /\ channels' = [channels EXCEPT ![fd[c]] = {c}]
        /\ kind' = kind /\ fd' = fd
    BY DEF Po!AddPollfd, Po!EpollAdd, PollerInv, FdsOK, Reg, Po!Exists, Po!Registered
  <1>2. mark' = [mark EXCEPT ![c] = m]
    BY DEF Po!AddPollfd, Po!EpollAdd
  <1>3. m \in Nat
    BY DEF PollerInv, PlacesOK
  <1> HIDE DEF m
  <1>4. /\ mark' \in [Channels -> Nat \cup {-1}] /\ mark'[c] = m
        /\ \A d \in Channels \ {c} : mark'[d] = mark[d]
    BY <1>2, <1>3 DEF PollerInv, FdsOK
  <1>5. Reg' = Reg \cup {c}
    BY <1>3, <1>4 DEF Reg
  <1>6. FdsOK'
    BY <1>1, <1>4, <1>5 DEF PollerInv, FdsOK
  <1>7. MapOK'
    <2> SUFFICES ASSUME NEW f \in Fds PROVE channels'[f] = {d \in Reg \cup {c} : fd[d] = f}
      BY <1>1, <1>5 DEF MapOK
    <2>1. CASE f = fd[c]
      <3>1. channels'[f] = {c}
        BY <1>1, <2>1 DEF PollerInv, FdsOK
      <3>2. \A d \in Reg \cup {c} : fd[d] = f => d = c
        BY <1>1, <2>1 DEF PollerInv, FdsOK, Reg
      <3> QED BY <2>1, <3>1, <3>2
    <2>2. CASE f # fd[c]
      BY <1>1, <2>2 DEF PollerInv, FdsOK, MapOK
    <2> QED BY <2>1, <2>2
  <1>8. ASSUME kind = "poll" PROVE PlacesOK'
    <2>1. PlacesOK /\ pollfds' = Append(pollfds, fd[c]) /\ m = Len(pollfds)
      BY <1>8 DEF PollerInv, Po!AddPollfd, Po!EpollAdd, m
    <2>2. fd[c] \in Int /\ pollfds \in Seq(Int) /\ Len(pollfds) \in Nat
      <3>1. fd[c] \in Nat
        BY <1>1, FdsAreNat
      <3>2. pollfds \in Seq(Int)
        BY <2>1 DEF PlacesOK
      <3> QED BY <3>1, <3>2
    <2>3. /\ pollfds' \in Seq(Int) /\ Len(pollfds') = Len(pollfds) + 1
          /\ pollfds'[Len(pollfds) + 1] = fd[c]
          /\ \A k \in 1..Len(pollfds) : pollfds'[k] = pollfds[k]
      BY <2>1, <2>2
    <2>4. ASSUME NEW d \in Reg'
          PROVE  /\ mark'[d] \in 0..Len(pollfds') - 1
                 /\ pollfds'[mark'[d] + 1] \in {fd'[d], -fd'[d] - 1}
      <3>1. CASE d = c
        BY <1>1, <1>4, <2>1, <2>2, <2>3, <3>1
      <3>2. CASE d # c
        <4>1. d \in Reg /\ mark'[d] = mark[d]
          BY <1>4, <1>5, <3>2 DEF Reg
        <4>2. mark[d] + 1 \in 1..Len(pollfds) /\ pollfds[mark[d] + 1] \in {fd[d], -fd[d] - 1}
          BY <2>1, <2>2, <4>1 DEF PlacesOK
        <4>3. pollfds'[mark[d] + 1] = pollfds[mark[d] + 1] /\ fd'[d] = fd[d]
          BY <1>1, <2>3, <4>2
        <4>4. mark[d] \in 0..Len(pollfds) - 1
          BY <2>1, <4>1 DEF PlacesOK
        <4>5. mark[d] \in 0..Len(pollfds') - 1
          BY <2>2, <2>3, <4>4
        <4> QED BY <4>1, <4>2, <4>3, <4>5
      <3> QED BY <3>1, <3>2
    <2>5. ASSUME NEW k \in 1..Len(pollfds') PROVE \E d \in Reg' : mark'[d] + 1 = k
      <3>1. CASE k = Len(pollfds) + 1
        BY <1>4, <1>5, <2>1, <3>1
      <3>2. CASE k # Len(pollfds) + 1
        <4>1. k \in 1..Len(pollfds)
          BY <2>2, <2>3, <3>2
        <4>2. PICK d \in Reg : mark[d] + 1 = k
          BY <2>1, <4>1 DEF PlacesOK
        <4>3. d \in Reg' /\ mark'[d] = mark[d]
          BY <1>1, <1>4, <1>5 DEF Reg
        <4> QED BY <4>2, <4>3
      <3> QED BY <3>1, <3>2
    <2>6. IsFiniteSet(Reg') /\ Len(pollfds') = Cardinality(Reg')
      BY <1>1, <1>5, <2>1, <2>3, FS_AddElement DEF PlacesOK
    <2> QED BY <2>3, <2>4, <2>5, <2>6 DEF PlacesOK
  <1> QED
    BY <1>1, <1>6, <1>7, <1>8 DEF PollerInv

\* The events of a channel are changed in place.
LEMMA ModifyStep ==
    ASSUME PollerInv, NEW c \in Channels, NEW some \in BOOLEAN, Po!ModifyPollfd(c, some)
    PROVE  PollerInv'
  <1>1. /\ kind = "poll" /\ c \in Reg /\ UNCHANGED <<kind, fd, mark, channels>>
        /\ pollfds' = [pollfds EXCEPT ![mark[c] + 1] = Po!Watched(c, some)]
    BY DEF Po!ModifyPollfd, Po!Registered, Reg
  <1>2. Po!Watched(c, some) \in {fd[c], -fd[c] - 1}
    BY DEF Po!Watched
  <1>3. PlacesOK /\ FdsOK /\ Reg' = Reg
    BY <1>1 DEF PollerInv, Reg
  <1>4. fd[c] \in Nat
    BY <1>1, <1>3, FdsAreNat DEF FdsOK, Reg
  <1>5. pollfds' \in Seq(Int) /\ Len(pollfds') = Len(pollfds)
    BY <1>1, <1>2, <1>3, <1>4 DEF PlacesOK
  <1>6. ASSUME NEW d \in Reg PROVE pollfds'[mark[d] + 1] \in {fd[d], -fd[d] - 1}
    <2>1. mark[d] + 1 \in 1..Len(pollfds) /\ mark[c] + 1 \in 1..Len(pollfds)
      BY <1>1, <1>3 DEF PlacesOK
    <2>2. CASE mark[d] + 1 = mark[c] + 1
      <3>1. d = c
        <4>1. pollfds[mark[d] + 1] \in {fd[d], -fd[d] - 1} /\ pollfds[mark[d] + 1] \in {fd[c], -fd[c] - 1}
          BY <1>1, <1>3, <2>2 DEF PlacesOK
        <4>2. fd[c] \in Nat /\ fd[d] \in Nat
          BY <1>1, <1>3, FdsAreNat DEF FdsOK, Reg
        <4>3. fd[c] = fd[d] /\ fd[c] # -1
          BY <4>1, <4>2
        <4> QED BY <1>3, <4>3 DEF FdsOK, Reg
      <3> QED BY <1>1, <1>2, <1>3, <2>1, <3>1 DEF PlacesOK
    <2>3. CASE mark[d] + 1 # mark[c] + 1
      BY <1>1, <1>3, <2>1, <2>3 DEF PlacesOK
    <2> QED BY <2>2, <2>3
  <1>7. PlacesOK'
    BY <1>1, <1>3, <1>5, <1>6 DEF PlacesOK
  <1>8. FdsOK' /\ MapOK'
    BY <1>1, <1>3 DEF PollerInv, FdsOK, MapOK
  <1> QED
    BY <1>7, <1>8 DEF PollerInv

\* The operators of the module SequencesExt that removeChannel is written with.
LEMMA FrontAndLast ==
    /\ \A s : Po!Last(s) = s[Len(s)]
    /\ \A s : Po!Front(s) = SubSeq(s, 1, Len(s) - 1)
  BY DEF Po!Last, Po!Front

\* removeChannel of poll: the last place is given to the channel in the middle.
LEMMA RemoveStep ==
    ASSUME PollerInv, NEW c \in Channels, Po!RemovePollfd(c)
    PROVE  PollerInv'
  <1> DEFINE l == Len(pollfds)
             last == pollfds[l]
  <1>1. /\ kind = "poll" /\ c \in Reg /\ kind' = kind /\ fd' = fd
        /\ channels' = [channels EXCEPT ![fd[c]] = {}]
        /\ pollfds' = SubSeq([pollfds EXCEPT ![mark[c] + 1] = last], 1, Len([pollfds EXCEPT ![mark[c] + 1] = last]) - 1)
        /\ mark' = [d \in Channels |-> IF d = c THEN -1
                                      ELSE IF d \in channels'[Po!Descriptor(last)] THEN mark[c] ELSE mark[d]]
    BY FrontAndLast DEF Po!RemovePollfd, Po!Registered, Po!Moved, Reg
  <1>2. PlacesOK /\ FdsOK /\ MapOK
    BY <1>1 DEF PollerInv
  <1>3. /\ l \in Nat /\ mark[c] \in 0..l - 1 /\ l > 0 /\ pollfds \in Seq(Int) /\ last \in Int
    BY <1>1, <1>2 DEF PlacesOK
  <1>4. PICK e \in Reg : mark[e] + 1 = l
    <2>1. Len(pollfds) \in 1..Len(pollfds)
      BY <1>3
    <2>2. \A k \in 1..Len(pollfds) : \E d \in Reg : mark[d] + 1 = k
      BY <1>2, Zenon DEF PlacesOK
    <2> QED
      BY <2>1, <2>2, Zenon
  <1>5. \A d \in Reg : d \in Channels /\ fd[d] \in Fds /\ fd[d] \in Nat /\ mark[d] \in 0..l - 1
    BY <1>2, FdsAreNat DEF FdsOK, PlacesOK, Reg
  <1>6. last \in {fd[e], -fd[e] - 1}
    BY <1>2, <1>4 DEF PlacesOK
  <1>7. Po!Descriptor(last) = fd[e]
    BY <1>3, <1>5, <1>6 DEF Po!Descriptor
  <1>8. channels[fd[e]] = {e}
    <2>1. \A d \in Reg : fd[d] = fd[e] => d = e
      BY <1>2 DEF FdsOK, Reg
    <2> QED BY <1>2, <1>5, <2>1 DEF MapOK
  <1>9. channels'[fd[e]] = IF e = c THEN {} ELSE {e}
    <2>1. fd[e] = fd[c] => e = c
      BY <1>1, <1>2 DEF FdsOK, Reg
    <2>2. fd[e] \in Fds /\ fd[c] \in Fds /\ channels \in [Fds -> SUBSET Channels]
      BY <1>1, <1>2, <1>5 DEF FdsOK
    <2> QED BY <1>1, <1>8, <2>1, <2>2
  <1>10. \A d \in Channels : mark'[d] = IF d = c THEN -1 ELSE IF d = e THEN mark[c] ELSE mark[d]
    <2> DEFINE M == channels'[Po!Descriptor(last)]
    <2>1. M = IF e = c THEN {} ELSE {e}
      BY <1>7, <1>9
    <2>2. mark' = [d \in Channels |-> IF d = c THEN -1 ELSE IF d \in M THEN mark[c] ELSE mark[d]]
      BY <1>1
    <2> HIDE DEF M
    <2>3. ASSUME NEW d \in Channels PROVE mark'[d] = IF d = c THEN -1 ELSE IF d \in M THEN mark[c] ELSE mark[d]
      BY <2>2
    <2> QED BY <2>1, <2>3
  <1>11. mark' \in [Channels -> Nat \cup {-1}]
    <2>1. \A d \in Channels : mark'[d] \in Nat \cup {-1}
      BY <1>2, <1>10 DEF FdsOK
    <2> QED BY <1>1, <2>1
  <1>12. Reg' = Reg \ {c}
    <2>1. mark[c] # -1
      BY <1>3
    <2>2. e \in Reg
      OBVIOUS
    <2> QED BY <1>10, <2>1, <2>2 DEF Reg
  <1>13. /\ pollfds' \in Seq(Int) /\ Len(pollfds') = l - 1
         /\ \A k \in 1..l - 1 : pollfds'[k] = IF k = mark[c] + 1 THEN last ELSE pollfds[k]
    <2> DEFINE q == [pollfds EXCEPT ![mark[c] + 1] = last]
    <2>1. q \in Seq(Int) /\ Len(q) = l /\ \A k \in 1..l : q[k] = IF k = mark[c] + 1 THEN last ELSE pollfds[k]
      BY <1>3
    <2>2. pollfds' = SubSeq(q, 1, Len(q) - 1)
      BY <1>1
    <2> HIDE DEF q, l, last
    <2>3. /\ SubSeq(q, 1, l - 1) \in Seq(Int) /\ Len(SubSeq(q, 1, l - 1)) = l - 1
          /\ \A k \in 1..l - 1 : SubSeq(q, 1, l - 1)[k] = q[k]
      BY <1>3, <2>1
    <2>4. pollfds' = SubSeq(q, 1, l - 1)
      BY <2>1, <2>2
    <2>5. \A k \in 1..l - 1 : k \in 1..l
      BY <1>3
    <2> QED BY <2>1, <2>3, <2>4, <2>5
  <1> HIDE DEF l, last
  <1>14. ASSUME NEW d \in Reg \ {c}
         PROVE  /\ mark'[d] \in 0..l - 2
                /\ pollfds'[mark'[d] + 1] \in {fd[d], -fd[d] - 1}
    <2>1. d \in Channels /\ mark[d] \in 0..l - 1 /\ pollfds[mark[d] + 1] \in {fd[d], -fd[d] - 1}
      BY <1>2, <1>5 DEF PlacesOK
    <2>2. ASSUME NEW b \in Reg, mark[b] = mark[d] PROVE b = d
      <3>1. pollfds[mark[b] + 1] \in {fd[b], -fd[b] - 1} /\ fd[b] \in Nat /\ fd[d] \in Nat /\ b \in Channels
        BY <1>2, <1>5 DEF PlacesOK
      <3>2. fd[b] = fd[d] /\ fd[b] # -1
        BY <2>1, <2>2, <3>1
      <3> QED BY <1>2, <2>1, <3>1, <3>2 DEF FdsOK
    <2>3. CASE d = e
      <3>1. mark'[d] = mark[c] /\ mark[c] # mark[d]
        BY <1>1, <1>10, <2>1, <2>2, <2>3
      <3>2. mark[c] \in 0..l - 2
        <4>1. mark[d] + 1 = l /\ mark[d] \in Nat /\ mark[c] \in 0..l - 1 /\ l \in Nat /\ mark[c] # mark[d]
          BY <1>3, <1>4, <2>1, <2>3, <3>1
        <4> QED BY <4>1
      <3>3. mark[c] + 1 \in 1..l - 1
        BY <1>3, <3>2
      <3>4. pollfds'[mark[c] + 1] = last
        BY <1>13, <3>3
      <3> QED BY <1>6, <2>3, <3>1, <3>2, <3>4
    <2>4. CASE d # e
      <3>1. mark'[d] = mark[d] /\ mark[d] # mark[c] /\ mark[d] # mark[e]
        BY <1>1, <1>10, <2>1, <2>2, <2>4
      <3>2. mark[d] \in 0..l - 2 /\ mark[d] + 1 \in 1..l - 1 /\ mark[d] + 1 # mark[c] + 1
        <4>1. mark[e] + 1 = l /\ mark[e] \in Nat /\ mark[d] \in 0..l - 1 /\ l \in Nat
          BY <1>3, <1>4, <1>5, <2>1
        <4>2. mark[d] # mark[e] /\ mark[d] # mark[c] /\ mark[c] \in Nat
          BY <1>3, <3>1
        <4> QED BY <4>1, <4>2
      <3>3. pollfds'[mark[d] + 1] = pollfds[mark[d] + 1]
        BY <1>13, <3>2
      <3> QED BY <2>1, <3>1, <3>2, <3>3
    <2> QED BY <2>3, <2>4
  <1>15. ASSUME NEW k \in 1..l - 1 PROVE \E d \in Reg \ {c} : mark'[d] + 1 = k
    <2>1. CASE k = mark[c] + 1
      <3>1. e # c
        BY <1>3, <1>4, <2>1
      <3>2. e \in Reg \ {c} /\ mark'[e] = mark[c]
        BY <1>5, <1>10, <3>1
      <3> QED BY <2>1, <3>2
    <2>2. CASE k # mark[c] + 1
      <3>1. k \in 1..l
        BY <1>3
      <3>2. PICK d \in Reg : mark[d] + 1 = k
        BY <1>2, <3>1 DEF PlacesOK, l
      <3>3. d # c /\ d # e
        BY <1>3, <1>4, <2>2, <3>2
      <3>4. d \in Reg \ {c} /\ mark'[d] = mark[d]
        BY <1>5, <1>10, <3>3
      <3> QED BY <3>2, <3>4
    <2> QED BY <2>1, <2>2
  <1>16. IsFiniteSet(Reg') /\ Cardinality(Reg') = l - 1
    <2>1. IsFiniteSet(Reg) /\ Cardinality(Reg) = l
      BY <1>2 DEF PlacesOK, l
    <2> QED BY <1>1, <1>12, <2>1, FS_RemoveElement
  <1>17. PlacesOK'
    <2>1. \A d \in Reg' : /\ mark'[d] \in 0..Len(pollfds') - 1
                           /\ pollfds'[mark'[d] + 1] \in {fd'[d], -fd'[d] - 1}
      <3>1. Len(pollfds') - 1 = l - 2 /\ fd' = fd
        BY <1>1, <1>3, <1>13
      <3> QED BY <1>12, <1>14, <3>1
    <2>2. \A k \in 1..Len(pollfds') : \E d \in Reg' : mark'[d] + 1 = k
      BY <1>12, <1>13, <1>15
    <2> QED BY <1>13, <1>16, <2>1, <2>2 DEF PlacesOK
  <1>18. MapOK'
    <2> SUFFICES ASSUME NEW f \in Fds PROVE channels'[f] = {d \in Reg \ {c} : fd[d] = f}
      BY <1>1, <1>12 DEF MapOK
    <2>1. \A d \in Reg : fd[d] = fd[c] => d = c
      BY <1>1, <1>2 DEF FdsOK, Reg
    <2>2. channels[f] = {d \in Reg : fd[d] = f} /\ channels'[f] = IF f = fd[c] THEN {} ELSE channels[f]
      BY <1>1, <1>2 DEF MapOK, FdsOK
    <2> QED BY <2>1, <2>2
  <1>19. FdsOK'
    <2>1. channels' \in [Fds -> SUBSET Channels]
      BY <1>1, <1>2 DEF FdsOK
    <2> QED BY <1>1, <1>2, <1>11, <1>12, <2>1 DEF FdsOK
  <1> QED
    BY <1>17, <1>18, <1>19 DEF PollerInv

\* removeChannel of epoll.
LEMMA DeleteStep ==
    ASSUME PollerInv, NEW c \in Channels, Po!EpollDelete(c)
    PROVE  PollerInv'
  <1>1. /\ kind = "epoll" /\ c \in Reg /\ kind' = kind /\ fd' = fd
        /\ channels' = [channels EXCEPT ![fd[c]] = {}] /\ mark' = [mark EXCEPT ![c] = -1]
    BY DEF Po!EpollDelete, Po!Registered, Reg
  <1>2. FdsOK /\ MapOK
    BY DEF PollerInv
  <1>3. /\ mark' \in [Channels -> Nat \cup {-1}] /\ mark'[c] = -1
        /\ \A d \in Channels \ {c} : mark'[d] = mark[d]
    BY <1>1, <1>2 DEF FdsOK
  <1>4. Reg' = Reg \ {c}
    BY <1>3 DEF Reg
  <1>5. MapOK'
    <2> SUFFICES ASSUME NEW f \in Fds PROVE channels'[f] = {d \in Reg \ {c} : fd[d] = f}
      BY <1>1, <1>4 DEF MapOK
    <2>1. \A d \in Reg : fd[d] = fd[c] => d = c
      BY <1>1, <1>2 DEF FdsOK, Reg
    <2>2. channels[f] = {d \in Reg : fd[d] = f} /\ channels'[f] = IF f = fd[c] THEN {} ELSE channels[f]
      BY <1>1, <1>2 DEF MapOK, FdsOK
    <2> QED BY <2>1, <2>2
  <1>6. FdsOK'
    <2>1. channels' \in [Fds -> SUBSET Channels]
      BY <1>1, <1>2 DEF FdsOK
    <2> QED BY <1>1, <1>2, <1>3, <1>4, <2>1 DEF FdsOK
  <1> QED
    BY <1>1, <1>5, <1>6 DEF PollerInv

LEMMA NextPoller == PollerInv /\ [Po!Next]_poVars => PollerInv'
  <1> SUFFICES ASSUME PollerInv, [Po!Next]_poVars PROVE PollerInv'
    OBVIOUS
  <1>1. CASE UNCHANGED <<kind, fd, mark, pollfds, channels>>
    BY <1>1 DEF PollerInv, FdsOK, MapOK, PlacesOK, Reg
  <1>2. ASSUME Po!Poll \/ Po!EpollWait \/ Po!NextActive \/ UNCHANGED poVars
        PROVE  UNCHANGED <<kind, fd, mark, pollfds, channels>>
    BY <1>2 DEF Po!Poll, Po!EpollWait, Po!NextActive, poVars
  <1> QED
    BY <1>1, <1>2, ChannelStep, AddStep, ModifyStep, RemoveStep, DeleteStep DEF Po!Next

LEMMA PollerInvIsSafe == PollerInv => RegistrationSafe
  <1> SUFFICES ASSUME PollerInv PROVE Po!RegistrationSafe
    BY DEF RegistrationSafe
  <1> USE DEF Po!Registered, Po!Exists
  <1>1. \A c \in Channels : Po!Registered(c) <=> Po!Exists(c) /\ c \in channels[fd[c]]
    BY DEF PollerInv, FdsOK, MapOK, Reg
  <1>2. \A f \in Fds, c \in Channels : channels[f] \in {{}, {c}} \/ c \notin channels[f]
    <2> SUFFICES ASSUME NEW f \in Fds, NEW c \in channels[f] PROVE channels[f] = {c}
      OBVIOUS
    <2>1. f # -1
      BY FdsAreNat
    <2> QED BY <2>1 DEF PollerInv, FdsOK, MapOK, Reg
  <1>3. \A f \in Fds : \A c \in channels[f] : fd[c] = f
    BY DEF PollerInv, MapOK
  <1>4. ASSUME kind = "poll"
        PROVE  /\ Len(pollfds) = Po!Cardinality({c \in Channels : Po!Registered(c)})
               /\ \A c \in Channels : Po!Registered(c) =>
                    /\ mark[c] \in 0..Len(pollfds) - 1
                    /\ pollfds[mark[c] + 1] \in {fd[c], -fd[c] - 1}
    BY <1>4, PollerCardinality DEF PollerInv, PlacesOK, Reg
  <1> QED
    BY <1>1, <1>2, <1>3, <1>4 DEF Po!RegistrationSafe

\* Marks, places and descriptors agree for any number of channels and in whatever order they are
\* registered and removed, with poll and with epoll.
THEOREM RegistrationIsSafe == BlocksSpec => []RegistrationSafe
  <1>1. Po!Init => PollerInv
    BY InitPoller
  <1>2. PollerInv /\ [Po!Next]_poVars => PollerInv'
    BY NextPoller
  <1>3. PollerInv => RegistrationSafe
    BY PollerInvIsSafe
  <1> QED
    BY <1>1, <1>2, <1>3, Parts, PTL
-----------------------------------------------------------------------------
(***************************************************************************)
(* Coroutines (coroutine.cpp).                                             *)
(***************************************************************************)
CoTypes ==
    /\ state \in [Coroutines -> {"NONE", "FREE", "SUSPEND", "RUNNING", "INSTACK", "DONE"}]
    /\ home \in [Coroutines -> CoThreads \cup {None}]
    /\ stack \in [CoThreads -> Seq(Coroutines)]
    /\ frames \in [CoThreads -> Coroutines \cup {None}]
    /\ saved \in [Coroutines -> BOOLEAN]
    /\ refused \subseteq Coroutines

\* The places of the call stack of t.
Calls(t) == 1..Len(stack[t])

\* What is on a call stack has the state of its place, and is there only.
StacksOK ==
    /\ \A t \in CoThreads : Len(stack[t]) <= Depth
    /\ \A t, u \in CoThreads : \A j \in Calls(t), k \in Calls(u) :
            stack[t][j] = stack[u][k] => t = u /\ j = k
    /\ \A t \in CoThreads : \A k \in Calls(t) :
            state[stack[t][k]] = IF k = Len(stack[t]) THEN "RUNNING" ELSE "INSTACK"

\* What has such a state is on a call stack, or was refused, and then it is on none.
StatesOK ==
    /\ \A c \in Coroutines : state[c] = "INSTACK" =>
            \E t \in CoThreads : \E k \in Calls(t) : stack[t][k] = c
    /\ \A c \in Coroutines : state[c] = "RUNNING" =>
            c \in refused \/ \E t \in CoThreads : \E k \in Calls(t) : stack[t][k] = c
    /\ \A c \in refused : state[c] = "RUNNING"
    /\ \A t \in CoThreads : \A k \in Calls(t) : stack[t][k] \notin refused

\* The shared coroutines of a call stack are at home there, the top one has its frames there,
\* and those that do not run have theirs in their buffers.
FramesOK ==
    /\ \A t \in CoThreads : \A k \in Calls(t) : stack[t][k] \in Shared => home[stack[t][k]] = t
    /\ \A t \in CoThreads : \A k \in Calls(t) :
            k = Len(stack[t]) /\ stack[t][k] \in Shared => frames[t] = stack[t][k]
    /\ \A c \in Shared : saved[c] <=> state[c] \in {"SUSPEND", "INSTACK"} \/ c \in refused

CoInv == CoTypes /\ StacksOK /\ StatesOK /\ FramesOK

LEMMA CoConstants == Shared \subseteq Coroutines /\ Depth \in Nat \ {0} /\ None \notin Coroutines
  BY BlocksAssumption DEF Co!CoroutineAssumption

LEMMA InitCo == Co!CoInit => CoInv
  <1> SUFFICES ASSUME Co!CoInit PROVE CoInv
    OBVIOUS
  <1>1. <<>> \in Seq(Coroutines) /\ Len(<<>>) = 0
    OBVIOUS
  <1>2. CoTypes
    <2>1. saved \in [Coroutines -> BOOLEAN]
      BY Zenon DEF Co!CoInit
    <2>2. stack \in [CoThreads -> Seq(Coroutines)]
      BY <1>1 DEF Co!CoInit
    <2> QED BY <2>1, <2>2 DEF Co!CoInit, CoTypes
  <1>3. \A t \in CoThreads : Calls(t) = {}
    BY <1>1 DEF Co!CoInit, Calls
  <1>4. StacksOK
    BY <1>1, <1>3, CoConstants DEF Co!CoInit, StacksOK
  <1>5. StatesOK
    BY <1>3 DEF Co!CoInit, StatesOK
  <1>6. FramesOK
    BY <1>3, CoConstants DEF Co!CoInit, FramesOK
  <1> QED
    BY <1>2, <1>4, <1>5, <1>6 DEF CoInv

\* A coroutine that is neither RUNNING nor INSTACK is on no call stack and was not refused.
LEMMA OffStacks ==
    ASSUME CoInv, NEW c \in Coroutines, state[c] \notin {"RUNNING", "INSTACK"}
    PROVE  /\ \A t \in CoThreads : \A k \in Calls(t) : stack[t][k] # c
           /\ c \notin refused
  BY DEF CoInv, StacksOK, StatesOK

\* Every element of a call stack is a coroutine.
LEMMA CallTypes ==
    ASSUME CoInv, NEW t \in CoThreads
    PROVE  /\ stack[t] \in Seq(Coroutines) /\ Len(stack[t]) \in Nat
           /\ \A k \in Calls(t) : stack[t][k] \in Coroutines /\ k \in Nat /\ k >= 1 /\ k <= Len(stack[t])
           /\ Co!Top(t) = IF Len(stack[t]) = 0 THEN None ELSE stack[t][Len(stack[t])]
           /\ Len(stack[t]) > 0 => Len(stack[t]) \in Calls(t)
  <1>1. stack[t] \in Seq(Coroutines)
    BY DEF CoInv, CoTypes
  <1>2. Len(stack[t]) \in Nat /\ (stack[t] = <<>> <=> Len(stack[t]) = 0)
    BY <1>1
  <1> QED
    BY <1>1, <1>2 DEF Calls, Co!Top

\* Creation, destruction, a refusal and a resume without memory concern coroutines off the stacks.
LEMMA OffStackStep ==
    ASSUME CoInv, NEW t \in CoThreads, NEW c \in Coroutines,
           Co!New(t, c) \/ Co!Delete(c) \/ Co!Refuse(t, c) \/ Co!ResumeFails(t, c)
    PROVE  CoInv'
  <1>1. stack' = stack /\ frames' = frames
    BY DEF Co!New, Co!Delete, Co!Refuse, Co!ResumeFails
  <1>2. CASE UNCHANGED <<state, home, saved, refused>>
    BY <1>1, <1>2 DEF CoInv, CoTypes, StacksOK, StatesOK, FramesOK, Calls
  <1>3. ASSUME NEW s \in {"FREE", "NONE", "RUNNING"}, NEW h \in CoThreads \cup {None}, NEW b \in BOOLEAN,
               state[c] \notin {"RUNNING", "INSTACK"},
               state' = [state EXCEPT ![c] = s],
               \A d \in Coroutines \ {c} : home'[d] = home[d] /\ saved'[d] = saved[d],
               home' \in [Coroutines -> CoThreads \cup {None}], saved' \in [Coroutines -> BOOLEAN],
               refused' = IF s = "RUNNING" THEN refused \cup {c} ELSE refused,
               c \in Shared => (saved'[c] <=> s = "RUNNING")
        PROVE  CoInv'
    <2>1. /\ \A u \in CoThreads : \A k \in Calls(u) : stack[u][k] # c /\ stack[u][k] \in Coroutines
          /\ c \notin refused
      BY <1>3, OffStacks, CallTypes
    <2>2. state'[c] = s /\ \A d \in Coroutines \ {c} : state'[d] = state[d]
      BY <1>3 DEF CoInv, CoTypes
    <2>3. \A u \in CoThreads : Calls(u)' = Calls(u)
      BY <1>1 DEF Calls
    <2>4. CoTypes'
      BY <1>1, <1>3 DEF CoInv, CoTypes
    <2>5. StacksOK'
      BY <1>1, <2>1, <2>2, <2>3 DEF CoInv, StacksOK
    <2>6. StatesOK'
      BY <1>1, <1>3, <2>1, <2>2, <2>3 DEF CoInv, CoTypes, StatesOK
    <2>7. \A d \in Shared : saved'[d] <=> state'[d] \in {"SUSPEND", "INSTACK"} \/ d \in refused'
      <3> SUFFICES ASSUME NEW d \in Shared
                   PROVE  saved'[d] <=> state'[d] \in {"SUSPEND", "INSTACK"} \/ d \in refused'
        OBVIOUS
      <3>1. CASE d = c
        BY <1>3, <2>1, <2>2, <3>1
      <3>2. CASE d # c
        BY <1>3, <2>2, <3>2, CoConstants DEF CoInv, FramesOK
      <3> QED BY <3>1, <3>2
    <2>8. FramesOK'
      BY <1>1, <1>3, <2>1, <2>2, <2>3, <2>7 DEF CoInv, FramesOK
    <2> QED BY <2>4, <2>5, <2>6, <2>8 DEF CoInv
  <1>4. CASE Co!New(t, c)
    <2>1. /\ state[c] \notin {"RUNNING", "INSTACK"} /\ state' = [state EXCEPT ![c] = "FREE"]
          /\ refused' = refused /\ saved' = [saved EXCEPT ![c] = FALSE]
      BY <1>4 DEF Co!New, Co!Exists
    <2>2. /\ home' \in [Coroutines -> CoThreads \cup {None}]
          /\ \A d \in Coroutines \ {c} : home'[d] = home[d]
      BY <1>4 DEF Co!New, Co!MakeContext, CoInv, CoTypes
    <2>3. saved' \in [Coroutines -> BOOLEAN] /\ ~saved'[c]
      BY <2>1 DEF CoInv, CoTypes
    <2>4. \A d \in Coroutines \ {c} : saved'[d] = saved[d]
      BY <2>1 DEF CoInv, CoTypes
    <2> QED BY <1>3, <2>1, <2>2, <2>3, <2>4
  <1>5. CASE Co!Delete(c)
    <2>1. /\ state[c] \in {"FREE", "DONE"} /\ state' = [state EXCEPT ![c] = "NONE"]
          /\ refused' = refused /\ saved' = saved /\ home' = [home EXCEPT ![c] = None]
      BY <1>5 DEF Co!Delete
    <2>2. /\ home' \in [Coroutines -> CoThreads \cup {None}]
          /\ \A d \in Coroutines \ {c} : home'[d] = home[d]
      BY <2>1 DEF CoInv, CoTypes
    <2>3. c \in Shared => ~saved'[c]
      BY <2>1, OffStacks DEF CoInv, FramesOK
    <2>4. saved' \in [Coroutines -> BOOLEAN]
      BY <2>1 DEF CoInv, CoTypes
    <2> QED BY <1>3, <2>1, <2>2, <2>3, <2>4
  <1>6. CASE Co!Refuse(t, c)
    <2>1. CASE UNCHANGED <<state, refused>>
      BY <1>2, <1>6, <2>1 DEF Co!Refuse
    <2>2. CASE state[c] = "SUSPEND" /\ state' = [state EXCEPT ![c] = "RUNNING"] /\ refused' = refused \cup {c}
      <3>1. home' = home /\ saved' = saved
        BY <1>6 DEF Co!Refuse
      <3>2. home' \in [Coroutines -> CoThreads \cup {None}] /\ saved' \in [Coroutines -> BOOLEAN]
        BY <3>1 DEF CoInv, CoTypes
      <3>3. c \in Shared => saved'[c]
        BY <2>2, <3>1 DEF CoInv, FramesOK
      <3> QED BY <1>3, <2>2, <3>1, <3>2, <3>3
    <2> QED BY <1>6, <2>1, <2>2 DEF Co!Refuse
  <1>7. CASE Co!ResumeFails(t, c)
    <2>1. state' = [state EXCEPT ![c] = state[c]] /\ UNCHANGED <<home, saved, refused>>
      BY <1>7 DEF Co!ResumeFails, Co!LastState
    <2>2. state' = state
      BY <2>1 DEF CoInv, CoTypes
    <2> QED BY <1>2, <2>1, <2>2
  <1> QED
    BY <1>4, <1>5, <1>6, <1>7

\* resume puts a coroutine on top of the call stack.
LEMMA ResumeStep ==
    ASSUME CoInv, NEW t \in CoThreads, NEW c \in Coroutines, Co!Resume(t, c)
    PROVE  CoInv'
  <1> DEFINE L == Len(stack[t])
             top == Co!Top(t)
  <1>1. /\ L < Depth /\ state[c] \in {"FREE", "SUSPEND"} /\ (c \in Shared => home[c] = t)
        /\ state' = [d \in Coroutines |-> IF d = top THEN "INSTACK" ELSE IF d = c THEN "RUNNING" ELSE state[d]]
        /\ stack' = [stack EXCEPT ![t] = Append(@, c)]
        /\ saved' = [d \in Coroutines |-> \/ d = top /\ top \in Shared
                                          \/ d \notin {top, c} /\ saved[d]]
        /\ frames' = IF c \notin Shared THEN frames
                     ELSE [frames EXCEPT ![t] = IF state[c] = "FREE" \/ saved[c] THEN c ELSE None]
        /\ home' = home /\ refused' = refused
    BY DEF Co!Resume, Co!Resumable, Co!Foreign, Co!SetStates, Co!SwapContext, Co!Saves
  <1>2. /\ stack[t] \in Seq(Coroutines) /\ L \in Nat
        /\ top = IF L = 0 THEN None ELSE stack[t][L]
        /\ L > 0 => L \in Calls(t) /\ top \in Coroutines
        /\ None \notin Coroutines /\ Shared \subseteq Coroutines /\ Depth \in Nat
    BY CallTypes, CoConstants
  <1>3. /\ \A u \in CoThreads : \A k \in Calls(u) :
                stack[u][k] # c /\ stack[u][k] \in Coroutines /\ k \in Nat /\ k <= Len(stack[u])
        /\ c \notin refused
    BY <1>1, OffStacks, CallTypes
  <1>4. /\ \A u \in CoThreads \ {t} : stack'[u] = stack[u]
        /\ stack'[t] = Append(stack[t], c) /\ stack' \in [CoThreads -> Seq(Coroutines)]
    BY <1>1, <1>2 DEF CoInv, CoTypes
  <1>5. /\ Len(stack'[t]) = L + 1 /\ stack'[t][L + 1] = c
        /\ \A k \in Calls(t) : stack'[t][k] = stack[t][k]
    BY <1>2, <1>4 DEF Calls
  <1>6. /\ \A u \in CoThreads \ {t} : Calls(u)' = Calls(u)
        /\ Calls(t)' = Calls(t) \cup {L + 1} /\ L + 1 \notin Calls(t)
    BY <1>2, <1>4, <1>5 DEF Calls
  <1>7. /\ state'[c] = "RUNNING"
        /\ L > 0 => state'[stack[t][L]] = "INSTACK"
        /\ \A d \in Coroutines : d # c /\ (L = 0 \/ d # stack[t][L]) => state'[d] = state[d]
    BY <1>1, <1>2, <1>3
  <1> HIDE DEF L, top
  <1>7a. home' = home /\ refused' = refused /\ c \notin refused
    BY <1>1, <1>3
  <1>7b. \A u \in CoThreads : \A k \in Calls(u)' :
            \/ u = t /\ k = L + 1 /\ stack'[u][k] = c
            \/ k \in Calls(u) /\ stack'[u][k] = stack[u][k] /\ stack[u][k] # c
    BY <1>3, <1>4, <1>5, <1>6
  <1>8. CoTypes'
    <2>1. state' \in [Coroutines -> {"NONE", "FREE", "SUSPEND", "RUNNING", "INSTACK", "DONE"}]
      BY <1>1 DEF CoInv, CoTypes
    <2>2. saved' \in [Coroutines -> BOOLEAN]
      <3>1. \A d \in Coroutines : (\/ d = top /\ top \in Shared
                                   \/ d \notin {top, c} /\ saved[d]) \in BOOLEAN
        OBVIOUS
      <3> QED BY <1>1, <3>1
    <2>3. frames' \in [CoThreads -> Coroutines \cup {None}]
      BY <1>1 DEF CoInv, CoTypes
    <2> QED BY <1>1, <1>4, <2>1, <2>2, <2>3 DEF CoInv, CoTypes
  <1>9. StacksOK'
    <2>1. \A u \in CoThreads : Len(stack'[u]) <= Depth
      BY <1>1, <1>2, <1>4, <1>5 DEF CoInv, StacksOK, L
    <2>2. ASSUME NEW u \in CoThreads, NEW v \in CoThreads, NEW j \in Calls(u)', NEW k \in Calls(v)',
                 stack'[u][j] = stack'[v][k]
          PROVE  u = v /\ j = k
      BY <1>7b, <2>2 DEF CoInv, StacksOK
    <2>3. ASSUME NEW u \in CoThreads, NEW k \in Calls(u)'
          PROVE  state'[stack'[u][k]] = IF k = Len(stack'[u]) THEN "RUNNING" ELSE "INSTACK"
      <3>1. CASE u = t /\ k = L + 1
        BY <1>5, <1>7, <3>1
      <3>2. CASE u = t /\ k # L + 1
        <4>1. k \in Calls(t) /\ stack'[t][k] = stack[t][k] /\ stack[t][k] # c /\ stack[t][k] \in Coroutines
          BY <1>3, <1>5, <1>6, <3>2
        <4>2. CASE k = L
          <5>1. L > 0
            BY <1>2, <4>1, <4>2 DEF Calls
          <5> QED BY <1>5, <1>7, <3>2, <4>1, <4>2, <5>1
        <4>3. CASE k # L
          <5>1. state[stack[t][k]] = "INSTACK"
            BY <4>1, <4>3 DEF CoInv, StacksOK, L
          <5>2. L = 0 \/ stack[t][k] # stack[t][L]
            BY <1>2, <4>1, <4>3 DEF CoInv, StacksOK
          <5> QED BY <1>5, <1>7, <3>2, <4>1, <5>1, <5>2
        <4> QED BY <4>2, <4>3
      <3>3. CASE u # t
        <4>1. k \in Calls(u) /\ stack'[u] = stack[u] /\ stack[u][k] # c /\ stack[u][k] \in Coroutines
          BY <1>3, <1>4, <1>6, <3>3
        <4>2. L = 0 \/ stack[u][k] # stack[t][L]
          BY <1>2, <3>3, <4>1 DEF CoInv, StacksOK
        <4>3. state'[stack[u][k]] = state[stack[u][k]]
          BY <1>7, <4>1, <4>2
        <4> QED BY <4>1, <4>3 DEF CoInv, StacksOK
      <3> QED BY <3>1, <3>2, <3>3
    <2> QED BY <2>1, <2>2, <2>3 DEF StacksOK
  <1>10. StatesOK'
    <2>1. ASSUME NEW d \in Coroutines, NEW u \in CoThreads, NEW k \in Calls(u), stack[u][k] = d
          PROVE  k \in Calls(u)' /\ stack'[u][k] = d
      BY <1>4, <1>5, <1>6, <2>1
    <2>2. ASSUME NEW d \in Coroutines, state'[d] = "INSTACK"
          PROVE  \E u \in CoThreads : \E k \in Calls(u)' : stack'[u][k] = d
      <3>1. \E u \in CoThreads : \E k \in Calls(u) : stack[u][k] = d
        BY <1>2, <1>7, <2>2 DEF CoInv, StatesOK
      <3> QED BY <2>1, <3>1
    <2>3. ASSUME NEW d \in Coroutines, state'[d] = "RUNNING"
          PROVE  d \in refused' \/ \E u \in CoThreads : \E k \in Calls(u)' : stack'[u][k] = d
      <3>1. CASE d = c
        BY <1>5, <1>6, <3>1
      <3>2. CASE d # c
        <4>1. state[d] = "RUNNING"
          <5>1. L = 0 \/ d # stack[t][L]
            BY <1>2, <1>7, <2>3
          <5> QED BY <1>7, <2>3, <3>2, <5>1
        <4>2. CASE d \in refused
          BY <1>1, <4>2
        <4>3. CASE \E u \in CoThreads : \E k \in Calls(u) : stack[u][k] = d
          <5>1. PICK u \in CoThreads : \E k \in Calls(u) : stack[u][k] = d
            BY <4>3
          <5>2. PICK k \in Calls(u) : stack[u][k] = d
            BY <5>1
          <5> QED BY <2>1, <5>2
        <4> QED BY <4>1, <4>2, <4>3 DEF CoInv, StatesOK
      <3> QED BY <3>1, <3>2
    <2>4. ASSUME NEW d \in refused' PROVE state'[d] = "RUNNING"
      <3>1. d \in refused /\ d \in Coroutines /\ d # c /\ state[d] = "RUNNING"
        BY <1>1, <1>3 DEF CoInv, CoTypes, StatesOK
      <3>2. L = 0 \/ d # stack[t][L]
        BY <1>2, <3>1 DEF CoInv, StatesOK
      <3> QED BY <1>7, <3>1, <3>2
    <2>5. ASSUME NEW u \in CoThreads, NEW k \in Calls(u)' PROVE stack'[u][k] \notin refused'
      <3>1. CASE u = t /\ k = L + 1 /\ stack'[u][k] = c
        BY <1>7a, <3>1
      <3>2. CASE k \in Calls(u) /\ stack'[u][k] = stack[u][k]
        <4>1. stack[u][k] \notin refused
          BY <3>2 DEF CoInv, StatesOK
        <4> QED BY <1>7a, <3>2, <4>1
      <3> QED BY <1>7b, <3>1, <3>2
    <2> QED BY <2>2, <2>3, <2>4, <2>5 DEF StatesOK
  <1>11. FramesOK'
    <2>1. ASSUME NEW u \in CoThreads, NEW k \in Calls(u)', stack'[u][k] \in Shared
          PROVE  home'[stack'[u][k]] = u
      <3>1. CASE u = t /\ k = L + 1 /\ stack'[u][k] = c
        BY <1>1, <2>1, <3>1
      <3>2. CASE k \in Calls(u) /\ stack'[u][k] = stack[u][k]
        <4>1. stack[u][k] \in Shared => home[stack[u][k]] = u
          BY <3>2 DEF CoInv, FramesOK
        <4> QED BY <1>7a, <2>1, <3>2, <4>1
      <3> QED BY <1>7b, <3>1, <3>2
    <2>2. ASSUME NEW u \in CoThreads, NEW k \in Calls(u)', k = Len(stack'[u]), stack'[u][k] \in Shared
          PROVE  frames'[u] = stack'[u][k]
      <3>1. CASE u = t
        <4>1. k = L + 1 /\ stack'[u][k] = c /\ c \in Shared
          BY <1>5, <2>2, <3>1
        <4>2. state[c] = "FREE" \/ saved[c]
          BY <1>1, <4>1 DEF CoInv, FramesOK
        <4>3. frames'[t] = c
          BY <1>1, <4>1, <4>2 DEF CoInv, CoTypes
        <4> QED BY <3>1, <4>1, <4>3
      <3>2. CASE u # t
        <4>1. frames'[u] = frames[u] /\ stack'[u] = stack[u] /\ k \in Calls(u)
          BY <1>1, <1>4, <1>6, <3>2 DEF CoInv, CoTypes
        <4> QED BY <2>2, <4>1 DEF CoInv, FramesOK
      <3> QED BY <3>1, <3>2
    <2>3. ASSUME NEW d \in Shared
          PROVE  saved'[d] <=> state'[d] \in {"SUSPEND", "INSTACK"} \/ d \in refused'
      <3>1. d \in Coroutines
        BY <1>2
      <3>2. CASE d = top
        <4>1. saved'[d]
          BY <1>1, <3>1, <3>2
        <4>2. state'[d] = "INSTACK"
          BY <1>1, <3>1, <3>2
        <4> QED BY <4>1, <4>2
      <3>3. CASE d = c /\ d # top
        <4>1. ~saved'[d] /\ state'[d] = "RUNNING" /\ d \notin refused'
          BY <1>1, <1>3, <3>1, <3>3
        <4> QED BY <4>1
      <3>4. CASE d # c /\ d # top
        <4>1. saved'[d] <=> saved[d]
          BY <1>1, <3>1, <3>4
        <4>2. state'[d] = state[d] /\ refused' = refused
          BY <1>1, <3>1, <3>4
        <4>3. saved[d] <=> state[d] \in {"SUSPEND", "INSTACK"} \/ d \in refused
          BY DEF CoInv, FramesOK
        <4> QED BY <4>1, <4>2, <4>3
      <3> QED BY <3>2, <3>3, <3>4
    <2> QED BY <2>1, <2>2, <2>3 DEF FramesOK
  <1> QED
    BY <1>8, <1>9, <1>10, <1>11 DEF CoInv

\* yield, or the end of a coroutine, goes back to the one below.
LEMMA LeaveStep ==
    ASSUME CoInv, NEW t \in CoThreads, NEW s \in {"SUSPEND", "DONE"}, Co!Leave(t, s)
    PROVE  CoInv'
  <1> DEFINE L == Len(stack[t])
             top == Co!Top(t)
             below == Co!Below(t)
  <1>1. /\ top # None
        /\ state' = [d \in Coroutines |-> IF d = top THEN s ELSE IF d = below THEN "RUNNING" ELSE state[d]]
        /\ stack' = [stack EXCEPT ![t] = SubSeq(@, 1, Len(@) - 1)]
        /\ saved' = [d \in Coroutines |-> \/ d = top /\ (top \in Shared /\ ~(s = "DONE"))
                                          \/ d \notin {top, below} /\ saved[d]]
        /\ frames' = IF below \notin Shared THEN frames
                     ELSE [frames EXCEPT ![t] = IF state[below] = "FREE" \/ saved[below] THEN below ELSE None]
        /\ home' = home /\ refused' = refused
    BY DEF Co!Leave, Co!SetStates, Co!SwapContext, Co!Saves
  <1>2. /\ stack[t] \in Seq(Coroutines) /\ L \in Nat /\ L > 0
        /\ top = stack[t][L] /\ L \in Calls(t) /\ top \in Coroutines
        /\ None \notin Coroutines /\ Shared \subseteq Coroutines /\ Depth \in Nat
    BY <1>1, CallTypes, CoConstants
  <1>3. /\ L = 1 => below = None
        /\ L > 1 => below = stack[t][L - 1] /\ L - 1 \in Calls(t) /\ below \in Coroutines /\ below # top
    <2>1. L > 1 => L - 1 \in Calls(t)
      BY <1>2 DEF Calls
    <2>2. L > 1 => stack[t][L - 1] \in Coroutines /\ stack[t][L - 1] # stack[t][L]
      BY <1>2, <2>1, CallTypes DEF CoInv, StacksOK
    <2> QED BY <1>2, <2>1, <2>2 DEF Co!Below
  <1>4. /\ \A u \in CoThreads \ {t} : stack'[u] = stack[u]
        /\ stack'[t] = SubSeq(stack[t], 1, L - 1)
    BY <1>1, <1>2 DEF CoInv, CoTypes
  <1>5. /\ stack'[t] \in Seq(Coroutines) /\ Len(stack'[t]) = L - 1
        /\ \A k \in 1..L - 1 : stack'[t][k] = stack[t][k]
    <2>1. L - 1 \in 0..Len(stack[t])
      BY <1>2
    <2> HIDE DEF L
    <2>2. \A q \in Seq(Coroutines) : \A n \in 0..Len(q) :
              /\ SubSeq(q, 1, n) \in Seq(Coroutines) /\ Len(SubSeq(q, 1, n)) = n
              /\ \A k \in 1..n : SubSeq(q, 1, n)[k] = q[k]
      OBVIOUS
    <2> QED BY <1>2, <1>4, <2>1, <2>2
  <1>6. stack' \in [CoThreads -> Seq(Coroutines)]
    BY <1>1, <1>4, <1>5 DEF CoInv, CoTypes
  <1>7. \A u \in CoThreads : \A k \in Calls(u)' :
            /\ k \in Calls(u) /\ stack'[u][k] = stack[u][k] /\ stack[u][k] # top
            /\ stack[u][k] \in Coroutines
    <2> SUFFICES ASSUME NEW u \in CoThreads, NEW k \in Calls(u)'
                 PROVE  /\ k \in Calls(u) /\ stack'[u][k] = stack[u][k] /\ stack[u][k] # top
                        /\ stack[u][k] \in Coroutines
      OBVIOUS
    <2>1. k \in Calls(u) /\ stack'[u][k] = stack[u][k] /\ (u # t \/ k # L)
      <3>1. CASE u # t
        <4>1. stack'[u] = stack[u]
          BY <1>4, <3>1
        <4> QED BY <3>1, <4>1 DEF Calls
      <3>2. CASE u = t
        <4>1. k \in 1..L - 1
          BY <1>5, <3>2 DEF Calls
        <4>2. k \in 1..L /\ k # L
          BY <1>2, <4>1
        <4> QED BY <1>5, <3>2, <4>1, <4>2 DEF Calls
      <3> QED BY <3>1, <3>2
    <2>2. stack[u][k] # stack[t][L]
      BY <1>2, <2>1 DEF CoInv, StacksOK
    <2> QED BY <1>2, <2>1, <2>2, CallTypes
  <1>8. ASSUME NEW u \in CoThreads, NEW k \in Calls(u), stack[u][k] # top
        PROVE  k \in Calls(u)' /\ stack'[u][k] = stack[u][k]
    <2>1. CASE u # t
      <3>1. stack'[u] = stack[u]
        BY <1>4, <2>1
      <3> QED BY <3>1 DEF Calls
    <2>2. CASE u = t
      <3>1. k \in 1..L /\ k # L
        BY <1>2, <1>8, <2>2 DEF Calls
      <3>2. k \in 1..L - 1
        BY <1>2, <3>1
      <3> QED BY <1>5, <2>2, <3>2 DEF Calls
    <2> QED BY <2>1, <2>2
  <1> HIDE DEF L, top, below
  <1>9. \A d \in Coroutines : state'[d] = IF d = top THEN s ELSE IF d = below THEN "RUNNING" ELSE state[d]
    BY <1>1
  <1>10. state[top] = "RUNNING" /\ (L > 1 => state[below] = "INSTACK")
    BY <1>2, <1>3 DEF CoInv, StacksOK, L
  <1>11. top \notin refused /\ (L > 1 => below \notin refused)
    BY <1>2, <1>3 DEF CoInv, StatesOK
  <1>12. CoTypes'
    <2>1. state' \in [Coroutines -> {"NONE", "FREE", "SUSPEND", "RUNNING", "INSTACK", "DONE"}]
      BY <1>1 DEF CoInv, CoTypes
    <2>2. saved' \in [Coroutines -> BOOLEAN]
      <3>1. \A d \in Coroutines : (\/ d = top /\ (top \in Shared /\ ~(s = "DONE"))
                                   \/ d \notin {top, below} /\ saved[d]) \in BOOLEAN
        OBVIOUS
      <3> QED BY <1>1, <3>1
    <2>3. frames' \in [CoThreads -> Coroutines \cup {None}]
      BY <1>1, <1>2 DEF CoInv, CoTypes
    <2> QED BY <1>1, <1>6, <2>1, <2>2, <2>3 DEF CoInv, CoTypes
  <1>13. StacksOK'
    <2>1. \A u \in CoThreads : Len(stack'[u]) <= Depth
      BY <1>2, <1>4, <1>5 DEF CoInv, StacksOK, L
    <2>2. \A u, v \in CoThreads : \A j \in Calls(u)', k \in Calls(v)' :
              stack'[u][j] = stack'[v][k] => u = v /\ j = k
      BY <1>7 DEF CoInv, StacksOK
    <2>3. ASSUME NEW u \in CoThreads, NEW k \in Calls(u)'
          PROVE  state'[stack'[u][k]] = IF k = Len(stack'[u]) THEN "RUNNING" ELSE "INSTACK"
      <3>1. /\ k \in Calls(u) /\ stack'[u][k] = stack[u][k] /\ stack[u][k] # top
            /\ stack[u][k] \in Coroutines
        BY <1>7
      <3>2. state[stack[u][k]] = IF k = Len(stack[u]) THEN "RUNNING" ELSE "INSTACK"
        BY <3>1 DEF CoInv, StacksOK
      <3>3. CASE u = t
        <4>1. Len(stack'[u]) = L - 1 /\ Len(stack[u]) = L /\ k \in 1..L - 1
          BY <1>5, <3>3 DEF Calls, L
        <4>2. k # Len(stack[u]) /\ L > 1
          BY <1>2, <4>1
        <4>3. stack[u][k] = below <=> k = L - 1
          BY <1>3, <3>1, <3>3, <4>2 DEF CoInv, StacksOK
        <4> QED BY <1>9, <3>1, <3>2, <4>1, <4>2, <4>3
      <3>4. CASE u # t
        <4>1. Len(stack'[u]) = Len(stack[u])
          BY <1>4, <3>4
        <4>2. L > 1 => stack[u][k] # below
          BY <1>3, <3>1, <3>4 DEF CoInv, StacksOK
        <4>3. L = 1 => stack[u][k] # below
          BY <1>2, <1>3, <3>1
        <4>4. stack[u][k] # below
          BY <1>2, <4>2, <4>3
        <4> QED BY <1>9, <3>1, <3>2, <4>1, <4>4
      <3> QED BY <3>3, <3>4
    <2> QED BY <2>1, <2>2, <2>3 DEF StacksOK
  <1>14. \A d \in Coroutines : d = below => L > 1
    BY <1>2, <1>3
  <1>14a. home' = home /\ refused' = refused
    BY <1>1
  <1>15. StatesOK'
    <2>1. ASSUME NEW d \in Coroutines, d # top, \E u \in CoThreads : \E k \in Calls(u) : stack[u][k] = d
          PROVE  \E u \in CoThreads : \E k \in Calls(u)' : stack'[u][k] = d
      <3>1. PICK u \in CoThreads : \E k \in Calls(u) : stack[u][k] = d
        BY <2>1
      <3>2. PICK k \in Calls(u) : stack[u][k] = d
        BY <3>1
      <3>3. k \in Calls(u)' /\ stack'[u][k] = d
        BY <1>8, <2>1, <3>2
      <3> QED BY <3>3
    <2>2. ASSUME NEW d \in Coroutines, state'[d] = "INSTACK"
          PROVE  \E u \in CoThreads : \E k \in Calls(u)' : stack'[u][k] = d
      <3>1. d # top /\ state[d] = "INSTACK"
        BY <1>9, <2>2
      <3> QED BY <2>1, <3>1 DEF CoInv, StatesOK
    <2>3. ASSUME NEW d \in Coroutines, state'[d] = "RUNNING", d \notin refused'
          PROVE  \E u \in CoThreads : \E k \in Calls(u)' : stack'[u][k] = d
      <3>1. d # top
        BY <1>9, <2>3
      <3>2. CASE d = below
        <4>1. L > 1
          BY <1>14, <3>2
        <4>2. \E u \in CoThreads : \E k \in Calls(u) : stack[u][k] = d
          BY <1>3, <3>2, <4>1
        <4> QED BY <2>1, <3>1, <4>2
      <3>3. CASE d # below
        <4>1. state[d] = "RUNNING" /\ d \notin refused
          BY <1>1, <1>9, <2>3, <3>1, <3>3
        <4>2. \E u \in CoThreads : \E k \in Calls(u) : stack[u][k] = d
          BY <4>1 DEF CoInv, StatesOK
        <4> QED BY <2>1, <3>1, <4>2
      <3> QED BY <3>2, <3>3
    <2>4. ASSUME NEW d \in refused' PROVE state'[d] = "RUNNING"
      <3>1. d \in refused /\ d \in Coroutines /\ state[d] = "RUNNING" /\ d # top
        BY <1>1, <1>11 DEF CoInv, CoTypes, StatesOK
      <3> QED BY <1>9, <3>1
    <2>5. ASSUME NEW u \in CoThreads, NEW k \in Calls(u)' PROVE stack'[u][k] \notin refused'
      <3>1. k \in Calls(u) /\ stack'[u][k] = stack[u][k]
        BY <1>7
      <3>2. stack[u][k] \notin refused
        BY <3>1 DEF CoInv, StatesOK
      <3> QED BY <1>14a, <3>1, <3>2
    <2> QED BY <2>2, <2>3, <2>4, <2>5 DEF StatesOK
  <1>16. FramesOK'
    <2>1. ASSUME NEW u \in CoThreads, NEW k \in Calls(u)', stack'[u][k] \in Shared
          PROVE  home'[stack'[u][k]] = u
      <3>1. k \in Calls(u) /\ stack'[u][k] = stack[u][k]
        BY <1>7
      <3>2. stack[u][k] \in Shared => home[stack[u][k]] = u
        BY <3>1 DEF CoInv, FramesOK
      <3> QED BY <1>14a, <2>1, <3>1, <3>2
    <2>2. ASSUME NEW u \in CoThreads, NEW k \in Calls(u)', k = Len(stack'[u]), stack'[u][k] \in Shared
          PROVE  frames'[u] = stack'[u][k]
      <3>1. k \in Calls(u) /\ stack'[u][k] = stack[u][k]
        BY <1>7
      <3>2. CASE u = t
        <4>1. k = L - 1 /\ L > 1
          BY <1>2, <1>5, <2>2, <3>1, <3>2 DEF Calls
        <4>2. stack[u][k] = below /\ below \in Shared
          BY <1>3, <2>2, <3>1, <3>2, <4>1
        <4>3. saved[below]
          BY <1>10, <4>1, <4>2 DEF CoInv, FramesOK
        <4>4. frames'[t] = below
          BY <1>1, <4>2, <4>3 DEF CoInv, CoTypes
        <4> QED BY <3>1, <3>2, <4>2, <4>4
      <3>3. CASE u # t
        <4>1. frames'[u] = frames[u] /\ stack'[u] = stack[u]
          BY <1>1, <1>4, <3>3 DEF CoInv, CoTypes
        <4> QED BY <2>2, <3>1, <4>1 DEF CoInv, FramesOK
      <3> QED BY <3>2, <3>3
    <2>3. ASSUME NEW d \in Shared
          PROVE  saved'[d] <=> state'[d] \in {"SUSPEND", "INSTACK"} \/ d \in refused'
      <3>1. d \in Coroutines
        BY <1>2
      <3>2. CASE d = top
        <4>1. saved'[d] <=> s # "DONE"
          BY <1>1, <3>1, <3>2
        <4>2. state'[d] = s /\ d \notin refused'
          BY <1>1, <1>9, <1>11, <3>1, <3>2
        <4> QED BY <4>1, <4>2
      <3>3. CASE d = below /\ d # top
        <4>1. ~saved'[d] /\ state'[d] = "RUNNING" /\ d \notin refused'
          BY <1>1, <1>9, <1>11, <1>14, <3>1, <3>3
        <4> QED BY <4>1
      <3>4. CASE d # below /\ d # top
        <4>1. saved'[d] <=> saved[d]
          BY <1>1, <3>1, <3>4
        <4>2. state'[d] = state[d] /\ refused' = refused
          BY <1>1, <1>9, <3>1, <3>4
        <4>3. saved[d] <=> state[d] \in {"SUSPEND", "INSTACK"} \/ d \in refused
          BY DEF CoInv, FramesOK
        <4> QED BY <4>1, <4>2, <4>3
      <3> QED BY <3>2, <3>3, <3>4
    <2> QED BY <2>1, <2>2, <2>3 DEF FramesOK
  <1> QED
    BY <1>12, <1>13, <1>15, <1>16 DEF CoInv

LEMMA NextCo == CoInv /\ [Co!Next]_coVars => CoInv'
  <1> SUFFICES ASSUME CoInv, [Co!Next]_coVars PROVE CoInv'
    OBVIOUS
  <1>1. CASE UNCHANGED coVars
    BY <1>1 DEF coVars, CoInv, CoTypes, StacksOK, StatesOK, FramesOK, Calls
  <1>2. ASSUME NEW t \in CoThreads, Co!Use(t, Coroutines) PROVE CoInv'
    <2>1. CASE \E c \in Coroutines : \/ Co!New(t, c) \/ Co!Resume(t, c) \/ Co!Refuse(t, c)
                                    \/ Co!ResumeFails(t, c) \/ Co!Delete(c)
      BY <2>1, OffStackStep, ResumeStep
    <2>2. CASE Co!Yield(t) \/ Co!Finish(t)
      BY <2>2, LeaveStep DEF Co!Yield, Co!Finish
    <2> QED BY <1>2, <2>1, <2>2 DEF Co!Use
  <1> QED
    BY <1>1, <1>2 DEF Co!Next

LEMMA CoInvIsSafe == CoInv => CoroutineSafe
  <1> SUFFICES ASSUME CoInv PROVE Co!StackSafe /\ Co!FramesSafe
    BY DEF CoroutineSafe, Co!CoroutineSafe
  <1>1. ASSUME NEW p \in Co!Places
        PROVE  /\ p[1] \in CoThreads /\ p[2] \in Calls(p[1]) /\ Co!At(p) = stack[p[1]][p[2]]
               /\ p = <<p[1], p[2]>>
    BY CallTypes DEF Co!Places, Co!At, Calls
  <1>2. ASSUME NEW t \in CoThreads, NEW k \in Calls(t)
        PROVE  <<t, k>> \in Co!Places /\ Co!At(<<t, k>>) = stack[t][k]
    <2>1. k \in 1..Depth /\ k <= Len(stack[t])
      BY CallTypes, CoConstants DEF CoInv, StacksOK
    <2> QED BY <2>1 DEF Co!Places, Co!At
  <1>3. ASSUME NEW c \in Coroutines, NEW t \in CoThreads
        PROVE  c = Co!Top(t) <=> \E k \in Calls(t) : k = Len(stack[t]) /\ stack[t][k] = c
    BY CallTypes, CoConstants
  <1>4. \A t \in CoThreads : Len(stack[t]) <= Depth
    BY DEF CoInv, StacksOK
  <1>5. \A p, q \in Co!Places : Co!At(p) = Co!At(q) => p = q
    BY <1>1 DEF CoInv, StacksOK
  <1>6. ASSUME NEW c \in Coroutines
        PROVE  state[c] = "RUNNING" <=> c \in refused \/ \E t \in CoThreads : c = Co!Top(t)
    BY <1>3 DEF CoInv, StacksOK, StatesOK
  <1>7. ASSUME NEW c \in Coroutines
        PROVE  state[c] = "INSTACK" <=> \E p \in Co!Places : Co!At(p) = c /\ p[2] < Len(stack[p[1]])
    <2>1. ASSUME state[c] = "INSTACK"
          PROVE  \E p \in Co!Places : Co!At(p) = c /\ p[2] < Len(stack[p[1]])
      <3>1. PICK t \in CoThreads : \E k \in Calls(t) : stack[t][k] = c
        BY <2>1 DEF CoInv, StatesOK
      <3>2. PICK k \in Calls(t) : stack[t][k] = c
        BY <3>1
      <3>3. k # Len(stack[t])
        BY <2>1, <3>2 DEF CoInv, StacksOK
      <3>4. k < Len(stack[t])
        BY <3>3, CallTypes
      <3>5. <<t, k>> \in Co!Places /\ Co!At(<<t, k>>) = c /\ <<t, k>>[2] < Len(stack[<<t, k>>[1]])
        BY <1>2, <3>2, <3>4
      <3> QED BY <3>5
    <2>2. ASSUME NEW p \in Co!Places, Co!At(p) = c, p[2] < Len(stack[p[1]])
          PROVE  state[c] = "INSTACK"
      BY <1>1, <2>2, CallTypes DEF CoInv, StacksOK
    <2> QED BY <2>1, <2>2
  <1>8. Co!StackSafe
    BY <1>4, <1>5, <1>6, <1>7 DEF Co!StackSafe
  <1>9. ASSUME NEW c \in Shared
        PROVE  /\ \A t \in CoThreads : c = Co!Top(t) => t = home[c] /\ frames[t] = c
               /\ saved[c] <=> state[c] \in {"SUSPEND", "INSTACK"} \/ c \in refused
    BY <1>3, CoConstants DEF CoInv, FramesOK
  <1> QED
    BY <1>8, <1>9 DEF Co!FramesSafe

\* States, call stacks and frames agree for any number of threads and coroutines and any depth of
\* the stacks, whoever resumes whom, also where resume refuses.
THEOREM CoroutinesAreSafe == BlocksSpec => []CoroutineSafe
  <1>1. Co!CoInit => CoInv
    BY InitCo
  <1>2. CoInv /\ [Co!Next]_coVars => CoInv'
    BY NextCo
  <1>3. CoInv => CoroutineSafe
    BY CoInvIsSafe
  <1> QED
    BY <1>1, <1>2, <1>3, Parts, PTL
-----------------------------------------------------------------------------
(***************************************************************************)
(* logfile (logfile.cpp).                                                  *)
(***************************************************************************)
\* The letters that files get, and the place of each in the order of a second.
LetterOK(l) == l \in A..Z \/ l \in a..CharMod - 1 \/ l \in 0..Slash - 1

Nth(l) ==
    IF l < A THEN l + (CharMod - a) + (Z - A + 1)
    ELSE IF l <= Z THEN l - A ELSE l - a + (Z - A + 1)

\* The order of files, by time and letter.
Before(m, n) == m[1] < n[1] \/ (m[1] = n[1] /\ Nth(m[2]) < Nth(n[2]))

\* The last n + 1 of the files f were made in the second s.
Streak(f, n, s) == \A k \in 0..n : k < Len(f) /\ f[Len(f) - k][1] = s

FileTypes ==
    /\ time \in Nat /\ lastRoll \in Nat /\ tie \in Nat /\ lastRoll <= time
    /\ made \in Seq(Nat \X Nat) /\ contents \in Seq(Seq(Nat))
    /\ Len(made) = Len(contents) /\ Len(contents) > 0
    /\ len \in Nat /\ logged \in Nat /\ writtenBytes \in 0..rollsize_
    /\ temp \in Nat /\ remain \in Nat /\ temp <= len /\ writtenBytes + temp <= rollsize_
    /\ short \subseteq 1..Len(contents) /\ aborted \in BOOLEAN

\* The files are made in their order; the last one has the last time and letter, and before it
\* there was one with each letter that comes before its own.
NamesOK ==
    /\ \A j, k \in 1..Len(made) : j < k => Before(made[j], made[k])
    /\ ~aborted => /\ LetterOK(tie) /\ made[Len(made)] = <<lastRoll, tie>>
                   /\ Streak(made, Nth(tie), lastRoll)
    /\ aborted => Streak(made, LF!Letters - 1, time)

\* The first fwrite of an append is given all there is to write.
ContentsOK ==
    /\ logged = (Len(contents) - 1) * rollsize_ + writtenBytes
    /\ \A k \in 1..Len(contents) : \A n \in 1..Len(contents[k]) :
            contents[k][n] \in (k - 1) * rollsize_ + 1..k * rollsize_
    /\ \A k \in 1..Len(contents) : k \notin short =>
            /\ Len(contents[k]) = IF k < Len(contents) THEN rollsize_ ELSE writtenBytes
            /\ \A n \in 1..Len(contents[k]) : contents[k][n] = (k - 1) * rollsize_ + n
    /\ Len(contents) \notin short => remain = temp \/ temp = 0

FileInv == FileTypes /\ NamesOK /\ ContentsOK

LEMMA FileConstants ==
    /\ rollsize_ \in Nat \ {0} /\ SizeMod \in Nat \ {0} /\ rollsize_ < SizeMod
    /\ A \in Nat /\ Z \in Nat /\ a \in Nat /\ Slash \in Nat /\ CharMod \in Nat \ {0}
    /\ Slash < A /\ A <= Z /\ Z < a /\ a < CharMod
    /\ MaxRecord \in Nat
  BY BlocksAssumption DEF LF!LogFileAssumption

\* The first letter of a second.
LEMMA FirstLetter == LetterOK(A) /\ Nth(A) = 0 /\ A # Slash
  BY FileConstants DEF LetterOK, Nth

\* In the same second the next letter follows, until '/' is reached after all of them.
LEMMA NextLetter ==
    ASSUME NEW l \in Nat, LetterOK(l), NEW s
    PROVE  /\ Nth(l) \in Nat /\ LF!Letters \in Nat
           /\ LF!Tie(s, s, l) \in Nat
           /\ LF!Tie(s, s, l) = Slash => Nth(l) = LF!Letters - 1
           /\ LF!Tie(s, s, l) # Slash => LetterOK(LF!Tie(s, s, l)) /\ Nth(LF!Tie(s, s, l)) = Nth(l) + 1
  <1>1. Nth(l) \in Nat /\ LF!Letters \in Nat
    BY FileConstants DEF LetterOK, Nth, LF!Letters
  <1>2. CASE l = Z
    <2>1. LF!Tie(s, s, l) = a
      BY <1>2 DEF LF!Tie
    <2> QED BY <1>1, <1>2, <2>1, FileConstants DEF LetterOK, Nth, LF!Letters
  <1>3. CASE l # Z /\ l + 1 < CharMod
    <2>1. (l + 1) % CharMod = l + 1
      <3>1. l + 1 \in 0..CharMod - 1 /\ l + 1 = CharMod * 0 + (l + 1)
        BY <1>3, FileConstants
      <3> QED BY <3>1, UniqueRemainder, FileConstants
    <2>2. LF!Tie(s, s, l) = l + 1
      BY <1>3, <2>1 DEF LF!Tie
    <2> QED BY <1>1, <1>3, <2>2, FileConstants DEF LetterOK, Nth, LF!Letters
  <1>4. CASE l # Z /\ ~(l + 1 < CharMod)
    <2>1. l = CharMod - 1
      BY <1>4, FileConstants DEF LetterOK
    <2>2. (l + 1) % CharMod = 0
      <3>1. 0 \in 0..CharMod - 1 /\ l + 1 = CharMod * 1 + 0 /\ l + 1 \in Int
        BY <2>1, FileConstants
      <3> QED BY <3>1, UniqueRemainder, FileConstants
    <2>3. LF!Tie(s, s, l) = 0
      BY <1>4, <2>2 DEF LF!Tie
    <2> QED BY <1>1, <2>1, <2>3, FileConstants DEF LetterOK, Nth, LF!Letters
  <1> QED
    BY <1>2, <1>3, <1>4

LEMMA InitFile == LF!Init => FileInv
  <1> SUFFICES ASSUME LF!Init PROVE FileInv
    OBVIOUS
  <1> DEFINE first == <<1, A>>
             empty == <<>>
  <1>1. /\ time = 1 /\ lastRoll = 1 /\ tie = A /\ len = 0 /\ logged = 0 /\ writtenBytes = 0
        /\ temp = 0 /\ remain = 0 /\ short = {} /\ aborted = FALSE
        /\ made = <<first>> /\ contents = <<empty>>
    BY DEF LF!Init
  <1>2. first \in Nat \X Nat /\ empty \in Seq(Nat) /\ Len(empty) = 0
    BY FileConstants
  <1>3. first = <<lastRoll, tie>> /\ first[1] = 1
    BY <1>1
  <1> HIDE DEF first, empty
  <1>4. /\ made \in Seq(Nat \X Nat) /\ Len(made) = 1 /\ made[1] = first
        /\ contents \in Seq(Seq(Nat)) /\ Len(contents) = 1 /\ contents[1] = empty
    BY <1>1, <1>2
  <1>5. FileTypes
    <2>1. /\ 1 \in Nat /\ 0 \in Nat /\ A \in Nat /\ 1 <= 1 /\ 1 > 0 /\ 0 <= 0
          /\ 0 \in 0..rollsize_ /\ 0 + 0 <= rollsize_
      BY FileConstants
    <2>2. short \subseteq 1..1 /\ aborted \in BOOLEAN
      BY <1>1
    <2> QED BY <1>1, <1>4, <2>1, <2>2 DEF FileTypes
  <1>6. NamesOK
    <2>1. Streak(made, Nth(tie), lastRoll)
      BY <1>1, <1>3, <1>4, FirstLetter DEF Streak
    <2> QED BY <1>1, <1>3, <1>4, <2>1, FirstLetter DEF NamesOK
  <1>7. ContentsOK
    BY <1>1, <1>2, <1>4, FileConstants DEF ContentsOK
  <1> QED
    BY <1>5, <1>6, <1>7 DEF FileInv

\* The next file comes after the last one.
LEMMA NextName ==
    ASSUME FileInv, ~aborted, NEW letter, letter = LF!Tie(time, lastRoll, tie)
    PROVE  /\ letter \in Nat
           /\ letter = Slash => time = lastRoll /\ Nth(tie) = LF!Letters - 1
           /\ letter # Slash => /\ LetterOK(letter) /\ Before(<<lastRoll, tie>>, <<time, letter>>)
                                /\ \/ Nth(letter) = 0
                                   \/ time = lastRoll /\ Nth(letter) = Nth(tie) + 1 /\ Nth(tie) \in Nat
  <1>1. time \in Nat /\ lastRoll \in Nat /\ tie \in Nat /\ lastRoll <= time /\ LetterOK(tie)
    BY DEF FileInv, FileTypes, NamesOK
  <1>2. CASE time # lastRoll
    <2>1. letter = A
      BY <1>2 DEF LF!Tie
    <2> QED BY <1>1, <1>2, <2>1, FirstLetter, FileConstants DEF Before
  <1>3. CASE time = lastRoll
    <2>1. letter = LF!Tie(time, time, tie)
      BY <1>3
    <2>2. /\ Nth(tie) \in Nat /\ letter \in Nat
          /\ letter = Slash => Nth(tie) = LF!Letters - 1
          /\ letter # Slash => LetterOK(letter) /\ Nth(letter) = Nth(tie) + 1
      BY <1>1, <2>1, NextLetter
    <2> HIDE DEF Nth
    <2> QED BY <1>1, <1>3, <2>2 DEF Before
  <1> QED
    BY <1>2, <1>3

\* Files that come one after the other do so also with others between them.
LEMMA BeforeTransitive ==
    ASSUME NEW l \in Nat \X Nat, NEW m \in Nat \X Nat, NEW n \in Nat \X Nat,
           Nth(l[2]) \in Int, Nth(m[2]) \in Int, Nth(n[2]) \in Int,
           Before(l, m), Before(m, n)
    PROVE  Before(l, n)
  <1> HIDE DEF Nth
  <1> QED BY DEF Before

\* There is no name for another file: one was made with each letter in this second.
LEMMA AbortStep ==
    ASSUME FileInv, ~aborted, LF!RollFile, tie' = Slash
    PROVE  FileInv'
  <1>1. /\ tie' = LF!Tie(time, lastRoll, tie) /\ lastRoll' = time /\ aborted' = TRUE
        /\ UNCHANGED <<time, made, contents, writtenBytes, len, temp, remain, logged, short>>
    BY DEF LF!RollFile
  <1>2. tie' \in Nat /\ time = lastRoll /\ Nth(tie) = LF!Letters - 1
    BY <1>1, NextName
  <1>3. Streak(made, LF!Letters - 1, time)
    BY <1>2 DEF FileInv, NamesOK
  <1>4. FileTypes'
    BY <1>1, <1>2 DEF FileInv, FileTypes
  <1>5. NamesOK'
    <2>1. Streak(made, LF!Letters - 1, time)'
      BY <1>1, <1>3 DEF Streak
    <2> QED BY <1>1, <2>1 DEF FileInv, NamesOK, Before
  <1>6. ContentsOK'
    BY <1>1 DEF FileInv, ContentsOK
  <1> QED
    BY <1>4, <1>5, <1>6 DEF FileInv

\* A full file is followed by an empty one.
LEMMA RollStep ==
    ASSUME FileInv, ~aborted, LF!RollFile, tie' # Slash
    PROVE  FileInv'
  <1> DEFINE N == Len(made)
             letter == LF!Tie(time, lastRoll, tie)
             next == <<time, letter>>
             empty == <<>>
  <1>1. /\ writtenBytes = rollsize_ /\ temp = 0
        /\ tie' = letter /\ lastRoll' = time /\ made' = Append(made, next)
        /\ contents' = Append(contents, empty) /\ writtenBytes' = 0
        /\ UNCHANGED <<time, len, temp, remain, logged, short, aborted>>
    BY DEF LF!RollFile
  <1>2. /\ made \in Seq(Nat \X Nat) /\ contents \in Seq(Seq(Nat)) /\ Len(contents) = N /\ N \in Nat /\ N > 0
        /\ time \in Nat /\ logged \in Nat /\ short \subseteq 1..N
    BY DEF FileInv, FileTypes
  <1>3. /\ letter \in Nat /\ LetterOK(letter) /\ Before(made[N], next) /\ next \in Nat \X Nat
        /\ \/ Nth(letter) = 0
           \/ time = lastRoll /\ Nth(letter) = Nth(tie) + 1 /\ Nth(tie) \in Nat
    BY <1>1, <1>2, NextName DEF FileInv, NamesOK
  <1>4. empty \in Seq(Nat) /\ Len(empty) = 0 /\ next[1] = time
    OBVIOUS
  <1> HIDE DEF letter, next, empty
  <1>5. /\ made' \in Seq(Nat \X Nat) /\ Len(made') = N + 1 /\ made'[N + 1] = next
        /\ \A k \in 1..N : made'[k] = made[k]
    BY <1>1, <1>2, <1>3
  <1>6. /\ contents' \in Seq(Seq(Nat)) /\ Len(contents') = N + 1 /\ contents'[N + 1] = empty
        /\ \A k \in 1..N : contents'[k] = contents[k]
    BY <1>1, <1>2, <1>4
  <1>7. \A k \in 1..N : made[k] \in Nat \X Nat
    BY <1>2
  <1> HIDE DEF N
  <1>8. FileTypes'
    <2>1. short \subseteq 1..N + 1 /\ 0 \in 0..rollsize_ /\ rollsize_ \in Nat
      BY <1>2, FileConstants
    <2> QED BY <1>1, <1>2, <1>3, <1>5, <1>6, <2>1 DEF FileInv, FileTypes
  <1>9. NamesOK'
    <2>1. ASSUME NEW j \in 1..N PROVE Before(made[j], next)
      <3>1. CASE j = N
        BY <1>3, <3>1
      <3>2. CASE j # N
        <4>1. j \in 1..N /\ N \in 1..N /\ j < N
          BY <1>2, <3>2
        <4>2. \A i, k \in 1..N : i < k => Before(made[i], made[k])
          BY DEF FileInv, NamesOK, N
        <4>3. Before(made[j], made[N])
          BY <4>1, <4>2
        <4>4. made[j] \in Nat \X Nat /\ made[N] \in Nat \X Nat
          BY <1>7, <4>1
        <4>5. /\ Nth(made[j][2]) \in Int /\ Nth(made[N][2]) \in Int /\ Nth(next[2]) \in Int
          BY <1>3, <4>4, FileConstants DEF Nth
        <4> QED BY <1>3, <4>3, <4>4, <4>5, BeforeTransitive
      <3> QED BY <3>1, <3>2
    <2>2. ASSUME NEW j \in 1..N + 1, NEW k \in 1..N + 1, j < k PROVE Before(made'[j], made'[k])
      <3>1. j \in 1..N /\ (k \in 1..N \/ k = N + 1)
        BY <1>2, <2>2
      <3>2. CASE k = N + 1
        BY <1>5, <2>1, <3>1, <3>2
      <3>3. CASE k \in 1..N
        BY <1>5, <2>2, <3>1, <3>3 DEF FileInv, NamesOK, N
      <3> QED BY <3>1, <3>2, <3>3
    <2>3. made'[N + 1] = <<lastRoll', tie'>>
      BY <1>1, <1>5 DEF next
    <2>4. Streak(made', Nth(letter), time)
      <3> SUFFICES ASSUME NEW k \in 0..Nth(letter) PROVE k < Len(made') /\ made'[Len(made') - k][1] = time
        BY Zenon DEF Streak
      <3>1. CASE k = 0
        <4>1. k < N + 1 /\ N + 1 - k = N + 1
          BY <1>2, <3>1
        <4>2. k < Len(made') /\ made'[Len(made') - k] = next
          <5>1. Len(made') = N + 1 /\ made'[N + 1] = next /\ N \in Nat /\ k = 0
            BY <1>2, <1>5, <3>1
          <5> QED BY ONLY <5>1
        <4> QED BY <1>4, <4>2, Zenon
      <3>2. CASE k # 0
        <4> HIDE DEF Nth
        <4>1. time = lastRoll /\ k - 1 \in 0..Nth(tie) /\ k \in Nat
          BY <1>3, <3>2
        <4>2. k - 1 < N /\ made[N - (k - 1)][1] = lastRoll
          BY <1>1, <4>1 DEF FileInv, NamesOK, Streak, N
        <4>3. k \in Nat /\ k # 0 /\ N \in Nat /\ k - 1 < N
          BY <1>2, <3>2, <4>1, <4>2
        <4>4. N + 1 - k = N - (k - 1) /\ N + 1 - k \in 1..N /\ k < N + 1
          BY ONLY <4>3
        <4>5. made'[N + 1 - k] = made[N - (k - 1)]
          BY <1>5, <4>4, Zenon
        <4>6. k < Len(made') /\ made'[Len(made') - k] = made[N - (k - 1)]
          <5>1. Len(made') = N + 1 /\ N + 1 - k \in Nat /\ N \in Nat /\ k \in Nat /\ k < N + 1
            BY <1>2, <1>5, <4>3, <4>4
          <5>2. k < Len(made') /\ Len(made') - k = N + 1 - k
            BY ONLY <5>1
          <5> QED BY ONLY <4>5, <5>2
        <4> QED BY <4>1, <4>2, <4>6, Zenon
      <3> QED BY <3>1, <3>2
    <2>5. Streak(made, Nth(tie), lastRoll)' /\ LetterOK(tie)'
      BY <1>1, <1>3, <2>4 DEF Streak, LetterOK, Nth
    <2>6. \A j, k \in 1..Len(made') : j < k => Before(made'[j], made'[k])
      BY <1>5, <2>2
    <2> HIDE DEF Nth
    <2> QED BY <1>1, <1>5, <2>3, <2>5, <2>6 DEF NamesOK, Before
  <1>10. ContentsOK'
    <2>1. N + 1 - 1 = N /\ \A k \in 1..N + 1 : k \in 1..N \/ k = N + 1
      BY <1>2
    <2>2. logged' = (N + 1 - 1) * rollsize_ + 0
      <3>1. logged = (N - 1) * rollsize_ + rollsize_
        BY <1>1, <1>2 DEF FileInv, ContentsOK
      <3>2. (N - 1) * rollsize_ + rollsize_ = N * rollsize_ /\ N * rollsize_ \in Nat
        BY <1>2, FileConstants
      <3> QED BY <1>1, <2>1, <3>1, <3>2
    <2>3. ASSUME NEW k \in 1..N + 1, NEW n \in 1..Len(contents'[k])
          PROVE  /\ contents'[k][n] \in (k - 1) * rollsize_ + 1..k * rollsize_
                 /\ k \notin short => contents'[k][n] = (k - 1) * rollsize_ + n
      <3>1. CASE k = N + 1
        BY <1>4, <1>6, <3>1
      <3>2. CASE k \in 1..N
        BY <1>2, <1>6, <3>2 DEF FileInv, ContentsOK
      <3> QED BY <2>1, <3>1, <3>2
    <2>4. ASSUME NEW k \in 1..N + 1, k \notin short
          PROVE  Len(contents'[k]) = IF k < N + 1 THEN rollsize_ ELSE 0
      <3>1. CASE k = N + 1
        BY <1>2, <1>4, <1>6, <3>1
      <3>2. CASE k \in 1..N
        BY <1>1, <1>2, <1>6, <2>4, <3>2 DEF FileInv, ContentsOK
      <3> QED BY <2>1, <3>1, <3>2
    <2>5. \A k \in 1..N + 1 : \A n \in 1..Len(contents'[k]) :
            contents'[k][n] \in (k - 1) * rollsize_ + 1..k * rollsize_
      BY <2>3
    <2>6. \A k \in 1..N + 1 : k \notin short =>
            /\ Len(contents'[k]) = IF k < N + 1 THEN rollsize_ ELSE 0
            /\ \A n \in 1..Len(contents'[k]) : contents'[k][n] = (k - 1) * rollsize_ + n
      BY <2>3, <2>4
    <2>7. logged' = (Len(contents') - 1) * rollsize_ + writtenBytes'
      <3>1. Len(contents') = N + 1 /\ writtenBytes' = 0 /\ N \in Nat /\ rollsize_ \in Nat
        BY <1>1, <1>2, <1>6, FileConstants
      <3> QED BY ONLY <2>2, <3>1
    <2>8. \A k \in 1..Len(contents') : \A n \in 1..Len(contents'[k]) :
            contents'[k][n] \in (k - 1) * rollsize_ + 1..k * rollsize_
      BY <1>6, <2>5, Zenon
    <2>9. \A k \in 1..Len(contents') : k \notin short' =>
            /\ Len(contents'[k]) = IF k < Len(contents') THEN rollsize_ ELSE writtenBytes'
            /\ \A n \in 1..Len(contents'[k]) : contents'[k][n] = (k - 1) * rollsize_ + n
      <3>1. Len(contents') = N + 1 /\ writtenBytes' = 0 /\ short' = short
        BY <1>1, <1>6
      <3> QED BY <2>6, <3>1, Zenon
    <2>10. temp' = 0
      BY <1>1
    <2> QED BY <2>7, <2>8, <2>9, <2>10, Zenon DEF ContentsOK
  <1> QED
    BY <1>8, <1>9, <1>10 DEF FileInv

\* The names are not concerned by what is written.
LEMMA SameNames ==
    ASSUME NamesOK, UNCHANGED <<lastRoll, tie, made, aborted>>, ~aborted
    PROVE  NamesOK'
  <1> HIDE DEF Nth
  <1> QED BY SMTT(30) DEF NamesOK, Before, Streak, LetterOK, Nth

\* append is given what fits.
LEMMA PartStep ==
    ASSUME FileInv, ~aborted, LF!AppendPart
    PROVE  FileInv'
  <1> DEFINE n == LF!LeftBytes
  <1>1. /\ len > 0 /\ temp = 0 /\ temp' = n /\ remain' = n
        /\ UNCHANGED <<time, lastRoll, tie, made, contents, writtenBytes, len, logged, short, aborted>>
    BY DEF LF!AppendPart
  <1>2. n \in Nat /\ n <= len /\ writtenBytes + n <= rollsize_
    <2>1. n = IF len < rollsize_ - writtenBytes THEN len ELSE rollsize_ - writtenBytes
      BY DEF LF!LeftBytes
    <2>2. len \in Nat /\ writtenBytes \in 0..rollsize_ /\ rollsize_ \in Nat
      BY FileConstants DEF FileInv, FileTypes
    <2> HIDE DEF n
    <2> QED BY <2>1, <2>2
  <1> HIDE DEF n
  <1>3. FileTypes'
    BY <1>1, <1>2 DEF FileInv, FileTypes
  <1>4. NamesOK'
    BY <1>1, SameNames DEF FileInv
  <1>5. ContentsOK'
    BY <1>1 DEF FileInv, ContentsOK
  <1> QED
    BY <1>3, <1>4, <1>5 DEF FileInv

\* What fwrite writes is of this file's part of the log, and continues it if nothing is missing.
LEMMA AppendStep ==
    ASSUME FileInv, ~aborted, NEW n \in 0..temp, LF!AppendFile(n)
    PROVE  FileInv'
  <1> DEFINE N == Len(contents)
             last == contents[N]
             more == [k \in 1..n |-> logged + k]
             ends == n = 0 \/ remain' = 0
  <1>1. /\ temp > 0
        /\ contents' = [contents EXCEPT ![N] = last \o more]
        /\ short' = IF n < temp THEN short \cup {N} ELSE short
        /\ remain' = (remain + SizeMod - n) % SizeMod
        /\ ends => /\ writtenBytes' = writtenBytes + temp
                   /\ logged' = logged + temp /\ len' = len - temp /\ temp' = 0
        /\ ~ends => UNCHANGED <<writtenBytes, logged, len, temp>>
        /\ UNCHANGED <<time, lastRoll, tie, made, aborted>>
    BY DEF LF!AppendFile
  <1>2. /\ contents \in Seq(Seq(Nat)) /\ N \in Nat /\ N > 0 /\ N \in 1..N
        /\ len \in Nat /\ logged \in Nat /\ temp \in Nat /\ remain \in Nat /\ n \in Nat /\ n <= temp
        /\ temp <= len /\ writtenBytes \in Nat /\ writtenBytes + temp <= rollsize_ /\ short \subseteq 1..N
    BY FileConstants DEF FileInv, FileTypes
  <1>3. last \in Seq(Nat) /\ Len(last) \in Nat
    BY <1>2
  <1>4. more \in Seq(Nat) /\ Len(more) = n /\ \A k \in 1..n : more[k] = logged + k
    BY <1>2
  <1>5. /\ remain' \in Nat
        /\ N \notin short /\ n = temp => remain' = 0
    <2>1. remain + SizeMod - n \in Nat
      BY <1>2, FileConstants
    <2>2. (remain + SizeMod - n) % SizeMod \in Nat
      BY <2>1, Division, FileConstants
    <2>3. ASSUME N \notin short, n = temp PROVE (remain + SizeMod - n) % SizeMod = 0
      <3>1. remain = temp
        BY <1>1, <2>3 DEF FileInv, ContentsOK
      <3>2. remain + SizeMod - n = SizeMod * 1 + 0 /\ 0 \in 0..SizeMod - 1
        BY <1>2, <2>3, <3>1, FileConstants
      <3> QED BY <2>1, <3>2, UniqueRemainder, FileConstants
    <2> QED BY <1>1, <2>2, <2>3
  <1> HIDE DEF more, last, ends
  <1>6. /\ last \o more \in Seq(Nat) /\ Len(last \o more) = Len(last) + n
        /\ \A i \in 1..Len(last) + n : (last \o more)[i] = IF i <= Len(last) THEN last[i] ELSE more[i - Len(last)]
    <2>1. /\ last \o more \in Seq(Nat) /\ Len(last \o more) = Len(last) + n
          /\ \A i \in 1..Len(last) : (last \o more)[i] = last[i]
          /\ \A i \in 1..n : (last \o more)[Len(last) + i] = more[i]
      <3>1. last \in Seq(Nat) /\ more \in Seq(Nat) /\ Len(more) = n
        BY <1>3, <1>4
      <3>2. last \o more \in Seq(Nat) /\ Len(last \o more) = Len(last) + n
        BY ONLY <3>1, ConcatAt
      <3>3. \A i \in 1..Len(last) : (last \o more)[i] = last[i]
        BY ONLY <3>1, ConcatAt
      <3>4. \A i \in 1..n : (last \o more)[Len(last) + i] = more[i]
        BY ONLY <3>1, ConcatAt
      <3> QED BY <3>2, <3>3, <3>4
    <2>2. ASSUME NEW i \in 1..Len(last) + n
          PROVE  (last \o more)[i] = IF i <= Len(last) THEN last[i] ELSE more[i - Len(last)]
      <3>1. CASE i <= Len(last)
        BY <1>3, <2>1, <3>1
      <3>2. CASE ~(i <= Len(last))
        <4>1. i - Len(last) \in 1..n /\ Len(last) + (i - Len(last)) = i
          BY <1>2, <1>3, <3>2
        <4> QED BY <2>1, <3>2, <4>1
      <3> QED BY <3>1, <3>2
    <2> QED BY <2>1, <2>2
  <1>7. /\ contents' \in Seq(Seq(Nat)) /\ Len(contents') = N /\ contents'[N] = last \o more
        /\ \A k \in 1..N : k # N => contents'[k] = contents[k]
    BY <1>1, <1>2, <1>6
  <1>8. /\ logged = (N - 1) * rollsize_ + writtenBytes /\ (N - 1) * rollsize_ \in Nat
        /\ N * rollsize_ = (N - 1) * rollsize_ + rollsize_
    <2>1. logged = (N - 1) * rollsize_ + writtenBytes
      BY DEF FileInv, ContentsOK
    <2>2. N - 1 \in Nat /\ rollsize_ \in Nat
      BY <1>2, FileConstants
    <2>3. (N - 1) * rollsize_ \in Nat /\ N * rollsize_ = (N - 1) * rollsize_ + rollsize_
      BY <1>2, <2>2
    <2> QED BY <2>1, <2>3
  <1>9. ASSUME NEW i \in 1..Len(last) + n
        PROVE  (last \o more)[i] \in (N - 1) * rollsize_ + 1..N * rollsize_
    <2>1. CASE i <= Len(last)
      <3>1. i \in 1..Len(last) /\ (last \o more)[i] = last[i]
        BY <1>3, <1>6, <2>1
      <3> QED BY <1>2, <3>1 DEF FileInv, ContentsOK, last
    <2>2. CASE ~(i <= Len(last))
      <3>1. i - Len(last) \in 1..n
        BY <1>2, <1>3, <2>2
      <3>2. (last \o more)[i] = logged + (i - Len(last))
        BY <1>4, <1>6, <2>2, <3>1
      <3>3. \A j \in 1..n : logged + j \in (N - 1) * rollsize_ + 1..N * rollsize_
        BY <1>2, <1>8, FileConstants
      <3> QED BY <3>1, <3>2, <3>3
    <2> QED BY <2>1, <2>2
  <1>10. ASSUME N \notin short'
         PROVE  /\ ends /\ Len(last \o more) = writtenBytes + temp
                /\ \A i \in 1..Len(last) + n : (last \o more)[i] = (N - 1) * rollsize_ + i
    <2>1. N \notin short /\ n = temp
      BY <1>1, <1>2, <1>10
    <2>2. ends
      BY <1>5, <2>1 DEF ends
    <2>3. Len(last) = writtenBytes /\ \A i \in 1..Len(last) : last[i] = (N - 1) * rollsize_ + i
      <3> HIDE DEF N
      <3>1. /\ Len(contents[N]) = IF N < N THEN rollsize_ ELSE writtenBytes
            /\ \A i \in 1..Len(contents[N]) : contents[N][i] = (N - 1) * rollsize_ + i
        BY <1>2, <2>1, Zenon DEF FileInv, ContentsOK, N
      <3>2. ~(N < N)
        BY <1>2
      <3> QED BY <3>1, <3>2 DEF last
    <2>4. ASSUME NEW i \in 1..Len(last) + n PROVE (last \o more)[i] = (N - 1) * rollsize_ + i
      <3>1. CASE i <= Len(last)
        BY <1>3, <1>6, <2>3, <3>1
      <3>2. CASE ~(i <= Len(last))
        <4>1. i - Len(last) \in 1..n
          BY <1>2, <1>3, <3>2
        <4>2. (last \o more)[i] = logged + (i - Len(last))
          BY <1>4, <1>6, <3>2, <4>1
        <4> QED BY <1>3, <1>8, <2>3, <4>1, <4>2
      <3> QED BY <3>1, <3>2
    <2> QED BY <1>6, <2>1, <2>2, <2>3, <2>4
  <1> HIDE DEF N
  <1>11. FileTypes'
    <2>1. CASE ends
      <3>1. /\ writtenBytes' \in 0..rollsize_ /\ logged' \in Nat /\ len' \in Nat /\ temp' = 0
            /\ writtenBytes' + temp' <= rollsize_ /\ temp' <= len'
        BY <1>1, <1>2, <2>1, FileConstants
      <3>2. short' \subseteq 1..N
        BY <1>1, <1>2
      <3> QED BY <1>1, <1>2, <1>5, <1>7, <3>1, <3>2 DEF FileInv, FileTypes, N
    <2>2. CASE ~ends
      <3>1. short' \subseteq 1..N
        BY <1>1, <1>2
      <3> QED BY <1>1, <1>2, <1>5, <1>7, <2>2, <3>1 DEF FileInv, FileTypes, N
    <2> QED BY <2>1, <2>2
  <1>12. NamesOK'
    BY <1>1, SameNames DEF FileInv
  <1>13. ContentsOK'
    <2>1. logged' = (N - 1) * rollsize_ + writtenBytes'
      <3>1. CASE ends
        BY <1>1, <1>2, <1>8, <3>1
      <3>2. CASE ~ends
        BY <1>1, <1>8, <3>2
      <3> QED BY <3>1, <3>2
    <2>2. Len(contents'[N]) = Len(last) + n
      BY <1>6, <1>7
    <2>3. ASSUME NEW k \in 1..N, NEW i \in 1..Len(contents'[k])
          PROVE  contents'[k][i] \in (k - 1) * rollsize_ + 1..k * rollsize_
      <3>1. CASE k = N
        BY <1>7, <1>9, <2>2, <3>1
      <3>2. CASE k # N
        BY <1>7, <3>2 DEF FileInv, ContentsOK, N
      <3> QED BY <3>1, <3>2
    <2>4. ASSUME NEW k \in 1..N, k \notin short'
          PROVE  /\ Len(contents'[k]) = IF k < N THEN rollsize_ ELSE writtenBytes'
                 /\ \A i \in 1..Len(contents'[k]) : contents'[k][i] = (k - 1) * rollsize_ + i
      <3>1. CASE k = N
        <4>1. /\ ends /\ Len(last \o more) = writtenBytes + temp
              /\ \A i \in 1..Len(last) + n : (last \o more)[i] = (N - 1) * rollsize_ + i
          BY <1>10, <2>4, <3>1
        <4>2. writtenBytes' = writtenBytes + temp /\ ~(k < N)
          BY <1>1, <1>2, <3>1, <4>1
        <4>3. Len(contents'[k]) = writtenBytes'
          BY <1>7, <3>1, <4>1, <4>2
        <4>4. \A i \in 1..Len(contents'[k]) : contents'[k][i] = (k - 1) * rollsize_ + i
          BY <1>7, <2>2, <3>1, <4>1
        <4> QED BY <4>2, <4>3, <4>4
      <3>2. CASE k # N
        <4>1. k < N /\ contents'[k] = contents[k] /\ k \notin short
          BY <1>1, <1>2, <1>7, <2>4, <3>2
        <4> QED BY <4>1 DEF FileInv, ContentsOK, N
      <3> QED BY <3>1, <3>2
    <2>5. N \notin short' => temp' = 0
      BY <1>1, <1>10
    <2> QED BY <1>7, <2>1, <2>3, <2>4, <2>5 DEF ContentsOK
  <1> QED
    BY <1>11, <1>12, <1>13 DEF FileInv

LEMMA NextFile ==
    ASSUME FileInv, LF!Next \/ UNCHANGED lfVars
    PROVE  FileInv'
  <1>1. CASE ~aborted /\ LF!AppendUnlock
    <2>1. /\ len' \in Nat /\ len = 0
          /\ UNCHANGED <<time, lastRoll, tie, made, contents, writtenBytes, temp, remain, logged, short, aborted>>
      BY <1>1, FileConstants DEF LF!AppendUnlock
    <2>2. FileTypes'
      BY <2>1 DEF FileInv, FileTypes
    <2>3. ContentsOK'
      BY <2>1 DEF FileInv, ContentsOK
    <2> QED BY <1>1, <2>1, <2>2, <2>3, SameNames DEF FileInv
  <1>2. CASE ~aborted /\ LF!RollFile
    BY <1>2, AbortStep, RollStep
  <1>3. CASE ~aborted /\ LF!AppendPart
    BY <1>3, PartStep
  <1>4. CASE ~aborted /\ LF!Tick
    <2>1. /\ time' = time + 1
          /\ UNCHANGED <<lastRoll, tie, made, contents, writtenBytes, len, temp, remain, logged, short, aborted>>
      BY <1>4 DEF LF!Tick
    <2>2. FileTypes'
      BY <2>1 DEF FileInv, FileTypes
    <2>3. ContentsOK'
      BY <2>1 DEF FileInv, ContentsOK
    <2> QED BY <1>4, <2>1, <2>2, <2>3, SameNames DEF FileInv
  <1>5. CASE ~aborted /\ \E n \in 0..temp : LF!AppendFile(n)
    BY <1>5, AppendStep
  <1>6. CASE UNCHANGED lfVars
    <2>1. UNCHANGED <<time, lastRoll, tie, made, contents, writtenBytes, len, temp, remain, logged, short, aborted>>
      BY <1>6 DEF lfVars
    <2>2. FileTypes' /\ ContentsOK'
      BY <2>1 DEF FileInv, FileTypes, ContentsOK
    <2>3. NamesOK'
      BY <2>1, SMTT(30) DEF FileInv, NamesOK, Before, Streak, LetterOK, Nth, LF!Letters
    <2> QED BY <2>2, <2>3 DEF FileInv
  <1> QED
    BY <1>1, <1>2, <1>3, <1>4, <1>5, <1>6 DEF LF!Next

LEMMA FilesHold ==
    ASSUME FileInv
    PROVE  LF!FilesIntact
  <1>1. /\ made \in Seq(Nat \X Nat) /\ contents \in Seq(Seq(Nat)) /\ Len(made) \in Nat
        /\ \A k \in 1..Len(made) : made[k] \in Nat \X Nat
        /\ DOMAIN made = 1..Len(made) /\ DOMAIN contents = 1..Len(contents)
        /\ \A k \in 1..Len(contents) : DOMAIN contents[k] = 1..Len(contents[k])
        /\ writtenBytes <= rollsize_
    BY FileConstants DEF FileInv, FileTypes
  <1>2. ASSUME NEW j \in 1..Len(made), NEW k \in 1..Len(made), j < k, made[j][2] = made[k][2]
        PROVE  made[j][1] # made[k][1]
    <2>1. Before(made[j], made[k]) /\ made[j] \in Nat \X Nat
      BY <1>1, <1>2 DEF FileInv, NamesOK
    <2>2. Nth(made[j][2]) \in Int
      BY <2>1, FileConstants DEF Nth
    <2> HIDE DEF Nth
    <2> QED BY <1>2, <2>1, <2>2 DEF Before
  <1>3. ASSUME NEW j \in 1..Len(made), NEW k \in 1..Len(made), LF!Name(j) = LF!Name(k), j # k
        PROVE  made[j][1] # made[k][1]
    <2>1. made[j][2] = made[k][2]
      BY <1>3 DEF LF!Name
    <2>2. j < k \/ k < j
      BY <1>1, <1>3
    <2> QED BY <1>2, <2>1, <2>2
  <1>4. aborted => \A k \in 0..LF!Letters - 1 : k < Len(made) /\ made[Len(made) - k][1] = time
    BY DEF FileInv, NamesOK, Streak
  <1> QED
    BY <1>1, <1>3, <1>4 DEF LF!FilesIntact, FileInv, ContentsOK

\* The log's files (logfile.cpp): two have the same name only where the local time comes again,
\* the process is aborted for want of a name only after a file with each letter in one second,
\* and each has its part of the log, exactly if fwrite has written all.
THEOREM FilesAreIntact == BlocksSpec => []LF!FilesIntact
  <1>1. LF!Init => FileInv
    BY InitFile
  <1>2. FileInv /\ [LF!Next]_lfVars => FileInv'
    BY NextFile
  <1>3. FileInv => LF!FilesIntact
    BY FilesHold
  <1> QED
    BY <1>1, <1>2, <1>3, Parts, PTL
-----------------------------------------------------------------------------
(***************************************************************************)
(* logstream (logstream.cpp, logging.cpp): what the recursive functions    *)
(* compute.                                                                *)
(***************************************************************************)
HexChars == {LS!logDigitsHex[d + 1] : d \in 0..15}
Chars == STRING \cup HexChars \cup {"-", "x", "\n"}

\* The powers of the bases.
LEMMA PowerIs ==
    ASSUME NEW b \in {2, 10, 16}
    PROVE  /\ LS!Power(b) \in [Nat -> Nat]
           /\ LS!Power(b)[0] = 1
           /\ \A n \in Nat : LS!Power(b)[n + 1] = b * LS!Power(b)[n]
  <1> DEFINE Step == [n \in Nat |-> [x \in Nat |-> b * x]]
             p == CHOOSE f : f = [n \in Nat |-> IF n = 0 THEN 1 ELSE b * f[n - 1]]
  <1>1. Step \in Steps(Nat) /\ 1 \in Nat
    BY DEF Steps
  <1>2. Iterates(Nat, 1, Step) # {}
    <2> HIDE DEF Step
    <2> QED
      BY <1>1, Recursion, Zenon
  <1>3. PICK f \in [Nat -> Nat] : f[0] = 1 /\ \A n \in Nat : f[n + 1] = b * f[n]
    BY <1>2 DEF Iterates
  <1>4. ASSUME NEW n \in Nat PROVE f[n] = IF n = 0 THEN 1 ELSE b * f[n - 1]
    <2>1. CASE n = 0
      BY <1>3, <2>1
    <2>2. CASE n # 0
      <3>1. n - 1 \in Nat /\ (n - 1) + 1 = n
        BY <2>2
      <3> QED
        BY <1>3, <2>2, <3>1
    <2> QED
      BY <2>1, <2>2
  <1>5. f = [n \in Nat |-> IF n = 0 THEN 1 ELSE b * f[n - 1]]
    BY <1>4
  <1>6. p = [n \in Nat |-> IF n = 0 THEN 1 ELSE b * p[n - 1]]
    BY <1>5, Zenon
  <1>7. LS!Power(b) = p
    BY Zenon DEF LS!Power
  <1> HIDE DEF p
  <1>8. p[0] = 1 /\ \A n \in Nat : p[n + 1] = b * p[n]
    BY <1>6
  <1> DEFINE S == {n \in Nat : p[n] \in Nat}
  <1>9. 0 \in S /\ \A n \in Nat : n \in S => n + 1 \in S
    BY <1>8
  <1>10. Nat \subseteq S
    <2> HIDE DEF S
    <2> QED
      BY <1>9, Induction
  <1>11. p \in [Nat -> Nat]
    BY <1>6, <1>10
  <1> QED
    BY <1>7, <1>8, <1>11

\* Division that rounds towards zero.
LEMMA DivisionOf ==
    ASSUME NEW b \in {10, 16}, NEW i \in Int
    PROVE  /\ LS!Quotient(i, b) \in Int
           /\ LS!Magnitude(i) \in Nat /\ LS!Magnitude(LS!Quotient(i, b)) \in Nat
           /\ LS!Magnitude(LS!Remainder(i, b)) \in 0..b - 1
           /\ LS!Magnitude(i) =
                 b * LS!Magnitude(LS!Quotient(i, b)) + LS!Magnitude(LS!Remainder(i, b))
           /\ LS!Quotient(i, b) = 0 <=> LS!Magnitude(i) < b
           /\ LS!Quotient(i, b) # 0 => LS!Magnitude(LS!Quotient(i, b)) < LS!Magnitude(i)
  <1>1. CASE b = 10
    BY <1>1 DEF LS!Quotient, LS!Magnitude, LS!Remainder
  <1>2. CASE b = 16
    BY <1>2 DEF LS!Quotient, LS!Magnitude, LS!Remainder
  <1> QED
    BY <1>1, <1>2

\* The digits are sixteen different characters.
LEMMA DigitOf ==
    ASSUME NEW d \in 0..15
    PROVE  /\ LS!logDigitsHex[d + 1] \in HexChars
           /\ LS!DigitValue(LS!logDigitsHex[d + 1]) = d
           /\ LS!logDigitsHex[d + 1] # "-"
           /\ LS!logDigitsHex[d + 1] = "0" <=> d = 0
  <1>1. LS!logDigitsHex[d + 1] \in HexChars
    BY DEF HexChars
  <1>2. \A e \in 0..15 : LS!logDigitsHex[e + 1] = LS!logDigitsHex[d + 1] => e = d
    BY DEF LS!logDigitsHex
  <1>3. LS!DigitValue(LS!logDigitsHex[d + 1]) = d
    <2> DEFINE c == LS!logDigitsHex[d + 1]
               e == CHOOSE e \in 0..15 : LS!logDigitsHex[e + 1] = c
    <2>1. e \in 0..15 /\ LS!logDigitsHex[e + 1] = c
      BY Zenon
    <2>2. e = d
      <3> HIDE DEF e
      <3> QED
        BY <1>2, <2>1
    <2> QED
      BY <2>2, Zenon DEF LS!DigitValue
  <1>4. LS!logDigitsHex[d + 1] # "-" /\ (LS!logDigitsHex[d + 1] = "0" <=> d = 0)
    BY DEF LS!logDigitsHex
  <1> QED
    BY <1>1, <1>3, <1>4

\* One more digit, after those of the quotient.
OneMore(b, d, i) ==
    (IF LS!Quotient(i, b) = 0 THEN <<>> ELSE d[LS!Quotient(i, b)])
        \o <<LS!Digit(LS!Remainder(i, b))>>

\* The digit of the remainder is in the table, whatever the sign.
LEMMA LastDigit ==
    ASSUME NEW b \in {10, 16}, NEW i \in Int
    PROVE  /\ LS!Digit(LS!Remainder(i, b)) \in HexChars
           /\ LS!DigitValue(LS!Digit(LS!Remainder(i, b))) = LS!Magnitude(LS!Remainder(i, b))
           /\ LS!Digit(LS!Remainder(i, b)) = "0" <=> LS!Magnitude(LS!Remainder(i, b)) = 0
  <1>1. LS!Magnitude(LS!Remainder(i, b)) \in 0..b - 1
    BY DivisionOf
  <1>2. LS!Magnitude(LS!Remainder(i, b)) \in 0..15
    BY <1>1
  <1> QED
    BY <1>2, DigitOf DEF LS!Digit

\* One more digit gives a sequence of digits again.
LEMMA OneMoreIs ==
    ASSUME NEW b \in {10, 16}, NEW i \in Int, NEW d,
           LS!Quotient(i, b) # 0 => d[LS!Quotient(i, b)] \in Seq(HexChars)
    PROVE  OneMore(b, d, i) \in Seq(HexChars)
  <1>1. (IF LS!Quotient(i, b) = 0 THEN <<>> ELSE d[LS!Quotient(i, b)]) \in Seq(HexChars)
    OBVIOUS
  <1>2. <<LS!Digit(LS!Remainder(i, b))>> \in Seq(HexChars)
    BY LastDigit
  <1> HIDE DEF OneMore
  <1> QED
    BY <1>1, <1>2, ConcatSet DEF OneMore

\* There is a function that satisfies the equation of Digits.
LEMMA DigitsExist ==
    ASSUME NEW b \in {10, 16}
    PROVE  \E d \in [Int -> Seq(HexChars)] : d = [i \in Int |-> OneMore(b, d, i)]
  <1> DEFINE V    == [Int -> Seq(HexChars)]
             base == [i \in Int |-> <<>>]
             Step == [n \in Nat |-> [v \in V |-> [i \in Int |-> OneMore(b, v, i)]]]
  <1>1. ASSUME NEW v \in V, NEW i \in Int PROVE OneMore(b, v, i) \in Seq(HexChars)
    BY DivisionOf, OneMoreIs
  <1>2. base \in V /\ Step \in Steps(V)
    <2>1. base \in V
      OBVIOUS
    <2>2. \A v \in V : [i \in Int |-> OneMore(b, v, i)] \in V
      BY <1>1
    <2> HIDE DEF V
    <2> QED
      BY <2>1, <2>2 DEF Steps
  <1>3. Iterates(V, base, Step) # {}
    <2> HIDE DEF V, base, Step
    <2> QED
      BY <1>2, Recursion, Zenon
  <1>4. PICK f \in [Nat -> V] : \A n \in Nat : f[n + 1] = Step[n][f[n]]
    <2> HIDE DEF V, base, Step
    <2> QED
      BY <1>3 DEF Iterates
  <1>5. ASSUME NEW n \in Nat, NEW i \in Int PROVE f[n + 1][i] = OneMore(b, f[n], i)
    <2>1. f[n] \in V /\ f[n + 1] = Step[n][f[n]]
      BY <1>4
    <2>2. f[n + 1] = [j \in Int |-> OneMore(b, f[n], j)]
      <3> HIDE DEF V
      <3> QED
        BY <2>1
    <2> QED
      BY <2>2
  <1> DEFINE M(i) == LS!Magnitude(i)
             d    == [i \in Int |-> f[M(i) + 1][i]]
             Same == {n \in Nat : \A m \in 0..n, i \in Int : M(i) < m => f[m][i] = d[i]}
  <1>6. \A i \in Int : M(i) \in Nat
    BY DivisionOf
  <1>7. 0 \in Same
    BY <1>6
  <1>8. ASSUME NEW n \in Nat, n \in Same PROVE n + 1 \in Same
    <2>1. ASSUME NEW i \in Int, M(i) < n + 1 PROVE f[n + 1][i] = d[i]
      <3> DEFINE q == LS!Quotient(i, b)
      <3>1. f[n + 1][i] = OneMore(b, f[n], i)
        BY <1>5
      <3>2. M(i) \in 0..n /\ d[i] = OneMore(b, f[M(i)], i)
        <4>1. d[i] = f[M(i) + 1][i]
          OBVIOUS
        <4> HIDE DEF d, M
        <4>2. M(i) \in Nat
          BY <1>6
        <4>3. f[M(i) + 1][i] = OneMore(b, f[M(i)], i)
          BY <1>5, <4>2
        <4> QED
          BY <2>1, <4>1, <4>2, <4>3
      <3>3. q # 0 => q \in Int /\ M(q) < M(i)
        BY DivisionOf
      <3>4. q # 0 => f[n][q] = d[q] /\ f[M(i)][q] = d[q]
        <4> HIDE DEF d, q, M
        <4>1. \A m \in 0..n, j \in Int : M(j) < m => f[m][j] = d[j]
          BY <1>8
        <4> SUFFICES ASSUME q # 0 PROVE f[n][q] = d[q] /\ f[M(i)][q] = d[q]
          OBVIOUS
        <4>2. q \in Int /\ M(q) < M(i)
          BY <3>3
        <4>3. M(q) \in Nat /\ M(i) \in 0..n /\ n \in 0..n
          BY <1>6, <3>2, <4>2
        <4>4. M(q) < n
          BY <4>2, <4>3
        <4> QED
          BY <4>1, <4>2, <4>3, <4>4, Zenon
      <3>5. OneMore(b, f[n], i) = OneMore(b, f[M(i)], i)
        BY <3>4 DEF OneMore
      <3> QED
        BY <3>1, <3>2, <3>5
    <2> HIDE DEF d, M
    <2>2. ASSUME NEW m \in 0..n + 1, NEW i \in Int, M(i) < m PROVE f[m][i] = d[i]
      <3>1. CASE m = n + 1
        BY <2>1, <2>2, <3>1
      <3>2. CASE m # n + 1
        BY <1>8, <2>2, <3>2
      <3> QED
        BY <3>1, <3>2
    <2> QED
      BY <2>2
  <1>9. Nat \subseteq Same
    <2> HIDE DEF Same
    <2> QED
      BY <1>7, <1>8, Induction
  <1>10. ASSUME NEW i \in Int PROVE d[i] = OneMore(b, d, i)
    <2> DEFINE q == LS!Quotient(i, b)
    <2>1. M(i) \in Nat /\ d[i] = OneMore(b, f[M(i)], i)
      <3>1. d[i] = f[M(i) + 1][i]
        OBVIOUS
      <3> HIDE DEF d, M
      <3>2. M(i) \in Nat
        BY <1>6
      <3> QED
        BY <1>5, <3>1, <3>2
    <2>2. q # 0 => q \in Int /\ M(q) < M(i)
      BY DivisionOf
    <2>3. \A m \in 0..M(i), j \in Int : M(j) < m => f[m][j] = d[j]
      <3> HIDE DEF d, M
      <3> QED
        BY <1>9, <2>1
    <2>4. q # 0 => f[M(i)][q] = d[q]
      <3> HIDE DEF d, q, M
      <3> SUFFICES ASSUME q # 0 PROVE f[M(i)][q] = d[q]
        OBVIOUS
      <3>1. q \in Int /\ M(q) < M(i)
        BY <2>2
      <3>2. M(i) \in 0..M(i)
        BY <2>1
      <3> QED
        BY <2>3, <3>1, <3>2, Zenon
    <2>5. OneMore(b, f[M(i)], i) = OneMore(b, d, i)
      BY <2>4 DEF OneMore
    <2> QED
      BY <2>1, <2>5
  <1>11. d \in [Int -> Seq(HexChars)]
    <2>1. \A i \in Int : f[M(i) + 1] \in V
      <3> HIDE DEF V, M
      <3> QED
        BY <1>6
    <2> QED
      BY <2>1
  <1>12. d = [i \in Int |-> OneMore(b, d, i)]
    <2> HIDE DEF d
    <2> QED
      BY <1>10, <1>11
  <1> QED
    BY <1>11, <1>12

\* Digits is that function: its text of a number is that of the quotient and one more digit.
LEMMA DigitsIs ==
    ASSUME NEW b \in {10, 16}
    PROVE  \A i \in Int : LS!Digits(b)[i] = OneMore(b, LS!Digits(b), i)
  <1> DEFINE D == CHOOSE d : d = [i \in Int |-> OneMore(b, d, i)]
  <1>1. \E d : d = [i \in Int |-> OneMore(b, d, i)]
    BY DigitsExist, Zenon
  <1>2. D = [i \in Int |-> OneMore(b, D, i)]
    BY <1>1, Zenon
  <1>3. LS!Digits(b) = D
    BY Zenon DEF LS!Digits, OneMore
  <1> HIDE DEF D
  <1>4. \A i \in Int : D[i] = OneMore(b, D, i)
    BY <1>2, Zenon
  <1> QED
    BY <1>3, <1>4

\* What a property of all numbers needs that is proved along the digits: S has the numbers
\* that have it.
LEMMA DigitInduction ==
    ASSUME NEW b \in {10, 16}, NEW S,
           \A i \in Int : (LS!Quotient(i, b) # 0 => LS!Quotient(i, b) \in S) => i \in S
    PROVE  Int \subseteq S
  <1> DEFINE M(i)  == LS!Magnitude(i)
             Below == {n \in Nat : \A i \in Int : M(i) < n => i \in S}
  <1>1. \A i \in Int : M(i) \in Nat
    BY DivisionOf
  <1>2. 0 \in Below
    BY <1>1
  <1>3. ASSUME NEW n \in Nat, n \in Below PROVE n + 1 \in Below
    <2>1. ASSUME NEW i \in Int, M(i) < n + 1 PROVE i \in S
      <3> DEFINE q == LS!Quotient(i, b)
      <3>1. q # 0 => q \in Int /\ M(q) < M(i)
        BY DivisionOf
      <3> HIDE DEF M
      <3>2. M(i) \in Nat
        BY <1>1
      <3>3. ASSUME q # 0 PROVE q \in S
        <4> HIDE DEF q
        <4>1. q \in Int /\ M(q) < M(i)
          BY <3>1, <3>3
        <4>2. M(q) \in Nat
          BY <1>1, <4>1
        <4>3. M(q) < n
          BY <2>1, <3>2, <4>1, <4>2
        <4> QED
          BY <1>3, <4>1, <4>3
      <3> QED
        BY <3>3
    <2> HIDE DEF M
    <2> QED
      BY <2>1
  <1>4. Nat \subseteq Below
    <2> HIDE DEF Below
    <2> QED
      BY <1>2, <1>3, Induction
  <1>5. ASSUME NEW i \in Int PROVE i \in S
    <2> HIDE DEF M
    <2>1. M(i) \in Nat /\ M(i) + 1 \in Nat /\ M(i) < M(i) + 1
      BY <1>1
    <2>2. M(i) + 1 \in Below
      <3> HIDE DEF Below
      <3> QED
        BY <1>4, <2>1
    <2> QED
      BY <2>1, <2>2
  <1> QED
    BY <1>5

\* The digits of a number are in the table.
LEMMA DigitsType ==
    ASSUME NEW b \in {10, 16}
    PROVE  \A i \in Int : LS!Digits(b)[i] \in Seq(HexChars)
  <1> DEFINE S == {i \in Int : LS!Digits(b)[i] \in Seq(HexChars)}
  <1>1. ASSUME NEW i \in Int, LS!Quotient(i, b) # 0 => LS!Quotient(i, b) \in S PROVE i \in S
    <2>1. OneMore(b, LS!Digits(b), i) \in Seq(HexChars)
      BY <1>1, OneMoreIs
    <2> QED
      BY <2>1, DigitsIs
  <1>2. Int \subseteq S
    <2> HIDE DEF S
    <2> QED
      BY <1>1, DigitInduction
  <1> QED
    BY <1>2

\* The value of digits, read from the left.
ValueStep(b, x, digit) == b * x + LS!DigitValue(digit)

\* One more digit gives a value again.
LEMMA ValueStepType ==
    ASSUME NEW b \in {10, 16}, NEW x \in Nat, NEW digit \in HexChars
    PROVE  ValueStep(b, x, digit) \in Nat
  <1>1. PICK d \in 0..15 : digit = LS!logDigitsHex[d + 1]
    BY DEF HexChars
  <1>2. LS!DigitValue(digit) = d
    BY <1>1, DigitOf
  <1>3. b * x \in Nat
    OBVIOUS
  <1> QED
    BY <1>2, <1>3 DEF ValueStep

\* The values of the beginnings of some digits, each computed from the one before.
LEMMA ValueExists ==
    ASSUME NEW b \in {10, 16}, NEW s \in Seq(HexChars)
    PROVE  \E f \in [0..Len(s) -> Nat] :
              /\ f[0] = 0
              /\ \A k \in 0..Len(s) - 1 : f[k + 1] = ValueStep(b, f[k], s[k + 1])
              /\ LS!Value(b, s) = f[Len(s)]
  <1> DEFINE body(f) == [n \in 0..Len(s) |-> IF n = 0 THEN 0 ELSE ValueStep(b, f[n - 1], s[n])]
             Step == [k \in Nat |-> [x \in Nat |->
                         IF k < Len(s) THEN ValueStep(b, x, s[k + 1]) ELSE 0]]
  <1>0. Len(s) \in Nat
    OBVIOUS
  <1>1. ASSUME NEW k \in 0..Len(s) - 1, NEW x \in Nat PROVE ValueStep(b, x, s[k + 1]) \in Nat
    <2>1. s[k + 1] \in HexChars
      OBVIOUS
    <2> QED
      BY <2>1, ValueStepType
  <1>2. Step \in Steps(Nat) /\ 0 \in Nat
    BY <1>1 DEF Steps
  <1>3. Iterates(Nat, 0, Step) # {}
    <2> HIDE DEF Step
    <2> QED
      BY <1>2, Recursion, Zenon
  <1>4. PICK g \in [Nat -> Nat] :
           g[0] = 0 /\ \A k \in 0..Len(s) - 1 : g[k + 1] = ValueStep(b, g[k], s[k + 1])
    <2>1. PICK g \in [Nat -> Nat] : g[0] = 0 /\ \A k \in Nat : g[k + 1] = Step[k][g[k]]
      <3> HIDE DEF Step
      <3>1. PICK g \in Iterates(Nat, 0, Step) : TRUE
        BY <1>3
      <3> QED
        BY <3>1, Zenon DEF Iterates
    <2>2. ASSUME NEW k \in 0..Len(s) - 1 PROVE g[k + 1] = ValueStep(b, g[k], s[k + 1])
      <3>1. k \in Nat /\ k < Len(s) /\ g[k] \in Nat
        BY <1>0
      <3>2. g[k + 1] = Step[k][g[k]]
        BY <2>1, <3>1
      <3> QED
        BY <3>1, <3>2
    <2> QED
      BY <2>1, <2>2
  <1> DEFINE f == [n \in 0..Len(s) |-> g[n]]
             h == CHOOSE h : h = body(h)
  <1>5. ASSUME NEW n \in 0..Len(s), n # 0 PROVE f[n] = ValueStep(b, f[n - 1], s[n])
    <2>1. n - 1 \in 0..Len(s) - 1 /\ (n - 1) + 1 = n /\ n - 1 \in 0..Len(s)
      BY <1>5
    <2> QED
      BY <1>4, <2>1
  <1>6. f = body(f)
    <2>1. f[0] = 0
      BY <1>4
    <2>2. f = [n \in 0..Len(s) |-> f[n]]
      OBVIOUS
    <2> HIDE DEF f
    <2> QED
      BY <1>5, <2>1, <2>2
  <1>7. h = body(h)
    <2> HIDE DEF f
    <2> QED
      BY <1>6, Zenon
  <1>8. LS!Value(b, s) = h[Len(s)]
    BY Zenon DEF LS!Value, ValueStep
  <1> HIDE DEF h
  <1>9. h[0] = 0 /\ \A k \in 0..Len(s) - 1 : h[k + 1] = ValueStep(b, h[k], s[k + 1])
    <2>1. h[0] = 0
      BY <1>0, <1>7
    <2>2. ASSUME NEW k \in 0..Len(s) - 1 PROVE h[k + 1] = ValueStep(b, h[k], s[k + 1])
      <3>1. k + 1 \in 0..Len(s) /\ k + 1 # 0 /\ (k + 1) - 1 = k
        BY <1>0
      <3>2. h[k + 1] = ValueStep(b, h[(k + 1) - 1], s[k + 1])
        BY <1>7, <3>1, Zenon
      <3> QED
        BY <3>1, <3>2, Zenon
    <2> QED
      BY <2>1, <2>2
  <1> DEFINE S == {n \in Nat : n <= Len(s) => h[n] \in Nat}
  <1>10. 0 \in S
    BY <1>9
  <1>11. ASSUME NEW n \in Nat, n \in S PROVE n + 1 \in S
    <2>1. ASSUME n + 1 <= Len(s) PROVE h[n + 1] \in Nat
      <3>1. n \in 0..Len(s) - 1 /\ h[n] \in Nat
        BY <1>11, <2>1
      <3> QED
        BY <1>1, <1>9, <3>1
    <2>2. n + 1 <= Len(s) => h[n + 1] \in Nat
      BY <2>1
    <2> QED
      BY <2>2
  <1>12. Nat \subseteq S
    <2> HIDE DEF S
    <2> QED
      BY <1>10, <1>11, Induction
  <1>13. h \in [0..Len(s) -> Nat]
    <2>1. \A n \in 0..Len(s) : h[n] \in Nat
      BY <1>0, <1>12
    <2>2. h = [n \in 0..Len(s) |-> h[n]]
      BY <1>7
    <2> QED
      BY <2>1, <2>2
  <1> QED
    BY <1>8, <1>9, <1>13

\* What Value computes: nothing, and one more digit on the right.
LEMMA ValueAppend ==
    ASSUME NEW b \in {10, 16}
    PROVE  /\ LS!Value(b, <<>>) = 0
           /\ \A s \in Seq(HexChars) : LS!Value(b, s) \in Nat
           /\ \A s \in Seq(HexChars), digit \in HexChars :
                 LS!Value(b, s \o <<digit>>) = ValueStep(b, LS!Value(b, s), digit)
  <1>1. LS!Value(b, <<>>) = 0
    BY <<>> \in Seq(HexChars), ValueExists
  <1>2. ASSUME NEW s \in Seq(HexChars) PROVE LS!Value(b, s) \in Nat
    <2>1. Len(s) \in Nat /\ Len(s) \in 0..Len(s)
      OBVIOUS
    <2> QED
      BY <2>1, ValueExists
  <1>3. ASSUME NEW s \in Seq(HexChars), NEW digit \in HexChars
        PROVE  LS!Value(b, s \o <<digit>>) = ValueStep(b, LS!Value(b, s), digit)
    <2> DEFINE t == s \o <<digit>>
    <2>1. /\ Len(s) \in Nat /\ t \in Seq(HexChars) /\ Len(t) = Len(s) + 1
          /\ t[Len(s) + 1] = digit /\ \A k \in 0..Len(s) - 1 : t[k + 1] = s[k + 1]
      OBVIOUS
    <2> HIDE DEF t
    <2>2. PICK f \in [0..Len(s) -> Nat] :
             /\ f[0] = 0
             /\ \A k \in 0..Len(s) - 1 : f[k + 1] = ValueStep(b, f[k], s[k + 1])
             /\ LS!Value(b, s) = f[Len(s)]
      BY ValueExists
    <2>3. PICK g \in [0..Len(t) -> Nat] :
             /\ g[0] = 0
             /\ \A k \in 0..Len(t) - 1 : g[k + 1] = ValueStep(b, g[k], t[k + 1])
             /\ LS!Value(b, t) = g[Len(t)]
      BY <2>1, ValueExists
    <2> DEFINE S == {n \in Nat : n <= Len(s) => g[n] = f[n]}
    <2>4. 0 \in S
      BY <2>2, <2>3
    <2>5. ASSUME NEW n \in Nat, n \in S PROVE n + 1 \in S
      <3>1. ASSUME n + 1 <= Len(s) PROVE g[n + 1] = f[n + 1]
        <4>1. n \in 0..Len(s) - 1 /\ n \in 0..Len(t) - 1 /\ n <= Len(s)
          BY <2>1, <3>1
        <4>2. g[n] = f[n]
          BY <2>5, <4>1
        <4>3. g[n + 1] = ValueStep(b, g[n], t[n + 1]) /\ f[n + 1] = ValueStep(b, f[n], s[n + 1])
          BY <2>2, <2>3, <4>1
        <4> QED
          BY <2>1, <4>1, <4>2, <4>3
      <3>2. n + 1 \in Nat /\ (n + 1 <= Len(s) => g[n + 1] = f[n + 1])
        BY <3>1
      <3> QED
        BY <3>2, Zenon
    <2>6. Nat \subseteq S
      <3> HIDE DEF S
      <3> QED
        BY <2>4, <2>5, Induction
    <2>7. g[Len(s)] = f[Len(s)]
      BY <2>1, <2>6
    <2>8. Len(s) \in 0..Len(t) - 1
      BY <2>1
    <2>9. g[Len(t)] = ValueStep(b, g[Len(s)], digit)
      BY <2>1, <2>3, <2>8
    <2> QED
      BY <2>2, <2>3, <2>7, <2>9 DEF t
  <1> QED
    BY <1>1, <1>2, <1>3

\* Digits give the value back, for both signs, and have no zero in front.
Faithful(b, i) ==
    LET d == LS!Digits(b)[i] IN
    /\ d \in Seq(HexChars) /\ Len(d) >= 1
    /\ LS!Value(b, d) = LS!Magnitude(i)
    /\ d[1] \in HexChars
    /\ i = 0 => d = <<"0">>
    /\ i # 0 => d[1] # "0"

\* So for every number: by induction along its digits.
LEMMA DigitsValue ==
    ASSUME NEW b \in {10, 16}
    PROVE  \A i \in Int : Faithful(b, i)
  <1> DEFINE S == {i \in Int : Faithful(b, i)}
  <1>1. ASSUME NEW i \in Int, LS!Quotient(i, b) # 0 => LS!Quotient(i, b) \in S PROVE i \in S
    <2> DEFINE q == LS!Quotient(i, b)
               r == LS!Remainder(i, b)
               c == LS!Digit(r)
               d == LS!Digits(b)[i]
               e == LS!Digits(b)[q]
    <2>1. d = (IF q = 0 THEN <<>> ELSE e) \o <<c>>
      BY DigitsIs DEF OneMore
    <2>2. /\ c \in HexChars /\ LS!DigitValue(c) = LS!Magnitude(r)
          /\ c = "0" <=> LS!Magnitude(r) = 0
      BY LastDigit
    <2>3. /\ q \in Int /\ LS!Magnitude(i) \in Nat /\ LS!Magnitude(q) \in Nat
          /\ LS!Magnitude(r) \in 0..b - 1
          /\ LS!Magnitude(i) = b * LS!Magnitude(q) + LS!Magnitude(r)
          /\ q = 0 <=> LS!Magnitude(i) < b
          /\ q # 0 => LS!Magnitude(q) < LS!Magnitude(i)
      BY DivisionOf
    <2>4. i = 0 <=> LS!Magnitude(i) = 0
      BY DEF LS!Magnitude
    <2>5. q = 0 <=> LS!Magnitude(q) = 0
      BY <2>3 DEF LS!Magnitude
    <2>6. q # 0 => Faithful(b, q)
      BY <1>1
    <2>7. CASE q = 0
      <3>1. d = <<>> \o <<c>>
        BY <2>1, <2>7, Zenon
      <3>2. d = <<c>>
        BY <2>2, <3>1
      <3>3. LS!Value(b, d) = ValueStep(b, 0, c)
        <4>1. <<>> \in Seq(HexChars) /\ c \in HexChars
          BY <2>2
        <4>2. LS!Value(b, <<>> \o <<c>>) = ValueStep(b, LS!Value(b, <<>>), c)
          BY <4>1, ValueAppend, Zenon
        <4> QED
          BY <3>1, <4>2, ValueAppend, Zenon
      <3>4. LS!Magnitude(q) = 0
        BY <2>5, <2>7
      <3> HIDE DEF q, r, c, d, e
      <3>5. b * 0 = 0
        OBVIOUS
      <3>6. LS!Value(b, d) = LS!Magnitude(i)
        BY <2>2, <2>3, <3>3, <3>4, <3>5 DEF ValueStep
      <3>7. i = 0 <=> c = "0"
        BY <2>2, <2>3, <2>4, <3>4, <3>5
      <3>8. d \in Seq(HexChars) /\ Len(d) >= 1 /\ d[1] = c
        BY <2>2, <3>2
      <3>9. Faithful(b, i)
        BY <2>2, <3>2, <3>6, <3>7, <3>8 DEF Faithful, d
      <3> QED
        BY <3>9
    <2>8. CASE q # 0
      <3>1. d = e \o <<c>>
        BY <2>1, <2>8, Zenon
      <3>2. /\ e \in Seq(HexChars) /\ Len(e) >= 1 /\ LS!Value(b, e) = LS!Magnitude(q)
            /\ e[1] \in HexChars /\ e[1] # "0"
        BY <2>6, <2>8 DEF Faithful
      <3>3. LS!Value(b, d) = ValueStep(b, LS!Value(b, e), c)
        BY <2>2, <3>1, <3>2, ValueAppend
      <3> HIDE DEF q, r, c, d, e
      <3>4. LS!Value(b, d) = LS!Magnitude(i)
        BY <2>2, <2>3, <3>2, <3>3 DEF ValueStep
      <3>5. d \in Seq(HexChars) /\ Len(d) >= 1 /\ d[1] = e[1]
        BY <2>2, <3>1, <3>2
      <3>6. i # 0
        BY <2>3, <2>4, <2>8
      <3>7. Faithful(b, i)
        BY <3>2, <3>4, <3>5, <3>6 DEF Faithful, d
      <3> QED
        BY <3>7
    <2> QED
      BY <2>7, <2>8
  <1>2. Int \subseteq S
    <2> HIDE DEF S
    <2> QED
      BY <1>1, DigitInduction
  <1> QED
    BY <1>2
\* The powers grow, and those of 16 are the larger ones.
LEMMA PowersGrow ==
    ASSUME NEW n \in Nat
    PROVE  /\ LS!Power(10)[n] >= 1 /\ LS!Power(2)[n] >= 1
           /\ LS!Power(10)[n] <= LS!Power(16)[n]
           /\ LS!Power(2)[n] >= n + 1
  <1> DEFINE S == {m \in Nat : /\ LS!Power(10)[m] >= 1 /\ LS!Power(2)[m] >= m + 1
                               /\ LS!Power(10)[m] <= LS!Power(16)[m]}
  <1>1. 0 \in S
    <2>1. LS!Power(10)[0] = 1 /\ LS!Power(16)[0] = 1 /\ LS!Power(2)[0] = 1
      BY PowerIs
    <2> QED
      BY <2>1
  <1>2. ASSUME NEW m \in Nat, m \in S PROVE m + 1 \in S
    <2>1. /\ LS!Power(10)[m] \in Nat /\ LS!Power(16)[m] \in Nat /\ LS!Power(2)[m] \in Nat
          /\ LS!Power(10)[m + 1] = 10 * LS!Power(10)[m]
          /\ LS!Power(16)[m + 1] = 16 * LS!Power(16)[m]
          /\ LS!Power(2)[m + 1] = 2 * LS!Power(2)[m]
      BY PowerIs
    <2> QED
      BY <1>2, <2>1
  <1>3. Nat \subseteq S
    <2> HIDE DEF S
    <2> QED
      BY <1>1, <1>2, Induction
  <1>4. n \in S
    <2> HIDE DEF S
    <2> QED
      BY <1>3
  <1>5. LS!Power(2)[n] \in Nat
    BY PowerIs
  <1> QED
    BY <1>4, <1>5

\* n digits are enough below the nth power.
LEMMA DigitsLength ==
    ASSUME NEW b \in {10, 16}, NEW n \in Nat
    PROVE  \A i \in Int : LS!Magnitude(i) < LS!Power(b)[n + 1] => Len(LS!Digits(b)[i]) <= n + 1
  <1> DEFINE Short(m) == \A i \in Int : LS!Magnitude(i) < LS!Power(b)[m + 1]
                                           => Len(LS!Digits(b)[i]) <= m + 1
             S == {m \in Nat : Short(m)}
  <1>1. ASSUME NEW i \in Int
        PROVE  /\ LS!Quotient(i, b) = 0 => Len(LS!Digits(b)[i]) = 1
               /\ LS!Quotient(i, b) # 0 =>
                     Len(LS!Digits(b)[i]) = Len(LS!Digits(b)[LS!Quotient(i, b)]) + 1
    <2> DEFINE q == LS!Quotient(i, b)
    <2>1. /\ q \in Int /\ LS!Digits(b)[q] \in Seq(HexChars)
          /\ LS!Digit(LS!Remainder(i, b)) \in HexChars
      BY DivisionOf, DigitsType, LastDigit
    <2>2. LS!Digits(b)[i] =
             (IF q = 0 THEN <<>> ELSE LS!Digits(b)[q]) \o <<LS!Digit(LS!Remainder(i, b))>>
      BY DigitsIs DEF OneMore
    <2> HIDE DEF q
    <2>3. q = 0 => Len(LS!Digits(b)[i]) = 1
      BY <2>1, <2>2
    <2>4. q # 0 => Len(LS!Digits(b)[i]) = Len(LS!Digits(b)[q]) + 1
      BY <2>1, <2>2
    <2> QED
      BY <2>3, <2>4 DEF q
  <1>0. /\ LS!Power(b) \in [Nat -> Nat] /\ LS!Power(b)[0] = 1
        /\ \A m \in Nat : LS!Power(b)[m + 1] = b * LS!Power(b)[m]
    BY PowerIs, Zenon
  <1>2. 0 \in S
    <2>1. LS!Power(b)[0 + 1] = b
      <3>1. 0 \in Nat /\ b * 1 = b
        OBVIOUS
      <3> QED
        BY <1>0, <3>1, Zenon
    <2>2. ASSUME NEW i \in Int, LS!Magnitude(i) < b PROVE Len(LS!Digits(b)[i]) <= 0 + 1
      <3>1. LS!Quotient(i, b) = 0
        BY <2>2, DivisionOf, Zenon
      <3>2. Len(LS!Digits(b)[i]) = 1
        BY <1>1, <3>1, Zenon
      <3> QED
        BY <3>2
    <2> QED
      BY <2>1, <2>2, Zenon
  <1>3. ASSUME NEW m \in Nat, m \in S PROVE m + 1 \in S
    <2>1. /\ LS!Power(b)[m + 1] \in Nat
          /\ LS!Power(b)[(m + 1) + 1] = b * LS!Power(b)[m + 1]
      <3>1. m + 1 \in Nat
        OBVIOUS
      <3> QED
        BY <1>0, <3>1, Zenon
    <2>2. ASSUME NEW i \in Int, LS!Magnitude(i) < LS!Power(b)[(m + 1) + 1]
          PROVE  Len(LS!Digits(b)[i]) <= (m + 1) + 1
      <3> DEFINE q == LS!Quotient(i, b)
      <3>1. CASE q = 0
        <4>1. Len(LS!Digits(b)[i]) = 1
          BY <1>1, <3>1
        <4> QED
          BY <4>1
      <3>2. CASE q # 0
        <4>1. /\ q \in Int /\ LS!Magnitude(i) \in Nat /\ LS!Magnitude(q) \in Nat
              /\ LS!Magnitude(LS!Remainder(i, b)) \in Nat
              /\ LS!Magnitude(i) =
                    b * LS!Magnitude(q) + LS!Magnitude(LS!Remainder(i, b))
          <5>1. /\ q \in Int /\ LS!Magnitude(i) \in Nat /\ LS!Magnitude(q) \in Nat
                /\ LS!Magnitude(LS!Remainder(i, b)) \in 0..b - 1
                /\ LS!Magnitude(i) =
                      b * LS!Magnitude(q) + LS!Magnitude(LS!Remainder(i, b))
            BY DivisionOf, Zenon
          <5> QED
            BY <5>1
        <4>2. Len(LS!Digits(b)[i]) = Len(LS!Digits(b)[q]) + 1 /\ Len(LS!Digits(b)[q]) \in Nat
          BY <1>1, <3>2, <4>1, DigitsType
        <4> HIDE DEF q
        <4>3. b * LS!Magnitude(q) < b * LS!Power(b)[m + 1]
          BY <2>1, <2>2, <4>1
        <4>4. LS!Magnitude(q) < LS!Power(b)[m + 1]
          <5>1. CASE b = 10
            BY <2>1, <4>1, <4>3, <5>1
          <5>2. CASE b = 16
            BY <2>1, <4>1, <4>3, <5>2
          <5> QED
            BY <5>1, <5>2
        <4>5. Len(LS!Digits(b)[q]) <= m + 1
          BY <1>3, <4>1, <4>4
        <4> QED
          BY <4>2, <4>5
      <3> QED
        BY <3>1, <3>2
    <2> QED
      BY <2>2
  <1>4. Nat \subseteq S
    <2> HIDE DEF S
    <2> QED
      BY <1>2, <1>3, Induction
  <1> QED
    BY <1>4
\* A character before digits.
LEMMA InFront ==
    ASSUME NEW c \in Chars, NEW s \in Seq(HexChars)
    PROVE  /\ <<c>> \o s \in Seq(Chars) /\ Len(<<c>> \o s) = Len(s) + 1
           /\ Tail(<<c>> \o s) = s /\ (<<c>> \o s)[1] = c
           /\ Len(s) >= 1 => (<<c>> \o s)[2] = s[1]
  <1>1. HexChars \subseteq Chars
    BY DEF Chars
  <1>2. <<c>> \in Seq(Chars) /\ s \in Seq(Chars) /\ Len(s) \in Nat
    BY <1>1
  <1> DEFINE t == <<c>> \o s
  <1>3. /\ t \in Seq(Chars) /\ Len(t) = Len(s) + 1
        /\ t[1] = c /\ \A k \in 1..Len(s) : t[k + 1] = s[k]
    BY <1>2
  <1> HIDE DEF t
  <1>4. Tail(t) \in Seq(Chars) /\ Len(Tail(t)) = Len(s) /\ \A k \in 1..Len(s) : Tail(t)[k] = s[k]
    BY <1>2, <1>3
  <1>5. Tail(t) = s
    BY <1>2, <1>4, SameSeq
  <1>6. ASSUME Len(s) >= 1 PROVE t[2] = s[1]
    <2>1. 1 \in 1..Len(s) /\ 1 + 1 = 2
      BY <1>2, <1>6
    <2> QED
      BY <1>3, <2>1
  <1> QED
    BY <1>3, <1>5, <1>6 DEF t

\* The prefix of a pointer.
LEMMA Prefixed ==
    ASSUME NEW s \in Seq(HexChars)
    PROVE  /\ <<"0", "x">> \o s \in Seq(Chars) /\ Len(<<"0", "x">> \o s) = Len(s) + 2
           /\ Tail(Tail(<<"0", "x">> \o s)) = s
  <1>1. HexChars \subseteq Chars /\ "x" \in Chars
    BY DEF Chars
  <1>2. "0" \in Chars
    <2>1. 0 \in 0..15 /\ LS!logDigitsHex[0 + 1] = "0"
      BY DEF LS!logDigitsHex
    <2>2. LS!logDigitsHex[0 + 1] \in HexChars
      BY <2>1, DigitOf
    <2> QED
      BY <1>1, <2>1, <2>2
  <1>3. <<"0", "x">> \in Seq(Chars) /\ s \in Seq(Chars) /\ Len(s) \in Nat
    BY <1>1, <1>2
  <1> DEFINE t == <<"0", "x">> \o s
  <1>4. t \in Seq(Chars) /\ Len(t) = Len(s) + 2 /\ \A k \in 1..Len(s) : t[2 + k] = s[k]
    BY <1>3, ConcatAt
  <1> HIDE DEF t
  <1>5. /\ Tail(Tail(t)) \in Seq(Chars) /\ Len(Tail(Tail(t))) = Len(s)
        /\ \A k \in 1..Len(s) : Tail(Tail(t))[k] = t[2 + k]
    <2>1. /\ Tail(t) \in Seq(Chars) /\ Len(Tail(t)) = Len(s) + 1
          /\ \A k \in 1..Len(s) + 1 : Tail(t)[k] = t[k + 1]
      BY <1>3, <1>4
    <2>2. /\ Tail(Tail(t)) \in Seq(Chars) /\ Len(Tail(Tail(t))) = Len(s)
          /\ \A k \in 1..Len(s) : Tail(Tail(t))[k] = Tail(t)[k + 1]
      BY <1>3, <2>1
    <2>3. \A k \in 1..Len(s) : k + 1 \in 1..Len(s) + 1 /\ (k + 1) + 1 = 2 + k
      BY <1>3
    <2> QED
      BY <2>1, <2>2, <2>3
  <1>6. Tail(Tail(t)) = s
    BY <1>3, <1>4, <1>5, SameSeq
  <1> QED
    BY <1>4, <1>6 DEF t

\* What fits into the integers of the program has at most kMaxNumericSize - 3 digits.
LEMMA NumbersShort ==
    ASSUME NEW v \in LS!Signed \cup LS!Unsigned
    PROVE  /\ v \in Int /\ kMaxNumericSize \in Nat
           /\ \A b \in {10, 16} : Len(LS!Digits(b)[v]) <= kMaxNumericSize - 3
  <1> DEFINE two == LS!Power(2)[Bits]
             half == LS!Power(2)[Bits - 1]
             top == LS!Power(10)[kMaxNumericSize - 3]
  <1>1. /\ Bits \in Nat \ {0} /\ kMaxNumericSize \in Nat /\ kMaxNumericSize >= 3
        /\ two <= top
    BY BlocksAssumption DEF LS!LogStreamAssumption
  <1>2. two \in Nat /\ half \in Nat /\ two = 2 * half /\ half >= 1
    <2>1. Bits - 1 \in Nat /\ (Bits - 1) + 1 = Bits
      BY <1>1
    <2>2. half \in Nat /\ two = 2 * half
      BY <2>1, PowerIs
    <2>3. half >= 1
      BY <2>1, PowersGrow
    <2> QED
      BY <2>2, <2>3
  <1>3. v \in Int /\ LS!Magnitude(v) \in Nat /\ LS!Magnitude(v) < two
    <2>1. v \in -half..half - 1 \/ v \in 0..two - 1
      BY DEF LS!Signed, LS!Unsigned
    <2> HIDE DEF two, half
    <2> QED
      BY <1>2, <2>1 DEF LS!Magnitude
  <1>4. kMaxNumericSize - 3 # 0
    <2>1. LS!Power(10)[0] = 1
      BY PowerIs
    <2>2. top # 1
      <3>1. top \in Nat
        BY <1>1, PowerIs
      <3> HIDE DEF top, two, half
      <3> QED
        BY <1>1, <1>2, <3>1
    <2> QED
      BY <2>1, <2>2
  <1> DEFINE n == kMaxNumericSize - 4
  <1>5. n \in Nat /\ n + 1 = kMaxNumericSize - 3 /\ kMaxNumericSize - 3 \in Nat
    BY <1>1, <1>4
  <1> HIDE DEF n
  <1>6. top \in Nat /\ LS!Power(16)[kMaxNumericSize - 3] \in Nat
    BY <1>5, PowerIs
  <1>7. top <= LS!Power(16)[kMaxNumericSize - 3]
    BY <1>5, PowersGrow
  <1>8. /\ LS!Magnitude(v) < LS!Power(10)[n + 1]
        /\ LS!Magnitude(v) < LS!Power(16)[n + 1]
    <2>1. LS!Magnitude(v) < top /\ LS!Magnitude(v) < LS!Power(16)[kMaxNumericSize - 3]
      <3> HIDE DEF top, two
      <3> QED
        BY <1>1, <1>2, <1>3, <1>6, <1>7
    <2> QED
      BY <1>5, <2>1
  <1>9. Len(LS!Digits(10)[v]) <= n + 1
    BY <1>3, <1>5, <1>8, DigitsLength, Zenon
  <1>10. Len(LS!Digits(16)[v]) <= n + 1
    BY <1>3, <1>5, <1>8, DigitsLength, Zenon
  <1> QED
    BY <1>1, <1>3, <1>5, <1>9, <1>10

\* Every integer's text is that integer, and fits.
LEMMA ConversionIsExact == LS!ConvertExact
  <1>1. ASSUME NEW v \in LS!Signed \cup LS!Unsigned
        PROVE  /\ v = IF LS!logConvert(v)[1] = "-" THEN -LS!Value(10, Tail(LS!logConvert(v)))
                      ELSE LS!Value(10, LS!logConvert(v))
               /\ LS!logConvert(v) = <<"0">> \/ LS!logConvert(v)[IF v < 0 THEN 2 ELSE 1] # "0"
               /\ Len(LS!logConvert(v)) < kMaxNumericSize
    <2> DEFINE d == LS!Digits(10)[v]
               text == LS!logConvert(v)
    <2>1. v \in Int /\ kMaxNumericSize \in Nat /\ Len(d) <= kMaxNumericSize - 3
      BY NumbersShort
    <2>2. Faithful(10, v)
      BY <2>1, DigitsValue
    <2>3. /\ d \in Seq(HexChars) /\ Len(d) >= 1 /\ Len(d) \in Nat
          /\ LS!Value(10, d) = LS!Magnitude(v)
          /\ d[1] # "-" /\ d[1] \in HexChars
          /\ v = 0 => d = <<"0">>
          /\ v # 0 => d[1] # "0"
      <3>1. /\ d \in Seq(HexChars) /\ Len(d) >= 1
            /\ LS!Value(10, d) = LS!Magnitude(v) /\ d[1] \in HexChars
            /\ v = 0 => d = <<"0">>
            /\ v # 0 => d[1] # "0"
        BY <2>2 DEF Faithful
      <3>2. \A c \in HexChars : c # "-"
        BY DigitOf DEF HexChars
      <3> QED
        BY <3>1, <3>2
    <2>4. CASE v < 0
      <3>1. text = <<"-">> \o d
        BY <2>4, Zenon DEF LS!logConvert
      <3>2. "-" \in Chars
        BY DEF Chars
      <3> HIDE DEF d, text
      <3>3. Len(text) = Len(d) + 1 /\ Tail(text) = d /\ text[1] = "-" /\ text[2] = d[1]
        BY <2>3, <3>1, <3>2, InFront
      <3>4. v # 0 /\ v = -LS!Magnitude(v)
        BY <2>1, <2>4 DEF LS!Magnitude
      <3>5. v = -LS!Value(10, Tail(text))
        BY <2>3, <3>3, <3>4
      <3>6. text[2] # "0"
        BY <2>3, <3>3, <3>4
      <3>7. Len(text) < kMaxNumericSize
        BY <2>1, <2>3, <3>3
      <3>8. /\ v = IF text[1] = "-" THEN -LS!Value(10, Tail(text)) ELSE LS!Value(10, text)
            /\ text = <<"0">> \/ text[IF v < 0 THEN 2 ELSE 1] # "0"
        BY <2>4, <3>3, <3>5, <3>6, Zenon
      <3> QED
        BY <3>7, <3>8 DEF text
    <2>5. CASE ~(v < 0)
      <3>1. text = <<>> \o d
        BY <2>5, Zenon DEF LS!logConvert
      <3> HIDE DEF text
      <3>2. text = d
        BY <2>3, <3>1, SameSeq
      <3>3. v = LS!Magnitude(v)
        BY <2>5 DEF LS!Magnitude
      <3> HIDE DEF d
      <3>4. text = <<"0">> \/ text[1] # "0"
        BY <2>3, <3>2
      <3>5. Len(text) < kMaxNumericSize
        BY <2>1, <2>3, <3>2
      <3>6. text[1] # "-" /\ v = LS!Value(10, text)
        BY <2>3, <3>2, <3>3
      <3>7. /\ v = IF text[1] = "-" THEN -LS!Value(10, Tail(text)) ELSE LS!Value(10, text)
            /\ text = <<"0">> \/ text[IF v < 0 THEN 2 ELSE 1] # "0"
        BY <2>5, <3>4, <3>6, Zenon
      <3> QED
        BY <3>5, <3>7 DEF text
    <2> QED
      BY <2>4, <2>5
  <1>2. ASSUME NEW v \in LS!Unsigned
        PROVE  /\ v = LS!Value(16, Tail(Tail(LS!logConvertHex(v))))
               /\ Len(LS!logConvertHex(v)) < kMaxNumericSize
    <2> DEFINE d == LS!Digits(16)[v]
               text == LS!logConvertHex(v)
    <2>1. v \in Int /\ kMaxNumericSize \in Nat /\ Len(d) <= kMaxNumericSize - 3
      BY NumbersShort
    <2>2. /\ d \in Seq(HexChars) /\ Len(d) \in Nat /\ LS!Value(16, d) = LS!Magnitude(v)
      BY <2>1, DigitsValue DEF Faithful
    <2>3. v >= 0 /\ v = LS!Magnitude(v)
      BY <2>1 DEF LS!Unsigned, LS!Magnitude
    <2>4. text = <<"0", "x">> \o d
      BY Zenon DEF LS!logConvertHex
    <2> HIDE DEF d, text
    <2>5. Len(text) = Len(d) + 2 /\ Tail(Tail(text)) = d
      BY <2>2, <2>4, Prefixed
    <2>6. v = LS!Value(16, Tail(Tail(text)))
      BY <2>2, <2>3, <2>5
    <2>7. Len(text) < kMaxNumericSize
      BY <2>1, <2>2, <2>5
    <2> QED
      BY <2>6, <2>7 DEF text
  <1> QED
    BY <1>1, <1>2, Zenon DEF LS!ConvertExact
\* Texts one after the other.
LEMMA FlattenExists ==
    ASSUME NEW T, NEW s \in Seq(Seq(T)), Len(s) # 0
    PROVE  \E f \in [1..Len(s) -> Seq(T)] :
              /\ f[1] = s[1]
              /\ \A k \in 1..Len(s) - 1 : f[k + 1] = f[k] \o s[k + 1]
              /\ LS!FlattenSeq(s) = f[Len(s)]
  <1> DEFINE V == Seq(T)
             L == Len(s)
             body(f) == [i \in 1..L |-> IF i = 1 THEN s[i] ELSE f[i - 1] \o s[i]]
             Step == [k \in Nat |-> [x \in V |->
                         IF k = 0 THEN s[1] ELSE IF k < L THEN x \o s[k + 1] ELSE <<>>]]
  <1>1. L \in Nat /\ 1 \in 1..L /\ \A k \in 1..L : s[k] \in V
    OBVIOUS
  <1>2. \A x, y \in V : x \o y \in V
    BY ConcatAt
  <1>3. Step \in Steps(V) /\ <<>> \in V
    <2>1. <<>> \in V
      OBVIOUS
    <2>2. ASSUME NEW k \in Nat, NEW x \in V
          PROVE  (IF k = 0 THEN s[1] ELSE IF k < L THEN x \o s[k + 1] ELSE <<>>) \in V
      <3>1. k < L => k + 1 \in 1..L
        BY <1>1
      <3> HIDE DEF V, L
      <3>2. k < L => s[k + 1] \in V
        BY <1>1, <3>1
      <3> QED
        BY <1>1, <1>2, <2>1, <3>2
    <2> HIDE DEF V, L
    <2> QED
      BY <2>1, <2>2 DEF Steps
  <1>4. Iterates(V, <<>>, Step) # {}
    <2> HIDE DEF Step, V
    <2> QED
      BY <1>3, Recursion, Zenon
  <1>5. PICK g \in [Nat -> V] : \A k \in Nat : g[k + 1] = Step[k][g[k]]
    <2> HIDE DEF Step, V
    <2> QED
      BY <1>4 DEF Iterates
  <1>6. g[1] = s[1] /\ \A k \in 1..L - 1 : g[k + 1] = g[k] \o s[k + 1]
    <2>1. \A k \in Nat : g[k] \in V
      <3> HIDE DEF V
      <3> QED
        OBVIOUS
    <2>2. g[0 + 1] = Step[0][g[0]] /\ 0 + 1 = 1
      <3> HIDE DEF Step, V
      <3>1. 0 \in Nat /\ 0 + 1 = 1
        OBVIOUS
      <3> QED
        BY <1>5, <3>1, Zenon
    <2>3. Step[0][g[0]] = s[1]
      <3> HIDE DEF V
      <3> QED
        BY <2>1
    <2>4. ASSUME NEW k \in 1..L - 1 PROVE g[k + 1] = g[k] \o s[k + 1]
      <3>1. k \in Nat /\ k # 0 /\ k < L
        <4> HIDE DEF L, V
        <4> QED
          BY <1>1
      <3>2. g[k + 1] = Step[k][g[k]]
        <4> HIDE DEF Step, V, L
        <4> QED
          BY <1>5, <3>1
      <3>3. Step[k][g[k]] = g[k] \o s[k + 1]
        <4> HIDE DEF V, L
        <4> QED
          BY <2>1, <3>1
      <3> HIDE DEF Step, V, L
      <3> QED
        BY <3>2, <3>3
    <2> HIDE DEF Step, V, L
    <2> QED
      BY <2>2, <2>3, <2>4
  <1> HIDE DEF Step
  <1> DEFINE f == [n \in 1..L |-> g[n]]
             h == CHOOSE h : h = body(h)
  <1>7. f = body(f)
    <2>1. ASSUME NEW n \in 1..L PROVE f[n] = IF n = 1 THEN s[n] ELSE f[n - 1] \o s[n]
      <3>1. f[n] = g[n]
        OBVIOUS
      <3>2. CASE n = 1
        BY <1>6, <3>1, <3>2
      <3>3. CASE n # 1
        <4>1. n - 1 \in 1..L - 1 /\ n - 1 \in 1..L /\ (n - 1) + 1 = n
          BY <1>1, <3>3
        <4>2. f[n - 1] = g[n - 1]
          BY <4>1
        <4> HIDE DEF f, L, V
        <4>3. g[n] = g[n - 1] \o s[n]
          BY <1>6, <4>1
        <4> QED
          BY <3>1, <3>3, <4>2, <4>3
      <3> QED
        BY <3>2, <3>3
    <2>2. f = [n \in 1..L |-> f[n]]
      <3> HIDE DEF V, L
      <3> QED
        OBVIOUS
    <2> HIDE DEF f, V, L
    <2> QED
      BY <2>1, <2>2
  <1>8. h = body(h)
    <2> HIDE DEF f, L
    <2> QED
      BY <1>7, Zenon
  <1>9. LS!FlattenSeq(s) = h[L]
    BY Zenon DEF LS!FlattenSeq
  <1> HIDE DEF h
  <1>10. h[1] = s[1] /\ \A k \in 1..L - 1 : h[k + 1] = h[k] \o s[k + 1]
    <2> HIDE DEF L, V
    <2>1. h[1] = s[1]
      BY <1>1, <1>8
    <2>2. ASSUME NEW k \in 1..L - 1 PROVE h[k + 1] = h[k] \o s[k + 1]
      <3>1. k + 1 \in 1..L /\ k + 1 # 1 /\ (k + 1) - 1 = k
        BY <1>1
      <3>2. h[k + 1] = h[(k + 1) - 1] \o s[k + 1]
        BY <1>8, <3>1, Zenon
      <3> QED
        BY <3>1, <3>2, Zenon
    <2> QED
      BY <2>1, <2>2
  <1> DEFINE S == {n \in Nat : n + 1 <= L => h[n + 1] \in V}
  <1>11. 0 \in S
    <2> HIDE DEF V, L
    <2> QED
      BY <1>1, <1>10
  <1>12. ASSUME NEW n \in Nat, n \in S PROVE n + 1 \in S
    <2> HIDE DEF V, L
    <2>1. ASSUME (n + 1) + 1 <= L PROVE h[(n + 1) + 1] \in V
      <3>1. n + 1 <= L /\ n + 1 \in 1..L - 1 /\ (n + 1) + 1 \in 1..L
        BY <1>1, <2>1
      <3>2. h[n + 1] \in V /\ s[(n + 1) + 1] \in V
        BY <1>1, <1>12, <3>1
      <3>3. h[(n + 1) + 1] = h[n + 1] \o s[(n + 1) + 1]
        BY <1>10, <3>1, Zenon
      <3> QED
        BY <1>2, <3>2, <3>3
    <2>2. (n + 1) + 1 <= L => h[(n + 1) + 1] \in V
      BY <2>1
    <2>3. n + 1 \in Nat
      OBVIOUS
    <2> QED
      BY <2>2, <2>3, Zenon
  <1>13. Nat \subseteq S
    <2> HIDE DEF S
    <2> QED
      BY <1>11, <1>12, Induction
  <1>14. h \in [1..L -> V]
    <2>1. ASSUME NEW n \in 1..L PROVE h[n] \in V
      <3>1. n - 1 \in Nat /\ (n - 1) + 1 = n /\ n <= L
        BY <1>1
      <3>2. n - 1 \in S
        <4> HIDE DEF S
        <4> QED
          BY <1>13, <3>1
      <3> HIDE DEF V, L
      <3> QED
        BY <3>1, <3>2
    <2> HIDE DEF V, L
    <2>2. h = [n \in 1..L |-> h[n]]
      BY <1>8
    <2> QED
      BY <2>1, <2>2
  <1> QED
    BY <1>9, <1>10, <1>14

\* One more text is appended.
LEMMA FlattenAppend ==
    ASSUME NEW T
    PROVE  /\ LS!FlattenSeq(<<>>) = <<>>
           /\ \A s \in Seq(Seq(T)) : LS!FlattenSeq(s) \in Seq(T)
           /\ \A s \in Seq(Seq(T)), t \in Seq(T) :
                 LS!FlattenSeq(Append(s, t)) = LS!FlattenSeq(s) \o t
  <1>1. LS!FlattenSeq(<<>>) = <<>>
    <2>1. Len(<<>>) = 0
      OBVIOUS
    <2> QED
      BY <2>1, Zenon DEF LS!FlattenSeq
  <1>2. ASSUME NEW s \in Seq(Seq(T)) PROVE LS!FlattenSeq(s) \in Seq(T)
    <2>1. CASE Len(s) = 0
      <3>1. s = <<>>
        BY <2>1
      <3>2. <<>> \in Seq(T)
        OBVIOUS
      <3> QED
        BY <1>1, <3>1, <3>2, Zenon
    <2>2. CASE Len(s) # 0
      <3>1. Len(s) \in 1..Len(s)
        BY <2>2
      <3>2. PICK f \in [1..Len(s) -> Seq(T)] : LS!FlattenSeq(s) = f[Len(s)]
        BY <2>2, FlattenExists
      <3> QED
        BY <3>1, <3>2
    <2> QED
      BY <2>1, <2>2
  <1>3. ASSUME NEW s \in Seq(Seq(T)), NEW t \in Seq(T)
        PROVE  LS!FlattenSeq(Append(s, t)) = LS!FlattenSeq(s) \o t
    <2> DEFINE u == Append(s, t)
               L == Len(s)
    <2>1. /\ L \in Nat /\ u \in Seq(Seq(T)) /\ Len(u) = L + 1 /\ Len(u) # 0
          /\ u[L + 1] = t /\ \A k \in 1..L : u[k] = s[k]
      OBVIOUS
    <2> HIDE DEF u
    <2>2. PICK g \in [1..Len(u) -> Seq(T)] :
             /\ g[1] = u[1]
             /\ \A k \in 1..Len(u) - 1 : g[k + 1] = g[k] \o u[k + 1]
             /\ LS!FlattenSeq(u) = g[Len(u)]
      BY <2>1, FlattenExists
    <2>3. CASE L = 0
      <3>1. s = <<>>
        BY <2>3
      <3>2. LS!FlattenSeq(s) \o t = t
        <4>1. LS!FlattenSeq(s) = <<>>
          BY <1>1, <3>1, Zenon
        <4>2. <<>> \o t = t
          <5>1. <<>> \in Seq(T)
            OBVIOUS
          <5> QED
            BY <5>1
        <4> QED
          BY <4>1, <4>2, Zenon
      <3>3. LS!FlattenSeq(u) = t
        BY <2>1, <2>2, <2>3
      <3> QED
        BY <3>2, <3>3 DEF u
    <2>4. CASE L # 0
      <3>1. PICK f \in [1..L -> Seq(T)] :
               /\ f[1] = s[1]
               /\ \A k \in 1..L - 1 : f[k + 1] = f[k] \o s[k + 1]
               /\ LS!FlattenSeq(s) = f[L]
        BY <2>4, FlattenExists
      <3> HIDE DEF L
      <3> DEFINE S == {n \in Nat : n + 1 <= L => g[n + 1] = f[n + 1]}
      <3>2. 0 \in S
        <4>1. 1 \in 1..L
          BY <2>1, <2>4
        <4> QED
          BY <2>1, <2>2, <3>1, <4>1
      <3>3. ASSUME NEW n \in Nat, n \in S PROVE n + 1 \in S
        <4>1. ASSUME (n + 1) + 1 <= L PROVE g[(n + 1) + 1] = f[(n + 1) + 1]
          <5>1. /\ n + 1 <= L /\ n + 1 \in 1..L - 1 /\ n + 1 \in 1..Len(u) - 1
                /\ (n + 1) + 1 \in 1..L
            BY <2>1, <4>1
          <5>2. g[n + 1] = f[n + 1] /\ u[(n + 1) + 1] = s[(n + 1) + 1]
            BY <2>1, <3>3, <5>1
          <5>3. g[(n + 1) + 1] = g[n + 1] \o u[(n + 1) + 1]
            BY <2>2, <5>1, Zenon
          <5>4. f[(n + 1) + 1] = f[n + 1] \o s[(n + 1) + 1]
            BY <3>1, <5>1, Zenon
          <5> QED
            BY <5>2, <5>3, <5>4, Zenon
        <4>2. n + 1 \in Nat /\ ((n + 1) + 1 <= L => g[(n + 1) + 1] = f[(n + 1) + 1])
          BY <4>1
        <4> QED
          BY <4>2, Zenon
      <3>4. Nat \subseteq S
        <4> HIDE DEF S
        <4> QED
          BY <3>2, <3>3, Induction
      <3>5. L - 1 \in Nat /\ (L - 1) + 1 = L /\ L <= L /\ L \in 1..Len(u) - 1
        BY <2>1, <2>4
      <3>6. g[L] = f[L]
        <4>1. L - 1 \in S
          <5> HIDE DEF S
          <5> QED
            BY <3>4, <3>5
        <4> QED
          BY <3>5, <4>1
      <3>7. g[L + 1] = g[L] \o u[L + 1]
        BY <2>2, <3>5, Zenon
      <3>8. LS!FlattenSeq(u) = LS!FlattenSeq(s) \o t
        BY <2>1, <2>2, <3>1, <3>6, <3>7, Zenon
      <3> QED
        BY <3>8 DEF u
    <2> QED
      BY <2>3, <2>4
  <1> QED
    BY <1>1, <1>2, <1>3
\* What is in the buffer is what was put into it, and leaves room for a newline; the record
\* that was written last has all that was put into it.
Whole(record) ==
    /\ LS!Last(record.data) = "\n"
    /\ record.data \in {LS!FlattenSeq(record.put), LS!FlattenSeq(record.put) \o <<"\n">>}

StreamInv ==
    /\ put \in Seq(Seq(Chars)) /\ data \in Seq(Chars)
    /\ data = LS!FlattenSeq(put)
    /\ LS!Left > 0
    /\ Whole(written)

\* The record that stands for none is a whole one.
LEMMA BlankIsWhole == Whole(LS!Blank)
  <1>1. LS!FlattenSeq(<<>>) \o <<"\n">> = <<"\n">>
    <2>1. LS!FlattenSeq(<<>>) = <<>>
      BY FlattenAppend
    <2>2. <<>> \o <<"\n">> = <<"\n">>
      OBVIOUS
    <2> QED
      BY <2>1, <2>2, Zenon
  <1>2. LS!Last(<<"\n">>) = "\n"
    BY DEF LS!Last
  <1> QED
    BY <1>1, <1>2 DEF Whole, LS!Blank

\* The initial state satisfies it.
LEMMA InitStream == LS!Init => StreamInv
  <1> SUFFICES ASSUME LS!Init PROVE StreamInv
    OBVIOUS
  <1>1. data = <<>> /\ put = <<>> /\ written = LS!Blank
    BY DEF LS!Init
  <1>2. LS!Left > 0
    <2>1. SIZE \in Nat /\ SIZE >= kMaxNumericSize /\ kMaxNumericSize >= 3 /\ kMaxNumericSize \in Nat
      BY BlocksAssumption DEF LS!LogStreamAssumption
    <2>2. Len(data) = 0
      BY <1>1
    <2> QED
      BY <2>1, <2>2 DEF LS!Left
  <1>3. data = LS!FlattenSeq(put)
    BY <1>1, FlattenAppend
  <1>4. put \in Seq(Seq(Chars)) /\ data \in Seq(Chars)
    BY <1>1
  <1> QED
    BY <1>1, <1>2, <1>3, <1>4, BlankIsWhole DEF StreamInv

\* A text that leaves room is put behind the others.
LEMMA TextStep ==
    ASSUME StreamInv, NEW text \in Seq(Chars), Len(text) < LS!Left, LS!Add(text)
    PROVE  StreamInv'
  <1>1. data' = data \o text /\ put' = Append(put, text) /\ written' = LS!Blank
    BY DEF LS!Add
  <1>2. put \in Seq(Seq(Chars)) /\ data \in Seq(Chars) /\ data = LS!FlattenSeq(put)
    BY DEF StreamInv
  <1>3. data' = LS!FlattenSeq(put')
    BY <1>1, <1>2, FlattenAppend
  <1>4. put' \in Seq(Seq(Chars)) /\ data' \in Seq(Chars) /\ Len(data') = Len(data) + Len(text)
    BY <1>1, <1>2, ConcatAt
  <1>5. LS!Left' > 0
    <2>1. SIZE \in Nat /\ Len(data) \in Nat /\ Len(text) \in Nat
      BY <1>2, BlocksAssumption DEF LS!LogStreamAssumption
    <2> QED
      BY <1>4, <2>1 DEF LS!Left
  <1>6. Whole(written)'
    BY <1>1, BlankIsWhole DEF Whole
  <1> QED
    BY <1>3, <1>4, <1>5, <1>6 DEF StreamInv

\* A formatted number is shorter than the room that was asked for.
LEMMA ConvertedFits ==
    /\ \A v \in LS!Signed \cup LS!Unsigned :
          LS!logConvert(v) \in Seq(Chars) /\ Len(LS!logConvert(v)) < kMaxNumericSize
    /\ \A v \in LS!Unsigned :
          LS!logConvertHex(v) \in Seq(Chars) /\ Len(LS!logConvertHex(v)) < kMaxNumericSize
  <1>0. HexChars \subseteq Chars /\ "-" \in Chars
    BY DEF Chars
  <1>1. ASSUME NEW v \in LS!Signed \cup LS!Unsigned PROVE LS!logConvert(v) \in Seq(Chars)
    <2>1. v \in Int
      BY NumbersShort
    <2>2. LS!Digits(10)[v] \in Seq(HexChars)
      BY <2>1, DigitsType
    <2>3. LS!Digits(10)[v] \in Seq(Chars) /\ <<"-">> \in Seq(Chars) /\ <<>> \in Seq(Chars)
      BY <1>0, <2>2
    <2>4. (IF v < 0 THEN <<"-">> ELSE <<>>) \in Seq(Chars)
      BY <2>3
    <2> QED
      BY <2>3, <2>4, ConcatAt DEF LS!logConvert
  <1>2. ASSUME NEW v \in LS!Unsigned PROVE LS!logConvertHex(v) \in Seq(Chars)
    <2>1. v \in Int
      BY NumbersShort
    <2>2. LS!Digits(16)[v] \in Seq(HexChars)
      BY <2>1, DigitsType
    <2> QED
      BY <2>2, Prefixed DEF LS!logConvertHex
  <1>3. /\ \A v \in LS!Signed \cup LS!Unsigned : Len(LS!logConvert(v)) < kMaxNumericSize
        /\ \A v \in LS!Unsigned : Len(LS!logConvertHex(v)) < kMaxNumericSize
    BY ConversionIsExact, Zenon DEF LS!ConvertExact
  <1> QED
    BY <1>1, <1>2, <1>3

\* flush appends the newline that there is room for, and starts anew.
LEMMA FlushStep ==
    ASSUME StreamInv, LS!Flush
    PROVE  StreamInv'
  <1>1. /\ put \in Seq(Seq(Chars)) /\ data \in Seq(Chars) /\ data = LS!FlattenSeq(put)
        /\ LS!Left # 0
    BY DEF StreamInv
  <1>2. /\ written'.put = put
        /\ written'.data = IF LS!Last(data) = "\n" THEN data ELSE Append(data, "\n")
        /\ data' = <<>> /\ put' = <<>>
    BY <1>1 DEF LS!Flush
  <1>3. Whole(written)'
    <2>1. CASE LS!Last(data) = "\n"
      BY <1>1, <1>2, <2>1 DEF Whole
    <2>2. CASE LS!Last(data) # "\n"
      <3>1. "\n" \in Chars
        BY DEF Chars
      <3>2. Append(data, "\n") = data \o <<"\n">>
        BY <1>1, <3>1, AppendOne, Zenon
      <3>3. LS!Last(Append(data, "\n")) = "\n"
        BY <1>1, <3>1 DEF LS!Last
      <3>4. written'.data = Append(data, "\n")
        BY <1>2, <2>2, Zenon
      <3> QED
        BY <1>1, <1>2, <3>2, <3>3, <3>4 DEF Whole
    <2> QED
      BY <2>1, <2>2
  <1>4. data' = LS!FlattenSeq(put')
    BY <1>2, FlattenAppend
  <1>5. LS!Left' > 0
    <2>1. SIZE \in Nat /\ SIZE >= kMaxNumericSize /\ kMaxNumericSize >= 3 /\ kMaxNumericSize \in Nat
      BY BlocksAssumption DEF LS!LogStreamAssumption
    <2>2. Len(data') = 0
      BY <1>2
    <2> QED
      BY <2>1, <2>2 DEF LS!Left
  <1>6. put' \in Seq(Seq(Chars)) /\ data' \in Seq(Chars)
    BY <1>2
  <1> QED
    BY <1>3, <1>4, <1>5, <1>6 DEF StreamInv

\* Every step keeps it.
LEMMA NextStream ==
    ASSUME StreamInv, LS!Next \/ UNCHANGED lsVars
    PROVE  StreamInv'
  <1>0. /\ kMaxNumericSize \in Nat /\ SIZE \in Nat /\ Len(data) \in Nat
        /\ Texts \subseteq Seq(STRING) /\ Numbers \subseteq LS!Signed \cup LS!Unsigned
    BY BlocksAssumption DEF LS!LogStreamAssumption, StreamInv
  <1>1. CASE LS!AppendText
    <2>1. PICK text \in Texts : LS!Fits(text) /\ LS!Add(text)
      BY <1>1 DEF LS!AppendText
    <2>2. text \in Seq(Chars)
      <3>1. text \in Seq(STRING) /\ STRING \subseteq Chars
        BY <1>0 DEF Chars
      <3> QED
        BY <3>1, Wider
    <2>3. Len(text) < LS!Left
      BY <1>0, <2>1, <2>2 DEF LS!Fits, LS!Left
    <2> QED
      BY <2>1, <2>2, <2>3, TextStep
  <1>2. CASE LS!FormatInteger
    <2>1. PICK v \in Numbers : LS!Add(LS!logConvert(v))
      BY <1>2 DEF LS!FormatInteger
    <2>2. LS!logConvert(v) \in Seq(Chars) /\ Len(LS!logConvert(v)) < kMaxNumericSize
      BY <1>0, ConvertedFits
    <2>3. Len(LS!logConvert(v)) < LS!Left
      <3>1. LS!Left >= kMaxNumericSize
        BY <1>2 DEF LS!FormatInteger
      <3>2. Len(LS!logConvert(v)) \in Nat
        BY <2>2
      <3> QED
        BY <1>0, <2>2, <3>1, <3>2 DEF LS!Left
    <2> QED
      BY <2>1, <2>2, <2>3, TextStep
  <1>3. CASE LS!FormatPointer
    <2>1. PICK v \in Numbers \cap LS!Unsigned : LS!Add(LS!logConvertHex(v))
      BY <1>3 DEF LS!FormatPointer
    <2>2. LS!logConvertHex(v) \in Seq(Chars) /\ Len(LS!logConvertHex(v)) < kMaxNumericSize
      BY ConvertedFits
    <2>3. Len(LS!logConvertHex(v)) < LS!Left
      <3>1. LS!Left >= kMaxNumericSize
        BY <1>3 DEF LS!FormatPointer
      <3>2. Len(LS!logConvertHex(v)) \in Nat
        BY <2>2
      <3> QED
        BY <1>0, <2>2, <3>1, <3>2 DEF LS!Left
    <2> QED
      BY <2>1, <2>2, <2>3, TextStep
  <1>4. CASE LS!Flush
    BY <1>4, FlushStep
  <1>5. CASE UNCHANGED lsVars
    BY <1>5 DEF lsVars, StreamInv, Whole, LS!Left
  <1> QED
    BY <1>1, <1>2, <1>3, <1>4, <1>5 DEF LS!Next

\* The inductive invariant is enough.
LEMMA StreamInvIsIntact == StreamInv => LS!RecordsIntact
  BY ConversionIsExact DEF StreamInv, Whole, LS!RecordsIntact

\* The log's records (logstream.cpp, logging.cpp) have all that was formatted into them, each
\* value as a whole and exact, and end with a newline that overwrites nothing; and its files
\* (logfile.cpp) have what was logged, as far as fwrite writes what it is given, under names that
\* differ unless the local time comes again.
THEOREM LogIsIntact == BlocksSpec => []LogIntact
  <1>1. LS!Init => StreamInv
    BY InitStream
  <1>2. StreamInv /\ [LS!Next]_lsVars => StreamInv'
    BY NextStream
  <1>3. StreamInv => LS!RecordsIntact
    BY StreamInvIsIntact
  <1>4. LS!RecordsIntact /\ LF!FilesIntact => LogIntact
    BY DEF LogIntact
  <1> QED
    BY <1>1, <1>2, <1>3, <1>4, FilesAreIntact, Parts, PTL
=============================================================================
