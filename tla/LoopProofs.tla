------------------------------ MODULE LoopProofs ------------------------------
(***************************************************************************)
(* What a thread's loop owes to those that wait in it: theorems about      *)
(* coloop (CoLoop), with its items, and about timerqueue (TimerQueue),     *)
(* with its timers.  The two do not interact, and have names in common:    *)
(* each is an instance, with variables of its own.                         *)
(***************************************************************************)
EXTENDS CoLoop, TimerQueue, SeqSetsProofs
-----------------------------------------------------------------------------
(***************************************************************************)
(* coloop (coloop.cpp).                                                    *)
(***************************************************************************)
StackTypes ==
    /\ state \in [Items -> {"NONE", "FREE", "RUNNING", "SUSPEND", "DONE"}]
    /\ stack \in [{Loop} -> Seq(Items)]

\* What runs is cur, whose state tells what became of it; nothing else is DONE.
CurOK ==
    /\ stack[Loop] = <<>> \/ (cur # None /\ stack[Loop] = <<cur>>)
    /\ \A i \in Items : state[i] = "RUNNING" <=> stack[Loop] = <<i>>
    /\ \A i \in Items : state[i] = "DONE" => i = cur
    /\ cur # None => pc = "run" /\ cur \notin revents \cup timenodes
                     /\ state[cur] \in {"RUNNING", "SUSPEND", "DONE"}

\* The lists are filled where the code fills them, with items that wait.
ListsOK ==
    /\ pc \in {"idle", "poll"} => revents = {}
    /\ pc # "run" => timenodes = {}
    /\ \A i \in revents \cup timenodes : state[i] \in {"FREE", "SUSPEND"}
    /\ revents \cap timenodes = {}
    /\ pc = "run" => \A i \in revents \cup timenodes : wheel[i] = "out"

\* Only items that wait are linked; those that have started are registered.
LinksOK ==
    /\ \A i \in Items : state[i] \in {"NONE", "RUNNING", "DONE"} => wheel[i] = "out"
    /\ \A i \in Items : state[i] \notin {"NONE", "FREE"} <=> i \in epoll

\* TimedWaitCovered without cur: an item is linked again before it leaves doItem.
Covered ==
    \A i \in Items :
        state[i] = "FREE" \/ (state[i] = "SUSPEND" /\ timed[i])
            => wheel[i] # "out" \/ i \in revents \cup timenodes

LoopInv == TypeOK /\ StackTypes /\ CurOK /\ ListsOK /\ LinksOK /\ Covered

LEMMA InitLoop ==
    ASSUME Init
    PROVE  LoopInv
  <1>1. /\ state = [i \in Items |-> "NONE"] /\ stack = [t \in {Loop} |-> <<>>]
        /\ pc = "idle" /\ quit = FALSE /\ room = Room
        /\ revents = {} /\ timenodes = {} /\ cur = None /\ epoll = {}
        /\ events = [i \in Items |-> "NONE"] /\ kept = [i \in Items |-> "NONE"]
        /\ wheel = [i \in Items |-> "out"]
        /\ op = [i \in Items |-> "body"] /\ timed = [i \in Items |-> FALSE]
        /\ socket = [i \in Items |-> "quiet"]
    BY DEF Init, Co!CoInit
  <1>2. TypeOK
    BY <1>1, LoopAssumption DEF TypeOK
  <1>3. StackTypes /\ stack[Loop] = <<>>
    BY <1>1 DEF StackTypes
  <1>4. CurOK
    BY <1>1, <1>3 DEF CurOK
  <1> QED
    BY <1>1, <1>2, <1>3, <1>4 DEF LoopInv, ListsOK, LinksOK, Covered

\* resume and yield as the loop uses them: there is nothing below an item.
LEMMA ItemRuns ==
    ASSUME LoopInv, NEW i \in Items
    PROVE  /\ Running(i) => /\ i # None /\ cur = i /\ state[i] = "RUNNING" /\ pc = "run"
                               /\ stack[Loop] = <<i>> /\ Len(stack[Loop]) = 1
           /\ stack[Loop] # <<>> => Running(cur)
  <1>1. stack[Loop] = <<>> => Co!Top(Loop) = None
    BY DEF Co!Top
  <1>2. ASSUME NEW j, stack[Loop] = <<j>> PROVE Co!Top(Loop) = j /\ Len(stack[Loop]) = 1
    BY <1>2 DEF Co!Top
  <1> QED
    BY <1>1, <1>2, LoopAssumption DEF LoopInv, CurOK, Running

LEMMA ItemResumed ==
    ASSUME LoopInv, NEW i \in Items, Co!Resume(Loop, i)
    PROVE  /\ state[i] \in {"FREE", "SUSPEND"} /\ stack[Loop] = <<>>
           /\ state' = [state EXCEPT ![i] = "RUNNING"]
           /\ stack' \in [{Loop} -> Seq(Items)] /\ stack'[Loop] = <<i>>
  <1>1. /\ Len(stack[Loop]) < 1 /\ state[i] \in {"FREE", "SUSPEND"}
        /\ Co!SetStates(Co!Top(Loop), "INSTACK", i)
        /\ stack' = [stack EXCEPT ![Loop] = Append(stack[Loop], i)]
    BY DEF Co!Resume, Co!Resumable
  <1>2. stack \in [{Loop} -> Seq(Items)] /\ stack[Loop] \in Seq(Items)
    BY DEF LoopInv, StackTypes
  <1>3. stack[Loop] = <<>>
    BY <1>1, <1>2
  <1>4. Co!Top(Loop) = None
    BY <1>3 DEF Co!Top
  <1>5. state' = [j \in Items |-> IF j = i THEN "RUNNING" ELSE state[j]]
    BY <1>1, <1>4, LoopAssumption DEF Co!SetStates
  <1>6. state' = [state EXCEPT ![i] = "RUNNING"]
    BY <1>5 DEF LoopInv, StackTypes
  <1>7. Append(stack[Loop], i) = <<i>> /\ <<i>> \in Seq(Items)
    BY <1>3
  <1> QED
    BY <1>1, <1>2, <1>3, <1>6, <1>7

LEMMA ItemLeaves ==
    ASSUME LoopInv, NEW i \in Items, Running(i), NEW s, Co!Leave(Loop, s)
    PROVE  /\ state' = [state EXCEPT ![i] = s]
           /\ stack' \in [{Loop} -> Seq(Items)] /\ stack'[Loop] = <<>>
  <1>1. /\ Co!SetStates(Co!Top(Loop), s, Co!Below(Loop))
        /\ stack' = [stack EXCEPT ![Loop] = SubSeq(stack[Loop], 1, Len(stack[Loop]) - 1)]
    BY DEF Co!Leave
  <1>2. stack \in [{Loop} -> Seq(Items)] /\ stack[Loop] \in Seq(Items)
    BY DEF LoopInv, StackTypes
  <1>3. Len(stack[Loop]) = 1 /\ i # None
    BY ItemRuns
  <1>4. Co!Top(Loop) = i /\ Co!Below(Loop) = None
    BY <1>3 DEF Running, Co!Below
  <1>5. state' = [j \in Items |-> IF j = i THEN s ELSE state[j]]
    BY <1>1, <1>4, LoopAssumption DEF Co!SetStates
  <1>6. state' = [state EXCEPT ![i] = s]
    BY <1>5 DEF LoopInv, StackTypes
  <1>7. SubSeq(stack[Loop], 1, Len(stack[Loop]) - 1) = <<>> /\ <<>> \in Seq(Items)
    BY <1>2, <1>3
  <1> QED
    BY <1>1, <1>2, <1>6, <1>7

LEMMA StartStep ==
    ASSUME LoopInv, Start
    PROVE  LoopInv'
  <1>1. /\ pc = "idle" /\ stack[Loop] = <<>> /\ pc' = "poll" /\ quit' = FALSE
        /\ UNCHANGED <<state, stack, room, revents, timenodes, cur, epoll, events, wheel, op,
                       timed, kept, socket>>
    BY DEF Start, coVars, loopVars, itemVars
  <1> QED
    BY <1>1 DEF LoopInv, TypeOK, StackTypes, CurOK, ListsOK, LinksOK, Covered

LEMMA StopStep ==
    ASSUME LoopInv, Stop
    PROVE  LoopInv'
  <1>1. /\ pc = "poll" /\ pc' = "idle"
        /\ UNCHANGED <<state, stack, quit, room, revents, timenodes, cur, epoll, events, wheel,
                       op, timed, kept, socket>>
    BY DEF Stop, coVars, loopVars, itemVars
  <1> QED
    BY <1>1 DEF LoopInv, TypeOK, StackTypes, CurOK, ListsOK, LinksOK, Covered

LEMMA PollStep ==
    ASSUME LoopInv, Poll
    PROVE  LoopInv'
  <1>1. revents' \in SUBSET Ready /\ room' \in {room, 2 * room}
    BY DEF Poll
  <1>2. /\ pc = "poll" /\ pc' = "collect"
        /\ UNCHANGED <<state, stack, quit, timenodes, cur, epoll, events, wheel, op, timed, kept,
                       socket>>
    BY DEF Poll, coVars, itemVars
  <1>3. revents' \subseteq epoll
    BY <1>1 DEF Ready
  <1>4. room' \in Nat
    BY <1>1 DEF LoopInv, TypeOK
  <1>5. cur = None /\ \A i \in epoll : state[i] = "SUSPEND"
    <2>1. cur = None /\ stack[Loop] = <<>>
      BY <1>2 DEF LoopInv, CurOK
    <2>2. \A i \in Items : <<i>> # <<>>
      OBVIOUS
    <2>3. \A i \in Items : state[i] # "RUNNING" /\ state[i] # "DONE"
      BY <2>1, <2>2, LoopAssumption DEF LoopInv, CurOK
    <2> QED BY <2>1, <2>3 DEF LoopInv, TypeOK, StackTypes, LinksOK
  <1>6. TypeOK'
    BY <1>2, <1>3, <1>4 DEF LoopInv, TypeOK
  <1> QED
    BY <1>2, <1>3, <1>5, <1>6 DEF LoopInv, StackTypes, CurOK, ListsOK, LinksOK, Covered

LEMMA CollectStep ==
    ASSUME LoopInv, Collect
    PROVE  LoopInv'
  <1>1. /\ pc = "collect" /\ pc' = "run"
        /\ timenodes' = {i \in Items \ revents : wheel[i] = "due"}
        /\ wheel' = [i \in Items |-> IF i \in revents \cup timenodes' THEN "out" ELSE wheel[i]]
        /\ UNCHANGED <<state, stack, quit, room, revents, cur, epoll, events, op, timed, kept,
                       socket>>
    BY DEF Collect, Disarmed, coVars
  <1>2. cur = None /\ \A i \in timenodes' : state[i] \in {"FREE", "SUSPEND"}
    BY <1>1 DEF LoopInv, StackTypes, CurOK, LinksOK
  <1>3. TypeOK'
    BY <1>1 DEF LoopInv, TypeOK
  <1>4. \A i \in Items : wheel'[i] = "out" \/ wheel'[i] = wheel[i]
    BY <1>1
  <1>5. \A i \in revents \cup timenodes' : i \in Items /\ wheel'[i] = "out"
    BY <1>1 DEF LoopInv, TypeOK
  <1>6. ListsOK' /\ CurOK'
    BY <1>1, <1>2, <1>5 DEF LoopInv, CurOK, ListsOK
  <1>7. LinksOK'
    BY <1>1, <1>4 DEF LoopInv, LinksOK
  <1>8. \A i \in Items : wheel[i] # "out" => wheel'[i] # "out" \/ i \in revents \cup timenodes'
    BY <1>1
  <1>9. Covered'
    BY <1>1, <1>8 DEF LoopInv, ListsOK, Covered
  <1> QED
    BY <1>1, <1>3, <1>6, <1>7, <1>9 DEF LoopInv, StackTypes

LEMMA DoItemStep ==
    ASSUME LoopInv, NEW i \in Items, DoItem(i)
    PROVE  LoopInv'
  <1>1. /\ pc = "run" /\ cur = None /\ i \in revents \cup timenodes
        /\ revents' = revents \ {i} /\ timenodes' = timenodes \ {i}
        /\ epoll' = IF state[i] = "FREE" THEN epoll \cup {i} ELSE epoll
        /\ cur' = i
        /\ timed' = [timed EXCEPT ![i] = timed[i] /\ op[i] # "body"]
        /\ UNCHANGED <<pc, quit, room, events, wheel, op, kept, socket>>
    <2>1. revents # {} /\ i \in revents => i \notin timenodes
      BY DEF LoopInv, ListsOK
    <2> QED BY <2>1 DEF DoItem
  <1>2. /\ state[i] \in {"FREE", "SUSPEND"} /\ stack[Loop] = <<>>
        /\ state' = [state EXCEPT ![i] = "RUNNING"]
        /\ stack' \in [{Loop} -> Seq(Items)] /\ stack'[Loop] = <<i>>
    BY ItemResumed DEF DoItem
  <1>3. timed' \in [Items -> BOOLEAN] /\ \A j \in Items : j # i => timed'[j] = timed[j]
    <2>1. (timed[i] /\ op[i] # "body") \in BOOLEAN
      OBVIOUS
    <2> QED BY <1>1, <2>1 DEF LoopInv, TypeOK
  <1>4. TypeOK'
    BY <1>1, <1>3 DEF LoopInv, TypeOK
  <1>5. /\ state \in [Items -> {"NONE", "FREE", "RUNNING", "SUSPEND", "DONE"}]
        /\ state'[i] = "RUNNING" /\ \A j \in Items : j # i => state'[j] = state[j]
        /\ StackTypes'
    BY <1>2 DEF LoopInv, StackTypes
  <1>6. wheel[i] = "out" /\ i # None
    BY <1>1, LoopAssumption DEF LoopInv, ListsOK
  <1>7. \A j \in Items : state[j] # "RUNNING" /\ state[j] # "DONE"
    BY <1>1, <1>2, LoopAssumption DEF LoopInv, CurOK
  <1>8. CurOK'
    BY <1>1, <1>2, <1>5, <1>6, <1>7 DEF CurOK
  <1>9. ListsOK'
    BY <1>1, <1>5 DEF LoopInv, TypeOK, ListsOK
  <1>10. LinksOK'
    BY <1>1, <1>2, <1>5, <1>6 DEF LoopInv, LinksOK
  <1>11. Covered'
    BY <1>1, <1>3, <1>5 DEF LoopInv, Covered
  <1> QED
    BY <1>4, <1>5, <1>8, <1>9, <1>10, <1>11 DEF LoopInv

LEMMA ItemLeftStep ==
    ASSUME LoopInv, ItemLeft
    PROVE  LoopInv'
  <1>1. /\ cur # None /\ stack[Loop] = <<>> /\ cur' = None
        /\ UNCHANGED <<pc, quit, room, revents, timenodes, wheel, op, timed, kept>>
    BY DEF ItemLeft
  <1>2. cur \in Items /\ state[cur] \in {"SUSPEND", "DONE"}
    BY <1>1 DEF LoopInv, TypeOK, CurOK
  <1>3. \A i \in Items : state[i] # "RUNNING"
    BY <1>1 DEF LoopInv, CurOK
  <1>4. CASE state[cur] = "DONE"
    <2>1. /\ epoll' = epoll \ {cur} /\ state' = [state EXCEPT ![cur] = "NONE"] /\ stack' = stack
          /\ events' = [events EXCEPT ![cur] = "NONE"] /\ socket' = [socket EXCEPT ![cur] = "quiet"]
      BY <1>4 DEF ItemLeft, Over, Co!Delete
    <2>2. TypeOK'
      BY <1>1, <2>1 DEF LoopInv, TypeOK
    <2>3. StackTypes' /\ state'[cur] = "NONE" /\ \A i \in Items : i # cur => state'[i] = state[i]
      BY <1>2, <2>1 DEF LoopInv, StackTypes
    <2>4. CurOK'
      BY <1>1, <1>3, <2>1, <2>3 DEF LoopInv, CurOK
    <2>5. ListsOK' /\ LinksOK' /\ Covered'
      BY <1>1, <1>4, <2>1, <2>3 DEF LoopInv, TypeOK, CurOK, ListsOK, LinksOK, Covered
    <2> QED BY <2>2, <2>3, <2>4, <2>5 DEF LoopInv
  <1>5. CASE state[cur] # "DONE"
    <2>1. UNCHANGED <<state, stack, epoll, events, socket>>
      BY <1>5 DEF ItemLeft, Over, coVars
    <2>2. \A i \in Items : state[i] # "DONE"
      BY <1>5 DEF LoopInv, CurOK
    <2> QED BY <1>1, <1>3, <2>1, <2>2 DEF LoopInv, TypeOK, StackTypes, CurOK, ListsOK, LinksOK, Covered
  <1> QED
    BY <1>4, <1>5

LEMMA RoundEndsStep ==
    ASSUME LoopInv, RoundEnds
    PROVE  LoopInv'
  <1>1. /\ pc = "run" /\ cur = None /\ revents = {} /\ timenodes = {} /\ pc' = "poll"
        /\ UNCHANGED <<state, stack, quit, room, revents, timenodes, cur, epoll, events, wheel,
                       op, timed, kept, socket>>
    BY DEF RoundEnds, AllHandled, coVars, loopVars, itemVars
  <1> QED
    BY <1>1 DEF LoopInv, TypeOK, StackTypes, CurOK, ListsOK, LinksOK, Covered

LEMMA CreateStep ==
    ASSUME LoopInv, NEW i \in Items, Create(i)
    PROVE  LoopInv'
  <1>1. /\ state[i] = "NONE" /\ state' = [state EXCEPT ![i] = "FREE"]
        /\ wheel' = [wheel EXCEPT ![i] = "in"]
        /\ UNCHANGED <<stack, pc, quit, room, revents, timenodes, cur, epoll, events, op, timed,
                       kept, socket>>
    BY DEF Create, Co!New, Co!Exists, loopVars
  <1>2. TypeOK' /\ wheel'[i] = "in" /\ \A j \in Items : j # i => wheel'[j] = wheel[j]
    BY <1>1 DEF LoopInv, TypeOK
  <1>3. StackTypes' /\ state'[i] = "FREE" /\ \A j \in Items : j # i => state'[j] = state[j]
    BY <1>1 DEF LoopInv, StackTypes
  <1>4. i \notin revents \cup timenodes /\ i # None /\ i # cur
    BY <1>1, LoopAssumption DEF LoopInv, CurOK, ListsOK
  <1>5. CurOK'
    BY <1>1, <1>3, <1>4 DEF LoopInv, TypeOK, CurOK
  <1>6. ListsOK' /\ LinksOK' /\ Covered'
    BY <1>1, <1>2, <1>3, <1>4 DEF LoopInv, TypeOK, ListsOK, LinksOK, Covered
  <1> QED
    BY <1>2, <1>3, <1>5, <1>6 DEF LoopInv

\* An item that runs and goes on changes nothing that the loop looks at; its wait is over.
LEMMA ItemGoesOn ==
    ASSUME LoopInv, NEW i \in Items, Running(i),
           UNCHANGED <<state, stack, pc, quit, room, revents, timenodes, cur, epoll, wheel>>,
           \A j \in Items : j # i => timed'[j] = timed[j], TypeOK'
    PROVE  LoopInv'
  <1>1. state[i] = "RUNNING"
    BY ItemRuns
  <1> QED
    BY <1>1 DEF LoopInv, StackTypes, CurOK, ListsOK, LinksOK, Covered

\* What yields is suspended or done, and linked if it waits with a timeout.
LEMMA ItemYields ==
    ASSUME LoopInv, NEW i \in Items, Running(i),
           NEW s \in {"SUSPEND", "DONE"}, Co!Leave(Loop, s),
           UNCHANGED <<pc, quit, room, revents, timenodes, cur, epoll>>,
           \A j \in Items : j # i => timed'[j] = timed[j] /\ wheel'[j] = wheel[j],
           TypeOK',
           s = "SUSPEND" /\ timed'[i] => wheel'[i] # "out",
           s = "DONE" => wheel' = wheel
    PROVE  LoopInv'
  <1>1. /\ state' = [state EXCEPT ![i] = s]
        /\ stack' \in [{Loop} -> Seq(Items)] /\ stack'[Loop] = <<>>
    BY ItemLeaves
  <1>2. i # None /\ cur = i /\ state[i] = "RUNNING" /\ pc = "run" /\ stack[Loop] = <<i>>
    BY ItemRuns
  <1>3. StackTypes' /\ state'[i] = s /\ \A j \in Items : j # i => state'[j] = state[j]
    BY <1>1 DEF LoopInv, StackTypes
  <1>4. \A j \in Items : j # i => state[j] # "RUNNING"
    BY <1>2 DEF LoopInv, CurOK
  <1>5. CurOK'
    BY <1>1, <1>2, <1>3, <1>4 DEF LoopInv, TypeOK, CurOK
  <1>6. i \notin revents \cup timenodes /\ wheel[i] = "out"
    BY <1>2 DEF LoopInv, CurOK, LinksOK
  <1>7. ListsOK'
    BY <1>2, <1>3, <1>6 DEF LoopInv, TypeOK, ListsOK
  <1>8. LinksOK'
    BY <1>2, <1>3, <1>6 DEF LoopInv, LinksOK
  <1>9. Covered'
    BY <1>3 DEF LoopInv, Covered
  <1> QED
    BY <1>3, <1>5, <1>7, <1>8, <1>9 DEF LoopInv

LEMMA YieldTypes ==
    ASSUME LoopInv, NEW i \in Items, NEW ms \in BOOLEAN, YieldItem(i, ms)
    PROVE  /\ wheel' \in [Items -> {"out", "in", "due"}] /\ timed' \in [Items -> BOOLEAN]
           /\ \A j \in Items : j # i => timed'[j] = timed[j] /\ wheel'[j] = wheel[j]
           /\ timed'[i] = ms /\ (ms => wheel'[i] # "out")
           /\ Co!Leave(Loop, "SUSPEND")
  <1>1. /\ wheel' = IF ms THEN [wheel EXCEPT ![i] = "in"] ELSE wheel
        /\ timed' = [timed EXCEPT ![i] = ms] /\ Co!Leave(Loop, "SUSPEND")
    BY DEF YieldItem, Co!Yield
  <1>2. timed \in [Items -> BOOLEAN] /\ wheel \in [Items -> {"out", "in", "due"}]
    BY DEF LoopInv, TypeOK
  <1> QED
    BY <1>1, <1>2

LEMMA BodyStep ==
    ASSUME LoopInv, NEW i \in Items, Body(i)
    PROVE  LoopInv'
  <1>0. TypeOK
    BY DEF LoopInv
  <1>1. ASSUME NEW ms \in BOOLEAN, Pause(i, ms) PROVE LoopInv'
    <2>1. /\ Running(i) /\ YieldItem(i, ms)
          /\ UNCHANGED <<pc, quit, room, revents, timenodes, cur, epoll, events, op, kept, socket>>
      BY <1>1 DEF Pause, loopVars
    <2>2. TypeOK'
      BY <1>0, <2>1, YieldTypes DEF TypeOK
    <2> QED BY <2>1, <2>2, YieldTypes, ItemYields
  <1>2. ASSUME NEW ms \in BOOLEAN, ReadWaits(i, ms) \/ WriteWaits(i, ms) PROVE LoopInv'
    <2>1. PICK call \in {"read", "write"} :
            /\ Running(i) /\ YieldItem(i, ms)
            /\ op' = [op EXCEPT ![i] = call] /\ kept' = [kept EXCEPT ![i] = events[i]]
            /\ events' = [events EXCEPT ![i] = "READ"]
            /\ UNCHANGED <<pc, quit, room, revents, timenodes, cur, epoll, socket>>
      BY <1>2 DEF ReadWaits, WriteWaits, Wait, loopVars
    <2>2. TypeOK'
      BY <1>0, <2>1, YieldTypes DEF TypeOK
    <2> QED BY <2>1, <2>2, YieldTypes, ItemYields
  <1>3. ASSUME NEW e \in {"NONE", "READ"}, SetEvents(i, e) PROVE LoopInv'
    <2>1. /\ Running(i) /\ events' = [events EXCEPT ![i] = e]
          /\ UNCHANGED <<state, stack, pc, quit, room, revents, timenodes, cur, epoll, wheel, op,
                         timed, kept, socket>>
      BY <1>3 DEF SetEvents, coVars, loopVars
    <2>2. TypeOK'
      BY <1>0, <2>1 DEF TypeOK
    <2> QED BY <2>1, <2>2, ItemGoesOn
  <1>4. CASE ReadNow(i)
    <2>1. /\ Running(i) /\ Drained(i)
          /\ UNCHANGED <<state, stack, pc, quit, room, revents, timenodes, cur, epoll, wheel, op,
                         timed, kept, events>>
      BY <1>4 DEF ReadNow, coVars, loopVars, itemVars
    <2>2. TypeOK'
      BY <1>0, <2>1 DEF TypeOK, Drained
    <2> QED BY <2>1, <2>2, ItemGoesOn
  <1>5. CASE ReadReturns(i) \/ WriteReturns(i)
    <2>1. /\ Running(i) /\ (Drained(i) \/ socket' = socket)
          /\ op' = [op EXCEPT ![i] = "body"] /\ events' = [events EXCEPT ![i] = kept[i]]
          /\ kept' = [kept EXCEPT ![i] = "NONE"] /\ timed' = [timed EXCEPT ![i] = FALSE]
          /\ UNCHANGED <<state, stack, pc, quit, room, revents, timenodes, cur, epoll, wheel>>
      BY <1>5 DEF ReadReturns, WriteReturns, Return, Restored, coVars, loopVars
    <2>2. timed' \in [Items -> BOOLEAN] /\ \A j \in Items : j # i => timed'[j] = timed[j]
      BY <1>0, <2>1 DEF TypeOK
    <2>3. socket' \in [Items -> {"quiet", "data", "broken"}]
      BY <1>0, <2>1 DEF TypeOK, Drained
    <2>4. TypeOK'
      BY <1>0, <2>1, <2>2, <2>3 DEF TypeOK
    <2> QED BY <2>1, <2>2, <2>4, ItemGoesOn
  <1>6. CASE WriteWaitsOn(i)
    <2>1. /\ Running(i) /\ ~timed[i] /\ Co!Leave(Loop, "SUSPEND")
          /\ UNCHANGED <<pc, quit, room, revents, timenodes, cur, epoll, events, wheel, op, timed,
                         kept, socket>>
      BY <1>6 DEF WriteWaitsOn, Co!Yield, loopVars, itemVars
    <2>2. TypeOK'
      BY <1>0, <2>1 DEF TypeOK
    <2> QED BY <2>1, <2>2, ItemYields
  <1>7. CASE FinishItem(i)
    <2>1. /\ Running(i) /\ Co!Leave(Loop, "DONE")
          /\ UNCHANGED <<pc, quit, room, revents, timenodes, cur, epoll, events, wheel, op, timed,
                         kept, socket>>
      BY <1>7 DEF FinishItem, Co!Finish, loopVars, itemVars
    <2>2. TypeOK'
      BY <1>0, <2>1 DEF TypeOK
    <2> QED BY <2>1, <2>2, ItemYields
  <1> QED
    BY <1>1, <1>2, <1>3, <1>4, <1>5, <1>6, <1>7 DEF Body

LEMMA ExpireStep ==
    ASSUME LoopInv, NEW i \in Items, Expire(i)
    PROVE  LoopInv'
  <1>1. /\ wheel[i] = "in" /\ wheel' = [wheel EXCEPT ![i] = "due"]
        /\ UNCHANGED <<state, stack, pc, quit, room, revents, timenodes, cur, epoll, events, op,
                       timed, kept, socket>>
    BY DEF Expire, coVars, loopVars
  <1> QED
    BY <1>1 DEF LoopInv, TypeOK, StackTypes, CurOK, ListsOK, LinksOK, Covered

LEMMA PeerStep ==
    ASSUME LoopInv, NEW i \in Items, Peer(i)
    PROVE  LoopInv'
  <1>1. /\ socket' \in [Items -> {"quiet", "data", "broken"}]
        /\ UNCHANGED <<state, stack, pc, quit, room, revents, timenodes, cur, epoll, events,
                       wheel, op, timed, kept>>
    BY DEF LoopInv, TypeOK, Peer, coVars, loopVars, itemVars
  <1> QED
    BY <1>1 DEF LoopInv, TypeOK, StackTypes, CurOK, ListsOK, LinksOK, Covered

LEMMA NextLoop ==
    ASSUME LoopInv, Next \/ UNCHANGED vars
    PROVE  LoopInv'
  <1>1. CASE Quit
    <2>1. /\ quit' = TRUE
          /\ UNCHANGED <<state, stack, pc, room, revents, timenodes, cur, epoll, events, wheel, op,
                         timed, kept, socket>>
      BY <1>1 DEF Quit, coVars, itemVars
    <2> QED BY <2>1 DEF LoopInv, TypeOK, StackTypes, CurOK, ListsOK, LinksOK, Covered
  <1>2. CASE UNCHANGED vars
    BY <1>2 DEF vars, coVars, loopVars, itemVars, LoopInv, TypeOK, StackTypes, CurOK, ListsOK, LinksOK, Covered
  <1>3. CASE Start \/ LoopStep
    BY <1>3, StartStep, PollStep, StopStep, CollectStep, ItemLeftStep, RoundEndsStep, DoItemStep
       DEF LoopStep
  <1>4. ASSUME NEW i \in Items, Create(i) \/ Body(i) \/ Expire(i) \/ Peer(i)
        PROVE  LoopInv'
    BY <1>4, CreateStep, BodyStep, ExpireStep, PeerStep
  <1> QED
    BY <1>1, <1>2, <1>3, <1>4 DEF Next

LEMMA LoopIsSafe ==
    ASSUME LoopInv
    PROVE  ItemsSafe /\ TimedWaitCovered
  <1>1. \A i \in Items : Running(i) => state[i] = "RUNNING"
    BY ItemRuns
  <1>2. \A i \in revents \cup timenodes : i # cur
    BY LoopAssumption DEF LoopInv, TypeOK, CurOK, ListsOK
  <1>3. ItemsSafe
    BY <1>1, <1>2 DEF ItemsSafe, ItemsSafe, LoopInv, StackTypes, ListsOK, LinksOK
  <1>4. TimedWaitCovered
    BY DEF TimedWaitCovered, TimedWaitCovered, LoopInv, Covered
  <1> QED
    BY <1>3, <1>4

\* For any number of items: the loop resumes only items that exist and wait, each once, and
\* deletes none that it still has a pointer to; an item that runs is not linked.
THEOREM ItemsAreSafe == Spec => []ItemsSafe
  <1>1. Init => LoopInv
    BY InitLoop
  <1>2. LoopInv /\ [Next]_vars => LoopInv'
    BY NextLoop
  <1>3. LoopInv => ItemsSafe
    BY LoopIsSafe
  <1> QED
    BY <1>1, <1>2, <1>3, PTL DEF Spec

\* No item waits with a timeout that nothing will end.
THEOREM TimedWaitsAreCovered == Spec => []TimedWaitCovered
  <1>1. Init => LoopInv
    BY InitLoop
  <1>2. LoopInv /\ [Next]_vars => LoopInv'
    BY NextLoop
  <1>3. LoopInv => TimedWaitCovered
    BY LoopIsSafe
  <1> QED
    BY <1>1, <1>2, <1>3, PTL DEF Spec
-----------------------------------------------------------------------------
(***************************************************************************)
(* timerqueue (timerqueue.cpp).                                            *)
(***************************************************************************)
\* No time comes near the width of a time.
TimesShort ==
    /\ \A e \in Owned : e[1] < Modulus
    /\ \A id \in Ids : born[id] < Modulus

\* OwnedOnce, and what is empty where.
OwnersOK ==
    /\ OwnedOnce
    /\ place = "idle" => expire = {}
    /\ place # "callback" => running = {}
    /\ \A e, f \in running : e = f
    /\ \A k \in 1..Len(posted) : posted[k][2] \in created

\* If the loop was never late, no timer that handleRead leaves in the set is due, and no
\* timer comes too late to be armed for.
ArmedOK ==
    /\ FirstIsArmed
    /\ ~late /\ place # "idle" => \A e \in timers : now <= e[1]
    /\ ~late => \A id \in InAdd : now <= born[id]

\* Timers that exist have addresses of their own.  What is in cancel_timers_ was wanted, or
\* is of a timer that is gone, and what was wanted is there as long as the timer is.
CancelsOK ==
    /\ \A j, k \in live : addr[j] = addr[k] => j = k
    /\ \A c \in cancels : \E id \in created : KtimerId(id) = c /\ (id \in wanted \/ id \notin live)
    /\ \A id \in wanted \cap live : KtimerId(id) \in cancels

TimerInv == TimersTypeOK /\ TimesShort /\ OwnersOK /\ ArmedOK /\ CancelsOK

LEMMA FirstIs ==
    ASSUME NEW S \in SUBSET (Nat \X Ids), S # {}
    PROVE  /\ First(S) \in Nat
           /\ \E e \in S : e[1] = First(S)
           /\ \A e \in S : First(S) <= e[1]
  <1> DEFINE T == {e[1] : e \in S}
  <1>1. T \in SUBSET Nat /\ T # {}
    OBVIOUS
  <1>2. \E x \in T : \A y \in T : x <= y
    BY <1>1, Least
  <1>3. Min(T) \in T /\ \A y \in T : Min(T) <= y
    BY <1>2 DEF Min
  <1> QED BY <1>1, <1>3 DEF First

LEMMA MaxIs ==
    ASSUME NEW m \in Nat, NEW n \in Nat
    PROVE  Max({m, n}) = IF m >= n THEN m ELSE n
  <1> DEFINE x == IF m >= n THEN m ELSE n
  <1>1. x \in {m, n} /\ \A y \in {m, n} : x >= y
    OBVIOUS
  <1>2. Max({m, n}) \in {m, n} /\ \A y \in {m, n} : Max({m, n}) >= y
    BY <1>1 DEF Max
  <1> QED BY <1>1, <1>2

\* The remainder of what is smaller than the divisor.
LEMMA SmallRemainder ==
    ASSUME NEW R \in Nat \ {0}, NEW x \in 0..R - 1
    PROVE  x % R = x
  <1>1. PICK q \in Nat, m \in 0..R - 1 : x = (R * q) + m /\ m = x % R
    BY Division
  <1>2. CASE q > 0
    <2>1. R * q \in Int /\ R * q > 0
      BY <1>2
    <2>2. R * q >= R
      BY <2>1, Multiple
    <2> QED BY <1>1, <2>1, <2>2
  <1>3. CASE q = 0
    BY <1>1, <1>3
  <1> QED BY <1>2, <1>3

LEMMA TimeConstants ==
    /\ MinDelay \in Nat /\ MinDelay > 0 /\ Modulus \in Nat /\ Modulus > 0
    /\ MaxTime \in Nat /\ MaxTime < Modulus
    /\ Horizon \in Nat /\ Horizon <= MaxTime
    /\ Intervals \subseteq Nat
    /\ \A i \in Intervals \cup {0} : i \in Nat /\ MaxTime + i < Modulus
  <1>1. \A i \in Nat : Modulus > 2 * (MaxTime + i) => MaxTime + i < Modulus
    BY TimeAssumption
  <1>2. MaxTime + MinDelay < Modulus /\ \A i \in Intervals : MaxTime + i < Modulus
    BY <1>1, TimeAssumption
  <1> QED BY <1>2, TimeAssumption

\* When the timerfd expires is soon enough for the timers in S.
Soon(t, S) == t \in Nat /\ t <= Max({First(S), now + MinDelay})

LEMMA ResetIs ==
    ASSUME now \in Nat, NEW t \in Nat, ResetTimerfd(t)
    PROVE  /\ armed' \in Nat
           /\ now <= t /\ t < Modulus => armed' <= Max({t, now + MinDelay})
  <1> DEFINE d == (t - now) % Modulus
  <1>1. d \in Nat
    BY TimeConstants
  <1>2. AtLeast(d) = IF d >= MinDelay THEN d ELSE MinDelay
    BY <1>1, MaxIs, TimeConstants DEF AtLeast
  <1>3. armed' = now + AtLeast(d)
    BY <1>1, <1>2, TimeConstants DEF ResetTimerfd
  <1>4. armed' \in Nat
    BY <1>1, <1>2, <1>3, TimeConstants
  <1>5. ASSUME now <= t, t < Modulus PROVE armed' <= Max({t, now + MinDelay})
    <2>1. d = t - now
      <3>1. t - now \in 0..Modulus - 1
        BY <1>5, TimeConstants
      <3>2. Modulus \in Nat \ {0}
        BY TimeConstants
      <3> QED BY <3>1, <3>2, SmallRemainder
    <2>2. now + MinDelay \in Nat /\ MinDelay \in Nat
      BY TimeConstants
    <2>3. Max({t, now + MinDelay}) = IF t >= now + MinDelay THEN t ELSE now + MinDelay
      BY <2>2, MaxIs
    <2> HIDE DEF d
    <2> QED BY <1>1, <1>2, <1>3, <1>5, <2>1, <2>2, <2>3
  <1> QED BY <1>4, <1>5

\* A timer that is added in time leaves the timerfd armed soon enough.
LEMMA AddIs ==
    ASSUME TimersTypeOK, NEW id \in Ids, NEW t \in Nat, AddTimerInLoop(id, t)
    PROVE  /\ timers' = timers \cup {<<t, id>>}
           /\ armed' \in Nat \cup {Off}
           /\ now <= t /\ t < Modulus /\ (timers # {} => Soon(armed, timers))
                => Soon(armed', timers')
  <1>1. /\ timers' = timers \cup {<<t, id>>}
        /\ IF Earlier(t) THEN ResetTimerfd(t) ELSE armed' = armed
    BY DEF AddTimerInLoop
  <1>2. now \in Nat /\ timers \in SUBSET (Nat \X Ids) /\ armed \in Nat \cup {Off}
    BY TimeConstants DEF TimersTypeOK
  <1>3. timers' \in SUBSET (Nat \X Ids) /\ timers' # {}
    <2>1. <<t, id>> \in Nat \X Ids
      OBVIOUS
    <2> QED BY <1>1, <1>2, <2>1
  <1>4. /\ First(timers') \in Nat
        /\ \E e \in timers' : e[1] = First(timers')
        /\ \A e \in timers' : First(timers') <= e[1]
    BY <1>3, FirstIs
  <1>5. CASE Earlier(t)
    <2>1. \A e \in timers : t <= e[1]
      BY <1>2, <1>5, FirstIs DEF Earlier
    <2>2. First(timers') = t
      <3>1. <<t, id>> \in timers' /\ <<t, id>>[1] = t
        BY <1>1
      <3>2. \A e \in timers' : e \in timers \/ e[1] = t
        BY <1>1
      <3>3. First(timers') <= t
        BY <1>4, <3>1
      <3>4. \A e \in timers' : t <= e[1]
        BY <2>1, <3>2
      <3>5. t <= First(timers')
        BY <1>4, <3>4
      <3> QED BY <1>4, <3>3, <3>5
    <2> QED BY <1>1, <1>2, <1>5, <2>2, ResetIs DEF Soon
  <1>6. CASE ~Earlier(t)
    <2>1. timers # {} /\ First(timers) <= t
      BY <1>2, <1>6, FirstIs DEF Earlier
    <2>2. First(timers') = First(timers)
      <3>1. /\ First(timers) \in Nat
            /\ \E e \in timers : e[1] = First(timers)
            /\ \A e \in timers : First(timers) <= e[1]
        BY <1>2, <2>1, FirstIs
      <3> QED BY <1>1, <1>4, <2>1, <3>1
    <2> QED BY <1>1, <1>2, <1>6, <2>1, <2>2 DEF Soon
  <1> QED BY <1>1, <1>5, <1>6

LEMMA FirstIsArmedIs ==
    ASSUME armed \in Nat \cup {Off}
    PROVE  FirstIsArmed <=> (~late /\ place = "idle" /\ timers # {} => Soon(armed, timers))
  BY DEF FirstIsArmed, Off, Soon

\* What is in the queue of functors.
UniqueAdds ==
    \A j, k \in 1..Len(posted) : posted[j] = posted[k] /\ posted[j][1] = "add" => j = k

Adds(q) == {q[k][2] : k \in {j \in DOMAIN q : q[j][1] = "add"}}

LEMMA AddsIs ==
    ASSUME NEW q \in Seq({"add", "cancel"} \X Ids)
    PROVE  /\ Adds(q) \subseteq Ids
           /\ \A id \in Ids : id \in Adds(q) <=>
                    \E k \in 1..Len(q) : q[k][1] = "add" /\ q[k][2] = id
  BY DEF Adds

LEMMA InAddIs == InAdd = Adds(posted) /\ InAdd' = Adds(posted')
  BY DEF InAdd, Adds

LEMMA PostIs ==
    ASSUME posted \in Seq({"add", "cancel"} \X Ids), NEW o \in {"add", "cancel"}, NEW id \in Ids,
           Post(o, id), UniqueAdds, o = "add" => id \notin InAdd
    PROVE  /\ posted' \in Seq({"add", "cancel"} \X Ids) /\ UniqueAdds'
           /\ InAdd' = IF o = "add" THEN InAdd \cup {id} ELSE InAdd
           /\ \A k \in 1..Len(posted') : posted'[k][2] = id \/ \E j \in 1..Len(posted) : posted'[k] = posted[j]
  <1> DEFINE x == <<o, id>>
             N == Len(posted)
  <1>1. posted' = Append(posted, x)
    BY DEF Post
  <1>2. x \in {"add", "cancel"} \X Ids /\ x[1] = o /\ x[2] = id /\ N \in Nat
    OBVIOUS
  <1> HIDE DEF x
  <1>3. /\ posted' \in Seq({"add", "cancel"} \X Ids) /\ Len(posted') = N + 1
        /\ posted'[N + 1] = x /\ \A k \in 1..N : posted'[k] = posted[k]
    BY <1>1, <1>2
  <1>4. 1..N + 1 = (1..N) \cup {N + 1}
    BY <1>2
  <1>5. \A k \in 1..N : posted[k] \in {"add", "cancel"} \X Ids
    OBVIOUS
  <1> HIDE DEF N
  <1>6. /\ InAdd' \subseteq Ids
        /\ \A i \in Ids : i \in InAdd' <=>
                    \E k \in 1..N + 1 : posted'[k][1] = "add" /\ posted'[k][2] = i
    BY <1>3, InAddIs, AddsIs
  <1>7. InAdd' = IF o = "add" THEN InAdd \cup {id} ELSE InAdd
    <2>1. \A i \in Ids : i \in InAdd' <=> i \in InAdd \/ (o = "add" /\ i = id)
      <3> SUFFICES ASSUME NEW i \in Ids
                   PROVE  i \in InAdd' <=> i \in InAdd \/ (o = "add" /\ i = id)
        OBVIOUS
      <3>1. i \in InAdd <=> \E k \in 1..N : posted[k][1] = "add" /\ posted[k][2] = i
        BY InAddIs, AddsIs DEF N
      <3>2. \A k \in 1..N : k \in 1..N + 1 /\ posted'[k] = posted[k]
        BY <1>3, <1>4
      <3>3. \A k \in 1..N + 1 : k \in 1..N \/ posted'[k] = x
        BY <1>3, <1>4
      <3>4. N + 1 \in 1..N + 1 /\ posted'[N + 1] = x
        BY <1>2, <1>3 DEF N
      <3> QED BY <1>2, <1>6, <3>1, <3>2, <3>3, <3>4
    <2>2. InAdd \subseteq Ids
      BY InAddIs, AddsIs
    <2> QED BY <1>6, <2>1, <2>2
  <1>8. ASSUME NEW j \in 1..N + 1, NEW k \in 1..N + 1, posted'[j] = posted'[k], posted'[j][1] = "add"
        PROVE  j = k
    <2>1. ASSUME NEW i \in 1..N, posted[i] = x, o = "add" PROVE FALSE
      BY <1>2, <2>1, InAddIs, AddsIs DEF N
    <2>2. \A i \in 1..N + 1 : i \in 1..N \/ i = N + 1
      BY <1>4
    <2>3. CASE j \in 1..N /\ k \in 1..N
      BY <1>3, <1>8, <2>3 DEF UniqueAdds, N
    <2>4. ASSUME NEW i \in 1..N, posted'[i] = posted'[N + 1], posted'[i][1] = "add" PROVE FALSE
      <3>1. posted'[i] = posted[i] /\ posted'[N + 1] = x
        BY <1>3
      <3>2. posted[i] = x /\ posted[i][1] = "add" /\ x[1] = o
        BY <1>2, <2>4, <3>1
      <3> QED BY <2>1, <3>2
    <2> QED BY <1>8, <2>2, <2>3, <2>4
  <1>9. UniqueAdds'
    BY <1>3, <1>8 DEF UniqueAdds
  <1> QED
    BY <1>2, <1>3, <1>4, <1>7, <1>9 DEF N

LEMMA TailIs ==
    ASSUME posted \in Seq({"add", "cancel"} \X Ids), posted # <<>>, posted' = Tail(posted), UniqueAdds
    PROVE  /\ posted' \in Seq({"add", "cancel"} \X Ids) /\ UniqueAdds'
           /\ Head(posted) \in {"add", "cancel"} \X Ids /\ Head(posted) = posted[1] /\ 1 \in 1..Len(posted)
           /\ Head(posted)[1] = "add" => /\ Head(posted)[2] \in InAdd
                                         /\ InAdd' = InAdd \ {Head(posted)[2]}
           /\ Head(posted)[1] = "cancel" => InAdd' = InAdd
           /\ \A k \in 1..Len(posted') : \E j \in 1..Len(posted) : posted'[k] = posted[j]
  <1> DEFINE N == Len(posted)
             x == posted[1]
  <1>1. /\ N \in Nat /\ N > 0 /\ posted' \in Seq({"add", "cancel"} \X Ids) /\ Len(posted') = N - 1
        /\ \A k \in 1..N - 1 : posted'[k] = posted[k + 1]
        /\ Head(posted) = x /\ x \in {"add", "cancel"} \X Ids
    OBVIOUS
  <1>2. \A k \in 1..N : posted[k] \in {"add", "cancel"} \X Ids
    OBVIOUS
  <1>3. /\ \A k \in 1..N - 1 : k + 1 \in 1..N /\ k + 1 # 1
        /\ \A k \in 1..N : k # 1 => k - 1 \in 1..N - 1 /\ (k - 1) + 1 = k
    BY <1>1
  <1>4. \A j, k \in 1..N : posted[j] = posted[k] /\ posted[j][1] = "add" => j = k
    BY DEF UniqueAdds
  <1>5. \A i \in Ids : i \in InAdd <=> \E k \in 1..N : posted[k][1] = "add" /\ posted[k][2] = i
    BY InAddIs, AddsIs
  <1> HIDE DEF N, x
  <1>6. /\ InAdd' \subseteq Ids
        /\ \A i \in Ids : i \in InAdd' <=>
                    \E k \in 1..N - 1 : posted'[k][1] = "add" /\ posted'[k][2] = i
    <2>1. /\ Adds(posted') \subseteq Ids
          /\ \A i \in Ids : i \in Adds(posted') <=>
                    \E k \in 1..Len(posted') : posted'[k][1] = "add" /\ posted'[k][2] = i
      BY <1>1, AddsIs
    <2> QED BY <1>1, <2>1, InAddIs
  <1>7. \A i \in Ids : i \in InAdd' <=>
                    \E k \in 1..N : k # 1 /\ posted[k][1] = "add" /\ posted[k][2] = i
    <2>1. \A k \in 1..N - 1 : posted'[k] = posted[k + 1] /\ k + 1 \in 1..N /\ k + 1 # 1
      BY <1>1, <1>3
    <2>2. \A k \in 1..N : k # 1 => k - 1 \in 1..N - 1 /\ posted'[k - 1] = posted[k]
      <3>1. \A k \in 1..N : k # 1 => k - 1 \in 1..N - 1 /\ (k - 1) + 1 = k
        BY <1>3
      <3>2. \A k \in 1..N : k # 1 => posted'[k - 1] = posted[(k - 1) + 1]
        BY <3>1, <2>1
      <3> QED BY <3>1, <3>2
    <2> SUFFICES ASSUME NEW i \in Ids
                 PROVE  i \in InAdd' <=> \E k \in 1..N : k # 1 /\ posted[k][1] = "add" /\ posted[k][2] = i
      OBVIOUS
    <2>3. ASSUME NEW k \in 1..N - 1, posted'[k][1] = "add", posted'[k][2] = i
          PROVE  \E j \in 1..N : j # 1 /\ posted[j][1] = "add" /\ posted[j][2] = i
      <3>1. k + 1 \in 1..N /\ k + 1 # 1 /\ posted[k + 1][1] = "add" /\ posted[k + 1][2] = i
        BY <2>1, <2>3
      <3> QED BY <3>1
    <2>4. ASSUME NEW j \in 1..N, j # 1, posted[j][1] = "add", posted[j][2] = i
          PROVE  \E k \in 1..N - 1 : posted'[k][1] = "add" /\ posted'[k][2] = i
      <3>1. j - 1 \in 1..N - 1 /\ posted'[j - 1][1] = "add" /\ posted'[j - 1][2] = i
        BY <2>2, <2>4
      <3> QED BY <3>1
    <2> QED BY <1>6, <2>3, <2>4
  <1>8. ASSUME NEW i \in Ids PROVE i \in InAdd' <=> i \in InAdd /\ ~(x[1] = "add" /\ x[2] = i)
    <2>1. ASSUME NEW k \in 1..N, k # 1, posted[k][1] = "add", posted[k][2] = i, x[1] = "add", x[2] = i
          PROVE  FALSE
      <3>1. 1 \in 1..N /\ posted[1] = x
        BY <1>1 DEF x
      <3>2. posted[k] = x
        BY <1>1, <1>2, <2>1
      <3> QED BY <1>4, <2>1, <3>1, <3>2
    <2>2. posted[1] = x
      BY DEF x
    <2> QED BY <1>5, <1>7, <2>1, <2>2
  <1>9. 1 \in 1..N /\ posted[1] = x
    BY <1>1 DEF x
  <1>10. x[1] = "add" => x[2] \in InAdd
    BY <1>1, <1>5, <1>9
  <1>11. /\ x[1] = "add" => InAdd' = InAdd \ {x[2]}
         /\ x[1] = "cancel" => InAdd' = InAdd
    BY <1>6, <1>8, InAddIs, AddsIs
  <1>12. UniqueAdds'
    <2> SUFFICES ASSUME NEW j \in 1..N - 1, NEW k \in 1..N - 1, posted'[j] = posted'[k], posted'[j][1] = "add"
                 PROVE  j = k
      BY <1>1 DEF UniqueAdds
    <2>1. j + 1 = k + 1
      BY <1>1, <1>3, <1>4
    <2> QED BY <1>1, <2>1
  <1> QED
    BY <1>1, <1>3, <1>9, <1>10, <1>11, <1>12 DEF N

LEMMA InitTimers ==
    ASSUME TimersInit
    PROVE  TimerInv
  <1> DEFINE none == <<>>
  <1>1. /\ now = 1 /\ late = FALSE /\ place = "idle" /\ active = FALSE /\ armed = Off
        /\ timers = {} /\ cancels = {} /\ expire = {} /\ running = {} /\ posted = none
        /\ created = {} /\ live = {} /\ wanted = {} /\ addr \in [Ids -> Addrs]
        /\ born = [id \in Ids |-> 0] /\ interval = [id \in Ids |-> 0]
    BY DEF TimersInit
  <1>2. none \in Seq({"add", "cancel"} \X Ids) /\ Len(none) = 0 /\ DOMAIN none = {}
    OBVIOUS
  <1> HIDE DEF none
  <1>3. InAdd = {}
    BY <1>1, <1>2 DEF InAdd
  <1>4. TimersTypeOK
    <2>1. now \in 0..MaxTime
      BY <1>1, TimeAssumption
    <2>5. late \in BOOLEAN /\ active \in BOOLEAN
      BY <1>1
    <2>2. born \in [Ids -> Nat] /\ interval \in [Ids -> Intervals \cup {0}]
      BY <1>1
    <2>3. posted \in Seq({"add", "cancel"} \X Ids)
      BY <1>1, <1>2
    <2>4. timers \cup expire \cup running = {}
      BY <1>1
    <2> QED BY <1>1, <2>1, <2>2, <2>3, <2>4, <2>5 DEF TimersTypeOK
  <1>5. TimesShort
    BY <1>1, TimeConstants DEF TimesShort, Owned
  <1>6. OwnersOK
    BY <1>1, <1>2, <1>3 DEF OwnersOK, OwnedOnce, Owned
  <1>7. ArmedOK /\ CancelsOK
    BY <1>1, <1>3 DEF ArmedOK, FirstIsArmed, CancelsOK
  <1> QED
    BY <1>4, <1>5, <1>6, <1>7 DEF TimerInv

\* What TimerInv says, in the words of the steps.
LEMMA TimerFacts ==
    ASSUME TimerInv
    PROVE  /\ now \in Nat /\ now <= MaxTime /\ late \in BOOLEAN /\ active \in BOOLEAN
           /\ place \in {"idle", "batch", "callback"} /\ armed \in Nat \cup {Off}
           /\ timers \subseteq Nat \X Ids /\ expire \subseteq Nat \X Ids /\ running \subseteq Nat \X Ids
           /\ cancels \subseteq Nat \X Addrs /\ posted \in Seq({"add", "cancel"} \X Ids)
           /\ live \subseteq created /\ wanted \subseteq created /\ created \subseteq Ids
           /\ addr \in [Ids -> Addrs] /\ born \in [Ids -> Nat]
           /\ interval \in [Ids -> Intervals \cup {0}]
           /\ InAdd \subseteq live /\ UniqueAdds
           /\ \A e \in Owned : e[2] \in live /\ e[2] \notin InAdd
           /\ DOMAIN posted = 1..Len(posted)
  <1>1. DOMAIN posted = 1..Len(posted)
    BY DEF TimerInv, TimersTypeOK
  <1>2. /\ InAdd \subseteq live /\ \A e \in Owned : e[2] \in live /\ e[2] \notin InAdd
    BY DEF TimerInv, OwnersOK, OwnedOnce
  <1>3. UniqueAdds
    BY <1>1 DEF TimerInv, OwnersOK, OwnedOnce, UniqueAdds
  <1> QED
    BY <1>1, <1>2, <1>3, TimeConstants DEF TimerInv, TimersTypeOK

LEMMA NewIs ==
    ASSUME TimerInv,
           NEW id \in Ids, NEW b \in Addrs, NEW t \in 0..Horizon, NEW i \in Intervals,
           New(id, b, t, i)
    PROVE  /\ id \notin created /\ id \notin live /\ id \notin wanted /\ id \notin InAdd
           /\ \A e \in Owned : e[2] # id
           /\ late' \in BOOLEAN /\ (~late' => ~late /\ now <= t)
           /\ created' = created \cup {id} /\ live' = live \cup {id}
           /\ addr' \in [Ids -> Addrs] /\ born' \in [Ids -> Nat]
           /\ interval' \in [Ids -> Intervals \cup {0}]
           /\ t \in Nat /\ t < Modulus /\ born'[id] = t
           /\ \A j \in Ids : j # id => addr'[j] = addr[j] /\ born'[j] = born[j]
           /\ \A j \in Ids : born'[j] < Modulus
           /\ \A j \in live : addr'[j] # addr'[id]
  <1>1. /\ id \notin created /\ \A j \in live : addr[j] # b
        /\ late' = (late \/ t < now)
        /\ created' = created \cup {id} /\ live' = live \cup {id}
        /\ addr' = [addr EXCEPT ![id] = b] /\ born' = [born EXCEPT ![id] = t]
        /\ interval' = [interval EXCEPT ![id] = i]
    BY DEF New
  <1>2. t \in Nat /\ t < Modulus
    BY TimeConstants
  <1>3. \A j \in Ids : born[j] < Modulus
    BY DEF TimerInv, TimesShort
  <1>4. late' \in BOOLEAN /\ (~late' => ~late /\ now <= t)
    <2>1. now \in Nat /\ late \in BOOLEAN
      BY TimerFacts
    <2>2. t < now <=> ~(now <= t)
      BY <1>2, <2>1
    <2> QED BY <1>1, <2>1, <2>2, Zenon
  <1>5. /\ id \notin live /\ id \notin wanted /\ id \notin InAdd
        /\ \A e \in Owned : e[2] # id
    BY <1>1, TimerFacts
  <1>6. /\ addr' \in [Ids -> Addrs] /\ born' \in [Ids -> Nat]
        /\ interval' \in [Ids -> Intervals \cup {0}] /\ born'[id] = t /\ addr'[id] = b
        /\ \A j \in Ids : j # id => addr'[j] = addr[j] /\ born'[j] = born[j]
    BY <1>1, <1>2, TimerFacts
  <1>7. \A j \in Ids : born'[j] < Modulus
    BY <1>2, <1>3, <1>6
  <1>8. \A j \in live : addr'[j] # addr'[id]
    BY <1>1, <1>5, <1>6, TimerFacts
  <1> QED
    BY <1>1, <1>2, <1>4, <1>5, <1>6, <1>7, <1>8

\* A new timer has an address of its own and was not cancelled.
LEMMA NewCancels ==
    ASSUME TimerInv,
           NEW id \in Ids, NEW b \in Addrs, NEW t \in 0..Horizon, NEW i \in Intervals,
           New(id, b, t, i), UNCHANGED <<cancels, wanted>>
    PROVE  CancelsOK'
  <1>1. \A j \in created : j # id /\ addr'[j] = addr[j] /\ KtimerId(j)' = KtimerId(j)
    BY NewIs, TimerFacts DEF KtimerId
  <1>2. \A j, k \in live' : addr'[j] = addr'[k] => j = k
    <2>1. live' = live \cup {id} /\ \A j \in live : addr'[j] # addr'[id]
      BY NewIs
    <2>2. \A j, k \in live : addr[j] = addr[k] => j = k
      BY DEF TimerInv, CancelsOK
    <2>3. \A j \in live : addr'[j] = addr[j]
      BY <1>1, TimerFacts
    <2> QED BY <2>1, <2>2, <2>3
  <1>3. created \subseteq created' /\ cancels' = cancels /\ wanted' = wanted
        /\ \A j \in created : j \in live' <=> j \in live
    BY <1>1, NewIs
  <1>4. \A c \in cancels' : \E j \in created' : KtimerId(j)' = c /\ (j \in wanted' \/ j \notin live')
    <2> SUFFICES ASSUME NEW c \in cancels
                 PROVE  \E j \in created' : KtimerId(j)' = c /\ (j \in wanted' \/ j \notin live')
      BY <1>3
    <2>1. PICK j \in created : KtimerId(j) = c /\ (j \in wanted \/ j \notin live)
      BY DEF TimerInv, CancelsOK
    <2> QED BY <1>1, <1>3, <2>1
  <1>5. \A j \in wanted' \cap live' : KtimerId(j)' \in cancels'
    BY <1>1, <1>3, TimerFacts DEF TimerInv, CancelsOK
  <1> QED
    BY <1>2, <1>4, <1>5 DEF CancelsOK

LEMMA AddTimerStep ==
    ASSUME TimerInv,
           NEW id \in Ids, NEW b \in Addrs, NEW t \in 0..Horizon, NEW i \in Intervals,
           AddTimer(id, b, t, i)
    PROVE  TimerInv'
  <1> DEFINE x == <<t, id>>
  <1>1. /\ New(id, b, t, i) /\ AddTimerInLoop(id, t)
        /\ UNCHANGED <<now, place, active, cancels, expire, running, posted, wanted>>
    BY DEF AddTimer
  <1>2. /\ timers' = timers \cup {x} /\ armed' \in Nat \cup {Off}
        /\ now <= t /\ t < Modulus /\ (timers # {} => Soon(armed, timers)) => Soon(armed', timers')
    <2>1. TimersTypeOK /\ t \in Nat
      BY <1>1, NewIs DEF TimerInv
    <2> QED BY <1>1, <2>1, AddIs
  <1>3. x \in Nat \X Ids /\ x[1] = t /\ x[2] = id
    BY <1>1, NewIs
  <1> HIDE DEF x
  <1>4. InAdd' = InAdd
    BY <1>1 DEF InAdd
  <1>5. Owned' = Owned \cup {x} /\ x \notin Owned
    BY <1>1, <1>2, <1>3, NewIs DEF Owned
  <1>6. TimersTypeOK'
    BY <1>1, <1>2, <1>3, NewIs, TimerFacts DEF TimerInv, TimersTypeOK
  <1>7. TimesShort'
    BY <1>1, <1>3, <1>5, NewIs DEF TimerInv, TimesShort
  <1>8. OwnersOK'
    BY <1>1, <1>2, <1>3, <1>4, <1>5, NewIs DEF TimerInv, OwnersOK, OwnedOnce, Owned
  <1>9. ArmedOK'
    <2>1. /\ ~late' => ~late /\ now <= t
          /\ t < Modulus /\ now' = now /\ place' = place
      BY <1>1, NewIs
    <2>2. FirstIsArmed'
      <3> SUFFICES ASSUME ~late', place = "idle" PROVE Soon(armed', timers')
        BY <1>2, <2>1 DEF FirstIsArmed, Off, Soon
      <3>1. timers # {} => Soon(armed, timers)
        BY <2>1, TimerFacts, FirstIsArmedIs DEF TimerInv, ArmedOK
      <3> QED BY <1>2, <2>1, <3>1
    <2>3. ~late' /\ place' # "idle" => \A e \in timers' : now' <= e[1]
      BY <1>2, <1>3, <2>1 DEF TimerInv, ArmedOK
    <2>4. \A j \in InAdd : born'[j] = born[j]
      BY <1>1, NewIs, TimerFacts
    <2>5. ~late' => \A j \in InAdd' : now' <= born'[j]
      BY <1>4, <2>1, <2>4 DEF TimerInv, ArmedOK
    <2> QED BY <2>2, <2>3, <2>5 DEF ArmedOK
  <1>10. CancelsOK'
    BY <1>1, NewCancels
  <1> QED
    BY <1>6, <1>7, <1>8, <1>9, <1>10 DEF TimerInv

LEMMA PostAddStep ==
    ASSUME TimerInv,
           NEW id \in Ids, NEW b \in Addrs, NEW t \in 0..Horizon, NEW i \in Intervals,
           PostAdd(id, b, t, i)
    PROVE  TimerInv'
  <1>1. /\ New(id, b, t, i) /\ Post("add", id)
        /\ UNCHANGED <<now, place, active, armed, timers, cancels, expire, running, wanted>>
    BY DEF PostAdd, setVars
  <1>2. /\ posted' \in Seq({"add", "cancel"} \X Ids) /\ UniqueAdds'
        /\ InAdd' = InAdd \cup {id}
        /\ \A k \in 1..Len(posted') : posted'[k][2] = id \/ \E j \in 1..Len(posted) : posted'[k] = posted[j]
    <2>1. posted \in Seq({"add", "cancel"} \X Ids) /\ UniqueAdds /\ id \notin InAdd
      BY <1>1, NewIs, TimerFacts
    <2> QED BY <1>1, <2>1, PostIs
  <1>3. Owned' = Owned
    BY <1>1 DEF Owned
  <1>4. TimersTypeOK'
    BY <1>1, <1>2, NewIs, TimerFacts DEF TimerInv, TimersTypeOK
  <1>5. TimesShort'
    BY <1>1, <1>3, NewIs DEF TimerInv, TimesShort
  <1>6. OwnersOK'
    <2>1. \A k \in 1..Len(posted') : posted'[k][2] \in created'
      <3>1. created' = created \cup {id}
        BY <1>1, NewIs
      <3>2. \A k \in 1..Len(posted) : posted[k][2] \in created
        BY DEF TimerInv, OwnersOK
      <3> QED BY <1>2, <3>1, <3>2
    <2>2. DOMAIN posted' = 1..Len(posted')
      BY <1>2
    <2>3. OwnedOnce'
      BY <1>1, <1>2, <1>3, <2>2, NewIs DEF TimerInv, OwnersOK, OwnedOnce, UniqueAdds
    <2> QED BY <1>1, <2>1, <2>3 DEF TimerInv, OwnersOK
  <1>7. ArmedOK'
    <2>1. /\ ~late' => ~late /\ now <= t
          /\ born'[id] = t /\ \A j \in InAdd : born'[j] = born[j]
      BY <1>1, NewIs, TimerFacts
    <2> QED BY <1>1, <1>2, <2>1 DEF TimerInv, ArmedOK, FirstIsArmed
  <1>8. CancelsOK'
    BY <1>1, NewCancels
  <1> QED
    BY <1>4, <1>5, <1>6, <1>7, <1>8 DEF TimerInv

\* A ktimerid that is noted stays until its timer is dropped.
LEMMA CancelIs ==
    ASSUME TimerInv, NEW id \in created, CancelTimerInLoop(id),
           UNCHANGED <<created, live, addr, born>>
    PROVE  /\ CancelsOK' /\ cancels' \subseteq Nat \X Addrs /\ wanted' \subseteq created
  <1>1. cancels' = cancels \cup {KtimerId(id)} /\ wanted' = wanted \cup ({id} \cap live)
    BY DEF CancelTimerInLoop
  <1>2. \A j : KtimerId(j)' = KtimerId(j)
    BY DEF KtimerId
  <1>3. \A j, k \in live : addr[j] = addr[k] => j = k
    BY DEF TimerInv, CancelsOK
  <1>4. ASSUME NEW c \in cancels' PROVE \E j \in created : KtimerId(j) = c /\ (j \in wanted' \/ j \notin live)
    BY <1>1, <1>4 DEF TimerInv, CancelsOK
  <1>5. \A j \in wanted' \cap live : KtimerId(j) \in cancels'
    BY <1>1 DEF TimerInv, CancelsOK
  <1>6. CancelsOK'
    BY <1>2, <1>3, <1>4, <1>5 DEF CancelsOK
  <1>7. KtimerId(id) \in Nat \X Addrs
    BY TimerFacts DEF KtimerId
  <1> QED
    BY <1>1, <1>6, <1>7, TimerFacts

LEMMA CancelTimerStep ==
    ASSUME TimerInv, NEW id \in Ids, CancelTimer(id)
    PROVE  TimerInv'
  <1>1. /\ id \in created /\ CancelTimerInLoop(id)
        /\ UNCHANGED <<now, late, place, active, armed, timers, expire, running, posted,
                       created, live, addr, born, interval>>
    BY DEF CancelTimer, timeVars
  <1>2. InAdd' = InAdd /\ Owned' = Owned
    BY <1>1 DEF InAdd, Owned
  <1>3. CancelsOK' /\ cancels' \subseteq Nat \X Addrs /\ wanted' \subseteq created
    BY <1>1, CancelIs
  <1>4. TimersTypeOK'
    BY <1>1, <1>3 DEF TimerInv, TimersTypeOK
  <1>5. TimesShort' /\ OwnersOK'
    BY <1>1, <1>2 DEF TimerInv, TimesShort, OwnersOK, OwnedOnce
  <1>6. ArmedOK'
    BY <1>1, <1>2 DEF TimerInv, ArmedOK, FirstIsArmed
  <1> QED
    BY <1>3, <1>4, <1>5, <1>6 DEF TimerInv

LEMMA PostCancelStep ==
    ASSUME TimerInv, NEW id \in Ids, PostCancel(id)
    PROVE  TimerInv'
  <1>1. /\ id \in created /\ Post("cancel", id)
        /\ UNCHANGED <<now, late, place, active, armed, timers, cancels, expire, running,
                       created, live, addr, born, interval, wanted>>
    BY DEF PostCancel, timeVars, setVars, heapVars
  <1>2. /\ posted' \in Seq({"add", "cancel"} \X Ids) /\ UniqueAdds' /\ InAdd' = InAdd
        /\ \A k \in 1..Len(posted') : posted'[k][2] = id \/ \E j \in 1..Len(posted) : posted'[k] = posted[j]
    <2>1. posted \in Seq({"add", "cancel"} \X Ids) /\ UniqueAdds
      BY TimerFacts
    <2> QED BY <1>1, <2>1, PostIs
  <1>3. Owned' = Owned
    BY <1>1 DEF Owned
  <1>4. TimersTypeOK'
    BY <1>1, <1>2 DEF TimerInv, TimersTypeOK
  <1>5. OwnersOK'
    <2>1. \A k \in 1..Len(posted') : posted'[k][2] \in created'
      BY <1>1, <1>2 DEF TimerInv, OwnersOK
    <2>2. DOMAIN posted' = 1..Len(posted')
      BY <1>2
    <2>3. OwnedOnce'
      BY <1>1, <1>2, <1>3, <2>2 DEF TimerInv, OwnersOK, OwnedOnce, UniqueAdds
    <2> QED BY <1>1, <2>1, <2>3 DEF TimerInv, OwnersOK
  <1>6. TimesShort' /\ ArmedOK'
    BY <1>1, <1>2, <1>3 DEF TimerInv, TimesShort, ArmedOK, FirstIsArmed
  <1>7. CancelsOK'
    BY <1>1 DEF TimerInv, CancelsOK, KtimerId
  <1> QED
    BY <1>4, <1>5, <1>6, <1>7 DEF TimerInv

\* doFunctors adds a timer that another thread has made, ...
LEMMA FunctorAdds ==
    ASSUME TimerInv, RunFunctor, Head(posted)[1] = "add"
    PROVE  TimerInv'
  <1> DEFINE id == Head(posted)[2]
             t == born[id]
             x == <<t, id>>
  <1>1. /\ posted # <<>> /\ posted' = Tail(posted) /\ place = "idle"
        /\ AddTimerInLoop(id, t)
        /\ UNCHANGED <<now, late, place, active, cancels, expire, running, created, live, addr,
                       born, interval, wanted>>
    BY DEF RunFunctor, timeVars
  <1>2. /\ posted' \in Seq({"add", "cancel"} \X Ids) /\ UniqueAdds'
        /\ Head(posted) \in {"add", "cancel"} \X Ids
        /\ id \in InAdd /\ InAdd' = InAdd \ {id}
        /\ \A k \in 1..Len(posted') : \E j \in 1..Len(posted) : posted'[k] = posted[j]
    <2>1. posted \in Seq({"add", "cancel"} \X Ids) /\ UniqueAdds
      BY TimerFacts
    <2> QED BY <1>1, <2>1, TailIs
  <1>3. id \in Ids /\ t \in Nat /\ t < Modulus
    BY <1>2, TimerFacts DEF TimerInv, TimesShort
  <1>4. /\ timers' = timers \cup {x} /\ armed' \in Nat \cup {Off}
        /\ now <= t /\ t < Modulus /\ (timers # {} => Soon(armed, timers)) => Soon(armed', timers')
    <2>1. TimersTypeOK
      BY DEF TimerInv
    <2> HIDE DEF id, t
    <2> QED BY <1>1, <1>3, <2>1, AddIs
  <1>5. x \in Nat \X Ids /\ x[1] = t /\ x[2] = id
    BY <1>3
  <1> HIDE DEF x, t, id
  <1>6. id \in live /\ \A e \in Owned : e[2] # id
    BY <1>2, TimerFacts
  <1>7. Owned' = Owned \cup {x} /\ x \notin Owned
    BY <1>1, <1>4, <1>5, <1>6 DEF Owned
  <1>8. TimersTypeOK'
    BY <1>1, <1>2, <1>4, <1>5, TimerFacts DEF TimerInv, TimersTypeOK
  <1>9. TimesShort'
    BY <1>1, <1>3, <1>5, <1>7 DEF TimerInv, TimesShort
  <1>10. OwnersOK'
    <2>1. \A k \in 1..Len(posted') : posted'[k][2] \in created'
      BY <1>1, <1>2 DEF TimerInv, OwnersOK
    <2>2. DOMAIN posted' = 1..Len(posted')
      BY <1>2
    <2>3. live' = {e[2] : e \in Owned'} \cup InAdd'
      <3>1. live = {e[2] : e \in Owned} \cup InAdd
        BY DEF TimerInv, OwnersOK, OwnedOnce
      <3>2. {e[2] : e \in Owned'} = {e[2] : e \in Owned} \cup {id}
        BY <1>5, <1>7
      <3> QED BY <1>1, <1>2, <3>1, <3>2
    <2>4. \A e, f \in Owned' : e[2] = f[2] => e = f
      BY <1>5, <1>6, <1>7 DEF TimerInv, OwnersOK, OwnedOnce
    <2>5. /\ timers' \cap expire' = {} /\ timers' \cap running' = {} /\ expire' \cap running' = {}
      BY <1>1, <1>4, <1>7 DEF TimerInv, OwnersOK, OwnedOnce, Owned
    <2>6. \A e \in Owned' : e[2] \notin InAdd'
      BY <1>2, <1>5, <1>7, TimerFacts
    <2>7. OwnedOnce'
      BY <1>2, <2>2, <2>3, <2>4, <2>5, <2>6 DEF OwnedOnce, UniqueAdds
    <2> QED BY <1>1, <2>1, <2>7 DEF TimerInv, OwnersOK
  <1>11. ArmedOK'
    <2>1. ~late => now <= t
      BY <1>2 DEF TimerInv, ArmedOK, t
    <2>2. FirstIsArmed'
      <3> SUFFICES ASSUME ~late PROVE Soon(armed', timers')
        BY <1>1, <1>4 DEF FirstIsArmed, Off, Soon
      <3>1. timers # {} => Soon(armed, timers)
        BY <1>1, TimerFacts, FirstIsArmedIs DEF TimerInv, ArmedOK
      <3> QED BY <1>3, <1>4, <2>1, <3>1
    <2> QED BY <1>1, <1>2, <2>2 DEF TimerInv, ArmedOK
  <1>12. CancelsOK'
    BY <1>1 DEF TimerInv, CancelsOK, KtimerId
  <1> QED
    BY <1>8, <1>9, <1>10, <1>11, <1>12 DEF TimerInv

\* ... or cancels one.
LEMMA FunctorCancels ==
    ASSUME TimerInv, RunFunctor, Head(posted)[1] = "cancel"
    PROVE  TimerInv'
  <1> DEFINE id == Head(posted)[2]
  <1>1. /\ posted # <<>> /\ posted' = Tail(posted) /\ place = "idle"
        /\ CancelTimerInLoop(id)
        /\ UNCHANGED <<now, late, place, active, armed, timers, expire, running, created, live,
                       addr, born, interval>>
    BY DEF RunFunctor, timeVars
  <1>2. /\ posted' \in Seq({"add", "cancel"} \X Ids) /\ UniqueAdds'
        /\ Head(posted) = posted[1] /\ 1 \in 1..Len(posted) /\ InAdd' = InAdd
        /\ \A k \in 1..Len(posted') : \E j \in 1..Len(posted) : posted'[k] = posted[j]
    <2>1. posted \in Seq({"add", "cancel"} \X Ids) /\ UniqueAdds
      BY TimerFacts
    <2> QED BY <1>1, <2>1, TailIs
  <1>3. id \in created
    BY <1>2 DEF TimerInv, OwnersOK
  <1> HIDE DEF id
  <1>4. CancelsOK' /\ cancels' \subseteq Nat \X Addrs /\ wanted' \subseteq created
    BY <1>1, <1>3, CancelIs
  <1>5. Owned' = Owned
    BY <1>1 DEF Owned
  <1>6. TimersTypeOK'
    BY <1>1, <1>2, <1>4 DEF TimerInv, TimersTypeOK
  <1>7. OwnersOK'
    <2>1. \A k \in 1..Len(posted') : posted'[k][2] \in created'
      BY <1>1, <1>2 DEF TimerInv, OwnersOK
    <2>2. DOMAIN posted' = 1..Len(posted')
      BY <1>2
    <2>3. OwnedOnce'
      BY <1>1, <1>2, <1>5, <2>2 DEF TimerInv, OwnersOK, OwnedOnce, UniqueAdds
    <2> QED BY <1>1, <2>1, <2>3 DEF TimerInv, OwnersOK
  <1>8. TimesShort' /\ ArmedOK'
    BY <1>1, <1>2, <1>5 DEF TimerInv, TimesShort, ArmedOK, FirstIsArmed
  <1> QED
    BY <1>4, <1>6, <1>7, <1>8 DEF TimerInv

\* handleRead takes the timers that are due from the set and drops those that are cancelled;
\* no other timer has the ktimerid of one that exists.
LEMMA HandleReadStep ==
    ASSUME TimerInv, HandleRead
    PROVE  /\ TimerInv'
           /\ \A id \in live \ live' : id \in wanted \/ ~Unambiguous(id)
           /\ {e[2] : e \in expire'} \cap wanted = {}
  <1> DEFINE due == {e \in timers : e[1] <= now}
             dropped == {e \in due : Key(e) \in cancels}
  <1>1. /\ place = "idle" /\ place' = "batch" /\ active' = FALSE
        /\ expire' = due \ dropped /\ timers' = timers \ due
        /\ cancels' = cancels \ {Key(e) : e \in dropped}
        /\ live' = live \ {e[2] : e \in dropped}
        /\ armed' = (IF Expired THEN Off ELSE armed)
        /\ UNCHANGED <<now, late, running, posted, created, addr, born, interval, wanted>>
    BY DEF HandleRead, timeVars
  <1>2. expire = {} /\ running = {}
    BY <1>1 DEF TimerInv, OwnersOK
  <1>3. /\ due \subseteq timers /\ dropped \subseteq due
        /\ \A e \in timers : e \in due <=> e[1] <= now
        /\ \A e \in due : e \in dropped <=> <<born[e[2]], addr[e[2]]>> \in cancels
        /\ \A e \in dropped : Key(e) = <<born[e[2]], addr[e[2]]>>
    BY DEF Key, KtimerId
  <1> HIDE DEF due, dropped
  <1>4. Owned = timers /\ Owned' = timers \ dropped
    BY <1>1, <1>2, <1>3 DEF Owned
  <1>5. InAdd' = InAdd
    BY <1>1 DEF InAdd
  <1>6. /\ \A e, f \in timers : e[2] = f[2] => e = f
        /\ live = {e[2] : e \in timers} \cup InAdd
        /\ \A e \in timers : e[2] \in live /\ e[2] \notin InAdd
    BY <1>4 DEF TimerInv, OwnersOK, OwnedOnce
  <1>7. TimersTypeOK'
    BY <1>1, <1>3, <1>5, TimerFacts DEF TimerInv, TimersTypeOK
  <1>8. TimesShort'
    BY <1>1, <1>4 DEF TimerInv, TimesShort
  <1>9. OwnersOK'
    <2>1. live' = {e[2] : e \in Owned'} \cup InAdd'
      BY <1>1, <1>3, <1>4, <1>5, <1>6
    <2>2. /\ \A e, f \in Owned' : e[2] = f[2] => e = f
          /\ \A e \in Owned' : e[2] \notin InAdd'
      BY <1>4, <1>5, <1>6
    <2>3. timers' \cap expire' = {} /\ timers' \cap running' = {} /\ expire' \cap running' = {}
      BY <1>1, <1>2, <1>3
    <2>4. OwnedOnce'
      BY <1>1, <2>1, <2>2, <2>3 DEF TimerInv, OwnersOK, OwnedOnce
    <2> QED BY <1>1, <1>2, <2>4 DEF TimerInv, OwnersOK
  <1>10. ArmedOK'
    <2>1. \A e \in timers' : now <= e[1]
      BY <1>1, <1>3, TimerFacts
    <2> QED BY <1>1, <1>5, <2>1 DEF TimerInv, ArmedOK, FirstIsArmed
  <1>11. /\ \A j, k \in live : addr[j] = addr[k] => j = k
         /\ \A c \in cancels : \E id \in created :
                <<born[id], addr[id]>> = c /\ (id \in wanted \/ id \notin live)
         /\ \A id \in wanted \cap live : <<born[id], addr[id]>> \in cancels
    BY DEF TimerInv, CancelsOK, KtimerId
  <1>12. ASSUME NEW id \in wanted \cap live' PROVE <<born[id], addr[id]>> \in cancels'
    <2>1. id \in live /\ <<born[id], addr[id]>> \in cancels
      BY <1>1, <1>11, <1>12
    <2>2. ASSUME NEW e \in dropped, <<born[id], addr[id]>> = <<born[e[2]], addr[e[2]]>> PROVE FALSE
      <3>1. addr[id] = addr[e[2]] /\ e[2] \in live
        BY <1>3, <1>6, <2>2
      <3>2. id = e[2]
        BY <1>11, <2>1, <3>1
      <3> QED BY <1>1, <1>12, <3>2
    <2> QED BY <1>1, <1>3, <2>1, <2>2
  <1>13. CancelsOK'
    <2>1. \A j, k \in live' : addr'[j] = addr'[k] => j = k
      BY <1>1, <1>11
    <2>2. ASSUME NEW c \in cancels'
          PROVE  \E id \in created : <<born[id], addr[id]>> = c /\ (id \in wanted \/ id \notin live')
      BY <1>1, <1>11, <2>2
    <2> QED BY <1>1, <1>12, <2>1, <2>2 DEF CancelsOK, KtimerId
  <1>14. ASSUME NEW id \in live \ live' PROVE id \in wanted \/ ~Unambiguous(id)
    <2>1. PICK e \in dropped : e[2] = id
      BY <1>1, <1>14
    <2>2. <<born[id], addr[id]>> \in cancels
      BY <1>3, <2>1
    <2>3. PICK j \in created : <<born[j], addr[j]>> = <<born[id], addr[id]>> /\ (j \in wanted \/ j \notin live)
      BY <1>11, <2>2
    <2> QED BY <1>14, <2>3 DEF Unambiguous, KtimerId
  <1>15. ASSUME NEW e \in expire', e[2] \in wanted PROVE FALSE
    BY <1>1, <1>3, <1>6, <1>11, <1>15
  <1>16. {e[2] : e \in expire'} \cap wanted = {}
    BY <1>15
  <1>17. TimerInv'
    BY <1>7, <1>8, <1>9, <1>10, <1>13 DEF TimerInv
  <1> QED
    BY <1>14, <1>16, <1>17

LEMMA RunTimerStep ==
    ASSUME TimerInv, NEW e \in expire, RunTimer(e)
    PROVE  TimerInv'
  <1>1. /\ place = "batch" /\ place' = "callback"
        /\ expire' = expire \ {e} /\ running' = {e}
        /\ UNCHANGED <<now, late, active, armed, timers, cancels, posted, created, live, addr,
                       born, interval, wanted>>
    BY DEF RunTimer, timeVars, heapVars
  <1>2. running = {}
    BY <1>1 DEF TimerInv, OwnersOK
  <1>3. Owned' = Owned /\ InAdd' = InAdd
    BY <1>1, <1>2 DEF Owned, InAdd
  <1>4. TimersTypeOK'
    BY <1>1, TimerFacts DEF TimerInv, TimersTypeOK
  <1>5. OwnersOK'
    BY <1>1, <1>2, <1>3 DEF TimerInv, OwnersOK, OwnedOnce
  <1>6. TimesShort' /\ ArmedOK'
    BY <1>1, <1>3 DEF TimerInv, TimesShort, ArmedOK, FirstIsArmed
  <1>7. CancelsOK'
    BY <1>1 DEF TimerInv, CancelsOK, KtimerId
  <1> QED
    BY <1>4, <1>5, <1>6, <1>7 DEF TimerInv

\* A timer whose callback has returned is deleted, or repeated from now on.
LEMMA TimerDoneStep ==
    ASSUME TimerInv, TimerDone
    PROVE  TimerInv'
  <1>1. /\ place = "callback" /\ place' = "batch" /\ running' = {}
        /\ UNCHANGED <<now, late, active, armed, cancels, expire, posted, created, addr, born,
                       interval, wanted>>
    BY DEF TimerDone, timeVars
  <1>2. PICK e \in running :
            IF interval[e[2]] > 0
            THEN timers' = timers \cup {<<now + interval[e[2]], e[2]>>} /\ live' = live
            ELSE live' = live \ {e[2]} /\ timers' = timers
    BY DEF TimerDone, Repeats
  <1>3. /\ running = {e} /\ e \in Owned /\ e[2] \in Ids /\ e[2] \in live
        /\ e \notin timers \cup expire
    BY <1>2, TimerFacts DEF TimerInv, OwnersOK, OwnedOnce, Owned
  <1>4. /\ live = {f[2] : f \in timers \cup expire \cup {e}} \cup InAdd
        /\ \A f, g \in timers \cup expire \cup {e} : f[2] = g[2] => f = g
        /\ timers \cap expire = {}
        /\ \A f \in timers \cup expire \cup {e} : f[2] \notin InAdd
    BY <1>3 DEF TimerInv, OwnersOK, OwnedOnce, Owned
  <1>5. InAdd' = InAdd
    BY <1>1 DEF InAdd
  <1>6. /\ \A k \in 1..Len(posted') : posted'[k][2] \in created'
        /\ \A j, k \in DOMAIN posted' : posted'[j] = posted'[k] /\ posted'[j][1] = "add" => j = k
    BY <1>1 DEF TimerInv, OwnersOK, OwnedOnce
  <1>7. CASE interval[e[2]] > 0
    <2> DEFINE t == now + interval[e[2]]
               x == <<t, e[2]>>
    <2>1. t \in Nat /\ now <= t /\ t < Modulus
      <3>1. now \in Nat /\ now <= MaxTime /\ interval[e[2]] \in Intervals \cup {0}
        BY <1>3, TimerFacts
      <3>2. interval[e[2]] \in Nat /\ MaxTime + interval[e[2]] < Modulus /\ MaxTime \in Nat /\ Modulus \in Nat
        BY <3>1, TimeConstants
      <3> QED BY <3>1, <3>2
    <2> HIDE DEF t
    <2>2. x \in Nat \X Ids /\ x[1] = t /\ x[2] = e[2]
      BY <1>3, <2>1
    <2>3. timers' = timers \cup {x} /\ live' = live
      BY <1>2, <1>7 DEF t
    <2> HIDE DEF x
    <2>4. Owned' = timers \cup expire \cup {x}
      BY <1>1, <2>3 DEF Owned
    <2>5. TimersTypeOK'
      BY <1>1, <2>2, <2>3, TimerFacts DEF TimerInv, TimersTypeOK
    <2>6. TimesShort'
      BY <1>1, <2>1, <2>2, <2>4 DEF TimerInv, TimesShort, Owned
    <2>7. OwnersOK'
      <3>1. live' = {f[2] : f \in Owned'} \cup InAdd'
        BY <1>4, <1>5, <2>2, <2>3, <2>4
      <3>2. x \notin timers \cup expire
        BY <1>3, <1>4, <2>2
      <3>3. \A f, g \in Owned' : f[2] = g[2] => f = g
        BY <1>3, <1>4, <2>2, <2>4
      <3>4. \A f \in Owned' : f[2] \notin InAdd'
        BY <1>4, <1>5, <2>2, <2>4
      <3>5. timers' \cap expire' = {} /\ timers' \cap running' = {} /\ expire' \cap running' = {}
        BY <1>1, <1>4, <2>3, <3>2
      <3>6. OwnedOnce'
        BY <1>6, <3>1, <3>3, <3>4, <3>5 DEF OwnedOnce
      <3> QED BY <1>1, <1>6, <3>6 DEF OwnersOK
    <2>8. ArmedOK'
      BY <1>1, <1>5, <2>1, <2>2, <2>3 DEF TimerInv, ArmedOK, FirstIsArmed
    <2>9. CancelsOK'
      BY <1>1, <2>3 DEF TimerInv, CancelsOK, KtimerId
    <2> QED BY <2>5, <2>6, <2>7, <2>8, <2>9 DEF TimerInv
  <1>8. CASE ~(interval[e[2]] > 0)
    <2>1. timers' = timers /\ live' = live \ {e[2]}
      BY <1>2, <1>8
    <2>2. Owned' = timers \cup expire
      BY <1>1, <2>1 DEF Owned
    <2>3. TimersTypeOK'
      BY <1>1, <2>1, TimerFacts DEF TimerInv, TimersTypeOK
    <2>4. TimesShort'
      BY <1>1, <2>2 DEF TimerInv, TimesShort, Owned
    <2>5. OwnersOK'
      <3>1. live' = {f[2] : f \in Owned'} \cup InAdd'
        BY <1>3, <1>4, <1>5, <2>1, <2>2
      <3>2. /\ \A f, g \in Owned' : f[2] = g[2] => f = g
            /\ \A f \in Owned' : f[2] \notin InAdd'
        BY <1>4, <1>5, <2>2
      <3>3. timers' \cap expire' = {} /\ timers' \cap running' = {} /\ expire' \cap running' = {}
        BY <1>1, <1>4, <2>1
      <3>4. OwnedOnce'
        BY <1>6, <3>1, <3>2, <3>3 DEF OwnedOnce
      <3> QED BY <1>1, <1>6, <3>4 DEF OwnersOK
    <2>6. ArmedOK'
      BY <1>1, <1>5, <2>1 DEF TimerInv, ArmedOK, FirstIsArmed
    <2>7. CancelsOK'
      BY <1>1, <2>1 DEF TimerInv, CancelsOK, KtimerId
    <2> QED BY <2>3, <2>4, <2>5, <2>6, <2>7 DEF TimerInv
  <1> QED
    BY <1>7, <1>8

LEMMA FinishReadStep ==
    ASSUME TimerInv, FinishRead
    PROVE  TimerInv'
  <1>1. /\ place = "batch" /\ place' = "idle" /\ expire = {}
        /\ IF timers # {} THEN ResetTimerfd(First(timers)) ELSE armed' = armed
        /\ UNCHANGED <<now, late, active, timers, cancels, expire, running, posted, created, live,
                       addr, born, interval, wanted>>
    BY DEF FinishRead, timeVars, setVars, heapVars
  <1>2. Owned' = Owned /\ InAdd' = InAdd
    BY <1>1 DEF Owned, InAdd
  <1>3. /\ armed' \in Nat \cup {Off}
        /\ ~late /\ timers # {} => Soon(armed', timers)
    <2>1. CASE timers = {}
      BY <1>1, <2>1, TimerFacts
    <2>2. CASE timers # {}
      <3>1. /\ First(timers) \in Nat
            /\ \E e \in timers : e[1] = First(timers)
        BY <2>2, TimerFacts, FirstIs
      <3>2. First(timers) < Modulus
        BY <3>1 DEF TimerInv, TimesShort, Owned
      <3>3. ~late => now <= First(timers)
        BY <1>1, <3>1 DEF TimerInv, ArmedOK
      <3>4. now \in Nat
        BY TimerFacts
      <3> QED BY <1>1, <2>2, <3>1, <3>2, <3>3, <3>4, ResetIs DEF Soon
    <2> QED BY <2>1, <2>2
  <1>4. running = {}
    BY <1>1 DEF TimerInv, OwnersOK
  <1>5. TimersTypeOK'
    BY <1>1, <1>3 DEF TimerInv, TimersTypeOK
  <1>6. TimesShort' /\ OwnersOK'
    BY <1>1, <1>2, <1>4 DEF TimerInv, TimesShort, OwnersOK, OwnedOnce
  <1>7. FirstIsArmed'
    BY <1>1, <1>3 DEF FirstIsArmed, Off, Soon
  <1>8. ArmedOK'
    BY <1>1, <1>2, <1>7 DEF TimerInv, ArmedOK
  <1>9. CancelsOK'
    BY <1>1 DEF TimerInv, CancelsOK, KtimerId
  <1> QED
    BY <1>5, <1>6, <1>8, <1>9 DEF TimerInv

LEMMA TickStep ==
    ASSUME TimerInv, Tick
    PROVE  TimerInv'
  <1>1. /\ now < MaxTime /\ now' = now + 1
        /\ late' = (late \/ place # "idle" \/ posted # <<>>)
        /\ UNCHANGED <<place, active, armed, timers, cancels, expire, running, posted, created,
                       live, addr, born, interval, wanted>>
    BY DEF Tick, setVars, heapVars
  <1>2. Owned' = Owned /\ InAdd' = InAdd
    BY <1>1 DEF Owned, InAdd
  <1>3. now' \in 0..MaxTime
    BY <1>1, TimerFacts, TimeConstants
  <1>4. late' \in BOOLEAN /\ (~late' => ~late /\ place = "idle" /\ posted = <<>>)
    BY <1>1
  <1>5. TimersTypeOK'
    BY <1>1, <1>3, <1>4 DEF TimerInv, TimersTypeOK
  <1>6. TimesShort' /\ OwnersOK'
    BY <1>1, <1>2 DEF TimerInv, TimesShort, OwnersOK, OwnedOnce
  <1>7. ~late' /\ timers # {} => Soon(armed, timers)'
    <2> SUFFICES ASSUME ~late', timers # {} PROVE Soon(armed, timers)'
      OBVIOUS
    <2>1. Soon(armed, timers)
      BY <1>4, TimerFacts, FirstIsArmedIs DEF TimerInv, ArmedOK
    <2>2. /\ First(timers) \in Nat /\ now + MinDelay \in Nat /\ now' + MinDelay \in Nat
          /\ now + MinDelay <= now' + MinDelay
      <3>1. timers \in SUBSET (Nat \X Ids) /\ now \in Nat /\ MinDelay \in Nat
        BY TimerFacts, TimeConstants
      <3>2. First(timers) \in Nat
        BY <3>1, FirstIs
      <3> QED BY <1>1, <3>1, <3>2
    <2>3. /\ Max({First(timers), now + MinDelay}) =
                IF First(timers) >= now + MinDelay THEN First(timers) ELSE now + MinDelay
          /\ Max({First(timers), now' + MinDelay}) =
                IF First(timers) >= now' + MinDelay THEN First(timers) ELSE now' + MinDelay
      BY <2>2, MaxIs
    <2> QED BY <1>1, <2>1, <2>2, <2>3 DEF Soon
  <1>8. FirstIsArmed'
    BY <1>1, <1>7 DEF FirstIsArmed, Off, Soon
  <1>9. InAdd = {} \/ late'
    BY <1>4 DEF InAdd
  <1>10. ArmedOK'
    BY <1>1, <1>2, <1>4, <1>8, <1>9 DEF TimerInv, ArmedOK
  <1>11. CancelsOK'
    BY <1>1 DEF TimerInv, CancelsOK, KtimerId
  <1> QED
    BY <1>5, <1>6, <1>10, <1>11 DEF TimerInv

LEMMA NextTimers ==
    ASSUME TimerInv, TimersNext \/ UNCHANGED timerqueueVars
    PROVE  TimerInv'
  <1>1. CASE User
    <2>1. ASSUME NEW id \in Ids, CancelTimer(id) \/ PostCancel(id) PROVE TimerInv'
      BY <2>1, CancelTimerStep, PostCancelStep
    <2>2. ASSUME NEW id \in Ids, NEW b \in Addrs, NEW t \in 0..Horizon, NEW i \in Intervals,
                 AddTimer(id, b, t, i) \/ PostAdd(id, b, t, i)
          PROVE  TimerInv'
      BY <2>2, AddTimerStep, PostAddStep
    <2> QED BY <1>1, <2>1, <2>2 DEF User
  <1>2. CASE TimerStep
    <2>1. CASE RunFunctor
      BY <2>1, FunctorAdds, FunctorCancels DEF RunFunctor
    <2>2. CASE PollTimerfd
      <3>1. /\ active' = TRUE
            /\ UNCHANGED <<now, late, place, armed, timers, cancels, expire, running, posted,
                           created, live, addr, born, interval, wanted>>
        BY <2>2 DEF PollTimerfd, timeVars, setVars, heapVars
      <3>2. Owned' = Owned /\ InAdd' = InAdd
        BY <3>1 DEF Owned, InAdd
      <3>3. TimersTypeOK' /\ TimesShort' /\ OwnersOK'
        BY <3>1, <3>2 DEF TimerInv, TimersTypeOK, TimesShort, OwnersOK, OwnedOnce
      <3>4. ArmedOK' /\ CancelsOK'
        BY <3>1, <3>2 DEF TimerInv, ArmedOK, FirstIsArmed, CancelsOK, KtimerId
      <3> QED BY <3>3, <3>4 DEF TimerInv
    <2>3. CASE HandleRead
      BY <2>3, HandleReadStep
    <2> QED BY <1>2, <2>1, <2>2, <2>3, RunTimerStep, TimerDoneStep, FinishReadStep DEF TimerStep
  <1>3. CASE Tick
    BY <1>3, TickStep
  <1>4. CASE UNCHANGED timerqueueVars
    <2>1. UNCHANGED <<now, late, place, active, armed, timers, cancels, expire, running, posted,
                      created, live, addr, born, interval, wanted>>
      BY <1>4 DEF timerqueueVars, timeVars, setVars, heapVars
    <2>2. Owned' = Owned /\ InAdd' = InAdd
      BY <2>1 DEF Owned, InAdd
    <2>3. TimersTypeOK' /\ TimesShort' /\ OwnersOK'
      BY <2>1, <2>2 DEF TimerInv, TimersTypeOK, TimesShort, OwnersOK, OwnedOnce
    <2>4. ArmedOK' /\ CancelsOK'
      BY <2>1, <2>2 DEF TimerInv, ArmedOK, FirstIsArmed, CancelsOK, KtimerId
    <2> QED BY <2>3, <2>4 DEF TimerInv
  <1> QED
    BY <1>1, <1>2, <1>3, <1>4 DEF TimersNext

\* For any number of timers, addresses and times: a timer has one owner until it is deleted, by
\* whom alone; and while the loop waits and was never late, the timerfd is armed for the first.
THEOREM TimersAreSafe == TimersSpec => []TimersSafe
  <1>1. TimersInit => TimerInv
    BY InitTimers
  <1>2. TimerInv /\ [TimersNext]_timerqueueVars => TimerInv'
    BY NextTimers
  <1>3. TimerInv => TimersSafe
    BY DEF TimersSafe, MemorySafe, TimerInv, OwnersOK, ArmedOK
  <1> QED
    BY <1>1, <1>2, <1>3, PTL DEF TimersSpec

\* setExpireTimers deletes the timers that were to be cancelled and no other one that has a
\* ktimerid of its own, however addresses are used again.
THEOREM CancelsAreExact == TimersSpec => CancelIsExact
  <1> DEFINE Exactly ==
        HandleRead => /\ \A id \in live \ live' : id \in wanted \/ ~Unambiguous(id)
                      /\ {e[2] : e \in expire'} \cap wanted = {}
  <1>1. TimersInit => TimerInv
    BY InitTimers
  <1>2. TimerInv /\ [TimersNext]_timerqueueVars => TimerInv'
    BY NextTimers
  <1>3. TimerInv /\ [TimersNext]_timerqueueVars => [Exactly]_timerqueueVars
    BY HandleReadStep
  <1> QED
    BY <1>1, <1>2, <1>3, PTL DEF TimersSpec, CancelIsExact
=============================================================================
