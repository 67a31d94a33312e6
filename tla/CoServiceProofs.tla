--------------------------- MODULE CoServiceProofs ---------------------------
(***************************************************************************)
(* Proofs about CoService for every number of threads and items.           *)
(***************************************************************************)
EXTENDS CoService, SeqSetsProofs, FiniteSetTheorems, TLAPS

USE DEF vars, runVars, queueVars, itemVars, eventVars, timeVars, reactorVars

\* The queue holds items and the token only.
LEMMA SetOfQueue == TypeOK => SetOf(taskQueue) \subseteq Items \cup {Nullptr}
  BY DEF TypeOK, SetOf

\* The type invariant is inductive.
LEMMA TypeStep ==
    ASSUME TypeOK, Hands, Places, Registered, [Next]_vars
    PROVE  TypeOK'
  <1> USE ItemsAssumption, CapacityAssumption DEF TypeOK, Labels, ReactorSection, TimeSection,
       Inside, Goto
  <1>1. ASSUME NEW t \in Threads, Loop(t) PROVE TypeOK'
    BY <1>1 DEF Loop
  <1>2. ASSUME NEW t \in Threads, Sleep(t) PROVE TypeOK'
    BY <1>2 DEF Sleep
  <1>3. ASSUME NEW t \in Threads, SpuriousWakeup(t) PROVE TypeOK'
    BY <1>3 DEF SpuriousWakeup
  <1>4. ASSUME NEW t \in Threads, Fetch(t) PROVE TypeOK'
    <2>1. /\ taskQueue' \in Seq(Items \cup {Nullptr})
          /\ Head(taskQueue) \in SetOf(taskQueue) /\ Head(taskQueue) \in Items \cup {Nullptr}
          /\ NoRepeat(taskQueue) => /\ SetOf(taskQueue') = SetOf(taskQueue) \ {Head(taskQueue)}
                                   /\ NoRepeat(taskQueue')
      BY <1>4, TailSet DEF Fetch
    <2> QED
      BY <1>4, <2>1 DEF Fetch
  <1>5. ASSUME NEW t \in Threads, Resume(t) PROVE TypeOK'
    BY <1>5 DEF Resume
  <1>6. ASSUME NEW t \in Threads, Release(t) PROVE TypeOK'
    BY <1>6 DEF Release
  <1>7. ASSUME NEW t \in Threads, Remove(t) PROVE TypeOK'
    <2>1. cst[t] \in epoll /\ IsFiniteSet(epoll)
      BY <1>7, ItemsAssumption, FS_Subset DEF Remove, Registered, Hands, Holding
    <2>2. Cardinality(epoll) - 1 \in Nat
      BY <2>1, FS_CardinalityType, FS_EmptySet
    <2> QED
      BY <1>7, <2>2 DEF Remove, Registered
  <1>8. ASSUME NEW t \in Threads, Bury(t) PROVE TypeOK'
    BY <1>8 DEF Bury, Hands, Holding
  <1>9. ASSUME NEW t \in Threads, Consume(t) PROVE TypeOK'
    BY <1>9 DEF Consume
  <1>10. ASSUME NEW t \in Threads, Modify(t) PROVE TypeOK'
    BY <1>10 DEF Modify, Hands, Holding, Places, Registered
  <1>11. ASSUME NEW t \in Threads, NEW i \in Items, Register(t, i) PROVE TypeOK'
    BY <1>11 DEF Register, Counted
  <1>12. ASSUME NEW t \in Threads, Enqueue(t) PROVE TypeOK'
    <2>1. /\ taskQueue' \in Seq(Items \cup {Nullptr})
          /\ SetOf(taskQueue') = SetOf(taskQueue) \cup {making[t]}
          /\ NoRepeat(taskQueue) /\ making[t] \notin SetOf(taskQueue) => NoRepeat(taskQueue')
      BY <1>12, AppendSet DEF Enqueue, Hands
    <2> QED
      BY <1>12, <2>1 DEF Enqueue
  <1>13. ASSUME NEW t \in Threads, AskTimeout(t) PROVE TypeOK'
    BY <1>13 DEF AskTimeout
  <1>14. ASSUME NEW t \in Threads, SetTimeout(t) PROVE TypeOK'
    BY <1>14 DEF SetTimeout, Hands, Holding
  <1>15. ASSUME NEW t \in Threads, WaitForever(t) PROVE TypeOK'
    BY <1>15 DEF WaitForever
  <1>16. ASSUME NEW t \in Threads, Yield(t) PROVE TypeOK'
    BY <1>16 DEF Yield
  <1>17. ASSUME NEW t \in Threads, Finish(t) PROVE TypeOK'
    BY <1>17 DEF Finish
  <1>18. ASSUME NEW t \in Threads, LockTime(t) PROVE TypeOK'
    BY <1>18 DEF LockTime
  <1>19. ASSUME NEW t \in Threads, EpollWait(t) PROVE TypeOK'
    BY <1>19 DEF EpollWait, StillReady
  <1>20. ASSUME NEW t \in Threads, NEW i \in Items, FilterEvent(t, i) PROVE TypeOK'
    <2>1. Append(batch, i) \in Seq(Items) /\ SetOf(Append(batch, i)) = SetOf(batch) \cup {i}
          /\ (NoRepeat(batch) /\ i \notin SetOf(batch) => NoRepeat(Append(batch, i)))
      BY AppendSet
    <2> QED
      BY <1>20, <2>1 DEF FilterEvent, Unlink
  <1>21. ASSUME NEW t \in Threads, EventsFiltered(t) PROVE TypeOK'
    BY <1>21 DEF EventsFiltered
  <1>22. ASSUME NEW t \in Threads, NEW expired \in SUBSET wheel, CollectTimeouts(t, expired)
        PROVE  TypeOK'
    BY <1>22 DEF CollectTimeouts
  <1>23. ASSUME NEW t \in Threads, NEW i \in Items, FilterTimeout(t, i) PROVE TypeOK'
    <2>1. Append(batch, i) \in Seq(Items) /\ SetOf(Append(batch, i)) = SetOf(batch) \cup {i}
          /\ (NoRepeat(batch) /\ i \notin SetOf(batch) => NoRepeat(Append(batch, i)))
      BY AppendSet
    <2> QED
      BY <1>23, <2>1 DEF FilterTimeout, Relink
  <1>24. ASSUME NEW t \in Threads, UnlockTime(t) PROVE TypeOK'
    BY <1>24 DEF UnlockTime
  <1>25. ASSUME NEW t \in Threads, PushBatch(t) PROVE TypeOK'
    <2>1. batch \in Seq(Items \cup {Nullptr})
      OBVIOUS
    <2>2. /\ taskQueue' \in Seq(Items \cup {Nullptr})
          /\ SetOf(taskQueue') = SetOf(taskQueue) \cup SetOf(batch)
          /\ NoRepeat(taskQueue) /\ NoRepeat(batch) /\ SetOf(taskQueue) \cap SetOf(batch) = {}
                => NoRepeat(taskQueue')
      BY <1>25, <2>1, ConcatSet DEF PushBatch
    <2>3. SetOf(batch) \subseteq Items /\ SetOf(batch') = {} /\ NoRepeat(batch')
      BY <1>25, EmptySet DEF PushBatch, SetOf
    <2> QED
      BY <1>25, <2>2, <2>3 DEF PushBatch
  <1>26. ASSUME NEW t \in Threads, Reap(t) PROVE TypeOK'
    BY <1>26 DEF Reap
  <1>27. ASSUME NEW t \in Threads, PushToken(t) PROVE TypeOK'
    <2>1. /\ taskQueue' \in Seq(Items \cup {Nullptr})
          /\ SetOf(taskQueue') = SetOf(taskQueue) \cup {Nullptr}
          /\ NoRepeat(taskQueue) /\ Nullptr \notin SetOf(taskQueue) => NoRepeat(taskQueue')
      BY <1>27, AppendSet DEF PushToken, Hands
    <2> QED
      BY <1>27, <2>1 DEF PushToken
  <1>28. ASSUME Destroy PROVE TypeOK'
    BY <1>28 DEF Destroy
  <1>29. ASSUME NEW i \in Items, FdReady(i) PROVE TypeOK'
    BY <1>29 DEF FdReady
  <1>30. CASE UNCHANGED vars
    BY <1>30
  <1> QED
    BY <1>1, <1>2, <1>3, <1>4, <1>5, <1>6, <1>7, <1>8, <1>9, <1>10, <1>11, <1>12, <1>13, <1>14,
         <1>15, <1>16, <1>17, <1>18, <1>19, <1>20, <1>21, <1>22, <1>23, <1>24, <1>25, <1>26,
         <1>27, <1>28, <1>29, <1>30
       DEF Next, Run, Leave, Coroutine, Reactor

\* A thread has an item in its hands exactly at the labels that use it.
LEMMA HandsStep ==
    ASSUME TypeOK, Hands, [Next]_vars
    PROVE  Hands'
  <1> USE ItemsAssumption DEF TypeOK, Hands, Goto, Holding, Inside
  <1>1. ASSUME NEW t \in Threads, Loop(t) PROVE Hands'
    BY <1>1 DEF Loop
  <1>2. ASSUME NEW t \in Threads, Sleep(t) PROVE Hands'
    BY <1>2 DEF Sleep
  <1>3. ASSUME NEW t \in Threads, SpuriousWakeup(t) PROVE Hands'
    BY <1>3 DEF SpuriousWakeup
  <1>4. ASSUME NEW t \in Threads, Fetch(t) PROVE Hands'
    <2>1. /\ taskQueue' \in Seq(Items \cup {Nullptr})
          /\ Head(taskQueue) \in SetOf(taskQueue) /\ Head(taskQueue) \in Items \cup {Nullptr}
          /\ NoRepeat(taskQueue) => /\ SetOf(taskQueue') = SetOf(taskQueue) \ {Head(taskQueue)}
                                   /\ NoRepeat(taskQueue')
      BY <1>4, TailSet DEF Fetch
    <2> QED
      BY <1>4, <2>1 DEF Fetch
  <1>5. ASSUME NEW t \in Threads, Resume(t) PROVE Hands'
    BY <1>5 DEF Resume
  <1>6. ASSUME NEW t \in Threads, Release(t) PROVE Hands'
    BY <1>6 DEF Release
  <1>7. ASSUME NEW t \in Threads, Remove(t) PROVE Hands'
    BY <1>7 DEF Remove
  <1>8. ASSUME NEW t \in Threads, Bury(t) PROVE Hands'
    BY <1>8 DEF Bury
  <1>9. ASSUME NEW t \in Threads, Consume(t) PROVE Hands'
    BY <1>9 DEF Consume
  <1>10. ASSUME NEW t \in Threads, Modify(t) PROVE Hands'
    BY <1>10 DEF Modify
  <1>11. ASSUME NEW t \in Threads, NEW i \in Items, Register(t, i) PROVE Hands'
    BY <1>11 DEF Register
  <1>12. ASSUME NEW t \in Threads, Enqueue(t) PROVE Hands'
    BY <1>12 DEF Enqueue
  <1>13. ASSUME NEW t \in Threads, AskTimeout(t) PROVE Hands'
    BY <1>13 DEF AskTimeout
  <1>14. ASSUME NEW t \in Threads, SetTimeout(t) PROVE Hands'
    BY <1>14 DEF SetTimeout
  <1>15. ASSUME NEW t \in Threads, WaitForever(t) PROVE Hands'
    BY <1>15 DEF WaitForever
  <1>16. ASSUME NEW t \in Threads, Yield(t) PROVE Hands'
    BY <1>16 DEF Yield
  <1>17. ASSUME NEW t \in Threads, Finish(t) PROVE Hands'
    BY <1>17 DEF Finish
  <1>18. ASSUME NEW t \in Threads, LockTime(t) PROVE Hands'
    BY <1>18 DEF LockTime
  <1>19. ASSUME NEW t \in Threads, EpollWait(t) PROVE Hands'
    BY <1>19 DEF EpollWait
  <1>20. ASSUME NEW t \in Threads, NEW i \in Items, FilterEvent(t, i) PROVE Hands'
    BY <1>20 DEF FilterEvent
  <1>21. ASSUME NEW t \in Threads, EventsFiltered(t) PROVE Hands'
    BY <1>21 DEF EventsFiltered
  <1>22. ASSUME NEW t \in Threads, NEW expired \in SUBSET wheel, CollectTimeouts(t, expired)
        PROVE  Hands'
    BY <1>22 DEF CollectTimeouts
  <1>23. ASSUME NEW t \in Threads, NEW i \in Items, FilterTimeout(t, i) PROVE Hands'
    BY <1>23 DEF FilterTimeout
  <1>24. ASSUME NEW t \in Threads, UnlockTime(t) PROVE Hands'
    BY <1>24 DEF UnlockTime
  <1>25. ASSUME NEW t \in Threads, PushBatch(t) PROVE Hands'
    BY <1>25 DEF PushBatch, Woken
  <1>26. ASSUME NEW t \in Threads, Reap(t) PROVE Hands'
    BY <1>26 DEF Reap
  <1>27. ASSUME NEW t \in Threads, PushToken(t) PROVE Hands'
    BY <1>27 DEF PushToken
  <1>28. ASSUME Destroy PROVE Hands'
    BY <1>28 DEF Destroy
  <1>29. ASSUME NEW i \in Items, FdReady(i) PROVE Hands'
    BY <1>29 DEF FdReady
  <1>30. CASE UNCHANGED vars
    BY <1>30
  <1> QED
    BY <1>1, <1>2, <1>3, <1>4, <1>5, <1>6, <1>7, <1>8, <1>9, <1>10, <1>11, <1>12, <1>13, <1>14,
         <1>15, <1>16, <1>17, <1>18, <1>19, <1>20, <1>21, <1>22, <1>23, <1>24, <1>25, <1>26,
         <1>27, <1>28, <1>29, <1>30
       DEF Next, Run, Leave, Coroutine, Reactor

\* The token is neither lost nor duplicated.
LEMMA OneTokenStep ==
    ASSUME TypeOK, Hands, OneToken, Exclusive, [Next]_vars
    PROVE  OneToken'
  <1> USE ItemsAssumption DEF TypeOK, OneToken, IsReactor, ReactorSection, TimeSection, Goto
  <1>1. ASSUME NEW t \in Threads, Loop(t) PROVE OneToken'
    BY <1>1 DEF Loop
  <1>2. ASSUME NEW t \in Threads, Sleep(t) PROVE OneToken'
    BY <1>2 DEF Sleep
  <1>3. ASSUME NEW t \in Threads, SpuriousWakeup(t) PROVE OneToken'
    BY <1>3 DEF SpuriousWakeup
  <1>4. ASSUME NEW t \in Threads, Fetch(t) PROVE OneToken'
    <2>1. /\ taskQueue' \in Seq(Items \cup {Nullptr})
          /\ Head(taskQueue) \in SetOf(taskQueue) /\ Head(taskQueue) \in Items \cup {Nullptr}
          /\ NoRepeat(taskQueue) => /\ SetOf(taskQueue') = SetOf(taskQueue) \ {Head(taskQueue)}
                                   /\ NoRepeat(taskQueue')
      BY <1>4, TailSet DEF Fetch
    <2> QED
      BY <1>4, <2>1 DEF Fetch, Exclusive
  <1>5. ASSUME NEW t \in Threads, Resume(t) PROVE OneToken'
    BY <1>5 DEF Resume
  <1>6. ASSUME NEW t \in Threads, Release(t) PROVE OneToken'
    BY <1>6 DEF Release
  <1>7. ASSUME NEW t \in Threads, Remove(t) PROVE OneToken'
    BY <1>7 DEF Remove
  <1>8. ASSUME NEW t \in Threads, Bury(t) PROVE OneToken'
    BY <1>8 DEF Bury
  <1>9. ASSUME NEW t \in Threads, Consume(t) PROVE OneToken'
    BY <1>9 DEF Consume
  <1>10. ASSUME NEW t \in Threads, Modify(t) PROVE OneToken'
    BY <1>10 DEF Modify
  <1>11. ASSUME NEW t \in Threads, NEW i \in Items, Register(t, i) PROVE OneToken'
    BY <1>11 DEF Register
  <1>12. ASSUME NEW t \in Threads, Enqueue(t) PROVE OneToken'
    <2>1. /\ taskQueue' \in Seq(Items \cup {Nullptr})
          /\ SetOf(taskQueue') = SetOf(taskQueue) \cup {making[t]}
          /\ NoRepeat(taskQueue) /\ making[t] \notin SetOf(taskQueue) => NoRepeat(taskQueue')
      BY <1>12, AppendSet DEF Enqueue, Hands
    <2> QED
      BY <1>12, <2>1 DEF Enqueue, Hands
  <1>13. ASSUME NEW t \in Threads, AskTimeout(t) PROVE OneToken'
    BY <1>13 DEF AskTimeout
  <1>14. ASSUME NEW t \in Threads, SetTimeout(t) PROVE OneToken'
    BY <1>14 DEF SetTimeout
  <1>15. ASSUME NEW t \in Threads, WaitForever(t) PROVE OneToken'
    BY <1>15 DEF WaitForever
  <1>16. ASSUME NEW t \in Threads, Yield(t) PROVE OneToken'
    BY <1>16 DEF Yield
  <1>17. ASSUME NEW t \in Threads, Finish(t) PROVE OneToken'
    BY <1>17 DEF Finish
  <1>18. ASSUME NEW t \in Threads, LockTime(t) PROVE OneToken'
    BY <1>18 DEF LockTime
  <1>19. ASSUME NEW t \in Threads, EpollWait(t) PROVE OneToken'
    BY <1>19 DEF EpollWait
  <1>20. ASSUME NEW t \in Threads, NEW i \in Items, FilterEvent(t, i) PROVE OneToken'
    BY <1>20 DEF FilterEvent
  <1>21. ASSUME NEW t \in Threads, EventsFiltered(t) PROVE OneToken'
    BY <1>21 DEF EventsFiltered
  <1>22. ASSUME NEW t \in Threads, NEW expired \in SUBSET wheel, CollectTimeouts(t, expired)
        PROVE  OneToken'
    BY <1>22 DEF CollectTimeouts
  <1>23. ASSUME NEW t \in Threads, NEW i \in Items, FilterTimeout(t, i) PROVE OneToken'
    BY <1>23 DEF FilterTimeout
  <1>24. ASSUME NEW t \in Threads, UnlockTime(t) PROVE OneToken'
    BY <1>24 DEF UnlockTime
  <1>25. ASSUME NEW t \in Threads, PushBatch(t) PROVE OneToken'
    <2>1. batch \in Seq(Items \cup {Nullptr})
      OBVIOUS
    <2>2. /\ taskQueue' \in Seq(Items \cup {Nullptr})
          /\ SetOf(taskQueue') = SetOf(taskQueue) \cup SetOf(batch)
          /\ NoRepeat(taskQueue) /\ NoRepeat(batch) /\ SetOf(taskQueue) \cap SetOf(batch) = {}
                => NoRepeat(taskQueue')
      BY <1>25, <2>1, ConcatSet DEF PushBatch
    <2>3. SetOf(batch) \subseteq Items /\ SetOf(batch') = {} /\ NoRepeat(batch')
      BY <1>25, EmptySet DEF PushBatch, SetOf
    <2> QED
      BY <1>25, <2>2, <2>3 DEF PushBatch, Woken
  <1>26. ASSUME NEW t \in Threads, Reap(t) PROVE OneToken'
    BY <1>26 DEF Reap
  <1>27. ASSUME NEW t \in Threads, PushToken(t) PROVE OneToken'
    <2>1. /\ taskQueue' \in Seq(Items \cup {Nullptr})
          /\ SetOf(taskQueue') = SetOf(taskQueue) \cup {Nullptr}
          /\ NoRepeat(taskQueue) /\ Nullptr \notin SetOf(taskQueue) => NoRepeat(taskQueue')
      BY <1>27, AppendSet DEF PushToken, Hands
    <2> QED
      BY <1>27, <2>1 DEF PushToken
  <1>28. ASSUME Destroy PROVE OneToken'
    BY <1>28 DEF Destroy
  <1>29. ASSUME NEW i \in Items, FdReady(i) PROVE OneToken'
    BY <1>29 DEF FdReady
  <1>30. CASE UNCHANGED vars
    BY <1>30
  <1> QED
    BY <1>1, <1>2, <1>3, <1>4, <1>5, <1>6, <1>7, <1>8, <1>9, <1>10, <1>11, <1>12, <1>13, <1>14,
         <1>15, <1>16, <1>17, <1>18, <1>19, <1>20, <1>21, <1>22, <1>23, <1>24, <1>25, <1>26,
         <1>27, <1>28, <1>29, <1>30
       DEF Next, Run, Leave, Coroutine, Reactor

\* The reactor's arrays are empty whenever it does not use them.
LEMMA ArraysStep ==
    ASSUME TypeOK, OneToken, Arrays, [Next]_vars
    PROVE  Arrays'
  <1> USE ItemsAssumption DEF TypeOK, OneToken, IsReactor, ReactorSection, TimeSection, Arrays,
       Goto
  <1>1. ASSUME NEW t \in Threads, Loop(t) PROVE Arrays'
    BY <1>1 DEF Loop
  <1>2. ASSUME NEW t \in Threads, Sleep(t) PROVE Arrays'
    BY <1>2 DEF Sleep
  <1>3. ASSUME NEW t \in Threads, SpuriousWakeup(t) PROVE Arrays'
    BY <1>3 DEF SpuriousWakeup
  <1>4. ASSUME NEW t \in Threads, Fetch(t) PROVE Arrays'
    BY <1>4 DEF Fetch
  <1>5. ASSUME NEW t \in Threads, Resume(t) PROVE Arrays'
    BY <1>5 DEF Resume
  <1>6. ASSUME NEW t \in Threads, Release(t) PROVE Arrays'
    BY <1>6 DEF Release
  <1>7. ASSUME NEW t \in Threads, Remove(t) PROVE Arrays'
    BY <1>7 DEF Remove
  <1>8. ASSUME NEW t \in Threads, Bury(t) PROVE Arrays'
    BY <1>8 DEF Bury
  <1>9. ASSUME NEW t \in Threads, Consume(t) PROVE Arrays'
    BY <1>9 DEF Consume
  <1>10. ASSUME NEW t \in Threads, Modify(t) PROVE Arrays'
    BY <1>10 DEF Modify
  <1>11. ASSUME NEW t \in Threads, NEW i \in Items, Register(t, i) PROVE Arrays'
    BY <1>11 DEF Register
  <1>12. ASSUME NEW t \in Threads, Enqueue(t) PROVE Arrays'
    BY <1>12 DEF Enqueue
  <1>13. ASSUME NEW t \in Threads, AskTimeout(t) PROVE Arrays'
    BY <1>13 DEF AskTimeout
  <1>14. ASSUME NEW t \in Threads, SetTimeout(t) PROVE Arrays'
    BY <1>14 DEF SetTimeout
  <1>15. ASSUME NEW t \in Threads, WaitForever(t) PROVE Arrays'
    BY <1>15 DEF WaitForever
  <1>16. ASSUME NEW t \in Threads, Yield(t) PROVE Arrays'
    BY <1>16 DEF Yield
  <1>17. ASSUME NEW t \in Threads, Finish(t) PROVE Arrays'
    BY <1>17 DEF Finish
  <1>18. ASSUME NEW t \in Threads, LockTime(t) PROVE Arrays'
    BY <1>18 DEF LockTime
  <1>19. ASSUME NEW t \in Threads, EpollWait(t) PROVE Arrays'
    BY <1>19 DEF EpollWait
  <1>20. ASSUME NEW t \in Threads, NEW i \in Items, FilterEvent(t, i) PROVE Arrays'
    BY <1>20 DEF FilterEvent
  <1>21. ASSUME NEW t \in Threads, EventsFiltered(t) PROVE Arrays'
    BY <1>21 DEF EventsFiltered
  <1>22. ASSUME NEW t \in Threads, NEW expired \in SUBSET wheel, CollectTimeouts(t, expired)
        PROVE  Arrays'
    BY <1>22 DEF CollectTimeouts
  <1>23. ASSUME NEW t \in Threads, NEW i \in Items, FilterTimeout(t, i) PROVE Arrays'
    BY <1>23 DEF FilterTimeout
  <1>24. ASSUME NEW t \in Threads, UnlockTime(t) PROVE Arrays'
    BY <1>24 DEF UnlockTime
  <1>25. ASSUME NEW t \in Threads, PushBatch(t) PROVE Arrays'
    BY <1>25 DEF PushBatch, Woken
  <1>26. ASSUME NEW t \in Threads, Reap(t) PROVE Arrays'
    BY <1>26 DEF Reap
  <1>27. ASSUME NEW t \in Threads, PushToken(t) PROVE Arrays'
    BY <1>27 DEF PushToken
  <1>28. ASSUME Destroy PROVE Arrays'
    BY <1>28 DEF Destroy
  <1>29. ASSUME NEW i \in Items, FdReady(i) PROVE Arrays'
    BY <1>29 DEF FdReady
  <1>30. CASE UNCHANGED vars
    BY <1>30
  <1> QED
    BY <1>1, <1>2, <1>3, <1>4, <1>5, <1>6, <1>7, <1>8, <1>9, <1>10, <1>11, <1>12, <1>13, <1>14,
         <1>15, <1>16, <1>17, <1>18, <1>19, <1>20, <1>21, <1>22, <1>23, <1>24, <1>25, <1>26,
         <1>27, <1>28, <1>29, <1>30
       DEF Next, Run, Leave, Coroutine, Reactor

\* No item is queued or held twice.
LEMMA ExclusiveStep ==
    ASSUME TypeOK, Hands, OneToken, Exclusive, Places, Apart, [Next]_vars
    PROVE  Exclusive'
  <1> USE ItemsAssumption DEF TypeOK, Hands, Exclusive, Goto, Holding, Inside
  <1>1. ASSUME NEW t \in Threads, Loop(t) PROVE Exclusive'
    BY <1>1 DEF Loop
  <1>2. ASSUME NEW t \in Threads, Sleep(t) PROVE Exclusive'
    BY <1>2 DEF Sleep
  <1>3. ASSUME NEW t \in Threads, SpuriousWakeup(t) PROVE Exclusive'
    BY <1>3 DEF SpuriousWakeup
  <1>4. ASSUME NEW t \in Threads, Fetch(t) PROVE Exclusive'
    <2>1. /\ taskQueue' \in Seq(Items \cup {Nullptr})
          /\ Head(taskQueue) \in SetOf(taskQueue) /\ Head(taskQueue) \in Items \cup {Nullptr}
          /\ NoRepeat(taskQueue) => /\ SetOf(taskQueue') = SetOf(taskQueue) \ {Head(taskQueue)}
                                   /\ NoRepeat(taskQueue')
      BY <1>4, TailSet DEF Fetch
    <2> QED
      BY <1>4, <2>1 DEF Fetch
  <1>5. ASSUME NEW t \in Threads, Resume(t) PROVE Exclusive'
    BY <1>5 DEF Resume
  <1>6. ASSUME NEW t \in Threads, Release(t) PROVE Exclusive'
    BY <1>6 DEF Release
  <1>7. ASSUME NEW t \in Threads, Remove(t) PROVE Exclusive'
    BY <1>7 DEF Remove
  <1>8. ASSUME NEW t \in Threads, Bury(t) PROVE Exclusive'
    BY <1>8 DEF Bury
  <1>9. ASSUME NEW t \in Threads, Consume(t) PROVE Exclusive'
    BY <1>9 DEF Consume
  <1>10. ASSUME NEW t \in Threads, Modify(t) PROVE Exclusive'
    BY <1>10 DEF Modify
  <1>11. ASSUME NEW t \in Threads, NEW i \in Items, Register(t, i) PROVE Exclusive'
    <2>1. state[i] = "none" /\ i # Nullptr
      BY <1>11 DEF Register
    <2>2. i \notin SetOf(taskQueue)
      BY <2>1 DEF Places, Resumable
    <2>3. \A s \in Threads : making[s] # i
      BY <2>1 DEF Places
    <2>4. ASSUME NEW s \in Threads, cst[s] = i PROVE FALSE
      <3>1. pc[s] \in {"resume", "resumed", "bury"} \cup Inside
        BY <2>1, <2>4
      <3> QED
        BY <2>1, <2>4, <3>1 DEF Places, Resumable
    <2>5. /\ UNCHANGED <<taskQueue, cst>>
          /\ \A s \in Threads : making'[s] = IF s = t THEN i ELSE making[s]
      BY <1>11 DEF Register
    <2> QED
      BY <2>1, <2>2, <2>3, <2>4, <2>5
  <1>12. ASSUME NEW t \in Threads, Enqueue(t) PROVE Exclusive'
    <2>1. /\ taskQueue' \in Seq(Items \cup {Nullptr})
          /\ SetOf(taskQueue') = SetOf(taskQueue) \cup {making[t]}
          /\ NoRepeat(taskQueue) /\ making[t] \notin SetOf(taskQueue) => NoRepeat(taskQueue')
      BY <1>12, AppendSet DEF Enqueue
    <2> QED
      BY <1>12, <2>1 DEF Enqueue
  <1>13. ASSUME NEW t \in Threads, AskTimeout(t) PROVE Exclusive'
    BY <1>13 DEF AskTimeout
  <1>14. ASSUME NEW t \in Threads, SetTimeout(t) PROVE Exclusive'
    BY <1>14 DEF SetTimeout
  <1>15. ASSUME NEW t \in Threads, WaitForever(t) PROVE Exclusive'
    BY <1>15 DEF WaitForever
  <1>16. ASSUME NEW t \in Threads, Yield(t) PROVE Exclusive'
    BY <1>16 DEF Yield
  <1>17. ASSUME NEW t \in Threads, Finish(t) PROVE Exclusive'
    BY <1>17 DEF Finish
  <1>18. ASSUME NEW t \in Threads, LockTime(t) PROVE Exclusive'
    BY <1>18 DEF LockTime
  <1>19. ASSUME NEW t \in Threads, EpollWait(t) PROVE Exclusive'
    BY <1>19 DEF EpollWait
  <1>20. ASSUME NEW t \in Threads, NEW i \in Items, FilterEvent(t, i) PROVE Exclusive'
    BY <1>20 DEF FilterEvent
  <1>21. ASSUME NEW t \in Threads, EventsFiltered(t) PROVE Exclusive'
    BY <1>21 DEF EventsFiltered
  <1>22. ASSUME NEW t \in Threads, NEW expired \in SUBSET wheel, CollectTimeouts(t, expired)
        PROVE  Exclusive'
    BY <1>22 DEF CollectTimeouts
  <1>23. ASSUME NEW t \in Threads, NEW i \in Items, FilterTimeout(t, i) PROVE Exclusive'
    BY <1>23 DEF FilterTimeout
  <1>24. ASSUME NEW t \in Threads, UnlockTime(t) PROVE Exclusive'
    BY <1>24 DEF UnlockTime
  <1>25. ASSUME NEW t \in Threads, PushBatch(t) PROVE Exclusive'
    <2>1. batch \in Seq(Items \cup {Nullptr})
      OBVIOUS
    <2>2. /\ taskQueue' \in Seq(Items \cup {Nullptr})
          /\ SetOf(taskQueue') = SetOf(taskQueue) \cup SetOf(batch)
          /\ NoRepeat(taskQueue) /\ NoRepeat(batch) /\ SetOf(taskQueue) \cap SetOf(batch) = {}
                => NoRepeat(taskQueue')
      BY <1>25, <2>1, ConcatSet DEF PushBatch
    <2>3. SetOf(batch) \subseteq Items /\ SetOf(batch') = {} /\ NoRepeat(batch')
      BY <1>25, EmptySet DEF PushBatch, SetOf
    <2> QED
      BY <1>25, <2>2, <2>3 DEF PushBatch, Places, Apart, Woken, OneToken, IsReactor,
           ReactorSection
  <1>26. ASSUME NEW t \in Threads, Reap(t) PROVE Exclusive'
    BY <1>26 DEF Reap
  <1>27. ASSUME NEW t \in Threads, PushToken(t) PROVE Exclusive'
    <2>1. /\ taskQueue' \in Seq(Items \cup {Nullptr})
          /\ SetOf(taskQueue') = SetOf(taskQueue) \cup {Nullptr}
          /\ NoRepeat(taskQueue) /\ Nullptr \notin SetOf(taskQueue) => NoRepeat(taskQueue')
      BY <1>27, AppendSet DEF PushToken
    <2> QED
      BY <1>27, <2>1 DEF PushToken, OneToken, IsReactor, ReactorSection
  <1>28. ASSUME Destroy PROVE Exclusive'
    BY <1>28 DEF Destroy
  <1>29. ASSUME NEW i \in Items, FdReady(i) PROVE Exclusive'
    BY <1>29 DEF FdReady
  <1>30. CASE UNCHANGED vars
    BY <1>30
  <1> QED
    BY <1>1, <1>2, <1>3, <1>4, <1>5, <1>6, <1>7, <1>8, <1>9, <1>10, <1>11, <1>12, <1>13, <1>14,
         <1>15, <1>16, <1>17, <1>18, <1>19, <1>20, <1>21, <1>22, <1>23, <1>24, <1>25, <1>26,
         <1>27, <1>28, <1>29, <1>30
       DEF Next, Run, Leave, Coroutine, Reactor

\* An item's flag and state fit the place where it is.
LEMMA PlacesStep ==
    ASSUME TypeOK, Hands, Arrays, Exclusive, Places, Apart, Linked, Buried, Registered,
         [Next]_vars
    PROVE  Places'
  <1> USE ItemsAssumption DEF TypeOK, Hands, Places, Exclusive, Resumable, Goto, Holding, Inside
  <1>1. ASSUME NEW t \in Threads, Loop(t) PROVE Places'
    BY <1>1 DEF Loop
  <1>2. ASSUME NEW t \in Threads, Sleep(t) PROVE Places'
    BY <1>2 DEF Sleep
  <1>3. ASSUME NEW t \in Threads, SpuriousWakeup(t) PROVE Places'
    BY <1>3 DEF SpuriousWakeup
  <1>4. ASSUME NEW t \in Threads, Fetch(t) PROVE Places'
    <2>1. /\ taskQueue' \in Seq(Items \cup {Nullptr})
          /\ Head(taskQueue) \in SetOf(taskQueue) /\ Head(taskQueue) \in Items \cup {Nullptr}
          /\ NoRepeat(taskQueue) => /\ SetOf(taskQueue') = SetOf(taskQueue) \ {Head(taskQueue)}
                                   /\ NoRepeat(taskQueue')
      BY <1>4, TailSet DEF Fetch
    <2> QED
      BY <1>4, <2>1 DEF Fetch
  <1>5. ASSUME NEW t \in Threads, Resume(t) PROVE Places'
    BY <1>5 DEF Resume
  <1>6. ASSUME NEW t \in Threads, Release(t) PROVE Places'
    BY <1>6 DEF Release
  <1>7. ASSUME NEW t \in Threads, Remove(t) PROVE Places'
    BY <1>7 DEF Remove
  <1>8. ASSUME NEW t \in Threads, Bury(t) PROVE Places'
    BY <1>8 DEF Bury
  <1>9. ASSUME NEW t \in Threads, Consume(t) PROVE Places'
    BY <1>9 DEF Consume
  <1>10. ASSUME NEW t \in Threads, Modify(t) PROVE Places'
    BY <1>10 DEF Modify
  <1>11. ASSUME NEW t \in Threads, NEW i \in Items, Register(t, i) PROVE Places'
    BY <1>11 DEF Register
  <1>12. ASSUME NEW t \in Threads, Enqueue(t) PROVE Places'
    <2>1. /\ taskQueue' \in Seq(Items \cup {Nullptr})
          /\ SetOf(taskQueue') = SetOf(taskQueue) \cup {making[t]}
          /\ NoRepeat(taskQueue) /\ making[t] \notin SetOf(taskQueue) => NoRepeat(taskQueue')
      BY <1>12, AppendSet DEF Enqueue
    <2> QED
      BY <1>12, <2>1 DEF Enqueue
  <1>13. ASSUME NEW t \in Threads, AskTimeout(t) PROVE Places'
    BY <1>13 DEF AskTimeout
  <1>14. ASSUME NEW t \in Threads, SetTimeout(t) PROVE Places'
    BY <1>14 DEF SetTimeout
  <1>15. ASSUME NEW t \in Threads, WaitForever(t) PROVE Places'
    BY <1>15 DEF WaitForever
  <1>16. ASSUME NEW t \in Threads, Yield(t) PROVE Places'
    BY <1>16 DEF Yield
  <1>17. ASSUME NEW t \in Threads, Finish(t) PROVE Places'
    BY <1>17 DEF Finish
  <1>18. ASSUME NEW t \in Threads, LockTime(t) PROVE Places'
    BY <1>18 DEF LockTime
  <1>19. ASSUME NEW t \in Threads, EpollWait(t) PROVE Places'
    BY <1>19 DEF EpollWait
  <1>20. ASSUME NEW t \in Threads, NEW i \in Items, FilterEvent(t, i) PROVE Places'
    <2>1. Append(batch, i) \in Seq(Items) /\ SetOf(Append(batch, i)) = SetOf(batch) \cup {i}
          /\ (NoRepeat(batch) /\ i \notin SetOf(batch) => NoRepeat(Append(batch, i)))
      BY AppendSet
    <2> QED
      BY <1>20, <2>1 DEF FilterEvent, Unlink, Busy, Registered
  <1>21. ASSUME NEW t \in Threads, EventsFiltered(t) PROVE Places'
    BY <1>21 DEF EventsFiltered
  <1>22. ASSUME NEW t \in Threads, NEW expired \in SUBSET wheel, CollectTimeouts(t, expired)
        PROVE  Places'
    BY <1>22 DEF CollectTimeouts
  <1>23. ASSUME NEW t \in Threads, NEW i \in Items, FilterTimeout(t, i) PROVE Places'
    <2>1. SetOf(Append(batch, i)) = SetOf(batch) \cup {i}
      BY AppendSet
    <2>2. ~Busy(i) => state[i] = "SUSPEND"
      BY <1>23 DEF FilterTimeout, Linked, Parking, Busy
    <2>3. batch' \in {batch, Append(batch, i)} /\ (Busy(i) => batch' = batch)
      BY <1>23 DEF FilterTimeout
    <2>4. ASSUME NEW j \in SetOf(batch') PROVE ~handling[j] /\ state[j] = "SUSPEND"
      <3>1. j \in SetOf(batch) \/ (j = i /\ ~Busy(i))
        BY ZenonT(60), <2>1, <2>3
      <3> QED
        BY <2>2, <3>1 DEF Busy
    <2> QED
      BY <1>23, <2>4 DEF FilterTimeout
  <1>24. ASSUME NEW t \in Threads, UnlockTime(t) PROVE Places'
    BY <1>24 DEF UnlockTime
  <1>25. ASSUME NEW t \in Threads, PushBatch(t) PROVE Places'
    <2>1. batch \in Seq(Items \cup {Nullptr}) /\ SetOf(batch) \subseteq Items
      BY DEF SetOf
    <2>2. SetOf(taskQueue') = SetOf(taskQueue) \cup SetOf(batch) /\ SetOf(batch') = {}
      BY <1>25, <2>1, ConcatSet, EmptySet DEF PushBatch
    <2>3. /\ \A i \in Items : handling[i] => handling'[i]
          /\ \A i \in SetOf(batch) : handling'[i]
      BY <1>25, <2>1 DEF PushBatch
    <2>4. \A s \in Threads : /\ pc'[s] \in Holding => pc[s] = pc'[s]
                             /\ cst'[s] = cst[s] /\ making'[s] = making[s]
      BY <1>25 DEF PushBatch, Woken
    <2>5. state' = state
      BY <1>25 DEF PushBatch
    <2>6. \A i \in SetOf(taskQueue') : i # Nullptr => handling'[i] /\ Resumable(i)'
      BY <2>1, <2>2, <2>3, <2>5, SetOfQueue
    <2>7. /\ \A s \in Threads : cst'[s] # Nullptr => handling'[cst'[s]]
          /\ \A s \in Threads :
                making'[s] # Nullptr => handling'[making'[s]] /\ state'[making'[s]] = "FREE"
      BY <2>3, <2>4, <2>5
    <2>8. \A s \in Threads :
             /\ pc'[s] = "resume"  => Resumable(cst[s])'
             /\ pc'[s] \in Inside  => state'[cst'[s]] = "RUNNING"
             /\ pc'[s] = "resumed" => state'[cst'[s]] \in {"SUSPEND", "DONE"}
             /\ pc'[s] = "bury"    => state'[cst'[s]] = "DONE"
      BY <2>4, <2>5
    <2> QED
      BY <2>2, <2>3, <2>5, <2>6, <2>7, <2>8
  <1>26. ASSUME NEW t \in Threads, Reap(t) PROVE Places'
    BY <1>26 DEF Reap, Buried, SetOf
  <1>27. ASSUME NEW t \in Threads, PushToken(t) PROVE Places'
    <2>1. /\ taskQueue' \in Seq(Items \cup {Nullptr})
          /\ SetOf(taskQueue') = SetOf(taskQueue) \cup {Nullptr}
          /\ NoRepeat(taskQueue) /\ Nullptr \notin SetOf(taskQueue) => NoRepeat(taskQueue')
      BY <1>27, AppendSet DEF PushToken
    <2> QED
      BY <1>27, <2>1 DEF PushToken
  <1>28. ASSUME Destroy PROVE Places'
    BY <1>28 DEF Destroy, Buried, SetOf
  <1>29. ASSUME NEW i \in Items, FdReady(i) PROVE Places'
    BY <1>29 DEF FdReady
  <1>30. CASE UNCHANGED vars
    BY <1>30
  <1> QED
    BY <1>1, <1>2, <1>3, <1>4, <1>5, <1>6, <1>7, <1>8, <1>9, <1>10, <1>11, <1>12, <1>13, <1>14,
         <1>15, <1>16, <1>17, <1>18, <1>19, <1>20, <1>21, <1>22, <1>23, <1>24, <1>25, <1>26,
         <1>27, <1>28, <1>29, <1>30
       DEF Next, Run, Leave, Coroutine, Reactor

\* The reactor's arrays and the timing wheel do not share an item.
LEMMA ApartStep ==
    ASSUME TypeOK, Hands, OneToken, Arrays, Places, Apart, [Next]_vars
    PROVE  Apart'
  <1> USE ItemsAssumption DEF TypeOK, Hands, Arrays, Apart, Goto, Holding, Inside
  <1>1. ASSUME NEW t \in Threads, Loop(t) PROVE Apart'
    BY <1>1 DEF Loop
  <1>2. ASSUME NEW t \in Threads, Sleep(t) PROVE Apart'
    BY <1>2 DEF Sleep
  <1>3. ASSUME NEW t \in Threads, SpuriousWakeup(t) PROVE Apart'
    BY <1>3 DEF SpuriousWakeup
  <1>4. ASSUME NEW t \in Threads, Fetch(t) PROVE Apart'
    BY <1>4 DEF Fetch
  <1>5. ASSUME NEW t \in Threads, Resume(t) PROVE Apart'
    BY <1>5 DEF Resume
  <1>6. ASSUME NEW t \in Threads, Release(t) PROVE Apart'
    BY <1>6 DEF Release
  <1>7. ASSUME NEW t \in Threads, Remove(t) PROVE Apart'
    BY <1>7 DEF Remove
  <1>8. ASSUME NEW t \in Threads, Bury(t) PROVE Apart'
    BY <1>8 DEF Bury
  <1>9. ASSUME NEW t \in Threads, Consume(t) PROVE Apart'
    BY <1>9 DEF Consume
  <1>10. ASSUME NEW t \in Threads, Modify(t) PROVE Apart'
    BY <1>10 DEF Modify
  <1>11. ASSUME NEW t \in Threads, NEW i \in Items, Register(t, i) PROVE Apart'
    BY <1>11 DEF Register
  <1>12. ASSUME NEW t \in Threads, Enqueue(t) PROVE Apart'
    BY <1>12 DEF Enqueue
  <1>13. ASSUME NEW t \in Threads, AskTimeout(t) PROVE Apart'
    BY <1>13 DEF AskTimeout
  <1>14. ASSUME NEW t \in Threads, SetTimeout(t) PROVE Apart'
    BY <1>14 DEF SetTimeout, Places, TimeMutexFree, TimeSection
  <1>15. ASSUME NEW t \in Threads, WaitForever(t) PROVE Apart'
    BY <1>15 DEF WaitForever
  <1>16. ASSUME NEW t \in Threads, Yield(t) PROVE Apart'
    BY <1>16 DEF Yield
  <1>17. ASSUME NEW t \in Threads, Finish(t) PROVE Apart'
    BY <1>17 DEF Finish
  <1>18. ASSUME NEW t \in Threads, LockTime(t) PROVE Apart'
    BY <1>18 DEF LockTime
  <1>19. ASSUME NEW t \in Threads, EpollWait(t) PROVE Apart'
    BY <1>19, EmptySet DEF EpollWait, OneToken, IsReactor, ReactorSection, TimeSection
  <1>20. ASSUME NEW t \in Threads, NEW i \in Items, FilterEvent(t, i) PROVE Apart'
    <2>1. Append(batch, i) \in Seq(Items) /\ SetOf(Append(batch, i)) = SetOf(batch) \cup {i}
          /\ (NoRepeat(batch) /\ i \notin SetOf(batch) => NoRepeat(Append(batch, i)))
      BY AppendSet
    <2> QED
      BY <1>20, <2>1 DEF FilterEvent, Unlink, OneToken, IsReactor, ReactorSection, TimeSection
  <1>21. ASSUME NEW t \in Threads, EventsFiltered(t) PROVE Apart'
    BY <1>21 DEF EventsFiltered
  <1>22. ASSUME NEW t \in Threads, NEW expired \in SUBSET wheel, CollectTimeouts(t, expired)
        PROVE  Apart'
    BY <1>22, EmptySet DEF CollectTimeouts, OneToken, IsReactor, ReactorSection, TimeSection
  <1>23. ASSUME NEW t \in Threads, NEW i \in Items, FilterTimeout(t, i) PROVE Apart'
    <2>1. /\ Append(batch, i) \in Seq(Items) /\ SetOf(Append(batch, i)) = SetOf(batch) \cup {i}
          /\ (NoRepeat(batch) /\ i \notin SetOf(batch) => NoRepeat(Append(batch, i)))
      BY AppendSet
    <2>2. revents = {} /\ revents' = {}
      BY <1>23 DEF FilterTimeout, OneToken, IsReactor, ReactorSection, TimeSection
    <2>3. CASE Busy(i)
      BY <1>23, <2>2, <2>3 DEF FilterTimeout, Relink
    <2>4. CASE ~Busy(i)
      <3>1. /\ batch' = Append(batch, i) /\ i \in timenodes
            /\ timenodes' = timenodes \ {i} /\ wheel' = wheel
        BY <1>23, <2>4 DEF FilterTimeout
      <3> QED
        BY <2>1, <2>2, <3>1
    <2> QED
      BY <2>3, <2>4
  <1>24. ASSUME NEW t \in Threads, UnlockTime(t) PROVE Apart'
    BY <1>24 DEF UnlockTime
  <1>25. ASSUME NEW t \in Threads, PushBatch(t) PROVE Apart'
    <2>1. batch \in Seq(Items \cup {Nullptr})
      OBVIOUS
    <2>2. /\ taskQueue' \in Seq(Items \cup {Nullptr})
          /\ SetOf(taskQueue') = SetOf(taskQueue) \cup SetOf(batch)
          /\ NoRepeat(taskQueue) /\ NoRepeat(batch) /\ SetOf(taskQueue) \cap SetOf(batch) = {}
                => NoRepeat(taskQueue')
      BY <1>25, <2>1, ConcatSet DEF PushBatch
    <2>3. SetOf(batch) \subseteq Items /\ SetOf(batch') = {} /\ NoRepeat(batch')
      BY <1>25, EmptySet DEF PushBatch, SetOf
    <2> QED
      BY <1>25, <2>2, <2>3 DEF PushBatch
  <1>26. ASSUME NEW t \in Threads, Reap(t) PROVE Apart'
    BY <1>26 DEF Reap
  <1>27. ASSUME NEW t \in Threads, PushToken(t) PROVE Apart'
    BY <1>27 DEF PushToken
  <1>28. ASSUME Destroy PROVE Apart'
    BY <1>28 DEF Destroy
  <1>29. ASSUME NEW i \in Items, FdReady(i) PROVE Apart'
    BY <1>29 DEF FdReady
  <1>30. CASE UNCHANGED vars
    BY <1>30
  <1> QED
    BY <1>1, <1>2, <1>3, <1>4, <1>5, <1>6, <1>7, <1>8, <1>9, <1>10, <1>11, <1>12, <1>13, <1>14,
         <1>15, <1>16, <1>17, <1>18, <1>19, <1>20, <1>21, <1>22, <1>23, <1>24, <1>25, <1>26,
         <1>27, <1>28, <1>29, <1>30
       DEF Next, Run, Leave, Coroutine, Reactor

\* The owner of a linked timenode is parked or about to park.
LEMMA LinkedStep ==
    ASSUME TypeOK, Hands, Exclusive, Places, Apart, Linked, Buried, [Next]_vars
    PROVE  Linked'
  <1> USE ItemsAssumption DEF TypeOK, Hands, Exclusive, Places, Linked, Parking, Goto, Holding,
       Inside
  <1>1. ASSUME NEW t \in Threads, Loop(t) PROVE Linked'
    BY <1>1 DEF Loop
  <1>2. ASSUME NEW t \in Threads, Sleep(t) PROVE Linked'
    BY <1>2 DEF Sleep
  <1>3. ASSUME NEW t \in Threads, SpuriousWakeup(t) PROVE Linked'
    BY <1>3 DEF SpuriousWakeup
  <1>4. ASSUME NEW t \in Threads, Fetch(t) PROVE Linked'
    BY <1>4 DEF Fetch
  <1>5. ASSUME NEW t \in Threads, Resume(t) PROVE Linked'
    BY <1>5 DEF Resume
  <1>6. ASSUME NEW t \in Threads, Release(t) PROVE Linked'
    BY <1>6 DEF Release
  <1>7. ASSUME NEW t \in Threads, Remove(t) PROVE Linked'
    BY <1>7 DEF Remove
  <1>8. ASSUME NEW t \in Threads, Bury(t) PROVE Linked'
    BY <1>8 DEF Bury
  <1>9. ASSUME NEW t \in Threads, Consume(t) PROVE Linked'
    BY <1>9 DEF Consume
  <1>10. ASSUME NEW t \in Threads, Modify(t) PROVE Linked'
    BY <1>10 DEF Modify
  <1>11. ASSUME NEW t \in Threads, NEW i \in Items, Register(t, i) PROVE Linked'
    BY <1>11 DEF Register
  <1>12. ASSUME NEW t \in Threads, Enqueue(t) PROVE Linked'
    BY <1>12 DEF Enqueue
  <1>13. ASSUME NEW t \in Threads, AskTimeout(t) PROVE Linked'
    BY <1>13 DEF AskTimeout
  <1>14. ASSUME NEW t \in Threads, SetTimeout(t) PROVE Linked'
    BY <1>14 DEF SetTimeout
  <1>15. ASSUME NEW t \in Threads, WaitForever(t) PROVE Linked'
    BY <1>15 DEF WaitForever
  <1>16. ASSUME NEW t \in Threads, Yield(t) PROVE Linked'
    BY <1>16 DEF Yield
  <1>17. ASSUME NEW t \in Threads, Finish(t) PROVE Linked'
    BY <1>17 DEF Finish
  <1>18. ASSUME NEW t \in Threads, LockTime(t) PROVE Linked'
    BY <1>18 DEF LockTime
  <1>19. ASSUME NEW t \in Threads, EpollWait(t) PROVE Linked'
    BY <1>19 DEF EpollWait
  <1>20. ASSUME NEW t \in Threads, NEW i \in Items, FilterEvent(t, i) PROVE Linked'
    BY <1>20 DEF FilterEvent, Unlink
  <1>21. ASSUME NEW t \in Threads, EventsFiltered(t) PROVE Linked'
    BY <1>21 DEF EventsFiltered
  <1>22. ASSUME NEW t \in Threads, NEW expired \in SUBSET wheel, CollectTimeouts(t, expired)
        PROVE  Linked'
    BY <1>22 DEF CollectTimeouts
  <1>23. ASSUME NEW t \in Threads, NEW i \in Items, FilterTimeout(t, i) PROVE Linked'
    BY <1>23 DEF FilterTimeout, Relink, Busy
  <1>24. ASSUME NEW t \in Threads, UnlockTime(t) PROVE Linked'
    BY <1>24 DEF UnlockTime
  <1>25. ASSUME NEW t \in Threads, PushBatch(t) PROVE Linked'
    <2>1. /\ wheel' = wheel /\ timenodes' = timenodes /\ state' = state
          /\ \A i \in wheel \cup timenodes : handling'[i] = handling[i]
      BY <1>25 DEF PushBatch, Apart
    <2>2. \A s \in Threads : cst'[s] = cst[s] /\ (pc[s] \in {"yield", "resumed"} => pc'[s] = pc[s])
      BY <1>25 DEF PushBatch, Woken
    <2>3. \A i \in wheel \cup timenodes : Parking(i) => Parking(i)'
      BY <2>1, <2>2
    <2> QED
      BY <2>1, <2>3
  <1>26. ASSUME NEW t \in Threads, Reap(t) PROVE Linked'
    BY <1>26 DEF Reap, Buried
  <1>27. ASSUME NEW t \in Threads, PushToken(t) PROVE Linked'
    BY <1>27 DEF PushToken
  <1>28. ASSUME Destroy PROVE Linked'
    BY <1>28 DEF Destroy, Buried
  <1>29. ASSUME NEW i \in Items, FdReady(i) PROVE Linked'
    BY <1>29 DEF FdReady
  <1>30. CASE UNCHANGED vars
    BY <1>30
  <1> QED
    BY <1>1, <1>2, <1>3, <1>4, <1>5, <1>6, <1>7, <1>8, <1>9, <1>10, <1>11, <1>12, <1>13, <1>14,
         <1>15, <1>16, <1>17, <1>18, <1>19, <1>20, <1>21, <1>22, <1>23, <1>24, <1>25, <1>26,
         <1>27, <1>28, <1>29, <1>30
       DEF Next, Run, Leave, Coroutine, Reactor

\* A finished item stays out of everybody's hands.
LEMMA BuriedStep ==
    ASSUME TypeOK, Hands, Exclusive, Places, Buried, [Next]_vars
    PROVE  Buried'
  <1> USE ItemsAssumption DEF TypeOK, Hands, Exclusive, Places, Buried, Goto, Holding, Inside
  <1>1. ASSUME NEW t \in Threads, Loop(t) PROVE Buried'
    BY <1>1 DEF Loop
  <1>2. ASSUME NEW t \in Threads, Sleep(t) PROVE Buried'
    BY <1>2 DEF Sleep
  <1>3. ASSUME NEW t \in Threads, SpuriousWakeup(t) PROVE Buried'
    BY <1>3 DEF SpuriousWakeup
  <1>4. ASSUME NEW t \in Threads, Fetch(t) PROVE Buried'
    <2>1. /\ taskQueue' \in Seq(Items \cup {Nullptr})
          /\ Head(taskQueue) \in SetOf(taskQueue) /\ Head(taskQueue) \in Items \cup {Nullptr}
          /\ NoRepeat(taskQueue) => /\ SetOf(taskQueue') = SetOf(taskQueue) \ {Head(taskQueue)}
                                   /\ NoRepeat(taskQueue')
      BY <1>4, TailSet DEF Fetch
    <2> QED
      BY SMTT(40), <1>4, <2>1 DEF Fetch, Resumable
  <1>5. ASSUME NEW t \in Threads, Resume(t) PROVE Buried'
    BY <1>5 DEF Resume
  <1>6. ASSUME NEW t \in Threads, Release(t) PROVE Buried'
    BY <1>6 DEF Release
  <1>7. ASSUME NEW t \in Threads, Remove(t) PROVE Buried'
    BY <1>7 DEF Remove
  <1>8. ASSUME NEW t \in Threads, Bury(t) PROVE Buried'
    BY <1>8 DEF Bury
  <1>9. ASSUME NEW t \in Threads, Consume(t) PROVE Buried'
    BY <1>9 DEF Consume
  <1>10. ASSUME NEW t \in Threads, Modify(t) PROVE Buried'
    BY <1>10 DEF Modify
  <1>11. ASSUME NEW t \in Threads, NEW i \in Items, Register(t, i) PROVE Buried'
    BY <1>11 DEF Register
  <1>12. ASSUME NEW t \in Threads, Enqueue(t) PROVE Buried'
    BY <1>12 DEF Enqueue
  <1>13. ASSUME NEW t \in Threads, AskTimeout(t) PROVE Buried'
    BY <1>13 DEF AskTimeout
  <1>14. ASSUME NEW t \in Threads, SetTimeout(t) PROVE Buried'
    BY <1>14 DEF SetTimeout
  <1>15. ASSUME NEW t \in Threads, WaitForever(t) PROVE Buried'
    BY <1>15 DEF WaitForever
  <1>16. ASSUME NEW t \in Threads, Yield(t) PROVE Buried'
    BY <1>16 DEF Yield
  <1>17. ASSUME NEW t \in Threads, Finish(t) PROVE Buried'
    BY <1>17 DEF Finish
  <1>18. ASSUME NEW t \in Threads, LockTime(t) PROVE Buried'
    BY <1>18 DEF LockTime
  <1>19. ASSUME NEW t \in Threads, EpollWait(t) PROVE Buried'
    BY <1>19 DEF EpollWait
  <1>20. ASSUME NEW t \in Threads, NEW i \in Items, FilterEvent(t, i) PROVE Buried'
    BY <1>20 DEF FilterEvent
  <1>21. ASSUME NEW t \in Threads, EventsFiltered(t) PROVE Buried'
    BY <1>21 DEF EventsFiltered
  <1>22. ASSUME NEW t \in Threads, NEW expired \in SUBSET wheel, CollectTimeouts(t, expired)
        PROVE  Buried'
    BY <1>22 DEF CollectTimeouts
  <1>23. ASSUME NEW t \in Threads, NEW i \in Items, FilterTimeout(t, i) PROVE Buried'
    BY <1>23 DEF FilterTimeout
  <1>24. ASSUME NEW t \in Threads, UnlockTime(t) PROVE Buried'
    BY <1>24 DEF UnlockTime
  <1>25. ASSUME NEW t \in Threads, PushBatch(t) PROVE Buried'
    BY <1>25 DEF PushBatch, Woken
  <1>26. ASSUME NEW t \in Threads, Reap(t) PROVE Buried'
    BY <1>26 DEF Reap
  <1>27. ASSUME NEW t \in Threads, PushToken(t) PROVE Buried'
    BY <1>27 DEF PushToken
  <1>28. ASSUME Destroy PROVE Buried'
    BY <1>28 DEF Destroy
  <1>29. ASSUME NEW i \in Items, FdReady(i) PROVE Buried'
    BY <1>29 DEF FdReady
  <1>30. CASE UNCHANGED vars
    BY <1>30
  <1> QED
    BY <1>1, <1>2, <1>3, <1>4, <1>5, <1>6, <1>7, <1>8, <1>9, <1>10, <1>11, <1>12, <1>13, <1>14,
         <1>15, <1>16, <1>17, <1>18, <1>19, <1>20, <1>21, <1>22, <1>23, <1>24, <1>25, <1>26,
         <1>27, <1>28, <1>29, <1>30
       DEF Next, Run, Leave, Coroutine, Reactor

\* epoll and item_count_ know exactly the live items.
LEMMA RegisteredStep ==
    ASSUME TypeOK, Hands, OneToken, Arrays, Exclusive, Places, Buried, Registered, [Next]_vars
    PROVE  Registered'
  <1> USE ItemsAssumption DEF TypeOK, Hands, Exclusive, Places, Registered, Resumable, Goto,
       Holding, Inside
  <1>1. ASSUME NEW t \in Threads, Loop(t) PROVE Registered'
    BY <1>1 DEF Loop
  <1>2. ASSUME NEW t \in Threads, Sleep(t) PROVE Registered'
    BY <1>2 DEF Sleep
  <1>3. ASSUME NEW t \in Threads, SpuriousWakeup(t) PROVE Registered'
    BY <1>3 DEF SpuriousWakeup
  <1>4. ASSUME NEW t \in Threads, Fetch(t) PROVE Registered'
    <2>1. /\ taskQueue' \in Seq(Items \cup {Nullptr})
          /\ Head(taskQueue) \in SetOf(taskQueue) /\ Head(taskQueue) \in Items \cup {Nullptr}
          /\ NoRepeat(taskQueue) => /\ SetOf(taskQueue') = SetOf(taskQueue) \ {Head(taskQueue)}
                                   /\ NoRepeat(taskQueue')
      BY <1>4, TailSet DEF Fetch
    <2> QED
      BY <1>4, <2>1 DEF Fetch
  <1>5. ASSUME NEW t \in Threads, Resume(t) PROVE Registered'
    BY <1>5 DEF Resume
  <1>6. ASSUME NEW t \in Threads, Release(t) PROVE Registered'
    BY <1>6 DEF Release
  <1>7. ASSUME NEW t \in Threads, Remove(t) PROVE Registered'
    <2>1. cst[t] \in epoll /\ IsFiniteSet(epoll)
      BY <1>7, ItemsAssumption, FS_Subset DEF Remove
    <2>2. itemCount' = Cardinality(epoll')
      BY ZenonT(60), <1>7, <2>1, FS_RemoveElement, FS_CardinalityType DEF Remove
    <2> QED
      BY <1>7, <2>2 DEF Remove
  <1>8. ASSUME NEW t \in Threads, Bury(t) PROVE Registered'
    BY <1>8 DEF Bury
  <1>9. ASSUME NEW t \in Threads, Consume(t) PROVE Registered'
    BY <1>9 DEF Consume
  <1>10. ASSUME NEW t \in Threads, Modify(t) PROVE Registered'
    BY <1>10 DEF Modify
  <1>11. ASSUME NEW t \in Threads, NEW i \in Items, Register(t, i) PROVE Registered'
    <2>1. i \notin epoll /\ IsFiniteSet(epoll)
      BY <1>11, ItemsAssumption, FS_Subset DEF Register
    <2>2. itemCount' = Cardinality(epoll')
      BY <1>11, <2>1, FS_AddElement, FS_CardinalityType DEF Register, Counted
    <2> QED
      BY <1>11, <2>2 DEF Register
  <1>12. ASSUME NEW t \in Threads, Enqueue(t) PROVE Registered'
    BY <1>12 DEF Enqueue
  <1>13. ASSUME NEW t \in Threads, AskTimeout(t) PROVE Registered'
    BY <1>13 DEF AskTimeout
  <1>14. ASSUME NEW t \in Threads, SetTimeout(t) PROVE Registered'
    BY <1>14 DEF SetTimeout
  <1>15. ASSUME NEW t \in Threads, WaitForever(t) PROVE Registered'
    BY <1>15 DEF WaitForever
  <1>16. ASSUME NEW t \in Threads, Yield(t) PROVE Registered'
    BY <1>16 DEF Yield
  <1>17. ASSUME NEW t \in Threads, Finish(t) PROVE Registered'
    BY <1>17 DEF Finish
  <1>18. ASSUME NEW t \in Threads, LockTime(t) PROVE Registered'
    BY <1>18 DEF LockTime
  <1>19. ASSUME NEW t \in Threads, EpollWait(t) PROVE Registered'
    BY SMTT(40), <1>19 DEF EpollWait, StillReady
  <1>20. ASSUME NEW t \in Threads, NEW i \in Items, FilterEvent(t, i) PROVE Registered'
    BY <1>20 DEF FilterEvent
  <1>21. ASSUME NEW t \in Threads, EventsFiltered(t) PROVE Registered'
    BY <1>21 DEF EventsFiltered
  <1>22. ASSUME NEW t \in Threads, NEW expired \in SUBSET wheel, CollectTimeouts(t, expired)
        PROVE  Registered'
    BY <1>22 DEF CollectTimeouts
  <1>23. ASSUME NEW t \in Threads, NEW i \in Items, FilterTimeout(t, i) PROVE Registered'
    BY <1>23 DEF FilterTimeout
  <1>24. ASSUME NEW t \in Threads, UnlockTime(t) PROVE Registered'
    BY <1>24 DEF UnlockTime
  <1>25. ASSUME NEW t \in Threads, PushBatch(t) PROVE Registered'
    <2>1. \A s \in Threads : cst'[s] = cst[s] /\ (pc[s] = "resumed" <=> pc'[s] = "resumed")
      BY <1>25 DEF PushBatch, Woken
    <2>2. UNCHANGED <<state, epoll, itemCount, revents>>
      BY <1>25 DEF PushBatch
    <2> QED
      BY SMTT(40), <2>1, <2>2
  <1>26. ASSUME NEW t \in Threads, Reap(t) PROVE Registered'
    BY <1>26 DEF Reap, OneToken, IsReactor, ReactorSection, TimeSection, Arrays, Buried
  <1>27. ASSUME NEW t \in Threads, PushToken(t) PROVE Registered'
    BY <1>27 DEF PushToken
  <1>28. ASSUME Destroy PROVE Registered'
    BY <1>28 DEF Destroy, OneToken, IsReactor, ReactorSection, TimeSection, Arrays, Buried
  <1>29. ASSUME NEW i \in Items, FdReady(i) PROVE Registered'
    BY <1>29 DEF FdReady
  <1>30. CASE UNCHANGED vars
    BY <1>30
  <1> QED
    BY <1>1, <1>2, <1>3, <1>4, <1>5, <1>6, <1>7, <1>8, <1>9, <1>10, <1>11, <1>12, <1>13, <1>14,
         <1>15, <1>16, <1>17, <1>18, <1>19, <1>20, <1>21, <1>22, <1>23, <1>24, <1>25, <1>26,
         <1>27, <1>28, <1>29, <1>30
       DEF Next, Run, Leave, Coroutine, Reactor

\* A coroutine that runs, or is finished, waits for nothing.
LEMMA NotWaiting ==
    ASSUME TypeOK, Hands, Exclusive, Places, Linked, Covered, NEW t \in Threads,
           \/ pc[t] = "running"
           \/ pc[t] = "resumed" /\ state[cst[t]] = "DONE"
    PROVE  cst[t] \notin wheel \cup timenodes \cup timed
  BY SMTT(40) DEF TypeOK, Hands, Exclusive, Places, Linked, Parking, Covered, Holding, Inside

\* The wakeup of an item that waits with a timeout is never lost.
LEMMA CoveredStep ==
    ASSUME TypeOK, Hands, OneToken, Arrays, Exclusive, Places, Linked, Buried, Covered,
         [Next]_vars
    PROVE  Covered'
  <1> USE ItemsAssumption DEF TypeOK, Hands, Exclusive, Places, Covered, Resumable, Goto,
       Holding, Inside
  <1>1. ASSUME NEW t \in Threads, Loop(t) PROVE Covered'
    BY <1>1 DEF Loop
  <1>2. ASSUME NEW t \in Threads, Sleep(t) PROVE Covered'
    BY <1>2 DEF Sleep
  <1>3. ASSUME NEW t \in Threads, SpuriousWakeup(t) PROVE Covered'
    BY <1>3 DEF SpuriousWakeup
  <1>4. ASSUME NEW t \in Threads, Fetch(t) PROVE Covered'
    <2>1. /\ taskQueue' \in Seq(Items \cup {Nullptr})
          /\ Head(taskQueue) \in SetOf(taskQueue) /\ Head(taskQueue) \in Items \cup {Nullptr}
          /\ NoRepeat(taskQueue) => /\ SetOf(taskQueue') = SetOf(taskQueue) \ {Head(taskQueue)}
                                   /\ NoRepeat(taskQueue')
      BY <1>4, TailSet DEF Fetch
    <2> QED
      BY <1>4, <2>1 DEF Fetch
  <1>5. ASSUME NEW t \in Threads, Resume(t) PROVE Covered'
    BY <1>5 DEF Resume
  <1>6. ASSUME NEW t \in Threads, Release(t) PROVE Covered'
    BY <1>6 DEF Release
  <1>7. ASSUME NEW t \in Threads, Remove(t) PROVE Covered'
    BY <1>7, NotWaiting DEF Remove
  <1>8. ASSUME NEW t \in Threads, Bury(t) PROVE Covered'
    BY <1>8 DEF Bury
  <1>9. ASSUME NEW t \in Threads, Consume(t) PROVE Covered'
    BY <1>9, NotWaiting DEF Consume
  <1>10. ASSUME NEW t \in Threads, Modify(t) PROVE Covered'
    BY <1>10, NotWaiting DEF Modify
  <1>11. ASSUME NEW t \in Threads, NEW i \in Items, Register(t, i) PROVE Covered'
    BY <1>11 DEF Register
  <1>12. ASSUME NEW t \in Threads, Enqueue(t) PROVE Covered'
    <2>1. /\ taskQueue' \in Seq(Items \cup {Nullptr})
          /\ SetOf(taskQueue') = SetOf(taskQueue) \cup {making[t]}
          /\ NoRepeat(taskQueue) /\ making[t] \notin SetOf(taskQueue) => NoRepeat(taskQueue')
      BY <1>12, AppendSet DEF Enqueue
    <2> QED
      BY <1>12, <2>1 DEF Enqueue
  <1>13. ASSUME NEW t \in Threads, AskTimeout(t) PROVE Covered'
    BY <1>13 DEF AskTimeout
  <1>14. ASSUME NEW t \in Threads, SetTimeout(t) PROVE Covered'
    BY <1>14 DEF SetTimeout, TimeMutexFree, TimeSection, Arrays
  <1>15. ASSUME NEW t \in Threads, WaitForever(t) PROVE Covered'
    BY <1>15 DEF WaitForever
  <1>16. ASSUME NEW t \in Threads, Yield(t) PROVE Covered'
    BY <1>16 DEF Yield
  <1>17. ASSUME NEW t \in Threads, Finish(t) PROVE Covered'
    BY <1>17 DEF Finish
  <1>18. ASSUME NEW t \in Threads, LockTime(t) PROVE Covered'
    BY <1>18 DEF LockTime
  <1>19. ASSUME NEW t \in Threads, EpollWait(t) PROVE Covered'
    BY <1>19 DEF EpollWait, StillReady
  <1>20. ASSUME NEW t \in Threads, NEW i \in Items, FilterEvent(t, i) PROVE Covered'
    <2>1. Append(batch, i) \in Seq(Items) /\ SetOf(Append(batch, i)) = SetOf(batch) \cup {i}
          /\ (NoRepeat(batch) /\ i \notin SetOf(batch) => NoRepeat(Append(batch, i)))
      BY AppendSet
    <2> QED
      BY <1>20, <2>1 DEF FilterEvent, Unlink, Linked, Parking
  <1>21. ASSUME NEW t \in Threads, EventsFiltered(t) PROVE Covered'
    BY <1>21 DEF EventsFiltered
  <1>22. ASSUME NEW t \in Threads, NEW expired \in SUBSET wheel, CollectTimeouts(t, expired)
        PROVE  Covered'
    BY <1>22 DEF CollectTimeouts, OneToken, IsReactor, ReactorSection, TimeSection, Arrays
  <1>23. ASSUME NEW t \in Threads, NEW i \in Items, FilterTimeout(t, i) PROVE Covered'
    <2>1. SetOf(Append(batch, i)) = SetOf(batch) \cup {i}
      BY AppendSet
    <2>2. revents = {} /\ revents' = {}
      BY <1>23 DEF FilterTimeout, Arrays, OneToken, IsReactor, ReactorSection, TimeSection
    <2>3. CASE Busy(i)
      BY <1>23, <2>2, <2>3 DEF FilterTimeout, Relink
    <2>4. CASE ~Busy(i)
      <3>1. /\ SetOf(batch') = SetOf(batch) \cup {i} /\ timenodes' = timenodes \ {i}
            /\ UNCHANGED <<pc, cst, state, taskQueue, ready, wheel, timed>>
        BY <1>23, <2>1, <2>4 DEF FilterTimeout
      <3> QED
        BY <2>2, <3>1
    <2> QED
      BY <2>3, <2>4
  <1>24. ASSUME NEW t \in Threads, UnlockTime(t) PROVE Covered'
    BY <1>24 DEF UnlockTime
  <1>25. ASSUME NEW t \in Threads, PushBatch(t) PROVE Covered'
    <2>1. batch \in Seq(Items \cup {Nullptr})
      OBVIOUS
    <2>2. SetOf(taskQueue') = SetOf(taskQueue) \cup SetOf(batch)
      BY <1>25, <2>1, ConcatSet DEF PushBatch
    <2>3. \A s \in Threads : /\ cst'[s] = cst[s]
                             /\ pc[s] \in {"yield", "resume"} => pc'[s] = pc[s]
      BY <1>25 DEF PushBatch, Woken
    <2>4. UNCHANGED <<state, ready, wheel, timed, revents, timenodes>>
      BY <1>25 DEF PushBatch
    <2> QED
      BY SMTT(40), <2>2, <2>3, <2>4
  <1>26. ASSUME NEW t \in Threads, Reap(t) PROVE Covered'
    BY <1>26 DEF Reap, Buried
  <1>27. ASSUME NEW t \in Threads, PushToken(t) PROVE Covered'
    <2>1. /\ taskQueue' \in Seq(Items \cup {Nullptr})
          /\ SetOf(taskQueue') = SetOf(taskQueue) \cup {Nullptr}
          /\ NoRepeat(taskQueue) /\ Nullptr \notin SetOf(taskQueue) => NoRepeat(taskQueue')
      BY <1>27, AppendSet DEF PushToken
    <2> QED
      BY <1>27, <2>1 DEF PushToken
  <1>28. ASSUME Destroy PROVE Covered'
    BY <1>28 DEF Destroy, Buried
  <1>29. ASSUME NEW i \in Items, FdReady(i) PROVE Covered'
    BY <1>29 DEF FdReady
  <1>30. CASE UNCHANGED vars
    BY <1>30
  <1> QED
    BY <1>1, <1>2, <1>3, <1>4, <1>5, <1>6, <1>7, <1>8, <1>9, <1>10, <1>11, <1>12, <1>13, <1>14,
         <1>15, <1>16, <1>17, <1>18, <1>19, <1>20, <1>21, <1>22, <1>23, <1>24, <1>25, <1>26,
         <1>27, <1>28, <1>29, <1>30
       DEF Next, Run, Leave, Coroutine, Reactor

\* While there are items a thread is awake: only the one that leaves the queue empty
\* is the reactor.
LEMMA AwakeStep ==
    ASSUME TypeOK, Hands, OneToken, Registered, NotAllAsleep, [Next]_vars
    PROVE  NotAllAsleep'
  <1> USE ItemsAssumption DEF TypeOK, NotAllAsleep, Goto
  <1>1. ASSUME NEW t \in Threads, Loop(t) PROVE NotAllAsleep'
    BY <1>1 DEF Loop
  <1>2. ASSUME NEW t \in Threads, Sleep(t) PROVE NotAllAsleep'
    BY <1>2, EmptySet DEF Sleep, OneToken, IsReactor, ReactorSection, TimeSection
  <1>3. ASSUME NEW t \in Threads, SpuriousWakeup(t) PROVE NotAllAsleep'
    BY <1>3 DEF SpuriousWakeup
  <1>4. ASSUME NEW t \in Threads, Fetch(t) PROVE NotAllAsleep'
    <2>1. /\ taskQueue' \in Seq(Items \cup {Nullptr})
          /\ Head(taskQueue) \in SetOf(taskQueue) /\ Head(taskQueue) \in Items \cup {Nullptr}
          /\ NoRepeat(taskQueue) => /\ SetOf(taskQueue') = SetOf(taskQueue) \ {Head(taskQueue)}
                                   /\ NoRepeat(taskQueue')
      BY <1>4, TailSet DEF Fetch
    <2> QED
      BY <1>4, <2>1 DEF Fetch
  <1>5. ASSUME NEW t \in Threads, Resume(t) PROVE NotAllAsleep'
    BY <1>5 DEF Resume
  <1>6. ASSUME NEW t \in Threads, Release(t) PROVE NotAllAsleep'
    BY <1>6 DEF Release
  <1>7. ASSUME NEW t \in Threads, Remove(t) PROVE NotAllAsleep'
    BY <1>7 DEF Remove
  <1>8. ASSUME NEW t \in Threads, Bury(t) PROVE NotAllAsleep'
    BY <1>8 DEF Bury
  <1>9. ASSUME NEW t \in Threads, Consume(t) PROVE NotAllAsleep'
    BY <1>9 DEF Consume
  <1>10. ASSUME NEW t \in Threads, Modify(t) PROVE NotAllAsleep'
    BY <1>10 DEF Modify
  <1>11. ASSUME NEW t \in Threads, NEW i \in Items, Register(t, i) PROVE NotAllAsleep'
    BY <1>11 DEF Register, Counted
  <1>12. ASSUME NEW t \in Threads, Enqueue(t) PROVE NotAllAsleep'
    BY <1>12 DEF Enqueue
  <1>13. ASSUME NEW t \in Threads, AskTimeout(t) PROVE NotAllAsleep'
    BY <1>13 DEF AskTimeout
  <1>14. ASSUME NEW t \in Threads, SetTimeout(t) PROVE NotAllAsleep'
    BY <1>14 DEF SetTimeout
  <1>15. ASSUME NEW t \in Threads, WaitForever(t) PROVE NotAllAsleep'
    BY <1>15 DEF WaitForever
  <1>16. ASSUME NEW t \in Threads, Yield(t) PROVE NotAllAsleep'
    BY <1>16 DEF Yield
  <1>17. ASSUME NEW t \in Threads, Finish(t) PROVE NotAllAsleep'
    BY <1>17 DEF Finish
  <1>18. ASSUME NEW t \in Threads, LockTime(t) PROVE NotAllAsleep'
    BY <1>18 DEF LockTime
  <1>19. ASSUME NEW t \in Threads, EpollWait(t) PROVE NotAllAsleep'
    BY <1>19 DEF EpollWait
  <1>20. ASSUME NEW t \in Threads, NEW i \in Items, FilterEvent(t, i) PROVE NotAllAsleep'
    BY <1>20 DEF FilterEvent
  <1>21. ASSUME NEW t \in Threads, EventsFiltered(t) PROVE NotAllAsleep'
    BY <1>21 DEF EventsFiltered
  <1>22. ASSUME NEW t \in Threads, NEW expired \in SUBSET wheel, CollectTimeouts(t, expired)
        PROVE  NotAllAsleep'
    BY <1>22 DEF CollectTimeouts
  <1>23. ASSUME NEW t \in Threads, NEW i \in Items, FilterTimeout(t, i) PROVE NotAllAsleep'
    BY <1>23 DEF FilterTimeout
  <1>24. ASSUME NEW t \in Threads, UnlockTime(t) PROVE NotAllAsleep'
    BY <1>24 DEF UnlockTime
  <1>25. ASSUME NEW t \in Threads, PushBatch(t) PROVE NotAllAsleep'
    BY <1>25 DEF PushBatch, Woken
  <1>26. ASSUME NEW t \in Threads, Reap(t) PROVE NotAllAsleep'
    BY <1>26 DEF Reap
  <1>27. ASSUME NEW t \in Threads, PushToken(t) PROVE NotAllAsleep'
    BY <1>27 DEF PushToken
  <1>28. ASSUME Destroy PROVE NotAllAsleep'
    BY <1>28 DEF Destroy
  <1>29. ASSUME NEW i \in Items, FdReady(i) PROVE NotAllAsleep'
    BY <1>29 DEF FdReady
  <1>30. CASE UNCHANGED vars
    BY <1>30
  <1> QED
    BY <1>1, <1>2, <1>3, <1>4, <1>5, <1>6, <1>7, <1>8, <1>9, <1>10, <1>11, <1>12, <1>13, <1>14,
         <1>15, <1>16, <1>17, <1>18, <1>19, <1>20, <1>21, <1>22, <1>23, <1>24, <1>25, <1>26,
         <1>27, <1>28, <1>29, <1>30
       DEF Next, Run, Leave, Coroutine, Reactor

\* A thread returns only when nothing is alive, and finished items are not lost.
LEMMA EndedStep ==
    ASSUME TypeOK, Hands, Exclusive, Places, Buried, Registered, Ended, [Next]_vars
    PROVE  Ended'
  <1> USE ItemsAssumption DEF TypeOK, Hands, Exclusive, Places, Ended, Goto, Holding, Inside
  <1>1. ASSUME NEW t \in Threads, Loop(t) PROVE Ended'
    <2>1. pc'[t] = "returned" => epoll = {}
      BY <1>1, ItemsAssumption, FS_Subset, FS_EmptySet DEF Loop, Registered
    <2> QED
      BY <1>1, <2>1 DEF Loop
  <1>2. ASSUME NEW t \in Threads, Sleep(t) PROVE Ended'
    BY <1>2 DEF Sleep
  <1>3. ASSUME NEW t \in Threads, SpuriousWakeup(t) PROVE Ended'
    <2>1. \A s \in Threads : cst'[s] = cst[s] /\ (pc[s] \in {"resumed", "bury"} => pc'[s] = pc[s])
      BY <1>3 DEF SpuriousWakeup, Woken
    <2>2. (\E s \in Threads : pc'[s] = "returned") => \E s \in Threads : pc[s] = "returned"
      BY <1>3 DEF SpuriousWakeup, Woken
    <2>3. UNCHANGED <<epoll, state, doneItems>>
      BY <1>3 DEF SpuriousWakeup
    <2> QED
      BY <2>1, <2>2, <2>3
  <1>4. ASSUME NEW t \in Threads, Fetch(t) PROVE Ended'
    <2>1. /\ taskQueue' \in Seq(Items \cup {Nullptr})
          /\ Head(taskQueue) \in SetOf(taskQueue) /\ Head(taskQueue) \in Items \cup {Nullptr}
          /\ NoRepeat(taskQueue) => /\ SetOf(taskQueue') = SetOf(taskQueue) \ {Head(taskQueue)}
                                   /\ NoRepeat(taskQueue')
      BY <1>4, TailSet DEF Fetch
    <2> QED
      BY <1>4, <2>1 DEF Fetch
  <1>5. ASSUME NEW t \in Threads, Resume(t) PROVE Ended'
    BY <1>5 DEF Resume
  <1>6. ASSUME NEW t \in Threads, Release(t) PROVE Ended'
    BY <1>6 DEF Release
  <1>7. ASSUME NEW t \in Threads, Remove(t) PROVE Ended'
    BY <1>7 DEF Remove
  <1>8. ASSUME NEW t \in Threads, Bury(t) PROVE Ended'
    BY <1>8 DEF Bury
  <1>9. ASSUME NEW t \in Threads, Consume(t) PROVE Ended'
    BY <1>9 DEF Consume
  <1>10. ASSUME NEW t \in Threads, Modify(t) PROVE Ended'
    BY <1>10 DEF Modify
  <1>11. ASSUME NEW t \in Threads, NEW i \in Items, Register(t, i) PROVE Ended'
    BY <1>11 DEF Register, Registered
  <1>12. ASSUME NEW t \in Threads, Enqueue(t) PROVE Ended'
    BY <1>12 DEF Enqueue
  <1>13. ASSUME NEW t \in Threads, AskTimeout(t) PROVE Ended'
    BY <1>13 DEF AskTimeout
  <1>14. ASSUME NEW t \in Threads, SetTimeout(t) PROVE Ended'
    BY <1>14 DEF SetTimeout
  <1>15. ASSUME NEW t \in Threads, WaitForever(t) PROVE Ended'
    BY <1>15 DEF WaitForever
  <1>16. ASSUME NEW t \in Threads, Yield(t) PROVE Ended'
    BY <1>16 DEF Yield
  <1>17. ASSUME NEW t \in Threads, Finish(t) PROVE Ended'
    BY <1>17 DEF Finish
  <1>18. ASSUME NEW t \in Threads, LockTime(t) PROVE Ended'
    <2>1. \A s \in Threads : cst'[s] = cst[s] /\ (pc[s] \in {"resumed", "bury"} => pc'[s] = pc[s])
      BY <1>18 DEF LockTime, Woken
    <2>2. (\E s \in Threads : pc'[s] = "returned") => \E s \in Threads : pc[s] = "returned"
      BY <1>18 DEF LockTime, Woken
    <2>3. UNCHANGED <<epoll, state, doneItems>>
      BY <1>18 DEF LockTime
    <2> QED
      BY <2>1, <2>2, <2>3
  <1>19. ASSUME NEW t \in Threads, EpollWait(t) PROVE Ended'
    BY SMTT(40), <1>19 DEF EpollWait
  <1>20. ASSUME NEW t \in Threads, NEW i \in Items, FilterEvent(t, i) PROVE Ended'
    BY <1>20 DEF FilterEvent
  <1>21. ASSUME NEW t \in Threads, EventsFiltered(t) PROVE Ended'
    BY <1>21 DEF EventsFiltered
  <1>22. ASSUME NEW t \in Threads, NEW expired \in SUBSET wheel, CollectTimeouts(t, expired)
        PROVE  Ended'
    BY <1>22 DEF CollectTimeouts
  <1>23. ASSUME NEW t \in Threads, NEW i \in Items, FilterTimeout(t, i) PROVE Ended'
    BY <1>23 DEF FilterTimeout
  <1>24. ASSUME NEW t \in Threads, UnlockTime(t) PROVE Ended'
    BY <1>24 DEF UnlockTime
  <1>25. ASSUME NEW t \in Threads, PushBatch(t) PROVE Ended'
    <2>1. \A s \in Threads : cst'[s] = cst[s] /\ (pc[s] \in {"resumed", "bury"} => pc'[s] = pc[s])
      BY <1>25 DEF PushBatch, Woken
    <2>2. (\E s \in Threads : pc'[s] = "returned") => \E s \in Threads : pc[s] = "returned"
      BY <1>25 DEF PushBatch, Woken
    <2>3. UNCHANGED <<epoll, state, doneItems>>
      BY <1>25 DEF PushBatch
    <2> QED
      BY <2>1, <2>2, <2>3
  <1>26. ASSUME NEW t \in Threads, Reap(t) PROVE Ended'
    BY <1>26 DEF Reap
  <1>27. ASSUME NEW t \in Threads, PushToken(t) PROVE Ended'
    BY <1>27 DEF PushToken
  <1>28. ASSUME Destroy PROVE Ended'
    BY <1>28 DEF Destroy
  <1>29. ASSUME NEW i \in Items, FdReady(i) PROVE Ended'
    BY <1>29 DEF FdReady
  <1>30. CASE UNCHANGED vars
    BY <1>30
  <1> QED
    BY <1>1, <1>2, <1>3, <1>4, <1>5, <1>6, <1>7, <1>8, <1>9, <1>10, <1>11, <1>12, <1>13, <1>14,
         <1>15, <1>16, <1>17, <1>18, <1>19, <1>20, <1>21, <1>22, <1>23, <1>24, <1>25, <1>26,
         <1>27, <1>28, <1>29, <1>30
       DEF Next, Run, Leave, Coroutine, Reactor

\* The initial states satisfy the inductive invariant.
LEMMA InitInv == Init => Inv
  <1> SUFFICES ASSUME Init PROVE Inv
    OBVIOUS
  <1>1. SetOf(<<Nullptr, Listener>>) = {Nullptr, Listener} /\ NoRepeat(<<Nullptr, Listener>>)
    BY ItemsAssumption DEF SetOf, NoRepeat
  <1>2. Cardinality({Listener}) = 1
    BY FS_EmptySet, FS_AddElement, {} \cup {Listener} = {Listener}
  <1>3. TypeOK
    BY ItemsAssumption, CapacityAssumption DEF Init, TypeOK, Labels
  <1>4. OneToken /\ Hands /\ Arrays
    BY <1>1, ItemsAssumption DEF Init, OneToken, IsReactor, ReactorSection, TimeSection,
         Hands, Holding, Inside, Arrays
  <1>5. Exclusive /\ Places /\ Apart /\ Linked /\ Buried
    BY <1>1, EmptySet, ItemsAssumption
       DEF Init, Exclusive, Places, Resumable, Inside, Apart, Linked, Buried
  <1>6. Registered /\ Covered /\ Ended
    BY <1>2, ItemsAssumption DEF Init, Registered, Covered, Ended
  <1>7. NotAllAsleep
    BY ThreadsAssumption DEF Init, NotAllAsleep
  <1> QED
    BY <1>3, <1>4, <1>5, <1>6, <1>7 DEF Inv

\* Every step preserves it.
LEMMA NextInv == Inv /\ [Next]_vars => Inv'
  <1> SUFFICES ASSUME Inv, [Next]_vars PROVE Inv'
    OBVIOUS
  <1>1. TypeOK' /\ Hands' /\ OneToken' /\ Arrays'
    BY TypeStep, HandsStep, OneTokenStep, ArraysStep DEF Inv
  <1>2. Exclusive' /\ Places' /\ Apart' /\ Linked'
    BY ExclusiveStep, PlacesStep, ApartStep, LinkedStep DEF Inv
  <1>3. Buried' /\ Registered' /\ Covered'
    BY BuriedStep, RegisteredStep, CoveredStep DEF Inv
  <1>4. NotAllAsleep' /\ Ended'
    BY AwakeStep, EndedStep DEF Inv
  <1> QED
    BY <1>1, <1>2, <1>3, <1>4 DEF Inv

\* The inductive invariant holds in every reachable state of coservice.
THEOREM Invariance == Spec => []Inv
  BY InitInv, NextInv, PTL DEF Spec

\* Every variable keeps its type.
THEOREM TypeCorrect == Spec => []TypeOK
  BY Invariance, PTL DEF Inv

\* The token is never lost and never duplicated: there is one reactor at most.
THEOREM OneReactor == Spec => []OneToken
  BY Invariance, PTL DEF Inv

\* No coroutine is resumed by two threads.
THEOREM ResumedOnce == Spec => []NoDoubleResume
  <1>1. Inv => NoDoubleResume
    BY DEF Inv, NoDoubleResume, Exclusive, Places
  <1> QED
    BY <1>1, Invariance, PTL

\* A deleted coroutine is referenced by nobody.
THEOREM FreedIsUnreachable == Spec => []NoUseAfterFree
  <1>1. Inv => NoUseAfterFree
    <2> SUFFICES ASSUME Inv, NEW i \in Items, state[i] = "freed"
                 PROVE  /\ i \notin SetOf(taskQueue) \cup SetOf(batch)
                        /\ i \notin epoll \cup wheel \cup revents \cup timenodes
                        /\ \A t \in Threads : cst[t] # i /\ making[t] # i
      BY DEF NoUseAfterFree
    <2>1. i \notin SetOf(taskQueue) \cup SetOf(batch)
      BY ItemsAssumption DEF Inv, Places, Resumable
    <2>2. \A t \in Threads : cst[t] # i /\ making[t] # i
      BY ItemsAssumption DEF Inv, TypeOK, Hands, Holding, Places, Resumable
    <2>3. i \notin epoll \cup revents
      BY <2>2 DEF Inv, Registered
    <2>4. i \notin wheel \cup timenodes
      BY <2>2 DEF Inv, Linked, Parking
    <2> QED
      BY <2>1, <2>2, <2>3, <2>4
  <1> QED
    BY <1>1, Invariance, PTL

\* addTimenode never links a timenode that is linked already.
THEOREM LinkedOnce == Spec => []TimenodeIsFree
  <1>1. Inv => TimenodeIsFree
    BY ItemsAssumption
       DEF Inv, TypeOK, Hands, Holding, Inside, Exclusive, Places, Apart, Linked, Parking,
           TimenodeIsFree
  <1> QED
    BY <1>1, Invariance, PTL

\* A coroutine that waits with a timeout is never left without a wakeup.
THEOREM TimeoutIsNotLost == Spec => []TimedWaitCovered
  <1>1. Inv => TimedWaitCovered
    BY DEF Inv, Covered, TimedWaitCovered
  <1> QED
    BY <1>1, Invariance, PTL

\* The threads never all sleep while there is a coroutine.
THEOREM SomeoneIsAwake == Spec => []NotAllAsleep
  BY Invariance, PTL DEF Inv

\* run returns only when nothing is alive, and leaves nothing behind.
THEOREM ShutdownIsClean == Spec => []CleanShutdown
  <1>1. Inv => CleanShutdown
    <2> SUFFICES ASSUME Inv PROVE CleanShutdown
      OBVIOUS
    <2>1. ASSUME NEW t \in Threads, pc[t] = "returned"
          PROVE  epoll = {} /\ \A i \in Items : state[i] \in {"none", "DONE", "freed"}
      BY <2>1 DEF Inv, Ended, Registered, TypeOK
    <2>2. ASSUME \A t \in Threads : pc[t] = "returned"
          PROVE  /\ itemCount = 0 /\ epoll = {} /\ wheel = {}
                 /\ doneItems = {i \in Items : state[i] = "DONE"}
      <3>1. PICK t \in Threads : pc[t] = "returned"
        BY <2>2, ThreadsAssumption
      <3>2. epoll = {} /\ itemCount = 0
        BY <2>1, <3>1, FS_EmptySet DEF Inv, Registered
      <3>3. wheel = {}
        BY <2>1, <2>2, <3>1 DEF Inv, Linked, Parking, TypeOK
      <3>4. doneItems = {i \in Items : state[i] = "DONE"}
        BY <2>2 DEF Inv, Ended, Buried, TypeOK
      <3> QED
        BY <3>2, <3>3, <3>4
    <2> QED
      BY <2>1, <2>2 DEF CleanShutdown
  <1> QED
    BY <1>1, Invariance, PTL

\* There is one reactor or token, and somebody is awake while a coroutine is alive.
THEOREM TokenIsSafe == Spec => []TokenSafe
  <1>1. Inv => TokenSafe
    BY DEF Inv, TokenSafe
  <1> QED
    BY <1>1, Invariance, PTL

\* Items are resumed, linked and deleted once, and none is left when run returns.
THEOREM ItemsAreSafe == Spec => []ItemSafe
  <1>1. NoDoubleResume /\ NoUseAfterFree /\ TimenodeIsFree /\ CleanShutdown => ItemSafe
    BY DEF ItemSafe
  <1> QED
    BY <1>1, ResumedOnce, FreedIsUnreachable, LinkedOnce, ShutdownIsClean, PTL
-----------------------------------------------------------------------------
(***************************************************************************)
(* coservice implements the safety part of CoSched.  Resume is Dispatch,   *)
(* Release and Remove are Park and Finish, Enqueue is Spawn, PushBatch is  *)
(* Wake, Reap and Destroy are Delete, and every other step changes nothing *)
(* of what CoSched sees.                                                   *)
(***************************************************************************)
Runs(t, i) == cst[t] = i /\ pc[t] \in Inside \cup {"resumed"}

\* The thread that runs a coroutine is the only one that has it in its hands.
WorkerExact ==
    \A i \in Items : /\ \A t \in Threads : WorkerOf(i) = t <=> Runs(t, i)
                     /\ WorkerOf(i) \in Threads \cup {NoThread}

LEMMA WorkerIs == Inv => WorkerExact
  <1> SUFFICES ASSUME Inv, NEW i \in Items
               PROVE  /\ \A t \in Threads : WorkerOf(i) = t <=> Runs(t, i)
                      /\ WorkerOf(i) \in Threads \cup {NoThread}
    BY DEF WorkerExact
  <1>1. \A t, u \in Threads : Runs(t, i) /\ Runs(u, i) => t = u
    BY ItemsAssumption DEF Inv, Exclusive, Runs
  <1>2. WorkerOf(i) = IF \E t \in Threads : Runs(t, i) THEN CHOOSE t \in Threads : Runs(t, i)
                                                      ELSE NoThread
    BY Zenon DEF WorkerOf, Runs
  <1>3. CASE \E t \in Threads : Runs(t, i)
    <2>1. WorkerOf(i) \in Threads /\ Runs(WorkerOf(i), i)
      BY <1>2, <1>3, Zenon
    <2> QED
      BY <1>1, <2>1
  <1>4. CASE ~\E t \in Threads : Runs(t, i)
    BY <1>2, <1>4, ThreadsAssumption DEF NoThread
  <1> QED
    BY <1>3, <1>4

LEMMA WorkerWillBe == Inv' => WorkerExact'
  BY WorkerIs, PTL

\* What CoSched sees of a coroutine changes only with what it is computed from.
LEMMA WorkerSame ==
    ASSUME WorkerExact, WorkerExact', NEW i \in Items,
           \A t \in Threads : Runs(t, i)' <=> Runs(t, i)
    PROVE  WorkerOf(i)' = WorkerOf(i)
  BY DEF WorkerExact

LEMMA StatusSame ==
    ASSUME NEW i \in Items, WorkerOf(i)' = WorkerOf(i), state'[i] = state[i],
           handling'[i] = handling[i], Absent(i)' <=> Absent(i)
    PROVE  StatusOf(i)' = StatusOf(i)
  BY DEF StatusOf, NoThread

\* Steps that move no coroutine into or out of the hands of a thread are stutters.
LEMMA Stutters ==
    ASSUME WorkerExact, WorkerExact', UNCHANGED <<state, handling>>,
           \A i \in Items : Absent(i)' <=> Absent(i),
           \A i \in Items, t \in Threads : Runs(t, i)' <=> Runs(t, i)
    PROVE  UNCHANGED Sched!vars
  <1>1. \A i \in Items : WorkerOf(i)' = WorkerOf(i) /\ StatusOf(i)' = StatusOf(i)
    BY WorkerSame, StatusSame
  <1> QED
    BY <1>1 DEF Sched!vars

LEMMA ChangeOne ==
    ASSUME NEW i \in Items,
           \A j \in Items \ {i} : WorkerOf(j)' = WorkerOf(j) /\ StatusOf(j)' = StatusOf(j)
    PROVE  /\ [j \in Items |-> StatusOf(j)]' =
                  [[j \in Items |-> StatusOf(j)] EXCEPT ![i] = StatusOf(i)']
           /\ [j \in Items |-> WorkerOf(j)]' =
                  [[j \in Items |-> WorkerOf(j)] EXCEPT ![i] = WorkerOf(i)']
  OBVIOUS

\* At the start only the listener exists, and it is runnable.
LEMMA SchedInit == Init => Sched!Init
  <1> SUFFICES ASSUME Init PROVE Sched!Init
    OBVIOUS
  <1>1. \A i \in Items : WorkerOf(i) = NoThread
    BY InitInv, WorkerIs, ItemsAssumption DEF Init, WorkerExact, Runs
  <1>2. \A i \in Items, t \in Threads : making[t] # i
    BY ItemsAssumption DEF Init
  <1>3. \A i \in Items : StatusOf(i) = IF i = Listener THEN "runnable" ELSE "absent"
    BY <1>1, <1>2 DEF Init, StatusOf, Absent
  <1> QED
    BY <1>1, <1>3 DEF Sched!Init

\* A thread that resumes a coroutine starts to run one that was runnable.
LEMMA ResumeDispatches ==
    ASSUME Inv, WorkerExact, WorkerExact', NEW t \in Threads, NEW i \in Items, i = cst[t],
           Resume(t)
    PROVE  Sched!Dispatch(i)
  <1>1. pc[t] = "resume" /\ pc' = [pc EXCEPT ![t] = "running"] /\ cst' = cst
    BY DEF Resume, Goto
  <1>2. \A j \in Items : ~Runs(t, j)
    BY <1>1 DEF Runs, Inside
  <1>3. \A u \in Threads : ~Runs(u, i)
    BY <1>1, <1>2, ItemsAssumption DEF Runs, Inv, Exclusive
  <1>4. Runs(t, i)' /\ \A j \in Items \ {i}, u \in Threads : Runs(u, j)' <=> Runs(u, j)
    BY <1>1, <1>2 DEF Runs, Inside, Inv, TypeOK
  <1>5. WorkerOf(i) = NoThread /\ WorkerOf(i)' = t /\ \A j \in Items : WorkerOf(j) # t
    BY <1>1, <1>2, <1>3, <1>4 DEF WorkerExact
  <1>6. state[i] \in {"FREE", "SUSPEND"} /\ handling[i] /\ \A u \in Threads : making[u] # i
    BY <1>1, ItemsAssumption DEF Resume, Resumable, Inv, Places, Exclusive
  <1>7. StatusOf(i) = "runnable" /\ StatusOf(i)' = "running"
    BY <1>5, <1>6, ThreadsAssumption DEF StatusOf, Absent, NoThread
  <1>8. \A j \in Items \ {i} :
           state'[j] = state[j] /\ handling'[j] = handling[j] /\ (Absent(j)' <=> Absent(j))
    BY <1>1 DEF Resume, Absent, Inv, TypeOK
  <1>9. \A j \in Items \ {i} : WorkerOf(j)' = WorkerOf(j)
    BY <1>4, WorkerSame
  <1>10. \A j \in Items \ {i} : StatusOf(j)' = StatusOf(j)
    BY <1>8, <1>9, StatusSame
  <1>11. /\ [j \in Items |-> StatusOf(j)]' = [[j \in Items |-> StatusOf(j)] EXCEPT ![i] = "running"]
         /\ [j \in Items |-> WorkerOf(j)]' = [[j \in Items |-> WorkerOf(j)] EXCEPT ![i] = t]
    BY <1>5, <1>7, <1>9, <1>10, ChangeOne
  <1> QED
    BY <1>5, <1>7, <1>11 DEF Sched!Dispatch

\* A thread that resume() came back to gives its coroutine away, and no other one.
LEMMA HandsOff ==
    ASSUME Inv, Inv', WorkerExact, WorkerExact', NEW t \in Threads, NEW i \in Items, i = cst[t],
           pc[t] = "resumed", NEW label \in {"loop", "bury"}, Goto(t, label),
           cst' \in {cst, [cst EXCEPT ![t] = Nullptr]}, making' = making, state' = state,
           \A j \in Items \ {i} : handling'[j] = handling[j]
    PROVE  /\ StatusOf(i) = "running" /\ WorkerOf(i)' = NoThread
           /\ state[i] \in {"SUSPEND", "DONE"} /\ ~Absent(i)'
           /\ [j \in Items |-> StatusOf(j)]' =
                  [[j \in Items |-> StatusOf(j)] EXCEPT ![i] = StatusOf(i)']
           /\ [j \in Items |-> WorkerOf(j)]' =
                  [[j \in Items |-> WorkerOf(j)] EXCEPT ![i] = NoThread]
  <1>1. Runs(t, i) /\ ~Runs(t, i)' /\ \A u \in Threads : Runs(u, i) => u = t
    BY ItemsAssumption DEF Runs, Inside, Goto, Inv, TypeOK, Exclusive
  <1>2. \A u \in Threads \ {t} : pc'[u] = pc[u] /\ cst'[u] = cst[u]
    BY DEF Goto, Inv, TypeOK
  <1>3. (\A u \in Threads : ~Runs(u, i)') /\ \A j \in Items \ {i} : ~Runs(t, j) /\ ~Runs(t, j)'
    BY <1>1, <1>2, ItemsAssumption DEF Runs, Inside, Goto, Inv, TypeOK
  <1>4. \A j \in Items \ {i}, u \in Threads : Runs(u, j)' <=> Runs(u, j)
    BY <1>2, <1>3 DEF Runs
  <1>5. WorkerOf(i) = t /\ WorkerOf(i)' = NoThread
    BY <1>1, <1>3 DEF WorkerExact
  <1>6. StatusOf(i) = "running"
    BY <1>5, ThreadsAssumption DEF StatusOf, NoThread
  <1>7. state[i] \in {"SUSPEND", "DONE"} /\ \A u \in Threads : making[u] # i
    BY ItemsAssumption DEF Inv, Places, Exclusive
  <1>8. ~Absent(i)'
    BY <1>7 DEF Absent
  <1>9. \A j \in Items \ {i} :
           state'[j] = state[j] /\ handling'[j] = handling[j] /\ (Absent(j)' <=> Absent(j))
    BY DEF Absent
  <1>10. \A j \in Items \ {i} : WorkerOf(j)' = WorkerOf(j)
    BY <1>4, WorkerSame
  <1>11. \A j \in Items \ {i} : StatusOf(j)' = StatusOf(j)
    BY <1>9, <1>10, StatusSame
  <1> QED
    BY <1>5, <1>6, <1>7, <1>8, <1>10, <1>11, ChangeOne

LEMMA ReleaseParks ==
    ASSUME Inv, Inv', WorkerExact, WorkerExact', NEW t \in Threads, NEW i \in Items, i = cst[t],
           Release(t)
    PROVE  Sched!Park(i)
  <1>1. /\ pc[t] = "resumed" /\ Goto(t, "loop") /\ cst' = [cst EXCEPT ![t] = Nullptr]
        /\ making' = making /\ state' = state /\ state[i] # "DONE"
        /\ (\A j \in Items \ {i} : handling'[j] = handling[j]) /\ ~handling'[i]
    BY DEF Release, Inv, TypeOK
  <1>2. /\ StatusOf(i) = "running" /\ WorkerOf(i)' = NoThread
        /\ state[i] \in {"SUSPEND", "DONE"} /\ ~Absent(i)'
        /\ [j \in Items |-> StatusOf(j)]' =
               [[j \in Items |-> StatusOf(j)] EXCEPT ![i] = StatusOf(i)']
        /\ [j \in Items |-> WorkerOf(j)]' = [[j \in Items |-> WorkerOf(j)] EXCEPT ![i] = NoThread]
    BY <1>1, HandsOff
  <1>3. StatusOf(i)' = "parked"
    BY <1>1, <1>2 DEF StatusOf
  <1> QED
    BY <1>2, <1>3 DEF Sched!Park, Sched!Leave

LEMMA RemoveFinishes ==
    ASSUME Inv, Inv', WorkerExact, WorkerExact', NEW t \in Threads, NEW i \in Items, i = cst[t],
           Remove(t)
    PROVE  Sched!Finish(i)
  <1>1. /\ pc[t] = "resumed" /\ Goto(t, "bury") /\ cst' = cst /\ making' = making
        /\ state' = state /\ handling' = handling /\ state[i] = "DONE"
    BY DEF Remove
  <1>2. /\ StatusOf(i) = "running" /\ WorkerOf(i)' = NoThread
        /\ state[i] \in {"SUSPEND", "DONE"} /\ ~Absent(i)'
        /\ [j \in Items |-> StatusOf(j)]' =
               [[j \in Items |-> StatusOf(j)] EXCEPT ![i] = StatusOf(i)']
        /\ [j \in Items |-> WorkerOf(j)]' = [[j \in Items |-> WorkerOf(j)] EXCEPT ![i] = NoThread]
    BY <1>1, HandsOff
  <1>3. StatusOf(i)' = "finished"
    BY <1>1, <1>2 DEF StatusOf
  <1> QED
    BY <1>2, <1>3 DEF Sched!Finish, Sched!Leave

\* add() makes the coroutine that it constructed visible: the running one spawned it.
LEMMA EnqueueSpawns ==
    ASSUME Inv, Inv', WorkerExact, WorkerExact', NEW t \in Threads, NEW i \in Items,
           i = making[t], Enqueue(t)
    PROVE  Sched!Spawn(i)
  <1>1. /\ pc[t] = "enqueue" /\ pc' = [pc EXCEPT ![t] = "running"] /\ cst' = cst
        /\ making' = [making EXCEPT ![t] = Nullptr] /\ state' = state /\ handling' = handling
    BY DEF Enqueue, Goto
  <1>2. \A j \in Items, u \in Threads : Runs(u, j)' <=> Runs(u, j)
    BY <1>1 DEF Runs, Inside, Inv, TypeOK
  <1>3. \A j \in Items : WorkerOf(j)' = WorkerOf(j)
    BY <1>2, WorkerSame
  <1>4. cst[t] \in Items /\ Runs(t, cst[t])
    BY <1>1 DEF Runs, Inside, Inv, TypeOK, Hands, Holding
  <1>5. StatusOf(cst[t]) = "running"
    BY <1>4, ThreadsAssumption DEF StatusOf, NoThread, WorkerExact
  <1>6. \A u \in Threads : ~Runs(u, i)
    BY ItemsAssumption DEF Runs, Inv, Exclusive
  <1>7. WorkerOf(i) = NoThread /\ WorkerOf(i)' = NoThread
    BY <1>3, <1>6 DEF WorkerExact
  <1>8. Absent(i) /\ ~Absent(i)' /\ state[i] = "FREE" /\ handling[i]
    BY <1>1, ItemsAssumption DEF Absent, Inv, TypeOK, Exclusive, Places
  <1>9. StatusOf(i) = "absent" /\ StatusOf(i)' = "runnable"
    BY <1>1, <1>7, <1>8 DEF StatusOf
  <1>10. \A j \in Items \ {i}, u \in Threads : making'[u] = j <=> making[u] = j
    BY <1>1, ItemsAssumption DEF Inv, TypeOK
  <1>11. \A j \in Items \ {i} :
           state'[j] = state[j] /\ handling'[j] = handling[j] /\ (Absent(j)' <=> Absent(j))
    BY <1>1, <1>10 DEF Absent
  <1>12. \A j \in Items \ {i} : StatusOf(j)' = StatusOf(j)
    BY <1>3, <1>11, StatusSame
  <1>13. /\ [j \in Items |-> StatusOf(j)]' =
                [[j \in Items |-> StatusOf(j)] EXCEPT ![i] = "runnable"]
         /\ [j \in Items |-> WorkerOf(j)]' = [j \in Items |-> WorkerOf(j)]
    BY <1>3, <1>9, <1>12, ChangeOne
  <1> QED
    BY <1>4, <1>5, <1>9, <1>13 DEF Sched!Spawn

\* A step that moves a set of coroutines from one status to another is a Move, or a stutter
\* when there is nothing to move.
LEMMA MovesSome ==
    ASSUME NEW from, NEW to, NEW S \in SUBSET Items,
           \A i \in Items : WorkerOf(i)' = WorkerOf(i),
           \A i \in S : StatusOf(i) = from /\ StatusOf(i)' = to,
           \A i \in Items \ S : StatusOf(i)' = StatusOf(i)
    PROVE  Sched!Move(from, to) \/ UNCHANGED Sched!vars
  <1>1. [i \in Items |-> WorkerOf(i)]' = [i \in Items |-> WorkerOf(i)]
    OBVIOUS
  <1>2. CASE S = {}
    BY <1>1, <1>2 DEF Sched!vars
  <1>3. CASE S # {}
    <2>1. S \in SUBSET {i \in Items : [j \in Items |-> StatusOf(j)][i] = from}
      OBVIOUS
    <2>2. [i \in Items |-> StatusOf(i)]' =
             [i \in Items |-> IF i \in S THEN to ELSE [j \in Items |-> StatusOf(j)][i]]
      OBVIOUS
    <2> QED
      BY <1>1, <1>3, <2>1, <2>2 DEF Sched!Move
  <1> QED
    BY <1>2, <1>3

\* The reactor wakes the parked coroutines of its batch.
LEMMA PushBatchWakes ==
    ASSUME Inv, Inv', WorkerExact, WorkerExact', NEW t \in Threads, PushBatch(t)
    PROVE  Sched!Wake \/ UNCHANGED Sched!vars
  <1>1. /\ pc[t] = "push" /\ cst' = cst /\ making' = making /\ state' = state
        /\ handling' = [i \in Items |-> handling[i] \/ i \in SetOf(batch)]
        /\ pc' = [s \in Threads |-> IF s = t THEN "reap" ELSE IF Woken(s) THEN "loop" ELSE pc[s]]
    BY DEF PushBatch
  <1>2. \A i \in Items, u \in Threads : Runs(u, i)' <=> Runs(u, i)
    BY <1>1 DEF Runs, Inside, Woken
  <1>3. \A i \in Items : WorkerOf(i)' = WorkerOf(i)
    BY <1>2, WorkerSame
  <1>4. SetOf(batch) \in SUBSET Items
    BY DEF Inv, TypeOK, SetOf
  <1>5. \A i \in Items : Absent(i)' <=> Absent(i)
    BY <1>1 DEF Absent
  <1>6. ASSUME NEW i \in SetOf(batch)
        PROVE  StatusOf(i) = "parked" /\ StatusOf(i)' = "runnable"
    <2>1. ~handling[i] /\ state[i] = "SUSPEND" /\ i \in Items
      BY <1>4 DEF Inv, Places
    <2>2. \A u \in Threads : making[u] # i /\ ~Runs(u, i)
      BY <2>1, ItemsAssumption DEF Inv, Places, Runs
    <2>3. WorkerOf(i) = NoThread /\ ~Absent(i)
      BY <2>1, <2>2 DEF WorkerExact, Absent
    <2> QED
      BY <1>1, <1>3, <1>5, <2>1, <2>3 DEF StatusOf
  <1>7. \A i \in Items \ SetOf(batch) :
           state'[i] = state[i] /\ handling'[i] = handling[i] /\ (Absent(i)' <=> Absent(i))
    BY <1>1, <1>5 DEF Inv, TypeOK
  <1>8. \A i \in Items \ SetOf(batch) : StatusOf(i)' = StatusOf(i)
    BY <1>3, <1>7, StatusSame
  <1> QED
    BY <1>3, <1>4, <1>6, <1>8, MovesSome DEF Sched!Wake

\* The reactor, or the destructor, deletes the finished coroutines.
LEMMA FreeingDeletes ==
    ASSUME Inv, Inv', WorkerExact, WorkerExact', making' = making, handling' = handling,
           cst' = cst, \A i \in Items, u \in Threads : Runs(u, i)' <=> Runs(u, i),
           state' = [i \in Items |-> IF i \in doneItems THEN "freed" ELSE state[i]]
    PROVE  Sched!Delete \/ UNCHANGED Sched!vars
  <1>1. \A i \in Items : WorkerOf(i)' = WorkerOf(i)
    BY WorkerSame
  <1>2. doneItems \in SUBSET Items
    BY DEF Inv, TypeOK
  <1>3. ASSUME NEW i \in doneItems
        PROVE  StatusOf(i) = "finished" /\ StatusOf(i)' = "deleted"
    <2>1. i \in Items /\ state[i] = "DONE" /\ state'[i] = "freed"
      BY <1>2 DEF Inv, Buried
    <2>2. \A u \in Threads : making[u] # i /\ ~Runs(u, i)
      BY <2>1, ItemsAssumption DEF Inv, Places, Buried, Runs
    <2>3. WorkerOf(i) = NoThread /\ ~Absent(i) /\ ~Absent(i)'
      BY <2>1, <2>2 DEF WorkerExact, Absent
    <2> QED
      BY <1>1, <2>1, <2>3 DEF StatusOf
  <1>4. \A i \in Items \ doneItems :
           state'[i] = state[i] /\ handling'[i] = handling[i] /\ (Absent(i)' <=> Absent(i))
    BY DEF Absent
  <1>5. \A i \in Items \ doneItems : StatusOf(i)' = StatusOf(i)
    BY <1>1, <1>4, StatusSame
  <1> QED
    BY <1>1, <1>2, <1>3, <1>5, MovesSome DEF Sched!Delete

\* A coroutine that yields or returns is run by its thread until resume() has come back.
LEMMA ParkingStutters ==
    ASSUME Inv, Inv', WorkerExact, WorkerExact', NEW t \in Threads, NEW i \in Items, i = cst[t],
           pc[t] \in Inside, Goto(t, "resumed"), cst' = cst, making' = making,
           handling' = handling, NEW s \in {"SUSPEND", "DONE"}, state' = [state EXCEPT ![i] = s]
    PROVE  UNCHANGED Sched!vars
  <1>1. \A j \in Items, u \in Threads : Runs(u, j)' <=> Runs(u, j)
    BY DEF Runs, Goto, Inside, Inv, TypeOK
  <1>2. \A j \in Items : WorkerOf(j)' = WorkerOf(j)
    BY <1>1, WorkerSame
  <1>3. WorkerOf(i) # NoThread
    BY ThreadsAssumption DEF Runs, WorkerExact, NoThread
  <1>4. StatusOf(i)' = StatusOf(i)
    BY <1>2, <1>3 DEF StatusOf, NoThread
  <1>5. \A j \in Items \ {i} :
           state'[j] = state[j] /\ handling'[j] = handling[j] /\ (Absent(j)' <=> Absent(j))
    BY DEF Absent, Inv, TypeOK
  <1>6. \A j \in Items \ {i} : StatusOf(j)' = StatusOf(j)
    BY <1>2, <1>5, StatusSame
  <1> QED
    BY <1>2, <1>4, <1>6 DEF Sched!vars

\* A coroutine under construction is not there yet.
LEMMA RegisterStutters ==
    ASSUME Inv, Inv', WorkerExact, WorkerExact', NEW t \in Threads, NEW i \in Items,
           Register(t, i)
    PROVE  UNCHANGED Sched!vars
  <1>1. /\ pc[t] = "running" /\ pc' = [pc EXCEPT ![t] = "enqueue"] /\ cst' = cst
        /\ making' = [making EXCEPT ![t] = i] /\ state[i] = "none"
        /\ state' = [state EXCEPT ![i] = "FREE"] /\ handling' = [handling EXCEPT ![i] = TRUE]
    BY DEF Register, Goto
  <1>2. \A j \in Items, u \in Threads : Runs(u, j)' <=> Runs(u, j)
    BY <1>1 DEF Runs, Inside, Inv, TypeOK
  <1>3. \A j \in Items : WorkerOf(j)' = WorkerOf(j)
    BY <1>2, WorkerSame
  <1>4. Absent(i) /\ Absent(i)'
    BY <1>1 DEF Absent, Inv, TypeOK
  <1>5. StatusOf(i)' = StatusOf(i)
    BY <1>3, <1>4 DEF StatusOf, NoThread
  <1>6. making[t] = Nullptr
    BY <1>1 DEF Inv, Hands
  <1>7. \A j \in Items \ {i}, u \in Threads : making'[u] = j <=> making[u] = j
    BY <1>1, <1>6, ItemsAssumption DEF Inv, TypeOK
  <1>8. \A j \in Items \ {i} :
           state'[j] = state[j] /\ handling'[j] = handling[j] /\ (Absent(j)' <=> Absent(j))
    BY <1>1, <1>7 DEF Absent, Inv, TypeOK
  <1>9. \A j \in Items \ {i} : StatusOf(j)' = StatusOf(j)
    BY <1>3, <1>8, StatusSame
  <1> QED
    BY <1>3, <1>5, <1>9 DEF Sched!vars

\* Every step of coservice is a step of CoSched, or leaves alone what CoSched sees.
LEMMA SchedStep ==
    ASSUME Inv, Inv', [Next]_vars
    PROVE  [Sched!Next]_Sched!vars
  <1>1. WorkerExact /\ WorkerExact'
    BY WorkerIs, WorkerWillBe
  <1>2. ASSUME making' = making, state' = state, handling' = handling,
               \A i \in Items, u \in Threads : Runs(u, i)' <=> Runs(u, i)
        PROVE  UNCHANGED Sched!vars
    <2>1. \A i \in Items : Absent(i)' <=> Absent(i)
      BY <1>2 DEF Absent
    <2> QED
      BY <1>1, <1>2, <2>1, Stutters
  <1>3. ASSUME NEW t \in Threads, Loop(t) PROVE UNCHANGED Sched!vars
    <2>1. making' = making /\ state' = state /\ handling' = handling
      BY <1>3 DEF Loop
    <2>2. \A i \in Items, u \in Threads : Runs(u, i)' <=> Runs(u, i)
      BY <1>3, ItemsAssumption DEF Loop, Goto, Runs, Inside, Inv, TypeOK
    <2> QED
      BY <1>2, <2>1, <2>2
  <1>4. ASSUME NEW t \in Threads, Sleep(t) PROVE UNCHANGED Sched!vars
    <2>1. making' = making /\ state' = state /\ handling' = handling
      BY <1>4 DEF Sleep
    <2>2. \A i \in Items, u \in Threads : Runs(u, i)' <=> Runs(u, i)
      BY <1>4, ItemsAssumption DEF Sleep, Goto, Runs, Inside, Inv, TypeOK
    <2> QED
      BY <1>2, <2>1, <2>2
  <1>5. ASSUME NEW t \in Threads, SpuriousWakeup(t) PROVE UNCHANGED Sched!vars
    <2>1. making' = making /\ state' = state /\ handling' = handling
      BY <1>5 DEF SpuriousWakeup
    <2>2. \A i \in Items, u \in Threads : Runs(u, i)' <=> Runs(u, i)
      BY <1>5, ItemsAssumption DEF SpuriousWakeup, Goto, Runs, Inside, Inv, TypeOK
    <2> QED
      BY <1>2, <2>1, <2>2
  <1>6. ASSUME NEW t \in Threads, Fetch(t) PROVE UNCHANGED Sched!vars
    <2>1. making' = making /\ state' = state /\ handling' = handling
      BY <1>6 DEF Fetch
    <2>2. \A i \in Items, u \in Threads : Runs(u, i)' <=> Runs(u, i)
      BY <1>6, ItemsAssumption DEF Fetch, Goto, Runs, Inside, Inv, TypeOK, Hands, Holding
    <2> QED
      BY <1>2, <2>1, <2>2
  <1>7. ASSUME NEW t \in Threads, Bury(t) PROVE UNCHANGED Sched!vars
    <2>1. making' = making /\ state' = state /\ handling' = handling
      BY <1>7 DEF Bury
    <2>2. \A i \in Items, u \in Threads : Runs(u, i)' <=> Runs(u, i)
      BY <1>7, ItemsAssumption DEF Bury, Goto, Runs, Inside, Inv, TypeOK
    <2> QED
      BY <1>2, <2>1, <2>2
  <1>8. ASSUME NEW t \in Threads, Consume(t) PROVE UNCHANGED Sched!vars
    <2>1. making' = making /\ state' = state /\ handling' = handling
      BY <1>8 DEF Consume
    <2>2. \A i \in Items, u \in Threads : Runs(u, i)' <=> Runs(u, i)
      BY <1>8, ItemsAssumption DEF Consume, Goto, Runs, Inside, Inv, TypeOK
    <2> QED
      BY <1>2, <2>1, <2>2
  <1>9. ASSUME NEW t \in Threads, Modify(t) PROVE UNCHANGED Sched!vars
    <2>1. making' = making /\ state' = state /\ handling' = handling
      BY <1>9 DEF Modify
    <2>2. \A i \in Items, u \in Threads : Runs(u, i)' <=> Runs(u, i)
      BY <1>9, ItemsAssumption DEF Modify, Goto, Runs, Inside, Inv, TypeOK
    <2> QED
      BY <1>2, <2>1, <2>2
  <1>10. ASSUME NEW t \in Threads, AskTimeout(t) PROVE UNCHANGED Sched!vars
    <2>1. making' = making /\ state' = state /\ handling' = handling
      BY <1>10 DEF AskTimeout
    <2>2. \A i \in Items, u \in Threads : Runs(u, i)' <=> Runs(u, i)
      BY <1>10, ItemsAssumption DEF AskTimeout, Goto, Runs, Inside, Inv, TypeOK
    <2> QED
      BY <1>2, <2>1, <2>2
  <1>11. ASSUME NEW t \in Threads, SetTimeout(t) PROVE UNCHANGED Sched!vars
    <2>1. making' = making /\ state' = state /\ handling' = handling
      BY <1>11 DEF SetTimeout
    <2>2. \A i \in Items, u \in Threads : Runs(u, i)' <=> Runs(u, i)
      BY <1>11, ItemsAssumption DEF SetTimeout, Goto, Runs, Inside, Inv, TypeOK
    <2> QED
      BY <1>2, <2>1, <2>2
  <1>12. ASSUME NEW t \in Threads, WaitForever(t) PROVE UNCHANGED Sched!vars
    <2>1. making' = making /\ state' = state /\ handling' = handling
      BY <1>12 DEF WaitForever
    <2>2. \A i \in Items, u \in Threads : Runs(u, i)' <=> Runs(u, i)
      BY <1>12, ItemsAssumption DEF WaitForever, Goto, Runs, Inside, Inv, TypeOK
    <2> QED
      BY <1>2, <2>1, <2>2
  <1>13. ASSUME NEW t \in Threads, LockTime(t) PROVE UNCHANGED Sched!vars
    <2>1. making' = making /\ state' = state /\ handling' = handling
      BY <1>13 DEF LockTime
    <2>2. \A i \in Items, u \in Threads : Runs(u, i)' <=> Runs(u, i)
      BY <1>13, ItemsAssumption DEF LockTime, Goto, Runs, Inside, Inv, TypeOK
    <2> QED
      BY <1>2, <2>1, <2>2
  <1>14. ASSUME NEW t \in Threads, EpollWait(t) PROVE UNCHANGED Sched!vars
    <2>1. making' = making /\ state' = state /\ handling' = handling
      BY <1>14 DEF EpollWait
    <2>2. \A i \in Items, u \in Threads : Runs(u, i)' <=> Runs(u, i)
      BY <1>14, ItemsAssumption DEF EpollWait, Goto, Runs, Inside, Inv, TypeOK
    <2> QED
      BY <1>2, <2>1, <2>2
  <1>15. ASSUME NEW t \in Threads, EventsFiltered(t) PROVE UNCHANGED Sched!vars
    <2>1. making' = making /\ state' = state /\ handling' = handling
      BY <1>15 DEF EventsFiltered
    <2>2. \A i \in Items, u \in Threads : Runs(u, i)' <=> Runs(u, i)
      BY <1>15, ItemsAssumption DEF EventsFiltered, Goto, Runs, Inside, Inv, TypeOK
    <2> QED
      BY <1>2, <2>1, <2>2
  <1>16. ASSUME NEW t \in Threads, UnlockTime(t) PROVE UNCHANGED Sched!vars
    <2>1. making' = making /\ state' = state /\ handling' = handling
      BY <1>16 DEF UnlockTime
    <2>2. \A i \in Items, u \in Threads : Runs(u, i)' <=> Runs(u, i)
      BY <1>16, ItemsAssumption DEF UnlockTime, Goto, Runs, Inside, Inv, TypeOK
    <2> QED
      BY <1>2, <2>1, <2>2
  <1>17. ASSUME NEW t \in Threads, PushToken(t) PROVE UNCHANGED Sched!vars
    <2>1. making' = making /\ state' = state /\ handling' = handling
      BY <1>17 DEF PushToken
    <2>2. \A i \in Items, u \in Threads : Runs(u, i)' <=> Runs(u, i)
      BY <1>17, ItemsAssumption DEF PushToken, Goto, Runs, Inside, Inv, TypeOK
    <2> QED
      BY <1>2, <2>1, <2>2
  <1>18. ASSUME NEW t \in Threads, NEW k \in Items, FilterEvent(t, k) PROVE UNCHANGED Sched!vars
    <2>1. making' = making /\ state' = state /\ handling' = handling
      BY <1>18 DEF FilterEvent
    <2>2. \A i \in Items, u \in Threads : Runs(u, i)' <=> Runs(u, i)
      BY <1>18, ItemsAssumption DEF FilterEvent, Goto, Runs, Inside, Inv, TypeOK
    <2> QED
      BY <1>2, <2>1, <2>2
  <1>19. ASSUME NEW t \in Threads, NEW k \in Items, FilterTimeout(t, k) PROVE UNCHANGED Sched!vars
    <2>1. making' = making /\ state' = state /\ handling' = handling
      BY <1>19 DEF FilterTimeout
    <2>2. \A i \in Items, u \in Threads : Runs(u, i)' <=> Runs(u, i)
      BY <1>19, ItemsAssumption DEF FilterTimeout, Goto, Runs, Inside, Inv, TypeOK
    <2> QED
      BY <1>2, <2>1, <2>2
  <1>20. ASSUME NEW t \in Threads, NEW expired \in SUBSET wheel, CollectTimeouts(t, expired) PROVE UNCHANGED Sched!vars
    <2>1. making' = making /\ state' = state /\ handling' = handling
      BY <1>20 DEF CollectTimeouts
    <2>2. \A i \in Items, u \in Threads : Runs(u, i)' <=> Runs(u, i)
      BY <1>20, ItemsAssumption DEF CollectTimeouts, Goto, Runs, Inside, Inv, TypeOK
    <2> QED
      BY <1>2, <2>1, <2>2
  <1>21. ASSUME NEW k \in Items, FdReady(k) PROVE UNCHANGED Sched!vars
    <2>1. making' = making /\ state' = state /\ handling' = handling
      BY <1>21 DEF FdReady
    <2>2. \A i \in Items, u \in Threads : Runs(u, i)' <=> Runs(u, i)
      BY <1>21 DEF FdReady, Runs
    <2> QED
      BY <1>2, <2>1, <2>2
  <1>22. ASSUME UNCHANGED vars PROVE UNCHANGED Sched!vars
    <2>1. \A i \in Items, u \in Threads : Runs(u, i)' <=> Runs(u, i)
      BY <1>22 DEF Runs
    <2> QED
      BY <1>2, <1>22, <2>1
  <1>23. ASSUME NEW t \in Threads, Resume(t) PROVE Sched!Next
    <2>1. cst[t] \in Items
      BY <1>23 DEF Resume, Inv, TypeOK, Hands, Holding, Inside
    <2> QED
      BY <1>1, <1>23, <2>1, ResumeDispatches DEF Sched!Next
  <1>24. ASSUME NEW t \in Threads, Release(t) PROVE Sched!Next
    <2>1. cst[t] \in Items
      BY <1>24 DEF Release, Inv, TypeOK, Hands, Holding, Inside
    <2> QED
      BY <1>1, <1>24, <2>1, ReleaseParks DEF Sched!Next
  <1>25. ASSUME NEW t \in Threads, Remove(t) PROVE Sched!Next
    <2>1. cst[t] \in Items
      BY <1>25 DEF Remove, Inv, TypeOK, Hands, Holding, Inside
    <2> QED
      BY <1>1, <1>25, <2>1, RemoveFinishes DEF Sched!Next
  <1>26. ASSUME NEW t \in Threads, Enqueue(t) PROVE Sched!Next
    <2>1. making[t] \in Items
      BY <1>26 DEF Enqueue, Inv, TypeOK, Hands
    <2> QED
      BY <1>1, <1>26, <2>1, EnqueueSpawns DEF Sched!Next
  <1>27. ASSUME NEW t \in Threads, NEW i \in Items, Register(t, i) PROVE UNCHANGED Sched!vars
    BY <1>1, <1>27, RegisterStutters
  <1>28. ASSUME NEW t \in Threads, Yield(t) PROVE UNCHANGED Sched!vars
    <2>1. cst[t] \in Items
      BY <1>28 DEF Yield, Inv, TypeOK, Hands, Holding, Inside
    <2>2. /\ pc[t] \in Inside /\ Goto(t, "resumed") /\ cst' = cst /\ making' = making
          /\ handling' = handling /\ state' = [state EXCEPT ![cst[t]] = "SUSPEND"]
      BY <1>28 DEF Yield, Inside
    <2> QED
      BY <1>1, <2>1, <2>2, ParkingStutters
  <1>29. ASSUME NEW t \in Threads, Finish(t) PROVE UNCHANGED Sched!vars
    <2>1. cst[t] \in Items
      BY <1>29 DEF Finish, Inv, TypeOK, Hands, Holding, Inside
    <2>2. /\ pc[t] \in Inside /\ Goto(t, "resumed") /\ cst' = cst /\ making' = making
          /\ handling' = handling /\ state' = [state EXCEPT ![cst[t]] = "DONE"]
      BY <1>29 DEF Finish, Inside
    <2> QED
      BY <1>1, <2>1, <2>2, ParkingStutters
  <1>30. ASSUME NEW t \in Threads, PushBatch(t) PROVE Sched!Next \/ UNCHANGED Sched!vars
    BY <1>1, <1>30, PushBatchWakes DEF Sched!Next
  <1>31. ASSUME NEW t \in Threads, Reap(t) PROVE Sched!Next \/ UNCHANGED Sched!vars
    <2>1. /\ making' = making /\ handling' = handling /\ cst' = cst
          /\ state' = [i \in Items |-> IF i \in doneItems THEN "freed" ELSE state[i]]
      BY <1>31 DEF Reap
    <2>2. \A i \in Items, u \in Threads : Runs(u, i)' <=> Runs(u, i)
      BY <1>31 DEF Reap, Goto, Runs, Inside, Inv, TypeOK
    <2> QED
      BY <1>1, <2>1, <2>2, FreeingDeletes DEF Sched!Next
  <1>32. ASSUME Destroy PROVE Sched!Next \/ UNCHANGED Sched!vars
    <2>1. /\ making' = making /\ handling' = handling /\ cst' = cst
          /\ state' = [i \in Items |-> IF i \in doneItems THEN "freed" ELSE state[i]]
      BY <1>32 DEF Destroy
    <2>2. \A i \in Items, u \in Threads : Runs(u, i)' <=> Runs(u, i)
      BY <1>32 DEF Destroy, Goto, Runs, Inside, Inv, TypeOK
    <2> QED
      BY <1>1, <2>1, <2>2, FreeingDeletes DEF Sched!Next
  <1> QED
    BY <1>3, <1>4, <1>5, <1>6, <1>7, <1>8, <1>9, <1>10, <1>11, <1>12, <1>13, <1>14, <1>15,
       <1>16, <1>17, <1>18, <1>19, <1>20, <1>21, <1>22, <1>23, <1>24, <1>25, <1>26, <1>27,
       <1>28, <1>29, <1>30, <1>31, <1>32
       DEF Next, Run, Coroutine, Leave, Reactor

\* coservice implements the safety part of the abstract scheduler, with any number of
\* threads and coroutines (coservice.cpp 76-269): a coroutine is run by one thread at a
\* time, a thread runs one coroutine, a parked one runs again only after it was woken, and
\* a finished one never runs again and is deleted only then.
THEOREM SchedulerImplemented == Spec => SchedSafety
  <1>1. Inv /\ Inv' /\ [Next]_vars => [Sched!Next]_Sched!vars
    BY SchedStep
  <1> QED
    BY <1>1, SchedInit, Invariance, PTL DEF Spec, SchedSafety, Sched!Safety
=============================================================================
