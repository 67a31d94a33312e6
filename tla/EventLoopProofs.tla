--------------------------- MODULE EventLoopProofs ---------------------------
(***************************************************************************)
(* Proofs about EventLoop for every number of threads, functors and        *)
(* channels.                                                               *)
(***************************************************************************)
EXTENDS EventLoop, SeqSetsProofs

USE DEF vars, loopVars, taskVars, quitVars

\* What follows the first i functors of a batch b, and then the queue q.
LEMMA RestLength ==
    ASSUME NEW b \in Seq(Tasks), NEW i \in 0..Len(b), NEW q \in Seq(Tasks)
    PROVE  /\ SubSeq(b, i + 1, Len(b)) \in Seq(Tasks)
           /\ Len(SubSeq(b, i + 1, Len(b))) = Len(b) - i
           /\ SubSeq(b, i + 1, Len(b)) \o q \in Seq(Tasks)
           /\ Len(SubSeq(b, i + 1, Len(b)) \o q) = Len(b) - i + Len(q)
  <1>1. SubSeq(b, i + 1, Len(b)) \in Seq(Tasks) /\ Len(SubSeq(b, i + 1, Len(b))) = Len(b) - i
    OBVIOUS
  <1>2. ASSUME NEW r \in Seq(Tasks) PROVE r \o q \in Seq(Tasks) /\ Len(r \o q) = Len(r) + Len(q)
    OBVIOUS
  <1> QED
    BY <1>1, <1>2

\* What is left of the batch.
LEMMA RemainingFacts ==
    ASSUME TypeOK
    PROVE  /\ Remaining \in Seq(Tasks) /\ Pending \in Seq(Tasks)
           /\ Len(Remaining) = Len(batch) - index
           /\ Len(Pending) = Len(Remaining) + Len(functors)
           /\ index = Len(batch) => Remaining = <<>> /\ Pending = functors
           /\ index < Len(batch) =>
                 /\ Remaining # <<>> /\ Head(Remaining) = batch[index + 1]
                 /\ Tail(Remaining) = SubSeq(batch, (index + 1) + 1, Len(batch))
  <1>0. batch \in Seq(Tasks) /\ index \in 0..Len(batch) /\ functors \in Seq(Tasks)
    BY DEF TypeOK
  <1>1. Remaining \in Seq(Tasks) /\ Len(Remaining) = Len(batch) - index
    BY <1>0, RestLength DEF Remaining
  <1>2. Pending \in Seq(Tasks) /\ Len(Pending) = Len(Remaining) + Len(functors)
    BY <1>0, <1>1, RestLength DEF Pending, Remaining
  <1>3. index = Len(batch) => Remaining = <<>>
    BY <1>0, RestEnds DEF Remaining
  <1>4. Remaining = <<>> => Pending = functors
    BY <1>0, ConcatEnds DEF Pending
  <1>5. ASSUME index < Len(batch)
        PROVE  /\ Remaining # <<>> /\ Head(Remaining) = batch[index + 1]
               /\ Tail(Remaining) = SubSeq(batch, (index + 1) + 1, Len(batch))
    BY <1>0, <1>5, RestStep DEF Remaining
  <1> QED
    BY <1>1, <1>2, <1>3, <1>4, <1>5

\* The same facts about the next state.
LEMMA RemainingNext ==
    ASSUME TypeOK'
    PROVE  /\ Len(Remaining') = Len(batch') - index'
           /\ Len(Pending') = Len(batch') - index' + Len(functors')
  <1>1. batch' \in Seq(Tasks) /\ index' \in 0..Len(batch') /\ functors' \in Seq(Tasks)
    BY DEF TypeOK
  <1> QED
    BY <1>1, RestLength DEF Remaining, Pending

\* The type invariant is inductive.
LEMMA TypeStep ==
    ASSUME TypeOK, Stages, [Next]_vars
    PROVE  TypeOK'
  <1> USE ChannelAssumption DEF TypeOK, Goto, After
  <1>1. ASSUME NEW c \in Callers, AskQuit(c) PROVE TypeOK'
    BY <1>1 DEF AskQuit
  <1>2. ASSUME NEW c \in Callers, NEW f \in Tasks, AddFunctor(c, f) PROVE TypeOK'
    BY <1>2 DEF AddFunctor, Push
  <1>3. ASSUME NEW c \in Callers, WakeLoop(c) PROVE TypeOK'
    BY <1>3 DEF WakeLoop, WriteEventfd
  <1>4. ASSUME NEW c \in Callers, Quit(c) PROVE TypeOK'
    BY <1>4, RemainingFacts DEF Quit, SetQuit
  <1>5. ASSUME Start PROVE TypeOK'
    BY <1>5 DEF Start
  <1>6. ASSUME Check PROVE TypeOK'
    BY <1>6 DEF Check, AfterLoop
  <1>7. ASSUME HandleWakeup PROVE TypeOK'
    BY <1>7 DEF HandleWakeup
  <1>8. ASSUME NEW ch \in Channels, HandleChannel(ch) PROVE TypeOK'
    BY <1>8 DEF HandleChannel
  <1>9. ASSUME Dispatched PROVE TypeOK'
    BY <1>9 DEF Dispatched
  <1>10. ASSUME Swap PROVE TypeOK'
    BY <1>10 DEF Swap, First, Cleared
  <1>11. ASSUME DoFunctor PROVE TypeOK'
    BY <1>11 DEF DoFunctor
  <1>12. ASSUME FunctorsDone PROVE TypeOK'
    BY <1>12 DEF FunctorsDone
  <1>13. ASSUME Return PROVE TypeOK'
    BY <1>13 DEF Return
  <1>14. ASSUME NEW ready \in SUBSET Channels, Poll(ready) PROVE TypeOK'
    BY <1>14 DEF Poll
  <1>15. ASSUME QuitInLoop PROVE TypeOK'
    BY <1>15, RemainingFacts DEF QuitInLoop, SetQuit
  <1>16. ASSUME NEW f \in Tasks, QueueInLoop(f) PROVE TypeOK'
    BY <1>16 DEF QueueInLoop, Push, WriteEventfd
  <1>17. ASSUME NEW f \in Tasks, RunInLoop(f) PROVE TypeOK'
    BY <1>17 DEF RunInLoop
  <1>18. CASE UNCHANGED vars
    BY <1>18
  <1> QED
    BY <1>1, <1>2, <1>3, <1>4, <1>5, <1>6, <1>7, <1>8, <1>9, <1>10, <1>11, <1>12, <1>13, <1>14,
         <1>15, <1>16, <1>17, <1>18
       DEF Next, Caller, Finishing, LoopStep, PollAny, UserCode

\* The stages of the loop follow each other.
LEMMA StagesStep ==
    ASSUME TypeOK, Stages, [Next]_vars
    PROVE  Stages'
  <1> USE ChannelAssumption DEF TypeOK, Stages, Goto, After
  <1>1. ASSUME NEW c \in Callers, AskQuit(c) PROVE Stages'
    BY <1>1 DEF AskQuit
  <1>2. ASSUME NEW c \in Callers, NEW f \in Tasks, AddFunctor(c, f) PROVE Stages'
    BY <1>2 DEF AddFunctor
  <1>3. ASSUME NEW c \in Callers, WakeLoop(c) PROVE Stages'
    BY <1>3 DEF WakeLoop
  <1>4. ASSUME NEW c \in Callers, Quit(c) PROVE Stages'
    BY <1>4 DEF Quit, SetQuit
  <1>5. ASSUME Start PROVE Stages'
    BY <1>5 DEF Start
  <1>6. ASSUME Check PROVE Stages'
    BY <1>6 DEF Check, AfterLoop
  <1>7. ASSUME HandleWakeup PROVE Stages'
    BY <1>7 DEF HandleWakeup
  <1>8. ASSUME NEW ch \in Channels, HandleChannel(ch) PROVE Stages'
    BY <1>8 DEF HandleChannel
  <1>9. ASSUME Dispatched PROVE Stages'
    BY <1>9 DEF Dispatched
  <1>10. ASSUME Swap PROVE Stages'
    BY <1>10 DEF Swap, First, Cleared
  <1>11. ASSUME DoFunctor PROVE Stages'
    BY <1>11 DEF DoFunctor
  <1>12. ASSUME FunctorsDone PROVE Stages'
    BY <1>12 DEF FunctorsDone
  <1>13. ASSUME Return PROVE Stages'
    BY <1>13 DEF Return
  <1>14. ASSUME NEW ready \in SUBSET Channels, Poll(ready) PROVE Stages'
    BY <1>14 DEF Poll
  <1>15. ASSUME QuitInLoop PROVE Stages'
    BY <1>15 DEF QuitInLoop, SetQuit
  <1>16. ASSUME NEW f \in Tasks, QueueInLoop(f) PROVE Stages'
    BY <1>16 DEF QueueInLoop
  <1>17. ASSUME NEW f \in Tasks, RunInLoop(f) PROVE Stages'
    BY <1>17 DEF RunInLoop
  <1>18. CASE UNCHANGED vars
    BY <1>18
  <1> QED
    BY <1>1, <1>2, <1>3, <1>4, <1>5, <1>6, <1>7, <1>8, <1>9, <1>10, <1>11, <1>12, <1>13, <1>14,
         <1>15, <1>16, <1>17, <1>18
       DEF Next, Caller, Finishing, LoopStep, PollAny, UserCode

\* Whatever the loop has to do is announced to poll.
LEMMA AnnouncedStep ==
    ASSUME TypeOK, Stages, Announced, [Next]_vars
    PROVE  Announced'
  <1> USE ChannelAssumption DEF TypeOK, Stages, Announced, Signalled, Goto, After
  <1>1. ASSUME NEW c \in Callers, AskQuit(c) PROVE Announced'
    BY <1>1 DEF AskQuit
  <1>2. ASSUME NEW c \in Callers, NEW f \in Tasks, AddFunctor(c, f) PROVE Announced'
    BY <1>2 DEF AddFunctor
  <1>3. ASSUME NEW c \in Callers, WakeLoop(c) PROVE Announced'
    BY <1>3 DEF WakeLoop, WriteEventfd
  <1>4. ASSUME NEW c \in Callers, Quit(c) PROVE Announced'
    BY <1>4 DEF Quit, SetQuit
  <1>5. ASSUME Start PROVE Announced'
    BY <1>5 DEF Start
  <1>6. ASSUME Check PROVE Announced'
    BY <1>6 DEF Check, AfterLoop
  <1>7. ASSUME HandleWakeup PROVE Announced'
    BY <1>7 DEF HandleWakeup
  <1>8. ASSUME NEW ch \in Channels, HandleChannel(ch) PROVE Announced'
    BY <1>8 DEF HandleChannel
  <1>9. ASSUME Dispatched PROVE Announced'
    BY <1>9 DEF Dispatched
  <1>10. ASSUME Swap PROVE Announced'
    BY <1>10 DEF Swap, First, Cleared
  <1>11. ASSUME DoFunctor PROVE Announced'
    BY <1>11 DEF DoFunctor
  <1>12. ASSUME FunctorsDone PROVE Announced'
    BY <1>12 DEF FunctorsDone
  <1>13. ASSUME Return PROVE Announced'
    BY <1>13 DEF Return
  <1>14. ASSUME NEW ready \in SUBSET Channels, Poll(ready) PROVE Announced'
    BY <1>14 DEF Poll
  <1>15. ASSUME QuitInLoop PROVE Announced'
    BY <1>15 DEF QuitInLoop, SetQuit
  <1>16. ASSUME NEW f \in Tasks, QueueInLoop(f) PROVE Announced'
    BY <1>16 DEF QueueInLoop, WriteEventfd
  <1>17. ASSUME NEW f \in Tasks, RunInLoop(f) PROVE Announced'
    BY <1>17 DEF RunInLoop
  <1>18. CASE UNCHANGED vars
    BY <1>18
  <1> QED
    BY <1>1, <1>2, <1>3, <1>4, <1>5, <1>6, <1>7, <1>8, <1>9, <1>10, <1>11, <1>12, <1>13, <1>14,
         <1>15, <1>16, <1>17, <1>18
       DEF Next, Caller, Finishing, LoopStep, PollAny, UserCode

\* What was queued before quit is executed before loop() returns.
LEMMA OwedStep ==
    ASSUME TypeOK, Stages, Owed, [Next]_vars
    PROVE  Owed'
  <1> USE ChannelAssumption DEF TypeOK
  <1>0. TypeOK'
    BY TypeStep
  <1>1. ASSUME NEW c \in Callers, AskQuit(c) PROVE Owed'
    <2>1. UNCHANGED <<executed, functors, batch, index>>
      BY <1>1 DEF AskQuit
    <2>2. Remaining' = Remaining /\ Pending' = Pending
      BY <2>1 DEF Remaining, Pending
    <2> QED
      BY <1>1, <2>1, <2>2, RemainingFacts DEF AskQuit, Goto, Stages, Owed
  <1>2. ASSUME NEW c \in Callers, NEW f \in Tasks, AddFunctor(c, f) PROVE Owed'
    <2>1. UNCHANGED <<executed, batch, index, owed, lpc>> /\ Len(functors') = Len(functors) + 1
      BY <1>2 DEF AddFunctor, Push
    <2>2. Remaining' = Remaining
      BY <2>1 DEF Remaining
    <2>3. Len(Pending') = Len(Pending) + 1
      BY SMTT(40), <1>0, <2>1, RemainingFacts, RemainingNext
    <2> QED
      BY <2>1, <2>2, <2>3, RemainingFacts DEF Owed
  <1>3. ASSUME NEW c \in Callers, WakeLoop(c) PROVE Owed'
    <2>1. UNCHANGED <<executed, functors, batch, index>>
      BY <1>3 DEF WakeLoop
    <2>2. Remaining' = Remaining /\ Pending' = Pending
      BY <2>1 DEF Remaining, Pending
    <2> QED
      BY <1>3, <2>1, <2>2, RemainingFacts DEF WakeLoop, Goto, Stages, Owed
  <1>4. ASSUME NEW c \in Callers, Quit(c) PROVE Owed'
    <2>1. UNCHANGED <<executed, functors, batch, index>>
      BY <1>4 DEF Quit
    <2>2. Remaining' = Remaining /\ Pending' = Pending
      BY <2>1 DEF Remaining, Pending
    <2> QED
      BY <1>4, <2>1, <2>2, RemainingFacts DEF Quit, Goto, Stages, Owed, SetQuit
  <1>5. ASSUME Start PROVE Owed'
    <2>1. UNCHANGED <<executed, functors, batch, index>>
      BY <1>5 DEF Start
    <2>2. Remaining' = Remaining /\ Pending' = Pending
      BY <2>1 DEF Remaining, Pending
    <2> QED
      BY <1>5, <2>1, <2>2, RemainingFacts DEF Start, Goto, Stages, Owed
  <1>6. ASSUME Check PROVE Owed'
    <2>1. UNCHANGED <<executed, functors, batch, index>>
      BY <1>6 DEF Check
    <2>2. Remaining' = Remaining /\ Pending' = Pending
      BY <2>1 DEF Remaining, Pending
    <2> QED
      BY <1>6, <2>1, <2>2, RemainingFacts DEF Check, Goto, Stages, Owed, AfterLoop
  <1>7. ASSUME HandleWakeup PROVE Owed'
    <2>1. UNCHANGED <<executed, functors, batch, index>>
      BY <1>7 DEF HandleWakeup
    <2>2. Remaining' = Remaining /\ Pending' = Pending
      BY <2>1 DEF Remaining, Pending
    <2> QED
      BY <1>7, <2>1, <2>2, RemainingFacts DEF HandleWakeup, Goto, Stages, Owed
  <1>8. ASSUME NEW ch \in Channels, HandleChannel(ch) PROVE Owed'
    <2>1. UNCHANGED <<executed, functors, batch, index>>
      BY <1>8 DEF HandleChannel
    <2>2. Remaining' = Remaining /\ Pending' = Pending
      BY <2>1 DEF Remaining, Pending
    <2> QED
      BY <1>8, <2>1, <2>2, RemainingFacts DEF HandleChannel, Goto, Stages, Owed
  <1>9. ASSUME Dispatched PROVE Owed'
    <2>1. UNCHANGED <<executed, functors, batch, index>>
      BY <1>9 DEF Dispatched
    <2>2. Remaining' = Remaining /\ Pending' = Pending
      BY <2>1 DEF Remaining, Pending
    <2> QED
      BY <1>9, <2>1, <2>2, RemainingFacts DEF Dispatched, Goto, Stages, Owed, After
  <1>10. ASSUME Swap PROVE Owed'
    <2>1. /\ batch' = functors /\ functors' = <<>> /\ index' = 0
          /\ UNCHANGED <<executed, owed>>
          /\ lpc' \in {"functors", "lastFunctors"} /\ index = Len(batch)
      BY <1>10 DEF Swap, First, Cleared, Goto, Stages
    <2>2. Pending = functors /\ Len(Pending') = Len(functors) /\ Len(Remaining') = Len(functors)
      BY <1>0, <2>1, RemainingFacts, RemainingNext
    <2> QED
      BY <2>1, <2>2, RemainingFacts DEF Owed
  <1>11. ASSUME DoFunctor PROVE Owed'
    <2>1. /\ UNCHANGED <<functors, batch, owed, lpc>> /\ index' = index + 1
          /\ Len(executed') = Len(executed) + 1
      BY <1>11 DEF DoFunctor
    <2>2. /\ Len(Remaining') = Len(batch) - (index + 1)
          /\ Len(Pending') = Len(batch) - (index + 1) + Len(functors)
      BY <1>0, <2>1, RemainingNext
    <2>3. Len(Remaining) = Len(batch) - index /\ Len(Pending) = Len(Remaining) + Len(functors)
      BY RemainingFacts
    <2>4. Len(Remaining') = Len(Remaining) - 1 /\ Len(Pending') = Len(Pending) - 1
      BY <2>2, <2>3
    <2> QED
      BY <2>1, <2>3, <2>4 DEF Owed
  <1>12. ASSUME FunctorsDone PROVE Owed'
    <2>1. UNCHANGED <<executed, functors, batch, index>>
      BY <1>12 DEF FunctorsDone
    <2>2. Remaining' = Remaining /\ Pending' = Pending
      BY <2>1 DEF Remaining, Pending
    <2> QED
      BY <1>12, <2>1, <2>2, RemainingFacts DEF FunctorsDone, Goto, Stages, Owed, After
  <1>13. ASSUME Return PROVE Owed'
    <2>1. UNCHANGED <<executed, functors, batch, index>>
      BY <1>13 DEF Return
    <2>2. Remaining' = Remaining /\ Pending' = Pending
      BY <2>1 DEF Remaining, Pending
    <2> QED
      BY <1>13, <2>1, <2>2, RemainingFacts DEF Return, Goto, Stages, Owed
  <1>14. ASSUME NEW ready \in SUBSET Channels, Poll(ready) PROVE Owed'
    <2>1. UNCHANGED <<executed, functors, batch, index>>
      BY <1>14 DEF Poll
    <2>2. Remaining' = Remaining /\ Pending' = Pending
      BY <2>1 DEF Remaining, Pending
    <2> QED
      BY <1>14, <2>1, <2>2, RemainingFacts DEF Poll, Goto, Stages, Owed, After
  <1>15. ASSUME QuitInLoop PROVE Owed'
    <2>1. UNCHANGED <<executed, functors, batch, index>>
      BY <1>15 DEF QuitInLoop
    <2>2. Remaining' = Remaining /\ Pending' = Pending
      BY <2>1 DEF Remaining, Pending
    <2> QED
      BY <1>15, <2>1, <2>2, RemainingFacts DEF QuitInLoop, Goto, Stages, Owed, SetQuit
  <1>16. ASSUME NEW f \in Tasks, QueueInLoop(f) PROVE Owed'
    <2>1. UNCHANGED <<executed, batch, index, owed, lpc>> /\ Len(functors') = Len(functors) + 1
      BY <1>16 DEF QueueInLoop, Push
    <2>2. Remaining' = Remaining
      BY <2>1 DEF Remaining
    <2>3. Len(Pending') = Len(Pending) + 1
      BY SMTT(40), <1>0, <2>1, RemainingFacts, RemainingNext
    <2> QED
      BY <2>1, <2>2, <2>3, RemainingFacts DEF Owed
  <1>17. ASSUME NEW f \in Tasks, RunInLoop(f) PROVE Owed'
    <2>1. UNCHANGED <<functors, batch, index, owed, lpc>> /\ Len(executed') = Len(executed) + 1
      BY <1>17 DEF RunInLoop
    <2>2. Remaining' = Remaining /\ Pending' = Pending
      BY <2>1 DEF Remaining, Pending
    <2> QED
      BY <2>1, <2>2, RemainingFacts DEF Owed
  <1>18. CASE UNCHANGED vars
    <2>1. Remaining' = Remaining /\ Pending' = Pending
      BY <1>18 DEF Remaining, Pending
    <2> QED
      BY <1>18, <2>1 DEF Owed
  <1> QED
    BY <1>1, <1>2, <1>3, <1>4, <1>5, <1>6, <1>7, <1>8, <1>9, <1>10, <1>11, <1>12, <1>13, <1>14,
         <1>15, <1>16, <1>17, <1>18
       DEF Next, Caller, Finishing, LoopStep, PollAny, UserCode

\* The initial states satisfy the inductive invariant.
LEMMA InitInv == Init => Inv
  <1> SUFFICES ASSUME Init PROVE Inv
    OBVIOUS
  <1>1. TypeOK
    <2>1. functors \in Seq(Tasks) /\ batch \in Seq(Tasks) /\ executed \in Seq(Tasks)
      BY DEF Init
    <2>2. index \in 0..Len(batch)
      BY DEF Init
    <2>3. cpc \in [Callers -> {"idle", "wakeup", "quit"}]
      BY DEF Init
    <2> QED
      BY <2>1, <2>2, <2>3 DEF Init, TypeOK
  <1>2. Owed
    BY <1>1, RemainingFacts DEF Init, Owed
  <1> QED
    BY <1>1, <1>2 DEF Init, Inv, Stages, Announced

\* Every step preserves it.
LEMMA NextInv == Inv /\ [Next]_vars => Inv'
  BY TypeStep, StagesStep, AnnouncedStep, OwedStep DEF Inv

\* The inductive invariant holds in every reachable state of the loop.
THEOREM Invariance == Spec => []Inv
  BY InitInv, NextInv, PTL DEF Spec

\* Every variable keeps its type.
THEOREM TypeCorrect == Spec => []TypeOK
  BY Invariance, PTL DEF Inv

\* The loop never sleeps in poll on a functor or a quit that nobody announces.
THEOREM WakeupIsNotLost == Spec => []NoLostWakeup
  <1>1. Inv => NoLostWakeup
    BY DEF Inv, Announced, Signalled, NoLostWakeup
  <1> QED
    BY <1>1, Invariance, PTL

\* The functors queued before quit are executed before loop() returns.
THEOREM QuitLosesNothing == Spec => []QuitDrains
  <1>1. Inv => QuitDrains
    BY DEF Inv, Owed, QuitDrains
  <1> QED
    BY <1>1, Invariance, PTL

-----------------------------------------------------------------------------
(***************************************************************************)
(* The loop implements the abstract queue.                                 *)
(***************************************************************************)
\* A functor that is queued, or run on the spot, was not handed over before.
LEMMA FreshIsUnknown == \A f : Fresh(f) <=> ~Queue!Known(f)
  BY DEF Fresh, Queue!Known

\* Every step of the loop is a step of the abstract queue or leaves it alone.
LEMMA QueueStep ==
    ASSUME Inv, [Next]_vars
    PROVE  [Queue!Next]_(Queue!vars)
  <1> USE DEF Inv, Queue!vars
  <1>0. TypeOK'
    BY TypeStep
  <1>1. ASSUME UNCHANGED <<executed, functors, batch, index>> PROVE UNCHANGED Queue!vars
    BY <1>1 DEF Pending, Remaining
  <1>2. ASSUME NEW f \in Tasks, Push(f), UNCHANGED <<executed, batch, index>>
        PROVE  Queue!Submit(f)
    <2>1. Remaining' = Remaining
      BY <1>2 DEF Remaining
    <2>2. Remaining \in Seq(Tasks) /\ functors \in Seq(Tasks)
      BY RemainingFacts DEF TypeOK
    <2>3. Pending' = Remaining \o Append(functors, f)
      BY <1>2, <2>1 DEF Push, Pending
    <2>4. Pending' = Append(Pending, f)
      BY <2>2, <2>3, ConcatEnds DEF Pending
    <2> QED
      BY <1>2, <2>4, FreshIsUnknown DEF Push, Queue!Submit
  <1>3. ASSUME NEW f \in Tasks, RunInLoop(f) PROVE Queue!RunNow(f)
    <2>1. Pending' = Pending
      BY <1>3 DEF RunInLoop, Pending, Remaining
    <2> QED
      BY <1>3, <2>1, FreshIsUnknown DEF RunInLoop, Queue!RunNow
  <1>4. ASSUME Swap PROVE UNCHANGED Queue!vars
    <2>1. batch' = functors /\ functors' = <<>> /\ index' = 0 /\ executed' = executed
      BY <1>4 DEF Swap, First, Cleared
    <2>2. Pending = functors
      BY <1>4, RemainingFacts DEF Swap, Stages
    <2>3. Pending' = SubSeq(functors, 0 + 1, Len(functors)) \o <<>>
      BY <2>1 DEF Pending, Remaining
    <2>4. Pending' = functors
      BY <2>3, RestEnds DEF TypeOK
    <2> QED
      BY <2>1, <2>2, <2>4
  <1>5. ASSUME DoFunctor PROVE Queue!Execute
    <2>1. /\ index < Len(batch) /\ index' = index + 1 /\ UNCHANGED <<batch, functors>>
          /\ executed' = Append(executed, batch[index + 1])
      BY <1>5 DEF DoFunctor
    <2>2. /\ Remaining # <<>> /\ Head(Remaining) = batch[index + 1]
          /\ Remaining' = Tail(Remaining)
      BY <2>1, RemainingFacts DEF Remaining
    <2>3. Remaining \in Seq(Tasks) /\ functors \in Seq(Tasks) /\ batch[index + 1] \in Tasks
      BY <2>1, RemainingFacts DEF TypeOK
    <2>4. /\ Pending # <<>> /\ Head(Pending) = batch[index + 1]
          /\ Pending' = Tail(Pending)
      BY SMTT(40), <2>1, <2>2, <2>3, ConcatEnds DEF Pending
    <2> QED
      BY <2>1, <2>4 DEF Queue!Execute
  <1>6. CASE \E c \in Callers : Caller(c) \/ Finishing(c)
    BY <1>1, <1>2, <1>6 DEF Caller, Finishing, AskQuit, AddFunctor, WakeLoop, Quit, Queue!Next
  <1>7. CASE Start \/ LoopStep \/ PollAny
    BY <1>1, <1>4, <1>5, <1>7 DEF Start, LoopStep, Check, HandleWakeup, HandleChannel, Dispatched,
         FunctorsDone, Return, PollAny, Poll, Queue!Next
  <1>8. CASE UserCode
    BY <1>1, <1>2, <1>3, <1>8 DEF UserCode, QuitInLoop, QueueInLoop, Queue!Next
  <1>9. CASE UNCHANGED vars
    BY <1>1, <1>9
  <1> QED
    BY <1>6, <1>7, <1>8, <1>9 DEF Next

\* Queued functors are executed at most once and in the order of queueing.
THEOREM LoopImplementsQueue == Spec => RunsTasksInOrder
  <1>1. Init => Queue!Init
    BY InitInv, RemainingFacts DEF Init, Inv, Queue!Init
  <1> QED
    BY <1>1, QueueStep, Invariance, PTL DEF Spec, RunsTasksInOrder, Queue!Spec
=============================================================================
