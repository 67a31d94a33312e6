------------------------------ MODULE Coroutine ------------------------------
(***************************************************************************)
(* Coroutines (pax/coroutine/coroutine.cpp): the call stack of each thread *)
(* and the stack that the shared-stack coroutines of a thread run on in    *)
(* turn.  The bottom of a call stack, call_stack_[0], is the environment   *)
(* coroutine, the thread itself: it is RUNNING when nothing is above it    *)
(* and INSTACK otherwise, and appears here as the empty stack.             *)
(*                                                                         *)
(* resume and yield are one step each: two threads that resume the same    *)
(* coroutine, or one that resumes it while the other has not left it yet,  *)
(* synchronize, as coservice does with handling_.                          *)
(***************************************************************************)
EXTENDS Naturals, Sequences, FiniteSets

CONSTANTS Threads,     \* threads
          Coroutines,  \* coroutine_items
          Shared,      \* those with shared_
          Depth,       \* size of call_stack_ above the environment: 128
          None         \* the environment coroutine, and nobody's frames

CoroutineAssumption ==
    Shared \subseteq Coroutines /\ Depth \in Nat \ {0} /\ None \notin Coroutines

VARIABLES
    state,   \* state_; "NONE" for a coroutine_item that does not exist
    home,    \* the thread that made a shared coroutine: uc_stack.ss_sp
    stack,   \* call_stack_[1..index_] of each thread
    frames,  \* whose frames lie on the shared stack of each thread
    saved,   \* the frames are in stack_buff_
    refused  \* resumed by a foreign thread when suspended (history variable)

vars == <<state, home, stack, frames, saved, refused>>

\* call_stack_[index_]
Top(t) == IF stack[t] = <<>> THEN None ELSE stack[t][Len(stack[t])]

\* call_stack_[index_ - 1]
Below(t) == IF Len(stack[t]) < 2 THEN None ELSE stack[t][Len(stack[t]) - 1]

Exists(c) == state[c] # "NONE"

CoInit ==
    /\ state = [c \in Coroutines |-> "NONE"]
    /\ home = [c \in Coroutines |-> None]
    /\ stack = [t \in Threads |-> <<>>]
    /\ frames = [t \in Threads |-> None]
    /\ saved = [c \in Coroutines |-> FALSE]
    /\ refused = {}

\* makeContext gives a shared coroutine the shared stack of the thread that makes it.
MakeContext(t, c) == home' = IF c \in Shared THEN [home EXCEPT ![c] = t] ELSE home

New(t, c) ==
    /\ ~Exists(c)
    /\ state' = [state EXCEPT ![c] = "FREE"]
    /\ MakeContext(t, c)
    /\ saved' = [saved EXCEPT ![c] = FALSE]
    /\ UNCHANGED <<stack, frames, refused>>

\* assert(state_ == FREE || state_ == DONE) binds the owner.
Delete(c) ==
    /\ state[c] \in {"FREE", "DONE"}
    /\ state' = [state EXCEPT ![c] = "NONE"]
    /\ home' = [home EXCEPT ![c] = None]
    /\ UNCHANGED <<stack, frames, saved, refused>>

\* Mutant of Saves: nothing is saved for a coroutine that has a stack of its own.
SavesForShared(curr, pend, done) == curr \in Shared /\ pend \in Shared /\ ~done

\* curr->shared_ == true && curr->state_ != DONE
Saves(curr, pend, done) == curr \in Shared /\ ~done

\* swapContext: a shared coroutine starts at the top of the thread's shared stack, or finds
\* its frames there again when it is switched to.
SwapContext(t, curr, pend, done) ==
    /\ saved' = [c \in Coroutines |-> \/ c = curr /\ Saves(curr, pend, done)
                                      \/ c \notin {curr, pend} /\ saved[c]]
    /\ frames' = IF pend \notin Shared THEN frames
                 ELSE [frames EXCEPT ![t] =
                        IF state[pend] = "FREE" \/ saved[pend] THEN pend ELSE None]

SetStates(curr, s, pend) ==
    state' = [c \in Coroutines |-> IF c = curr THEN s
                                   ELSE IF c = pend THEN "RUNNING" ELSE state[c]]

\* Mutant of Foreign: a shared coroutine may be resumed by every thread.
ForeignNever(t, c) == FALSE

\* co->shared_ == true && co->ctx_.uc_stack.ss_sp != shared_stack_sp
Foreign(t, c) == c \in Shared /\ home[c] # t

Resumable(t, c) == Len(stack[t]) < Depth /\ state[c] \in {"FREE", "SUSPEND"}

Resume(t, c) ==
    /\ Resumable(t, c) /\ ~Foreign(t, c)
    /\ SetStates(Top(t), "INSTACK", c)
    /\ stack' = [stack EXCEPT ![t] = Append(@, c)]
    /\ SwapContext(t, Top(t), c, FALSE)
    /\ UNCHANGED <<home, refused>>

\* resume throws std::logic_error; the state of a suspended coroutine is changed before the
\* thread is looked at.
Refuse(t, c) ==
    /\ Exists(c)
    /\ ~Resumable(t, c) \/ Foreign(t, c)
    /\ IF Resumable(t, c) /\ state[c] = "SUSPEND"
       THEN state' = [state EXCEPT ![c] = "RUNNING"] /\ refused' = refused \cup {c}
       ELSE UNCHANGED <<state, refused>>
    /\ UNCHANGED <<home, stack, frames, saved>>

\* Mutant of LastState: the catch block of resumeFunc does not restore the state.
LastStateRunning(c) == "RUNNING"

\* last_state
LastState(c) == state[c]

\* There is no memory for the frames of the coroutine that calls resume: std::bad_alloc, and
\* everything is as before.
ResumeFails(t, c) ==
    /\ Resumable(t, c) /\ ~Foreign(t, c)
    /\ Top(t) \in Shared
    /\ state' = [state EXCEPT ![c] = LastState(c)]
    /\ UNCHANGED <<home, stack, frames, saved, refused>>

\* Back to the coroutine below.
Leave(t, s) ==
    /\ Top(t) # None
    /\ SetStates(Top(t), s, Below(t))
    /\ stack' = [stack EXCEPT ![t] = SubSeq(@, 1, Len(@) - 1)]
    /\ SwapContext(t, Top(t), Below(t), s = "DONE")
    /\ UNCHANGED <<home, refused>>

\* A coroutine yields; without memory for its frames it throws and goes on.
Yield(t) == Leave(t, "SUSPEND")

\* coFunc returns: coroutineFunc yields for the last time.
Finish(t) == Leave(t, "DONE")

\* Every use of the coroutines in C that a thread can make.
Use(t, C) ==
    \/ \E c \in C : New(t, c) \/ Resume(t, c) \/ Refuse(t, c) \/ ResumeFails(t, c) \/ Delete(c)
    \/ Top(t) \in C /\ (Yield(t) \/ Finish(t))

Next == \E t \in Threads : Use(t, Coroutines)

Spec == CoInit /\ [][Next]_vars
-----------------------------------------------------------------------------
Places == {p \in Threads \X (1..Depth) : p[2] <= Len(stack[p[1]])}

At(p) == stack[p[1]][p[2]]

\* The states tell where a coroutine is: what runs is the top of one call stack (or was
\* refused, which leaves it RUNNING for good), what is INSTACK lies below it, each in one
\* place only; no stack exceeds its array.
StackSafe ==
    /\ \A t \in Threads : Len(stack[t]) <= Depth
    /\ \A p, q \in Places : At(p) = At(q) => p = q
    /\ \A c \in Coroutines :
        /\ state[c] = "RUNNING" <=> c \in refused \/ \E t \in Threads : c = Top(t)
        /\ state[c] = "INSTACK" <=> \E p \in Places : At(p) = c /\ p[2] < Len(stack[p[1]])

\* A shared coroutine that runs finds its own frames on the shared stack of its thread, and
\* those of one that has started and does not run are in its buffer, of no other.
FramesSafe ==
    \A c \in Shared :
        /\ \A t \in Threads : c = Top(t) => t = home[c] /\ frames[t] = c
        /\ saved[c] <=> state[c] \in {"SUSPEND", "INSTACK"} \/ c \in refused

\* Both at once.
CoroutineSafe == StackSafe /\ FramesSafe
==============================================================================
