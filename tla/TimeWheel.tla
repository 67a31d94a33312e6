------------------------------ MODULE TimeWheel ------------------------------
(***************************************************************************)
(* The timing wheel of the coroutine schedulers (pax/coroutine/            *)
(* timewheel.h): Wheels slots of one millisecond, each with a list of      *)
(* nodes that wait for the wheel to come round rotation_ more times.  The  *)
(* owner of a wheel holds a lock, or is a single thread; the clock goes on *)
(* while it works.  A time of day that is set back breaks the wheel: the   *)
(* model assumes that it is not.                                           *)
(*                                                                         *)
(* A list is the set of its nodes: nodes that expire in the same           *)
(* millisecond come in no particular order.                                *)
(***************************************************************************)
EXTENDS Integers, FiniteSets

CONSTANTS Nodes,     \* timenodes
          None,      \* not in a slot
          Wheels,    \* wheels_
          MaxDelay,  \* bound of the delays
          MaxTime,   \* bound of the clock
          Modulus    \* 2^64, the width of a time and of a size_t

ASSUME WheelsAssumption == Wheels \in Nat \ {0} /\ None \notin Nat
ASSUME TimeAssumption ==
    MaxDelay \in Nat /\ MaxTime \in Nat /\ Modulus \in Nat
      /\ Modulus > MaxTime + MaxDelay + 1

VARIABLES
    now,        \* getMilliSeconds()
    pc,         \* "turn" inside the loop of getTimeouts
    left,       \* the loop's counter diff
    index,      \* index_
    lastTime,   \* last_time_
    nodeCount,  \* node_count_
    slot,       \* the slot each node is linked in
    rotation,   \* rotation_ of each node
    due         \* expire_time of each node when it was added (history variable)

loopVars == <<pc, left>>
nodeVars == <<nodeCount, slot, rotation, due>>

vars == <<now, loopVars, index, lastTime, nodeVars>>

Linked == {n \in Nodes : slot[n] # None}

Init ==
    /\ now = 0
    /\ pc = "idle"
    /\ left = 0
    /\ index = 0
    /\ lastTime = 0
    /\ nodeCount = 0
    /\ slot = [n \in Nodes |-> None]
    /\ rotation = [n \in Nodes |-> 0]
    /\ due = [n \in Nodes |-> 0]
-----------------------------------------------------------------------------
\* Mutant of Base: last_time_ is refreshed although nodes are linked.
BaseNow == now

\* if (node_count_ == 0) last_time_ = now
Base == IF nodeCount = 0 THEN now ELSE lastTime

\* Mutant of Rotation: the slot of a multiple of wheels_ is not one round nearer.
RotationPlain(diff) == diff \div Wheels

\* Full rounds before the node expires.
Rotation(diff) ==
    IF diff % Wheels # 0 THEN diff \div Wheels ELSE (diff \div Wheels - 1) % Modulus

AddTimenode(n, ms) ==
    /\ pc = "idle"
    /\ slot[n] = None
    /\ LET expireTime == now + (IF ms > 0 THEN ms ELSE 1)
           diff       == (expireTime - Base) % Modulus
       IN  /\ due' = [due EXCEPT ![n] = expireTime]
           /\ rotation' = [rotation EXCEPT ![n] = Rotation(diff)]
           /\ slot' = [slot EXCEPT ![n] = (index + diff) % Wheels]
    /\ lastTime' = Base
    /\ nodeCount' = nodeCount + 1
    /\ UNCHANGED <<now, loopVars, index>>

RemoveTimenode(n) ==
    /\ pc = "idle"
    /\ slot[n] # None
    /\ slot' = [slot EXCEPT ![n] = None]
    /\ nodeCount' = nodeCount - 1
    /\ UNCHANGED <<now, loopVars, index, lastTime, rotation, due>>

\* getTimeouts reads the clock.
GetTimeouts ==
    /\ pc = "idle"
    /\ nodeCount > 0
    /\ left' = (now - lastTime) % Modulus
    /\ lastTime' = now
    /\ pc' = "turn"
    /\ UNCHANGED <<now, index, nodeVars>>

\* The body of its loop: the nodes of the next slot expire or wait one round less.
Turn ==
    /\ pc = "turn"
    /\ left > 0 /\ nodeCount > 0
    /\ left' = left - 1
    /\ index' = (index + 1) % Wheels
    /\ LET here    == {n \in Linked : slot[n] = index'}
           expired == {n \in here : rotation[n] = 0}
       IN  /\ slot' = [n \in Nodes |-> IF n \in expired THEN None ELSE slot[n]]
           /\ rotation' = [n \in Nodes |-> IF n \in here \ expired THEN rotation[n] - 1
                                                                   ELSE rotation[n]]
           /\ nodeCount' = nodeCount - Cardinality(expired)
    /\ UNCHANGED <<now, pc, lastTime, due>>

Return ==
    /\ pc = "turn"
    /\ left = 0 \/ nodeCount = 0
    /\ left' = 0
    /\ pc' = "idle"
    /\ UNCHANGED <<now, index, lastTime, nodeVars>>

\* gettimeofday: the time of day, which is assumed not to be set back.
Tick ==
    /\ now < MaxTime
    /\ now' = now + 1
    /\ UNCHANGED <<loopVars, index, lastTime, nodeVars>>

Next ==
    \/ \E n \in Nodes : RemoveTimenode(n) \/ \E ms \in 0..MaxDelay : AddTimenode(n, ms)
    \/ GetTimeouts \/ Turn \/ Return
    \/ Tick

Spec == Init /\ [][Next]_vars
-----------------------------------------------------------------------------
\* Every variable has its type, and node_count_ counts the linked nodes.
TypeOK ==
    /\ now \in 0..MaxTime
    /\ pc \in {"idle", "turn"}
    /\ left \in 0..Modulus - 1
    /\ index \in 0..Wheels - 1
    /\ lastTime \in 0..MaxTime
    /\ nodeCount = Cardinality(Linked)
    /\ slot \in [Nodes -> (0..Wheels - 1) \cup {None}]
    /\ rotation \in [Nodes -> 0..Modulus - 1]
    /\ due \in [Nodes -> 0..MaxTime + MaxDelay + 1]

\* Where the wheel is and how often it must still come round say exactly when a node
\* expires, also in the middle of getTimeouts.
Distance(n) == ((slot[n] - index - 1) % Wheels) + 1

Exact ==
    /\ TypeOK
    /\ \A n \in Linked : due[n] = lastTime - left + rotation[n] * Wheels + Distance(n)

\* The wheel gives out each node at its deadline and in the order of deadlines.
Deadlines == INSTANCE DeadlineSet WITH
    Times    <- 0..MaxTime + MaxDelay + 1,
    clock    <- lastTime - left,
    deadline <- [n \in Nodes |-> IF n \in Linked THEN due[n] ELSE None]

OnDeadline == Deadlines!Spec
==============================================================================
