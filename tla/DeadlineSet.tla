----------------------------- MODULE DeadlineSet -----------------------------
(***************************************************************************)
(* What a timing wheel promises: every node in it has a deadline, and as   *)
(* the clock of the wheel advances, each node is given out at exactly its  *)
(* deadline.  The clock may only jump while no node is in the wheel.       *)
(***************************************************************************)
EXTENDS Integers

CONSTANTS Nodes, Times, None

VARIABLES clock,     \* the time up to which nodes were given out
          deadline   \* the deadline of each node in the wheel, None for the others

vars == <<clock, deadline>>

Empty == \A n \in Nodes : deadline[n] = None

Init == clock = 0 /\ Empty

Jump == clock' = clock \/ (Empty /\ clock' > clock)

Add(n) ==
    /\ deadline[n] = None
    /\ Jump
    /\ \E d \in Times : d > clock' /\ deadline' = [deadline EXCEPT ![n] = d]

Remove(n) ==
    /\ deadline[n] # None
    /\ deadline' = [deadline EXCEPT ![n] = None]
    /\ UNCHANGED clock

Skip == Jump /\ UNCHANGED deadline

Advance ==
    /\ clock' = clock + 1
    /\ deadline' = [n \in Nodes |-> IF deadline[n] = clock' THEN None ELSE deadline[n]]

Next == Advance \/ Skip \/ \E n \in Nodes : Add(n) \/ Remove(n)

Spec == Init /\ [][Next]_vars
==============================================================================
