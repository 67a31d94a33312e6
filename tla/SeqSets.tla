------------------------------- MODULE SeqSets -------------------------------
(***************************************************************************)
(* Queues seen as sets: the elements of a sequence, and sequences in which *)
(* no element occurs twice.                                                *)
(***************************************************************************)
EXTENDS Naturals, Sequences

SetOf(q) == {q[k] : k \in 1..Len(q)}

NoRepeat(q) == \A j, k \in 1..Len(q) : q[j] = q[k] => j = k
==============================================================================
