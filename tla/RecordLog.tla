------------------------------ MODULE RecordLog ------------------------------
(***************************************************************************)
(* What a log, or a connection, promises: the records given to it get an   *)
(* order, and what is written out grows by them byte by byte in this       *)
(* order, without a gap and without mixing records.                        *)
(***************************************************************************)
EXTENDS Naturals, Sequences, SequencesExt

CONSTANTS Records, Size

VARIABLES order,  \* the bytes of the records that were accepted
          file    \* the bytes that were written

vars == <<order, file>>

Bytes(r) == [k \in 1..Size[r] |-> <<r, k>>]

Grow == IsPrefix(file, file') /\ IsPrefix(file', order')

Accept(r) ==
    /\ \A k \in DOMAIN order : order[k][1] # r
    /\ order' = order \o Bytes(r)
    /\ Grow

Write == UNCHANGED order /\ Grow

Init == order = <<>> /\ file = <<>>

Next == Write \/ \E r \in Records : Accept(r)

Spec == Init /\ [][Next]_vars
==============================================================================
