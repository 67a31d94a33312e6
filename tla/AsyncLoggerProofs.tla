-------------------------- MODULE AsyncLoggerProofs --------------------------
(***************************************************************************)
(* The ring of the asynchronous logger: whatever the producers that are    *)
(* ahead copy, the reader finds every published byte intact, and the file  *)
(* holds the records in the order of claiming (RecordLog).                 *)
(*                                                                         *)
(* The argument: the parts of the ring that are in use -- published and    *)
(* not yet written, or claimed -- belong to different sequence numbers,    *)
(* none of which is RingSize or more after another one, hence to different *)
(* slots.                                                                  *)
(***************************************************************************)
EXTENDS AsyncLogger, SeqSetsProofs

Byte == (Records \cup {Nobody}) \X Nat

\* The claim of p is First(p) + 1..wseq[p].
First(p) == wseq[p] - Size[record[p]]

Busy(p) == ppc[p] # "idle"

\* What a claim is: it follows what is published, and its bytes have their place in the order.
ClaimOK(p) ==
    /\ record[p] \in Records
    /\ First(p) >= writeDone
    /\ \A k \in 1..Size[record[p]] : order[First(p) + k] = <<record[p], k>>

ClaimsOK == \A p \in Producers : Busy(p) => ClaimOK(p)

\* Two claims do not overlap.
ClaimsApart == \A p, q \in Producers :
    Busy(p) /\ Busy(q) /\ p # q => wseq[p] <= First(q) \/ wseq[q] <= First(p)

\* A producer that has copied its record is not ahead of the reader by more than the ring,
\* and finds its bytes in the ring until it publishes them.
CopiesOK == \A p \in Producers : ppc[p] = "publish" =>
    /\ wseq[p] <= readDone + RingSize
    /\ \A seq \in First(p) + 1..wseq[p] : ring[Slot(seq)] = order[seq]

\* The file is the beginning of the order, as far as the reader got.
FileOK ==
    /\ order \in Seq(Byte) /\ file \in Seq(Byte)
    /\ Len(file) = IF cpc = "update" THEN seen ELSE readDone
    /\ \A k \in 1..Len(file) : file[k] = order[k]
    /\ cpc \in {"append", "update"} => readDone <= seen
    /\ \A k \in 1..Len(order) : order[k][1] \in logged

IInv == TypeOK /\ RingIntact /\ ClaimsOK /\ ClaimsApart /\ CopiesOK /\ FileOK
-----------------------------------------------------------------------------
(***************************************************************************)
(* Sequence numbers and slots.                                             *)
(***************************************************************************)
\* Every sequence number has a slot of the ring, and two of them that are less than the
\* length of the ring apart have different ones.
LEMMA SlotsApart ==
    /\ \A a \in Nat : Slot(a) \in 0..RingSize - 1
    /\ \A a, b \in Nat : a # b /\ a < b + RingSize /\ b < a + RingSize => Slot(a) # Slot(b)
  <1>1. \A a \in Nat : a % RingSize \in 0..RingSize - 1
    BY SizeAssumption
  <1>2. ASSUME NEW a \in Nat, NEW b \in Nat, a # b, a < b + RingSize, b < a + RingSize
        PROVE  a % RingSize # b % RingSize
    <2>1. CASE a < b BY <1>2, <2>1, RemaindersApart, SizeAssumption
    <2>2. CASE b < a BY <1>2, <2>2, RemaindersApart, SizeAssumption
    <2> QED BY <1>2, <2>1, <2>2
  <1> QED BY <1>1, <1>2 DEF Slot

\* The bounds of a claim.
LEMMA ClaimBounds ==
    ASSUME TypeOK, NEW p \in Producers, record[p] \in Records
    PROVE  /\ Size[record[p]] \in 1..RingSize /\ RingSize \in Nat
           /\ wseq[p] \in Nat /\ wseq[p] <= write /\ write \in Nat
           /\ First(p) \in Int /\ wseq[p] = First(p) + Size[record[p]]
  <1>1. Size[record[p]] \in 1..RingSize /\ RingSize \in Nat
    BY SizeAssumption
  <1>2. wseq[p] \in 0..write /\ write \in Nat
    BY DEF TypeOK
  <1> QED BY <1>1, <1>2 DEF First

\* No claim reaches into another one, and all of them follow what is published.
LEMMA ClaimsDiffer ==
    ASSUME IInv, NEW p \in Producers, NEW q \in Producers, p # q, Busy(p), Busy(q)
    PROVE  /\ First(p) >= writeDone
           /\ First(p) + 1..wseq[p] \subseteq Nat
           /\ \A a \in First(p) + 1..wseq[p], b \in First(q) + 1..wseq[q] : a # b
  <1>1. record[p] \in Records /\ record[q] \in Records
        /\ First(p) >= writeDone /\ First(q) >= writeDone /\ writeDone \in Nat
    BY DEF IInv, ClaimsOK, ClaimOK, TypeOK
  <1>2. First(p) \in Int /\ First(q) \in Int /\ wseq[p] \in Nat /\ wseq[q] \in Nat
    BY <1>1, ClaimBounds DEF IInv
  <1>3. wseq[p] <= First(q) \/ wseq[q] <= First(p)
    BY DEF IInv, ClaimsApart
  <1> QED BY <1>1, <1>2, <1>3
-----------------------------------------------------------------------------
(***************************************************************************)
(* Type correctness and the order of the sequence numbers.                 *)
(***************************************************************************)
LEMMA RecordBytes ==
    ASSUME NEW r \in Records
    PROVE  /\ Bytes(r) \in Seq(Byte) /\ Len(Bytes(r)) = Size[r] /\ Size[r] \in 1..RingSize
           /\ \A k \in 1..Size[r] : Bytes(r)[k] = <<r, k>>
  <1>1. Size[r] \in 1..RingSize /\ RingSize \in Nat
    BY SizeAssumption
  <1>2. \A k \in 1..Size[r] : <<r, k>> \in Byte
    BY <1>1 DEF Byte
  <1> QED BY <1>1, <1>2 DEF Bytes

\* The order of the records grows at its end only.
LEMMA OrderGrows ==
    ASSUME FileOK, TypeOK, NEW r \in Records, order' = order \o Bytes(r)
    PROVE  /\ order' \in Seq(Byte) /\ Len(order') = write + Size[r]
           /\ \A k \in 1..write : order'[k] = order[k]
           /\ \A k \in 1..Size[r] : order'[write + k] = <<r, k>>
  <1>1. order \in Seq(Byte) /\ Len(order) = write /\ write \in Nat
    BY DEF FileOK, TypeOK
  <1>2. /\ Bytes(r) \in Seq(Byte) /\ Len(Bytes(r)) = Size[r] /\ Size[r] \in Nat
        /\ \A k \in 1..Size[r] : Bytes(r)[k] = <<r, k>>
    BY RecordBytes, SizeAssumption
  <1> DEFINE bytes == Bytes(r)
  <1>4. bytes \in Seq(Byte) /\ Len(bytes) = Size[r] /\ \A k \in 1..Size[r] : bytes[k] = <<r, k>>
    BY <1>2
  <1>5. order' = order \o bytes
    OBVIOUS
  <1> HIDE DEF bytes
  <1>6. /\ order \o bytes \in Seq(Byte)
        /\ Len(order \o bytes) = Len(order) + Len(bytes)
        /\ \A k \in 1..Len(order) : (order \o bytes)[k] = order[k]
        /\ \A k \in 1..Len(bytes) : (order \o bytes)[Len(order) + k] = bytes[k]
    <2>1. order \in Seq(Byte) /\ bytes \in Seq(Byte)
      BY <1>1, <1>4
    <2>2. order \o bytes \in Seq(Byte) /\ Len(order \o bytes) = Len(order) + Len(bytes)
      BY ONLY <2>1, ConcatAt
    <2>3. \A k \in 1..Len(order) : (order \o bytes)[k] = order[k]
      BY ONLY <2>1, ConcatAt
    <2>4. \A k \in 1..Len(bytes) : (order \o bytes)[Len(order) + k] = bytes[k]
      BY ONLY <2>1, ConcatAt
    <2> QED BY <2>2, <2>3, <2>4
  <1> QED BY <1>1, <1>2, <1>4, <1>5, <1>6

\* What a copy does to the ring: its bytes are there, and all other slots keep theirs.
LEMMA CopyEffect ==
    ASSUME IInv, NEW p \in Producers, Copy(p)
    PROVE  /\ ring' \in [0..RingSize - 1 -> (Records \cup {Nobody}) \X Nat]
           /\ \A seq \in First(p) + 1..wseq[p] : ring'[Slot(seq)] = order[seq]
           /\ \A s \in 0..RingSize - 1 :
                (\A seq \in First(p) + 1..wseq[p] : Slot(seq) # s) => ring'[s] = ring[s]
  <1> DEFINE n == Size[record[p]]
             first == First(p)
             mine(s) == {k \in 1..n : Slot(first + k) = s}
  <1>1. /\ record[p] \in Records /\ n \in 1..RingSize /\ RingSize \in Nat
        /\ first \in Nat /\ wseq[p] = first + n
    <2>1. ClaimOK(p) /\ TypeOK
      BY DEF IInv, ClaimsOK, Busy, Copy
    <2>2. first \in Int /\ first >= writeDone /\ writeDone \in Nat
      BY <2>1, ClaimBounds DEF ClaimOK, TypeOK
    <2> QED BY <2>1, <2>2, ClaimBounds DEF ClaimOK
  <1>2. ring \in [0..RingSize - 1 -> (Records \cup {Nobody}) \X Nat]
    BY DEF IInv, TypeOK
  <1>3. ring' = [s \in 0..RingSize - 1 |->
                    IF mine(s) = {} THEN ring[s] ELSE <<record[p], CHOOSE k \in mine(s) : TRUE>>]
    BY <1>2 DEF Copy, First
  <1>4. ASSUME NEW k \in 1..n PROVE mine(Slot(first + k)) = {k}
    <2>1. ASSUME NEW j \in 1..n, Slot(first + j) = Slot(first + k) PROVE j = k
      <3>1. first + j \in Nat /\ first + k \in Nat
            /\ first + j < (first + k) + RingSize /\ first + k < (first + j) + RingSize
        BY <1>1
      <3>2. first + j = first + k
        BY <2>1, <3>1, SlotsApart
      <3> QED BY <1>1, <3>2
    <2> QED BY <2>1
  <1>5. ASSUME NEW k \in 1..n PROVE ring'[Slot(first + k)] = order[first + k]
    <2>1. Slot(first + k) \in 0..RingSize - 1
      BY <1>1, SlotsApart
    <2>2. (CHOOSE j \in {k} : TRUE) = k
      OBVIOUS
    <2>3. ring'[Slot(first + k)] = <<record[p], k>>
      BY <1>3, <1>4, <2>1, <2>2
    <2>4. order[first + k] = <<record[p], k>>
      BY DEF IInv, ClaimsOK, ClaimOK, Busy, Copy
    <2> QED BY <2>3, <2>4
  <1>6. \A seq \in first + 1..wseq[p] : seq - first \in 1..n /\ first + (seq - first) = seq
    BY <1>1
  <1>7. \A k \in 1..n : first + k \in first + 1..wseq[p]
    BY <1>1
  <1>8. ASSUME NEW s \in 0..RingSize - 1
        PROVE  ring'[s] \in (Records \cup {Nobody}) \X Nat
    <2>1. CASE mine(s) = {} BY <1>2, <1>3, <2>1
    <2>2. CASE mine(s) # {}
      <3>1. (CHOOSE k \in mine(s) : TRUE) \in Nat
        BY <1>1, <2>2
      <3> QED BY <1>1, <1>3, <2>2, <3>1
    <2> QED BY <2>1, <2>2
  <1>9. ASSUME NEW s \in 0..RingSize - 1, \A seq \in first + 1..wseq[p] : Slot(seq) # s
        PROVE  ring'[s] = ring[s]
    <2>1. mine(s) = {}
      BY <1>7, <1>9
    <2> QED BY <1>3, <2>1
  <1>10. ring' \in [0..RingSize - 1 -> (Records \cup {Nobody}) \X Nat]
    <2> HIDE DEF mine
    <2> QED BY <1>3, <1>8
  <1>11. ASSUME NEW seq \in first + 1..wseq[p] PROVE ring'[Slot(seq)] = order[seq]
    BY <1>5, <1>6
  <1> QED BY <1>9, <1>10, <1>11

LEMMA TypeOKInit == Init => TypeOK
  BY SizeAssumption DEF Init, TypeOK

LEMMA TypeOKStep == IInv /\ [Next]_vars => TypeOK'
  <1> SUFFICES ASSUME IInv, [Next]_vars PROVE TypeOK'
    OBVIOUS
  <1> USE DEF producerVars, readerVars, historyVars
  <1>0. TypeOK
    BY DEF IInv
  <1>1. ASSUME NEW p \in Producers, NEW r \in Records, Claim(p, r) PROVE TypeOK'
    <2>1. Size[r] \in Nat /\ write' = write + Size[r] /\ write' \in Nat /\ write <= write'
      BY <1>0, <1>1, SizeAssumption DEF TypeOK, Claim
    <2>2. Len(order') = write'
      BY <1>1, <2>1, OrderGrows DEF IInv, Claim
    <2>3. wseq' \in [Producers -> 0..write']
      BY <1>0, <1>1, <2>1 DEF TypeOK, Claim
    <2>4. writeDone' <= write' /\ seen' \in 0..writeDone'
      BY <1>0, <1>1, <2>1 DEF TypeOK, Claim
    <2> QED BY <1>0, <1>1, <2>1, <2>2, <2>3, <2>4 DEF TypeOK, Claim
  <1>2. ASSUME NEW p \in Producers, WakeReader(p) PROVE TypeOK'
    BY <1>0, <1>2 DEF TypeOK, WakeReader
  <1>3. ASSUME NEW p \in Producers, Copy(p) PROVE TypeOK'
    <2>1. ring' \in [0..RingSize - 1 -> (Records \cup {Nobody}) \X Nat]
      BY <1>3, CopyEffect
    <2> QED BY <1>0, <1>3, <2>1 DEF TypeOK, Copy
  <1>4. ASSUME NEW p \in Producers, Publish(p) PROVE TypeOK'
    <2>1. ClaimOK(p) /\ wseq[p] <= readDone + RingSize
      BY <1>4 DEF IInv, ClaimsOK, CopiesOK, Busy, Publish
    <2>2. /\ wseq[p] \in Nat /\ wseq[p] <= write /\ writeDone <= wseq[p]
          /\ readDone \in Nat /\ RingSize \in Nat /\ writeDone \in Nat
      BY <1>0, <2>1, ClaimBounds DEF ClaimOK, TypeOK
    <2>3. readDone <= writeDone' /\ writeDone' <= write /\ writeDone' <= readDone + RingSize
          /\ writeDone' \in Nat /\ seen' \in 0..writeDone'
      BY <1>0, <1>4, <2>1, <2>2 DEF TypeOK, Publish
    <2> QED BY <1>0, <1>4, <2>3 DEF TypeOK, Publish
  <1>5. CASE Check BY <1>0, <1>5 DEF TypeOK, Check
  <1>6. CASE Timeout BY <1>0, <1>6 DEF TypeOK, Timeout
  <1>7. CASE Look BY <1>0, <1>7 DEF TypeOK, Look
  <1>8. CASE Empty BY <1>0, <1>8 DEF TypeOK, Empty
  <1>9. CASE WriteFile BY <1>0, <1>9 DEF TypeOK, WriteFile
  <1>10. CASE Update
    <2>1. readDone' = seen /\ readDone <= seen /\ seen <= writeDone /\ seen \in Nat
      BY <1>0, <1>10 DEF IInv, FileOK, TypeOK, Update, Upto
    <2>2. readDone' \in Nat /\ readDone' <= writeDone' /\ writeDone' <= readDone' + RingSize
      BY <1>0, <1>10, <2>1, SizeAssumption DEF TypeOK, Update
    <2> QED BY <1>0, <1>10, <2>2 DEF TypeOK, Update
  <1>11. CASE Stop BY <1>0, <1>11 DEF TypeOK, Stop
  <1>12. CASE UNCHANGED vars BY <1>0, <1>12 DEF TypeOK, vars
  <1> QED BY <1>1, <1>2, <1>3, <1>4, <1>5, <1>6, <1>7, <1>8, <1>9, <1>10, <1>11, <1>12
          DEF Next, Producer, Reader
-----------------------------------------------------------------------------
(***************************************************************************)
(* The claims.                                                             *)
(***************************************************************************)
\* A step that makes no claim and publishes nothing leaves the claims as they are.
LEMMA ClaimsKept ==
    ASSUME IInv, UNCHANGED <<record, wseq, writeDone, order>>,
           \A q \in Producers : Busy(q)' => Busy(q)
    PROVE  (ClaimsOK /\ ClaimsApart)'
  <1>1. \A q \in Producers : First(q)' = First(q)
    BY DEF First
  <1>2. ClaimsOK'
    BY <1>1 DEF IInv, ClaimsOK, ClaimOK
  <1>3. ClaimsApart'
    BY <1>1 DEF IInv, ClaimsApart
  <1> QED BY <1>2, <1>3

\* The new claim starts after all others.
LEMMA ClaimsGrow ==
    ASSUME IInv, NEW p \in Producers, NEW r \in Records, Claim(p, r)
    PROVE  (ClaimsOK /\ ClaimsApart)'
  <1>0. TypeOK
    BY DEF IInv
  <1>1. Size[r] \in Nat /\ write \in Nat /\ writeDone \in Nat /\ writeDone <= write
    BY <1>0, SizeAssumption DEF TypeOK
  <1>2. /\ \A k \in 1..write : order'[k] = order[k]
        /\ \A k \in 1..Size[r] : order'[write + k] = <<r, k>>
    BY <1>0, OrderGrows DEF IInv, Claim
  <1>3. wseq'[p] = write + Size[r] /\ record'[p] = r /\ First(p)' = write /\ writeDone' = writeDone
    BY <1>0, <1>1 DEF TypeOK, Claim, First
  <1>4. ClaimOK(p)'
    BY <1>1, <1>2, <1>3 DEF ClaimOK
  <1>5. ASSUME NEW q \in Producers, q # p, Busy(q)'
        PROVE  /\ Busy(q) /\ ClaimOK(q)' /\ wseq'[q] = wseq[q] /\ First(q)' = First(q)
               /\ wseq[q] <= write
    <2>1. ppc'[q] = ppc[q] /\ wseq'[q] = wseq[q] /\ record'[q] = record[q]
      BY <1>0, <1>5 DEF TypeOK, Claim
    <2>2. Busy(q) /\ ClaimOK(q)
      BY <1>5, <2>1 DEF IInv, ClaimsOK, Busy
    <2>3. First(q)' = First(q)
      BY <2>1 DEF First
    <2>4. /\ Size[record[q]] \in Nat /\ First(q) \in Nat /\ wseq[q] <= write
          /\ wseq[q] \in Nat /\ wseq[q] = First(q) + Size[record[q]]
      BY <1>0, <1>1, <2>2, ClaimBounds DEF ClaimOK
    <2>5. \A k \in 1..Size[record[q]] : First(q) + k \in 1..write
      BY <1>1, <2>4
    <2>6. ClaimOK(q)'
      BY <1>2, <1>3, <2>1, <2>2, <2>3, <2>5 DEF ClaimOK
    <2> QED BY <2>1, <2>2, <2>3, <2>4, <2>6
  <1>6. ClaimsOK'
    <2> SUFFICES ASSUME NEW q \in Producers, Busy(q)' PROVE ClaimOK(q)'
      BY DEF ClaimsOK
    <2> QED BY <1>4, <1>5
  <1>7. ClaimsApart'
    <2> SUFFICES ASSUME NEW a \in Producers, NEW b \in Producers, Busy(a)', Busy(b)', a # b
                 PROVE  wseq'[a] <= First(b)' \/ wseq'[b] <= First(a)'
      BY DEF ClaimsApart
    <2>1. CASE a = p BY <1>3, <1>5, <2>1
    <2>2. CASE b = p BY <1>3, <1>5, <2>2
    <2>3. CASE a # p /\ b # p
      <3>1. Busy(a) /\ Busy(b) /\ wseq'[a] = wseq[a] /\ wseq'[b] = wseq[b]
            /\ First(a)' = First(a) /\ First(b)' = First(b)
        BY <1>5, <2>3
      <3> QED BY <3>1 DEF IInv, ClaimsApart
    <2> QED BY <2>1, <2>2, <2>3
  <1> QED BY <1>6, <1>7

\* What remains claimed after a publication follows it.
LEMMA ClaimsShrink ==
    ASSUME IInv, NEW p \in Producers, Publish(p)
    PROVE  (ClaimsOK /\ ClaimsApart)'
  <1>0. TypeOK
    BY DEF IInv
  <1>1. ASSUME NEW q \in Producers, Busy(q)'
        PROVE  /\ q # p /\ Busy(q) /\ ClaimOK(q)'
               /\ wseq'[q] = wseq[q] /\ First(q)' = First(q)
    <2>0. ppc'[q] # "idle" /\ ppc' = [ppc EXCEPT ![p] = "idle"] /\ record' = [record EXCEPT ![p] = Nobody]
      BY <1>1 DEF Publish, Busy
    <2>1. q # p /\ ppc'[q] = ppc[q] /\ wseq'[q] = wseq[q] /\ record'[q] = record[q] /\ order' = order
      <3>1. q # p
        BY <1>0, <2>0 DEF TypeOK
      <3>2. ppc'[q] = ppc[q] /\ record'[q] = record[q]
        BY <1>0, <2>0, <3>1 DEF TypeOK
      <3> QED BY <3>1, <3>2 DEF Publish, historyVars
    <2>2. Busy(q) /\ ClaimOK(q) /\ Busy(p) /\ ClaimOK(p)
      BY <1>1, <2>1 DEF IInv, ClaimsOK, Busy, Publish
    <2>3. First(q)' = First(q)
      BY <2>1 DEF First
    <2>4. /\ Size[record[q]] \in 1..RingSize /\ First(q) \in Int /\ wseq[q] \in Nat
          /\ wseq[q] = First(q) + Size[record[q]]
          /\ wseq[p] \in Nat /\ First(p) \in Int /\ First(p) = writeDone /\ writeDone \in Nat
          /\ First(q) >= writeDone /\ RingSize \in Nat
      BY <1>0, <2>2, ClaimBounds DEF ClaimOK, Publish, MyTurn, First, TypeOK
    <2>5. wseq[p] <= First(q) \/ wseq[q] <= First(p)
      BY <2>1, <2>2 DEF IInv, ClaimsApart
    <2>6. First(q) >= wseq[p]
      BY <2>4, <2>5
    <2>7. writeDone' = wseq[p]
      BY DEF Publish
    <2>8. ClaimOK(q)'
      BY <2>1, <2>2, <2>3, <2>6, <2>7 DEF ClaimOK
    <2> QED BY <2>1, <2>2, <2>3, <2>8
  <1>2. ClaimsOK'
    BY <1>1 DEF ClaimsOK
  <1>3. ClaimsApart'
    BY <1>1 DEF IInv, ClaimsApart
  <1> QED BY <1>2, <1>3

LEMMA ClaimsStep == IInv /\ [Next]_vars => (ClaimsOK /\ ClaimsApart)'
  <1> SUFFICES ASSUME IInv, [Next]_vars PROVE (ClaimsOK /\ ClaimsApart)'
    OBVIOUS
  <1> USE DEF producerVars, readerVars, historyVars
  <1>1. ASSUME NEW p \in Producers, NEW r \in Records, Claim(p, r) PROVE (ClaimsOK /\ ClaimsApart)'
    BY <1>1, ClaimsGrow
  <1>2. ASSUME NEW p \in Producers, WakeReader(p) PROVE (ClaimsOK /\ ClaimsApart)'
    BY <1>2, ClaimsKept DEF WakeReader, Busy
  <1>3. ASSUME NEW p \in Producers, Copy(p) PROVE (ClaimsOK /\ ClaimsApart)'
    <2>1. \A q \in Producers : Busy(q)' => Busy(q)
      BY <1>3 DEF IInv, TypeOK, Copy, Busy
    <2> QED BY <1>3, <2>1, ClaimsKept DEF Copy
  <1>4. ASSUME NEW p \in Producers, Publish(p) PROVE (ClaimsOK /\ ClaimsApart)'
    BY <1>4, ClaimsShrink
  <1>5. CASE Reader \/ Stop \/ UNCHANGED vars
    <2>1. UNCHANGED <<record, wseq, writeDone, order, ppc>>
      BY <1>5 DEF Reader, Check, Timeout, Look, Empty, WriteFile, Update, Stop, vars
    <2> QED BY <2>1, ClaimsKept DEF Busy
  <1> QED BY <1>1, <1>2, <1>3, <1>4, <1>5 DEF Next, Producer
-----------------------------------------------------------------------------
(***************************************************************************)
(* The ring.                                                               *)
(***************************************************************************)
\* Nothing overwrites what is published or copied: a step that leaves the ring and the
\* counters alone keeps it.
LEMMA RingKept ==
    ASSUME IInv, UNCHANGED <<ring, readDone, writeDone>>,
           \A seq \in 1..write : order'[seq] = order[seq],
           \A q \in Producers : ppc'[q] = "publish" =>
                ppc[q] = "publish" /\ wseq'[q] = wseq[q] /\ record'[q] = record[q]
    PROVE  (RingIntact /\ CopiesOK)'
  <1>1. write \in Nat /\ writeDone \in Nat /\ readDone \in Nat /\ writeDone <= write
    BY DEF IInv, TypeOK
  <1>2. RingIntact'
    BY <1>1 DEF IInv, RingIntact
  <1>3. ASSUME NEW q \in Producers, ppc'[q] = "publish"
        PROVE  /\ wseq'[q] <= readDone + RingSize
               /\ \A seq \in First(q)' + 1..wseq'[q] : ring[Slot(seq)] = order'[seq]
    <2>1. ppc[q] = "publish" /\ ClaimOK(q) /\ wseq'[q] = wseq[q] /\ First(q)' = First(q)
      BY <1>3 DEF IInv, ClaimsOK, Busy, First
    <2>2. First(q) \in Int /\ First(q) >= writeDone /\ wseq[q] \in Nat /\ wseq[q] <= write
      BY <2>1, ClaimBounds DEF ClaimOK, IInv
    <2>3. \A seq \in First(q) + 1..wseq[q] : seq \in 1..write
      BY <1>1, <2>2
    <2> QED BY <2>1, <2>3 DEF IInv, CopiesOK
  <1>4. CopiesOK'
    BY <1>3 DEF CopiesOK
  <1> QED BY <1>2, <1>4

\* A copy overwrites nothing that is in use.
LEMMA CopyKeepsRing ==
    ASSUME IInv, NEW p \in Producers, Copy(p)
    PROVE  (RingIntact /\ CopiesOK)'
  <1>0. /\ TypeOK /\ Busy(p) /\ ClaimOK(p) /\ wseq[p] <= readDone + RingSize
        /\ UNCHANGED <<readDone, writeDone, wseq, record, order>>
    <2>1. Busy(p) /\ ~NoSpace(p) /\ UNCHANGED <<readDone, writeDone, wseq, record, order>>
      BY DEF Copy, Busy, historyVars
    <2>2. wseq[p] \in Nat /\ readDone \in Nat /\ RingSize \in Nat
      BY SizeAssumption DEF IInv, TypeOK
    <2> QED BY <2>1, <2>2 DEF IInv, ClaimsOK, NoSpace
  <1>1. /\ First(p) \in Nat /\ wseq[p] \in Nat /\ readDone \in Nat /\ writeDone \in Nat
        /\ readDone <= writeDone /\ First(p) >= writeDone /\ RingSize \in Nat
    BY <1>0, ClaimBounds DEF ClaimOK, TypeOK
  <1>2. ASSUME NEW b \in Nat, b > readDone, b <= readDone + RingSize, b \notin First(p) + 1..wseq[p]
        PROVE  ring'[Slot(b)] = ring[Slot(b)]
    <2>1. ASSUME NEW a \in First(p) + 1..wseq[p] PROVE Slot(a) # Slot(b)
      <3>1. a \in Nat /\ a # b /\ a < b + RingSize /\ b < a + RingSize
        BY <1>0, <1>1, <1>2
      <3> QED BY <3>1, SlotsApart
    <2>2. Slot(b) \in 0..RingSize - 1
      BY SlotsApart
    <2> QED BY <2>1, <2>2, CopyEffect
  <1>3. ASSUME NEW seq \in readDone + 1..writeDone PROVE ring'[Slot(seq)] = order[seq]
    <2>1. /\ seq \in Nat /\ seq > readDone /\ seq <= readDone + RingSize
          /\ seq \notin First(p) + 1..wseq[p]
      BY <1>0, <1>1 DEF TypeOK
    <2> QED BY <1>2, <2>1 DEF IInv, RingIntact
  <1>4. RingIntact'
    BY <1>0, <1>3 DEF RingIntact
  <1>5. ASSUME NEW q \in Producers, q # p, ppc'[q] = "publish"
        PROVE  /\ wseq[q] <= readDone + RingSize
               /\ \A seq \in First(q) + 1..wseq[q] : ring'[Slot(seq)] = order[seq]
    <2>1. ppc[q] = "publish" /\ Busy(q)
      BY <1>0, <1>5 DEF TypeOK, Copy, Busy
    <2>2. /\ wseq[q] <= readDone + RingSize
          /\ \A seq \in First(q) + 1..wseq[q] : ring[Slot(seq)] = order[seq]
      BY <2>1 DEF IInv, CopiesOK
    <2>3. ASSUME NEW seq \in First(q) + 1..wseq[q] PROVE ring'[Slot(seq)] = ring[Slot(seq)]
      <3>1. First(q) >= writeDone /\ First(q) \in Int /\ wseq[q] \in Nat
        BY <1>0, <2>1, ClaimBounds DEF IInv, ClaimsOK, ClaimOK
      <3>2. seq \in Nat /\ seq > readDone /\ seq <= readDone + RingSize
        BY <1>1, <2>2, <3>1
      <3>3. seq \notin First(p) + 1..wseq[p]
        BY <1>0, <1>5, <2>1, ClaimsDiffer
      <3> QED BY <1>2, <3>2, <3>3
    <2> QED BY <2>2, <2>3
  <1>6. \A q \in Producers : First(q)' = First(q)
    BY <1>0 DEF First
  <1>7. CopiesOK'
    <2> SUFFICES ASSUME NEW q \in Producers, ppc'[q] = "publish"
                 PROVE  /\ wseq[q] <= readDone + RingSize
                        /\ \A seq \in First(q) + 1..wseq[q] : ring'[Slot(seq)] = order[seq]
      BY <1>0, <1>6 DEF CopiesOK
    <2>1. CASE q = p BY <1>0, <2>1, CopyEffect
    <2>2. CASE q # p BY <1>5, <2>2
    <2> QED BY <2>1, <2>2
  <1> QED BY <1>4, <1>7

\* What a producer publishes is intact.
LEMMA PublishKeepsRing ==
    ASSUME IInv, NEW p \in Producers, Publish(p)
    PROVE  (RingIntact /\ CopiesOK)'
  <1>0. TypeOK /\ ClaimOK(p) /\ UNCHANGED <<ring, readDone, wseq, order>> /\ ppc[p] = "publish"
    BY DEF IInv, ClaimsOK, Busy, Publish, historyVars
  <1>1. First(p) = writeDone /\ wseq[p] \in Nat /\ readDone \in Nat /\ writeDone' = wseq[p]
        /\ writeDone \in Nat
    BY <1>0, ClaimBounds DEF TypeOK, Publish, MyTurn, First, ClaimOK
  <1>2. ASSUME NEW seq \in readDone + 1..wseq[p] PROVE ring[Slot(seq)] = order[seq]
    <2>1. CASE seq <= writeDone
      <3>1. seq \in readDone + 1..writeDone
        BY <1>1, <2>1
      <3> QED BY <3>1 DEF IInv, RingIntact
    <2>2. CASE seq > writeDone
      <3>1. seq \in First(p) + 1..wseq[p]
        BY <1>1, <2>2
      <3> QED BY <1>0, <3>1 DEF IInv, CopiesOK
    <2> QED BY <1>1, <2>1, <2>2
  <1>3. RingIntact'
    BY <1>0, <1>1, <1>2 DEF RingIntact
  <1>4. ASSUME NEW q \in Producers, ppc'[q] = "publish"
        PROVE  ppc[q] = "publish" /\ record'[q] = record[q]
    <2>1. ppc' = [ppc EXCEPT ![p] = "idle"] /\ record' = [record EXCEPT ![p] = Nobody]
      BY DEF Publish
    <2>2. q # p
      BY <1>0, <1>4, <2>1 DEF TypeOK
    <2> QED BY <1>0, <1>4, <2>1, <2>2 DEF TypeOK
  <1>5. CopiesOK'
    <2> SUFFICES ASSUME NEW q \in Producers, ppc'[q] = "publish"
                 PROVE  /\ wseq[q] <= readDone + RingSize
                        /\ \A seq \in First(q)' + 1..wseq[q] : ring[Slot(seq)] = order[seq]
      BY <1>0 DEF CopiesOK
    <2>1. ppc[q] = "publish" /\ First(q)' = First(q)
      BY <1>0, <1>4 DEF First
    <2> QED BY <2>1 DEF IInv, CopiesOK
  <1> QED BY <1>3, <1>5

\* The reader frees what it has written, which leaves more room for everybody.
LEMMA UpdateKeepsRing ==
    ASSUME IInv, Update
    PROVE  (RingIntact /\ CopiesOK)'
  <1>0. TypeOK /\ UNCHANGED <<ring, writeDone, wseq, record, order, ppc>>
    BY DEF IInv, Update, producerVars, historyVars
  <1>1. readDone' = seen /\ readDone <= seen /\ seen \in Nat /\ readDone \in Nat /\ writeDone \in Nat
    BY <1>0 DEF IInv, FileOK, TypeOK, Update, Upto
  <1>2. \A seq \in readDone' + 1..writeDone : seq \in readDone + 1..writeDone
    BY <1>1
  <1>3. RingIntact'
    BY <1>0, <1>2 DEF IInv, RingIntact
  <1>4. ASSUME NEW q \in Producers, wseq[q] <= readDone + RingSize
        PROVE  wseq[q] <= readDone' + RingSize
    <2>1. wseq[q] \in Nat /\ RingSize \in Nat
      BY <1>0, SizeAssumption DEF TypeOK
    <2> QED BY <1>1, <1>4, <2>1
  <1>5. CopiesOK'
    <2>1. \A q \in Producers : First(q)' = First(q)
      BY <1>0 DEF First
    <2> QED BY <1>0, <1>4, <2>1 DEF IInv, CopiesOK
  <1> QED BY <1>3, <1>5

LEMMA RingStep == IInv /\ [Next]_vars => (RingIntact /\ CopiesOK)'
  <1> SUFFICES ASSUME IInv, [Next]_vars PROVE (RingIntact /\ CopiesOK)'
    OBVIOUS
  <1> USE DEF producerVars, readerVars, historyVars
  <1>1. ASSUME NEW p \in Producers, NEW r \in Records, Claim(p, r) PROVE (RingIntact /\ CopiesOK)'
    <2>1. \A seq \in 1..write : order'[seq] = order[seq]
      BY <1>1, OrderGrows DEF IInv, Claim
    <2>2. ASSUME NEW q \in Producers, ppc'[q] = "publish"
          PROVE  q # p /\ ppc[q] = "publish"
      BY <1>1, <2>2 DEF IInv, TypeOK, Claim
    <2>3. ASSUME NEW q \in Producers, ppc'[q] = "publish"
          PROVE  wseq'[q] = wseq[q] /\ record'[q] = record[q]
      BY <1>1, <2>2, <2>3 DEF IInv, TypeOK, Claim
    <2>4. UNCHANGED <<ring, readDone, writeDone>>
      BY <1>1 DEF Claim
    <2> QED BY <2>1, <2>2, <2>3, <2>4, RingKept
  <1>2. ASSUME NEW p \in Producers, WakeReader(p) PROVE (RingIntact /\ CopiesOK)'
    BY <1>2, RingKept DEF WakeReader
  <1>3. ASSUME NEW p \in Producers, Copy(p) PROVE (RingIntact /\ CopiesOK)'
    BY <1>3, CopyKeepsRing
  <1>4. ASSUME NEW p \in Producers, Publish(p) PROVE (RingIntact /\ CopiesOK)'
    BY <1>4, PublishKeepsRing
  <1>5. CASE Update BY <1>5, UpdateKeepsRing
  <1>6. CASE Check \/ Timeout \/ Look \/ Empty \/ WriteFile \/ Stop \/ UNCHANGED vars
    <2>1. UNCHANGED <<ring, readDone, writeDone, wseq, record, order, ppc>>
      BY <1>6 DEF Check, Timeout, Look, Empty, WriteFile, Stop, vars
    <2> QED BY <2>1, RingKept
  <1> QED BY <1>1, <1>2, <1>3, <1>4, <1>5, <1>6 DEF Next, Producer, Reader
-----------------------------------------------------------------------------
(***************************************************************************)
(* The file.                                                               *)
(***************************************************************************)
\* What the reader appends: the published bytes, in the order of claiming.
LEMMA WriteEffect ==
    ASSUME IInv, WriteFile
    PROVE  /\ file' \in Seq(Byte)
           /\ Len(file') = seen
           /\ \A k \in 1..seen : file'[k] = order[k]
           /\ Len(file) <= seen
           /\ \A k \in 1..Len(file) : file'[k] = file[k]
  <1>0. TypeOK /\ file \in Seq(Byte) /\ Len(file) = readDone /\ readDone <= seen
        /\ \A k \in 1..readDone : file[k] = order[k]
    BY DEF IInv, FileOK, WriteFile
  <1>1. readDone \in Nat /\ seen \in Nat /\ seen <= writeDone /\ writeDone \in Nat
    BY <1>0 DEF TypeOK
  <1> DEFINE more == [k \in 1..seen - readDone |-> ring[Slot(readDone + k)]]
  <1>2. ASSUME NEW k \in 1..seen - readDone
        PROVE  more[k] = order[readDone + k] /\ ring[Slot(readDone + k)] \in Byte
    <2>1. readDone + k \in readDone + 1..writeDone /\ readDone + k \in Nat
      BY <1>1
    <2>2. ring[Slot(readDone + k)] = order[readDone + k]
      BY <2>1 DEF IInv, RingIntact
    <2>3. Slot(readDone + k) \in 0..RingSize - 1
      BY <2>1, SlotsApart
    <2> QED BY <1>0, <2>2, <2>3 DEF TypeOK, Byte
  <1>3. more \in Seq(Byte) /\ Len(more) = seen - readDone
    BY <1>0, <1>1, <1>2
  <1>4. file' = file \o more
    BY DEF WriteFile, Upto
  <1>5. \A k \in 1..seen - readDone : more[k] = order[readDone + k]
    BY <1>2
  <1> HIDE DEF more
  <1>6. file \o more \in Seq(Byte) /\ Len(file \o more) = Len(file) + Len(more)
    BY <1>0, <1>3, ConcatAt
  <1>7. \A k \in 1..Len(file) : (file \o more)[k] = file[k]
    BY <1>0, <1>3, ConcatAt
  <1>8. \A k \in 1..Len(more) : (file \o more)[Len(file) + k] = more[k]
    BY <1>0, <1>3, ConcatAt
  <1>9. ASSUME NEW k \in 1..seen PROVE (file \o more)[k] = order[k]
    <2>1. CASE k <= readDone
      BY <1>0, <1>1, <1>7, <2>1
    <2>2. CASE k > readDone
      <3>1. k - readDone \in 1..seen - readDone /\ readDone + (k - readDone) = k
        BY <1>1, <2>2
      <3> QED BY <1>0, <1>3, <1>5, <1>8, <3>1
    <2>3. k <= readDone \/ k > readDone
      BY <1>1
    <2> QED BY ONLY <2>1, <2>2, <2>3
  <1> QED BY <1>0, <1>1, <1>3, <1>4, <1>6, <1>7, <1>9

LEMMA FileStep == IInv /\ [Next]_vars => FileOK'
  <1> SUFFICES ASSUME IInv, [Next]_vars PROVE FileOK'
    OBVIOUS
  <1> USE DEF producerVars, readerVars, historyVars
  <1>0. TypeOK /\ FileOK /\ Len(file) \in Nat /\ readDone <= writeDone /\ writeDone <= write
        /\ readDone \in Nat /\ writeDone \in Nat /\ write \in Nat /\ seen \in 0..writeDone
    BY DEF IInv, TypeOK, FileOK
  <1>1. ASSUME NEW p \in Producers, NEW r \in Records, Claim(p, r) PROVE FileOK'
    <2>1. /\ order' \in Seq(Byte) /\ Len(order') = write + Size[r]
          /\ \A k \in 1..write : order'[k] = order[k]
          /\ \A k \in 1..Size[r] : order'[write + k] = <<r, k>>
      BY <1>0, <1>1, OrderGrows DEF Claim
    <2>2. Size[r] \in Nat /\ Len(order) = write
      BY <1>0, SizeAssumption DEF TypeOK
    <2>3. ASSUME NEW k \in 1..Len(order') PROVE order'[k][1] \in logged'
      <3>1. CASE k <= write
        BY <1>0, <1>1, <2>1, <2>2, <3>1 DEF FileOK, Claim
      <3>2. CASE k > write
        <4>1. k - write \in 1..Size[r] /\ write + (k - write) = k
          BY <1>0, <2>1, <2>2, <3>2
        <4>2. order'[k] = <<r, k - write>>
          BY <2>1, <4>1
        <4> QED BY <1>1, <4>2 DEF Claim
      <3> QED BY <1>0, <2>1, <2>2, <3>1, <3>2
    <2>4. \A k \in 1..Len(file) : k \in 1..write
      BY <1>0 DEF FileOK
    <2>5. UNCHANGED <<file, cpc, seen, readDone>>
      BY <1>1 DEF Claim
    <2> QED BY <1>0, <2>1, <2>3, <2>4, <2>5 DEF FileOK
  <1>2. ASSUME NEW p \in Producers, WakeReader(p) PROVE FileOK'
    BY <1>0, <1>2 DEF FileOK, WakeReader
  <1>3. ASSUME NEW p \in Producers, Copy(p) \/ Publish(p) PROVE FileOK'
    BY <1>0, <1>3 DEF FileOK, Copy, Publish
  <1>4. CASE Check BY <1>0, <1>4 DEF FileOK, Check
  <1>5. CASE Timeout BY <1>0, <1>5 DEF FileOK, Timeout
  <1>6. CASE Look BY <1>0, <1>6 DEF FileOK, Look
  <1>7. CASE Empty BY <1>0, <1>7 DEF FileOK, Empty
  <1>8. CASE WriteFile
    <2>1. /\ file' \in Seq(Byte) /\ Len(file') = seen
          /\ \A k \in 1..seen : file'[k] = order[k]
      BY <1>8, WriteEffect
    <2>2. cpc' = "update" /\ readDone <= seen /\ UNCHANGED <<order, logged, seen, readDone>>
      BY <1>0, <1>8 DEF FileOK, WriteFile
    <2> QED BY <1>0, <2>1, <2>2 DEF FileOK
  <1>9. CASE Update BY <1>0, <1>9 DEF FileOK, Update, Upto
  <1>10. CASE Stop \/ UNCHANGED vars BY <1>0, <1>10 DEF FileOK, Stop, vars
  <1> QED BY <1>1, <1>2, <1>3, <1>4, <1>5, <1>6, <1>7, <1>8, <1>9, <1>10 DEF Next, Producer, Reader
-----------------------------------------------------------------------------
LEMMA Initially == Init => IInv
  <1> SUFFICES ASSUME Init PROVE IInv
    OBVIOUS
  <1>1. TypeOK
    BY TypeOKInit
  <1>2. RingIntact /\ ClaimsOK /\ ClaimsApart /\ CopiesOK
    BY DEF Init, RingIntact, ClaimsOK, ClaimsApart, CopiesOK, Busy
  <1>3. FileOK
    <2>1. <<>> \in Seq(Byte)
      OBVIOUS
    <2> QED BY <2>1 DEF Init, FileOK
  <1> QED BY <1>1, <1>2, <1>3 DEF IInv

LEMMA Inductive == IInv /\ [Next]_vars => IInv'
  BY TypeOKStep, ClaimsStep, RingStep, FileStep DEF IInv

LEMMA Invariance == Spec => []IInv
  BY Initially, Inductive, PTL DEF Spec

\* However many producers race for the ring, the sequence numbers stay in order (no
\* producer gets further ahead of the reader than the ring is long), and what is published
\* is intact until the reader has written it.
THEOREM RingIsSafe == Spec => []RingSafe
  <1>1. IInv => RingSafe
    BY DEF IInv, RingSafe
  <1> QED BY <1>1, Invariance, PTL
-----------------------------------------------------------------------------
(***************************************************************************)
(* The file is a log: it grows by the records, in the order of claiming.   *)
(***************************************************************************)
\* Two sequences the first of which goes on in the second.
LEMMA PrefixAt ==
    ASSUME NEW p \in Seq(Byte), NEW q \in Seq(Byte), Len(p) <= Len(q),
           \A k \in 1..Len(p) : p[k] = q[k]
    PROVE  Log!IsPrefix(p, q)
  <1>1. Len(p) \in Nat
    OBVIOUS
  <1> QED BY <1>1, SamePrefix DEF Log!IsPrefix

\* A step that keeps what the file and the order have, and keeps the file within the order.
LEMMA GrowStep ==
    ASSUME IInv, IInv', Len(file) <= Len(file'), \A k \in 1..Len(file) : file'[k] = file[k]
    PROVE  Log!Grow
  <1>1. file \in Seq(Byte) /\ file' \in Seq(Byte) /\ order' \in Seq(Byte)
        /\ \A k \in 1..Len(file') : file'[k] = order'[k]
    BY DEF IInv, FileOK
  <1>2. Len(file') <= Len(order')
    BY DEF IInv, FileOK, TypeOK
  <1>3. Log!IsPrefix(file, file') /\ Log!IsPrefix(file', order')
    BY <1>1, <1>2, PrefixAt
  <1> QED BY <1>3 DEF Log!Grow

LEMMA LogStep == IInv /\ IInv' /\ [Next]_vars => [Log!Next]_(Log!vars)
  <1> SUFFICES ASSUME IInv, IInv', [Next]_vars PROVE [Log!Next]_(Log!vars)
    OBVIOUS
  <1> USE DEF producerVars, readerVars, historyVars
  <1>0. file \in Seq(Byte) /\ Len(file) \in Nat
    BY DEF IInv, FileOK
  <1>1. ASSUME NEW p \in Producers, NEW r \in Records, Claim(p, r) PROVE Log!Next
    <2>1. order' = order \o Log!Bytes(r) /\ file' = file
      BY <1>1 DEF Claim, Bytes, Log!Bytes
    <2>2. Log!Grow
      BY <1>0, <2>1, GrowStep
    <2>3. \A k \in DOMAIN order : order[k][1] # r
      <3>1. DOMAIN order = 1..Len(order)
        BY DEF IInv, FileOK
      <3> QED BY <1>1, <3>1 DEF IInv, FileOK, Claim
    <2> QED BY <2>1, <2>2, <2>3 DEF Log!Next, Log!Accept
  <1>2. CASE WriteFile
    <2>1. Log!Grow
      BY <1>2, WriteEffect, GrowStep
    <2> QED BY <1>2, <2>1 DEF WriteFile, Log!Next, Log!Write
  <1>3. ASSUME NEW p \in Producers, Producer(p) PROVE UNCHANGED Log!vars
    BY <1>3 DEF Producer, WakeReader, Copy, Publish, Log!vars
  <1>4. CASE Check \/ Timeout \/ Look \/ Empty \/ Update \/ Stop \/ UNCHANGED vars
    BY <1>4 DEF Check, Timeout, Look, Empty, Update, Stop, vars, Log!vars
  <1> QED BY <1>1, <1>2, <1>3, <1>4 DEF Next, Reader

\* The ring implements a log: the records get an order when they are claimed, and the file
\* grows byte by byte in this order, without a gap and without mixing records.
THEOREM RingImplementsLog == Spec => WritesInOrder
  <1>1. Init => Log!Init
    BY DEF Init, Log!Init
  <1> QED BY <1>1, LogStep, Invariance, PTL DEF Spec, Log!Spec, WritesInOrder
=============================================================================
