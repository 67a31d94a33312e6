----------------------------- MODULE AsyncLogger -----------------------------
(***************************************************************************)
(* The asynchronous logger of pax/log/asynclogging.cpp.  Any number of     *)
(* threads append records to a ring of bytes, without a lock: each claims  *)
(* a range of sequence numbers, waits until the reader has left that part  *)
(* of the ring, copies its record, and publishes it when all earlier       *)
(* ranges are published.  One thread writes what is published to a file.   *)
(*                                                                         *)
(* A byte is a pair of a record and a position in it.                      *)
(***************************************************************************)
EXTENDS Naturals, Sequences, FiniteSets

CONSTANTS Producers,  \* threads that log
          Records,    \* records, each logged at most once
          Size,       \* the length of each record
          RingSize,   \* kRingBufferSize
          Batch,      \* kLargeBuffer: with less than this the reader takes a nap
          Nobody      \* no record

ASSUME SizeAssumption ==
    /\ RingSize \in Nat \ {0} /\ Batch \in Nat
    /\ Size \in [Records -> 1..RingSize]  \* s_logbuffer holds 2 KB, the ring 64 MB
ASSUME NobodyAssumption == Nobody \notin Records

VARIABLES
    write,      \* *write_ - 1: the last sequence number that was claimed
    writeDone,  \* *writedone_: the last one that was published
    readDone,   \* *readdone_: the last one that was written to the file
    ring,       \* ringbuffer_
    file,       \* what was appended to the logfile
    ppc,        \* where each producer is
    record,     \* the record it appends
    wseq,       \* its last sequence number
    cpc,        \* where the reader is
    seen,       \* its copy wdseq of *writedone_
    running,    \* running_
    order,      \* the bytes of all records in the order of claiming (history variable)
    logged      \* records whose append began (history variable)

producerVars == <<ppc, record, wseq>>
readerVars   == <<cpc, seen>>
historyVars  == <<order, logged>>

vars == <<write, writeDone, readDone, ring, file, producerVars, readerVars, running, historyVars>>

Slot(seq) == seq % RingSize

Bytes(r) == [k \in 1..Size[r] |-> <<r, k>>]

Init ==
    /\ write = 0 /\ writeDone = 0 /\ readDone = 0
    /\ ring = [s \in 0..RingSize - 1 |-> <<Nobody, 0>>]
    /\ file = <<>>
    /\ ppc = [p \in Producers |-> "idle"]
    /\ record = [p \in Producers |-> Nobody]
    /\ wseq = [p \in Producers |-> 0]
    /\ cpc = "check"
    /\ seen = 0
    /\ running = TRUE
    /\ order = <<>>
    /\ logged = {}
-----------------------------------------------------------------------------
(***************************************************************************)
(* append                                                                  *)
(***************************************************************************)
\* wseq = (*write_ += size) - 1
Claim(p, r) ==
    /\ ppc[p] = "idle"
    /\ r \notin logged
    /\ write' = write + Size[r]
    /\ wseq' = [wseq EXCEPT ![p] = write']
    /\ record' = [record EXCEPT ![p] = r]
    /\ ppc' = [ppc EXCEPT ![p] = "space"]
    /\ order' = order \o Bytes(r)
    /\ logged' = logged \cup {r}
    /\ UNCHANGED <<writeDone, readDone, ring, file, readerVars, running>>

\* Mutant of NoSpace: one byte too many fits.
NoSpaceOffByOne(p) == wseq[p] > readDone + RingSize + 1

\* wseq > *readdone_ + kRingBufferSize
NoSpace(p) == wseq[p] > readDone + RingSize

\* The ring is full: the reader is notified.
WakeReader(p) ==
    /\ ppc[p] = "space"
    /\ NoSpace(p)
    /\ cpc = "wait"
    /\ cpc' = "look"
    /\ UNCHANGED <<write, writeDone, readDone, ring, file,
                   producerVars, seen, running, historyVars>>

\* memcpy, in one or two parts.
Copy(p) ==
    /\ ppc[p] = "space"
    /\ ~NoSpace(p)
    /\ LET first == wseq[p] - Size[record[p]] IN
        ring' = [s \in DOMAIN ring |->
                    LET mine == {k \in 1..Size[record[p]] : Slot(first + k) = s}
                    IN  IF mine = {} THEN ring[s] ELSE <<record[p], CHOOSE k \in mine : TRUE>>]
    /\ ppc' = [ppc EXCEPT ![p] = "publish"]
    /\ UNCHANGED <<write, writeDone, readDone, file,
                   record, wseq, readerVars, running, historyVars>>

\* Mutant of MyTurn: the producer does not wait for those before it.
MyTurnAlways(p) == TRUE

\* Mutant of MyTurn: the size is not subtracted.
MyTurnLast(p) == wseq[p] = writeDone

\* while (wseq - size != *writedone_)
MyTurn(p) == wseq[p] - Size[record[p]] = writeDone

Publish(p) ==
    /\ ppc[p] = "publish"
    /\ MyTurn(p)
    /\ writeDone' = wseq[p]
    /\ record' = [record EXCEPT ![p] = Nobody]
    /\ ppc' = [ppc EXCEPT ![p] = "idle"]
    /\ UNCHANGED <<write, readDone, ring, file, wseq, readerVars, running, historyVars>>
-----------------------------------------------------------------------------
(***************************************************************************)
(* threadFunc                                                              *)
(***************************************************************************)
\* if (rseq > *writedone_)
Check ==
    /\ cpc = "check"
    /\ cpc' = IF readDone + Batch > writeDone THEN "wait" ELSE "look"
    /\ UNCHANGED <<write, writeDone, readDone, ring, file,
                   producerVars, seen, running, historyVars>>

\* timedwait ends after kInterval seconds, or spuriously.
Timeout ==
    /\ cpc = "wait"
    /\ cpc' = "look"
    /\ UNCHANGED <<write, writeDone, readDone, ring, file,
                   producerVars, seen, running, historyVars>>

\* Mutant of NothingNew: the reader waits for a full batch, also after the timeout.
NothingNewBatch == readDone + Batch > writeDone

\* *readdone_ == wdseq
NothingNew == readDone = writeDone

\* wdseq = *writedone_
Look ==
    /\ cpc = "look"
    /\ seen' = writeDone
    /\ cpc' = IF NothingNew THEN "empty" ELSE "append"
    /\ UNCHANGED <<write, writeDone, readDone, ring, file, producerVars, running, historyVars>>

\* Nothing to write: the reader ends if running_ is false.
Empty ==
    /\ cpc = "empty"
    /\ cpc' = IF running THEN "check" ELSE "done"
    /\ UNCHANGED <<write, writeDone, readDone, ring, file,
                   producerVars, seen, running, historyVars>>

\* Mutant of Upto: a full batch is written, published or not.
UptoBatch == readDone + Batch

\* rseq = wdseq
Upto == seen

\* log.append, in one or two parts.
WriteFile ==
    /\ cpc = "append"
    /\ file' = file \o [k \in 1..Upto - readDone |-> ring[Slot(readDone + k)]]
    /\ cpc' = "update"
    /\ UNCHANGED <<write, writeDone, readDone, ring, producerVars, seen, running, historyVars>>

\* updateseq(rseq): the part of the ring is free again.
Update ==
    /\ cpc = "update"
    /\ readDone' = Upto
    /\ cpc' = "check"
    /\ UNCHANGED <<write, writeDone, ring, file, producerVars, seen, running, historyVars>>
-----------------------------------------------------------------------------
\* ~asynclogger; it goes on to join the reader.
Stop ==
    /\ running
    /\ running' = FALSE
    /\ UNCHANGED <<write, writeDone, readDone, ring, file, producerVars, readerVars, historyVars>>

Producer(p) == WakeReader(p) \/ Copy(p) \/ Publish(p)

Reader == Check \/ Timeout \/ Look \/ Empty \/ WriteFile \/ Update

Next ==
    \/ \E p \in Producers : Producer(p) \/ \E r \in Records : Claim(p, r)
    \/ Reader
    \/ Stop

Spec == Init /\ [][Next]_vars

\* All threads are scheduled, and the timed wait of the reader ends.
FairSpec == Spec /\ WF_vars(Reader) /\ \A p \in Producers : WF_vars(Producer(p))
-----------------------------------------------------------------------------
\* Every variable has its type, and the sequence numbers are in order.
TypeOK ==
    /\ write \in Nat /\ writeDone \in Nat /\ readDone \in Nat
    /\ readDone <= writeDone /\ writeDone <= write /\ writeDone <= readDone + RingSize
    /\ ring \in [0..RingSize - 1 -> (Records \cup {Nobody}) \X Nat]
    /\ ppc \in [Producers -> {"idle", "space", "publish"}]
    /\ record \in [Producers -> Records \cup {Nobody}]
    /\ wseq \in [Producers -> 0..write]
    /\ cpc \in {"check", "wait", "look", "empty", "append", "update", "done"}
    /\ seen \in 0..writeDone
    /\ running \in BOOLEAN
    /\ Len(order) = write
    /\ logged \subseteq Records

\* What is published and not yet written is intact in the ring, whatever the producers
\* that are ahead copy.
RingIntact == \A seq \in readDone + 1..writeDone : ring[Slot(seq)] = order[seq]

\* Both: no producer gets further ahead of the reader than the ring is long, and none
\* overwrites what the reader has still to write.
RingSafe == TypeOK /\ RingIntact

\* The file holds whole bytes of records in the order of claiming, without a gap.
Log == INSTANCE RecordLog

WritesInOrder == Log!Spec

\* Every append that began returns, also when the ring is full, unless the logger is stopped.
AppendReturns == \A p \in Producers : (ppc[p] # "idle") ~> (ppc[p] = "idle" \/ ~running)

\* The reader catches up with what is published, unless the logger is stopped.
EverythingWritten == (Len(file) < writeDone) ~> (Len(file) = writeDone \/ ~running)
==============================================================================
