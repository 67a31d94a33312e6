------------------------------- MODULE LogFile -------------------------------
(***************************************************************************)
(* logfile and appendfile (pax/log/logfile.cpp, fileutil.cpp): the files   *)
(* that the log is cut into.  They are written by one thread.  The name of *)
(* a file is the local time at which it was made and a letter; local times *)
(* come again when summer time ends, and fopen with "a" continues a file   *)
(* there is.  fwrite may write less than it was given, or nothing.  The    *)
(* time itself is assumed not to be set back.                              *)
(***************************************************************************)
EXTENDS Naturals, Sequences

CONSTANTS rollsize_,
          Local,     \* localtime_r, for each second
          A, Z, a,   \* the letters 'A', 'Z' and 'a': 65, 90, 97
          Slash,     \* '/', which cannot be in a name: 47
          CharMod,   \* number of values of a char: 256; those below 'A' are the last ones
          SizeMod,   \* number of values of a size_t: 2^64
          MaxLen,    \* bound of one record
          MaxBytes,  \* bound of the log
          MaxFile,   \* bound of a file, which one short write may make grow for ever
          MaxTime    \* bound of the clock

LogFileAssumption ==
    /\ rollsize_ \in Nat \ {0} /\ SizeMod \in Nat /\ rollsize_ < SizeMod
    /\ A \in Nat /\ Z \in Nat /\ a \in Nat /\ Slash \in Nat /\ CharMod \in Nat
    /\ Slash < A /\ A <= Z /\ Z < a /\ a < CharMod
    /\ MaxLen \in Nat /\ MaxBytes \in Nat /\ MaxFile \in Nat
    /\ MaxTime \in Nat \ {0} /\ Local \in [1..MaxTime -> Nat]

VARIABLES
    now,           \* ::time
    lastRoll,      \* last_roll_
    tie,           \* the letter in tie_
    made,          \* time and letter of the files, in the order they were opened
    contents,      \* what was written to each since
    writtenBytes,  \* written_bytes_ of the last one
    len,           \* bytes append_unlock has still to write
    temp,          \* bytes append has been given; 0: it is not running
    remain,        \* remain in append
    logged,        \* bytes append was given before (history variable)
    short,         \* files for which fwrite has written less than all (history variable)
    aborted        \* fopen has failed, and so has assert(fp_)

vars == <<now, lastRoll, tie, made, contents, writtenBytes, len, temp, remain, logged, short, aborted>>

\* Mutant of Tie: the letter is changed only if the time has changed.
TieLate(time, last, letter) == IF time = last THEN letter ELSE A

\* The letter of the next file, which is a char.
Tie(time, last, letter) ==
    CASE time # last               -> A
      [] time = last /\ letter = Z -> a
      [] OTHER                     -> (letter + 1) % CharMod

\* The constructor calls rollfile with last_roll_ = 0.
Init ==
    /\ now = 1 /\ lastRoll = 1 /\ tie = A
    /\ made = <<<<1, A>>>> /\ contents = <<<<>>>> /\ writtenBytes = 0
    /\ len = 0 /\ temp = 0 /\ remain = 0 /\ logged = 0 /\ short = {} /\ aborted = FALSE

AppendUnlock ==
    /\ len = 0
    /\ len' \in 1..MaxLen /\ logged + len' <= MaxBytes
    /\ UNCHANGED <<now, lastRoll, tie, made, contents, writtenBytes, temp, remain, logged, short, aborted>>

\* An iteration of append_unlock: rollfile, if the last file is full, ...
RollFile ==
    /\ len > 0 /\ temp = 0 /\ writtenBytes = rollsize_
    /\ tie' = Tie(now, lastRoll, tie)
    /\ lastRoll' = now
    /\ IF tie' = Slash
       THEN aborted' = TRUE /\ UNCHANGED <<made, contents, writtenBytes>>
       ELSE /\ made' = Append(made, <<now, tie'>>)
            /\ contents' = Append(contents, <<>>)
            /\ writtenBytes' = 0
            /\ UNCHANGED aborted
    /\ UNCHANGED <<now, len, temp, remain, logged, short>>

\* The smaller of len and leftbytes.
LeftBytes == IF len < rollsize_ - writtenBytes THEN len ELSE rollsize_ - writtenBytes

\* ... and append, with as much as fits.
AppendPart ==
    /\ len > 0 /\ temp = 0 /\ writtenBytes # rollsize_
    /\ temp' = LeftBytes /\ remain' = LeftBytes
    /\ UNCHANGED <<now, lastRoll, tie, made, contents, writtenBytes, len, logged, short, aborted>>

\* The loop of append: fwrite is given all bytes again and writes the first n of them.  When it
\* writes none, or remain is 0, all count as written.
AppendFile(n) ==
    /\ temp > 0
    /\ contents' = [contents EXCEPT ![Len(contents)] = @ \o [k \in 1..n |-> logged + k]]
    /\ short' = IF n < temp THEN short \cup {Len(contents)} ELSE short
    /\ remain' = (remain + SizeMod - n) % SizeMod
    /\ IF n = 0 \/ remain' = 0
       THEN /\ writtenBytes' = writtenBytes + temp
            /\ logged' = logged + temp /\ len' = len - temp /\ temp' = 0
       ELSE UNCHANGED <<writtenBytes, logged, len, temp>>
    /\ UNCHANGED <<now, lastRoll, tie, made, aborted>>

Tick ==
    /\ now < MaxTime
    /\ now' = now + 1
    /\ UNCHANGED <<lastRoll, tie, made, contents, writtenBytes, len, temp, remain, logged, short, aborted>>

Next ==
    /\ ~aborted
    /\ \/ AppendUnlock \/ RollFile \/ AppendPart \/ Tick
       \/ \E n \in 0..temp : Len(contents[Len(contents)]) + n <= MaxFile /\ AppendFile(n)

Spec == Init /\ [][Next]_vars
-----------------------------------------------------------------------------
\* The local time and the letter.
Name(k) == <<Local[made[k][1]], made[k][2]>>

\* The letters that can be in a name: 'A' to 'Z', and from 'a' on until '/' is reached.
Letters == (Z - A + 1) + (CharMod - a) + Slash

\* Two files have the same name only if the local time has come again, and the process is aborted
\* for want of a name only after it has made a file with each letter within a second.
\* However fwrite fails, the log is cut after every rollsize_ bytes, and a file has only bytes of
\* its part of the log; it has exactly these, in their order, if fwrite has written all it was
\* given for this file.
FilesIntact ==
    /\ \A j, k \in DOMAIN made : Name(j) = Name(k) /\ j # k => made[j][1] # made[k][1]
    /\ aborted => \A k \in 0..Letters - 1 : k < Len(made) /\ made[Len(made) - k][1] = now
    /\ writtenBytes <= rollsize_ /\ logged = (Len(contents) - 1) * rollsize_ + writtenBytes
    /\ \A k \in DOMAIN contents : \A n \in DOMAIN contents[k] :
            contents[k][n] \in (k - 1) * rollsize_ + 1..k * rollsize_
    /\ \A k \in DOMAIN contents \ short :
            /\ Len(contents[k]) = IF k < Len(contents) THEN rollsize_ ELSE writtenBytes
            /\ \A n \in DOMAIN contents[k] : contents[k][n] = (k - 1) * rollsize_ + n
==============================================================================
