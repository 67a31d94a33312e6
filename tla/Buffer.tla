-------------------------------- MODULE Buffer --------------------------------
(***************************************************************************)
(* buffer (pax/base/buffer.cpp): unread bytes between two indices of a     *)
(* vector that grows, or whose bytes move to the front, when space is      *)
(* needed at the end.  Cells outside of the indices hold Junk: what was    *)
(* there is not to be read again.                                          *)
(***************************************************************************)
EXTENDS Integers, Sequences

CONSTANTS kCheapPrepend,  \* 8
          kInitialSize,   \* 1024
          Period,         \* bytes are given out in turn: 0..Period - 1
          Junk,
          MaxLen,         \* bound of the length of one call
          MaxUsed         \* bound of the unread bytes

BufferAssumption ==
    /\ kCheapPrepend \in Nat /\ kInitialSize \in Nat /\ Period \in Nat \ {0}
    /\ MaxLen \in Nat /\ MaxUsed \in Nat /\ Junk \notin 0..Period - 1

VARIABLES
    cells,  \* buffer_
    begin,  \* begin_index_
    end,    \* end_index_
    unread  \* what the buffer should hold (history variable)

vars == <<cells, begin, end, unread>>

Size == Len(cells)
Used == end - begin
Left == Size - end
Content == SubSeq(cells, begin + 1, end)

Init ==
    /\ cells = [k \in 1..kCheapPrepend + kInitialSize |-> Junk]
    /\ begin = kCheapPrepend /\ end = kCheapPrepend
    /\ unread = <<>>

\* The next bytes: each is another than the one before.
Fresh(len) ==
    [k \in 1..len |-> (k + IF unread = <<>> THEN 0 ELSE unread[Len(unread)]) % Period]

\* size cells with nothing but bytes, from index at on.
Set(bytes, at, size) ==
    /\ cells' = [k \in 1..size |-> IF k \in at + 1..at + Len(bytes) THEN bytes[k - at] ELSE Junk]
    /\ begin' = at
    /\ end' = at + Len(bytes)

\* Mutant of Moves: the place of kCheapPrepend is not kept.
MovesTight(left, len) == left + begin >= len

\* leftBytes() + prependableBytes() >= len + kCheapPrepend
Moves(left, len) == left + begin >= len + kCheapPrepend

\* ensureLeftBytes(len) when content ends left cells before the end; then bytes are added.
Extend(content, left, len, bytes) ==
    IF left >= len THEN Set(content \o bytes, begin, Size)
    ELSE IF Moves(left, len) THEN Set(content \o bytes, kCheapPrepend, Size)
    ELSE Set(content \o bytes, begin, begin + Len(content) + len)

EnsureLeftBytes(len) ==
    /\ Extend(Content, Left, len, <<>>)
    /\ UNCHANGED unread

\* append, or ensureLeftBytes, a copy to endPtr, and hasUsed.
AppendBytes(len) ==
    /\ Used + len <= MaxUsed
    /\ unread' = unread \o Fresh(len)
    /\ Extend(Content, Left, len, Fresh(len))

\* readFd: what does not fit is read into extrabuf, and appended.
ReadFd(len) ==
    /\ Used + len <= MaxUsed
    /\ unread' = unread \o Fresh(len)
    /\ LET fit == IF len <= Left THEN len ELSE Left IN
       Extend(Content \o SubSeq(Fresh(len), 1, fit), Left - fit, len - fit,
              SubSeq(Fresh(len), fit + 1, len))

Prepend(len) ==
    /\ len <= begin /\ Used + len <= MaxUsed
    /\ unread' = Fresh(len) \o unread
    /\ Set(Fresh(len) \o Content, begin - len, Size)

\* retrieve and retrieveAll
Retrieve(len) ==
    /\ len <= Used
    /\ unread' = SubSeq(unread, len + 1, Len(unread))
    /\ IF len < Used THEN Set(SubSeq(Content, len + 1, Used), begin + len, Size)
                     ELSE Set(<<>>, kCheapPrepend, Size)

UnUsed(len) ==
    /\ len <= Used
    /\ unread' = SubSeq(unread, 1, Len(unread) - len)
    /\ Set(SubSeq(Content, 1, Used - len), begin, Size)

Next ==
    \E len \in 1..MaxLen :
        \/ EnsureLeftBytes(len) \/ AppendBytes(len) \/ ReadFd(len) \/ Prepend(len)
        \/ Retrieve(len) \/ UnUsed(len)

Spec == Init /\ [][Next]_vars
-----------------------------------------------------------------------------
\* The buffer holds what was appended, read and prepended and not retrieved yet, in order,
\* however it grew and moved; bytes only move to the front, as makeSpace asserts.
BufferIntact ==
    /\ 0 <= begin /\ begin <= end /\ end <= Size
    /\ Content = unread
    /\ \A len \in 1..MaxLen : Left < len /\ Moves(Left, len) => kCheapPrepend < begin
==============================================================================
