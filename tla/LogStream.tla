------------------------------ MODULE LogStream ------------------------------
(***************************************************************************)
(* How a record of the log is put together (pax/log/logstream.cpp,         *)
(* logging.cpp): values are formatted into a logbuffer of a fixed size,    *)
(* one that may not fit is left out, and flush ends the record with a      *)
(* newline and outputs it.                                                 *)
(***************************************************************************)
EXTENDS Integers, SequencesExt

CONSTANTS SIZE,             \* of the logbuffer: 2048
          kMaxNumericSize,  \* room that a number may need: 32
          Bits,             \* width of the integers: 64
          Texts,            \* strings, as sequences of characters
          Numbers           \* the integers that are formatted

Power(base) == LET power[n \in Nat] == IF n = 0 THEN 1 ELSE base * power[n - 1] IN power

Signed == -Power(2)[Bits - 1]..Power(2)[Bits - 1] - 1
Unsigned == 0..Power(2)[Bits] - 1

\* staticCheck asks for more: kMaxNumericSize - 10 > digits10.
LogStreamAssumption ==
    /\ Bits \in Nat \ {0} /\ kMaxNumericSize \in Nat /\ SIZE \in Nat
    /\ SIZE >= kMaxNumericSize /\ kMaxNumericSize >= 3
    /\ Power(2)[Bits] <= Power(10)[kMaxNumericSize - 3]
    /\ Texts \subseteq Seq(STRING)
    /\ Numbers \subseteq Signed \cup Unsigned

VARIABLES
    data,     \* data_ up to current_
    put,      \* what was formatted into it, one after the other (history variable)
    written   \* the record that flush has just output, and what was formatted into it

vars == <<data, put, written>>

Left == SIZE - Len(data)

Blank == [data |-> <<"\n">>, put |-> <<>>]

Init == data = <<>> /\ put = <<>> /\ written = Blank
-----------------------------------------------------------------------------
logDigitsHex ==
    <<"0", "1", "2", "3", "4", "5", "6", "7", "8", "9", "A", "B", "C", "D", "E", "F">>

Magnitude(i) == IF i < 0 THEN -i ELSE i

\* Division and remainder of C++ round towards zero.
Quotient(i, base) == IF i < 0 THEN -(Magnitude(i) \div base) ELSE i \div base
Remainder(i, base) == i - base * Quotient(i, base)

\* Mutant of Digit: the table has no place for negative remainders.
DigitPlain(r) == logDigitsHex[(r % 16) + 1]

\* logZero[lsd], of a table that is the same on both sides of zero, and logDigitsHex[lsd]
Digit(r) == logDigitsHex[Magnitude(r) + 1]

Digits(base) ==
    LET text[i \in Int] ==
          LET q == Quotient(i, base) IN
          (IF q = 0 THEN <<>> ELSE text[q]) \o <<Digit(Remainder(i, base))>>
    IN  text

logConvert(v) == (IF v < 0 THEN <<"-">> ELSE <<>>) \o Digits(10)[v]

\* operator<< of a pointer
logConvertHex(v) == <<"0", "x">> \o Digits(16)[v]
-----------------------------------------------------------------------------
Add(text) ==
    /\ data' = data \o text
    /\ put' = Append(put, text)
    /\ written' = Blank

\* Mutant of Fits: a string may fill the buffer.
FitsExactly(text) == Left >= Len(text)

\* leftBytes() > len
Fits(text) == Left > Len(text)

\* append; what does not fit is left out.
AppendText == \E text \in Texts : Fits(text) /\ Add(text)

\* formatInteger, and operator<< of a pointer
FormatInteger ==
    /\ Left >= kMaxNumericSize
    /\ \E v \in Numbers : Add(logConvert(v))

FormatPointer ==
    /\ Left >= kMaxNumericSize
    /\ \E v \in Numbers \cap Unsigned : Add(logConvertHex(v))

\* logger::flush
Flush ==
    /\ data # <<>>
    /\ written' = [put  |-> put,
                   data |-> IF Last(data) = "\n" THEN data
                            ELSE IF Left # 0 THEN Append(data, "\n")
                            ELSE [data EXCEPT ![Len(data)] = "\n"]]
    /\ data' = <<>> /\ put' = <<>>

Next == AppendText \/ FormatInteger \/ FormatPointer \/ Flush

Spec == Init /\ [][Next]_vars
-----------------------------------------------------------------------------
DigitValue(digit) == CHOOSE d \in 0..15 : logDigitsHex[d + 1] = digit

Value(base, digits) ==
    LET value[n \in 0..Len(digits)] ==
          IF n = 0 THEN 0 ELSE base * value[n - 1] + DigitValue(digits[n])
    IN  value[Len(digits)]

\* The text of an integer is that integer, also of the smallest one, which has no opposite,
\* and fits, with the 0 at its end, into the room that is asked for; so does a pointer's.
ConvertExact ==
    /\ \A v \in Signed \cup Unsigned :
          LET text == logConvert(v) IN
          /\ v = IF text[1] = "-" THEN -Value(10, Tail(text)) ELSE Value(10, text)
          /\ text = <<"0">> \/ text[IF v < 0 THEN 2 ELSE 1] # "0"
          /\ Len(text) < kMaxNumericSize
    /\ \A v \in Unsigned :
          LET text == logConvertHex(v) IN
          /\ v = Value(16, Tail(Tail(text)))
          /\ Len(text) < kMaxNumericSize

\* A record has all that was formatted into it, each value as a whole, and ends with a
\* newline, for which there is always room: flush overwrites nothing.
RecordsIntact ==
    /\ Left > 0
    /\ data = FlattenSeq(put)
    /\ Last(written.data) = "\n"
    /\ written.data \in {FlattenSeq(written.put), FlattenSeq(written.put) \o <<"\n">>}
    /\ put = <<>> => ConvertExact
==============================================================================
