------------------------------- MODULE Netstring -------------------------------
(***************************************************************************)
(* netstring::encode and decode (netstring.cpp) over sequences of          *)
(* characters, and what TcpServer and UdpServer do with the format they    *)
(* were given.  The length is written in a base that may be smaller than   *)
(* ten, so that short texts have lengths of several digits.                *)
(***************************************************************************)
EXTENDS Integers, Sequences, SequencesExt

CONSTANTS
  Base,        \* 10 in the code
  ULongRange   \* the values of an unsigned long, 2^64

ASSUME BaseAssumption == Base \in 2..10 /\ ULongRange \in Nat \ {0}

DigitChars == <<"0", "1", "2", "3", "4", "5", "6", "7", "8", "9">>
IsDigit(c) == \E d \in 1..Base : c = DigitChars[d]
DigitValue(c) == (CHOOSE d \in 1..Base : c = DigitChars[d]) - 1

\* sprintf, without leading zeros
LengthText[n \in Nat] ==
  IF n < Base THEN <<DigitChars[n + 1]>>
  ELSE Append(LengthText[n \div Base], DigitChars[(n % Base) + 1])

Comma == ","
encode(str) == LengthText[Len(str)] \o <<":">> \o str \o <<Comma>>

\* What the digits of a length say, as an unsigned long.
NumberOf(digits) ==
  LET value[i \in 0..Len(digits)] ==
        IF i = 0 THEN 0 ELSE (Base * value[i - 1] + DigitValue(digits[i])) % ULongRange
  IN value[Len(digits)]

\* A decode gives a text or throws NetstringException.
Text(str) == [thrown |-> FALSE, text |-> str]
Thrown == [thrown |-> TRUE, text |-> <<>>]

\* index is that of the ":" from one.
SizeFits(len, str, index) == len = (Len(str) - index - 1) % ULongRange

\* The last character need not be a ",": one anywhere will do.
decode(str) ==
  LET index == SelectInSeq(str, LAMBDA c : c = ":")
      length == SubSeq(str, 1, index - 1)
      len == NumberOf(length)
  IN IF \/ index = 0 \/ Comma \notin ToSet(str)
        \/ \E i \in DOMAIN length : ~IsDigit(length[i])
     THEN Thrown
     ELSE IF ~SizeFits(len, str, index) THEN Thrown
     ELSE Text(SubSeq(str, index + 1, index + len))

\* What Send and the reply put on the wire, and what Recv makes of it.
Encoded(format, str) == IF format = "NETSTRING" THEN encode(str) ELSE str
Decoded(format, str) == IF format = "NETSTRING" THEN decode(str) ELSE Text(str)
=============================================================================
