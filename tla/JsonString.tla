------------------------------- MODULE JsonString -------------------------------
(***************************************************************************)
(* The characters of strings (jsoncpp.cpp): how the writers escape them,   *)
(* where the reader finds the end of a string, and what it decodes.  A     *)
(* text is a sequence of bytes by their numbers; as texts are C strings,   *)
(* none of them is 0.                                                      *)
(***************************************************************************)
EXTENDS Integers, Sequences, SequencesExt, TLC

QuoteMark == 34
Backslash == 92
LetterU == 117

\* The bytes with an escape of their own, and its letter.
Letter == 8 :> 98 @@ 9 :> 116 @@ 10 :> 110 @@ 12 :> 102 @@ 13 :> 114
          @@ QuoteMark :> QuoteMark @@ Backslash :> Backslash

isControlCharacter(c) == c \in 1..31

Hex(n) == IF n < 10 THEN 48 + n ELSE 55 + n
UnicodeEscape(cp) ==
  <<Backslash, LetterU, Hex(cp \div 4096), Hex((cp \div 256) % 16), Hex((cp \div 16) % 16), Hex(cp % 16)>>

Escape(c) ==
  IF c \in DOMAIN Letter THEN <<Backslash, Letter[c]>>
  ELSE IF isControlCharacter(c) THEN UnicodeEscape(c) ELSE <<c>>

valueToQuotedString(text) ==
  <<QuoteMark>> \o FlattenSeq([i \in DOMAIN text |-> Escape(text[i])]) \o <<QuoteMark>>

\* readString: the position of the mark that ends the string, 0 if none does.
RECURSIVE readString(_, _)
readString(doc, i) ==
  IF i > Len(doc) THEN 0
  ELSE IF doc[i] = Backslash THEN readString(doc, i + 2)
  ELSE IF doc[i] = QuoteMark THEN i ELSE readString(doc, i + 1)

-----------------------------------------------------------------------------
codePointToUTF8(cp) ==
  LET Six(n) == 128 + ((cp \div n) % 64)
  IN IF cp <= 127 THEN <<cp>>
     ELSE IF cp <= 2047 THEN <<192 + cp \div 64, Six(1)>>
     ELSE IF cp <= 65535 THEN <<224 + cp \div 4096, Six(64), Six(1)>>
     ELSE <<240 + cp \div 262144, Six(4096), Six(64), Six(1)>>

Bad == [ok |-> FALSE, text |-> <<>>]

\* The value of a hexadecimal digit, in upper or lower case.
HexValue == [c \in 48..57 |-> c - 48] @@ [c \in 65..70 |-> c - 55] @@ [c \in 97..102 |-> c - 87]

\* decodeUnicodeEscapeSequence: the four digits from i on.
FourDigits(body, i) == i + 3 <= Len(body) /\ \A j \in i..(i + 3) : body[j] \in DOMAIN HexValue
Unicode(body, i) == FoldLeft(LAMBDA n, c : 16 * n + HexValue[c], 0, SubSeq(body, i, i + 3))

\* decodeUnicodeCodePoint: what follows the first half of a pair is taken
\* for the second half, whichever code point it is.
IsFirstHalf(cp) == cp \in 55296..56319
Pairs(body, i) ==
  /\ i + 5 <= Len(body) /\ body[i] = Backslash /\ body[i + 1] = LetterU
  /\ FourDigits(body, i + 2)
Paired(first, second) == 65536 + 1024 * (first % 1024) + (second % 1024)

LetterOf == [l \in {Letter[c] : c \in DOMAIN Letter} |-> CHOOSE c \in DOMAIN Letter : Letter[c] = l]
            @@ 47 :> 47

\* decodeString, from position i of what is between the marks.
RECURSIVE decodeString(_, _)
decodeString(body, i) ==
  LET Then(chars, next) ==
        LET rest == decodeString(body, next)
        IN IF rest.ok THEN [ok |-> TRUE, text |-> chars \o rest.text] ELSE Bad
  IN IF i > Len(body) \/ body[i] = QuoteMark THEN [ok |-> TRUE, text |-> <<>>]
     ELSE IF body[i] # Backslash THEN Then(<<body[i]>>, i + 1)
     ELSE IF i = Len(body) THEN Bad
     ELSE IF body[i + 1] \in DOMAIN LetterOf THEN Then(<<LetterOf[body[i + 1]]>>, i + 2)
     ELSE IF body[i + 1] # LetterU \/ ~FourDigits(body, i + 2) THEN Bad
     ELSE LET cp == Unicode(body, i + 2)
          IN IF ~IsFirstHalf(cp) THEN Then(codePointToUTF8(cp), i + 6)
             ELSE IF ~Pairs(body, i + 6) THEN Bad
             ELSE Then(codePointToUTF8(Paired(cp, Unicode(body, i + 8))), i + 12)

\* The text of the value: a C string ends at the first byte 0.
AsCString(text) ==
  LET i == SelectInSeq(text, LAMBDA c : c = 0) IN IF i = 0 THEN text ELSE SubSeq(text, 1, i - 1)

\* What the reader makes of a document that begins with a quotation mark.
StringRead(doc) ==
  LET end == readString(doc, 2)
      decoded == decodeString(SubSeq(doc, 2, end - 1), 1)
  IN IF end = 0 THEN Bad ELSE [decoded EXCEPT !.text = AsCString(@)]
=============================================================================
