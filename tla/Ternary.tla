-------------------------------- MODULE Ternary --------------------------------
(***************************************************************************)
(* The ternary match strings of the rule files and the header sets they    *)
(* stand for: HdrLen bytes of ByteBits characters 0, 1 or x, one separator *)
(* between two bytes.  The code has ByteBits = 8.                          *)
(***************************************************************************)
EXTENDS Integers, Sequences

CONSTANTS HdrLen, ByteBits

ASSUME LengthAssumption == HdrLen \in Nat /\ ByteBits \in Nat \ {0}

Chars == {"0", "1", "x", "sep"}
Bits == {"0", "1"}

\* The variables of the BDD package, and a header as a value for each.
HeaderVars == 0..(ByteBits * HdrLen - 1)
HeaderSpace == [HeaderVars -> Bits]

\* match_len of match2bdd.
MatchLen == IF HdrLen # 1 THEN ByteBits * HdrLen + HdrLen - 1 ELSE ByteBits

\* A complete match string has its separators between bytes and only there.
WellFormed(m) ==
  /\ Len(m) >= MatchLen
  /\ \A p \in 1..MatchLen : (m[p] = "sep") <=> (p % (ByteBits + 1) = 0)

\* The character that constrains header bit v, past one separator per byte.
CharOf(v) == v + v \div ByteBits + 1

\* What a complete match string means: the headers that agree with it in
\* every bit it does not leave open.
Denotation(m) ==
  {h \in HeaderSpace : \A v \in HeaderVars : m[CharOf(v)] \in {"x", h[v]}}
=============================================================================
