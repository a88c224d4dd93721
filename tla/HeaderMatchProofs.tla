--------------------------- MODULE HeaderMatchProofs ---------------------------
(***************************************************************************)
(* match2bdd for headers of every length: its types, and that a well-      *)
(* formed match string is loaded and yields the headers it stands for.     *)
(***************************************************************************)
EXTENDS HeaderMatch, FiniteSetTheorems, TLAPS

\* Division by d of a number given by its quotient and rest.
LEMMA DivMod ==
  ASSUME NEW d \in Nat \ {0}, NEW q \in Nat, NEW r \in 0..(d - 1)
  PROVE  (q * d + r) \div d = q /\ (q * d + r) % d = r
<1> DEFINE n == q * d + r
           k == n \div d
<1>1. n \in Nat
  OBVIOUS
<1>2. k \in Nat /\ n % d \in 0..(d - 1) /\ n = d * k + (n % d)
  BY <1>1
<1>3. ~(k < q)
  <2> SUFFICES ASSUME k < q PROVE FALSE
    OBVIOUS
  <2>1. d * (k + 1) <= d * q
    BY <1>2
  <2> QED BY <2>1, <1>2
<1>4. ~(k > q)
  <2> SUFFICES ASSUME k > q PROVE FALSE
    OBVIOUS
  <2>1. d * (q + 1) <= d * k
    BY <1>2
  <2> QED BY <2>1, <1>2
<1>5. k = q
  BY <1>2, <1>3, <1>4
<1> QED BY <1>2, <1>5

-----------------------------------------------------------------------------
(***************************************************************************)
(* The strengthening.  In a well-formed string, q bytes with their         *)
(* separators and r characters more have been read, of which q * ByteBits  *)
(* + r are bits; and every bit read is in the cube as it is in the string. *)
(* In any string of full length, idx counts the bit characters read, and   *)
(* each of them is in the cube at its count.                               *)
(***************************************************************************)
InStep ==
  \E q \in Nat, r \in 0..ByteBits :
    i = q * (ByteBits + 1) + r /\ idx = q * ByteBits + r

Built ==
  /\ DOMAIN result \subseteq 0..(idx - 1)
  /\ \A v \in 0..(idx - 1) :
       IF v \in DOMAIN result THEN result[v] = match[CharOf(v)]
       ELSE match[CharOf(v)] = "x"

Placed(p) ==
  LET v == BitsAmong(p - 1)
  IN  match[p] # "sep" =>
        IF v \in DOMAIN result THEN result[v] = match[p] ELSE match[p] = "x"

InOrder ==
  /\ idx = BitsAmong(i)
  /\ \A v \in DOMAIN result : v < idx
  /\ \A p \in 1..i : Placed(p)

IInv ==
  /\ TypeOK
  /\ status = "done" => ~(i < MatchLen)
  /\ Len(match) >= MatchLen => InOrder
  /\ WellFormed(match) => InStep /\ Built /\ status # "aborted"

\* match_len is a number.
LEMMA MatchLenType == MatchLen \in Int
<1>1. HdrLen \in Int /\ ByteBits \in Int
  BY LengthAssumption
<1>2. ByteBits * HdrLen \in Int
  BY <1>1
<1> QED BY <1>1, <1>2 DEF MatchLen

\* With a byte to come, the string is as long as its bytes and the
\* separators between them.
LEMMA MatchLenValue ==
  ASSUME HdrLen > 0
  PROVE  MatchLen = HdrLen * (ByteBits + 1) - 1
BY LengthAssumption DEF MatchLen

\* Where a bit is due in a well-formed string, the next variable exists and
\* its character is the one that is read.
LEMMA NextBit ==
  ASSUME NEW q \in Nat, NEW r \in 0..ByteBits,
         q * (ByteBits + 1) + r < MatchLen
  PROVE  LET p == q * (ByteBits + 1) + r + 1
             v == q * ByteBits + r
         IN /\ p \in 1..MatchLen
            /\ (p % (ByteBits + 1) = 0) <=> r = ByteBits
            /\ r < ByteBits => v \in HeaderVars /\ CharOf(v) = p
<1> DEFINE B == ByteBits
           H == HdrLen
           p == q * (B + 1) + r + 1
           v == q * B + r
<1>1. B \in Nat \ {0} /\ H \in Nat
  BY LengthAssumption
<1>2. q * (B + 1) \in Nat /\ q * B \in Nat /\ q * (B + 1) = q * B + q
  BY <1>1
<1>3. H > 0
  <2>1. CASE H = 0
    BY <2>1, <1>1, <1>2 DEF MatchLen
  <2> QED BY <2>1, <1>1
<1>4. MatchLen = H * (B + 1) - 1 /\ H * (B + 1) \in Nat
  BY <1>1, <1>3, MatchLenValue
<1>5. p \in 1..MatchLen
  BY <1>2, <1>4
<1>6. (p % (B + 1) = 0) <=> r = B
  <2>1. CASE r = B
    <3>1. p = (q + 1) * (B + 1) + 0
      BY <2>1, <1>1, <1>2
    <3> HIDE DEF p
    <3>2. p % (B + 1) = 0
      BY <3>1, <1>1, DivMod, 0 \in 0..((B + 1) - 1), B + 1 \in Nat \ {0}, q + 1 \in Nat
    <3> QED BY <3>2, <2>1
  <2>2. CASE r # B
    <3>1. p = q * (B + 1) + (r + 1) /\ r + 1 \in 0..((B + 1) - 1)
      BY <2>2, <1>1, <1>2
    <3> HIDE DEF p
    <3>2. p % (B + 1) = r + 1
      BY <3>1, <1>1, DivMod, B + 1 \in Nat \ {0}
    <3> QED BY <3>2, <2>2
  <2> QED BY <2>1, <2>2
<1>7. ASSUME r < B PROVE v \in HeaderVars /\ CharOf(v) = p
  <2>1. q < H
    <3> SUFFICES ASSUME q >= H PROVE FALSE
      BY <1>1
    <3>1. q * (B + 1) >= H * (B + 1)
      BY <1>1
    <3> QED BY <3>1, <1>2, <1>4
  <2>2. B * (q + 1) <= B * H
    BY <2>1, <1>1
  <2>3. v \in HeaderVars
    BY <2>2, <1>1, <1>2, <1>7 DEF HeaderVars
  <2>4. v \div B = q
    BY <1>1, <1>7, DivMod
  <2> QED BY <2>3, <2>4, <1>2 DEF CharOf
<1> QED BY <1>5, <1>6, <1>7

\* The count of bit characters is a number, and one character more adds one
\* to it exactly if it is no separator.
LEMMA CountNext ==
  ASSUME NEW p \in Nat
  PROVE  /\ BitsAmong(p) \in Nat
         /\ BitsAmong(p + 1) = IF match[p + 1] # "sep" THEN BitsAmong(p) + 1
                               ELSE BitsAmong(p)
<1> DEFINE S(n) == {q \in 1..n : match[q] # "sep"}
<1>1. IsFiniteSet(S(p))
  <2>1. IsFiniteSet(1..p)
    BY FS_Interval
  <2> QED BY <2>1, FS_Subset
<1>2. Cardinality(S(p)) \in Nat
  BY <1>1, FS_CardinalityType
<1>3. CASE match[p + 1] # "sep"
  <2>1. S(p + 1) = S(p) \cup {p + 1} /\ p + 1 \notin S(p)
    BY <1>3
  <2>2. Cardinality(S(p + 1)) = Cardinality(S(p)) + 1
    BY <1>1, <2>1, FS_AddElement
  <2> QED BY <1>2, <1>3, <2>2 DEF BitsAmong
<1>4. CASE match[p + 1] = "sep"
  <2>1. S(p + 1) = S(p)
    BY <1>4
  <2> QED BY <1>2, <1>4, <2>1 DEF BitsAmong
<1> QED BY <1>3, <1>4

\* No character is counted before the first, and a later prefix counts no
\* fewer bit characters than an earlier one.
LEMMA CountGrows ==
  ASSUME NEW p \in Nat, NEW n \in Nat, n <= p
  PROVE  BitsAmong(n) <= BitsAmong(p) /\ BitsAmong(0) = 0
<1> DEFINE S(m) == {q \in 1..m : match[q] # "sep"}
<1>1. IsFiniteSet(1..p) /\ S(p) \subseteq 1..p /\ S(n) \subseteq S(p) /\ S(0) = {}
  BY FS_Interval
<1>2. IsFiniteSet(S(p)) /\ Cardinality(S(n)) <= Cardinality(S(p))
  BY <1>1, FS_Subset
<1>3. Cardinality(S(0)) = 0
  BY <1>1, FS_EmptySet
<1> QED BY <1>2, <1>3 DEF BitsAmong

-----------------------------------------------------------------------------
\* Before the first character nothing has been read and nothing built.
LEMMA InitInvariant == Init => IInv
<1> SUFFICES ASSUME Init PROVE IInv
  OBVIOUS
<1> USE DEF Init
<1>1. TypeOK
  BY StringAssumption DEF TypeOK
<1>2. InStep
  BY LengthAssumption DEF InStep
<1>3. Built
  BY DEF Built
<1>4. InOrder
  BY CountGrows DEF InOrder
<1> QED BY <1>1, <1>2, <1>3, <1>4 DEF IInv

\* No step takes a variable out of its type.
LEMMA TypeStep == TypeOK /\ [Next]_vars => TypeOK'
<1> SUFFICES ASSUME TypeOK, [Next]_vars PROVE TypeOK'
  OBVIOUS
<1> USE MatchLenType DEF TypeOK
<1>1. CASE Wildcard
  BY <1>1 DEF Wildcard, Scanning
<1>2. CASE SkipOther
  BY <1>2 DEF SkipOther, Scanning
<1>3. ASSUME NEW c \in Bits, FixBit(c) PROVE TypeOK'
  BY <1>3 DEF FixBit, Scanning
<1>4. ASSUME NEW c \in Bits, BadVariable(c) PROVE TypeOK'
  BY <1>4 DEF BadVariable
<1>5. CASE Finish
  BY <1>5 DEF Finish
<1>6. CASE UNCHANGED vars
  BY <1>6 DEF vars
<1> QED BY <1>1, <1>2, <1>3, <1>4, <1>5, <1>6 DEF Next, Stopped

\* In a well-formed string no step reads past the end, and the character read
\* is a separator exactly where one is due.
LEMMA ReadWellFormed ==
  ASSUME TypeOK, WellFormed(match), Scanning,
         NEW q \in Nat, NEW r \in 0..ByteBits,
         i = q * (ByteBits + 1) + r, idx = q * ByteBits + r
  PROVE  /\ Read = {match[i + 1]} /\ match[i + 1] \in Chars
         /\ (match[i + 1] = "sep") <=> r = ByteBits
         /\ r < ByteBits => idx \in HeaderVars /\ CharOf(idx) = i + 1
<1>1. i < MatchLen
  BY DEF Scanning
<1>2. /\ i + 1 \in 1..MatchLen
      /\ ((i + 1) % (ByteBits + 1) = 0) <=> r = ByteBits
      /\ r < ByteBits => idx \in HeaderVars /\ CharOf(idx) = i + 1
  BY <1>1, NextBit
<1>3. Len(match) >= MatchLen /\ ((match[i + 1] = "sep") <=> ((i + 1) % (ByteBits + 1) = 0))
  BY <1>2 DEF WellFormed
<1>4. match \in Seq(Chars) /\ i \in Nat /\ Len(match) \in Nat
  BY DEF TypeOK
<1>5. i + 1 \in 1..Len(match)
  BY <1>2, <1>3, <1>4, MatchLenType
<1> QED BY <1>2, <1>3, <1>4, <1>5 DEF Read

\* One character further, q and r move on to the next byte or not.
LEMMA StepsTogether ==
  ASSUME NEW q \in Nat, NEW r \in 0..ByteBits,
         i = q * (ByteBits + 1) + r, idx = q * ByteBits + r, i' = i + 1,
         IF r = ByteBits THEN idx' = idx ELSE idx' = idx + 1
  PROVE  InStep'
<1>1. ByteBits \in Nat \ {0}
  BY LengthAssumption
<1>2. CASE r = ByteBits
  <2>1. i' = (q + 1) * (ByteBits + 1) + 0 /\ idx' = (q + 1) * ByteBits + 0
    BY <1>1, <1>2
  <2> QED BY <2>1, <1>1 DEF InStep
<1>3. CASE r # ByteBits
  <2>1. i' = q * (ByteBits + 1) + (r + 1) /\ idx' = q * ByteBits + (r + 1) /\ r + 1 \in 0..ByteBits
    BY <1>1, <1>3
  <2> QED BY <2>1 DEF InStep
<1> QED BY <1>2, <1>3

\* One character of a string of full length further, its bit, if it is one, is
\* at its count in the cube, and the bits before it are where they were.
LEMMA OrderStep ==
  ASSUME TypeOK, TypeOK', Len(match) >= MatchLen, InOrder, [Next]_vars
  PROVE  InOrder'
<1>1. match \in Seq(Chars) /\ Len(match) \in Nat /\ i \in Nat /\ idx \in Nat
  BY DEF TypeOK
<1>2. match' = match /\ \A p : BitsAmong(p)' = BitsAmong(p)
  BY DEF Next, vars, Wildcard, SkipOther, FixBit, BadVariable, Finish, Stopped, BitsAmong
<1>3. ASSUME Scanning PROVE Read = {match[i + 1]} /\ match[i + 1] \in Chars
  <2>1. i + 1 \in 1..Len(match)
    BY <1>1, <1>3, MatchLenType DEF Scanning
  <2> QED BY <1>1, <2>1 DEF Read
<1>4. /\ BitsAmong(i) = idx
      /\ BitsAmong(i + 1) = IF match[i + 1] # "sep" THEN idx + 1 ELSE idx
  BY <1>1, CountNext DEF InOrder
\* The counts of the bit characters read are below idx.
<1>5. ASSUME NEW p \in 1..i, match[p] # "sep" PROVE BitsAmong(p - 1) < idx
  <2>1. p - 1 \in Nat /\ p \in Nat /\ p <= i /\ (p - 1) + 1 = p
    BY <1>1
  <2>2. BitsAmong(p) = BitsAmong(p - 1) + 1 /\ BitsAmong(p - 1) \in Nat
    BY <1>5, <2>1, CountNext
  <2>3. BitsAmong(p) <= idx
    BY <1>1, <1>4, <2>1, CountGrows
  <2> QED BY <1>1, <2>2, <2>3
<1>6. ASSUME i' = i + 1, idx' = BitsAmong(i + 1),
             \A v \in DOMAIN result' : v < idx',
             \A v : v < idx => /\ v \in DOMAIN result' <=> v \in DOMAIN result
                             /\ result'[v] = result[v],
             match[i + 1] # "sep" =>
               IF idx \in DOMAIN result' THEN result'[idx] = match[i + 1]
               ELSE match[i + 1] = "x"
      PROVE  InOrder'
  <2>1. ASSUME NEW p \in 1..(i + 1) PROVE Placed(p)'
    <3>1. CASE p = i + 1
      BY <1>1, <1>2, <1>4, <1>6, <3>1, (i + 1) - 1 = i DEF Placed
    <3>2. CASE p \in 1..i
      BY <1>2, <1>5, <1>6, <3>2 DEF Placed, InOrder
    <3> QED BY <1>1, <3>1, <3>2
  <2> QED BY <1>2, <1>6, <2>1 DEF InOrder
<1>7. CASE Wildcard
  <2>1. match[i + 1] = "x" /\ idx \notin DOMAIN result
    BY <1>1, <1>3, <1>7 DEF Wildcard, InOrder
  <2>2. idx' = idx + 1 /\ i' = i + 1 /\ result' = result
    BY <1>7 DEF Wildcard
  <2>3. \A v \in DOMAIN result : v < idx /\ v \in Int
    BY DEF InOrder, TypeOK, HeaderVars
  <2>4. \A v \in DOMAIN result' : v < idx'
    BY <1>1, <2>2, <2>3
  <2> QED BY <1>4, <1>6, <2>1, <2>2, <2>4
<1>8. CASE SkipOther
  <2>1. match[i + 1] = "sep"
    BY <1>3, <1>8 DEF SkipOther
  <2> QED BY <1>4, <1>6, <1>8, <2>1 DEF SkipOther, InOrder
<1>9. ASSUME NEW c \in Bits, FixBit(c) PROVE InOrder'
  <2>1. match[i + 1] = c /\ c # "sep"
    BY <1>3, <1>9 DEF FixBit, Bits
  <2>2. /\ idx' = idx + 1 /\ i' = i + 1
        /\ DOMAIN result' = DOMAIN result \cup {idx} /\ result'[idx] = c
        /\ \A v \in DOMAIN result : v # idx => result'[v] = result[v]
    BY <1>9 DEF FixBit
  <2>3. \A v \in DOMAIN result : v < idx /\ v \in Int
    BY DEF InOrder, TypeOK, HeaderVars
  <2>4. \A v \in DOMAIN result' : v < idx'
    BY <1>1, <2>2, <2>3
  <2>5. ASSUME NEW p \in 1..(i + 1) PROVE Placed(p)'
    <3>1. CASE p = i + 1
      BY <1>1, <1>2, <1>4, <2>1, <2>2, <3>1, (i + 1) - 1 = i DEF Placed
    <3>2. CASE p \in 1..i
      <4>1. p - 1 \in Nat
        BY <1>1, <3>2
      <4>2. BitsAmong(p - 1) \in Nat
        BY <4>1, CountNext
      <4>3. match[p] # "sep" => BitsAmong(p - 1) # idx
        BY <1>1, <1>5, <3>2, <4>2
      <4> QED BY <1>2, <2>2, <3>2, <4>3 DEF Placed, InOrder
    <3> QED BY <1>1, <3>1, <3>2
  <2> QED BY <1>2, <1>4, <2>1, <2>2, <2>4, <2>5 DEF InOrder
<1>10. CASE Finish \/ UNCHANGED vars \/ \E c \in Bits : BadVariable(c)
  BY <1>2, <1>10 DEF Finish, vars, BadVariable, InOrder, Placed
<1> QED BY <1>7, <1>8, <1>9, <1>10 DEF Next, Stopped

\* The invariant, with one step per action.
LEMMA StepInvariant == IInv /\ [Next]_vars => IInv'
<1> SUFFICES ASSUME IInv, [Next]_vars PROVE IInv'
  OBVIOUS
<1>1. TypeOK /\ TypeOK'
  BY TypeStep DEF IInv
<1>2. match' = match
  BY DEF Next, vars, Wildcard, SkipOther, FixBit, BadVariable, Finish, Stopped
<1>3. (status = "done" => ~(i < MatchLen))'
  BY <1>1 DEF IInv, Next, vars, Wildcard, SkipOther, FixBit, BadVariable, Finish, Stopped, Scanning
<1>4. ASSUME WellFormed(match) PROVE (InStep /\ Built /\ status # "aborted")'
  <2>1. InStep /\ Built /\ status # "aborted"
    BY <1>4 DEF IInv
  <2>2. PICK q \in Nat, r \in 0..ByteBits :
          i = q * (ByteBits + 1) + r /\ idx = q * ByteBits + r
    BY <2>1 DEF InStep
  <2>3. ASSUME Scanning
        PROVE  /\ Read = {match[i + 1]} /\ match[i + 1] \in Chars
               /\ (match[i + 1] = "sep") <=> r = ByteBits
               /\ r < ByteBits => idx \in HeaderVars /\ CharOf(idx) = i + 1
    BY <2>2, <2>3, <1>1, <1>4, ReadWellFormed
  <2>4. idx \in Nat /\ idx' \in Nat /\ i \in Nat
    BY <1>1 DEF TypeOK
  <2>5. CASE Wildcard
    <3>1. match[i + 1] = "x" /\ r # ByteBits /\ CharOf(idx) = i + 1
      BY <2>3, <2>5, LengthAssumption DEF Wildcard
    <3>2. InStep'
      BY <2>2, <3>1, <2>5, StepsTogether DEF Wildcard
    <3>3. Built'
      BY <2>1, <2>4, <2>5, <3>1, <1>2 DEF Wildcard, Built, CharOf
    <3> QED BY <2>1, <2>5, <3>2, <3>3 DEF Wildcard
  <2>6. CASE SkipOther
    <3>1. match[i + 1] = "sep" /\ r = ByteBits
      BY <2>3, <2>6 DEF SkipOther
    <3>2. InStep'
      BY <2>2, <3>1, <2>6, StepsTogether DEF SkipOther
    <3> QED BY <2>1, <2>6, <3>2 DEF SkipOther, Built, CharOf
  <2>7. ASSUME NEW c \in Bits, FixBit(c) PROVE (InStep /\ Built /\ status # "aborted")'
    <3>1. match[i + 1] = c /\ r # ByteBits /\ CharOf(idx) = i + 1
      BY <2>3, <2>7, LengthAssumption DEF FixBit, Bits
    <3>2. InStep'
      BY <2>2, <3>1, <2>7, StepsTogether DEF FixBit
    <3>3. Built'
      BY <2>1, <2>4, <2>7, <3>1, <1>2 DEF FixBit, Built, CharOf
    <3> QED BY <2>1, <2>7, <3>2, <3>3 DEF FixBit
  <2>8. ASSUME NEW c \in Bits, BadVariable(c) PROVE FALSE
    <3>1. match[i + 1] = c /\ idx \notin HeaderVars
      BY <2>3, <2>8 DEF BadVariable
    <3>2. r < ByteBits
      BY <2>3, <2>8, <3>1, LengthAssumption DEF BadVariable, Bits
    <3> QED BY <2>3, <2>8, <3>1, <3>2 DEF BadVariable
  <2>9. CASE Finish \/ UNCHANGED vars
    BY <2>1, <2>9 DEF Finish, vars, InStep, Built, CharOf
  <2> QED BY <2>5, <2>6, <2>7, <2>8, <2>9 DEF Next, Stopped
<1>5. ASSUME Len(match) >= MatchLen PROVE InOrder'
  BY <1>1, <1>5, OrderStep DEF IInv
<1> QED BY <1>1, <1>2, <1>3, <1>4, <1>5 DEF IInv, WellFormed

\* The strengthening holds of every reachable state.
THEOREM Invariance == Spec => []IInv
<1>1. Init => IInv
  BY InitInvariant
<1>2. IInv /\ [Next]_vars => IInv'
  BY StepInvariant
<1> QED BY <1>1, <1>2, PTL DEF Spec

\* The variables keep their types, and the scan never passes match_len.
THEOREM TypeCorrect == Spec => []TypeOK
<1>1. IInv => TypeOK
  BY DEF IInv
<1> QED BY <1>1, Invariance, PTL

\* A well-formed string never asks for a variable that does not exist.
THEOREM LoadCorrect == Spec => []WellFormedLoads
<1>1. IInv => WellFormedLoads
  BY DEF IInv, WellFormedLoads
<1> QED BY <1>1, Invariance, PTL

\* When the scan of a well-formed string is over, every bit has been read.
LEMMA AllRead ==
  ASSUME IInv, status = "done", WellFormed(match)
  PROVE  HeaderVars \subseteq 0..(idx - 1)
<1>1. ~(i < MatchLen) /\ (i > 0 => i <= MatchLen) /\ i \in Nat
  BY DEF IInv, TypeOK
<1>2. ByteBits \in Nat \ {0} /\ HdrLen \in Nat
  BY LengthAssumption
<1>3. CASE HdrLen = 0
  BY <1>2, <1>3 DEF HeaderVars
<1>4. CASE HdrLen > 0
  <2>1. MatchLen = HdrLen * (ByteBits + 1) - 1 /\ HdrLen * (ByteBits + 1) \in Nat
    BY <1>2, <1>4, MatchLenValue
  <2>2. HdrLen * (ByteBits + 1) >= ByteBits + 1
    BY <1>2, <1>4
  <2>3. i = HdrLen * (ByteBits + 1) - 1
    BY <1>1, <1>2, <2>1, <2>2
  <2>4. PICK q \in Nat, r \in 0..ByteBits :
          i = q * (ByteBits + 1) + r /\ idx = q * ByteBits + r
    BY DEF IInv, InStep
  <2>5. i \div (ByteBits + 1) = q
    BY <2>4, <1>2, DivMod, ByteBits + 1 \in Nat \ {0}, r \in 0..((ByteBits + 1) - 1)
  <2>6. i = (HdrLen - 1) * (ByteBits + 1) + ByteBits
    BY <2>3, <1>2
  <2>7. i \div (ByteBits + 1) = HdrLen - 1
    BY <2>6, <1>2, <1>4, DivMod, ByteBits + 1 \in Nat \ {0}, HdrLen - 1 \in Nat,
       ByteBits \in 0..((ByteBits + 1) - 1)
  <2>8. q = HdrLen - 1
    BY <2>5, <2>7
  <2>9. r = ByteBits
    BY <2>4, <2>6, <2>8, <1>2
  <2>10. idx = ByteBits * HdrLen
    BY <2>4, <2>8, <2>9, <1>2
  <2> QED BY <2>10, <1>2 DEF HeaderVars
<1> QED BY <1>2, <1>3, <1>4

\* A well-formed string yields exactly the headers it stands for.
THEOREM DenotationCorrect == Spec => []DenotesMatch
<1>1. IInv => DenotesMatch
  <2> SUFFICES ASSUME IInv, status = "done", WellFormed(match)
               PROVE  Accepted = Denotation(match)
    BY DEF DenotesMatch
  <2>1. Built /\ DOMAIN result \subseteq HeaderVars /\ result \in [DOMAIN result -> Bits]
    BY DEF IInv, TypeOK
  <2>2. \A v \in HeaderVars :
          IF v \in DOMAIN result THEN result[v] = match[CharOf(v)] ELSE match[CharOf(v)] = "x"
    BY <2>1, AllRead DEF Built
  <2>3. ASSUME NEW h \in HeaderSpace
        PROVE  (\A v \in DOMAIN result : h[v] = result[v])
               <=> (\A v \in HeaderVars : match[CharOf(v)] \in {"x", h[v]})
    <3>1. \A v \in HeaderVars :
            (v \in DOMAIN result => h[v] = result[v]) <=> match[CharOf(v)] \in {"x", h[v]}
      BY <2>1, <2>2 DEF Bits
    <3> QED BY <3>1, <2>1
  <2> QED BY <2>3 DEF Accepted, Denotation
<1> QED BY <1>1, Invariance, PTL

\* Wherever the separators of a string of full length are, its bits keep
\* their order.
THEOREM OrderCorrect == Spec => []BitsInOrder
<1>1. IInv => BitsInOrder
  <2> SUFFICES ASSUME IInv, status = "done", Len(match) >= MatchLen
               PROVE  /\ \A p \in 1..MatchLen : Placed(p)
                      /\ \A v \in DOMAIN result : v < BitsAmong(MatchLen)
    BY DEF BitsInOrder, Placed
  <2>1. ~(i < MatchLen) /\ (i > 0 => i <= MatchLen) /\ i \in Nat /\ InOrder
    BY DEF IInv, TypeOK
  <2>2. 1..MatchLen = 1..i
    BY <2>1, MatchLenType
  <2>3. BitsAmong(MatchLen) = BitsAmong(i)
    BY <2>2 DEF BitsAmong
  <2> QED BY <2>1, <2>2, <2>3 DEF InOrder
<1> QED BY <1>1, Invariance, PTL

\* What match2bdd makes of its string, well-formed or not.
THEOREM BitsCorrect == Spec => []BitsInPlace
<1>1. DenotesMatch /\ WellFormedLoads /\ BitsInOrder => BitsInPlace
  BY DEF BitsInPlace
<1> QED BY <1>1, LoadCorrect, DenotationCorrect, OrderCorrect, PTL
===============================================================================
