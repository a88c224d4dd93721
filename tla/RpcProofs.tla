------------------------------- MODULE RpcProofs -------------------------------
(***************************************************************************)
(* Proofs about RpcServer, RpcSockets and Netstring.                      *)
(***************************************************************************)
EXTENDS RpcServer, FiniteSetTheorems, FunctionTheorems, SequenceTheorems, WellFoundedInduction, TLAPS

-----------------------------------------------------------------------------
(***************************************************************************)
(* Numbers, and functions on 0..n that are defined by recursion.           *)
(***************************************************************************)

\* A set of numbers that is not empty has a least element.
LEMMA HasLeast ==
  ASSUME NEW S \in SUBSET Nat, S # {}
  PROVE  Min(S) \in S /\ \A n \in S : Min(S) <= n
<1> DEFINE R == {ss \in Nat \X Nat : ss[1] < ss[2]}
<1>1. IsWellFoundedOn(R, Nat)
  <2>1. R = OpToRel(<, Nat)
    BY DEF OpToRel
  <2> QED BY <2>1, NatLessThanWellFounded
<1>2. PICK m \in S : \A n \in S : ~(<<n, m>> \in R)
  <2> HIDE DEF R
  <2> QED BY <1>1, WFMin
<1>3. ASSUME NEW n \in S PROVE m <= n
  <2>1. <<n, m>> \in R <=> n < m
    OBVIOUS
  <2> QED BY <1>2, <2>1
<1> QED BY <1>3 DEF Min

\* What starts in X and steps within X is a function on 0..n.
LEMMA Recursion ==
  ASSUME NEW X, NEW x \in X, NEW n \in Nat, NEW Then \in [1..n -> [X -> X]]
  PROVE  \E f \in [0..n -> X] : f[0] = x /\ \A i \in 1..n : f[i] = Then[i][f[i - 1]]
<1> DEFINE Steps(k, f) == f[0] = x /\ \A i \in 1..k : f[i] = Then[i][f[i - 1]]
           Defined(k) == \E f \in [0..k -> X] : Steps(k, f)
           Missing == {k \in 0..n : ~Defined(k)}
<1>1. ASSUME NEW k \in Missing, \A j \in Missing : k <= j PROVE FALSE
  <2>1. k # 0
    <3> DEFINE f == [i \in 0..0 |-> x]
    <3>1. Steps(0, f) /\ f \in [0..0 -> X]
      OBVIOUS
    <3> HIDE DEF Steps, f
    <3>2. Defined(0)
      BY <3>1
    <3> HIDE DEF Defined
    <3> QED BY <1>1, <3>2
  <2>2. k - 1 \in 0..n /\ k - 1 \notin Missing
    BY <1>1, <2>1
  <2>3. PICK f \in [0..(k - 1) -> X] : Steps(k - 1, f)
    <3> HIDE DEF Steps
    <3> QED BY <2>2
  <2> DEFINE g == [i \in 0..k |-> IF i = k THEN Then[k][f[k - 1]] ELSE f[i]]
  <2>4. k \in 1..n /\ k - 1 \in 0..(k - 1)
    BY <1>1, <2>1
  <2>5. Then[k][f[k - 1]] \in X
    BY <2>3, <2>4
  <2>6. g \in [0..k -> X]
    BY <2>3, <2>4, <2>5
  <2>7. Steps(k, g)
    <3>1. g[0] = x
      BY <2>3, <2>4
    <3>2. ASSUME NEW i \in 1..k PROVE g[i] = Then[i][g[i - 1]]
      <4>1. i - 1 \in 0..(k - 1) /\ i \in 0..k /\ i - 1 \in 0..k /\ i - 1 # k
        BY <2>4
      <4>2. g[i - 1] = f[i - 1]
        BY <4>1
      <4>3. i # k => i \in 1..(k - 1)
        BY <2>4
      <4> QED BY <2>3, <4>1, <4>2, <4>3
    <3> QED BY <3>1, <3>2
  <2>8. Defined(k)
    BY <2>6, <2>7
  <2> QED BY <1>1, <2>8
<1>2. Missing = {}
  <2> HIDE DEF Defined
  <2>1. Missing \in SUBSET Nat
    OBVIOUS
  <2> QED BY <1>1, <2>1, HasLeast
<1>3. Defined(n)
  <2> HIDE DEF Defined
  <2> QED BY <1>2
<1> QED BY <1>3

\* Induction over 0..n, with a set for what is proved.
LEMMA UpTo ==
  ASSUME NEW n \in Nat, NEW S, 0 \in S, \A i \in 1..n : i - 1 \in S => i \in S
  PROVE  \A i \in 0..n : i \in S
<1> DEFINE Missing == {i \in 0..n : i \notin S}
<1>1. ASSUME NEW k \in Missing, \A j \in Missing : k <= j PROVE FALSE
  <2>1. k # 0
    OBVIOUS
  <2>2. k - 1 \in 0..n /\ k - 1 \notin Missing
    BY <1>1, <2>1
  <2> QED BY <2>1, <2>2
<1> QED BY <1>1, HasLeast, Missing \in SUBSET Nat

-----------------------------------------------------------------------------
(***************************************************************************)
(* What Purge leaves of m_clients.                                         *)
(***************************************************************************)

\* An element more at the end.
LEMMA AppendOne ==
  ASSUME NEW X, NEW s \in Seq(X), NEW e \in X
  PROVE  /\ Append(s, e) \in Seq(X) /\ ToSet(Append(s, e)) = ToSet(s) \cup {e}
         /\ IsInjective(s) /\ e \notin ToSet(s) => IsInjective(Append(s, e))
<1>1. /\ Append(s, e) \in Seq(X) /\ Len(Append(s, e)) = Len(s) + 1 /\ Len(s) \in Nat
      /\ \A i \in 1..Len(s) : Append(s, e)[i] = s[i]
      /\ Append(s, e)[Len(s) + 1] = e
  BY AppendProperties
<1> DEFINE t == Append(s, e)
<1> HIDE DEF t
<1>2. ToSet(t) = ToSet(s) \cup {e}
  BY <1>1 DEF ToSet, t
<1>3. IsInjective(s) /\ e \notin ToSet(s) => IsInjective(t)
  BY <1>1 DEF ToSet, IsInjective, t
<1> QED BY <1>1, <1>2, <1>3 DEF t

\* list.remove keeps the others, each as often as before.
LEMMA WithoutKeeps ==
  ASSUME NEW X, NEW list \in Seq(X), NEW gone
  PROVE  /\ Without(list, gone) \in Seq(X)
         /\ ToSet(Without(list, gone)) = ToSet(list) \ gone
         /\ IsInjective(list) => IsInjective(Without(list, gone))
<1> DEFINE n == Len(list)
           One(s, i) == IF list[i] \in gone THEN s ELSE Append(s, list[i])
           Then == [i \in 1..n |-> [s \in Seq(X) |-> One(s, i)]]
           Is(g) == g = [i \in 0..n |-> IF i = 0 THEN <<>> ELSE One(g[i - 1], i)]
<1>1. n \in Nat /\ \A i \in 1..n : list[i] \in X
  OBVIOUS
<1>2. PICK f \in [0..n -> Seq(X)] : f[0] = <<>> /\ \A i \in 1..n : f[i] = Then[i][f[i - 1]]
  <2>1. \A i \in 1..n, s \in Seq(X) : One(s, i) \in Seq(X)
    BY <1>1
  <2>2. Then \in [1..n -> [Seq(X) -> Seq(X)]]
    BY <2>1
  <2>3. <<>> \in Seq(X)
    OBVIOUS
  <2> DEFINE Y == Seq(X)
             empty == <<>>
  <2>4. n \in Nat /\ empty \in Y /\ Then \in [1..n -> [Y -> Y]]
    BY <1>1, <2>2, <2>3
  <2> HIDE DEF Then, n, Y, empty
  <2>5. \E f \in [0..n -> Y] : f[0] = empty /\ \A i \in 1..n : f[i] = Then[i][f[i - 1]]
    BY <2>4, Recursion
  <2> QED BY <2>5 DEF Y, empty
<1>3. Is(f)
  <2>1. ASSUME NEW i \in 1..n PROVE f[i] = One(f[i - 1], i)
    <3>1. f[i - 1] \in Seq(X)
      BY <1>1, <1>2
    <3> QED BY <1>2, <3>1
  <2> HIDE DEF One
  <2> QED BY <1>1, <1>2, <2>1
<1>4. PICK g : Is(g) /\ Without(list, gone) = g[n]
  BY <1>3 DEF Without
<1>5. g[0] = <<>> /\ \A i \in 1..n : g[i] = One(g[i - 1], i)
  <2> HIDE DEF One, n
  <2>1. 0 \in 0..n /\ \A i \in 1..n : i \in 0..n /\ i # 0
    BY <1>1
  <2>2. \A i \in 0..n : g[i] = IF i = 0 THEN <<>> ELSE One(g[i - 1], i)
    BY <1>4
  <2> QED BY <2>1, <2>2
<1> DEFINE Named(j) == {list[i] : i \in 1..j}
           Good(j) == /\ g[j] \in Seq(X) /\ ToSet(g[j]) = Named(j) \ gone
                      /\ IsInjective(list) => IsInjective(g[j])
           S == {j \in 0..n : Good(j)}
<1> HIDE DEF Is
<1>6. Good(0)
  BY <1>5 DEF ToSet, IsInjective
<1>7. ASSUME NEW i \in 1..n, Good(i - 1) PROVE Good(i)
  <2>1. Named(i) = Named(i - 1) \cup {list[i]}
    OBVIOUS
  <2>2. CASE list[i] \in gone
    <3>1. g[i] = g[i - 1]
      BY <1>5, <2>2
    <3>2. Named(i) \ gone = Named(i - 1) \ gone
      BY <2>1, <2>2
    <3> HIDE DEF Named
    <3> QED BY <1>7, <3>1, <3>2
  <2>3. CASE list[i] \notin gone
    <3>1. g[i] = Append(g[i - 1], list[i])
      BY <1>5, <2>3
    <3>2. Named(i) \ gone = (Named(i - 1) \ gone) \cup {list[i]}
      BY <2>1, <2>3
    <3>3. IsInjective(list) => list[i] \notin Named(i - 1)
      BY DEF IsInjective
    <3> HIDE DEF Named
    <3> QED BY <1>1, <1>7, <3>1, <3>2, <3>3, AppendOne
  <2> QED BY <2>2, <2>3
<1>8. \A j \in 0..n : j \in S
  <2> HIDE DEF Good, n
  <2>1. 0 \in S /\ \A i \in 1..n : i - 1 \in S => i \in S
    BY <1>1, <1>6, <1>7
  <2> QED BY <1>1, <2>1, UpTo
<1>9. Good(n)
  <2> HIDE DEF Good, n
  <2> QED BY <1>1, <1>8
<1>10. Named(n) = ToSet(list)
  BY <1>1 DEF ToSet
<1> HIDE DEF Named, n
<1> QED BY <1>4, <1>9, <1>10

-----------------------------------------------------------------------------
(***************************************************************************)
(* The length of a netstring, written and read.                            *)
(***************************************************************************)

\* Characters.  The provers do not know of a literal that it is a STRING.
Chars == STRING \cup ToSet(DigitChars) \cup {":", Comma}

\* The characters of digits differ, and none is the ":" behind a length.
LEMMA Digits ==
  /\ \A d \in 1..10 : DigitChars[d] \in Chars /\ DigitChars[d] # ":"
  /\ \A d, e \in 1..10 : DigitChars[d] = DigitChars[e] => d = e
<1>1. /\ DigitChars[1] = "0" /\ DigitChars[2] = "1" /\ DigitChars[3] = "2"
      /\ DigitChars[4] = "3" /\ DigitChars[5] = "4" /\ DigitChars[6] = "5"
      /\ DigitChars[7] = "6" /\ DigitChars[8] = "7" /\ DigitChars[9] = "8"
      /\ DigitChars[10] = "9"
  BY DEF DigitChars
<1>2. ASSUME NEW d \in 1..10
      PROVE  d = 1 \/ d = 2 \/ d = 3 \/ d = 4 \/ d = 5 \/ d = 6 \/ d = 7 \/ d = 8 \/ d = 9 \/ d = 10
  OBVIOUS
<1>3. ASSUME NEW d \in 1..10 PROVE DigitChars[d] # ":"
  BY <1>1, <1>2
<1>4. ASSUME NEW d \in 1..10 PROVE DigitChars[d] \in Chars
  <2>1. DOMAIN DigitChars = 1..10
    BY DEF DigitChars
  <2> QED BY <2>1 DEF Chars, ToSet
<1>5. ASSUME NEW d \in 1..10, NEW e \in 1..10, DigitChars[d] = DigitChars[e] PROVE d = e
  BY <1>1, <1>2, <1>5
<1> QED BY <1>3, <1>4, <1>5

\* A number of several digits without its last one, and that one.
LEMMA LastDigit ==
  ASSUME NEW n \in Nat
  PROVE  /\ n \div Base \in Nat /\ n % Base \in 0..(Base - 1)
         /\ n = Base * (n \div Base) + (n % Base)
         /\ n >= Base => n \div Base < n
<1> DEFINE q == n \div Base
           r == n % Base
<1>1. Base \in Nat \ {0, 1} /\ Base <= 10
  BY BaseAssumption
<1>2. q \in Nat /\ r \in 0..(Base - 1) /\ n = Base * q + r
  BY <1>1
<1>3. n >= Base => q < n
  <2> SUFFICES ASSUME n >= Base, q >= n PROVE FALSE
    BY <1>2
  <2> HIDE DEF q, r
  <2>1. Base * q >= 2 * q
    BY <1>1, <1>2
  <2> QED BY <1>1, <1>2, <2>1
<1> QED BY <1>2, <1>3

\* The recursion of LengthText has a value for every number.
LEMMA LengthTextIs ==
  \A n \in Nat :
    LengthText[n] = IF n < Base THEN <<DigitChars[n + 1]>>
                    ELSE Append(LengthText[n \div Base], DigitChars[(n % Base) + 1])
<1> DEFINE Rest(f, n) == IF n < Base THEN <<DigitChars[n + 1]>>
                         ELSE Append(f[n \div Base], DigitChars[(n % Base) + 1])
           Part(k, f) == DOMAIN f = 0..k /\ \A i \in 0..k : f[i] = Rest(f, i)
           Whole(f) == f = [n \in Nat |-> Rest(f, n)]
<1>1. \A n \in Nat : n >= Base => n \div Base \in 0..(n - 1)
  BY LastDigit
<1>2. ASSUME NEW f, NEW g, NEW n \in Nat,
             n >= Base => f[n \div Base] = g[n \div Base]
      PROVE  Rest(f, n) = Rest(g, n)
  BY <1>2, BaseAssumption
<1> HIDE DEF Rest
<1>3. ASSUME NEW k \in Nat, NEW f, NEW m \in Nat, NEW g, Part(k, f), Part(m, g), k <= m
      PROVE  \A i \in 0..k : f[i] = g[i]
  <2> DEFINE Apart == {i \in 0..k : f[i] # g[i]}
  <2>1. ASSUME NEW i \in Apart, \A j \in Apart : i <= j PROVE FALSE
    <3>1. i \in Nat /\ f[i] = Rest(f, i) /\ g[i] = Rest(g, i)
      BY <1>3
    <3>2. ASSUME i >= Base PROVE f[i \div Base] = g[i \div Base]
      <4>1. i \div Base \in 0..(i - 1)
        BY <1>1, <3>1, <3>2
      <4> HIDE DEF Part
      <4> QED BY <2>1, <4>1
    <3>3. Rest(f, i) = Rest(g, i)
      BY <1>2, <3>1, <3>2
    <3> QED BY <3>1, <3>3
  <2> QED BY <2>1, HasLeast, Apart \in SUBSET Nat
<1>4. ASSUME NEW k \in Nat PROVE \E f : Part(k, f)
  <2> DEFINE S == {i \in 0..k : \E f : Part(i, f)}
  <2>1. 0 \in S
    <3> DEFINE f == [i \in 0..0 |-> <<DigitChars[1]>>]
    <3>1. Part(0, f)
      BY BaseAssumption DEF Rest
    <3> QED BY <3>1
  <2>2. ASSUME NEW i \in 1..k, i - 1 \in S PROVE i \in S
    <3>1. PICK f : Part(i - 1, f)
      BY <2>2
    <3> DEFINE g == [j \in 0..i |-> IF j = i THEN Rest(f, i) ELSE f[j]]
    <3>2. ASSUME NEW j \in 0..i PROVE g[j] = Rest(g, j)
      <4>1. j >= Base => j \div Base \in 0..(j - 1)
        BY <1>1
      <4>2. j >= Base => f[j \div Base] = g[j \div Base]
        BY <4>1
      <4>3. Rest(f, j) = Rest(g, j)
        BY <1>2, <4>2
      <4> QED BY <3>1, <4>3
    <3>3. Part(i, g) /\ i \in 0..k
      BY <3>2
    <3> HIDE DEF g, Part
    <3> QED BY <3>3
  <2>3. k \in S
    <3> HIDE DEF S
    <3> QED BY <2>1, <2>2, UpTo
  <2> QED BY <2>3
<1>5. \E F : Whole(F)
  <2> DEFINE Of(n) == CHOOSE f : Part(n, f)
             F == [n \in Nat |-> Of(n)[n]]
  <2>1. \A n \in Nat : Part(n, Of(n))
    <3> HIDE DEF Part
    <3> QED BY <1>4
  <2> HIDE DEF Of
  <2>2. ASSUME NEW n \in Nat PROVE F[n] = Rest(F, n)
    <3>1. ASSUME NEW i \in 0..n PROVE F[i] = Of(n)[i]
      <4>1. Part(i, Of(i)) /\ Part(n, Of(n)) /\ i \in Nat /\ i <= n /\ i \in 0..i
        BY <2>1
      <4>2. Of(i)[i] = Of(n)[i]
        <5> HIDE DEF Part
        <5> QED BY <1>3, <4>1
      <4> QED BY <4>1, <4>2
    <3>2. Of(n)[n] = Rest(Of(n), n)
      BY <2>1
    <3>3. n >= Base => Of(n)[n \div Base] = F[n \div Base]
      <4> HIDE DEF F
      <4> QED BY <1>1, <3>1
    <3>4. Rest(Of(n), n) = Rest(F, n)
      BY <1>2, <3>3
    <3> QED BY <3>2, <3>4
  <2>3. Whole(F)
    BY <2>2
  <2> QED BY <2>3
<1>6. Whole(LengthText)
  BY <1>5 DEF LengthText, Rest
<1> QED BY <1>6 DEF Rest

DigitSet == {DigitChars[d] : d \in 1..Base}

\* A digit is read as the number it was written for.
LEMMA DigitValues ==
  /\ DigitSet \subseteq Chars /\ ":" \notin DigitSet
  /\ \A c \in DigitSet : IsDigit(c) /\ DigitValue(c) \in 0..(Base - 1)
  /\ \A d \in 0..(Base - 1) : DigitChars[d + 1] \in DigitSet /\ DigitValue(DigitChars[d + 1]) = d
<1>1. Base \in 2..10 /\ 1..Base \subseteq 1..10
  BY BaseAssumption
<1>2. ASSUME NEW d \in 1..Base PROVE DigitValue(DigitChars[d]) = d - 1
  <2>1. \A e \in 1..Base : DigitChars[d] = DigitChars[e] <=> e = d
    BY <1>1, Digits
  <2>2. (CHOOSE e \in 1..Base : DigitChars[d] = DigitChars[e]) = d
    BY <2>1
  <2> QED BY <2>2 DEF DigitValue
<1>3. DigitSet \subseteq Chars /\ ":" \notin DigitSet
  BY <1>1, Digits DEF DigitSet
<1>4. ASSUME NEW c \in DigitSet PROVE IsDigit(c) /\ DigitValue(c) \in 0..(Base - 1)
  <2>1. PICK d \in 1..Base : c = DigitChars[d]
    BY DEF DigitSet
  <2> QED BY <1>1, <1>2, <2>1 DEF IsDigit
<1>5. ASSUME NEW d \in 0..(Base - 1)
      PROVE  DigitChars[d + 1] \in DigitSet /\ DigitValue(DigitChars[d + 1]) = d
  <2>1. d + 1 \in 1..Base
    BY <1>1
  <2> QED BY <1>1, <1>2, <2>1 DEF DigitSet
<1> QED BY <1>3, <1>4, <1>5

\* The recursion of NumberOf has a value for all digits.
LEMMA NumberIs ==
  ASSUME NEW s \in Seq(DigitSet)
  PROVE  \E f \in [0..Len(s) -> Nat] :
           /\ NumberOf(s) = f[Len(s)] /\ f[0] = 0
           /\ \A i \in 1..Len(s) : f[i] = (Base * f[i - 1] + DigitValue(s[i])) % ULongRange
<1> DEFINE n == Len(s)
           One(v, i) == (Base * v + DigitValue(s[i])) % ULongRange
           Then == [i \in 1..n |-> [v \in Nat |-> One(v, i)]]
           Is(g) == g = [i \in 0..n |-> IF i = 0 THEN 0 ELSE One(g[i - 1], i)]
<1>1. n \in Nat /\ \A i \in 1..n : DigitValue(s[i]) \in Nat
  BY DigitValues, BaseAssumption
<1>2. \A i \in 1..n, v \in Nat : One(v, i) \in Nat
  <2>1. \A a, b \in Nat : (Base * a + b) \in Nat
    BY BaseAssumption
  <2>2. \A a \in Nat : a % ULongRange \in Nat
    BY BaseAssumption
  <2> QED BY <1>1, <2>1, <2>2
<1>3. Then \in [1..n -> [Nat -> Nat]]
  BY <1>2
<1> HIDE DEF One, n
<1>4. PICK f \in [0..n -> Nat] : f[0] = 0 /\ \A i \in 1..n : f[i] = Then[i][f[i - 1]]
  <2> DEFINE N == Nat
             zero == 0
  <2>1. n \in Nat /\ zero \in N /\ Then \in [1..n -> [N -> N]]
    BY <1>1, <1>3
  <2> HIDE DEF Then, N, zero
  <2>2. \E f \in [0..n -> N] : f[0] = zero /\ \A i \in 1..n : f[i] = Then[i][f[i - 1]]
    BY <2>1, Recursion, SMTT(30)
  <2> QED BY <2>2 DEF N, zero
<1>5. ASSUME NEW i \in 1..n PROVE f[i] = One(f[i - 1], i)
  <2>1. f[i - 1] \in Nat
    BY <1>1, <1>4
  <2> QED BY <1>4, <2>1
<1>6. Is(f)
  BY <1>1, <1>4, <1>5
<1>7. PICK g : Is(g) /\ NumberOf(s) = g[n]
  BY <1>6 DEF NumberOf, One, n
<1>8. g[0] = 0 /\ DOMAIN g = 0..n /\ \A i \in 1..n : g[i] = One(g[i - 1], i)
  <2>1. 0 \in 0..n /\ \A i \in 1..n : i \in 0..n /\ i # 0
    BY <1>1
  <2>2. \A i \in 0..n : g[i] = IF i = 0 THEN 0 ELSE One(g[i - 1], i)
    BY <1>7
  <2> QED BY <1>7, <2>1, <2>2
<1>9. \A j \in 0..n : g[j] \in Nat
  <2> DEFINE S == {j \in 0..n : g[j] \in Nat}
  <2>1. 0 \in S
    BY <1>1, <1>8
  <2>2. ASSUME NEW i \in 1..n, i - 1 \in S PROVE i \in S
    <3>1. g[i - 1] \in Nat /\ g[i] = One(g[i - 1], i)
      BY <1>8, <2>2
    <3>2. One(g[i - 1], i) \in Nat
      BY <1>2, <3>1
    <3> QED BY <3>1, <3>2
  <2>3. \A j \in 0..n : j \in S
    <3> HIDE DEF S
    <3> QED BY <1>1, <2>1, <2>2, UpTo
  <2> QED BY <2>3
<1>10. g \in [0..n -> Nat]
  <2>1. g = [i \in 0..n |-> g[i]]
    BY <1>7
  <2> QED BY <1>9, <2>1
<1> QED BY <1>7, <1>8, <1>10 DEF One, n

\* A digit more.
LEMMA NumberAppend ==
  ASSUME NEW s \in Seq(DigitSet), NEW c \in DigitSet
  PROVE  /\ NumberOf(s) \in Nat /\ NumberOf(<<>>) = 0
         /\ NumberOf(Append(s, c)) = (Base * NumberOf(s) + DigitValue(c)) % ULongRange
<1> DEFINE t == Append(s, c)
           n == Len(s)
<1>1. /\ t \in Seq(DigitSet) /\ Len(t) = n + 1 /\ n \in Nat /\ t[n + 1] = c
      /\ \A i \in 1..n : t[i] = s[i]
  BY AppendProperties
<1> HIDE DEF t
<1>2. PICK f \in [0..n -> Nat] :
        /\ NumberOf(s) = f[n] /\ f[0] = 0
        /\ \A i \in 1..n : f[i] = (Base * f[i - 1] + DigitValue(s[i])) % ULongRange
  BY NumberIs
<1>3. PICK g \in [0..Len(t) -> Nat] :
        /\ NumberOf(t) = g[Len(t)] /\ g[0] = 0
        /\ \A i \in 1..Len(t) : g[i] = (Base * g[i - 1] + DigitValue(t[i])) % ULongRange
  BY <1>1, NumberIs
<1>4. \A j \in 0..n : f[j] = g[j]
  <2> DEFINE S == {j \in 0..n : f[j] = g[j]}
  <2>1. 0 \in S
    BY <1>1, <1>2, <1>3
  <2>2. ASSUME NEW i \in 1..n, i - 1 \in S PROVE i \in S
    <3>1. i \in 0..n /\ i \in 1..Len(t) /\ t[i] = s[i] /\ f[i - 1] = g[i - 1]
      BY <1>1, <2>2
    <3> HIDE DEF n
    <3> QED BY <1>2, <1>3, <3>1
  <2>3. \A j \in 0..n : j \in S
    <3> HIDE DEF S
    <3> QED BY <1>1, <2>1, <2>2, UpTo
  <2> QED BY <2>3
<1>5. NumberOf(t) = (Base * g[n] + DigitValue(t[n + 1])) % ULongRange
  <2>1. Len(t) = n + 1 /\ n + 1 \in 1..Len(t) /\ (n + 1) - 1 = n
    BY <1>1
  <2> QED BY <1>3, <2>1
<1>6. f[n] = g[n] /\ f[n] \in Nat
  BY <1>1, <1>2, <1>4
<1>7. NumberOf(<<>>) = 0
  <2>1. <<>> \in Seq(DigitSet) /\ Len(<<>>) = 0
    OBVIOUS
  <2> QED BY <2>1, NumberIs
<1> QED BY <1>1, <1>2, <1>5, <1>6, <1>7 DEF t

\* The length that is written is read again.
LEMMA LengthReads ==
  ASSUME NEW n \in Nat
  PROVE  /\ LengthText[n] \in Seq(DigitSet) /\ LengthText[n] # <<>>
         /\ n < ULongRange => NumberOf(LengthText[n]) = n
<1> DEFINE Good(k) == /\ LengthText[k] \in Seq(DigitSet) /\ LengthText[k] # <<>>
                      /\ k < ULongRange => NumberOf(LengthText[k]) = k
           Bad == {k \in 0..n : ~Good(k)}
<1>1. \A k \in 0..n : k \in Nat /\ (k < ULongRange => k % ULongRange = k)
  BY BaseAssumption
<1>2. ASSUME NEW k \in Bad, \A j \in Bad : k <= j PROVE Good(k)
  <2>1. CASE k < Base
    <3>1. /\ LengthText[k] = <<DigitChars[k + 1]>>
          /\ DigitChars[k + 1] \in DigitSet /\ DigitValue(DigitChars[k + 1]) = k
      <4>1. k \in Nat /\ k \in 0..(Base - 1)
        BY <1>1, <2>1, BaseAssumption
      <4>2. LengthText[k] = <<DigitChars[k + 1]>>
        BY <2>1, <4>1, LengthTextIs
      <4> QED BY <4>1, <4>2, DigitValues
    <3>2. <<>> \in Seq(DigitSet) /\ <<DigitChars[k + 1]>> = Append(<<>>, DigitChars[k + 1])
      OBVIOUS
    <3>3. NumberOf(LengthText[k]) = (Base * 0 + k) % ULongRange
      BY <3>1, <3>2, NumberAppend
    <3>4. Base * 0 + k = k
      BY BaseAssumption
    <3> QED BY <1>1, <3>1, <3>3, <3>4
  <2>2. CASE k >= Base
    <3> DEFINE q == k \div Base
               r == k % Base
    <3>1. q \in Nat /\ r \in 0..(Base - 1) /\ k = Base * q + r /\ q < k
      BY <1>1, <2>2, LastDigit
    <3>2. LengthText[k] = Append(LengthText[q], DigitChars[r + 1])
      <4>1. k \in Nat /\ ~(k < Base)
        BY <1>1, <2>2, BaseAssumption
      <4> QED BY <4>1, LengthTextIs
    <3> HIDE DEF q, r
    <3>3. Good(q)
      <4>1. q \in 0..n /\ q \notin Bad
        BY <1>2, <3>1
      <4> HIDE DEF Good
      <4> QED BY <4>1
    <3>4. DigitChars[r + 1] \in DigitSet /\ DigitValue(DigitChars[r + 1]) = r
      BY <3>1, DigitValues
    <3>5. ASSUME k < ULongRange PROVE NumberOf(LengthText[k]) = k
      <4>1. q < ULongRange
        BY <1>1, <3>1, <3>5, BaseAssumption
      <4> QED BY <1>1, <3>1, <3>2, <3>3, <3>4, <3>5, <4>1, NumberAppend
    <3> QED BY <3>2, <3>3, <3>4, <3>5
  <2> QED BY <1>1, <2>1, <2>2, BaseAssumption
<1>3. Bad = {}
  <2> HIDE DEF Good
  <2> QED BY <1>1, <1>2, HasLeast, Bad \in SUBSET Nat
<1>4. Good(n)
  <2> HIDE DEF Good
  <2> QED BY <1>1, <1>3, BaseAssumption
<1> QED BY <1>4

-----------------------------------------------------------------------------
(***************************************************************************)
(* What decode makes of characters that begin with an encoded text.        *)
(***************************************************************************)

\* The first ":" of characters, if there is one.
LEMMA FirstColon ==
  ASSUME NEW s \in Seq(Chars)
  PROVE  /\ (\A i \in 1..Len(s) : s[i] # ":") => SelectInSeq(s, LAMBDA c : c = ":") = 0
         /\ \A k \in 1..Len(s) :
              s[k] = ":" /\ (\A i \in 1..(k - 1) : s[i] # ":")
                => SelectInSeq(s, LAMBDA c : c = ":") = k
<1> DEFINE I == {i \in 1..Len(s) : s[i] = ":"}
<1>1. SelectInSeq(s, LAMBDA c : c = ":") = IF I # {} THEN Min(I) ELSE 0
  BY DEF SelectInSeq
<1>2. Len(s) \in Nat
  OBVIOUS
<1>3. ASSUME NEW k \in 1..Len(s), s[k] = ":", \A i \in 1..(k - 1) : s[i] # ":"
      PROVE  I # {} /\ Min(I) = k
  <2>1. k \in I /\ \A i \in I : k <= i
    BY <1>2, <1>3
  <2>2. Min(I) \in I /\ \A i \in I : Min(I) <= i
    BY <1>2, <2>1, HasLeast, I \in SUBSET Nat
  <2>3. Min(I) <= k /\ k <= Min(I)
    BY <2>1, <2>2
  <2> QED BY <1>2, <2>1, <2>2, <2>3
<1>4. (\A i \in 1..Len(s) : s[i] # ":") => I = {}
  OBVIOUS
<1> HIDE DEF I
<1> QED BY <1>1, <1>3, <1>4

\* The beginning of an encoded text, with its ":".
Begins(s, str) ==
  LET digits == LengthText[Len(str)]
  IN /\ s \in Seq(Chars) /\ Len(s) \in (Len(digits) + 1)..(ULongRange - 1)
     /\ \A i \in 1..Len(digits) : s[i] = digits[i]
     /\ s[Len(digits) + 1] = ":"

\* All that begins like an encoded text is decoded by its length alone.
LEMMA DecodeBegun ==
  ASSUME NEW str \in Seq(Chars), NEW s, Begins(s, str), Len(str) + 1 < ULongRange
  PROVE  LET d == Len(LengthText[Len(str)])
         IN decode(s) = IF Comma \in ToSet(s) /\ Len(s) = d + Len(str) + 2
                        THEN Text(SubSeq(s, d + 2, d + 1 + Len(str)))
                        ELSE Thrown
<1> DEFINE n == Len(str)
           digits == LengthText[n]
           d == Len(digits)
           index == SelectInSeq(s, LAMBDA c : c = ":")
           length == SubSeq(s, 1, index - 1)
<1>1. n \in 0..(ULongRange - 1) /\ n \in Nat /\ ULongRange \in Nat
  BY BaseAssumption
<1>2. digits \in Seq(DigitSet) /\ NumberOf(digits) = n
  BY <1>1, LengthReads
<1>3. d \in Nat /\ \A i \in 1..d : digits[i] \in DigitSet
  BY <1>2
<1>4. /\ s \in Seq(Chars) /\ Len(s) \in (d + 1)..(ULongRange - 1)
      /\ \A i \in 1..d : s[i] = digits[i]
      /\ s[d + 1] = ":"
  BY DEF Begins
<1> HIDE DEF d, digits, n
<1>5. index = d + 1
  <2>1. \A i \in 1..d : s[i] # ":"
    BY <1>3, <1>4, DigitValues
  <2>2. d + 1 \in 1..Len(s) /\ (d + 1) - 1 = d
    BY <1>3, <1>4
  <2> QED BY <1>4, <2>1, <2>2, FirstColon
<1>6. length = digits
  <2>1. length = SubSeq(s, 1, d)
    BY <1>3, <1>5
  <2>2. \A i \in 1..d : s[i] \in DigitSet
    BY <1>3, <1>4
  <2>3. /\ length \in Seq(DigitSet) /\ Len(length) = d
        /\ \A i \in 1..d : length[i] = s[i]
    <3> DEFINE t == SubSeq(s, 1, d)
    <3>1. /\ t \in Seq(DigitSet)
          /\ Len(t) = IF 1 <= d THEN d - 1 + 1 ELSE 0
          /\ \A i \in 1..(d - 1 + 1) : t[i] = s[1 + i - 1]
      BY <1>3, <2>2, SubSeqProperties
    <3> HIDE DEF t
    <3>2. d - 1 + 1 = d /\ \A i \in 1..d : 1 + i - 1 = i
      BY <1>3
    <3>3. Len(t) = d /\ \A i \in 1..d : t[i] = s[i]
      BY <1>3, <3>1, <3>2
    <3> QED BY <2>1, <3>1, <3>3 DEF t
  <2> HIDE DEF length
  <2> QED BY <1>2, <1>4, <2>3, SeqEqual DEF d
<1>7. \A i \in DOMAIN length : IsDigit(length[i])
  <2> HIDE DEF length
  <2>1. DOMAIN length = 1..d
    BY <1>2, <1>6 DEF d
  <2> QED BY <1>3, <1>6, <2>1, DigitValues
<1>8. SizeFits(n, s, index) <=> Len(s) = d + n + 2
  <2>1. CASE Len(s) = d + 1
    <3>1. (Len(s) - index - 1) % ULongRange = ULongRange - 1
      BY <1>1, <1>3, <1>5, <2>1, SMTT(30)
    <3> QED BY <1>1, <1>3, <2>1, <3>1 DEF SizeFits, n
  <2>2. CASE Len(s) > d + 1
    <3>1. (Len(s) - index - 1) % ULongRange = Len(s) - d - 2
      <4> DEFINE rest == Len(s) - index - 1
      <4>1. rest = Len(s) - d - 2 /\ rest \in 0..(ULongRange - 1)
        BY <1>1, <1>3, <1>4, <1>5, <2>2
      <4> HIDE DEF rest
      <4>2. rest % ULongRange = rest
        BY <4>1, BaseAssumption
      <4> QED BY <4>1, <4>2 DEF rest
    <3> QED BY <1>1, <1>3, <1>4, <2>2, <3>1, SMTT(30) DEF SizeFits
  <2> QED BY <1>3, <1>4, <2>1, <2>2
<1>9. decode(s) = IF index = 0 \/ Comma \notin ToSet(s) \/ \E i \in DOMAIN length : ~IsDigit(length[i])
                  THEN Thrown
                  ELSE IF ~SizeFits(NumberOf(length), s, index) THEN Thrown
                  ELSE Text(SubSeq(s, index + 1, index + NumberOf(length)))
  BY DEF decode
<1>10. index # 0 /\ index + 1 = d + 2 /\ index + n = d + 1 + n
  BY <1>1, <1>3, <1>5
<1> HIDE DEF index, length
<1> QED BY <1>2, <1>6, <1>7, <1>8, <1>9, <1>10 DEF d, digits, n

\* The elements of two sequences, one behind the other.
LEMMA Joined ==
  ASSUME NEW S, NEW s \in Seq(S), NEW t \in Seq(S)
  PROVE  /\ s \o t \in Seq(S) /\ Len(s \o t) = Len(s) + Len(t)
         /\ Len(s) \in Nat /\ Len(t) \in Nat
         /\ \A i \in 1..Len(s) : (s \o t)[i] = s[i]
         /\ \A i \in 1..Len(t) : (s \o t)[Len(s) + i] = t[i]
<1>1. Len(s) \in Nat /\ Len(t) \in Nat
  OBVIOUS
<1>2. /\ s \o t \in Seq(S) /\ Len(s \o t) = Len(s) + Len(t)
      /\ \A i \in 1..(Len(s) + Len(t)) :
           (s \o t)[i] = IF i <= Len(s) THEN s[i] ELSE t[i - Len(s)]
  BY ConcatProperties
<1> DEFINE u == s \o t
<1> HIDE DEF u
<1>3. ASSUME NEW i \in 1..Len(s) PROVE u[i] = s[i]
  BY <1>1, <1>2 DEF u
<1>4. ASSUME NEW i \in 1..Len(t) PROVE u[Len(s) + i] = t[i]
  <2>1. Len(s) + i \in 1..(Len(s) + Len(t)) /\ ~(Len(s) + i <= Len(s)) /\ Len(s) + i - Len(s) = i
    BY <1>1
  <2> QED BY <1>2, <2>1 DEF u
<1> QED BY <1>1, <1>2, <1>3, <1>4 DEF u

\* An encoded text: the digits of its length, ":", the text, ",".
LEMMA Encoding ==
  ASSUME NEW str \in Seq(Chars)
  PROVE  LET n == Len(str)
             digits == LengthText[n]
             d == Len(digits)
             e == encode(str)
         IN /\ digits \in Seq(Chars) /\ d \in Nat /\ \A i \in 1..d : digits[i] # ":"
            /\ e \in Seq(Chars) /\ Len(e) = d + n + 2
            /\ \A i \in 1..d : e[i] = digits[i]
            /\ e[d + 1] = ":" /\ e[d + n + 2] = Comma
            /\ \A i \in 1..n : e[d + 1 + i] = str[i]
<1> DEFINE n == Len(str)
           digits == LengthText[n]
           d == Len(digits)
           e == encode(str)
           N == d + n + 2
<1>1. str \in Seq(Chars) /\ n \in Nat
  OBVIOUS
<1>2. /\ digits \in Seq(Chars) /\ d \in Nat
      /\ \A i \in 1..d : digits[i] # ":"
  <2>1. digits \in Seq(DigitSet)
    BY <1>1, LengthReads
  <2>2. digits \in Seq(Chars)
    BY <2>1, DigitValues
  <2>3. \A i \in 1..d : digits[i] # ":"
    BY <2>1, DigitValues
  <2> QED BY <2>2, <2>3
<1> HIDE DEF digits, d, n
<1>3. /\ e \in Seq(Chars) /\ Len(e) = N
      /\ \A i \in 1..d : e[i] = digits[i]
      /\ e[d + 1] = ":" /\ e[N] = Comma
      /\ \A i \in 1..n : e[d + 1 + i] = str[i]
  <2> DEFINE a == digits \o <<":">>
             b == a \o str
             c == b \o <<Comma>>
  <2>1. <<":">> \in Seq(Chars) /\ <<Comma>> \in Seq(Chars)
    <3>1. ":" \in Chars /\ Comma \in Chars
      BY DEF Chars
    <3> QED BY <3>1
  <2>2. /\ a \in Seq(Chars) /\ Len(a) = d + 1 /\ a[d + 1] = ":"
        /\ \A i \in 1..d : a[i] = digits[i]
    BY <1>2, <2>1, ConcatProperties DEF d
  <2> HIDE DEF a
  <2>3. /\ b \in Seq(Chars) /\ Len(b) = d + 1 + n
        /\ \A i \in 1..(d + 1) : b[i] = a[i]
        /\ \A i \in 1..n : b[d + 1 + i] = str[i]
    <3>1. a \in Seq(Chars) /\ str \in Seq(Chars)
      BY <1>1, <2>2
    <3>2. /\ b \in Seq(Chars) /\ Len(b) = Len(a) + Len(str)
          /\ \A i \in 1..Len(a) : b[i] = a[i]
          /\ \A i \in 1..Len(str) : b[Len(a) + i] = str[i]
      BY <3>1, Joined
    <3> HIDE DEF b
    <3> QED BY <2>2, <3>2 DEF n
  <2> HIDE DEF b
  <2>4. /\ c \in Seq(Chars) /\ Len(c) = N /\ c[N] = Comma
        /\ \A i \in 1..(d + 1 + n) : c[i] = b[i]
    BY <1>1, <1>2, <2>1, <2>3, ConcatProperties
  <2> HIDE DEF c
  <2>5. /\ \A i \in 1..d : c[i] = digits[i]
        /\ c[d + 1] = ":"
        /\ \A i \in 1..n : c[d + 1 + i] = str[i]
    <3>1. /\ \A i \in 1..d : i \in 1..(d + 1) /\ i \in 1..(d + 1 + n)
          /\ d + 1 \in 1..(d + 1) /\ d + 1 \in 1..(d + 1 + n)
          /\ \A i \in 1..n : d + 1 + i \in 1..(d + 1 + n)
      BY <1>1, <1>2
    <3> QED BY <2>2, <2>3, <2>4, <3>1
  <2>6. e = c
    BY DEF encode, a, b, c, digits, n
  <2> QED BY <2>4, <2>5, <2>6
<1> QED BY <1>2, <1>3 DEF d, digits, e, n

\* A netstring by itself is decoded to its text, whatever the text; cut off
\* anywhere, or with anything behind it, it is an error.  So of a connection
\* that has nothing else under way, Recv takes a message whole or not at all.
THEOREM Framing ==
  ASSUME NEW str \in Seq(Chars), Len(encode(str)) < ULongRange
  PROVE  /\ decode(encode(str)) = Text(str)
         /\ \A i \in 1..(Len(encode(str)) - 1) : decode(SubSeq(encode(str), 1, i)) = Thrown
         /\ \A more \in Seq(Chars) :
              more # <<>> /\ Len(encode(str) \o more) < ULongRange
                => decode(encode(str) \o more) = Thrown
<1> DEFINE n == Len(str)
           digits == LengthText[n]
           d == Len(digits)
           e == encode(str)
           N == d + n + 2
<1>1. str \in Seq(Chars) /\ n \in Nat
  OBVIOUS
<1>2. digits \in Seq(Chars) /\ d \in Nat /\ \A i \in 1..d : digits[i] # ":"
  BY Encoding
<1>3. /\ e \in Seq(Chars) /\ Len(e) = N
      /\ \A i \in 1..d : e[i] = digits[i]
      /\ e[d + 1] = ":" /\ e[N] = Comma
      /\ \A i \in 1..n : e[d + 1 + i] = str[i]
  BY Encoding
<1> HIDE DEF digits, d, n, e
<1>4. n + 1 < ULongRange /\ N < ULongRange /\ ULongRange \in Nat
  BY <1>1, <1>2, <1>3, BaseAssumption DEF e
<1>5. ASSUME NEW s \in Seq(Chars), Len(s) \in (d + 1)..(ULongRange - 1),
             \A i \in 1..(d + 1) : s[i] = e[i]
      PROVE  decode(s) = IF Comma \in ToSet(s) /\ Len(s) = N
                         THEN Text(SubSeq(s, d + 2, d + 1 + n)) ELSE Thrown
  <2>1. Begins(s, str)
    <3>1. /\ \A i \in 1..d : s[i] = digits[i]
          /\ s[d + 1] = ":"
      BY <1>2, <1>3, <1>5
    <3> QED BY <1>5, <3>1 DEF Begins, d, digits, n
  <2> QED BY <1>1, <1>4, <2>1, DecodeBegun DEF d, digits, n
<1>6. decode(e) = Text(str)
  <2>1. Len(e) \in (d + 1)..(ULongRange - 1)
    BY <1>1, <1>2, <1>3, <1>4
  <2>2. Comma \in ToSet(e)
    <3>1. N \in DOMAIN e
      BY <1>1, <1>2, <1>3
    <3> QED BY <1>3, <3>1 DEF ToSet
  <2>3. SubSeq(e, d + 2, d + 1 + n) = str
    <3> DEFINE t == SubSeq(e, d + 2, d + 1 + n)
    <3>1. \A i \in (d + 2)..(d + 1 + n) : e[i] \in Chars
      BY <1>1, <1>2, <1>3
    <3>2. /\ t \in Seq(Chars)
          /\ Len(t) = IF d + 2 <= d + 1 + n THEN (d + 1 + n) - (d + 2) + 1 ELSE 0
          /\ \A i \in 1..((d + 1 + n) - (d + 2) + 1) : t[i] = e[(d + 2) + i - 1]
      BY <1>1, <1>2, <3>1, SubSeqProperties
    <3> HIDE DEF t
    <3>3. Len(t) = n
      BY <1>1, <1>2, <3>2
    <3>4. \A i \in 1..n : t[i] = str[i]
      <4>1. \A i \in 1..n : /\ i \in 1..((d + 1 + n) - (d + 2) + 1)
                            /\ (d + 2) + i - 1 = d + 1 + i
        BY <1>1, <1>2
      <4> QED BY <1>3, <3>2, <4>1
    <3>5. t = str
      BY <1>1, <3>2, <3>3, <3>4, SeqEqual DEF n
    <3> QED BY <3>5 DEF t
  <2> QED BY <1>3, <1>5, <2>1, <2>2, <2>3
<1>7. ASSUME NEW i \in 1..(Len(e) - 1) PROVE decode(SubSeq(e, 1, i)) = Thrown
  <2> DEFINE s == SubSeq(e, 1, i)
  <2>1. /\ s \in Seq(Chars) /\ Len(s) = i /\ i \in Nat
        /\ \A j \in 1..i : s[j] = e[j]
    <3>1. i \in Int /\ 1 <= i /\ \A j \in 1..i : e[j] \in Chars /\ 1 + j - 1 = j
      BY <1>1, <1>2, <1>3
    <3>2. /\ s \in Seq(Chars) /\ Len(s) = IF 1 <= i THEN i - 1 + 1 ELSE 0
          /\ \A j \in 1..(i - 1 + 1) : s[j] = e[1 + j - 1]
      BY <3>1, SubSeqProperties
    <3> QED BY <3>1, <3>2
  <2> HIDE DEF s
  <2>2. CASE i <= d
    <3>1. \A j \in 1..Len(s) : s[j] # ":"
      BY <1>2, <1>3, <2>1, <2>2, SMTT(30)
    <3>2. SelectInSeq(s, LAMBDA c : c = ":") = 0
      BY <2>1, <3>1, FirstColon
    <3>3. decode(s) = Thrown
      BY <3>2 DEF decode
    <3> QED BY <3>3 DEF s
  <2>3. CASE i > d
    <3>1. Len(s) \in (d + 1)..(ULongRange - 1) /\ Len(s) # N
      BY <1>1, <1>2, <1>3, <1>4, <2>1, <2>3
    <3>2. \A j \in 1..(d + 1) : s[j] = e[j]
      BY <1>2, <2>1, <2>3
    <3>3. decode(s) = Thrown
      BY <1>5, <2>1, <3>1, <3>2
    <3> QED BY <3>3 DEF s
  <2> QED BY <1>2, <2>1, <2>2, <2>3
<1>8. ASSUME NEW more \in Seq(Chars), more # <<>>, Len(e \o more) < ULongRange
      PROVE  decode(e \o more) = Thrown
  <2> DEFINE s == e \o more
  <2>1. more \in Seq(Chars) /\ Len(more) \in Nat \ {0}
    BY <1>8
  <2>2. /\ s \in Seq(Chars) /\ Len(s) = N + Len(more)
        /\ \A i \in 1..N : s[i] = e[i]
    <3>1. e \in Seq(Chars) /\ more \in Seq(Chars)
      BY <1>3, <2>1
    <3>2. /\ s \in Seq(Chars) /\ Len(s) = Len(e) + Len(more)
          /\ \A i \in 1..Len(e) : s[i] = e[i]
      BY <3>1, Joined
    <3> HIDE DEF s
    <3> QED BY <1>3, <3>2
  <2> HIDE DEF s
  <2>3. Len(s) < ULongRange
    BY <1>8 DEF s
  <2>4. /\ Len(s) \in (d + 1)..(ULongRange - 1) /\ Len(s) # N
        /\ \A i \in 1..(d + 1) : s[i] = e[i]
    BY <1>1, <1>2, <1>4, <2>1, <2>2, <2>3
  <2>5. decode(s) = Thrown
    BY <1>5, <2>2, <2>4
  <2> QED BY <2>5 DEF s
<1> QED BY <1>6, <1>7, <1>8 DEF e

-----------------------------------------------------------------------------
(***************************************************************************)
(* The sockets.                                                            *)
(***************************************************************************)

Fds == 1..MaxFd

SocketTypes ==
  /\ m_clients \in Seq(Fds) /\ m_purge \in Seq(Fds)
  /\ ready \subseteq Fds /\ DOMAIN fds \subseteq Fds
  /\ fds \in [DOMAIN fds -> Conns]
  /\ peer \in [Conns -> {"new", "up", "gone"}]
  /\ backlog \in Seq(Conns)
  /\ DOMAIN wire = Conns /\ \A k \in Conns : wire[k] \in Seq(Chars)

\* A connection waits for accept once, and no descriptor is of one that its
\* client has not made.
Connected ==
  /\ IsInjective(backlog)
  /\ \A k \in ToSet(backlog) : peer[k] # "new"
  /\ \A fd \in DOMAIN fds : peer[fds[fd]] # "new"

\* What a call of WaitMessage still has to do: nothing outside of one; what
\* select said is still true when the descriptor's turn comes, but for the one
\* a response is sent to; and only a client that is gone is purged.
Rounds ==
  /\ pc = "idle" => m_purge = <<>> /\ ready = {}
  /\ pc = "accept" => backlog # <<>>
  /\ \A fd \in ready : Readable(fd) \/ (pc \in {"send", "killed"} /\ fd = NextReady)
  /\ \A fd \in ToSet(m_purge) : peer[fds[fd]] = "gone"

IInv == TypeOK /\ SocketTypes /\ Connected /\ Rounds

sockets == <<pc, m_clients, m_purge, ready, fds, peer, backlog, wire>>

\* Whose turn it is depends on the list and on what is left to do.
LEMMA NextKept == UNCHANGED <<m_clients, ready>> => NextReady' = NextReady
BY DEF NextReady, SelectInSeq

\* What Handler and the datagrams do is nothing to the sockets.
LEMMA SocketsUntouched == IInv /\ UNCHANGED sockets => IInv'
BY NextKept DEF IInv, TypeOK, SocketTypes, Connected, Rounds, Readable, sockets

\* The descriptor whose turn it is.
LEMMA NextIsReady ==
  ASSUME SocketTypes, ready \subseteq ToSet(m_clients), ready # {}
  PROVE  NextReady \in ready
<1> DEFINE I == {i \in 1..Len(m_clients) : m_clients[i] \in ready}
<1>1. SelectInSeq(m_clients, LAMBDA fd : fd \in ready) = IF I # {} THEN Min(I) ELSE 0
  BY DEF SelectInSeq
<1>2. I # {} /\ I \in SUBSET Nat
  <2>1. PICK fd \in ready : TRUE
    OBVIOUS
  <2>2. PICK i \in DOMAIN m_clients : m_clients[i] = fd
    BY <2>1 DEF ToSet
  <2>3. DOMAIN m_clients = 1..Len(m_clients) /\ Len(m_clients) \in Nat
    BY DEF SocketTypes
  <2> QED BY <2>1, <2>2, <2>3
<1>3. Min(I) \in I
  <2> HIDE DEF I
  <2> QED BY <1>2, HasLeast
<1>4. NextReady = m_clients[Min(I)]
  <2> HIDE DEF I
  <2> QED BY <1>1, <1>2 DEF NextReady
<1> QED BY <1>3, <1>4

\* The next character to be received is taken from the front.
LEMMA BehindPrefix ==
  ASSUME NEW X, NEW s \in Seq(X), NEW i \in 1..Len(s)
  PROVE  SubSeq(s, i + 1, Len(s)) \in Seq(X)
<1>1. Len(s) \in Nat /\ \A j \in (i + 1)..Len(s) : s[j] \in X
  OBVIOUS
<1> QED BY <1>1, SubSeqProperties

\* Whose the descriptors are that the lists speak of.
LEMMA Owners ==
  ASSUME TypeOK, SocketTypes
  PROVE  /\ \A fd \in DOMAIN fds : fds[fd] \in Conns
         /\ ToSet(m_clients) \subseteq DOMAIN fds /\ ToSet(m_clients) \subseteq Fds
         /\ ready \subseteq DOMAIN fds /\ ToSet(m_purge) \subseteq DOMAIN fds
         /\ ToSet(backlog) \subseteq Conns
<1>1. \A fd \in DOMAIN fds : fds[fd] \in Conns
  BY DEF SocketTypes
<1>2. ToSet(backlog) \subseteq Conns
  BY DEF SocketTypes, ToSet
<1> QED BY <1>1, <1>2 DEF TypeOK, SocketTypes

\* A server starts without clients.
LEMMA InitSockets == Init => IInv
<1> SUFFICES ASSUME Init PROVE IInv
  OBVIOUS
<1>1. TypeOK
  BY DEF Init, TypeOK, ToSet, IsInjective
<1>2. SocketTypes
  BY DEF Init, SocketTypes
<1>3. Connected
  BY DEF Init, Connected, ToSet, IsInjective
<1>4. Rounds
  BY DEF Init, Rounds, ToSet
<1> QED BY <1>1, <1>2, <1>3, <1>4 DEF IInv

\* A client connects: its connection is new, so nothing else speaks of it.
LEMMA ConnectStep ==
  ASSUME IInv, NEW k \in Conns, Connect(k) PROVE IInv'
<1>1. /\ peer[k] = "new" /\ peer' = [peer EXCEPT ![k] = "up"]
      /\ backlog' = Append(backlog, k) /\ UNCHANGED server /\ UNCHANGED wire
  BY DEF Connect
<1>2. TypeOK /\ SocketTypes /\ Connected /\ Rounds
  BY DEF IInv
<1>3. k \notin ToSet(backlog) /\ \A fd \in DOMAIN fds : fds[fd] # k
  BY <1>1, <1>2 DEF Connected
<1>4. /\ backlog' \in Seq(Conns) /\ ToSet(backlog') = ToSet(backlog) \cup {k}
      /\ IsInjective(backlog')
  BY <1>1, <1>2, <1>3, AppendOne DEF SocketTypes, Connected
<1>5. /\ \A j \in Conns \ {k} : peer'[j] = peer[j]
      /\ peer'[k] = "up" /\ peer' \in [Conns -> {"new", "up", "gone"}]
  BY <1>1, <1>2 DEF SocketTypes
<1>6. \A fd \in DOMAIN fds : fds[fd] \in Conns \ {k}
  BY <1>2, <1>3 DEF SocketTypes
<1>7. ready \subseteq DOMAIN fds /\ ToSet(m_purge) \subseteq DOMAIN fds
  BY <1>2 DEF TypeOK
<1>8. TypeOK'
  BY <1>1, <1>2, <1>3, <1>4, <1>5, <1>6 DEF TypeOK, server
<1>9. SocketTypes'
  BY <1>1, <1>2, <1>4, <1>5 DEF SocketTypes, server
<1>10. ToSet(backlog) \subseteq Conns
  BY <1>2 DEF SocketTypes, ToSet
<1>11. Connected'
  BY <1>1, <1>2, <1>3, <1>4, <1>5, <1>6, <1>10 DEF Connected, server
<1>12. Rounds'
  <2>1. backlog' # <<>>
    <3>1. Len(Append(backlog, k)) = Len(backlog) + 1 /\ Len(backlog) \in Nat
      BY <1>2, AppendProperties DEF SocketTypes
    <3> QED BY <1>1, <3>1
  <2>2. NextReady' = NextReady
    BY <1>1, NextKept DEF server
  <2> QED BY <1>1, <1>2, <1>5, <1>6, <1>7, <2>1, <2>2 DEF Rounds, Readable, server
<1> QED BY <1>8, <1>9, <1>11, <1>12 DEF IInv

\* A client hangs up: nothing that was readable is less so.
LEMMA HangUpStep ==
  ASSUME IInv, NEW k \in Conns, HangUp(k) PROVE IInv'
<1>1. /\ peer[k] = "up" /\ peer' = [peer EXCEPT ![k] = "gone"]
      /\ UNCHANGED server /\ UNCHANGED <<backlog, wire>>
  BY DEF HangUp
<1>2. TypeOK /\ SocketTypes /\ Connected /\ Rounds
  BY DEF IInv
<1>3. /\ peer' \in [Conns -> {"new", "up", "gone"}]
      /\ \A j \in Conns : peer'[j] = peer[j] \/ peer'[j] = "gone"
      /\ \A j \in Conns : peer'[j] = "new" => peer[j] = "new"
      /\ \A j \in Conns : peer'[j] = "up" => peer[j] = "up"
      /\ \A j \in Conns : peer[j] = "gone" => peer'[j] = "gone"
  BY <1>1, <1>2 DEF SocketTypes
<1>4. /\ \A fd \in DOMAIN fds : fds[fd] \in Conns
      /\ ready \subseteq DOMAIN fds /\ ToSet(m_purge) \subseteq DOMAIN fds
      /\ ToSet(backlog) \subseteq Conns
  BY <1>2, Owners
<1>5. TypeOK'
  BY <1>1, <1>2, <1>3, <1>4 DEF TypeOK, server
<1>6. SocketTypes'
  BY <1>1, <1>2, <1>3 DEF SocketTypes, server
<1>7. Connected'
  BY <1>1, <1>2, <1>3, <1>4 DEF Connected, server
<1>8. Rounds'
  <2>1. NextReady' = NextReady
    BY <1>1, NextKept DEF server
  <2> QED BY <1>1, <1>2, <1>3, <1>4, <2>1 DEF Rounds, Readable, server
<1> QED BY <1>5, <1>6, <1>7, <1>8 DEF IInv

\* What is on the wire stays there when more is sent.
LEMMA SendStep ==
  ASSUME IInv, NEW k \in Conns, NEW m \in Sends, Send(k, m) PROVE IInv'
<1> DEFINE more == Encoded(format, TextOf(m))
<1>1. UNCHANGED server /\ UNCHANGED <<peer, backlog>>
  BY DEF Send
<1>2. TypeOK /\ SocketTypes /\ Connected /\ Rounds
  BY DEF IInv
<1>3. CASE UNCHANGED wire
  BY <1>1, <1>3, SocketsUntouched DEF server, sockets
<1>4. CASE wire' = [wire EXCEPT ![k] = @ \o more]
  <2>1. TextOf(m) \in Seq(Chars)
    <3> DEFINE t == TextOf(m)
               S == STRING
    <3>1. t \in Seq(S) /\ S \subseteq Chars
      BY SocketsAssumption DEF Chars
    <3> HIDE DEF t, S
    <3>2. t \in Seq(Chars)
      BY <3>1
    <3> QED BY <3>2 DEF t
  <2>2. more \in Seq(Chars)
    <3>1. encode(TextOf(m)) \in Seq(Chars)
      BY <2>1, Encoding
    <3> QED BY <2>1, <3>1 DEF Encoded
  <2> HIDE DEF more
  <2>3. wire[k] \in Seq(Chars)
    BY <1>2 DEF SocketTypes
  <2> DEFINE now == wire[k] \o more
  <2>4. now \in Seq(Chars) /\ (wire[k] # <<>> => now # <<>>)
    BY <2>2, <2>3
  <2> HIDE DEF now
  <2>5. DOMAIN wire' = Conns /\ \A j \in Conns : wire'[j] = IF j = k THEN now ELSE wire[j]
    BY <1>2, <1>4 DEF SocketTypes, now
  <2>6. /\ \A j \in Conns : wire'[j] \in Seq(Chars)
        /\ \A j \in Conns : wire[j] # <<>> => wire'[j] # <<>>
    BY <1>2, <2>4, <2>5 DEF SocketTypes
  <2>7. TypeOK' /\ Connected'
    BY <1>1, <1>2 DEF TypeOK, Connected, server
  <2>8. SocketTypes'
    BY <1>1, <1>2, <2>5, <2>6 DEF SocketTypes, server
  <2>9. Rounds'
    <3>1. \A fd \in ready : fds[fd] \in Conns
      BY <1>2 DEF TypeOK, SocketTypes
    <3>2. NextReady' = NextReady
      BY <1>1, NextKept DEF server
    <3> QED BY <1>1, <1>2, <2>6, <3>1, <3>2 DEF Rounds, Readable, server
  <2> QED BY <2>7, <2>8, <2>9 DEF IInv
<1> QED BY <1>3, <1>4 DEF Send

\* A round of WaitMessage begins with what is readable now.
LEMMA SelectStep ==
  ASSUME IInv, Select PROVE IInv'
<1>1. /\ ready' = {fd \in ToSet(m_clients) : Readable(fd)}
      /\ pc' = (IF backlog # <<>> THEN "accept" ELSE "serve") /\ pc = "idle"
      /\ UNCHANGED <<m_clients, m_purge, fds, peer, backlog, wire>>
  BY DEF Select, clients
<1>2. TypeOK /\ SocketTypes /\ Connected /\ Rounds
  BY DEF IInv
<1>3. m_purge = <<>> /\ ToSet(m_purge) = {}
  BY <1>1, <1>2 DEF Rounds, ToSet
<1>4. ToSet(m_clients) \subseteq Fds
  BY <1>2 DEF TypeOK, SocketTypes
<1>5. TypeOK'
  BY <1>1, <1>2, <1>3 DEF TypeOK
<1>6. SocketTypes'
  BY <1>1, <1>2, <1>4 DEF SocketTypes
<1>7. Connected'
  BY <1>1, <1>2 DEF Connected
<1>8. Rounds'
  BY <1>1, <1>2, <1>3 DEF Rounds, Readable
<1> QED BY <1>5, <1>6, <1>7, <1>8 DEF IInv

\* A new descriptor: the least that is free, so that nothing is said of it.
LEMMA AcceptStep ==
  ASSUME IInv, Accept PROVE IInv'
<1> DEFINE client == Min(FreeFds)
           k == Head(backlog)
<1>1. pc = "accept" /\ pc' = "serve" /\ UNCHANGED <<m_purge, ready, peer, wire>>
  BY DEF Accept
<1>2. TypeOK /\ SocketTypes /\ Connected /\ Rounds
  BY DEF IInv
<1>3. /\ \A fd \in DOMAIN fds : fds[fd] \in Conns
      /\ ToSet(m_clients) \subseteq DOMAIN fds
      /\ ready \subseteq DOMAIN fds /\ ToSet(m_purge) \subseteq DOMAIN fds
      /\ ToSet(backlog) \subseteq Conns
  BY <1>2, Owners
<1>4. CASE FreeFds = {}
  <2>1. UNCHANGED <<fds, m_clients, backlog>>
    BY <1>4 DEF Accept
  <2>2. TypeOK' /\ SocketTypes' /\ Connected'
    BY <1>1, <1>2, <2>1 DEF TypeOK, SocketTypes, Connected
  <2>3. Rounds'
    BY <1>1, <1>2, <2>1 DEF Rounds, Readable
  <2> QED BY <2>2, <2>3 DEF IInv
<1>5. CASE FreeFds # {}
  <2>1. /\ fds' = [fd \in DOMAIN fds \cup {client} |-> IF fd = client THEN k ELSE fds[fd]]
        /\ m_clients' = Append(m_clients, client)
        /\ backlog' = Tail(backlog)
    BY <1>5 DEF Accept
  <2>2. client \in Fds \ DOMAIN fds
    <3>1. FreeFds \in SUBSET Nat /\ FreeFds = Fds \ DOMAIN fds
      BY SocketsAssumption DEF FreeFds, Fds
    <3> QED BY <1>5, <3>1, HasLeast
  <2> HIDE DEF client
  <2>3. /\ k \in ToSet(backlog) /\ backlog' \in Seq(Conns) /\ IsInjective(backlog')
        /\ ToSet(backlog') \subseteq ToSet(backlog) \ {k}
    <3>1. backlog \in Seq(Conns) /\ backlog # <<>> /\ IsInjective(backlog)
      BY <1>1, <1>2 DEF SocketTypes, Rounds, Connected
    <3> DEFINE rest == Tail(backlog)
    <3>2. /\ rest \in Seq(Conns) /\ Len(rest) = Len(backlog) - 1 /\ Len(backlog) \in Nat \ {0}
          /\ \A i \in 1..Len(rest) : rest[i] = backlog[i + 1]
          /\ k = backlog[1]
      BY <3>1, HeadTailProperties
    <3> HIDE DEF rest
    <3>3. IsInjective(rest) /\ ToSet(rest) \subseteq ToSet(backlog) \ {k}
      <4>1. /\ DOMAIN rest = 1..Len(rest) /\ DOMAIN backlog = 1..Len(backlog)
            /\ \A i \in 1..Len(rest) : i + 1 \in 1..Len(backlog) /\ i + 1 # 1
            /\ 1 \in 1..Len(backlog)
        BY <3>1, <3>2
      <4>2. ASSUME NEW i \in 1..Len(rest), NEW j \in 1..Len(rest), rest[i] = rest[j]
            PROVE  i = j
        <5>1. backlog[i + 1] = backlog[j + 1] /\ i + 1 \in DOMAIN backlog /\ j + 1 \in DOMAIN backlog
          BY <3>2, <4>1, <4>2
        <5>2. i + 1 = j + 1
          BY <3>1, <5>1 DEF IsInjective
        <5> QED BY <5>2
      <4>3. ASSUME NEW i \in 1..Len(rest)
            PROVE  rest[i] \in ToSet(backlog) \ {k}
        <5>1. i + 1 \in DOMAIN backlog /\ 1 \in DOMAIN backlog /\ i + 1 # 1 /\ rest[i] = backlog[i + 1]
          BY <3>2, <4>1
        <5> QED BY <3>1, <3>2, <5>1 DEF IsInjective, ToSet
      <4> QED BY <4>1, <4>2, <4>3 DEF IsInjective, ToSet
    <3>4. k \in ToSet(backlog)
      BY <3>1, <3>2 DEF ToSet
    <3> QED BY <2>1, <3>2, <3>3, <3>4 DEF rest
  <2> HIDE DEF k
  <2>4. /\ m_clients' \in Seq(Fds) /\ IsInjective(m_clients')
        /\ ToSet(m_clients') = ToSet(m_clients) \cup {client}
    BY <1>2, <1>3, <2>1, <2>2, AppendOne DEF SocketTypes, TypeOK
  <2>5. k \in Conns /\ peer[k] # "new" /\ \A fd \in DOMAIN fds : fds[fd] # k
    BY <1>2, <1>3, <2>3 DEF TypeOK, Connected
  <2>6. /\ DOMAIN fds' = DOMAIN fds \cup {client} /\ fds'[client] = k
        /\ \A fd \in DOMAIN fds : fds'[fd] = fds[fd]
        /\ fds' \in [DOMAIN fds' -> Conns]
    BY <1>3, <2>1, <2>2, <2>5
  <2>7. TypeOK'
    <3>1. IsInjective(fds')
      BY <1>2, <2>5, <2>6 DEF TypeOK, IsInjective
    <3>2. \A fd \in DOMAIN fds' : peer'[fds'[fd]] = "up" => fd \in ToSet(m_clients')
      BY <1>1, <1>2, <2>4, <2>6 DEF TypeOK
    <3>3. \A j \in ToSet(backlog') : \A fd \in DOMAIN fds' : fds'[fd] # j
      BY <1>2, <2>3, <2>6 DEF TypeOK
    <3>4. DOMAIN fds' \subseteq 1..MaxFd
      BY <1>2, <2>2, <2>6 DEF TypeOK, Fds
    <3> QED BY <1>1, <1>2, <1>3, <2>4, <2>6, <3>1, <3>2, <3>3, <3>4 DEF TypeOK
  <2>8. SocketTypes'
    BY <1>1, <1>2, <2>2, <2>3, <2>4, <2>6 DEF SocketTypes
  <2>9. Connected'
    BY <1>1, <1>2, <2>3, <2>5, <2>6 DEF Connected
  <2>10. Rounds'
    BY <1>1, <1>2, <1>3, <2>6 DEF Rounds, Readable
  <2> QED BY <2>7, <2>8, <2>9, <2>10 DEF IInv
<1> QED BY <1>4, <1>5

\* Recv reads of one connection, or finds that its client is gone.
LEMMA ServeStep ==
  ASSUME IInv, Serve PROVE IInv'
<1> DEFINE fd == NextReady
           k == fds[fd]
<1>1. /\ pc = "serve" /\ ready # {} /\ Recv(fd)
      /\ UNCHANGED <<m_clients, fds, peer, backlog>>
  BY DEF Serve
<1>2. TypeOK /\ SocketTypes /\ Connected /\ Rounds
  BY DEF IInv
<1>3. /\ \A other \in DOMAIN fds : fds[other] \in Conns
      /\ ToSet(m_clients) \subseteq DOMAIN fds
      /\ ready \subseteq DOMAIN fds /\ ToSet(m_purge) \subseteq DOMAIN fds
  BY <1>2, Owners
<1>4. fd \in ready
  BY <1>1, <1>2, NextIsReady DEF TypeOK
<1> HIDE DEF fd
<1>5. CASE wire[k] = <<>>
  <2>1. m_purge' = Append(m_purge, fd) /\ ready' = ready \ {fd} /\ UNCHANGED <<wire, pc>>
    BY <1>1, <1>5 DEF Recv
  <2>2. peer[k] = "gone"
    BY <1>1, <1>2, <1>4, <1>5 DEF Rounds, Readable
  <2>3. fd \notin ToSet(m_purge) /\ fd \in Fds
    BY <1>2, <1>4 DEF TypeOK, SocketTypes
  <2>4. /\ m_purge' \in Seq(Fds) /\ IsInjective(m_purge')
        /\ ToSet(m_purge') = ToSet(m_purge) \cup {fd}
    BY <1>2, <2>1, <2>3, AppendOne DEF SocketTypes, TypeOK
  <2>5. TypeOK'
    BY <1>1, <1>2, <1>4, <2>1, <2>4 DEF TypeOK
  <2>6. SocketTypes' /\ Connected'
    BY <1>1, <1>2, <2>1, <2>4 DEF SocketTypes, Connected
  <2>7. Rounds'
    BY <1>1, <1>2, <2>1, <2>2, <2>4 DEF Rounds, Readable
  <2> QED BY <2>5, <2>6, <2>7 DEF IInv
<1>6. CASE wire[k] # <<>>
  <2>1. PICK i \in 1..Len(wire[k]) :
          /\ wire' = [wire EXCEPT ![k] = SubSeq(@, i + 1, Len(@))]
          /\ UNCHANGED m_purge
          /\ \/ pc' = "send" /\ ready' = ready
             \/ pc' = "serve" /\ ready' = ready \ {fd}
    <3>1. Len(wire[k]) \in Nat
      BY <1>2, <1>3, <1>4 DEF SocketTypes
    <3>2. PICK i \in 1..(IF Len(wire[k]) < BufSize THEN Len(wire[k]) ELSE BufSize) :
            /\ wire' = [wire EXCEPT ![k] = SubSeq(@, i + 1, Len(@))]
            /\ UNCHANGED m_purge
            /\ \/ pc' = "send" /\ ready' = ready
               \/ pc' = pc /\ ready' = ready \ {fd}
      BY <1>1, <1>6, Zenon DEF Recv
    <3>3. i \in 1..Len(wire[k])
      <4> DEFINE len == Len(wire[k])
      <4> HIDE DEF len
      <4> QED BY <3>1, <3>2, SocketsAssumption DEF len
    <3> QED BY <1>1, <3>2, <3>3
  <2>2. DOMAIN wire' = Conns /\ \A j \in Conns : wire'[j] \in Seq(Chars)
    <3>1. k \in Conns /\ wire[k] \in Seq(Chars)
      BY <1>2, <1>3, <1>4 DEF SocketTypes
    <3>2. SubSeq(wire[k], i + 1, Len(wire[k])) \in Seq(Chars)
      BY <3>1, BehindPrefix
    <3> QED BY <1>2, <2>1, <3>1, <3>2 DEF SocketTypes
  <2>3. \A other \in ready \ {fd} : fds[other] \in Conns \ {k}
    BY <1>1, <1>2, <1>3, <1>4 DEF TypeOK, IsInjective
  <2>4. \A j \in Conns \ {k} : wire'[j] = wire[j]
    BY <1>2, <2>1 DEF SocketTypes
  <2>5. TypeOK' /\ Connected'
    BY <1>1, <1>2, <2>1 DEF TypeOK, Connected
  <2>6. SocketTypes'
    BY <1>1, <1>2, <2>1, <2>2 DEF SocketTypes
  <2>7. Rounds'
    <3>1. \A other \in ready \ {fd} : Readable(other)'
      BY <1>1, <1>2, <2>3, <2>4 DEF Rounds, Readable
    <3>2. pc' = "send" => NextReady' = fd
      BY <1>1, <2>1, NextKept DEF fd
    <3>3. \A other \in ToSet(m_purge') : peer'[fds'[other]] = "gone"
      BY <1>1, <1>2, <2>1 DEF Rounds
    <3> QED BY <2>1, <3>1, <3>2, <3>3 DEF Rounds
  <2> QED BY <2>5, <2>6, <2>7 DEF IInv
<1> QED BY <1>5, <1>6

\* A response is sent, or its client is found gone.
LEMMA RespondStep ==
  ASSUME IInv, Respond \/ BrokenPipe PROVE IInv'
<1>1. /\ pc = "send" /\ UNCHANGED <<m_clients, m_purge, fds, peer, backlog, wire>>
      /\ \/ pc' = "serve" /\ ready' = ready \ {NextReady}
         \/ pc' = "killed" /\ ready' = ready
  BY DEF Respond, BrokenPipe, clients
<1>2. TypeOK /\ SocketTypes /\ Connected /\ Rounds
  BY DEF IInv
<1>3. TypeOK' /\ SocketTypes' /\ Connected'
  BY <1>1, <1>2 DEF TypeOK, SocketTypes, Connected
<1>4. \A fd \in ready : Readable(fd)' \/ fd = NextReady
  BY <1>1, <1>2 DEF Rounds, Readable
<1>5. ready' = ready => NextReady' = NextReady
  BY <1>1, NextKept
<1>6. \A fd \in ToSet(m_purge') : peer'[fds'[fd]] = "gone"
  BY <1>1, <1>2 DEF Rounds
<1> QED BY <1>1, <1>3, <1>4, <1>5, <1>6 DEF IInv, Rounds

\* Only clients that are gone are taken off the list.
LEMMA PurgeStep ==
  ASSUME IInv, Purge PROVE IInv'
<1>1. /\ ready = {} /\ pc' = "idle" /\ m_purge' = <<>>
      /\ m_clients' = Without(m_clients, ToSet(m_purge))
      /\ UNCHANGED <<ready, fds, peer, backlog, wire>>
  BY DEF Purge, clients
<1>2. TypeOK /\ SocketTypes /\ Connected /\ Rounds
  BY DEF IInv
<1>3. /\ m_clients' \in Seq(Fds) /\ IsInjective(m_clients')
      /\ ToSet(m_clients') = ToSet(m_clients) \ ToSet(m_purge)
  BY <1>1, <1>2, WithoutKeeps DEF SocketTypes, TypeOK
<1>4. ToSet(m_purge') = {} /\ IsInjective(m_purge') /\ m_purge' \in Seq(Fds)
  BY <1>1 DEF ToSet, IsInjective
<1>5. TypeOK'
  BY <1>1, <1>2, <1>3, <1>4 DEF TypeOK, Rounds
<1>6. SocketTypes' /\ Connected'
  BY <1>1, <1>2, <1>3, <1>4 DEF SocketTypes, Connected
<1>7. Rounds'
  BY <1>1, <1>4 DEF Rounds, Readable
<1> QED BY <1>5, <1>6, <1>7 DEF IInv

\* Close: what is left open belongs to clients that were not listed.
LEMMA CloseStep ==
  ASSUME IInv, Close PROVE IInv'
<1> DEFINE open == DOMAIN fds \ ToSet(m_clients)
           Closed(k) == \E fd \in ToSet(m_clients) : fds[fd] = k
<1>1. /\ pc = "idle" /\ fds' = Restrict(fds, open) /\ m_clients' = <<>>
      /\ peer' = [k \in Conns |-> IF Closed(k) THEN "gone" ELSE peer[k]]
      /\ UNCHANGED <<pc, m_purge, ready, backlog, wire>>
  BY DEF Close
<1>2. TypeOK /\ SocketTypes /\ Connected /\ Rounds
  BY DEF IInv
<1>3. m_purge = <<>> /\ ready = {} /\ ToSet(m_purge) = {}
  BY <1>1, <1>2 DEF Rounds, ToSet
<1>4. ToSet(m_clients') = {} /\ IsInjective(m_clients') /\ m_clients' \in Seq(Fds)
  BY <1>1 DEF ToSet, IsInjective
<1>5. DOMAIN fds' = open /\ \A fd \in open : fds'[fd] = fds[fd]
  BY <1>1 DEF Restrict
<1>6. /\ peer' \in [Conns -> {"new", "up", "gone"}]
      /\ \A k \in Conns : peer'[k] = peer[k] \/ peer'[k] = "gone"
  BY <1>1, <1>2 DEF SocketTypes
<1> HIDE DEF Closed
<1>7. ToSet(backlog) \subseteq Conns /\ \A fd \in DOMAIN fds : fds[fd] \in Conns
  BY <1>2, Owners
<1>8. TypeOK'
  <2>1. IsInjective(fds')
    BY <1>2, <1>5 DEF TypeOK, IsInjective
  <2>2. \A fd \in open : peer'[fds'[fd]] # "up"
    BY <1>2, <1>5, <1>6, <1>7 DEF TypeOK
  <2> QED BY <1>1, <1>2, <1>3, <1>4, <1>5, <2>1, <2>2 DEF TypeOK
<1>9. SocketTypes'
  BY <1>1, <1>2, <1>4, <1>5, <1>6, <1>7 DEF SocketTypes, Restrict
<1>10. Connected'
  <2>1. \A k \in Conns : peer[k] # "new" => peer'[k] # "new"
    BY <1>6
  <2>2. \A k \in ToSet(backlog) : peer'[k] # "new"
    BY <1>2, <1>7, <2>1 DEF Connected
  <2>3. \A fd \in open : peer'[fds'[fd]] # "new"
    BY <1>2, <1>5, <1>7, <2>1 DEF Connected
  <2> HIDE DEF open
  <2> QED BY <1>1, <1>2, <1>5, <2>2, <2>3 DEF Connected
<1>11. Rounds'
  BY <1>1, <1>3 DEF Rounds, Readable
<1> QED BY <1>8, <1>9, <1>10, <1>11 DEF IInv

\* Every descriptor the server serves is open and has one client of its own,
\* every client that is there is on the list, and what is purged is gone: for
\* every number of connections and descriptors, whatever is sent, however it
\* is cut, and whatever Handler says.
THEOREM SocketsCorrect == Spec => []TypeOK
<1>1. IInv /\ [Next]_vars => IInv'
  <2> SUFFICES ASSUME IInv, [Next]_vars PROVE IInv'
    OBVIOUS
  <2>1. ASSUME NEW k \in Conns, Connect(k) PROVE IInv'
    BY <2>1, ConnectStep
  <2>2. ASSUME NEW k \in Conns, HangUp(k) PROVE IInv'
    BY <2>2, HangUpStep
  <2>3. ASSUME NEW k \in Conns, NEW m \in Sends, Send(k, m) PROVE IInv'
    BY <2>3, SendStep
  <2>4. ASSUME NEW i \in DOMAIN datagrams, Lose(i) \/ Repeat(i) \/ RecvFrom(i) PROVE IInv'
    <3>1. UNCHANGED sockets
      BY <2>4 DEF Lose, Repeat, RecvFrom, server, sockets
    <3> QED BY <3>1, SocketsUntouched
  <2>5. CASE Serving \/ Respond
    BY <2>5, SelectStep, AcceptStep, ServeStep, PurgeStep, RespondStep DEF Serving
  <2>6. CASE Close
    BY <2>6, CloseStep
  <2>7. CASE ChangeMethods \/ Killed \/ UNCHANGED vars
    <3>1. UNCHANGED sockets
      BY <2>7 DEF ChangeMethods, Killed, vars, clients, sockets
    <3> QED BY <3>1, SocketsUntouched
  <2> QED BY <2>1, <2>2, <2>3, <2>4, <2>5, <2>6, <2>7 DEF Next
<1>2. IInv => TypeOK
  BY DEF IInv
<1> QED BY InitSockets, <1>1, <1>2, PTL DEF Spec

-----------------------------------------------------------------------------
(***************************************************************************)
(* Values: the children of a node, and of one that is filled with them.    *)
(***************************************************************************)

Shape(n) == n = [p \in DOMAIN n |-> n[p]] /\ DOMAIN n \subseteq Seq(Int) /\ <<>> \in DOMAIN n

\* The path of one key.
LEMMA OneKey ==
  ASSUME NEW k \in Int
  PROVE  <<k>> \in Seq(Int) /\ Len(<<k>>) = 1 /\ <<k>>[1] = k /\ SubSeq(<<k>>, 1, 1) = <<k>>
<1> DEFINE one == <<k>>
           s == SubSeq(one, 1, 1)
<1>1. one \in Seq(Int) /\ Len(one) = 1 /\ one[1] = k
  OBVIOUS
<1> HIDE DEF one
<1>2. s \in Seq(Int) /\ Len(s) = 1 /\ s[1] = k
  BY <1>1
<1> HIDE DEF s
<1>3. s = one
  BY <1>1, <1>2, SeqEqual
<1> QED BY <1>1, <1>3 DEF s, one

\* A key in front of a path, and its being there.
LEMMA KeyAndPath ==
  ASSUME NEW k \in Int, NEW q \in Seq(Int)
  PROVE  LET p == <<k>> \o q
         IN /\ p \in Seq(Int) /\ p # <<>> /\ Len(p) = Len(q) + 1
            /\ p[1] = k /\ Head(p) = k /\ Tail(p) = q
            /\ IsPrefix(<<k>>, p) /\ Behind(<<k>>, p) = q
<1> DEFINE p == <<k>> \o q
<1>1. /\ p \in Seq(Int) /\ Len(p) = Len(q) + 1 /\ Len(q) \in Nat /\ p[1] = k
      /\ \A i \in 1..Len(q) : p[1 + i] = q[i]
  <2>1. <<k>> \in Seq(Int) /\ Len(<<k>>) = 1 /\ <<k>>[1] = k
    OBVIOUS
  <2>2. /\ p \in Seq(Int) /\ Len(p) = Len(<<k>>) + Len(q) /\ Len(q) \in Nat
        /\ \A i \in 1..Len(<<k>>) : p[i] = <<k>>[i]
        /\ \A i \in 1..Len(q) : p[Len(<<k>>) + i] = q[i]
    BY <2>1, Joined
  <2> HIDE DEF p
  <2> QED BY <2>1, <2>2
<1> HIDE DEF p
<1>2. p # <<>> /\ Head(p) = k
  BY <1>1
<1>3. Tail(p) = q
  <2> DEFINE t == Tail(p)
  <2>1. t \in Seq(Int) /\ Len(t) = Len(q) /\ \A i \in 1..Len(q) : t[i] = p[1 + i]
    BY <1>1, <1>2
  <2> HIDE DEF t
  <2>2. t = q
    BY <1>1, <2>1, SeqEqual
  <2> QED BY <2>2 DEF t
<1>4. SubSeq(p, 1, 1) = <<k>>
  <2> DEFINE s == SubSeq(p, 1, 1)
             one == <<k>>
  <2>1. s \in Seq(Int) /\ Len(s) = 1 /\ s[1] = p[1] /\ one \in Seq(Int) /\ Len(one) = 1 /\ one[1] = k
    BY <1>1
  <2> HIDE DEF s, one
  <2>2. s = one
    BY <1>1, <2>1, SeqEqual
  <2> QED BY <2>2 DEF s, one
<1>5. IsPrefix(<<k>>, p)
  <2>1. SubSeq(<<k>>, 1, 1) = <<k>> /\ Len(<<k>>) = 1
    BY OneKey
  <2> QED BY <1>1, <1>4, <2>1 DEF IsPrefix
<1>6. SubSeq(p, 2, Len(p)) = q
  <2> DEFINE s == SubSeq(p, 2, Len(p))
  <2>1. s \in Seq(Int) /\ Len(s) = Len(q) /\ \A i \in 1..Len(q) : s[i] = p[1 + i]
    BY <1>1
  <2> HIDE DEF s
  <2>2. s = q
    BY <1>1, <2>1, SeqEqual
  <2> QED BY <2>2 DEF s
<1>7. Behind(<<k>>, p) = q
  BY <1>6 DEF Behind
<1> QED BY <1>1, <1>2, <1>3, <1>5, <1>7 DEF p

\* A path that has a key in front.
LEMMA FirstKey ==
  ASSUME NEW k \in Int, NEW r \in Seq(Int), IsPrefix(<<k>>, r)
  PROVE  Behind(<<k>>, r) \in Seq(Int) /\ r = <<k>> \o Behind(<<k>>, r)
<1> DEFINE q == SubSeq(r, 2, Len(r))
<1>1. Len(<<k>>) = 1 /\ <<k>>[1] = k /\ SubSeq(<<k>>, 1, 1) = <<k>>
  BY OneKey
<1>2. Len(r) >= 1 /\ SubSeq(r, 1, 1) = <<k>>
  BY <1>1 DEF IsPrefix
<1>3. r[1] = k
  <2>1. SubSeq(r, 1, 1)[1] = r[1]
    BY <1>2
  <2> QED BY <1>1, <1>2, <2>1
<1>4. q \in Seq(Int) /\ Len(q) = Len(r) - 1 /\ \A i \in 1..Len(q) : q[i] = r[i + 1]
  BY <1>2
<1> HIDE DEF q
<1>5. r = <<k>> \o q
  <2> DEFINE p == <<k>> \o q
  <2>1. /\ p \in Seq(Int) /\ Len(p) = Len(<<k>>) + Len(q) /\ Len(q) \in Nat
        /\ \A i \in 1..Len(<<k>>) : p[i] = <<k>>[i]
        /\ \A i \in 1..Len(q) : p[Len(<<k>>) + i] = q[i]
    BY <1>4, Joined, <<k>> \in Seq(Int)
  <2> HIDE DEF p
  <2>2. Len(p) = Len(r)
    BY <1>1, <1>2, <1>4, <2>1
  <2>3. ASSUME NEW i \in 1..Len(r) PROVE p[i] = r[i]
    <3>1. CASE i = 1
      BY <1>1, <1>3, <2>1, <3>1
    <3>2. CASE i # 1
      <4>1. i - 1 \in 1..Len(q) /\ 1 + (i - 1) = i /\ (i - 1) + 1 = i
        BY <1>2, <1>4, <3>2, SMTT(30)
      <4>2. q[i - 1] = r[i]
        BY <1>4, <4>1
      <4> DEFINE j == i - 1
      <4>3. j \in 1..Len(q) /\ 1 + j = i
        BY <4>1
      <4> HIDE DEF j
      <4>4. p[Len(<<k>>) + j] = q[j]
        BY <2>1, <4>3
      <4>5. Len(<<k>>) + j = i
        BY <1>1, <4>3
      <4> QED BY <4>2, <4>4, <4>5 DEF j
    <3> QED BY <3>1, <3>2
  <2>4. p = r
    BY <2>1, <2>2, <2>3, SeqEqual
  <2> QED BY <2>4 DEF p
<1> QED BY <1>1, <1>4, <1>5 DEF Behind, q

\* The keys of a node, as far as the paths say.
LEMMA KidsAre ==
  ASSUME NEW n, Shape(n)
  PROVE  Kids(n) = {k \in Int : <<k>> \in DOMAIN n}
<1>1. ASSUME NEW k \in Kids(n) PROVE k \in Int /\ <<k>> \in DOMAIN n
  <2>1. PICK q \in DOMAIN n : Len(q) = 1 /\ k = q[1]
    BY <1>1 DEF Kids
  <2>2. q \in Seq(Int) /\ q[1] \in Int
    <3>1. q \in Seq(Int)
      BY <2>1 DEF Shape
    <3> QED BY <2>1, <3>1
  <2> DEFINE one == <<k>>
  <2>3. one \in Seq(Int) /\ Len(one) = 1 /\ one[1] = k
    BY <2>1, <2>2, OneKey
  <2> HIDE DEF one
  <2>4. q = one
    BY <2>1, <2>2, <2>3, SeqEqual
  <2> QED BY <2>1, <2>2, <2>4 DEF one
<1>2. ASSUME NEW k \in Int, <<k>> \in DOMAIN n PROVE k \in Kids(n)
  <2>1. Len(<<k>>) = 1 /\ <<k>>[1] = k
    BY OneKey
  <2> QED BY <1>2, <2>1 DEF Kids
<1> QED BY <1>1, <1>2

\* The child a key leads to.
LEMMA AtIs ==
  ASSUME NEW n, Shape(n), NEW k \in Int
  PROVE  /\ DOMAIN At(n, <<k>>) = {q \in Seq(Int) : <<k>> \o q \in DOMAIN n}
         /\ \A q \in DOMAIN At(n, <<k>>) : At(n, <<k>>)[q] = n[<<k>> \o q]
         /\ At(n, <<k>>) = [q \in DOMAIN At(n, <<k>>) |-> At(n, <<k>>)[q]]
<1> DEFINE D == {Behind(<<k>>, q) : q \in {r \in DOMAIN n : IsPrefix(<<k>>, r)}}
<1>1. At(n, <<k>>) = [q \in D |-> n[<<k>> \o q]]
  BY DEF At
<1>2. ASSUME NEW q \in D PROVE q \in Seq(Int) /\ <<k>> \o q \in DOMAIN n
  <2>1. PICK r \in DOMAIN n : IsPrefix(<<k>>, r) /\ q = Behind(<<k>>, r)
    BY <1>2
  <2>2. r \in Seq(Int)
    BY <2>1 DEF Shape
  <2>3. Behind(<<k>>, r) \in Seq(Int) /\ r = <<k>> \o Behind(<<k>>, r)
    BY <2>1, <2>2, FirstKey
  <2> QED BY <2>1, <2>3
<1>3. ASSUME NEW q \in Seq(Int), <<k>> \o q \in DOMAIN n PROVE q \in D
  <2>1. IsPrefix(<<k>>, <<k>> \o q) /\ Behind(<<k>>, <<k>> \o q) = q
    BY KeyAndPath
  <2> QED BY <1>3, <2>1
<1>4. D = {q \in Seq(Int) : <<k>> \o q \in DOMAIN n}
  BY <1>2, <1>3
<1> HIDE DEF D
<1> QED BY <1>1, <1>4

\* The child of a member, and what is read for an absent one.
LEMMA ChildShape ==
  ASSUME NEW n, Shape(n), NEW k \in Int
  PROVE  /\ Shape(Child(n, k))
         /\ isMember(n, k) => Child(n, k) = At(n, <<k>>) /\ type_(Child(n, k)) = n[<<k>>].type
         /\ ~isMember(n, k) => Child(n, k) = Null
<1>1. isMember(n, k) <=> <<k>> \in DOMAIN n
  BY KidsAre DEF isMember
<1>2. CASE isMember(n, k)
  <2> DEFINE a == At(n, <<k>>)
             one == <<k>>
  <2>1. one \in Seq(Int) /\ one \o <<>> = one /\ <<>> \in Seq(Int)
    BY OneKey, ConcatEmptySeq
  <2>2. /\ DOMAIN a = {q \in Seq(Int) : one \o q \in DOMAIN n}
        /\ \A q \in DOMAIN a : a[q] = n[one \o q]
        /\ a = [q \in DOMAIN a |-> a[q]]
    BY AtIs
  <2>3. Child(n, k) = a
    BY <1>2 DEF Child
  <2> HIDE DEF a
  <2>4. <<>> \in DOMAIN a /\ a[<<>>] = n[one]
    <3>1. one \o <<>> \in DOMAIN n
      BY <1>1, <1>2, <2>1
    <3>2. <<>> \in DOMAIN a
      BY <2>1, <2>2, <3>1
    <3> QED BY <2>1, <2>2, <3>2
  <2>5. Shape(a) /\ type_(a) = n[one].type
    BY <2>2, <2>4 DEF Shape, type_
  <2> QED BY <1>2, <2>3, <2>5 DEF a
<1>3. CASE ~isMember(n, k)
  <2>1. Shape(Null)
    BY EmptySeq DEF Shape, Null, New, Scalar
  <2> QED BY <1>3, <2>1 DEF Child
<1> QED BY <1>2, <1>3

\* A node filled with children has these, and no other.
LEMMA FilledIs ==
  ASSUME NEW n, Shape(n), NEW kids, DOMAIN kids \subseteq Int,
         \A k \in DOMAIN kids : Shape(kids[k])
  PROVE  /\ Shape(Filled(n, kids)) /\ type_(Filled(n, kids)) = type_(n)
         /\ Kids(Filled(n, kids)) = DOMAIN kids
         /\ \A k \in DOMAIN kids : Child(Filled(n, kids), k) = kids[k]
<1> DEFINE f == Filled(n, kids)
           Below(k) == {<<k>> \o q : q \in DOMAIN kids[k]}
<1>1. /\ f = [p \in DOMAIN f |-> f[p]]
      /\ DOMAIN f = {<<>>} \cup UNION {Below(k) : k \in DOMAIN kids}
      /\ \A p \in DOMAIN f : f[p] = IF p = <<>> THEN n[p] ELSE kids[Head(p)][Tail(p)]
  BY DEF Filled
<1>2. \A p : p \in DOMAIN f <=> p = <<>> \/ \E k \in DOMAIN kids : p \in Below(k)
  <2> HIDE DEF f, Below
  <2> QED BY <1>1
<1>3. \A k \in DOMAIN kids : \A q \in DOMAIN kids[k] : q \in Seq(Int) /\ k \in Int
  BY DEF Shape
<1>4. ASSUME NEW k \in DOMAIN kids, NEW q \in DOMAIN kids[k]
      PROVE  /\ <<k>> \o q \in Seq(Int) /\ <<k>> \o q # <<>> /\ (<<k>> \o q)[1] = k
             /\ Head(<<k>> \o q) = k /\ Tail(<<k>> \o q) = q
  BY <1>3, KeyAndPath
<1>5. Shape(f) /\ type_(f) = type_(n)
  <2>1. DOMAIN f \subseteq Seq(Int) /\ <<>> \in DOMAIN f
    <3>1. <<>> \in DOMAIN f
      BY <1>2
    <3>2. ASSUME NEW p \in DOMAIN f PROVE p \in Seq(Int)
      <4>1. CASE p = <<>>
        BY <4>1, EmptySeq
      <4>2. CASE \E k \in DOMAIN kids : p \in Below(k)
        BY <1>4, <4>2
      <4> QED BY <1>2, <4>1, <4>2
    <3> QED BY <3>1, <3>2
  <2>2. f[<<>>] = n[<<>>]
    BY <1>1, <2>1
  <2> HIDE DEF f
  <2> QED BY <1>1, <2>1, <2>2 DEF Shape, type_
<1>6. ASSUME NEW k \in Int, NEW q \in Seq(Int)
      PROVE  <<k>> \o q \in DOMAIN f <=> k \in DOMAIN kids /\ q \in DOMAIN kids[k]
  <2> DEFINE p == <<k>> \o q
  <2>1. p # <<>> /\ Head(p) = k /\ Tail(p) = q
    BY KeyAndPath
  <2>2. ASSUME k \in DOMAIN kids, q \in DOMAIN kids[k] PROVE p \in DOMAIN f
    BY <1>2, <2>2
  <2>3. ASSUME p \in DOMAIN f PROVE k \in DOMAIN kids /\ q \in DOMAIN kids[k]
    <3>1. PICK l \in DOMAIN kids : p \in Below(l)
      BY <1>2, <2>1, <2>3
    <3>2. PICK r \in DOMAIN kids[l] : p = <<l>> \o r
      BY <3>1
    <3>3. Head(p) = l /\ Tail(p) = r
      BY <1>4, <3>2
    <3> QED BY <2>1, <3>1, <3>2, <3>3
  <2> QED BY <2>2, <2>3
<1>7. Kids(f) = DOMAIN kids
  <2>1. Kids(f) = {k \in Int : <<k>> \in DOMAIN f}
    <3> HIDE DEF f
    <3> QED BY <1>5, KidsAre
  <2>2. ASSUME NEW k \in Int PROVE <<k>> \in DOMAIN f <=> k \in DOMAIN kids
    <3> DEFINE one == <<k>>
    <3>1. one \in Seq(Int) /\ one \o <<>> = one /\ <<>> \in Seq(Int)
      BY OneKey, ConcatEmptySeq
    <3>2. one \o <<>> \in DOMAIN f <=> k \in DOMAIN kids /\ <<>> \in DOMAIN kids[k]
      BY <1>6, <3>1
    <3>3. k \in DOMAIN kids => <<>> \in DOMAIN kids[k]
      BY DEF Shape
    <3> HIDE DEF one, f
    <3>4. one \in DOMAIN f <=> k \in DOMAIN kids
      BY <3>1, <3>2, <3>3
    <3> QED BY <3>4 DEF one
  <2> HIDE DEF f
  <2> QED BY <2>1, <2>2
<1>8. ASSUME NEW k \in DOMAIN kids PROVE Child(f, k) = kids[k]
  <2> DEFINE a == At(f, <<k>>)
  <2>1. k \in Int /\ Child(f, k) = a
    BY <1>7 DEF Child, isMember
  <2>2. /\ DOMAIN a = {q \in Seq(Int) : <<k>> \o q \in DOMAIN f}
        /\ \A q \in DOMAIN a : a[q] = f[<<k>> \o q]
        /\ a = [q \in DOMAIN a |-> a[q]]
    <3> HIDE DEF f
    <3> QED BY <1>5, <2>1, AtIs
  <2> HIDE DEF a, f
  <2>3. DOMAIN a = DOMAIN kids[k]
    BY <1>3, <1>6, <2>1, <2>2
  <2>4. ASSUME NEW q \in DOMAIN a PROVE a[q] = kids[k][q]
    <3>1. <<k>> \o q # <<>> /\ Head(<<k>> \o q) = k /\ Tail(<<k>> \o q) = q
      BY <1>4, <2>3, <2>4
    <3>2. <<k>> \o q \in DOMAIN f
      BY <2>2, <2>4
    <3>3. f[<<k>> \o q] = kids[k][q]
      BY <1>1, <3>1, <3>2 DEF f
    <3> QED BY <2>2, <2>4, <3>3
  <2>5. kids[k] = [q \in DOMAIN kids[k] |-> kids[k][q]]
    BY DEF Shape
  <2>6. a = kids[k]
    BY <2>2, <2>3, <2>4, <2>5
  <2> QED BY <2>1, <2>6
<1> QED BY <1>5, <1>7, <1>8

\* A finite set of numbers that is not empty has a greatest element.
LEMMA HasGreatest ==
  ASSUME NEW S \in SUBSET Nat, IsFiniteSet(S), S # {}
  PROVE  Max(S) \in S /\ \A n \in S : n <= Max(S)
<1> DEFINE n == Cardinality(S)
<1>1. n \in Nat \ {0}
  BY FS_CardinalityType, FS_EmptySet
<1>2. PICK f : f \in [1..n -> S] /\ \A m \in S : \E i \in 1..n : f[i] = m
  <2>1. \E f : f \in Bijection(1..n, S)
    <3>1. PICK m \in Nat : ExistsBijection(1..m, S)
      BY FS_NatBijection
    <3>2. m = n
      BY <3>1, FS_CountingElements
    <3> QED BY <3>1, <3>2 DEF ExistsBijection
  <2> QED BY <2>1 DEF Bijection, Injection, Surjection, IsInjective
<1> HIDE DEF n
<1> DEFINE Top(j) == \E m \in S : \A i \in 1..j : f[i] <= m
           T == {j \in 0..n : Top(j)}
<1>3. 0 \in T
  <2>1. 1..0 = {} /\ 0 \in 0..n
    BY <1>1
  <2> QED BY <2>1
<1>4. ASSUME NEW j \in 1..n, j - 1 \in T PROVE j \in T
  <2>1. PICK m \in S : \A i \in 1..(j - 1) : f[i] <= m
    BY <1>4
  <2>2. f[j] \in S
    BY <1>2
  <2>3. PICK top \in S : m <= top /\ f[j] <= top
    <3>1. CASE f[j] <= m
      BY <2>1, <3>1
    <3>2. CASE ~(f[j] <= m)
      <4> DEFINE e == f[j]
      <4> HIDE DEF e
      <4>1. e \in S /\ e \in Nat /\ m \in Nat /\ ~(e <= m)
        BY <2>2, <3>2 DEF e
      <4>2. m <= e /\ e <= e
        BY <4>1
      <4> QED BY <4>1, <4>2 DEF e
    <3> QED BY <3>1, <3>2
  <2>4. ASSUME NEW i \in 1..j PROVE f[i] <= top
    <3>1. CASE i = j
      BY <2>3, <3>1
    <3>2. CASE i # j
      <4>1. i \in 1..(j - 1) /\ i \in 1..n
        BY <1>1, <3>2
      <4>2. f[i] <= m /\ f[i] \in Nat
        BY <1>2, <2>1, <4>1
      <4> QED BY <2>3, <4>2
    <3> QED BY <3>1, <3>2
  <2>5. Top(j)
    BY <2>3, <2>4
  <2>6. j \in 0..n
    BY <1>1
  <2> HIDE DEF Top
  <2> QED BY <2>5, <2>6
<1>5. n \in T
  <2> HIDE DEF T
  <2> QED BY <1>1, <1>3, <1>4, UpTo
<1>6. PICK m \in S : \A k \in S : m >= k
  <2>1. PICK m \in S : \A i \in 1..n : f[i] <= m
    BY <1>5
  <2> QED BY <1>2, <2>1
<1> QED BY <1>6 DEF Max

\* Only arrays and objects have children.
Opens(n) == Kids(n) # {} => type_(n) \in Containers

\* What the values that Reader makes have of all this.
LEMMA WellFormedIs ==
  ASSUME NEW n, WellFormed(n)
  PROVE  /\ Shape(n) /\ Opens(n)
         /\ \A k \in Int : Shape(Child(n, k)) /\ Opens(Child(n, k))
         /\ isArray(n) => Size(n) \in Nat
<1>1. /\ Shape(n) /\ IsFiniteSet(DOMAIN n)
      /\ \A p \in DOMAIN n \ {<<>>} :
           /\ n[Front(p)].type \in Containers
           /\ n[Front(p)].type = arrayValue => Last(p) \in Nat
  BY DEF WellFormed, Shape
<1>2. ASSUME NEW k \in Int PROVE <<k>> # <<>> /\ Front(<<k>>) = <<>> /\ Last(<<k>>) = k
  <2> DEFINE one == <<k>>
  <2>1. one \in Seq(Int) /\ Len(one) = 1 /\ one[1] = k
    BY OneKey
  <2> HIDE DEF one
  <2>2. Last(one) = k
    BY <2>1 DEF Last
  <2>3. Front(one) = <<>>
    <3> DEFINE s == SubSeq(one, 1, 0)
    <3>1. s \in Seq(Int) /\ Len(s) = 0
      BY <2>1
    <3> HIDE DEF s
    <3>2. s = <<>>
      BY <3>1, EmptySeq
    <3> QED BY <2>1, <3>2 DEF Front, s
  <2>4. one # <<>>
    BY <2>1
  <2> QED BY <2>2, <2>3, <2>4 DEF one
<1>3. Kids(n) = {k \in Int : <<k>> \in DOMAIN n}
  BY <1>1, KidsAre
<1>4. \A k \in Kids(n) : type_(n) \in Containers /\ (type_(n) = arrayValue => k \in Nat)
  BY <1>1, <1>2, <1>3 DEF type_
<1>5. ASSUME NEW k \in Int PROVE Shape(Child(n, k)) /\ Opens(Child(n, k))
  <2> DEFINE c == Child(n, k)
  <2>1. /\ Shape(c)
        /\ isMember(n, k) => c = At(n, <<k>>) /\ type_(c) = n[<<k>>].type
        /\ ~isMember(n, k) => c = Null
    BY <1>1, ChildShape
  <2> HIDE DEF c
  <2>2. Kids(c) = {j \in Int : <<j>> \in DOMAIN c}
    BY <2>1, KidsAre
  <2>3. ASSUME NEW j \in Kids(c) PROVE type_(c) \in Containers
    <3>1. isMember(n, k)
      <4>1. <<j>> # <<>> /\ <<j>> \in DOMAIN c
        BY <1>2, <2>2, <2>3
      <4>2. DOMAIN Null = {<<>>}
        BY DEF Null, New, Scalar
      <4> QED BY <2>1, <4>1, <4>2
    <3> DEFINE p == <<k>> \o <<j>>
    <3>2. /\ p \in Seq(Int) /\ p # <<>> /\ Len(p) = 2
          /\ SubSeq(p, 1, 1) = <<k>>
      <4>1. <<j>> \in Seq(Int) /\ Len(<<j>>) = 1
        BY <2>2, <2>3, OneKey
      <4>2. p \in Seq(Int) /\ p # <<>> /\ Len(p) = 2 /\ p[1] = k
        BY <4>1, KeyAndPath
      <4> DEFINE s == SubSeq(p, 1, 1)
                 one == <<k>>
      <4> HIDE DEF p
      <4>3. s \in Seq(Int) /\ Len(s) = 1 /\ s[1] = k
        BY <4>2
      <4>4. one \in Seq(Int) /\ Len(one) = 1 /\ one[1] = k
        BY OneKey
      <4> HIDE DEF s, one
      <4>5. s = one
        BY <4>3, <4>4, SeqEqual
      <4> QED BY <4>2, <4>5 DEF s, one
    <3>3. p \in DOMAIN n
      <4>1. <<j>> \in DOMAIN c
        BY <2>2, <2>3
      <4>2. DOMAIN c = {q \in Seq(Int) : <<k>> \o q \in DOMAIN n}
        BY <1>1, <2>1, <3>1, AtIs
      <4> QED BY <4>1, <4>2
    <3> HIDE DEF p
    <3>4. Front(p) = <<k>>
      BY <3>2 DEF Front
    <3> QED BY <1>1, <2>1, <3>1, <3>2, <3>3, <3>4
  <2> QED BY <2>1, <2>3 DEF Opens, c
<1>6. ASSUME isArray(n) PROVE Size(n) \in Nat
  <2>1. CASE Kids(n) = {}
    BY <2>1, FS_EmptySet DEF Size
  <2>2. CASE Kids(n) # {}
    <3>1. type_(n) = arrayValue
      BY <1>4, <1>6, <2>2 DEF isArray, Containers, nullValue, arrayValue, objectValue
    <3>2. Kids(n) \in SUBSET Nat
      BY <1>4, <3>1
    <3>3. IsFiniteSet(Kids(n))
      <4>1. IsFiniteSet({q \in DOMAIN n : Len(q) = 1})
        BY <1>1, FS_Subset
      <4> DEFINE S == {q \in DOMAIN n : Len(q) = 1}
      <4> HIDE DEF S
      <4>2. IsFiniteSet({p[1] : p \in S})
        <5> DEFINE K == {p[1] : p \in S}
                   f == [p \in S |-> p[1]]
        <5>1. f \in Surjection(S, K)
          BY DEF Surjection
        <5> HIDE DEF f, K
        <5>2. IsFiniteSet(K)
          BY <4>1, <5>1, FS_Surjection DEF S
        <5> QED BY <5>2 DEF K
      <4> QED BY <4>2 DEF Kids, S
    <3>4. Max(Kids(n)) \in Nat
      BY <2>2, <3>2, <3>3, HasGreatest
    <3> QED BY <2>2, <3>1, <3>4 DEF Size
  <2> QED BY <2>1, <2>2
<1> QED BY <1>1, <1>4, <1>5, <1>6 DEF Opens

Nodes == [type : ValueTypes, v : Int, heap : BOOLEAN, comments : [Places -> Seq(Nat)]]
Fielded(n) == \A p \in DOMAIN n : n[p] \in Nodes

\* Null, and the children of a value, are made of nodes.
LEMMA NullIs ==
  Shape(Null) /\ Fielded(Null) /\ type_(Null) = nullValue /\ Kids(Null) = {}
<1>1. Null = [p \in {<<>>} |-> Node(nullValue, 0)]
  BY DEF Null, New, Scalar
<1>2. DOMAIN Null = {<<>>} /\ Null[<<>>] = Node(nullValue, 0)
  BY <1>1
<1>3. Node(nullValue, 0) \in Nodes /\ Node(nullValue, 0).type = nullValue
  <2>1. NoComments \in [Places -> Seq(Nat)]
    BY EmptySeq DEF NoComments
  <2>2. (nullValue = stringValue /\ 0 # NoText) = FALSE
    BY DEF nullValue, stringValue
  <2>3. nullValue \in ValueTypes
    BY DEF nullValue, ValueTypes
  <2> DEFINE c == Node(nullValue, 0)
             none == NoComments
  <2>4. c = [type |-> nullValue, v |-> 0, heap |-> FALSE, comments |-> none]
    BY <2>2 DEF Node
  <2> HIDE DEF c, none
  <2>5. c.type = nullValue
    BY <2>4
  <2>6. c \in [type : ValueTypes, v : Int, heap : BOOLEAN, comments : [Places -> Seq(Nat)]]
    BY <2>1, <2>3, <2>4 DEF none
  <2> QED BY <2>5, <2>6 DEF c, Nodes
<1>4. Shape(Null)
  BY <1>1, <1>2, EmptySeq DEF Shape
<1>5. Kids(Null) = {}
  <2>1. \A k \in Int : <<k>> \notin DOMAIN Null
    BY <1>2
  <2> QED BY <1>4, <2>1, KidsAre
<1> QED BY <1>2, <1>3, <1>4, <1>5 DEF Fielded, type_

LEMMA ChildFielded ==
  ASSUME NEW n, Shape(n), Fielded(n), NEW k \in Int
  PROVE  Fielded(Child(n, k))
<1>1. CASE isMember(n, k)
  <2> DEFINE c == Child(n, k)
  <2>1. /\ c = At(n, <<k>>)
        /\ DOMAIN At(n, <<k>>) = {q \in Seq(Int) : <<k>> \o q \in DOMAIN n}
        /\ \A q \in DOMAIN At(n, <<k>>) : At(n, <<k>>)[q] = n[<<k>> \o q]
    BY <1>1, ChildShape, AtIs
  <2> HIDE DEF c
  <2> QED BY <2>1 DEF Fielded, c
<1>2. CASE ~isMember(n, k)
  BY <1>2, ChildShape, NullIs
<1> QED BY <1>1, <1>2

\* What is assigned to a new entry compares equal to what it was assigned.
LEMMA AssignedIs ==
  ASSUME NEW n, Shape(n), Fielded(n)
  PROVE  Shape(Assigned(Null, n)) /\ Equal(Assigned(Null, n), n)
<1> DEFINE c == Copy(n)
           a == Assigned(Null, n)
           Owned(p) == n[p].type = stringValue /\ n[p].v # NoText
           Top(r) == [r EXCEPT !.comments = Null[<<>>].comments]
<1>1. DOMAIN c = DOMAIN n /\ c = [p \in DOMAIN c |-> c[p]]
      /\ \A p \in DOMAIN n : c[p] = [n[p] EXCEPT !.heap = Owned(p)]
  BY DEF Copy
<1>2. \A p \in DOMAIN n : Owned(p) \in BOOLEAN
  OBVIOUS
<1> HIDE DEF Owned
<1>3. ASSUME NEW p \in DOMAIN n PROVE c[p] \in Nodes /\ c[p].type = n[p].type /\ c[p].v = n[p].v
  <2>1. n[p] \in Nodes
    BY DEF Fielded
  <2> DEFINE r == n[p]
             o == Owned(p)
  <2>2. r \in Nodes /\ o \in BOOLEAN /\ c[p] = [r EXCEPT !.heap = o]
    BY <1>1, <1>2, <2>1
  <2> HIDE DEF c, r, o
  <2> QED BY <2>2 DEF Nodes, r
<1> HIDE DEF c
<1>4. a = [c EXCEPT ![<<>>].comments = Null[<<>>].comments]
  BY DEF Assigned, Swapped, c
<1>5. <<>> \in DOMAIN n /\ DOMAIN n \subseteq Seq(Int)
  BY DEF Shape
<1>6. DOMAIN a = DOMAIN n /\ a = [p \in DOMAIN a |-> a[p]]
      /\ a[<<>>] = Top(c[<<>>]) /\ \A p \in DOMAIN n \ {<<>>} : a[p] = c[p]
  BY <1>1, <1>4, <1>5
<1> HIDE DEF a
<1>7. Top(c[<<>>]).type = c[<<>>].type /\ Top(c[<<>>]).v = c[<<>>].v
  <2> DEFINE r == c[<<>>]
             t == Null[<<>>].comments
  <2>1. r \in Nodes
    BY <1>3, <1>5
  <2> HIDE DEF r, t
  <2>2. [r EXCEPT !.comments = t].type = r.type /\ [r EXCEPT !.comments = t].v = r.v
    BY <2>1 DEF Nodes
  <2> QED BY <2>2 DEF r, t
<1> HIDE DEF Top
<1>8. \A p \in DOMAIN n : a[p].type = n[p].type /\ a[p].v = n[p].v
  BY <1>3, <1>5, <1>6, <1>7
<1> QED BY <1>5, <1>6, <1>8 DEF Shape, Equal, a

-----------------------------------------------------------------------------
(***************************************************************************)
(* What Handler answers to one value.                                      *)
(***************************************************************************)

\* A text or a number by itself, an array or an object that is new.
LEMMA ScalarIs ==
  ASSUME NEW type, NEW v
  PROVE  Shape(Scalar(type, v)) /\ type_(Scalar(type, v)) = type
<1>1. Scalar(type, v) = [p \in {<<>>} |-> Node(type, v)]
  BY DEF Scalar
<1>2. Node(type, v).type = type
  BY DEF Node
<1> HIDE DEF Scalar
<1>3. DOMAIN Scalar(type, v) = {<<>>} /\ Scalar(type, v)[<<>>] = Node(type, v)
  BY <1>1
<1> QED BY <1>1, <1>2, <1>3, EmptySeq DEF Shape, type_

\* An object has the members it was made of.
LEMMA ObjectIs ==
  ASSUME NEW members, DOMAIN members \subseteq Int, \A k \in DOMAIN members : Shape(members[k])
  PROVE  /\ Shape(Object(members)) /\ type_(Object(members)) = objectValue
         /\ \A k \in DOMAIN members : Child(Object(members), k) = members[k]
BY FilledIs, ScalarIs DEF Object, New

\* A response: an object, which is not null, with the id it was given.
IsReply(r, wanted) ==
  /\ Shape(r) /\ type_(r) = objectValue /\ ~Equal(r, Null)
  /\ wanted # <<>> /\ Equal(Child(r, id), wanted[1])

LEMMA ResponseIs ==
  ASSUME NEW rid, Shape(rid), Fielded(rid), NEW k \in {error, result}, NEW value, Shape(value)
  PROVE  IsReply(Response(rid, k, value), <<rid>>)
<1> DEFINE members == [member \in {id, jsonrpc, k} |->
                         IF member = id THEN Assigned(Null, rid)
                         ELSE IF member = jsonrpc THEN String(Version) ELSE value]
           r == Response(rid, k, value)
<1>1. Shape(Assigned(Null, rid)) /\ Equal(Assigned(Null, rid), rid)
  BY AssignedIs
<1>2. Shape(String(Version))
  BY ScalarIs DEF String
<1>3. {id, jsonrpc, k} \subseteq Int
  BY DEF id, jsonrpc, error, result
<1>4. members[id] = Assigned(Null, rid) /\ id \in DOMAIN members
  OBVIOUS
<1>5. /\ Shape(r) /\ type_(r) = objectValue
      /\ \A member \in DOMAIN members : Child(r, member) = members[member]
  <2>1. DOMAIN members = {id, jsonrpc, k}
    OBVIOUS
  <2>2. \A member \in DOMAIN members : Shape(members[member])
    BY <1>1, <1>2
  <2>3. r = Object(members)
    BY DEF Response
  <2> HIDE DEF members, r
  <2> QED BY <1>3, <2>1, <2>2, <2>3, ObjectIs
<1>6. Child(r, id) = Assigned(Null, rid)
  <2> HIDE DEF members, r
  <2> QED BY <1>4, <1>5
<1> HIDE DEF r
<1>7. ~Equal(r, Null)
  <2>1. <<>> \in DOMAIN r /\ r[<<>>].type = objectValue /\ Null[<<>>].type = nullValue
    BY <1>5, NullIs DEF Shape, type_
  <2> QED BY <2>1 DEF Equal, nullValue, objectValue
<1>8. <<rid>> # <<>> /\ <<rid>>[1] = rid
  OBVIOUS
<1> QED BY <1>1, <1>5, <1>6, <1>7, <1>8 DEF IsReply, r

LEMMA ErrorIs ==
  ASSUME NEW rid, Shape(rid), Fielded(rid), NEW c
  PROVE  IsReply(ErrorResponse(rid, c), <<rid>>)
<1> DEFINE members == [member \in {code} |-> Scalar(intValue, c)]
<1>1. DOMAIN members = {code} /\ members[code] = Scalar(intValue, c) /\ code \in Int
  BY DEF code
<1> HIDE DEF members
<1>2. Shape(Object(members))
  BY <1>1, ScalarIs, ObjectIs
<1> QED BY <1>2, ResponseIs DEF ErrorResponse, members

LEMMA DescriptionIs ==
  ASSUME NEW names, ToSet(names) \subseteq Int, NEW root, Shape(Child(root, id)), Fielded(Child(root, id))
  PROVE  IsReply(SystemDescribe(names, root), <<Child(root, id)>>)
<1> DEFINE members == [name \in ToSet(names) |-> Null]
<1>1. DOMAIN members = ToSet(names) /\ \A name \in DOMAIN members : members[name] = Null
  OBVIOUS
<1> HIDE DEF members
<1>2. Shape(Object(members))
  BY <1>1, NullIs, ObjectIs
<1> QED BY <1>2, ResponseIs DEF SystemDescribe, members

\* Check lets requests and notifications through, and nothing else.
LEMMA ChecksProper ==
  ASSUME NEW root, Opens(root)
  PROVE  Check(root) <=> Proper(root)
<1>1. isMember(root, jsonrpc) => type_(root) \in Containers
  BY DEF Opens, isMember
<1>2. \A n : isArray(n) \/ isObject(n) <=> type_(n) \in {nullValue, arrayValue, objectValue}
  BY DEF isArray, isObject
<1>3. Has(root, jsonrpc) <=> type_(root) = objectValue /\ jsonrpc \in Kids(root)
  BY <1>1 DEF Has, isObject, isMember, Containers, nullValue, arrayValue, objectValue
<1> QED BY <1>2, <1>3 DEF Check, Proper, isMember

\* A value is answered with what is wanted, or with nothing if nothing is.
Fits(r, wanted) == IF wanted = <<>> THEN r = Null ELSE IsReply(r, wanted)

LEMMA OneAnswered ==
  ASSUME NEW root, Shape(root), Fielded(root), Opens(root), ~Chatty(root),
         ToSet(methods) \subseteq Int
  PROVE  /\ Fits(ProcessValue(methods, root), WantedOf(root))
         /\ WantedOf(root) \in {<<>>, <<Null>>, <<Child(root, id)>>}
<1> DEFINE own == Child(root, id)
           name == asString(Child(root, method)).v
           r == ProcessValue(methods, root)
<1>1. Shape(own) /\ Fielded(own) /\ id \in Int
  BY ChildShape, ChildFielded, id \in Int DEF id
<1>2. \A x : <<x>> # <<>>
  OBVIOUS
<1>3. Check(root) <=> Proper(root)
  BY ChecksProper
<1>4. CASE ~Check(root)
  <2>1. WantedOf(root) = <<Null>> /\ r = ErrorResponse(Null, INVALID_REQUEST)
    BY <1>3, <1>4 DEF WantedOf, ProcessValue
  <2> QED BY <1>2, <2>1, NullIs, ErrorIs DEF Fits
<1>5. CASE Check(root) /\ ~(name # EmptyText /\ Lookup(methods, name))
  <2>1. r = ErrorResponse(own, METHOD_NOT_FOUND)
    BY <1>5 DEF ProcessValue
  <2>2. IsReply(r, <<own>>)
    BY <1>1, <2>1, ErrorIs
  <2>3. WantedOf(root) = <<own>>
    <3>1. isMember(root, id)
      BY <1>3, <1>5 DEF Chatty, Notification, Lookup
    <3> QED BY <1>3, <1>5, <3>1 DEF WantedOf
  <2> QED BY <1>2, <2>2, <2>3 DEF Fits
<1>6. CASE Check(root) /\ name # EmptyText /\ Lookup(methods, name)
  <2>1. r = Call(methods, name, root)
    BY <1>6 DEF ProcessValue
  <2>2. CASE name = SystemDescribeName
    <3>1. r = SystemDescribe(methods, root)
      BY <2>1, <2>2 DEF Call
    <3>2. IsReply(r, <<own>>)
      BY <1>1, <3>1, DescriptionIs
    <3>3. WantedOf(root) = <<own>>
      <4>1. isMember(root, id)
        BY <1>3, <1>6, <2>2 DEF Chatty, Notification
      <4> QED BY <1>3, <1>6, <4>1 DEF WantedOf
    <3> QED BY <1>2, <3>2, <3>3 DEF Fits
  <2>3. CASE name # SystemDescribeName /\ isMember(root, id)
    <3>1. r = Response(own, result, Null)
      BY <2>1, <2>3 DEF Call
    <3>2. IsReply(r, <<own>>)
      BY <1>1, <3>1, NullIs, ResponseIs
    <3>3. WantedOf(root) = <<own>>
      BY <1>3, <1>6, <2>3 DEF WantedOf
    <3> QED BY <1>2, <3>2, <3>3 DEF Fits
  <2>4. CASE name # SystemDescribeName /\ ~isMember(root, id)
    <3>1. r = Null
      BY <2>1, <2>4 DEF Call
    <3>2. WantedOf(root) = <<>>
      BY <1>3, <1>6, <2>4 DEF WantedOf
    <3> QED BY <3>1, <3>2 DEF Fits
  <2> QED BY <2>2, <2>3, <2>4
<1> QED BY <1>4, <1>5, <1>6

-----------------------------------------------------------------------------
(***************************************************************************)
(* What Handler answers to a batch, and to every message.                  *)
(***************************************************************************)

\* The recursions of ProcessBatch and of Wanted, side by side.
LEMMA BatchIs ==
  ASSUME NEW root, WellFormed(root), Fielded(root), isArray(root), ToSet(methods) \subseteq Int,
         Quiet(root), NEW parsed, parsed.ok, parsed.root = root
  PROVE  LET wanted == Wanted(parsed)
         IN \E all :
              /\ ProcessBatch(methods, root) =
                   IF all = <<>> THEN Null
                   ELSE Filled(New(arrayValue), [j \in 0..(Len(all) - 1) |-> all[j + 1]])
              /\ \E X : all \in Seq(X)
              /\ \E W : wanted \in Seq(W)
              /\ Len(all) = Len(wanted)
              /\ \A i \in 1..Len(all) : IsReply(all[i], <<wanted[i]>>)
<1> DEFINE n == Size(root)
           Own(i) == Child(root, i - 1)
           ret(i) == ProcessValue(methods, Own(i))
           Ids(i) == WantedOf(Own(i))
           One(s, i) == IF Equal(ret(i), Null) THEN s ELSE Append(s, ret(i))
           Two(s, i) == s \o Ids(i)
           X == {ret(i) : i \in 1..n}
           W == {Null} \cup {Child(Own(i), id) : i \in 1..n}
           Is(g) == g = [i \in 0..n |-> IF i = 0 THEN <<>> ELSE One(g[i - 1], i)]
           Are(h) == h = [i \in 0..n |-> IF i = 0 THEN <<>> ELSE Two(h[i - 1], i)]
<1>1. /\ n \in Nat /\ Shape(root)
      /\ \A i \in 1..n : /\ Shape(Own(i)) /\ Opens(Own(i)) /\ Fielded(Own(i))
  <2>1. Shape(root) /\ n \in Nat /\ \A k \in Int : Shape(Child(root, k)) /\ Opens(Child(root, k))
    BY WellFormedIs
  <2>2. \A k \in Int : Fielded(Child(root, k))
    BY <2>1, ChildFielded
  <2> HIDE DEF n
  <2>3. \A i \in 1..n : i - 1 \in Int
    BY <2>1
  <2> QED BY <2>1, <2>2, <2>3
<1>2. ASSUME NEW i \in 1..n
      PROVE  /\ Fits(ret(i), Ids(i)) /\ ret(i) \in X
             /\ Ids(i) = <<>> \/ \E w \in W : Ids(i) = <<w>>
  <2>1. Fits(ret(i), Ids(i)) /\ Ids(i) \in {<<>>, <<Null>>, <<Child(Own(i), id)>>}
    <3>1. ~Chatty(Own(i))
      BY DEF Quiet, Parts
    <3> QED BY <1>1, <3>1, OneAnswered
  <2>2. Null \in W /\ Child(Own(i), id) \in W /\ ret(i) \in X
    OBVIOUS
  <2> HIDE DEF n, ret, Ids, X, W, Own
  <2> QED BY <2>1, <2>2
<1>3. ASSUME NEW i \in 1..n, NEW s \in Seq(X), NEW t \in Seq(W), Len(s) = Len(t),
             \A j \in 1..Len(s) : IsReply(s[j], <<t[j]>>)
      PROVE  /\ One(s, i) \in Seq(X) /\ Two(t, i) \in Seq(W) /\ Len(One(s, i)) = Len(Two(t, i))
             /\ \A j \in 1..Len(One(s, i)) : IsReply(One(s, i)[j], <<Two(t, i)[j]>>)
  <2>1. /\ Fits(ret(i), Ids(i)) /\ ret(i) \in X
        /\ Ids(i) = <<>> \/ \E w \in W : Ids(i) = <<w>>
    BY <1>2
  <2> HIDE DEF n, ret, Ids, X, W, Own
  <2>2. CASE Ids(i) = <<>>
    <3>1. ret(i) = Null /\ Equal(Null, Null)
      BY <2>1, <2>2 DEF Fits, Equal
    <3>2. t \o <<>> = t
      BY ConcatEmptySeq
    <3> QED BY <1>3, <2>2, <3>1, <3>2
  <2>3. CASE Ids(i) # <<>>
    <3>1. PICK w \in W : Ids(i) = <<w>>
      BY <2>1, <2>3
    <3>2. IsReply(ret(i), <<w>>)
      BY <2>1, <2>3, <3>1 DEF Fits
    <3>3. One(s, i) = Append(s, ret(i))
      BY <3>2 DEF IsReply
    <3>4. Two(t, i) = Append(t, w)
      BY <3>1, AppendIsConcat
    <3> DEFINE r == ret(i)
               u == Append(s, r)
               v == Append(t, w)
    <3>5. /\ u \in Seq(X) /\ Len(u) = Len(s) + 1 /\ Len(s) \in Nat
          /\ u[Len(s) + 1] = r /\ \A j \in 1..Len(s) : u[j] = s[j]
      BY <2>1, AppendProperties
    <3>6. /\ v \in Seq(W) /\ Len(v) = Len(t) + 1
          /\ v[Len(t) + 1] = w /\ \A j \in 1..Len(t) : v[j] = t[j]
      BY AppendProperties
    <3>7. ASSUME NEW j \in 1..Len(u) PROVE IsReply(u[j], <<v[j]>>)
      <4> HIDE DEF u, v
      <4>1. CASE j = Len(s) + 1
        BY <1>3, <3>2, <3>5, <3>6, <4>1
      <4>2. CASE j # Len(s) + 1
        <5>1. j \in 1..Len(s)
          BY <3>5, <4>2
        <5> QED BY <1>3, <3>5, <3>6, <5>1
      <4> QED BY <4>1, <4>2
    <3> HIDE DEF One, Two, r, u, v
    <3> QED BY <1>3, <3>3, <3>4, <3>5, <3>6, <3>7 DEF r, u, v
  <2> QED BY <2>2, <2>3
<1>4. <<>> \in Seq(X) /\ <<>> \in Seq(W)
  OBVIOUS
<1>5. ASSUME NEW i \in 1..n PROVE (\A s \in Seq(X) : One(s, i) \in Seq(X)) /\ (\A t \in Seq(W) : Two(t, i) \in Seq(W))
  <2>1. ret(i) \in X /\ Ids(i) \in Seq(W)
    <3>1. /\ ret(i) \in X
          /\ Ids(i) = <<>> \/ \E w \in W : Ids(i) = <<w>>
      BY <1>2
    <3> HIDE DEF n, ret, Ids, X, W, Own
    <3>2. \A w \in W : <<w>> \in Seq(W)
      OBVIOUS
    <3>3. Ids(i) \in Seq(W)
      BY <1>4, <3>1, <3>2, Zenon
    <3> QED BY <3>1, <3>3
  <2> HIDE DEF n, ret, Ids, X, W, Own
  <2> QED BY <2>1
<1>6. \E g : Is(g)
  <2> DEFINE Then == [i \in 1..n |-> [s \in Seq(X) |-> One(s, i)]]
             Y == Seq(X)
             empty == <<>>
  <2>1. n \in Nat /\ empty \in Y /\ Then \in [1..n -> [Y -> Y]]
    <3> HIDE DEF n, One, X
    <3> QED BY <1>1, <1>4, <1>5
  <2>2. \A i \in 1..n, s \in Y : Then[i][s] = One(s, i)
    <3> HIDE DEF n, One, X
    <3> QED OBVIOUS
  <2> HIDE DEF Then, n, Y, empty, One
  <2>3. PICK f \in [0..n -> Y] : f[0] = empty /\ \A i \in 1..n : f[i] = Then[i][f[i - 1]]
    BY <2>1, Recursion
  <2>4. \A i \in 1..n : f[i - 1] \in Y /\ i \in 0..n
    BY <2>1, <2>3
  <2>5. \A i \in 1..n : f[i] = One(f[i - 1], i)
    BY <2>2, <2>3, <2>4
  <2>6. \A i \in 0..n : f[i] = IF i = 0 THEN <<>> ELSE One(f[i - 1], i)
    BY <2>1, <2>3, <2>5 DEF empty
  <2>7. f = [i \in 0..n |-> f[i]]
    BY <2>3
  <2>8. Is(f)
    BY <2>6, <2>7
  <2> HIDE DEF Is
  <2> QED BY <2>8
<1>7. \E h : Are(h)
  <2> DEFINE Then == [i \in 1..n |-> [s \in Seq(W) |-> Two(s, i)]]
             Y == Seq(W)
             empty == <<>>
  <2>1. n \in Nat /\ empty \in Y /\ Then \in [1..n -> [Y -> Y]]
    <3> HIDE DEF n, Two, W
    <3> QED BY <1>1, <1>4, <1>5
  <2>2. \A i \in 1..n, s \in Y : Then[i][s] = Two(s, i)
    <3> HIDE DEF n, Two, W
    <3> QED OBVIOUS
  <2> HIDE DEF Then, n, Y, empty, Two
  <2>3. PICK f \in [0..n -> Y] : f[0] = empty /\ \A i \in 1..n : f[i] = Then[i][f[i - 1]]
    BY <2>1, Recursion
  <2>4. \A i \in 1..n : f[i - 1] \in Y /\ i \in 0..n
    BY <2>1, <2>3
  <2>5. \A i \in 1..n : f[i] = Two(f[i - 1], i)
    BY <2>2, <2>3, <2>4
  <2>6. \A i \in 0..n : f[i] = IF i = 0 THEN <<>> ELSE Two(f[i - 1], i)
    BY <2>1, <2>3, <2>5 DEF empty
  <2>7. f = [i \in 0..n |-> f[i]]
    BY <2>3
  <2>8. Are(f)
    BY <2>6, <2>7
  <2> HIDE DEF Are
  <2> QED BY <2>8
<1>8. PICK g : /\ Is(g)
               /\ ProcessBatch(methods, root) =
                    IF g[n] = <<>> THEN Null
                    ELSE Filled(New(arrayValue), [j \in 0..(Len(g[n]) - 1) |-> g[n][j + 1]])
  <2> DEFINE F == CHOOSE g : Is(g)
  <2>1. Is(F)
    BY <1>6
  <2>2. ProcessBatch(methods, root) =
          IF F[n] = <<>> THEN Null
          ELSE Filled(New(arrayValue), [j \in 0..(Len(F[n]) - 1) |-> F[n][j + 1]])
    BY DEF ProcessBatch
  <2> HIDE DEF F, Is, n
  <2> QED BY <2>1, <2>2
<1>9. PICK h : Are(h) /\ Wanted(parsed) = h[n]
  <2> DEFINE F == CHOOSE h : Are(h)
  <2>1. Are(F)
    BY <1>7
  <2>2. Wanted(parsed) = F[n]
    BY DEF Wanted
  <2> HIDE DEF F, Are, n
  <2> QED BY <2>1, <2>2
<1> HIDE DEF One, Two, X, W
<1>10. /\ g[0] = <<>> /\ \A i \in 1..n : g[i] = One(g[i - 1], i)
       /\ h[0] = <<>> /\ \A i \in 1..n : h[i] = Two(h[i - 1], i)
  <2> HIDE DEF n
  <2>1. 0 \in 0..n /\ \A i \in 1..n : i \in 0..n /\ i # 0
    BY <1>1
  <2>2. \A i \in 0..n : g[i] = IF i = 0 THEN <<>> ELSE One(g[i - 1], i)
    BY <1>8
  <2>3. \A i \in 0..n : h[i] = IF i = 0 THEN <<>> ELSE Two(h[i - 1], i)
    BY <1>9
  <2> QED BY <2>1, <2>2, <2>3
<1> DEFINE Good(j) == /\ g[j] \in Seq(X) /\ h[j] \in Seq(W) /\ Len(g[j]) = Len(h[j])
                      /\ \A i \in 1..Len(g[j]) : IsReply(g[j][i], <<h[j][i]>>)
           S == {j \in 0..n : Good(j)}
<1>11. Good(0)
  <2> DEFINE e == <<>>
  <2>1. Len(e) = 0 /\ 1..Len(e) = {}
    OBVIOUS
  <2> QED BY <1>4, <1>10, <2>1
<1>12. ASSUME NEW i \in 1..n, Good(i - 1) PROVE Good(i)
  BY <1>3, <1>10, <1>12
<1>13. Good(n)
  <2> HIDE DEF Good, n
  <2>1. 0 \in S /\ \A i \in 1..n : i - 1 \in S => i \in S
    BY <1>1, <1>11, <1>12
  <2>2. \A j \in 0..n : j \in S
    <3> HIDE DEF S
    <3> QED BY <1>1, <2>1, UpTo
  <2> QED BY <1>1, <2>2
<1> HIDE DEF n
<1> QED BY <1>8, <1>9, <1>13

\* An array of replies has their ids, in their order.
LEMMA ArrayIds ==
  ASSUME NEW X, NEW all \in Seq(X), all # <<>>, NEW wanted,
         \A i \in 1..Len(all) : IsReply(all[i], <<wanted[i]>>)
  PROVE  LET ids == IdsOf(Filled(New(arrayValue), [j \in 0..(Len(all) - 1) |-> all[j + 1]]))
         IN /\ Len(ids) = Len(all) /\ DOMAIN ids = 1..Len(all)
            /\ \A i \in 1..Len(all) : Equal(ids[i], wanted[i])
<1> DEFINE n == Len(all)
           elements == [j \in 0..(n - 1) |-> all[j + 1]]
           r == Filled(New(arrayValue), elements)
           ids == [i \in 1..n |-> Child(Child(r, i - 1), id)]
<1>1. n \in Nat \ {0}
  OBVIOUS
<1> HIDE DEF n
<1>2. DOMAIN elements = 0..(n - 1) /\ \A i \in 1..n : i - 1 \in 0..(n - 1) /\ elements[i - 1] = all[i]
  BY <1>1
<1>3. \A j \in 0..(n - 1) : Shape(elements[j])
  <2>1. \A j \in 0..(n - 1) : j + 1 \in 1..n /\ elements[j] = all[j + 1]
    BY <1>1
  <2> QED BY <2>1 DEF IsReply, n
<1>4. 0..(n - 1) \subseteq Int
  BY <1>1
<1> HIDE DEF elements
<1>5. /\ Shape(r) /\ type_(r) = arrayValue /\ Kids(r) = 0..(n - 1)
      /\ \A k \in 0..(n - 1) : Child(r, k) = elements[k]
  <2> DEFINE new == New(arrayValue)
  <2>1. Shape(new) /\ type_(new) = arrayValue
    BY ScalarIs DEF New
  <2> HIDE DEF new
  <2>2. /\ DOMAIN elements \subseteq Int
        /\ \A k \in DOMAIN elements : Shape(elements[k])
    BY <1>2, <1>3, <1>4
  <2>3. /\ Shape(Filled(new, elements)) /\ type_(Filled(new, elements)) = arrayValue
        /\ Kids(Filled(new, elements)) = DOMAIN elements
        /\ \A k \in DOMAIN elements : Child(Filled(new, elements), k) = elements[k]
    BY <2>1, <2>2, FilledIs
  <2> QED BY <1>2, <2>3 DEF new
<1> HIDE DEF r
<1>6. Size(r) = n
  <2> DEFINE top == CHOOSE x \in 0..(n - 1) : \A y \in 0..(n - 1) : x >= y
  <2>1. n - 1 \in 0..(n - 1) /\ \A y \in 0..(n - 1) : n - 1 >= y
    BY <1>1
  <2>2. top \in 0..(n - 1) /\ \A y \in 0..(n - 1) : top >= y
    BY <2>1
  <2> HIDE DEF top
  <2>3. top = n - 1
    BY <1>1, <2>1, <2>2
  <2>4. Max(Kids(r)) = n - 1
    BY <1>5, <2>3 DEF Max, top
  <2>5. Size(r) = Max(Kids(r)) + 1
    BY <1>5, <2>1 DEF Size
  <2> QED BY <1>1, <2>4, <2>5
<1>7. IdsOf(r) = ids
  BY <1>5, <1>6 DEF IdsOf, nullValue, arrayValue
<1>8. Len(ids) = n /\ DOMAIN ids = 1..n
  BY <1>1
<1>9. \A i \in 1..n : ids[i] = Child(all[i], id)
  BY <1>2, <1>5
<1>10. ASSUME NEW i \in 1..n PROVE Equal(ids[i], wanted[i])
  <2>1. Equal(Child(all[i], id), <<wanted[i]>>[1]) /\ <<wanted[i]>>[1] = wanted[i]
    BY DEF IsReply, n
  <2> QED BY <1>9, <2>1
<1> HIDE DEF ids
<1> QED BY <1>7, <1>8, <1>10 DEF r, elements, n

\* Every message that has no chatty notification in it is answered as wanted.
LEMMA MessageAnswered ==
  ASSUME NEW parsed, WellFormed(parsed.root), ToSet(methods) \subseteq Int,
         parsed.ok => Quiet(parsed.root)
  PROVE  LET ids == IdsOf(Process(methods, parsed))
             wanted == Wanted(parsed)
         IN Len(ids) = Len(wanted) /\ \A i \in DOMAIN ids : Equal(ids[i], wanted[i])
<1> DEFINE root == parsed.root
           r == Process(methods, parsed)
           ids == IdsOf(r)
           wanted == Wanted(parsed)
<1> SUFFICES Len(ids) = Len(wanted) /\ \A i \in DOMAIN ids : Equal(ids[i], wanted[i])
  OBVIOUS
<1>1. Shape(root) /\ Opens(root)
  BY WellFormedIs
<1>2. Fielded(root)
  BY DEF WellFormed, NodeOK, Fielded, Nodes
<1>3. ASSUME NEW x, IsReply(r, <<x>>), wanted = <<x>>
      PROVE  Len(ids) = Len(wanted) /\ \A i \in DOMAIN ids : Equal(ids[i], wanted[i])
  <2>1. ids = <<Child(r, id)>>
    BY <1>3 DEF IsReply, IdsOf, nullValue, arrayValue, objectValue
  <2>2. Equal(Child(r, id), x)
    <3>1. <<x>>[1] = x
      OBVIOUS
    <3> QED BY <1>3, <3>1 DEF IsReply
  <2> HIDE DEF r, ids, wanted
  <2>3. \A c : Len(<<c>>) = 1 /\ DOMAIN <<c>> = {1} /\ <<c>>[1] = c
    OBVIOUS
  <2> QED BY <1>3, <2>1, <2>2, <2>3
<1>4. ASSUME r = Null, Len(wanted) = 0
      PROVE  Len(ids) = Len(wanted) /\ \A i \in DOMAIN ids : Equal(ids[i], wanted[i])
  <2>1. ids = <<>>
    <3>1. IdsOf(Null) = <<>>
      BY NullIs DEF IdsOf, nullValue, arrayValue
    <3> QED BY <1>4, <3>1
  <2> HIDE DEF r, ids, wanted
  <2>2. Len(<<>>) = 0 /\ DOMAIN <<>> = {}
    OBVIOUS
  <2> QED BY <1>4, <2>1, <2>2
<1>5. CASE ~parsed.ok
  <2>1. r = ErrorResponse(Null, PARSING_ERROR) /\ wanted = <<Null>>
    BY <1>5 DEF Process, Wanted
  <2>2. IsReply(r, <<Null>>)
    BY <2>1, NullIs, ErrorIs
  <2> HIDE DEF r, ids, wanted
  <2> QED BY <1>3, <2>1, <2>2
<1>6. CASE parsed.ok /\ ~isArray(root)
  <2>1. r = ProcessValue(methods, root) /\ wanted = WantedOf(root)
    BY <1>6 DEF Process, Wanted
  <2>2. Fits(r, wanted) /\ wanted \in {<<>>, <<Null>>, <<Child(root, id)>>}
    <3>1. ~Chatty(root)
      BY <1>6 DEF Quiet, Parts
    <3> QED BY <1>1, <1>2, <2>1, <3>1, OneAnswered
  <2> HIDE DEF r, ids, wanted
  <2>3. CASE wanted = <<>>
    <3>1. r = Null /\ Len(wanted) = 0
      BY <2>2, <2>3 DEF Fits
    <3> QED BY <1>4, <3>1
  <2>4. CASE wanted # <<>>
    <3>1. PICK x : wanted = <<x>>
      BY <2>2, <2>4
    <3>2. IsReply(r, <<x>>)
      BY <2>2, <2>4, <3>1 DEF Fits
    <3> QED BY <1>3, <3>1, <3>2
  <2> QED BY <2>3, <2>4
<1>7. CASE parsed.ok /\ isArray(root)
  <2>1. r = ProcessBatch(methods, root)
    BY <1>7 DEF Process
  <2>2. PICK all :
          /\ r = IF all = <<>> THEN Null
                 ELSE Filled(New(arrayValue), [j \in 0..(Len(all) - 1) |-> all[j + 1]])
          /\ \E X : all \in Seq(X)
          /\ Len(all) = Len(wanted)
          /\ \A i \in 1..Len(all) : IsReply(all[i], <<wanted[i]>>)
    <3> HIDE DEF r, wanted
    <3> QED BY <1>2, <1>7, <2>1, BatchIs DEF wanted
  <2> HIDE DEF r, wanted
  <2>3. CASE all = <<>>
    <3>1. r = Null /\ Len(wanted) = 0
      BY <2>2, <2>3
    <3> QED BY <1>4, <3>1
  <2>4. CASE all # <<>>
    <3>1. r = Filled(New(arrayValue), [j \in 0..(Len(all) - 1) |-> all[j + 1]])
      BY <2>2, <2>4
    <3>2. /\ Len(ids) = Len(all) /\ DOMAIN ids = 1..Len(all)
          /\ \A i \in 1..Len(all) : Equal(ids[i], wanted[i])
      BY <2>2, <2>4, <3>1, ArrayIds
    <3> QED BY <2>2, <3>2
  <2> QED BY <2>3, <2>4
<1> QED BY <1>5, <1>6, <1>7

\* The names of methods are texts, whatever is added and deleted.
MethodsOK == methods \in Seq(Int)

\* What RemoveAt leaves.
LEMMA Removed ==
  ASSUME NEW X, NEW s \in Seq(X), NEW i \in 1..Len(s)
  PROVE  RemoveAt(s, i) \in Seq(X)
<1>1. SubSeq(s, 1, i - 1) \in Seq(X)
  OBVIOUS
<1>2. SubSeq(s, i + 1, Len(s)) \in Seq(X)
  BY BehindPrefix
<1> QED BY <1>1, <1>2, ConcatProperties DEF RemoveAt

LEMMA MethodsKept ==
  ASSUME MethodsOK, [Next]_vars PROVE MethodsOK'
<1>1. CASE ChangeMethods
  <2>1. CASE methods' = AddMethod(methods, Name)
    <3>1. Name \in Int
      BY MessagesAssumption
    <3> QED BY <2>1, <3>1, AppendProperties DEF MethodsOK, AddMethod
  <2>2. ASSUME NEW name \in {Name, SystemDescribeName}, methods' = DeleteMethod(methods, name)
        PROVE  MethodsOK'
    <3> DEFINE I == {j \in 1..Len(methods) : methods[j] = name}
               i == SelectInSeq(methods, LAMBDA m : m = name)
    <3>1. i = IF I # {} THEN Min(I) ELSE 0
      BY DEF SelectInSeq
    <3>2. methods' = methods \/ (i # 0 /\ methods' = RemoveAt(methods, i))
      BY <2>2 DEF DeleteMethod
    <3>3. I \in SUBSET Nat /\ I \subseteq 1..Len(methods)
      OBVIOUS
    <3> HIDE DEF I, i
    <3>4. i # 0 => i \in 1..Len(methods)
      BY <3>1, <3>3, HasLeast
    <3> QED BY <3>2, <3>4, Removed DEF MethodsOK
  <2> QED BY <1>1, <2>1, <2>2 DEF ChangeMethods
<1>2. CASE ~ChangeMethods
  <2>1. ASSUME NEW k \in Conns, Connect(k) \/ HangUp(k) \/ \E m \in Sends : Send(k, m)
        PROVE  UNCHANGED methods
    BY <2>1 DEF Connect, HangUp, Send, server
  <2>2. ASSUME NEW i \in DOMAIN datagrams, Lose(i) \/ Repeat(i) \/ RecvFrom(i)
        PROVE  UNCHANGED methods
    BY <2>2 DEF Lose, Repeat, RecvFrom, server
  <2>3. ASSUME Serving \/ Respond \/ Close \/ Killed \/ UNCHANGED vars PROVE UNCHANGED methods
    BY <2>3 DEF Serving, Select, Accept, Serve, Respond, BrokenPipe, Purge, Close, Killed, vars
  <2>4. UNCHANGED methods
    BY <1>2, <2>1, <2>2, <2>3 DEF Next
  <2> QED BY <2>4 DEF MethodsOK
<1> QED BY <1>1, <1>2

\* A request is answered with its id, what is no request with null, a
\* notification not at all and a batch with what its elements are answered
\* with, in their order, and what is null or a batch of nothing not at all: for
\* every message, however large, and whatever methods were added and deleted
\* before it came, unless a notification in it names no method of Handler's or
\* system.describe.
THEOREM AnswersCorrect == Spec => []AnswersByTheBook
<1>1. Init => MethodsOK
  BY DEF Init, MethodsOK, Handler, SystemDescribeName
<1>2. MethodsOK /\ [Next]_vars => MethodsOK'
  BY MethodsKept
<1>3. ASSUME MethodsOK PROVE AnswersByTheBook
  <2>1. ToSet(methods) \subseteq Int
    BY <1>3 DEF MethodsOK, ToSet
  <2>2. ASSUME NEW m \in Messages,
               Reads(TextOf(m)).ok => Quiet(Reads(TextOf(m)).root)
        PROVE  LET ids == IdsOf(Answer(TextOf(m)))
                   wanted == Wanted(Reads(TextOf(m)))
               IN Len(ids) = Len(wanted) /\ \A i \in DOMAIN ids : Equal(ids[i], wanted[i])
    <3>1. WellFormed(Reads(TextOf(m)).root)
      BY MessagesAssumption
    <3> QED BY <2>1, <2>2, <3>1, MessageAnswered DEF Answer
  <2> QED BY <2>2 DEF AnswersByTheBook
<1>4. MethodsOK => AnswersByTheBook
  BY <1>3
<1> QED BY <1>1, <1>2, <1>4, PTL DEF Spec

-----------------------------------------------------------------------------
(***************************************************************************)
(* What UdpServer hands to Handler.                                        *)
(***************************************************************************)

\* The datagrams that may be under way, and the texts a message sent by k
\* may be handed on as.
Posted ==
  UNION {{[from |-> k, text |-> Encoded(format, TextOf(sent[k][j]))] : j \in DOMAIN sent[k]} : k \in Conns}
Meant(k) == {text \in Seq(Chars) : \E j \in DOMAIN sent[k] : Means(text, sent[k][j])}

\* Only what was sent is under way or was handled, however it is lost, repeated
\* and delayed, and UdpServer never gets to where TcpServer serves.
DatagramInv ==
  /\ sent \in [Conns -> Seq(Sends)] /\ DOMAIN handled = Conns
  /\ protocol = "UDP" =>
       /\ pc = "idle"
       /\ datagrams \in Seq(Posted)
       /\ \A k \in Conns : handled[k] \in Seq(Meant(k))

\* What is handed on of a message or of its beginning, if it looks like a call,
\* is read as the message.
LEMMA WholeOrNothing ==
  ASSUME NEW m \in Sends, NEW n \in 0..Len(Encoded(format, TextOf(m)))
  PROVE  LET texts == Calls(Given(SubSeq(Encoded(format, TextOf(m)), 1, n)))
         IN texts = <<>> \/ \E text \in Seq(Chars) : texts = <<text>> /\ Means(text, m)
<1> DEFINE str == TextOf(m)
           e == Encoded(format, str)
           part == SubSeq(e, 1, n)
           got == Decoded(format, part)
<1>1. /\ str \in Seq(Chars) /\ m \in Messages /\ Len(encode(str)) < ULongRange
      /\ \A i \in 0..Len(str) :
           IsCall(Reads(SubSeq(str, 1, i))) => Equal(Reads(SubSeq(str, 1, i)).root, Reads(str).root)
  <2>1. m \in Messages /\ str \in Seq(STRING)
    BY SocketsAssumption, MessagesAssumption
  <2>2. Seq(STRING) \subseteq Seq(Chars)
    BY DEF Chars
  <2> QED BY <2>1, <2>2, MessagesAssumption
<1>2. CASE got.thrown
  <2>1. Given(part) = <<>>
    BY <1>2 DEF Given
  <2> QED BY <2>1 DEF Calls
<1>3. ASSUME ~got.thrown, got.text \in Seq(Chars), IsCall(Reads(got.text)) => Means(got.text, m)
      PROVE  LET texts == Calls(Given(part))
             IN texts = <<>> \/ \E text \in Seq(Chars) : texts = <<text>> /\ Means(text, m)
  <2>1. Given(part) = <<got.text>>
    BY <1>3 DEF Given
  <2> DEFINE t == got.text
  <2>2. <<t>>[1] = t /\ <<t>> # <<>>
    OBVIOUS
  <2> HIDE DEF t
  <2>3. Calls(<<t>>) = IF IsCall(Reads(t)) THEN <<t>> ELSE <<>>
    BY <2>2 DEF Calls
  <2> QED BY <1>3, <2>1, <2>3 DEF t
<1>4. CASE format = "NETSTRING"
  <2>1. e = encode(str) /\ got = decode(part)
    BY <1>4 DEF Encoded, Decoded
  <2>2. CASE n = Len(e)
    <3>1. part = e
      <4>1. e \in Seq(Chars)
        BY <1>1, <2>1, Encoding
      <4> HIDE DEF e
      <4>2. SubSeq(e, 1, Len(e)) = e
        BY <4>1
      <4> QED BY <2>2, <4>2
    <3>2. got = Text(str)
      BY <1>1, <2>1, <3>1, Framing
    <3>3. ~got.thrown /\ got.text = str
      BY <3>2 DEF Text
    <3> QED BY <1>1, <1>3, <3>3 DEF Means, Equal
  <2>3. CASE n # Len(e)
    <3>1. got = Thrown
      <4>1. CASE n = 0
        <5>1. part = <<>>
          BY <1>1, <2>1, <4>1, Encoding
        <5>2. SelectInSeq(<<>>, LAMBDA c : c = ":") = 0
          BY DEF SelectInSeq
        <5> QED BY <2>1, <5>1, <5>2 DEF decode
      <4>2. CASE n # 0
        <5>1. n \in 1..(Len(encode(str)) - 1)
          BY <1>1, <2>1, <2>3, <4>2, Encoding
        <5> QED BY <1>1, <2>1, <5>1, Framing
      <4> QED BY <4>1, <4>2
    <3>2. got.thrown
      BY <3>1 DEF Thrown
    <3> QED BY <1>2, <3>2
  <2> QED BY <2>2, <2>3
<1>5. CASE format # "NETSTRING"
  <2>1. e = str /\ got = Text(part)
    BY <1>5 DEF Encoded, Decoded
  <2>2. ~got.thrown /\ got.text = part
    BY <2>1 DEF Text
  <2>3. part \in Seq(Chars)
    BY <1>1, <2>1
  <2>4. IsCall(Reads(part)) => Equal(Reads(part).root, Reads(str).root)
    BY <1>1, <2>1
  <2> QED BY <1>3, <2>2, <2>3, <2>4 DEF Means
<1> QED BY <1>4, <1>5

\* A message more is sent.
LEMMA SentMore ==
  ASSUME NEW k \in Conns, NEW m \in Sends, sent \in [Conns -> Seq(Sends)],
         sent' = [sent EXCEPT ![k] = Append(@, m)], format' = format
  PROVE  /\ sent' \in [Conns -> Seq(Sends)]
         /\ Posted \subseteq Posted' /\ [from |-> k, text |-> Encoded(format, TextOf(m))] \in Posted'
         /\ \A l \in Conns : Meant(l) \subseteq Meant(l)'
<1> DEFINE more == Append(sent[k], m)
<1>1. /\ more \in Seq(Sends) /\ DOMAIN more = 1..(Len(sent[k]) + 1)
      /\ DOMAIN sent[k] = 1..Len(sent[k]) /\ Len(sent[k]) \in Nat
      /\ more[Len(sent[k]) + 1] = m /\ \A j \in 1..Len(sent[k]) : more[j] = sent[k][j]
  BY AppendProperties
<1>2. sent'[k] = more /\ \A l \in Conns \ {k} : sent'[l] = sent[l]
  OBVIOUS
<1>3. sent' \in [Conns -> Seq(Sends)]
  BY <1>1
<1> HIDE DEF more
<1>4. \A l \in Conns : \A j \in DOMAIN sent[l] : j \in DOMAIN sent'[l] /\ sent'[l][j] = sent[l][j]
  BY <1>1, <1>2
<1>5. \E j \in DOMAIN sent'[k] : sent'[k][j] = m
  <2>1. Len(sent[k]) + 1 \in DOMAIN sent'[k]
    BY <1>1, <1>2
  <2> QED BY <1>1, <1>2, <2>1
<1>6. Posted \subseteq Posted' /\ [from |-> k, text |-> Encoded(format, TextOf(m))] \in Posted'
  <2>1. ASSUME NEW l \in Conns, NEW j \in DOMAIN sent'[l]
        PROVE  [from |-> l, text |-> Encoded(format, TextOf(sent'[l][j]))] \in Posted'
    BY DEF Posted
  <2>2. ASSUME NEW d \in Posted PROVE d \in Posted'
    <3>1. PICK l \in Conns : \E j \in DOMAIN sent[l] : d = [from |-> l, text |-> Encoded(format, TextOf(sent[l][j]))]
      BY DEF Posted
    <3>2. PICK j \in DOMAIN sent[l] : d = [from |-> l, text |-> Encoded(format, TextOf(sent[l][j]))]
      BY <3>1
    <3>3. j \in DOMAIN sent'[l] /\ sent'[l][j] = sent[l][j]
      BY <1>4
    <3> QED BY <2>1, <3>2, <3>3
  <2>3. [from |-> k, text |-> Encoded(format, TextOf(m))] \in Posted'
    BY <1>5, <2>1
  <2> QED BY <2>2, <2>3
<1>7. \A l \in Conns : Meant(l) \subseteq Meant(l)'
  BY <1>4 DEF Meant
<1> QED BY <1>3, <1>6, <1>7

\* A datagram is taken off the network and handed to Handler, or not.
LEMMA RecvFromStep ==
  ASSUME DatagramInv, NEW i \in DOMAIN datagrams, RecvFrom(i)
  PROVE  DatagramInv'
<1> DEFINE d == datagrams[i]
           n == IF Len(d.text) < BufSize THEN Len(d.text) ELSE BufSize
           texts == Calls(Given(SubSeq(d.text, 1, n)))
<1>1. /\ datagrams' = RemoveAt(datagrams, i)
      /\ handled' = [handled EXCEPT ![d.from] = @ \o texts]
      /\ UNCHANGED <<protocol, format, pc, sent>>
  BY DEF RecvFrom
<1>2. DOMAIN handled' = Conns /\ sent' \in [Conns -> Seq(Sends)]
  BY <1>1 DEF DatagramInv
<1>3. ASSUME protocol = "UDP"
      PROVE  /\ pc' = "idle" /\ datagrams' \in Seq(Posted)
             /\ \A k \in Conns : handled'[k] \in Seq(Meant(k))
  <2>1. /\ pc = "idle" /\ datagrams \in Seq(Posted)
        /\ \A k \in Conns : handled[k] \in Seq(Meant(k))
        /\ sent \in [Conns -> Seq(Sends)] /\ DOMAIN handled = Conns
    BY <1>3 DEF DatagramInv
  <2>2. datagrams' \in Seq(Posted)
    BY <1>1, <2>1, Removed
  <2>0. PICK k \in Conns : \E j \in DOMAIN sent[k] : d = [from |-> k, text |-> Encoded(format, TextOf(sent[k][j]))]
    <3>1. d \in Posted
      BY <2>1
    <3> QED BY <3>1 DEF Posted
  <2>3. PICK j \in DOMAIN sent[k] : d = [from |-> k, text |-> Encoded(format, TextOf(sent[k][j]))]
    BY <2>0
  <2> DEFINE m == sent[k][j]
             e == Encoded(format, TextOf(m))
  <2>4. m \in Sends /\ d.from = k /\ d.text = e
    BY <2>1, <2>3
  <2>5. n \in 0..Len(e)
    <3>1. Len(e) \in Nat
      <4>1. TextOf(m) \in Seq(Chars)
        <5>1. TextOf(m) \in Seq(STRING) /\ Seq(STRING) \subseteq Seq(Chars)
          BY <2>4, SocketsAssumption DEF Chars
        <5> QED BY <5>1
      <4>2. e \in Seq(Chars)
        BY <4>1, Encoding DEF Encoded
      <4> HIDE DEF e
      <4> QED BY <4>2
    <3> HIDE DEF e, d, m
    <3> QED BY <2>4, <3>1, SocketsAssumption
  <2>6. texts = <<>> \/ \E text \in Seq(Chars) : texts = <<text>> /\ Means(text, m)
    <3>1. texts = Calls(Given(SubSeq(e, 1, n)))
      BY <2>4
    <3> HIDE DEF n, d, texts, m
    <3> QED BY <2>4, <2>5, <3>1, WholeOrNothing
  <2>7. texts \in Seq(Meant(k))
    <3> HIDE DEF texts
    <3>1. CASE texts = <<>>
      BY <3>1
    <3>2. ASSUME NEW text \in Seq(Chars), texts = <<text>>, Means(text, m) PROVE texts \in Seq(Meant(k))
      <4>1. text \in Meant(k)
        BY <3>2 DEF Meant
      <4>2. <<text>> \in Seq(Meant(k))
        BY <4>1
      <4> QED BY <3>2, <4>2
    <3> QED BY <2>6, <3>1, <3>2
  <2>8. \A l \in Conns : handled'[l] \in Seq(Meant(l))
    <3> HIDE DEF texts, d
    <3>1. handled[k] \o texts \in Seq(Meant(k))
      BY <2>1, <2>7, ConcatProperties
    <3>2. handled' = [handled EXCEPT ![k] = handled[k] \o texts]
      BY <1>1, <2>4
    <3>3. handled'[k] = handled[k] \o texts /\ \A l \in Conns \ {k} : handled'[l] = handled[l]
      BY <2>1, <3>2
    <3> QED BY <2>1, <3>1, <3>3
  <2> QED BY <1>1, <2>1, <2>2, <2>8
<1>4. Posted' = Posted /\ \A k : Meant(k)' = Meant(k)
  BY <1>1 DEF Posted, Meant
<1> QED BY <1>1, <1>2, <1>3, <1>4 DEF DatagramInv

LEMMA DatagramStep ==
  ASSUME DatagramInv, [Next]_vars PROVE DatagramInv'
<1>1. ASSUME UNCHANGED <<protocol, format, sent, datagrams>>, DOMAIN handled' = Conns,
             protocol = "UDP" => UNCHANGED <<pc, handled>>
      PROVE  DatagramInv'
  <2>1. Posted' = Posted /\ \A k : Meant(k)' = Meant(k)
    BY <1>1 DEF Posted, Meant
  <2> QED BY <1>1, <2>1 DEF DatagramInv
<1>2. ASSUME NEW k \in Conns, Connect(k) \/ HangUp(k) PROVE DatagramInv'
  BY <1>1, <1>2 DEF Connect, HangUp, server, DatagramInv
<1>3. ASSUME NEW k \in Conns, NEW m \in Sends, Send(k, m) PROVE DatagramInv'
  <2>1. /\ sent' = [sent EXCEPT ![k] = Append(@, m)]
        /\ UNCHANGED <<protocol, format, pc, handled>>
        /\ protocol = "UDP" =>
             datagrams' = Append(datagrams, [from |-> k, text |-> Encoded(format, TextOf(m))])
    BY <1>3 DEF Send, server
  <2>2. /\ sent' \in [Conns -> Seq(Sends)]
        /\ Posted \subseteq Posted' /\ [from |-> k, text |-> Encoded(format, TextOf(m))] \in Posted'
        /\ \A l \in Conns : Meant(l) \subseteq Meant(l)'
    BY <2>1, SentMore DEF DatagramInv
  <2>3. ASSUME protocol = "UDP"
        PROVE  /\ pc = "idle" /\ datagrams' \in Seq(Posted')
               /\ \A l \in Conns : handled[l] \in Seq(Meant(l)')
    <3>1. /\ pc = "idle" /\ datagrams \in Seq(Posted)
          /\ \A l \in Conns : handled[l] \in Seq(Meant(l))
      BY <2>3 DEF DatagramInv
    <3>2. datagrams \in Seq(Posted') /\ \A l \in Conns : handled[l] \in Seq(Meant(l)')
      BY <2>2, <3>1
    <3>3. datagrams' \in Seq(Posted')
      <4> DEFINE P == Posted'
                 d == [from |-> k, text |-> Encoded(format, TextOf(m))]
      <4>1. d \in P /\ datagrams \in Seq(P) /\ datagrams' = Append(datagrams, d)
        BY <2>1, <2>2, <2>3, <3>2
      <4> HIDE DEF P, d
      <4>2. datagrams' \in Seq(P)
        BY <4>1, AppendProperties
      <4> QED BY <4>2 DEF P
    <3> QED BY <3>1, <3>2, <3>3
  <2> QED BY <2>1, <2>2, <2>3 DEF DatagramInv
<1>4. ASSUME NEW i \in DOMAIN datagrams, Lose(i) \/ Repeat(i) PROVE DatagramInv'
  <2>1. /\ UNCHANGED <<protocol, format, pc, sent, handled>>
        /\ datagrams' = RemoveAt(datagrams, i) \/ datagrams' = Append(datagrams, datagrams[i])
    BY <1>4 DEF Lose, Repeat, server
  <2>2. ASSUME protocol = "UDP" PROVE datagrams' \in Seq(Posted)
    <3>1. datagrams \in Seq(Posted) /\ i \in 1..Len(datagrams) /\ datagrams[i] \in Posted
      BY <2>2 DEF DatagramInv
    <3>2. CASE datagrams' = RemoveAt(datagrams, i)
      BY <3>1, <3>2, Removed
    <3>3. CASE datagrams' = Append(datagrams, datagrams[i])
      <4> DEFINE P == Posted
                 d == datagrams[i]
      <4> HIDE DEF P, d
      <4>1. d \in P /\ datagrams \in Seq(P) /\ datagrams' = Append(datagrams, d)
        BY <3>1, <3>3 DEF P, d
      <4>2. datagrams' \in Seq(P)
        BY <4>1, AppendProperties
      <4> QED BY <4>2 DEF P
    <3> QED BY <2>1, <3>2, <3>3
  <2>3. Posted' = Posted /\ \A k : Meant(k)' = Meant(k)
    BY <2>1 DEF Posted, Meant
  <2> QED BY <2>1, <2>2, <2>3 DEF DatagramInv
<1>5. ASSUME NEW i \in DOMAIN datagrams, RecvFrom(i) PROVE DatagramInv'
  BY <1>5, RecvFromStep
<1>6. CASE Select \/ Accept \/ Respond \/ BrokenPipe \/ Purge
  <2>1. protocol # "UDP"
    BY <1>6 DEF Select, Accept, Respond, BrokenPipe, Purge, DatagramInv
  <2> QED BY <1>1, <1>6, <2>1 DEF Select, Accept, Respond, BrokenPipe, Purge, clients, DatagramInv
<1>7. CASE Serve
  <2>1. protocol # "UDP"
    BY <1>7 DEF Serve, DatagramInv
  <2>2. DOMAIN handled' = DOMAIN handled
    <3>1. Recv(NextReady)
      BY <1>7 DEF Serve
    <3> QED BY <3>1 DEF Recv
  <2> QED BY <1>1, <1>7, <2>1, <2>2 DEF Serve, DatagramInv
<1>8. CASE Close \/ ChangeMethods \/ Killed \/ UNCHANGED vars
  BY <1>1, <1>8 DEF Close, ChangeMethods, Killed, clients, vars, DatagramInv
<1> QED BY <1>2, <1>3, <1>4, <1>5, <1>6, <1>7, <1>8 DEF Next, Serving

\* UdpServer hands on no more than what was sent, however many datagrams are
\* lost, repeated, late or too long for its buffer, and Handler answers it by
\* the book: in either format, for any messages and any number of clients.
THEOREM DatagramsCorrect == Spec => [](protocol = "UDP" => Answered)
<1>1. Init => DatagramInv
  <2> SUFFICES ASSUME Init PROVE DatagramInv
    OBVIOUS
  <2>1. /\ pc = "idle" /\ datagrams = <<>>
        /\ sent = [k \in Conns |-> <<>>] /\ handled = [k \in Conns |-> <<>>]
    BY DEF Init
  <2> QED BY <2>1 DEF DatagramInv
<1>2. DatagramInv /\ [Next]_vars => DatagramInv'
  BY DatagramStep
<1>3. ASSUME DatagramInv, AnswersByTheBook PROVE protocol = "UDP" => Answered
  <2> SUFFICES ASSUME protocol = "UDP" PROVE OnlyWholeCalls
    BY <1>3 DEF Answered
  <2>1. \A k \in Conns : handled[k] \in Seq(Meant(k))
    BY <1>3 DEF DatagramInv
  <2>2. ASSUME NEW k \in Conns, NEW i \in DOMAIN handled[k]
        PROVE  \E j \in DOMAIN sent[k] : Means(handled[k][i], sent[k][j])
    <3>1. handled[k][i] \in Meant(k)
      BY <2>1
    <3> QED BY <3>1 DEF Meant
  <2>3. protocol # "TCP"
    OBVIOUS
  <2> QED BY <2>2, <2>3 DEF OnlyWholeCalls
<1>4. DatagramInv /\ AnswersByTheBook => (protocol = "UDP" => Answered)
  BY <1>3
<1> QED BY <1>1, <1>2, <1>4, AnswersCorrect, PTL DEF Spec

===============================================================================
