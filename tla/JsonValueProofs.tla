---------------------------- MODULE JsonValueProofs ----------------------------
(***************************************************************************)
(* A program that edits a Json::Value: the value stays well formed, its    *)
(* conversions are honest, a walk with an iterator meets every child, and  *)
(* the port list of a value is sorted.                                     *)
(***************************************************************************)
EXTENDS JsonValue, FiniteSetTheorems, SequenceTheorems, TLAPS

-----------------------------------------------------------------------------
(***************************************************************************)
(* Finite sets of integers.                                                *)
(***************************************************************************)

\* Some element of a finite set of integers has i - 1 below it.
LEMMA Ranks ==
  ASSUME NEW S \in SUBSET Int, IsFiniteSet(S), NEW i \in 1..Cardinality(S)
  PROVE  \E k \in S : Cardinality({j \in S : j < k}) = i - 1
<1> DEFINE Below(k) == {j \in S : j < k}
           f == [k \in S |-> Cardinality(Below(k))]
           T == 0..(Cardinality(S) - 1)
<1>1. Cardinality(S) \in Nat
  BY FS_CardinalityType
<1>2. \A k : IsFiniteSet(Below(k)) /\ Cardinality(Below(k)) \in Nat
  BY FS_Subset, FS_CardinalityType
<1>3. ASSUME NEW k \in S PROVE f[k] \in T
  <2>1. IsFiniteSet(S \ {k}) /\ Cardinality(S \ {k}) = Cardinality(S) - 1
    BY FS_RemoveElement
  <2>2. Below(k) \in SUBSET (S \ {k})
    OBVIOUS
  <2> HIDE DEF Below
  <2>3. Cardinality(Below(k)) <= Cardinality(S) - 1
    BY <2>1, <2>2, FS_Subset
  <2> QED BY <1>1, <1>2, <2>3
<1>4. ASSUME NEW k \in S, NEW l \in S, k < l PROVE f[k] < f[l]
  <2>1. Cardinality(Below(k) \cup {k}) = Cardinality(Below(k)) + 1
    <3>1. k \notin Below(k)
      OBVIOUS
    <3> HIDE DEF Below
    <3> QED BY <1>2, <3>1, FS_AddElement
  <2>2. Below(k) \cup {k} \in SUBSET Below(l)
    <3>1. \A j \in Below(k) \cup {k} : j \in S /\ j < l
      BY <1>4
    <3> QED BY <3>1
  <2> HIDE DEF Below
  <2>3. Cardinality(Below(k) \cup {k}) <= Cardinality(Below(l))
    BY <1>2, <2>2, FS_Subset
  <2> QED BY <1>2, <2>1, <2>3
<1> HIDE DEF f
<1>5. f \in Injection(S, T)
  <2>1. f \in [S -> T]
    BY <1>3 DEF f
  <2>2. ASSUME NEW k \in S, NEW l \in S, f[k] = f[l] PROVE k = l
    <3>1. ~(k < l) /\ ~(l < k)
      BY <1>1, <1>3, <1>4, <2>2
    <3> QED BY <3>1
  <2> QED BY <2>1, <2>2 DEF Injection, IsInjective
<1>6. IsFiniteSet(T) /\ Cardinality(T) = Cardinality(S)
  <2> DEFINE a == 0
             b == Cardinality(S) - 1
  <2>1. a \in Int /\ b \in Int
    BY <1>1
  <2> HIDE DEF a, b
  <2>2. IsFiniteSet(a..b) /\ Cardinality(a..b) = IF a > b THEN 0 ELSE b - a + 1
    BY <2>1, FS_Interval
  <2> QED BY <1>1, <2>2 DEF a, b
<1>7. f \in Surjection(S, T)
  BY <1>5, <1>6, FS_Injection
<1>8. i - 1 \in T
  BY <1>1
<1>9. PICK k \in S : f[k] = i - 1
  BY <1>7, <1>8 DEF Surjection
<1> QED BY <1>9 DEF f

\* A finite set of integers has a least and a greatest element.
LEMMA Ends ==
  ASSUME NEW S \in SUBSET Int, IsFiniteSet(S), S # {}
  PROVE  /\ \E k \in S : \A j \in S : k <= j
         /\ Max(S) \in S /\ \A j \in S : j <= Max(S)
<1> DEFINE n == Cardinality(S)
           Below(k) == {j \in S : j < k}
<1>1. n \in Nat \ {0}
  BY FS_CardinalityType, FS_EmptySet
<1>2. PICK k \in S : Cardinality(Below(k)) = 0
  <2>1. 1 \in 1..n /\ 1 - 1 = 0
    BY <1>1
  <2> QED BY <2>1, Ranks
<1>3. IsFiniteSet(Below(k)) /\ Below(k) = {}
  BY <1>2, FS_Subset, FS_EmptySet
<1>4. PICK l \in S : Cardinality(Below(l)) = n - 1
  <2>1. n \in 1..n
    BY <1>1
  <2> HIDE DEF n
  <2> QED BY <2>1, Ranks DEF n
<1>5. Below(l) = S \ {l}
  <2>1. IsFiniteSet(S \ {l}) /\ Cardinality(S \ {l}) = n - 1
    BY FS_RemoveElement
  <2>2. Below(l) \in SUBSET (S \ {l})
    OBVIOUS
  <2> HIDE DEF Below, n
  <2> QED BY <1>4, <2>1, <2>2, FS_Subset
<1>6. \A j \in S : l >= j
  BY <1>5
<1>7. Max(S) \in S /\ \A j \in S : Max(S) >= j
  BY <1>6 DEF Max
<1> QED BY <1>3, <1>7

\* Induction up to n.
LEMMA UpTo ==
  ASSUME NEW n \in Nat, NEW S, 0 \in S, \A i \in 1..n : i - 1 \in S => i \in S
  PROVE  \A i \in 0..n : i \in S
<1> DEFINE Missing == {i \in 0..n : i \notin S}
<1>1. ASSUME NEW k \in Missing, \A j \in Missing : k <= j PROVE FALSE
  <2>1. k # 0
    OBVIOUS
  <2>2. k - 1 \in 0..n /\ k - 1 \notin Missing
    BY <1>1, <2>1
  <2> QED BY <2>1, <2>2
<1>2. Missing \in SUBSET Int /\ IsFiniteSet(Missing)
  <2>1. IsFiniteSet(0..n)
    BY FS_Interval, 0 \in Int, n \in Int
  <2> QED BY <2>1, FS_Subset
<1> HIDE DEF Missing
<1>3. Missing = {}
  BY <1>1, <1>2, Ends
<1> QED BY <1>3 DEF Missing

\* What starts in X and steps within X is a function on 0..n.
LEMMA Recursion ==
  ASSUME NEW X, NEW x0 \in X, NEW n \in Nat, NEW To \in [1..n -> [X -> X]]
  PROVE  \E f \in [0..n -> X] : f[0] = x0 /\ \A i \in 1..n : f[i] = To[i][f[i - 1]]
<1> DEFINE Steps(k, f) == f[0] = x0 /\ \A i \in 1..k : f[i] = To[i][f[i - 1]]
           Defined(k) == \E f \in [0..k -> X] : Steps(k, f)
           S == {k \in 0..n : Defined(k)}
<1>1. Defined(0)
  <2> DEFINE f == [i \in 0..0 |-> x0]
  <2>1. Steps(0, f) /\ f \in [0..0 -> X]
    OBVIOUS
  <2> HIDE DEF Steps, f
  <2> QED BY <2>1
<1>2. ASSUME NEW k \in 1..n, Defined(k - 1) PROVE Defined(k)
  <2>1. PICK f \in [0..(k - 1) -> X] : Steps(k - 1, f)
    <3> HIDE DEF Steps
    <3> QED BY <1>2
  <2> DEFINE g == [i \in 0..k |-> IF i = k THEN To[k][f[k - 1]] ELSE f[i]]
  <2>2. k - 1 \in 0..(k - 1) /\ To[k][f[k - 1]] \in X
    BY <2>1
  <2>3. g \in [0..k -> X]
    BY <2>1, <2>2
  <2>4. Steps(k, g)
    <3>1. g[0] = x0
      BY <2>1
    <3>2. ASSUME NEW i \in 1..k PROVE g[i] = To[i][g[i - 1]]
      <4>1. i - 1 \in 0..(k - 1) /\ i \in 0..k /\ i - 1 \in 0..k /\ i - 1 # k
        OBVIOUS
      <4>2. g[i - 1] = f[i - 1]
        BY <4>1
      <4>3. i # k => i \in 1..(k - 1)
        OBVIOUS
      <4> QED BY <2>1, <4>1, <4>2, <4>3
    <3> QED BY <3>1, <3>2
  <2> HIDE DEF Steps, g
  <2> QED BY <2>3, <2>4
<1> HIDE DEF Defined
<1>3. 0 \in S /\ \A k \in 1..n : k - 1 \in S => k \in S
  BY <1>1, <1>2
<1>4. \A k \in 0..n : k \in S
  <2> HIDE DEF S
  <2> QED BY <1>3, UpTo
<1>5. Defined(n)
  BY <1>4
<1> QED BY <1>5 DEF Defined

-----------------------------------------------------------------------------
(***************************************************************************)
(* Paths.  The proofs see them through these names only.                   *)
(***************************************************************************)

Tracks == Seq(Int)
Here == <<>>
Step(k) == <<k>>
Then(p, q) == p \o q
Under(p, q) == IsPrefix(p, q)

\* Paths are joined as strings are.
LEMMA Joining ==
  /\ Here \in Tracks
  /\ \A k \in Int : Step(k) \in Tracks /\ Step(k) # Here
  /\ \A p, q \in Tracks : Then(p, q) \in Tracks
  /\ \A p \in Tracks : Then(p, Here) = p /\ Then(Here, p) = p
  /\ \A p, q, r \in Tracks : Then(Then(p, q), r) = Then(p, Then(q, r))
  /\ \A p, q, r \in Tracks : Then(p, q) = Then(p, r) => q = r
  /\ \A p, q \in Tracks : Then(p, q) = Here => p = Here /\ q = Here
<1>1. Here \in Tracks /\ \A k \in Int : Step(k) \in Tracks /\ Step(k) # Here
  BY DEF Here, Tracks, Step
<1>2. \A p, q \in Tracks : Then(p, q) \in Tracks
  BY ConcatProperties DEF Tracks, Then
<1>3. \A p \in Tracks : Then(p, Here) = p /\ Then(Here, p) = p
  BY ConcatEmptySeq DEF Tracks, Then, Here
<1>4. \A p, q, r \in Tracks : Then(Then(p, q), r) = Then(p, Then(q, r))
  BY ConcatAssociative, SMTT(30) DEF Tracks, Then
<1>5. \A p, q, r \in Tracks : Then(p, q) = Then(p, r) => q = r
  BY ConcatSimplifications DEF Tracks, Then
<1>6. \A p, q \in Tracks : Then(p, q) = Here => p = Here /\ q = Here
  BY ConcatSimplifications DEF Tracks, Then, Here
<1> QED BY <1>1, <1>2, <1>3, <1>4, <1>5, <1>6

\* Every path but the empty one ends in one key.
LEMMA LastKey ==
  /\ \A p \in Tracks : p # Here =>
       Front(p) \in Tracks /\ Last(p) \in Int /\ p = Then(Front(p), Step(Last(p)))
  /\ \A p \in Tracks, k \in Int :
       Then(p, Step(k)) # Here /\ Front(Then(p, Step(k))) = p /\ Last(Then(p, Step(k))) = k
<1>1. ASSUME NEW p \in Tracks, NEW k \in Int
      PROVE  Then(p, Step(k)) # Here /\ Front(Then(p, Step(k))) = p /\ Last(Then(p, Step(k))) = k
  <2> DEFINE q == Append(p, k)
  <2>1. Then(p, Step(k)) = q
    BY <1>1, AppendIsConcat DEF Tracks, Then, Step
  <2>2. /\ q \in Seq(Int) /\ q # <<>> /\ Len(q) = Len(p) + 1 /\ Len(p) \in Nat
        /\ \A i \in 1..Len(p) : q[i] = p[i]
        /\ q[Len(p) + 1] = k
    BY <1>1, AppendProperties DEF Tracks
  <2> HIDE DEF q
  <2>3. SubSeq(q, 1, Len(p)) = p
    <3>1. /\ SubSeq(q, 1, Len(p)) \in Seq(Int) /\ Len(SubSeq(q, 1, Len(p))) = Len(p)
          /\ \A i \in 1..Len(p) : SubSeq(q, 1, Len(p))[i] = q[i]
      BY <2>2
    <3> QED BY <1>1, <2>2, <3>1, SeqEqual DEF Tracks
  <2>4. Len(q) - 1 = Len(p)
    BY <2>2
  <2> QED BY <2>1, <2>2, <2>3, <2>4 DEF Front, Last, Here
<1>2. ASSUME NEW p \in Tracks, p # Here
      PROVE  Front(p) \in Tracks /\ Last(p) \in Int /\ p = Then(Front(p), Step(Last(p)))
  <2>1. PICK s \in Seq(Int), e \in Int : p = Append(s, e)
    BY <1>2, SequenceEmptyOrAppend DEF Tracks, Here
  <2>2. p = Then(s, Step(e)) /\ s \in Tracks
    BY <2>1, AppendIsConcat DEF Tracks, Then, Step
  <2> QED BY <1>1, <2>1, <2>2
<1> QED BY <1>1, <1>2

\* A path has as many keys as it takes steps.
LEMMA Lengths ==
  /\ \A p \in Tracks : Len(p) \in Nat /\ (Len(p) = 0 <=> p = Here)
  /\ \A p \in Tracks, k \in Int : Len(Then(p, Step(k))) = Len(p) + 1
<1>1. \A p \in Tracks : Len(p) \in Nat /\ (Len(p) = 0 <=> p = Here)
  BY EmptySeq, LenProperties DEF Tracks, Here
<1>2. ASSUME NEW p \in Tracks, NEW k \in Int PROVE Len(Then(p, Step(k))) = Len(p) + 1
  <2>1. Then(p, Step(k)) = Append(p, k)
    BY AppendIsConcat DEF Tracks, Then, Step
  <2> QED BY <2>1, AppendProperties DEF Tracks
<1> QED BY <1>1, <1>2

\* What lies under a path, and behind it.
LEMMA Unders ==
  ASSUME NEW p \in Tracks
  PROVE  /\ \A q \in Tracks : Under(p, Then(p, q)) /\ Behind(p, Then(p, q)) = q
         /\ \A q \in Tracks : Under(p, q) => Behind(p, q) \in Tracks /\ q = Then(p, Behind(p, q))
<1>1. ASSUME NEW q \in Tracks PROVE Under(p, Then(p, q)) /\ Behind(p, Then(p, q)) = q
  <2> DEFINE r == p \o q
  <2>1. /\ r \in Seq(Int) /\ Len(r) = Len(p) + Len(q) /\ Len(p) \in Nat /\ Len(q) \in Nat
        /\ \A i \in 1..(Len(p) + Len(q)) : r[i] = IF i <= Len(p) THEN p[i] ELSE q[i - Len(p)]
    BY ConcatProperties DEF Tracks
  <2> HIDE DEF r
  <2>2. SubSeq(p, 1, Len(p)) = p
    BY SubSeqFull DEF Tracks
  <2>3. SubSeq(r, 1, Len(p)) = p
    <3>1. /\ SubSeq(r, 1, Len(p)) \in Seq(Int) /\ Len(SubSeq(r, 1, Len(p))) = Len(p)
          /\ \A i \in 1..Len(p) : SubSeq(r, 1, Len(p))[i] = r[i]
      BY <2>1
    <3> QED BY <2>1, <3>1, SeqEqual DEF Tracks
  <2>4. SubSeq(r, Len(p) + 1, Len(r)) = q
    <3> DEFINE s == SubSeq(r, Len(p) + 1, Len(r))
    <3>1. /\ s \in Seq(Int) /\ Len(s) = Len(q)
          /\ \A i \in 1..Len(q) : s[i] = r[Len(p) + i]
      BY <2>1
    <3> HIDE DEF s
    <3>2. ASSUME NEW i \in 1..Len(q) PROVE r[Len(p) + i] = q[i]
      <4>1. Len(p) + i \in 1..(Len(p) + Len(q)) /\ ~(Len(p) + i <= Len(p)) /\ Len(p) + i - Len(p) = i
        BY <2>1
      <4> QED BY <2>1, <4>1
    <3>3. s = q
      BY <3>1, <3>2, SeqEqual DEF Tracks
    <3> QED BY <3>3 DEF s
  <2> QED BY <2>1, <2>2, <2>3, <2>4 DEF Under, Then, Behind, IsPrefix, r
<1>2. ASSUME NEW q \in Tracks, Under(p, q)
      PROVE  Behind(p, q) \in Tracks /\ q = Then(p, Behind(p, q))
  <2> DEFINE s == SubSeq(q, Len(p) + 1, Len(q))
             r == p \o s
  <2>1. Len(p) \in Nat /\ Len(q) \in Nat /\ Len(p) <= Len(q) /\ SubSeq(q, 1, Len(p)) = p
    BY <1>2, SubSeqFull DEF Tracks, Under, IsPrefix
  <2>2. /\ s \in Seq(Int) /\ Len(s) = Len(q) - Len(p)
        /\ \A i \in 1..(Len(q) - Len(p)) : s[i] = q[Len(p) + i]
    BY <2>1 DEF Tracks
  <2> HIDE DEF s
  <2>3. /\ r \in Seq(Int) /\ Len(r) = Len(q)
        /\ \A i \in 1..Len(q) : r[i] = IF i <= Len(p) THEN p[i] ELSE s[i - Len(p)]
    BY <2>1, <2>2, ConcatProperties DEF Tracks
  <2>4. \A i \in 1..Len(p) : p[i] = q[i]
    BY <2>1 DEF Tracks
  <2> HIDE DEF r
  <2>5. ASSUME NEW i \in 1..Len(q) PROVE r[i] = q[i]
    <3>1. CASE i <= Len(p)
      BY <2>1, <2>3, <2>4, <3>1
    <3>2. CASE ~(i <= Len(p))
      <4>1. i - Len(p) \in 1..(Len(q) - Len(p)) /\ Len(p) + (i - Len(p)) = i
        BY <2>1, <3>2
      <4> QED BY <2>2, <2>3, <3>2, <4>1
    <3> QED BY <3>1, <3>2
  <2>6. r = q
    BY <2>3, <2>5, SeqEqual DEF Tracks
  <2> QED BY <2>2, <2>6 DEF Then, Behind, Tracks, s, r
<1> QED BY <1>1, <1>2

\* A child of a node lies under p if the node does, or if the child is p.
LEMMA UnderStep ==
  ASSUME NEW p \in Tracks, NEW q \in Tracks, NEW k \in Int
  PROVE  /\ Under(p, q) => Under(p, Then(q, Step(k)))
         /\ Under(p, Then(q, Step(k))) => Under(p, q) \/ p = Then(q, Step(k))
         /\ Under(p, Here) => p = Here
<1>1. ASSUME Under(p, q) PROVE Under(p, Then(q, Step(k)))
  <2>1. q = Then(p, Behind(p, q)) /\ Behind(p, q) \in Tracks
    BY <1>1, Unders
  <2>2. Then(q, Step(k)) = Then(p, Then(Behind(p, q), Step(k)))
    BY <2>1, Joining
  <2> QED BY <2>1, <2>2, Unders, Joining
<1>2. ASSUME Under(p, Then(q, Step(k))), p # Then(q, Step(k)) PROVE Under(p, q)
  <2> DEFINE r == Then(q, Step(k))
             s == Behind(p, r)
  <2>1. r \in Tracks /\ s \in Tracks /\ r = Then(p, s)
    BY <1>2, Unders, Joining
  <2>2. Front(r) = q
    BY LastKey
  <2> HIDE DEF r, s
  <2>3. s # Here
    BY <1>2, <2>1, Joining DEF r
  <2>4. Front(s) \in Tracks /\ Last(s) \in Int /\ s = Then(Front(s), Step(Last(s)))
    BY <2>1, <2>3, LastKey
  <2>5. r = Then(Then(p, Front(s)), Step(Last(s))) /\ Then(p, Front(s)) \in Tracks
    <3>1. Then(p, Then(Front(s), Step(Last(s)))) = Then(Then(p, Front(s)), Step(Last(s)))
      BY <2>4, Joining
    <3> QED BY <2>1, <2>4, <3>1, Joining
  <2>6. Front(r) = Then(p, Front(s))
    BY <2>4, <2>5, LastKey
  <2> QED BY <2>2, <2>4, <2>6, Unders
<1>3. ASSUME Under(p, Here) PROVE p = Here
  BY <1>3, Unders, Joining
<1> QED BY <1>1, <1>2, <1>3

-----------------------------------------------------------------------------
(***************************************************************************)
(* Values, as functions from paths.                                        *)
(***************************************************************************)

Branch(c, k) == c.type \in Containers /\ (c.type = arrayValue => k \in Nat)

Tree(n) ==
  /\ n = [p \in DOMAIN n |-> n[p]]
  /\ IsFiniteSet(DOMAIN n) /\ DOMAIN n \subseteq Tracks /\ Here \in DOMAIN n
  /\ \A p \in DOMAIN n : NodeOK(n[p])
  /\ \A p \in Tracks, k \in Int :
       Then(p, Step(k)) \in DOMAIN n => p \in DOMAIN n /\ Branch(n[p], k)

\* WellFormed, with a path as one key more.
LEMMA WellFormedIs ==
  ASSUME NEW n
  PROVE  WellFormed(n) <=> Tree(n)
<1>1. ASSUME WellFormed(n) PROVE Tree(n)
  <2>1. /\ n = [p \in DOMAIN n |-> n[p]]
        /\ IsFiniteSet(DOMAIN n) /\ DOMAIN n \subseteq Tracks /\ Here \in DOMAIN n
        /\ \A p \in DOMAIN n : NodeOK(n[p])
        /\ \A p \in DOMAIN n \ {Here} :
             /\ Front(p) \in DOMAIN n
             /\ n[Front(p)].type \in Containers
             /\ n[Front(p)].type = arrayValue => Last(p) \in Nat
    BY <1>1, Zenon DEF WellFormed, Tracks, Here
  <2>2. ASSUME NEW p \in Tracks, NEW k \in Int, Then(p, Step(k)) \in DOMAIN n
        PROVE  p \in DOMAIN n /\ Branch(n[p], k)
    <3>1. Then(p, Step(k)) # Here /\ Front(Then(p, Step(k))) = p /\ Last(Then(p, Step(k))) = k
      BY LastKey
    <3>2. Then(p, Step(k)) \in DOMAIN n \ {Here}
      BY <2>2, <3>1
    <3> QED BY <2>1, <3>1, <3>2 DEF Branch
  <2> QED BY <2>1, <2>2, Zenon DEF Tree
<1>2. ASSUME Tree(n) PROVE WellFormed(n)
  <2>1. ASSUME NEW p \in DOMAIN n \ {Here}
        PROVE  /\ Front(p) \in DOMAIN n
               /\ n[Front(p)].type \in Containers
               /\ n[Front(p)].type = arrayValue => Last(p) \in Nat
    <3>1. Front(p) \in Tracks /\ Last(p) \in Int /\ p = Then(Front(p), Step(Last(p)))
      BY <1>2, LastKey, Zenon DEF Tree
    <3>2. Front(p) \in DOMAIN n /\ Branch(n[Front(p)], Last(p))
      <4> DEFINE f == Front(p)
                 l == Last(p)
      <4>1. f \in Tracks /\ l \in Int /\ Then(f, Step(l)) \in DOMAIN n
        BY <3>1
      <4> HIDE DEF f, l
      <4>2. f \in DOMAIN n /\ Branch(n[f], l)
        BY <1>2, <4>1 DEF Tree
      <4> QED BY <4>2 DEF f, l
    <3> QED BY <3>2 DEF Branch
  <2>2. DOMAIN n \subseteq Seq(Int) /\ <<>> \in DOMAIN n
    BY <1>2, Zenon DEF Tree, Tracks, Here
  <2>3. \A p \in DOMAIN n \ {<<>>} :
          /\ Front(p) \in DOMAIN n
          /\ n[Front(p)].type \in Containers
          /\ n[Front(p)].type = arrayValue => Last(p) \in Nat
    BY <2>1, Zenon DEF Here
  <2> QED BY <1>2, <2>2, <2>3, Zenon DEF WellFormed, Tree
<1> QED BY <1>1, <1>2

\* The node at p, and what is below it.
LEMMA AtIs ==
  ASSUME NEW n, DOMAIN n \subseteq Tracks, NEW p \in Tracks
  PROVE  /\ At(n, p) = [q \in {r \in Tracks : Then(p, r) \in DOMAIN n} |-> n[Then(p, q)]]
         /\ DOMAIN At(n, p) = {r \in Tracks : Then(p, r) \in DOMAIN n}
         /\ IsFiniteSet(DOMAIN n) => IsFiniteSet(DOMAIN At(n, p))
<1> DEFINE below == {r \in DOMAIN n : Under(p, r)}
           D == {Behind(p, q) : q \in below}
           E == {r \in Tracks : Then(p, r) \in DOMAIN n}
<1>1. At(n, p) = [q \in D |-> n[Then(p, q)]]
  BY Zenon DEF At, Under, Then
<1>2. D = E
  BY Unders
<1>3. ASSUME IsFiniteSet(DOMAIN n) PROVE IsFiniteSet(E)
  <2> DEFINE f == [q \in below |-> Behind(p, q)]
  <2>1. IsFiniteSet(below)
    BY <1>3, FS_Subset
  <2>2. f \in Surjection(below, E)
    BY <1>2 DEF Surjection
  <2> HIDE DEF f, below, E
  <2> QED BY <2>1, <2>2, FS_Surjection
<1> QED BY <1>1, <1>2, <1>3

\* m in the place of the node at p.
LEMMA PutIs ==
  ASSUME NEW n, DOMAIN n \subseteq Tracks, NEW m, DOMAIN m \subseteq Tracks, NEW p \in Tracks
  PROVE  /\ Put(n, p, m) = [r \in DOMAIN Put(n, p, m) |-> Put(n, p, m)[r]]
         /\ DOMAIN Put(n, p, m) \subseteq Tracks
         /\ \A q \in Tracks :
              /\ Then(p, q) \in DOMAIN Put(n, p, m) <=> q \in DOMAIN m
              /\ q \in DOMAIN m => Put(n, p, m)[Then(p, q)] = m[q]
         /\ \A r \in Tracks : ~Under(p, r) =>
              /\ r \in DOMAIN Put(n, p, m) <=> r \in DOMAIN n
              /\ r \in DOMAIN n => Put(n, p, m)[r] = n[r]
         /\ IsFiniteSet(DOMAIN n) /\ IsFiniteSet(DOMAIN m) => IsFiniteSet(DOMAIN Put(n, p, m))
<1> DEFINE A == {r \in DOMAIN n : ~Under(p, r)}
           B == {Then(p, r) : r \in DOMAIN m}
<1>1. Put(n, p, m) = [q \in A \cup B |-> IF Under(p, q) THEN m[Behind(p, q)] ELSE n[q]]
  BY Zenon DEF Put, Under, Then
<1>2. B \subseteq Tracks
  BY Joining
<1>3. ASSUME NEW q \in Tracks
      PROVE  /\ Then(p, q) \in A \cup B <=> q \in DOMAIN m
             /\ q \in DOMAIN m => Put(n, p, m)[Then(p, q)] = m[q]
  <2>1. Under(p, Then(p, q)) /\ Behind(p, Then(p, q)) = q
    BY Unders
  <2>2. ASSUME Then(p, q) \in B PROVE q \in DOMAIN m
    <3>1. PICK r \in DOMAIN m : Then(p, q) = Then(p, r)
      BY <2>2
    <3>2. r \in Tracks /\ q \in Tracks /\ p \in Tracks
      OBVIOUS
    <3>3. q = r
      BY <3>1, <3>2, Joining
    <3> QED BY <3>3
  <2>3. q \in DOMAIN m => Then(p, q) \in B
    OBVIOUS
  <2>4. Then(p, q) \notin A
    BY <2>1
  <2> HIDE DEF A, B
  <2> QED BY <1>1, <2>1, <2>2, <2>3, <2>4
<1>4. ASSUME NEW r \in Tracks, ~Under(p, r)
      PROVE  /\ r \in A \cup B <=> r \in DOMAIN n
             /\ r \in DOMAIN n => Put(n, p, m)[r] = n[r]
  <2>1. r \notin B
    BY <1>4, Unders
  <2> QED BY <1>1, <1>4, <2>1
<1>5. ASSUME IsFiniteSet(DOMAIN n), IsFiniteSet(DOMAIN m) PROVE IsFiniteSet(A \cup B)
  <2> DEFINE f == [q \in DOMAIN m |-> Then(p, q)]
  <2>1. IsFiniteSet(A)
    BY <1>5, FS_Subset
  <2>2. f \in Surjection(DOMAIN m, B)
    BY DEF Surjection
  <2> HIDE DEF f, A, B
  <2>3. IsFiniteSet(B)
    BY <1>5, <2>2, FS_Surjection
  <2> QED BY <2>1, <2>3, FS_Union
<1> QED BY <1>1, <1>2, <1>3, <1>4, <1>5

\* Of these, what is read where.
LEMMA PutReads ==
  ASSUME NEW n, DOMAIN n \subseteq Tracks, NEW m, DOMAIN m \subseteq Tracks, NEW p \in Tracks
  PROVE  /\ \A q \in Tracks :
              /\ Then(p, q) \in DOMAIN Put(n, p, m) <=> q \in DOMAIN m
              /\ q \in DOMAIN m => Put(n, p, m)[Then(p, q)] = m[q]
         /\ \A r \in Tracks : ~Under(p, r) =>
              /\ r \in DOMAIN Put(n, p, m) <=> r \in DOMAIN n
              /\ r \in DOMAIN n => Put(n, p, m)[r] = n[r]
<1> DEFINE put == Put(n, p, m)
<1>1. /\ put = [r \in DOMAIN put |-> put[r]]
      /\ DOMAIN put \subseteq Tracks
      /\ \A q \in Tracks :
           /\ Then(p, q) \in DOMAIN put <=> q \in DOMAIN m
           /\ q \in DOMAIN m => put[Then(p, q)] = m[q]
      /\ \A r \in Tracks : ~Under(p, r) =>
           /\ r \in DOMAIN put <=> r \in DOMAIN n
           /\ r \in DOMAIN n => put[r] = n[r]
      /\ IsFiniteSet(DOMAIN n) /\ IsFiniteSet(DOMAIN m) => IsFiniteSet(DOMAIN put)
  BY PutIs
<1> QED BY <1>1

\* The nodes on the way to a node are nodes.
LEMMA PrefixClosed ==
  ASSUME NEW n, Tree(n), NEW p \in Tracks, NEW q \in Tracks, Then(p, q) \in DOMAIN n
  PROVE  p \in DOMAIN n
<1> DEFINE S == {i \in Nat : \A r \in Tracks : Len(r) = i /\ Then(p, r) \in DOMAIN n => p \in DOMAIN n}
<1>1. 0 \in S
  BY Lengths, Joining
<1>2. ASSUME NEW i \in 1..Len(q), i - 1 \in S PROVE i \in S
  <2>1. ASSUME NEW r \in Tracks, Len(r) = i, Then(p, r) \in DOMAIN n PROVE p \in DOMAIN n
    <3> DEFINE f == Front(r)
               k == Last(r)
    <3>1. f \in Tracks /\ k \in Int /\ r = Then(f, Step(k))
      BY <2>1, Lengths, LastKey
    <3> HIDE DEF f, k
    <3>2. Len(f) = i - 1
      BY <2>1, <3>1, Lengths
    <3>3. Step(k) \in Tracks /\ Then(p, f) \in Tracks
      BY <3>1, Joining
    <3>4. Then(Then(p, f), Step(k)) \in DOMAIN n
      BY <2>1, <3>1, <3>3, Joining
    <3>5. Then(p, f) \in DOMAIN n
      BY <3>1, <3>3, <3>4 DEF Tree
    <3> QED BY <1>2, <3>1, <3>2, <3>5
  <2> QED BY <2>1
<1>3. Len(q) \in Nat /\ Len(q) \in 0..Len(q)
  BY Lengths
<1> HIDE DEF S
<1>4. Len(q) \in S
  BY <1>1, <1>2, <1>3, UpTo
<1> QED BY <1>4 DEF S

\* What lies at a node is a value.
LEMMA AtWellFormed ==
  ASSUME NEW n, Tree(n), NEW p \in DOMAIN n
  PROVE  Tree(At(n, p))
<1> DEFINE a == At(n, p)
<1>1. p \in Tracks /\ DOMAIN n \subseteq Tracks /\ IsFiniteSet(DOMAIN n)
  BY DEF Tree
<1>2. /\ a = [q \in {r \in Tracks : Then(p, r) \in DOMAIN n} |-> n[Then(p, q)]]
      /\ DOMAIN a = {r \in Tracks : Then(p, r) \in DOMAIN n}
      /\ IsFiniteSet(DOMAIN a)
  BY <1>1, AtIs
<1> HIDE DEF a
<1>3. Here \in DOMAIN a
  BY <1>1, <1>2, Joining
<1>4. \A q \in DOMAIN a : NodeOK(a[q])
  BY <1>2 DEF Tree
<1>5. ASSUME NEW q \in Tracks, NEW k \in Int, Then(q, Step(k)) \in DOMAIN a
      PROVE  q \in DOMAIN a /\ Branch(a[q], k)
  <2>1. Then(Then(p, q), Step(k)) \in DOMAIN n /\ Then(p, q) \in Tracks
    BY <1>1, <1>2, <1>5, Joining
  <2>2. Then(p, q) \in DOMAIN n /\ Branch(n[Then(p, q)], k)
    BY <2>1 DEF Tree
  <2> QED BY <1>2, <2>2
<1> QED BY <1>2, <1>3, <1>4, <1>5 DEF Tree, a

\* A place in a value: a node, or where a container lacks a child.
Held(n, p) ==
  \/ p \in DOMAIN n
  \/ \E q \in DOMAIN n, k \in Int : p = Then(q, Step(k)) /\ Branch(n[q], k)

\* A value put in a place of a value makes a value.
LEMMA PutWellFormed ==
  ASSUME NEW n, Tree(n), NEW m, Tree(m), NEW p \in Tracks, Held(n, p)
  PROVE  Tree(Put(n, p, m))
<1> DEFINE a == Put(n, p, m)
<1>1. /\ DOMAIN n \subseteq Tracks /\ IsFiniteSet(DOMAIN n)
      /\ DOMAIN m \subseteq Tracks /\ IsFiniteSet(DOMAIN m)
  BY DEF Tree
<1>2. /\ a = [r \in DOMAIN a |-> a[r]]
      /\ DOMAIN a \subseteq Tracks
      /\ \A q \in Tracks :
           /\ Then(p, q) \in DOMAIN a <=> q \in DOMAIN m
           /\ q \in DOMAIN m => a[Then(p, q)] = m[q]
      /\ \A r \in Tracks : ~Under(p, r) =>
           /\ r \in DOMAIN a <=> r \in DOMAIN n
           /\ r \in DOMAIN n => a[r] = n[r]
      /\ IsFiniteSet(DOMAIN a)
  BY <1>1, PutIs
<1> HIDE DEF a
<1>3. Here \in DOMAIN a
  <2>1. CASE p = Here
    <3>1. Then(p, Here) = Here /\ Here \in Tracks /\ Here \in DOMAIN m
      BY <2>1, Joining DEF Tree
    <3> QED BY <1>2, <3>1
  <2>2. CASE p # Here
    <3>1. ~Under(p, Here) /\ Here \in Tracks /\ Here \in DOMAIN n
      BY <2>2, 0 \in Int, UnderStep, Joining DEF Tree
    <3> QED BY <1>2, <3>1
  <2> QED BY <2>1, <2>2
<1>4. ASSUME NEW r \in DOMAIN a PROVE NodeOK(a[r])
  <2>1. CASE Under(p, r)
    <3>1. Behind(p, r) \in Tracks /\ r = Then(p, Behind(p, r))
      BY <1>2, <2>1, Unders
    <3> QED BY <1>2, <3>1 DEF Tree
  <2>2. CASE ~Under(p, r)
    BY <1>2, <2>2 DEF Tree
  <2> QED BY <2>1, <2>2
<1>5. ASSUME NEW r \in Tracks, NEW k \in Int, Then(r, Step(k)) \in DOMAIN a
      PROVE  r \in DOMAIN a /\ Branch(a[r], k)
  <2>1. CASE Under(p, r)
    <3> DEFINE q == Behind(p, r)
    <3>1. q \in Tracks /\ r = Then(p, q)
      BY <2>1, Unders
    <3> HIDE DEF q
    <3>2. Step(k) \in Tracks /\ Then(q, Step(k)) \in Tracks
      BY <3>1, Joining
    <3>5. Then(r, Step(k)) = Then(p, Then(q, Step(k)))
      BY <3>1, <3>2, Joining
    <3>3. Then(q, Step(k)) \in DOMAIN m
      BY <1>2, <1>5, <3>2, <3>5
    <3>4. q \in DOMAIN m /\ Branch(m[q], k)
      BY <3>1, <3>3 DEF Tree
    <3> QED BY <1>2, <3>1, <3>4
  <2>2. CASE ~Under(p, r)
    <3>1. Then(r, Step(k)) \in Tracks
      BY Joining
    <3>2. CASE p = Then(r, Step(k))
      <4>1. CASE p \in DOMAIN n
        <5>1. r \in DOMAIN n /\ Branch(n[r], k)
          BY <3>2, <4>1 DEF Tree
        <5> QED BY <1>2, <2>2, <5>1
      <4>2. ASSUME NEW q \in DOMAIN n, NEW j \in Int, p = Then(q, Step(j)), Branch(n[q], j)
            PROVE  r \in DOMAIN a /\ Branch(a[r], k)
        <5>1. q \in Tracks /\ Then(q, Step(j)) = Then(r, Step(k))
          BY <1>1, <3>2, <4>2
        <5>2. q = r /\ j = k
          <6>1. Front(Then(q, Step(j))) = q /\ Last(Then(q, Step(j))) = j
            BY <5>1, LastKey
          <6>2. Front(Then(r, Step(k))) = r /\ Last(Then(r, Step(k))) = k
            BY LastKey
          <6> QED BY <5>1, <6>1, <6>2, Zenon
        <5> QED BY <1>2, <2>2, <4>2, <5>2
      <4> QED BY <4>1, <4>2 DEF Held
    <3>3. CASE p # Then(r, Step(k))
      <4>1. ~Under(p, Then(r, Step(k)))
        BY <2>2, <3>3, UnderStep
      <4>2. Then(r, Step(k)) \in DOMAIN n
        BY <1>2, <1>5, <3>1, <4>1
      <4>3. r \in DOMAIN n /\ Branch(n[r], k)
        BY <4>2 DEF Tree
      <4> QED BY <1>2, <2>2, <4>3
    <3> QED BY <3>2, <3>3
  <2> QED BY <2>1, <2>2
<1> QED BY <1>2, <1>3, <1>4, <1>5 DEF Tree, a

-----------------------------------------------------------------------------
(***************************************************************************)
(* What the operations of a value make of it.                              *)
(***************************************************************************)

\* The parts of a value one usually needs.
LEMMA Root ==
  ASSUME NEW n, Tree(n)
  PROVE  /\ Here \in DOMAIN n /\ DOMAIN n \subseteq Tracks /\ IsFiniteSet(DOMAIN n)
         /\ type_(n) = n[Here].type /\ value_(n) = n[Here].v
         /\ NodeOK(n[Here]) /\ type_(n) \in ValueTypes
<1>1. /\ Here \in DOMAIN n /\ DOMAIN n \subseteq Tracks /\ IsFiniteSet(DOMAIN n)
      /\ NodeOK(n[Here])
  BY DEF Tree
<1>2. type_(n) = n[Here].type /\ value_(n) = n[Here].v
  BY DEF type_, value_, Here
<1> QED BY <1>1, <1>2 DEF NodeOK

\* An empty value of a type.
LEMMA NewWellFormed ==
  ASSUME NEW type \in {nullValue, arrayValue, objectValue}
  PROVE  Tree(New(type)) /\ DOMAIN New(type) = {Here} /\ type_(New(type)) = type
<1> DEFINE n == New(type)
<1>1. n = [p \in {Here} |-> Node(type, 0)]
  BY DEF New, Scalar, Here
<1> HIDE DEF n
<1>2. type \in ValueTypes /\ ValuesOf(type) = {0} /\ type # stringValue
  BY DEF nullValue, arrayValue, objectValue, ValueTypes, ValuesOf, intValue, uintValue, realValue,
         stringValue, booleanValue
<1>3. NoComments \in [Places -> Seq(Nat)]
  BY DEF NoComments
<1>4. NodeOK(Node(type, 0)) /\ Node(type, 0).type = type
  <2> DEFINE c == Node(type, 0)
  <2>1. /\ c.type = type /\ c.v = 0 /\ c.comments = NoComments /\ c.heap = FALSE
        /\ c = [type |-> type, v |-> 0, heap |-> FALSE, comments |-> NoComments]
    BY <1>2 DEF Node
  <2> HIDE DEF c
  <2>2. c \in [type : ValueTypes, v : Int, heap : BOOLEAN, comments : [Places -> Seq(Nat)]]
    BY <1>2, <1>3, <2>1
  <2> QED BY <1>2, <2>1, <2>2 DEF NodeOK, c
<1>5. \A p \in Tracks, k \in Int : Then(p, Step(k)) \notin DOMAIN n
  BY <1>1, LastKey
<1>6. Tree(n)
  BY <1>1, <1>4, <1>5, FS_Singleton, Joining DEF Tree
<1> QED BY <1>1, <1>4, <1>6, Root DEF n

LEMMA NullWellFormed ==
  Tree(Null) /\ DOMAIN Null = {Here} /\ type_(Null) = nullValue
BY NewWellFormed DEF Null

\* A copy differs in who owns the texts only.
LEMMA CopyWellFormed ==
  ASSUME NEW n, Tree(n)
  PROVE  /\ Tree(Copy(n)) /\ DOMAIN Copy(n) = DOMAIN n
         /\ \A p \in DOMAIN n : Copy(n)[p].type = n[p].type
<1> DEFINE a == Copy(n)
           Own(c) == [c EXCEPT !.heap = c.type = stringValue /\ c.v # NoText]
<1>1. a = [p \in DOMAIN n |-> Own(n[p])]
  BY Zenon DEF Copy
<1> HIDE DEF a
<1>2. ASSUME NEW c, NodeOK(c) PROVE NodeOK(Own(c)) /\ Own(c).type = c.type
  BY <1>2 DEF NodeOK
<1>3. \A p \in DOMAIN n : NodeOK(n[p])
  BY DEF Tree
<1> HIDE DEF Own
<1>4. \A p \in DOMAIN n : NodeOK(a[p]) /\ a[p].type = n[p].type
  BY <1>1, <1>2, <1>3
<1>5. ASSUME NEW p \in Tracks, NEW k \in Int, Then(p, Step(k)) \in DOMAIN a
      PROVE  p \in DOMAIN a /\ Branch(a[p], k)
  BY <1>1, <1>4, <1>5 DEF Tree, Branch
<1>6. Tree(a)
  BY <1>1, <1>4, <1>5 DEF Tree
<1> QED BY <1>1, <1>4, <1>6 DEF a

\* Swapping takes everything but the comments of the root.
LEMMA SwappedWellFormed ==
  ASSUME NEW n, Tree(n), NEW m, Tree(m)
  PROVE  /\ Tree(Swapped(n, m)) /\ DOMAIN Swapped(n, m) = DOMAIN m
         /\ \A p \in DOMAIN m : Swapped(n, m)[p].type = m[p].type
<1> DEFINE a == Swapped(n, m)
           Noted(c) == [c EXCEPT !.comments = n[Here].comments]
<1>1. a = [p \in DOMAIN m |-> IF p = Here THEN Noted(m[p]) ELSE m[p]]
  BY Here \in DOMAIN m, m = [p \in DOMAIN m |-> m[p]] DEF Swapped, Here, Tree
<1> HIDE DEF a
<1>2. ASSUME NEW c, NodeOK(c) PROVE NodeOK(Noted(c)) /\ Noted(c).type = c.type
  BY <1>2, Root DEF NodeOK
<1>3. \A p \in DOMAIN m : NodeOK(m[p])
  BY DEF Tree
<1> HIDE DEF Noted
<1>4. \A p \in DOMAIN m : NodeOK(a[p]) /\ a[p].type = m[p].type
  BY <1>1, <1>2, <1>3
<1>5. ASSUME NEW p \in Tracks, NEW k \in Int, Then(p, Step(k)) \in DOMAIN a
      PROVE  p \in DOMAIN a /\ Branch(a[p], k)
  BY <1>1, <1>4, <1>5 DEF Tree, Branch
<1>6. Tree(a)
  BY <1>1, <1>4, <1>5 DEF Tree
<1> QED BY <1>1, <1>4, <1>6 DEF a

LEMMA AssignedWellFormed ==
  ASSUME NEW n, Tree(n), NEW m, Tree(m)
  PROVE  /\ Tree(Assigned(n, m)) /\ DOMAIN Assigned(n, m) = DOMAIN m
         /\ type_(Assigned(n, m)) = type_(m)
<1>1. /\ Tree(Copy(m)) /\ DOMAIN Copy(m) = DOMAIN m
      /\ \A p \in DOMAIN m : Copy(m)[p].type = m[p].type
  BY CopyWellFormed
<1>2. /\ Tree(Assigned(n, m)) /\ DOMAIN Assigned(n, m) = DOMAIN m
      /\ \A p \in DOMAIN m : Assigned(n, m)[p].type = m[p].type
  BY <1>1, SwappedWellFormed DEF Assigned
<1> QED BY <1>2, Root

\* The keys of the children of a value.
LEMMA KidsAre ==
  ASSUME NEW n, Tree(n)
  PROVE  /\ Kids(n) = {k \in Int : Step(k) \in DOMAIN n}
         /\ IsFiniteSet(Kids(n))
         /\ \A k \in Kids(n) : Branch(n[Here], k)
         /\ Kids(n) # {} => type_(n) \in Containers
         /\ type_(n) = arrayValue => Kids(n) \subseteq Nat
<1> DEFINE ones == {q \in DOMAIN n : Len(q) = 1}
<1>0. DOMAIN n \subseteq Tracks /\ IsFiniteSet(DOMAIN n)
  BY Root
<1>1. ASSUME NEW q \in ones PROVE q[1] \in Int /\ q = Step(q[1])
  <2>1. q \in Seq(Int) /\ Len(q) = 1
    BY <1>0 DEF Tracks
  <2>2. q[1] \in Int
    BY <2>1
  <2> DEFINE s == <<q[1]>>
  <2>3. s \in Seq(Int) /\ Len(s) = 1 /\ s[1] = q[1]
    BY <2>2
  <2> HIDE DEF s
  <2>4. q = s
    BY <2>1, <2>3, SeqEqual
  <2> QED BY <2>2, <2>4 DEF s, Step
<1>2. \A k \in Int : Len(Step(k)) = 1 /\ Step(k)[1] = k
  BY DEF Step
<1>3. Kids(n) = {q[1] : q \in ones}
  BY Zenon DEF Kids
<1> HIDE DEF ones
<1>4. Kids(n) = {k \in Int : Step(k) \in DOMAIN n}
  <2>1. ASSUME NEW k \in Kids(n) PROVE k \in Int /\ Step(k) \in DOMAIN n
    <3>1. PICK q \in ones : k = q[1]
      BY <1>3
    <3> QED BY <1>1, <3>1 DEF ones
  <2>2. ASSUME NEW k \in Int, Step(k) \in DOMAIN n PROVE k \in Kids(n)
    <3>1. Step(k) \in ones
      BY <1>2, <2>2 DEF ones
    <3> QED BY <1>2, <1>3, <3>1
  <2> QED BY <2>1, <2>2
<1>5. IsFiniteSet(Kids(n))
  <2> DEFINE f == [q \in ones |-> q[1]]
  <2>1. IsFiniteSet(ones)
    BY <1>0, FS_Subset DEF ones
  <2>2. f \in Surjection(ones, Kids(n))
    BY <1>3 DEF Surjection
  <2> HIDE DEF f
  <2> QED BY <2>1, <2>2, FS_Surjection
<1>6. ASSUME NEW k \in Kids(n) PROVE Branch(n[Here], k)
  <2>1. k \in Int /\ Then(Here, Step(k)) \in DOMAIN n
    BY <1>4, Joining
  <2> QED BY <2>1, Joining DEF Tree
<1> QED BY <1>4, <1>5, <1>6, Root DEF Branch

LEMMA ChildWellFormed ==
  ASSUME NEW n, Tree(n), NEW k \in Int
  PROVE  /\ Tree(Child(n, k))
         /\ isMember(n, k) <=> Step(k) \in DOMAIN n
         /\ isMember(n, k) => Child(n, k) = At(n, Step(k))
<1>1. isMember(n, k) <=> Step(k) \in DOMAIN n
  BY KidsAre DEF isMember
<1>2. isMember(n, k) => Child(n, k) = At(n, Step(k))
  BY DEF Child, Step
<1>3. ~isMember(n, k) => Child(n, k) = Null
  BY DEF Child
<1> QED BY <1>1, <1>2, <1>3, AtWellFormed, NullWellFormed

\* Nothing lies below the root of what is not a container.
LEMMA LeafIsRoot ==
  ASSUME NEW n, Tree(n), type_(n) \notin Containers
  PROVE  DOMAIN n = {Here}
<1> DEFINE S == {i \in Nat : \A p \in DOMAIN n : Len(p) = i => i = 0}
<1>1. DOMAIN n \subseteq Tracks /\ Here \in DOMAIN n /\ type_(n) = n[Here].type
  BY Root
<1>2. \A p \in Tracks : Len(p) \in Nat /\ (Len(p) = 0 => p = Here)
  BY Lengths
<1>3. ASSUME NEW p \in DOMAIN n, p # Here
      PROVE  Front(p) \in DOMAIN n /\ Front(p) # Here /\ Len(p) = Len(Front(p)) + 1
  <2> DEFINE f == Front(p)
             k == Last(p)
  <2>1. f \in Tracks /\ k \in Int /\ p = Then(f, Step(k))
    BY <1>1, <1>3, LastKey
  <2> HIDE DEF f, k
  <2>2. f \in DOMAIN n /\ n[f].type \in Containers
    BY <2>1 DEF Tree, Branch
  <2>3. f # Here
    BY <1>1, <2>2
  <2>4. Len(p) = Len(f) + 1
    BY <2>1, Lengths
  <2> QED BY <2>2, <2>3, <2>4 DEF f
<1>4. ASSUME NEW m \in Nat PROVE \A i \in 0..m : i \in S
  <2>1. 0 \in S
    OBVIOUS
  <2>2. ASSUME NEW i \in 1..m, i - 1 \in S PROVE i \in S
    <3>1. ASSUME NEW p \in DOMAIN n, Len(p) = i PROVE FALSE
      <4>1. p # Here
        BY <3>1 DEF Here
      <4>2. Front(p) \in DOMAIN n /\ Front(p) # Here /\ Len(p) = Len(Front(p)) + 1
        BY <1>3, <4>1
      <4>3. Len(Front(p)) = i - 1 /\ Len(Front(p)) # 0
        BY <1>1, <1>2, <3>1, <4>2
      <4> QED BY <2>2, <4>2, <4>3
    <3> QED BY <3>1
  <2> HIDE DEF S
  <2> QED BY <2>1, <2>2, UpTo
<1>5. ASSUME NEW p \in DOMAIN n PROVE p = Here
  <2>1. Len(p) \in Nat
    BY <1>1, <1>2
  <2>2. Len(p) \in S
    BY <1>4, <2>1
  <2> QED BY <1>1, <1>2, <2>2
<1> QED BY <1>1, <1>5

\* A null that is opened has no children, and no other value changes.
LEMMA OpenedWellFormed ==
  ASSUME NEW n, Tree(n), NEW type \in Containers, type_(n) \in {nullValue, type}
  PROVE  /\ Tree(Opened(n, type)) /\ type_(Opened(n, type)) = type
         /\ DOMAIN Opened(n, type) = DOMAIN n
<1>1. type \in {nullValue, arrayValue, objectValue} /\ type # nullValue /\ nullValue \notin Containers
  BY DEF Containers, arrayValue, objectValue, nullValue
<1>2. CASE type_(n) = nullValue
  <2>1. Tree(New(type)) /\ DOMAIN New(type) = {Here} /\ type_(New(type)) = type
    BY <1>1, NewWellFormed
  <2>2. DOMAIN n = {Here}
    BY <1>1, <1>2, LeafIsRoot
  <2> QED BY <1>2, <2>1, <2>2, AssignedWellFormed DEF Opened
<1>3. CASE type_(n) # nullValue
  BY <1>3 DEF Opened
<1> QED BY <1>2, <1>3

\* operator[] for writing makes a child where there was none.
LEMMA WithChildWellFormed ==
  ASSUME NEW n, Tree(n), NEW k \in Int, Branch(n[Here], k)
  PROVE  /\ Tree(WithChild(n, k)) /\ type_(WithChild(n, k)) = type_(n)
         /\ DOMAIN WithChild(n, k) = DOMAIN n \cup {Step(k)}
         /\ \A q \in DOMAIN n : WithChild(n, k)[q] = n[q]
<1> DEFINE a == WithChild(n, k)
           b == Put(n, Step(k), Null)
<1>1. Here \in Tracks /\ Step(k) \in Tracks /\ Step(k) # Here /\ Then(Here, Step(k)) = Step(k)
  BY Joining
<1>2. isMember(n, k) <=> Step(k) \in DOMAIN n
  BY ChildWellFormed
<1>3. a = IF Step(k) \in DOMAIN n THEN n ELSE b
  BY <1>2 DEF WithChild, Step
<1>4. Tree(Null) /\ DOMAIN Null = {Here}
  BY NullWellFormed
<1>5. CASE Step(k) \in DOMAIN n
  BY <1>3, <1>5
<1>6. CASE Step(k) \notin DOMAIN n
  <2>1. Tree(b)
    <3>1. Held(n, Step(k))
      BY <1>1, Root DEF Held
    <3> QED BY <1>1, <1>4, <3>1, PutWellFormed
  <2>2. /\ DOMAIN n \subseteq Tracks /\ Here \in DOMAIN n /\ DOMAIN Null \subseteq Tracks
    BY <1>1, <1>4, Root
  <2>3. /\ \A q \in Tracks : Then(Step(k), q) \in DOMAIN b <=> q \in DOMAIN Null
        /\ \A r \in Tracks : ~Under(Step(k), r) =>
              /\ r \in DOMAIN b <=> r \in DOMAIN n
              /\ r \in DOMAIN n => b[r] = n[r]
        /\ DOMAIN b \subseteq Tracks
    <3> DEFINE p == Step(k)
               m == Null
    <3>1. p \in Tracks /\ DOMAIN n \subseteq Tracks /\ DOMAIN m \subseteq Tracks
      BY <1>1, <2>2
    <3> HIDE DEF p, m
    <3>2. /\ \A q \in Tracks : Then(p, q) \in DOMAIN Put(n, p, m) <=> q \in DOMAIN m
          /\ \A q \in Tracks : ~Under(p, q) =>
                /\ q \in DOMAIN Put(n, p, m) <=> q \in DOMAIN n
                /\ q \in DOMAIN n => Put(n, p, m)[q] = n[q]
          /\ DOMAIN Put(n, p, m) \subseteq Tracks
      BY <3>1, PutIs
    <3> QED BY <3>2 DEF p, m
  <2> HIDE DEF b
  <2>4. ~Under(Step(k), Here)
    BY <1>1, UnderStep
  <2>5. b[Here] = n[Here]
    BY <1>1, <2>2, <2>3, <2>4
  <2>6. ASSUME NEW r \in Tracks
        PROVE  /\ r \in DOMAIN b <=> r \in DOMAIN n \cup {Step(k)}
               /\ r \in DOMAIN n => b[r] = n[r]
    <3>1. CASE Under(Step(k), r)
      <4> DEFINE q == Behind(Step(k), r)
      <4>1. q \in Tracks /\ r = Then(Step(k), q)
        BY <1>1, <3>1, Unders
      <4> HIDE DEF q
      <4>2. r \in DOMAIN b <=> q = Here
        BY <1>4, <2>3, <4>1
      <4>3. q = Here <=> r = Step(k)
        <5>1. Then(Step(k), Here) = Step(k)
          BY <1>1, Joining
        <5>2. Then(Step(k), q) = Then(Step(k), Here) => q = Here
          BY <1>1, <4>1, Joining
        <5> QED BY <4>1, <5>1, <5>2
      <4>4. r \notin DOMAIN n
        BY <1>1, <1>6, <4>1, PrefixClosed
      <4> QED BY <4>2, <4>3, <4>4
    <3>2. CASE ~Under(Step(k), r)
      <4>1. r # Step(k)
        <5>1. Under(Step(k), Then(Step(k), Here)) /\ Then(Step(k), Here) = Step(k)
          BY <1>1, Unders, Joining
        <5> QED BY <3>2, <5>1
      <4> QED BY <2>3, <3>2, <4>1
    <3> QED BY <3>1, <3>2
  <2> QED BY <1>3, <1>6, <2>1, <2>2, <2>3, <2>5, <2>6, <1>1, Root
<1> QED BY <1>5, <1>6

\* Children that are left out are left out with all that is below them.
LEMMA OnlyWellFormed ==
  ASSUME NEW n, Tree(n), NEW keys
  PROVE  /\ Tree(Only(n, keys)) /\ type_(Only(n, keys)) = type_(n)
         /\ Kids(Only(n, keys)) = Kids(n) \cap keys
<1> DEFINE a == Only(n, keys)
           D == {q \in DOMAIN n : q = Here \/ Head(q) \in keys}
<1>1. a = [p \in D |-> n[p]]
  BY Zenon DEF Only, Here
<1>2. DOMAIN n \subseteq Tracks /\ IsFiniteSet(DOMAIN n) /\ Here \in DOMAIN n
  BY Root
<1> HIDE DEF a
<1>3. IsFiniteSet(D)
  BY <1>2, FS_Subset
<1>4. ASSUME NEW p \in Tracks, NEW k \in Int, Then(p, Step(k)) \in D
      PROVE  p \in D /\ Branch(n[p], k)
  <2>1. p \in DOMAIN n /\ Branch(n[p], k)
    BY <1>4 DEF Tree
  <2>2. p # Here => Head(p) = Head(Then(p, Step(k)))
    <3>1. Then(p, Step(k)) = Append(p, k) /\ p \in Seq(Int)
      BY AppendIsConcat DEF Tracks, Then, Step
    <3> QED BY <3>1, HeadTailAppend DEF Here
  <2>3. Then(p, Step(k)) # Here
    BY LastKey
  <2> QED BY <1>4, <2>1, <2>2, <2>3
<1>5. Tree(a)
  BY <1>1, <1>2, <1>3, <1>4 DEF Tree
<1>6. ASSUME NEW k \in Int PROVE Step(k) \in D <=> Step(k) \in DOMAIN n /\ k \in keys
  <2>1. Step(k) # Here /\ Head(Step(k)) = k
    BY Joining DEF Step
  <2> QED BY <2>1
<1>7. Kids(a) = Kids(n) \cap keys
  BY <1>1, <1>5, <1>6, KidsAre
<1> QED BY <1>1, <1>2, <1>5, <1>7, Root DEF a

\* The size of an array is the least number above its indexes.
LEMMA SizeIs ==
  ASSUME NEW n, Tree(n), isArray(n)
  PROVE  /\ Size(n) \in Nat
         /\ \A k \in Kids(n) : k \in 0..(Size(n) - 1)
         /\ Kids(n) # {} => Size(n) - 1 \in Kids(n)
         /\ Kids(n) = {} => Size(n) = 0
         /\ type_(n) = nullValue => Kids(n) = {}
<1>1. IsFiniteSet(Kids(n)) /\ Kids(n) \subseteq Int
      /\ (Kids(n) # {} => type_(n) \in Containers)
      /\ (type_(n) = arrayValue => Kids(n) \subseteq Nat)
  BY KidsAre
<1>2. type_(n) \in {nullValue, arrayValue} /\ nullValue \notin Containers /\ MaxIndex \in Nat
  BY ProgramAssumption DEF isArray, nullValue, Containers, arrayValue, objectValue
<1>3. CASE Kids(n) = {}
  BY <1>2, <1>3, FS_EmptySet DEF Size
<1>4. CASE Kids(n) # {}
  <2>1. type_(n) = arrayValue
    BY <1>1, <1>2, <1>4
  <2>2. Max(Kids(n)) \in Kids(n) /\ \A j \in Kids(n) : j <= Max(Kids(n))
    BY <1>1, <1>4, Ends
  <2>3. Size(n) = Max(Kids(n)) + 1
    BY <1>4, <2>1 DEF Size
  <2> DEFINE g == Max(Kids(n))
  <2>4. g \in Nat
    BY <1>1, <2>1, <2>2
  <2> HIDE DEF g
  <2> QED BY <1>1, <1>2, <1>4, <2>1, <2>2, <2>3, <2>4 DEF g
<1> QED BY <1>3, <1>4

\* An array with a child more is an array.
LEMMA WiderArray ==
  ASSUME NEW n, Tree(n), isArray(n), NEW i \in Nat
  PROVE  LET wide == WithChild(Opened(n, arrayValue), i)
         IN Tree(wide) /\ Step(i) \in DOMAIN wide /\ i \in Int
<1> DEFINE o == Opened(n, arrayValue)
<1>1. arrayValue \in Containers /\ type_(n) \in {nullValue, arrayValue}
  BY DEF isArray, Containers
<1>2. Tree(o) /\ type_(o) = arrayValue
  BY <1>1, OpenedWellFormed
<1> HIDE DEF o
<1>3. i \in Int /\ Branch(o[Here], i)
  BY <1>1, <1>2, Root, ProgramAssumption DEF Branch
<1>4. Tree(WithChild(o, i)) /\ DOMAIN WithChild(o, i) = DOMAIN o \cup {Step(i)}
  BY <1>2, <1>3, WithChildWellFormed
<1> QED BY <1>3, <1>4 DEF o

LEMMA WiderObject ==
  ASSUME NEW n, Tree(n), isObject(n), NEW k \in Int
  PROVE  LET wide == WithChild(Opened(n, objectValue), k)
         IN Tree(wide) /\ Step(k) \in DOMAIN wide
<1> DEFINE o == Opened(n, objectValue)
<1>1. objectValue \in Containers /\ objectValue # arrayValue /\ type_(n) \in {nullValue, objectValue}
  BY DEF isObject, Containers, objectValue, arrayValue
<1>2. Tree(o) /\ type_(o) = objectValue
  BY <1>1, OpenedWellFormed
<1> HIDE DEF o
<1>3. Branch(o[Here], k)
  BY <1>1, <1>2, Root DEF Branch
<1>4. Tree(WithChild(o, k)) /\ DOMAIN WithChild(o, k) = DOMAIN o \cup {Step(k)}
  BY <1>2, <1>3, WithChildWellFormed
<1> QED BY <1>4 DEF o

LEMMA AppendedWellFormed ==
  ASSUME NEW n, Tree(n), isArray(n), NEW m, Tree(m), NEW itself \in BOOLEAN
  PROVE  Tree(Appended(n, m, itself))
<1> DEFINE i == Size(n)
           wide == WithChild(Opened(n, arrayValue), i)
           new == Assigned(At(wide, Step(i)), IF itself THEN wide ELSE m)
<1>1. i \in Nat
  BY SizeIs, ProgramAssumption
<1>2. Tree(wide) /\ Step(i) \in DOMAIN wide /\ Step(i) \in Tracks
  BY <1>1, WiderArray, Joining
<1>3. Appended(n, m, itself) = Put(wide, Step(i), new)
  BY DEF Appended, Step
<1> HIDE DEF wide, i
<1>4. Tree(At(wide, Step(i)))
  BY <1>2, AtWellFormed
<1>5. Tree(new)
  <2>1. Tree(IF itself THEN wide ELSE m)
    BY <1>2
  <2> HIDE DEF wide
  <2> QED BY <1>4, <2>1, AssignedWellFormed
<1> HIDE DEF new
<1> QED BY <1>2, <1>3, <1>5, PutWellFormed DEF Held

\* A comment at the root.
LEMMA CommentedWellFormed ==
  ASSUME NEW n, Tree(n), NEW text \in Nat
  PROVE  Tree([n EXCEPT ![<<>>].comments[commentBefore] = <<text>>])
<1> DEFINE a == [n EXCEPT ![<<>>].comments[commentBefore] = <<text>>]
           Noted(c) == [c EXCEPT !.comments[commentBefore] = <<text>>]
<1>1. a = [p \in DOMAIN n |-> IF p = Here THEN Noted(n[p]) ELSE n[p]]
  BY Here \in DOMAIN n, n = [p \in DOMAIN n |-> n[p]] DEF Here, Tree
<1> HIDE DEF a
<1>2. ASSUME NEW c, NodeOK(c) PROVE NodeOK(Noted(c)) /\ Noted(c).type = c.type
  <2>1. c.comments \in [Places -> Seq(Nat)] /\ commentBefore \in Places /\ <<text>> \in Seq(Nat)
    BY <1>2 DEF NodeOK, Places
  <2>2. [c.comments EXCEPT ![commentBefore] = <<text>>] \in [Places -> Seq(Nat)]
    BY <2>1
  <2> DEFINE d == [c.comments EXCEPT ![commentBefore] = <<text>>]
  <2>3. Noted(c) = [c EXCEPT !.comments = d]
    BY DEF d
  <2> HIDE DEF d, Noted
  <2>4. d \in [Places -> Seq(Nat)]
    BY <2>2 DEF d
  <2> QED BY <1>2, <2>3, <2>4 DEF NodeOK
<1>3. \A p \in DOMAIN n : NodeOK(n[p])
  BY DEF Tree
<1> HIDE DEF Noted
<1>4. DOMAIN a = DOMAIN n /\ \A p \in DOMAIN n : NodeOK(a[p]) /\ a[p].type = n[p].type
  BY <1>1, <1>2, <1>3
<1>5. ASSUME NEW p \in Tracks, NEW k \in Int, Then(p, Step(k)) \in DOMAIN a
      PROVE  p \in DOMAIN a /\ Branch(a[p], k)
  BY <1>1, <1>4, <1>5 DEF Tree, Branch
<1>6. Tree(a)
  BY <1>1, <1>4, <1>5 DEF Tree
<1> QED BY <1>6 DEF a

\* get copies a child or the default.
LEMMA GetWellFormed ==
  ASSUME NEW n, Tree(n), NEW k \in Int, NEW default, Tree(default)
  PROVE  Tree(Get(n, k, default))
<1>1. isMember(n, k) => Tree(At(n, <<k>>))
  BY ChildWellFormed DEF Step
<1>2. Tree(IF isMember(n, k) THEN At(n, <<k>>) ELSE default)
  BY <1>1
<1> QED BY <1>2, CopyWellFormed DEF Get

-----------------------------------------------------------------------------
(***************************************************************************)
(* Nodes seen from other nodes.                                            *)
(***************************************************************************)

\* Two nodes with the same below them are the same.
LEMMA SameBelow ==
  ASSUME NEW a, DOMAIN a \subseteq Tracks, NEW b, DOMAIN b \subseteq Tracks,
         NEW p \in Tracks, NEW q \in Tracks,
         \A r \in Tracks : /\ Then(p, r) \in DOMAIN a <=> Then(q, r) \in DOMAIN b
                           /\ Then(p, r) \in DOMAIN a => a[Then(p, r)] = b[Then(q, r)]
  PROVE  At(a, p) = At(b, q)
<1> DEFINE D == {r \in Tracks : Then(p, r) \in DOMAIN a}
           E == {r \in Tracks : Then(q, r) \in DOMAIN b}
<1>1. At(a, p) = [r \in D |-> a[Then(p, r)]]
  BY AtIs
<1>2. At(b, q) = [r \in E |-> b[Then(q, r)]]
  BY AtIs
<1>3. D = E
  OBVIOUS
<1>4. \A r \in D : a[Then(p, r)] = b[Then(q, r)]
  OBVIOUS
<1> HIDE DEF D, E
<1> QED BY <1>1, <1>2, <1>3, <1>4

\* In what was put at p one finds what it had.
LEMMA AtPut ==
  ASSUME NEW n, Tree(n), NEW m, Tree(m), NEW p \in Tracks, NEW q \in Tracks
  PROVE  At(Put(n, p, m), Then(p, q)) = At(m, q)
<1> DEFINE a == Put(n, p, m)
<1>1. DOMAIN n \subseteq Tracks /\ DOMAIN m \subseteq Tracks /\ Then(p, q) \in Tracks
  BY Root, Joining
<1>2. /\ DOMAIN a \subseteq Tracks
      /\ \A r \in Tracks : /\ Then(p, r) \in DOMAIN a <=> r \in DOMAIN m
                           /\ r \in DOMAIN m => a[Then(p, r)] = m[r]
  BY <1>1, PutIs
<1> HIDE DEF a
<1>3. ASSUME NEW r \in Tracks
      PROVE  /\ Then(Then(p, q), r) \in DOMAIN a <=> Then(q, r) \in DOMAIN m
             /\ Then(Then(p, q), r) \in DOMAIN a => a[Then(Then(p, q), r)] = m[Then(q, r)]
  <2>1. Then(Then(p, q), r) = Then(p, Then(q, r)) /\ Then(q, r) \in Tracks
    BY Joining
  <2> QED BY <1>2, <2>1
<1>4. At(a, Then(p, q)) = At(m, q)
  BY <1>1, <1>2, <1>3, SameBelow
<1> QED BY <1>4 DEF a

LEMMA AtAt ==
  ASSUME NEW n, Tree(n), NEW p \in Tracks, NEW q \in Tracks
  PROVE  At(At(n, p), q) = At(n, Then(p, q))
<1> DEFINE a == At(n, p)
<1>1. DOMAIN n \subseteq Tracks /\ Then(p, q) \in Tracks
  BY Root, Joining
<1>2. /\ a = [r \in {r \in Tracks : Then(p, r) \in DOMAIN n} |-> n[Then(p, r)]]
      /\ DOMAIN a = {r \in Tracks : Then(p, r) \in DOMAIN n}
  BY <1>1, AtIs
<1> HIDE DEF a
<1>3. ASSUME NEW r \in Tracks
      PROVE  /\ Then(q, r) \in DOMAIN a <=> Then(Then(p, q), r) \in DOMAIN n
             /\ Then(q, r) \in DOMAIN a => a[Then(q, r)] = n[Then(Then(p, q), r)]
  <2>1. Then(Then(p, q), r) = Then(p, Then(q, r)) /\ Then(q, r) \in Tracks
    BY Joining
  <2> QED BY <1>2, <2>1
<1> DEFINE s == Then(p, q)
<1>4. s \in Tracks /\ DOMAIN a \subseteq Tracks
  BY <1>1, <1>2
<1> HIDE DEF s
<1>5. \A r \in Tracks : /\ Then(q, r) \in DOMAIN a <=> Then(s, r) \in DOMAIN n
                        /\ Then(q, r) \in DOMAIN a => a[Then(q, r)] = n[Then(s, r)]
  BY <1>3 DEF s
<1>6. At(a, q) = At(n, s)
  BY <1>1, <1>4, <1>5, SameBelow
<1> QED BY <1>6 DEF a, s

LEMMA AtHere ==
  ASSUME NEW n, Tree(n)
  PROVE  At(n, Here) = n
<1> DEFINE D == {r \in Tracks : Then(Here, r) \in DOMAIN n}
<1>1. DOMAIN n \subseteq Tracks /\ Here \in Tracks /\ n = [p \in DOMAIN n |-> n[p]]
  BY Joining DEF Tree
<1>2. At(n, Here) = [r \in D |-> n[Then(Here, r)]]
  BY <1>1, AtIs
<1>3. \A r \in Tracks : Then(Here, r) = r
  BY Joining
<1>4. D = DOMAIN n
  BY <1>1, <1>3
<1>5. \A r \in D : n[Then(Here, r)] = n[r]
  BY <1>3
<1> HIDE DEF D
<1> QED BY <1>1, <1>2, <1>4, <1>5

\* The type of a node.
LEMMA TypeAt ==
  ASSUME NEW n, Tree(n), NEW p \in DOMAIN n
  PROVE  type_(At(n, p)) = n[p].type
<1>1. p \in Tracks /\ Then(p, Here) = p /\ Here \in Tracks /\ DOMAIN n \subseteq Tracks
  BY Root, Joining
<1> DEFINE D == {r \in Tracks : Then(p, r) \in DOMAIN n}
<1>2. At(n, p) = [q \in D |-> n[Then(p, q)]]
  BY <1>1, AtIs
<1>4. Here \in D
  BY <1>1
<1> HIDE DEF D
<1>3. At(n, p)[Here] = n[p]
  BY <1>1, <1>2, <1>4
<1> QED BY <1>3 DEF type_, Here

-----------------------------------------------------------------------------
(***************************************************************************)
(* Paths that are made.                                                    *)
(***************************************************************************)

ArgsOK(args) ==
  /\ args \in Seq([kind : {"index", "key"}, key : Int])
  /\ \A i \in DOMAIN args : args[i].kind = "index" => args[i].key \in Nat

\* The path of the first i arguments.
Way(args, i) == SubSeq(ArgKeys(args), 1, i)

LEMMA Ways ==
  ASSUME NEW args, ArgsOK(args)
  PROVE  /\ Len(args) \in Nat
         /\ \A i \in 1..Len(args) :
              /\ args[i].key \in Int /\ args[i].kind \in {"index", "key"}
              /\ args[i].kind = "index" => args[i].key \in Nat
         /\ \A i \in 0..Len(args) : Way(args, i) \in Tracks /\ Len(Way(args, i)) = i
         /\ Way(args, 0) = Here
         /\ \A i \in 1..Len(args) : Way(args, i) = Then(Way(args, i - 1), Step(args[i].key))
         /\ ArgKeys(args) = Way(args, Len(args))
<1> DEFINE keys == ArgKeys(args)
           n == Len(args)
           A == [kind : {"index", "key"}, key : Int]
<1>1. n \in Nat /\ DOMAIN args = 1..n
      /\ \A i \in 1..n : args[i] \in A /\ (args[i].kind = "index" => args[i].key \in Nat)
  <2>1. args \in Seq(A) /\ \A i \in DOMAIN args : args[i].kind = "index" => args[i].key \in Nat
    BY DEF ArgsOK
  <2> HIDE DEF A
  <2>2. n \in Nat /\ DOMAIN args = 1..n /\ \A i \in 1..n : args[i] \in A
    BY <2>1, LenProperties, ElementOfSeq
  <2> QED BY <2>1, <2>2
<1>2. keys \in Seq(Int) /\ Len(keys) = n /\ \A i \in 1..n : keys[i] = args[i].key
  <2>1. keys = [i \in 1..n |-> args[i].key]
    BY <1>1 DEF ArgKeys
  <2>2. \A i \in 1..n : args[i].key \in Int
    BY <1>1
  <2> HIDE DEF keys, n
  <2>3. keys \in [1..n -> Int]
    BY <2>1, <2>2
  <2> QED BY <1>1, <2>1, <2>3
<1> HIDE DEF keys, n
<1>3. ASSUME NEW i \in 0..n
      PROVE  /\ SubSeq(keys, 1, i) \in Seq(Int) /\ Len(SubSeq(keys, 1, i)) = i
             /\ \A j \in 1..i : SubSeq(keys, 1, i)[j] = keys[j]
  BY <1>1, <1>2
<1>4. SubSeq(keys, 1, 0) = <<>>
  BY <1>1, <1>3
<1>5. ASSUME NEW i \in 1..n
      PROVE  SubSeq(keys, 1, i) = Then(SubSeq(keys, 1, i - 1), Step(keys[i]))
  <2>1. 1 \in 1..Len(keys) /\ i \in 1..Len(keys)
    BY <1>1, <1>2
  <2>2. SubSeq(keys, 1, i) = SubSeq(keys, 1, i - 1) \o <<keys[i]>>
    BY <1>2, <2>1, SubSeqRecursiveSecond
  <2> QED BY <2>2 DEF Then, Step
<1>6. SubSeq(keys, 1, n) = keys
  BY <1>2, SubSeqFull
<1>7. \A i \in 0..n : Way(args, i) = SubSeq(keys, 1, i)
  BY DEF Way, keys
<1>8. n \in 0..n /\ 0 \in 0..n /\ \A i \in 1..n : i \in 0..n /\ i - 1 \in 0..n
  BY <1>1
<1>9. \A i \in 0..n : Way(args, i) \in Tracks /\ Len(Way(args, i)) = i
  BY <1>3, <1>7 DEF Tracks
<1>10. Way(args, 0) = Here /\ ArgKeys(args) = Way(args, n)
  BY <1>4, <1>6, <1>7, <1>8 DEF Here, keys
<1>11. \A i \in 1..n : Way(args, i) = Then(Way(args, i - 1), Step(args[i].key))
  BY <1>2, <1>5, <1>7, <1>8
<1> QED BY <1>1, <1>9, <1>10, <1>11 DEF n

\* One argument of make, at a node that fits it.
LEMMA MakeStep ==
  ASSUME NEW v, Tree(v), NEW w \in DOMAIN v, NEW type \in Containers, NEW k \in Int,
         type_(At(v, w)) \in {nullValue, type}, type = arrayValue => k \in Nat
  PROVE  LET new == Put(v, w, WithChild(Opened(At(v, w), type), k))
         IN /\ Tree(new) /\ Then(w, Step(k)) \in DOMAIN new
            /\ DOMAIN v \subseteq DOMAIN new /\ new[w].type = type
            /\ \A r \in DOMAIN v : new[r] = v[r] \/ (r = w /\ v[w].type = nullValue)
            /\ At(new, Then(w, Step(k))) = Child(At(v, w), k)
<1> DEFINE a == At(v, w)
           o == Opened(a, type)
           c == WithChild(o, k)
           new == Put(v, w, c)
<1>1. w \in Tracks /\ DOMAIN v \subseteq Tracks /\ Here \in Tracks /\ Step(k) \in Tracks
      /\ Then(w, Here) = w /\ Then(Here, Step(k)) = Step(k)
  BY Root, Joining
<1>2. Tree(a)
  BY AtWellFormed
<1>3. Tree(o) /\ type_(o) = type /\ DOMAIN o = DOMAIN a
  BY <1>2, OpenedWellFormed
<1>4. Branch(o[Here], k)
  BY <1>3, Root DEF Branch
<1>5. /\ Tree(c) /\ type_(c) = type /\ DOMAIN c = DOMAIN o \cup {Step(k)}
      /\ \A q \in DOMAIN o : c[q] = o[q]
  BY <1>3, <1>4, WithChildWellFormed
<1>6. type_(a) # nullValue => o = a
  BY DEF Opened
<1>7. type_(a) = nullValue => DOMAIN a = {Here}
  BY <1>2, LeafIsRoot DEF Containers, nullValue, arrayValue, objectValue
<1>8. /\ DOMAIN a = {r \in Tracks : Then(w, r) \in DOMAIN v}
      /\ \A r \in DOMAIN a : a[r] = v[Then(w, r)]
  <2>1. /\ a = [q \in {r \in Tracks : Then(w, r) \in DOMAIN v} |-> v[Then(w, q)]]
        /\ DOMAIN a = {r \in Tracks : Then(w, r) \in DOMAIN v}
    BY <1>1, AtIs
  <2> HIDE DEF a
  <2> QED BY <2>1
<1>16. c = IF isMember(o, k) THEN o ELSE Put(o, Step(k), Null)
  BY DEF WithChild, Step
<1>9. Child(a, k) = At(c, Step(k))
  <2>1. CASE Step(k) \in DOMAIN a
    <3> HIDE DEF a, o, c
    <3>4. Step(k) # Here
      BY k \in Int, Joining
    <3>1. type_(a) # nullValue /\ o = a
      BY <1>6, <1>7, <2>1, <3>4
    <3>2. c = o
      BY <1>3, <1>16, <2>1, ChildWellFormed
    <3> QED BY <1>2, <2>1, <3>1, <3>2, ChildWellFormed
  <2>2. CASE Step(k) \notin DOMAIN a
    <3>1. Child(a, k) = Null
      BY <1>2, <2>2, ChildWellFormed DEF Child
    <3>2. c = Put(o, Step(k), Null)
      BY <1>3, <1>16, <2>2, ChildWellFormed
    <3>3. Then(Step(k), Here) = Step(k) /\ Tree(Null)
      BY <1>1, Joining, NullWellFormed
    <3>4. At(Put(o, Step(k), Null), Then(Step(k), Here)) = At(Null, Here)
      BY <1>1, <1>3, <3>3, AtPut
    <3> QED BY <3>1, <3>2, <3>3, <3>4, AtHere
  <2> QED BY <2>1, <2>2
<1> HIDE DEF a, o, c
<1>10. Tree(new)
  BY <1>1, <1>5, PutWellFormed DEF Held
<1>11. At(new, Then(w, Step(k))) = Child(a, k)
  BY <1>1, <1>5, <1>9, AtPut
<1>12. /\ \A q \in Tracks :
            /\ Then(w, q) \in DOMAIN new <=> q \in DOMAIN c
            /\ q \in DOMAIN c => new[Then(w, q)] = c[q]
       /\ \A r \in Tracks : ~Under(w, r) =>
            /\ r \in DOMAIN new <=> r \in DOMAIN v
            /\ r \in DOMAIN v => new[r] = v[r]
  <2>1. DOMAIN c \subseteq Tracks
    BY <1>5, Root
  <2>2. DOMAIN v \subseteq Tracks /\ w \in Tracks
    BY <1>1
  <2> QED BY <2>1, <2>2, PutReads
<1> HIDE DEF new
<1>13. Then(w, Step(k)) \in DOMAIN new
  BY <1>1, <1>5, <1>12
<1>14. new[w].type = type
  <2>1. Here \in DOMAIN c /\ c[Here].type = type
    BY <1>5, Root
  <2> QED BY <1>1, <1>12, <2>1
<1>17. type_(a) = v[w].type
  BY TypeAt DEF a
<1>15. ASSUME NEW r \in DOMAIN v
       PROVE  /\ r \in DOMAIN new
              /\ new[r] = v[r] \/ (r = w /\ v[w].type = nullValue)
  <2>1. CASE Under(w, r)
    <3> DEFINE q == Behind(w, r)
    <3>1. q \in Tracks /\ r = Then(w, q)
      BY <1>1, <2>1, Unders
    <3> HIDE DEF q
    <3>2. q \in DOMAIN a /\ q \in DOMAIN c /\ new[r] = c[q] /\ r \in DOMAIN new /\ c[q] = o[q]
      BY <1>3, <1>5, <1>8, <1>12, <3>1
    <3>3. r # w => q # Here
      BY <1>1, <3>1
    <3>4. r # w => o = a
      BY <1>6, <1>7, <3>2, <3>3
    <3>5. v[w].type # nullValue => o = a
      BY <1>6, <1>17
    <3> QED BY <1>8, <3>1, <3>2, <3>4, <3>5
  <2>2. CASE ~Under(w, r)
    BY <1>1, <1>12, <2>2
  <2> QED BY <2>1, <2>2
<1> QED BY <1>10, <1>11, <1>13, <1>14, <1>15 DEF new, a, o, c

-----------------------------------------------------------------------------
\* The values, as a set.
NodeType == [type : ValueTypes, v : Int, heap : BOOLEAN, comments : [Places -> Seq(Nat)]]
Values == {v \in UNION {[D -> NodeType] : D \in SUBSET Tracks} : Tree(v)}

LEMMA ValuesAre == \A v : v \in Values <=> Tree(v)
<1>1. ASSUME NEW v, Tree(v) PROVE v \in Values
  <2>1. v \in [DOMAIN v -> NodeType] /\ DOMAIN v \in SUBSET Tracks
    BY <1>1 DEF Tree, NodeOK, NodeType
  <2> HIDE DEF NodeType
  <2> QED BY <1>1, <2>1 DEF Values
<1> QED BY <1>1 DEF Values

\* One argument in the loops of resolve.
Resolved(s, arg) ==
  IF s.outcome # "found" THEN s
  ELSE IF ~Fits(s.node, arg) THEN Asserts
  ELSE Found(Child(s.node, arg.key))
ResolvedOr(s, arg) ==
  IF s.outcome # "found" THEN s
  ELSE IF Refused(s.node, arg) THEN Default
  ELSE Found(Child(s.node, arg.key))

Reached == {Found(v) : v \in Values} \cup {Asserts, Default}

LEMMA ReachedAre ==
  /\ \A v : Tree(v) => Found(v) \in Reached
  /\ \A v : Found(v).outcome = "found" /\ Found(v).node = v
  /\ \A s \in Reached : s.outcome = "found" => Tree(s.node) /\ s = Found(s.node)
  /\ \A s \in Reached : \A arg : arg.key \in Int =>
       Resolved(s, arg) \in Reached /\ ResolvedOr(s, arg) \in Reached
<1>1. \A v : Tree(v) => Found(v) \in Reached
  BY ValuesAre DEF Reached
<1>2. \A v : Found(v).outcome = "found" /\ Found(v).node = v
  BY DEF Found
<1>3. Asserts.outcome # "found" /\ Default.outcome # "found"
  BY DEF Asserts, Default
<1>4. \A s \in Reached : s.outcome = "found" => Tree(s.node) /\ s = Found(s.node)
  <2> HIDE DEF Found, Asserts, Default, Values
  <2> QED BY <1>2, <1>3, ValuesAre DEF Reached
<1>5. ASSUME NEW s \in Reached, NEW arg, arg.key \in Int
      PROVE  Resolved(s, arg) \in Reached /\ ResolvedOr(s, arg) \in Reached
  <2>1. Asserts \in Reached /\ Default \in Reached
    BY DEF Reached
  <2>2. s.outcome = "found" => Found(Child(s.node, arg.key)) \in Reached
    BY <1>1, <1>4, <1>5, ChildWellFormed
  <2> QED BY <2>1, <2>2 DEF Resolved, ResolvedOr
<1> QED BY <1>1, <1>2, <1>4, <1>5

\* The loop of resolve.
LEMMA ResolveIs ==
  ASSUME NEW root, Tree(root), NEW args, ArgsOK(args)
  PROVE  \E f : /\ f[0] = Found(root) /\ Resolve(root, args) = f[Len(args)]
                /\ \A i \in 1..Len(args) : f[i] = Resolved(f[i - 1], args[i])
                /\ \A i \in 0..Len(args) : f[i] \in Reached
<1> DEFINE n == Len(args)
           X == Reached
           x0 == Found(root)
           To == [i \in 1..n |-> [s \in X |-> Resolved(s, args[i])]]
           Is(g) == g = [i \in 0..n |-> IF i = 0 THEN x0 ELSE Resolved(g[i - 1], args[i])]
<1>1. n \in Nat /\ \A i \in 1..n : args[i].key \in Int
  BY Ways
<1>2. x0 \in X
  BY ReachedAre
<1>3. To \in [1..n -> [X -> X]]
  <2>1. \A i \in 1..n, s \in X : Resolved(s, args[i]) \in X
    BY <1>1, ReachedAre
  <2> HIDE DEF X
  <2> QED BY <2>1
<1> HIDE DEF X, n, x0
<1>4. PICK f \in [0..n -> X] : f[0] = x0 /\ \A i \in 1..n : f[i] = To[i][f[i - 1]]
  <2>1. n \in Nat
    BY <1>1
  <2> HIDE DEF To
  <2>2. \E f \in [0..n -> X] : f[0] = x0 /\ \A i \in 1..n : f[i] = To[i][f[i - 1]]
    BY <1>2, <1>3, <2>1, Recursion
  <2> QED BY <2>2
<1>5. Is(f)
  <2>1. ASSUME NEW i \in 1..n PROVE f[i] = Resolved(f[i - 1], args[i])
    <3>1. f[i - 1] \in X /\ f[i] = To[i][f[i - 1]]
      BY <1>1, <1>4
    <3> QED BY <3>1
  <2> QED BY <1>1, <1>4, <2>1
<1>6. PICK g : Is(g) /\ Resolve(root, args) = g[n]
  BY <1>5 DEF Resolve, Resolved, n, x0
<1>7. g[0] = x0 /\ \A i \in 1..n : g[i] = Resolved(g[i - 1], args[i])
  BY <1>1, <1>6
<1> DEFINE S == {i \in 0..n : g[i] \in X}
<1>8. \A i \in 0..n : i \in S
  <2>1. 0 \in S
    BY <1>1, <1>2, <1>7
  <2>2. \A i \in 1..n : i - 1 \in S => i \in S
    BY <1>1, <1>7, ReachedAre DEF X
  <2> HIDE DEF S
  <2> QED BY <1>1, <2>1, <2>2, UpTo
<1> QED BY <1>6, <1>7, <1>8 DEF n, x0, X

\* The loop of resolve with a default.
LEMMA ResolveOrIs ==
  ASSUME NEW root, Tree(root), NEW args, ArgsOK(args)
  PROVE  \E f : /\ f[0] = Found(root) /\ ResolveOr(root, args) = f[Len(args)]
                /\ \A i \in 1..Len(args) : f[i] = ResolvedOr(f[i - 1], args[i])
<1> DEFINE n == Len(args)
           X == Reached
           x0 == Found(root)
           To == [i \in 1..n |-> [s \in X |-> ResolvedOr(s, args[i])]]
           Is(g) == g = [i \in 0..n |-> IF i = 0 THEN x0 ELSE ResolvedOr(g[i - 1], args[i])]
<1>1. n \in Nat /\ \A i \in 1..n : args[i].key \in Int
  BY Ways
<1>2. x0 \in X
  BY ReachedAre
<1>3. To \in [1..n -> [X -> X]]
  <2>1. \A i \in 1..n, s \in X : ResolvedOr(s, args[i]) \in X
    BY <1>1, ReachedAre
  <2> HIDE DEF X
  <2> QED BY <2>1
<1> HIDE DEF X, n, x0
<1>4. PICK f \in [0..n -> X] : f[0] = x0 /\ \A i \in 1..n : f[i] = To[i][f[i - 1]]
  <2>1. n \in Nat
    BY <1>1
  <2> HIDE DEF To
  <2>2. \E f \in [0..n -> X] : f[0] = x0 /\ \A i \in 1..n : f[i] = To[i][f[i - 1]]
    BY <1>2, <1>3, <2>1, Recursion
  <2> QED BY <2>2
<1>5. Is(f)
  <2>1. ASSUME NEW i \in 1..n PROVE f[i] = ResolvedOr(f[i - 1], args[i])
    <3>1. f[i - 1] \in X /\ f[i] = To[i][f[i - 1]]
      BY <1>1, <1>4
    <3> QED BY <3>1
  <2> QED BY <1>1, <1>4, <2>1
<1>6. PICK g : Is(g) /\ ResolveOr(root, args) = g[n]
  BY <1>5 DEF ResolveOr, ResolvedOr, n, x0
<1>7. g[0] = x0 /\ \A i \in 1..n : g[i] = ResolvedOr(g[i - 1], args[i])
  BY <1>1, <1>6
<1> QED BY <1>6, <1>7 DEF n, x0

\* A path that can be made resolves to a node at each argument.
LEMMA CanMakeIs ==
  ASSUME NEW root, Tree(root), NEW args, ArgsOK(args), CanMake(root, args)
  PROVE  \E g : /\ g[0] = root /\ \A i \in 0..Len(args) : Tree(g[i])
                /\ \A i \in 1..Len(args) : /\ Fits(g[i - 1], args[i])
                                           /\ g[i] = Child(g[i - 1], args[i].key)
<1> DEFINE n == Len(args)
<1>1. n \in Nat
  BY Ways
<1>2. PICK f : /\ f[0] = Found(root) /\ Resolve(root, args) = f[n]
               /\ \A i \in 1..n : f[i] = Resolved(f[i - 1], args[i])
               /\ \A i \in 0..n : f[i] \in Reached
  BY ResolveIs
<1>3. f[n].outcome = "found"
  BY <1>2 DEF CanMake
<1>4. \A i \in 1..n : f[i].outcome = "found" => f[i - 1].outcome = "found" /\ Fits(f[i - 1].node, args[i])
                                      /\ f[i] = Found(Child(f[i - 1].node, args[i].key))
  BY <1>2 DEF Resolved, Asserts
<1> HIDE DEF n
<1> DEFINE S == {j \in 0..n : f[n - j].outcome = "found"}
<1>5. \A j \in 0..n : j \in S
  <2>1. 0 \in S
    BY <1>1, <1>3
  <2>2. ASSUME NEW j \in 1..n, j - 1 \in S PROVE j \in S
    <3>1. n - (j - 1) \in 1..n /\ (n - (j - 1)) - 1 = n - j
      BY <1>1
    <3> QED BY <1>4, <2>2, <3>1
  <2> HIDE DEF S
  <2> QED BY <1>1, <2>1, <2>2, UpTo
<1>6. ASSUME NEW i \in 0..n PROVE f[i].outcome = "found"
  <2>1. n - i \in 0..n /\ n - (n - i) = i
    BY <1>1
  <2> QED BY <1>5, <2>1
<1> DEFINE g == [i \in 0..n |-> f[i].node]
<1>7. g[0] = root
  BY <1>1, <1>2, ReachedAre
<1>8. \A i \in 0..n : Tree(g[i])
  BY <1>2, <1>6, ReachedAre
<1>9. ASSUME NEW i \in 1..n PROVE Fits(g[i - 1], args[i]) /\ g[i] = Child(g[i - 1], args[i].key)
  <2>1. i \in 0..n /\ i - 1 \in 0..n
    BY <1>1
  <2>2. g[i] = f[i].node /\ g[i - 1] = f[i - 1].node
    BY <2>1
  <2> HIDE DEF g
  <2> QED BY <1>4, <1>6, <2>1, <2>2, ReachedAre
<1> HIDE DEF g
<1> QED BY <1>7, <1>8, <1>9 DEF n

\* One argument in the loop of make.
MakeOne(v, args, i) ==
  Put(v, Way(args, i - 1),
      WithChild(Opened(At(v, Way(args, i - 1)), ContainerOf(args[i])), args[i].key))

\* What the first i arguments may change of a value.
Kept_(root, v, args, i) ==
  \A r \in DOMAIN root :
    /\ r \in DOMAIN v
    /\ v[r] = root[r] \/ (root[r].type = nullValue /\ \E j \in 1..i : r = Way(args, j - 1))

\* What i arguments have made of a value that resolves to g: the node that
\* they lead to, and a container of the right kind at each of them.
MadeSoFar(v, args, g, i) ==
  /\ Kept_(g[0], v, args, i)
  /\ Tree(v) /\ Way(args, i) \in DOMAIN v /\ At(v, Way(args, i)) = g[i]
  /\ \A j \in 1..i : Way(args, j - 1) \in DOMAIN v /\ v[Way(args, j - 1)].type = ContainerOf(args[j])

LEMMA MakeOneMakes ==
  ASSUME NEW args, ArgsOK(args), NEW g, NEW i \in 1..Len(args), NEW v,
         Tree(g[i - 1]), Fits(g[i - 1], args[i]), g[i] = Child(g[i - 1], args[i].key),
         MadeSoFar(v, args, g, i - 1)
  PROVE  MadeSoFar(MakeOne(v, args, i), args, g, i)
<1> DEFINE w == Way(args, i - 1)
           k == args[i].key
           type == ContainerOf(args[i])
           new == MakeOne(v, args, i)
<1>1. /\ k \in Int /\ args[i].kind \in {"index", "key"} /\ (args[i].kind = "index" => k \in Nat)
      /\ Way(args, i) = Then(w, Step(k)) /\ Len(args) \in Nat
      /\ \A j \in 0..Len(args) : Len(Way(args, j)) = j
  BY Ways
<1>2. Tree(v) /\ w \in DOMAIN v /\ At(v, w) = g[i - 1]
  BY DEF MadeSoFar
<1>3. type \in Containers /\ type_(At(v, w)) \in {nullValue, type} /\ (type = arrayValue => k \in Nat)
  BY <1>1, <1>2 DEF ContainerOf, Fits, isArray, isObject, Containers, arrayValue, objectValue
<1>4. new = Put(v, w, WithChild(Opened(At(v, w), type), k))
  BY DEF MakeOne
<1> HIDE DEF w, k, type, new
<1>5. /\ Tree(new) /\ Then(w, Step(k)) \in DOMAIN new
      /\ DOMAIN v \subseteq DOMAIN new /\ new[w].type = type
      /\ \A r \in DOMAIN v : new[r] = v[r] \/ (r = w /\ v[w].type = nullValue)
      /\ At(new, Then(w, Step(k))) = Child(At(v, w), k)
  <2> DEFINE put == Put(v, w, WithChild(Opened(At(v, w), type), k))
  <2>1. /\ Tree(put) /\ Then(w, Step(k)) \in DOMAIN put
        /\ DOMAIN v \subseteq DOMAIN put /\ put[w].type = type
        /\ \A r \in DOMAIN v : put[r] = v[r] \/ (r = w /\ v[w].type = nullValue)
        /\ At(put, Then(w, Step(k))) = Child(At(v, w), k)
    BY <1>1, <1>2, <1>3, MakeStep
  <2> HIDE DEF put
  <2>2. new = put
    BY <1>4 DEF put
  <2> QED BY <2>1, <2>2
<1>6. Tree(new) /\ Way(args, i) \in DOMAIN new /\ At(new, Way(args, i)) = g[i]
  BY <1>1, <1>2, <1>5 DEF k
<1>7. ASSUME NEW j \in 1..i
      PROVE  Way(args, j - 1) \in DOMAIN new /\ new[Way(args, j - 1)].type = ContainerOf(args[j])
  <2>1. CASE j = i
    BY <1>2, <1>5, <2>1 DEF w, type
  <2>2. CASE j # i
    <3>1. j \in 1..(i - 1) /\ j - 1 \in 0..Len(args) /\ i - 1 \in 0..Len(args) /\ j - 1 # i - 1
      BY <1>1, <2>2
    <3>2. Way(args, j - 1) # w
      BY <1>1, <3>1 DEF w
    <3>3. Way(args, j - 1) \in DOMAIN v /\ v[Way(args, j - 1)].type = ContainerOf(args[j])
      BY <3>1 DEF MadeSoFar
    <3> QED BY <1>5, <3>2, <3>3
  <2> QED BY <2>1, <2>2
<1>8. Kept_(g[0], v, args, i - 1)
  BY DEF MadeSoFar
<1>9. ASSUME NEW r \in DOMAIN g[0]
      PROVE  /\ r \in DOMAIN new
             /\ \/ new[r] = g[0][r]
                \/ g[0][r].type = nullValue /\ \E j \in 1..i : r = Way(args, j - 1)
  <2>1. /\ r \in DOMAIN v
        /\ \/ v[r] = g[0][r]
           \/ g[0][r].type = nullValue /\ \E j \in 1..(i - 1) : r = Way(args, j - 1)
    BY <1>8 DEF Kept_
  <2>2. i \in 1..i /\ \A j \in 1..(i - 1) : j \in 1..i
    BY <1>1
  <2>3. CASE \E j \in 1..(i - 1) : r = Way(args, j - 1) /\ g[0][r].type = nullValue
    BY <1>5, <2>1, <2>2, <2>3
  <2>4. CASE v[r] = g[0][r]
    <3>1. new[r] = v[r] \/ (r = Way(args, i - 1) /\ v[r].type = nullValue)
      BY <1>5, <2>1 DEF w
    <3> QED BY <1>5, <2>1, <2>2, <2>4, <3>1
  <2> QED BY <2>1, <2>3, <2>4
<1>10. Kept_(g[0], new, args, i)
  BY <1>9 DEF Kept_
<1> QED BY <1>6, <1>7, <1>10 DEF MadeSoFar, new

\* The loop of make.
LEMMA MadeIs ==
  ASSUME NEW root, Tree(root), NEW args, ArgsOK(args), CanMake(root, args)
  PROVE  LET made == Made(root, args)
         IN /\ Tree(made)
            /\ \A i \in 0..Len(args) : Way(args, i) \in DOMAIN made
            /\ \A i \in 1..Len(args) : made[Way(args, i - 1)].type = ContainerOf(args[i])
            /\ Kept_(root, made, args, Len(args))
<1> DEFINE n == Len(args)
           X == Values
           To == [i \in 1..n |-> [v \in X |-> IF Tree(MakeOne(v, args, i)) THEN MakeOne(v, args, i) ELSE v]]
           Is(f) == f = [i \in 0..n |-> IF i = 0 THEN root ELSE MakeOne(f[i - 1], args, i)]
<1>1. n \in Nat
  BY Ways
<1>2. PICK g : /\ g[0] = root /\ \A i \in 0..n : Tree(g[i])
               /\ \A i \in 1..n : Fits(g[i - 1], args[i]) /\ g[i] = Child(g[i - 1], args[i].key)
  BY CanMakeIs
<1> DEFINE Made_(v, i) == MadeSoFar(v, args, g, i)
<1>3. Made_(root, 0)
  <2>1. Way(args, 0) = Here /\ Here \in DOMAIN root /\ At(root, Here) = root
    BY Ways, Root, AtHere
  <2>2. Kept_(root, root, args, 0)
    BY DEF Kept_
  <2> QED BY <1>2, <2>1, <2>2 DEF MadeSoFar
<1>4. ASSUME NEW i \in 1..n, NEW v, Made_(v, i - 1) PROVE Made_(MakeOne(v, args, i), i)
  <2>1. i - 1 \in 0..n
    BY <1>1
  <2> QED BY <1>2, <1>4, <2>1, MakeOneMakes
<1>5. \A v, i : Made_(v, i) => Tree(v)
  BY DEF MadeSoFar
<1>6. To \in [1..n -> [X -> X]]
  <2>1. \A i \in 1..n, v \in X : (IF Tree(MakeOne(v, args, i)) THEN MakeOne(v, args, i) ELSE v) \in X
    BY ValuesAre
  <2> HIDE DEF X
  <2> QED BY <2>1
<1>7. root \in X
  BY ValuesAre
<1> HIDE DEF X, n, Made_
<1>8. PICK f \in [0..n -> X] : f[0] = root /\ \A i \in 1..n : f[i] = To[i][f[i - 1]]
  <2> HIDE DEF To
  <2>1. \E f \in [0..n -> X] : f[0] = root /\ \A i \in 1..n : f[i] = To[i][f[i - 1]]
    BY <1>1, <1>6, <1>7, Recursion
  <2> QED BY <2>1
<1>9. ASSUME NEW i \in 1..n, Made_(f[i - 1], i - 1) PROVE f[i] = MakeOne(f[i - 1], args, i)
  <2>1. f[i - 1] \in X /\ f[i] = To[i][f[i - 1]]
    BY <1>1, <1>8
  <2>2. Tree(MakeOne(f[i - 1], args, i))
    BY <1>4, <1>5, <1>9
  <2> QED BY <2>1, <2>2
<1> DEFINE S == {i \in 0..n : Made_(f[i], i)}
<1>10. \A i \in 0..n : i \in S
  <2>1. 0 \in S
    BY <1>1, <1>3, <1>8
  <2>2. ASSUME NEW i \in 1..n, i - 1 \in S PROVE i \in S
    <3>1. Made_(f[i - 1], i - 1)
      BY <2>2
    <3>2. f[i] = MakeOne(f[i - 1], args, i) /\ Made_(f[i], i)
      BY <1>4, <1>9, <3>1
    <3> QED BY <1>1, <3>2
  <2> HIDE DEF S
  <2> QED BY <1>1, <2>1, <2>2, UpTo
<1>11. Is(f)
  <2>1. ASSUME NEW i \in 1..n PROVE f[i] = MakeOne(f[i - 1], args, i)
    <3>1. i - 1 \in S
      BY <1>1, <1>10
    <3> QED BY <1>9, <3>1
  <2> QED BY <1>1, <1>8, <2>1
<1>12. PICK h : Is(h) /\ Made(root, args) = h[n]
  BY <1>11 DEF Made, MakeOne, Way, n
<1>13. h[0] = root /\ \A i \in 1..n : h[i] = MakeOne(h[i - 1], args, i)
  BY <1>1, <1>12
<1> DEFINE T == {i \in 0..n : Made_(h[i], i)}
<1>14. \A i \in 0..n : i \in T
  <2>1. 0 \in T
    BY <1>1, <1>3, <1>13
  <2>2. ASSUME NEW i \in 1..n, i - 1 \in T PROVE i \in T
    <3>1. Made_(MakeOne(h[i - 1], args, i), i)
      BY <1>4, <2>2
    <3> QED BY <1>1, <1>13, <3>1
  <2> HIDE DEF T
  <2> QED BY <1>1, <2>1, <2>2, UpTo
<1>15. Made_(h[n], n)
  BY <1>1, <1>14
<1>16. /\ Tree(h[n]) /\ Way(args, n) \in DOMAIN h[n]
       /\ \A j \in 1..n : /\ Way(args, j - 1) \in DOMAIN h[n]
                          /\ h[n][Way(args, j - 1)].type = ContainerOf(args[j])
       /\ Kept_(root, h[n], args, n)
  BY <1>2, <1>15 DEF MadeSoFar, Made_
<1>17. ASSUME NEW i \in 0..n PROVE Way(args, i) \in DOMAIN h[n]
  <2>1. i = n \/ (i + 1 \in 1..n /\ (i + 1) - 1 = i)
    BY <1>1
  <2> QED BY <1>16, <2>1
<1> QED BY <1>12, <1>16, <1>17 DEF n

\* A made path leads, argument by argument, to what was made.
LEMMA MadeSteps ==
  ASSUME NEW made, Tree(made), NEW args, ArgsOK(args), NEW i \in 1..Len(args),
         Way(args, i - 1) \in DOMAIN made, Way(args, i) \in DOMAIN made,
         made[Way(args, i - 1)].type = ContainerOf(args[i])
  PROVE  LET before == At(made, Way(args, i - 1))
         IN /\ Fits(before, args[i]) /\ isMember(before, args[i].key)
            /\ Child(before, args[i].key) = At(made, Way(args, i))
<1> DEFINE w == Way(args, i - 1)
           k == args[i].key
           before == At(made, w)
<1>1. k \in Int /\ args[i].kind \in {"index", "key"} /\ Way(args, i) = Then(w, Step(k))
  BY Ways
<1>2. w \in Tracks /\ DOMAIN made \subseteq Tracks /\ Step(k) \in Tracks
  BY <1>1, Root, Joining
<1>3. Tree(before) /\ type_(before) = ContainerOf(args[i])
  BY AtWellFormed, TypeAt
<1>4. DOMAIN before = {r \in Tracks : Then(w, r) \in DOMAIN made}
  BY <1>2, AtIs
<1>5. At(before, Step(k)) = At(made, Then(w, Step(k)))
  BY <1>2, AtAt
<1> HIDE DEF before, w, k
<1>6. Step(k) \in DOMAIN before
  BY <1>1, <1>2, <1>4
<1>7. isMember(before, k) /\ Child(before, k) = At(made, Way(args, i))
  BY <1>1, <1>3, <1>5, <1>6, ChildWellFormed
<1>8. Fits(before, args[i])
  BY <1>1, <1>3 DEF Fits, ContainerOf, isArray, isObject
<1> QED BY <1>7, <1>8 DEF before, w, k

\* A made path is resolved, and what was there before is kept.
LEMMA MadeResolves ==
  ASSUME NEW root, Tree(root), NEW args, ArgsOK(args), CanMake(root, args)
  PROVE  LET made == Made(root, args)
             way == {SubSeq(ArgKeys(args), 1, i - 1) : i \in DOMAIN args}
         IN /\ Resolve(made, args) = Found(At(made, ArgKeys(args)))
            /\ \A p \in DOMAIN root :
                 /\ p \in DOMAIN made
                 /\ made[p] = root[p] \/ (root[p].type = nullValue /\ p \in way)
<1> DEFINE n == Len(args)
           made == Made(root, args)
           Node_(i) == At(made, Way(args, i))
<1>1. n \in Nat /\ DOMAIN args = 1..n /\ ArgKeys(args) = Way(args, n)
      /\ Way(args, 0) = Here /\ \A i \in 1..n : args[i].kind \in {"index", "key"}
  <2>1. DOMAIN args = 1..n
    BY DEF ArgsOK
  <2> QED BY <2>1, Ways
<1>2. /\ Tree(made)
      /\ \A i \in 0..n : Way(args, i) \in DOMAIN made
      /\ \A i \in 1..n : made[Way(args, i - 1)].type = ContainerOf(args[i])
      /\ Kept_(root, made, args, n)
  BY MadeIs
<1> HIDE DEF made
<1>3. Node_(0) = made
  BY <1>1, <1>2, AtHere
<1>4. ASSUME NEW i \in 1..n
      PROVE  /\ Fits(Node_(i - 1), args[i]) /\ isMember(Node_(i - 1), args[i].key)
             /\ Child(Node_(i - 1), args[i].key) = Node_(i)
  <2>1. i - 1 \in 0..n /\ i \in 0..n
    BY <1>1
  <2> QED BY <1>2, <2>1, MadeSteps
<1>5. PICK f : /\ f[0] = Found(made) /\ Resolve(made, args) = f[n]
               /\ \A i \in 1..n : f[i] = Resolved(f[i - 1], args[i])
  <2>1. \E f : /\ f[0] = Found(made) /\ Resolve(made, args) = f[Len(args)]
               /\ \A i \in 1..Len(args) : f[i] = Resolved(f[i - 1], args[i])
               /\ \A i \in 0..Len(args) : f[i] \in Reached
    BY <1>2, ResolveIs
  <2> QED BY <2>1
<1> HIDE DEF n, Node_
<1> DEFINE S == {i \in 0..n : f[i] = Found(Node_(i))}
<1>7. \A i \in 0..n : i \in S
  <2>1. 0 \in S
    BY <1>1, <1>3, <1>5
  <2>2. ASSUME NEW i \in 1..n, i - 1 \in S PROVE i \in S
    <3>1. f[i - 1] = Found(Node_(i - 1))
      BY <2>2
    <3>2. f[i] = Found(Node_(i))
      BY <1>4, <1>5, <3>1, ReachedAre DEF Resolved
    <3> QED BY <1>1, <3>2
  <2> HIDE DEF S
  <2> QED BY <1>1, <2>1, <2>2, UpTo
<1>9. n \in 0..n
  BY <1>1
<1>10. Resolve(made, args) = Found(Node_(n))
  BY <1>5, <1>7, <1>9
<1>11. \A p \in DOMAIN root :
         /\ p \in DOMAIN made
         /\ \/ made[p] = root[p]
            \/ root[p].type = nullValue /\ p \in {SubSeq(ArgKeys(args), 1, i - 1) : i \in DOMAIN args}
  BY <1>1, <1>2 DEF Kept_, Way
<1> QED BY <1>1, <1>10, <1>11 DEF made, Node_

\* What resolve finds with a default it finds without one.
LEMMA FoundAlike ==
  ASSUME NEW root, Tree(root), NEW args, ArgsOK(args), ResolveOr(root, args).outcome = "found"
  PROVE  Resolve(root, args) = ResolveOr(root, args)
<1> DEFINE n == Len(args)
<1>1. n \in Nat
  BY Ways
<1>2. PICK f : /\ f[0] = Found(root) /\ Resolve(root, args) = f[n]
               /\ \A i \in 1..n : f[i] = Resolved(f[i - 1], args[i])
  BY ResolveIs
<1>3. PICK h : /\ h[0] = Found(root) /\ ResolveOr(root, args) = h[n]
               /\ \A i \in 1..n : h[i] = ResolvedOr(h[i - 1], args[i])
  BY ResolveOrIs
<1> HIDE DEF n
<1> DEFINE S == {i \in 0..n : h[i].outcome = "found" => f[i] = h[i]}
<1>4. \A i \in 0..n : i \in S
  <2>1. 0 \in S
    BY <1>1, <1>2, <1>3
  <2>2. ASSUME NEW i \in 1..n, i - 1 \in S PROVE i \in S
    <3>1. h[i - 1].outcome = "found" => f[i - 1] = h[i - 1]
      BY <2>2
    <3>2. f[i] = Resolved(f[i - 1], args[i]) /\ h[i] = ResolvedOr(h[i - 1], args[i])
      BY <1>2, <1>3
    <3>3. Default.outcome # "found"
      BY DEF Default
    <3>4. ASSUME h[i].outcome = "found" PROVE f[i] = h[i]
      <4>1. h[i - 1].outcome = "found" /\ ~Refused(h[i - 1].node, args[i])
        BY <3>2, <3>3, <3>4 DEF ResolvedOr
      <4> QED BY <3>1, <3>2, <4>1 DEF Resolved, ResolvedOr, Refused
    <3> QED BY <1>1, <3>4
  <2> HIDE DEF S
  <2> QED BY <1>1, <2>1, <2>2, UpTo
<1>5. n \in 0..n
  BY <1>1
<1> QED BY <1>2, <1>3, <1>4, <1>5

-----------------------------------------------------------------------------
(***************************************************************************)
(* The inductive invariant: what is needed about the walk is how far it    *)
(* has come and what it has met; about the end of the program, which walk  *)
(* ran past the end.                                                       *)
(***************************************************************************)

ValuesOK == Tree(x) /\ Tree(y) /\ ref \in DOMAIN x

WalkOK ==
  /\ ~it.on => it = NoWalk
  /\ it.on => /\ it.cur \in 1..(Cardinality(Kids(node)) + 1)
              /\ it.seen = [i \in 1..(it.cur - 1) |-> Keys(node)[i]]
              /\ it.null <=> (it.assigned \/ type_(node) \notin Containers)

EndedOK ==
  /\ st \in {"running", "type assertion", "resize assertion", "overrun"}
  /\ st = "overrun" => it.on /\ it.assigned

ItType == [on : BOOLEAN, null : BOOLEAN, cur : Nat, seen : Seq(Int), assigned : BOOLEAN]

IInv == ValuesOK /\ it \in ItType /\ WalkOK /\ EndedOK

\* The node the reference leads to is a value, with finitely many children
\* whose keys are integers.
LEMMA NodeIs ==
  ASSUME ValuesOK
  PROVE  /\ ref \in Tracks /\ Tree(node)
         /\ IsFiniteSet(Kids(node)) /\ Cardinality(Kids(node)) \in Nat
         /\ \A i \in 1..Cardinality(Kids(node)) : Keys(node)[i] \in Kids(node) /\ Keys(node)[i] \in Int
         /\ Keys(node) = [i \in 1..Cardinality(Kids(node)) |-> Keys(node)[i]]
<1>1. ref \in Tracks /\ Tree(node)
  BY AtWellFormed, Root DEF ValuesOK, node
<1>2. IsFiniteSet(Kids(node)) /\ Kids(node) \in SUBSET Int
  BY <1>1, KidsAre
<1>3. Cardinality(Kids(node)) \in Nat
  BY <1>2, FS_CardinalityType
<1> DEFINE K == Kids(node)
<1>4. Keys(node) = [i \in 1..Cardinality(K) |->
                      CHOOSE k \in K : Cardinality({j \in K : j < k}) = i - 1]
  BY DEF Keys
<1>5. K \in SUBSET Int /\ IsFiniteSet(K)
  BY <1>2
<1> HIDE DEF K
<1>6. ASSUME NEW i \in 1..Cardinality(K) PROVE Keys(node)[i] \in K
  <2>1. \E k \in K : Cardinality({j \in K : j < k}) = i - 1
    BY <1>5, Ranks
  <2> QED BY <1>4, <2>1
<1>7. Keys(node) = [i \in 1..Cardinality(K) |-> Keys(node)[i]]
  <2> DEFINE rank(i) == CHOOSE k \in K : Cardinality({j \in K : j < k}) = i - 1
  <2>1. Keys(node) = [i \in 1..Cardinality(K) |-> rank(i)]
    BY <1>4
  <2> HIDE DEF rank
  <2> QED BY <2>1
<1> QED BY <1>1, <1>2, <1>3, <1>5, <1>6, <1>7 DEF K

LEMMA NoWalkIs ==
  NoWalk \in ItType /\ ~NoWalk.on
<1>1. <<>> \in Seq(Int)
  BY Joining DEF Here, Tracks
<1> QED BY <1>1 DEF NoWalk, ItType

\* The invariant after a step when no iterator is in use.
LEMMA Idle ==
  ASSUME ValuesOK', it' = NoWalk, st' \in {"running", "type assertion"}
  PROVE  IInv'
BY NoWalkIs DEF IInv, WalkOK, EndedOK

LEMMA EditingIs ==
  ASSUME IInv, Editing
  PROVE  ValuesOK /\ it = NoWalk /\ st = "running"
BY DEF IInv, WalkOK, Editing

\* A step that fails a type assertion.
LEMMA FailOK ==
  ASSUME IInv, Editing, Fail("type assertion")
  PROVE  IInv'
<1>1. ValuesOK' /\ it' = NoWalk /\ st' = "type assertion"
  BY EditingIs DEF Fail, ValuesOK
<1> QED BY <1>1, Idle

\* A value stored in the node.
LEMMA Stored ==
  ASSUME IInv, NEW n, Tree(n)
  PROVE  Tree(Put(x, ref, n)) /\ ref \in DOMAIN Put(x, ref, n)
         /\ \A k \in Tracks : k \in DOMAIN n => Then(ref, k) \in DOMAIN Put(x, ref, n)
<1>1. Tree(x) /\ ref \in DOMAIN x /\ ref \in Tracks
  BY NodeIs DEF IInv, ValuesOK
<1>2. Tree(Put(x, ref, n))
  BY <1>1, PutWellFormed DEF Held
<1>3. DOMAIN x \subseteq Tracks /\ DOMAIN n \subseteq Tracks /\ Here \in DOMAIN n
      /\ Here \in Tracks /\ Then(ref, Here) = ref
  BY <1>1, Root, Joining
<1>4. \A k \in Tracks : k \in DOMAIN n => Then(ref, k) \in DOMAIN Put(x, ref, n)
  BY <1>1, <1>3, PutIs
<1> QED BY <1>2, <1>3, <1>4

LEMMA StoreOK ==
  ASSUME IInv, Editing, NEW n, Tree(n), Store(n)
  PROVE  IInv'
<1>1. ValuesOK' /\ it' = NoWalk /\ st' = "running"
  BY EditingIs, Stored DEF Store, ValuesOK
<1> QED BY <1>1, Idle

LEMMA StoreAndEnterOK ==
  ASSUME IInv, Editing, NEW n, Tree(n), NEW k \in Int, Step(k) \in DOMAIN n, StoreAndEnter(n, k)
  PROVE  IInv'
<1>1. ref \in Tracks /\ Step(k) \in Tracks /\ ValuesOK
  BY EditingIs, NodeIs, Joining
<1>2. Append(ref, k) = Then(ref, Step(k))
  BY <1>1, AppendIsConcat DEF Tracks, Then, Step
<1>3. ValuesOK' /\ it' = NoWalk /\ st' = "running"
  BY <1>1, <1>2, EditingIs, Stored DEF StoreAndEnter, ValuesOK
<1> QED BY <1>3, Idle

-----------------------------------------------------------------------------
(***************************************************************************)
(* The actions, one by one.                                                *)
(***************************************************************************)

LEMMA SubscriptOK ==
  ASSUME IInv, NEW i \in 0..MaxIndex, Subscript(i)
  PROVE  IInv'
<1>1. Editing /\ Tree(node)
  BY EditingIs, NodeIs DEF Subscript
<1>2. CASE isArray(node)
  <2> DEFINE wide == WithChild(Opened(node, arrayValue), i)
  <2>1. Tree(wide) /\ Step(i) \in DOMAIN wide /\ i \in Int
    BY <1>1, <1>2, WiderArray
  <2>2. StoreAndEnter(wide, i)
    BY <1>2 DEF Subscript
  <2> HIDE DEF wide
  <2> QED BY <1>1, <2>1, <2>2, StoreAndEnterOK
<1>3. CASE ~isArray(node)
  BY <1>1, <1>3, FailOK DEF Subscript
<1> QED BY <1>2, <1>3

LEMMA MemberOK ==
  ASSUME IInv, NEW k \in Members, Member(k)
  PROVE  IInv'
<1>1. Editing /\ Tree(node) /\ k \in Int
  BY EditingIs, NodeIs, ProgramAssumption DEF Member
<1>2. CASE isObject(node)
  <2> DEFINE wide == WithChild(Opened(node, objectValue), k)
  <2>1. Tree(wide) /\ Step(k) \in DOMAIN wide
    BY <1>1, <1>2, WiderObject
  <2>2. StoreAndEnter(wide, k)
    BY <1>2 DEF Member
  <2> HIDE DEF wide
  <2> QED BY <1>1, <2>1, <2>2, StoreAndEnterOK
<1>3. CASE ~isObject(node)
  BY <1>1, <1>3, FailOK DEF Member
<1> QED BY <1>2, <1>3

LEMMA AppendToOK ==
  ASSUME IInv, NEW m, Tree(m), NEW itself \in BOOLEAN, AppendTo(m, itself)
  PROVE  IInv'
<1>1. Editing /\ Tree(node)
  BY EditingIs, NodeIs DEF AppendTo
<1>2. CASE isArray(node)
  <2>1. Size(node) <= MaxIndex /\ Store(Appended(node, m, itself))
    BY <1>2 DEF AppendTo
  <2>2. Tree(Appended(node, m, itself))
    BY <1>1, <1>2, <2>1, AppendedWellFormed
  <2> QED BY <1>1, <2>1, <2>2, StoreOK
<1>3. CASE ~isArray(node)
  BY <1>1, <1>3, FailOK DEF AppendTo
<1> QED BY <1>2, <1>3

LEMMA AssignOK ==
  ASSUME IInv, NEW m, Tree(m), Assign(m)
  PROVE  IInv'
<1>1. Editing /\ Tree(node) /\ Store(Assigned(node, m))
  BY EditingIs, NodeIs DEF Assign
<1>2. Tree(Assigned(node, m))
  BY <1>1, AssignedWellFormed
<1> QED BY <1>1, <1>2, StoreOK

LEMMA AssignChildOK ==
  ASSUME IInv, NEW k \in Int, AssignChild(k)
  PROVE  IInv'
<1>1. Editing /\ Tree(node) /\ Store(Assigned(node, Child(node, k)))
  BY EditingIs, NodeIs DEF AssignChild
<1>2. Tree(Assigned(node, Child(node, k)))
  BY <1>1, ChildWellFormed, AssignedWellFormed
<1> QED BY <1>1, <1>2, StoreOK

LEMMA LeaveOK ==
  ASSUME IInv, Leave
  PROVE  IInv'
<1>1. ValuesOK /\ it = NoWalk /\ st = "running" /\ Here \in DOMAIN x
  BY EditingIs, Root DEF Leave, ValuesOK
<1>2. ValuesOK' /\ it' = NoWalk /\ st' = "running"
  BY <1>1 DEF Leave, ValuesOK, Here
<1> QED BY <1>2, Idle

LEMMA SwapSecondOK ==
  ASSUME IInv, SwapSecond
  PROVE  IInv'
<1>1. ValuesOK /\ it = NoWalk /\ st = "running" /\ Tree(node)
  BY EditingIs, NodeIs DEF SwapSecond
<1>2. Tree(Swapped(node, y)) /\ Tree(Swapped(y, node))
  BY <1>1, SwappedWellFormed DEF ValuesOK
<1>3. ValuesOK' /\ it' = NoWalk /\ st' = "running"
  BY <1>1, <1>2, Stored DEF SwapSecond, ValuesOK
<1> QED BY <1>3, Idle

LEMMA CopyToSecondOK ==
  ASSUME IInv, CopyToSecond
  PROVE  IInv'
<1>1. ValuesOK /\ it = NoWalk /\ st = "running" /\ Tree(Copy(node))
  BY EditingIs, NodeIs, CopyWellFormed DEF CopyToSecond
<1>2. ValuesOK' /\ it' = NoWalk /\ st' = "running"
  BY <1>1 DEF CopyToSecond, ValuesOK
<1> QED BY <1>2, Idle

LEMMA GetToSecondOK ==
  ASSUME IInv, NEW k \in Int, NEW default, Tree(default), GetToSecond(k, default)
  PROVE  IInv'
<1>1. Editing /\ ValuesOK /\ it = NoWalk /\ st = "running" /\ Tree(node)
  BY EditingIs, NodeIs DEF GetToSecond
<1>2. CASE isArray(node) \/ isObject(node)
  <2>1. Tree(Assigned(y, Get(node, k, default)))
    BY <1>1, GetWellFormed, AssignedWellFormed DEF ValuesOK
  <2>2. ValuesOK' /\ it' = NoWalk /\ st' = "running"
    BY <1>1, <1>2, <2>1 DEF GetToSecond, ValuesOK
  <2> QED BY <2>2, Idle
<1>3. CASE ~(isArray(node) \/ isObject(node))
  BY <1>1, <1>3, FailOK DEF GetToSecond
<1> QED BY <1>2, <1>3

LEMMA removeMemberOK ==
  ASSUME IInv, NEW k \in Int, removeMember(k)
  PROVE  IInv'
<1>1. Editing /\ ValuesOK /\ it = NoWalk /\ st = "running" /\ Tree(node)
  BY EditingIs, NodeIs DEF removeMember
<1>2. CASE isObject(node)
  <2>1. Tree(Only(node, Kids(node) \ {k})) /\ Tree(Copy(Child(node, k)))
    BY <1>1, OnlyWellFormed, ChildWellFormed, CopyWellFormed
  <2>2. ValuesOK' /\ it' = NoWalk /\ st' = "running"
    BY <1>1, <1>2, <2>1, Stored DEF removeMember, ValuesOK
  <2> QED BY <2>2, Idle
<1>3. CASE ~isObject(node)
  BY <1>1, <1>3, FailOK DEF removeMember
<1> QED BY <1>2, <1>3

LEMMA clearOK ==
  ASSUME IInv, clear
  PROVE  IInv'
<1>1. Editing /\ Tree(node)
  BY EditingIs, NodeIs DEF clear
<1>2. CASE isArray(node) \/ isObject(node)
  <2>1. Tree(Only(node, {})) /\ Store(Only(node, {}))
    BY <1>1, <1>2, OnlyWellFormed DEF clear
  <2> QED BY <1>1, <2>1, StoreOK
<1>3. CASE ~(isArray(node) \/ isObject(node))
  BY <1>1, <1>3, FailOK DEF clear
<1> QED BY <1>2, <1>3

LEMMA setCommentOK ==
  ASSUME IInv, NEW text \in Nat, setComment(text)
  PROVE  IInv'
<1> DEFINE n == [node EXCEPT ![<<>>].comments[commentBefore] = <<text>>]
<1>1. Editing /\ Tree(node) /\ Store(n)
  BY EditingIs, NodeIs DEF setComment
<1>2. Tree(n)
  BY <1>1, CommentedWellFormed
<1> HIDE DEF n
<1> QED BY <1>1, <1>2, StoreOK

LEMMA MakeOK ==
  ASSUME IInv, NEW args, ArgsOK(args), Make(args)
  PROVE  IInv'
<1>1. Editing /\ ValuesOK /\ it = NoWalk /\ st = "running" /\ Tree(node) /\ ref \in Tracks
  BY EditingIs, NodeIs DEF Make
<1>2. CASE CanMake(node, args)
  <2> DEFINE made == Made(node, args)
             n == Len(args)
  <2>1. n \in Nat /\ ArgKeys(args) = Way(args, n) /\ \A i \in 0..n : Way(args, i) \in Tracks
    BY Ways
  <2>2. Tree(made) /\ \A i \in 0..n : Way(args, i) \in DOMAIN made
    BY <1>1, <1>2, MadeIs
  <2> HIDE DEF made, n
  <2>3. ArgKeys(args) \in DOMAIN made /\ ArgKeys(args) \in Tracks
    BY <2>1, <2>2
  <2>4. Tree(Put(x, ref, made)) /\ Then(ref, ArgKeys(args)) \in DOMAIN Put(x, ref, made)
    BY <2>2, <2>3, Stored
  <2>5. ValuesOK' /\ it' = NoWalk /\ st' = "running"
    BY <1>1, <1>2, <2>4 DEF Make, ValuesOK, Then, made
  <2> QED BY <2>5, Idle
<1>3. CASE ~CanMake(node, args)
  BY <1>1, <1>3, FailOK DEF Make
<1> QED BY <1>2, <1>3

LEMMA resizeOK ==
  ASSUME IInv, NEW size \in 0..MaxIndex, resize(size)
  PROVE  IInv'
<1> DEFINE n == Opened(node, arrayValue)
<1>1. Editing /\ ValuesOK /\ it = NoWalk /\ st = "running" /\ Tree(node)
  BY EditingIs, NodeIs DEF resize
<1>2. CASE ~isArray(node)
  <2>1. Fail("type assertion")
    BY <1>2 DEF resize
  <2> QED BY <1>1, <2>1, FailOK
<1>3. CASE isArray(node)
  <2>1. type_(node) \in {nullValue, arrayValue} /\ arrayValue \in Containers
    BY <1>3 DEF isArray, Containers
  <2>2. Tree(n) /\ type_(n) = arrayValue
    BY <1>1, <2>1, OpenedWellFormed
  <2>3. /\ (size = 0 \/ size > Size(n)) =>
             Store(IF size = 0 THEN Only(n, {}) ELSE Widened(n, size))
        /\ ~(size = 0 \/ size > Size(n)) =>
             IF Size(Cut(n, size)) = size THEN Store(Cut(n, size)) ELSE Fail("resize assertion")
    BY <1>3 DEF resize
  <2>4. type_(node) # nullValue => n = node
    BY DEF Opened
  <2>5. type_(node) = nullValue => Size(n) = 0
    <3>1. ASSUME type_(node) = nullValue PROVE Kids(n) = {}
      <4>1. DOMAIN n = DOMAIN node /\ DOMAIN node = {Here}
        BY <1>1, <2>1, <3>1, OpenedWellFormed, LeafIsRoot DEF Containers, nullValue, arrayValue, objectValue
      <4> HIDE DEF n
      <4>2. \A k \in Int : Step(k) \notin DOMAIN n
        BY <4>1, Joining
      <4> QED BY <2>2, <4>2, KidsAre
    <3>2. isArray(n)
      BY <2>2 DEF isArray
    <3> HIDE DEF n
    <3> QED BY <2>2, <3>1, <3>2, SizeIs
  <2>10. Widened(n, size) = WithChild(n, size - 1)
    BY DEF Widened
  <2> HIDE DEF n
  <2>6. Size(n) \in Nat
    <3>1. isArray(n)
      BY <2>2 DEF isArray
    <3> QED BY <2>2, <3>1, SizeIs, ProgramAssumption
  <2>7. CASE size = 0
    <3>1. Tree(Only(n, {})) /\ Store(Only(n, {}))
      BY <2>2, <2>3, <2>7, OnlyWellFormed
    <3> QED BY <1>1, <3>1, StoreOK
  <2>8. CASE size # 0 /\ size > Size(n)
    <3>1. size - 1 \in 0..MaxIndex /\ size - 1 \in Int
      BY <2>8, ProgramAssumption
    <3>2. Branch(n[Here], size - 1)
      BY <2>1, <2>2, <3>1, Root DEF Branch
    <3>3. Tree(Widened(n, size)) /\ Store(Widened(n, size))
      BY <2>2, <2>3, <2>8, <2>10, <3>1, <3>2, WithChildWellFormed
    <3> QED BY <1>1, <3>3, StoreOK
  <2>9. CASE ~(size = 0 \/ size > Size(n))
    <3>1. size \in 1..Size(n)
      BY <2>6, <2>9, ProgramAssumption
    <3>2. n = node
      BY <2>4, <2>5, <3>1
    <3>3. CASE Size(Cut(n, size)) = size
      <4>1. Tree(Cut(n, size)) /\ Store(Cut(n, size))
        BY <2>2, <2>3, <2>9, <3>3, OnlyWellFormed DEF Cut
      <4> QED BY <1>1, <4>1, StoreOK
    <3>4. CASE Size(Cut(n, size)) # size
      <4>1. Fail("resize assertion")
        BY <2>3, <2>9, <3>4
      <4>2. ValuesOK' /\ it' = NoWalk /\ st' = "resize assertion"
        BY <1>1, <4>1 DEF Fail, ValuesOK
      <4> QED BY <4>2, NoWalkIs DEF IInv, WalkOK, EndedOK
    <3> QED BY <3>3, <3>4
  <2> QED BY <2>7, <2>8, <2>9
<1> QED BY <1>2, <1>3

LEMMA BeginWalkOK ==
  ASSUME IInv, NEW assigned \in BOOLEAN, BeginWalk(assigned)
  PROVE  IInv'
<1>1. Editing /\ ValuesOK /\ st = "running"
  BY EditingIs DEF BeginWalk
<1>2. /\ x' = x /\ y' = y /\ ref' = ref /\ st' = "running"
      /\ it' = [on |-> TRUE, null |-> assigned \/ type_(node) \notin Containers, cur |-> 1,
                seen |-> <<>>, assigned |-> assigned]
  BY <1>1 DEF BeginWalk
<1>3. it' \in ItType
  <2>1. <<>> \in Seq(Int)
    BY Joining DEF Here, Tracks
  <2> QED BY <1>2, <2>1 DEF ItType
<1>4. 1 \in 1..(Cardinality(Kids(node)) + 1)
  BY <1>1, NodeIs
<1>5. node' = node
  BY <1>2 DEF node
<1>6. /\ it'.on /\ it'.cur = 1 /\ it'.seen = <<>> /\ it'.assigned = assigned
      /\ it'.null <=> (assigned \/ type_(node) \notin Containers)
  BY <1>2
<1>7. <<>> = [i \in 1..(1 - 1) |-> Keys(node)[i]]
  OBVIOUS
<1>8. WalkOK'
  BY <1>4, <1>5, <1>6, <1>7 DEF WalkOK
<1> QED BY <1>1, <1>2, <1>3, <1>8 DEF IInv, ValuesOK, EndedOK

\* An iterator that is not at the end has a child before it, or was assigned.
LEMMA StepWalkOK ==
  ASSUME IInv, StepWalk
  PROVE  IInv'
<1> DEFINE c == Cardinality(Kids(node))
           keys == Keys(node)
<1>1. /\ ValuesOK /\ it \in ItType /\ WalkOK /\ it.on /\ st = "running" /\ ~AtEnd
      /\ c \in Nat /\ \A i \in 1..c : keys[i] \in Int
  BY NodeIs DEF IInv, StepWalk
<1>2. /\ it.cur \in 1..(c + 1)
      /\ it.seen = [i \in 1..(it.cur - 1) |-> keys[i]]
      /\ it.null <=> (it.assigned \/ type_(node) \notin Containers)
  BY <1>1 DEF WalkOK
<1>3. End.cur = c + 1 /\ (End.null <=> type_(node) \notin Containers)
  BY DEF End
<1>4. CASE it.cur = End.cur
  <2>1. it.assigned
    BY <1>1, <1>2, <1>3, <1>4 DEF AtEnd
  <2>2. UNCHANGED <<x, y, ref, it>> /\ st' = "overrun"
    BY <1>4 DEF StepWalk, Fail
  <2>3. node' = node
    BY <2>2 DEF node
  <2>4. ValuesOK' /\ it' \in ItType /\ WalkOK'
    BY <1>1, <2>2, <2>3 DEF ValuesOK, WalkOK
  <2> QED BY <1>1, <2>1, <2>2, <2>4 DEF IInv, EndedOK
<1>5. CASE it.cur # End.cur
  <2>1. /\ UNCHANGED <<x, y, ref, st>>
        /\ it' = [it EXCEPT !.cur = @ + 1, !.seen = Append(@, keys[it.cur])]
    BY <1>5 DEF StepWalk
  <2>2. it.cur \in 1..c /\ keys[it.cur] \in Int
    BY <1>1, <1>2, <1>3, <1>5
  <2>3. node' = node
    BY <2>1 DEF node
  <2>4. /\ it'.on /\ it'.cur = it.cur + 1 /\ it'.seen = Append(it.seen, keys[it.cur])
        /\ it'.assigned = it.assigned /\ it'.null = it.null
        /\ it.seen \in Seq(Int) /\ it.cur \in Nat
    BY <1>1, <2>1 DEF ItType
  <2>5. Append(it.seen, keys[it.cur]) \in Seq(Int)
    BY <2>2, <2>4
  <2>6. it' \in ItType
    <3> DEFINE Seen == Seq(Int)
               s == Append(it.seen, keys[it.cur])
               k == it.cur + 1
    <3>1. s \in Seen /\ k \in Nat /\ it' = [it EXCEPT !.cur = k, !.seen = s]
      BY <2>1, <2>4, <2>5
    <3>2. it \in [on : BOOLEAN, null : BOOLEAN, cur : Nat, seen : Seen, assigned : BOOLEAN]
      BY <1>1 DEF ItType
    <3> HIDE DEF Seen, s, k
    <3>3. it' \in [on : BOOLEAN, null : BOOLEAN, cur : Nat, seen : Seen, assigned : BOOLEAN]
      BY <3>1, <3>2
    <3> QED BY <3>3 DEF ItType, Seen
  <2>7. Append(it.seen, keys[it.cur]) = [i \in 1..((it.cur + 1) - 1) |-> keys[i]]
    <3> DEFINE k == it.cur
               s == it.seen
    <3>1. k \in 1..c /\ c \in Nat /\ s \in Seq(Int) /\ s = [i \in 1..(k - 1) |-> keys[i]]
      BY <1>1, <1>2, <2>2, <2>4
    <3> HIDE DEF k, s, keys, c
    <3>2. Len(s) = k - 1
      BY <3>1
    <3>3. Append(s, keys[k]) = [i \in 1..k |-> IF i = k THEN keys[k] ELSE s[i]]
      BY <3>1, <3>2
    <3>4. \A i \in 1..k : (IF i = k THEN keys[k] ELSE s[i]) = keys[i]
      BY <3>1
    <3>5. Append(s, keys[k]) = [i \in 1..k |-> keys[i]]
      BY <3>3, <3>4
    <3>6. (k + 1) - 1 = k
      BY <3>1
    <3> QED BY <3>5, <3>6 DEF k, s
  <2> HIDE DEF c, keys
  <2>8. it.cur + 1 \in 1..(c + 1)
    BY <1>1, <2>2
  <2>9. WalkOK'
    <3>1. it'.cur \in 1..(c + 1) /\ it'.seen = [i \in 1..(it'.cur - 1) |-> keys[i]]
      BY <2>4, <2>7, <2>8
    <3>2. it'.null <=> (it'.assigned \/ type_(node) \notin Containers)
      BY <1>2, <2>4
    <3> QED BY <2>3, <2>4, <3>1, <3>2 DEF WalkOK, c, keys
  <2> QED BY <1>1, <2>1, <2>6, <2>9 DEF IInv, ValuesOK, EndedOK
<1> QED BY <1>4, <1>5

LEMMA EndWalkOK ==
  ASSUME IInv, EndWalk
  PROVE  IInv'
<1>1. ValuesOK' /\ it' = NoWalk /\ st' = "running"
  BY DEF EndWalk, IInv, ValuesOK
<1> QED BY <1>1, Idle

-----------------------------------------------------------------------------
(***************************************************************************)
(* The theorems.                                                           *)
(***************************************************************************)

LEMMA InitOK ==
  Init => IInv
<1> SUFFICES ASSUME Init PROVE IInv
  OBVIOUS
<1>1. Tree(x) /\ Tree(y) /\ ref = Here /\ it = NoWalk /\ st = "running"
  BY ProgramAssumption, WellFormedIs DEF Init, Here
<1>2. ref \in DOMAIN x
  BY <1>1, Root
<1> QED BY <1>1, <1>2, NoWalkIs DEF IInv, ValuesOK, WalkOK, EndedOK

LEMMA NextOK ==
  IInv /\ [Next]_vars => IInv'
<1> SUFFICES ASSUME IInv, [Next]_vars PROVE IInv'
  OBVIOUS
<1>1. /\ 0..MaxIndex \subseteq Int /\ Members \subseteq Int
      /\ \A m \in Scalars : Tree(m)
      /\ \A args \in Paths : ArgsOK(args)
  BY ProgramAssumption, WellFormedIs DEF ArgsOK
<1>2. ASSUME NEW i \in 0..MaxIndex, Subscript(i) \/ resize(i) PROVE IInv'
  BY <1>2, SubscriptOK, resizeOK
<1>3. ASSUME NEW k \in Members, Member(k) \/ removeMember(k) PROVE IInv'
  BY <1>1, <1>3, MemberOK, removeMemberOK
<1>4. ASSUME NEW k \in Members \cup 0..MaxIndex, AssignChild(k) PROVE IInv'
  BY <1>1, <1>4, AssignChildOK
<1>5. ASSUME NEW m \in Scalars, Assign(m) \/ AppendTo(m, FALSE) PROVE IInv'
  BY <1>1, <1>5, AssignOK, AppendToOK
<1>6. ASSUME NEW k \in Members, NEW m \in Scalars, GetToSecond(k, m) PROVE IInv'
  BY <1>1, <1>6, GetToSecondOK
<1>7. CASE AppendTo(Null, TRUE)
  BY <1>7, NullWellFormed, AppendToOK
<1>8. CASE SwapSecond \/ CopyToSecond \/ clear \/ Leave
  BY <1>8, SwapSecondOK, CopyToSecondOK, clearOK, LeaveOK
<1>9. CASE setComment(TrueText)
  BY <1>9, setCommentOK DEF TrueText
<1>10. ASSUME NEW args \in Paths, Make(args) PROVE IInv'
  BY <1>1, <1>10, MakeOK
<1>11. ASSUME NEW assigned \in BOOLEAN, BeginWalk(assigned) PROVE IInv'
  BY <1>11, BeginWalkOK
<1>12. CASE StepWalk \/ EndWalk
  BY <1>12, StepWalkOK, EndWalkOK
<1>13. CASE Stopped \/ UNCHANGED vars
  <2>1. UNCHANGED <<x, y, ref, it, st>>
    BY <1>13 DEF Stopped, vars
  <2> QED BY <2>1 DEF IInv, ValuesOK, WalkOK, EndedOK, node
<1> QED BY <1>2, <1>3, <1>4, <1>5, <1>6, <1>7, <1>8, <1>9, <1>10, <1>11, <1>12, <1>13 DEF Next

\* The strengthening of the program's invariants is inductive: each operation
\* of Json::Value, on any node of any value, keeps it.
THEOREM Invariance ==
  Spec => []IInv
BY InitOK, NextOK, PTL DEF Spec

\* The union of a value is read as what it was written as, every node is a
\* child of an array or an object, and the reference that the operations
\* return leads to a node: what every operation of Json::Value preserves.
THEOREM TypeCorrect ==
  Spec => []TypeOK
<1>1. IInv => TypeOK
  <2> SUFFICES ASSUME IInv PROVE TypeOK
    OBVIOUS
  <2>1. WellFormed(x) /\ WellFormed(y) /\ ref \in DOMAIN x
    BY WellFormedIs DEF IInv, ValuesOK
  <2>2. it \in [on : BOOLEAN, null : BOOLEAN, cur : Nat, seen : Seq(Int), assigned : BOOLEAN]
    BY DEF IInv, ItType
  <2>3. it.cur <= End.cur
    <3>1. Cardinality(Kids(node)) \in Nat
      BY NodeIs DEF IInv
    <3>2. End.cur = Cardinality(Kids(node)) + 1
      BY DEF End
    <3>3. ~it.on => it.cur = 1
      BY DEF IInv, WalkOK, NoWalk
    <3>4. it.on => it.cur \in 1..(Cardinality(Kids(node)) + 1)
      BY DEF IInv, WalkOK
    <3> QED BY <3>1, <3>2, <3>3, <3>4
  <2> QED BY <2>1, <2>2, <2>3 DEF TypeOK, IInv, EndedOK
<1> QED BY <1>1, Invariance, PTL

\* A walk that ends has met every child once, in the order of the keys, and
\* one whose iterator was constructed from begin() does not run past its end.
THEOREM WalksCorrect ==
  Spec => []WalksMeetAll
<1>1. IInv => WalksMeetAll
  <2> SUFFICES ASSUME IInv PROVE WalksMeetAll
    OBVIOUS
  <2> DEFINE c == Cardinality(Kids(node))
             keys == Keys(node)
  <2>1. ASSUME it.on, AtEnd PROVE it.seen = keys
    <3>1. /\ c \in Nat /\ Tree(node)
          /\ it.cur \in 1..(c + 1)
          /\ it.seen = [i \in 1..(it.cur - 1) |-> keys[i]]
          /\ it.null <=> (it.assigned \/ type_(node) \notin Containers)
      BY <2>1, NodeIs DEF IInv, WalkOK
    <3>2. End.cur = c + 1 /\ (End.null <=> type_(node) \notin Containers)
      BY DEF End
    <3>3. it.cur = c + 1
      <4>1. CASE it.null
        <5>1. type_(node) \notin Containers
          BY <2>1, <3>2, <4>1 DEF AtEnd
        <5>2. Kids(node) = {}
          BY <3>1, <5>1, KidsAre
        <5> QED BY <3>1, <5>2, FS_EmptySet
      <4>2. CASE ~it.null
        BY <2>1, <3>2, <4>2 DEF AtEnd
      <4> QED BY <4>1, <4>2
    <3>4. keys = [i \in 1..c |-> keys[i]]
      BY NodeIs DEF IInv
    <3> HIDE DEF keys, c
    <3>5. (c + 1) - 1 = c
      BY <3>1
    <3> QED BY <3>1, <3>3, <3>4, <3>5
  <2> QED BY <2>1 DEF WalksMeetAll, IInv, EndedOK
<1> QED BY <1>1, Invariance, PTL

\* make followed by resolve: of every path that can be made in a value,
\* resolve finds what was made, beside all that was there before; and what
\* resolve finds with a default it finds without one.
THEOREM PathsResolve ==
  Spec => []MadePathsResolve
<1>1. IInv => MadePathsResolve
  <2> SUFFICES ASSUME IInv PROVE MadePathsResolve
    OBVIOUS
  <2>1. Tree(x) /\ \A args \in Paths : ArgsOK(args)
    BY ProgramAssumption DEF IInv, ValuesOK, ArgsOK
  <2> QED BY <2>1, MadeResolves, FoundAlike DEF MadePathsResolve
<1> QED BY <1>1, Invariance, PTL

-----------------------------------------------------------------------------
(***************************************************************************)
(* Conversions.                                                            *)
(***************************************************************************)

\* A real in halves is cut towards zero.
LEMMA TruncatedIs ==
  ASSUME NEW halves \in Int, NEW lo \in Int, NEW hi \in Int, lo <= 0, hi >= 0,
         halves \in (2 * lo)..(2 * hi)
  PROVE  Truncated(halves) \in lo..hi
<1>1. CASE halves >= 0
  <2>1. Truncated(halves) = halves \div 2
    BY <1>1 DEF Truncated
  <2>2. halves \div 2 \in Int /\ halves \div 2 >= 0 /\ 2 * (halves \div 2) <= halves
    BY <1>1
  <2> QED BY <2>1, <2>2
<1>2. CASE ~(halves >= 0)
  <2> DEFINE m == -halves
  <2>1. Truncated(halves) = -(m \div 2) /\ m \in Int /\ m >= 0
    BY <1>2 DEF Truncated
  <2> HIDE DEF m
  <2>2. m \div 2 \in Int /\ m \div 2 >= 0 /\ 2 * (m \div 2) <= m
    BY <2>1
  <2> QED BY <2>1, <2>2 DEF m
<1> QED BY <1>1, <1>2

\* The limits of the integer types.
LEMMA Limits ==
  /\ MaxInt \in Nat /\ MinInt \in Int /\ MinInt <= 0 /\ MaxUInt \in Nat
  /\ MaxInt64 \in Nat /\ MinInt64 \in Int /\ MinInt64 <= 0 /\ MaxUInt64 \in Nat
  /\ MaxInt <= MaxInt64 /\ MinInt64 <= MinInt /\ MaxUInt <= MaxUInt64
  /\ MaxInt64 <= MaxUInt64 /\ MaxInt <= MaxUInt
BY LimitAssumption DEF MaxInt, MinInt, MaxUInt, MaxInt64, MinInt64, MaxUInt64

\* The conversions to integers return the number, throw, or leave the range
\* of the type they cast to.
LEMMA AsIntegerIs ==
  ASSUME NEW n, Tree(n), NEW lo \in Int, NEW hi \in Int, NEW clo \in Int, NEW chi \in Int,
         lo <= 0, hi >= 0
  PROVE  LET number == IF type_(n) = realValue THEN Truncated(value_(n)) ELSE value_(n)
             got == AsInteger(n, lo, hi, clo, chi)
         IN /\ got.outcome = "returns" => got.v = number
            /\ got.outcome = "undefined" =>
                 type_(n) = realValue /\ number \notin clo..chi /\ number \in lo..hi
<1> DEFINE t == type_(n)
           v == value_(n)
           number == IF t = realValue THEN Truncated(v) ELSE v
           got == AsInteger(n, lo, hi, clo, chi)
<1>1. v \in Int
  BY Root DEF NodeOK
<1>2. Throws.outcome = "throws" /\ Undefined.outcome = "undefined"
      /\ \A a : Returns(a).outcome = "returns" /\ Returns(a).v = a
  BY DEF Throws, Undefined, Returns
<1>3. CASE t \in {nullValue, booleanValue}
  <2>1. got = Returns(v) /\ t # realValue
    BY <1>3 DEF AsInteger, nullValue, booleanValue, realValue, intValue, uintValue
  <2> QED BY <1>2, <2>1
<1>4. CASE t \in {intValue, uintValue}
  <2>1. got = (IF v \in lo..hi THEN Returns(v) ELSE Throws) /\ t # realValue
    BY <1>4 DEF AsInteger, nullValue, booleanValue, realValue, intValue, uintValue
  <2> QED BY <1>2, <2>1
<1>5. CASE t = realValue
  <2>1. got = IF v \notin (2 * lo)..(2 * hi) THEN Throws
              ELSE IF Truncated(v) \in clo..chi THEN Returns(Truncated(v)) ELSE Undefined
    BY <1>5 DEF AsInteger, nullValue, booleanValue, realValue, intValue, uintValue
  <2>2. v \in (2 * lo)..(2 * hi) => Truncated(v) \in lo..hi
    BY <1>1, TruncatedIs
  <2>3. number = Truncated(v)
    BY <1>5
  <2> HIDE DEF number, got, v, t
  <2> QED BY <1>2, <1>5, <2>1, <2>2, <2>3 DEF t, v, number, got
<1>6. CASE t \notin {nullValue, booleanValue, intValue, uintValue, realValue}
  <2>1. got = Throws
    BY <1>6 DEF AsInteger
  <2> QED BY <1>2, <2>1
<1> QED BY <1>3, <1>4, <1>5, <1>6

\* as* give the number or nothing.
LEMMA Exactly ==
  ASSUME Tree(node)
  PROVE  ExactOrRefused
<1> DEFINE t == type_(node)
           v == value_(node)
           number == IF t = realValue THEN Truncated(v) ELSE v
           Exact(got) == got.outcome = "returns" => got.v = number
<1>1. Exact(asInt(node)) /\ asInt(node).outcome # "undefined"
  BY Limits, AsIntegerIs DEF asInt
<1>2. Exact(asUInt(node)) /\ asUInt(node).outcome # "undefined"
  BY Limits, AsIntegerIs DEF asUInt
<1>3. /\ Exact(asInt64(node))
      /\ asInt64(node).outcome = "undefined" => t = realValue /\ number \notin MinInt..MaxInt
  BY Limits, AsIntegerIs DEF asInt64
<1>4. /\ Exact(asUInt64(node))
      /\ asUInt64(node).outcome = "undefined" => t = realValue /\ number \notin 0..MaxUInt
  BY Limits, AsIntegerIs DEF asUInt64
<1>5. \A got \in {asInt(node), asUInt(node), asInt64(node), asUInt64(node)} : Exact(got)
  BY <1>1, <1>2, <1>3, <1>4
<1>6. "undefined" \notin {asInt(node).outcome, asUInt(node).outcome}
  BY <1>1, <1>2
<1> QED BY <1>3, <1>4, <1>5, <1>6 DEF ExactOrRefused

\* isConvertibleTo keeps its promises.
LEMMA Promised ==
  ASSUME Tree(node)
  PROVE  PromisesKept
<1> DEFINE n == node
           t == type_(n)
           v == value_(n)
<1>1. t \in 0..7 /\ v \in Int /\ v \in ValuesOf(t)
  BY Root DEF NodeOK, ValueTypes
<1>2. Throws.outcome = "throws" /\ \A a : Returns(a).outcome = "returns" /\ Returns(a).v = a
  BY DEF Throws, Returns
<1> USE DEF nullValue, intValue, uintValue, realValue, stringValue, booleanValue, arrayValue, objectValue
<1>3. /\ t = intValue => v \in MinInt64..MaxInt64
      /\ t = uintValue => v \in 0..MaxUInt64
      /\ t = booleanValue => v \in {0, 1}
      /\ t = nullValue => v = 0
  BY <1>1 DEF ValuesOf
<1>4. t \in Containers <=> t \in {arrayValue, objectValue}
  BY DEF Containers
<1>5. ASSUME isConvertibleTo(n, intValue) PROVE asInt64(n).outcome = "returns"
  <2>1. CASE t \in {nullValue, booleanValue}
    BY <1>2, <2>1 DEF asInt64, AsInteger
  <2>2. CASE t \in {intValue, uintValue}
    <3>1. v \in MinInt64..MaxInt64
      BY <1>1, <1>3, <1>5, <2>2, Limits DEF isConvertibleTo
    <3> QED BY <1>2, <2>2, <3>1 DEF asInt64, AsInteger
  <2>3. CASE t = realValue
    <3>1. v \in (2 * MinInt)..(2 * MaxInt)
      BY <1>5, <2>3 DEF isConvertibleTo
    <3>2. v \in (2 * MinInt64)..(2 * MaxInt64)
      BY <1>1, <3>1, Limits
    <3>3. Truncated(v) \in MinInt..MaxInt
      BY <1>1, <3>1, Limits, TruncatedIs
    <3> QED BY <1>2, <2>3, <3>2, <3>3 DEF asInt64, AsInteger
  <2>4. CASE t \in {stringValue, arrayValue, objectValue}
    BY <1>5, <2>4 DEF isConvertibleTo
  <2> QED BY <1>1, <2>1, <2>2, <2>3, <2>4
<1>6. ASSUME isConvertibleTo(n, uintValue) PROVE asUInt64(n).outcome = "returns"
  <2>1. CASE t \in {nullValue, booleanValue}
    BY <1>2, <2>1 DEF asUInt64, AsInteger
  <2>2. CASE t \in {intValue, uintValue}
    <3>1. v \in 0..MaxUInt64
      BY <1>1, <1>3, <1>6, <2>2, Limits DEF isConvertibleTo
    <3> QED BY <1>2, <2>2, <3>1 DEF asUInt64, AsInteger
  <2>3. CASE t = realValue
    <3>1. v \in 0..(2 * MaxUInt)
      BY <1>6, <2>3 DEF isConvertibleTo
    <3>2. v \in (2 * 0)..(2 * MaxUInt64) /\ v \in (2 * 0)..(2 * MaxUInt)
      BY <1>1, <3>1, Limits
    <3>3. Truncated(v) \in 0..MaxUInt
      BY <1>1, <3>2, Limits, TruncatedIs
    <3> QED BY <1>2, <2>3, <3>2, <3>3 DEF asUInt64, AsInteger
  <2>4. CASE t \in {stringValue, arrayValue, objectValue}
    BY <1>6, <2>4 DEF isConvertibleTo
  <2> QED BY <1>1, <2>1, <2>2, <2>3, <2>4
<1>7. ASSUME isConvertibleTo(n, realValue) PROVE asDouble(n).outcome = "returns"
  BY <1>1, <1>2, <1>7 DEF isConvertibleTo, asDouble
<1>8. ASSUME isConvertibleTo(n, stringValue)
      PROVE  asString(n).outcome = "returns" <=> t \notin Numbers
  <2>1. CASE t \in {nullValue, stringValue, booleanValue}
    BY <1>2, <2>1 DEF asString, Numbers
  <2>2. CASE t \in {intValue, uintValue, realValue}
    BY <1>2, <2>2 DEF asString, Numbers
  <2>3. CASE t \in {arrayValue, objectValue}
    BY <1>8, <2>3 DEF isConvertibleTo
  <2> QED BY <1>1, <2>1, <2>2, <2>3
<1>9. ASSUME isConvertibleTo(n, nullValue) PROVE ~asBool(n).v
  <2>1. CASE t \in {arrayValue, objectValue}
    <3>1. Kids(n) = {}
      BY <1>9, <2>1 DEF isConvertibleTo
    <3>2. asBool(n) = Returns(Kids(n) # {})
      BY <1>4, <2>1 DEF asBool
    <3>4. (Kids(n) # {}) = FALSE
      BY <3>1
    <3>5. asBool(n) = Returns(FALSE)
      BY <3>2, <3>4, Zenon
    <3> QED BY <1>2, <3>5
  <2>2. CASE t = stringValue
    <3>1. v <= EmptyText
      BY <1>9, <2>2 DEF isConvertibleTo
    <3>2. ~(v > EmptyText)
      BY <1>1, <3>1 DEF EmptyText
    <3>3. asBool(n) = Returns(v > EmptyText)
      BY <1>4, <2>2 DEF asBool
    <3>4. (v > EmptyText) = FALSE
      BY <3>2
    <3>5. asBool(n) = Returns(FALSE)
      BY <3>3, <3>4, Zenon
    <3> QED BY <1>2, <3>5
  <2>3. CASE t \in {nullValue, intValue, uintValue, realValue, booleanValue}
    <3>1. v = 0
      BY <1>3, <1>9, <2>3 DEF isConvertibleTo
    <3>2. asBool(n) = Returns(v # 0)
      BY <1>4, <2>3 DEF asBool
    <3>4. (v # 0) = FALSE
      BY <3>1
    <3>5. asBool(n) = Returns(FALSE)
      BY <3>2, <3>4, Zenon
    <3> QED BY <1>2, <3>5
  <2> QED BY <1>1, <2>1, <2>2, <2>3
<1> QED BY <1>5, <1>6, <1>7, <1>8, <1>9 DEF PromisesKept

\* No conversion of any node a reference can lead to returns another number,
\* and none that isConvertibleTo promised throws, but for the slips that
\* ConversionsHonest names: at any widths of the integer types.
THEOREM ConversionsAre ==
  Spec => []ConversionsHonest
<1>1. IInv => ConversionsHonest
  <2> SUFFICES ASSUME IInv PROVE ConversionsHonest
    OBVIOUS
  <2>1. Tree(node)
    BY NodeIs DEF IInv
  <2> QED BY <2>1, Exactly, Promised DEF ConversionsHonest
<1> QED BY <1>1, Invariance, PTL

-----------------------------------------------------------------------------
(***************************************************************************)
(* Port lists.                                                             *)
(***************************************************************************)

\* The comparison is exact within the positive range of an int.
LEMMA CompareIs ==
  ASSUME NEW a \in Int, NEW b \in Int, a - b <= MaxInt, b - a <= MaxInt
  PROVE  compare(a, b) = a - b
<1> DEFINE d == a - b
           m == 2 * IntLimit
           low == d % m
<1>1. d \in Int /\ m \in Nat /\ m > 0 /\ MaxInt = IntLimit - 1 /\ IntLimit \in Nat
      /\ -MaxInt <= d /\ d <= MaxInt
  BY LimitAssumption DEF MaxInt
<1>2. compare(a, b) = IF low > MaxInt THEN low - m ELSE low
  BY DEF compare
<1>3. m = MaxInt + MaxInt + 2 /\ MaxInt \in Nat
  BY <1>1, LimitAssumption
<1> HIDE DEF d, m
<1>4. low = IF d >= 0 THEN d ELSE d + m
  <2>1. \A e \in 0..(m - 1) : e % m = e /\ (e - m) % m = e
    BY <1>1
  <2>2. CASE d >= 0
    BY <1>1, <1>3, <2>1, <2>2
  <2>3. CASE ~(d >= 0)
    <3>1. d + m \in 0..(m - 1) /\ (d + m) - m = d
      BY <1>1, <1>3, <2>3
    <3> QED BY <2>1, <2>3, <3>1
  <2> QED BY <2>2, <2>3
<1> HIDE DEF low
<1> QED BY <1>1, <1>2, <1>3, <1>4 DEF d

\* What an arrangement of a list is.
LEMMA ArrangementIs ==
  ASSUME NEW s \in Nat, NEW list \in [1..s -> Int], NEW l \in Arrangements(list)
  PROVE  l \in [1..s -> Int] /\ Len(l) = s /\ ToSet(l) = ToSet(list)
<1> DEFINE D == 1..s
<1>1. PICK p \in Injection(D, D) : l = [i \in D |-> list[p[i]]]
  BY DEF Arrangements
<1>2. IsFiniteSet(D) /\ Cardinality(D) = Cardinality(D)
  BY FS_Interval, 1 \in Int, s \in Int
<1> HIDE DEF D
<1>3. p \in [D -> D] /\ p \in Surjection(D, D)
  BY <1>1, <1>2, FS_Injection DEF Injection
<1>4. \A i \in D : \E j \in D : p[j] = i
  BY <1>3 DEF Surjection
<1>5. l \in [D -> Int] /\ list \in [D -> Int]
  BY <1>1, <1>3 DEF D
<1>6. \A i \in D : \E j \in D : l[j] = list[i]
  BY <1>1, <1>4
<1>7. \A j \in D : \E i \in D : l[j] = list[i]
  BY <1>1, <1>3
<1>8. ToSet(l) = ToSet(list)
  <2>1. DOMAIN l = D /\ DOMAIN list = D
    BY <1>5
  <2>2. {l[j] : j \in D} = {list[i] : i \in D}
    <3>1. ASSUME NEW i \in D PROVE list[i] \in {l[j] : j \in D}
      BY <1>6
    <3>2. ASSUME NEW j \in D PROVE l[j] \in {list[i] : i \in D}
      BY <1>7
    <3> QED BY <3>1, <3>2
  <2> QED BY <2>1, <2>2 DEF ToSet
<1>9. Len(l) = s
  BY <1>5 DEF D
<1> QED BY <1>5, <1>8, <1>9 DEF D

\* asUInt gives an integer.
LEMMA PortIs ==
  ASSUME NEW n, Tree(n), asUInt(n).outcome = "returns"
  PROVE  asUInt(n).v \in Int
<1> DEFINE number == IF type_(n) = realValue THEN Truncated(value_(n)) ELSE value_(n)
<1>1. asUInt(n).v = number
  BY Limits, AsIntegerIs DEF asUInt
<1>2. value_(n) \in Int
  BY Root DEF NodeOK
<1>3. \A h \in Int : Truncated(h) \in Int
  BY DEF Truncated
<1> QED BY <1>1, <1>2, <1>3

\* val_to_list keeps every port of an array and sorts them, as long as the
\* comparison handed to qsort does not overflow.
THEOREM PortsAreSorted ==
  Spec => []PortsSorted
<1>1. ASSUME Tree(x), type_(x) = arrayValue, NEW l \in val_to_list(x)
      PROVE  /\ \A i \in 0..(Size(x) - 1) : asUInt(Child(x, i)).v \in ToSet(l)
             /\ Len(l) = Size(x)
             /\ (\A a, b \in ToSet(l) : a - b <= MaxInt) =>
                  \A i \in 1..(Len(l) - 1) : l[i] <= l[i + 1]
  <2> DEFINE s == Size(x)
             P(i) == asUInt(Child(x, i - 1))
             list == [i \in 1..s |-> P(i).v]
  <2>1. s \in Nat
    <3>1. isArray(x)
      BY <1>1 DEF isArray
    <3> QED BY <1>1, <3>1, SizeIs, ProgramAssumption
  <2>2. Ports(x) = [i \in 1..s |-> P(i)]
    BY DEF Ports
  <2>3. ReadsPorts(x) /\ l \in Sorts([i \in DOMAIN Ports(x) |-> Ports(x)[i].v])
    BY <1>1 DEF val_to_list
  <2> HIDE DEF s, P
  <2>4. \A i \in 1..s : P(i).outcome = "returns"
    BY <2>2, <2>3 DEF ReadsPorts
  <2>5. [i \in DOMAIN Ports(x) |-> Ports(x)[i].v] = list
    BY <2>2
  <2>6. \A i \in 1..s : P(i).v \in Int
    <3>1. ASSUME NEW i \in 1..s PROVE P(i).v \in Int
      <4>1. Tree(Child(x, i - 1))
        BY <1>1, <2>1, ChildWellFormed
      <4> QED BY <2>4, <4>1, PortIs DEF P
    <3> QED BY <3>1
  <2>7. list \in [1..s -> Int]
    BY <2>6
  <2>8. \A i \in 1..s : P(i).v \in ToSet(list)
    BY <2>7 DEF ToSet
  <2>9. l \in Arrangements(list)
        /\ (IsOrder(list) => \A i \in 1..(Len(l) - 1) : compare(l[i], l[i + 1]) <= 0)
    BY <2>3, <2>5 DEF Sorts
  <2> HIDE DEF list
  <2>10. l \in [1..s -> Int] /\ Len(l) = s /\ ToSet(l) = ToSet(list)
    BY <2>1, <2>7, <2>9, ArrangementIs
  <2>11. ASSUME NEW i \in 0..(s - 1) PROVE asUInt(Child(x, i)).v \in ToSet(l)
    <3>1. i + 1 \in 1..s /\ (i + 1) - 1 = i
      BY <2>1
    <3> QED BY <2>8, <2>10, <3>1 DEF P
  <2>12. ASSUME \A a, b \in ToSet(l) : a - b <= MaxInt
         PROVE  \A i \in 1..(s - 1) : l[i] <= l[i + 1]
    <3>1. ToSet(l) \subseteq Int /\ \A i \in 1..s : l[i] \in ToSet(l) /\ l[i] \in Int
      BY <2>1, <2>10 DEF ToSet
    <3>2. \A a, b \in ToSet(l) : compare(a, b) = a - b
      BY <2>12, <3>1, CompareIs
    <3>3. IsOrder(list)
      <4>1. ASSUME NEW a \in ToSet(l), NEW b \in ToSet(l), NEW c \in ToSet(l)
            PROVE  /\ compare(a, b) < 0 <=> compare(b, a) > 0
                   /\ compare(a, b) <= 0 /\ compare(b, c) <= 0 => compare(a, c) <= 0
        <5>1. a \in Int /\ b \in Int /\ c \in Int
          BY <3>1
        <5>2. /\ compare(a, b) = a - b /\ compare(b, a) = b - a
              /\ compare(b, c) = b - c /\ compare(a, c) = a - c
          BY <3>2
        <5> QED BY <5>1, <5>2
      <4> QED BY <2>10, <4>1 DEF IsOrder
    <3>4. ASSUME NEW i \in 1..(s - 1) PROVE l[i] <= l[i + 1]
      <4>1. i \in 1..s /\ i + 1 \in 1..s
        BY <2>1
      <4>2. compare(l[i], l[i + 1]) <= 0
        BY <2>9, <2>10, <3>3
      <4>3. l[i] \in Int /\ l[i + 1] \in Int /\ compare(l[i], l[i + 1]) = l[i] - l[i + 1]
        BY <3>1, <3>2, <4>1
      <4> QED BY <4>2, <4>3
    <3> QED BY <3>4
  <2> QED BY <2>10, <2>11, <2>12 DEF s
<1>2. IInv => PortsSorted
  <2> SUFFICES ASSUME IInv PROVE PortsSorted
    OBVIOUS
  <2>1. Tree(x)
    BY DEF IInv, ValuesOK
  <2> QED BY <1>1, <2>1 DEF PortsSorted
<1> QED BY <1>2, Invariance, PTL

===============================================================================
