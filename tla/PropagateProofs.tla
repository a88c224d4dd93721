---------------------------- MODULE PropagateProofs ----------------------------
(***************************************************************************)
(* The reachability query on every network: its types and the depth of its *)
(* recursion, that what it prints really happens, and that it leaves       *)
(* nothing out.                                                            *)
(***************************************************************************)
EXTENDS Propagate, FiniteSetTheorems, SequenceTheorems, TLAPS

-----------------------------------------------------------------------------
(***************************************************************************)
(* What the proofs need to know of stacks, of lists that are read with     *)
(* some mentions of dst_port discounted, and of journeys.                  *)
(***************************************************************************)

\* A list with one element more: it ends in that element, and without it is
\* the list again.
LEMMA AppendFront ==
  ASSUME NEW S, NEW s \in Seq(S), NEW x \in S
  PROVE  /\ Append(s, x) \in Seq(S) /\ Append(s, x) # <<>>
         /\ Front(Append(s, x)) = s /\ Last(Append(s, x)) = x
         /\ Len(Append(s, x)) = Len(s) + 1
         /\ ToSet(Append(s, x)) = ToSet(s) \cup {x}
<1> DEFINE t == Append(s, x)
<1>1. /\ t \in Seq(S) /\ t # <<>> /\ Len(t) = Len(s) + 1 /\ Len(s) \in Nat
      /\ \A k \in 1..Len(s) : t[k] = s[k]
      /\ t[Len(s) + 1] = x
  BY AppendProperties
<1>2. /\ Front(t) \in Seq(S) /\ Len(Front(t)) = Len(s)
      /\ \A k \in 1..Len(s) : Front(t)[k] = t[k]
  BY <1>1 DEF Front
<1>3. Front(t) = s
  BY <1>1, <1>2, SeqEqual
<1>4. ToSet(t) = ToSet(s) \cup {x}
  <2>1. DOMAIN t = 1..(Len(s) + 1) /\ DOMAIN s = 1..Len(s)
    BY <1>1
  <2>2. \A k \in DOMAIN t : k \in DOMAIN s \/ k = Len(s) + 1
    BY <1>1, <2>1
  <2>3. \A k \in DOMAIN s : k \in DOMAIN t /\ t[k] = s[k]
    BY <1>1, <2>1
  <2>4. Len(s) + 1 \in DOMAIN t
    BY <1>1, <2>1
  <2> HIDE DEF t
  <2> QED BY <1>1, <2>2, <2>3, <2>4 DEF ToSet
<1> QED BY <1>1, <1>3, <1>4 DEF Last

\* The innermost activation gone.
LEMMA Returned ==
  ASSUME NEW S, NEW s \in Seq(S), s # <<>>
  PROVE  /\ Front(s) \in Seq(S) /\ Len(Front(s)) = Len(s) - 1
         /\ Len(s) \in Nat \ {0}
         /\ \A k \in 1..(Len(s) - 1) : Front(s)[k] = s[k]
<1>1. Len(s) \in Nat \ {0}
  BY EmptySeq
<1>2. \A k \in 1..(Len(s) - 1) : s[k] \in S
  BY <1>1
<1> DEFINE t == SubSeq(s, 1, Len(s) - 1)
<1>3. /\ t \in Seq(S) /\ Len(t) = IF 1 <= Len(s) - 1 THEN (Len(s) - 1) - 1 + 1 ELSE 0
      /\ \A k \in 1..((Len(s) - 1) - 1 + 1) : t[k] = s[1 + k - 1]
  <2>1. Len(s) - 1 \in Int
    BY <1>1
  <2> QED BY <1>2, <2>1, SubSeqProperties
<1> HIDE DEF t
<1>4. Len(t) = Len(s) - 1
  <2>1. \A L \in Nat \ {0} : (IF 1 <= L - 1 THEN (L - 1) - 1 + 1 ELSE 0) = L - 1
    OBVIOUS
  <2> QED BY <1>1, <1>3, <2>1
<1>5. \A k \in 1..(Len(s) - 1) : t[k] = s[k]
  BY <1>1, <1>3
<1> QED BY <1>1, <1>3, <1>4, <1>5 DEF Front, t

\* The innermost activation replaced by another.
LEMMA Replaced ==
  ASSUME NEW S, NEW s \in Seq(S), s # <<>>, NEW f \in S
  PROVE  /\ Last(s) \in S /\ Len(s) \in Nat \ {0}
         /\ Append(Front(s), f) \in Seq(S)
         /\ Len(Append(Front(s), f)) = Len(s)
         /\ Append(Front(s), f)[Len(s)] = f
         /\ \A k \in 1..(Len(s) - 1) : Append(Front(s), f)[k] = s[k]
<1>1. Len(s) \in Nat \ {0}
  BY EmptySeq
<1>2. /\ Front(s) \in Seq(S) /\ Len(Front(s)) = Len(s) - 1
      /\ \A k \in 1..(Len(s) - 1) : Front(s)[k] = s[k]
  BY Returned
<1>3. Last(s) \in S
  BY <1>1 DEF Last
<1> QED BY <1>1, <1>2, <1>3, AppendProperties

\* The innermost activation replaced by another, and one more on top.
LEMMA Called ==
  ASSUME NEW S, NEW s \in Seq(S), s # <<>>, NEW f \in S, NEW g \in S
  PROVE  LET t == Front(s) \o <<f, g>>
         IN  /\ t \in Seq(S) /\ Len(t) = Len(s) + 1
             /\ t[Len(s) + 1] = g /\ t[Len(s)] = f
             /\ \A k \in 1..(Len(s) - 1) : t[k] = s[k]
<1> DEFINE t == Front(s) \o <<f, g>>
<1>1. Len(s) \in Nat \ {0} /\ Front(s) \in Seq(S) /\ Len(Front(s)) = Len(s) - 1
  BY Returned
<1>2. \A k \in 1..(Len(s) - 1) : Front(s)[k] = s[k]
  BY Returned
<1>3. <<f, g>> \in Seq(S) /\ Len(<<f, g>>) = 2 /\ <<f, g>>[1] = f /\ <<f, g>>[2] = g
  OBVIOUS
<1>4. /\ t \in Seq(S) /\ Len(t) = (Len(s) - 1) + 2
      /\ \A k \in 1..((Len(s) - 1) + 2) :
           t[k] = IF k <= Len(s) - 1 THEN Front(s)[k] ELSE <<f, g>>[k - (Len(s) - 1)]
  BY <1>1, <1>3, ConcatProperties
<1> HIDE DEF t
<1>5. t[Len(s)] = <<f, g>>[1] /\ t[Len(s) + 1] = <<f, g>>[2]
  BY <1>1, <1>4, Len(s) - (Len(s) - 1) = 1, (Len(s) + 1) - (Len(s) - 1) = 2
<1>6. \A k \in 1..(Len(s) - 1) : t[k] = s[k]
  BY <1>1, <1>2, <1>4
<1> QED BY <1>1, <1>3, <1>4, <1>5, <1>6 DEF t

-----------------------------------------------------------------------------
(***************************************************************************)
(* Ranks.                                                                  *)
(***************************************************************************)

\* Ranks number the kept positions from 1 to their count.
LEMMA RankOnto ==
  ASSUME NEW N \in Nat, NEW kept \in SUBSET (1..N)
  PROVE  /\ IsFiniteSet(kept) /\ Cardinality(kept) \in Nat
         /\ \A n \in kept : Rank(kept, n) \in 1..Cardinality(kept)
         /\ \A k \in 1..Cardinality(kept) : \E n \in kept : Rank(kept, n) = k
<1> DEFINE S(n) == {m \in kept : m <= n}
           C == Cardinality(kept)
           rank == [n \in kept |-> Rank(kept, n)]
<1>1. IsFiniteSet(kept) /\ C \in Nat
  <2>1. IsFiniteSet(1..N)
    BY FS_Interval
  <2>2. IsFiniteSet(kept)
    BY <2>1, FS_Subset
  <2> QED BY <2>2, FS_CardinalityType
<1>2. \A n : /\ IsFiniteSet(S(n)) /\ Cardinality(S(n)) <= C
             /\ Cardinality(S(n)) \in Nat
  <2> TAKE n
  <2>1. S(n) \in SUBSET kept
    OBVIOUS
  <2>2. IsFiniteSet(S(n)) /\ Cardinality(S(n)) <= C
    BY <1>1, <2>1, FS_Subset
  <2> QED BY <2>2, FS_CardinalityType
<1>3. \A n \in kept : Rank(kept, n) \in 1..C
  <2> TAKE n \in kept
  <2>1. n \in S(n)
    OBVIOUS
  <2>2. Cardinality(S(n)) # 0
    BY <1>2, <2>1, FS_EmptySet
  <2> QED BY <1>1, <1>2, <2>2 DEF Rank
<1>4. ASSUME NEW n \in kept, NEW m \in kept, n < m
      PROVE  Rank(kept, n) # Rank(kept, m)
  <2>1. m \notin S(n) /\ S(n) \cup {m} \in SUBSET S(m)
    <3>1. \A k \in kept : k \in Nat
      OBVIOUS
    <3>2. \A k \in kept : k <= n => k <= m
      BY <1>4, <3>1
    <3>3. ~(m <= n)
      BY <1>4, <3>1
    <3>4. m <= m
      BY <3>1
    <3> QED BY <3>2, <3>3, <3>4
  <2>2. Cardinality(S(n) \cup {m}) = Cardinality(S(n)) + 1
    BY <1>2, <2>1, FS_AddElement
  <2>3. Cardinality(S(n) \cup {m}) <= Cardinality(S(m))
    BY <1>2, <2>1, FS_Subset
  <2> QED BY <1>2, <2>2, <2>3 DEF Rank
<1>5. rank \in Injection(kept, 1..C)
  <2>1. rank \in [kept -> 1..C]
    BY <1>3
  <2>2. \A n, m \in kept : rank[n] = rank[m] => n = m
    BY <1>4
  <2> QED BY <2>1, <2>2 DEF Injection, IsInjective
<1>6. IsFiniteSet(1..C) /\ Cardinality(1..C) = C
  BY <1>1, FS_Interval
<1>7. rank \in Surjection(kept, 1..C)
  BY <1>5, <1>6, FS_Injection
<1>8. \A k \in 1..C : \E n \in kept : Rank(kept, n) = k
  BY <1>7 DEF Surjection
<1> QED BY <1>1, <1>3, <1>8

-----------------------------------------------------------------------------
(***************************************************************************)
(* Readings.                                                               *)
(***************************************************************************)

\* A list of one port reads as itself.
LEMMA ReadOne ==
  ASSUME NEW p PROVE IsReading(<<p>>, <<p>>)
<1> DEFINE kept == DOMAIN <<p>> \ {}
<1>1. kept = {1} /\ Len(<<p>>) = 1
  OBVIOUS
<1>2. Cardinality(kept) = 1
  BY <1>1, FS_Singleton
<1>3. Rank(kept, 1) = 1
  <2>1. {m \in kept : m <= 1} = {1}
    BY <1>1
  <2> QED BY <2>1, FS_Singleton DEF Rank
<1>4. /\ Len(<<p>>) = Cardinality(kept)
      /\ \A n \in kept : <<p>>[Rank(kept, n)] = <<p>>[n]
  BY <1>1, <1>2, <1>3
<1>5. {} \in SUBSET {n \in DOMAIN <<p>> : <<p>>[n] = net.dst_port}
  OBVIOUS
<1> HIDE DEF kept
<1> QED BY <1>4, <1>5 DEF IsReading, kept

\* One port more in both lists.
LEMMA ReadMore ==
  ASSUME NEW S, NEW w \in Seq(S), NEW path \in Seq(S), NEW p \in S,
         IsReading(w, path)
  PROVE  IsReading(Append(w, p), Append(path, p))
<1> DEFINE N == Len(path)
           w2 == Append(w, p)
           path2 == Append(path, p)
<1>1. PICK mentions \in SUBSET {n \in DOMAIN path : path[n] = net.dst_port} :
        LET kept == DOMAIN path \ mentions
        IN  /\ Len(w) = Cardinality(kept)
            /\ \A n \in kept : w[Rank(kept, n)] = path[n]
  BY DEF IsReading
<1> DEFINE kept == DOMAIN path \ mentions
           kept2 == DOMAIN path2 \ mentions
<1>2. N \in Nat /\ DOMAIN path = 1..N /\ DOMAIN path2 = 1..(N + 1)
      /\ Len(w) \in Nat /\ DOMAIN w = 1..Len(w)
  OBVIOUS
<1>3. /\ \A n \in 1..N : path2[n] = path[n]
      /\ path2[N + 1] = p
      /\ \A n \in 1..Len(w) : w2[n] = w[n]
      /\ w2[Len(w) + 1] = p /\ Len(w2) = Len(w) + 1
  BY <1>2
<1>4. /\ kept \in SUBSET (1..N) /\ N + 1 \notin kept
      /\ kept2 = kept \cup {N + 1}
  BY <1>2
<1>5. /\ IsFiniteSet(kept) /\ Len(w) = Cardinality(kept)
      /\ \A n \in kept : Rank(kept, n) \in 1..Len(w) /\ w[Rank(kept, n)] = path[n]
  BY <1>1, <1>2, <1>4, RankOnto
<1>6. mentions \in SUBSET {n \in DOMAIN path2 : path2[n] = net.dst_port}
  BY <1>2, <1>3
<1> HIDE DEF kept, kept2, w2, path2, N
<1>7. Cardinality(kept2) = Len(w) + 1
  BY <1>4, <1>5, FS_AddElement
<1>8. ASSUME NEW n \in kept PROVE w2[Rank(kept2, n)] = path2[n]
  <2>1. {m \in kept2 : m <= n} = {m \in kept : m <= n}
    BY <1>2, <1>4
  <2>2. Rank(kept2, n) = Rank(kept, n)
    BY <2>1 DEF Rank
  <2> QED BY <1>3, <1>4, <1>5, <2>2
<1>9. w2[Rank(kept2, N + 1)] = path2[N + 1]
  <2>1. \A m \in kept2 : m <= N + 1
    BY <1>2, <1>4
  <2>2. {m \in kept2 : m <= N + 1} = kept2
    BY <2>1
  <2> QED BY <1>3, <1>7, <2>2 DEF Rank
<1>10. \A n \in kept2 : w2[Rank(kept2, n)] = path2[n]
  BY <1>4, <1>8, <1>9
<1> QED BY <1>3, <1>6, <1>7, <1>10 DEF IsReading, kept2, w2, path2

\* One mention of dst_port more, discounted.
LEMMA ReadMention ==
  ASSUME NEW S, NEW w \in Seq(S), NEW path \in Seq(S), net.dst_port \in S,
         IsReading(w, path)
  PROVE  IsReading(w, Append(path, net.dst_port))
<1> DEFINE N == Len(path)
           path2 == Append(path, net.dst_port)
<1>1. PICK mentions \in SUBSET {n \in DOMAIN path : path[n] = net.dst_port} :
        LET kept == DOMAIN path \ mentions
        IN  /\ Len(w) = Cardinality(kept)
            /\ \A n \in kept : w[Rank(kept, n)] = path[n]
  BY DEF IsReading
<1> DEFINE more == mentions \cup {N + 1}
<1>2. /\ N \in Nat /\ DOMAIN path = 1..N /\ DOMAIN path2 = 1..(N + 1)
      /\ \A n \in 1..N : path2[n] = path[n]
      /\ path2[N + 1] = net.dst_port
  BY AppendProperties
<1> HIDE DEF N, path2
<1>3. DOMAIN path2 \ more = DOMAIN path \ mentions
  BY <1>2
<1>4. more \in SUBSET {n \in DOMAIN path2 : path2[n] = net.dst_port}
  BY <1>2
<1>5. \A n \in DOMAIN path \ mentions : path2[n] = path[n]
  BY <1>2
<1> HIDE DEF more
<1>6. /\ Len(w) = Cardinality(DOMAIN path2 \ more)
      /\ \A n \in DOMAIN path2 \ more : w[Rank(DOMAIN path2 \ more, n)] = path2[n]
  BY <1>1, <1>3, <1>5
<1> QED BY <1>4, <1>6 DEF IsReading, path2

\* A list and its reading mention the same ports, dst_port aside, and the
\* reading mentions none that the list does not.
LEMMA ReadSame ==
  ASSUME NEW S, NEW w \in Seq(S), NEW path \in Seq(S), IsReading(w, path)
  PROVE  /\ ToSet(w) \subseteq ToSet(path)
         /\ ToSet(path) \ {net.dst_port} \subseteq ToSet(w)
<1>1. PICK mentions \in SUBSET {n \in DOMAIN path : path[n] = net.dst_port} :
        LET kept == DOMAIN path \ mentions
        IN  /\ Len(w) = Cardinality(kept)
            /\ \A n \in kept : w[Rank(kept, n)] = path[n]
  BY DEF IsReading
<1> DEFINE kept == DOMAIN path \ mentions
<1>2. Len(path) \in Nat /\ kept \in SUBSET (1..Len(path)) /\ DOMAIN w = 1..Cardinality(kept)
  BY <1>1
<1>3. /\ \A n \in kept : Rank(kept, n) \in DOMAIN w
      /\ \A k \in DOMAIN w : \E n \in kept : Rank(kept, n) = k
  BY <1>2, RankOnto
<1>4. ASSUME NEW o \in ToSet(w) PROVE o \in ToSet(path)
  <2>1. PICK k \in DOMAIN w : o = w[k]
    BY DEF ToSet
  <2>2. PICK n \in kept : Rank(kept, n) = k
    BY <1>3
  <2> QED BY <1>1, <2>1, <2>2 DEF ToSet
<1>5. ASSUME NEW o \in ToSet(path) \ {net.dst_port} PROVE o \in ToSet(w)
  <2>1. PICK n \in DOMAIN path : o = path[n]
    BY DEF ToSet
  <2>2. n \in kept
    BY <2>1
  <2> QED BY <1>1, <1>3, <2>1, <2>2 DEF ToSet
<1> QED BY <1>4, <1>5

-----------------------------------------------------------------------------
(***************************************************************************)
(* Journeys.                                                               *)
(***************************************************************************)

\* A hop leads from an out_port with links to an in-port behind it.
LEMMA HopType ==
  ASSUME IsNetwork(net), NEW hop \in Hops
  PROVE  /\ hop[1] \in DOMAIN net.topology /\ hop[1] \in Ports /\ hop[2] \in Ports
         /\ hop[2] \in ToSet(net.topology[hop[1]])
BY DEF IsNetwork, Hops

\* The ports passed are ports, and the list has them all and no others.
LEMMA TrailVisits ==
  ASSUME IsNetwork(net), NEW hops \in Seq(Hops), NEW n \in 0..Len(hops)
  PROVE  Trail(hops, n) \in Seq(Ports) /\ ToSet(Trail(hops, n)) = Visited(hops, n)
<1> DEFINE t == Trail(hops, n)
<1>1. n \in Nat /\ \A m \in 1..n : hops[m] \in Hops
  OBVIOUS
<1>2. /\ \A m \in 1..n : hops[m][1] \in Ports /\ hops[m][2] \in Ports
      /\ net.from_port \in Ports
  BY <1>1, HopType DEF IsNetwork
<1>3. \A m \in 0..n : Inport(hops, m) \in Ports
  BY <1>1, <1>2 DEF Inport
<1>4. DOMAIN t = 1..(2 * n + 1) /\ 2 * n + 1 \in Nat
  BY <1>1 DEF Trail
<1>5. \A k \in 1..(2 * n + 1) :
        \/ k % 2 = 1 /\ k \div 2 \in 0..n /\ t[k] = Inport(hops, k \div 2)
        \/ k % 2 = 0 /\ k \div 2 \in 1..n /\ t[k] = hops[k \div 2][1]
  BY <1>1 DEF Trail
<1>6. \A m \in 0..n : 2 * m + 1 \in 1..(2 * n + 1) /\ t[2 * m + 1] = Inport(hops, m)
  <2> TAKE m \in 0..n
  <2>1. (2 * m + 1) % 2 = 1 /\ (2 * m + 1) \div 2 = m /\ 2 * m + 1 \in 1..(2 * n + 1)
    BY <1>1
  <2> QED BY <2>1 DEF Trail
<1>7. \A m \in 1..n : 2 * m \in 1..(2 * n + 1) /\ t[2 * m] = hops[m][1]
  <2> TAKE m \in 1..n
  <2>1. (2 * m) % 2 = 0 /\ (2 * m) \div 2 = m /\ 2 * m \in 1..(2 * n + 1)
    BY <1>1
  <2> QED BY <2>1 DEF Trail
<1> HIDE DEF t
<1>8. \A k \in 1..(2 * n + 1) : t[k] \in Ports /\ t[k] \in Visited(hops, n)
  BY <1>2, <1>3, <1>5 DEF Visited
<1>9. t \in Seq(Ports)
  <2>1. t = [k \in 1..(2 * n + 1) |-> t[k]]
    BY DEF t, Trail
  <2>2. t \in [1..(2 * n + 1) -> Ports]
    BY <1>8, <2>1
  <2> QED BY <1>4, <2>2
<1>10. \A o \in Visited(hops, n) : \E k \in DOMAIN t : t[k] = o
  BY <1>4, <1>6, <1>7 DEF Visited
<1> QED BY <1>4, <1>8, <1>9, <1>10 DEF ToSet, t

\* One hop further, the list is two ports longer.
LEMMA TrailMore ==
  ASSUME IsNetwork(net), NEW hops \in Seq(Hops), NEW n \in 0..(Len(hops) - 1)
  PROVE  Trail(hops, n + 1) = Append(Append(Trail(hops, n), hops[n + 1][1]), hops[n + 1][2])
<1> DEFINE t == Trail(hops, n)
           t2 == Trail(hops, n + 1)
           o == hops[n + 1][1]
           p == hops[n + 1][2]
           u == Append(Append(t, o), p)
<1>1. n \in Nat /\ n \in 0..Len(hops) /\ n + 1 \in 0..Len(hops) /\ n + 1 \in 1..Len(hops)
  OBVIOUS
<1>2. t \in Seq(Ports) /\ t2 \in Seq(Ports)
  BY <1>1, TrailVisits
<1>3. o \in Ports /\ p \in Ports
  BY <1>1, HopType
<1>4. Len(t) = 2 * n + 1 /\ Len(t2) = 2 * n + 3
  BY <1>1, <1>2 DEF Trail
<1>5. /\ u \in Seq(Ports) /\ Len(u) = 2 * n + 3
      /\ \A k \in 1..(2 * n + 1) : u[k] = t[k]
      /\ u[2 * n + 2] = o /\ u[2 * n + 3] = p
  <2> DEFINE a == Append(t, o)
  <2> HIDE DEF t
  <2>1. /\ a \in Seq(Ports) /\ Len(a) = 2 * n + 1 + 1
        /\ \A k \in 1..(2 * n + 1) : a[k] = t[k]
        /\ a[2 * n + 1 + 1] = o
    BY <1>2, <1>3, <1>4, AppendProperties
  <2> HIDE DEF a
  <2>2. /\ Append(a, p) \in Seq(Ports) /\ Len(Append(a, p)) = 2 * n + 3
        /\ \A k \in 1..(2 * n + 2) : Append(a, p)[k] = a[k]
        /\ Append(a, p)[2 * n + 3] = p
    BY <1>1, <1>3, <2>1, AppendProperties, 2 * n + 1 + 1 = 2 * n + 2, 2 * n + 2 + 1 = 2 * n + 3
  <2>3. \A k \in 1..(2 * n + 1) : k \in 1..(2 * n + 2)
    BY <1>1
  <2> QED BY <1>1, <2>1, <2>2, <2>3 DEF a
<1>6. \A k \in 1..(2 * n + 1) : t2[k] = t[k]
  BY <1>1 DEF Trail
<1>7. t2[2 * n + 2] = o
  <2>1. /\ (2 * n + 2) % 2 = 0 /\ (2 * n + 2) \div 2 = n + 1
        /\ 2 * n + 2 \in 1..(2 * (n + 1) + 1)
    BY <1>1
  <2> QED BY <2>1 DEF Trail
<1>8. t2[2 * n + 3] = p
  <2>1. /\ (2 * n + 3) % 2 = 1 /\ (2 * n + 3) \div 2 = n + 1 /\ n + 1 # 0
        /\ 2 * n + 3 \in 1..(2 * (n + 1) + 1)
    BY <1>1
  <2> QED BY <2>1 DEF Trail, Inport
<1> HIDE DEF t, t2, u, o, p
<1>9. \A k \in 1..(2 * n + 3) : k \in 1..(2 * n + 1) \/ k = 2 * n + 2 \/ k = 2 * n + 3
  BY <1>1
<1>10. \A k \in 1..Len(u) : t2[k] = u[k]
  BY <1>4, <1>5, <1>6, <1>7, <1>8, <1>9
<1>11. t2 = u
  BY <1>2, <1>4, <1>5, <1>10, SeqEqual
<1> QED BY <1>11 DEF t, t2, u, o, p

\* A journey takes no out_port twice, so it has no more hops than there are
\* out_ports with links.
LEMMA JourneyBounded ==
  ASSUME IsNetwork(net), NEW hops \in Seq(Hops), NEW h, Travels(h, hops)
  PROVE  /\ Cardinality(DOMAIN net.topology) \in Nat
         /\ Len(hops) <= Cardinality(DOMAIN net.topology)
<1> DEFINE T == DOMAIN net.topology
           N == Len(hops)
           out == [n \in 1..N |-> hops[n][1]]
<1>1. IsFiniteSet(T) /\ Cardinality(T) \in Nat
  BY PortsAssumption, FS_Subset, FS_CardinalityType DEF IsNetwork
<1>2. N \in Nat /\ DOMAIN hops = 1..N /\ \A n \in 1..N : hops[n] \in Hops
  OBVIOUS
<1>3. out \in [1..N -> T]
  BY <1>2, HopType
<1>4. \A n, m \in 1..N : m < n => hops[n][1] # hops[m][1]
  BY <1>2 DEF Travels, Visited
<1>5. out \in Injection(1..N, T)
  <2>1. \A n, m \in 1..N : out[n] = out[m] => n = m
    BY <1>2, <1>4
  <2> QED BY <1>3, <2>1 DEF Injection, IsInjective
<1>6. Cardinality(1..N) <= Cardinality(T)
  BY <1>1, <1>5, FS_Injection
<1>7. Cardinality(1..N) = N
  <2>1. Cardinality(1..N) = IF 1 > N THEN 0 ELSE N - 1 + 1
    BY <1>2, FS_Interval, SMTT(30)
  <2>2. \A n \in Nat : (IF 1 > n THEN 0 ELSE n - 1 + 1) = n
    OBVIOUS
  <2> QED BY <1>2, <2>1, <2>2
<1> QED BY <1>1, <1>6, <1>7

\* A route short enough is one of the routes of Journeys.
LEMMA JourneyListed ==
  ASSUME IsNetwork(net), NEW hops \in Seq(Hops), NEW h \in Packets, Travels(h, hops)
  PROVE  <<h, hops>> \in Journeys
<1>1. Len(hops) \in 0..Cardinality(DOMAIN net.topology)
  BY JourneyBounded
<1>2. hops \in [1..Len(hops) -> Hops]
  OBVIOUS
<1> QED BY <1>1, <1>2 DEF Journeys

\* A journey in Journeys is a packet with a sequence of hops.
LEMMA JourneyType ==
  ASSUME IsNetwork(net), NEW j \in Journeys
  PROVE  /\ j[1] \in Packets /\ j[2] \in Seq(Hops) /\ Len(j[2]) \in Nat
         /\ Travels(j[1], j[2]) /\ j = <<j[1], j[2]>>
<1>1. PICK n \in 0..Cardinality(DOMAIN net.topology) : j[2] \in [1..n -> Hops]
  BY DEF Journeys
<1>2. j[2] \in Seq(Hops)
  BY <1>1
<1> QED BY <1>2 DEF Journeys

\* A journey that goes on over a link to a new port.
LEMMA JourneyMore ==
  ASSUME IsNetwork(net), NEW hops \in Seq(Hops), NEW h, Travels(h, hops),
         NEW hop \in Hops, Sends(Inport(hops, Len(hops)), h, hop[1]),
         hop[1] # net.dst_port, NEW path \in Seq(Ports),
         IsReading(Trail(hops, Len(hops)), path), hop[1] \notin ToSet(path)
  PROVE  LET more == Append(hops, hop)
         IN  /\ more \in Seq(Hops) /\ Len(more) = Len(hops) + 1
             /\ Travels(h, more) /\ Inport(more, Len(more)) = hop[2]
             /\ IsReading(Trail(more, Len(more)), Append(Append(path, hop[1]), hop[2]))
<1> DEFINE N == Len(hops)
           more == Append(hops, hop)
<1>1. /\ N \in Nat /\ more \in Seq(Hops) /\ Len(more) = N + 1
      /\ DOMAIN hops = 1..N /\ DOMAIN more = 1..(N + 1)
      /\ \A n \in 1..N : more[n] = hops[n]
      /\ more[N + 1] = hop
  BY AppendProperties
<1> HIDE DEF more
<1>2. \A m \in 0..N : Inport(more, m) = Inport(hops, m)
  BY <1>1 DEF Inport
<1>3. \A n \in 0..N : Visited(more, n) = Visited(hops, n)
  <2> TAKE n \in 0..N
  <2>1. \A m \in 0..n : Inport(more, m) = Inport(hops, m)
    BY <1>1, <1>2
  <2>2. \A m \in 1..n : more[m][1] = hops[m][1]
    BY <1>1
  <2> QED BY <2>1, <2>2 DEF Visited
<1>4. Trail(hops, N) \in Seq(Ports) /\ ToSet(Trail(hops, N)) = Visited(hops, N)
  BY <1>1, TrailVisits
<1>5. hop[1] \notin Visited(hops, N)
  BY <1>4, ReadSame
<1>6. Travels(h, more)
  <2>1. ASSUME NEW n \in 1..N
        PROVE  /\ Sends(Inport(more, n - 1), h, more[n][1])
               /\ more[n][1] # net.dst_port
               /\ more[n][1] \notin Visited(more, n - 1)
    <3>1. n - 1 \in 0..N
      BY <1>1
    <3> QED BY <1>1, <1>2, <1>3, <3>1 DEF Travels
  <2>2. /\ Sends(Inport(more, (N + 1) - 1), h, more[N + 1][1])
        /\ more[N + 1][1] # net.dst_port
        /\ more[N + 1][1] \notin Visited(more, (N + 1) - 1)
    <3>1. (N + 1) - 1 = N /\ N \in 0..N
      BY <1>1
    <3> QED BY <1>1, <1>2, <1>3, <1>5, <3>1
  <2>3. \A n \in 1..(N + 1) : n \in 1..N \/ n = N + 1
    BY <1>1
  <2> QED BY <1>1, <2>1, <2>2, <2>3 DEF Travels
<1>7. Inport(more, N + 1) = hop[2]
  BY <1>1 DEF Inport
<1>8. Trail(more, N) = Trail(hops, N)
  <2>1. \A k \in 1..(2 * N + 1) :
          /\ k % 2 = 1 => Inport(more, k \div 2) = Inport(hops, k \div 2)
          /\ k % 2 # 1 => more[k \div 2][1] = hops[k \div 2][1]
    BY <1>1, <1>2
  <2> QED BY <2>1 DEF Trail
<1>9. Trail(more, N + 1) = Append(Append(Trail(hops, N), hop[1]), hop[2])
  <2>1. N \in 0..(Len(more) - 1)
    BY <1>1
  <2> QED BY <1>1, <1>8, <2>1, TrailMore
<1>10. hop[1] \in Ports /\ hop[2] \in Ports
  BY HopType
<1>11. IsReading(Append(Trail(hops, N), hop[1]), Append(path, hop[1]))
  BY <1>4, <1>10, ReadMore
<1>12. /\ Append(Trail(hops, N), hop[1]) \in Seq(Ports)
       /\ Append(path, hop[1]) \in Seq(Ports)
  BY <1>4, <1>10, AppendFront
<1>13. IsReading(Trail(more, N + 1), Append(Append(path, hop[1]), hop[2]))
  BY <1>9, <1>10, <1>11, <1>12, ReadMore
<1> QED BY <1>1, <1>6, <1>7, <1>13 DEF more

-----------------------------------------------------------------------------
(***************************************************************************)
(* The strengthening, first for one activation f that is the k-th of the   *)
(* stack, so k - 1 hops from where the query started.                      *)
(***************************************************************************)

\* passed_port without the out_port whose links are being followed.
Base(f) == IF f.link > 0 THEN Front(f.passed) ELSE f.passed

AtPredicate(f) == f.port \in DOMAIN net.table /\ f.it <= Len(net.table[f.port])
NodeOf(f) == net.table[f.port][f.it]

\* The loop indexes are one past their bounds at most.
Bounded(f) ==
  f.port \in DOMAIN net.table =>
    /\ f.it <= Len(net.table[f.port]) + 1
    /\ f.it <= Len(net.table[f.port]) => f.i <= Len(NodeOf(f).out_ports) + 1

\* No activation, and no predicate inside one, is entered without a packet.
Entered(f, k) ==
  /\ k > 1 => f.packet # {}
  /\ AtPredicate(f) /\ f.i > 0 => f.packet \cap NodeOf(f).match # {}

\* While links are followed, passed_port ends in their out_port, a new one.
Following(f) ==
  f.link > 0 =>
    /\ AtPredicate(f) /\ f.i \in 1..Len(NodeOf(f).out_ports)
    /\ LET o == NodeOf(f).out_ports[f.i]
       IN  /\ o \in DOMAIN net.topology /\ o # net.dst_port /\ o \notin ToSet(Base(f))
           /\ Base(f) \in Seq(Ports) /\ f.passed = Append(Base(f), o)

\* Every packet of the activation has made the journey that passed_port
\* tells of.
Traced(f, k) ==
  \A h \in f.packet : \E j \in Journeys :
    /\ j[1] = h /\ Len(j[2]) = k - 1
    /\ Inport(j[2], k - 1) = f.port /\ IsReading(Trail(j[2], k - 1), Base(f))

FrameOK(f, k) == Bounded(f) /\ Entered(f, k) /\ Following(f) /\ Traced(f, k)
FramesOK == \A k \in DOMAIN stack : FrameOK(stack[k], k)

(***************************************************************************)
(* What is still to be done.  A packet on its way by hops and then out of  *)
(* port o has been followed for k - 1 hops, and the next out_port, at      *)
(* index e of predicate n, and the link behind it are still to come.       *)
(***************************************************************************)
NextOut(hops, n, o) == IF n = Len(hops) THEN o ELSE hops[n + 1][1]

LinkToCome(f, k, hops) ==
  /\ k <= Len(hops)
  /\ \E l \in DOMAIN net.topology[hops[k][1]] :
       l >= f.link /\ net.topology[hops[k][1]][l] = hops[k][2]

ToCome(f, k, hops, n, e) ==
  \/ n > f.it
  \/ n = f.it /\ e > f.i
  \/ n = f.it /\ e = f.i /\ (f.link = 0 \/ LinkToCome(f, k, hops))

Ahead(f, k, h, hops, o) ==
  /\ k <= Len(hops) + 1
  /\ h \in f.packet /\ f.port = Inport(hops, k - 1)
  /\ IsReading(Trail(hops, k - 1), Base(f))
  /\ f.port \in DOMAIN net.table
  /\ \E n \in DOMAIN net.table[f.port] :
       LET outs == net.table[f.port][n].out_ports
       IN  /\ h \in net.table[f.port][n].match
           /\ \E e \in DOMAIN outs :
                outs[e] = NextOut(hops, k - 1, o) /\ ToCome(f, k, hops, n, e)

Pending(h, hops, o) == \E k \in DOMAIN stack : Ahead(stack[k], k, h, hops, o)

Printed(h, hops) == \E r \in paths : h \in r.match /\ TellsOf(Front(r.path), <<h, hops>>)

\* Every journey to dst_port is printed or still to be, unless propagate_bdd
\* has met a loop.
PathsToCome ==
  (StopAtLoop => loops = {}) =>
    \A j \in JourneysTo(net.dst_port) :
      Pending(j[1], j[2], net.dst_port) \/ Printed(j[1], j[2])

\* As long as no loop is printed, every loop is still to be.
LoopsToCome ==
  loops = {} =>
    \A j \in Journeys : \A o \in Visited(j[2], Len(j[2])) \ {net.dst_port} :
      Leads(j, o) => Pending(j[1], j[2], o)

IInv ==
  /\ TypeOK
  /\ FramesOK
  /\ PrintsAreReal
  /\ PathsToCome /\ LoopsToCome

-----------------------------------------------------------------------------
(***************************************************************************)
(* What a step keeps.                                                      *)
(***************************************************************************)

\* The network does not change, so neither does what depends on it alone.
LEMMA SameNetwork ==
  ASSUME net' = net
  PROVE  /\ Journeys' = Journeys /\ Hops' = Hops
         /\ \A f, k : FrameOK(f, k)' <=> FrameOK(f, k)
         /\ \A h, hops : Travels(h, hops)' <=> Travels(h, hops)
         /\ \A f, k, h, hops, o : Ahead(f, k, h, hops, o)' <=> Ahead(f, k, h, hops, o)
         /\ \A path, j : TellsOf(path, j)' <=> TellsOf(path, j)
         /\ \A j, o : Leads(j, o)' <=> Leads(j, o)
         /\ \A hops, n : Visited(hops, n)' = Visited(hops, n)
<1>1. /\ Hops' = Hops
      /\ \A hops, n : Inport(hops, n)' = Inport(hops, n)
      /\ \A p, h, o : Sends(p, h, o)' <=> Sends(p, h, o)
      /\ \A w, path : IsReading(w, path)' <=> IsReading(w, path)
  BY DEF Hops, Inport, Sends, IsReading
<1>2. /\ \A hops, n : Visited(hops, n)' = Visited(hops, n)
      /\ \A hops, n : Trail(hops, n)' = Trail(hops, n)
  BY <1>1 DEF Visited, Trail
<1>3. \A h, hops : Travels(h, hops)' <=> Travels(h, hops)
  BY <1>1, <1>2 DEF Travels
<1>4. Journeys' = Journeys
  BY <1>1, <1>3 DEF Journeys
<1>5. \A path, j : TellsOf(path, j)' <=> TellsOf(path, j)
  BY <1>1, <1>2 DEF TellsOf
<1>6. \A j, o : Leads(j, o)' <=> Leads(j, o)
  BY <1>1 DEF Leads
<1>7. \A f, k : FrameOK(f, k)' <=> FrameOK(f, k)
  <2>1. \A f, k : Traced(f, k)' <=> Traced(f, k)
    BY <1>1, <1>2, <1>4 DEF Traced, Base
  <2>2. /\ \A f : Bounded(f)' <=> Bounded(f)
        /\ \A f, k : Entered(f, k)' <=> Entered(f, k)
        /\ \A f : Following(f)' <=> Following(f)
    BY DEF Bounded, Entered, Following, AtPredicate, NodeOf, Base
  <2> QED BY <2>1, <2>2 DEF FrameOK
<1>8. \A f, k, h, hops, o : Ahead(f, k, h, hops, o)' <=> Ahead(f, k, h, hops, o)
  BY <1>1, <1>2 DEF Ahead, ToCome, LinkToCome, NextOut, Base
<1> QED BY <1>1, <1>2, <1>3, <1>4, <1>5, <1>6, <1>7, <1>8

\* The innermost activation is the last of the stack.
LEMMA TopFacts ==
  ASSUME TypeOK, stack # <<>>
  PROVE  /\ top \in Frame /\ top = stack[Len(stack)]
         /\ Len(stack) \in Nat \ {0} /\ DOMAIN stack = 1..Len(stack)
         /\ IsNetwork(net)
<1>1. stack \in Seq(Frame)
  BY DEF TypeOK
<1> QED BY <1>1, Replaced DEF TypeOK, top, Last

\* At a predicate, what the table says about it.
LEMMA NodeFacts ==
  ASSUME TypeOK, AtNode
  PROVE  /\ top.port \in DOMAIN net.table /\ nodes \in Seq(Node)
         /\ top.it \in 1..Len(nodes) /\ top.it \in Nat /\ Len(nodes) \in Nat
         /\ node = NodeOf(top) /\ AtPredicate(top)
         /\ node.match \subseteq Packets /\ node.out_ports \in Seq(Ports)
         /\ node \in ToSet(net.table[top.port])
<1>1. top \in Frame /\ IsNetwork(net)
  BY TopFacts DEF AtNode, Active
<1>2. top.it \in Nat \ {0} /\ top.port \in DOMAIN net.table /\ nodes \in Seq(Node)
  BY <1>1 DEF Frame, IsNetwork, AtNode, Active, nodes
<1>3. top.it \in 1..Len(nodes) /\ Len(nodes) \in Nat /\ node \in Node
  BY <1>2 DEF AtNode, node
<1>4. node.match \subseteq Packets /\ node.out_ports \in Seq(Ports)
  BY <1>3 DEF Node
<1>5. node \in ToSet(net.table[top.port])
  BY <1>2, <1>3 DEF ToSet, nodes, node
<1> QED BY <1>2, <1>3, <1>4, <1>5 DEF AtPredicate, NodeOf, AtNode, nodes, node

\* The next out_port is at most one past the last.
LEMMA StillBounded ==
  ASSUME TypeOK, AtNode, NEW g, g.port = top.port, g.it = top.it,
         g.i <= Len(node.out_ports) + 1
  PROVE  Bounded(g)
<1>1. top.it \in 1..Len(net.table[top.port]) /\ Len(net.table[top.port]) \in Nat
  BY NodeFacts DEF nodes
<1>2. NodeOf(g) = node
  BY DEF NodeOf, node, nodes
<1> QED BY <1>1, <1>2 DEF Bounded

\* An activation that replaces the innermost one.
LEMMA FrameReplaced ==
  ASSUME TypeOK, FramesOK, stack # <<>>, net' = net,
         NEW g \in Frame, FrameOK(g, Len(stack)), stack' = Append(Caller, g)
  PROVE  FramesOK' /\ stack' \in Seq(Frame) /\ Len(stack') = Len(stack)
<1>1. /\ stack' \in Seq(Frame) /\ Len(stack') = Len(stack)
      /\ stack'[Len(stack)] = g /\ Len(stack) \in Nat \ {0}
      /\ \A k \in 1..(Len(stack) - 1) : stack'[k] = stack[k]
  BY Replaced, SMTT(30) DEF TypeOK, Caller
<1>2. ASSUME NEW k \in DOMAIN stack' PROVE FrameOK(stack'[k], k)
  <2>1. k \in DOMAIN stack /\ (k \in 1..(Len(stack) - 1) \/ k = Len(stack))
    BY <1>1 DEF TypeOK
  <2> QED BY <1>1, <2>1 DEF FramesOK
<1> QED BY <1>1, <1>2, SameNetwork DEF FramesOK

\* The innermost activation returns.
LEMMA FramePopped ==
  ASSUME TypeOK, FramesOK, stack # <<>>, net' = net, stack' = Caller
  PROVE  FramesOK' /\ stack' \in Seq(Frame) /\ Len(stack') = Len(stack) - 1
<1>1. /\ stack' \in Seq(Frame) /\ Len(stack') = Len(stack) - 1
      /\ Len(stack) \in Nat \ {0}
      /\ \A k \in 1..(Len(stack) - 1) : stack'[k] = stack[k]
  BY Returned DEF TypeOK, Caller
<1>2. ASSUME NEW k \in DOMAIN stack' PROVE FrameOK(stack'[k], k)
  <2>1. k \in DOMAIN stack /\ k \in 1..(Len(stack) - 1)
    BY <1>1 DEF TypeOK
  <2> QED BY <1>1, <2>1 DEF FramesOK
<1> QED BY <1>1, <1>2, SameNetwork DEF FramesOK

\* An activation that leaves passed_port, and so what it tells, alone.
LEMMA StillTraced ==
  ASSUME NEW f, NEW g, NEW k, FrameOK(f, k), g.packet = f.packet, g.port = f.port,
         Base(g) = Base(f)
  PROVE  Traced(g, k)
BY DEF FrameOK, Traced

-----------------------------------------------------------------------------
(***************************************************************************)
(* The activations.                                                        *)
(***************************************************************************)

\* A packet that passes the predicate of an out_port has made a journey that
\* passed_port tells of and that leads out of that port.
LEMMA PassesOutport ==
  ASSUME TypeOK, FramesOK, AtNode, top.i \in 1..Len(node.out_ports),
         NEW h \in intersect
  PROVE  \E j \in Journeys :
           /\ j[1] = h /\ Len(j[2]) = Len(stack) - 1
           /\ Inport(j[2], Len(j[2])) = top.port
           /\ IsReading(Trail(j[2], Len(j[2])), Base(top))
           /\ Leads(j, outport)
<1>1. stack # <<>> /\ FrameOK(top, Len(stack))
  BY TopFacts DEF FramesOK, AtNode, Active
<1>2. PICK j \in Journeys :
        /\ j[1] = h /\ Len(j[2]) = Len(stack) - 1
        /\ Inport(j[2], Len(stack) - 1) = top.port
        /\ IsReading(Trail(j[2], Len(stack) - 1), Base(top))
  BY <1>1 DEF FrameOK, Traced, intersect
<1>3. outport \in ToSet(node.out_ports)
  BY NodeFacts DEF outport, ToSet
<1>4. Sends(top.port, h, outport)
  BY <1>3, NodeFacts DEF Sends, intersect
<1> QED BY <1>2, <1>4 DEF Leads

\* An activation is entered and its predicate passed by some packet.
LEMMA SomePass ==
  ASSUME TypeOK, FramesOK, AtNode, top.i > 0
  PROVE  intersect # {}
<1>1. FrameOK(top, Len(stack))
  BY TopFacts DEF FramesOK, AtNode, Active
<1> QED BY <1>1, NodeFacts DEF FrameOK, Entered, intersect

\* Every step leaves the activations as they should be, and no more of them
\* than one for every out_port that has links, and one.
LEMMA KeepsFrames ==
  ASSUME TypeOK, FramesOK, Step
  PROVE  FramesOK' /\ stack' \in Seq(Frame)
         /\ Len(stack') <= Cardinality(DOMAIN net.topology) + 1
<1> DEFINE K == Len(stack)
           C == Cardinality(DOMAIN net.topology)
           Kept == FramesOK' /\ stack' \in Seq(Frame) /\ Len(stack') <= C + 1
<1>1. stack # <<>> /\ net' = net
  BY DEF Step, NoPort, EnterNode, NextNode, Deliver, ReportLoop, DeadEnd, PassOutport,
         FollowLink, EndLinks, Return, AtNode, AtOutport, AtLink, Active
<1>2. /\ top \in Frame /\ top = stack[K] /\ K \in Nat \ {0} /\ DOMAIN stack = 1..K
      /\ IsNetwork(net) /\ K <= C + 1
  BY <1>1, TopFacts DEF TypeOK
<1>3. FrameOK(top, K)
  BY <1>2 DEF FramesOK
<1>4. C \in Nat
  BY <1>2, PortsAssumption, FS_Subset, FS_CardinalityType DEF IsNetwork
<1>5. ASSUME NEW g \in Frame, FrameOK(g, K), Goto(g) PROVE Kept
  BY <1>1, <1>2, <1>5, FrameReplaced DEF Goto
<1>6. ASSUME stack' = Caller PROVE Kept
  BY <1>1, <1>2, <1>4, <1>6, FramePopped
<1>7. /\ top.packet \subseteq Packets /\ top.passed \in Seq(Ports) /\ top.port \in Ports
      /\ top.it \in Nat \ {0} /\ top.i \in Nat /\ top.link \in Nat
  BY <1>2 DEF Frame
<1>8. CASE NoPort \/ Return
  BY <1>6, <1>8 DEF NoPort, Return
<1>9. CASE EnterNode
  <2> DEFINE g == [top EXCEPT !.i = 1]
  <2>1. /\ g \in Frame /\ g.packet = top.packet /\ g.passed = top.passed
        /\ g.port = top.port /\ g.it = top.it /\ g.i = 1 /\ g.link = top.link
    BY <1>2 DEF Frame
  <2> HIDE DEF g
  <2>2. AtNode /\ top.i = 0 /\ intersect # {} /\ Goto(g)
    BY <1>9 DEF EnterNode, g
  <2>3. top.link = 0
    BY <1>3, <1>7, <2>2, NodeFacts DEF FrameOK, Following
  <2>4. Bounded(g)
    <3>1. g.i <= Len(node.out_ports) + 1
      BY <2>1, <2>2, NodeFacts
    <3> QED BY <2>1, <2>2, <3>1, StillBounded
  <2>5. Entered(g, K)
    BY <1>3, <2>1, <2>2, NodeFacts DEF FrameOK, Entered, NodeOf, intersect
  <2>6. Following(g) /\ Base(g) = Base(top)
    BY <2>1, <2>3 DEF Following, Base
  <2> QED BY <1>3, <1>5, <2>1, <2>2, <2>4, <2>5, <2>6, StillTraced DEF FrameOK
<1>10. CASE NextNode
  <2> DEFINE g == [top EXCEPT !.it = top.it + 1, !.i = 0]
  <2>1. /\ g \in Frame /\ g.packet = top.packet /\ g.passed = top.passed
        /\ g.port = top.port /\ g.it = top.it + 1 /\ g.i = 0 /\ g.link = top.link
    <3>1. top.it + 1 \in Nat \ {0}
      BY <1>7
    <3> QED BY <1>2, <3>1 DEF Frame
  <2> HIDE DEF g
  <2>2. AtNode /\ (top.i = 0 \/ top.i > Len(node.out_ports)) /\ Goto(g)
    BY <1>10 DEF NextNode, g
  <2>3. top.link = 0
    BY <1>3, <1>7, <2>2, NodeFacts DEF FrameOK, Following
  <2>4. Bounded(g)
    <3>1. top.it \in 1..Len(nodes) /\ Len(nodes) \in Nat /\ nodes \in Seq(Node)
      BY <2>2, NodeFacts
    <3>2. top.it + 1 <= Len(nodes) => nodes[top.it + 1] \in Node
      BY <3>1
    <3>3. top.it + 1 <= Len(nodes) => nodes[top.it + 1].out_ports \in Seq(Ports)
      BY <3>2 DEF Node
    <3>4. top.it + 1 <= Len(nodes) => 0 <= Len(nodes[top.it + 1].out_ports) + 1
      BY <3>3
    <3> QED BY <2>1, <3>1, <3>4 DEF Bounded, NodeOf, nodes
  <2>5. Entered(g, K)
    BY <1>3, <2>1 DEF FrameOK, Entered
  <2>6. Following(g) /\ Base(g) = Base(top)
    BY <2>1, <2>3 DEF Following, Base
  <2> QED BY <1>3, <1>5, <2>1, <2>2, <2>4, <2>5, <2>6, StillTraced DEF FrameOK
<1>11. CASE Deliver
  <2> DEFINE path == Append(top.passed, outport)
             g == [top EXCEPT !.passed = path, !.i = top.i + 1]
  <2>1. AtOutport /\ outport = net.dst_port /\ Goto(g) /\ net.dst_port \in Ports
    BY <1>2, <1>11 DEF Deliver, IsNetwork
  <2>2. path \in Seq(Ports)
    BY <1>7, <2>1
  <2> HIDE DEF path
  <2>3. /\ g \in Frame /\ g.packet = top.packet /\ g.passed = path
        /\ g.port = top.port /\ g.it = top.it /\ g.i = top.i + 1 /\ g.link = top.link
    <3> DEFINE n == top.i + 1
    <3>1. n \in Nat
      BY <1>7
    <3> HIDE DEF n
    <3>2. LET r == [top EXCEPT !.passed = path, !.i = n]
          IN  /\ r \in Frame /\ r.packet = top.packet /\ r.passed = path
              /\ r.port = top.port /\ r.it = top.it /\ r.i = n /\ r.link = top.link
      BY <1>2, <2>2, <3>1 DEF Frame
    <3> QED BY <3>2 DEF n
  <2> HIDE DEF g
  <2>4. AtNode /\ top.i \in 1..Len(node.out_ports) /\ top.link = 0
    BY <2>1 DEF AtOutport
  <2>5. Bounded(g)
    <3>1. g.i <= Len(node.out_ports) + 1
      BY <1>7, <2>3, <2>4, NodeFacts
    <3> QED BY <2>3, <2>4, <3>1, StillBounded
  <2>6. Entered(g, K)
    BY <1>3, <1>7, <2>3, <2>4, NodeFacts, SomePass DEF FrameOK, Entered, NodeOf, intersect
  <2>7. Following(g) /\ Base(g) = path /\ Base(top) = top.passed
    BY <2>3, <2>4 DEF Following, Base
  <2>8. Traced(g, K)
    <3> SUFFICES ASSUME NEW h \in g.packet
                 PROVE  \E j \in Journeys :
                          /\ j[1] = h /\ Len(j[2]) = K - 1
                          /\ Inport(j[2], K - 1) = g.port
                          /\ IsReading(Trail(j[2], K - 1), Base(g))
      BY DEF Traced
    <3>1. PICK j \in Journeys :
            /\ j[1] = h /\ Len(j[2]) = K - 1
            /\ Inport(j[2], K - 1) = top.port
            /\ IsReading(Trail(j[2], K - 1), Base(top))
      BY <1>3, <2>3 DEF FrameOK, Traced
    <3>2. Trail(j[2], K - 1) \in Seq(Ports)
      <4>1. j[2] \in Seq(Hops)
        BY <1>2, JourneyType
      <4>2. \A L \in Nat \ {0} : L - 1 \in 0..(L - 1)
        OBVIOUS
      <4>3. K - 1 \in 0..Len(j[2])
        BY <1>2, <3>1, <4>2
      <4> QED BY <1>2, <4>1, <4>3, TrailVisits
    <3>3. IsReading(Trail(j[2], K - 1), Append(top.passed, net.dst_port))
      BY <1>7, <2>1, <2>7, <3>1, <3>2, ReadMention
    <3> QED BY <2>1, <2>3, <2>7, <3>1, <3>3 DEF path
  <2> QED BY <1>5, <2>1, <2>3, <2>5, <2>6, <2>7, <2>8 DEF FrameOK
<1>12. CASE ReportLoop \/ DeadEnd
  <2> DEFINE g == [top EXCEPT !.i = top.i + 1]
  <2>1. /\ g \in Frame /\ g.packet = top.packet /\ g.passed = top.passed
        /\ g.port = top.port /\ g.it = top.it /\ g.i = top.i + 1 /\ g.link = top.link
    BY <1>2, <1>7 DEF Frame
  <2> HIDE DEF g
  <2>2. /\ AtNode /\ top.i \in 1..Len(node.out_ports) /\ top.link = 0
        /\ stack' = Caller \/ Goto(g)
    BY <1>12 DEF ReportLoop, DeadEnd, AtOutport, g
  <2>3. Bounded(g)
    <3>1. g.i <= Len(node.out_ports) + 1
      BY <1>7, <2>1, <2>2, NodeFacts
    <3> QED BY <2>1, <2>2, <3>1, StillBounded
  <2>4. Entered(g, K)
    BY <1>3, <1>7, <2>1, <2>2, NodeFacts, SomePass DEF FrameOK, Entered, NodeOf, intersect
  <2>5. Following(g) /\ Base(g) = Base(top)
    BY <2>1, <2>2 DEF Following, Base
  <2>6. FrameOK(g, K)
    BY <1>3, <2>1, <2>3, <2>4, <2>5, StillTraced DEF FrameOK
  <2> QED BY <1>5, <1>6, <2>1, <2>2, <2>6
<1>13. CASE PassOutport
  <2> DEFINE path == Append(top.passed, outport)
             g == [top EXCEPT !.passed = path, !.link = 1]
  <2>1. /\ AtOutport /\ outport # net.dst_port /\ outport \notin ToSet(top.passed)
        /\ outport \in DOMAIN net.topology /\ Goto(g) /\ outport \in Ports
    BY <1>2, <1>13 DEF PassOutport, IsNetwork, Looped
  <2>2. path \in Seq(Ports) /\ Front(path) = top.passed
    BY <1>7, <2>1, AppendFront
  <2> HIDE DEF path
  <2>3. /\ g \in Frame /\ g.packet = top.packet /\ g.passed = path
        /\ g.port = top.port /\ g.it = top.it /\ g.i = top.i /\ g.link = 1
    BY <1>2, <2>2 DEF Frame
  <2> HIDE DEF g
  <2>4. AtNode /\ top.i \in 1..Len(node.out_ports) /\ top.link = 0
    BY <2>1 DEF AtOutport
  <2>5. Base(g) = top.passed /\ Base(top) = top.passed
    BY <2>2, <2>3, <2>4 DEF Base
  <2>6. Bounded(g) /\ Entered(g, K)
    BY <1>3, <2>3 DEF FrameOK, Bounded, Entered, AtPredicate, NodeOf
  <2>7. Following(g)
    <3>1. AtPredicate(g) /\ NodeOf(g) = node
      BY <2>3, <2>4, NodeFacts DEF AtPredicate, NodeOf
    <3>2. node.out_ports[g.i] = outport
      BY <2>3 DEF outport
    <3> QED BY <1>7, <2>1, <2>3, <2>4, <2>5, <3>1, <3>2 DEF Following, path
  <2> QED BY <1>3, <1>5, <2>1, <2>3, <2>5, <2>6, <2>7, StillTraced DEF FrameOK
<1>14. CASE FollowLink
  <2> DEFINE p == links[top.link]
             g == [top EXCEPT !.link = top.link + 1]
             f == Activation(intersect, top.passed, p)
  <2>1. /\ AtNode /\ top.i \in 1..Len(node.out_ports) /\ top.link > 0
        /\ top.link <= Len(links) /\ stack' = Caller \o <<g, f>>
    BY <1>14 DEF FollowLink, AtLink
  <2>2. /\ outport \in DOMAIN net.topology /\ outport # net.dst_port
        /\ outport \notin ToSet(Base(top)) /\ Base(top) \in Seq(Ports)
        /\ top.passed = Append(Base(top), outport)
    BY <1>3, <2>1, NodeFacts DEF FrameOK, Following, outport
  <2>3. /\ p \in ToSet(net.topology[outport]) /\ p \in Ports /\ outport \in Ports
        /\ <<outport, p>> \in Hops
    <3>1. links \in Seq(Ports) /\ outport \in Ports
      BY <1>2, <2>2 DEF IsNetwork, links
    <3>2. top.link \in DOMAIN links
      BY <1>7, <2>1, <3>1
    <3>3. p \in ToSet(net.topology[outport]) /\ p \in Ports
      BY <3>1, <3>2 DEF ToSet, links
    <3> QED BY <2>2, <3>1, <3>3 DEF Hops
  <2> HIDE DEF p
  <2>4. /\ g \in Frame /\ g.packet = top.packet /\ g.passed = top.passed
        /\ g.port = top.port /\ g.it = top.it /\ g.i = top.i /\ g.link = top.link + 1
    BY <1>2, <1>7 DEF Frame
  <2>5. /\ f \in Frame /\ f.packet = intersect /\ f.passed = Append(top.passed, p)
        /\ f.port = p /\ f.it = 1 /\ f.i = 0 /\ f.link = 0
    <3> DEFINE path == Append(top.passed, p)
    <3>1. path \in Seq(Ports) /\ intersect \in SUBSET Packets
      BY <1>7, <2>3 DEF intersect
    <3> HIDE DEF path
    <3> QED BY <2>3, <3>1 DEF Frame, Activation, path
  <2> HIDE DEF g, f
  <2>6. FrameOK(g, K)
    <3>1. Base(g) = Base(top)
      BY <1>7, <2>1, <2>4 DEF Base
    <3>2. Bounded(g) /\ Entered(g, K) /\ Following(g)
      BY <1>3, <1>7, <2>1, <2>4, <3>1
         DEF FrameOK, Bounded, Entered, Following, AtPredicate, NodeOf
    <3> QED BY <1>3, <2>4, <3>1, <3>2, StillTraced DEF FrameOK
  <2>7. Base(f) = Append(Append(Base(top), outport), p)
    BY <2>2, <2>5 DEF Base
  <2>8. Traced(f, K + 1)
    <3> SUFFICES ASSUME NEW h \in intersect
                 PROVE  \E j \in Journeys :
                          /\ j[1] = h /\ Len(j[2]) = K
                          /\ Inport(j[2], K) = p
                          /\ IsReading(Trail(j[2], K), Base(f))
      BY <1>2, <2>5 DEF Traced
    <3>1. PICK j \in Journeys :
            /\ j[1] = h /\ Len(j[2]) = K - 1
            /\ Inport(j[2], Len(j[2])) = top.port
            /\ IsReading(Trail(j[2], Len(j[2])), Base(top))
            /\ Leads(j, outport)
      BY <2>1, PassesOutport
    <3> DEFINE hop == <<outport, p>>
               more == Append(j[2], hop)
    <3>2. h \in Packets /\ j[2] \in Seq(Hops) /\ Travels(h, j[2])
      BY <1>2, <3>1, JourneyType
    <3>3. Sends(Inport(j[2], Len(j[2])), h, outport)
      BY <3>1 DEF Leads
    <3>4. /\ more \in Seq(Hops) /\ Len(more) = Len(j[2]) + 1
          /\ Travels(h, more) /\ Inport(more, Len(more)) = p
          /\ IsReading(Trail(more, Len(more)), Append(Append(Base(top), outport), p))
      <4>1. hop \in Hops /\ hop[1] = outport /\ hop[2] = p
        BY <2>3
      <4> HIDE DEF hop
      <4>2. top.passed \in Seq(Ports) /\ outport \notin ToSet(Base(top))
        BY <1>7, <2>2
      <4> QED BY <1>2, <2>2, <2>3, <3>1, <3>2, <3>3, <4>1, <4>2, JourneyMore
    <3> HIDE DEF more
    <3>5. Len(more) = K
      <4>1. \A L \in Nat \ {0} : (L - 1) + 1 = L
        OBVIOUS
      <4> QED BY <1>2, <3>1, <3>4, <4>1
    <3>6. <<h, more>> \in Journeys
      BY <1>2, <3>2, <3>4, JourneyListed
    <3>7. <<h, more>>[1] = h /\ <<h, more>>[2] = more
      OBVIOUS
    <3> QED BY <2>7, <3>4, <3>5, <3>6, <3>7
  <2>9. FrameOK(f, K + 1)
    <3>1. Bounded(f)
      <4>1. f.port \in DOMAIN net.table => net.table[f.port] \in Seq(Node)
        BY <1>2 DEF IsNetwork
      <4>2. ASSUME f.port \in DOMAIN net.table, 1 <= Len(net.table[f.port])
            PROVE  0 <= Len(net.table[f.port][1].out_ports) + 1
        <5>1. net.table[f.port][1] \in Node
          BY <4>1, <4>2
        <5>2. net.table[f.port][1].out_ports \in Seq(Ports)
          BY <5>1 DEF Node
        <5>3. \A outs \in Seq(Ports) : 0 <= Len(outs) + 1
          OBVIOUS
        <5> QED BY <5>2, <5>3
      <4>3. f.port \in DOMAIN net.table => 1 <= Len(net.table[f.port]) + 1
        BY <4>1
      <4> QED BY <2>5, <4>2, <4>3 DEF Bounded, NodeOf
    <3>2. Entered(f, K + 1)
      BY <2>1, <2>5, SomePass DEF Entered
    <3> QED BY <2>5, <2>8, <3>1, <3>2 DEF FrameOK, Following
\* The recursion gets no deeper, for every activation has hops to show.
  <2>10. K + 1 <= C + 1
    <3>1. PICK h \in intersect : TRUE
      BY <2>1, SomePass
    <3>2. PICK j \in Journeys : Len(j[2]) = K
      BY <1>2, <2>5, <2>8, <3>1 DEF Traced
    <3>3. Len(j[2]) <= C
      BY <1>2, JourneyType, JourneyBounded
    <3> QED BY <1>2, <1>4, <3>2, <3>3
  <2>11. /\ stack' \in Seq(Frame) /\ Len(stack') = K + 1
         /\ stack'[K + 1] = f /\ stack'[K] = g
         /\ \A k \in 1..(K - 1) : stack'[k] = stack[k]
    BY <1>1, <2>1, <2>4, <2>5, Called DEF TypeOK, Caller
  <2>12. ASSUME NEW k \in DOMAIN stack' PROVE FrameOK(stack'[k], k)
    <3>1. k \in 1..(K - 1) \/ k = K \/ k = K + 1
      BY <1>2, <2>11
    <3> QED BY <1>2, <2>6, <2>9, <2>11, <3>1 DEF FramesOK
  <2> QED BY <1>1, <2>10, <2>11, <2>12, SameNetwork DEF FramesOK
<1>15. CASE EndLinks
  <2> DEFINE g == [top EXCEPT !.passed = Front(top.passed), !.i = top.i + 1, !.link = 0]
  <2>1. AtNode /\ top.i \in 1..Len(node.out_ports) /\ top.link > 0 /\ Goto(g)
    BY <1>15 DEF EndLinks, AtLink
  <2>2. Base(top) = Front(top.passed) /\ Front(top.passed) \in Seq(Ports)
    BY <1>3, <2>1 DEF FrameOK, Following, Base
  <2>3. /\ g \in Frame /\ g.packet = top.packet /\ g.passed = Front(top.passed)
        /\ g.port = top.port /\ g.it = top.it /\ g.i = top.i + 1 /\ g.link = 0
    <3> DEFINE n == top.i + 1
               path == Front(top.passed)
    <3>1. n \in Nat /\ path \in Seq(Ports)
      BY <1>7, <2>2
    <3> HIDE DEF n, path
    <3>2. LET r == [top EXCEPT !.passed = path, !.i = n, !.link = 0]
          IN  /\ r \in Frame /\ r.packet = top.packet /\ r.passed = path
              /\ r.port = top.port /\ r.it = top.it /\ r.i = n /\ r.link = 0
      BY <1>2, <3>1 DEF Frame
    <3> QED BY <3>2 DEF n, path
  <2> HIDE DEF g
  <2>4. Base(g) = Base(top) /\ Following(g)
    BY <2>2, <2>3 DEF Base, Following
  <2>5. Bounded(g)
    <3>1. g.i <= Len(node.out_ports) + 1
      BY <1>7, <2>1, <2>3, NodeFacts
    <3> QED BY <2>1, <2>3, <3>1, StillBounded
  <2>6. Entered(g, K)
    BY <1>3, <1>7, <2>1, <2>3, NodeFacts, SomePass DEF FrameOK, Entered, NodeOf, intersect
  <2> QED BY <1>3, <1>5, <2>1, <2>3, <2>4, <2>5, <2>6, StillTraced DEF FrameOK
<1> QED BY <1>8, <1>9, <1>10, <1>11, <1>12, <1>13, <1>14, <1>15 DEF Step

-----------------------------------------------------------------------------
(***************************************************************************)
(* What is printed.                                                        *)
(***************************************************************************)
PathIsReal(r) ==
  /\ r.match # {}
  /\ Last(r.path) = net.dst_port
  /\ \A h \in r.match : \E j \in Journeys :
       Leads(j, net.dst_port) /\ j[1] = h /\ TellsOf(Front(r.path), j)

LoopIsReal(l) ==
  /\ l.match # {}
  /\ \A h \in l.match : \E j \in Journeys :
       /\ j[1] = h /\ TellsOf(l.path, j)
       /\ \E o \in Visited(j[2], Len(j[2])) \ {net.dst_port} : Leads(j, o)

\* Both are about one print at a time, and about the network.
LEMMA EachIsReal ==
  /\ PrintsAreReal <=> (\A r \in paths : PathIsReal(r)) /\ (\A l \in loops : LoopIsReal(l))
  /\ net' = net =>
       (PrintsAreReal' <=> (\A r \in paths' : PathIsReal(r)) /\ (\A l \in loops' : LoopIsReal(l)))
<1>1. PathsAreReal <=> \A r \in paths : PathIsReal(r)
  BY DEF PathsAreReal, PathIsReal, JourneysTo
<1>2. LoopsAreReal <=> \A l \in loops : LoopIsReal(l)
  BY DEF LoopsAreReal, LoopIsReal
<1>3. ASSUME net' = net
      PROVE  /\ PathsAreReal' <=> \A r \in paths' : PathIsReal(r)
             /\ LoopsAreReal' <=> \A l \in loops' : LoopIsReal(l)
  BY <1>3, SameNetwork DEF PathsAreReal, LoopsAreReal, JourneysTo, PathIsReal, LoopIsReal
<1> QED BY <1>1, <1>2, <1>3 DEF PrintsAreReal

\* What Deliver and ReportLoop print is real.
LEMMA PrintedNow ==
  ASSUME TypeOK, FramesOK, AtOutport
  PROVE  /\ intersect \in SUBSET Packets /\ outport \in Ports /\ top.passed \in Seq(Ports)
         /\ outport = net.dst_port =>
              PathIsReal([match |-> intersect, path |-> Append(top.passed, outport)])
         /\ outport # net.dst_port /\ Looped =>
              LoopIsReal([match |-> intersect, path |-> top.passed])
<1>1. AtNode /\ top.i \in 1..Len(node.out_ports) /\ top.link = 0 /\ top.i > 0 /\ stack # <<>>
  BY NodeFacts DEF AtOutport, AtNode, Active
<1>2. /\ top.packet \in SUBSET Packets /\ top.passed \in Seq(Ports) /\ IsNetwork(net)
      /\ Base(top) = top.passed /\ outport \in Ports /\ intersect \in SUBSET Packets
  BY <1>1, TopFacts, NodeFacts DEF Frame, Base, outport, intersect
<1>3. intersect # {}
  BY <1>1, SomePass
<1>4. ASSUME NEW h \in intersect
      PROVE  \E j \in Journeys :
               /\ j[1] = h /\ Leads(j, outport) /\ TellsOf(top.passed, j)
               /\ outport # net.dst_port /\ Looped => outport \in Visited(j[2], Len(j[2]))
  <2>1. PICK j \in Journeys :
          /\ j[1] = h /\ IsReading(Trail(j[2], Len(j[2])), top.passed) /\ Leads(j, outport)
    BY <1>1, <1>2, PassesOutport
  <2>2. j[2] \in Seq(Hops) /\ Len(j[2]) \in 0..Len(j[2])
    BY <1>2, JourneyType
  <2>3. /\ Trail(j[2], Len(j[2])) \in Seq(Ports)
        /\ ToSet(Trail(j[2], Len(j[2]))) = Visited(j[2], Len(j[2]))
    BY <1>2, <2>2, TrailVisits
  <2>4. ToSet(top.passed) \ {net.dst_port} \subseteq Visited(j[2], Len(j[2]))
    BY <1>2, <2>1, <2>3, ReadSame
  <2> QED BY <2>1, <2>4 DEF TellsOf, Looped
<1>5. ASSUME outport = net.dst_port
      PROVE  PathIsReal([match |-> intersect, path |-> Append(top.passed, outport)])
  <2>1. /\ Front(Append(top.passed, outport)) = top.passed
        /\ Last(Append(top.passed, outport)) = outport
    BY <1>2, AppendFront
  <2> QED BY <1>3, <1>4, <1>5, <2>1 DEF PathIsReal
<1>6. ASSUME outport # net.dst_port, Looped
      PROVE  LoopIsReal([match |-> intersect, path |-> top.passed])
  BY <1>3, <1>4, <1>6 DEF LoopIsReal
<1> QED BY <1>2, <1>5, <1>6

\* Every step prints what is real, and what it logs and prints has its type.
LEMMA KeepsPrints ==
  ASSUME TypeOK, FramesOK, PrintsAreReal, Step
  PROVE  /\ net' = net /\ PrintsAreReal' /\ missing' \subseteq Ports
         /\ paths' \cup loops' \subseteq [match : SUBSET Packets, path : Seq(Ports)]
<1>1. net' = net
  BY DEF Step, NoPort, EnterNode, NextNode, Deliver, ReportLoop, DeadEnd, PassOutport,
         FollowLink, EndLinks, Return
<1>2. /\ paths \cup loops \subseteq [match : SUBSET Packets, path : Seq(Ports)]
      /\ missing \subseteq Ports
  BY DEF TypeOK
<1>3. (\A r \in paths : PathIsReal(r)) /\ (\A l \in loops : LoopIsReal(l))
  BY EachIsReal
<1>4. ASSUME NEW r, paths' \subseteq paths \cup {r}, loops' = loops,
             r \in [match : SUBSET Packets, path : Seq(Ports)], PathIsReal(r)
      PROVE  /\ PrintsAreReal'
             /\ paths' \cup loops' \subseteq [match : SUBSET Packets, path : Seq(Ports)]
  <2>1. /\ \A x \in paths' : PathIsReal(x)
        /\ \A l \in loops' : LoopIsReal(l)
    BY <1>1, <1>3, <1>4
  <2>2. PrintsAreReal'
    BY <1>1, <2>1, EachIsReal
  <2> QED BY <1>2, <1>4, <2>2
<1>5. ASSUME NEW l, loops' \subseteq loops \cup {l}, paths' = paths,
             l \in [match : SUBSET Packets, path : Seq(Ports)], LoopIsReal(l)
      PROVE  /\ PrintsAreReal'
             /\ paths' \cup loops' \subseteq [match : SUBSET Packets, path : Seq(Ports)]
  <2>1. /\ \A r \in paths' : PathIsReal(r)
        /\ \A x \in loops' : LoopIsReal(x)
    BY <1>1, <1>3, <1>5
  <2>2. PrintsAreReal'
    BY <1>1, <2>1, EachIsReal
  <2> QED BY <1>2, <1>5, <2>2
<1>6. CASE UNCHANGED <<paths, loops>>
  <2>1. /\ \A r \in paths' : PathIsReal(r)
        /\ \A l \in loops' : LoopIsReal(l)
    BY <1>1, <1>3, <1>6
  <2>2. PrintsAreReal'
    BY <1>1, <2>1, EachIsReal
  <2>3. missing' \subseteq Ports
    <3>1. CASE NoPort
      <4>1. top.port \in Ports
        BY <3>1, TopFacts DEF NoPort, Frame
      <4> QED BY <1>2, <3>1, <4>1 DEF NoPort
    <3>2. CASE ~NoPort
      BY <1>2, <3>2 DEF Step, EnterNode, NextNode, Deliver, ReportLoop, DeadEnd,
                        PassOutport, FollowLink, EndLinks, Return
    <3> QED BY <3>1, <3>2
  <2> QED BY <1>1, <1>2, <1>6, <2>2, <2>3
<1>7. CASE Deliver
  <2> DEFINE r == [match |-> intersect, path |-> Append(top.passed, outport)]
  <2>1. AtOutport /\ outport = net.dst_port /\ paths' = paths \cup {r} /\ UNCHANGED <<loops, missing>>
    BY <1>7 DEF Deliver
  <2>2. r \in [match : SUBSET Packets, path : Seq(Ports)] /\ PathIsReal(r)
    BY <2>1, PrintedNow
  <2> HIDE DEF r
  <2> QED BY <1>1, <1>2, <1>4, <2>1, <2>2
<1>8. CASE ReportLoop
  <2> DEFINE l == [match |-> intersect, path |-> top.passed]
  <2>1. /\ AtOutport /\ outport # net.dst_port /\ Looped
        /\ loops' = loops \cup {l} /\ UNCHANGED <<paths, missing>>
    BY <1>8 DEF ReportLoop
  <2>2. l \in [match : SUBSET Packets, path : Seq(Ports)] /\ LoopIsReal(l)
    BY <2>1, PrintedNow
  <2> HIDE DEF l
  <2> QED BY <1>1, <1>2, <1>5, <2>1, <2>2
<1> QED BY <1>6, <1>7, <1>8 DEF Step, NoPort, EnterNode, NextNode, DeadEnd, PassOutport,
                              FollowLink, EndLinks, Return

\* Every step keeps the types.
LEMMA KeepsTypes ==
  ASSUME TypeOK, FramesOK, PrintsAreReal, Step
  PROVE  TypeOK'
<1>1. /\ net' = net /\ missing' \subseteq Ports
      /\ paths' \cup loops' \subseteq [match : SUBSET Packets, path : Seq(Ports)]
  BY KeepsPrints
<1>2. /\ FramesOK' /\ stack' \in Seq(Frame)
      /\ Len(stack') <= Cardinality(DOMAIN net'.topology) + 1
  BY <1>1, KeepsFrames
<1>3. IsNetwork(net')
  BY <1>1 DEF TypeOK
<1>4. \A k \in DOMAIN stack' : FrameOK(stack'[k], k)
  BY <1>1, <1>2, SameNetwork DEF FramesOK
<1>5. \A k \in DOMAIN stack' : Bounded(stack'[k])
  BY <1>4 DEF FrameOK
<1> QED BY <1>1, <1>2, <1>3, <1>5 DEF TypeOK, Bounded, NodeOf

-----------------------------------------------------------------------------
(***************************************************************************)
(* What is still to come.                                                  *)
(***************************************************************************)

\* Whatever the innermost activation becomes, it is found in its place.
LEMMA MovedOn ==
  ASSUME TypeOK, stack # <<>>, NEW g, Goto(g)
  PROVE  /\ Len(stack) \in DOMAIN stack' /\ stack'[Len(stack)] = g
         /\ \A k \in 1..(Len(stack) - 1) : k \in DOMAIN stack' /\ stack'[k] = stack[k]
<1> DEFINE S == Frame \cup {g}
<1>1. stack \in Seq(S) /\ g \in S
  BY DEF TypeOK
<1> HIDE DEF S
<1>2. stack' = Append(Front(stack), g)
  BY DEF Goto, Caller
<1> QED BY <1>1, <1>2, Replaced

\* The elements of a list and their places.
LEMMA ElementType ==
  ASSUME NEW S, NEW s \in Seq(S), NEW n \in DOMAIN s
  PROVE  s[n] \in S /\ n \in Nat \ {0} /\ n <= Len(s) /\ n \in 1..Len(s) /\ Len(s) \in Nat
OBVIOUS

\* The predicates of a port's table.
LEMMA NodeType ==
  ASSUME IsNetwork(net), NEW p \in DOMAIN net.table, NEW n \in DOMAIN net.table[p]
  PROVE  /\ net.table[p][n].out_ports \in Seq(Ports)
         /\ n \in Nat \ {0} /\ n <= Len(net.table[p]) /\ Len(net.table[p]) \in Nat
<1>1. net.table[p] \in Seq(Node)
  BY DEF IsNetwork
<1>2. net.table[p][n] \in Node /\ n \in Nat \ {0} /\ n <= Len(net.table[p]) /\ Len(net.table[p]) \in Nat
  BY <1>1, ElementType
<1> QED BY <1>2 DEF Node

\* The next out_port of a journey that goes on to o, at its k-th in-port.
LEMMA NextSent ==
  ASSUME NEW h, NEW hops \in Seq(Hops), Travels(h, hops), NEW o,
         Leads(<<h, hops>>, o), NEW k \in 1..(Len(hops) + 1)
  PROVE  Sends(Inport(hops, k - 1), h, NextOut(hops, k - 1, o))
<1>1. CASE k = Len(hops) + 1
  <2>1. k - 1 = Len(hops)
    BY <1>1
  <2> QED BY <2>1 DEF Leads, NextOut
<1>2. CASE k # Len(hops) + 1
  <2>1. k \in DOMAIN hops /\ k - 1 # Len(hops) /\ (k - 1) + 1 = k
    BY <1>2
  <2> QED BY <2>1 DEF Travels, NextOut
<1> QED BY <1>1, <1>2

\* A new activation, entered with a packet that got there, has the rest of
\* the packet's journey ahead.
LEMMA AllAhead ==
  ASSUME IsNetwork(net), NEW h, NEW hops \in Seq(Hops), Travels(h, hops), NEW o,
         Leads(<<h, hops>>, o), NEW k \in 1..(Len(hops) + 1),
         NEW f, f.it = 1, f.i = 0, h \in f.packet, f.port = Inport(hops, k - 1),
         IsReading(Trail(hops, k - 1), Base(f))
  PROVE  Ahead(f, k, h, hops, o)
<1> DEFINE next == NextOut(hops, k - 1, o)
<1>1. Sends(f.port, h, next)
  BY NextSent
<1> HIDE DEF next
<1>2. f.port \in DOMAIN net.table /\ net.table[f.port] \in Seq(Node)
  BY <1>1 DEF Sends, IsNetwork
<1>3. PICK n \in DOMAIN net.table[f.port] :
        /\ h \in net.table[f.port][n].match
        /\ next \in ToSet(net.table[f.port][n].out_ports)
  BY <1>1 DEF Sends, ToSet
<1>4. net.table[f.port][n].out_ports \in Seq(Ports) /\ n \in Nat \ {0}
  BY <1>2, NodeType
<1>5. PICK e \in DOMAIN net.table[f.port][n].out_ports :
        net.table[f.port][n].out_ports[e] = next
  BY <1>3 DEF ToSet
<1>6. e \in Nat \ {0}
  BY <1>4, <1>5, ElementType
<1>7. ToCome(f, k, hops, n, e)
  BY <1>4, <1>6 DEF ToCome
<1>8. k <= Len(hops) + 1
  OBVIOUS
<1> QED BY <1>2, <1>3, <1>5, <1>7, <1>8 DEF Ahead, next

\* When the out_port that a journey takes next is the current one, the journey
\* ends there or takes its next hop there.
LEMMA TakenNow ==
  ASSUME NEW h, NEW hops \in Seq(Hops), Travels(h, hops), IsNetwork(net), NEW o,
         o = net.dst_port \/ o \in Visited(hops, Len(hops)),
         NEW k \in 1..(Len(hops) + 1), NEW path \in Seq(Ports),
         IsReading(Trail(hops, k - 1), path)
  PROVE  LET next == NextOut(hops, k - 1, o)
         IN  \/ /\ k - 1 = Len(hops) /\ next = o
                /\ next = net.dst_port \/ next \in ToSet(path)
             \/ /\ k \in DOMAIN hops /\ k <= Len(hops) /\ next = hops[k][1]
                /\ hops[k] \in Hops /\ next # net.dst_port
                /\ next \notin ToSet(path)
<1> DEFINE w == Trail(hops, k - 1)
<1>1. Len(hops) \in Nat /\ k - 1 \in 0..Len(hops)
  OBVIOUS
<1>2. w \in Seq(Ports) /\ ToSet(w) = Visited(hops, k - 1)
  BY <1>1, TrailVisits
<1> HIDE DEF w
<1>3. /\ Visited(hops, k - 1) \subseteq ToSet(path)
      /\ ToSet(path) \ {net.dst_port} \subseteq Visited(hops, k - 1)
  BY <1>2, ReadSame DEF w
<1>4. CASE k - 1 = Len(hops)
  BY <1>3, <1>4 DEF NextOut
<1>5. CASE k - 1 # Len(hops)
  <2>1. k \in DOMAIN hops /\ k <= Len(hops) /\ (k - 1) + 1 = k /\ hops[k] \in Hops
    BY <1>1, <1>5
  <2>2. hops[k][1] # net.dst_port /\ hops[k][1] \notin Visited(hops, k - 1)
    BY <2>1 DEF Travels
  <2> QED BY <1>3, <1>5, <2>1, <2>2 DEF NextOut
<1> QED BY <1>4, <1>5

\* The step that a journey is waiting for: it is still to come afterwards, or
\* its path has been printed, or a loop.
LEMMA AheadStep ==
  ASSUME TypeOK, FramesOK, Step, NEW h \in Packets, NEW hops \in Seq(Hops), Travels(h, hops),
         NEW o, Leads(<<h, hops>>, o), o = net.dst_port \/ o \in Visited(hops, Len(hops)),
         StopAtLoop => loops' = {}, stack # <<>>, Ahead(top, Len(stack), h, hops, o)
  PROVE  \/ \E k \in DOMAIN stack' : Ahead(stack'[k], k, h, hops, o)
         \/ o = net.dst_port /\ Printed(h, hops)'
         \/ o # net.dst_port /\ loops' # {}
<1> DEFINE K == Len(stack)
           w == Trail(hops, K - 1)
           next == NextOut(hops, K - 1, o)
           table == net.table[top.port]
           Kept == \E k \in DOMAIN stack' : Ahead(stack'[k], k, h, hops, o)
<1>1. /\ top \in Frame /\ IsNetwork(net) /\ K \in Nat \ {0} /\ FrameOK(top, K)
      /\ top.it \in Nat \ {0} /\ top.i \in Nat /\ top.link \in Nat
      /\ top.passed \in Seq(Ports) /\ top.packet \in SUBSET Packets
  BY TopFacts, SMTT(30) DEF FramesOK, Frame
<1>2. PICK n \in DOMAIN table :
        /\ h \in table[n].match
        /\ \E e \in DOMAIN table[n].out_ports :
             table[n].out_ports[e] = next /\ ToCome(top, K, hops, n, e)
  BY DEF Ahead
<1>3. PICK e \in DOMAIN table[n].out_ports :
        table[n].out_ports[e] = next /\ ToCome(top, K, hops, n, e)
  BY <1>2
<1>4. /\ K <= Len(hops) + 1 /\ h \in top.packet /\ top.port = Inport(hops, K - 1)
      /\ IsReading(w, Base(top)) /\ top.port \in DOMAIN net.table
  BY DEF Ahead
<1>5. /\ n \in Nat \ {0} /\ n <= Len(table) /\ Len(table) \in Nat
      /\ table[n].out_ports \in Seq(Ports)
  BY <1>1, <1>4, NodeType
<1>6. /\ e \in Nat \ {0} /\ e <= Len(table[n].out_ports) /\ Len(table[n].out_ports) \in Nat
  BY <1>5, ElementType
<1>7. n >= top.it /\ (n = top.it => e >= top.i)
  BY <1>1, <1>3, <1>5, <1>6 DEF ToCome
<1>8. AtNode /\ ~NoPort /\ ~Return /\ (n = top.it => table[n] = node)
  BY <1>1, <1>4, <1>5, <1>7 DEF AtNode, Active, NoPort, Return, node, nodes
<1>9. K \in 1..(Len(hops) + 1) /\ Len(hops) \in Nat
  BY <1>1, <1>4
<1>10. ASSUME NEW g, Goto(g), g.packet = top.packet, g.port = top.port,
              IsReading(w, Base(g)), ToCome(g, K, hops, n, e)
       PROVE  Kept
  <2>1. Ahead(g, K, h, hops, o)
    BY <1>2, <1>3, <1>4, <1>10 DEF Ahead
  <2> QED BY <1>10, <2>1, MovedOn
<1>11. CASE EnterNode
  <2> DEFINE g == [top EXCEPT !.i = 1]
  <2>1. /\ g.packet = top.packet /\ g.passed = top.passed /\ g.port = top.port
        /\ g.it = top.it /\ g.i = 1 /\ g.link = top.link /\ Goto(g) /\ top.i = 0
    BY <1>1, <1>11 DEF Frame, EnterNode
  <2> HIDE DEF g
  <2>2. top.link = 0
    BY <1>1, <1>8, <2>1, NodeFacts DEF FrameOK, Following
  <2>3. Base(g) = Base(top)
    BY <2>1 DEF Base
  <2>4. ToCome(g, K, hops, n, e)
    BY <1>1, <1>5, <1>6, <1>7, <2>1, <2>2, SMTT(30) DEF ToCome
  <2> QED BY <1>4, <1>10, <2>1, <2>3, <2>4
<1>12. CASE NextNode
  <2> DEFINE g == [top EXCEPT !.it = top.it + 1, !.i = 0]
  <2>1. /\ g.packet = top.packet /\ g.passed = top.passed /\ g.port = top.port
        /\ g.it = top.it + 1 /\ g.i = 0 /\ g.link = top.link /\ Goto(g)
        /\ (top.i = 0 /\ intersect = {}) \/ top.i > Len(node.out_ports)
    BY <1>1, <1>12 DEF Frame, NextNode
  <2> HIDE DEF g
  <2>2. Base(g) = Base(top)
    BY <2>1 DEF Base
  <2>3. n # top.it
    <3>1. SUFFICES ASSUME n = top.it PROVE FALSE
      OBVIOUS
    <3>2. h \in intersect
      BY <1>2, <1>4, <1>8, <3>1 DEF intersect
    <3> QED BY <1>1, <1>6, <1>7, <1>8, <2>1, <3>1, <3>2
  <2>4. ToCome(g, K, hops, n, e)
    <3>1. \A a, b \in Nat : a >= b /\ a # b => a > b + 1 \/ a = b + 1
      OBVIOUS
    <3>2. n > top.it + 1 \/ n = top.it + 1
      BY <1>1, <1>5, <1>7, <2>3, <3>1
    <3>3. e > 0
      BY <1>6
    <3> QED BY <2>1, <3>2, <3>3 DEF ToCome
  <2> QED BY <1>4, <1>10, <2>1, <2>2, <2>4
\* The other actions are about out_port top.i: either the journey takes it, or
\* another one that comes later.
<1>13. ASSUME n # top.it \/ e # top.i, NEW g, Goto(g), g.packet = top.packet,
              g.port = top.port, g.it = top.it, g.i = top.i + 1, g.link = 0,
              IsReading(w, Base(g))
       PROVE  Kept
  <2>1. n > top.it \/ (n = top.it /\ (e > top.i + 1 \/ e = top.i + 1))
    <3>1. \A a, b \in Nat : a >= b /\ a # b => a > b
      OBVIOUS
    <3>2. \A a, b \in Nat : a >= b /\ a # b => a > b + 1 \/ a = b + 1
      OBVIOUS
    <3> QED BY <1>1, <1>5, <1>6, <1>7, <1>13, <3>1, <3>2
  <2>2. ToCome(g, K, hops, n, e)
    BY <1>13, <2>1 DEF ToCome
  <2> QED BY <1>10, <1>13, <2>2
<1>14. ASSUME n # top.it \/ e # top.i, NEW g, g.it = top.it, g.i = top.i
       PROVE  ToCome(g, K, hops, n, e)
  <2>1. n > top.it \/ (n = top.it /\ e > top.i)
    <3>1. \A a, b \in Nat : a >= b /\ a # b => a > b
      OBVIOUS
    <3> QED BY <1>1, <1>5, <1>6, <1>7, <1>14, <3>1
  <2> QED BY <1>14, <2>1 DEF ToCome
<1>15. ASSUME n = top.it, e = top.i, NEW path \in Seq(Ports), IsReading(w, path)
       PROVE  /\ next = outport
              /\ \/ /\ K - 1 = Len(hops) /\ o = outport
                    /\ outport = net.dst_port \/ outport \in ToSet(path)
                 \/ /\ K \in DOMAIN hops /\ K <= Len(hops) /\ outport = hops[K][1]
                    /\ hops[K] \in Hops /\ outport # net.dst_port
                    /\ outport \notin ToSet(path)
  <2>1. next = outport
    BY <1>3, <1>8, <1>15 DEF outport
  <2> QED BY <1>1, <1>9, <1>15, <2>1, TakenNow
<1>16. /\ AtOutport => Base(top) = top.passed
       /\ AtLink => Base(top) = Front(top.passed)
  BY DEF AtOutport, AtLink, Base
<1>17. CASE Deliver
  <2> DEFINE path == Append(top.passed, outport)
             r == [match |-> intersect, path |-> path]
             g == [top EXCEPT !.passed = path, !.i = top.i + 1]
  <2>1. /\ AtOutport /\ top.link = 0 /\ outport = net.dst_port /\ net.dst_port \in Ports
        /\ paths' = paths \cup {r} /\ Goto(g) /\ net' = net
    BY <1>1, <1>17 DEF Deliver, AtOutport, IsNetwork
  <2>2. path \in Seq(Ports) /\ Front(path) = top.passed
    BY <1>1, <2>1, AppendFront
  <2>3. IsReading(w, path)
    <3>1. w \in Seq(Ports)
      BY <1>1, <1>9, TrailVisits, SMTT(30)
    <3> QED BY <1>1, <1>4, <1>16, <2>1, <3>1, ReadMention
  <2> HIDE DEF path
  <2>4. /\ g.packet = top.packet /\ g.passed = path /\ g.port = top.port
        /\ g.it = top.it /\ g.i = top.i + 1 /\ g.link = 0
    BY <1>1, <2>1 DEF Frame
  <2> HIDE DEF g
  <2>5. CASE n # top.it \/ e # top.i
    <3>1. Base(g) = path
      BY <2>4 DEF Base
    <3> QED BY <1>13, <2>1, <2>3, <2>4, <2>5, <3>1
  <2>6. CASE n = top.it /\ e = top.i
    <3>1. K - 1 = Len(hops) /\ o = outport
      BY <1>1, <1>4, <1>15, <1>16, <2>1, <2>6
    <3>2. h \in r.match
      BY <1>2, <1>4, <1>8, <2>6 DEF intersect
    <3>3. TellsOf(Front(r.path), <<h, hops>>)
      BY <1>4, <1>16, <2>1, <2>2, <3>1 DEF TellsOf
    <3> HIDE DEF r
    <3>4. Printed(h, hops)'
      BY <2>1, <3>2, <3>3, SameNetwork DEF Printed
    <3> QED BY <2>1, <3>1, <3>4
  <2> QED BY <2>5, <2>6
<1>18. CASE ReportLoop
  <2> DEFINE g == [top EXCEPT !.i = top.i + 1]
  <2>1. /\ AtOutport /\ top.link = 0 /\ outport # net.dst_port /\ outport \in ToSet(top.passed)
        /\ loops' # {} /\ (~StopAtLoop => Goto(g))
    BY <1>18 DEF ReportLoop, AtOutport, Looped
  <2>2. SUFFICES ASSUME o = net.dst_port PROVE Kept
    BY <2>1
  <2>3. Goto(g)
    BY <2>1
  <2>4. /\ g.packet = top.packet /\ g.passed = top.passed /\ g.port = top.port
        /\ g.it = top.it /\ g.i = top.i + 1 /\ g.link = 0
    BY <1>1, <2>1 DEF Frame
  <2> HIDE DEF g
  <2>5. CASE n # top.it \/ e # top.i
    <3>1. Base(g) = Base(top)
      BY <2>1, <2>4 DEF Base
    <3> QED BY <1>4, <1>13, <2>3, <2>4, <2>5, <3>1
  <2>6. CASE n = top.it /\ e = top.i
    BY <1>1, <1>4, <1>15, <1>16, <2>1, <2>2, <2>6
  <2> QED BY <2>5, <2>6
<1>19. CASE DeadEnd
  <2> DEFINE g == [top EXCEPT !.i = top.i + 1]
  <2>1. /\ AtOutport /\ top.link = 0 /\ outport # net.dst_port
        /\ outport \notin ToSet(top.passed) /\ outport \notin DOMAIN net.topology /\ Goto(g)
    BY <1>19 DEF DeadEnd, AtOutport, Looped
  <2>2. /\ g.packet = top.packet /\ g.passed = top.passed /\ g.port = top.port
        /\ g.it = top.it /\ g.i = top.i + 1 /\ g.link = 0
    BY <1>1, <2>1 DEF Frame
  <2> HIDE DEF g
  <2>3. n # top.it \/ e # top.i
    BY <1>1, <1>4, <1>15, <1>16, <2>1, HopType
  <2>4. Base(g) = Base(top)
    BY <2>1, <2>2 DEF Base
  <2> QED BY <1>4, <1>13, <2>1, <2>2, <2>3, <2>4
<1>20. CASE PassOutport
  <2> DEFINE path == Append(top.passed, outport)
             g == [top EXCEPT !.passed = path, !.link = 1]
  <2>1. /\ AtOutport /\ top.link = 0 /\ outport # net.dst_port
        /\ outport \notin ToSet(top.passed) /\ outport \in Ports
        /\ outport \in DOMAIN net.topology /\ Goto(g)
    BY <1>1, <1>20 DEF PassOutport, AtOutport, Looped, IsNetwork
  <2>2. path \in Seq(Ports) /\ Front(path) = top.passed
    BY <1>1, <2>1, AppendFront
  <2> HIDE DEF path
  <2>3. /\ g.packet = top.packet /\ g.passed = path /\ g.port = top.port
        /\ g.it = top.it /\ g.i = top.i /\ g.link = 1
    BY <1>1 DEF Frame
  <2> HIDE DEF g
  <2>4. Base(g) = Base(top)
    BY <1>16, <2>1, <2>2, <2>3 DEF Base
  <2>5. ASSUME n = top.it, e = top.i PROVE LinkToCome(g, K, hops)
    <3>1. K <= Len(hops) /\ outport = hops[K][1] /\ hops[K] \in Hops
      BY <1>1, <1>4, <1>15, <1>16, <2>1, <2>5
    <3>2. hops[K][2] \in ToSet(net.topology[outport]) /\ net.topology[outport] \in Seq(Ports)
      BY <1>1, <2>1, <3>1, HopType DEF IsNetwork
    <3>3. PICK l \in DOMAIN net.topology[outport] : net.topology[outport][l] = hops[K][2]
      BY <3>2 DEF ToSet
    <3>4. l \in Nat \ {0}
      BY <3>2, ElementType
    <3> QED BY <2>3, <3>1, <3>3, <3>4 DEF LinkToCome
  <2>6. ToCome(g, K, hops, n, e)
    BY <1>14, <2>3, <2>5 DEF ToCome
  <2> QED BY <1>4, <1>10, <2>1, <2>3, <2>4, <2>6
<1>21. CASE FollowLink
  <2> DEFINE p == links[top.link]
             g == [top EXCEPT !.link = top.link + 1]
             f == Activation(intersect, top.passed, p)
  <2>1. /\ AtNode /\ AtLink /\ top.i \in 1..Len(node.out_ports) /\ top.link > 0
        /\ top.link <= Len(links) /\ stack' = Caller \o <<g, f>>
    BY <1>21 DEF FollowLink, AtLink
  <2>2. /\ outport \in DOMAIN net.topology /\ outport # net.dst_port
        /\ outport \notin ToSet(Base(top)) /\ Base(top) \in Seq(Ports)
        /\ top.passed = Append(Base(top), outport) /\ links \in Seq(Ports)
        /\ outport \in Ports
    BY <1>1, <2>1, NodeFacts DEF FrameOK, Following, outport, links, IsNetwork
  <2>3. p \in Ports
    BY <1>1, <2>1, <2>2
  <2> HIDE DEF p
  <2>4. /\ g.packet = top.packet /\ g.passed = top.passed /\ g.port = top.port
        /\ g.it = top.it /\ g.i = top.i /\ g.link = top.link + 1
    BY <1>1 DEF Frame
  <2>5. /\ f.packet = intersect /\ f.passed = Append(top.passed, p)
        /\ f.port = p /\ f.it = 1 /\ f.i = 0 /\ f.link = 0
    BY DEF Activation
  <2> HIDE DEF g, f
  <2>6. /\ K \in DOMAIN stack' /\ K + 1 \in DOMAIN stack'
        /\ stack'[K] = g /\ stack'[K + 1] = f
    <3> DEFINE S == Frame \cup {g, f}
    <3>1. stack \in Seq(S) /\ g \in S /\ f \in S
      BY DEF TypeOK
    <3> HIDE DEF S
    <3>2. stack' = Front(stack) \o <<g, f>>
      BY <2>1 DEF Caller
    <3> QED BY <1>1, <3>1, <3>2, Called
  <2>7. Base(g) = Base(top)
    BY <1>1, <2>1, <2>4 DEF Base
  <2>8. ASSUME ToCome(g, K, hops, n, e) PROVE Kept
    <3>1. Ahead(g, K, h, hops, o)
      BY <1>2, <1>3, <1>4, <2>4, <2>7, <2>8 DEF Ahead
    <3> QED BY <2>6, <3>1
  <2>9. CASE n # top.it \/ e # top.i
    BY <1>14, <2>4, <2>8, <2>9
  <2>10. CASE n = top.it /\ e = top.i
    <3>1. LinkToCome(top, K, hops)
      BY <1>1, <1>3, <2>1, <2>10 DEF ToCome
    <3>2. PICK l \in DOMAIN net.topology[hops[K][1]] :
            l >= top.link /\ net.topology[hops[K][1]][l] = hops[K][2]
      BY <3>1 DEF LinkToCome
    <3>3. /\ K \in DOMAIN hops /\ K <= Len(hops) /\ outport = hops[K][1] /\ hops[K] \in Hops
      BY <1>1, <1>4, <1>15, <2>2, <2>10
    <3>4. l \in Nat \ {0}
      BY <2>2, <3>2, <3>3, ElementType DEF links
    <3>5. CASE l # top.link
      <4>1. \A a, b \in Nat : a >= b /\ a # b => a >= b + 1
        OBVIOUS
      <4>2. l >= g.link
        BY <1>1, <2>4, <3>2, <3>4, <3>5, <4>1
      <4>3. LinkToCome(g, K, hops)
        BY <3>2, <3>3, <4>2 DEF LinkToCome
      <4> QED BY <2>4, <2>8, <2>10, <4>3 DEF ToCome
    <3>6. CASE l = top.link
      <4>1. p = hops[K][2]
        BY <3>2, <3>3, <3>6 DEF p, links
      <4>2. K \in 0..Len(hops) /\ K - 1 \in 0..(Len(hops) - 1) /\ (K - 1) + 1 = K
            /\ (K + 1) - 1 = K /\ K + 1 \in 1..(Len(hops) + 1) /\ K # 0
        BY <1>1, <1>9, <3>3
      <4>3. Inport(hops, K) = p
        BY <4>1, <4>2 DEF Inport
      <4>4. Trail(hops, K) = Append(Append(w, outport), p)
        BY <1>1, <3>3, <4>1, <4>2, TrailMore
      <4>5. w \in Seq(Ports) /\ Append(w, outport) \in Seq(Ports)
        BY <1>1, <1>9, <2>2, TrailVisits, AppendFront
      <4>6. Base(f) = Append(Append(Base(top), outport), p)
        BY <2>2, <2>5 DEF Base
      <4>7. IsReading(Append(w, outport), Append(Base(top), outport))
        BY <1>4, <2>2, <4>5, ReadMore
      <4>8. Append(Base(top), outport) \in Seq(Ports)
        BY <2>2, AppendFront
      <4> HIDE DEF w
      <4>9. IsReading(Trail(hops, K), Base(f))
        BY <2>3, <4>4, <4>5, <4>6, <4>7, <4>8, ReadMore
      <4>10. h \in f.packet
        BY <1>2, <1>4, <1>8, <2>5, <2>10 DEF intersect
      <4>11. Ahead(f, K + 1, h, hops, o)
        BY <1>1, <2>5, <4>2, <4>3, <4>9, <4>10, AllAhead
      <4> QED BY <2>6, <4>11
    <3> QED BY <3>5, <3>6
  <2> QED BY <2>9, <2>10
<1>22. CASE EndLinks
  <2> DEFINE g == [top EXCEPT !.passed = Front(top.passed), !.i = top.i + 1, !.link = 0]
  <2>1. /\ AtNode /\ AtLink /\ top.i \in 1..Len(node.out_ports) /\ top.link > 0
        /\ top.link > Len(links) /\ Goto(g)
    BY <1>22 DEF EndLinks, AtLink
  <2>2. /\ outport \in DOMAIN net.topology /\ outport # net.dst_port
        /\ outport \notin ToSet(Base(top)) /\ Base(top) \in Seq(Ports)
        /\ links \in Seq(Ports)
    BY <1>1, <2>1, NodeFacts DEF FrameOK, Following, outport, links, IsNetwork
  <2>3. /\ g.packet = top.packet /\ g.passed = Front(top.passed) /\ g.port = top.port
        /\ g.it = top.it /\ g.i = top.i + 1 /\ g.link = 0
    BY <1>1 DEF Frame
  <2> HIDE DEF g
  <2>4. Base(g) = Base(top)
    BY <1>16, <2>1, <2>3 DEF Base
  <2>5. n # top.it \/ e # top.i
    <3>1. SUFFICES ASSUME n = top.it, e = top.i PROVE FALSE
      OBVIOUS
    <3>2. LinkToCome(top, K, hops)
      BY <1>1, <1>3, <2>1, <3>1 DEF ToCome
    <3>3. PICK l \in DOMAIN net.topology[hops[K][1]] : l >= top.link
      BY <3>2 DEF LinkToCome
    <3>4. outport = hops[K][1]
      BY <1>1, <1>4, <1>15, <2>2, <3>1
    <3>5. l \in Nat \ {0} /\ l <= Len(links) /\ Len(links) \in Nat
      BY <2>2, <3>3, <3>4, ElementType DEF links
    <3>6. \A a, b, c \in Nat : ~(a >= b /\ b > c /\ a <= c)
      OBVIOUS
    <3> QED BY <1>1, <2>1, <3>3, <3>5, <3>6
  <2> QED BY <1>4, <1>13, <2>1, <2>3, <2>4, <2>5
<1> QED BY <1>8, <1>11, <1>12, <1>17, <1>18, <1>19, <1>20, <1>21, <1>22 DEF Step

\* No step touches any but the innermost activation, or takes back a print.
LEMMA LowerKept ==
  ASSUME TypeOK, Step
  PROVE  /\ stack # <<>> /\ net' = net /\ paths \subseteq paths' /\ loops \subseteq loops'
         /\ \A k \in 1..(Len(stack) - 1) : k \in DOMAIN stack' /\ stack'[k] = stack[k]
<1>1. /\ stack # <<>> /\ net' = net /\ paths \subseteq paths' /\ loops \subseteq loops'
  BY DEF Step, NoPort, EnterNode, NextNode, Deliver, ReportLoop, DeadEnd, PassOutport,
         FollowLink, EndLinks, Return, AtNode, AtOutport, AtLink, Active
<1>2. CASE stack' = Caller
  BY <1>1, <1>2, Returned DEF TypeOK, Caller
<1>3. CASE \E g : Goto(g)
  BY <1>1, <1>3, MovedOn
<1>4. CASE \E f, g : stack' = Caller \o <<f, g>>
  <2>1. PICK f, g : stack' = Front(stack) \o <<f, g>>
    BY <1>4 DEF Caller
  <2> DEFINE S == Frame \cup {f, g}
  <2>2. stack \in Seq(S) /\ f \in S /\ g \in S
    BY DEF TypeOK
  <2> HIDE DEF S
  <2>3. /\ Len(stack') = Len(stack) + 1 /\ stack' \in Seq(S)
        /\ \A k \in 1..(Len(stack) - 1) : stack'[k] = stack[k]
    BY <1>1, <2>1, <2>2, Called
  <2>4. Len(stack) \in Nat
    BY DEF TypeOK
  <2> QED BY <1>1, <2>3, <2>4
<1>5. stack' = Caller \/ (\E g : Goto(g)) \/ (\E f, g : stack' = Caller \o <<f, g>>)
  BY DEF Step, NoPort, EnterNode, NextNode, Deliver, ReportLoop, DeadEnd, PassOutport,
         FollowLink, EndLinks, Return
<1> QED BY <1>1, <1>2, <1>3, <1>4, <1>5

\* What was still to come is so after the step, or has come.
LEMMA KeepsPending ==
  ASSUME TypeOK, FramesOK, Step, NEW h \in Packets, NEW hops \in Seq(Hops), Travels(h, hops),
         NEW o, Leads(<<h, hops>>, o), o = net.dst_port \/ o \in Visited(hops, Len(hops)),
         StopAtLoop => loops' = {}, Pending(h, hops, o)
  PROVE  \/ Pending(h, hops, o)'
         \/ o = net.dst_port /\ Printed(h, hops)'
         \/ o # net.dst_port /\ loops' # {}
<1>1. stack # <<>> /\ net' = net
  BY LowerKept
<1>2. top = stack[Len(stack)] /\ DOMAIN stack = 1..Len(stack) /\ Len(stack) \in Nat \ {0}
  BY <1>1, TopFacts
<1>3. PICK k \in DOMAIN stack : Ahead(stack[k], k, h, hops, o)
  BY DEF Pending
<1>4. ASSUME NEW m \in DOMAIN stack', Ahead(stack'[m], m, h, hops, o)
      PROVE  Pending(h, hops, o)'
  BY <1>1, <1>4, SameNetwork DEF Pending
<1>5. CASE k = Len(stack)
  BY <1>1, <1>2, <1>3, <1>4, <1>5, AheadStep
<1>6. CASE k # Len(stack)
  <2>1. k \in 1..(Len(stack) - 1)
    BY <1>2, <1>6
  <2> QED BY <1>3, <1>4, <2>1, LowerKept
<1> QED BY <1>5, <1>6

-----------------------------------------------------------------------------
(***************************************************************************)
(* The invariant.                                                          *)
(***************************************************************************)

\* The query starts with every packet at from_port, and everything to come.
LEMMA InitInvariant == Init => IInv
<1> SUFFICES ASSUME Init PROVE IInv
  OBVIOUS
<1> DEFINE f == Activation(Packets, <<>>, net.from_port)
           C == Cardinality(DOMAIN net.topology)
<1>1. IsNetwork(net) /\ net.from_port \in Ports /\ stack = <<f>> /\ paths = {} /\ loops = {}
      /\ missing = {}
  BY NetworkAssumption DEF Init, IsNetwork
<1>2. /\ f \in Frame /\ f.packet = Packets /\ f.passed = <<net.from_port>>
      /\ f.port = net.from_port /\ f.it = 1 /\ f.i = 0 /\ f.link = 0
  BY <1>1 DEF Activation, Frame
<1> HIDE DEF f
<1>3. stack \in Seq(Frame) /\ Len(stack) = 1 /\ DOMAIN stack = {1} /\ stack[1] = f
  BY <1>1, <1>2
<1>4. C \in Nat
  BY <1>1, PortsAssumption, FS_Subset, FS_CardinalityType DEF IsNetwork
<1>5. Bounded(f)
  <2>1. ASSUME f.port \in DOMAIN net.table
        PROVE  /\ 1 <= Len(net.table[f.port]) + 1
               /\ 1 <= Len(net.table[f.port]) => 0 <= Len(net.table[f.port][1].out_ports) + 1
    <3>1. net.table[f.port] \in Seq(Node)
      BY <1>1, <2>1 DEF IsNetwork
    <3>2. /\ \A s \in Seq(Node) : 1 <= Len(s) + 1 /\ (1 <= Len(s) => s[1] \in Node)
          /\ \A outs \in Seq(Ports) : 0 <= Len(outs) + 1
      OBVIOUS
    <3>3. \A x \in Node : x.out_ports \in Seq(Ports)
      BY DEF Node
    <3> QED BY <3>1, <3>2, <3>3
  <2> QED BY <1>2, <2>1 DEF Bounded, NodeOf
<1>6. Trail(<<>>, 0) = <<net.from_port>>
  BY DEF Trail, Inport
<1>7. /\ Base(f) = <<net.from_port>> /\ IsReading(<<net.from_port>>, <<net.from_port>>)
  BY <1>2, ReadOne DEF Base
<1>8. Traced(f, 1)
  <2>1. ASSUME NEW h \in Packets
        PROVE  \E j \in Journeys :
                 /\ j[1] = h /\ Len(j[2]) = 0
                 /\ Inport(j[2], 0) = net.from_port /\ IsReading(Trail(j[2], 0), Base(f))
    <3>1. <<>> \in Seq(Hops) /\ Travels(h, <<>>) /\ Inport(<<>>, 0) = net.from_port
      BY DEF Travels, Inport
    <3>2. <<h, <<>>>> \in Journeys
      BY <1>1, <3>1, JourneyListed
    <3>3. <<h, <<>>>>[1] = h /\ <<h, <<>>>>[2] = <<>> /\ Len(<<>>) = 0
      OBVIOUS
    <3> QED BY <1>6, <1>7, <3>1, <3>2, <3>3
  <2> QED BY <1>2, <2>1 DEF Traced
<1>9. FramesOK
  BY <1>2, <1>3, <1>5, <1>8 DEF FramesOK, FrameOK, Entered, Following
<1>10. TypeOK
  <2>1. Len(stack) <= C + 1
    BY <1>3, <1>4
  <2>2. \A k \in DOMAIN stack : Bounded(stack[k])
    BY <1>3, <1>5
  <2> QED BY <1>1, <1>3, <2>1, <2>2 DEF TypeOK, Bounded, NodeOf
<1>11. PrintsAreReal
  BY <1>1 DEF PrintsAreReal, PathsAreReal, LoopsAreReal
<1>12. ASSUME NEW j \in Journeys, NEW o, Leads(j, o) PROVE Pending(j[1], j[2], o)
  <2>1. /\ j[1] \in Packets /\ j[2] \in Seq(Hops) /\ Len(j[2]) \in Nat
        /\ Travels(j[1], j[2]) /\ j = <<j[1], j[2]>>
    BY <1>1, JourneyType
  <2> DEFINE h == j[1]
             hops == j[2]
  <2>2. Leads(<<h, hops>>, o)
    BY <1>12, <2>1
  <2> HIDE DEF h, hops
  <2>3. h \in Packets /\ hops \in Seq(Hops) /\ Travels(h, hops) /\ Len(hops) \in Nat
    BY <2>1 DEF h, hops
  <2>4. 1 \in 1..(Len(hops) + 1) /\ 1 - 1 = 0
    BY <2>3
  <2>5. Inport(hops, 0) = net.from_port /\ Trail(hops, 0) = <<net.from_port>>
    BY DEF Trail, Inport
  <2>6. Ahead(f, 1, h, hops, o)
    BY <1>1, <1>2, <1>7, <2>2, <2>3, <2>4, <2>5, AllAhead
  <2> QED BY <1>3, <2>6 DEF Pending, h, hops
<1>13. PathsToCome /\ LoopsToCome
  BY <1>12 DEF PathsToCome, LoopsToCome, JourneysTo
<1> QED BY <1>9, <1>10, <1>11, <1>13 DEF IInv

\* Every step keeps it.
LEMMA StepInvariant == IInv /\ [Next]_vars => IInv'
<1> SUFFICES ASSUME IInv, [Next]_vars PROVE IInv'
  OBVIOUS
<1>1. CASE Step
  <2>1. TypeOK /\ FramesOK /\ PrintsAreReal /\ PathsToCome /\ LoopsToCome
    BY DEF IInv
  <2>2. TypeOK' /\ FramesOK' /\ PrintsAreReal'
    BY <1>1, <2>1, KeepsTypes, KeepsFrames, KeepsPrints
  <2>3. /\ net' = net /\ paths \subseteq paths' /\ loops \subseteq loops'
    BY <1>1, <2>1, LowerKept
  <2>4. IsNetwork(net)
    BY <2>1 DEF TypeOK
  <2>5. ASSUME NEW j \in Journeys
        PROVE  /\ j[1] \in Packets /\ j[2] \in Seq(Hops) /\ Travels(j[1], j[2])
               /\ \A o : Leads(j, o) => Leads(<<j[1], j[2]>>, o)
    <3>1. j = <<j[1], j[2]>> /\ j[1] \in Packets /\ j[2] \in Seq(Hops) /\ Travels(j[1], j[2])
      BY <2>4, JourneyType
    <3> QED BY <3>1
  <2>6. PathsToCome'
    <3>1. SUFFICES ASSUME (StopAtLoop => loops' = {}),
                          NEW j \in Journeys, Leads(j, net.dst_port)
                   PROVE  Pending(j[1], j[2], net.dst_port)' \/ Printed(j[1], j[2])'
      BY <2>3, SameNetwork DEF PathsToCome, JourneysTo, StopAtLoop
    <3>2. StopAtLoop => loops = {}
      BY <2>3, <3>1
    <3>3. Pending(j[1], j[2], net.dst_port) \/ Printed(j[1], j[2])
      BY <2>1, <3>1, <3>2 DEF PathsToCome, JourneysTo
    <3>4. Printed(j[1], j[2]) => Printed(j[1], j[2])'
      BY <2>3, SameNetwork DEF Printed
    <3>5. CASE Pending(j[1], j[2], net.dst_port)
      <4> DEFINE h == j[1]
                 hops == j[2]
      <4>1. /\ h \in Packets /\ hops \in Seq(Hops) /\ Travels(h, hops)
            /\ Leads(<<h, hops>>, net.dst_port) /\ Pending(h, hops, net.dst_port)
        BY <2>5, <3>1, <3>5
      <4> HIDE DEF h, hops
      <4>2. Pending(h, hops, net.dst_port)' \/ Printed(h, hops)'
        BY <1>1, <2>1, <2>3, <3>1, <4>1, KeepsPending
      <4> QED BY <4>2 DEF h, hops
    <3> QED BY <3>3, <3>4, <3>5
  <2>7. LoopsToCome'
    <3>1. SUFFICES ASSUME loops' = {}, NEW j \in Journeys,
                          NEW o \in Visited(j[2], Len(j[2])) \ {net.dst_port}, Leads(j, o)
                   PROVE  Pending(j[1], j[2], o)'
      BY <2>3, SameNetwork DEF LoopsToCome
    <3>2. Pending(j[1], j[2], o)
      BY <2>1, <2>3, <3>1 DEF LoopsToCome
    <3> QED BY <1>1, <2>1, <2>5, <3>1, <3>2, KeepsPending
  <2> QED BY <2>2, <2>6, <2>7 DEF IInv
<1>2. CASE UNCHANGED vars
  <2>1. UNCHANGED <<net, stack, paths, loops, missing>>
    BY <1>2 DEF vars
  <2>2. TypeOK /\ FramesOK /\ PrintsAreReal /\ PathsToCome /\ LoopsToCome
    BY DEF IInv
  <2>3. TypeOK' /\ FramesOK' /\ PrintsAreReal'
    BY <2>1, <2>2, SameNetwork DEF TypeOK, FramesOK, PrintsAreReal, PathsAreReal, LoopsAreReal, JourneysTo
  <2>4. PathsToCome' /\ LoopsToCome'
    BY <2>1, <2>2, SameNetwork
       DEF PathsToCome, LoopsToCome, JourneysTo, StopAtLoop, Pending, Printed
  <2> QED BY <2>3, <2>4 DEF IInv
<1> QED BY <1>1, <1>2 DEF Next, Stopped

\* Whatever the network and the query, every state of its answer satisfies
\* the strengthening.
THEOREM Invariance == Spec => []IInv
<1>1. Init => IInv
  BY InitInvariant
<1>2. IInv /\ [Next]_vars => IInv'
  BY StepInvariant
<1> QED BY <1>1, <1>2, PTL DEF Spec

-----------------------------------------------------------------------------
(***************************************************************************)
(* What follows from it.                                                   *)
(***************************************************************************)

\* The recursion is never deeper than the number of out_ports with links, and
\* one, and its indexes are never more than one past the tables' ends.
THEOREM TypeCorrect == Spec => []TypeOK
<1>1. IInv => TypeOK
  BY DEF IInv
<1> QED BY <1>1, Invariance, PTL

\* Every path and every loop printed really happens to every packet printed
\* with it, and there is such a packet.
THEOREM PrintsCorrect == Spec => []PrintsAreReal
<1>1. IInv => PrintsAreReal
  BY DEF IInv
<1> QED BY <1>1, Invariance, PTL

\* When the query returns, every packet's every loop-free journey to dst_port
\* has been printed, unless propagate_bdd has printed a loop.
THEOREM CompletenessCorrect == Spec => []CompleteUnlessCut
<1>1. IInv => CompleteUnlessCut
  <2> SUFFICES ASSUME IInv, stack = <<>>, StopAtLoop => loops = {},
                      NEW j \in JourneysTo(net.dst_port)
               PROVE  \E r \in paths : j[1] \in r.match /\ TellsOf(Front(r.path), j)
    BY DEF CompleteUnlessCut, Answered, EveryPathPrinted
  <2>1. ~Pending(j[1], j[2], net.dst_port)
    BY DEF Pending
  <2>2. Printed(j[1], j[2])
    BY <2>1 DEF IInv, PathsToCome
  <2> QED BY <2>2 DEF Printed, TellsOf
<1> QED BY <1>1, Invariance, PTL

\* A query that returns without printing a loop has not overlooked one.
THEOREM QuietCorrect == Spec => []QuietMeansLoopFree
<1>1. IInv => QuietMeansLoopFree
  <2> SUFFICES ASSUME IInv, stack = <<>>, loops = {}, NEW j \in Journeys,
                      NEW o \in Visited(j[2], Len(j[2])) \ {net.dst_port}, Leads(j, o)
               PROVE  FALSE
    BY DEF QuietMeansLoopFree, Answered
  <2>1. ~Pending(j[1], j[2], o)
    BY DEF Pending
  <2> QED BY <2>1 DEF IInv, LoopsToCome
<1> QED BY <1>1, Invariance, PTL
=============================================================================
