------------------------ MODULE AtomicPredicatesProofs ------------------------
(***************************************************************************)
(* For every header space and every list of predicates: the atoms are a    *)
(* partition, no predicate cuts one, any two are told apart by a           *)
(* predicate, and the conversion to atom indexes is exact.                 *)
(***************************************************************************)
EXTENDS AtomicPredicates, SequenceTheorems, TLAPS

\* The splitting loop walks a list that is at least as long as it expects,
\* and the conversion works on the finished list.
Stages ==
  /\ status = "splitting" => ori_size <= Len(ap_list) /\ ~Trivial(P)
  /\ status \in {"next", "splitting"} => ap_bdd_list = <<>>
  /\ status \in {"converting", "converted"} =>
       ap_bdd_list = ap_list
  /\ \A p \in DOMAIN match : match[p] = AtomsMeeting(predicates[p])

IInv == TypeOK /\ Stages /\ Partition /\ Resolved /\ Coarsest

-----------------------------------------------------------------------------
(* The types.                                                              *)

\* A fresh list is well typed.
LEMMA InitTypeOK == Init => TypeOK
BY HeadersAssumption, PredicateAssumption DEF Init, TypeOK

\* Appending one pushed element to another.
LEMMA TwoPushed ==
  ASSUME NEW S, NEW x \in S, NEW y \in S
  PROVE  /\ <<x>> \o <<y>> = <<x, y>>
         /\ <<x>> \o <<>> = <<x>>
         /\ <<>> \o <<y>> = <<y>>
<1>1. <<x>> \in Seq(S) /\ <<y>> \in Seq(S) /\ <<x, y>> \in Seq(S)
  OBVIOUS
<1>2. Len(<<x>> \o <<y>>) = 2 /\ Len(<<x, y>>) = 2 /\ <<x>> \o <<y>> \in Seq(S)
  BY <1>1, ConcatProperties
<1>3. \A n \in 1..2 : (<<x>> \o <<y>>)[n] = <<x, y>>[n]
  BY <1>1, ConcatProperties
<1>4. <<x>> \o <<y>> = <<x, y>>
  BY <1>1, <1>2, <1>3, SeqEqual
<1> QED BY <1>1, <1>4, ConcatEmptySeq

\* The list is never empty, because the header space is not.
LEMMA NonEmptyList == ASSUME Partition PROVE ap_list # <<>>
BY HeadersAssumption DEF Partition

\* What one iteration of the inner loop does to the list.
Whole ==
  /\ truesect = {} \/ falsesect = {}
  /\ Len(ap_list') = Len(ap_list)
  /\ ap_list'[1] = bdd_now
  /\ \A a \in 2..Len(ap_list) : ap_list'[a] = ap_list[a - 1]

Cut ==
  /\ truesect # {} /\ falsesect # {}
  /\ Len(ap_list') = Len(ap_list) + 1
  /\ ap_list'[1] = falsesect
  /\ ap_list'[2] = truesect
  /\ \A a \in 3..(Len(ap_list) + 1) : ap_list'[a] = ap_list[a - 2]

LEMMA SplitEffect ==
  ASSUME TypeOK, Partition, SplitBack
  PROVE  /\ ap_list' \in Seq(SUBSET Headers)
         /\ Len(ap_list) \in Nat \ {0}
         /\ bdd_now \in SUBSET Headers
         /\ bdd_now # {}
         /\ P \in SUBSET Headers
         /\ Whole \/ Cut
<1> DEFINE rest == SubSeq(ap_list, 1, Len(ap_list) - 1)
<1>1. Len(ap_list) \in Nat \ {0} /\ DOMAIN ap_list = 1..Len(ap_list)
  BY NonEmptyList DEF TypeOK
<1>2. P \in SUBSET Headers
  BY DEF TypeOK, P, SplitBack
<1>3. bdd_now \in SUBSET Headers /\ bdd_now # {}
  BY <1>1, SMTT(30) DEF TypeOK, bdd_now, Partition
<1>4. /\ rest \in Seq(SUBSET Headers)
      /\ Len(rest) = Len(ap_list) - 1
      /\ \A a \in 1..(Len(ap_list) - 1) : rest[a] = ap_list[a]
  BY <1>1 DEF TypeOK
<1>5. truesect \in SUBSET Headers /\ falsesect \in SUBSET Headers
  BY <1>3 DEF truesect, falsesect
<1>6. CASE truesect # {} /\ falsesect # {}
  <2>1. Pushed = <<falsesect, truesect>>
    BY <1>5, <1>6, TwoPushed DEF Pushed
  <2>2. ap_list' = <<falsesect, truesect>> \o rest
    BY <2>1 DEF SplitBack
  <2>3. <<falsesect, truesect>> \in Seq(SUBSET Headers)
    BY <1>5
  <2>4. ap_list' \in Seq(SUBSET Headers) /\ Len(ap_list') = Len(ap_list) + 1
    BY <1>1, <1>4, <2>2, <2>3
  <2>5. ap_list'[1] = falsesect /\ ap_list'[2] = truesect
    BY <1>1, <1>4, <2>2, <2>3
  <2>6. \A a \in 3..(Len(ap_list) + 1) : ap_list'[a] = ap_list[a - 2]
    BY <1>1, <1>4, <2>2, <2>3
  <2> QED BY <1>1, <1>2, <1>3, <1>6, <2>4, <2>5, <2>6 DEF Cut
<1>7. CASE truesect = {} \/ falsesect = {}
  <2>1. Pushed = <<bdd_now>>
    <3>1. CASE truesect = {}
      <4>1. falsesect = bdd_now
        BY <3>1 DEF truesect, falsesect
      <4> QED BY <1>3, <3>1, <4>1, TwoPushed DEF Pushed
    <3>2. CASE truesect # {}
      <4>1. falsesect = {} /\ truesect = bdd_now
        BY <1>7, <3>2 DEF truesect, falsesect
      <4> QED BY <1>3, <3>2, <4>1, TwoPushed DEF Pushed
    <3> QED BY <3>1, <3>2
  <2>2. ap_list' = <<bdd_now>> \o rest
    BY <2>1 DEF SplitBack
  <2>3. <<bdd_now>> \in Seq(SUBSET Headers)
    BY <1>3
  <2>4. ap_list' \in Seq(SUBSET Headers) /\ Len(ap_list') = Len(ap_list)
    BY <1>1, <1>4, <2>2, <2>3
  <2>5. ap_list'[1] = bdd_now
    BY <1>1, <1>4, <2>2, <2>3
  <2>6. \A a \in 2..Len(ap_list) : ap_list'[a] = ap_list[a - 1]
    BY <1>1, <1>4, <2>2, <2>3
  <2> QED BY <1>1, <1>2, <1>3, <1>7, <2>4, <2>5, <2>6 DEF Whole
<1> QED BY <1>6, <1>7

\* Every step preserves the types.
LEMMA StepTypeOK == TypeOK /\ Partition /\ [Next]_vars => TypeOK'
<1> SUFFICES ASSUME TypeOK, Partition, [Next]_vars PROVE TypeOK'
  OBVIOUS
<1>1. CASE SkipTrivial
  BY <1>1 DEF SkipTrivial, TypeOK
<1>2. CASE BeginPredicate
  BY <1>2 DEF BeginPredicate, TypeOK
<1>3. CASE SplitBack
  <2>1. ap_list' \in Seq(SUBSET Headers)
    BY <1>3, SplitEffect
  <2> QED BY <1>3, <2>1 DEF SplitBack, TypeOK
<1>4. CASE EndPredicate
  BY <1>4 DEF EndPredicate, TypeOK
<1>5. CASE FinishAtoms
  BY <1>5 DEF FinishAtoms, TypeOK
<1>6. CASE ConvertPredicate
  <2>1. AtomsMeeting(P) \in SUBSET DOMAIN ap_bdd_list
    BY DEF AtomsMeeting
  <2>2. match' \in [1..(pn + 1) -> SUBSET DOMAIN ap_bdd_list]
    BY <1>6, <2>1 DEF ConvertPredicate, TypeOK
  <2> QED BY <1>6, <2>2 DEF ConvertPredicate, TypeOK
<1>7. CASE FinishConversion
  BY <1>7 DEF FinishConversion, TypeOK
<1>8. CASE UNCHANGED vars
  BY <1>8 DEF vars, TypeOK
<1> QED
  BY <1>1, <1>2, <1>3, <1>4, <1>5, <1>6, <1>7, <1>8 DEF Next, Step, Stopped

-----------------------------------------------------------------------------
(* Splitting the last atom.                                                *)

\* Every atom of the new list is a part of one of the old: of the last for a
\* pushed atom, of itself for the others.
LEMMA PartOfOld ==
  ASSUME TypeOK, Partition, SplitBack, NEW a \in DOMAIN ap_list'
  PROVE  \E b \in DOMAIN ap_list : ap_list'[a] \subseteq ap_list[b]
<1>1. /\ ap_list' \in Seq(SUBSET Headers) /\ Len(ap_list) \in Nat \ {0}
      /\ Whole \/ Cut
  BY SplitEffect
<1>2. DOMAIN ap_list = 1..Len(ap_list) /\ DOMAIN ap_list' = 1..Len(ap_list')
  BY <1>1 DEF TypeOK
<1>3. bdd_now = ap_list[Len(ap_list)]
  BY DEF bdd_now
<1>4. truesect \subseteq bdd_now /\ falsesect \subseteq bdd_now
  BY DEF truesect, falsesect
<1>5. CASE Whole
  <2>1. CASE a = 1
    BY <1>1, <1>2, <1>3, <1>5, <2>1 DEF Whole
  <2>2. CASE a # 1
    <3>1. a - 1 \in DOMAIN ap_list /\ ap_list'[a] = ap_list[a - 1]
      BY <1>1, <1>2, <1>5, <2>2 DEF Whole
    <3> QED BY <3>1
  <2> QED BY <2>1, <2>2
<1>6. CASE Cut
  <2>1. CASE a \in {1, 2}
    BY <1>1, <1>2, <1>3, <1>4, <1>6, <2>1 DEF Cut
  <2>2. CASE a \notin {1, 2}
    <3>1. a - 2 \in DOMAIN ap_list /\ ap_list'[a] = ap_list[a - 2]
      BY <1>1, <1>2, <1>6, <2>2 DEF Cut
    <3> QED BY <3>1
  <2> QED BY <2>1, <2>2
<1> QED BY <1>1, <1>5, <1>6

\* Two atoms of the new list are the two parts of the last, which P tells
\* apart, or they are parts of two different atoms of the old.
LEMMA PartsOfTwo ==
  ASSUME TypeOK, Partition, SplitBack,
         NEW a \in DOMAIN ap_list', NEW b \in DOMAIN ap_list', a # b
  PROVE  \/ /\ ap_list'[a] \subseteq P /\ ap_list'[b] \cap P = {}
         \/ /\ ap_list'[b] \subseteq P /\ ap_list'[a] \cap P = {}
         \/ \E c, d \in DOMAIN ap_list :
              /\ c # d
              /\ ap_list'[a] \subseteq ap_list[c] /\ ap_list'[b] \subseteq ap_list[d]
<1>1. /\ ap_list' \in Seq(SUBSET Headers) /\ Len(ap_list) \in Nat \ {0}
      /\ Whole \/ Cut
  BY SplitEffect
<1>2. DOMAIN ap_list = 1..Len(ap_list) /\ DOMAIN ap_list' = 1..Len(ap_list')
  BY <1>1 DEF TypeOK
<1>3. bdd_now = ap_list[Len(ap_list)]
  BY DEF bdd_now
<1>4. truesect \subseteq bdd_now /\ falsesect \subseteq bdd_now
  BY DEF truesect, falsesect
<1>5. truesect \subseteq P /\ falsesect \cap P = {}
  BY DEF truesect, falsesect
<1>6. CASE Whole
  <2> DEFINE old(n) == IF n = 1 THEN Len(ap_list) ELSE n - 1
  <2>1. \A n \in DOMAIN ap_list' :
          old(n) \in DOMAIN ap_list /\ ap_list'[n] = ap_list[old(n)]
    BY <1>1, <1>2, <1>3, <1>6 DEF Whole
  <2>2. old(a) # old(b)
    BY <1>1, <1>2, <1>6 DEF Whole
  <2> HIDE DEF old
  <2> QED BY <2>1, <2>2
<1>7. CASE Cut
  <2> DEFINE old(n) == IF n \in {1, 2} THEN Len(ap_list) ELSE n - 2
  <2>1. \A n \in DOMAIN ap_list' :
          old(n) \in DOMAIN ap_list /\ ap_list'[n] \subseteq ap_list[old(n)]
    BY <1>1, <1>2, <1>3, <1>4, <1>7 DEF Cut
  <2>2. CASE {a, b} = {1, 2}
    <3>1. (a = 1 /\ b = 2) \/ (a = 2 /\ b = 1)
      BY <2>2
    <3> QED BY <1>5, <1>7, <3>1 DEF Cut
  <2>3. CASE {a, b} # {1, 2}
    <3>1. old(a) # old(b)
      BY <1>1, <1>2, <1>7, <2>3 DEF Cut
    <3> HIDE DEF old
    <3> QED BY <2>1, <3>1
  <2> QED BY <2>2, <2>3
<1> QED BY <1>1, <1>6, <1>7

\* Replacing the last atom by its parts keeps the list a partition.
LEMMA SplitPartition ==
  ASSUME TypeOK, Partition, SplitBack
  PROVE  Partition'
<1>1. /\ ap_list' \in Seq(SUBSET Headers) /\ Len(ap_list) \in Nat \ {0}
      /\ bdd_now # {}
      /\ Whole \/ Cut
  BY SplitEffect
<1>2. DOMAIN ap_list = 1..Len(ap_list) /\ DOMAIN ap_list' = 1..Len(ap_list')
  BY <1>1 DEF TypeOK
<1>3. \A a \in DOMAIN ap_list' : ap_list'[a] # {}
  <2> SUFFICES ASSUME NEW a \in DOMAIN ap_list' PROVE ap_list'[a] # {}
    OBVIOUS
  <2>1. CASE Whole
    <3>1. CASE a = 1
      <4>1. ap_list'[1] = bdd_now
        BY <2>1 DEF Whole
      <4> QED BY <1>1, <3>1, <4>1
    <3>2. CASE a # 1
      <4>1. a - 1 \in DOMAIN ap_list /\ ap_list'[a] = ap_list[a - 1]
        BY <1>1, <1>2, <2>1, <3>2 DEF Whole
      <4> QED BY <4>1 DEF Partition
    <3> QED BY <3>1, <3>2
  <2>2. CASE Cut
    <3>1. CASE a \in {1, 2}
      BY <2>2, <3>1 DEF Cut
    <3>2. CASE a \notin {1, 2}
      <4>1. a - 2 \in DOMAIN ap_list /\ ap_list'[a] = ap_list[a - 2]
        BY <1>1, <1>2, <2>2, <3>2 DEF Cut
      <4> QED BY <4>1 DEF Partition
    <3> QED BY <3>1, <3>2
  <2> QED BY <1>1, <2>1, <2>2
<1>4. \A a, b \in DOMAIN ap_list' : a # b => ap_list'[a] \cap ap_list'[b] = {}
  <2> SUFFICES ASSUME NEW a \in DOMAIN ap_list', NEW b \in DOMAIN ap_list', a # b
               PROVE  ap_list'[a] \cap ap_list'[b] = {}
    OBVIOUS
  <2>1. CASE \E c, d \in DOMAIN ap_list :
               /\ c # d
               /\ ap_list'[a] \subseteq ap_list[c] /\ ap_list'[b] \subseteq ap_list[d]
    <3>1. PICK c, d \in DOMAIN ap_list :
               /\ c # d
               /\ ap_list'[a] \subseteq ap_list[c] /\ ap_list'[b] \subseteq ap_list[d]
      BY <2>1
    <3>2. ap_list[c] \cap ap_list[d] = {}
      BY <3>1 DEF Partition
    <3> QED BY <3>1, <3>2
  <2> QED BY <2>1, PartsOfTwo
<1>5. \A h \in Headers : \E a \in DOMAIN ap_list' : h \in ap_list'[a]
  <2> SUFFICES ASSUME NEW h \in Headers PROVE \E a \in DOMAIN ap_list' : h \in ap_list'[a]
    OBVIOUS
  <2>1. PICK b \in DOMAIN ap_list : h \in ap_list[b]
    BY DEF Partition
  <2>2. CASE Whole
    <3>1. CASE b = Len(ap_list)
      BY <1>1, <1>2, <2>1, <2>2, <3>1 DEF Whole, bdd_now
    <3>2. CASE b # Len(ap_list)
      <4>1. b + 1 \in DOMAIN ap_list' /\ ap_list'[b + 1] = ap_list[b]
        BY <1>1, <1>2, <2>2, <3>2 DEF Whole
      <4> QED BY <2>1, <4>1
    <3> QED BY <3>1, <3>2
  <2>3. CASE Cut
    <3>1. CASE b = Len(ap_list)
      <4>1. h \in truesect \/ h \in falsesect
        BY <2>1, <3>1 DEF truesect, falsesect, bdd_now
      <4>2. 1 \in DOMAIN ap_list' /\ 2 \in DOMAIN ap_list'
        BY <1>1, <1>2, <2>3 DEF Cut
      <4> QED BY <2>3, <4>1, <4>2 DEF Cut
    <3>2. CASE b # Len(ap_list)
      <4>1. b + 2 \in DOMAIN ap_list' /\ ap_list'[b + 2] = ap_list[b]
        BY <1>1, <1>2, <2>3, <3>2 DEF Cut
      <4> QED BY <2>1, <4>1
    <3> QED BY <3>1, <3>2
  <2> QED BY <1>1, <2>2, <2>3
<1> QED BY <1>3, <1>4, <1>5 DEF Partition

-----------------------------------------------------------------------------
(* Resolving the predicates.                                               *)

\* A part of an atom that S does not cut is not cut by S.
LEMMA PartResolved ==
  ASSUME NEW S, NEW A, NEW B, Resolves(S, B), A \subseteq B
  PROVE  Resolves(S, A)
BY DEF Resolves

\* A split resolves the parts for P and keeps what was resolved.
LEMMA SplitResolved ==
  ASSUME TypeOK, Stages, Partition, Resolved, SplitBack
  PROVE  Resolved'
<1>1. /\ ap_list' \in Seq(SUBSET Headers)
      /\ Len(ap_list) \in Nat \ {0}
      /\ Whole \/ Cut
  BY SplitEffect
<1>2. DOMAIN ap_list = 1..Len(ap_list) /\ DOMAIN ap_list' = 1..Len(ap_list')
  BY <1>1 DEF TypeOK
<1>3. /\ status = "splitting" /\ status' = "splitting"
      /\ UNCHANGED <<predicates, pn, ori_size>>
      /\ i' = i + 1 /\ i < ori_size /\ i \in Nat /\ ori_size \in Nat
      /\ ori_size <= Len(ap_list)
  BY DEF SplitBack, TypeOK, Stages
<1>4. Processed' = Processed /\ P' = P
  BY <1>3 DEF Processed, P
<1>5. \A q \in Processed', a \in DOMAIN ap_list' :
        Resolves(predicates'[q], ap_list'[a])
  <2> SUFFICES ASSUME NEW q \in Processed, NEW a \in DOMAIN ap_list'
               PROVE  Resolves(predicates[q], ap_list'[a])
    BY <1>3, <1>4
  <2>1. PICK b \in DOMAIN ap_list : ap_list'[a] \subseteq ap_list[b]
    BY PartOfOld
  <2>2. Resolves(predicates[q], ap_list[b])
    BY DEF Resolved
  <2> QED BY <2>1, <2>2, PartResolved
<1>6. \A a \in 1..(Len(ap_list') - (ori_size - (i + 1))) : Resolves(P, ap_list'[a])
  <2> SUFFICES ASSUME NEW a \in 1..(Len(ap_list') - (ori_size - (i + 1)))
               PROVE  Resolves(P, ap_list'[a])
    OBVIOUS
  <2>1. \A b \in 1..(Len(ap_list) - (ori_size - i)) : Resolves(P, ap_list[b])
    BY <1>3 DEF Resolved
  <2>2. CASE Whole
    <3>1. CASE a = 1
      <4>1. Resolves(P, bdd_now)
        BY <2>2 DEF Whole, Resolves, truesect, falsesect
      <4>2. ap_list'[1] = bdd_now
        BY <2>2 DEF Whole
      <4> QED BY <3>1, <4>1, <4>2
    <3>2. CASE a # 1
      <4>1. /\ a - 1 \in 1..(Len(ap_list) - (ori_size - i))
            /\ ap_list'[a] = ap_list[a - 1]
        BY <1>1, <1>3, <2>2, <3>2 DEF Whole
      <4> QED BY <2>1, <4>1
    <3> QED BY <3>1, <3>2
  <2>3. CASE Cut
    <3>1. CASE a \in {1, 2}
      <4>1. Resolves(P, truesect) /\ Resolves(P, falsesect)
        BY DEF Resolves, truesect, falsesect
      <4>2. ap_list'[1] = falsesect /\ ap_list'[2] = truesect
        BY <2>3 DEF Cut
      <4> QED BY <3>1, <4>1, <4>2
    <3>2. CASE a \notin {1, 2}
      <4>1. /\ a - 2 \in 1..(Len(ap_list) - (ori_size - i))
            /\ ap_list'[a] = ap_list[a - 2]
        BY <1>1, <1>3, <2>3, <3>2 DEF Cut
      <4> QED BY <2>1, <4>1
    <3> QED BY <3>1, <3>2
  <2> QED BY <1>1, <2>2, <2>3
<1> QED BY <1>3, <1>4, <1>5, <1>6 DEF Resolved

\* Every step keeps the predicates dealt with resolved.
LEMMA StepResolved ==
  ASSUME TypeOK, Stages, Partition, Resolved, [Next]_vars
  PROVE  Resolved'
<1>1. CASE SkipTrivial
  <2>1. \A a \in DOMAIN ap_list : Resolves(P, ap_list[a])
    BY <1>1 DEF SkipTrivial, Trivial, Resolves, TypeOK
  <2>2. Processed' = Processed \cup {pn + 1}
    BY <1>1 DEF SkipTrivial, Processed, TypeOK
  <2> QED BY <1>1, <2>1, <2>2 DEF SkipTrivial, Resolved, P
<1>2. CASE BeginPredicate
  <2>1. Processed' = Processed
    BY <1>2 DEF BeginPredicate, Processed
  <2>2. 1..(Len(ap_list') - (ori_size' - i')) = {}
    BY <1>2 DEF BeginPredicate, TypeOK
  <2> QED BY <1>2, <2>1, <2>2 DEF BeginPredicate, Resolved
<1>3. CASE SplitBack
  BY <1>3, SplitResolved
<1>4. CASE EndPredicate
  <2>1. \A a \in DOMAIN ap_list : Resolves(P, ap_list[a])
    BY <1>4 DEF EndPredicate, Resolved, TypeOK
  <2>2. Processed' = Processed \cup {pn + 1}
    BY <1>4 DEF EndPredicate, Processed, TypeOK
  <2> QED BY <1>4, <2>1, <2>2 DEF EndPredicate, Resolved, P
<1>5. CASE FinishAtoms
  BY <1>5 DEF FinishAtoms, Resolved, Processed
<1>6. CASE ConvertPredicate
  BY <1>6 DEF ConvertPredicate, Resolved, Processed
<1>7. CASE FinishConversion
  BY <1>7 DEF FinishConversion, Resolved, Processed
<1>8. CASE UNCHANGED vars
  BY <1>8 DEF vars, Resolved, Processed, P
<1> QED
  BY <1>1, <1>2, <1>3, <1>4, <1>5, <1>6, <1>7, <1>8 DEF Next, Step, Stopped

-----------------------------------------------------------------------------
(* Keeping the atoms as coarse as possible.                                *)

\* A split only makes atoms that some predicate tells apart.
LEMMA SplitCoarsest ==
  ASSUME TypeOK, Partition, Coarsest, SplitBack
  PROVE  Coarsest'
<1> SUFFICES ASSUME NEW a \in DOMAIN ap_list', NEW b \in DOMAIN ap_list', a # b
             PROVE  \E q \in 1..Len(predicates) : Separates(q, ap_list'[a], ap_list'[b])
  <2>1. predicates' = predicates
    BY DEF SplitBack
  <2> QED BY <2>1 DEF Coarsest, Separates
<1>1. pn + 1 \in 1..Len(predicates) /\ P = predicates[pn + 1]
  BY DEF TypeOK, SplitBack, P
<1>2. CASE \/ ap_list'[a] \subseteq P /\ ap_list'[b] \cap P = {}
           \/ ap_list'[b] \subseteq P /\ ap_list'[a] \cap P = {}
  <2>1. Separates(pn + 1, ap_list'[a], ap_list'[b])
    BY <1>1, <1>2 DEF Separates
  <2> QED BY <1>1, <2>1
<1>3. CASE \E c, d \in DOMAIN ap_list :
             /\ c # d
             /\ ap_list'[a] \subseteq ap_list[c] /\ ap_list'[b] \subseteq ap_list[d]
  <2>1. PICK c, d \in DOMAIN ap_list :
             /\ c # d
             /\ ap_list'[a] \subseteq ap_list[c] /\ ap_list'[b] \subseteq ap_list[d]
    BY <1>3
  <2>2. PICK q \in 1..Len(predicates) : Separates(q, ap_list[c], ap_list[d])
    BY <2>1 DEF Coarsest
  <2>3. Separates(q, ap_list'[a], ap_list'[b])
    BY <2>1, <2>2 DEF Separates
  <2> QED BY <2>3
<1> QED BY <1>2, <1>3, PartsOfTwo

-----------------------------------------------------------------------------
(* The inductive invariant.                                                *)

\* The list that holds the whole header space satisfies the invariant.
LEMMA InitIInv == Init => IInv
<1> SUFFICES ASSUME Init PROVE IInv
  OBVIOUS
<1>1. ap_list = <<Headers>> /\ DOMAIN ap_list = {1}
  BY DEF Init
<1>2. Partition
  BY <1>1, HeadersAssumption DEF Partition
<1>3. Stages
  BY DEF Init, Stages
<1>4. Resolved
  BY DEF Init, Resolved, Processed
<1>5. Coarsest
  BY <1>1 DEF Coarsest
<1> QED BY InitTypeOK, <1>2, <1>3, <1>4, <1>5 DEF IInv

\* Every step keeps to the stages of the two loops.
LEMMA StepStages == TypeOK /\ Stages /\ Partition /\ [Next]_vars => Stages'
<1> SUFFICES ASSUME TypeOK, Stages, Partition, [Next]_vars PROVE Stages'
  OBVIOUS
<1>1. CASE SkipTrivial
  BY <1>1 DEF SkipTrivial, TypeOK, Stages
<1>2. CASE BeginPredicate
  BY <1>2 DEF BeginPredicate, TypeOK, Stages, P
<1>3. CASE SplitBack
  <2>1. Len(ap_list') >= Len(ap_list)
    BY <1>3, SplitEffect DEF Whole, Cut
  <2>2. Len(ap_list) \in Nat /\ Len(ap_list') \in Nat /\ ori_size \in Nat
    BY <1>3, SplitEffect DEF TypeOK
  <2>3. DOMAIN match = {}
    BY <1>3 DEF SplitBack, TypeOK
  <2> QED BY <1>3, <2>1, <2>2, <2>3 DEF SplitBack, Stages, P
<1>4. CASE EndPredicate
  BY <1>4 DEF EndPredicate, TypeOK, Stages
<1>5. CASE FinishAtoms
  BY <1>5 DEF FinishAtoms, TypeOK, Stages
<1>6. CASE ConvertPredicate
  BY <1>6 DEF ConvertPredicate, TypeOK, Stages, AtomsMeeting, P
<1>7. CASE FinishConversion
  BY <1>7 DEF FinishConversion, TypeOK, Stages, AtomsMeeting
<1>8. CASE UNCHANGED vars
  BY <1>8 DEF vars, Stages, AtomsMeeting, P
<1> QED
  BY <1>1, <1>2, <1>3, <1>4, <1>5, <1>6, <1>7, <1>8 DEF Next, Step, Stopped

\* The invariant is inductive.
LEMMA StepIInv == IInv /\ [Next]_vars => IInv'
<1> SUFFICES ASSUME IInv, [Next]_vars PROVE IInv'
  OBVIOUS
<1>1. TypeOK /\ Stages /\ Partition /\ Resolved /\ Coarsest
  BY DEF IInv
<1>2. TypeOK' /\ Stages' /\ Resolved'
  BY <1>1, StepTypeOK, StepStages, StepResolved
<1>3. CASE SplitBack
  BY <1>1, <1>2, <1>3, SplitPartition, SplitCoarsest DEF IInv
<1>4. CASE ~SplitBack
  <2>1. UNCHANGED <<predicates, ap_list>>
    BY <1>4 DEF Next, Step, Stopped, vars, SkipTrivial, BeginPredicate,
         EndPredicate, FinishAtoms, ConvertPredicate, FinishConversion
  <2>2. Partition' /\ Coarsest'
    BY <1>1, <2>1 DEF Partition, Coarsest, Separates
  <2> QED BY <1>2, <2>2 DEF IInv
<1> QED BY <1>3, <1>4

\* The inductive invariant holds throughout.
THEOREM Invariance == Spec => []IInv
BY InitIInv, StepIInv, PTL DEF Spec

-----------------------------------------------------------------------------
(* The theorems.                                                           *)

\* The type invariant of make_atomic_predicates and convert_router_to_ap.
THEOREM TypeCorrect == Spec => []TypeOK
<1>1. IInv => TypeOK
  BY DEF IInv
<1> QED BY Invariance, <1>1, PTL

\* The list that make_atomic_predicates splits is a partition of the header
\* space at every moment.
THEOREM PartitionCorrect == Spec => []Partition
<1>1. IInv => Partition
  BY DEF IInv
<1> QED BY Invariance, <1>1, PTL

\* No atom is cut by a predicate that has been dealt with.
THEOREM ResolvedCorrect == Spec => []Resolved
<1>1. IInv => Resolved
  BY DEF IInv
<1> QED BY Invariance, <1>1, PTL

\* No two atoms could be one.
THEOREM CoarsestCorrect == Spec => []Coarsest
<1>1. IInv => Coarsest
  BY DEF IInv
<1> QED BY Invariance, <1>1, PTL

\* The index sets of convert_router_to_ap stand for the predicates, and
\* their intersections for the intersections of the predicates.
THEOREM ConversionCorrect == Spec => []ConversionExact
<1>1. ASSUME IInv PROVE ConversionExact
  <2>1. TypeOK /\ Stages /\ Partition /\ Resolved
    BY <1>1 DEF IInv
  <2>2. CASE DOMAIN match = {}
    BY <2>2 DEF ConversionExact
  <2>3. CASE DOMAIN match # {}
    <3>1. /\ status \in {"converting", "converted"}
          /\ ap_bdd_list = ap_list
          /\ DOMAIN match \subseteq 1..Len(predicates)
      BY <2>1, <2>3 DEF TypeOK, Stages
    <3>2. \A q \in DOMAIN match, a \in DOMAIN ap_list :
            Resolves(predicates[q], ap_list[a])
      BY <2>1, <3>1 DEF Resolved, Processed
    <3>3. \A q \in DOMAIN match :
            match[q] = {a \in DOMAIN ap_list : ap_list[a] \cap predicates[q] # {}}
      BY <2>1, <3>1 DEF Stages, AtomsMeeting
    <3>4. \A q \in DOMAIN match : predicates[q] \subseteq Headers
      BY <2>1, <3>1 DEF TypeOK
    <3>5. \A q \in DOMAIN match, a \in DOMAIN ap_list :
            a \in match[q] <=> ap_list[a] \subseteq predicates[q]
      BY <2>1, <3>2, <3>3 DEF Resolves, Partition
    <3>6. \A q \in DOMAIN match : \A h \in predicates[q] :
            \E a \in match[q] : h \in ap_list[a]
      BY <2>1, <3>3, <3>4 DEF Partition
    <3>7. \A q \in DOMAIN match : match[q] \subseteq DOMAIN ap_list
      BY <3>3
    <3>8. \A q \in DOMAIN match : HeadersOf(match[q]) = predicates[q]
      BY <3>1, <3>5, <3>6, <3>7 DEF HeadersOf
    <3>9. \A p, q \in DOMAIN match :
            HeadersOf(match[p] \cap match[q]) = predicates[p] \cap predicates[q]
      <4> SUFFICES ASSUME NEW p \in DOMAIN match, NEW q \in DOMAIN match
                   PROVE  HeadersOf(match[p] \cap match[q])
                            = predicates[p] \cap predicates[q]
        OBVIOUS
      <4>1. ASSUME NEW a \in match[p] \cap match[q]
            PROVE  ap_list[a] \subseteq predicates[p] \cap predicates[q]
        BY <3>5, <3>7
      <4>2. ASSUME NEW h \in predicates[p] \cap predicates[q]
            PROVE  \E a \in match[p] \cap match[q] : h \in ap_list[a]
        <5>1. PICK a \in match[p] : h \in ap_list[a]
          BY <3>6
        <5>2. a \in match[q]
          BY <3>3, <3>7, <5>1
        <5> QED BY <5>1, <5>2
      <4> QED BY <3>1, <4>1, <4>2 DEF HeadersOf
    <3> QED BY <3>8, <3>9 DEF ConversionExact
  <2> QED BY <2>2, <2>3
<1> QED BY Invariance, <1>1, PTL

-----------------------------------------------------------------------------
(* The promise.                                                            *)

\* Once every predicate is dealt with, the atoms are the classes of headers
\* that no predicate tells apart.
LEMMA AtomsAreClasses ==
  ASSUME TypeOK, Partition, Resolved, Coarsest, status = "next", pn = Len(predicates)
  PROVE  {ap_list[a] : a \in DOMAIN ap_list} = Promise!Classes
<1>1. /\ DOMAIN predicates = 1..Len(predicates)
      /\ \A a \in DOMAIN ap_list : ap_list[a] \subseteq Headers
  BY DEF TypeOK
<1>2. \A q \in DOMAIN predicates, a \in DOMAIN ap_list :
        Resolves(predicates[q], ap_list[a])
  BY <1>1 DEF Resolved, Processed
<1>3. ASSUME NEW a \in DOMAIN ap_list, NEW h \in ap_list[a]
      PROVE  ap_list[a] = Promise!Class(h)
  <2>1. ASSUME NEW g \in ap_list[a] PROVE g \in Promise!Class(h)
    <3>1. \A q \in DOMAIN predicates : (g \in predicates[q]) <=> (h \in predicates[q])
      BY <1>2, <1>3, <2>1 DEF Resolves
    <3> QED BY <1>1, <3>1 DEF Promise!Class
  <2>2. ASSUME NEW g \in Promise!Class(h) PROVE g \in ap_list[a]
    <3>1. /\ g \in Headers
          /\ \A q \in DOMAIN predicates : (g \in predicates[q]) <=> (h \in predicates[q])
      BY DEF Promise!Class
    <3>2. PICK b \in DOMAIN ap_list : g \in ap_list[b]
      BY <3>1 DEF Partition
    <3>3. ~ \E q \in DOMAIN predicates : Separates(q, ap_list[a], ap_list[b])
      BY <1>3, <3>1, <3>2 DEF Separates
    <3>4. a = b
      BY <1>1, <3>3 DEF Coarsest
    <3> QED BY <3>2, <3>4
  <2> QED BY <2>1, <2>2
<1>4. ASSUME NEW a \in DOMAIN ap_list PROVE ap_list[a] \in Promise!Classes
  <2>1. PICK h \in ap_list[a] : TRUE
    BY DEF Partition
  <2>2. h \in Headers /\ ap_list[a] = Promise!Class(h)
    BY <1>1, <1>3, <2>1
  <2> QED BY <2>2 DEF Promise!Classes
<1>5. ASSUME NEW A \in Promise!Classes PROVE \E a \in DOMAIN ap_list : A = ap_list[a]
  <2>1. PICK h \in Headers : A = Promise!Class(h)
    BY DEF Promise!Classes
  <2>2. PICK a \in DOMAIN ap_list : h \in ap_list[a]
    BY DEF Partition
  <2> QED BY <1>3, <2>1, <2>2
<1> QED BY <1>4, <1>5

\* The atoms that meet a predicate are those that lie in it.
LEMMA MeetingLiesIn ==
  ASSUME TypeOK, Stages, Partition, Resolved, status = "converting",
         NEW q \in 1..Len(predicates)
  PROVE  {ap_bdd_list[a] : a \in AtomsMeeting(predicates[q])} =
           {A \in {ap_bdd_list[a] : a \in DOMAIN ap_bdd_list} : A \subseteq predicates[q]}
<1>1. ap_bdd_list = ap_list
  BY DEF Stages
<1>2. \A a \in DOMAIN ap_list :
        Resolves(predicates[q], ap_list[a]) /\ ap_list[a] # {}
  BY DEF Resolved, Processed, Partition
<1>3. \A a \in DOMAIN ap_bdd_list :
        a \in AtomsMeeting(predicates[q]) <=> ap_bdd_list[a] \subseteq predicates[q]
  BY <1>1, <1>2 DEF Resolves, AtomsMeeting
<1>4. AtomsMeeting(predicates[q]) \subseteq DOMAIN ap_bdd_list
  BY DEF AtomsMeeting
<1> QED BY <1>3, <1>4

\* Moving the list to ap_bdd_list makes all the atoms, and no other step does.
LEMMA StepPromise == IInv /\ IInv' /\ [Next]_vars => [Promise!Next]_Promise!vars
<1> SUFFICES ASSUME IInv, IInv', [Next]_vars
             PROVE  Promise!Next \/ UNCHANGED Promise!vars
  OBVIOUS
<1> USE DEF Promise!vars
<1>1. TypeOK /\ Stages /\ Partition /\ Resolved /\ Coarsest
  BY DEF IInv
<1>2. CASE FinishAtoms
  <2>1. ap_bdd_list = <<>> /\ DOMAIN match = {}
    BY <1>1, <1>2 DEF FinishAtoms, TypeOK, Stages
  <2>2. {ap_bdd_list'[a] : a \in DOMAIN ap_bdd_list'} = Promise!Classes
    BY <1>1, <1>2, AtomsAreClasses DEF FinishAtoms
  <2>3. {ap_bdd_list[a] : a \in DOMAIN ap_bdd_list} = {}
    BY <2>1
  <2>4. predicates' = predicates /\ match' = match
    BY <1>2 DEF FinishAtoms
  <2>5. [p \in DOMAIN match |-> {ap_bdd_list[a] : a \in match[p]}]
          = [p \in DOMAIN match' |-> {ap_bdd_list'[a] : a \in match'[p]}]
    BY <2>1, <2>4
  <2> QED BY <2>2, <2>3, <2>4, <2>5 DEF Promise!Next, Promise!MakeAtoms
<1>3. CASE ConvertPredicate
  <2> DEFINE q == pn + 1
             atoms == {ap_bdd_list[a] : a \in DOMAIN ap_bdd_list}
             converted == [p \in DOMAIN match |-> {ap_bdd_list[a] : a \in match[p]}]
             next == [p \in DOMAIN match' |-> {ap_bdd_list'[a] : a \in match'[p]}]
  <2>1. /\ status = "converting" /\ q \in 1..Len(predicates)
        /\ q \notin DOMAIN match /\ DOMAIN match = 1..pn
        /\ q \in DOMAIN predicates
    BY <1>1, <1>3 DEF ConvertPredicate, TypeOK
  <2>2. /\ UNCHANGED <<predicates, ap_bdd_list>>
        /\ match' = [p \in 1..q |->
             IF p \in DOMAIN match THEN match[p] ELSE AtomsMeeting(predicates[q])]
    BY <1>3 DEF ConvertPredicate, P
  <2>3. 1..q = DOMAIN match \cup {q}
    BY <1>1, <2>1 DEF TypeOK
  <2>4. atoms # {}
    <3>1. ap_bdd_list = ap_list /\ ap_list # <<>> /\ ap_list \in Seq(SUBSET Headers)
      BY <1>1, <2>1, NonEmptyList DEF Stages, TypeOK
    <3>2. 1 \in DOMAIN ap_bdd_list
      BY <3>1
    <3> QED BY <3>2
  <2>5. {ap_bdd_list[a] : a \in AtomsMeeting(predicates[q])}
          = {A \in atoms : A \subseteq predicates[q]}
    BY <1>1, <2>1, MeetingLiesIn
  <2>6. next = [p \in DOMAIN converted \cup {q} |->
                  IF p = q THEN {A \in atoms : A \subseteq predicates[q]}
                  ELSE converted[p]]
    <3>1. DOMAIN match' = 1..q /\ ap_bdd_list' = ap_bdd_list
      BY <2>2
    <3>2. match'[q] = AtomsMeeting(predicates[q])
      BY <2>1, <2>2, <2>3
    <3>3. \A p \in DOMAIN match : match'[p] = match[p]
      BY <2>2, <2>3
    <3>4. \A p \in 1..q :
            {ap_bdd_list'[a] : a \in match'[p]} =
              IF p = q THEN {A \in atoms : A \subseteq predicates[q]}
              ELSE converted[p]
      <4>1. {ap_bdd_list'[a] : a \in match'[q]} = {A \in atoms : A \subseteq predicates[q]}
        BY <2>5, <3>1, <3>2, SMTT(30)
      <4>2. ASSUME NEW p \in DOMAIN match
            PROVE  {ap_bdd_list'[a] : a \in match'[p]} = converted[p]
        BY <3>1, <3>3, <4>2
      <4> QED BY <2>3, <4>1, <4>2
    <3>5. DOMAIN converted = DOMAIN match
      OBVIOUS
    <3> HIDE DEF atoms, converted
    <3> QED BY <2>3, <3>1, <3>4, <3>5
  <2>7. predicates' = predicates /\ atoms = atoms'
    BY <2>2
  <2> QED BY <2>1, <2>4, <2>6, <2>7 DEF Promise!Next, Promise!Convert
<1>4. CASE UNCHANGED <<predicates, ap_bdd_list, match>>
  BY <1>4
<1> QED
  BY <1>2, <1>3, <1>4 DEF Next, Step, Stopped, vars, SkipTrivial, BeginPredicate,
     SplitBack, EndPredicate, FinishConversion

\* make_atomic_predicates and convert_router_to_ap implement the promise.
THEOREM Refinement == Spec => ImplementsAtoms
<1>1. Init => Promise!Init
  BY DEF Init, Promise!Init
<1> QED BY <1>1, Invariance, StepPromise, PTL DEF Spec, ImplementsAtoms, Promise!Spec
=============================================================================
