--------------------------- MODULE AtomicPredicates ---------------------------
(***************************************************************************)
(* APVerifier::make_atomic_predicates followed by convert_router_to_ap:    *)
(* the atomic predicates of the network's predicates are computed by       *)
(* splitting a list in place, and every predicate is then rewritten as the *)
(* set of the indexes of the atoms it meets (APNodeV, APNodeS and APNodeB  *)
(* keep that set as a vector, a set and a bitset).                         *)
(*                                                                         *)
(* As in RuleTables a BDD is the set of headers it accepts.  The           *)
(* predicates come in the order of the three nested map iterators.         *)
(***************************************************************************)
EXTENDS Integers, Sequences

CONSTANTS
  Headers,        \* the packet header space, bdd_true()
  PredicateLists  \* the predicates of a network, in iteration order

ASSUME HeadersAssumption == Headers # {}
ASSUME PredicateAssumption == PredicateLists \subseteq Seq(SUBSET Headers)

VARIABLES
  predicates,   \* the predicates of the loaded routers
  pn,           \* predicates already dealt with, by the current loop
  ap_list,      \* the std::list of atoms
  i,            \* splits done for the current predicate
  ori_size,     \* splits to do for it
  ap_bdd_list,  \* the finished list, in a vector
  match,        \* predicate number -> indexes of atoms, once converted
  status        \* "next", "splitting", "converting" or "converted"

vars == <<predicates, pn, ap_list, i, ori_size, ap_bdd_list, match, status>>

Init ==
  /\ predicates \in PredicateLists
  /\ pn = 0
  /\ ap_list = <<Headers>>
  /\ i = 0
  /\ ori_size = 0
  /\ ap_bdd_list = <<>>
  /\ match = [p \in {} |-> {}]
  /\ status = "next"

P == predicates[pn + 1]
Trivial(S) == S = {} \/ S = Headers

-----------------------------------------------------------------------------
(***************************************************************************)
(* make_atomic_predicates.                                                 *)
(***************************************************************************)

\* A predicate no header or every header satisfies splits nothing.
SkipTrivial ==
  /\ status = "next" /\ pn < Len(predicates) /\ Trivial(P)
  /\ pn' = pn + 1
  /\ UNCHANGED <<predicates, ap_list, i, ori_size, ap_bdd_list, match, status>>

\* Mutant: one atom too few is looked at.
BeginPredicate_Short ==
  /\ status = "next" /\ pn < Len(predicates) /\ ~Trivial(P)
  /\ i' = 0
  /\ ori_size' = IF Len(ap_list) > 1 THEN Len(ap_list) - 1 ELSE 1
  /\ status' = "splitting"
  /\ UNCHANGED <<predicates, pn, ap_list, ap_bdd_list, match>>

\* The size is read once: the atoms the loop pushes in front are not revisited.
BeginPredicate ==
  /\ status = "next" /\ pn < Len(predicates) /\ ~Trivial(P)
  /\ i' = 0
  /\ ori_size' = Len(ap_list)
  /\ status' = "splitting"
  /\ UNCHANGED <<predicates, pn, ap_list, ap_bdd_list, match>>

bdd_now == ap_list[Len(ap_list)]
truesect == bdd_now \cap P
falsesect == bdd_now \ P

\* Mutant: the part outside the predicate is pushed unconditionally.
Pushed_Always ==
  <<falsesect>> \o (IF truesect # {} THEN <<truesect>> ELSE <<>>)

\* Mutant: the part outside is pushed only if the part inside is empty.
Pushed_Else ==
  IF truesect # {} THEN <<truesect>> ELSE <<falsesect>>

\* The non-empty parts of the last atom, in the order they end up in.
Pushed ==
  (IF falsesect # {} THEN <<falsesect>> ELSE <<>>) \o
  (IF truesect # {} THEN <<truesect>> ELSE <<>>)

\* Mutant: the last atom stays in the list when it is split.
SplitBack_NoPop ==
  /\ status = "splitting" /\ i < ori_size
  /\ ap_list' = IF Len(Pushed) = 2 THEN Pushed \o ap_list
                ELSE Pushed \o SubSeq(ap_list, 1, Len(ap_list) - 1)
  /\ i' = i + 1
  /\ UNCHANGED <<predicates, pn, ori_size, ap_bdd_list, match, status>>

\* Mutant: only the atoms that are cut are counted.
SplitBack_CountsCuts ==
  /\ status = "splitting" /\ i < ori_size
  /\ ap_list' = IF Pushed = <<>> THEN ap_list
                ELSE Pushed \o SubSeq(ap_list, 1, Len(ap_list) - 1)
  /\ i' = IF Len(Pushed) = 2 THEN i + 1 ELSE i
  /\ UNCHANGED <<predicates, pn, ori_size, ap_bdd_list, match, status>>

\* One iteration of the inner loop: the last atom gives way to its parts,
\* pushed in front.
SplitBack ==
  /\ status = "splitting" /\ i < ori_size
  /\ ap_list' = IF Pushed = <<>> THEN ap_list
                ELSE Pushed \o SubSeq(ap_list, 1, Len(ap_list) - 1)
  /\ i' = i + 1
  /\ UNCHANGED <<predicates, pn, ori_size, ap_bdd_list, match, status>>

EndPredicate ==
  /\ status = "splitting" /\ i = ori_size
  /\ pn' = pn + 1
  /\ status' = "next"
  /\ UNCHANGED <<predicates, ap_list, i, ori_size, ap_bdd_list, match>>

\* Mutant: the iterator is not set back for the conversion.
FinishAtoms_NoReset ==
  /\ status = "next" /\ pn = Len(predicates)
  /\ ap_bdd_list' = ap_list
  /\ status' = "converting"
  /\ UNCHANGED <<predicates, pn, ap_list, i, ori_size, match>>

\* The list is moved to the vector ap_bdd_list.
FinishAtoms ==
  /\ status = "next" /\ pn = Len(predicates)
  /\ ap_bdd_list' = ap_list
  /\ pn' = 0
  /\ status' = "converting"
  /\ UNCHANGED <<predicates, ap_list, i, ori_size, match>>

-----------------------------------------------------------------------------
(***************************************************************************)
(* convert_router_to_ap.                                                   *)
(***************************************************************************)

\* Mutant: the last atom is never tested.
AtomsMeeting_Short(S) ==
  {a \in DOMAIN ap_bdd_list : a < Len(ap_bdd_list) /\ ap_bdd_list[a] \cap S # {}}

\* The constructors APNodeV, APNodeS and APNodeB: the atoms that share a
\* header with the predicate.
AtomsMeeting(S) == {a \in DOMAIN ap_bdd_list : ap_bdd_list[a] \cap S # {}}

ConvertPredicate ==
  /\ status = "converting" /\ pn < Len(predicates)
  /\ match' = [p \in 1..(pn + 1) |->
                 IF p \in DOMAIN match THEN match[p] ELSE AtomsMeeting(P)]
  /\ pn' = pn + 1
  /\ UNCHANGED <<predicates, ap_list, i, ori_size, ap_bdd_list, status>>

FinishConversion ==
  /\ status = "converting" /\ pn = Len(predicates)
  /\ status' = "converted"
  /\ UNCHANGED <<predicates, pn, ap_list, i, ori_size, ap_bdd_list, match>>

Step ==
  \/ SkipTrivial \/ BeginPredicate \/ SplitBack \/ EndPredicate
  \/ FinishAtoms \/ ConvertPredicate \/ FinishConversion

Stopped == status = "converted" /\ UNCHANGED vars

Next == Step \/ Stopped

Spec == Init /\ [][Next]_vars

\* One thread runs both loops and nothing blocks it.
FairSpec == Spec /\ WF_vars(Step)

-----------------------------------------------------------------------------
(***************************************************************************)
(* Properties.                                                             *)
(***************************************************************************)

\* Every variable holds a value of its C++ type, within its loop's bounds.
TypeOK ==
  /\ predicates \in Seq(SUBSET Headers)
  /\ pn \in 0..Len(predicates)
  /\ ap_list \in Seq(SUBSET Headers)
  /\ i \in 0..ori_size
  /\ ori_size \in Nat
  /\ ap_bdd_list \in Seq(SUBSET Headers)
  /\ match \in [DOMAIN match -> SUBSET DOMAIN ap_bdd_list]
  /\ DOMAIN match = 1..(IF status \in {"converting", "converted"} THEN pn ELSE 0)
  /\ status \in {"next", "splitting", "converting", "converted"}
  /\ status = "splitting" => pn < Len(predicates)

\* At every moment of the splitting the list holds non-empty, pairwise
\* disjoint atoms that cover the header space: pushing the parts in front
\* while popping from the back loses and duplicates nothing.
Partition ==
  /\ \A a \in DOMAIN ap_list : ap_list[a] # {}
  /\ \A a, b \in DOMAIN ap_list : a # b => ap_list[a] \cap ap_list[b] = {}
  /\ \A h \in Headers : \E a \in DOMAIN ap_list : h \in ap_list[a]

\* S does not cut atom A.
Resolves(S, A) == A \subseteq S \/ A \cap S = {}

\* The predicates whose splitting is over.
Processed == IF status \in {"next", "splitting"} THEN 1..pn
             ELSE 1..Len(predicates)

\* No split for a later predicate, and no order of the list, ever leaves an
\* atom that an earlier predicate cuts; the front of the list, as far as the
\* inner loop got, is resolved for the current predicate as well.
Resolved ==
  /\ \A q \in Processed, a \in DOMAIN ap_list : Resolves(predicates[q], ap_list[a])
  /\ status = "splitting" =>
       \A a \in 1..(Len(ap_list) - (ori_size - i)) : Resolves(P, ap_list[a])

\* Predicate q accepts all of atom A and none of atom B, or the reverse.
Separates(q, A, B) ==
  \/ A \subseteq predicates[q] /\ B \cap predicates[q] = {}
  \/ B \subseteq predicates[q] /\ A \cap predicates[q] = {}

\* The atoms are no finer than needed: any two are told apart by a predicate
\* of the network, so their number is the least possible.
Coarsest ==
  \A a, b \in DOMAIN ap_list : a # b =>
    \E q \in 1..Len(predicates) : Separates(q, ap_list[a], ap_list[b])

\* The header set that a set of atom indexes stands for.
HeadersOf(A) == UNION {ap_bdd_list[a] : a \in A}

\* Rewriting predicates as atoms loses nothing: the atoms a predicate meets
\* are together the predicate, so the intersections that the propagate_vec,
\* propagate_numset and propagate_bset functions take of index sets are the
\* intersections of the header sets, and are empty exactly when those are.
ConversionExact ==
  /\ \A p \in DOMAIN match : HeadersOf(match[p]) = predicates[p]
  /\ \A p, q \in DOMAIN match :
       HeadersOf(match[p] \cap match[q]) = predicates[p] \cap predicates[q]

\* The atoms as a set, and the predicates as sets of atoms.
Promise == INSTANCE Atoms WITH
  atoms <- {ap_bdd_list[a] : a \in DOMAIN ap_bdd_list},
  converted <- [p \in DOMAIN match |-> {ap_bdd_list[a] : a \in match[p]}]

\* The splitting and the conversion implement what is promised of them: the
\* atoms are the classes of headers no predicate tells apart, whatever the
\* order of the predicates and of the list, and APNodeV, APNodeS and APNodeB,
\* which look for atoms that meet a predicate, find those that lie in it.
ImplementsAtoms == Promise!Spec

\* Both loops come to an end although the first grows the list it walks.
AtomsTerminate == <>(status = "converted")
=============================================================================
