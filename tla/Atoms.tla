--------------------------------- MODULE Atoms ---------------------------------
(***************************************************************************)
(* What make_atomic_predicates and convert_router_to_ap promise, without   *)
(* the list and the splitting: the atoms are the classes of headers that   *)
(* no predicate tells apart, all made at once, and a predicate is then     *)
(* rewritten as the set of the atoms that lie in it.  The order in which   *)
(* predicates are taken has no part in it.                                 *)
(***************************************************************************)
EXTENDS Integers, Sequences

CONSTANTS
  Headers,        \* the packet header space
  PredicateLists  \* the predicates of a network

VARIABLES
  predicates,  \* the predicates of the loaded routers
  atoms,       \* the atoms, none before they are made
  converted    \* predicate number -> its atoms

vars == <<predicates, atoms, converted>>

\* The headers that satisfy the same predicates as h.
Class(h) ==
  {g \in Headers : \A p \in DOMAIN predicates :
                     (g \in predicates[p]) <=> (h \in predicates[p])}
Classes == {Class(h) : h \in Headers}

Init ==
  /\ predicates \in PredicateLists
  /\ atoms = {}
  /\ converted = [p \in {} |-> {}]

MakeAtoms ==
  /\ atoms = {}
  /\ atoms' = Classes
  /\ UNCHANGED <<predicates, converted>>

Convert(p) ==
  /\ atoms # {}
  /\ p \notin DOMAIN converted
  /\ converted' = [q \in DOMAIN converted \cup {p} |->
                     IF q = p THEN {A \in atoms : A \subseteq predicates[p]}
                     ELSE converted[q]]
  /\ UNCHANGED <<predicates, atoms>>

Next == MakeAtoms \/ \E p \in DOMAIN predicates : Convert(p)

Spec == Init /\ [][Next]_vars
=============================================================================
