-------------------------- MODULE MCAtomicPredicates --------------------------
(***************************************************************************)
(* Every list of up to three predicates over four headers: enough for the  *)
(* third predicate to split the atoms of the first two into as many parts  *)
(* as there are headers, and for trivial and repeated predicates anywhere. *)
(***************************************************************************)
EXTENDS AtomicPredicates

MCHeaders == 1..4
MCPredicateLists == UNION {[1..n -> SUBSET MCHeaders] : n \in 0..3}
=============================================================================
