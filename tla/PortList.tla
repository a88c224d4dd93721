------------------------------- MODULE PortList -------------------------------
(***************************************************************************)
(* val_to_list and compare (ap_verifier_util.cpp): the port list of a rule *)
(* is read from a JSON array with asUInt and sorted by qsort, with a       *)
(* comparison that returns the difference of two 64-bit ports as an int.   *)
(***************************************************************************)
EXTENDS JsonTree

\* Mutant: the elements are read with operator [] up to their number.
Ports_Counted(val) ==
  [i \in 1..Cardinality(Kids(val)) |-> asUInt(Child(val, i - 1))]

\* elems: an absent element reads as null, and null as 0.
Ports(val) == [i \in 1..Size(val) |-> asUInt(Child(val, i - 1))]

ReadsPorts(val) == \A i \in DOMAIN Ports(val) : Ports(val)[i].outcome = "returns"

\* The difference, cut to the bits of an int.
compare(a, b) ==
  LET low == (a - b) % (2 * IntLimit)
  IN IF low > MaxInt THEN low - 2 * IntLimit ELSE low

\* What qsort asks of its comparison.
IsOrder(list) ==
  \A a, b, c \in ToSet(list) :
    /\ compare(a, b) < 0 <=> compare(b, a) > 0
    /\ compare(a, b) <= 0 /\ compare(b, c) <= 0 => compare(a, c) <= 0

\* qsort leaves the elements in the order of the comparison if it is one;
\* otherwise its result is undefined, some arrangement of the elements.
Arrangements(list) ==
  {[i \in DOMAIN list |-> list[p[i]]] : p \in Injection(DOMAIN list, DOMAIN list)}

Sorts(list) ==
  {l \in Arrangements(list) :
     IsOrder(list) => \A i \in 1..(Len(l) - 1) : compare(l[i], l[i + 1]) <= 0}

\* make_sorted_list_from_array and val_to_list: the lists a port array may
\* become; none if asUInt throws.
val_to_list(val) ==
  IF ReadsPorts(val) THEN Sorts([i \in DOMAIN Ports(val) |-> Ports(val)[i].v])
  ELSE {}
=============================================================================
