------------------------------- MODULE AtomQuery -------------------------------
(***************************************************************************)
(* A query on atom indexes, as propagate_vec, propagate_numset and         *)
(* propagate_bset answer it, seen as the same query on the headers that    *)
(* the atoms stand for.                                                    *)
(***************************************************************************)
EXTENDS Propagate

CONSTANTS
  Headers,      \* the packet header space
  ap_bdd_list   \* the atoms; packets are indexes of this vector

\* What make_atomic_predicates leaves in ap_bdd_list, and what
\* query_reachability starts with: every index (AtomicPredicates!Partition).
ASSUME AtomsAssumption ==
  /\ Packets = DOMAIN ap_bdd_list
  /\ UNION {ap_bdd_list[a] : a \in Packets} = Headers
  /\ \A a \in Packets : ap_bdd_list[a] # {}
  /\ \A a, b \in Packets : a # b => ap_bdd_list[a] \cap ap_bdd_list[b] = {}

HeadersOf(A) == UNION {ap_bdd_list[a] : a \in A}

\* A predicate, a network, a stack and what is printed, with the headers in
\* place of the atoms.
NodeOnHeaders(n) == [match |-> HeadersOf(n.match), out_ports |-> n.out_ports]
NetOnHeaders(n) ==
  [topology |-> n.topology,
   table |-> [p \in DOMAIN n.table |->
                [k \in DOMAIN n.table[p] |-> NodeOnHeaders(n.table[p][k])]],
   from_port |-> n.from_port, dst_port |-> n.dst_port, type |-> n.type]
FrameOnHeaders(f) == [f EXCEPT !.packet = HeadersOf(f.packet)]
StackOnHeaders(s) == [k \in DOMAIN s |-> FrameOnHeaders(s[k])]
PrintsOnHeaders(prints) ==
  {[match |-> HeadersOf(r.match), path |-> r.path] : r \in prints}

OnHeaders == INSTANCE Propagate WITH
  Packets <- Headers,
  Networks <- {NetOnHeaders(n) : n \in Networks},
  net <- NetOnHeaders(net),
  stack <- StackOnHeaders(stack),
  paths <- PrintsOnHeaders(paths),
  loops <- PrintsOnHeaders(loops)

\* The query takes the same steps and prints the same paths and loops as if
\* it held headers: no intersection of index sets is empty when that of the
\* headers is not, or the reverse.
ImplementsOnHeaders == OnHeaders!Spec

\* Of each single header, what is printed is true, nothing is left out but what
\* propagate_bdd cuts off, and no loop is overlooked.
AnswersOnHeaders ==
  /\ OnHeaders!PrintsAreReal
  /\ OnHeaders!CompleteUnlessCut
  /\ OnHeaders!QuietMeansLoopFree

-----------------------------------------------------------------------------
(***************************************************************************)
(* The network that is queried is one on headers, converted.               *)
(***************************************************************************)

\* convert_router_to_ap: each predicate becomes the atoms it meets.
AtomsMeeting(S) == {a \in DOMAIN ap_bdd_list : ap_bdd_list[a] \cap S # {}}
NodeOnAtoms(n) == [match |-> AtomsMeeting(n.match), out_ports |-> n.out_ports]
NetOnAtoms(n) ==
  [n EXCEPT !.table =
     [p \in DOMAIN n.table |->
        [k \in DOMAIN n.table[p] |-> NodeOnAtoms(n.table[p][k])]]]

\* The networks on headers whose predicates cut no atom
\* (AtomicPredicates!Resolved).
Maps(S) == UNION {[D -> S] : D \in SUBSET Ports}
HeaderNetworks ==
  {n \in [topology : Maps(Seq(Ports)), table : Maps(Seq(OnHeaders!Node)),
          from_port : Ports, dst_port : Ports, type : AP_TYPE] :
     \A p \in DOMAIN n.table : \A k \in DOMAIN n.table[p], a \in Packets :
       \/ ap_bdd_list[a] \subseteq n.table[p][k].match
       \/ ap_bdd_list[a] \cap n.table[p][k].match = {}}
=============================================================================
