------------------------------ MODULE MCPropagate ------------------------------
(***************************************************************************)
(* Networks of two routers with one in-port each, 1 and 2, and three ways  *)
(* out of them: 3 and 5, which may lead to either router, to both, to an   *)
(* in-port that no rule mentions, or nowhere, and 4, the port asked for.   *)
(* Each in-port has two predicates, which never overlap.  Two packets tell *)
(* apart the cases of one, both or none passing.  Port lists are sorted,   *)
(* as val_to_list leaves them.                                             *)
(*                                                                         *)
(* In the networks of MCHairpin the in-ports are out_ports as well, and    *)
(* one of them is the port asked for.                                      *)
(***************************************************************************)
EXTENDS AtomQuery

MCPackets == {1, 2}
MCPorts == 1..6

\* As atoms, the packets stand for one header and for two.
MCHeaders == {"g", "h", "k"}
MCAtoms == <<{"g"}, {"h", "k"}>>

\* propagate_bdd, and one of the three that go on at a loop.
MCTypes == {"NONE", "VECTOR"}

\* The pairs of out_ports lists, in the order of the std::map: shorter first.
MCOutPorts == {<<<<3>>, <<4>>>>, <<<<4>>, <<3, 5>>>>, <<<<3>>, <<4, 5>>>>,
               <<<<5>>, <<3, 4>>>>, <<<<>>, <<3, 4, 5>>>>}
MCHairpinOutPorts == {<<<<2>>, <<1, 3>>>>, <<<<1>>, <<2, 5>>>>, <<<<3>>, <<2, 5>>>>}
MCMatches == {<<{1}, {2}>>, <<{1, 2}, {}>>, <<{}, {1, 2}>>}
MCTable(lists) ==
  {[n \in 1..2 |-> [match |-> m[n], out_ports |-> o[n]]] :
     m \in MCMatches, o \in lists}

MCTopologies ==
  {(3 :> a) : a \in {<<1>>, <<2>>, <<2, 1>>}} \cup
  {(3 :> a @@ 5 :> b) : a \in {<<2>>, <<6, 2>>}, b \in {<<1>>, <<2>>}}

MCPlain ==
  {[topology |-> t, table |-> (1 :> a @@ 2 :> b), from_port |-> 1, dst_port |-> 4,
    type |-> y] :
     t \in MCTopologies, a \in MCTable(MCOutPorts), b \in MCTable(MCOutPorts),
     y \in MCTypes}

\* Port numbers name physical ports: a router may send a packet out of the
\* in-port it came by, and the query may start at the port it asks for.
MCHairpin ==
  {[topology |-> t, table |-> (1 :> a @@ 2 :> b), from_port |-> 1, dst_port |-> d,
    type |-> y] :
     t \in MCTopologies, a \in MCTable(MCHairpinOutPorts),
     b \in MCTable(MCHairpinOutPorts), d \in {1, 2}, y \in MCTypes}

MCNetworks == MCPlain \cup MCHairpin
=============================================================================
