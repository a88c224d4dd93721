------------------------------- MODULE Propagate -------------------------------
(***************************************************************************)
(* A reachability query: query_reachability and the recursive functions    *)
(* propagate_bdd, propagate_vec, propagate_numset and propagate_bset of    *)
(* ap_verifier.cpp, as one machine over an explicit call stack.            *)
(*                                                                         *)
(* The four differ in how they hold a set of packets (the headers of a     *)
(* BDD, or atom indexes in a vector, a set or a bitset) and in one line:   *)
(* propagate_bdd returns when it meets a loop, the others go on.  The type *)
(* of the query says which of them answers it.                             *)
(***************************************************************************)
EXTENDS Integers, SequencesExt

CONSTANTS
  Packets,    \* the headers, or the indexes of the atomic predicates
  Ports,      \* port numbers
  Networks    \* loaded networks, each with a query to answer

\* A port's table is the router's map from out_ports to predicates, in map
\* order; RuleTables!RoutedInportHasTable is why one lookup stands for the
\* three the code makes.
AP_TYPE == {"NONE", "VECTOR", "BITSET", "NUM_SET"}
Node == [match : SUBSET Packets, out_ports : Seq(Ports)]
IsNetwork(n) ==
  /\ DOMAIN n.topology \subseteq Ports
  /\ \A o \in DOMAIN n.topology : n.topology[o] \in Seq(Ports)
  /\ DOMAIN n.table \subseteq Ports
  /\ \A p \in DOMAIN n.table : n.table[p] \in Seq(Node)
  /\ n.from_port \in Ports /\ n.dst_port \in Ports
  /\ n.type \in AP_TYPE

ASSUME NetworkAssumption == \A n \in Networks : IsNetwork(n)
ASSUME PortsAssumption == IsFiniteSet(Ports)

VARIABLES
  net,     \* topology and table; from_port, dst_port and type of the query
  stack,   \* the activations of the propagate function, innermost last
  paths,   \* the paths printed: the packets and the list of passed ports
  loops,   \* the loops printed: likewise
  missing  \* in-ports for which "no port found" was logged

vars == <<net, stack, paths, loops, missing>>

\* An activation: its arguments (passed_port is passed by value, and
\* from_port is appended to it at once), its iterator it, the index i of the
\* current out_port, counted from 1, with 0 for "predicate not tested yet",
\* and the current link of that port, 0 outside the loop over the links.
Frame == [packet : SUBSET Packets, passed : Seq(Ports), port : Ports,
          it : Nat \ {0}, i : Nat, link : Nat]
Activation(packet_header, passed_port, from_port) ==
  [packet |-> packet_header, passed |-> Append(passed_port, from_port),
   port |-> from_port, it |-> 1, i |-> 0, link |-> 0]

Init ==
  /\ net \in Networks
  /\ stack = <<Activation(Packets, <<>>, net.from_port)>>
  /\ paths = {}
  /\ loops = {}
  /\ missing = {}

top == Last(stack)
Caller == Front(stack)
nodes == net.table[top.port]
node == nodes[top.it]
intersect == top.packet \cap node.match
outport == node.out_ports[top.i]
links == net.topology[outport]

\* The query is answered by propagate_bdd.
StopAtLoop == net.type = "NONE"

\* The innermost activation looks up its port, or is at some predicate.
Active == stack # <<>> /\ top.port \in DOMAIN net.table
AtNode == Active /\ top.it <= Len(nodes)
AtOutport == AtNode /\ top.i \in 1..Len(node.out_ports) /\ top.link = 0
AtLink == AtNode /\ top.i \in 1..Len(node.out_ports) /\ top.link > 0

\* The innermost activation moves on.
Goto(frame) == stack' = Append(Caller, frame)

\* "Wrong in action configuration: no port found!"
NoPort ==
  /\ stack # <<>> /\ top.port \notin DOMAIN net.table
  /\ missing' = missing \cup {top.port}
  /\ stack' = Caller
  /\ UNCHANGED <<net, paths, loops>>

EnterNode ==
  /\ AtNode /\ top.i = 0 /\ intersect # {}
  /\ Goto([top EXCEPT !.i = 1])
  /\ UNCHANGED <<net, paths, loops, missing>>

\* Mutant: the iteration starts over.
NextNode_Rewinds ==
  /\ AtNode
  /\ (top.i = 0 /\ intersect = {}) \/ top.i > Len(node.out_ports)
  /\ Goto([top EXCEPT !.it = 1, !.i = 0])
  /\ UNCHANGED <<net, paths, loops, missing>>

\* No packet passes, or the out_ports are exhausted: the next predicate.
NextNode ==
  /\ AtNode
  /\ (top.i = 0 /\ intersect = {}) \/ top.i > Len(node.out_ports)
  /\ Goto([top EXCEPT !.it = top.it + 1, !.i = 0])
  /\ UNCHANGED <<net, paths, loops, missing>>

\* The out_port is the one asked for.  It is appended to passed_port, and
\* stays there for the out_ports and predicates still to come.
Deliver ==
  /\ AtOutport /\ outport = net.dst_port
  /\ LET path == Append(top.passed, outport)
     IN  /\ paths' = paths \cup {[match |-> intersect, path |-> path]}
         /\ Goto([top EXCEPT !.passed = path, !.i = top.i + 1])
  /\ UNCHANGED <<net, loops, missing>>

\* Mutant: only the port of this activation is compared.
Looped_Here == outport = top.port

Looped == outport \in ToSet(top.passed)

\* Mutant: the loop is not printed.
ReportLoop_Silent ==
  /\ AtOutport /\ outport # net.dst_port /\ Looped
  /\ IF StopAtLoop THEN stack' = Caller
     ELSE Goto([top EXCEPT !.i = top.i + 1])
  /\ UNCHANGED <<net, paths, loops, missing>>

\* propagate_bdd abandons the activation, the others the out_port.
ReportLoop ==
  /\ AtOutport /\ outport # net.dst_port /\ Looped
  /\ loops' = loops \cup {[match |-> intersect, path |-> top.passed]}
  /\ IF StopAtLoop THEN stack' = Caller
     ELSE Goto([top EXCEPT !.i = top.i + 1])
  /\ UNCHANGED <<net, paths, missing>>

\* Mutant: a port without links ends the activation.
DeadEnd_Returns ==
  /\ AtOutport /\ outport # net.dst_port /\ ~Looped
  /\ outport \notin DOMAIN net.topology
  /\ stack' = Caller
  /\ UNCHANGED <<net, paths, loops, missing>>

\* The out_port is pushed on passed_port, and popped for want of links.
DeadEnd ==
  /\ AtOutport /\ outport # net.dst_port /\ ~Looped
  /\ outport \notin DOMAIN net.topology
  /\ Goto([top EXCEPT !.i = top.i + 1])
  /\ UNCHANGED <<net, paths, loops, missing>>

PassOutport ==
  /\ AtOutport /\ outport # net.dst_port /\ ~Looped
  /\ outport \in DOMAIN net.topology
  /\ Goto([top EXCEPT !.passed = Append(top.passed, outport), !.link = 1])
  /\ UNCHANGED <<net, paths, loops, missing>>

\* The recursive call, for one link of the out_port.
FollowLink ==
  /\ AtLink /\ top.link <= Len(links)
  /\ stack' = Caller \o <<[top EXCEPT !.link = top.link + 1],
                          Activation(intersect, top.passed, links[top.link])>>
  /\ UNCHANGED <<net, paths, loops, missing>>

\* Mutant: the out_port is not popped.
EndLinks_NoPop ==
  /\ AtLink /\ top.link > Len(links)
  /\ Goto([top EXCEPT !.i = top.i + 1, !.link = 0])
  /\ UNCHANGED <<net, paths, loops, missing>>

EndLinks ==
  /\ AtLink /\ top.link > Len(links)
  /\ Goto([top EXCEPT !.passed = Front(top.passed),
                      !.i = top.i + 1, !.link = 0])
  /\ UNCHANGED <<net, paths, loops, missing>>

Return ==
  /\ Active /\ top.it > Len(nodes)
  /\ stack' = Caller
  /\ UNCHANGED <<net, paths, loops, missing>>

Step ==
  \/ NoPort \/ EnterNode \/ NextNode \/ Deliver \/ ReportLoop
  \/ DeadEnd \/ PassOutport \/ FollowLink \/ EndLinks \/ Return

Answered == stack = <<>>
Stopped == Answered /\ UNCHANGED vars

Next == Step \/ Stopped

Spec == Init /\ [][Next]_vars

\* One thread runs the query and nothing blocks it.
FairSpec == Spec /\ WF_vars(Step)

-----------------------------------------------------------------------------
(***************************************************************************)
(* What a query is about: one packet, travelling through the network.      *)
(***************************************************************************)

\* The router behind in-port p sends packet h out of port o.
Sends(p, h, o) ==
  /\ p \in DOMAIN net.table
  /\ \E n \in ToSet(net.table[p]) : h \in n.match /\ o \in ToSet(n.out_ports)

\* A hop takes a link: an out_port of the topology and an in-port behind it.
Hops == {hop \in (DOMAIN net.topology) \X Ports : hop[2] \in ToSet(net.topology[hop[1]])}

\* The in-port behind the n-th hop, and all ports passed on the way there.
Inport(hops, n) == IF n = 0 THEN net.from_port ELSE hops[n][2]
Visited(hops, n) == {Inport(hops, m) : m \in 0..n} \cup {hops[m][1] : m \in 1..n}

\* The same ports as a list: in-ports and out_ports take turns.
Trail(hops, n) ==
  [k \in 1..(2 * n + 1) |->
     IF k % 2 = 1 THEN Inport(hops, k \div 2) ELSE hops[k \div 2][1]]

\* Packet h can take the hops, by no port twice and without leaving by
\* dst_port.
Travels(h, hops) ==
  \A n \in DOMAIN hops :
    /\ Sends(Inport(hops, n - 1), h, hops[n][1])
    /\ hops[n][1] # net.dst_port
    /\ hops[n][1] \notin Visited(hops, n - 1)

\* A packet and the hops it takes.  Every hop has an out_port of its own,
\* which bounds their number.
Journeys ==
  LET Routes == UNION {[1..n -> Hops] : n \in 0..Cardinality(DOMAIN net.topology)}
  IN  {j \in Packets \X Routes : Travels(j[1], j[2])}

\* The router at the end of journey j sends the packet out of port o.
Leads(j, o) == Sends(Inport(j[2], Len(j[2])), j[1], o)
JourneysTo(o) == {j \in Journeys : Leads(j, o)}

\* List w is what a printed list says when some of the mentions of dst_port
\* in it are discounted: an element that is kept is as far on in w as there
\* are kept ones up to it.
Rank(kept, n) == Cardinality({m \in kept : m <= n})
IsReading(w, path) ==
  \E mentions \in SUBSET {n \in DOMAIN path : path[n] = net.dst_port} :
    LET kept == DOMAIN path \ mentions
    IN  /\ Len(w) = Cardinality(kept)
        /\ \A n \in kept : w[Rank(kept, n)] = path[n]

\* The list tells of journey j.
TellsOf(path, j) == IsReading(Trail(j[2], Len(j[2])), path)

-----------------------------------------------------------------------------
(***************************************************************************)
(* Properties.                                                             *)
(***************************************************************************)

\* Every variable holds a value of its type, the loop indexes stay within one
\* of their bounds, and the recursion is no deeper than the number of
\* out_ports that have links, whatever loops the network has.
TypeOK ==
  /\ Len(stack) <= Cardinality(DOMAIN net.topology) + 1
  /\ IsNetwork(net)
  /\ stack \in Seq(Frame)
  /\ \A k \in DOMAIN stack :
       LET f == stack[k]
       IN  f.port \in DOMAIN net.table =>
             /\ f.it <= Len(net.table[f.port]) + 1
             /\ f.it <= Len(net.table[f.port]) =>
                  f.i <= Len(net.table[f.port][f.it].out_ports) + 1
  /\ paths \cup loops \subseteq [match : SUBSET Packets, path : Seq(Ports)]
  /\ missing \subseteq Ports

\* A path is printed only with packets that really travel it, so only if
\* there are some: the sets narrowed along the recursion and restored on
\* return never let a packet through that a router on the way drops.
PathsAreReal ==
  LET real == JourneysTo(net.dst_port)
  IN  \A r \in paths :
        /\ r.match # {}
        /\ Last(r.path) = net.dst_port
        /\ \A h \in r.match : \E j \in real : j[1] = h /\ TellsOf(Front(r.path), j)

\* A loop is printed only with packets that really come back to a port they
\* have passed.
LoopsAreReal ==
  LET real == Journeys
  IN  \A l \in loops :
        /\ l.match # {}
        /\ \A h \in l.match : \E j \in real :
             /\ j[1] = h /\ TellsOf(l.path, j)
             /\ \E o \in Visited(j[2], Len(j[2])) \ {net.dst_port} : Leads(j, o)

\* What is printed, path or loop, really happens to the packets printed.
PrintsAreReal == PathsAreReal /\ LoopsAreReal

\* Every packet's every loop-free journey to dst_port is printed.
EveryPathPrinted ==
  \A j \in JourneysTo(net.dst_port) :
    \E r \in paths : j[1] \in r.match /\ TellsOf(Front(r.path), j)

\* The answer is complete: when the query returns, every journey to dst_port
\* has been printed, unless propagate_bdd has printed a loop.
CompleteUnlessCut ==
  Answered /\ (StopAtLoop => loops = {}) => EveryPathPrinted

\* A query that prints no loop has not overlooked one: no packet sent in at
\* from_port can come back to an out_port it has passed.
QuietMeansLoopFree ==
  Answered /\ loops = {} =>
    \A j \in Journeys : \A o \in Visited(j[2], Len(j[2])) \ {net.dst_port} :
      ~Leads(j, o)

\* Every query returns, loops in the network or not.
QueryReturns == <>Answered

(***************************************************************************)
(* What the comments of the code say.                                      *)
(***************************************************************************)

\* "no loop, then continue propagate on all outports...": out_ports that do
\* not loop are all followed, so every path is found, a loop elsewhere or not.
ContinuesOnAllOutports == Answered => EveryPathPrinted
=============================================================================
