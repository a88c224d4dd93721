---------------------------- MODULE AtomQueryProofs ----------------------------
(***************************************************************************)
(* A query on atoms is the query on headers: for every network, every      *)
(* partition of the headers into atoms, and every kind of query.           *)
(***************************************************************************)
EXTENDS AtomQuery, PropagateProofs

-----------------------------------------------------------------------------
(***************************************************************************)
(* Sets of atoms and sets of headers.                                      *)
(***************************************************************************)

\* Atoms are disjoint, so that sets of them meet where their headers do.
LEMMA HeadersMeet ==
  ASSUME NEW A \in SUBSET Packets, NEW B \in SUBSET Packets
  PROVE  HeadersOf(A \cap B) = HeadersOf(A) \cap HeadersOf(B)
<1>1. HeadersOf(A \cap B) \subseteq HeadersOf(A) \cap HeadersOf(B)
  BY DEF HeadersOf
<1>2. ASSUME NEW h \in HeadersOf(A) \cap HeadersOf(B)
      PROVE  h \in HeadersOf(A \cap B)
  <2>1. PICK a \in A : h \in ap_bdd_list[a]
    BY DEF HeadersOf
  <2>2. PICK b \in B : h \in ap_bdd_list[b]
    BY DEF HeadersOf
  <2>3. a = b
    BY <2>1, <2>2, AtomsAssumption
  <2> QED BY <2>1, <2>3 DEF HeadersOf
<1> QED BY <1>1, <1>2

\* No atom is empty, so that a set of them is empty when it has no headers.
LEMMA HeadersNone ==
  ASSUME NEW A \in SUBSET Packets
  PROVE  /\ HeadersOf(A) = {} <=> A = {}
         /\ HeadersOf(A) \in SUBSET Headers
<1>1. ASSUME NEW a \in A PROVE ap_bdd_list[a] # {} /\ ap_bdd_list[a] \subseteq HeadersOf(A)
  BY AtomsAssumption DEF HeadersOf
<1>2. A = {} => HeadersOf(A) = {}
  BY DEF HeadersOf
<1>3. HeadersOf(A) \subseteq Headers
  BY AtomsAssumption DEF HeadersOf
<1> QED BY <1>1, <1>2, <1>3

-----------------------------------------------------------------------------
(***************************************************************************)
(* Networks, stacks and prints.                                            *)
(***************************************************************************)

\* A network on headers has the ports, links and numbers of predicates of
\* the one on atoms.
LEMMA NetworkOnHeaders ==
  ASSUME NEW n, IsNetwork(n)
  PROVE  LET m == NetOnHeaders(n)
         IN  /\ m.topology = n.topology /\ m.from_port = n.from_port
             /\ m.dst_port = n.dst_port /\ m.type = n.type
             /\ DOMAIN m.table = DOMAIN n.table
             /\ \A p \in DOMAIN n.table :
                  /\ Len(m.table[p]) = Len(n.table[p])
                  /\ DOMAIN m.table[p] = DOMAIN n.table[p]
                  /\ m.table[p] \in Seq(OnHeaders!Node)
                  /\ \A k \in DOMAIN n.table[p] :
                       m.table[p][k] = NodeOnHeaders(n.table[p][k])
<1> DEFINE m == NetOnHeaders(n)
<1>1. /\ m.topology = n.topology /\ m.from_port = n.from_port
      /\ m.dst_port = n.dst_port /\ m.type = n.type
      /\ DOMAIN m.table = DOMAIN n.table
      /\ \A p \in DOMAIN n.table :
           m.table[p] = [k \in DOMAIN n.table[p] |-> NodeOnHeaders(n.table[p][k])]
  BY DEF NetOnHeaders
<1>2. ASSUME NEW p \in DOMAIN n.table
      PROVE  /\ Len(m.table[p]) = Len(n.table[p])
             /\ DOMAIN m.table[p] = DOMAIN n.table[p]
             /\ m.table[p] \in Seq(OnHeaders!Node)
  <2>1. n.table[p] \in Seq(Node)
    BY DEF IsNetwork
  <2>2. DOMAIN n.table[p] = 1..Len(n.table[p]) /\ Len(n.table[p]) \in Nat
    BY <2>1
  <2>3. ASSUME NEW k \in DOMAIN n.table[p]
        PROVE  NodeOnHeaders(n.table[p][k]) \in OnHeaders!Node
    <3>1. n.table[p][k] \in Node
      BY <2>1
    <3>2. n.table[p][k].match \in SUBSET Packets /\ n.table[p][k].out_ports \in Seq(Ports)
      BY <3>1 DEF Node
    <3>3. HeadersOf(n.table[p][k].match) \in SUBSET Headers
      BY <3>2, HeadersNone
    <3> QED BY <3>2, <3>3 DEF NodeOnHeaders, OnHeaders!Node
  <2>4. /\ DOMAIN m.table[p] = 1..Len(n.table[p])
        /\ m.table[p] = [k \in 1..Len(n.table[p]) |-> NodeOnHeaders(n.table[p][k])]
    BY <1>1, <2>2
  <2> HIDE DEF m
  <2>5. m.table[p] \in [1..Len(n.table[p]) -> OnHeaders!Node]
    BY <2>2, <2>3, <2>4
  <2> QED BY <2>2, <2>5
<1> QED BY <1>1, <1>2

\* A network on headers is a network.
LEMMA NetworkOfHeaders ==
  ASSUME NEW n, IsNetwork(n)
  PROVE  OnHeaders!IsNetwork(NetOnHeaders(n))
BY NetworkOnHeaders DEF IsNetwork, OnHeaders!IsNetwork, AP_TYPE, OnHeaders!AP_TYPE

\* An activation with the headers in place of the atoms.
LEMMA FrameType ==
  ASSUME NEW f \in Frame
  PROVE  /\ FrameOnHeaders(f) \in OnHeaders!Frame
         /\ FrameOnHeaders(f).packet = HeadersOf(f.packet)
         /\ FrameOnHeaders(f).passed = f.passed /\ FrameOnHeaders(f).port = f.port
         /\ FrameOnHeaders(f).it = f.it /\ FrameOnHeaders(f).i = f.i
         /\ FrameOnHeaders(f).link = f.link
<1>1. f.packet \in SUBSET Packets
  BY DEF Frame
<1>2. HeadersOf(f.packet) \in SUBSET Headers
  BY <1>1, HeadersNone
<1> QED BY <1>2 DEF Frame, OnHeaders!Frame, FrameOnHeaders

\* A stack has as many activations on headers, and pushing and popping one is
\* pushing and popping it there.
LEMMA StackType ==
  ASSUME NEW s \in Seq(Frame)
  PROVE  /\ StackOnHeaders(s) \in Seq(OnHeaders!Frame)
         /\ Len(StackOnHeaders(s)) = Len(s)
         /\ \A k \in DOMAIN s : StackOnHeaders(s)[k] = FrameOnHeaders(s[k])
         /\ StackOnHeaders(s) = <<>> <=> s = <<>>
<1>1. Len(s) \in Nat /\ DOMAIN s = 1..Len(s)
  OBVIOUS
<1>2. \A k \in 1..Len(s) : FrameOnHeaders(s[k]) \in OnHeaders!Frame
  BY FrameType
<1>3. StackOnHeaders(s) \in [1..Len(s) -> OnHeaders!Frame]
  BY <1>1, <1>2 DEF StackOnHeaders
<1>4. StackOnHeaders(s) \in Seq(OnHeaders!Frame) /\ Len(StackOnHeaders(s)) = Len(s)
  BY <1>1, <1>3
<1>5. StackOnHeaders(s) = <<>> <=> s = <<>>
  BY <1>4
<1> QED BY <1>4, <1>5 DEF StackOnHeaders

LEMMA StackAppend ==
  ASSUME NEW s \in Seq(Frame), NEW f \in Frame
  PROVE  /\ Append(s, f) \in Seq(Frame)
         /\ StackOnHeaders(Append(s, f)) = Append(StackOnHeaders(s), FrameOnHeaders(f))
<1>1. /\ Append(s, f) \in Seq(Frame) /\ Len(Append(s, f)) = Len(s) + 1
      /\ Append(s, f)[Len(s) + 1] = f /\ Len(s) \in Nat
      /\ \A k \in 1..Len(s) : Append(s, f)[k] = s[k]
  BY AppendProperties
<1>2. ASSUME NEW t \in Seq(Frame), Len(t) = Len(s) + 1, t[Len(s) + 1] = f,
             \A k \in 1..Len(s) : t[k] = s[k]
      PROVE  StackOnHeaders(t) = Append(StackOnHeaders(s), FrameOnHeaders(f))
  <2>1. /\ StackOnHeaders(t) \in Seq(OnHeaders!Frame)
        /\ Len(StackOnHeaders(t)) = Len(s) + 1
        /\ \A k \in 1..(Len(s) + 1) : StackOnHeaders(t)[k] = FrameOnHeaders(t[k])
    BY <1>1, <1>2, StackType
  <2>2. /\ StackOnHeaders(s) \in Seq(OnHeaders!Frame) /\ Len(StackOnHeaders(s)) = Len(s)
        /\ \A k \in 1..Len(s) : StackOnHeaders(s)[k] = FrameOnHeaders(s[k])
    BY <1>1, StackType
  <2>3. FrameOnHeaders(f) \in OnHeaders!Frame
    BY FrameType
  <2>4. ASSUME NEW u, u = Append(StackOnHeaders(s), FrameOnHeaders(f))
        PROVE  StackOnHeaders(t) = u
    <3>1. /\ u \in Seq(OnHeaders!Frame) /\ Len(u) = Len(s) + 1
          /\ u[Len(s) + 1] = FrameOnHeaders(f)
          /\ \A k \in 1..Len(s) : u[k] = StackOnHeaders(s)[k]
      BY <2>2, <2>3, <2>4, AppendProperties
    <3>2. \A k \in 1..(Len(s) + 1) : StackOnHeaders(t)[k] = u[k]
      BY <1>1, <1>2, <2>1, <2>2, <3>1, SMTT(30)
    <3> QED BY <2>1, <3>1, <3>2, SeqEqual
  <2> QED BY <2>4
<1> QED BY <1>1, <1>2

\* The innermost activation, and the stack without it.
LEMMA StackTop ==
  ASSUME NEW s \in Seq(Frame), s # <<>>
  PROVE  /\ Last(s) \in Frame /\ Front(s) \in Seq(Frame)
         /\ Last(StackOnHeaders(s)) = FrameOnHeaders(Last(s))
         /\ Front(StackOnHeaders(s)) = StackOnHeaders(Front(s))
<1>1. /\ Front(s) \in Seq(Frame) /\ Len(Front(s)) = Len(s) - 1
      /\ Len(s) \in Nat \ {0}
      /\ \A k \in 1..(Len(s) - 1) : Front(s)[k] = s[k]
  BY Returned
<1>2. /\ StackOnHeaders(s) \in Seq(OnHeaders!Frame)
      /\ Len(StackOnHeaders(s)) = Len(s) /\ StackOnHeaders(s) # <<>>
      /\ \A k \in 1..Len(s) : StackOnHeaders(s)[k] = FrameOnHeaders(s[k])
  BY <1>1, StackType
<1>3. /\ Front(StackOnHeaders(s)) \in Seq(OnHeaders!Frame)
      /\ Len(Front(StackOnHeaders(s))) = Len(s) - 1
      /\ \A k \in 1..(Len(s) - 1) : Front(StackOnHeaders(s))[k] = StackOnHeaders(s)[k]
  BY <1>2, Returned
<1>4. /\ StackOnHeaders(Front(s)) \in Seq(OnHeaders!Frame)
      /\ Len(StackOnHeaders(Front(s))) = Len(s) - 1
      /\ \A k \in 1..(Len(s) - 1) : StackOnHeaders(Front(s))[k] = FrameOnHeaders(Front(s)[k])
  BY <1>1, StackType
<1>5. \A k \in 1..(Len(s) - 1) : Front(StackOnHeaders(s))[k] = StackOnHeaders(Front(s))[k]
  BY <1>1, <1>2, <1>3, <1>4
<1>6. Front(StackOnHeaders(s)) = StackOnHeaders(Front(s))
  BY <1>3, <1>4, <1>5, SeqEqual
<1>7. Last(s) \in Frame /\ Last(StackOnHeaders(s)) = FrameOnHeaders(Last(s))
  BY <1>1, <1>2 DEF Last
<1> QED BY <1>1, <1>6, <1>7

\* What is printed beside what was.
LEMMA PrintsMore ==
  ASSUME NEW prints, NEW new
  PROVE  PrintsOnHeaders(prints \cup {new})
           = PrintsOnHeaders(prints) \cup {[match |-> HeadersOf(new.match), path |-> new.path]}
BY DEF PrintsOnHeaders

-----------------------------------------------------------------------------
(***************************************************************************)
(* One step.                                                               *)
(***************************************************************************)

\* The innermost activation is where it would be on headers.
LEMMA TopOnHeaders ==
  ASSUME TypeOK, stack # <<>>
  PROVE  /\ top \in Frame /\ Caller \in Seq(Frame)
         /\ OnHeaders!top = FrameOnHeaders(top)
         /\ OnHeaders!Caller = StackOnHeaders(Caller)
<1>1. stack \in Seq(Frame)
  BY DEF TypeOK
<1>2. /\ OnHeaders!top = Last(StackOnHeaders(stack))
      /\ OnHeaders!Caller = Front(StackOnHeaders(stack))
  BY DEF OnHeaders!top, OnHeaders!Caller, OnHeaders!Last, OnHeaders!Front, Last, Front
<1> QED BY <1>1, <1>2, StackTop DEF top, Caller

\* The guards hold on headers when they do on atoms, and at a predicate the
\* same out_ports are taken by the headers of the atoms that pass.
LEMMA GuardsOnHeaders ==
  ASSUME TypeOK
  PROVE  /\ StackOnHeaders(stack) = <<>> <=> stack = <<>>
         /\ OnHeaders!Active <=> Active
         /\ OnHeaders!AtNode <=> AtNode
         /\ OnHeaders!AtOutport <=> AtOutport
         /\ OnHeaders!AtLink <=> AtLink
         /\ OnHeaders!StopAtLoop <=> StopAtLoop
         /\ Active => Len(OnHeaders!nodes) = Len(nodes)
         /\ AtNode =>
              /\ OnHeaders!node.out_ports = node.out_ports
              /\ intersect \in SUBSET Packets
              /\ OnHeaders!intersect = HeadersOf(intersect)
              /\ OnHeaders!outport = outport /\ OnHeaders!links = links
              /\ OnHeaders!Looped <=> Looped
<1>1. IsNetwork(net) /\ stack \in Seq(Frame)
  BY DEF TypeOK
<1>2. StackOnHeaders(stack) = <<>> <=> stack = <<>>
  BY <1>1, StackType
<1>3. OnHeaders!StopAtLoop <=> StopAtLoop
  BY <1>1, NetworkOnHeaders DEF StopAtLoop, OnHeaders!StopAtLoop
<1>4. CASE stack = <<>>
  BY <1>2, <1>3, <1>4 DEF Active, AtNode, AtOutport, AtLink, OnHeaders!Active,
     OnHeaders!AtNode, OnHeaders!AtOutport, OnHeaders!AtLink
<1>5. CASE stack # <<>>
  <2>1. top \in Frame /\ OnHeaders!top = FrameOnHeaders(top)
    BY <1>5, TopOnHeaders
  <2>2. /\ OnHeaders!top.packet = HeadersOf(top.packet)
        /\ OnHeaders!top.passed = top.passed /\ OnHeaders!top.port = top.port
        /\ OnHeaders!top.it = top.it /\ OnHeaders!top.i = top.i
        /\ OnHeaders!top.link = top.link
    BY <2>1, FrameType
  <2>3. OnHeaders!Active <=> Active
    BY <1>1, <1>2, <2>2, NetworkOnHeaders DEF Active, OnHeaders!Active
  <2>4. Active => /\ OnHeaders!nodes = NetOnHeaders(net).table[top.port]
                  /\ Len(OnHeaders!nodes) = Len(nodes)
                  /\ nodes \in Seq(Node)
    BY <1>1, <2>2, NetworkOnHeaders DEF Active, nodes, OnHeaders!nodes, IsNetwork
  <2>5. OnHeaders!AtNode <=> AtNode
    BY <2>2, <2>3, <2>4 DEF AtNode, OnHeaders!AtNode
  <2>6. ASSUME AtNode
        PROVE  /\ OnHeaders!node = NodeOnHeaders(node) /\ node \in Node
    <3>1. Active /\ top.it \in Nat \ {0} /\ top.it <= Len(nodes)
      BY <2>1, <2>6 DEF AtNode, Frame
    <3>2. top.it \in DOMAIN nodes /\ node \in Node
      BY <2>4, <3>1 DEF node
    <3>3. top.port \in DOMAIN net.table /\ top.it \in DOMAIN net.table[top.port]
      BY <3>1, <3>2 DEF Active, nodes
    <3>4. NetOnHeaders(net).table[top.port][top.it] = NodeOnHeaders(net.table[top.port][top.it])
      BY <1>1, <3>3, NetworkOnHeaders
    <3> QED BY <2>2, <2>4, <3>1, <3>2, <3>4 DEF node, nodes, OnHeaders!node
  <2>7. ASSUME AtNode
        PROVE  /\ OnHeaders!node.out_ports = node.out_ports
               /\ intersect \in SUBSET Packets
               /\ OnHeaders!intersect = HeadersOf(intersect)
    <3>1. /\ OnHeaders!node.out_ports = node.out_ports
          /\ OnHeaders!node.match = HeadersOf(node.match)
          /\ node.match \in SUBSET Packets /\ top.packet \in SUBSET Packets
      BY <2>1, <2>6, <2>7 DEF NodeOnHeaders, Node, Frame
    <3> QED BY <2>2, <3>1, HeadersMeet DEF intersect, OnHeaders!intersect
  <2>8. AtNode => /\ OnHeaders!outport = outport
                  /\ OnHeaders!links = links
                  /\ OnHeaders!Looped <=> Looped
    BY <1>1, <2>2, <2>7, NetworkOnHeaders
    DEF outport, links, Looped, OnHeaders!outport, OnHeaders!links, OnHeaders!Looped,
        ToSet, OnHeaders!ToSet
  <2>9. /\ OnHeaders!AtOutport <=> AtOutport
        /\ OnHeaders!AtLink <=> AtLink
    BY <2>2, <2>5, <2>7 DEF AtOutport, AtLink, OnHeaders!AtOutport, OnHeaders!AtLink
  <2> QED BY <1>2, <1>3, <2>3, <2>4, <2>5, <2>7, <2>8, <2>9
<1> QED BY <1>4, <1>5

\* An activation that moves on does so on headers.
LEMMA GotoOnHeaders ==
  ASSUME TypeOK, TypeOK', stack # <<>>, NEW f, Goto(f)
  PROVE  f \in Frame /\ StackOnHeaders(stack') = Append(OnHeaders!Caller, FrameOnHeaders(f))
<1>1. stack' = Append(Caller, f) /\ stack' \in Seq(Frame) /\ Caller \in Seq(Frame)
  BY TopOnHeaders DEF Goto, TypeOK
<1>2. f \in Frame
  <2>1. Caller \in Seq(Frame \cup {f})
    BY <1>1
  <2>2. Len(stack') = Len(Caller) + 1 /\ stack'[Len(Caller) + 1] = f /\ Len(Caller) \in Nat
    BY <1>1, <2>1, AppendProperties
  <2>3. Len(Caller) + 1 \in DOMAIN stack'
    BY <1>1, <2>2
  <2> QED BY <1>1, <2>2, <2>3, ElementType
<1> QED BY <1>1, <1>2, StackAppend, TopOnHeaders

\* The recursive call pushes the same activation.
LEMMA CallOnHeaders ==
  ASSUME NEW s \in Seq(Frame), NEW f, NEW g,
         s \o <<f, g>> \in Seq(Frame)
  PROVE  StackOnHeaders(s \o <<f, g>>)
           = StackOnHeaders(s) \o <<FrameOnHeaders(f), FrameOnHeaders(g)>>
<1> DEFINE t == s \o <<f, g>>
<1>1. f \in Frame /\ g \in Frame
  <2>1. /\ s \in Seq(Frame \cup {f, g}) /\ <<f, g>> \in Seq(Frame \cup {f, g})
        /\ Len(s) \in Nat
    OBVIOUS
  <2>2. Len(t) = Len(s) + 2 /\ t[Len(s) + 1] = f /\ t[Len(s) + 2] = g
    BY <2>1
  <2>3. Len(s) + 1 \in DOMAIN t /\ Len(s) + 2 \in DOMAIN t
    BY <2>1, <2>2
  <2> HIDE DEF t
  <2> QED BY <2>2, <2>3, ElementType DEF t
<1>2. t = Append(Append(s, f), g)
  BY <1>1
<1>3. Append(s, f) \in Seq(Frame)
  OBVIOUS
<1>4. StackOnHeaders(t)
        = Append(Append(StackOnHeaders(s), FrameOnHeaders(f)), FrameOnHeaders(g))
  BY <1>1, <1>2, <1>3, StackAppend
<1>5. ASSUME NEW S, NEW r \in Seq(S), NEW x \in S, NEW y \in S
      PROVE  Append(Append(r, x), y) = r \o <<x, y>>
  <2>1. /\ Append(r, x) \in Seq(S) /\ Len(Append(r, x)) = Len(r) + 1 /\ Len(r) \in Nat
        /\ Append(r, x)[Len(r) + 1] = x
        /\ \A k \in 1..Len(r) : Append(r, x)[k] = r[k]
    BY AppendProperties
  <2>2. /\ Append(Append(r, x), y) \in Seq(S) /\ Len(Append(Append(r, x), y)) = Len(r) + 2
        /\ Append(Append(r, x), y)[Len(r) + 2] = y
        /\ \A k \in 1..(Len(r) + 1) : Append(Append(r, x), y)[k] = Append(r, x)[k]
    BY <2>1, AppendProperties
  <2>3. /\ r \o <<x, y>> \in Seq(S) /\ Len(r \o <<x, y>>) = Len(r) + 2
        /\ (r \o <<x, y>>)[Len(r) + 1] = x /\ (r \o <<x, y>>)[Len(r) + 2] = y
        /\ \A k \in 1..Len(r) : (r \o <<x, y>>)[k] = r[k]
    BY <2>1
  <2>4. \A k \in 1..(Len(r) + 2) : Append(Append(r, x), y)[k] = (r \o <<x, y>>)[k]
    BY <2>1, <2>2, <2>3
  <2> QED BY <2>2, <2>3, <2>4, SeqEqual
<1>6. /\ StackOnHeaders(s) \in Seq(OnHeaders!Frame)
      /\ FrameOnHeaders(f) \in OnHeaders!Frame /\ FrameOnHeaders(g) \in OnHeaders!Frame
  BY <1>1, StackType, FrameType
<1> QED BY <1>4, <1>5, <1>6

\* Each step is the step of its name, on headers.
LEMMA StepOnHeaders ==
  ASSUME TypeOK, TypeOK', Step
  PROVE  OnHeaders!Step
<1> DEFINE F(f) == FrameOnHeaders(f)
<1>1. IsNetwork(net) /\ stack \in Seq(Frame) /\ stack # <<>>
  BY DEF TypeOK, Step, NoPort, EnterNode, NextNode, Deliver, ReportLoop, DeadEnd,
     PassOutport, FollowLink, EndLinks, Return, AtOutport, AtLink, AtNode, Active
<1>2. /\ top \in Frame /\ OnHeaders!top = F(top)
      /\ Caller \in Seq(Frame) /\ OnHeaders!Caller = StackOnHeaders(Caller)
  BY <1>1, TopOnHeaders
<1>3. /\ F(top).passed = top.passed /\ F(top).port = top.port
      /\ F(top).it = top.it /\ F(top).i = top.i /\ F(top).link = top.link
  BY <1>2, FrameType
<1>4. /\ NetOnHeaders(net).dst_port = net.dst_port
      /\ NetOnHeaders(net).topology = net.topology
      /\ DOMAIN NetOnHeaders(net).table = DOMAIN net.table
  BY <1>1, NetworkOnHeaders
<1>5. net' = net => NetOnHeaders(net)' = NetOnHeaders(net)
  BY DEF NetOnHeaders, NodeOnHeaders, HeadersOf
<1>6. \A r, s : r = s => PrintsOnHeaders(r) = PrintsOnHeaders(s)
  OBVIOUS
<1>7. \A f : Goto(f) => StackOnHeaders(stack') = Append(OnHeaders!Caller, F(f))
  BY <1>1, GotoOnHeaders
<1> HIDE DEF F
<1>8. AtNode => intersect \in SUBSET Packets
  BY GuardsOnHeaders
<1>a. CASE NoPort
  BY <1>1, <1>2, <1>3, <1>4, <1>5, <1>6, <1>a, GuardsOnHeaders
  DEF NoPort, OnHeaders!NoPort, OnHeaders!Step
<1>b. CASE EnterNode
  <2>1. OnHeaders!intersect # {} /\ OnHeaders!AtNode
    BY <1>b, GuardsOnHeaders, HeadersNone DEF EnterNode
  <2>2. F([top EXCEPT !.i = 1]) = [OnHeaders!top EXCEPT !.i = 1]
    BY <1>2 DEF F, FrameOnHeaders, Frame
  <2> QED BY <1>2, <1>3, <1>5, <1>7, <1>b, <2>1, <2>2
    DEF EnterNode, OnHeaders!EnterNode, OnHeaders!Step, OnHeaders!Goto
<1>c. CASE NextNode
  <2>1. /\ OnHeaders!AtNode /\ OnHeaders!node.out_ports = node.out_ports
        /\ intersect = {} => OnHeaders!intersect = {}
    BY <1>c, GuardsOnHeaders, HeadersNone DEF NextNode
  <2>2. F([top EXCEPT !.it = top.it + 1, !.i = 0])
          = [OnHeaders!top EXCEPT !.it = top.it + 1, !.i = 0]
    BY <1>2 DEF F, FrameOnHeaders, Frame
  <2> QED BY <1>2, <1>3, <1>5, <1>7, <1>c, <2>1, <2>2
    DEF NextNode, OnHeaders!NextNode, OnHeaders!Step, OnHeaders!Goto
<1>d. CASE Deliver
  <2> DEFINE path == Append(top.passed, outport)
  <2>1. /\ OnHeaders!AtOutport /\ OnHeaders!outport = outport
        /\ OnHeaders!intersect = HeadersOf(intersect)
    BY <1>d, GuardsOnHeaders DEF Deliver, AtOutport
  <2>2. F([top EXCEPT !.passed = path, !.i = top.i + 1])
          = [OnHeaders!top EXCEPT !.passed = path, !.i = top.i + 1]
    BY <1>2 DEF F, FrameOnHeaders, Frame
  <2>3. PrintsOnHeaders(paths')
          = PrintsOnHeaders(paths) \cup {[match |-> OnHeaders!intersect, path |-> path]}
    <3>1. PICK new : new = [match |-> intersect, path |-> path]
      OBVIOUS
    <3>2. paths' = paths \cup {new}
      BY <1>d, <3>1 DEF Deliver
    <3>3. PrintsOnHeaders(paths \cup {new})
            = PrintsOnHeaders(paths) \cup {[match |-> HeadersOf(new.match), path |-> new.path]}
      BY PrintsMore
    <3>4. new.match = intersect /\ new.path = path
      BY <3>1
    <3> HIDE DEF path
    <3> QED BY <2>1, <3>2, <3>3, <3>4
  <2>4. Goto([top EXCEPT !.passed = path, !.i = top.i + 1])
    BY <1>d DEF Deliver
  <2>5. StackOnHeaders(stack')
          = Append(OnHeaders!Caller, [OnHeaders!top EXCEPT !.passed = path, !.i = top.i + 1])
    BY <1>7, <2>2, <2>4
  <2>6. outport = net.dst_port /\ UNCHANGED <<net, loops, missing>>
    BY <1>d DEF Deliver
  <2>7. PrintsOnHeaders(loops') = PrintsOnHeaders(loops) /\ NetOnHeaders(net)' = NetOnHeaders(net)
    BY <1>5, <2>6
  <2>8. OnHeaders!Deliver
    BY <1>2, <1>3, <1>4, <2>1, <2>3, <2>5, <2>6, <2>7
    DEF OnHeaders!Deliver, OnHeaders!Goto
  <2> QED BY <2>8 DEF OnHeaders!Step
<1>e. CASE ReportLoop
  <2>1. /\ OnHeaders!AtOutport /\ OnHeaders!outport = outport
        /\ OnHeaders!intersect = HeadersOf(intersect)
        /\ OnHeaders!Looped
        /\ OnHeaders!StopAtLoop <=> StopAtLoop
    BY <1>e, GuardsOnHeaders DEF ReportLoop, AtOutport
  <2>2. F([top EXCEPT !.i = top.i + 1]) = [OnHeaders!top EXCEPT !.i = top.i + 1]
    BY <1>2 DEF F, FrameOnHeaders, Frame
  <2>3. PrintsOnHeaders(loops')
          = PrintsOnHeaders(loops) \cup {[match |-> OnHeaders!intersect, path |-> top.passed]}
    <3>1. PICK new : new = [match |-> intersect, path |-> top.passed]
      OBVIOUS
    <3>2. loops' = loops \cup {new}
      BY <1>e, <3>1 DEF ReportLoop
    <3>3. PrintsOnHeaders(loops \cup {new})
            = PrintsOnHeaders(loops) \cup {[match |-> HeadersOf(new.match), path |-> new.path]}
      BY PrintsMore
    <3>4. new.match = intersect /\ new.path = top.passed
      BY <3>1
    <3> QED BY <2>1, <3>2, <3>3, <3>4
  <2>4. CASE StopAtLoop
    BY <1>2, <1>3, <1>4, <1>5, <1>e, <2>1, <2>3, <2>4
    DEF ReportLoop, OnHeaders!ReportLoop, OnHeaders!Step
  <2>5. CASE ~StopAtLoop
    <3>1. Goto([top EXCEPT !.i = top.i + 1])
      BY <1>e, <2>5 DEF ReportLoop
    <3>2. StackOnHeaders(stack') = Append(OnHeaders!Caller, [OnHeaders!top EXCEPT !.i = top.i + 1])
      BY <1>7, <2>2, <3>1
    <3>3. outport # net.dst_port /\ UNCHANGED <<net, paths, missing>>
      BY <1>e DEF ReportLoop
    <3> QED BY <1>2, <1>3, <1>4, <1>5, <2>1, <2>3, <2>5, <3>2, <3>3
      DEF OnHeaders!ReportLoop, OnHeaders!Step, OnHeaders!Goto
  <2> QED BY <2>4, <2>5
<1>f. CASE DeadEnd
  <2>1. OnHeaders!AtOutport /\ OnHeaders!outport = outport /\ ~OnHeaders!Looped
    BY <1>f, GuardsOnHeaders DEF DeadEnd, AtOutport
  <2>2. F([top EXCEPT !.i = top.i + 1]) = [OnHeaders!top EXCEPT !.i = top.i + 1]
    BY <1>2 DEF F, FrameOnHeaders, Frame
  <2> QED BY <1>2, <1>3, <1>4, <1>5, <1>7, <1>f, <2>1, <2>2
    DEF DeadEnd, OnHeaders!DeadEnd, OnHeaders!Step, OnHeaders!Goto
<1>g. CASE PassOutport
  <2> DEFINE path == Append(top.passed, outport)
  <2>1. OnHeaders!AtOutport /\ OnHeaders!outport = outport /\ ~OnHeaders!Looped
    BY <1>g, GuardsOnHeaders DEF PassOutport, AtOutport
  <2>2. F([top EXCEPT !.passed = path, !.link = 1])
          = [OnHeaders!top EXCEPT !.passed = path, !.link = 1]
    BY <1>2 DEF F, FrameOnHeaders, Frame
  <2> QED BY <1>2, <1>3, <1>4, <1>5, <1>7, <1>g, <2>1, <2>2
    DEF PassOutport, OnHeaders!PassOutport, OnHeaders!Step, OnHeaders!Goto
<1>h. CASE FollowLink
  <2> DEFINE f == [top EXCEPT !.link = top.link + 1]
             g == Activation(intersect, top.passed, links[top.link])
             G == OnHeaders!Activation(HeadersOf(intersect), top.passed, links[top.link])
  <2>1. /\ OnHeaders!AtLink /\ OnHeaders!links = links
        /\ OnHeaders!intersect = HeadersOf(intersect)
    BY <1>h, GuardsOnHeaders DEF FollowLink, AtLink
  <2>2. F(f) = [OnHeaders!top EXCEPT !.link = top.link + 1]
    BY <1>2 DEF F, FrameOnHeaders, Frame
  <2>3. F(g) = G
    BY SMTT(30) DEF F, FrameOnHeaders, Activation, OnHeaders!Activation
  <2>4. stack' = Caller \o <<f, g>> /\ stack' \in Seq(Frame)
    BY <1>h DEF FollowLink, TypeOK
  <2> HIDE DEF f, g, G
  <2>5. StackOnHeaders(stack') = OnHeaders!Caller \o <<F(f), F(g)>>
    BY <1>2, <2>4, CallOnHeaders, ZenonT(30) DEF F
  <2> QED BY <1>2, <1>3, <1>5, <1>h, <2>1, <2>2, <2>3, <2>5
    DEF FollowLink, OnHeaders!FollowLink, OnHeaders!Step, f, g, G
<1>i. CASE EndLinks
  <2>1. OnHeaders!AtLink /\ OnHeaders!links = links
    BY <1>i, GuardsOnHeaders DEF EndLinks, AtLink
  <2>2. F([top EXCEPT !.passed = Front(top.passed), !.i = top.i + 1, !.link = 0])
          = [OnHeaders!top EXCEPT !.passed = Front(top.passed), !.i = top.i + 1, !.link = 0]
    BY <1>2 DEF F, FrameOnHeaders, Frame
  <2>3. OnHeaders!Front(top.passed) = Front(top.passed)
    BY DEF Front, OnHeaders!Front
  <2> QED BY <1>2, <1>3, <1>5, <1>7, <1>i, <2>1, <2>2, <2>3
    DEF EndLinks, OnHeaders!EndLinks, OnHeaders!Step, OnHeaders!Goto
<1>j. CASE Return
  <2>1. OnHeaders!Active /\ Len(OnHeaders!nodes) = Len(nodes)
    BY <1>j, GuardsOnHeaders DEF Return
  <2> QED BY <1>2, <1>3, <1>5, <1>j, <2>1 DEF Return, OnHeaders!Return, OnHeaders!Step
<1> QED BY <1>a, <1>b, <1>c, <1>d, <1>e, <1>f, <1>g, <1>h, <1>i, <1>j DEF Step

-----------------------------------------------------------------------------
(***************************************************************************)
(* The refinement, and what it says of the headers.                        *)
(***************************************************************************)

\* A query on atoms implements the same query on the headers they stand for:
\* whatever the network, the partition and the kind of the query, it prints
\* the same paths and loops, with the headers of the atoms it prints.
THEOREM QueryRefinement == Spec => ImplementsOnHeaders
<1>1. Init => OnHeaders!Init
  <2> SUFFICES ASSUME Init PROVE OnHeaders!Init
    OBVIOUS
  <2>1. IsNetwork(net) /\ net \in Networks
    BY NetworkAssumption DEF Init
  <2>2. NetOnHeaders(net).from_port = net.from_port
    BY <2>1, NetworkOnHeaders
  <2>3. HeadersOf(Packets) = Headers
    BY AtomsAssumption DEF HeadersOf
  <2>4. StackOnHeaders(stack)
          = <<OnHeaders!Activation(Headers, <<>>, NetOnHeaders(net).from_port)>>
    BY <2>2, <2>3 DEF Init, StackOnHeaders, FrameOnHeaders, Activation, OnHeaders!Activation
  <2>5. PrintsOnHeaders(paths) = {} /\ PrintsOnHeaders(loops) = {} /\ missing = {}
    BY DEF Init, PrintsOnHeaders
  <2> QED BY <2>1, <2>4, <2>5 DEF OnHeaders!Init
<1>2. TypeOK /\ TypeOK' /\ [Next]_vars => [OnHeaders!Next]_(OnHeaders!vars)
  <2> SUFFICES ASSUME TypeOK, TypeOK', [Next]_vars
               PROVE  [OnHeaders!Next]_(OnHeaders!vars)
    OBVIOUS
  <2>1. CASE Step
    BY <2>1, StepOnHeaders DEF OnHeaders!Next
  <2>2. CASE UNCHANGED vars
    BY <2>2 DEF vars, OnHeaders!vars, NetOnHeaders, NodeOnHeaders, HeadersOf,
       StackOnHeaders, FrameOnHeaders, PrintsOnHeaders
  <2> QED BY <2>1, <2>2 DEF Next, Stopped
<1> QED BY <1>1, <1>2, TypeCorrect, PTL DEF Spec, ImplementsOnHeaders, OnHeaders!Spec

-----------------------------------------------------------------------------
(***************************************************************************)
(* A header makes the journeys of its atom.                                *)
(***************************************************************************)

\* A set of atoms has a header when it has the header's atom.
LEMMA AtomOf ==
  ASSUME NEW a \in Packets, NEW h \in ap_bdd_list[a], NEW A \in SUBSET Packets
  PROVE  h \in HeadersOf(A) <=> a \in A
BY AtomsAssumption DEF HeadersOf

\* What instances of operators without variables are.
LEMMA SameOperators ==
  /\ \A s : OnHeaders!ToSet(s) = ToSet(s)
  /\ \A s : OnHeaders!Last(s) = Last(s) /\ OnHeaders!Front(s) = Front(s)
  /\ \A S : OnHeaders!Cardinality(S) = Cardinality(S)
<1>1. \A s : OnHeaders!ToSet(s) = ToSet(s)
  BY DEF ToSet, OnHeaders!ToSet
<1>2. \A s : OnHeaders!Last(s) = Last(s) /\ OnHeaders!Front(s) = Front(s)
  BY DEF Last, Front, OnHeaders!Last, OnHeaders!Front
<1>3. \A S : OnHeaders!Cardinality(S) = Cardinality(S)
  BY DEF Cardinality, OnHeaders!Cardinality
<1> QED BY <1>1, <1>2, <1>3

\* A router sends a header on where it sends its atom.
LEMMA SameSends ==
  ASSUME IsNetwork(net), NEW a \in Packets, NEW h \in ap_bdd_list[a], NEW p, NEW o
  PROVE  OnHeaders!Sends(p, h, o) <=> Sends(p, a, o)
<1>1. DOMAIN NetOnHeaders(net).table = DOMAIN net.table
  BY NetworkOnHeaders
<1>2. CASE p \notin DOMAIN net.table
  BY <1>1, <1>2 DEF Sends, OnHeaders!Sends
<1>3. CASE p \in DOMAIN net.table
  <2> DEFINE nodesA == net.table[p]
             nodesH == NetOnHeaders(net).table[p]
  <2>1. /\ DOMAIN nodesH = DOMAIN nodesA
        /\ \A k \in DOMAIN nodesA : nodesH[k] = NodeOnHeaders(nodesA[k])
    BY <1>3, NetworkOnHeaders
  <2>2. ASSUME NEW k \in DOMAIN nodesA
        PROVE  /\ h \in nodesH[k].match <=> a \in nodesA[k].match
               /\ nodesH[k].out_ports = nodesA[k].out_ports
    <3>1. nodesA \in Seq(Node)
      BY <1>3 DEF IsNetwork
    <3>2. nodesA[k] \in Node
      BY <3>1, ElementType
    <3>3. nodesA[k].match \in SUBSET Packets
      BY <3>2 DEF Node
    <3>4. /\ nodesH[k].match = HeadersOf(nodesA[k].match)
          /\ nodesH[k].out_ports = nodesA[k].out_ports
      <4>1. nodesH[k] = NodeOnHeaders(nodesA[k])
        BY <2>1
      <4> HIDE DEF nodesA, nodesH
      <4> QED BY <4>1 DEF NodeOnHeaders
    <3> QED BY <3>3, <3>4, AtomOf
  <2>3. Sends(p, a, o) <=>
          \E k \in DOMAIN nodesA : a \in nodesA[k].match /\ o \in ToSet(nodesA[k].out_ports)
    BY <1>3 DEF Sends, ToSet
  <2>4. OnHeaders!Sends(p, h, o) <=>
          \E k \in DOMAIN nodesH : h \in nodesH[k].match /\ o \in ToSet(nodesH[k].out_ports)
    BY <1>1, <1>3 DEF OnHeaders!Sends, OnHeaders!ToSet, ToSet
  <2> QED BY <2>1, <2>2, <2>3, <2>4
<1> QED BY <1>2, <1>3

\* So it can take the same hops, and the lists printed tell the same of them.
LEMMA SameJourneys ==
  ASSUME IsNetwork(net), NEW a \in Packets, NEW h \in ap_bdd_list[a], NEW hops
  PROVE  /\ <<h, hops>> \in OnHeaders!Journeys <=> <<a, hops>> \in Journeys
         /\ \A o : OnHeaders!Leads(<<h, hops>>, o) <=> Leads(<<a, hops>>, o)
         /\ \A path : OnHeaders!TellsOf(path, <<h, hops>>) <=> TellsOf(path, <<a, hops>>)
         /\ OnHeaders!Visited(hops, Len(hops)) = Visited(hops, Len(hops))
         /\ NetOnHeaders(net).dst_port = net.dst_port
<1>1. /\ NetOnHeaders(net).topology = net.topology
      /\ NetOnHeaders(net).from_port = net.from_port
      /\ NetOnHeaders(net).dst_port = net.dst_port
  BY NetworkOnHeaders
<1>2. OnHeaders!Hops = Hops
  BY <1>1, SameOperators DEF Hops, OnHeaders!Hops
<1>3. \A n : OnHeaders!Inport(hops, n) = Inport(hops, n)
  BY <1>1 DEF Inport, OnHeaders!Inport
<1>4. \A n : OnHeaders!Visited(hops, n) = Visited(hops, n)
  BY <1>3 DEF Visited, OnHeaders!Visited
<1>5. \A n : OnHeaders!Trail(hops, n) = Trail(hops, n)
  BY <1>3 DEF Trail, OnHeaders!Trail
<1>6. OnHeaders!Travels(h, hops) <=> Travels(a, hops)
  BY <1>1, <1>3, <1>4, SameSends DEF Travels, OnHeaders!Travels
<1>7. h \in Headers
  BY AtomsAssumption
<1>8. <<h, hops>> \in OnHeaders!Journeys <=> <<a, hops>> \in Journeys
  BY <1>1, <1>2, <1>6, <1>7, SameOperators DEF Journeys, OnHeaders!Journeys
<1>9. \A o : OnHeaders!Leads(<<h, hops>>, o) <=> Leads(<<a, hops>>, o)
  BY <1>3, SameSends DEF Leads, OnHeaders!Leads
<1>10. \A w, path : OnHeaders!IsReading(w, path) <=> IsReading(w, path)
  <2>1. \A kept, n : OnHeaders!Rank(kept, n) = Rank(kept, n)
    BY SameOperators DEF Rank, OnHeaders!Rank
  <2> QED BY <1>1, <2>1, SameOperators, ZenonT(30) DEF IsReading, OnHeaders!IsReading
<1>11. \A path : OnHeaders!TellsOf(path, <<h, hops>>) <=> TellsOf(path, <<a, hops>>)
  BY <1>5, <1>10 DEF TellsOf, OnHeaders!TellsOf
<1> QED BY <1>1, <1>4, <1>8, <1>9, <1>11
\* Every journey of a header is one of its atom, and every index is the
\* atom of some header.
LEMMA JourneyOfAtom ==
  ASSUME IsNetwork(net), NEW j \in OnHeaders!Journeys
  PROVE  \E a \in Packets : /\ j[1] \in ap_bdd_list[a] /\ <<a, j[2]>> \in Journeys
                            /\ j = <<j[1], j[2]>>
<1>1. j[1] \in Headers /\ j = <<j[1], j[2]>>
  BY DEF OnHeaders!Journeys
<1>2. PICK a \in Packets : j[1] \in ap_bdd_list[a]
  BY <1>1, AtomsAssumption
<1> QED BY <1>1, <1>2, SameJourneys

\* What is true of the atoms printed is true of their headers.
LEMMA PrintsOfHeaders ==
  ASSUME TypeOK, PrintsAreReal
  PROVE  OnHeaders!PrintsAreReal
<1>1. /\ IsNetwork(net)
      /\ \A r \in paths \cup loops : r.match \in SUBSET Packets
  BY DEF TypeOK
<1>2. ASSUME NEW R \in PrintsOnHeaders(paths)
      PROVE  /\ R.match # {}
             /\ OnHeaders!Last(R.path) = NetOnHeaders(net).dst_port
             /\ \A h \in R.match : \E j \in OnHeaders!JourneysTo(NetOnHeaders(net).dst_port) :
                  j[1] = h /\ OnHeaders!TellsOf(OnHeaders!Front(R.path), j)
  <2>1. PICK r \in paths : R.match = HeadersOf(r.match) /\ R.path = r.path
    BY DEF PrintsOnHeaders
  <2>2. r.match \in SUBSET Packets
    BY <1>1
  <2>3. /\ r.match # {} /\ Last(r.path) = net.dst_port
        /\ \A a \in r.match : \E j \in JourneysTo(net.dst_port) :
             j[1] = a /\ TellsOf(Front(r.path), j)
    BY DEF PrintsAreReal, PathsAreReal
  <2>4. ASSUME NEW h \in R.match
        PROVE  \E j \in OnHeaders!JourneysTo(NetOnHeaders(net).dst_port) :
                 j[1] = h /\ OnHeaders!TellsOf(OnHeaders!Front(R.path), j)
    <3>1. PICK a \in r.match : h \in ap_bdd_list[a]
      BY <2>1 DEF HeadersOf
    <3>2. PICK j \in JourneysTo(net.dst_port) : j[1] = a /\ TellsOf(Front(r.path), j)
      BY <2>3
    <3>3. j \in Journeys /\ Leads(j, net.dst_port) /\ j = <<a, j[2]>>
      BY <3>2 DEF JourneysTo, Journeys
    <3>4. /\ <<h, j[2]>> \in OnHeaders!Journeys
          /\ OnHeaders!Leads(<<h, j[2]>>, NetOnHeaders(net).dst_port)
          /\ OnHeaders!TellsOf(Front(R.path), <<h, j[2]>>)
      BY <1>1, <2>1, <2>2, <3>1, <3>2, <3>3, SameJourneys
    <3>5. <<h, j[2]>> \in OnHeaders!JourneysTo(NetOnHeaders(net).dst_port)
      BY <3>4 DEF OnHeaders!JourneysTo
    <3> QED BY <3>4, <3>5, SameOperators
  <2>5. R.match # {}
    BY <2>1, <2>2, <2>3, HeadersNone
  <2>6. OnHeaders!Last(R.path) = NetOnHeaders(net).dst_port
    BY <1>1, <2>1, <2>3, NetworkOnHeaders, SameOperators
  <2> QED BY <2>4, <2>5, <2>6
<1>3. ASSUME NEW R \in PrintsOnHeaders(loops)
      PROVE  /\ R.match # {}
             /\ \A h \in R.match : \E j \in OnHeaders!Journeys :
                  /\ j[1] = h /\ OnHeaders!TellsOf(R.path, j)
                  /\ \E o \in OnHeaders!Visited(j[2], Len(j[2])) \ {NetOnHeaders(net).dst_port} :
                       OnHeaders!Leads(j, o)
  <2>1. PICK r \in loops : R.match = HeadersOf(r.match) /\ R.path = r.path
    BY DEF PrintsOnHeaders
  <2>2. r.match \in SUBSET Packets
    BY <1>1
  <2>3. /\ r.match # {}
        /\ \A a \in r.match : \E j \in Journeys :
             /\ j[1] = a /\ TellsOf(r.path, j)
             /\ \E o \in Visited(j[2], Len(j[2])) \ {net.dst_port} : Leads(j, o)
    BY DEF PrintsAreReal, LoopsAreReal
  <2>4. ASSUME NEW h \in R.match
        PROVE  \E j \in OnHeaders!Journeys :
                  /\ j[1] = h /\ OnHeaders!TellsOf(R.path, j)
                  /\ \E o \in OnHeaders!Visited(j[2], Len(j[2])) \ {NetOnHeaders(net).dst_port} :
                       OnHeaders!Leads(j, o)
    <3>1. PICK a \in r.match : h \in ap_bdd_list[a]
      BY <2>1 DEF HeadersOf
    <3>2. PICK j \in Journeys :
            /\ j[1] = a /\ TellsOf(r.path, j)
            /\ \E o \in Visited(j[2], Len(j[2])) \ {net.dst_port} : Leads(j, o)
      BY <2>3
    <3>3. j = <<a, j[2]>>
      BY <3>2 DEF Journeys
    <3>4. PICK o \in Visited(j[2], Len(j[2])) \ {net.dst_port} : Leads(<<a, j[2]>>, o)
      BY <3>2, <3>3
    <3>5. /\ <<h, j[2]>> \in OnHeaders!Journeys
          /\ OnHeaders!Leads(<<h, j[2]>>, o)
          /\ OnHeaders!TellsOf(R.path, <<h, j[2]>>)
          /\ o \in OnHeaders!Visited(j[2], Len(j[2])) \ {NetOnHeaders(net).dst_port}
      BY <1>1, <2>1, <2>2, <3>1, <3>2, <3>3, <3>4, SameJourneys
    <3> QED BY <3>5
  <2>5. R.match # {}
    BY <2>1, <2>2, <2>3, HeadersNone
  <2> QED BY <2>4, <2>5
<1> QED BY <1>2, <1>3 DEF OnHeaders!PrintsAreReal, OnHeaders!PathsAreReal, OnHeaders!LoopsAreReal

\* A query on atoms is right about headers: of every header, in every
\* network.
THEOREM HeadersCorrect == Spec => []AnswersOnHeaders
<1>1. ASSUME TypeOK, PrintsAreReal, CompleteUnlessCut, QuietMeansLoopFree
      PROVE  AnswersOnHeaders
  <2>1. IsNetwork(net) /\ stack \in Seq(Frame)
    BY <1>1 DEF TypeOK
  <2>2. /\ OnHeaders!Answered <=> Answered
        /\ OnHeaders!StopAtLoop <=> StopAtLoop
        /\ PrintsOnHeaders(loops) = {} <=> loops = {}
    BY <1>1, GuardsOnHeaders DEF Answered, OnHeaders!Answered, PrintsOnHeaders
  <2>3. OnHeaders!CompleteUnlessCut
    <3> SUFFICES ASSUME Answered, StopAtLoop => loops = {},
                        NEW j \in OnHeaders!JourneysTo(NetOnHeaders(net).dst_port)
                 PROVE  \E R \in PrintsOnHeaders(paths) :
                          j[1] \in R.match /\ OnHeaders!TellsOf(OnHeaders!Front(R.path), j)
      BY <2>2 DEF OnHeaders!CompleteUnlessCut, OnHeaders!EveryPathPrinted
    <3>1. j \in OnHeaders!Journeys /\ OnHeaders!Leads(j, NetOnHeaders(net).dst_port)
      BY DEF OnHeaders!JourneysTo
    <3>2. PICK a \in Packets : /\ j[1] \in ap_bdd_list[a] /\ <<a, j[2]>> \in Journeys
                               /\ j = <<j[1], j[2]>>
      BY <2>1, <3>1, JourneyOfAtom
    <3>3. Leads(<<a, j[2]>>, net.dst_port)
      BY <2>1, <3>1, <3>2, SameJourneys
    <3>4. <<a, j[2]>> \in JourneysTo(net.dst_port) /\ <<a, j[2]>>[1] = a
      BY <3>2, <3>3 DEF JourneysTo
    <3>5. PICK r \in paths : a \in r.match /\ TellsOf(Front(r.path), <<a, j[2]>>)
      BY <1>1, <3>4 DEF CompleteUnlessCut, EveryPathPrinted
    <3>6. PICK R \in PrintsOnHeaders(paths) : R.match = HeadersOf(r.match) /\ R.path = r.path
      <4>1. [match |-> HeadersOf(r.match), path |-> r.path] \in PrintsOnHeaders(paths)
        BY DEF PrintsOnHeaders
      <4> QED BY <4>1
    <3>7. j[1] \in R.match
      BY <3>2, <3>5, <3>6 DEF HeadersOf
    <3>8. OnHeaders!TellsOf(Front(R.path), j)
      BY <2>1, <3>2, <3>5, <3>6, SameJourneys
    <3> QED BY <3>7, <3>8, SameOperators
  <2>4. OnHeaders!QuietMeansLoopFree
    <3> SUFFICES ASSUME Answered, loops = {}, NEW j \in OnHeaders!Journeys,
                        NEW o \in OnHeaders!Visited(j[2], Len(j[2])) \ {NetOnHeaders(net).dst_port},
                        OnHeaders!Leads(j, o)
                 PROVE  FALSE
      BY <2>2 DEF OnHeaders!QuietMeansLoopFree
    <3>1. PICK a \in Packets : /\ j[1] \in ap_bdd_list[a] /\ <<a, j[2]>> \in Journeys
                               /\ j = <<j[1], j[2]>>
      BY <2>1, JourneyOfAtom
    <3>2. o \in Visited(j[2], Len(j[2])) \ {net.dst_port} /\ Leads(<<a, j[2]>>, o)
      BY <2>1, <3>1, SameJourneys
    <3>3. <<a, j[2]>>[2] = j[2]
      OBVIOUS
    <3> QED BY <1>1, <3>1, <3>2, <3>3 DEF QuietMeansLoopFree
  <2> QED BY <1>1, <2>3, <2>4, PrintsOfHeaders DEF AnswersOnHeaders
<1> QED BY <1>1, TypeCorrect, PrintsCorrect, CompletenessCorrect, QuietCorrect, PTL

-----------------------------------------------------------------------------
\* Converting a network and then reading its atoms as headers again loses
\* nothing, when no predicate cuts an atom: the query above is the one that
\* was asked.
THEOREM ConversionLosesNothing ==
  ASSUME NEW n \in HeaderNetworks
  PROVE  /\ IsNetwork(NetOnAtoms(n))
         /\ NetOnHeaders(NetOnAtoms(n)) = n
<1> DEFINE m == NetOnAtoms(n)
           t == [p \in DOMAIN n.table |->
                   [k \in DOMAIN n.table[p] |-> NodeOnAtoms(n.table[p][k])]]
<1>1. /\ n \in [topology : Maps(Seq(Ports)), table : Maps(Seq(OnHeaders!Node)),
                from_port : Ports, dst_port : Ports, type : AP_TYPE]
      /\ \A p \in DOMAIN n.table : \A k \in DOMAIN n.table[p], a \in Packets :
           \/ ap_bdd_list[a] \subseteq n.table[p][k].match
           \/ ap_bdd_list[a] \cap n.table[p][k].match = {}
  BY DEF HeaderNetworks
<1>2. /\ m.topology = n.topology /\ m.from_port = n.from_port
      /\ m.dst_port = n.dst_port /\ m.type = n.type /\ m.table = t
  BY <1>1 DEF NetOnAtoms
<1>3. ASSUME NEW S, NEW f \in Maps(S)
      PROVE  DOMAIN f \subseteq Ports /\ f \in [DOMAIN f -> S]
  BY <1>3 DEF Maps
<1>4. /\ DOMAIN n.table \subseteq Ports /\ n.table \in [DOMAIN n.table -> Seq(OnHeaders!Node)]
      /\ DOMAIN n.topology \subseteq Ports /\ n.topology \in [DOMAIN n.topology -> Seq(Ports)]
  BY <1>1, <1>3
<1>5. ASSUME NEW p \in DOMAIN n.table
      PROVE  /\ n.table[p] \in Seq(OnHeaders!Node)
             /\ DOMAIN n.table[p] = 1..Len(n.table[p]) /\ Len(n.table[p]) \in Nat
             /\ n.table[p] = [k \in 1..Len(n.table[p]) |-> n.table[p][k]]
  BY <1>4
<1>6. ASSUME NEW p \in DOMAIN n.table, NEW k \in DOMAIN n.table[p]
      PROVE  /\ NodeOnAtoms(n.table[p][k]) \in Node
             /\ NodeOnHeaders(NodeOnAtoms(n.table[p][k])) = n.table[p][k]
  <2> DEFINE S == n.table[p][k].match
  <2>1. n.table[p][k] \in OnHeaders!Node
    BY <1>5, ElementType
  <2>2. S \in SUBSET Headers /\ n.table[p][k].out_ports \in Seq(Ports)
    BY <2>1 DEF OnHeaders!Node
  <2>3. AtomsMeeting(S) \in SUBSET Packets
    BY AtomsAssumption DEF AtomsMeeting
  <2>4. HeadersOf(AtomsMeeting(S)) = S
    <3>1. \A a \in Packets : ap_bdd_list[a] \subseteq S \/ ap_bdd_list[a] \cap S = {}
      BY <1>1
    <3>2. ASSUME NEW h \in S PROVE h \in HeadersOf(AtomsMeeting(S))
      <4>1. PICK a \in Packets : h \in ap_bdd_list[a]
        BY <2>2, AtomsAssumption
      <4> QED BY <4>1, AtomsAssumption DEF HeadersOf, AtomsMeeting
    <3>3. HeadersOf(AtomsMeeting(S)) \subseteq S
      BY <3>1, AtomsAssumption DEF HeadersOf, AtomsMeeting
    <3> QED BY <3>2, <3>3
  <2>5. NodeOnHeaders(NodeOnAtoms(n.table[p][k]))
          = [match |-> S, out_ports |-> n.table[p][k].out_ports]
    BY <2>4 DEF NodeOnHeaders, NodeOnAtoms
  <2>6. n.table[p][k] = [match |-> S, out_ports |-> n.table[p][k].out_ports]
    BY <2>1 DEF OnHeaders!Node
  <2> QED BY <2>2, <2>3, <2>5, <2>6 DEF NodeOnAtoms, Node
<1>7. ASSUME NEW p \in DOMAIN n.table
      PROVE  /\ t[p] \in Seq(Node) /\ DOMAIN t[p] = DOMAIN n.table[p]
             /\ \A k \in DOMAIN n.table[p] : t[p][k] = NodeOnAtoms(n.table[p][k])
  BY <1>5, <1>6
<1>8. IsNetwork(m)
  BY <1>1, <1>2, <1>4, <1>7 DEF IsNetwork
<1>9. [p \in DOMAIN t |-> [k \in DOMAIN t[p] |-> NodeOnHeaders(t[p][k])]] = n.table
  <2>1. ASSUME NEW p \in DOMAIN n.table
        PROVE  [k \in DOMAIN t[p] |-> NodeOnHeaders(t[p][k])] = n.table[p]
    BY <1>5, <1>6, <1>7
  <2>2. DOMAIN t = DOMAIN n.table
    OBVIOUS
  <2> HIDE DEF t
  <2> QED BY <1>4, <2>1, <2>2
<1>10. NetOnHeaders(m) = [topology |-> n.topology, table |-> n.table,
                          from_port |-> n.from_port, dst_port |-> n.dst_port, type |-> n.type]
  <2> HIDE DEF t, m
  <2> QED BY <1>2, <1>9 DEF NetOnHeaders
<1>11. n = [topology |-> n.topology, table |-> n.table,
            from_port |-> n.from_port, dst_port |-> n.dst_port, type |-> n.type]
  BY <1>1
<1> QED BY <1>8, <1>10, <1>11
=============================================================================
