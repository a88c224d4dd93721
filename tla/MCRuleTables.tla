------------------------------ MODULE MCRuleTables ------------------------------
(***************************************************************************)
(* A two-bit header, three match strings, two in-ports and two ways out.   *)
(* Two files: the first holds every list of three (or two) rules, the      *)
(* second at most one rule, under a router id of its own, the id of the    *)
(* first, or id 0.                                                         *)
(***************************************************************************)
EXTENDS RuleTables, TLC

MCBits == INSTANCE Ternary WITH HdrLen <- 1, ByteBits <- 2

MCHeaders == MCBits!HeaderSpace
MCMatches == {<<"x", "x">>, <<"1", "x">>, <<"x", "0">>}
MCMatch2bdd == [m \in MCMatches |-> MCBits!Denotation(m)]
MCPorts == 1..4
MCInPorts == {<<>>, <<1>>, <<1, 2>>}
MCOutPorts == {<<3>>, <<4, 3>>}

MCFwd == [action : {"fwd"}, match : MCMatches,
          in_ports : MCInPorts, out_ports : MCOutPorts]
MCRw == [action : {"rw"}, match : {<<"1", "x">>},
         in_ports : {<<1>>}, out_ports : {<<3>>}]
MCRules == MCFwd \cup MCRw

\* The second file has no rule, or one on an in-port the first may use too.
MCSecond == {<<>>,
             <<[action |-> "fwd", match |-> <<"x", "x">>,
                in_ports |-> <<2>>, out_ports |-> <<3>>]>>}

MCFiles == 1..2
MCPair(n) ==
  {<<[id |-> 1, rules |-> r], [id |-> i, rules |-> q]>> :
     r \in [1..n -> MCRules], i \in 0..2, q \in MCSecond}
MCDirectories == MCPair(3)
MCSmallDirectories == MCPair(2)
=============================================================================
