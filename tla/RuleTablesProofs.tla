---------------------------- MODULE RuleTablesProofs ----------------------------
(***************************************************************************)
(* For every header space, every set of ports, match strings and files,    *)
(* and every directory: add_then_load_router builds the priority lookup of *)
(* a file's rules, and every routed in-port has a table.                   *)
(***************************************************************************)
EXTENDS RuleTables, SequenceTheorems, TLAPS

\* Every router is the one its file names, the file being loaded is a
\* router's, and a file not read yet is nobody's.
Cursor ==
  /\ \A r \in DOMAIN id_to_router :
       content[id_to_router[r]].id = r /\ id_to_router[r] \notin unread
  /\ cur # NoFile =>
       /\ content[cur].id \in DOMAIN id_to_router
       /\ id_to_router[content[cur].id] = cur
       /\ id <= Len(content[cur].rules)

\* Rule i of file f forwards what arrives on in-port p.
Forwards(f, i, p) ==
  content[f].rules[i].action = "fwd" /\ p \in Elements(content[f].rules[i].in_ports)

\* dealt_bdd_map holds every header that a processed rule covers.
Coverage ==
  \A r \in DOMAIN id_to_router, p \in Ports, h \in Headers :
    \A i \in DOMAIN content[id_to_router[r]].rules :
      Processed(id_to_router[r], i, p) /\ Covers(id_to_router[r], i, p, h) =>
        <<r, p>> \in DOMAIN predicate_map /\ h \in dealt_bdd_map[<<r, p>>]

IInv ==
  /\ TypeOK /\ Cursor /\ Coverage
  /\ DealtExact /\ PriorityLookup /\ RoutedInportHasTable

-----------------------------------------------------------------------------
(* The types.                                                              *)

\* What the rule loop is looking at.
LEMMA CurrentRule ==
  ASSUME TypeOK, cur # NoFile, id > 0, Cursor
  PROVE  /\ content[cur] \in Document
         /\ cur \in Files
         /\ router_id \in DOMAIN id_to_router
         /\ router_id \in Nat \ {0}
         /\ id_to_router[router_id] = cur
         /\ id \in DOMAIN content[cur].rules
         /\ rule = content[cur].rules[id]
         /\ rule \in Rule
         /\ matched \in SUBSET Headers
<1>1. cur \in Files /\ content[cur] \in Document
  BY DEF TypeOK
<1>2. /\ content[cur].rules \in Seq(Rule)
      /\ id \in 1..Len(content[cur].rules)
  BY <1>1 DEF Document, Cursor, TypeOK
<1>3. /\ id \in DOMAIN content[cur].rules
      /\ rule \in Rule
  BY <1>2 DEF rule
<1>4. matched \in SUBSET Headers
  BY <1>3, MatchAssumption DEF Rule, matched
<1>5. router_id \in DOMAIN id_to_router /\ id_to_router[router_id] = cur
  BY DEF Cursor, router_id
<1> QED BY <1>1, <1>3, <1>4, <1>5 DEF rule, TypeOK

-----------------------------------------------------------------------------
(* One rule on one in-port.                                                *)

\* The headers dealt with, and the predicate of out_ports k, before the rule:
\* nothing, where the maps have no entry.
OldDealt == IF node \in DOMAIN predicate_map THEN dealt_bdd_map[node] ELSE {}
OldKeys ==
  IF node \in DOMAIN predicate_map THEN DOMAIN predicate_map[node] ELSE {}
OldPredicate(k) == IF k \in OldKeys THEN predicate_map[node][k] ELSE {}
New == matched \ OldDealt

\* What the three cases of the loop have in common.
Loaded ==
  /\ predicate_map' = [n \in DOMAIN predicate_map' |-> predicate_map'[n]]
  /\ dealt_bdd_map' = [n \in DOMAIN dealt_bdd_map' |-> dealt_bdd_map'[n]]
  /\ predicate_map'[node] =
       [k \in DOMAIN predicate_map'[node] |-> predicate_map'[node][k]]
  /\ DOMAIN predicate_map' = DOMAIN predicate_map \cup {node}
  /\ DOMAIN dealt_bdd_map' = DOMAIN predicate_map'
  /\ \A n \in DOMAIN predicate_map :
       n # node => /\ predicate_map'[n] = predicate_map[n]
                   /\ dealt_bdd_map'[n] = dealt_bdd_map[n]
  /\ DOMAIN predicate_map'[node] = OldKeys \cup {rule.out_ports}
  /\ \A k \in OldKeys \cup {rule.out_ports} :
       predicate_map'[node][k] =
         IF k = rule.out_ports THEN OldPredicate(k) \cup New ELSE OldPredicate(k)
  /\ dealt_bdd_map'[node] = OldDealt \cup New

\* Every case of the loop adds the rule's new headers, and only those, to the
\* predicate of its out_ports and to the dealt set.
LEMMA LoadEffect ==
  ASSUME TypeOK, LoadRule
  PROVE  /\ AtInport
         /\ NextInport
         /\ MapInport
         /\ Loaded
<1> DEFINE Table(old) == Put(old, rule.out_ports, OldPredicate(rule.out_ports) \cup New)
<1>1. \E old :
        /\ DOMAIN old = OldKeys
        /\ \A k \in OldKeys : old[k] = OldPredicate(k)
        /\ predicate_map' = Put(predicate_map, node, Table(old))
  <2>1. CASE FirstRuleOnInport
    <3>1. OldKeys = {} /\ OldDealt = {} /\ OldPredicate(rule.out_ports) \cup New = matched
      BY <2>1 DEF FirstRuleOnInport, OldKeys, OldDealt, OldPredicate, New
    <3>2. predicate_map' = Put(predicate_map, node, Table(EmptyMap))
      BY <2>1, <3>1 DEF FirstRuleOnInport
    <3>3. DOMAIN EmptyMap = {}
      BY DEF EmptyMap
    <3> QED BY <3>1, <3>2, <3>3
  <2>2. CASE NewActionOnInport
    <3>1. /\ OldKeys = DOMAIN predicate_map[node]
          /\ OldPredicate(rule.out_ports) \cup New = Remaining
      BY <2>2 DEF NewActionOnInport, OldKeys, OldDealt, OldPredicate, New, Remaining
    <3>2. predicate_map' = Put(predicate_map, node, Table(predicate_map[node]))
      BY <2>2, <3>1 DEF NewActionOnInport
    <3> QED BY <3>1, <3>2 DEF OldPredicate
  <2>3. CASE KnownActionOnInport
    <3>1. /\ OldKeys = DOMAIN predicate_map[node]
          /\ OldPredicate(rule.out_ports) \cup New
               = predicate_map[node][rule.out_ports] \cup Remaining
      BY <2>3 DEF KnownActionOnInport, OldKeys, OldDealt, OldPredicate, New, Remaining
    <3>2. predicate_map' = Put(predicate_map, node, Table(predicate_map[node]))
      BY <2>3, <3>1 DEF KnownActionOnInport
    <3> QED BY <3>1, <3>2 DEF OldPredicate
  <2> QED BY <2>1, <2>2, <2>3 DEF LoadRule
<1>2. dealt_bdd_map' = Put(dealt_bdd_map, node, OldDealt \cup New)
  BY DEF LoadRule, FirstRuleOnInport, NewActionOnInport, KnownActionOnInport,
         OldDealt, New, Remaining
<1>3. /\ predicate_map' = [n \in DOMAIN predicate_map' |-> predicate_map'[n]]
      /\ DOMAIN predicate_map' = DOMAIN predicate_map \cup {node}
      /\ \A n \in DOMAIN predicate_map :
           n # node => predicate_map'[n] = predicate_map[n]
  <2> HIDE DEF Table
  <2> QED BY <1>1 DEF Put
<1>4. /\ dealt_bdd_map' = [n \in DOMAIN dealt_bdd_map' |-> dealt_bdd_map'[n]]
      /\ DOMAIN dealt_bdd_map' = DOMAIN dealt_bdd_map \cup {node}
      /\ dealt_bdd_map'[node] = OldDealt \cup New
      /\ \A n \in DOMAIN dealt_bdd_map :
           n # node => dealt_bdd_map'[n] = dealt_bdd_map[n]
  BY <1>2 DEF Put
<1>5. /\ predicate_map'[node] =
           [k \in DOMAIN predicate_map'[node] |-> predicate_map'[node][k]]
      /\ DOMAIN predicate_map'[node] = OldKeys \cup {rule.out_ports}
      /\ \A k \in OldKeys \cup {rule.out_ports} :
           predicate_map'[node][k] =
             IF k = rule.out_ports THEN OldPredicate(k) \cup New ELSE OldPredicate(k)
  <2>1. PICK old :
          /\ DOMAIN old = OldKeys
          /\ \A k \in OldKeys : old[k] = OldPredicate(k)
          /\ predicate_map' = Put(predicate_map, node, Table(old))
    BY <1>1
  <2>2. predicate_map'[node] = Table(old)
    <3> HIDE DEF Table
    <3> QED BY <2>1 DEF Put
  <2> QED BY <2>1, <2>2 DEF Put
<1>6. DOMAIN dealt_bdd_map = DOMAIN predicate_map
  BY DEF TypeOK
<1>7. AtInport /\ NextInport /\ MapInport
  BY DEF LoadRule, FirstRuleOnInport, NewActionOnInport, KnownActionOnInport
<1> HIDE DEF Table
<1> QED BY <1>3, <1>4, <1>5, <1>6, <1>7 DEF Loaded

\* The current in-port, and the types of what the rule adds there.
LEMMA LoadTypes ==
  ASSUME TypeOK, Cursor, AtInport
  PROVE  /\ inport \in Ports
         /\ node \in (DOMAIN id_to_router) \X Ports
         /\ rule.out_ports \in Seq(Ports)
         /\ New \in SUBSET Headers
         /\ OldDealt \in SUBSET Headers
         /\ \A k \in OldKeys : k \in Seq(Ports) /\ OldPredicate(k) \in SUBSET Headers
         /\ OldPredicate(rule.out_ports) \in SUBSET Headers
<1>1. /\ rule \in Rule /\ matched \in SUBSET Headers
      /\ router_id \in DOMAIN id_to_router
  BY CurrentRule DEF AtInport
<1>2. rule.in_ports \in Seq(Ports) /\ rule.out_ports \in Seq(Ports)
  BY <1>1 DEF Rule
<1>3. inport \in Ports
  BY <1>2 DEF AtInport, TypeOK, inport
<1>4. node \in (DOMAIN id_to_router) \X Ports
  BY <1>1, <1>3 DEF node
<1>5. OldDealt \in SUBSET Headers
  BY DEF OldDealt, TypeOK
<1>6. \A k \in OldKeys : k \in Seq(Ports) /\ OldPredicate(k) \in SUBSET Headers
  BY DEF OldKeys, OldPredicate, TypeOK
<1>7. OldPredicate(rule.out_ports) \in SUBSET Headers
  BY <1>6 DEF OldPredicate
<1> QED BY <1>1, <1>2, <1>3, <1>4, <1>5, <1>6, <1>7 DEF New

\* Loading a rule on an in-port preserves the types.
LEMMA LoadTypeOK ==
  ASSUME TypeOK, Cursor, LoadRule
  PROVE  TypeOK'
<1>1. AtInport /\ NextInport /\ MapInport /\ Loaded
  BY LoadEffect
<1>2. /\ inport \in Ports
      /\ node \in (DOMAIN id_to_router) \X Ports
      /\ rule.out_ports \in Seq(Ports)
      /\ New \in SUBSET Headers
      /\ OldDealt \in SUBSET Headers
      /\ \A k \in OldKeys : k \in Seq(Ports) /\ OldPredicate(k) \in SUBSET Headers
      /\ OldPredicate(rule.out_ports) \in SUBSET Headers
  BY <1>1, LoadTypes
<1>3. /\ router_id \in Nat \ {0}
  BY <1>1, CurrentRule DEF AtInport
<1>4. /\ UNCHANGED <<content, unread, cur, id, id_to_router, status>>
      /\ idx' \in Nat
  BY <1>1 DEF NextInport, TypeOK
<1>5. /\ inport_to_router' \in [DOMAIN inport_to_router' -> Nat \ {0}]
      /\ DOMAIN inport_to_router' \subseteq Ports
  BY <1>1, <1>2, <1>3 DEF MapInport, Put, TypeOK
<1>6. DOMAIN predicate_map' \subseteq (DOMAIN id_to_router) \X Ports
  BY <1>1, <1>2 DEF Loaded, TypeOK
<1>7. ASSUME NEW n \in DOMAIN predicate_map'
      PROVE  /\ predicate_map'[n] \in [DOMAIN predicate_map'[n] -> SUBSET Headers]
             /\ DOMAIN predicate_map'[n] \subseteq Seq(Ports)
             /\ dealt_bdd_map'[n] \in SUBSET Headers
  <2>1. CASE n = node
    <3>1. /\ DOMAIN predicate_map'[node] \subseteq Seq(Ports)
          /\ \A k \in DOMAIN predicate_map'[node] :
               predicate_map'[node][k] \in SUBSET Headers
      <4>1. DOMAIN predicate_map'[node] = OldKeys \cup {rule.out_ports}
        BY <1>1 DEF Loaded
      <4>2. ASSUME NEW k \in DOMAIN predicate_map'[node]
            PROVE  predicate_map'[node][k] \in SUBSET Headers
        <5>1. CASE k = rule.out_ports
          <6>1. predicate_map'[node][k] = OldPredicate(k) \cup New
            BY <1>1, <5>1 DEF Loaded
          <6> QED BY <1>2, <5>1, <6>1
        <5>2. CASE k # rule.out_ports
          <6>1. k \in OldKeys /\ predicate_map'[node][k] = OldPredicate(k)
            BY <1>1, <4>1, <5>2 DEF Loaded
          <6> QED BY <1>2, <6>1
        <5> QED BY <5>1, <5>2
      <4> QED BY <1>2, <4>1, <4>2
    <3>2. predicate_map'[node] =
            [k \in DOMAIN predicate_map'[node] |-> predicate_map'[node][k]]
      BY <1>1 DEF Loaded
    <3>3. dealt_bdd_map'[node] \in SUBSET Headers
      BY <1>1, <1>2 DEF Loaded
    <3> QED BY <2>1, <3>1, <3>2, <3>3
  <2>2. CASE n # node
    <3>1. /\ n \in DOMAIN predicate_map
          /\ predicate_map'[n] = predicate_map[n]
          /\ dealt_bdd_map'[n] = dealt_bdd_map[n]
      BY <1>1, <2>2 DEF Loaded
    <3> QED BY <3>1 DEF TypeOK
  <2> QED BY <2>1, <2>2
<1>8. dealt_bdd_map' \in [DOMAIN predicate_map' -> SUBSET Headers]
  BY <1>1, <1>7 DEF Loaded
<1>9. predicate_map' = [n \in DOMAIN predicate_map' |-> predicate_map'[n]]
  BY <1>1 DEF Loaded
<1> QED BY <1>4, <1>5, <1>6, <1>7, <1>8, <1>9 DEF TypeOK

\* Every step preserves the types.
LEMMA StepTypeOK ==
  ASSUME TypeOK, Cursor, [Next]_vars
  PROVE  TypeOK'
<1>1. ASSUME NEW f \in Files, LoadNewRouter(f) PROVE TypeOK'
  <2>1. content[f] \in Document
    BY DEF TypeOK
  <2>2. content[f].id \in Nat \ {0} /\ Len(content[f].rules) \in Nat
    BY <1>1, <2>1 DEF LoadNewRouter, Document
  <2>3. /\ DOMAIN id_to_router' = DOMAIN id_to_router \cup {content[f].id}
        /\ id_to_router' \in [DOMAIN id_to_router' -> Files]
    BY <1>1 DEF LoadNewRouter, Put, TypeOK
  <2>4. UNCHANGED <<content, inport_to_router, predicate_map, dealt_bdd_map, status>>
    BY <1>1 DEF LoadNewRouter, tables
  <2>5. DOMAIN predicate_map' \subseteq (DOMAIN id_to_router') \X Ports
    BY <2>3, <2>4 DEF TypeOK
  <2>6. /\ unread' \subseteq Files /\ cur' \in Files
        /\ id' \in Nat /\ idx' \in Nat
    BY <1>1, <2>2 DEF LoadNewRouter, TypeOK
  <2> QED BY <2>2, <2>3, <2>4, <2>5, <2>6 DEF TypeOK
<1>2. ASSUME NEW f \in Files, RefuseRouter(f) PROVE TypeOK'
  BY <1>2 DEF RefuseRouter, tables, TypeOK
<1>3. CASE LoadRule
  BY <1>3, LoadTypeOK
<1>4. CASE NextRule
  BY <1>4 DEF NextRule, tables, TypeOK
<1>5. CASE FinishRouter
  BY <1>5 DEF FinishRouter, tables, TypeOK
<1>6. CASE FinishScan
  BY <1>6 DEF FinishScan, tables, TypeOK
<1>7. CASE UNCHANGED vars
  BY <1>7 DEF vars, TypeOK
<1> QED BY <1>1, <1>2, <1>3, <1>4, <1>5, <1>6, <1>7 DEF Next, Step, Stopped

\* An empty set of tables is well typed.
LEMMA InitTypeOK == Init => TypeOK
BY DirectoryAssumption DEF Init, TypeOK, EmptyMap

-----------------------------------------------------------------------------
(* Steps that load no rule.                                                *)

\* Such a step leaves the predicates alone.  At most it adds a router, whose
\* rules are all still to come, or moves past a rule and in-ports of it that
\* are all done.
Passing ==
  /\ UNCHANGED <<content, predicate_map, dealt_bdd_map, inport_to_router>>
  /\ \A r \in DOMAIN id_to_router :
       r \in DOMAIN id_to_router' /\ id_to_router'[r] = id_to_router[r]
  /\ \A r \in DOMAIN id_to_router, p \in Ports :
       \A i \in DOMAIN content[id_to_router[r]].rules :
         /\ Processed(id_to_router[r], i, p) => Processed(id_to_router[r], i, p)'
         /\ Processed(id_to_router[r], i, p)' =>
              \/ Processed(id_to_router[r], i, p)
              \/ ~Forwards(id_to_router[r], i, p)
  /\ \A r \in DOMAIN id_to_router' \ DOMAIN id_to_router, p \in Ports :
       /\ <<r, p>> \notin DOMAIN predicate_map
       /\ \A i \in DOMAIN content[id_to_router'[r]].rules :
            ~Processed(id_to_router[r], i, p)'

LEMMA PassingStep ==
  ASSUME TypeOK, Cursor, [Next]_vars
  PROVE  LoadRule \/ Passing
<1>1. ASSUME NEW f \in Files, LoadNewRouter(f) PROVE Passing
  <2>1. /\ content[f] \in Document
        /\ content[f].rules \in Seq(Rule)
        /\ content[f].id \notin DOMAIN id_to_router
        /\ f \in unread /\ cur = NoFile
    BY <1>1 DEF LoadNewRouter, TypeOK, Document
  <2>2. /\ DOMAIN id_to_router' = DOMAIN id_to_router \cup {content[f].id}
        /\ id_to_router'[content[f].id] = f
        /\ \A r \in DOMAIN id_to_router : id_to_router'[r] = id_to_router[r]
    BY <1>1, <2>1 DEF LoadNewRouter, Put
  <2>3. /\ UNCHANGED <<content, predicate_map, dealt_bdd_map, inport_to_router>>
        /\ cur' = f /\ id' = Len(content[f].rules) /\ idx' = 0
    BY <1>1 DEF LoadNewRouter, tables
  <2>4. ASSUME NEW r \in DOMAIN id_to_router, NEW p \in Ports,
               NEW i \in DOMAIN content[id_to_router[r]].rules
        PROVE  /\ Processed(id_to_router[r], i, p)
               /\ Processed(id_to_router[r], i, p)'
    <3>1. id_to_router[r] # f
      BY <2>1 DEF Cursor
    <3>2. id_to_router[r] # NoFile
      BY FileAssumption DEF TypeOK
    <3>3. Processed(id_to_router[r], i, p)
      BY <2>1, <3>2 DEF Processed
    <3>4. Processed(id_to_router[r], i, p)'
      BY <2>2, <2>3, <3>1 DEF Processed
    <3> QED BY <3>3, <3>4
  <2>5. ASSUME NEW r \in DOMAIN id_to_router' \ DOMAIN id_to_router, NEW p \in Ports
        PROVE  /\ <<r, p>> \notin DOMAIN predicate_map
               /\ \A i \in DOMAIN content[id_to_router'[r]].rules :
                    ~Processed(id_to_router[r], i, p)'
    <3>1. r = content[f].id /\ id_to_router'[r] = f
      BY <2>2
    <3>2. <<r, p>> \notin DOMAIN predicate_map
      BY DEF TypeOK
    <3>3. DOMAIN content[f].rules = 1..id' /\ id' \in Nat
      BY <2>1, <2>3
    <3>4. \A i \in DOMAIN content[f].rules : ~Processed(f, i, p)'
      BY <2>3, <3>3 DEF Processed
    <3>5. \A i : Processed(id_to_router[r], i, p)' <=> Processed(f, i, p)'
      BY <3>1 DEF Processed
    <3> QED BY <3>1, <3>2, <3>4, <3>5
  <2> QED BY <2>2, <2>3, <2>4, <2>5 DEF Passing
<1>2. ASSUME UNCHANGED <<content, cur, id, idx, id_to_router, tables>> PROVE Passing
  BY <1>2 DEF Passing, tables, Processed
<1>3. ASSUME NEW f \in Files, RefuseRouter(f) PROVE Passing
  BY <1>2, <1>3 DEF RefuseRouter
<1>4. CASE NextRule
  <2>1. /\ UNCHANGED <<content, cur, id_to_router, predicate_map, dealt_bdd_map,
                       inport_to_router>>
        /\ id' = id - 1 /\ idx' = 0 /\ id \in Nat \ {0} /\ cur # NoFile
        /\ rule.action = "fwd" => idx = Len(rule.in_ports)
    BY <1>4 DEF NextRule, tables, TypeOK
  <2>2. ASSUME NEW r \in DOMAIN id_to_router, NEW p \in Ports,
               NEW i \in DOMAIN content[id_to_router[r]].rules
        PROVE  /\ Processed(id_to_router[r], i, p) => Processed(id_to_router[r], i, p)'
               /\ Processed(id_to_router[r], i, p)' =>
                    \/ Processed(id_to_router[r], i, p)
                    \/ ~Forwards(id_to_router[r], i, p)
    <3>1. CASE id_to_router[r] # cur
      BY <2>1, <3>1 DEF Processed
    <3>2. CASE id_to_router[r] = cur
      <4>1. i \in Nat
        BY <3>2 DEF TypeOK, Document
      <4>2. Processed(cur, i, p)' <=> i >= id
        BY <2>1, <4>1 DEF Processed
      <4>3. Processed(cur, i, p) => i >= id
        BY <2>1, <4>1 DEF Processed
      <4>4. ASSUME i >= id, ~Processed(cur, i, p)
            PROVE  ~Forwards(cur, i, p)
        <5>1. i = id
          BY <2>1, <4>1, <4>4 DEF Processed
        <5>2. ~ \E n \in 1..idx : rule.in_ports[n] = p
          BY <4>4, <5>1 DEF Processed, rule
        <5>3. rule.in_ports \in Seq(Ports)
          BY <2>1, CurrentRule DEF Rule
        <5>4. rule.action = "fwd" => p \notin Elements(rule.in_ports)
          BY <2>1, <5>2, <5>3 DEF Elements
        <5> QED BY <5>1, <5>4 DEF Forwards, rule
      <4> QED BY <2>1, <3>2, <4>2, <4>3, <4>4
    <3> QED BY <3>1, <3>2
  <2> QED BY <2>1, <2>2 DEF Passing
<1>5. CASE FinishRouter
  <2>1. /\ UNCHANGED <<content, id_to_router, predicate_map, dealt_bdd_map,
                       inport_to_router, id, idx>>
        /\ cur' = NoFile /\ id = 0
    BY <1>5 DEF FinishRouter, tables
  <2>2. ASSUME NEW r \in DOMAIN id_to_router, NEW p \in Ports,
               NEW i \in DOMAIN content[id_to_router[r]].rules
        PROVE  /\ Processed(id_to_router[r], i, p)
               /\ Processed(id_to_router[r], i, p)'
    <3>1. i \in Nat \ {0} /\ id_to_router[r] # NoFile
      BY FileAssumption DEF TypeOK, Document
    <3> QED BY <2>1, <3>1 DEF Processed
  <2> QED BY <2>1, <2>2 DEF Passing
<1>6. CASE FinishScan
  BY <1>2, <1>6 DEF FinishScan
<1>7. CASE UNCHANGED vars
  BY <1>2, <1>7 DEF vars, tables
<1>8. \/ \E f \in Files : LoadNewRouter(f) \/ RefuseRouter(f)
      \/ LoadRule \/ NextRule \/ FinishRouter \/ FinishScan
      \/ UNCHANGED vars
  BY DEF Next, Step, Stopped
<1> QED BY <1>1, <1>3, <1>4, <1>5, <1>6, <1>7, <1>8

\* Covers and Decides speak of the files alone.
LEMMA FilesFixed ==
  ASSUME content' = content, NEW f, NEW i, NEW p, NEW h
  PROVE  /\ Covers(f, i, p, h)' <=> Covers(f, i, p, h)
         /\ Decides(f, i, p, h)' <=> Decides(f, i, p, h)
BY DEF Covers, Decides

\* A step that loads no rule keeps the cursor in its file.
LEMMA PassingCursor ==
  ASSUME TypeOK, Cursor, [Next]_vars, ~LoadRule
  PROVE  Cursor'
<1>1. ASSUME NEW f \in Files, LoadNewRouter(f) PROVE Cursor'
  <2>1. /\ id_to_router' = Put(id_to_router, content[f].id, f)
        /\ content' = content /\ unread' = unread \ {f} /\ cur' = f
        /\ id' = Len(content[f].rules)
        /\ Len(content[f].rules) \in Nat
    BY <1>1 DEF LoadNewRouter, TypeOK, Document
  <2>2. ASSUME NEW r \in DOMAIN id_to_router'
        PROVE  content'[id_to_router'[r]].id = r /\ id_to_router'[r] \notin unread'
    BY <2>1 DEF Put, Cursor
  <2>3. /\ content'[cur'].id \in DOMAIN id_to_router'
        /\ id_to_router'[content'[cur'].id] = cur'
        /\ id' <= Len(content'[cur'].rules)
    BY <2>1 DEF Put
  <2> QED BY <2>2, <2>3 DEF Cursor
<1>2. ASSUME NEW f \in Files, RefuseRouter(f) PROVE Cursor'
  BY <1>2 DEF RefuseRouter, Cursor
<1>3. CASE NextRule
  <2>1. Len(content[cur].rules) \in Nat
    BY <1>3 DEF NextRule, TypeOK, Document
  <2> QED BY <1>3, <2>1 DEF NextRule, Cursor, TypeOK
<1>4. CASE FinishRouter
  BY <1>4 DEF FinishRouter, Cursor
<1>5. CASE FinishScan
  BY <1>5 DEF FinishScan, Cursor
<1>6. CASE UNCHANGED vars
  BY <1>6 DEF vars, Cursor
<1>7. \/ \E f \in Files : LoadNewRouter(f) \/ RefuseRouter(f)
      \/ NextRule \/ FinishRouter \/ FinishScan
      \/ UNCHANGED vars
  BY DEF Next, Step, Stopped
<1> QED BY <1>1, <1>2, <1>3, <1>4, <1>5, <1>6, <1>7

\* A step that loads no rule keeps the tables right.
LEMMA PassingKeeps ==
  ASSUME TypeOK, Cursor, Passing,
         Coverage, DealtExact, PriorityLookup, RoutedInportHasTable
  PROVE  Coverage' /\ DealtExact' /\ PriorityLookup' /\ RoutedInportHasTable'
<1>1. UNCHANGED <<content, predicate_map, dealt_bdd_map, inport_to_router>>
  BY DEF Passing
<1>2. DealtExact'
  BY <1>1 DEF DealtExact
<1>3. RoutedInportHasTable'
  BY <1>1 DEF RoutedInportHasTable, Passing
<1>4. Coverage'
  <2> SUFFICES ASSUME NEW r \in DOMAIN id_to_router', NEW p \in Ports, NEW h \in Headers,
                      NEW i \in DOMAIN content[id_to_router'[r]].rules,
                      Processed(id_to_router[r], i, p)',
                      Covers(id_to_router[r], i, p, h)'
               PROVE  <<r, p>> \in DOMAIN predicate_map /\ h \in dealt_bdd_map[<<r, p>>]
    BY <1>1 DEF Coverage
  <2>1. r \in DOMAIN id_to_router
    BY DEF Passing
  <2>2. id_to_router'[r] = id_to_router[r]
    BY <2>1 DEF Passing
  <2>3. Covers(id_to_router[r], i, p, h)
    BY <1>1, <2>2 DEF Covers
  <2>4. Processed(id_to_router[r], i, p)
    BY <2>1, <2>2, <2>3 DEF Passing, Covers, Forwards
  <2> QED BY <2>1, <2>2, <2>3, <2>4 DEF Coverage
<1>5. PriorityLookup'
  <2> SUFFICES ASSUME NEW r \in DOMAIN id_to_router', NEW p \in Ports, NEW h \in Headers
               PROVE  /\ Filed(id_to_router[r], r, p, h)'
                      /\ Deserved(id_to_router[r], r, p, h)'
    BY DEF PriorityLookup
  <2>1. CASE r \in DOMAIN id_to_router
    <3>1. id_to_router'[r] = id_to_router[r]
      BY <2>1 DEF Passing
    <3>2. \A i : Decides(id_to_router[r], i, p, h)' <=> Decides(id_to_router[r], i, p, h)
      BY <1>1, <3>1 DEF Decides, Covers
    <3>3. \A i \in DOMAIN content[id_to_router[r]].rules :
            Decides(id_to_router[r], i, p, h) =>
              (Processed(id_to_router[r], i, p)' <=> Processed(id_to_router[r], i, p))
      BY <2>1 DEF Passing, Decides, Covers, Forwards
    <3>4. Filed(id_to_router[r], r, p, h) /\ Deserved(id_to_router[r], r, p, h)
      BY <2>1 DEF PriorityLookup
    <3>5. Filed(id_to_router[r], r, p, h)'
      BY <1>1, <3>1, <3>2, <3>3, <3>4 DEF Filed
    <3>6. Deserved(id_to_router[r], r, p, h)'
      BY <1>1, <3>1, <3>2, <3>3, <3>4 DEF Deserved
    <3> QED BY <3>5, <3>6
  <2>2. CASE r \notin DOMAIN id_to_router
    <3>1. /\ <<r, p>> \notin DOMAIN predicate_map
          /\ \A i \in DOMAIN content[id_to_router'[r]].rules :
               ~Processed(id_to_router[r], i, p)'
      BY <2>2 DEF Passing
    <3> QED BY <1>1, <3>1 DEF Filed, Deserved
  <2> QED BY <2>1, <2>2
<1> QED BY <1>2, <1>3, <1>4, <1>5

-----------------------------------------------------------------------------
(* Loading a rule on an in-port.                                           *)

\* The step processes rule id for the current in-port, and nothing else.
LEMMA LoadProcessed ==
  ASSUME TypeOK, Cursor, AtInport, NextInport, NEW f \in Files, NEW p \in Ports,
         NEW i \in DOMAIN content[f].rules
  PROVE  Processed(f, i, p)' <=>
           \/ Processed(f, i, p)
           \/ f = cur /\ i = id /\ p = inport
<1>1. UNCHANGED <<content, cur, id>> /\ idx' = idx + 1 /\ idx \in Nat
  BY DEF NextInport, TypeOK
<1>2. inport = content[cur].rules[id].in_ports[idx + 1]
  BY DEF inport, rule
<1>3. \A n : n \in 1..(idx + 1) <=> (n \in 1..idx \/ n = idx + 1)
  BY <1>1
<1> QED BY <1>1, <1>2, <1>3 DEF Processed

\* The headers of the rule are those it covers; the new ones among them are
\* its to decide, and those it decides are new or under its out_ports already.
LEMMA NewDecided ==
  ASSUME TypeOK, Cursor, Coverage, DealtExact, PriorityLookup, AtInport,
         NEW h \in Headers
  PROVE  /\ h \in matched <=> Covers(cur, id, inport, h)
         /\ h \in New => Decides(cur, id, inport, h)
         /\ Decides(cur, id, inport, h) =>
              h \in New \/ h \in OldPredicate(rule.out_ports)
<1>1. /\ cur \in Files /\ router_id \in DOMAIN id_to_router
      /\ id_to_router[router_id] = cur
      /\ id \in DOMAIN content[cur].rules /\ rule = content[cur].rules[id]
      /\ rule \in Rule
  BY CurrentRule DEF AtInport
<1>2. inport \in Ports
  BY LoadTypes
<1>3. h \in matched <=> Covers(cur, id, inport, h)
  <2>1. rule.action = "fwd" /\ inport \in Elements(rule.in_ports)
    BY <1>1 DEF AtInport, Rule, inport, Elements, TypeOK
  <2> QED BY <1>1, <2>1 DEF Covers, matched
<1>4. node = <<router_id, inport>>
  BY DEF node
<1>5. ASSUME h \in New PROVE Decides(cur, id, inport, h)
  <2>1. h \in matched /\ h \notin OldDealt
    BY <1>5 DEF New
  <2>2. ASSUME NEW j \in DOMAIN content[cur].rules, j > id, Covers(cur, j, inport, h)
        PROVE  FALSE
    <3>1. Processed(cur, j, inport)
      BY <2>2 DEF Processed
    <3>2. node \in DOMAIN predicate_map /\ h \in dealt_bdd_map[node]
      BY <1>1, <1>2, <1>4, <2>2, <3>1 DEF Coverage
    <3> QED BY <2>1, <3>2 DEF OldDealt
  <2> QED BY <1>3, <2>1, <2>2 DEF Decides
<1>6. ASSUME Decides(cur, id, inport, h), h \notin New
      PROVE  h \in OldPredicate(rule.out_ports)
  <2>1. h \in OldDealt
    BY <1>3, <1>6 DEF Decides, New
  <2>2. node \in DOMAIN predicate_map /\ h \in dealt_bdd_map[node]
    BY <2>1 DEF OldDealt
  <2>3. PICK k \in DOMAIN predicate_map[node] : h \in predicate_map[node][k]
    BY <2>2 DEF DealtExact
  <2>4. Deserved(cur, router_id, inport, h)
    BY <1>1, <1>2 DEF PriorityLookup
  <2>5. PICK i \in DOMAIN content[cur].rules :
          /\ Processed(cur, i, inport) /\ Decides(cur, i, inport, h)
          /\ content[cur].rules[i].out_ports = k
    BY <1>4, <2>2, <2>3, <2>4 DEF Deserved
  <2>6. i \in Nat /\ id \in Nat
    BY <1>1 DEF TypeOK, Document
  <2>7. i >= id
    BY <2>5, <2>6 DEF Processed
  <2>8. ~(i > id)
    BY <1>6, <2>5 DEF Decides
  <2>9. i = id
    BY <2>6, <2>7, <2>8
  <2> QED BY <1>1, <2>2, <2>3, <2>5, <2>9 DEF OldPredicate, OldKeys
<1> QED BY <1>3, <1>5, <1>6

\* The tables only grow.
LEMMA LoadGrows ==
  ASSUME TypeOK, Loaded, NEW n \in DOMAIN predicate_map
  PROVE  /\ n \in DOMAIN predicate_map'
         /\ dealt_bdd_map[n] \subseteq dealt_bdd_map'[n]
         /\ \A k \in DOMAIN predicate_map[n] :
              /\ k \in DOMAIN predicate_map'[n]
              /\ predicate_map[n][k] \subseteq predicate_map'[n][k]
<1>1. CASE n = node
  <2>1. OldKeys = DOMAIN predicate_map[node] /\ OldDealt = dealt_bdd_map[node]
    BY <1>1 DEF OldKeys, OldDealt
  <2>2. \A k \in OldKeys : OldPredicate(k) = predicate_map[node][k]
    BY DEF OldPredicate
  <2>3. \A k \in OldKeys : predicate_map[node][k] \subseteq predicate_map'[node][k]
    <3> SUFFICES ASSUME NEW k \in OldKeys
                 PROVE  predicate_map[node][k] \subseteq predicate_map'[node][k]
      OBVIOUS
    <3>1. CASE k = rule.out_ports
      <4>1. predicate_map'[node][k] = OldPredicate(k) \cup New
        BY <3>1 DEF Loaded
      <4> QED BY <2>2, <4>1
    <3>2. CASE k # rule.out_ports
      <4>1. predicate_map'[node][k] = OldPredicate(k)
        BY <3>2 DEF Loaded
      <4> QED BY <2>2, <4>1
    <3> QED BY <3>1, <3>2
  <2>4. /\ n \in DOMAIN predicate_map'
        /\ DOMAIN predicate_map'[node] = OldKeys \cup {rule.out_ports}
        /\ dealt_bdd_map'[node] = OldDealt \cup New
    BY <1>1 DEF Loaded
  <2> QED BY <1>1, <2>1, <2>3, <2>4
<1>2. CASE n # node
  BY <1>2 DEF Loaded
<1> QED BY <1>1, <1>2

\* The dealt set of the in-port stays the disjoint union of its predicates.
LEMMA LoadDealtExact ==
  ASSUME TypeOK, DealtExact, Loaded
  PROVE  DealtExact'
<1> SUFFICES ASSUME NEW n \in DOMAIN predicate_map'
             PROVE  /\ dealt_bdd_map'[n] =
                         UNION {predicate_map'[n][k] : k \in DOMAIN predicate_map'[n]}
                    /\ \A k, l \in DOMAIN predicate_map'[n] :
                         k # l => predicate_map'[n][k] \cap predicate_map'[n][l] = {}
  BY DEF DealtExact
<1>1. CASE n # node
  <2>1. /\ n \in DOMAIN predicate_map
        /\ predicate_map'[n] = predicate_map[n] /\ dealt_bdd_map'[n] = dealt_bdd_map[n]
    BY <1>1 DEF Loaded
  <2> QED BY <2>1 DEF DealtExact
<1>2. CASE n = node
  <2> DEFINE out == rule.out_ports
             Then(k) == predicate_map'[node][k]
  <2>1. /\ DOMAIN predicate_map'[node] = OldKeys \cup {out}
        /\ dealt_bdd_map'[node] = OldDealt \cup New
    BY DEF Loaded
  <2>2. OldDealt = UNION {OldPredicate(k) : k \in OldKeys}
    BY DEF OldDealt, OldPredicate, OldKeys, DealtExact
  <2>3. \A k, l \in OldKeys : k # l => OldPredicate(k) \cap OldPredicate(l) = {}
    BY DEF OldPredicate, OldKeys, DealtExact
  <2>4. \A k : k \notin OldKeys => OldPredicate(k) = {}
    BY DEF OldPredicate
  <2>5. New \cap OldDealt = {}
    BY DEF New
  <2>6. Then(out) = OldPredicate(out) \cup New
    BY DEF Loaded
  <2>7. \A k \in OldKeys : k # out => Then(k) = OldPredicate(k)
    BY DEF Loaded
  <2> HIDE DEF Then, out
  <2>8. OldDealt \cup New = UNION {Then(k) : k \in OldKeys \cup {out}}
    <3>1. ASSUME NEW h \in OldDealt
          PROVE  \E k \in OldKeys \cup {out} : h \in Then(k)
      <4>1. PICK k \in OldKeys : h \in OldPredicate(k)
        BY <2>2
      <4> QED BY <2>6, <2>7, <4>1
    <3>2. \A h \in New : h \in Then(out)
      BY <2>6
    <3>3. ASSUME NEW k \in OldKeys \cup {out}, NEW h \in Then(k)
          PROVE  h \in OldDealt \cup New
      <4>1. h \in OldPredicate(k) \/ h \in New
        BY <2>6, <2>7
      <4> QED BY <2>2, <2>4, <4>1
    <3> QED BY <3>1, <3>2, <3>3
  <2>9. \A k, l \in OldKeys \cup {out} : k # l => Then(k) \cap Then(l) = {}
    <3>1. \A k : OldPredicate(k) \subseteq OldDealt
      BY <2>2, <2>4
    <3>2. \A k, l : k # l => OldPredicate(k) \cap OldPredicate(l) = {}
      BY <2>3, <2>4
    <3> QED BY <2>5, <2>6, <2>7, <3>1, <3>2
  <2> QED BY <1>2, <2>1, <2>8, <2>9 DEF Then, out
<1> QED BY <1>1, <1>2

\* Loading a rule on an in-port keeps the tables right.
LEMMA LoadKeeps ==
  ASSUME TypeOK, Cursor, LoadRule,
         Coverage, DealtExact, PriorityLookup, RoutedInportHasTable
  PROVE  Cursor' /\ Coverage' /\ DealtExact' /\ PriorityLookup' /\ RoutedInportHasTable'
<1>1. AtInport /\ NextInport /\ MapInport /\ Loaded
  BY LoadEffect
<1>2. UNCHANGED <<content, unread, cur, id, id_to_router>>
  BY <1>1 DEF NextInport
<1>3. /\ cur \in Files /\ router_id \in DOMAIN id_to_router
      /\ id_to_router[router_id] = cur
      /\ id \in DOMAIN content[cur].rules /\ rule = content[cur].rules[id]
      /\ router_id = content[cur].id
  BY <1>1, CurrentRule DEF AtInport, router_id
<1>4. inport \in Ports /\ node = <<router_id, inport>>
  BY <1>1, LoadTypes DEF node
<1>5. \A r \in DOMAIN id_to_router : id_to_router[r] \in Files
  BY DEF TypeOK
<1>6. \A r \in DOMAIN id_to_router : id_to_router[r] = cur => r = router_id
  BY <1>3 DEF Cursor
<1>7. node \in DOMAIN predicate_map'
  BY <1>1 DEF Loaded
<1>8. Cursor'
  BY <1>2 DEF Cursor
<1>9. DealtExact'
  BY <1>1, LoadDealtExact
<1>10. RoutedInportHasTable'
  <2> SUFFICES ASSUME NEW p \in DOMAIN inport_to_router'
               PROVE  /\ inport_to_router'[p] \in DOMAIN id_to_router
                      /\ <<inport_to_router'[p], p>> \in DOMAIN predicate_map'
    BY <1>2 DEF RoutedInportHasTable
  <2>1. CASE p \in DOMAIN inport_to_router
    <3>1. inport_to_router'[p] = inport_to_router[p]
      BY <1>1, <2>1 DEF MapInport, Put
    <3> QED BY <1>1, <2>1, <3>1 DEF RoutedInportHasTable, Loaded
  <2>2. CASE p \notin DOMAIN inport_to_router
    <3>1. p = inport /\ inport_to_router'[p] = router_id
      BY <1>1, <2>2 DEF MapInport, Put
    <3> QED BY <1>3, <1>4, <1>7, <3>1
  <2> QED BY <2>1, <2>2
<1>11. Coverage'
  <2> SUFFICES ASSUME NEW r \in DOMAIN id_to_router, NEW p \in Ports, NEW h \in Headers,
                      NEW i \in DOMAIN content[id_to_router[r]].rules,
                      Processed(id_to_router[r], i, p)', Covers(id_to_router[r], i, p, h)
               PROVE  <<r, p>> \in DOMAIN predicate_map' /\ h \in dealt_bdd_map'[<<r, p>>]
    BY <1>2, FilesFixed DEF Coverage, Covers
  <2> DEFINE f == id_to_router[r]
  <2>1. f \in Files /\ (Processed(f, i, p)' <=>
                          \/ Processed(f, i, p)
                          \/ f = cur /\ i = id /\ p = inport)
    BY <1>1, <1>2, <1>5, LoadProcessed
  <2>2. CASE Processed(f, i, p)
    <3>1. <<r, p>> \in DOMAIN predicate_map /\ h \in dealt_bdd_map[<<r, p>>]
      BY <2>2 DEF Coverage
    <3> QED BY <1>1, <3>1, LoadGrows
  <2>3. CASE f = cur /\ i = id /\ p = inport
    <3>1. h \in matched
      BY <1>1, <2>3, NewDecided
    <3>2. <<r, p>> = node
      BY <1>4, <1>6, <2>3
    <3>3. h \in dealt_bdd_map'[node]
      BY <1>1, <3>1 DEF Loaded, New
    <3> QED BY <1>7, <3>2, <3>3
  <2>4. Processed(f, i, p)'
    BY <1>2
  <2> QED BY <2>1, <2>2, <2>3, <2>4
<1>12. PriorityLookup'
  <2> SUFFICES ASSUME NEW r \in DOMAIN id_to_router, NEW p \in Ports, NEW h \in Headers
               PROVE  /\ Filed(id_to_router[r], r, p, h)'
                      /\ Deserved(id_to_router[r], r, p, h)'
    BY <1>2 DEF PriorityLookup
  <2> DEFINE f == id_to_router[r]
  <2>1. f \in Files /\ f' = f
    BY <1>2, <1>5
  <2>2. \A i \in DOMAIN content[f].rules :
          Processed(f, i, p)' <=> \/ Processed(f, i, p)
                                  \/ f = cur /\ i = id /\ p = inport
    BY <1>1, <2>1, LoadProcessed
  <2>3. \A i : Decides(f, i, p, h)' <=> Decides(f, i, p, h)
    BY <1>2 DEF Decides, Covers
  <2>4. Filed(f, r, p, h) /\ Deserved(f, r, p, h)
    BY DEF PriorityLookup
  <2>5. f = cur => r = router_id
    BY <1>6
  <2>6. Filed(f, r, p, h)'
    <3> SUFFICES ASSUME NEW i \in DOMAIN content[f].rules,
                        Processed(f, i, p)', Decides(f, i, p, h)
                 PROVE  /\ <<r, p>> \in DOMAIN predicate_map'
                        /\ content[f].rules[i].out_ports \in DOMAIN predicate_map'[<<r, p>>]
                        /\ h \in predicate_map'[<<r, p>>][content[f].rules[i].out_ports]
      BY <1>2, <2>3 DEF Filed
    <3>1. CASE Processed(f, i, p)
      <4>1. /\ <<r, p>> \in DOMAIN predicate_map
            /\ content[f].rules[i].out_ports \in DOMAIN predicate_map[<<r, p>>]
            /\ h \in predicate_map[<<r, p>>][content[f].rules[i].out_ports]
        BY <2>4, <3>1 DEF Filed
      <4> QED BY <1>1, <4>1, LoadGrows
    <3>2. CASE f = cur /\ i = id /\ p = inport
      <4>1. <<r, p>> = node /\ content[f].rules[i].out_ports = rule.out_ports
        BY <1>3, <1>4, <2>5, <3>2
      <4>2. h \in New \/ h \in OldPredicate(rule.out_ports)
        BY <1>1, <3>2, NewDecided
      <4>3. /\ rule.out_ports \in DOMAIN predicate_map'[node]
            /\ predicate_map'[node][rule.out_ports] = OldPredicate(rule.out_ports) \cup New
        BY <1>1 DEF Loaded
      <4> QED BY <1>7, <4>1, <4>2, <4>3
    <3> QED BY <2>2, <3>1, <3>2
  <2>7. Deserved(f, r, p, h)'
    <3> SUFFICES ASSUME <<r, p>> \in DOMAIN predicate_map',
                        NEW k \in DOMAIN predicate_map'[<<r, p>>],
                        h \in predicate_map'[<<r, p>>][k]
                 PROVE  \E i \in DOMAIN content[f].rules :
                          /\ Processed(f, i, p)' /\ Decides(f, i, p, h)
                          /\ content[f].rules[i].out_ports = k
      BY <1>2, <2>3 DEF Deserved
    <3>1. CASE /\ <<r, p>> \in DOMAIN predicate_map
               /\ k \in DOMAIN predicate_map[<<r, p>>]
               /\ h \in predicate_map[<<r, p>>][k]
      BY <2>2, <2>4, <3>1 DEF Deserved
    <3>2. CASE <<r, p>> = node /\ k = rule.out_ports /\ h \in New
      <4>1. r = router_id /\ p = inport /\ f = cur
        BY <1>3, <1>4, <3>2
      <4>2. PICK i \in DOMAIN content[f].rules : i = id
        BY <1>3, <4>1
      <4>3. Processed(f, i, p)'
        BY <2>2, <4>1, <4>2
      <4>4. Decides(cur, id, inport, h)
        BY <1>1, <3>2, NewDecided
      <4>5. Decides(f, i, p, h)
        BY <4>1, <4>2, <4>4
      <4>6. content[f].rules[i].out_ports = k
        BY <1>3, <3>2, <4>1, <4>2
      <4> QED BY <4>3, <4>5, <4>6
    <3>3. CASE <<r, p>> # node
      BY <1>1, <3>1, <3>3 DEF Loaded
    <3>4. CASE <<r, p>> = node /\ ~(k = rule.out_ports /\ h \in New)
      <4>1. k \in OldKeys \cup {rule.out_ports} /\ h \in OldPredicate(k)
        BY <1>1, <3>4, ZenonT(30) DEF Loaded
      <4> QED BY <3>1, <3>4, <4>1 DEF OldPredicate, OldKeys
    <3> QED BY <3>2, <3>3, <3>4
  <2> QED BY <2>6, <2>7
<1> QED BY <1>8, <1>9, <1>10, <1>11, <1>12

-----------------------------------------------------------------------------
(* The inductive invariant.                                                *)

\* Before the first file there is nothing to be right about.
LEMMA InitIInv == Init => IInv
<1> SUFFICES ASSUME Init PROVE IInv
  OBVIOUS
<1>1. /\ DOMAIN id_to_router = {} /\ DOMAIN inport_to_router = {}
      /\ DOMAIN predicate_map = {} /\ cur = NoFile
  BY DEF Init, EmptyMap
<1>2. Cursor /\ Coverage /\ DealtExact /\ PriorityLookup /\ RoutedInportHasTable
  BY <1>1 DEF Cursor, Coverage, DealtExact, PriorityLookup, RoutedInportHasTable
<1> QED BY InitTypeOK, <1>2 DEF IInv

\* Every step preserves the invariant.
LEMMA StepIInv == IInv /\ [Next]_vars => IInv'
<1> SUFFICES ASSUME IInv, [Next]_vars PROVE IInv'
  OBVIOUS
<1>1. /\ TypeOK /\ Cursor /\ Coverage
      /\ DealtExact /\ PriorityLookup /\ RoutedInportHasTable
  BY DEF IInv
<1>2. TypeOK'
  BY <1>1, StepTypeOK
<1>3. CASE LoadRule
  BY <1>1, <1>2, <1>3, LoadKeeps DEF IInv
<1>4. CASE ~LoadRule
  <2>1. Passing /\ Cursor'
    BY <1>1, <1>4, PassingStep, PassingCursor
  <2> QED BY <1>1, <1>2, <2>1, PassingKeeps DEF IInv
<1> QED BY <1>3, <1>4

\* The invariant holds throughout the load.
THEOREM Invariance == Spec => []IInv
BY InitIInv, StepIInv, PTL DEF Spec

-----------------------------------------------------------------------------
(* The order of the files.                                                 *)

\* An in-port is routed for a rule of its router, and as soon as a rule that
\* forwards from it has been processed.
Routing ==
  /\ \A p \in DOMAIN inport_to_router : p \in RuledInports(id_to_router[inport_to_router[p]])
  /\ \A r \in DOMAIN id_to_router, p \in Ports :
       \A i \in DOMAIN content[id_to_router[r]].rules :
         Processed(id_to_router[r], i, p) /\ Forwards(id_to_router[r], i, p) =>
           p \in DOMAIN inport_to_router

\* Without conflicts, a file that has been read is the router it names, and
\* the scan ends when all have been.
Settled ==
  /\ WellConfigured =>
       \A f \in Files \ unread : content[f].id > 0 =>
         content[f].id \in DOMAIN id_to_router /\ id_to_router[content[f].id] = f
  /\ status = "loaded" => unread = {} /\ cur = NoFile

OrderInv == IInv /\ Routing /\ Settled

\* Who forwards from where, and whether files are in conflict, is a matter of
\* the files alone.
LEMMA ConflictsFixed ==
  ASSUME content' = content
  PROVE  /\ \A f : RuledInports(f)' = RuledInports(f)
         /\ \A f, i, p : Forwards(f, i, p)' <=> Forwards(f, i, p)
         /\ WellConfigured' <=> WellConfigured
<1>1. \A f : RuledInports(f)' = RuledInports(f)
  BY DEF RuledInports
<1> QED BY <1>1 DEF Forwards, WellConfigured

\* Loading a rule on an in-port routes it.
LEMMA LoadRouting ==
  ASSUME TypeOK, Cursor, LoadRule, RoutedInportHasTable, Routing
  PROVE  Routing'
<1>1. AtInport /\ NextInport /\ MapInport
  BY LoadEffect
<1>2. UNCHANGED <<content, unread, cur, id, id_to_router>>
  BY <1>1 DEF NextInport
<1>3. /\ cur \in Files /\ router_id \in DOMAIN id_to_router
      /\ id_to_router[router_id] = cur
      /\ id \in DOMAIN content[cur].rules /\ rule = content[cur].rules[id] /\ rule \in Rule
  BY <1>1, CurrentRule DEF AtInport
<1>4. inport \in DOMAIN inport_to_router' /\ DOMAIN inport_to_router \subseteq DOMAIN inport_to_router'
  BY <1>1 DEF MapInport, Put
<1>5. inport \in RuledInports(cur)
  <2>1. rule.in_ports \in Seq(Ports) /\ idx + 1 \in DOMAIN rule.in_ports /\ rule.action = "fwd"
    BY <1>1, <1>3 DEF Rule, AtInport, TypeOK
  <2>2. inport \in Elements(rule.in_ports) /\ rule \in Elements(content[cur].rules)
    BY <1>3, <2>1 DEF Elements, inport
  <2> QED BY <2>1, <2>2 DEF RuledInports
<1>6. ASSUME NEW p \in DOMAIN inport_to_router'
      PROVE  p \in RuledInports(id_to_router[inport_to_router'[p]])
  <2>1. CASE p \in DOMAIN inport_to_router
    <3>1. inport_to_router'[p] = inport_to_router[p]
      BY <1>1, <2>1 DEF MapInport, Put
    <3> QED BY <2>1, <3>1 DEF Routing
  <2>2. CASE p \notin DOMAIN inport_to_router
    <3>1. p = inport /\ inport_to_router'[p] = router_id
      BY <1>1, <2>2 DEF MapInport, Put
    <3> QED BY <1>3, <1>5, <3>1
  <2> QED BY <2>1, <2>2
<1>7. ASSUME NEW r \in DOMAIN id_to_router, NEW p \in Ports,
             NEW i \in DOMAIN content[id_to_router[r]].rules,
             Processed(id_to_router[r], i, p)', Forwards(id_to_router[r], i, p)
      PROVE  p \in DOMAIN inport_to_router'
  <2> DEFINE f == id_to_router[r]
  <2>1. f \in Files
    BY DEF TypeOK
  <2>2. Processed(f, i, p)' <=> Processed(f, i, p) \/ (f = cur /\ i = id /\ p = inport)
    BY <1>1, <1>2, <2>1, LoadProcessed
  <2>3. CASE Processed(f, i, p)
    BY <1>4, <1>7, <2>3 DEF Routing
  <2> QED BY <1>4, <1>7, <2>2, <2>3
<1> QED BY <1>2, <1>6, <1>7, ConflictsFixed DEF Routing

\* A step that loads no rule leaves the routes alone, and processes no rule on
\* an in-port that it forwards from.
LEMMA PassingRouting ==
  ASSUME TypeOK, Passing, RoutedInportHasTable, Routing
  PROVE  Routing'
<1>1. /\ UNCHANGED <<content, inport_to_router>>
      /\ \A r \in DOMAIN id_to_router :
           r \in DOMAIN id_to_router' /\ id_to_router'[r] = id_to_router[r]
  BY DEF Passing
<1>2. ASSUME NEW p \in DOMAIN inport_to_router
      PROVE  p \in RuledInports(id_to_router'[inport_to_router[p]])
  BY <1>1 DEF RoutedInportHasTable, Routing
<1>3. ASSUME NEW r \in DOMAIN id_to_router', NEW p \in Ports,
             NEW i \in DOMAIN content[id_to_router'[r]].rules,
             Processed(id_to_router[r], i, p)', Forwards(id_to_router'[r], i, p)
      PROVE  p \in DOMAIN inport_to_router
  <2>1. r \in DOMAIN id_to_router /\ id_to_router'[r] = id_to_router[r]
    BY <1>1, <1>3 DEF Passing
  <2>2. Processed(id_to_router[r], i, p)
    BY <1>3, <2>1 DEF Passing
  <2> QED BY <1>3, <2>1, <2>2 DEF Routing
<1>4. \A r, i, p : Forwards(id_to_router[r], i, p)' <=> Forwards(id_to_router'[r], i, p)
  BY <1>1 DEF Forwards
<1>5. \A r : RuledInports(id_to_router[inport_to_router[r]])' = RuledInports(id_to_router'[inport_to_router'[r]])
  BY <1>1 DEF RuledInports
<1> QED BY <1>1, <1>2, <1>3, <1>4, <1>5 DEF Routing

\* A file is refused only for a conflict, or because it names no router.
LEMMA KeepsSettled ==
  ASSUME TypeOK, Cursor, Settled, [Next]_vars
  PROVE  Settled'
<1>1. content' = content
  BY DEF Next, Step, Stopped, vars, LoadNewRouter, RefuseRouter, LoadRule, FirstRuleOnInport,
         NewActionOnInport, KnownActionOnInport, NextInport, NextRule, FinishRouter, FinishScan
<1>2. WellConfigured' <=> WellConfigured
  BY <1>1, ConflictsFixed
<1>3. ASSUME UNCHANGED <<unread, id_to_router, status>>, cur' = NoFile \/ status = "loading"
      PROVE  Settled'
  BY <1>1, <1>2, <1>3 DEF Settled
<1>4. ASSUME NEW f \in Files, LoadNewRouter(f) PROVE Settled'
  <2>1. /\ content[f].id \notin DOMAIN id_to_router /\ unread' = unread \ {f}
        /\ id_to_router' = Put(id_to_router, content[f].id, f)
        /\ status = "loading" /\ status' = status
    BY <1>4 DEF LoadNewRouter
  <2>2. ASSUME WellConfigured, NEW g \in Files \ unread', content[g].id > 0
        PROVE  content[g].id \in DOMAIN id_to_router' /\ id_to_router'[content[g].id] = g
    <3>1. CASE g = f
      BY <2>1, <3>1 DEF Put
    <3>2. CASE g # f
      <4>1. content[g].id \in DOMAIN id_to_router /\ id_to_router[content[g].id] = g
        BY <2>1, <2>2, <3>2 DEF Settled
      <4> QED BY <2>1, <4>1 DEF Put
    <3> QED BY <3>1, <3>2
  <2> QED BY <1>1, <1>2, <2>1, <2>2 DEF Settled
<1>5. ASSUME NEW f \in Files, RefuseRouter(f) PROVE Settled'
  <2>1. /\ f \in unread /\ unread' = unread \ {f} /\ UNCHANGED <<id_to_router, cur>>
        /\ content[f].id = 0 \/ content[f].id \in DOMAIN id_to_router
        /\ status' # "loaded"
    BY <1>5 DEF RefuseRouter
  <2>2. ASSUME WellConfigured PROVE ~(content[f].id > 0)
    <3>1. SUFFICES ASSUME content[f].id \in DOMAIN id_to_router PROVE FALSE
      BY <2>1
    <3> DEFINE g == id_to_router[content[f].id]
    <3>2. g \in Files /\ content[g].id = content[f].id /\ g \notin unread
      BY <3>1 DEF TypeOK, Cursor
    <3> QED BY <2>1, <2>2, <3>2 DEF WellConfigured
  <2> QED BY <1>1, <1>2, <2>1, <2>2 DEF Settled
<1>6. CASE LoadRule
  BY <1>3, <1>6 DEF LoadRule, FirstRuleOnInport, NewActionOnInport, KnownActionOnInport,
                    NextInport, AtInport
<1>7. CASE NextRule \/ FinishRouter
  BY <1>3, <1>7 DEF NextRule, FinishRouter
<1>8. CASE FinishScan
  BY <1>1, <1>2, <1>8 DEF FinishScan, Settled
<1>9. CASE UNCHANGED vars
  BY <1>1, <1>2, <1>9 DEF vars, Settled
<1> QED BY <1>4, <1>5, <1>6, <1>7, <1>8, <1>9 DEF Next, Step, Stopped

\* The order of the files does not matter: with all of them read, each is the
\* router it names, and its in-ports have no other router to be routed to.
THEOREM OrderCorrect == Spec => []OrderIndependent
<1>1. Init => Routing /\ Settled
  BY DEF Init, EmptyMap, Routing, Settled
<1>2. IInv /\ Routing /\ Settled /\ [Next]_vars => (Routing /\ Settled)'
  <2> SUFFICES ASSUME IInv, Routing, Settled, [Next]_vars PROVE Routing' /\ Settled'
    OBVIOUS
  <2>1. TypeOK /\ Cursor /\ RoutedInportHasTable
    BY DEF IInv
  <2>2. Settled'
    BY <2>1, KeepsSettled
  <2>3. Routing'
    BY <2>1, PassingStep, LoadRouting, PassingRouting
  <2> QED BY <2>2, <2>3
<1>3. IInv /\ Routing /\ Settled => OrderIndependent
  <2> SUFFICES ASSUME IInv, Routing, Settled, status = "loaded", WellConfigured,
                      NEW f \in Files, content[f].id > 0
               PROVE  /\ content[f].id \in DOMAIN id_to_router
                      /\ id_to_router[content[f].id] = f
                      /\ \A p \in RuledInports(f) :
                           /\ p \in DOMAIN inport_to_router
                           /\ inport_to_router[p] = content[f].id
    BY DEF OrderIndependent
  <2>1. unread = {} /\ cur = NoFile /\ TypeOK /\ Cursor /\ RoutedInportHasTable
    BY DEF IInv, Settled
  <2>2. content[f].id \in DOMAIN id_to_router /\ id_to_router[content[f].id] = f
    BY <2>1 DEF Settled
  <2>3. ASSUME NEW p \in RuledInports(f)
        PROVE  p \in DOMAIN inport_to_router /\ inport_to_router[p] = content[f].id
    <3>1. PICK i \in DOMAIN content[f].rules : Forwards(f, i, p)
      BY DEF RuledInports, Elements, Forwards
    <3>2. p \in Ports
      <4>1. content[f].rules[i] \in Rule
        BY <2>1 DEF TypeOK, Document
      <4>2. content[f].rules[i].in_ports \in Seq(Ports)
        BY <4>1 DEF Rule
      <4> QED BY <3>1, <4>2 DEF Forwards, Elements
    <3>3. Processed(f, i, p)
      BY <2>1, FileAssumption DEF Processed
    <3>4. p \in DOMAIN inport_to_router
      BY <2>2, <3>1, <3>2, <3>3 DEF Routing
    <3> DEFINE r == inport_to_router[p]
    <3>5. /\ r \in DOMAIN id_to_router /\ id_to_router[r] \in Files
          /\ p \in RuledInports(id_to_router[r]) /\ content[id_to_router[r]].id = r
      BY <2>1, <3>4 DEF RoutedInportHasTable, Routing, Cursor, TypeOK
    <3>6. id_to_router[r] = f
      BY <3>5 DEF WellConfigured
    <3> QED BY <3>4, <3>5, <3>6
  <2> QED BY <2>2, <2>3
<1> QED BY <1>1, <1>2, <1>3, Invariance, PTL DEF Spec

-----------------------------------------------------------------------------
(* The theorems.                                                           *)

\* The type invariant of the loader.
THEOREM TypeCorrect == Spec => []TypeOK
<1>1. IInv => TypeOK
  BY DEF IInv
<1> QED BY Invariance, <1>1, PTL

\* The predicates add_then_load_router builds are the priority lookup of the
\* rules, in whatever order files, rules and in-ports come.
THEOREM PriorityLookupCorrect == Spec => []PriorityLookup
<1>1. IInv => PriorityLookup
  BY DEF IInv
<1> QED BY Invariance, <1>1, PTL

\* dealt_bdd_map is always the disjoint union of the predicates.
THEOREM DealtExactCorrect == Spec => []DealtExact
<1>1. IInv => DealtExact
  BY DEF IInv
<1> QED BY Invariance, <1>1, PTL

\* A routed in-port has a router with a table for it.
THEOREM RoutedInportCorrect == Spec => []RoutedInportHasTable
<1>1. IInv => RoutedInportHasTable
  BY DEF IInv
<1> QED BY Invariance, <1>1, PTL

\* No step takes back a router, a route or a header's out_ports.
THEOREM NothingReassignedCorrect == Spec => NothingReassigned
<1> DEFINE Kept ==
      /\ \A r \in DOMAIN id_to_router :
           r \in DOMAIN id_to_router' /\ id_to_router'[r] = id_to_router[r]
      /\ \A p \in DOMAIN inport_to_router :
           /\ p \in DOMAIN inport_to_router'
           /\ inport_to_router'[p] = inport_to_router[p]
      /\ \A n \in DOMAIN predicate_map : \A k \in DOMAIN predicate_map[n] :
           /\ n \in DOMAIN predicate_map' /\ k \in DOMAIN predicate_map'[n]
           /\ predicate_map'[n][k] \cap dealt_bdd_map[n] = predicate_map[n][k]
<1>1. ASSUME IInv, [Next]_vars PROVE Kept
  <2>1. TypeOK /\ Cursor /\ DealtExact
    BY <1>1 DEF IInv
  <2>2. \A n \in DOMAIN predicate_map : \A k \in DOMAIN predicate_map[n] :
          predicate_map[n][k] \subseteq dealt_bdd_map[n]
    BY <2>1 DEF DealtExact
  <2>3. CASE LoadRule
    <3>1. NextInport /\ MapInport /\ Loaded
      BY <2>1, <2>3, LoadEffect
    <3>2. \A r \in DOMAIN id_to_router :
            r \in DOMAIN id_to_router' /\ id_to_router'[r] = id_to_router[r]
      BY <3>1 DEF NextInport
    <3>3. \A p \in DOMAIN inport_to_router :
            /\ p \in DOMAIN inport_to_router'
            /\ inport_to_router'[p] = inport_to_router[p]
      BY <3>1 DEF MapInport, Put
    <3>4. ASSUME NEW n \in DOMAIN predicate_map, NEW k \in DOMAIN predicate_map[n]
          PROVE  /\ n \in DOMAIN predicate_map' /\ k \in DOMAIN predicate_map'[n]
                 /\ predicate_map'[n][k] \cap dealt_bdd_map[n] = predicate_map[n][k]
      <4>1. n \in DOMAIN predicate_map' /\ k \in DOMAIN predicate_map'[n]
        BY <2>1, <3>1, LoadGrows
      <4>2. CASE n # node
        <5>1. predicate_map'[n] = predicate_map[n]
          BY <3>1, <4>2 DEF Loaded
        <5> QED BY <2>2, <4>1, <5>1
      <4>3. CASE n = node
        <5>1. k \in OldKeys /\ OldPredicate(k) = predicate_map[n][k]
              /\ OldDealt = dealt_bdd_map[n]
          BY <4>3 DEF OldKeys, OldPredicate, OldDealt
        <5>2. New \cap dealt_bdd_map[n] = {}
          BY <5>1 DEF New
        <5>3. \/ predicate_map'[n][k] = predicate_map[n][k] \cup New
              \/ predicate_map'[n][k] = predicate_map[n][k]
          BY <3>1, <4>3, <5>1, ZenonT(30) DEF Loaded
        <5> QED BY <2>2, <4>1, <5>2, <5>3
      <4> QED BY <4>2, <4>3
    <3> QED BY <3>2, <3>3, <3>4
  <2>4. CASE ~LoadRule
    <3>1. Passing
      BY <1>1, <2>1, <2>4, PassingStep
    <3> QED BY <2>2, <3>1 DEF Passing
  <2> QED BY <2>3, <2>4
<1>2. IInv /\ [Next]_vars => [Kept]_vars
  BY <1>1
<1> QED BY Invariance, <1>2, PTL DEF NothingReassigned, Spec
=============================================================================
