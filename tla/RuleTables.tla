------------------------------ MODULE RuleTables ------------------------------
(***************************************************************************)
(* Loading a directory of rule files into per-router predicate tables:     *)
(* the directory scan of load_apverifier_from_dir (main.cpp) calling       *)
(* APVerifier::add_then_load_router (ap_verifier.cpp) on each file.        *)
(*                                                                         *)
(* A BDD over the header bits is the set of headers it accepts, so BDD     *)
(* conjunction, disjunction, difference and bddfalse are \cap, \cup, \     *)
(* and {}.  The match strings are left abstract here: match2bdd is any     *)
(* function from match strings to header sets, and Ternary/HeaderMatch     *)
(* say which function the code computes.                                   *)
(***************************************************************************)
EXTENDS Integers, Sequences

CONSTANTS
  Headers,     \* the packet header space
  Ports,       \* port numbers
  Matches,     \* the "match" strings that rules may carry
  match2bdd,   \* the header set each match string denotes
  Files,       \* the rule files of the directory
  Directories, \* what the files may hold: a set of functions on Files
  NoFile,      \* "no file is being loaded"
  ShowDetail   \* the -detailed command-line flag

\* One rule, and one rule file.  An "action" other than "fwd" is treated by
\* the code as a rewrite rule; a missing "id" reads as 0.  in_ports is the
\* list val_to_list returns, in the order the loop walks it; out_ports is the
\* JSON array itself, which is the key of the predicate map.
Rule == [action : {"fwd", "rw"}, match : Matches,
         in_ports : Seq(Ports), out_ports : Seq(Ports)]
Document == [id : Nat, rules : Seq(Rule)]

ASSUME MatchAssumption == match2bdd \in [Matches -> SUBSET Headers]
ASSUME DirectoryAssumption == Directories \subseteq [Files -> Document]
ASSUME FileAssumption == NoFile \notin Files
ASSUME DetailAssumption == ShowDetail \in BOOLEAN

VARIABLES
  content,           \* what each file holds
  unread,            \* files readdir() has not returned yet
  cur,               \* the file add_then_load_router is working on
  id,                \* its rule cursor: rule id is being loaded, 0 at the end
  idx,               \* how many in_ports of that rule are done
  id_to_router,      \* router id -> the file its Router was built from
  inport_to_router,  \* in-port -> router id
  predicate_map,     \* <<router id, in-port>> -> (out_ports -> header set)
  dealt_bdd_map,     \* <<router id, in-port>> -> headers already dealt with
  status             \* "loading", "loaded" or "crashed"

vars == <<content, unread, cur, id, idx, id_to_router, inport_to_router,
          predicate_map, dealt_bdd_map, status>>
tables == <<inport_to_router, predicate_map, dealt_bdd_map>>

-----------------------------------------------------------------------------
(* std::map as a function on its key set.                                  *)

EmptyMap == [k \in {} |-> {}]
Put(map, key, value) ==
  [k \in DOMAIN map \cup {key} |-> IF k = key THEN value ELSE map[k]]

Elements(list) == {list[n] : n \in DOMAIN list}

-----------------------------------------------------------------------------
Init ==
  /\ content \in Directories
  /\ unread = Files
  /\ cur = NoFile
  /\ id = 0
  /\ idx = 0
  /\ id_to_router = EmptyMap
  /\ inport_to_router = EmptyMap
  /\ predicate_map = EmptyMap
  /\ dealt_bdd_map = EmptyMap
  /\ status = "loading"

(***************************************************************************)
(* The directory scan: readdir() returns the files in an order the program *)
(* does not control.                                                       *)
(***************************************************************************)
\* A router id that is free gets its Router and the rule loop starts at the
\* last rule of the file.
LoadNewRouter(f) ==
  /\ status = "loading" /\ cur = NoFile /\ f \in unread
  /\ content[f].id > 0 /\ content[f].id \notin DOMAIN id_to_router
  /\ unread' = unread \ {f}
  /\ cur' = f
  /\ id' = Len(content[f].rules)
  /\ idx' = 0
  /\ id_to_router' = Put(id_to_router, content[f].id, f)
  /\ UNCHANGED <<content, tables, status>>

\* Router id 0, or one that was loaded before: an error is logged and the
\* file's rules are dropped.  With -detailed the router is printed through
\* id_to_router[router_id] all the same, a null pointer for id 0.
RefuseRouter(f) ==
  /\ status = "loading" /\ cur = NoFile /\ f \in unread
  /\ content[f].id = 0 \/ content[f].id \in DOMAIN id_to_router
  /\ unread' = unread \ {f}
  /\ status' = IF ShowDetail /\ content[f].id = 0 THEN "crashed" ELSE status
  /\ UNCHANGED <<content, cur, id, idx, id_to_router, tables>>

(***************************************************************************)
(* The rule loop, from the last rule of the file to its first, and inside  *)
(* it the loop over the rule's in_ports.                                   *)
(***************************************************************************)
rule == content[cur].rules[id]
router_id == content[cur].id
inport == rule.in_ports[idx + 1]
node == <<router_id, inport>>
matched == match2bdd[rule.match]

\* Mutant: the difference with dealt_bdd_map is forgotten.
Remaining_Unsubtracted == matched

\* The headers of the rule that no rule of higher priority has taken.
Remaining == matched \ dealt_bdd_map[node]

\* The iteration for one in_port of a "fwd" rule.
AtInport ==
  /\ status = "loading" /\ cur # NoFile /\ id > 0
  /\ rule.action = "fwd" /\ idx < Len(rule.in_ports)

\* Mutant: the last router that names an in-port takes it over.
MapInport_Last == inport_to_router' = Put(inport_to_router, inport, router_id)

\* The first router that names an in-port keeps it; a second one is logged
\* as a configuration error.
MapInport ==
  inport_to_router' = IF inport \in DOMAIN inport_to_router
                      THEN inport_to_router
                      ELSE Put(inport_to_router, inport, router_id)

NextInport ==
  /\ idx' = idx + 1
  /\ UNCHANGED <<content, unread, cur, id, id_to_router, status>>

\* Mutant: the dealt set of a new in-port is never set up.
FirstRuleOnInport_NoDealt ==
  /\ AtInport
  /\ node \notin DOMAIN predicate_map
  /\ MapInport
  /\ predicate_map' =
       Put(predicate_map, node, Put(EmptyMap, rule.out_ports, matched))
  /\ UNCHANGED dealt_bdd_map
  /\ NextInport

\* "We have never encountered any rule on this inport before".
FirstRuleOnInport ==
  /\ AtInport
  /\ node \notin DOMAIN predicate_map
  /\ MapInport
  /\ predicate_map' =
       Put(predicate_map, node, Put(EmptyMap, rule.out_ports, matched))
  /\ dealt_bdd_map' = Put(dealt_bdd_map, node, {} \cup matched)
  /\ NextInport

\* Mutant: a new action's headers are not added to the dealt set.
NewActionOnInport_NoDealt ==
  /\ AtInport
  /\ node \in DOMAIN predicate_map
  /\ rule.out_ports \notin DOMAIN predicate_map[node]
  /\ MapInport
  /\ predicate_map' =
       Put(predicate_map, node,
           Put(predicate_map[node], rule.out_ports, Remaining))
  /\ UNCHANGED dealt_bdd_map
  /\ NextInport

\* "We encountered rule on this inport, but never this action (outports)".
NewActionOnInport ==
  /\ AtInport
  /\ node \in DOMAIN predicate_map
  /\ rule.out_ports \notin DOMAIN predicate_map[node]
  /\ MapInport
  /\ predicate_map' =
       Put(predicate_map, node,
           Put(predicate_map[node], rule.out_ports, Remaining))
  /\ dealt_bdd_map' =
       Put(dealt_bdd_map, node, dealt_bdd_map[node] \cup Remaining)
  /\ NextInport

\* "We encountered rule on this inport with this action (outports)".
KnownActionOnInport ==
  /\ AtInport
  /\ node \in DOMAIN predicate_map
  /\ rule.out_ports \in DOMAIN predicate_map[node]
  /\ MapInport
  /\ predicate_map' =
       Put(predicate_map, node,
           Put(predicate_map[node], rule.out_ports,
               predicate_map[node][rule.out_ports] \cup Remaining))
  /\ dealt_bdd_map' =
       Put(dealt_bdd_map, node, dealt_bdd_map[node] \cup Remaining)
  /\ NextInport

\* Mutant: the in-ports of a rewrite rule are routed too.
NextRule_RoutesRewrite ==
  /\ status = "loading" /\ cur # NoFile /\ id > 0
  /\ rule.action = "fwd" => idx = Len(rule.in_ports)
  /\ id' = id - 1
  /\ idx' = 0
  /\ inport_to_router' = IF rule.action = "rw" /\ idx < Len(rule.in_ports)
                         THEN Put(inport_to_router, inport, router_id)
                         ELSE inport_to_router
  /\ UNCHANGED <<content, unread, cur, id_to_router, predicate_map,
                  dealt_bdd_map, status>>

\* The in_ports are exhausted, or the rule is not "fwd" (rewrite rules are
\* only counted): on to the rule above.
NextRule ==
  /\ status = "loading" /\ cur # NoFile /\ id > 0
  /\ rule.action = "fwd" => idx = Len(rule.in_ports)
  /\ id' = id - 1
  /\ idx' = 0
  /\ UNCHANGED <<content, unread, cur, id_to_router, tables, status>>

\* The rule loop is over: add_then_load_router returns to the scan.
FinishRouter ==
  /\ status = "loading" /\ cur # NoFile /\ id = 0
  /\ cur' = NoFile
  /\ UNCHANGED <<content, unread, id, idx, id_to_router, tables, status>>

\* Mutant: the scan ends after whichever file comes first.
FinishScan_Early ==
  /\ status = "loading" /\ cur = NoFile /\ unread # Files
  /\ status' = "loaded"
  /\ UNCHANGED <<content, unread, cur, id, idx, id_to_router, tables>>

\* readdir() returned NULL.
FinishScan ==
  /\ status = "loading" /\ cur = NoFile /\ unread = {}
  /\ status' = "loaded"
  /\ UNCHANGED <<content, unread, cur, id, idx, id_to_router, tables>>

LoadRule ==
  FirstRuleOnInport \/ NewActionOnInport \/ KnownActionOnInport

Step ==
  \/ \E f \in Files : LoadNewRouter(f) \/ RefuseRouter(f)
  \/ LoadRule \/ NextRule \/ FinishRouter \/ FinishScan

\* The loader stops when the scan is over or the process has died.
Stopped == status # "loading" /\ UNCHANGED vars

Next == Step \/ Stopped

Spec == Init /\ [][Next]_vars

-----------------------------------------------------------------------------
(***************************************************************************)
(* Properties.                                                             *)
(***************************************************************************)

\* Every variable holds a value of its C++ type.
TypeOK ==
  /\ content \in [Files -> Document]
  /\ unread \subseteq Files
  /\ cur \in Files \cup {NoFile}
  /\ id \in Nat
  /\ idx \in Nat
  /\ id_to_router \in [DOMAIN id_to_router -> Files]
  /\ DOMAIN id_to_router \subseteq Nat \ {0}
  /\ inport_to_router \in [DOMAIN inport_to_router -> Nat \ {0}]
  /\ DOMAIN inport_to_router \subseteq Ports
  /\ predicate_map = [n \in DOMAIN predicate_map |-> predicate_map[n]]
  /\ DOMAIN predicate_map \subseteq (DOMAIN id_to_router) \X Ports
  /\ \A n \in DOMAIN predicate_map :
       /\ predicate_map[n] \in [DOMAIN predicate_map[n] -> SUBSET Headers]
       /\ DOMAIN predicate_map[n] \subseteq Seq(Ports)
  /\ dealt_bdd_map \in [DOMAIN predicate_map -> SUBSET Headers]
  /\ status \in {"loading", "loaded", "crashed"}

\* Rule i of file f forwards header h arriving on in-port p.
Covers(f, i, p, h) ==
  LET r == content[f].rules[i]
  IN  r.action = "fwd" /\ p \in Elements(r.in_ports) /\ h \in match2bdd[r.match]

\* Rule i decides h on p: it is the last rule of the file, so the one of
\* highest priority, that covers h there.
Decides(f, i, p, h) ==
  /\ Covers(f, i, p, h)
  /\ \A j \in DOMAIN content[f].rules : j > i => ~Covers(f, j, p, h)

\* The loader is past rule i of file f as far as in-port p is concerned.
Processed(f, i, p) ==
  f = cur => \/ i > id
             \/ i = id /\ \E n \in 1..idx : content[f].rules[i].in_ports[n] = p

\* A header that a processed rule of router r's file f decides is under that
\* rule's out_ports.
Filed(f, r, p, h) ==
  \A i \in DOMAIN content[f].rules :
    Processed(f, i, p) /\ Decides(f, i, p, h) =>
      /\ <<r, p>> \in DOMAIN predicate_map
      /\ content[f].rules[i].out_ports \in DOMAIN predicate_map[<<r, p>>]
      /\ h \in predicate_map[<<r, p>>][content[f].rules[i].out_ports]

\* A header under out_ports k is there by the processed rule that decides it.
Deserved(f, r, p, h) ==
  <<r, p>> \in DOMAIN predicate_map =>
    \A k \in DOMAIN predicate_map[<<r, p>>] :
      h \in predicate_map[<<r, p>>][k] =>
        \E i \in DOMAIN content[f].rules :
          /\ Processed(f, i, p) /\ Decides(f, i, p, h)
          /\ content[f].rules[i].out_ports = k

\* The predicates of a loaded router are the priority lookup of its rules: a
\* header sits under out_ports k on in-port p exactly when the processed rule
\* that decides it forwards to k, at every moment of the load and whatever
\* the order in which rules, in-ports and files are met
\* (add_then_load_router).
PriorityLookup ==
  \A r \in DOMAIN id_to_router, p \in Ports, h \in Headers :
    Filed(id_to_router[r], r, p, h) /\ Deserved(id_to_router[r], r, p, h)

\* dealt_bdd_map never drifts from the predicates it summarises: it is the
\* union of the in-port's predicates, and no header is in two of them.
DealtExact ==
  \A n \in DOMAIN predicate_map :
    /\ dealt_bdd_map[n] =
         UNION {predicate_map[n][k] : k \in DOMAIN predicate_map[n]}
    /\ \A k, l \in DOMAIN predicate_map[n] :
         k # l => predicate_map[n][k] \cap predicate_map[n][l] = {}

\* The propagate functions dereference
\* id_to_router[inport_to_router[p]]->predicate_map[p] after checking only
\* the two outer maps: every routed in-port has a router and that router has
\* a table for it, even when two routers claim the in-port.
RoutedInportHasTable ==
  \A p \in DOMAIN inport_to_router :
    /\ inport_to_router[p] \in DOMAIN id_to_router
    /\ <<inport_to_router[p], p>> \in DOMAIN predicate_map

\* No load takes back what an earlier one settled: a router stays built from
\* its first file, an in-port stays with its first router, and a header stays
\* with the out_ports it was given, although the rules of lower priority
\* still to come may cover it.
NothingReassigned ==
  [][/\ \A r \in DOMAIN id_to_router :
          r \in DOMAIN id_to_router' /\ id_to_router'[r] = id_to_router[r]
     /\ \A p \in DOMAIN inport_to_router :
          /\ p \in DOMAIN inport_to_router'
          /\ inport_to_router'[p] = inport_to_router[p]
     /\ \A n \in DOMAIN predicate_map : \A k \in DOMAIN predicate_map[n] :
          /\ n \in DOMAIN predicate_map' /\ k \in DOMAIN predicate_map'[n]
          /\ predicate_map'[n][k] \cap dealt_bdd_map[n] = predicate_map[n][k]
    ]_vars

\* The in-ports that file f has forwarding rules for.
RuledInports(f) ==
  UNION {Elements(r.in_ports) : r \in {q \in Elements(content[f].rules) : q.action = "fwd"}}

\* No two files share a router id or an in-port.
WellConfigured ==
  \A f, g \in Files : f # g =>
    /\ content[f].id # content[g].id
    /\ RuledInports(f) \cap RuledInports(g) = {}

\* The order in which readdir() returns the files does not matter to a
\* configuration without conflicts: after the scan every file with a router
\* id is that router, and its in-ports are routed to it.
OrderIndependent ==
  status = "loaded" /\ WellConfigured =>
    \A f \in Files : content[f].id > 0 =>
      /\ content[f].id \in DOMAIN id_to_router
      /\ id_to_router[content[f].id] = f
      /\ \A p \in RuledInports(f) :
           /\ p \in DOMAIN inport_to_router
           /\ inport_to_router[p] = content[f].id

(***************************************************************************)
(* What the documentation says.                                            *)
(***************************************************************************)

\* examples/README.md: the rules of a file may be "fwd" or "rw" and, where
\* they overlap, the one lowest in the file has the highest priority.  A
\* header is forwarded to k only if that rule, of either action, is "fwd".
DocumentedPriority ==
  \A r \in DOMAIN id_to_router, p \in Ports, h \in Headers :
    LET R == content[id_to_router[r]].rules
        Overlap == {i \in DOMAIN R : p \in Elements(R[i].in_ports)
                                      /\ h \in match2bdd[R[i].match]}
    IN  status = "loaded" /\ <<r, p>> \in DOMAIN predicate_map =>
          \A k \in DOMAIN predicate_map[<<r, p>>] :
            h \in predicate_map[<<r, p>>][k] =>
              \E i \in Overlap :
                /\ \A j \in Overlap : j <= i
                /\ R[i].action = "fwd" /\ R[i].out_ports = k
=============================================================================
