------------------------------- MODULE LifeCycle -------------------------------
(***************************************************************************)
(* One run of the program: main, load_apverifier_from_dir and              *)
(* load_action_file of main.cpp around one APVerifier.                     *)
(*                                                                         *)
(* What a router's tables hold is the business of RuleTables, what the     *)
(* atoms are that of AtomicPredicates, and an answer that of Propagate.    *)
(* Here it matters which document a router was built from, whether the     *)
(* atoms were made, and how the run ends.                                  *)
(* Left out: the value of --hdr-len, which HeaderMatch has, and the links  *)
(* of the topology.  A query returns, as Propagate!QueryReturns says.      *)
(***************************************************************************)
EXTENDS Integers, Sequences

CONSTANTS
  Runs,       \* pairs of a command line and what is on the disk
  Directory,  \* the argument that names the directory of rule files
  Policy      \* the argument that names the action file

\* What the program meets in a rule file.  Its rules can all be read if it is
\* intact or broken off between two of them.  Otherwise there is nothing in it
\* the program can read (it cannot be opened, or is empty), or its id is no
\* number, or of its rules, read from the last to the first, there is one with
\* in_ports and a match that is missing or too short, or with a value of
\* another type than asString and asUInt take.  The program reads the id and
\* the rules from what the parser leaves.
Loadable == {"intact", "broken"}
Ruined == {"short_match", "bad_rule"}
RuleFile == [kind : Loadable \cup Ruined \cup {"nothing", "bad_id"}, id : Nat]

\* A document is "bad" if asUInt64 or asString throws at what it holds; so is an
\* action.  What is no object at all throws before the first of them.
Action == {"query_reach", "other", "bad"}
IsDisk(d) ==
  /\ d.topology \in {"absent", "intact", "bad"}
  /\ d.files \in Seq(RuleFile)
  /\ d.policy \in BOOLEAN
  /\ d.actions \in Seq(Action)

ASSUME RunsAssumption ==
  \A run \in Runs : run.args \in Seq(STRING) /\ IsDisk(run.disk)

VARIABLES
  args, disk,
  i,                \* the argument to look at next
  do_load_json_files, do_load_action, show_detail,
  json_files_path, action_json_file,
  pc,               \* where the run is, or how it ended
  unread,           \* rule files readdir() has not returned yet
  root,             \* the Json::Value all files are parsed into, by its file
  router_counter,
  id_to_router,     \* router id -> the file scanned and the document used
  ap_bdd_list,      \* "unset" until make_atomic_predicates
  actions,          \* actions of the policy still to do
  answers           \* the routers each query was answered with

options == <<args, i, do_load_json_files, do_load_action, show_detail,
             json_files_path, action_json_file>>
network == <<unread, root, router_counter, id_to_router, ap_bdd_list>>
vars == <<options, disk, pc, network, actions, answers>>

NoMap == [r \in {} |-> {}]

\* The document of topology.json, which has no id; rule files are 1, 2, ...
Topology == 0

Init ==
  /\ \E run \in Runs : args = run.args /\ disk = run.disk
  /\ i = 1
  /\ do_load_json_files = FALSE /\ do_load_action = FALSE /\ show_detail = FALSE
  /\ json_files_path = "" /\ action_json_file = ""
  /\ pc = "options"
  /\ unread = DOMAIN disk.files
  /\ root = Topology
  /\ router_counter = 0
  /\ id_to_router = NoMap
  /\ ap_bdd_list = "unset"
  /\ actions = <<>>
  /\ answers = {}

-----------------------------------------------------------------------------
(***************************************************************************)
(* The options.  An option that takes an argument moves i on to it, and    *)
(* the tests below it in the loop body then look at that argument.         *)
(***************************************************************************)
argv(k) == IF k \in DOMAIN args THEN args[k] ELSE ""
PastLoad == IF argv(i) = "--load" THEN i + 1 ELSE i
PastAction == IF argv(PastLoad) = "--action" THEN PastLoad + 1 ELSE PastLoad
PastHdrLen == IF argv(PastAction) = "--hdr-len" THEN PastAction + 1 ELSE PastAction

\* Mutant: the argument of an option is taken for granted.
ReadOption_Unchecked ==
  /\ pc = "options" /\ i <= Len(args) /\ argv(i) # "--help"
  /\ i' = PastHdrLen + 1
  /\ do_load_json_files' = (do_load_json_files \/ PastLoad # i)
  /\ json_files_path' = argv(PastLoad)
  /\ UNCHANGED <<args, do_load_action, show_detail, action_json_file, disk, pc, network,
                 actions, answers>>

ReadOption ==
  /\ pc = "options" /\ i <= Len(args) /\ argv(i) # "--help"
  /\ PastHdrLen <= Len(args)
  /\ i' = PastHdrLen + 1
  /\ IF PastLoad # i
     THEN do_load_json_files' = TRUE /\ json_files_path' = argv(PastLoad)
     ELSE UNCHANGED <<do_load_json_files, json_files_path>>
  /\ IF PastAction # PastLoad
     THEN do_load_action' = TRUE /\ action_json_file' = argv(PastAction)
     ELSE UNCHANGED <<do_load_action, action_json_file>>
  /\ show_detail' = (show_detail \/ argv(PastHdrLen) = "-detailed")
  /\ UNCHANGED <<args, disk, pc, network, actions, answers>>

\* "Please specify ... after ...": main returns -1.
MissingArgument ==
  /\ pc = "options" /\ i <= Len(args) /\ argv(i) # "--help"
  /\ PastHdrLen > Len(args)
  /\ pc' = "refused"
  /\ UNCHANGED <<options, disk, network, actions, answers>>

\* Mutant: the actions come first.
EndOptions_ActionsFirst ==
  /\ pc = "options"
  /\ i > Len(args) \/ argv(i) = "--help"
  /\ pc' = IF do_load_json_files /\ ~do_load_action THEN "topology" ELSE "policy"
  /\ UNCHANGED <<options, disk, network, actions, answers>>

\* --help prints the usage and ends the loop, not the program.
EndOptions ==
  /\ pc = "options"
  /\ i > Len(args) \/ argv(i) = "--help"
  /\ pc' = IF do_load_json_files THEN "topology" ELSE "policy"
  /\ UNCHANGED <<options, disk, network, actions, answers>>

-----------------------------------------------------------------------------
(***************************************************************************)
(* load_apverifier_from_dir.                                               *)
(***************************************************************************)
HasTopology ==
  do_load_json_files /\ json_files_path = Directory /\ disk.topology # "absent"

\* The error is logged, and the function returns without routers or atoms.
NoTopology ==
  /\ pc = "topology" /\ ~HasTopology
  /\ pc' = "policy"
  /\ UNCHANGED <<options, disk, network, actions, answers>>

\* Nobody catches what asUInt64 throws at a link.
ReadTopology ==
  /\ pc = "topology" /\ HasTopology
  /\ pc' = IF disk.topology = "bad" THEN "terminated" ELSE "scan"
  /\ UNCHANGED <<options, disk, network, actions, answers>>

\* Mutant: a router id that is taken is taken over.
Free_Always(r) == r > 0

Free(r) == r > 0 /\ r \notin DOMAIN id_to_router

\* The document in root after f was parsed: a file with nothing in it leaves
\* the document of the file before.
Parsed(f) == IF disk.files[f].kind = "nothing" THEN root ELSE f
IdOf(doc) == IF doc = Topology THEN 0 ELSE disk.files[doc].id

\* The rest of one iteration of the scan, for a file whose id is a number.
Scan(f) ==
  /\ pc = "scan" /\ f \in unread /\ disk.files[f].kind # "bad_id"
  /\ unread' = unread \ {f}
  /\ root' = Parsed(f)
  /\ UNCHANGED <<options, disk, ap_bdd_list, actions, answers>>

\* Mutant: a rule without a match is passed over.
RulesRead_Lenient(doc) ==
  IF disk.files[doc].kind = "bad_rule"
  THEN pc' = "terminated" /\ UNCHANGED router_counter
  ELSE router_counter' = router_counter + 1 /\ UNCHANGED pc

\* The rules of a new router: a value of the wrong type throws, and match2bdd
\* reads past the end of a short string.
RulesRead(doc) ==
  CASE disk.files[doc].kind = "bad_rule" -> pc' = "terminated" /\ UNCHANGED router_counter
    [] disk.files[doc].kind = "short_match" -> pc' = "undefined" /\ UNCHANGED router_counter
    [] OTHER -> router_counter' = router_counter + 1 /\ UNCHANGED pc

\* The router is there before its rules are read.
LoadRuleFile(f) ==
  LET r == IdOf(Parsed(f))
  IN /\ Scan(f) /\ Free(r)
     /\ id_to_router' = [s \in DOMAIN id_to_router \cup {r} |->
                           IF s = r THEN [file |-> f, document |-> Parsed(f)]
                           ELSE id_to_router[s]]
     /\ RulesRead(Parsed(f))

\* Id 0, or one that is taken: the rules are not looked at.  With -detailed the
\* router of the id is printed, which for id 0 is a null pointer.
RefuseRuleFile(f) ==
  /\ Scan(f) /\ ~Free(IdOf(Parsed(f)))
  /\ IF show_detail /\ IdOf(Parsed(f)) = 0
     THEN pc' = "undefined" /\ UNCHANGED router_counter
     ELSE router_counter' = router_counter + 1 /\ UNCHANGED pc
  /\ UNCHANGED id_to_router

\* asUInt throws, and nobody catches it.
ThrowOnId(f) ==
  /\ pc = "scan" /\ f \in unread /\ disk.files[f].kind = "bad_id"
  /\ pc' = "terminated"
  /\ UNCHANGED <<options, disk, network, actions, answers>>

\* total_run_time / router_counter.
Average ==
  /\ pc = "scan" /\ unread = {}
  /\ pc' = IF router_counter = 0 THEN "undefined" ELSE "atoms"
  /\ UNCHANGED <<options, disk, network, actions, answers>>

MakeAtoms ==
  /\ pc = "atoms"
  /\ ap_bdd_list' = "made"
  /\ pc' = "policy"
  /\ UNCHANGED <<options, disk, unread, root, router_counter, id_to_router,
                 actions, answers>>

-----------------------------------------------------------------------------
(***************************************************************************)
(* load_action_file, and the end of main.                                  *)
(***************************************************************************)
HasPolicy == do_load_action /\ action_json_file = Policy /\ disk.policy

ReadPolicy ==
  /\ pc = "policy" /\ HasPolicy
  /\ actions' = disk.actions
  /\ pc' = "actions"
  /\ UNCHANGED <<options, disk, network, answers>>

\* No --action, or a file that cannot be opened.
NoPolicy ==
  /\ pc = "policy" /\ ~HasPolicy
  /\ pc' = "delete"
  /\ UNCHANGED <<options, disk, network, actions, answers>>

\* The method of an action is no string, or a port no number.
ThrowOnAction ==
  /\ pc = "actions" /\ actions # <<>> /\ Head(actions) = "bad"
  /\ pc' = "terminated"
  /\ UNCHANGED <<options, disk, network, actions, answers>>

Query ==
  /\ pc = "actions" /\ actions # <<>> /\ Head(actions) = "query_reach"
  /\ answers' = answers \cup {DOMAIN id_to_router}
  /\ actions' = Tail(actions)
  /\ UNCHANGED <<options, disk, pc, network>>

\* Mutant: an action that is not supported is not passed over.
Unsupported_Stays ==
  /\ pc = "actions" /\ actions # <<>> /\ Head(actions) = "other"
  /\ UNCHANGED vars

\* "Query ... not supported yet...".
Unsupported ==
  /\ pc = "actions" /\ actions # <<>> /\ Head(actions) = "other"
  /\ actions' = Tail(actions)
  /\ UNCHANGED <<options, disk, pc, network, answers>>

EndActions ==
  /\ pc = "actions" /\ actions = <<>>
  /\ pc' = "delete"
  /\ UNCHANGED <<options, disk, network, actions, answers>>

\* ~APVerifier swaps *ap_bdd_list empty, whether or not it was ever set.
Delete ==
  /\ pc = "delete"
  /\ pc' = IF ap_bdd_list = "unset" THEN "undefined" ELSE "exited"
  /\ UNCHANGED <<options, disk, network, actions, answers>>

Step ==
  \/ ReadOption \/ MissingArgument \/ EndOptions
  \/ NoTopology \/ ReadTopology \/ Average \/ MakeAtoms
  \/ \E f \in DOMAIN disk.files : LoadRuleFile(f) \/ RefuseRuleFile(f) \/ ThrowOnId(f)
  \/ ReadPolicy \/ NoPolicy \/ ThrowOnAction \/ Query \/ Unsupported \/ EndActions \/ Delete

Ended == pc \in {"refused", "terminated", "undefined", "exited"}
Stopped == Ended /\ UNCHANGED vars

Next == Step \/ Stopped

Spec == Init /\ [][Next]_vars

\* One thread, and nothing it waits for.
FairSpec == Spec /\ WF_vars(Step)

-----------------------------------------------------------------------------
(***************************************************************************)
(* Properties.                                                             *)
(***************************************************************************)

\* Every variable holds a value of its type.
TypeOK ==
  /\ args \in Seq(STRING) /\ IsDisk(disk)
  /\ i \in 1..(Len(args) + 1)
  /\ {do_load_json_files, do_load_action, show_detail} \subseteq BOOLEAN
  /\ pc \in {"options", "topology", "scan", "atoms", "policy", "actions",
             "delete", "refused", "terminated", "undefined", "exited"}
  /\ unread \subseteq DOMAIN disk.files
  /\ root \in DOMAIN disk.files \cup {Topology}
  /\ router_counter \in Nat
  /\ DOMAIN id_to_router \subseteq Nat \ {0}
  /\ \A r \in DOMAIN id_to_router :
       {id_to_router[r].file, id_to_router[r].document} \subseteq DOMAIN disk.files
  /\ ap_bdd_list \in {"unset", "made"}
  /\ actions \in Seq(Action)
  /\ answers \subseteq SUBSET DOMAIN id_to_router

\* root outlives the file it was parsed from, and an unreadable rule file is
\* loaded as whatever root still holds; yet no router is ever built from
\* another file's document, because that document's id is taken by then.
NoStaleRouter ==
  \A r \in DOMAIN id_to_router :
    /\ id_to_router[r].document = id_to_router[r].file
    /\ disk.files[id_to_router[r].file].id = r

\* The scan is over.
Scanned == HasTopology /\ pc \in {"atoms", "policy", "actions", "delete", "exited"}

\* Damaged files, in whatever order they are met, keep no intact file from
\* being loaded unless they carry its id.
IntactFilesLoaded ==
  Scanned =>
    \A f \in DOMAIN disk.files :
      /\ disk.files[f].kind = "intact" /\ disk.files[f].id > 0
      /\ \A g \in DOMAIN disk.files \ {f} :
           disk.files[g].kind \in Loadable => disk.files[g].id # disk.files[f].id
      => /\ disk.files[f].id \in DOMAIN id_to_router
         /\ id_to_router[disk.files[f].id].file = f

\* Damaged files neither become routers nor keep others from becoming them.
RoutersMatchFiles == NoStaleRouter /\ IntactFilesLoaded

Built(kinds) == \E r \in DOMAIN id_to_router : disk.files[id_to_router[r].file].kind \in kinds
Asked(kind) == HasPolicy /\ \E k \in DOMAIN disk.actions : disk.actions[k] = kind

\* A run that exits has done all that can be asked of one: there was a network,
\* every rule file was scanned, every rule of every router could be read, the
\* atoms were made, and every action was looked at, the queries answered.
ExitMeansDone ==
  pc = "exited" =>
    /\ HasTopology /\ disk.topology = "intact" /\ ap_bdd_list = "made"
    /\ router_counter = Len(disk.files) /\ router_counter > 0
    /\ \A f \in DOMAIN disk.files : disk.files[f].kind # "bad_id"
    /\ ~Built(Ruined)
    /\ ~Asked("bad") /\ (Asked("query_reach") <=> answers # {})

\* A run comes to undefined behaviour in four places only: the destructor, if
\* no network was loaded; the average over no rule files; the match of a rule
\* that was too short, whose router is there; and the router of id 0 that
\* -detailed prints.
UndefinedOnlyThere ==
  pc = "undefined" =>
    \/ ~HasTopology /\ ap_bdd_list = "unset"
    \/ HasTopology /\ DOMAIN disk.files = {}
    \/ Built({"short_match"})
    \/ show_detail /\ IdOf(root) = 0

\* A run is terminated by an exception only if the disk holds a value of the
\* wrong type where the program looked.
ThrowsOnlyAtTypes ==
  pc = "terminated" =>
    \/ HasTopology /\ disk.topology = "bad"
    \/ HasTopology /\ \E f \in DOMAIN disk.files : disk.files[f].kind = "bad_id"
    \/ Built({"bad_rule"})
    \/ Asked("bad")

\* How a run ends tells what it met: whichever of its files are damaged, at
\* whatever place and in whatever order, no damage a rule is read at passes
\* unnoticed into a run that exits, and none but the named ends it otherwise.
EndsTell == ExitMeansDone /\ UndefinedOnlyThere /\ ThrowsOnlyAtTypes

\* Queries are answered with all the routers of the network that was loaded,
\* and the same ones throughout.
AnswersAgree ==
  answers # {} =>
    /\ answers = {DOMAIN id_to_router}
    /\ HasTopology => unread = {} /\ ap_bdd_list = "made"

\* Every run ends.
RunEnds == <>Ended

(***************************************************************************)
(* What the usage text says.                                               *)
(***************************************************************************)

\* "Usage: ap-verifier [run option(s)][settings]": run options may be left
\* out, so a run without --load comes to a defined end.
RunOptionsOptional == ~do_load_json_files => pc # "undefined"
=============================================================================
