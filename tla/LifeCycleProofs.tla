---------------------------- MODULE LifeCycleProofs ----------------------------
(***************************************************************************)
(* One run of the program, for every command line and every disk: its      *)
(* types, which files become routers, what the way it ends tells, and what *)
(* its queries are answered with.                                          *)
(***************************************************************************)
EXTENDS LifeCycle, FiniteSetTheorems, SequenceTheorems, TLAPS

-----------------------------------------------------------------------------
(***************************************************************************)
(* The strengthening.  What readdir() has returned is loaded, and what is  *)
(* left in root is a document whose id is taken; and how far the run has   *)
(* come says what has been done.                                           *)
(***************************************************************************)
Readable == Loadable \cup Ruined
Returned == DOMAIN disk.files \ unread

\* The document in root is the topology's, or a file's that was scanned.
RootScanned == root # Topology => root \in Returned /\ disk.files[root].kind \in Readable

\* No id of a document that was scanned is free any more.
IdsTaken ==
  \A f \in Returned : disk.files[f].kind \in Readable => ~Free(disk.files[f].id)

\* A router was built from the file of its id, which could be read; and its
\* rules too, as long as the run goes on.
RoutersScanned ==
  \A r \in DOMAIN id_to_router :
    /\ id_to_router[r].file \in Returned
    /\ disk.files[id_to_router[r].file].kind \in Readable

RulesReadable == pc \notin {"terminated", "undefined"} => ~Built(Ruined)

\* Every file returned had a number for an id and was counted.
FilesCounted ==
  /\ \A f \in Returned : disk.files[f].kind # "bad_id"
  /\ pc \notin {"terminated", "undefined"} =>
       Cardinality(unread) + router_counter = Len(disk.files)

\* A run that has a topology has been through the scan and the atoms.
Phases ==
  /\ pc \in {"scan", "atoms"} => HasTopology
  /\ HasTopology /\ pc \in {"scan", "atoms", "policy", "actions", "delete", "exited"} =>
       disk.topology = "intact"
  /\ HasTopology /\ pc \in {"atoms", "policy", "actions", "delete", "exited"} =>
       unread = {} /\ router_counter > 0
  /\ HasTopology /\ pc \in {"policy", "actions", "delete", "exited"} =>
       ap_bdd_list = "made"
  /\ ~HasTopology /\ pc \in {"policy", "actions", "delete", "exited"} =>
       ap_bdd_list = "unset"
  /\ pc \in {"options", "topology", "scan", "atoms"} => ap_bdd_list = "unset"
  /\ pc = "exited" => ap_bdd_list = "made"

\* Nothing is answered before the actions are done.
AnswersLast ==
  answers # {} => pc \in {"actions", "delete", "terminated", "undefined", "exited"}

\* The actions still to do are the last of the policy's, and of those before
\* them none was bad and the queries were answered.
Behind == Len(disk.actions) - Len(actions)
ActionsDone ==
  /\ pc = "actions" =>
       /\ HasPolicy
       /\ Behind \in 0..Len(disk.actions)
       /\ \A k \in DOMAIN actions : actions[k] = disk.actions[Behind + k]
       /\ \A k \in 1..Behind : disk.actions[k] # "bad"
       /\ answers # {} <=> \E k \in 1..Behind : disk.actions[k] = "query_reach"
  /\ pc \in {"delete", "exited"} =>
       ~Asked("bad") /\ (Asked("query_reach") <=> answers # {})

\* Where the run has come to, without which document is where.
Course == TypeOK /\ Phases /\ AnswersLast /\ AnswersAgree
Causes == UndefinedOnlyThere /\ ThrowsOnlyAtTypes

IInv ==
  /\ RootScanned /\ IdsTaken /\ RoutersScanned /\ NoStaleRouter
  /\ RulesReadable /\ FilesCounted /\ ActionsDone
  /\ Course /\ Causes

-----------------------------------------------------------------------------
\* The files on the disk and those still unread are finitely many.
LEMMA FilesFinite ==
  ASSUME TypeOK
  PROVE  /\ DOMAIN disk.files = 1..Len(disk.files) /\ Len(disk.files) \in Nat
         /\ Cardinality(DOMAIN disk.files) = Len(disk.files)
         /\ IsFiniteSet(unread) /\ Cardinality(unread) \in Nat
<1>1. DOMAIN disk.files = 1..Len(disk.files) /\ Len(disk.files) \in Nat
  BY DEF TypeOK, IsDisk
<1>2. IsFiniteSet(DOMAIN disk.files) /\ Cardinality(DOMAIN disk.files) = Len(disk.files)
  BY <1>1, FS_Interval
<1>3. IsFiniteSet(unread)
  BY <1>2, FS_Subset DEF TypeOK
<1> QED BY <1>1, <1>2, <1>3, FS_CardinalityType

\* Before the first step nothing has been scanned, loaded or answered.
LEMMA InitInvariant == Init => IInv
<1> SUFFICES ASSUME Init PROVE IInv
  OBVIOUS
<1> USE DEF Init, NoMap, Topology
<1>1. TypeOK
  <2>1. args \in Seq(STRING) /\ IsDisk(disk)
    BY RunsAssumption
  <2>2. Len(args) \in Nat
    BY <2>1, LenProperties
  <2>3. i = 1 /\ i \in 1..(Len(args) + 1)
    <3>1. i = 1
      OBVIOUS
    <3> HIDE DEF Init
    <3> QED BY <2>2, <3>1
  <2>4. actions \in Seq(Action)
    BY EmptySeq
  <2> QED BY <2>1, <2>3, <2>4 DEF TypeOK
<1>2. RootScanned /\ IdsTaken /\ RoutersScanned /\ NoStaleRouter
  BY DEF RootScanned, IdsTaken, RoutersScanned, NoStaleRouter, Returned
<1>3. RulesReadable /\ ActionsDone
  BY DEF RulesReadable, Built, ActionsDone
<1>4. FilesCounted
  <2>1. unread = DOMAIN disk.files /\ router_counter = 0
    OBVIOUS
  <2> HIDE DEF Init
  <2>2. Cardinality(unread) + router_counter = Len(disk.files)
    BY <1>1, <2>1, FilesFinite
  <2> QED BY <2>1, <2>2 DEF FilesCounted, Returned
<1>5. Phases /\ AnswersLast /\ AnswersAgree /\ Causes
  BY DEF Phases, AnswersLast, AnswersAgree, Causes, UndefinedOnlyThere, ThrowsOnlyAtTypes
<1> QED BY <1>1, <1>2, <1>3, <1>4, <1>5 DEF IInv, Course

\* What one iteration of the scan does to the documents, whether or not a
\* router comes of it.
LEMMA ScanStep ==
  ASSUME IInv, NEW f \in DOMAIN disk.files, Scan(f)
  PROVE  /\ Returned' = Returned \cup {f}
         /\ RootScanned'
         /\ root' \in DOMAIN disk.files \cup {Topology} /\ IdOf(Parsed(f)) \in Nat
         /\ Free(IdOf(Parsed(f))) =>
              /\ Parsed(f) = f /\ IdOf(Parsed(f)) = disk.files[f].id
              /\ disk.files[f].kind \in Readable
         /\ disk.files[f].kind \in Readable =>
              Parsed(f) = f /\ IdOf(Parsed(f)) = disk.files[f].id
         /\ \A g \in Returned' : disk.files[g].kind # "bad_id"
         /\ Cardinality(unread') = Cardinality(unread) - 1
         /\ Cardinality(unread) + router_counter = Len(disk.files)
<1> DEFINE doc == Parsed(f)
<1>1. /\ pc = "scan" /\ f \in unread /\ disk.files[f].kind # "bad_id"
      /\ unread' = unread \ {f} /\ root' = doc /\ disk' = disk
  BY DEF Scan
<1>2. TypeOK
  BY DEF IInv, Course
<1>3. \A g \in DOMAIN disk.files :
        disk.files[g].id \in Nat /\ disk.files[g].kind \in Readable \cup {"nothing", "bad_id"}
  <2>1. \A g \in DOMAIN disk.files : disk.files[g] \in RuleFile
    BY <1>2 DEF TypeOK, IsDisk
  <2> QED BY <2>1 DEF RuleFile, Readable
<1>4. Returned' = Returned \cup {f}
  BY <1>1, <1>2 DEF Returned, TypeOK
<1>5. doc # Topology => doc \in Returned' /\ disk.files[doc].kind \in Readable
  BY <1>1, <1>3, <1>4 DEF IInv, RootScanned, Parsed
<1>6. root' \in DOMAIN disk.files \cup {Topology} /\ IdOf(doc) \in Nat
  BY <1>1, <1>2, <1>3 DEF TypeOK, Parsed, IdOf
<1>7. f # Topology
  BY <1>2, FilesFinite DEF Topology
<1>8. disk.files[f].kind \in Readable => doc = f /\ IdOf(doc) = disk.files[f].id
  BY <1>7 DEF Parsed, IdOf, Readable, Loadable, Ruined
\* A document that is left over has an id that is taken.
<1>9. Free(IdOf(doc)) => disk.files[f].kind \in Readable
  BY <1>1, <1>3 DEF IInv, RootScanned, IdsTaken, Parsed, IdOf, Free, Topology
<1>10. Cardinality(unread') = Cardinality(unread) - 1
  BY <1>1, <1>2, FilesFinite, FS_RemoveElement
<1> QED BY <1>1, <1>4, <1>5, <1>6, <1>8, <1>9, <1>10
        DEF IInv, RootScanned, FilesCounted

\* What loading one rule file does.
LEMMA LoadStep ==
  ASSUME IInv, NEW f \in DOMAIN disk.files, LoadRuleFile(f)
  PROVE  IInv'
<1> DEFINE id == disk.files[f].id
<1>1. /\ pc = "scan" /\ f \in unread
      /\ unread' = unread \ {f} /\ root' = Parsed(f)
      /\ UNCHANGED <<options, disk, ap_bdd_list, actions, answers>>
  BY DEF LoadRuleFile, Scan
<1>2. /\ Parsed(f) = f /\ Free(id) /\ disk.files[f].kind \in Readable
      /\ IdOf(f) = id /\ id \in Nat \ {0}
  BY ScanStep DEF LoadRuleFile, Free
<1>3. /\ DOMAIN id_to_router' = DOMAIN id_to_router \cup {id}
      /\ id_to_router'[id] = [file |-> f, document |-> f]
      /\ \A r \in DOMAIN id_to_router : r # id /\ id_to_router'[r] = id_to_router[r]
  BY <1>2 DEF LoadRuleFile, Free
<1>4. \/ /\ disk.files[f].kind = "bad_rule"
         /\ pc' = "terminated" /\ router_counter' = router_counter
      \/ /\ disk.files[f].kind = "short_match"
         /\ pc' = "undefined" /\ router_counter' = router_counter
      \/ /\ disk.files[f].kind \notin Ruined
         /\ pc' = pc /\ router_counter' = router_counter + 1
  BY <1>2 DEF LoadRuleFile, RulesRead, Ruined
<1>5. TypeOK /\ answers = {}
  BY <1>1 DEF IInv, Course, AnswersLast
<1>6. TypeOK'
  BY <1>1, <1>2, <1>3, <1>4, <1>5 DEF TypeOK, options
<1>7. RootScanned' /\ RoutersScanned' /\ NoStaleRouter' /\ IdsTaken'
  <2>1. Returned' = Returned \cup {f} /\ RootScanned'
    BY ScanStep DEF LoadRuleFile
  <2>2. RoutersScanned' /\ NoStaleRouter'
    BY <1>1, <1>2, <1>3, <2>1 DEF IInv, RoutersScanned, NoStaleRouter
  <2>3. IdsTaken'
    BY <1>1, <1>2, <1>3, <2>1 DEF IInv, IdsTaken, Free
  <2> QED BY <2>1, <2>2, <2>3
<1>8. RulesReadable'
  BY <1>1, <1>3, <1>4 DEF IInv, RulesReadable, Built
<1>9. FilesCounted'
  <2>1. /\ \A g \in Returned' : disk.files[g].kind # "bad_id"
        /\ Cardinality(unread') = Cardinality(unread) - 1
        /\ Cardinality(unread) + router_counter = Len(disk.files)
    BY ScanStep DEF LoadRuleFile
  <2>2. Cardinality(unread) \in Nat /\ router_counter \in Nat
    BY <1>5, FilesFinite DEF TypeOK
  <2> QED BY <1>1, <1>4, <2>1, <2>2 DEF FilesCounted
<1>10. Causes'
  <2>1. id \in DOMAIN id_to_router' /\ disk'.files[id_to_router'[id].file].kind
          = disk.files[f].kind
    BY <1>1, <1>3
  <2>2. /\ disk.files[f].kind = "bad_rule" => Built({"bad_rule"})'
        /\ disk.files[f].kind = "short_match" => Built({"short_match"})'
    BY <2>1 DEF Built
  <2> QED BY <1>1, <1>4, <2>2 DEF Causes, UndefinedOnlyThere, ThrowsOnlyAtTypes
<1>11. (Phases /\ AnswersLast /\ AnswersAgree /\ ActionsDone)'
  BY <1>1, <1>4, <1>5 DEF IInv, Course, Phases, AnswersLast, AnswersAgree, ActionsDone,
     HasTopology, options
<1> QED BY <1>6, <1>7, <1>8, <1>9, <1>10, <1>11 DEF IInv, Course

\* What refusing one does.
LEMMA RefuseStep ==
  ASSUME IInv, NEW f \in DOMAIN disk.files, RefuseRuleFile(f)
  PROVE  IInv'
<1>1. /\ pc = "scan" /\ f \in unread /\ id_to_router' = id_to_router
      /\ unread' = unread \ {f} /\ root' = Parsed(f)
      /\ UNCHANGED <<options, disk, ap_bdd_list, actions, answers>>
  BY DEF RefuseRuleFile, Scan
<1>2. \/ /\ show_detail /\ IdOf(Parsed(f)) = 0
         /\ pc' = "undefined" /\ router_counter' = router_counter
      \/ pc' = pc /\ router_counter' = router_counter + 1
  BY DEF RefuseRuleFile
<1>3. TypeOK /\ answers = {}
  BY <1>1 DEF IInv, Course, AnswersLast
<1>4. TypeOK'
  <2>1. root' \in DOMAIN disk.files \cup {Topology}
    BY ScanStep DEF RefuseRuleFile
  <2> QED BY <1>1, <1>2, <1>3, <2>1 DEF TypeOK, options
<1>5. RootScanned' /\ RoutersScanned' /\ NoStaleRouter' /\ IdsTaken'
  <2>1. /\ Returned' = Returned \cup {f} /\ RootScanned'
        /\ disk.files[f].kind \in Readable => IdOf(Parsed(f)) = disk.files[f].id
    BY ScanStep DEF RefuseRuleFile
  <2>2. RoutersScanned' /\ NoStaleRouter'
    BY <1>1, <2>1 DEF IInv, RoutersScanned, NoStaleRouter
  <2>3. ~Free(IdOf(Parsed(f)))
    BY DEF RefuseRuleFile
  <2>4. IdsTaken'
    BY <1>1, <2>1, <2>3 DEF IInv, IdsTaken, Free
  <2> QED BY <2>1, <2>2, <2>4
<1>6. RulesReadable'
  BY <1>1, <1>2 DEF IInv, RulesReadable, Built
<1>7. FilesCounted'
  <2>1. /\ \A g \in Returned' : disk.files[g].kind # "bad_id"
        /\ Cardinality(unread') = Cardinality(unread) - 1
        /\ Cardinality(unread) + router_counter = Len(disk.files)
    BY ScanStep DEF RefuseRuleFile
  <2>2. Cardinality(unread) \in Nat /\ router_counter \in Nat
    BY <1>3, FilesFinite DEF TypeOK
  <2> QED BY <1>1, <1>2, <2>1, <2>2 DEF FilesCounted
<1>8. Causes'
  BY <1>1, <1>2 DEF Causes, UndefinedOnlyThere, ThrowsOnlyAtTypes, IdOf, options
<1>9. (Phases /\ AnswersLast /\ AnswersAgree /\ ActionsDone)'
  BY <1>1, <1>2, <1>3 DEF IInv, Course, Phases, AnswersLast, AnswersAgree, ActionsDone,
     HasTopology, options
<1> QED BY <1>4, <1>5, <1>6, <1>7, <1>8, <1>9 DEF IInv, Course

\* A step that neither scans a file nor ends in an error keeps what is known
\* of the documents, the routers and the files counted.
LEMMA OtherStep ==
  ASSUME IInv, UNCHANGED <<disk, unread, root, router_counter, id_to_router>>,
         pc \notin {"terminated", "undefined"} \/ pc' = pc
  PROVE  /\ RootScanned' /\ IdsTaken' /\ RoutersScanned' /\ NoStaleRouter'
         /\ RulesReadable' /\ FilesCounted'
<1>1. RootScanned' /\ IdsTaken' /\ RoutersScanned' /\ NoStaleRouter'
  BY DEF IInv, RootScanned, IdsTaken, RoutersScanned, NoStaleRouter, Returned, Free
<1>2. RulesReadable'
  BY DEF IInv, RulesReadable, Built
<1>3. FilesCounted'
  BY DEF IInv, FilesCounted, Returned
<1> QED BY <1>1, <1>2, <1>3

\* One step through the actions of the policy.
LEMMA ActionBehind ==
  ASSUME IInv, pc = "actions", actions # <<>>, UNCHANGED <<options, disk>>,
         actions' = Tail(actions)
  PROVE  /\ actions' \in Seq(Action)
         /\ Behind' = Behind + 1 /\ Behind' \in 1..Len(disk.actions)
         /\ Head(actions) = disk.actions[Behind']
         /\ \A k \in DOMAIN actions' : actions'[k] = disk.actions[Behind' + k]
<1>1. actions \in Seq(Action) /\ disk.actions \in Seq(Action)
  BY DEF IInv, Course, TypeOK, IsDisk
<1>2. /\ Head(actions) = actions[1] /\ Tail(actions) \in Seq(Action)
      /\ Len(Tail(actions)) = Len(actions) - 1 /\ Len(actions) \in Nat \ {0}
      /\ \A k \in 1..Len(Tail(actions)) : Tail(actions)[k] = actions[k + 1]
      /\ DOMAIN actions = 1..Len(actions) /\ DOMAIN Tail(actions) = 1..Len(Tail(actions))
  BY <1>1, HeadTailProperties, EmptySeq, LenProperties
<1>3. Len(disk.actions) \in Nat
  BY <1>1, LenProperties
<1>4. /\ Behind \in 0..Len(disk.actions)
      /\ \A k \in 1..Len(actions) : actions[k] = disk.actions[Behind + k]
  BY <1>2 DEF IInv, ActionsDone
<1>5. Behind' = Behind + 1 /\ Behind' \in 1..Len(disk.actions)
  BY <1>2, <1>3, <1>4 DEF Behind
<1>6. Head(actions) = disk.actions[Behind']
  BY <1>2, <1>4, <1>5
<1>7. ASSUME NEW k \in DOMAIN actions' PROVE actions'[k] = disk.actions[Behind' + k]
  <2>1. k \in 1..(Len(actions) - 1) /\ actions'[k] = actions[k + 1]
    BY <1>2, <1>7
  <2>2. actions[k + 1] = disk.actions[Behind + (k + 1)]
    <3>1. k + 1 \in 1..Len(actions)
      BY <1>2, <2>1
    <3> QED BY <1>4, <3>1
  <2>3. Behind + (k + 1) = Behind' + k
    BY <1>4, <1>5, <2>1
  <2> QED BY <2>1, <2>2, <2>3
<1> QED BY <1>2, <1>5, <1>6, <1>7

\* The invariant, with one step per action.
LEMMA StepInvariant == IInv /\ [Next]_vars => IInv'
<1> SUFFICES ASSUME IInv, [Next]_vars PROVE IInv'
  OBVIOUS
<1>1. Course /\ Causes /\ ActionsDone
  BY DEF IInv
<1>2. Len(args) \in Nat
  BY <1>1 DEF Course, TypeOK
<1> DEFINE Rest == Course /\ Causes /\ ActionsDone
<1>3. ASSUME Rest', UNCHANGED <<disk, unread, root, router_counter, id_to_router>>,
             pc \notin {"terminated", "undefined"} \/ pc' = pc
      PROVE IInv'
  BY <1>3, OtherStep DEF IInv
<1> USE DEF options, network, Course, Causes, Phases, AnswersLast, AnswersAgree,
            UndefinedOnlyThere, ThrowsOnlyAtTypes, ActionsDone, HasTopology
<1>4. CASE ReadOption
  <2>1. PastLoad \in Nat /\ PastLoad >= i
    BY <1>1, <1>2 DEF TypeOK, PastLoad
  <2>2. PastAction \in Nat /\ PastAction >= i
    BY <1>1, <1>2, <2>1 DEF TypeOK, PastAction
  <2>3. PastHdrLen \in Nat /\ PastHdrLen >= i
    BY <1>1, <1>2, <2>2 DEF TypeOK, PastHdrLen
  <2>4. i' \in 1..(Len(args) + 1)
    BY <1>1, <1>2, <1>4, <2>3 DEF TypeOK, ReadOption
  <2>5. TypeOK'
    BY <1>1, <1>4, <2>4 DEF TypeOK, ReadOption
  <2>6. (Phases /\ AnswersLast /\ AnswersAgree /\ Causes /\ ActionsDone)'
    BY <1>1, <1>4 DEF ReadOption
  <2> QED BY <1>3, <1>4, <2>5, <2>6 DEF ReadOption
<1>5. CASE MissingArgument
  BY <1>1, <1>3, <1>5 DEF MissingArgument, TypeOK
<1>6. CASE EndOptions
  BY <1>1, <1>3, <1>6 DEF EndOptions, TypeOK
<1>7. CASE NoTopology
  BY <1>1, <1>3, <1>7 DEF NoTopology, TypeOK
<1>8. CASE ReadTopology
  BY <1>1, <1>3, <1>8 DEF ReadTopology, TypeOK, IsDisk
<1>9. CASE Average
  <2>1. router_counter = 0 => DOMAIN disk.files = {}
    <3>1. Cardinality(unread) = 0 /\ Cardinality(unread) + router_counter = Len(disk.files)
      BY <1>9, FS_EmptySet DEF Average, IInv, FilesCounted
    <3> QED BY <1>1, <3>1, FilesFinite
  <2>2. router_counter \in Nat
    BY <1>1 DEF TypeOK
  <2>3. TypeOK'
    BY <1>1, <1>9 DEF Average, TypeOK
  <2> QED BY <1>1, <1>3, <1>9, <2>1, <2>2, <2>3 DEF Average
<1>10. CASE MakeAtoms
  BY <1>1, <1>3, <1>10 DEF MakeAtoms, TypeOK
<1>11. ASSUME NEW f \in DOMAIN disk.files, LoadRuleFile(f) PROVE IInv'
  BY <1>11, LoadStep
<1>12. ASSUME NEW f \in DOMAIN disk.files, RefuseRuleFile(f) PROVE IInv'
  BY <1>12, RefuseStep
<1>13. ASSUME NEW f \in DOMAIN disk.files, ThrowOnId(f) PROVE IInv'
  BY <1>1, <1>3, <1>13 DEF ThrowOnId, TypeOK
<1>14. CASE ReadPolicy
  <2>1. disk.actions \in Seq(Action)
    BY <1>1 DEF TypeOK, IsDisk
  <2>2. TypeOK'
    BY <1>1, <1>14, <2>1 DEF ReadPolicy, TypeOK
  <2>3. Behind' = 0 /\ Len(disk.actions) \in Nat
    BY <1>14, <2>1, LenProperties DEF ReadPolicy, Behind
  <2>4. answers' = {}
    BY <1>1, <1>14 DEF ReadPolicy
  <2>5. ActionsDone'
    <3>1. \A k \in DOMAIN actions' : 0 + k = k
      BY <1>14, <2>1 DEF ReadPolicy
    <3> QED BY <1>14, <2>3, <2>4, <3>1 DEF ReadPolicy, HasPolicy
  <2> QED BY <1>1, <1>3, <1>14, <2>2, <2>5 DEF ReadPolicy
<1>15. CASE NoPolicy
  BY <1>1, <1>3, <1>15 DEF NoPolicy, TypeOK, Asked, HasPolicy
<1>16. CASE ThrowOnAction
  <2>1. Asked("bad")'
    <3>1. actions \in Seq(Action) /\ disk.actions \in Seq(Action)
      BY <1>1 DEF TypeOK, IsDisk
    <3>2. Head(actions) = actions[1] /\ Len(actions) \in Nat \ {0} /\ 1 \in DOMAIN actions
      BY <1>16, <3>1, HeadTailProperties, EmptySeq DEF ThrowOnAction
    <3>3. disk.actions[Behind + 1] = "bad" /\ HasPolicy /\ Behind \in 0..Len(disk.actions)
      BY <1>1, <1>16, <3>2 DEF ThrowOnAction
    <3>4. Behind + 1 \in DOMAIN disk.actions
      BY <3>1, <3>2, <3>3 DEF Behind
    <3> QED BY <1>16, <3>3, <3>4 DEF ThrowOnAction, Asked, HasPolicy
  <2> QED BY <1>1, <1>3, <1>16, <2>1 DEF ThrowOnAction, TypeOK
<1>17. CASE Query
  <2>1. /\ actions' \in Seq(Action)
        /\ Behind' = Behind + 1 /\ Behind' \in 1..Len(disk.actions)
        /\ disk.actions[Behind'] = "query_reach"
        /\ \A k \in DOMAIN actions' : actions'[k] = disk.actions[Behind' + k]
    BY <1>17, ActionBehind DEF Query
  <2>2. TypeOK'
    BY <1>1, <1>17, <2>1 DEF Query, TypeOK
  <2>3. \A k \in 1..Behind' : k \in 1..Behind \/ k = Behind'
    BY <1>1, <1>17, <2>1 DEF Query
  <2>4. ActionsDone'
    BY <1>1, <1>17, <2>1, <2>3 DEF Query, HasPolicy
  <2> QED BY <1>1, <1>3, <1>17, <2>2, <2>4 DEF Query
<1>18. CASE Unsupported
  <2>1. /\ actions' \in Seq(Action)
        /\ Behind' = Behind + 1 /\ Behind' \in 1..Len(disk.actions)
        /\ disk.actions[Behind'] = "other"
        /\ \A k \in DOMAIN actions' : actions'[k] = disk.actions[Behind' + k]
    BY <1>18, ActionBehind DEF Unsupported
  <2>2. TypeOK'
    BY <1>1, <1>18, <2>1 DEF Unsupported, TypeOK
  <2>3. \A k \in 1..Behind' : k \in 1..Behind \/ k = Behind'
    BY <1>1, <1>18, <2>1 DEF Unsupported
  <2>4. 1..Behind \subseteq 1..Behind'
    BY <1>1, <1>18, <2>1 DEF Unsupported
  <2>5. ActionsDone'
    BY <1>1, <1>18, <2>1, <2>3, <2>4 DEF Unsupported, HasPolicy
  <2> QED BY <1>1, <1>3, <1>18, <2>2, <2>5 DEF Unsupported
<1>19. CASE EndActions
  <2>1. disk.actions \in Seq(Action) /\ Len(actions) = 0
    BY <1>1, <1>19 DEF EndActions, TypeOK, IsDisk
  <2>2. Behind = Len(disk.actions) /\ DOMAIN disk.actions = 1..Len(disk.actions)
    BY <2>1 DEF Behind
  <2> QED BY <1>1, <1>3, <1>19, <2>2 DEF EndActions, TypeOK, Asked, HasPolicy
<1>20. CASE Delete
  BY <1>1, <1>3, <1>20 DEF Delete, TypeOK, Asked, HasPolicy
<1>21. CASE UNCHANGED vars
  <2>1. Course'
    BY <1>1, <1>21 DEF vars, TypeOK
  <2>2. Causes'
    BY <1>1, <1>21 DEF vars, Built, Asked, HasPolicy, IdOf
  <2>3. ActionsDone'
    BY <1>1, <1>21 DEF vars, Asked, HasPolicy, Behind
  <2> QED BY <1>3, <1>21, <2>1, <2>2, <2>3 DEF vars
<1> QED BY <1>4, <1>5, <1>6, <1>7, <1>8, <1>9, <1>10, <1>11, <1>12, <1>13, <1>14, <1>15,
           <1>16, <1>17, <1>18, <1>19, <1>20, <1>21 DEF Next, Step, Stopped

\* The strengthening holds of every reachable state.
THEOREM Invariance == Spec => []IInv
<1>1. Init => IInv
  BY InitInvariant
<1>2. IInv /\ [Next]_vars => IInv'
  BY StepInvariant
<1> QED BY <1>1, <1>2, PTL DEF Spec

\* The variables keep their types.
THEOREM TypeCorrect == Spec => []TypeOK
<1>1. IInv => TypeOK
  BY DEF IInv, Course
<1> QED BY <1>1, Invariance, PTL

\* Whatever the order of the scan and the damage on the disk, no router is
\* built from another file's document, and no damaged file keeps an intact one
\* with an id of its own from being loaded.
THEOREM RoutersCorrect == Spec => []RoutersMatchFiles
<1>1. IInv => IntactFilesLoaded
  <2> SUFFICES ASSUME IInv, Scanned, NEW f \in DOMAIN disk.files,
                      disk.files[f].kind = "intact", disk.files[f].id > 0,
                      \A g \in DOMAIN disk.files \ {f} :
                        disk.files[g].kind \in Loadable =>
                          disk.files[g].id # disk.files[f].id
               PROVE  /\ disk.files[f].id \in DOMAIN id_to_router
                      /\ id_to_router[disk.files[f].id].file = f
    BY DEF IntactFilesLoaded
  <2>1. unread = {}
    BY DEF IInv, Course, Phases, Scanned
  <2>2. disk.files[f].id \in DOMAIN id_to_router
    BY <2>1 DEF IInv, IdsTaken, Returned, Readable, Loadable, Free
  <2>3. disk.files[id_to_router[disk.files[f].id].file].kind \in Loadable
    BY <2>2 DEF IInv, RoutersScanned, RulesReadable, Built, Readable, Scanned
  <2>4. id_to_router[disk.files[f].id].file = f
    BY <2>2, <2>3 DEF IInv, RoutersScanned, NoStaleRouter, Returned
  <2> QED BY <2>2, <2>4
<1>2. IInv => RoutersMatchFiles
  BY <1>1 DEF IInv, RoutersMatchFiles
<1> QED BY <1>2, Invariance, PTL

\* A run exits only if it had a network, scanned every rule file, read every
\* rule of every router, made the atoms and did every action; undefined
\* behaviour and exceptions end a run only at the places EndsTell names.
THEOREM EndsTold == Spec => []EndsTell
<1>1. ASSUME IInv, pc = "exited" PROVE ExitMeansDone
  <2>1. HasTopology /\ ap_bdd_list = "made" /\ disk.topology = "intact"
        /\ unread = {} /\ router_counter > 0
    BY <1>1 DEF IInv, Course, Phases
  <2>2. router_counter = Len(disk.files)
    <3>1. Cardinality(unread) = 0 /\ Cardinality(unread) + router_counter = Len(disk.files)
      BY <1>1, <2>1, FS_EmptySet DEF IInv, FilesCounted
    <3> QED BY <1>1, <3>1 DEF IInv, Course, TypeOK
  <2>3. \A f \in DOMAIN disk.files : disk.files[f].kind # "bad_id"
    BY <1>1, <2>1 DEF IInv, FilesCounted, Returned
  <2> QED BY <1>1, <2>1, <2>2, <2>3
          DEF ExitMeansDone, IInv, RulesReadable, ActionsDone
<1>2. IInv => EndsTell
  BY <1>1 DEF EndsTell, ExitMeansDone, IInv, Causes
<1> QED BY <1>2, Invariance, PTL

\* All queries of a run are answered with the routers that were loaded.
THEOREM AnswersCorrect == Spec => []AnswersAgree
<1>1. IInv => AnswersAgree
  BY DEF IInv, Course
<1> QED BY <1>1, Invariance, PTL
=============================================================================
