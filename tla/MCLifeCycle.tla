------------------------------ MODULE MCLifeCycle ------------------------------
(***************************************************************************)
(* Every command line of at most three arguments, and longer ones with     *)
(* both run options; a directory with up to three rule files, of which any *)
(* may be damaged and two may share an id; a policy with a query before    *)
(* and after an action that is not supported, or one that is damaged.      *)
(***************************************************************************)
EXTENDS LifeCycle

MCArguments == {"--load", "--action", "--help", "--hdr-len", "-detailed", "dir", "file"}
MCShortLines == UNION {[1..n -> MCArguments] : n \in 0..3}
MCLongLines == {<<"--load", "dir", "--action", "file">>,
                <<"--action", "file", "--load", "dir", "--help">>,
                <<"--load", "dir", "-detailed", "--action", "file">>,
                <<"--load", "dir", "--help", "--action", "file">>,
                <<"--load", "--action", "file", "--load", "dir">>}

MCFile == [kind : Loadable \cup Ruined, id : 0..2] \cup
          [kind : {"nothing", "bad_id"}, id : {0}]
MCDirs == UNION {[1..n -> MCFile] : n \in 0..2}
MCLongDirs == [1..3 -> {file \in MCFile : file.kind \in Ruined => file.id = 1}]
MCFewDirs == {<<>>, <<[kind |-> "intact", id |-> 1]>>}
MCActions == {<<"query_reach", "other", "query_reach">>, <<"other">>, <<"query_reach", "bad">>}

MCDisk(topologies, dirs, exists) ==
  [topology : topologies, files : dirs, policy : exists, actions : MCActions]

MCRuns ==
  [args : MCShortLines, disk : MCDisk({"absent", "intact", "bad"}, MCFewDirs, BOOLEAN)] \cup
  [args : MCLongLines, disk : MCDisk({"intact", "bad"}, MCDirs, {TRUE})] \cup
  [args : {l \in MCLongLines : l[2] = "dir"},
   disk : [topology : {"intact"}, files : MCLongDirs, policy : {TRUE}, actions : {<<"query_reach">>}]]
=============================================================================
