------------------------------- MODULE JsonPath -------------------------------
(***************************************************************************)
(* Json::Path (jsoncpp.cpp): a path is a sequence of arguments, which      *)
(* resolve follows through a value and make follows creating what is       *)
(* missing.  The loops over the arguments are functions from the number of *)
(* arguments that have been followed.                                      *)
(***************************************************************************)
EXTENDS JsonTree

\* PathArgument
None == [kind |-> "none", key |-> 0]
Index(i) == [kind |-> "index", key |-> i]
Key(name) == [kind |-> "key", key |-> name]

ArgKeys(args) == [i \in DOMAIN args |-> args[i].key]

\* operator[] of the argument's kind asserts the type of the node.
Fits(node, arg) == IF arg.kind = "index" THEN isArray(node) ELSE isObject(node)

Found(node) == [outcome |-> "found", node |-> node]
Default == [outcome |-> "default", node |-> Null]
Asserts == [outcome |-> "asserts", node |-> Null]

\* Path::resolve( root ): goes on where it says it cannot resolve.
Resolve(root, args) ==
  LET step[i \in 0..Len(args)] ==
        IF i = 0 THEN Found(root)
        ELSE IF step[i - 1].outcome # "found" THEN step[i - 1]
        ELSE IF ~Fits(step[i - 1].node, args[i]) THEN Asserts
        ELSE Found(Child(step[i - 1].node, args[i].key))
  IN step[Len(args)]

\* Path::resolve( root, defaultValue ): an index is refused when it is valid.
Refused(node, arg) ==
  \/ ~Fits(node, arg)
  \/ arg.kind = "index" /\ isValidIndex(node, arg.key)
  \/ arg.kind = "key" /\ ~isMember(node, arg.key)

ResolveOr(root, args) ==
  LET step[i \in 0..Len(args)] ==
        IF i = 0 THEN Found(root)
        ELSE IF step[i - 1].outcome # "found" THEN step[i - 1]
        ELSE IF Refused(step[i - 1].node, args[i]) THEN Default
        ELSE Found(Child(step[i - 1].node, args[i].key))
  IN step[Len(args)]

\* Null turns into the container an operation needs, by assignment.
Opened(n, type) == IF type_(n) = nullValue THEN Assigned(n, New(type)) ELSE n

\* Path::make( root )
CanMake(root, args) == Resolve(root, args).outcome = "found"

ContainerOf(arg) == IF arg.kind = "index" THEN arrayValue ELSE objectValue

Made(root, args) ==
  LET step[i \in 0..Len(args)] ==
        IF i = 0 THEN root
        ELSE LET there == SubSeq(ArgKeys(args), 1, i - 1)
                 node == At(step[i - 1], there)
             IN Put(step[i - 1], there,
                    WithChild(Opened(node, ContainerOf(args[i])), args[i].key))
  IN step[Len(args)]
=============================================================================
