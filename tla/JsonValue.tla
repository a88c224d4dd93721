------------------------------- MODULE JsonValue -------------------------------
(***************************************************************************)
(* A program that edits one Json::Value x through references, as the       *)
(* loader of rule files and the JSON-RPC handler do, beside a second       *)
(* value y it copies from, to and swaps with.  Every operation of the      *)
(* class that changes a value, or hands out a reference into it, is an     *)
(* action; so is a walk with an iterator.                                  *)
(***************************************************************************)
EXTENDS JsonPath, PortList

CONSTANTS Roots,      \* the values x may have been constructed with
          Seconds,    \* those y may have been constructed with
          Scalars,    \* what is assigned and appended
          Members,    \* member names, as ranks
          MaxIndex,   \* bound on indexes
          MaxNodes,   \* bound on the nodes of x
          Kept,       \* the values y takes in the course of a run, a bound
          Paths       \* the arguments of the paths that are made

ASSUME ProgramAssumption ==
  /\ MaxIndex \in Nat /\ Members \subseteq Int
  /\ \A n \in Roots \cup Seconds \cup Scalars : WellFormed(n)
  /\ \A args \in Paths : args \in Seq([kind : {"index", "key"}, key : Int])
                        /\ \A i \in DOMAIN args : args[i].kind = "index" => args[i].key \in Nat

VARIABLES
  x, y,  \* two values
  ref,   \* a reference into x: the keys on the way from its root
  it,    \* an iterator over the node ref refers to
  st     \* "running", or how the program ended

vars == <<x, y, ref, it, st>>

\* The bounds on x: its nodes, and one comment in all of it.
Nodes(n) == Cardinality(DOMAIN n)
Commented(n) == Cardinality({p \in DOMAIN n : n[p].comments # NoComments})
Bounded(n) == Nodes(n) <= MaxNodes /\ Commented(n) <= 1

node == At(x, ref)

NoWalk == [on |-> FALSE, null |-> TRUE, cur |-> 1, seen |-> <<>>, assigned |-> FALSE]

Init ==
  /\ x \in Roots
  /\ y \in Seconds
  /\ ref = <<>>
  /\ it = NoWalk
  /\ st = "running"

Editing == st = "running" /\ ~it.on

\* An assertion fails and the process ends.
Fail(why) == st' = why /\ UNCHANGED <<x, y, ref, it>>

\* The node becomes n, and the reference to its child k is returned.
Store(n) ==
  /\ Bounded(Put(x, ref, n))
  /\ x' = Put(x, ref, n)
  /\ UNCHANGED <<y, ref, it, st>>
StoreAndEnter(n, k) ==
  /\ Bounded(Put(x, ref, n))
  /\ x' = Put(x, ref, n)
  /\ ref' = Append(ref, k)
  /\ UNCHANGED <<y, it, st>>

\* operator[]( ArrayIndex )
Subscript(i) ==
  /\ Editing
  /\ IF isArray(node)
     THEN StoreAndEnter(WithChild(Opened(node, arrayValue), i), i)
     ELSE Fail("type assertion")

\* operator[]( const char * ): resolveReference
Member(k) ==
  /\ Editing
  /\ IF isObject(node)
     THEN StoreAndEnter(WithChild(Opened(node, objectValue), k), k)
     ELSE Fail("type assertion")

\* The reference at the root again.
Leave == Editing /\ ref # <<>> /\ ref' = <<>> /\ UNCHANGED <<x, y, it, st>>

\* append: (*this)[size()] = value.  Appended to itself, a value is copied
\* when it has the new element already.
Appended(n, m, itself) ==
  LET wide == WithChild(Opened(n, arrayValue), Size(n))
      last == <<Size(n)>>
  IN Put(wide, last, Assigned(At(wide, last), IF itself THEN wide ELSE m))

AppendTo(m, itself) ==
  /\ Editing
  /\ IF isArray(node)
     THEN Size(node) <= MaxIndex /\ Store(Appended(node, m, itself))
     ELSE Fail("type assertion")

Assign(m) == Editing /\ Store(Assigned(node, m))

\* A container replaced by a copy of its own child.
AssignChild(k) == Editing /\ isMember(node, k) /\ Store(Assigned(node, Child(node, k)))

SwapSecond ==
  /\ Editing
  /\ Swapped(y, node) \in Kept
  /\ Bounded(Put(x, ref, y))
  /\ x' = Put(x, ref, Swapped(node, y))
  /\ y' = Swapped(y, node)
  /\ UNCHANGED <<ref, it, st>>

\* y is constructed again from the node, comments included.
CopyToSecond ==
  /\ Editing /\ Copy(node) \in Kept
  /\ y' = Copy(node)
  /\ UNCHANGED <<x, ref, it, st>>

\* y = get( key, default )
GetToSecond(k, default) ==
  /\ Editing
  /\ IF isArray(node) \/ isObject(node)
     THEN /\ Assigned(y, Get(node, k, default)) \in Kept
          /\ y' = Assigned(y, Get(node, k, default))
          /\ UNCHANGED <<x, ref, it, st>>
     ELSE Fail("type assertion")

\* removeMember: the member is copied, erased and returned.
removeMember(k) ==
  /\ Editing
  /\ IF isObject(node)
     THEN /\ Copy(Child(node, k)) \in Kept
          /\ x' = Put(x, ref, Only(node, Kids(node) \ {k}))
          /\ y' = Copy(Child(node, k))
          /\ UNCHANGED <<ref, it, st>>
     ELSE Fail("type assertion")

clear ==
  /\ Editing
  /\ IF isArray(node) \/ isObject(node)
     THEN Store(Only(node, {})) ELSE Fail("type assertion")

\* resize to more elements: only the last one is created.
Widened(n, size) == WithChild(n, size - 1)

\* resize to fewer: the elements from the new size on are erased one by one.
Cut(n, size) == Only(n, {i \in Kids(n) : i < size})

\* resize: after a cut an assertion compares size() with what was asked for.
resize(size) ==
  LET n == Opened(node, arrayValue)
  IN /\ Editing
     /\ IF ~isArray(node) THEN Fail("type assertion")
        ELSE IF size = 0 \/ size > Size(n)
        THEN Store(IF size = 0 THEN Only(n, {}) ELSE Widened(n, size))
        ELSE IF Size(Cut(n, size)) = size THEN Store(Cut(n, size)) ELSE Fail("resize assertion")

\* setComment, on the line before; the other places are alike.
setComment(text) == Editing /\ Store([node EXCEPT ![<<>>].comments[commentBefore] = <<text>>])

\* Path( path ).make( root )
Make(args) ==
  /\ Editing
  /\ IF CanMake(node, args)
     THEN /\ Bounded(Put(x, ref, Made(node, args)))
          /\ x' = Put(x, ref, Made(node, args))
          /\ ref' = ref \o ArgKeys(args)
          /\ UNCHANGED <<y, it, st>>
     ELSE Fail("type assertion")

-----------------------------------------------------------------------------
(***************************************************************************)
(* begin(), end() and the iterators.  An iterator that was declared first  *)
(* and assigned begin() afterwards has copied the position, but not        *)
(* whether it is an iterator of a null value.                              *)
(***************************************************************************)
End == [null |-> type_(node) \notin Containers, cur |-> Cardinality(Kids(node)) + 1]

\* isEqual
AtEnd == IF it.null THEN End.null ELSE it.cur = End.cur

\* Mutant: begin() of an empty container takes the iterator without a map.
BeginWalk_Empty(assigned) ==
  /\ Editing
  /\ it' = [on |-> TRUE, null |-> assigned \/ Kids(node) = {}, cur |-> 1,
            seen |-> <<>>, assigned |-> assigned]
  /\ UNCHANGED <<x, y, ref, st>>

BeginWalk(assigned) ==
  /\ Editing
  /\ it' = [on |-> TRUE, null |-> assigned \/ type_(node) \notin Containers, cur |-> 1,
            seen |-> <<>>, assigned |-> assigned]
  /\ UNCHANGED <<x, y, ref, st>>

\* Dereferencing and incrementing; at the end of the map that is undefined.
StepWalk ==
  /\ st = "running" /\ it.on /\ ~AtEnd
  /\ IF it.cur = End.cur THEN Fail("overrun")
     ELSE /\ it' = [it EXCEPT !.cur = @ + 1, !.seen = Append(@, Keys(node)[it.cur])]
          /\ UNCHANGED <<x, y, ref, st>>

EndWalk ==
  /\ st = "running" /\ it.on /\ AtEnd
  /\ it' = NoWalk
  /\ UNCHANGED <<x, y, ref, st>>

-----------------------------------------------------------------------------
Stopped == st # "running" /\ UNCHANGED vars

Next ==
  \/ \E i \in 0..MaxIndex : Subscript(i) \/ resize(i)
  \/ \E k \in Members : Member(k) \/ removeMember(k)
  \/ \E k \in Members \cup 0..MaxIndex : AssignChild(k)
  \/ \E m \in Scalars : Assign(m) \/ AppendTo(m, FALSE)
  \/ \E k \in Members, m \in Scalars : GetToSecond(k, m)
  \/ AppendTo(Null, TRUE)
  \/ SwapSecond \/ CopyToSecond \/ clear \/ Leave
  \/ setComment(TrueText)
  \/ \E args \in Paths : Make(args)
  \/ \E assigned \in BOOLEAN : BeginWalk(assigned)
  \/ StepWalk \/ EndWalk
  \/ Stopped

Spec == Init /\ [][Next]_vars

-----------------------------------------------------------------------------
(***************************************************************************)
(* Properties.                                                             *)
(***************************************************************************)

\* Every variable holds a value of its type; the union of a value is read
\* as what it was written as, and the reference leads to a node.
TypeOK ==
  /\ WellFormed(x) /\ WellFormed(y)
  /\ ref \in DOMAIN x
  /\ it \in [on : BOOLEAN, null : BOOLEAN, cur : Nat, seen : Seq(Int), assigned : BOOLEAN]
  /\ it.cur <= End.cur
  /\ st \in {"running", "type assertion", "resize assertion", "overrun"}

\* A conversion gives the number itself, cut towards zero if it was a real,
\* or says that it cannot; only asInt64 and asUInt64 of a real beyond the
\* 32-bit range do neither, because the code casts to the shorter type.
ExactOrRefused ==
  LET number == IF type_(node) = realValue THEN Truncated(value_(node)) ELSE value_(node)
      Exact(got) == got.outcome = "returns" => got.v = number
  IN /\ \A got \in {asInt(node), asUInt(node), asInt64(node), asUInt64(node)} : Exact(got)
     /\ "undefined" \notin {asInt(node).outcome, asUInt(node).outcome}
     /\ asInt64(node).outcome = "undefined" =>
          type_(node) = realValue /\ number \notin MinInt..MaxInt
     /\ asUInt64(node).outcome = "undefined" =>
          type_(node) = realValue /\ number \notin 0..MaxUInt

\* What isConvertibleTo promises the widest conversion keeps, except that
\* numbers are said to convert to strings and asString throws.
PromisesKept ==
  /\ isConvertibleTo(node, intValue) => asInt64(node).outcome = "returns"
  /\ isConvertibleTo(node, uintValue) => asUInt64(node).outcome = "returns"
  /\ isConvertibleTo(node, realValue) => asDouble(node).outcome = "returns"
  /\ isConvertibleTo(node, stringValue) =>
       (asString(node).outcome = "returns" <=> type_(node) \notin Numbers)
  /\ isConvertibleTo(node, nullValue) => ~asBool(node).v

\* The conversions as* and isConvertibleTo agree with each other and with the
\* number: no conversion returns another number, and none that was promised
\* throws, but for the two slips named in the parts.
ConversionsHonest == ExactOrRefused /\ PromisesKept

\* A path that can be made leads, when it is resolved, to the node that was
\* made, and what the value held before is all still there: the only nodes
\* that change are nulls on the way, which turn into containers.  Whatever
\* resolving with a default finds, resolving without one finds as well.
MadePathsResolve ==
  \A args \in Paths :
    /\ CanMake(x, args) =>
         LET made == Made(x, args)
             way == {SubSeq(ArgKeys(args), 1, i - 1) : i \in DOMAIN args}
         IN /\ Resolve(made, args) = Found(At(made, ArgKeys(args)))
            /\ \A p \in DOMAIN x :
                 /\ p \in DOMAIN made
                 /\ made[p] = x[p] \/ (x[p].type = nullValue /\ p \in way)
    /\ ResolveOr(x, args).outcome = "found" => Resolve(x, args) = ResolveOr(x, args)

\* A walk that comes to its end has met every child once, in the order of the
\* keys, and a walk with an iterator constructed from begin() does not run
\* past its end, be the value a container, empty, or neither.
WalksMeetAll ==
  /\ it.on /\ AtEnd => it.seen = Keys(node)
  /\ it.on /\ ~it.assigned => st # "overrun"

\* The port list of an array of ports is the array in ascending order, as
\* long as its ports lie within the positive range of an int of each other;
\* an absent element becomes port 0.
PortsSorted ==
  type_(x) = arrayValue =>
    \A l \in val_to_list(x) :
      /\ \A i \in 0..(Size(x) - 1) :
           asUInt(Child(x, i)).v \in ToSet(l)
      /\ Len(l) = Size(x)
      /\ (\A a, b \in ToSet(l) : a - b <= MaxInt) =>
           \A i \in 1..(Len(l) - 1) : l[i] <= l[i + 1]
=============================================================================
