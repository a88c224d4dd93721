------------------------------- MODULE JsonTree -------------------------------
(***************************************************************************)
(* Json::Value (jsoncpp.cpp, json.h): what a value is, how it is copied,   *)
(* and what its conversions give.  A value is a tree; it is a function     *)
(* from paths, the sequences of keys that lead from its root to a node, to *)
(* nodes                                                                   *)
(*   type      type_, the ValueType, in the order of the enum              *)
(*   v         value_: an integer, a real in halves, a Boolean as 0 or 1,  *)
(*             or the rank of a text in the order of strcmp, NoText for    *)
(*             the null pointer                                            *)
(*   heap      whether value_.string_ points to text of its own            *)
(*             (allocated_) and not to a StaticString                      *)
(*   comments  of each of its comments, the comment texts joined in it,    *)
(*             none if there is no comment                                 *)
(* so that value_.map_ is what lies at the longer paths.  A key is an      *)
(* index of an array or the rank of the name of a member of an object.  An *)
(* array need not have all the indexes below its last.                     *)
(***************************************************************************)
EXTENDS Integers, Sequences, FiniteSets, SequencesExt

CONSTANTS IntLimit,      \* one above the largest Int, 2^31 in the code
          LargestLimit   \* one above the largest LargestInt, 2^63

ASSUME LimitAssumption ==
  IntLimit \in Nat \ {0} /\ LargestLimit \in Nat /\ LargestLimit >= 2 * IntLimit

MaxInt == IntLimit - 1
MinInt == -IntLimit
MaxUInt == 2 * IntLimit - 1
MaxInt64 == LargestLimit - 1
MinInt64 == -LargestLimit
MaxUInt64 == 2 * LargestLimit - 1

nullValue == 0
intValue == 1
uintValue == 2
realValue == 3
stringValue == 4
booleanValue == 5
arrayValue == 6
objectValue == 7
ValueTypes == 0..7
Containers == {arrayValue, objectValue}
Numbers == {intValue, uintValue, realValue}

NoText == 0
EmptyText == 1
FalseText == 2
TrueText == 3

commentBefore == 0
commentAfterOnSameLine == 1
commentAfter == 2
Places == {commentBefore, commentAfterOnSameLine, commentAfter}
NoComments == [p \in Places |-> <<>>]

\* The constructors: Value( ValueType ), with the default of the type, and
\* those from a C++ value.  Only texts are on the heap.
Node(type, v) ==
  [type |-> type, v |-> v, heap |-> type = stringValue /\ v # NoText, comments |-> NoComments]
Scalar(type, v) == [p \in {<<>>} |-> Node(type, v)]
New(type) == Scalar(type, 0)
Static(text) == [Scalar(stringValue, text) EXCEPT ![<<>>].heap = FALSE]

type_(n) == n[<<>>].type
value_(n) == n[<<>>].v

\* Value( const Value & ): every text of the copy is its own.
Copy(n) == [p \in DOMAIN n |-> [n[p] EXCEPT !.heap = n[p].type = stringValue /\ n[p].v # NoText]]

\* Mutant: the type is swapped without the map.
Swapped_NoMap(n, m) ==
  [n EXCEPT ![<<>>].type = type_(m), ![<<>>].v = value_(m), ![<<>>].heap = m[<<>>].heap]

\* n = m: a copy is swapped in, and swap leaves the comments where they are.
Swapped(n, m) == [m EXCEPT ![<<>>].comments = n[<<>>].comments]
Assigned(n, m) == Swapped(n, Copy(m))

\* The keys of value_.map_, and in the order of std::map.
Kids(n) == {p[1] : p \in {q \in DOMAIN n : Len(q) = 1}}
Keys(n) ==
  [i \in 1..Cardinality(Kids(n)) |->
     CHOOSE k \in Kids(n) : Cardinality({j \in Kids(n) : j < k}) = i - 1]

\* Mutant: containers by the number of their elements.
Equal_Sizes(a, b) ==
  type_(a) = type_(b) /\ value_(a) = value_(b) /\ Cardinality(Kids(a)) = Cardinality(Kids(b))

\* operator ==: comments and the ownership of texts do not count.
Equal(a, b) ==
  /\ DOMAIN a = DOMAIN b
  /\ \A p \in DOMAIN a : a[p].type = b[p].type /\ a[p].v = b[p].v

\* size(): of an array, its highest index + 1.
Size(n) ==
  IF type_(n) = arrayValue /\ Kids(n) # {} THEN Max(Kids(n)) + 1 ELSE Cardinality(Kids(n))

isArray(n) == type_(n) \in {nullValue, arrayValue}
isObject(n) == type_(n) \in {nullValue, objectValue}
isNumeric(n) == type_(n) \in Numbers \cup {booleanValue}
Empty(n) == (isArray(n) \/ isObject(n)) /\ Size(n) = 0
isValidIndex(n, i) == i < Size(n)

\* The node a path leads to, with what is below it; and m in its place.
Behind(p, q) == SubSeq(q, Len(p) + 1, Len(q))
At(n, p) == [q \in {Behind(p, q) : q \in {r \in DOMAIN n : IsPrefix(p, r)}} |-> n[p \o q]]
Put(n, p, m) ==
  [q \in {r \in DOMAIN n : ~IsPrefix(p, r)} \cup {p \o r : r \in DOMAIN m} |->
     IF IsPrefix(p, q) THEN m[Behind(p, q)] ELSE n[q]]

\* The const operator[] of both kinds: an absent child reads as the one
\* Value::null, which get, isMember and resolve recognise by its address.
Null == New(nullValue)
isMember(n, k) == k \in Kids(n)
Child(n, k) == IF isMember(n, k) THEN At(n, <<k>>) ELSE Null

\* Mutant: a null is inserted over the entry lower_bound finds.
WithChild_Overwrites(n, k) == Put(n, <<k>>, Null)

\* The entry lower_bound finds, or a null inserted there.
WithChild(n, k) == IF isMember(n, k) THEN n ELSE Put(n, <<k>>, Null)

Get(n, k, default) == Copy(IF isMember(n, k) THEN At(n, <<k>>) ELSE default)

\* The map with the children of some keys only, and with other children.
Only(n, keys) == [p \in {q \in DOMAIN n : q = <<>> \/ Head(q) \in keys} |-> n[p]]
Filled(n, kids) ==
  [p \in {<<>>} \cup UNION {{<<k>> \o q : q \in DOMAIN kids[k]} : k \in DOMAIN kids} |->
     IF p = <<>> THEN n[p] ELSE kids[Head(p)][Tail(p)]]

\* What the union value_ holds when it is read as what it was written as.
ValuesOf(type) ==
  CASE type = intValue -> MinInt64..MaxInt64
    [] type = uintValue -> 0..MaxUInt64
    [] type = realValue -> Int
    [] type = stringValue -> Nat
    [] type = booleanValue -> {0, 1}
    [] OTHER -> {0}

NodeOK(c) ==
  /\ c \in [type : ValueTypes, v : Int, heap : BOOLEAN, comments : [Places -> Seq(Nat)]]
  /\ c.v \in ValuesOf(c.type)
  /\ c.heap => c.type = stringValue /\ c.v # NoText

\* Every node but the root is a child of an array or an object.
WellFormed(n) ==
  /\ n = [p \in DOMAIN n |-> n[p]]
  /\ IsFiniteSet(DOMAIN n) /\ DOMAIN n \subseteq Seq(Int)
  /\ <<>> \in DOMAIN n
  /\ \A p \in DOMAIN n : NodeOK(n[p])
  /\ \A p \in DOMAIN n \ {<<>>} :
       /\ Front(p) \in DOMAIN n
       /\ n[Front(p)].type \in Containers
       /\ n[Front(p)].type = arrayValue => Last(p) \in Nat

-----------------------------------------------------------------------------
(***************************************************************************)
(* Conversions.  They return, throw std::runtime_error, or evaluate a cast *)
(* that C++ leaves undefined.                                              *)
(***************************************************************************)

Returns(v) == [outcome |-> "returns", v |-> v]
Throws == [outcome |-> "throws", v |-> 0]
Undefined == [outcome |-> "undefined", v |-> 0]

Truncated(halves) == IF halves >= 0 THEN halves \div 2 ELSE -((-halves) \div 2)

\* A real is compared with the range lo..hi of the result but always cast to
\* the 32-bit range clo..chi.
AsInteger(n, lo, hi, clo, chi) ==
  CASE type_(n) \in {nullValue, booleanValue} -> Returns(value_(n))
    [] type_(n) \in {intValue, uintValue} ->
         IF value_(n) \in lo..hi THEN Returns(value_(n)) ELSE Throws
    [] type_(n) = realValue ->
         IF value_(n) \notin (2 * lo)..(2 * hi) THEN Throws
         ELSE IF Truncated(value_(n)) \in clo..chi THEN Returns(Truncated(value_(n)))
         ELSE Undefined
    [] OTHER -> Throws

\* Mutant: the range is not tested.
asUInt_Untested(n) == AsInteger(n, 0, MaxUInt64, 0, MaxUInt)

asInt(n) == AsInteger(n, MinInt, MaxInt, MinInt, MaxInt)
asUInt(n) == AsInteger(n, 0, MaxUInt, 0, MaxUInt)
asInt64(n) == AsInteger(n, MinInt64, MaxInt64, MinInt, MaxInt)
asUInt64(n) == AsInteger(n, 0, MaxUInt64, 0, MaxUInt)

\* In halves; the rounding of large integers is left out.
asDouble(n) ==
  CASE type_(n) = realValue -> Returns(value_(n))
    [] type_(n) \in {nullValue, booleanValue, intValue, uintValue} -> Returns(2 * value_(n))
    [] OTHER -> Throws

asBool(n) ==
  Returns(CASE type_(n) = stringValue -> value_(n) > EmptyText
            [] type_(n) \in Containers -> Kids(n) # {}
            [] OTHER -> value_(n) # 0)

asString(n) ==
  CASE type_(n) \in {nullValue, stringValue} ->
         Returns(IF value_(n) = NoText THEN EmptyText ELSE value_(n))
    [] type_(n) = booleanValue -> Returns(IF value_(n) = 1 THEN TrueText ELSE FalseText)
    [] OTHER -> Throws

isConvertibleTo(n, other) ==
  CASE type_(n) = nullValue -> TRUE
    [] type_(n) \in {intValue, uintValue, realValue, booleanValue} ->
         \/ other = nullValue /\ value_(n) = 0
         \/ other \in {realValue, stringValue, booleanValue}
         \/ other = type_(n)
         \/ /\ other = intValue
            /\ \/ type_(n) = uintValue /\ value_(n) <= MaxInt
               \/ type_(n) = realValue /\ value_(n) \in (2 * MinInt)..(2 * MaxInt)
               \/ type_(n) = booleanValue
         \/ /\ other = uintValue
            /\ \/ type_(n) = intValue /\ value_(n) >= 0
               \/ type_(n) = realValue /\ value_(n) \in 0..(2 * MaxUInt)
               \/ type_(n) = booleanValue
    [] type_(n) = stringValue ->
         other = stringValue \/ (other = nullValue /\ value_(n) <= EmptyText)
    [] OTHER -> other = type_(n) \/ (other = nullValue /\ Kids(n) = {})
=============================================================================
