------------------------------ MODULE MCJsonValue ------------------------------
(***************************************************************************)
(* Three-bit Int and four-bit LargestInt, with numbers on both sides of    *)
(* every boundary; trees of up to four nodes, sparse arrays, a list of     *)
(* ports too far apart for compare; paths of each documented form.         *)
(***************************************************************************)
EXTENDS JsonOrder, JsonPathText

Array(s) == Filled(New(arrayValue), [i \in 0..(Len(s) - 1) |-> s[i + 1]])
UInts(s) == Array([i \in DOMAIN s |-> Scalar(uintValue, s[i])])

MCRoots ==
  {Null, Scalar(stringValue, EmptyText), Scalar(booleanValue, 1),
   UInts(<<3, 0, 6>>), UInts(<<2, 0, 3>>)}
  \cup {Scalar(intValue, i) : i \in {-5, -4, -1, 3, 5}}
  \cup {Scalar(uintValue, i) : i \in {3, 5, 9}}
  \cup {Scalar(realValue, h) : h \in {-12, -1, 5, 12, 20}}
Commented1(n) == [n EXCEPT ![<<>>].comments[commentBefore] = <<TrueText>>]
MCSeconds == {Null, Commented1(Static(4))}
MCKept ==
  LET plain == {Null, Static(4), Scalar(stringValue, 4), New(arrayValue)}
  IN plain \cup {Commented1(n) : n \in plain}
MCScalars == {Scalar(uintValue, 6), Scalar(stringValue, 4)}
MCPaths ==
  {Path(p, <<a>>) : p \in {<<".">>, <<".", "a", "[", "1", "]">>, <<".", "[", "0", "]", "[", "1", "]">>,
                           <<".", "b", ".", "a">>, <<".", "%">>, <<".", "[", "%", "]">>},
                    a \in {Index(0), Key(4)}}
===============================================================================
