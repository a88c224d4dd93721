---------------------------- MODULE MCJsonDocument ----------------------------
(***************************************************************************)
(* Documents of up to five tokens, and every edit of three longer ones;    *)
(* numbers on both sides of the limits of five bits, and values that only  *)
(* a program can build.                                                    *)
(***************************************************************************)
EXTENDS JsonDocument

One == Number(FALSE, FALSE, <<1>>)
Str(k) == Token("string", <<k>>)
S(t) == Token(t, <<>>)

MCTokens == {S(t) : t \in {"{", "}", "[", "]", ",", ":", "bad"}} \cup {Str(EmptyText), Str(4), One}
C(id) == Token("comment", <<id>>)
MCSamples ==
  {\* {"a" : 1 /*1*/, "" : [1, {}] /*2*/}
   <<S("{"), Str(4), S(":"), One, C(101), S(","), Str(1), S(":"), S("["), One, S(","),
     S("{"), S("}"), S("]"), C(102), S("}")>>,
   \* [["a", 1], /*1*/ /*2*/ {"a" : []}] /*3*/
   <<S("["), S("["), Str(4), S(","), One, S("]"), S(","), Newline, C(101), C(102),
     S("{"), Str(4), S(":"), S("["), S("]"), S("}"), S("]"), C(103)>>,
   \* {"" : {"a" : ""}, /*1*/ "b" : 1}
   <<S("{"), Str(1), S(":"), S("{"), Str(4), S(":"), Str(1), S("}"), S(","), Newline, C(101),
     Str(5), S(":"), One, S("}")>>}
MCNumerals ==
  {Number(neg, FALSE, d) : neg \in BOOLEAN, d \in {<<a>> : a \in 0..9}
                                               \cup {<<a, b>> : a, b \in {0, 1, 2, 3, 4, 6, 7, 9}}}
  \cup {Number(TRUE, FALSE, <<>>), Number(FALSE, TRUE, <<>>), Number(TRUE, TRUE, <<3>>), S("string"),
        Token("literal", <<nullValue, 0>>), Token("literal", <<booleanValue, 1>>)}
Array(s) == Filled(New(arrayValue), [i \in 0..(Len(s) - 1) |-> s[i + 1]])
Object(members) == Filled(New(objectValue), members)
MCBytes == {1, 10, 31, QuoteMark, 47, 48, Backslash, 110, LetterU, 200}
MCTexts == {<<>>} \cup UNION {[1..n -> MCBytes] : n \in 1..3}
MCCodePoints ==
  {0, 1, 127, 128, 2047, 2048, 55295, 55296, 56319, 56320, 57344, 65535, 65536, 1114111}
Older(n) == [n EXCEPT ![<<>>].comments = [p \in Places |-> <<90 + p>>]]
MCRoots == {Null, Older(Array(<<Older(Scalar(intValue, 5)), Scalar(intValue, 5)>>))}
Noted(n, p) == [n EXCEPT ![<<>>].comments[p] = <<1>>]
MCValues ==
  LET u == Scalar(uintValue, 9)
      i == Scalar(intValue, -3)
      flat == Array(<<u, i>>)
      hole == Filled(New(arrayValue), 1 :> Scalar(realValue, 4))
  IN {flat, hole, Object(4 :> hole), Array(<<u, i, Noted(u, commentBefore)>>),
      Array(<<flat, Noted(hole, commentAfter)>>), Object(1 :> Noted(i, commentAfter)),
      Object(1 :> Noted(flat, commentAfterOnSameLine) @@ 4 :> u),
      Object(1 :> u @@ 4 :> Noted(hole, commentBefore))}
===============================================================================
