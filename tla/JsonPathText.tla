----------------------------- MODULE JsonPathText -----------------------------
(***************************************************************************)
(* Json::Path (jsoncpp.cpp): makePath splits the text of a path into the   *)
(* arguments of JsonPath.  A text is a sequence of characters; the member  *)
(* name a run of characters stands for is a rank, as in JsonTree.          *)
(***************************************************************************)
EXTENDS JsonPath

Digit == [c \in {"0", "1"} |-> IF c = "0" THEN 0 ELSE 1]
CharCode == [c \in {"[", "]", "%", ".", "0", "1", "a", "b"} |->
               CASE c = "a" -> 4 [] c = "b" -> 5 [] c = "]" -> 6 [] c = "[" -> 7
                 [] c = "%" -> 8 [] c = "." -> 9 [] c = "0" -> 10 [] OTHER -> 11]
NameKey(chars) == FoldLeft(LAMBDA key, c : 16 * key + CharCode[c], 0, chars)

\* The end of the run of characters of a set that begins at position i.
RECURSIVE RunEnd(_, _, _)
RunEnd(path, i, chars) ==
  IF i <= Len(path) /\ path[i] \in chars THEN RunEnd(path, i + 1, chars) ELSE i

Number(chars) == FoldLeft(LAMBDA n, c : 10 * n + Digit[c], 0, chars)

\* addPathInArg: only ever looks at the first of the five arguments, and
\* passes over one of another kind.
InArg(in, kind) == IF in[1].kind = kind THEN <<in[1]>> ELSE <<>>

\* makePath from position i on.  Behind '[' one character is skipped after
\* the index, whatever it is; after a parameter that is the '%' itself.
RECURSIVE Args(_, _, _)
Args(path, in, i) ==
  LET c == path[i]
      Past(j) == IF j > Len(path) THEN j ELSE j + 1
      digits == RunEnd(path, i + 1, DOMAIN Digit)
      name == RunEnd(path, i, DOMAIN CharCode \ {"[", "."})
  IN IF i > Len(path) THEN <<>>
     ELSE IF c = "[" /\ i < Len(path) /\ path[i + 1] = "%"
     THEN InArg(in, "index") \o Args(path, in, i + 2)
     ELSE IF c = "["
     THEN <<Index(Number(SubSeq(path, i + 1, digits - 1)))>>
          \o Args(path, in, Past(digits))
     ELSE IF c = "%" THEN InArg(in, "key") \o Args(path, in, i + 1)
     ELSE IF c = "." THEN Args(path, in, i + 1)
     ELSE <<Key(NameKey(SubSeq(path, i, name - 1)))>> \o Args(path, in, name)

Path(path, in) == Args(path, in, 1)
===============================================================================
