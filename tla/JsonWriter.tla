------------------------------ MODULE JsonWriter ------------------------------
(***************************************************************************)
(* Json::FastWriter, StyledWriter and StyledStreamWriter (jsoncpp.cpp) as  *)
(* functions from values to the documents of JsonReader.  Indentation is   *)
(* left out, and with it all in which the two styled writers differ; line  *)
(* breaks are kept where they come before a comment.                       *)
(***************************************************************************)
EXTENDS JsonReader

CONSTANT RightMargin  \* rightMargin_, every value counted as one character

\* valueToString, valueToQuotedString: the digits of a number in the order
\* written; an integral real keeps its point.
RECURSIVE Digits(_)
Digits(n) == IF n < 10 THEN <<n>> ELSE Append(Digits(n \div 10), n % 10)

Absolute(v) == IF v < 0 THEN -v ELSE v
Text(n) ==
  CASE type_(n) \in {intValue, uintValue} -> Number(value_(n) < 0, FALSE, Digits(Absolute(value_(n))))
    [] type_(n) = realValue -> Number(value_(n) < 0, TRUE, Digits(Absolute(value_(n)) \div 2))
    [] type_(n) = stringValue -> Token("string", <<value_(n)>>)
    [] OTHER -> Token("literal", <<type_(n), value_(n)>>)

Symbol(t) == <<Token(t, <<>>)>>

\* Mutant: only the elements that are there.
Children_Present(n) == Keys(n)

\* The members of an object, or the elements of an array with null for those
\* that are absent, in order.
Children(n) == IF type_(n) = objectValue THEN Keys(n) ELSE [i \in 1..Size(n) |-> i - 1]

\* The texts one after the other, with a comma between them.
Listed(texts) ==
  FoldLeft(LAMBDA list, text : list \o (IF list = <<>> THEN <<>> ELSE Symbol(",")) \o text,
           <<>>, texts)

Name(n, k) == IF type_(n) = objectValue THEN <<Token("string", <<k>>)>> \o Symbol(":") ELSE <<>>
Enclosed(n, text) ==
  IF type_(n) = objectValue THEN Symbol("{") \o text \o Symbol("}") ELSE Symbol("[") \o text \o Symbol("]")

\* FastWriter
RECURSIVE FastText(_)
FastText(n) ==
  LET kids == Children(n)
  IN IF type_(n) \notin Containers THEN <<Text(n)>>
     ELSE Enclosed(n, Listed([i \in DOMAIN kids |-> Name(n, kids[i]) \o FastText(Child(n, kids[i]))]))

-----------------------------------------------------------------------------
\* A text of several joined comments has each of them on a line of its own.
CommentText(text) ==
  FoldLeft(LAMBDA lines, c :
             lines \o (IF lines = <<>> THEN <<>> ELSE <<Newline>>) \o <<Token("comment", <<c>>)>>,
           <<>>, text)

\* writeCommentBeforeValue: begins on the line that is being written.
Before(n) ==
  IF n[<<>>].comments[commentBefore] = <<>> THEN <<>>
  ELSE CommentText(n[<<>>].comments[commentBefore]) \o <<Newline>>

\* writeCommentAfterValueOnSameLine
After(n) ==
  LET after == n[<<>>].comments[commentAfter]
  IN CommentText(n[<<>>].comments[commentAfterOnSameLine])
     \o (IF after = <<>> THEN <<>> ELSE <<Newline>> \o CommentText(after) \o <<Newline>>)

\* isMultineArray: that an element has a comment makes no difference, as the
\* code combines it with && instead of ||.
isMultineArray(n) ==
  \/ 3 * Size(n) >= RightMargin
  \/ \E i \in Kids(n) : type_(Child(n, i)) \in Containers /\ Size(Child(n, i)) > 0
  \/ 4 + 2 * (Size(n) - 1) + Size(n) >= RightMargin

OnOneLine(n) == type_(n) = arrayValue /\ ~isMultineArray(n)

\* One child of a container over several lines: the comma comes before the
\* comment on the same line.
ChildText(n, i, kids, text) ==
  Before(Child(n, kids[i])) \o <<Newline>> \o Name(n, kids[i]) \o text
  \o (IF i < Len(kids) THEN Symbol(",") ELSE <<>>)
  \o After(Child(n, kids[i]))

\* StyledWriter::writeValue and writeArrayValue
RECURSIVE StyledText(_)
StyledText(n) ==
  LET kids == Children(n)
      Value(i) == StyledText(Child(n, kids[i]))
  IN IF type_(n) \notin Containers THEN <<Text(n)>>
     ELSE IF kids = <<>> THEN Enclosed(n, <<>>)
     ELSE IF OnOneLine(n) THEN Enclosed(n, Listed([i \in DOMAIN kids |-> Value(i)]))
     ELSE Enclosed(n, FlattenSeq([i \in DOMAIN kids |-> ChildText(n, i, kids, Value(i))])
                      \o <<Newline>>)

\* StyledWriter::write and toStyledString; StyledStreamWriter, operator <<
Styled(n) == Before(n) \o StyledText(n) \o After(n) \o <<Newline>>
Streamed(n) == Styled(n)
Fast(n) == FastText(n) \o <<Newline>>
=============================================================================
