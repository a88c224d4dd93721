------------------------------ MODULE JsonReader ------------------------------
(***************************************************************************)
(* Json::Reader (jsoncpp.cpp): a recursive descent over the tokens of a    *)
(* document.  An operator has the name of the method it stands for, takes  *)
(* the state of the reader and gives the state the method leaves:          *)
(*   doc, pos   the document and current_                                  *)
(*   tok, at    the token read last and its position                       *)
(*   root       the value being read into                                  *)
(*   nodes      nodes_, a stack of references into root                    *)
(*   before     commentsBefore_                                            *)
(*   last       lastValue_, a reference; lastEnd is lastValueEnd_          *)
(*   errors     errors_, the positions of their tokens                     *)
(*   ok         what the method returns                                    *)
(*   collect, allow   collectComments_, features_.allowComments_           *)
(* A document is a sequence of tokens [t, v]; the only white space that    *)
(* matters, a line break, is one of them.  v is                            *)
(*   of a string   its text as a rank; empty if decodeString refuses it    *)
(*   of a number   its digits; neg says whether '-' comes first, real      *)
(*                 whether there are characters of a real, which has to    *)
(*                 have digits                                             *)
(*   of a literal  type and value of true, false, null                     *)
(*   of a comment  its text; a // comment is one before a line break       *)
(* Every malformed token is the token "bad".                               *)
(***************************************************************************)
EXTENDS JsonTree

Token(t, v) == [t |-> t, v |-> v]
Newline == Token("newline", <<>>)
EndOfStream == Token("end", <<>>)
Number(neg, real, digits) == [t |-> "number", v |-> digits, neg |-> neg, real |-> real]

Reader(doc, root, collect, allow) ==
  [doc |-> doc, pos |-> 1, tok |-> EndOfStream, at |-> 0, root |-> root,
   nodes |-> << <<>> >>, before |-> <<>>, last |-> <<>>, lastEnd |-> 0,
   errors |-> <<>>, ok |-> TRUE, collect |-> collect /\ allow, allow |-> allow]

Good(r) == [r EXCEPT !.ok = TRUE]

\* currentValue
Top(r) == Last(r.nodes)
currentValue(r) == At(r.root, Top(r))

\* currentValue() = value, and that a value of a token is read
Set(r, n) == [r EXCEPT !.root = Put(@, Top(r), Assigned(currentValue(r), n)), !.ok = TRUE]

\* nodes_.push( &currentValue()[ k ] ) and pop
Push(r, k) ==
  [r EXCEPT !.root = Put(@, Top(r), WithChild(currentValue(r), k)),
            !.nodes = Append(@, Append(Top(r), k))]
\* Mutant: not popped where the loop is left with an error.
Pop_IfOk(r) == [r EXCEPT !.nodes = IF r.ok THEN Front(@) ELSE @]

Pop(r) == [r EXCEPT !.nodes = Front(@)]

addError(r) == [r EXCEPT !.errors = Append(@, r.at), !.ok = FALSE]

\* Mutant: a comment that waits for a value is replaced by the next.
addComment_Replaces(r, text, onSameLine) ==
  IF onSameLine
  THEN [r EXCEPT !.root[r.last].comments[commentAfterOnSameLine] = text]
  ELSE [r EXCEPT !.before = text]

addComment(r, text, onSameLine) ==
  IF onSameLine
  THEN [r EXCEPT !.root[r.last].comments[commentAfterOnSameLine] = text]
  ELSE [r EXCEPT !.before = @ \o text]

\* readComment: a comment on the line where a value ended belongs to it.
readComment(r) ==
  IF ~r.collect THEN r
  ELSE addComment(r, r.tok.v, r.lastEnd # 0 /\ Newline \notin ToSet(SubSeq(r.doc, r.lastEnd, r.at)))

skipSpaces(r) ==
  [r EXCEPT !.pos = Min({i \in r.pos..Len(r.doc) : r.doc[i] # Newline} \cup {Len(r.doc) + 1})]

\* getNextChar gives the end of the stream again and again.
Peek(r) == IF r.pos > Len(r.doc) THEN EndOfStream ELSE r.doc[r.pos]

readToken(r) ==
  LET s == skipSpaces(r)
      tok == Peek(s)
      read == [s EXCEPT !.tok = tok, !.at = s.pos,
                        !.pos = IF tok = EndOfStream THEN @ ELSE @ + 1]
  IN IF tok.t = "comment" THEN readComment(read) ELSE read

\* The loops over comments, wherever comments are skipped.
RECURSIVE PastComments(_)
PastComments(r) == IF r.tok.t = "comment" THEN PastComments(readToken(r)) ELSE r

skipCommentTokens(r) == IF r.allow THEN PastComments(readToken(r)) ELSE readToken(r)

\* Reading on until the token that closes what failed, whichever it closes.
RECURSIVE recoverFromError(_, _)
recoverFromError(r, close) ==
  LET s == readToken(r)
  IN IF s.tok.t \in {close, "end"} THEN [s EXCEPT !.ok = FALSE]
     ELSE recoverFromError(s, close)

addErrorAndRecover(r, close) == recoverFromError(addError(r), close)

-----------------------------------------------------------------------------
(***************************************************************************)
(* Numbers.                                                                *)
(***************************************************************************)

Prefix(digits, i) == FoldLeft(LAMBDA n, d : 10 * n + d, 0, SubSeq(digits, 1, i))
Magnitude(neg) == IF neg THEN -MinInt64 ELSE MaxUInt64

\* Mutant: the largest integer is taken to be too large.
TooLarge_AtMost(digits, neg) ==
  \E i \in DOMAIN digits :
    /\ Prefix(digits, i - 1) >= Magnitude(neg) \div 10
    /\ i < Len(digits) \/ digits[i] >= Magnitude(neg) % 10

\* Where the loop over the digits leaves for decodeDouble: above the
\* threshold only the last digit decides.
TooLarge(digits, neg) ==
  \E i \in DOMAIN digits :
    /\ Prefix(digits, i - 1) >= Magnitude(neg) \div 10
    /\ i < Len(digits) \/ digits[i] > Magnitude(neg) % 10

decodeDouble(tok) ==
  LET value == Prefix(tok.v, Len(tok.v))
  IN Scalar(realValue, IF tok.neg THEN -2 * value ELSE 2 * value)

\* value is unsigned and wraps; so does -LargestInt( value ), to which the
\* compiler translates the overflow at the smallest integer.
decodeNumber(tok) ==
  LET value == Prefix(tok.v, Len(tok.v)) % (2 * LargestLimit)
      minus == ((2 * LargestLimit) - value) % (2 * LargestLimit)
  IN IF tok.real \/ TooLarge(tok.v, tok.neg) THEN decodeDouble(tok)
     ELSE IF tok.neg
     THEN Scalar(intValue, IF minus > MaxInt64 THEN minus - (2 * LargestLimit) ELSE minus)
     ELSE Scalar(IF value <= MaxInt THEN intValue ELSE uintValue, value)

-----------------------------------------------------------------------------
(***************************************************************************)
(* Values.                                                                 *)
(***************************************************************************)

\* Any of "," "}" and a comment may follow the value of a member.  Behind a
\* comment the next token ends the member whatever it is.
EndsMember(tok) == tok.t \in {",", "}", "comment"}

\* Mutant: reading into an array goes on with what is there.
Opening_Kept(r, type) ==
  IF type = arrayValue /\ type_(currentValue(r)) = arrayValue THEN r ELSE Set(r, New(type))

Opening(r, type) == Set(r, New(type))

\* "}" may stand for a name while none has been read but the empty one.
NoMembers(r, name) == r.tok.t = "}" /\ name = EmptyText

RECURSIVE readValue(_), Members(_, _), Elements(_, _)

\* The loop of readObject, in the order of its exits.
AfterMember(comma, name) ==
  LET end == PastComments(comma)
  IN IF ~EndsMember(comma.tok) THEN addErrorAndRecover(comma, "}")
     ELSE IF end.tok.t = "}" THEN Good(end)
     ELSE Members(end, name)

MemberRead(value, name) ==
  IF value.ok THEN AfterMember(readToken(value), name) ELSE recoverFromError(value, "}")

MemberValue(colon, name) ==
  IF colon.tok.t # ":" THEN addErrorAndRecover(colon, "}")
  ELSE MemberRead(Pop(readValue(Push(colon, name))), name)

MemberName(n, name) ==
  IF NoMembers(n, name) THEN Good(n)
  ELSE IF n.tok.t # "string" \/ n.tok.v = <<>> THEN addErrorAndRecover(n, "}")
  ELSE MemberValue(readToken(n), n.tok.v[1])

\* name is the member read last.
Members(r, name) == MemberName(PastComments(readToken(r)), name)

readObject(r) == Members(Opening(r, objectValue), EmptyText)

\* The loop of readArray.
AfterElement(end, index) ==
  CASE end.tok.t = "," -> Elements(end, index + 1)
    [] end.tok.t = "]" -> Good(end)
    [] OTHER -> addErrorAndRecover(end, "]")

ElementRead(value, index) ==
  IF value.ok THEN AfterElement(PastComments(readToken(value)), index)
  ELSE recoverFromError(value, "]")

Elements(r, index) == ElementRead(Pop(readValue(Push(r, index))), index)

ElementsOrNone(s) == IF Peek(s).t = "]" THEN Good(readToken(s)) ELSE Elements(s, 0)
readArray(r) == ElementsOrNone(skipSpaces(Opening(r, arrayValue)))

\* The comments waiting become those of the value that is read now.
TakeComments(r) ==
  IF r.before = <<>> THEN r
  ELSE [r EXCEPT !.root[Top(r)].comments[commentBefore] = r.before, !.before = <<>>]

\* lastValue_: a token that cannot begin a value leaves it alone.
NoteLast(r) ==
  IF r.collect THEN [r EXCEPT !.last = Top(r), !.lastEnd = r.pos] ELSE r

\* The switch on the token at which a value begins.
ValueOf(s) ==
  LET tok == s.tok
      refused == tok.v = <<>>
  IN CASE tok.t = "{" -> NoteLast(readObject(s))
       [] tok.t = "[" -> NoteLast(readArray(s))
       [] tok.t = "number" ->
            NoteLast(IF tok.real /\ refused THEN addError(s) ELSE Set(s, decodeNumber(tok)))
       [] tok.t = "string" ->
            NoteLast(IF refused THEN addError(s) ELSE Set(s, Scalar(stringValue, tok.v[1])))
       [] tok.t = "literal" -> NoteLast(Set(s, Scalar(tok.v[1], tok.v[2])))
       [] OTHER -> addError(s)

readValue(r) == ValueOf(TakeComments(skipCommentTokens(r)))

\* What stands behind the value is not looked at but for comments.
Trailing(value) ==
  LET tail == skipCommentTokens(value)
  IN [tail EXCEPT !.ok = value.ok,
                  !.root[<<>>].comments[commentAfter] = IF tail.before = <<>> THEN @ ELSE tail.before]

\* The error is noted at the beginning of the document.
StrictRoot(r) ==
  IF isArray(r.root) \/ isObject(r.root) THEN r ELSE addError([r EXCEPT !.at = 1])

\* parse; features_ are all() or strictMode().
parse(doc, root, strict, collectComments) ==
  LET end == Trailing(readValue(Reader(doc, root, collectComments, ~strict)))
  IN IF strict THEN StrictRoot(end) ELSE end
=============================================================================
