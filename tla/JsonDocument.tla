----------------------------- MODULE JsonDocument -----------------------------
(***************************************************************************)
(* The life of a document: typed token by token, read into a value by      *)
(* Reader, written from it by one of the writers, and read back.  A        *)
(* program may also read into a value that holds an older document, as     *)
(* load_apverifier_from_dir does, or write a value it has built.           *)
(***************************************************************************)
EXTENDS JsonWriter, JsonString

CONSTANTS Samples,    \* documents that are there and edited in one place
          Tokens,     \* the tokens typed, comments apart
          Numerals,   \* documents of one number
          Roots,      \* what the value read into may hold
          Values,     \* values that are written without having been read
          Texts,      \* texts, and
          CodePoints, \* Unicode code points, that strings hold
          MaxTokens,  \* bound on the length of a typed document
          MaxBeyond   \* bound on the tokens typed behind a value or an error

VARIABLES
  doc,      \* the document
  reader,   \* the reader and the value it reads into, as the last call left them
  kept,     \* what the value was before the document was read or written
  pc        \* what was done last

vars == <<doc, reader, kept, pc>>

root == reader.root

Init ==
  \/ /\ doc \in {<<>>} \cup Samples
     /\ \E r \in Roots : reader = Reader(<<>>, r, FALSE, FALSE) /\ kept = r
     /\ pc = IF doc = <<>> THEN "typing" ELSE "editing"
  \/ /\ doc = <<>>
     /\ \E r \in Values : reader = Reader(<<>>, r, TRUE, TRUE) /\ kept = r
     /\ pc = "read"

\* Where the value or the first error of a document ends.
Settled(d) ==
  LET r == parse(d, Null, FALSE, FALSE)
  IN IF r.ok THEN r.at - 1 ELSE r.errors[1]

\* What an editor puts in at a position; the text of a comment is its place.
Inserted(at) ==
  {<<t>> : t \in Tokens}
  \cup {<<Token("comment", <<at>>)>>, <<Newline, Token("comment", <<at + 1>>)>>}

\* External: an editor, which may leave a document unfinished.
Type(tokens) ==
  /\ pc = "typing"
  /\ Len(doc) < MaxTokens /\ Len(doc) - Settled(doc) < MaxBeyond
  /\ doc' = doc \o tokens
  /\ UNCHANGED <<reader, kept, pc>>

\* External: up to one token taken out and something put in its place.
Edit(at, cut, tokens) ==
  /\ pc = "editing"
  /\ doc' = SubSeq(doc, 1, at - 1) \o tokens \o SubSeq(doc, at + cut, Len(doc))
  /\ pc' = "edited"
  /\ UNCHANGED <<reader, kept>>

Read(strict) ==
  /\ pc \in {"typing", "editing", "edited"}
  /\ reader' = parse(doc, root, strict, TRUE)
  /\ kept' = root
  /\ pc' = IF strict THEN "checked" ELSE "read"
  /\ UNCHANGED doc

Write(text) ==
  /\ pc = "read" /\ reader.ok
  /\ doc' = text
  /\ kept' = root
  /\ pc' = "written"
  /\ UNCHANGED reader

ReadBack ==
  /\ pc = "written"
  /\ reader' = parse(doc, Null, FALSE, TRUE)
  /\ pc' = "back"
  /\ UNCHANGED <<doc, kept>>

Stopped == (pc \in {"back", "checked"} \/ (pc = "read" /\ ~reader.ok)) /\ UNCHANGED vars

Next ==
  \/ \E tokens \in Inserted(Len(doc) + 1) : Type(tokens)
  \/ \E t \in Numerals : doc = <<>> /\ Type(<<t>>)
  \/ \E at \in DOMAIN doc, cut \in {0, 1} : \E tokens \in Inserted(at) \cup {<<>>} : Edit(at, cut, tokens)
  \/ \E strict \in BOOLEAN : Read(strict)
  \/ \E text \in {Styled(root), Streamed(root), Fast(root)} : Write(text)
  \/ ReadBack
  \/ Stopped

Spec == Init /\ [][Next]_vars

-----------------------------------------------------------------------------
(***************************************************************************)
(* The grammar of JSON, over the kinds of tokens: a text, and a list of    *)
(* elements or of named members.                                           *)
(***************************************************************************)

RECURSIVE IsText(_), IsList(_, _)
IsText(k) ==
  LET inner == SubSeq(k, 2, Len(k) - 1)
  IN \/ k \in {<<"number">>, <<"string">>, <<"[", "]">>, <<"{", "}">>}
     \/ Len(k) > 2 /\ k[1] = "[" /\ Last(k) = "]" /\ IsList(inner, FALSE)
     \/ Len(k) > 2 /\ k[1] = "{" /\ Last(k) = "}" /\ IsList(inner, TRUE)
IsList(k, named) ==
  LET IsItem(i) == IF named THEN Len(i) > 2 /\ i[1] = "string" /\ i[2] = ":" /\ IsText(SubSeq(i, 3, Len(i)))
                   ELSE IsText(i)
  IN \/ IsItem(k)
     \/ \E i \in DOMAIN k : /\ k[i] = "," /\ IsItem(SubSeq(k, 1, i - 1))
                            /\ IsList(SubSeq(k, i + 1, Len(k)), named)

\* A '-' without digits counts as a number: it is read as 0.
Kind(tok) ==
  CASE tok.t = "string" /\ tok.v = <<>> -> "bad"
    [] tok.t = "number" /\ tok.v = <<>> /\ tok.real -> "bad"
    [] tok.t = "literal" -> "number"
    [] OTHER -> tok.t

IsSpace(tok) == tok.t \in {"comment", "newline"}
Kinds(d) == LET tokens == SelectSeq(d, LAMBDA x : ~IsSpace(x)) IN [i \in DOMAIN tokens |-> Kind(tokens[i])]

\* A comment between a name and its ":", or alone in an array.
Misplaced(d) ==
  \E p, q \in DOMAIN d :
    /\ p < q /\ ~IsSpace(d[p]) /\ ~IsSpace(d[q])
    /\ \A i \in (p + 1)..(q - 1) : IsSpace(d[i])
    /\ \E i \in (p + 1)..(q - 1) : d[i].t = "comment"
    /\ d[q].t = ":" \/ (d[p].t = "[" /\ d[q].t = "]")

\* What Reader takes for JSON beyond the grammar: the token behind a comment
\* behind a member, whatever it is, separates it from the next; a comma may
\* follow a member with an empty name.
Mended(d) ==
  LET lines == SelectSeq(d, LAMBDA x : x.t # "newline")
      Comma(p) == [lines EXCEPT ![p] = Token(",", <<>>)]
      separated == {lines} \cup {Comma(p) : p \in {q \in 2..Len(lines) : lines[q - 1].t = "comment"}}
      Commas(e) == {q \in DOMAIN e : e[q].t = "," /\ Token("string", <<EmptyText>>) \in ToSet(e)}
  IN separated \cup UNION {{RemoveAt(e, p) : p \in Commas(e)} : e \in separated}

Beginnings == {SubSeq(doc, 1, n) : n \in DOMAIN doc}
IsJson(d) == IsText(Kinds(d))

-----------------------------------------------------------------------------
(***************************************************************************)
(* Properties.                                                             *)
(***************************************************************************)

CommentIds(n) == UNION {UNION {ToSet(n[p].comments[q]) : q \in Places} : p \in DOMAIN n}

\* The stack of the reader is balanced after every call, its last value is a
\* node that still exists, where a comment may be written, and it has noted
\* errors if and only if it says it failed.
TypeOK ==
  /\ pc \in {"typing", "editing", "edited", "read", "checked", "written", "back"}
  /\ reader.nodes = << <<>> >>
  /\ reader.last \in DOMAIN root
  /\ reader.ok <=> reader.errors = <<>>
  /\ \A i \in DOMAIN reader.errors : reader.errors[i] \in 1..(Len(reader.doc) + 1)

\* A document is read if it begins with a JSON text in which no comment
\* stands in one of two places; and what is read begins with such a text, or
\* with one in which a separator is slightly wrong.  In strict mode every array
\* and object is read from a document without comments, and nothing that is
\* no JSON.
AcceptsJson ==
  LET exact == \E d \in Beginnings : IsJson(d) /\ ~Misplaced(d)
      mended == \E d \in Beginnings : \E e \in Mended(d) : IsJson(e) /\ ~Misplaced(e)
      comments == \E i \in DOMAIN doc : doc[i].t = "comment"
  IN /\ pc = "read" /\ doc # <<>> => (exact => reader.ok) /\ (reader.ok => mended)
     /\ pc = "checked" /\ ~comments =>
          /\ reader.ok => mended
          /\ exact /\ doc[1].t \in {"[", "{"} => reader.ok

\* An integer in the range of the longest integers is read as an integer, and
\* exactly; and what is read as a real is the number, too.
NumbersExact ==
  pc = "read" /\ Len(doc) = 1 /\ doc[1].t = "number" /\ ~doc[1].real =>
    LET size == Prefix(doc[1].v, Len(doc[1].v))
        exact == IF doc[1].neg THEN -size ELSE size
    IN /\ size <= Magnitude(doc[1].neg) =>
            type_(root) \in {intValue, uintValue} /\ value_(root) = exact
       /\ type_(root) = realValue => value_(root) = 2 * exact

\* What the parser accepts is JSON but for the slips named, all JSON but for
\* those is accepted, and the numbers the integers have room for are exact.
ReadsJson == AcceptsJson /\ NumbersExact

EndsValue(p) ==
  \/ doc[p].t \in {"}", "]", "number", "literal"}
  \/ doc[p].t = "string" /\ (p = Len(doc) \/ doc[p + 1].t # ":")

\* The comment at p is followed by another on the same line and there is no
\* value in between.
Replaced(p) ==
  \E q \in DOMAIN doc :
    /\ q > p /\ doc[q].t = "comment"
    /\ \A i \in p..q : doc[i].t # "newline" /\ ~EndsValue(i)

\* The comments of the root, and of the members of objects within objects.
MemberIds(n) ==
  UNION {UNION {ToSet(n[p].comments[q]) : q \in Places} :
           p \in {r \in DOMAIN n : \A i \in DOMAIN r : n[SubSeq(r, 1, i - 1)].type = objectValue}}

Names == {p \in DOMAIN doc : doc[p].t = "string" /\ p < Len(doc) /\ doc[p + 1].t = ":"}
NoNameTwice == \A p, q \in Names : doc[p] = doc[q] => p = q

\* Every comment that was read is a comment of some value, unless it was
\* replaced by another on the same line behind the same value (or a member
\* was read twice).  Written in style and read back, a value has no comment
\* it did not have, and if it has only one, at its root or at a member of
\* objects within objects, that comment again.
CommentsKept ==
  /\ pc = "read" /\ reader.ok /\ NoNameTwice =>
       \A p \in 1..(reader.pos - 1) \cap DOMAIN doc :
         doc[p].t = "comment" => doc[p].v[1] \in CommentIds(root) \/ Replaced(p)
  /\ pc = "back" => CommentIds(root) \subseteq CommentIds(kept)
  /\ pc = "back" /\ Newline \in ToSet(SubSeq(doc, 1, Len(doc) - 1)) /\ Cardinality(CommentIds(kept)) = 1 =>
       MemberIds(kept) \subseteq CommentIds(root)

\* The value a document says: elements that were absent are null, and an
\* integer is signed if it fits an Int and unsigned if it is greater.
Positions(n) ==
  UNION {{Append(p, i) : i \in 0..(Size(At(n, p)) - 1)} : p \in {q \in DOMAIN n : n[q].type = arrayValue}}
AsRead(n) ==
  LET Renumbered(c) ==
        [c EXCEPT !.type = IF @ \notin {intValue, uintValue} THEN @
                           ELSE IF c.v <= MaxInt THEN intValue ELSE uintValue]
  IN [p \in DOMAIN n \cup Positions(n) |->
        IF p \in DOMAIN n THEN Renumbered(n[p]) ELSE Node(nullValue, 0)]

\* The code point UTF-8 bytes encode, and the escapes JSON has for it.
FromUTF8(s) ==
  LET Six(i) == s[i] % 64
  IN CASE Len(s) = 1 -> s[1]
       [] Len(s) = 2 -> 64 * (s[1] % 32) + Six(2)
       [] Len(s) = 3 -> 4096 * (s[1] % 16) + 64 * Six(2) + Six(3)
       [] OTHER -> 262144 * (s[1] % 8) + 4096 * Six(2) + 64 * Six(3) + Six(4)
JsonEscape(cp) ==
  IF cp <= 65535 THEN UnicodeEscape(cp)
  ELSE UnicodeEscape(55296 + (cp - 65536) \div 1024) \o UnicodeEscape(56320 + ((cp - 65536) % 1024))
Quoted(chars) == <<QuoteMark>> \o chars \o <<QuoteMark>>

\* A text that is written is one string without control characters, whatever
\* follows it, and read as itself; an escaped code point is read as its UTF-8
\* but for 0, which ends the text, and a first half of a pair alone, which is
\* refused.
TextsSurvive ==
  /\ \A text \in Texts, tail \in {<<>>, <<QuoteMark>>} :
       LET written == valueToQuotedString(text)
       IN /\ \A i \in DOMAIN written : ~isControlCharacter(written[i])
          /\ readString(written \o tail, 2) = Len(written)
          /\ StringRead(written \o tail) = [ok |-> TRUE, text |-> text]
  /\ \A cp \in CodePoints :
       LET read == StringRead(Quoted(JsonEscape(cp)))
       IN IF IsFirstHalf(cp) THEN ~read.ok
          ELSE /\ read.ok
               /\ IF cp = 0 THEN read.text = <<>> ELSE FromUTF8(read.text) = cp

\* What any writer writes is read, and read as the value that was written,
\* down to the characters of its texts (of which no state tells anything, so
\* that they are looked at before a document is typed).
RoundTrip ==
  /\ pc = "typing" /\ doc = <<>> => TextsSurvive
  /\ pc = "back" => reader.ok /\ Equal(root, AsRead(kept))

\* Reading into a value that holds an older document leaves what reading into
\* a new one leaves, comments included, whether it succeeds or fails half
\* way; only if it fails before anything is read, the older document is still
\* there as a whole.  Assignment does not touch comments: those of the root
\* stay where the new document has none in their place.
NothingMixed ==
  pc \in {"read", "checked"} /\ doc # <<>> =>
    LET fresh == parse(doc, Null, pc = "checked", TRUE)
        new == fresh.root[<<>>].comments
        old == kept[<<>>].comments
        comments == [q \in Places |-> IF new[q] = <<>> THEN old[q] ELSE new[q]]
        Renewed(n) == [n EXCEPT ![<<>>].comments = comments]
    IN \/ root = Renewed(fresh.root)
       \/ ~reader.ok /\ type_(fresh.root) = nullValue /\ root = Renewed(kept)
=============================================================================
