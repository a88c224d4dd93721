------------------------------- MODULE RpcServer -------------------------------
(***************************************************************************)
(* The servers of RpcSockets with the Handler of RpcHandler behind them,   *)
(* and what their clients are answered.                                    *)
(***************************************************************************)
EXTENDS RpcHandler, RpcSockets

CONSTANT Messages  \* the messages there are, sent or not

Answer(text) == Process(methods, Reads(text))

\* What Replies stands for.
HandlerReplies(names, text) == ~Equal(Process(names, Reads(text)), Null)

ASSUME RepliesAssumption ==
  \A m \in Messages, names \in {Handler, AddMethod(Handler, Name)} :
    Replies(names, TextOf(m)) = HandlerReplies(names, TextOf(m))

\* Reader makes a value of every text, one a method can have an answer to; a
\* beginning of a text that is a whole array or object is all of it but blanks
\* and comments.
ASSUME MessagesAssumption ==
  /\ Name \in Int /\ Sends \subseteq Messages
  /\ \A m \in Messages :
       LET text == TextOf(m)
           parsed == Reads(text)
       IN /\ WellFormed(parsed.root)
          /\ Len(encode(text)) < ULongRange
          /\ \A i \in 0..Len(text) :
               LET part == Reads(SubSeq(text, 1, i))
               IN IsCall(part) => Equal(part.root, parsed.root)

-----------------------------------------------------------------------------
(***************************************************************************)
(* Properties.                                                             *)
(***************************************************************************)

\* A request or a notification: an id is a number, a text or a bool, as the
\* Handler also refuses the null that JSON-RPC allows.
Proper(root) ==
  /\ type_(root) = objectValue /\ {jsonrpc, method} \subseteq Kids(root)
  /\ Equal(Child(root, jsonrpc), String(Version)) /\ type_(Child(root, method)) = stringValue
  /\ isMember(root, id) => type_(Child(root, id)) \notin {nullValue, arrayValue, objectValue}

Notification(root) == Proper(root) /\ ~isMember(root, id)

\* One that names no method of the handler's, or system.describe.
Chatty(root) ==
  /\ Notification(root)
  /\ asString(Child(root, method)).v \notin ToSet(methods) \ {SystemDescribeName, EmptyText}

\* The values that stand for a call each: the elements of a batch, or the value.
Parts(root) ==
  IF isArray(root) THEN {Child(root, i - 1) : i \in 1..Size(root)} ELSE {root}
Quiet(root) == \A part \in Parts(root) : ~Chatty(part)

\* The ids of the responses to a value, and to what Reader makes of a text: a
\* request is answered with its id, what is none with null, a notification
\* not at all, a batch with what its elements are answered with.  JSON-RPC
\* wants null for a batch that is empty, and for null.
WantedOf(root) ==
  IF ~Proper(root) THEN <<Null>>
  ELSE IF isMember(root, id) THEN <<Child(root, id)>>
  ELSE <<>>
Wanted(parsed) ==
  LET root == parsed.root
      ids[i \in 0..Size(root)] ==
        IF i = 0 THEN <<>> ELSE ids[i - 1] \o WantedOf(Child(root, i - 1))
  IN IF ~parsed.ok THEN <<Null>>
     ELSE IF isArray(root) THEN ids[Size(root)]
     ELSE WantedOf(root)

IdsOf(response) ==
  CASE type_(response) = nullValue -> <<>>
    [] type_(response) = arrayValue -> [i \in 1..Size(response) |-> Child(Child(response, i - 1), id)]
    [] OTHER -> <<Child(response, id)>>

\* So is every message answered that has no chatty notification in it, which
\* NotificationsSilent is about.
AnswersByTheBook ==
  \A m \in Messages :
    LET parsed == Reads(TextOf(m))
        ids == IdsOf(Answer(TextOf(m)))
        wanted == Wanted(parsed)
    IN (parsed.ok => Quiet(parsed.root)) =>
         Len(ids) = Len(wanted) /\ \A i \in DOMAIN ids : Equal(ids[i], wanted[i])

Means(text, m) == Equal(Reads(text).root, Reads(TextOf(m)).root)

\* However TCP cuts and joins the messages, in either format, Handler takes no
\* fragment of them for a call, unless a message holds what is one: the calls
\* it is given are those of the client it answers, in the order they were sent,
\* none twice.  A datagram too long for buf counts as a fragment; one that is
\* repeated is answered again.
OnlyWholeCalls ==
  \A k \in Conns :
    LET calls == DOMAIN handled[k]
    IN IF protocol = "TCP"
       THEN \E f \in [calls -> DOMAIN sent[k]] :
              /\ \A i, j \in calls : i < j => f[i] < f[j]
              /\ \A i \in calls : Means(handled[k][i], sent[k][f[i]])
       ELSE \A i \in calls : \E j \in DOMAIN sent[k] : Means(handled[k][i], sent[k][j])

\* What is answered, to whom and how often.  What Handler answers depends on
\* its methods only, all of which it may have before anything is sent.
Answered == ((\A k \in Conns : sent[k] = <<>>) => AnswersByTheBook) /\ OnlyWholeCalls

(***************************************************************************)
(* What jsonrpc_handler.h says.                                            *)
(***************************************************************************)

\* "In case msg is a notification, response is equal to Json::Value::null", of
\* both overloads of Process and the private one they end in: no notification
\* that a client sent is answered.
NotificationsSilent ==
  \A k \in Conns : \A i \in DOMAIN handled[k] :
    Notification(Reads(handled[k][i]).root) => Equal(Answer(handled[k][i]), Null)
===============================================================================
