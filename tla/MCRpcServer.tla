----------------------------- MODULE MCRpcServer -----------------------------
(***************************************************************************)
(* Three connections and two descriptors; messages of five characters, so  *)
(* that their lengths have three binary digits, and with a "," inside; two *)
(* netstrings, of ten characters each, do not fit the buffer together.     *)
(***************************************************************************)
EXTENDS RpcServer

MCName == 30
Request(members) == Object((jsonrpc :> String(Version)) @@ members)
CallOf(name, rid) == Request(method :> String(name) @@ id :> rid)
Notify(name) == Request(method :> String(name))
Batch(s) == Filled(New(arrayValue), [i \in 0..(Len(s) - 1) |-> s[i + 1]])
Five == Scalar(intValue, 5)

Meaning ==
  [c |-> CallOf(MCName, Five),
   n |-> Notify(MCName),
   b |-> Batch(<<CallOf(MCName, Five), Notify(MCName), Five, CallOf(31, Five)>>),
   s |-> CallOf(SystemDescribeName, String(4)),
   z |-> CallOf(MCName, Null),
   a |-> CallOf(MCName, New(arrayValue)),
   e |-> Batch(<<>>)]

\* "x" is no JSON.  A text that begins inside a message, at its third
\* character, begins with a scalar.
MCMessages == DOMAIN Meaning \cup {"x"}
MCTextOf(m) == <<"{", ",", m, ",", "}">>
MCReads(text) ==
  IF \E m \in DOMAIN Meaning : IsPrefix(MCTextOf(m), text)
  THEN [ok |-> TRUE, root |-> Meaning[CHOOSE m \in DOMAIN Meaning : IsPrefix(MCTextOf(m), text)]]
  ELSE IF text # <<>> /\ Head(text) \in MCMessages THEN [ok |-> TRUE, root |-> Five]
  ELSE [ok |-> FALSE, root |-> Null]
===============================================================================
