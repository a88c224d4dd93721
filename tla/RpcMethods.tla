------------------------------ MODULE RpcMethods ------------------------------
(***************************************************************************)
(* The list of methods of Json::Rpc::Handler (jsonrpc_handler.cpp).        *)
(***************************************************************************)
EXTENDS Integers, Sequences, SequencesExt

SystemDescribeName == 21  \* a text, as in RpcHandler

\* m_methods holds names; a name may be there twice.  An added method is
\* external: it answers a request with a result, a notification with null.
Handler == <<SystemDescribeName>>
AddMethod(methods, name) == Append(methods, name)

\* The first method of that name, never the system's own.
DeleteMethod(methods, name) ==
  LET i == SelectInSeq(methods, LAMBDA m : m = name)
  IN IF name = SystemDescribeName \/ i = 0 THEN methods ELSE RemoveAt(methods, i)

Lookup(methods, name) == name \in ToSet(methods)
===============================================================================
