------------------------------- MODULE RpcHandler -------------------------------
(***************************************************************************)
(* Json::Rpc::Handler (jsonrpc_handler.cpp): a list of methods, and what a *)
(* message is answered with.  Messages and responses are the values of     *)
(* JsonTree; the text of error messages and descriptions are left out.     *)
(***************************************************************************)
EXTENDS JsonTree, RpcMethods

\* Member names, and the texts that matter.
code == 10
error == 11
id == 12
jsonrpc == 13
method == 14
result == 15
Version == 20

PARSING_ERROR == -32700
INVALID_REQUEST == -32600
METHOD_NOT_FOUND == -32601

String(text) == Scalar(stringValue, text)
Object(members) == Filled(New(objectValue), members)
Has(root, k) == isObject(root) /\ isMember(root, k)

\* response[k] = value, which leaves comments behind.
Response(rid, k, value) ==
  Object([member \in {id, jsonrpc, k} |->
            IF member = id THEN Assigned(Null, rid)
            ELSE IF member = jsonrpc THEN String(Version) ELSE value])
ErrorResponse(rid, c) ==
  Response(rid, error, Object([member \in {code} |-> Scalar(intValue, c)]))

-----------------------------------------------------------------------------
\* A response even to a notification.
SystemDescribe(methods, root) ==
  Response(Child(root, id), result, Object([name \in ToSet(methods) |-> Null]))

Call(methods, name, root) ==
  IF name = SystemDescribeName THEN SystemDescribe(methods, root)
  ELSE IF isMember(root, id) THEN Response(Child(root, id), result, Null)
  ELSE Null

\* Mutant: the id is not looked at.
Check_AnyId(root) ==
  /\ Has(root, jsonrpc) /\ Equal(Child(root, jsonrpc), String(Version))
  /\ isMember(root, method) /\ type_(Child(root, method)) = stringValue

\* isArray and isObject are true of null, so an id that is null is refused.
Check(root) ==
  /\ Has(root, jsonrpc) /\ Equal(Child(root, jsonrpc), String(Version))
  /\ ~(isMember(root, id) /\ (isArray(Child(root, id)) \/ isObject(Child(root, id))))
  /\ isMember(root, method) /\ type_(Child(root, method)) = stringValue

\* Process( const Json::Value & )
ProcessValue(methods, root) ==
  LET name == asString(Child(root, method)).v
  IN IF ~Check(root) THEN ErrorResponse(Null, INVALID_REQUEST)
     ELSE IF name # EmptyText /\ Lookup(methods, name) THEN Call(methods, name, root)
     ELSE ErrorResponse(Child(root, id), METHOD_NOT_FOUND)

\* The responses of a batch, notifications left out; null if there are none.
ProcessBatch(methods, root) ==
  LET response[i \in 0..Size(root)] ==
        IF i = 0 THEN <<>>
        ELSE LET ret == ProcessValue(methods, Child(root, i - 1))
             IN IF Equal(ret, Null) THEN response[i - 1] ELSE Append(response[i - 1], ret)
      all == response[Size(root)]
  IN IF all = <<>> THEN Null
     ELSE Filled(New(arrayValue), [j \in 0..(Len(all) - 1) |-> all[j + 1]])

\* Process( const std::string & ): parsed says whether Reader accepts the
\* message and what it reads.  null counts as an empty batch.
Process(methods, parsed) ==
  IF ~parsed.ok THEN ErrorResponse(Null, PARSING_ERROR)
  ELSE IF isArray(parsed.root) THEN ProcessBatch(methods, parsed.root)
  ELSE ProcessValue(methods, parsed.root)
=============================================================================
