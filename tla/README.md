# AP-Verifier: a TLA+ verification project

AP-Verifier reads the forwarding rules of a network's routers and its
topology, represents each rule's match as a BDD over the header bits, computes
the *atomic predicates* of the network (the coarsest partition of the header
space that no forwarding predicate cuts), and answers reachability queries by
propagating packet sets from port to port. It carries jsoncpp, which reads its
files, and a JSON-RPC library over TCP and UDP, which nothing calls yet. This
directory models those algorithms in TLA+, checks them with TLC on small
instances and proves the central ones with TLAPS for every value of the
constants.

The verifier itself is sequential: one thread, no callbacks and no persistence.
What is hard about it is not interleaving but *order*: the order of rules
(priority), of files (`readdir`), of list operations on a list that changes
while it is walked, and of pushes and pops around a recursion over a network
that may contain loops. The parser adds references into a tree that is being
built and values that are reused; the JSON-RPC servers are the one part with
other actors: clients and a network.

## 1. Inventory

| Component | Source | State | Operations |
|---|---|---|---|
| Rule loading | `main.cpp` `load_apverifier_from_dir`, `ap_verifier.cpp` `add_then_load_router` | `id_to_router`, `inport_to_router`; per router `predicate_map` (in-port, out_ports → BDD) and `dealt_bdd_map` (in-port → BDD) | scan the directory, load or refuse a router, add one rule to one in-port |
| Header matching | `predicate_node.cpp` `match2bdd` | position, variable index, BDD so far | one scan of a match string |
| Port lists | `ap_verifier_util.cpp` `val_to_list`, `make_sorted_list_from_array`, `compare` | none | read and sort a list of ports |
| Atomic predicates and conversion | `ap_verifier.cpp` `make_atomic_predicates`, `convert_router_to_ap`, `router.cpp` `convert_to_ap`, `ap_nodeV/S/B.cpp` | the list of atoms, `ap_bdd_list`, the per-router index sets | split the list by each predicate; rewrite predicates as atom indexes |
| Reachability queries | `ap_verifier.cpp` `query_reachability`, `propagate_bdd`, `_vec`, `_numset`, `_bset` | the call stack with `passed_port` by value | propagate a packet set from an in-port, print paths and loops |
| Life cycle | `main.cpp` `main`, `load_action_file`, `APVerifier` constructor, `add_link`, destructors | `topology`, `hdr_len`, `ap_bdd_list` | options, load, actions, destroy |
| Printing and logging | `*_to_string`, `print_*` | none | |
| JSON values | `jsoncpp.cpp`, `json.h` `Value`, iterators, `Path` | the tree of a value, its comments, who owns a text | subscripts, assign, swap, append, resize, remove, compare, convert, walk, follow or make a path |
| JSON reader | `jsoncpp.cpp` `Reader` | `current_`, `nodes_`, `commentsBefore_`, `lastValue_`, `errors_` | `parse` |
| JSON writers | `jsoncpp.cpp` `FastWriter`, `StyledWriter`, `StyledStreamWriter` | none that outlives a call | `write` |
| JSON-RPC handler | `jsonrpc_handler.cpp`, `.h` | `m_methods` | `AddMethod`, `DeleteMethod`, `Process` |
| JSON-RPC servers | `jsonrpc_server.cpp`, `_tcpserver.cpp`, `_udpserver.cpp`, `netstring.cpp` | `m_clients`, `m_purge`, sockets, `m_format` | `WaitMessage`, `Accept`, `Recv`, `Close`, netstring `encode`/`decode` |
| JSON-RPC clients, threads, lookup | `jsonrpc_client.cpp`, `_tcpclient.cpp`, `_udpclient.cpp`, `system.cpp`, `networking.cpp` | a socket | `Connect`, `Send`, `Recv`; wrappers |
| BuDDy, log4cxx | not in the repository | | |

How they interact: `main` creates one `APVerifier`; the directory loader calls
`add_link` for the topology and `add_then_load_router` for every rule file,
which calls `match2bdd` for each rule and `val_to_list` for its ports; when the
scan is over it calls `make_atomic_predicates`. `load_action_file` then calls
`query_reachability` for each action. `convert_router_to_ap`, which the queries
over atom indexes need, is called by nobody at this commit (three calls in
`main.cpp` are commented out); it is part of the class's interface and modelled
as such. All components share the maps of `APVerifier` and its routers, by
plain calls. All files go through one `Json::Value` and `Reader`. A server owns
one `Handler` and a `Reader`; whoever owns the server calls `WaitMessage` in a
loop, and each message received is processed and answered before the next.

What makes each correct:

- **Rule loading.** The tables are the priority lookup of the rules: a header
  is under the out_ports of the lowest rule in the file that covers it, on each
  in-port separately; the running summary `dealt_bdd_map` agrees with the
  tables it summarises; what is looked up unchecked later exists; the outcome
  does not depend on the order of the files unless they conflict.
- **Header matching.** A well-formed string yields exactly the headers it
  stands for; a malformed one never permutes bits.
- **Port lists.** The list is the array, sorted.
- **Atomic predicates.** The atoms partition the header space, resolve every
  predicate and are no more than needed; index sets compute what header sets
  would.
- **Queries.** Printed paths and loops are real, no path is missed, a network
  without a printed loop has none, and every query returns.
- **JSON values.** Operations keep a value well formed; comparison is an order;
  a conversion gives the number or refuses; a made path resolves.
- **JSON reader and writers.** JSON is what is accepted; numbers, texts and
  comments survive; nothing of an older document stays in a value read anew but
  comments of its root.
- **JSON-RPC.** Every call is answered by the rules of JSON-RPC 2.0, a
  notification not at all, and no fragment is taken for a call; every client is
  served, as long as there are descriptors and none stalls or kills the server.

The hazards of this code, each at its line and with the properties aimed at
it, are listed in `PROJECT.json`.

## 2. Modules

### The verifier

A BDD is modelled as the set of headers it accepts (`&`, `|`, `-` and
`bddfalse` are `\cap`, `\cup`, `\` and `{}`): canonicity makes `==` on BDDs
equality of these sets. A port, header or file is a value; a `std::map` is a
function on its key set; a `std::list` or `vector` is a sequence. Time
measurement, logging and layout are left out.

**`RuleTables`** (rule loading). `content` is what the files hold; `unread`
and `LoadNewRouter`/`RefuseRouter` are the `readdir` loop, in any order;
`cur`, `id`, `idx` are the file and the two loop cursors of
`add_then_load_router` (`id` counts down from the last rule, as in the code).
The three branches on `predicate_map` are the three actions
`FirstRuleOnInport`, `NewActionOnInport` and `KnownActionOnInport`, each with
the update of `inport_to_router` at the top of the loop body; `NextRule` is the
end of an iteration, also for rules that are not "fwd". The per-router maps are
joined in one function on `<<router id, in-port>>`. `status = "crashed"` is the
null dereference of `-detailed`.

**`Ternary`** gives the meaning of match strings (constant level), and
**`HeaderMatch`** is the scan of `match2bdd`: `i`, `idx` and `result` are its
locals; a cube, the only BDD it can build, is a function from variables to
bits. `Read` is what `match[i]` may be: the character, the terminating null of
a `std::string`, and beyond that any character, because the read is undefined.
`BadVariable` is BuDDy's error handler.

**`AtomicPredicates`** (splitting and conversion). The three nested iterators
are one sequence of predicates. `SplitBack` is one iteration of the inner
loop: it takes the last atom and pushes its non-empty parts in front, for
`ori_size` iterations. `ConvertPredicate` is one `APNodeV`, `APNodeS` or
`APNodeB`: the three keep the same set of indexes.

**`Atoms`** is the abstract specification of both: the atoms are the classes
of headers that satisfy the same predicates, made in one step, and a predicate
becomes the set of atoms that lie *in* it (the code collects those that *meet*
it). `AtomicPredicates!ImplementsAtoms` says that the list and its splitting
implement it, with the elements of `ap_bdd_list` as the atoms. That the result
depends neither on the order of routers, ports and predicates nor on the order
of the list is a consequence.

**`Propagate`** (queries). The recursion is an explicit stack of activations
with the code's arguments and locals; the `return`, `continue` and loop exits
are actions. The four functions differ in the representation of a packet set
and in one line, so `Packets` is the headers or the atom indexes, and the type
of the query decides `StopAtLoop`: `propagate_bdd` (type `NONE`) returns when
it meets a loop, the others go on with the next out_port. Since the four texts are
otherwise the same, "map" gives an action the lines of whichever one it was
read against. That one lookup of a port's table stands for the three that the
code makes is what `RuleTables!RoutedInportHasTable` says.

**`AtomQuery`** is `Propagate` with `Packets` the indexes of `ap_bdd_list`, as
`propagate_vec`, `propagate_numset` and `propagate_bset` use it, and an
`INSTANCE` of `Propagate` on headers beside it (`OnHeaders`): network, stack, paths
and loops with `HeadersOf` an index set in place of the set. Its one assumption
is what `make_atomic_predicates` leaves: atoms that are not empty, do not
overlap and fill the header space (`AtomicPredicates!Partition`). `NetOnAtoms` is
`convert_router_to_ap`.

**`LifeCycle`** (one run of the program). `i` and the option variables are the
locals of `main`; `argv`, `PastLoad`, `PastAction` and `PastHdrLen` follow the
argument that the tests of one loop body look at, since each `argv[++i]` moves
it for the tests below. `pc` is the place between `main`'s statements, or how
the run ended: `refused` (return -1), `terminated` (an uncaught exception of the
JSON parser), `undefined` (division by zero, uninitialised pointer), `exited`.
`root` is the one `Json::Value` all files are parsed into; jsoncpp leaves it as
it was when a file cannot be opened or is empty, and with what came before the
damage when a file breaks off, so `id_to_router` records for each router the
file scanned and the document really used. A rule file has one of six kinds:
intact; broken off between two rules, which loads the rules before; nothing to
be read; an id that is no number (`ThrowOnId`); and two kinds of damage inside a
rule, which `RulesRead` meets when the router is already there: a match that is
missing or too short, which `match2bdd` reads past its end, and a value of the
wrong type, for which `asString` or `asUInt` throws. The topology and the action
file can hold values of the wrong type as well. `-detailed` prints the router of
a refused file, of which id 0 is a null pointer. What the other modules say of a
loaded table, of the atoms or of an answer is not repeated: here they exist or
they do not.

**`PortList`** is `val_to_list`: `compare` cuts the difference of two ports to
an int, and `Sorts` is what `qsort` promises with it, nothing if it is no order.

### The JSON library

**`JsonTree`** (constant level) is what one `Json::Value` is: a function from
paths, the sequences of keys from the root to a node, to nodes with a type, a
value, whether the text is the node's own, and comments; `At` and `Put` are the
value at a path and the value with another there, `Equal` is `operator ==`, and
the conversions are `as...` and `isConvertibleTo`. An array has only the paths of the indexes
it really has, since the code keeps a map. A text is a
rank in the order of `strcmp`, a real is counted in halves, and the limits of
`Int` and `LargestInt` are constants. **`JsonPath`** follows the arguments of a
path (`Resolve`, `ResolveOr`, `Made`), **`JsonPathText`** splits the text of one
into them. **`JsonOrder`** is `operator <`, which compares children after
children and is the one recursion over values, and what it promises.

**`JsonValue`** is a program that edits a value `x` through a reference `ref`
(the keys on the way to a node), beside a second value `y`: each operation of
the class is an action, with its type assertion as a way for the program to
end. `it` is an iterator; a walk is several steps.

**`JsonReader`** is the recursive descent. Each method is an operator from a
record of the reader's state to the state it leaves, with the same calls in the
same order, so that early exits, the stack `nodes` and the waiting comments
behave as in the code; a document is a sequence of tokens. **`JsonString`** is
what happens inside a string, over bytes. **`JsonWriter`** gives the documents
that the writers make. **`JsonDocument`** puts the three together: a document
is typed token by token (or edited in one place), read into a fresh or an
already used value, written and read back.

### The JSON-RPC library

**`Netstring`** is the framing, with the base of its length digits as a
constant so that short texts need several, and the range of the `unsigned long`
that the length is read into as another. **`RpcMethods`** is the Handler's list of
methods, **`RpcHandler`** is `Process`: what one message is answered with, for a
given list. **`RpcSockets`** is the machine, and asks of Handler only whether it
replies and whether a text is read as an array or an object (the constants `Replies`
and `Reads`): clients connect, send and hang up; `wire` is what TCP has not yet
delivered, and `Serve` receives any non-empty beginning of it, up to the size of `buf`.
If Handler replies, `pc` is "send" until `Respond`, the end of the loop around
`send`: the socket blocks, so when this is, is up to the client. If the client
is gone, `BrokenPipe` may kill the server instead. Datagrams may be lost, repeated and overtaken. `Select`, `Accept`, `Serve` for
each ready descriptor and `Purge` are one call of `WaitMessage`, and the clients
may act between any two of them. The owner adds and deletes methods and closes the
server's clients between two calls. `handled` records the texts Handler was given
that are read as an array or an object, calls or batches of them. **`RpcServer`** puts the Handler of `RpcHandler` behind the
sockets, `Replies` being `HandlerReplies`, and says what clients are answered.

Each state machine has an **`MC...`** module with the small instance that the `.cfg` files
name, and definitions named `X_...` beside `X` and marked "Mutant" are variations of
it with a plausible mistake, used to see that a property would notice.

**`RuleTablesProofs`**, **`AtomicPredicatesProofs`**, **`HeaderMatchProofs`**,
**`PropagateProofs`**, **`AtomQueryProofs`**, **`LifeCycleProofs`**,
**`JsonValueProofs`** and **`RpcProofs`** hold the theorems. A module about which
something is proved reaches no `RECURSIVE` operator: loops are functions from the
number of turns, and what is recursive over data (`JsonOrder`, `JsonPathText`,
`JsonReader`, `JsonWriter`) is in modules of its own.

## 3. Runs

All runs check deadlock: where the program ends, a `Stopped` disjunct stutters.

| Run | Instance | Shows |
|---|---|---|
| `rule_tables` | two-bit header, three overlapping matches, no in-port, in-port 1 or both of 1 and 2, two sets of out_ports; file 1 has any three rules of 19, file 2 none or one; ids equal, different or 0 | types, `PriorityLookup`, `DealtExact`, `RoutedInportHasTable`, `OrderIndependent`, `NothingReassigned` |
| `header_match` | two bytes of two bits: every string of full length (4^5), every short one, and well-formed ones with a character more | `BitsInPlace` (well-formed strings are loaded and denote what they should, and bits stay in order in the others) |
| `atoms` | four headers, every list of at most three predicates | `Partition`, `Resolved`, `Coarsest`, `ConversionExact`, `ImplementsAtoms`, `AtomsTerminate` |
| `query` | two routers, 1575 plain networks and 1134 with ports that are both in-port and out_port, each with both kinds of query | `PrintsAreReal` (paths and loops), `CompleteUnlessCut`, `QuietMeansLoopFree`, `QueryReturns`; the bound on the depth of the recursion is part of `TypeOK` |
| `life_cycle` | every command line of up to three of seven arguments with a sound, damaged or missing topology and no rule file or one; five command lines with both run options, on every directory of up to two rule files of any kind, ids 0 to 2; two of them on directories of three, where a file damaged inside a rule has id 1; actions that are queries, unsupported or damaged | `RoutersMatchFiles` (no router from another file's document, intact files loaded), `EndsTell`, `AnswersAgree`, `RunEnds` |
| `json_value` | `Int` of 3 bits and `LargestInt` of 4, numbers on both sides of each limit, values of up to three nodes (four at the start) with indexes to 2 and one member name, six paths | `Ordered`, `ConversionsHonest`, `WalksMeetAll` (every child once, in order, and no step past the end), `MadePathsResolve` (what is made is found, and nothing else changes), `PortsSorted` |
| `json_document` | every document of up to five tokens (one beyond its value or first error), every insertion, deletion and replacement of a token in three documents of up to 18, integers of up to two digits around the limits of 5 bits, every string of up to three of ten bytes, 14 code points at the limits of the encodings; fresh values and one that is used, with comments of its own | `ReadsJson`, `CommentsKept`, `RoundTrip`, `NothingMixed` |
| `rpc` | three connections for two descriptors, up to two messages and three datagrams under way or handled, a buffer of 12 characters, which holds one netstring but not two, an `unsigned long` of 16 values, both protocols, both formats | `Answered` (but for notifications that name no known method, see `rpc_notifications`), `EveryoneServed`; `TypeOK` is about the descriptor lists |

Why these bounds are enough to be interesting. Three rules are the fewest for
which a rule meets a dealt set that two others have built through different
branches, and for a known action to return after another one. Two files are
the fewest that can conflict over a router id or an in-port; `readdir` may
return them in both orders. Three predicates over four headers give the third
one an already split list in every order, up to as many atoms as headers.
The networks include self-loops, loops through both routers, broadcast (two
links, several out_ports), dead ends, a link to a port no rule mentions,
predicates nobody satisfies, and delivery before, between and after other
out_ports; two packets are enough for a predicate to take none, one or all.
Three rule files are the fewest in which an unreadable one comes after one that
was loaded and before one that shares its id; three arguments are the fewest
for an option whose argument is another option.
Two bytes are the fewest with a separator between them.
Three nodes are the fewest for an array with an absent element beside a
container; the widths of integers matter only where one limit lies between two
numbers of the instance, and each does. Five tokens hold a member with a value and
an array of two elements; nesting, several members and two comments in a row
come from the edited documents. Three connections for two descriptors are the
fewest for which one closed descriptor less is missed; a message's length has
three binary digits.

The `query` runs give a path its meaning independently of the
algorithm: `Journeys` are the ways of *one* packet, and a printed path or loop
must be one for every packet printed with it, and conversely. A journey is a
packet and the hops (out_port, link) it takes; it uses no out_port twice and
does not pass the destination. `TellsOf` says that a printed list of ports tells
of a journey; it discounts the stale mentions of the destination described
below, which do not change which packets get where. Likewise `json_document` compares the reader with the
grammar of JSON, given independently (`IsText`), and `rpc` the handler with the
ids JSON-RPC wants back (`Wanted`).

`EndsTell` says of each way a run can end what it tells of the disk. A run that
exits had a network, scanned every file, read every rule of every router, made
the atoms and looked at every action: no damage to a rule that is read passes
unnoticed. Undefined behaviour is reached in four places only (the destructor
of a run without a network, the average over no rule files, the match of a rule
that was too short, the router of id 0 under `-detailed`), and an uncaught exception
comes of a value of the wrong type only, one the program looked at.

`RoutersMatchFiles` is about a mistake that stays without consequence: an
unreadable rule file is not noticed, and the document of the file before it is
loaded in its place. It can never become a router, because that document's id
is either taken by then or was refused before; the run shows that this holds in
every order of the files.

### Where code and documentation differ

| Run | What is violated |
|---|---|
| `load_rw_priority` | `examples/README.md` gives the lowest overlapping rule the highest priority; a rewrite rule ("rw") is skipped and its headers go to the "fwd" rules above it |
| `query_cut` | `propagate_bdd` returns at the first loop, so out_ports and predicates still to come are not followed and paths are missed; the other three functions find them |
| `life_options` | the usage text puts the options in brackets; a run without `--load`, with `--help` alone too, goes on to destroy an `ap_bdd_list` that was never set |
| `rpc_notifications` | `jsonrpc_handler.h` says the response to a notification is null; `Process` answers one that names no method, or `system.describe`, with an error and the id null |

`CompleteUnlessCut` states what is true of the code all the
same: `propagate_bdd` misses nothing unless it has printed a loop.

### Other contradictions of the documentation

These have no run. The passing properties neither require what the code does
here nor exempt it: they say nothing of these inputs, or hold of them either
way.

- `json.h:619-623` promises that `resize` brings any array to a size; the assertion
  at `jsoncpp.cpp:2601` fails if the array lost an element below its end. The
  model has the failing assertion as a way for the program to end, and no
  property mentions it.
- `json.h:843-850` says `.[n]` is the element at index n; `Path::resolve` with a
  default tests the index the wrong way round (`jsoncpp.cpp:3324`) and returns the
  default. `MadePathsResolve` asks that what it finds is what `resolve` without a
  default finds.
- The comments at `jsoncpp.cpp:754-756` and `775-777` say a number above the largest
  integer is decoded as a double; one whose leading digits are above those of the
  largest integer and whose last is not wraps (`jsoncpp.cpp:778`):
  18446744073709551620 is read as 4. `ReadsJson` is about the integers in range, and
  about what is read as a real.
- `json.h:283` and `295` say that in strict mode the root is an array or an object;
  `null` is taken for both (`jsoncpp.cpp:340`). `ReadsJson` asks strict mode to read
  the arrays and objects of JSON, and nothing that is no JSON.
- `json.h:1728` and `1784` say comments are output according to their placement;
  `isMultineArray` combines two conditions with `&&` instead of `||`
  (`jsoncpp.cpp:3818`, `4094`), so the comments of elements of a short array are
  not written. `CommentsKept` asks for the comments of the root and of members of
  objects within objects, and that none is invented.
- `main.cpp:171` says `-detailed` shows details; a refused file with id 0 is then a
  null dereference (`ap_verifier.cpp:170`). `RuleTables` ends in "crashed" there, and
  `EndsTell` counts it among the four places of undefined behaviour.

### Slips the properties make room for

These contradict no documentation. The property names the slip and shows that
nothing else goes wrong.

- *Queries.* The destination port pushed before a path is printed is never
  popped, so later paths of the same query may mention it where the packet
  never was (`IsReading`).
- *Header length.* Without `--hdr-len` it is 16 although the usage text says 1
  byte; shorter match strings are then read past their end (`Read`).
- *Values.* An iterator that was declared and assigned later does not know its end
  and runs past it (`WalksMeetAll`). `asInt64` and `asUInt64` cast a real to 32 bits;
  numbers are said to convert to strings and `asString` throws
  (`ConversionsHonest`). `qsort` has no order to sort by when ports lie more than
  an int apart (`PortsSorted`).
- *Reader.* `[/**/]` and a comment before a `:` are refused; behind a member a
  comment, any token serves as separator; `{"":1,}` is accepted; `-` is 0
  (`ReadsJson`). A `\u` escape of any kind completes a surrogate pair; an escaped
  NUL ends the text (`RoundTrip`). A value that is read anew keeps the comments of
  its root where the new document has none in their place, since assignment
  leaves comments alone (`NothingMixed`).
- *JSON-RPC.* `"id": null` is refused; an empty batch and `null` are not answered
  (`AnswersByTheBook`). A message that TCP splits, or joins with the next, is
  not processed; a fragment that begins with a number or a text is answered as an
  invalid request (`OnlyWholeCalls`). The descriptor of a client that hung up is
  never closed, so at the descriptor limit a connection is never accepted while
  `WaitMessage` keeps returning at once; a response to a client that is gone may
  kill the server; one client that sends and does not read stalls it for
  everybody (`EveryoneServed`).

### Fairness

`FairSpec` of the verifier's modules is weak fairness of the program's own steps. One thread runs the
code and nothing it does blocks, so it takes a step as long as it has one.
`AtomsTerminate`, `QueryReturns` and `RunEnds` need nothing
else; `RunEnds` takes a query as one step, which `QueryReturns` justifies.
`RpcSockets` has weak fairness of `Serving`, the steps of `WaitMessage` that wait for
no client that is there: its owner calls it in a loop. It blocks in two places.
`select` returns when something is ready. `send` returns when the client has read
enough of the response, or is gone, so `Respond` is part of `Serving` only in the
second case: no fairness says that a client reads, and a behaviour in which one
never does (`Stalled` for ever) is one of those `EveryoneServed` names. Clients,
the network and the owner's other calls have no fairness.

## 4. Proofs

The theorems hold for every header space, set of ports, rule, file, predicate
list, header length, match string, network, query, disk, command line and number
of clients, under
the modules' named assumptions only: `match2bdd` is a function to header sets,
files hold documents, the header space is not empty, a byte has a bit, a
network's lists are lists of ports, there are finitely many ports, atoms
partition the headers, a run has a list of arguments and a list of files,
messages are sequences of characters, their lengths are written in a base from
two to ten, the bounds on descriptors and on the buffer are natural
numbers, `Reader` makes a well-formed value of every message, the name of a method is
an integer like all texts, `LargestInt` holds every `UInt`, and a program
that edits values starts with, stores and names what a C++ program can write down (trees,
indexes and names that are integers). Each of these modules proves three facts about its strengthening
`IInv` (it holds at first, every step keeps it, it implies the invariants); the
same `IInv` was put to TLC on the instance of the run before it was proved.

| Module | Theorems (of `Spec`) |
|---|---|
| `RuleTablesProofs` | `TypeCorrect`, `PriorityLookupCorrect`, `DealtExactCorrect`, `RoutedInportCorrect`, `OrderCorrect`, `NothingReassignedCorrect` |
| `AtomicPredicatesProofs` | `TypeCorrect`, `PartitionCorrect`, `ResolvedCorrect`, `CoarsestCorrect`, `ConversionCorrect`, `Refinement` |
| `HeaderMatchProofs` | `TypeCorrect`, `LoadCorrect`, `DenotationCorrect`, `OrderCorrect`, `BitsCorrect` |
| `PropagateProofs` | `TypeCorrect`, `PrintsCorrect`, `CompletenessCorrect`, `QuietCorrect` |
| `AtomQueryProofs` | `QueryRefinement`, `HeadersCorrect`, `ConversionLosesNothing` |
| `LifeCycleProofs` | `TypeCorrect`, `RoutersCorrect`, `EndsTold`, `AnswersCorrect` |
| `JsonValueProofs` | `TypeCorrect`, `WalksCorrect`, `PathsResolve`, `ConversionsAre`, `PortsAreSorted` |
| `RpcProofs` | `SocketsCorrect`, `Framing`, `AnswersCorrect`, `DatagramsCorrect` |

**`RuleTablesProofs`.**
`PriorityLookup` is not inductive by itself: to know that what a rule adds is
exactly what it decides, the dealt set must hold *every* header covered by a
processed rule (`Coverage`) and nothing but the tables' headers (`DealtExact`),
and the file being loaded must be its router's (`Cursor`). `IInv` is the
conjunction. Steps that load no rule are shown to leave the tables alone and to
change `Processed` only for rules that cover nothing (`PassingStep`), so the
three branches of the loop are what is left; they have one common effect
(`LoadEffect`), from which each conjunct is preserved.
`OrderIndependent` is about the end of a load and says nothing of the way there.
What leads to it is that an in-port is routed only for a rule of its router and
as soon as a rule that forwards from it has been processed (`Routing`), and that
without conflicts every file that has been read is the router it names, so that
no file is dropped because of one that came before (`Settled`).

**`AtomicPredicatesProofs`.** The strengthening is
`Stages` (the loop never walks past the list; the finished list is what the
conversion uses; converted predicates are the atoms met). `SplitEffect` says
where every atom of the next list comes from: it is an atom of the list or a
part of its last one. `Coarsest` needs that the two parts of a cut atom are
separated by the predicate that cut it, and that parts inherit the separations
of the atom. For the refinement, `Partition`, `Resolved` and `Coarsest`
together say that the finished list holds exactly the classes
(`AtomsAreClasses`), so that moving it to `ap_bdd_list` is the one abstract
step `MakeAtoms`, every conversion is a `Convert`, and all else stutters.

**`HeaderMatchProofs`.** `BitsInPlace` has three parts, each a theorem, and is one
itself (`BitsCorrect`). For well-formed strings: with q bytes and r characters
more behind it the scan is at variable q * ByteBits + r (`InStep`), and the cube
has every bit read so far (`Built`). `NextBit` is the arithmetic: a separator is
due exactly when r = ByteBits, and otherwise the next variable exists and its
character is the next one; it rests on the uniqueness of quotient and rest
(`DivMod`). For all other strings of full length, `idx` counts the bits among the
characters read and each is in the cube at its count (`InOrder`). The count is a
cardinality (`BitsAmong`), which grows by one at a bit and not at a separator.

**`PropagateProofs`.** A query walks the network depth first, with its
recursion as the state; none of its properties is inductive, because the stack
holds what they are about. `FramesOK` describes one activation, the k-th of the
stack: every packet it holds has made one journey of k - 1 hops, of which
`passed_port` tells (`Traced`); it was entered with packets, and so was its
predicate (`Entered`); while links are followed the last entry is the out_port
they belong to, one that was not there before (`Following`). The type of `stack`
needs it: an activation has as many hops behind it as there are activations
below it, and their out_ports are distinct and have links, so the depth is
bounded by the number of such ports (`TypeOK`), loops in the network or not.
`PrintsAreReal` follows because whatever is printed is printed from an
activation's packets and list (`PrintedNow`). For `CompleteUnlessCut` and
`QuietMeansLoopFree` the invariant looks ahead: a journey to the destination is
printed, or some activation on the stack has come along its first hops, has its
packet, and has the next out_port and link not behind its loop indexes
(`Ahead`, `PathsToCome`); while no loop is printed, the same holds of every
out_port that leads back to one already used (`LoopsToCome`). An action that
moves an index leaves ahead what was ahead, except for the element it leaves
behind, which it has followed or printed (`AheadStep`); activations below the top
are untouched (`LowerKept`); a return leaves an activation with nothing ahead of
it. At the end the stack is empty, so nothing is ahead and all is printed.
The first part of the module has what these need: `Trail`, `Inport` and `Visited` of a
journey with a hop more, what a list with stale mentions tells, and the
`Cardinality` behind the bound.

**`AtomQueryProofs`.** A query on atoms differs from one on headers in what it
intersects, and every branch it takes is decided by whether an intersection is
empty. Since atoms do not overlap, `HeadersOf` carries intersections to
intersections (`HeadersMeet`), and since none is empty, only the empty set of
indexes to the empty set of headers (`HeadersNone`). So the two queries see the
same guards (`GuardsOnHeaders`), and each step is the step of the same name on
headers (`StepOnHeaders`): `QueryRefinement`. The type of the query is kept, so
the two agree in going on after a loop, too. The properties of `Propagate` carry over in a
stronger form, about every single header (`HeadersCorrect`): a header makes
the journeys of its atom, in the same network (`SameJourneys`). What the network
on headers is, `ConversionLosesNothing` says: `convert_router_to_ap` followed by
`HeadersOf` is the identity on networks whose predicates cut no atom, which is
`AtomicPredicates!Resolved`; with an atom cut it would give a larger predicate.
Both formulas were also put to TLC on the `query` instance, where two atoms
stand for three headers; they are not among that run's properties because
the theorems cover them.

**`LifeCycleProofs`.** `RoutersMatchFiles` holds although a stale document can be
in `root`, because the document left over is one that was scanned (`RootScanned`)
and no id of a scanned document is free any more (`IdsTaken`).
`EndsTell` needs how far the run has come: one past the scan has an empty
directory and has counted every file (`FilesCounted`), one past the atoms has its
`ap_bdd_list` (`Phases`), no rule of a router is damaged while the run goes on
(`RulesReadable`), and the actions behind are the first of the policy's, the
queries among them answered (`ActionsDone`). What a run that has ended was ended
by (`Causes`) is proved step by step along with these, `AnswersAgree` from the order
of the phases (`AnswersLast`).

**`JsonValueProofs`.** There is no induction over trees here, because a value is
not a recursive datum but a function from paths: what makes it a tree is that
the parent of every node is a node, an array or an object, and that the last
key is of its kind (`Tree`, shown to be what `WellFormed` says of the children of
every node). So an operation deep in a value is an operation on a function:
the node at a path is a tree (`AtWellFormed`), a tree put at a path that is a node
or a new child of one gives a tree (`PutWellFormed`), and what was put is
found (`AtPut`). Assignment, `swap`, `Value( const Value & )` and `setComment` change
the root's data and no path; `resize`, `clear` and `removeMember` keep the paths
under some keys (`Only`). `IInv` says of the walk that it has met the children
before its cursor in the order of their keys, which is a fact about `Keys`: a finite set
of integers is listed by its ranks, each once (`Ranks`), and of a program that
ran past the end of a walk that its iterator did not know the end
(`WalksCorrect`). `resolve` and `make` are loops over the arguments, functions
of the number of arguments followed; they get their values from `Recursion`,
and what `MadePathsResolve` says of them is proved by an invariant of each loop. After i
arguments `make` has changed nothing of the value but nulls on the way (`Kept_`), and
the way so far leads through containers of the right kind, which later arguments do
not take away (`MadeSoFar`); so `resolve` finds its way through what was made
(`MadeResolves`), for paths of any length. That `resolve` with a default, when it
finds something, has come the way of the one without is an invariant of the two
loops run side by side (`FoundAlike`). `ConversionsHonest` is arithmetic on
the limits of the types, the cut of a real towards zero (`TruncatedIs`) being the
part that the solvers need help with. `PortsSorted` needs that the low bits of
a difference are the difference while it fits an int (`CompareIs`), so that
what `qsort` is handed is an order.

**`RpcProofs`.** `SocketsCorrect` is the `TypeOK` of the sockets. To be inductive it
needs where a round of `WaitMessage` has come to (`Rounds`): outside of one nothing is
left to serve or to purge, what `select` found readable is so still when its
descriptor's turn comes (only its own turn takes anything off its wire), and only
clients that are gone are purged, which is why one that is there stays on the
list; and which connections there can be (`Connected`): one that has
been made waits for `accept` once or has a descriptor, not both. `accept` takes
the least free descriptor (`HasLeast`), `list.remove` is a recursion over
the list (`WithoutKeeps`).
`Framing` is about `encode` and `decode`, for every text, base and range of
`unsigned long` that the whole fits into: the digits `sprintf` writes are read
back as the same number (`LengthReads`, along the recursion of `LengthText`), none
of them is the colon, and so all that begins like an encoded text is decoded by
its length alone (`DecodeBegun`), wherever the comma is that `decode` looks
for. It says nothing of what follows a piece that was thrown away: what is left of
a message can look like another one, which is why `Answered` is, for TCP, a
property of the messages of its instance.
`AnswersCorrect` is `AnswersByTheBook`, for every list of methods and every message that
holds no notification that names no method or `system.describe`: of those nothing is
proved, and `rpc_notifications` shows what becomes of them. A
value is again a function from paths: filled with children it has these and no
others (`FilledIs`), so that a response has the id it was made with
(`ResponseIs`), and what Reader gives is well-formed down to the ids of the elements
of a batch (`WellFormedIs`). One value is answered as wanted by the cases of `Process`
(`OneAnswered`); `ProcessBatch` and `Wanted` are two loops over the elements,
which are shown to stay in step (`BatchIs`). The invariant is that methods have names.
`DatagramsCorrect` adds that nothing is under way or handled that was not sent
(`DatagramInv`), and that what is handed on of a datagram cut to the buffer is
the message or no call (`WholeOrNothing`): for netstrings because of `Framing`, for
bare texts because the beginning of an array or object is none, or lacks
only blanks and comments, which is an assumption about `Reads` (`MessagesAssumption`). Functions defined by recursion get their values from
`Recursion`, and induction over them is the least counterexample (`UpTo`).

**Only model-checked.** `AtomsTerminate`, `QueryReturns`,
`RunEnds` and `EveryoneServed`: liveness under fairness is beyond the prover.
`Ordered`: `operator <` is recursive over values, and so are the reader and the
writers, hence the properties of `JsonDocument`; these modules declare `RECURSIVE`
operators, which the prover does not take, and induction over data would be needed
besides. `Answered` for TCP, as said above.

## 5. Not modelled, and why

- **Life cycle, the rest**: `add_link` as state (a network's links are constants
  of `Propagate`), and a caller of the class who makes the atoms or converts
  twice, which `main` does not.
- **Capacity of the bitset** (`BITSETLEN`): an `ap_nodeB` with more atoms than
  that writes outside its object. **A second conversion**: no caller makes one.
- **Printing**: changes nothing. **BuDDy, log4cxx**: external.
- **JSON library, the rest**: the texts of error messages and the line numbers
  in them, indentation, reals that are not integral (how their decimals are
  printed and read), allocation failure, the YAML mode of `FastWriter`, the
  variant compiled with `JSON_VALUE_USE_INTERNAL_MAP`, and CppTL. Characters
  outside strings are tokens: how a tokenizer finds the end of one is not a
  question the models answer.
- **JSON-RPC, the rest**: what a client does with a response, how much of
  one each turn of the loop around `send` takes, the timeout of `WaitMessage` (its milliseconds below a
  second are divided instead of multiplied, so that short waits do not wait; the
  models have no clock), `Bind`, `Listen`, address lookup
  (`networking.cpp`), and the thread and mutex wrappers of `system.cpp`, which
  nothing in the repository uses.

## 6. Plan

In order of importance; all items are done.

1. `RuleTables`, its runs, its proofs.
2. `Ternary`, `HeaderMatch`, its proofs.
3. `AtomicPredicates`, its run, its invariants proved.
4. `Propagate`, its runs.
5. `Atoms`, the abstract specification of 3, the refinement checked and proved.
6. `LifeCycle`, its runs.
7. `PortList`, over the values of 8.
8. `JsonTree`, `JsonPath`, `JsonPathText`, `JsonOrder`, `JsonValue`; `JsonReader`,
   `JsonString`, `JsonWriter`, `JsonDocument`.
9. `Netstring`, `RpcMethods`, `RpcHandler`, `RpcSockets`, `RpcServer`.
10. `AtomQuery`: a query over atom indexes implements the query over headers,
    proved. (The bitset's capacity and a second conversion are left out, see
    section 5.)
11. The proofs about `Propagate`: types and depth, what is printed is real, and
    nothing is left out.
12. The proofs about `LifeCycle`, and `OrderIndependent`.
13. The proofs about the sockets, the framing, the answers and the datagrams.
14. The proofs about `JsonValue`: values as functions from paths, the
    operations, iterators, paths, conversions and port lists.
