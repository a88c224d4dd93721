------------------------------ MODULE RpcSockets ------------------------------
(***************************************************************************)
(* TcpServer and UdpServer (jsonrpc_tcpserver.cpp, jsonrpc_udpserver.cpp)  *)
(* among clients that connect, send, and hang up when they like.  TCP is a *)
(* stream that recv cuts anywhere; a datagram is lost, repeated or late.   *)
(* The program that owns the server calls WaitMessage again and again, and *)
(* between two calls may add and delete methods or close the clients.      *)
(***************************************************************************)
EXTENDS JsonTree, RpcMethods, Netstring

CONSTANTS Protocols, Formats,   \* subsets of {"TCP", "UDP"}, {"RAW", "NETSTRING"}
          Sends,                \* the messages that clients send
          TextOf(_),            \* the text of one
          Reads(_),             \* what Reader makes of a text: whether it is ok, the value
          Replies(_, _),        \* whether Handler, with some methods, answers a text
          Name,                 \* of the method that is added and deleted
          Conns,                \* connections, 1..n in the order they are made
          MaxFd,                \* bound on descriptors, RLIMIT_NOFILE
          BufSize,              \* the 1500 bytes of buf
          MaxSent, MaxMethods,  \* bounds on the messages sent, on the methods
          MaxArrivals           \* bound on the datagrams, repeated ones included

ASSUME SocketsAssumption ==
  {MaxFd, BufSize} \subseteq Nat /\ \A m \in Sends : TextOf(m) \in Seq(STRING)

VARIABLES
  protocol, format,  \* m_protocol, m_format
  pc,                \* where WaitMessage is
  m_clients, m_purge,
  ready,             \* what is left of the descriptors select found ready
  fds,               \* open descriptors of connections, and whose they are
  peer,              \* "new", "up", or "gone" when one side has closed
  backlog,           \* the connections that wait for accept
  wire,              \* the characters sent to the server and not yet received
  datagrams,         \* those under way, with who sent them
  sent,              \* per connection, the messages sent
  handled,           \* per connection, the texts that Handler took for a call or a batch
  methods            \* m_methods

vars == <<protocol, format, pc, m_clients, m_purge, ready, fds, peer,
          backlog, wire, datagrams, sent, handled, methods>>

Init ==
  /\ protocol \in Protocols /\ format \in Formats
  /\ pc = "idle"
  /\ m_clients = <<>> /\ m_purge = <<>> /\ ready = {}
  /\ fds = <<>>
  /\ peer = [k \in Conns |-> "new"]
  /\ backlog = <<>>
  /\ wire = [k \in Conns |-> <<>>]
  /\ datagrams = <<>>
  /\ sent = [k \in Conns |-> <<>>]
  /\ handled = [k \in Conns |-> <<>>]
  /\ methods = Handler

-----------------------------------------------------------------------------
(***************************************************************************)
(* The clients and the network (external), but for TcpClient::Send and     *)
(* UdpClient::Send.                                                        *)
(***************************************************************************)

server == <<protocol, format, pc, m_clients, m_purge, ready, fds, handled, methods>>
clients == <<peer, backlog, wire, datagrams, sent>>

InAll(seqs) == FoldFunction(LAMBDA s, n : Len(s) + n, 0, seqs)

Connect(k) ==
  /\ protocol = "TCP" /\ peer[k] = "new" /\ \A j \in 1..(k - 1) : peer[j] # "new"
  /\ peer' = [peer EXCEPT ![k] = "up"]
  /\ backlog' = Append(backlog, k)
  /\ UNCHANGED <<server, wire, datagrams, sent>>

HangUp(k) ==
  /\ peer[k] = "up"
  /\ peer' = [peer EXCEPT ![k] = "gone"]
  /\ UNCHANGED <<server, backlog, wire, datagrams, sent>>

Send(k, m) ==
  /\ InAll(sent) < MaxSent
  /\ IF protocol = "TCP"
     THEN /\ peer[k] = "up"
          /\ wire' = [wire EXCEPT ![k] = @ \o Encoded(format, TextOf(m))]
          /\ UNCHANGED datagrams
     ELSE /\ datagrams' = Append(datagrams, [from |-> k, text |-> Encoded(format, TextOf(m))])
          /\ UNCHANGED wire
  /\ sent' = [sent EXCEPT ![k] = Append(@, m)]
  /\ UNCHANGED <<server, peer, backlog>>

Lose(i) ==
  /\ datagrams' = RemoveAt(datagrams, i)
  /\ UNCHANGED <<server, peer, backlog, wire, sent>>

Repeat(i) ==
  /\ Len(datagrams) + InAll(handled) < MaxArrivals
  /\ datagrams' = Append(datagrams, datagrams[i])
  /\ UNCHANGED <<server, peer, backlog, wire, sent>>

-----------------------------------------------------------------------------
(***************************************************************************)
(* TcpServer.                                                              *)
(***************************************************************************)

Readable(fd) == wire[fds[fd]] # <<>> \/ peer[fds[fd]] = "gone"
FreeFds == (1..MaxFd) \ DOMAIN fds

\* Mutant: select is given max_sd, not max_sd + 1.
Select_BelowMax ==
  LET found == {fd \in ToSet(m_clients) : Readable(fd) /\ \E other \in ToSet(m_clients) : other > fd}
  IN /\ pc = "idle" /\ protocol = "TCP"
     /\ (backlog # <<>> /\ m_clients # <<>>) \/ found # {}
     /\ ready' = found
     /\ pc' = IF backlog # <<>> THEN "accept" ELSE "serve"
     /\ UNCHANGED <<protocol, format, m_clients, m_purge, fds, handled, methods, clients>>

\* WaitMessage: select blocks until a socket is ready.
Select ==
  LET found == {fd \in ToSet(m_clients) : Readable(fd)}
  IN /\ pc = "idle" /\ protocol = "TCP"
     /\ backlog # <<>> \/ found # {}
     /\ ready' = found
     /\ pc' = IF backlog # <<>> THEN "accept" ELSE "serve"
     /\ UNCHANGED <<protocol, format, m_clients, m_purge, fds, handled, methods, clients>>

\* Accept: fails if there is no descriptor left, and nobody asks.
Accept ==
  LET client == Min(FreeFds)
  IN /\ pc = "accept"
     /\ pc' = "serve"
     /\ IF FreeFds # {}
        THEN /\ fds' = [fd \in DOMAIN fds \cup {client} |->
                         IF fd = client THEN Head(backlog) ELSE fds[fd]]
             /\ m_clients' = Append(m_clients, client)
             /\ backlog' = Tail(backlog)
        ELSE UNCHANGED <<fds, m_clients, backlog>>
     /\ UNCHANGED <<protocol, format, m_purge, ready, peer, wire, datagrams, sent,
                    handled, methods>>

\* What both servers hand to Handler of the characters of one recv, none or
\* one text: nothing is kept for the next recv.
Given(chars) ==
  LET got == Decoded(format, chars) IN IF got.thrown THEN <<>> ELSE <<got.text>>

\* What Reader makes an object or an array of.  Any other text is answered, but
\* as an error.
IsCall(parsed) == parsed.ok /\ type_(parsed.root) \in Containers
Calls(texts) == IF texts # <<>> /\ IsCall(Reads(texts[1])) THEN texts ELSE <<>>

\* The first descriptor of m_clients that is still to be served.
NextReady == m_clients[SelectInSeq(m_clients, LAMBDA fd : fd \in ready)]

\* Recv, up to the response.  WaitMessage goes on to the next descriptor, but
\* if there is a response only once that is sent.
Recv(fd) ==
  LET k == fds[fd]
      n == IF Len(wire[k]) < BufSize THEN Len(wire[k]) ELSE BufSize
  IN IF wire[k] = <<>>
     THEN /\ m_purge' = Append(m_purge, fd) /\ ready' = ready \ {fd}
          /\ UNCHANGED <<wire, handled, pc>>
     ELSE \E i \in 1..n :
            LET given == Given(SubSeq(wire[k], 1, i))
            IN /\ wire' = [wire EXCEPT ![k] = SubSeq(@, i + 1, Len(@))]
               /\ handled' = [handled EXCEPT ![k] = @ \o Calls(given)]
               /\ IF given # <<>> /\ Replies(methods, given[1])
                  THEN pc' = "send" /\ UNCHANGED ready
                  ELSE ready' = ready \ {fd} /\ UNCHANGED pc
               /\ UNCHANGED m_purge

Serve ==
  /\ pc = "serve" /\ ready # {}
  /\ Recv(NextReady)
  /\ UNCHANGED <<protocol, format, m_clients, fds, peer, backlog, datagrams, sent, methods>>

\* The loop around send: the socket blocks, so it ends when the client has read
\* enough of the response, which it need never do.
Respond ==
  /\ pc = "send"
  /\ pc' = "serve"
  /\ ready' = ready \ {NextReady}
  /\ UNCHANGED <<protocol, format, m_clients, m_purge, fds, handled, methods, clients>>

\* To send to a client that is gone raises SIGPIPE, unless its host has not said
\* so yet.
BrokenPipe ==
  /\ pc = "send" /\ peer[fds[NextReady]] = "gone"
  /\ pc' = "killed"
  /\ UNCHANGED <<protocol, format, m_clients, m_purge, ready, fds, handled, methods, clients>>

\* list.remove(fd) for every fd of gone.
Without(list, gone) ==
  LET kept[i \in 0..Len(list)] ==
        IF i = 0 THEN <<>>
        ELSE IF list[i] \in gone THEN kept[i - 1] ELSE Append(kept[i - 1], list[i])
  IN kept[Len(list)]

\* Mutant: what was purged stays on the list of those to purge.
Purge_Again ==
  /\ pc = "serve" /\ ready = {}
  /\ m_clients' = Without(m_clients, ToSet(m_purge))
  /\ pc' = "idle"
  /\ UNCHANGED <<protocol, format, m_purge, ready, fds, handled, methods, clients>>

\* The end of WaitMessage.  The descriptors are taken off the list, not closed.
Purge ==
  /\ pc = "serve" /\ ready = {}
  /\ m_clients' = Without(m_clients, ToSet(m_purge))
  /\ m_purge' = <<>>
  /\ pc' = "idle"
  /\ UNCHANGED <<protocol, format, ready, fds, handled, methods, clients>>

\* Close: the sockets of the list; the listening one stays.
Close ==
  /\ pc = "idle" /\ m_clients # <<>>
  /\ fds' = Restrict(fds, DOMAIN fds \ ToSet(m_clients))
  /\ m_clients' = <<>>
  /\ peer' = [k \in Conns |-> IF \E fd \in ToSet(m_clients) : fds[fd] = k THEN "gone" ELSE peer[k]]
  /\ UNCHANGED <<protocol, format, pc, m_purge, ready, backlog, wire, datagrams, sent, handled, methods>>

-----------------------------------------------------------------------------
\* UdpServer::WaitMessage and Recv: one datagram, whichever arrives, as much
\* of it as fits.
RecvFrom(i) ==
  LET d == datagrams[i]
      n == IF Len(d.text) < BufSize THEN Len(d.text) ELSE BufSize
  IN /\ pc = "idle"
     /\ datagrams' = RemoveAt(datagrams, i)
     /\ handled' = [handled EXCEPT ![d.from] = @ \o Calls(Given(SubSeq(d.text, 1, n)))]
     /\ UNCHANGED <<protocol, format, pc, m_clients, m_purge, ready, fds, peer,
                    backlog, wire, sent, methods>>

\* The program that owns the server.
ChangeMethods ==
  /\ pc = "idle"
  /\ \/ Len(methods) < MaxMethods /\ methods' = AddMethod(methods, Name)
     \/ \E name \in {Name, SystemDescribeName} : methods' = DeleteMethod(methods, name)
  /\ UNCHANGED <<protocol, format, pc, m_clients, m_purge, ready, fds, handled, clients>>

Killed == pc = "killed" /\ UNCHANGED vars

\* What the server does without waiting for a client that is there.
Serving ==
  \/ Select \/ Accept \/ Serve \/ Purge
  \/ pc = "send" /\ peer[fds[NextReady]] = "gone" /\ Respond
  \/ BrokenPipe

Next ==
  \/ \E k \in Conns : Connect(k) \/ HangUp(k) \/ \E m \in Sends : Send(k, m)
  \/ \E i \in DOMAIN datagrams : Lose(i) \/ Repeat(i) \/ RecvFrom(i)
  \/ Serving \/ Respond
  \/ Close \/ ChangeMethods
  \/ Killed

\* The program calls WaitMessage again and again.  Nothing says that a client
\* reads what it is sent.
Spec == Init /\ [][Next]_vars /\ WF_vars(Serving)

-----------------------------------------------------------------------------
(***************************************************************************)
(* Properties.                                                             *)
(***************************************************************************)

\* Every descriptor of the list is open and there once, only listed ones are
\* served or purged, and a connection has one descriptor at most; so a
\* client that is there is served until it hangs up.  What is open and not
\* listed any more belongs to a client that hung up: it is never closed.
TypeOK ==
  /\ pc \in {"idle", "accept", "serve", "send", "killed"}
  /\ pc = "send" => ready # {}
  /\ IsInjective(m_clients) /\ ToSet(m_clients) \subseteq DOMAIN fds
  /\ ready \cup ToSet(m_purge) \subseteq ToSet(m_clients)
  /\ ready \cap ToSet(m_purge) = {} /\ IsInjective(m_purge)
  /\ IsInjective(fds) /\ DOMAIN fds \subseteq 1..MaxFd
  /\ \A fd \in DOMAIN fds : peer[fds[fd]] = "up" => fd \in ToSet(m_clients)
  /\ \A k \in ToSet(backlog) : \A fd \in DOMAIN fds : fds[fd] # k

Unaccepted(k) == k \in ToSet(backlog)
Unread(k) == wire[k] # <<>> /\ \E fd \in ToSet(m_clients) : fds[fd] = k
Waits(k) == Unaccepted(k) \/ Unread(k)

\* The server is at the response to a client that is there and does not read.
Stalled == pc = "send" /\ peer[fds[NextReady]] = "up"

\* Every connection is accepted, and all that its client sent is read, in the
\* end, unless the descriptors are used up before it is accepted, its
\* descriptor is taken off the list, or a response to a client that is gone
\* kills the server; and unless one client, which stays and does not read its
\* response, stalls the server for all of them and for ever.
EveryoneServed ==
  \/ <>[]Stalled
  \/ \A k \in Conns :
       Waits(k) ~> (~Waits(k) \/ (Unaccepted(k) /\ FreeFds = {}) \/ pc = "killed")
===============================================================================
