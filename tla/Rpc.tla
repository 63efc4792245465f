-------------------------------- MODULE Rpc --------------------------------
(***************************************************************************)
(* cactus rpc (tools/cactus/rpc): SimpleRpcChannel::CallMethod dials a     *)
(* connection per call; SimpleRpcServer::Serve serves one connection after *)
(* the other.  Request and response are three pieces each: the fixed       *)
(* header with the sizes, the header message, the body (an error has no    *)
(* body).  A client's fiber may be cancelled at any moment, which closes   *)
(* its connection.  A request may be one that only another program sends.  *)
(***************************************************************************)
EXTENDS Integers, Sequences, FiniteSets

CONSTANT Client, Nobody

\* The service answers, throws, is not registered, has no such method; the header or the
\* body does not parse, which goes unnoticed of the body: it is served all the same.
Request == {"served", "throws", "unknown", "noMethod", "badHeader", "badBody"}

VARIABLES request,              \* per client: what it asks for
          client,               \* per client: "idle", "dialed", "ok", "error" or "left"
          sent,                 \* per client: pieces written
          back,                 \* per connection: the pieces the server has written
          taken,                \* per client: pieces of the response read
          ended,                \* connections the server has closed
          backlog,              \* connections not accepted yet
          conn, server,         \* Serve: its connection; "accept", "read", "call", "reply",
          count,                \*   "fail" or "dead" (also: crashed); pieces read or written
          calls                 \* per client: how often the service ran for it

clients == <<request, client, sent, taken>>
vars == <<clients, back, ended, backlog, conn, server, count, calls>>

Init == /\ request \in [Client -> Request] /\ client = [c \in Client |-> "idle"]
        /\ sent = [c \in Client |-> 0] /\ back = [c \in Client |-> <<>>]
        /\ taken = [c \in Client |-> 0] /\ ended = {} /\ backlog = <<>>
        /\ conn = Nobody /\ server = "accept" /\ count = 0 /\ calls = [c \in Client |-> 0]
-----------------------------------------------------------------------------
Becomes(c, how) == client' = [client EXCEPT ![c] = how]
Finish(c, how) == Becomes(c, how) /\ UNCHANGED <<request, sent, taken>>

Dial(c) == /\ client[c] = "idle" /\ Finish(c, "dialed") /\ backlog' = Append(backlog, c)
           /\ UNCHANGED <<back, ended, conn, server, count, calls>>

\* Write: a peer that has gone may make it throw.
Write(c) == /\ client[c] = "dialed" /\ sent[c] < 3
            /\ \/ sent' = [sent EXCEPT ![c] = @ + 1] /\ UNCHANGED <<request, client, taken>>
               \/ c \in ended /\ Finish(c, "error")
            /\ UNCHANGED <<back, ended, backlog, conn, server, count, calls>>

\* ReadFull of the next piece; the end of the stream makes it throw, and CallMethod
\* turns every exception into an RpcCallError.
HasRpcError(c) == back[c][2] = "error"
ReadResponse(c) ==
    /\ client[c] = "dialed" /\ sent[c] = 3
    /\ IF taken[c] < Len(back[c])
       THEN /\ taken' = [taken EXCEPT ![c] = @ + 1] /\ UNCHANGED <<request, sent>>
            /\ \/ taken[c] = 0 /\ UNCHANGED client
               \/ taken[c] = 1 /\ IF HasRpcError(c) THEN Becomes(c, "error")
                                  ELSE IF back[c][1] = "bodiless" THEN Becomes(c, "ok")
                                  ELSE UNCHANGED client
               \/ taken[c] = 2 /\ Becomes(c, "ok")
       ELSE c \in ended /\ Finish(c, "error")
    /\ UNCHANGED <<back, ended, backlog, conn, server, count, calls>>

\* The fiber of the call is cancelled, or its time-out expires.
Leave(c) == /\ client[c] = "dialed" /\ Finish(c, "left")
            /\ UNCHANGED <<back, ended, backlog, conn, server, count, calls>>
-----------------------------------------------------------------------------
Gone(c) == client[c] # "dialed"         \* the client's end is closed
Now(what, n) == server' = what /\ count' = n

Accept == /\ server = "accept" /\ backlog # <<>>
          /\ conn' = Head(backlog) /\ backlog' = Tail(backlog) /\ Now("read", 0)
          /\ UNCHANGED <<clients, back, ended, calls>>

\* ReadFull of the next piece: after the second one the header is parsed and the service
\* looked up.  A method that is not found is not noticed.
ReadRequest ==
    /\ server = "read"
    /\ \/ /\ sent[conn] > count
          /\ IF count = 1 /\ request[conn] \in {"unknown", "badHeader"} THEN Now("fail", 0)
             ELSE Now(IF count = 2 THEN "call" ELSE "read", count + 1)
       \/ Gone(conn) /\ Now("fail", 0)
    /\ UNCHANGED <<clients, back, ended, backlog, conn, calls>>

Close == /\ ended' = ended \cup {conn} /\ conn' = Nobody

\* The types of the method are asked for first: without a method that is a null pointer
\* dereferenced, and the program ends.
CallMethod ==
    /\ server = "call" /\ UNCHANGED <<clients, back, backlog>>
    /\ IF request[conn] = "noMethod"
       THEN Now("dead", 0) /\ Close /\ UNCHANGED calls
       ELSE /\ calls' = [calls EXCEPT ![conn] = @ + 1] /\ UNCHANGED <<ended, conn>>
            /\ Now(IF request[conn] = "throws" THEN "fail" ELSE "reply", 0)

\* The pieces of the response, then CloseWrite; once the client has gone each of
\* them may throw, in the catch block right out of Serve.
Pieces == IF server = "reply" THEN <<"body", "header", conn>> ELSE <<"bodiless", "error">>
Reply ==
    /\ server \in {"reply", "fail"}
    /\ \/ /\ count < Len(Pieces) /\ Now(server, count + 1)
          /\ back' = [back EXCEPT ![conn] = Append(@, Pieces[count + 1])]
          /\ UNCHANGED <<ended, conn>>
       \/ count = Len(Pieces) /\ Now("accept", 0) /\ Close /\ UNCHANGED back
       \/ /\ client[conn] = "left" /\ UNCHANGED back
          /\ IF server = "reply" THEN Now("fail", 0) /\ UNCHANGED <<ended, conn>>
             ELSE Now("dead", 0) /\ Close
    /\ UNCHANGED <<clients, backlog, calls>>

\* The server is destroyed, or has crashed, with its listener: what was not accepted is
\* reset.
Destroy == /\ server = "dead" /\ backlog # <<>> /\ backlog' = <<>>
           /\ ended' = ended \cup {backlog[i] : i \in DOMAIN backlog}
           /\ UNCHANGED <<clients, back, conn, server, count, calls>>

Next == \/ \E c \in Client : Dial(c) \/ Write(c) \/ ReadResponse(c) \/ Leave(c)
        \/ Accept \/ ReadRequest \/ CallMethod \/ Reply \/ Destroy

Spec == Init /\ [][Next]_vars
-----------------------------------------------------------------------------
\* A call that returns has been executed once and has the response to its own request,
\* one that failed has been executed at most once; an error that is reported to the client
\* is one of its own; and neither a service that throws, nor one that is unknown, nor a
\* header that does not parse ends the server: only a client that left can, and a method
\* that does not exist.
CallsAnswered ==
    /\ \A c \in Client : client[c] = "ok" => /\ request[c] \in {"served", "badBody"} /\ calls[c] = 1
                                             /\ back[c] = <<"body", "header", c>>
    /\ \A c \in Client : calls[c] <= 1
    /\ \A c \in Client : <<"bodiless", "error">> = back[c] /\ client[c] # "left" =>
                            request[c] \in {"throws", "unknown", "badHeader"}
    /\ server = "dead" => \E c \in Client : client[c] = "left" \/ request[c] = "noMethod"
=============================================================================
