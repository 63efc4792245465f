------------------------------- MODULE Socks -------------------------------
(***************************************************************************)
(* socks4 and socksd: a client dials through a chain of proxies, each of   *)
(* which runs the server.  Node 0 is the client, 1..Chain the proxies and  *)
(* Chain + 1 the end point; link k is the k-th connection of the chain,    *)
(* served by the k-th proxy fiber.  A request and an answer is one         *)
(* message.  Every dial, read and write may fail, at any moment.           *)
(***************************************************************************)
EXTENDS Integers, Sequences, FiniteSets

CONSTANTS Chain,                \* the number of proxies
          MaxData               \* bound on what the client and the end point send

SocksConstants == Chain \in Nat

Proxy == 1..Chain
Link == 1..Chain + 1

VARIABLES up, down,             \* per link, the messages under way from and to the client
          upEnd, downEnd,       \* per link: that side was closed for writing
          dialed,                 \* per link: the node that was dialed, 0 for none
          pc,                   \* per proxy: "accept", "refused", "done" without relaying,
                                \*   "relay", then "closed"
          relays,               \* per proxy: the directions it still relays
          failed,               \* history: the directions a relay gave up in its catch block
          client, hop,          \* "dial", "ask", "answer", "connected" or "nullptr"; the proxy asked
          badUser,              \* proxies that get a user name of more than 256 bytes
          sentUp, sentDown, gotUp, gotDown      \* history of the data at the two ends

links == <<up, down, upEnd, downEnd, dialed>>
ends == <<sentUp, sentDown, gotUp, gotDown>>
vars == <<links, pc, relays, failed, client, hop, badUser, ends>>

Init == /\ up = [k \in Link |-> <<>>] /\ down = [k \in Link |-> <<>>] /\ upEnd = {} /\ downEnd = {}
        /\ dialed = [k \in Link |-> 0] /\ pc = [p \in Proxy |-> "accept"]
        /\ relays = [p \in Proxy |-> {}] /\ failed = {}
        /\ client = "dial" /\ hop = 0 /\ badUser \in SUBSET Proxy
        /\ sentUp = 0 /\ sentDown = 0 /\ gotUp = 0 /\ gotDown = 0
-----------------------------------------------------------------------------
\* DialProxyChain: the first proxy (without proxies, the end point) is dialed, then
\* each one asked for the next.
DialFirst == /\ client = "dial"
             /\ \/ /\ dialed' = [dialed EXCEPT ![1] = 1] /\ hop' = 1
                   /\ client' = IF Chain = 0 THEN "connected" ELSE "ask"
                \/ client' = "nullptr" /\ UNCHANGED <<dialed, hop>>
             /\ UNCHANGED <<up, down, upEnd, downEnd, pc, relays, failed, badUser, ends>>

\* DialProxyChain returns nullptr, and the connection is closed.
GiveUp == client' = "nullptr" /\ upEnd' = upEnd \cup {1} /\ UNCHANGED hop

\* Sock4Connect: the request, and the answer.
Ask == /\ client = "ask"
       /\ \/ /\ client' = "answer" /\ UNCHANGED <<upEnd, hop>>
             /\ up' = [up EXCEPT ![1] = Append(@, [to |-> hop + 1, bad |-> hop \in badUser])]
          \/ GiveUp /\ UNCHANGED up
       /\ UNCHANGED <<down, downEnd, dialed, pc, relays, failed, badUser, ends>>

Answer == /\ client = "answer"
          /\ \/ /\ down[1] # <<>> /\ down' = [down EXCEPT ![1] = Tail(@)]
                /\ IF Head(down[1]) # 90 THEN GiveUp
                   ELSE IF hop = Chain THEN client' = "connected" /\ UNCHANGED <<hop, upEnd>>
                   ELSE client' = "ask" /\ hop' = hop + 1 /\ UNCHANGED upEnd
             \/ GiveUp /\ UNCHANGED down        \* the end of the stream, or an error
          /\ UNCHANGED <<up, downEnd, dialed, pc, relays, failed, badUser, ends>>

\* The two ends exchange data, and each may end its half.
ClientSends == /\ client = "connected" /\ 1 \notin upEnd
               /\ \/ /\ sentUp < MaxData /\ sentUp' = sentUp + 1 /\ UNCHANGED upEnd
                     /\ up' = [up EXCEPT ![1] = Append(@, sentUp')]
                  \/ upEnd' = upEnd \cup {1} /\ UNCHANGED <<up, sentUp>>
               /\ UNCHANGED <<down, downEnd, dialed, pc, relays, failed, client, hop, badUser, sentDown, gotUp, gotDown>>

EndSends == /\ dialed[Chain + 1] = Chain + 1 /\ Chain + 1 \notin downEnd
            /\ \/ /\ sentDown < MaxData /\ sentDown' = sentDown + 1 /\ UNCHANGED downEnd
                  /\ down' = [down EXCEPT ![Chain + 1] = Append(@, sentDown')]
               \/ downEnd' = downEnd \cup {Chain + 1} /\ UNCHANGED <<down, sentDown>>
            /\ UNCHANGED <<up, upEnd, dialed, pc, relays, failed, client, hop, badUser, sentUp, gotUp, gotDown>>

EndReads == /\ dialed[Chain + 1] = Chain + 1
            /\ up[Chain + 1] # <<>> /\ up' = [up EXCEPT ![Chain + 1] = Tail(@)]
            /\ gotUp' = IF Head(up[Chain + 1]) = gotUp + 1 THEN gotUp + 1 ELSE -1
            /\ UNCHANGED <<down, upEnd, downEnd, dialed, pc, relays, failed, client, hop, badUser, sentUp, sentDown, gotDown>>

ClientReads == /\ client = "connected" /\ down[1] # <<>> /\ down' = [down EXCEPT ![1] = Tail(@)]
               /\ gotDown' = IF Head(down[1]) = gotDown + 1 THEN gotDown + 1 ELSE -1
               /\ UNCHANGED <<up, upEnd, downEnd, dialed, pc, relays, failed, client, hop, badUser, sentUp, sentDown, gotUp>>
-----------------------------------------------------------------------------
\* MakeConn: the request is read, and its target dialed, whoever that is.
Grant(p, to) ==
    /\ dialed' = [dialed EXCEPT ![p + 1] = to] /\ down' = [down EXCEPT ![p] = Append(@, 90)]
    /\ pc' = [pc EXCEPT ![p] = "relay"] /\ relays' = [relays EXCEPT ![p] = {"up", "down"}]
    /\ UNCHANGED downEnd

Refuse(p) == /\ down' = [down EXCEPT ![p] = Append(@, 91)] /\ pc' = [pc EXCEPT ![p] = "refused"]
             /\ downEnd' = downEnd \cup {p} /\ UNCHANGED <<dialed, relays>>

MakeConn(p) ==
    /\ pc[p] = "accept" /\ dialed[p] \in Proxy /\ UNCHANGED <<upEnd, failed, client, hop, badUser, ends>>
    /\ \/ /\ up[p] # <<>> /\ up' = [up EXCEPT ![p] = Tail(@)]
          /\ \/ ~Head(up[p]).bad /\ Grant(p, Head(up[p]).to)
             \/ Refuse(p)       \* a name that is too long, or a dial that fails
       \/ \* The connection ends or is lost while the request is read, then no answer can
          \* be written; or while the answer is, then what was dialed is closed, never used.
          /\ pc' = [pc EXCEPT ![p] = "done"] /\ downEnd' = downEnd \cup {p}
          /\ UNCHANGED <<up, down, dialed, relays>>

\* After the catch block the function goes on to write the answer 90 as well: on a
\* connection that is closed for writing that throws, and the fiber ends.
FallThrough(p) ==
    /\ pc[p] = "refused" /\ UNCHANGED <<up, upEnd, downEnd, dialed, failed, client, hop, badUser, ends>>
    /\ IF p \in downEnd
       THEN pc' = [pc EXCEPT ![p] = "done"] /\ UNCHANGED <<down, relays>>
       ELSE /\ down' = [down EXCEPT ![p] = Append(@, 90)]
            /\ pc' = [pc EXCEPT ![p] = "relay"] /\ relays' = [relays EXCEPT ![p] = {"up", "down"}]

\* TransferData ends its direction: at the end of what it reads it closes the other side
\* for writing, after a Read or a Write that failed it does not.
Ends(p, way) == relays' = [relays EXCEPT ![p] = @ \ {way}]
Fails(p, way) == Ends(p, way) /\ failed' = failed \cup {way}

TransferUp(p) ==
    /\ pc[p] = "relay" /\ "up" \in relays[p] /\ UNCHANGED <<down, downEnd, dialed, pc, client, hop, badUser, ends>>
    /\ \/ /\ up[p] # <<>> /\ UNCHANGED <<upEnd, relays, failed>>
          /\ up' = [up EXCEPT ![p] = Tail(@), ![p + 1] = Append(@, Head(up[p]))]
       \/ /\ up[p] = <<>> /\ p \in upEnd /\ Ends(p, "up") /\ upEnd' = upEnd \cup {p + 1}
          /\ UNCHANGED <<up, failed>>
       \/ Fails(p, "up") /\ UNCHANGED <<up, upEnd>>

TransferDown(p) ==
    /\ pc[p] = "relay" /\ "down" \in relays[p] /\ UNCHANGED <<up, upEnd, dialed, pc, client, hop, badUser, ends>>
    /\ \/ /\ down[p + 1] # <<>> /\ UNCHANGED <<downEnd, relays, failed>>
          /\ down' = [down EXCEPT ![p + 1] = Tail(@), ![p] = Append(@, Head(down[p + 1]))]
       \/ /\ down[p + 1] = <<>> /\ p + 1 \in downEnd /\ Ends(p, "down") /\ downEnd' = downEnd \cup {p}
          /\ UNCHANGED <<down, failed>>
       \/ Fails(p, "down") /\ UNCHANGED <<down, downEnd>>

\* proxy_group.Wait() returns when both directions have ended, and MakeConn with it:
\* both connections are closed.
Return(p) == /\ pc[p] = "relay" /\ relays[p] = {} /\ pc' = [pc EXCEPT ![p] = "closed"]
             /\ upEnd' = upEnd \cup {p + 1} /\ downEnd' = downEnd \cup {p}
             /\ UNCHANGED <<up, down, dialed, relays, failed, client, hop, badUser, ends>>

Next == \/ DialFirst \/ Ask \/ Answer \/ ClientSends \/ EndSends \/ EndReads \/ ClientReads
        \/ \E p \in Proxy : MakeConn(p) \/ FallThrough(p) \/ TransferUp(p) \/ TransferDown(p) \/ Return(p)

Spec == Init /\ [][Next]_vars
-----------------------------------------------------------------------------
\* The client holds a connection only when every proxy of the chain has dialed the node
\* the client named for it, and granted it; a proxy relays only to a node it has dialed;
\* the data of both ends arrives in order, without requests or answers among it; and what
\* the end point has read when its half ends is all the client sent, unless a relay failed.
Granted == {"relay", "closed"}
ChainHolds ==
    /\ \A k \in Link : dialed[k] \in {0, k}
    /\ client = "connected" => (\A k \in Link : dialed[k] = k) /\ (\A p \in Proxy : pc[p] \in Granted)
    /\ \A p \in Proxy : pc[p] = "relay" => dialed[p + 1] # 0
    /\ gotUp \in 0..sentUp /\ gotDown \in 0..sentDown
    /\ Chain + 1 \in upEnd /\ up[Chain + 1] = <<>> => gotUp = sentUp \/ "up" \in failed
=============================================================================
