--------------------------- MODULE Answers_proofs ---------------------------
(***************************************************************************)
(* For every number of clients, keys, proxies, tokens and ports: what a    *)
(* program on the network tells its caller has happened.  Each program has *)
(* an inductive invariant of its own; the last part puts them together.    *)
(***************************************************************************)
EXTENDS MCCactus, SequenceTheorems, TLAPS

\* What is assumed of the redis server,
LEMMA RC == RE!RedisConstants
  BY InstanceConstants

\* of the chain of proxies,
LEMMA SK == SO!SocksConstants
  BY InstanceConstants

\* and of the programs that fan out, scan and knock.
LEMMA CC == CL!ClientConstants
  BY InstanceConstants
-----------------------------------------------------------------------------
Payload == Int \cup {"GET", "SET", "INCR", "DECR", "PING"} \cup Key \cup RE!Texts \cup {None,
           CHOOSE k \in Key : TRUE}
Element == [type : {"Array", "BulkString", "Int", "BadString"}, of : Payload]
Value == {None, Word} \cup [n : RE!kIntMin..kIntMax]

\* What is on the wire is the rest of m.
Remaining(c, m) ==
    /\ wire[c] \in Seq(Element) /\ element[c] \in 0..Len(m) /\ Len(wire[c]) = Len(m) - element[c]
    /\ \A i \in 1..Len(wire[c]) : wire[c][i] = m[element[c] + i]

\* A command on its way through the server: what has been read of it.
Pending(c, cmd) ==
    /\ Remaining(c, RE!Request(cmd))
    /\ element[c] > 1 => name[c] = cmd.name
    /\ element[c] > 2 => key[c] = cmd.key
    /\ element[c] > 3 => buf_[c] = cmd.value

Garbled(c, m) ==
    /\ Remaining(c, m) /\ element[c] < Len(m)
    /\ element[c] = 1 => buf_[c] = m[1].of
    /\ element[c] > 1 => name[c] = m[2].of

AtRest(c) == wire[c] = <<>> /\ element[c] = 0

Phase(c) ==
    \/ sent[c] = None /\ AtRest(c) /\ reply[c] = None
    \/ sent[c] \in RE!Commands /\ done[c] = None /\ reply[c] = None /\ Pending(c, sent[c])
    \/ sent[c] = "garbage" /\ done[c] = None /\ reply[c] = None
        /\ \E m \in RE!Malformed : Garbled(c, m)
    \/ sent[c] \in RE!Commands /\ done[c].command = sent[c] /\ AtRest(c)

Fits(c) ==
    /\ sent[c] # None /\ done[c] # None => done[c].command = sent[c]
    /\ sent[c] # None /\ reply[c] # None => RE!Right(sent[c], done[c].before, reply[c])

\* The storage holds what the clients know of it.
Held(t) == IF t = None THEN None ELSE RE!Stored(t)
StoreOK == /\ kv_storage_ \in [Key -> Value] /\ written \in [Key -> {None} \cup RE!Texts]
           /\ \A k \in Key : kv_storage_[k] = Held(written[k])

RedisInv ==
    /\ StoreOK
    /\ DOMAIN conn = Client /\ DOMAIN wire = Client /\ DOMAIN reply = Client
        /\ DOMAIN element = Client
    /\ DOMAIN buf_ = Client /\ DOMAIN name = Client /\ DOMAIN key = Client /\ DOMAIN sent = Client
        /\ DOMAIN done = Client
    /\ \A c \in Client : Fits(c) /\ (conn[c] # "closed" => Phase(c))

\* The state of one client.
Own(c) == <<conn[c], wire[c], reply[c], element[c], buf_[c], name[c], key[c], sent[c], done[c]>>
Good(c) == Fits(c) /\ (conn[c] # "closed" => Phase(c))
Domains == /\ DOMAIN conn = Client /\ DOMAIN wire = Client /\ DOMAIN reply = Client
               /\ DOMAIN element = Client
           /\ DOMAIN buf_ = Client /\ DOMAIN name = Client /\ DOMAIN key = Client
               /\ DOMAIN sent = Client /\ DOMAIN done = Client

\* ServerObeys follows.
LEMMA Obeys == RedisInv => RE!ServerObeys
<1> SUFFICES ASSUME RedisInv PROVE RE!ServerObeys
    OBVIOUS
<1>1. \A k \in Key : kv_storage_[k] \notin {None, Word} => kv_storage_[k].n \in RE!kIntMin..kIntMax
  <2> SUFFICES ASSUME NEW k \in Key, kv_storage_[k] \notin {None, Word}
                      PROVE kv_storage_[k].n \in RE!kIntMin..kIntMax
      OBVIOUS
  <2>1. kv_storage_[k] \in [n : RE!kIntMin..kIntMax]
        BY DEF RedisInv, StoreOK, Value
  <2> QED BY <2>1
<1> QED BY <1>1 DEF RedisInv, Fits, RE!ServerObeys

\* At the start nothing is stored and nobody has sent.
LEMMA RedisInit == RE!Init => RedisInv
<1> SUFFICES ASSUME RE!Init PROVE RedisInv
    OBVIOUS
<1>1. StoreOK
      BY DEF RE!Init, StoreOK, Held, Value
<1> QED BY <1>1 DEF RE!Init, RedisInv, Fits, Phase, AtRest

\* The requests.
LEMMA Requests ==
  ASSUME NEW cmd \in RE!Commands
  PROVE  /\ RE!Request(cmd) \in Seq(Element)
             /\ Len(RE!Request(cmd)) = (IF cmd.name = "SET" THEN 4 ELSE 3)
         /\ RE!Request(cmd)[2].of = cmd.name /\ RE!Request(cmd)[3].of = cmd.key
         /\ cmd.name = "SET" => RE!Request(cmd)[4].of = cmd.value
         /\ cmd.name \in {"GET", "SET", "INCR", "DECR"} /\ cmd.key \in Key
         /\ cmd.name = "SET" => cmd.value \in RE!Texts
         /\ cmd.name # "SET" => cmd.value = None
         /\ cmd = [name |-> cmd.name, key |-> cmd.key, value |-> cmd.value]
         /\ cmd # None
<1>1. /\ cmd.name \in {"GET", "SET", "INCR", "DECR"} /\ cmd.key \in Key
      /\ cmd.name = "SET" => cmd.value \in RE!Texts
      /\ cmd.name # "SET" => cmd.value = None
      /\ cmd = [name |-> cmd.name, key |-> cmd.key, value |-> cmd.value]
      BY DEF RE!Commands
<1>2. cmd # None
      BY RC DEF RE!RedisConstants
<1>3. CASE cmd.name = "SET"
  <2>1. RE!Array(3) \in Element /\ RE!Bulk(cmd.name) \in Element /\ RE!Bulk(cmd.key) \in Element
        /\ RE!Bulk(cmd.value) \in Element
        BY <1>1, <1>3 DEF RE!Array, RE!Bulk, Element, Payload
  <2>2. RE!Request(cmd) = <<RE!Array(3), RE!Bulk(cmd.name), RE!Bulk(cmd.key), RE!Bulk(cmd.value)>>
        BY <1>3 DEF RE!Request
  <2>3. RE!Bulk(cmd.name).of = cmd.name /\ RE!Bulk(cmd.key).of = cmd.key
        /\ RE!Bulk(cmd.value).of = cmd.value
        BY DEF RE!Bulk
  <2> HIDE DEF RE!Array, RE!Bulk, Element
  <2> QED BY <1>1, <1>2, <1>3, <2>1, <2>2, <2>3
<1>4. CASE cmd.name # "SET"
  <2>1. RE!Array(2) \in Element /\ RE!Bulk(cmd.name) \in Element /\ RE!Bulk(cmd.key) \in Element
        BY <1>1, <1>4 DEF RE!Array, RE!Bulk, Element, Payload
  <2>2. RE!Request(cmd) = <<RE!Array(2), RE!Bulk(cmd.name), RE!Bulk(cmd.key)>>
        BY <1>4 DEF RE!Request
  <2>3. RE!Bulk(cmd.name).of = cmd.name /\ RE!Bulk(cmd.key).of = cmd.key
        BY DEF RE!Bulk
  <2> QED BY <1>1, <1>2, <1>4, <2>1, <2>2, <2>3
<1> QED BY <1>3, <1>4

\* What is malformed is refused at its last element, before it is complete.
LEMMA Refused ==
  ASSUME NEW m \in RE!Malformed
  PROVE  /\ m \in Seq(Element) /\ Len(m) \in 1..4
         /\ Len(m) = 4 => m[2].of = "SET"
         /\ Len(m) = 1 => ~(RE!ReadArrayLength(m[1]) /\ m[1].of \in 2..3)
         /\ Len(m) = 2 => ~(RE!ReadBulkString(m[2]) /\ m[2].of \in {"GET", "SET", "INCR", "DECR"}
             /\ RE!Arity(m[2].of) = m[1].of)
         /\ Len(m) > 2 => ~(RE!ReadBulkString(m[Len(m)]) /\ m[Len(m)].of # None)
<1> DEFINE k == CHOOSE k \in Key : TRUE
<1>1. /\ RE!Integer(1) \in Element /\ RE!Array(-2) \in Element /\ RE!Array(4) \in Element
          /\ RE!Array(2) \in Element /\ RE!Array(3) \in Element
      /\ RE!Bulk("PING") \in Element /\ RE!BadString \in Element /\ RE!Bulk("GET") \in Element
          /\ RE!Bulk("SET") \in Element
      /\ RE!Bulk(None) \in Element /\ RE!Bulk(k) \in Element
      BY DEF RE!Integer, RE!Array, RE!Bulk, RE!BadString, Element, Payload
<1>2. CASE m \in {<<RE!Integer(1)>>, <<RE!Array(-2)>>, <<RE!Array(4)>>}
  <2>1. Len(m) = 1 /\ m \in Seq(Element) /\ m[1] \in {RE!Integer(1), RE!Array(-2), RE!Array(4)}
    <3>1. ASSUME NEW x \in {RE!Integer(1), RE!Array(-2), RE!Array(4)}, m = <<x>>
          PROVE  Len(m) = 1 /\ m \in Seq(Element) /\ m[1] = x
          BY <1>1, <3>1
    <3> QED BY <1>2, <3>1
  <2>2. ~(RE!ReadArrayLength(m[1]) /\ m[1].of \in 2..3)
        BY <2>1 DEF RE!Integer, RE!Array, RE!ReadArrayLength
  <2> QED BY <2>1, <2>2
<1>3. CASE m \in {<<RE!Array(2), RE!Integer(1)>>, <<RE!Array(2), RE!Bulk("PING")>>, <<RE!Array(2),
           RE!BadString>>}
  <2>1. Len(m) = 2 /\ m \in Seq(Element) /\ m[2] \in {RE!Integer(1), RE!Bulk("PING"), RE!BadString}
    <3>1. ASSUME NEW x \in {RE!Integer(1), RE!Bulk("PING"), RE!BadString}, m = <<RE!Array(2), x>>
          PROVE  Len(m) = 2 /\ m \in Seq(Element) /\ m[2] = x
          BY <1>1, <3>1
    <3> QED BY <1>3, <3>1
  <2>2. ~(RE!ReadBulkString(m[2]) /\ m[2].of \in {"GET", "SET", "INCR", "DECR"})
        BY <2>1 DEF RE!Integer, RE!Bulk, RE!BadString, RE!ReadBulkString
  <2> QED BY <2>1, <2>2
<1>4. CASE m = <<RE!Array(3), RE!Bulk("GET")>>
  <2>1. Len(m) = 2 /\ m \in Seq(Element) /\ m[1] = RE!Array(3) /\ m[2] = RE!Bulk("GET")
        BY <1>1, <1>4
  <2>2. RE!Arity(m[2].of) # m[1].of
        BY <2>1 DEF RE!Array, RE!Bulk, RE!Arity
  <2> QED BY <2>1, <2>2
<1>5. CASE m = <<RE!Array(2), RE!Bulk("GET"), RE!Bulk(None)>>
  <2>1. Len(m) = 3 /\ m \in Seq(Element) /\ m[3] = RE!Bulk(None)
        BY <1>1, <1>5
  <2>2. m[3].of = None
        BY <2>1 DEF RE!Bulk
  <2> QED BY <2>1, <2>2
<1>6. CASE m = <<RE!Array(3), RE!Bulk("SET"), RE!Bulk(k), RE!Integer(1)>>
  <2>1. Len(m) = 4 /\ m \in Seq(Element) /\ m[2] = RE!Bulk("SET") /\ m[4] = RE!Integer(1)
        BY <1>1, <1>6
  <2>2. m[2].of = "SET" /\ ~RE!ReadBulkString(m[4])
        BY <2>1 DEF RE!Bulk, RE!Integer, RE!ReadBulkString
  <2> QED BY <2>1, <2>2
<1> QED BY <1>2, <1>3, <1>4, <1>5, <1>6 DEF RE!Malformed

\* A client that nothing happens to.
LEMMA Others ==
  ASSUME NEW c \in Client, Good(c), Own(c)' = Own(c)
  PROVE  Good(c)'
<1>1. /\ conn'[c] = conn[c] /\ wire'[c] = wire[c] /\ reply'[c] = reply[c]
          /\ element'[c] = element[c] /\ buf_'[c] = buf_[c]
      /\ name'[c] = name[c] /\ key'[c] = key[c] /\ sent'[c] = sent[c] /\ done'[c] = done[c]
      BY DEF Own
<1>2. Fits(c)'
      BY <1>1 DEF Good, Fits
<1>3. ASSUME NEW m, Remaining(c, m) PROVE Remaining(c, m)'
      BY <1>1, <1>3 DEF Remaining
<1>4. Phase(c) => Phase(c)'
  <2>1. AtRest(c) => AtRest(c)'
        BY <1>1 DEF AtRest
  <2>2. \A cmd : Pending(c, cmd) => Pending(c, cmd)'
        BY <1>1, <1>3 DEF Pending
  <2>3. \A m : Garbled(c, m) => Garbled(c, m)'
        BY <1>1, <1>3 DEF Garbled
  <2>4. Pending(c, sent[c]) => Pending(c, sent[c])'
    <3>1. Pending(c, sent[c]) => \E cmd : cmd = sent[c] /\ Pending(c, cmd)
          OBVIOUS
    <3>2. ASSUME NEW cmd, cmd = sent[c], Pending(c, cmd) PROVE Pending(c, sent[c])'
          BY <1>1, <2>2, <3>2
    <3> QED BY <3>1, <3>2
  <2> QED BY <1>1, <2>1, <2>3, <2>4 DEF Phase
<1> QED BY <1>1, <1>2, <1>4 DEF Good

\* Every client but c is as it was, and c is all right.
LEMMA Only ==
  ASSUME RedisInv, NEW c \in Client, StoreOK', Domains', Good(c)',
         \A e \in Client : e # c => Own(e)' = Own(e)
  PROVE  RedisInv'
<1>1. \A e \in Client : Good(e)
      BY DEF RedisInv, Good
<1>2. \A e \in Client : Good(e)'
      BY <1>1, Others
<1> QED BY <1>2 DEF RedisInv, Good, Domains

\* The client's side.
LEMMA CallerInv ==
  ASSUME RedisInv, NEW c \in Client, RE!Send(c) \/ RE!Receive(c) \/ RE!Leave(c)
  PROVE  RedisInv'
<1>0. Domains /\ StoreOK /\ Fits(c) /\ (conn[c] # "closed" => Phase(c))
      BY DEF RedisInv, Domains
<1>1. CASE RE!Send(c)
  <2>1. /\ conn[c] = "open" /\ sent[c] = None /\ done' = [done EXCEPT ![c] = None]
        /\ UNCHANGED <<kv_storage_, written, conn, reply, element, buf_, name, key>>
        BY <1>1 DEF RE!Send, RE!handler
  <2>2. PICK s, m : /\ sent' = [sent EXCEPT ![c] = s] /\ wire' = [wire EXCEPT ![c] = m]
                    /\ (s \in RE!Commands /\ m = RE!Request(s)) \/ (s = "garbage"
                        /\ m \in RE!Malformed)
        BY <1>1 DEF RE!Send
  <2>3. /\ sent'[c] = s /\ wire'[c] = m /\ done'[c] = None
        /\ \A e \in Client : e # c => sent'[e] = sent[e] /\ wire'[e] = wire[e] /\ done'[e] = done[e]
        BY <1>0, <2>1, <2>2 DEF Domains
  <2>4. Domains' /\ \A e \in Client : e # c => Own(e)' = Own(e)
        BY <1>0, <2>1, <2>2, <2>3 DEF Domains, Own
  <2>5. s # None /\ m \in Seq(Element) /\ Len(m) > 0
        BY <2>2, RC, Requests, Refused DEF RE!RedisConstants
  <2>6. AtRest(c) /\ reply[c] = None
        BY <1>0, <2>1, RC DEF Phase, RE!RedisConstants
  <2>7. Remaining(c, m)' /\ element'[c] = 0
        BY <2>1, <2>3, <2>5, <2>6 DEF Remaining, AtRest
  <2>8. Phase(c)'
    <3>1. CASE s \in RE!Commands /\ m = RE!Request(s)
      <4>1. Remaining(c, RE!Request(sent[c]))'
            BY <2>3, <2>7, <3>1
      <4>2. Pending(c, sent[c])'
            BY <2>7, <4>1 DEF Pending
      <4> QED BY <2>1, <2>3, <2>6, <3>1, <4>2 DEF Phase
    <3>2. CASE s = "garbage" /\ m \in RE!Malformed
      <4>1. Garbled(c, m)'
            BY <2>5, <2>7 DEF Garbled
      <4> QED BY <2>1, <2>3, <2>6, <3>2, <4>1 DEF Phase
    <3> QED BY <2>2, <3>1, <3>2
  <2>9. Fits(c)'
        BY <2>1, <2>3, <2>6 DEF Fits
  <2>10. StoreOK'
         BY <1>0, <2>1 DEF StoreOK
  <2> QED BY <2>4, <2>8, <2>9, <2>10, Only DEF Good
<1>2. CASE RE!Receive(c)
  <2>1. /\ sent[c] # None /\ (reply[c] # None \/ conn[c] = "closed")
        /\ sent' = [sent EXCEPT ![c] = None] /\ reply' = [reply EXCEPT ![c] = None]
        /\ UNCHANGED <<kv_storage_, written, conn, wire, element, buf_, name, key, done>>
        BY <1>2 DEF RE!Receive, RE!handler
  <2>2. /\ sent'[c] = None /\ reply'[c] = None
        /\ \A e \in Client : e # c => sent'[e] = sent[e] /\ reply'[e] = reply[e]
        BY <1>0, <2>1 DEF Domains
  <2>3. Domains' /\ \A e \in Client : e # c => Own(e)' = Own(e)
        BY <1>0, <2>1, <2>2 DEF Domains, Own
  <2>4. conn[c] # "closed" => AtRest(c)
        BY <1>0, <2>1 DEF Phase
  <2>5. Good(c)'
        BY <2>1, <2>2, <2>4 DEF Good, Fits, Phase, AtRest
  <2>6. StoreOK'
        BY <1>0, <2>1 DEF StoreOK
  <2> QED BY <2>3, <2>5, <2>6, Only
<1>3. CASE RE!Leave(c)
  <2>1. /\ conn[c] = "open" /\ conn' = [conn EXCEPT ![c] = "left"]
        /\ UNCHANGED <<kv_storage_, written, wire, reply, element, buf_, name, key, sent, done>>
        BY <1>3 DEF RE!Leave, RE!handler
  <2>2. conn'[c] = "left" /\ \A e \in Client : e # c => conn'[e] = conn[e]
        BY <1>0, <2>1 DEF Domains
  <2>3. Domains' /\ \A e \in Client : e # c => Own(e)' = Own(e)
        BY <1>0, <2>1, <2>2 DEF Domains, Own
  <2>4. Good(c)'
        BY <1>0, <2>1, <2>2 DEF Good, Fits, Phase, AtRest, Pending, Garbled, Remaining
  <2>5. StoreOK'
        BY <1>0, <2>1 DEF StoreOK
  <2> QED BY <2>3, <2>4, <2>5, Only
<1> QED BY <1>1, <1>2, <1>3

\* The connection is closed.
LEMMA BreakKeeps ==
  ASSUME RedisInv, NEW c \in Client, RE!Break(c), sent' = sent, StoreOK'
  PROVE  RedisInv'
<1>0. Domains /\ Fits(c)
      BY DEF RedisInv, Domains
<1>1. /\ conn' = [conn EXCEPT ![c] = "closed"] /\ wire' = [wire EXCEPT ![c] = <<>>]
      /\ UNCHANGED <<reply, element, buf_, name, key, done>>
      BY DEF RE!Break, RE!handler
<1>2. /\ conn'[c] = "closed"
      /\ \A e \in Client : e # c => conn'[e] = conn[e] /\ wire'[e] = wire[e]
      BY <1>0, <1>1 DEF Domains
<1>3. Domains' /\ \A e \in Client : e # c => Own(e)' = Own(e)
      BY <1>0, <1>1, <1>2 DEF Domains, Own
<1>4. Good(c)'
      BY <1>0, <1>1, <1>2 DEF Good, Fits
<1> QED BY <1>3, <1>4, Only

\* The server reads the next element.
LEMMA ReadInv ==
  ASSUME RedisInv, NEW c \in Client, RE!ReadCommand(c) \/ RE!ReadEnds(c)
  PROVE  RedisInv'
<1>0. Domains /\ StoreOK /\ Fits(c) /\ (conn[c] # "closed" => Phase(c))
      BY DEF RedisInv, Domains
<1> DEFINE e == Head(wire[c])
<1>1. CASE RE!Break(c) /\ UNCHANGED <<kv_storage_, sent>>
  <2>1. StoreOK'
        BY <1>0, <1>1 DEF RE!Break, StoreOK
  <2> QED BY <1>1, <2>1, BreakKeeps
<1>2. CASE /\ wire[c] # <<>> /\ conn[c] # "closed"
           /\ RE!Expected(c, e) /\ element' = [element EXCEPT ![c] = @ + 1]
           /\ buf_' = [buf_ EXCEPT ![c] = e.of] /\ wire' = [wire EXCEPT ![c] = Tail(@)]
           /\ name' = [name EXCEPT ![c] = IF element[c] = 1 THEN e.of ELSE @]
           /\ key' = [key EXCEPT ![c] = RE!CopiedKey(c, e)]
           /\ UNCHANGED <<kv_storage_, written, conn, reply, done, sent>>
  <2>0. StoreOK'
        BY <1>0, <1>2 DEF StoreOK
  <2>1. /\ element'[c] = element[c] + 1 /\ buf_'[c] = e.of /\ wire'[c] = Tail(wire[c])
        /\ name'[c] = (IF element[c] = 1 THEN e.of ELSE name[c])
        /\ key'[c] = (IF element[c] = 2 THEN e.of ELSE key[c])
        BY <1>0, <1>2 DEF Domains, RE!CopiedKey
  <2>2. Domains' /\ \A x \in Client : x # c => Own(x)' = Own(x)
        BY <1>0, <1>2 DEF Domains, Own
  <2>3. ASSUME NEW m, Remaining(c, m), m \in Seq(Element)
        PROVE  /\ Remaining(c, m)' /\ e = m[element[c] + 1] /\ element[c] \in Nat
                   /\ element[c] < Len(m)
               /\ Len(m) \in Nat
    <3> DEFINE w == wire[c]  n == element[c]
    <3>1. w \in Seq(Element) /\ n \in 0..Len(m) /\ Len(w) = Len(m) - n /\ w # <<>>
          /\ \A i \in 1..Len(w) : w[i] = m[n + i]
          BY <1>2, <2>3 DEF Remaining
    <3>2. element'[c] = n + 1 /\ wire'[c] = Tail(w) /\ e = Head(w) /\ Len(m) \in Nat
          BY <2>1, <2>3
    <3> HIDE DEF w, n, e
    <3>3. Tail(w) \in Seq(Element) /\ Len(Tail(w)) = Len(w) - 1 /\ Len(w) \in Nat /\ Len(w) > 0
          /\ Head(w) = w[1]
          /\ \A i \in 1..Len(Tail(w)) : Tail(w)[i] = w[i + 1] /\ i + 1 \in 1..Len(w)
          BY <3>1
    <3>4. e = m[n + 1] /\ n \in Nat /\ n < Len(m)
          BY <3>1, <3>2, <3>3
    <3>5. n + 1 \in 0..Len(m) /\ Len(Tail(w)) = Len(m) - (n + 1)
          BY <3>1, <3>2, <3>3
    <3>6. \A i \in 1..Len(Tail(w)) : Tail(w)[i] = m[(n + 1) + i]
      <4> SUFFICES ASSUME NEW i \in 1..Len(Tail(w)) PROVE Tail(w)[i] = m[(n + 1) + i]
          OBVIOUS
      <4>1. Tail(w)[i] = w[i + 1] /\ w[i + 1] = m[n + (i + 1)]
            BY <3>1, <3>3
      <4>2. n + (i + 1) = (n + 1) + i
            BY <3>1, <3>2
      <4> QED BY <4>1, <4>2
    <3>7. Remaining(c, m)'
          BY <3>2, <3>3, <3>5, <3>6 DEF Remaining
    <3> QED BY <3>2, <3>4, <3>7 DEF n, e
  <2>4. Phase(c)
        BY <1>0, <1>2
  <2>5. ~AtRest(c)
        BY <1>2 DEF AtRest
  <2>6. CASE sent[c] \in RE!Commands /\ done[c] = None /\ reply[c] = None /\ Pending(c, sent[c])
    <3>0. PICK cmd, m : cmd = sent[c] /\ m = RE!Request(cmd)
          OBVIOUS
    <3>1. /\ Remaining(c, m) /\ m \in Seq(Element) /\ Len(m) <= 4
          /\ m[2].of = cmd.name /\ m[3].of = cmd.key /\ (cmd.name = "SET" => m[4].of = cmd.value)
          /\ (Len(m) = 4 => cmd.name = "SET")
      <4>1. cmd \in RE!Commands /\ Pending(c, cmd)
            BY <2>6, <3>0
      <4>2. /\ m \in Seq(Element) /\ Len(m) = (IF cmd.name = "SET" THEN 4 ELSE 3)
            /\ m[2].of = cmd.name /\ m[3].of = cmd.key /\ (cmd.name = "SET" => m[4].of = cmd.value)
            BY <3>0, <4>1, Requests
      <4>3. Remaining(c, m)
            BY <3>0, <4>1 DEF Pending
      <4> QED BY <4>2, <4>3
    <3>2. sent'[c] = cmd /\ done'[c] = None /\ reply'[c] = None
          BY <1>2, <2>6, <3>0
    <3> HIDE DEF e
    <3>3. /\ Remaining(c, m)' /\ e = m[element[c] + 1] /\ element[c] \in Nat
              /\ element[c] < Len(m) /\ Len(m) \in Nat
          BY <2>3, <3>1
    <3>4. /\ element[c] > 1 => name[c] = cmd.name
          /\ element[c] > 2 => key[c] = cmd.key
          BY <2>6, <3>0 DEF Pending
    <3>5. element[c] \in {0, 1, 2, 3} /\ (element[c] = 3 => cmd.name = "SET")
      <4> DEFINE n == element[c]  l == Len(m)
      <4>1. n \in Nat /\ l \in Nat /\ n < l /\ l <= 4 /\ (l = 4 => cmd.name = "SET")
            BY <3>1, <3>3
      <4> HIDE DEF n, l
      <4>2. n \in {0, 1, 2, 3} /\ (n = 3 => cmd.name = "SET")
            BY <4>1
      <4> QED BY <4>2 DEF n
    <3>6. /\ element'[c] > 1 => name'[c] = cmd.name
          /\ element'[c] > 2 => key'[c] = cmd.key
          /\ element'[c] > 3 => buf_'[c] = cmd.value
      <4>1. CASE element[c] = 0
            BY <2>1, <4>1
      <4>2. CASE element[c] = 1
            BY <2>1, <3>1, <3>3, <4>2
      <4>3. CASE element[c] = 2
            BY <2>1, <3>1, <3>3, <3>4, <4>3
      <4>4. CASE element[c] = 3
            BY <2>1, <3>1, <3>3, <3>4, <3>5, <4>4
      <4> QED BY <3>5, <4>1, <4>2, <4>3, <4>4
    <3>7. Remaining(c, RE!Request(sent[c]))'
          BY <3>0, <3>2, <3>3
    <3>8. Pending(c, sent[c])'
          BY <3>2, <3>6, <3>7 DEF Pending
    <3>9. Phase(c)'
          BY <2>6, <3>0, <3>2, <3>8 DEF Phase
    <3>10. Fits(c)'
          BY <3>2 DEF Fits
    <3> QED BY <2>0, <2>2, <3>9, <3>10, Only DEF Good
  <2>7. CASE sent[c] = "garbage" /\ done[c] = None /\ reply[c] = None
             /\ \E m \in RE!Malformed : Garbled(c, m)
    <3>1. PICK m \in RE!Malformed : Garbled(c, m)
          BY <2>7
    <3>2. /\ m \in Seq(Element) /\ Len(m) \in 1..4
          /\ Len(m) = 1 => ~(RE!ReadArrayLength(m[1]) /\ m[1].of \in 2..3)
          /\ Len(m) = 2 => ~(RE!ReadBulkString(m[2]) /\ m[2].of \in {"GET", "SET", "INCR", "DECR"}
              /\ RE!Arity(m[2].of) = m[1].of)
          /\ Len(m) > 2 => ~(RE!ReadBulkString(m[Len(m)]) /\ m[Len(m)].of # None)
          BY Refused
    <3>3. Remaining(c, m) /\ (element[c] = 1 => buf_[c] = m[1].of)
          /\ (element[c] > 1 => name[c] = m[2].of)
          BY <3>1 DEF Garbled
    <3> HIDE DEF e
    <3>4. /\ Remaining(c, m)' /\ e = m[element[c] + 1] /\ element[c] \in Nat /\ element[c] < Len(m)
          BY <2>3, <3>2, <3>3
    <3>5. element[c] + 1 # Len(m)
      <4> SUFFICES ASSUME element[c] + 1 = Len(m) PROVE FALSE
          OBVIOUS
      <4>0. e = m[Len(m)]
            BY <3>4
      <4>1. CASE element[c] = 0
        <5>1. RE!ReadArrayLength(e) /\ e.of \in 2..3
              BY <1>2, <4>1 DEF RE!Expected
        <5>2. Len(m) = 1
              BY <4>1
        <5> QED BY <3>2, <4>0, <5>1, <5>2
      <4>2. CASE element[c] = 1
        <5>1. RE!ReadBulkString(e) /\ e.of \in {"GET", "SET", "INCR", "DECR"}
              /\ RE!Arity(e.of) = buf_[c]
              BY <1>2, <4>2 DEF RE!Expected
        <5>2. Len(m) = 2
              BY <4>2
        <5> QED BY <3>2, <3>3, <4>0, <4>2, <5>1, <5>2
      <4>3. CASE element[c] > 1
        <5>1. element[c] # 0 /\ element[c] # 1
              BY <3>4, <4>3
        <5>2. RE!ReadBulkString(e) /\ e.of # None
              BY <1>2, <5>1 DEF RE!Expected
        <5>3. Len(m) > 2
              BY <3>4, <4>3
        <5> QED BY <3>2, <4>0, <5>2, <5>3
      <4> QED BY <3>4, <4>1, <4>2, <4>3
    <3>6. /\ element'[c] < Len(m)
          /\ element'[c] = 1 => buf_'[c] = m[1].of
          /\ element'[c] > 1 => name'[c] = m[2].of
      <4>1. element'[c] < Len(m)
            BY <2>1, <3>2, <3>4, <3>5
      <4>2. CASE element[c] = 0
            BY <2>1, <3>4, <4>1, <4>2
      <4>3. CASE element[c] = 1
            BY <2>1, <3>4, <4>1, <4>3
      <4>4. CASE element[c] > 1
            BY <2>1, <3>3, <3>4, <4>1, <4>4
      <4> QED BY <3>4, <4>2, <4>3, <4>4
    <3>7. Garbled(c, m)'
          BY <3>4, <3>6 DEF Garbled
    <3>8. sent'[c] = "garbage" /\ done'[c] = None /\ reply'[c] = None
          BY <1>2, <2>7
    <3>9. Good(c)'
          BY <3>7, <3>8 DEF Phase, Fits, Good
    <3> QED BY <2>0, <2>2, <3>9, Only
  <2> QED BY <2>4, <2>5, <2>6, <2>7 DEF Phase
<1> QED BY <1>1, <1>2 DEF RE!ReadCommand, RE!ReadEnds

\* The server executes a command.
LEMMA ProcessInv ==
  ASSUME RedisInv, NEW c \in Client, RE!ProcessCommand(c)
  PROVE  RedisInv'
<1> DEFINE delta == IF name[c] = "INCR" THEN 1 ELSE -1
           k == key[c]
           Answer(storage, e, value) ==
             /\ kv_storage_' = storage /\ reply' = [reply EXCEPT ![c] = e]
             /\ done' = [done EXCEPT ![c] = [command |-> [name |-> name[c], key |-> k, value |-> value],
                                             before |-> written[sent[c].key]]]
             /\ written' = [written EXCEPT ![sent[c].key] = RE!Left(sent[c], @, e)]
             /\ element' = [element EXCEPT ![c] = 0] /\ UNCHANGED <<conn, wire, buf_, name, key>>
<1>0. Domains /\ StoreOK /\ Fits(c) /\ (conn[c] # "closed" => Phase(c))
      /\ kIntMax \in Nat
      BY RC DEF RedisInv, Domains, RE!RedisConstants
<1>1. element[c] = (IF name[c] = "SET" THEN 4 ELSE 3) /\ conn[c] # "closed" /\ sent' = sent
      BY DEF RE!ProcessCommand
<1>2. sent[c] \in RE!Commands /\ done[c] = None /\ reply[c] = None /\ Pending(c, sent[c])
  <2>1. ~AtRest(c)
        BY <1>1 DEF AtRest
  <2>2. ASSUME NEW m \in RE!Malformed, Garbled(c, m) PROVE FALSE
    <3>1. Len(m) \in 1..4 /\ (Len(m) = 4 => m[2].of = "SET")
          BY Refused
    <3>2. element[c] \in Nat /\ element[c] < Len(m) /\ (element[c] > 1 => name[c] = m[2].of)
          BY <2>2, <3>1 DEF Garbled, Remaining
    <3>3. element[c] \in {3, 4}
          BY <1>1
    <3> DEFINE n == element[c]  l == Len(m)
    <3>4. n \in {3, 4} /\ l \in 1..4 /\ n < l
          BY <3>1, <3>2, <3>3
    <3> HIDE DEF n, l
    <3>5. n = 3 /\ l = 4
          BY <3>4
    <3>6. name[c] = "SET"
          BY <3>1, <3>2, <3>5 DEF n, l
    <3> QED BY <1>1, <3>5, <3>6 DEF n
  <2> QED BY <1>0, <1>1, <2>1, <2>2 DEF Phase
<1>3. PICK cmd : cmd = sent[c]
      OBVIOUS
<1>4. /\ cmd.name \in {"GET", "SET", "INCR", "DECR"} /\ cmd.key \in Key
      /\ (cmd.name = "SET" => cmd.value \in RE!Texts) /\ (cmd.name # "SET" => cmd.value = None)
      /\ cmd = [name |-> cmd.name, key |-> cmd.key, value |-> cmd.value] /\ cmd # None
      BY <1>2, <1>3, Requests
<1>5. /\ name[c] = cmd.name /\ k = cmd.key /\ (name[c] = "SET" => buf_[c] = cmd.value)
      /\ Len(wire[c]) = 0 /\ wire[c] \in Seq(Element)
  <2>1. element[c] > 2 /\ (name[c] = "SET" => element[c] > 3) /\ element[c] > 1
        BY <1>1
  <2>2. name[c] = cmd.name /\ k = cmd.key /\ (name[c] = "SET" => buf_[c] = cmd.value)
        BY <1>2, <1>3, <2>1 DEF Pending
  <2>3. Len(RE!Request(cmd)) = (IF cmd.name = "SET" THEN 4 ELSE 3)
        BY <1>2, <1>3, Requests
  <2>4. wire[c] \in Seq(Element) /\ Len(wire[c]) = Len(RE!Request(cmd)) - element[c]
        BY <1>2, <1>3 DEF Pending, Remaining
  <2> QED BY <1>1, <2>2, <2>3, <2>4
<1>6. wire[c] = <<>>
      BY <1>5
<1> DEFINE before == written[cmd.key]
<1>7. ASSUME NEW v \in Value, NEW storage, NEW e, NEW value, Answer(storage, e, value),
             storage = [kv_storage_ EXCEPT ![k] = v], value = cmd.value,
             RE!Left(cmd, before, e) \in {None} \cup RE!Texts, v = Held(RE!Left(cmd, before, e)),
             RE!Right(cmd, before, e)
      PROVE  RedisInv'
  <2>1. /\ reply'[c] = e /\ done'[c].command = cmd /\ element'[c] = 0 /\ sent'[c] = cmd
        /\ wire'[c] = <<>> /\ done'[c].before = before
        BY <1>0, <1>1, <1>3, <1>4, <1>5, <1>6, <1>7 DEF Domains
  <2>2. Domains' /\ \A x \in Client : x # c => Own(x)' = Own(x)
        BY <1>0, <1>1, <1>7 DEF Domains, Own
  <2>3. Fits(c)'
        BY <1>7, <2>1 DEF Fits
  <2>4. Phase(c)'
        BY <1>2, <1>3, <2>1 DEF Phase, AtRest
  <2>5. StoreOK'
    <3>1. /\ kv_storage_' = [kv_storage_ EXCEPT ![cmd.key] = v]
          /\ written' = [written EXCEPT ![cmd.key] = RE!Left(cmd, before, e)]
          BY <1>3, <1>5, <1>7
    <3> DEFINE k0 == cmd.key  l == RE!Left(cmd, before, e)
    <3>2. k0 \in Key /\ l \in {None} \cup RE!Texts /\ v = Held(l) /\ v \in Value
          /\ kv_storage_' = [kv_storage_ EXCEPT ![k0] = v] /\ written' = [written EXCEPT ![k0] = l]
          BY <1>4, <1>7, <3>1
    <3> HIDE DEF k0, l
    <3>3. /\ kv_storage_'[k0] = v /\ written'[k0] = l
          /\ \A x \in Key : x # k0 => kv_storage_'[x] = kv_storage_[x] /\ written'[x] = written[x]
          BY <1>0, <3>2 DEF StoreOK
    <3>4. \A x \in Key : kv_storage_'[x] = Held(written'[x])
          BY <1>0, <3>2, <3>3 DEF StoreOK
    <3>5. kv_storage_' \in [Key -> Value] /\ written' \in [Key -> {None} \cup RE!Texts]
          BY <1>0, <3>2 DEF StoreOK
    <3> QED BY <3>4, <3>5 DEF StoreOK
  <2> QED BY <2>2, <2>3, <2>4, <2>5, Only DEF Good
\* What the key holds, as its last writer knows it.
<1>8. /\ before \in {None} \cup RE!Texts /\ kv_storage_[k] = Held(before) /\ Held(before) \in Value
      /\ k \in Key
      BY <1>0, <1>4, <1>5 DEF StoreOK
<1> HIDE DEF before
<1>13. \/ before = None /\ Held(before) = None
       \/ before = Word /\ Held(before) = Word /\ Word # None
       \/ /\ before.n \in RE!kIntMin..kIntMax /\ Held(before) = [n |-> before.n]
          /\ before \notin {None, Word} /\ Held(before) \notin {None, Word}
  <2>1. before \in {None, Word} \cup [padded : BOOLEAN, n : RE!kIntMin..kIntMax]
        /\ Word # None
        BY <1>8, RC DEF RE!Texts, RE!RedisConstants
  <2>2. CASE before = None
        BY <2>2 DEF Held
  <2>3. CASE before = Word
        BY <2>1, <2>3 DEF Held, RE!Stored
  <2>4. CASE before \in [padded : BOOLEAN, n : RE!kIntMin..kIntMax] /\ before \notin {None, Word}
    <3>1. before.n \in RE!kIntMin..kIntMax /\ Held(before) = [n |-> before.n]
          BY <2>4 DEF Held, RE!Stored
    <3>2. [n |-> before.n] \in [n : RE!kIntMin..kIntMax]
          BY <3>1
    <3>3. Held(before) \notin {None, Word}
          BY <3>1, <3>2, RC DEF RE!RedisConstants
    <3> QED BY <2>4, <3>1, <3>3
  <2> QED BY <2>1, <2>2, <2>3, <2>4
<1>9. CASE name[c] = "GET" /\ Answer(kv_storage_, RE!Bulk(RE!Get(k)), None)
  <2>1. RE!Get(k) = RE!Plain(before)
        BY <1>8, <1>13 DEF RE!Get, RE!Plain
  <2>2. RE!Right(cmd, before, RE!Bulk(RE!Get(k)))
        BY <1>5, <1>9, <2>1 DEF RE!Right
  <2>3. RE!Left(cmd, before, RE!Bulk(RE!Get(k))) = before
        BY <1>5, <1>9 DEF RE!Left
  <2>4. kv_storage_ = [kv_storage_ EXCEPT ![k] = Held(before)]
        BY <1>0, <1>8 DEF StoreOK
  <2>5. None = cmd.value
        BY <1>4, <1>5, <1>9
  <2> HIDE DEF Answer
  <2> QED BY <1>7, <1>8, <1>9, <2>2, <2>3, <2>4, <2>5
<1>10. CASE name[c] = "SET" /\ Answer([kv_storage_ EXCEPT ![k] = RE!Stored(buf_[c])],
            RE!Bulk("OK"), buf_[c])
  <2>1. buf_[c] = cmd.value /\ cmd.name = "SET" /\ buf_[c] \in RE!Texts
        BY <1>4, <1>5, <1>10
  <2>2. RE!Right(cmd, before, RE!Bulk("OK")) /\ RE!Left(cmd, before, RE!Bulk("OK")) = buf_[c]
        BY <2>1 DEF RE!Right, RE!Left
  <2>3. RE!Stored(buf_[c]) \in Value
    <3>1. buf_[c] \in {Word} \cup [padded : BOOLEAN, n : RE!kIntMin..kIntMax]
          BY <2>1 DEF RE!Texts
    <3> QED BY <3>1 DEF RE!Stored, Value
  <2>4. RE!Stored(buf_[c]) = Held(buf_[c])
        BY <2>1, RC DEF Held, RE!RedisConstants
  <2> HIDE DEF Answer
  <2> QED BY <1>7, <1>10, <2>1, <2>2, <2>3, <2>4
<1>11. CASE /\ name[c] \in {"INCR", "DECR"} /\ kv_storage_[k] # Word
                /\ RE!InRange(RE!Current(k), delta)
            /\ Answer([kv_storage_ EXCEPT ![k] = [n |-> RE!Current(k) + delta]],
                RE!Integer(RE!Current(k) + delta), None)
  <2> DEFINE n == RE!Current(k) + delta
  <2>1. before # Word /\ RE!Current(k) = RE!Number(before) /\ RE!Current(k) \in RE!kIntMin..kIntMax
        BY <1>0, <1>8, <1>11, <1>13 DEF RE!Current, RE!Number, RE!kIntMin
  <2>2. n \in RE!kIntMin..kIntMax
        BY <1>0, <1>11, <2>1 DEF RE!InRange, RE!kIntMin
  <2>3. RE!Right(cmd, before, RE!Integer(n))
    <3>1. CASE name[c] = "INCR"
          BY <1>5, <2>1, <3>1 DEF RE!Right
    <3>2. CASE name[c] = "DECR"
      <4>1. RE!Current(k) + (-1) = RE!Current(k) - 1
            BY <1>0, <2>1 DEF RE!kIntMin
      <4>2. n = RE!Number(before) - 1
            BY <2>1, <3>2, <4>1
      <4> QED BY <1>5, <2>1, <3>2, <4>2 DEF RE!Right
    <3> QED BY <1>11, <3>1, <3>2
  <2> HIDE DEF n
  <2>4. RE!Left(cmd, before, RE!Integer(n)) = RE!to_string(n)
        BY <1>5, <1>11 DEF RE!Left, RE!Integer
  <2>5. RE!to_string(n) \in RE!Texts /\ [n |-> n] \in Value
        BY <2>2 DEF RE!to_string, RE!Texts, Value
  <2>6. Held(RE!to_string(n)) = [n |-> n]
    <3>1. RE!to_string(n) # None
          BY <2>5, RC DEF RE!RedisConstants
    <3>2. RE!to_string(n) \in [padded : BOOLEAN, n : RE!kIntMin..kIntMax] /\ RE!to_string(n).n = n
          BY <2>2 DEF RE!to_string
    <3>3. RE!to_string(n) # Word
          BY <3>2, RC DEF RE!RedisConstants
    <3> QED BY <3>1, <3>2, <3>3 DEF Held, RE!Stored
  <2>7. Answer([kv_storage_ EXCEPT ![k] = [n |-> n]], RE!Integer(n), None) /\ None = cmd.value
        BY <1>4, <1>5, <1>11 DEF n
  <2> HIDE DEF Answer
  <2> QED BY <1>7, <2>3, <2>4, <2>5, <2>6, <2>7
<1>12. CASE /\ name[c] \in {"INCR", "DECR"} /\ (kv_storage_[k] # Word => ~RE!InRange(RE!Current(k), delta))
            /\ kv_storage_' = [kv_storage_ EXCEPT ![k] = IF @ = None THEN [n |-> 0] ELSE @]
            /\ RE!Break(c)
  \* A missing key counts as 0, which is never at the limit.
  <2>1. kv_storage_[k] # None
    <3> SUFFICES ASSUME kv_storage_[k] = None PROVE FALSE
        OBVIOUS
    <3>1. None # Word /\ kIntMax \in Nat \ {0}
          BY RC DEF RE!RedisConstants, RE!Texts
    <3>2. ~RE!InRange(0, delta)
          BY <1>12, <3>1 DEF RE!Current
    <3> QED BY <3>1, <3>2 DEF RE!InRange, RE!kIntMin
  <2>2. kv_storage_' = kv_storage_
        BY <1>0, <1>8, <1>12, <2>1 DEF StoreOK
  <2>3. StoreOK'
        BY <1>0, <1>12, <2>2 DEF StoreOK, RE!Break
  <2> QED BY <1>1, <1>12, <2>3, BreakKeeps
<1> QED BY <1>9, <1>10, <1>11, <1>12 DEF RE!ProcessCommand

\* Every step keeps the invariant.
LEMMA RedisStep == RedisInv /\ [RE!Next]_(RE!vars) => RedisInv'
<1> SUFFICES ASSUME RedisInv, [RE!Next]_(RE!vars) PROVE RedisInv'
    OBVIOUS
<1>1. ASSUME NEW c \in Client, RE!Send(c) \/ RE!Receive(c) \/ RE!Leave(c) PROVE RedisInv'
      BY <1>1, CallerInv
<1>2. ASSUME NEW c \in Client, RE!ReadCommand(c) \/ RE!ReadEnds(c) PROVE RedisInv'
      BY <1>2, ReadInv
<1>3. ASSUME NEW c \in Client, RE!ProcessCommand(c) PROVE RedisInv'
      BY <1>3, ProcessInv
<1>4. CASE UNCHANGED RE!vars
  <2>1. \A c \in Client : Own(c)' = Own(c) /\ Good(c)
        BY <1>4 DEF RE!vars, Own, RedisInv, Good
  <2>2. \A c \in Client : Good(c)'
        BY <2>1, Others
  <2> QED BY <1>4, <2>2 DEF RedisInv, Good, StoreOK, RE!vars
<1> QED BY <1>1, <1>2, <1>3, <1>4 DEF RE!Next

\* The invariant of the redis server.
LEMMA RedisInvariance == RE!Spec => []RedisInv
  BY RedisInit, RedisStep, PTL DEF RE!Spec
-----------------------------------------------------------------------------
\* A request, or an answer or data.
Msg == Int \cup [to : Int, bad : BOOLEAN]
\* Item 0 of the way down is the answer, item n the n-th data.
Item(a, n) == IF n = 0 THEN a ELSE n

\* The sequence s has the items after x up to y; item 0 is the answer a, item n the n-th data.
Has(s, a, x, y) == Len(s) = y - x /\ \A i \in 1..Len(s) : s[i] = Item(a, x + i)

\* The types of the chain's state.
SocksType ==
    /\ up \in [SO!Link -> Seq(Msg)] /\ down \in [SO!Link -> Seq(Msg)]
    /\ upEnd \subseteq SO!Link /\ downEnd \subseteq SO!Link /\ dialed \in [SO!Link -> Int]
    /\ proxy \in [SO!Proxy -> {"accept", "refused", "relay", "done", "closed"}]
    /\ proxyRelays \in [SO!Proxy -> SUBSET {"up", "down"}] /\ failed \subseteq {"up", "down"}
    /\ socks \in {"dial", "ask", "answer", "connected", "nullptr"} /\ hop \in 0..(Chain + 1)
    /\ badUser \subseteq SO!Proxy
    /\ sentUp \in Nat /\ sentDown \in Nat /\ gotUp \in Nat /\ gotDown \in Nat

\* A proxy relays to the one it has dialed, which is the next.  What it has stopped to
\* relay has ended, or a relay has failed.
Reach ==
    /\ \A p \in SO!Proxy : proxy[p] \in SO!Granted => dialed[p + 1] = p + 1
    /\ \A p \in SO!Proxy : proxy[p] \notin SO!Granted => dialed[p + 1] = 0
    /\ dialed[1] \in {0, 1} /\ (socks \notin {"dial", "nullptr"} => dialed[1] = 1)
    /\ socks = "dial" => dialed[1] = 0
    /\ \A p \in SO!Proxy : proxy[p] = "refused" => p \in downEnd
    /\ sentDown > 0 => dialed[Chain + 1] # 0
    /\ \A p \in SO!Proxy : proxy[p] = "relay" /\ "up" \notin proxyRelays[p] =>
                              "up" \in failed \/ p + 1 \in upEnd

\* The ends of the way up, as long as no relay has failed.
CleanEnds == IF "up" \in failed THEN {} ELSE upEnd

\* While the chain is built: the proxies before the one asked relay, those behind do
\* not, and there is at most the one request under way to it.
Building ==
    socks # "connected" =>
        /\ hop \in 0..Chain /\ sentUp = 0 /\ gotUp = 0 /\ gotDown = 0
        /\ \A p \in SO!Proxy : (p < hop => proxy[p] \in SO!Granted) /\ (proxy[p] \in SO!Granted => p <= hop)
        /\ \A k \in SO!Link : up[k] # <<>> => /\ k <= hop /\ Len(up[k]) = 1 /\ up[k][1].to = hop + 1
                                              /\ proxy[hop] \notin SO!Granted
                                              /\ socks \in {"answer", "nullptr"}
        /\ \A j, k \in SO!Link : up[j] # <<>> /\ up[k] # <<>> => j = k
        /\ socks # "nullptr" => CleanEnds = {}
        /\ socks = "dial" => hop = 0
        /\ socks \in {"ask", "answer"} => hop > 0

\* No answer is under way; or answer a is, in front of all data.
Silent == /\ \A k \in SO!Link : down[k] = <<>>
          /\ sentDown = 0 /\ (hop > 0 => proxy[hop] \notin SO!Granted)
\* Where each link's messages begin and end, seen from the client.
DownFlow(c, a) ==
    /\ c \in [1..(Chain + 2) -> Int] /\ c[Chain + 2] = sentDown
    /\ \A j, k \in 1..(Chain + 2) : j <= k => c[j] <= c[k]
    /\ \A k \in SO!Link : Has(down[k], a, c[k], c[k + 1])
\* An answer is read before any data.
Answering ==
    /\ socks \in {"dial", "ask"} => Silent
    /\ socks = "answer" =>
         Silent \/ \E a \in {90, 91} : \E c : /\ DownFlow(c, a) /\ c[1] = -1
                                                  /\ proxy[hop] # "accept"
                                              /\ a = 90 => proxy[hop] \in SO!Granted
                                              /\ \A k \in 1..(Chain + 2) : k > hop => c[k] >= 0

\* The chain stands, and the data is under way in order, nothing left behind an end.
UpFlow(b) ==
    /\ b \in [0..(Chain + 1) -> Int] /\ b[0] = sentUp /\ b[Chain + 1] = gotUp
    /\ \A j, k \in 0..(Chain + 1) : j <= k => b[k] <= b[j]
    /\ \A k \in SO!Link : Has(up[k], 90, b[k], b[k - 1])
    /\ \A k \in CleanEnds : 1 \in CleanEnds /\ b[k - 1] = sentUp
Standing ==
    socks = "connected" =>
        /\ \A p \in SO!Proxy : proxy[p] \in SO!Granted
        /\ \E b : UpFlow(b)
        /\ \E c : DownFlow(c, 90) /\ c[1] = gotDown

\* The invariant of the chain.
SocksInv == SocksType /\ Reach /\ Building /\ Answering /\ Standing

\* The first message read.
LEMMA HasTail ==
  ASSUME NEW S, NEW s \in Seq(S), NEW a, NEW x \in Int, NEW y \in Int, Has(s, a, x, y), s # <<>>
  PROVE  Head(s) = Item(a, x + 1) /\ x + 1 <= y /\ Has(Tail(s), a, x + 1, y)
<1>1. Len(s) \in Nat /\ Len(s) > 0 /\ Len(Tail(s)) = Len(s) - 1 /\ Head(s) = s[1]
      /\ \A i \in 1..Len(Tail(s)) : Tail(s)[i] = s[i + 1] /\ i + 1 \in 1..Len(s)
      OBVIOUS
<1>2. Len(s) = y - x /\ \A i \in 1..Len(s) : s[i] = Item(a, x + i)
      BY DEF Has
<1>3. Head(s) = Item(a, x + 1)
      BY <1>1, <1>2
<1>4. ASSUME NEW i \in 1..Len(Tail(s)) PROVE Tail(s)[i] = Item(a, (x + 1) + i)
  <2>1. Tail(s)[i] = Item(a, x + (i + 1))
        BY <1>1, <1>2
  <2>2. i \in Int /\ x + (i + 1) = (x + 1) + i
        BY <1>1
  <2> QED BY <2>1, <2>2
<1>5. Len(Tail(s)) = y - (x + 1) /\ x + 1 <= y
      BY <1>1, <1>2
<1> QED BY <1>3, <1>4, <1>5 DEF Has

\* One message more.
LEMMA HasMore ==
  ASSUME NEW S, NEW s \in Seq(S), NEW a, NEW x \in Int, NEW y \in Int, Has(s, a, x, y),
         NEW m \in S, m = Item(a, y + 1)
  PROVE  Has(Append(s, m), a, x, y + 1)
<1>1. Len(s) \in Nat /\ Len(Append(s, m)) = Len(s) + 1 /\ Append(s, m)[Len(s) + 1] = m
      /\ \A i \in 1..Len(s) : Append(s, m)[i] = s[i]
      OBVIOUS
<1>2. Len(s) = y - x /\ \A i \in 1..Len(s) : s[i] = Item(a, x + i)
      BY DEF Has
<1>3. x + (Len(s) + 1) = y + 1 /\ Len(s) + 1 = (y + 1) - x
      BY <1>1, <1>2
<1>4. ASSUME NEW i \in 1..(Len(s) + 1) PROVE Append(s, m)[i] = Item(a, x + i)
  <2>1. CASE i \in 1..Len(s)
        BY <1>1, <1>2, <2>1
  <2>2. CASE i = Len(s) + 1
        BY <1>1, <1>3, <2>2
  <2> QED BY <1>1, <2>1, <2>2
<1> QED BY <1>1, <1>3, <1>4 DEF Has

\* A sequence without length.
LEMMA Empty == ASSUME NEW S, NEW s \in Seq(S), Len(s) = 0 PROVE s = <<>>
  OBVIOUS

\* A sequence of one.
LEMMA Single == ASSUME NEW S, NEW m \in S PROVE Len(Append(<<>>, m)) = 1 /\ Append(<<>>, m)[1] = m
  OBVIOUS

\* No messages.
LEMMA HasNone ==
  ASSUME NEW a, NEW x \in Int
  PROVE  Has(<<>>, a, x, x)
  BY DEF Has

\* The links and the proxies are numbered.
LEMMA Numbers == Chain \in Nat /\ SO!Link = 1..(Chain + 1) /\ SO!Proxy = 1..Chain /\ 1 \in SO!Link
                 /\ Chain + 1 \in SO!Link
                 /\ \A p \in SO!Proxy : p \in SO!Link /\ p + 1 \in SO!Link /\ p \in Nat /\ p # p + 1
  BY SK DEF SO!SocksConstants, SO!Link, SO!Proxy

\* ChainHolds follows.
LEMMA ChainOK == SocksInv => SO!ChainHolds
<1> SUFFICES ASSUME SocksInv PROVE SO!ChainHolds
    OBVIOUS
<1>1. \A p \in SO!Proxy : (proxy[p] \in SO!Granted => dialed[p + 1] = p + 1) /\ p + 1 # 0
                           /\ (proxy[p] \notin SO!Granted => dialed[p + 1] = 0)
      BY Numbers DEF SocksInv, Reach
<1>0. dialed[1] \in {0, 1} /\ (socks = "connected" => dialed[1] = 1)
      /\ \A k \in SO!Link : k # 1 => k - 1 \in SO!Proxy /\ (k - 1) + 1 = k
      BY Numbers DEF SocksInv, Reach
<1>4. \A k \in SO!Link : dialed[k] \in {0, k}
      BY <1>0, <1>1
<1>5. \A p \in SO!Proxy : proxy[p] = "relay" => dialed[p + 1] # 0
      BY <1>1 DEF SO!Granted
<1>2. CASE socks # "connected"
  <2>1. sentUp = 0 /\ gotUp = 0 /\ gotDown = 0 /\ sentDown \in Nat
        BY <1>2 DEF SocksInv, SocksType, Building
  <2> QED BY <1>2, <1>4, <1>5, <2>1 DEF SO!ChainHolds
<1>3. CASE socks = "connected"
  <2>1. \A p \in SO!Proxy : proxy[p] \in SO!Granted
        BY <1>3 DEF SocksInv, Standing
  <2>2. PICK b : UpFlow(b)
        BY <1>3 DEF SocksInv, Standing
  <2>3. PICK c : DownFlow(c, 90) /\ c[1] = gotDown
        BY <1>3 DEF SocksInv, Standing
  <2>4. sentUp \in Nat /\ sentDown \in Nat /\ gotUp \in Nat /\ gotDown \in Nat
        BY DEF SocksInv, SocksType
  <2>5. gotUp <= sentUp
    <3>1. 0 \in 0..(Chain + 1) /\ Chain + 1 \in 0..(Chain + 1) /\ 0 <= Chain + 1
          BY Numbers
    <3> QED BY <2>2, <3>1 DEF UpFlow
  <2>6. gotDown <= sentDown
    <3>1. 1 \in 1..(Chain + 2) /\ Chain + 2 \in 1..(Chain + 2) /\ 1 <= Chain + 2
          BY Numbers
    <3> QED BY <2>3, <3>1 DEF DownFlow
  <2>7. ASSUME Chain + 1 \in upEnd, up[Chain + 1] = <<>>, "up" \notin failed PROVE gotUp = sentUp
    <3>1. b[(Chain + 1) - 1] = sentUp
          BY <2>2, <2>7 DEF UpFlow, CleanEnds
    <3>2. Has(up[Chain + 1], 90, b[Chain + 1], b[(Chain + 1) - 1]) /\ b[Chain + 1] = gotUp
          BY <2>2, Numbers DEF UpFlow
    <3>3. Len(up[Chain + 1]) = 0
          BY <2>7
    <3>4. 0 = sentUp - gotUp
          BY <3>1, <3>2, <3>3 DEF Has
    <3> QED BY <2>4, <3>4
  <2>8. \A k \in SO!Link : dialed[k] = k
        BY <1>0, <1>1, <1>3, <2>1
  <2> QED BY <1>4, <1>5, <2>1, <2>4, <2>5, <2>6, <2>7, <2>8 DEF SO!ChainHolds
<1> QED BY <1>2, <1>3

\* At the start there is no connection.
LEMMA SocksInit == SO!Init => SocksInv
<1> SUFFICES ASSUME SO!Init PROVE SocksInv
    OBVIOUS
<1>1. SocksType
      BY Numbers DEF SO!Init, SocksType
<1>2. Reach
      BY Numbers DEF SO!Init, Reach, SO!Granted
<1>3. \A k \in SO!Link : up[k] = <<>> /\ down[k] = <<>>
      BY DEF SO!Init
<1>4. Building
      BY <1>3, Numbers DEF SO!Init, Building, CleanEnds, SO!Granted
<1>5. Answering /\ Standing
      BY <1>3 DEF SO!Init, Answering, Standing, Silent
<1> QED BY <1>1, <1>2, <1>4, <1>5 DEF SocksInv

\* A growing function stays growing when one value, below the next, grows by 1.
LEMMA Bump ==
  ASSUME NEW M \in Int, NEW N \in Int, NEW c \in [M..N -> Int], \A j,
         k \in M..N : j <= k => c[j] <= c[k],
         NEW q \in M..N, q + 1 \in M..N => c[q] + 1 <= c[q + 1], NEW d,
           d = [c EXCEPT ![q] = c[q] + 1]
  PROVE  /\ d \in [M..N -> Int] /\ \A j, k \in M..N : j <= k => d[j] <= d[k]
         /\ d[q] = c[q] + 1 /\ \A k \in M..N : k # q => d[k] = c[k]
<1>1. d \in [M..N -> Int] /\ d[q] = c[q] + 1 /\ \A k \in M..N : k # q => d[k] = c[k]
      OBVIOUS
<1>2. ASSUME NEW j \in M..N, NEW k \in M..N, j <= k PROVE d[j] <= d[k]
  <2>0. c[j] \in Int /\ c[k] \in Int /\ c[q] \in Int /\ c[j] <= c[k]
        BY <1>2
  <2>1. CASE j # q
        BY <1>1, <2>0, <2>1
  <2>2. CASE j = q /\ k = q
        BY <1>1, <2>0, <2>2
  <2>3. CASE j = q /\ k # q
    <3>1. q + 1 \in M..N /\ q + 1 <= k
          BY <1>2, <2>3
    <3>2. c[q + 1] <= c[k] /\ c[q] + 1 <= c[q + 1] /\ c[q + 1] \in Int
          BY <3>1
    <3> QED BY <1>1, <2>0, <2>3, <3>2
  <2> QED BY <2>1, <2>2, <2>3
<1> QED BY <1>1, <1>2

\* The same inside the chain.
LEMMA BumpInside ==
  ASSUME NEW n \in Nat, NEW c \in [1..(n + 2) -> Int], \A j,
         k \in 1..(n + 2) : j <= k => c[j] <= c[k],
         NEW p \in 1..n, c[p + 1] + 1 <= c[p + 2], NEW d, d = [c EXCEPT ![p + 1] = c[p + 1] + 1]
  PROVE  /\ d \in [1..(n + 2) -> Int] /\ \A j, k \in 1..(n + 2) : j <= k => d[j] <= d[k]
         /\ d[p + 1] = c[p + 1] + 1 /\ \A k \in 1..(n + 2) : k # p + 1 => d[k] = c[k]
<1> DEFINE q == p + 1
<1>1. 1 \in Int /\ n + 2 \in Int /\ q \in 1..(n + 2)
      /\ (q + 1 \in 1..(n + 2) => c[q] + 1 <= c[q + 1])
      /\ d = [c EXCEPT ![q] = c[q] + 1] /\ q + 1 = p + 2
      OBVIOUS
<1> HIDE DEF q
<1>2. /\ d \in [1..(n + 2) -> Int] /\ \A j, k \in 1..(n + 2) : j <= k => d[j] <= d[k]
      /\ d[q] = c[q] + 1 /\ \A k \in 1..(n + 2) : k # q => d[k] = c[k]
      BY <1>1, Bump
<1> QED BY <1>2 DEF q

\* The same at its end.
LEMMA BumpLast ==
  ASSUME NEW n \in Nat, NEW c \in [1..(n + 2) -> Int], \A j,
         k \in 1..(n + 2) : j <= k => c[j] <= c[k],
         NEW d, d = [c EXCEPT ![n + 2] = c[n + 2] + 1]
  PROVE  /\ d \in [1..(n + 2) -> Int] /\ \A j, k \in 1..(n + 2) : j <= k => d[j] <= d[k]
         /\ d[n + 2] = c[n + 2] + 1 /\ \A k \in 1..(n + 2) : k # n + 2 => d[k] = c[k]
<1> DEFINE q == n + 2
<1>1. 1 \in Int /\ q \in Int /\ q \in 1..q /\ q + 1 \notin 1..q
      /\ d = [c EXCEPT ![q] = c[q] + 1] /\ c \in [1..q -> Int] /\ \A j,
          k \in 1..q : j <= k => c[j] <= c[k]
      OBVIOUS
<1> HIDE DEF q
<1>2. /\ d \in [1..q -> Int] /\ \A j, k \in 1..q : j <= k => d[j] <= d[k]
      /\ d[q] = c[q] + 1 /\ \A k \in 1..q : k # q => d[k] = c[k]
      BY <1>1, Bump
<1> QED BY <1>2 DEF q

\* The same for a falling function.
LEMMA BumpDown ==
  ASSUME NEW N \in Int, NEW b \in [0..N -> Int], \A j, k \in 0..N : j <= k => b[k] <= b[j],
         NEW q \in 0..N, q > 0 => b[q] + 1 <= b[q - 1], NEW d, d = [b EXCEPT ![q] = b[q] + 1]
  PROVE  /\ d \in [0..N -> Int] /\ \A j, k \in 0..N : j <= k => d[k] <= d[j]
         /\ d[q] = b[q] + 1 /\ \A k \in 0..N : k # q => d[k] = b[k]
<1>1. d \in [0..N -> Int] /\ d[q] = b[q] + 1 /\ \A k \in 0..N : k # q => d[k] = b[k]
      OBVIOUS
<1>2. ASSUME NEW j \in 0..N, NEW k \in 0..N, j <= k PROVE d[k] <= d[j]
  <2>0. b[j] \in Int /\ b[k] \in Int /\ b[q] \in Int /\ b[k] <= b[j]
        BY <1>2
  <2>1. CASE k # q
        BY <1>1, <2>0, <2>1
  <2>2. CASE j = q /\ k = q
        BY <1>1, <2>0, <2>2
  <2>3. CASE k = q /\ j # q
    <3>1. q - 1 \in 0..N /\ j <= q - 1 /\ q > 0
          BY <1>2, <2>3
    <3>2. b[q - 1] <= b[j] /\ b[q] + 1 <= b[q - 1] /\ b[q - 1] \in Int
          BY <3>1
    <3> QED BY <1>1, <2>0, <2>3, <3>2
  <2> QED BY <2>1, <2>2, <2>3
<1> QED BY <1>1, <1>2

\* TransferDown passes a message on, whatever is under way.
LEMMA DownMove ==
  ASSUME NEW p \in SO!Proxy, SocksType, down[p + 1] # <<>>, sentDown' = sentDown,
         down' = [down EXCEPT ![p + 1] = Tail(@), ![p] = Append(@, Head(down[p + 1]))]
  PROVE  \A a \in {90, 91} : \A c : DownFlow(c, a) =>
            \E d : DownFlow(d, a)' /\ d[1] = c[1] /\ \A k \in 1..(Chain + 2) : d[k] >= c[k]
<1> SUFFICES ASSUME NEW a \in {90, 91}, NEW c, DownFlow(c, a)
             PROVE  \E d : DownFlow(d, a)' /\ d[1] = c[1] /\ \A k \in 1..(Chain + 2) : d[k] >= c[k]
    OBVIOUS
<1>d. PICK d : d = [c EXCEPT ![p + 1] = c[p + 1] + 1]
    OBVIOUS
<1>0. Chain \in Nat /\ p \in Int /\ p \in 1..Chain /\ SO!Link = 1..(Chain + 1) /\ p \in SO!Link
      /\ p + 1 \in SO!Link /\ p # p + 1
      BY Numbers
<1>1. /\ c \in [1..(Chain + 2) -> Int] /\ c[Chain + 2] = sentDown
      /\ \A j, k \in 1..(Chain + 2) : j <= k => c[j] <= c[k]
      /\ \A k \in SO!Link : Has(down[k], a, c[k], c[k + 1])
      BY DEF DownFlow
<1>2. c[p] \in Int /\ c[p + 1] \in Int /\ c[p + 2] \in Int /\ (p + 1) + 1 = p + 2
      BY <1>0, <1>1
<1>3. down[p] \in Seq(Msg) /\ down[p + 1] \in Seq(Msg) /\ Head(down[p + 1]) \in Msg
      BY <1>0 DEF SocksType
<1>4. Has(down[p + 1], a, c[p + 1], c[p + 2]) /\ Has(down[p], a, c[p], c[p + 1])
      BY <1>0, <1>1, <1>2
<1>5. Head(down[p + 1]) = Item(a, c[p + 1] + 1) /\ c[p + 1] + 1 <= c[p + 2]
      /\ Has(Tail(down[p + 1]), a, c[p + 1] + 1, c[p + 2])
      BY <1>2, <1>3, <1>4, HasTail
<1>6. Has(Append(down[p], Head(down[p + 1])), a, c[p], c[p + 1] + 1)
      BY <1>2, <1>3, <1>4, <1>5, HasMore
<1>7. /\ d \in [1..(Chain + 2) -> Int] /\ \A j, k \in 1..(Chain + 2) : j <= k => d[j] <= d[k]
      /\ d[p + 1] = c[p + 1] + 1 /\ \A k \in 1..(Chain + 2) : k # p + 1 => d[k] = c[k]
  <2>1. 1 \in Int /\ Chain + 2 \in Int /\ p + 1 \in 1..(Chain + 2)
        BY <1>0
  <2>2. c \in [1..(Chain + 2) -> Int] /\ \A j, k \in 1..(Chain + 2) : j <= k => c[j] <= c[k]
        BY <1>1
  <2>3. c[p + 1] + 1 <= c[p + 2] /\ p \in 1..Chain
        BY <1>0, <1>5
  <2> QED BY <1>d, <1>0, <2>2, <2>3, BumpInside
<1>8. down'[p + 1] = Tail(down[p + 1]) /\ down'[p] = Append(down[p], Head(down[p + 1]))
      /\ \A k \in SO!Link : k # p /\ k # p + 1 => down'[k] = down[k]
      BY <1>0 DEF SocksType
<1>9. ASSUME NEW k \in SO!Link PROVE Has(down'[k], a, d[k], d[k + 1])
  <2>1. CASE k = p
    <3>1. d[p] = c[p] /\ d[p + 1] = c[p + 1] + 1
          BY <1>0, <1>7
    <3> QED BY <2>1, <3>1, <1>6, <1>8
  <2>2. CASE k = p + 1
    <3>1. d[p + 2] = c[p + 2] /\ d[p + 1] = c[p + 1] + 1 /\ k + 1 = p + 2
          BY <1>0, <1>7, <2>2
    <3> QED BY <2>2, <3>1, <1>5, <1>8
  <2>3. CASE k # p /\ k # p + 1
    <3>1. d[k] = c[k] /\ d[k + 1] = c[k + 1]
          BY <1>0, <1>7, <2>3
    <3> QED BY <2>3, <3>1, <1>1, <1>8
  <2> QED BY <2>1, <2>2, <2>3
<1>10. d[Chain + 2] = c[Chain + 2] /\ d[1] = c[1]
      BY <1>0, <1>7
<1>11. DownFlow(d, a)'
      BY <1>1, <1>7, <1>9, <1>10 DEF DownFlow
<1>12. ASSUME NEW k \in 1..(Chain + 2) PROVE d[k] >= c[k]
      BY <1>1, <1>7
<1> QED BY <1>10, <1>11, <1>12

\* The end point sends.
LEMMA DownIn ==
  ASSUME NEW c, NEW a \in {90, 91}, SocksType, DownFlow(c, a), sentDown' = sentDown + 1,
         down' = [down EXCEPT ![Chain + 1] = Append(@, sentDown')]
  PROVE  \E d : DownFlow(d, a)' /\ d[1] = c[1] /\ \A k \in 1..(Chain + 2) : d[k] >= c[k]
<1>d. PICK d : d = [c EXCEPT ![Chain + 2] = c[Chain + 2] + 1]
    OBVIOUS
<1>0. Chain \in Nat /\ SO!Link = 1..(Chain + 1) /\ Chain + 1 \in SO!Link
      /\ (Chain + 1) + 1 = Chain + 2 /\ sentDown \in Nat
      BY Numbers DEF SocksType
<1>1. /\ c \in [1..(Chain + 2) -> Int] /\ c[Chain + 2] = sentDown
      /\ \A j, k \in 1..(Chain + 2) : j <= k => c[j] <= c[k]
      /\ \A k \in SO!Link : Has(down[k], a, c[k], c[k + 1])
      BY DEF DownFlow
<1>2. c[Chain + 1] \in Int /\ c[Chain + 2] \in Int
      BY <1>0, <1>1
<1>3. down[Chain + 1] \in Seq(Msg) /\ sentDown' \in Msg /\ sentDown' = Item(a, c[Chain + 2] + 1)
      BY <1>0, <1>1 DEF SocksType, Item, Msg
<1>4. Has(down[Chain + 1], a, c[Chain + 1], c[Chain + 2])
      BY <1>0, <1>1
<1>6. Has(Append(down[Chain + 1], sentDown'), a, c[Chain + 1], c[Chain + 2] + 1)
      BY <1>2, <1>3, <1>4, HasMore
<1>7. /\ d \in [1..(Chain + 2) -> Int] /\ \A j, k \in 1..(Chain + 2) : j <= k => d[j] <= d[k]
      /\ d[Chain + 2] = c[Chain + 2] + 1 /\ \A k \in 1..(Chain + 2) : k # Chain + 2 => d[k] = c[k]
  <2>1. c \in [1..(Chain + 2) -> Int] /\ \A j, k \in 1..(Chain + 2) : j <= k => c[j] <= c[k]
        BY <1>1
  <2> QED BY <1>0, <1>d, <2>1, BumpLast
<1>8. down'[Chain + 1] = Append(down[Chain + 1], sentDown')
      /\ \A k \in SO!Link : k # Chain + 1 => down'[k] = down[k]
      BY <1>0 DEF SocksType
<1>9. ASSUME NEW k \in SO!Link PROVE Has(down'[k], a, d[k], d[k + 1])
  <2>1. CASE k = Chain + 1
    <3>1. d[Chain + 1] = c[Chain + 1] /\ k + 1 = Chain + 2
          BY <1>0, <1>7, <2>1
    <3> QED BY <2>1, <3>1, <1>6, <1>7, <1>8
  <2>3. CASE k # Chain + 1
    <3>1. d[k] = c[k] /\ d[k + 1] = c[k + 1]
          BY <1>0, <1>7, <2>3
    <3> QED BY <2>3, <3>1, <1>1, <1>8
  <2> QED BY <2>1, <2>3
<1>10. d[1] = c[1]
      BY <1>0, <1>7
<1>11. DownFlow(d, a)'
      BY <1>1, <1>7, <1>9 DEF DownFlow
<1>12. ASSUME NEW k \in 1..(Chain + 2) PROVE d[k] >= c[k]
      BY <1>1, <1>7
<1> QED BY <1>10, <1>11, <1>12

\* The client reads.
LEMMA DownOut ==
  ASSUME NEW c, NEW a \in {90, 91}, SocksType, DownFlow(c, a), sentDown' = sentDown, down[1] # <<>>,
         down' = [down EXCEPT ![1] = Tail(@)]
  PROVE  c[1] \in Int /\ Head(down[1]) = Item(a, c[1] + 1) /\ \E d : DownFlow(d, a)'
         /\ d[1] = c[1] + 1
<1>d. PICK d : d = [c EXCEPT ![1] = c[1] + 1]
    OBVIOUS
<1>0. Chain \in Nat /\ SO!Link = 1..(Chain + 1) /\ 1 \in SO!Link /\ 1 + 1 = 2
      /\ 2 \in 1..(Chain + 2) /\ 1 \in 1..(Chain + 2)
      BY Numbers
<1>1. /\ c \in [1..(Chain + 2) -> Int] /\ c[Chain + 2] = sentDown
      /\ \A j, k \in 1..(Chain + 2) : j <= k => c[j] <= c[k]
      /\ \A k \in SO!Link : Has(down[k], a, c[k], c[k + 1])
      BY DEF DownFlow
<1>2. c[1] \in Int /\ c[2] \in Int
      BY <1>0, <1>1
<1>3. down[1] \in Seq(Msg)
      BY <1>0 DEF SocksType
<1>4. Has(down[1], a, c[1], c[2])
      BY <1>0, <1>1
<1>5. Head(down[1]) = Item(a, c[1] + 1) /\ c[1] + 1 <= c[2] /\ Has(Tail(down[1]), a, c[1] + 1, c[2])
      BY <1>2, <1>3, <1>4, HasTail
<1>7. /\ d \in [1..(Chain + 2) -> Int] /\ \A j, k \in 1..(Chain + 2) : j <= k => d[j] <= d[k]
      /\ d[1] = c[1] + 1 /\ \A k \in 1..(Chain + 2) : k # 1 => d[k] = c[k]
  <2>1. 1 \in Int /\ Chain + 2 \in Int
        BY <1>0
  <2> QED BY <1>d, <2>1, <1>0, <1>1, <1>2, <1>5, Bump
<1>8. down'[1] = Tail(down[1]) /\ \A k \in SO!Link : k # 1 => down'[k] = down[k]
      BY <1>0 DEF SocksType
<1>9. ASSUME NEW k \in SO!Link PROVE Has(down'[k], a, d[k], d[k + 1])
  <2>1. CASE k = 1
    <3>1. d[2] = c[2] /\ k + 1 = 2
          BY <1>0, <1>7, <2>1
    <3> QED BY <2>1, <3>1, <1>5, <1>7, <1>8
  <2>3. CASE k # 1
    <3>1. d[k] = c[k] /\ d[k + 1] = c[k + 1]
          BY <1>0, <1>7, <2>3
    <3> QED BY <2>3, <3>1, <1>1, <1>8
  <2> QED BY <2>1, <2>3
<1>10. d[Chain + 2] = c[Chain + 2]
      BY <1>0, <1>7
<1>11. DownFlow(d, a)'
      BY <1>1, <1>7, <1>9, <1>10 DEF DownFlow
<1> QED BY <1>2, <1>5, <1>7, <1>11

\* TransferUp passes a message on.
LEMMA UpMove ==
  ASSUME NEW p \in SO!Proxy, NEW b, SocksType, UpFlow(b), up[p] # <<>>,
         up' = [up EXCEPT ![p] = Tail(@), ![p + 1] = Append(@, Head(up[p]))],
         sentUp' = sentUp, gotUp' = gotUp, CleanEnds' = CleanEnds
  PROVE  \E d : UpFlow(d)'
<1>d. PICK d : d = [b EXCEPT ![p] = b[p] + 1]
    OBVIOUS
<1>0. Chain \in Nat /\ p \in Int /\ p \in 1..Chain /\ SO!Link = 1..(Chain + 1) /\ p \in SO!Link
      /\ p + 1 \in SO!Link /\ p # p + 1
      BY Numbers
<1>1. /\ b \in [0..(Chain + 1) -> Int] /\ b[0] = sentUp /\ b[Chain + 1] = gotUp
      /\ \A j, k \in 0..(Chain + 1) : j <= k => b[k] <= b[j]
      /\ \A k \in SO!Link : Has(up[k], 90, b[k], b[k - 1])
      /\ \A k \in CleanEnds : 1 \in CleanEnds /\ b[k - 1] = sentUp
      BY DEF UpFlow
<1>2. b[p] \in Int /\ b[p + 1] \in Int /\ b[p - 1] \in Int /\ (p + 1) - 1 = p
      BY <1>0, <1>1
<1>3. up[p] \in Seq(Msg) /\ up[p + 1] \in Seq(Msg) /\ Head(up[p]) \in Msg
      BY <1>0 DEF SocksType
<1>4. Has(up[p], 90, b[p], b[p - 1]) /\ Has(up[p + 1], 90, b[p + 1], b[p])
      BY <1>0, <1>1, <1>2
<1>5. Head(up[p]) = Item(90, b[p] + 1) /\ b[p] + 1 <= b[p - 1]
      /\ Has(Tail(up[p]), 90, b[p] + 1, b[p - 1])
      BY <1>2, <1>3, <1>4, HasTail
<1>6. Has(Append(up[p + 1], Head(up[p])), 90, b[p + 1], b[p] + 1)
      BY <1>2, <1>3, <1>4, <1>5, HasMore
<1>7. /\ d \in [0..(Chain + 1) -> Int] /\ \A j, k \in 0..(Chain + 1) : j <= k => d[k] <= d[j]
      /\ d[p] = b[p] + 1 /\ \A k \in 0..(Chain + 1) : k # p => d[k] = b[k]
  <2>1. Chain + 1 \in Int /\ p \in 0..(Chain + 1)
        BY <1>0
  <2> QED BY <1>d, <2>1, <1>1, <1>2, <1>5, BumpDown
<1>8. up'[p] = Tail(up[p]) /\ up'[p + 1] = Append(up[p + 1], Head(up[p]))
      /\ \A k \in SO!Link : k # p /\ k # p + 1 => up'[k] = up[k]
      BY <1>0 DEF SocksType
<1>9. ASSUME NEW k \in SO!Link PROVE Has(up'[k], 90, d[k], d[k - 1])
  <2>1. CASE k = p
    <3>1. d[p - 1] = b[p - 1]
          BY <1>0, <1>7
    <3> QED BY <2>1, <3>1, <1>5, <1>7, <1>8
  <2>2. CASE k = p + 1
    <3>1. d[p + 1] = b[p + 1] /\ k - 1 = p
          BY <1>0, <1>7, <2>2
    <3> QED BY <2>2, <3>1, <1>6, <1>7, <1>8
  <2>3. CASE k # p /\ k # p + 1
    <3>1. d[k] = b[k] /\ d[k - 1] = b[k - 1]
          BY <1>0, <1>7, <2>3
    <3> QED BY <2>3, <3>1, <1>1, <1>8
  <2> QED BY <2>1, <2>2, <2>3
<1>10. d[0] = b[0] /\ d[Chain + 1] = b[Chain + 1]
      BY <1>0, <1>7
<1>11. ASSUME NEW k \in CleanEnds PROVE d[k - 1] = sentUp
  <2>0. k \in upEnd
        BY DEF CleanEnds
  <2>1. k \in 1..(Chain + 1) /\ k - 1 \in 0..(Chain + 1) /\ b[k - 1] = sentUp
        BY <1>0, <1>1, <2>0 DEF SocksType
  <2>2. CASE k - 1 # p
        BY <1>7, <2>1, <2>2
  <2>3. CASE k - 1 = p
    <3>1. b[p - 1] <= b[0] /\ b[p] = b[0] /\ b[0] \in Int
          BY <1>0, <1>1, <2>1, <2>3
    <3> QED BY <1>2, <1>5, <3>1
  <2> QED BY <2>2, <2>3
<1>12. UpFlow(d)'
      BY <1>1, <1>7, <1>9, <1>10, <1>11 DEF UpFlow
<1> QED BY <1>12

\* The client sends.
LEMMA UpIn ==
  ASSUME NEW b, SocksType, UpFlow(b), sentUp' = sentUp + 1,
         up' = [up EXCEPT ![1] = Append(@, sentUp')],
         1 \notin CleanEnds, gotUp' = gotUp, CleanEnds' = CleanEnds
  PROVE  \E d : UpFlow(d)'
<1>d. PICK d : d = [b EXCEPT ![0] = b[0] + 1]
    OBVIOUS
<1>0. Chain \in Nat /\ SO!Link = 1..(Chain + 1) /\ 1 \in SO!Link /\ sentUp \in Nat
      /\ 0 \in 0..(Chain + 1) /\ 1 \in 0..(Chain + 1)
      /\ 1 - 1 = 0
      BY Numbers DEF SocksType
<1>1. /\ b \in [0..(Chain + 1) -> Int] /\ b[0] = sentUp /\ b[Chain + 1] = gotUp
      /\ \A j, k \in 0..(Chain + 1) : j <= k => b[k] <= b[j]
      /\ \A k \in SO!Link : Has(up[k], 90, b[k], b[k - 1])
      /\ CleanEnds = {}
      BY DEF UpFlow
<1>2. b[0] \in Int /\ b[1] \in Int
      BY <1>0, <1>1
<1>3. up[1] \in Seq(Msg) /\ sentUp' \in Msg /\ sentUp' = Item(90, b[0] + 1)
      BY <1>0, <1>1 DEF SocksType, Item, Msg
<1>4. Has(up[1], 90, b[1], b[0])
      BY <1>0, <1>1
<1>6. Has(Append(up[1], sentUp'), 90, b[1], b[0] + 1)
      BY <1>2, <1>3, <1>4, HasMore
<1>7. /\ d \in [0..(Chain + 1) -> Int] /\ \A j, k \in 0..(Chain + 1) : j <= k => d[k] <= d[j]
      /\ d[0] = b[0] + 1 /\ \A k \in 0..(Chain + 1) : k # 0 => d[k] = b[k]
  <2>1. Chain + 1 \in Int
        BY <1>0
  <2> QED BY <1>d, <2>1, <1>0, <1>1, <1>2, BumpDown
<1>8. up'[1] = Append(up[1], sentUp') /\ \A k \in SO!Link : k # 1 => up'[k] = up[k]
      BY <1>0 DEF SocksType
<1>9. ASSUME NEW k \in SO!Link PROVE Has(up'[k], 90, d[k], d[k - 1])
  <2>1. CASE k = 1
    <3>1. d[1] = b[1]
          BY <1>0, <1>7
    <3> QED BY <2>1, <3>1, <1>0, <1>6, <1>7, <1>8
  <2>3. CASE k # 1
    <3>1. d[k] = b[k] /\ d[k - 1] = b[k - 1]
          BY <1>0, <1>7, <2>3
    <3> QED BY <2>3, <3>1, <1>1, <1>8
  <2> QED BY <2>1, <2>3
<1>10. d[Chain + 1] = b[Chain + 1]
      BY <1>0, <1>7
<1>12. UpFlow(d)'
      BY <1>1, <1>7, <1>9, <1>10 DEF UpFlow
<1> QED BY <1>12

\* The end point reads.
LEMMA UpOut ==
  ASSUME NEW b, SocksType, UpFlow(b), sentUp' = sentUp, up' = [up EXCEPT ![Chain + 1] = Tail(@)],
         up[Chain + 1] # <<>>,
         gotUp' = (IF Head(up[Chain + 1]) = gotUp + 1 THEN gotUp + 1 ELSE -1), CleanEnds' = CleanEnds
  PROVE  gotUp' = gotUp + 1 /\ \E d : UpFlow(d)'
<1>d. PICK d : d = [b EXCEPT ![Chain + 1] = b[Chain + 1] + 1]
    OBVIOUS
<1>0. Chain \in Nat /\ SO!Link = 1..(Chain + 1) /\ Chain + 1 \in SO!Link /\ gotUp \in Nat
      /\ Chain + 1 \in 0..(Chain + 1)
      /\ Chain \in 0..(Chain + 1) /\ (Chain + 1) - 1 = Chain /\ Chain + 1 # Chain /\ Chain + 1 # 0
      BY Numbers DEF SocksType
<1>1. /\ b \in [0..(Chain + 1) -> Int] /\ b[0] = sentUp /\ b[Chain + 1] = gotUp
      /\ \A j, k \in 0..(Chain + 1) : j <= k => b[k] <= b[j]
      /\ \A k \in SO!Link : Has(up[k], 90, b[k], b[k - 1])
      /\ \A k \in CleanEnds : 1 \in CleanEnds /\ b[k - 1] = sentUp
      BY DEF UpFlow
<1>2. b[Chain] \in Int /\ b[Chain + 1] \in Int
      BY <1>0, <1>1
<1>3. up[Chain + 1] \in Seq(Msg)
      BY <1>0 DEF SocksType
<1>4. Has(up[Chain + 1], 90, b[Chain + 1], b[Chain])
      BY <1>0, <1>1
<1>5. Head(up[Chain + 1]) = Item(90, b[Chain + 1] + 1) /\ b[Chain + 1] + 1 <= b[Chain]
      /\ Has(Tail(up[Chain + 1]), 90, b[Chain + 1] + 1, b[Chain])
      BY <1>2, <1>3, <1>4, HasTail
<1>6. gotUp' = gotUp + 1
      BY <1>0, <1>1, <1>5 DEF Item
<1>7. /\ d \in [0..(Chain + 1) -> Int] /\ \A j, k \in 0..(Chain + 1) : j <= k => d[k] <= d[j]
      /\ d[Chain + 1] = b[Chain + 1] + 1 /\ \A k \in 0..(Chain + 1) : k # Chain + 1 => d[k] = b[k]
  <2>1. Chain + 1 \in Int
        BY <1>0
  <2> QED BY <1>d, <2>1, <1>0, <1>1, <1>2, <1>5, BumpDown
<1>8. up'[Chain + 1] = Tail(up[Chain + 1]) /\ \A k \in SO!Link : k # Chain + 1 => up'[k] = up[k]
      BY <1>0 DEF SocksType
<1>9. ASSUME NEW k \in SO!Link PROVE Has(up'[k], 90, d[k], d[k - 1])
  <2>1. CASE k = Chain + 1
    <3>1. d[Chain] = b[Chain] /\ k - 1 = Chain
          BY <1>0, <1>7, <2>1
    <3> QED BY <2>1, <3>1, <1>5, <1>7, <1>8
  <2>3. CASE k # Chain + 1
    <3>1. d[k] = b[k] /\ d[k - 1] = b[k - 1]
          BY <1>0, <1>7, <2>3
    <3> QED BY <2>3, <3>1, <1>1, <1>8
  <2> QED BY <2>1, <2>3
<1>10. d[0] = b[0]
      BY <1>0, <1>7
<1>11. ASSUME NEW k \in CleanEnds PROVE d[k - 1] = sentUp
  <2>0. k \in upEnd
        BY DEF CleanEnds
  <2>1. k \in 1..(Chain + 1) /\ k - 1 \in 0..(Chain + 1) /\ b[k - 1] = sentUp /\ k - 1 # Chain + 1
        BY <1>0, <1>1, <2>0 DEF SocksType
  <2> QED BY <1>7, <2>1
<1>12. UpFlow(d)'
      BY <1>1, <1>6, <1>7, <1>9, <1>10, <1>11 DEF UpFlow
<1> QED BY <1>6, <1>12

\* Nothing has been sent yet.
LEMMA UpStill ==
  ASSUME \A k \in SO!Link : up'[k] = <<>>, sentUp' = 0, gotUp' = 0, CleanEnds' = {}
  PROVE  \E b : UpFlow(b)'
<1>1. PICK b : b = [k \in 0..(Chain + 1) |-> 0]
      OBVIOUS
<1>2. Chain \in Nat /\ 0 \in 0..(Chain + 1) /\ Chain + 1 \in 0..(Chain + 1)
      BY Numbers
<1>3. b \in [0..(Chain + 1) -> Int] /\ \A k \in 0..(Chain + 1) : b[k] = 0
      BY <1>1
<1>4. ASSUME NEW k \in SO!Link PROVE Has(up'[k], 90, b[k], b[k - 1])
  <2>1. b[k] = 0 /\ b[k - 1] = 0
        BY <1>2, <1>3, Numbers
  <2> QED BY <2>1, HasNone
<1>5. UpFlow(b)'
      BY <1>2, <1>3, <1>4 DEF UpFlow
<1> QED BY <1>5

\* DialProxyChain dials the first proxy.
LEMMA DialFirstKeeps == SocksInv /\ SO!DialFirst => SocksInv'
<1> SUFFICES ASSUME SocksInv, SO!DialFirst PROVE SocksInv'
    OBVIOUS
<1>1. /\ socks = "dial" /\ UNCHANGED <<up, down, upEnd, downEnd, proxy, proxyRelays, failed,
          badUser, sentUp, sentDown, gotUp, gotDown>>
      /\ \/ dialed' = [dialed EXCEPT ![1] = 1] /\ socks' = (IF Chain = 0 THEN "connected" ELSE "ask") /\ hop' = 1
         \/ socks' = "nullptr" /\ UNCHANGED <<dialed, hop>>
      BY DEF SO!DialFirst, SO!ends
<1>2. /\ hop = 0 /\ CleanEnds = {} /\ CleanEnds' = {} /\ sentUp = 0 /\ gotUp = 0 /\ gotDown = 0
      BY <1>1 DEF SocksInv, Building, CleanEnds
<1>3. \A k \in SO!Link : up[k] = <<>>
      BY <1>1, <1>2 DEF SocksInv, Building
<1>4. sentDown = 0 /\ \A k \in SO!Link : down[k] = <<>>
      BY <1>1 DEF SocksInv, Answering, Silent
<1>5. \A p \in SO!Proxy : proxy[p] \notin SO!Granted
      BY <1>1, <1>2, Numbers DEF SocksInv, Building
<1>6. \A p \in SO!Proxy : proxy[p] = "refused" => p \in downEnd
      BY DEF SocksInv, Reach
<1>7. SocksType'
  <2>1. hop' \in 0..(Chain + 1) /\ dialed' \in [SO!Link -> Int]
        /\ socks' \in {"ask", "connected", "nullptr"}
        BY <1>1, <1>2, Numbers DEF SocksInv, SocksType
  <2> QED BY <1>1, <2>1 DEF SocksInv, SocksType
<1>8. Reach'
  <2>4. \A p \in SO!Proxy : p + 1 \in SO!Link /\ p + 1 # 1
        BY Numbers
  <2>0. \A p \in SO!Proxy : p + 1 \in SO!Link /\ p + 1 # 1 /\ dialed[p + 1] = 0
        BY <1>5, <2>4 DEF SocksInv, Reach
  <2>1. \A p \in SO!Proxy : dialed'[p + 1] = 0
        BY <1>1, <2>0 DEF SocksInv, SocksType
  <2>2. dialed'[1] \in {0, 1} /\ (socks' # "nullptr" => dialed'[1] = 1)
        BY <1>1, Numbers DEF SocksInv, Reach, SocksType
  <2>3. \A p \in SO!Proxy : proxy[p] # "relay"
        BY <1>5 DEF SO!Granted
  <2> QED BY <1>1, <1>4, <1>5, <1>6, <2>1, <2>2, <2>3 DEF Reach
<1>9. Building'
  <2>1. socks' # "connected" => hop' \in 0..Chain
        BY <1>1, <1>2, Numbers
  <2>2. socks' = "ask" => hop' = 1
        BY <1>1
  <2>3. \A p \in SO!Proxy : ~(p < hop')
        BY <1>1, <1>2, Numbers
  <2> QED BY <1>1, <1>2, <1>3, <1>5, <2>1, <2>2, <2>3 DEF Building
<1>10. Answering'
  <2>1. socks' = "ask" => 1 \in SO!Proxy /\ hop' = 1
        BY <1>1, Numbers
  <2> QED BY <1>1, <1>4, <1>5, <2>1 DEF Answering, Silent
<1>11. Standing'
  <2> SUFFICES ASSUME socks' = "connected"
               PROVE /\ \A p \in SO!Proxy : proxy'[p] \in SO!Granted
                     /\ \E b : UpFlow(b)'
                     /\ \E c : DownFlow(c, 90)' /\ c[1] = gotDown'
      BY DEF Standing
  <2>1. Chain = 0 /\ SO!Proxy = {}
        BY <1>1, Numbers
  <2>2. \E b : UpFlow(b)'
        BY <1>1, <1>2, <1>3, UpStill
  <2>3. PICK c : c = [k \in 1..(Chain + 2) |-> 0]
        OBVIOUS
  <2>4. 1 \in 1..(Chain + 2) /\ Chain + 2 \in 1..(Chain + 2) /\ c \in [1..(Chain + 2) -> Int]
        /\ \A k \in 1..(Chain + 2) : c[k] = 0
        BY <2>3, Numbers
  <2>5. ASSUME NEW k \in SO!Link PROVE Has(down'[k], 90, c[k], c[k + 1])
    <3>1. c[k] = 0 /\ c[k + 1] = 0
          BY <2>4, Numbers
    <3> QED BY <1>1, <1>4, <3>1, HasNone
  <2>6. DownFlow(c, 90)' /\ c[1] = gotDown'
        BY <1>1, <1>2, <1>4, <2>4, <2>5 DEF DownFlow
  <2> QED BY <2>1, <2>2, <2>6
<1> QED BY <1>7, <1>8, <1>9, <1>10, <1>11 DEF SocksInv

\* Sock4Connect gives up: the connection is closed.
LEMMA GivesUp ==
  ASSUME SocksInv, SO!GiveUp, socks \in {"ask", "answer"}, down' \in [SO!Link -> Seq(Msg)],
         UNCHANGED <<up, downEnd, dialed, proxy, proxyRelays, failed, badUser, sentUp, sentDown,
           gotUp, gotDown>>
  PROVE  SocksInv'
<1>1. socks' = "nullptr" /\ upEnd' = upEnd \cup {1} /\ hop' = hop
      BY DEF SO!GiveUp
<1>2. SocksType'
      BY <1>1, Numbers DEF SocksInv, SocksType
<1>3. Reach'
      BY <1>1 DEF SocksInv, Reach
<1>4. Building'
  <2>1. \A k \in SO!Link : up[k] # <<>> => k <= hop /\ Len(up[k]) = 1 /\ up[k][1].to = hop + 1
                                            /\ proxy[hop] \notin SO!Granted
        BY DEF SocksInv, Building
  <2> QED BY <1>1, <2>1 DEF SocksInv, Building
<1>5. Answering' /\ Standing'
      BY <1>1 DEF Answering, Standing
<1> QED BY <1>2, <1>3, <1>4, <1>5 DEF SocksInv

\* Sock4Connect sends its request.
LEMMA AskKeeps == SocksInv /\ SO!Ask => SocksInv'
<1> SUFFICES ASSUME SocksInv, SO!Ask PROVE SocksInv'
    OBVIOUS
<1> DEFINE m == [to |-> hop + 1, bad |-> hop \in badUser]
<1>0. CASE SO!GiveUp /\ UNCHANGED up
  <2>1. socks = "ask" /\ UNCHANGED <<down, downEnd, dialed, proxy, proxyRelays, failed, badUser,
            sentUp, sentDown, gotUp, gotDown>>
        BY DEF SO!Ask, SO!ends
  <2>2. down' \in [SO!Link -> Seq(Msg)]
        BY <2>1 DEF SocksInv, SocksType
  <2> QED BY <1>0, <2>1, <2>2, GivesUp
<1> SUFFICES ASSUME ~(SO!GiveUp /\ UNCHANGED up) PROVE SocksInv'
    BY <1>0
<1>1. /\ socks = "ask" /\ socks' = "answer" /\ up' = [up EXCEPT ![1] = Append(@, m)]
      /\ UNCHANGED <<down, upEnd, downEnd, dialed, proxy, proxyRelays, failed, hop, badUser, sentUp,
          sentDown, gotUp, gotDown>>
      BY DEF SO!Ask, SO!ends
<1>2. m \in Msg /\ m.to = hop + 1
      BY Numbers DEF SocksInv, SocksType, Msg
<1> HIDE DEF m
<1>3. /\ \A k \in SO!Link : down[k] = <<>>
      /\ sentDown = 0 /\ (hop > 0 => proxy[hop] \notin SO!Granted)
      BY <1>1 DEF SocksInv, Answering, Silent
<1>4. /\ hop \in 0..Chain /\ sentUp = 0 /\ gotUp = 0 /\ gotDown = 0 /\ hop > 0
      /\ CleanEnds = {} /\ CleanEnds' = {}
      /\ \A p \in SO!Proxy : (p < hop => proxy[p] \in SO!Granted) /\ (proxy[p] \in SO!Granted => p <= hop)
      /\ \A k \in SO!Link : up[k] = <<>>
      BY <1>1 DEF SocksInv, Building, CleanEnds
<1>5. Len(up'[1]) = 1 /\ up'[1][1] = m /\ \A k \in SO!Link : k # 1 => up'[k] = <<>>
  <2>1. up[1] = <<>> /\ up'[1] = Append(up[1], m) /\ \A k \in SO!Link : k # 1 => up'[k] = up[k]
        BY <1>1, <1>4, Numbers DEF SocksInv, SocksType
  <2>2. Len(up'[1]) = 1 /\ up'[1][1] = m
        BY <1>2, <2>1, Single
  <2> QED BY <1>4, <2>1, <2>2
<1>6. SocksType'
  <2>1. up' \in [SO!Link -> Seq(Msg)]
        BY <1>1, <1>2, Numbers DEF SocksInv, SocksType
  <2> QED BY <1>1, <2>1 DEF SocksInv, SocksType
<1>7. Reach'
      BY <1>1 DEF SocksInv, Reach
<1>8. Building'
  <2>1. \A k \in SO!Link : up'[k] # <<>> => k = 1 /\ k <= hop
        BY <1>4, <1>5, Numbers
  <2> QED BY <1>1, <1>2, <1>3, <1>4, <1>5, <2>1 DEF Building
<1>9. Answering'
      BY <1>1, <1>3 DEF Answering, Silent
<1>10. Standing'
      BY <1>1 DEF Standing
<1> QED BY <1>6, <1>7, <1>8, <1>9, <1>10 DEF SocksInv

\* Sock4Connect reads the answer: 90 only from a proxy that relays by now.
LEMMA AnswerKeeps == SocksInv /\ SO!Answer => SocksInv'
<1> SUFFICES ASSUME SocksInv, SO!Answer PROVE SocksInv'
    OBVIOUS
<1>1. /\ socks = "answer"
      /\ UNCHANGED <<up, downEnd, dialed, proxy, proxyRelays, failed, badUser, sentUp, sentDown,
          gotUp, gotDown>>
      BY DEF SO!Answer, SO!ends
<1>2. /\ hop \in 0..Chain /\ sentUp = 0 /\ gotUp = 0 /\ gotDown = 0 /\ hop > 0 /\ CleanEnds = {}
      /\ \A p \in SO!Proxy : (p < hop => proxy[p] \in SO!Granted) /\ (proxy[p] \in SO!Granted => p <= hop)
      /\ \A k \in SO!Link : up[k] # <<>> => k <= hop /\ Len(up[k]) = 1 /\ proxy[hop] \notin SO!Granted
      /\ \A j, k \in SO!Link : up[j] # <<>> /\ up[k] # <<>> => j = k
      BY <1>1 DEF SocksInv, Building
<1>4. hop \in SO!Proxy /\ hop \in Int /\ 1 \in SO!Link
      BY <1>2, Numbers
<1>5. CASE SO!GiveUp
  <2>0. down \in [SO!Link -> Seq(Msg)]
        BY DEF SocksInv, SocksType
  <2>1. down' \in [SO!Link -> Seq(Msg)]
    <3>1. CASE down' = down
          BY <2>0, <3>1
    <3>2. CASE down[1] # <<>> /\ down' = [down EXCEPT ![1] = Tail(@)]
          BY <1>4, <2>0, <3>2
    <3> QED BY <3>1, <3>2 DEF SO!Answer
  <2> QED BY <1>1, <1>5, <2>1, GivesUp
<1>6. CASE down[1] # <<>> /\ down' = [down EXCEPT ![1] = Tail(@)] /\ Head(down[1]) = 90
           /\ UNCHANGED upEnd
           /\ \/ hop = Chain /\ socks' = "connected" /\ UNCHANGED hop
              \/ hop # Chain /\ socks' = "ask" /\ hop' = hop + 1
  <2>0. CleanEnds' = {}
        BY <1>1, <1>2, <1>6 DEF CleanEnds
  <2>11. Reach'
        BY <1>1, <1>6 DEF SocksInv, Reach
  <2>1. ~Silent
        BY <1>4, <1>6 DEF Silent
  <2>2. PICK a \in {90, 91} : \E c : /\ DownFlow(c, a) /\ c[1] = -1 /\ proxy[hop] # "accept"
                                     /\ a = 90 => proxy[hop] \in SO!Granted
                                     /\ \A k \in 1..(Chain + 2) : k > hop => c[k] >= 0
        BY <1>1, <2>1 DEF SocksInv, Answering
  <2>3. PICK c : /\ DownFlow(c, a) /\ c[1] = -1 /\ proxy[hop] # "accept"
                 /\ a = 90 => proxy[hop] \in SO!Granted
                 /\ \A k \in 1..(Chain + 2) : k > hop => c[k] >= 0
        BY <2>2
  <2>4. SocksType /\ DownFlow(c, a) /\ sentDown' = sentDown /\ down[1] # <<>>
        /\ down' = [down EXCEPT ![1] = Tail(@)]
        BY <1>1, <1>6, <2>3 DEF SocksInv
  <2>5. PICK d : DownFlow(d, a)' /\ d[1] = c[1] + 1 /\ Head(down[1]) = Item(a, c[1] + 1)
        BY <2>4, DownOut
  <2>6. a = 90 /\ proxy[hop] \in SO!Granted /\ d[1] = 0
        BY <1>6, <2>3, <2>5 DEF Item
  <2>7. \A k \in SO!Link : up[k] = <<>>
        BY <1>2, <2>6
  <2>8. SocksType'
    <3>1. down' \in [SO!Link -> Seq(Msg)]
          BY <1>4, <1>6 DEF SocksInv, SocksType
    <3>2. hop' \in 0..(Chain + 1)
          BY <1>4, <1>6, Numbers
    <3> QED BY <1>1, <1>6, <3>1, <3>2 DEF SocksInv, SocksType
  <2>9. CASE hop = Chain /\ socks' = "connected" /\ UNCHANGED hop
    <3>1. \A p \in SO!Proxy : proxy[p] \in SO!Granted
          BY <1>2, <2>6, <2>9, Numbers
    <3>2. \E b : UpFlow(b)'
          BY <1>1, <1>2, <2>0, <2>7, UpStill
    <3>3. Standing'
          BY <1>1, <1>2, <2>5, <2>6, <3>1, <3>2 DEF Standing
    <3>4. Building' /\ Answering'
          BY <2>9 DEF Building, Answering
    <3> QED BY <2>8, <2>11, <3>3, <3>4 DEF SocksInv
  <2>10. CASE hop # Chain /\ socks' = "ask" /\ hop' = hop + 1
    <3>1. hop + 1 \in 0..Chain /\ hop + 1 \in SO!Proxy /\ hop + 1 > 0 /\ hop' = hop + 1
          /\ Chain \in SO!Proxy /\ ~(Chain <= hop) /\ ~(hop + 1 <= hop)
          BY <1>2, <1>4, <2>10, Numbers
    <3>2. proxy[hop + 1] \notin SO!Granted /\ proxy[Chain] \notin SO!Granted
          BY <1>2, <3>1
    <3>3. sentDown = 0
          BY <3>1, <3>2 DEF SocksInv, Reach, SocksType
    <3>4. ASSUME NEW k \in SO!Link PROVE down'[k] = <<>>
      <4>1. /\ d \in [1..(Chain + 2) -> Int] /\ d[Chain + 2] = 0
            /\ \A i, j \in 1..(Chain + 2) : i <= j => d[i] <= d[j]
            /\ Has(down'[k], a, d[k], d[k + 1])
            BY <1>1, <2>5, <3>3 DEF DownFlow
      <4>2. k \in 1..(Chain + 2) /\ k + 1 \in 1..(Chain + 2) /\ 1 \in 1..(Chain + 2)
            /\ Chain + 2 \in 1..(Chain + 2)
            /\ 1 <= k /\ 1 <= k + 1 /\ k <= Chain + 2 /\ k + 1 <= Chain + 2
            BY Numbers
      <4>3. d[k] = 0 /\ d[k + 1] = 0
            BY <2>6, <4>1, <4>2
      <4>4. Len(down'[k]) = 0 /\ down'[k] \in Seq(Msg)
            BY <2>8, <4>1, <4>3 DEF Has, SocksType
      <4> QED BY <4>4
    <3>5. Building'
      <4>1. \A p \in SO!Proxy : (p < hop + 1 => proxy[p] \in SO!Granted)
            /\ (proxy[p] \in SO!Granted => p <= hop + 1)
            BY <1>2, <1>4, <2>6, Numbers
      <4> QED BY <1>1, <1>2, <2>0, <2>7, <2>10, <3>1, <4>1 DEF Building
    <3>6. Answering'
          BY <1>1, <2>10, <3>1, <3>2, <3>3, <3>4 DEF Answering, Silent
    <3>7. Standing'
          BY <2>10 DEF Standing
    <3> QED BY <2>8, <2>11, <3>5, <3>6, <3>7 DEF SocksInv
  <2> QED BY <1>6, <2>9, <2>10
<1>7. CASE down[1] # <<>> /\ down' = [down EXCEPT ![1] = Tail(@)]
  <2>1. CASE Head(down[1]) # 90
        BY <1>5, <1>7, <2>1 DEF SO!Answer
  <2>2. CASE Head(down[1]) = 90
        BY <1>5, <1>6, <1>7, <2>2 DEF SO!Answer
  <2> QED BY <2>1, <2>2
<1> QED BY <1>5, <1>7 DEF SO!Answer

\* What only grows stays behind the answer.
LEMMA Above ==
  ASSUME SocksInv, NEW c, NEW d, \A k \in 1..(Chain + 2) : c[k] \in Int /\ d[k] \in Int,
         \A k \in 1..(Chain + 2) : k > hop => c[k] >= 0, \A k \in 1..(Chain + 2) : d[k] >= c[k]
  PROVE  \A k \in 1..(Chain + 2) : k > hop => d[k] >= 0
<1> SUFFICES ASSUME NEW k \in 1..(Chain + 2), k > hop PROVE d[k] >= 0
    OBVIOUS
<1>1. c[k] \in Int /\ d[k] \in Int /\ c[k] >= 0 /\ d[k] >= c[k]
      OBVIOUS
<1> QED BY <1>1

\* What is under way stays when the links do.
LEMMA FlowsKept ==
  ASSUME Answering, Standing, CleanEnds' = CleanEnds, hop \in SO!Proxy \/ socks \notin {"ask", "answer"},
         socks = "dial" => hop = 0,
         \A p \in SO!Proxy : /\ proxy'[p] \in SO!Granted <=> proxy[p] \in SO!Granted
                             /\ proxy'[p] = "accept" <=> proxy[p] = "accept",
         UNCHANGED <<up, down, socks, hop, sentUp, sentDown, gotUp, gotDown>>
  PROVE  Answering' /\ Standing'
<1>1. Silent /\ socks \in {"dial", "ask", "answer"} => Silent'
      BY DEF Silent
<1>2. ASSUME NEW c, NEW a, DownFlow(c, a) PROVE DownFlow(c, a)'
      BY <1>2 DEF DownFlow
<1>3. ASSUME NEW b, UpFlow(b) PROVE UpFlow(b)'
      BY <1>3 DEF UpFlow
<1>5. Standing'
      BY <1>2, <1>3 DEF Standing
<1>4. Answering'
      BY <1>1, <1>2 DEF Answering
<1> QED BY <1>4, <1>5

\* The client sends, or ends its half.
LEMMA ClientSendsKeeps == SocksInv /\ SO!ClientSends => SocksInv'
<1> SUFFICES ASSUME SocksInv, SO!ClientSends PROVE SocksInv'
    OBVIOUS
<1>1. /\ socks = "connected" /\ 1 \notin upEnd
      /\ \/ sentUp' = sentUp + 1 /\ UNCHANGED upEnd /\ up' = [up EXCEPT ![1] = Append(@, sentUp')]
         \/ upEnd' = upEnd \cup {1} /\ UNCHANGED <<up, sentUp>>
      /\ UNCHANGED <<down, downEnd, dialed, proxy, proxyRelays, failed, socks, hop, badUser,
          sentDown, gotUp, gotDown>>
      BY DEF SO!ClientSends
<1>2. PICK b : UpFlow(b)
      BY <1>1 DEF SocksInv, Standing
<1>3. PICK c : DownFlow(c, 90) /\ c[1] = gotDown
      BY <1>1 DEF SocksInv, Standing
<1>4. DownFlow(c, 90)' /\ c[1] = gotDown'
      BY <1>1, <1>3 DEF DownFlow
<1>5. Reach'
      BY <1>1 DEF SocksInv, Reach
<1>6. Building' /\ Answering'
      BY <1>1 DEF Building, Answering
<1>7. \A p \in SO!Proxy : proxy'[p] \in SO!Granted
      BY <1>1 DEF SocksInv, Standing
<1>8. CASE sentUp' = sentUp + 1 /\ UNCHANGED upEnd /\ up' = [up EXCEPT ![1] = Append(@, sentUp')]
  <2>1. SocksType /\ gotUp' = gotUp /\ upEnd' = upEnd /\ CleanEnds' = CleanEnds /\ 1 \notin CleanEnds
        BY <1>1, <1>8 DEF SocksInv, CleanEnds
  <2>2. \E d : UpFlow(d)'
        BY <1>1, <1>2, <1>8, <2>1, UpIn
  <2>3. Standing'
        BY <1>4, <1>7, <2>2 DEF Standing
  <2>4. sentUp \in Nat /\ sentUp' \in Nat /\ sentUp' \in Msg
        BY <1>8, <2>1 DEF SocksType, Msg
  <2>5. up' \in [SO!Link -> Seq(Msg)]
        BY <1>8, <2>1, <2>4, Numbers DEF SocksType
  <2>6. SocksType'
        BY <1>1, <2>1, <2>4, <2>5 DEF SocksType
  <2> QED BY <1>5, <1>6, <2>3, <2>6 DEF SocksInv
<1>9. CASE upEnd' = upEnd \cup {1} /\ UNCHANGED <<up, sentUp>>
  <2>1. CleanEnds = {} /\ b[0] = sentUp
        BY <1>1, <1>2 DEF UpFlow, CleanEnds
  <2>2. \A k \in CleanEnds' : 1 \in CleanEnds' /\ b[k - 1] = sentUp'
        BY <1>1, <1>9, <2>1 DEF CleanEnds
  <2>3. UpFlow(b)'
        BY <1>1, <1>2, <1>9, <2>2 DEF UpFlow
  <2>4. Standing'
        BY <1>4, <1>7, <2>3 DEF Standing
  <2>5. SocksType'
        BY <1>1, <1>9, Numbers DEF SocksInv, SocksType
  <2> QED BY <1>5, <1>6, <2>4, <2>5 DEF SocksInv
<1> QED BY <1>1, <1>8, <1>9

\* When the end point is dialed, the last answer is on its way.
LEMMA Speaks ==
  ASSUME SocksInv, socks \in {"dial", "ask", "answer"}, dialed[Chain + 1] = Chain + 1
  PROVE  ~Silent
<1>0. /\ hop \in 0..Chain /\ (socks = "dial" => hop = 0 /\ dialed[1] = 0) /\ (socks # "dial" => hop > 0)
      /\ \A p \in SO!Proxy : proxy[p] \in SO!Granted => p <= hop
      BY DEF SocksInv, Building, Reach
<1>1. /\ hop \in 0..Chain /\ socks # "dial" /\ hop > 0
      /\ \A p \in SO!Proxy : proxy[p] \in SO!Granted => p <= hop
  <2>1. ASSUME socks = "dial" PROVE FALSE
    <3>1. Chain # 0 /\ Chain \in SO!Proxy /\ ~(Chain <= 0) /\ Chain + 1 # 0
          BY <1>0, <2>1, Numbers
    <3>2. proxy[Chain] \in SO!Granted
          BY <3>1 DEF SocksInv, Reach
    <3> QED BY <1>0, <2>1, <3>1, <3>2
  <2> QED BY <1>0, <2>1
<1>2. Chain \in SO!Proxy /\ (Chain <= hop => hop = Chain) /\ Chain + 1 # 0
      BY <1>1, Numbers
<1>3. proxy[Chain] \in SO!Granted
      BY <1>2 DEF SocksInv, Reach
<1> QED BY <1>1, <1>2, <1>3 DEF Silent

\* The end point sends, or ends its half.
LEMMA EndSendsKeeps == SocksInv /\ SO!EndSends => SocksInv'
<1> SUFFICES ASSUME SocksInv, SO!EndSends PROVE SocksInv'
    OBVIOUS
<1>1. /\ dialed[Chain + 1] = Chain + 1
      /\ \/ /\ sentDown' = sentDown + 1 /\ UNCHANGED downEnd
            /\ down' = [down EXCEPT ![Chain + 1] = Append(@, sentDown')]
         \/ downEnd' = downEnd \cup {Chain + 1} /\ UNCHANGED <<down, sentDown>>
      /\ UNCHANGED <<up, upEnd, dialed, proxy, proxyRelays, failed, socks, hop, badUser, sentUp,
          gotUp, gotDown>>
      BY DEF SO!EndSends
<1>6. CleanEnds' = CleanEnds
      BY <1>1 DEF CleanEnds
<1>2. Reach'
      BY <1>1, Numbers DEF SocksInv, Reach
<1>3. Building'
      BY <1>1, <1>6 DEF SocksInv, Building
<1>4. CASE sentDown' = sentDown + 1 /\ UNCHANGED downEnd
           /\ down' = [down EXCEPT ![Chain + 1] = Append(@, sentDown')]
  <2>0. SocksType
        BY DEF SocksInv
  <2>1. ASSUME NEW c, NEW a \in {90, 91}, DownFlow(c, a)
        PROVE  \E d : DownFlow(d, a)' /\ d[1] = c[1] /\ \A k \in 1..(Chain + 2) : d[k] >= c[k]
        BY <1>4, <2>0, <2>1, DownIn
  <2>2. sentDown' \in Nat /\ sentDown' \in Msg
        BY <1>4, <2>0 DEF SocksType, Msg
  <2>3. down' \in [SO!Link -> Seq(Msg)]
        BY <1>4, <2>0, <2>2, Numbers DEF SocksType
  <2>4. SocksType'
        BY <1>1, <1>4, <2>0, <2>2, <2>3 DEF SocksType
  <2>5. Answering'
    <3>1. CASE socks = "answer"
      <4>1. ~Silent
            BY <1>1, <3>1, Speaks
      <4>2. PICK a \in {90, 91} : \E c : /\ DownFlow(c, a) /\ c[1] = -1 /\ proxy[hop] # "accept"
                                         /\ a = 90 => proxy[hop] \in SO!Granted
                                         /\ \A k \in 1..(Chain + 2) : k > hop => c[k] >= 0
            BY <3>1, <4>1 DEF SocksInv, Answering
      <4>3. PICK c : /\ DownFlow(c, a) /\ c[1] = -1 /\ proxy[hop] # "accept"
                     /\ a = 90 => proxy[hop] \in SO!Granted
                     /\ \A k \in 1..(Chain + 2) : k > hop => c[k] >= 0
            BY <4>2
      <4>4. PICK d : DownFlow(d, a)' /\ d[1] = c[1] /\ \A k \in 1..(Chain + 2) : d[k] >= c[k]
            BY <2>1, <4>3
      <4>5. \A k \in 1..(Chain + 2) : k > hop => d[k] >= 0
        <5>1. \A k \in 1..(Chain + 2) : c[k] \in Int /\ d[k] \in Int
              BY <4>3, <4>4 DEF DownFlow
        <5> QED BY <4>3, <4>4, <5>1, Above
      <4>6. /\ DownFlow(d, a)' /\ d[1] = -1 /\ proxy'[hop'] # "accept"
            /\ a = 90 => proxy'[hop'] \in SO!Granted
            /\ \A k \in 1..(Chain + 2) : k > hop' => d[k] >= 0
            BY <1>1, <4>3, <4>4, <4>5
      <4> QED BY <1>1, <3>1, <4>6 DEF Answering
    <3>2. CASE socks \in {"dial", "ask"}
          BY <1>1, <3>2, Speaks DEF SocksInv, Answering
    <3> QED BY <1>1, <3>1, <3>2 DEF Answering
  <2>6. Standing'
    <3> SUFFICES ASSUME socks = "connected" PROVE Standing'
        BY <1>1 DEF Standing
    <3>1. PICK b : UpFlow(b)
          BY DEF SocksInv, Standing
    <3>2. PICK c : DownFlow(c, 90) /\ c[1] = gotDown
          BY DEF SocksInv, Standing
    <3>3. UpFlow(b)'
          BY <1>1, <1>6, <3>1 DEF UpFlow
    <3>4. PICK d : DownFlow(d, 90)' /\ d[1] = c[1]
          BY <2>1, <3>2
    <3> QED BY <1>1, <3>2, <3>3, <3>4 DEF SocksInv, Standing
  <2> QED BY <1>2, <1>3, <2>4, <2>5, <2>6 DEF SocksInv
<1>5. CASE downEnd' = downEnd \cup {Chain + 1} /\ UNCHANGED <<down, sentDown>>
  <2>1. SocksType'
        BY <1>1, <1>5, Numbers DEF SocksInv, SocksType
  <2>3. (hop \in SO!Proxy \/ socks \notin {"ask", "answer"}) /\ (socks = "dial" => hop = 0)
        BY Numbers DEF SocksInv, Building
  <2>2. Answering' /\ Standing'
        BY <1>1, <1>5, <1>6, <2>3, FlowsKept DEF SocksInv
  <2> QED BY <1>2, <1>3, <2>1, <2>2 DEF SocksInv
<1> QED BY <1>1, <1>4, <1>5

\* The end point reads: only when the chain stands.
LEMMA EndReadsKeeps == SocksInv /\ SO!EndReads => SocksInv'
<1> SUFFICES ASSUME SocksInv, SO!EndReads PROVE SocksInv'
    OBVIOUS
<1>1. /\ up[Chain + 1] # <<>> /\ up' = [up EXCEPT ![Chain + 1] = Tail(@)]
      /\ gotUp' = (IF Head(up[Chain + 1]) = gotUp + 1 THEN gotUp + 1 ELSE -1)
      /\ UNCHANGED <<down, upEnd, downEnd, dialed, proxy, proxyRelays, failed, socks, hop, badUser,
          sentUp, sentDown, gotDown>>
      BY DEF SO!EndReads
<1>2. socks = "connected"
  <2>1. SUFFICES ASSUME socks # "connected" PROVE FALSE
        OBVIOUS
  <2>2. Chain + 1 <= hop /\ hop \in 0..Chain
        BY <1>1, <2>1, Numbers DEF SocksInv, Building
  <2> QED BY <2>2, Numbers
<1>3. PICK b : UpFlow(b)
      BY <1>2 DEF SocksInv, Standing
<1>4. PICK c : DownFlow(c, 90) /\ c[1] = gotDown
      BY <1>2 DEF SocksInv, Standing
<1>5. DownFlow(c, 90)' /\ c[1] = gotDown'
      BY <1>1, <1>4 DEF DownFlow
<1>6. SocksType /\ sentUp' = sentUp /\ CleanEnds' = CleanEnds
      BY <1>1 DEF SocksInv, CleanEnds
<1>7. gotUp' = gotUp + 1 /\ \E d : UpFlow(d)'
      BY <1>1, <1>3, <1>6, UpOut
<1>8. Standing'
      BY <1>1, <1>2, <1>5, <1>7 DEF SocksInv, Standing
<1>9. Reach' /\ Building' /\ Answering'
      BY <1>1, <1>2 DEF SocksInv, Reach, Building, Answering
<1>10. SocksType'
  <2>1. gotUp' \in Nat
        BY <1>6, <1>7 DEF SocksType
  <2>2. up' \in [SO!Link -> Seq(Msg)]
        BY <1>1, <1>6, Numbers DEF SocksType
  <2> QED BY <1>1, <1>6, <2>1, <2>2 DEF SocksType
<1> QED BY <1>8, <1>9, <1>10 DEF SocksInv

\* The client reads.
LEMMA ClientReadsKeeps == SocksInv /\ SO!ClientReads => SocksInv'
<1> SUFFICES ASSUME SocksInv, SO!ClientReads PROVE SocksInv'
    OBVIOUS
<1>1. /\ socks = "connected" /\ down[1] # <<>> /\ down' = [down EXCEPT ![1] = Tail(@)]
      /\ gotDown' = (IF Head(down[1]) = gotDown + 1 THEN gotDown + 1 ELSE -1)
      /\ UNCHANGED <<up, upEnd, downEnd, dialed, proxy, proxyRelays, failed, socks, hop, badUser,
          sentUp, sentDown, gotUp>>
      BY DEF SO!ClientReads
<1>3. PICK b : UpFlow(b)
      BY <1>1 DEF SocksInv, Standing
<1>4. PICK c : DownFlow(c, 90) /\ c[1] = gotDown
      BY <1>1 DEF SocksInv, Standing
<1>2. CleanEnds' = CleanEnds
      BY <1>1 DEF CleanEnds
<1>5. UpFlow(b)'
      BY <1>1, <1>2, <1>3 DEF UpFlow
<1>6. SocksType /\ sentDown' = sentDown /\ gotDown \in Nat
      BY <1>1 DEF SocksInv, SocksType
<1>7. Head(down[1]) = Item(90, c[1] + 1) /\ \E d : DownFlow(d, 90)' /\ d[1] = c[1] + 1
  <2>1. 90 \in {90, 91}
        OBVIOUS
  <2> QED BY <2>1, <1>1, <1>4, <1>6, DownOut
<1>8. gotDown' = gotDown + 1
      BY <1>1, <1>4, <1>6, <1>7 DEF Item
<1>9. Standing'
      BY <1>1, <1>4, <1>5, <1>7, <1>8 DEF SocksInv, Standing
<1>10. Reach' /\ Building' /\ Answering'
      BY <1>1 DEF SocksInv, Reach, Building, Answering
<1>11. SocksType'
  <2>1. gotDown' \in Nat
        BY <1>6, <1>8
  <2>2. down' \in [SO!Link -> Seq(Msg)]
        BY <1>1, <1>6, Numbers DEF SocksType
  <2> QED BY <1>1, <1>6, <2>1, <2>2 DEF SocksType
<1> QED BY <1>9, <1>10, <1>11 DEF SocksInv

\* A proxy that did not relay ends.
LEMMA StopKeeps ==
  ASSUME SocksInv, NEW p \in SO!Proxy, proxy[p] \in {"accept", "refused"},
         proxy' = [proxy EXCEPT ![p] = "done"],
         downEnd \subseteq downEnd', downEnd' \subseteq SO!Link,
         UNCHANGED <<up, down, upEnd, dialed, proxyRelays, failed, socks, hop, badUser, sentUp,
           sentDown, gotUp, gotDown>>
  PROVE  SocksInv'
<1>0. proxy \in [SO!Proxy -> {"accept", "refused", "relay", "done", "closed"}]
      BY DEF SocksInv, SocksType
<1>1. /\ \A q \in SO!Proxy : (proxy'[q] \in SO!Granted <=> proxy[q] \in SO!Granted)
          /\ (proxy'[q] = "accept" => proxy[q] = "accept")
          /\ (proxy'[q] = "refused" => proxy[q] = "refused") /\ (proxy'[q] = "relay" => proxy[q] = "relay")
      /\ proxy' \in [SO!Proxy -> {"accept", "refused", "relay", "done", "closed"}]
      BY <1>0 DEF SO!Granted
<1>2. socks # "connected"
      BY DEF SocksInv, Standing, SO!Granted
<1>10. CleanEnds' = CleanEnds
      BY DEF CleanEnds
<1>3. SocksType'
      BY <1>1 DEF SocksInv, SocksType
<1>4. Reach'
      BY <1>1 DEF SocksInv, Reach
<1>5. hop > 0 => hop \in SO!Proxy
      BY <1>2, Numbers DEF SocksInv, Building
<1>6. hop \in 0..Chain /\ hop \in Nat
      BY <1>2, Numbers DEF SocksInv, Building
<1>7. Building'
  <2>1. ASSUME NEW k \in SO!Link, up[k] # <<>> PROVE proxy'[hop] \notin SO!Granted
    <3>1. k <= hop /\ proxy[hop] \notin SO!Granted
          BY <1>2, <2>1 DEF SocksInv, Building
    <3>2. hop \in SO!Proxy
          BY <1>5, <1>6, <3>1, Numbers
    <3> QED BY <1>1, <3>1, <3>2
  <2> QED BY <1>1, <1>10, <2>1 DEF SocksInv, Building
<1>8. Answering'
  <2>1. Silent => Silent'
        BY <1>1, <1>5 DEF Silent
  <2>2. ASSUME NEW c, NEW a, DownFlow(c, a) PROVE DownFlow(c, a)'
        BY <2>2 DEF DownFlow
  <2>3. socks = "answer" => hop \in SO!Proxy
        BY <1>2, <1>5 DEF SocksInv, Building
  <2> QED BY <1>1, <2>1, <2>2, <2>3 DEF SocksInv, Answering
<1>9. Standing'
      BY <1>2 DEF Standing
<1> QED BY <1>3, <1>4, <1>7, <1>8, <1>9 DEF SocksInv

\* The answer 90 after a refusal is not sent.
LEMMA FallThroughKeeps == ASSUME SocksInv, NEW p \in SO!Proxy, SO!FallThrough(p) PROVE SocksInv'
<1>1. proxy[p] = "refused" /\ p \in downEnd
      BY DEF SocksInv, Reach, SO!FallThrough
<1>2. /\ proxy' = [proxy EXCEPT ![p] = "done"]
      /\ UNCHANGED <<up, down, upEnd, downEnd, dialed, proxyRelays, failed, socks, hop, badUser,
          sentUp, sentDown, gotUp, gotDown>>
      BY <1>1 DEF SO!FallThrough, SO!ends
<1>3. downEnd \subseteq downEnd' /\ downEnd' \subseteq SO!Link
      BY <1>2 DEF SocksInv, SocksType
<1> QED BY <1>1, <1>2, <1>3, StopKeeps

\* A proxy's answer is the first message of the way down.
LEMMA AnsweredFlow ==
  ASSUME NEW a \in {90, 91}, NEW p \in SO!Proxy, down \in [SO!Link -> Seq(Msg)],
         \A k \in SO!Link : down[k] = <<>>,
         down' = [down EXCEPT ![p] = Append(@, a)], sentDown' = 0
  PROVE  \E c : DownFlow(c, a)' /\ c[1] = -1 /\ \A k \in 1..(Chain + 2) : k > p => c[k] >= 0
<1>1. PICK c : c = [k \in 1..(Chain + 2) |-> IF k <= p THEN -1 ELSE 0]
      OBVIOUS
<1>2. Chain \in Nat /\ SO!Link = 1..(Chain + 1) /\ p \in 1..Chain /\ p \in SO!Link /\ p \in Int
      /\ 1 \in 1..(Chain + 2) /\ Chain + 2 \in 1..(Chain + 2)
      BY Numbers
<1>3. /\ c \in [1..(Chain + 2) -> Int] /\ \A k \in 1..(Chain + 2) : (k <= p => c[k] = -1)
          /\ (k > p => c[k] = 0)
      BY <1>1, <1>2
<1>4. c[Chain + 2] = 0 /\ c[1] = -1
      BY <1>2, <1>3
<1>5. ASSUME NEW j \in 1..(Chain + 2), NEW k \in 1..(Chain + 2), j <= k PROVE c[j] <= c[k]
  <2>1. CASE j <= p
    <3>1. c[j] = -1 /\ (c[k] = -1 \/ c[k] = 0)
          BY <1>2, <1>3, <2>1
    <3> QED BY <3>1
  <2>2. CASE j > p
    <3>1. k > p
          BY <1>2, <1>5, <2>2
    <3>2. c[j] = 0 /\ c[k] = 0
          BY <1>3, <2>2, <3>1
    <3> QED BY <3>2
  <2> QED BY <1>2, <2>1, <2>2
<1>6. ASSUME NEW k \in SO!Link PROVE Has(down'[k], a, c[k], c[k + 1])
  <2>0. k \in 1..(Chain + 2) /\ k + 1 \in 1..(Chain + 2)
        BY <1>2
  <2>1. CASE k = p
    <3>1. c[k] = -1 /\ c[k + 1] = 0
          BY <1>2, <1>3, <2>0, <2>1
    <3>2. a \in Int /\ down[p] = <<>> /\ down'[p] = Append(down[p], a)
          BY <1>2
    <3>3. Len(down'[k]) = 1 /\ down'[k][1] = a
          BY <2>1, <3>2, Single
    <3>4. \A i \in 1..1 : i = 1
          OBVIOUS
    <3>5. Item(a, -1 + 1) = a
          BY DEF Item
    <3> QED BY <3>1, <3>3, <3>4, <3>5 DEF Has
  <2>2. CASE k # p
    <3>1. c[k] = c[k + 1] /\ c[k] \in Int
      <4>1. CASE k < p
        <5>1. k <= p /\ k + 1 <= p
              BY <1>2, <2>0, <4>1
        <5> QED BY <1>3, <2>0, <5>1
      <4>2. CASE k > p
        <5>1. k + 1 > p
              BY <1>2, <2>0, <4>2
        <5> QED BY <1>3, <2>0, <4>2, <5>1
      <4> QED BY <1>2, <2>0, <2>2, <4>1, <4>2
    <3>2. down'[k] = <<>>
          BY <2>2
    <3>3. Has(<<>>, a, c[k], c[k])
          BY <3>1, HasNone
    <3> QED BY <3>1, <3>2, <3>3
  <2> QED BY <2>1, <2>2
<1>7. DownFlow(c, a)'
      BY <1>3, <1>4, <1>5, <1>6 DEF DownFlow
<1>8. \A k \in 1..(Chain + 2) : k > p => c[k] >= 0
      BY <1>3
<1> QED BY <1>4, <1>7, <1>8

\* MakeConn: only the proxy that was asked last has a request.
LEMMA MakeConnKeeps == ASSUME SocksInv, NEW p \in SO!Proxy, SO!MakeConn(p) PROVE SocksInv'
<1>1. proxy[p] = "accept" /\ proxy[p] \notin SO!Granted /\ UNCHANGED <<upEnd, failed, socks, hop,
      badUser, sentUp, sentDown, gotUp, gotDown>>
      BY DEF SO!MakeConn, SO!ends, SO!Granted
<1>2. socks # "connected"
      BY <1>1 DEF SocksInv, Standing
<1>6. CleanEnds' = CleanEnds
      BY <1>1 DEF CleanEnds
<1>3. SocksType /\ proxy \in [SO!Proxy -> {"accept", "refused", "relay", "done", "closed"}]
      /\ proxyRelays \in [SO!Proxy -> SUBSET {"up", "down"}]
      /\ p \in SO!Link /\ p + 1 \in SO!Link /\ p \in Nat /\ down \in [SO!Link -> Seq(Msg)]
          /\ up \in [SO!Link -> Seq(Msg)]
      BY Numbers DEF SocksInv, SocksType
<1>4. CASE /\ proxy' = [proxy EXCEPT ![p] = "done"]
           /\ downEnd' = downEnd \cup {p} /\ UNCHANGED <<up, down, dialed, proxyRelays>>
  <2>1. downEnd \subseteq downEnd' /\ downEnd' \subseteq SO!Link
        BY <1>3, <1>4 DEF SocksType
  <2> QED BY <1>1, <1>4, <2>1, StopKeeps
<1>5. CASE up[p] # <<>> /\ up' = [up EXCEPT ![p] = Tail(@)] /\ (SO!Grant(p, Head(up[p]).to) \/ SO!Refuse(p))
  <2>1. /\ hop \in 0..Chain /\ sentUp = 0 /\ gotUp = 0 /\ gotDown = 0
        /\ \A q \in SO!Proxy : (q < hop => proxy[q] \in SO!Granted) /\ (proxy[q] \in SO!Granted => q <= hop)
        /\ p <= hop /\ Len(up[p]) = 1 /\ up[p][1].to = hop + 1 /\ socks \in {"answer", "nullptr"}
        /\ \A k \in SO!Link : up[k] # <<>> => k = p
        /\ socks # "nullptr" => CleanEnds = {}
        BY <1>2, <1>3, <1>5 DEF SocksInv, Building
  <2>2. p = hop /\ hop > 0
        BY <1>1, <1>3, <2>1, Numbers
  <2>9. Head(up[p]).to = p + 1
    <3>1. up[p] \in Seq(Msg) /\ up[p] # <<>>
          BY <1>3, <1>5
    <3>2. Head(up[p]) = up[p][1]
          BY <3>1
    <3> QED BY <2>1, <2>2, <3>2
  <2>3. \A k \in SO!Link : up'[k] = <<>>
    <3>1. Tail(up[p]) = <<>>
      <4>1. up[p] \in Seq(Msg) /\ Len(Tail(up[p])) = 0 /\ Tail(up[p]) \in Seq(Msg)
            BY <1>3, <1>5, <2>1
      <4> QED BY <4>1, Empty
    <3> QED BY <1>3, <1>5, <2>1, <3>1
  <2>4. up' \in [SO!Link -> Seq(Msg)]
        BY <1>3, <1>5
  <2>5. socks = "answer" => sentDown = 0 /\ \A k \in SO!Link : down[k] = <<>>
        BY <1>1, <2>2 DEF SocksInv, Answering, Silent
  <2>6. Standing'
        BY <1>1, <1>2 DEF Standing
  <2>7. CASE SO!Grant(p, Head(up[p]).to)
    <3>1. /\ dialed' = [dialed EXCEPT ![p + 1] = p + 1] /\ down' = [down EXCEPT ![p] = Append(@, 90)]
          /\ proxy' = [proxy EXCEPT ![p] = "relay"]
              /\ proxyRelays' = [proxyRelays EXCEPT ![p] = {"up", "down"}] /\ downEnd' = downEnd
          BY <2>7, <2>9 DEF SO!Grant
    <3>2. proxy' \in [SO!Proxy -> {"accept", "refused", "relay", "done", "closed"}] /\ proxy'[p] = "relay"
          /\ proxy'[p] \in SO!Granted /\ \A q \in SO!Proxy : q # p => proxy'[q] = proxy[q]
          BY <1>3, <3>1 DEF SO!Granted
    <3>3. SocksType'
      <4>1. 90 \in Msg
            BY DEF Msg
      <4>2. down' \in [SO!Link -> Seq(Msg)]
            BY <1>3, <3>1, <4>1
      <4>3. proxyRelays' \in [SO!Proxy -> SUBSET {"up", "down"}]
            BY <1>3, <3>1
      <4>4. dialed' \in [SO!Link -> Int]
            BY <1>3, <3>1 DEF SocksType
      <4> QED BY <1>1, <1>3, <2>4, <3>1, <3>2, <4>2, <4>3, <4>4 DEF SocksType
    <3>4. Reach'
      <4>0. /\ dialed'[p + 1] = p + 1 /\ p + 1 # 0 /\ dialed'[1] = dialed[1]
            /\ \A k \in SO!Link : k # p + 1 => dialed'[k] = dialed[k]
            BY <1>3, <3>1, Numbers DEF SocksType
      <4>1. ASSUME NEW q \in SO!Proxy PROVE (proxy'[q] \in SO!Granted => dialed'[q + 1] = q + 1)
                                            /\ (proxy'[q] \notin SO!Granted => dialed'[q + 1] = 0)
        <5>1. CASE q = p
              BY <3>2, <4>0, <5>1
        <5>2. CASE q # p
          <6>1. q + 1 # p + 1 /\ q + 1 \in SO!Link
                BY <5>2, Numbers
          <6> QED BY <3>2, <4>0, <5>2, <6>1 DEF SocksInv, Reach
        <5> QED BY <5>1, <5>2
      <4>2. ASSUME NEW q \in SO!Proxy, proxy'[q] = "refused" PROVE q \in downEnd'
            BY <3>1, <3>2, <4>2 DEF SocksInv, Reach
      <4>3. sentDown' > 0 => dialed'[Chain + 1] # 0
            BY <1>1, <4>0, Numbers DEF SocksInv, Reach
      <4>4. ASSUME NEW q \in SO!Proxy, proxy'[q] = "relay", "up" \notin proxyRelays'[q]
            PROVE  "up" \in failed' \/ q + 1 \in upEnd'
        <5>1. q # p
              BY <1>3, <3>1, <4>4
        <5> QED BY <1>1, <1>3, <3>1, <3>2, <4>4, <5>1 DEF SocksInv, Reach
      <4>5. dialed'[1] \in {0, 1} /\ (socks' \notin {"dial", "nullptr"} => dialed'[1] = 1)
            /\ (socks' = "dial" => dialed'[1] = 0)
            BY <1>1, <4>0 DEF SocksInv, Reach
      <4> QED BY <4>1, <4>2, <4>3, <4>4, <4>5 DEF Reach
    <3>5. Building'
      <4>1. \A q \in SO!Proxy : (q < hop => proxy'[q] \in SO!Granted)
            /\ (proxy'[q] \in SO!Granted => q <= hop)
            BY <2>1, <2>2, <3>2, Numbers
      <4> QED BY <1>1, <1>6, <2>1, <2>2, <2>3, <4>1 DEF Building
    <3>6. Answering'
      <4> SUFFICES ASSUME socks = "answer" PROVE Answering'
          BY <1>1, <2>1 DEF Answering
      <4>0. 90 \in {90, 91} /\ sentDown' = 0 /\ \A k \in SO!Link : down[k] = <<>>
            BY <1>1, <2>5
      <4>1. PICK c : DownFlow(c, 90)' /\ c[1] = -1 /\ \A k \in 1..(Chain + 2) : k > p => c[k] >= 0
            BY <1>3, <3>1, <4>0, AnsweredFlow
      <4> QED BY <1>1, <2>2, <3>2, <4>0, <4>1 DEF Answering
    <3> QED BY <2>6, <3>3, <3>4, <3>5, <3>6 DEF SocksInv
  <2>8. CASE SO!Refuse(p)
    <3>1. /\ dialed' = dialed /\ down' = [down EXCEPT ![p] = Append(@, 91)]
          /\ proxy' = [proxy EXCEPT ![p] = "refused"] /\ proxyRelays' = proxyRelays
              /\ downEnd' = downEnd \cup {p}
          BY <2>8 DEF SO!Refuse
    <3>2. proxy' \in [SO!Proxy -> {"accept", "refused", "relay", "done", "closed"}] /\ proxy'[p] = "refused"
          /\ proxy'[p] \notin SO!Granted /\ \A q \in SO!Proxy : q # p => proxy'[q] = proxy[q]
          BY <1>3, <3>1 DEF SO!Granted
    <3>3. SocksType'
      <4>1. 91 \in Msg
            BY DEF Msg
      <4>2. down' \in [SO!Link -> Seq(Msg)]
            BY <1>3, <3>1, <4>1
      <4>4. downEnd' \subseteq SO!Link
            BY <1>3, <3>1 DEF SocksType
      <4> QED BY <1>1, <1>3, <2>4, <3>1, <3>2, <4>2, <4>4 DEF SocksType
    <3>4. Reach'
      <4>1. ASSUME NEW q \in SO!Proxy PROVE /\ proxy'[q] \in SO!Granted => dialed'[q + 1] = q + 1
                                            /\ proxy'[q] \notin SO!Granted => dialed'[q + 1] = 0
                                            /\ proxy'[q] = "refused" => q \in downEnd'
                                            /\ proxy'[q] = "relay" => proxy[q] = "relay"
        <5>1. CASE q = p
              BY <1>1, <3>1, <3>2, <5>1 DEF SocksInv, Reach
        <5>2. CASE q # p
              BY <3>1, <3>2, <5>2 DEF SocksInv, Reach
        <5> QED BY <5>1, <5>2
      <4>3. sentDown' > 0 => dialed'[Chain + 1] # 0
            BY <1>1, <3>1 DEF SocksInv, Reach
      <4>4. ASSUME NEW q \in SO!Proxy, proxy'[q] = "relay", "up" \notin proxyRelays'[q]
            PROVE  "up" \in failed' \/ q + 1 \in upEnd'
            BY <1>1, <3>1, <4>1, <4>4 DEF SocksInv, Reach
      <4>5. dialed'[1] \in {0, 1} /\ (socks' \notin {"dial", "nullptr"} => dialed'[1] = 1)
            /\ (socks' = "dial" => dialed'[1] = 0)
            BY <1>1, <3>1 DEF SocksInv, Reach
      <4> QED BY <4>1, <4>3, <4>4, <4>5 DEF Reach
    <3>5. Building'
      <4>1. \A q \in SO!Proxy : (q < hop => proxy'[q] \in SO!Granted)
            /\ (proxy'[q] \in SO!Granted => q <= hop)
            BY <2>1, <2>2, <3>2, Numbers
      <4> QED BY <1>1, <1>6, <2>1, <2>2, <2>3, <4>1 DEF Building
    <3>6. Answering'
      <4> SUFFICES ASSUME socks = "answer" PROVE Answering'
          BY <1>1, <2>1 DEF Answering
      <4>0. 91 \in {90, 91} /\ sentDown' = 0 /\ \A k \in SO!Link : down[k] = <<>>
            BY <1>1, <2>5
      <4>1. PICK c : DownFlow(c, 91)' /\ c[1] = -1 /\ \A k \in 1..(Chain + 2) : k > p => c[k] >= 0
            BY <1>3, <3>1, <4>0, AnsweredFlow
      <4> QED BY <1>1, <2>2, <3>2, <4>0, <4>1 DEF Answering
    <3> QED BY <2>6, <3>3, <3>4, <3>5, <3>6 DEF SocksInv
  <2> QED BY <1>5, <2>7, <2>8
<1> QED BY <1>4, <1>5 DEF SO!MakeConn

\* TransferUp, a message or the end.
LEMMA TransferUpKeeps == ASSUME SocksInv, NEW p \in SO!Proxy, SO!TransferUp(p) PROVE SocksInv'
<1>1. /\ proxy[p] = "relay" /\ proxy[p] \in SO!Granted
      /\ UNCHANGED <<down, downEnd, dialed, proxy, socks, hop, badUser, sentUp, sentDown, gotUp,
          gotDown>>
      BY DEF SO!TransferUp, SO!ends, SO!Granted
<1>2. SocksType /\ p \in SO!Link /\ p + 1 \in SO!Link /\ p \in Nat /\ p # p + 1
      /\ up \in [SO!Link -> Seq(Msg)]
      BY Numbers DEF SocksInv, SocksType
<1>4. Answering'
  <2>1. Silent => Silent'
        BY <1>1 DEF Silent
  <2>2. ASSUME NEW c, NEW a, DownFlow(c, a) PROVE DownFlow(c, a)'
        BY <1>1, <2>2 DEF DownFlow
  <2> QED BY <1>1, <2>1, <2>2 DEF SocksInv, Answering
<1>5. ASSUME socks = "connected" PROVE \E c : DownFlow(c, 90)' /\ c[1] = gotDown'
  <2>1. PICK c : DownFlow(c, 90) /\ c[1] = gotDown
        BY <1>5 DEF SocksInv, Standing
  <2>2. DownFlow(c, 90)'
        BY <1>1, <2>1 DEF DownFlow
  <2> QED BY <1>1, <2>1, <2>2
<1>6. CASE /\ up[p] # <<>> /\ UNCHANGED <<upEnd, proxyRelays, failed>>
           /\ up' = [up EXCEPT ![p] = Tail(@), ![p + 1] = Append(@, Head(up[p]))]
  <2>6. CleanEnds' = CleanEnds
        BY <1>6 DEF CleanEnds
  <2>7. Reach'
        BY <1>1, <1>6 DEF SocksInv, Reach
  <2>0. up[p] \in Seq(Msg) /\ up[p + 1] \in Seq(Msg) /\ up[p] # <<>>
        BY <1>2, <1>6
  <2>1. Head(up[p]) \in Msg /\ Tail(up[p]) \in Seq(Msg) /\ up[p] \in Seq(Msg)
        /\ Append(up[p + 1], Head(up[p])) \in Seq(Msg)
        BY <2>0
  <2>2. up' \in [SO!Link -> Seq(Msg)] /\ up'[p] = Tail(up[p])
        /\ up'[p + 1] = Append(up[p + 1], Head(up[p]))
        /\ \A k \in SO!Link : k # p /\ k # p + 1 => up'[k] = up[k]
        BY <1>2, <1>6, <2>1
  <2>3. SocksType'
        BY <1>1, <1>2, <1>6, <2>2 DEF SocksType
  <2>4. Building'
    <3> SUFFICES ASSUME socks # "connected" PROVE Building'
        BY <1>1 DEF Building
    <3>1. /\ hop \in 0..Chain /\ p <= hop /\ Len(up[p]) = 1 /\ proxy[hop] \notin SO!Granted
              /\ up[p][1].to = hop + 1 /\ socks \in {"answer", "nullptr"}
          /\ \A k \in SO!Link : up[k] # <<>> => k = p
          BY <1>2, <1>6 DEF SocksInv, Building
    <3>2. p + 1 <= hop
      <4>1. p # hop /\ hop \in Int
            BY <1>1, <3>1, Numbers
      <4> QED BY <1>2, <3>1, <4>1
    <3>3. up'[p] = <<>>
      <4>1. Len(Tail(up[p])) = 0
            BY <1>6, <2>1, <3>1
      <4> QED BY <2>1, <2>2, <4>1, Empty
    <3>4. Len(up'[p + 1]) = 1 /\ up'[p + 1][1].to = hop + 1
      <4>1. up[p + 1] = <<>> /\ Head(up[p]) = up[p][1]
            BY <1>2, <2>0, <3>1
      <4>2. Len(up'[p + 1]) = 1 /\ up'[p + 1][1] = up[p][1]
            BY <2>1, <2>2, <4>1, Single
      <4> QED BY <3>1, <4>2
    <3>5. \A k \in SO!Link : up'[k] # <<>> => k = p + 1
          BY <2>2, <3>1, <3>3
    <3>6. \A k \in SO!Link : up'[k] # <<>> => /\ k <= hop' /\ Len(up'[k]) = 1 /\ up'[k][1].to = hop' + 1
                                                  /\ proxy'[hop'] \notin SO!Granted
                                              /\ socks' \in {"answer", "nullptr"}
          BY <1>1, <3>1, <3>2, <3>4, <3>5
    <3>7. \A j, k \in SO!Link : up'[j] # <<>> /\ up'[k] # <<>> => j = k
          BY <3>5
    <3> QED BY <1>1, <2>6, <3>6, <3>7 DEF SocksInv, Building
  <2>5. Standing'
    <3> SUFFICES ASSUME socks = "connected" PROVE Standing'
        BY <1>1 DEF Standing
    <3>1. PICK b : UpFlow(b)
          BY DEF SocksInv, Standing
    <3>2. sentUp' = sentUp /\ gotUp' = gotUp /\ CleanEnds' = CleanEnds
          BY <1>1, <2>6
    <3>3. \E d : UpFlow(d)'
          BY <1>2, <1>6, <3>1, <3>2, UpMove
    <3> QED BY <1>1, <1>5, <3>3 DEF SocksInv, Standing
  <2> QED BY <1>4, <2>3, <2>4, <2>5, <2>7 DEF SocksInv
<1>7. CASE /\ up[p] = <<>> /\ p \in upEnd /\ upEnd' = upEnd \cup {p + 1} /\ UNCHANGED <<up, failed>>
           /\ proxyRelays' = [proxyRelays EXCEPT ![p] = @ \ {"up"}]
  <2>0. proxyRelays' \in [SO!Proxy -> SUBSET {"up", "down"}]
        /\ \A q \in SO!Proxy : q # p => proxyRelays'[q] = proxyRelays[q]
        BY <1>2, <1>7 DEF SocksType
  <2>1. SocksType'
    <3>2. upEnd' \subseteq SO!Link
          BY <1>2, <1>7 DEF SocksType
    <3> QED BY <1>1, <1>2, <1>7, <2>0, <3>2 DEF SocksType
  <2>4. Reach'
        BY <1>1, <1>7, <2>0 DEF SocksInv, Reach
  <2>5. CleanEnds' = (IF "up" \in failed THEN {} ELSE CleanEnds \cup {p + 1})
        /\ ("up" \notin failed => p \in CleanEnds)
        BY <1>7 DEF CleanEnds
  <2>2. Building'
    <3>1. socks \notin {"connected", "nullptr"} => CleanEnds' = {}
          BY <2>5 DEF SocksInv, Building
    <3> QED BY <1>1, <1>7, <3>1 DEF SocksInv, Building
  <2>3. Standing'
    <3> SUFFICES ASSUME socks = "connected" PROVE Standing'
        BY <1>1 DEF Standing
    <3>1. PICK b : UpFlow(b)
          BY DEF SocksInv, Standing
    <3>0. CASE "up" \in failed
      <4>1. UpFlow(b)'
            BY <1>1, <1>7, <2>5, <3>0, <3>1 DEF UpFlow
      <4> QED BY <1>1, <1>5, <4>1 DEF SocksInv, Standing
    <3> SUFFICES ASSUME "up" \notin failed PROVE Standing'
        BY <3>0
    <3>2. b[p - 1] = sentUp /\ 1 \in CleanEnds /\ Has(up[p], 90, b[p], b[p - 1])
          /\ b \in [0..(Chain + 1) -> Int]
          BY <1>2, <2>5, <3>1 DEF UpFlow
    <3>3. b[p] \in Int /\ b[p - 1] \in Int /\ (p + 1) - 1 = p
          BY <1>2, <3>2, Numbers
    <3>4. Len(up[p]) = 0
          BY <1>7
    <3>5. b[p] = sentUp
          BY <3>2, <3>3, <3>4 DEF Has
    <3>6. \A k \in CleanEnds' : 1 \in CleanEnds' /\ b[k - 1] = sentUp'
          BY <1>1, <2>5, <3>1, <3>2, <3>3, <3>5 DEF UpFlow
    <3>7. UpFlow(b)'
          BY <1>1, <1>7, <3>1, <3>6 DEF UpFlow
    <3> QED BY <1>1, <1>5, <3>7 DEF SocksInv, Standing
  <2> QED BY <1>4, <2>1, <2>2, <2>3, <2>4 DEF SocksInv
<1>8. CASE /\ failed' = failed \cup {"up"} /\ UNCHANGED <<up, upEnd>>
           /\ proxyRelays' = [proxyRelays EXCEPT ![p] = @ \ {"up"}]
  <2>0. proxyRelays' \in [SO!Proxy -> SUBSET {"up", "down"}]
        BY <1>2, <1>8 DEF SocksType
  <2>1. SocksType'
        BY <1>1, <1>2, <1>8, <2>0 DEF SocksType
  <2>2. CleanEnds' = {}
        BY <1>8 DEF CleanEnds
  <2>3. Reach'
        BY <1>1, <1>8 DEF SocksInv, Reach
  <2>4. Building'
        BY <1>1, <1>8, <2>2 DEF SocksInv, Building
  <2>5. Standing'
    <3> SUFFICES ASSUME socks = "connected" PROVE Standing'
        BY <1>1 DEF Standing
    <3>1. PICK b : UpFlow(b)
          BY DEF SocksInv, Standing
    <3>2. UpFlow(b)'
          BY <1>1, <1>8, <2>2, <3>1 DEF UpFlow
    <3> QED BY <1>1, <1>5, <3>2 DEF SocksInv, Standing
  <2> QED BY <1>4, <2>1, <2>3, <2>4, <2>5 DEF SocksInv
<1> QED BY <1>6, <1>7, <1>8 DEF SO!TransferUp, SO!Ends, SO!Fails

\* TransferDown, a message or the end.
LEMMA TransferDownKeeps == ASSUME SocksInv, NEW p \in SO!Proxy, SO!TransferDown(p) PROVE SocksInv'
<1>1. /\ proxy[p] = "relay" /\ ("up" \in failed' <=> "up" \in failed) /\ CleanEnds' = CleanEnds
      /\ UNCHANGED <<up, upEnd, dialed, proxy, socks, hop, badUser, sentUp, sentDown, gotUp,
          gotDown>>
      BY DEF SO!TransferDown, SO!ends, SO!Fails, CleanEnds
<1>2. SocksType /\ p \in SO!Link /\ p + 1 \in SO!Link /\ p \in Nat /\ p # p + 1
      /\ down \in [SO!Link -> Seq(Msg)]
      BY Numbers DEF SocksInv, SocksType
<1>3. Building'
      BY <1>1 DEF SocksInv, Building
<1>4. CASE /\ down[p + 1] # <<>> /\ UNCHANGED <<downEnd, proxyRelays, failed>>
           /\ down' = [down EXCEPT ![p + 1] = Tail(@), ![p] = Append(@, Head(down[p + 1]))]
  <2>0. Reach'
        BY <1>1, <1>4 DEF SocksInv, Reach
  <2>9. down[p] \in Seq(Msg) /\ down[p + 1] \in Seq(Msg) /\ down[p + 1] # <<>>
        BY <1>2, <1>4
  <2>1. Tail(down[p + 1]) \in Seq(Msg) /\ Append(down[p], Head(down[p + 1])) \in Seq(Msg)
        BY <2>9
  <2>2. down' \in [SO!Link -> Seq(Msg)]
        BY <1>2, <1>4, <2>1
  <2>3. SocksType'
        BY <1>1, <1>2, <1>4, <2>2 DEF SocksType
  <2>4. \A a \in {90, 91} : \A c : DownFlow(c, a) =>
           \E d : DownFlow(d, a)' /\ d[1] = c[1] /\ \A k \in 1..(Chain + 2) : d[k] >= c[k]
    <3>1. SocksType /\ sentDown' = sentDown /\ down[p + 1] # <<>>
          /\ down' = [down EXCEPT ![p + 1] = Tail(@), ![p] = Append(@, Head(down[p + 1]))]
          BY <1>1, <1>2, <1>4
    <3> QED BY <3>1, DownMove
  <2>5. ~Silent
        BY <1>2, <1>4 DEF Silent
  <2>6. Answering'
    <3>1. CASE socks = "answer"
      <4>2. PICK a \in {90, 91} : \E c : /\ DownFlow(c, a) /\ c[1] = -1 /\ proxy[hop] # "accept"
                                         /\ a = 90 => proxy[hop] \in SO!Granted
                                         /\ \A k \in 1..(Chain + 2) : k > hop => c[k] >= 0
            BY <2>5, <3>1 DEF SocksInv, Answering
      <4>3. PICK c : /\ DownFlow(c, a) /\ c[1] = -1 /\ proxy[hop] # "accept"
                     /\ a = 90 => proxy[hop] \in SO!Granted
                     /\ \A k \in 1..(Chain + 2) : k > hop => c[k] >= 0
            BY <4>2
      <4>4. PICK d : DownFlow(d, a)' /\ d[1] = c[1] /\ \A k \in 1..(Chain + 2) : d[k] >= c[k]
            BY <2>4, <4>3
      <4>5. \A k \in 1..(Chain + 2) : k > hop => d[k] >= 0
        <5>1. \A k \in 1..(Chain + 2) : c[k] \in Int /\ d[k] \in Int
              BY <4>3, <4>4 DEF DownFlow
        <5> QED BY <4>3, <4>4, <5>1, Above
      <4>6. /\ DownFlow(d, a)' /\ d[1] = -1 /\ proxy'[hop'] # "accept"
            /\ a = 90 => proxy'[hop'] \in SO!Granted
            /\ \A k \in 1..(Chain + 2) : k > hop' => d[k] >= 0
            BY <1>1, <4>3, <4>4, <4>5
      <4> QED BY <1>1, <3>1, <4>6 DEF Answering
    <3>2. CASE socks \in {"dial", "ask"}
          BY <2>5, <3>2 DEF SocksInv, Answering
    <3> QED BY <1>1, <3>1, <3>2 DEF Answering
  <2>7. Standing'
    <3> SUFFICES ASSUME socks = "connected" PROVE Standing'
        BY <1>1 DEF Standing
    <3>1. PICK b : UpFlow(b)
          BY DEF SocksInv, Standing
    <3>2. PICK c : DownFlow(c, 90) /\ c[1] = gotDown
          BY DEF SocksInv, Standing
    <3>3. UpFlow(b)'
          BY <1>1, <3>1 DEF UpFlow
    <3>4. PICK d : DownFlow(d, 90)' /\ d[1] = c[1]
          BY <2>4, <3>2
    <3> QED BY <1>1, <3>2, <3>3, <3>4 DEF SocksInv, Standing
  <2> QED BY <1>3, <2>0, <2>3, <2>6, <2>7 DEF SocksInv
<1>5. CASE /\ proxyRelays' = [proxyRelays EXCEPT ![p] = @ \ {"down"}] /\ UNCHANGED down
           /\ \/ downEnd' = downEnd \cup {p} /\ failed' = failed
              \/ downEnd' = downEnd /\ failed' = failed \cup {"down"}
  <2>0. proxyRelays' \in [SO!Proxy -> SUBSET {"up", "down"}]
        /\ \A q \in SO!Proxy : "up" \in proxyRelays'[q] <=> "up" \in proxyRelays[q]
        BY <1>2, <1>5 DEF SocksType
  <2>1. SocksType'
    <3>2. downEnd' \subseteq SO!Link
          BY <1>2, <1>5 DEF SocksType
    <3>3. failed' \subseteq {"up", "down"}
          BY <1>2, <1>5 DEF SocksType
    <3> QED BY <1>1, <1>2, <1>5, <2>0, <3>2, <3>3 DEF SocksType
  <2>2. Reach'
        BY <1>1, <1>5, <2>0 DEF SocksInv, Reach
  <2>4. (hop \in SO!Proxy \/ socks \notin {"ask", "answer"}) /\ (socks = "dial" => hop = 0)
        BY Numbers DEF SocksInv, Building
  <2>3. Answering' /\ Standing'
        BY <1>1, <1>5, <2>4, FlowsKept DEF SocksInv
  <2> QED BY <1>3, <2>1, <2>2, <2>3 DEF SocksInv
<1> QED BY <1>4, <1>5 DEF SO!TransferDown, SO!Ends, SO!Fails

\* MakeConn returns, and closes both connections: no end is new that is not a failure's.
LEMMA ReturnKeeps == ASSUME SocksInv, NEW p \in SO!Proxy, SO!Return(p) PROVE SocksInv'
<1>1. /\ proxy[p] = "relay" /\ proxyRelays[p] = {} /\ proxy' = [proxy EXCEPT ![p] = "closed"]
      /\ upEnd' = upEnd \cup {p + 1} /\ downEnd' = downEnd \cup {p}
      /\ UNCHANGED <<up, down, dialed, proxyRelays, failed, socks, hop, badUser, sentUp, sentDown,
          gotUp, gotDown>>
      BY DEF SO!Return, SO!ends
<1>2. SocksType /\ p \in SO!Link /\ p + 1 \in SO!Link
      /\ proxy \in [SO!Proxy -> {"accept", "refused", "relay", "done", "closed"}]
      BY Numbers DEF SocksInv, SocksType
<1>3. /\ proxy' \in [SO!Proxy -> {"accept", "refused", "relay", "done", "closed"}]
      /\ \A q \in SO!Proxy : /\ proxy'[q] \in SO!Granted <=> proxy[q] \in SO!Granted
                             /\ proxy'[q] = "accept" <=> proxy[q] = "accept"
                             /\ proxy'[q] = "refused" <=> proxy[q] = "refused"
                             /\ proxy'[q] = "relay" => proxy[q] = "relay"
      BY <1>1, <1>2 DEF SO!Granted
<1>4. CleanEnds' = CleanEnds
  <2>1. "up" \in failed \/ p + 1 \in upEnd
        BY <1>1 DEF SocksInv, Reach
  <2> QED BY <1>1, <2>1 DEF CleanEnds
<1>5. SocksType'
  <2>1. upEnd' \subseteq SO!Link /\ downEnd' \subseteq SO!Link
        BY <1>1, <1>2 DEF SocksType
  <2> QED BY <1>1, <1>2, <1>3, <2>1 DEF SocksType
<1>6. Reach'
      BY <1>1, <1>3 DEF SocksInv, Reach
<1>7. (hop \in SO!Proxy \/ socks \notin {"ask", "answer"}) /\ (socks = "dial" => hop = 0)
      BY Numbers DEF SocksInv, Building
<1>8. Building'
  <2> SUFFICES ASSUME socks # "connected" PROVE Building'
      BY <1>1 DEF Building
  <2>1. ASSUME NEW k \in SO!Link, up[k] # <<>>
        PROVE  k <= hop /\ Len(up[k]) = 1 /\ up[k][1].to = hop + 1 /\ proxy'[hop] \notin SO!Granted
               /\ socks \in {"answer", "nullptr"}
    <3>1. k <= hop /\ Len(up[k]) = 1 /\ up[k][1].to = hop + 1 /\ proxy[hop] \notin SO!Granted
          /\ socks \in {"answer", "nullptr"} /\ hop \in 0..Chain
          BY <2>1 DEF SocksInv, Building
    <3>2. hop \in SO!Proxy
          BY <3>1, Numbers
    <3> QED BY <1>3, <3>1, <3>2
  <2> QED BY <1>1, <1>3, <1>4, <2>1 DEF SocksInv, Building
<1>9. Answering' /\ Standing'
      BY <1>1, <1>3, <1>4, <1>7, FlowsKept DEF SocksInv
<1> QED BY <1>5, <1>6, <1>8, <1>9 DEF SocksInv

\* The invariant of a chain of any length.
LEMMA SocksInvariance == SO!Spec => []SocksInv
<1>1. SO!Init => SocksInv
      BY SocksInit
<1>2. SocksInv /\ [SO!Next]_(SO!vars) => SocksInv'
  <2> SUFFICES ASSUME SocksInv, [SO!Next]_(SO!vars) PROVE SocksInv'
      OBVIOUS
  <2>1. CASE SO!Next
    <3>1. CASE SO!DialFirst
          BY <3>1, DialFirstKeeps
    <3>2. CASE SO!Ask
          BY <3>2, AskKeeps
    <3>3. CASE SO!Answer
          BY <3>3, AnswerKeeps
    <3>4. CASE SO!ClientSends
          BY <3>4, ClientSendsKeeps
    <3>5. CASE SO!EndSends
          BY <3>5, EndSendsKeeps
    <3>6. CASE SO!EndReads
          BY <3>6, EndReadsKeeps
    <3>7. CASE SO!ClientReads
          BY <3>7, ClientReadsKeeps
    <3>8. ASSUME NEW p \in SO!Proxy, SO!MakeConn(p) PROVE SocksInv'
          BY <3>8, MakeConnKeeps
    <3>9. ASSUME NEW p \in SO!Proxy, SO!FallThrough(p) PROVE SocksInv'
          BY <3>9, FallThroughKeeps
    <3>10. ASSUME NEW p \in SO!Proxy, SO!TransferUp(p) PROVE SocksInv'
          BY <3>10, TransferUpKeeps
    <3>11. ASSUME NEW p \in SO!Proxy, SO!TransferDown(p) PROVE SocksInv'
          BY <3>11, TransferDownKeeps
    <3>12. ASSUME NEW p \in SO!Proxy, SO!Return(p) PROVE SocksInv'
          BY <3>12, ReturnKeeps
    <3> QED BY <2>1, <3>1, <3>2, <3>3, <3>4, <3>5, <3>6, <3>7, <3>8, <3>9, <3>10, <3>11, <3>12 DEF SO!Next
  <2>2. CASE UNCHANGED SO!vars
    <3>1. UNCHANGED <<up, down, upEnd, downEnd, dialed, proxy, proxyRelays, failed, socks, hop,
          badUser, sentUp, sentDown, gotUp, gotDown>>
          BY <2>2 DEF SO!vars, SO!links, SO!ends
    <3>4. CleanEnds' = CleanEnds
          BY <3>1 DEF CleanEnds
    <3>5. (hop \in SO!Proxy \/ socks \notin {"ask", "answer"}) /\ (socks = "dial" => hop = 0)
          BY Numbers DEF SocksInv, Building
    <3>2. Answering' /\ Standing'
          BY <3>1, <3>4, <3>5, FlowsKept DEF SocksInv
    <3>3. SocksType' /\ Reach' /\ Building'
          BY <3>1, <3>4 DEF SocksInv, SocksType, Reach, Building
    <3> QED BY <3>2, <3>3 DEF SocksInv
  <2> QED BY <2>1, <2>2
<1> QED BY <1>1, <1>2, PTL DEF SO!Spec
-----------------------------------------------------------------------------
Piece == {"body", "header", "bodiless", "error"} \cup Client
Answer(c) == {s \in Seq(Piece) : /\ Len(s) <= 3 /\ (Len(s) > 0 => s[1] = "body")
                                 /\ (Len(s) > 1 => s[2] = "header") /\ (Len(s) > 2 => s[3] = c)}
Refusal == {s \in Seq(Piece) : Len(s) <= 2 /\ (Len(s) > 0 => s[1] = "bodiless")
           /\ (Len(s) > 1 => s[2] = "error")}
\* Requests with a response, with an error, and those refused before the call.
Replied == {"served", "badBody"}
Failing == {"throws", "unknown", "badHeader"}
Early == {"unknown", "badHeader"}
Serving == server \in {"read", "call", "reply", "fail"}

RpcType ==
    /\ request \in [Client -> RP!Request]
    /\ caller \in [Client -> {"idle", "dialed", "ok", "error", "left"}]
    /\ asked \in [Client -> Nat] /\ read \in [Client -> Nat] /\ executed \in [Client -> 0..1]
    /\ back \in [Client -> Seq(Piece)] /\ backlog \in Seq(Client) /\ count \in Nat
    /\ server \in {"accept", "read", "call", "reply", "fail", "dead"}

\* Who waits to be accepted has nothing yet.
Untouched(c) == executed[c] = 0 /\ back[c] = <<>>
Waits ==
    /\ \A i, j \in 1..Len(backlog) : i # j => backlog[i] # backlog[j]
    /\ \A i \in 1..Len(backlog) : /\ Untouched(backlog[i]) /\ caller[backlog[i]] # "idle"
                                  /\ Serving => backlog[i] # serving
    /\ \A c \in Client : caller[c] = "idle" => Untouched(c) /\ read[c] = 0

\* What the server has written to a client that is there.
Written ==
    \A c \in Client : caller[c] # "left" =>
        /\ back[c] \in Answer(c) \cup Refusal
        /\ Len(back[c]) > 0 /\ back[c] \in Answer(c) => request[c] \in Replied /\ executed[c] = 1

\* What the client has read of it.
HasRead ==
    \A c \in Client :
        /\ caller[c] = "dialed" => /\ read[c] <= Len(back[c]) /\ read[c] <= 2
                                   /\ read[c] = 2 => back[c][1] = "body"
        /\ caller[c] = "ok" => request[c] \in Replied /\ executed[c] = 1 /\ back[c] = <<"body",
            "header", c>>

\* Where the server is with its connection.
AtWork ==
    /\ Serving => serving \in Client /\ caller[serving] # "idle"
    /\ server \in {"read", "call"} => Untouched(serving)
    /\ server = "read" => count <= 2 /\ (count = 2 => request[serving] \notin Early)
    /\ server = "call" => request[serving] \notin Early
    /\ server = "reply" => /\ executed[serving] = 1 /\ request[serving] \in Replied /\ count <= 3
                           /\ caller[serving] # "left" => back[serving] \in Answer(serving)
                               /\ Len(back[serving]) = count
    /\ server = "fail" => /\ count <= 2
                          /\ caller[serving] # "left" => back[serving] \in Refusal
                              /\ Len(back[serving]) = count
    /\ server = "dead" => \E c \in Client : caller[c] = "left" \/ request[c] = "noMethod"

RpcInv == RpcType /\ Waits /\ Written /\ HasRead /\ AtWork

\* A connection is not closed before its request has been answered; its client waits, or
\* has left.
Open ==
    /\ \A c \in Client : caller[c] = "idle" => c \notin ended
    /\ \A i \in 1..Len(backlog) : backlog[i] \notin ended /\ caller[backlog[i]] \in {"dialed", "left"}
    /\ Serving => serving \notin ended
    /\ server \in {"read", "call"} => caller[serving] \in {"dialed", "left"}

\* An error is that of its client's request.
Blame ==
    /\ \A c \in Client : caller[c] # "left" /\ Len(back[c]) > 0 /\ back[c] \in Refusal => request[c] \in Failing
    /\ server = "fail" /\ caller[serving] # "left" => request[serving] \in Failing

\* Nothing is the beginning of both; otherwise they differ.
LEMMA Replies ==
  ASSUME NEW c \in Client
  PROVE  /\ <<>> \in Answer(c) /\ <<>> \in Refusal /\ Len(<<>>) = 0
         /\ \A s \in Refusal : s \in Seq(Piece) /\ (Len(s) > 0 => s \notin Answer(c))
         /\ \A s \in Answer(c) : s \in Seq(Piece) /\ (Len(s) = 3 => s = <<"body", "header", c>>)
<1>1. \A s \in Answer(c) : Len(s) = 3 => s = <<"body", "header", c>>
  <2> SUFFICES ASSUME NEW s \in Answer(c), Len(s) = 3 PROVE s = <<"body", "header", c>>
      OBVIOUS
  <2> DEFINE t == <<"body", "header", c>>
  <2>1. s \in Seq(Piece) /\ s[1] = "body" /\ s[2] = "header" /\ s[3] = c
    <3>1. /\ s \in Seq(Piece) /\ (Len(s) > 0 => s[1] = "body") /\ (Len(s) > 1 => s[2] = "header")
          /\ (Len(s) > 2 => s[3] = c)
          BY DEF Answer
    <3>2. Len(s) > 0 /\ Len(s) > 1 /\ Len(s) > 2
          OBVIOUS
    <3> QED BY <3>1, <3>2
  <2>2. t \in Seq(Piece) /\ Len(t) = 3 /\ t[1] = "body" /\ t[2] = "header" /\ t[3] = c
        BY DEF Piece
  <2> HIDE DEF t
  <2>3. \A i \in 1..3 : i = 1 \/ i = 2 \/ i = 3
        OBVIOUS
  <2>4. \A i \in 1..Len(s) : s[i] = t[i]
        BY <2>1, <2>2, <2>3
  <2>5. s = t
        BY <2>1, <2>2, <2>4, SeqEqual
  <2> QED BY <2>5 DEF t
<1>2. <<>> \in Seq(Piece) /\ Len(<<>>) = 0
      OBVIOUS
<1> QED BY <1>1, <1>2 DEF Answer, Refusal

\* CallsAnswered follows.
LEMMA Answered == RpcInv /\ Blame => RP!CallsAnswered
<1> SUFFICES ASSUME RpcInv, Blame PROVE RP!CallsAnswered
    OBVIOUS
<1>2. ASSUME NEW c \in Client, <<"bodiless", "error">> = back[c], caller[c] # "left"
      PROVE  request[c] \in {"throws", "unknown", "badHeader"}
  <2> DEFINE t == <<"bodiless", "error">>
  <2>0. t \in Seq(Piece) /\ Len(t) = 2 /\ t[1] = "bodiless" /\ t[2] = "error"
        BY DEF Piece
  <2> HIDE DEF t
  <2>4. Len(t) <= 2 /\ Len(t) > 0
        BY <2>0
  <2>3. t \in Refusal /\ Len(t) > 0
        BY <2>0, <2>4 DEF Refusal
  <2>1. Len(back[c]) > 0 /\ back[c] \in Refusal
        BY <1>2, <2>3 DEF t
  <2> QED BY <1>2, <2>1 DEF Blame, Failing
<1>1. \A c \in Client : executed[c] <= 1
  <2>1. \A c \in Client : executed[c] \in 0..1
        BY DEF RpcInv, RpcType
  <2> QED BY <2>1
<1> QED BY <1>1, <1>2 DEF RpcInv, HasRead, AtWork, Replied, RP!CallsAnswered

\* At the start nobody has dialed.
LEMMA RpcInit == RP!Init => RpcInv /\ Open /\ Blame
<1> SUFFICES ASSUME RP!Init PROVE RpcInv /\ Open /\ Blame
    OBVIOUS
<1>1. RpcType
      BY DEF RP!Init, RpcType, Piece
<1>2. Len(backlog) = 0
      BY DEF RP!Init
<1>3. \A c \in Client : back[c] = <<>> /\ Len(back[c]) = 0 /\ back[c] \in Refusal
      BY Replies DEF RP!Init
<1>4. Waits /\ Written /\ HasRead /\ AtWork
      BY <1>2, <1>3 DEF RP!Init, Waits, Written, HasRead, AtWork, Untouched, Serving
<1>5. Open /\ Blame
      BY <1>2, <1>3 DEF RP!Init, Open, Blame, Serving
<1> QED BY <1>1, <1>4, <1>5 DEF RpcInv

\* The calls.
LEMMA ClientInv ==
  ASSUME RpcInv, NEW c \in Client, RP!Write(c) \/ RP!ReadResponse(c) \/ RP!Leave(c)
  PROVE  RpcInv'
<1>1. /\ UNCHANGED <<back, backlog, serving, server, count, executed, request>>
          /\ caller[c] = "dialed"
      /\ caller' \in [Client -> {"idle", "dialed", "ok", "error", "left"}]
          /\ asked' \in [Client -> Nat]
      /\ read' \in [Client -> Nat]
      /\ \A e \in Client : e # c => caller'[e] = caller[e] /\ read'[e] = read[e]
      /\ caller'[c] # "idle"
  <2>1. /\ caller \in [Client -> {"idle", "dialed", "ok", "error", "left"}]
        /\ asked \in [Client -> Nat] /\ read \in [Client -> Nat]
        BY DEF RpcInv, RpcType
  <2>2. CASE RP!Write(c)
        BY <2>1, <2>2 DEF RP!Write, RP!Finish, RP!Becomes
  <2>3. CASE RP!Leave(c)
        BY <2>1, <2>3 DEF RP!Leave, RP!Finish, RP!Becomes
  <2>4. CASE RP!ReadResponse(c)
    <3>1. /\ UNCHANGED <<back, backlog, serving, server, count, executed, request, asked>>
              /\ caller[c] = "dialed"
          /\ read' = read \/ read' = [read EXCEPT ![c] = @ + 1]
          /\ caller' = caller \/ caller' = [caller EXCEPT ![c] = "error"] \/ caller' = [caller EXCEPT ![c] = "ok"]
          BY <2>4 DEF RP!ReadResponse, RP!Finish, RP!Becomes
    <3> QED BY <2>1, <3>1
  <2> QED BY <2>2, <2>3, <2>4
<1>2. RpcType'
      BY <1>1 DEF RpcInv, RpcType
<1>3. \A e \in Client : caller'[e] = "idle" <=> caller[e] = "idle"
      BY <1>1
<1>4. \A e \in Client : caller[e] = "left" => caller'[e] = "left"
      BY <1>1
<1>5. Waits'
  <2>1. \A i \in 1..Len(backlog) : backlog[i] \in Client
        BY DEF RpcInv, RpcType
  <2> QED BY <1>1, <1>3, <2>1 DEF RpcInv, Waits, Untouched, Serving
<1>6. Written'
      BY <1>1, <1>4 DEF RpcInv, Written
<1>7. AtWork'
      BY <1>1, <1>3, <1>4 DEF RpcInv, AtWork, Untouched, Serving
<1>8. HasRead'
  <2> SUFFICES /\ caller'[c] = "dialed" => /\ read'[c] <= Len(back[c]) /\ read'[c] <= 2
                                           /\ read'[c] = 2 => back[c][1] = "body"
               /\ caller'[c] = "ok" => request[c] \in Replied /\ executed[c] = 1
                   /\ back[c] = <<"body", "header", c>>
      BY <1>1 DEF RpcInv, HasRead
  <2>0. /\ read[c] <= Len(back[c]) /\ read[c] <= 2 /\ (read[c] = 2 => back[c][1] = "body")
            /\ read[c] \in Nat
        /\ back[c] \in Answer(c) \cup Refusal
        /\ (Len(back[c]) > 0 /\ back[c] \in Answer(c) => request[c] \in Replied /\ executed[c] = 1)
        BY <1>1 DEF RpcInv, RpcType, HasRead, Written
  <2>1. CASE RP!Write(c) \/ RP!Leave(c)
    <3>1. caller'[c] # "ok" /\ (caller'[c] = "dialed" => read'[c] = read[c])
          BY <1>1, <2>1 DEF RP!Write, RP!Leave, RP!Finish, RP!Becomes, RpcInv, RpcType
    <3> QED BY <2>0, <3>1
  <2>2. CASE RP!ReadResponse(c)
    <3>1. CASE ~(read[c] < Len(back[c]))
      <4>1. caller'[c] = "error"
            BY <2>2, <3>1 DEF RP!ReadResponse, RP!Finish, RP!Becomes, RpcInv, RpcType
      <4> QED BY <4>1
    <3>2. CASE read[c] < Len(back[c])
      <4>1. read'[c] = read[c] + 1
            BY <2>2, <3>2 DEF RP!ReadResponse, RpcInv, RpcType
      <4>2. CASE read[c] = 0
        <5>1. caller'[c] = "dialed"
              BY <1>1, <2>2, <3>2, <4>2 DEF RP!ReadResponse
        <5> QED BY <2>0, <3>2, <4>1, <4>2, <5>1
      <4>3. CASE read[c] = 1
        <5>1. Len(back[c]) >= 2 /\ Len(back[c]) \in Nat
              BY <2>0, <3>2, <4>3 DEF Answer, Refusal
        <5>2. CASE back[c] \in Answer(c)
          <6>1. back[c][1] = "body" /\ back[c][2] = "header"
                BY <5>1, <5>2 DEF Answer
          <6>2. caller'[c] = "dialed"
                BY <1>1, <2>2, <3>2, <4>3, <6>1 DEF RP!ReadResponse, RP!HasRpcError
          <6> QED BY <4>1, <4>3, <5>1, <6>1, <6>2
        <5>3. CASE back[c] \in Refusal
          <6>1. back[c][2] = "error"
                BY <5>1, <5>3 DEF Refusal
          <6>2. caller'[c] = "error"
                BY <1>1, <2>2, <3>2, <4>3, <6>1 DEF RP!ReadResponse, RP!HasRpcError, RP!Becomes,
                   RpcInv, RpcType
          <6> QED BY <6>2
        <5> QED BY <2>0, <5>2, <5>3
      <4>4. CASE read[c] = 2
        <5>1. back[c] \in Answer(c) /\ Len(back[c]) = 3 /\ Len(back[c]) > 0
          <6>1. Len(back[c]) >= 3 /\ Len(back[c]) \in Nat
                BY <2>0, <3>2, <4>4 DEF Answer, Refusal
          <6>2. back[c] \notin Refusal
            <7>1. ASSUME back[c] \in Refusal PROVE Len(back[c]) <= 2
                  BY <7>1 DEF Refusal
            <7>2. ~(Len(back[c]) <= 2)
                  BY <6>1
            <7> QED BY <7>1, <7>2
          <6>3. back[c] \in Answer(c)
                BY <2>0, <6>2
          <6>4. Len(back[c]) <= 3
                BY <6>3 DEF Answer
          <6>5. Len(back[c]) = 3 /\ Len(back[c]) > 0
            <7> DEFINE n == Len(back[c])
            <7>1. n \in Nat /\ n >= 3 /\ n <= 3
                  BY <6>1, <6>4
            <7> HIDE DEF n
            <7>2. n = 3 /\ n > 0
                  BY <7>1
            <7> QED BY <7>2 DEF n
          <6> QED BY <6>3, <6>5
        <5>2. back[c] = <<"body", "header", c>>
              BY <5>1, Replies
        <5>3. caller'[c] = "ok"
              BY <1>1, <2>2, <3>2, <4>4 DEF RP!ReadResponse, RP!Becomes, RpcInv, RpcType
        <5> QED BY <2>0, <5>1, <5>2, <5>3
      <4> QED BY <2>0, <4>2, <4>3, <4>4
    <3> QED BY <3>1, <3>2
  <2> QED BY <2>1, <2>2
<1> QED BY <1>2, <1>5, <1>6, <1>7, <1>8 DEF RpcInv

\* A call begins.
LEMMA RpcDial ==
  ASSUME RpcInv, NEW c \in Client, RP!Dial(c)
  PROVE  RpcInv'
<1>1. /\ UNCHANGED <<back, serving, server, count, executed, request, asked, read>>
          /\ caller[c] = "idle"
      /\ caller' = [caller EXCEPT ![c] = "dialed"] /\ backlog' = Append(backlog, c)
      BY DEF RP!Dial, RP!Finish, RP!Becomes
<1>2. RpcType'
      BY <1>1 DEF RpcInv, RpcType
<1>3. \A e \in Client : caller'[e] = IF e = c THEN "dialed" ELSE caller[e]
      BY <1>1 DEF RpcInv, RpcType
<1>4. Untouched(c) /\ read[c] = 0
      BY <1>1 DEF RpcInv, Waits
<1>5. /\ Len(backlog') = Len(backlog) + 1 /\ backlog'[Len(backlog) + 1] = c /\ Len(backlog) \in Nat
      /\ \A i \in 1..Len(backlog) : backlog'[i] = backlog[i] /\ backlog[i] \in Client
      BY <1>1 DEF RpcInv, RpcType
<1>6. /\ \A i, j \in 1..Len(backlog) : i # j => backlog[i] # backlog[j]
      /\ \A i \in 1..Len(backlog) : Untouched(backlog[i]) /\ backlog[i] # c
          /\ (Serving => backlog[i] # serving)
      BY <1>1 DEF RpcInv, Waits
<1>7. Serving => serving # c
      BY <1>1 DEF RpcInv, AtWork
<1>8. Waits'
  <2>1. \A i \in 1..(Len(backlog) + 1) : i \in 1..Len(backlog) \/ i = Len(backlog) + 1
        BY <1>5
  <2>2. \A i \in 1..(Len(backlog) + 1) : backlog'[i] \in Client /\ Untouched(backlog'[i])
        /\ (Serving => backlog'[i] # serving)
        BY <1>4, <1>5, <1>6, <1>7, <2>1
  <2>3. \A i \in 1..(Len(backlog) + 1) : caller'[backlog'[i]] # "idle"
    <3>1. \A i \in 1..Len(backlog) : caller[backlog[i]] # "idle"
          BY DEF RpcInv, Waits
    <3> QED BY <1>3, <1>5, <3>1, <2>1
  <2>4. \A i, j \in 1..(Len(backlog) + 1) : i # j => backlog'[i] # backlog'[j]
        BY <1>5, <1>6, <2>1
  <2>5. \A e \in Client : caller'[e] = "idle" => Untouched(e) /\ read[e] = 0
        BY <1>3 DEF RpcInv, Waits
  <2> QED BY <1>1, <1>5, <2>2, <2>3, <2>4, <2>5 DEF Waits, Untouched, Serving
<1>9. Written'
      BY <1>1, <1>3 DEF RpcInv, Written
<1>10. HasRead'
  <2>1. Len(back[c]) = 0
        BY <1>4 DEF Untouched
  <2> QED BY <1>1, <1>3, <1>4, <2>1 DEF RpcInv, HasRead, Untouched
<1>11. AtWork'
      BY <1>1, <1>3 DEF RpcInv, AtWork, Untouched, Serving
<1> QED BY <1>2, <1>8, <1>9, <1>10, <1>11 DEF RpcInv

\* The server takes a connection, reads, calls the service.
LEMMA ServerInv ==
  ASSUME RpcInv, RP!Accept \/ RP!ReadRequest \/ RP!CallMethod \/ RP!Destroy
  PROVE  RpcInv'
<1>1. CASE RP!Accept
  <2>1. /\ UNCHANGED <<request, caller, asked, read, back, executed>> /\ server = "accept"
            /\ server' = "read" /\ count' = 0
        /\ backlog # <<>> /\ serving' = Head(backlog) /\ backlog' = Tail(backlog)
        BY <1>1 DEF RP!Accept, RP!Now, RP!clients
  <2>2. /\ backlog \in Seq(Client) /\ backlog' \in Seq(Client) /\ Len(backlog) \in Nat
            /\ Len(backlog) > 0
        /\ Len(backlog') = Len(backlog) - 1 /\ serving' = backlog[1]
        /\ \A i \in 1..Len(backlog') : backlog'[i] = backlog[i + 1] /\ i + 1 \in 1..Len(backlog)
        /\ 1 \in 1..Len(backlog) /\ serving' \in Client
    <3>1. backlog \in Seq(Client)
          BY DEF RpcInv, RpcType
    <3> QED BY <2>1, <3>1
  <2>3. RpcType'
        BY <2>1, <2>2 DEF RpcInv, RpcType
  <2>4. Untouched(serving') /\ caller[serving'] # "idle"
        BY <2>2 DEF RpcInv, Waits
  <2>5. Waits'
    <3>1. \A i, j \in 1..Len(backlog') : i # j => backlog'[i] # backlog'[j]
      <4> SUFFICES ASSUME NEW i \in 1..Len(backlog'), NEW j \in 1..Len(backlog'), i # j
                          PROVE backlog'[i] # backlog'[j]
          OBVIOUS
      <4>1. i + 1 # j + 1 /\ i + 1 \in 1..Len(backlog) /\ j + 1 \in 1..Len(backlog)
            BY <2>2
      <4>2. \A k, l \in 1..Len(backlog) : k # l => backlog[k] # backlog[l]
            BY DEF RpcInv, Waits
      <4>3. backlog[i + 1] # backlog[j + 1]
            BY <4>1, <4>2
      <4> QED BY <2>2, <4>3
    <3>2. \A i \in 1..Len(backlog') : backlog'[i] # serving' /\ Untouched(backlog'[i])
          /\ caller[backlog'[i]] # "idle"
      <4> SUFFICES ASSUME NEW i \in 1..Len(backlog')
                   PROVE  backlog'[i] # serving' /\ Untouched(backlog'[i])
                          /\ caller[backlog'[i]] # "idle"
          OBVIOUS
      <4>1. i + 1 # 1 /\ i + 1 \in 1..Len(backlog) /\ backlog'[i] = backlog[i + 1]
            BY <2>2
      <4> QED BY <2>2, <4>1 DEF RpcInv, Waits
    <3> QED BY <2>1, <3>1, <3>2 DEF RpcInv, Waits, Untouched
  <2>6. Written' /\ HasRead'
        BY <2>1 DEF RpcInv, Written, HasRead
  <2>7. AtWork'
        BY <2>1, <2>2, <2>4 DEF AtWork, Untouched, Serving
  <2> QED BY <2>3, <2>5, <2>6, <2>7 DEF RpcInv
<1>2. CASE RP!ReadRequest
  <2>1. /\ UNCHANGED <<request, caller, asked, read, back, backlog, serving, executed>>
            /\ server = "read"
        /\ server' \in {"read", "call", "fail"}
        /\ server' = "fail" => count' = 0
        /\ server' = "call" => count = 2 /\ count' = 3
        /\ server' = "read" => count # 2 /\ count' = count + 1
            /\ (count = 1 => request[serving] \notin Early)
    <3>1. /\ UNCHANGED <<request, caller, asked, read, back, backlog, serving, executed>>
          /\ server = "read"
          BY <1>2 DEF RP!ReadRequest, RP!clients
    <3>2. CASE server' = "fail" /\ count' = 0
          BY <3>1, <3>2
    <3>3. CASE /\ ~(count = 1 /\ request[serving] \in {"unknown", "badHeader"})
               /\ server' = (IF count = 2 THEN "call" ELSE "read") /\ count' = count + 1
          BY <3>1, <3>3 DEF Early
    <3> QED BY <1>2, <3>2, <3>3 DEF RP!ReadRequest, RP!Now
  <2>2. /\ serving \in Client /\ caller[serving] # "idle" /\ Untouched(serving)
        /\ count \in Nat /\ count <= 2 /\ (count = 2 => request[serving] \notin Early)
        BY <2>1 DEF RpcInv, RpcType, AtWork, Serving
  <2>3. RpcType'
        BY <2>1, <2>2 DEF RpcInv, RpcType
  <2>4. Waits' /\ Written' /\ HasRead'
        BY <2>1 DEF RpcInv, Waits, Untouched, Serving, Written, HasRead
  <2>5. AtWork'
    <3>1. back[serving] \in Refusal /\ Len(back[serving]) = 0
          BY <2>2, Replies DEF Untouched
    <3>2. count' <= 2 \/ server' = "call"
          BY <2>1, <2>2
    <3>3. server' = "read" /\ count' = 2 => request[serving] \notin Early
          BY <2>1, <2>2
    <3> QED BY <2>1, <2>2, <3>1, <3>2, <3>3 DEF AtWork, Untouched, Serving
  <2> QED BY <2>3, <2>4, <2>5 DEF RpcInv
<1>3. CASE RP!CallMethod
  <2>0. CASE request[serving] = "noMethod"
    <3>1. /\ UNCHANGED <<request, caller, asked, read, back, backlog, executed>> /\ server = "call"
          /\ server' = "dead" /\ count' = 0
          BY <1>3, <2>0 DEF RP!CallMethod, RP!Now, RP!clients
    <3>2. serving \in Client
          BY <3>1 DEF RpcInv, AtWork, Serving
    <3>3. RpcType'
          BY <3>1 DEF RpcInv, RpcType
    <3>4. Waits' /\ Written' /\ HasRead' /\ AtWork'
          BY <2>0, <3>1, <3>2 DEF RpcInv, Waits, Written, HasRead, AtWork, Untouched, Serving
    <3> QED BY <3>3, <3>4 DEF RpcInv
  <2> SUFFICES ASSUME request[serving] # "noMethod" PROVE RpcInv'
      BY <2>0
  <2>1. /\ UNCHANGED <<request, caller, asked, read, back, backlog, serving>> /\ server = "call"
        /\ server' = IF request[serving] = "throws" THEN "fail" ELSE "reply"
        /\ count' = 0 /\ executed' = [executed EXCEPT ![serving] = @ + 1]
        BY <1>3 DEF RP!CallMethod, RP!Now, RP!clients
  <2>2. /\ serving \in Client /\ caller[serving] # "idle" /\ Untouched(serving)
            /\ request[serving] \notin Early
        /\ request[serving] \in RP!Request
        BY <2>1 DEF RpcInv, RpcType, AtWork, Serving
  <2>8. executed \in [Client -> 0..1] /\ executed[serving] = 0
        BY <2>2 DEF RpcInv, RpcType, Untouched
  <2>3. executed'[serving] = 1 /\ \A e \in Client : e # serving => executed'[e] = executed[e]
        BY <2>1, <2>2, <2>8
  <2>4. RpcType'
        BY <2>1, <2>2, <2>3 DEF RpcInv, RpcType, Untouched
  <2>5. Waits'
    <3>1. \A i \in 1..Len(backlog) : backlog[i] \in Client /\ backlog[i] # serving
          BY <2>1 DEF RpcInv, RpcType, Waits, Serving
    <3> QED BY <2>1, <2>2, <2>3, <3>1 DEF RpcInv, Waits, Untouched, Serving
  <2>6. Written' /\ HasRead'
        BY <2>1, <2>2, <2>3 DEF RpcInv, Written, HasRead, Untouched
  <2>7. AtWork'
    <3>1. back[serving] \in Refusal /\ back[serving] \in Answer(serving) /\ Len(back[serving]) = 0
          BY <2>2, Replies DEF Untouched
    <3> QED BY <2>1, <2>2, <2>3, <3>1 DEF AtWork, Untouched, Serving, RP!Request, Replied, Early
  <2> QED BY <2>4, <2>5, <2>6, <2>7 DEF RpcInv
<1>4. CASE RP!Destroy
  <2>1. /\ UNCHANGED <<request, caller, asked, read, back, serving, server, count, executed>>
            /\ server = "dead"
        /\ backlog' = <<>>
        BY <1>4 DEF RP!Destroy, RP!clients
  <2>2. RpcType' /\ Len(backlog') = 0
        BY <2>1 DEF RpcInv, RpcType
  <2>3. Waits' /\ Written' /\ HasRead' /\ AtWork'
        BY <2>1, <2>2 DEF RpcInv, Waits, Written, HasRead, AtWork, Untouched, Serving
  <2> QED BY <2>2, <2>3 DEF RpcInv
<1> QED BY <1>1, <1>2, <1>3, <1>4

\* The server answers.
LEMMA ReplyInv ==
  ASSUME RpcInv, RP!Reply
  PROVE  RpcInv'
<1>1. UNCHANGED <<request, caller, asked, read, backlog, executed>> /\ server \in {"reply", "fail"}
      BY DEF RP!Reply, RP!clients
<1>2. /\ serving \in Client /\ caller[serving] # "idle" /\ count \in Nat
      /\ \A i \in 1..Len(backlog) : backlog[i] \in Client /\ backlog[i] # serving
      /\ back[serving] \in Seq(Piece)
      BY <1>1 DEF RpcInv, RpcType, AtWork, Serving, Waits
<1>3. CASE /\ count < Len(RP!Pieces) /\ RP!Now(server, count + 1)
           /\ back' = [back EXCEPT ![serving] = Append(@, RP!Pieces[count + 1])]
           /\ UNCHANGED <<ended, serving>>
  <2>1. /\ server' = server /\ count' = count + 1 /\ serving' = serving
        /\ back'[serving] = Append(back[serving], RP!Pieces[count + 1])
        /\ \A e \in Client : e # serving => back'[e] = back[e]
        BY <1>2, <1>3 DEF RP!Now, RpcInv, RpcType
  <2>2. CASE server = "reply"
    <3>1. /\ RP!Pieces = <<"body", "header", serving>> /\ Len(RP!Pieces) = 3 /\ count \in {0, 1, 2}
          BY <1>2, <1>3, <2>2 DEF RP!Pieces
    <3>2. RP!Pieces[count + 1] \in Piece
          BY <1>2, <3>1 DEF Piece
    <3>3. executed[serving] = 1 /\ request[serving] \in Replied
          BY <2>2 DEF RpcInv, AtWork
    <3>4. caller[serving] # "left" => /\ back'[serving] \in Answer(serving)
                                          /\ Len(back'[serving]) = count + 1
                                      /\ caller[serving] # "ok"
                                      /\ (Len(back[serving]) > 0 => back'[serving][1] = back[serving][1])
      <4> SUFFICES ASSUME caller[serving] # "left"
                   PROVE  /\ back'[serving] \in Answer(serving) /\ Len(back'[serving]) = count + 1
                          /\ caller[serving] # "ok"
                          /\ (Len(back[serving]) > 0 => back'[serving][1] = back[serving][1])
          OBVIOUS
      <4>1. back[serving] \in Answer(serving) /\ Len(back[serving]) = count
            BY <2>2 DEF RpcInv, AtWork
      <4>2. caller[serving] # "ok"
        <5>1. caller[serving] = "ok" => Len(back[serving]) = 3
          <6>1. caller[serving] = "ok" => back[serving] = <<"body", "header", serving>>
                BY <1>2 DEF RpcInv, HasRead
          <6> QED BY <6>1
        <5> QED BY <3>1, <4>1, <5>1
      <4> DEFINE s == back[serving]  t == RP!Pieces[count + 1]  u == back'[serving]
      <4>3. s \in Seq(Piece) /\ t \in Piece /\ u = Append(s, t) /\ Len(s) = count
            BY <1>2, <2>1, <3>2, <4>1
      <4>4. (count = 0 => t = "body") /\ (count = 1 => t = "header") /\ (count = 2 => t = serving)
            BY <3>1
      <4>5. (Len(s) > 0 => s[1] = "body") /\ (Len(s) > 1 => s[2] = "header")
            BY <4>1 DEF Answer
      <4> HIDE DEF s, t, u
      <4>6. u \in Seq(Piece) /\ Len(u) = count + 1 /\ u[count + 1] = t
            /\ \A i \in 1..count : u[i] = s[i]
            BY <3>1, <4>3
      <4>7. u[1] = "body" /\ (Len(u) > 1 => u[2] = "header") /\ (Len(u) > 2 => u[3] = serving)
        <5>1. CASE count = 0
              BY <4>4, <4>6, <5>1
        <5>2. CASE count = 1
              BY <4>3, <4>4, <4>5, <4>6, <5>2
        <5>3. CASE count = 2
              BY <4>3, <4>4, <4>5, <4>6, <5>3
        <5> QED BY <3>1, <5>1, <5>2, <5>3
      <4>8. u \in Answer(serving) /\ (Len(s) > 0 => u[1] = s[1])
            BY <3>1, <4>5, <4>6, <4>7 DEF Answer
      <4> QED BY <4>2, <4>6, <4>8 DEF s, u
    <3>5. back' \in [Client -> Seq(Piece)]
          BY <1>2, <1>3, <3>2 DEF RpcInv, RpcType
    <3>6. RpcType'
          BY <1>1, <1>2, <2>1, <3>5 DEF RpcInv, RpcType
    <3>7. Waits'
          BY <1>1, <1>2, <2>1 DEF RpcInv, Waits, Untouched, Serving
    <3>8. Written'
          BY <1>1, <2>1, <3>3, <3>4 DEF RpcInv, Written
    <3>9. HasRead'
      <4> SUFFICES ASSUME NEW e \in Client
                   PROVE  /\ caller[e] = "dialed" => /\ read[e] <= Len(back'[e]) /\ read[e] <= 2
                                                     /\ read[e] = 2 => back'[e][1] = "body"
                          /\ caller[e] = "ok" => request[e] \in Replied /\ executed[e] = 1
                              /\ back'[e] = <<"body", "header", e>>
          BY <1>1 DEF HasRead
      <4>1. CASE e # serving
            BY <2>1, <4>1 DEF RpcInv, HasRead
      <4>2. CASE e = serving /\ caller[serving] = "dialed"
        <5>1. /\ read[serving] \in Nat /\ read[serving] <= Len(back[serving])
                  /\ read[serving] <= 2 /\ (read[serving] = 2 => back[serving][1] = "body")
              /\ Len(back[serving]) = count
              BY <1>2, <2>2, <4>2 DEF RpcInv, RpcType, HasRead, AtWork
        <5> QED BY <1>2, <3>4, <4>2, <5>1
      <4> QED BY <3>4, <4>1, <4>2
    <3>10. AtWork'
          BY <1>1, <1>2, <2>1, <2>2, <3>1, <3>3, <3>4 DEF AtWork, Serving
    <3> QED BY <3>6, <3>7, <3>8, <3>9, <3>10 DEF RpcInv
  <2>3. CASE server = "fail"
    <3>1. /\ RP!Pieces = <<"bodiless", "error">> /\ Len(RP!Pieces) = 2 /\ count \in {0, 1}
          BY <1>2, <1>3, <2>3 DEF RP!Pieces
    <3>2. RP!Pieces[count + 1] \in Piece
          BY <1>2, <3>1 DEF Piece
    <3>4. caller[serving] # "left" => /\ back'[serving] \in Refusal
                                          /\ back'[serving] \notin Answer(serving)
                                              /\ Len(back'[serving]) = count + 1
                                      /\ caller[serving] # "ok" /\ Len(back[serving]) = count
      <4> SUFFICES ASSUME caller[serving] # "left"
                   PROVE  /\ back'[serving] \in Refusal /\ back'[serving] \notin Answer(serving)
                              /\ Len(back'[serving]) = count + 1
                          /\ caller[serving] # "ok" /\ Len(back[serving]) = count
          OBVIOUS
      <4>1. back[serving] \in Refusal /\ Len(back[serving]) = count
            BY <2>3 DEF RpcInv, AtWork
      <4>2. caller[serving] # "ok"
        <5>1. caller[serving] = "ok" => Len(back[serving]) = 3
          <6>1. caller[serving] = "ok" => back[serving] = <<"body", "header", serving>>
                BY <1>2 DEF RpcInv, HasRead
          <6> QED BY <6>1
        <5> QED BY <3>1, <4>1, <5>1
      <4> DEFINE s == back[serving]  t == RP!Pieces[count + 1]  u == back'[serving]
      <4>3. s \in Seq(Piece) /\ t \in Piece /\ u = Append(s, t) /\ Len(s) = count
            BY <1>2, <2>1, <3>2, <4>1
      <4>4. (count = 0 => t = "bodiless") /\ (count = 1 => t = "error")
            BY <3>1
      <4>5. Len(s) > 0 => s[1] = "bodiless"
            BY <4>1 DEF Refusal
      <4> HIDE DEF s, t, u
      <4>6. u \in Seq(Piece) /\ Len(u) = count + 1 /\ u[count + 1] = t
            /\ \A i \in 1..count : u[i] = s[i]
            BY <3>1, <4>3
      <4>7. u[1] = "bodiless" /\ (Len(u) > 1 => u[2] = "error")
        <5>1. CASE count = 0
              BY <4>4, <4>6, <5>1
        <5>2. CASE count = 1
              BY <4>3, <4>4, <4>5, <4>6, <5>2
        <5> QED BY <3>1, <5>1, <5>2
      <4>8. u \in Refusal /\ Len(u) > 0
            BY <3>1, <4>6, <4>7 DEF Refusal
      <4>9. u \notin Answer(serving)
            BY <1>2, <4>8, Replies
      <4> QED BY <4>1, <4>2, <4>6, <4>8, <4>9 DEF u
    <3>5. back' \in [Client -> Seq(Piece)]
          BY <1>2, <1>3, <3>2 DEF RpcInv, RpcType
    <3>6. RpcType'
          BY <1>1, <1>2, <2>1, <3>5 DEF RpcInv, RpcType
    <3>7. Waits'
          BY <1>1, <1>2, <2>1 DEF RpcInv, Waits, Untouched, Serving
    <3>8. Written'
          BY <1>1, <2>1, <3>4 DEF RpcInv, Written
    <3>9. HasRead'
      <4> SUFFICES ASSUME NEW e \in Client
                   PROVE  /\ caller[e] = "dialed" => /\ read[e] <= Len(back'[e]) /\ read[e] <= 2
                                                     /\ read[e] = 2 => back'[e][1] = "body"
                          /\ caller[e] = "ok" => request[e] \in Replied /\ executed[e] = 1
                              /\ back'[e] = <<"body", "header", e>>
          BY <1>1 DEF HasRead
      <4>1. CASE e # serving
            BY <2>1, <4>1 DEF RpcInv, HasRead
      <4>2. CASE e = serving /\ caller[serving] = "dialed"
        <5>1. read[serving] \in Nat /\ read[serving] <= count
              BY <1>2, <3>4, <4>2 DEF RpcInv, RpcType, HasRead
        <5> QED BY <1>2, <3>1, <3>4, <4>2, <5>1
      <4> QED BY <3>4, <4>1, <4>2
    <3>10. AtWork'
          BY <1>1, <1>2, <2>1, <2>3, <3>1, <3>4 DEF AtWork, Serving
    <3> QED BY <3>6, <3>7, <3>8, <3>9, <3>10 DEF RpcInv
  <2> QED BY <1>1, <2>2, <2>3
<1>4. CASE UNCHANGED back /\ server' \in {"accept", "dead"} /\ count' = 0
           /\ (server' = "dead" => caller[serving] = "left")
      BY <1>1, <1>2, <1>4 DEF RpcInv, RpcType, Waits, Written, HasRead, AtWork, Untouched, Serving
<1>5. CASE UNCHANGED <<back, serving>> /\ caller[serving] = "left" /\ server' = "fail" /\ count' = 0
      BY <1>1, <1>2, <1>5 DEF RpcInv, RpcType, Waits, Written, HasRead, AtWork, Untouched, Serving
<1> QED BY <1>3, <1>4, <1>5 DEF RP!Reply, RP!Now, RP!Close

\* Every step keeps the invariant.
LEMMA RpcStep == RpcInv /\ [RP!Next]_(RP!vars) => RpcInv'
<1> SUFFICES ASSUME RpcInv, [RP!Next]_(RP!vars) PROVE RpcInv'
    OBVIOUS
<1>1. ASSUME NEW c \in Client, RP!Dial(c) PROVE RpcInv'
      BY <1>1, RpcDial
<1>2. ASSUME NEW c \in Client, RP!Write(c) \/ RP!ReadResponse(c) \/ RP!Leave(c) PROVE RpcInv'
      BY <1>2, ClientInv
<1>3. CASE RP!Accept \/ RP!ReadRequest \/ RP!CallMethod \/ RP!Destroy
      BY <1>3, ServerInv
<1>4. CASE RP!Reply
      BY <1>4, ReplyInv
<1>5. CASE UNCHANGED RP!vars
      BY <1>5 DEF RP!vars, RP!clients, RpcInv, RpcType, Waits, Written, HasRead, AtWork,
         Untouched, Serving
<1> QED BY <1>1, <1>2, <1>3, <1>4, <1>5 DEF RP!Next

\* Nothing is closed too early.
LEMMA OpenStep == RpcInv /\ Open /\ [RP!Next]_(RP!vars) => Open'
<1> SUFFICES ASSUME RpcInv, Open, [RP!Next]_(RP!vars) PROVE Open'
    OBVIOUS
<1>0. /\ caller \in [Client -> {"idle", "dialed", "ok", "error", "left"}] /\ backlog \in Seq(Client)
      /\ (Serving => serving \in Client /\ caller[serving] # "idle")
      /\ \A i \in 1..Len(backlog) : backlog[i] \in Client /\ caller[backlog[i]] # "idle"
                                   /\ (Serving => backlog[i] # serving) /\ back[backlog[i]] = <<>>
      /\ (server \in {"read", "call"} => back[serving] = <<>>)
      BY DEF RpcInv, RpcType, AtWork, Waits, Untouched
<1>1. ASSUME NEW c \in Client, RP!Dial(c) PROVE Open'
  <2>1. /\ UNCHANGED <<ended, serving, server>> /\ caller[c] = "idle"
        /\ caller' = [caller EXCEPT ![c] = "dialed"] /\ backlog' = Append(backlog, c)
        BY <1>1 DEF RP!Dial, RP!Finish, RP!Becomes
  <2>2. \A i \in 1..Len(backlog') : backlog'[i] \notin ended /\ caller'[backlog'[i]] \in {"dialed", "left"}
    <3>1. c \notin ended /\ caller'[c] = "dialed" /\ \A i \in 1..Len(backlog) :
            backlog[i] \notin ended /\ caller'[backlog[i]] \in {"dialed", "left"}
          BY <1>0, <2>1 DEF Open
    <3>2. \A i \in 1..Len(backlog') : (i \in 1..Len(backlog) /\ backlog'[i] = backlog[i]) \/ backlog'[i] = c
          BY <1>0, <2>1
    <3> QED BY <3>1, <3>2
  <2> QED BY <1>0, <2>1, <2>2 DEF Open, Serving
<1>2. ASSUME NEW c \in Client, RP!Write(c) \/ RP!ReadResponse(c) \/ RP!Leave(c) PROVE Open'
  <2>1. /\ UNCHANGED <<ended, serving, server, backlog>> /\ caller[c] = "dialed"
        BY <1>2 DEF RP!Write, RP!ReadResponse, RP!Leave
  <2>2. /\ caller' \in [Client -> {"idle", "dialed", "ok", "error", "left"}] /\ caller'[c] # "idle"
        /\ \A e \in Client : e # c => caller'[e] = caller[e]
        BY <1>0, <1>2, <2>1 DEF RP!Write, RP!ReadResponse, RP!Leave, RP!Finish, RP!Becomes
  <2>3. ASSUME c \notin ended, back[c] = <<>> PROVE caller'[c] \in {"dialed", "left"}
    <3>1. c \notin ended /\ Len(back[c]) = 0 /\ read[c] \in Nat
          BY <2>3 DEF RpcInv, RpcType
    <3>2. CASE RP!Write(c)
          BY <2>1, <3>1, <3>2 DEF RP!Write
    <3>3. CASE RP!Leave(c)
          BY <1>0, <3>3 DEF RP!Leave, RP!Finish, RP!Becomes
    <3>4. CASE RP!ReadResponse(c)
          BY <3>1, <3>4 DEF RP!ReadResponse
    <3> QED BY <1>2, <3>2, <3>3, <3>4
  <2>4. server \in {"read", "call"} => caller'[serving] \in {"dialed", "left"}
        BY <1>0, <2>2, <2>3 DEF Open, Serving
  <2>5. \A i \in 1..Len(backlog) : caller'[backlog[i]] \in {"dialed", "left"}
        BY <1>0, <2>2, <2>3 DEF Open
  <2> QED BY <2>1, <2>2, <2>4, <2>5 DEF Open, Serving
<1>3. CASE RP!Accept
  <2>1. /\ UNCHANGED <<caller, ended>> /\ server' = "read" /\ backlog # <<>>
        /\ serving' = Head(backlog) /\ backlog' = Tail(backlog) /\ UNCHANGED <<asked, read, back>>
        BY <1>3 DEF RP!Accept, RP!Now, RP!clients
  <2>2. 1 \in 1..Len(backlog) /\ serving' = backlog[1]
        /\ \A i \in 1..Len(backlog') : backlog'[i] = backlog[i + 1] /\ i + 1 \in 1..Len(backlog)
        BY <1>0, <2>1
  <2>3. caller[serving'] \in {"dialed", "left"}
        BY <2>2 DEF Open
  <2> QED BY <2>1, <2>2, <2>3 DEF Open
<1>4. CASE RP!ReadRequest
  <2>1. UNCHANGED <<caller, ended, serving, backlog>> /\ server = "read"
        BY <1>4 DEF RP!ReadRequest, RP!clients
  <2> QED BY <2>1 DEF Open, Serving
<1>5. CASE RP!CallMethod
  <2>1. UNCHANGED <<caller, backlog>> /\ server = "call"
        /\ \/ UNCHANGED <<ended, serving>> /\ server' \in {"fail", "reply"}
           \/ server' = "dead" /\ ended' = ended \cup {serving}
        BY <1>5 DEF RP!CallMethod, RP!Now, RP!clients, RP!Close
  <2> QED BY <1>0, <2>1 DEF Open, Serving
<1>6. CASE RP!Reply
  <2>1. UNCHANGED <<caller, backlog>> /\ server \in {"reply", "fail"}
        /\ \/ UNCHANGED <<ended, serving>> /\ server' \in {"fail", "reply"}
           \/ server' \in {"accept", "dead"} /\ ended' = ended \cup {serving}
        BY <1>6 DEF RP!Reply, RP!Now, RP!clients, RP!Close
  <2> QED BY <1>0, <2>1 DEF Open, Serving
<1>7. CASE RP!Destroy
  <2>1. /\ UNCHANGED <<caller, serving, server>> /\ server = "dead" /\ Len(backlog') = 0
        /\ ended' = ended \cup {backlog[i] : i \in DOMAIN backlog}
        BY <1>7 DEF RP!Destroy, RP!clients
  <2>2. DOMAIN backlog = 1..Len(backlog)
        BY <1>0
  <2>3. \A c \in Client : caller[c] = "idle" => c \notin ended'
        BY <1>0, <2>1, <2>2 DEF Open
  <2> QED BY <2>1, <2>3 DEF Open, Serving
<1>8. CASE UNCHANGED RP!vars
      BY <1>8 DEF RP!vars, RP!clients, Open, Serving
<1> QED BY <1>1, <1>2, <1>3, <1>4, <1>5, <1>6, <1>7, <1>8 DEF RP!Next

\* No error is another's.
LEMMA BlameStep == RpcInv /\ Open /\ Blame /\ [RP!Next]_(RP!vars) => Blame'
<1> SUFFICES ASSUME RpcInv, Open, Blame, [RP!Next]_(RP!vars) PROVE Blame'
    OBVIOUS
<1>0. /\ caller \in [Client -> {"idle", "dialed", "ok", "error", "left"}] /\ backlog \in Seq(Client)
      /\ (Serving => serving \in Client) /\ request \in [Client -> RP!Request]
      /\ back \in [Client -> Seq(Piece)]
      BY DEF RpcInv, RpcType, AtWork
<1>1. ASSUME NEW c \in Client, RP!Dial(c) \/ RP!Write(c) \/ RP!ReadResponse(c) \/ RP!Leave(c) PROVE Blame'
  <2>1. /\ UNCHANGED <<request, back, serving, server>> /\ caller[c] # "left"
        /\ \A e \in Client : e # c => caller'[e] = caller[e]
        BY <1>0, <1>1 DEF RP!Dial, RP!Write, RP!ReadResponse, RP!Leave, RP!Finish, RP!Becomes
  <2> QED BY <1>0, <2>1 DEF Blame, Serving
<1>2. CASE RP!Accept \/ RP!Destroy
  <2>1. /\ UNCHANGED <<request, caller, back>> /\ server' \in {"read", "dead"}
        BY <1>2 DEF RP!Accept, RP!Destroy, RP!clients, RP!Now
  <2> QED BY <2>1 DEF Blame
<1>3. CASE RP!ReadRequest
  <2>1. /\ UNCHANGED <<request, caller, back, serving>> /\ server = "read"
        /\ (server' = "fail" => request[serving] \in Failing \/ caller[serving] # "dialed")
        BY <1>3 DEF RP!ReadRequest, RP!clients, RP!Now, RP!Gone, Failing
  <2> QED BY <2>1 DEF Blame, Open
<1>4. CASE RP!CallMethod
  <2>1. /\ UNCHANGED <<request, caller, back>> /\ server = "call"
        /\ (server' = "fail" => request[serving] \in Failing /\ serving' = serving)
        BY <1>4 DEF RP!CallMethod, RP!clients, RP!Now, Failing
  <2> QED BY <2>1 DEF Blame
<1>5. CASE RP!Reply
  <2>1. /\ UNCHANGED <<request, caller>> /\ server \in {"reply", "fail"} /\ serving \in Client
        BY <1>0, <1>5 DEF RP!Reply, RP!clients, Serving
  <2>2. CASE back' = back
    <3>1. server' = "fail" => serving' = serving /\ (server = "fail" \/ caller[serving] = "left")
          BY <1>5 DEF RP!Reply, RP!Now
    <3> QED BY <2>1, <2>2, <3>1 DEF Blame
  <2>3. CASE /\ server' = server /\ UNCHANGED serving
             /\ back' = [back EXCEPT ![serving] = Append(@, RP!Pieces[count + 1])]
    <3>1. \A e \in Client : e # serving => back'[e] = back[e]
          BY <1>0, <2>3
    <3>2. CASE server = "fail"
          BY <2>1, <2>3, <3>1, <3>2 DEF Blame
    <3>3. CASE server = "reply"
      <4>1. caller[serving] # "left" => back'[serving] \in Answer(serving)
        <5>1. RpcInv' /\ server' = "reply" /\ serving' = serving /\ caller' = caller
              BY <1>5, <2>1, <2>3, <3>3, ReplyInv
        <5> QED BY <5>1 DEF RpcInv, AtWork
      <4>2. caller[serving] # "left" => ~(Len(back'[serving]) > 0 /\ back'[serving] \in Refusal)
            BY <2>1, <4>1, Replies
      <4> QED BY <2>1, <2>3, <3>1, <3>3, <4>2 DEF Blame
    <3> QED BY <2>1, <3>2, <3>3
  <2> QED BY <1>5, <2>2, <2>3 DEF RP!Reply, RP!Now
<1>6. CASE UNCHANGED RP!vars
      BY <1>6 DEF RP!vars, RP!clients, Blame
<1> QED BY <1>1, <1>2, <1>3, <1>4, <1>5, <1>6 DEF RP!Next

\* The invariant of client and server.
LEMMA RpcInvariance == RP!Spec => [](RpcInv /\ Open /\ Blame)
  BY RpcInit, RpcStep, OpenStep, BlameStep, PTL DEF RP!Spec
-----------------------------------------------------------------------------
ClientsType ==
    /\ job \in {"fanout", "scan", "knock"} /\ canceled \in BOOLEAN
    /\ size \in 0..Tokens /\ fiber \in [CL!Part -> {"none", "dial", "write", "read", "done"}]
    /\ secret_parts \in SUBSET CL!Part
    /\ alive \in BOOLEAN /\ stray \in BOOLEAN /\ waitError \in BOOLEAN
    /\ port \in 1..(Ports + 1) /\ Len(res) \in Nat /\ Len(answer) \in Nat

\* The fibers of the tokens, and GetSecret that waits for them.
Collects ==
    /\ \A i \in CL!Part : fiber[i] = "none" <=> i > size
    /\ secret_parts \subseteq 1..size /\ \A i \in secret_parts : fiber[i] = "done"
    /\ ~waitError => \A i \in CL!Part : fiber[i] = "done" => i \in secret_parts
    /\ main = "start" \/ job # "fanout" => size = 0
    /\ alive <=> job = "fanout" /\ main \in {"wait", "join", "sum"}
    /\ ~alive \/ main = "sum" => CL!Running = {}
    /\ main \in {"sum", "send"} => ~waitError
    /\ ~stray

\* The results of a scan.
Scans ==
    job = "scan" =>
        /\ main \in {"start", "returned"} /\ res \in Seq({"OPEN", "CLOSED", "TIMEOUT"})
        /\ answer \in Seq({"accepts", "refuses", "silent"})
        /\ Len(res) = port - 1 /\ Len(answer) = Len(res) /\ (main = "returned" => port > Ports)
        /\ \A i \in 1..Len(res) : /\ res[i] = "OPEN" => answer[i] = "accepts"
                                  /\ res[i] = "CLOSED" => answer[i] = "refuses" \/ canceled

\* The knocks.
Knocks ==
    job = "knock" =>
        /\ main \in {"start", "sleep", "returned", "thrown"}
        /\ res \in Seq(Nat \X {"sent", "failed"})
        /\ main \in {"start", "returned"} => Len(res) = port - 1
        /\ main = "sleep" => Len(res) = port /\ port <= Ports
        /\ main = "returned" => port > Ports
        /\ \A i \in 1..Len(res) : res[i][1] = i

ClientsInv == ClientsType /\ Collects /\ Scans /\ Knocks

\* ClientsReport follows.
LEMMA Reports == ClientsInv => CL!ClientsReport
<1> SUFFICES ASSUME ClientsInv PROVE CL!ClientsReport
    OBVIOUS
<1>0. Tokens \in Nat /\ Ports \in Nat
      BY CC DEF CL!ClientConstants
<1>1. ASSUME main \in {"sum", "send"} PROVE secret_parts = 1..size
  <2>1. CL!Running = {} /\ ~waitError
        BY <1>1 DEF ClientsInv, Collects
  <2>2. \A i \in 1..size : i \in CL!Part /\ fiber[i] = "done"
    <3> SUFFICES ASSUME NEW i \in 1..size PROVE i \in CL!Part /\ fiber[i] = "done"
        OBVIOUS
    <3>1. i \in CL!Part /\ ~(i > size)
          BY <1>0 DEF ClientsInv, ClientsType, CL!Part
    <3>2. fiber[i] # "none" /\ fiber[i] \in {"none", "dial", "write", "read", "done"}
          BY <3>1 DEF ClientsInv, ClientsType, Collects
    <3> QED BY <2>1, <3>1, <3>2 DEF CL!Running
  <2> QED BY <2>1, <2>2 DEF ClientsInv, Collects
<1>2. ~stray /\ (~alive => CL!Running = {})
      BY DEF ClientsInv, Collects
<1>3. job = "scan" => \A i \in DOMAIN res : /\ res[i] = "OPEN" => answer[i] = "accepts"
                                            /\ res[i] = "CLOSED" => answer[i] = "refuses" \/ canceled
  <2> SUFFICES ASSUME job = "scan" PROVE \A i \in DOMAIN res : /\ res[i] = "OPEN"
                                                                   => answer[i] = "accepts"
                                                               /\ res[i] = "CLOSED" => answer[i] = "refuses" \/ canceled
      OBVIOUS
  <2>1. res \in Seq({"OPEN", "CLOSED", "TIMEOUT"})
        BY DEF ClientsInv, Scans
  <2>2. DOMAIN res = 1..Len(res)
        BY <2>1
  <2> QED BY <2>2 DEF ClientsInv, Scans
<1>4. job = "knock" => \A i \in DOMAIN res : res[i][1] = i
  <2> SUFFICES ASSUME job = "knock" PROVE \A i \in DOMAIN res : res[i][1] = i
      OBVIOUS
  <2>1. res \in Seq(Nat \X {"sent", "failed"})
        BY DEF ClientsInv, Knocks
  <2>2. DOMAIN res = 1..Len(res)
        BY <2>1
  <2> QED BY <2>2 DEF ClientsInv, Knocks
<1>5. main = "returned" /\ job # "fanout" => Len(res) = Ports
      BY <1>0 DEF ClientsInv, ClientsType, Scans, Knocks
<1> QED BY <1>1, <1>2, <1>3, <1>4, <1>5 DEF CL!ClientsReport

\* At the start there are no fibers.
LEMMA ClientsInit == CL!Init => ClientsInv
<1> SUFFICES ASSUME CL!Init PROVE ClientsInv
    OBVIOUS
<1>0. Tokens \in Nat /\ Ports \in Nat /\ Len(res) = 0 /\ Len(answer) = 0
      BY CC DEF CL!ClientConstants, CL!Init
<1>1. ClientsType
  <2>1. 1 \in 1..(Ports + 1) /\ 0 \in 0..Tokens /\ 0 \in Nat
        BY <1>0
  <2>2. fiber \in [CL!Part -> {"none", "dial", "write", "read", "done"}]
        BY DEF CL!Init
  <2> QED BY <1>0, <2>1, <2>2 DEF CL!Init, ClientsType
<1>2. Collects
  <2>1. \A i \in CL!Part : fiber[i] = "none" /\ i > 0
        BY <1>0 DEF CL!Init, CL!Part
  <2>2. CL!Running = {}
        BY <2>1 DEF CL!Running
  <2> QED BY <2>1, <2>2 DEF CL!Init, Collects
<1>3. Scans /\ Knocks
      BY <1>0 DEF CL!Init, Scans, Knocks
<1> QED BY <1>1, <1>2, <1>3 DEF ClientsInv

\* The main fiber of the fan-out.
LEMMA FanoutInv ==
  ASSUME ClientsInv, CL!GetTokens \/ CL!GetSecret \/ CL!GetFlag
  PROVE  ClientsInv'
<1>0. Tokens \in Nat /\ Ports \in Nat
      BY CC DEF CL!ClientConstants
<1>1. job = "fanout" /\ UNCHANGED <<job, canceled, port, res, answer>>
      BY DEF CL!GetTokens, CL!GetSecret, CL!GetFlag
<1>2. Scans' /\ Knocks'
      BY <1>1 DEF Scans, Knocks
<1>3. CASE CL!GetTokens
  <2>1. CASE main' = "thrown" /\ UNCHANGED CL!group
        BY <1>1, <1>2, <1>3, <2>1 DEF CL!GetTokens, CL!group, ClientsInv, ClientsType, Collects,
           CL!Running
  <2>2. CASE /\ main' = "wait" /\ size' \in 0..Tokens /\ alive' = TRUE
             /\ fiber' = [i \in CL!Part |-> IF i <= size' THEN "dial" ELSE "none"]
             /\ UNCHANGED <<secret_parts, stray, waitError>>
    <3>1. main = "start" /\ size = 0 /\ secret_parts = {}
          BY <1>0, <1>3 DEF CL!GetTokens, ClientsInv, Collects
    <3>2. ClientsType'
          BY <1>1, <2>2 DEF ClientsInv, ClientsType
    <3>3. \A i \in CL!Part : fiber'[i] = IF i <= size' THEN "dial" ELSE "none"
          BY <2>2
    <3>4. \A i \in CL!Part : fiber'[i] = "none" <=> i > size'
          BY <1>0, <2>2, <3>3 DEF CL!Part
    <3>5. \A i \in CL!Part : fiber'[i] # "done"
          BY <3>3
    <3>6. Collects'
          BY <1>1, <2>2, <3>1, <3>4, <3>5 DEF ClientsInv, Collects
    <3> QED BY <1>2, <3>2, <3>6 DEF ClientsInv
  <2> QED BY <1>3, <2>1, <2>2 DEF CL!GetTokens
<1>4. CASE CL!GetSecret
  <2>1. CASE main = "wait" /\ CL!Wait
    <3>1. UNCHANGED <<size, fiber, secret_parts, alive, stray, waitError>>
          BY <2>1 DEF CL!Wait, CL!group
    <3>2. ClientsType' /\ CL!Running' = CL!Running
          BY <1>1, <3>1 DEF ClientsInv, ClientsType, CL!Running
    <3>3. (main' = "sum" /\ CL!Running = {} /\ ~waitError) \/ main' = "join"
          BY <2>1 DEF CL!Wait
    <3>4. Collects'
          BY <1>1, <2>1, <3>1, <3>2, <3>3 DEF ClientsInv, Collects
    <3> QED BY <1>2, <3>2, <3>4 DEF ClientsInv
  <2>2. CASE main = "join" /\ CL!Running = {} /\ CL!Return("thrown")
        BY <1>1, <1>2, <2>2 DEF CL!Return, ClientsInv, ClientsType, Collects, CL!Running
  <2>3. CASE main = "sum" /\ CL!Return("send")
        BY <1>1, <1>2, <2>3 DEF CL!Return, ClientsInv, ClientsType, Collects, CL!Running
  <2> QED BY <1>4, <2>1, <2>2, <2>3 DEF CL!GetSecret
<1>5. CASE CL!GetFlag
      BY <1>1, <1>2, <1>5 DEF CL!GetFlag, CL!group, ClientsInv, ClientsType, Collects, CL!Running
<1> QED BY <1>3, <1>4, <1>5

\* A fiber of the fan-out.
LEMMA FiberInv ==
  ASSUME ClientsInv, NEW i \in CL!Part, CL!FiberStep(i)
  PROVE  ClientsInv'
<1>1. UNCHANGED <<job, main, canceled, port, res, answer, size, alive>>
      BY DEF CL!FiberStep, CL!Progress, CL!Store, CL!Fail
<1>2. Scans' /\ Knocks'
      BY <1>1 DEF ClientsInv, Scans, Knocks
<1>3. fiber[i] \in {"dial", "write", "read"} /\ fiber'[i] \in {"write", "read", "done"}
      /\ fiber' \in [CL!Part -> {"none", "dial", "write", "read", "done"}]
      /\ \A j \in CL!Part : j # i => fiber'[j] = fiber[j]
      BY DEF CL!FiberStep, CL!Progress, CL!Store, CL!Fail, CL!After, CL!Fails, ClientsInv,
         ClientsType
<1>4. i \in CL!Running /\ alive /\ main # "sum" /\ job = "fanout" /\ main \in {"wait", "join"}
      BY <1>3 DEF CL!Running, ClientsInv, Collects
<1>5. /\ stray' = FALSE /\ waitError' \in BOOLEAN /\ (waitError => waitError')
      /\ secret_parts' \in {secret_parts, secret_parts \cup {i}}
      /\ (i \in secret_parts' => fiber'[i] = "done")
      /\ (fiber'[i] = "done" => i \in secret_parts' \/ waitError')
  <2>1. i \notin secret_parts /\ stray = FALSE /\ waitError \in BOOLEAN /\ alive = TRUE
        BY <1>3, <1>4 DEF ClientsInv, ClientsType, Collects
  <2>2. fiber \in [CL!Part -> {"none", "dial", "write", "read", "done"}]
        BY DEF ClientsInv, ClientsType
  <2>3. CASE CL!Progress(i)
    <3>1. fiber'[i] # "done" /\ UNCHANGED <<secret_parts, stray, waitError>>
          BY <2>2, <2>3 DEF CL!Progress, CL!After
    <3> QED BY <2>1, <3>1
  <2>4. CASE CL!Store(i)
    <3>1. fiber'[i] = "done" /\ secret_parts' = secret_parts \cup {i}
          /\ stray' = (stray \/ ~alive) /\ waitError' = waitError
          BY <2>2, <2>4 DEF CL!Store, CL!After
    <3> QED BY <2>1, <3>1
  <2>5. CASE CL!Fail(i)
    <3>1. fiber'[i] = "done" /\ UNCHANGED <<secret_parts, stray>> /\ waitError' = TRUE
          BY <2>2, <2>5 DEF CL!Fail, CL!Fails
    <3> QED BY <2>1, <3>1
  <2> QED BY <2>3, <2>4, <2>5 DEF CL!FiberStep
<1>6. i \in 1..size
  <2>1. ~(i > size)
        BY <1>3 DEF ClientsInv, Collects
  <2> QED BY <2>1, CC DEF CL!Part, ClientsInv, ClientsType, CL!ClientConstants
<1>7. ClientsType'
      BY <1>1, <1>3, <1>5 DEF ClientsInv, ClientsType
<1>8. Collects'
  <2>1. \A j \in CL!Part : fiber'[j] = "none" <=> j > size
        BY <1>3 DEF ClientsInv, Collects
  <2>2. secret_parts' \subseteq 1..size /\ \A j \in secret_parts' : fiber'[j] = "done"
    <3>1. secret_parts \subseteq 1..size /\ secret_parts \subseteq CL!Part
          /\ \A j \in secret_parts : fiber[j] = "done"
          BY DEF ClientsInv, ClientsType, Collects
    <3> QED BY <1>3, <1>5, <1>6, <3>1
  <2>3. ~waitError' => \A j \in CL!Part : fiber'[j] = "done" => j \in secret_parts'
        BY <1>3, <1>5 DEF ClientsInv, Collects
  <2> QED BY <1>1, <1>4, <1>5, <2>1, <2>2, <2>3 DEF ClientsInv, Collects
<1> QED BY <1>2, <1>7, <1>8 DEF ClientsInv

\* The loops over the ports, and the cancellation.
LEMMA LoopInv ==
  ASSUME ClientsInv, CL!Cancel \/ CL!ScanPorts \/ CL!KnockPorts
  PROVE  ClientsInv'
<1>0. Ports \in Nat /\ port \in Nat /\ port <= Ports + 1 /\ canceled \in BOOLEAN
      BY CC DEF CL!ClientConstants, ClientsInv, ClientsType
<1>1. CASE CL!Cancel
  <2>1. UNCHANGED <<job, main, CL!group, port, res, answer>> /\ canceled' = TRUE
        BY <1>1 DEF CL!Cancel
  <2>2. ClientsType' /\ Collects' /\ Knocks'
        BY <2>1 DEF CL!group, ClientsInv, ClientsType, Collects, CL!Running, Knocks
  <2>3. Scans'
        BY <2>1 DEF ClientsInv, Scans
  <2> QED BY <2>2, <2>3 DEF ClientsInv
<1>2. CASE CL!ScanPorts
  <2>1. job = "scan" /\ main = "start" /\ UNCHANGED <<job, canceled, CL!group>>
        /\ main' \in {"start", "returned"}
        BY <1>2 DEF CL!ScanPorts
  <2>2. Collects' /\ Knocks'
        BY <2>1 DEF CL!group, ClientsInv, Collects, CL!Running, Knocks
  <2>3. CASE port > Ports /\ main' = "returned" /\ UNCHANGED <<port, res, answer>>
        BY <2>1, <2>2, <2>3 DEF CL!group, ClientsInv, ClientsType, Scans
  <2>4. CASE ~(port > Ports)
    <3>1. PICK how \in {"accepts", "refuses", "silent"} : CL!CheckPort(how)
               /\ answer' = Append(answer, how)
          BY <1>2, <2>4 DEF CL!ScanPorts
    <3>2. port' = port + 1 /\ main' = "start"
          BY <1>2, <2>1, <2>4 DEF CL!ScanPorts
    <3>3. PICK x \in {"OPEN", "CLOSED", "TIMEOUT"} :
             /\ res' = Append(res, x)
             /\ (x = "OPEN" => how = "accepts") /\ (x = "CLOSED" => how = "refuses" \/ canceled)
          BY <3>1 DEF CL!CheckPort
    <3>4. /\ res \in Seq({"OPEN", "CLOSED", "TIMEOUT"})
              /\ answer \in Seq({"accepts", "refuses", "silent"})
          /\ Len(res) = port - 1 /\ Len(answer) = Len(res)
          /\ \A i \in 1..Len(res) : /\ res[i] = "OPEN" => answer[i] = "accepts"
                                    /\ res[i] = "CLOSED" => answer[i] = "refuses" \/ canceled
          BY <2>1 DEF ClientsInv, Scans
    <3>5. /\ res' \in Seq({"OPEN", "CLOSED", "TIMEOUT"})
              /\ answer' \in Seq({"accepts", "refuses", "silent"})
          /\ Len(res') = Len(res) + 1 /\ Len(answer') = Len(res) + 1 /\ Len(res) \in Nat
          /\ res'[Len(res) + 1] = x /\ answer'[Len(res) + 1] = how
          /\ \A i \in 1..Len(res) : res'[i] = res[i] /\ answer'[i] = answer[i]
          BY <3>1, <3>3, <3>4
    <3>6. \A i \in 1..Len(res') : /\ res'[i] = "OPEN" => answer'[i] = "accepts"
                                  /\ res'[i] = "CLOSED" => answer'[i] = "refuses" \/ canceled
      <4> SUFFICES ASSUME NEW i \in 1..Len(res')
                   PROVE  /\ res'[i] = "OPEN" => answer'[i] = "accepts"
                          /\ res'[i] = "CLOSED" => answer'[i] = "refuses" \/ canceled
          OBVIOUS
      <4>1. CASE i \in 1..Len(res)
            BY <3>4, <3>5, <4>1
      <4>2. CASE i = Len(res) + 1
            BY <3>3, <3>5, <4>2
      <4> QED BY <3>5, <4>1, <4>2
    <3>7. Len(res') = port' - 1 /\ Len(answer') = Len(res') /\ port' \in 1..(Ports + 1)
          /\ Len(res') \in Nat
          BY <1>0, <2>4, <3>2, <3>4, <3>5
    <3>8. Scans'
          BY <2>1, <3>2, <3>5, <3>6, <3>7 DEF Scans
    <3>9. ClientsType'
          BY <2>1, <3>7 DEF CL!group, ClientsInv, ClientsType
    <3> QED BY <2>2, <3>8, <3>9 DEF ClientsInv
  <2> QED BY <1>2, <2>3, <2>4 DEF CL!ScanPorts
<1>3. CASE CL!KnockPorts
  <2>1. job = "knock" /\ main \in {"start", "sleep"} /\ UNCHANGED <<job, canceled, CL!group,
        answer>>
        /\ main' \in {"start", "sleep", "returned", "thrown"}
        BY <1>3 DEF CL!KnockPorts
  <2>2. Collects' /\ Scans'
        BY <2>1 DEF CL!group, ClientsInv, Collects, CL!Running, Scans
  <2>3. /\ res \in Seq(Nat \X {"sent", "failed"}) /\ Len(res) \in Nat
        /\ main = "start" => Len(res) = port - 1
        /\ main = "sleep" => Len(res) = port /\ port <= Ports
        /\ \A i \in 1..Len(res) : res[i][1] = i
        BY <2>1 DEF ClientsInv, Knocks
  <2>4. CASE /\ main = "start" /\ port <= Ports /\ main' = "sleep"
             /\ \E how \in {"sent", "failed"} : res' = Append(res, <<port, how>>)
             /\ UNCHANGED port
    <3>1. PICK how \in {"sent", "failed"} : res' = Append(res, <<port, how>>)
          BY <2>4
    <3> DEFINE x == <<port, how>>
    <3>2. x \in Nat \X {"sent", "failed"} /\ x[1] = port
          BY <1>0
    <3> HIDE DEF x
    <3>3. /\ res' \in Seq(Nat \X {"sent", "failed"}) /\ Len(res') = Len(res) + 1
          /\ res'[Len(res) + 1] = x /\ \A i \in 1..Len(res) : res'[i] = res[i]
          BY <2>3, <3>1, <3>2 DEF x
    <3>4. Len(res') = port /\ Len(res) + 1 = port
          BY <1>0, <2>3, <2>4, <3>3
    <3>5. \A i \in 1..Len(res') : res'[i][1] = i
      <4> SUFFICES ASSUME NEW i \in 1..Len(res') PROVE res'[i][1] = i
          OBVIOUS
      <4>1. CASE i \in 1..Len(res)
            BY <2>3, <3>3, <4>1
      <4>2. CASE i = Len(res) + 1
            BY <3>2, <3>3, <3>4, <4>2
      <4> QED BY <2>3, <3>3, <4>1, <4>2
    <3>6. Knocks'
          BY <2>1, <2>4, <3>3, <3>4, <3>5 DEF Knocks
    <3>7. ClientsType'
          BY <1>0, <2>1, <2>4, <3>4 DEF CL!group, ClientsInv, ClientsType
    <3> QED BY <2>2, <3>6, <3>7 DEF ClientsInv
  <2>5. CASE UNCHANGED res /\ \/ main = "start" /\ port > Ports /\ main' = "returned"
                                  /\ port' = port
                              \/ main = "sleep" /\ main' = "start" /\ port' = port + 1
                              \/ main = "sleep" /\ main' = "thrown" /\ port' = port
    <3>1. port' \in 1..(Ports + 1) /\ (main' \in {"start", "returned"} => Len(res) = port' - 1)
          /\ main' # "sleep"
          /\ (main' = "returned" => port' > Ports)
          BY <1>0, <2>3, <2>5 DEF ClientsInv, ClientsType
    <3>2. Knocks'
          BY <2>1, <2>3, <2>5, <3>1 DEF Knocks
    <3>3. ClientsType'
          BY <2>1, <2>5, <3>1 DEF CL!group, ClientsInv, ClientsType
    <3> QED BY <2>2, <3>2, <3>3 DEF ClientsInv
  <2> QED BY <1>3, <2>4, <2>5 DEF CL!KnockPorts
<1> QED BY <1>1, <1>2, <1>3

\* Every step keeps the invariant.
LEMMA ClientsStep == ClientsInv /\ [CL!Next]_(CL!vars) => ClientsInv'
<1> SUFFICES ASSUME ClientsInv, [CL!Next]_(CL!vars) PROVE ClientsInv'
    OBVIOUS
<1>1. CASE CL!GetTokens \/ CL!GetSecret \/ CL!GetFlag
      BY <1>1, FanoutInv
<1>2. ASSUME NEW i \in CL!Part, CL!FiberStep(i) PROVE ClientsInv'
      BY <1>2, FiberInv
<1>3. CASE CL!Cancel \/ CL!ScanPorts \/ CL!KnockPorts
      BY <1>3, LoopInv
<1>4. CASE UNCHANGED CL!vars
      BY <1>4 DEF CL!vars, CL!group, ClientsInv, ClientsType, Collects, CL!Running, Scans, Knocks
<1> QED BY <1>1, <1>2, <1>3, <1>4 DEF CL!Next

\* The invariant of the three programs.
LEMMA ClientsInvariance == CL!Spec => []ClientsInv
  BY ClientsInit, ClientsStep, PTL DEF CL!Spec
-----------------------------------------------------------------------------
\* A part of the suite behaves as it does alone: the other parts leave its variables
\* alone.
LEMMA SuiteIsRedis == SuiteSpec => RE!Spec
<1>1. SuiteInit => RE!Init
      BY DEF SuiteInit
<1>2. UNCHANGED re => UNCHANGED RE!vars
      BY DEF re, RE!vars
<1>3. ASSUME [SuiteNext]_all PROVE [RE!Next]_(RE!vars)
  <2>1. CASE RedisNext
        BY <2>1 DEF RedisNext
  <2>2. CASE UNCHANGED all
        BY <1>2, <2>2 DEF all
  <2>3. CASE \/ BalancerNext \/ FibersNext \/ StreamsNext \/ TimersNext \/ NetNext
             \/ SocksNext \/ RpcNext \/ ClientsNext \/ CoroutineNext
        BY <1>2, <2>3 DEF BalancerNext, FibersNext, StreamsNext, TimersNext, NetNext, SocksNext,
           RpcNext, ClientsNext, CoroutineNext
  <2> QED BY <1>3, <2>1, <2>2, <2>3 DEF SuiteNext
<1> QED BY <1>1, <1>3, PTL DEF SuiteSpec, RE!Spec

\* A part of the suite behaves as it does alone: the other parts leave its variables
\* alone.
LEMMA SuiteIsSocks == SuiteSpec => SO!Spec
<1>1. SuiteInit => SO!Init
      BY DEF SuiteInit
<1>2. UNCHANGED so => UNCHANGED SO!vars
      BY DEF so, SO!vars, SO!links, SO!ends
<1>3. ASSUME [SuiteNext]_all PROVE [SO!Next]_(SO!vars)
  <2>1. CASE SocksNext
        BY <2>1 DEF SocksNext
  <2>2. CASE UNCHANGED all
        BY <1>2, <2>2 DEF all
  <2>3. CASE \/ BalancerNext \/ FibersNext \/ StreamsNext \/ TimersNext \/ NetNext
             \/ RedisNext \/ RpcNext \/ ClientsNext \/ CoroutineNext
        BY <1>2, <2>3 DEF BalancerNext, FibersNext, StreamsNext, TimersNext, NetNext, RedisNext,
           RpcNext, ClientsNext, CoroutineNext
  <2> QED BY <1>3, <2>1, <2>2, <2>3 DEF SuiteNext
<1> QED BY <1>1, <1>3, PTL DEF SuiteSpec, SO!Spec

\* A part of the suite behaves as it does alone: the other parts leave its variables
\* alone.
LEMMA SuiteIsRpc == SuiteSpec => RP!Spec
<1>1. SuiteInit => RP!Init
      BY DEF SuiteInit
<1>2. UNCHANGED rp => UNCHANGED RP!vars
      BY DEF rp, RP!vars, RP!clients
<1>3. ASSUME [SuiteNext]_all PROVE [RP!Next]_(RP!vars)
  <2>1. CASE RpcNext
        BY <2>1 DEF RpcNext
  <2>2. CASE UNCHANGED all
        BY <1>2, <2>2 DEF all
  <2>3. CASE \/ BalancerNext \/ FibersNext \/ StreamsNext \/ TimersNext \/ NetNext
             \/ RedisNext \/ SocksNext \/ ClientsNext \/ CoroutineNext
        BY <1>2, <2>3 DEF BalancerNext, FibersNext, StreamsNext, TimersNext, NetNext, RedisNext,
           SocksNext, ClientsNext, CoroutineNext
  <2> QED BY <1>3, <2>1, <2>2, <2>3 DEF SuiteNext
<1> QED BY <1>1, <1>3, PTL DEF SuiteSpec, RP!Spec

\* A part of the suite behaves as it does alone: the other parts leave its variables
\* alone.
LEMMA SuiteIsClients == SuiteSpec => CL!Spec
<1>1. SuiteInit => CL!Init
      BY DEF SuiteInit
<1>2. UNCHANGED cl => UNCHANGED CL!vars
      BY DEF cl, CL!vars, CL!group
<1>3. ASSUME [SuiteNext]_all PROVE [CL!Next]_(CL!vars)
  <2>1. CASE ClientsNext
        BY <2>1 DEF ClientsNext
  <2>2. CASE UNCHANGED all
        BY <1>2, <2>2 DEF all
  <2>3. CASE \/ BalancerNext \/ FibersNext \/ StreamsNext \/ TimersNext \/ NetNext
             \/ RedisNext \/ SocksNext \/ RpcNext \/ CoroutineNext
        BY <1>2, <2>3 DEF BalancerNext, FibersNext, StreamsNext, TimersNext, NetNext, RedisNext,
           SocksNext, RpcNext, CoroutineNext
  <2> QED BY <1>3, <2>1, <2>2, <2>3 DEF SuiteNext
<1> QED BY <1>1, <1>3, PTL DEF SuiteSpec, CL!Spec

\* What a program on the network tells its caller has happened: the redis reply is the
\* storage's, the chain of proxies relays and keeps the order, an rpc that returned was
\* executed once, the fan-out, the scan and the knocks report what they found.
THEOREM AnswersAreTrue == SuiteSpec => []AnswersMatch
<1>1. RedisInv /\ SocksInv /\ RpcInv /\ Blame /\ ClientsInv => AnswersMatch
      BY Obeys, ChainOK, Answered, Reports DEF AnswersMatch
<1> QED BY <1>1, SuiteIsRedis, SuiteIsSocks, SuiteIsRpc, SuiteIsClients, RedisInvariance,
           SocksInvariance, RpcInvariance, ClientsInvariance, PTL
=============================================================================
