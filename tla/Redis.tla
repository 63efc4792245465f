------------------------------- MODULE Redis -------------------------------
(***************************************************************************)
(* redis: the server with one fiber per connection, the storage, and       *)
(* clients.  What is sent is a sequence of RESP elements; a fiber parks    *)
(* while it reads the next one, the storage is used without parking.  The  *)
(* reader hands out views of its only buffer.  A text is a word, or the    *)
(* spelling of an integer, plain or padded ("07", "+7", " 7").             *)
(***************************************************************************)
EXTENDS Integers, Sequences, FiniteSets

CONSTANTS Client, Key, Word, None, kIntMax, MaxCommands

kIntMin == -kIntMax - 1

VARIABLES kv_storage_,
          conn,                 \* per client: "open", "closed" by the server, "left"
          wire, reply,          \* elements under way to the server, and back
          element, buf_, name, key,     \* the server's fiber: elements read, its locals
          sent, done,           \* the command a client waits for; history: the one executed
          written,              \* history, per key: the text its last writer knows it to have
          commands

vars == <<kv_storage_, conn, wire, reply, element, buf_, name, key, sent, done, written, commands>>

Texts == {Word} \cup [padded : BOOLEAN, n : kIntMin..kIntMax]
to_string(n) == [padded |-> FALSE, n |-> n]

Array(n) == [type |-> "Array", of |-> n]
Bulk(s) == [type |-> "BulkString", of |-> s]         \* of None for the null string
Integer(n) == [type |-> "Int", of |-> n]

\* RespReader: a size or an ending that is not in the format makes it throw.
BadString == [type |-> "BadString", of |-> None]
ReadArrayLength(e) == e.type = "Array" /\ e.of >= -1
ReadBulkString(e) == e.type = "BulkString"

Init == /\ kv_storage_ = [k \in Key |-> None] /\ conn = [c \in Client |-> "open"]
        /\ wire = [c \in Client |-> <<>>] /\ reply = [c \in Client |-> None]
        /\ element = [c \in Client |-> 0] /\ buf_ = [c \in Client |-> None]
        /\ name = [c \in Client |-> None] /\ key = [c \in Client |-> None]
        /\ sent = [c \in Client |-> None] /\ done = [c \in Client |-> None]
        /\ written = [k \in Key |-> None] /\ commands = 0

handler == <<element, buf_, name, key>>
-----------------------------------------------------------------------------
\* Client::Get, Set, Increment, Decrement: the request.
Request(cmd) == IF cmd.name = "SET" THEN <<Array(3), Bulk(cmd.name), Bulk(cmd.key), Bulk(cmd.value)>>
                                    ELSE <<Array(2), Bulk(cmd.name), Bulk(cmd.key)>>

Commands == [name : {"GET", "INCR", "DECR"}, key : Key, value : {None}]
            \cup [name : {"SET"}, key : Key, value : Texts]

RedisConstants == /\ kIntMax \in Nat \ {0} /\ None \notin Key \cup {"garbage"} \cup Commands \cup Texts
                  /\ {Word, None} \cap [n : kIntMin..kIntMax] = {}
                  /\ Word \notin [padded : BOOLEAN, n : kIntMin..kIntMax]

\* What a client of another kind may send, each refused at a different place.
Malformed == {<<Integer(1)>>, <<Array(-2)>>, <<Array(4)>>, <<Array(2), Integer(1)>>, <<Array(2), Bulk("PING")>>,
              <<Array(2), BadString>>, <<Array(3), Bulk("GET")>>, <<Array(2), Bulk("GET"), Bulk(None)>>,
              <<Array(3), Bulk("SET"), Bulk(CHOOSE k \in Key : TRUE), Integer(1)>>}

Send(c) == /\ conn[c] = "open" /\ sent[c] = None /\ commands < MaxCommands /\ commands' = commands + 1
           /\ done' = [done EXCEPT ![c] = None]
           /\ \/ \E cmd \in Commands : /\ sent' = [sent EXCEPT ![c] = cmd]
                                       /\ wire' = [wire EXCEPT ![c] = Request(cmd)]
              \/ \E m \in Malformed : sent' = [sent EXCEPT ![c] = "garbage"] /\ wire' = [wire EXCEPT ![c] = m]
           /\ UNCHANGED <<kv_storage_, conn, reply, handler, written>>

\* The answer, or RedisError when the server closed the connection.
Receive(c) == /\ sent[c] # None /\ (reply[c] # None \/ conn[c] = "closed")
              /\ sent' = [sent EXCEPT ![c] = None] /\ reply' = [reply EXCEPT ![c] = None]
              /\ UNCHANGED <<kv_storage_, conn, wire, handler, done, written, commands>>

Leave(c) == /\ conn[c] = "open" /\ conn' = [conn EXCEPT ![c] = "left"]
            /\ UNCHANGED <<kv_storage_, wire, reply, handler, sent, done, written, commands>>
-----------------------------------------------------------------------------
\* An exception ends the loop of the connection's fiber, which closes it.
Break(c) == /\ conn' = [conn EXCEPT ![c] = "closed"] /\ wire' = [wire EXCEPT ![c] = <<>>]
            /\ UNCHANGED <<reply, handler, done, written>>

Arity(n) == IF n = "SET" THEN 3 ELSE 2

\* The element ReadCommand expects next: of which length, with which name.
Expected(c, e) ==
    CASE element[c] = 0 -> ReadArrayLength(e) /\ e.of \in 2..3
      [] element[c] = 1 -> /\ ReadBulkString(e) /\ e.of \in {"GET", "SET", "INCR", "DECR"}
                           /\ Arity(e.of) = buf_[c]
      [] OTHER -> ReadBulkString(e) /\ e.of # None

\* ReadCommand copies the key out of the reader's buffer before it reads on.
KeyInBuffer(c, e) == e.of                                       \* mutant: a view is kept
CopiedKey(c, e) == IF element[c] = 2 THEN e.of ELSE key[c]

ReadCommand(c) ==
    /\ wire[c] # <<>> /\ conn[c] # "closed" /\ UNCHANGED <<sent, commands>>
    /\ LET e == Head(wire[c]) IN
       \/ /\ Expected(c, e) /\ element' = [element EXCEPT ![c] = @ + 1]
          /\ buf_' = [buf_ EXCEPT ![c] = e.of] /\ wire' = [wire EXCEPT ![c] = Tail(@)]
          /\ name' = [name EXCEPT ![c] = IF element[c] = 1 THEN e.of ELSE @]
          /\ key' = [key EXCEPT ![c] = CopiedKey(c, e)]
          /\ UNCHANGED <<kv_storage_, conn, reply, done, written>>
       \/ ~Expected(c, e) /\ Break(c) /\ UNCHANGED kv_storage_

\* The client left in the middle of a command: EOF.
ReadEnds(c) == /\ conn[c] = "left" /\ wire[c] = <<>> /\ ~(element[c] = 3 /\ name[c] # "SET") /\ element[c] # 4
               /\ Break(c) /\ UNCHANGED <<kv_storage_, sent, commands>>

\* SimpleStorage.  A value is an integer, or a text that is not the spelling of one.
Get(k) == IF kv_storage_[k] = None THEN None
          ELSE IF kv_storage_[k] = Word THEN Word ELSE to_string(kv_storage_[k].n)
Stored(text) == IF text = Word THEN Word ELSE [n |-> text.n]
Current(k) == IF kv_storage_[k] = None THEN 0 ELSE kv_storage_[k].n

InRange(n, delta) == IF delta >= 0 THEN n <= kIntMax - delta ELSE n >= kIntMin - delta

\* History: the text a command leaves in place of t, as its client knows from the answer.
Left(cmd, t, e) == CASE cmd.name = "GET" -> t [] cmd.name = "SET" -> cmd.value [] OTHER -> to_string(e.of)

\* ProcessCommand, and the reply it writes; Change throws on a text or an overflow,
\* when a key that was missing has already been given a 0.
ProcessCommand(c) ==
    LET delta == IF name[c] = "INCR" THEN 1 ELSE -1
        k == key[c]
        Answer(storage, e, value) ==
            /\ kv_storage_' = storage /\ reply' = [reply EXCEPT ![c] = e]
            /\ done' = [done EXCEPT ![c] = [command |-> [name |-> name[c], key |-> k, value |-> value],
                                            before |-> written[sent[c].key]]]
            /\ written' = [written EXCEPT ![sent[c].key] = Left(sent[c], @, e)]
            /\ element' = [element EXCEPT ![c] = 0] /\ UNCHANGED <<conn, wire, buf_, name, key>>
    IN /\ element[c] = (IF name[c] = "SET" THEN 4 ELSE 3) /\ conn[c] # "closed" /\ UNCHANGED <<sent, commands>>
       /\ \/ name[c] = "GET" /\ Answer(kv_storage_, Bulk(Get(k)), None)
          \/ name[c] = "SET" /\ Answer([kv_storage_ EXCEPT ![k] = Stored(buf_[c])], Bulk("OK"), buf_[c])
          \/ /\ name[c] \in {"INCR", "DECR"} /\ kv_storage_[k] # Word /\ InRange(Current(k), delta)
             /\ Answer([kv_storage_ EXCEPT ![k] = [n |-> Current(k) + delta]], Integer(Current(k) + delta), None)
          \/ /\ name[c] \in {"INCR", "DECR"} /\ (kv_storage_[k] # Word => ~InRange(Current(k), delta))
             /\ kv_storage_' = [kv_storage_ EXCEPT ![k] = IF @ = None THEN [n |-> 0] ELSE @]
             /\ Break(c)

Next == \E c \in Client : Send(c) \/ Receive(c) \/ Leave(c) \/ ReadCommand(c) \/ ReadEnds(c) \/ ProcessCommand(c)

Spec == Init /\ [][Next]_vars
-----------------------------------------------------------------------------
\* The answer a command should have when its key has the text t: integers in their plain
\* spelling, a missing one counted as 0.
Number(t) == IF t = None THEN 0 ELSE t.n
Plain(t) == IF t \in {None, Word} THEN t ELSE to_string(t.n)
Right(cmd, t, e) ==
    \/ cmd.name = "GET" /\ e = Bulk(Plain(t))
    \/ cmd.name = "SET" /\ e = Bulk("OK")
    \/ cmd.name = "INCR" /\ t # Word /\ e = Integer(Number(t) + 1)
    \/ cmd.name = "DECR" /\ t # Word /\ e = Integer(Number(t) - 1)

\* What the server executes for a client is the command the client sent, though its
\* pieces pass through one buffer while other fibers run; what is not a command is
\* never executed; the answer is the one that follows from the last command, of whichever
\* client, that wrote the key; no sequence of commands takes an integer over its limits.
ServerObeys ==
    /\ \A c \in Client : sent[c] # None /\ done[c] # None => done[c].command = sent[c]
    /\ \A c \in Client : sent[c] # None /\ reply[c] # None => Right(sent[c], done[c].before, reply[c])
    /\ \A k \in Key : kv_storage_[k] \notin {None, Word} => kv_storage_[k].n \in kIntMin..kIntMax
=============================================================================
