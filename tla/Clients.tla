------------------------------ MODULE Clients ------------------------------
(***************************************************************************)
(* Three programs on top of cactus: Fanout (fanout/fanout.cpp) collects the *)
(* parts of a secret with one fiber per token, ScanPorts                   *)
(* (portscan/portscan.cpp) dials a range of ports with a time-out each,    *)
(* KnockPorts (portknock/portknock.cpp) sends to a list of ports.  One of  *)
(* them runs, in a fiber that may be cancelled.  Network errors, silence   *)
(* and refusals happen at every dial, write and read.                      *)
(***************************************************************************)
EXTENDS Integers, Sequences, FiniteSets

CONSTANTS Tokens,               \* bound on the tokens the fanout server sends
          Ports                 \* the number of ports that are scanned or knocked at

ClientConstants == Tokens \in Nat /\ Ports \in Nat

VARIABLES job,                  \* "fanout", "scan" or "knock"
          pc,                   \* of the main fiber
          canceled,             \* of the main fiber
          size,                 \* the tokens received
          fiber,                \* per token's fiber: "none", "dial", "write", "read", "done"
          secret_parts,         \* the tokens whose part has been stored
          alive,                \* secret_parts is on the stack of GetSecret
          stray,                \* history: a part was stored when it was not
          first_error_,         \* of the WaitGroup
          port, res,            \* the loop over the ports, and its results
          answer                \* history: how the port that is dialed answers

group == <<size, fiber, secret_parts, alive, stray, first_error_>>
vars == <<job, pc, canceled, group, port, res, answer>>

Part == 1..Tokens
Init == /\ job \in {"fanout", "scan", "knock"} /\ pc = "start" /\ canceled = FALSE
        /\ size = 0 /\ fiber = [i \in Part |-> "none"] /\ secret_parts = {}
        /\ alive = FALSE /\ stray = FALSE /\ first_error_ = FALSE
        /\ port = 1 /\ res = <<>> /\ answer = <<>>

Cancel == /\ ~canceled /\ pc \notin {"returned", "thrown"} /\ canceled' = TRUE
          /\ UNCHANGED <<job, pc, group, port, res, answer>>
-----------------------------------------------------------------------------
\* Fanout: the first connection, and the tokens; then GetSecret and its fibers.
GetTokens ==
    /\ job = "fanout" /\ pc = "start"
    /\ \/ pc' = "thrown" /\ UNCHANGED group
       \/ /\ pc' = "wait" /\ size' \in 0..Tokens /\ alive' = TRUE
          /\ fiber' = [i \in Part |-> IF i <= size' THEN "dial" ELSE "none"]
          /\ UNCHANGED <<secret_parts, stray, first_error_>>
    /\ UNCHANGED <<job, canceled, port, res, answer>>

\* A fiber ends: the first error is kept for Wait.
Fails(i) == fiber' = [fiber EXCEPT ![i] = "done"] /\ first_error_' = TRUE
After(i, from, to) == fiber[i] = from /\ fiber' = [fiber EXCEPT ![i] = to]

Progress(i) == /\ \/ After(i, "dial", "write") \/ After(i, "write", "read")
            /\ UNCHANGED <<size, secret_parts, alive, stray, first_error_>>
Store(i) == /\ After(i, "read", "done")
            /\ secret_parts' = secret_parts \cup {i} /\ stray' = (stray \/ ~alive)
            /\ UNCHANGED <<size, alive, first_error_>>
Fail(i) == /\ fiber[i] \in {"dial", "write", "read"} /\ Fails(i)
           /\ UNCHANGED <<size, secret_parts, alive, stray>>

\* The fibers; one that ~Group has cancelled fails at its next Park, but does not
\* Park when what it reads is there already.
FiberStep(i) == /\ Progress(i) \/ Store(i) \/ Fail(i)
                /\ UNCHANGED <<job, pc, canceled, port, res, answer>>

Running == {i \in Part : fiber[i] \in {"dial", "write", "read"}}
Return(how) == pc' = how /\ alive' = FALSE /\ UNCHANGED <<size, fiber, secret_parts, stray, first_error_>>

\* group.Wait(): all fibers are done, one has failed, or the wait is cancelled.
Wait == \/ Running = {} /\ ~first_error_ /\ pc' = "sum" /\ UNCHANGED group
        \/ (first_error_ \/ canceled) /\ pc' = "join" /\ UNCHANGED group

GetSecret ==
    /\ job = "fanout"
    /\ \/ pc = "wait" /\ Wait
       \/ pc = "join" /\ Running = {} /\ Return("thrown")       \* ~Group has joined them
       \/ pc = "sum" /\ Return("send")
    /\ UNCHANGED <<job, canceled, port, res, answer>>

\* The secret is written and the flag is read.
GetFlag == /\ job = "fanout" /\ pc = "send"
           /\ pc' \in {"returned", "thrown"}
           /\ UNCHANGED <<job, canceled, group, port, res, answer>>
-----------------------------------------------------------------------------
\* CheckPort: the dial ends with the port's answer, with the time-out of the guard,
\* or with the cancellation, which the catch-all turns into CLOSED.
CheckPort(how) ==
    \/ how = "accepts" /\ res' = Append(res, "OPEN")
    \/ how = "refuses" /\ res' = Append(res, "CLOSED")
    \/ res' = Append(res, "TIMEOUT")
    \/ canceled /\ res' = Append(res, "CLOSED")

ScanPorts ==
    /\ job = "scan" /\ pc = "start"
    /\ IF port > Ports THEN pc' = "returned" /\ UNCHANGED <<port, res, answer>>
       ELSE /\ \E how \in {"accepts", "refuses", "silent"} :
                  CheckPort(how) /\ answer' = Append(answer, how)
            /\ port' = port + 1 /\ UNCHANGED pc
    /\ UNCHANGED <<job, canceled, group>>

\* PortKnock: what goes wrong with the connection is ignored, then the delay; a
\* cancellation ends the loop there, outside the try block.
KnockPorts ==
    /\ job = "knock"
    /\ \/ /\ pc = "start" /\ port <= Ports /\ pc' = "sleep"
          /\ \E how \in {"sent", "failed"} : res' = Append(res, <<port, how>>)
          /\ UNCHANGED port
       \/ pc = "start" /\ port > Ports /\ pc' = "returned" /\ UNCHANGED <<res, port>>
       \/ pc = "sleep" /\ pc' = "start" /\ port' = port + 1 /\ ~canceled /\ UNCHANGED res
       \/ pc = "sleep" /\ pc' = "thrown" /\ canceled /\ UNCHANGED <<res, port>>
    /\ UNCHANGED <<job, canceled, group, answer>>

Next == \/ Cancel \/ GetTokens \/ GetSecret \/ GetFlag \/ ScanPorts \/ KnockPorts
        \/ \E i \in Part : FiberStep(i)

Spec == Init /\ [][Next]_vars
-----------------------------------------------------------------------------
\* The secret is only sent when the part of every token has come; no fiber stores a
\* part when GetSecret has ended; a scan reports every port, OPEN only if it accepts
\* and CLOSED only if it refuses or the scan was cancelled; knocks go to the ports
\* in their order, each once.
ClientsReport ==
    /\ pc \in {"sum", "send"} => secret_parts = 1..size
    /\ ~stray /\ (~alive => Running = {})
    /\ job = "scan" => \A i \in DOMAIN res : /\ res[i] = "OPEN" => answer[i] = "accepts"
                                             /\ res[i] = "CLOSED" => answer[i] = "refuses" \/ canceled
    /\ job = "knock" => \A i \in DOMAIN res : res[i][1] = i
    /\ pc = "returned" /\ job # "fanout" => Len(res) = Ports
=============================================================================
