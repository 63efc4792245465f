----------------------------- MODULE MCExecutor -----------------------------
(***************************************************************************)
(* Small executors for TLC.  Tasks a, b, c; which of them may depend on or *)
(* be triggered by which is given by these relations (a task graph without *)
(* cycles), who calls what by the role constants.                          *)
(***************************************************************************)
EXTENDS Executor

CONSTANTS a, b, c, c1, c2

None == {}

\* b waits for a.
Chain == {<<b, a>>}
\* c waits for a and b.
Join == {<<c, a>>, <<c, b>>}

Start == [t \in Task |-> IF t = a THEN 1 ELSE 2]

\* All tasks belong to one client ...
ByClient1 == [t \in Task |-> {c1}]
\* ... or to two, and c is built and submitted by the body of a running task.
Mixed == [t \in Task |-> IF t = a THEN {c1} ELSE IF t = b THEN {c2} ELSE Worker]
=============================================================================
