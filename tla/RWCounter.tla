----------------------------- MODULE RWCounter ------------------------------
(***************************************************************************)
(* rw-counter/rw_counter.h: a counter per incrementer in a vector, summed  *)
(* by GetValue without a lock.  emplace_back may move the vector: a read   *)
(* of an element meanwhile is a data race and yields an undefined sum.     *)
(* threads_cnt_ is raised after the mutex is released, so for a while it   *)
(* may count the element of another thread.                                *)
(***************************************************************************)
EXTENDS Integers, Sequences

CONSTANTS Writer,               \* threads that take an incrementer and use it
          MaxIncrements,        \* bound on the increments of a thread
          MaxReads,             \* bound on the calls of GetValue
          Undefined             \* a sum that a data race has spoilt

VARIABLES counters_, mutex_, threads_cnt_,
          pc, mine,             \* of a writer: its place, the index of its counter
          reading,              \* of the reader: is GetValue under way, its i and res
          low, quiet,           \* history: the total when GetValue began; was no
          reads                 \*          GetIncrementer under way since

vars == <<counters_, mutex_, threads_cnt_, pc, mine, reading, low, quiet, reads>>

Nobody == "nobody"
CounterConstants == Nobody \notin Writer /\ Undefined \notin Nat

Registering == {t \in Writer : pc[t] \in {"move", "count"}}
Init == /\ counters_ = <<>> /\ mutex_ = Nobody /\ threads_cnt_ = 0
        /\ pc = [t \in Writer |-> "start"] /\ mine = [t \in Writer |-> 0]
        /\ reading = [on |-> FALSE, i |-> 0, res |-> 0] /\ low = 0 /\ quiet = TRUE /\ reads = 0

GetIncrementer(t) ==            \* emplace_back begins
    /\ pc[t] = "start" /\ mutex_ = Nobody /\ mutex_' = t
    /\ pc' = [pc EXCEPT ![t] = "move"] /\ quiet' = FALSE
    /\ UNCHANGED <<counters_, threads_cnt_, mine, reading, low, reads>>

EmplaceBack(t) ==
    /\ pc[t] = "move" /\ mutex_' = Nobody /\ pc' = [pc EXCEPT ![t] = "count"]
    /\ counters_' = Append(counters_, 0) /\ mine' = [mine EXCEPT ![t] = Len(counters_) + 1]
    /\ UNCHANGED <<threads_cnt_, reading, low, quiet, reads>>

CountThread(t) ==
    /\ pc[t] = "count" /\ threads_cnt_' = threads_cnt_ + 1 /\ pc' = [pc EXCEPT ![t] = "ready"]
    /\ UNCHANGED <<counters_, mutex_, mine, reading, low, quiet, reads>>

Increment(t) ==
    /\ pc[t] = "ready" /\ counters_[mine[t]] < MaxIncrements
    /\ counters_' = [counters_ EXCEPT ![mine[t]] = @ + 1]
    /\ UNCHANGED <<mutex_, threads_cnt_, pc, mine, reading, low, quiet, reads>>

Total == LET sum[n \in 0..Len(counters_)] == IF n = 0 THEN 0 ELSE sum[n - 1] + counters_[n]
         IN  sum[Len(counters_)]

GetValue ==
    /\ ~reading.on /\ reads < MaxReads /\ reads' = reads + 1
    /\ reading' = [on |-> TRUE, i |-> 0, res |-> 0]
    /\ low' = Total /\ quiet' = (Registering = {})
    /\ UNCHANGED <<counters_, mutex_, threads_cnt_, pc, mine>>

LoadOverwrites ==               \* mutant: = for +=
    /\ reading.on /\ reading.i < threads_cnt_
    /\ reading' = [reading EXCEPT !.i = @ + 1,
                     !.res = IF mutex_ # Nobody \/ @ = Undefined THEN Undefined
                             ELSE counters_[reading.i + 1]]
    /\ UNCHANGED <<counters_, mutex_, threads_cnt_, pc, mine, low, quiet, reads>>

LoadCounter ==                  \* one turn of the loop: threads_cnt_ is read again
    /\ reading.on /\ reading.i < threads_cnt_
    /\ reading' = [reading EXCEPT !.i = @ + 1,
                     !.res = IF mutex_ # Nobody \/ @ = Undefined THEN Undefined
                             ELSE @ + counters_[reading.i + 1]]
    /\ UNCHANGED <<counters_, mutex_, threads_cnt_, pc, mine, low, quiet, reads>>

ReturnValue ==
    /\ reading.on /\ reading.i >= threads_cnt_ /\ reading' = [reading EXCEPT !.on = FALSE]
    /\ UNCHANGED <<counters_, mutex_, threads_cnt_, pc, mine, low, quiet, reads>>

Next == \/ \E t \in Writer : GetIncrementer(t) \/ EmplaceBack(t) \/ CountThread(t) \/ Increment(t)
        \/ GetValue \/ LoadCounter \/ ReturnValue

Spec == Init /\ [][Next]_vars
-----------------------------------------------------------------------------
\* GetValue never indexes past the vector, and when no GetIncrementer overlaps it
\* its result counts every increment made before it began and none made after it
\* ended, although the counters are read one by one while they grow.
SumIsCurrent ==
    /\ [](threads_cnt_ <= Len(counters_))
    /\ [][reading.on /\ ~reading'.on /\ quiet => reading.res \in low..Total]_vars
=============================================================================
