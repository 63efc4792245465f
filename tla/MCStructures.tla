---------------------------- MODULE MCStructures ----------------------------
(***************************************************************************)
(* The lock-free and concurrent data structures, the data-parallel         *)
(* algorithms, the interpreter and the checker of names, model-checked     *)
(* side by side.  They share no state: `which`, chosen at the start, says  *)
(* which of them a behaviour is about, and the others keep their initial   *)
(* state.                                                                  *)
(***************************************************************************)
EXTENDS Structures, TLC

CONSTANTS Var, Mod, Literal, Counts, MaxExpr, MaxLines,         \* of Programs
          MaxName                                               \* of Names

\* What FindEqualSumSubsets is given (a configuration cannot name -1).
SmallIntegers == -1 .. 2

\* The letters of the names.
Lower == <<"a", "b">>
Upper == <<"A", "B">>

VARIABLES which,
          code, outcome,
          spellchecker_dict_, files, statistics, visited

PR == INSTANCE Programs
NA == INSTANCE Names WITH res <- statistics

ASSUME InstanceConstants == PR!ProgramConstants /\ NA!NameConstants

sm == <<mapPtr, mapLive, mapHazard, mapThreads, mapFree, mapFreeSize, mapScanLock, mapScan,
        mapPc, mapVal, snapshot, mutable_map_, operation_count_, mapMutex, call, ret, before,
        mapCalls>>
mq == <<head_, queueNext, queueLive, queuePc, old_head, other, pushed>>
hm == <<table_, mutexes_, size_, is_rehashing_, hashPc, key, cursor, hashCalls>>
cn == <<counters_, counterMutex, threads_cnt_, counterPc, mine, reading, low, quiet, reads>>
pa == <<job, input, flag, sums, from, end, tpc, found, kept, res, result, main, runs>>
texts == <<code, outcome, spellchecker_dict_, files, statistics, visited>>
all == <<which, vars, sm, mq, hm, cn, pa, texts>>

\* The snapshot that the map starts with is fixed in the behaviours of the others.
SuiteInit ==
    /\ which \in {"stack", "sync-map", "mpsc-queue", "hash-table", "rw-counter", "parallel",
                  "matrix-3.0", "clang-fun"}
    /\ Init /\ SM!Init /\ MQ!Init /\ HM!Init /\ CN!Init /\ PA!Init /\ PR!Init /\ NA!Init
    /\ which = "sync-map" \/ mapPtr = CHOOSE n \in Snapshots : TRUE

StackNext == which = "stack" /\ Next /\ UNCHANGED <<which, sm, mq, hm, cn, pa, texts>>
MapNext == which = "sync-map" /\ SM!Next /\ UNCHANGED <<which, vars, mq, hm, cn, pa, texts>>
QueueNext == which = "mpsc-queue" /\ MQ!Next /\ UNCHANGED <<which, vars, sm, hm, cn, pa, texts>>
HashNext == which = "hash-table" /\ HM!Next /\ UNCHANGED <<which, vars, sm, mq, cn, pa, texts>>
CounterNext == which = "rw-counter" /\ CN!Next /\ UNCHANGED <<which, vars, sm, mq, hm, pa, texts>>
ParallelNext == which = "parallel" /\ PA!Next /\ UNCHANGED <<which, vars, sm, mq, hm, cn, texts>>
ProgramNext == /\ which = "matrix-3.0" /\ PR!Next
               /\ UNCHANGED <<which, vars, sm, mq, hm, cn, pa, spellchecker_dict_, files, statistics, visited>>
NameNext == /\ which = "clang-fun" /\ NA!Next
            /\ UNCHANGED <<which, vars, sm, mq, hm, cn, pa, code, outcome>>

SuiteNext == \/ StackNext \/ MapNext \/ QueueNext \/ HashNext \/ CounterNext \/ ParallelNext
             \/ ProgramNext \/ NameNext

SuiteSpec == SuiteInit /\ [][SuiteNext]_all

\* Threads, keys, snapshots and producers are interchangeable.
Symmetry == {t @@ k @@ n : t \in Permutations(Thread), k \in Permutations(Key),
                           n \in Permutations(Snapshots)} \cup Permutations(Producer)
-----------------------------------------------------------------------------
\* For all data, programs and names within the bounds of the constants, what is computed is
\* what the definition says.  FindEqualSumSubsets returns
\* two disjoint non-empty sets of indices of equal sum, and nothing only if there are
\* none; the interpreter accepts exactly the linear, well nested programs and computes
\* what running them line by line does; the checker reports exactly the names that break
\* their rule and the words that are near to a word of the dictionary.
ComputationsAgree == PA!SubsetsAgree /\ PR!ProgramsAgree /\ NA!NamesAgree
=============================================================================
