------------------------------ MODULE HashMap -------------------------------
(***************************************************************************)
(* hash-table/concurrent_hash_map.h: a table of sorted lists under striped *)
(* mutexes.  The table doubles, the mutexes do not: a list is guarded by   *)
(* the mutex of its index modulo the number of mutexes.  Clear and Rehash  *)
(* lock them all in order.  A key is its own hash; a thread inserts its    *)
(* own name.  Find changes nothing and is the operator Find.               *)
(***************************************************************************)
EXTENDS Integers, Sequences, SequencesExt, FiniteSets

CONSTANTS Thread, Keys, NoThread,
          kLoadFactor,          \* 2 in the code
          expected_size, expected_threads_count,
          MaxCalls              \* bound on the calls of all threads together

kUndefinedSize == -1
\* Division of integers truncates: -1 / 2 is 0 when expected_size is 0.
Quotient(n, d) == IF n >= 0 THEN n \div d ELSE -((-n) \div d)

lists_cnt == IF expected_size = kUndefinedSize THEN 4 * expected_threads_count
             ELSE (Quotient((Quotient(expected_size - 1, kLoadFactor) + 1) - 1, expected_threads_count) + 1)
                  * expected_threads_count

HashConstants == /\ Keys \subseteq Nat /\ kLoadFactor \in Nat \ {0} /\ NoThread \notin Thread
                 /\ lists_cnt \in Nat \ {0}

VARIABLES table_,               \* list_idx -> sequence of <<key, value>>
          mutexes_,             \* index -> the thread that holds it, or NoThread
          size_, is_rehashing_,
          pc, key, cursor,      \* of a thread: its place, argument, and loop index
          calls

vars == <<table_, mutexes_, size_, is_rehashing_, pc, key, cursor, calls>>

Init == /\ table_ = [i \in 0..(lists_cnt - 1) |-> <<>>]
        /\ mutexes_ = [i \in 0..(lists_cnt - 1) |-> NoThread]
        /\ size_ = 0 /\ is_rehashing_ = FALSE
        /\ pc = [t \in Thread |-> "idle"] /\ key = [t \in Thread |-> 0]
        /\ cursor = [t \in Thread |-> 0] /\ calls = 0

Count(f) == Cardinality(DOMAIN f)
mutex_idx(k) == k % Count(mutexes_)

\* The first position whose key is not below k, one past the end if there is none.
FindPosInList(list, k) ==
    CHOOSE p \in 1..(Len(list) + 1) : /\ p <= Len(list) => list[p][1] >= k
                                      /\ \A q \in 1..(p - 1) : list[q][1] < k
Has(list, k) == LET p == FindPosInList(list, k) IN p <= Len(list) /\ list[p][1] = k
InsertIntoList(list, elem) ==
    IF Has(list, elem[1]) THEN list ELSE InsertAt(list, FindPosInList(list, elem[1]), elem)
EraseFromList(list, k) ==
    IF Has(list, k) THEN RemoveAt(list, FindPosInList(list, k)) ELSE list

List(table, k) == table[k % Count(table)]
Find(k) == LET l == List(table_, k) IN
           IF Has(l, k) THEN l[FindPosInList(l, k)][2] ELSE NoThread

RehashedInPlace(table) ==       \* mutant: the table grows and its elements stay
    [i \in 0..(2 * Count(table) - 1) |-> IF i < Count(table) THEN table[i] ELSE <<>>]

\* What becomes of list i in a table of m lists: its elements in turn stay or are
\* moved to the list of their hash, which is i + m / 2.
Split(list, i, m) ==
    LET after[p \in 0..Len(list)] ==
            IF p = 0 THEN [stay |-> list, go |-> <<>>]
            ELSE IF list[p][1] % m = i THEN after[p - 1]
            ELSE [stay |-> EraseFromList(after[p - 1].stay, list[p][1]),
                  go |-> InsertIntoList(after[p - 1].go, list[p])]
    IN  after[Len(list)]

\* The doubled table.
Rehashed(table) ==
    LET n == Count(table)
    IN  [i \in 0..(2 * n - 1) |-> IF i < n THEN Split(table[i], i, 2 * n).stay
                                  ELSE Split(table[i - n], i - n, 2 * n).go]

Begin(t, k) == /\ calls < MaxCalls /\ calls' = calls + 1
               /\ key' = [key EXCEPT ![t] = k] /\ cursor' = [cursor EXCEPT ![t] = 0]
Goto(t, from, to) == pc[t] = from /\ pc' = [pc EXCEPT ![t] = to]

Insert(t) == \E k \in Keys :
    /\ Begin(t, k) /\ Goto(t, "idle", "check") /\ mutexes_[mutex_idx(k)] = NoThread
    /\ mutexes_' = [mutexes_ EXCEPT ![mutex_idx(k)] = t]
    /\ table_' = [table_ EXCEPT ![k % Count(table_)] = InsertIntoList(@, <<k, t>>)]
    /\ size_' = IF Has(List(table_, k), k) THEN size_ ELSE size_ + 1
    /\ UNCHANGED is_rehashing_

InsertCheck(t) ==
    /\ Goto(t, "check", IF size_ \div Count(table_) > kLoadFactor THEN "flag" ELSE "idle")
    /\ mutexes_' = [mutexes_ EXCEPT ![mutex_idx(key[t])] = NoThread]
    /\ UNCHANGED <<table_, size_, is_rehashing_, key, cursor, calls>>

InsertTestAndSet(t) ==
    /\ Goto(t, "flag", IF is_rehashing_ THEN "idle" ELSE "rehash") /\ is_rehashing_' = TRUE
    /\ UNCHANGED <<table_, mutexes_, size_, key, cursor, calls>>

Erase(t) == \E k \in Keys :
    /\ Begin(t, k) /\ Goto(t, "idle", "idle") /\ mutexes_[mutex_idx(k)] = NoThread
    /\ table_' = [table_ EXCEPT ![k % Count(table_)] = EraseFromList(@, k)]
    /\ size_' = IF Has(List(table_, k), k) THEN size_ - 1 ELSE size_
    /\ UNCHANGED <<mutexes_, is_rehashing_>>

Clear(t) == Begin(t, 0) /\ Goto(t, "idle", "clear") /\ UNCHANGED <<table_, mutexes_, size_, is_rehashing_>>

LockNextBackwards(t) ==         \* mutant: Rehash starts with the last mutex
    LET i == IF pc[t] = "rehash" THEN Count(mutexes_) - 1 - cursor[t] ELSE cursor[t] IN
    /\ pc[t] \in {"clear", "rehash"} /\ cursor[t] < Count(mutexes_) /\ mutexes_[i] = NoThread
    /\ mutexes_' = [mutexes_ EXCEPT ![i] = t]
    /\ cursor' = [cursor EXCEPT ![t] = @ + 1]
    /\ UNCHANGED <<table_, size_, is_rehashing_, pc, key, calls>>

\* The loop over the mutexes of Clear and Rehash: one lock at a time, in order.
LockNext(t) ==
    /\ pc[t] \in {"clear", "rehash"} /\ cursor[t] < Count(mutexes_)
    /\ mutexes_[cursor[t]] = NoThread
    /\ mutexes_' = [mutexes_ EXCEPT ![cursor[t]] = t]
    /\ cursor' = [cursor EXCEPT ![t] = @ + 1]
    /\ UNCHANGED <<table_, size_, is_rehashing_, pc, key, calls>>

ClearAll(t) ==
    /\ cursor[t] = Count(mutexes_) /\ Goto(t, "clear", "unlock")
    /\ table_' = [i \in DOMAIN table_ |-> <<>>] /\ size_' = 0
    /\ UNCHANGED <<mutexes_, is_rehashing_, key, cursor, calls>>

Rehash(t) ==
    /\ cursor[t] = Count(mutexes_) /\ Goto(t, "rehash", "rehashed")
    /\ table_' = Rehashed(table_)
    /\ UNCHANGED <<mutexes_, size_, is_rehashing_, key, cursor, calls>>

\* The mutexes are unlocked from the last to the first; then Insert clears the flag.
UnlockNext(t) ==
    /\ pc[t] \in {"unlock", "rehashed"}
    /\ \/ /\ cursor[t] > 0 /\ cursor' = [cursor EXCEPT ![t] = @ - 1]
          /\ mutexes_' = [mutexes_ EXCEPT ![cursor[t] - 1] = NoThread]
          /\ UNCHANGED <<pc, is_rehashing_>>
       \/ /\ cursor[t] = 0 /\ pc' = [pc EXCEPT ![t] = "idle"]
          /\ is_rehashing_' = (is_rehashing_ /\ pc[t] = "unlock")
          /\ UNCHANGED <<mutexes_, cursor>>
    /\ UNCHANGED <<table_, size_, key, calls>>

Inside(t) == \/ InsertCheck(t) \/ InsertTestAndSet(t) \/ LockNext(t)
             \/ ClearAll(t) \/ Rehash(t) \/ UnlockNext(t)

Next == \E t \in Thread : Insert(t) \/ Erase(t) \/ Clear(t) \/ Inside(t)

Spec == Init /\ [][Next]_vars
-----------------------------------------------------------------------------
Elements == UNION {{table_[i][p] : p \in 1..Len(table_[i])} : i \in DOMAIN table_}

\* Whatever inserts, erases, clears and rehashings overlap, Find reaches exactly
\* the elements in the table, no key is there twice, and size_ counts them: a
\* rehashing moves every element to the list its hash now names and loses none.
EveryKeyIsFound ==
    /\ \A e \in Elements : Find(e[1]) = e[2]
    /\ size_ = Cardinality(Elements)

\* A thread waits for a mutex that is taken.
Blocked(t) == /\ pc[t] \in {"clear", "rehash"} /\ cursor[t] < Count(mutexes_)
              /\ mutexes_[cursor[t]] # NoThread

\* Clear and Rehash, each taking every mutex, and inserts and erases, each taking
\* one, never wait for each other in a circle: a call under way can go on.
NobodyStuck == (\E t \in Thread : pc[t] # "idle")
                  => \E t \in Thread : pc[t] # "idle" /\ ~Blocked(t)
=============================================================================
