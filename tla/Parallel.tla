------------------------------ MODULE Parallel ------------------------------
(***************************************************************************)
(* The three data-parallel algorithms: IsPrime (is-prime/is_prime.cpp),    *)
(* FindEqualSumSubsets (subset-sum/find_subsets.cpp) and Reduce            *)
(* (reduce/reduce.h).  Each splits an interval over kThreadCnt threads,    *)
(* joins them and combines what they left behind; the first two also share *)
(* a flag that stops the others early.  A call's threads interleave at     *)
(* every access to the flag.  Only IsPrime leaves anything behind, its     *)
(* global flag: one caller makes up to MaxCalls calls of it, or one call   *)
(* of one of the others.                                                   *)
(***************************************************************************)
EXTENDS Integers, Sequences, FiniteSets, SequencesExt

CONSTANTS kThreadCnt,   \* 16, 8 and 16 in the code
          kMinShare,    \* a shorter share per thread is not worth a thread: 10, 8, 100
          Numbers,      \* what IsPrime is asked about
          Value,        \* the numbers in the data of FindEqualSumSubsets
          MaxSize,      \* bound on the size of that data
          Lengths,      \* the lengths of the ranges given to Reduce
          MaxCalls      \* bound on the number of calls of IsPrime

VARIABLES job,     \* the algorithm that is called
          input,   \* its argument
          flag,    \* is_not_prime (a global), combination_exists
          sums,    \* the map of ComputeSumMap
          next, end,   \* per thread: the loop's variable and its bound
          tpc,     \* per thread: "test", "check", "set", "store", "done"
          found,   \* per thread: what CheckChoice returned
          kept,    \* found_combination of FindSuitableCombination
          res,     \* per thread: the elements Reduce's partial result stands for
          result, main, calls

vars == <<job, input, flag, sums, next, end, tpc, found, kept, res, result, main, calls>>

ParallelConstants == /\ {kThreadCnt, kMinShare} \subseteq Nat \ {0}
                     /\ Numbers \subseteq Nat /\ Value \subseteq Int
                     /\ MaxSize \in Nat /\ MaxCalls \in Nat
                     /\ Lengths \subseteq Nat

Worker == 0 .. kThreadCnt - 1

Least(S) == CHOOSE x \in S : \A y \in S : x <= y

Alone(cnt) == cnt \div kThreadCnt < kMinShare

(* Mutant: the remainder of the division is nobody's share. *)
ShareWithoutRest(first, cnt, i) ==
    LET len == cnt \div kThreadCnt
    IN IF Alone(cnt)
       THEN <<IF i = 0 THEN first ELSE first + cnt, first + cnt>>
       ELSE <<first + i * len, first + (i + 1) * len>>

(* Thread i's share of cnt numbers from first on: <<start, end>>.  When the *)
(* shares would be too short the caller's own loop, thread 0 here, takes    *)
(* them all.                                                                *)
Share(first, cnt, i) ==
    LET len == cnt \div kThreadCnt
        more == cnt % kThreadCnt
        start(j) == first + j * len + Least({j, more})
    IN IF Alone(cnt)
       THEN <<IF i = 0 THEN first ELSE first + cnt, first + cnt>>
       ELSE <<start(i), start(i + 1)>>

-----------------------------------------------------------------------------
(* find_subsets.cpp: a choice is a set of indices, a variant a sign for     *)
(* each of them, both the bits of a number.                                 *)
Bit(n, i) == (n \div 2 ^ i) % 2
Complement(n) == 2 ^ MaxSize - 1 - n

MakeIndicesFromChoice(choice, start_index) ==
    LET bits == SetToSortSeq({i \in 0 .. MaxSize - 1 : Bit(choice, i) = 1}, <)
    IN [j \in DOMAIN bits |-> bits[j] + start_index]

Variants(indices) == 0 .. 2 ^ (Len(indices) - 1) - 1

ComputeSum(data, indices, variant) ==
    LET term(j) == IF Bit(variant, j - 1) = 1 THEN data[indices[j]] ELSE - data[indices[j]]
    IN [sum |-> FoldLeft(LAMBDA a, b : a + b, 0, [j \in DOMAIN indices |-> term(j)]),
        two |-> \E i, j \in DOMAIN indices : Bit(variant, i - 1) # Bit(variant, j - 1)]

MakeSubsets(comb, start_index) ==
    LET indices == MakeIndicesFromChoice(comb.choice, start_index)
        group(b) == {indices[j] : j \in {i \in DOMAIN indices : Bit(comb.variant, i - 1) = b}}
    IN <<group(1), group(0)>>

MergeCombinations(first, second, start_index) ==
    [g \in 1 .. 2 |-> MakeSubsets(first, 0)[g] \cup MakeSubsets(second, start_index)[g]]

(* The sums of the first k numbers: the first combination of each sum, or   *)
(* the first that has numbers of both signs; a zero of both signs ends it.  *)
ComputeSumMap(data, k) ==
    LET all == UNION {{c} \X Variants(MakeIndicesFromChoice(c, 0)) : c \in 1 .. 2 ^ k - 1}
        of == [p \in all |-> ComputeSum(data, MakeIndicesFromChoice(p[1], 0), p[2])]
        rank(p) == p[1] * 2 ^ k + p[2]
        stop == {q \in all : of[q].sum = 0 /\ of[q].two}
        tried == {p \in all : \A q \in stop : rank(p) <= rank(q)}
        best(s) == LET same == {p \in tried : of[p].sum = s}
                       better(p) == of[p].two \/ \A q \in same : ~of[q].two
                   IN CHOOSE p \in same : better(p) /\ \A q \in same : better(q) => rank(p) <= rank(q)
    IN [s \in {of[p].sum : p \in tried} |->
           LET p == best(s) IN [choice |-> p[1], variant |-> p[2], hasTwoGroups |-> of[p].two]]

(* A choice of the other numbers against the map: what its first variant    *)
(* that fits yields, two combinations, or <<>>.                             *)
CheckChoice(data, map, choice, start_index) ==
    LET indices == MakeIndicesFromChoice(choice, start_index)
        hit(i, of) ==
            LET comb(v) == [choice |-> choice, variant |-> v, hasTwoGroups |-> of.two]
                fits(s, v) == /\ s \in DOMAIN map
                              /\ of.two \/ map[s].hasTwoGroups \/ Bit(map[s].variant, 0) # Bit(v, 0)
            IN IF fits(of.sum, Complement(i)) THEN <<map[of.sum], comb(Complement(i))>>
               ELSE IF fits(- of.sum, i) THEN <<map[- of.sum], comb(i)>>
               ELSE IF of.sum = 0 /\ of.two THEN <<[choice |-> 0, variant |-> 0, hasTwoGroups |-> FALSE], comb(i)>>
               ELSE <<>>
        hits == SelectSeq([j \in 1 .. Cardinality(Variants(indices)) |-> hit(j - 1, ComputeSum(data, indices, j - 1))],
                          LAMBDA h : h # <<>>)
    IN IF hits = <<>> THEN <<>> ELSE hits[1]

size(data) == Cardinality(DOMAIN data)
Half(data) == IF size(data) > 2 THEN size(data) \div 2 ELSE 1

(* The choices of the other numbers are 1 .. choices_cnt - 1. *)
choices_cnt(data) == 2 ^ (size(data) - Half(data))

-----------------------------------------------------------------------------
Root(x) == CHOOSE r \in 0 .. x : r * r <= x /\ (r + 1) * (r + 1) > x
Bound(x) == Least({Root(x) + 6, x})

Init == /\ job = "prime" /\ input = 0 /\ flag = FALSE
        /\ sums = <<>> /\ kept = <<>>
        /\ next = [t \in Worker |-> 0] /\ end = [t \in Worker |-> 0]
        /\ tpc = [t \in Worker |-> "done"] /\ found = [t \in Worker |-> <<>>]
        /\ res = [t \in Worker |-> {}]
        /\ result = FALSE /\ main = "idle" /\ calls = 0

Call(j, x) == /\ main = "idle"
              /\ calls = 0 \/ (job = "prime" /\ j = "prime" /\ calls < MaxCalls)
              /\ calls' = calls + 1
              /\ job' = j /\ input' = x

Return(r) == result' = r /\ main' = "idle"

(* The threads are started on cnt numbers from first on. *)
Start(first, cnt) ==
    /\ next' = [t \in Worker |-> Share(first, cnt, t)[1]]
    /\ end' = [t \in Worker |-> Share(first, cnt, t)[2]]
    /\ tpc' = [t \in Worker |-> "test"]
    /\ main' = "join" /\ UNCHANGED <<result, found>>

NotStarted == UNCHANGED <<next, end, tpc, found>>

CallIsPrime(x) ==
    /\ Call("prime", x)
    /\ \/ x < 2 /\ Return(FALSE) /\ NotStarted /\ UNCHANGED flag
       \/ x >= 2 /\ flag' = FALSE /\ Start(2, Bound(x) - 2)
    /\ UNCHANGED <<sums, kept, res>>

FoundInMap == 0 \in DOMAIN sums /\ sums[0].hasTwoGroups

(* FindEqualSumSubsets up to the threads of FindSuitableCombination. *)
CallFindEqualSumSubsets(data) ==
    /\ Call("subsets", data)
    /\ \/ /\ size(data) < 2
          /\ Return(<<>>) /\ NotStarted /\ UNCHANGED <<flag, sums, kept>>
       \/ /\ size(data) >= 2
          /\ sums' = ComputeSumMap(data, Half(data))
          /\ IF FoundInMap'
             THEN Return(MakeSubsets(sums'[0], 0)) /\ NotStarted /\ UNCHANGED <<flag, kept>>
             ELSE flag' = FALSE /\ kept' = <<>> /\ Start(1, choices_cnt(data) - 1)
    /\ UNCHANGED res

CallReduce(len) ==
    /\ Call("reduce", len)
    /\ res' = [t \in Worker |-> {}]
    /\ Start(0, len)
    /\ UNCHANGED <<flag, sums, kept>>

Goto(t, where) == tpc' = [tpc EXCEPT ![t] = where]

(* The head of the loops of ThreadFunc and ThreadCheckChoices. *)
Test(t) ==
    /\ job \in {"prime", "subsets"} /\ tpc[t] = "test"
    /\ Goto(t, IF next[t] < end[t] /\ ~flag THEN "check" ELSE "done")
    /\ UNCHANGED <<job, input, flag, sums, next, end, found, kept, res, result, main, calls>>

(* A divisor, or the combinations that fit a choice. *)
Divisor(d) == IF input % d = 0 THEN <<d>> ELSE <<>>
Fitting(choice) == CheckChoice(input, sums, choice, Half(input))

Check(t) ==
    LET hit == IF job = "prime" THEN Divisor(next[t]) ELSE Fitting(next[t])
    IN /\ tpc[t] = "check"
       /\ found' = [found EXCEPT ![t] = hit]
       /\ next' = [next EXCEPT ![t] = @ + 1]
       /\ Goto(t, IF hit # <<>> THEN "set" ELSE "test")
       /\ UNCHANGED <<job, input, flag, sums, end, kept, res, result, main, calls>>

TestAndSet(t) ==
    /\ tpc[t] = "set"
    /\ flag' = TRUE
    /\ Goto(t, IF job = "subsets" /\ ~flag THEN "store" ELSE "done")
    /\ UNCHANGED <<job, input, sums, next, end, found, kept, res, result, main, calls>>

Store(t) ==
    /\ tpc[t] = "store"
    /\ kept' = found[t]
    /\ Goto(t, "done")
    /\ UNCHANGED <<job, input, flag, sums, next, end, found, res, result, main, calls>>

(* reduce_func: the elements of the share, combined, go to the thread's slot. *)
ReduceShare(t) ==
    /\ job = "reduce" /\ tpc[t] = "test"
    /\ res' = [res EXCEPT ![t] = next[t] .. end[t] - 1]
    /\ Goto(t, "done")
    /\ UNCHANGED <<job, input, flag, sums, next, end, found, kept, result, main, calls>>

(* Reduce's argument init goes into the last std::reduce, or the only one:  *)
(* element -1 of the result.                                                *)
Initial == -1

(* All threads joined: what the call returns.  The result of Reduce is how  *)
(* often each element went into it.                                         *)
Outcome ==
    CASE job = "prime" -> ~flag
      [] job = "subsets" -> IF kept = <<>> THEN <<>>
                            ELSE MergeCombinations(kept[1], kept[2], Half(input))
      [] job = "reduce" -> [e \in {Initial} \cup UNION {res[t] : t \in Worker} |->
                               Cardinality({t \in Worker : e \in res[t]})
                               + (IF e = Initial THEN 1 ELSE 0)]

Join == /\ main = "join"
        /\ \A t \in Worker : tpc[t] = "done"
        /\ Return(Outcome)
        /\ UNCHANGED <<job, input, flag, sums, next, end, tpc, found, kept, res, calls>>

Done == main = "idle" /\ calls > 0 /\ UNCHANGED vars

Next == \/ \E x \in Numbers : CallIsPrime(x)
        \/ \E n \in 0 .. MaxSize : \E data \in [0 .. n - 1 -> Value] :
              CallFindEqualSumSubsets(data)
        \/ \E len \in Lengths : CallReduce(len)
        \/ \E t \in Worker : Test(t) \/ Check(t) \/ TestAndSet(t) \/ Store(t) \/ ReduceShare(t)
        \/ Join
        \/ Done

Spec == Init /\ [][Next]_vars

-----------------------------------------------------------------------------
Equal(data, A, B) == LET sum(S) == FoldLeft(LAMBDA a, b : a + b, 0,
                                            [j \in 1 .. MaxSize |->
                                                IF j - 1 \in S THEN data[j - 1] ELSE 0])
                     IN A # {} /\ B # {} /\ A \cap B = {} /\ sum(A) = sum(B)

Returned(j) == main = "idle" /\ calls > 0 /\ job = j

(* IsPrime is primality, whatever the call before it left in the flag. *)
PrimesAgree == Returned("prime") =>
    result = (input > 1 /\ \A d \in 2 .. input - 1 : input % d # 0)

(* Reduce combines init and every element exactly once. *)
ReduceAgrees == Returned("reduce") => result = [e \in Initial .. input - 1 |-> 1]

(* Unless the map alone has an answer, the threads of                       *)
(* FindSuitableCombination together try every choice: they find nothing     *)
(* only if none fits, and what is returned is one that does, whole.         *)
SearchAgrees ==
    Returned("subsets") /\ size(input) >= 2 /\ ~FoundInMap =>
        IF result = <<>> THEN \A c \in 1 .. choices_cnt(input) - 1 : Fitting(c) = <<>>
        ELSE \E c \in 1 .. choices_cnt(input) - 1 :
                /\ Fitting(c) # <<>>
                /\ result = MergeCombinations(Fitting(c)[1], Fitting(c)[2], Half(input))

(* found_combination has no mutex: of the threads that found something only *)
(* one, the one that raised the flag, ever writes it, and writes it once.   *)
OnePublishes == \A t \in Worker : tpc[t] = "store" =>
    kept = <<>> /\ \A u \in Worker : tpc[u] = "store" => u = t

(* What the threads of a call find together is what one loop over the whole *)
(* interval finds, however they are interleaved.                            *)
ThreadsAgree == PrimesAgree /\ ReduceAgrees /\ SearchAgrees /\ OnePublishes

(* FindEqualSumSubsets finds two disjoint non-empty sets of indices of      *)
(* equal sum, and finds nothing only if there are none.                     *)
SubsetsAgree == Returned("subsets") =>
    IF result = <<>>
    THEN \A A, B \in SUBSET DOMAIN input : ~Equal(input, A, B)
    ELSE Equal(input, result[1], result[2])
=============================================================================
