-------------------------- MODULE Structures_proofs --------------------------
(***************************************************************************)
(* For every number of threads, keys and nodes: the sums of the rw-counter *)
(* are current, the mpsc-queue and the sync-map are linearizable, the      *)
(* concurrent hash map finds every key while its threads never all wait    *)
(* for each other, and the threads of the data-parallel algorithms         *)
(* together find what one loop would.                                      *)
(***************************************************************************)
EXTENDS Structures, Stack_proofs

-----------------------------------------------------------------------------
\* The sums of the first counters, for any of them.
SumRule(c, f) == f = [n \in 0..Len(c) |-> IF n = 0 THEN 0 ELSE f[n - 1] + c[n]]
Sums(c) == CHOOSE f : SumRule(c, f)

SumUpto(c, m, f) == f[0] = 0 /\ \A k \in 1..m : f[k] = f[k - 1] + c[k]

\* They are defined.
LEMMA SumsExist ==
  ASSUME NEW c \in Seq(Nat)
  PROVE  \E f : SumRule(c, f) /\ f \in [0..Len(c) -> Nat]
<1> DEFINE N == Len(c)
           Upto(m) == \E f \in [0..m -> Nat] : SumUpto(c, m, f)
           T == {m \in Nat : m <= N => Upto(m)}
<1>0. N \in Nat /\ \A k \in 1..N : c[k] \in Nat
      OBVIOUS
<1> HIDE DEF N
<1>1. 0 \in T
  <2>1. PICK f \in [0..0 -> Nat] : f = [k \in 0..0 |-> 0]
        OBVIOUS
  <2>2. SumUpto(c, 0, f)
        BY <2>1 DEF SumUpto
  <2>3. Upto(0)
        BY <2>2
  <2> HIDE DEF Upto
  <2> QED BY <2>3
<1>2. ASSUME NEW m \in Nat, m \in T PROVE m + 1 \in T
  <2> SUFFICES ASSUME m + 1 <= N PROVE Upto(m + 1)
    <3> HIDE DEF Upto
    <3> QED OBVIOUS
  <2>0. Upto(m)
    <3> HIDE DEF Upto
    <3> QED BY <1>0, <1>2
  <2>1. PICK f \in [0..m -> Nat] : f[0] = 0 /\ \A k \in 1..m : f[k] = f[k - 1] + c[k]
        BY <2>0 DEF SumUpto
  <2> DEFINE g == [k \in 0..(m + 1) |-> IF k <= m THEN f[k] ELSE f[m] + c[m + 1]]
  <2>2. g \in [0..(m + 1) -> Nat]
    <3>1. f[m] \in Nat /\ c[m + 1] \in Nat
          BY <1>0
    <3>2. f[m] + c[m + 1] \in Nat
          BY <3>1
    <3>3. \A k \in 0..(m + 1) : (IF k <= m THEN f[k] ELSE f[m] + c[m + 1]) \in Nat
          BY <3>2
    <3> QED BY <3>3
  <2>3. g[0] = 0
        BY <2>1
  <2>4. ASSUME NEW k \in 1..(m + 1) PROVE g[k] = g[k - 1] + c[k]
    <3>1. k - 1 \in 0..m /\ g[k - 1] = f[k - 1]
          OBVIOUS
    <3>2. CASE k <= m
      <4>1. k \in 1..m /\ g[k] = f[k]
            BY <3>2
      <4> HIDE DEF g
      <4> QED BY <2>1, <3>1, <4>1
    <3>3. CASE k = m + 1
          BY <3>1, <3>3
    <3> QED BY <3>2, <3>3
  <2> HIDE DEF g
  <2> QED BY <2>2, <2>3, <2>4 DEF SumUpto
<1> HIDE DEF T
<1>3. Nat \subseteq T
      BY <1>1, <1>2, Induction
<1>4. Upto(N)
  <2> HIDE DEF Upto
  <2> QED BY <1>0, <1>3 DEF T
<1>5. PICK f \in [0..N -> Nat] : f[0] = 0 /\ \A k \in 1..N : f[k] = f[k - 1] + c[k]
      BY <1>4 DEF SumUpto
<1>6. f = [n \in 0..N |-> IF n = 0 THEN 0 ELSE f[n - 1] + c[n]]
  <2>1. \A n \in 0..N : f[n] = IF n = 0 THEN 0 ELSE f[n - 1] + c[n]
        BY <1>0, <1>5
  <2>2. f = [n \in 0..N |-> f[n]]
        OBVIOUS
  <2> QED BY <2>1, <2>2
<1> QED BY <1>6 DEF SumRule, N

\* What they are.
LEMMA SumsAre ==
  ASSUME NEW c \in Seq(Nat)
  PROVE  /\ \A k \in 0..Len(c) : Sums(c)[k] \in Nat
         /\ Sums(c)[0] = 0
         /\ \A k \in 1..Len(c) : Sums(c)[k] = Sums(c)[k - 1] + c[k]
<1> DEFINE f == Sums(c)  N == Len(c)
<1>0. N \in Nat /\ \A k \in 1..N : c[k] \in Nat
      OBVIOUS
<1>1. SumRule(c, f)
  <2>1. \E g : SumRule(c, g)
        BY SumsExist
  <2> QED BY <2>1 DEF Sums
<1>2. f = [n \in 0..N |-> IF n = 0 THEN 0 ELSE f[n - 1] + c[n]]
  <2> HIDE DEF f
  <2> QED BY <1>1 DEF SumRule
<1> HIDE DEF f, N
<1>3. f[0] = 0 /\ \A k \in 1..N : f[k] = f[k - 1] + c[k]
      BY <1>0, <1>2
<1> DEFINE T == {k \in Nat : k <= N => f[k] \in Nat}
<1>4. 0 \in T
      BY <1>3
<1>5. ASSUME NEW k \in Nat, k \in T PROVE k + 1 \in T
  <2> SUFFICES ASSUME k + 1 <= N PROVE f[k + 1] \in Nat
      OBVIOUS
  <2>1. k + 1 \in 1..N /\ f[k] \in Nat /\ (k + 1) - 1 = k
        BY <1>0, <1>5
  <2> QED BY <1>0, <1>3, <2>1
<1> HIDE DEF T
<1>6. Nat \subseteq T
      BY <1>4, <1>5, Induction
<1>7. \A k \in 0..N : f[k] \in Nat
      BY <1>0, <1>6 DEF T
<1> QED BY <1>3, <1>7 DEF f, N

\* What a sequence of numbers has.
LEMMA SeqOfNat ==
  ASSUME NEW c \in Seq(Nat)
  PROVE  Len(c) \in Nat /\ \A k \in 1..Len(c) : c[k] \in Nat
OBVIOUS

\* One more in one counter is one more in the sums that count it.
LEMMA SumsGrow ==
  ASSUME NEW c \in Seq(Nat), NEW j \in 1..Len(c), NEW d \in Seq(Nat), Len(d) = Len(c),
         \A k \in 1..Len(c) : d[k] = IF k = j THEN c[k] + 1 ELSE c[k]
  PROVE  \A k \in 0..Len(c) : Sums(d)[k] = IF k < j THEN Sums(c)[k] ELSE Sums(c)[k] + 1
<1> DEFINE f == Sums(c)  g == Sums(d)  N == Len(c)
<1>0. N \in Nat /\ \A k \in 1..N : c[k] \in Nat
      BY SeqOfNat
<1>1. /\ \A k \in 0..N : f[k] \in Nat
      /\ f[0] = 0 /\ \A k \in 1..N : f[k] = f[k - 1] + c[k]
  <2> HIDE DEF f
  <2> QED BY SumsAre DEF f
<1>2. g[0] = 0 /\ \A k \in 1..N : g[k] = g[k - 1] + d[k]
  <2> HIDE DEF g
  <2> QED BY SumsAre DEF g
<1>3. j \in 1..N /\ \A k \in 1..N : d[k] = IF k = j THEN c[k] + 1 ELSE c[k]
      OBVIOUS
<1> HIDE DEF f, g, N
<1> DEFINE T == {k \in Nat : k <= N => g[k] = IF k < j THEN f[k] ELSE f[k] + 1}
<1>4. 0 \in T
      BY <1>0, <1>1, <1>2, <1>3
<1>5. ASSUME NEW k \in Nat, k \in T PROVE k + 1 \in T
  <2> SUFFICES ASSUME k + 1 <= N PROVE g[k + 1] = IF k + 1 < j THEN f[k + 1] ELSE f[k + 1] + 1
      OBVIOUS
  <2>1. k + 1 \in 1..N /\ k \in 0..N /\ (k + 1) - 1 = k
        BY <1>0
  <2>2. g[k + 1] = g[k] + d[k + 1] /\ f[k + 1] = f[k] + c[k + 1]
        BY <1>1, <1>2, <2>1
  <2>3. g[k] = IF k < j THEN f[k] ELSE f[k] + 1
        BY <1>0, <1>5
  <2>4. d[k + 1] = IF k + 1 = j THEN c[k + 1] + 1 ELSE c[k + 1]
        BY <1>3, <2>1
  <2>5. f[k] \in Nat /\ c[k + 1] \in Nat
        BY <1>0, <1>1, <2>1
  <2> QED BY <1>3, <2>2, <2>3, <2>4, <2>5
<1> HIDE DEF T
<1>6. Nat \subseteq T
      BY <1>4, <1>5, Induction
<1>7. \A k \in 0..N : g[k] = IF k < j THEN f[k] ELSE f[k] + 1
      BY <1>0, <1>6 DEF T
<1> QED BY <1>7 DEF f, g, N

\* Total of the model is the last of these sums.
LEMMA TotalIsSum == CN!Total = Sums(counters_)[Len(counters_)]
  BY DEF CN!Total, Sums, SumRule

\* The writers that are counted, and those that have a counter.
Ready == {t \in Writer : counterPc[t] = "ready"}
Placed == {t \in Writer : counterPc[t] \in {"count", "ready"}}

CounterType ==
    /\ counters_ \in Seq(Nat) /\ threads_cnt_ \in Nat
    /\ counterPc \in [Writer -> {"start", "move", "count", "ready"}]
    /\ mine \in [Writer -> Nat] /\ counterMutex \in Writer \cup {CN!Nobody}
    /\ reading \in [on : BOOLEAN, i : Nat, res : Nat \cup {Undefined}]
    /\ low \in Nat /\ quiet \in BOOLEAN

\* Who has the mutex, a counter, and is counted.
Places ==
    /\ \A t \in Writer : counterPc[t] = "move" <=> counterMutex = t
    /\ IsFiniteSet(Placed) /\ Len(counters_) = Cardinality(Placed)
    /\ IsFiniteSet(Ready) /\ threads_cnt_ = Cardinality(Ready)
    /\ \A t \in Placed : mine[t] \in 1..Len(counters_)

\* A sum under way, undisturbed: what it has counted is not more than the counters it
\* has read hold, and with the rest not less than all held at the start.
Tally ==
    reading.on /\ quiet =>
        /\ CN!Registering = {} /\ reading.res \in Nat /\ reading.i <= threads_cnt_
        /\ reading.res <= Sums(counters_)[reading.i]
        /\ low <= reading.res + (Sums(counters_)[Len(counters_)] - Sums(counters_)[reading.i])

CounterInv == CounterType /\ Places /\ Tally

\* Before the first thread takes an incrementer.
LEMMA CounterInit == CN!Init => CounterInv
<1> SUFFICES ASSUME CN!Init PROVE CounterInv
    OBVIOUS
<1> USE StructureConstants DEF CN!Init, CN!CounterConstants, CN!Nobody
<1>1. CounterType
      BY DEF CounterType
<1>2. Placed = {} /\ Ready = {}
      BY DEF Placed, Ready
<1>3. Places
      BY <1>2, FS_EmptySet DEF Places
<1>4. Tally
      BY DEF Tally
<1> QED BY <1>1, <1>3, <1>4 DEF CounterInv

\* While nobody registers every counter is counted and nobody has the mutex.
LEMMA AllCounted ==
  ASSUME CounterInv, CN!Registering = {}
  PROVE  threads_cnt_ = Len(counters_) /\ counterMutex = CN!Nobody
<1>1. Placed = Ready
      BY DEF CounterInv, CounterType, CN!Registering, Placed, Ready
<1>2. counterMutex \notin Writer
      BY DEF CounterInv, Places, CN!Registering
<1> QED BY <1>1, <1>2 DEF CounterInv, CounterType, Places

\* Counted counters are there.
LEMMA CountedAreThere ==
  ASSUME CounterInv
  PROVE  threads_cnt_ <= Len(counters_)
<1>1. Ready \subseteq Placed
      BY DEF Ready, Placed
<1>2. Cardinality(Ready) <= Cardinality(Placed)
      BY <1>1, FS_Subset DEF CounterInv, Places
<1> QED BY <1>2 DEF CounterInv, Places

\* Every step keeps the invariant.
LEMMA CounterStep == CounterInv /\ [CN!Next]_CN!vars => CounterInv'
<1> SUFFICES ASSUME CounterInv, [CN!Next]_CN!vars PROVE CounterInv'
    OBVIOUS
<1>0. CN!Nobody \notin Writer /\ Undefined \notin Nat
      BY StructureConstants DEF CN!CounterConstants
<1> USE DEF CounterInv, CounterType, Places, Tally
<1>1. ASSUME NEW t \in Writer, CN!GetIncrementer(t) PROVE CounterInv'
  <2>1. /\ counterPc[t] = "start" /\ counterMutex = CN!Nobody /\ counterMutex' = t /\ ~quiet'
        /\ counterPc' = [counterPc EXCEPT ![t] = "move"] /\ quiet' \in BOOLEAN
        /\ UNCHANGED <<counters_, threads_cnt_, mine, reading, low, reads>>
        BY <1>1 DEF CN!GetIncrementer
  <2>2. Placed' = Placed /\ Ready' = Ready
        BY <2>1 DEF Placed, Ready
  <2>3. CounterType'
        BY <2>1
  <2>4. Places'
        BY <1>0, <2>1, <2>2
  <2> QED BY <2>1, <2>3, <2>4
<1>2. ASSUME NEW t \in Writer, CN!EmplaceBack(t) PROVE CounterInv'
  <2>1. /\ counterPc[t] = "move" /\ counterMutex' = CN!Nobody
        /\ counterPc' = [counterPc EXCEPT ![t] = "count"]
        /\ counters_' = Append(counters_, 0) /\ mine' = [mine EXCEPT ![t] = Len(counters_) + 1]
        /\ UNCHANGED <<threads_cnt_, reading, low, quiet, reads>>
        BY <1>2 DEF CN!EmplaceBack
  <2>2. Placed' = Placed \cup {t} /\ t \notin Placed /\ Ready' = Ready
        BY <2>1 DEF Placed, Ready
  <2>3. counters_' \in Seq(Nat) /\ Len(counters_') = Len(counters_) + 1 /\ Len(counters_) \in Nat
        BY <2>1
  <2>4. CounterType'
        BY <2>1, <2>3
  <2>5. IsFiniteSet(Placed') /\ Cardinality(Placed') = Cardinality(Placed) + 1
        BY <2>2, FS_AddElement
  <2>6. \A u \in Placed' : mine'[u] \in 1..Len(counters_')
    <3>1. mine'[t] = Len(counters_) + 1 /\ \A u \in Writer : u # t => mine'[u] = mine[u]
          BY <2>1
    <3>2. \A u \in Placed : u # t /\ u \in Writer /\ mine[u] \in 1..Len(counters_)
          BY <2>2 DEF Placed
    <3>3. \A u \in Placed : mine'[u] \in 1..Len(counters_)
          BY <3>1, <3>2
    <3> HIDE DEF Places, CounterType
    <3>4. mine'[t] \in 1..Len(counters_')
          BY <2>3, <3>1
    <3>5. \A k \in 1..Len(counters_) : k \in 1..Len(counters_')
          BY <2>3
    <3> QED BY <2>2, <3>3, <3>4, <3>5
  <2>7. \A u \in Writer : counterPc'[u] = "move" <=> counterMutex' = u
        BY <1>0, <2>1
  <2>8. Places'
        BY <2>1, <2>2, <2>3, <2>5, <2>6, <2>7
  <2>9. ~(reading'.on /\ quiet')
    <3>1. t \in CN!Registering
          BY <2>1 DEF CN!Registering
    <3> QED BY <2>1, <3>1
  <2> QED BY <2>4, <2>8, <2>9
<1>3. ASSUME NEW t \in Writer, CN!CountThread(t) PROVE CounterInv'
  <2>1. /\ counterPc[t] = "count" /\ threads_cnt_' = threads_cnt_ + 1
        /\ counterPc' = [counterPc EXCEPT ![t] = "ready"]
        /\ UNCHANGED <<counters_, counterMutex, mine, reading, low, quiet, reads>>
        BY <1>3 DEF CN!CountThread
  <2>2. Ready' = Ready \cup {t} /\ t \notin Ready /\ Placed' = Placed
        BY <2>1 DEF Placed, Ready
  <2>3. CounterType'
        BY <2>1
  <2>4. IsFiniteSet(Ready') /\ Cardinality(Ready') = Cardinality(Ready) + 1
        BY <2>2, FS_AddElement
  <2>5. \A u \in Writer : counterPc'[u] = "move" <=> counterMutex' = u
        BY <2>1
  <2>6. Places'
        BY <2>1, <2>2, <2>4, <2>5
  <2>7. ~(reading'.on /\ quiet')
    <3>1. t \in CN!Registering
          BY <2>1 DEF CN!Registering
    <3> QED BY <2>1, <3>1
  <2> QED BY <2>3, <2>6, <2>7
<1>4. ASSUME NEW t \in Writer, CN!Increment(t) PROVE CounterInv'
  <2>1. /\ counterPc[t] = "ready" /\ counters_' = [counters_ EXCEPT ![mine[t]] = @ + 1]
        /\ UNCHANGED <<counterMutex, threads_cnt_, counterPc, mine, reading, low, quiet, reads>>
        BY <1>4 DEF CN!Increment
  <2>2. PICK j \in 1..Len(counters_) : j = mine[t]
        BY <2>1 DEF Placed
  <2>3. Placed' = Placed /\ Ready' = Ready /\ CN!Registering' = CN!Registering
        BY <2>1 DEF Placed, Ready, CN!Registering
  <2>4. /\ counters_' \in Seq(Nat) /\ Len(counters_') = Len(counters_)
        /\ \A k \in 1..Len(counters_) : counters_'[k] = IF k = j THEN counters_[k] + 1 ELSE counters_[k]
        BY <2>1, <2>2
  <2>5. CounterType' /\ Places'
        BY <2>1, <2>3, <2>4
  <2>6. \A k \in 0..Len(counters_) :
           Sums(counters_')[k] = IF k < j THEN Sums(counters_)[k] ELSE Sums(counters_)[k] + 1
        BY <2>4, SumsGrow
  <2>7. ASSUME reading.on, quiet
        PROVE  /\ reading.res <= Sums(counters_')[reading.i]
               /\ low <= reading.res + (Sums(counters_')[Len(counters_)] - Sums(counters_')[reading.i])
    <3> DEFINE N == Len(counters_)  i == reading.i  s == Sums(counters_)[i]  S == Sums(counters_)[N]
               r == reading.res
    <3>1. /\ N \in Nat /\ i \in 0..N /\ s \in Nat /\ S \in Nat /\ r \in Nat /\ low \in Nat
          /\ r <= s /\ low <= r + (S - s)
      <4>1. N \in Nat /\ i \in 0..N
            BY <2>7, CountedAreThere
      <4>2. s \in Nat /\ S \in Nat
            BY <4>1, SumsAre
      <4> QED BY <2>7, <4>1, <4>2
    <3>2. Sums(counters_')[i] = (IF i < j THEN s ELSE s + 1) /\ Sums(counters_')[N] = S + 1
      <4>1. N \in 0..Len(counters_) /\ i \in 0..Len(counters_) /\ ~(N < j)
            BY <3>1
      <4> QED BY <2>6, <4>1
    <3> HIDE DEF N, i, s, S, r
    <3>3. r <= Sums(counters_')[i] /\ low <= r + (Sums(counters_')[N] - Sums(counters_')[i])
          BY <3>1, <3>2
    <3> QED BY <3>3 DEF N, i, r
  <2>8. Tally'
        BY <2>1, <2>3, <2>4, <2>7
  <2> QED BY <2>5, <2>8
<1>5. ASSUME CN!GetValue PROVE CounterInv'
  <2>1. /\ reading' = [on |-> TRUE, i |-> 0, res |-> 0]
        /\ low' = CN!Total /\ quiet' = (CN!Registering = {})
        /\ UNCHANGED <<counters_, counterMutex, threads_cnt_, counterPc, mine>>
        BY <1>5 DEF CN!GetValue
  <2>2. Placed' = Placed /\ Ready' = Ready /\ CN!Registering' = CN!Registering
        BY <2>1 DEF Placed, Ready, CN!Registering
  <2>3. PICK N \in Nat : N = Len(counters_)
        OBVIOUS
  <2>4. low' = Sums(counters_)[N] /\ low' \in Nat /\ Sums(counters_)[0] = 0
        BY <2>1, <2>3, TotalIsSum, SumsAre
  <2>5. CounterType' /\ Places'
        BY <2>1, <2>2, <2>4
  <2>6. Tally'
        BY <2>1, <2>2, <2>3, <2>4
  <2> QED BY <2>5, <2>6
<1>6. ASSUME CN!LoadCounter PROVE CounterInv'
  <2>1. /\ reading.on /\ reading.i < threads_cnt_
        /\ reading' = [reading EXCEPT !.i = @ + 1,
                         !.res = IF counterMutex # CN!Nobody \/ @ = Undefined THEN Undefined
                                 ELSE @ + counters_[reading.i + 1]]
        /\ UNCHANGED <<counters_, counterMutex, threads_cnt_, counterPc, mine, low, quiet, reads>>
        BY <1>6 DEF CN!LoadCounter
  <2>2. Placed' = Placed /\ Ready' = Ready /\ CN!Registering' = CN!Registering
        BY <2>1 DEF Placed, Ready, CN!Registering
  <2> DEFINE i == reading.i  r == reading.res  N == Len(counters_)
             f == Sums(counters_)
  <2>3. N \in Nat /\ i \in Nat /\ i + 1 \in 1..N /\ i \in 0..N /\ counters_[i + 1] \in Nat
    <3>1. threads_cnt_ <= N
          BY CountedAreThere
    <3>2. N \in Nat /\ i \in Nat /\ i + 1 \in 1..N /\ i \in 0..N
          BY <2>1, <3>1
    <3> QED BY <3>2
  <2>4. /\ reading'.on = TRUE /\ reading'.i = i + 1
        /\ reading'.res = IF counterMutex # CN!Nobody \/ r = Undefined THEN Undefined
                                 ELSE r + counters_[i + 1]
        BY <2>1
  <2>5. reading'.res \in Nat \cup {Undefined} /\ reading' \in [on : BOOLEAN, i : Nat, res : Nat \cup {Undefined}]
    <3>1. r \in Nat \cup {Undefined} /\ (r # Undefined => r + counters_[i + 1] \in Nat)
          BY <2>3
    <3>2. (IF counterMutex # CN!Nobody \/ r = Undefined THEN Undefined ELSE r + counters_[i + 1]) \in Nat \cup {Undefined}
          BY <3>1
    <3>3. reading'.res \in Nat \cup {Undefined}
      <4> HIDE DEF r, i
      <4> QED BY <2>4, <3>2
    <3>4. i + 1 \in Nat
          BY <2>3
    <3>5. reading' = [on |-> reading'.on, i |-> reading'.i, res |-> reading'.res]
          BY <2>1
    <3> HIDE DEF r, i, N, f, Tally, Places
    <3> QED BY <2>4, <3>3, <3>4, <3>5
  <2>6. CounterType' /\ Places'
        BY <2>1, <2>2, <2>5
  <2>7. ASSUME quiet
        PROVE  /\ reading'.res \in Nat /\ reading'.i <= threads_cnt_ /\ reading'.res <= f[reading'.i]
               /\ low <= reading'.res + (f[N] - f[reading'.i])
    <3>1. CN!Registering = {} /\ r \in Nat /\ r <= f[i] /\ low <= r + (f[N] - f[i])
          BY <2>1, <2>7
    <3>2. counterMutex = CN!Nobody
          BY <3>1, AllCounted
    <3>3. reading'.res = r + counters_[i + 1]
          BY <1>0, <2>4, <3>1, <3>2
    <3>4. f[i + 1] = f[i] + counters_[i + 1] /\ f[i] \in Nat /\ f[N] \in Nat
      <4>1. /\ \A k \in 0..Len(counters_) : Sums(counters_)[k] \in Nat
            /\ \A k \in 1..Len(counters_) : Sums(counters_)[k] = Sums(counters_)[k - 1] + counters_[k]
            BY SumsAre
      <4>2. (i + 1) - 1 = i /\ N \in 0..Len(counters_)
            BY <2>3
      <4> QED BY <2>3, <4>1, <4>2
    <3>5. threads_cnt_ \in Nat /\ i + 1 <= threads_cnt_ /\ low \in Nat
          BY <2>1
    <3>6. PICK x \in Nat : x = counters_[i + 1]
          BY <2>3
    <3>7. PICK a \in Nat, b \in Nat : a = f[i] /\ b = f[N]
          BY <3>4
    <3>8. reading'.res = r + x /\ f[reading'.i] = a + x /\ r <= a /\ low <= r + (b - a) /\ r \in Nat /\ low \in Nat
      <4> HIDE DEF f, r, N, i, Tally, Places, CounterType
      <4> QED BY <2>4, <3>1, <3>3, <3>4, <3>5, <3>6, <3>7
    <3>9. r + x \in Nat /\ r + x <= a + x /\ low <= (r + x) + (b - (a + x))
      <4> HIDE DEF f, r, N, i, Tally, Places, CounterType
      <4> QED BY <3>8
    <3>10. reading'.i <= threads_cnt_
           BY <2>4, <3>5
    <3> HIDE DEF f, r, N, i, Tally, Places, CounterType
    <3> QED BY <3>7, <3>8, <3>9, <3>10
  <2>8. Tally'
        BY <2>1, <2>2, <2>7
  <2> QED BY <2>6, <2>8
<1>7. ASSUME CN!ReturnValue PROVE CounterInv'
  <2>1. /\ reading' = [reading EXCEPT !.on = FALSE]
        /\ UNCHANGED <<counters_, counterMutex, threads_cnt_, counterPc, mine, low, quiet, reads>>
        BY <1>7 DEF CN!ReturnValue
  <2>2. Placed' = Placed /\ Ready' = Ready
        BY <2>1 DEF Placed, Ready
  <2> QED BY <2>1, <2>2
<1>8. CASE UNCHANGED CN!vars
  <2>1. UNCHANGED <<counters_, counterMutex, threads_cnt_, counterPc, mine, reading, low, quiet>>
        BY <1>8 DEF CN!vars
  <2>2. Placed' = Placed /\ Ready' = Ready /\ CN!Registering' = CN!Registering
        BY <2>1 DEF Placed, Ready, CN!Registering
  <2> QED BY <2>1, <2>2
<1> QED BY <1>1, <1>2, <1>3, <1>4, <1>5, <1>6, <1>7, <1>8 DEF CN!Next

\* GetValue of the rw-counter never reads past the vector, and a call that no
\* registration overlaps returns a sum between the totals at its start and at its end,
\* for any number of threads, increments and calls.
THEOREM SumsAreCurrent == CN!Spec => SumIsCurrent
<1>1. CN!Spec => []CounterInv
      BY CounterInit, CounterStep, PTL DEF CN!Spec
<1>2. CounterInv => threads_cnt_ <= Len(counters_)
      BY CountedAreThere
<1>3. CounterInv /\ [CN!Next]_CN!vars
         => [reading.on /\ ~reading'.on /\ quiet => reading.res \in low..CN!Total]_CN!vars
  <2> SUFFICES ASSUME CounterInv, CN!Next, reading.on, ~reading'.on, quiet
               PROVE  reading.res \in low..CN!Total
      BY DEF CN!vars
  <2>1. reading.i >= threads_cnt_
    <3>1. ASSUME NEW t \in Writer,
                 CN!GetIncrementer(t) \/ CN!EmplaceBack(t) \/ CN!CountThread(t) \/ CN!Increment(t)
          PROVE  FALSE
          BY <3>1 DEF CN!GetIncrementer, CN!EmplaceBack, CN!CountThread, CN!Increment
    <3>2. ASSUME CN!GetValue \/ CN!LoadCounter PROVE FALSE
          BY <3>2 DEF CN!GetValue, CN!LoadCounter, CounterInv, CounterType
    <3> QED BY <3>1, <3>2 DEF CN!Next, CN!ReturnValue
  <2>2. /\ CN!Registering = {} /\ reading.res \in Nat /\ reading.i <= threads_cnt_
        /\ reading.res <= Sums(counters_)[reading.i]
        /\ low <= reading.res + (Sums(counters_)[Len(counters_)] - Sums(counters_)[reading.i])
        /\ reading.i \in Nat /\ threads_cnt_ \in Nat /\ low \in Nat /\ counters_ \in Seq(Nat)
        BY DEF CounterInv, Tally, CounterType
  <2>3. threads_cnt_ = Len(counters_) /\ reading.i = Len(counters_)
        BY <2>1, <2>2, AllCounted
  <2>4. Sums(counters_)[Len(counters_)] \in Nat
        BY <2>2, SumsAre
  <2>5. CN!Total \in Nat /\ reading.res <= CN!Total /\ low <= reading.res + (CN!Total - CN!Total)
        BY <2>2, <2>3, <2>4, TotalIsSum
  <2> QED BY <2>2, <2>5
<1> QED BY <1>1, <1>2, <1>3, PTL DEF SumIsCurrent, CN!SumIsCurrent, CN!Spec

-----------------------------------------------------------------------------
QueueType ==
    /\ head_ \in Address /\ queueNext \in [Node -> Address] /\ queueLive \in SUBSET Node
    /\ queuePc \in [MQ!Party -> {"idle", "push", "push reload", "pop next", "pop", "pop reload",
                                 "delete", "take", "walk"}]
    /\ \A t \in Producer : queuePc[t] \in {"idle", "push", "push reload"}
    /\ old_head \in [MQ!Party -> Address] /\ other \in [MQ!Party -> Address]

Pushing(t) == queuePc[t] \in {"push", "push reload"}

\* A producer has a new node of its own, which leads to the head it has read.
ProducersOwn(L, K) ==
    /\ \A t \in Producer : Pushing(t) => other[t] \in queueLive \ (L \cup K)
    /\ \A t, u \in Producer : t # u /\ Pushing(t) /\ Pushing(u) => other[t] # other[u]
    /\ \A t \in Producer : queuePc[t] = "push" => queueNext[other[t]] = old_head[t]

\* What the consumer removes is still in the list; what it has removed is its own.
ConsumerOwns(L, K) ==
    /\ queuePc[Consumer] \in {"pop next", "pop", "pop reload"} => old_head[Consumer] \in L
    /\ queuePc[Consumer] = "pop" => other[Consumer] = queueNext[old_head[Consumer]]
    /\ queuePc[Consumer] = "delete" => K = {old_head[Consumer]}
    /\ queuePc[Consumer] = "walk" => List(queueNext, old_head[Consumer], K)

\* L is the list, K are the nodes that the consumer has taken out of it.
QueueHolds(L, K) ==
    /\ List(queueNext, head_, L) /\ L \subseteq queueLive /\ K \subseteq queueLive /\ L \cap K = {}
    /\ ProducersOwn(L, K) /\ ConsumerOwns(L, K)

QueueInv == QueueType /\ \E L, K \in SUBSET Node : QueueHolds(L, K)

\* Nothing is in the queue at first.
LEMMA QueueInit == MQ!Init => QueueInv
<1> SUFFICES ASSUME MQ!Init PROVE QueueInv
    OBVIOUS
<1>0. Null \notin Node /\ Consumer \notin Producer
      BY StructureConstants DEF MQ!QueueConstants
<1>1. QueueType
      BY DEF MQ!Init, QueueType, Address, MQ!Party
<1>2. PICK L \in SUBSET Node, K \in SUBSET Node : L = {} /\ K = {}
      OBVIOUS
<1>3. List(queueNext, head_, L)
      BY <1>0, <1>2, EmptyList DEF MQ!Init
<1>4. ProducersOwn(L, K) /\ ConsumerOwns(L, K)
      BY DEF MQ!Init, ProducersOwn, ConsumerOwns, Pushing, MQ!Party
<1> QED BY <1>1, <1>2, <1>3, <1>4 DEF QueueInv, QueueHolds

\* A producer that is in no push keeps what the others own.
LEMMA ProducerStep == 
  ASSUME QueueInv, NEW t \in Producer, MQ!Push(t) \/ MQ!PushExchange(t) \/ MQ!PushReload(t)
  PROVE  QueueInv'
<1>0. Null \notin Node /\ Consumer \notin Producer /\ t # Consumer /\ t \in MQ!Party
         /\ Consumer \in MQ!Party /\ Producer \subseteq MQ!Party
      BY StructureConstants, StackConstants DEF MQ!QueueConstants, MQ!Party
<1>a. PICK L \in SUBSET Node, K \in SUBSET Node : QueueHolds(L, K)
      BY DEF QueueInv
<1>b. /\ List(queueNext, head_, L) /\ L \subseteq queueLive /\ K \subseteq queueLive /\ L \cap K = {}
      /\ ProducersOwn(L, K) /\ ConsumerOwns(L, K)
      BY <1>a DEF QueueHolds
<1> USE DEF QueueInv, QueueType, MQ!Go, MQ!Load, Address
<1>1. CASE MQ!Push(t)
  <2>1. PICK n \in Node \ queueLive :
              /\ queueLive' = queueLive \cup {n} /\ queueNext' = [queueNext EXCEPT ![n] = head_]
              /\ other' = [other EXCEPT ![t] = n]
        BY <1>1 DEF MQ!Push
  <2>2. /\ head_' = head_ /\ queuePc[t] = "idle" /\ queuePc' = [queuePc EXCEPT ![t] = "push"]
        /\ old_head' = [old_head EXCEPT ![t] = head_]
        BY <1>1 DEF MQ!Push
  <2>3. QueueType'
        BY <1>0, <2>1, <2>2
  <2>4. \A m \in queueLive : queueNext'[m] = queueNext[m]
        BY <2>1
  <2>5. List(queueNext', head_', L)
        BY <1>b, <2>2, <2>4, SameList
  <2>6. ProducersOwn(L, K)'
    <3>1. \A u \in Producer : u # t => other'[u] = other[u] /\ queuePc'[u] = queuePc[u] /\ old_head'[u] = old_head[u]
          BY <1>0, <2>1, <2>2
    <3>2. other'[t] = n /\ queuePc'[t] = "push" /\ old_head'[t] = head_ /\ queueNext'[n] = head_
          BY <1>0, <2>1, <2>2
    <3>3. n \notin L \cup K /\ n \in queueLive' /\ queueLive \subseteq queueLive'
          BY <1>b, <2>1
    <3>4. \A u \in Producer : u # t /\ Pushing(u)' => Pushing(u) /\ other[u] \in queueLive \ (L \cup K) /\ other[u] # n
          BY <1>b, <2>1, <3>1 DEF ProducersOwn, Pushing
    <3>5. \A u \in Producer : Pushing(u)' => other'[u] \in queueLive' \ (L \cup K)
          BY <3>1, <3>2, <3>3, <3>4
    <3>6. ASSUME NEW u \in Producer, NEW v \in Producer, u # v, Pushing(u)', Pushing(v)'
          PROVE  other'[u] # other'[v]
      <4>1. CASE u = t
            BY <3>1, <3>2, <3>4, <3>6, <4>1
      <4>2. CASE v = t
            BY <3>1, <3>2, <3>4, <3>6, <4>2
      <4>3. CASE u # t /\ v # t
            BY <1>b, <3>1, <3>4, <3>6, <4>3 DEF ProducersOwn
      <4> QED BY <4>1, <4>2, <4>3
    <3>7. ASSUME NEW u \in Producer, queuePc'[u] = "push"
          PROVE  queueNext'[other'[u]] = old_head'[u]
      <4>1. CASE u = t
            BY <3>2, <4>1
      <4>2. CASE u # t
        <5>1. queuePc[u] = "push" /\ other[u] \in queueLive /\ queueNext[other[u]] = old_head[u]
              BY <1>b, <3>1, <3>7, <4>2 DEF ProducersOwn, Pushing
        <5> QED BY <2>4, <3>1, <4>2, <5>1
      <4> QED BY <4>1, <4>2
    <3> QED BY <3>5, <3>6, <3>7 DEF ProducersOwn
  <2>7. ConsumerOwns(L, K)'
    <3>1. /\ queuePc'[Consumer] = queuePc[Consumer] /\ old_head'[Consumer] = old_head[Consumer]
          /\ other'[Consumer] = other[Consumer]
          BY <1>0, <2>1, <2>2
    <3>2. ASSUME queuePc[Consumer] = "walk" PROVE List(queueNext', old_head[Consumer], K)
      <4>1. List(queueNext, old_head[Consumer], K)
            BY <1>b, <3>2 DEF ConsumerOwns
      <4>2. \A m \in K : queueNext'[m] = queueNext[m]
            BY <1>b, <2>4
      <4> HIDE DEF List
      <4> QED BY <4>1, <4>2, SameList
    <3>3. queuePc[Consumer] = "pop" => queueNext'[old_head[Consumer]] = queueNext[old_head[Consumer]]
          BY <1>b, <2>4 DEF ConsumerOwns
    <3> QED BY <1>b, <3>1, <3>2, <3>3 DEF ConsumerOwns
  <2>8. QueueHolds(L, K)'
        BY <1>b, <2>1, <2>5, <2>6, <2>7 DEF QueueHolds
  <2> QED BY <2>3, <2>8
<1>2. CASE MQ!PushExchange(t)
  <2>1. queuePc[t] = "push" /\ UNCHANGED <<queueNext, queueLive, other, old_head>>
        BY <1>2 DEF MQ!PushExchange
  <2>2. PICK x \in Node : x = other[t] /\ x \in queueLive /\ x \notin L \cup K /\ queueNext[x] = old_head[t]
        BY <1>b, <2>1 DEF ProducersOwn, Pushing
  <2>3. CASE head_ = old_head[t] /\ queuePc' = [queuePc EXCEPT ![t] = "idle"] /\ head_' = x
    <3>1. QueueType'
          BY <1>0, <2>1, <2>3
    <3>2. PICK M \in SUBSET Node : M = L \cup {x}
          OBVIOUS
    <3>3. List(queueNext', head_', M)
      <4>1. List(queueNext, x, L \cup {x})
            BY <1>b, <2>2, <2>3, Prepended
      <4> QED BY <2>1, <2>3, <3>2, <4>1
    <3>4. \A u \in Producer : u # t => queuePc'[u] = queuePc[u]
          BY <1>0, <2>3
    <3>5. queuePc'[t] = "idle"
          BY <1>0, <2>3
    <3>6. ProducersOwn(M, K)'
      <4>1. \A u \in Producer : Pushing(u)' => u # t /\ Pushing(u)
            BY <3>4, <3>5 DEF Pushing
      <4>2. \A u \in Producer : Pushing(u)' => other[u] # x /\ other[u] \in queueLive \ (L \cup K)
            BY <1>b, <2>1, <2>2, <4>1 DEF ProducersOwn, Pushing
      <4> QED BY <1>b, <2>1, <3>2, <3>4, <3>5, <4>1, <4>2 DEF ProducersOwn
    <3>7. ConsumerOwns(M, K)'
      <4>1. queuePc'[Consumer] = queuePc[Consumer]
            BY <1>0, <2>3
      <4> QED BY <1>b, <2>1, <3>2, <4>1 DEF ConsumerOwns
    <3>8. QueueHolds(M, K)'
          BY <1>b, <2>1, <2>2, <3>2, <3>3, <3>6, <3>7 DEF QueueHolds
    <3> QED BY <3>1, <3>8
  <2>4. CASE queuePc' = [queuePc EXCEPT ![t] = "push reload"] /\ head_' = head_
    <3>1. QueueType'
          BY <1>0, <2>1, <2>4
    <3>2. \A u \in Producer : u # t => queuePc'[u] = queuePc[u]
          BY <1>0, <2>4
    <3>3. queuePc'[t] = "push reload" /\ queuePc'[Consumer] = queuePc[Consumer]
          BY <1>0, <2>4
    <3>4. \A u \in Producer : Pushing(u)' => Pushing(u)
          BY <2>1, <3>2 DEF Pushing
    <3>5. ProducersOwn(L, K)'
          BY <1>b, <2>1, <3>2, <3>3, <3>4 DEF ProducersOwn
    <3>6. ConsumerOwns(L, K)'
          BY <1>b, <2>1, <3>3 DEF ConsumerOwns
    <3>7. QueueHolds(L, K)'
          BY <1>b, <2>1, <2>4, <3>5, <3>6 DEF QueueHolds
    <3> QED BY <3>1, <3>7
  <2> QED BY <1>2, <2>2, <2>3, <2>4 DEF MQ!PushExchange
<1>3. CASE MQ!PushReload(t)
  <2>1. /\ queuePc[t] = "push reload" /\ queuePc' = [queuePc EXCEPT ![t] = "push"]
        /\ old_head' = [old_head EXCEPT ![t] = head_]
        /\ queueNext' = [queueNext EXCEPT ![other[t]] = head_] /\ UNCHANGED <<head_, queueLive, other>>
        BY <1>3 DEF MQ!PushReload
  <2>2. PICK x \in Node : x = other[t] /\ x \in queueLive /\ x \notin L \cup K
        BY <1>b, <2>1 DEF ProducersOwn, Pushing
  <2>3. \A m \in Node : m # x => queueNext'[m] = queueNext[m]
        BY <2>1, <2>2
  <2>4. queueNext'[x] = head_
        BY <2>1, <2>2
  <2>5. QueueType'
        BY <1>0, <2>1, <2>2
  <2>6. List(queueNext', head_', L)
    <3>1. \A m \in L : queueNext'[m] = queueNext[m]
          BY <2>2, <2>3
    <3> QED BY <1>b, <2>1, <3>1, SameList
  <2>7. /\ \A u \in Producer : u # t => queuePc'[u] = queuePc[u] /\ old_head'[u] = old_head[u]
        /\ queuePc'[t] = "push" /\ old_head'[t] = head_
        /\ queuePc'[Consumer] = queuePc[Consumer] /\ old_head'[Consumer] = old_head[Consumer]
        BY <1>0, <2>1
  <2>8. ProducersOwn(L, K)'
    <3>1. \A u \in Producer : Pushing(u)' => Pushing(u)
          BY <2>1, <2>7 DEF Pushing
    <3>2. \A u \in Producer : u # t /\ Pushing(u) => other[u] # x /\ other[u] \in Node
          BY <1>b, <2>1, <2>2 DEF ProducersOwn, Pushing
    <3>3. \A u \in Producer : queuePc'[u] = "push" => queueNext'[other[u]] = old_head'[u]
          BY <1>b, <2>2, <2>3, <2>4, <2>7, <3>2 DEF ProducersOwn, Pushing
    <3> QED BY <1>b, <2>1, <3>1, <3>3 DEF ProducersOwn
  <2>9. ConsumerOwns(L, K)'
    <3>1. queuePc[Consumer] = "walk" => List(queueNext', old_head[Consumer], K)
      <4>1. \A m \in K : queueNext'[m] = queueNext[m]
            BY <2>2, <2>3
      <4> QED BY <1>b, <4>1, SameList DEF ConsumerOwns
    <3>2. queuePc[Consumer] = "pop" => queueNext'[old_head[Consumer]] = queueNext[old_head[Consumer]]
          BY <1>b, <2>2, <2>3 DEF ConsumerOwns
    <3> QED BY <1>b, <2>1, <2>7, <3>1, <3>2 DEF ConsumerOwns
  <2>10. QueueHolds(L, K)'
        BY <1>b, <2>1, <2>6, <2>8, <2>9 DEF QueueHolds
  <2> QED BY <2>5, <2>10
<1> QED BY <1>1, <1>2, <1>3

\* Producers are not disturbed by a step of the consumer that leaves their nodes.
LEMMA Undisturbed ==
  ASSUME QueueInv, NEW L \in SUBSET Node, NEW K \in SUBSET Node, ProducersOwn(L, K),
         NEW M \in SUBSET Node, NEW J \in SUBSET Node, M \cup J \subseteq L \cup K,
         queueLive \ queueLive' \subseteq K, queueNext' = queueNext,
         \A t \in Producer : queuePc'[t] = queuePc[t] /\ old_head'[t] = old_head[t] /\ other'[t] = other[t]
  PROVE  ProducersOwn(M, J)'
<1>1. \A t \in Producer : Pushing(t)' <=> Pushing(t)
      BY DEF Pushing
<1>2. \A t \in Producer : Pushing(t) => other[t] \in queueLive' \ (M \cup J)
      BY DEF ProducersOwn
<1> QED BY <1>1, <1>2 DEF ProducersOwn

\* What the consumer does keeps the lists, too.
LEMMA ConsumerStep ==
  ASSUME QueueInv,
         \/ MQ!Pop \/ MQ!PopNext \/ MQ!PopExchange \/ MQ!PopReload \/ MQ!PopDelete
         \/ MQ!DequeueAll \/ MQ!DequeueAllExchange \/ MQ!DequeueAllWalk
  PROVE  QueueInv'
<1>0. Null \notin Node /\ Consumer \notin Producer
         /\ Consumer \in MQ!Party /\ Producer \subseteq MQ!Party
      BY StructureConstants, StackConstants DEF MQ!QueueConstants, MQ!Party
<1>a. PICK L \in SUBSET Node, K \in SUBSET Node : QueueHolds(L, K)
      BY DEF QueueInv
<1>b. /\ List(queueNext, head_, L) /\ L \subseteq queueLive /\ K \subseteq queueLive /\ L \cap K = {}
      /\ ProducersOwn(L, K) /\ ConsumerOwns(L, K)
      BY <1>a DEF QueueHolds
<1>c. head_ \in L \cup {Null} /\ (head_ = Null => L = {})
  <2>1. head_ \in L \cup {Null}
        BY <1>0, <1>b, EmptyList
  <2>2. ASSUME head_ = Null PROVE L = {}
    <3>1. List(queueNext, Null, L)
          BY <1>b, <2>2
    <3> QED BY <1>0, <3>1, EmptyList
  <2> QED BY <2>1, <2>2
<1> USE DEF QueueType, MQ!Go, MQ!Load, Address
<1>d. QueueType
      BY DEF QueueInv
<1>e. ASSUME NEW M \in SUBSET Node, NEW J \in SUBSET Node, M \cup J \subseteq L \cup K,
             M \cap J = {}, M \subseteq queueLive', J \subseteq queueLive',
             queueLive \ queueLive' \subseteq K, queueNext' = queueNext, QueueType',
             \A t \in Producer : queuePc'[t] = queuePc[t] /\ old_head'[t] = old_head[t] /\ other'[t] = other[t],
             List(queueNext, head_', M), ConsumerOwns(M, J)'
      PROVE  QueueInv'
  <2>1. ProducersOwn(M, J)'
        BY <1>b, <1>e, Undisturbed
  <2>2. List(queueNext, head_, M)'
        BY <1>e
  <2>3. QueueHolds(M, J)'
        BY <1>e, <2>1, <2>2 DEF QueueHolds
  <2> QED BY <1>e, <2>3 DEF QueueInv
<1>1. CASE MQ!Pop \/ MQ!PopNext \/ MQ!PopReload \/ MQ!DequeueAll
  <2>1. /\ UNCHANGED <<head_, queueNext, queueLive>>
        /\ \A t \in Producer : queuePc'[t] = queuePc[t] /\ old_head'[t] = old_head[t] /\ other'[t] = other[t]
        BY <1>0, <1>1, <1>d DEF MQ!Pop, MQ!PopNext, MQ!PopReload, MQ!DequeueAll
  <2>2. QueueType'
    <3>1. CASE MQ!Pop
          BY <1>0, <1>d, <3>1 DEF MQ!Pop
    <3>2. CASE MQ!PopNext
      <4>1. old_head[Consumer] \in Node /\ queueNext[old_head[Consumer]] \in Address
            BY <1>b, <1>d, <3>2 DEF MQ!PopNext, ConsumerOwns
      <4> QED BY <1>0, <1>d, <3>2, <4>1 DEF MQ!PopNext
    <3>3. CASE MQ!PopReload
          BY <1>0, <1>d, <3>3 DEF MQ!PopReload
    <3>4. CASE MQ!DequeueAll
          BY <1>0, <1>d, <3>4 DEF MQ!DequeueAll
    <3> QED BY <1>1, <3>1, <3>2, <3>3, <3>4
  <2>3. ConsumerOwns(L, K)'
    <3>1. CASE MQ!Pop
          BY <1>0, <1>c, <1>d, <3>1 DEF MQ!Pop, ConsumerOwns
    <3>2. CASE MQ!PopNext
          BY <1>0, <1>b, <1>d, <3>2 DEF MQ!PopNext, ConsumerOwns
    <3>3. CASE MQ!PopReload
          BY <1>0, <1>b, <1>c, <1>d, <3>3 DEF MQ!PopReload, ConsumerOwns
    <3>4. CASE MQ!DequeueAll
          BY <1>0, <1>d, <3>4 DEF MQ!DequeueAll, ConsumerOwns
    <3> QED BY <1>1, <3>1, <3>2, <3>3, <3>4
  <2> QED BY <1>b, <1>e, <2>1, <2>2, <2>3
<1>2. CASE MQ!PopExchange
  <2>1. queuePc[Consumer] = "pop" /\ UNCHANGED <<queueNext, queueLive, old_head, other>>
        BY <1>2 DEF MQ!PopExchange
  <2>2. CASE head_ = old_head[Consumer] /\ queuePc' = [queuePc EXCEPT ![Consumer] = "delete"] /\ head_' = other[Consumer]
    <3>1. PICK x \in Node : x = old_head[Consumer] /\ x \in L /\ other[Consumer] = queueNext[x]
          BY <1>b, <2>1 DEF ConsumerOwns
    <3>2. PICK M \in SUBSET Node, J \in SUBSET Node : M = L \ {x} /\ J = {x}
          OBVIOUS
    <3>3. List(queueNext, head_', M)
      <4>1. List(queueNext, queueNext[x], L \ {x})
        <5>1. x # Null /\ head_ = x
              BY <1>0, <2>2, <3>1
        <5> QED BY <1>0, <1>b, <5>1, Shortened
      <4> QED BY <2>2, <3>1, <3>2, <4>1
    <3>4. QueueType'
          BY <1>0, <1>d, <2>1, <2>2, <3>1
    <3>5. \A t \in Producer : queuePc'[t] = queuePc[t]
          BY <1>0, <1>d, <2>2
    <3>6. queuePc'[Consumer] = "delete"
          BY <1>0, <1>d, <2>2
    <3>7. ConsumerOwns(M, J)'
          BY <2>1, <3>1, <3>2, <3>6 DEF ConsumerOwns
    <3>8. M \cup J \subseteq L \cup K /\ M \cap J = {} /\ M \subseteq queueLive' /\ J \subseteq queueLive'
          BY <1>b, <2>1, <3>1, <3>2
    <3> QED BY <1>e, <2>1, <3>3, <3>4, <3>5, <3>7, <3>8
  <2>3. CASE queuePc' = [queuePc EXCEPT ![Consumer] = "pop reload"] /\ head_' = head_
    <3>1. QueueType'
          BY <1>0, <1>d, <2>1, <2>3
    <3>2. \A t \in Producer : queuePc'[t] = queuePc[t]
          BY <1>0, <1>d, <2>3
    <3>3. queuePc'[Consumer] = "pop reload"
          BY <1>0, <1>d, <2>3
    <3>4. ConsumerOwns(L, K)'
          BY <1>b, <2>1, <3>3 DEF ConsumerOwns
    <3> QED BY <1>b, <1>e, <2>1, <2>3, <3>1, <3>2, <3>4
  <2> QED BY <1>2, <2>2, <2>3 DEF MQ!PopExchange
<1>3. CASE MQ!PopDelete
  <2>1. /\ queuePc[Consumer] = "delete" /\ queuePc' = [queuePc EXCEPT ![Consumer] = "idle"]
        /\ queueLive' = queueLive \ {old_head[Consumer]} /\ UNCHANGED <<head_, queueNext, old_head, other>>
        BY <1>3 DEF MQ!PopDelete
  <2>2. K = {old_head[Consumer]}
        BY <1>b, <2>1 DEF ConsumerOwns
  <2>3. PICK J \in SUBSET Node : J = {}
        OBVIOUS
  <2>4. QueueType'
        BY <1>0, <1>d, <2>1
  <2>5. \A t \in Producer : queuePc'[t] = queuePc[t]
        BY <1>0, <1>d, <2>1
  <2>6. queuePc'[Consumer] = "idle"
        BY <1>0, <1>d, <2>1
  <2>7. ConsumerOwns(L, J)'
        BY <2>6 DEF ConsumerOwns
  <2>8. /\ L \cup J \subseteq L \cup K /\ L \cap J = {} /\ L \subseteq queueLive' /\ J \subseteq queueLive'
        /\ queueLive \ queueLive' \subseteq K
        BY <1>b, <2>1, <2>2, <2>3
  <2> QED BY <1>b, <1>e, <2>1, <2>4, <2>5, <2>7, <2>8
<1>4. CASE MQ!DequeueAllExchange
  <2>1. queuePc[Consumer] = "take" /\ UNCHANGED <<queueNext, queueLive, other>>
        BY <1>4 DEF MQ!DequeueAllExchange
  <2>2. CASE head_ = old_head[Consumer] /\ queuePc' = [queuePc EXCEPT ![Consumer] = "walk"]
             /\ head_' = Null /\ UNCHANGED old_head
    <3>1. QueueType'
          BY <1>0, <1>d, <2>1, <2>2
    <3>2. \A t \in Producer : queuePc'[t] = queuePc[t]
          BY <1>0, <1>d, <2>2
    <3>3. queuePc'[Consumer] = "walk"
          BY <1>0, <1>d, <2>2
    <3>4. PICK M \in SUBSET Node : M = {}
          OBVIOUS
    <3>5. List(queueNext, head_', M)
          BY <1>0, <2>2, <3>4, EmptyList
    <3>6. ConsumerOwns(M, L)'
          BY <1>b, <2>1, <2>2, <3>3 DEF ConsumerOwns
    <3>7. M \cup L \subseteq L \cup K /\ M \cap L = {} /\ M \subseteq queueLive' /\ L \subseteq queueLive'
          BY <1>b, <2>1, <3>4
    <3> QED BY <1>e, <2>1, <2>2, <3>1, <3>2, <3>5, <3>6, <3>7
  <2>3. CASE queuePc' = [queuePc EXCEPT ![Consumer] = "take"] /\ head_' = head_
             /\ old_head' = [old_head EXCEPT ![Consumer] = head_]
    <3>1. QueueType'
          BY <1>0, <1>d, <2>1, <2>3
    <3>2. \A t \in Producer : queuePc'[t] = queuePc[t] /\ old_head'[t] = old_head[t]
          BY <1>0, <1>d, <2>3
    <3>3. queuePc'[Consumer] = "take"
          BY <1>0, <1>d, <2>3
    <3>4. ConsumerOwns(L, K)'
          BY <3>3 DEF ConsumerOwns
    <3> QED BY <1>b, <1>e, <2>1, <2>3, <3>1, <3>2, <3>4
  <2> QED BY <1>4, <2>2, <2>3 DEF MQ!DequeueAllExchange
<1>5. CASE MQ!DequeueAllWalk
  <2>1. queuePc[Consumer] = "walk" /\ UNCHANGED <<head_, queueNext, other>>
        BY <1>5 DEF MQ!DequeueAllWalk
  <2>2. List(queueNext, old_head[Consumer], K)
        BY <1>b, <2>1 DEF ConsumerOwns
  <2>3. CASE queuePc' = [queuePc EXCEPT ![Consumer] = "idle"] /\ UNCHANGED <<queueLive, old_head>>
    <3>1. QueueType'
          BY <1>0, <1>d, <2>1, <2>3
    <3>2. \A t \in Producer : queuePc'[t] = queuePc[t]
          BY <1>0, <1>d, <2>3
    <3>3. queuePc'[Consumer] = "idle"
          BY <1>0, <1>d, <2>3
    <3>4. ConsumerOwns(L, K)'
          BY <3>3 DEF ConsumerOwns
    <3> QED BY <1>b, <1>e, <2>1, <2>3, <3>1, <3>2, <3>4
  <2>4. CASE /\ queuePc' = [queuePc EXCEPT ![Consumer] = "walk"] /\ old_head[Consumer] # Null
             /\ queueLive' = queueLive \ {old_head[Consumer]}
             /\ old_head' = [old_head EXCEPT ![Consumer] = queueNext[old_head[Consumer]]]
    <3>1. PICK x \in Node : x = old_head[Consumer] /\ x \in K /\ List(queueNext, queueNext[x], K \ {x})
          BY <1>0, <2>2, <2>4, Shortened
    <3>2. PICK J \in SUBSET Node : J = K \ {x}
          OBVIOUS
    <3>3. QueueType'
          BY <1>0, <1>d, <2>1, <2>4, <3>1
    <3>4. \A t \in Producer : queuePc'[t] = queuePc[t] /\ old_head'[t] = old_head[t]
          BY <1>0, <1>d, <2>4
    <3>5. queuePc'[Consumer] = "walk" /\ old_head'[Consumer] = queueNext[x]
          BY <1>0, <1>d, <2>4, <3>1
    <3>6. ConsumerOwns(L, J)'
          BY <2>1, <3>1, <3>2, <3>5 DEF ConsumerOwns
    <3>7. /\ L \cup J \subseteq L \cup K /\ L \cap J = {} /\ L \subseteq queueLive' /\ J \subseteq queueLive'
          /\ queueLive \ queueLive' \subseteq K
          BY <1>b, <2>4, <3>1, <3>2
    <3> QED BY <1>b, <1>e, <2>1, <3>3, <3>4, <3>6, <3>7
  <2> QED BY <1>5, <2>3, <2>4 DEF MQ!DequeueAllWalk
<1> QED BY <1>1, <1>2, <1>3, <1>4, <1>5

\* The invariant of the mpsc-queue.
LEMMA QueueInvariance == MQ!Spec => []QueueInv
<1>1. QueueInv /\ [MQ!Next]_MQ!vars => QueueInv'
  <2> SUFFICES ASSUME QueueInv, [MQ!Next]_MQ!vars PROVE QueueInv'
      OBVIOUS
  <2>1. CASE MQ!Next
        BY <2>1, ProducerStep, ConsumerStep DEF MQ!Next
  <2>2. CASE UNCHANGED MQ!vars
    <3>1. UNCHANGED <<head_, queueNext, queueLive, queuePc, old_head, other>>
          BY <2>2 DEF MQ!vars
    <3>2. QueueType'
          BY <3>1 DEF QueueInv, QueueType
    <3>3. PICK L \in SUBSET Node, K \in SUBSET Node : QueueHolds(L, K)
          BY DEF QueueInv
    <3>4. QueueHolds(L, K)'
      <4>1. /\ ProducersOwn(L, K)'
            BY <3>1, <3>3 DEF QueueHolds, ProducersOwn, Pushing
      <4>2. ConsumerOwns(L, K)'
            BY <3>1, <3>3 DEF QueueHolds, ConsumerOwns
      <4> QED BY <3>1, <3>3, <4>1, <4>2 DEF QueueHolds
    <3> QED BY <3>2, <3>4 DEF QueueInv
  <2> QED BY <2>1, <2>2
<1> QED BY QueueInit, <1>1, PTL DEF MQ!Spec

\* A step changes the list as a stack changes, or not at all.
LEMMA QueueChain ==
  ASSUME QueueInv, MQ!Next
  PROVE  \/ \E n \in Node : MQ!AS!Push(n)
         \/ MQ!AS!Pop \/ MQ!AS!TakeAll
         \/ MQ!Chain' = MQ!Chain
<1>0. Null \notin Node /\ IsFiniteSet(Node) /\ Consumer \notin Producer
         /\ Consumer \in MQ!Party /\ Producer \subseteq MQ!Party
      BY StructureConstants, StackConstants DEF MQ!QueueConstants, MQ!Party
<1>a. PICK L \in SUBSET Node, K \in SUBSET Node : QueueHolds(L, K)
      BY DEF QueueInv
<1>b. /\ List(queueNext, head_, L) /\ L \subseteq queueLive /\ L \cap K = {}
      /\ ProducersOwn(L, K) /\ ConsumerOwns(L, K)
      BY <1>a DEF QueueHolds
<1>d. MQ!Chain = ChainBy(queueNext, head_)
      BY DEF MQ!Chain, ChainBy, DownBy, DownRule, MQ!Cardinality, Cardinality
<1>e. MQ!Chain' = ChainBy(queueNext', head_')
      BY DEF MQ!Chain, ChainBy, DownBy, DownRule, MQ!Cardinality, Cardinality
<1>f. /\ ChainBy(queueNext, head_) \in Seq(Node) /\ Elements(ChainBy(queueNext, head_)) = L
      BY <1>b, <1>0, ChainOfList
<1>q. QueueType
      BY DEF QueueInv
<1> USE DEF QueueType, MQ!Go, MQ!Load
<1>1. ASSUME head_' = head_, \A n \in L : queueNext'[n] = queueNext[n] PROVE MQ!Chain' = MQ!Chain
  <2>1. ChainBy(queueNext', head_) = ChainBy(queueNext, head_)
        BY <1>1, <1>b, <1>0, SameChain
  <2> QED BY <1>1, <1>d, <1>e, <2>1
<1>2. ASSUME NEW t \in Producer, MQ!Push(t) \/ MQ!PushReload(t) PROVE MQ!Chain' = MQ!Chain
  <2>1. CASE MQ!Push(t)
    <3>1. PICK n \in Node \ queueLive : head_' = head_ /\ queueNext' = [queueNext EXCEPT ![n] = head_]
          BY <2>1 DEF MQ!Push
    <3>2. \A m \in L : queueNext'[m] = queueNext[m]
          BY <1>b, <1>q, <3>1
    <3> QED BY <1>1, <3>1, <3>2
  <2>2. CASE MQ!PushReload(t)
    <3>1. /\ head_' = head_ /\ queueNext' = [queueNext EXCEPT ![other[t]] = head_]
          /\ queuePc[t] = "push reload"
          BY <2>2 DEF MQ!PushReload
    <3>2. other[t] \notin L
          BY <1>b, <3>1 DEF ProducersOwn, Pushing
    <3>3. \A m \in L : queueNext'[m] = queueNext[m]
          BY <1>q, <3>1, <3>2
    <3> QED BY <1>1, <3>1, <3>3
  <2> QED BY <1>2, <2>1, <2>2
<1>3. ASSUME NEW t \in Producer, MQ!PushExchange(t)
      PROVE  (\E n \in Node : MQ!AS!Push(n)) \/ MQ!Chain' = MQ!Chain
  <2>1. queuePc[t] = "push" /\ queueNext' = queueNext
        BY <1>3 DEF MQ!PushExchange
  <2>2. PICK x \in Node \ L : x = other[t] /\ queueNext[x] = old_head[t]
        BY <1>b, <1>q, <2>1 DEF ProducersOwn, Pushing
  <2>3. CASE head_ = old_head[t] /\ head_' = x
    <3>0. queueNext[x] = head_ /\ List(queueNext, head_, L)
          BY <1>b, <2>2, <2>3
    <3>1. ChainBy(queueNext, x) = <<x>> \o ChainBy(queueNext, head_)
          BY <1>0, <3>0, ChainPrepended
    <3>2. MQ!Chain' = <<x>> \o MQ!Chain
          BY <1>d, <1>e, <2>1, <2>3, <3>1
    <3>3. x \notin MQ!AS!ToSet(MQ!Chain)
          BY <1>d, <1>f, <2>2 DEF Elements, MQ!AS!ToSet
    <3>4. MQ!AS!Push(x)
          BY <3>2, <3>3 DEF MQ!AS!Push
    <3> QED BY <3>4
  <2>4. CASE head_' = head_
        BY <1>1, <2>1, <2>4
  <2> QED BY <1>3, <2>2, <2>3, <2>4 DEF MQ!PushExchange
<1>4. CASE MQ!PopExchange
  <2>1. queuePc[Consumer] = "pop" /\ queueNext' = queueNext
        BY <1>4 DEF MQ!PopExchange
  <2>2. CASE head_ = old_head[Consumer] /\ head_' = other[Consumer]
    <3>1. head_ # Null /\ head_' = queueNext[head_]
          BY <1>0, <1>b, <2>1, <2>2 DEF ConsumerOwns
    <3>2. ChainBy(queueNext, head_) # <<>>
             /\ ChainBy(queueNext, queueNext[head_]) = Tail(ChainBy(queueNext, head_))
          BY <1>0, <1>b, <3>1, ChainShortened
    <3>3. MQ!AS!Pop
          BY <1>d, <1>e, <2>1, <3>1, <3>2 DEF MQ!AS!Pop
    <3> QED BY <3>3
  <2>3. CASE head_' = head_
        BY <1>1, <2>1, <2>3
  <2> QED BY <1>4, <2>2, <2>3 DEF MQ!PopExchange
<1>5. CASE MQ!DequeueAllExchange
  <2>0. queueNext' = queueNext
        BY <1>5 DEF MQ!DequeueAllExchange
  <2>1. CASE head_' = Null
    <3>1. PICK M \in SUBSET Node : M = {}
          OBVIOUS
    <3>2. List(queueNext, Null, M)
          BY <1>0, <3>1, EmptyList
    <3>3. ChainBy(queueNext, Null) = <<>>
          BY <1>0, <3>2, ChainOfList
    <3>4. MQ!Chain' = <<>>
          BY <1>e, <2>0, <2>1, <3>3
    <3>5. MQ!Chain # <<>> => MQ!AS!TakeAll
          BY <3>4 DEF MQ!AS!TakeAll
    <3> QED BY <3>4, <3>5
  <2>2. CASE head_' = head_
        BY <1>1, <2>0, <2>2
  <2> QED BY <1>5, <2>1, <2>2 DEF MQ!DequeueAllExchange
<1>6. CASE MQ!Pop \/ MQ!PopNext \/ MQ!PopReload \/ MQ!PopDelete \/ MQ!DequeueAll \/ MQ!DequeueAllWalk
  <2>1. head_' = head_ /\ queueNext' = queueNext
        BY <1>6 DEF MQ!Pop, MQ!PopNext, MQ!PopReload, MQ!PopDelete, MQ!DequeueAll, MQ!DequeueAllWalk
  <2> QED BY <1>1, <2>1
<1> QED BY <1>2, <1>3, <1>4, <1>5, <1>6 DEF MQ!Next

\* The mpsc-queue changes as a stack does, whatever producers push onto the node that
\* the consumer removes, and the consumer follows no null or deleted pointer.
THEOREM QueueLinearizable == MQ!Spec => MQ!QueueIsLinearizable
<1>1. MQ!Init => MQ!Chain = <<>>
  <2> SUFFICES ASSUME MQ!Init PROVE ChainBy(queueNext, head_) = <<>>
      BY DEF MQ!Chain, ChainBy, DownBy, DownRule, MQ!Cardinality, Cardinality
  <2>1. Null \notin Node /\ IsFiniteSet(Node) /\ head_ = Null
        BY StackConstants DEF HazardConstants, MQ!Init
  <2>2. PICK M \in SUBSET Node : M = {}
        OBVIOUS
  <2>3. List(queueNext, Null, M)
        BY <2>1, <2>2, EmptyList
  <2> QED BY <2>1, <2>3, ChainOfList
<1>2. QueueInv /\ [MQ!Next]_MQ!vars
         => [(\E n \in Node : MQ!AS!Push(n)) \/ MQ!AS!Pop \/ MQ!AS!TakeAll]_(MQ!Chain)
  <2> SUFFICES ASSUME QueueInv, [MQ!Next]_MQ!vars
               PROVE  \/ \E n \in Node : MQ!AS!Push(n)
                      \/ MQ!AS!Pop \/ MQ!AS!TakeAll
                      \/ MQ!Chain' = MQ!Chain
      OBVIOUS
  <2>1. CASE UNCHANGED MQ!vars
        BY <2>1 DEF MQ!vars, MQ!Chain
  <2>2. CASE MQ!Next
        BY <2>2, QueueChain
  <2> QED BY <2>1, <2>2
<1>3. QueueInv => (queuePc[Consumer] \in {"pop next", "delete"} => old_head[Consumer] \in queueLive)
      BY DEF QueueInv, QueueHolds, ConsumerOwns
<1> QED BY QueueInvariance, <1>1, <1>2, <1>3, PTL DEF MQ!Spec, MQ!QueueIsLinearizable, MQ!AS!Spec

-----------------------------------------------------------------------------
Mutexes == 0..(HM!lists_cnt - 1)

HashType == /\ mutexes_ \in [Mutexes -> Thread \cup {NoThread}]
            /\ hashPc \in [Thread -> {"idle", "check", "flag", "clear", "rehash", "unlock", "rehashed"}]
            /\ key \in [Thread -> Nat] /\ cursor \in [Thread -> 0..HM!lists_cnt]

\* The mutexes a thread may hold: that of its key in Insert, and those its loop has
\* passed in Clear and Rehash.
Passed(t, i) == \/ hashPc[t] = "check" /\ i = HM!mutex_idx(key[t])
                \/ hashPc[t] \in {"clear", "rehash", "unlock", "rehashed"} /\ i < cursor[t]

HashInv == /\ HashType
           /\ \A i \in Mutexes, t \in Thread : mutexes_[i] = t => Passed(t, i)

\* The number of mutexes is that of the lists at the start, and a key has a mutex.
LEMMA MutexCount ==
  ASSUME HashType
  PROVE  /\ HM!Count(mutexes_) = HM!lists_cnt
         /\ \A k \in Nat : HM!mutex_idx(k) = k % HM!lists_cnt /\ HM!mutex_idx(k) \in Mutexes
<1>0. HM!lists_cnt \in Nat \ {0}
      BY StructureConstants DEF HM!HashConstants
<1>1. \A S : HM!Cardinality(S) = Cardinality(S)
      BY DEF HM!Cardinality, Cardinality
<1>2. DOMAIN mutexes_ = 0..(HM!lists_cnt - 1)
      BY DEF HashType, Mutexes
<1>3. Cardinality(0..(HM!lists_cnt - 1)) = HM!lists_cnt
      BY <1>0, FS_Interval
<1>4. HM!Count(mutexes_) = HM!lists_cnt
      BY <1>1, <1>2, <1>3 DEF HM!Count
<1>5. \A k \in Nat, n \in Nat \ {0} : k % n \in 0..(n - 1)
      OBVIOUS
<1> QED BY <1>0, <1>4, <1>5 DEF HM!mutex_idx, Mutexes

\* Threads hold the mutexes they have passed, in the order of the indices.
LEMMA HashInvariance == HM!Spec => []HashInv
<1>0. /\ HM!lists_cnt \in Nat \ {0} /\ NoThread \notin Thread /\ Keys \subseteq Nat
      BY StructureConstants DEF HM!HashConstants
<1>1. HM!Init => HashInv
      BY <1>0 DEF HM!Init, HashInv, HashType, Mutexes
<1>2. HashInv /\ [HM!Next]_HM!vars => HashInv'
  <2> SUFFICES ASSUME HashInv, [HM!Next]_HM!vars PROVE HashInv'
      OBVIOUS
  <2>1. CASE UNCHANGED HM!vars
        BY <2>1 DEF HM!vars, HashInv, HashType, Passed, HM!mutex_idx
  <2>2. CASE HM!Next
    <3>t. HashType
          BY DEF HashInv
    <3>h. \A i \in Mutexes, u \in Thread : mutexes_[i] = u => Passed(u, i)
          BY DEF HashInv
    <3>n. HM!Count(mutexes_) = HM!lists_cnt
          BY <3>t, MutexCount
    <3>i. \A k \in Nat : HM!mutex_idx(k) = k % HM!lists_cnt /\ HM!mutex_idx(k) \in Mutexes
          BY <3>t, MutexCount
    <3>p. ASSUME HashType' PROVE \A k \in Nat : HM!mutex_idx(k)' = HM!mutex_idx(k)
      <4>1. HM!Count(mutexes_)' = HM!lists_cnt
        <5>1. DOMAIN mutexes_' = DOMAIN mutexes_
              BY <3>t, <3>p DEF HashType
        <5> QED BY <3>n, <5>1 DEF HM!Count
      <4> QED BY <3>n, <4>1 DEF HM!mutex_idx
    <3>q. ASSUME NEW t \in Thread, HashType',
                 \A u \in Thread \ {t} : hashPc'[u] = hashPc[u] /\ key'[u] = key[u] /\ cursor'[u] = cursor[u],
                 \A i \in Mutexes : mutexes_'[i] \in {mutexes_[i], NoThread, t},
                 \A i \in Mutexes : mutexes_'[i] = t => Passed(t, i)'
          PROVE  HashInv'
      <4>1. ASSUME NEW i \in Mutexes, NEW u \in Thread, mutexes_'[i] = u PROVE Passed(u, i)'
        <5>1. CASE u = t
              BY <3>q, <4>1, <5>1
        <5>2. CASE u # t
          <6>1. Passed(u, i)
                BY <1>0, <3>h, <3>q, <4>1, <5>2
          <6>2. key[u] \in Nat
                BY <3>t DEF HashType
          <6> QED BY <3>p, <3>q, <5>2, <6>1, <6>2 DEF Passed, HM!mutex_idx
        <5> QED BY <5>1, <5>2
      <4> QED BY <3>q, <4>1 DEF HashInv
    <3>g. PICK t \in Thread : HM!Insert(t) \/ HM!Erase(t) \/ HM!Clear(t) \/ HM!Inside(t)
          BY <2>2 DEF HM!Next
    <3> USE <1>0 DEF HM!Goto, HM!Begin
    <3>z. 0 \in 0..HM!lists_cnt /\ cursor[t] \in 0..HM!lists_cnt
      <4>1. \A n \in Nat : 0 \in 0..n
            OBVIOUS
      <4>2. cursor[t] \in 0..HM!lists_cnt
            BY <3>t, Zenon DEF HashType
      <4> QED BY <4>1, <4>2
    <3>1. CASE HM!Insert(t)
      <4>1. PICK k \in Keys : /\ HM!Begin(t, k) /\ HM!Goto(t, "idle", "check")
                              /\ mutexes_' = [mutexes_ EXCEPT ![HM!mutex_idx(k)] = t]
            BY <3>1 DEF HM!Insert
      <4>2. HashType'
        <5>1. k \in Nat /\ HM!mutex_idx(k) \in Mutexes
              BY <3>i
        <5> QED BY <3>t, <3>z, <4>1, <5>1 DEF HashType
      <4>3. \A i \in Mutexes : mutexes_'[i] = t => i = HM!mutex_idx(k)
            BY <3>t, <3>h, <3>i, <4>1 DEF HashType, Passed
      <4>4. hashPc'[t] = "check" /\ key'[t] = k /\ k \in Nat
            BY <3>t, <4>1 DEF HashType
      <4>5. \A i \in Mutexes : mutexes_'[i] = t => Passed(t, i)'
            BY <3>p, <4>2, <4>3, <4>4 DEF Passed, HM!mutex_idx
      <4> QED BY <3>q, <3>t, <4>1, <4>2, <4>5 DEF HashType
    <3>2. CASE HM!InsertCheck(t)
      <4>1. HashType'
            BY <3>t, <3>i, <3>2 DEF HashType, HM!InsertCheck
      <4>2. \A i \in Mutexes : mutexes_'[i] # t
            BY <3>t, <3>h, <3>i, <3>2 DEF HashType, Passed, HM!InsertCheck
      <4> QED BY <3>q, <3>t, <3>2, <4>1, <4>2 DEF HashType, HM!InsertCheck
    <3>3. CASE HM!InsertTestAndSet(t)
      <4>1. HashType'
            BY <3>t, <3>3 DEF HashType, HM!InsertTestAndSet
      <4>2. \A i \in Mutexes : mutexes_'[i] # t
            BY <3>t, <3>h, <3>3 DEF HashType, Passed, HM!InsertTestAndSet
      <4> QED BY <3>q, <3>t, <3>3, <4>1, <4>2 DEF HashType, HM!InsertTestAndSet
    <3>4. CASE HM!Erase(t) \/ HM!Clear(t)
      <4>1. HashType'
        <5>1. CASE HM!Clear(t)
              BY <3>t, <3>z, <5>1 DEF HashType, HM!Clear
        <5>2. CASE HM!Erase(t)
          <6>1. PICK k \in Keys : HM!Begin(t, k) /\ HM!Goto(t, "idle", "idle") /\ UNCHANGED mutexes_
                BY <5>2 DEF HM!Erase
          <6>2. k \in Nat
                OBVIOUS
          <6> QED BY <3>t, <3>z, <6>1, <6>2 DEF HashType
        <5> QED BY <3>4, <5>1, <5>2
      <4>2. \A i \in Mutexes : mutexes_'[i] # t
            BY <3>t, <3>h, <3>4 DEF HashType, Passed, HM!Erase, HM!Clear
      <4> QED BY <3>q, <3>t, <3>4, <4>1, <4>2 DEF HashType, HM!Erase, HM!Clear
    <3>5. CASE HM!LockNext(t)
      <4>1. HashType'
        <5>1. cursor[t] \in Mutexes /\ cursor[t] + 1 \in 0..HM!lists_cnt
              BY <3>n, <3>z, <3>5 DEF HM!LockNext, Mutexes
        <5>2. /\ mutexes_' = [mutexes_ EXCEPT ![cursor[t]] = t]
              /\ cursor' = [cursor EXCEPT ![t] = cursor[t] + 1] /\ UNCHANGED <<hashPc, key>>
              BY <3>5 DEF HM!LockNext
        <5> QED BY <3>t, <5>1, <5>2 DEF HashType
      <4>2. ASSUME NEW i \in Mutexes, mutexes_'[i] = t PROVE Passed(t, i)'
        <5>1. hashPc'[t] \in {"clear", "rehash"} /\ hashPc[t] = hashPc'[t] /\ cursor'[t] = cursor[t] + 1
              BY <3>t, <3>5 DEF HashType, HM!LockNext
        <5>2. i = cursor[t] \/ mutexes_[i] = t
              BY <3>t, <3>5, <4>2 DEF HashType, HM!LockNext
        <5>3. i = cursor[t] \/ i < cursor[t]
              BY <3>h, <5>1, <5>2 DEF Passed
        <5>4. i < cursor[t] + 1
              BY <3>z, <5>3 DEF Mutexes
        <5> QED BY <5>1, <5>4 DEF Passed
      <4> QED BY <3>q, <3>t, <3>n, <3>5, <4>1, <4>2 DEF HashType, HM!LockNext, Mutexes
    <3>6. CASE HM!ClearAll(t) \/ HM!Rehash(t)
      <4>1. HashType'
            BY <3>t, <3>6 DEF HashType, HM!ClearAll, HM!Rehash
      <4>2. \A i \in Mutexes : mutexes_'[i] = t => Passed(t, i)'
            BY <3>t, <3>h, <3>6 DEF HashType, Passed, HM!ClearAll, HM!Rehash, Mutexes
      <4> QED BY <3>q, <3>t, <3>6, <4>1, <4>2 DEF HashType, HM!ClearAll, HM!Rehash
    <3>7. CASE HM!UnlockNext(t)
      <4>0. /\ hashPc[t] \in {"unlock", "rehashed"} /\ UNCHANGED key
            /\ \/ /\ cursor[t] > 0 /\ cursor' = [cursor EXCEPT ![t] = cursor[t] - 1]
                  /\ mutexes_' = [mutexes_ EXCEPT ![cursor[t] - 1] = NoThread] /\ UNCHANGED hashPc
               \/ /\ cursor[t] = 0 /\ hashPc' = [hashPc EXCEPT ![t] = "idle"]
                  /\ UNCHANGED <<mutexes_, cursor>>
            BY <3>7, Zenon DEF HM!UnlockNext
      <4>1. HashType'
        <5>1. CASE cursor[t] > 0 /\ cursor' = [cursor EXCEPT ![t] = cursor[t] - 1]
          <6>1. cursor[t] - 1 \in Mutexes /\ cursor[t] - 1 \in 0..HM!lists_cnt
                BY <3>z, <5>1 DEF Mutexes
          <6>2. mutexes_' = [mutexes_ EXCEPT ![cursor[t] - 1] = NoThread] /\ UNCHANGED <<hashPc, key>>
                BY <3>z, <4>0, <5>1
          <6> QED BY <3>t, <5>1, <6>1, <6>2 DEF HashType
        <5>2. CASE cursor[t] = 0
              BY <3>t, <4>0, <5>2 DEF HashType
        <5> QED BY <4>0, <5>1, <5>2
      <4>2. ASSUME NEW i \in Mutexes, mutexes_'[i] = t PROVE Passed(t, i)'
        <5>1. hashPc[t] \in {"unlock", "rehashed"} /\ i \in Int
              BY <4>0 DEF Mutexes
        <5>2. CASE cursor[t] > 0
          <6>1. /\ mutexes_' = [mutexes_ EXCEPT ![cursor[t] - 1] = NoThread] /\ UNCHANGED hashPc
                /\ cursor'[t] = cursor[t] - 1
                BY <3>t, <3>z, <4>0, <5>2 DEF HashType
          <6>2. mutexes_[i] = t /\ i # cursor[t] - 1
                BY <3>t, <4>2, <6>1 DEF HashType
          <6>3. i < cursor[t]
                BY <3>h, <5>1, <6>2 DEF Passed
          <6>4. i < cursor[t] - 1
                BY <3>z, <5>1, <6>2, <6>3
          <6> QED BY <5>1, <6>1, <6>4 DEF Passed
        <5>3. CASE cursor[t] = 0
          <6>1. mutexes_[i] = t
                BY <4>0, <4>2, <5>3
          <6>2. i < cursor[t]
                BY <3>h, <5>1, <6>1 DEF Passed
          <6> QED BY <5>3, <6>2 DEF Mutexes
        <5> QED BY <3>z, <5>2, <5>3
      <4> QED BY <3>q, <3>t, <4>0, <4>1, <4>2 DEF HashType, Mutexes
    <3> QED BY <3>g, <3>1, <3>2, <3>3, <3>4, <3>5, <3>6, <3>7 DEF HM!Inside
  <2> QED BY <2>1, <2>2
<1> QED BY <1>1, <1>2, PTL DEF HM!Spec

\* Of the threads that clear or rehash, the one that has come furthest waits for no
\* other of them: a call under way can always go on.
THEOREM HashNobodyStuck == HM!Spec => []NobodyStuck
<1>0. /\ HM!lists_cnt \in Nat \ {0} /\ NoThread \notin Thread
      BY StructureConstants DEF HM!HashConstants
<1>1. HashInv => NobodyStuck
  <2> SUFFICES ASSUME HashInv, NEW t0 \in Thread, hashPc[t0] # "idle",
                      \A t \in Thread : hashPc[t] # "idle" => HM!Blocked(t)
               PROVE  FALSE
      BY DEF NobodyStuck, HM!NobodyStuck
  <2>t. HashType
        BY DEF HashInv
  <2>n. HM!Count(mutexes_) = HM!lists_cnt
        BY <2>t, MutexCount
  <2> DEFINE Left == {HM!lists_cnt - cursor[t] : t \in {u \in Thread : hashPc[u] # "idle"}}
  <2>1. \A t \in Thread : cursor[t] \in 0..HM!lists_cnt
        BY <2>t DEF HashType
  <2>2. Left \in SUBSET Nat /\ Left # {}
        BY <1>0, <2>1
  <2>3. PICK n \in Left : \A m \in Left : n <= m
    <3> HIDE DEF Left
    <3> QED BY <2>2, Least
  <2>4. PICK t \in Thread : hashPc[t] # "idle" /\ n = HM!lists_cnt - cursor[t]
        BY <2>3
  <2>5. \A u \in Thread : hashPc[u] # "idle" => HM!lists_cnt - cursor[t] <= HM!lists_cnt - cursor[u]
        BY <2>3, <2>4
  <2>6. \A u \in Thread : hashPc[u] # "idle" => cursor[u] <= cursor[t]
        BY <1>0, <2>1, <2>5
  <2>7. HM!Blocked(t)
        BY <2>4
  <2>8. /\ cursor[t] \in Mutexes /\ mutexes_[cursor[t]] # NoThread
        BY <1>0, <2>1, <2>7, <2>n DEF HM!Blocked, Mutexes
  <2>9. PICK u \in Thread : mutexes_[cursor[t]] = u
        BY <2>t, <2>8 DEF HashType
  <2>10. Passed(u, cursor[t])
        BY <2>8, <2>9 DEF HashInv
  <2>11. hashPc[u] # "idle"
        BY <2>10 DEF Passed
  <2>12. HM!Blocked(u)
        BY <2>11
  <2>13. cursor[t] < cursor[u]
        BY <2>10, <2>12 DEF Passed, HM!Blocked
  <2> QED BY <2>1, <2>6, <2>11, <2>13
<1> QED BY HashInvariance, <1>1, PTL
-----------------------------------------------------------------------------
\* The lists of the hash map: ascending keys, each once.
Entry == Nat \X Thread
Sorted(l) == \A p, q \in 1..Len(l) : p < q => l[p][1] < l[q][1]
Ordered == {l \in Seq(Entry) : Sorted(l)}

\* The elements of a list.
Mem(l) == {l[p] : p \in 1..Len(l)}

\* A list and its elements.
LEMMA Listed ==
  ASSUME NEW l \in Seq(Entry)
  PROVE  Len(l) \in Nat /\ \A p \in 1..Len(l) : l[p] \in Entry /\ l[p][1] \in Nat /\ l[p][2] \in Thread
  BY DEF Entry

\* FindPosInList stops at the first key that is not below.
LEMMA FirstPlace ==
  ASSUME NEW l \in Seq(Entry), NEW k \in Nat
  PROVE  /\ HM!FindPosInList(l, k) \in 1..(Len(l) + 1)
         /\ HM!FindPosInList(l, k) <= Len(l) => l[HM!FindPosInList(l, k)][1] >= k
         /\ \A q \in 1..(HM!FindPosInList(l, k) - 1) : l[q][1] < k
<1> DEFINE P(p) == /\ p <= Len(l) => l[p][1] >= k
                   /\ \A q \in 1..(p - 1) : l[q][1] < k
           S == {p \in 1..(Len(l) + 1) : p <= Len(l) => l[p][1] >= k}
<1>0. Len(l) \in Nat /\ \A p \in 1..Len(l) : l[p][1] \in Nat
      BY Listed
<1>1. S \in SUBSET Nat /\ Len(l) + 1 \in S
      BY <1>0
<1>2. PICK n \in S : \A m \in S : n <= m
  <2> HIDE DEF S
  <2> QED BY <1>1, Least
<1>3. n \in 1..(Len(l) + 1) /\ P(n)
  <2>1. n \in 1..(Len(l) + 1) /\ (n <= Len(l) => l[n][1] >= k)
        OBVIOUS
  <2>2. ASSUME NEW q \in 1..(n - 1) PROVE l[q][1] < k
    <3>1. q \notin S /\ q \in 1..Len(l)
          BY <1>0, <1>2, <2>1
    <3>2. ~(l[q][1] >= k)
          BY <1>0, <3>1
    <3> QED BY <1>0, <3>1, <3>2
  <2> QED BY <2>1, <2>2
<1>4. HM!FindPosInList(l, k) = CHOOSE p \in 1..(Len(l) + 1) : P(p)
      BY DEF HM!FindPosInList
<1>5. (CHOOSE p \in 1..(Len(l) + 1) : P(p)) \in 1..(Len(l) + 1) /\ P(CHOOSE p \in 1..(Len(l) + 1) : P(p))
  <2> HIDE DEF P
  <2> QED BY <1>3
<1> QED BY <1>4, <1>5

\* It finds what is there.
LEMMA Finds ==
  ASSUME NEW l \in Ordered, NEW k \in Nat
  PROVE  /\ HM!Has(l, k) <=> \E x \in Mem(l) : x[1] = k
         /\ \A x \in Mem(l) : x[1] = k => l[HM!FindPosInList(l, k)] = x
<1> DEFINE p == HM!FindPosInList(l, k)
<1>0. l \in Seq(Entry) /\ Len(l) \in Nat /\ (\A q \in 1..Len(l) : l[q][1] \in Nat)
      /\ \A q, r \in 1..Len(l) : q < r => l[q][1] < l[r][1]
      BY Listed DEF Ordered, Sorted
<1>1. /\ p \in 1..(Len(l) + 1) /\ (p <= Len(l) => l[p][1] >= k)
      /\ \A q \in 1..(p - 1) : l[q][1] < k
      BY <1>0, FirstPlace
<1>h. HM!Has(l, k) <=> p <= Len(l) /\ l[p][1] = k
      BY DEF HM!Has
<1> HIDE DEF p
<1>2. ASSUME NEW x \in Mem(l), x[1] = k PROVE p <= Len(l) /\ l[p] = x
  <2>1. PICK q \in 1..Len(l) : l[q] = x
        BY DEF Mem
  <2>2. ~(q < p)
        BY <1>0, <1>1, <1>2, <2>1
  <2>3. ~(p < q)
    <3> SUFFICES ASSUME p < q PROVE FALSE
        OBVIOUS
    <3>1. p \in 1..Len(l) /\ l[p][1] < l[q][1] /\ l[p][1] >= k
          BY <1>0, <1>1, <2>1
    <3> QED BY <1>0, <1>2, <2>1, <3>1
  <2>4. p = q
        BY <1>0, <1>1, <2>1, <2>2, <2>3
  <2> QED BY <1>0, <2>1, <2>4
<1>3. ASSUME p <= Len(l), l[p][1] = k PROVE \E x \in Mem(l) : x[1] = k
  <2>1. p \in 1..Len(l)
        BY <1>0, <1>1, <1>3
  <2> QED BY <1>3, <2>1 DEF Mem
<1>4. HM!Has(l, k) <=> \E x \in Mem(l) : x[1] = k
  <2>1. ASSUME NEW x \in Mem(l), x[1] = k PROVE HM!Has(l, k)
        BY <1>2, <1>h, <2>1
  <2> QED BY <1>3, <1>h, <2>1
<1> QED BY <1>2, <1>4 DEF p

\* An element put in its place.
LEMMA Inserted ==
  ASSUME NEW l \in Ordered, NEW e \in Entry
  PROVE  /\ HM!InsertIntoList(l, e) \in Ordered
         /\ Mem(HM!InsertIntoList(l, e)) =
               IF \E x \in Mem(l) : x[1] = e[1] THEN Mem(l) ELSE Mem(l) \cup {e}
<1> DEFINE p == HM!FindPosInList(l, e[1])
           r == HM!InsertAt(l, p, e)
<1>0. l \in Seq(Entry) /\ Len(l) \in Nat /\ (\A q \in 1..Len(l) : l[q] \in Entry /\ l[q][1] \in Nat)
      /\ (\A q, u \in 1..Len(l) : q < u => l[q][1] < l[u][1]) /\ e[1] \in Nat
      BY Listed DEF Ordered, Sorted, Entry
<1>1. /\ p \in 1..(Len(l) + 1) /\ (p <= Len(l) => l[p][1] >= e[1])
      /\ \A q \in 1..(p - 1) : l[q][1] < e[1]
      BY <1>0, FirstPlace
<1>f. HM!Has(l, e[1]) <=> \E x \in Mem(l) : x[1] = e[1]
      BY <1>0, Finds
<1>2. CASE \E x \in Mem(l) : x[1] = e[1]
      BY <1>2, <1>f DEF HM!InsertIntoList
<1>3. CASE ~ \E x \in Mem(l) : x[1] = e[1]
  <2>1. HM!InsertIntoList(l, e) = r
        BY <1>3, <1>f DEF HM!InsertIntoList
  <2>2. /\ r \in Seq(Entry) /\ Len(r) = Len(l) + 1
        /\ \A q \in 1..(Len(l) + 1) : r[q] = IF q < p THEN l[q] ELSE IF q = p THEN e ELSE l[q - 1]
    <3> HIDE DEF p
    <3>1. /\ SubSeq(l, 1, p - 1) \in Seq(Entry) /\ Len(SubSeq(l, 1, p - 1)) = p - 1
          /\ \A q \in 1..(p - 1) : SubSeq(l, 1, p - 1)[q] = l[q]
          BY <1>0, <1>1
    <3>2. /\ SubSeq(l, p, Len(l)) \in Seq(Entry) /\ Len(SubSeq(l, p, Len(l))) = Len(l) - p + 1
          /\ \A q \in 1..(Len(l) - p + 1) : SubSeq(l, p, Len(l))[q] = l[p + q - 1]
          BY <1>0, <1>1
    <3> DEFINE a == SubSeq(l, 1, p - 1)  b == SubSeq(l, p, Len(l))
    <3>3. r = (a \o <<e>>) \o b
          BY DEF HM!InsertAt
    <3> HIDE DEF a, b, r
    <3>4. a \in Seq(Entry) /\ b \in Seq(Entry) /\ Len(a) = p - 1 /\ Len(b) = Len(l) - p + 1
          BY <3>1, <3>2 DEF a, b
    <3>5. /\ a \o <<e>> \in Seq(Entry) /\ Len(a \o <<e>>) = p
          /\ \A q \in 1..p : (a \o <<e>>)[q] = IF q < p THEN a[q] ELSE e
          BY <1>0, <1>1, <3>4
    <3> DEFINE c == a \o <<e>>
    <3> HIDE DEF c
    <3>6. c \in Seq(Entry) /\ Len(c) = p /\ r = c \o b
          BY <3>3, <3>5 DEF c
    <3>7. /\ r \in Seq(Entry) /\ Len(r) = Len(l) + 1
          /\ \A q \in 1..(Len(l) + 1) : r[q] = IF q <= p THEN c[q] ELSE b[q - p]
      <4>1. /\ c \o b \in Seq(Entry) /\ Len(c \o b) = Len(c) + Len(b)
            /\ \A q \in 1..(Len(c) + Len(b)) : (c \o b)[q] = IF q <= Len(c) THEN c[q] ELSE b[q - Len(c)]
            BY <3>4, <3>6, ConcatProperties
      <4>2. Len(c) + Len(b) = Len(l) + 1 /\ Len(c) = p
            BY <1>0, <1>1, <3>4, <3>6
      <4> QED BY <3>6, <4>1, <4>2
    <3>8. ASSUME NEW q \in 1..(Len(l) + 1) PROVE r[q] = IF q < p THEN l[q] ELSE IF q = p THEN e ELSE l[q - 1]
      <4>1. CASE q <= p
        <5>1. q \in 1..p /\ r[q] = c[q]
              BY <1>0, <1>1, <3>7, <4>1
        <5>2. c[q] = IF q < p THEN a[q] ELSE e
              BY <3>5, <5>1 DEF c
        <5>3. q < p => a[q] = l[q]
              BY <1>1, <3>1 DEF a
        <5> QED BY <1>1, <4>1, <5>1, <5>2, <5>3
      <4>2. CASE q > p
        <5>1. q - p \in 1..(Len(l) - p + 1) /\ r[q] = b[q - p]
              BY <1>0, <1>1, <3>7, <4>2
        <5>2. b[q - p] = l[p + (q - p) - 1] /\ p + (q - p) - 1 = q - 1
              BY <1>0, <1>1, <3>2, <5>1 DEF b
        <5> QED BY <1>1, <4>2, <5>1, <5>2
      <4> QED BY <1>1, <4>1, <4>2
    <3> QED BY <3>7, <3>8
  <2> HIDE DEF r, p
  <2>3. p <= Len(l) => l[p][1] > e[1]
    <3> SUFFICES ASSUME p <= Len(l) PROVE l[p][1] # e[1]
        BY <1>0, <1>1
    <3>1. p \in 1..Len(l) /\ l[p] \in Mem(l)
          BY <1>0, <1>1 DEF Mem
    <3> QED BY <1>3, <3>1
  <2>4. ASSUME NEW q \in 1..Len(l), q >= p PROVE l[q][1] > e[1]
    <3>1. p \in 1..Len(l) /\ l[p][1] > e[1] /\ l[p][1] \in Nat /\ l[q][1] \in Nat
          BY <1>0, <1>1, <2>3, <2>4
    <3>2. p = q \/ l[p][1] < l[q][1]
          BY <1>0, <2>4, <3>1
    <3> QED BY <1>0, <3>1, <3>2
  <2>5. ASSUME NEW q \in 1..Len(r), NEW u \in 1..Len(r), q < u PROVE r[q][1] < r[u][1]
    <3>1. q \in 1..(Len(l) + 1) /\ u \in 1..(Len(l) + 1) /\ p \in 1..(Len(l) + 1)
          BY <1>0, <1>1, <2>2
    <3>2. CASE u < p
          BY <1>0, <2>2, <2>5, <3>1, <3>2
    <3>3. CASE u = p
          BY <1>0, <1>1, <2>2, <2>5, <3>1, <3>3
    <3>4. CASE u > p /\ q < p
      <4>1. r[q] = l[q] /\ r[u] = l[u - 1] /\ q \in 1..(p - 1) /\ u - 1 \in 1..Len(l) /\ u - 1 >= p
            /\ q \in 1..Len(l)
            BY <1>0, <2>2, <3>1, <3>4
      <4>2. l[q][1] < e[1] /\ l[u - 1][1] > e[1] /\ l[q][1] \in Nat /\ l[u - 1][1] \in Nat
            BY <1>0, <1>1, <2>4, <4>1
      <4> QED BY <1>0, <4>1, <4>2
    <3>5. CASE u > p /\ q = p
      <4>1. r[q] = e /\ r[u] = l[u - 1] /\ u - 1 \in 1..Len(l) /\ u - 1 >= p
            BY <1>0, <2>2, <3>1, <3>5
      <4> QED BY <1>0, <2>4, <4>1
    <3>6. CASE u > p /\ q > p
      <4>1. r[q] = l[q - 1] /\ r[u] = l[u - 1] /\ u - 1 \in 1..Len(l) /\ q - 1 \in 1..Len(l) /\ q - 1 < u - 1
            BY <1>0, <2>2, <2>5, <3>1, <3>6
      <4> QED BY <1>0, <4>1
    <3> QED BY <2>5, <3>1, <3>2, <3>3, <3>4, <3>5, <3>6
  <2>6. r \in Ordered
        BY <2>2, <2>5 DEF Ordered, Sorted
  <2>7. Mem(r) = Mem(l) \cup {e}
    <3>1. ASSUME NEW q \in 1..Len(r) PROVE r[q] \in Mem(l) \cup {e}
      <4>1. q \in 1..(Len(l) + 1) /\ p \in 1..(Len(l) + 1)
            BY <1>1, <2>2
      <4>2. CASE q < p
            BY <1>0, <2>2, <4>1, <4>2 DEF Mem
      <4>3. CASE q = p
            BY <2>2, <4>1, <4>3
      <4>4. CASE q > p
        <5>1. q - 1 \in 1..Len(l) /\ r[q] = l[q - 1]
              BY <1>0, <2>2, <4>1, <4>4
        <5> QED BY <5>1 DEF Mem
      <4> QED BY <4>1, <4>2, <4>3, <4>4
    <3>2. ASSUME NEW q \in 1..Len(l) PROVE l[q] \in Mem(r)
      <4>1. CASE q < p
        <5>1. q \in 1..Len(r) /\ r[q] = l[q]
              BY <1>0, <2>2, <4>1
        <5> QED BY <5>1 DEF Mem
      <4>2. CASE q >= p
        <5>1. q + 1 \in 1..Len(r) /\ r[q + 1] = l[(q + 1) - 1] /\ (q + 1) - 1 = q
              BY <1>0, <1>1, <2>2, <4>2
        <5> QED BY <5>1 DEF Mem
      <4> QED BY <1>1, <4>1, <4>2
    <3>3. e \in Mem(r)
      <4>1. p \in 1..Len(r) /\ r[p] = e
            BY <1>1, <2>2
      <4> QED BY <4>1 DEF Mem
    <3> QED BY <3>1, <3>2, <3>3 DEF Mem
  <2> QED BY <1>3, <2>1, <2>6, <2>7
<1> QED BY <1>2, <1>3

\* An element taken out.
LEMMA Erased ==
  ASSUME NEW l \in Ordered, NEW k \in Nat
  PROVE  /\ HM!EraseFromList(l, k) \in Ordered
         /\ Mem(HM!EraseFromList(l, k)) = {x \in Mem(l) : x[1] # k}
<1> DEFINE p == HM!FindPosInList(l, k)
           r == HM!RemoveAt(l, p)
<1>0. l \in Seq(Entry) /\ Len(l) \in Nat /\ (\A q \in 1..Len(l) : l[q] \in Entry /\ l[q][1] \in Nat)
      /\ (\A q, u \in 1..Len(l) : q < u => l[q][1] < l[u][1])
      BY Listed DEF Ordered, Sorted, Entry
<1>1. p \in 1..(Len(l) + 1)
      BY <1>0, FirstPlace
<1>f. HM!Has(l, k) <=> \E x \in Mem(l) : x[1] = k
      BY <1>0, Finds
<1>2. CASE ~ \E x \in Mem(l) : x[1] = k
      BY <1>2, <1>f DEF HM!EraseFromList
<1>3. CASE HM!Has(l, k)
  <2>0. p \in 1..Len(l) /\ l[p][1] = k
        BY <1>0, <1>1, <1>3 DEF HM!Has
  <2>1. HM!EraseFromList(l, k) = r
        BY <1>3 DEF HM!EraseFromList
  <2>2. /\ r \in Seq(Entry) /\ Len(r) = Len(l) - 1
        /\ \A q \in 1..(Len(l) - 1) : r[q] = IF q < p THEN l[q] ELSE l[q + 1]
    <3> HIDE DEF p
    <3>1. /\ SubSeq(l, 1, p - 1) \in Seq(Entry) /\ Len(SubSeq(l, 1, p - 1)) = p - 1
          /\ \A q \in 1..(p - 1) : SubSeq(l, 1, p - 1)[q] = l[q]
          BY <1>0, <2>0
    <3>2. /\ SubSeq(l, p + 1, Len(l)) \in Seq(Entry) /\ Len(SubSeq(l, p + 1, Len(l))) = Len(l) - p
          /\ \A q \in 1..(Len(l) - p) : SubSeq(l, p + 1, Len(l))[q] = l[p + q]
          BY <1>0, <2>0
    <3> DEFINE a == SubSeq(l, 1, p - 1)  b == SubSeq(l, p + 1, Len(l))
    <3>3. r = a \o b
          BY DEF HM!RemoveAt
    <3> HIDE DEF a, b, r
    <3>4. a \in Seq(Entry) /\ b \in Seq(Entry) /\ Len(a) = p - 1 /\ Len(b) = Len(l) - p
          BY <3>1, <3>2 DEF a, b
    <3>5. /\ r \in Seq(Entry) /\ Len(r) = Len(l) - 1
          /\ \A q \in 1..(Len(l) - 1) : r[q] = IF q < p THEN a[q] ELSE b[q - (p - 1)]
      <4>1. /\ a \o b \in Seq(Entry) /\ Len(a \o b) = Len(a) + Len(b)
            /\ \A q \in 1..(Len(a) + Len(b)) : (a \o b)[q] = IF q <= Len(a) THEN a[q] ELSE b[q - Len(a)]
            BY <3>4, ConcatProperties
      <4>2. Len(a) + Len(b) = Len(l) - 1 /\ Len(a) = p - 1
            BY <1>0, <2>0, <3>4
      <4>3. \A q \in 1..(Len(l) - 1) : q <= p - 1 <=> q < p
            BY <1>0, <2>0
      <4> QED BY <3>3, <4>1, <4>2, <4>3
    <3>6. ASSUME NEW q \in 1..(Len(l) - 1) PROVE r[q] = IF q < p THEN l[q] ELSE l[q + 1]
      <4>1. CASE q < p
        <5>1. r[q] = a[q] /\ q \in 1..(p - 1)
              BY <2>0, <3>5, <4>1
        <5> QED BY <3>1, <4>1, <5>1 DEF a
      <4>2. CASE q >= p
        <5>1. r[q] = b[q - (p - 1)] /\ q - (p - 1) \in 1..(Len(l) - p) /\ p + (q - (p - 1)) = q + 1
              BY <1>0, <2>0, <3>5, <4>2
        <5>2. b[q - (p - 1)] = l[p + (q - (p - 1))]
              BY <3>2, <5>1 DEF b
        <5> QED BY <2>0, <4>2, <5>1, <5>2
      <4> QED BY <2>0, <4>1, <4>2
    <3> QED BY <3>5, <3>6
  <2> HIDE DEF r, p
  <2>5. ASSUME NEW q \in 1..Len(r), NEW u \in 1..Len(r), q < u PROVE r[q][1] < r[u][1]
    <3> DEFINE i == IF q < p THEN q ELSE q + 1
               j == IF u < p THEN u ELSE u + 1
    <3>1. r[q] = l[i] /\ r[u] = l[j]
          BY <1>0, <2>0, <2>2
    <3>2. i \in 1..Len(l) /\ j \in 1..Len(l) /\ i < j
          BY <1>0, <2>0, <2>2, <2>5
    <3> HIDE DEF i, j
    <3> QED BY <1>0, <3>1, <3>2
  <2>6. r \in Ordered
        BY <2>2, <2>5 DEF Ordered, Sorted
  <2>7. \A q \in 1..Len(l) : q # p => l[q][1] # k
    <3> SUFFICES ASSUME NEW q \in 1..Len(l), q # p PROVE l[q][1] # k
        OBVIOUS
    <3>1. q < p \/ p < q
          BY <2>0
    <3> QED BY <1>0, <2>0, <3>1
  <2>8. ASSUME NEW x \in Mem(r) PROVE x \in Mem(l) /\ x[1] # k
    <3>1. PICK q \in 1..Len(r) : r[q] = x
          BY DEF Mem
    <3> DEFINE i == IF q < p THEN q ELSE q + 1
    <3>2. r[q] = l[i] /\ i \in 1..Len(l) /\ i # p
          BY <1>0, <2>0, <2>2
    <3> HIDE DEF i
    <3> QED BY <2>7, <3>1, <3>2 DEF Mem
  <2>9. ASSUME NEW x \in Mem(l), x[1] # k PROVE x \in Mem(r)
    <3>1. PICK i \in 1..Len(l) : l[i] = x
          BY DEF Mem
    <3>2. i # p
          BY <2>0, <2>9, <3>1
    <3>3. CASE i < p
      <4>1. i \in 1..Len(r) /\ r[i] = l[i]
            BY <1>0, <2>0, <2>2, <3>3
      <4> QED BY <3>1, <4>1 DEF Mem
    <3>4. CASE i > p
      <4>1. i - 1 \in 1..Len(r) /\ r[i - 1] = l[(i - 1) + 1] /\ (i - 1) + 1 = i
            BY <1>0, <2>0, <2>2, <3>4
      <4> QED BY <3>1, <4>1 DEF Mem
    <3> QED BY <2>0, <3>2, <3>3, <3>4
  <2> QED BY <2>1, <2>6, <2>8, <2>9
<1> QED BY <1>2, <1>3, <1>f

\* A loop whose turns are a function has an outcome after every turn.
IsLoop(T, N, x, step) == N \in Nat /\ x \in T /\ step \in [T \X (1..N) -> T]
HasRun(T, N, x, step) ==
    \E f \in [0..N -> T] : f[0] = x /\ \A k \in 1..N : f[k] = step[<<f[k - 1], k>>]

LEMMA Turns ==
  ASSUME NEW T, NEW N, NEW x, NEW step, IsLoop(T, N, x, step)
  PROVE  HasRun(T, N, x, step)
<1>0. N \in Nat /\ x \in T /\ step \in [T \X (1..N) -> T]
      BY DEF IsLoop
<1> DEFINE Upto(m) == \E f \in [0..m -> T] : f[0] = x /\ \A k \in 1..m : f[k] = step[<<f[k - 1], k>>]
           S == {m \in Nat : m <= N => Upto(m)}
<1>1. 0 \in S
  <2>1. PICK f \in [0..0 -> T] : f = [k \in 0..0 |-> x]
        BY <1>0
  <2>2. Upto(0)
        BY <2>1
  <2> HIDE DEF Upto
  <2> QED BY <2>2
<1>2. ASSUME NEW m \in Nat, m \in S PROVE m + 1 \in S
  <2> SUFFICES ASSUME m + 1 <= N PROVE Upto(m + 1)
    <3> HIDE DEF Upto
    <3> QED BY <1>0
  <2>0. Upto(m)
    <3> HIDE DEF Upto
    <3> QED BY <1>0, <1>2
  <2>1. PICK f \in [0..m -> T] : f[0] = x /\ \A k \in 1..m : f[k] = step[<<f[k - 1], k>>]
        BY <2>0
  <2>n. m + 1 \in 1..N /\ f[m] \in T
        BY <1>0
  <2>s. step[<<f[m], m + 1>>] \in T
        BY <1>0, <2>n
  <2> DEFINE g == [k \in 0..(m + 1) |-> IF k <= m THEN f[k] ELSE step[<<f[m], m + 1>>]]
  <2>2. g \in [0..(m + 1) -> T]
    <3>3. \A k \in 0..(m + 1) : (IF k <= m THEN f[k] ELSE step[<<f[m], m + 1>>]) \in T
          BY <2>s
    <3> QED BY <3>3
  <2>3. g[0] = x
        BY <2>1
  <2>4. ASSUME NEW k \in 1..(m + 1) PROVE g[k] = step[<<g[k - 1], k>>]
    <3>1. k - 1 \in 0..m /\ g[k - 1] = f[k - 1]
          OBVIOUS
    <3>2. CASE k <= m
      <4>1. k \in 1..m /\ g[k] = f[k]
            BY <3>2
      <4> HIDE DEF g
      <4> QED BY <2>1, <3>1, <4>1
    <3>3. CASE k = m + 1
      <4>1. g[k] = step[<<f[m], m + 1>>] /\ k - 1 = m
            BY <3>3
      <4> HIDE DEF g
      <4> QED BY <3>1, <3>3, <4>1
    <3> QED BY <3>2, <3>3
  <2> HIDE DEF g
  <2> QED BY <2>2, <2>3, <2>4
<1> HIDE DEF S
<1>3. Nat \subseteq S
      BY <1>1, <1>2, Induction
<1>4. Upto(N)
  <2> HIDE DEF Upto
  <2> QED BY <1>0, <1>3 DEF S
<1> QED BY <1>4 DEF HasRun

\* A turn of the loop of Split, and the loop.
Halves == [stay : Ordered, go : Ordered]
SplitTurn(l, i, m, h, p) ==
    IF l[p][1] % m = i THEN h
    ELSE [stay |-> HM!EraseFromList(h.stay, l[p][1]), go |-> HM!InsertIntoList(h.go, l[p])]
SplitRule(l, i, m, f) ==
    f = [p \in 0..Len(l) |-> IF p = 0 THEN [stay |-> l, go |-> <<>>]
                             ELSE IF l[p][1] % m = i THEN f[p - 1]
                             ELSE [stay |-> HM!EraseFromList(f[p - 1].stay, l[p][1]),
                                   go |-> HM!InsertIntoList(f[p - 1].go, l[p])]]

\* Split deals the elements out: those of list i stay and the others go.
LEMMA Dealt ==
  ASSUME NEW l \in Ordered, NEW i, NEW m
  PROVE  /\ HM!Split(l, i, m) \in Halves
         /\ Mem(HM!Split(l, i, m).stay) = {x \in Mem(l) : x[1] % m = i}
         /\ Mem(HM!Split(l, i, m).go) = {x \in Mem(l) : x[1] % m # i}
<1> DEFINE N == Len(l)
           x0 == [stay |-> l, go |-> <<>>]
<1>0. l \in Seq(Entry) /\ N \in Nat /\ (\A q \in 1..N : l[q] \in Entry /\ l[q][1] \in Nat)
      /\ (\A q, u \in 1..N : q < u => l[q][1] < l[u][1])
      BY Listed DEF Ordered, Sorted, Entry
<1>e. <<>> \in Ordered /\ Mem(<<>>) = {}
      BY DEF Ordered, Sorted, Mem
<1>x. x0 \in Halves
      BY <1>e DEF Halves
<1>t. ASSUME NEW h \in Halves, NEW p \in 1..N PROVE SplitTurn(l, i, m, h, p) \in Halves
  <2>1. h.stay \in Ordered /\ h.go \in Ordered /\ l[p] \in Entry /\ l[p][1] \in Nat
        BY <1>0 DEF Halves
  <2>2. HM!EraseFromList(h.stay, l[p][1]) \in Ordered /\ HM!InsertIntoList(h.go, l[p]) \in Ordered
        BY <2>1, Erased, Inserted
  <2>3. [stay |-> HM!EraseFromList(h.stay, l[p][1]), go |-> HM!InsertIntoList(h.go, l[p])] \in Halves
        BY <2>2 DEF Halves
  <2> QED BY <2>3 DEF SplitTurn
<1>1. \E f : SplitRule(l, i, m, f)
  <2> DEFINE step == [hp \in Halves \X (1..N) |-> SplitTurn(l, i, m, hp[1], hp[2])]
  <2>1. step \in [Halves \X (1..N) -> Halves]
    <3>1. \A hp \in Halves \X (1..N) : SplitTurn(l, i, m, hp[1], hp[2]) \in Halves
      <4> SUFFICES ASSUME NEW hp \in Halves \X (1..N) PROVE SplitTurn(l, i, m, hp[1], hp[2]) \in Halves
          OBVIOUS
      <4>1. hp[1] \in Halves /\ hp[2] \in 1..N
            OBVIOUS
      <4> QED BY <1>t, <4>1
    <3> QED BY <3>1
  <2>s. \A h \in Halves, p \in 1..N : step[<<h, p>>] = SplitTurn(l, i, m, h, p)
        OBVIOUS
  <2> HIDE DEF step, N, x0
  <2>2. PICK f \in [0..N -> Halves] : f[0] = x0 /\ \A k \in 1..N : f[k] = step[<<f[k - 1], k>>]
    <3>1. N \in Nat /\ x0 \in Halves
          BY <1>0, <1>x
    <3>2. IsLoop(Halves, N, x0, step)
          BY <2>1, <3>1 DEF IsLoop
    <3>3. HasRun(Halves, N, x0, step)
          BY <3>2, Turns
    <3> QED BY <3>3 DEF HasRun
  <2>3. ASSUME NEW k \in 0..N
        PROVE  f[k] = IF k = 0 THEN x0
                             ELSE IF l[k][1] % m = i THEN f[k - 1]
                             ELSE [stay |-> HM!EraseFromList(f[k - 1].stay, l[k][1]),
                                   go |-> HM!InsertIntoList(f[k - 1].go, l[k])]
    <3>1. f[k] = IF k = 0 THEN x0 ELSE step[<<f[k - 1], k>>]
          BY <1>0, <2>2
    <3>2. k # 0 => step[<<f[k - 1], k>>] = SplitTurn(l, i, m, f[k - 1], k)
      <4> SUFFICES ASSUME k # 0 PROVE step[<<f[k - 1], k>>] = SplitTurn(l, i, m, f[k - 1], k)
          OBVIOUS
      <4>1. k \in 1..N /\ f[k - 1] \in Halves
            BY <1>0
      <4> QED BY <2>s, <4>1
    <3> QED BY <3>1, <3>2 DEF SplitTurn
  <2>4. f = [k \in 0..N |-> f[k]]
        OBVIOUS
  <2>5. f = [k \in 0..N |-> IF k = 0 THEN x0
                             ELSE IF l[k][1] % m = i THEN f[k - 1]
                             ELSE [stay |-> HM!EraseFromList(f[k - 1].stay, l[k][1]),
                                   go |-> HM!InsertIntoList(f[k - 1].go, l[k])]]
        BY <2>3, <2>4
  <2> QED BY <2>5 DEF SplitRule, N, x0
<1> DEFINE f == CHOOSE f : SplitRule(l, i, m, f)
<1>2. SplitRule(l, i, m, f)
      BY <1>1
<1>3. HM!Split(l, i, m) = f[N]
      BY DEF HM!Split, SplitRule
<1> HIDE DEF f
<1>4. /\ f[0] = x0
      /\ \A k \in 1..N : f[k] = SplitTurn(l, i, m, f[k - 1], k)
      BY <1>0, <1>2 DEF SplitRule, SplitTurn
<1> HIDE DEF N
<1> DEFINE Done(p) == /\ f[p] \in Halves
                      /\ Mem(f[p].stay) = {l[q] : q \in {q \in 1..N : q > p \/ l[q][1] % m = i}}
                      /\ Mem(f[p].go) = {l[q] : q \in {q \in 1..p : l[q][1] % m # i}}
           S == {p \in Nat : p <= N => Done(p)}
<1>5. 0 \in S
  <2>1. f[0].stay = l /\ f[0].go = <<>> /\ f[0] \in Halves
        BY <1>4, <1>x
  <2>2. Mem(l) = {l[q] : q \in {q \in 1..N : q > 0 \/ l[q][1] % m = i}}
        BY <1>0 DEF Mem, N
  <2>3. Done(0)
        BY <1>e, <2>1, <2>2
  <2> HIDE DEF Done
  <2> QED BY <2>3
<1>6. ASSUME NEW p \in Nat, p \in S PROVE p + 1 \in S
  <2> SUFFICES ASSUME p + 1 <= N PROVE Done(p + 1)
    <3> HIDE DEF Done
    <3> QED OBVIOUS
  <2>1. Done(p)
    <3> HIDE DEF Done
    <3> QED BY <1>0, <1>6
  <2> DEFINE h == f[p]  e == l[p + 1]
  <2>2. p + 1 \in 1..N /\ f[p + 1] = SplitTurn(l, i, m, h, p + 1) /\ e \in Entry /\ e[1] \in Nat
    <3>1. p + 1 \in 1..N /\ (p + 1) - 1 = p
          BY <1>0
    <3> QED BY <1>0, <1>4, <3>1
  <2>3. f[p + 1] \in Halves
        BY <1>t, <2>1, <2>2 DEF N
  <2>k. \A q \in 1..N : q # p + 1 => l[q][1] # e[1]
    <3> SUFFICES ASSUME NEW q \in 1..N, q # p + 1 PROVE l[q][1] # e[1]
        OBVIOUS
    <3>1. q < p + 1 \/ p + 1 < q
          OBVIOUS
    <3> QED BY <1>0, <2>2, <3>1
  <2>h. h.stay \in Ordered /\ h.go \in Ordered
        BY <2>1 DEF Halves
  <2>m. /\ Mem(h.stay) = {l[q] : q \in {q \in 1..N : q > p \/ l[q][1] % m = i}}
        /\ Mem(h.go) = {l[q] : q \in {q \in 1..p : l[q][1] % m # i}}
        BY <2>1
  <2> HIDE DEF h, e
  <2>4. CASE e[1] % m = i
    <3>1. f[p + 1] = h
          BY <2>2, <2>4 DEF SplitTurn, e
    <3>2. {q \in 1..N : q > p \/ l[q][1] % m = i} = {q \in 1..N : q > p + 1 \/ l[q][1] % m = i}
          BY <2>4 DEF e
    <3>3. {q \in 1..p : l[q][1] % m # i} = {q \in 1..(p + 1) : l[q][1] % m # i}
          BY <2>4 DEF e
    <3> QED BY <2>3, <2>m, <3>1, <3>2, <3>3
  <2>5. CASE e[1] % m # i
    <3>1. f[p + 1] = [stay |-> HM!EraseFromList(h.stay, e[1]), go |-> HM!InsertIntoList(h.go, e)]
          BY <2>2, <2>5 DEF SplitTurn, e
    <3>2. Mem(HM!EraseFromList(h.stay, e[1])) = {x \in Mem(h.stay) : x[1] # e[1]}
          BY <2>2, <2>h, Erased
    <3>3. {x \in Mem(h.stay) : x[1] # e[1]} = {l[q] : q \in {q \in 1..N : q > p + 1 \/ l[q][1] % m = i}}
      <4>1. ASSUME NEW q \in 1..N, q > p \/ l[q][1] % m = i, l[q][1] # e[1] PROVE q > p + 1 \/ l[q][1] % m = i
            BY <4>1 DEF e
      <4>2. ASSUME NEW q \in 1..N, q > p + 1 \/ l[q][1] % m = i PROVE (q > p \/ l[q][1] % m = i) /\ l[q][1] # e[1]
            BY <2>5, <2>k, <4>2 DEF e
      <4> QED BY <2>m, <4>1, <4>2
    <3>4. ~ \E x \in Mem(h.go) : x[1] = e[1]
      <4>1. ASSUME NEW q \in 1..p PROVE l[q][1] # e[1]
        <5>1. q \in 1..N /\ q # p + 1
              BY <1>0
        <5> QED BY <2>k, <5>1
      <4> QED BY <2>m, <4>1
    <3>5. Mem(HM!InsertIntoList(h.go, e)) = Mem(h.go) \cup {e}
          BY <2>2, <2>h, <3>4, Inserted
    <3>6. Mem(h.go) \cup {e} = {l[q] : q \in {q \in 1..(p + 1) : l[q][1] % m # i}}
      <4>1. \A u : u \in {q \in 1..(p + 1) : l[q][1] % m # i} <=> u = p + 1 \/ u \in {q \in 1..p : l[q][1] % m # i}
            BY <2>5 DEF e
      <4> QED BY <2>m, <4>1 DEF e
    <3> QED BY <2>3, <3>1, <3>2, <3>3, <3>5, <3>6
  <2> QED BY <2>4, <2>5
<1> HIDE DEF S
<1>7. Nat \subseteq S
      BY <1>5, <1>6, Induction
<1>8. Done(N)
  <2> HIDE DEF Done
  <2> QED BY <1>0, <1>7 DEF S
<1>9. /\ {l[q] : q \in {q \in 1..N : q > N \/ l[q][1] % m = i}} = {x \in Mem(l) : x[1] % m = i}
      /\ {l[q] : q \in {q \in 1..N : l[q][1] % m # i}} = {x \in Mem(l) : x[1] % m # i}
      BY <1>0 DEF Mem, N
<1> QED BY <1>3, <1>8, <1>9

\* Division with a remainder.
LEMMA Division ==
  ASSUME NEW k \in Nat, NEW n \in Nat \ {0}
  PROVE  k \div n \in Int /\ k % n \in 0..(n - 1) /\ k = n * (k \div n) + (k % n)
OBVIOUS

\* The remainder is the only one there is.
LEMMA Remainder ==
  ASSUME NEW m \in Nat \ {0}, NEW a \in Int, NEW b \in 0..(m - 1)
  PROVE  (m * a + b) % m = b
<1> DEFINE k == m * a + b  q == k \div m  r == k % m
<1>1. k \in Int /\ q \in Int /\ r \in 0..(m - 1) /\ k = m * q + r
      OBVIOUS
<1> HIDE DEF q, r
<1>2. m * (a - q) = r - b
  <2>1. m * (a - q) = m * a - m * q
        BY <1>1
  <2> QED BY <1>1, <2>1
<1>3. ~(a - q >= 1)
  <2> SUFFICES ASSUME a - q >= 1 PROVE FALSE
      OBVIOUS
  <2>1. m * (a - q) >= m
        BY <1>1
  <2> QED BY <1>1, <1>2, <2>1
<1>4. ~(a - q <= -1)
  <2> SUFFICES ASSUME a - q <= -1 PROVE FALSE
      OBVIOUS
  <2>1. m * (a - q) <= -m
        BY <1>1
  <2> QED BY <1>1, <1>2, <2>1
<1>5. a = q
      BY <1>1, <1>3, <1>4
<1>6. m * a = m * q
      BY <1>5
<1> QED BY <1>1, <1>6 DEF r, k

\* Twice as many lists: the same one, or the one that far behind it.
LEMMA HalfMod ==
  ASSUME NEW k \in Nat, NEW m \in Nat \ {0}
  PROVE  k % (2 * m) = k % m \/ k % (2 * m) = (k % m) + m
<1> DEFINE q == k \div (2 * m)  j == k % (2 * m)
<1>0. 2 * m \in Nat \ {0}
      OBVIOUS
<1>1. q \in Int /\ j \in 0..(2 * m - 1) /\ k = (2 * m) * q + j
      BY <1>0, Division
<1> HIDE DEF q, j
<1>2. (2 * m) * q = m * (2 * q) /\ m * (2 * q + 1) = m * (2 * q) + m
      BY <1>1
<1>3. CASE j < m
  <2>1. j \in 0..(m - 1) /\ 2 * q \in Int
        BY <1>1, <1>3
  <2>2. (m * (2 * q) + j) % m = j
        BY <2>1, Remainder
  <2>3. k = m * (2 * q) + j
        BY <1>1, <1>2
  <2> QED BY <2>2, <2>3 DEF j
<1>4. CASE j >= m
  <2>1. j - m \in 0..(m - 1) /\ 2 * q + 1 \in Int
        BY <1>1, <1>4
  <2>2. (m * (2 * q + 1) + (j - m)) % m = j - m
        BY <2>1, Remainder
  <2>3. k = m * (2 * q + 1) + (j - m)
        BY <1>1, <1>2
  <2>4. k % m = j - m
        BY <2>2, <2>3
  <2> QED BY <1>1, <2>4 DEF j
<1> QED BY <1>1, <1>3, <1>4

-----------------------------------------------------------------------------
\* A table of m lists in order, each element where its hash says.
TableOf(tab, m) == /\ tab \in [0..(m - 1) -> Ordered]
                   /\ \A i \in 0..(m - 1) : \A x \in Mem(tab[i]) : x[1] % m = i
Stored(tab, m) == UNION {Mem(tab[i]) : i \in 0..(m - 1)}

TableInv == \E m \in Nat \ {0} : /\ TableOf(table_, m)
                                 /\ IsFiniteSet(Stored(table_, m))
                                 /\ size_ = Cardinality(Stored(table_, m))

\* What a table has.
LEMMA TableFacts ==
  ASSUME NEW m \in Nat \ {0}, NEW tab, TableOf(tab, m)
  PROVE  /\ HM!Count(tab) = m /\ DOMAIN tab = 0..(m - 1)
         /\ \A i \in 0..(m - 1) : tab[i] \in Ordered
         /\ \A k \in Nat : k % m \in 0..(m - 1)
         /\ \A x \in Stored(tab, m) : x \in Entry /\ x[1] \in Nat /\ x \in Mem(tab[x[1] % m])
         /\ \A i \in 0..(m - 1) : Mem(tab[i]) \subseteq Stored(tab, m)
<1>1. \A S : HM!Cardinality(S) = Cardinality(S)
      BY DEF HM!Cardinality, Cardinality
<1>2. DOMAIN tab = 0..(m - 1) /\ \A i \in 0..(m - 1) : tab[i] \in Ordered
      BY DEF TableOf
<1>3. Cardinality(0..(m - 1)) = m
      BY FS_Interval
<1>4. HM!Count(tab) = m
      BY <1>1, <1>2, <1>3 DEF HM!Count
<1>5. \A k \in Nat : k % m \in 0..(m - 1)
      BY Division
<1>6. ASSUME NEW x \in Stored(tab, m) PROVE x \in Entry /\ x[1] \in Nat /\ x \in Mem(tab[x[1] % m])
  <2>1. PICK i \in 0..(m - 1) : x \in Mem(tab[i])
        BY DEF Stored
  <2>2. x[1] % m = i
        BY <2>1 DEF TableOf
  <2>3. tab[i] \in Seq(Entry)
        BY <1>2 DEF Ordered
  <2>4. x \in Entry /\ x[1] \in Nat
        BY <2>1, <2>3, Listed DEF Mem
  <2> QED BY <2>1, <2>2, <2>4
<1>7. \A i \in 0..(m - 1) : Mem(tab[i]) \subseteq Stored(tab, m)
      BY DEF Stored
<1> QED BY <1>2, <1>4, <1>5, <1>6, <1>7

\* One list replaced.
Replaced(tab, i, l) == [tab EXCEPT ![i] = l]
LEMMA OneList ==
  ASSUME NEW m \in Nat \ {0}, NEW tab, TableOf(tab, m), NEW i \in 0..(m - 1), NEW l \in Ordered,
         \A x \in Mem(l) : x[1] % m = i
  PROVE  /\ TableOf(Replaced(tab, i, l), m)
         /\ Stored(Replaced(tab, i, l), m) = {x \in Stored(tab, m) : x[1] % m # i} \cup Mem(l)
<1> DEFINE new == Replaced(tab, i, l)
<1>1. new \in [0..(m - 1) -> Ordered] /\ new[i] = l /\ \A j \in 0..(m - 1) : j # i => new[j] = tab[j]
      BY DEF TableOf, Replaced
<1> HIDE DEF new
<1>2. TableOf(new, m)
  <2> SUFFICES ASSUME NEW j \in 0..(m - 1), NEW x \in Mem(new[j]) PROVE x[1] % m = j
      BY <1>1 DEF TableOf
  <2>1. CASE j = i
        BY <1>1, <2>1
  <2>2. CASE j # i
        BY <1>1, <2>2 DEF TableOf
  <2> QED BY <2>1, <2>2
<1>3. ASSUME NEW x \in Stored(new, m) PROVE x \in {y \in Stored(tab, m) : y[1] % m # i} \cup Mem(l)
  <2>1. PICK j \in 0..(m - 1) : x \in Mem(new[j])
        BY DEF Stored
  <2>2. CASE j = i
        BY <1>1, <2>1, <2>2
  <2>3. CASE j # i
    <3>1. x \in Mem(tab[j]) /\ x[1] % m = j
          BY <1>1, <2>1, <2>3 DEF TableOf
    <3> QED BY <2>3, <3>1 DEF Stored
  <2> QED BY <2>2, <2>3
<1>4. ASSUME NEW x \in Stored(tab, m), x[1] % m # i PROVE x \in Stored(new, m)
  <2>1. PICK j \in 0..(m - 1) : x \in Mem(tab[j])
        BY DEF Stored
  <2>2. x[1] % m = j
        BY <2>1 DEF TableOf
  <2> QED BY <1>1, <1>4, <2>1, <2>2 DEF Stored
<1>5. Mem(l) \subseteq Stored(new, m)
      BY <1>1 DEF Stored
<1> QED BY <1>2, <1>3, <1>4, <1>5 DEF new

\* Insert adds an element unless its key is there.
LEMMA InsertTable ==
  ASSUME NEW m \in Nat \ {0}, NEW tab, TableOf(tab, m), NEW e \in Entry,
         NEW new, new = Replaced(tab, e[1] % m, HM!InsertIntoList(tab[e[1] % m], e))
  PROVE  /\ TableOf(new, m)
         /\ HM!Has(tab[e[1] % m], e[1]) => Stored(new, m) = Stored(tab, m)
         /\ ~HM!Has(tab[e[1] % m], e[1]) => e \notin Stored(tab, m) /\ Stored(new, m) = Stored(tab, m) \cup {e}
<1> DEFINE k == e[1]  i == k % m  l == tab[i]  r == HM!InsertIntoList(l, e)
<1>0. k \in Nat /\ i \in 0..(m - 1) /\ l \in Ordered
      BY TableFacts DEF Entry
<1>1. r \in Ordered /\ Mem(r) = IF \E x \in Mem(l) : x[1] = k THEN Mem(l) ELSE Mem(l) \cup {e}
      BY <1>0, Inserted
<1>2. HM!Has(l, k) <=> \E x \in Mem(l) : x[1] = k
      BY <1>0, Finds
<1>m. \A x \in Mem(l) : x[1] % m = i /\ x \in Stored(tab, m)
      BY <1>0, TableFacts DEF TableOf
<1>s. \A x \in Stored(tab, m) : x \in Mem(tab[x[1] % m])
      BY TableFacts
<1>e. e[1] % m = i
      OBVIOUS
<1> HIDE DEF k, i, l, r
<1>3. \A x \in Mem(r) : x[1] % m = i
      BY <1>1, <1>m, <1>e
<1>4. TableOf(new, m) /\ Stored(new, m) = {x \in Stored(tab, m) : x[1] % m # i} \cup Mem(r)
  <2>1. new = Replaced(tab, i, r)
        BY DEF k, i, l, r
  <2>2. r \in Ordered
        BY <1>1
  <2> QED BY <1>0, <1>3, <2>1, <2>2, OneList
<1>5. Stored(tab, m) = {x \in Stored(tab, m) : x[1] % m # i} \cup Mem(l)
      BY <1>m, <1>s DEF l
<1>6. CASE HM!Has(l, k)
      BY <1>1, <1>2, <1>4, <1>5, <1>6 DEF k, i, l
<1>7. CASE ~HM!Has(l, k)
  <2>1. Mem(r) = Mem(l) \cup {e}
        BY <1>1, <1>2, <1>7
  <2>2. e \notin Mem(l)
        BY <1>2, <1>7 DEF k
  <2>3. e \notin Stored(tab, m)
        BY <1>s, <1>e, <2>2 DEF l
  <2> QED BY <1>4, <1>5, <1>7, <2>1, <2>3 DEF k, i, l
<1> QED BY <1>6, <1>7

\* Erase takes the element of a key out.
Erases(tab, new, m, k) ==
    /\ ~HM!Has(tab[k % m], k) => Stored(new, m) = Stored(tab, m)
    /\ HM!Has(tab[k % m], k) => \E e \in Stored(tab, m) : Stored(new, m) = Stored(tab, m) \ {e}

LEMMA EraseTable ==
  ASSUME NEW m \in Nat \ {0}, NEW tab, TableOf(tab, m), NEW k \in Nat,
         NEW new, new = Replaced(tab, k % m, HM!EraseFromList(tab[k % m], k))
  PROVE  TableOf(new, m) /\ Erases(tab, new, m, k)
<1> DEFINE i == k % m  l == tab[i]  r == HM!EraseFromList(l, k)
<1>0. i \in 0..(m - 1) /\ l \in Ordered
      BY TableFacts
<1>1. r \in Ordered /\ Mem(r) = {x \in Mem(l) : x[1] # k}
      BY <1>0, Erased
<1>2. /\ HM!Has(l, k) <=> \E x \in Mem(l) : x[1] = k
      /\ \A x \in Mem(l) : x[1] = k => l[HM!FindPosInList(l, k)] = x
      BY <1>0, Finds
<1>m. \A x \in Mem(l) : x[1] % m = i /\ x \in Stored(tab, m)
      BY <1>0, TableFacts DEF TableOf
<1>s. \A x \in Stored(tab, m) : x \in Mem(tab[x[1] % m])
      BY TableFacts
<1>e. \A x : x[1] = k => x[1] % m = i
      OBVIOUS
<1> HIDE DEF i, l, r
<1>3. \A x \in Mem(r) : x[1] % m = i
      BY <1>1, <1>m
<1>4. TableOf(new, m) /\ Stored(new, m) = {x \in Stored(tab, m) : x[1] % m # i} \cup Mem(r)
  <2>1. new = Replaced(tab, i, r)
        BY DEF i, l, r
  <2>2. r \in Ordered
        BY <1>1
  <2> QED BY <1>0, <1>3, <2>1, <2>2, OneList
<1>5. Stored(tab, m) = {x \in Stored(tab, m) : x[1] % m # i} \cup Mem(l)
      BY <1>m, <1>s DEF l
<1>6. CASE ~HM!Has(l, k)
      BY <1>1, <1>2, <1>4, <1>5, <1>6 DEF Erases, i, l
<1>7. CASE HM!Has(l, k)
  <2>1. PICK e \in Mem(l) : e[1] = k
        BY <1>2, <1>7
  <2>2. \A x \in Mem(l) : x[1] = k => x = e
        BY <1>2, <2>1
  <2>3. Mem(r) = Mem(l) \ {e} /\ e \in Stored(tab, m) /\ e[1] % m = i
        BY <1>1, <1>m, <2>1, <2>2
  <2>4. Stored(new, m) = Stored(tab, m) \ {e}
        BY <1>4, <1>5, <2>3
  <2> QED BY <1>4, <1>7, <2>3, <2>4 DEF Erases, i, l
<1> QED BY <1>6, <1>7

\* Rehash loses nothing and puts everything where it belongs.
LEMMA RehashTable ==
  ASSUME NEW m \in Nat \ {0}, NEW tab, TableOf(tab, m)
  PROVE  TableOf(HM!Rehashed(tab), 2 * m) /\ Stored(HM!Rehashed(tab), 2 * m) = Stored(tab, m)
<1> DEFINE new == HM!Rehashed(tab)
           L(i) == IF i < m THEN HM!Split(tab[i], i, 2 * m).stay ELSE HM!Split(tab[i - m], i - m, 2 * m).go
<1>1. new = [i \in 0..(2 * m - 1) |-> L(i)]
  <2>1. HM!Count(tab) = m
        BY TableFacts
  <2> QED BY <2>1 DEF HM!Rehashed
<1>2. ASSUME NEW i \in 0..(m - 1)
      PROVE  /\ HM!Split(tab[i], i, 2 * m).stay \in Ordered /\ HM!Split(tab[i], i, 2 * m).go \in Ordered
             /\ Mem(HM!Split(tab[i], i, 2 * m).stay) = {x \in Mem(tab[i]) : x[1] % (2 * m) = i}
             /\ Mem(HM!Split(tab[i], i, 2 * m).go) = {x \in Mem(tab[i]) : x[1] % (2 * m) = i + m}
  <2>1. tab[i] \in Ordered
        BY TableFacts
  <2>2. /\ HM!Split(tab[i], i, 2 * m) \in Halves
        /\ Mem(HM!Split(tab[i], i, 2 * m).stay) = {x \in Mem(tab[i]) : x[1] % (2 * m) = i}
        /\ Mem(HM!Split(tab[i], i, 2 * m).go) = {x \in Mem(tab[i]) : x[1] % (2 * m) # i}
        BY <2>1, Dealt
  <2>3. ASSUME NEW x \in Mem(tab[i]) PROVE x[1] % (2 * m) # i <=> x[1] % (2 * m) = i + m
    <3>1. x[1] \in Nat /\ x[1] % m = i
          BY TableFacts DEF TableOf, Stored
    <3>2. x[1] % (2 * m) = i \/ x[1] % (2 * m) = i + m
          BY <3>1, HalfMod
    <3>3. i # i + m
          OBVIOUS
    <3> QED BY <3>2, <3>3
  <2> QED BY <2>2, <2>3 DEF Halves
<1>i. ASSUME NEW i \in 0..(2 * m - 1)
      PROVE  (i < m => i \in 0..(m - 1)) /\ (~(i < m) => i - m \in 0..(m - 1) /\ (i - m) + m = i)
      OBVIOUS
<1>3. ASSUME NEW i \in 0..(2 * m - 1)
      PROVE  /\ L(i) \in Ordered
             /\ Mem(L(i)) = {x \in Mem(tab[IF i < m THEN i ELSE i - m]) : x[1] % (2 * m) = i}
  <2>1. CASE i < m
        BY <1>2, <1>i, <2>1
  <2>2. CASE ~(i < m)
    <3> DEFINE j == i - m
    <3>1. j \in 0..(m - 1) /\ j + m = i
          BY <1>i, <2>2
    <3>2. L(i) = HM!Split(tab[j], j, 2 * m).go
          BY <2>2
    <3> HIDE DEF j, L
    <3>3. /\ HM!Split(tab[j], j, 2 * m).go \in Ordered
          /\ Mem(HM!Split(tab[j], j, 2 * m).go) = {x \in Mem(tab[j]) : x[1] % (2 * m) = j + m}
          BY <1>2, <3>1
    <3> QED BY <2>2, <3>1, <3>2, <3>3 DEF j
  <2> QED BY <2>1, <2>2
<1>n. DOMAIN new = 0..(2 * m - 1) /\ \A i \in 0..(2 * m - 1) : new[i] = L(i)
      BY <1>1
<1>t. new \in [0..(2 * m - 1) -> Ordered]
      BY <1>1, <1>3
<1> HIDE DEF new, L
<1>4. TableOf(new, 2 * m)
      BY <1>3, <1>n, <1>t DEF TableOf
<1>5. ASSUME NEW x \in Stored(new, 2 * m) PROVE x \in Stored(tab, m)
  <2>1. PICK i \in 0..(2 * m - 1) : x \in Mem(new[i])
        BY DEF Stored
  <2> DEFINE j == IF i < m THEN i ELSE i - m
  <2>2. j \in 0..(m - 1)
        BY <1>i
  <2>3. x \in Mem(tab[j])
        BY <1>3, <1>n, <2>1
  <2> HIDE DEF j
  <2> QED BY <2>2, <2>3 DEF Stored
<1>6. ASSUME NEW x \in Stored(tab, m) PROVE x \in Stored(new, 2 * m)
  <2>1. PICK j \in 0..(m - 1) : x \in Mem(tab[j])
        BY DEF Stored
  <2>2. x[1] \in Nat /\ x[1] % m = j
        BY <2>1, TableFacts DEF TableOf
  <2>3. x[1] % (2 * m) = j \/ x[1] % (2 * m) = j + m
        BY <2>2, HalfMod
  <2> DEFINE i == x[1] % (2 * m)
  <2>4. i \in 0..(2 * m - 1) /\ (IF i < m THEN i ELSE i - m) = j
        BY <2>3
  <2>5. x \in Mem(L(i))
        BY <1>3, <2>1, <2>4
  <2> HIDE DEF i
  <2> QED BY <1>n, <2>4, <2>5 DEF Stored
<1> QED BY <1>4, <1>5, <1>6 DEF new

\* The elements are those of the table.
LEMMA ElementsAre ==
  ASSUME NEW m \in Nat \ {0}, TableOf(table_, m)
  PROVE  HM!Elements = Stored(table_, m)
<1>1. DOMAIN table_ = 0..(m - 1)
      BY TableFacts
<1> QED BY <1>1 DEF HM!Elements, Stored, Mem

\* The table under every operation.
LEMMA TableStep == TableInv /\ [HM!Next]_HM!vars => TableInv'
<1> SUFFICES ASSUME TableInv, [HM!Next]_HM!vars PROVE TableInv'
    OBVIOUS
<1>0. Keys \subseteq Nat
      BY StructureConstants DEF HM!HashConstants
<1>1. PICK m \in Nat \ {0} : /\ TableOf(table_, m) /\ IsFiniteSet(Stored(table_, m))
                             /\ size_ = Cardinality(Stored(table_, m))
      BY DEF TableInv
<1>c. HM!Count(table_) = m /\ DOMAIN table_ = 0..(m - 1) /\ \A k \in Nat : k % m \in 0..(m - 1)
      BY <1>1, TableFacts
<1>k. CASE UNCHANGED <<table_, size_>>
      BY <1>1, <1>k DEF TableInv
<1>2. CASE \E t \in Thread : HM!Insert(t)
  <2>1. PICK t \in Thread, k \in Keys :
           /\ table_' = [table_ EXCEPT ![k % m] = HM!InsertIntoList(table_[k % m], <<k, t>>)]
           /\ size_' = IF HM!Has(table_[k % m], k) THEN size_ ELSE size_ + 1
        BY <1>2, <1>c DEF HM!Insert, HM!List
  <2> DEFINE e == <<k, t>>
  <2>2. e \in Entry /\ e[1] = k
        BY <1>0 DEF Entry
  <2>3. /\ TableOf(table_', m)
        /\ HM!Has(table_[k % m], k) => Stored(table_', m) = Stored(table_, m)
        /\ ~HM!Has(table_[k % m], k) => e \notin Stored(table_, m) /\ Stored(table_', m) = Stored(table_, m) \cup {e}
    <3>1. table_' = Replaced(table_, e[1] % m, HM!InsertIntoList(table_[e[1] % m], e))
          BY <2>1, <2>2 DEF Replaced
    <3> HIDE DEF e
    <3> QED BY <1>1, <2>2, <3>1, InsertTable
  <2> HIDE DEF e
  <2>4. IsFiniteSet(Stored(table_', m)) /\ size_' = Cardinality(Stored(table_', m))
    <3>1. CASE HM!Has(table_[k % m], k)
          BY <1>1, <2>1, <2>3, <3>1
    <3>2. CASE ~HM!Has(table_[k % m], k)
      <4>1. size_' = size_ + 1 /\ e \notin Stored(table_, m) /\ Stored(table_', m) = Stored(table_, m) \cup {e}
            BY <2>1, <2>3, <3>2
      <4>2. /\ IsFiniteSet(Stored(table_, m) \cup {e})
            /\ Cardinality(Stored(table_, m) \cup {e}) = Cardinality(Stored(table_, m)) + 1
            BY <1>1, <4>1, FS_AddElement
      <4> QED BY <1>1, <4>1, <4>2
    <3> QED BY <3>1, <3>2
  <2> QED BY <2>3, <2>4 DEF TableInv
<1>3. CASE \E t \in Thread : HM!Erase(t)
  <2>1. PICK k \in Keys :
           /\ table_' = [table_ EXCEPT ![k % m] = HM!EraseFromList(table_[k % m], k)]
           /\ size_' = IF HM!Has(table_[k % m], k) THEN size_ - 1 ELSE size_
        BY <1>3, <1>c DEF HM!Erase, HM!List
  <2>2. k \in Nat
        BY <1>0
  <2>3. /\ TableOf(table_', m)
        /\ ~HM!Has(table_[k % m], k) => Stored(table_', m) = Stored(table_, m)
        /\ HM!Has(table_[k % m], k) => \E e \in Stored(table_, m) : Stored(table_', m) = Stored(table_, m) \ {e}
    <3>1. table_' = Replaced(table_, k % m, HM!EraseFromList(table_[k % m], k))
          BY <2>1 DEF Replaced
    <3>2. TableOf(table_, m)
          BY <1>1
    <3>3. TableOf(table_', m) /\ Erases(table_, table_', m, k)
          BY <2>2, <3>1, <3>2, EraseTable
    <3> QED BY <3>3 DEF Erases
  <2>4. IsFiniteSet(Stored(table_', m)) /\ size_' = Cardinality(Stored(table_', m))
    <3>1. CASE ~HM!Has(table_[k % m], k)
          BY <1>1, <2>1, <2>3, <3>1
    <3>2. CASE HM!Has(table_[k % m], k)
      <4>1. PICK e \in Stored(table_, m) : Stored(table_', m) = Stored(table_, m) \ {e}
            BY <2>3, <3>2
      <4> QED BY <1>1, <2>1, <3>2, <4>1, FS_RemoveElement
    <3> QED BY <3>1, <3>2
  <2> QED BY <2>3, <2>4 DEF TableInv
<1>4. CASE \E t \in Thread : HM!ClearAll(t)
  <2>1. table_' = [i \in 0..(m - 1) |-> <<>>] /\ size_' = 0
        BY <1>4, <1>c DEF HM!ClearAll
  <2>2. <<>> \in Ordered /\ Mem(<<>>) = {}
        BY DEF Ordered, Sorted, Mem
  <2>3. TableOf(table_', m) /\ Stored(table_', m) = {}
        BY <2>1, <2>2 DEF TableOf, Stored
  <2> QED BY <2>1, <2>3, FS_EmptySet DEF TableInv
<1>5. CASE \E t \in Thread : HM!Rehash(t)
  <2>1. table_' = HM!Rehashed(table_) /\ size_' = size_
        BY <1>5 DEF HM!Rehash
  <2>2. TableOf(table_', 2 * m) /\ Stored(table_', 2 * m) = Stored(table_, m)
        BY <1>1, <2>1, RehashTable
  <2>3. 2 * m \in Nat \ {0}
        OBVIOUS
  <2> QED BY <1>1, <2>1, <2>2, <2>3 DEF TableInv
<1>6. \/ UNCHANGED <<table_, size_>>
      \/ \E t \in Thread : HM!Insert(t) \/ HM!Erase(t) \/ HM!ClearAll(t) \/ HM!Rehash(t)
  <2>1. CASE UNCHANGED HM!vars
        BY <2>1 DEF HM!vars
  <2>2. CASE HM!Next
    <3>1. PICK t \in Thread : HM!Insert(t) \/ HM!Erase(t) \/ HM!Clear(t) \/ HM!Inside(t)
          BY <2>2 DEF HM!Next
    <3>2. HM!Clear(t) \/ HM!InsertCheck(t) \/ HM!InsertTestAndSet(t) \/ HM!LockNext(t) \/ HM!UnlockNext(t)
             => UNCHANGED <<table_, size_>>
          BY DEF HM!Clear, HM!InsertCheck, HM!InsertTestAndSet, HM!LockNext, HM!UnlockNext
    <3> QED BY <3>1, <3>2 DEF HM!Inside
  <2> QED BY <2>1, <2>2
<1> QED BY <1>k, <1>2, <1>3, <1>4, <1>5, <1>6

\* For any number of threads, keys and rehashings, Find reaches exactly the elements
\* that the calls have left in the concurrent hash map, and size_ counts them.
THEOREM HashFindsAll == HM!Spec => []EveryKeyIsFound
<1>1. HM!Init => TableInv
  <2> SUFFICES ASSUME HM!Init PROVE TableInv
      OBVIOUS
  <2>0. HM!lists_cnt \in Nat \ {0}
        BY StructureConstants DEF HM!HashConstants
  <2>1. table_ = [i \in 0..(HM!lists_cnt - 1) |-> <<>>] /\ size_ = 0
        BY DEF HM!Init
  <2>2. <<>> \in Ordered /\ Mem(<<>>) = {}
        BY DEF Ordered, Sorted, Mem
  <2>3. TableOf(table_, HM!lists_cnt) /\ Stored(table_, HM!lists_cnt) = {}
        BY <2>1, <2>2 DEF TableOf, Stored
  <2> QED BY <2>0, <2>1, <2>3, FS_EmptySet DEF TableInv
<1>2. TableInv => EveryKeyIsFound
  <2> SUFFICES ASSUME TableInv PROVE HM!EveryKeyIsFound
      BY DEF EveryKeyIsFound
  <2>1. PICK m \in Nat \ {0} : TableOf(table_, m) /\ size_ = Cardinality(Stored(table_, m))
        BY DEF TableInv
  <2>2. HM!Elements = Stored(table_, m) /\ HM!Count(table_) = m
        BY <2>1, ElementsAre, TableFacts
  <2>3. ASSUME NEW e \in Stored(table_, m) PROVE HM!Find(e[1]) = e[2]
    <3>1. e[1] \in Nat /\ e \in Mem(table_[e[1] % m]) /\ table_[e[1] % m] \in Ordered
          BY <2>1, TableFacts
    <3>2. HM!Has(table_[e[1] % m], e[1]) /\ table_[e[1] % m][HM!FindPosInList(table_[e[1] % m], e[1])] = e
          BY <3>1, Finds
    <3> QED BY <2>2, <3>2 DEF HM!Find, HM!List
  <2>4. size_ = HM!Cardinality(HM!Elements)
        BY <2>1, <2>2 DEF HM!Cardinality, Cardinality
  <2> QED BY <2>2, <2>3, <2>4 DEF HM!EveryKeyIsFound
<1> QED BY <1>1, <1>2, TableStep, PTL DEF HM!Spec

-----------------------------------------------------------------------------
MapScanPCs == {"exchange", "lock threads", "collect", "delete"}
CallPCs == {"acquire", "publish", "reload", "acquired", "lock"}
MapPCs == {"start", "idle", "retire", "count", "check", "scan", "try", "retired", "done", "gave up"}
             \cup CallPCs \cup MapScanPCs

MapType ==
    /\ mapPtr \in Snapshots \cup {Null} /\ mapLive \in SUBSET Snapshots
    /\ mapHazard \in [Thread -> Snapshots \cup {Null}] /\ mapThreads \in SUBSET Thread
    /\ mapFree \in SUBSET Snapshots /\ mapScanLock \in Thread \cup {Null}
    /\ mapScan \in [retired : SUBSET Snapshots, hazard : SUBSET Snapshots, left : SUBSET Thread]
    /\ mapPc \in [Thread -> MapPCs] /\ mapVal \in [Thread -> Snapshots \cup {Null}]
    /\ snapshot \in [Snapshots -> [read_only : SM!Maps, dirty : BOOLEAN]]
    /\ mutable_map_ \in SM!Maps \cup {None} /\ mapMutex \in Thread \cup {None}
    /\ before \in [Thread -> SM!Maps] /\ DOMAIN call = Thread /\ DOMAIN ret = Thread

\* A thread that has replaced the snapshot and holds mutex_.
Section(t) == \/ mapPc[t] \in {"retire", "count", "check", "retired"}
              \/ t \in mapThreads /\ mapPc[t] \in {"scan", "try"} \cup MapScanPCs

\* Who is registered, who is in a call and who holds mutex_.
Sections ==
    /\ \A t \in Thread :
          /\ mapMutex = t <=> Section(t)
          /\ mapPc[t] \in CallPCs \cup {"idle", "retire", "count", "check", "retired"} => t \in mapThreads
          /\ mapPc[t] \in {"start", "done", "gave up"} => t \notin mapThreads
          /\ mapPc[t] \in CallPCs \/ Section(t) => call[t] \in {"Lookup", "Insert"} \X Key
    /\ mapPtr = Null => \A t \in Thread : mapPc[t] \in {"done", "gave up"}

\* One scan at a time; it deletes only after it has read every hazard pointer.
MapOneScan ==
    \A t \in Thread : /\ mapPc[t] \in MapScanPCs <=> mapScanLock = t
                      /\ mapPc[t] = "delete" => mapScan.left = {}

MapRetired == mapFree \cup mapScan.retired

\* The current snapshot is not retired, and a replaced one only once.
SnapshotsApart ==
    /\ MapRetired \subseteq mapLive /\ mapFree \cap mapScan.retired = {}
    /\ mapPtr # Null => mapPtr \in mapLive \ MapRetired
    /\ \A t \in Thread : mapPc[t] = "retire" => mapVal[t] \in mapLive \ (MapRetired \cup {mapPtr})

\* A snapshot in use is allocated, and a scan that could delete it has read the
\* hazard pointer, or will.
InUse(t) ==
    /\ mapVal[t] \in mapLive
    /\ mapVal[t] \in mapScan.retired => \/ \E u \in Thread : mapPc[u] = "lock threads"
                                        \/ t \in mapScan.left \/ mapVal[t] \in mapScan.hazard

MapProtection ==
    \A t \in Thread :
        /\ mapPc[t] \in {"reload", "acquired"} => mapHazard[t] = mapVal[t]
        /\ mapPc[t] = "acquired" => InUse(t)

\* Every key of m is in n, with the same value.
Within(m, n) == \A k \in Key : m[k] # None => n[k] = m[k]

\* The snapshot and the mutable map have no key in common, except while a promotion
\* is not over, and together they have no key that a clean snapshot has not.
Pair ==
    mapPtr # Null =>
      /\ mapMutex = None /\ ~snapshot[mapPtr].dirty => mutable_map_ = None
      /\ \A t \in Thread : mapMutex = t =>
            IF call[t][1] = "Lookup" THEN mutable_map_ = snapshot[mapPtr].read_only
                                     ELSE snapshot[mapPtr].dirty
      /\ mutable_map_ # None /\ (\A t \in Thread : mapMutex = t => call[t][1] # "Lookup") =>
            \A k \in Key : snapshot[mapPtr].read_only[k] = None \/ mutable_map_[k] = None

\* What was in the map when a call began is still there, and a snapshot in use has
\* nothing else; it has all of that unless it is dirty.
Seen ==
    \A t \in Thread :
        /\ mapPc[t] \in CallPCs => Within(before[t], SM!Contents)
        /\ mapPc[t] = "acquired" =>
              /\ Within(snapshot[mapVal[t]].read_only, SM!Contents)
              /\ ~snapshot[mapVal[t]].dirty => Within(before[t], snapshot[mapVal[t]].read_only)

MapInv == MapType /\ Sections /\ MapOneScan /\ SnapshotsApart /\ MapProtection /\ Pair /\ Seen

aside == <<SM!mapVars, SM!callVars>>

\* A locked call that leaves the snapshot in place.
LockedKeeps(t) ==
    /\ mapMutex = None /\ SM!At(t, "lock", "idle")
    /\ UNCHANGED <<mapPtr, mapLive, mapHazard, SM!retireVars, mapVal, snapshot, mapMutex, call, before>>

\* A locked call that puts a new snapshot, at n, in its place.
LockedReplaces(t, n) ==
    /\ mapMutex = None /\ SM!At(t, "lock", "retire") /\ mapMutex' = t
    /\ mapLive' = mapLive \cup {n} /\ mapPtr' = n /\ SM!Local(t, mapPtr)
    /\ \E m \in SM!Maps, d \in BOOLEAN :
          snapshot' = [snapshot EXCEPT ![n] = [read_only |-> m, dirty |-> d]]
    /\ UNCHANGED <<mapHazard, SM!retireVars, call, before>>

MapStep(t) == \/ SM!Call(t) \/ SM!ReadSnapshot(t) \/ SM!LookupLocked(t) \/ SM!InsertLocked(t) \/ SM!Unlock(t)
              \/ SM!HazardStep(t) /\ UNCHANGED aside

\* The contents of a snapshot and a mutable map.
Both(read_only, mutable) == IF mutable = None THEN read_only ELSE SM!Join(read_only, mutable)

\* What joining two maps gives.
LEMMA JoinMaps ==
  ASSUME NEW m \in SM!Maps, NEW n \in SM!Maps
  PROVE  /\ SM!Join(m, n) \in SM!Maps
         /\ \A k \in Key : SM!Join(m, n)[k] = IF m[k] # None THEN m[k] ELSE n[k]
BY DEF SM!Join, SM!Maps

\* What a snapshot and a mutable map hold together.
LEMMA BothMaps ==
  ASSUME NEW m \in SM!Maps, NEW n \in SM!Maps \cup {None}
  PROVE  /\ Both(m, n) \in SM!Maps
         /\ \A k \in Key : Both(m, n)[k] = IF n = None \/ m[k] # None THEN m[k] ELSE n[k]
<1>1. CASE n = None
      BY <1>1 DEF Both
<1>2. CASE n # None
      BY <1>2, JoinMaps DEF Both
<1> QED BY <1>1, <1>2

\* A thread is not None, nor is a map.
LEMMA Apartness ==
  /\ None \notin Thread /\ None \notin SM!Maps /\ Null \notin Snapshots /\ Null \notin Thread
  /\ SM!EmptyMap \in SM!Maps
BY StructureConstants DEF SM!MapConstants, SM!HazardConstants, SM!EmptyMap, SM!Maps

\* What the two locked operations do, apart from the mutable map.
LEMMA Locked ==
  ASSUME MapType, NEW t \in Thread, SM!LookupLocked(t) \/ SM!InsertLocked(t), call[t][2] \in Key, mapPtr \in Snapshots
  PROVE  /\ mutable_map_' \in SM!Maps \cup {None} /\ DOMAIN ret' = DOMAIN ret
         /\ LockedKeeps(t) \/ \E n \in Snapshots \ mapLive : LockedReplaces(t, n)
<1> DEFINE old == snapshot[mapPtr].read_only
           k == call[t][2]
<1>0. /\ old \in SM!Maps /\ k \in Key /\ mutable_map_ \in SM!Maps \cup {None}
      BY DEF MapType
<1>r. DOMAIN ret' = DOMAIN ret
      BY DEF SM!LookupLocked, SM!InsertLocked, SM!Return
<1>1. CASE SM!LookupLocked(t)
  <2>1. CASE SM!KeepSnapshot(t) /\ UNCHANGED mutable_map_
    <3>1. LockedKeeps(t)
          BY <1>1, <2>1 DEF SM!LookupLocked, SM!KeepSnapshot, LockedKeeps
    <3> QED BY <1>0, <1>r, <2>1, <3>1
  <2>2. CASE /\ mutable_map_ # None /\ SM!At(t, "lock", "retire")
             /\ mutable_map_' = SM!Join(mutable_map_, old) /\ SM!Replace(t, mutable_map_', FALSE)
    <3>1. mutable_map_' \in SM!Maps
          BY <1>0, <2>2, JoinMaps
    <3>2. PICK n \in Snapshots \ mapLive :
              /\ mapLive' = mapLive \cup {n} /\ mapPtr' = n
              /\ snapshot' = [snapshot EXCEPT ![n] = [read_only |-> mutable_map_', dirty |-> FALSE]]
          BY <2>2 DEF SM!Replace
    <3>3. LockedReplaces(t, n)
          BY <1>1, <2>2, <3>1, <3>2 DEF SM!LookupLocked, SM!Replace, LockedReplaces
    <3> QED BY <1>r, <3>1, <3>3
  <2> QED BY <1>1, <2>1, <2>2 DEF SM!LookupLocked
<1>2. CASE SM!InsertLocked(t)
  <2>1. CASE SM!KeepSnapshot(t) /\ UNCHANGED mutable_map_
    <3>1. LockedKeeps(t)
          BY <1>2, <2>1 DEF SM!InsertLocked, SM!KeepSnapshot, LockedKeeps
    <3> QED BY <1>0, <1>r, <2>1, <3>1
  <2> DEFINE put == [(IF mutable_map_ = None THEN SM!EmptyMap ELSE mutable_map_) EXCEPT ![k] = t]
  <2>2. put \in SM!Maps
    <3>1. (IF mutable_map_ = None THEN SM!EmptyMap ELSE mutable_map_) \in SM!Maps
          BY <1>0, Apartness
    <3> QED BY <3>1, <1>0 DEF SM!Maps
  <2>3. CASE SM!KeepSnapshot(t) /\ mutable_map_' = put
    <3>1. LockedKeeps(t)
          BY <1>2, <2>3 DEF SM!InsertLocked, SM!KeepSnapshot, LockedKeeps
    <3> QED BY <1>r, <2>2, <2>3, <3>1
  <2>4. CASE SM!At(t, "lock", "retire") /\ mutable_map_' = put /\ SM!Replace(t, old, TRUE)
    <3>1. mutable_map_' \in SM!Maps
          BY <2>2, <2>4
    <3>2. PICK n \in Snapshots \ mapLive :
              /\ mapLive' = mapLive \cup {n} /\ mapPtr' = n
              /\ snapshot' = [snapshot EXCEPT ![n] = [read_only |-> old, dirty |-> TRUE]]
          BY <2>4 DEF SM!Replace
    <3>3. LockedReplaces(t, n)
          BY <1>0, <1>2, <2>4, <3>2 DEF SM!InsertLocked, SM!Replace, LockedReplaces
    <3> QED BY <1>r, <3>1, <3>3
  <2> QED BY <1>2, <2>1, <2>3, <2>4 DEF SM!InsertLocked
<1> QED BY <1>1, <1>2

\* Whoever makes a step has a snapshot, and it is in a call when it takes mutex_.
LEMMA StepPtr ==
  ASSUME MapInv, NEW t \in Thread, MapStep(t)
  PROVE  /\ mapPtr \in Snapshots /\ mapMutex \in Thread \cup {None}
         /\ SM!LookupLocked(t) \/ SM!InsertLocked(t) =>
               /\ call[t][2] \in Key /\ mutable_map_' \in SM!Maps \cup {None} /\ DOMAIN ret' = DOMAIN ret
               /\ LockedKeeps(t) \/ \E n \in Snapshots \ mapLive : LockedReplaces(t, n)
<1>1. mapPc[t] \notin {"done", "gave up"}
  <2>1. CASE SM!Call(t) \/ SM!ReadSnapshot(t) \/ SM!LookupLocked(t) \/ SM!InsertLocked(t) \/ SM!Unlock(t)
        BY <2>1 DEF SM!Call, SM!ReadSnapshot, SM!LookupLocked, SM!InsertLocked, SM!Unlock, SM!At
  <2>2. CASE SM!AcquireLoad(t) \/ SM!AcquirePublish(t) \/ SM!AcquireReload(t) \/ SM!RetirePush(t)
             \/ SM!RetireCount(t) \/ SM!RetireCheck(t) \/ SM!ScanReset(t) \/ SM!ScanTryLock(t)
        BY <2>2 DEF SM!AcquireLoad, SM!AcquirePublish, SM!AcquireReload, SM!RetirePush,
           SM!RetireCount,
                    SM!RetireCheck, SM!ScanReset, SM!ScanTryLock, SM!At
  <2>3. CASE SM!ScanExchange(t) \/ SM!ScanLockThreads(t) \/ SM!ScanCollect(t) \/ SM!ScanDelete(t)
             \/ SM!RegisterThread(t) \/ SM!UnregisterThread(t)
        BY <2>3 DEF SM!ScanExchange, SM!ScanLockThreads, SM!ScanCollect, SM!ScanDelete,
           SM!RegisterThread,
                    SM!UnregisterThread, SM!At
  <2> QED BY <2>1, <2>2, <2>3 DEF MapStep, SM!HazardStep
<1>2. mapPtr \in Snapshots /\ mapMutex \in Thread \cup {None}
      BY <1>1 DEF MapInv, MapType, Sections
<1>3. ASSUME SM!LookupLocked(t) \/ SM!InsertLocked(t) PROVE call[t][2] \in Key
  <2>1. mapPc[t] = "lock"
        BY <1>3 DEF SM!LookupLocked, SM!InsertLocked
  <2> QED BY <2>1 DEF MapInv, Sections, CallPCs
<1>4. MapType
      BY DEF MapInv
<1> QED BY <1>2, <1>3, <1>4, Locked

\* A step of t changes the local state of t only.
MapOthers(t) == \A u \in Thread : u # t =>
    /\ mapPc'[u] = mapPc[u] /\ mapVal'[u] = mapVal[u] /\ mapHazard'[u] = mapHazard[u]
    /\ call'[u] = call[u] /\ before'[u] = before[u] /\ (u \in mapThreads' <=> u \in mapThreads)

\* Every step is a step of one thread.
LEMMA StepMapOthers ==
  ASSUME MapInv, NEW t \in Thread, MapStep(t)
  PROVE  MapOthers(t)
<1> USE DEF MapInv, MapType, MapOthers, SM!At, SM!Local, SM!retireVars, aside, SM!callVars,
            SM!mapVars, SM!hpVars
<1>1. CASE SM!Call(t) \/ SM!ReadSnapshot(t) \/ SM!Unlock(t)
      BY <1>1 DEF SM!Call, SM!ReadSnapshot, SM!Unlock
<1>2. CASE SM!LookupLocked(t) \/ SM!InsertLocked(t)
      BY <1>2, StepPtr DEF LockedKeeps, LockedReplaces
<1>3. ASSUME \/ SM!AcquireLoad(t) \/ SM!AcquirePublish(t) \/ SM!AcquireReload(t) \/ SM!RetirePush(t)
             \/ SM!RetireCount(t) \/ SM!RetireCheck(t) \/ SM!ScanReset(t) \/ SM!ScanTryLock(t),
             UNCHANGED aside
      PROVE  MapOthers(t)
      BY <1>3 DEF SM!AcquireLoad, SM!AcquirePublish, SM!AcquireReload, SM!RetirePush,
         SM!RetireCount,
                  SM!RetireCheck, SM!ScanReset, SM!ScanTryLock
<1>4. ASSUME \/ SM!ScanExchange(t) \/ SM!ScanLockThreads(t) \/ SM!ScanCollect(t) \/ SM!ScanDelete(t)
             \/ SM!RegisterThread(t) \/ SM!UnregisterThread(t),
             UNCHANGED aside
      PROVE  MapOthers(t)
  <2>1. CASE SM!ScanExchange(t) \/ SM!ScanLockThreads(t) \/ SM!ScanCollect(t)
        BY <1>4, <2>1 DEF SM!ScanExchange, SM!ScanLockThreads, SM!ScanCollect
  <2>2. CASE SM!ScanDelete(t) \/ SM!RegisterThread(t) \/ SM!UnregisterThread(t)
        BY <1>4, <2>2 DEF SM!ScanDelete, SM!RegisterThread, SM!UnregisterThread
  <2> QED BY <1>4, <2>1, <2>2
<1> QED BY <1>1, <1>2, <1>3, <1>4 DEF MapStep, SM!HazardStep

\* What the steps of the library do to the objects: nothing, but for Retire and the scan.
LEMMA StepMapType ==
  ASSUME MapInv, NEW t \in Thread, MapStep(t)
  PROVE  MapType'
<1>0. MapType /\ mapPtr \in Snapshots
      BY StepPtr DEF MapInv
<1> USE DEF MapType, MapPCs, CallPCs, MapScanPCs, SM!At, SM!Local, SM!retireVars, aside,
            SM!callVars, SM!mapVars, SM!hpVars
<1>1. CASE SM!Call(t)
  <2>1. SM!Contents \in SM!Maps
    <3>1. PICK m \in SM!Maps, n \in SM!Maps \cup {None} : m = snapshot[mapPtr].read_only /\ n = mutable_map_
          BY <1>0
    <3>2. SM!Contents = Both(m, n)
          BY <3>1 DEF SM!Contents, Both
    <3>3. Both(m, n) \in SM!Maps
          BY BothMaps
    <3> QED BY <3>2, <3>3
  <2>2. before' = [before EXCEPT ![t] = SM!Contents] /\ DOMAIN call' = DOMAIN call
        BY <1>1 DEF SM!Call
  <2>3. before' \in [Thread -> SM!Maps]
        BY <1>0, <2>1, <2>2
  <2>4. mapPc' = [mapPc EXCEPT ![t] = "acquire"]
           /\ UNCHANGED <<mapPtr, mapLive, mapHazard, mapVal, SM!retireVars, SM!mapVars, ret>>
        BY <1>1 DEF SM!Call
  <2> QED BY <1>0, <2>2, <2>3, <2>4
<1>2. CASE SM!ReadSnapshot(t)
      BY <1>0, <1>2 DEF SM!ReadSnapshot, SM!Return
<1>3. CASE SM!Unlock(t)
      BY <1>0, <1>3 DEF SM!Unlock
<1>4. CASE SM!LookupLocked(t) \/ SM!InsertLocked(t)
  <2>1. mutable_map_' \in SM!Maps \cup {None} /\ DOMAIN ret' = DOMAIN ret
        BY <1>4, StepPtr
  <2>2. CASE LockedKeeps(t)
        BY <1>0, <2>1, <2>2 DEF LockedKeeps
  <2>3. ASSUME NEW n \in Snapshots \ mapLive, LockedReplaces(t, n) PROVE MapType'
    <3>1. PICK m \in SM!Maps, d \in BOOLEAN :
             snapshot' = [snapshot EXCEPT ![n] = [read_only |-> m, dirty |-> d]]
          BY <2>3 DEF LockedReplaces
    <3>2. snapshot' \in [Snapshots -> [read_only : SM!Maps, dirty : BOOLEAN]]
          BY <1>0, <3>1
    <3> QED BY <1>0, <2>1, <2>3, <3>2 DEF LockedReplaces
  <2> QED BY <1>4, <2>2, <2>3, StepPtr
<1>5. ASSUME SM!AcquireLoad(t), UNCHANGED aside PROVE MapType'
      BY <1>0, <1>5 DEF SM!AcquireLoad
<1>6. ASSUME SM!AcquirePublish(t), UNCHANGED aside PROVE MapType'
      BY <1>0, <1>6 DEF SM!AcquirePublish
<1>7. ASSUME SM!AcquireReload(t), UNCHANGED aside PROVE MapType'
      BY <1>0, <1>7 DEF SM!AcquireReload
<1>8. ASSUME SM!RetireCount(t), UNCHANGED aside PROVE MapType'
      BY <1>0, <1>8 DEF SM!RetireCount
<1>9. ASSUME SM!RetireCheck(t), UNCHANGED aside PROVE MapType'
      BY <1>0, <1>9 DEF SM!RetireCheck
<1>10. ASSUME SM!ScanReset(t), UNCHANGED aside PROVE MapType'
      BY <1>0, <1>10 DEF SM!ScanReset
<1>11. ASSUME SM!ScanTryLock(t), UNCHANGED aside PROVE MapType'
      BY <1>0, <1>11 DEF SM!ScanTryLock
<1>12. ASSUME SM!ScanExchange(t), UNCHANGED aside PROVE MapType'
      BY <1>0, <1>12 DEF SM!ScanExchange
<1>13. ASSUME SM!ScanLockThreads(t), UNCHANGED aside PROVE MapType'
      BY <1>0, <1>13 DEF SM!ScanLockThreads
<1>14. ASSUME SM!RegisterThread(t), UNCHANGED aside PROVE MapType'
      BY <1>0, <1>14 DEF SM!RegisterThread
<1>15. ASSUME SM!UnregisterThread(t), UNCHANGED aside PROVE MapType'
      BY <1>0, <1>15 DEF SM!UnregisterThread
<1>16. ASSUME SM!RetirePush(t), UNCHANGED aside PROVE MapType'
  <2>1. mapPc[t] = "retire" /\ mapVal[t] \in Snapshots
    <3>1. mapPc[t] = "retire"
          BY <1>16 DEF SM!RetirePush
    <3> QED BY <3>1, <1>0 DEF MapInv, SnapshotsApart
  <2> QED BY <1>0, <1>16, <2>1 DEF SM!RetirePush
<1>17. ASSUME SM!ScanCollect(t), UNCHANGED aside PROVE MapType'
  <2>1. CASE UNCHANGED mapScan
        BY <1>0, <1>17, <2>1 DEF SM!ScanCollect
  <2>2. ASSUME NEW u \in mapScan.left,
               mapScan' = [mapScan EXCEPT !.left = @ \ {u}, !.hazard = @ \cup ({mapHazard[u]} \ {Null})]
        PROVE  mapScan' \in [retired : SUBSET Snapshots, hazard : SUBSET Snapshots, left : SUBSET Thread]
    <3>1. u \in Thread /\ mapHazard[u] \in Snapshots \cup {Null}
          BY <1>0
    <3> QED BY <1>0, <2>2, <3>1
  <2> QED BY <1>0, <1>17, <2>1, <2>2 DEF SM!ScanCollect
<1>18. ASSUME SM!ScanDelete(t), UNCHANGED aside PROVE MapType'
  <2>1. CASE UNCHANGED <<mapScan, mapLive, mapFree>> /\ mapScanLock' = Null /\ SM!At(t, "delete", SM!ScanReturn(t))
        BY <1>0, <1>18, <2>1 DEF SM!ScanDelete, SM!ScanReturn
  <2>2. ASSUME NEW n \in mapScan.retired,
               SM!At(t, "delete", "delete") /\ UNCHANGED mapScanLock,
               mapScan' = [mapScan EXCEPT !.retired = @ \ {n}],
               mapLive' = IF n \in mapScan.hazard THEN mapLive ELSE mapLive \ {n},
               mapFree' = IF n \in mapScan.hazard THEN mapFree \cup {n} ELSE mapFree
        PROVE  MapType'
    <3>1. n \in Snapshots /\ mapScan' \in [retired : SUBSET Snapshots, hazard : SUBSET Snapshots, left : SUBSET Thread]
          BY <1>0, <2>2
    <3>2. mapLive' \in SUBSET Snapshots /\ mapFree' \in SUBSET Snapshots
          BY <1>0, <2>2, <3>1
    <3> QED BY <1>0, <1>18, <2>2, <3>1, <3>2 DEF SM!ScanDelete
  <2> QED BY <1>18, <2>1, <2>2 DEF SM!ScanDelete
<1> QED BY <1>1, <1>2, <1>3, <1>4, <1>5, <1>6, <1>7, <1>8, <1>9, <1>10, <1>11, <1>12, <1>13, <1>14,
           <1>15, <1>16, <1>17, <1>18
       DEF MapStep, SM!HazardStep

\* Every step keeps scan_lock with the one scan there is.
LEMMA StepMapScan ==
  ASSUME MapInv, NEW t \in Thread, MapStep(t)
  PROVE  MapOneScan'
<1>0. MapType /\ MapOneScan /\ Null \notin Thread
      BY Apartness DEF MapInv
<1> USE DEF MapType, MapOneScan, MapScanPCs, SM!At, SM!Local, SM!retireVars, aside, SM!callVars,
            SM!mapVars, SM!hpVars
<1>1. CASE SM!Call(t)
      BY <1>0, <1>1 DEF SM!Call
<1>2. CASE SM!ReadSnapshot(t)
  <2>1. UNCHANGED <<mapScan, mapScanLock>> /\ mapPc[t] = "acquired"
           /\ (mapPc' = [mapPc EXCEPT ![t] = "idle"] \/ mapPc' = [mapPc EXCEPT ![t] = "lock"])
        BY <1>2 DEF SM!ReadSnapshot
  <2> QED BY <1>0, <2>1
<1>3. CASE SM!Unlock(t)
      BY <1>0, <1>3 DEF SM!Unlock
<1>4. CASE SM!LookupLocked(t) \/ SM!InsertLocked(t)
  <2>1. UNCHANGED <<mapScan, mapScanLock>> /\ mapPc[t] = "lock"
           /\ (mapPc' = [mapPc EXCEPT ![t] = "idle"] \/ mapPc' = [mapPc EXCEPT ![t] = "retire"])
        BY <1>4, StepPtr DEF LockedKeeps, LockedReplaces
  <2> QED BY <1>0, <2>1
<1>5. ASSUME SM!AcquireLoad(t), UNCHANGED aside PROVE MapOneScan'
      BY <1>0, <1>5 DEF SM!AcquireLoad
<1>6. ASSUME SM!AcquirePublish(t), UNCHANGED aside PROVE MapOneScan'
      BY <1>0, <1>6 DEF SM!AcquirePublish
<1>7. ASSUME SM!AcquireReload(t), UNCHANGED aside PROVE MapOneScan'
      BY <1>0, <1>7 DEF SM!AcquireReload
<1>8. ASSUME SM!RetirePush(t), UNCHANGED aside PROVE MapOneScan'
      BY <1>0, <1>8 DEF SM!RetirePush
<1>9. ASSUME SM!RetireCount(t), UNCHANGED aside PROVE MapOneScan'
      BY <1>0, <1>9 DEF SM!RetireCount
<1>10. ASSUME SM!RetireCheck(t), UNCHANGED aside PROVE MapOneScan'
      BY <1>0, <1>10 DEF SM!RetireCheck
<1>11. ASSUME SM!ScanReset(t), UNCHANGED aside PROVE MapOneScan'
      BY <1>0, <1>11 DEF SM!ScanReset
<1>12. ASSUME SM!ScanTryLock(t), UNCHANGED aside PROVE MapOneScan'
      BY <1>0, <1>12 DEF SM!ScanTryLock
<1>13. ASSUME SM!ScanExchange(t), UNCHANGED aside PROVE MapOneScan'
      BY <1>0, <1>13 DEF SM!ScanExchange
<1>14. ASSUME SM!ScanLockThreads(t), UNCHANGED aside PROVE MapOneScan'
      BY <1>0, <1>14 DEF SM!ScanLockThreads
<1>15. ASSUME SM!ScanCollect(t), UNCHANGED aside PROVE MapOneScan'
      BY <1>0, <1>15 DEF SM!ScanCollect
<1>16. ASSUME SM!RegisterThread(t), UNCHANGED aside PROVE MapOneScan'
      BY <1>0, <1>16 DEF SM!RegisterThread
<1>17. ASSUME SM!UnregisterThread(t), UNCHANGED aside PROVE MapOneScan'
      BY <1>0, <1>17 DEF SM!UnregisterThread
<1>18. ASSUME SM!ScanDelete(t), UNCHANGED aside PROVE MapOneScan'
  <2>1. CASE mapScanLock' = Null /\ UNCHANGED mapScan /\ SM!At(t, "delete", SM!ScanReturn(t))
        BY <1>0, <2>1 DEF SM!ScanReturn
  <2>2. CASE UNCHANGED mapScanLock /\ SM!At(t, "delete", "delete") /\ mapScan'.left = mapScan.left
        BY <1>0, <2>2
  <2>3. ASSUME NEW n \in mapScan.retired, mapScan' = [mapScan EXCEPT !.retired = @ \ {n}]
        PROVE  mapScan'.left = mapScan.left
        BY <1>0, <2>3
  <2> QED BY <1>18, <2>1, <2>2, <2>3 DEF SM!ScanDelete
<1> QED BY <1>1, <1>2, <1>3, <1>4, <1>5, <1>6, <1>7, <1>8, <1>9, <1>10, <1>11, <1>12, <1>13, <1>14,
           <1>15, <1>16, <1>17, <1>18
       DEF MapStep, SM!HazardStep

\* Every step keeps mutex_ with the thread that has replaced the snapshot.
LEMMA StepSections ==
  ASSUME MapInv, NEW t \in Thread, MapStep(t)
  PROVE  Sections'
<1> DEFINE Place(u) ==
      /\ mapMutex = u <=> Section(u)
      /\ mapPc[u] \in CallPCs \cup {"idle", "retire", "count", "check", "retired"} => u \in mapThreads
      /\ mapPc[u] \in {"start", "done", "gave up"} => u \notin mapThreads
      /\ mapPc[u] \in CallPCs \/ Section(u) => call[u] \in {"Lookup", "Insert"} \X Key
<1>0. /\ MapType /\ (\A u \in Thread : Place(u)) /\ MapOthers(t) /\ mapPtr \in Snapshots
      /\ None \notin Thread /\ Null \notin Snapshots
      BY StepMapOthers, StepPtr, Apartness DEF MapInv, Sections
<1>o. ASSUME NEW u \in Thread, u # t, mapMutex' = u <=> mapMutex = u PROVE Place(u)'
      BY <1>0, <1>o DEF MapOthers, Section
<1>s. ASSUME mapPtr' \in Snapshots, Place(t)', \A u \in Thread : u # t => (mapMutex' = u <=> mapMutex = u)
      PROVE  Sections'
      BY <1>0, <1>o, <1>s DEF Sections
<1> USE DEF MapType, CallPCs, MapScanPCs, Section, SM!At, SM!Local, SM!retireVars, aside,
            SM!callVars, SM!mapVars, SM!hpVars
<1> HIDE DEF Place
<1>1. CASE SM!Call(t)
  <2>1. UNCHANGED <<mapPtr, mapMutex, mapThreads>> /\ mapPc[t] = "idle" /\ mapPc'[t] = "acquire"
           /\ call'[t] \in {"Lookup", "Insert"} \X Key
        BY <1>0, <1>1 DEF SM!Call
  <2>2. Place(t)'
        BY <1>0, <2>1 DEF Place
  <2> QED BY <1>0, <1>s, <2>1, <2>2
<1>2. CASE SM!ReadSnapshot(t)
  <2>1. UNCHANGED <<mapPtr, mapMutex, mapThreads, call>> /\ mapPc[t] = "acquired" /\ mapPc'[t] \in {"idle", "lock"}
        BY <1>0, <1>2 DEF SM!ReadSnapshot
  <2>2. Place(t)'
        BY <1>0, <2>1 DEF Place
  <2> QED BY <1>0, <1>s, <2>1, <2>2
<1>3. CASE SM!Unlock(t)
  <2>1. UNCHANGED <<mapPtr, mapThreads, call>> /\ mapPc[t] = "retired" /\ mapPc'[t] = "idle" /\ mapMutex' = None
        BY <1>0, <1>3 DEF SM!Unlock
  <2>2. Place(t)'
        BY <1>0, <2>1 DEF Place
  <2>3. mapMutex = t
        BY <1>0, <2>1 DEF Place
  <2> QED BY <1>0, <1>s, <2>1, <2>2, <2>3
<1>4. CASE SM!LookupLocked(t) \/ SM!InsertLocked(t)
  <2>1. CASE LockedKeeps(t)
    <3>1. UNCHANGED <<mapPtr, mapMutex, mapThreads, call>> /\ mapPc[t] = "lock" /\ mapPc'[t] = "idle"
          BY <1>0, <2>1 DEF LockedKeeps
    <3>2. Place(t)'
          BY <1>0, <3>1 DEF Place
    <3> QED BY <1>0, <1>s, <3>1, <3>2
  <2>2. ASSUME NEW n \in Snapshots \ mapLive, LockedReplaces(t, n) PROVE Sections'
    <3>1. /\ UNCHANGED <<mapThreads, call>> /\ mapPc[t] = "lock" /\ mapPc'[t] = "retire" /\ mapPtr' = n
          /\ mapMutex = None /\ mapMutex' = t
          BY <1>0, <2>2 DEF LockedReplaces
    <3>2. Place(t)'
          BY <1>0, <3>1 DEF Place
    <3> QED BY <1>0, <1>s, <3>1, <3>2
  <2> QED BY <1>4, <2>1, <2>2, StepPtr
<1>5. CASE SM!HazardStep(t) /\ UNCHANGED aside
  <2>1. UNCHANGED <<mapPtr, mapMutex, call>>
        BY <1>5 DEF SM!HazardStep, SM!AcquireLoad, SM!AcquirePublish, SM!AcquireReload,
           SM!RetirePush,
                    SM!RetireCount, SM!RetireCheck, SM!ScanReset, SM!ScanTryLock, SM!ScanExchange,
                    SM!ScanLockThreads, SM!ScanCollect, SM!ScanDelete, SM!RegisterThread, SM!UnregisterThread
  <2>2. Place(t)'
    <3>1. CASE SM!AcquireLoad(t) \/ SM!AcquirePublish(t) \/ SM!AcquireReload(t)
      <4>1. UNCHANGED mapThreads /\ mapPc[t] \in CallPCs /\ mapPc'[t] \in CallPCs
            BY <1>0, <3>1 DEF SM!AcquireLoad, SM!AcquirePublish, SM!AcquireReload
      <4> QED BY <1>0, <2>1, <4>1 DEF Place
    <3>2. CASE SM!RetirePush(t) \/ SM!RetireCount(t) \/ SM!RetireCheck(t)
      <4>1. UNCHANGED mapThreads /\ mapPc[t] \in {"retire", "count", "check"}
               /\ mapPc'[t] \in {"count", "check", "retired", "scan"}
            BY <1>0, <3>2 DEF SM!RetirePush, SM!RetireCount, SM!RetireCheck
      <4> QED BY <1>0, <2>1, <4>1 DEF Place
    <3>3. CASE SM!ScanReset(t) \/ SM!ScanTryLock(t) \/ SM!ScanExchange(t) \/ SM!ScanLockThreads(t)
               \/ SM!ScanCollect(t) \/ SM!ScanDelete(t)
      <4>1. UNCHANGED mapThreads /\ mapPc[t] \in {"scan", "try"} \cup MapScanPCs
               /\ (t \in mapThreads => mapPc'[t] \in {"scan", "try", "retired"} \cup MapScanPCs)
               /\ (t \notin mapThreads => mapPc'[t] \in {"scan", "try", "done", "gave up"} \cup MapScanPCs)
        <5>1. CASE SM!ScanReset(t) \/ SM!ScanTryLock(t)
              BY <1>0, <5>1 DEF SM!ScanReset, SM!ScanTryLock
        <5>2. CASE SM!ScanExchange(t) \/ SM!ScanLockThreads(t) \/ SM!ScanCollect(t) \/ SM!ScanDelete(t)
              BY <1>0, <5>2 DEF SM!ScanExchange, SM!ScanLockThreads, SM!ScanCollect, SM!ScanDelete,
                 SM!ScanReturn
        <5> QED BY <3>3, <5>1, <5>2
      <4> QED BY <1>0, <2>1, <4>1 DEF Place
    <3>4. CASE SM!RegisterThread(t) \/ SM!UnregisterThread(t)
      <4>1. \/ t \in mapThreads' /\ mapPc[t] = "start" /\ mapPc'[t] = "idle"
            \/ t \notin mapThreads' /\ mapPc[t] = "idle" /\ mapPc'[t] \in {"scan", "done"}
            BY <1>0, <3>4 DEF SM!RegisterThread, SM!UnregisterThread
      <4> QED BY <1>0, <2>1, <4>1 DEF Place
    <3> QED BY <1>5, <3>1, <3>2, <3>3, <3>4 DEF SM!HazardStep
  <2> QED BY <1>0, <1>s, <2>1, <2>2
<1> QED BY <1>1, <1>2, <1>3, <1>4, <1>5 DEF MapStep

\* Every step keeps the current snapshot and a replaced one apart from the retired ones.
LEMMA StepSnapshots ==
  ASSUME MapInv, NEW t \in Thread, MapStep(t)
  PROVE  SnapshotsApart'
<1>0. /\ MapType /\ MapOthers(t) /\ mapPtr \in Snapshots /\ Null \notin Snapshots /\ None \notin Thread
      /\ mapPtr \in mapLive \ MapRetired /\ MapRetired \subseteq mapLive /\ mapFree \cap mapScan.retired = {}
      /\ \A u \in Thread : mapPc[u] = "retire" => mapVal[u] \in mapLive \ (MapRetired \cup {mapPtr})
      BY StepMapOthers, StepPtr, Apartness DEF MapInv, SnapshotsApart
<1>m. \A u \in Thread : mapPc[u] = "retire" => mapMutex = u
      BY DEF MapInv, Sections, Section
<1> USE DEF MapType, SM!At, SM!Local, SM!retireVars, aside, SM!callVars, SM!mapVars, SM!hpVars
<1>q. ASSUME UNCHANGED <<mapPtr, mapLive, mapFree>>, mapScan'.retired = mapScan.retired, mapPc'[t] # "retire"
      PROVE  SnapshotsApart'
  <2>1. MapRetired' = MapRetired
        BY <1>q DEF MapRetired
  <2>2. \A u \in Thread : mapPc'[u] = "retire" => mapPc[u] = "retire" /\ mapVal'[u] = mapVal[u]
        BY <1>0, <1>q DEF MapOthers
  <2> QED BY <1>0, <1>q, <2>1, <2>2 DEF SnapshotsApart
<1>1. CASE SM!Call(t) \/ SM!ReadSnapshot(t) \/ SM!Unlock(t)
  <2>1. UNCHANGED <<mapPtr, mapLive, mapFree, mapScan>> /\ mapPc'[t] # "retire"
        BY <1>0, <1>1 DEF SM!Call, SM!ReadSnapshot, SM!Unlock
  <2> QED BY <1>q, <2>1
<1>2. CASE SM!LookupLocked(t) \/ SM!InsertLocked(t)
  <2>1. CASE LockedKeeps(t)
    <3>1. UNCHANGED <<mapPtr, mapLive, mapFree, mapScan>> /\ mapPc'[t] # "retire"
          BY <1>0, <2>1 DEF LockedKeeps
    <3> QED BY <1>q, <3>1
  <2>2. ASSUME NEW n \in Snapshots \ mapLive, LockedReplaces(t, n) PROVE SnapshotsApart'
    <3>1. /\ UNCHANGED <<mapFree, mapScan>> /\ mapPtr' = n /\ mapLive' = mapLive \cup {n} /\ mapMutex = None
          /\ mapVal'[t] = mapPtr /\ mapPc'[t] = "retire"
          BY <1>0, <2>2 DEF LockedReplaces
    <3>2. MapRetired' = MapRetired
          BY <3>1 DEF MapRetired
    <3>3. \A u \in Thread : mapPc'[u] = "retire" => u = t
          BY <1>0, <1>m, <3>1 DEF MapOthers
    <3> QED BY <1>0, <3>1, <3>2, <3>3 DEF SnapshotsApart
  <2> QED BY <1>2, <2>1, <2>2, StepPtr
<1>3. CASE SM!AcquireLoad(t) \/ SM!AcquirePublish(t) \/ SM!AcquireReload(t) \/ SM!RetireCount(t)
           \/ SM!RetireCheck(t) \/ SM!ScanReset(t) \/ SM!ScanTryLock(t) \/ SM!RegisterThread(t) \/ SM!UnregisterThread(t)
  <2>1. UNCHANGED <<mapPtr, mapLive, mapFree, mapScan>> /\ mapPc'[t] # "retire"
        BY <1>0, <1>3 DEF SM!AcquireLoad, SM!AcquirePublish, SM!AcquireReload, SM!RetireCount,
           SM!RetireCheck,
                    SM!ScanReset, SM!ScanTryLock, SM!RegisterThread, SM!UnregisterThread
  <2> QED BY <1>q, <2>1
<1>4. CASE SM!RetirePush(t)
  <2>1. /\ mapPc[t] = "retire" /\ mapPc'[t] = "count" /\ mapFree' = mapFree \cup {mapVal[t]}
        /\ UNCHANGED <<mapPtr, mapLive, mapScan>>
        BY <1>0, <1>4 DEF SM!RetirePush
  <2>2. MapRetired' = MapRetired \cup {mapVal[t]}
        BY <2>1 DEF MapRetired
  <2>3. \A u \in Thread : mapPc'[u] # "retire"
        BY <1>0, <1>m, <2>1 DEF MapOthers
  <2> QED BY <1>0, <2>1, <2>2, <2>3 DEF SnapshotsApart, MapRetired
<1>5. CASE SM!ScanExchange(t)
  <2>0. \A u \in Thread : mapPc[u] \in MapScanPCs => mapScanLock = u
        BY DEF MapInv, MapOneScan
  <2>1. /\ mapPc[t] = "exchange" /\ mapPc'[t] = "lock threads" /\ mapFree' = {} /\ mapScan'.retired = mapFree
        /\ UNCHANGED <<mapPtr, mapLive>>
        BY <1>0, <1>5 DEF SM!ScanExchange
  <2>2. MapRetired' \subseteq MapRetired
        BY <2>1 DEF MapRetired
  <2>3. \A u \in Thread : mapPc'[u] = "retire" => mapPc[u] = "retire" /\ mapVal'[u] = mapVal[u]
        BY <1>0, <2>1 DEF MapOthers
  <2> QED BY <1>0, <2>1, <2>2, <2>3 DEF SnapshotsApart
<1>6. CASE SM!ScanLockThreads(t)
  <2>1. UNCHANGED <<mapPtr, mapLive, mapFree>> /\ mapScan'.retired = mapScan.retired /\ mapPc'[t] # "retire"
        BY <1>0, <1>6 DEF SM!ScanLockThreads
  <2> QED BY <1>q, <2>1
<1>7. CASE SM!ScanCollect(t)
  <2>1. UNCHANGED <<mapPtr, mapLive, mapFree>> /\ mapPc'[t] # "retire"
        BY <1>0, <1>7 DEF SM!ScanCollect
  <2>2. mapScan'.retired = mapScan.retired
    <3>1. ASSUME NEW u \in mapScan.left,
                 mapScan' = [mapScan EXCEPT !.left = @ \ {u}, !.hazard = @ \cup ({mapHazard[u]} \ {Null})]
          PROVE  mapScan'.retired = mapScan.retired
          BY <1>0, <3>1
    <3> QED BY <1>7, <3>1 DEF SM!ScanCollect
  <2> QED BY <1>q, <2>1, <2>2
<1>8. CASE SM!ScanDelete(t)
  <2>1. mapPtr' = mapPtr /\ mapPc[t] = "delete" /\ mapPc'[t] # "retire"
        BY <1>0, <1>8 DEF SM!ScanDelete, SM!ScanReturn
  <2>2. CASE UNCHANGED <<mapLive, mapFree, mapScan>>
        BY <1>q, <2>1, <2>2
  <2>3. ASSUME NEW n \in mapScan.retired, mapScan' = [mapScan EXCEPT !.retired = @ \ {n}],
               mapLive' = IF n \in mapScan.hazard THEN mapLive ELSE mapLive \ {n},
               mapFree' = IF n \in mapScan.hazard THEN mapFree \cup {n} ELSE mapFree
        PROVE  SnapshotsApart'
    <3>1. mapScan'.retired = mapScan.retired \ {n} /\ n \in MapRetired
          BY <1>0, <2>3 DEF MapRetired
    <3>2. \A u \in Thread : mapPc'[u] = "retire" => mapPc[u] = "retire" /\ mapVal'[u] = mapVal[u]
          BY <1>0, <2>1 DEF MapOthers
    <3>3. MapRetired' \subseteq MapRetired /\ MapRetired' \subseteq mapLive' /\ mapFree' \cap mapScan'.retired = {}
          BY <1>0, <2>3, <3>1 DEF MapRetired
    <3>4. \A a \in mapLive \ MapRetired : a \in mapLive' \ MapRetired'
          BY <2>3, <3>1, <3>3
    <3> QED BY <1>0, <2>1, <3>2, <3>3, <3>4 DEF SnapshotsApart
  <2> QED BY <1>8, <2>2, <2>3 DEF SM!ScanDelete
<1> QED BY <1>1, <1>2, <1>3, <1>4, <1>5, <1>6, <1>7, <1>8 DEF MapStep, SM!HazardStep

\* No step, a scan's least of all, takes a snapshot in use away.
LEMMA StaysInUse ==
  ASSUME MapInv, NEW t \in Thread, MapStep(t), NEW w \in Thread, w # t, mapPc[w] = "acquired"
  PROVE  InUse(w)'
<1>0. /\ InUse(w) /\ mapHazard[w] = mapVal[w] /\ w \in mapThreads /\ MapOthers(t) /\ mapVal[w] # Null
      /\ mapVal'[w] = mapVal[w] /\ MapType
  <2>1. MapType /\ MapOthers(t)
        BY StepMapOthers DEF MapInv
  <2>2. InUse(w) /\ mapHazard[w] = mapVal[w]
        BY DEF MapInv, MapProtection
  <2>3. w \in mapThreads
        BY DEF MapInv, Sections, CallPCs
  <2>4. mapVal[w] # Null
        BY <2>1, <2>2, Apartness DEF MapType, InUse
  <2>5. mapVal'[w] = mapVal[w]
        BY <2>1 DEF MapOthers
  <2> QED BY <2>1, <2>2, <2>3, <2>4, <2>5
<1> USE DEF MapType, SM!At, SM!Local, SM!retireVars, aside, SM!callVars, SM!mapVars, SM!hpVars
<1>3. ASSUME mapLive \subseteq mapLive', UNCHANGED mapScan, mapPc[t] # "lock threads" PROVE InUse(w)'
  <2>1. \A u \in Thread : mapPc[u] = "lock threads" => mapPc'[u] = "lock threads"
        BY <1>0, <1>3 DEF MapOthers
  <2> QED BY <1>0, <1>3, <2>1 DEF InUse
<1>1. CASE SM!Call(t) \/ SM!ReadSnapshot(t) \/ SM!Unlock(t)
  <2>1. mapLive \subseteq mapLive' /\ UNCHANGED mapScan /\ mapPc[t] # "lock threads"
        BY <1>1 DEF SM!Call, SM!ReadSnapshot, SM!Unlock
  <2> QED BY <1>3, <2>1
<1>2. CASE SM!LookupLocked(t) \/ SM!InsertLocked(t)
  <2>1. mapLive \subseteq mapLive' /\ UNCHANGED mapScan /\ mapPc[t] # "lock threads"
        BY <1>2, StepPtr DEF LockedKeeps, LockedReplaces
  <2> QED BY <1>3, <2>1
<1>5. CASE SM!AcquireLoad(t) \/ SM!AcquirePublish(t) \/ SM!AcquireReload(t) \/ SM!RetirePush(t)
           \/ SM!RetireCount(t) \/ SM!RetireCheck(t) \/ SM!ScanReset(t) \/ SM!ScanTryLock(t)
           \/ SM!RegisterThread(t) \/ SM!UnregisterThread(t)
  <2>1. mapLive \subseteq mapLive' /\ UNCHANGED mapScan /\ mapPc[t] # "lock threads"
        BY <1>5 DEF SM!AcquireLoad, SM!AcquirePublish, SM!AcquireReload, SM!RetirePush,
           SM!RetireCount,
                    SM!RetireCheck, SM!ScanReset, SM!ScanTryLock, SM!RegisterThread, SM!UnregisterThread
  <2> QED BY <1>3, <2>1
<1>6. CASE SM!ScanExchange(t)
  <2>1. mapLive' = mapLive /\ mapPc'[t] = "lock threads"
        BY <1>0, <1>6 DEF SM!ScanExchange
  <2> QED BY <1>0, <2>1 DEF InUse
<1>7. CASE SM!ScanLockThreads(t)
  <2>1. mapLive' = mapLive /\ mapScan'.left = mapThreads
        BY <1>0, <1>7 DEF SM!ScanLockThreads
  <2> QED BY <1>0, <2>1 DEF InUse
<1>8. CASE SM!ScanCollect(t)
  <2>1. mapLive' = mapLive /\ mapPc[t] = "collect"
        BY <1>8 DEF SM!ScanCollect
  <2>2. CASE UNCHANGED mapScan
        BY <1>3, <2>1, <2>2
  <2>3. ASSUME NEW u \in mapScan.left,
               mapScan' = [mapScan EXCEPT !.left = @ \ {u}, !.hazard = @ \cup ({mapHazard[u]} \ {Null})]
        PROVE  InUse(w)'
    <3>1. /\ mapScan'.retired = mapScan.retired /\ mapScan'.left = mapScan.left \ {u}
          /\ mapScan'.hazard = mapScan.hazard \cup ({mapHazard[u]} \ {Null})
          BY <1>0, <2>3
    <3>2. \A v \in Thread : mapPc[v] = "lock threads" => mapPc'[v] = "lock threads"
          BY <1>0, <2>1 DEF MapOthers
    <3> QED BY <1>0, <2>1, <3>1, <3>2 DEF InUse
  <2> QED BY <1>8, <2>2, <2>3 DEF SM!ScanCollect
<1>9. CASE SM!ScanDelete(t)
  <2>1. mapPc[t] = "delete" /\ mapScan.left = {} /\ \A u \in Thread : mapPc[u] # "lock threads"
    <3>1. mapPc[t] = "delete"
          BY <1>9 DEF SM!ScanDelete
    <3> QED BY <3>1 DEF MapInv, MapOneScan, MapScanPCs
  <2>2. mapVal[w] \in mapScan.retired => mapVal[w] \in mapScan.hazard
        BY <1>0, <2>1 DEF InUse
  <2>3. CASE UNCHANGED <<mapLive, mapScan>>
        BY <1>3, <2>1, <2>3
  <2>4. ASSUME NEW n \in mapScan.retired, mapScan' = [mapScan EXCEPT !.retired = @ \ {n}],
               mapLive' = IF n \in mapScan.hazard THEN mapLive ELSE mapLive \ {n}
        PROVE  InUse(w)'
    <3>1. mapScan'.retired = mapScan.retired \ {n} /\ mapScan'.hazard = mapScan.hazard
          BY <1>0, <2>4
    <3>2. mapVal[w] \in mapLive'
          BY <1>0, <2>2, <2>4 DEF InUse
    <3> QED BY <1>0, <2>2, <3>1, <3>2 DEF InUse
  <2> QED BY <1>9, <2>3, <2>4 DEF SM!ScanDelete
<1> QED BY <1>1, <1>2, <1>5, <1>6, <1>7, <1>8, <1>9 DEF MapStep, SM!HazardStep

\* Where a step brings its thread to a snapshot in use: Acquire, having found the
\* snapshot it has published still the current one.
LEMMA StepAcquired ==
  ASSUME MapInv, NEW t \in Thread, MapStep(t), mapPc'[t] \in {"reload", "acquired"}
  PROVE  \/ SM!AcquirePublish(t) /\ mapPc'[t] = "reload"
         \/ /\ SM!AcquireReload(t) /\ UNCHANGED aside /\ mapPc'[t] = "acquired" /\ mapPtr = mapVal[t]
<1>0. MapType
      BY DEF MapInv
<1> USE DEF MapType, SM!At
<1>1. ~(SM!Call(t) \/ SM!ReadSnapshot(t) \/ SM!Unlock(t))
      BY <1>0 DEF SM!Call, SM!ReadSnapshot, SM!Unlock
<1>2. ~(SM!LookupLocked(t) \/ SM!InsertLocked(t))
      BY <1>0, StepPtr DEF LockedKeeps, LockedReplaces
<1>3. ~(SM!AcquireLoad(t) \/ SM!RetirePush(t) \/ SM!RetireCount(t) \/ SM!RetireCheck(t) \/ SM!ScanReset(t) \/ SM!ScanTryLock(t))
      BY <1>0 DEF SM!AcquireLoad, SM!RetirePush, SM!RetireCount, SM!RetireCheck, SM!ScanReset,
         SM!ScanTryLock
<1>4. ~(SM!ScanExchange(t) \/ SM!ScanLockThreads(t) \/ SM!ScanCollect(t) \/ SM!ScanDelete(t)
           \/ SM!RegisterThread(t) \/ SM!UnregisterThread(t))
      BY <1>0 DEF SM!ScanExchange, SM!ScanLockThreads, SM!ScanCollect, SM!ScanDelete, SM!ScanReturn,
                  SM!RegisterThread, SM!UnregisterThread
<1>5. SM!AcquirePublish(t) => mapPc'[t] = "reload"
      BY <1>0 DEF SM!AcquirePublish
<1>6. SM!AcquireReload(t) => mapPc'[t] = "acquired" /\ mapPtr = mapVal[t]
      BY <1>0 DEF SM!AcquireReload
<1> QED BY <1>1, <1>2, <1>3, <1>4, <1>5, <1>6 DEF MapStep, SM!HazardStep

\* Every step keeps the protection of the snapshots in use.
LEMMA StepMapProtection ==
  ASSUME MapInv, NEW t \in Thread, MapStep(t)
  PROVE  MapProtection'
<1> DEFINE Good(w) == /\ mapPc[w] \in {"reload", "acquired"} => mapHazard[w] = mapVal[w]
                      /\ mapPc[w] = "acquired" => InUse(w)
<1>0. MapType /\ MapOthers(t) /\ mapPtr \in Snapshots /\ Null \notin Snapshots
      BY StepMapOthers, StepPtr, Apartness DEF MapInv
<1>1. ASSUME NEW w \in Thread, w # t PROVE Good(w)'
  <2>1. /\ mapPc'[w] = mapPc[w] /\ mapVal'[w] = mapVal[w] /\ mapHazard'[w] = mapHazard[w]
        BY <1>0, <1>1 DEF MapOthers
  <2>2. Good(w)
        BY DEF MapInv, MapProtection
  <2>3. mapPc[w] = "acquired" => InUse(w)'
        BY <1>1, StaysInUse
  <2> QED BY <2>1, <2>2, <2>3
<1>2. Good(t)'
  <2>1. CASE mapPc'[t] \notin {"reload", "acquired"}
        BY <2>1
  <2>2. CASE SM!AcquirePublish(t) /\ mapPc'[t] = "reload"
    <3>1. mapHazard'[t] = mapVal'[t]
          BY <1>0, <2>2 DEF SM!AcquirePublish, MapType
    <3> QED BY <2>2, <3>1
  <2>3. CASE SM!AcquireReload(t) /\ mapPc'[t] = "acquired" /\ mapPtr = mapVal[t]
    <3>1. /\ mapPc[t] = "reload" /\ mapVal'[t] = mapPtr /\ UNCHANGED <<mapLive, mapHazard, mapScan>>
          BY <1>0, <2>3 DEF SM!AcquireReload, MapType, SM!At, SM!Local, SM!retireVars
    <3>2. mapHazard'[t] = mapVal'[t]
          BY <2>3, <3>1 DEF MapInv, MapProtection
    <3>3. mapPtr \in mapLive /\ mapPtr \notin mapScan.retired
          BY <1>0 DEF MapInv, SnapshotsApart, MapRetired
    <3>4. InUse(t)'
          BY <3>1, <3>3 DEF InUse
    <3> QED BY <3>2, <3>4
  <2> QED BY <2>1, <2>2, <2>3, StepAcquired
<1> QED BY <1>1, <1>2 DEF MapProtection

Old == snapshot[mapPtr].read_only
KeyOf(t) == call[t][2]

\* The outcomes of a locked Lookup and of a locked Insert.
LookupKeeps(t) ==
    /\ LockedKeeps(t) /\ call[t][1] = "Lookup" /\ UNCHANGED mutable_map_
    /\ ret'[t] = IF Old[KeyOf(t)] # None \/ mutable_map_ = None THEN Old[KeyOf(t)]
                 ELSE mutable_map_[KeyOf(t)]
LookupPromotes(t, n) ==
    /\ LockedReplaces(t, n) /\ call[t][1] = "Lookup" /\ Old[KeyOf(t)] = None /\ mutable_map_ # None
    /\ mutable_map_' = SM!Join(mutable_map_, Old) /\ ret'[t] = mutable_map_[KeyOf(t)]
    /\ snapshot' = [snapshot EXCEPT ![n] = [read_only |-> mutable_map_', dirty |-> FALSE]]
InsertFinds(t) ==
    /\ LockedKeeps(t) /\ call[t][1] = "Insert" /\ UNCHANGED mutable_map_ /\ ret'[t] = "exists"
    /\ Old[KeyOf(t)] # None \/ (mutable_map_ # None /\ mutable_map_[KeyOf(t)] # None)
InsertPuts(t) ==
    /\ LockedKeeps(t) /\ call[t][1] = "Insert" /\ ret'[t] = "inserted"
    /\ Old[KeyOf(t)] = None /\ mutable_map_ # None /\ mutable_map_[KeyOf(t)] = None
    /\ mutable_map_' = [mutable_map_ EXCEPT ![KeyOf(t)] = t]
InsertStarts(t, n) ==
    /\ LockedReplaces(t, n) /\ call[t][1] = "Insert" /\ ret'[t] = "inserted"
    /\ Old[KeyOf(t)] = None /\ mutable_map_ = None
    /\ mutable_map_' = [SM!EmptyMap EXCEPT ![KeyOf(t)] = t]
    /\ snapshot' = [snapshot EXCEPT ![n] = [read_only |-> Old, dirty |-> TRUE]]

\* There are no other outcomes.
LEMMA LockedCases ==
  ASSUME MapType, NEW t \in Thread, SM!LookupLocked(t) \/ SM!InsertLocked(t), call[t][2] \in Key, mapPtr \in Snapshots
  PROVE  \/ LookupKeeps(t) \/ InsertFinds(t) \/ InsertPuts(t)
         \/ \E n \in Snapshots \ mapLive : LookupPromotes(t, n) \/ InsertStarts(t, n)
<1> DEFINE k == call[t][2]
<1>0. /\ Old \in SM!Maps /\ k \in Key /\ mutable_map_ \in SM!Maps \cup {None} /\ t \in DOMAIN ret
      BY DEF MapType, Old
<1>1. CASE SM!LookupLocked(t)
  <2>1. CASE SM!KeepSnapshot(t) /\ UNCHANGED mutable_map_
    <3>1. LockedKeeps(t)
          BY <1>1, <2>1 DEF SM!LookupLocked, SM!KeepSnapshot, LockedKeeps
    <3>2. ret'[t] = IF Old[k] # None \/ mutable_map_ = None THEN Old[k] ELSE mutable_map_[k]
          BY <1>0, <1>1 DEF SM!LookupLocked, SM!Return, Old
    <3>3. LookupKeeps(t)
          BY <1>1, <2>1, <3>1, <3>2 DEF SM!LookupLocked, LookupKeeps, KeyOf
    <3> QED BY <3>3
  <2>2. CASE /\ mutable_map_ # None /\ SM!At(t, "lock", "retire") /\ Old[k] = None
             /\ mutable_map_' = SM!Join(mutable_map_, Old) /\ SM!Replace(t, mutable_map_', FALSE)
             /\ SM!Return(t, mutable_map_[k])
    <3>1. mutable_map_' \in SM!Maps
          BY <1>0, <2>2, JoinMaps
    <3>2. PICK n \in Snapshots \ mapLive :
              /\ mapLive' = mapLive \cup {n} /\ mapPtr' = n
              /\ snapshot' = [snapshot EXCEPT ![n] = [read_only |-> mutable_map_', dirty |-> FALSE]]
          BY <2>2 DEF SM!Replace
    <3>3. LockedReplaces(t, n)
          BY <1>1, <2>2, <3>1, <3>2 DEF SM!LookupLocked, SM!Replace, LockedReplaces
    <3>4. ret'[t] = mutable_map_[k]
          BY <1>0, <2>2 DEF SM!Return
    <3>5. LookupPromotes(t, n)
          BY <1>1, <2>2, <3>2, <3>3, <3>4 DEF SM!LookupLocked, LookupPromotes, KeyOf
    <3> QED BY <3>5
  <2> QED BY <1>1, <2>1, <2>2 DEF SM!LookupLocked, Old
<1>2. CASE SM!InsertLocked(t)
  <2>1. CASE SM!KeepSnapshot(t) /\ UNCHANGED mutable_map_ /\ SM!Return(t, "exists")
             /\ ~(Old[k] = None /\ (mutable_map_ # None => mutable_map_[k] = None))
    <3>1. LockedKeeps(t)
          BY <1>2, <2>1 DEF SM!InsertLocked, SM!KeepSnapshot, LockedKeeps
    <3>2. ret'[t] = "exists"
          BY <1>0, <2>1 DEF SM!Return
    <3>3. InsertFinds(t)
          BY <1>2, <2>1, <3>1, <3>2 DEF SM!InsertLocked, InsertFinds, KeyOf
    <3> QED BY <3>3
  <2> DEFINE put == [(IF mutable_map_ = None THEN SM!EmptyMap ELSE mutable_map_) EXCEPT ![k] = t]
             absent == Old[k] = None /\ (mutable_map_ # None => mutable_map_[k] = None)
  <2>3. CASE SM!KeepSnapshot(t) /\ mutable_map_' = put /\ SM!Return(t, "inserted") /\ absent /\ mutable_map_ # None
    <3>1. LockedKeeps(t)
          BY <1>2, <2>3 DEF SM!InsertLocked, SM!KeepSnapshot, LockedKeeps
    <3>2. ret'[t] = "inserted"
          BY <1>0, <2>3 DEF SM!Return
    <3>3. InsertPuts(t)
          BY <1>2, <2>3, <3>1, <3>2 DEF SM!InsertLocked, InsertPuts, KeyOf
    <3> QED BY <3>3
  <2>4. CASE SM!At(t, "lock", "retire") /\ mutable_map_' = put /\ SM!Replace(t, Old, TRUE)
             /\ SM!Return(t, "inserted") /\ absent /\ mutable_map_ = None
    <3>2. PICK n \in Snapshots \ mapLive :
              /\ mapLive' = mapLive \cup {n} /\ mapPtr' = n
              /\ snapshot' = [snapshot EXCEPT ![n] = [read_only |-> Old, dirty |-> TRUE]]
          BY <2>4 DEF SM!Replace
    <3>3. LockedReplaces(t, n)
          BY <1>0, <1>2, <2>4, <3>2 DEF SM!InsertLocked, SM!Replace, LockedReplaces
    <3>4. ret'[t] = "inserted"
          BY <1>0, <2>4 DEF SM!Return
    <3>5. InsertStarts(t, n)
          BY <1>2, <2>4, <3>2, <3>3, <3>4 DEF SM!InsertLocked, InsertStarts, KeyOf
    <3> QED BY <3>5
  <2> QED BY <1>2, <2>1, <2>3, <2>4 DEF SM!InsertLocked, Old
<1> QED BY <1>1, <1>2

\* What the map holds, key by key.
LEMMA ContentsAt ==
  ASSUME MapType, mapPtr \in Snapshots
  PROVE  \A k \in Key : SM!Contents[k] = IF mutable_map_ = None \/ Old[k] # None THEN Old[k]
                                         ELSE mutable_map_[k]
<1>1. PICK m \in SM!Maps, n \in SM!Maps \cup {None} : m = Old /\ n = mutable_map_
      BY DEF MapType, Old
<1>2. SM!Contents = Both(m, n)
      BY <1>1 DEF SM!Contents, Both, Old
<1> QED BY <1>1, <1>2, BothMaps

\* The same after a step.
LEMMA ContentsNext ==
  ASSUME MapType', mapPtr' \in Snapshots
  PROVE  \A k \in Key : SM!Contents'[k] = IF mutable_map_' = None \/ Old'[k] # None THEN Old'[k]
                                          ELSE mutable_map_'[k]
<1>1. PICK m \in SM!Maps, n \in SM!Maps \cup {None} : m = Old' /\ n = mutable_map_'
      BY DEF MapType, Old
<1>2. SM!Contents' = Both(m, n)
      BY <1>1 DEF SM!Contents, Both, Old
<1> QED BY <1>1, <1>2, BothMaps

\* Five kinds of step, told apart by what they do to the contents.
Still(t) == /\ UNCHANGED <<mapPtr, snapshot, mutable_map_, mapMutex>>
            /\ call'[t] = call[t] \/ mapPc[t] = "idle"
Unlocks(t) == /\ UNCHANGED <<mapPtr, snapshot, call>> /\ mapMutex' = None /\ mapPc[t] = "retired" /\ mapPc'[t] = "idle"
              /\ IF call[t][1] = "Lookup" THEN mutable_map_' = None ELSE UNCHANGED mutable_map_

\* Every step is of one of the kinds.
LEMMA StepKinds ==
  ASSUME MapInv, NEW t \in Thread, MapStep(t)
  PROVE  \/ Still(t) \/ Unlocks(t) \/ InsertPuts(t)
         \/ \E n \in Snapshots \ mapLive : LookupPromotes(t, n) \/ InsertStarts(t, n)
<1>0. MapType
      BY DEF MapInv
<1> USE DEF SM!At, SM!Local, SM!retireVars, aside, SM!callVars, SM!mapVars, SM!hpVars
<1>1. CASE SM!Call(t) \/ SM!ReadSnapshot(t)
      BY <1>0, <1>1 DEF SM!Call, SM!ReadSnapshot, Still
<1>2. CASE SM!Unlock(t)
      BY <1>0, <1>2 DEF SM!Unlock, Unlocks, MapType
<1>3. CASE SM!LookupLocked(t) \/ SM!InsertLocked(t)
      BY <1>0, <1>3, StepPtr, LockedCases DEF LookupKeeps, InsertFinds, LockedKeeps, Still
<1>4. CASE SM!HazardStep(t) /\ UNCHANGED aside
  <2>1. UNCHANGED mapPtr
        BY <1>4 DEF SM!HazardStep, SM!AcquireLoad, SM!AcquirePublish, SM!AcquireReload,
           SM!RetirePush,
                    SM!RetireCount, SM!RetireCheck, SM!ScanReset, SM!ScanTryLock, SM!ScanExchange,
                    SM!ScanLockThreads, SM!ScanCollect, SM!ScanDelete, SM!RegisterThread, SM!UnregisterThread
  <2> QED BY <1>4, <2>1 DEF Still
<1> QED BY <1>1, <1>2, <1>3, <1>4 DEF MapStep

\* Every step keeps the snapshot and the mutable map a pair.
LEMMA StepPair ==
  ASSUME MapInv, NEW t \in Thread, MapStep(t)
  PROVE  Pair'
<1> DEFINE Split(old, new) == \A k \in Key : old[k] = None \/ new[k] = None
<1>0. /\ MapType /\ MapOthers(t) /\ mapPtr \in Snapshots /\ Null \notin Snapshots /\ None \notin Thread
      /\ Old \in SM!Maps
      BY StepMapOthers, StepPtr, Apartness DEF MapInv, MapType, Old
<1>p. /\ mapMutex = None /\ ~snapshot[mapPtr].dirty => mutable_map_ = None
      /\ \A u \in Thread : mapMutex = u =>
            IF call[u][1] = "Lookup" THEN mutable_map_ = Old ELSE snapshot[mapPtr].dirty
      /\ mutable_map_ # None /\ (\A u \in Thread : mapMutex = u => call[u][1] # "Lookup")
            => Split(Old, mutable_map_)
      BY <1>0 DEF MapInv, Pair, Old
<1>m. \A u \in Thread : mapMutex = u => mapPc[u] # "idle"
      BY DEF MapInv, Sections, Section, MapScanPCs
<1> HIDE DEF Split
<1>1. CASE Still(t)
  <2>1. \A u \in Thread : mapMutex = u => call'[u] = call[u]
        BY <1>0, <1>m, <1>1 DEF Still, MapOthers
  <2>2. Old' = Old /\ snapshot'[mapPtr'] = snapshot[mapPtr]
        BY <1>1 DEF Still, Old
  <2> QED BY <1>p, <1>1, <2>1, <2>2 DEF Still, Pair, Old, Split
<1>2. CASE Unlocks(t)
  <2>1. mapMutex = t
    <3>1. Section(t)
          BY <1>2 DEF Unlocks, Section
    <3> QED BY <3>1 DEF MapInv, Sections
  <2>2. Old' = Old /\ snapshot'[mapPtr'] = snapshot[mapPtr] /\ mapMutex' = None
        BY <1>2 DEF Unlocks, Old
  <2>3. CASE call[t][1] = "Lookup"
    <3>1. mutable_map_' = None
          BY <1>2, <2>3 DEF Unlocks
    <3> QED BY <1>0, <2>2, <3>1 DEF Pair
  <2>4. CASE call[t][1] # "Lookup"
    <3>1. mutable_map_' = mutable_map_
          BY <1>2, <2>4 DEF Unlocks
    <3>2. \A u \in Thread : mapMutex = u => call[u][1] # "Lookup"
          BY <2>1, <2>4
    <3>3. snapshot[mapPtr].dirty
          BY <1>p, <2>1, <2>4
    <3> QED BY <1>0, <1>p, <2>2, <3>1, <3>2, <3>3 DEF Pair, Old, Split
  <2> QED BY <2>3, <2>4
<1>3. CASE InsertPuts(t)
  <2>1. /\ mapMutex = None /\ UNCHANGED <<mapPtr, snapshot, mapMutex, call>> /\ mutable_map_ # None
        /\ Old[KeyOf(t)] = None /\ mutable_map_' = [mutable_map_ EXCEPT ![KeyOf(t)] = t]
        BY <1>3 DEF InsertPuts, LockedKeeps
  <2>2. snapshot[mapPtr].dirty /\ Split(Old, mutable_map_)
        BY <1>0, <1>p, <2>1
  <2>3. mutable_map_ \in SM!Maps
        BY <1>0, <2>1 DEF MapType
  <2>4. Split(Old, mutable_map_')
        BY <2>1, <2>2, <2>3 DEF Split, SM!Maps
  <2>5. Old' = Old /\ snapshot'[mapPtr'] = snapshot[mapPtr]
        BY <2>1 DEF Old
  <2> QED BY <1>0, <2>1, <2>2, <2>4, <2>5 DEF Pair, Old, Split
<1>4. ASSUME NEW n \in Snapshots \ mapLive, LookupPromotes(t, n) PROVE Pair'
  <2>1. /\ mapMutex' = t /\ mapPtr' = n /\ call' = call /\ call[t][1] = "Lookup"
        /\ snapshot' = [snapshot EXCEPT ![n] = [read_only |-> mutable_map_', dirty |-> FALSE]]
        BY <1>4 DEF LookupPromotes, LockedReplaces
  <2>2. snapshot'[mapPtr'].read_only = mutable_map_'
        BY <1>0, <2>1 DEF MapType
  <2> QED BY <1>0, <2>1, <2>2 DEF Pair
<1>5. ASSUME NEW n \in Snapshots \ mapLive, InsertStarts(t, n) PROVE Pair'
  <2>1. /\ mapMutex' = t /\ mapPtr' = n /\ call' = call /\ call[t][1] = "Insert" /\ Old[KeyOf(t)] = None
        /\ snapshot' = [snapshot EXCEPT ![n] = [read_only |-> Old, dirty |-> TRUE]]
        /\ mutable_map_' = [SM!EmptyMap EXCEPT ![KeyOf(t)] = t]
        BY <1>5 DEF InsertStarts, LockedReplaces
  <2>2. snapshot'[mapPtr'].read_only = Old /\ snapshot'[mapPtr'].dirty
        BY <1>0, <2>1 DEF MapType
  <2>3. Split(Old, mutable_map_')
        BY <2>1 DEF Split, SM!EmptyMap
  <2> QED BY <1>0, <2>1, <2>2, <2>3 DEF Pair, Split
<1> QED BY <1>1, <1>2, <1>3, <1>4, <1>5, StepKinds

\* No step changes or removes what is in the map, or a snapshot that is allocated.
LEMMA StepGrows ==
  ASSUME MapInv, NEW t \in Thread, MapStep(t)
  PROVE  /\ mapPtr' \in Snapshots /\ Within(SM!Contents, SM!Contents')
         /\ \A a \in mapLive : snapshot'[a] = snapshot[a]
<1> DEFINE Goal == /\ mapPtr' \in Snapshots /\ Within(SM!Contents, SM!Contents')
                   /\ \A a \in mapLive : snapshot'[a] = snapshot[a]
           C(k) == IF mutable_map_ = None \/ Old[k] # None THEN Old[k] ELSE mutable_map_[k]
<1>0. /\ MapType /\ MapType' /\ mapPtr \in Snapshots /\ None \notin Thread /\ Old \in SM!Maps /\ None \notin SM!Maps
      BY StepMapType, StepPtr, Apartness DEF MapInv, MapType, Old
<1>p. /\ \A u \in Thread : mapMutex = u /\ call[u][1] = "Lookup" => mutable_map_ = Old
      /\ mutable_map_ # None /\ mapMutex = None => \A k \in Key : Old[k] = None \/ mutable_map_[k] = None
  <2>1. Pair /\ mapPtr # Null
        BY <1>0, Apartness DEF MapInv
  <2> QED BY <1>0, <2>1 DEF Pair, Old
<1>c. \A k \in Key : SM!Contents[k] = C(k)
      BY <1>0, ContentsAt
<1>d. mapPtr' \in Snapshots => \A k \in Key : SM!Contents'[k] = C(k)'
      BY <1>0, ContentsNext
<1>1. CASE Still(t)
  <2>1. SM!Contents' = SM!Contents /\ UNCHANGED <<mapPtr, snapshot>>
        BY <1>1 DEF Still, SM!Contents
  <2> QED BY <1>0, <2>1 DEF Within
<1>2. CASE Unlocks(t)
  <2>0. mapMutex = t
    <3>1. Section(t)
          BY <1>2 DEF Unlocks, Section
    <3> QED BY <3>1 DEF MapInv, Sections
  <2>1. CASE call[t][1] = "Lookup"
    <3>1. mutable_map_ = Old /\ mutable_map_' = None /\ Old' = Old /\ UNCHANGED <<mapPtr, snapshot>>
          BY <1>p, <1>2, <2>0, <2>1 DEF Unlocks, Old
    <3>2. \A k \in Key : C(k) = Old[k] /\ C(k)' = Old[k]
          BY <3>1
    <3> QED BY <1>0, <1>c, <1>d, <3>1, <3>2 DEF Within
  <2>2. CASE call[t][1] # "Lookup"
    <3>1. SM!Contents' = SM!Contents /\ UNCHANGED <<mapPtr, snapshot>>
          BY <1>2, <2>2 DEF Unlocks, SM!Contents
    <3> QED BY <1>0, <3>1 DEF Within
  <2> QED BY <2>1, <2>2
<1>3. CASE InsertPuts(t)
  <2>1. /\ mapMutex = None /\ UNCHANGED <<mapPtr, snapshot>> /\ mutable_map_ # None /\ Old' = Old
        /\ Old[KeyOf(t)] = None /\ mutable_map_[KeyOf(t)] = None
        /\ mutable_map_' = [mutable_map_ EXCEPT ![KeyOf(t)] = t]
        BY <1>3 DEF InsertPuts, LockedKeeps, Old
  <2>2. mutable_map_ \in SM!Maps /\ mutable_map_' \in SM!Maps \cup {None}
        BY <1>0, <2>1 DEF MapType
  <2>3. mutable_map_' # None
        BY <1>0, <2>1, <2>2 DEF SM!Maps
  <2>4. \A k \in Key : C(k) # None => C(k)' = C(k)
        BY <2>1, <2>2, <2>3 DEF SM!Maps
  <2> QED BY <1>0, <1>c, <1>d, <2>1, <2>4 DEF Within
<1>4. ASSUME NEW n \in Snapshots \ mapLive, LookupPromotes(t, n) PROVE Goal
  <2>1. /\ mapMutex = None /\ mapPtr' = n /\ mutable_map_ # None /\ mutable_map_' = SM!Join(mutable_map_, Old)
        /\ snapshot' = [snapshot EXCEPT ![n] = [read_only |-> mutable_map_', dirty |-> FALSE]]
        BY <1>4 DEF LookupPromotes, LockedReplaces
  <2>2. Old' = mutable_map_' /\ \A a \in mapLive : snapshot'[a] = snapshot[a]
        BY <1>0, <2>1 DEF MapType, Old
  <2>3. PICK m \in SM!Maps, o \in SM!Maps : m = mutable_map_ /\ o = Old
        BY <1>0, <2>1 DEF MapType
  <2>4. \A k \in Key : mutable_map_'[k] = IF m[k] # None THEN m[k] ELSE o[k]
        BY <2>1, <2>3, JoinMaps
  <2>5. \A k \in Key : C(k) = IF o[k] # None THEN o[k] ELSE m[k]
        BY <2>1, <2>3
  <2>6. \A k \in Key : C(k)' = mutable_map_'[k]
        BY <2>2
  <2>7. \A k \in Key : o[k] = None \/ m[k] = None
        BY <1>p, <2>1, <2>3
  <2>8. \A k \in Key : C(k) # None => C(k)' = C(k)
        BY <2>4, <2>5, <2>6, <2>7
  <2> QED BY <1>c, <1>d, <2>1, <2>2, <2>8 DEF Within
<1>5. ASSUME NEW n \in Snapshots \ mapLive, InsertStarts(t, n) PROVE Goal
  <2>1. /\ mapPtr' = n /\ mutable_map_ = None /\ mutable_map_' = [SM!EmptyMap EXCEPT ![KeyOf(t)] = t]
        /\ snapshot' = [snapshot EXCEPT ![n] = [read_only |-> Old, dirty |-> TRUE]]
        BY <1>5 DEF InsertStarts, LockedReplaces
  <2>2. Old' = Old /\ \A a \in mapLive : snapshot'[a] = snapshot[a]
        BY <1>0, <2>1 DEF MapType, Old
  <2>3. \A k \in Key : C(k) # None => C(k)' = C(k)
        BY <2>1, <2>2
  <2> QED BY <1>c, <1>d, <2>1, <2>2, <2>3 DEF Within
<1> QED BY <1>1, <1>2, <1>3, <1>4, <1>5, StepKinds

\* A clean snapshot is all there is.
LEMMA CleanIsAll ==
  ASSUME MapInv, mapPtr \in Snapshots
  PROVE  /\ Within(Old, SM!Contents)
         /\ ~snapshot[mapPtr].dirty => \A k \in Key : SM!Contents[k] = Old[k]
<1>0. MapType /\ Pair /\ mapPtr # Null
      BY Apartness DEF MapInv
<1>1. \A k \in Key : SM!Contents[k] = IF mutable_map_ = None \/ Old[k] # None THEN Old[k] ELSE mutable_map_[k]
      BY <1>0, ContentsAt
<1>2. ~snapshot[mapPtr].dirty => mutable_map_ = None \/ mutable_map_ = Old
      BY <1>0 DEF Pair, Old, MapType
<1> QED BY <1>1, <1>2 DEF Within

\* A step that leaves its thread in a call began in the call, or begins it.
LEMMA StepInCall ==
  ASSUME MapInv, NEW t \in Thread, MapStep(t), mapPc'[t] \in CallPCs
  PROVE  \/ mapPc[t] \in CallPCs /\ before'[t] = before[t]
         \/ before'[t] = SM!Contents
<1>0. MapType
      BY DEF MapInv
<1> USE DEF MapType, CallPCs, SM!At, aside, SM!callVars, SM!mapVars
<1>1. CASE SM!Call(t)
      BY <1>0, <1>1 DEF SM!Call
<1>2. CASE SM!ReadSnapshot(t)
  <2>1. mapPc[t] = "acquired" /\ UNCHANGED before
        BY <1>2 DEF SM!ReadSnapshot
  <2> QED BY <2>1
<1>3. ~(SM!Unlock(t) \/ SM!LookupLocked(t) \/ SM!InsertLocked(t))
      BY <1>0, StepPtr DEF SM!Unlock, LockedKeeps, LockedReplaces
<1>4. ASSUME SM!AcquireLoad(t) \/ SM!AcquirePublish(t) \/ SM!AcquireReload(t), UNCHANGED aside
      PROVE  mapPc[t] \in CallPCs /\ before'[t] = before[t]
      BY <1>4 DEF SM!AcquireLoad, SM!AcquirePublish, SM!AcquireReload
<1>5. ~(SM!RetirePush(t) \/ SM!RetireCount(t) \/ SM!RetireCheck(t) \/ SM!ScanReset(t) \/ SM!ScanTryLock(t))
      BY <1>0 DEF SM!RetirePush, SM!RetireCount, SM!RetireCheck, SM!ScanReset, SM!ScanTryLock
<1>6. ~(SM!ScanExchange(t) \/ SM!ScanLockThreads(t) \/ SM!ScanCollect(t) \/ SM!ScanDelete(t)
           \/ SM!RegisterThread(t) \/ SM!UnregisterThread(t))
      BY <1>0 DEF SM!ScanExchange, SM!ScanLockThreads, SM!ScanCollect, SM!ScanDelete, SM!ScanReturn,
                  SM!RegisterThread, SM!UnregisterThread
<1> QED BY <1>1, <1>2, <1>3, <1>4, <1>5, <1>6 DEF MapStep, SM!HazardStep

\* Every step keeps what the calls have seen of the map true.
LEMMA StepSeen ==
  ASSUME MapInv, NEW t \in Thread, MapStep(t)
  PROVE  Seen'
<1>0. /\ MapType /\ MapType' /\ MapOthers(t) /\ mapPtr \in Snapshots /\ None \notin Thread
      BY StepMapType, StepMapOthers, StepPtr, Apartness DEF MapInv
<1>s. \A u \in Thread :
        /\ mapPc[u] \in CallPCs => Within(before[u], SM!Contents)
        /\ mapPc[u] = "acquired" =>
              /\ Within(snapshot[mapVal[u]].read_only, SM!Contents)
              /\ ~snapshot[mapVal[u]].dirty => Within(before[u], snapshot[mapVal[u]].read_only)
      BY DEF MapInv, Seen
<1>g. Within(SM!Contents, SM!Contents') /\ \A a \in mapLive : snapshot'[a] = snapshot[a]
      BY StepGrows
<1>w. \A m : Within(m, SM!Contents) => Within(m, SM!Contents')
      BY <1>g DEF Within
<1>1. ASSUME NEW u \in Thread, u # t, mapPc'[u] \in CallPCs PROVE Within(before[u], SM!Contents)' 
      BY <1>0, <1>s, <1>w, <1>1 DEF MapOthers
<1>2. ASSUME NEW u \in Thread, u # t, mapPc'[u] = "acquired"
      PROVE  /\ Within(snapshot[mapVal[u]].read_only, SM!Contents)'
             /\ (~snapshot[mapVal[u]].dirty => Within(before[u], snapshot[mapVal[u]].read_only))'
  <2>1. mapPc[u] = "acquired" /\ mapVal'[u] = mapVal[u] /\ before'[u] = before[u]
        BY <1>0, <1>2 DEF MapOthers
  <2>2. mapVal[u] \in mapLive
        BY <2>1 DEF MapInv, MapProtection, InUse
  <2>3. snapshot'[mapVal'[u]] = snapshot[mapVal[u]]
        BY <1>g, <2>1, <2>2
  <2>4. Within(snapshot[mapVal[u]].read_only, SM!Contents')
        BY <1>s, <1>w, <2>1
  <2> QED BY <1>s, <2>1, <2>3, <2>4
<1>3. ASSUME mapPc'[t] \in CallPCs PROVE Within(before[t], SM!Contents)'
  <2>1. CASE mapPc[t] \in CallPCs /\ before'[t] = before[t]
        BY <1>s, <1>w, <2>1
  <2>2. CASE before'[t] = SM!Contents
        BY <1>g, <2>2
  <2> QED BY <1>3, <2>1, <2>2, StepInCall
<1>4. ASSUME mapPc'[t] = "acquired"
      PROVE  /\ Within(snapshot[mapVal[t]].read_only, SM!Contents)'
             /\ (~snapshot[mapVal[t]].dirty => Within(before[t], snapshot[mapVal[t]].read_only))'
  <2>1. SM!AcquireReload(t) /\ UNCHANGED aside /\ mapPtr = mapVal[t]
        BY <1>4, StepAcquired
  <2>2. mapPc[t] = "reload" /\ mapVal'[t] = mapPtr /\ UNCHANGED <<snapshot, before>>
        BY <1>0, <2>1 DEF SM!AcquireReload, MapType, SM!At, SM!Local, aside, SM!mapVars, SM!callVars
  <2>3. Within(before[t], SM!Contents)
        BY <1>s, <2>2 DEF CallPCs
  <2>4. Within(Old, SM!Contents') /\ (~snapshot[mapPtr].dirty => Within(before[t], Old))
        BY <1>0, <1>w, <2>3, CleanIsAll DEF Within
  <2> QED BY <2>2, <2>4 DEF Old
<1> QED BY <1>1, <1>2, <1>3, <1>4 DEF Seen

\* The snapshot there is at first is empty.
LEMMA InitMap == SM!Init => MapInv
<1> SUFFICES ASSUME SM!Init PROVE MapInv
    OBVIOUS
<1>1. PICK a \in Snapshots : SM!HazardInit(a)
      BY DEF SM!Init
<1>0. /\ mapPtr = a /\ mapLive = {a} /\ mapHazard = [t \in Thread |-> Null] /\ mapThreads = {}
      /\ mapFree = {} /\ mapScanLock = Null /\ mapScan = [retired |-> {}, hazard |-> {}, left |-> {}]
      /\ mapPc = [t \in Thread |-> "start"] /\ mapVal = [t \in Thread |-> Null]
      /\ snapshot = [n \in Snapshots |-> [read_only |-> SM!EmptyMap, dirty |-> FALSE]]
      /\ mutable_map_ = None /\ mapMutex = None
      /\ call = [t \in Thread |-> None] /\ ret = [t \in Thread |-> None]
      /\ before = [t \in Thread |-> SM!EmptyMap]
      /\ None \notin Thread /\ Null \notin Snapshots /\ Null \notin Thread /\ SM!EmptyMap \in SM!Maps
      BY <1>1, Apartness DEF SM!Init, SM!HazardInit
<1>2. MapType
      BY <1>0 DEF MapType, MapPCs
<1>3. Sections /\ MapOneScan
      BY <1>0 DEF Sections, Section, MapOneScan, MapScanPCs, CallPCs
<1>4. SnapshotsApart /\ MapProtection
      BY <1>0 DEF SnapshotsApart, MapRetired, MapProtection
<1>5. Pair /\ Seen
      BY <1>0 DEF Pair, Seen, CallPCs
<1> QED BY <1>2, <1>3, <1>4, <1>5 DEF MapInv

\* The destructor runs when every thread is over.
LEMMA DestroyMap ==
  ASSUME MapInv, SM!Destroy
  PROVE  MapInv'
<1>0. /\ mapPtr' = Null /\ mapLive' = mapLive \ {mapPtr} /\ mapPtr # Null
      /\ \A u \in Thread : mapPc[u] \in {"done", "gave up"}
      /\ UNCHANGED <<mapHazard, mapThreads, mapFree, mapScanLock, mapScan, mapPc, mapVal, snapshot,
                     mutable_map_, mapMutex, call, ret, before>>
      BY DEF SM!Destroy, SM!retireVars, SM!mapVars, SM!callVars
<1>1. MapType' /\ MapOneScan'
      BY <1>0 DEF MapInv, MapType, MapOneScan
<1>2. Sections'
      BY <1>0 DEF MapInv, Sections, Section
<1>3. SnapshotsApart'
  <2>1. MapRetired' = MapRetired /\ mapPtr \in mapLive \ MapRetired
        BY <1>0 DEF MapRetired, MapInv, SnapshotsApart
  <2> QED BY <1>0, <2>1 DEF MapInv, SnapshotsApart
<1>4. MapProtection' /\ Pair' /\ Seen'
      BY <1>0 DEF MapProtection, Pair, Seen, CallPCs
<1> QED BY <1>1, <1>2, <1>3, <1>4 DEF MapInv

\* The invariant of the sync-map.
LEMMA MapInvariance == SM!Spec => []MapInv
<1>1. MapInv /\ [SM!Next]_SM!vars => MapInv'
  <2> SUFFICES ASSUME MapInv, [SM!Next]_SM!vars PROVE MapInv'
      OBVIOUS
  <2>1. ASSUME NEW t \in Thread, MapStep(t) PROVE MapInv'
        BY <2>1, StepMapType, StepSections, StepMapScan, StepSnapshots, StepMapProtection, StepPair,
           StepSeen DEF MapInv
  <2>2. CASE SM!Destroy
        BY <2>2, DestroyMap
  <2>3. CASE UNCHANGED SM!vars
    <3>0. UNCHANGED <<mapPtr, mapLive, mapHazard, mapThreads, mapFree, mapScanLock, mapScan, mapPc, mapVal, snapshot,
                      mutable_map_, mapMutex, call, ret, before>>
          BY <2>3 DEF SM!vars, SM!hpVars, SM!mapVars, SM!callVars
    <3>1. MapType' /\ MapOneScan' /\ Sections' /\ SnapshotsApart'
          BY <3>0 DEF MapInv, MapType, MapOneScan, Sections, Section, SnapshotsApart, MapRetired
    <3>2. MapProtection' /\ Pair' /\ Seen'
          BY <3>0 DEF MapInv, MapProtection, InUse, Pair, Seen, SM!Contents
    <3> QED BY <3>1, <3>2 DEF MapInv
  <2> QED BY <2>1, <2>2, <2>3 DEF SM!Next, MapStep, aside
<1> QED BY InitMap, <1>1, PTL DEF SM!Spec

\* The answer of a call that a step ends.
Answer(t) ==
    mapPc'[t] \in {"idle", "retire"} /\ mapPc[t] \in {"acquired", "lock"} =>
       LET now == SM!Contents'[call[t][2]]  then == before[t][call[t][2]]  r == ret'[t] IN
       IF call[t][1] = "Lookup" THEN r \in {now, None} /\ (r = None => then = None)
       ELSE IF r = "inserted" THEN then = None /\ now = t
       ELSE now # None

\* Every answer is the map's at some moment of the call.
LEMMA StepAnswer ==
  ASSUME MapInv, NEW t \in Thread, MapStep(t), mapPc'[t] \in {"idle", "retire"}, mapPc[t] \in {"acquired", "lock"}
  PROVE  Answer(t)
<1> DEFINE k == call[t][2]
<1>0. /\ MapType /\ MapType' /\ mapPtr \in Snapshots /\ None \notin Thread /\ k \in Key /\ None \notin SM!Maps
      /\ call[t][1] \in {"Lookup", "Insert"}
  <2>1. call[t] \in {"Lookup", "Insert"} \X Key
        BY DEF MapInv, Sections, CallPCs
  <2> QED BY <2>1, StepMapType, StepPtr, Apartness DEF MapInv
<1>g. mapPtr' \in Snapshots /\ (SM!Contents[k] # None => SM!Contents'[k] = SM!Contents[k])
      BY <1>0, StepGrows DEF Within
<1>b. before[t][k] # None => SM!Contents[k] = before[t][k]
      BY <1>0 DEF MapInv, Seen, CallPCs, Within
<1>c. SM!Contents[k] = IF mutable_map_ = None \/ Old[k] # None THEN Old[k] ELSE mutable_map_[k]
      BY <1>0, ContentsAt
<1>d. SM!Contents'[k] = IF mutable_map_' = None \/ Old'[k] # None THEN Old'[k] ELSE mutable_map_'[k]
      BY <1>0, <1>g, ContentsNext
<1> HIDE DEF k
<1>1. CASE SM!ReadSnapshot(t)
  <2> DEFINE answer == snapshot[mapVal[t]].read_only[k]
  <2>1. /\ mapPc[t] = "acquired"
        /\ answer # None \/ (call[t][1] = "Lookup" /\ ~snapshot[mapVal[t]].dirty)
        /\ ret'[t] = IF call[t][1] = "Lookup" THEN answer ELSE "exists"
        BY <1>0, <1>1 DEF SM!ReadSnapshot, SM!Return, SM!At, MapType, k
  <2>2. /\ answer # None => SM!Contents[k] = answer
        /\ ~snapshot[mapVal[t]].dirty /\ before[t][k] # None => answer = before[t][k]
        BY <1>0, <2>1 DEF MapInv, Seen, Within
  <2> HIDE DEF answer
  <2> QED BY <1>0, <1>g, <2>1, <2>2 DEF Answer, k
<1>2. CASE SM!LookupLocked(t) \/ SM!InsertLocked(t)
  <2>0. \/ LookupKeeps(t) \/ InsertFinds(t) \/ InsertPuts(t)
        \/ \E n \in Snapshots \ mapLive : LookupPromotes(t, n) \/ InsertStarts(t, n)
        BY <1>0, <1>2, LockedCases DEF k
  <2>1. CASE LookupKeeps(t)
    <3>1. call[t][1] = "Lookup" /\ ret'[t] = SM!Contents[k]
          BY <1>c, <2>1 DEF LookupKeeps, KeyOf, k
    <3> QED BY <1>g, <1>b, <3>1 DEF Answer, k
  <2>2. CASE InsertFinds(t)
    <3>1. call[t][1] = "Insert" /\ ret'[t] = "exists" /\ SM!Contents[k] # None
          BY <1>c, <2>2 DEF InsertFinds, KeyOf, k
    <3> QED BY <1>g, <3>1 DEF Answer, k
  <2>3. CASE InsertPuts(t)
    <3>1. /\ call[t][1] = "Insert" /\ ret'[t] = "inserted" /\ SM!Contents[k] = None /\ Old' = Old
          /\ mutable_map_' = [mutable_map_ EXCEPT ![k] = t] /\ mutable_map_ # None /\ Old[k] = None
          BY <1>c, <2>3 DEF InsertPuts, LockedKeeps, KeyOf, Old, k
    <3>2. mutable_map_ \in SM!Maps /\ mutable_map_' \in SM!Maps \cup {None}
          BY <1>0, <3>1 DEF MapType
    <3>3. mutable_map_'[k] = t /\ mutable_map_' # None
          BY <1>0, <3>1, <3>2 DEF SM!Maps
    <3>4. SM!Contents'[k] = t
          BY <1>d, <3>1, <3>3
    <3> QED BY <1>b, <3>1, <3>4 DEF Answer, k
  <2>4. ASSUME NEW n \in Snapshots \ mapLive, LookupPromotes(t, n) PROVE Answer(t)
    <3>1. call[t][1] = "Lookup" /\ ret'[t] = SM!Contents[k]
          BY <1>c, <2>4 DEF LookupPromotes, KeyOf, k
    <3> QED BY <1>g, <1>b, <3>1 DEF Answer, k
  <2>5. ASSUME NEW n \in Snapshots \ mapLive, InsertStarts(t, n) PROVE Answer(t)
    <3>1. /\ call[t][1] = "Insert" /\ ret'[t] = "inserted" /\ SM!Contents[k] = None /\ Old[k] = None
          /\ mutable_map_' = [SM!EmptyMap EXCEPT ![k] = t] /\ mapPtr' = n
          /\ snapshot' = [snapshot EXCEPT ![n] = [read_only |-> Old, dirty |-> TRUE]]
          BY <1>c, <2>5 DEF InsertStarts, LockedReplaces, KeyOf, k
    <3>2. Old' = Old
          BY <1>0, <3>1 DEF MapType, Old
    <3>3. mutable_map_'[k] = t /\ mutable_map_' # None
      <4>1. SM!EmptyMap \in SM!Maps
            BY Apartness
      <4> QED BY <1>0, <3>1, <4>1 DEF SM!Maps
    <3>4. SM!Contents'[k] = t
          BY <1>d, <3>1, <3>2, <3>3
    <3> QED BY <1>b, <3>1, <3>4 DEF Answer, k
  <2> QED BY <2>0, <2>1, <2>2, <2>3, <2>4, <2>5
<1>3. ~(SM!Call(t) \/ SM!Unlock(t))
      BY DEF SM!Call, SM!Unlock, SM!At
<1>4. ~SM!HazardStep(t)
  <2>1. ~(SM!AcquireLoad(t) \/ SM!AcquirePublish(t) \/ SM!AcquireReload(t) \/ SM!RetirePush(t)
          \/ SM!RetireCount(t) \/ SM!RetireCheck(t) \/ SM!ScanReset(t) \/ SM!ScanTryLock(t))
        BY DEF SM!AcquireLoad, SM!AcquirePublish, SM!AcquireReload, SM!RetirePush, SM!RetireCount,
               SM!RetireCheck, SM!ScanReset, SM!ScanTryLock, SM!At
  <2>2. ~(SM!ScanExchange(t) \/ SM!ScanLockThreads(t) \/ SM!ScanCollect(t) \/ SM!ScanDelete(t)
          \/ SM!RegisterThread(t) \/ SM!UnregisterThread(t))
        BY DEF SM!ScanExchange, SM!ScanLockThreads, SM!ScanCollect, SM!ScanDelete,
               SM!RegisterThread,
               SM!UnregisterThread, SM!At
  <2> QED BY <2>1, <2>2 DEF SM!HazardStep
<1> QED BY <1>1, <1>2, <1>3, <1>4 DEF MapStep

\* A lookup or an insert that reads the snapshot while it is replaced and promoted by
\* others answers as the map was at some moment of the call, and no key is lost.
THEOREM MapLinearizable == SM!Spec => SM!MapIsLinearizable
<1> DEFINE Good == mapPtr' # Null =>
      /\ \A k \in Key : SM!Contents[k] # None => SM!Contents'[k] = SM!Contents[k]
      /\ \A t \in Thread : Answer(t)
<1>1. MapInv /\ [SM!Next]_SM!vars => [Good]_SM!vars
  <2> SUFFICES ASSUME MapInv, SM!Next PROVE Good
      OBVIOUS
  <2>1. ASSUME NEW t \in Thread, MapStep(t) PROVE Good
    <3>1. \A k \in Key : SM!Contents[k] # None => SM!Contents'[k] = SM!Contents[k]
          BY <2>1, StepGrows DEF Within
    <3>2. ASSUME NEW u \in Thread PROVE Answer(u)
      <4>1. CASE u = t
            BY <2>1, <4>1, StepAnswer DEF Answer
      <4>2. CASE u # t
        <5>1. mapPc'[u] = mapPc[u]
              BY <2>1, <4>2, StepMapOthers DEF MapOthers
        <5> QED BY <5>1 DEF Answer
      <4> QED BY <4>1, <4>2
    <3> QED BY <3>1, <3>2
  <2>2. CASE SM!Destroy
        BY <2>2 DEF SM!Destroy
  <2> QED BY <2>1, <2>2 DEF SM!Next, MapStep, aside
<1>2. [Good]_SM!vars => [ mapPtr' # Null =>
          /\ \A k \in Key : SM!Contents[k] # None => SM!Contents'[k] = SM!Contents[k]
          /\ \A t \in Thread : mapPc'[t] \in {"idle", "retire"} /\ mapPc[t] \in {"acquired", "lock"} =>
                LET now == SM!Contents'[call[t][2]]  then == before[t][call[t][2]]  r == ret'[t] IN
                IF call[t][1] = "Lookup" THEN r \in {now, None} /\ (r = None => then = None)
                ELSE IF r = "inserted" THEN then = None /\ now = t
                ELSE now # None ]_SM!vars
      BY DEF Answer
<1> HIDE DEF Good
<1> QED BY MapInvariance, <1>1, <1>2, PTL DEF SM!Spec, SM!MapIsLinearizable

\* No thread reads a snapshot that a scan has deleted.
THEOREM SnapshotSafe == SM!Spec => []SM!SnapshotIsLive
<1>1. MapInv => SM!SnapshotIsLive
      BY DEF MapInv, MapProtection, InUse, SM!SnapshotIsLive
<1> QED BY MapInvariance, <1>1, PTL
-----------------------------------------------------------------------------
\* The data-parallel algorithms: the threads' shares, cut at these places.
Smaller(i, j) == IF i <= j THEN i ELSE j
Cut(first, cnt, j) == first + j * (cnt \div kThreadCnt) + Smaller(j, cnt % kThreadCnt)
ShareStart(first, cnt, t) == PA!Share(first, cnt, t)[1]
ShareEnd(first, cnt, t) == PA!Share(first, cnt, t)[2]

LEMMA PC == /\ kThreadCnt \in Nat \ {0} /\ kMinShare \in Nat \ {0}
            /\ Numbers \subseteq Nat /\ Lengths \subseteq Nat /\ MaxSize \in Nat
  BY StructureConstants DEF PA!ParallelConstants

LEMMA LeastOfTwo ==
  ASSUME NEW i \in Nat, NEW j \in Nat
  PROVE  PA!Least({i, j}) = Smaller(i, j)
<1>1. \E x \in {i, j} : \A y \in {i, j} : x <= y
      OBVIOUS
<1>2. PA!Least({i, j}) \in {i, j} /\ \A y \in {i, j} : PA!Least({i, j}) <= y
      BY <1>1 DEF PA!Least
<1> QED BY <1>2 DEF Smaller

LEMMA Products ==
  ASSUME NEW i \in Nat, NEW j \in Nat, NEW k \in Nat, i <= j
  PROVE  i * k \in Nat /\ j * k \in Nat /\ i * k <= j * k
<1>1. (j - i) * k >= 0
      OBVIOUS
<1>2. (j - i) * k = j * k - i * k
      OBVIOUS
<1> QED BY <1>1, <1>2

\* The cuts begin with the first number, end with the last and do not go back.
LEMMA Cuts ==
  ASSUME NEW first \in Nat, NEW cnt \in Nat
  PROVE  /\ Cut(first, cnt, 0) = first /\ Cut(first, cnt, kThreadCnt) = first + cnt
         /\ \A i \in 0..kThreadCnt : Cut(first, cnt, i) \in Nat
         /\ \A i, j \in 0..kThreadCnt : i <= j => Cut(first, cnt, i) <= Cut(first, cnt, j)
<1> DEFINE len == cnt \div kThreadCnt  more == cnt % kThreadCnt
<1>0. kThreadCnt \in Nat \ {0}
      BY PC
<1>1. len \in Int /\ more \in 0..(kThreadCnt - 1) /\ cnt = kThreadCnt * len + more
      BY <1>0, Division
<1>2. len \in Nat
      BY <1>0
<1> HIDE DEF len, more
<1>3. Cut(first, cnt, 0) = first
  <2>1. 0 * len = 0
        BY <1>2
  <2> QED BY <1>1, <2>1 DEF Cut, Smaller, len, more
<1>4. Cut(first, cnt, kThreadCnt) = first + cnt
  <2>1. Cut(first, cnt, kThreadCnt) = first + kThreadCnt * len + Smaller(kThreadCnt, more)
        BY DEF Cut, len, more
  <2>2. Smaller(kThreadCnt, more) = more
        BY <1>0, <1>1 DEF Smaller
  <2>3. kThreadCnt * len \in Int
        BY <1>0, <1>2
  <2> QED BY <1>1, <2>1, <2>2, <2>3
<1>5. ASSUME NEW i \in 0..kThreadCnt PROVE Cut(first, cnt, i) \in Nat
  <2>1. Cut(first, cnt, i) = first + i * len + Smaller(i, more)
        BY DEF Cut, len, more
  <2>2. i \in Nat /\ i * len \in Nat /\ Smaller(i, more) \in Nat
        BY <1>0, <1>1, <1>2, Products DEF Smaller
  <2> QED BY <2>1, <2>2
<1>6. ASSUME NEW i \in 0..kThreadCnt, NEW j \in 0..kThreadCnt, i <= j
      PROVE  Cut(first, cnt, i) <= Cut(first, cnt, j)
  <2>1. /\ Cut(first, cnt, i) = first + i * len + Smaller(i, more)
        /\ Cut(first, cnt, j) = first + j * len + Smaller(j, more)
        BY DEF Cut, len, more
  <2>2. i \in Nat /\ j \in Nat /\ i * len \in Nat /\ j * len \in Nat /\ i * len <= j * len
        BY <1>0, <1>2, <1>6, Products
  <2>3. Smaller(i, more) \in Nat /\ Smaller(j, more) \in Nat /\ Smaller(i, more) <= Smaller(j, more)
        BY <1>1, <1>6, <2>2 DEF Smaller
  <2> QED BY <2>1, <2>2, <2>3
<1> QED BY <1>3, <1>4, <1>5, <1>6

\* Every number is in exactly one share.
LEMMA Shares ==
  ASSUME NEW first \in Nat, NEW cnt \in Nat
  PROVE  /\ \A t \in PA!Worker : /\ ShareStart(first, cnt, t) \in Nat /\ ShareEnd(first, cnt, t) \in Nat
                                 /\ first <= ShareStart(first, cnt, t)
                                 /\ ShareStart(first, cnt, t) <= ShareEnd(first, cnt, t)
                                 /\ ShareEnd(first, cnt, t) <= first + cnt
         /\ \A e \in first..(first + cnt - 1) : \E t \in PA!Worker :
               e \in ShareStart(first, cnt, t)..(ShareEnd(first, cnt, t) - 1)
         /\ \A t, u \in PA!Worker : \A e \in Int :
               e \in ShareStart(first, cnt, t)..(ShareEnd(first, cnt, t) - 1)
               /\ e \in ShareStart(first, cnt, u)..(ShareEnd(first, cnt, u) - 1) => t = u
<1>0. kThreadCnt \in Nat \ {0} /\ PA!Worker = 0..(kThreadCnt - 1) /\ cnt % kThreadCnt \in Nat
      BY PC DEF PA!Worker
<1>1. CASE PA!Alone(cnt)
  <2>1. \A t \in PA!Worker : PA!Share(first, cnt, t) = <<IF t = 0 THEN first ELSE first + cnt, first + cnt>>
        BY <1>1 DEF PA!Share
  <2>2. \A t \in PA!Worker : /\ ShareStart(first, cnt, t) = (IF t = 0 THEN first ELSE first + cnt)
                             /\ ShareEnd(first, cnt, t) = first + cnt
        BY <2>1 DEF ShareStart, ShareEnd
  <2>3. 0 \in PA!Worker
        BY <1>0
  <2> QED BY <1>0, <2>2, <2>3
<1>2. CASE ~PA!Alone(cnt)
  <2>1. ASSUME NEW t \in PA!Worker
        PROVE  /\ ShareStart(first, cnt, t) = Cut(first, cnt, t)
               /\ ShareEnd(first, cnt, t) = Cut(first, cnt, t + 1)
               /\ t \in 0..kThreadCnt /\ t + 1 \in 0..kThreadCnt
    <3>1. t \in Nat /\ t + 1 \in Nat /\ t \in 0..kThreadCnt /\ t + 1 \in 0..kThreadCnt
          BY <1>0
    <3>2. /\ PA!Least({t, cnt % kThreadCnt}) = Smaller(t, cnt % kThreadCnt)
          /\ PA!Least({t + 1, cnt % kThreadCnt}) = Smaller(t + 1, cnt % kThreadCnt)
          BY <1>0, <3>1, LeastOfTwo
    <3>3. PA!Share(first, cnt, t) = <<Cut(first, cnt, t), Cut(first, cnt, t + 1)>>
          BY <1>2, <3>2 DEF PA!Share, Cut
    <3> QED BY <3>1, <3>3 DEF ShareStart, ShareEnd
  <2>2. /\ Cut(first, cnt, 0) = first /\ Cut(first, cnt, kThreadCnt) = first + cnt
        /\ \A i \in 0..kThreadCnt : Cut(first, cnt, i) \in Nat
        /\ \A i, j \in 0..kThreadCnt : i <= j => Cut(first, cnt, i) <= Cut(first, cnt, j)
        BY Cuts
  <2>3. ASSUME NEW t \in PA!Worker
        PROVE  /\ ShareStart(first, cnt, t) \in Nat /\ ShareEnd(first, cnt, t) \in Nat
               /\ first <= ShareStart(first, cnt, t)
               /\ ShareStart(first, cnt, t) <= ShareEnd(first, cnt, t)
               /\ ShareEnd(first, cnt, t) <= first + cnt
    <3>1. 0 \in 0..kThreadCnt /\ kThreadCnt \in 0..kThreadCnt /\ t \in Nat /\ 0 <= t /\ t <= t + 1
          /\ t + 1 <= kThreadCnt
          BY <1>0
    <3>2. /\ Cut(first, cnt, 0) <= Cut(first, cnt, t) /\ Cut(first, cnt, t) <= Cut(first, cnt, t + 1)
          /\ Cut(first, cnt, t + 1) <= Cut(first, cnt, kThreadCnt)
          BY <2>1, <2>2, <3>1
    <3> QED BY <2>1, <2>2, <3>2
  <2>4. ASSUME NEW e \in first..(first + cnt - 1)
        PROVE  \E t \in PA!Worker : e \in ShareStart(first, cnt, t)..(ShareEnd(first, cnt, t) - 1)
    <3> DEFINE S == {j \in 0..kThreadCnt : e < Cut(first, cnt, j)}
    <3>1. kThreadCnt \in S /\ 0 \notin S /\ S \in SUBSET Nat
          BY <1>0, <2>2
    <3>s. \A j \in 0..kThreadCnt : j \in S <=> e < Cut(first, cnt, j)
          OBVIOUS
    <3>t. \A j \in S : j \in 0..kThreadCnt
          OBVIOUS
    <3> HIDE DEF S
    <3>2. PICK j \in S : \A m \in S : j <= m
          BY <3>1, Least
    <3>3. j \in 0..kThreadCnt /\ j # 0
          BY <3>1, <3>t
    <3>4. j - 1 \in PA!Worker /\ j - 1 \in 0..kThreadCnt /\ (j - 1) + 1 = j /\ ~(j <= j - 1)
          BY <1>0, <3>3
    <3>5. j - 1 \notin S
          BY <3>2, <3>4
    <3>6. e < Cut(first, cnt, j) /\ ~(e < Cut(first, cnt, j - 1))
          BY <3>2, <3>3, <3>4, <3>5, <3>s
    <3>7. Cut(first, cnt, j) \in Nat /\ Cut(first, cnt, j - 1) \in Nat
          BY <2>2, <3>3, <3>4
    <3>8. e \in Cut(first, cnt, j - 1)..(Cut(first, cnt, j) - 1)
          BY <3>6, <3>7
    <3>9. /\ ShareStart(first, cnt, j - 1) = Cut(first, cnt, j - 1)
          /\ ShareEnd(first, cnt, j - 1) = Cut(first, cnt, (j - 1) + 1)
          BY <2>1, <3>4
    <3> QED BY <3>4, <3>8, <3>9
  <2>5. ASSUME NEW t \in PA!Worker, NEW u \in PA!Worker, NEW e \in Int,
               e \in ShareStart(first, cnt, t)..(ShareEnd(first, cnt, t) - 1),
               e \in ShareStart(first, cnt, u)..(ShareEnd(first, cnt, u) - 1)
        PROVE  ~(t < u)
    <3> SUFFICES ASSUME t < u PROVE FALSE
        OBVIOUS
    <3>1. t + 1 <= u
          BY <1>0
    <3>2. Cut(first, cnt, t + 1) <= Cut(first, cnt, u) /\ Cut(first, cnt, t + 1) \in Nat /\ Cut(first, cnt, u) \in Nat
          BY <2>1, <2>2, <3>1
    <3>3. e < Cut(first, cnt, t + 1) /\ e >= Cut(first, cnt, u)
          BY <2>1, <2>5, <3>2
    <3> QED BY <3>2, <3>3
  <2>6. ASSUME NEW t \in PA!Worker, NEW u \in PA!Worker, NEW e \in Int,
               e \in ShareStart(first, cnt, t)..(ShareEnd(first, cnt, t) - 1),
               e \in ShareStart(first, cnt, u)..(ShareEnd(first, cnt, u) - 1)
        PROVE  t = u
    <3>1. ~(t < u) /\ ~(u < t)
          BY <2>5, <2>6
    <3>2. t \in Nat /\ u \in Nat
          BY <1>0
    <3> QED BY <3>1, <3>2
  <2> QED BY <2>3, <2>4, <2>6
<1> QED BY <1>1, <1>2

\* The integer part of the square root.
LEMMA RootFacts ==
  ASSUME NEW x \in Nat
  PROVE  /\ PA!Root(x) \in Nat /\ PA!Root(x) * PA!Root(x) <= x
         /\ (PA!Root(x) + 1) * (PA!Root(x) + 1) > x
<1> DEFINE S == {m \in Nat : m * m > x}
<1>1. x + 1 \in S
  <2>1. (x + 1) * (x + 1) = x * x + 2 * x + 1 /\ x * x >= 0
        OBVIOUS
  <2> QED BY <2>1
<1>2. 0 \notin S /\ S \in SUBSET Nat /\ (\A m \in Nat : m \in S <=> m * m > x) /\ (\A m \in S : m \in Nat)
      OBVIOUS
<1> HIDE DEF S
<1>3. PICK m \in S : \A l \in S : m <= l
      BY <1>1, <1>2, Least
<1> DEFINE r == m - 1
<1>4. m \in Nat /\ m # 0 /\ r \in Nat /\ r + 1 = m /\ r \notin S
  <2>1. m \in Nat /\ m # 0
        BY <1>2
  <2>2. r \in Nat /\ r + 1 = m /\ ~(m <= r)
        BY <2>1
  <2> QED BY <1>3, <2>1, <2>2
<1>5. ~(r * r > x) /\ (r + 1) * (r + 1) > x /\ r * r \in Int
      BY <1>2, <1>3, <1>4
<1> HIDE DEF r
<1>6. r <= x
  <2> SUFFICES ASSUME r > x PROVE FALSE
      BY <1>4
  <2>1. r >= 1 /\ r * r >= r
        BY <1>4
  <2> QED BY <1>4, <1>5, <2>1
<1>7. r \in 0..x /\ r * r <= x /\ (r + 1) * (r + 1) > x
      BY <1>4, <1>5, <1>6
<1>8. \E q \in 0..x : q * q <= x /\ (q + 1) * (q + 1) > x
      BY <1>7
<1>9. PA!Root(x) \in 0..x /\ PA!Root(x) * PA!Root(x) <= x
         /\ (PA!Root(x) + 1) * (PA!Root(x) + 1) > x
      BY <1>8 DEF PA!Root
<1> QED BY <1>9

LEMMA BoundFacts ==
  ASSUME NEW x \in Nat, x >= 2
  PROVE  PA!Bound(x) \in Nat /\ PA!Bound(x) >= 2 /\ PA!Bound(x) = Smaller(PA!Root(x) + 6, x)
<1>1. PA!Root(x) + 6 \in Nat
      BY RootFacts
<1>2. PA!Bound(x) = Smaller(PA!Root(x) + 6, x)
      BY <1>1, LeastOfTwo DEF PA!Bound
<1>3. PA!Root(x) \in Nat
      BY RootFacts
<1> QED BY <1>2, <1>3 DEF Smaller

\* What has a divisor has one below the bound.
LEMMA SmallDivisor ==
  ASSUME NEW x \in Nat, x >= 2, NEW d \in 2..(x - 1), x % d = 0
  PROVE  \E e \in 2..(PA!Bound(x) - 1) : x % e = 0
<1> DEFINE r == PA!Root(x)
<1>1. r \in Nat /\ (r + 1) * (r + 1) > x
      BY RootFacts
<1>2. PA!Bound(x) \in Nat /\ PA!Bound(x) = Smaller(r + 6, x)
      BY BoundFacts
<1> HIDE DEF r
<1>3. CASE d < PA!Bound(x)
      BY <1>2, <1>3
<1>4. CASE ~(d < PA!Bound(x))
  <2>1. d >= r + 1 /\ PA!Bound(x) >= r + 1
        BY <1>1, <1>2, <1>4 DEF Smaller
  <2> DEFINE e == x \div d
  <2>2. e \in Int /\ x = d * e
    <3>1. x \div d \in Int /\ x = d * (x \div d) + (x % d)
          BY Division
    <3>2. d * (x \div d) \in Int
          BY <3>1
    <3> QED BY <3>1, <3>2
  <2> HIDE DEF e
  <2>3. e >= 2
    <3>1. ~(e <= 0)
      <4> SUFFICES ASSUME e <= 0 PROVE FALSE
          OBVIOUS
      <4>1. d * e <= 0
            BY <2>2
      <4> QED BY <2>2, <4>1
    <3>2. e # 1
          BY <2>2
    <3> QED BY <2>2, <3>1, <3>2
  <2>4. e <= r
    <3> SUFFICES ASSUME e >= r + 1 PROVE FALSE
        BY <1>1, <2>2
    <3>0. r + 1 \in Nat /\ d \in Nat /\ e \in Nat /\ r + 1 <= d /\ r + 1 <= e
          BY <1>1, <2>1, <2>2, <2>3
    <3>1. (r + 1) * (r + 1) <= d * (r + 1)
          BY <3>0, Products
    <3>2. (r + 1) * d <= e * d
          BY <3>0, Products
    <3>3. d * (r + 1) = (r + 1) * d /\ e * d = d * e
          BY <1>1, <2>2
    <3>4. (r + 1) * (r + 1) \in Int /\ d * (r + 1) \in Int /\ d * e \in Int
          BY <1>1, <2>2
    <3> QED BY <1>1, <2>2, <3>1, <3>2, <3>3, <3>4
  <2>5. x % e = 0
    <3>1. e \in Nat \ {0} /\ d \in Int /\ 0 \in 0..(e - 1)
          BY <2>2, <2>3
    <3>2. (e * d + 0) % e = 0
          BY <3>1, Remainder
    <3>3. e * d + 0 = x
          BY <2>2
    <3> QED BY <3>2, <3>3
  <2>6. e \in 2..(PA!Bound(x) - 1)
        BY <1>1, <1>2, <2>1, <2>2, <2>3, <2>4
  <2> QED BY <2>5, <2>6
<1> QED BY <1>3, <1>4

\* There is a choice at least, and finitely many.
LEMMA ChoicesCounted ==
  ASSUME NEW n \in Nat, NEW data \in [0..(n - 1) -> Summand], n >= 2
  PROVE  PA!size(data) = n /\ PA!choices_cnt(data) - 1 \in Nat
<1>1. PA!size(data) = n
  <2>1. Cardinality(0..(n - 1)) = n
        BY FS_Interval
  <2> QED BY <2>1 DEF PA!size, PA!Cardinality, Cardinality
<1> DEFINE m == n - PA!Half(data)
<1>2. m \in Nat
      BY <1>1 DEF PA!Half
<1>3. PA!choices_cnt(data) = 2^m
      BY <1>1 DEF PA!choices_cnt
<1> HIDE DEF m
<1>4. IsFiniteSet(1..m) /\ Cardinality(1..m) = m
      BY <1>2, FS_Interval
<1>5. IsFiniteSet(SUBSET (1..m)) /\ Cardinality(SUBSET (1..m)) = 2^m
      BY <1>4, FS_SUBSET
<1>6. Cardinality(SUBSET (1..m)) \in Nat /\ Cardinality(SUBSET (1..m)) # 0
  <2>1. SUBSET (1..m) # {}
        OBVIOUS
  <2> QED BY <1>5, <2>1, FS_CardinalityType, FS_EmptySet
<1>7. 2^m \in Nat /\ 2^m # 0
      BY <1>5, <1>6
<1> QED BY <1>1, <1>3, <1>7

-----------------------------------------------------------------------------
\* What a call's threads go through, and what they look for.
FirstOne(j) == IF j = "prime" THEN 2 ELSE IF j = "subsets" THEN 1 ELSE 0
HowMany(j, x) == IF j = "prime" THEN PA!Bound(x) - 2
                 ELSE IF j = "subsets" THEN PA!choices_cnt(x) - 1 ELSE x
Hit(j, x, map, c) == IF j = "prime" THEN (IF x % c = 0 THEN <<c>> ELSE <<>>)
                     ELSE PA!CheckChoice(x, map, c, PA!Half(x))

TheFirst == FirstOne(job)
TheCount == HowMany(job, input)
TheRange == TheFirst..(TheFirst + TheCount - 1)
HitOf(c) == Hit(job, input, sums, c)
IsHit(h) == h # <<>> /\ \E c \in TheRange : HitOf(c) = h
ShareOf(t) == ShareStart(TheFirst, TheCount, t)..(ShareEnd(TheFirst, TheCount, t) - 1)
Joining == main = "join"

ParTypes == /\ job \in {"prime", "subsets", "reduce"} /\ main \in {"idle", "join"}
            /\ flag \in BOOLEAN /\ runs \in Nat
            /\ from \in [PA!Worker -> Nat] /\ end \in [PA!Worker -> Nat]
            /\ tpc \in [PA!Worker -> {"test", "check", "set", "store", "done"}]
            /\ found = [t \in PA!Worker |-> found[t]]
            /\ res \in [PA!Worker -> SUBSET Nat]

\* A call that has started its threads got past the early returns.
Asked == /\ job \in {"prime", "reduce"} => input \in Nat
         /\ Joining /\ job = "prime" => input >= 2
         /\ Joining => TheCount \in Nat

\* Between two calls no thread runs.
Resting == main = "idle" => \A t \in PA!Worker : tpc[t] = "done"

\* A thread stays in its share.
Sharing == Joining => \A t \in PA!Worker :
              /\ end[t] = ShareEnd(TheFirst, TheCount, t)
              /\ ShareStart(TheFirst, TheCount, t) <= from[t] /\ from[t] <= end[t]

\* What a thread has passed is no hit, unless the flag is up or about to be.
Searching == Joining /\ job # "reduce" => \A t \in PA!Worker :
              /\ tpc[t] = "check" => from[t] < end[t]
              /\ tpc[t] \in {"set", "store"} => IsHit(found[t])
              /\ tpc[t] = "store" => flag /\ job = "subsets"
              /\ ~flag /\ tpc[t] # "set" =>
                    \A c \in ShareStart(TheFirst, TheCount, t)..(from[t] - 1) : HitOf(c) = <<>>
              /\ ~flag /\ tpc[t] = "done" => from[t] = end[t]

\* The flag stands for a hit, and the one that raised it stores its own.
Keeping == Joining /\ job # "reduce" =>
              /\ flag => \E h \in TheRange : HitOf(h) # <<>>
              /\ job = "subsets" /\ flag => kept # <<>> \/ \E t \in PA!Worker : tpc[t] = "store"
              /\ job = "subsets" /\ kept # <<>> => flag /\ IsHit(kept)

\* A thread of Reduce is done when its whole share is in its slot.
Reducing == Joining /\ job = "reduce" => \A t \in PA!Worker :
              /\ tpc[t] \in {"test", "done"}
              /\ from[t] = ShareStart(TheFirst, TheCount, t)
              /\ tpc[t] = "done" => res[t] = ShareOf(t)

ParAgree == PA!PrimesAgree /\ PA!ReduceAgrees /\ PA!SearchAgrees

ParInv == /\ ParTypes /\ Asked /\ Resting /\ Sharing
          /\ Searching /\ Keeping /\ Reducing /\ ParAgree

LEMMA ParInit == PA!Init => ParInv
<1> SUFFICES ASSUME PA!Init PROVE ParInv
    OBVIOUS
<1>1. /\ main = "idle" /\ runs = 0 /\ job = "prime" /\ input = 0 /\ flag = FALSE
      /\ from = [t \in PA!Worker |-> 0] /\ end = [t \in PA!Worker |-> 0]
      /\ tpc = [t \in PA!Worker |-> "done"] /\ found = [t \in PA!Worker |-> <<>>]
      /\ res = [t \in PA!Worker |-> {}]
      BY DEF PA!Init
<1>2. ParTypes
      BY <1>1 DEF ParTypes
<1>3. Asked /\ Resting /\ Sharing /\ Searching /\ Keeping /\ Reducing
      BY <1>1 DEF Asked, Resting, Sharing, Searching, Keeping, Reducing, Joining
<1>4. ParAgree
      BY <1>1 DEF ParAgree, PA!PrimesAgree, PA!ReduceAgrees, PA!SearchAgrees, PA!Returned
<1> QED BY <1>2, <1>3, <1>4 DEF ParInv

\* A call that returns at once leaves no thread behind.
LEMMA ParReturned ==
  ASSUME ParInv, NEW j \in {"prime", "subsets", "reduce"}, NEW x, NEW r, PA!Call(j, x), PA!Return(r),
         PA!NotStarted, res' = res, flag' \in BOOLEAN, j \in {"prime", "reduce"} => x \in Nat
  PROVE  /\ ParTypes' /\ Asked' /\ Resting' /\ Sharing' /\ Searching' /\ Keeping' /\ Reducing'
<1>1. /\ main = "idle" /\ main' = "idle" /\ job' = j /\ input' = x /\ runs' = runs + 1
      /\ from' = from /\ end' = end /\ tpc' = tpc /\ found' = found
      BY DEF PA!Call, PA!Return, PA!NotStarted
<1>2. ParTypes'
      BY <1>1 DEF ParTypes, ParInv
<1>3. Asked'
      BY <1>1 DEF Asked, Joining
<1>4. Resting'
      BY <1>1 DEF ParInv, Resting
<1>5. Sharing' /\ Searching' /\ Keeping' /\ Reducing'
      BY <1>1 DEF Sharing, Searching, Keeping, Reducing, Joining
<1> QED BY <1>2, <1>3, <1>4, <1>5

\* A call that starts its threads: each stands at the start of its share.
LEMMA ParStarted ==
  ASSUME ParInv, NEW j \in {"prime", "subsets", "reduce"}, NEW x, PA!Call(j, x),
         PA!Start(FirstOne(j), HowMany(j, x)), HowMany(j, x) \in Nat,
         res' \in [PA!Worker -> SUBSET Nat],
         j \in {"prime", "reduce"} => x \in Nat, j = "prime" => x >= 2,
         j # "reduce" => flag' = FALSE, flag' \in BOOLEAN, j = "subsets" => kept' = <<>>
  PROVE  ParInv'
<1>1. /\ main' = "join" /\ job' = j /\ input' = x /\ runs' = runs + 1 /\ found' = found
      /\ from' = [t \in PA!Worker |-> PA!Share(FirstOne(j), HowMany(j, x), t)[1]]
      /\ end' = [t \in PA!Worker |-> PA!Share(FirstOne(j), HowMany(j, x), t)[2]]
      /\ tpc' = [t \in PA!Worker |-> "test"]
      BY DEF PA!Call, PA!Start
<1>2. TheFirst' = FirstOne(j) /\ TheCount' = HowMany(j, x) /\ FirstOne(j) \in Nat
      BY <1>1 DEF TheFirst, TheCount, FirstOne
<1>3. \A t \in PA!Worker : /\ from'[t] = ShareStart(TheFirst', TheCount', t)
                           /\ end'[t] = ShareEnd(TheFirst', TheCount', t)
                           /\ tpc'[t] = "test"
      BY <1>1, <1>2 DEF ShareStart, ShareEnd
<1>4. \A t \in PA!Worker : /\ ShareStart(TheFirst', TheCount', t) \in Nat
                           /\ ShareEnd(TheFirst', TheCount', t) \in Nat
                           /\ ShareStart(TheFirst', TheCount', t) <= ShareEnd(TheFirst', TheCount', t)
      BY <1>2, Shares
<1>5. ParTypes'
  <2>1. from' \in [PA!Worker -> Nat] /\ end' \in [PA!Worker -> Nat]
        BY <1>1, <1>3, <1>4
  <2> QED BY <1>1, <2>1 DEF ParTypes, ParInv
<1>6. Asked'
      BY <1>1, <1>2 DEF Asked, Joining
<1>7. Resting' /\ ParAgree'
      BY <1>1 DEF Resting, ParAgree, PA!PrimesAgree, PA!ReduceAgrees, PA!SearchAgrees, PA!Returned
<1>8. Sharing'
      BY <1>3, <1>4 DEF Sharing
<1>9. Searching'
  <2> SUFFICES ASSUME j # "reduce", NEW t \in PA!Worker
               PROVE  \A c \in ShareStart(TheFirst', TheCount', t)..(from'[t] - 1) : HitOf(c)' = <<>>
      BY <1>1, <1>3 DEF Searching
  <2>1. ~\E c \in Int : c \in ShareStart(TheFirst', TheCount', t)..(from'[t] - 1)
        BY <1>3, <1>4
  <2> QED BY <2>1
<1>10. Keeping'
      BY <1>1 DEF Keeping
<1>11. Reducing'
      BY <1>3 DEF Reducing
<1> QED BY <1>5, <1>6, <1>7, <1>8, <1>9, <1>10, <1>11 DEF ParInv

IsPrimeNumber(x) == x > 1 /\ \A d \in 2..(x - 1) : x % d # 0

LEMMA CallIsPrimeKeeps ==
  ASSUME ParInv, NEW x \in Numbers, PA!CallIsPrime(x)
  PROVE  ParInv'
<1>0. x \in Nat /\ PA!Call("prime", x) /\ res' = res
      BY PC DEF PA!CallIsPrime
<1>1. CASE x < 2 /\ PA!Return(FALSE) /\ PA!NotStarted /\ flag' = flag
  <2>1. flag' \in BOOLEAN
        BY <1>1 DEF ParInv, ParTypes
  <2>2. /\ ParTypes' /\ Asked' /\ Resting' /\ Sharing' /\ Searching' /\ Keeping' /\ Reducing'
        BY <1>0, <1>1, <2>1, ParReturned
  <2>3. ParAgree'
    <3>1. job' = "prime" /\ input' = x /\ result' = FALSE
          BY <1>0, <1>1 DEF PA!Call, PA!Return
    <3>2. ~IsPrimeNumber(x)
          BY <1>0, <1>1 DEF IsPrimeNumber
    <3>3. FALSE = IsPrimeNumber(x)
          BY <3>2
    <3>4. result' = IsPrimeNumber(input')
          BY <3>1, <3>3
    <3> QED BY <3>1, <3>4 DEF ParAgree, PA!PrimesAgree, PA!ReduceAgrees, PA!SearchAgrees, PA!Returned,
                              IsPrimeNumber
  <2> QED BY <2>2, <2>3 DEF ParInv
<1>2. CASE x >= 2 /\ flag' = FALSE /\ PA!Start(2, PA!Bound(x) - 2)
  <2>1. FirstOne("prime") = 2 /\ HowMany("prime", x) = PA!Bound(x) - 2
        BY DEF FirstOne, HowMany
  <2>2. HowMany("prime", x) \in Nat
        BY <1>0, <1>2, <2>1, BoundFacts
  <2>3. res' \in [PA!Worker -> SUBSET Nat]
        BY <1>0 DEF ParInv, ParTypes
  <2> QED BY <1>0, <1>2, <2>1, <2>2, <2>3, ParStarted
<1> QED BY <1>1, <1>2 DEF PA!CallIsPrime

LEMMA CallFindEqualSumSubsetsKeeps ==
  ASSUME ParInv, NEW n \in 0..MaxSize, NEW data \in [0..(n - 1) -> Summand],
         PA!CallFindEqualSumSubsets(data)
  PROVE  ParInv'
<1>0. PA!Call("subsets", data) /\ res' = res /\ job' = "subsets" /\ input' = data
      BY DEF PA!CallFindEqualSumSubsets, PA!Call
<1>f. flag \in BOOLEAN
      BY DEF ParInv, ParTypes
<1>1. CASE PA!size(data) < 2 /\ PA!Return(<<>>) /\ PA!NotStarted /\ flag' = flag
  <2>1. /\ ParTypes' /\ Asked' /\ Resting' /\ Sharing' /\ Searching' /\ Keeping' /\ Reducing'
        BY <1>0, <1>1, <1>f, ParReturned
  <2>2. ParAgree'
    <3>1. n \in Nat /\ PA!size(data) = n
      <4>1. n \in Nat
            BY PC
      <4>2. Cardinality(0..(n - 1)) = n
            BY <4>1, FS_Interval
      <4> QED BY <4>1, <4>2 DEF PA!size, PA!Cardinality, Cardinality
    <3>2. ~(PA!size(data) >= 2)
          BY <1>1, <3>1
    <3> QED BY <1>0, <3>2 DEF ParAgree, PA!PrimesAgree, PA!ReduceAgrees, PA!SearchAgrees, PA!Returned
  <2> QED BY <2>1, <2>2 DEF ParInv
<1>2. CASE /\ PA!FoundInMap' /\ PA!Return(PA!MakeSubsets(sums'[0], 0))
           /\ PA!NotStarted /\ flag' = flag
  <2>1. /\ ParTypes' /\ Asked' /\ Resting' /\ Sharing' /\ Searching' /\ Keeping' /\ Reducing'
        BY <1>0, <1>2, <1>f, ParReturned
  <2>2. ParAgree'
        BY <1>0, <1>2 DEF ParAgree, PA!PrimesAgree, PA!ReduceAgrees, PA!SearchAgrees, PA!Returned
  <2> QED BY <2>1, <2>2 DEF ParInv
<1>3. CASE /\ PA!size(data) >= 2 /\ flag' = FALSE /\ kept' = <<>>
           /\ PA!Start(1, PA!choices_cnt(data) - 1)
  <2>1. FirstOne("subsets") = 1 /\ HowMany("subsets", data) = PA!choices_cnt(data) - 1
        BY DEF FirstOne, HowMany
  <2>2. HowMany("subsets", data) \in Nat
    <3>1. n \in Nat /\ PA!size(data) = n
      <4>1. n \in Nat
            BY PC
      <4>2. Cardinality(0..(n - 1)) = n
            BY <4>1, FS_Interval
      <4> QED BY <4>1, <4>2 DEF PA!size, PA!Cardinality, Cardinality
    <3>2. n >= 2
          BY <1>3, <3>1
    <3> QED BY <2>1, <3>1, <3>2, ChoicesCounted
  <2>3. res' \in [PA!Worker -> SUBSET Nat]
        BY <1>0 DEF ParInv, ParTypes
  <2> QED BY <1>0, <1>3, <2>1, <2>2, <2>3, ParStarted
<1> QED BY <1>1, <1>2, <1>3 DEF PA!CallFindEqualSumSubsets

LEMMA CallReduceKeeps ==
  ASSUME ParInv, NEW len \in Lengths, PA!CallReduce(len)
  PROVE  ParInv'
<1>1. len \in Nat /\ PA!Call("reduce", len) /\ PA!Start(0, len) /\ flag' = flag
      BY PC DEF PA!CallReduce
<1>2. FirstOne("reduce") = 0 /\ HowMany("reduce", len) = len
      BY DEF FirstOne, HowMany
<1>3. res' \in [PA!Worker -> SUBSET Nat]
      BY DEF PA!CallReduce
<1>4. flag' \in BOOLEAN
      BY <1>1 DEF ParInv, ParTypes
<1> QED BY <1>1, <1>2, <1>3, <1>4, ParStarted

-----------------------------------------------------------------------------
\* A step of a thread is a step of a call that waits for it.
LEMMA ThreadMoves ==
  ASSUME ParInv, NEW t \in PA!Worker, tpc[t] # "done"
  PROVE  Joining
BY DEF ParInv, ParTypes, Resting, Joining

\* What a thread's step leaves alone.
SameCall == /\ job' = job /\ input' = input /\ sums' = sums /\ end' = end
            /\ result' = result /\ main' = main /\ runs' = runs

LEMMA SameRange ==
  ASSUME SameCall
  PROVE  /\ TheFirst' = TheFirst /\ TheCount' = TheCount /\ TheRange' = TheRange
         /\ \A c : HitOf(c)' = HitOf(c)
         /\ \A h : IsHit(h)' <=> IsHit(h)
BY DEF SameCall, TheFirst, TheCount, TheRange, HitOf, IsHit

LEMMA SameAnswers ==
  ASSUME ParInv, Joining, SameCall
  PROVE  Asked' /\ Resting' /\ ParAgree' /\ Joining'
<1>1. main' = "join" /\ job' = job /\ input' = input
      BY DEF Joining, SameCall
<1>2. TheCount' = TheCount
      BY SameRange
<1>3. Asked'
      BY <1>1, <1>2 DEF ParInv, Asked, Joining
<1>4. Resting' /\ ParAgree'
      BY <1>1 DEF Resting, ParAgree, PA!PrimesAgree, PA!ReduceAgrees, PA!SearchAgrees, PA!Returned
<1> QED BY <1>1, <1>3, <1>4 DEF Joining

LEMMA TestKeeps ==
  ASSUME ParInv, NEW t \in PA!Worker, PA!Test(t)
  PROVE  ParInv'
<1> DEFINE where == IF from[t] < end[t] /\ ~flag THEN "check" ELSE "done"
<1>0. SameCall /\ tpc[t] = "test" /\ job # "reduce"
      BY DEF PA!Test, SameCall
<1>1. Joining
      BY <1>0, ThreadMoves
<1>2. /\ from' = from /\ flag' = flag /\ found' = found /\ kept' = kept /\ res' = res
      /\ tpc' = [tpc EXCEPT ![t] = where]
      BY DEF PA!Test, PA!Goto
<1>3. /\ TheFirst' = TheFirst /\ TheCount' = TheCount /\ TheRange' = TheRange
      /\ (\A c : HitOf(c)' = HitOf(c)) /\ (\A h : IsHit(h)' <=> IsHit(h))
      BY <1>0, SameRange
<1>4. Asked' /\ Resting' /\ ParAgree' /\ Joining'
      BY <1>0, <1>1, SameAnswers
<1>5. /\ job' = job /\ end' = end /\ main' = main /\ runs' = runs
      BY <1>0 DEF SameCall
<1>6. ParTypes /\ Sharing /\ Searching /\ Keeping
      BY DEF ParInv
<1>7. /\ tpc'[t] = where /\ where \in {"check", "done"} /\ \A u \in PA!Worker : u # t => tpc'[u] = tpc[u]
      BY <1>2, <1>6 DEF ParTypes
<1>8. ParTypes'
      BY <1>2, <1>5, <1>6 DEF ParTypes
<1>9. Sharing'
      BY <1>1, <1>2, <1>3, <1>5, <1>6 DEF Sharing
<1>10. Searching'
  <2> SUFFICES ASSUME NEW u \in PA!Worker
               PROVE  /\ tpc'[u] = "check" => from[u] < end[u]
                      /\ tpc'[u] \in {"set", "store"} => IsHit(found[u])
                      /\ tpc'[u] = "store" => flag /\ job = "subsets"
                      /\ ~flag /\ tpc'[u] # "set" =>
                            \A c \in ShareStart(TheFirst, TheCount, u)..(from[u] - 1) : HitOf(c) = <<>>
                      /\ ~flag /\ tpc'[u] = "done" => from[u] = end[u]
      BY <1>2, <1>3, <1>5 DEF Searching
  <2>1. /\ tpc[u] = "check" => from[u] < end[u]
        /\ tpc[u] \in {"set", "store"} => IsHit(found[u])
        /\ tpc[u] = "store" => flag /\ job = "subsets"
        /\ ~flag /\ tpc[u] # "set" =>
              \A c \in ShareStart(TheFirst, TheCount, u)..(from[u] - 1) : HitOf(c) = <<>>
        /\ ~flag /\ tpc[u] = "done" => from[u] = end[u]
        BY <1>0, <1>1, <1>6 DEF Searching
  <2>2. from[u] <= end[u] /\ from[u] \in Nat /\ end[u] \in Nat
        BY <1>1, <1>6 DEF Sharing, ParTypes
  <2>3. CASE u # t
        BY <1>7, <2>1, <2>3
  <2>4. CASE u = t
        BY <1>0, <1>7, <2>1, <2>2, <2>4
  <2> QED BY <2>3, <2>4
<1>11. Keeping'
      BY <1>0, <1>1, <1>2, <1>3, <1>5, <1>6, <1>7 DEF Keeping
<1>12. Reducing'
      BY <1>0, <1>5 DEF Reducing
<1> QED BY <1>4, <1>8, <1>9, <1>10, <1>11, <1>12 DEF ParInv

LEMMA CheckKeeps ==
  ASSUME ParInv, NEW t \in PA!Worker, PA!Check(t)
  PROVE  ParInv'
<1> DEFINE hit == HitOf(from[t])
           where == IF hit # <<>> THEN "set" ELSE "test"
<1>0. SameCall /\ tpc[t] = "check"
      BY DEF PA!Check, SameCall
<1>1. Joining
      BY <1>0, ThreadMoves
<1>2. /\ flag' = flag /\ kept' = kept /\ res' = res
      /\ found' = [found EXCEPT ![t] = hit]
      /\ from' = [from EXCEPT ![t] = @ + 1]
      /\ tpc' = [tpc EXCEPT ![t] = where]
      BY DEF PA!Check, PA!Goto, HitOf, Hit, PA!Divisor, PA!Fitting
<1>3. /\ TheFirst' = TheFirst /\ TheCount' = TheCount /\ TheRange' = TheRange
      /\ (\A c : HitOf(c)' = HitOf(c)) /\ (\A h : IsHit(h)' <=> IsHit(h))
      BY <1>0, SameRange
<1>4. Asked' /\ Resting' /\ ParAgree' /\ Joining'
      BY <1>0, <1>1, SameAnswers
<1>5. /\ job' = job /\ end' = end /\ main' = main /\ runs' = runs
      BY <1>0 DEF SameCall
<1>6. ParTypes /\ Sharing /\ Searching /\ Keeping /\ Reducing /\ Asked
      BY DEF ParInv
<1>7. /\ tpc'[t] = where /\ found'[t] = hit /\ from'[t] = from[t] + 1
      /\ \A u \in PA!Worker : u # t => tpc'[u] = tpc[u] /\ found'[u] = found[u] /\ from'[u] = from[u]
      BY <1>2, <1>6 DEF ParTypes
<1>8. ParTypes'
  <2>1. found' = [u \in PA!Worker |-> found'[u]]
        BY <1>2, <1>6 DEF ParTypes
  <2>2. from' \in [PA!Worker -> Nat] /\ tpc' \in [PA!Worker -> {"test", "check", "set", "store", "done"}]
        BY <1>2, <1>6 DEF ParTypes
  <2>3. flag' = flag /\ res' = res
        BY <1>2
  <2> QED BY <1>5, <1>6, <2>1, <2>2, <2>3 DEF ParTypes
<1>j. job # "reduce" /\ job \in {"prime", "subsets"}
      BY <1>0, <1>1, <1>6 DEF Reducing, ParTypes
<1>l. from[t] < end[t] /\ from[t] \in Nat /\ end[t] \in Nat
      BY <1>0, <1>1, <1>6, <1>j DEF Searching, ParTypes
<1>s. /\ TheFirst \in Nat /\ TheCount \in Nat
      /\ \A u \in PA!Worker : /\ ShareStart(TheFirst, TheCount, u) \in Nat
                              /\ TheFirst <= ShareStart(TheFirst, TheCount, u)
                              /\ ShareEnd(TheFirst, TheCount, u) \in Nat
                              /\ ShareEnd(TheFirst, TheCount, u) <= TheFirst + TheCount
  <2>1. TheFirst \in Nat /\ TheCount \in Nat
        BY <1>1, <1>6 DEF Asked, TheFirst, FirstOne
  <2> QED BY <2>1, Shares
<1>r. from[t] \in TheRange
      BY <1>1, <1>6, <1>l, <1>s DEF Sharing, TheRange
<1>9. Sharing'
  <2> SUFFICES ASSUME NEW u \in PA!Worker
               PROVE  /\ end[u] = ShareEnd(TheFirst, TheCount, u)
                      /\ ShareStart(TheFirst, TheCount, u) <= from'[u] /\ from'[u] <= end[u]
      BY <1>3, <1>5 DEF Sharing
  <2>1. /\ end[u] = ShareEnd(TheFirst, TheCount, u)
        /\ ShareStart(TheFirst, TheCount, u) <= from[u] /\ from[u] <= end[u]
        BY <1>1, <1>6 DEF Sharing
  <2>2. CASE u # t
        BY <1>7, <2>1, <2>2
  <2>3. CASE u = t
        BY <1>7, <1>l, <1>s, <2>1, <2>3
  <2> QED BY <2>2, <2>3
<1>10. Searching'
  <2> SUFFICES ASSUME NEW u \in PA!Worker
               PROVE  /\ tpc'[u] = "check" => from'[u] < end[u]
                      /\ tpc'[u] \in {"set", "store"} => IsHit(found'[u])
                      /\ tpc'[u] = "store" => flag /\ job = "subsets"
                      /\ ~flag /\ tpc'[u] # "set" =>
                            \A c \in ShareStart(TheFirst, TheCount, u)..(from'[u] - 1) : HitOf(c) = <<>>
                      /\ ~flag /\ tpc'[u] = "done" => from'[u] = end[u]
      BY <1>2, <1>3, <1>5 DEF Searching
  <2>1. /\ tpc[u] = "check" => from[u] < end[u]
        /\ tpc[u] \in {"set", "store"} => IsHit(found[u])
        /\ tpc[u] = "store" => flag /\ job = "subsets"
        /\ ~flag /\ tpc[u] # "set" =>
              \A c \in ShareStart(TheFirst, TheCount, u)..(from[u] - 1) : HitOf(c) = <<>>
        /\ ~flag /\ tpc[u] = "done" => from[u] = end[u]
        BY <1>1, <1>6, <1>j DEF Searching
  <2>3. CASE u # t
        BY <1>7, <2>1, <2>3
  <2>4. CASE u = t
    <3>1. tpc'[u] \in {"set", "test"} /\ found'[u] = hit /\ from'[u] = from[t] + 1
          BY <1>7, <2>4
    <3>2. tpc'[u] \in {"set", "store"} => IsHit(found'[u])
          BY <1>7, <1>r, <2>4 DEF IsHit
    <3>3. ASSUME ~flag, tpc'[u] # "set", NEW c \in ShareStart(TheFirst, TheCount, u)..(from'[u] - 1)
          PROVE  HitOf(c) = <<>>
      <4>1. HitOf(from[t]) = <<>>
            BY <1>7, <2>4, <3>3
      <4>2. c = from[t] \/ c \in ShareStart(TheFirst, TheCount, u)..(from[t] - 1)
            BY <1>l, <1>s, <3>1
      <4> QED BY <1>0, <2>1, <2>4, <3>3, <4>1, <4>2
    <3> QED BY <3>1, <3>2, <3>3
  <2> QED BY <2>3, <2>4
<1>11. Keeping'
      BY <1>0, <1>1, <1>2, <1>3, <1>5, <1>6, <1>7, <1>j DEF Keeping
<1>12. Reducing'
      BY <1>5, <1>j DEF Reducing
<1> QED BY <1>4, <1>8, <1>9, <1>10, <1>11, <1>12 DEF ParInv

\* The flag goes up once, and of those who found something one stores it.
LEMMA TestAndSetKeeps ==
  ASSUME ParInv, NEW t \in PA!Worker, PA!TestAndSet(t)
  PROVE  ParInv'
<1> DEFINE where == IF job = "subsets" /\ ~flag THEN "store" ELSE "done"
<1>0. SameCall /\ tpc[t] = "set"
      BY DEF PA!TestAndSet, SameCall
<1>1. Joining
      BY <1>0, ThreadMoves
<1>2. /\ from' = from /\ flag' = TRUE /\ found' = found /\ kept' = kept /\ res' = res
      /\ tpc' = [tpc EXCEPT ![t] = where]
      BY DEF PA!TestAndSet, PA!Goto
<1>3. /\ TheFirst' = TheFirst /\ TheCount' = TheCount /\ TheRange' = TheRange
      /\ (\A c : HitOf(c)' = HitOf(c)) /\ (\A h : IsHit(h)' <=> IsHit(h))
      BY <1>0, SameRange
<1>4. Asked' /\ Resting' /\ ParAgree' /\ Joining'
      BY <1>0, <1>1, SameAnswers
<1>5. /\ job' = job /\ end' = end /\ main' = main /\ runs' = runs
      BY <1>0 DEF SameCall
<1>6. ParTypes /\ Sharing /\ Searching /\ Keeping /\ Reducing
      BY DEF ParInv
<1>7. /\ tpc'[t] = where /\ \A u \in PA!Worker : u # t => tpc'[u] = tpc[u]
      BY <1>2, <1>6 DEF ParTypes
<1>8. ParTypes'
      BY <1>2, <1>5, <1>6 DEF ParTypes
<1>9. Sharing'
      BY <1>1, <1>2, <1>3, <1>5, <1>6 DEF Sharing
<1>j. job # "reduce" /\ job \in {"prime", "subsets"}
      BY <1>0, <1>1, <1>6 DEF Reducing, ParTypes
<1>h. IsHit(found[t])
      BY <1>0, <1>1, <1>6, <1>j DEF Searching
<1>10. Searching'
  <2> SUFFICES ASSUME NEW u \in PA!Worker
               PROVE  /\ tpc'[u] = "check" => from[u] < end[u]
                      /\ tpc'[u] \in {"set", "store"} => IsHit(found[u])
                      /\ tpc'[u] = "store" => job = "subsets"
      BY <1>2, <1>3, <1>5 DEF Searching
  <2>1. /\ tpc[u] = "check" => from[u] < end[u]
        /\ tpc[u] \in {"set", "store"} => IsHit(found[u])
        /\ tpc[u] = "store" => job = "subsets"
        BY <1>1, <1>6, <1>j DEF Searching
  <2>2. CASE u # t
        BY <1>7, <2>1, <2>2
  <2>3. CASE u = t
        BY <1>0, <1>7, <2>1, <2>3
  <2> QED BY <2>2, <2>3
<1>11. Keeping'
  <2>1. \E c \in TheRange : HitOf(c) # <<>>
        BY <1>h DEF IsHit
  <2>2. ASSUME job = "subsets" PROVE kept # <<>> \/ \E u \in PA!Worker : tpc'[u] = "store"
    <3>1. CASE ~flag
          BY <1>7, <2>2, <3>1
    <3>2. CASE flag
          BY <1>0, <1>1, <1>6, <1>7, <2>2, <3>2 DEF Keeping
    <3> QED BY <3>1, <3>2
  <2>3. job = "subsets" /\ kept # <<>> => IsHit(kept)
        BY <1>1, <1>6 DEF Keeping
  <2> QED BY <1>2, <1>3, <1>5, <2>1, <2>2, <2>3 DEF Keeping
<1>12. Reducing'
      BY <1>5, <1>j DEF Reducing
<1> QED BY <1>4, <1>8, <1>9, <1>10, <1>11, <1>12 DEF ParInv

LEMMA StoreKeeps ==
  ASSUME ParInv, NEW t \in PA!Worker, PA!Store(t)
  PROVE  ParInv'
<1>0. SameCall /\ tpc[t] = "store"
      BY DEF PA!Store, SameCall
<1>1. Joining
      BY <1>0, ThreadMoves
<1>2. /\ from' = from /\ flag' = flag /\ found' = found /\ kept' = found[t] /\ res' = res
      /\ tpc' = [tpc EXCEPT ![t] = "done"]
      BY DEF PA!Store, PA!Goto
<1>3. /\ TheFirst' = TheFirst /\ TheCount' = TheCount /\ TheRange' = TheRange
      /\ (\A c : HitOf(c)' = HitOf(c)) /\ (\A h : IsHit(h)' <=> IsHit(h))
      BY <1>0, SameRange
<1>4. Asked' /\ Resting' /\ ParAgree' /\ Joining'
      BY <1>0, <1>1, SameAnswers
<1>5. /\ job' = job /\ end' = end /\ main' = main /\ runs' = runs
      BY <1>0 DEF SameCall
<1>6. ParTypes /\ Sharing /\ Searching /\ Keeping /\ Reducing
      BY DEF ParInv
<1>7. /\ tpc'[t] = "done" /\ \A u \in PA!Worker : u # t => tpc'[u] = tpc[u]
      BY <1>2, <1>6 DEF ParTypes
<1>8. ParTypes'
      BY <1>2, <1>5, <1>6 DEF ParTypes
<1>9. Sharing'
      BY <1>1, <1>2, <1>3, <1>5, <1>6 DEF Sharing
<1>j. job # "reduce" /\ job \in {"prime", "subsets"}
      BY <1>0, <1>1, <1>6 DEF Reducing, ParTypes
<1>h. IsHit(found[t]) /\ flag
      BY <1>0, <1>1, <1>6, <1>j DEF Searching
<1>10. Searching'
  <2> SUFFICES ASSUME NEW u \in PA!Worker
               PROVE  /\ tpc'[u] = "check" => from[u] < end[u]
                      /\ tpc'[u] \in {"set", "store"} => IsHit(found[u])
                      /\ tpc'[u] = "store" => job = "subsets"
      BY <1>2, <1>3, <1>5, <1>h DEF Searching
  <2>1. /\ tpc[u] = "check" => from[u] < end[u]
        /\ tpc[u] \in {"set", "store"} => IsHit(found[u])
        /\ tpc[u] = "store" => job = "subsets"
        BY <1>1, <1>6, <1>j DEF Searching
  <2>2. CASE u # t
        BY <1>7, <2>1, <2>2
  <2>3. CASE u = t
        BY <1>7, <2>3
  <2> QED BY <2>2, <2>3
<1>11. Keeping'
  <2>1. \E c \in TheRange : HitOf(c) # <<>>
        BY <1>h DEF IsHit
  <2>2. kept' # <<>> /\ IsHit(kept)'
        BY <1>2, <1>3, <1>h DEF IsHit
  <2> QED BY <1>2, <1>3, <1>5, <1>h, <2>1, <2>2 DEF Keeping
<1>12. Reducing'
      BY <1>5, <1>j DEF Reducing
<1> QED BY <1>4, <1>8, <1>9, <1>10, <1>11, <1>12 DEF ParInv

LEMMA ReduceShareKeeps ==
  ASSUME ParInv, NEW t \in PA!Worker, PA!ReduceShare(t)
  PROVE  ParInv'
<1>0. SameCall /\ tpc[t] = "test" /\ job = "reduce"
      BY DEF PA!ReduceShare, SameCall
<1>1. Joining
      BY <1>0, ThreadMoves
<1>2. /\ from' = from /\ flag' = flag /\ found' = found
      /\ res' = [res EXCEPT ![t] = from[t]..(end[t] - 1)]
      /\ tpc' = [tpc EXCEPT ![t] = "done"]
      BY DEF PA!ReduceShare, PA!Goto
<1>3. TheFirst' = TheFirst /\ TheCount' = TheCount
      BY <1>0, SameRange
<1>4. Asked' /\ Resting' /\ ParAgree' /\ Joining'
      BY <1>0, <1>1, SameAnswers
<1>5. /\ job' = job /\ end' = end /\ main' = main /\ runs' = runs
      BY <1>0 DEF SameCall
<1>6. ParTypes /\ Sharing /\ Reducing
      BY DEF ParInv
<1>7. /\ tpc'[t] = "done" /\ res'[t] = from[t]..(end[t] - 1)
      /\ \A u \in PA!Worker : u # t => tpc'[u] = tpc[u] /\ res'[u] = res[u]
      BY <1>2, <1>6 DEF ParTypes
<1>8. ParTypes'
  <2>1. from[t]..(end[t] - 1) \in SUBSET Nat
        BY <1>6 DEF ParTypes
  <2> QED BY <1>2, <1>5, <1>6, <2>1 DEF ParTypes
<1>9. Sharing'
      BY <1>1, <1>2, <1>3, <1>5, <1>6 DEF Sharing
<1>10. Reducing'
  <2> SUFFICES ASSUME NEW u \in PA!Worker
               PROVE  /\ tpc'[u] \in {"test", "done"}
                      /\ from[u] = ShareStart(TheFirst, TheCount, u)
                      /\ tpc'[u] = "done" => res'[u] = ShareOf(u)
      BY <1>2, <1>3, <1>5 DEF Reducing, ShareOf
  <2>1. /\ tpc[u] \in {"test", "done"}
        /\ from[u] = ShareStart(TheFirst, TheCount, u)
        /\ tpc[u] = "done" => res[u] = ShareOf(u)
        /\ end[u] = ShareEnd(TheFirst, TheCount, u)
        BY <1>0, <1>1, <1>6 DEF Reducing, Sharing
  <2>2. CASE u # t
        BY <1>7, <2>1, <2>2
  <2>3. CASE u = t
        BY <1>7, <2>1, <2>3 DEF ShareOf
  <2> QED BY <2>2, <2>3
<1>11. Searching' /\ Keeping'
      BY <1>0, <1>5 DEF Searching, Keeping
<1> QED BY <1>4, <1>8, <1>9, <1>10, <1>11 DEF ParInv

\* When all are done and the flag is down, every number was looked at.
LEMMA AllTried ==
  ASSUME ParInv, Joining, job # "reduce", ~flag, \A t \in PA!Worker : tpc[t] = "done",
         NEW c \in TheRange
  PROVE  HitOf(c) = <<>>
<1>1. TheFirst \in Nat /\ TheCount \in Nat
      BY DEF ParInv, Asked, TheFirst, FirstOne
<1>2. c \in TheFirst..(TheFirst + TheCount - 1)
      BY DEF TheRange
<1>3. PICK t \in PA!Worker : c \in ShareStart(TheFirst, TheCount, t)..(ShareEnd(TheFirst, TheCount, t) - 1)
      BY <1>1, <1>2, Shares
<1>4. /\ from[t] = end[t] /\ end[t] = ShareEnd(TheFirst, TheCount, t)
      /\ \A d \in ShareStart(TheFirst, TheCount, t)..(from[t] - 1) : HitOf(d) = <<>>
      BY DEF ParInv, Searching, Sharing
<1> QED BY <1>3, <1>4

\* IsPrime: the flag is up exactly when there is a divisor.
LEMMA PrimeDecided ==
  ASSUME ParInv, Joining, job = "prime", \A t \in PA!Worker : tpc[t] = "done"
  PROVE  flag <=> ~IsPrimeNumber(input)
<1>1. input \in Nat /\ input >= 2
      BY DEF ParInv, Asked
<1>2. PA!Bound(input) \in Nat /\ PA!Bound(input) >= 2 /\ PA!Bound(input) <= input
  <2>1. PA!Root(input) \in Nat
        BY <1>1, RootFacts
  <2> QED BY <1>1, <2>1, BoundFacts DEF Smaller
<1>3. TheRange = 2..(PA!Bound(input) - 1)
      BY <1>2 DEF TheRange, TheFirst, TheCount, FirstOne, HowMany
<1>4. \A c \in TheRange : HitOf(c) # <<>> <=> input % c = 0
      BY DEF HitOf, Hit
<1>5. ASSUME flag PROVE ~IsPrimeNumber(input)
  <2>1. PICK c \in TheRange : HitOf(c) # <<>>
        BY <1>5 DEF ParInv, Keeping
  <2>2. c \in 2..(input - 1) /\ input % c = 0
        BY <1>1, <1>2, <1>3, <1>4, <2>1
  <2> QED BY <2>2 DEF IsPrimeNumber
<1>6. ASSUME ~flag PROVE IsPrimeNumber(input)
  <2>1. \A c \in 2..(PA!Bound(input) - 1) : input % c # 0
        BY <1>3, <1>4, <1>6, AllTried
  <2>2. \A d \in 2..(input - 1) : input % d # 0
        BY <1>1, <2>1, SmallDivisor
  <2> QED BY <1>1, <2>2 DEF IsPrimeNumber
<1> QED BY <1>5, <1>6

\* Reduce: every element is in exactly one slot.
LEMMA ReduceCounts ==
  ASSUME ParInv, Joining, job = "reduce", \A t \in PA!Worker : tpc[t] = "done"
  PROVE  /\ UNION {res[t] : t \in PA!Worker} = 0..(input - 1)
         /\ \A e \in 0..(input - 1) : PA!Cardinality({t \in PA!Worker : e \in res[t]}) = 1
<1>1. input \in Nat /\ TheFirst = 0 /\ TheCount = input
      BY DEF ParInv, Asked, TheFirst, FirstOne, TheCount, HowMany
<1>2. \A t \in PA!Worker : res[t] = ShareStart(0, input, t)..(ShareEnd(0, input, t) - 1)
      BY <1>1 DEF ParInv, Reducing, ShareOf
<1>3. /\ \A t \in PA!Worker : /\ ShareStart(0, input, t) \in Nat /\ ShareEnd(0, input, t) \in Nat
                              /\ 0 <= ShareStart(0, input, t) /\ ShareEnd(0, input, t) <= 0 + input
      /\ \A e \in 0..(0 + input - 1) : \E t \in PA!Worker :
            e \in ShareStart(0, input, t)..(ShareEnd(0, input, t) - 1)
      /\ \A t, u \in PA!Worker : \A e \in Int :
            e \in ShareStart(0, input, t)..(ShareEnd(0, input, t) - 1)
            /\ e \in ShareStart(0, input, u)..(ShareEnd(0, input, u) - 1) => t = u
      BY <1>1, Shares
<1>4. UNION {res[t] : t \in PA!Worker} = 0..(input - 1)
  <2>1. ASSUME NEW t \in PA!Worker, NEW e \in res[t] PROVE e \in 0..(input - 1)
    <3>1. e \in ShareStart(0, input, t)..(ShareEnd(0, input, t) - 1)
          BY <1>2, <2>1
    <3>2. ShareStart(0, input, t) \in Nat /\ ShareEnd(0, input, t) \in Nat /\ ShareEnd(0, input, t) <= input
          BY <1>1, <1>3
    <3> QED BY <1>1, <3>1, <3>2
  <2>2. ASSUME NEW e \in 0..(input - 1) PROVE \E t \in PA!Worker : e \in res[t]
    <3>1. e \in 0..(0 + input - 1)
          BY <1>1
    <3>2. PICK t \in PA!Worker : e \in ShareStart(0, input, t)..(ShareEnd(0, input, t) - 1)
          BY <1>3, <3>1
    <3> QED BY <1>2, <3>2
  <2> QED BY <2>1, <2>2
<1>5. ASSUME NEW e \in 0..(input - 1)
      PROVE  PA!Cardinality({t \in PA!Worker : e \in res[t]}) = 1
  <2>1. PICK t \in PA!Worker : e \in res[t]
        BY <1>4
  <2>2. \A u \in PA!Worker : e \in res[u] => u = t
        BY <1>2, <1>3, <2>1
  <2>3. {u \in PA!Worker : e \in res[u]} = {t}
        BY <2>1, <2>2
  <2>4. Cardinality({t}) = 1
        BY FS_Singleton
  <2> QED BY <2>3, <2>4 DEF PA!Cardinality, Cardinality
<1> QED BY <1>4, <1>5

LEMMA JoinKeeps ==
  ASSUME ParInv, PA!Join
  PROVE  ParInv'
<1>0. /\ Joining /\ (\A t \in PA!Worker : tpc[t] = "done") /\ main' = "idle" /\ result' = PA!Outcome
      /\ job' = job /\ input' = input /\ flag' = flag /\ sums' = sums /\ from' = from /\ end' = end
      /\ tpc' = tpc /\ found' = found /\ kept' = kept /\ res' = res /\ runs' = runs
      BY DEF PA!Join, PA!Return, Joining
<1>t. ParTypes /\ job \in {"prime", "subsets", "reduce"} /\ flag \in BOOLEAN
      BY DEF ParInv, ParTypes
<1>1. ParTypes'
      BY <1>0, <1>t DEF ParTypes
<1>2. Asked'
      BY <1>0 DEF ParInv, Asked, Joining
<1>3. Resting'
      BY <1>0 DEF Resting
<1>4. Sharing' /\ Searching' /\ Keeping' /\ Reducing'
      BY <1>0 DEF Sharing, Searching, Keeping, Reducing, Joining
<1>5. PA!PrimesAgree'
  <2> SUFFICES ASSUME job = "prime" PROVE result' = IsPrimeNumber(input)
      BY <1>0 DEF PA!PrimesAgree, PA!Returned, IsPrimeNumber
  <2>1. result' = ~flag
        BY <1>0 DEF PA!Outcome
  <2>2. flag <=> ~IsPrimeNumber(input)
        BY <1>0, PrimeDecided
  <2>3. IsPrimeNumber(input) \in BOOLEAN
        BY DEF IsPrimeNumber
  <2> QED BY <2>1, <2>2, <2>3
<1>6. PA!ReduceAgrees'
  <2> SUFFICES ASSUME job = "reduce" PROVE result' = [e \in (-1)..(input - 1) |-> 1]
      BY <1>0 DEF PA!ReduceAgrees, PA!Returned, PA!Initial
  <2> DEFINE All == {-1} \cup UNION {res[t] : t \in PA!Worker}
             In(e) == PA!Cardinality({t \in PA!Worker : e \in res[t]}) + (IF e = -1 THEN 1 ELSE 0)
  <2>1. result' = [e \in All |-> In(e)]
        BY <1>0 DEF PA!Outcome, PA!Initial
  <2>2. /\ UNION {res[t] : t \in PA!Worker} = 0..(input - 1)
        /\ \A e \in 0..(input - 1) : PA!Cardinality({t \in PA!Worker : e \in res[t]}) = 1
        BY <1>0, ReduceCounts
  <2>3. input \in Nat
        BY DEF ParInv, Asked
  <2>4. All = (-1)..(input - 1)
        BY <2>2, <2>3
  <2>5. In(-1) = 1
    <3>1. {t \in PA!Worker : -1 \in res[t]} = {}
          BY <2>2, <2>3
    <3>2. PA!Cardinality({t \in PA!Worker : -1 \in res[t]}) = 0
          BY <3>1, FS_EmptySet DEF PA!Cardinality, Cardinality
    <3> QED BY <3>2
  <2>6. \A e \in All : In(e) = 1
    <3>1. ASSUME NEW e \in All PROVE In(e) = 1
      <4>1. CASE e = -1
            BY <2>5, <4>1
      <4>2. CASE e \in 0..(input - 1)
            BY <2>2, <2>3, <4>2
      <4> QED BY <2>2, <4>1, <4>2
    <3> QED BY <3>1
  <2> HIDE DEF All, In
  <2> QED BY <2>1, <2>4, <2>6
<1>7. PA!SearchAgrees'
  <2> SUFFICES ASSUME job = "subsets"
               PROVE  IF result' = <<>> THEN \A c \in 1..(PA!choices_cnt(input) - 1) : PA!Fitting(c) = <<>>
                      ELSE \E c \in 1..(PA!choices_cnt(input) - 1) :
                              /\ PA!Fitting(c) # <<>>
                              /\ result' = PA!MergeCombinations(PA!Fitting(c)[1], PA!Fitting(c)[2], PA!Half(input))
      BY <1>0 DEF PA!SearchAgrees, PA!Returned, PA!Fitting
  <2>1. TheRange = 1..(PA!choices_cnt(input) - 1)
    <3>1. PA!choices_cnt(input) - 1 \in Nat
          BY <1>0 DEF ParInv, Asked, TheCount, HowMany
    <3> QED BY <3>1 DEF TheRange, TheFirst, TheCount, FirstOne, HowMany
  <2>2. \A c : HitOf(c) = PA!Fitting(c)
        BY DEF HitOf, Hit, PA!Fitting
  <2>3. result' = IF kept = <<>> THEN <<>> ELSE PA!MergeCombinations(kept[1], kept[2], PA!Half(input))
        BY <1>0 DEF PA!Outcome
  <2>4. CASE kept = <<>>
    <3>1. ~flag
          BY <1>0, <2>4 DEF ParInv, Keeping
    <3>2. \A c \in TheRange : HitOf(c) = <<>>
          BY <1>0, <3>1, AllTried
    <3> QED BY <2>1, <2>2, <2>3, <2>4, <3>2
  <2>5. CASE kept # <<>>
    <3>1. PICK c \in TheRange : HitOf(c) = kept
          BY <1>0, <2>5 DEF ParInv, Keeping, IsHit
    <3>2. result' = PA!MergeCombinations(kept[1], kept[2], PA!Half(input))
          BY <2>3, <2>5
    <3>3. result' # <<>>
          BY <3>2 DEF PA!MergeCombinations
    <3> QED BY <2>1, <2>2, <2>5, <3>1, <3>2, <3>3
  <2> QED BY <2>4, <2>5
<1> QED BY <1>1, <1>2, <1>3, <1>4, <1>5, <1>6, <1>7 DEF ParInv, ParAgree

LEMMA ParIdle ==
  ASSUME ParInv, UNCHANGED PA!vars
  PROVE  ParInv'
<1>1. /\ job' = job /\ input' = input /\ flag' = flag /\ sums' = sums /\ from' = from /\ end' = end
      /\ tpc' = tpc /\ found' = found /\ kept' = kept /\ res' = res /\ result' = result
      /\ main' = main /\ runs' = runs
      BY DEF PA!vars
<1>2. SameCall
      BY <1>1 DEF SameCall
<1>3. /\ TheFirst' = TheFirst /\ TheCount' = TheCount /\ TheRange' = TheRange
      /\ (\A c : HitOf(c)' = HitOf(c)) /\ (\A h : IsHit(h)' <=> IsHit(h))
      BY <1>2, SameRange
<1>4. ParTypes' /\ Asked' /\ Resting' /\ Sharing'
      BY <1>1, <1>3 DEF ParInv, ParTypes, Asked, Resting, Sharing, Joining
<1>5. Searching'
      BY <1>1, <1>3 DEF ParInv, Searching, Joining
<1>6. Keeping'
      BY <1>1, <1>3 DEF ParInv, Keeping, Joining
<1>7. Reducing'
      BY <1>1, <1>3 DEF ParInv, Reducing, Joining, ShareOf
<1>8. ParAgree'
      BY <1>1 DEF ParInv, ParAgree, PA!PrimesAgree, PA!ReduceAgrees, PA!SearchAgrees, PA!Returned,
                  PA!FoundInMap, PA!Fitting
<1> QED BY <1>4, <1>5, <1>6, <1>7, <1>8 DEF ParInv

\* Of the threads that found something only the one that raised the flag stores.
LEMMA OnePublishesKept ==
  ASSUME ParInv, PA!OnePublishes, [PA!Next]_(PA!vars)
  PROVE  PA!OnePublishes'
<1>t. tpc \in [PA!Worker -> {"test", "check", "set", "store", "done"}]
      BY DEF ParInv, ParTypes
<1>1. ASSUME NEW j, NEW x, PA!Call(j, x), PA!NotStarted PROVE \A t \in PA!Worker : tpc'[t] # "store"
      BY <1>1 DEF PA!Call, PA!NotStarted, ParInv, Resting
<1>2. ASSUME NEW n, NEW m, PA!Start(n, m) PROVE \A t \in PA!Worker : tpc'[t] # "store"
      BY <1>2 DEF PA!Start
<1>3. CASE \E x \in Numbers : PA!CallIsPrime(x)
      BY <1>1, <1>2, <1>3 DEF PA!CallIsPrime, PA!OnePublishes
<1>4. CASE \E n \in 0..MaxSize : \E data \in [0..(n - 1) -> Summand] :
              PA!CallFindEqualSumSubsets(data)
      BY <1>1, <1>2, <1>4 DEF PA!CallFindEqualSumSubsets, PA!OnePublishes
<1>5. CASE \E len \in Lengths : PA!CallReduce(len)
      BY <1>2, <1>5 DEF PA!CallReduce, PA!OnePublishes
<1>6. ASSUME NEW t \in PA!Worker, PA!Test(t) \/ PA!Check(t) \/ PA!ReduceShare(t)
      PROVE  PA!OnePublishes'
  <2>1. /\ kept' = kept /\ tpc'[t] # "store"
        /\ \A u \in PA!Worker : u # t => tpc'[u] = tpc[u]
        BY <1>t, <1>6 DEF PA!Test, PA!Check, PA!ReduceShare, PA!Goto
  <2> QED BY <2>1 DEF PA!OnePublishes
<1>7. ASSUME NEW t \in PA!Worker, PA!TestAndSet(t) PROVE PA!OnePublishes'
  <2>1. /\ kept' = kept /\ tpc[t] = "set"
        /\ tpc'[t] = (IF job = "subsets" /\ ~flag THEN "store" ELSE "done")
        /\ \A u \in PA!Worker : u # t => tpc'[u] = tpc[u]
        BY <1>t, <1>7 DEF PA!TestAndSet, PA!Goto
  <2>2. Joining
        BY <2>1, ThreadMoves
  <2>3. ASSUME job = "subsets", ~flag
        PROVE  kept = <<>> /\ \A u \in PA!Worker : tpc[u] # "store"
        BY <2>2, <2>3 DEF ParInv, Searching, Keeping
  <2> QED BY <2>1, <2>3 DEF PA!OnePublishes
<1>8. ASSUME NEW t \in PA!Worker, PA!Store(t) PROVE PA!OnePublishes'
  <2>1. /\ tpc[t] = "store" /\ tpc'[t] = "done"
        /\ \A u \in PA!Worker : u # t => tpc'[u] = tpc[u]
        BY <1>t, <1>8 DEF PA!Store, PA!Goto
  <2>2. \A u \in PA!Worker : tpc'[u] # "store"
        BY <2>1 DEF PA!OnePublishes
  <2> QED BY <2>2 DEF PA!OnePublishes
<1>9. CASE PA!Join \/ PA!Done \/ UNCHANGED PA!vars
  <2>1. kept' = kept /\ tpc' = tpc
        BY <1>9 DEF PA!Join, PA!Done, PA!vars
  <2> QED BY <2>1 DEF PA!OnePublishes
<1> QED BY <1>3, <1>4, <1>5, <1>6, <1>7, <1>8, <1>9 DEF PA!Next

\* Whatever the interleaving of the threads and whatever the call before left in
\* the flag: IsPrime (is_prime.cpp:26) returns primality, Reduce (reduce.h:12)
\* combines every element exactly once, and FindSuitableCombination
\* (find_subsets.cpp:174) finds a choice that fits the map of sums if there is one,
\* and returns whole what one of the threads found, the only one to write it.
THEOREM ParallelAgrees == PA!Spec => []ThreadsAgree
<1>1. PA!Init => ParInv /\ PA!OnePublishes
      BY ParInit DEF PA!Init, PA!OnePublishes
<1>2. ParInv /\ PA!OnePublishes /\ [PA!Next]_(PA!vars) => ParInv' /\ PA!OnePublishes'
      BY OnePublishesKept, CallIsPrimeKeeps, CallFindEqualSumSubsetsKeeps, CallReduceKeeps, TestKeeps, CheckKeeps,
         TestAndSetKeeps, StoreKeeps, ReduceShareKeeps, JoinKeeps, ParIdle DEF PA!Next, PA!Done
<1>3. ParInv /\ PA!OnePublishes => ThreadsAgree
      BY DEF ParInv, ParAgree, ThreadsAgree, PA!ThreadsAgree
<1> QED BY <1>1, <1>2, <1>3, PTL DEF PA!Spec
-----------------------------------------------------------------------------
\* The stack and the mpsc-queue change as a stack does, through no deleted node, and
\* the sync-map answers as it was at some moment of the call.
THEOREM AtomicActions == Spec /\ MQ!Spec /\ SM!Spec => ActsAtomically
BY Linearizable, QueueLinearizable, MapLinearizable, SnapshotSafe, PTL DEF ActsAtomically
=============================================================================
