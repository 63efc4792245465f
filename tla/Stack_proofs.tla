---------------------------- MODULE Stack_proofs ----------------------------
(***************************************************************************)
(* For every number of threads and nodes: the hazard pointers keep Pop and *)
(* Clear of the lock-free stack from reading a node that has been deleted, *)
(* although addresses are allocated again; every retired node is deleted   *)
(* once; and the list changes as an abstract stack does.                   *)
(***************************************************************************)
EXTENDS Stack, SequenceTheorems, FiniteSetTheorems, WellFoundedInduction, TLAPS

\* The m nodes of s are those of S, each once, and nx leads from a to each in turn.
Path(nx, a, S, m, s) ==
    /\ s \in [1..m -> S]
    /\ \A i, j \in 1..m : s[i] = s[j] => i = j
    /\ \A n \in S : \E i \in 1..m : s[i] = n
    /\ a = IF m = 0 THEN Null ELSE s[1]
    /\ \A i \in 1..m : nx[s[i]] = IF i = m THEN Null ELSE s[i + 1]

\* S is the list that begins at a and goes on by nx.
List(nx, a, S) == \E m \in Nat : \E s : Path(nx, a, S, m, s)

\* The empty list, and only it, begins at the null pointer.
LEMMA EmptyList ==
  ASSUME Null \notin Node, NEW nx
  PROVE  /\ List(nx, Null, {})
         /\ \A S \in SUBSET Node : List(nx, Null, S) => S = {}
         /\ \A S \in SUBSET Node : \A a : List(nx, a, S) => a \in S \cup {Null}
<1>1. List(nx, Null, {})
  <2> DEFINE s == [i \in 1..0 |-> Null]
  <2>1. s \in [1..0 -> {}]
        OBVIOUS
  <2>2. Path(nx, Null, {}, 0, s)
        BY <2>1 DEF Path
  <2> QED BY <2>2 DEF List
<1>2. ASSUME NEW S \in SUBSET Node, NEW a, List(nx, a, S)
      PROVE  (a = Null => S = {}) /\ a \in S \cup {Null}
  <2>p. PICK m \in Nat : \E s : Path(nx, a, S, m, s)
        BY <1>2 DEF List
  <2>0. PICK s : Path(nx, a, S, m, s)
        BY <2>p
  <2>1. /\ s \in [1..m -> S]
        /\ \A n \in S : \E i \in 1..m : s[i] = n
        /\ a = IF m = 0 THEN Null ELSE s[1]
        BY <2>0 DEF Path
  <2>2. CASE m = 0
    <3>1. S = {} /\ a = Null
          BY <2>1, <2>2
    <3> QED BY <3>1
  <2>3. CASE m # 0
    <3>1. 1 \in 1..m /\ a = s[1] /\ s[1] \in S
          BY <2>1, <2>3
    <3> QED BY <3>1
  <2> QED BY <2>2, <2>3
<1> QED BY <1>1, <1>2

\* A node put before a list.
LEMMA PathPrepended ==
  ASSUME NEW nx, NEW S \in SUBSET Node, NEW a, NEW m \in Nat, NEW s, Path(nx, a, S, m, s),
         NEW x \in Node \ S, nx[x] = a
  PROVE  Path(nx, x, S \cup {x}, m + 1, [i \in 1..(m + 1) |-> IF i = 1 THEN x ELSE s[i - 1]])
<1>1. /\ s \in [1..m -> S]
      /\ \A i, j \in 1..m : s[i] = s[j] => i = j
      /\ \A n \in S : \E i \in 1..m : s[i] = n
      /\ a = IF m = 0 THEN Null ELSE s[1]
      /\ \A i \in 1..m : nx[s[i]] = IF i = m THEN Null ELSE s[i + 1]
      BY DEF Path
<1> DEFINE r == [i \in 1..(m + 1) |-> IF i = 1 THEN x ELSE s[i - 1]]
<1>2. /\ r[1] = x
      /\ \A i \in 1..m : r[i + 1] = s[i]
      /\ \A i \in 1..(m + 1) : i # 1 => i - 1 \in 1..m /\ r[i] = s[i - 1]
      OBVIOUS
<1>3. r \in [1..(m + 1) -> S \cup {x}]
  <2>1. \A i \in 1..(m + 1) : (IF i = 1 THEN x ELSE s[i - 1]) \in S \cup {x}
        BY <1>1, <1>2
  <2> QED BY <2>1
<1>4. m + 1 \in Nat /\ m + 1 # 0
      OBVIOUS
<1> HIDE DEF r
<1>5. ASSUME NEW i \in 1..(m + 1), NEW j \in 1..(m + 1), r[i] = r[j] PROVE i = j
  <2>1. \A k \in 1..m : s[k] # x
        BY <1>1
  <2>2. CASE i = 1 \/ j = 1
        BY <1>2, <1>5, <2>1, <2>2
  <2>3. CASE i # 1 /\ j # 1
    <3>1. PICK k \in 1..m, l \in 1..m : k = i - 1 /\ l = j - 1
          BY <1>2, <2>3
    <3>2. r[i] = s[k] /\ r[j] = s[l]
          BY <1>2, <2>3, <3>1
    <3>3. s[k] = s[l]
          BY <1>5, <3>2
    <3>4. \A p, q \in 1..m : s[p] = s[q] => p = q
          BY DEF Path
    <3>5. k = l
          BY <3>3, <3>4
    <3> QED BY <3>1, <3>5
  <2> QED BY <2>2, <2>3
<1>6. ASSUME NEW n \in S \cup {x} PROVE \E i \in 1..(m + 1) : r[i] = n
  <2>1. CASE n = x
        BY <1>2, <2>1
  <2>2. CASE n \in S
    <3>1. PICK i \in 1..m : s[i] = n
          BY <1>1, <2>2
    <3>2. i + 1 \in 1..(m + 1)
          OBVIOUS
    <3> QED BY <1>2, <3>1, <3>2
  <2> QED BY <2>1, <2>2
<1>7. ASSUME NEW i \in 1..(m + 1)
      PROVE  nx[r[i]] = IF i = m + 1 THEN Null ELSE r[i + 1]
  <2>1. CASE i = 1 /\ m = 0
        BY <1>1, <1>2, <2>1
  <2>2. CASE i = 1 /\ m # 0
    <3>1. r[2] = s[1]
      <4>1. 1 \in 1..m
            BY <2>2
      <4> QED BY <1>2, <4>1
    <3> QED BY <1>1, <1>2, <2>2, <3>1
  <2>3. CASE i # 1
    <3>1. PICK k \in 1..m : k = i - 1
          BY <1>2, <2>3
    <3>2. r[i] = s[k] /\ nx[s[k]] = IF k = m THEN Null ELSE s[k + 1]
          BY <1>1, <1>2, <2>3, <3>1
    <3>3. k # m => r[i + 1] = s[k + 1]
      <4>1. k # m => k + 1 \in 1..m /\ k + 2 = i + 1
            BY <3>1
      <4>2. k # m => r[(k + 1) + 1] = s[k + 1]
            BY <1>2, <4>1
      <4> QED BY <4>1, <4>2
    <3> QED BY <3>1, <3>2, <3>3
  <2> QED BY <2>1, <2>2, <2>3
<1>8. Path(nx, x, S \cup {x}, m + 1, r)
      BY <1>2, <1>3, <1>4, <1>5, <1>6, <1>7 DEF Path
<1> QED BY <1>8 DEF r

\* As a list.
LEMMA Prepended ==
  ASSUME NEW nx, NEW S \in SUBSET Node, NEW a, List(nx, a, S), NEW x \in Node \ S, nx[x] = a
  PROVE  List(nx, x, S \cup {x})
<1>p. PICK m \in Nat : \E s : Path(nx, a, S, m, s)
      BY DEF List
<1>1. PICK s : Path(nx, a, S, m, s)
      BY <1>p
<1>2. m + 1 \in Nat
      OBVIOUS
<1> QED BY <1>1, <1>2, PathPrepended DEF List

Rest(m, s) == [i \in 1..(m - 1) |-> s[i + 1]]

\* A list without its first node.
LEMMA PathShortened ==
  ASSUME Null \notin Node, NEW nx, NEW S \in SUBSET Node, NEW a, NEW m \in Nat, NEW s,
         Path(nx, a, S, m, s), a # Null
  PROVE  /\ m # 0 /\ a \in S
         /\ Path(nx, nx[a], S \ {a}, m - 1, Rest(m, s))
<1>1. /\ s \in [1..m -> S]
      /\ \A i, j \in 1..m : s[i] = s[j] => i = j
      /\ \A n \in S : \E i \in 1..m : s[i] = n
      /\ a = IF m = 0 THEN Null ELSE s[1]
      /\ \A i \in 1..m : nx[s[i]] = IF i = m THEN Null ELSE s[i + 1]
      BY DEF Path
<1>2. m # 0 /\ m - 1 \in Nat /\ 1 \in 1..m /\ a = s[1] /\ a \in S
      BY <1>1
<1> DEFINE r == [i \in 1..(m - 1) |-> s[i + 1]]
<1>3. \A i \in 1..(m - 1) : i + 1 \in 1..m /\ r[i] = s[i + 1] /\ s[i + 1] # a
      BY <1>1, <1>2
<1>4. r \in [1..(m - 1) -> S \ {a}]
  <2>1. \A i \in 1..(m - 1) : s[i + 1] \in S \ {a}
        BY <1>1, <1>3
  <2> QED BY <2>1
<1> HIDE DEF r
<1>5. \A i, j \in 1..(m - 1) : r[i] = r[j] => i = j
  <2> SUFFICES ASSUME NEW i \in 1..(m - 1), NEW j \in 1..(m - 1), r[i] = r[j] PROVE i = j
      OBVIOUS
  <2>1. i + 1 = j + 1
        BY <1>1, <1>3
  <2> QED BY <2>1
<1>6. ASSUME NEW n \in S \ {a} PROVE \E i \in 1..(m - 1) : r[i] = n
  <2>1. PICK i \in 1..m : s[i] = n
        BY <1>1
  <2>2. i # 1 /\ i - 1 \in 1..(m - 1) /\ (i - 1) + 1 = i
        BY <1>2, <2>1
  <2> QED BY <1>3, <2>1, <2>2
<1>7. nx[a] = IF m - 1 = 0 THEN Null ELSE r[1]
  <2>1. nx[a] = IF m = 1 THEN Null ELSE s[2]
        BY <1>1, <1>2
  <2>2. m # 1 => 1 \in 1..(m - 1)
        BY <1>2
  <2> QED BY <1>2, <1>3, <2>1, <2>2
<1>8. ASSUME NEW i \in 1..(m - 1) PROVE nx[r[i]] = IF i = m - 1 THEN Null ELSE r[i + 1]
  <2>1. i + 1 \in 1..m /\ r[i] = s[i + 1] /\ nx[s[i + 1]] = IF i + 1 = m THEN Null ELSE s[(i + 1) + 1]
        BY <1>1, <1>3
  <2>2. i # m - 1 => i + 1 \in 1..(m - 1)
        BY <1>2
  <2>3. i # m - 1 => r[i + 1] = s[(i + 1) + 1]
        BY <1>3, <2>2
  <2> QED BY <1>2, <2>1, <2>3
<1>9. Path(nx, nx[a], S \ {a}, m - 1, r)
      BY <1>4, <1>5, <1>6, <1>7, <1>8 DEF Path
<1> QED BY <1>2, <1>9 DEF r, Rest

\* As a list.
LEMMA Shortened ==
  ASSUME Null \notin Node, NEW nx, NEW S \in SUBSET Node, NEW a, List(nx, a, S), a # Null
  PROVE  a \in S /\ List(nx, nx[a], S \ {a})
<1>p. PICK m \in Nat : \E s : Path(nx, a, S, m, s)
      BY DEF List
<1>1. PICK s : Path(nx, a, S, m, s)
      BY <1>p
<1>2. m # 0 => m - 1 \in Nat
      OBVIOUS
<1> QED BY <1>1, <1>2, PathShortened DEF List

\* A list depends on the links of its own nodes only.
LEMMA SamePath ==
  ASSUME NEW nx, NEW ny, NEW S, NEW a, NEW m \in Nat, NEW s, Path(nx, a, S, m, s),
         \A n \in S : ny[n] = nx[n]
  PROVE  Path(ny, a, S, m, s)
<1>1. /\ s \in [1..m -> S]
      /\ \A i, j \in 1..m : s[i] = s[j] => i = j
      /\ \A n \in S : \E i \in 1..m : s[i] = n
      /\ a = IF m = 0 THEN Null ELSE s[1]
      /\ \A i \in 1..m : nx[s[i]] = IF i = m THEN Null ELSE s[i + 1]
      BY DEF Path
<1>2. \A i \in 1..m : ny[s[i]] = IF i = m THEN Null ELSE s[i + 1]
      BY <1>1
<1> QED BY <1>1, <1>2 DEF Path

\* As a list.
LEMMA SameList ==
  ASSUME NEW nx, NEW ny, NEW S, NEW a, List(nx, a, S), \A n \in S : ny[n] = nx[n]
  PROVE  List(ny, a, S)
  BY SamePath DEF List

\* A set of naturals has a least element: < is well-founded.
LEMMA Least ==
  ASSUME NEW S \in SUBSET Nat, S # {}
  PROVE  \E n \in S : \A m \in S : n <= m
<1> DEFINE R == {ss \in Nat \X Nat : ss[1] < ss[2]}
<1>1. IsWellFoundedOn(R, Nat)
  BY NatLessThanWellFounded DEF OpToRel
<1>2. PICK n \in S : \A m \in S : ~ (<<m, n>> \in R)
  <2> HIDE DEF R
  <2> QED BY <1>1, WFMin
<1>3. \A m \in S : ~ (m < n)
  BY <1>2
<1> QED BY <1>3

\* Induction over the naturals, from the least element outside.
LEMMA Induction ==
  ASSUME NEW S, 0 \in S, \A n \in Nat : n \in S => n + 1 \in S
  PROVE  Nat \subseteq S
<1> SUFFICES ASSUME Nat \ S # {} PROVE FALSE
  OBVIOUS
<1>1. PICK n \in Nat \ S : \A m \in Nat \ S : n <= m
  <2> DEFINE T == Nat \ S
  <2> T \in SUBSET Nat /\ T # {} OBVIOUS
  <2> HIDE DEF T
  <2>1. PICK n \in T : \A m \in T : n <= m BY Least
  <2> QED BY <2>1 DEF T
<1>2. n # 0 /\ n - 1 \in Nat OBVIOUS
<1>3. n - 1 \in S BY <1>1, <1>2
<1> QED BY <1>3, <1>2

\* Down and Chain for any links.
DownRule(nx, a, N, d) ==
    d = [k \in 0..N |-> IF k = 0 THEN a ELSE IF d[k - 1] = Null THEN Null ELSE nx[d[k - 1]]]
DownBy(nx, a) == CHOOSE d : DownRule(nx, a, Cardinality(Node), d)
ChainBy(nx, a) ==
    LET down == DownBy(nx, a)
    IN  [i \in 1..Cardinality({k \in 1..Cardinality(Node) : down[k - 1] # Null}) |-> down[i - 1]]

\* What is met on the way down a list, and after its end.
LEMMA DownPath ==
  ASSUME Null \notin Node, NEW nx, NEW S \in SUBSET Node, NEW a, NEW m \in Nat, NEW s,
         Path(nx, a, S, m, s), NEW N \in Nat, m <= N, NEW d, DownRule(nx, a, N, d)
  PROVE  \A k \in 0..N : d[k] = IF k < m THEN s[k + 1] ELSE Null
<1>1. /\ s \in [1..m -> S]
      /\ a = IF m = 0 THEN Null ELSE s[1]
      /\ \A i \in 1..m : nx[s[i]] = IF i = m THEN Null ELSE s[i + 1]
      BY DEF Path
<1>2. /\ d[0] = a
      /\ \A k \in 1..N : d[k] = IF d[k - 1] = Null THEN Null ELSE nx[d[k - 1]]
      BY DEF DownRule
<1> DEFINE T == {k \in Nat : k <= N => d[k] = IF k < m THEN s[k + 1] ELSE Null}
<1>3. 0 \in T
      BY <1>1, <1>2
<1>4. ASSUME NEW k \in Nat, k \in T PROVE k + 1 \in T
  <2> SUFFICES ASSUME k + 1 <= N
               PROVE  d[k + 1] = IF k + 1 < m THEN s[(k + 1) + 1] ELSE Null
      OBVIOUS
  <2>1. d[k] = (IF k < m THEN s[k + 1] ELSE Null)
        BY <1>4
  <2>2. d[k + 1] = IF d[k] = Null THEN Null ELSE nx[d[k]]
    <3>1. k + 1 \in 1..N /\ (k + 1) - 1 = k
          OBVIOUS
    <3> QED BY <1>2, <3>1
  <2>3. CASE k < m
    <3>1. k + 1 \in 1..m /\ s[k + 1] \in S
          BY <1>1, <2>3
    <3>2. nx[s[k + 1]] = IF k + 1 = m THEN Null ELSE s[(k + 1) + 1]
          BY <1>1, <3>1
    <3> QED BY <2>1, <2>2, <2>3, <3>1, <3>2
  <2>4. CASE ~(k < m)
        BY <2>1, <2>2, <2>4
  <2> QED BY <2>3, <2>4
<1> HIDE DEF T
<1>5. Nat \subseteq T
      BY <1>3, <1>4, Induction
<1> QED BY <1>5 DEF T

\* A list fits into the nodes there are, and Chain is it.
LEMMA ChainPath ==
  ASSUME Null \notin Node, IsFiniteSet(Node), NEW nx, NEW S \in SUBSET Node, NEW a,
         NEW m \in Nat, NEW s, Path(nx, a, S, m, s)
  PROVE  ChainBy(nx, a) = s /\ m <= Cardinality(Node)
<1> DEFINE N == Cardinality(Node)
<1>0. s \in [1..m -> S] /\ \A i, j \in 1..m : s[i] = s[j] => i = j
      BY DEF Path
<1>1. N \in Nat
      BY FS_CardinalityType
<1>2. m <= N
  <2>1. s \in Injection(1..m, Node)
    <3>1. s \in [1..m -> Node]
          BY <1>0
    <3> QED BY <1>0, <3>1 DEF Injection, IsInjective
  <2>2. Cardinality(1..m) <= N
        BY <2>1, FS_Injection
  <2>3. Cardinality(1..m) = m
    <3>1. Cardinality(1..m) = IF 1 > m THEN 0 ELSE m - 1 + 1
          BY FS_Interval
    <3> QED BY <3>1
  <2> QED BY <2>2, <2>3
<1> DEFINE g == [k \in 0..N |-> IF k < m THEN s[k + 1] ELSE Null]
           d == DownBy(nx, a)
<1> HIDE DEF N
<1>3. DownRule(nx, a, N, g)
  <2>1. /\ a = IF m = 0 THEN Null ELSE s[1]
        /\ \A i \in 1..m : s[i] # Null /\ nx[s[i]] = IF i = m THEN Null ELSE s[i + 1]
        BY <1>0 DEF Path
  <2>2. ASSUME NEW k \in 0..N
        PROVE  g[k] = IF k = 0 THEN a ELSE IF g[k - 1] = Null THEN Null ELSE nx[g[k - 1]]
    <3>1. CASE k = 0
          BY <2>1, <3>1, <1>1
    <3>2. CASE k # 0
      <4>1. PICK j \in 0..N : j = k - 1
            BY <3>2, <1>1
      <4>2. g[j] = IF j < m THEN s[j + 1] ELSE Null
            OBVIOUS
      <4>3. g[k] = IF k < m THEN s[k + 1] ELSE Null
            OBVIOUS
      <4> HIDE DEF g
      <4>4. CASE j < m
        <5>1. j + 1 \in 1..m /\ k = j + 1
              BY <4>1, <4>4, <3>2
        <5>2. s[k] # Null /\ nx[s[k]] = IF k = m THEN Null ELSE s[k + 1]
              BY <2>1, <5>1
        <5> QED BY <3>2, <4>1, <4>2, <4>3, <4>4, <5>1, <5>2
      <4>5. CASE ~(j < m)
            BY <3>2, <4>1, <4>2, <4>3, <4>5
      <4> QED BY <4>4, <4>5
    <3> QED BY <3>1, <3>2
  <2>3. g = [k \in 0..N |-> g[k]]
        OBVIOUS
  <2> HIDE DEF g
  <2> QED BY <2>2, <2>3 DEF DownRule
<1>4. DownRule(nx, a, N, d)
  <2> HIDE DEF g
  <2>1. d = CHOOSE h : DownRule(nx, a, N, h)
        BY DEF DownBy, N
  <2> HIDE DEF d
  <2> QED BY <1>3, <2>1
<1> HIDE DEF g, d
<1>5. \A k \in 0..N : d[k] = IF k < m THEN s[k + 1] ELSE Null
      BY <1>1, <1>2, <1>4, DownPath
<1>6. {k \in 1..N : d[k - 1] # Null} = 1..m
  <2>1. ASSUME NEW k \in 1..N PROVE d[k - 1] # Null <=> k <= m
    <3>1. k - 1 \in 0..N /\ (k - 1) + 1 = k
          BY <1>1
    <3>2. d[k - 1] = IF k - 1 < m THEN s[k] ELSE Null
          BY <1>5, <3>1
    <3>3. k <= m => s[k] # Null
          BY <1>0
    <3> QED BY <3>2, <3>3
  <2> QED BY <1>1, <1>2, <2>1
<1>7. Cardinality(1..m) = m
  <2>1. Cardinality(1..m) = IF 1 > m THEN 0 ELSE m - 1 + 1
        BY FS_Interval
  <2> QED BY <2>1
<1>8. ChainBy(nx, a) = [i \in 1..m |-> d[i - 1]]
      BY <1>6, <1>7 DEF ChainBy, d, N
<1>9. \A i \in 1..m : d[i - 1] = s[i]
  <2> SUFFICES ASSUME NEW i \in 1..m PROVE d[i - 1] = s[i]
      OBVIOUS
  <2>1. i - 1 \in 0..N /\ i - 1 < m /\ (i - 1) + 1 = i
        BY <1>1, <1>2
  <2> QED BY <1>5, <2>1
<1>10. s = [i \in 1..m |-> s[i]]
      BY <1>0
<1> QED BY <1>2, <1>8, <1>9, <1>10 DEF N

Elements(c) == {c[i] : i \in 1..Len(c)}

\* The nodes of a list, in the order of Chain.
LEMMA ChainOfList ==
  ASSUME Null \notin Node, IsFiniteSet(Node), NEW nx, NEW S \in SUBSET Node, NEW a, List(nx, a, S)
  PROVE  LET c == ChainBy(nx, a) IN
         /\ c \in Seq(Node) /\ Elements(c) = S
         /\ a = Null => c = <<>>
<1>p. PICK m \in Nat : \E s : Path(nx, a, S, m, s)
      BY DEF List
<1>1. PICK s : Path(nx, a, S, m, s)
      BY <1>p
<1>2. ChainBy(nx, a) = s
      BY <1>1, ChainPath
<1>3. /\ s \in [1..m -> S] /\ \A n \in S : \E i \in 1..m : s[i] = n
      /\ a = IF m = 0 THEN Null ELSE s[1]
      BY <1>1 DEF Path
<1>4. s \in Seq(Node) /\ Len(s) = m
  <2>1. s \in [1..m -> Node]
        BY <1>3
  <2> QED BY <2>1
<1>5. Elements(s) = S
      BY <1>3, <1>4 DEF Elements
<1>6. a = Null => m = 0
      BY <1>3
<1>7. a = Null => s = <<>>
      BY <1>4, <1>6
<1> QED BY <1>2, <1>4, <1>5, <1>7

\* Chain of a list that a node was put before.
LEMMA ChainPrepended ==
  ASSUME Null \notin Node, IsFiniteSet(Node), NEW nx, NEW S \in SUBSET Node, NEW a,
         List(nx, a, S), NEW x \in Node \ S, nx[x] = a
  PROVE  ChainBy(nx, x) = <<x>> \o ChainBy(nx, a)
<1>p. PICK m \in Nat : \E s : Path(nx, a, S, m, s)
      BY DEF List
<1>1. PICK s : Path(nx, a, S, m, s)
      BY <1>p
<1> DEFINE r == [i \in 1..(m + 1) |-> IF i = 1 THEN x ELSE s[i - 1]]
<1>2. Path(nx, x, S \cup {x}, m + 1, r) /\ m + 1 \in Nat /\ S \cup {x} \in SUBSET Node
      BY <1>1, PathPrepended
<1>3. ChainBy(nx, a) = s /\ ChainBy(nx, x) = r
  <2> HIDE DEF r
  <2> QED BY <1>1, <1>2, ChainPath
<1>4. s \in Seq(Node) /\ Len(s) = m
  <2>1. s \in [1..m -> Node]
        BY <1>1 DEF Path
  <2> QED BY <2>1
<1>5. r \in Seq(Node) /\ Len(r) = m + 1
  <2>1. r \in [1..(m + 1) -> Node]
    <3> HIDE DEF r
    <3> QED BY <1>2 DEF Path
  <2> HIDE DEF r
  <2> QED BY <2>1
<1>6. <<x>> \o s \in Seq(Node) /\ Len(<<x>> \o s) = m + 1
      BY <1>4
<1>7. \A i \in 1..(m + 1) : (<<x>> \o s)[i] = r[i]
      BY <1>4
<1> HIDE DEF r
<1>8. <<x>> \o s = r
      BY <1>5, <1>6, <1>7, SeqEqual
<1> QED BY <1>3, <1>8

\* Chain of a list without its first node.
LEMMA ChainShortened ==
  ASSUME Null \notin Node, IsFiniteSet(Node), NEW nx, NEW S \in SUBSET Node, NEW a,
         List(nx, a, S), a # Null
  PROVE  ChainBy(nx, a) # <<>> /\ ChainBy(nx, nx[a]) = Tail(ChainBy(nx, a))
<1>p. PICK m \in Nat : \E s : Path(nx, a, S, m, s)
      BY DEF List
<1>1. PICK s : Path(nx, a, S, m, s)
      BY <1>p
<1> DEFINE r == Rest(m, s)
<1>b. m # 0
      BY <1>1, PathShortened
<1>2. Path(nx, nx[a], S \ {a}, m - 1, r)
      BY <1>1, PathShortened
<1>c. S \ {a} \in SUBSET Node
      OBVIOUS
<1>a. m - 1 \in Nat
  <2> HIDE DEF r
  <2> QED BY <1>b, SMT
<1>3. ChainBy(nx, a) = s /\ ChainBy(nx, nx[a]) = r
  <2> HIDE DEF r
  <2> QED BY <1>1, <1>2, <1>a, <1>c, ChainPath
<1>4. s \in Seq(Node) /\ Len(s) = m
  <2>1. s \in [1..m -> Node]
        BY <1>1 DEF Path
  <2> QED BY <2>1
<1>5. s # <<>> /\ Tail(s) = r
  <2>1. s # <<>>
        BY <1>b, <1>4
  <2>2. r \in Seq(Node) /\ Len(r) = m - 1 /\ \A i \in 1..(m - 1) : r[i] = s[i + 1]
    <3>1. r \in [1..(m - 1) -> Node]
      <4> HIDE DEF r
      <4> QED BY <1>2 DEF Path
    <3>2. \A i \in 1..(m - 1) : r[i] = s[i + 1]
          BY DEF Rest
    <3> HIDE DEF r
    <3> QED BY <1>a, <3>1, <3>2
  <2>3. Tail(s) \in Seq(Node) /\ Len(Tail(s)) = m - 1 /\ \A i \in 1..(m - 1) : Tail(s)[i] = s[i + 1]
        BY <1>4, <2>1, HeadTailProperties
  <2> HIDE DEF r
  <2> QED BY <2>1, <2>2, <2>3, SeqEqual
<1> QED BY <1>3, <1>5

\* Chain depends on the links of its own nodes only.
LEMMA SameChain ==
  ASSUME Null \notin Node, IsFiniteSet(Node), NEW nx, NEW ny, NEW S \in SUBSET Node, NEW a,
         List(nx, a, S), \A n \in S : ny[n] = nx[n]
  PROVE  ChainBy(ny, a) = ChainBy(nx, a)
<1>p. PICK m \in Nat : \E s : Path(nx, a, S, m, s)
      BY DEF List
<1>1. PICK s : Path(nx, a, S, m, s)
      BY <1>p
<1>2. Path(ny, a, S, m, s)
      BY <1>1, SamePath
<1> QED BY <1>1, <1>2, ChainPath
-----------------------------------------------------------------------------

Address == Node \cup {Null}

ScanPCs == {"exchange", "lock threads", "collect", "delete"}
RetirePCs == {"count", "check", "scan", "try", "retired"} \cup ScanPCs
PopPCs == {"acquire", "publish", "reload", "acquired", "pop next", "pop", "pop value"}
PCs == {"start", "idle", "push", "retire", "clear", "walk", "done", "gave up"}
          \cup PopPCs \cup RetirePCs

StackType ==
    /\ ptr \in Address /\ live \in SUBSET Node
    /\ hazard_ptr \in [Thread -> Address] /\ threads \in SUBSET Thread
    /\ free_list \in SUBSET Node
    /\ scan_lock \in Thread \cup {Null}
    /\ scan \in [retired : SUBSET Node, hazard : SUBSET Node, left : SUBSET Thread]
    /\ pc \in [Thread -> PCs] /\ val \in [Thread -> Address]
    /\ next \in [Node -> Address] /\ loc \in [Thread -> Address]
    /\ op \in [Thread -> {"none", "Push", "Pop", "Clear"}]

\* Where a thread may be registered or not, and in which call it is.
Bookkeeping ==
    \A t \in Thread :
        /\ pc[t] \in {"idle", "push", "retire", "count", "check", "retired", "clear", "walk"} \cup PopPCs
              => t \in threads
        /\ pc[t] \in PopPCs => op[t] = "Pop"
        /\ pc[t] \in {"clear", "walk"} => op[t] = "Clear"
        /\ pc[t] = "retire" => op[t] \in {"Pop", "Clear"}

\* One scan at a time; it deletes only after it has read every hazard pointer.
OneScan ==
    \A t \in Thread : /\ pc[t] \in ScanPCs <=> scan_lock = t
                      /\ pc[t] = "delete" => scan.left = {}

Scanning == \E t \in Thread : pc[t] \in {"lock threads", "collect", "delete"}
Unnamed == free_list = {} /\ scan.hazard = {} /\ scan.left = {}

\* Objects are in the hands of a scan only while there is one; a registered thread has
\* begun and is not over; and when nobody is registered, and nobody gave up, what is
\* retired waits for a scan, or is in the hands of one that met no hazard pointer.
Draining ==
    /\ scan.retired # {} => Scanning
    /\ \A t \in threads : pc[t] \notin {"start", "done", "gave up"}
    /\ threads = {} /\ (\A t \in Thread : pc[t] # "gave up") =>
          \/ free_list = {} /\ scan.retired = {}
          \/ \E t \in Thread : pc[t] \in {"scan", "try", "exchange"}
          \/ Scanning /\ Unnamed

\* S is the list that begins at a.
Segment(a, S) == List(next, a, S)

Retired == free_list \cup scan.retired

\* A node in use belongs to the stack (L), to one thread that has not published or has
\* unlinked it (W[t]), or to the list of retired objects: to one of them, never to two.
Apart(L, W) ==
    /\ L \subseteq live /\ Retired \subseteq live /\ free_list \cap scan.retired = {}
    /\ L \cap Retired = {}
    /\ \A t \in Thread : W[t] \subseteq live /\ W[t] \cap (L \cup Retired) = {}
    /\ \A t, u \in Thread : t # u => W[t] \cap W[u] = {}
    /\ \A n \in live : n \in L \cup Retired \/ \E t \in Thread : n \in W[t]

\* Where a thread owns nodes.
Owns(t) == \/ pc[t] \in {"push", "pop value", "walk", "retire"}
           \/ pc[t] \in RetirePCs /\ op[t] = "Clear" /\ t \in threads

\* What a thread knows of the nodes it owns, which are those of S.
Owned(t, S) ==
    /\ pc[t] = "push" => S = {loc[t]} /\ next[loc[t]] = val[t]
    /\ pc[t] = "pop value" => S = {val[t]}
    /\ pc[t] = "retire" /\ op[t] = "Pop" => S = {val[t]}
    /\ pc[t] = "walk" => Segment(val[t], S)
    /\ pc[t] = "retire" /\ op[t] = "Clear" => val[t] \in S /\ Segment(loc[t], S \ {val[t]})
    /\ pc[t] \in RetirePCs /\ op[t] = "Clear" /\ t \in threads => Segment(loc[t], S)
    /\ ~Owns(t) => S = {}

Holds(L, W) == Segment(ptr, L) /\ Apart(L, W) /\ \A t \in Thread : Owned(t, W[t])

Ownership == \E L \in SUBSET Node, W \in [Thread -> SUBSET Node] : Holds(L, W)

\* Acquire has returned a node to t that t still uses.
Protected(t) == pc[t] \in {"acquired", "pop next", "pop"} /\ val[t] # Null

\* A protected node is allocated, is not in the hands of a thread that may change its
\* next, and a scan that could delete it has read the hazard pointer, or will.
Safe(t) ==
    /\ val[t] \in live
    /\ \A u \in Thread : pc[u] = "push" => loc[u] # val[t]
    /\ val[t] \in scan.retired => \/ \E u \in Thread : pc[u] = "lock threads"
                                  \/ t \in scan.left \/ val[t] \in scan.hazard

Protection ==
    \A t \in Thread :
        /\ pc[t] \in {"reload", "acquired", "pop next", "pop"} => hazard_ptr[t] = val[t]
        /\ pc[t] \in {"pop next", "pop"} => val[t] # Null
        /\ pc[t] = "pop" => loc[t] = next[val[t]]
        /\ Protected(t) => Safe(t)

IInv == StackType /\ Bookkeeping /\ OneScan /\ Draining /\ Ownership /\ Protection

Taken(t) == StackStep(t) \/ (HazardStep(t) /\ UNCHANGED local)

\* A node that is to be retired is a node.
LEMMA RetireNode ==
  ASSUME Ownership, Bookkeeping, NEW t \in Thread, pc[t] = "retire"
  PROVE  val[t] \in Node
<1>1. PICK L \in SUBSET Node, W \in [Thread -> SUBSET Node] : Holds(L, W)
      BY DEF Ownership
<1> QED BY <1>1 DEF Holds, Bookkeeping, Owned

\* Nor is the node that Push links the null pointer.
LEMMA PushNode ==
  ASSUME Ownership, NEW t \in Thread, pc[t] = "push"
  PROVE  loc[t] \in Node
<1>1. PICK L \in SUBSET Node, W \in [Thread -> SUBSET Node] : Holds(L, W)
      BY DEF Ownership
<1> QED BY <1>1 DEF Holds, Owned

\* Every step keeps the types.
LEMMA StepType ==
  ASSUME IInv, NEW t \in Thread, Taken(t)
  PROVE  StackType'
<1> USE DEF IInv, StackType, PCs, PopPCs, RetirePCs, ScanPCs, Address, At, Local,
            retireVars, local, hpVars
<1>1. ASSUME Push(t) PROVE StackType'
  <2>1. PICK n \in Node \ live :
              /\ live' = live \cup {n} /\ next' = [next EXCEPT ![n] = ptr]
              /\ loc' = [loc EXCEPT ![t] = n]
        BY <1>1 DEF Push
  <2>2. live' \in SUBSET Node /\ next' \in [Node -> Address] /\ loc' \in [Thread -> Address]
        BY <2>1
  <2> QED BY <1>1, <2>2 DEF Push, Call
<1>2. ASSUME PushExchange(t) PROVE StackType'
  <2>1. CASE ptr' = loc[t] /\ UNCHANGED <<next, val>> /\ At(t, "push", "idle")
        BY <1>2, <2>1 DEF PushExchange
  <2>2. CASE Local(t, ptr) /\ next' = [next EXCEPT ![loc[t]] = ptr] /\ At(t, "push", "push") /\ UNCHANGED ptr
        BY <1>2, <2>2 DEF PushExchange
  <2> QED BY <1>2, <2>1, <2>2 DEF PushExchange
<1>3. ASSUME Pop(t) PROVE StackType'
      BY <1>3 DEF Pop, Call
<1>4. ASSUME PopHead(t) PROVE StackType'
      BY <1>4 DEF PopHead
<1>5. ASSUME PopNext(t) PROVE StackType'
      BY <1>5 DEF PopNext, Protection
<1>6. ASSUME PopExchange(t) PROVE StackType'
      BY <1>6 DEF PopExchange
<1>7. ASSUME PopRelease(t) PROVE StackType'
      BY <1>7 DEF PopRelease
<1>8. ASSUME Clear(t) PROVE StackType'
      BY <1>8 DEF Clear, Call
<1>9. ASSUME ClearExchange(t) PROVE StackType'
  <2>1. CASE At(t, "clear", "walk") /\ ptr' = Null /\ UNCHANGED val
        BY <1>9, <2>1 DEF ClearExchange
  <2>2. CASE At(t, "clear", "clear") /\ Local(t, ptr) /\ UNCHANGED ptr
        BY <1>9, <2>2 DEF ClearExchange
  <2> QED BY <1>9, <2>1, <2>2 DEF ClearExchange
<1>10. ASSUME ClearWalk(t) PROVE StackType'
      BY <1>10 DEF ClearWalk
<1>11. ASSUME Resume(t) PROVE StackType'
      BY <1>11 DEF Resume
<1>12. ASSUME AcquireLoad(t), UNCHANGED local PROVE StackType'
      BY <1>12 DEF AcquireLoad
<1>13. ASSUME AcquirePublish(t), UNCHANGED local PROVE StackType'
      BY <1>13 DEF AcquirePublish
<1>14. ASSUME AcquireReload(t), UNCHANGED local PROVE StackType'
      BY <1>14 DEF AcquireReload
<1>15. ASSUME RetirePush(t), UNCHANGED local PROVE StackType'
      BY <1>15, RetireNode DEF RetirePush
<1>16. ASSUME RetireCount(t), UNCHANGED local PROVE StackType'
      BY <1>16 DEF RetireCount
<1>17. ASSUME RetireCheck(t), UNCHANGED local PROVE StackType'
      BY <1>17 DEF RetireCheck
<1>18. ASSUME ScanReset(t), UNCHANGED local PROVE StackType'
      BY <1>18 DEF ScanReset
<1>19. ASSUME ScanTryLock(t), UNCHANGED local PROVE StackType'
      BY <1>19 DEF ScanTryLock
<1>20. ASSUME ScanExchange(t), UNCHANGED local PROVE StackType'
      BY <1>20 DEF ScanExchange
<1>21. ASSUME ScanLockThreads(t), UNCHANGED local PROVE StackType'
      BY <1>21 DEF ScanLockThreads
<1>22. ASSUME ScanCollect(t), UNCHANGED local PROVE StackType'
  <2>1. CASE UNCHANGED scan
        BY <1>22, <2>1 DEF ScanCollect
  <2>2. ASSUME NEW u \in scan.left,
               scan' = [scan EXCEPT !.left = @ \ {u}, !.hazard = @ \cup ({hazard_ptr[u]} \ {Null})]
        PROVE  scan' \in [retired : SUBSET Node, hazard : SUBSET Node, left : SUBSET Thread]
    <3>1. u \in Thread /\ hazard_ptr[u] \in Address
          OBVIOUS
    <3> QED BY <2>2, <3>1
  <2> QED BY <1>22, <2>1, <2>2 DEF ScanCollect
<1>23. ASSUME ScanDelete(t), UNCHANGED local PROVE StackType'
  <2>1. CASE UNCHANGED scan /\ scan.retired = {} /\ At(t, "delete", ScanReturn(t))
        BY <1>23, <2>1 DEF ScanDelete, ScanReturn
  <2>2. ASSUME NEW n \in scan.retired, scan' = [scan EXCEPT !.retired = @ \ {n}]
        PROVE  n \in Node /\ scan' \in [retired : SUBSET Node, hazard : SUBSET Node, left : SUBSET Thread]
        BY <2>2
  <2>3. ASSUME NEW n \in scan.retired,
               At(t, "delete", "delete") /\ UNCHANGED scan_lock,
               scan' = [scan EXCEPT !.retired = @ \ {n}],
               live' = IF n \in scan.hazard THEN live ELSE live \ {n},
               free_list' = IF n \in scan.hazard THEN free_list \cup {n} ELSE free_list
        PROVE  StackType'
    <3>1. n \in Node /\ scan' \in [retired : SUBSET Node, hazard : SUBSET Node, left : SUBSET Thread]
          BY <2>2, <2>3
    <3>2. live' \in SUBSET Node /\ free_list' \in SUBSET Node
          BY <2>3, <3>1
    <3> QED BY <1>23, <2>3, <3>1, <3>2 DEF ScanDelete
  <2> QED BY <1>23, <2>1, <2>3 DEF ScanDelete
<1>24. ASSUME RegisterThread(t), UNCHANGED local PROVE StackType'
      BY <1>24 DEF RegisterThread
<1>25. ASSUME UnregisterThread(t), UNCHANGED local PROVE StackType'
      BY <1>25 DEF UnregisterThread
<1> QED BY <1>1, <1>2, <1>3, <1>4, <1>5, <1>6, <1>7, <1>8, <1>9, <1>10, <1>11,
           <1>12, <1>13, <1>14, <1>15, <1>16, <1>17, <1>18, <1>19, <1>20, <1>21,
           <1>22, <1>23, <1>24, <1>25
       DEF StackStep, HazardStep, Taken

\* Every step keeps the registration and the calls in order.
LEMMA StepBookkeeping ==
  ASSUME IInv, NEW t \in Thread, Taken(t)
  PROVE  Bookkeeping'
<1> USE DEF IInv, StackType, Bookkeeping, PopPCs, At, Local, retireVars, local, hpVars
<1>1. ASSUME Push(t) PROVE Bookkeeping'
      BY <1>1 DEF Push, Call
<1>2. ASSUME PushExchange(t) PROVE Bookkeeping'
      BY <1>2 DEF PushExchange
<1>3. ASSUME Pop(t) PROVE Bookkeeping'
      BY <1>3 DEF Pop, Call
<1>4. ASSUME PopHead(t) PROVE Bookkeeping'
      BY <1>4 DEF PopHead
<1>5. ASSUME PopNext(t) PROVE Bookkeeping'
      BY <1>5 DEF PopNext
<1>6. ASSUME PopExchange(t) PROVE Bookkeeping'
      BY <1>6 DEF PopExchange
<1>7. ASSUME PopRelease(t) PROVE Bookkeeping'
      BY <1>7 DEF PopRelease
<1>8. ASSUME Clear(t) PROVE Bookkeeping'
      BY <1>8 DEF Clear, Call
<1>9. ASSUME ClearExchange(t) PROVE Bookkeeping'
      BY <1>9 DEF ClearExchange
<1>10. ASSUME ClearWalk(t) PROVE Bookkeeping'
      BY <1>10 DEF ClearWalk
<1>11. ASSUME Resume(t) PROVE Bookkeeping'
      BY <1>11 DEF Resume
<1>12. ASSUME AcquireLoad(t), UNCHANGED local PROVE Bookkeeping'
      BY <1>12 DEF AcquireLoad
<1>13. ASSUME AcquirePublish(t), UNCHANGED local PROVE Bookkeeping'
      BY <1>13 DEF AcquirePublish
<1>14. ASSUME AcquireReload(t), UNCHANGED local PROVE Bookkeeping'
      BY <1>14 DEF AcquireReload
<1>15. ASSUME RetirePush(t), UNCHANGED local PROVE Bookkeeping'
      BY <1>15 DEF RetirePush
<1>16. ASSUME RetireCount(t), UNCHANGED local PROVE Bookkeeping'
      BY <1>16 DEF RetireCount
<1>17. ASSUME RetireCheck(t), UNCHANGED local PROVE Bookkeeping'
      BY <1>17 DEF RetireCheck
<1>18. ASSUME ScanReset(t), UNCHANGED local PROVE Bookkeeping'
      BY <1>18 DEF ScanReset
<1>19. ASSUME ScanTryLock(t), UNCHANGED local PROVE Bookkeeping'
      BY <1>19 DEF ScanTryLock
<1>20. ASSUME ScanExchange(t), UNCHANGED local PROVE Bookkeeping'
      BY <1>20 DEF ScanExchange
<1>21. ASSUME ScanLockThreads(t), UNCHANGED local PROVE Bookkeeping'
      BY <1>21 DEF ScanLockThreads
<1>22. ASSUME ScanCollect(t), UNCHANGED local PROVE Bookkeeping'
  <2>1. pc' = [pc EXCEPT ![t] = "collect"] \/ pc' = [pc EXCEPT ![t] = "delete"]
        BY <1>22 DEF ScanCollect
  <2>2. UNCHANGED <<op, threads>> /\ pc[t] = "collect"
        BY <1>22 DEF ScanCollect
  <2> QED BY <2>1, <2>2
<1>23. ASSUME ScanDelete(t), UNCHANGED local PROVE Bookkeeping'
      BY <1>23 DEF ScanDelete, ScanReturn
<1>24. ASSUME RegisterThread(t), UNCHANGED local PROVE Bookkeeping'
      BY <1>24 DEF RegisterThread
<1>25. ASSUME UnregisterThread(t), UNCHANGED local PROVE Bookkeeping'
      BY <1>25 DEF UnregisterThread
<1> QED BY <1>1, <1>2, <1>3, <1>4, <1>5, <1>6, <1>7, <1>8, <1>9, <1>10, <1>11,
           <1>12, <1>13, <1>14, <1>15, <1>16, <1>17, <1>18, <1>19, <1>20, <1>21,
           <1>22, <1>23, <1>24, <1>25
       DEF StackStep, HazardStep, Taken

\* Every step keeps scan_lock with the one scan there is.
LEMMA StepScan ==
  ASSUME IInv, NEW t \in Thread, Taken(t)
  PROVE  OneScan'
<1> USE StackConstants DEF IInv, StackType, OneScan, ScanPCs, At, Local, retireVars, local, hpVars,
        HazardConstants
<1>1. ASSUME Push(t) PROVE OneScan'
      BY <1>1 DEF Push, Call
<1>2. ASSUME PushExchange(t) PROVE OneScan'
      BY <1>2 DEF PushExchange
<1>3. ASSUME Pop(t) PROVE OneScan'
      BY <1>3 DEF Pop, Call
<1>4. ASSUME PopHead(t) PROVE OneScan'
      BY <1>4 DEF PopHead
<1>5. ASSUME PopNext(t) PROVE OneScan'
      BY <1>5 DEF PopNext
<1>6. ASSUME PopExchange(t) PROVE OneScan'
      BY <1>6 DEF PopExchange
<1>7. ASSUME PopRelease(t) PROVE OneScan'
      BY <1>7 DEF PopRelease
<1>8. ASSUME Clear(t) PROVE OneScan'
      BY <1>8 DEF Clear, Call
<1>9. ASSUME ClearExchange(t) PROVE OneScan'
      BY <1>9 DEF ClearExchange
<1>10. ASSUME ClearWalk(t) PROVE OneScan'
      BY <1>10 DEF ClearWalk
<1>11. ASSUME Resume(t) PROVE OneScan'
  <2>1. scan' = scan /\ scan_lock' = scan_lock /\ pc[t] = "retired"
        BY <1>11 DEF Resume
  <2>2. pc' = [pc EXCEPT ![t] = "idle"] \/ pc' = [pc EXCEPT ![t] = "walk"]
        BY <1>11 DEF Resume
  <2> QED BY <2>1, <2>2
<1>12. ASSUME AcquireLoad(t), UNCHANGED local PROVE OneScan'
      BY <1>12 DEF AcquireLoad
<1>13. ASSUME AcquirePublish(t), UNCHANGED local PROVE OneScan'
      BY <1>13 DEF AcquirePublish
<1>14. ASSUME AcquireReload(t), UNCHANGED local PROVE OneScan'
      BY <1>14 DEF AcquireReload
<1>15. ASSUME RetirePush(t), UNCHANGED local PROVE OneScan'
      BY <1>15 DEF RetirePush
<1>16. ASSUME RetireCount(t), UNCHANGED local PROVE OneScan'
      BY <1>16 DEF RetireCount
<1>17. ASSUME RetireCheck(t), UNCHANGED local PROVE OneScan'
      BY <1>17 DEF RetireCheck
<1>18. ASSUME ScanReset(t), UNCHANGED local PROVE OneScan'
      BY <1>18 DEF ScanReset
<1>19. ASSUME ScanTryLock(t), UNCHANGED local PROVE OneScan'
      BY <1>19 DEF ScanTryLock
<1>20. ASSUME ScanExchange(t), UNCHANGED local PROVE OneScan'
      BY <1>20 DEF ScanExchange
<1>21. ASSUME ScanLockThreads(t), UNCHANGED local PROVE OneScan'
      BY <1>21 DEF ScanLockThreads
<1>22. ASSUME ScanCollect(t), UNCHANGED local PROVE OneScan'
      BY <1>22 DEF ScanCollect
<1>23. ASSUME ScanDelete(t), UNCHANGED local PROVE OneScan'
  <2>1. CASE scan_lock' = Null /\ UNCHANGED scan /\ At(t, "delete", ScanReturn(t))
        BY <2>1 DEF ScanReturn
  <2>2. CASE UNCHANGED scan_lock /\ At(t, "delete", "delete") /\ scan'.left = scan.left
        BY <2>2
  <2>3. ASSUME NEW n \in scan.retired, scan' = [scan EXCEPT !.retired = @ \ {n}]
        PROVE  scan'.left = scan.left
        BY <2>3
  <2> QED BY <1>23, <2>1, <2>2, <2>3 DEF ScanDelete
<1>24. ASSUME RegisterThread(t), UNCHANGED local PROVE OneScan'
      BY <1>24 DEF RegisterThread
<1>25. ASSUME UnregisterThread(t), UNCHANGED local PROVE OneScan'
      BY <1>25 DEF UnregisterThread
<1> QED BY <1>1, <1>2, <1>3, <1>4, <1>5, <1>6, <1>7, <1>8, <1>9, <1>10, <1>11,
           <1>12, <1>13, <1>14, <1>15, <1>16, <1>17, <1>18, <1>19, <1>20, <1>21,
           <1>22, <1>23, <1>24, <1>25
       DEF StackStep, HazardStep, Taken

\* A step of t changes the local state of t only.
Others(t) == \A u \in Thread : u # t => /\ pc'[u] = pc[u] /\ val'[u] = val[u] /\ loc'[u] = loc[u]
                                        /\ op'[u] = op[u] /\ (u \in threads' <=> u \in threads)

\* Every step is a step of one thread.
LEMMA StepOthers ==
  ASSUME IInv, NEW t \in Thread, Taken(t)
  PROVE  Others(t)
<1> USE DEF IInv, StackType, Others, At, Local, retireVars, local, hpVars
<1>1. ASSUME Push(t) PROVE Others(t)
      BY <1>1 DEF Push, Call
<1>2. ASSUME PushExchange(t) PROVE Others(t)
      BY <1>2 DEF PushExchange
<1>3. ASSUME Pop(t) PROVE Others(t)
      BY <1>3 DEF Pop, Call
<1>4. ASSUME PopHead(t) PROVE Others(t)
      BY <1>4 DEF PopHead
<1>5. ASSUME PopNext(t) PROVE Others(t)
      BY <1>5 DEF PopNext
<1>6. ASSUME PopExchange(t) PROVE Others(t)
      BY <1>6 DEF PopExchange
<1>7. ASSUME PopRelease(t) PROVE Others(t)
      BY <1>7 DEF PopRelease
<1>8. ASSUME Clear(t) PROVE Others(t)
      BY <1>8 DEF Clear, Call
<1>9. ASSUME ClearExchange(t) PROVE Others(t)
      BY <1>9 DEF ClearExchange
<1>10. ASSUME ClearWalk(t) PROVE Others(t)
      BY <1>10 DEF ClearWalk
<1>11. ASSUME Resume(t) PROVE Others(t)
      BY <1>11 DEF Resume
<1>12. ASSUME AcquireLoad(t), UNCHANGED local PROVE Others(t)
      BY <1>12 DEF AcquireLoad
<1>13. ASSUME AcquirePublish(t), UNCHANGED local PROVE Others(t)
      BY <1>13 DEF AcquirePublish
<1>14. ASSUME AcquireReload(t), UNCHANGED local PROVE Others(t)
      BY <1>14 DEF AcquireReload
<1>15. ASSUME RetirePush(t), UNCHANGED local PROVE Others(t)
      BY <1>15 DEF RetirePush
<1>16. ASSUME RetireCount(t), UNCHANGED local PROVE Others(t)
      BY <1>16 DEF RetireCount
<1>17. ASSUME RetireCheck(t), UNCHANGED local PROVE Others(t)
      BY <1>17 DEF RetireCheck
<1>18. ASSUME ScanReset(t), UNCHANGED local PROVE Others(t)
      BY <1>18 DEF ScanReset
<1>19. ASSUME ScanTryLock(t), UNCHANGED local PROVE Others(t)
      BY <1>19 DEF ScanTryLock
<1>20. ASSUME ScanExchange(t), UNCHANGED local PROVE Others(t)
      BY <1>20 DEF ScanExchange
<1>21. ASSUME ScanLockThreads(t), UNCHANGED local PROVE Others(t)
      BY <1>21 DEF ScanLockThreads
<1>22. ASSUME ScanCollect(t), UNCHANGED local PROVE Others(t)
      BY <1>22 DEF ScanCollect
<1>23. ASSUME ScanDelete(t), UNCHANGED local PROVE Others(t)
      BY <1>23 DEF ScanDelete, ScanReturn
<1>24. ASSUME RegisterThread(t), UNCHANGED local PROVE Others(t)
      BY <1>24 DEF RegisterThread
<1>25. ASSUME UnregisterThread(t), UNCHANGED local PROVE Others(t)
      BY <1>25 DEF UnregisterThread
<1> QED BY <1>1, <1>2, <1>3, <1>4, <1>5, <1>6, <1>7, <1>8, <1>9, <1>10, <1>11,
           <1>12, <1>13, <1>14, <1>15, <1>16, <1>17, <1>18, <1>19, <1>20, <1>21,
           <1>22, <1>23, <1>24, <1>25
       DEF StackStep, HazardStep, Taken

\* Every step keeps what is retired in reach of a scan.
LEMMA StepDraining ==
  ASSUME IInv, NEW t \in Thread, Taken(t)
  PROVE  Draining'
<1>0. Others(t)
      BY StepOthers
<1> USE DEF IInv, StackType, At, Local, retireVars, local, hpVars
<1>d. /\ scan.retired # {} => Scanning
      /\ \A u \in threads : pc[u] \notin {"start", "done", "gave up"}
      /\ threads = {} /\ (\A u \in Thread : pc[u] # "gave up") =>
            \/ free_list = {} /\ scan.retired = {}
            \/ \E u \in Thread : pc[u] \in {"scan", "try", "exchange"}
            \/ Scanning /\ Unnamed
      BY DEF Draining
\* A step of a thread that does not scan, of what is not retired.
<1>q. ASSUME UNCHANGED <<free_list, scan, threads>>, pc[t] # "gave up",
             pc[t] \notin {"scan", "try", "exchange", "lock threads", "collect", "delete"},
             t \in threads => pc'[t] \notin {"start", "done", "gave up"}
      PROVE  Draining'
  <2>1. \A u \in Thread : pc[u] \in {"scan", "try", "exchange", "lock threads", "collect", "delete", "gave up"}
                             => pc'[u] = pc[u]
        BY <1>0, <1>q DEF Others
  <2>2. Scanning => Scanning'
        BY <2>1 DEF Scanning
  <2>3. (\A u \in Thread : pc'[u] # "gave up") => \A u \in Thread : pc[u] # "gave up"
        BY <2>1
  <2>4. (\E u \in Thread : pc[u] \in {"scan", "try", "exchange"})
           => \E u \in Thread : pc'[u] \in {"scan", "try", "exchange"}
        BY <2>1
  <2>5. \A u \in threads' : pc'[u] \notin {"start", "done", "gave up"}
        BY <1>0, <1>d, <1>q DEF Others
  <2> QED BY <1>d, <1>q, <2>2, <2>3, <2>4, <2>5 DEF Draining, Unnamed
<1>1. CASE StackStep(t)
  <2>1. UNCHANGED <<free_list, scan, threads>>
        BY <1>1 DEF StackStep, Push, PushExchange, Pop, PopHead, PopNext, PopExchange,
                    PopRelease, Clear, ClearExchange, ClearWalk, Resume
  <2>2. /\ pc[t] \notin {"scan", "try", "exchange", "lock threads", "collect", "delete", "gave up"}
        /\ pc'[t] \notin {"start", "done", "gave up"}
    <3>1. CASE Push(t) \/ PushExchange(t) \/ Pop(t) \/ PopHead(t) \/ PopNext(t) \/ PopExchange(t)
          BY <3>1 DEF Push, PushExchange, Pop, PopHead, PopNext, PopExchange
    <3>2. CASE PopRelease(t) \/ Clear(t) \/ ClearExchange(t) \/ ClearWalk(t) \/ Resume(t)
          BY <3>2 DEF PopRelease, Clear, ClearExchange, ClearWalk, Resume
    <3> QED BY <1>1, <3>1, <3>2 DEF StackStep
  <2> QED BY <1>q, <2>1, <2>2
<1>2. CASE AcquireLoad(t) \/ AcquirePublish(t) \/ AcquireReload(t) \/ RetireCount(t) \/ RetireCheck(t)
  <2>1. UNCHANGED <<free_list, scan, threads>>
        BY <1>2 DEF AcquireLoad, AcquirePublish, AcquireReload, RetireCount, RetireCheck
  <2>2. /\ pc[t] \notin {"scan", "try", "exchange", "lock threads", "collect", "delete", "gave up"}
        /\ pc'[t] \notin {"start", "done", "gave up"}
        BY <1>2 DEF AcquireLoad, AcquirePublish, AcquireReload, RetireCount, RetireCheck
  <2> QED BY <1>q, <2>1, <2>2
<1>3. CASE RetirePush(t)
  <2>1. t \in threads /\ pc[t] = "retire" /\ pc'[t] = "count" /\ UNCHANGED <<scan, threads>>
        BY <1>3 DEF RetirePush, Bookkeeping
  <2>2. Scanning => Scanning'
        BY <1>0, <2>1 DEF Scanning, Others
  <2>3. \A u \in threads' : pc'[u] \notin {"start", "done", "gave up"}
        BY <1>0, <1>d, <2>1 DEF Others
  <2> QED BY <1>d, <2>1, <2>2, <2>3 DEF Draining
<1>4. CASE RegisterThread(t)
  <2>1. t \in threads' /\ pc[t] = "start" /\ pc'[t] = "idle" /\ UNCHANGED scan
        BY <1>4 DEF RegisterThread
  <2>2. Scanning => Scanning'
        BY <1>0, <2>1 DEF Scanning, Others
  <2>3. \A u \in threads' : pc'[u] \notin {"start", "done", "gave up"}
        BY <1>0, <1>4, <1>d, <2>1 DEF Others, RegisterThread
  <2> QED BY <1>d, <2>1, <2>2, <2>3 DEF Draining
<1>5. CASE UnregisterThread(t)
  <2>1. /\ pc[t] = "idle" /\ pc'[t] = (IF threads' = {} THEN "scan" ELSE "done") /\ UNCHANGED scan
        /\ threads' = threads \ {t}
        BY <1>5 DEF UnregisterThread
  <2>2. Scanning => Scanning'
        BY <1>0, <2>1 DEF Scanning, Others
  <2>3. \A u \in threads' : pc'[u] \notin {"start", "done", "gave up"}
        BY <1>0, <1>d, <2>1 DEF Others
  <2>4. threads' = {} => pc'[t] = "scan"
        BY <2>1
  <2> QED BY <1>d, <2>1, <2>2, <2>3, <2>4 DEF Draining
<1>6. CASE ScanReset(t)
  <2>1. pc[t] = "scan" /\ pc'[t] = "try" /\ UNCHANGED <<free_list, scan, threads>>
        BY <1>6 DEF ScanReset
  <2>2. Scanning => Scanning'
        BY <1>0, <2>1 DEF Scanning, Others
  <2>3. \A u \in threads' : pc'[u] \notin {"start", "done", "gave up"}
        BY <1>0, <1>d, <2>1 DEF Others
  <2> QED BY <1>d, <2>1, <2>2, <2>3 DEF Draining
<1>7. CASE ScanTryLock(t)
  <2>1. /\ pc[t] = "try" /\ UNCHANGED <<free_list, scan, threads>>
        /\ pc'[t] = IF scan_lock = Null THEN "exchange" ELSE IF t \in threads THEN "retired" ELSE "gave up"
        BY <1>7 DEF ScanTryLock
  <2>2. Scanning => Scanning'
        BY <1>0, <2>1 DEF Scanning, Others
  <2>3. \A u \in threads' : pc'[u] \notin {"start", "done", "gave up"}
        BY <1>0, <1>d, <2>1 DEF Others
  <2>4. threads' = {} /\ (\A u \in Thread : pc'[u] # "gave up") => pc'[t] = "exchange"
        BY <2>1
  <2> QED BY <1>d, <2>1, <2>2, <2>3, <2>4 DEF Draining
<1>8. CASE ScanExchange(t)
  <2>1. /\ pc[t] = "exchange" /\ pc'[t] = "lock threads" /\ UNCHANGED threads /\ free_list' = {}
        /\ scan' = [retired |-> free_list, hazard |-> {}, left |-> {}]
        BY <1>8 DEF ScanExchange
  <2>2. Scanning' /\ Unnamed'
        BY <2>1 DEF Scanning, Unnamed
  <2>3. \A u \in threads' : pc'[u] \notin {"start", "done", "gave up"}
        BY <1>0, <1>d, <2>1 DEF Others
  <2> QED BY <2>2, <2>3 DEF Draining
<1>9. CASE ScanLockThreads(t) \/ ScanCollect(t)
  <2>1. /\ pc[t] \in {"lock threads", "collect"} /\ pc'[t] \in {"collect", "delete"}
        /\ UNCHANGED <<free_list, threads>>
    <3>1. CASE ScanLockThreads(t)
          BY <3>1 DEF ScanLockThreads
    <3>2. CASE ScanCollect(t)
      <4>1. pc' = [pc EXCEPT ![t] = "collect"] \/ pc' = [pc EXCEPT ![t] = "delete"]
            BY <3>2 DEF ScanCollect
      <4>2. UNCHANGED <<free_list, threads>> /\ pc[t] = "collect"
            BY <3>2 DEF ScanCollect
      <4> QED BY <4>1, <4>2
    <3> QED BY <1>9, <3>1, <3>2
  <2>2. Scanning'
        BY <2>1 DEF Scanning
  <2>3. \A u \in threads' : pc'[u] \notin {"start", "done", "gave up"}
        BY <1>0, <1>d, <2>1 DEF Others
  <2>4. (\A u \in Thread : pc'[u] # "gave up") => \A u \in Thread : pc[u] # "gave up"
        BY <1>0, <2>1 DEF Others
  <2>5. (\E u \in Thread : pc[u] \in {"scan", "try", "exchange"})
           => \E u \in Thread : pc'[u] \in {"scan", "try", "exchange"}
        BY <1>0, <2>1 DEF Others
  <2>6. scan'.retired = scan.retired
        BY <1>9 DEF ScanLockThreads, ScanCollect
  <2>7. ASSUME threads = {}, Unnamed PROVE Unnamed'
    <3>1. CASE ScanLockThreads(t)
          BY <2>1, <2>7, <3>1 DEF ScanLockThreads, Unnamed
    <3>2. CASE ScanCollect(t)
          BY <2>1, <2>7, <3>2 DEF ScanCollect, Unnamed
    <3> QED BY <1>9, <3>1, <3>2
  <2> QED BY <1>d, <2>1, <2>2, <2>3, <2>4, <2>5, <2>6, <2>7 DEF Draining
<1>10. CASE ScanDelete(t)
  <2>1. /\ pc[t] = "delete" /\ UNCHANGED threads /\ pc'[t] \in {"delete", ScanReturn(t)}
        BY <1>10 DEF ScanDelete
  <2>2. pc'[t] # "gave up" /\ (t \in threads => pc'[t] \notin {"start", "done", "gave up"})
        BY <2>1 DEF ScanReturn
  <2>3. \A u \in threads' : pc'[u] \notin {"start", "done", "gave up"}
        BY <1>0, <1>d, <2>1, <2>2 DEF Others
  <2>4. (\A u \in Thread : pc'[u] # "gave up") => \A u \in Thread : pc[u] # "gave up"
        BY <1>0, <2>1 DEF Others
  <2>5. (\E u \in Thread : pc[u] \in {"scan", "try", "exchange"})
           => \E u \in Thread : pc'[u] \in {"scan", "try", "exchange"}
        BY <1>0, <2>1 DEF Others
  <2>6. CASE scan.retired = {} /\ UNCHANGED <<free_list, scan>>
        BY <1>d, <2>1, <2>3, <2>4, <2>5, <2>6 DEF Draining, Unnamed
  <2>7. ASSUME NEW n \in scan.retired, scan' = [scan EXCEPT !.retired = @ \ {n}],
               pc'[t] = "delete",
               free_list' = IF n \in scan.hazard THEN free_list \cup {n} ELSE free_list
        PROVE  Draining'
    <3>1. Scanning'
          BY <2>7 DEF Scanning
    <3>2. scan'.hazard = scan.hazard /\ scan'.left = scan.left
          BY <2>7
    <3>3. Unnamed => Unnamed'
          BY <2>7, <3>2 DEF Unnamed
    <3> QED BY <1>d, <2>1, <2>3, <2>4, <2>5, <2>7, <3>1, <3>3 DEF Draining
  <2> QED BY <1>10, <2>6, <2>7 DEF ScanDelete
<1> QED BY <1>1, <1>2, <1>3, <1>4, <1>5, <1>6, <1>7, <1>8, <1>9, <1>10 DEF Taken, HazardStep

\* To keep the ownership it is enough to say what becomes of the stack and of the
\* nodes of the thread that makes the step.
LEMMA Hand ==
  ASSUME NEW t \in Thread, NEW L \in SUBSET Node, NEW W \in [Thread -> SUBSET Node],
         Holds(L, W), Others(t),
         \A u \in Thread : u # t => \A n \in W[u] : next'[n] = next[n],
         NEW M \in SUBSET Node, NEW S \in SUBSET Node,
         Segment(ptr, M)', Apart(M, [W EXCEPT ![t] = S])', Owned(t, S)'
  PROVE  Ownership'
<1> DEFINE V == [W EXCEPT ![t] = S]
<1>1. V \in [Thread -> SUBSET Node] /\ V[t] = S
      OBVIOUS
<1>2. ASSUME NEW u \in Thread, u # t PROVE Owned(u, V[u])'
  <2>1. V[u] = W[u] /\ Owned(u, W[u])
        BY <1>2 DEF Holds
  <2>2. \A n \in W[u] : next'[n] = next[n]
        BY <1>2
  <2>3. pc'[u] = pc[u] /\ val'[u] = val[u] /\ loc'[u] = loc[u] /\ op'[u] = op[u]
           /\ (u \in threads' <=> u \in threads)
        BY <1>2 DEF Others
  <2>4. ASSUME NEW a, NEW T \in SUBSET W[u], Segment(a, T) PROVE List(next', a, T)
    <3>1. \A n \in T : next'[n] = next[n]
          BY <2>2
    <3> QED BY <2>4, <3>1, SameList DEF Segment
  <2>5. Owns(u)' <=> Owns(u)
        BY <2>3 DEF Owns
  <2>6. pc[u] = "push" => next'[loc[u]] = next[loc[u]]
        BY <2>1, <2>2 DEF Owned
  <2>7. /\ pc'[u] = "walk" => Segment(val[u], W[u])'
        /\ pc'[u] = "retire" /\ op'[u] = "Clear" => Segment(loc[u], W[u] \ {val[u]})'
        /\ pc'[u] \in RetirePCs /\ op'[u] = "Clear" /\ u \in threads' => Segment(loc[u], W[u])'
    <3>1. /\ pc[u] = "walk" => List(next', val[u], W[u])
          /\ pc[u] = "retire" /\ op[u] = "Clear" => List(next', loc[u], W[u] \ {val[u]})
          /\ pc[u] \in RetirePCs /\ op[u] = "Clear" /\ u \in threads => List(next', loc[u], W[u])
          BY <2>1, <2>4 DEF Owned
    <3> QED BY <2>3, <3>1 DEF Segment
  <2> QED BY <2>1, <2>3, <2>5, <2>6, <2>7 DEF Owned
<1>3. \A u \in Thread : Owned(u, V[u])'
      BY <1>1, <1>2
<1>4. Holds(M, V)'
      BY <1>3 DEF Holds
<1> QED BY <1>1, <1>4 DEF Ownership

\* A step that moves no node.
LEMMA Stay ==
  ASSUME NEW t \in Thread, NEW L \in SUBSET Node, NEW W \in [Thread -> SUBSET Node],
         Holds(L, W), Others(t),
         UNCHANGED <<ptr, live, next, free_list>>, scan'.retired = scan.retired,
         Owned(t, W[t])'
  PROVE  Ownership'
<1>1. Segment(ptr, L)'
      BY SameList DEF Holds, Segment
<1>2. W = [W EXCEPT ![t] = W[t]]
      OBVIOUS
<1>3. Apart(L, [W EXCEPT ![t] = W[t]])'
  <2>1. Apart(L, W)'
        BY DEF Holds, Apart, Retired
  <2> QED BY <1>2, <2>1
<1> QED BY <1>1, <1>3, Hand

\* What is not handed over is kept apart.
LEMMA KeepApart ==
  ASSUME NEW t \in Thread, NEW L \in SUBSET Node, NEW W \in [Thread -> SUBSET Node], Holds(L, W),
         NEW M \in SUBSET Node, NEW S \in SUBSET Node,
         M \cap S = {}, M \subseteq live', S \subseteq live', live \ live' \subseteq Retired,
         Retired' \subseteq live', free_list' \cap scan'.retired = {},
         (M \cup S) \cap Retired' = {},
         \A u \in Thread : u # t => W[u] \cap (M \cup S \cup Retired') = {},
         \A n \in live' : \/ n \in M \cup S \cup Retired'
                          \/ \E u \in Thread : u # t /\ n \in W[u]
  PROVE  Apart(M, [W EXCEPT ![t] = S])'
<1> DEFINE V == [W EXCEPT ![t] = S]
<1>1. V \in [Thread -> SUBSET Node] /\ V[t] = S /\ \A u \in Thread : u # t => V[u] = W[u]
      OBVIOUS
<1> HIDE DEF V
<1>2. ASSUME NEW u \in Thread PROVE V[u] \subseteq live' /\ V[u] \cap (M \cup Retired') = {}
  <2>1. CASE u = t
        BY <1>1, <2>1
  <2>2. CASE u # t
    <3>1. V[u] = W[u] /\ W[u] \subseteq live /\ W[u] \cap Retired = {}
          BY <1>1, <2>2 DEF Holds, Apart
    <3> QED BY <2>2, <3>1
  <2> QED BY <2>1, <2>2
<1>3. ASSUME NEW u \in Thread, NEW v \in Thread, u # v PROVE V[u] \cap V[v] = {}
  <2>1. CASE u = t
        BY <1>1, <1>3, <2>1
  <2>2. CASE v = t
        BY <1>1, <1>3, <2>2
  <2>3. CASE u # t /\ v # t
        BY <1>1, <1>3, <2>3 DEF Holds, Apart
  <2> QED BY <2>1, <2>2, <2>3
<1>4. \A n \in live' : n \in M \cup Retired' \/ \E u \in Thread : n \in V[u]
      BY <1>1
<1>5. Apart(M, V)'
      BY <1>2, <1>3, <1>4 DEF Apart
<1> QED BY <1>5 DEF V

\* The owners of a node after a step of the stack.
LEMMA StackOwnership ==
  ASSUME IInv, NEW t \in Thread, StackStep(t)
  PROVE  Ownership'
<1>0. Others(t)
      BY StepOthers DEF Taken
<1>a. PICK L \in SUBSET Node, W \in [Thread -> SUBSET Node] : Holds(L, W)
      BY DEF IInv, Ownership
<1>b. Segment(ptr, L) /\ Apart(L, W) /\ Owned(t, W[t])
      BY <1>a DEF Holds
<1>c. Null \notin Node
      BY StackConstants DEF HazardConstants
<1> USE DEF IInv, StackType, At, Local, retireVars, local, hpVars, Address
<1>1. ASSUME Push(t) PROVE Ownership'
  <2>1. PICK n \in Node \ live :
              /\ live' = live \cup {n} /\ next' = [next EXCEPT ![n] = ptr]
              /\ loc' = [loc EXCEPT ![t] = n]
        BY <1>1 DEF Push
  <2>2. UNCHANGED <<ptr, free_list, scan>> /\ pc'[t] = "push" /\ val'[t] = ptr /\ loc'[t] = n
        BY <1>1, <2>1 DEF Push
  <2>3. \A m \in live : next'[m] = next[m]
        BY <2>1
  <2>4. Segment(ptr, L)'
    <3>1. \A m \in L : next'[m] = next[m]
          BY <1>b, <2>3 DEF Apart
    <3> QED BY <1>b, <2>2, <3>1, SameList DEF Segment
  <2>9. W[t] = {}
        BY <1>b, <1>1 DEF Push, Owned, Owns, RetirePCs, ScanPCs
  <2>5. Apart(L, [W EXCEPT ![t] = {n}])'
    <3>1. Retired' = Retired /\ Retired \subseteq live /\ free_list' \cap scan'.retired = {}
          BY <1>b, <2>2 DEF Apart, Retired
    <3>2. L \subseteq live' /\ {n} \subseteq live' /\ live \subseteq live' /\ Retired' \subseteq live'
          BY <1>b, <2>1, <3>1 DEF Apart
    <3>3. L \cap {n} = {} /\ (L \cup {n}) \cap Retired' = {}
          BY <1>b, <2>1, <3>1 DEF Apart
    <3>4. \A u \in Thread : W[u] \cap (L \cup {n} \cup Retired') = {}
          BY <1>b, <2>1, <3>1 DEF Apart
    <3>5. \A m \in live' : \/ m \in L \cup {n} \cup Retired'
                           \/ \E u \in Thread : u # t /\ m \in W[u]
      <4>1. ASSUME NEW m \in live, m \notin L \cup Retired PROVE \E u \in Thread : u # t /\ m \in W[u]
            BY <1>b, <2>9, <4>1 DEF Apart
      <4> QED BY <2>1, <3>1, <4>1
    <3>6. PICK S \in SUBSET Node : S = {n}
          OBVIOUS
    <3>7. live \ live' \subseteq Retired
          BY <3>2
    <3>8. Apart(L, [W EXCEPT ![t] = S])'
          BY <1>a, <3>1, <3>2, <3>3, <3>4, <3>5, <3>6, <3>7, KeepApart
    <3> QED BY <3>6, <3>8
  <2>6. Owned(t, {n})'
    <3>1. next'[n] = ptr
          BY <2>1
    <3> QED BY <2>2, <3>1 DEF Owned, Owns, RetirePCs, ScanPCs
  <2>7. \A u \in Thread : \A m \in W[u] : next'[m] = next[m]
        BY <1>b, <2>3 DEF Apart
  <2> QED BY <1>0, <1>a, <2>4, <2>5, <2>6, <2>7, Hand
<1>2. ASSUME PushExchange(t) PROVE Ownership'
  <2>1. UNCHANGED <<live, free_list, scan>> /\ pc[t] = "push" /\ loc' = loc
        BY <1>2 DEF PushExchange
  <2>2. W[t] = {loc[t]} /\ loc[t] \in Node /\ next[loc[t]] = val[t]
        BY <1>b, <2>1 DEF Owned
  <2>3. CASE ptr = val[t] /\ pc' = [pc EXCEPT ![t] = "idle"] /\ ptr' = loc[t] /\ UNCHANGED next
    <3>0. PICK x \in Node : x = loc[t]
          BY <2>2
    <3>1. x \in W[t] /\ x \notin L /\ x # Null /\ next[x] = ptr /\ ptr' = x
          BY <1>b, <1>c, <2>2, <2>3, <3>0 DEF Apart
    <3>2. Segment(ptr, L \cup {x})'
      <4>1. List(next, x, L \cup {x})
            BY <1>b, <3>1, Prepended DEF Segment
      <4> QED BY <2>3, <3>1, <4>1 DEF Segment
    <3>3. Apart(L \cup {x}, [W EXCEPT ![t] = {}])'
      <4>1. Retired' = Retired /\ live' = live /\ free_list' \cap scan'.retired = {}
            BY <1>b, <2>1 DEF Apart, Retired
      <4>2. L \cup {x} \subseteq live /\ Retired \subseteq live /\ (L \cup {x}) \cap Retired = {}
            BY <1>b, <3>1 DEF Apart
      <4>3. \A u \in Thread : u # t => W[u] \cap (L \cup {x} \cup Retired) = {}
            BY <1>b, <3>1 DEF Apart
      <4>4. \A n \in live : n \in L \cup {x} \cup Retired \/ \E u \in Thread : u # t /\ n \in W[u]
            BY <1>b, <2>2, <3>0 DEF Apart
      <4>5. PICK M \in SUBSET Node, S \in SUBSET Node : M = L \cup {x} /\ S = {}
            OBVIOUS
      <4>7. M \cap S = {} /\ M \cup S = L \cup {x} /\ S \subseteq live
            BY <4>5
      <4>6. Apart(M, [W EXCEPT ![t] = S])'
            BY <1>a, <4>1, <4>2, <4>3, <4>4, <4>5, <4>7, KeepApart
      <4> QED BY <4>5, <4>6
    <3>4. Owned(t, {})'
          BY <2>3 DEF Owned, Owns, RetirePCs, ScanPCs
    <3> QED BY <1>0, <1>a, <2>3, <3>2, <3>3, <3>4, Hand
  <2>4. CASE /\ pc' = [pc EXCEPT ![t] = "push"] /\ val' = [val EXCEPT ![t] = ptr]
             /\ next' = [next EXCEPT ![loc[t]] = ptr] /\ UNCHANGED ptr
    <3>1. \A n \in Node : n # loc[t] => next'[n] = next[n]
          BY <2>4
    <3>2. Segment(ptr, L)'
      <4>1. \A n \in L : next'[n] = next[n]
            BY <1>b, <2>2, <3>1 DEF Apart
      <4> QED BY <1>b, <2>4, <4>1, SameList DEF Segment
    <3>3. Apart(L, [W EXCEPT ![t] = W[t]])'
      <4>1. Apart(L, W)'
            BY <1>b, <2>1 DEF Apart, Retired
      <4>2. W = [W EXCEPT ![t] = W[t]]
            OBVIOUS
      <4> QED BY <4>1, <4>2
    <3>4. Owned(t, W[t])'
      <4>1. next'[loc[t]] = ptr /\ val'[t] = ptr /\ pc'[t] = "push"
            BY <2>2, <2>4
      <4> QED BY <2>1, <2>2, <4>1 DEF Owned, Owns, RetirePCs, ScanPCs
    <3>5. \A u \in Thread : u # t => \A n \in W[u] : next'[n] = next[n]
          BY <1>b, <2>2, <3>1 DEF Apart
    <3> QED BY <1>0, <1>a, <3>2, <3>3, <3>4, <3>5, Hand
  <2> QED BY <1>2, <2>3, <2>4 DEF PushExchange
<1>3. ASSUME Pop(t) \/ PopHead(t) \/ PopNext(t) \/ Clear(t) PROVE Ownership'
  <2>1. pc'[t] \in {"acquire", "idle", "pop next", "pop", "clear"}
        BY <1>3 DEF Pop, PopHead, PopNext, Clear
  <2>4. pc[t] \in {"idle", "acquired", "pop next"}
        BY <1>3 DEF Pop, PopHead, PopNext, Clear
  <2>2. Owned(t, W[t])'
        BY <1>b, <2>1, <2>4 DEF Owned, Owns, RetirePCs, ScanPCs
  <2>3. UNCHANGED <<ptr, live, next, free_list, scan>>
        BY <1>3 DEF Pop, PopHead, PopNext, Clear
  <2> QED BY <1>0, <1>a, <2>2, <2>3, Stay
<1>4. ASSUME PopExchange(t) PROVE Ownership'
  <2>1. UNCHANGED <<live, free_list, scan, next, val, op>>
        BY <1>4 DEF PopExchange
  <2>2. CASE ptr = val[t] /\ At(t, "pop", "pop value") /\ ptr' = loc[t]
    <3>0. PICK x \in L : x = val[t] /\ loc[t] = next[x]
      <4>1. val[t] # Null /\ loc[t] = next[val[t]]
            BY <2>2 DEF Protection
      <4>2. ptr \in L \cup {Null}
            BY <1>b, <1>c, EmptyList DEF Segment
      <4> QED BY <2>2, <4>1, <4>2
    <3>1. x \in Node /\ ptr = x /\ ptr' = next[x] /\ next' = next /\ val'[t] = x
          BY <2>1, <2>2, <3>0
    <3>2. Segment(ptr, L \ {x})'
      <4>1. List(next, next[x], L \ {x})
            BY <1>b, <1>c, <3>1, Shortened DEF Segment
      <4> QED BY <3>1, <4>1 DEF Segment
    <3>9. W[t] = {}
          BY <1>b, <2>2 DEF Owned, Owns, RetirePCs, ScanPCs
    <3>3. Apart(L \ {x}, [W EXCEPT ![t] = {x}])'
      <4>1. Retired' = Retired /\ live' = live /\ free_list' \cap scan'.retired = {}
            BY <1>b, <2>1 DEF Apart, Retired
      <4>2. L \subseteq live /\ x \in L /\ Retired \subseteq live /\ L \cap Retired = {}
            BY <1>b, <3>0 DEF Apart
      <4>3. \A u \in Thread : u # t => W[u] \cap (L \cup Retired) = {}
            BY <1>b DEF Apart
      <4>4. PICK M \in SUBSET Node, S \in SUBSET Node : M = L \ {x} /\ S = {x}
            BY <3>1
      <4>5. M \cap S = {} /\ M \cup S = L
            BY <4>2, <4>4
      <4>7. \A n \in live : n \in L \cup Retired \/ \E u \in Thread : u # t /\ n \in W[u]
            BY <1>b, <3>9 DEF Apart
      <4>6. Apart(M, [W EXCEPT ![t] = S])'
            BY <1>a, <4>1, <4>2, <4>3, <4>5, <4>7, KeepApart
      <4> QED BY <4>4, <4>6
    <3>4. Owned(t, {x})'
          BY <2>2, <3>1 DEF Owned, Owns, RetirePCs, ScanPCs
    <3> QED BY <1>0, <1>a, <3>1, <3>2, <3>3, <3>4, Hand
  <2>3. CASE At(t, "pop", "acquire") /\ UNCHANGED ptr
    <3>1. Owned(t, W[t])'
          BY <1>b, <2>3 DEF Owned, Owns, RetirePCs, ScanPCs
    <3> QED BY <1>0, <1>a, <2>1, <2>3, <3>1, Stay
  <2> QED BY <1>4, <2>2, <2>3 DEF PopExchange
<1>5. ASSUME PopRelease(t) PROVE Ownership'
  <2>1. UNCHANGED <<ptr, live, next, free_list, scan, val, op>> /\ pc[t] = "pop value" /\ pc'[t] = "retire"
        BY <1>5 DEF PopRelease
  <2>2. Owned(t, W[t])'
        BY <1>b, <2>1 DEF Owned, Owns, RetirePCs, ScanPCs, Bookkeeping, PopPCs
  <2> QED BY <1>0, <1>a, <2>1, <2>2, Stay
<1>6. ASSUME ClearExchange(t) PROVE Ownership'
  <2>1. UNCHANGED <<live, free_list, scan, next>>
        BY <1>6 DEF ClearExchange
  <2>2. CASE ptr = val[t] /\ At(t, "clear", "walk") /\ ptr' = Null /\ UNCHANGED val
    <3>1. Segment(ptr, {})'
          BY <1>c, <2>2, EmptyList DEF Segment
    <3>9. W[t] = {}
          BY <1>b, <2>2 DEF Owned, Owns, RetirePCs, ScanPCs
    <3>2. Apart({}, [W EXCEPT ![t] = L])'
      <4>1. Retired' = Retired /\ live' = live /\ free_list' \cap scan'.retired = {}
            BY <1>b, <2>1 DEF Apart, Retired
      <4>2. L \subseteq live /\ Retired \subseteq live /\ L \cap Retired = {}
            BY <1>b DEF Apart
      <4>3. \A u \in Thread : u # t => W[u] \cap (L \cup Retired) = {}
            BY <1>b DEF Apart
      <4>4. \A n \in live : n \in L \cup Retired \/ \E u \in Thread : u # t /\ n \in W[u]
            BY <1>b, <3>9 DEF Apart
      <4>5. PICK M \in SUBSET Node : M = {}
            OBVIOUS
      <4>6. Apart(M, [W EXCEPT ![t] = L])'
            BY <1>a, <4>1, <4>2, <4>3, <4>4, <4>5, KeepApart
      <4> QED BY <4>5, <4>6
    <3>3. Segment(val[t], L)'
          BY <1>b, <2>1, <2>2 DEF Segment
    <3>4. Owned(t, L)'
          BY <2>2, <3>3 DEF Owned, Owns, RetirePCs, ScanPCs
    <3> QED BY <1>0, <1>a, <2>1, <3>1, <3>2, <3>4, Hand
  <2>3. CASE At(t, "clear", "clear") /\ UNCHANGED ptr
    <3>1. Owned(t, W[t])'
          BY <1>b, <2>3 DEF Owned, Owns, RetirePCs, ScanPCs
    <3> QED BY <1>0, <1>a, <2>1, <2>3, <3>1, Stay
  <2> QED BY <1>6, <2>2, <2>3 DEF ClearExchange
<1>7. ASSUME ClearWalk(t) PROVE Ownership'
  <2>1. UNCHANGED <<ptr, live, next, free_list, scan, val, op>> /\ pc[t] = "walk"
        BY <1>7 DEF ClearWalk
  <2>2. Segment(val[t], W[t]) /\ op[t] = "Clear"
        BY <1>b, <2>1 DEF Owned, Bookkeeping
  <2>3. CASE val[t] = Null
    <3>1. pc'[t] = "idle"
          BY <1>7, <2>3 DEF ClearWalk
    <3>3. W[t] = {}
          BY <1>c, <2>2, <2>3, EmptyList DEF Segment
    <3>2. Owned(t, W[t])'
          BY <3>1, <3>3 DEF Owned, Owns, RetirePCs, ScanPCs
    <3> QED BY <1>0, <1>a, <2>1, <3>2, Stay
  <2>4. CASE val[t] # Null
    <3>1. pc'[t] = "retire" /\ loc'[t] = next[val[t]]
          BY <1>7, <2>4 DEF ClearWalk
    <3>2. val[t] \in W[t] /\ Segment(next[val[t]], W[t] \ {val[t]})
          BY <1>c, <2>2, <2>4, Shortened DEF Segment
    <3>3. Segment(loc[t], W[t] \ {val[t]})'
          BY <2>1, <3>1, <3>2 DEF Segment
    <3>4. Owned(t, W[t])'
          BY <2>1, <2>2, <3>1, <3>2, <3>3 DEF Owned, Owns, RetirePCs, ScanPCs
    <3> QED BY <1>0, <1>a, <2>1, <3>4, Stay
  <2> QED BY <2>3, <2>4
<1>8. ASSUME Resume(t) PROVE Ownership'
  <2>1. UNCHANGED <<ptr, live, next, free_list, scan, loc, op>> /\ pc[t] = "retired"
        BY <1>8 DEF Resume
  <2>2. CASE op[t] = "Pop" /\ At(t, "retired", "idle")
    <3>1. Owned(t, W[t])'
          BY <1>b, <2>2 DEF Owned, Owns, RetirePCs, ScanPCs
    <3> QED BY <1>0, <1>a, <2>1, <3>1, Stay
  <2>3. CASE op[t] = "Clear" /\ At(t, "retired", "walk") /\ Local(t, loc[t])
    <3>1. Segment(loc[t], W[t])
          BY <1>b, <2>1, <2>3 DEF Owned, RetirePCs, Bookkeeping
    <3>2. Segment(val[t], W[t])'
          BY <2>1, <2>3, <3>1 DEF Segment
    <3>3. Owned(t, W[t])'
          BY <2>3, <3>2 DEF Owned, Owns, RetirePCs, ScanPCs
    <3> QED BY <1>0, <1>a, <2>1, <3>3, Stay
  <2> QED BY <1>8, <2>2, <2>3 DEF Resume
<1> QED BY <1>1, <1>2, <1>3, <1>4, <1>5, <1>6, <1>7, <1>8 DEF StackStep

\* The owners of a node after a step of the hazard-pointer library.
LEMMA HazardOwnership ==
  ASSUME IInv, NEW t \in Thread, HazardStep(t), UNCHANGED local
  PROVE  Ownership'
<1>0. Others(t)
      BY StepOthers DEF Taken
<1>a. PICK L \in SUBSET Node, W \in [Thread -> SUBSET Node] : Holds(L, W)
      BY DEF IInv, Ownership
<1>b. Segment(ptr, L) /\ Apart(L, W) /\ Owned(t, W[t])
      BY <1>a DEF Holds
<1> USE DEF IInv, StackType, At, Local, retireVars, local, hpVars, Address
<1>1. ASSUME AcquireLoad(t) \/ AcquirePublish(t) \/ AcquireReload(t) \/ RegisterThread(t)
      PROVE  Ownership'
  <2>1. UNCHANGED <<ptr, live, next, free_list, scan>>
        BY <1>1 DEF AcquireLoad, AcquirePublish, AcquireReload, RegisterThread
  <2>2. pc'[t] \in {"publish", "reload", "acquired", "idle"}
        BY <1>1 DEF AcquireLoad, AcquirePublish, AcquireReload, RegisterThread
  <2>4. pc[t] \in {"acquire", "publish", "reload", "start"}
        BY <1>1 DEF AcquireLoad, AcquirePublish, AcquireReload, RegisterThread
  <2>3. Owned(t, W[t])'
        BY <1>b, <2>2, <2>4 DEF Owned, Owns, RetirePCs, ScanPCs
  <2> QED BY <1>0, <1>a, <2>1, <2>3, Stay
<1>2. ASSUME RetirePush(t) PROVE Ownership'
  <2>0. val[t] \in Node /\ val[t] \in W[t] /\ pc[t] = "retire"
        BY <1>2, <1>b, RetireNode DEF RetirePush, Owned, Bookkeeping
  <2>1. PICK x \in Node : x = val[t]
        BY <2>0
  <2>2. UNCHANGED <<ptr, live, next, scan, op, loc>> /\ free_list' = free_list \cup {x} /\ pc'[t] = "count"
        BY <1>2, <2>1 DEF RetirePush
  <2>3. PICK S \in SUBSET Node : S = W[t] \ {x}
        OBVIOUS
  <2>4. Segment(ptr, L)'
        BY <1>b, <2>2 DEF Segment
  <2>5. Apart(L, [W EXCEPT ![t] = S])'
    <3>1. Retired' = Retired \cup {x} /\ live' = live
          BY <2>2 DEF Retired
    <3>2. x \in live /\ x \notin L /\ x \notin Retired /\ \A u \in Thread : u # t => x \notin W[u]
          BY <1>b, <2>0, <2>1 DEF Apart
    <3>3. free_list' \cap scan'.retired = {}
          BY <1>b, <2>2, <3>2 DEF Apart, Retired
    <3>4. L \cap S = {} /\ L \subseteq live /\ S \subseteq live /\ Retired' \subseteq live
             /\ (L \cup S) \cap Retired' = {}
          BY <1>b, <2>3, <3>1, <3>2 DEF Apart
    <3>5. \A u \in Thread : u # t => W[u] \cap (L \cup S \cup Retired') = {}
          BY <1>b, <2>3, <3>1, <3>2 DEF Apart
    <3>6. \A n \in live : n \in L \cup S \cup Retired' \/ \E u \in Thread : u # t /\ n \in W[u]
          BY <1>b, <2>3, <3>1 DEF Apart
    <3> QED BY <1>a, <3>1, <3>3, <3>4, <3>5, <3>6, KeepApart
  <2>6. Owned(t, S)'
    <3>1. op[t] = "Clear" => Segment(loc[t], S)
          BY <1>b, <2>0, <2>1, <2>3 DEF Owned
    <3>2. op[t] = "Clear" => Segment(loc[t], S)'
          BY <2>2, <3>1 DEF Segment
    <3>3. op[t] # "Clear" => S = {}
          BY <1>b, <2>0, <2>1, <2>3 DEF Owned, Bookkeeping
    <3>4. t \in threads /\ UNCHANGED threads
          BY <1>2, <2>0 DEF Bookkeeping, RetirePush
    <3> QED BY <2>2, <3>2, <3>3, <3>4 DEF Owned, Owns, RetirePCs
  <2> QED BY <1>0, <1>a, <2>2, <2>4, <2>5, <2>6, Hand
<1>3. ASSUME RetireCount(t) \/ RetireCheck(t) \/ ScanReset(t) \/ ScanTryLock(t)
             \/ ScanLockThreads(t) \/ ScanCollect(t)
      PROVE  Ownership'
  <2>1. UNCHANGED <<ptr, live, next, free_list, threads, op, loc>> /\ scan'.retired = scan.retired
        BY <1>3 DEF RetireCount, RetireCheck, ScanReset, ScanTryLock, ScanLockThreads, ScanCollect
  <2>2. pc[t] \in RetirePCs /\ pc'[t] \in RetirePCs \cup {"gave up"}
        BY <1>3 DEF RetireCount, RetireCheck, ScanReset, ScanTryLock, ScanLockThreads,
                    ScanCollect, RetirePCs, ScanPCs
  <2>3. Segment(loc[t], W[t]) => Segment(loc[t], W[t])'
        BY <2>1 DEF Segment
  <2>5. pc'[t] = "gave up" => t \notin threads
        BY <1>3 DEF RetireCount, RetireCheck, ScanReset, ScanTryLock, ScanLockThreads, ScanCollect
  <2>4. Owned(t, W[t])'
        BY <1>b, <2>1, <2>2, <2>3, <2>5 DEF Owned, Owns, RetirePCs, ScanPCs
  <2> QED BY <1>0, <1>a, <2>1, <2>4, Stay
<1>4. ASSUME ScanExchange(t) PROVE Ownership'
  <2>1. UNCHANGED <<ptr, live, next, threads, op, loc>> /\ free_list' = {} /\ scan'.retired = free_list
        BY <1>4 DEF ScanExchange
  <2>2. pc[t] = "exchange" /\ pc'[t] = "lock threads"
        BY <1>4 DEF ScanExchange
  <2>3. Segment(ptr, L)' /\ (Segment(loc[t], W[t]) => Segment(loc[t], W[t])')
        BY <1>b, <2>1 DEF Segment
  <2>4. Owned(t, W[t])'
        BY <1>b, <2>1, <2>2, <2>3 DEF Owned, Owns, RetirePCs, ScanPCs
  <2>5. Apart(L, [W EXCEPT ![t] = W[t]])'
    <3>0. scan.retired = {}
          BY <2>2 DEF Draining, Scanning, OneScan, ScanPCs
    <3>1. Retired' = Retired
          BY <2>1, <3>0 DEF Retired
    <3>2. Apart(L, W)'
          BY <1>b, <2>1, <3>1 DEF Apart
    <3>3. W = [W EXCEPT ![t] = W[t]]
          OBVIOUS
    <3> QED BY <3>2, <3>3
  <2> QED BY <1>0, <1>a, <2>1, <2>3, <2>4, <2>5, Hand
<1>5. ASSUME ScanDelete(t) PROVE Ownership'
  <2>1. UNCHANGED <<ptr, next, threads, op, loc>> /\ pc[t] = "delete"
           /\ pc'[t] \in {"delete", ScanReturn(t)}
        BY <1>5 DEF ScanDelete
  <2>2. Segment(ptr, L)' /\ (Segment(loc[t], W[t]) => Segment(loc[t], W[t])')
        BY <1>b, <2>1 DEF Segment
  <2>3. Owned(t, W[t])'
        BY <1>b, <2>1, <2>2 DEF Owned, Owns, RetirePCs, ScanPCs, ScanReturn
  <2>4. CASE UNCHANGED <<live, free_list, scan>>
        BY <1>0, <1>a, <2>1, <2>3, <2>4, Stay
  <2>5. ASSUME NEW n \in scan.retired, scan' = [scan EXCEPT !.retired = @ \ {n}],
               live' = IF n \in scan.hazard THEN live ELSE live \ {n},
               free_list' = IF n \in scan.hazard THEN free_list \cup {n} ELSE free_list
        PROVE  Ownership'
    <3>0. scan'.retired = scan.retired \ {n} /\ n \in Retired
          BY <2>5 DEF Retired
    <3>1. Retired' \subseteq Retired /\ free_list' \cap scan'.retired = {} /\ Retired' \subseteq live'
          BY <1>b, <2>5, <3>0 DEF Apart, Retired
    <3>2. live \ live' \subseteq Retired
          BY <2>5, <3>0
    <3>3. L \cap W[t] = {} /\ L \subseteq live' /\ W[t] \subseteq live' /\ (L \cup W[t]) \cap Retired' = {}
          BY <1>b, <3>1, <3>2 DEF Apart
    <3>4. \A u \in Thread : u # t => W[u] \cap (L \cup W[t] \cup Retired') = {}
          BY <1>b, <3>1 DEF Apart
    <3>6. \A m \in live' : m \in L \cup W[t] \cup Retired' \/ \E u \in Thread : u # t /\ m \in W[u]
      <4>1. \A m \in live' : m \in Retired => m \in Retired'
            BY <2>5, <3>0 DEF Retired
      <4>2. \A m \in live : m \in L \cup W[t] \cup Retired \/ \E u \in Thread : u # t /\ m \in W[u]
            BY <1>b DEF Apart
      <4> QED BY <2>5, <4>1, <4>2
    <3>5. Apart(L, [W EXCEPT ![t] = W[t]])'
          BY <1>a, <3>1, <3>2, <3>3, <3>4, <3>6, KeepApart
    <3> QED BY <1>0, <1>a, <2>1, <2>2, <2>3, <3>5, Hand
  <2> QED BY <1>5, <2>4, <2>5 DEF ScanDelete
<1>6. ASSUME UnregisterThread(t) PROVE Ownership'
  <2>1. UNCHANGED <<ptr, live, next, free_list, scan>> /\ t \notin threads' /\ pc'[t] \in {"scan", "done"}
        BY <1>6 DEF UnregisterThread
  <2>2. Owned(t, W[t])'
    <3>1. W[t] = {}
          BY <1>6, <1>b DEF UnregisterThread, Owned, Owns, RetirePCs, ScanPCs
    <3> QED BY <2>1, <3>1 DEF Owned, Owns, RetirePCs, ScanPCs
  <2> QED BY <1>0, <1>a, <2>1, <2>2, Stay
<1> QED BY <1>1, <1>2, <1>3, <1>4, <1>5, <1>6 DEF HazardStep

\* What a step may do to nodes that are not in the hands of a pusher: nothing to
\* their next; and a node comes into a pusher's hands only by being allocated.
LEMMA StepNodes ==
  ASSUME IInv, NEW t \in Thread, Taken(t)
  PROVE  /\ \A u \in Thread : u # t => hazard_ptr'[u] = hazard_ptr[u]
         /\ \A n \in live : (\A u \in Thread : pc[u] = "push" => loc[u] # n) => next'[n] = next[n]
         /\ \A u \in Thread : pc'[u] = "push" => \/ pc[u] = "push" /\ loc'[u] = loc[u]
                                                \/ loc'[u] \notin live
<1> DEFINE Goal == /\ \A u \in Thread : u # t => hazard_ptr'[u] = hazard_ptr[u]
                   /\ \A n \in live : (\A u \in Thread : pc[u] = "push" => loc[u] # n) => next'[n] = next[n]
                   /\ pc'[t] = "push" => \/ pc[t] = "push" /\ loc'[t] = loc[t]
                                         \/ loc'[t] \notin live
<1>0. Others(t)
      BY StepOthers
<1> USE DEF IInv, StackType, At, Local, retireVars, local, hpVars
<1>1. ASSUME Push(t) PROVE Goal
      BY <1>1 DEF Push
<1>2. ASSUME PushExchange(t) PROVE Goal
      BY <1>2 DEF PushExchange
<1>3. ASSUME \/ Pop(t) \/ PopHead(t) \/ PopNext(t) \/ PopExchange(t) \/ PopRelease(t)
             \/ Clear(t) \/ ClearExchange(t) \/ ClearWalk(t) \/ Resume(t)
      PROVE  Goal
  <2>1. next' = next /\ \A u \in Thread : u # t => hazard_ptr'[u] = hazard_ptr[u]
        BY <1>3 DEF Pop, PopHead, PopNext, PopExchange, PopRelease, Clear, ClearExchange,
                    ClearWalk, Resume
  <2>2. pc'[t] # "push"
        BY <1>3 DEF Pop, PopHead, PopNext, PopExchange, PopRelease, Clear, ClearExchange,
                    ClearWalk, Resume
  <2> QED BY <2>1, <2>2
<1>4. ASSUME HazardStep(t), UNCHANGED local PROVE Goal
  <2>1. \A u \in Thread : u # t => hazard_ptr'[u] = hazard_ptr[u]
        BY <1>4 DEF HazardStep, AcquireLoad, AcquirePublish, AcquireReload, RetirePush,
                    RetireCount, RetireCheck, ScanReset, ScanTryLock, ScanExchange,
                    ScanLockThreads, ScanCollect, ScanDelete, RegisterThread, UnregisterThread
  <2>2. pc'[t] # "push"
    <3>1. CASE AcquireLoad(t) \/ AcquirePublish(t) \/ AcquireReload(t) \/ RetirePush(t)
               \/ RetireCount(t) \/ RetireCheck(t) \/ ScanReset(t) \/ ScanTryLock(t)
          BY <3>1 DEF AcquireLoad, AcquirePublish, AcquireReload, RetirePush, RetireCount,
                      RetireCheck, ScanReset, ScanTryLock
    <3>2. CASE ScanExchange(t) \/ ScanLockThreads(t) \/ ScanCollect(t) \/ ScanDelete(t)
               \/ RegisterThread(t) \/ UnregisterThread(t)
          BY <3>2 DEF ScanExchange, ScanLockThreads, ScanCollect, ScanDelete, ScanReturn,
                      RegisterThread, UnregisterThread
    <3> QED BY <1>4, <3>1, <3>2 DEF HazardStep
  <2> QED BY <1>4, <2>1, <2>2
<1>5. Goal
      BY <1>1, <1>2, <1>3, <1>4 DEF Taken, StackStep
<1> QED BY <1>0, <1>5 DEF Others

\* No step, a scan's least of all, takes a protected node away.
LEMMA StaysSafe ==
  ASSUME IInv, NEW t \in Thread, Taken(t), NEW w \in Thread, Protected(w), val'[w] = val[w]
  PROVE  Safe(w)'
<1>0. Safe(w) /\ hazard_ptr[w] = val[w] /\ val[w] # Null /\ w \in threads
      BY DEF IInv, Protection, Protected, Bookkeeping, PopPCs
<1>1. \A u \in Thread : pc'[u] = "push" => loc'[u] # val[w]
      BY <1>0, StepNodes DEF Safe
<1>2. Others(t)
      BY StepOthers
<1> USE DEF IInv, StackType, At, Local, retireVars, local, hpVars
<1>3. ASSUME live \subseteq live', UNCHANGED scan, pc[t] # "lock threads" PROVE Safe(w)'
  <2>1. \A u \in Thread : pc[u] = "lock threads" => pc'[u] = "lock threads"
        BY <1>2, <1>3 DEF Others
  <2> QED BY <1>0, <1>1, <1>3, <2>1 DEF Safe
<1>4. CASE StackStep(t)
  <2>1. live \subseteq live' /\ UNCHANGED scan /\ pc[t] # "lock threads"
        BY <1>4 DEF StackStep, Push, PushExchange, Pop, PopHead, PopNext, PopExchange, PopRelease,
                    Clear, ClearExchange, ClearWalk, Resume
  <2> QED BY <1>3, <2>1
<1>5. CASE AcquireLoad(t) \/ AcquirePublish(t) \/ AcquireReload(t) \/ RetirePush(t)
           \/ RetireCount(t) \/ RetireCheck(t) \/ ScanReset(t) \/ ScanTryLock(t)
           \/ RegisterThread(t) \/ UnregisterThread(t)
  <2>1. live \subseteq live' /\ UNCHANGED scan /\ pc[t] # "lock threads"
        BY <1>5 DEF AcquireLoad, AcquirePublish, AcquireReload, RetirePush, RetireCount,
                    RetireCheck, ScanReset, ScanTryLock, RegisterThread, UnregisterThread
  <2> QED BY <1>3, <2>1
<1>6. CASE ScanExchange(t)
  <2>1. live' = live /\ pc'[t] = "lock threads"
        BY <1>6 DEF ScanExchange
  <2> QED BY <1>0, <1>1, <2>1 DEF Safe
<1>7. CASE ScanLockThreads(t)
  <2>1. live' = live /\ scan'.left = threads
        BY <1>7 DEF ScanLockThreads
  <2> QED BY <1>0, <1>1, <2>1 DEF Safe
<1>8. CASE ScanCollect(t)
  <2>1. live' = live /\ pc[t] = "collect"
        BY <1>8 DEF ScanCollect
  <2>2. CASE UNCHANGED scan
        BY <1>3, <2>1, <2>2
  <2>3. ASSUME NEW u \in scan.left,
               scan' = [scan EXCEPT !.left = @ \ {u}, !.hazard = @ \cup ({hazard_ptr[u]} \ {Null})]
        PROVE  Safe(w)'
    <3>1. /\ scan'.retired = scan.retired /\ scan'.left = scan.left \ {u}
          /\ scan'.hazard = scan.hazard \cup ({hazard_ptr[u]} \ {Null})
          BY <2>3
    <3>2. \A v \in Thread : pc[v] = "lock threads" => pc'[v] = "lock threads"
          BY <1>2, <2>1 DEF Others
    <3> QED BY <1>0, <1>1, <2>1, <3>1, <3>2 DEF Safe
  <2> QED BY <1>8, <2>2, <2>3 DEF ScanCollect
<1>9. CASE ScanDelete(t)
  <2>1. pc[t] = "delete" /\ scan.left = {} /\ \A u \in Thread : pc[u] # "lock threads"
    <3>1. pc[t] = "delete"
          BY <1>9 DEF ScanDelete
    <3> QED BY <3>1 DEF OneScan, ScanPCs
  <2>2. val[w] \in scan.retired => val[w] \in scan.hazard
        BY <1>0, <2>1 DEF Safe
  <2>3. CASE UNCHANGED <<live, scan>>
        BY <1>3, <2>1, <2>3
  <2>4. ASSUME NEW n \in scan.retired, scan' = [scan EXCEPT !.retired = @ \ {n}],
               live' = IF n \in scan.hazard THEN live ELSE live \ {n}
        PROVE  Safe(w)'
    <3>1. scan'.retired = scan.retired \ {n} /\ scan'.hazard = scan.hazard
          BY <2>4
    <3>2. val[w] \in live'
          BY <1>0, <2>2, <2>4 DEF Safe
    <3> QED BY <1>1, <2>2, <3>1, <3>2 DEF Safe
  <2> QED BY <1>9, <2>3, <2>4 DEF ScanDelete
<1> QED BY <1>4, <1>5, <1>6, <1>7, <1>8, <1>9 DEF Taken, HazardStep

\* Every step keeps the protection: the thread that makes it, by the order of
\* publishing and reloading in Acquire; the others, because nothing is taken away.
LEMMA StepProtection ==
  ASSUME IInv, NEW t \in Thread, Taken(t)
  PROVE  Protection'
<1> DEFINE Good(w) == /\ pc[w] \in {"reload", "acquired", "pop next", "pop"} => hazard_ptr[w] = val[w]
                      /\ pc[w] \in {"pop next", "pop"} => val[w] # Null
                      /\ pc[w] = "pop" => loc[w] = next[val[w]]
                      /\ Protected(w) => Safe(w)
<1>1. ASSUME NEW w \in Thread, w # t PROVE Good(w)'
  <2>1. /\ pc'[w] = pc[w] /\ val'[w] = val[w] /\ loc'[w] = loc[w]
        /\ hazard_ptr'[w] = hazard_ptr[w]
        BY <1>1, StepOthers, StepNodes DEF Others
  <2>2. Good(w)
        BY DEF IInv, Protection
  <2>3. Protected(w)' => Safe(w)'
        BY <2>1, StaysSafe DEF Protected
  <2>4. pc[w] = "pop" => next'[val[w]] = next[val[w]]
    <3>1. pc[w] = "pop" => Safe(w)
          BY <2>2 DEF Protected
    <3> QED BY <3>1, StepNodes DEF Safe
  <2> QED BY <2>1, <2>2, <2>3, <2>4
<1>2. Good(t)'
  <2> USE DEF IInv, StackType, At, Local, retireVars, local, hpVars
  <2>0. ASSUME pc'[t] \notin {"reload", "acquired", "pop next", "pop"} PROVE Good(t)'
        BY <2>0 DEF Protected
  <2>1. CASE Push(t) \/ PushExchange(t) \/ Pop(t) \/ PopExchange(t) \/ PopRelease(t)
             \/ Clear(t) \/ ClearExchange(t) \/ ClearWalk(t) \/ Resume(t)
    <3>1. pc'[t] \notin {"reload", "acquired", "pop next", "pop"}
          BY <2>1 DEF Push, PushExchange, Pop, PopExchange, PopRelease, Clear, ClearExchange,
                      ClearWalk, Resume
    <3> QED BY <2>0, <3>1
  <2>2. CASE PopHead(t)
    <3>1. pc[t] = "acquired" /\ pc'[t] = (IF val[t] = Null THEN "idle" ELSE "pop next")
             /\ UNCHANGED <<val, hazard_ptr>>
          BY <2>2 DEF PopHead
    <3>2. CASE val[t] = Null
          BY <2>0, <3>1, <3>2
    <3>3. CASE val[t] # Null
      <4>1. Safe(t)'
            BY <3>1, <3>3, StaysSafe DEF Protected
      <4> QED BY <3>1, <3>3, <4>1 DEF Protection
    <3> QED BY <3>2, <3>3
  <2>3. CASE PopNext(t)
    <3>1. pc[t] = "pop next" /\ pc'[t] = "pop" /\ UNCHANGED <<val, hazard_ptr, next>>
             /\ loc'[t] = next[val[t]]
          BY <2>3 DEF PopNext
    <3>2. val[t] # Null /\ hazard_ptr[t] = val[t]
          BY <3>1 DEF Protection
    <3>3. Safe(t)'
          BY <3>1, <3>2, StaysSafe DEF Protected
    <3> QED BY <3>1, <3>2, <3>3
  <2>4. CASE AcquirePublish(t)
    <3>1. pc'[t] = "reload" /\ hazard_ptr'[t] = val[t] /\ val' = val
          BY <2>4 DEF AcquirePublish
    <3> QED BY <3>1 DEF Protected
  <2>5. CASE AcquireReload(t)
    <3>1. /\ pc[t] = "reload" /\ val'[t] = ptr /\ UNCHANGED <<ptr, live, hazard_ptr, scan>>
          /\ pc'[t] = IF ptr = val[t] THEN "acquired" ELSE "publish"
          BY <2>5 DEF AcquireReload
    <3>2. CASE ptr # val[t]
          BY <2>0, <3>1, <3>2
    <3>3. CASE ptr = val[t]
      <4>1. hazard_ptr'[t] = val'[t]
            BY <3>1, <3>3 DEF Protection
      <4>2. ASSUME ptr # Null PROVE Safe(t)'
        <5>1. PICK L \in SUBSET Node, W \in [Thread -> SUBSET Node] : Holds(L, W)
              BY DEF Ownership
        <5>2. ptr \in L /\ ptr \in live /\ ptr \notin Retired
          <6>1. ptr \in L
                BY <4>2, <5>1, StackConstants, EmptyList DEF Holds, Segment, HazardConstants
          <6> QED BY <5>1, <6>1 DEF Holds, Apart
        <5>3. ASSUME NEW u \in Thread, pc[u] = "push" PROVE loc[u] # ptr
          <6>1. loc[u] \in W[u] /\ W[u] \cap L = {}
                BY <5>1, <5>3 DEF Holds, Owned, Apart
          <6> QED BY <5>2, <6>1
        <5>4. \A u \in Thread : pc'[u] = "push" => loc'[u] # ptr
              BY <5>2, <5>3, StepNodes
        <5> QED BY <3>1, <5>2, <5>4 DEF Safe, Retired
      <4> QED BY <3>1, <3>3, <4>1, <4>2 DEF Protected
    <3> QED BY <3>2, <3>3
  <2>6. CASE AcquireLoad(t) \/ RetirePush(t) \/ RetireCount(t) \/ RetireCheck(t) \/ ScanReset(t)
             \/ ScanTryLock(t) \/ ScanExchange(t) \/ ScanLockThreads(t) \/ ScanCollect(t)
             \/ ScanDelete(t) \/ RegisterThread(t) \/ UnregisterThread(t)
    <3>1. CASE AcquireLoad(t) \/ RetirePush(t) \/ RetireCount(t) \/ RetireCheck(t) \/ ScanReset(t)
               \/ ScanTryLock(t)
          BY <2>0, <3>1 DEF AcquireLoad, RetirePush, RetireCount, RetireCheck, ScanReset, ScanTryLock
    <3>2. CASE ScanExchange(t) \/ ScanLockThreads(t) \/ ScanCollect(t) \/ ScanDelete(t)
               \/ RegisterThread(t) \/ UnregisterThread(t)
      <4>1. pc'[t] \notin {"reload", "acquired", "pop next", "pop"}
            BY <3>2 DEF ScanExchange, ScanLockThreads, ScanCollect, ScanDelete, ScanReturn,
                        RegisterThread, UnregisterThread
      <4> QED BY <2>0, <4>1
    <3> QED BY <2>6, <3>1, <3>2
  <2> QED BY <2>1, <2>2, <2>3, <2>4, <2>5, <2>6 DEF Taken, StackStep, HazardStep
<1> QED BY <1>1, <1>2 DEF Protection

\* Before the first call there is no node.
LEMMA InitIInv == Init => IInv
<1> SUFFICES ASSUME Init PROVE IInv
    OBVIOUS
<1> USE StackConstants DEF Init, HazardInit, HazardConstants
<1>1. StackType
      BY DEF StackType, PCs, Address
<1>2. Bookkeeping /\ OneScan /\ Draining /\ Protection
      BY DEF Bookkeeping, PopPCs, OneScan, ScanPCs, Draining, Protection, Protected
<1>3. Ownership
  <2> DEFINE W == [t \in Thread |-> {}]
  <2>1. Segment(ptr, {}) /\ Apart({}, W)
    <3>1. Segment(ptr, {})
          BY EmptyList DEF Segment
    <3>2. Apart({}, W)
          BY DEF Apart, Retired
    <3> QED BY <3>1, <3>2
  <2>2. \A t \in Thread : Owned(t, W[t])
        BY DEF Owned, Owns, RetirePCs, ScanPCs
  <2>3. Holds({}, W)
        BY <2>1, <2>2 DEF Holds
  <2>4. W \in [Thread -> SUBSET Node] /\ {} \in SUBSET Node
        OBVIOUS
  <2> HIDE DEF W
  <2> QED BY <2>3, <2>4 DEF Ownership
<1> QED BY <1>1, <1>2, <1>3 DEF IInv

\* The inductive invariant holds in every behaviour of the stack.
THEOREM Invariance == Spec => []IInv
<1>1. IInv /\ [Next]_vars => IInv'
  <2> SUFFICES ASSUME IInv, [Next]_vars PROVE IInv'
      OBVIOUS
  <2>1. ASSUME NEW t \in Thread, Taken(t) PROVE IInv'
    <3>1. Ownership'
          BY <2>1, StackOwnership, HazardOwnership DEF Taken
    <3> QED BY <2>1, <3>1, StepType, StepBookkeeping, StepScan, StepDraining, StepProtection DEF IInv
  <2>2. CASE UNCHANGED vars
    <3>1. StackType' /\ Bookkeeping' /\ OneScan'
          BY <2>2 DEF vars, hpVars, IInv, StackType, Bookkeeping, OneScan
    <3>2. Protection'
          BY <2>2 DEF vars, hpVars, IInv, Protection, Protected, Safe
    <3>4. Draining'
          BY <2>2 DEF vars, hpVars, IInv, Draining, Scanning, Unnamed
    <3>3. Ownership'
      <4>1. PICK L \in SUBSET Node, W \in [Thread -> SUBSET Node] : Holds(L, W)
            BY DEF IInv, Ownership
      <4>2. ASSUME NEW a, NEW S, Segment(a, S) PROVE Segment(a, S)'
            BY <2>2, <4>2 DEF vars, Segment
      <4>3. Segment(ptr, L)' /\ Apart(L, W)'
            BY <2>2, <4>1, <4>2 DEF vars, hpVars, Holds, Apart, Retired
      <4>4. ASSUME NEW t \in Thread PROVE Owned(t, W[t])'
        <5>1. Owned(t, W[t])
              BY <4>1 DEF Holds
        <5> QED BY <2>2, <4>2, <5>1 DEF vars, hpVars, Owned, Owns
      <4>5. Holds(L, W)'
            BY <4>3, <4>4 DEF Holds
      <4> QED BY <4>5 DEF Ownership
    <3> QED BY <3>1, <3>2, <3>3, <3>4 DEF IInv
  <2> QED BY <2>1, <2>2 DEF Next, Taken
<1> QED BY InitIInv, <1>1, PTL DEF Spec

\* No thread that pops or clears reads a node that ScanFreeList has deleted, for any
\* number of threads and nodes and any value of kFreeListMaxSize.
THEOREM MemorySafe == Spec => []NoUseAfterFree
<1>1. IInv => NoUseAfterFree
  <2> SUFFICES ASSUME IInv, NEW t \in Thread,
                      pc[t] \in {"pop next", "pop value", "walk", "retire"}, val[t] # Null
               PROVE  val[t] \in live
      BY DEF NoUseAfterFree
  <2>1. CASE pc[t] = "pop next"
        BY <2>1 DEF IInv, Protection, Protected, Safe
  <2>2. CASE pc[t] \in {"pop value", "walk", "retire"}
    <3>1. PICK L \in SUBSET Node, W \in [Thread -> SUBSET Node] : Holds(L, W)
          BY DEF IInv, Ownership
    <3>2. val[t] \in W[t]
      <4>1. CASE pc[t] # "walk"
            BY <2>2, <3>1, <4>1 DEF IInv, Bookkeeping, Holds, Owned
      <4>2. CASE pc[t] = "walk"
        <5>1. List(next, val[t], W[t]) /\ W[t] \in SUBSET Node
              BY <3>1, <4>2 DEF Holds, Owned, Segment
        <5> QED BY <5>1, StackConstants, EmptyList DEF HazardConstants
      <4> QED BY <4>1, <4>2
    <3> QED BY <3>1, <3>2 DEF Holds, Apart
  <2> QED BY <2>1, <2>2
<1> QED BY Invariance, <1>1, PTL

\* A node that Retire has been given is on no list a thread can still reach it by: it
\* is neither the head of the stack nor retired twice.
RetiredOnce ==
    /\ ptr \notin Retired /\ free_list \cap scan.retired = {}
    /\ \A t \in Thread : pc[t] = "retire" => val[t] \notin Retired

\* Retire is given every node once, and only when it is off the stack.
THEOREM NoDoubleRetire == Spec => []RetiredOnce
<1>1. IInv => RetiredOnce
  <2> SUFFICES ASSUME IInv PROVE RetiredOnce
      OBVIOUS
  <2>1. PICK L \in SUBSET Node, W \in [Thread -> SUBSET Node] : Holds(L, W)
        BY DEF IInv, Ownership
  <2>2. Null \notin Retired
        BY StackConstants DEF HazardConstants, IInv, StackType, Retired
  <2>3. ptr \notin Retired /\ free_list \cap scan.retired = {}
    <3>1. ptr \in L \cup {Null}
          BY <2>1, StackConstants, EmptyList DEF Holds, Segment, HazardConstants
    <3> QED BY <2>1, <2>2, <3>1 DEF Holds, Apart
  <2>4. ASSUME NEW t \in Thread, pc[t] = "retire" PROVE val[t] \notin Retired
    <3>1. val[t] \in W[t]
          BY <2>1, <2>4 DEF IInv, Bookkeeping, Holds, Owned
    <3> QED BY <2>1, <3>1 DEF Holds, Apart
  <2> QED BY <2>3, <2>4 DEF RetiredOnce
<1> QED BY Invariance, <1>1, PTL

\* Chain of the stack is that of the list lemmas.
LEMMA ChainIsChainBy == \A a : Chain(a) = ChainBy(next, a)
  BY DEF Chain, Down, ChainBy, DownBy, DownRule

\* A step changes the list as a stack changes, or not at all.
LEMMA StepChain ==
  ASSUME IInv, NEW t \in Thread, Taken(t)
  PROVE  \/ \E n \in Node : AS!Push(n)
         \/ AS!Pop \/ AS!TakeAll
         \/ Chain(ptr)' = Chain(ptr)
<1>a. PICK L \in SUBSET Node, W \in [Thread -> SUBSET Node] : Holds(L, W)
      BY DEF IInv, Ownership
<1>b. List(next, ptr, L) /\ Apart(L, W) /\ Owned(t, W[t])
      BY <1>a DEF Holds, Segment
<1>c. Null \notin Node /\ IsFiniteSet(Node)
      BY StackConstants DEF HazardConstants
<1>d. Chain(ptr) = ChainBy(next, ptr)
      BY ChainIsChainBy
<1>e. Chain(ptr)' = ChainBy(next', ptr')
      BY DEF Chain, Down, ChainBy, DownBy, DownRule
<1>f. /\ ChainBy(next, ptr) \in Seq(Node) /\ Elements(ChainBy(next, ptr)) = L
      /\ ptr = Null => ChainBy(next, ptr) = <<>>
      BY <1>b, <1>c, ChainOfList
<1> USE DEF IInv, StackType, At, Local, retireVars, local, hpVars
<1>1. ASSUME ptr' = ptr, \A n \in L : next'[n] = next[n] PROVE Chain(ptr)' = Chain(ptr)
  <2>1. ChainBy(next', ptr) = ChainBy(next, ptr)
        BY <1>1, <1>b, <1>c, SameChain
  <2> QED BY <1>1, <1>d, <1>e, <2>1
<1>2. CASE Push(t)
  <2>1. PICK n \in Node \ live : ptr' = ptr /\ next' = [next EXCEPT ![n] = ptr]
        BY <1>2 DEF Push
  <2>2. \A m \in L : next'[m] = next[m]
        BY <1>b, <2>1 DEF Apart
  <2> QED BY <1>1, <2>1, <2>2
<1>3. CASE PushExchange(t)
  <2>1. pc[t] = "push"
        BY <1>3 DEF PushExchange
  <2>2. PICK x \in Node \ L : x = loc[t] /\ W[t] = {x} /\ next[x] = val[t]
        BY <1>b, <2>1 DEF Owned, Apart
  <2>3. CASE ptr = val[t] /\ ptr' = x /\ next' = next
    <3>0. next[x] = ptr /\ List(next, ptr, L)
          BY <1>b, <2>2, <2>3
    <3>1. ChainBy(next, x) = <<x>> \o ChainBy(next, ptr)
          BY <1>c, <3>0, ChainPrepended
    <3>2. Chain(ptr)' = <<x>> \o Chain(ptr)
          BY <1>d, <1>e, <2>3, <3>1
    <3>3. x \notin AS!ToSet(Chain(ptr))
          BY <1>d, <1>f, <2>2 DEF Elements, AS!ToSet
    <3>4. AS!Push(x)
          BY <3>2, <3>3 DEF AS!Push
    <3> QED BY <3>4
  <2>4. CASE ptr' = ptr /\ next' = [next EXCEPT ![x] = ptr]
        BY <1>1, <2>2, <2>4
  <2> QED BY <1>3, <2>2, <2>3, <2>4 DEF PushExchange
<1>4. CASE PopExchange(t)
  <2>1. CASE ptr = val[t] /\ pc[t] = "pop" /\ ptr' = loc[t] /\ next' = next
    <3>1. ptr # Null /\ ptr' = next[ptr]
          BY <2>1 DEF Protection
    <3>2. ChainBy(next, ptr) # <<>> /\ ChainBy(next, next[ptr]) = Tail(ChainBy(next, ptr))
          BY <1>b, <1>c, <3>1, ChainShortened
    <3>3. AS!Pop
          BY <1>d, <1>e, <2>1, <3>1, <3>2 DEF AS!Pop
    <3> QED BY <3>3
  <2>2. CASE ptr' = ptr /\ next' = next
        BY <1>1, <2>2
  <2> QED BY <1>4, <2>1, <2>2 DEF PopExchange
<1>5. CASE ClearExchange(t)
  <2>1. CASE ptr' = Null /\ next' = next
    <3>1. List(next, Null, {}) /\ {} \in SUBSET Node
          BY <1>c, EmptyList
    <3>2. PICK M \in SUBSET Node : M = {}
          OBVIOUS
    <3>3. ChainBy(next, Null) = <<>>
          BY <1>c, <3>1, <3>2, ChainOfList
    <3>4. Chain(ptr)' = <<>>
          BY <1>e, <2>1, <3>3
    <3>5. Chain(ptr) # <<>> => AS!TakeAll
          BY <3>4 DEF AS!TakeAll
    <3> QED BY <3>4, <3>5
  <2>2. CASE ptr' = ptr /\ next' = next
        BY <1>1, <2>2
  <2> QED BY <1>5, <2>1, <2>2 DEF ClearExchange
<1>6. CASE Pop(t) \/ PopHead(t) \/ PopNext(t) \/ PopRelease(t) \/ Clear(t) \/ ClearWalk(t) \/ Resume(t)
  <2>1. ptr' = ptr /\ next' = next
        BY <1>6 DEF Pop, PopHead, PopNext, PopRelease, Clear, ClearWalk, Resume
  <2> QED BY <1>1, <2>1
<1>7. CASE HazardStep(t) /\ UNCHANGED local
  <2>1. ptr' = ptr /\ next' = next
        BY <1>7 DEF HazardStep, AcquireLoad, AcquirePublish, AcquireReload, RetirePush,
                    RetireCount, RetireCheck, ScanReset, ScanTryLock, ScanExchange,
                    ScanLockThreads, ScanCollect, ScanDelete, RegisterThread, UnregisterThread
  <2> QED BY <1>1, <2>1
<1> QED BY <1>2, <1>3, <1>4, <1>5, <1>6, <1>7 DEF Taken, StackStep

\* The lock-free stack implements the abstract one: at every step the list changes by
\* the push of one new node, the removal of the first or of all of them, or stays; a
\* stale head that is in use again never lets an exchange link a wrong next.
THEOREM Linearizable == Spec => StackIsLinearizable
<1>1. Init => Chain(ptr) = <<>>
  <2> SUFFICES ASSUME Init PROVE ChainBy(next, ptr) = <<>>
      BY ChainIsChainBy
  <2>1. Null \notin Node /\ IsFiniteSet(Node) /\ ptr = Null
        BY StackConstants DEF HazardConstants, Init, HazardInit
  <2>2. PICK M \in SUBSET Node : M = {}
        OBVIOUS
  <2>3. List(next, Null, M)
        BY <2>1, <2>2, EmptyList
  <2> QED BY <2>1, <2>3, ChainOfList
<1>2. IInv /\ [Next]_vars => [(\E n \in Node : AS!Push(n)) \/ AS!Pop \/ AS!TakeAll]_(Chain(ptr))
  <2> SUFFICES ASSUME IInv, [Next]_vars
               PROVE  \/ \E n \in Node : AS!Push(n)
                      \/ AS!Pop \/ AS!TakeAll
                      \/ Chain(ptr)' = Chain(ptr)
      OBVIOUS
  <2>1. CASE UNCHANGED vars
        BY <2>1 DEF vars, hpVars, Chain, Down
  <2>2. CASE Next
        BY <2>2, StepChain DEF Next, Taken
  <2> QED BY <2>1, <2>2
<1> QED BY Invariance, <1>1, <1>2, PTL DEF Spec, StackIsLinearizable, AS!Spec

\* Once every thread has unregistered, and none of them gave up its scan, the nodes that
\* are still allocated are those of the stack.
THEOREM NoLeak == Spec => []NothingLeaked
<1>1. IInv => NothingLeaked
  <2> SUFFICES ASSUME IInv, \A t \in Thread : pc[t] = "done"
               PROVE  live = {Chain(ptr)[i] : i \in 1..Len(Chain(ptr))}
      BY DEF NothingLeaked
  <2>1. PICK L \in SUBSET Node, W \in [Thread -> SUBSET Node] : Holds(L, W)
        BY DEF IInv, Ownership
  <2>2. threads = {}
        BY DEF IInv, StackType, Draining
  <2>3. Retired = {}
        BY <2>2 DEF IInv, Draining, Scanning, Retired
  <2>4. \A t \in Thread : W[t] = {}
        BY <2>1 DEF Holds, Owned, Owns, RetirePCs, ScanPCs
  <2>5. live = L
        BY <2>1, <2>3, <2>4 DEF Holds, Apart
  <2>6. {Chain(ptr)[i] : i \in 1..Len(Chain(ptr))} = L
    <3>1. List(next, ptr, L) /\ Null \notin Node /\ IsFiniteSet(Node)
          BY <2>1, StackConstants DEF Holds, Segment, HazardConstants
    <3>2. Elements(ChainBy(next, ptr)) = L
          BY <3>1, ChainOfList
    <3>3. Elements(Chain(ptr)) = L
          BY <3>2, ChainIsChainBy
    <3> QED BY <3>3 DEF Elements
  <2> QED BY <2>5, <2>6
<1> QED BY Invariance, <1>1, PTL
=============================================================================
