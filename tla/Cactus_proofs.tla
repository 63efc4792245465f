---------------------------- MODULE Cactus_proofs ---------------------------
(***************************************************************************)
(* For every set of connections and backends and any number of calls of    *)
(* SetBackends: a Peer's load is the number of connections that are open   *)
(* to it, and the choice made under the mutex is still the right one when  *)
(* the dial ends.  For every number of fibers, operations and ticks, and   *)
(* every order of time-outs, cancellations and wake-ups: the scheduler of  *)
(* cactus forgets no fiber, keeps no reference to one that is over, and    *)
(* strikes no fiber with a time-out of an earlier Park.  For every set of  *)
(* timers and deadlines the heap of timers is in order, and so are the     *)
(* resumptions of coroutine.h.                                             *)
(***************************************************************************)
EXTENDS MCCactus, SequenceTheorems, FiniteSetTheorems, WellFoundedInduction, TLAPS

BalancerType ==
    /\ configs \in 0..MaxConfigs
    /\ \A i \in DOMAIN peers_ : peers_[i] \in Peer
    /\ load \in [Peer -> Int] /\ is_dead \in [Peer -> BOOLEAN]
    /\ pc \in [Conn -> {"none", "lock", "dial", "relay", "refused", "ended"}]
    /\ peer \in [Conn -> Peer \cup {Nobody}]

\* The mutex is held by the connection that dials, and by nobody else.
Dialer == \A c \in Conn : pc[c] = "dial" <=> mutex_ = c

\* A connection that dials or relays has a Peer.
HasPeer == \A c \in Conn : pc[c] \in {"dial", "relay"} => peer[c] \in Peer

OpenTo(p) == {c \in Conn : pc[c] = "relay" /\ peer[c] = p}

LoadExact == \A p \in Peer : load[p] = Cardinality(OpenTo(p))

ChoiceStands ==
    \A c \in Conn : pc[c] = "dial" => \E i \in DOMAIN peers_ : peers_[i] = peer[c] /\ Suitable(i)

\* BalancesLoad alone is not inductive: that no load, no list and no other choice
\* changes under a dial needs that the dialer holds the mutex.
BalancerInv == BalancerType /\ Dialer /\ HasPeer /\ LoadExact /\ ChoiceStands

\* Without connections there is no load.
LEMMA InitBalancerInv == Init => BalancerInv
<1> SUFFICES ASSUME Init PROVE BalancerInv
    OBVIOUS
<1> USE DEF Init
<1>1. BalancerType
      BY BalancerConstants DEF BalancerType
<1>2. Dialer /\ HasPeer /\ ChoiceStands
      BY BalancerConstants DEF Dialer, HasPeer, ChoiceStands
<1>3. LoadExact
  <2>1. ASSUME NEW p \in Peer PROVE OpenTo(p) = {}
        BY DEF OpenTo
  <2> QED BY <2>1, FS_EmptySet DEF LoadExact
<1> QED BY <1>1, <1>2, <1>3 DEF BalancerInv

\* SetBackends creates only Peers of the new configuration.
LEMMA ListOfPeers ==
  ASSUME BalancerInv, SetBackends
  PROVE  \A i \in DOMAIN peers_' : peers_'[i] \in Peer
<1>1. PICK bs \in SetToSeqs(Backend) \cup {<<>>} :
            peers_' = [i \in DOMAIN bs |-> <<configs + 1, bs[i]>>]
      BY DEF SetBackends
<1>2. ASSUME NEW i \in DOMAIN bs PROVE bs[i] \in Backend
  <2>1. CASE bs \in SetToSeqs(Backend)
    <3>1. bs \in [1..Cardinality(Backend) -> Backend]
          BY <2>1, Zenon DEF SetToSeqs
    <3> QED BY <3>1
  <2>2. CASE bs = <<>>
        BY <2>2
  <2> QED BY <2>1, <2>2
<1>3. configs + 1 \in 1..MaxConfigs
      BY BalancerConstants DEF SetBackends, BalancerInv, BalancerType
<1> QED BY <1>1, <1>2, <1>3 DEF Peer

\* Every step keeps the types, the meaning of the mutex and the Peers.
LEMMA StepHolder ==
  ASSUME BalancerInv, [Next]_vars
  PROVE  BalancerType' /\ Dialer' /\ HasPeer'
<1> USE BalancerConstants DEF BalancerInv, BalancerType, Dialer, HasPeer, Goto
<1> DEFINE Goal == BalancerType' /\ Dialer' /\ HasPeer'
<1>1. CASE SetBackends
      BY <1>1, ListOfPeers DEF SetBackends
<1>2. ASSUME NEW c \in Conn, Accept(c) PROVE Goal
      BY <1>2 DEF Accept
<1>3. ASSUME NEW c \in Conn, MakeConnection(c) PROVE Goal
      BY <1>3 DEF MakeConnection, DialLocked
<1>4. ASSUME NEW c \in Conn, Dialed(c) PROVE Goal
      BY <1>4 DEF Dialed
<1>5. ASSUME NEW c \in Conn, DialFailed(c) PROVE Goal
      BY <1>5 DEF DialFailed
<1>6. ASSUME NEW c \in Conn, EndConnection(c) PROVE Goal
      BY <1>6 DEF EndConnection
<1>7. ASSUME NEW c \in Conn, NEW d \in {"up", "down"}, TransferData(c, d) PROVE Goal
      BY <1>7 DEF TransferData
<1>8. CASE UNCHANGED vars
      BY <1>8 DEF vars
<1> QED BY <1>1, <1>2, <1>3, <1>4, <1>5, <1>6, <1>7, <1>8 DEF Next

\* A connection that is added to those of a Peer, or leaves them, changes their number by one.
LEMMA OneMore ==
  ASSUME NEW S \in SUBSET Conn, NEW c \in Conn
  PROVE  /\ Cardinality(S) \in Nat
         /\ c \notin S => Cardinality(S \cup {c}) = Cardinality(S) + 1
         /\ c \in S => Cardinality(S \ {c}) = Cardinality(S) - 1
<1>1. IsFiniteSet(S)
      BY BalancerConstants, FS_Subset
<1> QED BY <1>1, FS_CardinalityType, FS_AddElement, FS_RemoveElement

\* Every step keeps the loads exact.
LEMMA StepLoad ==
  ASSUME BalancerInv, [Next]_vars
  PROVE  LoadExact'
<1> USE DEF BalancerInv, BalancerType, Goto
<1>1. ASSUME UNCHANGED load, \A p \in Peer : OpenTo(p)' = OpenTo(p) PROVE LoadExact'
      BY <1>1 DEF LoadExact
<1>2. CASE SetBackends
      BY <1>1, <1>2 DEF SetBackends, OpenTo
<1>3. ASSUME NEW c \in Conn, Accept(c) PROVE LoadExact'
      BY <1>1, <1>3 DEF Accept, OpenTo
<1>4. ASSUME NEW c \in Conn, MakeConnection(c) PROVE LoadExact'
  <2>1. \A p \in Peer : OpenTo(p)' = OpenTo(p)
        BY <1>4 DEF MakeConnection, DialLocked, OpenTo
  <2> QED BY <1>1, <1>4, <2>1 DEF MakeConnection
<1>5. ASSUME NEW c \in Conn, Dialed(c) PROVE LoadExact'
  <2> SUFFICES ASSUME NEW p \in Peer PROVE load'[p] = Cardinality(OpenTo(p)')
      BY DEF LoadExact
  <2>1. peer[c] \in Peer /\ c \notin OpenTo(p)
        BY <1>5 DEF Dialed, HasPeer, OpenTo
  <2>2. OpenTo(p) \in SUBSET Conn /\ load[p] = Cardinality(OpenTo(p))
        BY DEF OpenTo, LoadExact
  <2>3. CASE p = peer[c]
    <3>1. OpenTo(p)' = OpenTo(p) \cup {c}
          BY <1>5, <2>3 DEF Dialed, OpenTo
    <3>2. load'[p] = load[p] + 1
          BY <1>5, <2>3 DEF Dialed
    <3> QED BY <2>1, <2>2, <3>1, <3>2, OneMore
  <2>4. CASE p # peer[c]
    <3>1. OpenTo(p)' = OpenTo(p)
          BY <1>5, <2>4 DEF Dialed, OpenTo
    <3>2. load'[p] = load[p]
          BY <1>5, <2>4 DEF Dialed
    <3> QED BY <2>2, <3>1, <3>2
  <2> QED BY <2>3, <2>4
<1>6. ASSUME NEW c \in Conn, DialFailed(c) PROVE LoadExact'
      BY <1>1, <1>6 DEF DialFailed, OpenTo
<1>7. ASSUME NEW c \in Conn, EndConnection(c) PROVE LoadExact'
  <2> SUFFICES ASSUME NEW p \in Peer PROVE load'[p] = Cardinality(OpenTo(p)')
      BY DEF LoadExact
  <2>1. peer[c] \in Peer
        BY <1>7 DEF EndConnection, HasPeer
  <2>2. OpenTo(p) \in SUBSET Conn /\ load[p] = Cardinality(OpenTo(p))
        BY DEF OpenTo, LoadExact
  <2>3. CASE p = peer[c]
    <3>1. c \in OpenTo(p) /\ OpenTo(p)' = OpenTo(p) \ {c}
          BY <1>7, <2>3 DEF EndConnection, OpenTo
    <3>2. load'[p] = load[p] - 1
          BY <1>7, <2>3 DEF EndConnection
    <3> QED BY <2>2, <3>1, <3>2, OneMore
  <2>4. CASE p # peer[c]
    <3>1. OpenTo(p)' = OpenTo(p)
          BY <1>7, <2>4 DEF EndConnection, OpenTo
    <3>2. load'[p] = load[p]
          BY <1>7, <2>4 DEF EndConnection
    <3> QED BY <2>2, <3>1, <3>2
  <2> QED BY <2>3, <2>4
<1>8. ASSUME NEW c \in Conn, NEW d \in {"up", "down"}, TransferData(c, d) PROVE LoadExact'
      BY <1>1, <1>8 DEF TransferData, OpenTo
<1>9. CASE UNCHANGED vars
      BY <1>1, <1>9 DEF vars, OpenTo
<1> QED BY <1>2, <1>3, <1>4, <1>5, <1>6, <1>7, <1>8, <1>9 DEF Next

\* A step that changes no load, no list and no dead flag, and lets nobody begin to
\* dial, leaves every choice as good as it was.
LEMMA NothingMoved ==
  ASSUME BalancerInv, UNCHANGED <<peers_, load, is_dead>>,
         \A c \in Conn : pc'[c] = "dial" => pc[c] = "dial" /\ peer'[c] = peer[c]
  PROVE  ChoiceStands'
  BY DEF BalancerInv, ChoiceStands, Suitable

\* Every step keeps the choice of the dialer the right one.
LEMMA StepChoice ==
  ASSUME BalancerInv, [Next]_vars
  PROVE  ChoiceStands'
<1> USE BalancerConstants DEF BalancerInv, BalancerType, Goto
\* With the mutex free nobody dials, and what the step does to loads is nobody's concern.
<1>0. ASSUME \A c \in Conn : pc'[c] # "dial" PROVE ChoiceStands'
      BY <1>0 DEF ChoiceStands
<1>1. CASE SetBackends
  <2>1. \A c \in Conn : pc'[c] # "dial"
        BY <1>1 DEF SetBackends, Dialer
  <2> QED BY <1>0, <2>1
<1>2. ASSUME NEW c \in Conn, Accept(c) PROVE ChoiceStands'
      BY <1>2, NothingMoved DEF Accept
<1>3. ASSUME NEW c \in Conn, MakeConnection(c) PROVE ChoiceStands'
  <2>1. CASE \E i \in DOMAIN peers_ : DialLocked(c, i)
    <3>1. PICK i \in DOMAIN peers_ : DialLocked(c, i)
          BY <2>1
    <3>2. peers_' = peers_ /\ load' = load /\ is_dead' = is_dead
          BY <1>3 DEF MakeConnection
    <3>3. Suitable(i)' /\ peers_'[i] = peer'[c] /\ i \in DOMAIN peers_'
          BY <3>1, <3>2 DEF DialLocked, Suitable
    <3>4. ASSUME NEW b \in Conn, pc'[b] = "dial" PROVE b = c
          BY <1>3, <3>1, <3>4 DEF MakeConnection, DialLocked, Dialer
    <3> QED BY <3>3, <3>4 DEF ChoiceStands
  <2>2. CASE Goto(c, "refused") /\ UNCHANGED <<peer, mutex_>>
        BY <1>3, <2>2, NothingMoved DEF MakeConnection
  <2> QED BY <1>3, <2>1, <2>2 DEF MakeConnection
<1>4. ASSUME NEW c \in Conn, Dialed(c) \/ DialFailed(c) PROVE ChoiceStands'
  <2>1. \A b \in Conn : pc'[b] # "dial"
        BY <1>4 DEF Dialed, DialFailed, Dialer
  <2> QED BY <1>0, <2>1
<1>5. ASSUME NEW c \in Conn, EndConnection(c) PROVE ChoiceStands'
  <2>1. \A b \in Conn : pc'[b] # "dial"
        BY <1>5 DEF EndConnection, Dialer
  <2> QED BY <1>0, <2>1
<1>6. ASSUME NEW c \in Conn, NEW d \in {"up", "down"}, TransferData(c, d) PROVE ChoiceStands'
      BY <1>6, NothingMoved DEF TransferData
<1>7. CASE UNCHANGED vars
      BY <1>7, NothingMoved DEF vars
<1> QED BY <1>1, <1>2, <1>3, <1>4, <1>5, <1>6, <1>7 DEF Next

\* The inductive invariant holds in every behaviour of the balancer.
THEOREM BalancerInvariance == Spec => []BalancerInv
<1>1. BalancerInv /\ [Next]_vars => BalancerInv'
      BY StepHolder, StepLoad, StepChoice DEF BalancerInv
<1> QED BY InitBalancerInv, <1>1, PTL DEF Spec

\* Load is the number of open connections, and the Peer that is dialed is at the end
\* of the dial still the first of the least loaded live ones of the present list.
THEOREM LoadIsBalanced == Spec => []BalancesLoad
<1>1. BalancerInv => BalancesLoad
      BY DEF BalancerInv, LoadExact, ChoiceStands, OpenTo, BalancesLoad
<1> QED BY BalancerInvariance, <1>1, PTL
-----------------------------------------------------------------------------
\* What is assumed of the fibers.
LEMMA FC == FI!FiberConstants
  BY InstanceConstants
-----------------------------------------------------------------------------
\* Lists of fibers.  No fiber is twice in one: a ListElement has one place.
Distinct(s) == \A i, j \in 1..Len(s) : s[i] = s[j] => i = j

\* The members of a list.
LEMMA Members ==
  ASSUME NEW s \in Seq(Fiber)
  PROVE  /\ DOMAIN s = 1..Len(s) /\ Len(s) \in Nat
         /\ \A f : f \in FI!ToSet(s) <=> \E i \in 1..Len(s) : s[i] = f
         /\ \A i \in 1..Len(s) : s[i] \in Fiber
  BY DEF FI!ToSet

\* Unpark adds a fiber that is not in the list yet.
LEMMA UnparkedList ==
  ASSUME NEW s \in Seq(Fiber), Distinct(s), NEW f \in Fiber \cup {Nobody}
  PROVE  /\ FI!Unparked(s, f) \in Seq(Fiber) /\ Distinct(FI!Unparked(s, f))
         /\ FI!ToSet(FI!Unparked(s, f)) = FI!ToSet(s) \cup ({f} \ {Nobody})
<1>1. CASE f = Nobody
      BY <1>1 DEF FI!Unparked
<1>2. CASE f \in FI!ToSet(s)
  <2>1. FI!Unparked(s, f) = s
        BY <1>2 DEF FI!Unparked
  <2> QED BY <2>1, <1>2
<1>3. CASE f # Nobody /\ f \notin FI!ToSet(s)
  <2> DEFINE u == Append(s, f)
  <2>1. FI!Unparked(s, f) = u
        BY <1>3 DEF FI!Unparked
  <2>2. /\ u \in Seq(Fiber) /\ Len(u) = Len(s) + 1 /\ u[Len(s) + 1] = f
        /\ \A i \in 1..Len(s) : u[i] = s[i]
        BY <1>3
  <2>3. \A i \in 1..Len(s) : s[i] # f
        BY <1>3, Members
  <2>4. Len(s) \in Nat
        BY Members
  <2> HIDE DEF u
  <2>5. Distinct(u)
        BY <2>2, <2>3, <2>4 DEF Distinct
  <2>6. \A g : g \in FI!ToSet(u) <=> g \in FI!ToSet(s) \/ g = f
    <3>1. \A g : g \in FI!ToSet(u) <=> \E i \in 1..Len(u) : u[i] = g
          BY <2>2, Members
    <3>2. \A g : g \in FI!ToSet(s) <=> \E i \in 1..Len(s) : s[i] = g
          BY Members
    <3> QED BY <3>1, <3>2, <2>2, <2>4
  <2>7. FI!ToSet(u) = FI!ToSet(s) \cup ({f} \ {Nobody})
        BY <2>6, <1>3
  <2> QED BY <2>1, <2>2, <2>5, <2>7
<1> QED BY <1>1, <1>2, <1>3

\* Append of one that is not in the list, as Enqueue does.
LEMMA AppendedList ==
  ASSUME NEW s \in Seq(Fiber), Distinct(s), NEW f \in Fiber, f \notin FI!ToSet(s)
  PROVE  /\ Append(s, f) \in Seq(Fiber) /\ Distinct(Append(s, f))
         /\ FI!ToSet(Append(s, f)) = FI!ToSet(s) \cup {f}
<1>1. f # Nobody
      BY FC DEF FI!FiberConstants
<1>2. FI!Unparked(s, f) = Append(s, f)
      BY <1>1 DEF FI!Unparked
<1>3. {f} \ {Nobody} = {f}
      BY <1>1
<1> QED BY <1>2, <1>3, UnparkedList

\* The list without the fiber at place k.
LEMMA RemovedAt ==
  ASSUME NEW s \in Seq(Fiber), NEW k \in 1..Len(s)
  PROVE  LET u == SubSeq(s, 1, k - 1) \o SubSeq(s, k + 1, Len(s))
         IN /\ u \in Seq(Fiber) /\ Len(u) = Len(s) - 1
            /\ \A i \in 1..k - 1 : u[i] = s[i]
            /\ \A i \in k..Len(s) - 1 : u[i] = s[i + 1]
<1> DEFINE l == SubSeq(s, 1, k - 1)
           r == SubSeq(s, k + 1, Len(s))
<1>1. Len(s) \in Nat
      BY LenProperties
<1>2. l \in Seq(Fiber) /\ Len(l) = k - 1 /\ \A i \in 1..Len(l) : l[i] = s[i]
      BY <1>1, SubSeqProperties
<1>3. r \in Seq(Fiber) /\ Len(r) = Len(s) - k /\ \A i \in 1..Len(r) : r[i] = s[k + i]
      BY <1>1, SubSeqProperties
<1> HIDE DEF l, r
<1>4. /\ l \o r \in Seq(Fiber) /\ Len(l \o r) = Len(l) + Len(r)
      /\ \A i \in 1..Len(l) + Len(r) : (l \o r)[i] = IF i <= Len(l) THEN l[i] ELSE r[i - Len(l)]
      BY <1>2, <1>3, ConcatProperties
<1>5. \A i \in 1..k - 1 : (l \o r)[i] = s[i]
      BY <1>1, <1>2, <1>3, <1>4
<1>6. ASSUME NEW i \in k..Len(s) - 1 PROVE (l \o r)[i] = s[i + 1]
  <2>1. i - (k - 1) \in 1..Len(r) /\ k + (i - (k - 1)) = i + 1
        BY <1>1, <1>3
  <2>2. r[i - (k - 1)] = s[i + 1]
        BY <2>1, <1>3
  <2>3. (l \o r)[i] = r[i - (k - 1)]
        BY <1>1, <1>2, <1>3, <1>4
  <2> QED BY <2>2, <2>3
<1>7. (l \o r) \in Seq(Fiber) /\ Len(l \o r) = Len(s) - 1
      BY <1>1, <1>2, <1>3, <1>4
<1>8. \A i \in k..Len(s) - 1 : (l \o r)[i] = s[i + 1]
      BY <1>6
<1> QED BY <1>5, <1>7, <1>8 DEF l, r

\* Unlink takes the fiber out, and nobody else.
LEMMA UnlinkedList ==
  ASSUME NEW s \in Seq(Fiber), Distinct(s), NEW f \in Fiber
  PROVE  /\ FI!Unlinked(s, f) \in Seq(Fiber) /\ Distinct(FI!Unlinked(s, f))
         /\ FI!ToSet(FI!Unlinked(s, f)) = FI!ToSet(s) \ {f}
<1>0. DOMAIN s = 1..Len(s) /\ Len(s) \in Nat
      BY Members
<1>1. CASE ~\E i \in DOMAIN s : s[i] = f
  <2>1. FI!Unlinked(s, f) = s
        BY <1>1 DEF FI!Unlinked
  <2>2. f \notin FI!ToSet(s)
        BY <1>1, <1>0, Members
  <2> QED BY <2>1, <2>2
<1>2. CASE \E i \in DOMAIN s : s[i] = f
  <2> DEFINE k == CHOOSE i \in DOMAIN s : s[i] = f
  <2>1. k \in 1..Len(s) /\ s[k] = f
        BY <1>2, <1>0
  <2> HIDE DEF k
  <2> DEFINE u == SubSeq(s, 1, k - 1) \o SubSeq(s, k + 1, Len(s))
  <2>2. FI!Unlinked(s, f) = u
        BY <1>2 DEF FI!Unlinked, FI!RemoveAt, k
  <2>5. /\ u \in Seq(Fiber) /\ Len(u) = Len(s) - 1
        /\ \A i \in 1..k - 1 : u[i] = s[i]
        /\ \A i \in k..Len(s) - 1 : u[i] = s[i + 1]
        BY <2>1, RemovedAt
  <2> HIDE DEF u
  <2>6. Distinct(u)
        BY <2>5, <2>1, <1>0 DEF Distinct
  <2>7. \A g : g \in FI!ToSet(u) <=> \E i \in 1..Len(u) : u[i] = g
        BY <2>5, Members
  <2>8. \A g : g \in FI!ToSet(s) <=> \E i \in 1..Len(s) : s[i] = g
        BY Members
  <2>9. ASSUME NEW g PROVE g \in FI!ToSet(u) <=> g \in FI!ToSet(s) /\ g # f
    <3>1. ASSUME NEW i \in 1..Len(u), u[i] = g PROVE \E j \in 1..Len(s) : s[j] = g /\ g # f
      <4>1. CASE i <= k - 1
            BY <4>1, <3>1, <2>5, <2>1, <1>0 DEF Distinct
      <4>2. CASE i >= k
            BY <4>2, <3>1, <2>5, <2>1, <1>0 DEF Distinct
      <4> QED BY <4>1, <4>2, <2>5, <2>1, <1>0
    <3>2. ASSUME NEW j \in 1..Len(s), s[j] = g, g # f PROVE \E i \in 1..Len(u) : u[i] = g
      <4>1. CASE j < k
            BY <4>1, <3>2, <2>5, <2>1, <1>0
      <4>2. CASE j > k
        <5>1. j - 1 \in k..Len(s) - 1 /\ u[j - 1] = s[j]
              BY <4>2, <2>5, <2>1, <1>0
        <5> QED BY <5>1, <3>2, <2>5, <2>1, <1>0
      <4> QED BY <4>1, <4>2, <3>2, <2>1, <1>0
    <3> QED BY <3>1, <3>2, <2>7, <2>8
  <2>10. FI!ToSet(u) = FI!ToSet(s) \ {f}
        BY <2>9
  <2> QED BY <2>2, <2>5, <2>6, <2>10
<1> QED BY <1>1, <1>2

\* The first of a list, and the rest.
LEMMA FirstOfList ==
  ASSUME NEW s \in Seq(Fiber), Distinct(s), s # <<>>
  PROVE  /\ Head(s) \in Fiber /\ Head(s) \in FI!ToSet(s)
         /\ Tail(s) \in Seq(Fiber) /\ Distinct(Tail(s))
         /\ FI!ToSet(Tail(s)) = FI!ToSet(s) \ {Head(s)}
<1>0. Len(s) \in Nat \ {0} /\ Head(s) = s[1] /\ Head(s) \in Fiber
      OBVIOUS
<1> DEFINE u == Tail(s)
<1>1. u \in Seq(Fiber) /\ Len(u) = Len(s) - 1 /\ \A i \in 1..Len(s) - 1 : u[i] = s[i + 1]
      BY <1>0
<1> HIDE DEF u
<1>2. Distinct(u)
      BY <1>0, <1>1 DEF Distinct
<1>3. \A g : g \in FI!ToSet(u) <=> \E i \in 1..Len(u) : u[i] = g
      BY <1>1, Members
<1>4. \A g : g \in FI!ToSet(s) <=> \E i \in 1..Len(s) : s[i] = g
      BY Members
<1>5. Head(s) \in FI!ToSet(s)
      BY <1>4, <1>0
<1>6. ASSUME NEW g PROVE g \in FI!ToSet(u) <=> g \in FI!ToSet(s) /\ g # Head(s)
  <2>1. ASSUME NEW i \in 1..Len(u), u[i] = g PROVE \E j \in 1..Len(s) : s[j] = g /\ g # s[1]
        BY <2>1, <1>1, <1>0 DEF Distinct
  <2>2. ASSUME NEW j \in 1..Len(s), s[j] = g, g # s[1] PROVE \E i \in 1..Len(u) : u[i] = g
    <3>1. j - 1 \in 1..Len(u) /\ u[j - 1] = s[j]
          BY <2>2, <1>1, <1>0
    <3> QED BY <3>1, <2>2
  <2> QED BY <2>1, <2>2, <1>3, <1>4, <1>0
<1>7. FI!ToSet(u) = FI!ToSet(s) \ {Head(s)}
      BY <1>6
<1> QED BY <1>0, <1>1, <1>2, <1>5, <1>7 DEF u

\* Nobody is in the empty list.
LEMMA EmptyLists == <<>> \in Seq(Fiber) /\ Distinct(<<>>) /\ FI!ToSet(<<>>) = {}
  BY DEF Distinct, FI!ToSet
-----------------------------------------------------------------------------
(* The invariants.                                                         *)

Places == {"user", "yield", "sleep", "lock", "relock", "cond enqueue", "cond", "pass",
           "notify all", "wait_group", "unwind", "~Fiber", "join", "~Group", "group", "return"}
Parking == {"yield", "sleep", "lock", "relock", "cond", "wait_group", "join", "group"}
Closing == {"~Fiber", "join", "~Group", "group", "return"}

CoreType ==
    /\ run_queue_ \in Seq(Fiber) /\ Distinct(run_queue_)
    /\ this_fiber \in Fiber \cup {Nobody}
    /\ \A t \in timers : t.fiber \in Fiber /\ t.kind \in {"sleep", "timeout"}
    /\ state_ \in [Fiber -> {"none", "Ready", "Running", "Dead", "deleted"}]
    /\ at \in [Fiber -> Places]
    /\ phase \in [Fiber -> {"start", "run", "enter", "parked", "back", "over"}]
    /\ exc \in [Fiber -> {"none", "canceled", "timeout", "return", "error"}]
FlagType ==
    /\ timedout_ \in [Fiber -> BOOLEAN] /\ canceled_ \in [Fiber -> BOOLEAN]
    /\ cancel_guarded_ \in [Fiber -> BOOLEAN] /\ expired \in [Fiber -> BOOLEAN]
GroupType ==
    /\ fibers_ \in SUBSET Fiber /\ joiner_ \in {Main, Nobody} /\ waiter_ \in {Main, Nobody}
    /\ first_error_ \in {"none", "timeout", "error"}
    /\ object \in Fiber \cup {Nobody} /\ joining \in {Main, Nobody}
SyncType ==
    /\ holder \in Fiber \cup {Nobody} /\ waiters_ \in [{"lockers", "cond"} -> Seq(Fiber)]
    /\ \A q \in {"lockers", "cond"} : Distinct(waiters_[q])
    /\ wakeup \in [Fiber -> BOOLEAN]
Typing == CoreType /\ FlagType /\ GroupType /\ SyncType

\* One fiber runs; a fiber that has not begun, is parked or is over has its marks.
Phases ==
    \A f \in Fiber :
        /\ this_fiber = f <=> phase[f] \in {"run", "enter", "back"}
        /\ phase[f] = "start" => at[f] = "user"
        /\ phase[f] \in {"enter", "parked", "back"} => at[f] \in Parking
        /\ phase[f] = "over" <=> state_[f] \in {"Dead", "deleted"}
        /\ phase[f] = "over" => at[f] = "return"
        /\ state_[f] = "none" => phase[f] = "start" /\ f # Main

\* Who is in the run queue can be run: it has not begun or is parked; only Yield
\* links the fiber that runs, right before its Park.
Runnable ==
    \A f \in FI!ToSet(run_queue_) :
        /\ FI!Alive(f)
        /\ phase[f] \in {"start", "parked"} \/ (phase[f] = "enter" /\ at[f] = "yield")

\* Who stands in a wait queue waits for it, and its wake-up has not come.
Waits ==
    /\ \A f \in FI!ToSet(waiters_["lockers"]) : at[f] \in {"lock", "relock"} /\ ~wakeup[f]
    /\ \A f \in FI!ToSet(waiters_["cond"]) : at[f] = "cond" /\ ~wakeup[f]
    /\ \A f \in Fiber : phase[f] = "enter" /\ at[f] \in {"lock", "relock"} => ~wakeup[f]

\* Main owns the group and the Fiber object.
Owner ==
    /\ \A f \in Fiber : at[f] \in {"wait_group", "~Fiber", "join", "~Group", "group"} => f = Main
    /\ joiner_ = Main <=> at[Main] = "group"
    /\ waiter_ = Main <=> at[Main] = "wait_group"
    /\ joining = Main <=> at[Main] = "join"
    /\ ~canceled_[Main] /\ (at[Main] \in {"join", "group"} => cancel_guarded_[Main])
    /\ Main \notin fibers_ /\ \A f \in fibers_ : FI!Alive(f)
    /\ object # Nobody => /\ object \notin fibers_ \cup {Main}
                          /\ state_[object] \in {"Ready", "Running", "Dead"}
    /\ at[Main] = "join" => object # Nobody
    /\ at[Main] \in {"~Group", "group", "return"} => object = Nobody
    /\ at[Main] = "return" => fibers_ = {}

\* When Main is woken in a destructor, what it waits for is over; when it is woken in
\* Wait, the group is empty, has failed, or the time-out will be thrown.
Roused == FI!Linked(Main) \/ phase[Main] = "back"
Reasons ==
    /\ at[Main] = "join" /\ (Roused \/ phase[Main] = "run") => state_[object] = "Dead"
    /\ at[Main] = "group" /\ (Roused \/ phase[Main] = "run") => fibers_ = {}
    /\ at[Main] = "wait_group" /\ Roused =>
          fibers_ = {} \/ first_error_ # "none" \/ (timedout_[Main] /\ ~cancel_guarded_[Main])
    /\ at[Main] = "wait_group" /\ phase[Main] = "run" =>
          fibers_ = {} \/ first_error_ # "none" \/ exc[Main] # "none"

\* Timers are of fibers that have begun, and end with the sleep or the guard.
Timers ==
    \A t \in timers :
        /\ phase[t.fiber] \notin {"start", "over"}
        /\ t.kind = "sleep" => at[t.fiber] = "sleep"
        /\ t.kind = "timeout" => at[t.fiber] \notin Closing

\* A time-out that is pending and belongs to nobody else will be thrown by the Park the
\* fiber is in.
WillBeThrown ==
    \A f \in Fiber : timedout_[f] /\ ~expired[f] /\ ~canceled_[f] =>
        phase[f] \in {"parked", "back"} /\ ~cancel_guarded_[f]

\* The holder of the mutex is alive and has not left the scope of its guard.
Holds == holder # Nobody => /\ phase[holder] # "over" /\ state_[holder] # "none"
                            /\ at[holder] \notin Closing
                               \cup {"lock", "relock", "cond enqueue", "cond", "pass"}

\* While fibers wait for the mutex, it is held, or one of them has been woken for it.
Baton == FI!ToSet(waiters_["lockers"]) # {} /\ holder = Nobody =>
             \E g \in Fiber : /\ at[g] \in {"lock", "relock"} /\ wakeup[g]
                              /\ FI!Linked(g) \/ this_fiber = g

Sleeping(f) == phase[f] \in {"enter", "parked"} /\ ~FI!Linked(f)

\* A fiber that has parked, or is about to, is in the run queue or has a waker.
Wakers ==
    \A f \in Fiber :
        /\ phase[f] = "start" /\ state_[f] # "none" => FI!Linked(f)
        /\ Sleeping(f) =>
              /\ at[f] # "yield"
              /\ at[f] = "sleep" => \E t \in timers : t.fiber = f /\ t.kind = "sleep"
              /\ at[f] = "join" => FI!Alive(object)
              /\ at[f] = "group" => fibers_ # {}
              /\ at[f] = "wait_group" => fibers_ # {} /\ first_error_ = "none"
              /\ at[f] = "cond" => f \in FI!ToSet(waiters_["cond"])
              /\ at[f] \in {"lock", "relock"} => f \in FI!ToSet(waiters_["lockers"])

FibInv == /\ Typing /\ Phases /\ Runnable /\ Waits /\ Owner /\ Reasons /\ Timers
          /\ WillBeThrown /\ Holds /\ Baton /\ Wakers

-----------------------------------------------------------------------------
(* What the operations on the lists do to their members.                   *)

Queues == {"lockers", "cond"}

\* Unpark of a fiber, or of nobody.
LEMMA UnparkEffect ==
  ASSUME CoreType, NEW f \in Fiber \cup {Nobody}, FI!Unpark(f)
  PROVE  /\ run_queue_' \in Seq(Fiber) /\ Distinct(run_queue_')
         /\ FI!ToSet(run_queue_') = FI!ToSet(run_queue_) \cup ({f} \ {Nobody})
  BY UnparkedList DEF CoreType, FI!Unpark

\* NotifyOne wakes the first of the queue, if there is one: those in G.
LEMMA NotifyEffect ==
  ASSUME CoreType, SyncType, NEW q \in Queues, FI!NotifyOne(q)
  PROVE  /\ run_queue_' \in Seq(Fiber) /\ Distinct(run_queue_')
         /\ waiters_' \in [Queues -> Seq(Fiber)] /\ \A r \in Queues : Distinct(waiters_'[r])
         /\ wakeup' \in [Fiber -> BOOLEAN]
         /\ \E G \in SUBSET Fiber :
               /\ G \subseteq FI!ToSet(waiters_[q]) /\ (G = {} => FI!ToSet(waiters_[q]) = {})
               /\ FI!ToSet(run_queue_') = FI!ToSet(run_queue_) \cup G
               /\ \A h \in Fiber : wakeup'[h] <=> wakeup[h] \/ h \in G
               /\ \A r \in Queues : FI!ToSet(waiters_'[r]) = IF r = q THEN FI!ToSet(waiters_[r]) \ G
                                                                   ELSE FI!ToSet(waiters_[r])
<1> USE DEF SyncType, Queues
<1>1. CASE waiters_[q] = <<>>
  <2>1. FI!ToSet(waiters_[q]) = {} /\ UNCHANGED <<run_queue_, waiters_, wakeup>>
        BY <1>1, EmptyLists DEF FI!NotifyOne
  <2>2. /\ {} \in SUBSET Fiber /\ {} \subseteq FI!ToSet(waiters_[q])
        /\ FI!ToSet(run_queue_') = FI!ToSet(run_queue_) \cup {}
        /\ \A h \in Fiber : wakeup'[h] <=> wakeup[h] \/ h \in {}
        /\ \A r \in Queues : FI!ToSet(waiters_'[r]) = IF r = q THEN FI!ToSet(waiters_[r]) \ {}
                                                            ELSE FI!ToSet(waiters_[r])
        BY <2>1
  <2> QED BY <2>1, <2>2 DEF CoreType
<1>2. CASE waiters_[q] # <<>>
  <2> DEFINE g == Head(waiters_[q])
  <2>1. /\ g \in Fiber /\ g \in FI!ToSet(waiters_[q])
        /\ Tail(waiters_[q]) \in Seq(Fiber) /\ Distinct(Tail(waiters_[q]))
        /\ FI!ToSet(Tail(waiters_[q])) = FI!ToSet(waiters_[q]) \ {g}
        BY <1>2, FirstOfList
  <2>2. /\ waiters_' = [waiters_ EXCEPT ![q] = Tail(waiters_[q])]
        /\ wakeup' = [wakeup EXCEPT ![g] = TRUE] /\ FI!Unpark(g)
        BY <1>2 DEF FI!NotifyOne
  <2> HIDE DEF g
  <2>3. \A r \in Queues : waiters_'[r] = IF r = q THEN Tail(waiters_[q]) ELSE waiters_[r]
        BY <2>2
  <2>4. waiters_' \in [Queues -> Seq(Fiber)] /\ \A r \in Queues : Distinct(waiters_'[r])
        BY <2>1, <2>2, <2>3
  <2>5. \A r \in Queues : FI!ToSet(waiters_'[r]) = IF r = q THEN FI!ToSet(waiters_[r]) \ {g}
                                                        ELSE FI!ToSet(waiters_[r])
        BY <2>1, <2>3
  <2>6. g # Nobody
        BY <2>1, FC DEF FI!FiberConstants
  <2>7. {g} \ {Nobody} = {g}
        BY <2>6
  <2>8. /\ run_queue_' \in Seq(Fiber) /\ Distinct(run_queue_')
        /\ FI!ToSet(run_queue_') = FI!ToSet(run_queue_) \cup {g}
        BY <2>1, <2>2, <2>7, UnparkEffect
  <2>9. wakeup' \in [Fiber -> BOOLEAN] /\ \A h \in Fiber : wakeup'[h] <=> wakeup[h] \/ h \in {g}
        BY <2>1, <2>2
  <2>10. {g} \in SUBSET Fiber /\ {g} \subseteq FI!ToSet(waiters_[q]) /\ {g} # {}
        BY <2>1
  <2> HIDE DEF SyncType, Queues
  <2> QED BY <2>4, <2>5, <2>8, <2>9, <2>10
<1> QED BY <1>1, <1>2

\* ~Waiter takes the fiber out of both queues.
LEMMA LeaveEffect ==
  ASSUME SyncType, NEW f \in Fiber, waiters_' = FI!Without(f)
  PROVE  /\ waiters_' \in [Queues -> Seq(Fiber)] /\ \A r \in Queues : Distinct(waiters_'[r])
         /\ \A r \in Queues : FI!ToSet(waiters_'[r]) = FI!ToSet(waiters_[r]) \ {f}
<1>1. \A r \in Queues : waiters_'[r] = FI!Unlinked(waiters_[r], f)
      BY DEF SyncType, Queues, FI!Without
<1>2. ASSUME NEW r \in Queues
      PROVE  /\ waiters_'[r] \in Seq(Fiber) /\ Distinct(waiters_'[r])
             /\ FI!ToSet(waiters_'[r]) = FI!ToSet(waiters_[r]) \ {f}
  <2>1. waiters_[r] \in Seq(Fiber) /\ Distinct(waiters_[r])
        BY DEF SyncType, Queues
  <2> QED BY <1>1, <2>1, UnlinkedList
<1>3. waiters_' = [r \in Queues |-> waiters_'[r]]
      BY DEF SyncType, Queues, FI!Without
<1> QED BY <1>2, <1>3

\* WaitQueue::Wait puts it at the end of one.
LEMMA EnqueueEffect ==
  ASSUME SyncType, NEW f \in Fiber, NEW q \in Queues, NEW w, FI!Enqueue(f, q, w)
  PROVE  /\ waiters_' \in [Queues -> Seq(Fiber)] /\ \A r \in Queues : Distinct(waiters_'[r])
         /\ \A r \in Queues : FI!ToSet(waiters_'[r]) = IF r = q THEN FI!ToSet(waiters_[r]) \cup {f}
                                                            ELSE FI!ToSet(waiters_[r]) \ {f}
         /\ wakeup' \in [Fiber -> BOOLEAN]
<1>1. \A r \in Queues : waiters_'[r] = IF r = q THEN Append(FI!Unlinked(waiters_[r], f), f)
                                                 ELSE FI!Unlinked(waiters_[r], f)
      BY DEF SyncType, Queues, FI!Without, FI!Enqueue
<1>2. ASSUME NEW r \in Queues
      PROVE  /\ waiters_'[r] \in Seq(Fiber) /\ Distinct(waiters_'[r])
             /\ FI!ToSet(waiters_'[r]) = IF r = q THEN FI!ToSet(waiters_[r]) \cup {f}
                                               ELSE FI!ToSet(waiters_[r]) \ {f}
  <2>1. /\ FI!Unlinked(waiters_[r], f) \in Seq(Fiber) /\ Distinct(FI!Unlinked(waiters_[r], f))
        /\ FI!ToSet(FI!Unlinked(waiters_[r], f)) = FI!ToSet(waiters_[r]) \ {f}
        BY UnlinkedList DEF SyncType, Queues
  <2>2. CASE r # q
        BY <2>1, <2>2, <1>1
  <2>3. CASE r = q
    <3>1. f \notin FI!ToSet(FI!Unlinked(waiters_[r], f))
          BY <2>1
    <3>2. waiters_'[r] = Append(FI!Unlinked(waiters_[r], f), f)
          BY <2>3, <1>1
    <3>3. /\ waiters_'[r] \in Seq(Fiber) /\ Distinct(waiters_'[r])
          /\ FI!ToSet(waiters_'[r]) = FI!ToSet(FI!Unlinked(waiters_[r], f)) \cup {f}
          BY <2>1, <3>1, <3>2, AppendedList
    <3>4. (FI!ToSet(waiters_[r]) \ {f}) \cup {f} = FI!ToSet(waiters_[r]) \cup {f}
          OBVIOUS
    <3> QED BY <2>1, <2>3, <3>3, <3>4
  <2> QED BY <2>2, <2>3
<1>3. waiters_' = [r \in Queues |-> waiters_'[r]]
      BY DEF SyncType, Queues, FI!Without, FI!Enqueue
<1>4. wakeup' \in [Fiber -> BOOLEAN]
      BY DEF SyncType, FI!Enqueue
<1> QED BY <1>2, <1>3, <1>4

-----------------------------------------------------------------------------
\* The clock goes on.
LEMMA TickKeeps ==
  ASSUME FibInv, FI!Tick
  PROVE  FibInv'
<1> USE FC DEF FibInv, Typing, FI!FiberConstants, FI!Tick, FI!core, FI!flags, FI!group, FI!sync,
        FI!vars
<1>t0. CoreType'
      BY DEF CoreType, FlagType, GroupType, SyncType, Places, Queues
<1>t1. FlagType'
      BY DEF CoreType, FlagType, GroupType, SyncType, Places, Queues
<1>t2. GroupType'
      BY DEF CoreType, FlagType, GroupType, SyncType, Places, Queues
<1>t3. SyncType'
      BY DEF CoreType, FlagType, GroupType, SyncType, Places, Queues
<1>Phases. Phases'
      BY DEF CoreType, FlagType, GroupType, SyncType, Phases, Parking
<1>Runnable. Runnable'
      BY DEF CoreType, FlagType, GroupType, SyncType, Runnable, FI!Alive, Phases
<1>Waits. Waits'
      BY DEF CoreType, FlagType, GroupType, SyncType, Waits, Phases
<1>Owner. Owner'
      BY DEF CoreType, FlagType, GroupType, SyncType, Owner, Phases, FI!Alive
<1>Reasons. Reasons'
      BY DEF CoreType, FlagType, GroupType, SyncType, Reasons, Roused, FI!Linked, Runnable, Owner,
         Phases, Waits
<1>Timers. Timers'
      BY DEF CoreType, FlagType, GroupType, SyncType, Timers, Phases, Closing
<1>WillBeThrown. WillBeThrown'
      BY DEF CoreType, FlagType, GroupType, SyncType, WillBeThrown, Phases, Timers, Owner
<1>Holds. Holds'
      BY DEF CoreType, SyncType, Holds, Closing
<1>Baton. Baton'
      BY DEF CoreType, FlagType, GroupType, SyncType, Baton, FI!Linked, Waits, Phases, Runnable,
         Holds
<1>Wakers. Wakers'
      BY DEF CoreType, FlagType, GroupType, SyncType, Wakers, Sleeping, FI!Linked, FI!Alive,
         Phases, Runnable, Waits, Owner
<1> QED BY <1>t0, <1>t1, <1>t2, <1>t3, <1>Phases, <1>Runnable, <1>Waits, <1>Owner, <1>Reasons,
           <1>Timers, <1>WillBeThrown, <1>Holds, <1>Baton, <1>Wakers

\* Back from Yield.
LEMMA YieldReturnKeeps ==
  ASSUME FibInv, NEW f \in Fiber, FI!YieldReturn(f)
  PROVE  FibInv'
<1> USE FC DEF FibInv, Typing, FI!FiberConstants, FI!YieldReturn, FI!core, FI!flags, FI!group,
        FI!sync, FI!vars, FI!In, FI!Goto, FI!Outcome
<1>t0. CoreType'
      BY DEF CoreType, FlagType, GroupType, SyncType, Places, Queues
<1>t1. FlagType'
      BY DEF CoreType, FlagType, GroupType, SyncType, Places, Queues
<1>t2. GroupType'
      BY DEF CoreType, FlagType, GroupType, SyncType, Places, Queues
<1>t3. SyncType'
      BY DEF CoreType, FlagType, GroupType, SyncType, Places, Queues
<1>Phases. Phases'
      BY DEF CoreType, FlagType, GroupType, SyncType, Phases, Parking
<1>Runnable. Runnable'
      BY DEF CoreType, FlagType, GroupType, SyncType, Runnable, FI!Alive, Phases
<1>Waits. Waits'
      BY DEF CoreType, FlagType, GroupType, SyncType, Waits, Phases
<1>Owner. Owner'
      BY DEF CoreType, FlagType, GroupType, SyncType, Owner, Phases, FI!Alive
<1>Reasons. Reasons'
      BY DEF CoreType, FlagType, GroupType, SyncType, Reasons, Roused, FI!Linked, Runnable, Owner,
         Phases, Waits
<1>Timers. Timers'
      BY DEF CoreType, FlagType, GroupType, SyncType, Timers, Phases, Closing
<1>WillBeThrown. WillBeThrown'
      BY DEF CoreType, FlagType, GroupType, SyncType, WillBeThrown, Phases, Timers, Owner
<1>Holds. Holds'
      BY DEF CoreType, SyncType, Holds, Closing
<1>Baton. Baton'
      BY DEF CoreType, FlagType, GroupType, SyncType, Baton, FI!Linked, Waits, Phases, Runnable,
         Holds
<1>Wakers. Wakers'
      BY DEF CoreType, FlagType, GroupType, SyncType, Wakers, Sleeping, FI!Linked, FI!Alive,
         Phases, Runnable, Waits, Owner
<1> QED BY <1>t0, <1>t1, <1>t2, <1>t3, <1>Phases, <1>Runnable, <1>Waits, <1>Owner, <1>Reasons,
           <1>Timers, <1>WillBeThrown, <1>Holds, <1>Baton, <1>Wakers

\* Back from SleepFor, without its timer.
LEMMA SleepReturnKeeps ==
  ASSUME FibInv, NEW f \in Fiber, FI!SleepReturn(f)
  PROVE  FibInv'
<1> USE FC DEF FibInv, Typing, FI!FiberConstants, FI!SleepReturn, FI!core, FI!flags, FI!group,
        FI!sync, FI!vars, FI!In, FI!Goto, FI!Outcome
<1>t0. CoreType'
      BY DEF CoreType, FlagType, GroupType, SyncType, Places, Queues
<1>t1. FlagType'
      BY DEF CoreType, FlagType, GroupType, SyncType, Places, Queues
<1>t2. GroupType'
      BY DEF CoreType, FlagType, GroupType, SyncType, Places, Queues
<1>t3. SyncType'
      BY DEF CoreType, FlagType, GroupType, SyncType, Places, Queues
<1>Phases. Phases'
      BY DEF CoreType, FlagType, GroupType, SyncType, Phases, Parking
<1>Runnable. Runnable'
      BY DEF CoreType, FlagType, GroupType, SyncType, Runnable, FI!Alive, Phases
<1>Waits. Waits'
      BY DEF CoreType, FlagType, GroupType, SyncType, Waits, Phases
<1>Owner. Owner'
      BY DEF CoreType, FlagType, GroupType, SyncType, Owner, Phases, FI!Alive
<1>Reasons. Reasons'
      BY DEF CoreType, FlagType, GroupType, SyncType, Reasons, Roused, FI!Linked, Runnable, Owner,
         Phases, Waits
<1>Timers. Timers'
      BY DEF CoreType, FlagType, GroupType, SyncType, Timers, Phases, Closing
<1>WillBeThrown. WillBeThrown'
      BY DEF CoreType, FlagType, GroupType, SyncType, WillBeThrown, Phases, Timers, Owner
<1>Holds. Holds'
      BY DEF CoreType, SyncType, Holds, Closing
<1>Baton. Baton'
      BY DEF CoreType, FlagType, GroupType, SyncType, Baton, FI!Linked, Waits, Phases, Runnable,
         Holds
<1>Wakers. Wakers'
  <2>1. \A t \in timers : t.fiber # f => t \in timers'
        OBVIOUS
  <2> QED BY <2>1 DEF CoreType, Wakers, Sleeping, FI!Linked, FI!Alive, Phases, Runnable, Waits
<1> QED BY <1>t0, <1>t1, <1>t2, <1>t3, <1>Phases, <1>Runnable, <1>Waits, <1>Owner, <1>Reasons,
           <1>Timers, <1>WillBeThrown, <1>Holds, <1>Baton, <1>Wakers

\* A TimeoutGuard is opened.
LEMMA OpenTimeoutKeeps ==
  ASSUME FibInv, NEW f \in Fiber, FI!OpenTimeout(f)
  PROVE  FibInv'
<1> USE FC DEF FibInv, Typing, FI!FiberConstants, FI!OpenTimeout, FI!core, FI!flags, FI!group,
        FI!sync, FI!vars, FI!In, FI!Op
<1>1. /\ \A t \in timers : t \in timers'
      /\ \A t \in timers' : t \in timers \/ (t.fiber = f /\ t.kind = "timeout")
      OBVIOUS
<1>t0. CoreType'
      BY <1>1 DEF CoreType, FI!core, FI!flags, FI!group, FI!sync, FI!vars
<1>t1. FlagType'
      BY <1>1 DEF CoreType, FlagType, GroupType, SyncType, Places, Queues
<1>t2. GroupType'
      BY <1>1 DEF CoreType, FlagType, GroupType, SyncType, Places, Queues
<1>t3. SyncType'
      BY <1>1 DEF CoreType, FlagType, GroupType, SyncType, Places, Queues
<1>Phases. Phases'
      BY <1>1 DEF CoreType, FlagType, GroupType, SyncType, Phases, Parking
<1>Runnable. Runnable'
      BY <1>1 DEF CoreType, FlagType, GroupType, SyncType, Runnable, FI!Alive, Phases
<1>Waits. Waits'
      BY <1>1 DEF CoreType, FlagType, GroupType, SyncType, Waits, Phases
<1>Owner. Owner'
      BY <1>1 DEF CoreType, FlagType, GroupType, SyncType, Owner, Phases, FI!Alive
<1>Reasons. Reasons'
      BY <1>1 DEF CoreType, FlagType, GroupType, SyncType, Reasons, Roused, FI!Linked, Runnable,
         Owner, Phases, Waits
<1>Timers. Timers'
      BY <1>1 DEF CoreType, FlagType, GroupType, SyncType, Timers, Phases, Closing
<1>WillBeThrown. WillBeThrown'
      BY <1>1 DEF CoreType, FlagType, GroupType, SyncType, WillBeThrown, Phases, Timers, Owner
<1>Holds. Holds'
      BY <1>1 DEF CoreType, SyncType, Holds, Closing
<1>Baton. Baton'
      BY <1>1 DEF CoreType, FlagType, GroupType, SyncType, Baton, FI!Linked, Waits, Phases,
         Runnable, Holds
<1>Wakers. Wakers'
      BY <1>1 DEF CoreType, FlagType, GroupType, SyncType, Wakers, Sleeping, FI!Linked, FI!Alive,
         Phases, Runnable, Waits, Owner
<1> QED BY <1>t0, <1>t1, <1>t2, <1>t3, <1>Phases, <1>Runnable, <1>Waits, <1>Owner, <1>Reasons,
           <1>Timers, <1>WillBeThrown, <1>Holds, <1>Baton, <1>Wakers

\* ~TimeoutGuard
LEMMA CloseTimeoutKeeps ==
  ASSUME FibInv, NEW f \in Fiber, FI!CloseTimeout(f)
  PROVE  FibInv'
<1> USE FC DEF FibInv, Typing, FI!FiberConstants, FI!CloseTimeout, FI!core, FI!flags, FI!group,
        FI!sync, FI!vars, FI!In, FI!Op, FI!DropTimeout
<1>t0. CoreType'
      BY DEF CoreType, FlagType, GroupType, SyncType, Places, Queues
<1>t1. FlagType'
      BY DEF CoreType, FlagType, GroupType, SyncType, Places, Queues
<1>t2. GroupType'
      BY DEF CoreType, FlagType, GroupType, SyncType, Places, Queues
<1>t3. SyncType'
      BY DEF CoreType, FlagType, GroupType, SyncType, Places, Queues
<1>Phases. Phases'
      BY DEF CoreType, FlagType, GroupType, SyncType, Phases, Parking
<1>Runnable. Runnable'
      BY DEF CoreType, FlagType, GroupType, SyncType, Runnable, FI!Alive, Phases
<1>Waits. Waits'
      BY DEF CoreType, FlagType, GroupType, SyncType, Waits, Phases
<1>Owner. Owner'
      BY DEF CoreType, FlagType, GroupType, SyncType, Owner, Phases, FI!Alive
<1>Reasons. Reasons'
      BY DEF CoreType, FlagType, GroupType, SyncType, Reasons, Roused, FI!Linked, Runnable, Owner,
         Phases, Waits
<1>Timers. Timers'
      BY DEF CoreType, FlagType, GroupType, SyncType, Timers, Phases, Closing
<1>WillBeThrown. WillBeThrown'
      BY DEF CoreType, FlagType, GroupType, SyncType, WillBeThrown, Phases, Timers, Owner
<1>Holds. Holds'
      BY DEF CoreType, SyncType, Holds, Closing
<1>Baton. Baton'
      BY DEF CoreType, FlagType, GroupType, SyncType, Baton, FI!Linked, Waits, Phases, Runnable,
         Holds
<1>Wakers. Wakers'
  <2>1. \A t \in timers : t.kind = "sleep" => t \in timers'
        OBVIOUS
  <2> QED BY <2>1 DEF CoreType, Wakers, Sleeping, FI!Linked, FI!Alive
<1> QED BY <1>t0, <1>t1, <1>t2, <1>t3, <1>Phases, <1>Runnable, <1>Waits, <1>Owner, <1>Reasons,
           <1>Timers, <1>WillBeThrown, <1>Holds, <1>Baton, <1>Wakers

\* A FiberCancelGuard is opened or closed.
LEMMA ToggleCancelGuardKeeps ==
  ASSUME FibInv, NEW f \in Fiber, FI!ToggleCancelGuard(f)
  PROVE  FibInv'
<1> USE FC DEF FibInv, Typing, FI!FiberConstants, FI!ToggleCancelGuard, FI!core, FI!flags,
        FI!group, FI!sync, FI!vars, FI!In, FI!Op
<1>t0. CoreType'
      BY DEF CoreType, FlagType, GroupType, SyncType, Places, Queues
<1>t1. FlagType'
      BY DEF CoreType, FlagType, GroupType, SyncType, Places, Queues
<1>t2. GroupType'
      BY DEF CoreType, FlagType, GroupType, SyncType, Places, Queues
<1>t3. SyncType'
      BY DEF CoreType, FlagType, GroupType, SyncType, Places, Queues
<1>Phases. Phases'
      BY DEF CoreType, FlagType, GroupType, SyncType, Phases, Parking
<1>Runnable. Runnable'
      BY DEF CoreType, FlagType, GroupType, SyncType, Runnable, FI!Alive, Phases
<1>Waits. Waits'
      BY DEF CoreType, FlagType, GroupType, SyncType, Waits, Phases
<1>Owner. Owner'
      BY DEF CoreType, FlagType, GroupType, SyncType, Owner, Phases, FI!Alive
<1>Reasons. Reasons'
      BY DEF CoreType, FlagType, GroupType, SyncType, Reasons, Roused, FI!Linked, Runnable, Owner,
         Phases, Waits
<1>Timers. Timers'
      BY DEF CoreType, FlagType, GroupType, SyncType, Timers, Phases, Closing
<1>WillBeThrown. WillBeThrown'
      BY DEF CoreType, FlagType, GroupType, SyncType, WillBeThrown, Phases, Timers, Owner
<1>Holds. Holds'
      BY DEF CoreType, SyncType, Holds, Closing
<1>Baton. Baton'
      BY DEF CoreType, FlagType, GroupType, SyncType, Baton, FI!Linked, Waits, Phases, Runnable,
         Holds
<1>Wakers. Wakers'
      BY DEF CoreType, FlagType, GroupType, SyncType, Wakers, Sleeping, FI!Linked, FI!Alive,
         Phases, Runnable, Waits, Owner
<1> QED BY <1>t0, <1>t1, <1>t2, <1>t3, <1>Phases, <1>Runnable, <1>Waits, <1>Owner, <1>Reasons,
           <1>Timers, <1>WillBeThrown, <1>Holds, <1>Baton, <1>Wakers

\* SleepFor sets a timer and parks.
LEMMA SleepKeeps ==
  ASSUME FibInv, NEW f \in Fiber, FI!Sleep(f)
  PROVE  FibInv'
<1> USE FC DEF FibInv, Typing, FI!FiberConstants, FI!Sleep, FI!core, FI!flags, FI!group, FI!sync,
        FI!vars, FI!In, FI!Op, FI!Goto
<1>1. PICK d \in 0..1 : timers' = timers \cup {[fiber |-> f, kind |-> "sleep", deadline |-> now_ + d]}
      OBVIOUS
<1>2. /\ \A t \in timers : t \in timers'
      /\ \A t \in timers' : t \in timers \/ (t.fiber = f /\ t.kind = "sleep")
      /\ \E t \in timers' : t.fiber = f /\ t.kind = "sleep"
  <2> DEFINE r == [fiber |-> f, kind |-> "sleep", deadline |-> now_ + d]
  <2>1. r.fiber = f /\ r.kind = "sleep" /\ timers' = timers \cup {r}
        BY <1>1
  <2> HIDE DEF r
  <2> QED BY <2>1
<1>t0. CoreType'
      BY <1>2 DEF CoreType, FlagType, GroupType, SyncType, Places, Queues
<1>t1. FlagType'
      BY <1>2 DEF CoreType, FlagType, GroupType, SyncType, Places, Queues
<1>t2. GroupType'
      BY <1>2 DEF CoreType, FlagType, GroupType, SyncType, Places, Queues
<1>t3. SyncType'
      BY <1>2 DEF CoreType, FlagType, GroupType, SyncType, Places, Queues
<1>Phases. Phases'
      BY <1>2 DEF CoreType, FlagType, GroupType, SyncType, Phases, Parking
<1>Runnable. Runnable'
      BY <1>2 DEF CoreType, FlagType, GroupType, SyncType, Runnable, FI!Alive, Phases
<1>Waits. Waits'
      BY <1>2 DEF CoreType, FlagType, GroupType, SyncType, Waits, Phases
<1>Owner. Owner'
      BY <1>2 DEF CoreType, FlagType, GroupType, SyncType, Owner, Phases, FI!Alive
<1>Reasons. Reasons'
      BY <1>2 DEF CoreType, FlagType, GroupType, SyncType, Reasons, Roused, FI!Linked, Runnable,
         Owner, Phases, Waits
<1>Timers. Timers'
      BY <1>2 DEF CoreType, FlagType, GroupType, SyncType, Timers, Phases, Closing
<1>WillBeThrown. WillBeThrown'
      BY <1>2 DEF CoreType, FlagType, GroupType, SyncType, WillBeThrown, Phases, Timers, Owner
<1>Holds. Holds'
      BY <1>2 DEF CoreType, SyncType, Holds, Closing
<1>Baton. Baton'
      BY <1>2 DEF CoreType, FlagType, GroupType, SyncType, Baton, FI!Linked, Waits, Phases,
         Runnable, Holds
<1>Wakers. Wakers'
      BY <1>2 DEF CoreType, FlagType, GroupType, SyncType, Wakers, Sleeping, FI!Linked, FI!Alive,
         Phases, Runnable, Waits, Owner
<1> QED BY <1>t0, <1>t1, <1>t2, <1>t3, <1>Phases, <1>Runnable, <1>Waits, <1>Owner, <1>Reasons,
           <1>Timers, <1>WillBeThrown, <1>Holds, <1>Baton, <1>Wakers

\* The function of a fiber returns.
LEMMA ReturnKeeps ==
  ASSUME FibInv, NEW f \in Fiber, FI!Return(f)
  PROVE  FibInv'
<1> USE FC DEF FibInv, Typing, FI!FiberConstants, FI!Return, FI!core, FI!flags, FI!group, FI!sync,
        FI!vars, FI!In, FI!Goto
<1>t0. CoreType'
      BY DEF CoreType, FlagType, GroupType, SyncType, Places, Queues
<1>t1. FlagType'
      BY DEF CoreType, FlagType, GroupType, SyncType, Places, Queues
<1>t2. GroupType'
      BY DEF CoreType, FlagType, GroupType, SyncType, Places, Queues
<1>t3. SyncType'
      BY DEF CoreType, FlagType, GroupType, SyncType, Places, Queues
<1>Phases. Phases'
      BY DEF CoreType, FlagType, GroupType, SyncType, Phases, Parking
<1>Runnable. Runnable'
      BY DEF CoreType, FlagType, GroupType, SyncType, Runnable, FI!Alive, Phases
<1>Waits. Waits'
      BY DEF CoreType, FlagType, GroupType, SyncType, Waits, Phases
<1>Owner. Owner'
      BY DEF CoreType, FlagType, GroupType, SyncType, Owner, Phases, FI!Alive
<1>Reasons. Reasons'
      BY DEF CoreType, FlagType, GroupType, SyncType, Reasons, Roused, FI!Linked, Runnable, Owner,
         Phases, Waits
<1>Timers. Timers'
      BY DEF CoreType, FlagType, GroupType, SyncType, Timers, Phases, Closing
<1>WillBeThrown. WillBeThrown'
      BY DEF CoreType, FlagType, GroupType, SyncType, WillBeThrown, Phases, Timers, Owner
<1>Holds. Holds'
      BY DEF CoreType, SyncType, Holds, Closing
<1>Baton. Baton'
      BY DEF CoreType, FlagType, GroupType, SyncType, Baton, FI!Linked, Waits, Phases, Runnable,
         Holds
<1>Wakers. Wakers'
      BY DEF CoreType, FlagType, GroupType, SyncType, Wakers, Sleeping, FI!Linked, FI!Alive,
         Phases, Runnable, Waits, Owner
<1> QED BY <1>t0, <1>t1, <1>t2, <1>t3, <1>Phases, <1>Runnable, <1>Waits, <1>Owner, <1>Reasons,
           <1>Timers, <1>WillBeThrown, <1>Holds, <1>Baton, <1>Wakers

\* The function of a fiber throws.
LEMMA ThrowKeeps ==
  ASSUME FibInv, NEW f \in Fiber, FI!Throw(f)
  PROVE  FibInv'
<1> USE FC DEF FibInv, Typing, FI!FiberConstants, FI!Throw, FI!core, FI!flags, FI!group, FI!sync,
        FI!vars, FI!In, FI!Op, FI!Goto
<1>t0. CoreType'
      BY DEF CoreType, FlagType, GroupType, SyncType, Places, Queues
<1>t1. FlagType'
      BY DEF CoreType, FlagType, GroupType, SyncType, Places, Queues
<1>t2. GroupType'
      BY DEF CoreType, FlagType, GroupType, SyncType, Places, Queues
<1>t3. SyncType'
      BY DEF CoreType, FlagType, GroupType, SyncType, Places, Queues
<1>Phases. Phases'
      BY DEF CoreType, FlagType, GroupType, SyncType, Phases, Parking
<1>Runnable. Runnable'
      BY DEF CoreType, FlagType, GroupType, SyncType, Runnable, FI!Alive, Phases
<1>Waits. Waits'
      BY DEF CoreType, FlagType, GroupType, SyncType, Waits, Phases
<1>Owner. Owner'
      BY DEF CoreType, FlagType, GroupType, SyncType, Owner, Phases, FI!Alive
<1>Reasons. Reasons'
      BY DEF CoreType, FlagType, GroupType, SyncType, Reasons, Roused, FI!Linked, Runnable, Owner,
         Phases, Waits
<1>Timers. Timers'
      BY DEF CoreType, FlagType, GroupType, SyncType, Timers, Phases, Closing
<1>WillBeThrown. WillBeThrown'
      BY DEF CoreType, FlagType, GroupType, SyncType, WillBeThrown, Phases, Timers, Owner
<1>Holds. Holds'
      BY DEF CoreType, SyncType, Holds, Closing
<1>Baton. Baton'
      BY DEF CoreType, FlagType, GroupType, SyncType, Baton, FI!Linked, Waits, Phases, Runnable,
         Holds
<1>Wakers. Wakers'
      BY DEF CoreType, FlagType, GroupType, SyncType, Wakers, Sleeping, FI!Linked, FI!Alive,
         Phases, Runnable, Waits, Owner
<1> QED BY <1>t0, <1>t1, <1>t2, <1>t3, <1>Phases, <1>Runnable, <1>Waits, <1>Owner, <1>Reasons,
           <1>Timers, <1>WillBeThrown, <1>Holds, <1>Baton, <1>Wakers

\* Back from the Park of WaitGroup::Wait.
LEMMA WaitReturnKeeps ==
  ASSUME FibInv, FI!WaitReturn
  PROVE  FibInv'
<1> USE FC DEF FibInv, Typing, FI!FiberConstants, FI!WaitReturn, FI!core, FI!flags, FI!group,
        FI!sync, FI!vars, FI!In, FI!Goto
<1>t0. CoreType'
      BY DEF CoreType, FlagType, GroupType, SyncType, Places, Queues
<1>t1. FlagType'
      BY DEF CoreType, FlagType, GroupType, SyncType, Places, Queues
<1>t2. GroupType'
      BY DEF CoreType, FlagType, GroupType, SyncType, Places, Queues
<1>t3. SyncType'
      BY DEF CoreType, FlagType, GroupType, SyncType, Places, Queues
<1>Phases. Phases'
      BY DEF CoreType, FlagType, GroupType, SyncType, Phases, Parking
<1>Runnable. Runnable'
      BY DEF CoreType, FlagType, GroupType, SyncType, Runnable, FI!Alive, Phases
<1>Waits. Waits'
      BY DEF CoreType, FlagType, GroupType, SyncType, Waits, Phases
<1>Owner. Owner'
      BY DEF CoreType, FlagType, GroupType, SyncType, Owner, Phases, FI!Alive
<1>Reasons. Reasons'
      BY DEF CoreType, FlagType, GroupType, SyncType, Reasons, Roused, FI!Linked, Runnable, Owner,
         Phases, Waits
<1>Timers. Timers'
      BY DEF CoreType, FlagType, GroupType, SyncType, Timers, Phases, Closing
<1>WillBeThrown. WillBeThrown'
      BY DEF CoreType, FlagType, GroupType, SyncType, WillBeThrown, Phases, Timers, Owner
<1>Holds. Holds'
      BY DEF CoreType, SyncType, Holds, Closing
<1>Baton. Baton'
      BY DEF CoreType, FlagType, GroupType, SyncType, Baton, FI!Linked, Waits, Phases, Runnable,
         Holds
<1>Wakers. Wakers'
      BY DEF CoreType, FlagType, GroupType, SyncType, Wakers, Sleeping, FI!Linked, FI!Alive,
         Phases, Runnable, Waits, Owner
<1> QED BY <1>t0, <1>t1, <1>t2, <1>t3, <1>Phases, <1>Runnable, <1>Waits, <1>Owner, <1>Reasons,
           <1>Timers, <1>WillBeThrown, <1>Holds, <1>Baton, <1>Wakers

\* Back from the Park of ~Fiber: the fiber is over.
LEMMA JoinReturnKeeps ==
  ASSUME FibInv, FI!JoinReturn
  PROVE  FibInv'
<1> USE FC DEF FibInv, Typing, FI!FiberConstants, FI!JoinReturn, FI!core, FI!flags, FI!group,
        FI!sync, FI!vars, FI!In, FI!Goto
<1>t0. CoreType'
      BY DEF CoreType, FlagType, GroupType, SyncType, Places, Queues
<1>t1. FlagType'
      BY DEF CoreType, FlagType, GroupType, SyncType, Places, Queues
<1>t2. GroupType'
      BY DEF CoreType, FlagType, GroupType, SyncType, Places, Queues
<1>t3. SyncType'
      BY DEF CoreType, FlagType, GroupType, SyncType, Places, Queues
<1>Phases. Phases'
      BY DEF CoreType, FlagType, GroupType, SyncType, Phases, Parking, Reasons, Owner
<1>Runnable. Runnable'
      BY DEF CoreType, FlagType, GroupType, SyncType, Runnable, FI!Alive, Phases, Reasons, Owner
<1>Waits. Waits'
      BY DEF CoreType, FlagType, GroupType, SyncType, Waits, Phases
<1>Owner. Owner'
      BY DEF CoreType, FlagType, GroupType, SyncType, Owner, Phases, FI!Alive
<1>Reasons. Reasons'
      BY DEF CoreType, FlagType, GroupType, SyncType, Reasons, Roused, FI!Linked, Runnable, Owner,
         Phases, Waits
<1>Timers. Timers'
      BY DEF CoreType, FlagType, GroupType, SyncType, Timers, Phases, Closing
<1>WillBeThrown. WillBeThrown'
      BY DEF CoreType, FlagType, GroupType, SyncType, WillBeThrown, Phases, Timers, Owner
<1>Holds. Holds'
      BY DEF CoreType, SyncType, Holds, Closing
<1>Baton. Baton'
      BY DEF CoreType, FlagType, GroupType, SyncType, Baton, FI!Linked, Waits, Phases, Runnable,
         Holds
<1>Wakers. Wakers'
      BY DEF CoreType, FlagType, GroupType, SyncType, Wakers, Sleeping, FI!Linked, FI!Alive,
         Phases, Runnable, Waits, Owner
<1> QED BY <1>t0, <1>t1, <1>t2, <1>t3, <1>Phases, <1>Runnable, <1>Waits, <1>Owner, <1>Reasons,
           <1>Timers, <1>WillBeThrown, <1>Holds, <1>Baton, <1>Wakers

\* Back from the Park of ~Group: the group is empty.
LEMMA GroupReturnKeeps ==
  ASSUME FibInv, FI!GroupReturn
  PROVE  FibInv'
<1> USE FC DEF FibInv, Typing, FI!FiberConstants, FI!GroupReturn, FI!core, FI!flags, FI!group,
        FI!sync, FI!vars, FI!In, FI!Goto
<1>t0. CoreType'
      BY DEF CoreType, FlagType, GroupType, SyncType, Places, Queues
<1>t1. FlagType'
      BY DEF CoreType, FlagType, GroupType, SyncType, Places, Queues
<1>t2. GroupType'
      BY DEF CoreType, FlagType, GroupType, SyncType, Places, Queues
<1>t3. SyncType'
      BY DEF CoreType, FlagType, GroupType, SyncType, Places, Queues
<1>Phases. Phases'
      BY DEF CoreType, FlagType, GroupType, SyncType, Phases, Parking
<1>Runnable. Runnable'
      BY DEF CoreType, FlagType, GroupType, SyncType, Runnable, FI!Alive, Phases
<1>Waits. Waits'
      BY DEF CoreType, FlagType, GroupType, SyncType, Waits, Phases
<1>Owner. Owner'
      BY DEF CoreType, FlagType, GroupType, SyncType, Owner, Phases, FI!Alive, Reasons
<1>Reasons. Reasons'
      BY DEF CoreType, FlagType, GroupType, SyncType, Reasons, Roused, FI!Linked, Runnable, Owner,
         Phases, Waits
<1>Timers. Timers'
      BY DEF CoreType, FlagType, GroupType, SyncType, Timers, Phases, Closing
<1>WillBeThrown. WillBeThrown'
      BY DEF CoreType, FlagType, GroupType, SyncType, WillBeThrown, Phases, Timers, Owner
<1>Holds. Holds'
      BY DEF CoreType, SyncType, Holds, Closing
<1>Baton. Baton'
      BY DEF CoreType, FlagType, GroupType, SyncType, Baton, FI!Linked, Waits, Phases, Runnable,
         Holds
<1>Wakers. Wakers'
      BY DEF CoreType, FlagType, GroupType, SyncType, Wakers, Sleeping, FI!Linked, FI!Alive,
         Phases, Runnable, Waits, Owner
<1> QED BY <1>t0, <1>t1, <1>t2, <1>t3, <1>Phases, <1>Runnable, <1>Waits, <1>Owner, <1>Reasons,
           <1>Timers, <1>WillBeThrown, <1>Holds, <1>Baton, <1>Wakers

\* WaitGroup::Wait: an error, nothing to wait for, or a Park.
LEMMA WaitKeeps ==
  ASSUME FibInv, FI!Wait
  PROVE  FibInv'
<1> USE FC DEF FibInv, Typing, FI!FiberConstants, FI!core, FI!flags, FI!group, FI!sync, FI!vars,
        FI!In
<1>0. /\ FI!In(Main, "user")
      /\ UNCHANGED <<run_queue_, this_fiber, now_, timers, state_, FI!flags, fibers_, joiner_,
                     first_error_, object, joining, FI!sync>>
      BY DEF FI!Wait, FI!Op
<1>1. CASE first_error_ # "none"
  <2>0. /\ at' = [at EXCEPT ![Main] = "unwind"] /\ phase' = [phase EXCEPT ![Main] = "run"]
        /\ exc' = [exc EXCEPT ![Main] = first_error_] /\ waiter_' = waiter_
        BY <1>1 DEF FI!Wait, FI!Goto
  <2>CoreType. CoreType'
        BY <1>0, <1>1, <2>0 DEF CoreType, FlagType, GroupType, SyncType, Places, Queues
  <2>FlagType. FlagType'
        BY <1>0, <1>1, <2>0 DEF CoreType, FlagType, GroupType, SyncType, Places, Queues
  <2>GroupType. GroupType'
        BY <1>0, <1>1, <2>0 DEF CoreType, FlagType, GroupType, SyncType, Places, Queues
  <2>SyncType. SyncType'
        BY <1>0, <1>1, <2>0 DEF CoreType, FlagType, GroupType, SyncType, Places, Queues
  <2>Phases. Phases'
        BY <1>0, <1>1, <2>0 DEF CoreType, FlagType, GroupType, SyncType, Phases, Parking
  <2>Runnable. Runnable'
        BY <1>0, <1>1, <2>0 DEF CoreType, FlagType, GroupType, SyncType, Runnable, FI!Alive, Phases
  <2>Waits. Waits'
        BY <1>0, <1>1, <2>0 DEF CoreType, FlagType, GroupType, SyncType, Waits, Phases
  <2>Owner. Owner'
        BY <1>0, <1>1, <2>0 DEF CoreType, FlagType, GroupType, SyncType, Owner, Phases, FI!Alive
  <2>Reasons. Reasons'
        BY <1>0, <1>1, <2>0 DEF CoreType, FlagType, GroupType, SyncType, Reasons, Roused,
           FI!Linked, Runnable, Owner, Phases, Waits
  <2>Timers. Timers'
        BY <1>0, <1>1, <2>0 DEF CoreType, FlagType, GroupType, SyncType, Timers, Phases, Closing
  <2>WillBeThrown. WillBeThrown'
        BY <1>0, <1>1, <2>0 DEF CoreType, FlagType, GroupType, SyncType, WillBeThrown, Phases,
           Timers, Owner
  <2>Holds. Holds'
        BY <1>0, <1>1, <2>0 DEF CoreType, SyncType, Holds, Closing
  <2>Baton. Baton'
        BY <1>0, <1>1, <2>0 DEF CoreType, FlagType, GroupType, SyncType, Baton, FI!Linked, Waits,
           Phases, Runnable, Holds
  <2>Wakers. Wakers'
        BY <1>0, <1>1, <2>0 DEF CoreType, FlagType, GroupType, SyncType, Wakers, Sleeping,
           FI!Linked, FI!Alive, Phases, Runnable, Waits, Owner
  <2> QED BY <2>CoreType, <2>FlagType, <2>GroupType, <2>SyncType, <2>Phases, <2>Runnable,
             <2>Waits, <2>Owner, <2>Reasons, <2>Timers, <2>WillBeThrown, <2>Holds, <2>Baton,
             <2>Wakers DEF FibInv, Typing
<1>2. CASE first_error_ = "none" /\ fibers_ = {}
  <2>0. UNCHANGED <<exc, at, phase, waiter_>>
        BY <1>2 DEF FI!Wait
  <2>CoreType. CoreType'
        BY <1>0, <1>2, <2>0 DEF CoreType, FlagType, GroupType, SyncType, Places, Queues
  <2>FlagType. FlagType'
        BY <1>0, <1>2, <2>0 DEF CoreType, FlagType, GroupType, SyncType, Places, Queues
  <2>GroupType. GroupType'
        BY <1>0, <1>2, <2>0 DEF CoreType, FlagType, GroupType, SyncType, Places, Queues
  <2>SyncType. SyncType'
        BY <1>0, <1>2, <2>0 DEF CoreType, FlagType, GroupType, SyncType, Places, Queues
  <2>Phases. Phases'
        BY <1>0, <1>2, <2>0 DEF CoreType, FlagType, GroupType, SyncType, Phases, Parking
  <2>Runnable. Runnable'
        BY <1>0, <1>2, <2>0 DEF CoreType, FlagType, GroupType, SyncType, Runnable, FI!Alive, Phases
  <2>Waits. Waits'
        BY <1>0, <1>2, <2>0 DEF CoreType, FlagType, GroupType, SyncType, Waits, Phases
  <2>Owner. Owner'
        BY <1>0, <1>2, <2>0 DEF CoreType, FlagType, GroupType, SyncType, Owner, Phases, FI!Alive
  <2>Reasons. Reasons'
        BY <1>0, <1>2, <2>0 DEF CoreType, FlagType, GroupType, SyncType, Reasons, Roused,
           FI!Linked, Runnable, Owner, Phases, Waits
  <2>Timers. Timers'
        BY <1>0, <1>2, <2>0 DEF CoreType, FlagType, GroupType, SyncType, Timers, Phases, Closing
  <2>WillBeThrown. WillBeThrown'
        BY <1>0, <1>2, <2>0 DEF CoreType, FlagType, GroupType, SyncType, WillBeThrown, Phases,
           Timers, Owner
  <2>Holds. Holds'
        BY <1>0, <1>2, <2>0 DEF CoreType, SyncType, Holds, Closing
  <2>Baton. Baton'
        BY <1>0, <1>2, <2>0 DEF CoreType, FlagType, GroupType, SyncType, Baton, FI!Linked, Waits,
           Phases, Runnable, Holds
  <2>Wakers. Wakers'
        BY <1>0, <1>2, <2>0 DEF CoreType, FlagType, GroupType, SyncType, Wakers, Sleeping,
           FI!Linked, FI!Alive, Phases, Runnable, Waits, Owner
  <2> QED BY <2>CoreType, <2>FlagType, <2>GroupType, <2>SyncType, <2>Phases, <2>Runnable,
             <2>Waits, <2>Owner, <2>Reasons, <2>Timers, <2>WillBeThrown, <2>Holds, <2>Baton,
             <2>Wakers DEF FibInv, Typing
<1>3. CASE first_error_ = "none" /\ fibers_ # {}
  <2>0. /\ at' = [at EXCEPT ![Main] = "wait_group"] /\ phase' = [phase EXCEPT ![Main] = "enter"]
        /\ exc' = exc /\ waiter_' = Main
        BY <1>3 DEF FI!Wait, FI!Goto
  <2>CoreType. CoreType'
        BY <1>0, <1>3, <2>0 DEF CoreType, FlagType, GroupType, SyncType, Places, Queues
  <2>FlagType. FlagType'
        BY <1>0, <1>3, <2>0 DEF CoreType, FlagType, GroupType, SyncType, Places, Queues
  <2>GroupType. GroupType'
        BY <1>0, <1>3, <2>0 DEF CoreType, FlagType, GroupType, SyncType, Places, Queues
  <2>SyncType. SyncType'
        BY <1>0, <1>3, <2>0 DEF CoreType, FlagType, GroupType, SyncType, Places, Queues
  <2>Phases. Phases'
        BY <1>0, <1>3, <2>0 DEF CoreType, FlagType, GroupType, SyncType, Phases, Parking
  <2>Runnable. Runnable'
        BY <1>0, <1>3, <2>0 DEF CoreType, FlagType, GroupType, SyncType, Runnable, FI!Alive, Phases
  <2>Waits. Waits'
        BY <1>0, <1>3, <2>0 DEF CoreType, FlagType, GroupType, SyncType, Waits, Phases
  <2>Owner. Owner'
        BY <1>0, <1>3, <2>0 DEF CoreType, FlagType, GroupType, SyncType, Owner, Phases, FI!Alive
  <2>Reasons. Reasons'
    <3>1. at'[Main] = "wait_group" /\ phase'[Main] = "enter"
          BY <2>0 DEF CoreType
    <3>2. ~FI!Linked(Main) /\ run_queue_' = run_queue_
          BY <1>0 DEF Runnable, FI!Linked
    <3> QED BY <3>1, <3>2 DEF Reasons, Roused, FI!Linked
  <2>Timers. Timers'
        BY <1>0, <1>3, <2>0 DEF CoreType, FlagType, GroupType, SyncType, Timers, Phases, Closing
  <2>WillBeThrown. WillBeThrown'
        BY <1>0, <1>3, <2>0 DEF CoreType, FlagType, GroupType, SyncType, WillBeThrown, Phases,
           Timers, Owner
  <2>Holds. Holds'
        BY <1>0, <1>3, <2>0 DEF CoreType, SyncType, Holds, Closing
  <2>Baton. Baton'
        BY <1>0, <1>3, <2>0 DEF CoreType, FlagType, GroupType, SyncType, Baton, FI!Linked, Waits,
           Phases, Runnable, Holds
  <2>Wakers. Wakers'
        BY <1>0, <1>3, <2>0 DEF CoreType, FlagType, GroupType, SyncType, Wakers, Sleeping,
           FI!Linked, FI!Alive, Phases, Runnable, Waits, Owner
  <2> QED BY <2>CoreType, <2>FlagType, <2>GroupType, <2>SyncType, <2>Phases, <2>Runnable,
             <2>Waits, <2>Owner, <2>Reasons, <2>Timers, <2>WillBeThrown, <2>Holds, <2>Baton,
             <2>Wakers DEF FibInv, Typing
<1> QED BY <1>1, <1>2, <1>3

\* RunFiber takes the first of the run queue.
LEMMA RunFiberKeeps ==
  ASSUME FibInv, FI!RunFiber
  PROVE  FibInv'
<1> USE FC DEF FibInv, Typing, FI!FiberConstants, FI!core, FI!flags, FI!group, FI!sync, FI!vars
<1> DEFINE g == Head(run_queue_)
<1>1. /\ g \in Fiber /\ g \in FI!ToSet(run_queue_)
      /\ run_queue_' \in Seq(Fiber) /\ Distinct(run_queue_')
      /\ FI!ToSet(run_queue_') = FI!ToSet(run_queue_) \ {g}
      BY FirstOfList DEF FI!RunFiber, CoreType
<1>2. /\ this_fiber = Nobody /\ this_fiber' = g /\ state_' = [state_ EXCEPT ![g] = "Running"]
      /\ phase' = [phase EXCEPT ![g] = IF phase[g] = "start" THEN "run" ELSE "back"]
      /\ UNCHANGED <<now_, timers, at, exc, FI!flags, FI!group, FI!sync, ops>>
      BY DEF FI!RunFiber
<1> HIDE DEF g
<1>CoreType. CoreType'
      BY <1>1, <1>2 DEF CoreType, FlagType, GroupType, SyncType, Places, Queues
<1>FlagType. FlagType'
      BY <1>1, <1>2 DEF CoreType, FlagType, GroupType, SyncType, Places, Queues
<1>GroupType. GroupType'
      BY <1>1, <1>2 DEF CoreType, FlagType, GroupType, SyncType, Places, Queues
<1>SyncType. SyncType'
      BY <1>1, <1>2 DEF CoreType, FlagType, GroupType, SyncType, Places, Queues
<1>Phases. Phases'
      BY <1>1, <1>2 DEF CoreType, FlagType, GroupType, SyncType, Phases, Parking, Runnable, FI!Alive
<1>Runnable. Runnable'
      BY <1>1, <1>2 DEF CoreType, FlagType, GroupType, SyncType, Runnable, FI!Alive, Phases
<1>Waits. Waits'
      BY <1>1, <1>2 DEF CoreType, FlagType, GroupType, SyncType, Waits, Phases
<1>Owner. Owner'
      BY <1>1, <1>2 DEF CoreType, FlagType, GroupType, SyncType, Owner, Phases, FI!Alive
<1>Reasons. Reasons'
      BY <1>1, <1>2 DEF CoreType, FlagType, GroupType, SyncType, Reasons, Roused, FI!Linked,
         Runnable, Owner, Phases, Waits
<1>Timers. Timers'
      BY <1>1, <1>2 DEF CoreType, FlagType, GroupType, SyncType, Timers, Phases, Closing
<1>WillBeThrown. WillBeThrown'
      BY <1>1, <1>2 DEF CoreType, FlagType, GroupType, SyncType, WillBeThrown, Phases, Timers, Owner
<1>Holds. Holds'
      BY <1>1, <1>2 DEF CoreType, SyncType, Holds
<1>Baton. Baton'
      BY <1>1, <1>2 DEF CoreType, FlagType, GroupType, SyncType, Baton, FI!Linked, Waits, Phases,
         Runnable, Holds
<1>Wakers. Wakers'
      BY <1>1, <1>2 DEF CoreType, FlagType, GroupType, SyncType, Wakers, Sleeping, FI!Linked,
         FI!Alive, Phases, Runnable, Waits, Owner
<1> QED BY <1>CoreType, <1>FlagType, <1>GroupType, <1>SyncType, <1>Phases, <1>Runnable, <1>Waits,
           <1>Owner, <1>Reasons, <1>Timers, <1>WillBeThrown, <1>Holds, <1>Baton,
           <1>Wakers DEF FibInv, Typing

\* Yield links the fiber that runs and parks.
LEMMA YieldKeeps ==
  ASSUME FibInv, NEW f \in Fiber, FI!Yield(f)
  PROVE  FibInv'
<1> USE FC DEF FibInv, Typing, FI!FiberConstants, FI!core, FI!flags, FI!group, FI!sync, FI!vars,
        FI!In
<1>1. /\ FI!In(f, "user") /\ at' = [at EXCEPT ![f] = "yield"] /\ phase' = [phase EXCEPT ![f] = "enter"]
      /\ UNCHANGED <<this_fiber, now_, timers, state_, exc, FI!flags, FI!group, FI!sync>>
      BY DEF FI!Yield, FI!Op, FI!Goto
<1>2. /\ run_queue_' \in Seq(Fiber) /\ Distinct(run_queue_')
      /\ FI!ToSet(run_queue_') = FI!ToSet(run_queue_) \cup {f}
  <2>1. {f} \ {Nobody} = {f}
        OBVIOUS
  <2> QED BY <2>1, UnparkEffect DEF FI!Yield
<1>CoreType. CoreType'
      BY <1>1, <1>2 DEF CoreType, FlagType, GroupType, SyncType, Places, Queues
<1>FlagType. FlagType'
      BY <1>1, <1>2 DEF CoreType, FlagType, GroupType, SyncType, Places, Queues
<1>GroupType. GroupType'
      BY <1>1, <1>2 DEF CoreType, FlagType, GroupType, SyncType, Places, Queues
<1>SyncType. SyncType'
      BY <1>1, <1>2 DEF CoreType, FlagType, GroupType, SyncType, Places, Queues
<1>Phases. Phases'
      BY <1>1, <1>2 DEF CoreType, FlagType, GroupType, SyncType, Phases, Parking
<1>Runnable. Runnable'
      BY <1>1, <1>2 DEF CoreType, FlagType, GroupType, SyncType, Runnable, FI!Alive, Phases
<1>Waits. Waits'
      BY <1>1, <1>2 DEF CoreType, FlagType, GroupType, SyncType, Waits, Phases
<1>Owner. Owner'
      BY <1>1, <1>2 DEF CoreType, FlagType, GroupType, SyncType, Owner, Phases, FI!Alive
<1>Reasons. Reasons'
      BY <1>1, <1>2 DEF CoreType, FlagType, GroupType, SyncType, Reasons, Roused, FI!Linked,
         Runnable, Owner, Phases, Waits
<1>Timers. Timers'
      BY <1>1, <1>2 DEF CoreType, FlagType, GroupType, SyncType, Timers, Phases, Closing
<1>WillBeThrown. WillBeThrown'
      BY <1>1, <1>2 DEF CoreType, FlagType, GroupType, SyncType, WillBeThrown, Phases, Timers, Owner
<1>Holds. Holds'
      BY <1>1, <1>2 DEF CoreType, SyncType, Holds, Closing
<1>Baton. Baton'
      BY <1>1, <1>2 DEF CoreType, FlagType, GroupType, SyncType, Baton, FI!Linked, Waits, Phases,
         Runnable, Holds
<1>Wakers. Wakers'
      BY <1>1, <1>2 DEF CoreType, FlagType, GroupType, SyncType, Wakers, Sleeping, FI!Linked,
         FI!Alive, Phases, Runnable, Waits, Owner
<1> QED BY <1>CoreType, <1>FlagType, <1>GroupType, <1>SyncType, <1>Phases, <1>Runnable, <1>Waits,
           <1>Owner, <1>Reasons, <1>Timers, <1>WillBeThrown, <1>Holds, <1>Baton,
           <1>Wakers DEF FibInv, Typing

\* Park: the fiber switches away, goes on, or throws.
LEMMA ParkKeeps ==
  ASSUME FibInv, NEW f \in Fiber, FI!Park(f)
  PROVE  FibInv'
<1> USE FC DEF FibInv, Typing, FI!FiberConstants, FI!core, FI!flags, FI!group, FI!sync, FI!vars
<1> DEFINE e == FI!Check(f)
<1>1. /\ this_fiber = f /\ phase[f] \in {"enter", "back"} /\ exc' = [exc EXCEPT ![f] = e]
      /\ UNCHANGED <<now_, timers, state_, at, canceled_, cancel_guarded_, expired, FI!group, FI!sync>>
      /\ timedout_' = [timedout_ EXCEPT ![f] = timedout_[f] /\ e # "timeout"]
      BY DEF FI!Park, FI!Pending
<1>2. /\ e \in {"none", "canceled", "timeout"}
      /\ e = "timeout" => timedout_[f] /\ ~canceled_[f] /\ ~cancel_guarded_[f]
      /\ e = "canceled" => canceled_[f] /\ ~cancel_guarded_[f]
      /\ e = "none" => cancel_guarded_[f] \/ (~canceled_[f] /\ ~timedout_[f])
      BY DEF FI!Check, FlagType
<1>3. CASE e = "none" /\ phase[f] = "enter"
  <2>0. /\ run_queue_' = run_queue_ /\ this_fiber' = Nobody /\ phase' = [phase EXCEPT ![f] = "parked"]
        BY <1>3 DEF FI!Park
  <2> HIDE DEF e
  <2>CoreType. CoreType'
        BY <1>1, <1>2, <1>3, <2>0 DEF CoreType, FlagType, GroupType, SyncType, Places, Queues
  <2>FlagType. FlagType'
        BY <1>1, <1>2, <1>3, <2>0 DEF CoreType, FlagType, GroupType, SyncType, Places, Queues
  <2>GroupType. GroupType'
        BY <1>1, <1>2, <1>3, <2>0 DEF CoreType, FlagType, GroupType, SyncType, Places, Queues
  <2>SyncType. SyncType'
        BY <1>1, <1>2, <1>3, <2>0 DEF CoreType, FlagType, GroupType, SyncType, Places, Queues
  <2>Phases. Phases'
        BY <1>1, <1>2, <1>3, <2>0 DEF CoreType, FlagType, GroupType, SyncType, Phases, Parking
  <2>Runnable. Runnable'
        BY <1>1, <1>2, <1>3, <2>0 DEF CoreType, FlagType, GroupType, SyncType, Runnable, FI!Alive,
           Phases
  <2>Waits. Waits'
        BY <1>1, <1>2, <1>3, <2>0 DEF CoreType, FlagType, GroupType, SyncType, Waits, Phases
  <2>Owner. Owner'
        BY <1>1, <1>2, <1>3, <2>0 DEF CoreType, FlagType, GroupType, SyncType, Owner, Phases,
           FI!Alive
  <2>Reasons. Reasons'
        BY <1>1, <1>2, <1>3, <2>0 DEF CoreType, FlagType, GroupType, SyncType, Reasons, Roused,
           FI!Linked, Runnable, Owner, Phases, Waits
  <2>Timers. Timers'
        BY <1>1, <1>2, <1>3, <2>0 DEF CoreType, FlagType, GroupType, SyncType, Timers, Phases,
           Closing
  <2>WillBeThrown. WillBeThrown'
        BY <1>1, <1>2, <1>3, <2>0 DEF CoreType, FlagType, GroupType, SyncType, WillBeThrown,
           Phases, Timers, Owner
  <2>Holds. Holds'
        BY <1>1, <1>2, <1>3, <2>0 DEF CoreType, SyncType, Holds, Closing
  <2>Baton. Baton'
        BY <1>1, <1>2, <1>3, <2>0 DEF CoreType, FlagType, GroupType, SyncType, Baton, FI!Linked,
           Waits, Phases, Runnable, Holds
  <2>Wakers. Wakers'
        BY <1>1, <1>2, <1>3, <2>0 DEF CoreType, FlagType, GroupType, SyncType, Wakers, Sleeping,
           FI!Linked, FI!Alive, Phases, Runnable, Waits, Owner
  <2> QED BY <2>CoreType, <2>FlagType, <2>GroupType, <2>SyncType, <2>Phases, <2>Runnable,
             <2>Waits, <2>Owner, <2>Reasons, <2>Timers, <2>WillBeThrown, <2>Holds, <2>Baton,
             <2>Wakers DEF FibInv, Typing
<1>4. CASE e = "none" /\ phase[f] = "back"
  <2>0. /\ run_queue_' = run_queue_ /\ this_fiber' = this_fiber /\ phase' = [phase EXCEPT ![f] = "run"]
        BY <1>4 DEF FI!Park
  <2> HIDE DEF e
  <2>CoreType. CoreType'
        BY <1>1, <1>2, <1>4, <2>0 DEF CoreType, FlagType, GroupType, SyncType, Places, Queues
  <2>FlagType. FlagType'
        BY <1>1, <1>2, <1>4, <2>0 DEF CoreType, FlagType, GroupType, SyncType, Places, Queues
  <2>GroupType. GroupType'
        BY <1>1, <1>2, <1>4, <2>0 DEF CoreType, FlagType, GroupType, SyncType, Places, Queues
  <2>SyncType. SyncType'
        BY <1>1, <1>2, <1>4, <2>0 DEF CoreType, FlagType, GroupType, SyncType, Places, Queues
  <2>Phases. Phases'
        BY <1>1, <1>2, <1>4, <2>0 DEF CoreType, FlagType, GroupType, SyncType, Phases, Parking
  <2>Runnable. Runnable'
        BY <1>1, <1>2, <1>4, <2>0 DEF CoreType, FlagType, GroupType, SyncType, Runnable, FI!Alive,
           Phases
  <2>Waits. Waits'
        BY <1>1, <1>2, <1>4, <2>0 DEF CoreType, FlagType, GroupType, SyncType, Waits, Phases
  <2>Owner. Owner'
        BY <1>1, <1>2, <1>4, <2>0 DEF CoreType, FlagType, GroupType, SyncType, Owner, Phases,
           FI!Alive
  <2>Reasons. Reasons'
        BY <1>1, <1>2, <1>4, <2>0 DEF CoreType, FlagType, GroupType, SyncType, Reasons, Roused,
           FI!Linked, Runnable, Owner, Phases, Waits
  <2>Timers. Timers'
        BY <1>1, <1>2, <1>4, <2>0 DEF CoreType, FlagType, GroupType, SyncType, Timers, Phases,
           Closing
  <2>WillBeThrown. WillBeThrown'
        BY <1>1, <1>2, <1>4, <2>0 DEF CoreType, FlagType, GroupType, SyncType, WillBeThrown,
           Phases, Timers, Owner
  <2>Holds. Holds'
        BY <1>1, <1>2, <1>4, <2>0 DEF CoreType, SyncType, Holds, Closing
  <2>Baton. Baton'
        BY <1>1, <1>2, <1>4, <2>0 DEF CoreType, FlagType, GroupType, SyncType, Baton, FI!Linked,
           Waits, Phases, Runnable, Holds
  <2>Wakers. Wakers'
        BY <1>1, <1>2, <1>4, <2>0 DEF CoreType, FlagType, GroupType, SyncType, Wakers, Sleeping,
           FI!Linked, FI!Alive, Phases, Runnable, Waits, Owner
  <2> QED BY <2>CoreType, <2>FlagType, <2>GroupType, <2>SyncType, <2>Phases, <2>Runnable,
             <2>Waits, <2>Owner, <2>Reasons, <2>Timers, <2>WillBeThrown, <2>Holds, <2>Baton,
             <2>Wakers DEF FibInv, Typing
<1>5. CASE e # "none"
  <2>1. run_queue_' = FI!Unlinked(run_queue_, f) /\ this_fiber' = this_fiber /\ phase' = [phase EXCEPT ![f] = "run"]
        BY <1>5 DEF FI!Park
  <2>0. /\ run_queue_' \in Seq(Fiber) /\ Distinct(run_queue_')
        /\ FI!ToSet(run_queue_') = FI!ToSet(run_queue_) \ {f}
        BY <2>1, UnlinkedList DEF CoreType
  <2> HIDE DEF e
  <2>CoreType. CoreType'
        BY <1>1, <1>2, <1>5, <2>0, <2>1 DEF CoreType, FlagType, GroupType, SyncType, Places, Queues
  <2>FlagType. FlagType'
        BY <1>1, <1>2, <1>5, <2>0, <2>1 DEF CoreType, FlagType, GroupType, SyncType, Places, Queues
  <2>GroupType. GroupType'
        BY <1>1, <1>2, <1>5, <2>0, <2>1 DEF CoreType, FlagType, GroupType, SyncType, Places, Queues
  <2>SyncType. SyncType'
        BY <1>1, <1>2, <1>5, <2>0, <2>1 DEF CoreType, FlagType, GroupType, SyncType, Places, Queues
  <2>Phases. Phases'
        BY <1>1, <1>2, <1>5, <2>0, <2>1 DEF CoreType, FlagType, GroupType, SyncType, Phases, Parking
  <2>Runnable. Runnable'
        BY <1>1, <1>2, <1>5, <2>0, <2>1 DEF CoreType, FlagType, GroupType, SyncType, Runnable,
           FI!Alive, Phases
  <2>Waits. Waits'
        BY <1>1, <1>2, <1>5, <2>0, <2>1 DEF CoreType, FlagType, GroupType, SyncType, Waits, Phases
  <2>Owner. Owner'
        BY <1>1, <1>2, <1>5, <2>0, <2>1 DEF CoreType, FlagType, GroupType, SyncType, Owner,
           Phases, FI!Alive
  <2>Reasons. Reasons'
        BY <1>1, <1>2, <1>5, <2>0, <2>1 DEF CoreType, FlagType, GroupType, SyncType, Reasons,
           Roused, FI!Linked, Runnable, Owner, Phases, Waits
  <2>Timers. Timers'
        BY <1>1, <1>2, <1>5, <2>0, <2>1 DEF CoreType, FlagType, GroupType, SyncType, Timers,
           Phases, Closing
  <2>WillBeThrown. WillBeThrown'
        BY <1>1, <1>2, <1>5, <2>0, <2>1 DEF CoreType, FlagType, GroupType, SyncType, WillBeThrown,
           Phases, Timers, Owner
  <2>Holds. Holds'
        BY <1>1, <1>2, <1>5, <2>0, <2>1 DEF CoreType, SyncType, Holds, Closing
  <2>Baton. Baton'
        BY <1>1, <1>2, <1>5, <2>0, <2>1 DEF CoreType, FlagType, GroupType, SyncType, Baton,
           FI!Linked, Waits, Phases, Runnable, Holds
  <2>Wakers. Wakers'
        BY <1>1, <1>2, <1>5, <2>0, <2>1 DEF CoreType, FlagType, GroupType, SyncType, Wakers,
           Sleeping, FI!Linked, FI!Alive, Phases, Runnable, Waits, Owner
  <2> QED BY <2>CoreType, <2>FlagType, <2>GroupType, <2>SyncType, <2>Phases, <2>Runnable,
             <2>Waits, <2>Owner, <2>Reasons, <2>Timers, <2>WillBeThrown, <2>Holds, <2>Baton,
             <2>Wakers DEF FibInv, Typing
<1> QED BY <1>1, <1>3, <1>4, <1>5

\* Only fibers are in the lists.
LEMMA FibersInLists ==
  ASSUME FibInv
  PROVE  /\ \A g : g \in FI!ToSet(run_queue_) => g \in Fiber
         /\ \A g : g \in FI!ToSet(waiters_["lockers"]) => g \in Fiber
         /\ \A g : g \in FI!ToSet(waiters_["cond"]) => g \in Fiber
<1>1. run_queue_ \in Seq(Fiber)
      BY DEF FibInv, Typing, CoreType
<1>2. waiters_["lockers"] \in Seq(Fiber) /\ waiters_["cond"] \in Seq(Fiber)
      BY DEF FibInv, Typing, SyncType
<1> QED BY <1>1, <1>2, Members

\* A fiber that runs, and stands in no queue any more, wakes the first of one and
\* goes on to p: Unlock, CondWait, Notify, and the wake-up that WaitQueue::Wait
\* passes on.
PassesOn(f, q, p) ==
    /\ this_fiber = f /\ phase[f] = "run"
    /\ at[f] \in {"user", "unwind", "pass", "notify all", "lock", "relock", "cond"}
    /\ p \in {"user", "unwind", "pass", "notify all", "cond enqueue", "~Fiber", "return"}
    /\ \A r \in Queues : f \notin FI!ToSet(waiters_[r])
    /\ q \in Queues /\ FI!NotifyOne(q)
    /\ at' = [at EXCEPT ![f] = p] /\ phase' = [phase EXCEPT ![f] = "run"]
    /\ UNCHANGED <<this_fiber, state_, timedout_, canceled_, expired, FI!group>>
    /\ \A t \in timers' : t \in timers
    /\ \A t \in timers : t \in timers' \/ t.fiber = f
    /\ \A t \in timers' : t.fiber = f => t.kind = "timeout" /\ p \notin Closing
    /\ f = Main => p # "return"
    /\ f # Main => p # "~Fiber"
    /\ \A g \in Fiber : g # f => cancel_guarded_'[g] = cancel_guarded_[g] /\ exc'[g] = exc[g]
    /\ cancel_guarded_' \in [Fiber -> BOOLEAN]
    /\ exc' \in [Fiber -> {"none", "canceled", "timeout", "return", "error"}]

\* The lists stay lists of fibers.
LEMMA PassTypes ==
  ASSUME FibInv, NEW f \in Fiber, NEW q, NEW p, PassesOn(f, q, p)
  PROVE  /\ run_queue_' \in Seq(Fiber) /\ Distinct(run_queue_')
         /\ waiters_' \in [Queues -> Seq(Fiber)] /\ \A r \in Queues : Distinct(waiters_'[r])
         /\ wakeup' \in [Fiber -> BOOLEAN]
<1>1. CoreType /\ SyncType /\ q \in Queues /\ FI!NotifyOne(q)
      BY DEF FibInv, Typing, PassesOn
<1> QED BY <1>1, NotifyEffect

\* The fibers G that it wakes are parked there.
LEMMA PassEffect ==
  ASSUME FibInv, NEW f \in Fiber, NEW q, NEW p, PassesOn(f, q, p)
  PROVE  \E G \in SUBSET Fiber :
            /\ G = {} => FI!ToSet(waiters_[q]) = {}
            /\ \A g \in G : /\ g # f /\ phase[g] = "parked" /\ FI!Alive(g)
                            /\ q = "lockers" => at[g] \in {"lock", "relock"}
                            /\ q = "cond" => at[g] = "cond"
            /\ FI!ToSet(run_queue_') = FI!ToSet(run_queue_) \cup G
            /\ \A h \in Fiber : wakeup'[h] <=> wakeup[h] \/ h \in G
            /\ q = "lockers" => /\ FI!ToSet(waiters_'["lockers"]) = FI!ToSet(waiters_["lockers"]) \ G
                                /\ FI!ToSet(waiters_'["cond"]) = FI!ToSet(waiters_["cond"])
            /\ q = "cond" => /\ FI!ToSet(waiters_'["cond"]) = FI!ToSet(waiters_["cond"]) \ G
                             /\ FI!ToSet(waiters_'["lockers"]) = FI!ToSet(waiters_["lockers"])
<1>1. CoreType /\ SyncType /\ q \in Queues /\ FI!NotifyOne(q)
      BY DEF FibInv, Typing, PassesOn
<1>3. PICK G \in SUBSET Fiber :
         /\ G \subseteq FI!ToSet(waiters_[q]) /\ (G = {} => FI!ToSet(waiters_[q]) = {})
         /\ FI!ToSet(run_queue_') = FI!ToSet(run_queue_) \cup G
         /\ \A h \in Fiber : wakeup'[h] <=> wakeup[h] \/ h \in G
         /\ \A r \in Queues : FI!ToSet(waiters_'[r]) = IF r = q THEN FI!ToSet(waiters_[r]) \ G
                                                             ELSE FI!ToSet(waiters_[r])
      BY <1>1, NotifyEffect
<1>4. ASSUME NEW g \in G
      PROVE  /\ g # f /\ phase[g] = "parked" /\ FI!Alive(g)
             /\ q = "lockers" => at[g] \in {"lock", "relock"}
             /\ q = "cond" => at[g] = "cond"
  <2>1. g \in Fiber /\ g # f /\ this_fiber = f
        BY <1>3 DEF PassesOn
  <2>2. /\ q = "lockers" => at[g] \in {"lock", "relock"}
        /\ q = "cond" => at[g] = "cond"
        BY <1>3 DEF FibInv, Waits
  <2>3. phase[g] = "parked" /\ FI!Alive(g)
        BY <1>1, <2>1, <2>2 DEF FibInv, Phases, CoreType, FI!Alive, Queues
  <2> QED BY <2>1, <2>2, <2>3
<1>5. /\ q = "lockers" => /\ FI!ToSet(waiters_'["lockers"]) = FI!ToSet(waiters_["lockers"]) \ G
                          /\ FI!ToSet(waiters_'["cond"]) = FI!ToSet(waiters_["cond"])
      /\ q = "cond" => /\ FI!ToSet(waiters_'["cond"]) = FI!ToSet(waiters_["cond"]) \ G
                       /\ FI!ToSet(waiters_'["lockers"]) = FI!ToSet(waiters_["lockers"])
      BY <1>3 DEF Queues
<1> QED BY <1>3, <1>4, <1>5

\* The parts of the invariant that depend on where the fibers are survive it.
LEMMA PassKeeps ==
  ASSUME FibInv, NEW f \in Fiber, NEW q, NEW p, PassesOn(f, q, p)
  PROVE  Phases' /\ Runnable' /\ Waits' /\ Reasons' /\ Timers' /\ Wakers'
<1>1. PICK G \in SUBSET Fiber :
         /\ G = {} => FI!ToSet(waiters_[q]) = {}
         /\ \A g \in G : /\ g # f /\ phase[g] = "parked" /\ FI!Alive(g)
                         /\ q = "lockers" => at[g] \in {"lock", "relock"}
                         /\ q = "cond" => at[g] = "cond"
         /\ FI!ToSet(run_queue_') = FI!ToSet(run_queue_) \cup G
         /\ \A h \in Fiber : wakeup'[h] <=> wakeup[h] \/ h \in G
         /\ q = "lockers" => /\ FI!ToSet(waiters_'["lockers"]) = FI!ToSet(waiters_["lockers"]) \ G
                             /\ FI!ToSet(waiters_'["cond"]) = FI!ToSet(waiters_["cond"])
         /\ q = "cond" => /\ FI!ToSet(waiters_'["cond"]) = FI!ToSet(waiters_["cond"]) \ G
                          /\ FI!ToSet(waiters_'["lockers"]) = FI!ToSet(waiters_["lockers"])
      BY PassEffect
<1>7. \A g : g \in FI!ToSet(run_queue_) => g \in Fiber
      BY FibersInLists
<1>8. \A g : g \in FI!ToSet(waiters_["lockers"]) \/ g \in FI!ToSet(waiters_["cond"]) => g \in Fiber
      BY FibersInLists
<1> USE FC DEF FibInv, Typing, FI!FiberConstants
<1>2. /\ this_fiber = f /\ phase[f] = "run" /\ q \in {"lockers", "cond"}
      /\ at[f] \in {"user", "unwind", "pass", "notify all", "lock", "relock", "cond"}
      /\ p \in {"user", "unwind", "pass", "notify all", "cond enqueue", "~Fiber", "return"}
      /\ f \notin FI!ToSet(waiters_["lockers"]) /\ f \notin FI!ToSet(waiters_["cond"])
      /\ UNCHANGED <<this_fiber, state_, timedout_, canceled_, expired, fibers_, joiner_, waiter_,
                     first_error_, object, joining>>
      BY DEF PassesOn, Queues, FI!group
<1>3. /\ at' \in [Fiber -> Places] /\ at'[f] = p /\ \A g \in Fiber : g # f => at'[g] = at[g]
      /\ phase' = phase
  <2>1. phase' = phase
    <3>1. phase' = [phase EXCEPT ![f] = "run"] /\ phase[f] = "run"
          BY DEF PassesOn
    <3>2. phase = [g \in Fiber |-> phase[g]]
          BY DEF CoreType
    <3> QED BY <3>1, <3>2
  <2>2. p \in Places
        BY <1>2 DEF Places
  <2>3. at \in [Fiber -> Places] /\ at' = [at EXCEPT ![f] = p]
        BY DEF PassesOn, CoreType
  <2> QED BY <2>1, <2>2, <2>3
<1>4. /\ \A t \in timers' : t \in timers
      /\ \A t \in timers : t \in timers' \/ t.fiber = f
      /\ \A t \in timers' : t.fiber = f => t.kind = "timeout" /\ p \notin Closing
      BY DEF PassesOn
<1>5. f = Main => p # "return"
      BY DEF PassesOn
<1>6. \A g \in Fiber : g # f => cancel_guarded_'[g] = cancel_guarded_[g] /\ exc'[g] = exc[g]
      BY DEF PassesOn
<1>Phases. Phases'
  <2>1. ASSUME NEW g \in Fiber
        PROVE  /\ this_fiber' = g <=> phase'[g] \in {"run", "enter", "back"}
               /\ phase'[g] = "over" <=> state_'[g] \in {"Dead", "deleted"}
               /\ state_'[g] = "none" => phase'[g] = "start" /\ g # Main
        BY <1>2, <1>3 DEF Phases
  <2>2. ASSUME NEW g \in Fiber
        PROVE  /\ phase'[g] = "start" => at'[g] = "user"
               /\ phase'[g] \in {"enter", "parked", "back"} => at'[g] \in Parking
               /\ phase'[g] = "over" => at'[g] = "return"
        BY <1>2, <1>3 DEF Phases
  <2> QED BY <2>1, <2>2 DEF Phases
<1>Runnable. Runnable'
  <2> SUFFICES ASSUME NEW g \in FI!ToSet(run_queue_')
               PROVE  /\ FI!Alive(g)'
                      /\ phase'[g] \in {"start", "parked"} \/ (phase'[g] = "enter" /\ at'[g] = "yield")
      BY DEF Runnable
  <2>1. g \in Fiber /\ FI!Alive(g)' = FI!Alive(g)
        BY <1>1, <1>2, <1>7 DEF FI!Alive
  <2>2. CASE g \in G
        BY <1>1, <1>3, <2>1, <2>2
  <2>3. CASE g \in FI!ToSet(run_queue_)
    <3>1. FI!Alive(g) /\ (phase[g] \in {"start", "parked"} \/ (phase[g] = "enter" /\ at[g] = "yield"))
          BY <2>3 DEF Runnable
    <3>2. g # f
          BY <1>2, <3>1
    <3> QED BY <1>3, <2>1, <3>1, <3>2
  <2> QED BY <1>1, <2>2, <2>3
<1>Waits. Waits'
  <2>1. ASSUME NEW g \in FI!ToSet(waiters_'["lockers"])
        PROVE  at'[g] \in {"lock", "relock"} /\ ~wakeup'[g]
    <3>1. g \in Fiber /\ g \in FI!ToSet(waiters_["lockers"]) /\ g # f
          BY <1>1, <1>2, <1>8
    <3>2. at[g] \in {"lock", "relock"} /\ ~wakeup[g]
          BY <3>1 DEF Waits
    <3>3. g \notin G
          BY <1>1, <1>2, <3>2
    <3> QED BY <1>1, <1>3, <3>1, <3>2, <3>3
  <2>2. ASSUME NEW g \in FI!ToSet(waiters_'["cond"])
        PROVE  at'[g] = "cond" /\ ~wakeup'[g]
    <3>1. g \in Fiber /\ g \in FI!ToSet(waiters_["cond"]) /\ g # f
          BY <1>1, <1>2, <1>8
    <3>2. at[g] = "cond" /\ ~wakeup[g]
          BY <3>1 DEF Waits
    <3>3. g \notin G
          BY <1>1, <1>2, <3>2
    <3> QED BY <1>1, <1>3, <3>1, <3>2, <3>3
  <2>3. ASSUME NEW g \in Fiber, phase'[g] = "enter", at'[g] \in {"lock", "relock"}
        PROVE  ~wakeup'[g]
    <3>1. g # f /\ phase[g] = "enter" /\ g \notin G
          BY <1>1, <1>2, <1>3, <2>3
    <3>2. ~wakeup[g]
          BY <1>3, <2>3, <3>1 DEF Waits
    <3> QED BY <1>1, <3>1, <3>2
  <2> QED BY <2>1, <2>2, <2>3 DEF Waits
<1>Reasons. Reasons'
  <2>1. at'[Main] \in {"join", "group", "wait_group"} =>
           /\ Main # f /\ at'[Main] = at[Main] /\ Main \notin G
           /\ (Main \in FI!ToSet(run_queue_') <=> Main \in FI!ToSet(run_queue_))
           /\ cancel_guarded_'[Main] = cancel_guarded_[Main]
    <3> SUFFICES ASSUME at'[Main] \in {"join", "group", "wait_group"}
                 PROVE  /\ Main # f /\ at'[Main] = at[Main] /\ Main \notin G
                        /\ (Main \in FI!ToSet(run_queue_') <=> Main \in FI!ToSet(run_queue_))
                        /\ cancel_guarded_'[Main] = cancel_guarded_[Main]
        OBVIOUS
    <3>1. Main # f /\ at'[Main] = at[Main]
          BY <1>2, <1>3
    <3>2. Main \notin G
          BY <1>1, <1>2, <3>1
    <3> QED BY <1>1, <1>6, <3>1, <3>2
  <2> QED BY <1>2, <1>3, <1>6, <2>1 DEF Reasons, Roused, FI!Linked
<1>Timers. Timers'
  <2> SUFFICES ASSUME NEW t \in timers'
               PROVE  /\ phase'[t.fiber] \notin {"start", "over"}
                      /\ t.kind = "sleep" => at'[t.fiber] = "sleep"
                      /\ t.kind = "timeout" => at'[t.fiber] \notin Closing
      BY DEF Timers
  <2>1. t \in timers /\ t.fiber \in Fiber /\ t.kind \in {"sleep", "timeout"}
        BY <1>4 DEF CoreType
  <2>2. /\ phase[t.fiber] \notin {"start", "over"}
        /\ t.kind = "sleep" => at[t.fiber] = "sleep"
        /\ t.kind = "timeout" => at[t.fiber] \notin Closing
        BY <2>1 DEF Timers
  <2> QED BY <1>3, <1>4, <2>1, <2>2
<1>Wakers. Wakers'
  <2>1. ASSUME NEW g \in Fiber, Sleeping(g)'
        PROVE  g # f /\ g \notin G /\ Sleeping(g) /\ at'[g] = at[g]
    <3>1. phase[g] \in {"enter", "parked"} /\ g \notin FI!ToSet(run_queue_')
          BY <1>3, <2>1 DEF Sleeping, FI!Linked
    <3> QED BY <1>1, <1>2, <1>3, <3>1 DEF Sleeping, FI!Linked
  <2>2. ASSUME NEW g \in Fiber, g # f, g \notin G
        PROVE  /\ (\E t \in timers : t.fiber = g /\ t.kind = "sleep") =>
                      \E t \in timers' : t.fiber = g /\ t.kind = "sleep"
               /\ g \in FI!ToSet(waiters_["cond"]) => g \in FI!ToSet(waiters_'["cond"])
               /\ g \in FI!ToSet(waiters_["lockers"]) => g \in FI!ToSet(waiters_'["lockers"])
        BY <1>1, <1>2, <1>4, <2>2
  <2>3. \A g \in Fiber : phase'[g] = "start" /\ state_'[g] # "none" => FI!Linked(g)'
        BY <1>1, <1>2, <1>3 DEF Wakers, FI!Linked
  <2>4. ASSUME NEW g \in Fiber, Sleeping(g)'
        PROVE  /\ at'[g] # "yield"
               /\ at'[g] = "sleep" => \E t \in timers' : t.fiber = g /\ t.kind = "sleep"
               /\ at'[g] = "join" => FI!Alive(object)'
               /\ at'[g] = "group" => fibers_' # {}
               /\ at'[g] = "wait_group" => fibers_' # {} /\ first_error_' = "none"
               /\ at'[g] = "cond" => g \in FI!ToSet(waiters_'["cond"])
               /\ at'[g] \in {"lock", "relock"} => g \in FI!ToSet(waiters_'["lockers"])
    <3>1. g # f /\ g \notin G /\ Sleeping(g) /\ at'[g] = at[g]
          BY <2>1, <2>4
    <3>2. /\ at[g] # "yield"
          /\ at[g] = "sleep" => \E t \in timers : t.fiber = g /\ t.kind = "sleep"
          /\ at[g] = "join" => FI!Alive(object)
          /\ at[g] = "group" => fibers_ # {}
          /\ at[g] = "wait_group" => fibers_ # {} /\ first_error_ = "none"
          /\ at[g] = "cond" => g \in FI!ToSet(waiters_["cond"])
          /\ at[g] \in {"lock", "relock"} => g \in FI!ToSet(waiters_["lockers"])
          BY <3>1 DEF Wakers
    <3>3. FI!Alive(object) => FI!Alive(object)'
          BY <1>2 DEF FI!Alive
    <3> QED BY <1>2, <2>2, <3>1, <3>2, <3>3
  <2> QED BY <2>3, <2>4 DEF Wakers
<1> QED BY <1>Phases, <1>Runnable, <1>Waits, <1>Reasons, <1>Timers, <1>Wakers

\* The mutex is let go, or stays with its holder; a wake-up for the mutex is not
\* passed to the condition variable.
Releases(f, q, p) ==
    /\ holder' \in {holder, Nobody} /\ (holder' = f => p \in {"user", "unwind", "notify all"})
    /\ q = "cond" => holder' = holder /\ at[f] \notin {"lock", "relock"}

\* The whole invariant survives it.
LEMMA PassInv ==
  ASSUME FibInv, NEW f \in Fiber, NEW q, NEW p, PassesOn(f, q, p), Releases(f, q, p)
  PROVE  FibInv'
<1>1. PICK G \in SUBSET Fiber :
         /\ G = {} => FI!ToSet(waiters_[q]) = {}
         /\ \A g \in G : /\ g # f /\ phase[g] = "parked" /\ FI!Alive(g)
                         /\ q = "lockers" => at[g] \in {"lock", "relock"}
                         /\ q = "cond" => at[g] = "cond"
         /\ FI!ToSet(run_queue_') = FI!ToSet(run_queue_) \cup G
         /\ \A h \in Fiber : wakeup'[h] <=> wakeup[h] \/ h \in G
         /\ q = "lockers" => /\ FI!ToSet(waiters_'["lockers"]) = FI!ToSet(waiters_["lockers"]) \ G
                             /\ FI!ToSet(waiters_'["cond"]) = FI!ToSet(waiters_["cond"])
         /\ q = "cond" => /\ FI!ToSet(waiters_'["cond"]) = FI!ToSet(waiters_["cond"]) \ G
                          /\ FI!ToSet(waiters_'["lockers"]) = FI!ToSet(waiters_["lockers"])
      BY PassEffect
<1>2. /\ run_queue_' \in Seq(Fiber) /\ Distinct(run_queue_')
      /\ waiters_' \in [Queues -> Seq(Fiber)] /\ \A r \in Queues : Distinct(waiters_'[r])
      /\ wakeup' \in [Fiber -> BOOLEAN]
      BY PassTypes
<1>3. Phases' /\ Runnable' /\ Waits' /\ Reasons' /\ Timers' /\ Wakers'
      BY PassKeeps
<1> USE FC DEF FibInv, Typing, FI!FiberConstants
<1>4. /\ this_fiber = f /\ phase[f] = "run" /\ q \in {"lockers", "cond"}
      /\ at[f] \in {"user", "unwind", "pass", "notify all", "lock", "relock", "cond"}
      /\ p \in {"user", "unwind", "pass", "notify all", "cond enqueue", "~Fiber", "return"}
      /\ UNCHANGED <<this_fiber, state_, timedout_, canceled_, expired, fibers_, joiner_, waiter_,
                     first_error_, object, joining>>
      BY DEF PassesOn, Queues, FI!group
<1>5. /\ phase' \in [Fiber -> {"start", "run", "enter", "parked", "back", "over"}]
      /\ \A g \in Fiber : phase'[g] = phase[g]
  <2>1. phase' = [phase EXCEPT ![f] = "run"] /\ phase[f] = "run"
        BY DEF PassesOn
  <2>2. phase \in [Fiber -> {"start", "run", "enter", "parked", "back", "over"}]
        BY DEF CoreType
  <2> QED BY <2>1, <2>2
<1>6. /\ at' \in [Fiber -> Places] /\ at'[f] = p /\ \A g \in Fiber : g # f => at'[g] = at[g]
  <2>1. p \in Places
        BY <1>4 DEF Places
  <2>2. at \in [Fiber -> Places] /\ at' = [at EXCEPT ![f] = p]
        BY DEF PassesOn, CoreType
  <2> QED BY <2>1, <2>2
<1>7. /\ \A g \in Fiber : g # f => cancel_guarded_'[g] = cancel_guarded_[g]
      /\ cancel_guarded_' \in [Fiber -> BOOLEAN]
      /\ exc' \in [Fiber -> {"none", "canceled", "timeout", "return", "error"}]
      /\ \A t \in timers' : t \in timers
      /\ f = Main => p # "return"
      /\ f # Main => p # "~Fiber"
      BY DEF PassesOn
<1>8. /\ holder' \in {holder, Nobody} /\ (holder' = f => p \in {"user", "unwind", "notify all"})
      /\ q = "cond" => holder' = holder /\ at[f] \notin {"lock", "relock"}
      BY DEF Releases
<1>CoreType. CoreType'
      BY <1>2, <1>4, <1>5, <1>6, <1>7 DEF CoreType
<1>FlagType. FlagType'
      BY <1>4, <1>7 DEF FlagType
<1>GroupType. GroupType'
      BY <1>4 DEF GroupType
<1>SyncType. SyncType'
      BY <1>2, <1>8 DEF SyncType, Queues
<1>Owner. Owner'
      BY <1>4, <1>6, <1>7 DEF Owner, FI!Alive
<1>WillBeThrown. WillBeThrown'
      BY <1>4, <1>5, <1>7 DEF WillBeThrown
<1>Holds. Holds'
      BY <1>4, <1>5, <1>6, <1>8 DEF Holds, Closing, SyncType
<1>Baton. Baton'
  <2> SUFFICES ASSUME FI!ToSet(waiters_'["lockers"]) # {}, holder' = Nobody
               PROVE  \E g \in Fiber : /\ at'[g] \in {"lock", "relock"} /\ wakeup'[g]
                                       /\ g \in FI!ToSet(run_queue_') \/ this_fiber' = g
      BY DEF Baton, FI!Linked
  <2>1. CASE q = "lockers"
    <3>1. FI!ToSet(waiters_[q]) # {}
          BY <1>1, <2>1
    <3>2. PICK g \in G : TRUE
          BY <1>1, <3>1
    <3> QED BY <1>1, <1>6, <2>1, <3>2
  <2>2. CASE q = "cond"
    <3>1. FI!ToSet(waiters_["lockers"]) # {} /\ holder = Nobody
          BY <1>1, <1>8, <2>2
    <3>2. PICK g \in Fiber : /\ at[g] \in {"lock", "relock"} /\ wakeup[g]
                             /\ g \in FI!ToSet(run_queue_) \/ this_fiber = g
          BY <3>1 DEF Baton, FI!Linked
    <3>3. g # f /\ at'[g] = at[g] /\ wakeup'[g] /\ (g \in FI!ToSet(run_queue_') \/ this_fiber' = g)
          BY <1>1, <1>4, <1>6, <1>8, <2>2, <3>2
    <3> QED BY <3>2, <3>3
  <2> QED BY <1>4, <2>1, <2>2
<1> QED BY <1>3, <1>CoreType, <1>FlagType, <1>GroupType, <1>SyncType, <1>Owner, <1>WillBeThrown,
           <1>Holds, <1>Baton

\* What the operations other than Leave have in common.
LEMMA MovesOn ==
  ASSUME FibInv, NEW f \in Fiber, NEW q \in Queues, NEW p,
         this_fiber = f, phase[f] = "run", FI!NotifyOne(q),
         at[f] \in {"user", "pass", "notify all"} \/ (at[f] \in {"lock", "relock", "cond"} /\ wakeup[f]),
         p \in {"user", "unwind", "pass", "notify all", "cond enqueue"},
         at' = [at EXCEPT ![f] = p], phase' = [phase EXCEPT ![f] = "run"],
         UNCHANGED <<this_fiber, now_, timers, state_, exc, FI!flags, FI!group>>
  PROVE  PassesOn(f, q, p)
<1> USE DEF FibInv, Typing
<1>1. /\ at[f] \in {"user", "unwind", "pass", "notify all", "lock", "relock", "cond"}
      /\ p \in {"user", "unwind", "pass", "notify all", "cond enqueue", "~Fiber", "return"}
      /\ p # "return" /\ p # "~Fiber" /\ p \notin Closing
      BY DEF Closing
<1>2. \A r \in Queues : f \notin FI!ToSet(waiters_[r])
      BY DEF Queues, Waits
<1>3. /\ UNCHANGED <<this_fiber, state_, timedout_, canceled_, expired, FI!group>>
      /\ timers' = timers /\ exc' = exc /\ cancel_guarded_' = cancel_guarded_
      BY DEF FI!flags
<1>4. \A t \in timers : t.fiber = f => t.kind = "timeout"
      BY DEF Timers, CoreType
<1>5. cancel_guarded_ \in [Fiber -> BOOLEAN]
      BY DEF FlagType
<1>6. exc \in [Fiber -> {"none", "canceled", "timeout", "return", "error"}]
      BY DEF CoreType
<1> HIDE DEF FibInv, Typing
<1> QED BY <1>1, <1>2, <1>3, <1>4, <1>5, <1>6 DEF PassesOn

\* A step that leaves at and phase alone moves to where the fiber is.
LEMMA Stays ==
  ASSUME FibInv, NEW f \in Fiber, phase[f] = "run", UNCHANGED <<at, phase>>
  PROVE  at' = [at EXCEPT ![f] = at[f]] /\ phase' = [phase EXCEPT ![f] = "run"]
<1>1. at = [g \in Fiber |-> at[g]] /\ phase = [g \in Fiber |-> phase[g]]
      BY DEF FibInv, Typing, CoreType
<1> QED BY <1>1

\* Unlock wakes a locker.
LEMMA UnlockKeeps ==
  ASSUME FibInv, NEW f \in Fiber, FI!Unlock(f)
  PROVE  FibInv'
<1>1. this_fiber = f /\ phase[f] = "run" /\ at[f] = "user" /\ holder = f /\ holder' = Nobody
      BY DEF FI!Unlock, FI!Op, FI!In
<1>2. /\ FI!NotifyOne("lockers") /\ UNCHANGED <<at, phase>>
      /\ UNCHANGED <<this_fiber, now_, timers, state_, exc, FI!flags, FI!group>>
      BY DEF FI!Unlock
<1>3. PassesOn(f, "lockers", "user")
      BY <1>1, <1>2, Stays, MovesOn DEF Queues
<1>4. Releases(f, "lockers", "user")
      BY <1>1, FC DEF Releases, FI!FiberConstants
<1> QED BY <1>3, <1>4, PassInv

\* CondVar::Wait unlocks the mutex first.
LEMMA CondWaitKeeps ==
  ASSUME FibInv, NEW f \in Fiber, FI!CondWait(f)
  PROVE  FibInv'
<1>1. this_fiber = f /\ phase[f] = "run" /\ at[f] = "user" /\ holder = f /\ holder' = Nobody
      BY DEF FI!CondWait, FI!Op, FI!In
<1>2. /\ FI!NotifyOne("lockers")
      /\ at' = [at EXCEPT ![f] = "cond enqueue"] /\ phase' = [phase EXCEPT ![f] = "run"]
      /\ UNCHANGED <<this_fiber, now_, timers, state_, exc, FI!flags, FI!group>>
      BY DEF FI!CondWait, FI!Goto
<1>3. PassesOn(f, "lockers", "cond enqueue")
      BY <1>1, <1>2, MovesOn DEF Queues
<1>4. Releases(f, "lockers", "cond enqueue")
      BY <1>1, FC DEF Releases, FI!FiberConstants
<1> QED BY <1>3, <1>4, PassInv

\* The handler of CondVar::Wait passes the notification on.
LEMMA CondPassKeeps ==
  ASSUME FibInv, NEW f \in Fiber, FI!CondPass(f)
  PROVE  FibInv'
<1>1. this_fiber = f /\ phase[f] = "run" /\ at[f] = "pass" /\ holder' = holder
      BY DEF FI!CondPass, FI!In
<1>2. /\ FI!NotifyOne("cond")
      /\ at' = [at EXCEPT ![f] = "unwind"] /\ phase' = [phase EXCEPT ![f] = "run"]
      /\ UNCHANGED <<this_fiber, now_, timers, state_, exc, FI!flags, FI!group>>
      BY DEF FI!CondPass, FI!Goto
<1>3. PassesOn(f, "cond", "unwind")
      BY <1>1, <1>2, MovesOn DEF Queues
<1>4. Releases(f, "cond", "unwind")
      BY <1>1 DEF Releases
<1> QED BY <1>3, <1>4, PassInv

\* CondVar::NotifyOne
LEMMA CondNotifyOneKeeps ==
  ASSUME FibInv, NEW f \in Fiber, FI!CondNotifyOne(f)
  PROVE  FibInv'
<1>1. this_fiber = f /\ phase[f] = "run" /\ at[f] = "user" /\ holder' = holder
      BY DEF FI!CondNotifyOne, FI!Op, FI!In
<1>2. /\ FI!NotifyOne("cond") /\ UNCHANGED <<at, phase>>
      /\ UNCHANGED <<this_fiber, now_, timers, state_, exc, FI!flags, FI!group>>
      BY DEF FI!CondNotifyOne
<1>3. PassesOn(f, "cond", "user")
      BY <1>1, <1>2, Stays, MovesOn DEF Queues
<1>4. Releases(f, "cond", "user")
      BY <1>1 DEF Releases
<1> QED BY <1>3, <1>4, PassInv

\* A turn of CondVar::NotifyAll.
LEMMA CondNotifyAllKeeps ==
  ASSUME FibInv, NEW f \in Fiber, FI!CondNotifyAll(f)
  PROVE  FibInv'
<1>1. /\ this_fiber = f /\ phase[f] = "run" /\ at[f] \in {"user", "notify all"}
      /\ holder' = holder
      BY DEF FI!CondNotifyAll, FI!Op, FI!In
<1>2. PICK p \in {"user", "notify all"} : at' = [at EXCEPT ![f] = p]
      BY DEF FI!CondNotifyAll, FI!Goto
<1>3. /\ FI!NotifyOne("cond") /\ phase' = [phase EXCEPT ![f] = "run"]
      /\ UNCHANGED <<this_fiber, now_, timers, state_, exc, FI!flags, FI!group>>
      BY DEF FI!CondNotifyAll, FI!Goto
<1>4. PassesOn(f, "cond", p)
      BY <1>1, <1>2, <1>3, MovesOn DEF Queues
<1>5. Releases(f, "cond", p)
      BY <1>1 DEF Releases
<1> QED BY <1>4, <1>5, PassInv

-----------------------------------------------------------------------------
\* A fiber that runs enters a wait queue: WaitQueue::Wait up to its Park.  It is not the
\* one that was woken for the mutex, unless the mutex is held.
StandsIn(f, q, w) ==
    /\ this_fiber = f /\ phase[f] = "run" /\ holder # f
    /\ at[f] \in {"user", "lock", "relock", "cond", "cond enqueue"}
    /\ FI!Enqueue(f, q, w)
    /\ \/ q = "cond" /\ w = "cond" /\ at[f] = "cond enqueue"
       \/ q = "lockers" /\ w \in {"lock", "relock"} /\ holder # Nobody
    /\ UNCHANGED <<run_queue_, this_fiber, now_, timers, state_, exc, FI!flags, FI!group, holder>>

\* The whole invariant survives it.
LEMMA StandsInv ==
  ASSUME FibInv, NEW f \in Fiber, NEW q, NEW w, StandsIn(f, q, w)
  PROVE  FibInv'
<1>10. /\ \A g : g \in FI!ToSet(run_queue_) => g \in Fiber
       /\ \A g : g \in FI!ToSet(waiters_["lockers"]) => g \in Fiber
       /\ \A g : g \in FI!ToSet(waiters_["cond"]) => g \in Fiber
      BY FibersInLists
<1> USE FC DEF FibInv, Typing, FI!FiberConstants
<1>1. /\ this_fiber = f /\ phase[f] = "run" /\ holder # f
      /\ at[f] \in {"user", "lock", "relock", "cond", "cond enqueue"}
      /\ \/ q = "cond" /\ w = "cond" /\ at[f] = "cond enqueue"
         \/ q = "lockers" /\ w \in {"lock", "relock"} /\ holder # Nobody
      /\ UNCHANGED <<run_queue_, this_fiber, timers, state_, exc, timedout_, canceled_, cancel_guarded_,
                     expired, fibers_, joiner_, waiter_, first_error_, object, joining, holder>>
      BY DEF StandsIn, FI!group, FI!flags
<1>2. FI!Enqueue(f, q, w)
      BY DEF StandsIn
<1>3. /\ waiters_' \in [Queues -> Seq(Fiber)] /\ \A r \in Queues : Distinct(waiters_'[r])
      /\ \A r \in Queues : FI!ToSet(waiters_'[r]) = IF r = q THEN FI!ToSet(waiters_[r]) \cup {f}
                                                         ELSE FI!ToSet(waiters_[r]) \ {f}
  <2>1. q \in Queues
        BY <1>1 DEF Queues
  <2> QED BY <1>2, <2>1, EnqueueEffect
<1>4. /\ q = "cond" => /\ FI!ToSet(waiters_'["cond"]) = FI!ToSet(waiters_["cond"]) \cup {f}
                       /\ FI!ToSet(waiters_'["lockers"]) = FI!ToSet(waiters_["lockers"]) \ {f}
      /\ q = "lockers" => /\ FI!ToSet(waiters_'["lockers"]) = FI!ToSet(waiters_["lockers"]) \cup {f}
                          /\ FI!ToSet(waiters_'["cond"]) = FI!ToSet(waiters_["cond"]) \ {f}
      BY <1>3 DEF Queues
<1>5. /\ at' = [at EXCEPT ![f] = w] /\ phase' = [phase EXCEPT ![f] = "enter"]
      /\ wakeup' = [wakeup EXCEPT ![f] = FALSE]
      BY <1>2 DEF FI!Enqueue, FI!Goto
<1>6. w \in Places /\ w \in Parking /\ w \notin Closing /\ w \in {"lock", "relock", "cond"}
      BY <1>1 DEF Places, Parking, Closing
<1>7. /\ at' \in [Fiber -> Places] /\ at'[f] = w /\ \A g \in Fiber : g # f => at'[g] = at[g]
      BY <1>5, <1>6 DEF CoreType
<1>8. /\ phase' \in [Fiber -> {"start", "run", "enter", "parked", "back", "over"}]
      /\ phase'[f] = "enter" /\ \A g \in Fiber : g # f => phase'[g] = phase[g]
      BY <1>5 DEF CoreType
<1>9. /\ wakeup' \in [Fiber -> BOOLEAN] /\ ~wakeup'[f]
      /\ \A g \in Fiber : g # f => wakeup'[g] = wakeup[g]
      BY <1>5 DEF SyncType
<1>CoreType. CoreType'
      BY <1>1, <1>7, <1>8 DEF CoreType
<1>FlagType. FlagType'
      BY <1>1 DEF FlagType
<1>GroupType. GroupType'
      BY <1>1 DEF GroupType
<1>SyncType. SyncType'
      BY <1>1, <1>3, <1>9 DEF SyncType, Queues
<1>Phases. Phases'
  <2>1. ASSUME NEW g \in Fiber
        PROVE  /\ this_fiber' = g <=> phase'[g] \in {"run", "enter", "back"}
               /\ phase'[g] = "over" <=> state_'[g] \in {"Dead", "deleted"}
               /\ state_'[g] = "none" => phase'[g] = "start" /\ g # Main
        BY <1>1, <1>8 DEF Phases
  <2>2. ASSUME NEW g \in Fiber
        PROVE  /\ phase'[g] = "start" => at'[g] = "user"
               /\ phase'[g] \in {"enter", "parked", "back"} => at'[g] \in Parking
               /\ phase'[g] = "over" => at'[g] = "return"
        BY <1>6, <1>7, <1>8 DEF Phases
  <2> QED BY <2>1, <2>2 DEF Phases
<1>12. f \notin FI!ToSet(run_queue_)
      BY <1>1 DEF Runnable
<1>Runnable. Runnable'
  <2>1. \A g \in FI!ToSet(run_queue_) : g \in Fiber /\ g # f /\ phase'[g] = phase[g] /\ at'[g] = at[g]
        BY <1>7, <1>8, <1>10, <1>12
  <2>2. \A g : FI!Alive(g)' <=> FI!Alive(g)
        BY <1>1 DEF FI!Alive
  <2> QED BY <1>1, <2>1, <2>2 DEF Runnable
<1>Waits. Waits'
      BY <1>1, <1>4, <1>7, <1>8, <1>9, <1>10 DEF Waits
<1>Owner. Owner'
      BY <1>1, <1>6, <1>7 DEF Owner, FI!Alive
<1>Reasons. Reasons'
      BY <1>1, <1>6, <1>7, <1>8 DEF Reasons, Roused, FI!Linked
<1>Timers. Timers'
  <2> SUFFICES ASSUME NEW t \in timers
               PROVE  /\ phase'[t.fiber] \notin {"start", "over"}
                      /\ t.kind = "sleep" => at'[t.fiber] = "sleep"
                      /\ t.kind = "timeout" => at'[t.fiber] \notin Closing
      BY <1>1 DEF Timers
  <2>1. t.fiber \in Fiber
        BY DEF CoreType
  <2>2. /\ phase[t.fiber] \notin {"start", "over"}
        /\ t.kind = "sleep" => at[t.fiber] = "sleep"
        /\ t.kind = "timeout" => at[t.fiber] \notin Closing
        BY DEF Timers
  <2>3. at[f] # "sleep"
        BY <1>1
  <2> QED BY <1>6, <1>7, <1>8, <2>1, <2>2, <2>3
<1>WillBeThrown. WillBeThrown'
      BY <1>1, <1>8 DEF WillBeThrown
<1>Holds. Holds'
      BY <1>1, <1>7, <1>8 DEF Holds, SyncType
<1>Baton. Baton'
      BY <1>1, <1>4, <1>7, <1>9 DEF Baton, FI!Linked
<1>Wakers. Wakers'
      BY <1>1, <1>4, <1>6, <1>7, <1>8 DEF Wakers, Sleeping, FI!Linked, FI!Alive
<1> QED BY <1>CoreType, <1>FlagType, <1>GroupType, <1>SyncType, <1>Phases, <1>Runnable, <1>Waits,
           <1>Owner, <1>Reasons, <1>Timers, <1>WillBeThrown, <1>Holds, <1>Baton, <1>Wakers

\* A fiber that runs leaves the queues: with the mutex, or with an exception and no
\* wake-up to pass on.
Departs(f, p) ==
    /\ this_fiber = f /\ phase[f] = "run" /\ holder # f
    /\ at[f] \in {"user", "lock", "relock", "cond"}
    /\ waiters_' = FI!Without(f) /\ wakeup' = wakeup
    /\ at' = [at EXCEPT ![f] = p] /\ phase' = [phase EXCEPT ![f] = "run"]
    /\ \/ holder = Nobody /\ holder' = f /\ p = "user"
       \/ holder' = holder /\ ~wakeup[f] /\ p \in {"unwind", "pass"}
    /\ UNCHANGED <<run_queue_, this_fiber, now_, timers, state_, exc, FI!flags, FI!group>>

\* The whole invariant survives it.
LEMMA DepartsInv ==
  ASSUME FibInv, NEW f \in Fiber, NEW p, Departs(f, p)
  PROVE  FibInv'
<1>10. /\ \A g : g \in FI!ToSet(run_queue_) => g \in Fiber
       /\ \A g : g \in FI!ToSet(waiters_["lockers"]) => g \in Fiber
       /\ \A g : g \in FI!ToSet(waiters_["cond"]) => g \in Fiber
      BY FibersInLists
<1> USE FC DEF FibInv, Typing, FI!FiberConstants
<1>1. /\ this_fiber = f /\ phase[f] = "run" /\ holder # f
      /\ at[f] \in {"user", "lock", "relock", "cond"} /\ wakeup' = wakeup
      /\ \/ holder = Nobody /\ holder' = f /\ p = "user"
         \/ holder' = holder /\ ~wakeup[f] /\ p \in {"unwind", "pass"}
      /\ UNCHANGED <<run_queue_, this_fiber, timers, state_, exc, timedout_, canceled_, cancel_guarded_,
                     expired, fibers_, joiner_, waiter_, first_error_, object, joining>>
      BY DEF Departs, FI!group, FI!flags
<1>2. waiters_' = FI!Without(f)
      BY DEF Departs
<1>3. /\ waiters_' \in [Queues -> Seq(Fiber)] /\ \A r \in Queues : Distinct(waiters_'[r])
      /\ \A r \in Queues : FI!ToSet(waiters_'[r]) = FI!ToSet(waiters_[r]) \ {f}
      BY <1>2, LeaveEffect
<1>4. /\ FI!ToSet(waiters_'["cond"]) = FI!ToSet(waiters_["cond"]) \ {f}
      /\ FI!ToSet(waiters_'["lockers"]) = FI!ToSet(waiters_["lockers"]) \ {f}
      BY <1>3 DEF Queues
<1>6. p \in Places /\ p \in {"user", "unwind", "pass"}
      BY <1>1 DEF Places
<1>7. /\ at' \in [Fiber -> Places] /\ at'[f] = p /\ \A g \in Fiber : g # f => at'[g] = at[g]
      BY <1>6 DEF CoreType, Departs
<1>8. /\ phase' \in [Fiber -> {"start", "run", "enter", "parked", "back", "over"}]
      /\ \A g \in Fiber : phase'[g] = phase[g]
      BY <1>1 DEF CoreType, Departs
<1>CoreType. CoreType'
      BY <1>1, <1>7, <1>8 DEF CoreType
<1>FlagType. FlagType'
      BY <1>1 DEF FlagType
<1>GroupType. GroupType'
      BY <1>1 DEF GroupType
<1>SyncType. SyncType'
      BY <1>1, <1>3 DEF SyncType, Queues
<1>Phases. Phases'
      BY <1>1, <1>6, <1>7, <1>8 DEF Phases, Parking, CoreType
<1>12. f \notin FI!ToSet(run_queue_)
      BY <1>1 DEF Runnable
<1>Runnable. Runnable'
  <2>1. \A g \in FI!ToSet(run_queue_) : g \in Fiber /\ g # f /\ phase'[g] = phase[g] /\ at'[g] = at[g]
        BY <1>7, <1>8, <1>10, <1>12
  <2>2. \A g : FI!Alive(g)' <=> FI!Alive(g)
        BY <1>1 DEF FI!Alive
  <2> QED BY <1>1, <2>1, <2>2 DEF Runnable
<1>Waits. Waits'
      BY <1>1, <1>4, <1>6, <1>7, <1>8, <1>10 DEF Waits
<1>Owner. Owner'
      BY <1>1, <1>6, <1>7 DEF Owner, FI!Alive
<1>Reasons. Reasons'
      BY <1>1, <1>6, <1>7, <1>8 DEF Reasons, Roused, FI!Linked
<1>Timers. Timers'
      BY <1>1, <1>6, <1>7, <1>8 DEF Timers, CoreType, Closing
<1>WillBeThrown. WillBeThrown'
      BY <1>1, <1>8 DEF WillBeThrown
<1>Holds. Holds'
      BY <1>1, <1>6, <1>7, <1>8 DEF Holds, SyncType, Phases, Closing
<1>Baton. Baton'
      BY <1>1, <1>4, <1>7 DEF Baton, FI!Linked
<1>Wakers. Wakers'
      BY <1>1, <1>4, <1>6, <1>7, <1>8 DEF Wakers, Sleeping, FI!Linked, FI!Alive
<1> QED BY <1>CoreType, <1>FlagType, <1>GroupType, <1>SyncType, <1>Phases, <1>Runnable, <1>Waits,
           <1>Owner, <1>Reasons, <1>Timers, <1>WillBeThrown, <1>Holds, <1>Baton, <1>Wakers

\* The loop of Mutex::Lock.
LEMMA LockLoopKeeps ==
  ASSUME FibInv, NEW f \in Fiber, NEW w \in {"lock", "relock"}, FI!LockLoop(f, w),
         this_fiber = f, phase[f] = "run", holder # f, at[f] \in {"user", "lock", "relock", "cond"},
         UNCHANGED <<run_queue_, this_fiber, now_, timers, state_, exc, FI!flags, FI!group>>
  PROVE  FibInv'
<1>1. CASE holder = Nobody
  <2>1. /\ holder' = f /\ waiters_' = FI!Without(f) /\ wakeup' = wakeup
        /\ at' = [at EXCEPT ![f] = "user"] /\ phase' = [phase EXCEPT ![f] = "run"]
        BY <1>1 DEF FI!LockLoop, FI!Goto
  <2>2. Departs(f, "user")
        BY <1>1, <2>1 DEF Departs
  <2> QED BY <2>2, DepartsInv
<1>2. CASE holder # Nobody
  <2>1. FI!Enqueue(f, "lockers", w) /\ holder' = holder
        BY <1>2 DEF FI!LockLoop
  <2>2. at[f] \in {"user", "lock", "relock", "cond", "cond enqueue"}
        OBVIOUS
  <2>3. StandsIn(f, "lockers", w)
        BY <1>2, <2>1, <2>2 DEF StandsIn
  <2> QED BY <2>3, StandsInv
<1> QED BY <1>1, <1>2

\* Mutex::Lock
LEMMA LockKeeps ==
  ASSUME FibInv, NEW f \in Fiber, FI!Lock(f)
  PROVE  FibInv'
<1>1. this_fiber = f /\ phase[f] = "run" /\ at[f] = "user" /\ holder # f
      BY DEF FI!Lock, FI!Op, FI!In
<1>2. /\ FI!LockLoop(f, "lock")
      /\ UNCHANGED <<run_queue_, this_fiber, now_, timers, state_, exc, FI!flags, FI!group>>
      BY DEF FI!Lock
<1> QED BY <1>1, <1>2, LockLoopKeeps

\* Back from lockers_.Wait().
LEMMA LockReturnKeeps ==
  ASSUME FibInv, NEW f \in Fiber, FI!LockReturn(f)
  PROVE  FibInv'
<1>1. /\ this_fiber = f /\ phase[f] = "run" /\ at[f] \in {"lock", "relock"}
      /\ UNCHANGED <<this_fiber, now_, timers, state_, exc, FI!flags, FI!group>>
      BY DEF FI!LockReturn, FI!In
<1>2. holder # f
  <2>1. holder # Nobody => at[holder] \notin {"lock", "relock"}
        BY DEF FibInv, Holds
  <2> QED BY <1>1, <2>1, FC DEF FI!FiberConstants
<1>3. CASE exc[f] = "none"
  <2>1. FI!LockLoop(f, at[f]) /\ run_queue_' = run_queue_
        BY <1>3 DEF FI!LockReturn
  <2> QED BY <1>1, <1>2, <2>1, LockLoopKeeps
<1>4. CASE exc[f] # "none"
  <2>1. /\ holder' = holder /\ phase' = [phase EXCEPT ![f] = "run"]
        /\ IF wakeup[f] THEN FI!NotifyOne("lockers")
           ELSE waiters_' = FI!Without(f) /\ UNCHANGED <<run_queue_, wakeup>>
        BY <1>4 DEF FI!LockReturn, FI!Goto
  <2>2. PICK p \in {"unwind", "pass"} : at' = [at EXCEPT ![f] = p]
        BY <1>4 DEF FI!LockReturn, FI!Goto
  <2>3. CASE wakeup[f]
    <3>1. PassesOn(f, "lockers", p)
          BY <1>1, <2>1, <2>2, <2>3, MovesOn DEF Queues
    <3>2. Releases(f, "lockers", p)
          BY <1>2, <2>1 DEF Releases
    <3> QED BY <3>1, <3>2, PassInv
  <2>4. CASE ~wakeup[f]
    <3>1. Departs(f, p)
          BY <1>1, <1>2, <2>1, <2>2, <2>4 DEF Departs
    <3> QED BY <3>1, DepartsInv
  <2> QED BY <2>3, <2>4
<1> QED BY <1>3, <1>4

\* waiters_.Wait() of CondVar::Wait.
LEMMA CondEnqueueKeeps ==
  ASSUME FibInv, NEW f \in Fiber, FI!CondEnqueue(f)
  PROVE  FibInv'
<1>1. /\ this_fiber = f /\ phase[f] = "run" /\ at[f] = "cond enqueue" /\ FI!Enqueue(f, "cond", "cond")
      /\ UNCHANGED <<run_queue_, this_fiber, now_, timers, state_, exc, FI!flags, FI!group, holder>>
      BY DEF FI!CondEnqueue, FI!In
<1>2. holder # f
  <2>1. holder # Nobody => at[holder] # "cond enqueue"
        BY DEF FibInv, Holds
  <2> QED BY <1>1, <2>1, FC DEF FI!FiberConstants
<1>3. StandsIn(f, "cond", "cond")
      BY <1>1, <1>2 DEF StandsIn
<1> QED BY <1>3, StandsInv

\* Back from waiters_.Wait() of CondVar::Wait.
LEMMA CondReturnKeeps ==
  ASSUME FibInv, NEW f \in Fiber, FI!CondReturn(f)
  PROVE  FibInv'
<1>1. /\ this_fiber = f /\ phase[f] = "run" /\ at[f] = "cond"
      /\ UNCHANGED <<this_fiber, now_, timers, state_, exc, FI!flags, FI!group>>
      BY DEF FI!CondReturn, FI!In
<1>2. holder # f
  <2>1. holder # Nobody => at[holder] # "cond"
        BY DEF FibInv, Holds
  <2> QED BY <1>1, <2>1, FC DEF FI!FiberConstants
<1>3. CASE exc[f] = "none"
  <2>1. FI!LockLoop(f, "relock") /\ run_queue_' = run_queue_
        BY <1>3 DEF FI!CondReturn
  <2> QED BY <1>1, <1>2, <2>1, LockLoopKeeps
<1>4. CASE exc[f] # "none"
  <2>1. /\ holder' = holder /\ phase' = [phase EXCEPT ![f] = "run"]
        /\ at' = [at EXCEPT ![f] = "unwind"]
        /\ IF wakeup[f] THEN FI!NotifyOne("cond")
           ELSE waiters_' = FI!Without(f) /\ UNCHANGED <<run_queue_, wakeup>>
        BY <1>4 DEF FI!CondReturn, FI!Goto
  <2>2. CASE wakeup[f]
    <3>1. PassesOn(f, "cond", "unwind")
          BY <1>1, <2>1, <2>2, MovesOn DEF Queues
    <3>2. Releases(f, "cond", "unwind")
          BY <1>1, <1>2, <2>1 DEF Releases
    <3> QED BY <3>1, <3>2, PassInv
  <2>3. CASE ~wakeup[f]
    <3>1. Departs(f, "unwind")
          BY <1>1, <1>2, <2>1, <2>3 DEF Departs
    <3> QED BY <3>1, DepartsInv
  <2> QED BY <2>2, <2>3
<1> QED BY <1>3, <1>4

-----------------------------------------------------------------------------
\* The end of a scope: the guards are destroyed, and the exception is caught or goes on.
LEMMA LeaveKeeps ==
  ASSUME FibInv, NEW f \in Fiber, FI!Leave(f)
  PROVE  FibInv'
<1>10. /\ \A g : g \in FI!ToSet(run_queue_) => g \in Fiber
       /\ \A g : g \in FI!ToSet(waiters_["lockers"]) => g \in Fiber
       /\ \A g : g \in FI!ToSet(waiters_["cond"]) => g \in Fiber
      BY FibersInLists
<1>1. /\ this_fiber = f /\ phase[f] = "run" /\ at[f] = "unwind"
      /\ UNCHANGED <<this_fiber, state_, timedout_, canceled_, expired, FI!group>>
      /\ cancel_guarded_' = [cancel_guarded_ EXCEPT ![f] = FALSE]
      /\ timers' = {t \in timers : t.fiber # f \/ t.kind # "timeout"}
      /\ phase' = [phase EXCEPT ![f] = "run"]
      BY DEF FI!Leave, FI!In, FI!DropTimeout, FI!Goto
<1>2. PICK p \in {"user", "~Fiber", "return"} :
         /\ at' = [at EXCEPT ![f] = p]
         /\ f = Main => p # "return"
         /\ f # Main => p # "~Fiber"
         /\ exc' = exc \/ exc' = [exc EXCEPT ![f] = "none"]
  <2>1. CASE exc' = [exc EXCEPT ![f] = "none"] /\ FI!Goto(f, "user", "run")
        BY <2>1 DEF FI!Goto
  <2>2. CASE exc' = exc /\ FI!Goto(f, "~Fiber", "run") /\ f = Main
        BY <2>2 DEF FI!Goto
  <2>3. CASE exc' = exc /\ FI!Goto(f, "return", "run") /\ f # Main
        BY <2>3 DEF FI!Goto
  <2> QED BY <2>1, <2>2, <2>3 DEF FI!Leave
<1>3. /\ cancel_guarded_' \in [Fiber -> BOOLEAN]
      /\ \A g \in Fiber : g # f => cancel_guarded_'[g] = cancel_guarded_[g]
      BY <1>1 DEF FibInv, Typing, FlagType
<1>4. /\ exc' \in [Fiber -> {"none", "canceled", "timeout", "return", "error"}]
      /\ \A g \in Fiber : g # f => exc'[g] = exc[g]
      BY <1>2 DEF FibInv, Typing, CoreType
<1>5. \A t \in timers : t.fiber = f => t.kind = "timeout"
      BY <1>1 DEF FibInv, Typing, CoreType, Timers
<1>6. /\ \A t \in timers' : t \in timers
      /\ \A t \in timers : t \in timers' \/ t.fiber = f
      /\ \A t \in timers' : t.fiber # f
      BY <1>1, <1>5
<1>7. CASE holder = f
  <2>1. holder' = Nobody /\ FI!NotifyOne("lockers")
        BY <1>7 DEF FI!Leave
  <2>2. \A r \in Queues : f \notin FI!ToSet(waiters_[r])
        BY <1>1 DEF Queues, FibInv, Waits
  <2>3. /\ at[f] \in {"user", "unwind", "pass", "notify all", "lock", "relock", "cond"}
        /\ p \in {"user", "unwind", "pass", "notify all", "cond enqueue", "~Fiber", "return"}
        /\ "lockers" \in Queues
        BY <1>1 DEF Queues
  <2>4. PassesOn(f, "lockers", p)
        BY <1>1, <1>2, <1>3, <1>4, <1>6, <2>1, <2>2, <2>3 DEF PassesOn
  <2>5. Releases(f, "lockers", p)
        BY <2>1, FC DEF Releases, FI!FiberConstants
  <2> QED BY <2>4, <2>5, PassInv
<1>8. CASE holder # f
  <2> USE FC DEF FibInv, Typing, FI!FiberConstants
  <2>1. UNCHANGED <<holder, waiters_, wakeup, run_queue_>>
        BY <1>8 DEF FI!Leave, FI!sync
  <2>2. UNCHANGED <<this_fiber, state_, timedout_, canceled_, expired, fibers_, joiner_, waiter_,
                    first_error_, object, joining>>
        BY <1>1 DEF FI!group
  <2>3. p \in Places
        BY DEF Places
  <2>4. /\ at' \in [Fiber -> Places] /\ at'[f] = p /\ \A g \in Fiber : g # f => at'[g] = at[g]
        BY <1>2, <2>3 DEF CoreType
  <2>5. /\ phase' \in [Fiber -> {"start", "run", "enter", "parked", "back", "over"}]
        /\ \A g \in Fiber : phase'[g] = phase[g]
        BY <1>1 DEF CoreType
  <2>6. f \notin FI!ToSet(run_queue_) /\ f \notin FI!ToSet(waiters_["lockers"]) /\ f \notin FI!ToSet(waiters_["cond"])
        BY <1>1 DEF Runnable, Waits
  <2>CoreType. CoreType'
        BY <1>4, <1>6, <2>1, <2>2, <2>4, <2>5 DEF CoreType
  <2>FlagType. FlagType'
        BY <1>3, <2>2 DEF FlagType
  <2>GroupType. GroupType'
        BY <2>2 DEF GroupType
  <2>SyncType. SyncType'
        BY <2>1 DEF SyncType
  <2>Phases. Phases'
        BY <1>1, <2>2, <2>4, <2>5 DEF Phases, CoreType
  <2>Runnable. Runnable'
        BY <1>10, <2>1, <2>2, <2>4, <2>5, <2>6 DEF Runnable, FI!Alive
  <2>Waits. Waits'
        BY <1>10, <2>1, <2>4, <2>5, <2>6 DEF Waits
  <2>Owner. Owner'
        BY <1>1, <1>2, <1>3, <2>2, <2>4 DEF Owner, FI!Alive
  <2>Reasons. Reasons'
        BY <1>1, <1>2, <1>3, <1>4, <2>1, <2>2, <2>4, <2>5 DEF Reasons, Roused, FI!Linked
  <2>Timers. Timers'
        BY <1>6, <2>4, <2>5 DEF Timers, CoreType
  <2>WillBeThrown. WillBeThrown'
        BY <1>1, <1>3, <2>2, <2>5 DEF WillBeThrown
  <2>Holds. Holds'
        BY <1>8, <2>1, <2>2, <2>4, <2>5 DEF Holds, SyncType
  <2>Baton. Baton'
    <3>1. \A g \in Fiber : at[g] \in {"lock", "relock"} => at'[g] = at[g]
          BY <1>1, <2>4
    <3> QED BY <2>1, <2>2, <3>1 DEF Baton, FI!Linked
  <2>Wakers. Wakers'
    <3>1. \A g \in Fiber : Sleeping(g)' => g # f /\ Sleeping(g) /\ at'[g] = at[g]
          BY <1>1, <2>1, <2>4, <2>5 DEF Sleeping, FI!Linked
    <3>2. \A g \in Fiber : g # f /\ (\E t \in timers : t.fiber = g /\ t.kind = "sleep") =>
                               \E t \in timers' : t.fiber = g /\ t.kind = "sleep"
          BY <1>6
    <3> QED BY <2>1, <2>2, <2>4, <2>5, <3>1, <3>2 DEF Wakers, FI!Linked, FI!Alive
  <2> QED BY <2>CoreType, <2>FlagType, <2>GroupType, <2>SyncType, <2>Phases, <2>Runnable, <2>Waits,
             <2>Owner, <2>Reasons, <2>Timers, <2>WillBeThrown, <2>Holds, <2>Baton, <2>Wakers
<1> QED BY <1>7, <1>8

\* A timer that is due.
LEMMA ExpireKeeps ==
  ASSUME FibInv, FI!Expire
  PROVE  FibInv'
<1>10. /\ \A g : g \in FI!ToSet(run_queue_) => g \in Fiber
       /\ \A g : g \in FI!ToSet(waiters_["lockers"]) => g \in Fiber
       /\ \A g : g \in FI!ToSet(waiters_["cond"]) => g \in Fiber
      BY FibersInLists
<1> USE FC DEF FibInv, Typing, FI!FiberConstants
<1>1. PICK t \in timers :
         /\ timers' = timers \ {t}
         /\ \/ t.kind = "sleep" /\ FI!Unpark(t.fiber) /\ UNCHANGED <<timedout_, expired>>
            \/ t.kind = "timeout" /\ FI!NotifyTimeout(t.fiber)
      BY DEF FI!Expire, FI!Due
<1>2. /\ this_fiber = Nobody
      /\ UNCHANGED <<this_fiber, state_, at, phase, exc, canceled_, cancel_guarded_, fibers_, joiner_,
                     waiter_, first_error_, object, joining, holder, waiters_, wakeup>>
      BY DEF FI!Expire, FI!group, FI!sync
<1> DEFINE g == t.fiber
<1>3. /\ g \in Fiber /\ g # Nobody /\ phase[g] \notin {"start", "over"}
      /\ t.kind = "sleep" => at[g] = "sleep"
      /\ t.kind = "timeout" => at[g] \notin Closing
      BY DEF CoreType, Timers
<1>4. /\ t.kind = "sleep" => FI!Unpark(g) /\ timedout_' = timedout_ /\ expired' = expired
      /\ t.kind = "timeout" =>
            /\ timedout_' = [timedout_ EXCEPT ![g] = TRUE]
            /\ expired' = [expired EXCEPT ![g] = cancel_guarded_[g]]
            /\ cancel_guarded_[g] => run_queue_' = run_queue_
            /\ ~cancel_guarded_[g] => FI!Unpark(g)
      /\ t.kind \in {"sleep", "timeout"}
      BY <1>1 DEF FI!NotifyTimeout
<1> HIDE DEF g
<1>5. phase[g] = "parked" /\ FI!Alive(g)
      BY <1>2, <1>3 DEF CoreType, Phases, FI!Alive
<1>6. /\ run_queue_' \in Seq(Fiber) /\ Distinct(run_queue_')
      /\ \/ FI!ToSet(run_queue_') = FI!ToSet(run_queue_) \cup {g} /\ (t.kind = "timeout" => ~cancel_guarded_[g])
         \/ run_queue_' = run_queue_ /\ t.kind = "timeout" /\ cancel_guarded_[g]
  <2>1. {g} \ {Nobody} = {g}
        BY <1>3
  <2>2. ASSUME FI!Unpark(g)
        PROVE  /\ run_queue_' \in Seq(Fiber) /\ Distinct(run_queue_')
               /\ FI!ToSet(run_queue_') = FI!ToSet(run_queue_) \cup {g}
        BY <1>3, <2>1, <2>2, UnparkEffect
  <2>3. CASE t.kind = "sleep"
        BY <1>4, <2>2, <2>3
  <2>4. CASE t.kind = "timeout" /\ cancel_guarded_[g]
        BY <1>4, <2>4 DEF CoreType
  <2>5. CASE t.kind = "timeout" /\ ~cancel_guarded_[g]
        BY <1>4, <2>2, <2>5
  <2> QED BY <1>4, <2>3, <2>4, <2>5
<1>7. /\ timedout_' \in [Fiber -> BOOLEAN] /\ expired' \in [Fiber -> BOOLEAN]
      /\ \A h \in Fiber : timedout_[h] => timedout_'[h]
      /\ \A h \in Fiber : h # g => timedout_'[h] = timedout_[h] /\ expired'[h] = expired[h]
      /\ t.kind = "timeout" => timedout_'[g] /\ expired'[g] = cancel_guarded_[g]
      /\ t.kind = "sleep" => timedout_'[g] = timedout_[g] /\ expired'[g] = expired[g]
      BY <1>3, <1>4 DEF FlagType
<1>8. /\ \A u \in timers' : u \in timers
      /\ \A u \in timers : u \in timers' \/ u.fiber # g \/ u.kind # "sleep" \/ t.kind = "sleep"
      /\ \A u \in timers : u \in timers' \/ u.fiber = g
      BY <1>1 DEF g
<1>CoreType. CoreType'
      BY <1>2, <1>6, <1>8 DEF CoreType
<1>FlagType. FlagType'
      BY <1>2, <1>7 DEF FlagType
<1>GroupType. GroupType'
      BY <1>2 DEF GroupType
<1>SyncType. SyncType'
      BY <1>2 DEF SyncType
<1>Phases. Phases'
      BY <1>2 DEF Phases
<1>Runnable. Runnable'
      BY <1>2, <1>5, <1>6, <1>10 DEF Runnable, FI!Alive
<1>Waits. Waits'
      BY <1>2 DEF Waits
<1>Owner. Owner'
      BY <1>2 DEF Owner, FI!Alive
<1>Reasons. Reasons'
  <2>1. at[Main] \in {"join", "group"} => (Main \in FI!ToSet(run_queue_') <=> Main \in FI!ToSet(run_queue_))
    <3>1. at[Main] \in {"join", "group"} => g # Main
          BY <1>3, <1>4 DEF Closing
    <3> QED BY <1>6, <3>1
  <2>2. at[Main] = "wait_group" /\ Main \in FI!ToSet(run_queue_') =>
           Main \in FI!ToSet(run_queue_) \/ (timedout_'[Main] /\ ~cancel_guarded_[Main])
        BY <1>3, <1>4, <1>6, <1>7
  <2> QED BY <1>2, <1>7, <2>1, <2>2 DEF Reasons, Roused, FI!Linked
<1>Timers. Timers'
      BY <1>2, <1>8 DEF Timers
<1>WillBeThrown. WillBeThrown'
      BY <1>2, <1>3, <1>4, <1>5, <1>7 DEF WillBeThrown, FlagType
<1>Holds. Holds'
      BY <1>2 DEF Holds
<1>Baton. Baton'
      BY <1>2, <1>6 DEF Baton, FI!Linked
<1>Wakers. Wakers'
  <2>1. \A h \in Fiber : Sleeping(h)' => Sleeping(h) /\ (h # g \/ t.kind = "timeout")
        BY <1>2, <1>4, <1>6 DEF Sleeping, FI!Linked
  <2>2. \A h \in Fiber : (h # g \/ t.kind = "timeout") /\ (\E u \in timers : u.fiber = h /\ u.kind = "sleep") =>
                             \E u \in timers' : u.fiber = h /\ u.kind = "sleep"
        BY <1>8
  <2>3. \A h \in Fiber : FI!Linked(h) => FI!Linked(h)'
        BY <1>6 DEF FI!Linked
  <2> QED BY <1>2, <2>1, <2>2, <2>3 DEF Wakers, FI!Alive
<1> QED BY <1>CoreType, <1>FlagType, <1>GroupType, <1>SyncType, <1>Phases, <1>Runnable, <1>Waits,
           <1>Owner, <1>Reasons, <1>Timers, <1>WillBeThrown, <1>Holds, <1>Baton, <1>Wakers

-----------------------------------------------------------------------------
\* A new fiber c, of the group or of the Fiber object.
Creates(c) ==
    /\ FI!Create(c)
    /\ \/ fibers_' = fibers_ \cup {c} /\ object' = object
       \/ fibers_' = fibers_ /\ object = Nobody /\ object' = c
    /\ at[Main] = "user" \/ (at[Main] # "return" /\ fibers_ # {} /\ object' = object)
    /\ UNCHANGED <<this_fiber, timers, at, phase, exc, FI!flags, joiner_, waiter_, first_error_, joining, FI!sync>>

\* Spawning keeps the invariant: the new fiber is in the run queue.
LEMMA CreatesInv ==
  ASSUME FibInv, NEW c \in Fiber, Creates(c)
  PROVE  FibInv'
<1>10. /\ \A g : g \in FI!ToSet(run_queue_) => g \in Fiber
       /\ \A g : g \in FI!ToSet(waiters_["lockers"]) => g \in Fiber
       /\ \A g : g \in FI!ToSet(waiters_["cond"]) => g \in Fiber
      BY FibersInLists
<1> USE FC DEF FibInv, Typing, FI!FiberConstants
<1>1. /\ UNCHANGED <<this_fiber, timers, at, phase, exc, timedout_, canceled_, cancel_guarded_, expired,
                     joiner_, waiter_, first_error_, joining, holder, waiters_, wakeup>>
      /\ \/ fibers_' = fibers_ \cup {c} /\ object' = object
         \/ fibers_' = fibers_ /\ object = Nobody /\ object' = c
      /\ at[Main] = "user" \/ (at[Main] # "return" /\ fibers_ # {} /\ object' = object)
      BY DEF Creates, FI!flags, FI!sync
<1>2. /\ run_queue_' \in Seq(Fiber) /\ Distinct(run_queue_')
      /\ FI!ToSet(run_queue_') = FI!ToSet(run_queue_) \cup {c}
  <2>1. {c} \ {Nobody} = {c}
        OBVIOUS
  <2> QED BY <2>1, UnparkEffect DEF Creates, FI!Create
<1>3. state_[c] = "none" /\ state_' = [state_ EXCEPT ![c] = "Ready"]
      BY DEF Creates, FI!Create
<1>4. /\ state_' \in [Fiber -> {"none", "Ready", "Running", "Dead", "deleted"}]
      /\ state_'[c] = "Ready" /\ \A g \in Fiber : g # c => state_'[g] = state_[g]
      BY <1>3 DEF CoreType
<1>5. /\ phase[c] = "start" /\ c # Main /\ c \notin fibers_ /\ c # object
  <2>1. phase[c] = "start" /\ c # Main
        BY <1>3 DEF Phases
  <2>2. c \notin fibers_ /\ c # object
        BY <1>3 DEF Owner, FI!Alive
  <2> QED BY <2>1, <2>2
<1>CoreType. CoreType'
      BY <1>1, <1>2, <1>4 DEF CoreType
<1>FlagType. FlagType'
      BY <1>1 DEF FlagType
<1>GroupType. GroupType'
      BY <1>1 DEF GroupType
<1>SyncType. SyncType'
      BY <1>1 DEF SyncType
<1>Phases. Phases'
      BY <1>1, <1>4, <1>5 DEF Phases
<1>Runnable. Runnable'
      BY <1>1, <1>2, <1>4, <1>5, <1>10 DEF Runnable, FI!Alive
<1>Waits. Waits'
      BY <1>1 DEF Waits
<1>Owner. Owner'
  <2>1. /\ Main \notin fibers_' /\ \A g \in fibers_' : FI!Alive(g)'
        BY <1>1, <1>4, <1>5 DEF Owner, FI!Alive, GroupType
  <2>2. object' # Nobody => /\ object' \notin fibers_' \cup {Main}
                            /\ state_'[object'] \in {"Ready", "Running", "Dead"}
        BY <1>1, <1>4, <1>5 DEF Owner, GroupType
  <2>3. /\ at[Main] = "join" => object' # Nobody
        /\ at[Main] \in {"~Group", "group", "return"} => object' = Nobody
        /\ at[Main] = "return" => fibers_' = {}
        BY <1>1 DEF Owner
  <2> QED BY <1>1, <2>1, <2>2, <2>3 DEF Owner
<1>Reasons. Reasons'
  <2>1. Main \in FI!ToSet(run_queue_') <=> Main \in FI!ToSet(run_queue_)
        BY <1>2, <1>5
  <2>2. at[Main] = "join" => state_'[object'] = state_[object]
        BY <1>1, <1>4, <1>5 DEF Owner, GroupType
  <2>3. at[Main] \in {"join", "group", "wait_group"} => fibers_ # {}
        BY <1>1
  <2> QED BY <1>1, <2>1, <2>2, <2>3 DEF Reasons, Roused, FI!Linked
<1>Timers. Timers'
      BY <1>1 DEF Timers
<1>WillBeThrown. WillBeThrown'
      BY <1>1 DEF WillBeThrown
<1>Holds. Holds'
      BY <1>1, <1>4 DEF Holds, SyncType
<1>Baton. Baton'
      BY <1>1, <1>2 DEF Baton, FI!Linked
<1>Wakers. Wakers'
  <2>1. \A g \in Fiber : Sleeping(g)' => Sleeping(g)
        BY <1>1, <1>2 DEF Sleeping, FI!Linked
  <2>2. \A g \in Fiber : phase'[g] = "start" /\ state_'[g] # "none" => FI!Linked(g)'
        BY <1>1, <1>2, <1>4 DEF Wakers, FI!Linked
  <2>3. at[Main] = "join" /\ FI!Alive(object) => FI!Alive(object)'
        BY <1>1, <1>4, <1>5 DEF Owner, FI!Alive, GroupType
  <2>4. fibers_ # {} => fibers_' # {}
        BY <1>1
  <2>5. \A g \in Fiber : at[g] = "join" => g = Main
        BY DEF Owner
  <2> QED BY <1>1, <2>1, <2>2, <2>3, <2>4, <2>5 DEF Wakers
<1> QED BY <1>CoreType, <1>FlagType, <1>GroupType, <1>SyncType, <1>Phases, <1>Runnable, <1>Waits,
           <1>Owner, <1>Reasons, <1>Timers, <1>WillBeThrown, <1>Holds, <1>Baton, <1>Wakers

\* Group::DoSpawn, by Main or by a fiber of the group.
LEMMA SpawnKeeps ==
  ASSUME FibInv, NEW f \in Fiber, FI!Spawn(f)
  PROVE  FibInv'
<1>1. PICK c \in Fiber : FI!Create(c) /\ fibers_' = fibers_ \cup {c}
      BY DEF FI!Spawn
<1>2. /\ object' = object
      /\ UNCHANGED <<this_fiber, timers, at, phase, exc, FI!flags, joiner_, waiter_, first_error_, joining, FI!sync>>
      BY DEF FI!Spawn
<1>3. at[f] = "user" /\ f \in fibers_ \cup {Main}
      BY DEF FI!Spawn, FI!Op, FI!In
<1>4. at[Main] = "user" \/ (at[Main] # "return" /\ fibers_ # {})
      BY <1>3 DEF FibInv, Owner
<1>5. Creates(c)
      BY <1>1, <1>2, <1>4 DEF Creates
<1> QED BY <1>5, CreatesInv

\* Fiber::Fiber
LEMMA NewFiberKeeps ==
  ASSUME FibInv, FI!NewFiber
  PROVE  FibInv'
<1>1. PICK c \in Fiber : FI!Create(c) /\ object' = c
      BY DEF FI!NewFiber
<1>2. /\ object = Nobody /\ fibers_' = fibers_ /\ at[Main] = "user"
      /\ UNCHANGED <<this_fiber, timers, at, phase, exc, FI!flags, joiner_, waiter_, first_error_, joining, FI!sync>>
      BY DEF FI!NewFiber, FI!Op, FI!In
<1>3. Creates(c)
      BY <1>1, <1>2 DEF Creates
<1> QED BY <1>3, CreatesInv

\* Cancel of a fiber that Main has, in a destructor; Main goes on to p.
Cancels(c, p) ==
    /\ this_fiber = Main /\ phase[Main] = "run" /\ FI!Cancel(c)
    /\ c # Main /\ FI!Alive(c)
    /\ at' = [at EXCEPT ![Main] = p]
    /\ \/ /\ at[Main] = "~Fiber" /\ p = "join" /\ c = object /\ object # Nobody
          /\ joining' = Main /\ phase' = [phase EXCEPT ![Main] = "enter"]
          /\ cancel_guarded_' = [cancel_guarded_ EXCEPT ![Main] = TRUE]
       \/ /\ at[Main] = "~Group" /\ p = "~Group" /\ UNCHANGED <<joining, cancel_guarded_>>
          /\ phase' = [phase EXCEPT ![Main] = "run"]
    /\ UNCHANGED <<this_fiber, timers, state_, exc, timedout_, expired, fibers_, joiner_, waiter_,
                   first_error_, object, FI!sync>>

\* The invariant survives it.
LEMMA CancelsInv ==
  ASSUME FibInv, NEW c \in Fiber, NEW p, Cancels(c, p)
  PROVE  FibInv'
<1>10. /\ \A g : g \in FI!ToSet(run_queue_) => g \in Fiber
       /\ \A g : g \in FI!ToSet(waiters_["lockers"]) => g \in Fiber
       /\ \A g : g \in FI!ToSet(waiters_["cond"]) => g \in Fiber
      BY FibersInLists
<1> USE FC DEF FibInv, Typing, FI!FiberConstants
<1>1. /\ this_fiber = Main /\ phase[Main] = "run" /\ c # Main /\ FI!Alive(c)
      /\ \/ at[Main] = "~Fiber" /\ p = "join" /\ c = object /\ object # Nobody /\ joining' = Main
         \/ at[Main] = "~Group" /\ p = "~Group" /\ joining' = joining
      /\ UNCHANGED <<this_fiber, timers, state_, exc, timedout_, expired, fibers_, joiner_, waiter_,
                     first_error_, object, holder, waiters_, wakeup>>
      BY DEF Cancels, FI!sync
<1>2. p \in Places /\ p \in {"join", "~Group"} /\ p \in Closing
      BY <1>1 DEF Places, Closing
<1>3. /\ at' \in [Fiber -> Places] /\ at'[Main] = p /\ \A g \in Fiber : g # Main => at'[g] = at[g]
      BY <1>2 DEF CoreType, Cancels
<1>4. /\ phase' \in [Fiber -> {"start", "run", "enter", "parked", "back", "over"}]
      /\ p = "join" => phase'[Main] = "enter"
      /\ p = "~Group" => phase'[Main] = "run"
      /\ \A g \in Fiber : g # Main => phase'[g] = phase[g]
      BY DEF CoreType, Cancels
<1>5. /\ cancel_guarded_' \in [Fiber -> BOOLEAN]
      /\ p = "join" => cancel_guarded_'[Main]
      /\ \A g \in Fiber : g # Main => cancel_guarded_'[g] = cancel_guarded_[g]
      BY DEF FlagType, Cancels
<1>6. /\ canceled_' \in [Fiber -> BOOLEAN]
      /\ \A g \in Fiber : g # c => canceled_'[g] = canceled_[g]
      /\ canceled_'[c]
      BY DEF FlagType, Cancels, FI!Cancel
<1>7. /\ run_queue_' \in Seq(Fiber) /\ Distinct(run_queue_')
      /\ \/ FI!ToSet(run_queue_') = FI!ToSet(run_queue_)
         \/ FI!ToSet(run_queue_') = FI!ToSet(run_queue_) \cup {c}
  <2>1. {c} \ {Nobody} = {c}
        OBVIOUS
  <2>2. CASE cancel_guarded_[c]
        BY <2>2 DEF Cancels, FI!Cancel, CoreType
  <2>3. CASE ~cancel_guarded_[c]
    <3>1. FI!Unpark(c)
          BY <2>3 DEF Cancels, FI!Cancel
    <3> QED BY <2>1, <3>1, UnparkEffect
  <2> QED BY <2>2, <2>3
<1>8. phase[c] \in {"start", "parked"}
      BY <1>1 DEF Phases, FI!Alive, CoreType
<1>9. Main \notin FI!ToSet(run_queue_)
      BY <1>1 DEF Runnable
<1>11. Main \notin FI!ToSet(waiters_["lockers"]) /\ Main \notin FI!ToSet(waiters_["cond"])
      BY <1>1 DEF Waits
<1>CoreType. CoreType'
      BY <1>1, <1>3, <1>4, <1>7 DEF CoreType
<1>FlagType. FlagType'
      BY <1>1, <1>5, <1>6 DEF FlagType
<1>GroupType. GroupType'
      BY <1>1 DEF GroupType
<1>SyncType. SyncType'
      BY <1>1 DEF SyncType
<1>Phases. Phases'
  <2>1. "join" \in Parking
        BY DEF Parking
  <2> QED BY <1>1, <1>2, <1>3, <1>4, <2>1 DEF Phases
<1>Runnable. Runnable'
      BY <1>1, <1>3, <1>4, <1>7, <1>8, <1>9, <1>10 DEF Runnable, FI!Alive
<1>Waits. Waits'
      BY <1>1, <1>2, <1>3, <1>4, <1>10, <1>11 DEF Waits
<1>Owner. Owner'
      BY <1>1, <1>2, <1>3, <1>5, <1>6 DEF Owner, FI!Alive
<1>Reasons. Reasons'
  <2>1. Main \notin FI!ToSet(run_queue_')
        BY <1>1, <1>7, <1>9
  <2> QED BY <1>2, <1>3, <1>4, <2>1 DEF Reasons, Roused, FI!Linked
<1>Timers. Timers'
  <2>1. \A t \in timers : t.fiber # Main
        BY <1>1 DEF Timers, CoreType, Closing
  <2> QED BY <1>1, <1>3, <1>4, <2>1 DEF Timers, CoreType
<1>WillBeThrown. WillBeThrown'
      BY <1>1, <1>4, <1>5, <1>6 DEF WillBeThrown, FlagType
<1>Holds. Holds'
  <2>1. holder # Main
        BY <1>1 DEF Holds, Closing
  <2> QED BY <1>1, <1>3, <1>4, <2>1 DEF Holds, SyncType
<1>Baton. Baton'
      BY <1>1, <1>3, <1>7 DEF Baton, FI!Linked
<1>Wakers. Wakers'
  <2>1. \A g \in Fiber : g # Main /\ Sleeping(g)' => Sleeping(g)
        BY <1>4, <1>7 DEF Sleeping, FI!Linked
  <2>2. \A g \in Fiber : phase'[g] = "start" /\ state_'[g] # "none" => FI!Linked(g)'
        BY <1>1, <1>2, <1>3, <1>4, <1>7 DEF Wakers, FI!Linked
  <2>3. Sleeping(Main)' => at'[Main] = "join" /\ FI!Alive(object)'
        BY <1>1, <1>2, <1>3, <1>4 DEF Sleeping, FI!Alive
  <2>4. \A g \in Fiber : at[g] \in {"join", "group", "wait_group"} => g = Main
        BY DEF Owner
  <2> QED BY <1>1, <1>3, <2>1, <2>2, <2>3, <2>4 DEF Wakers
<1> QED BY <1>CoreType, <1>FlagType, <1>GroupType, <1>SyncType, <1>Phases, <1>Runnable, <1>Waits,
           <1>Owner, <1>Reasons, <1>Timers, <1>WillBeThrown, <1>Holds, <1>Baton, <1>Wakers

-----------------------------------------------------------------------------
\* A step of Main alone in a destructor: the Fiber object is gone, or Main waits for the
\* group, or the group is empty.
Destroys(p, ph) ==
    /\ this_fiber = Main /\ phase[Main] = "run"
    /\ at' = [at EXCEPT ![Main] = p] /\ phase' = [phase EXCEPT ![Main] = ph]
    /\ object' = Nobody
    /\ \/ /\ at[Main] = "~Fiber" /\ p = "~Group" /\ ph = "run"
          /\ object # Nobody => state_[object] = "Dead"
          /\ state_' = [f \in Fiber |-> IF f = object THEN "deleted" ELSE state_[f]]
          /\ UNCHANGED <<joiner_, cancel_guarded_>>
       \/ /\ at[Main] = "~Group" /\ p = "return" /\ ph = "run" /\ fibers_ = {}
          /\ UNCHANGED <<state_, joiner_, cancel_guarded_>>
       \/ /\ at[Main] = "~Group" /\ p = "group" /\ ph = "enter" /\ fibers_ # {}
          /\ joiner_' = Main /\ cancel_guarded_' = [cancel_guarded_ EXCEPT ![Main] = TRUE]
          /\ UNCHANGED state_
    /\ UNCHANGED <<run_queue_, this_fiber, timers, exc, timedout_, canceled_, expired, fibers_, waiter_,
                   first_error_, joining, FI!sync>>

\* The invariant survives it.
LEMMA DestroysInv ==
  ASSUME FibInv, NEW p, NEW ph, Destroys(p, ph)
  PROVE  FibInv'
<1>10. /\ \A g : g \in FI!ToSet(run_queue_) => g \in Fiber
       /\ \A g : g \in FI!ToSet(waiters_["lockers"]) => g \in Fiber
       /\ \A g : g \in FI!ToSet(waiters_["cond"]) => g \in Fiber
      BY FibersInLists
<1> USE FC DEF FibInv, Typing, FI!FiberConstants
<1>1. /\ this_fiber = Main /\ phase[Main] = "run" /\ object' = Nobody
      /\ \/ /\ at[Main] = "~Fiber" /\ p = "~Group" /\ ph = "run" /\ joiner_' = joiner_
            /\ object # Nobody => state_[object] = "Dead"
         \/ /\ at[Main] = "~Group" /\ p = "return" /\ ph = "run" /\ fibers_ = {} /\ joiner_' = joiner_
         \/ /\ at[Main] = "~Group" /\ p = "group" /\ ph = "enter" /\ fibers_ # {} /\ joiner_' = Main
      /\ UNCHANGED <<run_queue_, this_fiber, timers, exc, timedout_, canceled_, expired, fibers_, waiter_,
                     first_error_, joining, holder, waiters_, wakeup>>
      BY DEF Destroys, FI!sync
<1>2. p \in Places /\ p \in {"~Group", "return", "group"} /\ p \in Closing
      BY <1>1 DEF Places, Closing
<1>3. /\ at' \in [Fiber -> Places] /\ at'[Main] = p /\ \A g \in Fiber : g # Main => at'[g] = at[g]
      BY <1>2 DEF CoreType, Destroys
<1>4. /\ phase' \in [Fiber -> {"start", "run", "enter", "parked", "back", "over"}]
      /\ phase'[Main] = ph /\ ph \in {"run", "enter"} /\ (ph = "enter" <=> p = "group")
      /\ \A g \in Fiber : g # Main => phase'[g] = phase[g]
  <2>1. ph \in {"run", "enter"} /\ (ph = "enter" <=> p = "group")
        BY <1>1
  <2>2. phase' = [phase EXCEPT ![Main] = ph]
        BY DEF Destroys
  <2> QED BY <2>1, <2>2 DEF CoreType
<1>5. /\ cancel_guarded_' \in [Fiber -> BOOLEAN]
      /\ p = "group" => cancel_guarded_'[Main]
      /\ \A g \in Fiber : g # Main => cancel_guarded_'[g] = cancel_guarded_[g]
  <2>1. CASE p = "group"
    <3>1. cancel_guarded_' = [cancel_guarded_ EXCEPT ![Main] = TRUE]
          BY <2>1 DEF Destroys
    <3> QED BY <3>1 DEF FlagType
  <2>2. CASE p # "group"
    <3>1. cancel_guarded_' = cancel_guarded_
          BY <2>2 DEF Destroys
    <3> QED BY <2>2, <3>1 DEF FlagType
  <2> QED BY <2>1, <2>2
<1>6. /\ state_' \in [Fiber -> {"none", "Ready", "Running", "Dead", "deleted"}]
      /\ \A g \in Fiber : state_'[g] = state_[g] \/ (g = object /\ state_[g] = "Dead" /\ state_'[g] = "deleted")
  <2>1. CASE p = "~Group"
    <3>1. /\ object # Nobody => state_[object] = "Dead"
          /\ state_' = [f \in Fiber |-> IF f = object THEN "deleted" ELSE state_[f]]
          BY <2>1 DEF Destroys
    <3> QED BY <3>1 DEF CoreType
  <2>2. CASE p # "~Group"
    <3>1. state_' = state_
          BY <2>2 DEF Destroys
    <3> QED BY <3>1 DEF CoreType
  <2> QED BY <2>1, <2>2
<1>7. \A g \in Fiber : FI!Alive(g) <=> FI!Alive(g)'
      BY <1>6 DEF FI!Alive
<1>8. Main \notin FI!ToSet(run_queue_)
      BY <1>1 DEF Runnable
<1>9. Main \notin FI!ToSet(waiters_["lockers"]) /\ Main \notin FI!ToSet(waiters_["cond"])
      BY <1>1 DEF Waits
<1>CoreType. CoreType'
      BY <1>1, <1>3, <1>4, <1>6 DEF CoreType
<1>FlagType. FlagType'
      BY <1>1, <1>5 DEF FlagType
<1>GroupType. GroupType'
      BY <1>1 DEF GroupType
<1>SyncType. SyncType'
      BY <1>1 DEF SyncType
<1>Phases. Phases'
  <2>1. "group" \in Parking
        BY DEF Parking
  <2> QED BY <1>1, <1>2, <1>3, <1>4, <1>6, <2>1 DEF Phases
<1>Runnable. Runnable'
      BY <1>1, <1>3, <1>4, <1>7, <1>8, <1>10 DEF Runnable
<1>Waits. Waits'
      BY <1>1, <1>2, <1>3, <1>4, <1>9, <1>10 DEF Waits
<1>Owner. Owner'
  <2>1. \A g \in fibers_' : FI!Alive(g)'
        BY <1>1, <1>7 DEF Owner, GroupType
  <2> QED BY <1>1, <1>2, <1>3, <1>5, <2>1 DEF Owner
<1>Reasons. Reasons'
      BY <1>1, <1>2, <1>3, <1>4, <1>8 DEF Reasons, Roused, FI!Linked
<1>Timers. Timers'
  <2>1. \A t \in timers : t.fiber # Main
        BY <1>1 DEF Timers, CoreType, Closing
  <2> QED BY <1>1, <1>3, <1>4, <2>1 DEF Timers, CoreType
<1>WillBeThrown. WillBeThrown'
      BY <1>1, <1>4, <1>5 DEF WillBeThrown, FlagType
<1>Holds. Holds'
  <2>1. holder # Main
        BY <1>1 DEF Holds, Closing
  <2> QED BY <1>1, <1>3, <1>4, <1>6, <2>1 DEF Holds, SyncType
<1>Baton. Baton'
      BY <1>1, <1>3 DEF Baton, FI!Linked
<1>Wakers. Wakers'
  <2>1. \A g \in Fiber : g # Main /\ Sleeping(g)' => Sleeping(g)
        BY <1>1, <1>4 DEF Sleeping, FI!Linked
  <2>2. \A g \in Fiber : phase'[g] = "start" /\ state_'[g] # "none" => FI!Linked(g)'
        BY <1>1, <1>3, <1>4, <1>6 DEF Wakers, FI!Linked
  <2>3. Sleeping(Main)' => at'[Main] = "group" /\ fibers_' # {}
        BY <1>1, <1>3, <1>4 DEF Sleeping
  <2>4. \A g \in Fiber : at[g] \in {"join", "group", "wait_group"} => g = Main
        BY DEF Owner
  <2> QED BY <1>1, <1>3, <2>1, <2>2, <2>3, <2>4 DEF Wakers
<1> QED BY <1>CoreType, <1>FlagType, <1>GroupType, <1>SyncType, <1>Phases, <1>Runnable, <1>Waits,
           <1>Owner, <1>Reasons, <1>Timers, <1>WillBeThrown, <1>Holds, <1>Baton, <1>Wakers

\* ~Fiber
LEMMA DestroyFiberKeeps ==
  ASSUME FibInv, FI!DestroyFiber
  PROVE  FibInv'
<1>1. /\ this_fiber = Main /\ phase[Main] = "run" /\ at[Main] = "~Fiber"
      /\ UNCHANGED <<this_fiber, now_, timers, exc, timedout_, expired, fibers_, joiner_, waiter_,
                     first_error_, FI!sync>>
      BY DEF FI!DestroyFiber, FI!In
<1>2. CASE object # Nobody /\ state_[object] # "Dead"
  <2>1. /\ FI!Cancel(object) /\ joining' = Main /\ UNCHANGED <<object, state_>>
        /\ cancel_guarded_' = [cancel_guarded_ EXCEPT ![Main] = TRUE]
        /\ at' = [at EXCEPT ![Main] = "join"] /\ phase' = [phase EXCEPT ![Main] = "enter"]
        BY <1>2 DEF FI!DestroyFiber, FI!Guarded, FI!Goto
  <2>2. object \in Fiber /\ object # Main /\ FI!Alive(object)
        BY <1>2 DEF FibInv, Typing, GroupType, Owner, FI!Alive
  <2>3. Cancels(object, "join")
        BY <1>1, <1>2, <2>1, <2>2 DEF Cancels
  <2> QED BY <2>2, <2>3, CancelsInv
<1>3. CASE object # Nobody => state_[object] = "Dead"
  <2>1. /\ state_' = [f \in Fiber |-> IF f = object THEN "deleted" ELSE state_[f]]
        /\ object' = Nobody /\ at' = [at EXCEPT ![Main] = "~Group"] /\ phase' = [phase EXCEPT ![Main] = "run"]
        /\ UNCHANGED <<joining, canceled_, cancel_guarded_, run_queue_>>
        BY <1>3 DEF FI!DestroyFiber, FI!Goto
  <2>2. Destroys("~Group", "run")
        BY <1>1, <1>3, <2>1 DEF Destroys
  <2> QED BY <2>2, DestroysInv
<1> QED BY <1>2, <1>3

\* ~Group
LEMMA DestroyGroupKeeps ==
  ASSUME FibInv, FI!DestroyGroup
  PROVE  FibInv'
<1>1. /\ this_fiber = Main /\ phase[Main] = "run" /\ at[Main] = "~Group"
      /\ UNCHANGED <<this_fiber, now_, timers, state_, exc, timedout_, expired, fibers_, waiter_,
                     first_error_, object, joining, FI!sync>>
      BY DEF FI!DestroyGroup, FI!In
<1>2. object = Nobody
      BY <1>1 DEF FibInv, Owner
<1>3. CASE /\ fibers_ = {} /\ FI!Goto(Main, "return", "run")
           /\ UNCHANGED <<joiner_, canceled_, cancel_guarded_, run_queue_>>
  <2>1. Destroys("return", "run")
        BY <1>1, <1>2, <1>3 DEF Destroys, FI!Goto
  <2> QED BY <2>1, DestroysInv
<1>4. CASE \E f \in fibers_ : ~canceled_[f] /\ FI!Cancel(f) /\ UNCHANGED <<at, phase, joiner_, cancel_guarded_>>
  <2>1. PICK c \in fibers_ : FI!Cancel(c) /\ UNCHANGED <<at, phase, joiner_, cancel_guarded_>>
        BY <1>4
  <2>2. c \in Fiber /\ c # Main /\ FI!Alive(c)
        BY DEF FibInv, Typing, GroupType, Owner
  <2>3. at' = [at EXCEPT ![Main] = at[Main]] /\ phase' = [phase EXCEPT ![Main] = "run"]
        BY <1>1, <2>1, Stays, FC DEF FI!FiberConstants
  <2>4. Cancels(c, "~Group")
        BY <1>1, <2>1, <2>2, <2>3 DEF Cancels
  <2> QED BY <2>2, <2>4, CancelsInv
<1>5. CASE /\ fibers_ # {} /\ FI!Guarded /\ joiner_' = Main /\ FI!Goto(Main, "group", "enter")
           /\ UNCHANGED <<canceled_, run_queue_>>
  <2>1. Destroys("group", "enter")
        BY <1>1, <1>2, <1>5 DEF Destroys, FI!Goto, FI!Guarded
  <2> QED BY <2>1, DestroysInv
<1> QED BY <1>3, <1>4, <1>5 DEF FI!DestroyGroup

-----------------------------------------------------------------------------
\* Unpark of several, each Main or nobody.
LEMMA UnparkMore ==
  ASSUME NEW s \in Seq(Fiber), Distinct(s), NEW a \in {Main, Nobody}
  PROVE  /\ FI!Unparked(s, a) \in Seq(Fiber) /\ Distinct(FI!Unparked(s, a))
         /\ FI!ToSet(FI!Unparked(s, a)) = FI!ToSet(s) \cup (IF a = Main THEN {Main} ELSE {})
<1>1. a \in Fiber \cup {Nobody} /\ {a} \ {Nobody} = IF a = Main THEN {Main} ELSE {}
      BY FC DEF FI!FiberConstants
<1> QED BY <1>1, UnparkedList

\* Whom the end of a fiber wakes: Main, if it waits for this fiber, for the group that is
\* now empty, or for its first error.
LEMMA FinishWakes ==
  ASSUME FibInv, NEW f \in Fiber, FI!Finish(f)
  PROVE  LET first == f \in fibers_ /\ first_error_ = "none" /\ exc[f] \in {"timeout", "error"}
             emptied == f \in fibers_ /\ fibers_ \ {f} = {}
             woken == \/ f = object /\ joining = Main
                      \/ (first \/ emptied) /\ waiter_ = Main
                      \/ emptied /\ joiner_ = Main
         IN /\ run_queue_' \in Seq(Fiber) /\ Distinct(run_queue_')
            /\ FI!ToSet(run_queue_') = FI!ToSet(run_queue_) \cup (IF woken THEN {Main} ELSE {})
            /\ first_error_' = IF first THEN exc[f] ELSE first_error_
<1> DEFINE first == f \in fibers_ /\ first_error_ = "none" /\ exc[f] \in {"timeout", "error"}
           emptied == f \in fibers_ /\ fibers_ \ {f} = {}
           a == IF f = object THEN joining ELSE Nobody
           b == IF first THEN waiter_ ELSE Nobody
           joined == FI!Unparked(run_queue_, a)
           told == FI!Unparked(joined, b)
           met == FI!Unparked(told, joiner_)
<1>1. /\ run_queue_' = IF emptied THEN FI!Unparked(met, waiter_) ELSE told
      /\ first_error_' = IF first THEN exc[f] ELSE first_error_
      BY DEF FI!Finish
<1>2. /\ a \in {Main, Nobody} /\ b \in {Main, Nobody} /\ joiner_ \in {Main, Nobody}
      /\ waiter_ \in {Main, Nobody} /\ joining \in {Main, Nobody} /\ Main # Nobody
      BY FC DEF FibInv, Typing, GroupType, FI!FiberConstants
<1>3. run_queue_ \in Seq(Fiber) /\ Distinct(run_queue_)
      BY DEF FibInv, Typing, CoreType
<1>a. a = Main <=> f = object /\ joining = Main
      BY <1>2
<1>b. b = Main <=> first /\ waiter_ = Main
      BY <1>2
<1> HIDE DEF a, b, first, emptied
<1>4. /\ joined \in Seq(Fiber) /\ Distinct(joined)
      /\ FI!ToSet(joined) = FI!ToSet(run_queue_) \cup (IF a = Main THEN {Main} ELSE {})
      BY <1>2, <1>3, UnparkMore
<1> HIDE DEF joined
<1>5. /\ told \in Seq(Fiber) /\ Distinct(told)
      /\ FI!ToSet(told) = FI!ToSet(joined) \cup (IF b = Main THEN {Main} ELSE {})
      BY <1>2, <1>4, UnparkMore
<1> HIDE DEF told
<1>6. /\ met \in Seq(Fiber) /\ Distinct(met)
      /\ FI!ToSet(met) = FI!ToSet(told) \cup (IF joiner_ = Main THEN {Main} ELSE {})
      BY <1>2, <1>5, UnparkMore
<1> HIDE DEF met
<1>7. /\ FI!Unparked(met, waiter_) \in Seq(Fiber) /\ Distinct(FI!Unparked(met, waiter_))
      /\ FI!ToSet(FI!Unparked(met, waiter_)) = FI!ToSet(met) \cup (IF waiter_ = Main THEN {Main} ELSE {})
      BY <1>2, <1>6, UnparkMore
<1> DEFINE woken == \/ f = object /\ joining = Main
                    \/ (first \/ emptied) /\ waiter_ = Main
                    \/ emptied /\ joiner_ = Main
<1>8. CASE emptied
  <2>1. run_queue_' = FI!Unparked(met, waiter_)
        BY <1>1, <1>8
  <2>2. woken <=> a = Main \/ b = Main \/ joiner_ = Main \/ waiter_ = Main
        BY <1>8, <1>a, <1>b
  <2>3. FI!ToSet(run_queue_') = FI!ToSet(run_queue_) \cup (IF woken THEN {Main} ELSE {})
        BY <1>4, <1>5, <1>6, <1>7, <2>1, <2>2
  <2> QED BY <1>1, <1>7, <2>1, <2>3 DEF first, emptied
<1>9. CASE ~emptied
  <2>1. run_queue_' = told
        BY <1>1, <1>9
  <2>2. woken <=> a = Main \/ b = Main
        BY <1>9, <1>a, <1>b
  <2>3. FI!ToSet(run_queue_') = FI!ToSet(run_queue_) \cup (IF woken THEN {Main} ELSE {})
        BY <1>4, <1>5, <2>1, <2>2
  <2> QED BY <1>1, <1>5, <2>1, <2>3 DEF first, emptied
<1> QED BY <1>8, <1>9

\* The end of FiberImpl::Run and what Cleanup does with it.
LEMMA FinishKeeps ==
  ASSUME FibInv, NEW f \in Fiber, FI!Finish(f)
  PROVE  FibInv'
<1>10. /\ \A g : g \in FI!ToSet(run_queue_) => g \in Fiber
       /\ \A g : g \in FI!ToSet(waiters_["lockers"]) => g \in Fiber
       /\ \A g : g \in FI!ToSet(waiters_["cond"]) => g \in Fiber
      BY FibersInLists
<1> DEFINE first == f \in fibers_ /\ first_error_ = "none" /\ exc[f] \in {"timeout", "error"}
           emptied == f \in fibers_ /\ fibers_ \ {f} = {}
           woken == \/ f = object /\ joining = Main
                    \/ (first \/ emptied) /\ waiter_ = Main
                    \/ emptied /\ joiner_ = Main
<1>1. /\ run_queue_' \in Seq(Fiber) /\ Distinct(run_queue_')
      /\ FI!ToSet(run_queue_') = FI!ToSet(run_queue_) \cup (IF woken THEN {Main} ELSE {})
      /\ first_error_' = IF first THEN exc[f] ELSE first_error_
      BY FinishWakes
<1> USE FC DEF FibInv, Typing, FI!FiberConstants
<1>2. /\ this_fiber = f /\ phase[f] = "run" /\ at[f] = "return" /\ this_fiber' = Nobody
      /\ fibers_' = fibers_ \ {f}
      /\ phase' = [phase EXCEPT ![f] = "over"]
      /\ state_' = [state_ EXCEPT ![f] = IF f \in fibers_ THEN "deleted" ELSE "Dead"]
      /\ UNCHANGED <<now_, timers, at, exc, timedout_, canceled_, cancel_guarded_, expired, joiner_, waiter_,
                     object, joining, holder, waiters_, wakeup>>
      BY DEF FI!Finish, FI!In, FI!flags, FI!sync
<1>3. /\ first => first_error_ = "none" /\ first_error_' \in {"timeout", "error"}
      /\ ~first => first_error_' = first_error_
      BY <1>1
<1>4. /\ emptied => f \in fibers_ /\ fibers_' = {}
      /\ ~emptied /\ fibers_ # {} => fibers_' # {}
      BY <1>2
<1>5. /\ woken => Main \in FI!ToSet(run_queue_') /\ FI!ToSet(run_queue_') = FI!ToSet(run_queue_) \cup {Main}
      /\ ~woken => FI!ToSet(run_queue_') = FI!ToSet(run_queue_)
      BY <1>1
<1>6. woken => /\ at[Main] = "join" => f = object
               /\ at[Main] = "group" => emptied
               /\ at[Main] = "wait_group" => first \/ emptied
               /\ at[Main] \in {"join", "group", "wait_group"}
      BY DEF Owner
<1>7. /\ at[Main] = "join" /\ f = object => woken
      /\ at[Main] = "group" /\ emptied => woken
      /\ at[Main] = "wait_group" /\ (first \/ emptied) => woken
      BY DEF Owner
<1> HIDE DEF woken, first, emptied
<1>8. /\ state_' \in [Fiber -> {"none", "Ready", "Running", "Dead", "deleted"}]
      /\ state_'[f] \in {"Dead", "deleted"} /\ (f \notin fibers_ => state_'[f] = "Dead")
      /\ \A g \in Fiber : g # f => state_'[g] = state_[g]
      BY <1>2 DEF CoreType
<1>9. /\ phase' \in [Fiber -> {"start", "run", "enter", "parked", "back", "over"}]
      /\ phase'[f] = "over" /\ \A g \in Fiber : g # f => phase'[g] = phase[g]
      BY <1>2 DEF CoreType
<1>11. /\ f \notin FI!ToSet(run_queue_) /\ f \notin FI!ToSet(waiters_["lockers"])
       /\ f \notin FI!ToSet(waiters_["cond"])
      BY <1>2 DEF Runnable, Waits
<1>12. woken => f # Main /\ phase[Main] = "parked" /\ FI!Alive(Main)
      BY <1>2, <1>6 DEF Phases, CoreType, FI!Alive
<1>CoreType. CoreType'
      BY <1>1, <1>2, <1>8, <1>9 DEF CoreType
<1>FlagType. FlagType'
      BY <1>2 DEF FlagType
<1>GroupType. GroupType'
      BY <1>2, <1>3 DEF GroupType
<1>SyncType. SyncType'
      BY <1>2 DEF SyncType
<1>Phases. Phases'
      BY <1>2, <1>8, <1>9 DEF Phases, CoreType
<1>Runnable. Runnable'
      BY <1>2, <1>5, <1>8, <1>9, <1>10, <1>11, <1>12 DEF Runnable, FI!Alive
<1>Waits. Waits'
      BY <1>2, <1>9, <1>10 DEF Waits
<1>Owner. Owner'
  <2>1. \A g \in fibers_' : FI!Alive(g)'
        BY <1>2, <1>8 DEF Owner, FI!Alive, GroupType
  <2>2. object # Nobody => state_'[object] \in {"Ready", "Running", "Dead"}
        BY <1>8 DEF Owner, GroupType
  <2> QED BY <1>2, <2>1, <2>2 DEF Owner
<1>Reasons. Reasons'
  <2>1. phase'[Main] \notin {"back", "run"}
        BY <1>2, <1>9 DEF Phases
  <2>2. f # object => state_'[object] = state_[object] \/ object = Nobody
        BY <1>8 DEF GroupType
  <2>3. at[Main] = "join" /\ FI!Linked(Main)' => state_'[object] = "Dead"
    <3> SUFFICES ASSUME at[Main] = "join", FI!Linked(Main)' PROVE state_'[object] = "Dead"
        OBVIOUS
    <3>1. object # Nobody /\ object \notin fibers_
          BY DEF Owner
    <3>2. CASE f = object
          BY <1>8, <3>1, <3>2
    <3>3. CASE f # object
      <4>1. ~woken
            BY <1>6, <3>3
      <4>2. FI!Linked(Main)
            BY <1>5, <4>1 DEF FI!Linked
      <4> QED BY <2>2, <3>1, <3>3, <4>2 DEF Reasons, Roused
    <3> QED BY <3>2, <3>3
  <2>4. at[Main] = "group" /\ FI!Linked(Main)' => fibers_' = {}
        BY <1>2, <1>4, <1>5, <1>6 DEF Reasons, Roused, FI!Linked
  <2>5. at[Main] = "wait_group" /\ FI!Linked(Main)' =>
            fibers_' = {} \/ first_error_' # "none" \/ (timedout_[Main] /\ ~cancel_guarded_[Main])
        BY <1>2, <1>3, <1>4, <1>5, <1>6 DEF Reasons, Roused, FI!Linked
  <2> QED BY <1>2, <2>1, <2>3, <2>4, <2>5 DEF Reasons, Roused
<1>Timers. Timers'
  <2>1. \A t \in timers : t.fiber # f
        BY <1>2 DEF Timers, CoreType, Closing
  <2> QED BY <1>2, <1>9, <2>1 DEF Timers, CoreType
<1>WillBeThrown. WillBeThrown'
      BY <1>2, <1>9 DEF WillBeThrown
<1>Holds. Holds'
  <2>1. holder # f
        BY <1>2 DEF Holds, Closing
  <2> QED BY <1>2, <1>8, <1>9, <2>1 DEF Holds, SyncType
<1>Baton. Baton'
  <2>1. \A g \in Fiber : FI!Linked(g) => FI!Linked(g)'
        BY <1>5 DEF FI!Linked
  <2> QED BY <1>2, <2>1 DEF Baton
<1>Wakers. Wakers'
  <2>1. \A g \in Fiber : Sleeping(g)' => g # f /\ Sleeping(g) /\ (g = Main => ~woken)
        BY <1>5, <1>9 DEF Sleeping, FI!Linked
  <2>2. \A g \in Fiber : phase'[g] = "start" /\ state_'[g] # "none" => FI!Linked(g)'
        BY <1>5, <1>8, <1>9 DEF Wakers, FI!Linked
  <2>3. at[Main] = "join" /\ ~woken /\ FI!Alive(object) => FI!Alive(object)'
        BY <1>2, <1>7, <1>8 DEF FI!Alive, GroupType, Owner
  <2>4. at[Main] = "group" /\ ~woken /\ fibers_ # {} => fibers_' # {}
        BY <1>4, <1>7
  <2>5. at[Main] = "wait_group" /\ ~woken /\ fibers_ # {} => fibers_' # {} /\ first_error_' = first_error_
        BY <1>3, <1>4, <1>7
  <2>6. \A g \in Fiber : at[g] \in {"join", "group", "wait_group"} => g = Main
        BY DEF Owner
  <2> QED BY <1>2, <2>1, <2>2, <2>3, <2>4, <2>5, <2>6 DEF Wakers
<1> QED BY <1>CoreType, <1>FlagType, <1>GroupType, <1>SyncType, <1>Phases, <1>Runnable, <1>Waits,
           <1>Owner, <1>Reasons, <1>Timers, <1>WillBeThrown, <1>Holds, <1>Baton, <1>Wakers
-----------------------------------------------------------------------------
\* At first Main is in the run queue, and nothing else is there.
LEMMA InitFibInv == FI!Init => FibInv
<1> SUFFICES ASSUME FI!Init PROVE FibInv
    OBVIOUS
<1> USE FC DEF FI!FiberConstants
<1>1. <<Main>> \in Seq(Fiber) /\ Distinct(<<Main>>) /\ FI!ToSet(<<Main>>) = {Main}
  <2>1. <<>> \in Seq(Fiber) /\ Distinct(<<>>) /\ FI!ToSet(<<>>) = {}
        BY EmptyLists
  <2>2. Append(<<>>, Main) = <<Main>>
        OBVIOUS
  <2>3. Append(<<>>, Main) \in Seq(Fiber) /\ Distinct(Append(<<>>, Main)) /\ FI!ToSet(Append(<<>>, Main)) = {} \cup {Main}
        BY <2>1, AppendedList
  <2> QED BY <2>2, <2>3
<1>2. /\ run_queue_ = <<Main>> /\ this_fiber = Nobody /\ timers = {}
      /\ state_ = [f \in Fiber |-> IF f = Main THEN "Ready" ELSE "none"]
      /\ at = [f \in Fiber |-> "user"] /\ phase = [f \in Fiber |-> "start"]
      /\ exc = [f \in Fiber |-> "none"]
      BY DEF FI!Init
<1>3. /\ timedout_ = [f \in Fiber |-> FALSE] /\ canceled_ = [f \in Fiber |-> FALSE]
      /\ cancel_guarded_ = [f \in Fiber |-> FALSE] /\ expired = [f \in Fiber |-> FALSE]
      BY DEF FI!Init
<1>4. /\ fibers_ = {} /\ joiner_ = Nobody /\ waiter_ = Nobody /\ first_error_ = "none"
      /\ object = Nobody /\ joining = Nobody
      BY DEF FI!Init
<1>5. /\ holder = Nobody /\ waiters_ = [q \in {"lockers", "cond"} |-> <<>>]
      /\ wakeup = [f \in Fiber |-> FALSE]
      BY DEF FI!Init
<1>6. waiters_["lockers"] = <<>> /\ waiters_["cond"] = <<>>
      BY <1>5
<1>CoreType. CoreType
      BY <1>1, <1>2 DEF CoreType, Places
<1>FlagType. FlagType
      BY <1>3 DEF FlagType
<1>GroupType. GroupType
      BY <1>4 DEF GroupType
<1>SyncType. SyncType
      BY <1>5, <1>6, EmptyLists DEF SyncType
<1>7. /\ \A f \in Fiber : at[f] = "user" /\ phase[f] = "start" /\ ~timedout_[f] /\ ~canceled_[f]
      /\ \A f \in Fiber : state_[f] = IF f = Main THEN "Ready" ELSE "none"
      BY <1>2, <1>3
<1>Phases. Phases
      BY <1>2, <1>7 DEF Phases
<1>Runnable. Runnable
      BY <1>1, <1>2, <1>7 DEF Runnable, FI!Alive
<1>Waits. Waits
      BY <1>6, <1>7, EmptyLists DEF Waits
<1>Owner. Owner
      BY <1>4, <1>7 DEF Owner
<1>Reasons. Reasons
      BY <1>7 DEF Reasons
<1>Timers. Timers
      BY <1>2 DEF Timers
<1>WillBeThrown. WillBeThrown
      BY <1>7 DEF WillBeThrown
<1>Holds. Holds
      BY <1>5 DEF Holds
<1>Baton. Baton
      BY <1>6, EmptyLists DEF Baton
<1>Wakers. Wakers
      BY <1>1, <1>2, <1>7 DEF Wakers, Sleeping, FI!Linked
<1> QED BY <1>CoreType, <1>FlagType, <1>GroupType, <1>SyncType, <1>Phases, <1>Runnable, <1>Waits,
           <1>Owner, <1>Reasons, <1>Timers, <1>WillBeThrown, <1>Holds, <1>Baton, <1>Wakers
        DEF FibInv, Typing

\* Steps that change nothing.
LEMMA StutterKeeps ==
  ASSUME FibInv, UNCHANGED FI!vars
  PROVE  FibInv'
<1>1. UNCHANGED <<run_queue_, this_fiber, now_, timers, state_, at, phase, exc, timedout_, canceled_,
                  cancel_guarded_, expired, fibers_, joiner_, waiter_, first_error_, object, joining,
                  holder, waiters_, wakeup>>
      BY DEF FI!vars, FI!core, FI!flags, FI!group, FI!sync
<1>2. CoreType'
      BY <1>1 DEF FibInv, Typing, CoreType
<1>3. FlagType'
      BY <1>1 DEF FibInv, Typing, FlagType
<1>4. GroupType'
      BY <1>1 DEF FibInv, Typing, GroupType
<1>5. SyncType'
      BY <1>1 DEF FibInv, Typing, SyncType
<1>6. Phases'
      BY <1>1 DEF FibInv, Typing, Phases
<1>7. Runnable'
      BY <1>1 DEF FibInv, Typing, Runnable, FI!Alive
<1>8. Waits'
      BY <1>1 DEF FibInv, Typing, Waits
<1>9. Owner'
      BY <1>1 DEF FibInv, Typing, Owner, FI!Alive
<1>10. Reasons'
      BY <1>1 DEF FibInv, Typing, Reasons, Roused, FI!Linked
<1>11. Timers'
      BY <1>1 DEF FibInv, Typing, Timers
<1>12. WillBeThrown'
      BY <1>1 DEF FibInv, Typing, WillBeThrown
<1>13. Holds'
      BY <1>1 DEF FibInv, Typing, Holds
<1>14. Baton'
      BY <1>1 DEF FibInv, Typing, Baton, FI!Linked
<1>15. Wakers'
      BY <1>1 DEF FibInv, Typing, Wakers, Sleeping, FI!Linked, FI!Alive
<1> QED BY <1>2, <1>3, <1>4, <1>5, <1>6, <1>7, <1>8, <1>9, <1>10, <1>11, <1>12, <1>13, <1>14,
           <1>15 DEF FibInv, Typing

\* The invariant of the fibers holds always: every step of the scheduler, of the timers
\* and of a fiber keeps it.
THEOREM Invariance == FI!Spec => []FibInv
<1>1. ASSUME FibInv, [FI!Next]_(FI!vars) PROVE FibInv'
  <2>1. ASSUME NEW f \in Fiber, FI!FiberStep(f) PROVE FibInv'
        BY <1>1, <2>1, ParkKeeps, YieldKeeps, YieldReturnKeeps, SleepKeeps, SleepReturnKeeps,
           OpenTimeoutKeeps, CloseTimeoutKeeps, ToggleCancelGuardKeeps, LockKeeps,
           LockReturnKeeps, UnlockKeeps, CondWaitKeeps, CondEnqueueKeeps, CondReturnKeeps,
           CondPassKeeps, CondNotifyOneKeeps, CondNotifyAllKeeps, SpawnKeeps, ReturnKeeps,
           ThrowKeeps, LeaveKeeps, FinishKeeps DEF FI!FiberStep
  <2> QED BY <1>1, <2>1, TickKeeps, ExpireKeeps, RunFiberKeeps, NewFiberKeeps, WaitKeeps,
             WaitReturnKeeps, DestroyFiberKeeps, JoinReturnKeeps, DestroyGroupKeeps,
             GroupReturnKeeps, StutterKeeps DEF FI!Next
<1> QED BY <1>1, InitFibInv, PTL DEF FI!Spec

\* The fibers of the suite behave as the fibers alone: the other parts leave their
\* variables alone.
LEMMA SuiteIsFibers == SuiteSpec => FI!Spec
<1>1. SuiteInit => FI!Init
      BY DEF SuiteInit
<1>2. UNCHANGED fi => UNCHANGED FI!vars
      BY DEF fi, FI!vars, FI!core, FI!flags, FI!group, FI!sync
<1>3. ASSUME [SuiteNext]_all PROVE [FI!Next]_(FI!vars)
  <2>1. CASE FibersNext
        BY <2>1 DEF FibersNext
  <2>2. CASE UNCHANGED all
        BY <1>2, <2>2 DEF all
  <2>3. CASE \/ BalancerNext \/ StreamsNext \/ TimersNext \/ NetNext \/ RedisNext \/ SocksNext
             \/ RpcNext \/ ClientsNext \/ CoroutineNext
        BY <1>2, <2>3 DEF BalancerNext, StreamsNext, TimersNext, NetNext, RedisNext, SocksNext,
           RpcNext, ClientsNext, CoroutineNext
  <2> QED BY <1>3, <2>1, <2>2, <2>3 DEF SuiteNext
<1> QED BY <1>1, <1>3, PTL DEF SuiteSpec, FI!Spec

\* No fiber is forgotten by the scheduler, the timers, the groups or the wait queues: one
\* that is parked and not in the run queue has a waker.  The wake-up of a free mutex is
\* on its way to somebody (Baton) also when time-outs and cancellations strike those it
\* was meant for, because WaitQueue::Wait and CondVar::Wait pass it on.
THEOREM NoneForgotten == SuiteSpec => []NobodyForgotten
<1>1. ASSUME FibInv PROVE FI!NobodyForgotten
  <2> SUFFICES ASSUME this_fiber = Nobody, NEW f \in Fiber, FI!Alive(f), ~FI!Linked(f)
               PROVE  FI!HasWaker(f)
      BY DEF FI!NobodyForgotten
  <2> USE <1>1, FC DEF FibInv, Typing, FI!FiberConstants
  <2>1. Sleeping(f)
    <3>1. phase[f] \notin {"run", "enter", "back", "over", "start"}
          BY DEF Phases, Wakers, FI!Alive
    <3> QED BY <3>1 DEF CoreType, Sleeping
  <2>2. at[f] \in Parking
        BY <2>1 DEF Sleeping, Phases
  <2>3. /\ at[f] # "yield"
        /\ at[f] = "sleep" => \E t \in timers : t.fiber = f /\ t.kind = "sleep"
        /\ at[f] = "join" => FI!Alive(object)
        /\ at[f] = "group" => fibers_ # {}
        /\ at[f] = "wait_group" => fibers_ # {} /\ first_error_ = "none"
        /\ at[f] = "cond" => f \in FI!ToSet(waiters_["cond"])
        /\ at[f] \in {"lock", "relock"} => f \in FI!ToSet(waiters_["lockers"])
        BY <2>1 DEF Wakers
  <2>4. /\ at[f] = "join" => joining = f
        /\ at[f] = "group" => joiner_ = f
        /\ at[f] = "wait_group" => waiter_ = f
        BY DEF Owner
  <2>5. FI!ToSet(waiters_["lockers"]) # {} /\ holder = Nobody =>
            \E g \in FI!ToSet(run_queue_) : at[g] \in {"lock", "relock"} /\ wakeup[g]
        BY DEF Baton, FI!Linked
  <2>6. CASE at[f] = "sleep"
        BY <2>3, <2>6 DEF FI!HasWaker
  <2>7. CASE at[f] = "join"
        BY <2>3, <2>4, <2>7 DEF FI!HasWaker
  <2>8. CASE at[f] = "group"
        BY <2>3, <2>4, <2>8 DEF FI!HasWaker
  <2>9. CASE at[f] = "wait_group"
        BY <2>3, <2>4, <2>9 DEF FI!HasWaker
  <2>10. CASE at[f] = "cond"
        BY <2>3, <2>10 DEF FI!HasWaker
  <2>11. CASE at[f] \in {"lock", "relock"}
        BY <2>3, <2>5, <2>11 DEF FI!HasWaker
  <2> QED BY <2>2, <2>3, <2>6, <2>7, <2>8, <2>9, <2>10, <2>11 DEF Parking
<1> QED BY <1>1, SuiteIsFibers, Invariance, PTL DEF NobodyForgotten

\* The run queue, the timers, the wait queues and the groups refer to no fiber that is
\* dead or deleted; the destructors return, and Wait ends without an exception, only when
\* the fibers they wait for are over: who wakes Main in them has made it so (Reasons).
THEOREM LivesEnough == SuiteSpec => []FiberLifetimes
<1>1. ASSUME FibInv PROVE FI!FiberLifetimes
  <2>0. /\ \A g : g \in FI!ToSet(run_queue_) => g \in Fiber
        /\ \A g : g \in FI!ToSet(waiters_["lockers"]) => g \in Fiber
        /\ \A g : g \in FI!ToSet(waiters_["cond"]) => g \in Fiber
        BY <1>1, FibersInLists
  <2> USE <1>1, FC DEF FibInv, Typing, FI!FiberConstants
  <2>1. \A g \in Fiber : phase[g] \notin {"start", "over"} => FI!Alive(g)
        BY DEF Phases, FI!Alive, CoreType
  <2>2. \A g \in Fiber : at[g] \notin {"user", "return"} => FI!Alive(g)
    <3>1. \A g \in Fiber : at[g] \notin {"user", "return"} => phase[g] \notin {"start", "over"}
          BY DEF Phases
    <3> QED BY <2>1, <3>1
  <2>3. \A g \in FI!ToSet(run_queue_) : FI!Alive(g)
        BY DEF Runnable
  <2>4. this_fiber # Nobody => FI!Alive(this_fiber)
    <3>1. this_fiber # Nobody => this_fiber \in Fiber /\ phase[this_fiber] \notin {"start", "over"}
          BY DEF CoreType, Phases
    <3> QED BY <2>1, <3>1
  <2>5. /\ joiner_ # Nobody => FI!Alive(joiner_)
        /\ waiter_ # Nobody => FI!Alive(waiter_)
        /\ joining # Nobody => FI!Alive(joining)
        BY <2>2 DEF Owner, GroupType
  <2>6. \A g \in FI!ToSet(waiters_["lockers"]) \cup FI!ToSet(waiters_["cond"]) : FI!Alive(g)
        BY <2>0, <2>2 DEF Waits
  <2>7. \A t \in timers : FI!Alive(t.fiber)
        BY <2>1 DEF Timers, CoreType
  <2>8. at[Main] = "return" => fibers_ = {} /\ object = Nobody
        BY DEF Owner
  <2>9. FI!In(Main, "wait_group") /\ exc[Main] = "none" /\ first_error_ = "none" => fibers_ = {}
        BY DEF FI!In, Reasons
  <2> QED BY <2>3, <2>4, <2>5, <2>6, <2>7, <2>8, <2>9 DEF FI!FiberLifetimes
<1> QED BY <1>1, SuiteIsFibers, Invariance, PTL DEF FiberLifetimes

\* A time-out does not outlive its TimeoutGuard: while a fiber runs none is pending, but
\* those that came under a FiberCancelGuard or lost against a cancellation.  The one that
\* is pending is thrown by the Park the fiber is in (WillBeThrown).
THEOREM NoStrayTimeout == SuiteSpec => []TimeoutBelongs
<1>1. ASSUME FibInv PROVE FI!TimeoutBelongs
      BY <1>1 DEF FibInv, WillBeThrown, FI!TimeoutBelongs
<1> QED BY <1>1, SuiteIsFibers, Invariance, PTL DEF TimeoutBelongs

-----------------------------------------------------------------------------
\* A set of naturals has a least element: < is well-founded.
LEMMA Least ==
  ASSUME NEW S \in SUBSET Nat, S # {}
  PROVE  \E n \in S : \A m \in S : n <= m
<1> DEFINE R == {ss \in Nat \X Nat : ss[1] < ss[2]}
<1>1. IsWellFoundedOn(R, Nat)
  BY NatLessThanWellFounded DEF OpToRel
<1>2. PICK n \in S : \A m \in S : ~ (<<m, n>> \in R)
  <2> HIDE DEF R
  <2> QED BY <1>1, WFMin
<1>3. \A m \in S : ~ (m < n)
  BY <1>2
<1> QED BY <1>3

\* Induction over the naturals, from the least element outside.
LEMMA Induction ==
  ASSUME NEW S, 0 \in S, \A n \in Nat : n \in S => n + 1 \in S
  PROVE  Nat \subseteq S
<1> SUFFICES ASSUME Nat \ S # {} PROVE FALSE
  OBVIOUS
<1>1. PICK n \in Nat \ S : \A m \in Nat \ S : n <= m
  <2> DEFINE T == Nat \ S
  <2> T \in SUBSET Nat /\ T # {} OBVIOUS
  <2> HIDE DEF T
  <2>1. PICK n \in T : \A m \in T : n <= m BY Least
  <2> QED BY <2>1 DEF T
<1>2. n # 0 /\ n - 1 \in Nat OBVIOUS
<1>3. n - 1 \in S BY <1>1, <1>2
<1> QED BY <1>3, <1>2

\* A loop whose turns are a function has an outcome after every turn.
IsLoop(T, N, x, step) == N \in Nat /\ x \in T /\ step \in [T \X (1..N) -> T]
HasRun(T, N, x, step) ==
    \E f \in [0..N -> T] : f[0] = x /\ \A k \in 1..N : f[k] = step[<<f[k - 1], k>>]

LEMMA Turns ==
  ASSUME NEW T, NEW N, NEW x, NEW step, IsLoop(T, N, x, step)
  PROVE  HasRun(T, N, x, step)
<1>0. N \in Nat /\ x \in T /\ step \in [T \X (1..N) -> T]
      BY DEF IsLoop
<1> DEFINE Upto(m) == \E f \in [0..m -> T] : f[0] = x /\ \A k \in 1..m : f[k] = step[<<f[k - 1], k>>]
           S == {m \in Nat : m <= N => Upto(m)}
<1>1. 0 \in S
  <2>1. PICK f \in [0..0 -> T] : f = [k \in 0..0 |-> x]
        BY <1>0
  <2>2. Upto(0)
        BY <2>1
  <2> HIDE DEF Upto
  <2> QED BY <2>2
<1>2. ASSUME NEW m \in Nat, m \in S PROVE m + 1 \in S
  <2> SUFFICES ASSUME m + 1 <= N PROVE Upto(m + 1)
    <3> HIDE DEF Upto
    <3> QED BY <1>0
  <2>0. Upto(m)
    <3> HIDE DEF Upto
    <3> QED BY <1>0, <1>2
  <2>1. PICK f \in [0..m -> T] : f[0] = x /\ \A k \in 1..m : f[k] = step[<<f[k - 1], k>>]
        BY <2>0
  <2>n. m + 1 \in 1..N /\ f[m] \in T
        BY <1>0
  <2>s. step[<<f[m], m + 1>>] \in T
        BY <1>0, <2>n
  <2> DEFINE g == [k \in 0..(m + 1) |-> IF k <= m THEN f[k] ELSE step[<<f[m], m + 1>>]]
  <2>2. g \in [0..(m + 1) -> T]
    <3>3. \A k \in 0..(m + 1) : (IF k <= m THEN f[k] ELSE step[<<f[m], m + 1>>]) \in T
          BY <2>s
    <3> QED BY <3>3
  <2>3. g[0] = x
        BY <2>1
  <2>4. ASSUME NEW k \in 1..(m + 1) PROVE g[k] = step[<<g[k - 1], k>>]
    <3>1. k - 1 \in 0..m /\ g[k - 1] = f[k - 1]
          OBVIOUS
    <3>2. CASE k <= m
      <4>1. k \in 1..m /\ g[k] = f[k]
            BY <3>2
      <4> HIDE DEF g
      <4> QED BY <2>1, <3>1, <4>1
    <3>3. CASE k = m + 1
      <4>1. g[k] = step[<<f[m], m + 1>>] /\ k - 1 = m
            BY <3>3
      <4> HIDE DEF g
      <4> QED BY <3>1, <3>3, <4>1
    <3> QED BY <3>2, <3>3
  <2> HIDE DEF g
  <2> QED BY <2>2, <2>3, <2>4
<1> HIDE DEF S
<1>3. Nat \subseteq S
      BY <1>1, <1>2, Induction
<1>4. Upto(N)
  <2> HIDE DEF Upto
  <2> QED BY <1>0, <1>3 DEF S
<1> QED BY <1>4 DEF HasRun


-----------------------------------------------------------------------------
\* The parent of a place in the heap.
Up(j) == (j - 1) \div 2

LEMMA Parents ==
  /\ \A j \in Nat \ {0} : Up(j) \in Nat /\ Up(j) < j
  /\ \A j \in Nat \ {0}, i \in Nat : Up(j) = i <=> j = 2 * i + 1 \/ j = 2 * i + 2
  BY DEF Up

Entries == [deadline : Deadlines, timer : Timer]
Heaps(n) == [heap : [0..(n - 1) -> Entries], pos : [Timer -> Int]]

\* Every timer knows its place, and has one if it is active.
Tracked(h, n) == /\ h \in Heaps(n)
                 /\ \A i \in 0..(n - 1) : h.pos[h.heap[i].timer] = i
                 /\ \A t \in Timer : h.pos[t] # -1 => h.pos[t] \in 0..(n - 1) /\ h.heap[h.pos[t]].timer = t

Sifts(n) == {g \in [h : Heaps(n), index : 0..(n - 1)] : Tracked(g.h, n)}

\* Two entries change places.
Exchanged(h, s, n, i, j) ==
    /\ Tracked(s, n) /\ s.heap[i] = h.heap[j] /\ s.heap[j] = h.heap[i]
    /\ \A k \in 0..(n - 1) : k # i /\ k # j => s.heap[k] = h.heap[k]

LEMMA Swapped ==
  ASSUME NEW n \in Nat, NEW h, Tracked(h, n), NEW i \in 0..(n - 1), NEW j \in 0..(n - 1), i # j
  PROVE  Exchanged(h, TH!Swap(h, i, j), n, i, j)
<1> DEFINE a == h.heap[i]  b == h.heap[j]  s == TH!Swap(h, i, j)
           q == [[h.heap EXCEPT ![i] = b] EXCEPT ![j] = a]
           p == [[h.pos EXCEPT ![b.timer] = i] EXCEPT ![a.timer] = j]
<1>0. /\ h.heap \in [0..(n - 1) -> Entries] /\ h.pos \in [Timer -> Int]
      /\ \A k \in 0..(n - 1) : h.heap[k] \in Entries /\ h.heap[k].timer \in Timer /\ h.pos[h.heap[k].timer] = k
      /\ \A t \in Timer : h.pos[t] # -1 => h.pos[t] \in 0..(n - 1) /\ h.heap[h.pos[t]].timer = t
      BY DEF Tracked, Heaps, Entries
<1>1. s = [heap |-> q, pos |-> p]
      BY DEF TH!Swap, TH!Put
<1>2. a \in Entries /\ b \in Entries /\ a.timer \in Timer /\ b.timer \in Timer /\ a.timer # b.timer
      BY <1>0
<1>3. q \in [0..(n - 1) -> Entries] /\ q[i] = b /\ q[j] = a /\ \A k \in 0..(n - 1) : k # i /\ k # j => q[k] = h.heap[k]
      BY <1>0, <1>2
<1>4. p \in [Timer -> Int] /\ p[b.timer] = i /\ p[a.timer] = j
      /\ \A t \in Timer : t # a.timer /\ t # b.timer => p[t] = h.pos[t]
      BY <1>0, <1>2
<1> HIDE DEF q, p
<1>5. s.heap = q /\ s.pos = p /\ s \in Heaps(n)
      BY <1>1, <1>3, <1>4 DEF Heaps
<1> HIDE DEF s
<1>6. ASSUME NEW k \in 0..(n - 1) PROVE p[q[k].timer] = k
  <2>1. CASE k = i
        BY <1>3, <1>4, <2>1
  <2>2. CASE k = j
        BY <1>3, <1>4, <2>2
  <2>3. CASE k # i /\ k # j
    <3>1. q[k] = h.heap[k] /\ h.heap[k].timer # a.timer /\ h.heap[k].timer # b.timer /\ h.heap[k].timer \in Timer
          BY <1>0, <1>3, <2>3
    <3> QED BY <1>0, <1>4, <3>1
  <2> QED BY <2>1, <2>2, <2>3
<1>7. ASSUME NEW t \in Timer, p[t] # -1 PROVE p[t] \in 0..(n - 1) /\ q[p[t]].timer = t
  <2>1. CASE t = a.timer
        BY <1>3, <1>4, <2>1
  <2>2. CASE t = b.timer
        BY <1>3, <1>4, <2>2
  <2>3. CASE t # a.timer /\ t # b.timer
    <3>1. p[t] = h.pos[t] /\ h.pos[t] \in 0..(n - 1) /\ h.heap[h.pos[t]].timer = t
          BY <1>0, <1>4, <1>7, <2>3
    <3>2. h.pos[t] # i /\ h.pos[t] # j
          BY <2>3, <3>1
    <3> QED BY <1>3, <3>1, <3>2
  <2> QED BY <2>1, <2>2, <2>3
<1>8. Tracked(s, n)
      BY <1>5, <1>6, <1>7 DEF Tracked
<1> QED BY <1>3, <1>5, <1>8 DEF s, Exchanged

Due(g, j) == g.h.heap[j].deadline

\* What there is in a state of the loops.
LEMMA SiftFacts ==
  ASSUME NEW n \in Nat, NEW g \in Sifts(n)
  PROVE  /\ g.index \in 0..(n - 1) /\ Tracked(g.h, n) /\ DOMAIN g.h.heap = 0..(n - 1)
         /\ \A j \in 0..(n - 1) : Due(g, j) \in Int
         /\ g.h \in Heaps(n) /\ n > 0
<1>1. Deadlines \subseteq Int
      BY InstanceConstants DEF TH!HeapConstants
<1>2. g.index \in 0..(n - 1) /\ Tracked(g.h, n) /\ g.h \in Heaps(n)
      BY DEF Sifts
<1>3. g.h.heap \in [0..(n - 1) -> Entries]
      BY <1>2 DEF Heaps
<1>4. \A j \in 0..(n - 1) : g.h.heap[j] \in Entries
      BY <1>3
<1>5. \A j \in 0..(n - 1) : g.h.heap[j].deadline \in Int
      BY <1>1, <1>4 DEF Entries
<1>6. n > 0
      BY <1>2
<1> QED BY <1>2, <1>3, <1>5, <1>6 DEF Due

\* A state after an exchange.
LEMMA SwapSift ==
  ASSUME NEW n \in Nat, NEW g \in Sifts(n), NEW j \in 0..(n - 1), j # g.index,
         NEW r, r = [h |-> TH!Swap(g.h, g.index, j), index |-> j]
  PROVE  /\ r \in Sifts(n) /\ r.index = j /\ Due(r, j) = Due(g, g.index) /\ Due(r, g.index) = Due(g, j)
         /\ \A k \in 0..(n - 1) : k # j /\ k # g.index => Due(r, k) = Due(g, k)
<1>1. g.index \in 0..(n - 1) /\ Tracked(g.h, n)
      BY SiftFacts
<1>2. /\ Tracked(r.h, n)
      /\ r.h.heap[g.index] = g.h.heap[j] /\ r.h.heap[j] = g.h.heap[g.index]
      /\ \A k \in 0..(n - 1) : k # g.index /\ k # j => r.h.heap[k] = g.h.heap[k]
  <2> DEFINE i == g.index  h == g.h
  <2>1. r.h = TH!Swap(h, i, j)
        OBVIOUS
  <2>2. i \in 0..(n - 1) /\ Tracked(h, n) /\ i # j
        BY <1>1
  <2> HIDE DEF i, h
  <2>3. Exchanged(h, r.h, n, i, j)
        BY <2>1, <2>2, Swapped
  <2> QED BY <2>3 DEF i, h, Exchanged
<1>3. r.h \in Heaps(n) /\ r.index = j
      BY <1>2 DEF Tracked
<1>4. r \in [h : Heaps(n), index : 0..(n - 1)]
      BY <1>3
<1> QED BY <1>2, <1>3, <1>4 DEF Sifts, Due

Edge(g, j) == Due(g, Up(j)) <= Due(g, j)
\* In SiftUp only the entry that rises may be earlier than its parent.
Rising(g, n) == /\ \A j \in 1..(n - 1) : j # g.index => Edge(g, j)
                /\ g.index # 0 => \A c \in 1..(n - 1) : Up(c) = g.index => Due(g, Up(g.index)) <= Due(g, c)
Risen(g) == g.index = 0 \/ Due(g, g.index) > Due(g, Up(g.index))

\* A turn of SiftUp.
LEMMA RiseTurn ==
  ASSUME NEW n \in Nat, NEW g \in Sifts(n)
  PROVE  /\ TH!Rise(g) \in Sifts(n)
         /\ Risen(g) => TH!Rise(g) = g
         /\ ~Risen(g) => TH!Rise(g).index < g.index
         /\ Rising(g, n) => Rising(TH!Rise(g), n)
<1> DEFINE i == g.index  u == Up(i)  r == TH!Rise(g)
<1>0. i \in 0..(n - 1) /\ \A j \in 0..(n - 1) : Due(g, j) \in Int
      BY SiftFacts
<1>1. Risen(g) => r = g
      BY DEF TH!Rise, Risen, Due, Up
<1>2. ASSUME ~Risen(g)
      PROVE  r \in Sifts(n) /\ r.index < i /\ (Rising(g, n) => Rising(r, n))
  <2>1. i # 0 /\ i \in Nat \ {0} /\ ~(Due(g, i) > Due(g, u)) /\ r = [h |-> TH!Swap(g.h, g.index, u), index |-> u]
        BY <1>0, <1>2 DEF TH!Rise, Risen, Due, Up
  <2>2. u \in 0..(n - 1) /\ u < i /\ u # i
        BY <1>0, <2>1, Parents
  <2>3. /\ r \in Sifts(n) /\ r.index = u /\ Due(r, u) = Due(g, i) /\ Due(r, i) = Due(g, u)
        /\ \A k \in 0..(n - 1) : k # u /\ k # i => Due(r, k) = Due(g, k)
    <3> HIDE DEF u, r
    <3> QED BY <2>1, <2>2, SwapSift
  <2>p. \A j \in 1..(n - 1) : Up(j) \in 0..(n - 1) /\ Up(j) < j
        BY Parents
  <2> HIDE DEF r
  <2>4. ASSUME Rising(g, n), NEW j \in 1..(n - 1), j # u PROVE Edge(r, j)
    <3>d. Due(g, j) \in Int /\ Due(g, i) \in Int /\ Due(g, u) \in Int /\ Due(g, i) <= Due(g, u)
          BY <1>0, <2>1, <2>2
    <3>1. CASE j = i
          BY <2>3, <3>1, <3>d DEF Edge
    <3>2. CASE j # i /\ Up(j) = u
      <4>1. Edge(g, j) /\ Due(r, j) = Due(g, j) /\ Due(r, u) = Due(g, i)
            BY <2>3, <2>4, <3>2 DEF Rising
      <4> QED BY <3>2, <3>d, <4>1 DEF Edge
    <3>3. CASE j # i /\ Up(j) = i
      <4>1. Due(g, u) <= Due(g, j) /\ Due(r, j) = Due(g, j) /\ Due(r, i) = Due(g, u)
            BY <2>1, <2>3, <2>4, <3>3 DEF Rising
      <4> QED BY <3>3, <4>1 DEF Edge
    <3>4. CASE j # i /\ Up(j) # u /\ Up(j) # i
      <4>1. Edge(g, j) /\ Due(r, j) = Due(g, j) /\ Due(r, Up(j)) = Due(g, Up(j))
            BY <2>3, <2>4, <2>p, <3>4 DEF Rising
      <4> QED BY <4>1 DEF Edge
    <3> QED BY <3>1, <3>2, <3>3, <3>4
  <2>5. ASSUME Rising(g, n), u # 0, NEW c \in 1..(n - 1), Up(c) = u PROVE Due(r, Up(u)) <= Due(r, c)
    <3>1. u \in 1..(n - 1) /\ Up(u) \in 0..(n - 1) /\ Up(u) # u /\ Up(u) # i /\ c # u
          BY <2>2, <2>5, <2>p
    <3>2. Due(r, Up(u)) = Due(g, Up(u)) /\ Due(g, Up(u)) <= Due(g, u) /\ Due(g, Up(u)) \in Int
          BY <1>0, <2>2, <2>3, <2>5, <3>1 DEF Rising, Edge
    <3>3. CASE c = i
          BY <2>3, <3>2, <3>3
    <3>4. CASE c # i
      <4>1. Due(r, c) = Due(g, c) /\ Due(g, u) <= Due(g, c) /\ Due(g, c) \in Int /\ Due(g, u) \in Int
            BY <1>0, <2>2, <2>3, <2>5, <3>1, <3>4 DEF Rising, Edge
      <4> QED BY <3>2, <4>1
    <3> QED BY <3>3, <3>4
  <2> QED BY <2>2, <2>3, <2>4, <2>5 DEF Rising
<1> QED BY <1>1, <1>2

\* In SiftDown from i0, the entry that falls may be later than its children, and the one
\* at i0 earlier than its parent as long as nothing has moved.
Falling(g, n, i0) ==
    /\ g.index >= i0
    /\ \A j \in 1..(n - 1) : (j # i0 \/ g.index # i0) /\ Up(j) # g.index => Edge(g, j)
    /\ g.index # 0 => \A c \in 1..(n - 1) : Up(c) = g.index => Due(g, Up(g.index)) <= Due(g, c)
Fallen(g, n) == \A c \in 1..(n - 1) : Up(c) = g.index => Due(g, g.index) <= Due(g, c)

\* The place that SiftDown chooses.
LEMMA Chosen ==
  ASSUME NEW n \in Nat, NEW g \in Sifts(n)
  PROVE  \E s \in 0..(n - 1) :
            /\ s = g.index \/ s = 2 * g.index + 1 \/ s = 2 * g.index + 2
            /\ s # g.index => Due(g, s) < Due(g, g.index)
            /\ \A c \in 1..(n - 1) : Up(c) = g.index => Due(g, s) <= Due(g, c)
            /\ TH!Fall(g) = IF s = g.index THEN g ELSE [h |-> TH!Swap(g.h, g.index, s), index |-> s]
<1> DEFINE i == g.index
           a == IF 2 * i + 1 \in 0..(n - 1) /\ Due(g, i) > Due(g, 2 * i + 1) THEN 2 * i + 1 ELSE i
           s == IF 2 * i + 2 \in 0..(n - 1) /\ Due(g, a) > Due(g, 2 * i + 2) THEN 2 * i + 2 ELSE a
<1>0. /\ i \in 0..(n - 1) /\ DOMAIN g.h.heap = 0..(n - 1)
      /\ \A j \in 0..(n - 1) : Due(g, j) \in Int
      BY SiftFacts
<1>1. TH!Fall(g) = IF s = g.index THEN g ELSE [h |-> TH!Swap(g.h, g.index, s), index |-> s]
  <2>1. i * 2 + 1 = 2 * i + 1 /\ i * 2 + 2 = 2 * i + 2
        BY <1>0
  <2> QED BY <1>0, <2>1 DEF TH!Fall, Due
<1>2. a \in 0..(n - 1) /\ (a = i \/ a = 2 * i + 1) /\ (a # i => Due(g, a) < Due(g, i))
      /\ (2 * i + 1 \in 0..(n - 1) => Due(g, a) <= Due(g, 2 * i + 1)) /\ Due(g, a) <= Due(g, i)
      BY <1>0
<1> HIDE DEF a
<1>3. s \in 0..(n - 1) /\ (s = a \/ s = 2 * i + 2) /\ (s # a => Due(g, s) < Due(g, a))
      /\ (2 * i + 2 \in 0..(n - 1) => Due(g, s) <= Due(g, 2 * i + 2)) /\ Due(g, s) <= Due(g, a)
      BY <1>0, <1>2
<1> HIDE DEF s
<1>d. Due(g, s) \in Int /\ Due(g, a) \in Int /\ Due(g, i) \in Int
      BY <1>0, <1>2, <1>3
<1>4. (s = i \/ s = 2 * i + 1 \/ s = 2 * i + 2) /\ (s # i => Due(g, s) < Due(g, i))
      BY <1>2, <1>3, <1>d
<1>5. ASSUME NEW c \in 1..(n - 1), Up(c) = i PROVE Due(g, s) <= Due(g, c)
  <2>1. c = 2 * i + 1 \/ c = 2 * i + 2
    <3> HIDE DEF i
    <3>1. i \in Nat /\ c \in Nat \ {0}
          BY <1>0
    <3> QED BY <1>5, <3>1, Parents
  <2>2. CASE c = 2 * i + 1
    <3>1. Due(g, a) <= Due(g, c) /\ Due(g, c) \in Int
          BY <1>0, <1>2, <2>2
    <3> QED BY <1>3, <1>d, <3>1
  <2>3. CASE c = 2 * i + 2
        BY <1>3, <2>3
  <2> QED BY <2>1, <2>2, <2>3
<1> QED BY <1>1, <1>3, <1>4, <1>5

\* A turn of SiftDown.
LEMMA FallTurn ==
  ASSUME NEW n \in Nat, NEW g \in Sifts(n)
  PROVE  /\ TH!Fall(g) \in Sifts(n)
         /\ TH!Fall(g) = g <=> Fallen(g, n)
         /\ TH!Fall(g) # g => TH!Fall(g).index > g.index
         /\ \A i0 \in Nat : Falling(g, n, i0) => Falling(TH!Fall(g), n, i0)
<1> DEFINE i == g.index  r == TH!Fall(g)
<1>0. i \in 0..(n - 1) /\ \A j \in 0..(n - 1) : Due(g, j) \in Int
      BY SiftFacts
<1>1. PICK s \in 0..(n - 1) :
         /\ s = i \/ s = 2 * i + 1 \/ s = 2 * i + 2
         /\ s # i => Due(g, s) < Due(g, i)
         /\ \A c \in 1..(n - 1) : Up(c) = i => Due(g, s) <= Due(g, c)
         /\ r = IF s = i THEN g ELSE [h |-> TH!Swap(g.h, g.index, s), index |-> s]
      BY Chosen
<1> HIDE DEF r
<1>2. CASE s = i
      BY <1>1, <1>2 DEF Fallen, r
<1>3. CASE s # i
  <2>1. s > i /\ s \in 1..(n - 1) /\ Up(s) = i /\ Due(g, s) < Due(g, i)
        BY <1>0, <1>1, <1>3, Parents
  <2>2. /\ r \in Sifts(n) /\ r.index = s /\ Due(r, s) = Due(g, i) /\ Due(r, i) = Due(g, s)
        /\ \A k \in 0..(n - 1) : k # s /\ k # i => Due(r, k) = Due(g, k)
    <3>1. r = [h |-> TH!Swap(g.h, g.index, s), index |-> s]
          BY <1>1, <1>3
    <3> QED BY <1>3, <3>1, SwapSift
  <2>3. r # g
        BY <1>3, <2>2
  <2>f. ~Fallen(g, n)
    <3>1. Due(g, s) \in Int /\ Due(g, i) \in Int
          BY <1>0
    <3> QED BY <2>1, <3>1 DEF Fallen
  <2>p. \A j \in 1..(n - 1) : Up(j) \in 0..(n - 1) /\ Up(j) < j
        BY Parents
  <2>4. ASSUME NEW i0 \in Nat, Falling(g, n, i0) PROVE Falling(r, n, i0)
    <3>1. r.index >= i0 /\ r.index # i0 /\ s > i0 /\ i >= i0
          BY <1>0, <2>1, <2>2, <2>4 DEF Falling
    <3>2. ASSUME NEW j \in 1..(n - 1), Up(j) # s PROVE Edge(r, j)
      <4>d. Due(g, j) \in Int /\ Due(g, s) \in Int /\ Due(g, i) \in Int
            BY <1>0
      <4>1. CASE Up(j) = i
        <5>1. CASE j = s
              BY <2>1, <2>2, <4>d, <5>1 DEF Edge
        <5>2. CASE j # s
          <6>1. j # i /\ Due(r, j) = Due(g, j) /\ Due(g, s) <= Due(g, j)
                BY <1>1, <2>2, <2>p, <4>1, <5>2
          <6> QED BY <2>2, <4>1, <6>1 DEF Edge
        <5> QED BY <5>1, <5>2
      <4>2. CASE Up(j) # i /\ j = i
        <5>1. i # 0 /\ Due(g, Up(i)) <= Due(g, s) /\ Up(i) # s /\ Up(i) # i
              BY <2>1, <2>4, <2>p, <3>2, <4>2 DEF Falling
        <5>2. Due(r, Up(i)) = Due(g, Up(i)) /\ Due(r, i) = Due(g, s)
              BY <2>2, <2>p, <4>2, <5>1
        <5> QED BY <4>2, <5>1, <5>2 DEF Edge
      <4>3. CASE Up(j) # i /\ j # i
        <5>1. j # s
              BY <2>1, <4>3
        <5>2. Due(r, j) = Due(g, j) /\ Due(r, Up(j)) = Due(g, Up(j))
              BY <2>2, <2>p, <3>2, <4>3, <5>1
        <5>3. j # i0 \/ i # i0
              BY <4>3
        <5>4. Edge(g, j)
              BY <2>4, <4>3, <5>3 DEF Falling
        <5> QED BY <5>2, <5>4 DEF Edge
      <4> QED BY <4>1, <4>2, <4>3
    <3>3. ASSUME NEW c \in 1..(n - 1), Up(c) = s PROVE Due(r, Up(s)) <= Due(r, c)
      <4>1. c # s /\ c # i /\ c > s /\ c # i0
            BY <1>0, <2>1, <2>p, <3>1, <3>3
      <4>2. Edge(g, c) /\ Due(r, c) = Due(g, c)
            BY <1>3, <2>2, <2>4, <3>3, <4>1 DEF Falling
      <4> QED BY <2>1, <2>2, <3>3, <4>2 DEF Edge
    <3> QED BY <2>2, <3>1, <3>2, <3>3 DEF Falling
  <2> QED BY <2>1, <2>2, <2>3, <2>f, <2>4 DEF r
<1> QED BY <1>2, <1>3

\* The heap is in order.
InOrder(h, n) == \A j \in 1..(n - 1) : h.heap[Up(j)].deadline <= h.heap[j].deadline

\* The loops have an outcome after every turn.
Turned(T, N, x, turn) == \E f \in [0..N -> T] : f[0] = x /\ \A k \in 1..N : f[k] = turn[f[k - 1]]

LEMMA SiftLoop ==
  ASSUME NEW T, NEW N \in Nat, NEW x \in T, NEW turn \in [T -> T]
  PROVE  Turned(T, N, x, turn)
<1> DEFINE step == [hp \in T \X (1..N) |-> turn[hp[1]]]
<1>1. step \in [T \X (1..N) -> T]
  <2>1. \A hp \in T \X (1..N) : turn[hp[1]] \in T
    <3> SUFFICES ASSUME NEW hp \in T \X (1..N) PROVE turn[hp[1]] \in T
        OBVIOUS
    <3>1. hp[1] \in T
          OBVIOUS
    <3> QED BY <3>1
  <2> QED BY <2>1
<1>2. \A y \in T, k \in 1..N : step[<<y, k>>] = turn[y]
      OBVIOUS
<1> HIDE DEF step
<1>3. IsLoop(T, N, x, step)
      BY <1>1 DEF IsLoop
<1>4. HasRun(T, N, x, step)
      BY <1>3, Turns
<1>5. PICK f \in [0..N -> T] : f[0] = x /\ \A k \in 1..N : f[k] = step[<<f[k - 1], k>>]
      BY <1>4 DEF HasRun
<1>6. ASSUME NEW k \in 1..N PROVE f[k] = turn[f[k - 1]]
  <2>1. f[k - 1] \in T
        OBVIOUS
  <2> QED BY <1>2, <1>5, <2>1
<1> QED BY <1>5, <1>6 DEF Turned

RiseRule(h, i, f) == f = [k \in 0..i |-> IF k = 0 THEN [h |-> h, index |-> i] ELSE TH!Rise(f[k - 1])]
FallRule(h, i, N, f) == f = [k \in 0..N |-> IF k = 0 THEN [h |-> h, index |-> i] ELSE TH!Fall(f[k - 1])]

\* SiftUp puts the one entry that may be too early in its place.
LEMMA SiftUpWorks ==
  ASSUME NEW n \in Nat, NEW h, Tracked(h, n), NEW i \in 0..(n - 1), Rising([h |-> h, index |-> i], n)
  PROVE  Tracked(TH!SiftUp(h, i), n) /\ InOrder(TH!SiftUp(h, i), n)
<1> DEFINE x == [h |-> h, index |-> i]
<1>0. x \in Sifts(n) /\ i \in Nat
      BY DEF Sifts, Tracked
<1>x. Rising(x, n)
      OBVIOUS
<1>1. \E f : RiseRule(h, i, f)
  <2> DEFINE turn == [g \in Sifts(n) |-> TH!Rise(g)]
  <2>1. turn \in [Sifts(n) -> Sifts(n)]
        BY RiseTurn
  <2>2. \A g \in Sifts(n) : turn[g] = TH!Rise(g)
        OBVIOUS
  <2> HIDE DEF turn, x
  <2>r. Turned(Sifts(n), i, x, turn)
        BY <1>0, <2>1, SiftLoop
  <2>3. PICK f \in [0..i -> Sifts(n)] : f[0] = x /\ \A k \in 1..i : f[k] = turn[f[k - 1]]
        BY <2>r DEF Turned
  <2>4. ASSUME NEW k \in 0..i PROVE f[k] = IF k = 0 THEN x ELSE TH!Rise(f[k - 1])
    <3>1. CASE k = 0
          BY <2>3, <3>1
    <3>2. CASE k # 0
      <4>1. k \in 1..i /\ f[k - 1] \in Sifts(n)
            BY <1>0, <3>2
      <4> QED BY <2>2, <2>3, <3>2, <4>1
    <3> QED BY <3>1, <3>2
  <2>5. f = [k \in 0..i |-> f[k]]
        OBVIOUS
  <2>6. f = [k \in 0..i |-> IF k = 0 THEN x ELSE TH!Rise(f[k - 1])]
        BY <2>4, <2>5
  <2> QED BY <2>6 DEF RiseRule, x
<1> DEFINE f == CHOOSE f : RiseRule(h, i, f)
<1>2. RiseRule(h, i, f)
      BY <1>1
<1>3. TH!SiftUp(h, i) = f[i].h
      BY DEF TH!SiftUp, RiseRule
<1> HIDE DEF f
<1>4. f[0] = x /\ \A k \in 1..i : f[k] = TH!Rise(f[k - 1])
      BY <1>0, <1>2 DEF RiseRule
<1> DEFINE Done(k) == f[k] \in Sifts(n) /\ Rising(f[k], n) /\ (Risen(f[k]) \/ f[k].index <= i - k)
           S == {k \in Nat : k <= i => Done(k)}
<1>5. 0 \in S
  <2>1. x.index <= i - 0
        BY <1>0
  <2> HIDE DEF x
  <2>2. Done(0)
        BY <1>0, <1>4, <1>x, <2>1
  <2> QED BY <2>2
<1>6. ASSUME NEW k \in Nat, k \in S PROVE k + 1 \in S
  <2> SUFFICES ASSUME k + 1 <= i PROVE Done(k + 1)
    <3> HIDE DEF Done
    <3> QED OBVIOUS
  <2>1. Done(k)
    <3> HIDE DEF Done
    <3> QED BY <1>0, <1>6
  <2>2. f[k + 1] = TH!Rise(f[k])
    <3>1. k + 1 \in 1..i /\ (k + 1) - 1 = k
          BY <1>0
    <3> QED BY <1>4, <3>1
  <2> DEFINE g == f[k]
  <2>3. g \in Sifts(n) /\ Rising(g, n) /\ (Risen(g) \/ g.index <= i - k)
        BY <2>1
  <2> HIDE DEF g
  <2>4. g.index \in 0..(n - 1)
        BY <2>3, SiftFacts
  <2>5. /\ TH!Rise(g) \in Sifts(n) /\ Rising(TH!Rise(g), n)
        /\ Risen(g) => TH!Rise(g) = g
        /\ ~Risen(g) => TH!Rise(g).index < g.index
        BY <2>3, RiseTurn
  <2>6. TH!Rise(g).index \in 0..(n - 1)
        BY <2>5, SiftFacts
  <2>7. Risen(TH!Rise(g)) \/ TH!Rise(g).index <= i - (k + 1)
    <3>1. CASE Risen(g)
          BY <2>5, <3>1
    <3>2. CASE ~Risen(g)
          BY <1>0, <2>3, <2>4, <2>5, <2>6, <3>2
    <3> QED BY <3>1, <3>2
  <2> QED BY <2>2, <2>5, <2>7 DEF g
<1> HIDE DEF S
<1>7. Nat \subseteq S
      BY <1>5, <1>6, Induction
<1>8. Done(i)
  <2> HIDE DEF Done
  <2> QED BY <1>0, <1>7 DEF S
<1> DEFINE g == f[i]
<1>9. g \in Sifts(n) /\ Rising(g, n) /\ (Risen(g) \/ g.index <= i - i)
      BY <1>8
<1> HIDE DEF g, Done
<1>10. g.index \in 0..(n - 1) /\ Tracked(g.h, n) /\ \A j \in 0..(n - 1) : Due(g, j) \in Int
       BY <1>9, SiftFacts
<1>11. Risen(g)
       BY <1>0, <1>9, <1>10 DEF Risen
<1>12. ASSUME NEW j \in 1..(n - 1) PROVE Edge(g, j)
  <2>1. CASE j # g.index
        BY <1>9, <2>1 DEF Rising
  <2>2. CASE j = g.index
    <3>1. j \in Nat \ {0} /\ Up(j) \in 0..(n - 1)
          BY Parents
    <3>2. Due(g, j) > Due(g, Up(j)) /\ Due(g, j) \in Int /\ Due(g, Up(j)) \in Int
          BY <1>10, <1>11, <2>2, <3>1 DEF Risen
    <3> QED BY <3>2 DEF Edge
  <2> QED BY <2>1, <2>2
<1>13. InOrder(g.h, n)
       BY <1>12 DEF InOrder, Edge, Due
<1> QED BY <1>3, <1>10, <1>13 DEF g

\* SiftDown leaves at most the entry at the place where it began too early.
LEMMA SiftDownWorks ==
  ASSUME NEW n \in Nat, NEW h, Tracked(h, n), NEW i \in 0..(n - 1), Falling([h |-> h, index |-> i], n, i)
  PROVE  Tracked(TH!SiftDown(h, i), n) /\ Rising([h |-> TH!SiftDown(h, i), index |-> i], n)
<1> DEFINE x == [h |-> h, index |-> i]
<1>0. x \in Sifts(n) /\ i \in Nat
      BY DEF Sifts, Tracked
<1>x. Falling(x, n, i)
      OBVIOUS
<1>c. TH!Cardinality(DOMAIN h.heap) = n
  <2>1. DOMAIN h.heap = 0..(n - 1)
        BY DEF Tracked, Heaps
  <2>2. Cardinality(0..(n - 1)) = n
        BY FS_Interval
  <2> QED BY <2>1, <2>2 DEF TH!Cardinality, Cardinality
<1>1. \E f : FallRule(h, i, n, f)
  <2> DEFINE turn == [g \in Sifts(n) |-> TH!Fall(g)]
  <2>1. turn \in [Sifts(n) -> Sifts(n)]
        BY FallTurn
  <2>2. \A g \in Sifts(n) : turn[g] = TH!Fall(g)
        OBVIOUS
  <2> HIDE DEF turn, x
  <2>r. Turned(Sifts(n), n, x, turn)
        BY <1>0, <2>1, SiftLoop
  <2>3. PICK f \in [0..n -> Sifts(n)] : f[0] = x /\ \A k \in 1..n : f[k] = turn[f[k - 1]]
        BY <2>r DEF Turned
  <2>4. ASSUME NEW k \in 0..n PROVE f[k] = IF k = 0 THEN x ELSE TH!Fall(f[k - 1])
    <3>1. CASE k = 0
          BY <2>3, <3>1
    <3>2. CASE k # 0
      <4>1. k \in 1..n /\ f[k - 1] \in Sifts(n)
            BY <1>0, <3>2
      <4> QED BY <2>2, <2>3, <3>2, <4>1
    <3> QED BY <3>1, <3>2
  <2>5. f = [k \in 0..n |-> f[k]]
        OBVIOUS
  <2>6. f = [k \in 0..n |-> IF k = 0 THEN x ELSE TH!Fall(f[k - 1])]
        BY <2>4, <2>5
  <2> QED BY <2>6 DEF FallRule, x
<1> DEFINE f == CHOOSE f : FallRule(h, i, n, f)
<1>2. FallRule(h, i, n, f)
      BY <1>1
<1>3. TH!SiftDown(h, i) = f[n].h
      BY <1>c DEF TH!SiftDown, FallRule
<1> HIDE DEF f
<1>4. f[0] = x /\ \A k \in 1..n : f[k] = TH!Fall(f[k - 1])
      BY <1>0, <1>2 DEF FallRule
<1> DEFINE Done(k) == f[k] \in Sifts(n) /\ Falling(f[k], n, i) /\ (Fallen(f[k], n) \/ f[k].index >= i + k)
           S == {k \in Nat : k <= n => Done(k)}
<1>5. 0 \in S
  <2>1. x.index >= i + 0
        BY <1>0
  <2> HIDE DEF x
  <2>2. Done(0)
        BY <1>0, <1>4, <1>x, <2>1
  <2> QED BY <2>2
<1>6. ASSUME NEW k \in Nat, k \in S PROVE k + 1 \in S
  <2> SUFFICES ASSUME k + 1 <= n PROVE Done(k + 1)
    <3> HIDE DEF Done
    <3> QED OBVIOUS
  <2>1. Done(k)
    <3> HIDE DEF Done
    <3> QED BY <1>0, <1>6
  <2>2. f[k + 1] = TH!Fall(f[k])
    <3>1. k + 1 \in 1..n /\ (k + 1) - 1 = k
          BY <1>0
    <3> QED BY <1>4, <3>1
  <2> DEFINE g == f[k]
  <2>3. g \in Sifts(n) /\ Falling(g, n, i) /\ (Fallen(g, n) \/ g.index >= i + k)
        BY <2>1
  <2> HIDE DEF g
  <2>4. g.index \in 0..(n - 1)
        BY <2>3, SiftFacts
  <2>5. /\ TH!Fall(g) \in Sifts(n) /\ Falling(TH!Fall(g), n, i)
        /\ TH!Fall(g) = g => Fallen(g, n)
        /\ TH!Fall(g) # g => TH!Fall(g).index > g.index
        BY <1>0, <2>3, FallTurn
  <2>6. TH!Fall(g).index \in 0..(n - 1)
        BY <2>5, SiftFacts
  <2>7. Fallen(TH!Fall(g), n) \/ TH!Fall(g).index >= i + (k + 1)
    <3>1. CASE TH!Fall(g) = g
          BY <2>5, <3>1
    <3>2. CASE TH!Fall(g) # g
      <4>1. ~Fallen(g, n)
            BY <2>3, <3>2, FallTurn
      <4> QED BY <1>0, <2>3, <2>4, <2>5, <2>6, <3>2, <4>1
    <3> QED BY <3>1, <3>2
  <2> QED BY <2>2, <2>5, <2>7 DEF g
<1> HIDE DEF S
<1>7. Nat \subseteq S
      BY <1>5, <1>6, Induction
<1>8. Done(n)
  <2> HIDE DEF Done
  <2> QED BY <1>0, <1>7 DEF S
<1> DEFINE g == f[n]
<1>9. g \in Sifts(n) /\ Falling(g, n, i) /\ (Fallen(g, n) \/ g.index >= i + n)
      BY <1>8
<1> HIDE DEF g, Done
<1>10. g.index \in 0..(n - 1) /\ Tracked(g.h, n) /\ \A j \in 0..(n - 1) : Due(g, j) \in Int
       BY <1>9, SiftFacts
<1>11. Fallen(g, n)
       BY <1>0, <1>9, <1>10
<1> DEFINE r == [h |-> g.h, index |-> i]
<1>12. \A j \in 0..(n - 1) : Due(r, j) = Due(g, j)
       BY DEF Due
<1>p. \A j \in 1..(n - 1) : Up(j) \in 0..(n - 1)
      BY Parents
<1>13. \A j \in 1..(n - 1) : Edge(g, j) <=> Edge(r, j)
       BY <1>12, <1>p DEF Edge
<1>14. r.index = i
       OBVIOUS
<1> HIDE DEF r
<1>15. CASE g.index = i
  <2>1. ASSUME NEW j \in 1..(n - 1), j # i PROVE Edge(r, j)
    <3>1. CASE Up(j) = i
          BY <1>11, <1>13, <1>15, <2>1, <3>1 DEF Fallen, Edge
    <3>2. CASE Up(j) # i
      <4>1. Edge(g, j)
            BY <1>9, <1>15, <2>1, <3>2 DEF Falling
      <4> QED BY <1>13, <4>1
    <3> QED BY <3>1, <3>2
  <2>2. ASSUME i # 0, NEW c \in 1..(n - 1), Up(c) = i PROVE Due(r, Up(i)) <= Due(r, c)
    <3>1. Due(g, Up(i)) <= Due(g, c) /\ i \in 1..(n - 1)
          BY <1>9, <1>15, <2>2 DEF Falling
    <3> QED BY <1>12, <1>p, <3>1
  <2>3. Rising(r, n)
        BY <1>14, <2>1, <2>2 DEF Rising
  <2> QED BY <1>3, <1>10, <2>3 DEF g, r
<1>16. CASE g.index # i
  <2>1. ASSUME NEW j \in 1..(n - 1) PROVE Edge(g, j)
    <3>1. CASE Up(j) = g.index
          BY <1>11, <3>1 DEF Fallen, Edge
    <3>2. CASE Up(j) # g.index
          BY <1>9, <1>16, <3>2 DEF Falling
    <3> QED BY <3>1, <3>2
  <2>2. ASSUME i # 0, NEW c \in 1..(n - 1), Up(c) = i PROVE Due(r, Up(i)) <= Due(r, c)
    <3>0. i \in 1..(n - 1) /\ Up(i) \in 0..(n - 1)
          BY <1>p, <2>2
    <3>1. Due(g, Up(i)) <= Due(g, i) /\ Due(g, i) <= Due(g, c)
          BY <2>1, <2>2, <3>0 DEF Edge
    <3>2. Due(g, Up(i)) \in Int /\ Due(g, i) \in Int /\ Due(g, c) \in Int
          BY <1>10, <3>0
    <3>3. Due(g, Up(i)) <= Due(g, c)
          BY <3>1, <3>2
    <3> QED BY <1>12, <3>0, <3>3
  <2>3. Rising(r, n)
        BY <1>13, <1>14, <2>1, <2>2 DEF Rising
  <2> QED BY <1>3, <1>10, <2>3 DEF g, r
<1> QED BY <1>15, <1>16

HeapNow == [heap |-> heap_, pos |-> heap_position_]
TimerInv == \E n \in Nat : Tracked(HeapNow, n) /\ InOrder(HeapNow, n)

LEMMA HeapSize ==
  ASSUME NEW n \in Nat, Tracked(HeapNow, n)
  PROVE  /\ TH!size = n /\ heap_ \in [0..(n - 1) -> Entries] /\ heap_position_ \in [Timer -> Int]
         /\ \A k \in 0..(n - 1) : heap_[k] \in Entries /\ heap_[k].timer \in Timer /\ heap_[k].deadline \in Int
                                  /\ heap_position_[heap_[k].timer] = k
         /\ \A t \in Timer : heap_position_[t] # -1 =>
               heap_position_[t] \in 0..(n - 1) /\ heap_[heap_position_[t]].timer = t
<1>1. heap_ \in [0..(n - 1) -> Entries] /\ heap_position_ \in [Timer -> Int]
      BY DEF Tracked, Heaps, HeapNow
<1>2. Cardinality(0..(n - 1)) = n
      BY FS_Interval
<1>3. TH!size = n
      BY <1>1, <1>2 DEF TH!size, TH!Cardinality, Cardinality
<1>4. Deadlines \subseteq Int
      BY InstanceConstants DEF TH!HeapConstants
<1>5. \A k \in 0..(n - 1) : heap_[k] \in Entries /\ heap_[k].timer \in Timer /\ heap_[k].deadline \in Int
      BY <1>1, <1>4 DEF Entries
<1> QED BY <1>1, <1>3, <1>5 DEF Tracked, HeapNow

LEMMA ActivateStep ==
  ASSUME TimerInv, NEW t \in Timer, NEW d \in Deadlines, TH!Activate(t, d)
  PROVE  TimerInv'
<1>1. PICK n \in Nat : Tracked(HeapNow, n) /\ InOrder(HeapNow, n)
      BY DEF TimerInv
<1>2. /\ TH!size = n /\ heap_ \in [0..(n - 1) -> Entries] /\ heap_position_ \in [Timer -> Int]
      /\ \A k \in 0..(n - 1) : heap_[k] \in Entries /\ heap_[k].timer \in Timer /\ heap_[k].deadline \in Int
                                  /\ heap_position_[heap_[k].timer] = k
      /\ \A u \in Timer : heap_position_[u] # -1 =>
               heap_position_[u] \in 0..(n - 1) /\ heap_[heap_position_[u]].timer = u
      BY <1>1, HeapSize
<1> DEFINE e == [deadline |-> d, timer |-> t]
           q == [k \in 0..n |-> IF k = n THEN e ELSE heap_[k]]
           p == [heap_position_ EXCEPT ![t] = n]
           h == [heap |-> q, pos |-> p]
           x == [h |-> h, index |-> n]
<1>3. e \in Entries /\ e.timer = t /\ e.deadline = d
      BY DEF Entries
<1>q. q \in [0..n -> Entries] /\ q[n] = e /\ \A k \in 0..(n - 1) : q[k] = heap_[k]
  <2> HIDE DEF e
  <2>1. \A k \in 0..n : k # n => k \in 0..(n - 1)
        OBVIOUS
  <2> QED BY <1>2, <1>3, <2>1
<1>p. p \in [Timer -> Int] /\ p[t] = n /\ \A u \in Timer : u # t => p[u] = heap_position_[u]
      BY <1>2
<1> DEFINE w == TH!SiftUp(TH!Put([heap |-> TH!Pushed(e), pos |-> heap_position_], n, e), n)
<1>4. heap_position_[t] = -1 /\ heap_' = w.heap /\ heap_position_' = w.pos
      BY <1>2 DEF TH!Activate
<1>5. w = TH!SiftUp(h, n)
  <2>1. TH!Pushed(e) = q
        BY <1>2 DEF TH!Pushed
  <2> HIDE DEF q, e
  <2>2. [q EXCEPT ![n] = e] = q
        BY <1>q
  <2>3. TH!Put([heap |-> q, pos |-> heap_position_], n, e) = h
        BY <1>3, <2>2 DEF TH!Put
  <2> HIDE DEF h
  <2> QED BY <2>1, <2>3
<1> HIDE DEF q, p, w
<1>6. Tracked(h, n + 1)
  <2>0. (n + 1) - 1 = n
        OBVIOUS
  <2>1. h \in Heaps(n + 1) /\ h.heap = q /\ h.pos = p
        BY <1>p, <1>q, <2>0 DEF Heaps
  <2> HIDE DEF h, e
  <2>2. ASSUME NEW k \in 0..n PROVE p[q[k].timer] = k
    <3>1. CASE k = n
          BY <1>3, <1>p, <1>q, <3>1
    <3>2. CASE k # n
      <4>1. k \in 0..(n - 1)
            BY <3>2
      <4>2. heap_[k].timer \in Timer /\ heap_position_[heap_[k].timer] = k /\ heap_[k].timer # t
            BY <1>2, <1>4, <4>1
      <4> QED BY <1>p, <1>q, <4>1, <4>2
    <3> QED BY <3>1, <3>2
  <2>3. ASSUME NEW u \in Timer, p[u] # -1 PROVE p[u] \in 0..n /\ q[p[u]].timer = u
    <3>1. CASE u = t
          BY <1>3, <1>p, <1>q, <3>1
    <3>2. CASE u # t
      <4>1. p[u] = heap_position_[u] /\ p[u] \in 0..(n - 1) /\ heap_[p[u]].timer = u
            BY <1>2, <1>p, <2>3, <3>2
      <4> QED BY <1>q, <4>1
    <3> QED BY <3>1, <3>2
  <2> QED BY <2>0, <2>1, <2>2, <2>3 DEF Tracked
<1>7. Rising(x, n + 1)
  <2>0. (n + 1) - 1 = n
        OBVIOUS
  <2>1. x.index = n /\ (\A k \in 0..n : Due(x, k) = q[k].deadline)
        BY DEF Due
  <2> HIDE DEF x, h, e
  <2>2. ASSUME NEW j \in 1..n, j # n PROVE Edge(x, j)
    <3>1. j \in 1..(n - 1) /\ Up(j) \in 0..(n - 1)
          BY <2>2, Parents
    <3>2. heap_[Up(j)].deadline <= heap_[j].deadline
          BY <1>1, <3>1 DEF InOrder, HeapNow
    <3> QED BY <1>q, <2>1, <3>1, <3>2 DEF Edge
  <2>3. \A c \in 1..n : Up(c) # n
    <3>1. \A c \in 1..n : Up(c) < c /\ Up(c) \in Nat
          BY Parents
    <3> QED BY <3>1
  <2> QED BY <2>0, <2>1, <2>2, <2>3 DEF Rising
<1>8. Tracked(w, n + 1) /\ InOrder(w, n + 1)
  <2>1. n + 1 \in Nat /\ n \in 0..((n + 1) - 1)
        OBVIOUS
  <2> HIDE DEF h
  <2> QED BY <1>5, <1>6, <1>7, <2>1, SiftUpWorks
<1>9. HeapNow' = w
  <2>1. w = [heap |-> w.heap, pos |-> w.pos]
        BY <1>8 DEF Tracked, Heaps
  <2> QED BY <1>4, <2>1 DEF HeapNow
<1>10. Tracked(HeapNow', n + 1) /\ InOrder(HeapNow', n + 1) /\ n + 1 \in Nat
       BY <1>8, <1>9
<1> QED BY <1>10 DEF TimerInv, Tracked, InOrder, Heaps, Entries, HeapNow

LEMMA DeactivateStep ==
  ASSUME TimerInv, NEW t \in Timer, TH!Deactivate(t)
  PROVE  TimerInv'
<1>1. PICK n \in Nat : Tracked(HeapNow, n) /\ InOrder(HeapNow, n)
      BY DEF TimerInv
<1>2. /\ TH!size = n /\ heap_ \in [0..(n - 1) -> Entries] /\ heap_position_ \in [Timer -> Int]
      /\ \A k \in 0..(n - 1) : heap_[k] \in Entries /\ heap_[k].timer \in Timer /\ heap_[k].deadline \in Int
                                  /\ heap_position_[heap_[k].timer] = k
      /\ \A u \in Timer : heap_position_[u] # -1 =>
               heap_position_[u] \in 0..(n - 1) /\ heap_[heap_position_[u]].timer = u
      BY <1>1, HeapSize
<1> DEFINE i == heap_position_[t]
           m == n - 1
           q == [k \in 0..(n - 2) |-> heap_[k]]
           p == [heap_position_ EXCEPT ![t] = -1]
           b == [heap |-> q, pos |-> p]
           e == heap_[m]
<1>3. i \in 0..(n - 1) /\ heap_[i].timer = t /\ i # -1 /\ m \in Nat
      BY <1>2 DEF TH!Deactivate
<1>m. (m - 1) = n - 2 /\ m \in 0..(n - 1) /\ (\A k \in 0..(m - 1) : k \in 0..(n - 1) /\ k # m)
      BY <1>3
<1>q. q \in [0..(m - 1) -> Entries] /\ \A k \in 0..(m - 1) : q[k] = heap_[k]
      BY <1>2, <1>m
<1>p. p \in [Timer -> Int] /\ p[t] = -1 /\ \A u \in Timer : u # t => p[u] = heap_position_[u]
      BY <1>2
<1>e. e \in Entries /\ e.timer \in Timer /\ heap_position_[e.timer] = m
      BY <1>2, <1>m
<1> DEFINE w == IF i = n - 1 THEN b ELSE TH!SiftBoth(TH!Put(b, i, e), i)
<1>4. heap_' = w.heap /\ heap_position_' = w.pos
      BY <1>2 DEF TH!Deactivate
<1>5. CASE i = m
  <2>1. b \in Heaps(m) /\ b.heap = q /\ b.pos = p /\ w = b
        BY <1>5, <1>p, <1>q DEF Heaps
  <2> HIDE DEF b, q, p, w, e
  <2>2. ASSUME NEW k \in 0..(m - 1) PROVE p[q[k].timer] = k
    <3>1. heap_[k].timer \in Timer /\ heap_position_[heap_[k].timer] = k /\ heap_[k].timer # t
          BY <1>2, <1>5, <1>m
    <3> QED BY <1>p, <1>q, <3>1
  <2>3. ASSUME NEW u \in Timer, p[u] # -1 PROVE p[u] \in 0..(m - 1) /\ q[p[u]].timer = u
    <3>1. u # t /\ p[u] = heap_position_[u]
          BY <1>p, <2>3
    <3>2. p[u] \in 0..(n - 1) /\ heap_[p[u]].timer = u /\ p[u] # m
          BY <1>2, <1>3, <1>5, <2>3, <3>1
    <3>3. p[u] \in 0..(m - 1)
          BY <1>3, <3>2
    <3> QED BY <1>q, <3>2, <3>3
  <2>4. Tracked(b, m)
        BY <2>1, <2>2, <2>3 DEF Tracked
  <2>5. InOrder(b, m)
    <3> SUFFICES ASSUME NEW j \in 1..(m - 1) PROVE q[Up(j)].deadline <= q[j].deadline
        BY <2>1 DEF InOrder
    <3>1. j \in 1..(n - 1) /\ j \in 0..(m - 1) /\ Up(j) \in 0..(m - 1)
          BY <1>3, <1>m, Parents
    <3>2. heap_[Up(j)].deadline <= heap_[j].deadline
          BY <1>1, <3>1 DEF InOrder, HeapNow
    <3> QED BY <1>q, <3>1, <3>2
  <2>6. HeapNow' = b
    <3>1. b = [heap |-> b.heap, pos |-> b.pos]
          BY <2>1 DEF Heaps
    <3> QED BY <1>4, <2>1, <3>1 DEF HeapNow
  <2>7. Tracked(HeapNow', m) /\ InOrder(HeapNow', m)
        BY <2>4, <2>5, <2>6
  <2> QED BY <1>3, <2>7 DEF TimerInv, Tracked, InOrder, Heaps, Entries, HeapNow
<1>6. CASE i # m
  <2> DEFINE q2 == [q EXCEPT ![i] = e]
             p2 == [p EXCEPT ![e.timer] = i]
             h == [heap |-> q2, pos |-> p2]
             x == [h |-> h, index |-> i]
  <2>0. i \in 0..(m - 1) /\ e.timer # t
        BY <1>3, <1>6, <1>e
  <2>1. q2 \in [0..(m - 1) -> Entries] /\ q2[i] = e /\ \A k \in 0..(m - 1) : k # i => q2[k] = heap_[k]
    <3> HIDE DEF q, e, i
    <3> QED BY <1>q, <1>e, <2>0
  <2>2. p2 \in [Timer -> Int] /\ p2[e.timer] = i /\ p2[t] = -1
        /\ \A u \in Timer : u # t /\ u # e.timer => p2[u] = heap_position_[u]
    <3> HIDE DEF p, e, i
    <3> QED BY <1>3, <1>p, <1>e, <2>0
  <2>3. TH!Put(b, i, e) = h /\ w = TH!SiftBoth(TH!Put(b, i, e), i)
        BY <1>6 DEF TH!Put
  <2>4. h \in Heaps(m) /\ h.heap = q2 /\ h.pos = p2
        BY <2>1, <2>2 DEF Heaps
  <2>5. x.index = i /\ (\A k \in 0..(m - 1) : Due(x, k) = q2[k].deadline)
        BY DEF Due
  <2> HIDE DEF x, h, q2, p2, w, q, p, b, e
  <2>6. ASSUME NEW k \in 0..(m - 1) PROVE p2[q2[k].timer] = k
    <3>1. CASE k = i
          BY <2>1, <2>2, <3>1
    <3>2. CASE k # i
      <4>1. heap_[k].timer \in Timer /\ heap_position_[heap_[k].timer] = k
            BY <1>2, <1>m
      <4>2. heap_[k].timer # t /\ heap_[k].timer # e.timer
            BY <1>e, <1>m, <3>2, <4>1
      <4> QED BY <2>1, <2>2, <3>2, <4>1, <4>2
    <3> QED BY <3>1, <3>2
  <2>7. ASSUME NEW u \in Timer, p2[u] # -1 PROVE p2[u] \in 0..(m - 1) /\ q2[p2[u]].timer = u
    <3>1. CASE u = e.timer
          BY <2>0, <2>1, <2>2, <3>1
    <3>2. CASE u # e.timer
      <4>1. u # t /\ p2[u] = heap_position_[u]
            BY <2>2, <2>7, <3>2
      <4>2. p2[u] \in 0..(n - 1) /\ heap_[p2[u]].timer = u
            BY <1>2, <2>7, <4>1
      <4>3. p2[u] # m /\ p2[u] # i
            BY <1>3, <3>2, <4>1, <4>2 DEF e
      <4>4. p2[u] \in 0..(m - 1)
            BY <1>3, <4>2, <4>3
      <4> QED BY <2>1, <4>2, <4>3, <4>4
    <3> QED BY <3>1, <3>2
  <2>8. Tracked(h, m)
        BY <2>4, <2>6, <2>7 DEF Tracked
  <2>p. \A j \in 1..(m - 1) : Up(j) \in 0..(m - 1) /\ Up(j) < j /\ j \in 1..(n - 1) /\ j \in 0..(m - 1)
        BY <1>m, Parents
  <2>9. Falling(x, m, i)
    <3>1. ASSUME NEW j \in 1..(m - 1), j # i, Up(j) # i PROVE Edge(x, j)
      <4>1. heap_[Up(j)].deadline <= heap_[j].deadline
            BY <1>1, <2>p DEF InOrder, HeapNow
      <4> QED BY <2>1, <2>5, <2>p, <3>1, <4>1 DEF Edge
    <3>2. ASSUME i # 0, NEW c \in 1..(m - 1), Up(c) = i PROVE Due(x, Up(i)) <= Due(x, c)
      <4>1. i \in 1..(m - 1) /\ c # i /\ Up(i) # i /\ Up(i) \in 0..(m - 1)
            BY <2>0, <2>p, <3>2
      <4>2. heap_[Up(i)].deadline <= heap_[i].deadline /\ heap_[i].deadline <= heap_[c].deadline
            BY <1>1, <2>p, <3>2, <4>1 DEF InOrder, HeapNow
      <4>3. heap_[Up(i)].deadline \in Int /\ heap_[i].deadline \in Int /\ heap_[c].deadline \in Int
            BY <1>2, <1>m, <4>1
      <4>4. heap_[Up(i)].deadline <= heap_[c].deadline
            BY <4>2, <4>3
      <4> QED BY <2>1, <2>5, <4>1, <4>4
    <3>3. i >= i
          BY <1>3
    <3> HIDE DEF i
    <3> QED BY <2>5, <3>1, <3>2, <3>3 DEF Falling
  <2> DEFINE d == TH!SiftDown(h, i)
  <2>10. Tracked(d, m) /\ Rising([h |-> d, index |-> i], m)
    <3> HIDE DEF i, m
    <3> QED BY <1>3, <2>0, <2>8, <2>9, SiftDownWorks DEF x
  <2>11. w = TH!SiftUp(d, i)
         BY <2>3 DEF TH!SiftBoth
  <2> HIDE DEF d
  <2>12. Tracked(w, m) /\ InOrder(w, m)
    <3> HIDE DEF i, m
    <3> QED BY <1>3, <2>0, <2>10, <2>11, SiftUpWorks
  <2>13. HeapNow' = w
    <3>1. w = [heap |-> w.heap, pos |-> w.pos]
          BY <2>12 DEF Tracked, Heaps
    <3> QED BY <1>4, <3>1 DEF HeapNow
  <2>14. Tracked(HeapNow', m) /\ InOrder(HeapNow', m)
        BY <2>12, <2>13
  <2> QED BY <1>3, <2>14 DEF TimerInv, Tracked, InOrder, Heaps, Entries, HeapNow
<1> QED BY <1>5, <1>6

LEMMA TimerInvariance == TH!Spec => []TimerInv
<1>1. TH!Init => TimerInv
  <2> SUFFICES ASSUME TH!Init PROVE Tracked(HeapNow, 0) /\ InOrder(HeapNow, 0)
      BY DEF TimerInv
  <2>1. heap_ = [i \in {} |-> i] /\ heap_position_ = [t \in Timer |-> -1]
        BY DEF TH!Init
  <2>2. heap_ \in [0..(0 - 1) -> Entries] /\ heap_position_ \in [Timer -> Int]
        /\ \A t \in Timer : heap_position_[t] = -1
        BY <2>1
  <2>3. HeapNow \in Heaps(0)
        BY <2>2 DEF HeapNow, Heaps
  <2> QED BY <2>2, <2>3 DEF Tracked, InOrder, HeapNow
<1>2. ASSUME TimerInv, [TH!Next]_(TH!vars) PROVE TimerInv'
  <2>1. CASE UNCHANGED TH!vars
    <3>1. HeapNow' = HeapNow
          BY <2>1 DEF TH!vars, HeapNow
    <3>2. PICK n \in Nat : Tracked(HeapNow, n) /\ InOrder(HeapNow, n)
          BY <1>2 DEF TimerInv
    <3>3. Tracked(HeapNow', n) /\ InOrder(HeapNow', n)
          BY <3>1, <3>2
    <3> QED BY <3>3 DEF TimerInv, Tracked, InOrder, Heaps, Entries, HeapNow
  <2>2. CASE TH!Next
        BY <1>2, <2>2, ActivateStep, DeactivateStep DEF TH!Next
  <2> QED BY <1>2, <2>1, <2>2
<1> QED BY <1>1, <1>2, PTL DEF TH!Spec

\* The active timers are as many as there are entries.
LEMMA HeapIsRight == TimerInv => TH!EarliestFirst
<1> SUFFICES ASSUME TimerInv PROVE TH!EarliestFirst
    OBVIOUS
<1>1. PICK n \in Nat : Tracked(HeapNow, n) /\ InOrder(HeapNow, n)
      BY DEF TimerInv
<1>2. /\ TH!size = n /\ heap_ \in [0..(n - 1) -> Entries] /\ heap_position_ \in [Timer -> Int]
      /\ \A k \in 0..(n - 1) : heap_[k] \in Entries /\ heap_[k].timer \in Timer /\ heap_[k].deadline \in Int
                                  /\ heap_position_[heap_[k].timer] = k
      /\ \A u \in Timer : heap_position_[u] # -1 =>
               heap_position_[u] \in 0..(n - 1) /\ heap_[heap_position_[u]].timer = u
      BY <1>1, HeapSize
<1>3. \A i \in DOMAIN heap_ \ {0} : heap_[(i - 1) \div 2].deadline <= heap_[i].deadline
  <2> SUFFICES ASSUME NEW i \in DOMAIN heap_ \ {0}
               PROVE  heap_[(i - 1) \div 2].deadline <= heap_[i].deadline
      OBVIOUS
  <2>1. i \in 1..(n - 1)
        BY <1>2
  <2>2. heap_[Up(i)].deadline <= heap_[i].deadline
        BY <1>1, <2>1 DEF InOrder, HeapNow
  <2> QED BY <2>2 DEF Up
<1>4. \A i \in DOMAIN heap_ : heap_position_[heap_[i].timer] = i
      BY <1>2
<1> DEFINE S == {t \in Timer : heap_position_[t] # -1}
           I == 0..(n - 1)
           f == [k \in I |-> heap_[k].timer]
<1>5. f \in [I -> S] /\ \A k \in I : f[k] = heap_[k].timer
  <2>1. \A k \in I : heap_[k].timer \in S
        BY <1>2
  <2> QED BY <2>1
<1>6. \A k, l \in I : f[k] = f[l] => k = l
      BY <1>2, <1>5
<1>7. \A t \in S : \E k \in I : f[k] = t
      BY <1>2, <1>5
<1>8. IsFiniteSet(I) /\ Cardinality(I) = n
      BY FS_Interval
<1> HIDE DEF f, I, S
<1>9. ExistsBijection(I, S)
      BY <1>5, <1>6, <1>7 DEF ExistsBijection, Bijection, Injection, IsInjective, Surjection
<1>10. Cardinality(S) = n
       BY <1>8, <1>9, FS_Bijection
<1> QED BY <1>2, <1>3, <1>4, <1>10 DEF TH!EarliestFirst, TH!Cardinality, Cardinality, S

-----------------------------------------------------------------------------
\* coroutine.h: a coroutine has one record, in the heap or with Step, from AddTask until
\* its body is over; the record in the heap has the moment of the promise; and Step has
\* preferred nobody to it who comes after it.
Record == [task : Task, is_started : BOOLEAN, added_time : Nat, next_time : Nat]

CoType == /\ coroutines_ \in SUBSET Record /\ running \in SUBSET Record
          /\ state \in [Task -> {"new", "added", "destroyed"}] /\ clock \in Nat
          /\ promise \in [Task -> Nat] /\ passed \in [Task -> SUBSET Record]

OneRecord == /\ \A c, d \in coroutines_ : c.task = d.task => c = d
             /\ \A c, d \in running : c = d
             /\ \A c \in coroutines_, d \in running : c.task # d.task
             /\ \A c \in coroutines_ \cup running : state[c.task] = "added"
             /\ \A t \in Task : state[t] = "added" => \E c \in coroutines_ \cup running : c.task = t

Copied == \A c \in coroutines_ : c.next_time = IF c.is_started THEN promise[c.task] ELSE c.added_time

Preferred == /\ \A c \in coroutines_ : \A d \in passed[c.task] : ~CO!Compare(d, c)
             /\ \A t \in Task : passed[t] # {} => \E c \in coroutines_ : c.task = t

\* Who runs has begun.
Begun == \A c \in running : c.is_started

CoInv == CoType /\ OneRecord /\ Copied /\ Preferred /\ Begun

\* In the heap a coroutine stands with what the scheduler is to go by.
LEMMA DueIsRecord ==
  ASSUME CoType, Copied, NEW c \in coroutines_
  PROVE  CO!Due(c) = c
<1>1. c \in Record /\ c.next_time = IF c.is_started THEN promise[c.task] ELSE c.added_time
      BY DEF CoType, Copied
<1> QED BY <1>1 DEF CO!Due, Record

LEMMA CoInvariance == CO!Spec => []CoInv
<1>1. CO!Init => CoInv
      BY DEF CO!Init, CoInv, CoType, OneRecord, Copied, Preferred, Begun
<1>2. ASSUME CoInv, [CO!Next]_(CO!vars) PROVE CoInv'
  <2> USE <1>2 DEF CoInv
  <2>1. CASE CO!Step
    <3>1. PICK c \in coroutines_ :
             /\ \A d \in coroutines_ : ~CO!Compare(c, d)
             /\ coroutines_' = coroutines_ \ {c} /\ running' = {[c EXCEPT !.is_started = TRUE]}
             /\ clock' = IF c.is_started /\ promise[c.task] > clock THEN promise[c.task] ELSE clock
             /\ passed' = [t \in Task |-> IF \E d \in coroutines_ \ {c} : d.task = t
                                         THEN passed[t] \cup {CO!Due(c)} ELSE {}]
          BY <2>1 DEF CO!Step
    <3>2. running = {} /\ state' = state /\ promise' = promise
          BY <2>1 DEF CO!Step
    <3> DEFINE r == [c EXCEPT !.is_started = TRUE]
    <3>3. /\ c \in Record /\ r \in Record /\ r.task = c.task /\ c.task \in Task
          /\ r.is_started
          BY DEF CoType, Record
    <3> HIDE DEF r
    <3>4. running' = {r}
          BY <3>1 DEF r
    <3>p. CO!Due(c) = c
          BY DueIsRecord
    <3>5. CoType'
      <4>1. promise[c.task] \in Nat
            BY <3>3 DEF CoType
      <4>2. clock' \in Nat
            BY <3>1, <4>1 DEF CoType
      <4>3. passed' \in [Task -> SUBSET Record]
            BY <3>1, <3>3, <3>p DEF CoType
      <4> QED BY <3>1, <3>2, <3>3, <3>4, <4>2, <4>3 DEF CoType
    <3>6. OneRecord'
      <4>1. \A x \in coroutines_' : x \in coroutines_ /\ x # c
            BY <3>1
      <4>2. \A t \in Task : state[t] = "added" => \E x \in coroutines_' \cup running' : x.task = t
        <5> SUFFICES ASSUME NEW t \in Task, state[t] = "added"
                     PROVE  \E x \in coroutines_' \cup running' : x.task = t
            OBVIOUS
        <5>1. PICK x \in coroutines_ : x.task = t
              BY <3>2 DEF OneRecord
        <5> QED BY <3>1, <3>3, <3>4, <5>1
      <4> QED BY <3>2, <3>3, <3>4, <4>1, <4>2 DEF OneRecord
    <3>7. Copied'
          BY <3>1, <3>2 DEF Copied
    <3>8. Preferred'
      <4>1. ASSUME NEW e \in coroutines_', NEW d \in passed'[e.task] PROVE ~CO!Compare(d, e)
        <5>1. e \in coroutines_ /\ e \in coroutines_ \ {c} /\ e.task \in Task
              BY <3>1, <4>1 DEF CoType, Record
        <5>2. passed'[e.task] = passed[e.task] \cup {c}
              BY <3>1, <3>p, <5>1
        <5>3. CASE d = c
              BY <3>1, <5>1, <5>3
        <5>4. CASE d \in passed[e.task]
              BY <5>1, <5>4 DEF Preferred
        <5> QED BY <4>1, <5>2, <5>3, <5>4
      <4>2. ASSUME NEW t \in Task, passed'[t] # {} PROVE \E e \in coroutines_' : e.task = t
            BY <3>1, <4>2
      <4> QED BY <4>1, <4>2 DEF Preferred, CO!Compare
    <3>9. Begun'
          BY <3>4, <3>3 DEF Begun
    <3> QED BY <3>5, <3>6, <3>7, <3>8, <3>9
  <2>2. CASE CO!Await
    <3>1. PICK c \in running, at0 \in 0..Horizon :
             /\ promise' = [promise EXCEPT ![c.task] = at0]
             /\ coroutines_' = coroutines_ \cup {[c EXCEPT !.next_time = at0]} /\ running' = {}
             /\ UNCHANGED <<state, clock, passed>>
          BY <2>2 DEF CO!Await
    <3> DEFINE r == [c EXCEPT !.next_time = at0]
    <3>0. Horizon \in Nat /\ clock \in Nat
          BY InstanceConstants DEF CO!CoroutineConstants, CoType
    <3>2. c \in Record /\ at0 \in Nat
          BY <3>0 DEF CoType
    <3>3. r \in Record /\ r.task = c.task /\ r.next_time = at0 /\ c.task \in Task
          /\ r.is_started = c.is_started
          BY <3>2 DEF Record
    <3> HIDE DEF r
    <3>4. coroutines_' = coroutines_ \cup {r}
          BY <3>1 DEF r
    <3>5. CoType'
          BY <3>1, <3>2, <3>3, <3>4 DEF CoType
    <3>6. OneRecord'
      <4>1. \A x \in coroutines_ : x.task # c.task
            BY DEF OneRecord
      <4>2. \A t \in Task : state[t] = "added" => \E x \in coroutines_' \cup running' : x.task = t
        <5> SUFFICES ASSUME NEW t \in Task, state[t] = "added"
                     PROVE  \E x \in coroutines_' \cup running' : x.task = t
            OBVIOUS
        <5>1. PICK x \in coroutines_ \cup running : x.task = t
              BY DEF OneRecord
        <5>2. x \in coroutines_ \/ x = c
              BY DEF OneRecord
        <5> QED BY <3>3, <3>4, <5>1, <5>2
      <4> QED BY <3>1, <3>3, <3>4, <4>1, <4>2 DEF OneRecord
    <3>7. c.is_started
          BY DEF Begun
    <3>8. \A x \in coroutines_ : x.task # c.task /\ x.task \in Task
          BY DEF OneRecord, CoType, Record
    <3>9. Copied'
      <4>1. promise'[c.task] = at0 /\ \A x \in coroutines_ : promise'[x.task] = promise[x.task]
            BY <3>1, <3>3, <3>8 DEF CoType
      <4> QED BY <3>3, <3>4, <3>7, <4>1 DEF Copied
    <3>10. Preferred'
      <4>1. passed'[r.task] = {}
            BY <3>1, <3>3, <3>8 DEF Preferred
      <4>2. ASSUME NEW t \in Task, passed'[t] # {} PROVE \E x \in coroutines_' : x.task = t
            BY <3>1, <3>4, <4>2 DEF Preferred
      <4>3. ASSUME NEW x \in coroutines_', NEW d \in passed'[x.task] PROVE ~CO!Compare(d, x)
            BY <3>1, <3>4, <4>1, <4>3 DEF Preferred
      <4> QED BY <4>2, <4>3 DEF Preferred, CO!Compare
    <3>11. Begun'
           BY <3>1 DEF Begun
    <3> QED BY <3>5, <3>6, <3>9, <3>10, <3>11
  <2>3. CASE CO!Return
    <3>1. PICK c \in running : /\ running' = {} /\ state' = [state EXCEPT ![c.task] = "destroyed"]
                               /\ UNCHANGED <<coroutines_, clock, promise, passed>>
          BY <2>3 DEF CO!Return
    <3>2. c \in Record /\ c.task \in Task
          BY DEF CoType, Record
    <3>3. CoType'
          BY <3>1, <3>2 DEF CoType
    <3>4. OneRecord'
      <4>1. \A x \in coroutines_ : x.task # c.task /\ x.task \in Task
            BY DEF OneRecord, CoType, Record
      <4>2. state'[c.task] = "destroyed" /\ \A t \in Task : t # c.task => state'[t] = state[t]
            BY <3>1, <3>2 DEF CoType
      <4>3. \A t \in Task : state'[t] = "added" => \E x \in coroutines_ : x.task = t
        <5> SUFFICES ASSUME NEW t \in Task, state'[t] = "added" PROVE \E x \in coroutines_ : x.task = t
            OBVIOUS
        <5>1. t # c.task /\ state[t] = "added"
              BY <4>2
        <5>2. PICK x \in coroutines_ \cup running : x.task = t
              BY <5>1 DEF OneRecord
        <5>3. x \in coroutines_ \/ x = c
              BY DEF OneRecord
        <5> QED BY <5>1, <5>2, <5>3
      <4> QED BY <3>1, <4>1, <4>2, <4>3 DEF OneRecord
    <3>5. Copied' /\ Preferred' /\ Begun'
          BY <3>1 DEF Copied, Preferred, Begun, CO!Compare
    <3> QED BY <3>3, <3>4, <3>5
  <2>4. CASE CO!Tick
        BY <2>4 DEF CO!Tick, CoType, OneRecord, Copied, Preferred, Begun, CO!Compare
  <2>5. ASSUME NEW t \in Task, CO!AddTask(t) PROVE CoInv'
    <3> DEFINE r == [task |-> t, is_started |-> FALSE, added_time |-> clock, next_time |-> clock]
    <3>1. /\ state[t] = "new" /\ state' = [state EXCEPT ![t] = "added"]
          /\ coroutines_' = coroutines_ \cup {r} /\ UNCHANGED <<running, clock, promise, passed>>
          BY <2>5 DEF CO!AddTask
    <3>2. /\ r \in Record /\ r.task = t /\ r.is_started = FALSE
          /\ r.next_time = clock /\ r.added_time = clock
          BY DEF CoType, Record
    <3> HIDE DEF r
    <3>3. CoType'
          BY <3>1, <3>2 DEF CoType
    <3>4. OneRecord'
      <4>1. \A x \in coroutines_ \cup running : x.task # t /\ x.task \in Task
            BY <3>1 DEF OneRecord, CoType, Record
      <4>2. state'[t] = "added" /\ \A u \in Task : u # t => state'[u] = state[u]
            BY <3>1 DEF CoType
      <4>3. \A u \in Task : state'[u] = "added" => \E x \in coroutines_' \cup running' : x.task = u
        <5> SUFFICES ASSUME NEW u \in Task, state'[u] = "added"
                     PROVE  \E x \in coroutines_' \cup running' : x.task = u
            OBVIOUS
        <5>1. CASE u = t
              BY <3>1, <3>2, <5>1
        <5>2. CASE u # t
          <6>1. PICK x \in coroutines_ \cup running : x.task = u
                BY <4>2, <5>2 DEF OneRecord
          <6> QED BY <3>1, <6>1
        <5> QED BY <5>1, <5>2
      <4> QED BY <3>1, <3>2, <4>1, <4>2, <4>3 DEF OneRecord
    <3>5. Copied' /\ Begun'
          BY <3>1, <3>2 DEF Copied, Begun
    <3>6. Preferred'
      <4>1. passed'[r.task] = {}
        <5>1. \A x \in coroutines_ : x.task # t
              BY <3>1 DEF OneRecord
        <5> QED BY <3>1, <3>2, <5>1 DEF Preferred
      <4>2. ASSUME NEW u \in Task, passed'[u] # {} PROVE \E x \in coroutines_' : x.task = u
            BY <3>1, <4>2 DEF Preferred
      <4>3. ASSUME NEW x \in coroutines_', NEW d \in passed'[x.task] PROVE ~CO!Compare(d, x)
            BY <3>1, <4>1, <4>3 DEF Preferred
      <4> QED BY <4>2, <4>3 DEF Preferred, CO!Compare
    <3> QED BY <3>3, <3>4, <3>5, <3>6
  <2>6. CASE UNCHANGED CO!vars
        BY <2>6 DEF CO!vars, CoType, OneRecord, Copied, Preferred, Begun, CO!Compare
  <2> QED BY <1>2, <2>1, <2>2, <2>3, <2>4, <2>5, <2>6 DEF CO!Next
<1> QED BY <1>1, <1>2, PTL DEF CO!Spec

LEMMA CoIsRight == CoInv => CO!WakesInOrder
<1> SUFFICES ASSUME CoInv PROVE CO!WakesInOrder
    OBVIOUS
<1>1. ASSUME NEW t \in Task
      PROVE  state[t] = "added" <=> CO!Cardinality({c \in coroutines_ \cup running : c.task = t}) = 1
  <2> DEFINE S == {c \in coroutines_ \cup running : c.task = t}
  <2>1. CASE state[t] = "added"
    <3>1. PICK c \in coroutines_ \cup running : c.task = t
          BY <2>1 DEF CoInv, OneRecord
    <3>2. S = {c}
          BY <3>1 DEF CoInv, OneRecord
    <3>3. Cardinality(S) = 1
          BY <3>2, FS_Singleton
    <3> QED BY <2>1, <3>3 DEF CO!Cardinality, Cardinality
  <2>2. CASE state[t] # "added"
    <3>1. S = {}
          BY <2>2 DEF CoInv, OneRecord
    <3>2. Cardinality(S) = 0
          BY <3>1, FS_EmptySet
    <3> QED BY <2>2, <3>2 DEF CO!Cardinality, Cardinality
  <2> QED BY <2>1, <2>2
<1>2. \A c \in coroutines_ : \A d \in passed[c.task] : ~CO!Compare(d, CO!Due(c))
      BY DueIsRecord DEF CoInv, Preferred
<1> QED BY <1>1, <1>2 DEF CO!WakesInOrder

\* The suite runs the heap of timers and the coroutines.
LEMMA SuiteIsTimers == SuiteSpec => TH!Spec /\ CO!Spec
<1>1. SuiteInit => TH!Init /\ CO!Init
      BY DEF SuiteInit
<1>2. (UNCHANGED th => UNCHANGED TH!vars) /\ (UNCHANGED co => UNCHANGED CO!vars)
      BY DEF th, co, TH!vars, CO!vars
<1>3. ASSUME [SuiteNext]_all PROVE [TH!Next]_(TH!vars) /\ [CO!Next]_(CO!vars)
  <2>1. CASE TimersNext
        BY <1>2, <2>1 DEF TimersNext
  <2>2. CASE CoroutineNext
        BY <1>2, <2>2 DEF CoroutineNext
  <2>3. CASE UNCHANGED all
        BY <1>2, <2>3 DEF all
  <2>4. CASE \/ BalancerNext \/ StreamsNext \/ FibersNext \/ NetNext \/ RedisNext \/ SocksNext
             \/ RpcNext \/ ClientsNext
        BY <1>2, <2>4 DEF BalancerNext, StreamsNext, FibersNext, NetNext, RedisNext, SocksNext,
           RpcNext, ClientsNext
  <2> QED BY <1>3, <2>1, <2>2, <2>3, <2>4 DEF SuiteNext
<1> QED BY <1>1, <1>3, PTL DEF SuiteSpec, TH!Spec, CO!Spec

\* GetMin is the earliest of the active timers for any number of timers and deadlines,
\* whatever Deactivate took out of the middle of the heap: the entry it moves there falls
\* and then rises (Falling, Rising), and every timer knows its place meanwhile (Tracked).
\* Coroutines are resumed by the rules of readme.md, also those that wait for a moment
\* of the past, and none is in the heap twice or lost.
THEOREM TimersFireInOrder == SuiteSpec => []EarliestFirst
<1>1. TimerInv /\ CoInv => EarliestFirst
      BY HeapIsRight, CoIsRight DEF EarliestFirst
<1> QED BY <1>1, SuiteIsTimers, TimerInvariance, CoInvariance, PTL
=============================================================================
