--------------------------- MODULE Network_proofs ---------------------------
(***************************************************************************)
(* For every number of sockets, descriptors and bytes: the poller of cactus *)
(* wakes the fiber that waits for an event, and gives no two open sockets  *)
(* one slot; and what goes through the buffered readers and writers comes  *)
(* out whole and in order.                                                 *)
(***************************************************************************)
EXTENDS MCCactus, SequenceTheorems, FiniteSetTheorems, WellFoundedInduction, TLAPS

\* What is assumed of the sockets and of the streams.
LEMMA NC == NE!NetConstants
  BY InstanceConstants

\* Finite sets are counted in the sockets' module as here.
LEMMA Finite ==
  IsFiniteSet(Sockets) /\ IsFiniteSet(Desc) /\ Cardinality(Sockets) <= Cardinality(Desc)
<1>1. \A S : NE!Cardinality(S) = Cardinality(S)
      BY DEF NE!Cardinality, Cardinality
<1>2. \A S : NE!IsFiniteSet(S) <=> IsFiniteSet(S)
      BY DEF NE!IsFiniteSet, IsFiniteSet
<1> QED BY <1>1, <1>2, NC DEF NE!NetConstants

\* The streams' part.
LEMMA SC == IO!StreamConstants
  BY InstanceConstants
-----------------------------------------------------------------------------
\* The types of the poller's state.
NetType ==
    /\ Packet \in SUBSET Bound
    /\ fd_ \in [Sockets -> {"none", "dial", "open", "closed"}]
    /\ desc_ \in [Sockets -> Desc \cup {Null}] /\ ptr \in [Sockets -> Desc \cup {Null}]
    /\ reader \in [Desc -> Sockets \cup {Null}] /\ writer \in [Desc -> Sockets \cup {Null}]
    /\ free_list_ \in Seq(Desc)
    /\ edge \in SUBSET Sockets /\ hup \in SUBSET Sockets /\ dialing \in SUBSET Sockets
    /\ data \in [Sockets -> Nat] /\ room \in [Sockets -> Nat]
    /\ st \in [NE!Side -> {"idle", "waiting", "woken"}]
    /\ slot \in [NE!Side -> Desc \cup {Null}] /\ rest \in [NE!Side -> Nat]

\* A socket is registered with the kernel while it is open, with its own descriptor.
Registered ==
    \A c \in Sockets : /\ fd_[c] \in {"dial", "open"} <=> ptr[c] # Null
                       /\ ptr[c] # Null => ptr[c] = desc_[c]

\* A descriptor belongs to one socket, or is free once.
Pool ==
    /\ \A c, e \in Sockets : c # e /\ ptr[c] # Null => ptr[c] # ptr[e]
    /\ \A c \in Sockets : ptr[c] # Null => ptr[c] \notin NE!ToSet(free_list_)
    /\ NE!IsInjective(free_list_)

\* Nobody waits in a descriptor that no socket has.
Unused == \A d \in Desc : (\A c \in Sockets : ptr[c] # d) => reader[d] = Null /\ writer[d] = Null

\* A fiber inside Wait keeps the descriptor of its socket, unless that was closed; the
\* fiber that reads has not begun while the socket is dialed.
Parked ==
    \A c \in Sockets : \A d \in NE!Dir :
        /\ st[<<c, d>>] = "idle" => slot[<<c, d>>] = Null
        /\ st[<<c, d>>] # "idle" => /\ slot[<<c, d>>] \in Desc /\ ptr[c] = desc_[c]
                                    /\ ptr[c] # Null => slot[<<c, d>>] = ptr[c]
        /\ fd_[c] = "dial" => st[<<c, "in">>] = "idle"

\* A listening socket is never hung up.
Unhung == hup \cap NE!Listener = {}

\* EventsReachWaiters, side by side.
InPlace ==
    \A c \in Sockets :
        /\ st[<<c, "in">>] = "waiting" => ptr[c] # Null /\ reader[ptr[c]] = c
        /\ st[<<c, "out">>] = "waiting" => ptr[c] # Null /\ writer[ptr[c]] = c
Announced ==
    \A c \in Sockets : \A d \in NE!Dir : st[<<c, d>>] = "waiting" /\ d \in NE!Level(c) => c \in edge

NetInv == /\ NetType /\ Registered /\ Pool /\ Unused /\ Parked /\ Unhung
          /\ InPlace /\ Announced

\* A fiber that waits has the descriptor of its socket.
LEMMA WaitsOnOwn ==
  ASSUME NetInv, NEW c \in Sockets, NEW d \in NE!Dir, st[<<c, d>>] = "waiting"
  PROVE  /\ ptr[c] \in Desc /\ ptr[c] = desc_[c] /\ slot[<<c, d>>] = ptr[c]
         /\ c = (IF d = "in" THEN reader ELSE writer)[ptr[c]]
<1>1. ptr[c] # Null /\ c = (IF d = "in" THEN reader ELSE writer)[ptr[c]]
  <2>1. CASE d = "in"
        BY <2>1 DEF NetInv, InPlace
  <2>2. CASE d = "out"
        BY <2>2 DEF NetInv, InPlace
  <2> QED BY <2>1, <2>2 DEF NE!Dir
<1>2. ptr[c] = desc_[c] /\ slot[<<c, d>>] = ptr[c]
  <2>1. st[<<c, d>>] # "idle"
        OBVIOUS
  <2> QED BY <2>1, <1>1 DEF NetInv, Parked
<1>3. ptr[c] \in Desc
      BY <1>1 DEF NetInv, NetType
<1> QED BY <1>1, <1>2, <1>3

\* EventsReachWaiters follows: who waits is in the slot, and its event is announced.
LEMMA Events == NetInv => NE!EventsReachWaiters
<1> SUFFICES ASSUME NetInv, NEW c \in Sockets, NEW d \in NE!Dir, st[<<c, d>>] = "waiting"
             PROVE  /\ slot[<<c, d>>] = desc_[c] /\ slot[<<c, d>>] = ptr[c]
                    /\ c = (IF d = "in" THEN reader ELSE writer)[slot[<<c, d>>]]
                    /\ d \in NE!Level(c) => c \in edge
    BY DEF NE!EventsReachWaiters, NE!Side
<1>1. slot[<<c, d>>] = desc_[c] /\ slot[<<c, d>>] = ptr[c]
      BY WaitsOnOwn
<1> QED BY <1>1, WaitsOnOwn DEF NetInv, Announced

\* The free ones are apart and empty.
LEMMA Separate == NetInv => NE!DescriptorsApart
<1> SUFFICES ASSUME NetInv PROVE NE!DescriptorsApart
    OBVIOUS
<1>1. ASSUME NEW d \in NE!ToSet(free_list_) PROVE reader[d] = Null /\ writer[d] = Null
  <2>1. d \in Desc
        BY DEF NetInv, NetType, NE!ToSet
  <2>2. \A c \in Sockets : ptr[c] # d
        BY NC, <2>1 DEF NetInv, Pool, NE!NetConstants
  <2> QED BY <2>1, <2>2 DEF NetInv, Unused
<1>2. \A c \in Sockets : ptr[c] # Null => ptr[c] = desc_[c]
      BY DEF NetInv, Registered
<1> QED BY <1>1, <1>2 DEF NetInv, Pool, NE!DescriptorsApart

\* At the start nobody waits and every descriptor is free.
LEMMA NetInit == NE!Init => NetInv
<1> SUFFICES ASSUME NE!Init PROVE NetInv
    OBVIOUS
<1>1. NetType /\ Registered /\ Unused /\ Parked /\ Unhung /\ InPlace /\ Announced
      BY NC DEF NE!Init, NetType, Registered, Unused, Parked, Unhung, InPlace, Announced, NE!Side,
         NE!Dir, NE!NetConstants, NE!Listener
<1>2. Pool
      BY DEF NE!Init, Pool, NE!ToSet, NE!IsInjective
<1> QED BY <1>1, <1>2 DEF NetInv

\* The kernel and the peer.
LEMMA KernelInv ==
  ASSUME NetInv, NEW c \in Sockets, NE!Arrive(c) \/ NE!Drain(c) \/ NE!Hangup(c) \/ NE!Connected(c)
  PROVE  NetInv'
<1> USE DEF NE!Arrive, NE!Drain, NE!Hangup, NE!Connected, NE!News, NE!watch, NE!fibers
<1>1. NetType'
  <2>1. CASE NE!Arrive(c)
        BY <2>1 DEF NetInv, NetType
  <2>2. CASE NE!Drain(c)
        BY <2>2 DEF NetInv, NetType
  <2>3. CASE NE!Hangup(c) \/ NE!Connected(c)
        BY <2>3 DEF NetInv, NetType
  <2> QED BY <2>1, <2>2, <2>3
<1>2. Registered' /\ Pool' /\ Unused' /\ Parked' /\ InPlace'
      BY DEF NetInv, Registered, Pool, Unused, Parked, InPlace
<1>3. Unhung'
      BY DEF NetInv, Unhung, NE!Listener
<1>4. Announced'
      BY DEF NetInv, NetType, Announced, NE!Level
<1> QED BY <1>1, <1>2, <1>3, <1>4 DEF NetInv

\* An epoll_wait that hands events to the fibers that wait for them.
LEMMA PollInv ==
  ASSUME NetInv, NE!Poll
  PROVE  NetInv'
<1> USE DEF NetInv, NE!Poll
<1>1. NetType'
      BY DEF NetType, NE!Side
<1>2. Registered' /\ Unhung' /\ Unused' 
      BY DEF NetType, Registered, Unhung, NE!Listener, Unused
<1>3. Pool'
      BY DEF Pool
<1>4. Parked'
      BY DEF Parked, NE!Side, NetType, NE!Dir
<1>5. ASSUME NEW c \in Sockets, NEW d \in NE!Dir, st'[<<c, d>>] = "waiting"
      PROVE  /\ st[<<c, d>>] = "waiting" /\ ptr[c] \in Desc /\ slot[<<c, d>>] = ptr[c]
             /\ ~NE!Reported(ptr[c], d)
  <2>1. <<c, d>> \in NE!Side /\ <<c, d>>[1] = c /\ <<c, d>>[2] = d
        BY DEF NE!Side
  <2>2. st[<<c, d>>] = "waiting"
    <3>1. st'[<<c, d>>] \in {"woken", st[<<c, d>>]}
          BY <2>1
    <3> QED BY <3>1, <1>5
  <2>3. ptr[c] \in Desc /\ slot[<<c, d>>] = ptr[c]
        BY <2>2, WaitsOnOwn
  <2>4. c = (IF d = "in" THEN reader ELSE writer)[slot[<<c, d>>]]
        BY <2>2, <2>3, WaitsOnOwn
  <2>5. ~NE!Reported(slot[<<c, d>>], d)
        BY <2>1, <2>2, <2>4, <1>5
  <2> QED BY <2>2, <2>3, <2>5
<1>6. InPlace'
      BY <1>5 DEF InPlace, NetType, NE!Dir
<1>7. Announced'
      BY <1>5 DEF Announced, NE!Level, NE!Reported
<1> QED BY <1>1, <1>2, <1>3, <1>4, <1>6, <1>7

\* While a socket is not registered there is a descriptor that no socket has.
LEMMA SpareDesc ==
  ASSUME NetInv, NEW c \in Sockets, ptr[c] = Null
  PROVE  \E d \in Desc : \A e \in Sockets : ptr[e] # d
<1> SUFFICES ASSUME \A d \in Desc : \E e \in Sockets : ptr[e] = d PROVE FALSE
    OBVIOUS
<1> DEFINE S == {e \in Sockets : ptr[e] # Null}
           f == [e \in S |-> ptr[e]]
<1>1. IsFiniteSet(Sockets \ {c}) /\ Cardinality(Sockets \ {c}) = Cardinality(Sockets) - 1
      BY Finite, FS_RemoveElement
<1>2. S \in SUBSET (Sockets \ {c})
      OBVIOUS
<1>3. IsFiniteSet(S) /\ Cardinality(S) <= Cardinality(Sockets) - 1
      BY <1>1, <1>2, FS_Subset
<1>4. f \in Surjection(S, Desc)
      BY NC DEF Surjection, NetInv, NetType, NE!NetConstants
<1>5. Cardinality(Desc) <= Cardinality(S)
      BY <1>3, <1>4, FS_Surjection
<1>6. Cardinality(Sockets) \in Nat /\ Cardinality(S) \in Nat /\ Cardinality(Desc) \in Nat
      BY <1>3, Finite, FS_CardinalityType
<1> QED BY <1>3, <1>5, <1>6, Finite

\* NewDesc is nobody's, and what is left of the free list does not have it.
LEMMA NewDescFree ==
  ASSUME NetInv, NEW c \in Sockets, ptr[c] = Null
  PROVE  /\ NE!NewDesc \in Desc /\ \A e \in Sockets : ptr[e] # NE!NewDesc
         /\ NE!Rest \in Seq(Desc) /\ NE!IsInjective(NE!Rest)
         /\ NE!ToSet(NE!Rest) \subseteq NE!ToSet(free_list_) \ {NE!NewDesc}
<1>1. CASE free_list_ = <<>>
  <2>1. NE!NewDesc \in Desc /\ \A e \in Sockets : ptr[e] # NE!NewDesc
        BY <1>1, SpareDesc DEF NE!NewDesc
  <2>2. NE!Rest = <<>>
        BY <1>1 DEF NE!Rest
  <2> QED BY <2>1, <2>2 DEF NE!IsInjective, NE!ToSet
<1>2. CASE free_list_ # <<>>
  <2> DEFINE s == free_list_
  <2>1. /\ s \in Seq(Desc) /\ Len(s) \in Nat \ {0} /\ DOMAIN s = 1..Len(s)
        /\ NE!NewDesc = s[1] /\ NE!Rest = Tail(s)
        BY <1>2 DEF NetInv, NetType, NE!NewDesc, NE!Rest
  <2>2. /\ NE!Rest \in Seq(Desc) /\ Len(NE!Rest) = Len(s) - 1 /\ DOMAIN NE!Rest = 1..Len(s) - 1
        /\ \A i \in 1..Len(s) - 1 : NE!Rest[i] = s[i + 1]
        BY <2>1
  <2>3. \A i, j \in 1..Len(s) : s[i] = s[j] => i = j
        BY <2>1 DEF NetInv, Pool, NE!IsInjective
  <2> HIDE DEF s
  <2>4. NE!NewDesc \in Desc /\ NE!NewDesc \in NE!ToSet(s)
        BY <2>1 DEF NE!ToSet
  <2>5. \A e \in Sockets : ptr[e] # NE!NewDesc
        BY <2>4, NC DEF NetInv, Pool, NE!NetConstants, s
  <2>6. NE!IsInjective(NE!Rest)
        BY <2>1, <2>2, <2>3 DEF NE!IsInjective
  <2>7. ASSUME NEW d \in NE!ToSet(NE!Rest) PROVE d \in NE!ToSet(s) /\ d # NE!NewDesc
    <3>1. PICK i \in 1..Len(s) - 1 : d = s[i + 1]
          BY <2>2 DEF NE!ToSet
    <3> QED BY <3>1, <2>1, <2>3 DEF NE!ToSet
  <2> QED BY <2>2, <2>4, <2>5, <2>6, <2>7 DEF s
<1> QED BY <1>1, <1>2

\* A descriptor that is not free is put in front.
LEMMA FreeDesc ==
  ASSUME NEW s \in Seq(Desc), NE!IsInjective(s), NEW d \in Desc, d \notin NE!ToSet(s)
  PROVE  /\ <<d>> \o s \in Seq(Desc) /\ NE!IsInjective(<<d>> \o s)
         /\ NE!ToSet(<<d>> \o s) = NE!ToSet(s) \cup {d}
<1> DEFINE u == <<d>> \o s
<1>1. /\ u \in Seq(Desc) /\ Len(u) = Len(s) + 1 /\ Len(s) \in Nat /\ u[1] = d
      /\ \A i \in 1..Len(s) : u[i + 1] = s[i]
  <2>1. <<d>> \in Seq(Desc) /\ Len(<<d>>) = 1 /\ <<d>>[1] = d /\ Len(s) \in Nat
        OBVIOUS
  <2>2. /\ u \in Seq(Desc) /\ Len(u) = 1 + Len(s)
        /\ \A i \in 1..1 + Len(s) : u[i] = IF i <= 1 THEN <<d>>[i] ELSE s[i - 1]
        BY <2>1, ConcatProperties
  <2> HIDE DEF u
  <2> QED BY <2>1, <2>2
<1>2. DOMAIN u = 1..Len(s) + 1 /\ DOMAIN s = 1..Len(s)
      BY <1>1
<1>3. \A i \in 1..Len(s) : s[i] # d
      BY <1>2 DEF NE!ToSet
<1> HIDE DEF u
<1>4. \A i \in 1..Len(s) + 1 : i = 1 \/ (i - 1 \in 1..Len(s) /\ u[i] = s[i - 1])
  <2> TAKE i \in 1..Len(s) + 1
  <2>1. CASE i # 1
    <3>1. i - 1 \in 1..Len(s) /\ (i - 1) + 1 = i
          BY <2>1, <1>1
    <3> QED BY <3>1, <1>1
  <2> QED BY <2>1
<1>5. NE!IsInjective(u)
  <2> SUFFICES ASSUME NEW a \in 1..Len(s) + 1, NEW b \in 1..Len(s) + 1, u[a] = u[b] PROVE a = b
      BY <1>2 DEF NE!IsInjective
  <2>1. \A i, j \in 1..Len(s) : s[i] = s[j] => i = j
        BY <1>2 DEF NE!IsInjective
  <2>2. (a = 1 \/ (a - 1 \in 1..Len(s) /\ u[a] = s[a - 1]))
        /\ (b = 1 \/ (b - 1 \in 1..Len(s) /\ u[b] = s[b - 1]))
        BY <1>4
  <2>3. CASE a # 1 /\ b # 1
    <3>1. a - 1 = b - 1
          BY <2>1, <2>2, <2>3
    <3> QED BY <3>1, <1>1
  <2> QED BY <2>2, <2>3, <1>1, <1>3
<1>6. NE!ToSet(u) = NE!ToSet(s) \cup {d}
  <2>1. ASSUME NEW x \in NE!ToSet(u) PROVE x \in NE!ToSet(s) \cup {d}
    <3>1. PICK i \in 1..Len(s) + 1 : x = u[i]
          BY <1>2 DEF NE!ToSet
    <3>2. CASE i # 1
      <4>1. i - 1 \in DOMAIN s /\ x = s[i - 1]
            BY <3>1, <3>2, <1>2, <1>4
      <4> QED BY <4>1 DEF NE!ToSet
    <3> QED BY <3>1, <3>2, <1>1
  <2>2. ASSUME NEW x \in NE!ToSet(s) PROVE x \in NE!ToSet(u)
    <3>1. PICK i \in 1..Len(s) : x = s[i]
          BY <1>2 DEF NE!ToSet
    <3> QED BY <3>1, <1>1, <1>2 DEF NE!ToSet
  <2>3. d \in NE!ToSet(u)
        BY <1>1, <1>2 DEF NE!ToSet
  <2> QED BY <2>1, <2>2, <2>3
<1> QED BY <1>1, <1>5, <1>6 DEF u

\* Init of a watcher gives the socket a descriptor of its own, or gives it back.
LEMMA InitWatched ==
  ASSUME NetInv, NEW c \in Sockets, NEW how \in {"dial", "open"}, ptr[c] = Null,
         NE!InitWatcher(c, how)
  PROVE  /\ fd_' \in [Sockets -> {"none", "dial", "open", "closed"}]
         /\ desc_' \in [Sockets -> Desc \cup {Null}] /\ ptr' \in [Sockets -> Desc \cup {Null}]
         /\ free_list_' \in Seq(Desc) /\ edge' \in SUBSET Sockets
         /\ Registered' /\ Pool' /\ edge \subseteq edge'
         /\ \A e \in Sockets \ {c} : ptr'[e] = ptr[e] /\ fd_'[e] = fd_[e] /\ desc_'[e] = desc_[e]
         /\ \/ ptr'[c] = NE!NewDesc /\ fd_'[c] = how /\ c \in edge' /\ desc_'[c] = NE!NewDesc
            \/ ptr'[c] = Null /\ fd_'[c] = "closed"
<1>1. /\ NE!NewDesc \in Desc /\ \A e \in Sockets : ptr[e] # NE!NewDesc
      /\ NE!Rest \in Seq(Desc) /\ NE!IsInjective(NE!Rest)
      /\ NE!ToSet(NE!Rest) \subseteq NE!ToSet(free_list_) \ {NE!NewDesc}
      BY NewDescFree
<1>2. NE!NewDesc # Null
      BY <1>1, NC DEF NE!NetConstants
<1> DEFINE d == NE!NewDesc
           r == NE!Rest
<1> HIDE DEF d, r
<1>3. CASE /\ desc_' = [desc_ EXCEPT ![c] = d] /\ fd_' = [fd_ EXCEPT ![c] = how]
           /\ ptr' = [ptr EXCEPT ![c] = d] /\ free_list_' = r /\ edge' = edge \cup {c}
  <2>1. Registered'
        BY <1>1, <1>2, <1>3 DEF NetInv, NetType, Registered, d, r
  <2>2. Pool'
        BY <1>1, <1>2, <1>3 DEF NetInv, NetType, Pool, d, r
  <2> QED BY <1>1, <1>3, <2>1, <2>2 DEF NetInv, NetType, d, r
<1>4. CASE /\ desc_' = [desc_ EXCEPT ![c] = d] /\ fd_' = [fd_ EXCEPT ![c] = "closed"]
           /\ UNCHANGED <<ptr, edge>> /\ free_list_' = <<d>> \o r
  <2>1. /\ free_list_' \in Seq(Desc) /\ NE!IsInjective(free_list_')
        /\ NE!ToSet(free_list_') \subseteq NE!ToSet(free_list_) \cup {d}
        BY <1>1, <1>4, FreeDesc DEF d, r
  <2>2. Registered'
        BY <1>1, <1>2, <1>4 DEF NetInv, NetType, Registered
  <2>3. Pool'
        BY <1>1, <1>2, <1>4, <2>1 DEF NetInv, NetType, Pool, d
  <2> QED BY <1>1, <1>4, <2>1, <2>2, <2>3 DEF NetInv, NetType, d
<1> QED BY <1>3, <1>4 DEF NE!InitWatcher, d, r

\* The sides of the connections are different.
LEMMA Sides ==
  ASSUME NEW c \in Sockets, NEW d \in NE!Dir
  PROVE  /\ <<c, d>> \in NE!Side
         /\ \A e \in Sockets, b \in NE!Dir : <<e, b>> \in NE!Side
             /\ (e # c \/ b # d => <<e, b>> # <<c, d>>)
  BY DEF NE!Side

\* What the fiber of a side keeps in the descriptors, when its socket has descriptor p[c].
Stands(p, s, r, w) ==
    \A e \in Sockets : /\ s[<<e, "in">>] = "waiting" => p[e] # Null /\ r[p[e]] = e
                       /\ s[<<e, "out">>] = "waiting" => p[e] # Null /\ w[p[e]] = e

\* The end of Park clears the fiber's own place, and no other.
LEMMA DoneKeeps ==
  ASSUME NetInv, NEW c \in Sockets, NEW d \in NE!Dir, NE!Done(<<c, d>>)
  PROVE  /\ st' \in [NE!Side -> {"idle", "waiting", "woken"}]
             /\ slot' \in [NE!Side -> Desc \cup {Null}]
         /\ reader' \in [Desc -> Sockets \cup {Null}] /\ writer' \in [Desc -> Sockets \cup {Null}]
         /\ st'[<<c, d>>] = "idle" /\ slot'[<<c, d>>] = Null
         /\ \A e \in Sockets, b \in NE!Dir : e # c \/ b # d => /\ st'[<<e, b>>] = st[<<e, b>>]
                                                               /\ slot'[<<e, b>>] = slot[<<e, b>>]
         /\ \A x \in Desc : reader'[x] \in {reader[x], Null} /\ writer'[x] \in {writer[x], Null}
         /\ Stands(ptr, st', reader', writer')
<1>1. /\ st' \in [NE!Side -> {"idle", "waiting", "woken"}]
          /\ slot' \in [NE!Side -> Desc \cup {Null}]
      /\ st'[<<c, d>>] = "idle" /\ slot'[<<c, d>>] = Null
      /\ \A e \in Sockets, b \in NE!Dir : e # c \/ b # d => /\ st'[<<e, b>>] = st[<<e, b>>]
                                                            /\ slot'[<<e, b>>] = slot[<<e, b>>]
  <2>1. st \in [NE!Side -> {"idle", "waiting", "woken"}] /\ slot \in [NE!Side -> Desc \cup {Null}]
        BY DEF NetInv, NetType
  <2>2. st' = [st EXCEPT ![<<c, d>>] = "idle"] /\ slot' = [slot EXCEPT ![<<c, d>>] = Null]
        BY DEF NE!Done
  <2>4. /\ st' \in [NE!Side -> {"idle", "waiting", "woken"}] /\ st'[<<c, d>>] = "idle"
        /\ \A e \in Sockets, b \in NE!Dir : e # c \/ b # d => st'[<<e, b>>] = st[<<e, b>>]
        BY <2>1, <2>2, Sides
  <2>5. /\ slot' \in [NE!Side -> Desc \cup {Null}] /\ slot'[<<c, d>>] = Null
        /\ \A e \in Sockets, b \in NE!Dir : e # c \/ b # d => slot'[<<e, b>>] = slot[<<e, b>>]
        BY <2>1, <2>2, Sides
  <2> QED BY <2>4, <2>5
<1>2. \/ UNCHANGED <<reader, writer>>
      \/ /\ ptr[c] \in Desc
         /\ \/ d = "in" /\ reader' = [reader EXCEPT ![ptr[c]] = Null] /\ UNCHANGED writer
            \/ d = "out" /\ writer' = [writer EXCEPT ![ptr[c]] = Null] /\ UNCHANGED reader
  <2>1. CASE slot[<<c, d>>] = Null \/ desc_[c] = Null
        BY <2>1 DEF NE!Done, NE!Cleanup
  <2>2. CASE slot[<<c, d>>] # Null /\ desc_[c] # Null
    <3>1. st[<<c, d>>] # "idle"
          BY <2>2 DEF NetInv, Parked
    <3>2. ptr[c] = desc_[c] /\ slot[<<c, d>>] = ptr[c] /\ ptr[c] \in Desc
          BY <2>2, <3>1 DEF NetInv, Parked, NetType
    <3>3. NE!Clear(<<c, d>>)
          BY <2>2 DEF NE!Done, NE!Cleanup
    <3> QED BY <3>2, <3>3 DEF NE!Clear, NE!Dir
  <2> QED BY <2>1, <2>2
<1>3. /\ reader' \in [Desc -> Sockets \cup {Null}] /\ writer' \in [Desc -> Sockets \cup {Null}]
      /\ \A x \in Desc : reader'[x] \in {reader[x], Null} /\ writer'[x] \in {writer[x], Null}
      BY <1>2 DEF NetInv, NetType
<1>4. ASSUME NEW e \in Sockets, st'[<<e, "in">>] = "waiting" PROVE ptr[e] # Null
             /\ reader'[ptr[e]] = e
  <2>1. (e # c \/ d # "in") /\ st[<<e, "in">>] = "waiting"
        BY <1>1, <1>4 DEF NE!Dir
  <2>2. ptr[e] \in Desc /\ reader[ptr[e]] = e
        BY <2>1 DEF NetInv, InPlace, NetType
  <2>3. e # c => ptr[e] # ptr[c]
        BY <2>2, NC DEF NetInv, Pool, NE!NetConstants
  <2> QED BY <1>2, <2>1, <2>2, <2>3, NC DEF NetInv, NetType, NE!NetConstants
<1>5. ASSUME NEW e \in Sockets, st'[<<e, "out">>] = "waiting" PROVE ptr[e] # Null
             /\ writer'[ptr[e]] = e
  <2>1. (e # c \/ d # "out") /\ st[<<e, "out">>] = "waiting"
        BY <1>1, <1>5 DEF NE!Dir
  <2>2. ptr[e] \in Desc /\ writer[ptr[e]] = e
        BY <2>1 DEF NetInv, InPlace, NetType
  <2>3. e # c => ptr[e] # ptr[c]
        BY <2>2, NC DEF NetInv, Pool, NE!NetConstants
  <2> QED BY <1>2, <2>1, <2>2, <2>3, NC DEF NetInv, NetType, NE!NetConstants
<1> QED BY <1>1, <1>3, <1>4, <1>5 DEF Stands

\* A fiber takes its place in descriptor x of its own socket.
LEMMA WaitKeeps ==
  ASSUME NetInv, NEW c \in Sockets, NEW d \in NE!Dir, NEW x \in Desc, NE!WaitOn(<<c, d>>, x),
         NEW p, p[c] = x, \A e \in Sockets : e # c => p[e] = ptr[e] /\ p[e] # x
  PROVE  /\ st' \in [NE!Side -> {"idle", "waiting", "woken"}]
             /\ slot' \in [NE!Side -> Desc \cup {Null}]
         /\ reader' \in [Desc -> Sockets \cup {Null}] /\ writer' \in [Desc -> Sockets \cup {Null}]
         /\ st'[<<c, d>>] = "waiting" /\ slot'[<<c, d>>] = x
         /\ \A e \in Sockets, b \in NE!Dir : e # c \/ b # d => /\ st'[<<e, b>>] = st[<<e, b>>]
                                                               /\ slot'[<<e, b>>] = slot[<<e, b>>]
         /\ \A y \in Desc \ {x} : reader'[y] = reader[y] /\ writer'[y] = writer[y]
         /\ (\A b \in NE!Dir \ {d} : st[<<c, b>>] = "waiting" => ptr[c] = x)
             => Stands(p, st', reader', writer')
<1>1. /\ st' \in [NE!Side -> {"idle", "waiting", "woken"}]
          /\ slot' \in [NE!Side -> Desc \cup {Null}]
      /\ st'[<<c, d>>] = "waiting" /\ slot'[<<c, d>>] = x
      /\ \A e \in Sockets, b \in NE!Dir : e # c \/ b # d => /\ st'[<<e, b>>] = st[<<e, b>>]
                                                            /\ slot'[<<e, b>>] = slot[<<e, b>>]
  <2>1. st \in [NE!Side -> {"idle", "waiting", "woken"}] /\ slot \in [NE!Side -> Desc \cup {Null}]
        BY DEF NetInv, NetType
  <2>2. st' = [st EXCEPT ![<<c, d>>] = "waiting"] /\ slot' = [slot EXCEPT ![<<c, d>>] = x]
        BY DEF NE!WaitOn
  <2>4. /\ st' \in [NE!Side -> {"idle", "waiting", "woken"}] /\ st'[<<c, d>>] = "waiting"
        /\ \A e \in Sockets, b \in NE!Dir : e # c \/ b # d => st'[<<e, b>>] = st[<<e, b>>]
        BY <2>1, <2>2, Sides
  <2>5. /\ slot' \in [NE!Side -> Desc \cup {Null}] /\ slot'[<<c, d>>] = x
        /\ \A e \in Sockets, b \in NE!Dir : e # c \/ b # d => slot'[<<e, b>>] = slot[<<e, b>>]
        BY <2>1, <2>2, Sides
  <2> QED BY <2>4, <2>5
<1>2. \/ d = "in" /\ reader' = [reader EXCEPT ![x] = c] /\ UNCHANGED writer
      \/ d = "out" /\ writer' = [writer EXCEPT ![x] = c] /\ UNCHANGED reader
      BY DEF NE!WaitOn, NE!Dir
<1>3. /\ reader' \in [Desc -> Sockets \cup {Null}] /\ writer' \in [Desc -> Sockets \cup {Null}]
      /\ \A y \in Desc \ {x} : reader'[y] = reader[y] /\ writer'[y] = writer[y]
      BY <1>2 DEF NetInv, NetType
<1>4. x # Null
      BY NC DEF NE!NetConstants
<1>5. ASSUME \A b \in NE!Dir \ {d} : st[<<c, b>>] = "waiting" => ptr[c] = x
      PROVE  Stands(p, st', reader', writer')
  <2>1. ASSUME NEW e \in Sockets, st'[<<e, "in">>] = "waiting" PROVE p[e] # Null
               /\ reader'[p[e]] = e
    <3>1. CASE e = c /\ d = "in"
          BY <3>1, <1>2, <1>4 DEF NetInv, NetType
    <3>2. CASE e = c /\ d = "out"
      <4>1. st[<<c, "in">>] = "waiting"
            BY <1>1, <2>1, <3>2 DEF NE!Dir
      <4>2. ptr[c] = x /\ reader[x] = c
            BY <4>1, <3>2, <1>5 DEF NE!Dir, NetInv, InPlace
      <4> QED BY <3>2, <4>2, <1>2, <1>4
    <3>3. CASE e # c
      <4>1. st[<<e, "in">>] = "waiting"
            BY <1>1, <2>1, <3>3 DEF NE!Dir
      <4>3. ptr[e] \in Desc /\ reader[ptr[e]] = e
            BY <4>1, WaitsOnOwn DEF NE!Dir
      <4>2. p[e] = ptr[e] /\ p[e] # x /\ p[e] \in Desc /\ reader[p[e]] = e
            BY <4>3, <3>3
      <4> QED BY <4>2, <1>3, NC DEF NE!NetConstants
    <3> QED BY <3>1, <3>2, <3>3 DEF NE!Dir
  <2>2. ASSUME NEW e \in Sockets, st'[<<e, "out">>] = "waiting" PROVE p[e] # Null
               /\ writer'[p[e]] = e
    <3>1. CASE e = c /\ d = "out"
          BY <3>1, <1>2, <1>4 DEF NetInv, NetType
    <3>2. CASE e = c /\ d = "in"
      <4>1. st[<<c, "out">>] = "waiting"
            BY <1>1, <2>2, <3>2 DEF NE!Dir
      <4>2. ptr[c] = x /\ writer[x] = c
            BY <4>1, <3>2, <1>5 DEF NE!Dir, NetInv, InPlace
      <4> QED BY <3>2, <4>2, <1>2, <1>4
    <3>3. CASE e # c
      <4>1. st[<<e, "out">>] = "waiting"
            BY <1>1, <2>2, <3>3 DEF NE!Dir
      <4>3. ptr[e] \in Desc /\ writer[ptr[e]] = e
            BY <4>1, WaitsOnOwn DEF NE!Dir
      <4>2. p[e] = ptr[e] /\ p[e] # x /\ p[e] \in Desc /\ writer[p[e]] = e
            BY <4>3, <3>3
      <4> QED BY <4>2, <1>3, NC DEF NE!NetConstants
    <3> QED BY <3>1, <3>2, <3>3 DEF NE!Dir
  <2> QED BY <2>1, <2>2 DEF Stands
<1> QED BY <1>1, <1>3, <1>5

\* What an operation may do to the counts of a socket besides.
Consumes ==
    /\ data' \in [Sockets -> Nat] /\ room' \in [Sockets -> Nat] /\ rest' \in [NE!Side -> Nat]
    /\ \A e \in Sockets : data'[e] <= data[e] /\ room'[e] <= room[e]
    /\ UNCHANGED <<Packet, hup, dialing>>

\* Fewer bytes and less room give no new events.
LEMMA LevelFalls ==
  ASSUME NetInv, Consumes, NEW c \in Sockets
  PROVE  NE!Level(c)' \subseteq NE!Level(c)
<1>1. data[c] \in Nat /\ room[c] \in Nat /\ data'[c] \in Nat /\ room'[c] \in Nat
      /\ data'[c] <= data[c] /\ room'[c] <= room[c]
      BY DEF NetInv, NetType, Consumes
<1> QED BY <1>1 DEF NE!Level, Consumes

\* An operation returns to its caller.
LEMMA ReturnInv ==
  ASSUME NetInv, NEW c \in Sockets, NEW d \in NE!Dir, NE!Done(<<c, d>>), Consumes,
         UNCHANGED <<desc_, free_list_, ptr, edge>>,
         fd_' \in [Sockets -> {"none", "dial", "open", "closed"}],
         \A e \in Sockets : /\ fd_'[e] \in {"dial", "open"} <=> fd_[e] \in {"dial", "open"}
                            /\ fd_'[e] = "dial" => fd_[e] = "dial"
  PROVE  NetInv'
<1>1. /\ st' \in [NE!Side -> {"idle", "waiting", "woken"}]
          /\ slot' \in [NE!Side -> Desc \cup {Null}]
      /\ reader' \in [Desc -> Sockets \cup {Null}] /\ writer' \in [Desc -> Sockets \cup {Null}]
      /\ st'[<<c, d>>] = "idle" /\ slot'[<<c, d>>] = Null
      /\ \A e \in Sockets, b \in NE!Dir : e # c \/ b # d => /\ st'[<<e, b>>] = st[<<e, b>>]
                                                            /\ slot'[<<e, b>>] = slot[<<e, b>>]
      /\ \A x \in Desc : reader'[x] \in {reader[x], Null} /\ writer'[x] \in {writer[x], Null}
      /\ Stands(ptr, st', reader', writer')
      BY DoneKeeps
<1>2. NetType'
      BY <1>1 DEF NetInv, NetType, Consumes
<1>3. Registered' /\ Pool'
      BY DEF NetInv, Registered, Pool
<1>4. Unused'
      BY <1>1 DEF NetInv, Unused
<1>5. Parked'
  <2> SUFFICES ASSUME NEW e \in Sockets, NEW b \in NE!Dir
               PROVE  /\ st'[<<e, b>>] = "idle" => slot'[<<e, b>>] = Null
                      /\ st'[<<e, b>>] # "idle" => /\ slot'[<<e, b>>] \in Desc /\ ptr[e] = desc_[e]
                                                   /\ ptr[e] # Null => slot'[<<e, b>>] = ptr[e]
                      /\ fd_'[e] = "dial" => st'[<<e, "in">>] = "idle"
      BY DEF Parked
  <2>1. fd_'[e] = "dial" => st'[<<e, "in">>] = "idle"
        BY <1>1 DEF NetInv, Parked, NE!Dir
  <2>2. CASE e = c /\ b = d
        BY <1>1, <2>1, <2>2
  <2>3. CASE e # c \/ b # d
    <3>1. st'[<<e, b>>] = st[<<e, b>>] /\ slot'[<<e, b>>] = slot[<<e, b>>]
          BY <1>1, <2>3
    <3> QED BY <3>1, <2>1 DEF NetInv, Parked
  <2> QED BY <2>2, <2>3
<1>6. Unhung'
      BY DEF NetInv, Unhung, NE!Listener, Consumes
<1>7. InPlace'
      BY <1>1 DEF Stands, InPlace
<1>8. Announced'
  <2> SUFFICES ASSUME NEW e \in Sockets, NEW b \in NE!Dir, st'[<<e, b>>] = "waiting",
                      b \in NE!Level(e)'
               PROVE  e \in edge
      BY DEF Announced
  <2>1. st[<<e, b>>] = "waiting"
        BY <1>1
  <2>2. b \in NE!Level(e)
        BY LevelFalls
  <2> QED BY <2>1, <2>2 DEF NetInv, Announced
<1> QED BY <1>2, <1>3, <1>4, <1>5, <1>6, <1>7, <1>8 DEF NetInv

\* An operation waits, when there is nothing for it.
LEMMA WaitInv ==
  ASSUME NetInv, NEW c \in Sockets, NEW d \in NE!Dir, fd_[c] = "open", NE!Wait(<<c, d>>), Consumes,
         UNCHANGED <<fd_, desc_, free_list_, ptr, edge>>, d \notin NE!Level(c)'
  PROVE  NetInv'
<1>0. ptr[c] \in Desc /\ ptr[c] = desc_[c] /\ \A e \in Sockets : e # c => ptr[e] = ptr[e]
      /\ ptr[e] # ptr[c]
  <2>1. ptr[c] # Null
        BY DEF NetInv, Registered
  <2> QED BY <2>1 DEF NetInv, NetType, Registered, Pool
<1>01. NE!WaitOn(<<c, d>>, ptr[c])
      BY <1>0 DEF NE!Wait
<1>1. /\ st' \in [NE!Side -> {"idle", "waiting", "woken"}]
          /\ slot' \in [NE!Side -> Desc \cup {Null}]
      /\ reader' \in [Desc -> Sockets \cup {Null}] /\ writer' \in [Desc -> Sockets \cup {Null}]
      /\ st'[<<c, d>>] = "waiting" /\ slot'[<<c, d>>] = ptr[c]
      /\ \A e \in Sockets, b \in NE!Dir : e # c \/ b # d => /\ st'[<<e, b>>] = st[<<e, b>>]
                                                            /\ slot'[<<e, b>>] = slot[<<e, b>>]
      /\ \A y \in Desc \ {ptr[c]} : reader'[y] = reader[y] /\ writer'[y] = writer[y]
      /\ Stands(ptr, st', reader', writer')
  <2> DEFINE p == ptr
             x == ptr[c]
  <2>1. x \in Desc /\ NE!WaitOn(<<c, d>>, x) /\ p[c] = x
        /\ \A e \in Sockets : e # c => p[e] = ptr[e] /\ p[e] # x
        BY <1>0, <1>01
  <2>2. \A b \in NE!Dir \ {d} : st[<<c, b>>] = "waiting" => ptr[c] = x
        OBVIOUS
  <2> HIDE DEF p, x
  <2>3. /\ st' \in [NE!Side -> {"idle", "waiting", "woken"}]
            /\ slot' \in [NE!Side -> Desc \cup {Null}]
        /\ reader' \in [Desc -> Sockets \cup {Null}] /\ writer' \in [Desc -> Sockets \cup {Null}]
        /\ st'[<<c, d>>] = "waiting" /\ slot'[<<c, d>>] = x
        /\ \A e \in Sockets, b \in NE!Dir : e # c \/ b # d => /\ st'[<<e, b>>] = st[<<e, b>>]
                                                              /\ slot'[<<e, b>>] = slot[<<e, b>>]
        /\ \A y \in Desc \ {x} : reader'[y] = reader[y] /\ writer'[y] = writer[y]
        /\ Stands(p, st', reader', writer')
        BY <2>1, <2>2, WaitKeeps
  <2> QED BY <2>3 DEF p, x
<1>2. NetType'
      BY <1>1 DEF NetInv, NetType, Consumes
<1>3. Registered' /\ Pool'
      BY DEF NetInv, Registered, Pool
<1>4. Unused'
      BY <1>1 DEF NetInv, Unused
<1>5. Parked'
  <2> SUFFICES ASSUME NEW e \in Sockets, NEW b \in NE!Dir
               PROVE  /\ st'[<<e, b>>] = "idle" => slot'[<<e, b>>] = Null
                      /\ st'[<<e, b>>] # "idle" => /\ slot'[<<e, b>>] \in Desc /\ ptr[e] = desc_[e]
                                                   /\ ptr[e] # Null => slot'[<<e, b>>] = ptr[e]
                      /\ fd_[e] = "dial" => st'[<<e, "in">>] = "idle"
      BY DEF Parked
  <2>1. fd_[e] = "dial" => st'[<<e, "in">>] = "idle"
    <3>1. fd_[e] = "dial" => e # c
          OBVIOUS
    <3> QED BY <3>1, <1>1 DEF NetInv, Parked, NE!Dir
  <2>2. CASE e = c /\ b = d
        BY <1>0, <1>1, <2>1, <2>2
  <2>3. CASE e # c \/ b # d
    <3>1. st'[<<e, b>>] = st[<<e, b>>] /\ slot'[<<e, b>>] = slot[<<e, b>>]
          BY <1>1, <2>3
    <3> QED BY <3>1, <2>1 DEF NetInv, Parked
  <2> QED BY <2>2, <2>3
<1>6. Unhung'
      BY DEF NetInv, Unhung, NE!Listener, Consumes
<1>7. InPlace'
      BY <1>1 DEF Stands, InPlace
<1>8. Announced'
  <2> SUFFICES ASSUME NEW e \in Sockets, NEW b \in NE!Dir, st'[<<e, b>>] = "waiting",
                      b \in NE!Level(e)'
               PROVE  e \in edge
      BY DEF Announced
  <2>0. e # c \/ b # d
        OBVIOUS
  <2>1. st[<<e, b>>] = "waiting"
        BY <1>1, <2>0
  <2>2. b \in NE!Level(e)
        BY LevelFalls
  <2> QED BY <2>1, <2>2 DEF NetInv, Announced
<1> QED BY <1>2, <1>3, <1>4, <1>5, <1>6, <1>7, <1>8 DEF NetInv

\* The smaller of two counts.
LEMMA Smaller ==
  ASSUME NEW m \in Nat, NEW n \in Nat
  PROVE  NE!Min({m, n}) = IF m <= n THEN m ELSE n
<1>1. \E x \in {m, n} : \A y \in {m, n} : x <= y
      OBVIOUS
<1> QED BY <1>1 DEF NE!Min

\* Back from Wait with an exception, and the end of FinishDial.
LEMMA BackInv ==
  ASSUME NetInv, \/ \E f \in NE!Side : NE!Step(f)
                 \/ \E c \in Sockets : NE!FinishDial(c)
  PROVE  NetInv'
<1>1. ASSUME NEW f \in NE!Side, NE!Step(f) PROVE NetInv'
  <2>1. PICK c \in Sockets, d \in NE!Dir : f = <<c, d>>
        BY DEF NE!Side
  <2>2. NE!Done(<<c, d>>) /\ UNCHANGED <<Packet, fd_, desc_, free_list_, NE!kernel, rest>>
        BY <1>1, <2>1 DEF NE!Step, NE!Closed, NE!Interrupt
  <2>3. Consumes
        BY <2>2 DEF Consumes, NE!kernel, NetInv, NetType
  <2>4. /\ UNCHANGED <<desc_, free_list_, ptr, edge>>
        /\ fd_' \in [Sockets -> {"none", "dial", "open", "closed"}]
        /\ \A e \in Sockets : /\ fd_'[e] \in {"dial", "open"} <=> fd_[e] \in {"dial", "open"}
                              /\ fd_'[e] = "dial" => fd_[e] = "dial"
        BY <2>2 DEF NE!kernel, NetInv, NetType
  <2> QED BY <2>2, <2>3, <2>4, ReturnInv
<1>2. ASSUME NEW c \in Sockets, NE!FinishDial(c) PROVE NetInv'
  <2>1. "out" \in NE!Dir
        BY DEF NE!Dir
  <2>2. NE!Done(<<c, "out">>) /\ UNCHANGED <<Packet, desc_, free_list_, NE!kernel, rest>>
        BY <1>2 DEF NE!FinishDial
  <2>3. Consumes
        BY <2>2 DEF Consumes, NE!kernel, NetInv, NetType
  <2>4. /\ UNCHANGED <<desc_, free_list_, ptr, edge>>
        /\ fd_' \in [Sockets -> {"none", "dial", "open", "closed"}]
        /\ \A e \in Sockets : /\ fd_'[e] \in {"dial", "open"} <=> fd_[e] \in {"dial", "open"}
                              /\ fd_'[e] = "dial" => fd_[e] = "dial"
        BY <1>2, <2>2 DEF NE!FinishDial, NE!kernel, NetInv, NetType
  <2> QED BY <2>1, <2>2, <2>3, <2>4, ReturnInv
<1> QED BY <1>1, <1>2

\* read() and recvfrom().
LEMMA ReceiveInv ==
  ASSUME NetInv, NEW c \in Sockets, NEW most \in Nat, data[c] > 0 => most <= data[c],
         NE!Receive(c, most)
  PROVE  NetInv'
<1> DEFINE f == <<c, "in">>
<1>0. "in" \in NE!Dir /\ fd_[c] = "open" /\ UNCHANGED <<Packet, fd_, desc_, free_list_, ptr, edge,
      room, hup, dialing, rest>>
      BY DEF NE!Dir, NE!Receive, NE!Tries
<1>1. fd_' \in [Sockets -> {"none", "dial", "open", "closed"}]
      BY <1>0 DEF NetInv, NetType
<1>2. CASE data[c] > 0 /\ NE!Done(f) /\ \E n \in 1..most : data' = [data EXCEPT ![c] = @ - n]
  <2>1. PICK n \in 1..most : data' = [data EXCEPT ![c] = @ - n]
        BY <1>2
  <2>2. Consumes
        BY <1>0, <1>2, <2>1 DEF Consumes, NetInv, NetType
  <2> QED BY <1>0, <1>1, <1>2, <2>2, ReturnInv
<1>3. CASE NE!Done(f) /\ UNCHANGED data
  <2>2. Consumes
        BY <1>0, <1>3 DEF Consumes, NetInv, NetType
  <2> QED BY <1>0, <1>1, <1>3, <2>2, ReturnInv
<1>4. CASE data[c] = 0 /\ c \notin hup /\ NE!Wait(f) /\ UNCHANGED data
  <2>2. Consumes
        BY <1>0, <1>4 DEF Consumes, NetInv, NetType
  <2>3. "in" \notin NE!Level(c)'
        BY <1>0, <1>4 DEF NE!Level
  <2> QED BY <1>0, <1>4, <2>2, <2>3, WaitInv
<1> QED BY <1>2, <1>3, <1>4 DEF NE!Receive

\* send(): Write waits only when the kernel has no room left.
LEMMA SendInv ==
  ASSUME NetInv, NEW c \in Sockets, NEW most \in Nat, NE!Send(c, most)
  PROVE  NetInv'
<1> DEFINE f == <<c, "out">>
<1>0. /\ "out" \in NE!Dir /\ fd_[c] = "open" /\ f \in NE!Side
      /\ UNCHANGED <<Packet, fd_, desc_, free_list_, ptr, edge, data, hup, dialing>>
      BY DEF NE!Dir, NE!Side, NE!Send, NE!Tries
<1>1. fd_' \in [Sockets -> {"none", "dial", "open", "closed"}]
      BY <1>0 DEF NetInv, NetType
<1>2. PICK n \in Nat :
          /\ rest' = [rest EXCEPT ![f] = IF c \in hup THEN 0 ELSE n - NE!Min({n, room[c]})]
          /\ room' = [room EXCEPT ![c] = IF c \in hup THEN @ ELSE @ - NE!Min({n, room[c]})]
          /\ IF rest'[f] = 0 THEN NE!Done(f) ELSE NE!Wait(f)
  <2>1. PICK n \in IF st[f] = "woken" THEN {rest[f]} ELSE 1..most :
            /\ rest' = [rest EXCEPT ![f] = IF c \in hup THEN 0 ELSE n - NE!Min({n, room[c]})]
            /\ room' = [room EXCEPT ![c] = IF c \in hup THEN @ ELSE @ - NE!Min({n, room[c]})]
            /\ IF rest'[f] = 0 THEN NE!Done(f) ELSE NE!Wait(f)
        BY DEF NE!Send
  <2>2. n \in Nat
        BY <1>0, <2>1 DEF NetInv, NetType
  <2> QED BY <2>1, <2>2
<1>3. room[c] \in Nat /\ NE!Min({n, room[c]}) = IF n <= room[c] THEN n ELSE room[c]
      BY Smaller DEF NetInv, NetType
<1>4. Consumes
  <2> DEFINE m == NE!Min({n, room[c]})
  <2>1. m \in Nat /\ n - m \in Nat /\ room[c] - m \in Nat /\ room[c] - m <= room[c]
        BY <1>3
  <2> HIDE DEF m
  <2>2. /\ rest' = [rest EXCEPT ![f] = IF c \in hup THEN 0 ELSE n - m]
        /\ room' = [room EXCEPT ![c] = IF c \in hup THEN @ ELSE @ - m]
        BY <1>2 DEF m
  <2>3. rest' \in [NE!Side -> Nat]
        BY <2>1, <2>2 DEF NetInv, NetType
  <2>4. room' \in [Sockets -> Nat] /\ \A e \in Sockets : room'[e] <= room[e]
        BY <2>1, <2>2 DEF NetInv, NetType
  <2> QED BY <1>0, <2>3, <2>4 DEF Consumes, NetInv, NetType
<1>5. CASE rest'[f] = 0
      BY <1>0, <1>1, <1>2, <1>4, <1>5, ReturnInv
<1>6. CASE rest'[f] # 0
  <2>1. c \notin hup /\ n > room[c]
        BY <1>0, <1>2, <1>3, <1>6 DEF NetInv, NetType
  <2>2. room'[c] = 0
        BY <1>2, <1>3, <2>1 DEF NetInv, NetType
  <2>3. "out" \notin NE!Level(c)'
        BY <1>0, <2>1, <2>2 DEF NE!Level
  <2> QED BY <1>0, <1>2, <1>4, <1>6, <2>3, WaitInv
<1> QED BY <1>5, <1>6

\* A socket that is not registered has no fiber inside Wait.
LEMMA FreshSocket ==
  ASSUME NetInv, NEW c \in Sockets, NE!Fresh(c)
  PROVE  ptr[c] = Null /\ fd_[c] \notin {"dial", "open"} /\ \A d \in NE!Dir : st[<<c, d>>] = "idle"
  BY DEF NetInv, Registered, NE!Fresh, NE!Busy

\* SocketListener and PacketConn.
LEMMA BindInv ==
  ASSUME NetInv, NEW c \in Sockets, NE!Bind(c)
  PROVE  NetInv'
<1>0. ptr[c] = Null /\ \A d \in NE!Dir : st[<<c, d>>] = "idle"
      BY FreshSocket DEF NE!Bind
<1>1. NE!InitWatcher(c, "open") /\ UNCHANGED <<Packet, reader, writer, data, room, hup, dialing,
      NE!fibers>>
      BY DEF NE!Bind
<1>2. /\ fd_' \in [Sockets -> {"none", "dial", "open", "closed"}]
      /\ desc_' \in [Sockets -> Desc \cup {Null}] /\ ptr' \in [Sockets -> Desc \cup {Null}]
      /\ free_list_' \in Seq(Desc) /\ edge' \in SUBSET Sockets
      /\ Registered' /\ Pool' /\ edge \subseteq edge'
      /\ \A e \in Sockets \ {c} : ptr'[e] = ptr[e] /\ fd_'[e] = fd_[e] /\ desc_'[e] = desc_[e]
      /\ \/ ptr'[c] = NE!NewDesc /\ fd_'[c] = "open" /\ c \in edge' /\ desc_'[c] = NE!NewDesc
         \/ ptr'[c] = Null /\ fd_'[c] = "closed"
      BY <1>0, <1>1, InitWatched
<1>3. NetType'
      BY <1>1, <1>2 DEF NetInv, NetType, NE!fibers
<1>4. Unused'
      BY <1>0, <1>1, <1>2, NC DEF NetInv, Unused, NE!NetConstants
<1>5. Parked'
  <2> SUFFICES ASSUME NEW e \in Sockets, NEW b \in NE!Dir
               PROVE  /\ st[<<e, b>>] = "idle" => slot[<<e, b>>] = Null
                      /\ st[<<e, b>>] # "idle" => /\ slot[<<e, b>>] \in Desc /\ ptr'[e] = desc_'[e]
                                                  /\ ptr'[e] # Null => slot[<<e, b>>] = ptr'[e]
                      /\ fd_'[e] = "dial" => st[<<e, "in">>] = "idle"
      BY <1>1 DEF Parked, NE!fibers
  <2>1. CASE e = c
        BY <1>0, <1>2, <2>1 DEF NetInv, Parked
  <2>2. CASE e # c
        BY <1>2, <2>2 DEF NetInv, Parked
  <2> QED BY <2>1, <2>2
<1>6. Unhung'
      BY <1>1 DEF NetInv, Unhung, NE!Listener
<1>7. InPlace'
      BY <1>0, <1>1, <1>2 DEF NetInv, InPlace, NE!fibers, NE!Dir
<1>8. Announced'
  <2>1. \A e \in Sockets : NE!Level(e)' = NE!Level(e)
        BY <1>1 DEF NE!Level
  <2> QED BY <1>1, <1>2, <2>1 DEF NetInv, Announced, NE!fibers
<1> QED BY <1>2, <1>3, <1>4, <1>5, <1>6, <1>7, <1>8 DEF NetInv

\* DialTCP up to the Park of FinishDial.
LEMMA DialInv ==
  ASSUME NetInv, NEW c \in Sockets, NE!Dial(c)
  PROVE  NetInv'
<1>0. ptr[c] = Null /\ fd_[c] \notin {"dial", "open"} /\ (\A d \in NE!Dir : st[<<c, d>>] = "idle")
      /\ "out" \in NE!Dir
      BY FreshSocket DEF NE!Dial, NE!Dir
<1>1. NE!InitWatcher(c, "dial") /\ UNCHANGED <<Packet, data, room, hup, rest>>
      BY DEF NE!Dial
<1>2. /\ fd_' \in [Sockets -> {"none", "dial", "open", "closed"}]
      /\ desc_' \in [Sockets -> Desc \cup {Null}] /\ ptr' \in [Sockets -> Desc \cup {Null}]
      /\ free_list_' \in Seq(Desc) /\ edge' \in SUBSET Sockets
      /\ Registered' /\ Pool' /\ edge \subseteq edge'
      /\ \A e \in Sockets \ {c} : ptr'[e] = ptr[e] /\ fd_'[e] = fd_[e] /\ desc_'[e] = desc_[e]
      /\ \/ ptr'[c] = NE!NewDesc /\ fd_'[c] = "dial" /\ c \in edge' /\ desc_'[c] = NE!NewDesc
         \/ ptr'[c] = Null /\ fd_'[c] = "closed"
      BY <1>0, <1>1, InitWatched
<1>3. Unhung'
      BY <1>1 DEF NetInv, Unhung, NE!Listener
<1>4. CASE fd_'[c] # "dial"
  <2>1. ptr'[c] = Null /\ UNCHANGED <<dialing, reader, writer, st, slot>>
        BY <1>2, <1>4 DEF NE!Dial
  <2>2. NetType'
        BY <1>1, <1>2, <2>1 DEF NetInv, NetType
  <2>3. Unused'
        BY <1>0, <1>2, <2>1, NC DEF NetInv, Unused, NE!NetConstants
  <2>4. Parked'
    <3> SUFFICES ASSUME NEW e \in Sockets, NEW b \in NE!Dir
                 PROVE  /\ st[<<e, b>>] = "idle" => slot[<<e, b>>] = Null
                        /\ st[<<e, b>>] # "idle" => /\ slot[<<e, b>>] \in Desc
                                                        /\ ptr'[e] = desc_'[e]
                                                    /\ ptr'[e] # Null => slot[<<e, b>>] = ptr'[e]
                        /\ fd_'[e] = "dial" => st[<<e, "in">>] = "idle"
        BY <2>1 DEF Parked
    <3>1. CASE e = c
          BY <1>0, <1>4, <3>1 DEF NetInv, Parked
    <3>2. CASE e # c
          BY <1>2, <3>2 DEF NetInv, Parked
    <3> QED BY <3>1, <3>2
  <2>5. InPlace'
    <3>1. \A e \in Sockets : st[<<e, "in">>] = "waiting" \/ st[<<e, "out">>] = "waiting" => e # c
          BY <1>0 DEF NE!Dir
    <3> QED BY <1>2, <2>1, <3>1 DEF NetInv, InPlace
  <2>6. Announced'
        BY <1>1, <1>2, <2>1 DEF NetInv, Announced, NE!Level
  <2> QED BY <1>2, <1>3, <2>2, <2>3, <2>4, <2>5, <2>6 DEF NetInv
<1>5. CASE fd_'[c] = "dial"
  <2> DEFINE p == ptr'
             x == desc_'[c]
  <2>1. dialing' = dialing \cup {c} /\ NE!WaitOn(<<c, "out">>, x)
        BY <1>5 DEF NE!Dial
  <2>2. x \in Desc /\ p[c] = x /\ x # Null
        BY <1>2, <1>5, NewDescFree, <1>0, NC DEF NE!NetConstants
  <2>3. \A e \in Sockets : e # c => p[e] = ptr[e] /\ p[e] # x
        BY <1>2, <2>2 DEF Pool
  <2>4. \A b \in NE!Dir \ {"out"} : st[<<c, b>>] = "waiting" => ptr[c] = x
        BY <1>0
  <2> HIDE DEF p, x
  <2>5. /\ st' \in [NE!Side -> {"idle", "waiting", "woken"}]
            /\ slot' \in [NE!Side -> Desc \cup {Null}]
        /\ reader' \in [Desc -> Sockets \cup {Null}] /\ writer' \in [Desc -> Sockets \cup {Null}]
        /\ st'[<<c, "out">>] = "waiting" /\ slot'[<<c, "out">>] = x
        /\ \A e \in Sockets, b \in NE!Dir : e # c \/ b # "out" => /\ st'[<<e, b>>] = st[<<e, b>>]
                                                                 /\ slot'[<<e, b>>] = slot[<<e, b>>]
        /\ \A y \in Desc \ {x} : reader'[y] = reader[y] /\ writer'[y] = writer[y]
        /\ Stands(p, st', reader', writer')
        BY <1>0, <2>1, <2>2, <2>3, <2>4, WaitKeeps
  <2>6. NetType'
        BY <1>1, <1>2, <2>1, <2>5 DEF NetInv, NetType
  <2>7. Unused'
    <3> SUFFICES ASSUME NEW y \in Desc, \A e \in Sockets : ptr'[e] # y
                 PROVE  reader'[y] = Null /\ writer'[y] = Null
        BY DEF Unused
    <3>1. y # x
          BY <2>2 DEF p
    <3>2. \A e \in Sockets : ptr[e] # y
          BY <1>0, <1>2, NC DEF NE!NetConstants
    <3> QED BY <3>1, <3>2, <2>5 DEF NetInv, Unused
  <2>8. Parked'
    <3> SUFFICES ASSUME NEW e \in Sockets, NEW b \in NE!Dir
                 PROVE  /\ st'[<<e, b>>] = "idle" => slot'[<<e, b>>] = Null
                        /\ st'[<<e, b>>] # "idle" => /\ slot'[<<e, b>>] \in Desc
                                                         /\ ptr'[e] = desc_'[e]
                                                     /\ ptr'[e] # Null => slot'[<<e, b>>] = ptr'[e]
                        /\ fd_'[e] = "dial" => st'[<<e, "in">>] = "idle"
        BY DEF Parked
    <3>0. "in" \in NE!Dir /\ st'[<<e, "in">>] = st[<<e, "in">>]
          BY <2>5 DEF NE!Dir
    <3>1. CASE e = c /\ b = "out"
          BY <1>0, <2>2, <2>5, <3>0, <3>1 DEF p, x
    <3>2. CASE e = c /\ b # "out"
          BY <1>0, <2>5, <3>0, <3>2 DEF NetInv, Parked
    <3>3. CASE e # c
      <4>1. st'[<<e, b>>] = st[<<e, b>>] /\ slot'[<<e, b>>] = slot[<<e, b>>]
            BY <2>5, <3>3
      <4> QED BY <1>2, <3>0, <3>3, <4>1 DEF NetInv, Parked
    <3> QED BY <3>1, <3>2, <3>3
  <2>9. InPlace'
        BY <2>5 DEF Stands, InPlace, p
  <2>10. Announced'
    <3> SUFFICES ASSUME NEW e \in Sockets, NEW b \in NE!Dir, st'[<<e, b>>] = "waiting",
                        b \in NE!Level(e)'
                 PROVE  e \in edge'
        BY DEF Announced
    <3>1. e # c
          BY <2>1 DEF NE!Level
    <3>2. st[<<e, b>>] = "waiting" /\ b \in NE!Level(e)
          BY <1>1, <2>1, <2>5, <3>1 DEF NE!Level
    <3> QED BY <1>2, <3>2 DEF NetInv, Announced
  <2> QED BY <1>2, <1>3, <2>6, <2>7, <2>8, <2>9, <2>10 DEF NetInv
<1> QED BY <1>4, <1>5

\* Accept hands out a connection, or waits.
LEMMA AcceptInv ==
  ASSUME NetInv, NEW l \in Sockets, NE!Accept(l)
  PROVE  NetInv'
<1> DEFINE f == <<l, "in">>
<1>0. "in" \in NE!Dir /\ fd_[l] = "open" /\ l \in NE!Listener /\ UNCHANGED <<Packet, dialing, rest>>
      BY DEF NE!Dir, NE!Accept, NE!Tries
<1>1. CASE /\ data[l] = 0 /\ NE!Wait(f)
           /\ UNCHANGED <<fd_, desc_, free_list_, ptr, edge, data, room, hup, opened>>
  <2>1. Consumes
        BY <1>0, <1>1 DEF Consumes, NetInv, NetType
  <2>2. "in" \notin NE!Level(l)'
        BY <1>0, <1>1 DEF NE!Level, NetInv, Unhung
  <2> QED BY <1>0, <1>1, <2>1, <2>2, WaitInv
<1>2. CASE /\ data[l] > 0 /\ NE!Done(f)
           /\ \E c \in Sockets \ (Bound) :
                /\ NE!Fresh(c) /\ NE!InitWatcher(c, "open")
                /\ data' = [data EXCEPT ![l] = @ - 1]
           /\ UNCHANGED <<room, hup>>
  <2>1. PICK c \in Sockets : NE!Fresh(c) /\ NE!InitWatcher(c, "open")
             /\ data' = [data EXCEPT ![l] = @ - 1]
        BY <1>2
  <2>2. ptr[c] = Null /\ fd_[c] \notin {"dial", "open"}
        /\ (\A d \in NE!Dir : st[<<c, d>>] = "idle") /\ c # l
        BY <1>0, <2>1, FreshSocket
  <2>3. /\ fd_' \in [Sockets -> {"none", "dial", "open", "closed"}]
        /\ desc_' \in [Sockets -> Desc \cup {Null}] /\ ptr' \in [Sockets -> Desc \cup {Null}]
        /\ free_list_' \in Seq(Desc) /\ edge' \in SUBSET Sockets
        /\ Registered' /\ Pool' /\ edge \subseteq edge'
        /\ \A e \in Sockets \ {c} : ptr'[e] = ptr[e] /\ fd_'[e] = fd_[e] /\ desc_'[e] = desc_[e]
        /\ \/ ptr'[c] = NE!NewDesc /\ fd_'[c] = "open" /\ c \in edge' /\ desc_'[c] = NE!NewDesc
           \/ ptr'[c] = Null /\ fd_'[c] = "closed"
        BY <2>1, <2>2, InitWatched
  <2>4. /\ st' \in [NE!Side -> {"idle", "waiting", "woken"}]
            /\ slot' \in [NE!Side -> Desc \cup {Null}]
        /\ reader' \in [Desc -> Sockets \cup {Null}] /\ writer' \in [Desc -> Sockets \cup {Null}]
        /\ st'[f] = "idle" /\ slot'[f] = Null
        /\ \A e \in Sockets, b \in NE!Dir : e # l \/ b # "in" => /\ st'[<<e, b>>] = st[<<e, b>>]
                                                                 /\ slot'[<<e, b>>] = slot[<<e, b>>]
        /\ \A x \in Desc : reader'[x] \in {reader[x], Null} /\ writer'[x] \in {writer[x], Null}
        /\ Stands(ptr, st', reader', writer')
        BY <1>0, <1>2, DoneKeeps
  <2>5. Consumes
        BY <1>0, <1>2, <2>1 DEF Consumes, NetInv, NetType
  <2>6. NetType'
        BY <1>0, <1>2, <2>3, <2>4, <2>5 DEF NetInv, NetType, Consumes
  <2>7. Unused'
    <3> SUFFICES ASSUME NEW y \in Desc, \A e \in Sockets : ptr'[e] # y
                 PROVE  reader'[y] = Null /\ writer'[y] = Null
        BY DEF Unused
    <3>1. \A e \in Sockets : ptr[e] # y
          BY <2>2, <2>3, NC DEF NE!NetConstants
    <3> QED BY <3>1, <2>4 DEF NetInv, Unused
  <2>8. Parked'
    <3> SUFFICES ASSUME NEW e \in Sockets, NEW b \in NE!Dir
                 PROVE  /\ st'[<<e, b>>] = "idle" => slot'[<<e, b>>] = Null
                        /\ st'[<<e, b>>] # "idle" => /\ slot'[<<e, b>>] \in Desc
                                                         /\ ptr'[e] = desc_'[e]
                                                     /\ ptr'[e] # Null => slot'[<<e, b>>] = ptr'[e]
                        /\ fd_'[e] = "dial" => st'[<<e, "in">>] = "idle"
        BY DEF Parked
    <3>0. fd_'[e] # "dial" \/ (e # c /\ e # l)
          BY <1>0, <2>2, <2>3
    <3>1. CASE e = l /\ b = "in"
          BY <2>4, <3>0, <3>1
    <3>2. CASE e = c
          BY <2>2, <2>4, <3>0, <3>2 DEF NetInv, Parked
    <3>3. CASE e # c /\ (e # l \/ b # "in")
      <4>1. st'[<<e, b>>] = st[<<e, b>>] /\ slot'[<<e, b>>] = slot[<<e, b>>]
            BY <2>4, <3>3
      <4>2. fd_'[e] = "dial" => st'[<<e, "in">>] = "idle"
            BY <1>0, <2>3, <2>4, <3>0, <3>3 DEF NetInv, Parked
      <4> QED BY <2>3, <3>3, <4>1, <4>2 DEF NetInv, Parked
    <3> QED BY <3>1, <3>2, <3>3
  <2>9. InPlace'
    <3>1. \A e \in Sockets : st'[<<e, "in">>] = "waiting" \/ st'[<<e, "out">>] = "waiting" => e # c
          BY <2>2, <2>4 DEF NE!Dir
    <3> QED BY <2>3, <2>4, <3>1 DEF Stands, InPlace
  <2>10. Announced'
    <3> SUFFICES ASSUME NEW e \in Sockets, NEW b \in NE!Dir, st'[<<e, b>>] = "waiting",
                        b \in NE!Level(e)'
                 PROVE  e \in edge'
        BY DEF Announced
    <3>1. st[<<e, b>>] = "waiting" /\ b \in NE!Level(e)
          BY <2>4, <2>5, LevelFalls
    <3> QED BY <2>3, <3>1 DEF NetInv, Announced
  <2>11. Unhung'
        BY <2>5 DEF NetInv, Unhung, NE!Listener, Consumes
  <2> QED BY <2>3, <2>6, <2>7, <2>8, <2>9, <2>10, <2>11 DEF NetInv
<1> QED BY <1>1, <1>2 DEF NE!Accept

\* Reset: the descriptor goes back, and nobody is in it.
LEMMA ResetKeeps ==
  ASSUME NetInv, NEW c \in Sockets, fd_[c] \in {"dial", "open"}, NE!Reset(c), UNCHANGED <<Packet,
         rest>>,
         st' \in [NE!Side -> {"idle", "waiting", "woken"}], slot' \in [NE!Side -> Desc \cup {Null}],
         \A e \in Sockets \ {c}, b \in NE!Dir : st'[<<e, b>>] = st[<<e, b>>]
           /\ slot'[<<e, b>>] = slot[<<e, b>>],
         \A b \in NE!Dir : /\ st'[<<c, b>>] # "waiting"
                           /\ st'[<<c, b>>] = "idle" => slot'[<<c, b>>] = Null
                           /\ st'[<<c, b>>] # "idle" => slot'[<<c, b>>] \in Desc
  PROVE  NetInv'
<1> DEFINE d == ptr[c]
<1>1. d \in Desc /\ d = desc_[c] /\ d \notin NE!ToSet(free_list_) /\ d # Null
      BY NC DEF NetInv, NetType, Registered, Pool, NE!NetConstants
<1>2. \A e \in Sockets : e # c => ptr[e] # d
      BY <1>1 DEF NetInv, Pool
<1> HIDE DEF d
<1>3. /\ desc_' = [desc_ EXCEPT ![c] = Null] /\ free_list_' = <<d>> \o free_list_
      /\ reader' = [reader EXCEPT ![d] = Null] /\ writer' = [writer EXCEPT ![d] = Null]
      /\ ptr' = [ptr EXCEPT ![c] = Null] /\ edge' = edge \ {c} /\ dialing' = dialing \ {c}
      /\ fd_' = [fd_ EXCEPT ![c] = "closed"]
      /\ data' = [data EXCEPT ![c] = 0] /\ room' = [room EXCEPT ![c] = 1] /\ hup' = hup \ {c}
      BY <1>1 DEF NE!Reset
<1>4. /\ free_list_' \in Seq(Desc) /\ NE!IsInjective(free_list_')
      /\ NE!ToSet(free_list_') = NE!ToSet(free_list_) \cup {d}
  <2>1. free_list_ \in Seq(Desc) /\ NE!IsInjective(free_list_)
        BY DEF NetInv, NetType, Pool
  <2> QED BY <1>1, <1>3, <2>1, FreeDesc
<1>5. NetType'
      BY <1>1, <1>3, <1>4 DEF NetInv, NetType
<1>6. Registered'
      BY <1>3 DEF NetInv, NetType, Registered
<1>7. \A e \in Sockets : ptr'[e] = IF e = c THEN Null ELSE ptr[e]
      BY <1>3 DEF NetInv, NetType
<1>8. Pool'
      BY <1>2, <1>4, <1>7 DEF NetInv, Pool
<1>9. Unused'
  <2> SUFFICES ASSUME NEW y \in Desc, \A e \in Sockets : ptr'[e] # y
               PROVE  reader'[y] = Null /\ writer'[y] = Null
      BY DEF Unused
  <2>1. CASE y = d
        BY <1>3, <2>1 DEF NetInv, NetType
  <2>2. CASE y # d
    <3>1. \A e \in Sockets : ptr[e] # y
          BY <1>7, <2>2 DEF d
    <3> QED BY <1>3, <2>2, <3>1 DEF NetInv, NetType, Unused
  <2> QED BY <2>1, <2>2
<1>10. Parked'
  <2> SUFFICES ASSUME NEW e \in Sockets, NEW b \in NE!Dir
               PROVE  /\ st'[<<e, b>>] = "idle" => slot'[<<e, b>>] = Null
                      /\ st'[<<e, b>>] # "idle" => /\ slot'[<<e, b>>] \in Desc
                                                       /\ ptr'[e] = desc_'[e]
                                                   /\ ptr'[e] # Null => slot'[<<e, b>>] = ptr'[e]
                      /\ fd_'[e] = "dial" => st'[<<e, "in">>] = "idle"
      BY DEF Parked
  <2>1. CASE e = c
        BY <1>3, <1>7, <2>1 DEF NetInv, NetType
  <2>2. CASE e # c
    <3>1. desc_'[e] = desc_[e] /\ fd_'[e] = fd_[e] /\ ptr'[e] = ptr[e]
          BY <1>3, <1>7, <2>2 DEF NetInv, NetType
    <3>2. /\ st'[<<e, b>>] = st[<<e, b>>] /\ slot'[<<e, b>>] = slot[<<e, b>>]
          /\ st'[<<e, "in">>] = st[<<e, "in">>]
          BY <2>2 DEF NE!Dir
    <3> QED BY <3>1, <3>2 DEF NetInv, Parked
  <2> QED BY <2>1, <2>2
<1>11. Unhung'
      BY <1>3 DEF NetInv, Unhung, NE!Listener
<1>12. InPlace'
  <2>1. ASSUME NEW e \in Sockets, NEW b \in NE!Dir, st'[<<e, b>>] = "waiting"
        PROVE  e # c /\ st[<<e, b>>] = "waiting" /\ ptr'[e] = ptr[e] /\ ptr[e] \in Desc
               /\ ptr[e] # d
    <3>1. e # c /\ st[<<e, b>>] = "waiting"
          BY <2>1
    <3> QED BY <3>1, <1>2, <1>7, WaitsOnOwn
  <2>2. \A e \in Sockets : ptr'[e] = ptr[e] /\ ptr[e] \in Desc /\ ptr[e] # d
                           => reader'[ptr'[e]] = reader[ptr[e]] /\ writer'[ptr'[e]] = writer[ptr[e]]
        BY <1>3 DEF NetInv, NetType
  <2>3. \A e \in Sockets : /\ st[<<e, "in">>] = "waiting" => reader[ptr[e]] = e
                           /\ st[<<e, "out">>] = "waiting" => writer[ptr[e]] = e
        BY DEF NetInv, InPlace
  <2>4. "in" \in NE!Dir /\ "out" \in NE!Dir
        BY DEF NE!Dir
  <2>5. \A e \in Sockets : st'[<<e, "in">>] = "waiting" => ptr'[e] # Null /\ reader'[ptr'[e]] = e
    <3> SUFFICES ASSUME NEW e \in Sockets, st'[<<e, "in">>] = "waiting"
                 PROVE  ptr'[e] # Null /\ reader'[ptr'[e]] = e
        OBVIOUS
    <3>1. st[<<e, "in">>] = "waiting" /\ ptr'[e] = ptr[e] /\ ptr[e] \in Desc /\ ptr[e] # d
          BY <2>1, <2>4
    <3>2. reader[ptr[e]] = e /\ reader'[ptr'[e]] = reader[ptr[e]]
          BY <3>1, <2>2, <2>3
    <3> QED BY <3>1, <3>2, NC DEF NE!NetConstants
  <2>6. \A e \in Sockets : st'[<<e, "out">>] = "waiting" => ptr'[e] # Null /\ writer'[ptr'[e]] = e
    <3> SUFFICES ASSUME NEW e \in Sockets, st'[<<e, "out">>] = "waiting"
                 PROVE  ptr'[e] # Null /\ writer'[ptr'[e]] = e
        OBVIOUS
    <3>1. st[<<e, "out">>] = "waiting" /\ ptr'[e] = ptr[e] /\ ptr[e] \in Desc /\ ptr[e] # d
          BY <2>1, <2>4
    <3>2. writer[ptr[e]] = e /\ writer'[ptr'[e]] = writer[ptr[e]]
          BY <3>1, <2>2, <2>3
    <3> QED BY <3>1, <3>2, NC DEF NE!NetConstants
  <2> QED BY <2>5, <2>6 DEF InPlace
<1>13. Announced'
  <2> SUFFICES ASSUME NEW e \in Sockets, NEW b \in NE!Dir, st'[<<e, b>>] = "waiting",
                      b \in NE!Level(e)'
               PROVE  e \in edge'
      BY DEF Announced
  <2>1. e # c /\ st[<<e, b>>] = "waiting"
        OBVIOUS
  <2>2. b \in NE!Level(e)
        BY <1>3, <2>1 DEF NE!Level, NetInv, NetType
  <2> QED BY <1>3, <2>1, <2>2 DEF NetInv, Announced
<1> QED BY <1>5, <1>6, <1>8, <1>9, <1>10, <1>11, <1>12, <1>13 DEF NetInv

\* Close wakes the fibers that wait.
LEMMA CloseInv ==
  ASSUME NetInv, NEW c \in Sockets, NE!CloseFd(c)
  PROVE  NetInv'
<1>1. /\ fd_[c] = "open" /\ NE!Reset(c) /\ UNCHANGED <<Packet, slot, rest>>
      /\ st' = [f \in NE!Side |-> IF f[1] = c /\ st[f] = "waiting" THEN "woken" ELSE st[f]]
      BY DEF NE!CloseFd
<1>2. st' \in [NE!Side -> {"idle", "waiting", "woken"}] /\ slot' \in [NE!Side -> Desc \cup {Null}]
  <2>1. st \in [NE!Side -> {"idle", "waiting", "woken"}] /\ slot \in [NE!Side -> Desc \cup {Null}]
        BY DEF NetInv, NetType
  <2>2. \A f \in NE!Side : st[f] \in {"idle", "waiting", "woken"}
        BY <2>1
  <2>3. \A f \in NE!Side : (IF f[1] = c /\ st[f] = "waiting" THEN "woken" ELSE st[f]) \in {"idle",
        "waiting", "woken"}
        BY <2>2
  <2>4. st' \in [NE!Side -> {"idle", "waiting", "woken"}]
        BY <1>1, <2>3
  <2> QED BY <1>1, <2>1, <2>4
<1>3. \A e \in Sockets, b \in NE!Dir : st'[<<e, b>>] = IF e = c
      /\ st[<<e, b>>] = "waiting" THEN "woken" ELSE st[<<e, b>>]
  <2> SUFFICES ASSUME NEW e \in Sockets, NEW b \in NE!Dir
               PROVE  st'[<<e, b>>] = IF e = c
                      /\ st[<<e, b>>] = "waiting" THEN "woken" ELSE st[<<e, b>>]
      OBVIOUS
  <2> DEFINE f == <<e, b>>
  <2>1. f \in NE!Side /\ f[1] = e
        BY Sides
  <2> HIDE DEF f
  <2>2. st'[f] = IF e = c /\ st[f] = "waiting" THEN "woken" ELSE st[f]
        BY <1>1, <2>1
  <2> QED BY <2>2 DEF f
<1>3a. slot' = slot
      BY <1>1
<1>4. \A e \in Sockets \ {c}, b \in NE!Dir : st'[<<e, b>>] = st[<<e, b>>]
      /\ slot'[<<e, b>>] = slot[<<e, b>>]
  <2> SUFFICES ASSUME NEW e \in Sockets \ {c}, NEW b \in NE!Dir
               PROVE  st'[<<e, b>>] = st[<<e, b>>] /\ slot'[<<e, b>>] = slot[<<e, b>>]
      OBVIOUS
  <2>1. e \in Sockets /\ e # c
        OBVIOUS
  <2>2. st'[<<e, b>>] = st[<<e, b>>]
        BY <1>3, <2>1
  <2> QED BY <1>3a, <2>2
<1>5. \A b \in NE!Dir : /\ st'[<<c, b>>] # "waiting"
                        /\ st'[<<c, b>>] = "idle" => slot'[<<c, b>>] = Null
                        /\ st'[<<c, b>>] # "idle" => slot'[<<c, b>>] \in Desc
  <2> SUFFICES ASSUME NEW b \in NE!Dir
               PROVE  /\ st'[<<c, b>>] # "waiting"
                      /\ st'[<<c, b>>] = "idle" => slot'[<<c, b>>] = Null
                      /\ st'[<<c, b>>] # "idle" => slot'[<<c, b>>] \in Desc
      OBVIOUS
  <2>1. st'[<<c, b>>] = IF st[<<c, b>>] = "waiting" THEN "woken" ELSE st[<<c, b>>]
        BY <1>3
  <2>2. /\ st[<<c, b>>] = "idle" => slot[<<c, b>>] = Null
        /\ st[<<c, b>>] # "idle" => slot[<<c, b>>] \in Desc
        BY DEF NetInv, Parked
  <2> QED BY <1>3a, <2>1, <2>2
<1> QED BY <1>1, <1>2, <1>4, <1>5, ResetKeeps

\* A dial that fails.
LEMMA DialFailedInv ==
  ASSUME NetInv, NEW c \in Sockets, NE!DialFailed(c)
  PROVE  NetInv'
<1>1. /\ fd_[c] = "dial" /\ NE!Reset(c) /\ UNCHANGED <<Packet, rest>>
      /\ st' = [st EXCEPT ![<<c, "out">>] = "idle"] /\ slot' = [slot EXCEPT ![<<c, "out">>] = Null]
      BY DEF NE!DialFailed
<1>2. st' \in [NE!Side -> {"idle", "waiting", "woken"}] /\ slot' \in [NE!Side -> Desc \cup {Null}]
      BY <1>1, Sides DEF NetInv, NetType, NE!Dir
<1>3. "out" \in NE!Dir /\ <<c, "out">> \in NE!Side /\ \A b \in NE!Dir : b = "in" \/ b = "out"
      BY Sides DEF NE!Dir
<1>4. \A e \in Sockets \ {c}, b \in NE!Dir : st'[<<e, b>>] = st[<<e, b>>]
      /\ slot'[<<e, b>>] = slot[<<e, b>>]
      BY <1>1, <1>3, Sides DEF NetInv, NetType
<1>5. st'[<<c, "out">>] = "idle" /\ slot'[<<c, "out">>] = Null
      BY <1>1, <1>3 DEF NetInv, NetType
<1>6. st'[<<c, "in">>] = "idle" /\ slot'[<<c, "in">>] = Null
  <2>1. "in" \in NE!Dir /\ <<c, "in">> \in NE!Side /\ <<c, "in">> # <<c, "out">>
        BY Sides DEF NE!Dir
  <2>2. st[<<c, "in">>] = "idle" /\ slot[<<c, "in">>] = Null
        BY <1>1, <2>1 DEF NetInv, Parked
  <2> QED BY <1>1, <2>1, <2>2 DEF NetInv, NetType
<1>7. \A b \in NE!Dir : /\ st'[<<c, b>>] # "waiting"
                        /\ st'[<<c, b>>] = "idle" => slot'[<<c, b>>] = Null
                        /\ st'[<<c, b>>] # "idle" => slot'[<<c, b>>] \in Desc
      BY <1>3, <1>5, <1>6
<1> QED BY <1>1, <1>2, <1>4, <1>7, ResetKeeps

\* Every step keeps the invariant of the network.
LEMMA NetStep == NetInv /\ [NE!Next]_(NE!vars) => NetInv'
<1> SUFFICES ASSUME NetInv, [NE!Next]_(NE!vars) PROVE NetInv'
    OBVIOUS
<1>1. CASE NE!Poll
      BY <1>1, PollInv
<1>2. ASSUME NEW c \in Sockets, NE!Arrive(c) \/ NE!Drain(c) \/ NE!Hangup(c) \/ NE!Connected(c)
             PROVE NetInv'
      BY <1>2, KernelInv
<1>3. ASSUME NEW c \in Sockets, NE!ListenTCP(c) \/ NE!ListenUDP(c) PROVE NetInv'
      BY <1>3, BindInv DEF NE!ListenTCP, NE!ListenUDP
<1>4. ASSUME NEW c \in Sockets, NE!Dial(c) PROVE NetInv'
      BY <1>4, DialInv
<1>5. ASSUME NEW c \in Sockets, NE!Close(c) \/ NE!CloseListener(c) \/ NE!ClosePacket(c)
             PROVE NetInv'
      BY <1>5, CloseInv DEF NE!Close, NE!CloseListener, NE!ClosePacket
<1>6. CASE (\E f \in NE!Side : NE!Step(f)) \/ \E c \in Sockets : NE!FinishDial(c)
      BY <1>6, BackInv
<1>7. ASSUME NEW c \in Sockets, NE!DialFailed(c) PROVE NetInv'
      BY <1>7, DialFailedInv
<1>8. ASSUME NEW c \in Sockets, NE!Read(c) \/ NE!RecvFrom(c) PROVE NetInv'
  <2>1. data[c] \in Nat
        BY DEF NetInv, NetType
  <2>2. NE!Receive(c, data[c]) => NetInv'
        BY <2>1, ReceiveInv
  <2>3. NE!Receive(c, 1) => NetInv'
    <3>1. 1 \in Nat /\ (data[c] > 0 => 1 <= data[c])
          BY <2>1
    <3> QED BY <3>1, ReceiveInv
  <2> QED BY <1>8, <2>2, <2>3 DEF NE!Read, NE!RecvFrom
<1>9. ASSUME NEW c \in Sockets, NE!Accept(c) PROVE NetInv'
      BY <1>9, AcceptInv
<1>10. ASSUME NEW c \in Sockets, NE!Write(c) \/ NE!SendTo(c) PROVE NetInv'
  <2>1. NE!Send(c, 2) \/ NE!Send(c, 1)
        BY <1>10 DEF NE!Write, NE!SendTo, NE!MaxWrite
  <2> QED BY <2>1, SendInv
<1>11. CASE UNCHANGED NE!vars
  <2>1. NetType' /\ Registered' /\ Pool' /\ Unused' /\ Parked' /\ Unhung' /\ InPlace'
        BY <1>11 DEF NE!vars, NE!watch, NE!kernel, NE!fibers, NetInv, NetType, Registered, Pool,
           Unused, Parked,
           Unhung, InPlace, NE!Listener
  <2>2. Announced'
        BY <1>11 DEF NE!vars, NE!watch, NE!kernel, NE!fibers, NetInv, Announced, NE!Level
  <2> QED BY <2>1, <2>2 DEF NetInv
<1> QED BY <1>1, <1>2, <1>3, <1>4, <1>5, <1>6, <1>7, <1>8, <1>9, <1>10, <1>11 DEF NE!Next

\* The poller, for any number of sockets and descriptors that suffice for them.
LEMMA NetInvariance == NE!Spec => []NetInv
<1> QED BY NetInit, NetStep, PTL DEF NE!Spec
-----------------------------------------------------------------------------
\* A set of naturals has a least element: < is well-founded.
LEMMA Least ==
  ASSUME NEW S \in SUBSET Nat, S # {}
  PROVE  \E n \in S : \A m \in S : n <= m
<1> DEFINE R == {ss \in Nat \X Nat : ss[1] < ss[2]}
<1>1. IsWellFoundedOn(R, Nat)
  BY NatLessThanWellFounded DEF OpToRel
<1>2. PICK n \in S : \A m \in S : ~ (<<m, n>> \in R)
  <2> HIDE DEF R
  <2> QED BY <1>1, WFMin
<1>3. \A m \in S : ~ (m < n)
  BY <1>2
<1> QED BY <1>3

\* Induction over the naturals, from the least element outside.
LEMMA Induction ==
  ASSUME NEW S, 0 \in S, \A n \in Nat : n \in S => n + 1 \in S
  PROVE  Nat \subseteq S
<1> SUFFICES ASSUME Nat \ S # {} PROVE FALSE
  OBVIOUS
<1>1. PICK n \in Nat \ S : \A m \in Nat \ S : n <= m
  <2> DEFINE T == Nat \ S
  <2> T \in SUBSET Nat /\ T # {} OBVIOUS
  <2> HIDE DEF T
  <2>1. PICK n \in T : \A m \in T : n <= m BY Least
  <2> QED BY <2>1 DEF T
<1>2. n # 0 /\ n - 1 \in Nat OBVIOUS
<1>3. n - 1 \in S BY <1>1, <1>2
<1> QED BY <1>3, <1>2

Byte == 1..MaxBytes

\* The smaller of two numbers.
LEMMA Least2 ==
  ASSUME NEW a \in Int, NEW b \in Int
  PROVE  IO!Min({a, b}) \in {a, b} /\ IO!Min({a, b}) <= a /\ IO!Min({a, b}) <= b
<1> DEFINE P(x) == x \in {a, b} /\ \A y \in {a, b} : x <= y
<1>1. \E x : P(x)
  <2>1. CASE a <= b
        BY <2>1
  <2>2. CASE b <= a
        BY <2>2
  <2> QED BY <2>1, <2>2
<1>2. IO!Min({a, b}) = CHOOSE x \in {a, b} : \A y \in {a, b} : x <= y
      BY DEF IO!Min
<1> QED BY <1>1, <1>2

\* The bytes from one place to another.
LEMMA BytesAre ==
  ASSUME NEW i \in Int, NEW j \in Int, 1 <= i, i <= j + 1, j <= MaxBytes
  PROVE  /\ IO!Bytes(i, j) \in Seq(Byte) /\ Len(IO!Bytes(i, j)) = j - i + 1
         /\ \A k \in 1..(j - i + 1) : IO!Bytes(i, j)[k] = i + k - 1
<1>1. IO!stream \in Seq(Byte) /\ Len(IO!stream) = MaxBytes
      /\ \A k \in 1..MaxBytes : IO!stream[k] = k
      BY SC DEF IO!stream, IO!StreamConstants, Byte
<1> QED BY <1>1, SC DEF IO!Bytes, Byte, IO!StreamConstants

\* Adjacent stretches.
LEMMA BytesJoin ==
  ASSUME NEW i \in Int, NEW j \in Int, NEW k \in Int, 1 <= i, i <= j + 1, j <= k, k <= MaxBytes
  PROVE  IO!Bytes(i, j) \o IO!Bytes(j + 1, k) = IO!Bytes(i, k)
<1>1. /\ IO!Bytes(i, j) \in Seq(Byte) /\ Len(IO!Bytes(i, j)) = j - i + 1
      /\ \A n \in 1..(j - i + 1) : IO!Bytes(i, j)[n] = i + n - 1
      BY BytesAre, SC DEF IO!StreamConstants
<1>2. /\ IO!Bytes(j + 1, k) \in Seq(Byte) /\ Len(IO!Bytes(j + 1, k)) = k - j
      /\ \A n \in 1..(k - j) : IO!Bytes(j + 1, k)[n] = j + n
  <2> DEFINE l == j + 1
  <2>1. l \in Int /\ 1 <= l /\ l <= k + 1
        OBVIOUS
  <2> HIDE DEF l
  <2>2. /\ IO!Bytes(l, k) \in Seq(Byte) /\ Len(IO!Bytes(l, k)) = k - l + 1
        /\ \A n \in 1..(k - l + 1) : IO!Bytes(l, k)[n] = l + n - 1
        BY <2>1, BytesAre
  <2> QED BY <2>2 DEF l
<1>3. /\ IO!Bytes(i, k) \in Seq(Byte) /\ Len(IO!Bytes(i, k)) = k - i + 1
      /\ \A n \in 1..(k - i + 1) : IO!Bytes(i, k)[n] = i + n - 1
      BY BytesAre
<1> DEFINE s == IO!Bytes(i, j)  t == IO!Bytes(j + 1, k)  u == IO!Bytes(i, k)
<1> HIDE DEF s, t, u
<1>4. s \in Seq(Byte) /\ t \in Seq(Byte) /\ u \in Seq(Byte) /\ Len(s) = j - i + 1
      /\ Len(t) = k - j /\ Len(u) = k - i + 1
      BY <1>1, <1>2, <1>3 DEF s, t, u
<1>5. s \o t \in Seq(Byte) /\ Len(s \o t) = Len(u)
      BY <1>4
<1>6. \A n \in 1..Len(u) : (s \o t)[n] = u[n]
  <2> SUFFICES ASSUME NEW n \in 1..Len(u) PROVE (s \o t)[n] = u[n]
      OBVIOUS
  <2>1. u[n] = i + n - 1
        BY <1>3, <1>4 DEF u
  <2>2. CASE n <= Len(s)
    <3>1. (s \o t)[n] = s[n]
          BY <1>4, <2>2
    <3> QED BY <1>1, <1>4, <2>1, <2>2, <3>1 DEF s
  <2>3. CASE n > Len(s)
    <3>1. (s \o t)[n] = t[n - Len(s)]
          BY <1>4, <2>3
    <3>2. n - Len(s) \in 1..(k - j)
          BY <1>4, <2>3
    <3>3. t[n - Len(s)] = j + (n - Len(s))
          BY <1>2, <3>2 DEF t
    <3> QED BY <1>4, <2>1, <3>1, <3>3
  <2> QED BY <1>4, <2>2, <2>3
<1>7. s \o t = u
      BY <1>4, <1>5, <1>6, SeqEqual
<1> QED BY <1>7 DEF s, t, u

\* A part of a stretch.
LEMMA BytesPart ==
  ASSUME NEW i \in Int, NEW j \in Int, 1 <= i, i <= j + 1, j <= MaxBytes,
         NEW p \in Int, NEW q \in Int, 1 <= p, p <= q + 1, q <= j - i + 1
  PROVE  SubSeq(IO!Bytes(i, j), p, q) = IO!Bytes(i + p - 1, i + q - 1)
<1>1. /\ IO!Bytes(i, j) \in Seq(Byte) /\ Len(IO!Bytes(i, j)) = j - i + 1
      /\ \A n \in 1..(j - i + 1) : IO!Bytes(i, j)[n] = i + n - 1
      BY BytesAre
<1>2. /\ IO!Bytes(i + p - 1, i + q - 1) \in Seq(Byte)
          /\ Len(IO!Bytes(i + p - 1, i + q - 1)) = q - p + 1
      /\ \A n \in 1..(q - p + 1) : IO!Bytes(i + p - 1, i + q - 1)[n] = i + p - 1 + n - 1
  <2> DEFINE l == i + p - 1  r == i + q - 1
  <2>1. l \in Int /\ r \in Int /\ 1 <= l /\ l <= r + 1 /\ r <= MaxBytes /\ r - l + 1 = q - p + 1
        BY SC DEF IO!StreamConstants
  <2> HIDE DEF l, r
  <2>2. /\ IO!Bytes(l, r) \in Seq(Byte) /\ Len(IO!Bytes(l, r)) = r - l + 1
        /\ \A n \in 1..(r - l + 1) : IO!Bytes(l, r)[n] = l + n - 1
        BY <2>1, BytesAre
  <2> QED BY <2>1, <2>2 DEF l, r
<1> DEFINE s == IO!Bytes(i, j)  u == IO!Bytes(i + p - 1, i + q - 1)
<1>3. SubSeq(s, p, q) \in Seq(Byte) /\ Len(SubSeq(s, p, q)) = q - p + 1
      /\ \A n \in 1..(q - p + 1) : SubSeq(s, p, q)[n] = s[p + n - 1]
  <2> HIDE DEF s
  <2>1. s \in Seq(Byte) /\ Len(s) = j - i + 1
        BY <1>1 DEF s
  <2> QED BY <2>1
<1>4. \A n \in 1..(q - p + 1) : SubSeq(s, p, q)[n] = u[n]
  <2> SUFFICES ASSUME NEW n \in 1..(q - p + 1) PROVE SubSeq(s, p, q)[n] = u[n]
      OBVIOUS
  <2>1. p + n - 1 \in 1..(j - i + 1)
        OBVIOUS
  <2>2. s[p + n - 1] = i + (p + n - 1) - 1
        BY <1>1, <2>1
  <2>3. u[n] = i + p - 1 + n - 1
        BY <1>2
  <2> QED BY <1>3, <2>2, <2>3
<1> HIDE DEF s, u
<1>5. u \in Seq(Byte) /\ Len(u) = q - p + 1
      BY <1>2 DEF u
<1>6. SubSeq(s, p, q) = u
      BY <1>3, <1>4, <1>5, SeqEqual
<1> QED BY <1>6 DEF s, u

\* What the writer has after every byte of a write.
LEMMA WrittenIs ==
  ASSUME NEW buf \in Seq(Byte)
  PROVE  /\ IO!Written(buf)[0] = [used |-> used_, out |-> out]
         /\ \A n \in 1..Len(buf) : IO!Written(buf)[n] = IO!Put(IO!Written(buf)[n - 1], buf[n])
<1> DEFINE Rule(g, n) == g = [i \in 0..n |-> IF i = 0 THEN [used |-> used_,
    out |-> out] ELSE IO!Put(g[i - 1], buf[i])]
<1>1. Len(buf) \in Nat
      OBVIOUS
<1>2. \A n \in Nat : \E g : Rule(g, n)
  <2> DEFINE S == {n \in Nat : \E g : Rule(g, n)}
  <2>1. 0 \in S
    <3> DEFINE g == [i \in 0..0 |-> [used |-> used_, out |-> out]]
    <3>1. Rule(g, 0)
          OBVIOUS
    <3> QED BY <3>1
  <2>2. \A n \in Nat : n \in S => n + 1 \in S
    <3> HIDE DEF Rule
    <3> SUFFICES ASSUME NEW n \in Nat, \E g : Rule(g, n) PROVE \E h : Rule(h, n + 1)
        OBVIOUS
    <3> PICK g : Rule(g, n)
        OBVIOUS
    <3> USE DEF Rule
    <3> DEFINE h == [i \in 0..(n + 1) |-> IF i = n + 1 THEN IO!Put(g[n], buf[n + 1]) ELSE g[i]]
    <3>1. \A i \in 0..n : h[i] = g[i]
          OBVIOUS
    <3>2. h[n + 1] = IO!Put(g[n], buf[n + 1])
          OBVIOUS
    <3>3. \A i \in 0..n : g[i] = IF i = 0 THEN [used |-> used_, out |-> out] ELSE IO!Put(g[i - 1],
          buf[i])
          OBVIOUS
    <3>4. \A i \in 0..(n + 1) : h[i] = IF i = 0 THEN [used |-> used_,
          out |-> out] ELSE IO!Put(h[i - 1], buf[i])
      <4> SUFFICES ASSUME NEW i \in 0..(n + 1)
                   PROVE  h[i] = IF i = 0 THEN [used |-> used_, out |-> out] ELSE IO!Put(h[i - 1],
                          buf[i])
          OBVIOUS
      <4> HIDE DEF h
      <4>1. CASE i = 0
            BY <4>1, <3>1, <3>3
      <4>2. CASE i \in 1..n
        <5>1. h[i] = g[i] /\ h[i - 1] = g[i - 1]
          <6>1. i \in 0..n /\ i - 1 \in 0..n
                BY <4>2
          <6> HIDE DEF Rule
          <6> QED BY <6>1, <3>1
        <5>2. g[i] = IO!Put(g[i - 1], buf[i])
              BY <4>2, <3>3
        <5> QED BY <4>2, <5>1, <5>2
      <4>3. CASE i = n + 1
        <5>1. h[i - 1] = g[n]
              BY <4>3, <3>1
        <5> QED BY <4>3, <3>2, <5>1
      <4> QED BY <4>1, <4>2, <4>3
    <3>5. h = [i \in 0..(n + 1) |-> h[i]]
          OBVIOUS
    <3> HIDE DEF h
    <3>6. Rule(h, n + 1)
          BY <3>4, <3>5
    <3> QED BY <3>6
  <2> HIDE DEF S
  <2>3. Nat \subseteq S
        BY <2>1, <2>2, Induction
  <2> QED BY <2>3 DEF S
<1>3. Rule(IO!Written(buf), Len(buf))
  <2>1. IO!Written(buf) = CHOOSE g : Rule(g, Len(buf))
        BY DEF IO!Written
  <2> QED BY <1>1, <1>2, <2>1
<1> HIDE DEF Rule
<1> DEFINE w == IO!Written(buf)
<1> HIDE DEF w
<1>4. w = [i \in 0..Len(buf) |-> IF i = 0 THEN [used |-> used_, out |-> out] ELSE IO!Put(w[i - 1],
      buf[i])]
      BY <1>3 DEF Rule, w
<1>5. w[0] = [used |-> used_, out |-> out]
      BY <1>1, <1>4
<1>6. \A n \in 1..Len(buf) : w[n] = IO!Put(w[n - 1], buf[n])
      BY <1>1, <1>4
<1> QED BY <1>5, <1>6 DEF w

\* Appending to the second of two sequences.
LEMMA AppendJoin ==
  ASSUME NEW S, NEW s \in Seq(S), NEW t \in Seq(S), NEW b \in S
  PROVE  s \o Append(t, b) = Append(s \o t, b) /\ s \o <<b>> = Append(s, b)
<1>1. s \o <<b>> = Append(s, b)
      OBVIOUS
<1>2. /\ s \o Append(t, b) \in Seq(S) /\ Append(s \o t, b) \in Seq(S)
      /\ Len(s \o Append(t, b)) = Len(s) + Len(t) + 1
          /\ Len(Append(s \o t, b)) = Len(s) + Len(t) + 1
      OBVIOUS
<1>3. \A i \in 1..(Len(s) + Len(t) + 1) : (s \o Append(t, b))[i] = Append(s \o t, b)[i]
  <2> SUFFICES ASSUME NEW i \in 1..(Len(s) + Len(t) + 1)
                      PROVE (s \o Append(t, b))[i] = Append(s \o t, b)[i]
      OBVIOUS
  <2> DEFINE u == Append(t, b)  v == s \o t
  <2>1. /\ u \in Seq(S) /\ Len(u) = Len(t) + 1 /\ v \in Seq(S) /\ Len(v) = Len(s) + Len(t)
        /\ \A j \in 1..Len(t) : u[j] = t[j] /\ u[Len(t) + 1] = b
        /\ \A j \in 1..Len(s) : v[j] = s[j] /\ \A k \in 1..Len(t) : v[Len(s) + k] = t[k]
        OBVIOUS
  <2> HIDE DEF u, v
  <2>2. \A j \in 1..Len(s) : (s \o u)[j] = s[j] /\ Append(v, b)[j] = v[j] /\ v[j] = s[j]
        BY <2>1
  <2>3. \A k \in 1..Len(t) : (s \o u)[Len(s) + k] = t[k] /\ Append(v, b)[Len(s) + k] = t[k]
    <3> SUFFICES ASSUME NEW k \in 1..Len(t) PROVE (s \o u)[Len(s) + k] = t[k]
                        /\ Append(v, b)[Len(s) + k] = t[k]
        OBVIOUS
    <3>1. (s \o u)[Len(s) + k] = u[k] /\ u[k] = t[k]
          BY <2>1
    <3>2. Append(v, b)[Len(s) + k] = v[Len(s) + k] /\ v[Len(s) + k] = t[k]
      <4>1. Len(s) + k \in 1..Len(v)
            BY <2>1
      <4>2. v[Len(s) + k] = t[k]
            BY <2>1 DEF v
      <4> QED BY <2>1, <4>1, <4>2
    <3> QED BY <3>1, <3>2
  <2>4. (s \o u)[Len(s) + Len(t) + 1] = b /\ Append(v, b)[Len(s) + Len(t) + 1] = b
    <3>1. u[Len(t) + 1] = b
          BY DEF u
    <3> QED BY <2>1, <3>1
  <2>5. CASE i \in 1..Len(s)
        BY <2>2, <2>5 DEF u, v
  <2>6. CASE i = Len(s) + Len(t) + 1
        BY <2>4, <2>6 DEF u, v
  <2>7. CASE i \in (Len(s) + 1)..(Len(s) + Len(t))
    <3>1. PICK k \in 1..Len(t) : i = Len(s) + k
      <4>1. i - Len(s) \in 1..Len(t) /\ i = Len(s) + (i - Len(s))
            BY <2>7
      <4> QED BY <4>1
    <3> QED BY <2>3, <3>1 DEF u, v
  <2> QED BY <2>5, <2>6, <2>7
<1>4. s \o Append(t, b) = Append(s \o t, b)
  <2> DEFINE x == s \o Append(t, b)  y == Append(s \o t, b)
  <2> HIDE DEF x, y
  <2>1. x \in Seq(S) /\ y \in Seq(S) /\ Len(x) = Len(y) /\ \A i \in 1..Len(x) : x[i] = y[i]
        BY <1>2, <1>3 DEF x, y
  <2> QED BY <2>1, SeqEqual DEF x, y
<1> QED BY <1>1, <1>4

\* The writer has all it was given, in order.
LEMMA WrittenHas ==
  ASSUME NEW buf \in Seq(Byte), used_ \in Seq(Byte), out \in Seq(Byte), Len(used_) <= buffer_size_
  PROVE  LET w == IO!Written(buf)[Len(buf)]
         IN  /\ w.used \in Seq(Byte) /\ w.out \in Seq(Byte) /\ Len(w.used) <= buffer_size_
             /\ w.out \o w.used = (out \o used_) \o buf
<1> DEFINE given == out \o used_
           Has(w, n) == /\ w.used \in Seq(Byte) /\ w.out \in Seq(Byte) /\ Len(w.used) <= buffer_size_
                        /\ w.out \o w.used = given \o SubSeq(buf, 1, n)
           W == IO!Written(buf)
           S == {n \in Nat : n <= Len(buf) => Has(W[n], n)}
<1>1. given \in Seq(Byte)
      OBVIOUS
<1>2. W[0] = [used |-> used_, out |-> out] /\ \A n \in 1..Len(buf) : W[n] = IO!Put(W[n - 1], buf[n])
      BY WrittenIs
<1> HIDE DEF W
<1>3. Has(W[0], 0)
  <2>1. W[0].used = used_ /\ W[0].out = out
        BY <1>2
  <2> HIDE DEF given
  <2>2. given \o SubSeq(buf, 1, 0) = given
    <3>1. SubSeq(buf, 1, 0) = <<>>
          OBVIOUS
    <3> QED BY <1>1, <3>1, ConcatEmptySeq
  <2> QED BY <2>1, <2>2 DEF given
<1> HIDE DEF given
<1>4. ASSUME NEW n \in Nat, n + 1 <= Len(buf), NEW w, Has(w, n)
      PROVE  Has(IO!Put(w, buf[n + 1]), n + 1)
  <2> DEFINE b == buf[n + 1]  u == w.used  o == w.out  p == SubSeq(buf, 1, n)
  <2>1. n + 1 \in 1..Len(buf) /\ b \in Byte
        BY <1>4
  <2>2. SubSeq(buf, 1, n + 1) = Append(p, b) /\ p \in Seq(Byte)
        BY <2>1
  <2>3. u \in Seq(Byte) /\ o \in Seq(Byte) /\ o \o u = given \o p /\ Len(u) <= buffer_size_
        BY <1>4
  <2>0. buffer_size_ \in Nat /\ 1 <= buffer_size_ /\ Len(u) \in Nat
        BY <2>3, SC DEF IO!StreamConstants
  <2>4. IO!Put(w, b) = IF Len(u) = buffer_size_ THEN [used |-> <<b>>, out |-> o \o u]
                                            ELSE [used |-> Append(u, b), out |-> o]
        BY DEF IO!Put
  <2> HIDE DEF b, u, o, p
  <2>5. given \o Append(p, b) = Append(given \o p, b)
        BY <1>1, <2>1, <2>2, AppendJoin
  <2>6. o \o Append(u, b) = Append(o \o u, b) /\ o \o u \in Seq(Byte)
    <3>1. o \o u \in Seq(Byte)
          BY <2>3, ConcatProperties, Zenon
    <3>2. u \in Seq(Byte) /\ o \in Seq(Byte) /\ b \in Byte
          BY <2>1, <2>3
    <3>3. o \o Append(u, b) = Append(o \o u, b)
          BY <3>2, AppendJoin
    <3> QED BY <3>1, <3>3
  <2>7. (o \o u) \o <<b>> = Append(o \o u, b)
        BY <2>1, <2>6, AppendJoin
  <2>8. CASE Len(u) = buffer_size_
    <3>1. IO!Put(w, b) = [used |-> <<b>>, out |-> o \o u]
          BY <2>4, <2>8
    <3>2. IO!Put(w, b).used = <<b>> /\ IO!Put(w, b).out = o \o u
          BY <3>1
    <3>3. <<b>> \in Seq(Byte) /\ Len(<<b>>) <= buffer_size_
          BY <2>0, <2>1
    <3> QED BY <2>2, <2>3, <2>5, <2>6, <2>7, <3>2, <3>3 DEF b
  <2>9. CASE Len(u) # buffer_size_
    <3>1. IO!Put(w, b) = [used |-> Append(u, b), out |-> o]
          BY <2>4, <2>9
    <3>2. IO!Put(w, b).used = Append(u, b) /\ IO!Put(w, b).out = o
          BY <3>1
    <3>3. Append(u, b) \in Seq(Byte) /\ Len(Append(u, b)) <= buffer_size_
          BY <2>0, <2>1, <2>3, <2>9
    <3> QED BY <2>2, <2>3, <2>5, <2>6, <3>2, <3>3 DEF b
  <2> QED BY <2>8, <2>9
<1> HIDE DEF Has
<1>5. 0 \in S
      BY <1>3
<1>6. \A n \in Nat : n \in S => n + 1 \in S
  <2> SUFFICES ASSUME NEW n \in Nat, n \in S, n + 1 <= Len(buf) PROVE Has(W[n + 1], n + 1)
      OBVIOUS
  <2>1. Has(W[n], n) /\ n + 1 \in 1..Len(buf) /\ (n + 1) - 1 = n
        OBVIOUS
  <2>2. W[n + 1] = IO!Put(W[n], buf[n + 1])
        BY <1>2, <2>1
  <2> QED BY <1>4, <2>1, <2>2
<1>7. Len(buf) \in S
  <2> HIDE DEF S
  <2> QED BY <1>5, <1>6, Induction
<1>8. Has(W[Len(buf)], Len(buf)) /\ SubSeq(buf, 1, Len(buf)) = buf
      BY <1>7
<1> QED BY <1>8 DEF Has, W, given

\* The reader: what is in its buffer, what it has given away, in all and to this call.
ReaderOK ==
    /\ fed \in 0..MaxBytes /\ pos_ \in 0..Len(buffer_) /\ Len(buffer_) \in 0..fed
    /\ buffer_ = IO!Bytes(fed - Len(buffer_) + 1, fed)
    /\ taken = IO!Bytes(1, IO!Consumed)
    /\ begun.from \in 0..IO!Consumed /\ got = IO!Bytes(begun.from + 1, IO!Consumed)

\* The writer.
WriterOK == /\ used_ \in Seq(Byte) /\ out \in Seq(Byte) /\ copied \in Seq(Byte)
            /\ out \o used_ = copied /\ Len(used_) <= buffer_size_

\* The call in progress, or the last one.
Calls == {"none", "ReadFull", "ReadString", "ReadAll", "WriteTo"}

CallOK == /\ want \in Nat /\ call \in Calls \cup {"EOF"}
          /\ begun \in [call : Calls, limit : Nat, from : Nat, copied : Seq(Byte)]
          /\ call \notin {"none", "EOF"} => begun.call = call
          /\ call = "EOF" => begun.call = "ReadFull"

FullOK == begun.call = "ReadFull" =>
             /\ want + Len(got) = begun.limit
             /\ call = "none" => want = 0
             /\ call = "EOF" => want > 0 /\ IO!Consumed = MaxBytes

AllOK == begun.call = "ReadAll" => Len(got) <= want /\ (call = "none" => IO!Consumed = MaxBytes)

EndsAtDelim(s) == s # <<>> /\ s[Len(s)] \in Delims

StringOK == begun.call = "ReadString" =>
               /\ want + Len(got) = begun.limit
               /\ \A i \in 1..Len(got) - 1 : got[i] \notin Delims
               /\ EndsAtDelim(got) => call = "none"
               /\ call = "none" => EndsAtDelim(got) \/ want = 0 \/ IO!Consumed = MaxBytes

CopyOK == begun.call = "WriteTo" => /\ ~overflow => copied = begun.copied \o got
                                    /\ call = "none" => IO!Consumed = MaxBytes

HangOK == overflow => call = "WriteTo" /\ Len(buffer_) >= 2 * buffer_size_

StreamInv == ReaderOK /\ WriterOK /\ CallOK /\ FullOK /\ AllOK /\ StringOK /\ CopyOK /\ HangOK

\* What the invariant says of a call's bytes and their number.
LEMMA GotIs == StreamInv => got \in Seq(Byte) /\ Len(got) \in Nat /\ IO!Consumed \in 0..fed
                            /\ MaxBytes \in Nat
<1> SUFFICES ASSUME StreamInv
             PROVE  got \in Seq(Byte) /\ Len(got) \in Nat /\ IO!Consumed \in 0..fed /\ MaxBytes \in Nat
    OBVIOUS
<1>1. MaxBytes \in Nat
      BY SC DEF IO!StreamConstants
<1>2. IO!Consumed \in 0..fed /\ fed \in 0..MaxBytes
      BY <1>1 DEF StreamInv, ReaderOK, IO!Consumed
<1> DEFINE i == begun.from + 1  j == IO!Consumed
<1>3. i \in Int /\ j \in Int /\ 1 <= i /\ i <= j + 1 /\ j <= MaxBytes /\ got = IO!Bytes(i, j)
      BY <1>1, <1>2 DEF StreamInv, ReaderOK
<1> HIDE DEF i, j
<1>4. got \in Seq(Byte)
      BY <1>3, BytesAre
<1> QED BY <1>1, <1>2, <1>4

\* The invariant is the property and what it takes to keep it.
LEMMA StreamRight == StreamInv => IO!BytesInOrder
<1> SUFFICES ASSUME StreamInv PROVE IO!BytesInOrder
    OBVIOUS
<1>1. want \in Nat /\ Len(got) \in Nat /\ begun.limit \in Nat
      BY GotIs DEF StreamInv, CallOK
<1>2. begun.call = "ReadFull" =>
          /\ Len(got) <= begun.limit
          /\ call = "none" => Len(got) = begun.limit
          /\ call = "EOF" => Len(got) < begun.limit /\ IO!Consumed = MaxBytes
      BY <1>1 DEF StreamInv, FullOK
<1>3. begun.call = "ReadString" =>
          /\ Len(got) <= begun.limit
          /\ call = "none" => EndsAtDelim(got) \/ Len(got) = begun.limit \/ IO!Consumed = MaxBytes
      BY <1>1 DEF StreamInv, StringOK
<1> QED BY <1>2, <1>3
        DEF StreamInv, ReaderOK, WriterOK, AllOK, StringOK, CopyOK, HangOK, EndsAtDelim,
            IO!BytesInOrder, IO!Returned

\* The start.
LEMMA StreamInit == IO!Init => StreamInv
<1> SUFFICES ASSUME IO!Init PROVE StreamInv
    OBVIOUS
<1>1. MaxBytes \in Nat /\ buffer_size_ \in Nat /\ <<>> \in Seq(Byte) /\ Len(<<>>) = 0
      BY SC DEF IO!StreamConstants
<1>2. IO!Bytes(1, MaxBytes) = IO!stream /\ Len(IO!stream) = MaxBytes
      BY <1>1 DEF IO!Bytes, IO!stream
<1>3. IO!Bytes(1, 0) = <<>>
      BY <1>1 DEF IO!Bytes, IO!stream
<1>4. begun.from = 0 /\ begun.call = "none" /\ call = "none" /\ got = <<>> /\ taken = <<>>
      /\ begun \in [call : Calls, limit : Nat, from : Nat, copied : Seq(Byte)]
      BY <1>1 DEF IO!Init, Calls
<1>5. ReaderOK
  <2>1. CASE IO!BufferedReader
        BY <1>1, <1>3, <1>4, <2>1 DEF IO!BufferedReader, ReaderOK, IO!Consumed
  <2>2. CASE IO!ViewReader
    <3>1. fed - Len(buffer_) + 1 = 1 /\ fed - (Len(buffer_) - pos_) = 0
          BY <1>1, <1>2, <2>2 DEF IO!ViewReader
    <3> QED BY <1>1, <1>2, <1>3, <1>4, <2>2, <3>1 DEF IO!ViewReader, ReaderOK, IO!Consumed
  <2> QED BY <2>1, <2>2 DEF IO!Init
<1>6. WriterOK
      BY <1>1 DEF IO!Init, WriterOK
<1> QED BY <1>4, <1>5, <1>6
        DEF IO!Init, StreamInv, CallOK, Calls, FullOK, AllOK, StringOK, CopyOK, HangOK

\* What ReadNext returns follows what has been taken.
LEMMA ReadNextIs ==
  ASSUME StreamInv, NEW r \in IO!ReadNext
  PROVE  LET p == fed - (Len(buffer_) - pos_) IN
         /\ r.fed \in 0..MaxBytes /\ Len(r.buffer) \in 0..r.fed /\ p \in 0..r.fed
         /\ r.buffer = IO!Bytes(r.fed - Len(r.buffer) + 1, r.fed)
         /\ r.chunk = IO!Bytes(p + 1, r.fed) /\ r.chunk \in Seq(Byte)
         /\ Len(r.chunk) = r.fed - p /\ Len(r.chunk) <= Len(r.buffer)
         /\ r.chunk = <<>> => r.fed = MaxBytes
<1> DEFINE p == fed - (Len(buffer_) - pos_)
<1>1. /\ MaxBytes \in Nat /\ cap_ \in Nat /\ cap_ > 0 /\ fed \in 0..MaxBytes
          /\ Len(buffer_) \in 0..fed
      /\ pos_ \in 0..Len(buffer_) /\ buffer_ = IO!Bytes(fed - Len(buffer_) + 1, fed)
      BY SC DEF StreamInv, ReaderOK, IO!StreamConstants
<1>2. CASE pos_ < Len(buffer_)
  <2>1. r = [chunk |-> SubSeq(buffer_, pos_ + 1, Len(buffer_)), buffer |-> buffer_, fed |-> fed]
        BY <1>2 DEF IO!ReadNext
  <2> DEFINE l == Len(buffer_)  i == fed - l + 1
  <2>2. l \in Int /\ i \in Int /\ 1 <= i /\ i <= fed + 1 /\ fed <= MaxBytes
        /\ buffer_ = IO!Bytes(i, fed) /\ fed \in Int
        BY <1>1
  <2>3. pos_ + 1 \in Int /\ 1 <= pos_ + 1 /\ pos_ + 1 <= l + 1 /\ l <= fed - i + 1
        BY <1>1
  <2>4. SubSeq(buffer_, pos_ + 1, l) = IO!Bytes(i + (pos_ + 1) - 1, i + l - 1)
    <3> DEFINE a == pos_ + 1
    <3> HIDE DEF l, i, a
    <3>1. SubSeq(IO!Bytes(i, fed), a, l) = IO!Bytes(i + a - 1, i + l - 1)
          BY <2>2, <2>3, BytesPart DEF a
    <3> QED BY <2>2, <3>1 DEF a
  <2>5. i + (pos_ + 1) - 1 = p + 1 /\ i + l - 1 = fed /\ p \in 0..fed /\ p < fed
        BY <1>1, <1>2
  <2>6. IO!Bytes(p + 1, fed) \in Seq(Byte) /\ Len(IO!Bytes(p + 1, fed)) = fed - p
    <3> DEFINE q == p + 1
    <3>1. q \in Int /\ 1 <= q /\ q <= fed + 1 /\ fed \in Int /\ fed <= MaxBytes
          /\ fed - q + 1 = fed - p
          BY <1>1, <2>5
    <3> HIDE DEF q
    <3>2. IO!Bytes(q, fed) \in Seq(Byte) /\ Len(IO!Bytes(q, fed)) = fed - q + 1
          BY <3>1, BytesAre
    <3> QED BY <3>1, <3>2 DEF q
  <2>7. fed - p <= l /\ fed - p > 0
        BY <1>1, <1>2
  <2>8. r.chunk = IO!Bytes(p + 1, fed) /\ r.buffer = buffer_ /\ r.fed = fed
        BY <2>1, <2>4, <2>5
  <2>9. r.chunk # <<>>
        BY <2>6, <2>7, <2>8
  <2> HIDE DEF p
  <2> QED BY <1>1, <2>5, <2>6, <2>7, <2>8, <2>9 DEF p
<1>3. CASE ~(pos_ < Len(buffer_))
  <2>1. p = fed
        BY <1>1, <1>3
  <2> DEFINE sizes == IF fed = MaxBytes THEN {0} ELSE 1..IO!Min({cap_, MaxBytes - fed})
  <2>2. PICK n \in sizes : LET b == IO!Bytes(fed + 1, fed + n) IN r = [chunk |-> b, buffer |-> b,
             fed |-> fed + Len(b)]
        BY <1>3 DEF IO!ReadNext
  <2>3. n \in Nat /\ fed + n <= MaxBytes /\ (n = 0 => fed = MaxBytes)
    <3>1. CASE fed = MaxBytes
          BY <3>1, <1>1
    <3>2. CASE fed # MaxBytes
      <4>1. cap_ \in Int /\ MaxBytes - fed \in Int
            BY <1>1
      <4>2. IO!Min({cap_, MaxBytes - fed}) \in Int
            /\ IO!Min({cap_, MaxBytes - fed}) <= MaxBytes - fed
            BY <4>1, Least2
      <4>3. n \in 1..IO!Min({cap_, MaxBytes - fed})
            BY <3>2
      <4> HIDE DEF sizes
      <4> QED BY <1>1, <4>2, <4>3
    <3> QED BY <3>1, <3>2
  <2> DEFINE b == IO!Bytes(fed + 1, fed + n)
  <2>4. b \in Seq(Byte) /\ Len(b) = n
    <3> DEFINE i == fed + 1  j == fed + n
    <3>1. i \in Int /\ j \in Int /\ 1 <= i /\ i <= j + 1 /\ j <= MaxBytes /\ j - i + 1 = n
          BY <1>1, <2>3
    <3> HIDE DEF i, j
    <3>2. IO!Bytes(i, j) \in Seq(Byte) /\ Len(IO!Bytes(i, j)) = j - i + 1
          BY <3>1, BytesAre
    <3> QED BY <3>1, <3>2 DEF i, j
  <2>5. r.chunk = b /\ r.buffer = b /\ r.fed = fed + n
        BY <2>2, <2>4
  <2>6. (fed + n) - n + 1 = fed + 1 /\ (fed + n) - fed = n /\ fed \in 0..(fed + n)
        /\ n \in 0..(fed + n) /\ fed + n \in 0..MaxBytes
        BY <1>1, <2>3
  <2>7. r.chunk = <<>> => n = 0
        BY <2>4, <2>5
  <2>8. b = IO!Bytes((fed + n) - n + 1, fed + n)
        BY <2>6
  <2> HIDE DEF b, p, sizes
  <2>9. r.chunk = IO!Bytes(p + 1, r.fed) /\ r.buffer = IO!Bytes(r.fed - Len(r.buffer) + 1, r.fed)
        BY <2>1, <2>4, <2>5, <2>6, <2>8 DEF b
  <2>10. r.chunk = <<>> => r.fed = MaxBytes
        BY <2>3, <2>5, <2>7, <1>1
  <2>11. Len(r.chunk) = n /\ Len(r.buffer) = n /\ r.chunk \in Seq(Byte)
        BY <2>4, <2>5
  <2>12. r.fed - p = n /\ p \in 0..r.fed /\ n \in 0..r.fed /\ r.fed \in 0..MaxBytes
        BY <2>1, <2>3, <2>5, <2>6
  <2> QED BY <1>1, <2>9, <2>10, <2>11, <2>12 DEF p
<1> QED BY <1>2, <1>3

\* A call takes the first n bytes of what ReadNext returns, and gives back the others.
LEMMA TakeKeeps ==
  ASSUME StreamInv, NEW r \in IO!ReadNext, NEW n \in 0..Len(r.chunk), IO!Take(r, n), begun' = begun
  PROVE  /\ ReaderOK' /\ buffer_' = r.buffer
         /\ r.chunk \in Seq(Byte) /\ Len(r.chunk) <= Len(buffer_')
         /\ got' = got \o SubSeq(r.chunk, 1, n) /\ got' \in Seq(Byte)
         /\ Len(got') = Len(got) + n
         /\ r.chunk = <<>> => IO!Consumed' = MaxBytes
<1> DEFINE p == fed - (Len(buffer_) - pos_)
<1>1. /\ r.fed \in 0..MaxBytes /\ Len(r.buffer) \in 0..r.fed /\ p \in 0..r.fed
      /\ r.buffer = IO!Bytes(r.fed - Len(r.buffer) + 1, r.fed)
      /\ r.chunk = IO!Bytes(p + 1, r.fed) /\ r.chunk \in Seq(Byte)
      /\ Len(r.chunk) = r.fed - p /\ Len(r.chunk) <= Len(r.buffer)
      /\ r.chunk = <<>> => r.fed = MaxBytes
      BY ReadNextIs
<1>2. /\ fed' = r.fed /\ buffer_' = r.buffer /\ pos_' = Len(r.buffer) - (Len(r.chunk) - n)
      /\ got' = got \o SubSeq(r.chunk, 1, n) /\ taken' = taken \o SubSeq(r.chunk, 1, n)
      BY DEF IO!Take, IO!ReadBackUp
<1>3. /\ taken = IO!Bytes(1, p) /\ got \in Seq(Byte)
      /\ begun.from \in 0..p /\ got = IO!Bytes(begun.from + 1, p)
      BY GotIs DEF StreamInv, ReaderOK, IO!Consumed
<1>4. n \in Nat /\ n <= r.fed - p /\ MaxBytes \in Nat
      BY <1>1, SC DEF IO!StreamConstants
<1> HIDE DEF p
<1>5. pos_' \in 0..Len(r.buffer) /\ fed' - (Len(buffer_') - pos_') = p + n
  <2> DEFINE lb == Len(r.buffer)  lc == Len(r.chunk)
  <2>1. lb \in Nat /\ lc = r.fed - p /\ lc \in Nat /\ lc <= lb /\ r.fed \in Nat /\ p \in Nat
        /\ n <= lc
        BY <1>1, <1>4
  <2>2. fed' = r.fed /\ Len(buffer_') = lb /\ pos_' = lb - (lc - n)
        BY <1>2
  <2> HIDE DEF lb, lc
  <2>3. lb - (lc - n) \in 0..lb /\ lb - (lb - (lc - n)) = lc - n
        BY <1>4, <2>1
  <2>4. r.fed - (lc - n) = p + n
        BY <1>4, <2>1
  <2> QED BY <2>2, <2>3, <2>4 DEF lb
<1>6. SubSeq(r.chunk, 1, n) = IO!Bytes(p + 1, p + n)
  <2> DEFINE i == p + 1  j == r.fed
  <2>1. i \in Int /\ j \in Int /\ 1 <= i /\ i <= j + 1 /\ j <= MaxBytes /\ n \in Int /\ 1 <= n + 1
        /\ n <= j - i + 1 /\ 1 \in Int /\ 1 <= 1
        BY <1>1, <1>4
  <2>2. i + 1 - 1 = p + 1 /\ i + n - 1 = p + n
        BY <1>1, <1>4
  <2> HIDE DEF i, j
  <2>3. SubSeq(IO!Bytes(i, j), 1, n) = IO!Bytes(i + 1 - 1, i + n - 1)
        BY <2>1, BytesPart
  <2> QED BY <1>1, <2>2, <2>3 DEF i, j
<1>7. SubSeq(r.chunk, 1, n) \in Seq(Byte) /\ Len(SubSeq(r.chunk, 1, n)) = n
      BY <1>1, <1>4
<1>8. ASSUME NEW i \in Int, 1 <= i, i <= p + 1
      PROVE  IO!Bytes(i, p) \o IO!Bytes(p + 1, p + n) = IO!Bytes(i, p + n)
  <2> DEFINE k == p + n
  <2>1. i \in Int /\ p \in Int /\ k \in Int /\ 1 <= i /\ i <= p + 1 /\ p <= k /\ k <= MaxBytes
        BY <1>1, <1>4, <1>8
  <2> HIDE DEF k
  <2>2. IO!Bytes(i, p) \o IO!Bytes(p + 1, k) = IO!Bytes(i, k)
        BY <2>1, BytesJoin
  <2> QED BY <2>2 DEF k
<1>9. got' \in Seq(Byte) /\ Len(got') = Len(got) + n
  <2> DEFINE t == SubSeq(r.chunk, 1, n)
  <2> HIDE DEF t
  <2>1. t \in Seq(Byte) /\ Len(t) = n /\ got' = got \o t
        BY <1>2, <1>7 DEF t
  <2> QED BY <1>3, <2>1, ConcatProperties
<1>10. taken' = IO!Bytes(1, p + n) /\ got' = IO!Bytes(begun.from + 1, p + n)
  <2>1. 1 \in Int /\ 1 <= 1 /\ 1 <= p + 1
        BY <1>1
  <2>2. begun.from + 1 \in Int /\ 1 <= begun.from + 1 /\ begun.from + 1 <= p + 1
        BY <1>1, <1>3
  <2>3. taken' = IO!Bytes(1, p) \o IO!Bytes(p + 1, p + n)
        BY <1>2, <1>3, <1>6
  <2>4. got' = IO!Bytes(begun.from + 1, p) \o IO!Bytes(p + 1, p + n)
        BY <1>2, <1>3, <1>6
  <2>5. IO!Bytes(1, p) \o IO!Bytes(p + 1, p + n) = IO!Bytes(1, p + n)
        BY <1>8, <2>1
  <2>6. IO!Bytes(begun.from + 1, p) \o IO!Bytes(p + 1, p + n) = IO!Bytes(begun.from + 1, p + n)
        BY <1>8, <2>2
  <2> QED BY <2>3, <2>4, <2>5, <2>6
<1>11. IO!Consumed' = p + n /\ begun.from \in 0..(p + n)
       BY <1>1, <1>3, <1>4, <1>5 DEF IO!Consumed
<1>12. ReaderOK'
       BY <1>1, <1>2, <1>5, <1>10, <1>11 DEF ReaderOK
<1>13. r.chunk = <<>> => IO!Consumed' = MaxBytes
       BY <1>1, <1>4, <1>11
<1> QED BY <1>1, <1>2, <1>9, <1>12, <1>13

\* The writer takes what it is given, or hangs at two buffers or more.
LEMMA WriteKeeps ==
  ASSUME StreamInv, NEW buf \in Seq(Byte), IO!Write(buf), ~overflow
  PROVE  /\ WriterOK'
         /\ \/ ~overflow' /\ copied' = copied \o buf
            \/ overflow' /\ Len(buf) >= 2 * buffer_size_
<1>1. used_ \in Seq(Byte) /\ out \in Seq(Byte) /\ copied \in Seq(Byte) /\ out \o used_ = copied
      /\ Len(used_) <= buffer_size_ /\ buffer_size_ \in Nat
      BY SC DEF StreamInv, WriterOK, IO!StreamConstants
<1> DEFINE w == IO!Written(buf)[Len(buf)]
<1>2. CASE /\ Len(buf) < 2 * buffer_size_ /\ used_' = w.used /\ out' = w.out
           /\ copied' = copied \o buf
           /\ UNCHANGED overflow
  <2>1. w.used \in Seq(Byte) /\ w.out \in Seq(Byte) /\ w.out \o w.used = (out \o used_) \o buf
        /\ Len(w.used) <= buffer_size_
        BY <1>1, WrittenHas
  <2>2. copied \o buf \in Seq(Byte)
        BY <1>1, ConcatProperties
  <2> HIDE DEF w
  <2> QED BY <1>1, <1>2, <2>1, <2>2 DEF WriterOK
<1>3. CASE /\ Len(buf) >= 2 * buffer_size_ /\ out' = out \o used_ /\ used_' = <<>> /\ overflow' = TRUE
           /\ UNCHANGED copied
  <2>1. out \o used_ \in Seq(Byte) /\ <<>> \in Seq(Byte) /\ Len(<<>>) = 0
        BY <1>1, ConcatProperties
  <2>2. (out \o used_) \o <<>> = out \o used_
        BY <2>1, ConcatEmptySeq
  <2> QED BY <1>1, <1>3, <2>1, <2>2 DEF WriterOK
<1> QED BY <1>2, <1>3 DEF IO!Write

\* Begin starts a call with nothing got.
LEMMA BeginKeeps == StreamInv /\ IO!Begin => StreamInv'
<1> SUFFICES ASSUME StreamInv, IO!Begin PROVE StreamInv'
    OBVIOUS
<1>1. /\ call' \in {"ReadFull", "ReadString", "ReadAll", "WriteTo"} /\ ~overflow
      /\ want' \in IF call' = "ReadAll" THEN {kInitialSize} ELSE 0..MaxBytes
      /\ got' = <<>> /\ UNCHANGED <<fed, buffer_, pos_, taken, used_, out, copied, overflow>>
      /\ begun' = [call |-> call', limit |-> want', from |-> IO!Consumed, copied |-> copied]
      BY DEF IO!Begin, IO!writer
<1>2. MaxBytes \in Nat /\ kInitialSize \in Nat /\ IO!Consumed \in 0..fed /\ fed \in 0..MaxBytes
      BY GotIs, SC DEF StreamInv, ReaderOK, IO!StreamConstants
<1>3. want' \in Nat /\ Len(got') = 0 /\ copied \in Seq(Byte)
      BY <1>1, <1>2 DEF StreamInv, WriterOK
<1>4. /\ begun'.call = call' /\ begun'.limit = want' /\ begun'.from = IO!Consumed
      /\ begun'.copied = copied
      BY <1>1
<1>5. begun' \in [call : Calls, limit : Nat, from : Nat, copied : Seq(Byte)]
      BY <1>1, <1>2, <1>3 DEF Calls
<1>6. IO!Consumed' = IO!Consumed
      BY <1>1 DEF IO!Consumed
<1>7. IO!Bytes(IO!Consumed + 1, IO!Consumed) = <<>>
  <2> DEFINE c == IO!Consumed
  <2>1. c + 1 \in Int /\ c \in Int /\ 1 <= c + 1 /\ c + 1 <= c + 1 /\ c <= MaxBytes
        /\ c - (c + 1) + 1 = 0
        BY <1>2
  <2> HIDE DEF c
  <2>2. IO!Bytes(c + 1, c) \in Seq(Byte) /\ Len(IO!Bytes(c + 1, c)) = c - (c + 1) + 1
        BY <2>1, BytesAre
  <2>3. Len(IO!Bytes(c + 1, c)) = 0
        BY <2>1, <2>2
  <2> QED BY <2>2, <2>3, EmptySeq DEF c
<1>8. ReaderOK'
      BY <1>1, <1>2, <1>4, <1>6, <1>7 DEF StreamInv, ReaderOK
<1>9. WriterOK'
      BY <1>1 DEF StreamInv, WriterOK
<1>10. CallOK'
       BY <1>1, <1>3, <1>4, <1>5 DEF CallOK, Calls
<1>11. FullOK' /\ AllOK' /\ StringOK'
  <2>1. want' + Len(got') = begun'.limit /\ Len(got') <= want'
    <3> DEFINE m == want'
    <3>1. m \in Nat
          BY <1>3
    <3> HIDE DEF m
    <3>2. m + 0 = m /\ 0 <= m
          BY <3>1
    <3> QED BY <1>3, <1>4, <3>2 DEF m
  <2>4. call' # "none" /\ call' # "EOF"
        BY <1>1
  <2>2. ~EndsAtDelim(got')
        BY <1>1 DEF EndsAtDelim
  <2>3. \A i \in 1..Len(got') - 1 : got'[i] \notin Delims
        BY <1>3
  <2> QED BY <2>1, <2>2, <2>3, <2>4 DEF FullOK, AllOK, StringOK, EndsAtDelim
<1>12. CopyOK'
  <2>1. copied \o <<>> = copied
        BY <1>3, ConcatEmptySeq
  <2> QED BY <1>1, <1>4, <2>1 DEF CopyOK
<1>13. HangOK'
       BY <1>1 DEF HangOK
<1> QED BY <1>8, <1>9, <1>10, <1>11, <1>12, <1>13 DEF StreamInv

\* ReadFull.
LEMMA FullKeeps == StreamInv /\ IO!ReadFull => StreamInv'
<1> SUFFICES ASSUME StreamInv, IO!ReadFull PROVE StreamInv'
    OBVIOUS
<1>1. /\ call = "ReadFull" /\ begun' = begun /\ UNCHANGED <<used_, out, copied, overflow>>
      /\ begun.call = "ReadFull" /\ want \in Nat /\ ~overflow
      BY DEF IO!ReadFull, IO!writer, StreamInv, CallOK, HangOK
<1>2. WriterOK'
      BY <1>1 DEF StreamInv, WriterOK
<1>3. got \in Seq(Byte) /\ Len(got) \in Nat /\ want + Len(got) = begun.limit
      BY <1>1, GotIs DEF StreamInv, FullOK
<1>4. AllOK' /\ StringOK' /\ CopyOK' /\ HangOK'
      BY <1>1 DEF AllOK, StringOK, CopyOK, HangOK, EndsAtDelim
<1>5. CASE want = 0 /\ call' = "none" /\ UNCHANGED <<fed, buffer_, pos_, want, got, taken>>
  <2>1. ReaderOK'
        BY <1>1, <1>5 DEF StreamInv, ReaderOK, IO!Consumed
  <2>2. CallOK' /\ FullOK'
        BY <1>1, <1>3, <1>5 DEF StreamInv, CallOK, FullOK, Calls
  <2> QED BY <1>2, <1>4, <2>1, <2>2 DEF StreamInv
<1>6. CASE want > 0
  <2>1. PICK r \in IO!ReadNext : /\ IO!Take(r, IO!Min({want, Len(r.chunk)}))
                                 /\ want' = want - IO!Min({want, Len(r.chunk)})
                                 /\ call' = IF r.chunk = <<>> THEN "EOF" ELSE call
    <3>1. want # 0
          BY <1>1, <1>6
    <3> QED BY <3>1 DEF IO!ReadFull
  <2> DEFINE n == IO!Min({want, Len(r.chunk)})
  <2>2. r.chunk \in Seq(Byte) /\ Len(r.chunk) \in Nat
        BY ReadNextIs
  <2>3. n \in {want, Len(r.chunk)} /\ n <= want /\ n <= Len(r.chunk)
    <3>1. want \in Int /\ Len(r.chunk) \in Int
          BY <1>1, <2>2
    <3> QED BY <3>1, Least2
  <2>4. IO!Take(r, n) /\ want' = want - n
        BY <2>1
  <2> HIDE DEF n
  <2>5. n \in 0..Len(r.chunk) /\ want - n \in Nat /\ (r.chunk = <<>> => n = 0)
        BY <1>1, <2>2, <2>3
  <2>6. /\ ReaderOK' /\ Len(got') = Len(got) + n
        /\ r.chunk = <<>> => IO!Consumed' = MaxBytes
        BY <1>1, <2>4, <2>5, TakeKeeps
  <2>7. CallOK'
        BY <1>1, <2>1, <2>4, <2>5 DEF StreamInv, CallOK, Calls
  <2>8. FullOK'
    <3>1. want' + Len(got') = begun'.limit
          BY <1>1, <1>3, <2>3, <2>4, <2>5, <2>6
    <3>2. call' = "EOF" => want' > 0 /\ IO!Consumed' = MaxBytes
          BY <1>1, <1>6, <2>1, <2>4, <2>5, <2>6
    <3>3. call' # "none"
          BY <1>1, <2>1
    <3> QED BY <3>1, <3>2, <3>3 DEF FullOK
  <2> QED BY <1>2, <1>4, <2>6, <2>7, <2>8 DEF StreamInv
<1> QED BY <1>5, <1>6 DEF IO!ReadFull

\* ReadAllToString.
LEMMA AllKeeps == StreamInv /\ IO!ReadAllToString => StreamInv'
<1> SUFFICES ASSUME StreamInv, IO!ReadAllToString PROVE StreamInv'
    OBVIOUS
<1>1. /\ call = "ReadAll" /\ begun' = begun /\ UNCHANGED <<used_, out, copied, overflow>>
      /\ begun.call = "ReadAll" /\ want \in Nat /\ ~overflow
      BY DEF IO!ReadAllToString, IO!writer, StreamInv, CallOK, HangOK
<1>2. WriterOK'
      BY <1>1 DEF StreamInv, WriterOK
<1>3. got \in Seq(Byte) /\ Len(got) \in Nat /\ Len(got) <= want
      BY <1>1, GotIs DEF StreamInv, AllOK
<1>4. FullOK' /\ StringOK' /\ CopyOK' /\ HangOK'
      BY <1>1 DEF FullOK, StringOK, CopyOK, HangOK, EndsAtDelim
<1>5. PICK r \in IO!ReadNext : /\ IO!Take(r, IO!Min({IO!Room - Len(got), Len(r.chunk)}))
                               /\ want' = IO!Room
                               /\ call' = IF r.chunk = <<>> THEN "none" ELSE call
      BY DEF IO!ReadAllToString
<1>6. IO!Room \in Nat /\ Len(got) <= IO!Room
      BY <1>1, <1>3 DEF IO!Room
<1> DEFINE n == IO!Min({IO!Room - Len(got), Len(r.chunk)})
<1>7. r.chunk \in Seq(Byte) /\ Len(r.chunk) \in Nat
      BY ReadNextIs
<1>8. n \in {IO!Room - Len(got), Len(r.chunk)} /\ n <= IO!Room - Len(got) /\ n <= Len(r.chunk)
  <2>1. IO!Room - Len(got) \in Int /\ Len(r.chunk) \in Int
        BY <1>3, <1>6, <1>7
  <2> QED BY <2>1, Least2
<1>9. IO!Take(r, n) /\ want' = IO!Room
      BY <1>5
<1> HIDE DEF n
<1>10. n \in 0..Len(r.chunk) /\ Len(got) + n <= IO!Room
       BY <1>3, <1>6, <1>7, <1>8
<1>11. /\ ReaderOK' /\ Len(got') = Len(got) + n
       /\ r.chunk = <<>> => IO!Consumed' = MaxBytes
       BY <1>1, <1>9, <1>10, TakeKeeps
<1>12. CallOK'
       BY <1>1, <1>5, <1>6 DEF StreamInv, CallOK, Calls
<1>13. AllOK'
       BY <1>1, <1>5, <1>10, <1>11 DEF AllOK
<1> QED BY <1>2, <1>4, <1>11, <1>12, <1>13 DEF StreamInv

\* ReadString.
LEMMA StringKeeps == StreamInv /\ IO!ReadString => StreamInv'
<1> SUFFICES ASSUME StreamInv, IO!ReadString PROVE StreamInv'
    OBVIOUS
<1>1. /\ call = "ReadString" /\ begun' = begun /\ UNCHANGED <<used_, out, copied, overflow>>
      /\ begun.call = "ReadString" /\ want \in Nat /\ ~overflow
      BY DEF IO!ReadString, IO!writer, StreamInv, CallOK, HangOK
<1>2. WriterOK'
      BY <1>1 DEF StreamInv, WriterOK
<1>3. got \in Seq(Byte) /\ Len(got) \in Nat /\ want + Len(got) = begun.limit
      BY <1>1, GotIs DEF StreamInv, StringOK
<1>4. FullOK' /\ AllOK' /\ CopyOK' /\ HangOK'
      BY <1>1 DEF FullOK, AllOK, CopyOK, HangOK
<1> DEFINE hits(r) == {i \in 1..Len(r.chunk) : r.chunk[i] \in Delims}
           hit(r) == IF hits(r) = {} THEN Len(r.chunk) + 1 ELSE IO!Min(hits(r))
           most(r) == IO!Min({Len(r.chunk), want, hit(r)})
<1>5. PICK r \in IO!ReadNext :
         /\ IO!Take(r, most(r)) /\ want' = want - most(r)
         /\ call' = IF r.chunk = <<>> \/ most(r) = hit(r) \/ most(r) < Len(r.chunk) THEN "none" ELSE call
      BY DEF IO!ReadString
<1>6. r.chunk \in Seq(Byte) /\ Len(r.chunk) \in Nat
      BY ReadNextIs
\* hit is the place of the first delimiter of the chunk, or behind its end.
<1>7. /\ hit(r) \in Nat /\ hit(r) > 0 /\ hit(r) <= Len(r.chunk) + 1
      /\ hit(r) <= Len(r.chunk) => r.chunk[hit(r)] \in Delims
      /\ \A k \in 1..Len(r.chunk) : k < hit(r) => r.chunk[k] \notin Delims
  <2>1. CASE hits(r) = {}
        BY <1>6, <2>1
  <2>2. CASE hits(r) # {}
    <3>1. hits(r) \in SUBSET Nat
          BY <1>6
    <3>2. \E x \in hits(r) : \A y \in hits(r) : x <= y
      <4> HIDE DEF hits
      <4> QED BY <2>2, <3>1, Least
    <3>3. IO!Min(hits(r)) \in hits(r) /\ \A y \in hits(r) : IO!Min(hits(r)) <= y
      <4> HIDE DEF hits
      <4> QED BY <3>2 DEF IO!Min
    <3>4. hit(r) = IO!Min(hits(r))
          BY <2>2
    <3> HIDE DEF hit
    <3>5. hit(r) \in 1..Len(r.chunk) /\ r.chunk[hit(r)] \in Delims
          BY <3>3, <3>4
    <3>6. ASSUME NEW k \in 1..Len(r.chunk), k < hit(r) PROVE r.chunk[k] \notin Delims
      <4>1. k \in hits(r) => hit(r) <= k
            BY <3>3, <3>4
      <4>2. ~(hit(r) <= k)
            BY <1>6, <3>5, <3>6
      <4> QED BY <4>1, <4>2
    <3> QED BY <1>6, <3>5, <3>6
  <2> QED BY <2>1, <2>2
<1> HIDE DEF hit
<1> DEFINE n == most(r)  h == hit(r)  l == Len(r.chunk)
<1>8. n \in {l, want, h} /\ n <= l /\ n <= want /\ n <= h
  <2>1. l \in Nat /\ want \in Nat /\ h \in Nat
        BY <1>1, <1>6, <1>7
  <2> HIDE DEF l, h
  <2>2. {l, want, h} \in SUBSET Nat /\ {l, want, h} # {}
        BY <2>1
  <2>3. \E x \in {l, want, h} : \A y \in {l, want, h} : x <= y
        BY <2>2, Least
  <2>4. IO!Min({l, want, h}) \in {l, want, h} /\ \A y \in {l, want, h} : IO!Min({l, want, h}) <= y
        BY <2>3 DEF IO!Min
  <2>5. n = IO!Min({l, want, h})
        BY DEF l, h
  <2> HIDE DEF n
  <2> QED BY <2>4, <2>5
<1>9. /\ IO!Take(r, n) /\ want' = want - n
      /\ call' = IF r.chunk = <<>> \/ n = h \/ n < l THEN "none" ELSE call
      BY <1>5
<1>10. /\ h \in Nat /\ h > 0 /\ l \in Nat /\ h <= l + 1
       /\ h <= l => r.chunk[h] \in Delims
       /\ \A k \in 1..l : k < h => r.chunk[k] \notin Delims
       BY <1>6, <1>7
<1> HIDE DEF n, h, hits, most
<1>11. n \in 0..l /\ want - n \in Nat /\ n \in Nat
       BY <1>1, <1>8, <1>10
<1>12. /\ ReaderOK' /\ Len(got') = Len(got) + n /\ got' = got \o SubSeq(r.chunk, 1, n)
       /\ r.chunk = <<>> => IO!Consumed' = MaxBytes
       BY <1>1, <1>9, <1>11, TakeKeeps
<1>13. CallOK'
       BY <1>1, <1>9, <1>11 DEF StreamInv, CallOK, Calls
<1>14. \A i \in 1..Len(got) : got[i] \notin Delims
  <2> SUFFICES ASSUME NEW i \in 1..Len(got) PROVE got[i] \notin Delims
      OBVIOUS
  <2>1. ~EndsAtDelim(got) /\ \A k \in 1..Len(got) - 1 : got[k] \notin Delims
        BY <1>1 DEF StreamInv, StringOK
  <2>2. got # <<>>
        BY <1>3
  <2>3. i = Len(got) \/ i \in 1..Len(got) - 1
        BY <1>3
  <2> QED BY <2>1, <2>2, <2>3 DEF EndsAtDelim
\* What got' is made of.
<1>15. /\ \A i \in 1..Len(got) : got'[i] = got[i]
       /\ \A k \in 1..n : got'[Len(got) + k] = r.chunk[k]
  <2> DEFINE s == SubSeq(r.chunk, 1, n)
  <2>1. s \in Seq(Byte) /\ Len(s) = n /\ \A k \in 1..n : s[k] = r.chunk[k]
        BY <1>6, <1>11
  <2>2. got' = got \o s
        BY <1>12
  <2> HIDE DEF s
  <2>3. /\ \A i \in 1..Len(got) : (got \o s)[i] = got[i]
        /\ \A k \in 1..n : (got \o s)[Len(got) + k] = s[k]
        BY <1>3, <2>1
  <2> QED BY <2>1, <2>2, <2>3
<1>16. \A i \in 1..Len(got') - 1 : got'[i] \notin Delims
  <2> SUFFICES ASSUME NEW i \in 1..Len(got') - 1 PROVE got'[i] \notin Delims
      OBVIOUS
  <2>1. CASE i \in 1..Len(got)
        BY <1>14, <1>15, <2>1
  <2>2. CASE i \notin 1..Len(got)
    <3>1. PICK k \in 1..n : i = Len(got) + k /\ k < n
      <4>1. i - Len(got) \in 1..n /\ i = Len(got) + (i - Len(got)) /\ i - Len(got) < n
            BY <1>3, <1>11, <1>12, <2>2
      <4> QED BY <4>1
    <3>2. k \in 1..l /\ k < h
          BY <1>8, <1>10, <1>11, <3>1
    <3> QED BY <1>10, <1>15, <3>1, <3>2
  <2> QED BY <2>1, <2>2
<1>17. EndsAtDelim(got') <=> n = h
  <2>1. CASE n = h
    <3>1. n \in 1..n /\ h <= l
          BY <1>8, <1>10, <1>11, <2>1
    <3>2. got'[Len(got) + n] = r.chunk[n] /\ Len(got') = Len(got) + n /\ Len(got') > 0
          BY <1>3, <1>11, <1>12, <1>15, <3>1
    <3>3. got' # <<>>
          BY <3>2
    <3> QED BY <1>10, <2>1, <3>1, <3>2, <3>3 DEF EndsAtDelim
  <2>2. CASE n # h /\ n > 0
    <3>1. n \in 1..n /\ n \in 1..l /\ n < h
          BY <1>8, <1>10, <1>11, <2>2
    <3>2. got'[Len(got) + n] = r.chunk[n] /\ Len(got') = Len(got) + n
          BY <1>12, <1>15, <3>1
    <3> QED BY <1>10, <2>2, <3>1, <3>2 DEF EndsAtDelim
  <2>3. CASE n # h /\ n = 0
    <3>1. Len(got') = Len(got)
          BY <1>3, <1>12, <2>3
    <3>2. ASSUME got' # <<>> PROVE got'[Len(got')] \notin Delims
      <4>1. Len(got) \in 1..Len(got)
        <5>1. ReaderOK' /\ got' \in Seq(Byte)
              BY <1>1, <1>9, <1>11, TakeKeeps
        <5>2. Len(got') # 0
              BY <3>2, <5>1, EmptySeq
        <5> QED BY <1>3, <3>1, <5>2
      <4> QED BY <1>14, <1>15, <3>1, <4>1
    <3> QED BY <2>3, <3>2 DEF EndsAtDelim
  <2> QED BY <1>11, <2>1, <2>2, <2>3
<1>18. StringOK'
  <2>1. want' + Len(got') = begun'.limit
        BY <1>1, <1>3, <1>9, <1>11, <1>12
  <2>2. EndsAtDelim(got') => call' = "none"
        BY <1>9, <1>17
  <2>3. call' = "none" => EndsAtDelim(got') \/ want' = 0 \/ IO!Consumed' = MaxBytes
    <3> SUFFICES ASSUME call' = "none", n # h PROVE want' = 0 \/ IO!Consumed' = MaxBytes
        BY <1>17
    <3>1. r.chunk = <<>> \/ n < l
          BY <1>1, <1>9
    <3>2. CASE n < l
          BY <1>1, <1>8, <1>9, <1>10, <1>11, <3>2
    <3> QED BY <1>12, <3>1, <3>2
  <2> QED BY <1>16, <2>1, <2>2, <2>3 DEF StringOK, EndsAtDelim
<1> QED BY <1>2, <1>4, <1>12, <1>13, <1>18 DEF StreamInv

\* WriteTo.
LEMMA CopyKeeps == StreamInv /\ IO!WriteTo => StreamInv'
<1> SUFFICES ASSUME StreamInv, IO!WriteTo PROVE StreamInv'
    OBVIOUS
<1>1. /\ call = "WriteTo" /\ begun' = begun /\ want' = want /\ begun.call = "WriteTo" /\ ~overflow
      /\ copied = begun.copied \o got /\ begun.copied \in Seq(Byte)
      BY DEF IO!WriteTo, StreamInv, CallOK, CopyOK
<1>2. PICK r \in IO!ReadNext : /\ IO!Take(r, Len(r.chunk))
                               /\ IF r.chunk = <<>> THEN call' = "none" /\ UNCHANGED IO!writer
                                                    ELSE IO!Write(r.chunk) /\ UNCHANGED call
      BY DEF IO!WriteTo
<1>3. r.chunk \in Seq(Byte) /\ Len(r.chunk) \in Nat /\ Len(r.chunk) \in 0..Len(r.chunk)
      BY ReadNextIs
<1>4. /\ ReaderOK' /\ buffer_' = r.buffer /\ Len(r.chunk) <= Len(buffer_')
      /\ got' = got \o SubSeq(r.chunk, 1, Len(r.chunk))
      /\ r.chunk = <<>> => IO!Consumed' = MaxBytes
      BY <1>1, <1>2, <1>3, TakeKeeps
<1>5. SubSeq(r.chunk, 1, Len(r.chunk)) = r.chunk
      BY <1>3
<1>6. CallOK' /\ FullOK' /\ AllOK' /\ StringOK'
  <2>1. call' \in {"none", "WriteTo"}
        BY <1>1, <1>2
  <2> QED BY <1>1, <2>1 DEF StreamInv, CallOK, Calls, FullOK, AllOK, StringOK, EndsAtDelim
<1>7. got \in Seq(Byte)
      BY GotIs
<1>8. CASE r.chunk = <<>>
  <2>1. UNCHANGED <<used_, out, copied, overflow>> /\ call' = "none"
        BY <1>2, <1>8 DEF IO!writer
  <2>2. got' = got
        BY <1>4, <1>5, <1>7, <1>8, ConcatEmptySeq
  <2>3. WriterOK' /\ CopyOK' /\ HangOK'
        BY <1>1, <1>4, <1>8, <2>1, <2>2 DEF StreamInv, WriterOK, CopyOK, HangOK
  <2> QED BY <1>4, <1>6, <2>3 DEF StreamInv
<1>9. CASE r.chunk # <<>>
  <2>1. IO!Write(r.chunk) /\ call' = call
        BY <1>2, <1>9
  <2>2. /\ WriterOK'
        /\ \/ ~overflow' /\ copied' = copied \o r.chunk
           \/ overflow' /\ Len(r.chunk) >= 2 * buffer_size_
        BY <1>1, <1>3, <2>1, WriteKeeps
  <2>3. (begun.copied \o got) \o r.chunk = begun.copied \o (got \o r.chunk)
    <3> DEFINE b == begun.copied  c == r.chunk
    <3>1. b \in Seq(Byte) /\ c \in Seq(Byte)
          BY <1>1, <1>3
    <3> HIDE DEF b, c
    <3>2. (b \o got) \o c = b \o (got \o c)
          BY <1>7, <3>1, ConcatAssociative
    <3> QED BY <3>2 DEF b, c
  <2>4. CopyOK'
        BY <1>1, <1>4, <1>5, <2>1, <2>2, <2>3 DEF CopyOK
  <2>5. HangOK'
    <3>1. buffer_size_ \in Nat /\ Len(buffer_') \in Nat
          BY <1>4, SC DEF ReaderOK, IO!StreamConstants
    <3> QED BY <1>1, <1>3, <1>4, <2>1, <2>2, <3>1 DEF HangOK
  <2> QED BY <1>4, <1>6, <2>2, <2>4, <2>5 DEF StreamInv
<1> QED BY <1>8, <1>9

\* Flush.
LEMMA FlushKeeps == StreamInv /\ IO!Flush => StreamInv'
<1> SUFFICES ASSUME StreamInv, IO!Flush PROVE StreamInv'
    OBVIOUS
<1>1. /\ UNCHANGED <<fed, buffer_, pos_, call, want, got, begun, taken, copied, overflow>>
      /\ out' = out \o used_ /\ used_' = <<>>
      BY DEF IO!Flush
<1>2. ReaderOK' /\ CallOK' /\ FullOK' /\ AllOK' /\ StringOK' /\ CopyOK' /\ HangOK'
      BY <1>1 DEF StreamInv, ReaderOK, CallOK, FullOK, AllOK, StringOK, CopyOK, HangOK, EndsAtDelim,
                  IO!Consumed
<1>3. WriterOK'
  <2>1. out \o used_ \in Seq(Byte) /\ <<>> \in Seq(Byte) /\ Len(<<>>) = 0 /\ buffer_size_ \in Nat
        /\ copied \in Seq(Byte) /\ out \o used_ = copied
        BY SC, ConcatProperties DEF StreamInv, WriterOK, IO!StreamConstants
  <2>2. (out \o used_) \o <<>> = out \o used_
        BY <2>1, ConcatEmptySeq
  <2> QED BY <1>1, <2>1, <2>2 DEF WriterOK
<1> QED BY <1>2, <1>3 DEF StreamInv

\* Every step.
LEMMA StreamStep == StreamInv /\ [IO!Next]_(IO!vars) => StreamInv'
<1>1. ASSUME StreamInv, UNCHANGED IO!vars PROVE StreamInv'
  <2>1. UNCHANGED <<fed, buffer_, pos_, call, want, got, begun, taken, used_, out, copied, overflow>>
        BY <1>1 DEF IO!vars
  <2>2. ReaderOK' /\ WriterOK' /\ CallOK'
        BY <1>1, <2>1 DEF StreamInv, ReaderOK, WriterOK, CallOK, IO!Consumed
  <2>3. FullOK' /\ AllOK' /\ StringOK' /\ CopyOK' /\ HangOK'
        BY <1>1, <2>1 DEF StreamInv, FullOK, AllOK, StringOK, CopyOK, HangOK, EndsAtDelim, IO!Consumed
  <2> QED BY <2>2, <2>3 DEF StreamInv
<1> QED BY <1>1, BeginKeeps, FullKeeps, AllKeeps, StringKeeps, CopyKeeps, FlushKeeps DEF IO!Next

\* The invariant of the streams.
LEMMA StreamInvariance == IO!Spec => []StreamInv
  BY StreamInit, StreamStep, PTL DEF IO!Spec
-----------------------------------------------------------------------------
\* A part of the suite behaves as it does alone: the other parts leave its variables
\* alone.
LEMMA SuiteIsNet == SuiteSpec => NE!Spec
<1>1. SuiteInit => NE!Init
      BY DEF SuiteInit
<1>2. UNCHANGED ne => UNCHANGED NE!vars
      BY DEF ne, NE!vars, NE!watch, NE!kernel, NE!fibers
<1>3. ASSUME [SuiteNext]_all PROVE [NE!Next]_(NE!vars)
  <2>1. CASE NetNext
        BY <2>1 DEF NetNext
  <2>2. CASE UNCHANGED all
        BY <1>2, <2>2 DEF all
  <2>3. CASE \/ BalancerNext \/ FibersNext \/ StreamsNext \/ TimersNext \/ RedisNext
             \/ SocksNext \/ RpcNext \/ ClientsNext \/ CoroutineNext
        BY <1>2, <2>3 DEF BalancerNext, FibersNext, StreamsNext, TimersNext, RedisNext, SocksNext,
           RpcNext, ClientsNext, CoroutineNext
  <2> QED BY <1>3, <2>1, <2>2, <2>3 DEF SuiteNext
<1> QED BY <1>1, <1>3, PTL DEF SuiteSpec, NE!Spec

\* A part of the suite behaves as it does alone: the other parts leave its variables
\* alone.
LEMMA SuiteIsStreams == SuiteSpec => IO!Spec
<1>1. SuiteInit => IO!Init
      BY DEF SuiteInit
<1>2. UNCHANGED io => UNCHANGED IO!vars
      BY DEF io, IO!vars, IO!writer
<1>3. ASSUME [SuiteNext]_all PROVE [IO!Next]_(IO!vars)
  <2>1. CASE StreamsNext
        BY <2>1 DEF StreamsNext
  <2>2. CASE UNCHANGED all
        BY <1>2, <2>2 DEF all
  <2>3. CASE \/ BalancerNext \/ FibersNext \/ TimersNext \/ NetNext \/ RedisNext
             \/ SocksNext \/ RpcNext \/ ClientsNext \/ CoroutineNext
        BY <1>2, <2>3 DEF BalancerNext, FibersNext, TimersNext, NetNext, RedisNext, SocksNext,
           RpcNext, ClientsNext, CoroutineNext
  <2> QED BY <1>3, <2>1, <2>2, <2>3 DEF SuiteNext
<1> QED BY <1>1, <1>3, PTL DEF SuiteSpec, IO!Spec

\* A fiber that waits for a descriptor is woken by the event it waits for, and no two
\* open sockets share a descriptor's slot: Poller::Wait, AddFD and RemoveFD with any
\* interleaving of fibers, the kernel's edges and closed sockets.
THEOREM EventsReach == SuiteSpec => []EventsReachWaiters
<1>1. NetInv => EventsReachWaiters
      BY Events, Separate DEF EventsReachWaiters
<1> QED BY <1>1, SuiteIsNet, NetInvariance, PTL

\* What is read, copied and written through the buffers is what was fed, in order and
\* whole, within the buffers, and every call returns what it should or, in WriteTo, does
\* not end: for every size of the buffers and every split into pieces.
THEOREM BytesStayInOrder == SuiteSpec => []BytesInOrder
<1>1. StreamInv => BytesInOrder
      BY StreamRight DEF BytesInOrder
<1> QED BY <1>1, SuiteIsStreams, StreamInvariance, PTL
=============================================================================
