------------------------------ MODULE Balancer ------------------------------
(***************************************************************************)
(* balancer: a fiber per client connection takes the mutex, chooses the    *)
(* least loaded backend that is not dead, dials it with a time-out of 100  *)
(* ms while it holds the mutex, and relays in both directions; SetBackends *)
(* replaces the list meanwhile.  A Peer lives on in the connections that   *)
(* use it.                                                                 *)
(***************************************************************************)
EXTENDS Integers, Sequences, SequencesExt, FiniteSets, FiniteSetsExt

CONSTANTS Conn, Backend, Nobody, MaxConfigs

ASSUME BalancerConstants == IsFiniteSet(Conn) /\ Nobody \notin Conn /\ MaxConfigs \in Nat

VARIABLES peers_,               \* the sequence of Peers: <<configuration, backend>>
          load, is_dead,        \* per Peer
          mutex_,               \* the connection that holds it, or Nobody
          pc, peer,             \* of a connection: where it is, the Peer it uses
          relays,               \* the directions it still relays
          configs

vars == <<peers_, load, is_dead, mutex_, pc, peer, relays, configs>>

Peer == (1..MaxConfigs) \X Backend

Init == /\ peers_ = <<>> /\ configs = 0 /\ mutex_ = Nobody
        /\ load = [p \in Peer |-> 0] /\ is_dead = [p \in Peer |-> FALSE]
        /\ pc = [c \in Conn |-> "none"] /\ peer = [c \in Conn |-> Nobody]
        /\ relays = [c \in Conn |-> {}]

Goto(c, where) == pc' = [pc EXCEPT ![c] = where]

\* Run: Accept, and a fiber for the connection.
Accept(c) == /\ pc[c] = "none" /\ Goto(c, "lock")
             /\ UNCHANGED <<peers_, load, is_dead, mutex_, peer, relays, configs>>

SetBackends == /\ configs < MaxConfigs /\ mutex_ = Nobody /\ configs' = configs + 1
               /\ \E bs \in SetToSeqs(Backend) \cup {<<>>} : peers_' = [i \in DOMAIN bs |-> <<configs + 1, bs[i]>>]
               /\ UNCHANGED <<load, is_dead, mutex_, pc, peer, relays>>

\* The first of the least loaded live peers.
Suitable(i) == /\ ~is_dead[peers_[i]]
               /\ \A j \in DOMAIN peers_ : is_dead[peers_[j]] \/ load[peers_[i]] <= load[peers_[j]]
               /\ \A j \in DOMAIN peers_ : j < i => is_dead[peers_[j]] \/ load[peers_[i]] < load[peers_[j]]

DialUnlocked(c, i) ==           \* mutant: the mutex is not held while the peer is dialed
    Suitable(i) /\ peer' = [peer EXCEPT ![c] = peers_[i]] /\ UNCHANGED mutex_ /\ Goto(c, "dial")
DialLocked(c, i) ==
    Suitable(i) /\ peer' = [peer EXCEPT ![c] = peers_[i]] /\ mutex_' = c /\ Goto(c, "dial")

\* MakeConnection: with the mutex, choose and start to dial; without a live peer the
\* exception closes the connection.
MakeConnection(c) ==
    /\ pc[c] = "lock" /\ mutex_ = Nobody
    /\ \/ \E i \in DOMAIN peers_ : DialLocked(c, i)
       \/ /\ ~\E i \in DOMAIN peers_ : Suitable(i)
          /\ Goto(c, "refused") /\ UNCHANGED <<peer, mutex_>>
    /\ UNCHANGED <<peers_, load, is_dead, relays, configs>>

\* The dial ends: the fiber that relays is spawned and the mutex released, or the
\* peer is dead from now on and the loop goes round.
Dialed(c) ==
    /\ pc[c] = "dial" /\ Goto(c, "relay") /\ mutex_' = Nobody
    /\ load' = [load EXCEPT ![peer[c]] = @ + 1] /\ relays' = [relays EXCEPT ![c] = {"up", "down"}]
    /\ UNCHANGED <<peers_, is_dead, peer, configs>>

DialFailed(c) ==
    /\ pc[c] = "dial" /\ Goto(c, "lock") /\ mutex_' = Nobody
    /\ is_dead' = [is_dead EXCEPT ![peer[c]] = TRUE]
    /\ UNCHANGED <<peers_, load, peer, relays, configs>>

\* TransferData ends at the end of the stream or by an exception it swallows; the
\* group waits for both directions.
TransferData(c, d) ==
    /\ pc[c] = "relay" /\ d \in relays[c] /\ relays' = [relays EXCEPT ![c] = @ \ {d}]
    /\ UNCHANGED <<peers_, load, is_dead, mutex_, pc, peer, configs>>

\* ProcessConnection after its Wait: the mutex, and the load.
EndConnection(c) ==
    /\ pc[c] = "relay" /\ relays[c] = {} /\ mutex_ = Nobody
    /\ load' = [load EXCEPT ![peer[c]] = @ - 1] /\ Goto(c, "ended")
    /\ UNCHANGED <<peers_, is_dead, mutex_, peer, relays, configs>>

Next == \/ SetBackends
        \/ \E c \in Conn : \/ Accept(c) \/ MakeConnection(c) \/ Dialed(c) \/ DialFailed(c) \/ EndConnection(c)
                           \/ \E d \in {"up", "down"} : TransferData(c, d)

Spec == Init /\ [][Next]_vars
-----------------------------------------------------------------------------
\* The load of a Peer is the number of connections that are open to it, though they
\* end in any order and the list is replaced under them; and when a dial ends, its
\* Peer is still the first of the least loaded live ones of the present list.
BalancesLoad ==
    /\ \A p \in Peer : load[p] = Cardinality({c \in Conn : pc[c] = "relay" /\ peer[c] = p})
    /\ \A c \in Conn : pc[c] = "dial" => \E i \in DOMAIN peers_ : peers_[i] = peer[c] /\ Suitable(i)
=============================================================================
