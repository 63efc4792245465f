----------------------------- MODULE TimerQueue -----------------------------
(***************************************************************************)
(* timerqueue/timerqueue.h: values with a time, Pop waits for the earliest *)
(* one.  queue_ is a std::map keyed by the time.  Pop computes its timeout *)
(* once, when it is called, and takes the front element when the wait      *)
(* ends, whether the predicate holds or the timeout has expired.           *)
(***************************************************************************)
EXTENDS Integers

CONSTANTS Popper, Item, Times,
          Patience,     \* the 10 s an empty queue is waited for
          MaxTime       \* bound of the clock

TimerQueueConstants == Times \subseteq Nat /\ Patience \in Nat /\ MaxTime \in Nat

VARIABLES queue_,       \* the map, as a set of pairs <<time, item>>
          now,          \* system_clock
          pc,           \* "idle", "asleep", "woken", "crashed"
          deadline,     \* the timeout of the thread's Pop
          since,        \* history: when the thread's Pop was called
          added,        \* history: the pairs given to Add
          popped        \* history: records of what Pop returned and when

vars == <<queue_, now, pc, deadline, since, added, popped>>

TypeOK == /\ queue_ \subseteq Times \X Item
          /\ now \in Nat
          /\ pc \in [Popper -> {"idle", "asleep", "woken", "crashed"}]
          /\ deadline \in [Popper -> Nat]
          /\ since \in [Popper -> Nat]
          /\ added \subseteq Times \X Item
          /\ popped \subseteq [by : Popper, at : Times, item : Item, time : Nat, since : Nat]

Init == /\ queue_ = {} /\ now = 0
        /\ pc = [p \in Popper |-> "idle"]
        /\ deadline = [p \in Popper |-> 0]
        /\ since = [p \in Popper |-> 0]
        /\ added = {} /\ popped = {}

\* queue_.begin()
Front == CHOOSE e \in queue_ : \A f \in queue_ : e[1] <= f[1]

\* waiting_pop_.notify_one()
Notify == LET sleepers == {p \in Popper : pc[p] = "asleep"}
          IN  IF sleepers = {} THEN UNCHANGED pc
              ELSE \E p \in sleepers : pc' = [pc EXCEPT ![p] = "woken"]

\* Add: map::emplace leaves an element with the same key in place.
Add(at, i) ==
    /\ \A e \in added : e[2] # i
    /\ added' = added \cup {<<at, i>>}
    /\ queue_' = IF \E e \in queue_ : e[1] = at THEN queue_ ELSE queue_ \cup {<<at, i>>}
    /\ Notify
    /\ UNCHANGED <<now, deadline, since, popped>>

Ready == queue_ # {} /\ Front[1] <= now

\* Take begin(); with an empty map that is undefined behaviour.
TakeFront(p, called) ==
    IF queue_ = {}
      THEN pc' = [pc EXCEPT ![p] = "crashed"] /\ UNCHANGED <<queue_, popped>>
      ELSE /\ queue_' = queue_ \ {Front}
           /\ popped' = popped \cup {[by |-> p, at |-> Front[1], item |-> Front[2],
                                      time |-> now, since |-> called]}
           /\ pc' = [pc EXCEPT ![p] = "idle"]

\* Faulty: waits for nothing.
PopAtOnce(p) ==
    /\ pc[p] = "idle"
    /\ TakeFront(p, now)
    /\ UNCHANGED <<deadline, since, now, added>>

\* Pop: take the front if it is due, else sleep until its time, or Patience.
Pop(p) ==
    /\ pc[p] = "idle"
    /\ IF Ready
         THEN TakeFront(p, now) /\ UNCHANGED deadline
         ELSE /\ pc' = [pc EXCEPT ![p] = "asleep"]
              /\ deadline' = [deadline EXCEPT ![p] = IF queue_ = {} THEN now + Patience ELSE Front[1]]
              /\ UNCHANGED <<queue_, popped>>
    /\ since' = [since EXCEPT ![p] = now]
    /\ UNCHANGED <<now, added>>

\* After a notification: take it if due, sleep again if there is time left.
Wake(p) ==
    /\ pc[p] = "woken"
    /\ IF Ready \/ now >= deadline[p]
         THEN TakeFront(p, since[p])
         ELSE pc' = [pc EXCEPT ![p] = "asleep"] /\ UNCHANGED <<queue_, popped>>
    /\ UNCHANGED <<now, deadline, since, added>>

\* A condition variable may wake up without a notification.
SpuriousWakeup(p) ==
    /\ pc[p] = "asleep"
    /\ pc' = [pc EXCEPT ![p] = "woken"]
    /\ UNCHANGED <<queue_, now, deadline, since, added, popped>>

\* The timeout expires.
Timeout(p) ==
    /\ pc[p] = "asleep" /\ now >= deadline[p]
    /\ TakeFront(p, since[p])
    /\ UNCHANGED <<now, deadline, since, added>>

Tick == /\ now < MaxTime
        /\ now' = now + 1
        /\ UNCHANGED <<queue_, pc, deadline, since, added, popped>>

Next == \/ \E at \in Times, i \in Item : Add(at, i)
        \/ \E p \in Popper : Pop(p) \/ Wake(p) \/ SpuriousWakeup(p) \/ Timeout(p)
        \/ Tick

Spec == Init /\ [][Next]_vars
-----------------------------------------------------------------------------
\* readme.md: Pop blocks until the earliest time in the queue and returns that
\* element.  No element is returned before its time.
NeverEarly == \A r \in popped : r.time >= r.at

\* Since `from` another consumer took an element whose time came by `to`: the one
\* that a Pop called at `from` had set its timeout by.
TakenMeanwhile(p, from, to) ==
    \E s \in popped : s.by # p /\ s.time >= from /\ from < s.at /\ s.at <= to

\* What the code keeps of that promise.  The timeout of Pop is computed once, so an
\* element is returned too early, and the front of an empty map is taken, by a call
\* that has waited the whole Patience of an empty queue, or whose element another
\* consumer took while it slept; and by no other call.
OnTimeOrOutOfPatience ==
    /\ \A r \in popped : \/ r.time >= r.at
                         \/ r.time >= r.since + Patience
                         \/ TakenMeanwhile(r.by, r.since, r.time)
    /\ \A p \in Popper : pc[p] = "crashed" => \/ now >= since[p] + Patience
                                              \/ TakenMeanwhile(p, since[p], now)

\* readme.md: on an empty queue Pop waits for ever; it does not run into the
\* front of an empty map.
EmptyPopWaits == \A p \in Popper : pc[p] # "crashed"

\* readme.md: Add adds the pair to the set.  Whatever was added is there or has
\* been returned.
AddKeepsAll ==
    \A e \in added : e \in queue_ \/ \E r \in popped : r.at = e[1] /\ r.item = e[2]

\* readme.md: Pop blocks until the earliest time in the set.  When all the callers
\* of Pop sleep, one of them has a timeout that is not later than that time.
WakesInTime ==
    queue_ # {} /\ (\A p \in Popper : pc[p] = "asleep")
       => \E p \in Popper : deadline[p] <= Front[1] \/ deadline[p] <= now
=============================================================================
