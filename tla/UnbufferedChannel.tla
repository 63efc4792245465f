------------------------- MODULE UnbufferedChannel --------------------------
(***************************************************************************)
(* unbuffered-channel/unbuffered_channel.h: a sender puts itself (a value, *)
(* a flag and a condition variable of its own) into a queue and sleeps     *)
(* until a receiver has taken the value or the channel is closed.  All     *)
(* three operations hold edit_queue_ whenever they do not sleep, so each   *)
(* piece between two waits is one step.                                    *)
(***************************************************************************)
EXTENDS Integers, Sequences, FiniteSets

CONSTANTS Sender, Receiver,
          MaxSend       \* bound on the calls of Send by one sender

Party == Sender \cup Receiver

ChannelConstants == MaxSend \in Nat /\ IsFiniteSet(Receiver) /\ Sender \cap Receiver = {}

VARIABLES queue_,       \* the elements: a sender and the number of its call
          is_closed_,
          is_received,  \* is_received[s]: the flag of the current call of s
          pc,           \* "idle", "asleep" (in wait), "woken", "failed"
          calls,        \* calls[s]: how many times s has called Send
          taken,        \* history: the elements whose value a Recv returned
          sentOK        \* history: the elements whose Send returned without throwing

vars == <<queue_, is_closed_, is_received, pc, calls, taken, sentOK>>

Element == Sender \X Nat

TypeOK ==
    /\ queue_ \in Seq(Element) /\ is_closed_ \in BOOLEAN
    /\ is_received \in [Sender -> BOOLEAN]
    /\ pc \in [Party -> {"idle", "asleep", "woken", "failed"}]
    /\ calls \in [Sender -> Nat]
    /\ taken \subseteq Element /\ sentOK \subseteq Element

Init ==
    /\ queue_ = <<>> /\ is_closed_ = FALSE
    /\ is_received = [s \in Sender |-> FALSE]
    /\ pc = [t \in Party |-> "idle"]
    /\ calls = [s \in Sender |-> 0]
    /\ taken = {} /\ sentOK = {}

\* t goes to l, and notify_one wakes some sleeping receiver, if there is one.
LeaveAndNotifyReceiver(t, l) ==
    LET sleepers == {r \in Receiver : pc[r] = "asleep"}
    IN  IF sleepers = {} THEN pc' = [pc EXCEPT ![t] = l]
        ELSE \E r \in sleepers : pc' = [pc EXCEPT ![t] = l, ![r] = "woken"]

\* Faulty: no notify_one.
SendSilently(s) ==
    /\ pc[s] = "idle" /\ calls[s] < MaxSend
    /\ queue_' = Append(queue_, <<s, calls[s]>>)
    /\ calls' = [calls EXCEPT ![s] = @ + 1]
    /\ is_received' = [is_received EXCEPT ![s] = FALSE]
    /\ pc' = [pc EXCEPT ![s] = IF is_closed_ THEN "failed" ELSE "asleep"]
    /\ UNCHANGED <<is_closed_, taken, sentOK>>

\* Send: queue the element, notify a receiver, and wait; in a closed channel the
\* wait ends at once and Send throws, with the element left in the queue.
Send(s) ==
    /\ pc[s] = "idle" /\ calls[s] < MaxSend
    /\ queue_' = Append(queue_, <<s, calls[s]>>)
    /\ calls' = [calls EXCEPT ![s] = @ + 1]
    /\ is_received' = [is_received EXCEPT ![s] = FALSE]
    /\ LeaveAndNotifyReceiver(s, IF is_closed_ THEN "failed" ELSE "asleep")
    /\ UNCHANGED <<is_closed_, taken, sentOK>>

\* Faulty: looks at the channel instead of its own flag.
SendWokenClosed(s) ==
    /\ pc[s] = "woken"
    /\ IF is_closed_
         THEN pc' = [pc EXCEPT ![s] = "failed"] /\ UNCHANGED sentOK
         ELSE /\ pc' = [pc EXCEPT ![s] = "idle"]
              /\ sentOK' = sentOK \cup {<<s, calls[s] - 1>>}
    /\ UNCHANGED <<queue_, is_closed_, is_received, calls, taken>>

\* Send after a wake-up.
SendWoken(s) ==
    /\ pc[s] = "woken"
    /\ \/ /\ is_received[s]
          /\ pc' = [pc EXCEPT ![s] = "idle"]
          /\ sentOK' = sentOK \cup {<<s, calls[s] - 1>>}
       \/ /\ ~is_received[s] /\ is_closed_
          /\ pc' = [pc EXCEPT ![s] = "failed"]
          /\ UNCHANGED sentOK
       \/ /\ ~is_received[s] /\ ~is_closed_
          /\ pc' = [pc EXCEPT ![s] = "asleep"]
          /\ UNCHANGED sentOK
    /\ UNCHANGED <<queue_, is_closed_, is_received, calls, taken>>

\* A condition variable may wake up without a notification.
SpuriousWakeup(t) ==
    /\ pc[t] = "asleep"
    /\ pc' = [pc EXCEPT ![t] = "woken"]
    /\ UNCHANGED <<queue_, is_closed_, is_received, calls, taken, sentOK>>

\* Recv, from the call or from a wake-up: nullopt when closed, sleep when empty,
\* else take the front element, set its flag and notify its sender.
Recv(r) ==
    /\ pc[r] \in {"idle", "woken"}
    /\ \/ /\ is_closed_
          /\ pc' = [pc EXCEPT ![r] = "failed"]
          /\ UNCHANGED <<queue_, is_received, taken>>
       \/ /\ ~is_closed_ /\ queue_ = <<>>
          /\ pc' = [pc EXCEPT ![r] = "asleep"]
          /\ UNCHANGED <<queue_, is_received, taken>>
       \/ /\ ~is_closed_ /\ queue_ # <<>>
          /\ LET s == Head(queue_)[1]
             IN  /\ taken' = taken \cup {Head(queue_)}
                 /\ queue_' = Tail(queue_)
                 /\ is_received' = [is_received EXCEPT ![s] = TRUE]
                 /\ pc' = [pc EXCEPT ![r] = "idle",
                                     ![s] = IF @ = "asleep" THEN "woken" ELSE @]
    /\ UNCHANGED <<is_closed_, calls, sentOK>>

\* Close: notify every queued sender and all receivers, and empty the queue.
Close ==
    /\ is_closed_' = TRUE
    /\ LET queued == {queue_[i][1] : i \in 1..Len(queue_)}
       IN  pc' = [t \in Party |-> IF pc[t] = "asleep" /\ t \in Receiver \cup queued
                                   THEN "woken" ELSE pc[t]]
    /\ queue_' = <<>>
    /\ UNCHANGED <<is_received, calls, taken, sentOK>>

\* What a thread whose wait has ended does.
Resume(t) == \/ t \in Sender /\ SendWoken(t)
             \/ t \in Receiver /\ pc[t] = "woken" /\ Recv(t)

Next == \/ \E s \in Sender : Send(s) \/ SendWoken(s)
        \/ \E r \in Receiver : Recv(r)
        \/ \E t \in Party : SpuriousWakeup(t)
        \/ Close

Spec == Init /\ [][Next]_vars

\* A woken thread takes the mutex and goes on.
FairSpec == Spec /\ \A t \in Party : WF_vars(Resume(t))
-----------------------------------------------------------------------------
\* readme.md: a Send that returns knows that its value was received; one that
\* throws knows that it was not and never will be, also when Close comes between
\* the receiver and the wake-up of the sender.
Rendezvous ==
    /\ sentOK \subseteq taken
    /\ \A s \in Sender : pc[s] = "failed" => <<s, calls[s] - 1>> \notin taken

\* Receivers asleep while senders wait: for each of these a receiver was woken.
NoLostWakeup ==
    (\E r \in Receiver : pc[r] = "asleep") /\ ~is_closed_
       => Len(queue_) <= Cardinality({r \in Receiver : pc[r] = "woken"})

\* Once the channel is closed every sleeper leaves it.
CloseReleasesAll == \A t \in Party : (is_closed_ /\ pc[t] = "asleep") ~> (pc[t] # "asleep")
=============================================================================
