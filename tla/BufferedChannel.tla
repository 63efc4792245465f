-------------------------- MODULE BufferedChannel ---------------------------
(***************************************************************************)
(* buffered-channel/buffered_channel.h: a bounded queue with two condition *)
(* variables.  Send and Recv work under edit_queue_; Close does not take   *)
(* it, so a thread that has found its predicate false and has not yet gone *)
(* to sleep (it still holds the mutex) can be overtaken by all of Close.   *)
(* Each thread makes one call at a time and then may make another.         *)
(***************************************************************************)
EXTENDS Integers, Sequences, FiniteSets

CONSTANTS Sender, Receiver, NoThread,
          Capacity,     \* max_size_
          MaxSend       \* bound on the values a sender sends

Thread == Sender \cup Receiver

ChannelConstants ==
    /\ Capacity \in Nat \ {0} /\ MaxSend \in Nat
    /\ IsFiniteSet(Sender) /\ IsFiniteSet(Receiver)
    /\ Sender \cap Receiver = {} /\ NoThread \notin Thread

VARIABLES queue_, is_closed_,
          lock,     \* the thread between its predicate and its sleep, or NoThread
          pc,       \* of a sender or receiver: "idle", "call", "tosleep", "asleep", "failed"
          closer,   \* of Close: "open", "notify_read", "notify_write", "done"
          sent,     \* sent[s]: how many values s has sent; a value is <<s, n>>
          received  \* history: the values returned by Recv, in order

vars == <<queue_, is_closed_, lock, pc, closer, sent, received>>

TypeOK ==
    /\ queue_ \in Seq(Sender \X Nat) /\ is_closed_ \in BOOLEAN
    /\ lock \in Thread \cup {NoThread}
    /\ pc \in [Thread -> {"idle", "call", "tosleep", "asleep", "failed"}]
    /\ closer \in {"open", "notify_read", "notify_write", "done"}
    /\ sent \in [Sender -> Nat]
    /\ received \in Seq(Sender \X Nat)

Init ==
    /\ queue_ = <<>> /\ is_closed_ = FALSE /\ lock = NoThread
    /\ pc = [t \in Thread |-> "idle"]
    /\ closer = "open"
    /\ sent = [s \in Sender |-> 0]
    /\ received = <<>>

Call(t) ==
    /\ pc[t] = "idle" /\ (t \in Sender => sent[t] < MaxSend)
    /\ pc' = [pc EXCEPT ![t] = "call"]
    /\ UNCHANGED <<queue_, is_closed_, lock, closer, sent, received>>

\* The predicate is false: the thread keeps the mutex until it sleeps.
Block(t) == /\ lock' = t
            /\ pc' = [pc EXCEPT ![t] = "tosleep"]
            /\ UNCHANGED <<queue_, is_closed_, closer, sent, received>>

\* condition_variable::wait: release the mutex and sleep, atomically.
Sleep(t) ==
    /\ pc[t] = "tosleep"
    /\ lock' = NoThread
    /\ pc' = [pc EXCEPT ![t] = "asleep"]
    /\ UNCHANGED <<queue_, is_closed_, closer, sent, received>>

\* A condition variable may wake up without a notification.
SpuriousWakeup(t) ==
    /\ pc[t] = "asleep"
    /\ pc' = [pc EXCEPT ![t] = "call"]
    /\ UNCHANGED <<queue_, is_closed_, lock, closer, sent, received>>

\* t goes to l, and notify_one wakes some sleeper of S, if there is one.
LeaveAndNotify(t, l, S) ==
    LET sleepers == {u \in S : pc[u] = "asleep"}
    IN  IF sleepers = {} THEN pc' = [pc EXCEPT ![t] = l]
        ELSE \E u \in sleepers : pc' = [pc EXCEPT ![t] = l, ![u] = "call"]

\* Faulty: no notify_one.
SendSilently(s) ==
    /\ pc[s] = "call" /\ lock = NoThread
    /\ \/ /\ Len(queue_) >= Capacity /\ ~is_closed_
          /\ Block(s)
       \/ /\ is_closed_
          /\ pc' = [pc EXCEPT ![s] = "failed"]
          /\ UNCHANGED <<queue_, is_closed_, lock, closer, sent, received>>
       \/ /\ Len(queue_) < Capacity /\ ~is_closed_
          /\ queue_' = Append(queue_, <<s, sent[s]>>)
          /\ sent' = [sent EXCEPT ![s] = @ + 1]
          /\ pc' = [pc EXCEPT ![s] = "idle"]
          /\ UNCHANGED <<is_closed_, lock, closer, received>>

\* Send, from the lock or from a wake-up: wait while full and open, throw when
\* closed, else push and notify a receiver.
Send(s) ==
    /\ pc[s] = "call" /\ lock = NoThread
    /\ \/ /\ Len(queue_) >= Capacity /\ ~is_closed_
          /\ Block(s)
       \/ /\ is_closed_
          /\ pc' = [pc EXCEPT ![s] = "failed"]
          /\ UNCHANGED <<queue_, is_closed_, lock, closer, sent, received>>
       \/ /\ Len(queue_) < Capacity /\ ~is_closed_
          /\ queue_' = Append(queue_, <<s, sent[s]>>)
          /\ sent' = [sent EXCEPT ![s] = @ + 1]
          /\ LeaveAndNotify(s, "idle", Receiver)
          /\ UNCHANGED <<is_closed_, lock, closer, received>>

\* Faulty: nullopt as soon as the channel is closed.
RecvGivesUp(r) ==
    /\ pc[r] = "call" /\ lock = NoThread
    /\ \/ /\ queue_ = <<>> /\ ~is_closed_
          /\ Block(r)
       \/ /\ is_closed_
          /\ pc' = [pc EXCEPT ![r] = "failed"]
          /\ UNCHANGED <<queue_, is_closed_, lock, closer, sent, received>>
       \/ /\ queue_ # <<>> /\ ~is_closed_
          /\ received' = Append(received, Head(queue_))
          /\ queue_' = Tail(queue_)
          /\ LeaveAndNotify(r, "idle", Sender)
          /\ UNCHANGED <<is_closed_, lock, closer, sent>>

\* Faulty: forgets to pop what it returns.
RecvKeepsFront(r) ==
    /\ pc[r] = "call" /\ lock = NoThread
    /\ \/ /\ queue_ = <<>> /\ ~is_closed_
          /\ Block(r)
       \/ /\ queue_ # <<>>
          /\ received' = Append(received, Head(queue_))
          /\ LeaveAndNotify(r, "idle", Sender)
          /\ UNCHANGED <<queue_, is_closed_, lock, closer, sent>>

\* Recv: wait while empty and open, nullopt when empty and closed, else take the
\* front and notify a sender.
Recv(r) ==
    /\ pc[r] = "call" /\ lock = NoThread
    /\ \/ /\ queue_ = <<>> /\ ~is_closed_
          /\ Block(r)
       \/ /\ queue_ = <<>> /\ is_closed_
          /\ pc' = [pc EXCEPT ![r] = "failed"]
          /\ UNCHANGED <<queue_, is_closed_, lock, closer, sent, received>>
       \/ /\ queue_ # <<>>
          /\ received' = Append(received, Head(queue_))
          /\ queue_' = Tail(queue_)
          /\ LeaveAndNotify(r, "idle", Sender)
          /\ UNCHANGED <<is_closed_, lock, closer, sent>>

\* Close, without the mutex: the flag ...
CloseSet ==
    /\ closer = "open"
    /\ is_closed_' = TRUE
    /\ closer' = "notify_read"
    /\ UNCHANGED <<queue_, lock, pc, sent, received>>

\* ... then notify_all on each condition variable.
WakeAll(S, l) ==
    /\ pc' = [t \in Thread |-> IF t \in S /\ pc[t] = "asleep" THEN "call" ELSE pc[t]]
    /\ closer' = l
    /\ UNCHANGED <<queue_, is_closed_, lock, sent, received>>

CloseNotifyRead == closer = "notify_read" /\ WakeAll(Receiver, "notify_write")

CloseNotifyWrite == closer = "notify_write" /\ WakeAll(Sender, "done")

Step(t) == \/ Sleep(t)
           \/ t \in Sender /\ Send(t)
           \/ t \in Receiver /\ Recv(t)

CloseStep == CloseNotifyRead \/ CloseNotifyWrite

Next == (\E t \in Thread : Call(t) \/ SpuriousWakeup(t) \/ Step(t)) \/ CloseSet \/ CloseStep

Spec == Init /\ [][Next]_vars
-----------------------------------------------------------------------------
In(S, l) == Cardinality({t \in S : pc[t] = l})

\* Receivers asleep while values wait: for each value a receiver has been woken.
\* The same for senders asleep while there is room.  notify_one suffices, also
\* when a newcomer takes the value or the place before the woken thread runs.
NoLostWakeup ==
    /\ In(Receiver, "asleep") > 0 /\ ~is_closed_ => Len(queue_) <= In(Receiver, "call")
    /\ In(Sender, "asleep") > 0 /\ ~is_closed_ => Capacity - Len(queue_) <= In(Sender, "call")

\* The values received, followed by those in the queue.
Accepted == received \o queue_

\* Nothing is lost, duplicated, reordered or made up: every value that was sent has
\* been received or is in the queue, those of one sender stand there in the order in
\* which it sent them, each once, and nothing else does.
DeliversInOrder ==
    /\ \A s \in Sender : \A n \in 0..(sent[s] - 1) :
          \E i \in 1..Len(Accepted) : Accepted[i] = <<s, n>>
    /\ \A i, j \in 1..Len(Accepted) :
          i < j /\ Accepted[i][1] = Accepted[j][1] => Accepted[i][2] < Accepted[j][2]
    /\ \A i \in 1..Len(Accepted) : Accepted[i][2] < sent[Accepted[i][1]]

\* Recv reports the end only when every accepted value has been received: the
\* buffer is drained first, and a closed channel accepts nothing more.
ClosedMeansDrained ==
    (\E r \in Receiver : pc[r] = "failed") => is_closed_ /\ queue_ = <<>>

\* readme.md: once the channel is closed, Recv returns and Send fails; nobody
\* stays asleep in it.
CloseWakesAll == closer = "done" => \A t \in Thread : pc[t] # "asleep"
=============================================================================
