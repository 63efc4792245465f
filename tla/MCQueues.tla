------------------------------ MODULE MCQueues ------------------------------
(***************************************************************************)
(* The queues, model-checked side by side, like the locks of MCLocks: the  *)
(* ring of fast-queue (extended), the buffered channel and the stand-alone *)
(* timer queue (instantiated).                                             *)
(***************************************************************************)
EXTENDS MPMCQueue

CONSTANTS Sender, Receiver, NoThread, Capacity, MaxSend,    \* of the channel
          Popper, Item, Times, Patience, MaxTime            \* of the timer queue

VARIABLES which,
          buffer, is_closed_, lock, chanPc, closer, sent, received,
          timers, now, popPc, deadline, since, added, popped

BC == INSTANCE BufferedChannel WITH queue_ <- buffer, pc <- chanPc
TQ == INSTANCE TimerQueue WITH queue_ <- timers, pc <- popPc

ASSUME InstanceConstants == BC!ChannelConstants /\ TQ!TimerQueueConstants

bc == <<buffer, is_closed_, lock, chanPc, closer, sent, received>>
tq == <<timers, now, popPc, deadline, since, added, popped>>
all == <<which, vars, bc, tq>>

SuiteInit == /\ which \in {"fast-queue", "buffered-channel", "timerqueue"}
             /\ Init /\ BC!Init /\ TQ!Init

RingNext == which = "fast-queue" /\ Next /\ UNCHANGED <<which, bc, tq>>
ChanNext == which = "buffered-channel" /\ BC!Next /\ UNCHANGED <<which, vars, tq>>
TimerNext == which = "timerqueue" /\ TQ!Next /\ UNCHANGED <<which, vars, bc>>

SuiteNext == RingNext \/ ChanNext \/ TimerNext

SuiteSpec == SuiteInit /\ [][SuiteNext]_all
-----------------------------------------------------------------------------
\* No thread sleeps in the buffered channel unless a wake-up is on its way.
NoIdleSleeper == BC!NoLostWakeup

\* The buffered channel loses, repeats and reorders nothing.
DeliversInOrder == BC!DeliversInOrder

\* Recv reports the end only after the last value.
ClosedMeansDrained == BC!ClosedMeansDrained

\* The timer queue returns an element before its time, or takes the front of an empty
\* map, only in a Pop that has waited the 10 s of an empty queue or whose awaited
\* element another consumer took.
OnTimeOrOutOfPatience == TQ!OnTimeOrOutOfPatience
=============================================================================
