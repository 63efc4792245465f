------------------------------ MODULE MCCactus ------------------------------
(***************************************************************************)
(* The cactus library (tools/cactus), the programs written on it and the   *)
(* coroutine scheduler, model-checked side by side: `which`, chosen at the *)
(* start, says which of them a behaviour is about, and the others keep     *)
(* their initial state.                                                    *)
(***************************************************************************)
EXTENDS Balancer

CONSTANTS Fiber, Main, MaxOps, MaxTime,                                 \* of Fibers
          MaxBytes, Delims, cap_, buffer_size_, kInitialSize, MaxCalls, \* of Streams
          Timer, Deadlines,                                             \* of TimerHeap
          Sockets, Bound, Desc, Null, MaxData, MaxOpen,                 \* of Net
          Client, Key, Word, None, kIntMax, MaxCommands,                \* of Redis, Rpc
          Chain, Tokens, Ports,                                         \* of Socks, Clients
          Task, Horizon                                                 \* of Coroutine

VARIABLES which,
          run_queue_, this_fiber, now_, timers, state_, at, phase, exc, timedout_, canceled_,
          cancel_guarded_, expired, fibers_, joiner_, waiter_, first_error_, object, joining,
          holder, waiters_, wakeup, ops,
          fed, buffer_, pos_, call, want, got, begun, taken, used_, out, copied, overflow, calls,
          heap_, heap_position_,
          Packet, fd_, desc_, reader, writer, free_list_, ptr, edge, data, room, hup, dialing,
          st, slot, rest, opened,
          kv_storage_, conn, wire, reply, element, buf_, name, key, sent, done, written, commands,
          up, down, upEnd, downEnd, dialed, proxy, proxyRelays, failed, socks, hop, badUser,
          sentUp, sentDown, gotUp, gotDown,
          request, caller, asked, back, read, ended, backlog, serving, server, count, executed,
          job, main, canceled, size, fiber, secret_parts, alive, stray, waitError, port, res,
          answer,
          coroutines_, running, state, clock, promise, passed

FI == INSTANCE Fibers
IO == INSTANCE Streams
TH == INSTANCE TimerHeap
NE == INSTANCE Net WITH Conn <- Sockets
RE == INSTANCE Redis
SO == INSTANCE Socks WITH pc <- proxy, relays <- proxyRelays, client <- socks
RP == INSTANCE Rpc WITH client <- caller, sent <- asked, taken <- read, conn <- serving,
                        calls <- executed
CL == INSTANCE Clients WITH pc <- main, first_error_ <- waitError
CO == INSTANCE Coroutine WITH now <- clock, MaxTime <- Horizon

ASSUME InstanceConstants ==
    /\ FI!FiberConstants /\ IO!StreamConstants /\ NE!NetConstants /\ RE!RedisConstants
    /\ SO!SocksConstants /\ CL!ClientConstants /\ TH!HeapConstants /\ CO!CoroutineConstants

fi == <<run_queue_, this_fiber, now_, timers, state_, at, phase, exc, timedout_, canceled_,
        cancel_guarded_, expired, fibers_, joiner_, waiter_, first_error_, object, joining,
        holder, waiters_, wakeup, ops>>
io == <<fed, buffer_, pos_, call, want, got, begun, taken, used_, out, copied, overflow, calls>>
th == <<heap_, heap_position_>>
ne == <<Packet, fd_, desc_, reader, writer, free_list_, ptr, edge, data, room, hup, dialing,
        st, slot, rest, opened>>
re == <<kv_storage_, conn, wire, reply, element, buf_, name, key, sent, done, written, commands>>
so == <<up, down, upEnd, downEnd, dialed, proxy, proxyRelays, failed, socks, hop, badUser,
        sentUp, sentDown, gotUp, gotDown>>
rp == <<request, caller, asked, back, read, ended, backlog, serving, server, count, executed>>
cl == <<job, main, canceled, size, fiber, secret_parts, alive, stray, waitError, port, res,
        answer>>
co == <<coroutines_, running, state, clock, promise, passed>>
all == <<which, vars, fi, io, th, ne, re, so, rp, cl, co>>

\* A part that does not move starts in one of its initial states only.
SuiteInit ==
    /\ which \in {"balancer", "fibers", "streams", "timers", "net", "redis", "socks", "rpc",
                  "clients", "coroutine"}
    /\ Init /\ FI!Init /\ IO!Init /\ TH!Init /\ NE!Init /\ RE!Init /\ SO!Init /\ RP!Init
    /\ CL!Init /\ CO!Init
    /\ which = "streams" \/ buffer_ = <<>>
    /\ which = "net" \/ Packet = {}
    /\ which = "socks" \/ badUser = {}
    /\ which = "rpc" \/ \A c \in Client : request[c] = "served"
    /\ which = "clients" \/ job = "scan"

BalancerNext == which = "balancer" /\ Next /\ UNCHANGED <<which, fi, io, th, ne, re, so, rp, cl, co>>
FibersNext == which = "fibers" /\ FI!Next /\ UNCHANGED <<which, vars, io, th, ne, re, so, rp, cl, co>>
StreamsNext == which = "streams" /\ IO!Next /\ UNCHANGED <<which, vars, fi, th, ne, re, so, rp, cl, co>>
TimersNext == which = "timers" /\ TH!Next /\ UNCHANGED <<which, vars, fi, io, ne, re, so, rp, cl, co>>
NetNext == which = "net" /\ NE!Next /\ UNCHANGED <<which, vars, fi, io, th, re, so, rp, cl, co>>
RedisNext == which = "redis" /\ RE!Next /\ UNCHANGED <<which, vars, fi, io, th, ne, so, rp, cl, co>>
SocksNext == which = "socks" /\ SO!Next /\ UNCHANGED <<which, vars, fi, io, th, ne, re, rp, cl, co>>
RpcNext == which = "rpc" /\ RP!Next /\ UNCHANGED <<which, vars, fi, io, th, ne, re, so, cl, co>>
ClientsNext == which = "clients" /\ CL!Next /\ UNCHANGED <<which, vars, fi, io, th, ne, re, so, rp, co>>
CoroutineNext == which = "coroutine" /\ CO!Next /\ UNCHANGED <<which, vars, fi, io, th, ne, re, so, rp, cl>>

SuiteNext == \/ BalancerNext \/ FibersNext \/ StreamsNext \/ TimersNext \/ NetNext
             \/ RedisNext \/ SocksNext \/ RpcNext \/ ClientsNext \/ CoroutineNext

SuiteSpec == SuiteInit /\ [][SuiteNext]_all
-----------------------------------------------------------------------------
\* A fiber that is parked and not in the run queue has a waker: a timer, a notifier,
\* a fiber it waits for; a free mutex never has only sleeping lockers, though the
\* fiber its wake-up was meant for was canceled or timed out on the way.
NobodyForgotten == FI!NobodyForgotten

\* Nothing refers to a fiber that is dead or deleted, the group outlives its fibers,
\* and Wait ends without an exception only when every fiber of the group is done.
FiberLifetimes == FI!FiberLifetimes

\* No pending time-out outlives its TimeoutGuard to strike a later, unrelated Park,
\* unless it came under a FiberCancelGuard or lost against a cancellation.
TimeoutBelongs == FI!TimeoutBelongs

\* A fiber that waits for a descriptor is woken by the event it waits for, and no two
\* open sockets share a descriptor's slot.
EventsReachWaiters == NE!EventsReachWaiters /\ NE!DescriptorsApart

\* What is read, copied and written through the buffers is what was fed, in order and
\* within the buffers; each call returns what it should, or hangs where Write does.
BytesInOrder == IO!BytesInOrder

\* Timers fire by deadline, whatever was activated and removed before; coroutines are
\* resumed in the order of readme.md: those that have not begun, then by the moment
\* they asked for, past ones too, then by age; and none is lost.
EarliestFirst == TH!EarliestFirst /\ CO!WakesInOrder

\* What a program on the network tells its caller has happened: a redis reply is the
\* one that follows from the last write of the key; a chain of proxies reaches whom it
\* was asked to, and passes on what it is given in order; an rpc that returns was executed
\* once; a fan-out sums every part, a scan and a sequence of knocks report every port.
AnswersMatch == RE!ServerObeys /\ SO!ChainHolds /\ RP!CallsAnswered /\ CL!ClientsReport
=============================================================================
