-------------------------------- MODULE Net --------------------------------
(***************************************************************************)
(* tools/cactus/net: the poller with its descriptors, and the sockets that *)
(* wait on it.  Every connection has one fiber that reads (or accepts, or  *)
(* receives) and one that writes (or dials, or sends).  Fibers run one at  *)
(* a time and only Park lets another run, so what a fiber does up to its   *)
(* Park is one step.  The kernel keeps the level of each socket and, edge- *)
(* triggered, a list of the sockets with something new.                    *)
(***************************************************************************)
EXTENDS Integers, Sequences, SequencesExt, FiniteSetsExt

CONSTANTS Conn, Bound,              \* the sockets; those bound to an address, not dialed
          Desc, Null, MaxData, MaxOpen

\* A descriptor can always be made: there is one for every socket.
NetConstants == /\ Bound \subseteq Conn /\ Null \notin Conn \cup Desc
                /\ IsFiniteSet(Conn) /\ IsFiniteSet(Desc) /\ Cardinality(Conn) <= Cardinality(Desc)

Dir == {"in", "out"}
MaxWrite == 2           \* bound on the bytes of one Write; the kernel has room for 1
Side == Conn \X Dir

VARIABLES
    Packet,             \* which of them are PacketConns; the others are SocketListeners
    fd_,                \* per connection: "none", "dial" (FinishDial), "open" or "closed"
    desc_,              \* the descriptor of its watcher, or Null
    reader, writer,     \* per descriptor, the connection whose fiber waits, or Null
    free_list_,
    ptr, edge,          \* the kernel: data.ptr of registered sockets; sockets with news
    data, room, hup,    \* the kernel: bytes to read, room to write, closed by the peer
    dialing,            \* connect() is in progress
    st, slot, rest,     \* per fiber: what it does, the descriptor it waits on, bytes to write
    opened

kernel == <<ptr, edge, data, room, hup, dialing>>
watch == <<Packet, fd_, desc_, reader, writer, free_list_>>
fibers == <<st, slot, rest>>
vars == <<watch, kernel, fibers, opened>>

Listener == Bound \ Packet

Init == /\ Packet \in SUBSET Bound /\ fd_ = [c \in Conn |-> "none"] /\ desc_ = [c \in Conn |-> Null]
        /\ reader = [d \in Desc |-> Null] /\ writer = [d \in Desc |-> Null] /\ free_list_ = <<>>
        /\ ptr = [c \in Conn |-> Null] /\ edge = {} /\ dialing = {} /\ hup = {}
        /\ data = [c \in Conn |-> 0] /\ room = [c \in Conn |-> 1]
        /\ st = [f \in Side |-> "idle"] /\ slot = [f \in Side |-> Null] /\ rest = [f \in Side |-> 0]
        /\ opened = 0

Level(c) == IF c \in dialing THEN {}
            ELSE {d \in Dir : c \in hup \/ (d = "in" /\ data[c] > 0) \/ (d = "out" /\ room[c] > 0)}
News(c) == edge' = edge \cup {c}
Busy(c) == \E d \in Dir : st[<<c, d>>] # "idle"
-----------------------------------------------------------------------------
\* The kernel and the peer.
Arrive(c) == /\ ptr[c] # Null /\ c \notin dialing \cup hup /\ data[c] < MaxData
             /\ data' = [data EXCEPT ![c] = @ + 1] /\ News(c)
             /\ UNCHANGED <<watch, ptr, room, hup, dialing, fibers, opened>>

Drain(c) == /\ ptr[c] # Null /\ c \notin dialing \cup hup /\ room[c] = 0
            /\ room' = [room EXCEPT ![c] = 1] /\ News(c)
            /\ UNCHANGED <<watch, ptr, data, hup, dialing, fibers, opened>>

Hangup(c) == /\ ptr[c] # Null /\ c \notin hup \cup Listener
             /\ hup' = hup \cup {c} /\ dialing' = dialing \ {c} /\ News(c)
             /\ UNCHANGED <<watch, ptr, data, room, fibers, opened>>

Connected(c) == /\ c \in dialing /\ dialing' = dialing \ {c} /\ News(c)
                /\ UNCHANGED <<watch, ptr, data, room, hup, fibers, opened>>

\* Poller::Poll: the sockets with news are reported with their present level; a
\* fiber that waits for it is unparked and its place cleared.
Reported(d, dir) == \E c \in edge : ptr[c] = d /\ dir \in Level(c)

Poll == /\ edge # {} /\ edge' = {}
        /\ reader' = [d \in Desc |-> IF Reported(d, "in") THEN Null ELSE reader[d]]
        /\ writer' = [d \in Desc |-> IF Reported(d, "out") THEN Null ELSE writer[d]]
        /\ st' = [f \in Side |->
                    IF st[f] = "waiting" /\ Reported(slot[f], f[2])
                       /\ f[1] = (IF f[2] = "in" THEN reader ELSE writer)[slot[f]]
                    THEN "woken" ELSE st[f]]
        /\ UNCHANGED <<Packet, fd_, desc_, free_list_, ptr, data, room, hup, dialing, slot, rest, opened>>
-----------------------------------------------------------------------------
\* FDWatcher::Init of a new socket: NewDesc and epoll_ctl, which may fail; then the
\* descriptor goes back, desc_ keeps it, and the constructor closes the socket.
NewDesc == IF free_list_ # <<>> THEN Head(free_list_) ELSE CHOOSE d \in Desc : \A c \in Conn : ptr[c] # d
Rest == IF free_list_ # <<>> THEN Tail(free_list_) ELSE <<>>

InitWatcher(c, state) ==
    /\ desc_' = [desc_ EXCEPT ![c] = NewDesc]
    /\ \/ /\ fd_' = [fd_ EXCEPT ![c] = state] /\ ptr' = [ptr EXCEPT ![c] = NewDesc]
          /\ free_list_' = Rest /\ edge' = edge \cup {c}
       \/ /\ fd_' = [fd_ EXCEPT ![c] = "closed"] /\ UNCHANGED <<ptr, edge>>
          /\ free_list_' = <<NewDesc>> \o Rest

Fresh(c) == fd_[c] \in {"none", "closed"} /\ ~Busy(c) /\ opened < MaxOpen /\ opened' = opened + 1

\* A socket is made and bound: SocketListener, PacketConn.
Bind(c) == /\ Fresh(c) /\ InitWatcher(c, "open")
           /\ UNCHANGED <<Packet, reader, writer, data, room, hup, dialing, fibers>>
ListenTCP(c) == c \in Listener /\ Bind(c)
ListenUDP(c) == c \in Packet /\ Bind(c)

WaitOn(f, d) ==
    /\ st' = [st EXCEPT ![f] = "waiting"] /\ slot' = [slot EXCEPT ![f] = d]
    /\ IF f[2] = "in" THEN reader' = [reader EXCEPT ![d] = f[1]] /\ UNCHANGED writer
                      ELSE writer' = [writer EXCEPT ![d] = f[1]] /\ UNCHANGED reader

\* DialTCP: the socket, connect() and FinishDial up to its Park.
Dial(c) == /\ Fresh(c) /\ c \notin Bound /\ InitWatcher(c, "dial")
           /\ IF fd_'[c] = "dial" THEN dialing' = dialing \cup {c} /\ WaitOn(<<c, "out">>, desc_'[c])
                                  ELSE UNCHANGED <<dialing, reader, writer, st, slot>>
           /\ UNCHANGED <<Packet, data, room, hup, rest>>

\* FDWatcher::Wait after EAGAIN: the fiber takes its place in the descriptor and parks.
Wait(f) == WaitOn(f, desc_[f[1]])

\* Close: Reset wakes who waits and gives the descriptor back, then the socket is closed.
Reset(c) ==
    LET d == desc_[c] IN
    /\ desc_' = [desc_ EXCEPT ![c] = Null] /\ free_list_' = <<d>> \o free_list_
    /\ reader' = [reader EXCEPT ![d] = Null] /\ writer' = [writer EXCEPT ![d] = Null]
    /\ ptr' = [ptr EXCEPT ![c] = Null] /\ edge' = edge \ {c} /\ dialing' = dialing \ {c}
    /\ fd_' = [fd_ EXCEPT ![c] = "closed"]
    /\ data' = [data EXCEPT ![c] = 0] /\ room' = [room EXCEPT ![c] = 1] /\ hup' = hup \ {c}

CloseFd(c) ==
    /\ fd_[c] = "open" /\ Reset(c)
    /\ st' = [f \in Side |-> IF f[1] = c /\ st[f] = "waiting" THEN "woken" ELSE st[f]]
    /\ UNCHANGED <<Packet, slot, rest, opened>>
Close(c) == c \notin Bound /\ CloseFd(c)
CloseListener(c) == c \in Listener /\ CloseFd(c)
ClosePacket(c) == c \in Packet /\ CloseFd(c)
-----------------------------------------------------------------------------
\* The end of Park: its cleanup, if the watcher still has a descriptor.
Clear(f) == IF f[2] = "in" THEN reader' = [reader EXCEPT ![slot[f]] = Null] /\ UNCHANGED writer
                           ELSE writer' = [writer EXCEPT ![slot[f]] = Null] /\ UNCHANGED reader

ClearsAnyway(f) ==              \* mutant: the cleanup does not look at desc_
    IF slot[f] = Null THEN UNCHANGED <<reader, writer>> ELSE Clear(f)
Cleanup(f) ==
    IF slot[f] = Null \/ desc_[f[1]] = Null THEN UNCHANGED <<reader, writer>> ELSE Clear(f)

Done(f) == st' = [st EXCEPT ![f] = "idle"] /\ slot' = [slot EXCEPT ![f] = Null] /\ Cleanup(f)

Closed(f) ==                    \* back from Wait: "socket was closed"
    /\ st[f] = "woken" /\ desc_[f[1]] = Null /\ Done(f)
    /\ UNCHANGED <<Packet, fd_, desc_, free_list_, kernel, rest, opened>>

Interrupt(f) ==                 \* FiberCanceledException or TimeoutException out of Park
    /\ st[f] \in {"waiting", "woken"} /\ fd_[f[1]] # "dial" /\ Done(f)
    /\ UNCHANGED <<Packet, fd_, desc_, free_list_, kernel, rest, opened>>

\* FinishDial after its Park: SO_ERROR is 0 and the connection is handed out.
FinishDial(c) ==
    /\ st[<<c, "out">>] = "woken" /\ fd_[c] = "dial" /\ c \notin hup /\ Done(<<c, "out">>)
    /\ fd_' = [fd_ EXCEPT ![c] = "open"]
    /\ UNCHANGED <<Packet, desc_, free_list_, kernel, rest, opened>>

\* It failed, was canceled or timed out: the exception destroys the socket.
DialFailed(c) ==
    /\ st[<<c, "out">>] \in {"waiting", "woken"} /\ fd_[c] = "dial" /\ Reset(c)
    /\ st' = [st EXCEPT ![<<c, "out">>] = "idle"] /\ slot' = [slot EXCEPT ![<<c, "out">>] = Null]
    /\ UNCHANGED <<Packet, rest, opened>>

\* A fiber calls read(), accept4() or send(): at the beginning of an operation, or in
\* its loop when it is back from Wait and the socket is still open.
Tries(c, d) == fd_[c] = "open" /\ st[<<c, d>>] \in {"idle", "woken"}

\* read() and recvfrom() take up to most of what there is, or the end of the stream.
Receive(c, most) ==
    LET f == <<c, "in">> IN
    /\ Tries(c, "in") /\ UNCHANGED <<Packet, fd_, desc_, free_list_, ptr, edge, room, hup, dialing, rest, opened>>
    /\ \/ /\ data[c] > 0 /\ Done(f)
          /\ \E n \in 1..most : data' = [data EXCEPT ![c] = @ - n]
       \/ data[c] = 0 /\ c \in hup /\ Done(f) /\ UNCHANGED data
       \/ data[c] = 0 /\ c \notin hup /\ Wait(f) /\ UNCHANGED data
Read(c) == c \notin Bound /\ Receive(c, data[c])
RecvFrom(c) == c \in Packet /\ Receive(c, 1)

\* SocketListener::Accept: the connection it returns is another socket to watch.
Accept(l) ==
    LET f == <<l, "in">> IN
    /\ Tries(l, "in") /\ l \in Listener /\ UNCHANGED <<Packet, dialing, rest>>
    /\ \/ /\ data[l] > 0 /\ Done(f)
          /\ \E c \in Conn \ (Bound) :
                /\ Fresh(c) /\ InitWatcher(c, "open")
                /\ data' = [data EXCEPT ![l] = @ - 1]
          /\ UNCHANGED <<room, hup>>
       \/ /\ data[l] = 0 /\ Wait(f)
          /\ UNCHANGED <<fd_, desc_, free_list_, ptr, edge, data, room, hup, opened>>

\* send() takes what there is room for, and Write goes on until the rest is sent; a
\* datagram goes as a whole.
Send(c, most) ==
    LET f == <<c, "out">> IN
    /\ Tries(c, "out") /\ UNCHANGED <<Packet, fd_, desc_, free_list_, ptr, edge, data, hup, dialing, opened>>
    /\ \E n \in IF st[f] = "woken" THEN {rest[f]} ELSE 1..most :
          /\ rest' = [rest EXCEPT ![f] = IF c \in hup THEN 0 ELSE n - Min({n, room[c]})]
          /\ room' = [room EXCEPT ![c] = IF c \in hup THEN @ ELSE @ - Min({n, room[c]})]
          /\ IF rest'[f] = 0 THEN Done(f) ELSE Wait(f)
Write(c) == c \notin Bound /\ Send(c, MaxWrite)
SendTo(c) == c \in Packet /\ Send(c, 1)

Step(f) == Closed(f) \/ Interrupt(f)

Next == \/ Poll
        \/ \E c \in Conn : Arrive(c) \/ Drain(c) \/ Hangup(c) \/ Connected(c)
              \/ ListenTCP(c) \/ ListenUDP(c) \/ Dial(c) \/ Close(c) \/ CloseListener(c) \/ ClosePacket(c)
              \/ FinishDial(c) \/ DialFailed(c) \/ Read(c) \/ RecvFrom(c) \/ Accept(c) \/ Write(c) \/ SendTo(c)
        \/ \E f \in Side : Step(f)

Spec == Init /\ [][Next]_vars
-----------------------------------------------------------------------------
\* A fiber that waits for a socket stands in the descriptor the kernel knows the
\* socket by, and when there is something for it the kernel still has to report it:
\* no edge is lost between EAGAIN and Park, or to a recycled descriptor.
EventsReachWaiters ==
    \A f \in Side : st[f] = "waiting" =>
        /\ slot[f] = desc_[f[1]] /\ slot[f] = ptr[f[1]]
        /\ f[1] = (IF f[2] = "in" THEN reader ELSE writer)[slot[f]]
        /\ f[2] \in Level(f[1]) => f[1] \in edge

\* A descriptor belongs to one open socket, or is in the free list once and nobody
\* waits in it.
DescriptorsApart ==
    /\ \A c, e \in Conn : c # e /\ ptr[c] # Null => ptr[c] # ptr[e]
    /\ \A c \in Conn : ptr[c] # Null => ptr[c] = desc_[c] /\ ptr[c] \notin ToSet(free_list_)
    /\ IsInjective(free_list_)
    /\ \A d \in ToSet(free_list_) : reader[d] = Null /\ writer[d] = Null
=============================================================================
