---------------------------- MODULE EpollReactor ----------------------------
(***************************************************************************)
(* Reactor/Cpp98: a server that accepts connections and echoes what it     *)
(* reads, one thread around epoll_wait, and its client main_client.cpp,    *)
(* which connects, writes and closes.                                      *)
(*                                                                         *)
(* The kernel is modelled from its documented behaviour: the backlog, the  *)
(* lowest free descriptor is used next, a close takes a descriptor out of  *)
(* the epoll set, and, edge-triggered, one event for what arrives before   *)
(* the next epoll_wait.  A client that closes before it has the echo, or   *)
(* without reading it, resets the connection.  regist leaves the other     *)
(* bits of ev.events uninitialised: EPOLLOUT, EPOLLONESHOT or both may be  *)
(* set, or a bit that makes epoll_ctl refuse the call.                     *)
(***************************************************************************)
EXTENDS Integers, FiniteSets, FiniteSetsExt, Sequences

CONSTANTS MaxConns,       \* connections that clients make
          MaxFds,         \* descriptors the server may have for them
          EventListSize   \* events it first has room for (16 in the code)

VARIABLES client,     \* what each client has done last
          backlog,    \* connections to be accepted, the oldest first
          socket,     \* the connection behind each descriptor, or 0
          unread, fin, reset,   \* connections with data, an end, a reset to be read
          echoed,     \* connections whose data was read and written back
          mode,       \* how each descriptor is registered
          ready,      \* descriptors with an edge to be reported
          _handlers,  \* descriptors with a handler
          batch,      \* reported events that are still to be dispatched
          size,       \* of _events
          stalled,    \* the thread is stuck inside accept or read
          killed,     \* by SIGPIPE
          merged, failed   \* history: connections without an edge of their own,
                           \* and calls of accept that failed

kernel == <<backlog, socket, unread, fin, reset, echoed>>
poll == <<mode, ready>>
server == <<_handlers, batch, size, stalled, killed>>
history == <<merged, failed>>
vars == <<client, kernel, poll, server, history>>

\* listenfd, and those of the connections, which are numbered as they are made
Listen == 0
Conns == 1 .. MaxConns
Fds == 1 .. MaxFds
\* What regist may leave in ev.events next to EPOLLIN.  The first event of a one-shot
\* registration disarms it, whatever was reported.
Modes == {"in", "out", "oneshot", "out_oneshot", "refused"}
WantsOut(f) == mode[f] \in {"out", "out_oneshot"}
OneShot(f) == mode[f] \in {"oneshot", "out_oneshot"}
Watched(f) == mode[f] \in Modes \ {"refused"}

\* main: listen, and registHandler of the ListenHandler
Init ==
  /\ client = [c \in Conns |-> "off"] /\ backlog = <<>> /\ socket = [f \in Fds |-> 0]
  /\ unread = {} /\ fin = {} /\ reset = {} /\ echoed = {}
  /\ \E m \in Modes : mode = [f \in {Listen} \cup Fds |-> IF f = Listen THEN m ELSE "off"]
  /\ ready = {} /\ _handlers = {Listen} /\ batch = {} /\ size = EventListSize
  /\ stalled = FALSE /\ killed = FALSE /\ merged = 0 /\ failed = 0

-----------------------------------------------------------------------------
\* Something arrives for a connection.
Edge(c) == ready' = ready \cup {f \in Fds : socket[f] = c /\ Watched(f)}

\* main_client: connect; the kernel queues the connection.
Connect(c) ==
  /\ client[c] = "off" /\ \A d \in 1 .. c - 1 : client[d] # "off"
  /\ client' = [client EXCEPT ![c] = "connected"]
  /\ backlog' = Append(backlog, c)
  /\ ready' = ready \cup {f \in {Listen} : Watched(f)}
  /\ merged' = IF Listen \in ready' \ ready THEN merged ELSE merged + 1
  /\ UNCHANGED <<socket, unread, fin, reset, echoed, mode, server, failed>>

\* write
Write(c) ==
  /\ client[c] = "connected" /\ client' = [client EXCEPT ![c] = "written"]
  /\ unread' = unread \cup {c} /\ Edge(c)
  /\ UNCHANGED <<backlog, socket, fin, reset, echoed, mode, server, history>>

\* close, with nothing or with the echo unread
Close(c) ==
  /\ client[c] = "written" /\ client' = [client EXCEPT ![c] = "closed"]
  /\ IF c \in echoed THEN reset' = reset \cup {c} /\ UNCHANGED fin
     ELSE fin' = fin \cup {c} /\ UNCHANGED reset
  /\ Edge(c)
  /\ UNCHANGED <<backlog, socket, unread, echoed, mode, server, history>>

\* The echo reaches a client that has closed.
Refuse(c) ==
  /\ client[c] = "closed" /\ c \in echoed \ reset
  /\ reset' = reset \cup {c} /\ Edge(c)
  /\ UNCHANGED <<client, backlog, socket, unread, fin, echoed, mode, server, history>>

\* There is room again to write: an edge where EPOLLOUT happens to be set
Writable(f) ==
  /\ f \in Fds \ ready /\ WantsOut(f) /\ ready' = ready \cup {f}
  /\ UNCHANGED <<client, kernel, mode, server, history>>

Network == (\E c \in Conns : Connect(c) \/ Refuse(c)) \/ (\E f \in Fds : Writable(f))
Client(c) == Write(c) \/ Close(c)

-----------------------------------------------------------------------------
Readable(f) == IF f = Listen THEN backlog # <<>> ELSE socket[f] \in unread \cup fin \cup reset
Error(f) == f # Listen /\ socket[f] \in reset
Event(f) == <<f, IF Error(f) THEN "error" ELSE IF Readable(f) THEN "in" ELSE "out">>
Reportable == {f \in ready : Readable(f) \/ WantsOut(f)}

\* A loop over the events that stops after the first one
WaitFirst ==
  /\ batch = {} /\ Reportable # {}
  /\ \E f \in Reportable : batch' = {Event(f)}
  /\ ready' = ready \ Reportable
  /\ UNCHANGED <<client, kernel, mode, _handlers, size, stalled, killed, history>>

\* epollPoller::waitEvent: epoll_wait, for as many events as _events has room for; it
\* is enlarged when it was full.
WaitEvent ==
  /\ batch = {} /\ Reportable # {}
  /\ \E s \in SUBSET Reportable :
       /\ Cardinality(s) = (IF Cardinality(Reportable) < size THEN Cardinality(Reportable) ELSE size)
       /\ batch' = {Event(f) : f \in s} /\ ready' = ready \ s
       /\ mode' = [f \in DOMAIN mode |-> IF f \in s /\ OneShot(f) THEN "disarmed" ELSE mode[f]]
       /\ size' = IF Cardinality(s) = size THEN 2 * size ELSE size
  /\ UNCHANGED <<client, kernel, _handlers, stalled, killed, history>>

Dispatched(e) == e \in batch /\ batch' = batch \ {e}

\* handleError and handleWirte do nothing, of either handler.
HandleNothing ==
  /\ \E e \in batch : e[2] \in {"error", "out"} /\ Dispatched(e)
  /\ UNCHANGED <<client, kernel, poll, _handlers, size, stalled, killed, history>>

\* A registHandler that takes a descriptor it knows for a registered one
RegistOnce(f, c) ==
  /\ _handlers' = _handlers \cup {f}
  /\ IF f \in _handlers THEN UNCHANGED poll
     ELSE /\ mode' = [mode EXCEPT ![f] = "in"]
          /\ ready' = IF c \in unread \cup fin THEN ready \cup {f} ELSE ready

\* Dispatcher::registHandler and epollPoller::regist: an old handler of the descriptor
\* stays.  epoll_ctl reports what has arrived already, and its failure is ignored.
RegistHandler(f, c) ==
  /\ _handlers' = _handlers \cup {f}
  /\ \E m \in Modes :
       /\ mode' = [mode EXCEPT ![f] = m]
       /\ ready' = IF m \in {"out", "out_oneshot"} \/ (m # "refused" /\ c \in unread \cup fin)
                   THEN ready \cup {f} ELSE ready

\* accept and registHandler
Accept ==
  LET f == Min({g \in Fds : socket[g] = 0})
  IN /\ socket' = [socket EXCEPT ![f] = Head(backlog)] /\ backlog' = Tail(backlog)
     /\ RegistHandler(f, Head(backlog))

\* A handleRead that accepts until there is nothing left, on a socket that blocks
AcceptAll ==
  /\ Dispatched(<<Listen, "in">>) /\ stalled' = TRUE
  /\ UNCHANGED <<client, kernel, poll, _handlers, size, killed, history>>

\* ListenHandler::handleRead: one connection; accept fails without a descriptor for it,
\* and waits without a connection.
HandleListen ==
  /\ Dispatched(<<Listen, "in">>)
  /\ IF backlog = <<>> THEN stalled' = TRUE /\ UNCHANGED <<socket, backlog, poll, _handlers, failed>>
     ELSE IF \A f \in Fds : socket[f] # 0
     THEN failed' = failed + 1 /\ UNCHANGED <<socket, backlog, poll, _handlers, stalled>>
     ELSE Accept /\ UNCHANGED <<stalled, failed>>
  /\ UNCHANGED <<client, unread, fin, reset, echoed, size, killed, merged>>

\* ClientHandler::handleRead: data are written back,
Echo(f) ==
  /\ Dispatched(<<f, "in">>) /\ socket[f] \in unread \ reset
  /\ unread' = unread \ {socket[f]} /\ echoed' = echoed \cup {socket[f]}
  /\ UNCHANGED <<client, backlog, socket, fin, reset, poll, _handlers, size, stalled, killed, history>>

\* the end closes the descriptor, whose handler stays,
EndOfFile(f) ==
  /\ Dispatched(<<f, "in">>) /\ socket[f] \in fin \ (unread \cup reset)
  /\ socket' = [socket EXCEPT ![f] = 0]
  /\ mode' = [mode EXCEPT ![f] = "off"] /\ ready' = ready \ {f}
  /\ UNCHANGED <<client, backlog, unread, fin, reset, echoed, _handlers, size, stalled, killed, history>>

\* the -1 after a reset counts as data: nothing is written to a connection that is
\* gone, which may raise SIGPIPE.
ReadFailed(f) ==
  /\ Dispatched(<<f, "in">>) /\ socket[f] \in reset
  /\ killed' \in BOOLEAN
  /\ UNCHANGED <<client, kernel, poll, _handlers, size, stalled, history>>

Server == /\ ~stalled /\ ~killed
          /\ \/ WaitEvent \/ HandleNothing \/ HandleListen
             \/ \E f \in Fds : Echo(f) \/ EndOfFile(f) \/ ReadFailed(f)

Next == (\E c \in Conns : Client(c)) \/ Network \/ Server

-----------------------------------------------------------------------------
TypeOK ==
  /\ client \in [Conns -> {"off", "connected", "written", "closed"}]
  /\ backlog \in Seq(Conns) /\ socket \in [Fds -> Conns \cup {0}]
  /\ UNION {unread, fin, reset, echoed} \subseteq Conns
  /\ mode \in [{Listen} \cup Fds -> Modes \cup {"off", "disarmed"}]
  /\ ready \subseteq {f \in {Listen} \cup Fds : Watched(f)}
  /\ _handlers \subseteq {Listen} \cup Fds /\ size \in Nat
  /\ batch \subseteq ({Listen} \cup Fds) \X {"in", "out", "error"}
  /\ {stalled, killed} \subseteq BOOLEAN /\ {merged, failed} \subseteq Nat

NeverStalls ==
  ~stalled /\ \A e \in batch : e[2] = "in" => Readable(e[1])

HandlerKnown == \A e \in batch : e[1] \in _handlers

LeftBehind ==
  mode[Listen] = "in" =>
    Len(backlog) = merged + failed + Cardinality({Listen} \cap ready)
                   + Cardinality({<<Listen, "in">>} \cap batch)

\* Data on an accepted connection, and what may come of it
Waiting(c) == \E f \in Fds : socket[f] = c /\ c \in unread
\* The uninitialised bits had the registration refused, or disarmed by an event that
\* was not about the data.
Deaf(c) == \E f \in Fds :
  /\ socket[f] = c
  /\ mode[f] = "refused" \/ (mode[f] = "disarmed" /\ <<f, "in">> \notin batch)
Answered(c) == c \in echoed \/ killed \/ Deaf(c)
=============================================================================
