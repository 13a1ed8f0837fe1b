------------------------------ MODULE Reactors ------------------------------
(***************************************************************************)
(* The repository's own reactors, of which the first state picks one: the  *)
(* two on threads and the one on epoll.  A program leaves the variables it *)
(* does not have alone.                                                    *)
(***************************************************************************)
EXTENDS Integers

CONSTANTS StopFirst, StopLast, Rounds, MaxConns, MaxFds, EventListSize

ASSUME RoundsAssumption ==
  /\ {StopFirst, StopLast, Rounds} \subseteq Nat
  /\ 0 < StopFirst /\ StopFirst <= StopLast /\ StopLast < Rounds
ASSUME SocketsAssumption == {MaxConns, MaxFds, EventListSize} \subseteq Nat \ {0}

VARIABLES program, count, main, msg_ptr, old, fresh_msg, msg_queue, deleted,
          event_loop_start, loop, msg, handler_map, latest, called,
          undefined,
          client, backlog, socket, unread, fin, reset, echoed, mode, ready, _handlers,
          batch, size, stalled, killed, merged, failed

messages == <<program, count, main, msg_ptr, old, fresh_msg, msg_queue, deleted,
              event_loop_start, loop, msg, handler_map, latest,
              called, undefined>>
connections == <<client, backlog, socket, unread, fin, reset, echoed, mode, ready,
                 _handlers, batch, size, stalled, killed, merged, failed>>
vars == <<messages, connections>>

Threaded == INSTANCE MessageReactor
Epoll == INSTANCE EpollReactor

OnEpoll == program = "epoll"

InitThreaded ==
  /\ Threaded!Init /\ Epoll!Init /\ mode[Epoll!Listen] = "refused"
InitEpoll ==
  /\ OnEpoll /\ Epoll!Init
  /\ count = 0 /\ main = "send" /\ msg_ptr = 0 /\ old = 0 /\ fresh_msg = 0
  /\ msg_queue = <<>> /\ deleted = {} /\ event_loop_start = TRUE /\ loop = "start"
  /\ msg = 0 /\ handler_map = {} /\ latest = 0 /\ called = {}
  /\ undefined = FALSE
Init == InitThreaded \/ InitEpoll

Main == ~OnEpoll /\ Threaded!Main /\ UNCHANGED connections
MessageLoop == ~OnEpoll /\ Threaded!MessageLoop /\ UNCHANGED connections
Spurious == ~OnEpoll /\ Threaded!Spurious /\ UNCHANGED connections
Server == OnEpoll /\ Epoll!Server /\ UNCHANGED messages
Network ==
  OnEpoll /\ (Epoll!Network \/ \E c \in Epoll!Conns : Epoll!Client(c)) /\ UNCHANGED messages

Next == Main \/ MessageLoop \/ Spurious \/ Server \/ Network

\* The reactors' threads run; nothing is assumed about their clients and the network.
Fairness == WF_vars(Main) /\ WF_vars(MessageLoop) /\ WF_vars(Server)

Spec == Init /\ [][Next]_vars /\ Fairness

-----------------------------------------------------------------------------
TypeOK == IF OnEpoll THEN Epoll!TypeOK ELSE Threaded!TypeOK

\* Reactor/Cpp11 and Cpp11queue: messages are parsed in the order in which they were
\* sent, at most once each, and the queue loses none.  A message that is sent after
\* RemoveEventHandler has returned for its user and type calls nobody, however long it
\* waits in the loop's hands.
Handled == ~OnEpoll => Threaded!InOrder /\ Threaded!RemovedIsSilent

\* main joins its thread and ends, unless memory was used after it was freed, the
\* restart set the flag before the old loop had seen it cleared, or the queue was empty
\* at the end, for which the waiting loop does not look at the flag.
Ends == <>[](OnEpoll \/ Threaded!Over)

\* Reactor/Cpp98: the one thread never waits inside accept or read, although no socket
\* is non-blocking: every event still to be dispatched finds what it was reported for.
\* And it finds its handler (EpollPoller.cpp:26 and 30, assert(handlers[handle] != NULL)),
\* while descriptors are closed and used again without their handlers being told.
Dispatches == OnEpoll => Epoll!NeverStalls /\ Epoll!HandlerKnown

\* ListenHandler accepts once for each event: a connection stays in the backlog only if
\* its arrival was merged with another one, or if accept had no descriptor for it.
LeftBehind == OnEpoll => Epoll!LeftBehind

\* What arrives on an accepted connection is read and echoed, also when its descriptor
\* was used before.  The exceptions are the fault of regist (EpollPoller.cpp:48), whose
\* uninitialised bits may get the registration refused or make it a one-shot one, which
\* an event for room to write disarms before the data come.
Served == \A c \in Epoll!Conns :
  (OnEpoll /\ Epoll!Waiting(c)) ~> (OnEpoll /\ Epoll!Answered(c))
=============================================================================
