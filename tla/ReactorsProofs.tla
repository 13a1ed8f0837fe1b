--------------------------- MODULE ReactorsProofs ---------------------------
(***************************************************************************)
(* The reactors, for any number of rounds, connections, descriptors and    *)
(* events: types, the order of messages and the silence of removed         *)
(* handlers, and what the server finds for the events it dispatches.       *)
(***************************************************************************)
EXTENDS Reactors, FiniteSets, FiniteSetTheorems, SequenceTheorems,
        WellFoundedInduction, TLAPS

(***************************************************************************)
(* Reactor/Cpp98.  A connection is in one place: not yet made, in the      *)
(* backlog, or behind one descriptor.                                      *)
(***************************************************************************)
Ports == {Epoll!Listen} \cup Epoll!Fds

Connected ==
  /\ client \in [Epoll!Conns -> {"off", "connected", "written", "closed"}]
  /\ backlog \in Seq(Epoll!Conns) /\ socket \in [Epoll!Fds -> Epoll!Conns \cup {0}]
  /\ \A i, j \in 1 .. Len(backlog) : backlog[i] = backlog[j] => i = j
  /\ \A i \in 1 .. Len(backlog) :
       client[backlog[i]] # "off" /\ \A f \in Epoll!Fds : socket[f] # backlog[i]
  /\ \A f \in Epoll!Fds : socket[f] # 0 => client[socket[f]] # "off"
  /\ \A f, g \in Epoll!Fds : socket[f] = socket[g] /\ socket[f] # 0 => f = g

\* What has arrived and what was answered
Arrived ==
  /\ unread \subseteq Epoll!Conns /\ fin \subseteq Epoll!Conns
  /\ reset \subseteq Epoll!Conns /\ echoed \subseteq Epoll!Conns

\* A descriptor with an edge is watched, a watched one is in use and has a handler, and
\* so has one with an event; each has one event at most.
Polled ==
  /\ mode \in [Ports -> Epoll!Modes \cup {"off", "disarmed"}]
  /\ ready \subseteq Ports /\ \A f \in ready : Epoll!Watched(f)
  /\ \A f \in Epoll!Fds : socket[f] = 0 => mode[f] = "off"
  /\ _handlers \subseteq Ports
  /\ \A f \in Ports : Epoll!Watched(f) => f \in _handlers
  /\ batch \subseteq Ports \X {"in", "out", "error"}
  /\ \A e \in batch : e[1] \in _handlers
  /\ \A d, e \in batch : d[1] = e[1] => d = e

\* Everything an event was reported for is still there.
Found ==
  /\ stalled = FALSE /\ killed \in BOOLEAN
  /\ \A e \in batch : e[2] = "in" => Epoll!Readable(e[1])

\* The edges and events of listenfd, of which it has one or none
Edges == IF Epoll!Listen \in ready THEN 1 ELSE 0
Events == IF <<Epoll!Listen, "in">> \in batch THEN 1 ELSE 0
Counted ==
  /\ size \in Nat /\ merged \in Nat /\ failed \in Nat
  /\ mode[Epoll!Listen] = "in" =>
       Len(backlog) = merged + failed + Edges + Events

EpollInv == Connected /\ Arrived /\ Polled /\ Found /\ Counted

(***************************************************************************)
(* Reactor/Cpp11 and Cpp11queue.                                           *)
(***************************************************************************)
\* main's rounds, and the message it has made in each
Newest == IF count <= 1 THEN 0 ELSE count - 1
Rounded ==
  /\ count \in Int /\ -4 <= count /\ count <= Rounds + 1
  /\ main \in {"register", "send", "store", "delete", "prepare", "remove", "control",
               "join", "last", "exit", "over"}
  /\ (main = "register" <=> count < 0)
  /\ (main \in {"remove", "control", "join", "last", "exit", "over"} =>
       count > 0 /\ msg_ptr = count)
  /\ msg_ptr \in Int /\ -2 <= msg_ptr /\ msg_ptr # -1 /\ msg_ptr <= Rounds + 1
  /\ (program = "queue" => main \notin {"store", "delete"} /\ msg_ptr # -2)
  /\ (main \in {"register", "send", "store", "delete", "prepare"} => msg_ptr \in {-2, Newest})

\* A message that the loop uses is none of the pointers that are null.
Kept ==
  /\ old \in Threaded!Messages \cup {-2} /\ fresh_msg \in Threaded!Messages \cup {-2}
  /\ msg \in Threaded!Messages \cup {-2} /\ latest \in Threaded!Messages \cup {-2}
  /\ deleted \subseteq Threaded!Messages /\ called \subseteq Threaded!Messages
  /\ loop \in {"start", "test", "look", "type", "sleep", "take", "clear", "wait", "asleep",
               "woken", "parse", "search", "copy", "destroy", "ended"}
  /\ event_loop_start \in BOOLEAN /\ undefined \in BOOLEAN
  /\ handler_map \subseteq {256, 257} \X (0 .. 6)
  /\ msg_queue \in Seq(Threaded!Messages)
  /\ (loop \in {"parse", "search", "copy", "destroy"} => msg # -2)

\* The handler of a message to user 256 that can reach the loop has been removed.
ToRemoved(n) == n > 0 /\ n % 2 = 0
Silent(n) == ToRemoved(n) => Threaded!Key(n) \notin handler_map
Removed ==
  /\ (main # "remove" => Silent(msg_ptr))
  /\ Silent(fresh_msg) /\ Silent(msg)
  /\ \A i \in 1 .. Len(msg_queue) : Silent(msg_queue[i])
  /\ (main = "register" =>
       msg <= 0 /\ fresh_msg <= 0 /\ \A i \in 1 .. Len(msg_queue) : msg_queue[i] <= 0)
  /\ (loop = "copy" => ~ToRemoved(msg))
  /\ \A n \in called : ~ToRemoved(n)

\* The slot: what main has made is newer than all that the loop has or had.
Slot ==
  /\ msg_queue = <<>>
  /\ \A n \in {fresh_msg, msg, latest} : n <= Newest /\ (msg_ptr # -2 => n < msg_ptr)
  /\ (fresh_msg # -2 => latest < fresh_msg)
  /\ (loop = "clear" => msg = -2 \/ latest < msg)
  /\ (loop = "parse" => latest < msg /\ (fresh_msg # -2 => msg < fresh_msg))

\* The queue: the messages sent, of which it has the last ones
At(n) == IF n = 1 THEN -1 ELSE IF n <= 3 THEN 0 ELSE n - 3
Made == IF main = "register" THEN 1 ELSE IF main = "send" THEN count + 1 ELSE count + 2
Parsed == IF loop = "parse" THEN Made - Len(msg_queue) - 1 ELSE Made - Len(msg_queue)
SlotSteps == {"look", "type", "sleep", "take", "clear"}
Queue ==
  /\ loop \notin SlotSteps
  /\ \A i \in 1 .. Len(msg_queue) : msg_queue[i] = At((Made - Len(msg_queue)) + i)
  /\ (loop = "parse" => msg = At(Made - Len(msg_queue)))
  /\ Parsed >= 0 /\ (latest = -2 <=> Parsed = 0)
  /\ (Parsed > 0 => latest = At(Parsed))

ThreadedInv ==
  /\ program \in {"slot", "queue"} /\ Rounded /\ Kept /\ Removed
  /\ (program = "slot" => Slot) /\ (program = "queue" => Queue)

ReactorsInv == (OnEpoll => EpollInv) /\ (~OnEpoll => ThreadedInv)

-----------------------------------------------------------------------------
LEMMA Appended ==
  ASSUME NEW S, NEW q \in Seq(S), NEW x \in S
  PROVE  /\ Append(q, x) \in Seq(S) /\ Len(Append(q, x)) = Len(q) + 1 /\ Len(q) \in Nat
         /\ \A i \in 1 .. Len(q) : Append(q, x)[i] = q[i]
         /\ Append(q, x)[Len(q) + 1] = x
  OBVIOUS

LEMMA Dropped ==
  ASSUME NEW S, NEW q \in Seq(S), q # <<>>
  PROVE  /\ Tail(q) \in Seq(S) /\ Len(Tail(q)) = Len(q) - 1 /\ Len(q) \in Nat \ {0}
         /\ Head(q) = q[1] /\ Head(q) \in S
         /\ \A i \in 1 .. Len(q) - 1 : Tail(q)[i] = q[i + 1]
  OBVIOUS

\* Every set of naturals but the empty one has a smallest element.
LEMMA SmallestOf ==
  ASSUME NEW R, IsWellFoundedOn(R, Nat), \A x, y \in Nat : y < x => <<y, x>> \in R
  PROVE  \A T \in SUBSET Nat : T # {} => \E x \in T : \A y \in T : x <= y
<1> SUFFICES ASSUME NEW T \in SUBSET Nat, T # {} PROVE \E x \in T : \A y \in T : x <= y
  OBVIOUS
<1>1. PICK x \in T : \A y \in T : ~ (<<y, x>> \in R)
  BY WFMin
<1>2. ASSUME NEW y \in T PROVE x <= y
  <2>1. x \in Nat /\ y \in Nat /\ ~ (<<y, x>> \in R)
    BY <1>1
  <2>2. ~ (y < x)
    BY <2>1, Zenon
  <2> QED BY <2>1, <2>2
<1> QED BY <1>2

LEMMA LessThanIsRelation == \A x, y \in Nat : y < x => <<y, x>> \in OpToRel(<, Nat)
  BY DEF OpToRel

LEMMA Smallest == \A T \in SUBSET Nat : T # {} => \E x \in T : \A y \in T : x <= y
  BY NatLessThanWellFounded, LessThanIsRelation, SmallestOf, Zenon

\* The descriptor that accept returns is a free one.
LEMMA FreeDescriptor ==
  ASSUME NEW T \in SUBSET Epoll!Fds, T # {}
  PROVE  Epoll!Min(T) \in T
<1>1. T \in SUBSET Nat
  BY SocketsAssumption DEF Epoll!Fds
<1>2. \E x \in T : \A y \in T : x <= y
  BY <1>1, Smallest
<1> QED BY <1>2 DEF Epoll!Min

LEMMA Descriptors ==
  /\ 0 \notin Epoll!Conns /\ 0 \notin Epoll!Fds /\ Epoll!Listen = 0
  /\ Epoll!Conns \subseteq Nat /\ Epoll!Fds \subseteq Nat
  BY SocketsAssumption DEF Epoll!Conns, Epoll!Fds, Epoll!Listen

\* ListenHandler::handleRead, with a connection there
Accepts(f, m) ==
  /\ f \in Epoll!Fds /\ socket[f] = 0 /\ m \in Epoll!Modes
  /\ socket' = [socket EXCEPT ![f] = Head(backlog)] /\ backlog' = Tail(backlog)
  /\ _handlers' = _handlers \cup {f} /\ mode' = [mode EXCEPT ![f] = m]
  /\ ready' = ready \/ (ready' = ready \cup {f} /\ m # "refused")
  /\ UNCHANGED <<stalled, failed>>

LEMMA ListenFacts ==
  ASSUME EpollInv, Epoll!HandleListen
  PROVE  /\ backlog # <<>>
         /\ <<Epoll!Listen, "in">> \in batch /\ batch' = batch \ {<<Epoll!Listen, "in">>}
         /\ UNCHANGED <<client, unread, fin, reset, echoed, size, killed, merged>>
         /\ \/ /\ failed' = failed + 1
               /\ UNCHANGED <<socket, backlog, mode, ready, _handlers, stalled>>
            \/ \E f \in Epoll!Fds, m \in Epoll!Modes : Accepts(f, m)
<1>1. <<Epoll!Listen, "in">> \in batch /\ batch' = batch \ {<<Epoll!Listen, "in">>}
  BY DEF Epoll!HandleListen, Epoll!Dispatched
<1>2. backlog # <<>>
  BY <1>1 DEF EpollInv, Found, Epoll!Readable
<1>3. CASE \A f \in Epoll!Fds : socket[f] # 0
  BY <1>1, <1>2, <1>3 DEF Epoll!HandleListen, Epoll!poll
<1>4. CASE ~ \A f \in Epoll!Fds : socket[f] # 0
  <2> DEFINE T == {g \in Epoll!Fds : socket[g] = 0}
  <2>1. Epoll!Min(T) \in T
    BY <1>4, FreeDescriptor
  <2>2. /\ socket' = [socket EXCEPT ![Epoll!Min(T)] = Head(backlog)] /\ backlog' = Tail(backlog)
        /\ Epoll!RegistHandler(Epoll!Min(T), Head(backlog)) /\ UNCHANGED <<stalled, failed>>
    BY <1>2, <1>4 DEF Epoll!HandleListen, Epoll!Accept
  <2>3. PICK m \in Epoll!Modes : Accepts(Epoll!Min(T), m)
    BY <2>1, <2>2 DEF Epoll!RegistHandler, Accepts
  <2> QED BY <1>1, <1>2, <2>1, <2>3 DEF Epoll!HandleListen
<1> QED BY <1>3, <1>4

\* A connection is made, accepted and closed in one place after the other.
LEMMA ConnectedStep ==
  ASSUME EpollInv, Epoll!Next
  PROVE  Connected'
<1> USE Descriptors DEF EpollInv
<1>1. ASSUME NEW c \in Epoll!Conns, Epoll!Connect(c) PROVE Connected'
  <2>1. /\ client[c] = "off" /\ client' = [client EXCEPT ![c] = "connected"]
        /\ backlog' = Append(backlog, c) /\ socket' = socket
    BY <1>1 DEF Epoll!Connect
  <2>2. backlog \in Seq(Epoll!Conns)
    BY DEF Connected
  <2>3. /\ backlog' \in Seq(Epoll!Conns) /\ Len(backlog') = Len(backlog) + 1 /\ Len(backlog) \in Nat
        /\ \A i \in 1 .. Len(backlog) : backlog'[i] = backlog[i]
        /\ backlog'[Len(backlog) + 1] = c
    BY <2>1, <2>2, Appended
  <2>4. \A i \in 1 .. Len(backlog') : i = Len(backlog) + 1 \/ i \in 1 .. Len(backlog)
    BY <2>3
  <2>5. \A i \in 1 .. Len(backlog) : backlog[i] # c
    BY <2>1 DEF Connected
  <2>6. \A f \in Epoll!Fds : socket[f] # c
    BY <2>1 DEF Connected
  <2>7. \A i, j \in 1 .. Len(backlog') : backlog'[i] = backlog'[j] => i = j
    BY <2>3, <2>4, <2>5 DEF Connected
  <2>8. \A i \in 1 .. Len(backlog') :
          client'[backlog'[i]] # "off" /\ \A f \in Epoll!Fds : socket[f] # backlog'[i]
    BY <2>1, <2>3, <2>4, <2>6 DEF Connected
  <2> QED BY <2>1, <2>3, <2>7, <2>8 DEF Connected
<1>2. ASSUME NEW c \in Epoll!Conns, Epoll!Client(c) \/ Epoll!Refuse(c) PROVE Connected'
  <2>1. /\ client' \in [Epoll!Conns -> {"off", "connected", "written", "closed"}]
        /\ UNCHANGED <<backlog, socket>>
        /\ \A d \in Epoll!Conns : client[d] # "off" => client'[d] # "off"
    BY <1>2 DEF Epoll!Client, Epoll!Write, Epoll!Close, Epoll!Refuse, Connected
  <2>2. \A i \in 1 .. Len(backlog) : backlog[i] \in Epoll!Conns
    BY DEF Connected
  <2> QED BY <2>1, <2>2 DEF Connected
<1>3. ASSUME NEW f \in Epoll!Fds, Epoll!Writable(f) \/ Epoll!Echo(f) \/ Epoll!ReadFailed(f)
      PROVE  Connected'
  BY <1>3 DEF Epoll!Writable, Epoll!Echo, Epoll!ReadFailed, Epoll!kernel, Connected
<1>4. CASE Epoll!WaitEvent \/ Epoll!HandleNothing
  BY <1>4 DEF Epoll!WaitEvent, Epoll!HandleNothing, Epoll!kernel, Connected
<1>5. ASSUME NEW f \in Epoll!Fds, Epoll!EndOfFile(f) PROVE Connected'
  BY <1>5 DEF Epoll!EndOfFile, Connected
<1>6. CASE Epoll!HandleListen
  <2>1. backlog # <<>> /\ client' = client
    BY <1>6, ListenFacts
  <2>2. CASE UNCHANGED <<socket, backlog>>
    BY <2>1, <2>2 DEF Connected
  <2>3. CASE \E f \in Epoll!Fds, m \in Epoll!Modes : Accepts(f, m)
    <3>1. PICK f \in Epoll!Fds, m \in Epoll!Modes : Accepts(f, m)
      BY <2>3
    <3>2. /\ socket' = [socket EXCEPT ![f] = backlog[1]] /\ socket[f] = 0
          /\ backlog' \in Seq(Epoll!Conns) /\ Len(backlog') = Len(backlog) - 1
          /\ Len(backlog) \in Nat \ {0} /\ backlog[1] \in Epoll!Conns
          /\ \A i \in 1 .. Len(backlog) - 1 : backlog'[i] = backlog[i + 1]
      BY <2>1, <3>1, Dropped DEF Accepts, Connected
    <3>3. \A i \in 1 .. Len(backlog') : i + 1 \in 1 .. Len(backlog) /\ i + 1 # 1 /\ backlog'[i] = backlog[i + 1]
      BY <3>2
    <3>4. \A i \in 1 .. Len(backlog') : backlog'[i] # backlog[1]
      BY <3>2, <3>3 DEF Connected
    <3>5. \A i, j \in 1 .. Len(backlog') : backlog'[i] = backlog'[j] => i = j
      <4> SUFFICES ASSUME NEW i \in 1 .. Len(backlog'), NEW j \in 1 .. Len(backlog'),
                          backlog'[i] = backlog'[j]
                   PROVE  i = j
        OBVIOUS
      <4>1. i + 1 = j + 1
        BY <3>3 DEF Connected
      <4> QED BY <3>2, <4>1
    <3>6. client[backlog[1]] # "off" /\ \A g \in Epoll!Fds : socket[g] # backlog[1]
      BY <3>2 DEF Connected
    <3>7. \A i \in 1 .. Len(backlog') :
            client'[backlog'[i]] # "off" /\ \A g \in Epoll!Fds : socket'[g] # backlog'[i]
      <4> SUFFICES ASSUME NEW i \in 1 .. Len(backlog')
                   PROVE  client'[backlog'[i]] # "off" /\ \A g \in Epoll!Fds : socket'[g] # backlog'[i]
        OBVIOUS
      <4>1. client[backlog'[i]] # "off" /\ \A g \in Epoll!Fds : socket[g] # backlog'[i]
        BY <3>3 DEF Connected
      <4>2. \A g \in Epoll!Fds : socket'[g] = socket[g] \/ socket'[g] = backlog[1]
        BY <3>2 DEF Connected
      <4> QED BY <2>1, <3>4, <4>1, <4>2
    <3>8. /\ socket' \in [Epoll!Fds -> Epoll!Conns \cup {0}]
          /\ \A g \in Epoll!Fds : socket'[g] # 0 => client'[socket'[g]] # "off"
          /\ \A g, h \in Epoll!Fds : socket'[g] = socket'[h] /\ socket'[g] # 0 => g = h
      BY <2>1, <3>2, <3>6 DEF Connected
    <3> QED BY <2>1, <3>2, <3>5, <3>7, <3>8 DEF Connected
  <2> QED BY <1>6, <2>2, <2>3, ListenFacts
<1> QED BY <1>1, <1>2, <1>3, <1>4, <1>5, <1>6 DEF Epoll!Next, Epoll!Network, Epoll!Server

LEMMA ArrivedStep ==
  ASSUME EpollInv, Epoll!Next
  PROVE  Arrived'
<1> USE DEF EpollInv, Arrived
<1>1. ASSUME NEW c \in Epoll!Conns,
             Epoll!Connect(c) \/ Epoll!Write(c) \/ Epoll!Close(c) \/ Epoll!Refuse(c)
      PROVE  Arrived'
  BY <1>1 DEF Epoll!Connect, Epoll!Write, Epoll!Close, Epoll!Refuse
<1>2. ASSUME NEW f \in Epoll!Fds,
             Epoll!Writable(f) \/ Epoll!EndOfFile(f) \/ Epoll!ReadFailed(f)
      PROVE  Arrived'
  BY <1>2 DEF Epoll!Writable, Epoll!EndOfFile, Epoll!ReadFailed, Epoll!kernel
<1>3. ASSUME NEW f \in Epoll!Fds, Epoll!Echo(f) PROVE Arrived'
  <2>1. socket[f] \in unread /\ unread' = unread \ {socket[f]} /\ echoed' = echoed \cup {socket[f]}
    BY <1>3 DEF Epoll!Echo
  <2> QED BY <1>3, <2>1 DEF Epoll!Echo
<1>4. CASE Epoll!WaitEvent \/ Epoll!HandleNothing \/ Epoll!HandleListen
  BY <1>4 DEF Epoll!WaitEvent, Epoll!HandleNothing, Epoll!HandleListen, Epoll!kernel
<1> QED BY <1>1, <1>2, <1>3, <1>4 DEF Epoll!Next, Epoll!Network, Epoll!Server, Epoll!Client

\* The events of one epoll_wait
LEMMA Reported ==
  ASSUME EpollInv, Epoll!WaitEvent
  PROVE  \E s \in SUBSET Epoll!Reportable :
           /\ batch = {} /\ batch' = {Epoll!Event(f) : f \in s} /\ ready' = ready \ s
           /\ mode' = [f \in DOMAIN mode |->
                         IF f \in s /\ Epoll!OneShot(f) THEN "disarmed" ELSE mode[f]]
           /\ size' = size \/ size' = 2 * size
           /\ UNCHANGED <<client, backlog, socket, unread, fin, reset, echoed, _handlers,
                          stalled,
                          killed, merged, failed>>
           /\ s \subseteq Ports
  BY DEF Epoll!WaitEvent, Epoll!kernel, Epoll!history, EpollInv, Polled, Epoll!Reportable

LEMMA EventOf ==
  ASSUME NEW f
  PROVE  /\ Epoll!Event(f)[1] = f /\ Epoll!Event(f)[2] \in {"in", "out", "error"}
         /\ Epoll!Event(f) = <<f, Epoll!Event(f)[2]>>
         /\ Epoll!Event(f)[2] = "in" => Epoll!Readable(f)
<1>1. Epoll!Error(f) => Epoll!Event(f) = <<f, "error">>
  BY DEF Epoll!Event, Epoll!Error, Epoll!Readable
<1>2. ~Epoll!Error(f) /\ Epoll!Readable(f) => Epoll!Event(f) = <<f, "in">>
  BY DEF Epoll!Event, Epoll!Error, Epoll!Readable
<1>3. ~Epoll!Error(f) /\ ~Epoll!Readable(f) => Epoll!Event(f) = <<f, "out">>
  BY DEF Epoll!Event, Epoll!Error, Epoll!Readable
<1> QED BY <1>1, <1>2, <1>3

\* A descriptor's handler stays when the descriptor is closed and used again.
LEMMA PolledStep ==
  ASSUME EpollInv, Epoll!Next
  PROVE  Polled'
<1> USE Descriptors DEF EpollInv, Epoll!Watched, Epoll!WantsOut, Ports
<1>0. Polled /\ mode \in [Ports -> Epoll!Modes \cup {"off", "disarmed"}]
  BY DEF Polled
<1>1. CASE /\ UNCHANGED <<mode, socket, _handlers>> /\ batch' \subseteq batch
           /\ ready' \subseteq Ports /\ \A f \in ready' : f \in ready \/ Epoll!Watched(f)
  BY <1>0, <1>1 DEF Polled
<1>2. ASSUME NEW c \in Epoll!Conns,
             Epoll!Connect(c) \/ Epoll!Write(c) \/ Epoll!Close(c) \/ Epoll!Refuse(c)
      PROVE  Polled'
  <2>1. UNCHANGED <<mode, socket, _handlers, batch>>
    BY <1>2 DEF Epoll!Connect, Epoll!Write, Epoll!Close, Epoll!Refuse, Epoll!server
  <2>2. ready' \subseteq Ports /\ \A f \in ready' : f \in ready \/ Epoll!Watched(f)
    BY <1>0, <1>2 DEF Epoll!Connect, Epoll!Write, Epoll!Close, Epoll!Refuse, Epoll!Edge, Polled
  <2> QED BY <1>1, <2>1, <2>2
<1>3. ASSUME NEW f \in Epoll!Fds, Epoll!Writable(f) PROVE Polled'
  <2>1. UNCHANGED <<mode, socket, _handlers,
                    batch>> /\ ready' = ready \cup {f} /\ Epoll!WantsOut(f)
    BY <1>3 DEF Epoll!Writable, Epoll!server, Epoll!kernel
  <2> QED BY <1>0, <1>1, <2>1 DEF Polled
<1>4. ASSUME NEW f \in Epoll!Fds, Epoll!Echo(f) \/ Epoll!ReadFailed(f) PROVE Polled'
  <2>1. UNCHANGED <<mode, socket, ready, _handlers>> /\ batch' \subseteq batch
    BY <1>4 DEF Epoll!Echo, Epoll!ReadFailed, Epoll!Dispatched, Epoll!poll, Epoll!kernel
  <2> QED BY <1>0, <1>1, <2>1 DEF Polled
<1>5. CASE Epoll!HandleNothing
  <2>1. UNCHANGED <<mode, socket, ready, _handlers>> /\ batch' \subseteq batch
    BY <1>5 DEF Epoll!HandleNothing, Epoll!Dispatched, Epoll!poll, Epoll!kernel
  <2> QED BY <1>0, <1>1, <2>1 DEF Polled
<1>6. ASSUME NEW f \in Epoll!Fds, Epoll!EndOfFile(f) PROVE Polled'
  <2>1. /\ mode' = [mode EXCEPT ![f] = "off"] /\ ready' = ready \ {f} /\ _handlers' = _handlers
        /\ batch' \subseteq batch /\ socket' = [socket EXCEPT ![f] = 0]
    BY <1>6 DEF Epoll!EndOfFile, Epoll!Dispatched
  <2> QED BY <1>0, <2>1 DEF Polled, Connected, Epoll!Modes
<1>7. CASE Epoll!WaitEvent
  <2>1. PICK s \in SUBSET Epoll!Reportable :
          /\ batch = {} /\ batch' = {Epoll!Event(f) : f \in s} /\ ready' = ready \ s
          /\ mode' = [f \in DOMAIN mode |->
                        IF f \in s /\ Epoll!OneShot(f) THEN "disarmed" ELSE mode[f]]
          /\ _handlers' = _handlers /\ socket' = socket /\ s \subseteq Ports
    BY <1>7, Reported
  <2>2. s \subseteq ready
    BY DEF Epoll!Reportable
  <2>3. \A f \in Ports : mode'[f] = mode[f] \/ (f \in s /\ mode'[f] = "disarmed")
    BY <1>0, <2>1
  <2>4. mode' \in [Ports -> Epoll!Modes \cup {"off", "disarmed"}]
    BY <1>0, <2>1
  <2>5. \A e \in batch' : \E f \in s : e = Epoll!Event(f)
    BY <2>1
  <2>6. /\ batch' \subseteq Ports \X {"in", "out", "error"} /\ \A e \in batch' : e[1] \in s
        /\ \A d, e \in batch' : d[1] = e[1] => d = e
    BY <2>1, <2>5, EventOf
  <2> QED BY <1>0, <2>1, <2>2, <2>3, <2>4, <2>6 DEF Polled, Epoll!Modes
<1>8. CASE Epoll!HandleListen
  <2>1. batch' \subseteq batch
    BY <1>8, ListenFacts
  <2>2. CASE UNCHANGED <<mode, socket, ready, _handlers>>
    BY <1>0, <1>1, <2>1, <2>2 DEF Polled
  <2>3. CASE \E f \in Epoll!Fds, m \in Epoll!Modes : Accepts(f, m)
    <3>1. PICK f \in Epoll!Fds, m \in Epoll!Modes : Accepts(f, m)
      BY <2>3
    <3>2. /\ _handlers' = _handlers \cup {f} /\ mode' = [mode EXCEPT ![f] = m]
          /\ ready' = ready \/ (ready' = ready \cup {f} /\ m # "refused")
      BY <3>1 DEF Accepts
    <3>3. f \notin ready
      BY <1>0, <3>1 DEF Accepts, Polled, Epoll!Modes
    <3>4. \A g \in Epoll!Fds : socket'[g] = 0 => g # f /\ socket[g] = 0
      BY <1>8, <3>1, Dropped, ListenFacts DEF Accepts, Connected
    <3> QED BY <1>0, <2>1, <3>2, <3>3, <3>4 DEF Polled, Epoll!Modes
  <2> QED BY <1>8, <2>2, <2>3, ListenFacts
<1> QED BY <1>2, <1>3, <1>4, <1>5, <1>6, <1>7, <1>8
  DEF Epoll!Next, Epoll!Network, Epoll!Server, Epoll!Client

\* Nothing is taken from a connection but by the dispatch of the one event that its
\* descriptor has, so that an event finds what it was reported for.
LEMMA FoundStep ==
  ASSUME EpollInv, Epoll!Next
  PROVE  Found'
<1> USE Descriptors DEF EpollInv
<1>0. /\ Found /\ batch \subseteq Ports \X {"in", "out", "error"}
      /\ \A d, e \in batch : d[1] = e[1] => d = e
  BY DEF Polled
<1>1. CASE /\ batch' \subseteq batch /\ UNCHANGED <<stalled>> /\ killed' \in BOOLEAN
           /\ \A e \in batch' : e[2] = "in" /\ Epoll!Readable(e[1]) => Epoll!Readable(e[1])'
  BY <1>0, <1>1 DEF Found
<1>2. ASSUME NEW c \in Epoll!Conns,
             Epoll!Connect(c) \/ Epoll!Write(c) \/ Epoll!Close(c) \/ Epoll!Refuse(c)
      PROVE  Found'
  <2>1. UNCHANGED <<socket, stalled, killed, batch>>
    BY <1>2 DEF Epoll!Connect, Epoll!Write, Epoll!Close, Epoll!Refuse, Epoll!server
  <2>2. unread \subseteq unread' /\ fin \subseteq fin' /\ reset \subseteq reset'
    BY <1>2 DEF Epoll!Connect, Epoll!Write, Epoll!Close, Epoll!Refuse
  <2>3. backlog # <<>> => backlog' # <<>>
    <3>1. backlog' = backlog \/ backlog' = Append(backlog, c)
      BY <1>2 DEF Epoll!Connect, Epoll!Write, Epoll!Close, Epoll!Refuse
    <3> QED BY <3>1, Appended DEF Connected
  <2>4. ASSUME NEW f, Epoll!Readable(f) PROVE Epoll!Readable(f)'
    BY <2>1, <2>2, <2>3, <2>4 DEF Epoll!Readable
  <2> QED BY <1>0, <1>1, <2>1, <2>4 DEF Found
<1>3. CASE Epoll!HandleNothing \/ \E f \in Epoll!Fds : Epoll!Writable(f) \/ Epoll!ReadFailed(f)
  <2>1. /\ UNCHANGED <<backlog, socket, unread, fin, reset, stalled>> /\ batch' \subseteq batch
        /\ killed' \in BOOLEAN
    BY <1>0, <1>3
    DEF Epoll!HandleNothing, Epoll!Writable, Epoll!ReadFailed, Epoll!Dispatched, Epoll!kernel,
        Epoll!server, Found
  <2>2. ASSUME NEW f, Epoll!Readable(f) PROVE Epoll!Readable(f)'
    BY <2>1, <2>2 DEF Epoll!Readable
  <2> QED BY <1>1, <2>1, <2>2
<1>4. ASSUME NEW f \in Epoll!Fds, Epoll!Echo(f) \/ Epoll!EndOfFile(f) PROVE Found'
  <2>1. /\ UNCHANGED <<backlog, fin, reset, stalled, killed>>
        /\ <<f, "in">> \in batch /\ batch' = batch \ {<<f, "in">>}
        /\ unread' = unread \/ unread' = unread \ {socket[f]}
        /\ socket' = socket \/ socket' = [socket EXCEPT ![f] = 0]
    BY <1>4 DEF Epoll!Echo, Epoll!EndOfFile, Epoll!Dispatched
  <2>2. ASSUME NEW e \in batch', e[2] = "in", Epoll!Readable(e[1]) PROVE Epoll!Readable(e[1])'
    <3>1. e[1] \in Ports /\ e[1] # f
      BY <1>0, <2>1, <2>2
    <3>2. CASE e[1] = Epoll!Listen
      BY <2>1, <2>2, <3>2 DEF Epoll!Readable
    <3>3. CASE e[1] # Epoll!Listen
      <4>1. e[1] \in Epoll!Fds /\ socket[e[1]] \in unread \cup fin \cup reset
        BY <2>2, <3>1, <3>3 DEF Ports, Epoll!Readable
      <4>2. socket[e[1]] # 0 /\ socket[e[1]] # socket[f]
        BY <3>1, <4>1 DEF Connected, Arrived
      <4>3. socket'[e[1]] = socket[e[1]] /\ socket[e[1]] \in unread' \cup fin' \cup reset'
        BY <2>1, <3>1, <4>1, <4>2 DEF Connected
      <4> QED BY <3>3, <4>3 DEF Epoll!Readable
    <3> QED BY <3>2, <3>3
  <2> QED BY <1>0, <1>1, <2>1, <2>2 DEF Found
<1>5. CASE Epoll!WaitEvent
  <2>1. PICK s \in SUBSET Epoll!Reportable :
          /\ batch' = {Epoll!Event(f) : f \in s}
          /\ UNCHANGED <<backlog, socket, unread, fin, reset, stalled, killed>>
    BY <1>5, Reported
  <2>2. ASSUME NEW e \in batch', e[2] = "in" PROVE Epoll!Readable(e[1])'
    <3>1. PICK f \in s : e = Epoll!Event(f)
      BY <2>1
    <3>2. e[1] = f /\ Epoll!Readable(f)
      BY <2>2, <3>1, EventOf
    <3> QED BY <2>1, <3>2 DEF Epoll!Readable
  <2> QED BY <1>0, <2>1, <2>2 DEF Found
<1>6. CASE Epoll!HandleListen
  <2>1. /\ backlog # <<>> /\ UNCHANGED <<unread, fin, reset, stalled, killed>>
        /\ <<Epoll!Listen, "in">> \in batch /\ batch' = batch \ {<<Epoll!Listen, "in">>}
        /\ \/ socket' = socket
           \/ \E f \in Epoll!Fds : /\ socket[f] = 0
                                   /\ socket' = [socket EXCEPT ![f] = Head(backlog)]
    BY <1>6, ListenFacts DEF Accepts
  <2>2. ASSUME NEW e \in batch', e[2] = "in", Epoll!Readable(e[1]) PROVE Epoll!Readable(e[1])'
    <3>1. e[1] \in Epoll!Fds
      BY <1>0, <2>1, <2>2 DEF Ports
    <3>2. socket[e[1]] \in unread \cup fin \cup reset
      BY <2>2, <3>1 DEF Epoll!Readable
    <3>3. socket[e[1]] # 0
      BY <3>2 DEF Arrived
    <3>4. socket'[e[1]] = socket[e[1]]
      BY <2>1, <3>1, <3>3 DEF Connected
    <3> QED BY <2>1, <3>1, <3>2, <3>4 DEF Epoll!Readable
  <2> QED BY <1>0, <1>1, <2>1, <2>2 DEF Found
<1> QED BY <1>2, <1>3, <1>4, <1>5, <1>6
  DEF Epoll!Next, Epoll!Network, Epoll!Server, Epoll!Client

\* accept is called once for each event of listenfd, and each connection that has no
\* edge of its own, or for which accept failed, is one that stays.
LEMMA CountedStep ==
  ASSUME EpollInv, Epoll!Next
  PROVE  Counted'
<1> USE Descriptors DEF EpollInv, Edges, Events
<1>0. /\ Counted /\ backlog \in Seq(Epoll!Conns) /\ Len(backlog) \in Nat
      /\ mode \in [Ports -> Epoll!Modes \cup {"off", "disarmed"}] /\ Epoll!Listen \in Ports
      /\ batch \subseteq Ports \X {"in", "out", "error"}
  BY LenProperties DEF Connected, Polled, Ports
<1>1. CASE /\ UNCHANGED <<size, merged, failed, backlog>>
           /\ mode'[Epoll!Listen] = mode[Epoll!Listen]
           /\ (Epoll!Listen \in ready' <=> Epoll!Listen \in ready)
           /\ (<<Epoll!Listen, "in">> \in batch' <=> <<Epoll!Listen, "in">> \in batch)
  BY <1>0, <1>1 DEF Counted
<1>2. ASSUME NEW c \in Epoll!Conns, Epoll!Connect(c) PROVE Counted'
  <2>1. /\ backlog' = Append(backlog, c) /\ UNCHANGED <<mode, batch, size, failed>>
        /\ ready' = ready \cup {f \in {Epoll!Listen} : Epoll!Watched(f)}
        /\ merged' = IF Epoll!Listen \in ready' \ ready THEN merged ELSE merged + 1
    BY <1>2 DEF Epoll!Connect, Epoll!server
  <2>2. Len(backlog') = Len(backlog) + 1
    BY <1>0, <2>1, Appended
  <2>3. mode[Epoll!Listen] = "in" => Epoll!Listen \in ready'
    BY <2>1 DEF Epoll!Watched, Epoll!Modes
  <2>4. /\ mode[Epoll!Listen] = "in" =>
             \/ merged' = merged /\ Edges = 0 /\ Edges' = 1
             \/ merged' = merged + 1 /\ Edges = 1 /\ Edges' = 1
        /\ merged' \in Nat
    BY <1>0, <2>1, <2>3 DEF Counted
  <2>5. /\ Events \in Nat /\ Events' = Events
        /\ mode' = mode /\ size' = size /\ failed' = failed
    BY <2>1
  <2> HIDE DEF Edges, Events
  <2>6. size \in Nat /\ merged \in Nat /\ failed \in Nat /\ Len(backlog) \in Nat
    BY <1>0 DEF Counted
  <2>7. ASSUME mode[Epoll!Listen] = "in" PROVE Len(backlog') = merged' + failed + Edges' + Events
    <3>1. Len(backlog) = merged + failed + Edges + Events
      BY <1>0, <2>7 DEF Counted
    <3>2. CASE merged' = merged /\ Edges = 0 /\ Edges' = 1
      BY <2>2, <2>5, <2>6, <3>1, <3>2
    <3>3. CASE merged' = merged + 1 /\ Edges = 1 /\ Edges' = 1
      BY <2>2, <2>5, <2>6, <3>1, <3>3
    <3> QED BY <2>4, <2>7, <3>2, <3>3
  <2> QED BY <2>4, <2>5, <2>6, <2>7 DEF Counted
<1>3. ASSUME NEW c \in Epoll!Conns, Epoll!Write(c) \/ Epoll!Close(c) \/ Epoll!Refuse(c)
      PROVE  Counted'
  <2>1. /\ UNCHANGED <<size, merged, failed, backlog, mode, batch>>
        /\ ready' = ready \cup {f \in Epoll!Fds : socket[f] = c /\ Epoll!Watched(f)}
    BY <1>3 DEF Epoll!Write, Epoll!Close, Epoll!Refuse, Epoll!Edge, Epoll!server, Epoll!history
  <2> QED BY <1>1, <2>1
<1>4. CASE Epoll!HandleNothing
  <2>1. PICK e \in batch : e[2] \in {"error", "out"} /\ batch' = batch \ {e}
    BY <1>4 DEF Epoll!HandleNothing, Epoll!Dispatched
  <2>2. UNCHANGED <<size, merged, failed, backlog, mode, ready>>
    BY <1>4 DEF Epoll!HandleNothing, Epoll!kernel, Epoll!poll, Epoll!history
  <2>3. e # <<Epoll!Listen, "in">>
    BY <2>1
  <2> QED BY <1>1, <2>1, <2>2, <2>3
<1>5. ASSUME NEW f \in Epoll!Fds,
             Epoll!Writable(f) \/ Epoll!Echo(f) \/ Epoll!EndOfFile(f) \/ Epoll!ReadFailed(f)
      PROVE  Counted'
  <2>1. UNCHANGED <<size, merged, failed, backlog>>
    BY <1>5 DEF Epoll!Writable, Epoll!Echo, Epoll!EndOfFile, Epoll!ReadFailed, Epoll!kernel,
                Epoll!server, Epoll!history
  <2>2. mode' = mode \/ mode' = [mode EXCEPT ![f] = "off"]
    BY <1>5 DEF Epoll!Writable, Epoll!Echo, Epoll!EndOfFile, Epoll!ReadFailed, Epoll!poll
  <2>3. ready' \in {ready, ready \cup {f}, ready \ {f}}
    BY <1>5 DEF Epoll!Writable, Epoll!Echo, Epoll!EndOfFile, Epoll!ReadFailed, Epoll!poll
  <2>4. batch' \in {batch, batch \ {<<f, "in">>}}
    BY <1>5 DEF Epoll!Writable, Epoll!Echo, Epoll!EndOfFile, Epoll!ReadFailed,
        Epoll!Dispatched,
                Epoll!server
  <2>5. f # Epoll!Listen /\ <<f, "in">> # <<Epoll!Listen, "in">>
    OBVIOUS
  <2> QED BY <1>0, <1>1, <2>1, <2>2, <2>3, <2>4, <2>5
<1>6. CASE Epoll!WaitEvent
  <2>1. PICK s \in SUBSET Epoll!Reportable :
          /\ batch = {} /\ batch' = {Epoll!Event(f) : f \in s} /\ ready' = ready \ s
          /\ mode' = [f \in DOMAIN mode |->
                        IF f \in s /\ Epoll!OneShot(f) THEN "disarmed" ELSE mode[f]]
          /\ size' = size \/ size' = 2 * size
          /\ UNCHANGED <<backlog, merged, failed>> /\ s \subseteq Ports
    BY <1>6, Reported
  <2>2. size' \in Nat /\ (mode'[Epoll!Listen] = "in" => mode[Epoll!Listen] = "in")
    BY <1>0, <2>1 DEF Counted
  <2>3. CASE Epoll!Listen \in s /\ mode[Epoll!Listen] = "in"
    <3>1. Epoll!Listen \in ready /\ Epoll!Readable(Epoll!Listen)
      BY <2>3 DEF Epoll!Reportable, Epoll!WantsOut
    <3>2. Epoll!Event(Epoll!Listen) = <<Epoll!Listen, "in">>
      BY <3>1 DEF Epoll!Event, Epoll!Error
    <3>3. <<Epoll!Listen, "in">> \in batch' /\ Epoll!Listen \notin ready'
      BY <2>1, <2>3, <3>2
    <3> QED BY <1>0, <2>1, <2>2, <2>3, <3>1, <3>3 DEF Counted
  <2>4. CASE Epoll!Listen \notin s
    <3>1. <<Epoll!Listen, "in">> \notin batch'
      <4> SUFFICES ASSUME NEW f \in s PROVE Epoll!Event(f) # <<Epoll!Listen, "in">>
        BY <2>1
      <4>1. Epoll!Event(f)[1] # Epoll!Listen
        BY <2>4, EventOf
      <4> QED BY <4>1
    <3> QED BY <1>0, <2>1, <2>2, <2>4, <3>1 DEF Counted
  <2>5. CASE mode[Epoll!Listen] # "in"
    BY <1>0, <2>1, <2>2, <2>5 DEF Counted
  <2> QED BY <2>3, <2>4, <2>5
<1>7. CASE Epoll!HandleListen
  <2>1. /\ backlog # <<>> /\ size' = size /\ merged' = merged
        /\ <<Epoll!Listen, "in">> \in batch /\ <<Epoll!Listen, "in">> \notin batch'
    BY <1>7, ListenFacts
  <2>2. CASE failed' = failed + 1 /\ UNCHANGED <<backlog, mode, ready>>
    BY <1>0, <2>1, <2>2 DEF Counted
  <2>3. CASE \E f \in Epoll!Fds, m \in Epoll!Modes : Accepts(f, m)
    <3>1. PICK f \in Epoll!Fds, m \in Epoll!Modes : Accepts(f, m)
      BY <2>3
    <3>2. /\ backlog' = Tail(backlog) /\ failed' = failed
          /\ mode'[Epoll!Listen] = mode[Epoll!Listen]
          /\ (Epoll!Listen \in ready' <=> Epoll!Listen \in ready)
      BY <1>0, <3>1 DEF Accepts
    <3>3. Len(backlog') = Len(backlog) - 1
      BY <1>0, <2>1, <3>2, Dropped
    <3>4. Edges' = Edges /\ Edges \in Nat /\ Events = 1 /\ Events' = 0
      BY <2>1, <3>2
    <3> HIDE DEF Edges, Events
    <3>5. UNCHANGED <<size, merged, failed>> /\ mode'[Epoll!Listen] = mode[Epoll!Listen]
      BY <2>1, <3>2
    <3>6. size \in Nat /\ merged \in Nat /\ failed \in Nat /\ Len(backlog) \in Nat
      BY <1>0 DEF Counted
    <3>7. mode[Epoll!Listen] = "in" => Len(backlog') = merged + failed + Edges + 0
      BY <1>0, <3>3, <3>4, <3>6 DEF Counted
    <3> QED BY <3>4, <3>5, <3>6, <3>7 DEF Counted
  <2> QED BY <1>7, <2>2, <2>3, ListenFacts
<1> QED BY <1>2, <1>3, <1>4, <1>5, <1>6, <1>7
  DEF Epoll!Next, Epoll!Network, Epoll!Server, Epoll!Client

LEMMA EpollBegins ==
  ASSUME Epoll!Init
  PROVE  EpollInv
<1> USE Descriptors, SocketsAssumption
<1>1. PICK m \in Epoll!Modes :
        mode = [f \in {Epoll!Listen} \cup Epoll!Fds |-> IF f = Epoll!Listen THEN m ELSE "off"]
  BY DEF Epoll!Init
<1>2. /\ Len(backlog) = 0 /\ backlog = <<>> /\ backlog \in Seq(Epoll!Conns)
      /\ socket = [f \in Epoll!Fds |-> 0] /\ client = [c \in Epoll!Conns |-> "off"]
  BY DEF Epoll!Init
<1>3. Connected
  BY <1>2 DEF Connected
<1>4. Arrived
  BY DEF Epoll!Init, Arrived
<1>5. Polled
  BY <1>1, <1>2 DEF Epoll!Init, Polled, Ports, Epoll!Watched, Epoll!Modes
<1>6. Found /\ Counted
  BY <1>2 DEF Epoll!Init, Found, Counted, Edges, Events
<1> QED BY <1>3, <1>4, <1>5, <1>6 DEF EpollInv

LEMMA EpollStep ==
  ASSUME EpollInv, Epoll!Next
  PROVE  EpollInv'
  BY ConnectedStep, ArrivedStep, PolledStep, FoundStep, CountedStep DEF EpollInv

\* What the invariant says of the module's own properties
LEMMA Singletons ==
  ASSUME NEW x, NEW S
  PROVE  Epoll!Cardinality({x} \cap S) = IF x \in S THEN 1 ELSE 0
<1>1. \A T : Epoll!Cardinality(T) = Cardinality(T)
  BY DEF Epoll!Cardinality, Cardinality
<1>2. CASE x \in S
  <2>1. {x} \cap S = {x}
    BY <1>2
  <2> QED BY <1>1, <1>2, <2>1, FS_Singleton
<1>3. CASE x \notin S
  <2>1. {x} \cap S = {}
    BY <1>3
  <2> QED BY <1>1, <1>3, <2>1, FS_EmptySet
<1> QED BY <1>2, <1>3

LEMMA EpollMeans ==
  ASSUME EpollInv
  PROVE  Epoll!TypeOK /\ Epoll!NeverStalls /\ Epoll!HandlerKnown /\ Epoll!LeftBehind
<1>1. Epoll!TypeOK
  BY DEF EpollInv, Connected, Arrived, Polled, Found, Counted, Epoll!TypeOK, Ports
<1>2. Epoll!NeverStalls /\ Epoll!HandlerKnown
  BY DEF EpollInv, Polled, Found, Epoll!NeverStalls, Epoll!HandlerKnown
<1>3. /\ Epoll!Cardinality({Epoll!Listen} \cap ready) = Edges
      /\ Epoll!Cardinality({<<Epoll!Listen, "in">>} \cap batch) = Events
  BY Singletons DEF Edges, Events
<1>4. Epoll!LeftBehind
  BY <1>3 DEF EpollInv, Counted, Epoll!LeftBehind
<1> QED BY <1>1, <1>2, <1>4

-----------------------------------------------------------------------------
LEMMA RoundedStep ==
  ASSUME ThreadedInv, Threaded!Next
  PROVE  Rounded' /\ program' = program
<1> USE RoundsAssumption DEF ThreadedInv, Rounded, Newest
<1>1. CASE UNCHANGED <<program, count, main, msg_ptr>>
  BY <1>1
<1>2. CASE Threaded!MessageLoop \/ Threaded!Spurious
  BY <1>1, <1>2
  DEF Threaded!MessageLoop, Threaded!Test, Threaded!Look, Threaded!LoadType, Threaded!Sleep,
      Threaded!Take, Threaded!Clear, Threaded!Wait, Threaded!TakeFront, Threaded!Parse,
      Threaded!Find, Threaded!Call, Threaded!Return, Threaded!Spurious, Threaded!sender
<1>3. CASE Threaded!RegisterEventHandler
  BY <1>3 DEF Threaded!RegisterEventHandler
<1>4. CASE Threaded!Push
  BY <1>4 DEF Threaded!Push
<1>5. CASE Threaded!SlotLoad
  BY <1>5 DEF Threaded!SlotLoad
<1>6. CASE Threaded!SlotStore
  BY <1>6 DEF Threaded!SlotStore, Threaded!Null
<1>7. CASE Threaded!SlotDelete
  BY <1>7 DEF Threaded!SlotDelete
<1>8. CASE Threaded!Prepare
  BY <1>8 DEF Threaded!Prepare, Threaded!Advance
<1>9. CASE Threaded!RemoveEventHandler
  BY <1>9 DEF Threaded!RemoveEventHandler
<1>10. CASE Threaded!Stop
  BY <1>10 DEF Threaded!Stop, Threaded!Advance
<1>11. CASE Threaded!Start
  BY <1>11 DEF Threaded!Start
<1>12. CASE Threaded!Restart
  BY <1>12 DEF Threaded!Restart
<1>13. CASE Threaded!StopAtLast
  BY <1>13 DEF Threaded!StopAtLast, Threaded!Advance, Threaded!IsLast
<1>14. CASE Threaded!Destroy
  BY <1>14 DEF Threaded!Destroy
<1> QED BY <1>2, <1>3, <1>4, <1>5, <1>6, <1>7, <1>8, <1>9, <1>10, <1>11, <1>12, <1>13, <1>14
  DEF Threaded!Next, Threaded!Main

LEMMA Handlers == \A i \in 1 .. 4 : Threaded!Registered[i] \in {256, 257} \X (0 .. 6)
  BY DEF Threaded!Registered

LEMMA MessageRange ==
  /\ -2 \notin Threaded!Messages /\ Threaded!Messages \subseteq Int
  /\ Rounded => msg_ptr \in Threaded!Messages \cup {-2}
  BY RoundsAssumption DEF Threaded!Messages, Rounded

LEMMA KeptStep ==
  ASSUME ThreadedInv, Threaded!Next
  PROVE  Kept'
<1> USE MessageRange DEF ThreadedInv, Kept, Threaded!Null
<1>1. CASE Threaded!Test
  BY <1>1 DEF Threaded!Test, Threaded!sender, Threaded!box
<1>2. CASE Threaded!Look \/ Threaded!Wait \/ Threaded!Spurious
  <2>1. CASE Threaded!Look
    BY <2>1 DEF Threaded!Look, Threaded!sender, Threaded!box
  <2>2. CASE Threaded!Wait
    BY <2>2 DEF Threaded!Wait, Threaded!sender, Threaded!box
  <2>3. CASE Threaded!Spurious
    BY <2>3 DEF Threaded!Spurious, Threaded!sender, Threaded!box
  <2> QED BY <1>2, <2>1, <2>2, <2>3
<1>3. CASE Threaded!Find
  BY <1>3 DEF Threaded!Find, Threaded!sender, Threaded!box
<1>4. CASE Threaded!LoadType \/ Threaded!Take
  <2>1. CASE Threaded!LoadType
    BY <2>1 DEF Threaded!LoadType, Threaded!sender, Threaded!box
  <2>2. CASE Threaded!Take
    BY <2>2 DEF Threaded!Take, Threaded!sender, Threaded!box
  <2> QED BY <1>4, <2>1, <2>2
<1>5. CASE Threaded!Sleep
  BY <1>5 DEF Threaded!Sleep, Threaded!sender, Threaded!box
<1>6. CASE Threaded!Clear
  BY <1>6 DEF Threaded!Clear, Threaded!sender
<1>7. CASE Threaded!TakeFront
  <2>1. /\ msg_queue' \in Seq(Threaded!Messages) /\ msg' \in Threaded!Messages /\ loop' = "parse"
        /\ UNCHANGED <<old, fresh_msg, deleted, latest, called, event_loop_start, undefined,
                       handler_map>>
    BY <1>7, Dropped DEF Threaded!TakeFront, Threaded!sender
  <2> QED BY <2>1
<1>8. CASE Threaded!Parse
  <2>1. /\ handler_map' \subseteq handler_map /\ loop' \in {"search", "destroy"} /\ msg # -2
        /\ latest' = msg /\ undefined' \in BOOLEAN
        /\ UNCHANGED <<old, fresh_msg, msg_queue, deleted, msg, called, event_loop_start>>
    BY <1>8 DEF Threaded!Parse, Threaded!sender, Threaded!box
  <2> QED BY <2>1
<1>9. CASE Threaded!Call
  BY <1>9 DEF Threaded!Call, Threaded!sender, Threaded!box
<1>10. CASE Threaded!Return
  <2>1. /\ msg \in Threaded!Messages /\ loop' = "test" /\ deleted' \subseteq deleted \cup {msg}
        /\ undefined' \in BOOLEAN
        /\ UNCHANGED <<old, fresh_msg, msg_queue, msg, latest, called, event_loop_start,
                       handler_map>>
    <3>1. msg \in Threaded!Messages /\ loop' = "test"
      BY <1>10 DEF Threaded!Return
    <3>2. deleted' \subseteq deleted \cup {msg} /\ undefined' \in BOOLEAN
      <4>1. CASE program = "slot"
        BY <1>10, <4>1 DEF Threaded!Return
      <4>2. CASE program # "slot"
        BY <1>10, <4>2 DEF Threaded!Return
      <4> QED BY <4>1, <4>2
    <3> QED BY <1>10, <3>1, <3>2 DEF Threaded!Return, Threaded!sender
  <2> QED BY <2>1
<1>11. CASE Threaded!RegisterEventHandler
  <2>1. count \in Int /\ -4 <= count /\ count < 0
    BY <1>11 DEF Threaded!RegisterEventHandler, Rounded
  <2>2. count + 4 + 1 \in 1 .. 4
    BY <2>1
  <2>3. Len(Threaded!Registered) = 4
    BY DEF Threaded!Registered
  <2>4. handler_map' = handler_map \cup {Threaded!Registered[count + 4 + 1]}
    BY <1>11, <2>3 DEF Threaded!RegisterEventHandler
  <2>5. undefined' \in BOOLEAN
    BY <1>11 DEF Threaded!RegisterEventHandler, Threaded!Changed
  <2>6. UNCHANGED <<old, fresh_msg, msg_queue, deleted, loop, msg, latest, called,
                    event_loop_start>>
    BY <1>11 DEF Threaded!RegisterEventHandler, Threaded!box, Threaded!receiver
  <2>7. handler_map' \subseteq {256, 257} \X (0 .. 6)
    BY <2>2, <2>4, Handlers
  <2> QED BY <2>5, <2>6, <2>7
<1>12. CASE Threaded!Push
  <2>1. /\ msg_queue' = Append(msg_queue, msg_ptr) /\ (loop' = loop \/ loop' = "woken")
        /\ UNCHANGED <<old, fresh_msg, deleted, msg, latest, called, event_loop_start,
                       undefined,
                       handler_map>>
    BY <1>12 DEF Threaded!Push
  <2>2. msg_ptr \in Threaded!Messages
    BY <1>12 DEF Threaded!Push, Rounded
  <2>3. msg_queue' \in Seq(Threaded!Messages)
    BY <2>1, <2>2, Appended
  <2> QED BY <2>1, <2>3
<1>13. CASE Threaded!SlotLoad \/ Threaded!SlotStore
  <2>1. CASE Threaded!SlotLoad
    BY <2>1 DEF Threaded!SlotLoad, Threaded!box, Threaded!receiver
  <2>2. CASE Threaded!SlotStore
    BY <2>2 DEF Threaded!SlotStore, Threaded!box, Threaded!receiver
  <2> QED BY <1>13, <2>1, <2>2
<1>14. CASE Threaded!SlotDelete
  BY <1>14 DEF Threaded!SlotDelete, Threaded!receiver
<1>15. CASE Threaded!Prepare \/ Threaded!Destroy
  <2>1. CASE Threaded!Prepare
    BY <2>1 DEF Threaded!Prepare, Threaded!box, Threaded!receiver
  <2>2. CASE Threaded!Destroy
    BY <2>2 DEF Threaded!Destroy, Threaded!box, Threaded!receiver
  <2> QED BY <1>15, <2>1, <2>2
<1>16. CASE Threaded!Restart
  BY <1>16 DEF Threaded!Restart, Threaded!box
<1>17. CASE Threaded!RemoveEventHandler
  <2>1. /\ handler_map' \subseteq handler_map /\ undefined' \in BOOLEAN
        /\ UNCHANGED <<old, fresh_msg, msg_queue, deleted, loop, msg, latest, called,
                       event_loop_start>>
    BY <1>17 DEF Threaded!RemoveEventHandler, Threaded!Changed, Threaded!box, Threaded!receiver
  <2> QED BY <2>1
<1>18. CASE Threaded!Stop \/ Threaded!Start
  <2>1. CASE Threaded!Stop
    BY <2>1 DEF Threaded!Stop, Threaded!box, Threaded!receiver
  <2>2. CASE Threaded!Start
    BY <2>2 DEF Threaded!Start, Threaded!box, Threaded!receiver
  <2> QED BY <1>18, <2>1, <2>2
<1>19. CASE Threaded!StopAtLast
  BY <1>19 DEF Threaded!StopAtLast, Threaded!box, Threaded!receiver
<1> QED BY <1>1, <1>2, <1>3, <1>4, <1>5, <1>6, <1>7, <1>8, <1>9, <1>10, <1>11, <1>12, <1>13,
    <1>14,
           <1>15, <1>16, <1>17, <1>18, <1>19
  DEF Threaded!Next, Threaded!Main, Threaded!MessageLoop

\* A handler is removed before the messages for it are sent, and none is registered then.
LEMMA RemovedStep ==
  ASSUME ThreadedInv, Threaded!Next
  PROVE  Removed'
<1> USE DEF ThreadedInv, Silent
<1>a. ~ToRemoved(-2) /\ (\A n \in Int : n <= 0 => ~ToRemoved(n))
  BY DEF ToRemoved
<1>b. Removed /\ Rounded /\ Kept
  OBVIOUS
<1>c. CASE /\ handler_map' \subseteq handler_map /\ UNCHANGED <<main, msg_ptr, called,
                                                                msg_queue>>
           /\ (msg' = msg \/ msg' = fresh_msg) /\ (fresh_msg' = fresh_msg \/ fresh_msg' = -2)
           /\ loop' # "copy"
  BY <1>a, <1>b, <1>c DEF Removed
<1>d. CASE /\ handler_map' \subseteq handler_map /\ UNCHANGED <<msg, fresh_msg, called,
                                                                msg_queue>>
           /\ main' # "register" /\ (main' # "remove" => Silent(msg_ptr)')
           /\ (loop' = loop \/ loop' # "copy")
  BY <1>b, <1>d DEF Removed
<1>1. CASE Threaded!Test
  BY <1>c, <1>1 DEF Threaded!Test, Threaded!sender, Threaded!box
<1>2. CASE Threaded!Look
  BY <1>c, <1>2 DEF Threaded!Look, Threaded!sender, Threaded!box
<1>3. CASE Threaded!Wait
  BY <1>c, <1>3 DEF Threaded!Wait, Threaded!sender, Threaded!box
<1>4. CASE Threaded!Spurious
  BY <1>c, <1>4 DEF Threaded!Spurious, Threaded!sender, Threaded!box
<1>5. CASE Threaded!LoadType
  BY <1>c, <1>5 DEF Threaded!LoadType, Threaded!sender, Threaded!box
<1>6. CASE Threaded!Sleep
  BY <1>c, <1>6 DEF Threaded!Sleep, Threaded!sender, Threaded!box
<1>7. CASE Threaded!Take
  BY <1>c, <1>7 DEF Threaded!Take, Threaded!sender, Threaded!box
<1>8. CASE Threaded!Clear
  BY <1>c, <1>8 DEF Threaded!Clear, Threaded!sender, Threaded!Null
<1>9. CASE Threaded!Parse
  <2>1. handler_map' \subseteq handler_map /\ loop' # "copy"
    BY <1>9 DEF Threaded!Parse
  <2> QED BY <1>c, <1>9, <2>1 DEF Threaded!Parse, Threaded!sender, Threaded!box
<1>10. CASE Threaded!Return
  BY <1>c, <1>10 DEF Threaded!Return, Threaded!sender
<1>11. CASE Threaded!Find
  <2>1. UNCHANGED <<main, msg_ptr, fresh_msg, msg, called, msg_queue, handler_map>>
    BY <1>11 DEF Threaded!Find, Threaded!sender, Threaded!box
  <2>2. loop' = "copy" => Threaded!Key(msg) \in handler_map
    BY <1>11 DEF Threaded!Find
  <2> QED BY <1>b, <2>1, <2>2 DEF Removed
<1>12. CASE Threaded!Call
  <2>1. /\ UNCHANGED <<main, msg_ptr, fresh_msg, msg, msg_queue, handler_map>>
        /\ loop = "copy" /\ loop' = "destroy" /\ called' = called \cup {msg}
    BY <1>12 DEF Threaded!Call, Threaded!sender, Threaded!box
  <2> QED BY <1>b, <2>1 DEF Removed
<1>13. CASE Threaded!TakeFront
  <2>1. /\ UNCHANGED <<main, msg_ptr, fresh_msg, called, handler_map>> /\ loop' # "copy"
        /\ msg_queue # <<>> /\ msg' = Head(msg_queue) /\ msg_queue' = Tail(msg_queue)
    BY <1>13 DEF Threaded!TakeFront, Threaded!sender
  <2>2. /\ Len(msg_queue') = Len(msg_queue) - 1 /\ Len(msg_queue) \in Nat \ {0}
        /\ msg' = msg_queue[1] /\ \A i \in 1 .. Len(msg_queue) - 1 : msg_queue'[i] = msg_queue[i + 1]
    BY <1>b, <2>1, Dropped DEF Kept
  <2>3. 1 \in 1 .. Len(msg_queue)
    BY <2>2
  <2>4. \A i \in 1 .. Len(msg_queue') : i + 1 \in 1 .. Len(msg_queue) /\ msg_queue'[i] = msg_queue[i + 1]
    BY <2>2
  <2>5. UNCHANGED <<main, msg_ptr, fresh_msg, called,
                    handler_map>> /\ loop' # "copy" /\ msg' = msg_queue[1]
    BY <2>1, <2>2
  <2> QED BY <1>b, <2>3, <2>4, <2>5 DEF Removed
<1>14. CASE Threaded!RegisterEventHandler
  <2>1. /\ main = "register" /\ UNCHANGED <<msg_ptr, fresh_msg, msg, called, msg_queue, loop>>
    BY <1>14 DEF Threaded!RegisterEventHandler, Threaded!box, Threaded!receiver
  <2>2. ~ToRemoved(msg_ptr) /\ ~ToRemoved(fresh_msg) /\ ~ToRemoved(msg)
    BY <1>a, <1>b, <2>1, MessageRange DEF Removed, Rounded, Kept, Newest
  <2>3. \A i \in 1 .. Len(msg_queue) : ~ToRemoved(msg_queue[i])
    <3> SUFFICES ASSUME NEW i \in 1 .. Len(msg_queue) PROVE ~ToRemoved(msg_queue[i])
      OBVIOUS
    <3>1. msg_queue[i] \in Threaded!Messages
      BY <1>b, ElementOfSeq DEF Kept
    <3>2. msg_queue[i] \in Int /\ msg_queue[i] <= 0
      BY <1>b, <2>1, <3>1, MessageRange DEF Removed
    <3> QED BY <1>a, <3>2
  <2> QED BY <1>b, <2>1, <2>2, <2>3 DEF Removed
<1>15. CASE Threaded!Push
  <2>1. /\ UNCHANGED <<msg_ptr, fresh_msg, msg, called,
                       handler_map>> /\ main = "send" /\ main' = "prepare"
        /\ (loop' = loop \/ loop' # "copy") /\ msg_queue' = Append(msg_queue, msg_ptr)
        /\ program = "queue"
    BY <1>15 DEF Threaded!Push
  <2>2. msg_ptr \in Threaded!Messages
    BY <1>b, <2>1, MessageRange DEF Rounded
  <2>3. /\ Len(msg_queue') = Len(msg_queue) + 1 /\ Len(msg_queue) \in Nat
        /\ \A i \in 1 .. Len(msg_queue) : msg_queue'[i] = msg_queue[i]
        /\ msg_queue'[Len(msg_queue) + 1] = msg_ptr
    BY <1>b, <2>1, <2>2, Appended DEF Kept
  <2>4. \A i \in 1 .. Len(msg_queue') : i \in 1 .. Len(msg_queue) \/ msg_queue'[i] = msg_ptr
    BY <2>3
  <2>5. \A i \in 1 .. Len(msg_queue') : msg_queue'[i] = msg_ptr \/
          (i \in 1 .. Len(msg_queue) /\ msg_queue'[i] = msg_queue[i])
    BY <2>3, <2>4
  <2>6. /\ UNCHANGED <<msg_ptr, fresh_msg, msg, called,
                       handler_map>> /\ main = "send" /\ main' = "prepare"
        /\ (loop' = loop \/ loop' # "copy")
    BY <2>1
  <2> QED BY <1>b, <2>5, <2>6 DEF Removed
<1>16. CASE Threaded!SlotStore
  <2>1. /\ UNCHANGED <<msg, called, msg_queue, loop,
                       handler_map>> /\ main = "store" /\ main' = "delete"
        /\ fresh_msg' = msg_ptr /\ msg_ptr' = -2
    BY <1>16 DEF Threaded!SlotStore, Threaded!receiver, Threaded!Null
  <2> QED BY <1>a, <1>b, <2>1 DEF Removed
<1>17. CASE Threaded!SlotLoad
  BY <1>b, <1>d, <1>17 DEF Threaded!SlotLoad, Threaded!box, Threaded!receiver, Removed
<1>18. CASE Threaded!SlotDelete
  BY <1>b, <1>d, <1>18 DEF Threaded!SlotDelete, Threaded!receiver, Removed
<1>19. CASE Threaded!Prepare
  <2>1. /\ UNCHANGED <<msg, fresh_msg, called, msg_queue, handler_map,
                       loop>> /\ main = "prepare"
        /\ main' # "register"
    BY <1>19 DEF Threaded!Prepare, Threaded!Advance, Threaded!box, Threaded!receiver
  <2>2. msg_ptr' = msg_ptr \/ main' = "remove" \/ ~ToRemoved(msg_ptr')
    BY <1>19 DEF Threaded!Prepare, ToRemoved
  <2>3. main' # "remove" => Silent(msg_ptr)'
    BY <1>b, <2>1, <2>2 DEF Removed
  <2> QED BY <1>d, <2>1, <2>3
<1>20. CASE Threaded!RemoveEventHandler
  <2>1. /\ UNCHANGED <<msg, fresh_msg, called, msg_queue, loop, msg_ptr>> /\ main' = "control"
        /\ handler_map' = handler_map \ {Threaded!Key(msg_ptr)}
    BY <1>20 DEF Threaded!RemoveEventHandler, Threaded!box, Threaded!receiver
  <2> QED BY <1>d, <2>1
<1>21. CASE Threaded!Stop \/ Threaded!StopAtLast
  <2>1. /\ UNCHANGED <<msg, fresh_msg, called, msg_queue, loop, msg_ptr, handler_map>>
        /\ main \in {"control", "last"} /\ main' \in {"send", "exit"}
    BY <1>21 DEF Threaded!Stop, Threaded!StopAtLast, Threaded!Advance, Threaded!box,
        Threaded!receiver
  <2> QED BY <1>b, <1>d, <2>1 DEF Removed
<1>22. CASE Threaded!Start
  <2>1. /\ UNCHANGED <<msg, fresh_msg, called, msg_queue, loop, msg_ptr, handler_map>>
        /\ main = "control" /\ main' \in {"last", "join"}
    BY <1>22 DEF Threaded!Start, Threaded!box, Threaded!receiver
  <2> QED BY <1>b, <1>d, <2>1 DEF Removed
<1>23. CASE Threaded!Restart
  BY <1>b, <1>d, <1>23 DEF Threaded!Restart, Threaded!box, Removed
<1>24. CASE Threaded!Destroy
  BY <1>b, <1>d, <1>24 DEF Threaded!Destroy, Threaded!box, Threaded!receiver, Removed
<1> QED BY <1>1, <1>2, <1>3, <1>4, <1>5, <1>6, <1>7, <1>8, <1>9, <1>10, <1>11, <1>12, <1>13,
    <1>14,
           <1>15, <1>16, <1>17, <1>18, <1>19, <1>20, <1>21, <1>22, <1>23, <1>24
  DEF Threaded!Next, Threaded!Main, Threaded!MessageLoop

\* A message is stored when it is the newest, and what is stored is gone when it is parsed.
LEMMA SlotStep ==
  ASSUME ThreadedInv, Threaded!Next, program = "slot"
  PROVE  Slot'
<1> USE DEF ThreadedInv
<1>a. /\ Slot /\ Rounded /\ fresh_msg \in Int /\ msg \in Int /\ latest \in Int
      /\ -2 <= fresh_msg /\ -2 <= msg /\ -2 <= latest
  BY RoundsAssumption DEF Kept, Threaded!Messages
<1>b. CASE /\ UNCHANGED <<msg_queue, count, msg_ptr, fresh_msg, msg, latest>>
           /\ (loop' = loop \/ loop' \notin {"clear", "parse"})
  BY <1>a, <1>b DEF Slot, Newest
<1>1. CASE Threaded!Test
  BY <1>b, <1>1 DEF Threaded!Test, Threaded!sender, Threaded!box
<1>2. CASE Threaded!Look
  BY <1>b, <1>2 DEF Threaded!Look, Threaded!sender, Threaded!box
<1>3. CASE Threaded!Wait
  BY <1>b, <1>3 DEF Threaded!Wait, Threaded!sender, Threaded!box
<1>4. CASE Threaded!Spurious
  BY <1>b, <1>4 DEF Threaded!Spurious, Threaded!sender, Threaded!box
<1>5. CASE Threaded!LoadType
  <2>1. UNCHANGED <<msg_queue, count, msg_ptr, fresh_msg,
                    latest>> /\ msg' = fresh_msg /\ loop' = "sleep"
    BY <1>5 DEF Threaded!LoadType, Threaded!sender, Threaded!box
  <2> QED BY <1>a, <2>1 DEF Slot, Newest
<1>6. CASE Threaded!Sleep
  BY <1>b, <1>6 DEF Threaded!Sleep, Threaded!sender, Threaded!box
<1>7. CASE Threaded!Take
  <2>1. UNCHANGED <<msg_queue, count, msg_ptr, fresh_msg,
                    latest>> /\ msg' = fresh_msg /\ loop' = "clear"
    BY <1>7 DEF Threaded!Take, Threaded!sender, Threaded!box
  <2> QED BY <1>a, <2>1 DEF Slot, Newest
<1>8. CASE Threaded!Clear
  <2>1. /\ UNCHANGED <<msg_queue, count, msg_ptr, msg,
                       latest>> /\ fresh_msg' = -2 /\ loop = "clear"
        /\ loop' = (IF msg = -2 THEN "test" ELSE "parse")
    BY <1>8 DEF Threaded!Clear, Threaded!sender, Threaded!Null
  <2>2. -2 <= Newest /\ (msg_ptr # -2 => -2 < msg_ptr)
    BY <1>a DEF Newest, Rounded
  <2> QED BY <1>a, <2>1, <2>2 DEF Slot, Newest
<1>9. CASE Threaded!Parse
  <2>1. /\ UNCHANGED <<msg_queue, count, msg_ptr, fresh_msg,
                       msg>> /\ latest' = msg /\ loop = "parse"
        /\ loop' \notin {"clear", "parse"}
    BY <1>9 DEF Threaded!Parse, Threaded!sender, Threaded!box
  <2> QED BY <1>a, <2>1 DEF Slot, Newest
<1>10. CASE Threaded!Find
  BY <1>b, <1>10 DEF Threaded!Find, Threaded!sender, Threaded!box
<1>11. CASE Threaded!Call
  BY <1>b, <1>11 DEF Threaded!Call, Threaded!sender, Threaded!box
<1>12. CASE Threaded!Return
  BY <1>b, <1>12 DEF Threaded!Return, Threaded!sender
<1>13. CASE Threaded!TakeFront
  BY <1>a, <1>13 DEF Threaded!TakeFront, Slot
<1>14. CASE Threaded!RegisterEventHandler
  <2>1. /\ UNCHANGED <<msg_queue, msg_ptr, fresh_msg, msg, latest,
                       loop>> /\ main = "register" /\ count' = count + 1
    BY <1>14 DEF Threaded!RegisterEventHandler, Threaded!box, Threaded!receiver
  <2>2. Newest' = Newest
    BY <1>a, <2>1 DEF Newest, Rounded
  <2> QED BY <1>a, <2>1, <2>2 DEF Slot
<1>15. CASE Threaded!SlotStore
  <2>1. /\ UNCHANGED <<msg_queue, count, msg, latest, loop>> /\ main = "store"
        /\ fresh_msg' = msg_ptr /\ msg_ptr' = -2
    BY <1>15 DEF Threaded!SlotStore, Threaded!receiver, Threaded!Null
  <2>2. msg_ptr \in Int /\ Newest' = Newest /\ msg_ptr <= Newest
    BY <1>a, <2>1 DEF Newest, Rounded
  <2> QED BY <1>a, <2>1, <2>2 DEF Slot
<1>16. CASE Threaded!SlotLoad
  BY <1>b, <1>16 DEF Threaded!SlotLoad, Threaded!box, Threaded!receiver
<1>17. CASE Threaded!SlotDelete
  BY <1>b, <1>17 DEF Threaded!SlotDelete, Threaded!receiver
<1>18. CASE Threaded!Prepare
  <2>1. /\ UNCHANGED <<msg_queue, fresh_msg, msg, latest, loop>> /\ main = "prepare"
        /\ \/ count = 0 /\ count' = 1 /\ msg_ptr' = msg_ptr
           \/ count # 0 /\ count' = count /\ msg_ptr' = count
    BY <1>18 DEF Threaded!Prepare, Threaded!Advance, Threaded!box, Threaded!receiver
  <2>2. Newest \in Int /\ Newest' = Newest /\ (count # 0 => Newest < count)
    BY <1>a, <2>1 DEF Newest, Rounded
  <2> QED BY <1>a, <2>1, <2>2 DEF Slot, Rounded
<1>19. CASE Threaded!RemoveEventHandler
  BY <1>b, <1>19 DEF Threaded!RemoveEventHandler, Threaded!box, Threaded!receiver
<1>20. CASE Threaded!Stop \/ Threaded!StopAtLast
  <2>1. /\ UNCHANGED <<msg_queue, msg_ptr, fresh_msg, msg, latest,
                       loop>> /\ main \in {"control", "last"}
        /\ (count' = count \/ count' = count + 1)
    BY <1>20 DEF Threaded!Stop, Threaded!StopAtLast, Threaded!Advance, Threaded!box,
        Threaded!receiver
  <2>2. Newest \in Int /\ Newest' \in Int /\ Newest <= Newest'
    BY <1>a, <2>1 DEF Newest, Rounded
  <2> QED BY <1>a, <2>1, <2>2 DEF Slot
<1>21. CASE Threaded!Start
  BY <1>b, <1>21 DEF Threaded!Start, Threaded!box, Threaded!receiver
<1>22. CASE Threaded!Restart
  BY <1>b, <1>22 DEF Threaded!Restart, Threaded!box
<1>23. CASE Threaded!Destroy
  BY <1>b, <1>23 DEF Threaded!Destroy, Threaded!box, Threaded!receiver
<1>24. CASE Threaded!Push
  BY <1>24 DEF Threaded!Push
<1> QED BY <1>1, <1>2, <1>3, <1>4, <1>5, <1>6, <1>7, <1>8, <1>9, <1>10, <1>11, <1>12, <1>13,
    <1>14,
           <1>15, <1>16, <1>17, <1>18, <1>19, <1>20, <1>21, <1>22, <1>23, <1>24
  DEF Threaded!Next, Threaded!Main, Threaded!MessageLoop

\* The messages are taken in the order in which they were put in.
LEMMA QueueStep ==
  ASSUME ThreadedInv, Threaded!Next, program = "queue"
  PROVE  Queue'
<1> USE DEF ThreadedInv, SlotSteps
<1>a. /\ Queue /\ Rounded /\ msg_queue \in Seq(Threaded!Messages) /\ Len(msg_queue) \in Nat
      /\ Made \in Int
  BY LenProperties DEF Kept, Made, Rounded
<1>b. CASE /\ UNCHANGED <<msg_queue, msg, latest>> /\ Made' = Made
           /\ (loop' = loop \/ (loop # "parse" /\ loop' \notin SlotSteps \cup {"parse"}))
  <2>1. Parsed' = Parsed
    BY <1>b DEF Parsed
  <2>2. loop' = "parse" => loop = "parse"
    BY <1>b
  <2> QED BY <1>a, <1>b, <2>1, <2>2 DEF Queue
<1>1. CASE Threaded!Test
  BY <1>b, <1>1 DEF Threaded!Test, Threaded!sender, Threaded!box, Made
<1>2. CASE Threaded!Wait
  BY <1>b, <1>2 DEF Threaded!Wait, Threaded!sender, Threaded!box, Made
<1>3. CASE Threaded!Spurious
  BY <1>b, <1>3 DEF Threaded!Spurious, Threaded!sender, Threaded!box, Made
<1>4. CASE Threaded!Find
  BY <1>b, <1>4 DEF Threaded!Find, Threaded!sender, Threaded!box, Made
<1>5. CASE Threaded!Call
  BY <1>b, <1>5 DEF Threaded!Call, Threaded!sender, Threaded!box, Made
<1>6. CASE Threaded!Return
  BY <1>b, <1>6 DEF Threaded!Return, Threaded!sender, Made
<1>7. CASE Threaded!Look \/ Threaded!LoadType \/ Threaded!Sleep \/ Threaded!Take \/ Threaded!Clear
  BY <1>a, <1>7
  DEF Threaded!Look, Threaded!LoadType, Threaded!Sleep, Threaded!Take, Threaded!Clear, Queue
<1>8. CASE Threaded!TakeFront
  <2>1. /\ UNCHANGED <<main, count, latest>> /\ loop # "parse" /\ loop' = "parse"
        /\ msg_queue # <<>> /\ msg' = Head(msg_queue) /\ msg_queue' = Tail(msg_queue)
    BY <1>8 DEF Threaded!TakeFront, Threaded!sender
  <2>2. /\ Len(msg_queue') = Len(msg_queue) - 1 /\ Len(msg_queue) \in Nat \ {0}
        /\ msg' = msg_queue[1] /\ \A i \in 1 .. Len(msg_queue) - 1 : msg_queue'[i] = msg_queue[i + 1]
    BY <1>a, <2>1, Dropped
  <2>3. Made' = Made /\ Parsed = Made - Len(msg_queue) /\ Parsed' = Parsed
    BY <1>a, <2>1, <2>2 DEF Made, Parsed
  <2>4. msg' = At(Made - Len(msg_queue'))
    <3>1. 1 \in 1 .. Len(msg_queue) /\ (Made - Len(msg_queue)) + 1 = Made - Len(msg_queue')
      BY <1>a, <2>2
    <3> QED BY <1>a, <2>2, <3>1 DEF Queue
  <2>5. ASSUME NEW i \in 1 .. Len(msg_queue')
        PROVE  msg_queue'[i] = At((Made - Len(msg_queue')) + i)
    <3>1. /\ i + 1 \in 1 .. Len(msg_queue) /\ msg_queue'[i] = msg_queue[i + 1]
          /\ (Made - Len(msg_queue)) + (i + 1) = (Made - Len(msg_queue')) + i
      BY <1>a, <2>2
    <3> QED BY <1>a, <3>1 DEF Queue
  <2> QED BY <1>a, <2>1, <2>3, <2>4, <2>5 DEF Queue
<1>9. CASE Threaded!Parse
  <2>1. /\ UNCHANGED <<msg_queue, main, count,
                       msg>> /\ loop = "parse" /\ loop' \notin SlotSteps \cup {"parse"}
        /\ latest' = msg
    BY <1>9 DEF Threaded!Parse, Threaded!sender, Threaded!box
  <2>2. Made' = Made /\ Parsed' = Made - Len(msg_queue) /\ Parsed' = Parsed + 1
    BY <1>a, <2>1 DEF Made, Parsed
  <2>3. Parsed \in Int /\ Parsed >= 0
    BY <1>a DEF Queue, Parsed
  <2>4. latest' = At(Parsed') /\ Parsed' > 0
    BY <1>a, <2>1, <2>2, <2>3 DEF Queue
  <2>5. latest' # -2
    BY <2>2, <2>3, <2>4 DEF At
  <2> QED BY <1>a, <2>1, <2>2, <2>3, <2>4, <2>5 DEF Queue
<1>10. CASE Threaded!Push
  <2>1. /\ UNCHANGED <<latest, msg, count>> /\ main = "send" /\ main' = "prepare"
        /\ (loop' = loop \/ (loop # "parse" /\ loop' \notin SlotSteps \cup {"parse"}))
        /\ msg_queue' = Append(msg_queue, msg_ptr)
    BY <1>10 DEF Threaded!Push
  <2>2. msg_ptr \in Threaded!Messages
    BY <1>a, MessageRange DEF Rounded
  <2>3. /\ Len(msg_queue') = Len(msg_queue) + 1
        /\ \A i \in 1 .. Len(msg_queue) : msg_queue'[i] = msg_queue[i]
        /\ msg_queue'[Len(msg_queue) + 1] = msg_ptr
    BY <1>a, <2>1, <2>2, Appended
  <2>4. Made = count + 1 /\ Made' = count + 2 /\ count \in Int /\ count >= 0
    BY <1>a, <2>1 DEF Made, Rounded
  <2>5. Made' - Len(msg_queue') = Made - Len(msg_queue) /\ Parsed' = Parsed
    BY <1>a, <2>1, <2>3, <2>4 DEF Parsed
  <2>6. msg_ptr = At(count + 2)
    BY <1>a, <2>1, <2>4 DEF Rounded, Newest, At
  <2>7. ASSUME NEW i \in 1 .. Len(msg_queue')
        PROVE  msg_queue'[i] = At((Made' - Len(msg_queue')) + i)
    <3>1. CASE i = Len(msg_queue) + 1
      <4>1. (Made' - Len(msg_queue')) + i = count + 2
        BY <1>a, <2>4, <2>5, <3>1
      <4> QED BY <2>3, <2>6, <3>1, <4>1
    <3>2. CASE i # Len(msg_queue) + 1
      <4>1. i \in 1 .. Len(msg_queue)
        BY <1>a, <2>3, <3>2
      <4> QED BY <1>a, <2>3, <2>5, <4>1 DEF Queue
    <3> QED BY <3>1, <3>2
  <2>8. (loop' = "parse" => loop = "parse") /\ loop' \notin SlotSteps
    BY <1>a, <2>1 DEF Queue
  <2>9. UNCHANGED <<latest, msg>>
    BY <2>1
  <2> QED BY <1>a, <2>5, <2>7, <2>8, <2>9 DEF Queue
<1>11. CASE Threaded!RegisterEventHandler
  <2>1. /\ UNCHANGED <<msg_queue, msg, latest, loop>> /\ main = "register"
        /\ count' = count + 1 /\ main' = (IF count = -1 THEN "send" ELSE "register")
    BY <1>11 DEF Threaded!RegisterEventHandler, Threaded!box, Threaded!receiver
  <2>2. Made' = Made
    BY <1>a, <2>1 DEF Made, Rounded
  <2> QED BY <1>b, <2>1, <2>2
<1>12. CASE Threaded!SlotLoad \/ Threaded!SlotStore \/ Threaded!SlotDelete
  BY <1>a, <1>12 DEF Threaded!SlotLoad, Threaded!SlotStore, Threaded!SlotDelete, Rounded
<1>13. CASE Threaded!Prepare
  <2>1. /\ UNCHANGED <<msg_queue, msg, latest, loop>> /\ main = "prepare"
        /\ \/ count = 0 /\ count' = 1 /\ main' = "send"
           \/ count' = count /\ main' \in {"remove", "control"}
    BY <1>13 DEF Threaded!Prepare, Threaded!Advance, Threaded!box, Threaded!receiver
  <2>2. Made' = Made
    BY <1>a, <2>1 DEF Made, Rounded
  <2> QED BY <1>b, <2>1, <2>2
<1>14. CASE Threaded!RemoveEventHandler
  BY <1>b, <1>14 DEF Threaded!RemoveEventHandler, Threaded!box, Threaded!receiver, Made
<1>15. CASE Threaded!Stop \/ Threaded!StopAtLast
  <2>1. /\ UNCHANGED <<msg_queue, msg, latest, loop>> /\ main \in {"control", "last"}
        /\ \/ count' = count /\ main' = "exit"
           \/ count' = count + 1 /\ main' = "send"
    BY <1>15 DEF Threaded!Stop, Threaded!StopAtLast, Threaded!Advance, Threaded!box,
        Threaded!receiver
  <2>2. Made' = Made
    BY <1>a, <2>1 DEF Made, Rounded
  <2> QED BY <1>b, <2>1, <2>2
<1>16. CASE Threaded!Start
  <2>1. /\ UNCHANGED <<msg_queue, msg, latest, loop, count>> /\ main = "control"
        /\ main' \in {"last", "join"}
    BY <1>16 DEF Threaded!Start, Threaded!box, Threaded!receiver
  <2>2. Made' = Made
    BY <2>1 DEF Made
  <2> QED BY <1>b, <2>1, <2>2
<1>17. CASE Threaded!Restart
  BY <1>b, <1>17 DEF Threaded!Restart, Threaded!box, Made
<1>18. CASE Threaded!Destroy
  BY <1>b, <1>18 DEF Threaded!Destroy, Threaded!box, Threaded!receiver, Made
<1> QED BY <1>1, <1>2, <1>3, <1>4, <1>5, <1>6, <1>7, <1>8, <1>9, <1>10, <1>11,
           <1>12, <1>13, <1>14, <1>15, <1>16, <1>17, <1>18
  DEF Threaded!Next, Threaded!Main, Threaded!MessageLoop

LEMMA ThreadedBegins ==
  ASSUME Threaded!Init
  PROVE  ThreadedInv
<1>1. Len(Threaded!Registered) = 4
  BY DEF Threaded!Registered
<1>2. /\ program \in {"slot", "queue"} /\ count = -4 /\ main = "register" /\ msg_ptr = 0 /\ old = -2
      /\ fresh_msg = (IF program = "slot" THEN -1 ELSE -2)
      /\ msg_queue = (IF program = "slot" THEN <<>> ELSE <<-1>>)
      /\ deleted = {} /\ event_loop_start = TRUE /\ loop = "start" /\ msg = -2
      /\ handler_map = {} /\ latest = -2 /\ called = {} /\ undefined = FALSE
  BY <1>1 DEF Threaded!Init, Threaded!Null
<1>3. -1 \in Threaded!Messages /\ Rounds \in Nat
  BY RoundsAssumption DEF Threaded!Messages
<1>4. Rounded
  BY <1>2, <1>3 DEF Rounded, Newest
<1>5. /\ msg_queue \in Seq(Threaded!Messages)
      /\ program = "slot" => Len(msg_queue) = 0 /\ msg_queue = <<>>
      /\ program = "queue" => Len(msg_queue) = 1 /\ msg_queue[1] = -1
  BY <1>2, <1>3
<1>6. Kept
  BY <1>2, <1>3, <1>5 DEF Kept
<1>7. Removed
  <2>1. \A i \in 1 .. Len(msg_queue) : msg_queue[i] <= 0 /\ handler_map = {}
    BY <1>2, <1>5
  <2> QED BY <1>2, <2>1 DEF Removed, Silent
<1>8. program = "slot" => Slot
  BY <1>2, <1>5 DEF Slot, Newest
<1>9. program = "queue" => Queue
  BY <1>2, <1>5 DEF Queue, Made, Parsed, At, SlotSteps
<1> QED BY <1>2, <1>4, <1>6, <1>7, <1>8, <1>9 DEF ThreadedInv

LEMMA ThreadedStep ==
  ASSUME ThreadedInv, Threaded!Next
  PROVE  ThreadedInv' /\ program' = program
<1>1. program' = program /\ program \in {"slot", "queue"}
  BY RoundedStep DEF ThreadedInv
<1>2. (program' = "slot" => Slot') /\ (program' = "queue" => Queue')
  BY <1>1, SlotStep, QueueStep
<1> QED BY <1>1, <1>2, RoundedStep, KeptStep, RemovedStep DEF ThreadedInv

\* A sequence with the last elements of another one is its suffix.
LEMMA Suffixes ==
  ASSUME NEW S, NEW s \in Seq(S), NEW t \in Seq(S), Len(s) <= Len(t),
         \A i \in 1 .. Len(s) : s[i] = t[(Len(t) - Len(s)) + i]
  PROVE  Threaded!IsSuffix(s, t)
<1> DEFINE r == Threaded!Reverse(s)
           u == Threaded!Reverse(t)
<1>1. Len(s) \in Nat /\ Len(t) \in Nat
  OBVIOUS
<1>2. /\ r \in Seq(S) /\ Len(r) = Len(s)
      /\ \A i \in 1 .. Len(s) : r[i] = s[(Len(s) - i) + 1]
  BY <1>1 DEF Threaded!Reverse
<1>3. /\ u \in Seq(S) /\ Len(u) = Len(t)
      /\ \A i \in 1 .. Len(t) : u[i] = t[(Len(t) - i) + 1]
  BY <1>1 DEF Threaded!Reverse
<1>4. ASSUME NEW i \in 1 .. Len(s) PROVE r[i] = u[i]
  <2>1. (Len(s) - i) + 1 \in 1 .. Len(s) /\ i \in 1 .. Len(t)
    BY <1>1
  <2>2. (Len(t) - Len(s)) + ((Len(s) - i) + 1) = (Len(t) - i) + 1
    BY <1>1
  <2> QED BY <1>2, <1>3, <2>1, <2>2
<1> HIDE DEF r, u
<1>5. SubSeq(r, 1, Len(r)) = SubSeq(u, 1, Len(r))
  BY <1>1, <1>2, <1>3, <1>4
<1>6. Threaded!IsPrefix(r, u)
  BY <1>2, <1>3, <1>5 DEF Threaded!IsPrefix
<1> QED BY <1>6 DEF Threaded!IsSuffix, r, u

\* What was sent, as numbered by the queue's invariant
LEMMA SentIs ==
  ASSUME ThreadedInv
  PROVE  /\ Threaded!Sent \in Seq(Int) /\ Len(Threaded!Sent) = Made
         /\ \A i \in 1 .. Made : Threaded!Sent[i] = At(i)
<1> DEFINE K == IF main \in {"register", "send"} THEN count ELSE count + 1
           L == IF K < 0 THEN 0 ELSE K
           f == [n \in 1 .. K |-> IF n <= 2 THEN 0 ELSE n - 2]
<1>1. K \in Int /\ L \in Nat /\ Made = L + 1 /\ 1 .. K = 1 .. L
  BY DEF ThreadedInv, Rounded, Made
<1>2. f = [n \in 1 .. L |-> IF n <= 2 THEN 0 ELSE n - 2]
  BY <1>1
<1> HIDE DEF K, L
<1>3. \A n \in 1 .. L : (IF n <= 2 THEN 0 ELSE n - 2) \in Int
  BY <1>1
<1>4. f \in Seq(Int) /\ Len(f) = L /\ \A n \in 1 .. L : f[n] = IF n <= 2 THEN 0 ELSE n - 2
  <2>1. f \in [1 .. L -> Int] /\ \A n \in 1 .. L : f[n] = IF n <= 2 THEN 0 ELSE n - 2
    BY <1>2, <1>3
  <2> HIDE DEF f
  <2> QED BY <1>1, <2>1
<1>5. Threaded!Sent = <<-1>> \o f
  BY DEF Threaded!Sent, K
<1> HIDE DEF f
<1>6. /\ Threaded!Sent \in Seq(Int) /\ Len(Threaded!Sent) = L + 1 /\ Threaded!Sent[1] = -1
      /\ \A i \in 1 .. L : Threaded!Sent[i + 1] = f[i]
  BY <1>1, <1>4, <1>5
<1>7. ASSUME NEW i \in 1 .. Made PROVE Threaded!Sent[i] = At(i)
  <2>1. CASE i = 1
    BY <1>6, <2>1 DEF At
  <2>2. CASE i # 1
    <3>1. i - 1 \in 1 .. L /\ (i - 1) + 1 = i
      BY <1>1, <2>2
    <3>2. Threaded!Sent[i] = f[i - 1]
      BY <1>6, <3>1
    <3>3. f[i - 1] = IF i - 1 <= 2 THEN 0 ELSE (i - 1) - 2
      BY <1>4, <3>1
    <3> QED BY <1>1, <2>2, <3>2, <3>3 DEF At
  <2> QED BY <2>1, <2>2
<1> QED BY <1>1, <1>6, <1>7

\* What the queue has: the messages from number Made - Len + 1 on
LEMMA PendingIs ==
  ASSUME ThreadedInv, program = "queue"
  PROVE  /\ Threaded!Pending \in Seq(Int) /\ Len(Threaded!Pending) \in Nat
         /\ Len(Threaded!Pending) <= Made
         /\ (latest = -2 => Len(Threaded!Pending) = Made)
         /\ \A i \in 1 .. Len(Threaded!Pending) :
              Threaded!Pending[i] = At((Made - Len(Threaded!Pending)) + i)
<1> USE DEF ThreadedInv
<1>1. /\ Queue /\ msg_queue \in Seq(Int) /\ Len(msg_queue) \in Nat /\ Made \in Int
      /\ msg \in Int /\ latest \in Int
  <2>1. msg_queue \in Seq(Threaded!Messages) /\ Threaded!Messages \subseteq Int
    BY MessageRange DEF Kept
  <2>2. msg_queue \in Seq(Int) /\ Len(msg_queue) \in Nat
    BY <2>1, SeqMonotonic, LenProperties, Zenon
  <2> QED BY <2>2, MessageRange DEF Kept, Made, Rounded
<1> DEFINE q == msg_queue
           p == (IF loop = "parse" THEN <<msg>> ELSE <<>>) \o q
           w == Threaded!Pending
<1>2. /\ p \in Seq(Int) /\ Len(p) = Made - Parsed /\ Len(p) \in Nat
      /\ \A i \in 1 .. Len(p) : p[i] = At(Parsed + i)
  <2>1. CASE loop = "parse"
    <3>1. p = <<msg>> \o q
      BY <2>1
    <3>2. /\ p \in Seq(Int) /\ Len(p) = Len(q) + 1 /\ p[1] = msg
          /\ \A i \in 1 .. Len(q) : p[i + 1] = q[i]
      BY <1>1, <3>1
    <3>3. Parsed = (Made - Len(q)) - 1 /\ msg = At(Made - Len(q))
      BY <1>1, <2>1 DEF Parsed, Queue
    <3>4. ASSUME NEW i \in 1 .. Len(p) PROVE p[i] = At(Parsed + i)
      <4>1. CASE i = 1
        <5>1. Parsed + i = Made - Len(q)
          BY <1>1, <3>3, <4>1
        <5> QED BY <3>2, <3>3, <4>1, <5>1
      <4>2. CASE i # 1
        <5>1. i - 1 \in 1 .. Len(q) /\ (i - 1) + 1 = i /\ (Made - Len(q)) + (i - 1) = Parsed + i
          BY <1>1, <3>2, <3>3, <4>2
        <5>2. p[i] = q[i - 1]
          BY <3>2, <5>1
        <5>3. q[i - 1] = At((Made - Len(q)) + (i - 1))
          BY <1>1, <5>1 DEF Queue
        <5> QED BY <5>1, <5>2, <5>3
      <4> QED BY <4>1, <4>2
    <3> QED BY <1>1, <3>2, <3>3, <3>4
  <2>2. CASE loop # "parse"
    <3>1. p = <<>> \o q
      BY <2>2
    <3>2. p = q
      BY <1>1, <3>1
    <3>3. Parsed = Made - Len(q)
      BY <2>2 DEF Parsed
    <3>4. \A i \in 1 .. Len(q) : q[i] = At(Parsed + i)
      BY <1>1, <3>3 DEF Queue
    <3> QED BY <1>1, <3>2, <3>3, <3>4
  <2> QED BY <2>1, <2>2
<1>3. /\ Parsed \in Int /\ Parsed >= 0 /\ (latest = -2 <=> Parsed = 0)
      /\ (Parsed > 0 => latest = At(Parsed))
  BY <1>1 DEF Queue, Parsed
<1>4. w = (IF latest = -2 THEN <<>> ELSE <<latest>>) \o p
  <2>1. w = (IF latest = -2 THEN <<>> ELSE <<latest>>)
            \o (IF loop = "parse" THEN <<msg>> ELSE <<>>) \o q
    BY DEF Threaded!Pending, Threaded!Null
  <2>2. /\ (IF latest = -2 THEN <<>> ELSE <<latest>>) \in Seq(Int)
        /\ (IF loop = "parse" THEN <<msg>> ELSE <<>>) \in Seq(Int)
    BY <1>1
  <2> DEFINE a == IF latest = -2 THEN <<>> ELSE <<latest>>
             b == IF loop = "parse" THEN <<msg>> ELSE <<>>
  <2>3. a \in Seq(Int) /\ b \in Seq(Int) /\ q \in Seq(Int) /\ w = (a \o b) \o q /\ p = b \o q
    BY <1>1, <2>1, <2>2
  <2> HIDE DEF a, b, p, w, q
  <2>4. (a \o b) \o q = a \o (b \o q)
    <3>1. a \in Seq(Int) /\ b \in Seq(Int) /\ q \in Seq(Int)
      BY <2>3
    <3> QED BY <3>1
  <2>5. w = a \o p
    BY <2>3, <2>4
  <2> QED BY <2>5 DEF a
<1> HIDE DEF p, w
<1>5. CASE latest = -2
  <2>1. w = p
    BY <1>2, <1>4, <1>5
  <2>2. Parsed = 0 /\ Len(p) = Made
    BY <1>1, <1>2, <1>3, <1>5
  <2>3. \A i \in 1 .. Len(p) : Parsed + i = (Made - Len(p)) + i
    BY <1>1, <2>2
  <2> QED BY <1>2, <2>1, <2>2, <2>3 DEF w
<1>6. CASE latest # -2
  <2>1. w = <<latest>> \o p
    BY <1>4, <1>6
  <2>2. /\ w \in Seq(Int) /\ Len(w) = Len(p) + 1 /\ w[1] = latest
        /\ \A i \in 1 .. Len(p) : w[i + 1] = p[i]
    BY <1>1, <1>2, <2>1
  <2>3. Parsed > 0 /\ latest = At(Parsed) /\ Made - Len(w) = Parsed - 1
    BY <1>1, <1>2, <1>3, <1>6, <2>2
  <2>4. ASSUME NEW i \in 1 .. Len(w) PROVE w[i] = At((Made - Len(w)) + i)
    <3>1. CASE i = 1
      <4>1. (Made - Len(w)) + i = Parsed
        BY <1>3, <2>3, <3>1
      <4> QED BY <2>2, <2>3, <3>1, <4>1
    <3>2. CASE i # 1
      <4>1. i - 1 \in 1 .. Len(p) /\ (i - 1) + 1 = i /\ Parsed + (i - 1) = (Made - Len(w)) + i
        BY <1>2, <1>3, <2>2, <2>3, <3>2
      <4> QED BY <1>2, <2>2, <4>1
    <3> QED BY <3>1, <3>2
  <2>5. Len(w) \in Nat /\ Len(w) <= Made
    BY <1>1, <1>2, <1>3, <2>2, <2>3
  <2> QED BY <1>6, <2>2, <2>4, <2>5 DEF w
<1> QED BY <1>5, <1>6

LEMMA ThreadedMeans ==
  ASSUME ThreadedInv
  PROVE  Threaded!TypeOK /\ Threaded!InOrder /\ Threaded!RemovedIsSilent
<1> USE DEF ThreadedInv
<1>1. Threaded!TypeOK
  <2>1. Len(Threaded!Registered) = 4 /\ Rounds \in Nat
    BY RoundsAssumption DEF Threaded!Registered
  <2>2. count \in -4 .. Rounds + 1 /\ msg_ptr \in Threaded!Messages \cup {-2}
    BY <2>1, MessageRange DEF Rounded
  <2> QED BY <2>1, <2>2 DEF Rounded, Kept, Threaded!TypeOK, Threaded!Null
<1>2. Threaded!InOrder
  <2>1. CASE program = "slot"
    BY <2>1 DEF Slot, Threaded!InOrder
  <2>2. CASE program = "queue"
    <3> DEFINE p == Threaded!Pending
               s == Threaded!Sent
    <3>1. /\ s \in Seq(Int) /\ Len(s) = Made /\ \A i \in 1 .. Made : s[i] = At(i)
      BY SentIs
    <3>2. /\ p \in Seq(Int) /\ Len(p) \in Nat /\ Len(p) <= Made /\ (latest = -2 => Len(p) = Made)
          /\ \A i \in 1 .. Len(p) : p[i] = At((Made - Len(p)) + i)
      BY <2>2, PendingIs
    <3> HIDE DEF p, s
    <3>3. ASSUME NEW i \in 1 .. Len(p) PROVE p[i] = s[(Len(s) - Len(p)) + i]
      <4>1. (Made - Len(p)) + i \in 1 .. Made
        BY <3>1, <3>2
      <4> QED BY <3>1, <3>2, <4>1
    <3>4. Threaded!IsSuffix(p, s)
      BY <3>1, <3>2, <3>3, Suffixes, Zenon
    <3>5. ASSUME latest = -2 PROVE p = s
      <4>1. Len(p) = Len(s)
        BY <3>1, <3>2, <3>5
      <4>2. \A i \in 1 .. Len(p) : p[i] = s[i]
        BY <3>1, <3>2, <3>3, <4>1
      <4> QED BY <3>1, <3>2, <4>1, <4>2
    <3> QED BY <2>2, <3>4, <3>5 DEF Threaded!InOrder, Threaded!Null, p, s
  <2> QED BY <2>1, <2>2
<1>3. Threaded!RemovedIsSilent
  BY MessageRange DEF Removed, Kept, ToRemoved, Threaded!RemovedIsSilent, Threaded!User
<1> QED BY <1>1, <1>2, <1>3

-----------------------------------------------------------------------------
LEMMA ReactorsAlways == Spec => []ReactorsInv
<1>1. Init => ReactorsInv
  <2>1. ASSUME InitThreaded PROVE ReactorsInv
    <3>1. Threaded!Init
      BY <2>1 DEF InitThreaded
    <3>2. ~OnEpoll
      BY <3>1 DEF Threaded!Init, OnEpoll
    <3> QED BY <3>1, <3>2, ThreadedBegins DEF ReactorsInv
  <2>2. ASSUME InitEpoll PROVE ReactorsInv
    BY <2>2, EpollBegins DEF InitEpoll, ReactorsInv
  <2> QED BY <2>1, <2>2 DEF Init
<1>2. ReactorsInv /\ [Next]_vars => ReactorsInv'
  <2> SUFFICES ASSUME ReactorsInv, [Next]_vars PROVE ReactorsInv'
    OBVIOUS
  <2>1. ASSUME ~OnEpoll, Threaded!Next PROVE ReactorsInv'
    <3>1. ThreadedInv
      BY <2>1 DEF ReactorsInv
    <3>2. ThreadedInv' /\ ~OnEpoll'
      BY <2>1, <3>1, ThreadedStep DEF OnEpoll
    <3> QED BY <3>2 DEF ReactorsInv
  <2>2. ASSUME OnEpoll, Epoll!Next, UNCHANGED messages PROVE ReactorsInv'
    <3>1. EpollInv
      BY <2>2 DEF ReactorsInv
    <3>2. EpollInv' /\ OnEpoll'
      BY <2>2, <3>1, EpollStep DEF OnEpoll, messages
    <3> QED BY <3>2 DEF ReactorsInv
  <2>3. CASE UNCHANGED vars
    BY <2>3
    DEF vars, messages, connections, ReactorsInv, OnEpoll, EpollInv, Connected, Arrived,
        Polled, Found,
        Counted, Edges, Events, Ports, Epoll!Watched, Epoll!Readable, ThreadedInv, Rounded,
        Newest, Kept,
        Removed, Silent, Slot, Queue, Made, Parsed
  <2>4. CASE Main \/ MessageLoop \/ Spurious
    BY <2>1, <2>4 DEF Main, MessageLoop, Spurious, Threaded!Next
  <2>5. CASE Server \/ Network
    BY <2>2, <2>5 DEF Server, Network, Epoll!Next
  <2> QED BY <2>3, <2>4, <2>5 DEF Next
<1> QED BY <1>1, <1>2, PTL DEF Spec

\* Reactor: the reactors' variables keep their types, for any number of rounds,
\* connections, descriptors and events.
THEOREM TypesHold == Spec => []TypeOK
<1>1. ReactorsInv => TypeOK
  BY EpollMeans, ThreadedMeans DEF ReactorsInv, TypeOK
<1> QED BY <1>1, ReactorsAlways, PTL

\* Reactor/Cpp11 and Cpp11queue: messages are parsed in the order in which they were
\* sent, the queue loses none, and a handler that RemoveEventHandler has removed is not
\* called for a message sent later, for any number of rounds.
THEOREM HandledHolds == Spec => []Handled
<1>1. ReactorsInv => Handled
  BY ThreadedMeans DEF ReactorsInv, Handled
<1> QED BY <1>1, ReactorsAlways, PTL

\* Reactor/Cpp98: every event that is still to be dispatched finds its handler and what
\* it was reported for, for any number of connections and descriptors.
THEOREM DispatchesHolds == Spec => []Dispatches
<1>1. ReactorsInv => Dispatches
  BY EpollMeans DEF ReactorsInv, Dispatches
<1> QED BY <1>1, ReactorsAlways, PTL

\* ListenHandler: while listenfd is registered for EPOLLIN, the connections left in the
\* backlog are the ones whose arrival was merged with another one and the ones for which
\* accept had no descriptor, and at most one whose event is still on its way.
THEOREM LeftBehindHolds == Spec => []LeftBehind
<1>1. ReactorsInv => LeftBehind
  BY EpollMeans DEF ReactorsInv, LeftBehind
<1> QED BY <1>1, ReactorsAlways, PTL
=============================================================================
