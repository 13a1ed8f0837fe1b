------------------------------ MODULE Channel ------------------------------
(***************************************************************************)
(* The Channel class of ProducerConsumer/producer_consumer_channel,        *)
(* buffered or (capacity 0) unbuffered, with the clients of main.cpp:      *)
(* producers that send or try_send, consumers that receive until the       *)
(* channel is closed and empty, and a main that closes it.  async_send and *)
(* async_receive are send and receive on a thread of their own.            *)
(*                                                                         *)
(* What a method does under the channel's mutex is one step, up to a wait  *)
(* on a condition variable.  The values are not told apart.                *)
(***************************************************************************)
EXTENDS Integers, FiniteSets, Synchronization

CONSTANTS Senders, Receivers,
          Capacities,  \* the values of capacity to consider
          Items,       \* kMaxMessagesCount, what every producer sends
          Width        \* number of values of a size_t

ASSUME ThreadsAssumption ==
  IsFiniteSet(Senders) /\ IsFiniteSet(Receivers) /\ Senders \cap Receivers = {}
ASSUME CapacitiesAssumption == Capacities \subseteq Nat
ASSUME ItemsAssumption == Items \in Nat
ASSUME WidthAssumption ==
  Width \in Nat /\ Width > Items * Cardinality(Senders) + Cardinality(Receivers)

VARIABLES capacity,
          queue,             \* the number of values in it
          closed,
          waitingReceivers,
          cv_send, cv_recv,  \* the threads asleep on them
          selectors,         \* whether the selector is registered
          cv,                \* whether that selector is asleep
          op,                \* the method each producer uses
          calls,             \* the sends each producer has made
          pc                 \* next step of each producer and consumer

channelVars == <<capacity, queue, closed, waitingReceivers, cv_send, cv_recv, selectors, cv>>
clientVars == <<op, calls, pc>>

Init ==
  /\ capacity \in Capacities
  /\ queue = 0 /\ closed = FALSE /\ waitingReceivers = 0
  /\ cv_send = {} /\ cv_recv = {} /\ selectors = FALSE /\ cv = FALSE
  /\ op \in [Senders -> {"send", "try_send"}]
  /\ calls = [t \in Senders |-> 0]
  /\ pc = [t \in Senders \cup Receivers |-> "call"]

Move(t, to) == pc' = [pc EXCEPT ![t] = to]

\* selector->notify() for every registered selector: cv.notify_all()
NotifySelectors == cv' = (cv /\ ~selectors)

\* waitingReceivers, a size_t, after n was added to it
Waiting(n) == (waitingReceivers + n) % Width
Unbuffered == IF capacity = 0 THEN 1 ELSE 0

-----------------------------------------------------------------------------
\* A producer whose loop runs once too often.
CallsLeftOnceMore(t) == calls[t] <= Items

\* i < kMaxMessagesCount
CallsLeft(t) == calls[t] < Items

\* The predicate of the waits in send.
MaySend == IF capacity = 0 THEN waitingReceivers > 0 ELSE queue < capacity

\* A push that notifies nobody.
PushSilently(t) ==
  /\ queue' = queue + 1
  /\ UNCHANGED cv_recv /\ NotifySelectors
  /\ calls' = [calls EXCEPT ![t] = @ + 1] /\ Move(t, "call")

\* queue.push(value) and the notifications after it.
Push(t) ==
  /\ queue' = queue + 1
  /\ Notify(cv_recv, 1) /\ NotifySelectors
  /\ calls' = [calls EXCEPT ![t] = @ + 1] /\ Move(t, "call")

\* In send: called, or woken up from cv_send.wait.
InSend(t) ==
  \/ pc[t] = "call" /\ op[t] = "send" /\ CallsLeft(t)
  \/ pc[t] = "wait" /\ t \notin cv_send

\* send sends when it may,
Send(t) ==
  /\ InSend(t) /\ ~closed /\ MaySend
  /\ waitingReceivers' = Waiting(-Unbuffered)
  /\ Push(t)
  /\ UNCHANGED <<capacity, closed, cv_send, selectors, op>>
\* goes to sleep as long as it may not,
SendWait(t) ==
  /\ InSend(t) /\ ~closed /\ ~MaySend
  /\ cv_send' = cv_send \cup {t} /\ Move(t, "wait")
  /\ UNCHANGED <<capacity, queue, closed, waitingReceivers, cv_recv, selectors, cv, op, calls>>
\* and throws when the channel is closed.
SendThrow(t) ==
  /\ InSend(t) /\ closed
  /\ Move(t, "done")
  /\ UNCHANGED <<channelVars, op, calls>>

\* try_send pushes unless the channel is closed or its buffer full.
TrySend(t) ==
  /\ pc[t] = "call" /\ op[t] = "try_send" /\ CallsLeft(t)
  /\ IF closed \/ (capacity # 0 /\ queue >= capacity)
     THEN /\ calls' = [calls EXCEPT ![t] = @ + 1] /\ Move(t, "failed")
          /\ UNCHANGED <<queue, cv_recv, cv>>
     ELSE Push(t)
  /\ UNCHANGED <<capacity, closed, waitingReceivers, cv_send, selectors, op>>
\* After a failure the producer asks is_closed(), and goes on with its next portion
\* if it is not.
IsClosed(t) ==
  /\ pc[t] = "failed"
  /\ Move(t, IF closed THEN "done" ELSE "call")
  /\ UNCHANGED <<channelVars, op, calls>>
ProducerEnds(t) ==
  /\ pc[t] = "call" /\ ~CallsLeft(t)
  /\ Move(t, "done")
  /\ UNCHANGED <<channelVars, op, calls>>

Producer(t) ==
  \/ Send(t) \/ SendWait(t) \/ SendThrow(t)
  \/ TrySend(t) \/ IsClosed(t) \/ ProducerEnds(t)

-----------------------------------------------------------------------------
\* The predicate of the waits in receive.
MayReceive == queue > 0 \/ closed

\* The end of receive: a value, or nullopt when the channel is closed and empty.
\* Senders it has notified before count with the one it notifies here.
Take(t, notified) ==
  IF queue > 0
  THEN queue' = queue - 1 /\ Notify(cv_send, notified + 1) /\ Move(t, "call")
  ELSE UNCHANGED queue /\ Notify(cv_send, notified) /\ Move(t, "done")

\* receive finds a value or the channel closed: an unbuffered one has counted itself
\* in, notified a sender and counted itself out again.
Receive(t) ==
  /\ pc[t] = "call" /\ MayReceive
  /\ Take(t, Unbuffered)
  /\ UNCHANGED <<capacity, closed, waitingReceivers, cv_recv, selectors, cv, op, calls>>

\* receive finds nothing: an unbuffered one counts itself in and notifies a sender;
\* it goes to sleep.
ReceiveWait(t) ==
  /\ pc[t] = "call" /\ ~MayReceive
  /\ waitingReceivers' = Waiting(Unbuffered) /\ Notify(cv_send, Unbuffered)
  /\ cv_recv' = cv_recv \cup {t} /\ Move(t, "wait")
  /\ UNCHANGED <<capacity, queue, closed, selectors, cv, op, calls>>

\* Woken up with nothing there, it goes to sleep again.
ReceiveSleep(t) ==
  /\ pc[t] = "wait" /\ t \notin cv_recv /\ ~MayReceive
  /\ cv_recv' = cv_recv \cup {t}
  /\ UNCHANGED <<capacity, queue, closed, waitingReceivers, cv_send, selectors, cv, clientVars>>

\* Woken up for good, an unbuffered one counts itself out: its sender has, too.
ReceiveWoken(t) ==
  /\ pc[t] = "wait" /\ t \notin cv_recv /\ MayReceive
  /\ waitingReceivers' = Waiting(-Unbuffered)
  /\ Take(t, 0)
  /\ UNCHANGED <<capacity, closed, cv_recv, selectors, cv, op, calls>>

Consumer(t) == Receive(t) \/ ReceiveWait(t) \/ ReceiveSleep(t) \/ ReceiveWoken(t)

\* try_receive, called by a selector
TryReceive ==
  /\ IF queue > 0 THEN queue' = queue - 1 /\ Notify(cv_send, 1)
                  ELSE UNCHANGED <<queue, cv_send>>
  /\ UNCHANGED <<capacity, closed, waitingReceivers, cv_recv, selectors, cv, clientVars>>

-----------------------------------------------------------------------------
\* A close that wakes only one thread of each kind.
CloseOne ==
  /\ ~closed /\ closed' = TRUE
  /\ Notify(cv_send, 1) /\ Notify(cv_recv, 1) /\ NotifySelectors
  /\ UNCHANGED <<capacity, queue, waitingReceivers, selectors, clientVars>>

\* close(), by main
Close ==
  /\ ~closed /\ closed' = TRUE
  /\ NotifyAll(cv_send) /\ NotifyAll(cv_recv) /\ NotifySelectors
  /\ UNCHANGED <<capacity, queue, waitingReceivers, selectors, clientVars>>

\* register_selector and unregister_selector
Register(registered) ==
  /\ selectors' = registered
  /\ UNCHANGED <<capacity, queue, closed, waitingReceivers, cv_send, cv_recv, clientVars>>

\* A condition variable may wake a thread for no reason.
Spurious ==
  /\ \/ \E t \in cv_send : cv_send' = cv_send \ {t} /\ UNCHANGED <<cv_recv, cv>>
     \/ \E t \in cv_recv : cv_recv' = cv_recv \ {t} /\ UNCHANGED <<cv_send, cv>>
     \/ cv /\ cv' = FALSE /\ UNCHANGED <<cv_send, cv_recv>>
  /\ UNCHANGED <<capacity, queue, closed, waitingReceivers, selectors, clientVars>>

-----------------------------------------------------------------------------
TypeOK ==
  /\ capacity \in Capacities /\ queue \in Nat /\ closed \in BOOLEAN
  /\ waitingReceivers \in 0 .. Width - 1
  /\ cv_send \subseteq Senders /\ cv_recv \subseteq Receivers
  /\ selectors \in BOOLEAN /\ cv \in BOOLEAN
  /\ op \in [Senders -> {"send", "try_send"}]
  /\ calls \in [Senders -> 0 .. Items]
  /\ pc \in [Senders \cup Receivers -> {"call", "wait", "failed", "done"}]

\* The threads in a wait that have been woken and not looked yet.
Woken(threads, asleep) == {t \in threads : pc[t] = "wait" /\ t \notin asleep}

\* No consumer sleeps on a value, and no producer on free space of a buffered channel,
\* that nobody is coming for: although every send notifies one consumer only and every
\* receive one producer, and a selector or a new call may take the value or the space
\* before the thread that was woken for it.
NoIdle ==
  /\ cv_recv # {} => queue <= Cardinality(Woken(Receivers, cv_recv))
  /\ cv_send # {} /\ capacity > 0 =>
       capacity - queue <= Cardinality(Woken(Senders, cv_send))

\* channel.hpp:41, send "Blocks [...] if there's no receiver (unbuffered)".
SendMeetsReceiver ==
  [][\A t \in Senders :
       capacity = 0 /\ op[t] = "send" /\ calls'[t] > calls[t] =>
         \E u \in Receivers : pc[u] = "wait"]_<<calls, pc>>
=============================================================================
