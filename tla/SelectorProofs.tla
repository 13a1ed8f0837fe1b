---------------------------- MODULE SelectorProofs ----------------------------
(***************************************************************************)
(* The channel and its selector, for any number of producers, consumers,   *)
(* capacities and items: nobody is left asleep on a value or on space that *)
(* no woken thread is coming for.                                          *)
(***************************************************************************)
EXTENDS Selector, FiniteSetTheorems, TLAPS

-----------------------------------------------------------------------------
(***************************************************************************)
(* Condition variables.                                                    *)
(***************************************************************************)

\* n calls of notify_one take some sleepers from the set; one call takes exactly one if
\* there is one.
LEMMA Notified1 ==
  ASSUME NEW a, NEW b, IsFiniteSet(a), NEW woken \in SUBSET a,
         Cardinality(woken) = 1 \/ (Cardinality(woken) < 1 /\ woken = a),
         b = a \ woken
  PROVE  (a = {} /\ b = {}) \/ \E u \in a : b = a \ {u}
<1>1. IsFiniteSet(woken) /\ Cardinality(woken) \in Nat
  BY FS_Subset, FS_CardinalityType
<1>2. CASE Cardinality(woken) = 1
  BY <1>1, <1>2, FS_Singleton
<1>3. CASE Cardinality(woken) < 1 /\ woken = a
  BY <1>1, <1>3, FS_EmptySet
<1> QED BY <1>2, <1>3

LEMMA Notified0 ==
  ASSUME NEW a, NEW b, IsFiniteSet(a), NEW woken \in SUBSET a,
         Cardinality(woken) = 0 \/ (Cardinality(woken) < 0 /\ woken = a),
         b = a \ woken
  PROVE  b = a
<1>1. IsFiniteSet(woken) /\ Cardinality(woken) \in Nat
  BY FS_Subset, FS_CardinalityType
<1>2. woken = {}
  BY <1>1, FS_EmptySet
<1> QED BY <1>2

\* What there is, n, stays within the number of threads that were woken for it.
LEMMA Balance ==
  ASSUME NEW W, NEW W2, IsFiniteSet(W), IsFiniteSet(W2), NEW n \in Int, NEW m \in Int,
         m <= 0 \/ n <= Cardinality(W),
         \/ m <= 0
         \/ m <= n /\ W \subseteq W2
         \/ m = n + 1 /\ \E u : u \notin W /\ W2 = W \cup {u}
         \/ m = n - 1 /\ \E u \in W : W2 = W \ {u}
  PROVE  m <= Cardinality(W2)
<1>1. Cardinality(W) \in Nat /\ Cardinality(W2) \in Nat
  BY FS_CardinalityType
<1>2. CASE m <= n /\ W \subseteq W2
  <2>1. Cardinality(W) <= Cardinality(W2)
    BY <1>2, FS_Subset
  <2> QED BY <1>1, <1>2, <2>1
<1>3. CASE m = n + 1 /\ \E u : u \notin W /\ W2 = W \cup {u}
  <2>1. Cardinality(W2) = Cardinality(W) + 1
    BY <1>3, FS_AddElement
  <2> QED BY <1>1, <1>3, <2>1
<1>4. CASE m = n - 1 /\ \E u \in W : W2 = W \ {u}
  <2>1. Cardinality(W2) = Cardinality(W) - 1
    BY <1>4, FS_RemoveElement
  <2> QED BY <1>1, <1>4, <2>1
<1> QED BY <1>1, <1>2, <1>3, <1>4

-----------------------------------------------------------------------------
(***************************************************************************)
(* Types.                                                                  *)
(***************************************************************************)

LEMMA WidthIsPositive == Width \in Nat \ {0}
<1>1. Cardinality(Senders) \in Nat /\ Cardinality(Receivers) \in Nat
  BY ThreadsAssumption, FS_CardinalityType
<1>2. Items * Cardinality(Senders) \in Nat
  BY <1>1, ItemsAssumption
<1> QED BY <1>1, <1>2, WidthAssumption

\* waitingReceivers stays a size_t.
LEMMA WaitingType ==
  ASSUME waitingReceivers \in Int, NEW n \in Int
  PROVE  Waiting(n) \in 0 .. Width - 1
  BY WidthIsPositive DEF Waiting

\* Who sleeps is in a wait, nobody does when the channel is closed, and a producer in a
\* wait has an item to send.
Sleepers ==
  /\ \A t \in cv_recv \cup cv_send : pc[t] = "wait"
  /\ closed => cv_recv = {} /\ cv_send = {}
  /\ \A t \in Senders : pc[t] = "wait" => CallsLeft(t)

SelectorInv == SelectorTypeOK /\ Sleepers /\ NoIdle

LEMMA ProducerType ==
  ASSUME TypeOK, Sleepers, NEW t \in Senders, Producer(t)
  PROVE  TypeOK' /\ Sleepers'
<1> USE ThreadsAssumption, ItemsAssumption
    DEF TypeOK, Sleepers, InSend, CallsLeft, Move, Push, NotifySelectors, Notify, channelVars
<1>1. CASE Send(t)
  <2>1. waitingReceivers' \in 0 .. Width - 1
    BY <1>1, WaitingType DEF Send, Unbuffered
  <2>2. cv' \in BOOLEAN
    BY <1>1 DEF Send
  <2> QED BY <1>1, <2>1, <2>2 DEF Send
<1>2. CASE SendWait(t)
  BY <1>2 DEF SendWait
<1>3. CASE SendThrow(t)
  BY <1>3 DEF SendThrow
<1>4. CASE TrySend(t)
  <2>1. cv' \in BOOLEAN
    BY <1>4 DEF TrySend
  <2> QED BY <1>4, <2>1 DEF TrySend
<1>5. CASE IsClosed(t)
  BY <1>5 DEF IsClosed
<1>6. CASE ProducerEnds(t)
  BY <1>6 DEF ProducerEnds
<1> QED BY <1>1, <1>2, <1>3, <1>4, <1>5, <1>6 DEF Producer

LEMMA ConsumerType ==
  ASSUME TypeOK, Sleepers, NEW t \in Receivers, Consumer(t)
  PROVE  TypeOK' /\ Sleepers'
<1> USE ThreadsAssumption, ItemsAssumption
    DEF TypeOK, Sleepers, CallsLeft, Move, Take, Notify, MayReceive, clientVars
<1>1. CASE Receive(t)
  BY <1>1 DEF Receive
<1>2. CASE ReceiveWait(t)
  <2>1. waitingReceivers' \in 0 .. Width - 1
    BY <1>2, WaitingType DEF ReceiveWait, Unbuffered
  <2> QED BY <1>2, <2>1 DEF ReceiveWait
<1>3. CASE ReceiveSleep(t)
  BY <1>3 DEF ReceiveSleep
<1>4. CASE ReceiveWoken(t)
  <2>1. waitingReceivers' \in 0 .. Width - 1
    BY <1>4, WaitingType DEF ReceiveWoken, Unbuffered
  <2> QED BY <1>4, <2>1 DEF ReceiveWoken
<1> QED BY <1>1, <1>2, <1>3, <1>4 DEF Consumer

LEMMA ChannelType ==
  ASSUME TypeOK, Sleepers, Close \/ Spurious \/ TryReceive
  PROVE  TypeOK' /\ Sleepers'
<1> USE DEF TypeOK, Sleepers, CallsLeft, clientVars, NotifyAll, Notify
<1>1. CASE Close
  <2>1. cv' \in BOOLEAN
    BY <1>1 DEF Close, NotifySelectors
  <2> QED BY <1>1, <2>1 DEF Close
<1>2. CASE Spurious
  BY <1>2 DEF Spurious
<1>3. CASE TryReceive
  BY <1>3 DEF TryReceive
<1> QED BY <1>1, <1>2, <1>3

LEMMA TypeStep == SelectorTypeOK /\ Sleepers /\ [Next]_vars => SelectorTypeOK' /\ Sleepers'
<1> SUFFICES ASSUME SelectorTypeOK, Sleepers, [Next]_vars PROVE SelectorTypeOK' /\ Sleepers'
  OBVIOUS
<1> USE DEF SelectorTypeOK, selectVars, stopVars
<1>1. ASSUME NEW t \in Senders, Producer(t), UNCHANGED <<selectVars, stopVars>>
      PROVE  SelectorTypeOK' /\ Sleepers'
  BY <1>1, ProducerType
<1>2. ASSUME NEW t \in Receivers, Consumer(t), UNCHANGED <<selectVars, stopVars>>
      PROVE  SelectorTypeOK' /\ Sleepers'
  BY <1>2, ConsumerType
<1>3. CASE (Close \/ Spurious) /\ UNCHANGED <<selectVars, stopVars>>
  BY <1>3, ChannelType
<1>4. CASE Try
  BY <1>4, ChannelType DEF Try
<1>5. ASSUME UNCHANGED <<capacity, queue, closed, waitingReceivers, cv_send, cv_recv,
                         clientVars>>,
             selectors' \in BOOLEAN, cv' \in BOOLEAN
      PROVE  TypeOK' /\ Sleepers'
  BY <1>5 DEF TypeOK, Sleepers, CallsLeft, clientVars
<1>6. CASE AddReceive \/ Unregister
  <2>1. TypeOK' /\ Sleepers'
    BY <1>5, <1>6 DEF AddReceive, Unregister, Register, TypeOK
  <2>2. channels' \in BOOLEAN /\ stop_flag_' \in BOOLEAN
    BY <1>6, Zenon DEF AddReceive, Unregister
  <2> QED BY <1>6, <2>1, <2>2 DEF AddReceive, Unregister
<1>7. CASE Loop \/ Predicate \/ Closed \/ Wake \/ Stop \/ Sleep \/ StopNotify
  <2>1. TypeOK' /\ Sleepers'
    BY <1>5, <1>7 DEF Loop, Predicate, Closed, Wake, Stop, Sleep, StopNotify, TypeOK,
        channelVars
  <2>2. channels' \in BOOLEAN /\ stop_flag_' \in BOOLEAN
    BY <1>7, Zenon DEF Loop, Predicate, Closed, Wake, Stop, Sleep, StopNotify
  <2>3. CASE Loop \/ Predicate \/ Closed \/ Wake
    BY <2>1, <2>2, <2>3 DEF Loop, Predicate, Closed, Wake
  <2>4. CASE Stop \/ Sleep \/ StopNotify
    BY <2>1, <2>2, <2>4 DEF Stop, Sleep, StopNotify
  <2> QED BY <1>7, <2>3, <2>4
<1>8. CASE UNCHANGED vars
  BY <1>8 DEF vars, TypeOK, Sleepers, CallsLeft, channelVars, clientVars
<1> QED BY <1>1, <1>2, <1>3, <1>4, <1>5, <1>6, <1>7, <1>8 DEF Next, Select, Join

-----------------------------------------------------------------------------
(***************************************************************************)
(* Nobody idles.  The consumers were woken for the values, the producers   *)
(* for the space: n of one thing before the step and m after it, W the     *)
(* threads woken for it before and W2 after it, A2 those that still sleep. *)
(***************************************************************************)
Kept(n, m, W, W2, A, A2) ==
  A2 # {} =>
    \/ m <= 0
    \/ /\ A # {}
       /\ \/ m <= n /\ W \subseteq W2
          \/ m = n + 1 /\ \E u : u \notin W /\ W2 = W \cup {u}
          \/ m = n - 1 /\ \E u \in W : W2 = W \ {u}

KeptValues == Kept(queue, queue', Woken(Receivers, cv_recv), Woken(Receivers, cv_recv)',
                   cv_recv, cv_recv')
KeptSpace == capacity > 0 =>
  Kept(capacity - queue, capacity' - queue', Woken(Senders, cv_send), Woken(Senders, cv_send)',
       cv_send, cv_send')

\* One call of notify_one
Wakes(a, b) == (a = {} /\ b = {}) \/ \E u \in a : b = a \ {u}

LEMMA WakesRecv == ASSUME TypeOK, Notify(cv_recv, 1) PROVE Wakes(cv_recv, cv_recv')
<1>1. IsFiniteSet(cv_recv)
  BY ThreadsAssumption, FS_Subset DEF TypeOK
<1> QED BY <1>1, Notified1 DEF Notify, Wakes
LEMMA WakesSend ==
  ASSUME TypeOK
  PROVE  /\ Notify(cv_send, 1) => Wakes(cv_send, cv_send')
         /\ Notify(cv_send, 0) => cv_send' = cv_send
<1>1. IsFiniteSet(cv_send)
  BY ThreadsAssumption, FS_Subset DEF TypeOK
<1> QED BY <1>1, Notified1, Notified0 DEF Notify, Wakes

LEMMA ProducerKeeps ==
  ASSUME TypeOK, Sleepers, NEW t \in Senders, Producer(t)
  PROVE  KeptValues /\ KeptSpace
<1> USE ThreadsAssumption, CapacitiesAssumption
    DEF TypeOK, Sleepers, InSend, Move, Kept, KeptValues, KeptSpace, Woken, Wakes, channelVars
<1>0. ASSUME Push(t) PROVE Wakes(cv_recv, cv_recv')
  BY <1>0, WakesRecv DEF Push
<1>1. CASE Send(t)
  <2>1. KeptValues
    BY <1>1, <1>0 DEF Send, Push
  <2>2. KeptSpace
    BY <1>1 DEF Send, Push
  <2> QED BY <2>1, <2>2
<1>2. CASE SendWait(t)
  BY <1>2 DEF SendWait, MaySend
<1>3. CASE SendThrow(t)
  BY <1>3 DEF SendThrow
<1>4. CASE TrySend(t)
  <2>1. KeptValues
    BY <1>4, <1>0 DEF TrySend, Push
  <2>2. KeptSpace
    BY <1>4 DEF TrySend, Push
  <2> QED BY <2>1, <2>2
<1>5. CASE IsClosed(t)
  BY <1>5 DEF IsClosed
<1>6. CASE ProducerEnds(t)
  BY <1>6 DEF ProducerEnds
<1> QED BY <1>1, <1>2, <1>3, <1>4, <1>5, <1>6 DEF Producer

LEMMA ConsumerKeeps ==
  ASSUME TypeOK, Sleepers, NEW t \in Receivers, Consumer(t)
  PROVE  KeptValues /\ KeptSpace
<1> USE ThreadsAssumption, CapacitiesAssumption
    DEF TypeOK, Sleepers, Move, Kept, KeptValues, KeptSpace, Woken, MayReceive, clientVars
<1>0. ASSUME capacity > 0
      PROVE  /\ Unbuffered = 0
             /\ Take(t, 0) => IF queue > 0 THEN Wakes(cv_send, cv_send') ELSE cv_send' = cv_send
             /\ Notify(cv_send, 0) => cv_send' = cv_send
  BY <1>0, WakesSend DEF Unbuffered, Take
<1>1. CASE Receive(t)
  <2>1. KeptValues
    BY <1>1 DEF Receive, Take
  <2>2. KeptSpace
    BY <1>1, <1>0 DEF Receive, Take, Wakes
  <2> QED BY <2>1, <2>2
<1>2. CASE ReceiveWait(t)
  <2>1. KeptValues
    BY <1>2 DEF ReceiveWait
  <2>2. KeptSpace
    BY <1>2, <1>0 DEF ReceiveWait
  <2> QED BY <2>1, <2>2
<1>3. CASE ReceiveSleep(t)
  BY <1>3 DEF ReceiveSleep
<1>4. CASE ReceiveWoken(t)
  <2>1. KeptValues
    BY <1>4 DEF ReceiveWoken, Take
  <2>2. KeptSpace
    BY <1>4, <1>0 DEF ReceiveWoken, Take, Wakes
  <2> QED BY <2>1, <2>2
<1> QED BY <1>1, <1>2, <1>3, <1>4 DEF Consumer

LEMMA OthersKeep ==
  ASSUME TypeOK, Sleepers, Close \/ Spurious \/ TryReceive
  PROVE  KeptValues /\ KeptSpace
<1> USE ThreadsAssumption, CapacitiesAssumption
    DEF TypeOK, Sleepers, Kept, KeptValues, KeptSpace, Woken, clientVars
<1>1. CASE Close
  BY <1>1 DEF Close, NotifyAll
<1>2. CASE Spurious
  <2>1. KeptValues
    BY <1>2 DEF Spurious
  <2>2. KeptSpace
    BY <1>2 DEF Spurious
  <2> QED BY <2>1, <2>2
<1>3. CASE TryReceive
  <2>1. KeptValues
    BY <1>3 DEF TryReceive
  <2>2. KeptSpace
    BY <1>3, WakesSend DEF TryReceive, Wakes
  <2> QED BY <2>1, <2>2
<1> QED BY <1>1, <1>2, <1>3

LEMMA StepKeeps ==
  ASSUME SelectorTypeOK, Sleepers, [Next]_vars
  PROVE  KeptValues /\ KeptSpace /\ capacity' = capacity
<1> USE DEF SelectorTypeOK
<1>1. ASSUME UNCHANGED <<capacity, queue, cv_send, cv_recv, clientVars>>
      PROVE  KeptValues /\ KeptSpace
  BY <1>1, CapacitiesAssumption DEF Kept, KeptValues, KeptSpace, Woken, clientVars, TypeOK
<1>2. CASE AddReceive \/ Unregister \/ Sleep \/ StopNotify
  BY <1>1, <1>2 DEF AddReceive, Unregister, Register, Sleep, StopNotify
<1>3. CASE Loop \/ Predicate \/ Closed \/ Wake \/ Stop \/ UNCHANGED vars
  BY <1>1, <1>3 DEF Loop, Predicate, Closed, Wake, Stop, vars, channelVars
<1>4. ASSUME NEW t \in Senders, Producer(t) PROVE KeptValues /\ KeptSpace /\ capacity' = capacity
  BY <1>4, ProducerKeeps DEF Producer, Send, SendWait, SendThrow, TrySend, IsClosed,
      ProducerEnds,
    channelVars
<1>5. ASSUME NEW t \in Receivers, Consumer(t) PROVE KeptValues /\ KeptSpace /\ capacity' = capacity
  BY <1>5, ConsumerKeeps DEF Consumer, Receive, ReceiveWait, ReceiveSleep, ReceiveWoken
<1>6. CASE Close \/ Spurious \/ Try
  BY <1>6, OthersKeep DEF Close, Spurious, Try, TryReceive
<1> QED BY <1>2, <1>3, <1>4, <1>5, <1>6 DEF Next, Select, Join

LEMMA IdleStep ==
  ASSUME SelectorInv, [Next]_vars
  PROVE  NoIdle'
<1> DEFINE R == Woken(Receivers, cv_recv)
           S == Woken(Senders, cv_send)
<1>1. SelectorTypeOK' /\ TypeOK /\ TypeOK'
  BY TypeStep DEF SelectorInv, SelectorTypeOK
<1>2. IsFiniteSet(R) /\ IsFiniteSet(R') /\ IsFiniteSet(S) /\ IsFiniteSet(S')
  <2>1. \A T : T \subseteq Receivers \/ T \subseteq Senders => IsFiniteSet(T)
    BY ThreadsAssumption, FS_Subset
  <2>2. R \subseteq Receivers /\ R' \subseteq Receivers /\ S \subseteq Senders /\ S' \subseteq Senders
    BY DEF Woken
  <2> QED BY <2>1, <2>2
<1>3. queue \in Int /\ queue' \in Int /\ capacity \in Int /\ capacity' = capacity
  BY <1>1, CapacitiesAssumption, StepKeeps DEF TypeOK, SelectorInv
<1>4. ASSUME cv_recv' # {} PROVE queue' <= Cardinality(R')
  <2>1. KeptValues /\ (cv_recv # {} => queue <= Cardinality(R))
    BY StepKeeps DEF SelectorInv, NoIdle
  <2> QED BY <1>2, <1>3, <1>4, <2>1, Balance DEF Kept, KeptValues
<1>5. ASSUME cv_send' # {}, capacity > 0 PROVE capacity' - queue' <= Cardinality(S')
  <2>1. KeptSpace /\ (cv_send # {} => capacity - queue <= Cardinality(S))
    BY <1>5, StepKeeps DEF SelectorInv, NoIdle
  <2>2. capacity - queue \in Int /\ capacity' - queue' \in Int
    BY <1>3
  <2> QED BY <1>2, <1>5, <2>1, <2>2, Balance DEF Kept, KeptSpace
<1> QED BY <1>3, <1>4, <1>5 DEF NoIdle

LEMMA SelectorInitInv == SelectorInit => SelectorInv
<1> SUFFICES ASSUME SelectorInit PROVE SelectorInv
  OBVIOUS
<1> USE ItemsAssumption, WidthIsPositive DEF SelectorInit, Init
<1>1. TypeOK
  <2>1. closed \in BOOLEAN /\ selectors \in BOOLEAN /\ cv \in BOOLEAN
    OBVIOUS
  <2>2. waitingReceivers \in 0 .. Width - 1 /\ calls \in [Senders -> 0 .. Items]
    OBVIOUS
  <2> QED BY <2>1, <2>2 DEF TypeOK
<1>2. channels \in BOOLEAN /\ stop_flag_ \in BOOLEAN
  OBVIOUS
<1>3. Sleepers /\ NoIdle
  BY DEF Sleepers, NoIdle
<1> QED BY <1>1, <1>2, <1>3 DEF SelectorInv, SelectorTypeOK

LEMMA SelectorAlways == Spec => []SelectorInv
<1>1. SelectorInv /\ [Next]_vars => SelectorInv'
  BY TypeStep, IdleStep DEF SelectorInv
<1> QED BY <1>1, SelectorInitInv, PTL DEF Spec

\* The channel, the selector and their clients keep their types: above all,
\* waitingReceivers stays a size_t, and no producer sends more than its items.
THEOREM SelectorTypes == Spec => []SelectorTypeOK
  BY SelectorAlways, PTL DEF SelectorInv

\* No thread sleeps on a value or on free space that no woken thread is coming for, for
\* any number of producers and consumers, any capacity, and spurious wake-ups at any
\* time: one notification per value and per slot is enough.
THEOREM NobodyIdles == Spec => []NoIdle
  BY SelectorAlways, PTL DEF SelectorInv
=============================================================================
