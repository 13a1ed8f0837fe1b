--------------------------- MODULE CountersProofs ---------------------------
(***************************************************************************)
(* The two lock-free algorithms whose threads agree through counters.      *)
(* The indexes of MPSCQueue keep their order, and what one producer pushes *)
(* is popped in that order, for every finite set of producers, every       *)
(* capacity and every number of messages.  No load of the sequence locks   *)
(* is torn unless the counter came round, for every number of readers,     *)
(* writers, words and stores and every even number of counter values.      *)
(***************************************************************************)
EXTENDS MPSCQueue, SeqLock, FiniteSetTheorems, TLAPS

USE DEF indexes

LEMMA CurrentType ==
  ASSUME NEW p \in Producers, TypeOK, sent[p] < Items
  PROVE  Current(p) \in Message
<1>1. sent[p] + 1 \in 1 .. Items
  BY ItemsAssumption DEF TypeOK
<1> QED
  BY <1>1, Zenon DEF Current, Message

\* The type invariant of mpsc_queue.h's state and its clients, together with the
\* bound of the clients' loops that it rests on.
THEOREM TypeCorrect ==
  Spec => [](TypeOK /\ \A p \in Producers : pc[p] # "load" => sent[p] < Items)
<1> DEFINE I == TypeOK /\ \A p \in Producers : pc[p] # "load" => sent[p] < Items
<1>1. Init => I
  BY CapacityAssumption, ItemsAssumption DEF Init, TypeOK
<1>2. I /\ [Next]_vars => I'
  <2> SUFFICES ASSUME I, [Next]_vars PROVE I'
    OBVIOUS
  <2> USE CapacityAssumption, ItemsAssumption DEF TypeOK, Goto
  <2>1. ASSUME NEW p \in Producers, PushLoadReserve(p) PROVE I'
    BY <2>1 DEF PushLoadReserve
  <2>2. ASSUME NEW p \in Producers, PushLoadRead(p) PROVE I'
    BY <2>2 DEF PushLoadRead
  <2>3. ASSUME NEW p \in Producers, PushReserve(p) PROVE I'
    <3>1. Current(p) \in Message
      BY <2>3, CurrentType DEF PushReserve
    <3>2. Append(reserved, Current(p)) \in Seq(Message)
      BY <3>1
    <3> HIDE DEF Current, Message
    <3> QED
      BY <2>3, <3>2 DEF PushReserve
  <2>4. ASSUME NEW p \in Producers, PushReserveFails(p) PROVE I'
    BY <2>4 DEF PushReserveFails
  <2>5. ASSUME NEW p \in Producers, PushWrite(p) PROVE I'
    <3>1. Current(p) \in Message
      BY <2>5, CurrentType DEF PushWrite
    <3>2. buf' \in [0 .. Capacity - 1 -> Message \cup {None}]
      BY <2>5, <3>1 DEF PushWrite
    <3> QED
      BY <2>5, <3>2 DEF PushWrite
  <2>6. ASSUME NEW p \in Producers, PushCommit(p) PROVE I'
    BY <2>6 DEF PushCommit
  <2>7. ASSUME NEW p \in Producers, PushCommitFails(p) PROVE I'
    BY <2>7 DEF PushCommitFails
  <2>8. CASE PopLoadRead
    BY <2>8 DEF PopLoadRead
  <2>9. CASE PopLoadCommit
    BY <2>9 DEF PopLoadCommit
  <2>10. CASE PopRead
    <3>1. cr % Capacity \in 0 .. Capacity - 1
      OBVIOUS
    <3> QED
      BY <2>10, <3>1 DEF PopRead
  <2>11. CASE PopStore
    BY <2>11 DEF PopStore
  <2>12. CASE UNCHANGED vars
    BY <2>12 DEF vars
  <2> QED
    BY <2>1, <2>2, <2>3, <2>4, <2>5, <2>6, <2>7, <2>8, <2>9, <2>10, <2>11, <2>12
    DEF Next, Push, Pop
<1> QED
  BY <1>1, <1>2, PTL DEF Spec

-----------------------------------------------------------------------------
\* The set of uncommitted reservations is finite; it changes by the producer that
\* reserves or commits, and by nobody else.
LEMMA PendingFinite == IsFiniteSet(Pending) /\ Cardinality(Pending) \in Nat
BY ProducersAssumption, FS_Subset, FS_CardinalityType DEF Pending

LEMMA PendingGrows ==
  ASSUME NEW p \in Producers, TypeOK, pc[p] = "reserve", Goto(p, "write")
  PROVE  Cardinality(Pending') = Cardinality(Pending) + 1
<1>1. Pending' = Pending \cup {p} /\ p \notin Pending
  BY DEF Pending, Goto, TypeOK
<1> QED
  BY <1>1, PendingFinite, FS_AddElement

LEMMA PendingShrinks ==
  ASSUME NEW p \in Producers, TypeOK, pc[p] = "commit", Goto(p, "load")
  PROVE  Cardinality(Pending') = Cardinality(Pending) - 1
<1>1. Pending' = Pending \ {p} /\ p \in Pending
  BY DEF Pending, Goto, TypeOK
<1> QED
  BY <1>1, PendingFinite, FS_RemoveElement

LEMMA PendingKept ==
  ASSUME TypeOK, NEW p \in Producers, NEW to,
         Goto(p, to), to \in {"write", "commit"} <=> p \in Pending
  PROVE  Pending' = Pending
BY DEF Pending, Goto, TypeOK

LEMMA IndexInvHolds == Spec => [](TypeOK /\ IndexInv)
<1> DEFINE T == TypeOK /\ \A p \in Producers : pc[p] # "load" => sent[p] < Items
<1>1. Init => IndexInv
  <2>1. Init => Pending = {}
    BY DEF Init, Pending
  <2>2. Init => Cardinality(Pending) = 0
    BY <2>1, FS_EmptySet
  <2> QED
    BY <2>2, CapacityAssumption, ItemsAssumption DEF Init, IndexInv
<1>2. T /\ T' /\ IndexInv /\ [Next]_vars => IndexInv'
  <2> SUFFICES ASSUME T, T', IndexInv, [Next]_vars PROVE IndexInv'
    OBVIOUS
  <2>0. Cardinality(Pending) \in Nat
    BY PendingFinite
  <2> USE CapacityAssumption, <2>0 DEF TypeOK, IndexInv
  <2>1. ASSUME NEW p \in Producers, PushLoadReserve(p) PROVE IndexInv'
    <3>1. Pending' = Pending
      BY <2>1, PendingKept DEF PushLoadReserve, Pending
    <3> QED
      BY <2>1, <3>1 DEF PushLoadReserve, Goto
  <2>2. ASSUME NEW p \in Producers, PushLoadRead(p) PROVE IndexInv'
    <3>1. Pending' = Pending
      BY <2>2, PendingKept DEF PushLoadRead, Pending
    <3>2. pc'[p] = "reserve" => r'[p] <= readIndex' /\ rw'[p] - r'[p] < Capacity
      BY <2>2 DEF PushLoadRead, Goto, Full
    <3> QED
      BY <2>2, <3>1, <3>2 DEF PushLoadRead, Goto
  <2>3. ASSUME NEW p \in Producers, PushReserve(p) PROVE IndexInv'
    <3>1. Cardinality(Pending') = Cardinality(Pending) + 1
      BY <2>3, PendingGrows DEF PushReserve
    <3>2. /\ reserveWriteIndex' = reserveWriteIndex + 1
          /\ reserveWriteIndex = rw[p] /\ pc[p] = "reserve"
          /\ pc' = [pc EXCEPT ![p] = "write"]
          /\ UNCHANGED <<readIndex, commitWriteIndex, rw, r, sent, cpc, cr>>
      BY <2>3 DEF PushReserve, Goto
    <3>3. reserveWriteIndex' <= readIndex' + Capacity
      <4>1. /\ rw[p] \in Nat /\ r[p] \in Nat /\ readIndex \in Nat
            /\ reserveWriteIndex \in Nat
        OBVIOUS
      <4>2. r[p] <= readIndex /\ rw[p] - r[p] < Capacity
        BY <3>2
      <4> HIDE DEF TypeOK, IndexInv
      <4> QED
        BY <3>2, <4>1, <4>2
    <3>4. ASSUME NEW q \in Producers
          PROVE  /\ pc'[q] # "load" => sent'[q] < Items
                 /\ pc'[q] \in {"check", "reserve"} => rw'[q] <= reserveWriteIndex'
                 /\ pc'[q] = "reserve" => r'[q] <= readIndex' /\ rw'[q] - r'[q] < Capacity
      <4>1. CASE q = p
        <5>1. pc'[q] = "write" /\ sent[q] < Items
          BY <3>2, <4>1
        <5> QED
          BY <3>2, <5>1
      <4>2. CASE q # p
        <5>1. pc'[q] = pc[q]
          BY <3>2, <4>2
        <5>2. rw[q] \in Nat /\ r[q] \in Nat /\ reserveWriteIndex \in Nat
          OBVIOUS
        <5>3. /\ pc[q] # "load" => sent[q] < Items
              /\ pc[q] \in {"check", "reserve"} => rw[q] <= reserveWriteIndex
              /\ pc[q] = "reserve" => r[q] <= readIndex /\ rw[q] - r[q] < Capacity
          OBVIOUS
        <5> HIDE DEF TypeOK, IndexInv
        <5> QED
          BY <3>2, <5>1, <5>2, <5>3
      <4> QED
        BY <4>1, <4>2
    <3>5. commitWriteIndex' + Cardinality(Pending') = reserveWriteIndex'
      <4>1. commitWriteIndex \in Nat /\ reserveWriteIndex \in Nat
        OBVIOUS
      <4> QED
        BY <3>1, <3>2, <4>1
    <3>6. /\ readIndex' <= commitWriteIndex'
          /\ cpc' # "load" => cr' = readIndex'
          /\ cpc' \in {"read", "store"} => readIndex' < commitWriteIndex'
      BY <3>2
    <3> HIDE DEF TypeOK
    <3> QED
      BY <3>3, <3>4, <3>5, <3>6
  <2>4. ASSUME NEW p \in Producers, PushReserveFails(p) PROVE IndexInv'
    <3>1. Pending' = Pending
      BY <2>4, PendingKept DEF PushReserveFails, Pending
    <3> QED
      BY <2>4, <3>1 DEF PushReserveFails, Goto
  <2>5. ASSUME NEW p \in Producers, PushWrite(p) PROVE IndexInv'
    <3>1. Pending' = Pending
      BY <2>5, PendingKept DEF PushWrite, Pending
    <3> QED
      BY <2>5, <3>1 DEF PushWrite, Goto
  <2>6. ASSUME NEW p \in Producers, PushCommit(p) PROVE IndexInv'
    <3>1. Cardinality(Pending') = Cardinality(Pending) - 1
      BY <2>6, PendingShrinks DEF PushCommit
    <3> QED
      BY <2>6, <3>1 DEF PushCommit, Goto
  <2>7. ASSUME NEW p \in Producers, PushCommitFails(p) PROVE IndexInv'
    BY <2>7 DEF PushCommitFails, Pending
  <2>8. CASE PopLoadRead
    BY <2>8 DEF PopLoadRead, Pending
  <2>9. CASE PopLoadCommit
    BY <2>9 DEF PopLoadCommit, Pending
  <2>10. CASE PopRead
    BY <2>10 DEF PopRead, Pending
  <2>11. CASE PopStore
    BY <2>11 DEF PopStore, Pending
  <2>12. CASE UNCHANGED vars
    BY <2>12 DEF vars, Pending
  <2> QED
    BY <2>1, <2>2, <2>3, <2>4, <2>5, <2>6, <2>7, <2>8, <2>9, <2>10, <2>11, <2>12
    DEF Next, Push, Pop
<1> QED
  BY <1>1, <1>2, TypeCorrect, PTL DEF Spec

\* readIndex <= commitWriteIndex <= reserveWriteIndex <= readIndex + capacity
\* in every reachable state of the queue, whatever the number of producers.
THEOREM IndexOrderHolds == Spec => []IndexOrder
<1>1. TypeOK /\ IndexInv => IndexOrder
  BY PendingFinite DEF TypeOK, IndexInv, IndexOrder
<1> QED
  BY <1>1, IndexInvHolds, PTL

-----------------------------------------------------------------------------
(***************************************************************************)
(* The queue of one producer.  The failing CAS of a commit, which gives a  *)
(* producer the index of another's slot, does no harm while there is no    *)
(* other producer with a reservation: the index it finds is its own.       *)
(***************************************************************************)

\* p has made all the reservations.
Sole(p) == \A n \in 1 .. Len(reserved) : reserved[n][1] = p

\* What is reserved, and what has been received
Lengths ==
  /\ Len(reserved) = reserveWriteIndex
  /\ cpc # "store" => Len(received) = readIndex
  /\ cpc = "store" => Len(received) = readIndex + 1

\* Nobody else is inside a push, p commits the slot it has reserved, and the slots
\* between the consumer and the commits hold what was reserved for them.
SoleFacts(p) ==
  /\ \A q \in Producers : pc[q] \in {"write", "commit"} => q = p
  /\ pc[p] \in {"write", "commit"} =>
       rw[p] = commitWriteIndex /\ reserved[Len(reserved)] = Current(p)
  /\ pc[p] = "commit" => buf[rw[p] % Capacity] = Current(p)
  /\ \A n \in Nat : readIndex <= n /\ n < commitWriteIndex => buf[n % Capacity] = reserved[n + 1]
  /\ \A n \in 1 .. Len(received) : received[n] = reserved[n]

SoleInv == Lengths /\ \A p \in Producers : Sole(p) => SoleFacts(p)

LEMMA NoMultiple ==
  ASSUME NEW c \in Nat, NEW d \in Int, 0 < c * d
  PROVE  ~ (c * d < c)
<1>1. d >= 1
  OBVIOUS
<1>2. c * d = c * (d - 1) + c
  OBVIOUS
<1>3. c * (d - 1) >= 0
  BY <1>1
<1>4. c * (d - 1) \in Int /\ c * d \in Int
  OBVIOUS
<1> QED BY <1>2, <1>3, <1>4

LEMMA OtherSlot ==
  ASSUME NEW a \in Nat, NEW b \in Nat, a < b, b - a < Capacity
  PROVE  a % Capacity # b % Capacity
<1> SUFFICES ASSUME a % Capacity = b % Capacity PROVE FALSE
  OBVIOUS
<1> DEFINE d == (b \div Capacity) - (a \div Capacity)
<1>1. /\ a = Capacity * (a \div Capacity) + (a % Capacity)
      /\ b = Capacity * (b \div Capacity) + (b % Capacity)
      /\ a \div Capacity \in Int /\ b \div Capacity \in Int /\ a % Capacity \in Int
  BY CapacityAssumption
<1>2. b - a = Capacity * d /\ d \in Int
  BY <1>1, CapacityAssumption
<1> HIDE DEF d
<1>3. 0 < Capacity * d /\ Capacity * d < Capacity
  BY <1>2
<1> QED BY <1>2, <1>3, CapacityAssumption, NoMultiple

LEMMA SlotType ==
  ASSUME NEW a \in Nat
  PROVE  a % Capacity \in 0 .. Capacity - 1
  BY CapacityAssumption

LEMMA SolePending ==
  ASSUME TypeOK, IndexInv, NEW p \in Producers, SoleFacts(p)
  PROVE  /\ pc[p] \notin {"write", "commit"} => commitWriteIndex = reserveWriteIndex
         /\ pc[p] \in {"write", "commit"} => commitWriteIndex + 1 = reserveWriteIndex
<1>1. CASE pc[p] \notin {"write", "commit"}
  <2>1. Pending = {}
    BY <1>1 DEF Pending, SoleFacts
  <2>2. Cardinality(Pending) = 0
    BY <2>1, FS_EmptySet
  <2> QED BY <1>1, <2>2 DEF IndexInv, TypeOK
<1>2. CASE pc[p] \in {"write", "commit"}
  <2>1. Pending = {p}
    BY <1>2 DEF Pending, SoleFacts
  <2>2. Cardinality(Pending) = 1
    BY <2>1, FS_Singleton
  <2> QED BY <1>2, <2>2 DEF IndexInv, TypeOK
<1> QED BY <1>1, <1>2

LEMMA LengthsStep ==
  ASSUME TypeOK, IndexInv, Lengths, [Next]_vars
  PROVE  Lengths'
<1> USE DEF TypeOK, IndexInv, Lengths
<1>1. ASSUME NEW p \in Producers, PushReserve(p) PROVE Lengths'
  <2>1. Len(reserved') = Len(reserved) + 1
    BY <1>1 DEF PushReserve
  <2> QED BY <1>1, <2>1 DEF PushReserve
<1>2. ASSUME NEW p \in Producers, Push(p), ~PushReserve(p) PROVE Lengths'
  BY <1>2 DEF Push, PushLoadReserve, PushLoadRead, PushReserveFails, PushWrite, PushCommit,
    PushCommitFails
<1>3. CASE PopRead
  <2>1. Len(received') = Len(received) + 1
    BY <1>3 DEF PopRead
  <2> QED BY <1>3, <2>1 DEF PopRead
<1>4. CASE PopLoadRead \/ PopLoadCommit \/ PopStore
  BY <1>4 DEF PopLoadRead, PopLoadCommit, PopStore
<1>5. CASE UNCHANGED vars
  BY <1>5 DEF vars
<1> QED BY <1>1, <1>2, <1>3, <1>4, <1>5 DEF Next, Pop

\* A step of a producer that leaves indexes, slots and messages alone
LEMMA SoleLooks ==
  ASSUME TypeOK, NEW p \in Producers, SoleFacts(p), NEW q \in Producers,
         UNCHANGED <<readIndex, commitWriteIndex, buf, sent, received, reserved>>,
         pc'[q] \notin {"write", "commit"},
         \A s \in Producers : s # q => pc'[s] = pc[s] /\ rw'[s] = rw[s]
  PROVE  SoleFacts(p)'
  BY DEF SoleFacts, TypeOK, Current

LEMMA SoleStep ==
  ASSUME TypeOK, TypeOK', IndexInv, Lengths, NEW p \in Producers, Sole(p)', Sole(p) => SoleFacts(p),
         [Next]_vars
  PROVE  SoleFacts(p)'
<1>0. Sole(p)
  <2>1. CASE reserved' = reserved
    BY <2>1 DEF Sole
  <2>2. ASSUME NEW q \in Producers, PushReserve(q) PROVE Sole(p)
    <3>1. /\ Len(reserved') = Len(reserved) + 1 /\ Len(reserved) \in Nat
          /\ \A n \in 1 .. Len(reserved) : reserved'[n] = reserved[n]
      BY <2>2 DEF PushReserve, TypeOK
    <3>2. \A n \in 1 .. Len(reserved) : n \in 1 .. Len(reserved')
      BY <3>1
    <3> QED BY <3>1, <3>2 DEF Sole
  <2> QED BY <2>1, <2>2
    DEF Next, Push, Pop, vars, PushLoadReserve, PushLoadRead, PushReserveFails, PushWrite,
        PushCommit, PushCommitFails, PopLoadRead, PopLoadCommit, PopRead, PopStore
<1>00. SoleFacts(p)
  BY <1>0
<1>1. ASSUME NEW q \in Producers, PushLoadReserve(q) \/ PushReserveFails(q) \/ PushLoadRead(q)
      PROVE  SoleFacts(p)'
  <2>1. /\ UNCHANGED <<readIndex, commitWriteIndex, buf, sent, received, reserved>>
        /\ pc'[q] \notin {"write", "commit"}
        /\ \A s \in Producers : s # q => pc'[s] = pc[s] /\ rw'[s] = rw[s]
    BY <1>1 DEF PushLoadReserve, PushReserveFails, PushLoadRead, Goto, TypeOK
  <2> QED BY <1>00, <2>1, SoleLooks
<1>2. ASSUME NEW q \in Producers, PushReserve(q) PROVE SoleFacts(p)'
  <2> DEFINE N == Len(reserved)
  <2>1. /\ N \in Nat /\ Len(reserved') = N + 1 /\ reserved'[N + 1] = Current(q)
        /\ \A n \in 1 .. N : reserved'[n] = reserved[n]
    BY <1>2 DEF PushReserve, TypeOK
  <2>2. q = p
    <3>1. N + 1 \in 1 .. Len(reserved') /\ Current(q)[1] = q
      BY <2>1 DEF Current
    <3> QED BY <2>1, <3>1 DEF Sole
  <2>3. /\ pc[p] = "reserve" /\ rw[p] = reserveWriteIndex /\ pc' = [pc EXCEPT ![p] = "write"]
        /\ UNCHANGED <<readIndex, commitWriteIndex, buf, rw, sent, received>>
    BY <1>2, <2>2 DEF PushReserve, Goto
  <2>4. commitWriteIndex = reserveWriteIndex
    BY <1>00, <2>3, SolePending
  <2>5. /\ N = reserveWriteIndex /\ \A n \in Nat : n < commitWriteIndex => n + 1 \in 1 .. N
        /\ Len(received) <= N /\ Len(received) \in Nat
    <3>1. N = reserveWriteIndex /\ readIndex \in Nat /\ N \in Nat /\ Len(received) \in Nat
      BY DEF Lengths, TypeOK
    <3>2. Len(received) <= commitWriteIndex
      <4>1. CASE cpc = "store"
        <5>1. readIndex < commitWriteIndex /\ Len(received) = readIndex + 1
          BY <4>1 DEF Lengths, IndexInv
        <5> QED BY <3>1, <5>1, <2>4
      <4>2. CASE cpc # "store"
        BY <4>2 DEF Lengths, IndexInv
      <4> QED BY <4>1, <4>2
    <3> QED BY <2>4, <3>1, <3>2
  <2>6. /\ \A s \in Producers : pc'[s] \in {"write", "commit"} => s = p
        /\ pc'[p] = "write" /\ rw'[p] = commitWriteIndex'
    BY <1>00, <2>3, <2>4 DEF SoleFacts, TypeOK
  <2>7. reserved'[Len(reserved')] = Current(p)'
    BY <2>1, <2>2, <2>3 DEF Current
  <2>8. \A n \in Nat : readIndex' <= n /\ n < commitWriteIndex' =>
                         buf'[n % Capacity] = reserved'[n + 1]
    <3> HIDE DEF N
    <3> QED BY <1>00, <2>1, <2>3, <2>5 DEF SoleFacts
  <2>9. \A n \in 1 .. Len(received') : received'[n] = reserved'[n]
    <3>1. \A n \in 1 .. Len(received) : n \in 1 .. N
      BY <2>1, <2>5
    <3> QED BY <1>00, <2>1, <2>3, <3>1 DEF SoleFacts
  <2> QED BY <2>6, <2>7, <2>8, <2>9 DEF SoleFacts
<1>3. ASSUME NEW q \in Producers, PushWrite(q) PROVE SoleFacts(p)'
  <2>1. /\ q = p /\ pc[p] = "write" /\ rw[p] = commitWriteIndex
        /\ pc' = [pc EXCEPT ![p] = "commit"]
        /\ buf' = [buf EXCEPT ![rw[p] % Capacity] = Current(p)]
        /\ UNCHANGED <<readIndex, commitWriteIndex, rw, sent, received, reserved>>
    BY <1>00, <1>3 DEF PushWrite, Goto, SoleFacts
  <2>2. commitWriteIndex + 1 <= readIndex + Capacity
    BY <1>00, <2>1, SolePending DEF IndexInv
  <2>3. \A n \in Nat : readIndex <= n /\ n < commitWriteIndex =>
                         n % Capacity # commitWriteIndex % Capacity
    <3> SUFFICES ASSUME NEW n \in Nat, readIndex <= n, n < commitWriteIndex
                 PROVE  n % Capacity # commitWriteIndex % Capacity
      OBVIOUS
    <3>1. commitWriteIndex \in Nat /\ readIndex \in Nat /\ Capacity \in Nat
      BY CapacityAssumption DEF TypeOK
    <3>2. commitWriteIndex - n < Capacity
      BY <2>2, <3>1
    <3> QED BY <3>1, <3>2, OtherSlot
  <2>4. /\ commitWriteIndex % Capacity \in DOMAIN buf
        /\ \A n \in Nat : n % Capacity \in DOMAIN buf
    BY SlotType DEF TypeOK
  <2>5. Current(p)' = Current(p)
    BY <2>1 DEF Current
  <2>6. /\ buf'[commitWriteIndex % Capacity] = Current(p)
        /\ \A n \in Nat : readIndex <= n /\ n < commitWriteIndex =>
                            buf'[n % Capacity] = buf[n % Capacity]
    BY <2>1, <2>3, <2>4
  <2> QED BY <1>00, <2>1, <2>5, <2>6 DEF SoleFacts, TypeOK
<1>4. ASSUME NEW q \in Producers, PushCommit(q) PROVE SoleFacts(p)'
  <2>1. /\ q = p /\ pc[p] = "commit" /\ rw[p] = commitWriteIndex
        /\ pc' = [pc EXCEPT ![p] = "load"] /\ commitWriteIndex' = commitWriteIndex + 1
        /\ UNCHANGED <<readIndex, buf, rw, received, reserved>>
    BY <1>00, <1>4 DEF PushCommit, Goto, SoleFacts
  <2>2. /\ buf[commitWriteIndex % Capacity] = reserved[commitWriteIndex + 1]
    <3>1. Len(reserved) = commitWriteIndex + 1
      BY <1>00, <2>1, SolePending DEF Lengths
    <3> QED BY <1>00, <2>1, <3>1 DEF SoleFacts
  <2>3. \A n \in Nat : n < commitWriteIndex + 1 => n < commitWriteIndex \/ n = commitWriteIndex
    BY DEF TypeOK
  <2> QED BY <1>00, <2>1, <2>2, <2>3 DEF SoleFacts, TypeOK
<1>5. ASSUME NEW q \in Producers, PushCommitFails(q) PROVE SoleFacts(p)'
  <2>1. /\ q = p /\ pc' = pc /\ rw' = [rw EXCEPT ![p] = commitWriteIndex] /\ rw[p] = commitWriteIndex
        /\ UNCHANGED <<readIndex, commitWriteIndex, buf, sent, received, reserved>>
    BY <1>00, <1>5 DEF PushCommitFails, SoleFacts
  <2>2. rw' = rw
    BY <2>1 DEF TypeOK
  <2> QED BY <1>00, <2>1, <2>2 DEF SoleFacts, Current
<1>6. CASE PopRead
  <2>1. /\ cr = readIndex /\ readIndex < commitWriteIndex /\ Len(received) = readIndex
        /\ readIndex \in Nat
    BY <1>6 DEF PopRead, IndexInv, Lengths, TypeOK
  <2>2. buf[cr % Capacity] = reserved[readIndex + 1]
    BY <1>00, <2>1 DEF SoleFacts
  <2>3. /\ Len(received') = readIndex + 1 /\ received'[readIndex + 1] = reserved[readIndex + 1]
        /\ \A n \in 1 .. Len(received) : received'[n] = received[n]
    BY <1>6, <2>1, <2>2 DEF PopRead, TypeOK
  <2>4. \A n \in 1 .. Len(received') : n \in 1 .. Len(received) \/ n = readIndex + 1
    BY <2>1, <2>3
  <2> QED BY <1>00, <1>6, <2>1, <2>3, <2>4 DEF PopRead, SoleFacts, Current
<1>7. CASE PopStore
  <2>1. readIndex' = readIndex + 1 /\ readIndex \in Nat
    BY <1>7 DEF PopStore, IndexInv, TypeOK
  <2> QED BY <1>00, <1>7, <2>1 DEF PopStore, SoleFacts, Current
<1>8. CASE PopLoadRead \/ PopLoadCommit
  BY <1>00, <1>8 DEF PopLoadRead, PopLoadCommit, SoleFacts, Current
<1>9. CASE UNCHANGED vars
  BY <1>00, <1>9 DEF vars, SoleFacts, Current
<1> QED BY <1>1, <1>2, <1>3, <1>4, <1>5, <1>6, <1>7, <1>8, <1>9 DEF Next, Push, Pop

\* As long as one producer makes all the reservations, the n-th pop returns the n-th
\* message it pushed, whatever the capacity, however far both are apart, and however
\* often the CAS of either loop fails.
THEOREM SoleProducerHolds == Spec => []SoleProducerFIFO
<1>1. Init => SoleInv
  <2> SUFFICES ASSUME Init PROVE SoleInv
    OBVIOUS
  <2>1. Lengths
    BY DEF Init, Lengths
  <2>2. \A p \in Producers : SoleFacts(p)
    BY DEF Init, SoleFacts
  <2> QED BY <2>1, <2>2 DEF SoleInv
<1>2. TypeOK /\ IndexInv /\ TypeOK' /\ SoleInv /\ [Next]_vars => SoleInv'
  BY LengthsStep, SoleStep DEF SoleInv
<1>3. TypeOK /\ IndexInv /\ SoleInv => SoleProducerFIFO
  <2> SUFFICES ASSUME TypeOK, IndexInv, SoleInv, NEW p \in Producers, Sole(p)
               PROVE  ReadsOnlyCommitted
    BY DEF SoleProducerFIFO, Sole
  <2>1. \A n \in 1 .. Len(received) : received[n] = reserved[n]
    BY DEF SoleInv, SoleFacts
  <2>2. /\ received \in Seq(Message \cup {None}) /\ reserved \in Seq(Message)
        /\ Len(received) \in Nat /\ Len(reserved) \in Nat
    BY DEF TypeOK
  <2>3. Len(received) <= Len(reserved)
    <3>1. Len(received) <= commitWriteIndex
      BY DEF SoleInv, Lengths, IndexInv, TypeOK
    <3>2. commitWriteIndex <= Len(reserved)
      BY PendingFinite DEF SoleInv, Lengths, IndexInv, TypeOK
    <3> QED BY <2>2, <3>1, <3>2 DEF TypeOK
  <2>4. received = SubSeq(reserved, 1, Len(received))
    BY <2>1, <2>2, <2>3
  <2> QED BY <2>3, <2>4 DEF ReadsOnlyCommitted
<1> QED BY <1>1, <1>2, <1>3, IndexInvHolds, PTL DEF Spec

-----------------------------------------------------------------------------
(***************************************************************************)
(* The sequence locks.                                                     *)
(***************************************************************************)
USE WrapAssumption, StoresAssumption

\* Counting modulo Wrap: parity alternates, and the counter is where it was only
\* after a full round.
LEMMA IncType == ASSUME NEW c \in 0 .. Wrap - 1 PROVE Inc(c) \in 0 .. Wrap - 1
BY DEF Inc

LEMMA IncParity == ASSUME NEW c \in 0 .. Wrap - 1 PROVE Odd(Inc(c)) <=> ~Odd(c)
BY DEF Inc, Odd

LEMMA IncAfter ==
  ASSUME NEW c \in 0 .. Wrap - 1, NEW n \in 0 .. Wrap - 1
  PROVE  n + 1 < Wrap => Inc(After(c, n)) = After(c, n + 1)
BY DEF Inc, After

LEMMA AfterSame ==
  ASSUME NEW c \in 0 .. Wrap - 1, NEW n \in 0 .. Wrap - 1, After(c, n) = c
  PROVE  n = 0
BY DEF After

-----------------------------------------------------------------------------
\* The writers' half of the invariant; the type of the state rests on it, since
\* only one writer at a time may be about to raise the version.
WInv == SeqTypeOK /\ WriterInv

LEMMA CountType ==
  ASSUME SeqTypeOK, Count
  PROVE  lap' \in [Readers -> 0 .. Wrap]
BY DEF SeqTypeOK, Count

LEMMA WInit == SeqInit => WInv
<1> SUFFICES ASSUME SeqInit PROVE WInv
  OBVIOUS
<1>1. SeqTypeOK
  BY DEF SeqInit, SeqTypeOK
<1>2. WriterInv
  BY DEF SeqInit, WriterInv, Busy, Writing, Odd
<1> QED
  BY <1>1, <1>2 DEF WInv

LEMMA WStep == WInv /\ [SeqNext]_seqVars => WInv'
<1> SUFFICES ASSUME WInv, [SeqNext]_seqVars PROVE WInv'
  OBVIOUS
<1> USE DEF WInv
<1>1. ASSUME NEW w \in Writers, StoreEnter(w) PROVE WInv'
  <2>1. SeqTypeOK'
    BY <1>1 DEF StoreEnter, SeqTypeOK, readerVars
  <2>2. /\ wpc[w] = "idle" /\ wpc' = [wpc EXCEPT ![w] = "begin"]
        /\ version < Stores /\ UNCHANGED <<variant, mCounter, mSharedValue, version, toWrite>>
        /\ variant = "spinlock" => mLock = {} /\ mLock' = {w}
        /\ variant = "rigtorp" => seq0'[w] = mCounter
        /\ variant # "spinlock" => w = TheWriter
    BY <1>1 DEF StoreEnter, MayStore, SeqTypeOK
  <2>3. \A v \in Writers : v # w => ~Busy(v) /\ wpc'[v] = "idle"
    <3>1. ASSUME NEW v \in Writers, v # w PROVE ~Busy(v)
      BY <2>2, <3>1, Zenon DEF WriterInv
    <3> QED
      BY <2>2, <3>1 DEF Busy, SeqTypeOK
  <2>4. ~Writing /\ ~Writing'
    BY <2>2, <2>3 DEF Writing, Busy, SeqTypeOK
  <2>5. wpc'[w] = "begin"
    BY <2>2 DEF SeqTypeOK
  <2>6. variant = "spinlock" => \A v \in Writers : (wpc'[v] # "idle") <=> mLock' = {v}
    BY <2>2, <2>3, <2>5
  <2>7. \A v \in Writers : variant # "spinlock" /\ wpc'[v] # "idle" => v = TheWriter
    BY <2>2, <2>3
  <2> QED
    BY <2>1, <2>2, <2>3, <2>4, <2>5, <2>6, <2>7 DEF WriterInv, Busy
<1>2. ASSUME NEW w \in Writers, StoreBegin(w) PROVE WInv'
  <2>1. /\ wpc[w] = "begin" /\ wpc' = [wpc EXCEPT ![w] = "write"]
        /\ toWrite' = [toWrite EXCEPT ![w] = Words]
        /\ version' = version + 1 /\ UNCHANGED <<variant, mSharedValue, mLock, seq0>>
    BY <1>2 DEF StoreBegin
  <2>2. mCounter' = Inc(mCounter) /\ (variant = "rigtorp" => seq0[w] = mCounter)
    BY <1>2 DEF StoreBegin, WriterInv
  <2>3. SeqTypeOK'
    <3>1. version' \in 0 .. Stores /\ mCounter' \in 0 .. Wrap - 1
      BY <2>1, <2>2, IncType DEF WriterInv, SeqTypeOK
    <3> QED
      BY <1>2, <2>1, <3>1, CountType DEF StoreBegin, SeqTypeOK, readerVars
  <2>4. \A v \in Writers : v # w => ~Busy(v) /\ wpc'[v] = "idle"
    BY <2>1 DEF WriterInv, Busy, SeqTypeOK
  <2>5. ~Writing /\ Writing'
    BY <2>1, <2>4 DEF Writing, Busy, SeqTypeOK
  <2>6. Odd(mCounter') /\ ~Odd(mCounter)
    BY <2>2, <2>5, IncParity DEF WriterInv, SeqTypeOK
  <2>7. wpc'[w] = "write" /\ toWrite'[w] = Words
    BY <2>1 DEF SeqTypeOK
  <2>8. version' > 0
    BY <2>1 DEF SeqTypeOK
  <2>9. variant = "spinlock" => \A v \in Writers : (wpc'[v] # "idle") <=> mLock' = {v}
    BY <2>1, <2>4, <2>7 DEF WriterInv, Busy
  <2> QED
    BY <2>1, <2>2, <2>3, <2>4, <2>5, <2>6, <2>7, <2>8, <2>9, Zenon DEF WriterInv, Busy
<1>3. ASSUME NEW w \in Writers, StoreWord(w) PROVE WInv'
  <2>1. PICK x \in toWrite[w] :
          /\ mSharedValue' = [mSharedValue EXCEPT ![x] = version]
          /\ toWrite' = [toWrite EXCEPT ![w] = @ \ {x}]
    BY <1>3 DEF StoreWord
  <2>2. wpc[w] = "write" /\ UNCHANGED <<variant, mCounter, mLock, version, wpc, seq0,
                                        readerVars, lap>>
    BY <1>3 DEF StoreWord
  <2>3. SeqTypeOK'
    BY <2>1, <2>2 DEF SeqTypeOK, readerVars
  <2>4. \A v \in Writers : v # w => ~Busy(v)
    BY <2>2 DEF WriterInv, Busy
  <2>5. \A y \in Words \ toWrite'[w] : mSharedValue'[y] = version'
    BY <2>1, <2>2 DEF WriterInv, SeqTypeOK
  <2> QED
    BY <2>2, <2>3, <2>4, <2>5 DEF WriterInv, Busy, Writing
<1>4. ASSUME NEW w \in Writers, StoreEnd(w) PROVE WInv'
  <2>1. /\ wpc[w] = "write" /\ toWrite[w] = {}
        /\ wpc' = [wpc EXCEPT ![w] = IF variant = "spinlock" THEN "unlock" ELSE "idle"]
        /\ UNCHANGED <<variant, mSharedValue, mLock, version, seq0, toWrite>>
    BY <1>4 DEF StoreEnd
  <2>2. mCounter' = Inc(mCounter)
    BY <1>4 DEF StoreEnd, WriterInv
  <2>3. SeqTypeOK'
    <3>1. mCounter' \in 0 .. Wrap - 1
      BY <2>2, IncType DEF SeqTypeOK
    <3> QED
      BY <1>4, <3>1, CountType DEF StoreEnd, SeqTypeOK, readerVars
  <2>4. \A v \in Writers : v # w => ~Busy(v) /\ wpc'[v] = "idle"
    BY <2>1 DEF WriterInv, Busy, SeqTypeOK
  <2>5. wpc'[w] = IF variant = "spinlock" THEN "unlock" ELSE "idle"
    BY <2>1 DEF SeqTypeOK
  <2>6. Writing /\ ~Writing'
    BY <2>1, <2>4, <2>5 DEF Writing, Busy
  <2>7. ~Odd(mCounter')
    BY <2>2, <2>6, IncParity DEF WriterInv, SeqTypeOK
  <2>8. \A x \in Words : mSharedValue'[x] = version'
    BY <2>1 DEF WriterInv
  <2>9. variant = "spinlock" => \A v \in Writers : (wpc'[v] # "idle") <=> mLock' = {v}
    BY <2>1, <2>4, <2>5 DEF WriterInv, Busy
  <2>10. \A v \in Writers : wpc'[v] \notin {"begin", "write"}
    BY <2>4, <2>5
  <2>11. \A v \in Writers : variant # "spinlock" => wpc'[v] = "idle"
    BY <2>4, <2>5
  <2> QED
    BY <2>1, <2>3, <2>4, <2>6, <2>7, <2>8, <2>9, <2>10, <2>11 DEF WriterInv, Busy
<1>5. ASSUME NEW w \in Writers, StoreUnlock(w) PROVE WInv'
  <2>1. /\ wpc[w] = "unlock" /\ wpc' = [wpc EXCEPT ![w] = "idle"] /\ mLock' = {}
        /\ UNCHANGED <<variant, mCounter, mSharedValue, version, seq0, toWrite, readerVars,
                       lap>>
    BY <1>5 DEF StoreUnlock
  <2>2. SeqTypeOK'
    BY <2>1 DEF SeqTypeOK, readerVars
  <2>3. \A v \in Writers : wpc'[v] = "idle"
    BY <2>1 DEF WriterInv, Busy, SeqTypeOK
  <2>4. ~Writing /\ ~Writing'
    BY <2>1, <2>3 DEF WriterInv, Busy, Writing
  <2> QED
    BY <2>1, <2>2, <2>3, <2>4 DEF WriterInv, Busy
<1>6. ASSUME NEW i \in Readers, Load(i) PROVE WInv'
  <2>1. UNCHANGED writerVars
    BY <1>6 DEF Load, LoadStart, LoadWord, LoadCheck
  <2>2. SeqTypeOK'
    <3>1. Completed \in 0 .. Stores
      BY DEF Completed, WriterInv, Writing, SeqTypeOK
    <3>2. CASE LoadStart(i)
      BY <3>1, <3>2 DEF LoadStart, SeqTypeOK, writerVars
    <3>3. CASE LoadWord(i)
      BY <3>3 DEF LoadWord, SeqTypeOK, writerVars
    <3>4. CASE LoadCheck(i)
      BY <3>4 DEF LoadCheck, SeqTypeOK, writerVars
    <3> QED
      BY <1>6, <3>2, <3>3, <3>4 DEF Load
  <2>3. WriterInv'
    BY <2>1 DEF writerVars, WriterInv, Writing, Busy
  <2> QED
    BY <2>2, <2>3
<1>7. CASE UNCHANGED seqVars
  <2>1. SeqTypeOK'
    BY <1>7 DEF SeqTypeOK, seqVars, writerVars, readerVars
  <2>2. WriterInv'
    BY <1>7 DEF seqVars, writerVars, WriterInv, Writing, Busy
  <2> QED
    BY <2>1, <2>2
<1> QED
  BY <1>1, <1>2, <1>3, <1>4, <1>5, <1>6, <1>7 DEF SeqNext, Store

\* The state of the sequence locks keeps its type.
THEOREM SeqTypesHold == SeqSpec => []SeqTypeOK
<1>1. WInv => SeqTypeOK
  BY DEF WInv
<1> QED
  BY <1>1, WInit, WStep, PTL DEF SeqSpec

-----------------------------------------------------------------------------
\* The readers' half: a step of the counter moves every load under way one
\* further from its startFlag.
LEMMA ReaderCounts ==
  ASSUME SeqTypeOK, ReaderInv, Untorn, Count, mCounter' = Inc(mCounter),
         UNCHANGED readerVars, version <= version', version' \in Nat
  PROVE  ReaderInv' /\ Untorn'
<1>1. ASSUME NEW i \in Readers, rpc'[i] \in {"copy", "check"}
      PROVE  /\ rpc'[i] = "check" => toRead'[i] = {}
             /\ before'[i] <= version'
             /\ lap'[i] < Wrap => mCounter' = After(startFlag'[i], lap'[i])
             /\ lap'[i] # 0
  <2>1. /\ rpc[i] \in {"copy", "check"} /\ startFlag' = startFlag /\ before' = before
        /\ toRead' = toRead /\ rpc' = rpc
    BY <1>1 DEF readerVars
  <2>2. /\ lap[i] \in 0 .. Wrap /\ startFlag[i] \in 0 .. Wrap - 1
        /\ before[i] \in Nat /\ version \in Nat
    BY DEF SeqTypeOK
  <2>3. lap'[i] = IF lap[i] < Wrap THEN lap[i] + 1 ELSE lap[i]
    BY <2>1 DEF Count
  <2>4. lap[i] < Wrap => mCounter = After(startFlag[i], lap[i])
    BY <2>1 DEF ReaderInv
  <2>5. lap'[i] < Wrap => mCounter' = After(startFlag[i], lap[i] + 1)
    BY <2>2, <2>3, <2>4, IncAfter
  <2>6. (rpc[i] = "check" => toRead[i] = {}) /\ before[i] <= version
    BY <2>1 DEF ReaderInv
  <2> QED
    BY <2>1, <2>2, <2>3, <2>5, <2>6
<1>2. ReaderInv'
  BY <1>1 DEF ReaderInv
<1>3. Untorn'
  <2> SUFFICES ASSUME NEW i \in Readers, rpc'[i] = "done", lap'[i] < Wrap
               PROVE  \E v \in before'[i] .. version' : \A x \in Words : copy'[i][x] = v
    BY DEF Untorn
  <2>1. rpc[i] = "done" /\ lap[i] < Wrap
    BY DEF readerVars, Count
  <2>2. PICK v \in before[i] .. version : \A x \in Words : copy[i][x] = v
    BY <2>1 DEF Untorn
  <2>3. v \in before'[i] .. version'
    BY <2>2 DEF readerVars, SeqTypeOK
  <2> QED
    BY <2>2, <2>3 DEF readerVars
<1> QED
  BY <1>2, <1>3

\* A step of a writer that leaves the counter and the version alone.
LEMMA ReaderStays ==
  ASSUME ReaderInv, Untorn, UNCHANGED <<mCounter, version, readerVars, lap>>
  PROVE  ReaderInv' /\ Untorn'
BY DEF ReaderInv, Untorn, readerVars

LEMMA RStep == WInv /\ ReaderInv /\ Untorn /\ [SeqNext]_seqVars => ReaderInv' /\ Untorn'
<1> SUFFICES ASSUME WInv, ReaderInv, Untorn, [SeqNext]_seqVars PROVE ReaderInv' /\ Untorn'
  OBVIOUS
<1>0. SeqTypeOK /\ WriterInv
  BY DEF WInv
<1>1. ASSUME NEW w \in Writers, StoreBegin(w) PROVE ReaderInv' /\ Untorn'
  <2>1. mCounter' = Inc(mCounter) /\ Count /\ UNCHANGED readerVars /\ version' = version + 1
    BY <1>0, <1>1 DEF StoreBegin, WriterInv
  <2>2. version <= version' /\ version' \in Nat
    BY <1>0, <2>1 DEF SeqTypeOK
  <2> QED
    BY <1>0, <2>1, <2>2, ReaderCounts
<1>2. ASSUME NEW w \in Writers, StoreEnd(w) PROVE ReaderInv' /\ Untorn'
  <2>1. mCounter' = Inc(mCounter) /\ Count /\ UNCHANGED <<readerVars, version>>
    BY <1>0, <1>2 DEF StoreEnd, WriterInv
  <2>2. version <= version' /\ version' \in Nat
    BY <1>0, <2>1 DEF SeqTypeOK
  <2> QED
    BY <1>0, <2>1, <2>2, ReaderCounts
<1>3. ASSUME NEW w \in Writers, StoreEnter(w) \/ StoreWord(w) \/ StoreUnlock(w)
      PROVE  ReaderInv' /\ Untorn'
  <2>1. UNCHANGED <<mCounter, version, readerVars, lap>>
    BY <1>3 DEF StoreEnter, StoreWord, StoreUnlock
  <2> QED
    BY <2>1, ReaderStays
<1>4. ASSUME NEW i \in Readers, LoadStart(i) PROVE ReaderInv' /\ Untorn'
  <2>1. /\ UNCHANGED <<mCounter, version>>
        /\ \A j \in Readers : j # i =>
             /\ rpc'[j] = rpc[j] /\ startFlag'[j] = startFlag[j] /\ copy'[j] = copy[j]
             /\ toRead'[j] = toRead[j] /\ before'[j] = before[j] /\ lap'[j] = lap[j]
    BY <1>0, <1>4 DEF LoadStart, writerVars, SeqTypeOK
  <2>2. /\ rpc'[i] \in {"start", "copy"} /\ startFlag'[i] = mCounter
        /\ toRead'[i] = Words /\ lap'[i] = 0 /\ before'[i] = Completed
    BY <1>0, <1>4 DEF LoadStart, SeqTypeOK
  <2>3. Completed <= version /\ mCounter = After(mCounter, 0)
    BY <1>0 DEF Completed, After, SeqTypeOK
  <2>4. ReaderInv'
    BY <2>1, <2>2, <2>3 DEF ReaderInv
  <2>5. Untorn'
    BY <2>1, <2>2 DEF Untorn
  <2> QED
    BY <2>4, <2>5
<1>5. ASSUME NEW i \in Readers, LoadWord(i) PROVE ReaderInv' /\ Untorn'
  <2>1. PICK y \in toRead[i] :
          /\ copy' = [copy EXCEPT ![i][y] = mSharedValue[y]]
          /\ toRead' = [toRead EXCEPT ![i] = @ \ {y}]
          /\ rpc' = [rpc EXCEPT ![i] = IF toRead[i] = {y} THEN "check" ELSE "copy"]
    BY <1>5 DEF LoadWord
  <2>2. rpc[i] = "copy" /\ UNCHANGED <<mCounter, version, startFlag, before, lap>>
    BY <1>5 DEF LoadWord, writerVars
  <2>3. \A j \in Readers : j # i =>
             /\ rpc'[j] = rpc[j] /\ copy'[j] = copy[j] /\ toRead'[j] = toRead[j]
    BY <1>0, <2>1 DEF SeqTypeOK
  <2>4. /\ rpc'[i] \in {"copy", "check"} /\ toRead'[i] = toRead[i] \ {y}
        /\ rpc'[i] = "check" => toRead'[i] = {}
    BY <1>0, <2>1 DEF SeqTypeOK
  <2>5. lap[i] = 0 /\ ~Odd(startFlag[i]) => \A x \in Words \ toRead'[i] : copy'[i][x] = version
    <3> SUFFICES ASSUME lap[i] = 0, ~Odd(startFlag[i]), NEW x \in Words \ toRead'[i]
                 PROVE  copy'[i][x] = version
      OBVIOUS
    <3>1. mCounter = startFlag[i]
      BY <1>0, <2>2 DEF ReaderInv, After, SeqTypeOK
    <3>2. mSharedValue[x] = version
      BY <1>0, <3>1 DEF WriterInv
    <3>3. CASE x = y
      BY <1>0, <2>1, <3>2, <3>3 DEF SeqTypeOK
    <3>4. CASE x # y
      BY <1>0, <2>1, <2>2, <2>4, <3>4 DEF SeqTypeOK, ReaderInv
    <3> QED
      BY <3>3, <3>4
  <2>6. ReaderInv'
    BY <2>2, <2>3, <2>4, <2>5 DEF ReaderInv
  <2>7. Untorn'
    BY <2>2, <2>3, <2>4 DEF Untorn
  <2> QED
    BY <2>6, <2>7
<1>6. ASSUME NEW i \in Readers, LoadCheck(i) PROVE ReaderInv' /\ Untorn'
  <2>1. /\ rpc[i] = "check"
        /\ rpc' = [rpc EXCEPT ![i] = IF Changed(i) THEN "start" ELSE "done"]
        /\ UNCHANGED <<mCounter, version, startFlag, copy, toRead, before, lap>>
    BY <1>6 DEF LoadCheck, writerVars
  <2>2. \A j \in Readers : j # i => rpc'[j] = rpc[j]
    BY <1>0, <2>1 DEF SeqTypeOK
  <2>3. rpc'[i] = IF Changed(i) THEN "start" ELSE "done"
    BY <1>0, <2>1 DEF SeqTypeOK
  <2>4. ReaderInv'
    BY <2>1, <2>2, <2>3 DEF ReaderInv
  <2>5. rpc'[i] = "done" /\ lap[i] < Wrap =>
          version \in before[i] .. version /\ \A x \in Words : copy[i][x] = version
    <3> SUFFICES ASSUME rpc'[i] = "done", lap[i] < Wrap
                 PROVE  /\ version \in before[i] .. version
                        /\ \A x \in Words : copy[i][x] = version
      OBVIOUS
    <3>1. mCounter = startFlag[i] /\ ~Odd(startFlag[i])
      BY <2>3 DEF Changed
    <3>2. After(startFlag[i], lap[i]) = startFlag[i]
      BY <2>1, <3>1 DEF ReaderInv
    <3>3. lap[i] = 0
      <4>1. startFlag[i] \in 0 .. Wrap - 1 /\ lap[i] \in 0 .. Wrap - 1
        BY <1>0 DEF SeqTypeOK
      <4> QED
        BY <3>2, <4>1, AfterSame
    <3>4. toRead[i] = {} /\ before[i] <= version
      BY <2>1 DEF ReaderInv
    <3>5. \A x \in Words : copy[i][x] = version
      BY <2>1, <3>1, <3>3, <3>4 DEF ReaderInv
    <3>6. version \in before[i] .. version
      BY <1>0, <3>4 DEF SeqTypeOK
    <3> QED
      BY <3>5, <3>6
  <2>6. Untorn'
    BY <2>1, <2>2, <2>5 DEF Untorn
  <2> QED
    BY <2>4, <2>6
<1>7. CASE UNCHANGED seqVars
  <2>1. UNCHANGED <<mCounter, version, readerVars, lap>>
    BY <1>7 DEF seqVars, writerVars
  <2> QED
    BY <2>1, ReaderStays
<1> QED
  BY <1>1, <1>2, <1>3, <1>4, <1>5, <1>6, <1>7 DEF SeqNext, Store, Load

\* A load of any of the three sequence locks returns one stored value, and not one
\* that was overwritten before the load began, unless the counter came round
\* during the load.
THEOREM UntornHolds == SeqSpec => []Untorn
<1>1. SeqInit => ReaderInv /\ Untorn
  BY DEF SeqInit, ReaderInv, Untorn
<1> QED
  BY <1>1, WInit, WStep, RStep, PTL DEF SeqSpec
=============================================================================
