------------------------------ MODULE MPSCQueue ------------------------------
(***************************************************************************)
(* The multiple-producer, single-consumer ring of                          *)
(* ProducerConsumer/mpsc_queue_test/mpsc_queue.h, with the clients of      *)
(* mpsc_queue_test.cpp: every producer pushes its messages in order and    *)
(* retries a push that returned false; one thread pops.                    *)
(*                                                                         *)
(* One action is one access to shared memory (an atomic load, a CAS, the   *)
(* copy into or out of a slot).  The interleaving is sequentially          *)
(* consistent; an index is a natural number, since wrapping a 64-bit       *)
(* size_t takes 2^64 pushes.                                               *)
(***************************************************************************)
EXTENDS Integers, Sequences, FiniteSets

CONSTANTS Producers,  \* the producer threads
          Capacity,   \* number of slots (MPSC_QUEUE_CAPACITY)
          Items,      \* messages every producer pushes (bound of the clients)
          None        \* an uninitialised slot

ASSUME ProducersAssumption == IsFiniteSet(Producers)
ASSUME CapacityAssumption == Capacity \in Nat \ {0}
ASSUME ItemsAssumption == Items \in Nat

VARIABLES readIndex, commitWriteIndex, reserveWriteIndex, buf,
          pc,        \* next step of each producer's push
          rw, r,     \* each producer's locals of the same names
          sent,      \* messages each producer has pushed
          cpc,       \* next step of the consumer's pop
          cr,        \* the consumer's local r
          received,  \* what the calls of pop returned, in order
          reserved   \* history: the messages in the order of their reservation

indexes == <<readIndex, commitWriteIndex, reserveWriteIndex>>
vars == <<readIndex, commitWriteIndex, reserveWriteIndex, buf, pc, rw, r, sent,
          cpc, cr, received, reserved>>

Message == Producers \X (1 .. Items)
\* The message producer p is pushing.
Current(p) == <<p, sent[p] + 1>>

Init ==
  /\ readIndex = 0 /\ commitWriteIndex = 0 /\ reserveWriteIndex = 0
  /\ buf = [i \in 0 .. Capacity - 1 |-> None]
  /\ pc = [p \in Producers |-> "load"]
  /\ rw = [p \in Producers |-> 0]
  /\ r = [p \in Producers |-> 0]
  /\ sent = [p \in Producers |-> 0]
  /\ cpc = "load" /\ cr = 0
  /\ received = <<>> /\ reserved = <<>>

Goto(p, to) == pc' = [pc EXCEPT ![p] = to]

\* An off-by-one in the full test: one slot too many.
FullLate(w, rd) == w - rd = Capacity + 1

\* rw - r == capacity.  A stale rw may be smaller than r; the difference, a huge
\* size_t in the code, is then not Capacity either.
Full(w, rd) == w - rd = Capacity

\* A client whose loop runs once too often.
PushOnceMore(p) ==
  /\ pc[p] = "load" /\ sent[p] <= Items
  /\ rw' = [rw EXCEPT ![p] = reserveWriteIndex]
  /\ Goto(p, "check")
  /\ UNCHANGED <<indexes, buf, r, sent, cpc, cr, received, reserved>>

\* rw = reserveWriteIndex.load()
PushLoadReserve(p) ==
  /\ pc[p] = "load" /\ sent[p] < Items
  /\ rw' = [rw EXCEPT ![p] = reserveWriteIndex]
  /\ Goto(p, "check")
  /\ UNCHANGED <<indexes, buf, r, sent, cpc, cr, received, reserved>>

\* r = readIndex.load(); a full buffer makes push return false, and the client
\* calls it again with the same message.
PushLoadRead(p) ==
  /\ pc[p] = "check"
  /\ r' = [r EXCEPT ![p] = readIndex]
  /\ Goto(p, IF Full(rw[p], readIndex) THEN "load" ELSE "reserve")
  /\ UNCHANGED <<indexes, buf, rw, sent, cpc, cr, received, reserved>>

\* The CAS on reserveWriteIndex succeeds.
PushReserve(p) ==
  /\ pc[p] = "reserve" /\ reserveWriteIndex = rw[p]
  /\ reserveWriteIndex' = rw[p] + 1
  /\ reserved' = Append(reserved, Current(p))
  /\ Goto(p, "write")
  /\ UNCHANGED <<readIndex, commitWriteIndex, buf, rw, r, sent, cpc, cr, received>>

\* It fails, really or spuriously (compare_exchange_weak): rw takes the value
\* found, and the outer loop starts again.
PushReserveFails(p) ==
  /\ pc[p] = "reserve"
  /\ rw' = [rw EXCEPT ![p] = reserveWriteIndex]
  /\ Goto(p, "load")
  /\ UNCHANGED <<indexes, buf, r, sent, cpc, cr, received, reserved>>

\* buf[rw & maxIndexMask] = msg
PushWrite(p) ==
  /\ pc[p] = "write"
  /\ buf' = [buf EXCEPT ![rw[p] % Capacity] = Current(p)]
  /\ Goto(p, "commit")
  /\ UNCHANGED <<indexes, rw, r, sent, cpc, cr, received, reserved>>

\* A producer that commits by a plain store of its own index.
CommitByStore(p) ==
  /\ pc[p] = "commit"
  /\ commitWriteIndex' = rw[p] + 1
  /\ sent' = [sent EXCEPT ![p] = @ + 1]
  /\ Goto(p, "load")
  /\ UNCHANGED <<readIndex, reserveWriteIndex, buf, rw, r, cpc, cr, received, reserved>>

\* The CAS on commitWriteIndex succeeds and push returns true.
PushCommit(p) ==
  /\ pc[p] = "commit" /\ commitWriteIndex = rw[p]
  /\ commitWriteIndex' = rw[p] + 1
  /\ sent' = [sent EXCEPT ![p] = @ + 1]
  /\ Goto(p, "load")
  /\ UNCHANGED <<readIndex, reserveWriteIndex, buf, rw, r, cpc, cr, received, reserved>>

\* It fails: compare_exchange_weak stores the value it found in rw, so the next
\* attempt expects the current commitWriteIndex and not this push's own index.
PushCommitFails(p) ==
  /\ pc[p] = "commit"
  /\ rw' = [rw EXCEPT ![p] = commitWriteIndex]
  /\ UNCHANGED <<indexes, buf, pc, r, sent, cpc, cr, received, reserved>>

Push(p) ==
  \/ PushLoadReserve(p) \/ PushLoadRead(p)
  \/ PushReserve(p) \/ PushReserveFails(p)
  \/ PushWrite(p)
  \/ PushCommit(p) \/ PushCommitFails(p)

-----------------------------------------------------------------------------
\* r = readIndex.load()
PopLoadRead ==
  /\ cpc = "load"
  /\ cr' = readIndex /\ cpc' = "check"
  /\ UNCHANGED <<indexes, buf, pc, rw, r, sent, received, reserved>>

\* A pop that does not look at commitWriteIndex.
PopUnchecked ==
  /\ cpc = "check"
  /\ cpc' = "read"
  /\ UNCHANGED <<indexes, buf, pc, rw, r, sent, cr, received, reserved>>

\* cw = commitWriteIndex.load(); on an empty queue pop returns nullopt.
PopLoadCommit ==
  /\ cpc = "check"
  /\ cpc' = IF commitWriteIndex = cr THEN "load" ELSE "read"
  /\ UNCHANGED <<indexes, buf, pc, rw, r, sent, cr, received, reserved>>

\* msg = buf[r & maxIndexMask]
PopRead ==
  /\ cpc = "read"
  /\ received' = Append(received, buf[cr % Capacity])
  /\ cpc' = "store"
  /\ UNCHANGED <<indexes, buf, pc, rw, r, sent, cr, reserved>>

\* readIndex.store(r + 1); pop returns the message.
PopStore ==
  /\ cpc = "store"
  /\ readIndex' = cr + 1 /\ cpc' = "load"
  /\ UNCHANGED <<commitWriteIndex, reserveWriteIndex, buf, pc, rw, r, sent, cr,
                 received, reserved>>

Pop == PopLoadRead \/ PopLoadCommit \/ PopRead \/ PopStore

Next == (\E p \in Producers : Push(p)) \/ Pop

(***************************************************************************)
(* Every thread keeps being scheduled, and a weak CAS that finds its expected      *)
(* value does not fail spuriously forever.                                 *)
(***************************************************************************)
Fairness ==
  /\ WF_vars(Pop)
  /\ \A p \in Producers :
       /\ WF_vars(PushLoadReserve(p)) /\ WF_vars(PushLoadRead(p))
       /\ WF_vars(PushWrite(p))
       /\ SF_vars(PushReserve(p)) /\ WF_vars(PushReserveFails(p))
       /\ WF_vars(PushCommit(p)) /\ WF_vars(PushCommitFails(p))

Spec == Init /\ [][Next]_vars /\ Fairness

-----------------------------------------------------------------------------
TypeOK ==
  /\ readIndex \in Nat /\ commitWriteIndex \in Nat /\ reserveWriteIndex \in Nat
  /\ buf \in [0 .. Capacity - 1 -> Message \cup {None}]
  /\ pc \in [Producers -> {"load", "check", "reserve", "write", "commit"}]
  /\ rw \in [Producers -> Nat] /\ r \in [Producers -> Nat]
  /\ sent \in [Producers -> 0 .. Items]
  /\ cpc \in {"load", "check", "read", "store"} /\ cr \in Nat
  /\ received \in Seq(Message \cup {None})
  /\ reserved \in Seq(Message)

\* The order the three indexes really keep: the consumer never passes the
\* commits, the commits never pass the reservations, and the reservations never
\* lap the consumer by more than the capacity.  mpsc_queue.h:17 has the first two
\* the other way round, "commitWriteIndex >= reserveWriteIndex >= readIndex", which
\* is false from any reservation to its commit.
IndexOrder ==
  /\ readIndex <= commitWriteIndex
  /\ commitWriteIndex <= reserveWriteIndex
  /\ reserveWriteIndex <= readIndex + Capacity

\* mpsc_queue.h:11, "Consumer reads only committed slots": the n-th pop returns
\* the message whose producer reserved the n-th slot.
ReadsOnlyCommitted ==
  /\ Len(received) <= Len(reserved)
  /\ received = SubSeq(reserved, 1, Len(received))

\* As long as one producer made all the reservations, with the others between
\* their loads and a failing CAS, the queue is a FIFO of written messages: what
\* test_single_threaded_basic asserts of a thread that pushes and then pops.
SoleProducerFIFO ==
  (\E p \in Producers : \A n \in 1 .. Len(reserved) : reserved[n][1] = p)
    => ReadsOnlyCommitted

\* Every push that returned true is one pop: no producer waits for ever for its
\* commit, and the consumer takes as many messages as were pushed.
AllPopped ==
  <>[](/\ \A p \in Producers : sent[p] = Items
       /\ Len(received) = Items * Cardinality(Producers))

-----------------------------------------------------------------------------
\* Producers that own a reservation they have not committed.
Pending == {p \in Producers : pc[p] \in {"write", "commit"}}

\* IndexOrder is not inductive: it needs to know that every uncommitted
\* reservation belongs to exactly one producer, and what the values the threads
\* have loaded still say about the indexes.
IndexInv ==
  /\ commitWriteIndex + Cardinality(Pending) = reserveWriteIndex
  /\ readIndex <= commitWriteIndex
  /\ reserveWriteIndex <= readIndex + Capacity
  /\ cpc # "load" => cr = readIndex
  /\ cpc \in {"read", "store"} => readIndex < commitWriteIndex
  /\ \A p \in Producers :
       /\ pc[p] # "load" => sent[p] < Items
       /\ pc[p] \in {"check", "reserve"} => rw[p] <= reserveWriteIndex
       /\ pc[p] = "reserve" => r[p] <= readIndex /\ rw[p] - r[p] < Capacity
=============================================================================
