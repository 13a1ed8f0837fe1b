-------------------------- MODULE DijkstraBuffer --------------------------
(***************************************************************************)
(* producer_consumer_bounded_buffer/main.cpp: a queue with a mutex and two *)
(* counting semaphores.  The consumer waits a second at most for a portion *)
(* and looks into the queue whether it got one or not: a portion it takes  *)
(* after a timeout stays counted.  Both semaphores are                     *)
(* std::counting_semaphore<kBufferSize>, which has no defined release      *)
(* above that.                                                             *)
(***************************************************************************)
EXTENDS BufferThreads, Synchronization

VARIABLES buffer,
          numberQueueingPortions, numberEmptyPositions,
          sent,       \* portions each producer has produced
          popped,     \* history: the portions taken, in that order
          pc          \* next step of each thread

vars == <<buffer, numberQueueingPortions, numberEmptyPositions, sent, popped, pc>>

Init ==
  /\ buffer = <<>> /\ numberQueueingPortions = 0 /\ numberEmptyPositions = Size
  /\ sent = [p \in Producers |-> 0] /\ popped = <<>>
  /\ pc = [t \in Threads |-> "acquire"]

Goto(t, from, to) == pc[t] = from /\ pc' = [pc EXCEPT ![t] = to]

\* numberEmptyPositions.acquire()
AcquireEmpty(p) ==
  /\ Goto(p, "acquire", "buffer") /\ Acquire(numberEmptyPositions)
  /\ UNCHANGED <<buffer, numberQueueingPortions, sent, popped>>

\* add_portion_to_buffer, with the mutex
Add(p) ==
  /\ Goto(p, "buffer", "release")
  /\ buffer' = buffer \o <<<<p, sent[p] + 1>>>>
  /\ sent' = [sent EXCEPT ![p] = @ + 1]
  /\ UNCHANGED <<numberQueueingPortions, numberEmptyPositions, popped>>

\* numberQueueingPortions.release(), within the maximum of the semaphore and at it
ReleaseQueueing(p) ==
  /\ Goto(p, "release", IF sent[p] < Items THEN "acquire" ELSE "done")
  /\ numberQueueingPortions < Size /\ Release(numberQueueingPortions)
  /\ UNCHANGED <<buffer, numberEmptyPositions, sent, popped>>
ReleaseUndefined(p) ==
  /\ numberQueueingPortions = Size /\ Goto(p, "release", "undefined")
  /\ UNCHANGED <<buffer, numberQueueingPortions, numberEmptyPositions, sent, popped>>

\* numberQueueingPortions.try_acquire_for(kTimeout), in time or not
AcquireQueueing(c) ==
  /\ Goto(c, "acquire", "buffer") /\ Acquire(numberQueueingPortions)
  /\ UNCHANGED <<buffer, numberEmptyPositions, sent, popped>>
Timeout(c) ==
  /\ Goto(c, "acquire", "buffer") /\ numberQueueingPortions = 0
  /\ UNCHANGED <<buffer, numberQueueingPortions, numberEmptyPositions, sent, popped>>

\* take_portion_from_buffer, with the mutex: with nothing there the consumer returns.
Take(c) ==
  /\ buffer # <<>> /\ Goto(c, "buffer", "release")
  /\ buffer' = Tail(buffer) /\ popped' = popped \o <<Head(buffer)>>
  /\ UNCHANGED <<numberQueueingPortions, numberEmptyPositions, sent>>
TakeNothing(c) ==
  /\ buffer = <<>> /\ Goto(c, "buffer", "done")
  /\ UNCHANGED <<buffer, numberQueueingPortions, numberEmptyPositions, sent, popped>>

\* numberEmptyPositions.release(), which TypeOK shows to stay within the maximum
ReleaseEmpty(c) ==
  /\ Goto(c, "release", "acquire") /\ Release(numberEmptyPositions)
  /\ UNCHANGED <<buffer, numberQueueingPortions, sent, popped>>

Producer(p) == AcquireEmpty(p) \/ Add(p) \/ ReleaseQueueing(p) \/ ReleaseUndefined(p)
Consumer(c) == AcquireQueueing(c) \/ Take(c) \/ TakeNothing(c) \/ ReleaseEmpty(c)
Thread(t) == (t \in Producers /\ Producer(t)) \/ (t \in Consumers /\ Consumer(t))

\* A second may pass at any time.
Environment == \E c \in Consumers : Timeout(c)

Next == (\E t \in Threads : Thread(t)) \/ Environment

Spec == Init /\ [][Next]_vars

-----------------------------------------------------------------------------
TypeOK ==
  /\ buffer \in Seq(Portion) /\ Len(buffer) <= Size
  /\ numberQueueingPortions \in 0 .. Size
  /\ numberEmptyPositions \in 0 .. Size
  /\ sent \in [Producers -> 0 .. Items] /\ popped \in Seq(Portion)
  /\ pc \in [Threads -> {"acquire", "buffer", "release", "undefined", "done"}]

AllTaken == Len(popped) = AllPortions
\* Every consumer has found nothing and given up.
GaveUp == \A c \in Consumers : pc[c] = "done"
Undefined == \E p \in Producers : pc[p] = "undefined"
=============================================================================
