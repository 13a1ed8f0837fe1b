------------------------------ MODULE Buffers ------------------------------
(***************************************************************************)
(* The repository's queues between producers and consumers that promise a  *)
(* FIFO, of which the first state picks one.  A program leaves the         *)
(* variables it does not have alone.                                       *)
(***************************************************************************)
EXTENDS BufferThreads

CONSTANT Nobody

VARIABLES program, buffer, head, tail, count, empty, mutex, endSignal, nonempty,
          nonfull, sent, taken, popped, pc, main, draining, received

vars == <<program, buffer, head, tail, count, empty, mutex, endSignal, nonempty,
          nonfull, sent, taken, popped, pc, main, draining, received>>

\* The programs with one producer push as many items as two others together; the
\* lock-free queue has a slot it does not use.
Monitor == INSTANCE MonitorBuffer
Dijkstra == INSTANCE DijkstraBuffer WITH
  numberQueueingPortions <- count, numberEmptyPositions <- empty
Single == INSTANCE SingleBuffer WITH Items <- 2 * Items
LockFree == INSTANCE SPSCQueue WITH
  Items <- 2 * Items, Size <- Size + 1,
  writePos <- tail, readPos <- head, done <- endSignal, i <- sent
Waiting == INSTANCE WaitingQueue
Safe == INSTANCE ThreadSafeQueue
Iterated == INSTANCE IteratedChannel WITH
  closed <- endSignal, asleep <- nonempty, late <- taken

NotMonitor == <<program, empty, taken, draining, received>>
NotDijkstra == <<program, head, tail, mutex, endSignal, nonempty, nonfull, taken,
                 main, draining, received>>
NotSingle == <<mutex, endSignal, nonempty, nonfull, main, draining, received>>
NotLockFree == <<program, count, empty, mutex, nonempty, nonfull, taken, main>>
NotWaiting == <<program, head, tail, count, empty, mutex, nonfull, taken, main,
                draining, received>>
NotSafe == <<NotWaiting, endSignal>>
NotIterated == <<program, head, tail, count, empty, mutex, nonfull, draining, received>>

InitMonitor ==
  program = "monitor" /\ Monitor!Init /\ empty = 0 /\ taken = 0 /\ draining = FALSE
  /\ received = <<>>
InitDijkstra ==
  program = "dijkstra" /\ Dijkstra!Init /\ head = 0 /\ tail = 0 /\ mutex = Nobody
  /\ endSignal = FALSE /\ nonempty = {} /\ nonfull = {} /\ taken = 0 /\ main = "wait"
  /\ draining = FALSE /\ received = <<>>
InitSingle ==
  Single!Init /\ mutex = Nobody /\ endSignal = FALSE /\ nonempty = {} /\ nonfull = {}
  /\ main = "wait" /\ draining = FALSE /\ received = <<>>
InitLockFree ==
  program = "lock-free" /\ LockFree!Init /\ count = 0 /\ empty = 0 /\ mutex = Nobody
  /\ nonempty = {} /\ nonfull = {} /\ taken = 0 /\ main = "wait"
InitWaiting ==
  program = "waiting" /\ Waiting!Init /\ head = 0 /\ tail = 0 /\ count = 0 /\ empty = 0
  /\ mutex = Nobody /\ nonfull = {} /\ taken = 0 /\ main = "wait" /\ draining = FALSE
  /\ received = <<>>
InitSafe ==
  program = "safe" /\ Safe!Init /\ head = 0 /\ tail = 0 /\ count = 0 /\ empty = 0
  /\ mutex = Nobody /\ endSignal = FALSE /\ nonfull = {} /\ taken = 0 /\ main = "wait"
  /\ draining = FALSE /\ received = <<>>
InitIterated ==
  program = "iterated" /\ Iterated!Init /\ head = 0 /\ tail = 0 /\ count = 0 /\ empty = 0
  /\ mutex = Nobody /\ nonfull = {} /\ draining = FALSE /\ received = <<>>

Init == \/ InitMonitor \/ InitDijkstra \/ InitSingle \/ InitLockFree \/ InitWaiting
        \/ InitSafe \/ InitIterated

-----------------------------------------------------------------------------
Thread(t) ==
  \/ program = "monitor" /\ Monitor!Thread(t) /\ UNCHANGED NotMonitor
  \/ program = "dijkstra" /\ Dijkstra!Thread(t) /\ UNCHANGED NotDijkstra
  \/ program = "waiting" /\ Waiting!Thread(t) /\ UNCHANGED NotWaiting
  \/ program = "safe" /\ Safe!Thread(t) /\ UNCHANGED NotSafe
  \/ program = "iterated" /\ Iterated!Thread(t) /\ UNCHANGED NotIterated
\* The programs with one producer and one consumer
Producer ==
  \/ program \in {"single", "single_c"} /\ Single!Producer /\ UNCHANGED NotSingle
  \/ program = "lock-free" /\ LockFree!Producer /\ UNCHANGED NotLockFree
Consumer ==
  \/ program \in {"single", "single_c"} /\ Single!Consumer /\ UNCHANGED NotSingle
  \/ program = "lock-free" /\ LockFree!Consumer /\ UNCHANGED NotLockFree
\* What remains of main's call of stop() or close()
Stopping ==
  \/ program = "monitor" /\ Monitor!Stopping /\ UNCHANGED NotMonitor
  \/ program = "iterated" /\ Iterated!Stopping /\ UNCHANGED NotIterated
\* The end, a timeout, or a spurious wake-up
Environment ==
  \/ program = "monitor" /\ Monitor!Environment /\ UNCHANGED NotMonitor
  \/ program = "dijkstra" /\ Dijkstra!Environment /\ UNCHANGED NotDijkstra
  \/ program = "waiting" /\ Waiting!Environment /\ UNCHANGED NotWaiting
  \/ program = "safe" /\ Safe!Environment /\ UNCHANGED NotSafe
  \/ program = "iterated" /\ Iterated!Environment /\ UNCHANGED NotIterated

Next == \/ \E t \in Threads : Thread(t)
        \/ Producer \/ Consumer \/ Stopping \/ Environment

\* A thread that can run does run, and gets a mutex that is released again and again;
\* main runs, too, once it has begun to stop.  Nothing
\* is assumed about the time at which it begins, about timeouts, or about which
\* sleeper a notification wakes.
Fairness == /\ \A t \in Threads : SF_vars(Thread(t))
            /\ WF_vars(Producer) /\ WF_vars(Consumer) /\ WF_vars(Stopping)

Spec == Init /\ [][Next]_vars /\ Fairness

-----------------------------------------------------------------------------
TypeOK ==
  CASE program = "monitor" -> Monitor!TypeOK
    [] program = "dijkstra" -> Dijkstra!TypeOK
    [] program \in {"single", "single_c"} -> Single!TypeOK
    [] program = "lock-free" -> LockFree!TypeOK
    [] program = "waiting" -> Waiting!TypeOK
    [] program = "safe" -> Safe!TypeOK
    [] program = "iterated" -> Iterated!TypeOK

\* The programs with one producer number their items.
Numbered(s) == [n \in DOMAIN s |-> <<"item", s[n]>>]

\* Every program implements a FIFO of its capacity: what is taken was put in, once,
\* in that order, and the buffer never holds more than Size elements, whoever is
\* interrupted where.
FIFO == INSTANCE BoundedFIFO WITH
  Value <- Portion \cup {"item"} \X (1 .. 2 * Items),
  bound <- IF program \in {"waiting", "safe"} THEN AllPortions ELSE Size,
  queue <- CASE program = "monitor" -> Monitor!Contents
             [] program \in {"single", "single_c"} -> Numbered(Single!Contents)
             [] program = "lock-free" -> Numbered(LockFree!Contents)
             [] OTHER -> buffer,
  popped <- IF program \in {"single", "single_c", "lock-free"} THEN Numbered(popped)
            ELSE popped
Implements == FIFO!Spec

\* MonitorObject/README.md:5: "at most one member function can run at any moment in
\* time".  So an element that lets a call of get() through is there when it takes it.
GetFindsElement == program = "safe" => ~Safe!Undefined

\* No wake-up is lost between producers and consumers: everything that is produced is
\* received by a consumer, unless main ends the program first (monitor, waiting,
\* iterated).  Three programs also have defects of their own, after which nothing is
\* claimed: both consumers gave up after timeouts, or one timed out and the count of
\* portions passed the maximum of its semaphore (dijkstra); a consumer took from an
\* empty queue (safe, see GetFindsElement); a producer and a consumer slept on the one
\* condition variable at once (iterated).
Delivered ==
  <>(CASE program = "monitor" -> endSignal \/ Monitor!AllRemoved
       [] program = "dijkstra" -> Dijkstra!GaveUp \/ Dijkstra!Undefined \/ Dijkstra!AllTaken
       [] program \in {"single", "single_c"} -> Single!Finished
       [] program = "lock-free" -> LockFree!AllPopped
       [] program = "waiting" -> endSignal \/ Waiting!AllRead
       [] program = "safe" -> Safe!Undefined \/ Safe!AllGot
       [] program = "iterated" -> endSignal \/ Iterated!AllTaken \/ Iterated!BothAsleep)

\* stop() of the monitor makes every thread return that is asleep when it sets
\* endSignal; close() of the iterated channel makes all threads return, although
\* producers asleep on a full channel do not look at the flag, and what was pushed before
\* it has been taken then.  A portion may follow the close, one for each producer that had
\* found the channel open, although channel.hpp:62 says that operator<< throws.
StopReaches ==
  /\ \A t \in Threads :
       (program = "monitor" /\ Monitor!ToBeWoken(t)) ~> (program = "monitor" /\ pc[t] = "done")
  /\ (program = "iterated" /\ endSignal)
       ~> (program = "iterated" /\ Iterated!Drained)
=============================================================================
