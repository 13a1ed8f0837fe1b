------------------------ MODULE ThirdReadersWriters ------------------------
(***************************************************************************)
(* ProducerConsumer/third_readers_writers: readers and writers queue up at *)
(* serviceQueue, which may let any of them through; that one is the next   *)
(* one inside.                                                             *)
(*                                                                         *)
(* readCountGuard is only taken with rmutex held and dataGuard protects    *)
(* nothing but the queue: what is done under them is one step.  The values *)
(* are not told apart.                                                     *)
(***************************************************************************)
EXTENDS Synchronization, ReadersWritersThreads

VARIABLES resource, rmutex, serviceQueue,   \* binary semaphores
          readCount,
          data,      \* number of values in the queue
          written,   \* values each writer has written
          result,    \* whether each reader's last read found a value
          pc         \* next step of each thread

vars == <<resource, rmutex, serviceQueue, readCount, data, written, result, pc>>

Init ==
  /\ resource = 1 /\ rmutex = 1 /\ serviceQueue = 1
  /\ readCount = 0 /\ data = 0
  /\ written = [w \in Writers |-> 0]
  /\ result = [t \in Readers |-> TRUE]
  /\ pc = [t \in Threads |-> "call"]

Move(t, from, to) == pc[t] = from /\ pc' = [pc EXCEPT ![t] = to]

\* i < kMaxMessagesCount
WritesLeft(t) == t \in Writers => written[t] < Messages

\* serviceQueue.acquire() returns: std::binary_semaphore picks any waiter.
Serve(t) ==
  /\ WritesLeft(t) /\ Move(t, "call", IF t \in Readers THEN "enter" ELSE "lock")
  /\ Acquire(serviceQueue)
  /\ UNCHANGED <<resource, rmutex, readCount, data, written, result>>

\* resource.acquire(), by a writer or by the first reader
Lock(t) ==
  /\ Move(t, "lock", "next") /\ Acquire(resource)
  /\ UNCHANGED <<rmutex, serviceQueue, readCount, data, written, result>>

\* serviceQueue.release(); startWrite returns, startRead still holds rmutex
NextInLine(t) ==
  /\ Move(t, "next", IF t \in Readers THEN "leave" ELSE "write")
  /\ Release(serviceQueue)
  /\ UNCHANGED <<resource, rmutex, readCount, data, written, result>>

-----------------------------------------------------------------------------
\* data.push(value), under dataGuard
Write(w) ==
  /\ Move(w, "write", "release")
  /\ data' = data + 1 /\ written' = [written EXCEPT ![w] = @ + 1]
  /\ UNCHANGED <<resource, rmutex, serviceQueue, readCount, result>>

\* endWrite: resource.release()
EndWrite(w) ==
  /\ Move(w, "release", "call") /\ Release(resource)
  /\ UNCHANGED <<rmutex, serviceQueue, readCount, data, written, result>>

-----------------------------------------------------------------------------
\* startRead: rmutex.acquire(), with serviceQueue held
ReadEnter(t) ==
  /\ Move(t, "enter", "count") /\ Acquire(rmutex)
  /\ UNCHANGED <<resource, serviceQueue, readCount, data, written, result>>

\* readCount++; the first reader goes for the resource.
ReadCount(t) ==
  /\ Move(t, "count", IF readCount = 0 THEN "lock" ELSE "next")
  /\ readCount' = readCount + 1
  /\ UNCHANGED <<resource, rmutex, serviceQueue, data, written, result>>

\* rmutex.release(); startRead returns
ReadLeave(t) ==
  /\ Move(t, "leave", "read") /\ Release(rmutex)
  /\ UNCHANGED <<resource, serviceQueue, readCount, data, written, result>>

\* reader: takes the front of the queue, if there is one, under dataGuard.
Read(t) ==
  /\ Move(t, "read", "stop")
  /\ result' = [result EXCEPT ![t] = data > 0]
  /\ data' = IF data > 0 THEN data - 1 ELSE data
  /\ UNCHANGED <<resource, rmutex, serviceQueue, readCount, written>>

\* endRead: rmutex.acquire()
ReadStop(t) ==
  /\ Move(t, "stop", "uncount") /\ Acquire(rmutex)
  /\ UNCHANGED <<resource, serviceQueue, readCount, data, written, result>>

\* readCount == 0, after the decrement
LastReader(n) == n = 0

\* readCount--; the last reader releases the resource.
ReadUncount(t) ==
  /\ Move(t, "uncount", "exit")
  /\ readCount' = readCount - 1
  /\ IF LastReader(readCount') THEN Release(resource) ELSE UNCHANGED resource
  /\ UNCHANGED <<rmutex, serviceQueue, data, written, result>>

\* rmutex.release(); the client stops at the first empty read.
ReadExit(t) ==
  /\ Move(t, "exit", IF result[t] THEN "call" ELSE "done") /\ Release(rmutex)
  /\ UNCHANGED <<resource, serviceQueue, readCount, data, written, result>>

Queueing(t) == Serve(t) \/ Lock(t) \/ NextInLine(t)
Writer(w) == Queueing(w) \/ Write(w) \/ EndWrite(w)
Reader(t) ==
  \/ Queueing(t) \/ ReadEnter(t) \/ ReadCount(t) \/ ReadLeave(t) \/ Read(t)
  \/ ReadStop(t) \/ ReadUncount(t) \/ ReadExit(t)

\* main joins the four threads.
Finished ==
  /\ \A t \in Readers : pc[t] = "done"
  /\ \A w \in Writers : pc[w] = "call" /\ ~WritesLeft(w)
Join == Finished /\ UNCHANGED vars

\* The step a thread takes.
Thread(t) == (t \in Writers /\ Writer(t)) \/ (t \in Readers /\ Reader(t))

Next == (\E t \in Threads : Thread(t)) \/ Join

Spec == Init /\ [][Next]_vars

-----------------------------------------------------------------------------
Steps == {"call", "enter", "count", "lock", "next", "leave", "read", "write",
          "release", "stop", "uncount", "exit", "done"}

TypeOK ==
  /\ resource \in {0, 1} /\ rmutex \in {0, 1} /\ serviceQueue \in {0, 1}
  /\ readCount \in Nat /\ data \in Nat
  /\ written \in [Writers -> 0 .. Messages]
  /\ result \in [Readers -> BOOLEAN]
  /\ pc \in [Threads -> Steps]

\* Readers and writers inside, and the thread that is through serviceQueue.
Reading == {t \in Readers : pc[t] \in {"next", "leave", "read", "stop", "uncount"}}
Writing == {w \in Writers : pc[w] \in {"next", "write", "release"}}
Inside == Reading \cup Writing
AtHead == {t \in Threads : pc[t] \in {"enter", "count", "lock"}}

\* A step that lets nobody in but the thread that is through serviceQueue.  Before it,
\* threads may overtake each other (see Serve).
InTurn == \A t \in AtHead : Inside' \subseteq Inside \cup {t}

\* The end of the program, with every semaphore free.
Ended == Finished /\ resource + rmutex + serviceQueue = 3
=============================================================================
