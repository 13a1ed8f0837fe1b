------------------------ MODULE FirstReadersWriters ------------------------
(***************************************************************************)
(* ProducerConsumer/first_readers_writers: readers preference.  The first  *)
(* reader takes the resource for all of them, the last one gives it back.  *)
(*                                                                         *)
(* countGuard is only ever taken with rmutex held and dataGuard protects   *)
(* nothing but the queue, so neither has a state of its own here: what is  *)
(* done under them is one step.  The values are not told apart.            *)
(***************************************************************************)
EXTENDS Synchronization, ReadersWritersThreads

VARIABLES resource, rmutex,   \* binary semaphores
          readcount,
          data,               \* number of values in the queue
          written,            \* values each writer has written
          result,             \* whether each reader's last read found a value
          pc                  \* next step of each thread

vars == <<resource, rmutex, readcount, data, written, result, pc>>

Init ==
  /\ resource = 1 /\ rmutex = 1 /\ readcount = 0 /\ data = 0
  /\ written = [w \in Writers |-> 0]
  /\ result = [t \in Readers |-> TRUE]
  /\ pc = [t \in Threads |-> IF t \in Readers THEN "start" ELSE "acquire"]

Goto(t, to) == pc' = [pc EXCEPT ![t] = to]

\* i < kMaxMessagesCount
WritesLeft(w) == written[w] < Messages

\* writer: resource.acquire()
WriteAcquire(w) ==
  /\ pc[w] = "acquire" /\ WritesLeft(w)
  /\ Acquire(resource) /\ Goto(w, "write")
  /\ UNCHANGED <<rmutex, readcount, data, written, result>>

\* data.push(value), under dataGuard
Write(w) ==
  /\ pc[w] = "write"
  /\ data' = data + 1 /\ written' = [written EXCEPT ![w] = @ + 1]
  /\ Goto(w, "release")
  /\ UNCHANGED <<resource, rmutex, readcount, result>>

\* resource.release(), and the writer's next call
WriteRelease(w) ==
  /\ pc[w] = "release"
  /\ Release(resource) /\ Goto(w, "acquire")
  /\ UNCHANGED <<rmutex, readcount, data, written, result>>

-----------------------------------------------------------------------------
\* startRead: rmutex.acquire()
StartAcquire(t) ==
  /\ pc[t] = "start"
  /\ Acquire(rmutex) /\ Goto(t, "count")
  /\ UNCHANGED <<resource, readcount, data, written, result>>

\* readcount++; only the first reader goes for the resource.
StartCount(t) ==
  /\ pc[t] = "count"
  /\ readcount' = readcount + 1
  /\ Goto(t, IF readcount' = 1 THEN "lock" ELSE "leave")
  /\ UNCHANGED <<resource, rmutex, data, written, result>>

\* resource.acquire(), with rmutex held
StartLock(t) ==
  /\ pc[t] = "lock"
  /\ Acquire(resource) /\ Goto(t, "leave")
  /\ UNCHANGED <<rmutex, readcount, data, written, result>>

\* rmutex.release(); startRead returns
StartLeave(t) ==
  /\ pc[t] = "leave"
  /\ Release(rmutex) /\ Goto(t, "read")
  /\ UNCHANGED <<resource, readcount, data, written, result>>

\* reader: takes the front of the queue, if there is one, under dataGuard.
Read(t) ==
  /\ pc[t] = "read"
  /\ result' = [result EXCEPT ![t] = data > 0]
  /\ data' = IF data > 0 THEN data - 1 ELSE data
  /\ Goto(t, "stop")
  /\ UNCHANGED <<resource, rmutex, readcount, written>>

\* stopRead: rmutex.acquire()
StopAcquire(t) ==
  /\ pc[t] = "stop"
  /\ Acquire(rmutex) /\ Goto(t, "uncount")
  /\ UNCHANGED <<resource, readcount, data, written, result>>

\* readcount == 0, after the decrement
Last(n) == n = 0

\* readcount--; the last reader releases the resource.
StopCount(t) ==
  /\ pc[t] = "uncount"
  /\ readcount' = readcount - 1
  /\ IF Last(readcount') THEN Release(resource) ELSE UNCHANGED resource
  /\ Goto(t, "exit")
  /\ UNCHANGED <<rmutex, data, written, result>>

\* rmutex.release(); the client stops at the first empty read.
StopLeave(t) ==
  /\ pc[t] = "exit"
  /\ Release(rmutex) /\ Goto(t, IF result[t] THEN "start" ELSE "done")
  /\ UNCHANGED <<resource, readcount, data, written, result>>

Writer(w) == WriteAcquire(w) \/ Write(w) \/ WriteRelease(w)
Reader(t) ==
  \/ StartAcquire(t) \/ StartCount(t) \/ StartLock(t) \/ StartLeave(t)
  \/ Read(t)
  \/ StopAcquire(t) \/ StopCount(t) \/ StopLeave(t)

\* main joins the four threads.
Finished ==
  /\ \A t \in Readers : pc[t] = "done"
  /\ \A w \in Writers : pc[w] = "acquire" /\ ~WritesLeft(w)
Join == Finished /\ UNCHANGED vars

Thread(t) == (t \in Writers /\ Writer(t)) \/ (t \in Readers /\ Reader(t))

Next ==
  \/ \E w \in Writers : Writer(w)
  \/ \E t \in Readers : Reader(t)
  \/ Join

-----------------------------------------------------------------------------
Steps == {"acquire", "write", "release", "start", "count", "lock", "leave",
          "read", "stop", "uncount", "exit", "done"}

TypeOK ==
  /\ resource \in {0, 1} /\ rmutex \in {0, 1}
  /\ readcount \in Nat /\ data \in Nat
  /\ written \in [Writers -> 0 .. Messages]
  /\ result \in [Readers -> BOOLEAN]
  /\ pc \in [Threads -> Steps]

\* Readers that own the share, and the writer that does.
Reading == {t \in Readers : pc[t] \in {"leave", "read", "stop", "uncount"}}
Writing == {w \in Writers : pc[w] \in {"write", "release"}}

\* main.cpp:1, "no reader shall be kept waiting if the share is currently opened
\* for reading": no reader then waits for the resource, in particular not with
\* rmutex held, where the others would queue behind it.
OpenShareNeverBlocks == Reading # {} => \A t \in Readers : pc[t] # "lock"

\* The end of the program, with both semaphores free and every message written.
Ended == Finished /\ resource = 1 /\ rmutex = 1
=============================================================================
