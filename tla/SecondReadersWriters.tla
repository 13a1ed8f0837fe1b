----------------------- MODULE SecondReadersWriters -----------------------
(***************************************************************************)
(* ProducerConsumer/second_readers_writers: writers preference.  The first *)
(* writer shuts the readers out by taking readTry, the last one opens it.  *)
(* The C program second_readers_writers_c is the same protocol with        *)
(* threads that enter once (rsem = readTry, wsem = resource, rcount_guard  *)
(* = rmutex, wcount_guard = wmutex; p_guard only orders the printing).     *)
(*                                                                         *)
(* The count guards are only taken with rmutex or wmutex held and          *)
(* dataGuard protects nothing but the queue: what is done under them is    *)
(* one step.  The values are not told apart.                               *)
(***************************************************************************)
EXTENDS Synchronization, ReadersWritersThreads

VARIABLES once,      \* TRUE for the C program: its threads run once
          wmutex, rmutex, readTry, resource,   \* binary semaphores
          readCount, writeCount,
          data,      \* number of values in the queue; of updates of sh_var
          written,   \* values each writer has written
          result,    \* whether each reader goes on reading
          pc         \* next step of each thread

semaphores == <<wmutex, rmutex, readTry, resource>>
counts == <<readCount, writeCount>>
vars == <<once, semaphores, counts, data, written, result, pc>>

Init ==
  /\ once \in BOOLEAN
  /\ wmutex = 1 /\ rmutex = 1 /\ readTry = 1 /\ resource = 1
  /\ readCount = 0 /\ writeCount = 0 /\ data = 0
  /\ written = [w \in Writers |-> 0]
  /\ result = [t \in Readers |-> TRUE]
  /\ pc = [t \in Threads |-> IF t \in Readers THEN "try" ELSE "enter"]

\* A step of thread t that changes nothing but its place and what the caller says.
Move(t, from, to) == pc[t] = from /\ pc' = [pc EXCEPT ![t] = to]

\* A writer whose loop runs once too often.
WritesLeftOnceMore(w) == written[w] <= Messages

\* i < kMaxMessagesCount; the C writer writes once.
WritesLeft(w) == written[w] < IF once THEN 1 ELSE Messages

\* startWrite: wmutex.acquire()
WriteEnter(w) ==
  /\ Move(w, "enter", "count") /\ WritesLeft(w) /\ Acquire(wmutex)
  /\ UNCHANGED <<once, rmutex, readTry, resource, counts, data, written, result>>

\* writeCount++; the first writer goes for readTry.
WriteCount(w) ==
  /\ Move(w, "count", IF writeCount = 0 THEN "shut" ELSE "leave")
  /\ writeCount' = writeCount + 1
  /\ UNCHANGED <<once, semaphores, readCount, data, written, result>>

\* readTry.acquire(), with wmutex held
WriteShut(w) ==
  /\ Move(w, "shut", "leave") /\ Acquire(readTry)
  /\ UNCHANGED <<once, wmutex, rmutex, resource, counts, data, written, result>>

\* wmutex.release()
WriteLeave(w) ==
  /\ Move(w, "leave", "lock") /\ Release(wmutex)
  /\ UNCHANGED <<once, rmutex, readTry, resource, counts, data, written, result>>

\* resource.acquire()
WriteLock(w) ==
  /\ Move(w, "lock", "write") /\ Acquire(resource)
  /\ UNCHANGED <<once, wmutex, rmutex, readTry, counts, data, written, result>>

\* data.push(value) under dataGuard; sh_var = sh_var + 5
Write(w) ==
  /\ Move(w, "write", "unlock")
  /\ data' = data + 1 /\ written' = [written EXCEPT ![w] = @ + 1]
  /\ UNCHANGED <<once, semaphores, counts, result>>

\* resource.release()
WriteUnlock(w) ==
  /\ Move(w, "unlock", "stop") /\ Release(resource)
  /\ UNCHANGED <<once, wmutex, rmutex, readTry, counts, data, written, result>>

\* endWrite: wmutex.acquire()
WriteStop(w) ==
  /\ Move(w, "stop", "uncount") /\ Acquire(wmutex)
  /\ UNCHANGED <<once, rmutex, readTry, resource, counts, data, written, result>>

\* writeCount == 0, after the decrement
LastWriter(n) == n = 0

\* writeCount--; the last writer opens readTry.
WriteUncount(w) ==
  /\ Move(w, "uncount", "exit")
  /\ writeCount' = writeCount - 1
  /\ IF LastWriter(writeCount') THEN Release(readTry) ELSE UNCHANGED readTry
  /\ UNCHANGED <<once, wmutex, rmutex, resource, readCount, data, written, result>>

\* wmutex.release()
WriteExit(w) ==
  /\ Move(w, "exit", "enter") /\ Release(wmutex)
  /\ UNCHANGED <<once, rmutex, readTry, resource, counts, data, written, result>>

Writer(w) ==
  \/ WriteEnter(w) \/ WriteCount(w) \/ WriteShut(w) \/ WriteLeave(w)
  \/ WriteLock(w) \/ Write(w) \/ WriteUnlock(w)
  \/ WriteStop(w) \/ WriteUncount(w) \/ WriteExit(w)

-----------------------------------------------------------------------------
\* A reader that does not try.
TryNothing(t) ==
  /\ Move(t, "try", "enter")
  /\ UNCHANGED <<once, semaphores, counts, data, written, result>>

\* startRead: readTry.acquire()
ReadTry(t) ==
  /\ Move(t, "try", "enter") /\ Acquire(readTry)
  /\ UNCHANGED <<once, wmutex, rmutex, resource, counts, data, written, result>>

\* rmutex.acquire(), with readTry held
ReadEnter(t) ==
  /\ Move(t, "enter", "count") /\ Acquire(rmutex)
  /\ UNCHANGED <<once, wmutex, readTry, resource, counts, data, written, result>>

\* readCount++; the first reader goes for the resource.
ReadCount(t) ==
  /\ Move(t, "count", IF readCount = 0 THEN "lock" ELSE "leave")
  /\ readCount' = readCount + 1
  /\ UNCHANGED <<once, semaphores, writeCount, data, written, result>>

\* resource.acquire(), with readTry and rmutex held
ReadLock(t) ==
  /\ Move(t, "lock", "leave") /\ Acquire(resource)
  /\ UNCHANGED <<once, wmutex, rmutex, readTry, counts, data, written, result>>

\* rmutex.release()
ReadLeave(t) ==
  /\ Move(t, "leave", "tried") /\ Release(rmutex)
  /\ UNCHANGED <<once, wmutex, readTry, resource, counts, data, written, result>>

\* readTry.release(); startRead returns
ReadTried(t) ==
  /\ Move(t, "tried", "read") /\ Release(readTry)
  /\ UNCHANGED <<once, wmutex, rmutex, resource, counts, data, written, result>>

\* reader: takes the front of the queue, if there is one, under dataGuard.
ReadQueue(t) ==
  /\ ~once /\ Move(t, "read", "stop")
  /\ result' = [result EXCEPT ![t] = data > 0]
  /\ data' = IF data > 0 THEN data - 1 ELSE data
  /\ UNCHANGED <<once, semaphores, counts, written>>

\* The C reader prints sh_var and is done after this round.
ReadVariable(t) ==
  /\ once /\ Move(t, "read", "stop")
  /\ result' = [result EXCEPT ![t] = FALSE]
  /\ UNCHANGED <<once, semaphores, counts, data, written>>

\* endRead: rmutex.acquire()
ReadStop(t) ==
  /\ Move(t, "stop", "uncount") /\ Acquire(rmutex)
  /\ UNCHANGED <<once, wmutex, readTry, resource, counts, data, written, result>>

\* readCount--; the last reader releases the resource.
ReadUncount(t) ==
  /\ Move(t, "uncount", "exit")
  /\ readCount' = readCount - 1
  /\ IF readCount' = 0 THEN Release(resource) ELSE UNCHANGED resource
  /\ UNCHANGED <<once, wmutex, rmutex, readTry, writeCount, data, written, result>>

\* rmutex.release(); the client stops at the first empty read.
ReadExit(t) ==
  /\ Move(t, "exit", IF result[t] THEN "try" ELSE "done") /\ Release(rmutex)
  /\ UNCHANGED <<once, wmutex, readTry, resource, counts, data, written, result>>

Reader(t) ==
  \/ ReadTry(t) \/ ReadEnter(t) \/ ReadCount(t) \/ ReadLock(t) \/ ReadLeave(t)
  \/ ReadTried(t) \/ ReadQueue(t) \/ ReadVariable(t)
  \/ ReadStop(t) \/ ReadUncount(t) \/ ReadExit(t)

\* main joins the threads.
Finished ==
  /\ \A t \in Readers : pc[t] = "done"
  /\ \A w \in Writers : pc[w] = "enter" /\ ~WritesLeft(w)
Join == Finished /\ UNCHANGED vars

\* The step a thread takes.
Thread(t) == (t \in Writers /\ Writer(t)) \/ (t \in Readers /\ Reader(t))

Next == (\E t \in Threads : Thread(t)) \/ Join

Spec == Init /\ [][Next]_vars

-----------------------------------------------------------------------------
Steps == {"try", "enter", "count", "shut", "lock", "leave", "tried", "read", "write",
          "unlock", "stop", "uncount", "exit", "done"}

TypeOK ==
  /\ once \in BOOLEAN
  /\ wmutex \in {0, 1} /\ rmutex \in {0, 1} /\ readTry \in {0, 1} /\ resource \in {0, 1}
  /\ readCount \in Nat /\ writeCount \in Nat /\ data \in Nat
  /\ written \in [Writers -> 0 .. Messages]
  /\ result \in [Readers -> BOOLEAN]
  /\ pc \in [Threads -> Steps]

\* Readers that own the share, the writer that does, and the writers on whose
\* behalf readTry is shut.
Reading == {t \in Readers : pc[t] \in {"leave", "tried", "read", "stop", "uncount"}}
Writing == {w \in Writers : pc[w] \in {"write", "unlock"}}
Announced == {w \in Writers : pc[w] \in {"leave", "lock", "write", "unlock", "stop", "uncount"}}

\* A step that lets no further reader in while a writer is announced.
ShutOut == Announced # {} => Reading' \subseteq Reading

\* The end of the program, with every semaphore free and every message written.
Ended == Finished /\ wmutex + rmutex + readTry + resource = 4
=============================================================================
