----------------------------- MODULE RingBuffer -----------------------------
(***************************************************************************)
(* The single-producer, single-consumer byte rings of                      *)
(* ProducerConsumer/spsc_daugaard.  v1 spins for space; v2 (with sema.h)   *)
(* and v2_std_semaphore ask the other side for a signal, look again, and   *)
(* sleep on a semaphore.  Writer and reader run the same protocol with     *)
(* their roles exchanged, so every operation here takes the side.          *)
(*                                                                         *)
(* The k-th message takes Lens[k] units, aligned to Aligns[k]; a message   *)
(* that does not fit before the end of the buffer goes to its beginning.   *)
(* Positions are natural numbers: they count bytes and wrap at 2^64.       *)
(***************************************************************************)
EXTENDS Integers, Sequences

CONSTANTS Size,     \* of the buffer
          Lens,     \* length of each message
          Aligns    \* alignment of each message

ASSUME SizeAssumption == Size \in Nat \ {0}
\* Each message fits in the buffer.  One longer than half of it may wait for ever for
\* space: the units it wastes at the end only count as read once it is read itself.
ASSUME MessagesAssumption ==
  /\ Lens \in Seq(Nat \ {0}) /\ Aligns \in Seq(Nat \ {0}) /\ Len(Lens) = Len(Aligns)
  /\ \A k \in 1 .. Len(Lens) : Lens[k] <= Size /\ Size % Aligns[k] = 0

VARIABLES sleeps,        \* TRUE in v2, FALSE in v1
          local,         \* m_Writer, m_Reader: [pos, end, base]
          shared,        \* pos of m_WriterShared, m_ReaderShared
          shouldSignal,  \* shouldSignal of the two
          sem,           \* semaphore of the two
          buffer,        \* the message in each unit
          k,             \* the message each side is at
          at,            \* the locals pos and end of its Prepare
          seen,          \* its local readerPos, writerPos
          pc             \* its next step

vars == <<sleeps, local, shared, shouldSignal, sem, buffer, k, at, seen, pc>>

Sides == {"writer", "reader"}
Other(s) == IF s = "writer" THEN "reader" ELSE "writer"
Messages == 1 .. Len(Lens)

Init ==
  /\ sleeps \in BOOLEAN
  /\ local = [s \in Sides |->
                [pos |-> 0, end |-> IF s = "writer" THEN Size ELSE 0, base |-> 0]]
  /\ shared = [s \in Sides |-> 0]
  /\ shouldSignal = [s \in Sides |-> FALSE]
  /\ sem = [s \in Sides |-> 0]
  /\ buffer = [u \in 0 .. Size - 1 |-> 0]
  /\ k = [s \in Sides |-> 1]
  /\ at = [s \in Sides |-> [pos |-> 0, end |-> 0]]
  /\ seen = [s \in Sides |-> 0]
  /\ pc = [s \in Sides |-> "prepare"]

Move(s, from, to) == pc[s] = from /\ pc' = [pc EXCEPT ![s] = to]

Align(pos, alignment) == ((pos + alignment - 1) \div alignment) * alignment

\* std::min left out
SmallerForgotten(a, b) == a

\* std::min
Smaller(a, b) == IF a < b THEN a ELSE b

\* Prepare, up to the loop: the place of the message, which moves to the start of
\* the buffer, one lap further, when it does not fit before its end.
Prepare(s) ==
  LET pos == Align(local[s].pos, Aligns[k[s]])
      end == pos + Lens[k[s]]
      wraps == end > local[s].end /\ end > Size
  IN /\ k[s] \in Messages
     /\ Move(s, "prepare", IF end > local[s].end THEN "load" ELSE "use")
     /\ at' = [at EXCEPT ![s] = IF wraps THEN [pos |-> 0, end |-> Lens[k[s]]]
                                ELSE [pos |-> pos, end |-> end]]
     /\ local' = [local EXCEPT ![s].base = IF wraps THEN @ + Size ELSE @]
     /\ UNCHANGED <<sleeps, shared, shouldSignal, sem, buffer, k, seen>>

\* An off-by-one: the writer gets one unit too many.
AvailableOneMore(s, p) ==
  IF s = "writer" THEN p - local[s].base + Size + 1 ELSE p - local[s].base

\* available: of the buffer for the writer, of the written data for the reader
Available(s, p) ==
  IF s = "writer" THEN p - local[s].base + Size ELSE p - local[s].base

\* The loop's load of the other side's position.
LoadPos(s) ==
  LET available == Available(s, shared[Other(s)])
      enough == available >= at[s].end
  IN /\ Move(s, "load", IF enough THEN "use" ELSE IF sleeps THEN "request" ELSE "load")
     /\ seen' = [seen EXCEPT ![s] = shared[Other(s)]]
     /\ local' = [local EXCEPT ![s].end = IF enough THEN Smaller(available, Size) ELSE @]
     /\ UNCHANGED <<sleeps, shared, shouldSignal, sem, buffer, k, at>>

\* shouldSignal.store(true)
Request(s) ==
  /\ Move(s, "request", "recheck")
  /\ shouldSignal' = [shouldSignal EXCEPT ![Other(s)] = TRUE]
  /\ UNCHANGED <<sleeps, local, shared, sem, buffer, k, at, seen>>

\* Goes to sleep without looking again.
RecheckNothing(s) ==
  /\ Move(s, "recheck", "wait")
  /\ UNCHANGED <<sleeps, local, shared, shouldSignal, sem, buffer, k, at, seen>>

\* Has the position changed since?
Recheck(s) ==
  /\ Move(s, "recheck", IF seen[s] # shared[Other(s)] THEN "cancel" ELSE "wait")
  /\ UNCHANGED <<sleeps, local, shared, shouldSignal, sem, buffer, k, at, seen>>

\* Cancels by a plain store: the signal may be on its way.
CancelByStore(s) ==
  /\ Move(s, "cancel", "load")
  /\ shouldSignal' = [shouldSignal EXCEPT ![Other(s)] = FALSE]
  /\ UNCHANGED <<sleeps, local, shared, sem, buffer, k, at, seen>>

\* shouldSignal.exchange(false): if it was still set the request is cancelled, and
\* otherwise the signal is on its way and must be waited for.
Cancel(s) ==
  /\ Move(s, "cancel", IF shouldSignal[Other(s)] THEN "load" ELSE "wait")
  /\ shouldSignal' = [shouldSignal EXCEPT ![Other(s)] = FALSE]
  /\ UNCHANGED <<sleeps, local, shared, sem, buffer, k, at, seen>>

\* semaphore.wait() / acquire()
Wait(s) ==
  /\ Move(s, "wait", "load")
  /\ sem[s] > 0 /\ sem' = [sem EXCEPT ![s] = @ - 1]
  /\ UNCHANGED <<sleeps, local, shared, shouldSignal, buffer, k, at, seen>>

\* The end of Prepare, and the client's use of the space: the writer fills it.
Use(s) ==
  /\ Move(s, "use", "finish")
  /\ local' = [local EXCEPT ![s].pos = at[s].end]
  /\ buffer' = IF s = "reader" THEN buffer
               ELSE [u \in 0 .. Size - 1 |->
                       IF u \in at[s].pos .. at[s].end - 1 THEN k[s] ELSE buffer[u]]
  /\ UNCHANGED <<sleeps, shared, shouldSignal, sem, k, at, seen>>

\* Finish: publish the position.
Publish(s) ==
  /\ Move(s, "finish", IF sleeps THEN "exchange" ELSE "prepare")
  /\ shared' = [shared EXCEPT ![s] = local[s].base + local[s].pos]
  /\ k' = [k EXCEPT ![s] = @ + 1]
  /\ UNCHANGED <<sleeps, local, shouldSignal, sem, buffer, at, seen>>

\* shouldSignal.exchange(false)
Exchange(s) ==
  /\ Move(s, "exchange", IF shouldSignal[s] THEN "signal" ELSE "prepare")
  /\ shouldSignal' = [shouldSignal EXCEPT ![s] = FALSE]
  /\ UNCHANGED <<sleeps, local, shared, sem, buffer, k, at, seen>>

\* semaphore.signal() / release(), of the other side's semaphore
Signal(s) ==
  /\ Move(s, "signal", "prepare")
  /\ sem' = [sem EXCEPT ![Other(s)] = @ + 1]
  /\ UNCHANGED <<sleeps, local, shared, shouldSignal, buffer, k, at, seen>>

Side(s) ==
  \/ Prepare(s) \/ LoadPos(s) \/ Request(s) \/ Recheck(s) \/ Cancel(s) \/ Wait(s)
  \/ Use(s) \/ Publish(s) \/ Exchange(s) \/ Signal(s)

Finished == \A s \in Sides : pc[s] = "prepare" /\ k[s] \notin Messages
\* main joins both threads.
Join == Finished /\ UNCHANGED vars

Next == (\E s \in Sides : Side(s)) \/ Join

\* Both threads keep being scheduled.
Fairness == \A s \in Sides : WF_vars(Side(s))

Spec == Init /\ [][Next]_vars /\ Fairness

-----------------------------------------------------------------------------
TypeOK ==
  /\ sleeps \in BOOLEAN
  /\ local \in [Sides -> [pos : 0 .. Size, end : 0 .. Size, base : Nat]]
  /\ shared \in [Sides -> Nat]
  /\ shouldSignal \in [Sides -> BOOLEAN]
  /\ sem \in [Sides -> Nat]
  /\ buffer \in [0 .. Size - 1 -> 0 .. Len(Lens)]
  /\ k \in [Sides -> 1 .. Len(Lens) + 1]
  /\ at \in [Sides -> [pos : 0 .. Size, end : 0 .. Size]]
  /\ seen \in [Sides -> Nat]
  /\ pc \in [Sides -> {"prepare", "load", "request", "recheck", "cancel", "wait", "use",
                       "finish", "exchange", "signal"}]

\* From the return of PrepareRead to FinishRead the reader's space holds the whole
\* message it is about to read: written before, and not overwritten meanwhile.
ReadsWhatWasWritten ==
  pc["reader"] \in {"use", "finish"} =>
    \A u \in at["reader"].pos .. at["reader"].end - 1 : buffer[u] = k["reader"]

\* Neither semaphore ever holds two signals, so that std::binary_semaphore, whose
\* release at 1 is undefined, will do in v2_std_semaphore.
SemaphoreIsBinary == \A s \in Sides : sem[s] <= 1

\* Neither side sleeps for ever: all messages are written and read, if none is longer
\* than half the buffer.  The code states no such limit.
Termination == (\A m \in Messages : 2 * Lens[m] <= Size) => <>Finished

-----------------------------------------------------------------------------
\* The messages of the run: one and two units in a buffer of four, so that a message is
\* now and then moved to the start of the buffer.
MixedLens == <<1, 2, 1, 2, 1, 2, 2>>
MixedAligns == <<1, 2, 1, 1, 1, 2, 1>>
=============================================================================
