------------------------ MODULE LightweightSemaphore ------------------------
(***************************************************************************)
(* spsc_daugaard/v2/sema.h: a counter that is negative by the number of    *)
(* waiters in front of a kernel semaphore, so that an uncontended wait     *)
(* stays out of the kernel.  Nothing in the repository uses it; here it    *)
(* guards a counter, as in the tests of the library it is from.            *)
(***************************************************************************)
EXTENDS Integers, FiniteSets

CONSTANTS Lockers,   \* the threads that share the lock
          Rounds     \* how often each of them takes it

VARIABLES m_count, m_sema,
          oldCount,   \* each thread's local of this name
          data,       \* the guarded counter
          written,    \* rounds each thread has made
          pc          \* its next step

vars == <<m_count, m_sema, oldCount, data, written, pc>>

Init ==
  /\ m_count = 1 /\ m_sema = 0 /\ data = 0
  /\ oldCount = [t \in Lockers |-> 0] /\ written = [t \in Lockers |-> 0]
  /\ pc = [t \in Lockers |-> "wait"]

Move(t, from, to) == pc[t] = from /\ pc' = [pc EXCEPT ![t] = to]
RoundsLeft(t) == written[t] < Rounds

\* tryWait, and every turn of waitWithPartialSpinning: the load
LoadCount(t) ==
  /\ RoundsLeft(t) /\ Move(t, "wait", "exchange")
  /\ oldCount' = [oldCount EXCEPT ![t] = m_count]
  /\ UNCHANGED <<m_count, m_sema, data, written>>

\* and compare_exchange_strong.  It fails, or there is nothing to take: the thread
\* spins on, or has spun enough.
TryTake(t) ==
  /\ oldCount[t] > 0 /\ m_count = oldCount[t] /\ Move(t, "exchange", "load")
  /\ m_count' = oldCount[t] - 1
  /\ UNCHANGED <<m_sema, oldCount, data, written>>
SpinOn(t) ==
  /\ ~(oldCount[t] > 0 /\ m_count = oldCount[t])
  /\ \E next \in {"wait", "subtract"} : Move(t, "exchange", next)
  /\ UNCHANGED <<m_count, m_sema, oldCount, data, written>>

\* fetch_sub: the thread has a unit, or counts as a waiter.
Subtract(t) ==
  /\ Move(t, "subtract", IF m_count <= 0 THEN "sleep" ELSE "load")
  /\ m_count' = m_count - 1
  /\ UNCHANGED <<m_sema, oldCount, data, written>>

\* m_sema.wait()
KernelWait(t) ==
  /\ m_sema > 0 /\ Move(t, "sleep", "load") /\ m_sema' = m_sema - 1
  /\ UNCHANGED <<m_count, oldCount, data, written>>

\* The counter, in the hands of the thread that has the unit
Load(t) ==
  /\ Move(t, "load", "store") /\ oldCount' = [oldCount EXCEPT ![t] = data]
  /\ UNCHANGED <<m_count, m_sema, data, written>>
Store(t) ==
  /\ Move(t, "store", "signal") /\ data' = oldCount[t] + 1
  /\ written' = [written EXCEPT ![t] = @ + 1]
  /\ UNCHANGED <<m_count, m_sema, oldCount>>

\* A signal that wakes a waiter only if there are more than one
ToReleaseFew(old) == IF -old < 1 THEN -old ELSE 0

\* toRelease, the smaller of the waiters and count
ToRelease(old) == IF -old < 1 THEN -old ELSE 1

\* signal: fetch_add
Signal(t) ==
  /\ Move(t, "signal", IF ToRelease(m_count) > 0 THEN "post" ELSE "wait")
  /\ m_count' = m_count + 1
  /\ UNCHANGED <<m_sema, oldCount, data, written>>

\* m_sema.signal(toRelease)
Post(t) ==
  /\ Move(t, "post", "wait") /\ m_sema' = m_sema + 1
  /\ UNCHANGED <<m_count, oldCount, data, written>>

Thread(t) == \/ LoadCount(t) \/ TryTake(t) \/ SpinOn(t) \/ Subtract(t) \/ KernelWait(t)
             \/ Load(t) \/ Store(t) \/ Signal(t) \/ Post(t)

Finished == \A t \in Lockers : pc[t] = "wait" /\ ~RoundsLeft(t)
Join == Finished /\ UNCHANGED vars

Next == (\E t \in Lockers : Thread(t)) \/ Join

-----------------------------------------------------------------------------
TypeOK ==
  /\ m_count \in Int /\ m_sema \in Nat /\ data \in Nat
  /\ oldCount \in [Lockers -> Int] /\ written \in [Lockers -> 0 .. Rounds]
  /\ pc \in [Lockers -> {"wait", "exchange", "subtract", "sleep", "load", "store", "signal", "post"}]

Writing == {t \in Lockers : pc[t] \in {"load", "store", "signal"}}
Sleepers == {t \in Lockers : pc[t] = "sleep"}
Posting == {t \in Lockers : pc[t] = "post"}

\* m_count below zero counts the sleepers that nobody has begun to wake.
CountsSleepers ==
  Cardinality(Sleepers) = (IF m_count < 0 THEN -m_count ELSE 0) + m_sema + Cardinality(Posting)

Ended == Finished /\ m_count = 1 /\ m_sema = 0
=============================================================================
