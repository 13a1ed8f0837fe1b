------------------------------ MODULE SPSCQueue ------------------------------
(***************************************************************************)
(* The lock-free queue of LockFree/SPSCQueue/main.cpp with the threads of  *)
(* its demo_producer_consumer and demo_performance.  One slot always stays *)
(* free, so that writePos = readPos means empty.                           *)
(*                                                                         *)
(* One action is one access to shared memory; the position a thread itself *)
(* writes is read in the same step as the other thread's.                  *)
(***************************************************************************)
EXTENDS Integers, Sequences

CONSTANTS Size,    \* number of slots, at least 2
          Items    \* what the producer pushes

VARIABLES buffer, writePos, readPos,
          done,       \* the demo's flag
          i,          \* the item the producer is pushing
          pc,         \* next step of the two threads
          draining,   \* the consumer's pop is the one in the loop's condition
          popped,     \* history: what the calls of pop returned
          received    \* what the consumer kept

vars == <<buffer, writePos, readPos, done, i, pc, draining, popped, received>>

Init ==
  /\ buffer = [n \in 0 .. Size - 1 |-> 0]
  /\ writePos = 0 /\ readPos = 0 /\ done = FALSE
  /\ i = 1 /\ pc = [producer |-> "check", consumer |-> "test"]
  /\ draining = FALSE /\ popped = <<>> /\ received = <<>>

Goto(t, from, to) == pc[t] = from /\ pc' = [pc EXCEPT ![t] = to]

\* A producer that pushes once too often.
ItemsLeftOnceMore == i <= Items + 1

\* i < ITEMS
ItemsLeft == i <= Items

\* A full test that leaves no slot free.
FullNever == FALSE

\* nextWrite == readPos.load()
Full == (writePos + 1) % Size = readPos

\* push: a full queue makes it return false, and the producer calls it again.
PushCheck ==
  /\ ItemsLeft /\ Goto("producer", "check", IF Full THEN "check" ELSE "write")
  /\ UNCHANGED <<buffer, writePos, readPos, done, i, draining, popped, received>>

\* buffer[currentWrite] = value
PushWrite ==
  /\ Goto("producer", "write", "store")
  /\ buffer' = [buffer EXCEPT ![writePos] = i]
  /\ UNCHANGED <<writePos, readPos, done, i, draining, popped, received>>

\* writePos.store(nextWrite)
PushStore ==
  /\ Goto("producer", "store", "check")
  /\ writePos' = (writePos + 1) % Size
  /\ i' = i + 1
  /\ UNCHANGED <<buffer, readPos, done, draining, popped, received>>

\* done.store(true)
SetDone ==
  /\ ~ItemsLeft /\ Goto("producer", "check", "end")
  /\ done' = TRUE
  /\ UNCHANGED <<buffer, writePos, readPos, i, draining, popped, received>>

-----------------------------------------------------------------------------
\* while (!done.load() || queue.pop(value)): which of the two pops comes next.
TestDone ==
  /\ Goto("consumer", "test", "check")
  /\ draining' = done
  /\ UNCHANGED <<buffer, writePos, readPos, done, i, popped, received>>

\* currentRead == writePos.load()
Empty == readPos = writePos

\* pop on an empty queue returns false: the loop ends if it was the condition's.
PopCheck ==
  /\ Goto("consumer", "check",
          IF ~Empty THEN "read" ELSE IF draining THEN "end" ELSE "test")
  /\ UNCHANGED <<buffer, writePos, readPos, done, i, draining, popped, received>>

\* result = buffer[currentRead]; the condition's pop and the body's write the same
\* variable, and only the body keeps it.
PopRead ==
  /\ Goto("consumer", "read", "store")
  /\ popped' = Append(popped, buffer[readPos])
  /\ received' = IF draining THEN received ELSE Append(received, buffer[readPos])
  /\ UNCHANGED <<buffer, writePos, readPos, done, i, draining>>

\* readPos.store(...); after the condition's pop comes the body's.
PopStore ==
  /\ Goto("consumer", "store", IF draining THEN "check" ELSE "test")
  /\ readPos' = (readPos + 1) % Size
  /\ draining' = FALSE
  /\ UNCHANGED <<buffer, writePos, done, i, popped, received>>

Producer == PushCheck \/ PushWrite \/ PushStore \/ SetDone
Consumer == TestDone \/ PopCheck \/ PopRead \/ PopStore

\* The demo joins both threads.
Finished == pc["producer"] = "end" /\ pc["consumer"] = "end"
Join == Finished /\ UNCHANGED vars

Next == Producer \/ Consumer \/ Join

\* Both threads keep being scheduled.
Fairness == WF_vars(Producer) /\ WF_vars(Consumer)

Spec == Init /\ [][Next]_vars /\ Fairness

-----------------------------------------------------------------------------
TypeOK ==
  /\ buffer \in [0 .. Size - 1 -> 0 .. Items]
  /\ writePos \in 0 .. Size - 1 /\ readPos \in 0 .. Size - 1
  /\ done \in BOOLEAN /\ draining \in BOOLEAN
  /\ i \in 1 .. Items + 1
  /\ pc \in [{"producer", "consumer"} -> {"test", "check", "write", "read", "store", "end"}]
  /\ popped \in Seq(0 .. Items) /\ received \in Seq(0 .. Items)

\* The queue as its users see it: an element is in it from the store of writePos
\* to the reading of its slot.
Length == (writePos - readPos + Size) % Size
Skip == IF pc["consumer"] = "store" THEN 1 ELSE 0
Contents == [n \in 1 .. Length - Skip |-> buffer[(readPos + n - 1 + Skip) % Size]]

\* The consumer has stopped, and every item has been popped.
AllPopped == Finished /\ popped = [n \in 1 .. Items |-> n]
=============================================================================
