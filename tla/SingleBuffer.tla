---------------------------- MODULE SingleBuffer ----------------------------
(***************************************************************************)
(* The rings for one producer and one consumer: producer_consumer_single,  *)
(* where both wait busily for the atomic count, and                        *)
(* producer_consumer_single_c, where they wait for the semaphores empty    *)
(* and full, the latter of which is count here.  A mutex makes every       *)
(* access to the ring one step.                                            *)
(***************************************************************************)
EXTENDS Integers, Sequences

CONSTANTS Items, Size

VARIABLES program,    \* "single" or "single_c"
          buffer, head, tail,
          count, empty,
          sent, taken,   \* produced_count, consumed_count: i of the two loops
          popped,     \* history: what the consumer read
          pc          \* next step of the two threads

vars == <<program, buffer, head, tail, count, empty, sent, taken, popped, pc>>

Init ==
  /\ program \in {"single", "single_c"}
  /\ buffer = [n \in 0 .. Size - 1 |-> 0] /\ head = 0 /\ tail = 0
  /\ count = 0 /\ empty = Size
  /\ sent = 0 /\ taken = 0 /\ popped = <<>>
  /\ pc = [producer |-> "enter", consumer |-> "enter"]

Goto(t, from, to) == pc[t] = from /\ pc' = [pc EXCEPT ![t] = to]

\* while (N == count); sem_wait(&empty)
ProducerEnter ==
  /\ sent < Items /\ Goto("producer", "enter", "ring")
  /\ IF program = "single" THEN count # Size /\ UNCHANGED empty
     ELSE empty > 0 /\ empty' = empty - 1
  /\ UNCHANGED <<program, buffer, head, tail, count, sent, taken, popped>>

\* buffer[tail++] = message, tail %= N
Write ==
  /\ Goto("producer", "ring", "leave")
  /\ buffer' = [buffer EXCEPT ![tail] = sent + 1] /\ tail' = (tail + 1) % Size
  /\ UNCHANGED <<program, head, count, empty, sent, taken, popped>>

\* count.fetch_add(1); sem_post(&full)
ProducerLeave ==
  /\ Goto("producer", "leave", "enter")
  /\ count' = count + 1 /\ sent' = sent + 1
  /\ UNCHANGED <<program, buffer, head, tail, empty, taken, popped>>

\* while (0 == count); sem_wait(&full)
ConsumerEnter ==
  /\ taken < Items /\ Goto("consumer", "enter", "ring")
  /\ count > 0 /\ count' = IF program = "single" THEN count ELSE count - 1
  /\ UNCHANGED <<program, buffer, head, tail, empty, sent, taken, popped>>

\* message = buffer[head++], head %= N
Read ==
  /\ Goto("consumer", "ring", "leave")
  /\ popped' = Append(popped, buffer[head]) /\ head' = (head + 1) % Size
  /\ UNCHANGED <<program, buffer, tail, count, empty, sent, taken>>

\* count.fetch_sub(1); sem_post(&empty)
ConsumerLeave ==
  /\ Goto("consumer", "leave", "enter") /\ taken' = taken + 1
  /\ IF program = "single" THEN count' = count - 1 /\ UNCHANGED empty
     ELSE empty' = empty + 1 /\ UNCHANGED count
  /\ UNCHANGED <<program, buffer, head, tail, sent, popped>>

Producer == ProducerEnter \/ Write \/ ProducerLeave
Consumer == ConsumerEnter \/ Read \/ ConsumerLeave

\* main joins both threads.
Finished == sent = Items /\ taken = Items
Join == Finished /\ UNCHANGED vars

Next == Producer \/ Consumer \/ Join

Spec == Init /\ [][Next]_vars

-----------------------------------------------------------------------------
TypeOK ==
  /\ program \in {"single", "single_c"}
  /\ buffer \in [0 .. Size - 1 -> 0 .. Items]
  /\ head \in 0 .. Size - 1 /\ tail \in 0 .. Size - 1
  /\ count \in 0 .. Size /\ empty \in 0 .. Size
  /\ sent \in 0 .. Items /\ taken \in 0 .. Items /\ popped \in Seq(0 .. Items)
  /\ pc \in [{"producer", "consumer"} -> {"enter", "ring", "leave"}]

\* The messages in the ring for the consumer: those counted, with the one it has
\* acquired and without the one it has read.
Length == IF program = "single" THEN IF pc["consumer"] = "leave" THEN count - 1 ELSE count
          ELSE IF pc["consumer"] = "ring" THEN count + 1 ELSE count
Contents == [n \in 1 .. Length |-> buffer[(head + n - 1) % Size]]
=============================================================================
