--------------------------- MODULE MonitorBuffer ---------------------------
(***************************************************************************)
(* producer_consumer_monitor/main.cpp: a ring with a mutex and two         *)
(* condition variables.  A thread that finds its predicate false holds the *)
(* mutex until it sleeps; stop() does not take the mutex, so it can come   *)
(* in between.  A body runs with the mutex held and is one step.           *)
(***************************************************************************)
EXTENDS BufferThreads, Synchronization

CONSTANT Nobody

VARIABLES buffer, head, tail, count,
          mutex,      \* its owner, or Nobody
          endSignal,
          nonempty, nonfull,   \* threads asleep on them
          sent,       \* portions each producer has produced
          popped,     \* history: what remove returned, in that order
          pc,         \* next step of each thread
          main        \* and of main

vars == <<buffer, head, tail, count, mutex, endSignal, nonempty, nonfull, sent, popped, pc, main>>

Init ==
  /\ buffer = [n \in 0 .. Size - 1 |-> Nobody] /\ head = 0 /\ tail = 0 /\ count = 0
  /\ mutex = Nobody /\ endSignal = FALSE
  /\ nonempty = {} /\ nonfull = {}
  /\ sent = [p \in Producers |-> 0] /\ popped = <<>>
  /\ pc = [t \in Threads |-> "call"] /\ main = "wait"

\* t runs, and gets the mutex.
Enters(t) == pc[t] = "call" /\ t \notin nonempty \cup nonfull /\ mutex = Nobody

\* The producer goes on to its next portion.
NextPortion(p) ==
  /\ sent' = [sent EXCEPT ![p] = @ + 1]
  /\ pc' = [pc EXCEPT ![p] = IF sent[p] + 1 < Items THEN "call" ELSE "done"]

\* append and remove: the predicate is false, and the thread is about to sleep.
Block(t) ==
  /\ Enters(t) /\ ~endSignal /\ count = (IF t \in Producers THEN Size ELSE 0)
  /\ mutex' = t /\ pc' = [pc EXCEPT ![t] = "sleep"]
  /\ UNCHANGED <<buffer, head, tail, count, endSignal, nonempty, nonfull, sent, popped, main>>

\* It sleeps, and calls again what it was doing when it is woken.
Sleep(t) ==
  /\ pc[t] = "sleep" /\ pc' = [pc EXCEPT ![t] = "call"]
  /\ mutex' = Nobody
  /\ IF t \in Producers THEN nonfull' = nonfull \cup {t} /\ UNCHANGED nonempty
     ELSE nonempty' = nonempty \cup {t} /\ UNCHANGED nonfull
  /\ UNCHANGED <<buffer, head, tail, count, endSignal, sent, popped, main>>

\* A spurious wake-up
Spurious(t) ==
  /\ t \in nonempty \cup nonfull
  /\ nonempty' = nonempty \ {t} /\ nonfull' = nonfull \ {t}
  /\ UNCHANGED <<buffer, head, tail, count, mutex, endSignal, sent, popped, pc, main>>

\* append
AppendPortion(p) ==
  /\ Enters(p) /\ ~endSignal /\ count < Size
  /\ buffer' = [buffer EXCEPT ![tail] = <<p, sent[p] + 1>>]
  /\ tail' = (tail + 1) % Size /\ count' = count + 1
  /\ Notify(nonempty, 1) /\ NextPortion(p)
  /\ UNCHANGED <<head, mutex, endSignal, nonfull, popped, main>>

\* append after the end: the portion is dropped.
AppendEnded(p) ==
  /\ Enters(p) /\ endSignal /\ NextPortion(p)
  /\ UNCHANGED <<buffer, head, tail, count, mutex, endSignal, nonempty, nonfull, popped, main>>

\* remove
RemovePortion(c) ==
  /\ Enters(c) /\ ~endSignal /\ count > 0
  /\ popped' = popped \o <<buffer[head]>>
  /\ head' = (head + 1) % Size /\ count' = count - 1
  /\ Notify(nonfull, 1)
  /\ UNCHANGED <<buffer, tail, mutex, endSignal, nonempty, sent, pc, main>>

\* remove after the end: nothing, and the consumer returns.
RemoveEnded(c) ==
  /\ Enters(c) /\ endSignal /\ pc' = [pc EXCEPT ![c] = "done"]
  /\ UNCHANGED <<buffer, head, tail, count, mutex, endSignal, nonempty, nonfull, sent, popped, main>>

Producer(p) == AppendPortion(p) \/ AppendEnded(p)
Consumer(c) == RemovePortion(c) \/ RemoveEnded(c)
Thread(t) == \/ Block(t) \/ Sleep(t)
             \/ (t \in Producers /\ Producer(t)) \/ (t \in Consumers /\ Consumer(t))

\* stop(): the flag, then both notifications, all without the mutex.
Stop ==
  /\ main = "wait" /\ main' = "nonempty" /\ endSignal' = TRUE
  /\ UNCHANGED <<buffer, head, tail, count, mutex, nonempty, nonfull, sent, popped, pc>>
NotifyNonempty ==
  /\ main = "nonempty" /\ main' = "nonfull" /\ NotifyAll(nonempty)
  /\ UNCHANGED <<buffer, head, tail, count, mutex, endSignal, nonfull, sent, popped, pc>>

\* A stop that forgets the producers.
NotifyNobody ==
  /\ main = "nonfull" /\ main' = "join"
  /\ UNCHANGED <<buffer, head, tail, count, mutex, endSignal, nonempty, nonfull, sent, popped, pc>>

NotifyNonfull ==
  /\ main = "nonfull" /\ main' = "join" /\ NotifyAll(nonfull)
  /\ UNCHANGED <<buffer, head, tail, count, mutex, endSignal, nonempty, sent, popped, pc>>

\* main is free to call stop() when it wants to, but does not stop half-way.
Stopping == NotifyNonempty \/ NotifyNonfull
Environment == Stop \/ \E t \in Threads : Spurious(t)

Next == (\E t \in Threads : Thread(t)) \/ Stopping \/ Environment

Spec == Init /\ [][Next]_vars

-----------------------------------------------------------------------------
TypeOK ==
  /\ buffer \in [0 .. Size - 1 -> Portion \cup {Nobody}]
  /\ head \in 0 .. Size - 1 /\ tail \in 0 .. Size - 1 /\ count \in 0 .. Size
  /\ mutex \in Threads \cup {Nobody} /\ endSignal \in BOOLEAN
  /\ nonempty \subseteq Consumers /\ nonfull \subseteq Producers
  /\ sent \in [Producers -> 0 .. Items] /\ popped \in Seq(Portion)
  /\ pc \in [Threads -> {"call", "sleep", "done"}]
  /\ main \in {"wait", "nonempty", "nonfull", "join"}

\* The portions in the buffer, the oldest first.
Contents == [n \in 1 .. count |-> buffer[(head + n - 1) % Size]]
AllRemoved == Len(popped) = AllPortions
\* A thread that was asleep when stop() set its flag.
ToBeWoken(t) == \/ main = "nonempty" /\ t \in nonempty
                \/ main \in {"nonempty", "nonfull"} /\ t \in nonfull
=============================================================================
