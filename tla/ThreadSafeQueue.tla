-------------------------- MODULE ThreadSafeQueue --------------------------
(***************************************************************************)
(* The queue of MonitorObject/Cpp11 and Cpp20.  add() notifies after it    *)
(* has released the mutex; get() waits in one critical section and takes   *)
(* in the next, where the queue may be empty again.                        *)
(***************************************************************************)
EXTENDS BufferThreads, Synchronization

VARIABLES buffer,     \* myQueue
          nonempty,   \* threads asleep on monitCond
          sent,       \* calls each thread has made
          popped,     \* history: what the calls of get returned
          pc          \* next step of each thread

vars == <<buffer, nonempty, sent, popped, pc>>

Init ==
  /\ buffer = <<>> /\ nonempty = {} /\ popped = <<>>
  /\ sent = [t \in Threads |-> 0]
  /\ pc = [t \in Threads |-> "call"]

Goto(t, from, to) == pc[t] = from /\ pc' = [pc EXCEPT ![t] = to]

\* The call returns; every thread makes as many.
Return(t, from) ==
  /\ Goto(t, from, IF sent[t] + 1 < Items THEN "call" ELSE "done")
  /\ sent' = [sent EXCEPT ![t] = @ + 1]

\* add
Push(p) ==
  /\ Goto(p, "call", "notify")
  /\ buffer' = buffer \o <<<<p, sent[p] + 1>>>>
  /\ UNCHANGED <<nonempty, sent, popped>>

\* An add that notifies nobody.
NotifyNobody(p) ==
  /\ Return(p, "notify")
  /\ UNCHANGED <<buffer, nonempty, popped>>

NotifyOne(p) ==
  /\ Return(p, "notify") /\ Notify(nonempty, 1)
  /\ UNCHANGED <<buffer, popped>>

\* get: monitorForQueue.wait
WaitSleep(c) ==
  /\ pc[c] = "call" /\ c \notin nonempty /\ buffer = <<>>
  /\ nonempty' = nonempty \cup {c}
  /\ UNCHANGED <<buffer, sent, popped, pc>>
Wait(c) ==
  /\ c \notin nonempty /\ buffer # <<>> /\ Goto(c, "call", "take")
  /\ UNCHANGED <<buffer, nonempty, sent, popped>>

\* front() and pop(), which have no defined effect on an empty queue
Take(c) ==
  /\ buffer # <<>> /\ Return(c, "take")
  /\ buffer' = Tail(buffer) /\ popped' = popped \o <<Head(buffer)>>
  /\ UNCHANGED nonempty
TakeUndefined(c) ==
  /\ buffer = <<>> /\ Goto(c, "take", "undefined")
  /\ UNCHANGED <<buffer, nonempty, sent, popped>>

Producer(p) == Push(p) \/ NotifyOne(p)
Consumer(c) == WaitSleep(c) \/ Wait(c) \/ Take(c) \/ TakeUndefined(c)
Thread(t) == (t \in Producers /\ Producer(t)) \/ (t \in Consumers /\ Consumer(t))

Spurious(c) ==
  /\ c \in nonempty /\ nonempty' = nonempty \ {c}
  /\ UNCHANGED <<buffer, sent, popped, pc>>
Environment == \E c \in Consumers : Spurious(c)

Next == (\E t \in Threads : Thread(t)) \/ Environment

Spec == Init /\ [][Next]_vars

-----------------------------------------------------------------------------
TypeOK ==
  /\ buffer \in Seq(Portion) /\ nonempty \subseteq Consumers
  /\ sent \in [Threads -> 0 .. Items] /\ popped \in Seq(Portion)
  /\ pc \in [Threads -> {"call", "notify", "take", "undefined", "done"}]

AllGot == Len(popped) = AllPortions
Undefined == \E c \in Consumers : pc[c] = "undefined"
=============================================================================
