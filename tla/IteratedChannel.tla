-------------------------- MODULE IteratedChannel --------------------------
(***************************************************************************)
(* producer_consumer_channel_2: a bounded queue with one condition         *)
(* variable for producers and consumers, and an iterator whose != waits    *)
(* for an element and whose * takes one, or returns what it returned last  *)
(* if the channel was closed and emptied in between.  Both the size and    *)
(* the flag change with the mutex held, so a critical section is one step; *)
(* the notification comes after it.                                        *)
(***************************************************************************)
EXTENDS BufferThreads, Synchronization

VARIABLES buffer,     \* queue_
          closed,     \* is_closed_
          asleep,     \* threads asleep on cnd_
          sent,       \* portions each producer has produced
          popped,     \* history: the elements taken
          late,       \* history: how many portions were pushed after the close
          pc,         \* next step of each thread
          main        \* and of main

vars == <<buffer, closed, asleep, sent, popped, late, pc, main>>

Init ==
  /\ buffer = <<>> /\ closed = FALSE /\ asleep = {} /\ popped = <<>>
  /\ sent = [p \in Producers |-> 0] /\ late = 0
  /\ pc = [t \in Threads |-> IF t \in Producers THEN "closed" ELSE "more"]
  /\ main = "wait"

At(t, step) == pc[t] = step /\ t \notin asleep
Goto(t, from, to) == At(t, from) /\ pc' = [pc EXCEPT ![t] = to]
SleepOn(t) ==
  asleep' = asleep \cup {t} /\ UNCHANGED <<buffer, closed, sent, popped, late, pc, main>>

\* operator<<: the test of closed, after which the producer may give up
TestClosed(p) ==
  /\ Goto(p, "closed", IF closed THEN "done" ELSE "push")
  /\ UNCHANGED <<buffer, closed, asleep, sent, popped, late, main>>

\* waitBeforeWrite, and the push
PushSleep(p) == At(p, "push") /\ Len(buffer) = Size /\ SleepOn(p)
Push(p) ==
  /\ Len(buffer) < Size /\ Goto(p, "push", "pushed")
  /\ buffer' = buffer \o <<<<p, sent[p] + 1>>>>
  /\ sent' = [sent EXCEPT ![p] = @ + 1] /\ late' = IF closed THEN late + 1 ELSE late
  /\ UNCHANGED <<closed, asleep, popped, main>>
Pushed(p) ==
  /\ Goto(p, "pushed", IF sent[p] < Items THEN "closed" ELSE "done")
  /\ Notify(asleep, 1)
  /\ UNCHANGED <<buffer, closed, sent, popped, late, main>>

\* operator!=: waitBeforeRead, and the end of the loop
WaitSleep(c) == /\ At(c, "more") \/ At(c, "take")
                /\ buffer = <<>> /\ ~closed /\ SleepOn(c)
More(c) ==
  /\ buffer # <<>> \/ closed
  /\ Goto(c, "more", IF buffer = <<>> THEN "done" ELSE "get")
  /\ UNCHANGED <<buffer, closed, asleep, sent, popped, late, main>>

\* operator*, operator>>: a channel that is closed and empty by now leaves value_ as it
\* is, and the loop is given its last element once more, or value_type{} if it had none.
Get(c) ==
  /\ ~(closed /\ buffer = <<>>) /\ Goto(c, "get", "take")
  /\ UNCHANGED <<buffer, closed, asleep, sent, popped, late, main>>
GetAgain(c) ==
  /\ closed /\ buffer = <<>> /\ Goto(c, "get", "more")
  /\ UNCHANGED <<buffer, closed, asleep, sent, popped, late, main>>

\* waitBeforeRead late, and the pop if there is an element; if there is none, the loop
\* is given value_ as it is here, too.
Take(c) ==
  /\ buffer # <<>> /\ Goto(c, "take", "taken")
  /\ buffer' = Tail(buffer) /\ popped' = popped \o <<Head(buffer)>>
  /\ UNCHANGED <<closed, asleep, sent, late, main>>
TakeAgain(c) ==
  /\ buffer = <<>> /\ closed /\ Goto(c, "take", "taken")
  /\ UNCHANGED <<buffer, closed, asleep, sent, popped, late, main>>
Taken(c) ==
  /\ Goto(c, "taken", "more") /\ Notify(asleep, 1)
  /\ UNCHANGED <<buffer, closed, sent, popped, late, main>>

Producer(p) == TestClosed(p) \/ PushSleep(p) \/ Push(p) \/ Pushed(p)
Consumer(c) == \/ WaitSleep(c) \/ More(c) \/ Get(c) \/ GetAgain(c)
               \/ Take(c) \/ TakeAgain(c) \/ Taken(c)
Thread(t) == (t \in Producers /\ Producer(t)) \/ (t \in Consumers /\ Consumer(t))

\* close(): the flag with the mutex held, then the notification
Close ==
  /\ main = "wait" /\ main' = "notify" /\ closed' = TRUE
  /\ UNCHANGED <<buffer, asleep, sent, popped, late, pc>>

CloseNotify ==
  /\ main = "notify" /\ main' = "join" /\ NotifyAll(asleep)
  /\ UNCHANGED <<buffer, closed, sent, popped, late, pc>>

Spurious(t) ==
  /\ t \in asleep /\ asleep' = asleep \ {t}
  /\ UNCHANGED <<buffer, closed, sent, popped, late, pc, main>>

\* main is free to close the channel when it wants to.
Stopping == CloseNotify
Environment == Close \/ \E t \in Threads : Spurious(t)

Next == (\E t \in Threads : Thread(t)) \/ Stopping \/ Environment

Spec == Init /\ [][Next]_vars

-----------------------------------------------------------------------------
TypeOK ==
  /\ buffer \in Seq(Portion) /\ Len(buffer) <= Size
  /\ closed \in BOOLEAN /\ asleep \subseteq Threads
  /\ sent \in [Producers -> 0 .. Items] /\ popped \in Seq(Portion)
  /\ late \in Nat
  /\ pc \in [Threads -> {"closed", "push", "pushed", "more", "get", "take", "taken", "done"}]
  /\ main \in {"wait", "notify", "join"}

AllTaken == Len(popped) = AllPortions
\* All threads have returned, and what the consumers left behind was pushed after the
\* close, by producers that had found the channel open: one portion each at most.
Drained ==
  /\ \A t \in Threads : pc[t] = "done"
  /\ Len(buffer) <= late /\ late <= Cardinality(Producers)
\* Both a producer and a consumer are asleep: a notification may wake the wrong one.
BothAsleep == asleep \cap Producers # {} /\ asleep \cap Consumers # {}
=============================================================================
