---------------------------- MODULE WaitingQueue ----------------------------
(***************************************************************************)
(* simplest_readers_writers/main.cpp: a queue with one condition variable. *)
(* main sets endSignal and notifies nobody, so it makes no difference      *)
(* whether it does so before a reader sleeps or after.                     *)
(***************************************************************************)
EXTENDS BufferThreads, Synchronization

VARIABLES buffer,     \* data
          endSignal,
          nonempty,   \* threads asleep on readerCond
          sent,       \* values each writer has written
          popped,     \* history: what the readers read
          pc          \* next step of each thread

vars == <<buffer, endSignal, nonempty, sent, popped, pc>>

Init ==
  /\ buffer = <<>> /\ endSignal = FALSE /\ nonempty = {}
  /\ sent = [p \in Producers |-> 0] /\ popped = <<>>
  /\ pc = [t \in Threads |-> "call"]

\* writer(value)
Write(p) ==
  /\ pc[p] = "call"
  /\ buffer' = buffer \o <<<<p, sent[p] + 1>>>> /\ Notify(nonempty, 1)
  /\ sent' = [sent EXCEPT ![p] = @ + 1]
  /\ pc' = [pc EXCEPT ![p] = IF sent[p] + 1 < Items THEN "call" ELSE "done"]
  /\ UNCHANGED <<endSignal, popped>>

Calls(c) == pc[c] = "call" /\ c \notin nonempty

\* reader(): sleeps, reads, or is done
ReadSleep(c) ==
  /\ Calls(c) /\ buffer = <<>> /\ ~endSignal
  /\ nonempty' = nonempty \cup {c}
  /\ UNCHANGED <<buffer, endSignal, sent, popped, pc>>
Read(c) ==
  /\ Calls(c) /\ buffer # <<>>
  /\ buffer' = Tail(buffer) /\ popped' = popped \o <<Head(buffer)>>
  /\ UNCHANGED <<endSignal, nonempty, sent, pc>>
ReadDone(c) ==
  /\ Calls(c) /\ buffer = <<>> /\ endSignal
  /\ pc' = [pc EXCEPT ![c] = "done"]
  /\ UNCHANGED <<buffer, endSignal, nonempty, sent, popped>>

Reader(c) == ReadSleep(c) \/ Read(c) \/ ReadDone(c)
Thread(t) == (t \in Producers /\ Write(t)) \/ (t \in Consumers /\ Reader(t))

\* main: endSignal = true
End == /\ ~endSignal /\ endSignal' = TRUE
       /\ UNCHANGED <<buffer, nonempty, sent, popped, pc>>
Spurious(c) ==
  /\ c \in nonempty /\ nonempty' = nonempty \ {c}
  /\ UNCHANGED <<buffer, endSignal, sent, popped, pc>>
Environment == End \/ \E c \in Consumers : Spurious(c)

Next == (\E t \in Threads : Thread(t)) \/ Environment

Spec == Init /\ [][Next]_vars

-----------------------------------------------------------------------------
TypeOK ==
  /\ buffer \in Seq(Portion) /\ endSignal \in BOOLEAN
  /\ nonempty \subseteq Consumers
  /\ sent \in [Producers -> 0 .. Items] /\ popped \in Seq(Portion)
  /\ pc \in [Threads -> {"call", "done"}]

AllRead == Len(popped) = AllPortions
=============================================================================
