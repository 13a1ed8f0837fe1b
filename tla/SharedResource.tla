---------------------------- MODULE SharedResource ----------------------------
(***************************************************************************)
(* What the three readers-writers programs promise of the shared queue:    *)
(* any number of readers or a single writer is inside; only a writer that  *)
(* is inside appends, only a reader that is inside removes.                *)
(***************************************************************************)
EXTENDS Integers

CONSTANTS Readers, Writers

VARIABLES reading,   \* readers inside
          writing,   \* writers inside
          queued     \* number of values in the queue

vars == <<reading, writing, queued>>

Init == reading = {} /\ writing = {} /\ queued = 0

BeginRead(t) ==
  /\ writing = {}
  /\ reading' = reading \cup {t} /\ UNCHANGED <<writing, queued>>

Read(t) ==
  /\ t \in reading /\ queued > 0
  /\ queued' = queued - 1 /\ UNCHANGED <<reading, writing>>

EndRead(t) ==
  /\ t \in reading
  /\ reading' = reading \ {t} /\ UNCHANGED <<writing, queued>>

BeginWrite(t) ==
  /\ reading = {} /\ writing = {}
  /\ writing' = {t} /\ UNCHANGED <<reading, queued>>

Write(t) ==
  /\ t \in writing
  /\ queued' = queued + 1 /\ UNCHANGED <<reading, writing>>

EndWrite(t) ==
  /\ t \in writing
  /\ writing' = writing \ {t} /\ UNCHANGED <<reading, queued>>

Next ==
  \/ \E t \in Readers : BeginRead(t) \/ Read(t) \/ EndRead(t)
  \/ \E t \in Writers : BeginWrite(t) \/ Write(t) \/ EndWrite(t)

Spec == Init /\ [][Next]_vars
=============================================================================
