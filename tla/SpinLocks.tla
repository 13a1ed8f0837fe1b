------------------------------ MODULE SpinLocks ------------------------------
(***************************************************************************)
(* Spinlock/: threads that increment a counter under a spin lock.  The     *)
(* locks differ in what a thread does that found the flag set: it tries    *)
(* again (audio_spin_mutex, spinlock_atomic_flag_c, pthread_spin_lock),    *)
(* reads until the flag is clear (spinlock_atomic_bool), or sleeps on it   *)
(* (spinlock_atomic_flag).  How often audio_spin_mutex tries before it     *)
(* pauses or yields is left out, and so is spinlock_atomic_bool's try_lock *)
(* (a load, and the exchange of lock), which nothing calls.                *)
(***************************************************************************)
EXTENDS Integers

CONSTANTS Lockers,   \* the threads that share the lock
          Rounds     \* how often each of them takes it

VARIABLES program,
          mFlag,     \* the flag, lock_, sl
          asleep,    \* threads asleep on it
          data,      \* the counter, *val
          loaded,    \* each thread's copy of it
          written,   \* rounds each thread has made
          pc         \* its next step

vars == <<program, mFlag, asleep, data, loaded, written, pc>>

SpinPrograms == {"audio", "bool", "flag", "flag_c", "posix"}

Init ==
  /\ program \in SpinPrograms
  /\ mFlag = FALSE /\ asleep = {} /\ data = 0
  /\ loaded = [t \in Lockers |-> 0] /\ written = [t \in Lockers |-> 0]
  /\ pc = [t \in Lockers |-> "lock"]

Move(t, from, to) == pc[t] = from /\ pc' = [pc EXCEPT ![t] = to]
RoundsLeft(t) == written[t] < Rounds

\* A lock that tests and sets the flag in two steps
TestThenSet(t) ==
  \/ /\ RoundsLeft(t) /\ ~mFlag /\ Move(t, "lock", "set")
     /\ UNCHANGED <<program, mFlag, asleep, data, loaded, written>>
  \/ /\ Move(t, "set", "load") /\ mFlag' = TRUE
     /\ UNCHANGED <<program, asleep, data, loaded, written>>

\* test_and_set, exchange: the flag was clear.
TestAndSet(t) ==
  /\ RoundsLeft(t) /\ ~mFlag /\ Move(t, "lock", "load") /\ mFlag' = TRUE
  /\ UNCHANGED <<program, asleep, data, loaded, written>>

\* It was set, in the two programs that then do something else.
FoundSet(t) ==
  /\ RoundsLeft(t) /\ mFlag /\ program \in {"bool", "flag"} /\ Move(t, "lock", "wait")
  /\ UNCHANGED <<program, mFlag, asleep, data, loaded, written>>

\* while (lock_.load()), and mFlag.wait(true), return when the flag is clear;
SeenClear(t) ==
  /\ t \notin asleep /\ ~mFlag /\ Move(t, "wait", "lock")
  /\ UNCHANGED <<program, mFlag, asleep, data, loaded, written>>

\* mFlag.wait(true) compares and sleeps in one step.
Sleep(t) ==
  /\ program = "flag" /\ pc[t] = "wait" /\ t \notin asleep /\ mFlag
  /\ asleep' = asleep \cup {t}
  /\ UNCHANGED <<program, mFlag, data, loaded, written, pc>>

\* counter++
Load(t) ==
  /\ Move(t, "load", "store") /\ loaded' = [loaded EXCEPT ![t] = data]
  /\ UNCHANGED <<program, mFlag, asleep, data, written>>
Store(t) ==
  /\ Move(t, "store", "unlock") /\ data' = loaded[t] + 1
  /\ written' = [written EXCEPT ![t] = @ + 1]
  /\ UNCHANGED <<program, mFlag, asleep, loaded>>

\* clear, store(false)
Unlock(t) ==
  /\ Move(t, "unlock", IF program = "flag" THEN "notify" ELSE "lock") /\ mFlag' = FALSE
  /\ UNCHANGED <<program, asleep, data, loaded, written>>

\* An unlock that does not notify
NotifyNobody(t) ==
  /\ Move(t, "notify", "lock")
  /\ UNCHANGED <<program, mFlag, asleep, data, loaded, written>>

\* notify_one, after the flag is clear and perhaps set again
NotifyOne(t) ==
  /\ Move(t, "notify", "lock")
  /\ IF asleep = {} THEN UNCHANGED asleep ELSE \E u \in asleep : asleep' = asleep \ {u}
  /\ UNCHANGED <<program, mFlag, data, loaded, written>>

Thread(t) == \/ TestAndSet(t) \/ FoundSet(t) \/ SeenClear(t) \/ Sleep(t)
             \/ Load(t) \/ Store(t) \/ Unlock(t) \/ NotifyOne(t)

\* main joins the threads.
Finished == \A t \in Lockers : pc[t] = "lock" /\ ~RoundsLeft(t)
Join == Finished /\ UNCHANGED vars

Next == (\E t \in Lockers : Thread(t)) \/ Join

-----------------------------------------------------------------------------
TypeOK ==
  /\ mFlag \in BOOLEAN /\ asleep \subseteq Lockers /\ data \in Nat
  /\ loaded \in [Lockers -> Nat] /\ written \in [Lockers -> 0 .. Rounds]
  /\ pc \in [Lockers -> {"lock", "wait", "load", "store", "unlock", "notify"}]

\* Lockers that own the lock
Writing == {t \in Lockers : pc[t] \in {"load", "store", "unlock"}}
Ended == Finished /\ ~mFlag
=============================================================================
