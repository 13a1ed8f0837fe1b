-------------------------------- MODULE Locks --------------------------------
(***************************************************************************)
(* The programs whose threads take turns at one resource: the three        *)
(* readers-writers programs, the spin locks, the lightweight semaphore and *)
(* the emulated sequence locks.  The first state picks one of them.        *)
(***************************************************************************)
EXTENDS Integers, ReadersWritersThreads

CONSTANTS Lockers,   \* the threads that share a spin lock or a semaphore
          Rounds     \* how often each of them takes it

ASSUME LockersAssumption == IsFiniteSet(Lockers)
ASSUME RoundsAssumption == Rounds \in Nat

VARIABLES program,
          once, wmutex, rmutex, readTry, resource, serviceQueue,
          readCount, writeCount, result,
          mFlag, asleep, m_count, m_sema, loaded,
          mSharedMutex, mSharedValue, copy, word, exitFlag,
          data, written, pc

roomVars == <<once, wmutex, rmutex, readTry, resource, serviceQueue,
              readCount, writeCount, result>>
spinVars == <<mFlag, asleep>>
semaVars == <<m_count, m_sema>>
emulatorVars == <<mSharedMutex, mSharedValue, copy, word, exitFlag>>
vars == <<program, roomVars, spinVars, semaVars, loaded, emulatorVars, data, written, pc>>

First == INSTANCE FirstReadersWriters WITH readcount <- readCount
Second == INSTANCE SecondReadersWriters
Third == INSTANCE ThirdReadersWriters
Spin == INSTANCE SpinLocks
Sema == INSTANCE LightweightSemaphore WITH oldCount <- loaded
Emulator == INSTANCE SeqLockEmulators

\* The variables of the programs that were not chosen
NoRoom ==
  /\ once = FALSE /\ wmutex = 1 /\ rmutex = 1 /\ readTry = 1 /\ resource = 1
  /\ serviceQueue = 1 /\ readCount = 0 /\ writeCount = 0 /\ result = <<>>
NoSpin == mFlag = FALSE /\ asleep = {}
NoSema == m_count = 1 /\ m_sema = 0
NoEmulator ==
  mSharedMutex = {} /\ mSharedValue = <<>> /\ copy = <<>> /\ word = <<>> /\ exitFlag = FALSE

InitRoom ==
  \/ /\ program = "first" /\ First!Init
     /\ once = FALSE /\ wmutex = 1 /\ readTry = 1 /\ serviceQueue = 1 /\ writeCount = 0
  \/ program = "second" /\ Second!Init /\ serviceQueue = 1
  \/ /\ program = "third" /\ Third!Init
     /\ once = FALSE /\ wmutex = 1 /\ readTry = 1 /\ writeCount = 0

Init ==
  \/ InitRoom /\ NoSpin /\ NoSema /\ loaded = <<>> /\ NoEmulator
  \/ NoRoom /\ Spin!Init /\ NoSema /\ NoEmulator
  \/ NoRoom /\ NoSpin /\ program = "semaphore" /\ Sema!Init /\ NoEmulator
  \/ NoRoom /\ NoSpin /\ NoSema /\ loaded = <<>> /\ Emulator!Init /\ data = 0

Room(First_, Second_, Third_) ==
  /\ \/ program = "first" /\ First_ /\ UNCHANGED <<once, wmutex, readTry, serviceQueue, writeCount>>
     \/ program = "second" /\ Second_ /\ UNCHANGED serviceQueue
     \/ program = "third" /\ Third_ /\ UNCHANGED <<once, wmutex, readTry, writeCount>>
  /\ UNCHANGED <<program, spinVars, semaVars, loaded, emulatorVars>>

Thread(t) ==
  \/ Room(First!Thread(t), Second!Thread(t), Third!Thread(t))
  \/ /\ program \in Spin!SpinPrograms /\ t \in Lockers /\ Spin!Thread(t)
     /\ UNCHANGED <<roomVars, semaVars, emulatorVars>>
  \/ /\ program = "semaphore" /\ t \in Lockers /\ Sema!Thread(t)
     /\ UNCHANGED <<program, roomVars, spinVars, emulatorVars>>
  \/ /\ program \in Emulator!EmulatorPrograms /\ Emulator!Thread(t)
     /\ UNCHANGED <<roomVars, spinVars, semaVars, loaded, data>>

Main ==
  /\ program \in Emulator!EmulatorPrograms /\ Emulator!SetExit
  /\ UNCHANGED <<roomVars, spinVars, semaVars, loaded, data>>

Join ==
  /\ \/ program = "first" /\ First!Finished
     \/ program = "second" /\ Second!Finished
     \/ program = "third" /\ Third!Finished
     \/ program \in Spin!SpinPrograms /\ Spin!Finished
     \/ program = "semaphore" /\ Sema!Finished
     \/ program \in Emulator!EmulatorPrograms /\ Emulator!Finished
  /\ UNCHANGED vars

Next == (\E t \in Threads \cup Lockers : Thread(t)) \/ Main \/ Join

\* A thread that can run does run; nothing is assumed about the order in which a
\* semaphore or a lock wakes its waiters.  The loads of an emulator do not end by
\* themselves: there, a writer that finds the lock free again and again gets it.
Fairness ==
  /\ \A t \in Threads \cup Lockers : WF_vars(Thread(t))
  /\ WF_vars(Main)
  /\ SF_vars(program \in Emulator!EmulatorPrograms /\ Thread(Emulator!Storer))

Spec == Init /\ [][Next]_vars /\ Fairness

-----------------------------------------------------------------------------
TypeOK ==
  /\ program = "first" => First!TypeOK
  /\ program = "second" => Second!TypeOK
  /\ program = "third" => Third!TypeOK
  /\ program \in Spin!SpinPrograms => Spin!TypeOK
  /\ program = "semaphore" => Sema!TypeOK
  /\ program \in Emulator!EmulatorPrograms => Emulator!TypeOK

\* Who waits for whom in the readers-writers programs, step by step.  The first two keep
\* the promise of their first line.
\* first_readers_writers, "no reader shall be kept waiting if the share is currently
\* opened for reading".  second_readers_writers, "no writer, once added to the queue,
\* shall be kept waiting longer than absolutely necessary": from the moment a writer is
\* announced until the last one has left, no further reader gets in.
\* third_readers_writers: the thread that serviceQueue let through is the next one
\* inside; nobody overtakes it while it waits for rmutex or for the resource.  This is
\* less than its main.cpp:20, "preserves ordering of requests (signaling must be FIFO)":
\* among the threads waiting at serviceQueue a std::binary_semaphore picks any, so that
\* "no thread shall be allowed to starve" holds only because main's calls are finitely
\* many, which is what Termination shows.
Preference ==
  [][/\ program = "first" => First!OpenShareNeverBlocks'
     /\ program = "second" => Second!ShutOut
     /\ program = "third" => Third!InTurn]_vars

\* sema.h: the lightweight semaphore knows its sleepers.  Every one of them is counted
\* by a negative m_count, has a unit of the kernel semaphore waiting for it, or a
\* thread on its way to post one, whatever happens between a waiter's fetch_sub and its
\* sleep and between a signal's fetch_add and its post.
CountsSleepers == program = "semaphore" => Sema!CountsSleepers

\* The emulated sequence locks return the last value stored, and never a torn one.
Current == program \in Emulator!EmulatorPrograms => Emulator!Current

\* Each program ends, with every lock and semaphore free: the nested acquisitions of
\* wmutex, readTry, rmutex and resource, and the release of serviceQueue before rmutex,
\* never block anybody for ever; no thread stays asleep on the flag of a spin lock whose
\* unlock woke somebody else, nor in the kernel semaphore.  An emulator's readers can
\* keep a shared lock between them for ever, and the writer, for whose second value they
\* wait, out of it: the writer starvation that SeqLock/README.md:3 says sequence locks
\* avoid.
Termination ==
  \/ <>[](/\ program = "first" => First!Ended
          /\ program = "second" => Second!Ended
          /\ program = "third" => Third!Ended
          /\ program \in Spin!SpinPrograms => Spin!Ended
          /\ program = "semaphore" => Sema!Ended
          /\ program \in Emulator!EmulatorPrograms => Emulator!Ended)
  \/ []<>(program \in {"shared_mutex", "rwlock"} /\ Emulator!WriterStarved)

\* All of them implement the shared resource: who writes is alone inside, and no
\* increment of the counter under a spin lock or the semaphore is lost.
Inside(room1, room2, room3, spin, sema, emulator) ==
  CASE program = "first" -> room1
    [] program = "second" -> room2
    [] program = "third" -> room3
    [] program \in Spin!SpinPrograms -> spin
    [] program = "semaphore" -> sema
    [] OTHER -> emulator
Shared == INSTANCE SharedResource WITH
  Writers <- Threads \cup Lockers,
  reading <- Inside(First!Reading, Second!Reading, Third!Reading, {}, {}, Emulator!Reading),
  writing <- Inside(First!Writing, Second!Writing, Third!Writing,
                    Spin!Writing, Sema!Writing, Emulator!Writing),
  queued <- data
Implements == Shared!Spec
=============================================================================
