----------------------------- MODULE LocksProofs -----------------------------
(***************************************************************************)
(* The programs of Locks, for any number of threads, rounds and messages.  *)
(* The three readers-writers programs have an invariant that says who      *)
(* holds each of their semaphores by the step he is at.  A semaphore the   *)
(* readers share is held from the first one's acquire to the last one's    *)
(* release, so that the invariant needs the counts, too.  The spin locks   *)
(* and the lightweight semaphore let one thread at a time at the counter,  *)
(* and the emulated sequence locks return what was stored last; together,  *)
(* every program implements the shared resource.                           *)
(***************************************************************************)
EXTENDS Locks, FiniteSetTheorems, TLAPS

\* A count goes along with the set it counts.
Counts(n, S) == n = Cardinality(S) /\ n \in Nat /\ (n = 0 <=> S = {})

LEMMA Counting ==
  ASSUME NEW S, IsFiniteSet(S), NEW x
  PROVE  /\ Counts(Cardinality(S), S)
         /\ x \notin S => Counts(Cardinality(S) + 1, S \cup {x})
         /\ x \in S => Counts(Cardinality(S) - 1, S \ {x})
<1>1. \A T : IsFiniteSet(T) => Counts(Cardinality(T), T)
  BY FS_CardinalityType, FS_EmptySet DEF Counts
<1>2. x \notin S => IsFiniteSet(S \cup {x}) /\ Cardinality(S \cup {x}) = Cardinality(S) + 1
  BY FS_AddElement
<1>3. x \in S => IsFiniteSet(S \ {x}) /\ Cardinality(S \ {x}) = Cardinality(S) - 1
  BY FS_RemoveElement
<1> QED BY <1>1, <1>2, <1>3, Zenon


\* A step of SharedResource by thread x, or none
Access(x, R, W, n, R2, W2, n2) ==
  \/ R2 = R /\ W2 = W /\ n2 = n
  \/ /\ x \in Readers
     /\ \/ W = {} /\ R2 = R \cup {x} /\ W2 = W /\ n2 = n
        \/ x \in R /\ n > 0 /\ n2 = n - 1 /\ R2 = R /\ W2 = W
        \/ x \in R /\ R2 = R \ {x} /\ W2 = W /\ n2 = n
  \/ /\ x \in Threads \cup Lockers
     /\ \/ R = {} /\ W = {} /\ W2 = {x} /\ R2 = R /\ n2 = n
        \/ x \in W /\ n2 = n + 1 /\ R2 = R /\ W2 = W
        \/ x \in W /\ W2 = W \ {x} /\ R2 = R /\ n2 = n

-----------------------------------------------------------------------------
(***************************************************************************)
(* first_readers_writers                                                   *)
(***************************************************************************)

\* The steps at which a reader holds rmutex, is counted, and is inside; and those at
\* which a writer is inside
FirstHolds == {"count", "lock", "leave", "uncount", "exit"}
FirstCounts == {"lock", "leave", "read", "stop", "uncount"}
FirstReads == {"leave", "read", "stop", "uncount"}
FirstWrites == {"write", "release"}
FirstCounted == {t \in Readers : pc[t] \in FirstCounts}

FirstLocks ==
  /\ \A s, t \in Readers : pc[s] \in FirstHolds /\ pc[t] \in FirstHolds => s = t
  /\ rmutex = 1 <=> \A t \in Readers : pc[t] \notin FirstHolds
  /\ \A v, w \in Writers : pc[v] \in FirstWrites /\ pc[w] \in FirstWrites => v = w
  /\ \A t \in Readers, w \in Writers : ~(pc[t] \in FirstReads /\ pc[w] \in FirstWrites)
  /\ resource = 1 <=> /\ \A t \in Readers : pc[t] \notin FirstReads
                      /\ \A w \in Writers : pc[w] \notin FirstWrites
  \* who waits for the resource for all readers is the only one counted
  /\ \A s, t \in Readers : pc[s] = "lock" /\ pc[t] \in FirstCounts => s = t
  /\ readCount = 0 <=> \A t \in Readers : pc[t] \notin FirstCounts
  /\ \A w \in Writers : pc[w] = "write" => First!WritesLeft(w)

FirstCount ==
  /\ readCount = Cardinality(FirstCounted)

FirstInv == First!TypeOK /\ FirstLocks /\ FirstCount

LEMMA FirstInitInv == First!Init => FirstInv
<1> SUFFICES ASSUME First!Init PROVE FirstInv
  OBVIOUS
<1> USE MessagesAssumption, ThreadsAssumption
    DEF Threads, FirstHolds, FirstCounts, FirstReads, FirstWrites
<1>1. First!TypeOK /\ FirstLocks
  BY DEF First!Init, FirstLocks, First!Goto, First!Acquire, First!Release, First!WritesLeft,
      First!TypeOK, First!Steps, First!Threads, First!Last
<1>2. FirstCount
  <2>1. FirstCounted = {} /\ readCount = 0
    BY DEF First!Init, FirstCounted, First!Threads
  <2> QED BY <2>1, FS_EmptySet DEF FirstCount
<1> QED BY <1>1, <1>2 DEF FirstInv

LEMMA FirstCountStep ==
  ASSUME FirstInv, NEW x \in Threads, First!Thread(x)
  PROVE  /\ FirstCount'
         /\ readCount' \in Nat /\ (readCount' = 0 <=> \A t \in Readers : pc'[t] \notin FirstCounts)
<1> USE MessagesAssumption, ThreadsAssumption
    DEF Threads, FirstHolds, FirstCounts, FirstReads, FirstWrites,
        First!Goto, First!Acquire, First!Release, First!WritesLeft, First!TypeOK, First!Steps, First!Threads, First!Last
<1>0. First!TypeOK /\ FirstCount
  BY DEF FirstInv
<1>1. Counts(readCount', FirstCounted')
  <2>1. \/ FirstCounted' = FirstCounted /\ readCount' = readCount
        \/ FirstCounted' = FirstCounted \cup {x} /\ x \notin FirstCounted /\ readCount' = readCount + 1
        \/ FirstCounted' = FirstCounted \ {x} /\ x \in FirstCounted /\ readCount' = readCount - 1
    <3>1. CASE x \in Readers /\ First!StartCount(x)
      BY <1>0, <3>1 DEF First!StartCount, FirstCounted
    <3>2. CASE x \in Readers /\ First!StopCount(x)
      BY <1>0, <3>2 DEF First!StopCount, FirstCounted
    <3>3. CASE x \in Writers /\ (First!WriteAcquire(x) \/ First!Write(x) \/ First!WriteRelease(x))
      BY <1>0, <3>3 DEF First!WriteAcquire, First!Write, First!WriteRelease, FirstCounted
    <3>4. CASE x \in Readers /\ (First!StartAcquire(x) \/ First!StartLock(x) \/ First!StartLeave(x) \/ First!Read(x))
      BY <1>0, <3>4 DEF First!StartAcquire, First!StartLock, First!StartLeave, First!Read,
          FirstCounted
    <3>5. CASE x \in Readers /\ (First!StopAcquire(x) \/ First!StopLeave(x))
      BY <1>0, <3>5 DEF First!StopAcquire, First!StopLeave, FirstCounted
    <3> QED BY <3>1, <3>2, <3>3, <3>4, <3>5 DEF First!Thread, First!Writer, First!Reader
  <2>2. IsFiniteSet(FirstCounted)
    BY FS_Subset DEF FirstCounted
  <2>3. readCount = Cardinality(FirstCounted)
    BY <1>0 DEF FirstCount
  <2>4. /\ Counts(readCount, FirstCounted)
        /\ x \notin FirstCounted => Counts(readCount + 1, FirstCounted \cup {x})
        /\ x \in FirstCounted => Counts(readCount - 1, FirstCounted \ {x})
    BY <2>2, <2>3, Counting
  <2> QED BY <2>1, <2>4
<1> QED BY <1>1 DEF Counts, FirstCount, FirstCounted

LEMMA FirstLocksStep ==
  ASSUME FirstInv, NEW x \in Threads, First!Thread(x)
  PROVE  FirstInv'
<1> USE MessagesAssumption, ThreadsAssumption
    DEF Threads, FirstHolds, FirstCounts, FirstReads, FirstWrites,
        First!Goto, First!Acquire, First!Release, First!WritesLeft, First!TypeOK, First!Steps, First!Threads, First!Last
<1>0. First!TypeOK /\ FirstLocks
  BY DEF FirstInv
<1>00. /\ FirstCount'
       /\ readCount' \in Nat /\ (readCount' = 0 <=> \A t \in Readers : pc'[t] \notin FirstCounts)
  BY FirstCountStep
<1>1. CASE x \in Writers /\ First!WriteAcquire(x)
  BY <1>0, <1>00, <1>1 DEF First!WriteAcquire, FirstLocks, FirstInv
<1>2. CASE x \in Writers /\ First!Write(x)
  BY <1>0, <1>00, <1>2 DEF First!Write, FirstLocks, FirstInv
<1>3. CASE x \in Writers /\ First!WriteRelease(x)
  BY <1>0, <1>00, <1>3 DEF First!WriteRelease, FirstLocks, FirstInv
<1>4. CASE x \in Readers /\ First!StartAcquire(x)
  BY <1>0, <1>00, <1>4 DEF First!StartAcquire, FirstLocks, FirstInv
<1>5. CASE x \in Readers /\ First!StartCount(x)
  BY <1>0, <1>00, <1>5 DEF First!StartCount, FirstLocks, FirstInv
<1>6. CASE x \in Readers /\ First!StartLock(x)
  BY <1>0, <1>00, <1>6 DEF First!StartLock, FirstLocks, FirstInv
<1>7. CASE x \in Readers /\ First!StartLeave(x)
  BY <1>0, <1>00, <1>7 DEF First!StartLeave, FirstLocks, FirstInv
<1>8. CASE x \in Readers /\ First!Read(x)
  BY <1>0, <1>00, <1>8 DEF First!Read, FirstLocks, FirstInv
<1>9. CASE x \in Readers /\ First!StopAcquire(x)
  BY <1>0, <1>00, <1>9 DEF First!StopAcquire, FirstLocks, FirstInv
<1>10. CASE x \in Readers /\ First!StopCount(x)
  BY <1>0, <1>00, <1>10 DEF First!StopCount, FirstLocks, FirstInv
<1>11. CASE x \in Readers /\ First!StopLeave(x)
  BY <1>0, <1>00, <1>11 DEF First!StopLeave, FirstLocks, FirstInv
<1> QED BY <1>1, <1>2, <1>3, <1>4, <1>5, <1>6, <1>7, <1>8, <1>9, <1>10, <1>11
  DEF First!Thread, First!Writer, First!Reader

\* Every step is one of the shared resource, or none.
LEMMA FirstShares ==
  ASSUME FirstInv, NEW x \in Threads, First!Thread(x)
  PROVE  Access(x, First!Reading, First!Writing, data, First!Reading', First!Writing', data')
<1> USE MessagesAssumption, ThreadsAssumption
    DEF Threads, FirstHolds, FirstCounts, FirstReads, FirstWrites,
        First!Goto, First!Acquire, First!Release, First!WritesLeft, First!TypeOK, First!Steps, First!Threads, First!Last
<1>0. First!TypeOK /\ FirstLocks
  BY DEF FirstInv
<1>1. CASE x \in Writers /\ First!WriteAcquire(x)
  BY <1>0, <1>1 DEF First!WriteAcquire, FirstLocks, First!Reading, First!Writing, Access
<1>2. CASE x \in Writers /\ First!Write(x)
  BY <1>0, <1>2 DEF First!Write, FirstLocks, First!Reading, First!Writing, Access
<1>3. CASE x \in Writers /\ First!WriteRelease(x)
  BY <1>0, <1>3 DEF First!WriteRelease, FirstLocks, First!Reading, First!Writing, Access
<1>4. CASE x \in Readers /\ First!StartAcquire(x)
  BY <1>0, <1>4 DEF First!StartAcquire, FirstLocks, First!Reading, First!Writing, Access
<1>5. CASE x \in Readers /\ First!StartCount(x)
  BY <1>0, <1>5 DEF First!StartCount, FirstLocks, First!Reading, First!Writing, Access
<1>6. CASE x \in Readers /\ First!StartLock(x)
  BY <1>0, <1>6 DEF First!StartLock, FirstLocks, First!Reading, First!Writing, Access
<1>7. CASE x \in Readers /\ First!StartLeave(x)
  BY <1>0, <1>7 DEF First!StartLeave, FirstLocks, First!Reading, First!Writing, Access
<1>8. CASE x \in Readers /\ First!Read(x)
  BY <1>0, <1>8 DEF First!Read, FirstLocks, First!Reading, First!Writing, Access
<1>9. CASE x \in Readers /\ First!StopAcquire(x)
  BY <1>0, <1>9 DEF First!StopAcquire, FirstLocks, First!Reading, First!Writing, Access
<1>10. CASE x \in Readers /\ First!StopCount(x)
  BY <1>0, <1>10 DEF First!StopCount, FirstLocks, First!Reading, First!Writing, Access
<1>11. CASE x \in Readers /\ First!StopLeave(x)
  BY <1>0, <1>11 DEF First!StopLeave, FirstLocks, First!Reading, First!Writing, Access
<1> QED BY <1>1, <1>2, <1>3, <1>4, <1>5, <1>6, <1>7, <1>8, <1>9, <1>10, <1>11
  DEF First!Thread, First!Writer, First!Reader

-----------------------------------------------------------------------------
(***************************************************************************)
(* second_readers_writers                                                  *)
(***************************************************************************)

\* The steps at which a writer holds wmutex, is counted, has readTry shut, is inside;
\* and those at which a reader holds readTry and rmutex, is counted, is inside
SecondWriterHolds == {"count", "shut", "leave", "uncount", "exit"}
SecondWriterCounts == {"shut", "leave", "lock", "write", "unlock", "stop", "uncount"}
SecondAnnounces == {"leave", "lock", "write", "unlock", "stop", "uncount"}
SecondWrites == {"write", "unlock"}
SecondTries == {"enter", "count", "lock", "leave", "tried"}
SecondReaderHolds == {"count", "lock", "leave", "uncount", "exit"}
SecondReaderCounts == {"lock", "leave", "tried", "read", "stop", "uncount"}
SecondReads == {"leave", "tried", "read", "stop", "uncount"}
SecondCountedWriters == {w \in Writers : pc[w] \in SecondWriterCounts}
SecondCountedReaders == {t \in Readers : pc[t] \in SecondReaderCounts}

SecondLocks ==
  /\ \A v, w \in Writers : pc[v] \in SecondWriterHolds /\ pc[w] \in SecondWriterHolds => v = w
  /\ wmutex = 1 <=> \A w \in Writers : pc[w] \notin SecondWriterHolds
  /\ \A s, t \in Readers : pc[s] \in SecondReaderHolds /\ pc[t] \in SecondReaderHolds => s = t
  /\ rmutex = 1 <=> \A t \in Readers : pc[t] \notin SecondReaderHolds
  /\ \A s, t \in Readers : pc[s] \in SecondTries /\ pc[t] \in SecondTries => s = t
  /\ \A t \in Readers, w \in Writers : ~(pc[t] \in SecondTries /\ pc[w] \in SecondAnnounces)
  /\ readTry = 1 <=> /\ \A t \in Readers : pc[t] \notin SecondTries
                     /\ \A w \in Writers : pc[w] \notin SecondAnnounces
  /\ \A v, w \in Writers : pc[v] \in SecondWrites /\ pc[w] \in SecondWrites => v = w
  /\ \A t \in Readers, w \in Writers : ~(pc[t] \in SecondReads /\ pc[w] \in SecondWrites)
  /\ resource = 1 <=> /\ \A t \in Readers : pc[t] \notin SecondReads
                      /\ \A w \in Writers : pc[w] \notin SecondWrites
  \* who waits for readTry for all writers, or for the resource for all readers, is the
  \* only one counted
  /\ \A v, w \in Writers : pc[v] = "shut" /\ pc[w] \in SecondWriterCounts => v = w
  /\ \A s, t \in Readers : pc[s] = "lock" /\ pc[t] \in SecondReaderCounts => s = t
  /\ writeCount = 0 <=> \A w \in Writers : pc[w] \notin SecondWriterCounts
  /\ readCount = 0 <=> \A t \in Readers : pc[t] \notin SecondReaderCounts
  /\ \A w \in Writers :
       pc[w] \in {"count", "shut", "leave", "lock", "write"} => Second!WritesLeft(w)

SecondCount ==
  /\ writeCount = Cardinality(SecondCountedWriters)
  /\ readCount = Cardinality(SecondCountedReaders)

SecondInv == Second!TypeOK /\ SecondLocks /\ SecondCount

LEMMA SecondInitInv == Second!Init => SecondInv
<1> SUFFICES ASSUME Second!Init PROVE SecondInv
  OBVIOUS
<1> USE MessagesAssumption, ThreadsAssumption
    DEF Threads, SecondWriterHolds, SecondWriterCounts, SecondAnnounces, SecondWrites,
        SecondTries,
           SecondReaderHolds, SecondReaderCounts, SecondReads
<1>1. Second!TypeOK /\ SecondLocks
  BY DEF Second!Init, SecondLocks, Second!Move, Second!semaphores, Second!counts,
      Second!Acquire, Second!Release,
           Second!WritesLeft, Second!LastWriter, Second!TypeOK, Second!Steps, Second!Threads
<1>2. SecondCount
  <2>1. SecondCountedWriters = {} /\ writeCount = 0
    BY DEF Second!Init, SecondCountedWriters, Second!Threads
  <2>2. SecondCountedReaders = {} /\ readCount = 0
    BY DEF Second!Init, SecondCountedReaders, Second!Threads
  <2> QED BY <2>1, <2>2, FS_EmptySet DEF SecondCount
<1> QED BY <1>1, <1>2 DEF SecondInv

LEMMA SecondCountStep ==
  ASSUME SecondInv, NEW x \in Threads, Second!Thread(x)
  PROVE  /\ SecondCount'
         /\ writeCount' \in Nat /\ (writeCount' = 0 <=> \A t \in Writers : pc'[t] \notin SecondWriterCounts)
         /\ readCount' \in Nat /\ (readCount' = 0 <=> \A t \in Readers : pc'[t] \notin SecondReaderCounts)
<1> USE MessagesAssumption, ThreadsAssumption
    DEF Threads, SecondWriterHolds, SecondWriterCounts, SecondAnnounces, SecondWrites,
        SecondTries,
           SecondReaderHolds, SecondReaderCounts, SecondReads,
        Second!Move, Second!semaphores, Second!counts, Second!Acquire, Second!Release,
           Second!WritesLeft, Second!LastWriter, Second!TypeOK, Second!Steps, Second!Threads
<1>0. Second!TypeOK /\ SecondCount
  BY DEF SecondInv
<1>1. Counts(writeCount', SecondCountedWriters')
  <2>1. \/ SecondCountedWriters' = SecondCountedWriters /\ writeCount' = writeCount
        \/ SecondCountedWriters' = SecondCountedWriters \cup {x} /\ x \notin SecondCountedWriters /\ writeCount' = writeCount + 1
        \/ SecondCountedWriters' = SecondCountedWriters \ {x} /\ x \in SecondCountedWriters /\ writeCount' = writeCount - 1
    <3>1. CASE x \in Writers /\ Second!WriteCount(x)
      BY <1>0, <3>1 DEF Second!WriteCount, SecondCountedWriters
    <3>2. CASE x \in Writers /\ Second!WriteUncount(x)
      BY <1>0, <3>2 DEF Second!WriteUncount, SecondCountedWriters
    <3>3. CASE x \in Writers /\ (Second!WriteEnter(x) \/ Second!WriteShut(x) \/ Second!WriteLeave(x) \/ Second!WriteLock(x))
      BY <1>0, <3>3 DEF Second!WriteEnter, Second!WriteShut, Second!WriteLeave,
          Second!WriteLock, SecondCountedWriters
    <3>4. CASE x \in Writers /\ (Second!Write(x) \/ Second!WriteUnlock(x) \/ Second!WriteStop(x) \/ Second!WriteExit(x))
      BY <1>0, <3>4 DEF Second!Write, Second!WriteUnlock, Second!WriteStop, Second!WriteExit,
          SecondCountedWriters
    <3>5. CASE x \in Readers /\ (Second!ReadTry(x) \/ Second!ReadEnter(x) \/ Second!ReadCount(x) \/ Second!ReadLock(x))
      BY <1>0, <3>5 DEF Second!ReadTry, Second!ReadEnter, Second!ReadCount, Second!ReadLock,
          SecondCountedWriters
    <3>6. CASE x \in Readers /\ (Second!ReadLeave(x) \/ Second!ReadTried(x) \/ Second!ReadQueue(x) \/ Second!ReadVariable(x))
      BY <1>0, <3>6 DEF Second!ReadLeave, Second!ReadTried, Second!ReadQueue,
          Second!ReadVariable, SecondCountedWriters
    <3>7. CASE x \in Readers /\ (Second!ReadStop(x) \/ Second!ReadUncount(x) \/ Second!ReadExit(x))
      BY <1>0, <3>7 DEF Second!ReadStop, Second!ReadUncount, Second!ReadExit,
          SecondCountedWriters
    <3> QED BY <3>1, <3>2, <3>3, <3>4, <3>5, <3>6, <3>7 DEF Second!Thread, Second!Writer,
        Second!Reader
  <2>2. IsFiniteSet(SecondCountedWriters)
    BY FS_Subset DEF SecondCountedWriters
  <2>3. writeCount = Cardinality(SecondCountedWriters)
    BY <1>0 DEF SecondCount
  <2>4. /\ Counts(writeCount, SecondCountedWriters)
        /\ x \notin SecondCountedWriters => Counts(writeCount + 1, SecondCountedWriters \cup {x})
        /\ x \in SecondCountedWriters => Counts(writeCount - 1, SecondCountedWriters \ {x})
    BY <2>2, <2>3, Counting
  <2> QED BY <2>1, <2>4
<1>2. Counts(readCount', SecondCountedReaders')
  <2>1. \/ SecondCountedReaders' = SecondCountedReaders /\ readCount' = readCount
        \/ SecondCountedReaders' = SecondCountedReaders \cup {x} /\ x \notin SecondCountedReaders /\ readCount' = readCount + 1
        \/ SecondCountedReaders' = SecondCountedReaders \ {x} /\ x \in SecondCountedReaders /\ readCount' = readCount - 1
    <3>1. CASE x \in Readers /\ Second!ReadCount(x)
      BY <1>0, <3>1 DEF Second!ReadCount, SecondCountedReaders
    <3>2. CASE x \in Readers /\ Second!ReadUncount(x)
      BY <1>0, <3>2 DEF Second!ReadUncount, SecondCountedReaders
    <3>3. CASE x \in Writers /\ (Second!WriteEnter(x) \/ Second!WriteCount(x) \/ Second!WriteShut(x) \/ Second!WriteLeave(x))
      BY <1>0, <3>3 DEF Second!WriteEnter, Second!WriteCount, Second!WriteShut,
          Second!WriteLeave, SecondCountedReaders
    <3>4. CASE x \in Writers /\ (Second!WriteLock(x) \/ Second!Write(x) \/ Second!WriteUnlock(x) \/ Second!WriteStop(x))
      BY <1>0, <3>4 DEF Second!WriteLock, Second!Write, Second!WriteUnlock, Second!WriteStop,
          SecondCountedReaders
    <3>5. CASE x \in Writers /\ (Second!WriteUncount(x) \/ Second!WriteExit(x))
      BY <1>0, <3>5 DEF Second!WriteUncount, Second!WriteExit, SecondCountedReaders
    <3>6. CASE x \in Readers /\ (Second!ReadTry(x) \/ Second!ReadEnter(x) \/ Second!ReadLock(x) \/ Second!ReadLeave(x))
      BY <1>0, <3>6 DEF Second!ReadTry, Second!ReadEnter, Second!ReadLock, Second!ReadLeave,
          SecondCountedReaders
    <3>7. CASE x \in Readers /\ (Second!ReadTried(x) \/ Second!ReadQueue(x) \/ Second!ReadVariable(x) \/ Second!ReadStop(x))
      BY <1>0, <3>7 DEF Second!ReadTried, Second!ReadQueue, Second!ReadVariable,
          Second!ReadStop, SecondCountedReaders
    <3>8. CASE x \in Readers /\ (Second!ReadExit(x))
      BY <1>0, <3>8 DEF Second!ReadExit, SecondCountedReaders
    <3> QED BY <3>1, <3>2, <3>3, <3>4, <3>5, <3>6, <3>7, <3>8 DEF Second!Thread,
        Second!Writer, Second!Reader
  <2>2. IsFiniteSet(SecondCountedReaders)
    BY FS_Subset DEF SecondCountedReaders
  <2>3. readCount = Cardinality(SecondCountedReaders)
    BY <1>0 DEF SecondCount
  <2>4. /\ Counts(readCount, SecondCountedReaders)
        /\ x \notin SecondCountedReaders => Counts(readCount + 1, SecondCountedReaders \cup {x})
        /\ x \in SecondCountedReaders => Counts(readCount - 1, SecondCountedReaders \ {x})
    BY <2>2, <2>3, Counting
  <2> QED BY <2>1, <2>4
<1> QED BY <1>1, <1>2 DEF Counts, SecondCount, SecondCountedWriters, SecondCountedReaders

LEMMA SecondLocksStep ==
  ASSUME SecondInv, NEW x \in Threads, Second!Thread(x)
  PROVE  SecondInv'
<1> USE MessagesAssumption, ThreadsAssumption
    DEF Threads, SecondWriterHolds, SecondWriterCounts, SecondAnnounces, SecondWrites,
        SecondTries,
           SecondReaderHolds, SecondReaderCounts, SecondReads,
        Second!Move, Second!semaphores, Second!counts, Second!Acquire, Second!Release,
           Second!WritesLeft, Second!LastWriter, Second!TypeOK, Second!Steps, Second!Threads
<1>0. Second!TypeOK /\ SecondLocks
  BY DEF SecondInv
<1>00. /\ SecondCount'
       /\ writeCount' \in Nat /\ (writeCount' = 0 <=> \A t \in Writers : pc'[t] \notin SecondWriterCounts)
       /\ readCount' \in Nat /\ (readCount' = 0 <=> \A t \in Readers : pc'[t] \notin SecondReaderCounts)
  BY SecondCountStep
<1>1. CASE x \in Writers /\ Second!WriteEnter(x)
  BY <1>0, <1>00, <1>1 DEF Second!WriteEnter, SecondLocks, SecondInv
<1>2. CASE x \in Writers /\ Second!WriteCount(x)
  BY <1>0, <1>00, <1>2 DEF Second!WriteCount, SecondLocks, SecondInv
<1>3. CASE x \in Writers /\ Second!WriteShut(x)
  BY <1>0, <1>00, <1>3 DEF Second!WriteShut, SecondLocks, SecondInv
<1>4. CASE x \in Writers /\ Second!WriteLeave(x)
  BY <1>0, <1>00, <1>4 DEF Second!WriteLeave, SecondLocks, SecondInv
<1>5. CASE x \in Writers /\ Second!WriteLock(x)
  BY <1>0, <1>00, <1>5 DEF Second!WriteLock, SecondLocks, SecondInv
<1>6. CASE x \in Writers /\ Second!Write(x)
  BY <1>0, <1>00, <1>6 DEF Second!Write, SecondLocks, SecondInv
<1>7. CASE x \in Writers /\ Second!WriteUnlock(x)
  BY <1>0, <1>00, <1>7 DEF Second!WriteUnlock, SecondLocks, SecondInv
<1>8. CASE x \in Writers /\ Second!WriteStop(x)
  BY <1>0, <1>00, <1>8 DEF Second!WriteStop, SecondLocks, SecondInv
<1>9. CASE x \in Writers /\ Second!WriteUncount(x)
  BY <1>0, <1>00, <1>9 DEF Second!WriteUncount, SecondLocks, SecondInv
<1>10. CASE x \in Writers /\ Second!WriteExit(x)
  BY <1>0, <1>00, <1>10 DEF Second!WriteExit, SecondLocks, SecondInv
<1>11. CASE x \in Readers /\ Second!ReadTry(x)
  BY <1>0, <1>00, <1>11 DEF Second!ReadTry, SecondLocks, SecondInv
<1>12. CASE x \in Readers /\ Second!ReadEnter(x)
  BY <1>0, <1>00, <1>12 DEF Second!ReadEnter, SecondLocks, SecondInv
<1>13. CASE x \in Readers /\ Second!ReadCount(x)
  BY <1>0, <1>00, <1>13 DEF Second!ReadCount, SecondLocks, SecondInv
<1>14. CASE x \in Readers /\ Second!ReadLock(x)
  BY <1>0, <1>00, <1>14 DEF Second!ReadLock, SecondLocks, SecondInv
<1>15. CASE x \in Readers /\ Second!ReadLeave(x)
  BY <1>0, <1>00, <1>15 DEF Second!ReadLeave, SecondLocks, SecondInv
<1>16. CASE x \in Readers /\ Second!ReadTried(x)
  BY <1>0, <1>00, <1>16 DEF Second!ReadTried, SecondLocks, SecondInv
<1>17. CASE x \in Readers /\ Second!ReadQueue(x)
  BY <1>0, <1>00, <1>17 DEF Second!ReadQueue, SecondLocks, SecondInv
<1>18. CASE x \in Readers /\ Second!ReadVariable(x)
  BY <1>0, <1>00, <1>18 DEF Second!ReadVariable, SecondLocks, SecondInv
<1>19. CASE x \in Readers /\ Second!ReadStop(x)
  BY <1>0, <1>00, <1>19 DEF Second!ReadStop, SecondLocks, SecondInv
<1>20. CASE x \in Readers /\ Second!ReadUncount(x)
  BY <1>0, <1>00, <1>20 DEF Second!ReadUncount, SecondLocks, SecondInv
<1>21. CASE x \in Readers /\ Second!ReadExit(x)
  BY <1>0, <1>00, <1>21 DEF Second!ReadExit, SecondLocks, SecondInv
<1> QED BY <1>1, <1>2, <1>3, <1>4, <1>5, <1>6, <1>7, <1>8, <1>9, <1>10, <1>11, <1>12, <1>13,
    <1>14, <1>15, <1>16, <1>17, <1>18, <1>19, <1>20, <1>21
  DEF Second!Thread, Second!Writer, Second!Reader

\* Every step is one of the shared resource, or none.
LEMMA SecondShares ==
  ASSUME SecondInv, NEW x \in Threads, Second!Thread(x)
  PROVE  Access(x, Second!Reading, Second!Writing, data, Second!Reading', Second!Writing', data')
<1> USE MessagesAssumption, ThreadsAssumption
    DEF Threads, SecondWriterHolds, SecondWriterCounts, SecondAnnounces, SecondWrites,
        SecondTries,
           SecondReaderHolds, SecondReaderCounts, SecondReads,
        Second!Move, Second!semaphores, Second!counts, Second!Acquire, Second!Release,
           Second!WritesLeft, Second!LastWriter, Second!TypeOK, Second!Steps, Second!Threads
<1>0. Second!TypeOK /\ SecondLocks
  BY DEF SecondInv
<1>1. CASE x \in Writers /\ Second!WriteEnter(x)
  BY <1>0, <1>1 DEF Second!WriteEnter, SecondLocks, Second!Reading, Second!Writing, Access
<1>2. CASE x \in Writers /\ Second!WriteCount(x)
  BY <1>0, <1>2 DEF Second!WriteCount, SecondLocks, Second!Reading, Second!Writing, Access
<1>3. CASE x \in Writers /\ Second!WriteShut(x)
  BY <1>0, <1>3 DEF Second!WriteShut, SecondLocks, Second!Reading, Second!Writing, Access
<1>4. CASE x \in Writers /\ Second!WriteLeave(x)
  BY <1>0, <1>4 DEF Second!WriteLeave, SecondLocks, Second!Reading, Second!Writing, Access
<1>5. CASE x \in Writers /\ Second!WriteLock(x)
  BY <1>0, <1>5 DEF Second!WriteLock, SecondLocks, Second!Reading, Second!Writing, Access
<1>6. CASE x \in Writers /\ Second!Write(x)
  BY <1>0, <1>6 DEF Second!Write, SecondLocks, Second!Reading, Second!Writing, Access
<1>7. CASE x \in Writers /\ Second!WriteUnlock(x)
  BY <1>0, <1>7 DEF Second!WriteUnlock, SecondLocks, Second!Reading, Second!Writing, Access
<1>8. CASE x \in Writers /\ Second!WriteStop(x)
  BY <1>0, <1>8 DEF Second!WriteStop, SecondLocks, Second!Reading, Second!Writing, Access
<1>9. CASE x \in Writers /\ Second!WriteUncount(x)
  BY <1>0, <1>9 DEF Second!WriteUncount, SecondLocks, Second!Reading, Second!Writing, Access
<1>10. CASE x \in Writers /\ Second!WriteExit(x)
  BY <1>0, <1>10 DEF Second!WriteExit, SecondLocks, Second!Reading, Second!Writing, Access
<1>11. CASE x \in Readers /\ Second!ReadTry(x)
  BY <1>0, <1>11 DEF Second!ReadTry, SecondLocks, Second!Reading, Second!Writing, Access
<1>12. CASE x \in Readers /\ Second!ReadEnter(x)
  BY <1>0, <1>12 DEF Second!ReadEnter, SecondLocks, Second!Reading, Second!Writing, Access
<1>13. CASE x \in Readers /\ Second!ReadCount(x)
  BY <1>0, <1>13 DEF Second!ReadCount, SecondLocks, Second!Reading, Second!Writing, Access
<1>14. CASE x \in Readers /\ Second!ReadLock(x)
  BY <1>0, <1>14 DEF Second!ReadLock, SecondLocks, Second!Reading, Second!Writing, Access
<1>15. CASE x \in Readers /\ Second!ReadLeave(x)
  BY <1>0, <1>15 DEF Second!ReadLeave, SecondLocks, Second!Reading, Second!Writing, Access
<1>16. CASE x \in Readers /\ Second!ReadTried(x)
  BY <1>0, <1>16 DEF Second!ReadTried, SecondLocks, Second!Reading, Second!Writing, Access
<1>17. CASE x \in Readers /\ Second!ReadQueue(x)
  BY <1>0, <1>17 DEF Second!ReadQueue, SecondLocks, Second!Reading, Second!Writing, Access
<1>18. CASE x \in Readers /\ Second!ReadVariable(x)
  BY <1>0, <1>18 DEF Second!ReadVariable, SecondLocks, Second!Reading, Second!Writing, Access
<1>19. CASE x \in Readers /\ Second!ReadStop(x)
  BY <1>0, <1>19 DEF Second!ReadStop, SecondLocks, Second!Reading, Second!Writing, Access
<1>20. CASE x \in Readers /\ Second!ReadUncount(x)
  BY <1>0, <1>20 DEF Second!ReadUncount, SecondLocks, Second!Reading, Second!Writing, Access
<1>21. CASE x \in Readers /\ Second!ReadExit(x)
  BY <1>0, <1>21 DEF Second!ReadExit, SecondLocks, Second!Reading, Second!Writing, Access
<1> QED BY <1>1, <1>2, <1>3, <1>4, <1>5, <1>6, <1>7, <1>8, <1>9, <1>10, <1>11, <1>12, <1>13,
    <1>14, <1>15, <1>16, <1>17, <1>18, <1>19, <1>20, <1>21
  DEF Second!Thread, Second!Writer, Second!Reader

-----------------------------------------------------------------------------
(***************************************************************************)
(* third_readers_writers                                                   *)
(***************************************************************************)

\* The steps at which a thread holds serviceQueue, a reader holds rmutex, is counted, and
\* is inside; and those at which a writer is inside
ThirdServed == {"enter", "count", "lock", "next"}
ThirdHolds == {"count", "lock", "next", "leave", "uncount", "exit"}
ThirdCounts == {"lock", "next", "leave", "read", "stop", "uncount"}
ThirdReads == {"next", "leave", "read", "stop", "uncount"}
ThirdWrites == {"next", "write", "release"}
ThirdCounted == {t \in Readers : pc[t] \in ThirdCounts}

ThirdLocks ==
  /\ \A s, t \in Threads : pc[s] \in ThirdServed /\ pc[t] \in ThirdServed => s = t
  /\ serviceQueue = 1 <=> \A t \in Threads : pc[t] \notin ThirdServed
  /\ \A s, t \in Readers : pc[s] \in ThirdHolds /\ pc[t] \in ThirdHolds => s = t
  /\ rmutex = 1 <=> \A t \in Readers : pc[t] \notin ThirdHolds
  /\ \A v, w \in Writers : pc[v] \in ThirdWrites /\ pc[w] \in ThirdWrites => v = w
  /\ \A t \in Readers, w \in Writers : ~(pc[t] \in ThirdReads /\ pc[w] \in ThirdWrites)
  /\ resource = 1 <=> /\ \A t \in Readers : pc[t] \notin ThirdReads
                      /\ \A w \in Writers : pc[w] \notin ThirdWrites
  \* who waits for the resource for all readers is the only one counted
  /\ \A s, t \in Readers : pc[s] = "lock" /\ pc[t] \in ThirdCounts => s = t
  /\ readCount = 0 <=> \A t \in Readers : pc[t] \notin ThirdCounts
  /\ \A w \in Writers : pc[w] \in {"lock", "next", "write"} => Third!WritesLeft(w)

ThirdCount ==
  /\ readCount = Cardinality(ThirdCounted)

ThirdInv == Third!TypeOK /\ ThirdLocks /\ ThirdCount

LEMMA ThirdInitInv == Third!Init => ThirdInv
<1> SUFFICES ASSUME Third!Init PROVE ThirdInv
  OBVIOUS
<1> USE MessagesAssumption, ThreadsAssumption
    DEF Threads, ThirdServed, ThirdHolds, ThirdCounts, ThirdReads, ThirdWrites
<1>1. Third!TypeOK /\ ThirdLocks
  BY DEF Third!Init, ThirdLocks, Third!Move, Third!Acquire, Third!Release, Third!WritesLeft,
      Third!LastReader,
           Third!TypeOK, Third!Steps, Third!Threads
<1>2. ThirdCount
  <2>1. ThirdCounted = {} /\ readCount = 0
    BY DEF Third!Init, ThirdCounted, Third!Threads
  <2> QED BY <2>1, FS_EmptySet DEF ThirdCount
<1> QED BY <1>1, <1>2 DEF ThirdInv

LEMMA ThirdCountStep ==
  ASSUME ThirdInv, NEW x \in Threads, Third!Thread(x)
  PROVE  /\ ThirdCount'
         /\ readCount' \in Nat /\ (readCount' = 0 <=> \A t \in Readers : pc'[t] \notin ThirdCounts)
<1> USE MessagesAssumption, ThreadsAssumption
    DEF Threads, ThirdServed, ThirdHolds, ThirdCounts, ThirdReads, ThirdWrites,
        Third!Move, Third!Acquire, Third!Release, Third!WritesLeft, Third!LastReader,
           Third!TypeOK, Third!Steps, Third!Threads
<1>0. Third!TypeOK /\ ThirdCount
  BY DEF ThirdInv
<1>1. Counts(readCount', ThirdCounted')
  <2>1. \/ ThirdCounted' = ThirdCounted /\ readCount' = readCount
        \/ ThirdCounted' = ThirdCounted \cup {x} /\ x \notin ThirdCounted /\ readCount' = readCount + 1
        \/ ThirdCounted' = ThirdCounted \ {x} /\ x \in ThirdCounted /\ readCount' = readCount - 1
    <3>1. CASE x \in Readers /\ Third!ReadCount(x)
      BY <1>0, <3>1 DEF Third!ReadCount, ThirdCounted
    <3>2. CASE x \in Readers /\ Third!ReadUncount(x)
      BY <1>0, <3>2 DEF Third!ReadUncount, ThirdCounted
    <3>3. CASE x \in Writers /\ (Third!Serve(x) \/ Third!Lock(x) \/ Third!NextInLine(x) \/ Third!Write(x))
      BY <1>0, <3>3 DEF Third!Serve, Third!Lock, Third!NextInLine, Third!Write, ThirdCounted
    <3>4. CASE x \in Writers /\ (Third!EndWrite(x))
      BY <1>0, <3>4 DEF Third!EndWrite, ThirdCounted
    <3>5. CASE x \in Readers /\ (Third!Serve(x) \/ Third!Lock(x) \/ Third!NextInLine(x) \/ Third!ReadEnter(x))
      BY <1>0, <3>5 DEF Third!Serve, Third!Lock, Third!NextInLine, Third!ReadEnter,
          ThirdCounted
    <3>6. CASE x \in Readers /\ (Third!ReadLeave(x) \/ Third!Read(x) \/ Third!ReadStop(x) \/ Third!ReadExit(x))
      BY <1>0, <3>6 DEF Third!ReadLeave, Third!Read, Third!ReadStop, Third!ReadExit,
          ThirdCounted
    <3> QED BY <3>1, <3>2, <3>3, <3>4, <3>5, <3>6 DEF Third!Thread, Third!Writer,
        Third!Reader, Third!Queueing
  <2>2. IsFiniteSet(ThirdCounted)
    BY FS_Subset DEF ThirdCounted
  <2>3. readCount = Cardinality(ThirdCounted)
    BY <1>0 DEF ThirdCount
  <2>4. /\ Counts(readCount, ThirdCounted)
        /\ x \notin ThirdCounted => Counts(readCount + 1, ThirdCounted \cup {x})
        /\ x \in ThirdCounted => Counts(readCount - 1, ThirdCounted \ {x})
    BY <2>2, <2>3, Counting
  <2> QED BY <2>1, <2>4
<1> QED BY <1>1 DEF Counts, ThirdCount, ThirdCounted

LEMMA ThirdLocksStep ==
  ASSUME ThirdInv, NEW x \in Threads, Third!Thread(x)
  PROVE  ThirdInv'
<1> USE MessagesAssumption, ThreadsAssumption
    DEF Threads, ThirdServed, ThirdHolds, ThirdCounts, ThirdReads, ThirdWrites,
        Third!Move, Third!Acquire, Third!Release, Third!WritesLeft, Third!LastReader,
           Third!TypeOK, Third!Steps, Third!Threads
<1>0. Third!TypeOK /\ ThirdLocks
  BY DEF ThirdInv
<1>00. /\ ThirdCount'
       /\ readCount' \in Nat /\ (readCount' = 0 <=> \A t \in Readers : pc'[t] \notin ThirdCounts)
  BY ThirdCountStep
<1>1. CASE x \in Writers /\ Third!Serve(x)
  BY <1>0, <1>00, <1>1 DEF Third!Serve, ThirdLocks, ThirdInv
<1>2. CASE x \in Writers /\ Third!Lock(x)
  BY <1>0, <1>00, <1>2 DEF Third!Lock, ThirdLocks, ThirdInv
<1>3. CASE x \in Writers /\ Third!NextInLine(x)
  BY <1>0, <1>00, <1>3 DEF Third!NextInLine, ThirdLocks, ThirdInv
<1>4. CASE x \in Writers /\ Third!Write(x)
  BY <1>0, <1>00, <1>4 DEF Third!Write, ThirdLocks, ThirdInv
<1>5. CASE x \in Writers /\ Third!EndWrite(x)
  BY <1>0, <1>00, <1>5 DEF Third!EndWrite, ThirdLocks, ThirdInv
<1>6. CASE x \in Readers /\ Third!Serve(x)
  BY <1>0, <1>00, <1>6 DEF Third!Serve, ThirdLocks, ThirdInv
<1>7. CASE x \in Readers /\ Third!Lock(x)
  BY <1>0, <1>00, <1>7 DEF Third!Lock, ThirdLocks, ThirdInv
<1>8. CASE x \in Readers /\ Third!NextInLine(x)
  BY <1>0, <1>00, <1>8 DEF Third!NextInLine, ThirdLocks, ThirdInv
<1>9. CASE x \in Readers /\ Third!ReadEnter(x)
  BY <1>0, <1>00, <1>9 DEF Third!ReadEnter, ThirdLocks, ThirdInv
<1>10. CASE x \in Readers /\ Third!ReadCount(x)
  BY <1>0, <1>00, <1>10 DEF Third!ReadCount, ThirdLocks, ThirdInv
<1>11. CASE x \in Readers /\ Third!ReadLeave(x)
  BY <1>0, <1>00, <1>11 DEF Third!ReadLeave, ThirdLocks, ThirdInv
<1>12. CASE x \in Readers /\ Third!Read(x)
  BY <1>0, <1>00, <1>12 DEF Third!Read, ThirdLocks, ThirdInv
<1>13. CASE x \in Readers /\ Third!ReadStop(x)
  BY <1>0, <1>00, <1>13 DEF Third!ReadStop, ThirdLocks, ThirdInv
<1>14. CASE x \in Readers /\ Third!ReadUncount(x)
  BY <1>0, <1>00, <1>14 DEF Third!ReadUncount, ThirdLocks, ThirdInv
<1>15. CASE x \in Readers /\ Third!ReadExit(x)
  BY <1>0, <1>00, <1>15 DEF Third!ReadExit, ThirdLocks, ThirdInv
<1> QED BY <1>1, <1>2, <1>3, <1>4, <1>5, <1>6, <1>7, <1>8, <1>9, <1>10, <1>11, <1>12, <1>13,
    <1>14, <1>15
  DEF Third!Thread, Third!Writer, Third!Reader, Third!Queueing

\* Every step is one of the shared resource, or none.
LEMMA ThirdShares ==
  ASSUME ThirdInv, NEW x \in Threads, Third!Thread(x)
  PROVE  Access(x, Third!Reading, Third!Writing, data, Third!Reading', Third!Writing', data')
<1> USE MessagesAssumption, ThreadsAssumption
    DEF Threads, ThirdServed, ThirdHolds, ThirdCounts, ThirdReads, ThirdWrites,
        Third!Move, Third!Acquire, Third!Release, Third!WritesLeft, Third!LastReader,
           Third!TypeOK, Third!Steps, Third!Threads
<1>0. Third!TypeOK /\ ThirdLocks
  BY DEF ThirdInv
<1>1. CASE x \in Writers /\ Third!Serve(x)
  BY <1>0, <1>1 DEF Third!Serve, ThirdLocks, Third!Reading, Third!Writing, Access
<1>2. CASE x \in Writers /\ Third!Lock(x)
  BY <1>0, <1>2 DEF Third!Lock, ThirdLocks, Third!Reading, Third!Writing, Access
<1>3. CASE x \in Writers /\ Third!NextInLine(x)
  BY <1>0, <1>3 DEF Third!NextInLine, ThirdLocks, Third!Reading, Third!Writing, Access
<1>4. CASE x \in Writers /\ Third!Write(x)
  BY <1>0, <1>4 DEF Third!Write, ThirdLocks, Third!Reading, Third!Writing, Access
<1>5. CASE x \in Writers /\ Third!EndWrite(x)
  BY <1>0, <1>5 DEF Third!EndWrite, ThirdLocks, Third!Reading, Third!Writing, Access
<1>6. CASE x \in Readers /\ Third!Serve(x)
  BY <1>0, <1>6 DEF Third!Serve, ThirdLocks, Third!Reading, Third!Writing, Access
<1>7. CASE x \in Readers /\ Third!Lock(x)
  BY <1>0, <1>7 DEF Third!Lock, ThirdLocks, Third!Reading, Third!Writing, Access
<1>8. CASE x \in Readers /\ Third!NextInLine(x)
  BY <1>0, <1>8 DEF Third!NextInLine, ThirdLocks, Third!Reading, Third!Writing, Access
<1>9. CASE x \in Readers /\ Third!ReadEnter(x)
  BY <1>0, <1>9 DEF Third!ReadEnter, ThirdLocks, Third!Reading, Third!Writing, Access
<1>10. CASE x \in Readers /\ Third!ReadCount(x)
  BY <1>0, <1>10 DEF Third!ReadCount, ThirdLocks, Third!Reading, Third!Writing, Access
<1>11. CASE x \in Readers /\ Third!ReadLeave(x)
  BY <1>0, <1>11 DEF Third!ReadLeave, ThirdLocks, Third!Reading, Third!Writing, Access
<1>12. CASE x \in Readers /\ Third!Read(x)
  BY <1>0, <1>12 DEF Third!Read, ThirdLocks, Third!Reading, Third!Writing, Access
<1>13. CASE x \in Readers /\ Third!ReadStop(x)
  BY <1>0, <1>13 DEF Third!ReadStop, ThirdLocks, Third!Reading, Third!Writing, Access
<1>14. CASE x \in Readers /\ Third!ReadUncount(x)
  BY <1>0, <1>14 DEF Third!ReadUncount, ThirdLocks, Third!Reading, Third!Writing, Access
<1>15. CASE x \in Readers /\ Third!ReadExit(x)
  BY <1>0, <1>15 DEF Third!ReadExit, ThirdLocks, Third!Reading, Third!Writing, Access
<1> QED BY <1>1, <1>2, <1>3, <1>4, <1>5, <1>6, <1>7, <1>8, <1>9, <1>10, <1>11, <1>12, <1>13,
    <1>14, <1>15
  DEF Third!Thread, Third!Writer, Third!Reader, Third!Queueing

-----------------------------------------------------------------------------
(***************************************************************************)
(* The programs within Locks.                                              *)
(***************************************************************************)

RoomInv ==
  /\ program = "first" => FirstInv
  /\ program = "second" => SecondInv
  /\ program = "third" => ThirdInv

\* A step of Locks is one of its program, or none.
LEMMA FirstSteps ==
  ASSUME program = "first", [Next]_vars
  PROVE  /\ program' = program
         /\ (\E x \in Threads : First!Thread(x)) \/ UNCHANGED First!vars
  BY DEF Next, Thread, Main, Join, Room, vars, roomVars, First!vars, First!Thread,
         Spin!SpinPrograms, Emulator!EmulatorPrograms, Threads
LEMMA SecondSteps ==
  ASSUME program = "second", [Next]_vars
  PROVE  /\ program' = program
         /\ (\E x \in Threads : Second!Thread(x)) \/ UNCHANGED Second!vars
  BY DEF Next, Thread, Main, Join, Room, vars, roomVars, Second!vars, Second!Thread,
         Second!semaphores, Second!counts, Spin!SpinPrograms, Emulator!EmulatorPrograms,
         Threads
LEMMA ThirdSteps ==
  ASSUME program = "third", [Next]_vars
  PROVE  /\ program' = program
         /\ (\E x \in Threads : Third!Thread(x)) \/ UNCHANGED Third!vars
  BY DEF Next, Thread, Main, Join, Room, vars, roomVars, Third!vars, Third!Thread,
         Spin!SpinPrograms, Emulator!EmulatorPrograms, Threads

\* No step changes the program.
LEMMA ProgramStays == [Next]_vars => program' = program
<1> SUFFICES ASSUME Next PROVE program' = program
  BY DEF vars
<1>1. ASSUME NEW t, Spin!Thread(t) PROVE program' = program
  BY <1>1 DEF Spin!Thread, Spin!TestAndSet, Spin!FoundSet, Spin!SeenClear, Spin!Sleep,
              Spin!Load, Spin!Store, Spin!Unlock, Spin!NotifyOne
<1>2. ASSUME NEW t, Emulator!Thread(t) PROVE program' = program
  BY <1>2 DEF Emulator!Thread, Emulator!Reader, Emulator!Writer, Emulator!Test,
              Emulator!LoadLock, Emulator!LoadCopy, Emulator!LoadUnlock,
              Emulator!StoreLock, Emulator!StoreCopy, Emulator!StoreUnlock
<1> QED BY <1>1, <1>2 DEF Next, Thread, Main, Join, Room, vars, Emulator!SetExit

LEMMA RoomInit == Init => RoomInv
  BY FirstInitInv, SecondInitInv, ThirdInitInv
  DEF Init, InitRoom, RoomInv, Spin!Init, Emulator!Init, Spin!SpinPrograms,
      Emulator!EmulatorPrograms

LEMMA RoomStep == RoomInv /\ [Next]_vars => RoomInv'
<1> SUFFICES ASSUME RoomInv, [Next]_vars PROVE RoomInv'
  OBVIOUS
<1>1. CASE program = "first"
  <2>1. FirstInv /\ program' = "first"
    BY <1>1, FirstSteps DEF RoomInv
  <2>2. CASE UNCHANGED First!vars
    BY <2>1, <2>2
    DEF First!vars, FirstInv, FirstLocks, FirstCount, FirstCounted, First!TypeOK,
        First!WritesLeft, RoomInv
  <2> QED BY <1>1, <2>1, <2>2, FirstSteps, FirstLocksStep DEF RoomInv
<1>2. CASE program = "second"
  <2>1. SecondInv /\ program' = "second"
    BY <1>2, SecondSteps DEF RoomInv
  <2>2. CASE UNCHANGED Second!vars
    BY <2>1, <2>2
    DEF Second!vars, Second!semaphores, Second!counts, SecondInv, SecondLocks, SecondCount,
        SecondCountedWriters, SecondCountedReaders, Second!TypeOK, Second!WritesLeft, RoomInv
  <2> QED BY <1>2, <2>1, <2>2, SecondSteps, SecondLocksStep DEF RoomInv
<1>3. CASE program = "third"
  <2>1. ThirdInv /\ program' = "third"
    BY <1>3, ThirdSteps DEF RoomInv
  <2>2. CASE UNCHANGED Third!vars
    BY <2>1, <2>2
    DEF Third!vars, ThirdInv, ThirdLocks, ThirdCount, ThirdCounted, Third!TypeOK,
        Third!WritesLeft, RoomInv
  <2> QED BY <1>3, <2>1, <2>2, ThirdSteps, ThirdLocksStep DEF RoomInv
<1> QED BY <1>1, <1>2, <1>3, ProgramStays DEF RoomInv

LEMMA RoomAlways == Spec => []RoomInv
  BY RoomInit, RoomStep, PTL DEF Spec

-----------------------------------------------------------------------------
(***************************************************************************)
(* Who waits for whom.                                                     *)
(***************************************************************************)

LEMMA FirstIsOpen == FirstInv => First!OpenShareNeverBlocks
  BY DEF FirstInv, FirstLocks, First!OpenShareNeverBlocks, First!Reading, FirstCounts

LEMMA SecondShutsOut ==
  ASSUME SecondInv, NEW x \in Threads, Second!Thread(x)
  PROVE  Second!ShutOut
<1> USE MessagesAssumption, ThreadsAssumption
    DEF Threads, SecondTries, SecondAnnounces, Second!Move, Second!Threads, Second!TypeOK
<1>0. Second!TypeOK /\ SecondLocks
  BY DEF SecondInv
<1>1. CASE x \in Writers /\ (Second!WriteEnter(x) \/ Second!WriteCount(x) \/ Second!WriteShut(x))
  BY <1>0, <1>1 DEF SecondLocks, Second!ShutOut, Second!Announced, Second!Reading,
    Second!WriteEnter, Second!WriteCount, Second!WriteShut
<1>2. CASE x \in Writers /\ (Second!WriteLeave(x) \/ Second!WriteLock(x) \/ Second!Write(x))
  BY <1>0, <1>2 DEF SecondLocks, Second!ShutOut, Second!Announced, Second!Reading,
    Second!WriteLeave, Second!WriteLock, Second!Write
<1>3. CASE x \in Writers /\ (Second!WriteUnlock(x) \/ Second!WriteStop(x) \/ Second!WriteUncount(x))
  BY <1>0, <1>3 DEF SecondLocks, Second!ShutOut, Second!Announced, Second!Reading,
    Second!WriteUnlock, Second!WriteStop, Second!WriteUncount
<1>4. CASE x \in Writers /\ (Second!WriteExit(x))
  BY <1>0, <1>4 DEF SecondLocks, Second!ShutOut, Second!Announced, Second!Reading,
    Second!WriteExit
<1>5. CASE x \in Readers /\ (Second!ReadTry(x) \/ Second!ReadEnter(x) \/ Second!ReadCount(x))
  BY <1>0, <1>5 DEF SecondLocks, Second!ShutOut, Second!Announced, Second!Reading,
    Second!ReadTry, Second!ReadEnter, Second!ReadCount
<1>6. CASE x \in Readers /\ (Second!ReadLock(x) \/ Second!ReadLeave(x) \/ Second!ReadTried(x))
  BY <1>0, <1>6 DEF SecondLocks, Second!ShutOut, Second!Announced, Second!Reading,
    Second!ReadLock, Second!ReadLeave, Second!ReadTried
<1>7. CASE x \in Readers /\ (Second!ReadQueue(x) \/ Second!ReadVariable(x) \/ Second!ReadStop(x))
  BY <1>0, <1>7 DEF SecondLocks, Second!ShutOut, Second!Announced, Second!Reading,
    Second!ReadQueue, Second!ReadVariable, Second!ReadStop
<1>8. CASE x \in Readers /\ (Second!ReadUncount(x) \/ Second!ReadExit(x))
  BY <1>0, <1>8 DEF SecondLocks, Second!ShutOut, Second!Announced, Second!Reading,
    Second!ReadUncount, Second!ReadExit
<1> QED BY <1>1, <1>2, <1>3, <1>4, <1>5, <1>6, <1>7, <1>8 DEF Second!Thread, Second!Writer,
    Second!Reader

LEMMA ThirdInTurn ==
  ASSUME ThirdInv, NEW x \in Threads, Third!Thread(x)
  PROVE  Third!InTurn
<1> USE MessagesAssumption, ThreadsAssumption
    DEF Threads, ThirdServed, Third!Move, Third!Threads, Third!TypeOK
<1>0. Third!TypeOK /\ ThirdLocks
  BY DEF ThirdInv
<1>1. CASE x \in Writers /\ (Third!Serve(x) \/ Third!Lock(x) \/ Third!NextInLine(x))
  BY <1>0, <1>1 DEF ThirdLocks, Third!InTurn, Third!AtHead, Third!Inside, Third!Reading,
      Third!Writing,
    Third!Serve, Third!Lock, Third!NextInLine
<1>2. CASE x \in Writers /\ (Third!Write(x) \/ Third!EndWrite(x))
  BY <1>0, <1>2 DEF ThirdLocks, Third!InTurn, Third!AtHead, Third!Inside, Third!Reading,
      Third!Writing,
    Third!Write, Third!EndWrite
<1>3. CASE x \in Readers /\ (Third!Serve(x) \/ Third!Lock(x) \/ Third!NextInLine(x))
  BY <1>0, <1>3 DEF ThirdLocks, Third!InTurn, Third!AtHead, Third!Inside, Third!Reading,
      Third!Writing,
    Third!Serve, Third!Lock, Third!NextInLine
<1>4. CASE x \in Readers /\ (Third!ReadEnter(x) \/ Third!ReadCount(x) \/ Third!ReadLeave(x))
  BY <1>0, <1>4 DEF ThirdLocks, Third!InTurn, Third!AtHead, Third!Inside, Third!Reading,
      Third!Writing,
    Third!ReadEnter, Third!ReadCount, Third!ReadLeave
<1>5. CASE x \in Readers /\ (Third!Read(x) \/ Third!ReadStop(x) \/ Third!ReadUncount(x))
  BY <1>0, <1>5 DEF ThirdLocks, Third!InTurn, Third!AtHead, Third!Inside, Third!Reading,
      Third!Writing,
    Third!Read, Third!ReadStop, Third!ReadUncount
<1>6. CASE x \in Readers /\ (Third!ReadExit(x))
  BY <1>0, <1>6 DEF ThirdLocks, Third!InTurn, Third!AtHead, Third!Inside, Third!Reading,
      Third!Writing,
    Third!ReadExit
<1> QED BY <1>1, <1>2, <1>3, <1>4, <1>5, <1>6 DEF Third!Thread, Third!Writer, Third!Reader,
    Third!Queueing

\* Who waits for whom in the three readers-writers programs.  Readers preference:
\* no reader waits for the resource while another is inside, whoever comes and goes.
\* Writers preference: while a writer is announced no step lets a further reader in.
\* The service queue: nobody gets in before the thread that is through it; that nobody
\* starves at the queue itself is not said.
THEOREM PreferenceHolds == Spec => Preference
<1>1. RoomInv /\ RoomInv' /\ [Next]_vars =>
        [/\ program = "first" => First!OpenShareNeverBlocks'
         /\ program = "second" => Second!ShutOut
         /\ program = "third" => Third!InTurn]_vars
  <2> SUFFICES ASSUME RoomInv, RoomInv', [Next]_vars
               PROVE  /\ program = "first" => First!OpenShareNeverBlocks'
                      /\ program = "second" => Second!ShutOut
                      /\ program = "third" => Third!InTurn
    OBVIOUS
  <2>1. CASE program = "first"
    <3>1. FirstInv => First!OpenShareNeverBlocks
      BY FirstIsOpen
    <3>2. FirstInv'
      BY <2>1, ProgramStays DEF RoomInv
    <3>3. First!OpenShareNeverBlocks'
      BY <3>2, FirstIsOpen, PTL
    <3> QED BY <2>1, <3>3
  <2>2. CASE program = "second"
    <3>1. CASE UNCHANGED Second!vars
      BY <2>2, <3>1 DEF Second!vars, Second!ShutOut, Second!Reading
    <3> QED BY <2>2, <3>1, SecondSteps, SecondShutsOut DEF RoomInv
  <2>3. CASE program = "third"
    <3>1. CASE UNCHANGED Third!vars
      BY <2>3, <3>1 DEF Third!vars, Third!InTurn, Third!Inside, Third!Reading, Third!Writing
    <3> QED BY <2>3, <3>1, ThirdSteps, ThirdInTurn DEF RoomInv
  <2> QED BY <2>1, <2>2, <2>3
<1> QED BY <1>1, RoomAlways, PTL DEF Spec, Preference

-----------------------------------------------------------------------------
(***************************************************************************)
(* Spinlock/: the flag is set exactly while somebody is inside.            *)
(***************************************************************************)
SpinOwns == {"load", "store", "unlock"}

SpinFlag ==
  /\ mFlag <=> \E t \in Lockers : pc[t] \in SpinOwns
  /\ \A s, t \in Lockers : pc[s] \in SpinOwns /\ pc[t] \in SpinOwns => s = t
  /\ \A t \in Lockers : pc[t] = "store" => loaded[t] = data
  /\ \A t \in Lockers : pc[t] \in {"load", "store"} => Spin!RoundsLeft(t)

SpinInv == Spin!TypeOK /\ SpinFlag

LEMMA SpinInitInv == Spin!Init => SpinInv
<1> SUFFICES ASSUME Spin!Init PROVE SpinInv
  OBVIOUS
<1>1. Spin!TypeOK
  <2>1. mFlag \in BOOLEAN
    BY DEF Spin!Init
  <2>2. asleep \subseteq Lockers /\ data \in Nat
    BY DEF Spin!Init
  <2> QED BY <2>1, <2>2, RoundsAssumption DEF Spin!Init, Spin!TypeOK
<1>2. SpinFlag
  BY DEF Spin!Init, SpinFlag, SpinOwns
<1> QED BY <1>1, <1>2 DEF SpinInv

LEMMA SpinStep ==
  ASSUME SpinInv, NEW x \in Lockers, Spin!Thread(x)
  PROVE  /\ SpinInv'
         /\ Access(x, {}, Spin!Writing, data, {}, Spin!Writing', data')
<1> USE RoundsAssumption
    DEF SpinInv, SpinFlag, Spin!TypeOK, Spin!RoundsLeft, Spin!Move, SpinOwns, Spin!Writing,
        Access
<1>1. CASE Spin!TestAndSet(x)
  BY <1>1 DEF Spin!TestAndSet
<1>2. CASE Spin!FoundSet(x)
  BY <1>2 DEF Spin!FoundSet
<1>3. CASE Spin!SeenClear(x)
  BY <1>3 DEF Spin!SeenClear
<1>4. CASE Spin!Sleep(x)
  BY <1>4 DEF Spin!Sleep
<1>5. CASE Spin!Load(x)
  BY <1>5 DEF Spin!Load
<1>6. CASE Spin!Store(x)
  BY <1>6 DEF Spin!Store
<1>7. CASE Spin!Unlock(x)
  BY <1>7 DEF Spin!Unlock
<1>8. CASE Spin!NotifyOne(x)
  BY <1>8 DEF Spin!NotifyOne
<1> QED BY <1>1, <1>2, <1>3, <1>4, <1>5, <1>6, <1>7, <1>8 DEF Spin!Thread

-----------------------------------------------------------------------------
(***************************************************************************)
(* sema.h: there is one unit.  It is in m_count, in the kernel semaphore,  *)
(* with the thread inside, or with one on its way to post it.              *)
(***************************************************************************)
SemaOwns == {"load", "store", "signal", "post"}

SemaUnit ==
  /\ \A s, t \in Lockers : pc[s] \in SemaOwns /\ pc[t] \in SemaOwns => s = t
  /\ \A t \in Lockers : pc[t] \in SemaOwns => m_count <= 0 /\ m_sema = 0
  /\ m_count <= 1 /\ m_sema <= 1 /\ (m_sema = 1 => m_count <= 0)
  /\ \A t \in Lockers : pc[t] = "store" => loaded[t] = data
  /\ \A t \in Lockers : pc[t] \notin {"wait", "signal", "post"} => Sema!RoundsLeft(t)

SemaInv == Sema!TypeOK /\ SemaUnit /\ Sema!CountsSleepers

\* The instance counts as this module does.
LEMMA SameCardinality == \A S : Sema!Cardinality(S) = Cardinality(S)
  BY DEF Sema!Cardinality, Cardinality

LEMMA SemaInitInv == Sema!Init => SemaInv
<1> SUFFICES ASSUME Sema!Init PROVE SemaInv
  OBVIOUS
<1>1. Sema!TypeOK /\ SemaUnit
  BY RoundsAssumption DEF Sema!Init, SemaUnit, Sema!TypeOK, Sema!RoundsLeft, SemaOwns
<1>2. Sema!Sleepers = {} /\ Sema!Posting = {} /\ m_count = 1 /\ m_sema = 0
  BY DEF Sema!Init, Sema!Sleepers, Sema!Posting
<1> QED BY <1>1, <1>2, SameCardinality, FS_EmptySet DEF SemaInv, Sema!CountsSleepers

LEMMA SemaUnitStep ==
  ASSUME SemaInv, NEW x \in Lockers, Sema!Thread(x)
  PROVE  /\ Sema!TypeOK' /\ SemaUnit'
         /\ Access(x, {}, Sema!Writing, data, {}, Sema!Writing', data')
<1> USE RoundsAssumption
    DEF SemaInv, SemaUnit, Sema!TypeOK, Sema!RoundsLeft, Sema!Move, SemaOwns, Sema!Writing,
        Access
<1>1. CASE Sema!LoadCount(x)
  BY <1>1 DEF Sema!LoadCount
<1>2. CASE Sema!TryTake(x)
  BY <1>2 DEF Sema!TryTake
<1>3. CASE Sema!SpinOn(x)
  BY <1>3 DEF Sema!SpinOn
<1>4. CASE Sema!Subtract(x)
  BY <1>4 DEF Sema!Subtract
<1>5. CASE Sema!KernelWait(x)
  BY <1>5 DEF Sema!KernelWait
<1>6. CASE Sema!Load(x)
  BY <1>6 DEF Sema!Load
<1>7. CASE Sema!Store(x)
  BY <1>7 DEF Sema!Store
<1>8. CASE Sema!Signal(x)
  BY <1>8 DEF Sema!Signal, Sema!ToRelease
<1>9. CASE Sema!Post(x)
  BY <1>9 DEF Sema!Post
<1> QED BY <1>1, <1>2, <1>3, <1>4, <1>5, <1>6, <1>7, <1>8, <1>9 DEF Sema!Thread

LEMMA SemaCountStep ==
  ASSUME SemaInv, NEW x \in Lockers, Sema!Thread(x)
  PROVE  Sema!CountsSleepers'
<1> DEFINE S == Sema!Sleepers
           P == Sema!Posting
           Below(n) == IF n < 0 THEN -n ELSE 0
<1>0. Sema!TypeOK /\ SemaUnit /\ Cardinality(S) = Below(m_count) + m_sema + Cardinality(P)
  BY SameCardinality DEF SemaInv, Sema!CountsSleepers
<1>1. \/ /\ S' = S /\ P' = P /\ m_sema' = m_sema /\ Below(m_count') = Below(m_count)
      \/ /\ x \notin S /\ S' = S \cup {x} /\ P' = P
         /\ m_sema' = m_sema /\ Below(m_count') = Below(m_count) + 1
      \/ /\ x \in S /\ S' = S \ {x} /\ P' = P
         /\ m_sema' = m_sema - 1 /\ Below(m_count') = Below(m_count)
      \/ /\ x \notin P /\ S' = S /\ P' = P \cup {x}
         /\ m_sema' = m_sema /\ Below(m_count') = Below(m_count) - 1
      \/ /\ x \in P /\ S' = S /\ P' = P \ {x}
         /\ m_sema' = m_sema + 1 /\ Below(m_count') = Below(m_count)
  <2> USE <1>0 DEF Sema!TypeOK, Sema!Move, Sema!Sleepers, Sema!Posting
  <2>1. CASE Sema!LoadCount(x) \/ Sema!SpinOn(x) \/ Sema!Load(x) \/ Sema!Store(x)
    BY <2>1 DEF Sema!LoadCount, Sema!SpinOn, Sema!Load, Sema!Store
  <2>2. CASE Sema!TryTake(x)
    BY <2>2 DEF Sema!TryTake
  <2>3. CASE Sema!Subtract(x)
    BY <2>3 DEF Sema!Subtract
  <2>4. CASE Sema!KernelWait(x)
    BY <2>4 DEF Sema!KernelWait
  <2>5. CASE Sema!Signal(x)
    BY <2>5 DEF Sema!Signal, Sema!ToRelease, SemaUnit, SemaOwns
  <2>6. CASE Sema!Post(x)
    BY <2>6 DEF Sema!Post
  <2> QED BY <2>1, <2>2, <2>3, <2>4, <2>5, <2>6 DEF Sema!Thread
<1>2. IsFiniteSet(S) /\ IsFiniteSet(P)
  BY LockersAssumption, FS_Subset DEF Sema!Sleepers, Sema!Posting
<1>3. /\ Cardinality(S) \in Nat /\ Cardinality(P) \in Nat
      /\ x \notin S => Cardinality(S \cup {x}) = Cardinality(S) + 1
      /\ x \in S => Cardinality(S \ {x}) = Cardinality(S) - 1
      /\ x \notin P => Cardinality(P \cup {x}) = Cardinality(P) + 1
      /\ x \in P => Cardinality(P \ {x}) = Cardinality(P) - 1
  BY <1>2, Counting DEF Counts
<1>4. Below(m_count) \in Int /\ m_sema \in Int
  BY <1>0 DEF Sema!TypeOK
<1>5. Cardinality(S') = (Below(m_count') + m_sema') + Cardinality(P')
  <2> DEFINE s == Cardinality(S)
             p == Cardinality(P)
             b == Below(m_count)
             s2 == Cardinality(S')
             p2 == Cardinality(P')
             b2 == Below(m_count')
  <2>1. \/ s2 = s /\ p2 = p /\ m_sema' = m_sema /\ b2 = b
        \/ s2 = s + 1 /\ p2 = p /\ m_sema' = m_sema /\ b2 = b + 1
        \/ s2 = s - 1 /\ p2 = p /\ m_sema' = m_sema - 1 /\ b2 = b
        \/ s2 = s /\ p2 = p + 1 /\ m_sema' = m_sema /\ b2 = b - 1
        \/ s2 = s /\ p2 = p - 1 /\ m_sema' = m_sema + 1 /\ b2 = b
    <3> HIDE DEF S, P, Below
    <3> QED BY <1>1, <1>3, Zenon
  <2>2. s = (b + m_sema) + p /\ s \in Int /\ p \in Int /\ b \in Int /\ m_sema \in Int
    BY <1>0, <1>3, <1>4
  <2> HIDE DEF s, p, b, s2, p2, b2
  <2>3. s2 = (b2 + m_sema') + p2
    BY <2>1, <2>2
  <2> QED BY <2>3 DEF s2, p2, b2
<1> QED BY <1>5, SameCardinality DEF Sema!CountsSleepers

LEMMA SemaStep ==
  ASSUME SemaInv, NEW x \in Lockers, Sema!Thread(x)
  PROVE  SemaInv'
  BY SemaUnitStep, SemaCountStep DEF SemaInv

-----------------------------------------------------------------------------
(***************************************************************************)
(* The emulated sequence locks: the lock is held by whoever copies, a      *)
(* writer alone, and only a writer's copy changes a word.                  *)
(***************************************************************************)
EmulatorOwns == {"copy", "unlock"}

EmulatorLock ==
  /\ \A t \in Threads : t \in mSharedMutex <=> pc[t] \in EmulatorOwns
  /\ \A w \in Writers, t \in Threads :
       pc[w] \in EmulatorOwns /\ pc[t] \in EmulatorOwns => t = w
  /\ \A w \in Writers : pc[w] \in EmulatorOwns => w = Emulator!Storer

Stored(i) ==
  \/ pc[Emulator!Storer] = "unlock"
  \/ pc[Emulator!Storer] = "copy" /\ i < word[Emulator!Storer]

EmulatorWords ==
  /\ \A t \in Threads : pc[t] # "copy" => word[t] = 1
  /\ pc[Emulator!Storer] \in EmulatorOwns => written[Emulator!Storer] < Emulator!Stores
  \* the writer's copy has come this far
  /\ \A i \in 1 .. 3 :
       /\ Stored(i) => mSharedValue[i] = written[Emulator!Storer] + 1
       /\ ~Stored(i) => mSharedValue[i] = written[Emulator!Storer]
  \* and a reader's this far
  /\ \A t \in Readers, i \in 1 .. 3 :
       pc[t] = "unlock" \/ (pc[t] = "copy" /\ i < word[t])
         => copy[t][i] = written[Emulator!Storer]

EmulatorInv == Emulator!TypeOK /\ EmulatorLock /\ EmulatorWords

LEMMA StorerWrites == Emulator!Storer \in Writers
  BY ThreadsAssumption DEF Emulator!Storer

LEMMA ThreeWordsAre ==
  ASSUME NEW k \in 0 .. 2
  PROVE  Emulator!ThreeWords(k) = [i \in 1 .. 3 |-> k]
  BY DEF Emulator!ThreeWords

LEMMA EmulatorInitInv == Emulator!Init => EmulatorInv
<1> SUFFICES ASSUME Emulator!Init PROVE EmulatorInv
  OBVIOUS
<1>1. Emulator!ThreeWords(0) = [i \in 1 .. 3 |-> 0]
  BY ThreeWordsAre
<1> USE <1>1, ThreadsAssumption, StorerWrites DEF Emulator!Init, Threads, Emulator!Threads
<1>2. Emulator!TypeOK
  <2>1. exitFlag \in BOOLEAN
    OBVIOUS
  <2> QED BY <2>1 DEF Emulator!TypeOK, Emulator!Stores
<1>3. EmulatorLock /\ EmulatorWords
  BY DEF EmulatorLock, EmulatorWords, Stored, EmulatorOwns
<1> QED BY <1>2, <1>3 DEF EmulatorInv

LEMMA EmulatorReaderStep ==
  ASSUME EmulatorInv, NEW x \in Readers, Emulator!Reader(x)
  PROVE  /\ EmulatorInv'
         /\ Access(x, Emulator!Reading, Emulator!Writing, 0,
                      Emulator!Reading', Emulator!Writing', 0)
<1> USE ThreadsAssumption, StorerWrites
    DEF EmulatorInv, EmulatorLock, EmulatorWords, Stored, Emulator!TypeOK, EmulatorOwns,
        Emulator!Stores,
        Emulator!Reading, Emulator!Writing, Emulator!Owning, Emulator!Move, Access, Threads,
        Emulator!Threads
<1>1. CASE Emulator!Test(x)
  BY <1>1 DEF Emulator!Test
<1>2. CASE Emulator!LoadLock(x)
  BY <1>2 DEF Emulator!LoadLock, Emulator!LockShared
<1>3. CASE Emulator!LoadCopy(x)
  BY <1>3 DEF Emulator!LoadCopy, Emulator!NextWord
<1>4. CASE Emulator!LoadUnlock(x)
  BY <1>4 DEF Emulator!LoadUnlock, Emulator!Unlock
<1> QED BY <1>1, <1>2, <1>3, <1>4 DEF Emulator!Reader

LEMMA EmulatorWriterStep ==
  ASSUME EmulatorInv, NEW x, x = Emulator!Storer, Emulator!Writer(x)
  PROVE  /\ EmulatorInv'
         /\ Access(x, Emulator!Reading, Emulator!Writing, 0,
                      Emulator!Reading', Emulator!Writing', 0)
<1> USE ThreadsAssumption, StorerWrites
    DEF EmulatorInv, EmulatorLock, EmulatorWords, Stored, Emulator!TypeOK, EmulatorOwns,
        Emulator!Stores,
        Emulator!Reading, Emulator!Writing, Emulator!Owning, Emulator!Move, Access, Threads,
        Emulator!Threads
<1>1. CASE Emulator!StoreLock(x)
  BY <1>1 DEF Emulator!StoreLock, Emulator!Lock
<1>2. CASE Emulator!StoreCopy(x)
  BY <1>2 DEF Emulator!StoreCopy, Emulator!NextWord
<1>3. CASE Emulator!StoreUnlock(x)
  BY <1>3 DEF Emulator!StoreUnlock, Emulator!Unlock
<1> QED BY <1>1, <1>2, <1>3 DEF Emulator!Writer

LEMMA EmulatorSetExit ==
  ASSUME EmulatorInv, Emulator!SetExit
  PROVE  EmulatorInv' /\ UNCHANGED <<Emulator!Reading, Emulator!Writing>>
  BY DEF EmulatorInv, EmulatorLock, EmulatorWords, Stored, Emulator!TypeOK, Emulator!SetExit,
         Emulator!Reading, Emulator!Writing, Emulator!Owning

-----------------------------------------------------------------------------
(***************************************************************************)
(* All the programs of Locks.                                              *)
(***************************************************************************)
LocksInv ==
  /\ RoomInv
  /\ program \in Spin!SpinPrograms => SpinInv
  /\ program = "semaphore" => SemaInv
  /\ program \in Emulator!EmulatorPrograms => EmulatorInv /\ data = 0

Programs ==
  {"first", "second", "third", "semaphore"} \cup Spin!SpinPrograms \cup Emulator!EmulatorPrograms

\* A step of Locks is one of its program, or none.
LEMMA SpinSteps ==
  ASSUME program \in Spin!SpinPrograms, [Next]_vars
  PROVE  \/ \E x \in Lockers : Spin!Thread(x)
         \/ UNCHANGED Spin!vars
  BY DEF Next, Thread, Main, Join, Room, vars, spinVars, Spin!vars, Spin!SpinPrograms,
         Emulator!EmulatorPrograms
LEMMA SemaSteps ==
  ASSUME program = "semaphore", [Next]_vars
  PROVE  \/ \E x \in Lockers : Sema!Thread(x)
         \/ UNCHANGED Sema!vars
  BY DEF Next, Thread, Main, Join, Room, vars, semaVars, Sema!vars, Spin!SpinPrograms,
         Emulator!EmulatorPrograms
LEMMA EmulatorSteps ==
  ASSUME program \in Emulator!EmulatorPrograms, [Next]_vars
  PROVE  /\ data' = data
         /\ \/ \E x \in Readers : Emulator!Reader(x)
            \/ Emulator!Writer(Emulator!Storer)
            \/ Emulator!SetExit
            \/ UNCHANGED Emulator!vars
  BY DEF Next, Thread, Main, Join, Room, vars, emulatorVars, Emulator!vars, Emulator!Thread,
         Spin!SpinPrograms, Emulator!EmulatorPrograms

LEMMA LocksInit == Init => LocksInv /\ program \in Programs
<1> SUFFICES ASSUME Init PROVE LocksInv /\ program \in Programs
  OBVIOUS
<1>1. RoomInv
  BY RoomInit
<1> QED BY <1>1, SpinInitInv, SemaInitInv, EmulatorInitInv
  DEF Init, InitRoom, LocksInv, Programs, Spin!Init, Emulator!Init, Spin!SpinPrograms,
      Emulator!EmulatorPrograms

LEMMA LocksStep == LocksInv /\ [Next]_vars => LocksInv'
<1> SUFFICES ASSUME LocksInv, [Next]_vars PROVE LocksInv'
  OBVIOUS
<1>1. program' = program /\ RoomInv'
  BY ProgramStays, RoomStep DEF LocksInv
<1>2. ASSUME program \in Spin!SpinPrograms PROVE SpinInv'
  <2>1. SpinInv
    BY <1>2 DEF LocksInv
  <2>2. CASE UNCHANGED Spin!vars
    BY <2>1, <2>2 DEF Spin!vars, SpinInv, SpinFlag, Spin!TypeOK, Spin!RoundsLeft
  <2> QED BY <1>2, <2>1, <2>2, SpinSteps, SpinStep
<1>3. ASSUME program = "semaphore" PROVE SemaInv'
  <2>1. SemaInv
    BY <1>3 DEF LocksInv
  <2>2. CASE UNCHANGED Sema!vars
    BY <2>1, <2>2
    DEF Sema!vars, SemaInv, SemaUnit, Sema!TypeOK, Sema!RoundsLeft, Sema!CountsSleepers,
        Sema!Sleepers, Sema!Posting
  <2> QED BY <1>3, <2>1, <2>2, SemaSteps, SemaStep
<1>4. ASSUME program \in Emulator!EmulatorPrograms PROVE EmulatorInv' /\ data' = 0
  <2>1. EmulatorInv /\ data = 0
    BY <1>4 DEF LocksInv
  <2>2. CASE UNCHANGED Emulator!vars
    BY <2>1, <2>2, <1>4, EmulatorSteps
    DEF Emulator!vars, EmulatorInv, EmulatorLock, EmulatorWords, Stored, Emulator!TypeOK
  <2> QED BY <1>4, <2>1, <2>2, EmulatorSteps, EmulatorReaderStep, EmulatorWriterStep,
             EmulatorSetExit
<1> QED BY <1>1, <1>2, <1>3, <1>4 DEF LocksInv

LEMMA LocksAlways == Spec => [](LocksInv /\ program \in Programs)
<1>1. program \in Programs /\ [Next]_vars => (program \in Programs)'
  BY ProgramStays DEF Programs, Spin!SpinPrograms, Emulator!EmulatorPrograms
<1> QED BY <1>1, LocksInit, LocksStep, PTL DEF Spec

\* Every variable of each program keeps its type; above all, the semaphores of the
\* readers-writers programs are never released past one.
THEOREM TypesHold == Spec => []TypeOK
<1>1. LocksInv => TypeOK
  BY DEF LocksInv, RoomInv, FirstInv, SecondInv, ThirdInv, SpinInv, SemaInv, EmulatorInv,
      TypeOK
<1> QED BY <1>1, LocksAlways, PTL

\* The lightweight semaphore: for any number of threads, every sleeper is counted by a
\* negative m_count, has a unit of the kernel semaphore waiting, or a thread on its way to
\* post one.
THEOREM SleepersCounted == Spec => []CountsSleepers
<1>1. LocksInv => CountsSleepers
  BY DEF LocksInv, SemaInv, CountsSleepers
<1> QED BY <1>1, LocksAlways, PTL

\* The emulated sequence locks: a load returns the last value stored, and whole.
THEOREM LoadsAreCurrent == Spec => []Current
<1>1. ASSUME LocksInv, program \in Emulator!EmulatorPrograms, NEW t \in Readers, pc[t] = "unlock"
      PROVE  copy[t] = Emulator!ThreeWords(written[Emulator!Storer])
  <2>1. EmulatorInv
    BY <1>1 DEF LocksInv
  <2>2. written[Emulator!Storer] \in 0 .. 2
    BY <2>1, StorerWrites DEF EmulatorInv, Emulator!TypeOK, Emulator!Stores
  <2>3. copy[t] = [i \in 1 .. 3 |-> written[Emulator!Storer]]
    <3>1. copy[t] \in [1 .. 3 -> 0 .. 2]
      BY <2>1 DEF EmulatorInv, Emulator!TypeOK, Emulator!Stores
    <3>2. \A i \in 1 .. 3 : copy[t][i] = written[Emulator!Storer]
      BY <1>1, <2>1 DEF EmulatorInv, EmulatorWords
    <3> QED BY <3>1, <3>2
  <2> QED BY <2>2, <2>3, ThreeWordsAre
<1>2. LocksInv => Current
  BY <1>1 DEF Current, Emulator!Current
<1> QED BY <1>2, LocksAlways, PTL

-----------------------------------------------------------------------------
(***************************************************************************)
(* They implement the shared resource.                                     *)
(***************************************************************************)
InsideReading ==
  Inside(First!Reading, Second!Reading, Third!Reading, {}, {}, Emulator!Reading)
InsideWriting ==
  Inside(First!Writing, Second!Writing, Third!Writing,
         Spin!Writing, Sema!Writing, Emulator!Writing)

LEMMA AccessIsNext ==
  ASSUME NEW x,
         Access(x, InsideReading, InsideWriting, data, InsideReading', InsideWriting', data')
  PROVE  [Shared!Next]_Shared!vars
  BY DEF Access, InsideReading, InsideWriting, Shared!Next, Shared!vars, Shared!BeginRead,
         Shared!Read, Shared!EndRead, Shared!BeginWrite, Shared!Write, Shared!EndWrite

LEMMA LocksAccess ==
  ASSUME LocksInv, program \in Programs, [Next]_vars
  PROVE  \E x : Access(x, InsideReading, InsideWriting, data,
                         InsideReading', InsideWriting', data')
<1>0. program' = program
  BY ProgramStays
<1>1. CASE program = "first"
  <2>1. \E x : Access(x, First!Reading, First!Writing, data, First!Reading', First!Writing', data')
    <3>1. CASE UNCHANGED First!vars
      BY <3>1 DEF First!vars, First!Reading, First!Writing, Access
    <3> QED BY <1>1, <3>1, FirstSteps, FirstShares DEF LocksInv, RoomInv
  <2> QED BY <1>0, <1>1, <2>1 DEF Inside, InsideReading, InsideWriting, Spin!SpinPrograms
<1>2. CASE program = "second"
  <2>1. \E x : Access(x, Second!Reading, Second!Writing, data, Second!Reading', Second!Writing', data')
    <3>1. CASE UNCHANGED Second!vars
      BY <3>1 DEF Second!vars, Second!Reading, Second!Writing, Access
    <3> QED BY <1>2, <3>1, SecondSteps, SecondShares DEF LocksInv, RoomInv
  <2> QED BY <1>0, <1>2, <2>1 DEF Inside, InsideReading, InsideWriting, Spin!SpinPrograms
<1>3. CASE program = "third"
  <2>1. \E x : Access(x, Third!Reading, Third!Writing, data, Third!Reading', Third!Writing', data')
    <3>1. CASE UNCHANGED Third!vars
      BY <3>1 DEF Third!vars, Third!Reading, Third!Writing, Access
    <3> QED BY <1>3, <3>1, ThirdSteps, ThirdShares DEF LocksInv, RoomInv
  <2> QED BY <1>0, <1>3, <2>1 DEF Inside, InsideReading, InsideWriting, Spin!SpinPrograms
<1>4. CASE program \in Spin!SpinPrograms
  <2>1. \E x : Access(x, {}, Spin!Writing, data, {}, Spin!Writing', data')
    <3>1. CASE UNCHANGED Spin!vars
      BY <3>1 DEF Spin!vars, Spin!Writing, Access
    <3> QED BY <1>4, <3>1, SpinSteps, SpinStep DEF LocksInv
  <2> QED BY <1>0, <1>4, <2>1 DEF Inside, InsideReading, InsideWriting, Spin!SpinPrograms
<1>5. CASE program = "semaphore"
  <2>1. \E x : Access(x, {}, Sema!Writing, data, {}, Sema!Writing', data')
    <3>1. CASE UNCHANGED Sema!vars
      BY <3>1 DEF Sema!vars, Sema!Writing, Access
    <3> QED BY <1>5, <3>1, SemaSteps, SemaUnitStep DEF LocksInv
  <2> QED BY <1>0, <1>5, <2>1 DEF Inside, InsideReading, InsideWriting, Spin!SpinPrograms
<1>6. CASE program \in Emulator!EmulatorPrograms
  <2>1. \E x : Access(x, Emulator!Reading, Emulator!Writing, 0,
                         Emulator!Reading', Emulator!Writing', 0)
    <3>1. CASE UNCHANGED Emulator!vars \/ Emulator!SetExit
      BY <1>6, <3>1, EmulatorSetExit
      DEF Emulator!vars, Emulator!Reading, Emulator!Writing, Emulator!Owning, Access, LocksInv
    <3> QED BY <1>6, <3>1, EmulatorSteps, EmulatorReaderStep, EmulatorWriterStep DEF LocksInv
  <2>2. data = 0 /\ data' = 0
    BY <1>6, EmulatorSteps DEF LocksInv
  <2> QED BY <1>0, <1>6, <2>1, <2>2
    DEF Inside, InsideReading, InsideWriting, Spin!SpinPrograms, Emulator!EmulatorPrograms
<1> QED BY <1>1, <1>2, <1>3, <1>4, <1>5, <1>6 DEF Programs

LEMMA LocksStartOutside == Init => Shared!Init
<1> SUFFICES ASSUME Init PROVE Shared!Init
  OBVIOUS
<1> USE DEF Inside, Shared!Init, Spin!SpinPrograms, Emulator!EmulatorPrograms
<1>1. CASE InitRoom
  BY <1>1 DEF InitRoom, First!Init, Second!Init, Third!Init, First!Reading, First!Writing,
    Second!Reading, Second!Writing, Third!Reading, Third!Writing, First!Threads, Second!Threads,
    Third!Threads
<1>2. CASE Spin!Init
  BY <1>2 DEF Spin!Init, Spin!Writing
<1>3. CASE program = "semaphore" /\ Sema!Init
  BY <1>3 DEF Sema!Init, Sema!Writing
<1>4. CASE Emulator!Init /\ data = 0
  BY <1>4 DEF Emulator!Init, Emulator!Reading, Emulator!Writing, Emulator!Owning, Threads,
    Emulator!Threads
<1> QED BY <1>1, <1>2, <1>3, <1>4 DEF Init

\* Whichever of the programs runs, with any number of threads: who writes is alone
\* inside, readers only share with readers, and no increment of the counter under a spin
\* lock or the semaphore is lost.
THEOREM ImplementsShared == Spec => Implements
<1>1. LocksInv /\ program \in Programs /\ [Next]_vars => [Shared!Next]_Shared!vars
  BY LocksAccess, AccessIsNext
<1> QED BY <1>1, LocksStartOutside, LocksAlways, PTL DEF Spec, Implements, Shared!Spec

\* Who writes is alone
Alone == InsideWriting = {} \/ (InsideReading = {} /\ \E w : InsideWriting = {w})

\* Mutual exclusion, of every program: while a thread is inside to write, nobody else is
\* inside.
THEOREM WritesAlone == Spec => []Alone
<1>1. Init => Alone
  BY LocksStartOutside DEF Shared!Init, Alone, InsideWriting
<1>2. Alone /\ LocksInv /\ program \in Programs /\ [Next]_vars => Alone'
  BY LocksAccess DEF Alone, Access
<1> QED BY <1>1, <1>2, LocksAlways, PTL DEF Spec
=============================================================================
