-------------------------- MODULE SeqLockEmulators --------------------------
(***************************************************************************)
(* SeqLock/seqlock_emulator, seqlock_mutex_emulator and                    *)
(* seqlock_posix_emulator: the interface of the sequence locks over a lock *)
(* the readers share (std::shared_mutex, pthread_rwlock_t) or do not       *)
(* (std::mutex).  One thread stores two values; every reader loads until   *)
(* it has the second one or main, after it joined the writer, tells it to  *)
(* stop.  The k-th store writes k into the three words, one by one.        *)
(***************************************************************************)
EXTENDS Integers, Sequences, ReadersWritersThreads

VARIABLES program,
          mSharedMutex,   \* the threads that hold the lock
          mSharedValue,
          copy,           \* each reader's local of this name
          word,           \* the word each thread copies next
          written,        \* stores each writer has completed
          exitFlag,
          pc              \* next step of each thread

vars == <<program, mSharedMutex, mSharedValue, copy, word, written, exitFlag, pc>>

EmulatorPrograms == {"shared_mutex", "mutex", "rwlock"}

\* {3, 2, 1} and {100, 200, 300}
Stores == 2
ThreeWords(k) == <<k, k, k>>

\* main starts one writer.
Storer == CHOOSE w \in Writers : TRUE

Init ==
  /\ program \in EmulatorPrograms
  /\ mSharedMutex = {} /\ mSharedValue = ThreeWords(0) /\ exitFlag = FALSE
  /\ copy = [t \in Readers |-> ThreeWords(0)]
  /\ word = [t \in Threads |-> 1] /\ written = [w \in Writers |-> 0]
  /\ pc = [t \in Threads |-> IF t \in Readers THEN "test" ELSE "store"]

Move(t, from, to) == pc[t] = from /\ pc' = [pc EXCEPT ![t] = to]

\* Both return with the lock held; shared_lock and rdlock admit further readers.
LockShared(t) ==
  /\ IF program = "mutex" THEN mSharedMutex = {} ELSE mSharedMutex \cap Writers = {}
  /\ mSharedMutex' = mSharedMutex \cup {t}
Lock(t) == mSharedMutex = {} /\ mSharedMutex' = {t}
Unlock(t) == mSharedMutex' = mSharedMutex \ {t}

\* The word after this one, and the step after the last.
NextWord(t, from, to) ==
  /\ Move(t, from, IF word[t] = 3 THEN to ELSE from)
  /\ word' = [word EXCEPT ![t] = IF @ = 3 THEN 1 ELSE @ + 1]

-----------------------------------------------------------------------------
\* reader: for (; !exitFlag;)
Test(t) ==
  /\ Move(t, "test", IF exitFlag THEN "done" ELSE "lock")
  /\ UNCHANGED <<program, mSharedMutex, mSharedValue, copy, word, written, exitFlag>>

\* A load that does not lock
LoadUnlocked(t) ==
  /\ Move(t, "lock", "copy")
  /\ UNCHANGED <<program, mSharedMutex, mSharedValue, copy, word, written, exitFlag>>

\* load: the lock
LoadLock(t) ==
  /\ Move(t, "lock", "copy") /\ LockShared(t)
  /\ UNCHANGED <<program, mSharedValue, copy, word, written, exitFlag>>

\* copy = mSharedValue
LoadCopy(t) ==
  /\ NextWord(t, "copy", "unlock")
  /\ copy' = [copy EXCEPT ![t][word[t]] = mSharedValue[word[t]]]
  /\ UNCHANGED <<program, mSharedMutex, mSharedValue, written, exitFlag>>

\* The unlock; the reader then tests the value it has, which only the second store's is.
LoadUnlock(t) ==
  /\ Move(t, "unlock", IF copy[t] = ThreeWords(Stores) THEN "done" ELSE "test") /\ Unlock(t)
  /\ UNCHANGED <<program, mSharedValue, copy, word, written, exitFlag>>

Reader(t) == Test(t) \/ LoadLock(t) \/ LoadCopy(t) \/ LoadUnlock(t)

-----------------------------------------------------------------------------
\* store: the lock
StoreLock(w) ==
  /\ written[w] < Stores /\ Move(w, "store", "copy") /\ Lock(w)
  /\ UNCHANGED <<program, mSharedValue, copy, word, written, exitFlag>>

\* mSharedValue = aValue
StoreCopy(w) ==
  /\ NextWord(w, "copy", "unlock")
  /\ mSharedValue' = [mSharedValue EXCEPT ![word[w]] = written[w] + 1]
  /\ UNCHANGED <<program, mSharedMutex, copy, written, exitFlag>>

StoreUnlock(w) ==
  /\ Move(w, "unlock", "store") /\ Unlock(w)
  /\ written' = [written EXCEPT ![w] = @ + 1]
  /\ UNCHANGED <<program, mSharedValue, copy, word, exitFlag>>

Writer(w) == StoreLock(w) \/ StoreCopy(w) \/ StoreUnlock(w)

\* main: writerThread.join(); exitFlag = true
SetExit ==
  /\ ~exitFlag /\ pc[Storer] = "store" /\ written[Storer] = Stores /\ exitFlag' = TRUE
  /\ UNCHANGED <<program, mSharedMutex, mSharedValue, copy, word, written, pc>>

Thread(t) == (t = Storer /\ Writer(t)) \/ (t \in Readers /\ Reader(t))

\* main has the results of the readers.
Finished == exitFlag /\ \A t \in Readers : pc[t] = "done"
Join == Finished /\ UNCHANGED vars

Next == (\E t \in Threads : Thread(t)) \/ SetExit \/ Join

-----------------------------------------------------------------------------
TypeOK ==
  /\ mSharedMutex \subseteq Threads /\ exitFlag \in BOOLEAN
  /\ mSharedValue \in [1 .. 3 -> 0 .. Stores]
  /\ copy \in [Readers -> [1 .. 3 -> 0 .. Stores]]
  /\ word \in [Threads -> 1 .. 3] /\ written \in [Writers -> 0 .. Stores]
  /\ pc \in [Threads -> {"test", "lock", "copy", "store", "unlock", "done"}]

\* Threads that own the lock
Owning == {t \in Threads : pc[t] \in {"copy", "unlock"}}
Reading == Owning \cap Readers
Writing == Owning \cap Writers

\* A value that a load is about to return is the last one stored, and whole.
Current ==
  \A t \in Readers : pc[t] = "unlock" => copy[t] = ThreeWords(written[Storer])

\* The readers keep the lock between them while the writer waits for it.
WriterStarved ==
  pc[Storer] = "store" /\ written[Storer] < Stores /\ Cardinality(Reading) > 1

Ended == Finished /\ mSharedMutex = {}
=============================================================================
