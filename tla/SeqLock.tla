------------------------------- MODULE SeqLock -------------------------------
(***************************************************************************)
(* The three real sequence locks of SeqLock/: seqlock_naive,               *)
(* seqlock_rigtorp and seqlock_spinlock.  A store makes the counter odd,   *)
(* copies the value, and makes the counter even again; a load copies the   *)
(* value and starts over unless it saw the same even counter before and    *)
(* after.  The plain copies race, so a word at a time is copied, in any    *)
(* order.  The k-th store writes k into every word.                        *)
(***************************************************************************)
EXTENDS Integers, FiniteSets

CONSTANTS Readers, Writers,
          Words,     \* the words of the shared value
          Wrap,      \* number of values of the counter (2^32 in the naive one)
          Stores     \* bound on the number of stores

ASSUME WordsAssumption == IsFiniteSet(Words) /\ Words # {}
ASSUME WrapAssumption == Wrap \in Nat /\ Wrap >= 4 /\ Wrap % 2 = 0
ASSUME StoresAssumption == Stores \in Nat
ASSUME WritersAssumption == Writers # {}

VARIABLES variant,       \* which of the three implementations runs
          mCounter,      \* mCounter, seq_, mFlags
          mSharedValue,
          mLock,         \* the writer holding the spin lock, as a set
          version,       \* history: number of the last store begun
          wpc,           \* next step of each writer's store
          seq0,          \* rigtorp: the writer's local of this name
          toWrite,       \* words the writer still has to copy
          rpc,           \* next step of each reader's load
          startFlag,     \* the counter the load started from
          copy,          \* the reader's local copy
          toRead,        \* words the reader still has to copy
          before,        \* history: the last store completed at the start
          lap            \* history: increments since startFlag, up to Wrap

writerVars == <<variant, mCounter, mSharedValue, mLock, version, wpc, seq0, toWrite>>
readerVars == <<rpc, startFlag, copy, toRead, before>>
seqVars == <<writerVars, readerVars, lap>>

\* Only seqlock_spinlock serialises its writers; the others are used by one.
TheWriter == CHOOSE w \in Writers : TRUE

SeqInit ==
  /\ variant \in {"naive", "rigtorp", "spinlock"}
  /\ mCounter = 0 /\ version = 0 /\ mLock = {}
  /\ mSharedValue = [x \in Words |-> 0]
  /\ wpc = [w \in Writers |-> "idle"]
  /\ seq0 = [w \in Writers |-> 0]
  /\ toWrite = [w \in Writers |-> {}]
  /\ rpc = [i \in Readers |-> "start"]
  /\ startFlag = [i \in Readers |-> 0]
  /\ copy = [i \in Readers |-> [x \in Words |-> 0]]
  /\ toRead = [i \in Readers |-> {}]
  /\ before = [i \in Readers |-> 0]
  /\ lap = [i \in Readers |-> 0]

Inc(c) == IF c + 1 = Wrap THEN 0 ELSE c + 1
Odd(c) == c % 2 = 1
Writing == \E w \in Writers : wpc[w] = "write"
\* The last store completed.
Completed == IF Writing THEN version - 1 ELSE version

\* The counter moves on by one, for every load under way.
Count ==
  lap' = [i \in Readers |->
            IF rpc[i] \in {"copy", "check"} /\ lap[i] < Wrap THEN lap[i] + 1 ELSE lap[i]]

-----------------------------------------------------------------------------
\* A client that stores once too often.
MayStoreOnceMore == version <= Stores

\* The clients' bounded number of stores.
MayStore == version < Stores

\* Entry of store: mLock.lock() (spinlock), seq0 = seq_.load() (rigtorp).
StoreEnter(w) ==
  /\ wpc[w] = "idle" /\ MayStore
  /\ variant # "spinlock" => w = TheWriter
  /\ IF variant = "spinlock" THEN mLock = {} /\ mLock' = {w} ELSE UNCHANGED mLock
  /\ seq0' = IF variant = "rigtorp" THEN [seq0 EXCEPT ![w] = mCounter] ELSE seq0
  /\ wpc' = [wpc EXCEPT ![w] = "begin"]
  /\ UNCHANGED <<variant, mCounter, mSharedValue, version, toWrite, readerVars, lap>>

\* The counter becomes odd.
StoreBegin(w) ==
  /\ wpc[w] = "begin"
  /\ mCounter' = Inc(IF variant = "rigtorp" THEN seq0[w] ELSE mCounter)
  /\ Count
  /\ version' = version + 1
  /\ toWrite' = [toWrite EXCEPT ![w] = Words]
  /\ wpc' = [wpc EXCEPT ![w] = "write"]
  /\ UNCHANGED <<variant, mSharedValue, mLock, seq0, readerVars>>

\* mSharedValue = aValue, one word of it.
StoreWord(w) ==
  /\ wpc[w] = "write"
  /\ \E x \in toWrite[w] :
       /\ mSharedValue' = [mSharedValue EXCEPT ![x] = version]
       /\ toWrite' = [toWrite EXCEPT ![w] = @ \ {x}]
  /\ UNCHANGED <<variant, mCounter, mLock, version, wpc, seq0, readerVars, lap>>

\* The counter becomes even.
StoreEnd(w) ==
  /\ wpc[w] = "write" /\ toWrite[w] = {}
  /\ mCounter' = IF variant = "rigtorp" THEN Inc(Inc(seq0[w])) ELSE Inc(mCounter)
  /\ Count
  /\ wpc' = [wpc EXCEPT ![w] = IF variant = "spinlock" THEN "unlock" ELSE "idle"]
  /\ UNCHANGED <<variant, mSharedValue, mLock, version, seq0, toWrite, readerVars>>

\* write_unlock's mLock.unlock()
StoreUnlock(w) ==
  /\ wpc[w] = "unlock"
  /\ mLock' = {}
  /\ wpc' = [wpc EXCEPT ![w] = "idle"]
  /\ UNCHANGED <<variant, mCounter, mSharedValue, version, seq0, toWrite, readerVars, lap>>

Store(w) ==
  StoreEnter(w) \/ StoreBegin(w) \/ StoreWord(w) \/ StoreEnd(w) \/ StoreUnlock(w)

-----------------------------------------------------------------------------
\* The first read of the counter (naive: 14, rigtorp: 58, spinlock: read_enter).
\* An odd counter sends the loads of seqlock_naive and seqlock_spinlock back;
\* the load of rigtorp goes on and tests it at the end.
LoadStart(i) ==
  /\ rpc[i] \in {"start", "done"}
  /\ startFlag' = [startFlag EXCEPT ![i] = mCounter]
  /\ rpc' = [rpc EXCEPT ![i] =
               IF Odd(mCounter) /\ variant # "rigtorp" THEN "start" ELSE "copy"]
  /\ toRead' = [toRead EXCEPT ![i] = Words]
  /\ before' = [before EXCEPT ![i] = Completed]
  /\ lap' = [lap EXCEPT ![i] = 0]
  /\ UNCHANGED <<writerVars, copy>>

\* copy = mSharedValue, one word of it.
LoadWord(i) ==
  /\ rpc[i] = "copy"
  /\ \E x \in toRead[i] :
       /\ copy' = [copy EXCEPT ![i][x] = mSharedValue[x]]
       /\ toRead' = [toRead EXCEPT ![i] = @ \ {x}]
       /\ rpc' = [rpc EXCEPT ![i] = IF toRead[i] = {x} THEN "check" ELSE "copy"]
  /\ UNCHANGED <<writerVars, startFlag, before, lap>>

\* A test that forgets the odd counter, and one with the parity the wrong way round.
ChangedOnly(i) == mCounter # startFlag[i]
ChangedEven(i) == mCounter # startFlag[i] \/ ~Odd(startFlag[i])

\* startFlag == endFlag, of the same even counter
Changed(i) == mCounter # startFlag[i] \/ Odd(startFlag[i])

\* The second read of the counter; a difference starts the load again.
LoadCheck(i) ==
  /\ rpc[i] = "check"
  /\ rpc' = [rpc EXCEPT ![i] = IF Changed(i) THEN "start" ELSE "done"]
  /\ UNCHANGED <<writerVars, startFlag, copy, toRead, before, lap>>

Load(i) == LoadStart(i) \/ LoadWord(i) \/ LoadCheck(i)

SeqNext == (\E w \in Writers : Store(w)) \/ (\E i \in Readers : Load(i))

\* The threads keep being scheduled.
SeqFairness ==
  /\ \A w \in Writers : WF_seqVars(Store(w))
  /\ \A i \in Readers : WF_seqVars(Load(i))

SeqSpec == SeqInit /\ [][SeqNext]_seqVars /\ SeqFairness

-----------------------------------------------------------------------------
SeqTypeOK ==
  /\ variant \in {"naive", "rigtorp", "spinlock"}
  /\ mCounter \in 0 .. Wrap - 1 /\ version \in 0 .. Stores
  /\ mSharedValue \in [Words -> 0 .. Stores]
  /\ mLock \in SUBSET Writers
  /\ wpc \in [Writers -> {"idle", "begin", "write", "unlock"}]
  /\ seq0 \in [Writers -> 0 .. Wrap - 1]
  /\ toWrite \in [Writers -> SUBSET Words]
  /\ rpc \in [Readers -> {"start", "copy", "check", "done"}]
  /\ startFlag \in [Readers -> 0 .. Wrap - 1]
  /\ copy \in [Readers -> [Words -> 0 .. Stores]]
  /\ toRead \in [Readers -> SUBSET Words]
  /\ before \in [Readers -> 0 .. Stores]
  /\ lap \in [Readers -> 0 .. Wrap]

\* What test.cpp checks of every load: it returns one stored value, all words of
\* the same store, and none that was already overwritten when the load began.
\* The one exception is a load during which the counter went once round, which
\* takes 2^31 stores of seqlock_naive.
Untorn ==
  \A i \in Readers :
    rpc[i] = "done" /\ lap[i] < Wrap =>
      \E v \in before[i] .. version : \A x \in Words : copy[i][x] = v

\* A load returns once the writers pause: finitely many stores cannot keep a
\* reader retrying.
LoadReturns == \A i \in Readers : rpc[i] # "done" ~> rpc[i] = "done"

-----------------------------------------------------------------------------
Busy(w) == wpc[w] # "idle"

\* One writer at a time; the parity of the counter says whether it is copying,
\* and a word it has copied holds its version.
WriterInv ==
  /\ \A v, w \in Writers : Busy(v) /\ Busy(w) => v = w
  /\ variant = "spinlock" => \A w \in Writers : Busy(w) <=> mLock = {w}
  /\ Odd(mCounter) <=> Writing
  /\ ~Writing => \A x \in Words : mSharedValue[x] = version
  /\ \A w \in Writers :
       /\ variant # "spinlock" /\ Busy(w) => w = TheWriter
       /\ wpc[w] = "begin" => version < Stores
       /\ wpc[w] = "write" =>
            version > 0 /\ \A x \in Words \ toWrite[w] : mSharedValue[x] = version
       /\ variant = "rigtorp" =>
            /\ wpc[w] = "begin" => seq0[w] = mCounter
            /\ wpc[w] = "write" => Inc(seq0[w]) = mCounter

\* The counter n increments after it was c.
After(c, n) == IF c + n < Wrap THEN c + n ELSE c + n - Wrap

\* As long as the counter has not moved, what a load has copied is the current
\* value; as long as it has not come round, the load can tell that it moved.
ReaderInv ==
  \A i \in Readers : rpc[i] \in {"copy", "check"} =>
    /\ rpc[i] = "check" => toRead[i] = {}
    /\ before[i] <= version
    /\ lap[i] < Wrap => mCounter = After(startFlag[i], lap[i])
    /\ lap[i] = 0 /\ ~Odd(startFlag[i]) =>
         \A x \in Words \ toRead[i] : copy[i][x] = version

SeqInv == WriterInv /\ ReaderInv /\ Untorn
=============================================================================
