--------------------------- MODULE Synchronization ---------------------------
(***************************************************************************)
(* What the programs take from the C++ library: std::counting_semaphore    *)
(* and std::binary_semaphore as a counter, std::condition_variable as the  *)
(* set of threads asleep on it.                                            *)
(***************************************************************************)
EXTENDS Integers, FiniteSets

\* A blocking acquire and a release, which lets any one of the waiters go on.
Acquire(s) == s > 0 /\ s' = s - 1
Release(s) == s' = s + 1

\* n calls of notify_one: each wakes one sleeper, any one, if there is any left.  It
\* leaves the set, and looks at its predicate again once it has the mutex.
Notify(asleep, n) ==
  \E woken \in SUBSET asleep :
    /\ Cardinality(woken) = n \/ (Cardinality(woken) < n /\ woken = asleep)
    /\ asleep' = asleep \ woken

NotifyAll(asleep) == asleep' = {}
=============================================================================
