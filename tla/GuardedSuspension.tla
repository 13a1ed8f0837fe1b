-------------------------- MODULE GuardedSuspension --------------------------
(***************************************************************************)
(* GuardedSuspension/bossWorker.cpp: each worker fulfils its promise when  *)
(* it is prepared and then waits for the boss, who waits for them one by   *)
(* one and fulfils the promise they share.                                 *)
(***************************************************************************)
EXTENDS Naturals

CONSTANT Crew   \* workers of the boss

VARIABLES prepared,    \* preparedWork of each worker is set
          startWork,   \* startWorkPromise is set
          started,     \* workers whose wait() has returned
          waited       \* what the boss has waited for; one more when it has joined all

vars == <<prepared, startWork, started, waited>>

Init == prepared = {} /\ startWork = FALSE /\ started = {} /\ waited = 0

\* preparedWork.set_value()
Prepare(w) ==
  /\ w \notin prepared /\ prepared' = prepared \cup {w}
  /\ UNCHANGED <<startWork, started, waited>>

\* boss2Worker.wait() returns; so does the worker.
Start(w) ==
  /\ w \in prepared /\ w \notin started /\ startWork
  /\ started' = started \cup {w}
  /\ UNCHANGED <<prepared, startWork, waited>>

Worker(w) == Prepare(w) \/ Start(w)

\* A boss who waits for any worker each time
WaitForSomeone ==
  /\ waited < Crew /\ prepared # {}
  /\ waited' = waited + 1
  /\ UNCHANGED <<prepared, startWork, started>>

\* waitForHerb.wait(), waitForScott.wait(), waitForBjarne.wait()
WaitForWorker ==
  /\ waited < Crew /\ waited + 1 \in prepared
  /\ waited' = waited + 1
  /\ UNCHANGED <<prepared, startWork, started>>

\* startWorkPromise.set_value()
StartWork ==
  /\ waited = Crew /\ ~startWork /\ startWork' = TRUE
  /\ UNCHANGED <<prepared, started, waited>>

\* the three joins
JoinWorkers ==
  /\ waited = Crew /\ startWork /\ started = 1 .. Crew
  /\ waited' = waited + 1
  /\ UNCHANGED <<prepared, startWork, started>>

Boss == WaitForWorker \/ StartWork \/ JoinWorkers

Next == (\E w \in 1 .. Crew : Worker(w)) \/ Boss

-----------------------------------------------------------------------------
TypeOK == /\ prepared \subseteq 1 .. Crew /\ started \subseteq 1 .. Crew
          /\ startWork \in BOOLEAN /\ waited \in 0 .. Crew + 1

Over == waited = Crew + 1
=============================================================================
