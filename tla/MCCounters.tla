----------------------------- MODULE MCCounters -----------------------------
(***************************************************************************)
(* MPSCQueue and SeqLock for TLC, as one model: the first state picks one  *)
(* of the two, and the variables of the other stay as they are.            *)
(***************************************************************************)
EXTENDS MPSCQueue, SeqLock

VARIABLE program

MCInit ==
  /\ program \in {"mpsc", "seqlock"} /\ Init /\ SeqInit
  /\ program = "mpsc" => variant = "naive"

MCNext ==
  \/ program = "mpsc" /\ Next /\ UNCHANGED <<program, seqVars>>
  \/ program = "seqlock" /\ SeqNext /\ UNCHANGED <<program, vars>>

\* The fairness of the one that runs
MCSpec ==
  /\ MCInit /\ [][MCNext]_<<program, vars, seqVars>>
  /\ program = "mpsc" => Fairness
  /\ program = "seqlock" => SeqFairness

\* Every push that returned true is one pop: no producer waits for ever for its
\* commit, and the consumer takes as many messages as were pushed.
PushedArePopped == program = "mpsc" => AllPopped

\* A load returns once the writers pause: finitely many stores cannot keep a reader
\* retrying.
LoadsReturn == program = "seqlock" => LoadReturns
=============================================================================
