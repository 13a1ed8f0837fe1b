--------------------------- MODULE BufferThreads ---------------------------
(***************************************************************************)
(* The producers and consumers that main starts in the buffer programs.    *)
(***************************************************************************)
EXTENDS Integers, FiniteSets, Sequences

CONSTANTS Producers, Consumers,
          Items,   \* portions of each producer
          Size     \* of the buffer

ASSUME BufferThreadsAssumption ==
  /\ IsFiniteSet(Producers) /\ IsFiniteSet(Consumers) /\ Producers \cap Consumers = {}
ASSUME BufferBoundsAssumption == Items \in Nat \ {0} /\ Size \in Nat \ {0}

Threads == Producers \cup Consumers

\* What produce_next_portion returns: a different portion at each call.
Portion == Producers \X (1 .. Items)
AllPortions == Cardinality(Producers) * Items
=============================================================================
