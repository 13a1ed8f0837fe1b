--------------------------- MODULE StackThreads ---------------------------
(***************************************************************************)
(* The threads main starts in the programs of LockFree/: some push, some   *)
(* pop.  The values they push are all different.                           *)
(***************************************************************************)
EXTENDS Naturals, FiniteSets, SequencesExt

CONSTANTS Pushers, Poppers,
          Calls,   \* of push or pop, by each thread
          Null,    \* nullptr
          Nodes,   \* addresses new can return
          MaxHazardPointers

ASSUME StackThreadsAssumption ==
  IsFiniteSet(Pushers) /\ IsFiniteSet(Poppers) /\ Pushers \cap Poppers = {}
ASSUME CallsAssumption == Calls \in Nat \ {0}

Threads == Pushers \cup Poppers
Value == Pushers \X (1 .. Calls)

\* There is memory for every push.
ASSUME NodesAssumption ==
  IsFiniteSet(Nodes) /\ Cardinality(Nodes) >= Cardinality(Value)
\* nullptr is none of them, and the id of no thread.
ASSUME NullAssumption == Null \notin Nodes \cup Value \cup Threads
ASSUME HazardPointersAssumption == MaxHazardPointers \in Nat \ {0}

\* s is the linked list that begins at first and ends at a nullptr.
IsList(s, first, link) ==
  IF s = <<>> THEN first = Null
  ELSE /\ first = s[1] /\ link[s[Len(s)]] = Null
       /\ \A k \in 1 .. Len(s) - 1 : link[s[k]] = s[k + 1]
\* That list; it holds every node once at most.
List(first, link) ==
  CHOOSE s \in SeqOf(DOMAIN link, Cardinality(DOMAIN link)) : IsList(s, first, link)
=============================================================================
