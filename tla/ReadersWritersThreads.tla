----------------------- MODULE ReadersWritersThreads -----------------------
(***************************************************************************)
(* The threads main starts in the readers-writers programs and with the    *)
(* emulated sequence locks.                                                *)
(***************************************************************************)
EXTENDS Naturals, FiniteSets

CONSTANTS Readers, Writers,
          Messages   \* kMaxMessagesCount, what every writer writes

ASSUME MessagesAssumption == Messages \in Nat \ {0}
ASSUME ThreadsAssumption ==
  /\ IsFiniteSet(Readers) /\ IsFiniteSet(Writers) /\ Writers # {}
  /\ Readers \cap Writers = {}

Threads == Readers \cup Writers
=============================================================================
