-------------------------- MODULE LockFreeStacks --------------------------
(***************************************************************************)
(* The stacks of LockFree/, of which the first state picks one.  The       *)
(* hazard-pointer stack has variables the others lack.                     *)
(***************************************************************************)
EXTENDS StackThreads, TLC

VARIABLES kind, head, next, mine, returned, calls, pc,
          data, alive, id, pointer, retired, slot, temp, index, swept

reclaim == <<data, alive, id, pointer, retired, slot, temp, index, swept>>
vars == <<kind, head, next, mine, returned, calls, pc, reclaim>>

Counted == INSTANCE LockFreeStack
Hazard == INSTANCE HazardPointerStack

Init ==
  \/ kind = "hazard" /\ Hazard!Init
  \/ /\ Counted!Init
     /\ data = <<>> /\ alive = {} /\ id = <<>> /\ pointer = <<>> /\ retired = <<>>
     /\ slot = <<>> /\ temp = <<>> /\ index = <<>> /\ swept = <<>>

Thread(t) ==
  \/ kind = "hazard" /\ Hazard!Thread(t) /\ UNCHANGED kind
  \/ kind # "hazard" /\ Counted!Thread(t) /\ UNCHANGED reclaim

Join ==
  \/ kind = "hazard" /\ Hazard!Join /\ UNCHANGED kind
  \/ kind # "hazard" /\ Counted!Join /\ UNCHANGED reclaim

Next == (\E t \in Threads : Thread(t)) \/ Join

Spec == Init /\ [][Next]_vars

\* For TLC: new does not distinguish addresses, nor a stack the threads that pop.
Symmetry == Permutations(Nodes) \cup Permutations(Poppers)

-----------------------------------------------------------------------------
TypeOK ==
  /\ kind \in {"complete", "smart", "shared", "hazard"}
  /\ IF kind = "hazard" THEN Hazard!TypeOK ELSE Counted!TypeOK

\* HazardPointerStack/main.cpp:140 and :101: no node is deleted while another thread
\* has seen head point to it after its hazard pointer did, so what that thread reads
\* through oldHead is never freed memory, nor a new node at the same address.
NeverInUse == [][kind = "hazard" => Hazard!DeletesUnused]_vars

\* deleteUnusedNodes: when all threads have ended, every node that was not deleted is
\* in the stack or among the retired nodes, in one place; none is forgotten by two
\* sweeps that share the list between them.
NoLeak == kind = "hazard" => Hazard!Kept

\* push and pop of all four programs implement a stack: they take effect at their
\* successful CAS, no value is lost or popped twice, and what a pop returns was on
\* the top, whatever addresses are used again.
Abstract == INSTANCE Stack WITH
  stack <- IF kind = "hazard" THEN Hazard!Reach ELSE Counted!Reach,
  popped <- IF kind = "hazard" THEN Hazard!Popped ELSE Counted!Popped
Implements == Abstract!Spec
=============================================================================
