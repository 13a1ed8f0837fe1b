--------------------------- MODULE LockFreeStack ---------------------------
(***************************************************************************)
(* The stacks of LockFree/ whose nodes live as long as anybody can reach   *)
(* them: CompleteStack, which never deletes one (SimpleStack is its push), *)
(* and AtomicSmartPointerStack and AtomicSharedPointerStack, which count   *)
(* references.  The address of a node therefore never comes back, and a    *)
(* node is known by the value in it.                                       *)
(*                                                                         *)
(* The next pointer of a node does not change once it is pushed, so it is  *)
(* read together with the CAS that uses it.  A spurious failure of the     *)
(* weak CAS in AtomicSharedPointerStack changes nothing.                   *)
(***************************************************************************)
EXTENDS StackThreads

VARIABLES kind,      \* the program: "complete", "smart" or "shared"
          head,
          next,      \* of every node
          mine,      \* newNode, oldHead: the node each thread is at
          returned,  \* the values the pops returned
          calls,     \* calls each thread has completed
          pc         \* next step of each thread

vars == <<kind, head, next, mine, returned, calls, pc>>

Init ==
  /\ kind \in {"complete", "smart", "shared"}
  /\ head = Null /\ next = [v \in Value |-> Null]
  /\ mine = [t \in Threads |-> Null]
  /\ returned = {}
  /\ calls = [t \in Threads |-> 0]
  /\ pc = [t \in Threads |-> "load"]

Goto(t, to) == pc' = [pc EXCEPT ![t] = to]
\* The call ends.
Return(t) ==
  /\ calls' = [calls EXCEPT ![t] = @ + 1]
  /\ Goto(t, IF calls[t] + 1 < Calls THEN "load" ELSE "done")

\* push: a new node, its next pointer loaded from head
PushLoad(t) ==
  LET node == <<t, calls[t] + 1>>
  IN /\ pc[t] = "load" /\ Goto(t, "cas")
     /\ mine' = [mine EXCEPT ![t] = node]
     /\ next' = [next EXCEPT ![node] = head]
     /\ UNCHANGED <<kind, head, returned, calls>>

\* A push that stores the new head without a comparison.
PushStore(t) ==
  /\ pc[t] = "cas"
  /\ head' = mine[t] /\ Return(t)
  /\ UNCHANGED <<kind, next, mine, returned>>

\* The CAS of push; when it fails it loads the head into the next pointer.
PushCas(t) ==
  /\ pc[t] = "cas"
  /\ IF head = next[mine[t]] THEN head' = mine[t] /\ Return(t) /\ UNCHANGED next
     ELSE next' = [next EXCEPT ![mine[t]] = head] /\ UNCHANGED <<head, calls, pc>>
  /\ UNCHANGED <<kind, mine, returned>>

Pusher(t) == PushLoad(t) \/ PushCas(t)

-----------------------------------------------------------------------------
\* pop: the head loaded.  On an empty stack, topAndPop of CompleteStack and of
\* AtomicSmartPointerStack skips its loop and reads through the null pointer; pop of
\* AtomicSharedPointerStack returns nullopt, and main calls it again.
PopLoad(t) ==
  /\ pc[t] = "load"
  /\ mine' = [mine EXCEPT ![t] = head]
  /\ Goto(t, IF head # Null THEN "cas" ELSE IF kind = "shared" THEN "load" ELSE "crashed")
  /\ UNCHANGED <<kind, head, next, returned, calls>>

\* The CAS of pop; when it fails it loads the head, and topAndPop throws if that is
\* null.
PopCas(t) ==
  /\ pc[t] = "cas"
  /\ IF head = mine[t]
     THEN head' = next[mine[t]] /\ Goto(t, "return") /\ UNCHANGED <<mine, calls>>
     ELSE /\ mine' = [mine EXCEPT ![t] = head]
          /\ IF head # Null THEN UNCHANGED <<calls, pc>>
             ELSE IF kind = "shared" THEN Goto(t, "load") /\ UNCHANGED calls
             ELSE Return(t)
          /\ UNCHANGED head
  /\ UNCHANGED <<kind, next, returned>>

\* return oldHead->data
PopReturn(t) ==
  /\ pc[t] = "return" /\ Return(t)
  /\ returned' = returned \cup {mine[t]}
  /\ UNCHANGED <<kind, head, next, mine>>

Popper(t) == PopLoad(t) \/ PopCas(t) \/ PopReturn(t)

Thread(t) == (t \in Pushers /\ Pusher(t)) \/ (t \in Poppers /\ Popper(t))

\* main waits for all of them.
Finished == \A t \in Threads : pc[t] \in {"done", "crashed"}
Join == Finished /\ UNCHANGED vars

Next == (\E t \in Threads : Thread(t)) \/ Join

Spec == Init /\ [][Next]_vars

-----------------------------------------------------------------------------
TypeOK ==
  /\ kind \in {"complete", "smart", "shared"}
  /\ head \in Value \cup {Null}
  /\ next \in [Value -> Value \cup {Null}]
  /\ mine \in [Threads -> Value \cup {Null}]
  /\ returned \subseteq Value
  /\ calls \in [Threads -> 0 .. Calls]
  /\ pc \in [Threads -> {"load", "cas", "return", "done", "crashed"}]

\* The values from head on
Reach == List(head, next)
\* Values popped: returned, or about to be.
Popped == returned \cup {mine[t] : t \in {u \in Poppers : pc[u] = "return"}}
=============================================================================
