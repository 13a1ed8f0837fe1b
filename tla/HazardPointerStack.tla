------------------------ MODULE HazardPointerStack ------------------------
(***************************************************************************)
(* LockFree/HazardPointerStack/main.cpp: a stack that deletes its nodes.   *)
(* A deleted node's address may come back from new at once, so nodes are   *)
(* addresses here, and the values are kept in data.  A popper announces    *)
(* the node it is about to follow in its hazard pointer; who pops a node   *)
(* looks through all of them and deletes it, or retires it for a later     *)
(* pop to delete.                                                          *)
(*                                                                         *)
(* One action is one access to shared memory.  Prepending to the list of   *)
(* retired nodes is one action: its CAS loop reads nothing of the list but *)
(* the pointer it compares.                                                *)
(***************************************************************************)
EXTENDS StackThreads

VARIABLES head,
          next, data,  \* of every node
          alive,       \* nodes allocated and not deleted
          id,          \* owner of every hazard pointer
          pointer,     \* what it protects
          retired,     \* RetiredNodes
          slot,        \* hazard: the pointer each thread owns
          mine,        \* newMyNode, oldHead
          temp,        \* tempMyNode, then oldHead->next
          index,       \* i of the loops over the hazard pointers
          swept,       \* from current on: what is left of deleteUnusedNodes
          returned,    \* the values the pops returned
          calls,       \* calls each thread has completed
          pc           \* next step of each thread

nodes == <<head, next, data, alive>>
hazards == <<id, pointer, slot>>
locals == <<mine, temp, index, swept, returned, calls>>
vars == <<nodes, hazards, retired, locals, pc>>

HazardPointers == DOMAIN pointer

\* The table has MaxHazardPointers entries or fewer, so that it can run out.
Init ==
  /\ head = Null /\ alive = {} /\ retired = <<>> /\ returned = {}
  /\ next = [n \in Nodes |-> Null] /\ data = [n \in Nodes |-> Null]
  /\ \E m \in 1 .. MaxHazardPointers :
       id = [k \in 1 .. m |-> Null] /\ pointer = [k \in 1 .. m |-> Null]
  /\ slot = [t \in Threads |-> 0] /\ index = [t \in Threads |-> 1]
  /\ mine = [t \in Threads |-> Null] /\ temp = [t \in Threads |-> Null]
  /\ swept = [t \in Threads |-> <<>>]
  /\ calls = [t \in Threads |-> 0]
  /\ pc = [t \in Threads |-> IF t \in Pushers THEN "load" ELSE "claim"]

Goto(t, to) == pc' = [pc EXCEPT ![t] = to]
Set(f, t, value) == [f EXCEPT ![t] = value]

\* The call ends; a popper's next call finds its hazard pointer claimed.
Return(t) ==
  /\ calls' = Set(calls, t, calls[t] + 1)
  /\ Goto(t, IF calls[t] + 1 < Calls THEN IF t \in Pushers \/ slot[t] # 0 THEN "load" ELSE "claim"
             ELSE IF t \in Pushers THEN "done" ELSE "exit")

-----------------------------------------------------------------------------
\* push: a node from new, at any address that is free, and its next pointer
PushLoad(t) ==
  /\ pc[t] = "load" /\ Goto(t, "cas")
  /\ \E n \in Nodes \ alive :
       /\ alive' = alive \cup {n} /\ mine' = Set(mine, t, n)
       /\ data' = Set(data, n, <<t, calls[t] + 1>>) /\ next' = Set(next, n, head)
  /\ UNCHANGED <<head, hazards, retired, temp, index, swept, returned, calls>>

\* A push that stores the new head without a comparison.
PushStore(t) ==
  /\ pc[t] = "cas" /\ head' = mine[t] /\ Return(t)
  /\ UNCHANGED <<next, data, alive, hazards, retired, mine, temp, index, swept, returned>>

PushCas(t) ==
  /\ pc[t] = "cas"
  /\ IF head = next[mine[t]] THEN head' = mine[t] /\ Return(t) /\ UNCHANGED next
     ELSE next' = Set(next, mine[t], head) /\ UNCHANGED <<head, calls, pc>>
  /\ UNCHANGED <<data, alive, hazards, retired, mine, temp, index, swept, returned>>

-----------------------------------------------------------------------------
\* HazardPointerOwner: the CAS on one entry, which is claimed if it has no owner; if
\* the last one has one, the constructor throws.
ClaimOne(t, last) ==
  LET free == id[index[t]] = Null
  IN /\ pc[t] = "claim"
     /\ IF free THEN /\ id' = Set(id, index[t], t) /\ slot' = Set(slot, t, index[t])
                     /\ Goto(t, "load") /\ UNCHANGED calls
        ELSE /\ UNCHANGED <<id, slot>>
             /\ IF last THEN Return(t) ELSE UNCHANGED <<calls, pc>>
     /\ index' = Set(index, t, IF free \/ last THEN 1 ELSE index[t] + 1)
     /\ UNCHANGED <<nodes, pointer, retired, mine, temp, swept, returned>>

\* A search that goes one entry too far.
ClaimBeyond(t) == ClaimOne(t, index[t] > Len(pointer))

Claim(t) == ClaimOne(t, index[t] = Len(pointer))

\* oldHead = head.load(), before the loop
PopLoad(t) ==
  /\ pc[t] = "load" /\ Goto(t, "publish")
  /\ mine' = Set(mine, t, head)
  /\ UNCHANGED <<nodes, hazards, retired, temp, index, swept, returned, calls>>

\* hazardPointer.store(oldHead)
Publish(t) ==
  /\ pc[t] = "publish" /\ Goto(t, "reload")
  /\ temp' = Set(temp, t, mine[t])
  /\ pointer' = Set(pointer, slot[t], mine[t])
  /\ UNCHANGED <<nodes, id, slot, retired, mine, index, swept, returned, calls>>

\* A pop that trusts the hazard pointer without looking at head again.
ReloadNothing(t) ==
  /\ pc[t] = "reload"
  /\ IF mine[t] = Null THEN Return(t) ELSE Goto(t, "next") /\ UNCHANGED calls
  /\ UNCHANGED <<nodes, hazards, retired, mine, temp, index, swept, returned>>

\* oldHead = head.load(): once more if it changed; throws if the stack is empty.
Reload(t) ==
  /\ pc[t] = "reload"
  /\ mine' = Set(mine, t, head)
  /\ IF head # temp[t] THEN Goto(t, "publish") /\ UNCHANGED calls
     ELSE IF head = Null THEN Return(t)
     ELSE Goto(t, "next") /\ UNCHANGED calls
  /\ UNCHANGED <<nodes, hazards, retired, temp, index, swept, returned>>

\* oldHead->next, the CAS's argument
ReadNext(t) ==
  /\ pc[t] = "next" /\ Goto(t, "cas")
  /\ temp' = Set(temp, t, next[mine[t]])
  /\ UNCHANGED <<nodes, hazards, retired, mine, index, swept, returned, calls>>

PopCas(t) ==
  /\ pc[t] = "cas"
  /\ IF head = mine[t] THEN head' = temp[t] /\ Goto(t, "clear") /\ UNCHANGED mine
     ELSE mine' = Set(mine, t, head) /\ Goto(t, "publish") /\ UNCHANGED head
  /\ UNCHANGED <<next, data, alive, hazards, retired, temp, index, swept, returned, calls>>

\* hazardPointer.store(nullptr)
Clear(t) ==
  /\ pc[t] = "clear" /\ Goto(t, "data")
  /\ pointer' = Set(pointer, slot[t], Null)
  /\ UNCHANGED <<nodes, id, slot, retired, locals>>

\* res = oldHead->data; then the search of isInUse begins.
ReadData(t) ==
  /\ pc[t] = "data" /\ Goto(t, "scan")
  /\ returned' = returned \cup {data[mine[t]]}
  /\ UNCHANGED <<nodes, hazards, retired, mine, temp, index, swept, calls>>

-----------------------------------------------------------------------------
\* One entry of the table in isInUse(node).
Hit(t, node) == pointer[index[t]] = node
Searched(t) == index[t] = Len(pointer)
NextIndex(t, node) == Set(index, t, IF Hit(t, node) \/ Searched(t) THEN 1 ELSE index[t] + 1)

\* topAndPop: the popped node is retired if it is in use, and deleted if not.
Scan(t) ==
  /\ pc[t] = "scan"
  /\ index' = NextIndex(t, mine[t])
  /\ retired' = IF Hit(t, mine[t]) THEN <<mine[t]>> \o retired ELSE retired
  /\ alive' = IF Searched(t) /\ ~Hit(t, mine[t]) THEN alive \ {mine[t]} ELSE alive
  /\ Goto(t, IF Searched(t) \/ Hit(t, mine[t]) THEN "exchange" ELSE "scan")
  /\ UNCHANGED <<head, next, data, hazards, mine, temp, swept, returned, calls>>

\* deleteUnusedNodes: RetiredNodes.exchange(nullptr)
Exchange(t) ==
  /\ pc[t] = "exchange"
  /\ swept' = Set(swept, t, retired) /\ retired' = <<>>
  /\ IF retired = <<>> THEN Return(t) ELSE Goto(t, "sweep") /\ UNCHANGED calls
  /\ UNCHANGED <<nodes, hazards, mine, temp, index, returned>>

\* One entry of the table for the node at current; list is RetiredNodes afterwards.
SweepOne(t, list) ==
  LET node == Head(swept[t])
      decided == Hit(t, node) \/ Searched(t)
  IN /\ pc[t] = "sweep"
     /\ index' = NextIndex(t, node)
     /\ retired' = list
     /\ alive' = IF decided /\ ~Hit(t, node) THEN alive \ {node} ELSE alive
     /\ swept' = IF decided THEN Set(swept, t, Tail(swept[t])) ELSE swept
     /\ IF decided /\ Len(swept[t]) = 1 THEN Return(t) ELSE UNCHANGED <<calls, pc>>
     /\ UNCHANGED <<head, next, data, hazards, mine, temp, returned>>

\* A sweep that forgets the nodes still in use.
SweepDrops(t) == SweepOne(t, retired)

\* A node in use is retired again.
Sweep(t) ==
  SweepOne(t, IF pc[t] = "sweep" /\ Hit(t, Head(swept[t]))
              THEN <<Head(swept[t])>> \o retired ELSE retired)

\* ~HazardPointerOwner, when the thread ends
Exit(t) ==
  /\ pc[t] = "exit" /\ Goto(t, "done")
  /\ IF slot[t] = 0 THEN UNCHANGED hazards
     ELSE /\ pointer' = Set(pointer, slot[t], Null) /\ id' = Set(id, slot[t], Null)
          /\ slot' = Set(slot, t, 0)
  /\ UNCHANGED <<nodes, retired, locals>>

-----------------------------------------------------------------------------
Pusher(t) == PushLoad(t) \/ PushCas(t)
Popper(t) == \/ Claim(t) \/ PopLoad(t) \/ Publish(t) \/ Reload(t) \/ ReadNext(t)
             \/ PopCas(t) \/ Clear(t) \/ ReadData(t) \/ Scan(t) \/ Exchange(t)
             \/ Sweep(t) \/ Exit(t)

Thread(t) == (t \in Pushers /\ Pusher(t)) \/ (t \in Poppers /\ Popper(t))

\* main waits for all of them.
Finished == \A t \in Threads : pc[t] = "done"
Join == Finished /\ UNCHANGED vars

Next == (\E t \in Threads : Thread(t)) \/ Join

Spec == Init /\ [][Next]_vars

-----------------------------------------------------------------------------
TypeOK ==
  /\ head \in Nodes \cup {Null} /\ alive \subseteq Nodes
  /\ next \in [Nodes -> Nodes \cup {Null}] /\ data \in [Nodes -> Value \cup {Null}]
  /\ id \in [HazardPointers -> Poppers \cup {Null}]
  /\ pointer \in [HazardPointers -> Nodes \cup {Null}]
  /\ retired \in Seq(Nodes) /\ swept \in [Threads -> Seq(Nodes)]
  /\ slot \in [Threads -> {0} \cup HazardPointers]
  /\ mine \in [Threads -> Nodes \cup {Null}] /\ temp \in [Threads -> Nodes \cup {Null}]
  /\ index \in [Threads -> HazardPointers]
  /\ returned \subseteq Value
  /\ calls \in [Threads -> 0 .. Calls]
  /\ pc \in [Threads -> {"claim", "load", "publish", "reload", "next", "cas", "clear",
                         "data", "scan", "exchange", "sweep", "exit", "done"}]

\* The nodes from head on, and the values in them
Chain == List(head, next)
Reach == LET chain == Chain IN [k \in DOMAIN chain |-> data[chain[k]]]
\* Values popped: read, or about to be.
Popped == returned \cup
          {data[mine[t]] : t \in {u \in Poppers : pc[u] \in {"clear", "data"}}}

\* The node a popper is sure of: it has seen head point to it after its hazard
\* pointer did, and may follow it, or has it for itself.
Trusts(t, n) == /\ t \in Poppers /\ mine[t] = n
                /\ pc[t] \in {"next", "cas", "clear", "data", "scan"}
\* A step that deletes a node nobody else trusts.
DeletesUnused ==
  \A n \in alive \ alive' : \A t \in Threads : ~Trusts(t, n)'
\* Once all have finished, every node is in the stack or waits among the retired.
Kept == Finished => /\ alive = Range(Chain) \cup Range(retired)
                    /\ IsInjective(Chain \o retired)
=============================================================================
