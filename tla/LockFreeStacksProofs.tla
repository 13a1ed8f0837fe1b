------------------------ MODULE LockFreeStacksProofs ------------------------
(***************************************************************************)
(* The stacks of LockFree/, for any number of threads, calls, addresses    *)
(* and hazard pointers: all four keep their types and implement a stack;   *)
(* the one with hazard pointers never deletes a node that somebody may     *)
(* still follow, and loses none.                                           *)
(***************************************************************************)
EXTENDS LockFreeStacks, Integers, FiniteSetTheorems, SequenceTheorems, TLAPS

\* The threads and values of the modules that Counted and Hazard instantiate
LEMMA SameThreads ==
  /\ Counted!Threads = Threads /\ Counted!Value = Value
  /\ Hazard!Threads = Threads /\ Hazard!Value = Value
  BY DEF Counted!Threads, Counted!Value, Hazard!Threads, Hazard!Value, Threads, Value

(***************************************************************************)
(* CompleteStack, AtomicSmartPointerStack and AtomicSharedPointerStack.    *)
(***************************************************************************)
CountedInv ==
  /\ Counted!TypeOK
  /\ \A t \in Threads : pc[t] \in {"cas", "return"} => mine[t] \in Value
  /\ \A t \in Threads : pc[t] \notin {"done", "crashed"} => calls[t] < Calls

LEMMA CountedReturn ==
  ASSUME CountedInv, NEW t \in Threads, pc[t] \notin {"done", "crashed"}, Counted!Return(t)
  PROVE  /\ calls' \in [Threads -> 0 .. Calls]
         /\ pc' \in [Threads -> {"load", "cas", "return", "done", "crashed"}]
         /\ pc'[t] \in {"load", "done"} /\ (pc'[t] = "load" => calls'[t] < Calls)
         /\ \A u \in Threads : u # t => pc'[u] = pc[u] /\ calls'[u] = calls[u]
  BY SameThreads, CallsAssumption DEF CountedInv, Counted!TypeOK, Counted!Return, Counted!Goto

LEMMA CountedStep ==
  ASSUME CountedInv, NEW t \in Threads, Counted!Thread(t)
  PROVE  CountedInv'
<1> USE SameThreads, CallsAssumption DEF CountedInv, Counted!TypeOK, Counted!Goto
<1>1. CASE t \in Pushers /\ Counted!PushLoad(t)
  <2>1. <<t, calls[t] + 1>> \in Value
    BY <1>1 DEF Counted!PushLoad, Value
  <2> HIDE DEF Value
  <2> QED BY <1>1, <2>1 DEF Counted!PushLoad
<1>2. CASE Counted!PushCas(t)
  <2>1. CASE head = next[mine[t]]
    BY <1>2, <2>1, CountedReturn DEF Counted!PushCas
  <2>2. CASE head # next[mine[t]]
    BY <1>2, <2>2 DEF Counted!PushCas
  <2> QED BY <2>1, <2>2
<1>3. CASE Counted!PopLoad(t)
  BY <1>3 DEF Counted!PopLoad
<1>4. CASE Counted!PopCas(t)
  <2>1. CASE Counted!Return(t)
    BY <1>4, <2>1, CountedReturn DEF Counted!PopCas
  <2>2. CASE ~Counted!Return(t)
    BY <1>4, <2>2 DEF Counted!PopCas
  <2> QED BY <2>1, <2>2
<1>5. CASE Counted!PopReturn(t)
  BY <1>5, CountedReturn DEF Counted!PopReturn
<1> QED BY <1>1, <1>2, <1>3, <1>4, <1>5 DEF Counted!Thread, Counted!Pusher, Counted!Popper

-----------------------------------------------------------------------------
(***************************************************************************)
(* HazardPointerStack.  Its lists of nodes:                                *)
(***************************************************************************)
In(q, n) == \E i \in 1 .. Len(q) : q[i] = n
Distinct(q) == \A i, j \in 1 .. Len(q) : q[i] = q[j] => i = j

LEMMA EmptyList == (\A n : ~In(<<>>, n)) /\ Distinct(<<>>)
  BY DEF In, Distinct

LEMMA Prepended ==
  ASSUME NEW S, NEW q \in Seq(S), NEW x \in S
  PROVE  /\ <<x>> \o q \in Seq(S)
         /\ \A n : In(<<x>> \o q, n) <=> n = x \/ In(q, n)
         /\ Distinct(q) /\ ~In(q, x) => Distinct(<<x>> \o q)
<1> DEFINE s == <<x>> \o q
<1>1. /\ s \in Seq(S) /\ Len(s) = Len(q) + 1 /\ s[1] = x /\ Len(q) \in Nat
      /\ \A i \in 1 .. Len(q) : s[i + 1] = q[i]
  OBVIOUS
<1> HIDE DEF s
<1>2. \A i \in 1 .. Len(s) : i = 1 \/ (i - 1 \in 1 .. Len(q) /\ s[i] = q[i - 1])
  BY <1>1
<1>3. \A i \in 1 .. Len(q) : i + 1 \in 1 .. Len(s)
  BY <1>1
<1>4. ASSUME NEW n PROVE In(s, n) <=> n = x \/ In(q, n)
  BY <1>1, <1>2, <1>3 DEF In
<1>5. ASSUME Distinct(q), ~In(q, x) PROVE Distinct(s)
  <2> SUFFICES ASSUME NEW i \in 1 .. Len(s), NEW j \in 1 .. Len(s), s[i] = s[j] PROVE i = j
    BY DEF Distinct
  <2>1. CASE i = 1 \/ j = 1
    BY <1>1, <1>2, <1>5, <2>1 DEF In
  <2>2. CASE i # 1 /\ j # 1
    <3>1. i - 1 = j - 1
      BY <1>2, <1>5, <2>2 DEF Distinct
    <3> QED BY <3>1
  <2> QED BY <2>1, <2>2
<1> QED BY <1>1, <1>4, <1>5 DEF s

LEMMA TailOf ==
  ASSUME NEW S, NEW q \in Seq(S), q # <<>>
  PROVE  /\ Tail(q) \in Seq(S) /\ Head(q) \in S /\ In(q, Head(q)) /\ Head(q) = q[1]
         /\ Len(q) \in Nat \ {0} /\ (Len(q) = 1 <=> Tail(q) = <<>>)
         /\ Distinct(q) => /\ Distinct(Tail(q))
                           /\ \A n : In(Tail(q), n) <=> In(q, n) /\ n # Head(q)
<1> DEFINE s == Tail(q)
<1>1. /\ s \in Seq(S) /\ Len(s) = Len(q) - 1 /\ Head(q) = q[1] /\ Len(q) \in Nat \ {0}
      /\ \A i \in 1 .. Len(s) : s[i] = q[i + 1] /\ i + 1 \in 1 .. Len(q)
      /\ Head(q) \in S
  OBVIOUS
<1> HIDE DEF s
<1>2. Len(q) = 1 <=> s = <<>>
  <2>1. Len(s) = 0 <=> s = <<>>
    BY <1>1
  <2> QED BY <1>1, <2>1
<1>3. In(q, Head(q))
  BY <1>1 DEF In
<1>4. \A i \in 1 .. Len(q) : i = 1 \/ (i - 1 \in 1 .. Len(s) /\ s[i - 1] = q[i])
  BY <1>1
<1>5. ASSUME Distinct(q) PROVE Distinct(s) /\ \A n : In(s, n) <=> In(q, n) /\ n # Head(q)
  <2>1. Distinct(s)
    <3> SUFFICES ASSUME NEW i \in 1 .. Len(s), NEW j \in 1 .. Len(s), s[i] = s[j] PROVE i = j
      BY DEF Distinct
    <3>1. i + 1 = j + 1
      BY <1>1, <1>5 DEF Distinct
    <3> QED BY <3>1
  <2>2. ASSUME NEW n, In(s, n) PROVE In(q, n) /\ n # Head(q)
    <3>1. PICK i \in 1 .. Len(s) : s[i] = n
      BY <2>2 DEF In
    <3>2. i + 1 \in 1 .. Len(q) /\ q[i + 1] = n /\ i + 1 # 1 /\ 1 \in 1 .. Len(q)
      BY <1>1, <3>1
    <3> QED BY <1>1, <1>5, <3>2 DEF In, Distinct
  <2>3. ASSUME NEW n, In(q, n), n # Head(q) PROVE In(s, n)
    BY <1>1, <1>4, <2>3 DEF In
  <2> QED BY <2>1, <2>2, <2>3
<1> QED BY <1>1, <1>2, <1>3, <1>5 DEF s

\* A popper has a hazard pointer from its first load on.
Inside == {"load", "publish", "reload", "next", "cas", "clear", "data", "scan", "exchange", "sweep"}

Steps == Inside \cup {"claim", "exit", "done"}
Entries == 1 .. Len(pointer)

\* Where the threads are in their calls
HazardCalls ==
  /\ pc \in [Threads -> Steps] /\ calls \in [Threads -> 0 .. Calls]
  /\ \A t \in Threads : pc[t] \notin {"exit", "done"} => calls[t] < Calls
  /\ \A t \in Pushers : pc[t] \in {"load", "cas", "done"}

\* The table of hazard pointers, and who owns which
HazardTable ==
  /\ pointer \in Seq(Nodes \cup {Null}) /\ Len(pointer) > 0
  /\ id \in [Entries -> Poppers \cup {Null}]
  /\ slot \in [Threads -> {0} \cup Entries] /\ index \in [Threads -> Entries]
  /\ \A t \in Threads : slot[t] # 0 => id[slot[t]] = t
  /\ \A t \in Poppers : pc[t] \in Inside => slot[t] # 0
  /\ \A t \in Pushers : slot[t] = 0
  /\ \A t \in Threads : pc[t] \notin {"claim", "scan", "sweep"} => index[t] = 1

\* The nodes, and the threads' pointers to them
HazardNodes ==
  /\ head \in Nodes \cup {Null} /\ alive \subseteq Nodes
  /\ next \in [Nodes -> Nodes \cup {Null}] /\ data \in [Nodes -> Value \cup {Null}]
  /\ mine \in [Threads -> Nodes \cup {Null}] /\ temp \in [Threads -> Nodes \cup {Null}]
  /\ returned \subseteq Value

\* The lists of popped nodes
HazardLists ==
  /\ retired \in Seq(Nodes) /\ swept \in [Threads -> Seq(Nodes)]
  /\ \A t \in Threads : pc[t] = "sweep" <=> swept[t] # <<>>

HazardTypes == HazardCalls /\ HazardTable /\ HazardNodes /\ HazardLists

\* The nodes a thread has for itself: to push them, or popped
Owns(t) == \/ t \in Pushers /\ pc[t] = "cas"
           \/ t \in Poppers /\ pc[t] \in {"clear", "data", "scan"}
\* The node a popper is about to pop: it has seen head point to it after its hazard
\* pointer did.
Follows(t) == t \in Poppers /\ pc[t] \in {"next", "cas"}

\* A node is in one place at most.
HazardPlaces ==
  /\ \A n \in alive : data[n] \in Value
  /\ \A t \in Threads : Owns(t) =>
       /\ mine[t] \in alive /\ ~In(retired, mine[t]) /\ \A u \in Threads : ~In(swept[u], mine[t])
  /\ \A t, u \in Threads : Owns(t) /\ Owns(u) /\ mine[t] = mine[u] => t = u
  /\ \A n : In(retired, n) => n \in alive /\ \A t \in Threads : ~In(swept[t], n)
  /\ \A n : \A t \in Threads : In(swept[t], n) =>
       n \in alive /\ \A u \in Threads : u # t => ~In(swept[u], n)
  /\ Distinct(retired) /\ \A t \in Threads : Distinct(swept[t])

\* The other nodes are in the stack; each is below at most one, head below none.
InStack(n) == /\ n \in alive /\ \A t \in Threads : Owns(t) => mine[t] # n
              /\ ~In(retired, n) /\ \A t \in Threads : ~In(swept[t], n)
HazardChain ==
  /\ head = Null \/ InStack(head)
  /\ \A n : InStack(n) => next[n] # head /\ (next[n] = Null \/ InStack(next[n]))
  /\ \A n, m : InStack(n) /\ InStack(m) /\ next[n] = next[m] => n = m

\* A followed node is protected: it lives, its next pointer is what was read, and who
\* looks for it among the hazard pointers has not come to that one yet.
Protected ==
  /\ \A t \in Poppers : pc[t] = "reload" => pointer[slot[t]] = temp[t]
  /\ \A t \in Threads : Follows(t) =>
       /\ pointer[slot[t]] = mine[t] /\ mine[t] \in alive
       /\ \A p \in Pushers : pc[p] = "cas" => mine[p] # mine[t]
  /\ \A t \in Poppers : pc[t] = "cas" => temp[t] = next[mine[t]]
  /\ \A t, u \in Threads : pc[t] = "scan" /\ Follows(u) /\ mine[u] = mine[t] => slot[u] >= index[t]
  /\ \A t, u \in Threads :
       pc[t] = "sweep" /\ Follows(u) /\ mine[u] = Head(swept[t]) => slot[u] >= index[t]

HazardInv == HazardTypes /\ HazardPlaces /\ HazardChain /\ Protected

LEMMA HazardReturn ==
  ASSUME HazardTypes, NEW t \in Threads, pc[t] \notin {"exit", "done"}, Hazard!Return(t)
  PROVE  /\ calls' \in [Threads -> 0 .. Calls]
         /\ pc' = [pc EXCEPT ![t] = pc'[t]]
         /\ t \in Pushers => pc'[t] \in {"load", "done"}
         /\ t \in Poppers => pc'[t] \in {"claim", "load", "exit"}
         /\ t \in Poppers /\ pc'[t] = "load" => slot[t] # 0
         /\ pc'[t] \in {"claim", "load"} => calls'[t] < Calls
         /\ \A u \in Threads : u # t => calls'[u] = calls[u]
<1>1. /\ t \in DOMAIN pc /\ t \in DOMAIN calls /\ calls \in [Threads -> 0 .. Calls]
      /\ calls[t] < Calls /\ Calls \in Nat /\ calls[t] \in Nat
      /\ ~ (t \in Pushers /\ t \in Poppers)
  BY SameThreads, CallsAssumption, StackThreadsAssumption DEF HazardTypes, HazardCalls
<1>2. calls' = [calls EXCEPT ![t] = calls[t] + 1]
  BY DEF Hazard!Return, Hazard!Set
<1> DEFINE to == IF calls[t] + 1 < Calls
                 THEN IF t \in Pushers \/ slot[t] # 0 THEN "load" ELSE "claim"
                 ELSE IF t \in Pushers THEN "done" ELSE "exit"
<1>3. pc' = [pc EXCEPT ![t] = to]
  BY DEF Hazard!Return, Hazard!Goto
<1>4. pc'[t] = to
  BY <1>1, <1>3
<1>5. /\ t \in Pushers => to \in {"load", "done"}
      /\ t \in Poppers => to \in {"claim", "load", "exit"}
      /\ t \in Poppers /\ to = "load" => slot[t] # 0
      /\ to \in {"claim", "load"} => calls[t] + 1 < Calls
  BY <1>1
<1> HIDE DEF to
<1> QED BY <1>1, <1>2, <1>3, <1>4, <1>5

LEMMA HazardCallsStep ==
  ASSUME HazardTypes, NEW t \in Threads, Hazard!Thread(t)
  PROVE  HazardCalls' /\ \A u \in Threads : u # t => pc'[u] = pc[u]
<1>0. Threads = Pushers \cup Poppers /\ Pushers \cap Poppers = {}
  BY StackThreadsAssumption DEF Threads
<1> USE SameThreads, <1>0 DEF HazardTypes, HazardCalls, Hazard!Goto, Steps, Inside
<1>1. CASE t \in Pushers /\ Hazard!PushLoad(t)
  BY <1>1 DEF Hazard!PushLoad
<1>2. CASE t \in Pushers /\ Hazard!PushCas(t)
  BY <1>2, HazardReturn DEF Hazard!PushCas
<1>3. CASE t \in Poppers /\ Hazard!Claim(t)
  BY <1>3, HazardReturn DEF Hazard!Claim, Hazard!ClaimOne
<1>4. CASE t \in Poppers /\ (Hazard!PopLoad(t) \/ Hazard!Publish(t) \/ Hazard!ReadNext(t))
  BY <1>4 DEF Hazard!PopLoad, Hazard!Publish, Hazard!ReadNext
<1>5. CASE t \in Poppers /\ Hazard!Reload(t)
  BY <1>5, HazardReturn DEF Hazard!Reload
<1>6. CASE t \in Poppers /\ (Hazard!PopCas(t) \/ Hazard!Clear(t) \/ Hazard!ReadData(t))
  BY <1>6 DEF Hazard!PopCas, Hazard!Clear, Hazard!ReadData, Hazard!locals
<1>7. CASE t \in Poppers /\ (Hazard!Scan(t) \/ Hazard!Exit(t))
  BY <1>7 DEF Hazard!Scan, Hazard!Exit, Hazard!locals
<1>8. CASE t \in Poppers /\ Hazard!Exchange(t)
  <2>1. /\ pc[t] = "exchange"
        /\ Hazard!Return(t) \/ (Hazard!Goto(t, "sweep") /\ UNCHANGED calls)
    BY <1>8 DEF Hazard!Exchange
  <2>2. CASE Hazard!Return(t)
    BY <1>8, <2>1, <2>2, HazardReturn
  <2>3. CASE Hazard!Goto(t, "sweep") /\ UNCHANGED calls
    BY <1>8, <2>1, <2>3
  <2> QED BY <2>1, <2>2, <2>3
<1>9. CASE t \in Poppers /\ Hazard!Sweep(t)
  <2>1. pc[t] = "sweep" /\ (Hazard!Return(t) \/ UNCHANGED <<calls, pc>>)
    BY <1>9 DEF Hazard!Sweep, Hazard!SweepOne
  <2> QED BY <1>9, <2>1, HazardReturn
<1> QED BY <1>1, <1>2, <1>3, <1>4, <1>5, <1>6, <1>7, <1>8, <1>9
  DEF Hazard!Thread, Hazard!Pusher, Hazard!Popper

LEMMA TableEntry ==
  ASSUME NEW S, NEW q \in Seq(S), NEW k \in 1 .. Len(q), NEW x \in S
  PROVE  /\ [q EXCEPT ![k] = x] \in Seq(S) /\ Len([q EXCEPT ![k] = x]) = Len(q)
         /\ [q EXCEPT ![k] = x][k] = x
         /\ \A i \in 1 .. Len(q) : i # k => [q EXCEPT ![k] = x][i] = q[i]
  OBVIOUS

\* Who is in the table, and where the search of isInUse is
LEMMA HazardTableStep ==
  ASSUME HazardTypes, NEW t \in Threads, Hazard!Thread(t)
  PROVE  HazardTable' /\ Len(pointer') = Len(pointer)
<1> DEFINE m == Len(pointer)
<1>0. Threads = Pushers \cup Poppers /\ Pushers \cap Poppers = {}
  BY StackThreadsAssumption DEF Threads
<1>00. /\ m \in Nat /\ m > 0 /\ 1 \in 1 .. m /\ pointer \in Seq(Nodes \cup {Null})
       /\ id \in [1 .. m -> Poppers \cup {Null}]
       /\ slot \in [Threads -> {0} \cup 1 .. m] /\ index \in [Threads -> 1 .. m]
       /\ \A u \in Threads : slot[u] # 0 => id[slot[u]] = u
       /\ \A u \in Poppers : pc[u] \in Inside => slot[u] # 0
       /\ \A u \in Pushers : slot[u] = 0
       /\ \A u \in Threads : pc[u] \notin {"claim", "scan", "sweep"} => index[u] = 1
       /\ Null \notin Threads
  BY NullAssumption DEF HazardTypes, HazardTable, Entries
<1>01. /\ HazardCalls' /\ HazardCalls /\ \A u \in Threads : u # t => pc'[u] = pc[u]
       /\ mine \in [Threads -> Nodes \cup {Null}] /\ Null \in Nodes \cup {Null}
  BY HazardCallsStep DEF HazardTypes, HazardNodes
<1> SUFFICES /\ pointer' \in Seq(Nodes \cup {Null}) /\ Len(pointer') = m
             /\ id' \in [1 .. m -> Poppers \cup {Null}]
             /\ slot' \in [Threads -> {0} \cup 1 .. m] /\ index' \in [Threads -> 1 .. m]
             /\ \A u \in Threads : slot'[u] # 0 => id'[slot'[u]] = u
             /\ \A u \in Poppers : pc'[u] \in Inside => slot'[u] # 0
             /\ \A u \in Pushers : slot'[u] = 0
             /\ \A u \in Threads : pc'[u] \notin {"claim", "scan", "sweep"} => index'[u] = 1
  BY <1>00 DEF HazardTable, Entries
<1> HIDE DEF m
<1> USE <1>0, <1>00, <1>01 DEF Hazard!hazards, Hazard!locals, Hazard!Set, Hazard!Goto, Inside
<1>1. CASE t \in Pushers /\ (Hazard!PushLoad(t) \/ Hazard!PushCas(t))
  BY <1>1 DEF Hazard!PushLoad, Hazard!PushCas, m, HazardCalls
<1>2. CASE t \in Poppers /\ Hazard!Claim(t)
  <2>1. pointer' = pointer /\ pc[t] = "claim"
    BY <1>2 DEF Hazard!Claim, Hazard!ClaimOne
  <2>2. CASE id[index[t]] = Null
    <3>1. /\ id' = [id EXCEPT ![index[t]] = t] /\ slot' = [slot EXCEPT ![t] = index[t]]
          /\ index' = [index EXCEPT ![t] = 1] /\ index[t] \in 1 .. m
      BY <1>2, <2>2 DEF Hazard!Claim, Hazard!ClaimOne
    <3>2. \A u \in Threads : slot[u] # index[t]
      BY <2>2, <3>1
    <3>3. \A u \in Threads : slot'[u] # 0 => id'[slot'[u]] = u
      BY <3>1, <3>2
    <3>4. id' \in [1 .. m -> Poppers \cup {Null}] /\ slot' \in [Threads -> {0} \cup 1 .. m]
      BY <1>2, <3>1
    <3>5. index' \in [Threads -> 1 .. m] /\ \A u \in Threads : u # t => index'[u] = index[u]
      BY <1>2, <3>1
    <3>6. index'[t] = 1 /\ slot'[t] = index[t] /\ \A u \in Threads : u # t => slot'[u] = slot[u]
      BY <1>2, <3>1
    <3>7. \A u \in Poppers : pc'[u] \in Inside => slot'[u] # 0
      <4>1. slot'[t] # 0
        BY <3>1, <3>6
      <4> QED BY <3>6, <4>1
    <3>8. \A u \in Pushers : slot'[u] = 0
      BY <1>2, <3>6
    <3>9. \A u \in Threads : pc'[u] \notin {"claim", "scan", "sweep"} => index'[u] = 1
      BY <3>5, <3>6
    <3> QED BY <2>1, <3>3, <3>4, <3>5, <3>7, <3>8, <3>9 DEF m
  <2>3. CASE id[index[t]] # Null /\ index[t] = m
    <3>1. Hazard!Return(t) /\ UNCHANGED <<id, slot>> /\ index' = [index EXCEPT ![t] = 1]
      BY <1>2, <2>3 DEF Hazard!Claim, Hazard!ClaimOne, m
    <3>2. pc'[t] = "load" => slot[t] # 0
      BY <1>2, <2>1, <3>1, HazardReturn
    <3>3. pc'[t] \in {"claim", "load", "exit"}
      BY <1>2, <2>1, <3>1, HazardReturn
    <3> QED BY <2>1, <3>1, <3>2, <3>3 DEF m
  <2>4. CASE id[index[t]] # Null /\ index[t] # m
    <3>1. UNCHANGED <<id, slot, pc>> /\ index' = [index EXCEPT ![t] = index[t] + 1]
      BY <1>2, <2>4 DEF Hazard!Claim, Hazard!ClaimOne, m
    <3> QED BY <2>1, <2>4, <3>1 DEF m
  <2> QED BY <2>2, <2>3, <2>4
<1>3. CASE t \in Poppers /\ (Hazard!PopLoad(t) \/ Hazard!ReadNext(t) \/ Hazard!PopCas(t))
  <2>1. /\ UNCHANGED <<pointer, id, slot, index>> /\ pc[t] \in Inside
        /\ pc[t] \in {"load", "next", "cas"} /\ pc'[t] \in {"publish", "cas", "clear"}
    BY <1>3 DEF Hazard!PopLoad, Hazard!ReadNext, Hazard!PopCas, HazardCalls
  <2> QED BY <2>1 DEF m
<1>4. CASE t \in Poppers /\ (Hazard!Publish(t) \/ Hazard!Clear(t))
  <2>1. /\ slot[t] \in 1 .. m /\ pc[t] \in {"publish", "clear"} /\ pc'[t] \in {"reload", "data"}
        /\ UNCHANGED <<id, slot, index>>
        /\ \E x \in Nodes \cup {Null} : pointer' = [pointer EXCEPT ![slot[t]] = x]
    BY <1>4 DEF Hazard!Publish, Hazard!Clear, HazardCalls
  <2>2. pointer' \in Seq(Nodes \cup {Null}) /\ Len(pointer') = m
    BY <2>1, TableEntry DEF m
  <2> QED BY <2>1, <2>2
<1>5. CASE t \in Poppers /\ Hazard!Reload(t)
  <2>1. UNCHANGED <<pointer, id, slot, index>> /\ pc[t] = "reload" /\ slot[t] # 0
    BY <1>5 DEF Hazard!Reload
  <2>2. pc'[t] \in {"publish", "next", "claim", "load", "exit"}
    BY <1>5, HazardReturn DEF Hazard!Reload, HazardCalls
  <2> QED BY <2>1, <2>2 DEF m
<1>6. CASE t \in Poppers /\ Hazard!ReadData(t)
  BY <1>6 DEF Hazard!ReadData, m, HazardCalls
<1>7. CASE t \in Poppers /\ Hazard!Scan(t)
  <2>1. UNCHANGED <<pointer, id, slot>> /\ pc[t] = "scan" /\ slot[t] # 0
    BY <1>7 DEF Hazard!Scan
  <2>2. \/ index' = [index EXCEPT ![t] = 1] /\ pc'[t] = "exchange"
        \/ index[t] # m /\ index' = [index EXCEPT ![t] = index[t] + 1] /\ pc'[t] = "scan"
    BY <1>7 DEF Hazard!Scan, Hazard!NextIndex, Hazard!Searched, HazardCalls, m
  <2> QED BY <2>1, <2>2 DEF m
<1>8. CASE t \in Poppers /\ Hazard!Exchange(t)
  <2>1. UNCHANGED <<pointer, id, slot, index>> /\ pc[t] = "exchange" /\ slot[t] # 0
    BY <1>8, Zenon DEF Hazard!Exchange
  <2>2. Hazard!Return(t) \/ pc' = [pc EXCEPT ![t] = "sweep"]
    BY <1>8 DEF Hazard!Exchange
  <2>3. pc'[t] \in {"sweep", "claim", "load", "exit"}
    BY <1>8, <2>1, <2>2, HazardReturn DEF HazardCalls
  <2> QED BY <2>1, <2>3 DEF m
<1>9. CASE t \in Poppers /\ Hazard!Sweep(t)
  <2> DEFINE node == Head(swept[t])
  <2>1. UNCHANGED <<pointer, id, slot>> /\ pc[t] = "sweep" /\ slot[t] # 0
    BY <1>9 DEF Hazard!Sweep, Hazard!SweepOne
  <2>2. /\ index' = Hazard!NextIndex(t, node)
        /\ pc' = pc \/ (Hazard!Return(t) /\ (Hazard!Hit(t, node) \/ Hazard!Searched(t)))
    BY <1>9 DEF Hazard!Sweep, Hazard!SweepOne
  <2> HIDE DEF node
  <2>3. \/ index' = [index EXCEPT ![t] = 1] /\ (pc' = pc \/ Hazard!Return(t))
        \/ index[t] # m /\ index' = [index EXCEPT ![t] = index[t] + 1] /\ pc' = pc
    BY <2>2 DEF Hazard!NextIndex, Hazard!Searched, m
  <2>4. pc'[t] \in {"sweep", "claim", "load", "exit"}
    BY <1>9, <2>1, <2>2, HazardReturn
  <2> QED BY <2>1, <2>3, <2>4 DEF m
<1>10. CASE t \in Poppers /\ Hazard!Exit(t)
  <2>1. pc[t] = "exit" /\ pc'[t] = "done" /\ UNCHANGED index
    BY <1>10 DEF Hazard!Exit, HazardCalls
  <2>2. CASE slot[t] = 0
    BY <1>10, <2>1, <2>2 DEF Hazard!Exit, m
  <2>3. CASE slot[t] # 0
    <3>1. /\ slot[t] \in 1 .. m /\ pointer' = [pointer EXCEPT ![slot[t]] = Null]
          /\ id' = [id EXCEPT ![slot[t]] = Null] /\ slot' = [slot EXCEPT ![t] = 0]
      BY <1>10, <2>3 DEF Hazard!Exit
    <3>2. pointer' \in Seq(Nodes \cup {Null}) /\ Len(pointer') = m
      BY <3>1, TableEntry DEF m
    <3>3. \A u \in Threads : u # t => slot[u] # slot[t] \/ slot[u] = 0
      BY <2>3
    <3> QED BY <2>1, <3>1, <3>2, <3>3
  <2> QED BY <2>2, <2>3
<1> QED BY <1>1, <1>2, <1>3, <1>4, <1>5, <1>6, <1>7, <1>8, <1>9, <1>10
  DEF Hazard!Thread, Hazard!Pusher, Hazard!Popper

\* What a step leaves as it was
LEMMA HazardOthers ==
  ASSUME HazardTypes, NEW t \in Threads, Hazard!Thread(t)
  PROVE  \A u \in Threads : u # t =>
           /\ pc'[u] = pc[u] /\ mine'[u] = mine[u] /\ temp'[u] = temp[u] /\ swept'[u] = swept[u]
           /\ slot'[u] = slot[u] /\ index'[u] = index[u]
           /\ slot[u] # 0 => pointer'[slot[u]] = pointer[slot[u]]
<1>1. /\ mine \in [Threads -> Nodes \cup {Null}] /\ temp \in [Threads -> Nodes \cup {Null}]
      /\ swept \in [Threads -> Seq(Nodes)] /\ slot \in [Threads -> {0} \cup Entries]
      /\ index \in [Threads -> Entries] /\ pointer \in [Entries -> Nodes \cup {Null}]
      /\ \A u \in Threads : slot[u] # 0 => id[slot[u]] = u
      /\ \A u \in Poppers : pc[u] \in Inside => slot[u] # 0
      /\ Threads = Pushers \cup Poppers
  BY DEF HazardTypes, HazardTable, HazardNodes, HazardLists, Entries, Threads
<1>2. \A u \in Threads : u # t => pc'[u] = pc[u]
  BY HazardCallsStep
<1>3. \A u \in Threads : u # t /\ slot[u] # 0 => slot[u] # slot[t]
  BY <1>1
<1> HIDE DEF Entries
<1> USE <1>1, <1>2, <1>3 DEF Hazard!hazards, Hazard!locals, Hazard!Set, Inside
<1>a. CASE t \in Pushers /\ (Hazard!PushLoad(t) \/ Hazard!PushCas(t))
  BY <1>a DEF Hazard!PushLoad, Hazard!PushCas
<1>b. CASE t \in Poppers /\ Hazard!Claim(t)
  BY <1>b DEF Hazard!Claim, Hazard!ClaimOne
<1>c. CASE t \in Poppers /\ (Hazard!PopLoad(t) \/ Hazard!ReadNext(t) \/ Hazard!PopCas(t) \/ Hazard!Reload(t))
  BY <1>c DEF Hazard!PopLoad, Hazard!ReadNext, Hazard!PopCas, Hazard!Reload
<1>d. CASE t \in Poppers /\ (Hazard!Publish(t) \/ Hazard!Clear(t) \/ Hazard!Exit(t))
  BY <1>d DEF Hazard!Publish, Hazard!Clear, Hazard!Exit
<1>e. CASE t \in Poppers /\ (Hazard!ReadData(t) \/ Hazard!Scan(t) \/ Hazard!Exchange(t))
  BY <1>e DEF Hazard!ReadData, Hazard!Scan, Hazard!Exchange, Hazard!NextIndex
<1>f. CASE t \in Poppers /\ Hazard!Sweep(t)
  BY <1>f DEF Hazard!Sweep, Hazard!SweepOne, Hazard!NextIndex
<1> QED BY <1>a, <1>b, <1>c, <1>d, <1>e, <1>f DEF Hazard!Thread, Hazard!Pusher, Hazard!Popper

\* What a step of t does to the stack
StackStays == /\ UNCHANGED head /\ \A n : InStack(n) => next'[n] = next[n]
              /\ \A n : InStack(n)' <=> InStack(n)
StackPushed(t) ==
  /\ pc[t] = "cas" /\ head = next[mine[t]] /\ head' = mine[t] /\ UNCHANGED next
  /\ mine[t] \in Nodes /\ ~InStack(mine[t]) /\ \A n : InStack(n)' <=> InStack(n) \/ n = mine[t]
StackPopped(t) ==
  /\ pc[t] = "cas" /\ head = mine[t] /\ head # Null /\ head' = next[head] /\ UNCHANGED next
  /\ \A n : InStack(n)' <=> InStack(n) /\ n # head

\* A step that moves no node
LEMMA SamePlaces ==
  ASSUME HazardPlaces, HazardChain,
         UNCHANGED <<alive, retired, swept, data, head>>,
         \A u \in Threads : (Owns(u)' <=> Owns(u)) /\ (Owns(u) => mine'[u] = mine[u]),
         \A n : InStack(n) => next'[n] = next[n]
  PROVE  HazardPlaces' /\ HazardChain' /\ StackStays
<1>1. \A n : InStack(n)' <=> InStack(n)
  BY DEF InStack
<1>2. HazardPlaces'
  BY DEF HazardPlaces
<1>3. HazardChain'
  BY <1>1 DEF HazardChain
<1> QED BY <1>1, <1>2, <1>3 DEF StackStays

\* A step that moves no node into the stack or out of it
LEMMA SameStack ==
  ASSUME HazardChain, UNCHANGED head, \A n : InStack(n)' <=> InStack(n),
         \A n : InStack(n) => next'[n] = next[n]
  PROVE  HazardChain' /\ StackStays
  BY DEF HazardChain, StackStays

\* push: what new returns belongs to the pusher until the CAS puts it on the stack.
LEMMA PushPlaces ==
  ASSUME HazardInv, NEW t \in Pushers, Hazard!Pusher(t)
  PROVE  HazardNodes' /\ HazardLists' /\ HazardPlaces' /\ HazardChain' /\ (StackStays \/ StackPushed(t))
<1>1. /\ t \in Threads /\ t \notin Poppers /\ Hazard!Thread(t)
      /\ Threads = Pushers \cup Poppers /\ Pushers \cap Poppers = {}
  BY StackThreadsAssumption DEF Threads, Hazard!Thread
<1>2. /\ \A u \in Threads : u # t => pc'[u] = pc[u] /\ mine'[u] = mine[u]
      /\ HazardCalls' /\ HazardCalls
  BY <1>1, HazardOthers, HazardCallsStep DEF HazardInv, HazardTypes
<1> USE <1>1, <1>2 DEF HazardInv
<1>3. CASE Hazard!PushLoad(t)
  <2>1. PICK n \in Nodes \ alive :
          /\ alive' = alive \cup {n} /\ mine' = [mine EXCEPT ![t] = n]
          /\ data' = [data EXCEPT ![n] = <<t,
                                           calls[t] + 1>>] /\ next' = [next EXCEPT ![n] = head]
    BY <1>3 DEF Hazard!PushLoad, Hazard!Set
  <2>2. /\ UNCHANGED <<head, temp, retired, swept, returned>>
        /\ pc[t] = "load" /\ pc' = [pc EXCEPT ![t] = "cas"]
    BY <1>3 DEF Hazard!PushLoad, Hazard!Goto
  <2>3. <<t, calls[t] + 1>> \in Value
    BY <2>2, CallsAssumption DEF HazardTypes, HazardCalls, Value
  <2>4. HazardNodes'
    BY <2>1, <2>2, <2>3 DEF HazardTypes, HazardNodes
  <2>5. HazardLists'
    BY <2>2 DEF HazardTypes, HazardLists, HazardCalls
  <2>6. \A u \in Threads : (Owns(u)' <=> Owns(u) \/ u = t) /\ ~Owns(t)
    BY <2>2 DEF Owns, HazardCalls
  <2>7. mine'[t] = n
    BY <2>1 DEF HazardTypes, HazardNodes
  <2>8. /\ n \notin alive /\ ~In(retired, n) /\ \A u \in Threads : ~In(swept[u], n)
        /\ \A u \in Threads : Owns(u) => mine[u] # n
    BY <2>1 DEF HazardPlaces
  <2>9. /\ data'[n] \in Value /\ \A x \in alive : data'[x] = data[x]
        /\ \A x \in alive : next'[x] = next[x]
    BY <2>1, <2>3 DEF HazardTypes, HazardNodes
  <2>10. \A x : InStack(x)' <=> InStack(x)
    BY <2>1, <2>2, <2>6, <2>7, <2>8 DEF InStack
  <2>11. HazardPlaces'
    BY <2>1, <2>2, <2>6, <2>7, <2>8, <2>9 DEF HazardPlaces
  <2>12. HazardChain' /\ StackStays
    BY <2>2, <2>9, <2>10, SameStack DEF InStack
  <2> QED BY <2>4, <2>5, <2>11, <2>12
<1>4. CASE Hazard!PushCas(t)
  <2>1. /\ UNCHANGED <<alive, data, mine, temp, retired, swept, returned>> /\ pc[t] = "cas"
    BY <1>4 DEF Hazard!PushCas
  <2>2. Owns(t) /\ mine[t] \in alive /\ mine[t] \in Nodes /\ ~InStack(mine[t])
    BY <2>1 DEF Owns, HazardPlaces, HazardTypes, HazardNodes, InStack
  <2>3. CASE head = next[mine[t]]
    <3>1. head' = mine[t] /\ Hazard!Return(t) /\ UNCHANGED next
      BY <1>4, <2>3 DEF Hazard!PushCas
    <3>2. pc'[t] \in {"load", "done"}
      BY <2>1, <3>1, HazardReturn
    <3>3. HazardNodes' /\ HazardLists'
      BY <2>1, <2>2, <3>1, <3>2 DEF HazardTypes, HazardNodes, HazardLists
    <3>4. \A u \in Threads : Owns(u)' <=> Owns(u) /\ u # t
      BY <3>2 DEF Owns
    <3>5. HazardPlaces'
      BY <2>1, <3>4 DEF HazardPlaces
    <3>6. \A x : InStack(x)' <=> InStack(x) \/ x = mine[t]
      BY <2>1, <2>2, <3>4 DEF InStack, HazardPlaces
    <3>7. HazardChain'
      BY <2>2, <2>3, <3>1, <3>6, NullAssumption DEF HazardChain, HazardTypes, HazardNodes
    <3>8. StackPushed(t)
      BY <2>1, <2>2, <2>3, <3>1, <3>6 DEF StackPushed
    <3> QED BY <3>3, <3>5, <3>7, <3>8
  <2>4. CASE head # next[mine[t]]
    <3>1. next' = [next EXCEPT ![mine[t]] = head] /\ UNCHANGED <<head, pc>>
      BY <1>4, <2>4 DEF Hazard!PushCas, Hazard!Set
    <3>2. HazardNodes' /\ HazardLists'
      BY <2>1, <2>2, <3>1 DEF HazardTypes, HazardNodes, HazardLists
    <3>3. \A u \in Threads : Owns(u)' <=> Owns(u)
      BY <3>1 DEF Owns
    <3>4. \A n : InStack(n) => next'[n] = next[n]
      BY <2>2, <3>1 DEF HazardTypes, HazardNodes, InStack
    <3> QED BY <2>1, <3>1, <3>2, <3>3, <3>4, SamePlaces
  <2> QED BY <2>3, <2>4
<1> QED BY <1>3, <1>4 DEF Hazard!Pusher

\* topAndPop up to its CAS, which takes head off the stack; the other steps move no
\* node.
LEMMA PopPlaces ==
  ASSUME HazardInv, NEW t \in Poppers,
         \/ Hazard!Claim(t) \/ Hazard!PopLoad(t) \/ Hazard!Publish(t) \/ Hazard!Reload(t)
         \/ Hazard!ReadNext(t) \/ Hazard!PopCas(t) \/ Hazard!Clear(t) \/ Hazard!ReadData(t)
         \/ Hazard!Exit(t)
  PROVE  HazardNodes' /\ HazardLists' /\ HazardPlaces' /\ HazardChain' /\ (StackStays \/ StackPopped(t))
<1>1. /\ t \in Threads /\ t \notin Pushers /\ Hazard!Thread(t)
      /\ Threads = Pushers \cup Poppers /\ Pushers \cap Poppers = {}
  BY StackThreadsAssumption DEF Threads, Hazard!Thread, Hazard!Popper
<1>2. /\ \A u \in Threads : u # t => pc'[u] = pc[u] /\ mine'[u] = mine[u]
      /\ HazardCalls' /\ HazardCalls
  BY <1>1, HazardOthers, HazardCallsStep DEF HazardInv, HazardTypes
<1>3. UNCHANGED <<alive, data, retired, swept, next>>
  BY DEF Hazard!Claim, Hazard!ClaimOne, Hazard!PopLoad, Hazard!Publish, Hazard!Reload,
     Hazard!ReadNext, Hazard!PopCas, Hazard!Clear, Hazard!ReadData, Hazard!Exit,
     Hazard!nodes, Hazard!locals
<1> USE <1>1, <1>2, <1>3 DEF HazardInv
<1>4. CASE /\ UNCHANGED head
           /\ (Owns(t)' <=> Owns(t)) /\ (Owns(t) => mine'[t] = mine[t])
           /\ mine'[t] \in Nodes \cup {Null} /\ temp'[t] \in Nodes \cup {Null}
           /\ mine' = [mine EXCEPT ![t] = mine'[t]] /\ temp' = [temp EXCEPT ![t] = temp'[t]]
           /\ returned' \subseteq Value /\ pc[t] # "sweep" /\ pc'[t] # "sweep"
  <2>1. HazardNodes'
    BY <1>4 DEF HazardTypes, HazardNodes
  <2>2. HazardLists'
    BY <1>4 DEF HazardTypes, HazardLists
  <2>3. \A u \in Threads : (Owns(u)' <=> Owns(u)) /\ (Owns(u) => mine'[u] = mine[u])
    BY <1>4 DEF Owns
  <2> QED BY <1>4, <2>1, <2>2, <2>3, SamePlaces
<1>5. /\ mine \in [Threads -> Nodes \cup {Null}] /\ temp \in [Threads -> Nodes \cup {Null}]
      /\ returned \subseteq Value /\ head \in Nodes \cup {Null}
      /\ next \in [Nodes -> Nodes \cup {Null}] /\ pc \in [Threads -> Steps]
      /\ Null \notin Nodes
  BY NullAssumption DEF HazardTypes, HazardNodes, HazardCalls
<1>6. Follows(t) => mine[t] \in alive /\ mine[t] \in Nodes
  BY <1>5 DEF Protected, HazardTypes, HazardNodes
<1> USE <1>5 DEF Hazard!Set, Hazard!Goto, Hazard!locals, Hazard!nodes
<1>a. CASE Hazard!Claim(t)
  <2>1. /\ UNCHANGED <<head, mine, temp, returned>> /\ pc[t] = "claim"
        /\ pc'[t] = "load" \/ Hazard!Return(t) \/ pc' = pc
    BY <1>a DEF Hazard!Claim, Hazard!ClaimOne
  <2>2. pc'[t] \in {"load", "claim", "exit"}
    BY <2>1, HazardReturn
  <2> QED BY <1>4, <2>1, <2>2 DEF Owns
<1>b. CASE Hazard!PopLoad(t)
  BY <1>b, <1>4 DEF Hazard!PopLoad, Owns
<1>c. CASE Hazard!Publish(t)
  BY <1>c, <1>4 DEF Hazard!Publish, Owns
<1>d. CASE Hazard!Reload(t)
  <2>1. /\ UNCHANGED <<head, temp, returned>> /\ pc[t] = "reload"
        /\ mine' = [mine EXCEPT ![t] = head]
        /\ pc'[t] \in {"publish", "next"} \/ Hazard!Return(t)
    BY <1>d DEF Hazard!Reload
  <2>2. pc'[t] \in {"publish", "next", "load", "claim", "exit"}
    BY <2>1, HazardReturn
  <2> QED BY <1>4, <2>1, <2>2 DEF Owns
<1>e. CASE Hazard!ReadNext(t)
  <2>1. /\ UNCHANGED <<head, mine, returned>> /\ pc[t] = "next" /\ pc'[t] = "cas"
        /\ temp' = [temp EXCEPT ![t] = next[mine[t]]]
    BY <1>e DEF Hazard!ReadNext
  <2>2. next[mine[t]] \in Nodes \cup {Null}
    BY <1>6, <2>1 DEF Follows
  <2> QED BY <1>4, <2>1, <2>2 DEF Owns
<1>f. CASE Hazard!PopCas(t)
  <2>1. UNCHANGED <<temp, returned>> /\ pc[t] = "cas" /\ Follows(t) /\ ~Owns(t)
    BY <1>f DEF Hazard!PopCas, Follows, Owns
  <2>2. CASE head # mine[t]
    BY <1>f, <1>4, <2>1, <2>2 DEF Hazard!PopCas, Owns
  <2>3. CASE head = mine[t]
    <3>1. head' = temp[t] /\ UNCHANGED mine /\ pc'[t] = "clear"
      BY <1>f, <2>3 DEF Hazard!PopCas
    <3>2. HazardNodes' /\ HazardLists'
      BY <2>1, <3>1 DEF HazardTypes, HazardNodes, HazardLists
    <3>3. \A u \in Threads : Owns(u)' <=> Owns(u) \/ u = t
      BY <3>1 DEF Owns
    <3>4. head # Null /\ InStack(head) /\ head' = next[head]
      BY <1>6, <2>1, <2>3, <3>1 DEF HazardChain, Protected
    <3>5. \A u \in Threads : Owns(u) => mine[u] # mine[t]
      BY <2>3, <3>4 DEF InStack
    <3>6. /\ mine[t] \in alive /\ ~In(retired, mine[t])
          /\ \A u \in Threads : ~In(swept[u], mine[t])
      BY <2>3, <3>4 DEF InStack
    <3>7. HazardPlaces'
      BY <3>1, <3>3, <3>5, <3>6 DEF HazardPlaces
    <3>8. \A x : InStack(x)' <=> InStack(x) /\ x # head
      BY <2>3, <3>1, <3>3 DEF InStack
    <3>9. HazardChain'
      BY <3>4, <3>8 DEF HazardChain
    <3>10. StackPopped(t)
      BY <2>1, <2>3, <3>4, <3>8 DEF StackPopped
    <3> QED BY <3>2, <3>7, <3>9, <3>10
  <2> QED BY <2>2, <2>3
<1>g. CASE Hazard!Clear(t)
  BY <1>g, <1>4 DEF Hazard!Clear, Owns
<1>h. CASE Hazard!ReadData(t)
  <2>1. /\ UNCHANGED <<head, mine, temp>> /\ pc[t] = "data" /\ pc'[t] = "scan"
        /\ returned' = returned \cup {data[mine[t]]}
    BY <1>h DEF Hazard!ReadData
  <2>2. data[mine[t]] \in Value
    BY <2>1 DEF Owns, HazardPlaces
  <2> QED BY <1>4, <2>1, <2>2 DEF Owns
<1>i. CASE Hazard!Exit(t)
  BY <1>i, <1>4 DEF Hazard!Exit, Owns
<1> QED BY <1>a, <1>b, <1>c, <1>d, <1>e, <1>f, <1>g, <1>h, <1>i

\* The end of topAndPop: the popped node is retired or deleted.
LEMMA ScanPlaces ==
  ASSUME HazardInv, NEW t \in Poppers, Hazard!Scan(t)
  PROVE  HazardNodes' /\ HazardLists' /\ HazardPlaces' /\ HazardChain' /\ StackStays
<1>1. /\ t \in Threads /\ t \notin Pushers /\ Hazard!Thread(t)
      /\ Threads = Pushers \cup Poppers /\ Pushers \cap Poppers = {}
  BY StackThreadsAssumption DEF Threads, Hazard!Thread, Hazard!Popper
<1>2. /\ \A u \in Threads : u # t => pc'[u] = pc[u]
      /\ pc \in [Threads -> Steps] /\ retired \in Seq(Nodes)
  BY <1>1, HazardOthers DEF HazardInv, HazardTypes, HazardCalls, HazardLists
<1>3. UNCHANGED <<head, next, data, mine, temp, swept, returned>> /\ pc[t] = "scan"
  BY DEF Hazard!Scan
<1>4. Owns(t) /\ mine[t] \in alive /\ mine[t] \in Nodes
  BY <1>1, <1>3 DEF Owns, HazardInv, HazardPlaces, HazardTypes, HazardNodes
<1> USE <1>1, <1>2, <1>3, <1>4 DEF HazardInv
<1>5. CASE pc'[t] = "scan"
  <2>1. UNCHANGED <<alive, retired>>
    BY <1>5 DEF Hazard!Scan, Hazard!Goto
  <2>2. \A u \in Threads : Owns(u)' <=> Owns(u)
    BY <1>5 DEF Owns
  <2>3. HazardNodes' /\ HazardLists'
    BY <1>5, <2>1 DEF HazardTypes, HazardNodes, HazardLists
  <2> QED BY <2>1, <2>2, <2>3, SamePlaces
<1>6. CASE pc'[t] # "scan"
  <2>1. pc'[t] = "exchange" /\ (Hazard!Hit(t, mine[t]) \/ Hazard!Searched(t))
    BY <1>6 DEF Hazard!Scan, Hazard!Goto
  <2>2. \A u \in Threads : Owns(u)' <=> Owns(u) /\ u # t
    BY <2>1 DEF Owns
  <2>3. /\ ~In(retired, mine[t]) /\ \A u \in Threads : ~In(swept[u], mine[t])
        /\ \A u \in Threads : Owns(u) /\ u # t => mine[u] # mine[t]
    BY DEF HazardPlaces
  <2>4. CASE Hazard!Hit(t, mine[t])
    <3>1. alive' = alive /\ retired' = <<mine[t]>> \o retired
      BY <2>4 DEF Hazard!Scan
    <3>2. /\ retired' \in Seq(Nodes) /\ Distinct(retired')
          /\ \A n : In(retired', n) <=> n = mine[t] \/ In(retired, n)
      BY <2>3, <3>1, Prepended DEF HazardPlaces
    <3>3. HazardNodes' /\ HazardLists'
      BY <2>1, <3>1, <3>2 DEF HazardTypes, HazardNodes, HazardLists
    <3>4. HazardPlaces'
      <4>1. UNCHANGED <<alive, data, mine, swept>>
        BY <3>1
      <4>2. /\ \A n \in alive' : data'[n] \in Value
            /\ \A u, v \in Threads : Owns(u)' /\ Owns(v)' /\ mine'[u] = mine'[v] => u = v
            /\ \A n : \A u \in Threads : In(swept'[u], n) =>
                 n \in alive' /\ \A v \in Threads : v # u => ~In(swept'[v], n)
            /\ \A u \in Threads : Distinct(swept'[u])
        BY <2>2, <4>1 DEF HazardPlaces
      <4>3. \A u \in Threads : Owns(u)' =>
              /\ mine'[u] \in alive' /\ ~In(retired', mine'[u])
              /\ \A v \in Threads : ~In(swept'[v], mine'[u])
        BY <2>2, <2>3, <3>2, <4>1 DEF HazardPlaces
      <4>4. \A n : In(retired', n) => n \in alive' /\ \A u \in Threads : ~In(swept'[u], n)
        BY <2>3, <3>2, <4>1 DEF HazardPlaces
      <4> QED BY <3>2, <4>2, <4>3, <4>4 DEF HazardPlaces
    <3>5. \A n : InStack(n)' <=> InStack(n)
      BY <2>2, <3>1, <3>2 DEF InStack
    <3> QED BY <3>3, <3>4, <3>5, SameStack
  <2>5. CASE ~Hazard!Hit(t, mine[t])
    <3>1. alive' = alive \ {mine[t]} /\ retired' = retired
      BY <2>1, <2>5 DEF Hazard!Scan
    <3>2. HazardNodes' /\ HazardLists'
      BY <2>1, <3>1 DEF HazardTypes, HazardNodes, HazardLists
    <3>3. HazardPlaces'
      BY <2>2, <2>3, <3>1 DEF HazardPlaces
    <3>4. \A n : InStack(n)' <=> InStack(n)
      BY <2>2, <2>3, <3>1 DEF InStack
    <3> QED BY <3>2, <3>3, <3>4, SameStack
  <2> QED BY <2>4, <2>5
<1> QED BY <1>5, <1>6

\* deleteUnusedNodes takes the list, so that no node is in two.
LEMMA ExchangePlaces ==
  ASSUME HazardInv, NEW t \in Poppers, Hazard!Exchange(t)
  PROVE  HazardNodes' /\ HazardLists' /\ HazardPlaces' /\ HazardChain' /\ StackStays
<1>1. /\ t \in Threads /\ t \notin Pushers /\ Hazard!Thread(t)
      /\ Threads = Pushers \cup Poppers /\ Pushers \cap Poppers = {}
  BY StackThreadsAssumption DEF Threads, Hazard!Thread, Hazard!Popper
<1>2. /\ \A u \in Threads : u # t => pc'[u] = pc[u] /\ swept'[u] = swept[u]
      /\ pc \in [Threads -> Steps] /\ retired \in Seq(Nodes) /\ swept \in [Threads -> Seq(Nodes)]
  BY <1>1, HazardOthers DEF HazardInv, HazardTypes, HazardCalls, HazardLists
<1>3. /\ UNCHANGED <<head, next, data, alive, mine, temp, returned>> /\ pc[t] = "exchange"
      /\ swept' = [swept EXCEPT ![t] = retired] /\ retired' = <<>>
      /\ \/ retired = <<>> /\ Hazard!Return(t)
         \/ retired # <<>> /\ pc' = [pc EXCEPT ![t] = "sweep"]
  BY DEF Hazard!Exchange, Hazard!nodes, Hazard!Set, Hazard!Goto
<1>4. /\ pc'[t] = "sweep" <=> retired # <<>>
      /\ pc'[t] \in {"sweep", "load", "claim", "exit"}
  BY <1>1, <1>2, <1>3, HazardReturn DEF HazardInv
<1>5. swept[t] = <<>> /\ swept'[t] = retired /\ retired' \in Seq(Nodes)
  BY <1>1, <1>2, <1>3 DEF HazardInv, HazardTypes, HazardLists
<1>6. \A n : ~In(swept[t], n) /\ ~In(retired', n)
  BY <1>3, <1>5, EmptyList
<1>7. \A u \in Threads : (Owns(u)' <=> Owns(u)) /\ mine'[u] = mine[u]
  BY <1>1, <1>2, <1>3, <1>4 DEF Owns
<1>8. HazardNodes' /\ HazardLists'
  BY <1>1, <1>2, <1>3, <1>4, <1>5 DEF HazardInv, HazardTypes, HazardNodes, HazardLists
<1>9. Distinct(retired')
  BY <1>3, EmptyList
<1>10. HazardPlaces'
  <2>1. UNCHANGED <<alive, data, mine>> /\ HazardPlaces
    BY <1>3 DEF HazardInv
  <2>2. swept'[t] = retired /\ \A u \in Threads : u # t => swept'[u] = swept[u]
    BY <1>2, <1>5
  <2> QED BY <1>1, <1>6, <1>7, <1>9, <2>1, <2>2 DEF HazardPlaces
<1>11. \A n : InStack(n)' <=> InStack(n)
  BY <1>1, <1>2, <1>3, <1>5, <1>6, <1>7 DEF InStack
<1> QED BY <1>3, <1>8, <1>10, <1>11, SameStack DEF HazardInv

\* Each of its nodes is retired again or deleted.
LEMMA SweepPlaces ==
  ASSUME HazardInv, NEW t \in Poppers, Hazard!Sweep(t)
  PROVE  HazardNodes' /\ HazardLists' /\ HazardPlaces' /\ HazardChain' /\ StackStays
<1> DEFINE node == Head(swept[t])
           decided == Hazard!Hit(t, node) \/ Hazard!Searched(t)
<1>1. /\ t \in Threads /\ t \notin Pushers /\ Hazard!Thread(t)
      /\ Threads = Pushers \cup Poppers /\ Pushers \cap Poppers = {}
  BY StackThreadsAssumption DEF Threads, Hazard!Thread, Hazard!Popper
<1>2. /\ \A u \in Threads : u # t => pc'[u] = pc[u] /\ swept'[u] = swept[u]
      /\ pc \in [Threads -> Steps] /\ retired \in Seq(Nodes) /\ swept \in [Threads -> Seq(Nodes)]
  BY <1>1, HazardOthers DEF HazardInv, HazardTypes, HazardCalls, HazardLists
<1>3. /\ UNCHANGED <<head, next, data, mine, temp, returned>> /\ pc[t] = "sweep"
      /\ retired' = IF Hazard!Hit(t, node) THEN <<node>> \o retired ELSE retired
      /\ alive' = IF decided /\ ~Hazard!Hit(t, node) THEN alive \ {node} ELSE alive
      /\ swept' = IF decided THEN [swept EXCEPT ![t] = Tail(swept[t])] ELSE swept
      /\ IF decided /\ Len(swept[t]) = 1 THEN Hazard!Return(t) ELSE UNCHANGED <<calls, pc>>
  BY DEF Hazard!Sweep, Hazard!SweepOne, Hazard!Set
<1>4. /\ swept[t] \in Seq(Nodes) /\ swept[t] # <<>> /\ Distinct(swept[t])
      /\ HazardLists /\ HazardNodes /\ HazardPlaces
  BY <1>1, <1>2, <1>3 DEF HazardInv, HazardTypes, HazardLists, HazardPlaces
<1>5. /\ node \in Nodes /\ In(swept[t], node) /\ Tail(swept[t]) \in Seq(Nodes)
      /\ (Len(swept[t]) = 1 <=> Tail(swept[t]) = <<>>) /\ Distinct(Tail(swept[t]))
      /\ \A n : In(Tail(swept[t]), n) <=> In(swept[t], n) /\ n # node
  BY <1>4, TailOf
<1>6. pc'[t] \in {"sweep", "load", "claim", "exit"}
  BY <1>1, <1>3, HazardReturn DEF HazardInv
<1>7. \A u \in Threads : (Owns(u)' <=> Owns(u)) /\ mine'[u] = mine[u]
  BY <1>1, <1>2, <1>3, <1>6 DEF Owns
<1>8. /\ node \in alive /\ ~In(retired, node)
      /\ \A u \in Threads : u # t => ~In(swept[u], node)
      /\ \A u \in Threads : Owns(u) => mine[u] # node
  BY <1>1, <1>4, <1>5 DEF HazardPlaces
<1>9. CASE ~decided
  <2>1. UNCHANGED <<alive, retired, swept, pc>>
    BY <1>3, <1>9
  <2>2. HazardNodes' /\ HazardLists'
    BY <1>3, <1>4, <2>1 DEF HazardNodes, HazardLists
  <2> QED BY <1>3, <1>7, <2>1, <2>2, SamePlaces DEF HazardInv
<1>10. CASE decided
  <2>1. /\ swept' = [swept EXCEPT ![t] = Tail(swept[t])]
        /\ IF Len(swept[t]) = 1 THEN Hazard!Return(t) ELSE pc' = pc
    BY <1>3, <1>10
  <2>2. /\ swept' \in [Threads -> Seq(Nodes)] /\ swept'[t] = Tail(swept[t])
    BY <1>1, <1>2, <1>5, <2>1
  <2>3. pc'[t] = "sweep" <=> swept'[t] # <<>>
    <3>1. CASE Len(swept[t]) = 1
      BY <1>1, <1>3, <1>5, <2>1, <2>2, <3>1, HazardReturn DEF HazardInv
    <3>2. CASE Len(swept[t]) # 1
      BY <1>3, <1>5, <2>1, <2>2, <3>2
    <3> QED BY <3>1, <3>2
  <2>6. /\ \A n : In(swept'[t], n) <=> In(swept[t], n) /\ n # node
        /\ \A u \in Threads : u # t => swept'[u] = swept[u]
        /\ Distinct(swept'[t]) /\ UNCHANGED <<data, mine>>
    BY <1>2, <1>3, <1>5, <2>2
  <2> HIDE DEF node, decided
  <2>4. CASE Hazard!Hit(t, node)
    <3>1. alive' = alive /\ retired' = <<node>> \o retired
      BY <1>3, <2>4
    <3>2. /\ retired' \in Seq(Nodes) /\ Distinct(retired')
          /\ \A n : In(retired', n) <=> n = node \/ In(retired, n)
      BY <1>2, <1>4, <1>5, <1>8, <3>1, Prepended DEF HazardPlaces
    <3>3. HazardNodes'
      BY <1>3, <1>4, <3>1 DEF HazardNodes
    <3>4. HazardLists'
      BY <1>1, <1>2, <1>4, <2>2, <2>3, <3>2 DEF HazardLists
    <3>5. HazardPlaces'
      <4>1. /\ \A n \in alive' : data'[n] \in Value
            /\ \A u, v \in Threads : Owns(u)' /\ Owns(v)' /\ mine'[u] = mine'[v] => u = v
            /\ \A u \in Threads : Distinct(swept'[u])
        BY <1>4, <1>7, <2>6, <3>1 DEF HazardPlaces
      <4>2. \A n : \A u \in Threads : In(swept'[u], n) =>
              n \in alive' /\ \A v \in Threads : v # u => ~In(swept'[v], n)
        BY <1>4, <2>6, <3>1 DEF HazardPlaces
      <4>3. \A u \in Threads : Owns(u)' =>
              /\ mine'[u] \in alive' /\ ~In(retired', mine'[u])
              /\ \A v \in Threads : ~In(swept'[v], mine'[u])
        BY <1>4, <1>7, <1>8, <2>6, <3>1, <3>2 DEF HazardPlaces
      <4>4. \A n : In(retired', n) => n \in alive' /\ \A u \in Threads : ~In(swept'[u], n)
        BY <1>4, <1>8, <2>6, <3>1, <3>2 DEF HazardPlaces
      <4> QED BY <3>2, <4>1, <4>2, <4>3, <4>4 DEF HazardPlaces
    <3>6. \A n : InStack(n)' <=> InStack(n)
      BY <1>1, <1>2, <1>3, <1>5, <1>7, <2>2, <3>1, <3>2 DEF InStack
    <3> QED BY <1>3, <3>3, <3>4, <3>5, <3>6, SameStack DEF HazardInv
  <2>5. CASE ~Hazard!Hit(t, node)
    <3>1. alive' = alive \ {node} /\ retired' = retired
      BY <1>3, <1>10, <2>5
    <3>2. HazardNodes'
      BY <1>3, <1>4, <3>1 DEF HazardNodes
    <3>3. HazardLists'
      BY <1>1, <1>2, <1>4, <2>2, <2>3, <3>1 DEF HazardLists
    <3>4. HazardPlaces'
      BY <1>1, <1>4, <1>7, <1>8, <2>6, <3>1 DEF HazardPlaces
    <3>5. \A n : InStack(n)' <=> InStack(n)
      BY <1>1, <1>2, <1>3, <1>5, <1>7, <2>2, <3>1 DEF InStack
    <3> QED BY <1>3, <3>2, <3>3, <3>4, <3>5, SameStack DEF HazardInv
  <2> QED BY <2>4, <2>5
<1> QED BY <1>9, <1>10

\* What a step of t has to show, since it leaves what the others have as it was
LEMMA ProtectedFrom ==
  ASSUME HazardInv, NEW t \in Threads, Hazard!Thread(t),
         \A u \in Threads : u # t /\ Follows(u) =>
           /\ mine[u] \in alive'
           /\ next'[mine[u]] = next[mine[u]]
           /\ t \in Pushers /\ pc'[t] = "cas" => mine'[t] # mine[u]
           /\ pc'[t] = "scan" /\ mine[u] = mine'[t] => slot[u] >= index'[t]
           /\ pc'[t] = "sweep" /\ mine[u] = Head(swept'[t]) => slot[u] >= index'[t],
         t \in Poppers /\ pc'[t] = "reload" => pointer'[slot'[t]] = temp'[t],
         Follows(t)' =>
           /\ pointer'[slot'[t]] = mine'[t] /\ mine'[t] \in alive'
           /\ pc'[t] = "cas" => temp'[t] = next'[mine'[t]]
           /\ \A p \in Pushers : pc[p] = "cas" => mine[p] # mine'[t]
           /\ \A v \in Threads : v # t =>
                /\ pc[v] = "scan" /\ mine'[t] = mine[v] => slot'[t] >= index[v]
                /\ pc[v] = "sweep" /\ mine'[t] = Head(swept[v]) => slot'[t] >= index[v]
  PROVE  Protected'
<1>1. \A u \in Threads : u # t =>
        /\ pc'[u] = pc[u] /\ mine'[u] = mine[u] /\ temp'[u] = temp[u] /\ swept'[u] = swept[u]
        /\ slot'[u] = slot[u] /\ index'[u] = index[u]
        /\ slot[u] # 0 => pointer'[slot[u]] = pointer[slot[u]]
  BY HazardOthers DEF HazardInv
<1>2. /\ Threads = Pushers \cup Poppers /\ Pushers \cap Poppers = {}
      /\ \A u \in Poppers : pc[u] \in Inside => slot[u] # 0
  BY StackThreadsAssumption DEF Threads, HazardInv, HazardTypes, HazardTable
<1>3. \A u \in Threads : u # t => (Follows(u)' <=> Follows(u))
  BY <1>1 DEF Follows
<1>4. \A u \in Threads : Follows(u) => slot[u] # 0
  BY <1>2 DEF Follows, Inside
<1>5. \A u \in Threads : ~ (Follows(u)' /\ pc'[u] \in {"scan", "sweep"})
  BY DEF Follows
<1>6. \A u \in Poppers : pc'[u] = "reload" => pointer'[slot'[u]] = temp'[u]
  BY <1>1, <1>2 DEF HazardInv, Protected, Inside
<1>7. ASSUME NEW u \in Threads, Follows(u)'
      PROVE  /\ pointer'[slot'[u]] = mine'[u] /\ mine'[u] \in alive'
             /\ \A p \in Pushers : pc'[p] = "cas" => mine'[p] # mine'[u]
  <2>1. CASE u = t
    BY <1>1, <1>2, <1>7, <2>1 DEF Follows
  <2>2. CASE u # t
    BY <1>1, <1>2, <1>3, <1>4, <1>7, <2>2 DEF HazardInv, Protected
  <2> QED BY <2>1, <2>2
<1>8. ASSUME NEW u \in Poppers, pc'[u] = "cas"
      PROVE  temp'[u] = next'[mine'[u]]
  BY <1>1, <1>2, <1>8 DEF HazardInv, Protected, Follows
<1>9. ASSUME NEW v \in Threads, NEW u \in Threads, Follows(u)'
      PROVE  /\ pc'[v] = "scan" /\ mine'[u] = mine'[v] => slot'[u] >= index'[v]
             /\ pc'[v] = "sweep" /\ mine'[u] = Head(swept'[v]) => slot'[u] >= index'[v]
  <2>1. CASE u = t
    BY <1>1, <1>5, <1>9, <2>1
  <2>2. CASE u # t /\ v = t
    BY <1>1, <1>3, <1>9, <2>2
  <2>3. CASE u # t /\ v # t
    BY <1>1, <1>3, <1>9, <2>3 DEF HazardInv, Protected
  <2> QED BY <2>1, <2>2, <2>3
<1> QED BY <1>6, <1>7, <1>8, <1>9 DEF Protected

\* A followed node keeps its next pointer, and whoever looks for it finds the hazard
\* pointer before it could delete the node.
LEMMA ProtectedStep ==
  ASSUME HazardInv, NEW t \in Threads, Hazard!Thread(t)
  PROVE  Protected'
<1>1. /\ Threads = Pushers \cup Poppers /\ Pushers \cap Poppers = {}
      /\ mine \in [Threads -> Nodes \cup {Null}] /\ temp \in [Threads -> Nodes \cup {Null}]
      /\ next \in [Nodes -> Nodes \cup {Null}] /\ pc \in [Threads -> Steps]
      /\ alive \subseteq Nodes /\ Null \notin Nodes
      /\ pointer \in [Entries -> Nodes \cup {Null}] /\ slot \in [Threads -> {0} \cup Entries]
      /\ index \in [Threads -> Entries] /\ Entries = 1 .. Len(pointer) /\ Len(pointer) \in Nat
      /\ \A u \in Poppers : pc[u] \in Inside => slot[u] # 0
      /\ \A u \in Threads : pc[u] \notin {"claim", "scan", "sweep"} => index[u] = 1
  BY StackThreadsAssumption, NullAssumption
     DEF Threads, HazardInv, HazardTypes, HazardNodes, HazardCalls, HazardTable, Entries
<1>2. \A u \in Threads : Follows(u) =>
        /\ slot[u] \in Entries /\ slot[u] >= 1 /\ pointer[slot[u]] = mine[u] /\ mine[u] \in alive
        /\ \A p \in Pushers : pc[p] = "cas" => mine[p] # mine[u]
  BY <1>1 DEF HazardInv, Protected, Follows, Inside
<1> HIDE DEF Entries
<1> USE <1>1, <1>2, ProtectedFrom DEF Hazard!Set, Hazard!Goto, Hazard!nodes, Hazard!hazards,
                                      Hazard!locals
<1>a. CASE t \in Pushers /\ Hazard!PushLoad(t)
  <2>1. PICK n \in Nodes \ alive :
          alive' = alive \cup {n} /\ mine' = [mine EXCEPT ![t] = n] /\ next' = [next EXCEPT ![n] = head]
    BY <1>a DEF Hazard!PushLoad
  <2>2. pc'[t] = "cas" /\ mine'[t] = n
    BY <1>a, <2>1 DEF Hazard!PushLoad
  <2>3. \A u \in Threads : Follows(u) =>
          mine[u] \in alive' /\ next'[mine[u]] = next[mine[u]] /\ n # mine[u]
    BY <2>1
  <2>4. ~Follows(t)'
    BY <1>a DEF Follows
  <2> QED BY <1>a, <2>2, <2>3, <2>4
<1>b. CASE t \in Pushers /\ Hazard!PushCas(t)
  <2>1. alive' = alive /\ mine' = mine /\ pc[t] = "cas"
    BY <1>b DEF Hazard!PushCas
  <2>2. next' = next \/ next' = [next EXCEPT ![mine[t]] = head]
    BY <1>b DEF Hazard!PushCas
  <2>3. \A u \in Threads : Follows(u) =>
          mine[u] \in alive' /\ next'[mine[u]] = next[mine[u]] /\ mine'[t] # mine[u]
    BY <1>b, <2>1, <2>2
  <2>4. ~Follows(t)' /\ t \notin Poppers
    BY <1>b DEF Follows
  <2>5. pc'[t] \in {"load", "cas", "done"}
    BY <1>b, HazardCallsStep DEF HazardCalls, HazardInv
  <2> QED BY <1>b, <2>3, <2>4, <2>5
<1>c. CASE t \in Poppers /\ (Hazard!Claim(t) \/ Hazard!PopLoad(t) \/ Hazard!Clear(t) \/ Hazard!Exit(t))
  <2>1. UNCHANGED <<alive, next>>
    BY <1>c DEF Hazard!Claim, Hazard!ClaimOne, Hazard!PopLoad, Hazard!Clear, Hazard!Exit
  <2>2. \/ pc[t] = "claim" /\ (pc' = pc \/ pc'[t] = "load" \/ Hazard!Return(t))
        \/ pc'[t] \in {"publish", "data", "done"}
    BY <1>c DEF Hazard!Claim, Hazard!ClaimOne, Hazard!PopLoad, Hazard!Clear, Hazard!Exit
  <2>3. pc'[t] \in {"claim", "load", "publish", "data", "exit", "done"}
    BY <1>c, <2>2, HazardReturn DEF HazardInv
  <2> QED BY <1>c, <2>1, <2>3 DEF Follows
<1>d. CASE t \in Poppers /\ Hazard!Publish(t)
  <2>1. UNCHANGED <<alive, next, slot>> /\ pc'[t] = "reload" /\ pc[t] = "publish"
    BY <1>d DEF Hazard!Publish
  <2>2. slot[t] \in Entries /\ pointer' = [pointer EXCEPT ![slot[t]] = mine[t]]
        /\ temp' = [temp EXCEPT ![t] = mine[t]]
    BY <1>d, <2>1 DEF Hazard!Publish, Inside
  <2> QED BY <1>d, <2>1, <2>2 DEF Follows
<1>e. CASE t \in Poppers /\ Hazard!Reload(t)
  <2>1. /\ UNCHANGED <<alive, next, pointer, slot>> /\ pc[t] = "reload"
        /\ mine' = [mine EXCEPT ![t] = head]
        /\ \/ pc'[t] = "publish" \/ Hazard!Return(t)
           \/ pc'[t] = "next" /\ head = temp[t] /\ head # Null
    BY <1>e DEF Hazard!Reload
  <2>2. CASE pc'[t] = "next"
    <3>1. head = temp[t] /\ InStack(head) /\ mine'[t] = head /\ pointer'[slot'[t]] = head
      BY <1>e, <2>1, <2>2, HazardReturn DEF HazardInv, HazardChain, Protected
    <3>2. /\ head \in alive' /\ \A p \in Pushers : pc[p] = "cas" => mine[p] # head
          /\ \A v \in Poppers : pc[v] = "scan" => mine[v] # head
      BY <2>1, <3>1 DEF InStack, Owns
    <3>3. \A v \in Threads : pc[v] = "sweep" => Head(swept[v]) # head
      <4> SUFFICES ASSUME NEW v \in Threads, pc[v] = "sweep" PROVE Head(swept[v]) # head
        OBVIOUS
      <4>1. swept[v] \in Seq(Nodes) /\ swept[v] # <<>>
        BY DEF HazardInv, HazardTypes, HazardLists
      <4>2. In(swept[v], Head(swept[v]))
        BY <4>1, TailOf
      <4> QED BY <3>1, <4>2 DEF InStack
    <3>4. \A p \in Pushers : pc[p] # "scan"
      BY DEF HazardInv, HazardTypes, HazardCalls
    <3> QED BY <1>e, <2>1, <2>2, <3>1, <3>2, <3>3, <3>4 DEF Follows
  <2>3. CASE pc'[t] # "next"
    <3>1. pc'[t] \in {"publish", "load", "claim", "exit"}
      BY <1>e, <2>1, <2>3, HazardReturn DEF HazardInv
    <3> QED BY <1>e, <2>1, <3>1 DEF Follows
  <2> QED BY <2>2, <2>3
<1>f. CASE t \in Poppers /\ Hazard!ReadNext(t)
  <2>1. /\ UNCHANGED <<alive, next, pointer, slot, mine>> /\ pc[t] = "next" /\ pc'[t] = "cas"
        /\ temp' = [temp EXCEPT ![t] = next[mine[t]]]
    BY <1>f DEF Hazard!ReadNext
  <2>2. Follows(t) /\ temp'[t] = next'[mine'[t]]
    BY <1>f, <2>1 DEF Follows
  <2>3. \A v \in Threads :
          /\ pc[v] = "scan" /\ mine[t] = mine[v] => slot[t] >= index[v]
          /\ pc[v] = "sweep" /\ mine[t] = Head(swept[v]) => slot[t] >= index[v]
    BY <2>2 DEF HazardInv, Protected
  <2> QED BY <1>f, <2>1, <2>2, <2>3
<1>g. CASE t \in Poppers /\ Hazard!PopCas(t)
  <2>1. UNCHANGED <<alive, next>> /\ pc'[t] \in {"clear", "publish"}
    BY <1>g DEF Hazard!PopCas
  <2> QED BY <1>g, <2>1 DEF Follows
<1>h. CASE t \in Poppers /\ Hazard!ReadData(t)
  <2>1. UNCHANGED <<alive, next, index>> /\ pc[t] = "data" /\ pc'[t] = "scan"
    BY <1>h DEF Hazard!ReadData
  <2>2. index'[t] = 1
    BY <1>h, <2>1
  <2> QED BY <1>h, <2>1, <2>2 DEF Follows
<1>i. CASE t \in Poppers /\ Hazard!Exchange(t)
  <2>1. UNCHANGED <<alive, next,
                    index>> /\ pc[t] = "exchange" /\ (Hazard!Return(t) \/ pc'[t] = "sweep")
    BY <1>i DEF Hazard!Exchange
  <2>2. index'[t] = 1
    BY <1>i, <2>1
  <2>3. pc'[t] \in {"sweep", "claim", "load", "exit"}
    BY <1>i, <2>1, HazardReturn DEF HazardInv
  <2> QED BY <1>i, <2>1, <2>2, <2>3 DEF Follows
<1>j. CASE t \in Poppers /\ Hazard!Scan(t)
  <2>1. UNCHANGED <<next, mine, pointer>> /\ pc[t] = "scan" /\ pc'[t] \in {"scan", "exchange"}
    BY <1>j DEF Hazard!Scan
  <2>2. ASSUME NEW u \in Threads, Follows(u), mine[u] = mine[t]
        PROVE  slot[u] >= index[t] /\ (slot[u] = index[t] => Hazard!Hit(t, mine[t]))
    BY <2>1, <2>2 DEF HazardInv, Protected, Hazard!Hit
  <2>3. ASSUME NEW u \in Threads, Follows(u)
        PROVE  mine[u] \in alive'
    <3>1. CASE mine[u] = mine[t] /\ Hazard!Searched(t)
      BY <1>j, <2>2, <2>3, <3>1 DEF Hazard!Scan, Hazard!Searched
    <3>2. CASE ~ (mine[u] = mine[t] /\ Hazard!Searched(t))
      BY <1>j, <2>3, <3>2 DEF Hazard!Scan
    <3> QED BY <3>1, <3>2
  <2>4. pc'[t] = "scan" => index'[t] = index[t] + 1 /\ ~Hazard!Hit(t, mine[t])
    BY <1>j DEF Hazard!Scan, Hazard!NextIndex
  <2>5. \A u \in Threads : Follows(u) /\ pc'[t] = "scan" /\ mine[u] = mine'[t] => slot[u] >= index'[t]
    BY <2>1, <2>2, <2>4
  <2> QED BY <1>j, <2>1, <2>3, <2>5 DEF Follows
<1>k. CASE t \in Poppers /\ Hazard!Sweep(t)
  <2> DEFINE node == Head(swept[t])
  <2>1. /\ UNCHANGED <<next, mine,
                       pointer>> /\ pc[t] = "sweep" /\ (pc' = pc \/ Hazard!Return(t))
        /\ index' = Hazard!NextIndex(t, node)
        /\ alive' = IF (Hazard!Hit(t, node) \/ Hazard!Searched(t)) /\ ~Hazard!Hit(t, node)
                    THEN alive \ {node} ELSE alive
        /\ ~ (Hazard!Hit(t, node) \/ Hazard!Searched(t)) => swept' = swept
    BY <1>k DEF Hazard!Sweep, Hazard!SweepOne
  <2>2. ASSUME NEW u \in Threads, Follows(u), mine[u] = node
        PROVE  slot[u] >= index[t] /\ (slot[u] = index[t] => Hazard!Hit(t, node))
    BY <2>1, <2>2 DEF HazardInv, Protected, Hazard!Hit
  <2> HIDE DEF node
  <2>3. ASSUME NEW u \in Threads, Follows(u)
        PROVE  mine[u] \in alive'
    <3>1. CASE mine[u] = node /\ Hazard!Searched(t)
      BY <2>1, <2>2, <2>3, <3>1 DEF Hazard!Searched
    <3>2. CASE ~ (mine[u] = node /\ Hazard!Searched(t))
      BY <2>1, <2>3, <3>2
    <3> QED BY <3>1, <3>2
  <2>4. \/ index'[t] = 1
        \/ index'[t] = index[t] + 1 /\ ~Hazard!Hit(t, node) /\ swept' = swept
    BY <2>1 DEF Hazard!NextIndex
  <2>5. \A u \in Threads : Follows(u) /\ mine[u] = Head(swept'[t]) => slot[u] >= index'[t]
    BY <2>1, <2>2, <2>4 DEF node
  <2>6. pc'[t] \in {"sweep", "claim", "load", "exit"}
    BY <1>k, <2>1, HazardReturn DEF HazardInv
  <2> QED BY <1>k, <2>1, <2>3, <2>5, <2>6 DEF Follows
<1> QED BY <1>a, <1>b, <1>c, <1>d, <1>e, <1>f, <1>g, <1>h, <1>i, <1>j, <1>k
  DEF Hazard!Thread, Hazard!Pusher, Hazard!Popper

LEMMA HazardStep ==
  ASSUME HazardInv, NEW t \in Threads, Hazard!Thread(t)
  PROVE  HazardInv'
<1>1. HazardCalls' /\ HazardTable'
  BY HazardCallsStep, HazardTableStep DEF HazardInv
<1>2. HazardNodes' /\ HazardLists' /\ HazardPlaces' /\ HazardChain'
  BY PushPlaces, PopPlaces, ScanPlaces, ExchangePlaces, SweepPlaces DEF Hazard!Thread,
      Hazard!Popper
<1>3. Protected'
  BY ProtectedStep
<1> QED BY <1>1, <1>2, <1>3 DEF HazardInv, HazardTypes

LEMMA HazardBegins ==
  ASSUME Hazard!Init
  PROVE  HazardInv
<1> USE SameThreads DEF Hazard!Init
<1>1. Threads = Pushers \cup Poppers /\ Pushers \cap Poppers = {} /\ Null \notin Nodes
  BY StackThreadsAssumption, NullAssumption DEF Threads
<1>2. \A t \in Threads : pc[t] = IF t \in Pushers THEN "load" ELSE "claim"
  OBVIOUS
<1>3. HazardCalls
  BY <1>1, CallsAssumption DEF HazardCalls, Steps, Inside
<1>4. HazardTable
  <2>1. PICK m \in 1 .. MaxHazardPointers :
          id = [k \in 1 .. m |-> Null] /\ pointer = [k \in 1 .. m |-> Null]
    BY DEF Hazard!Init
  <2>2. m \in Nat /\ m > 0
    BY HazardPointersAssumption
  <2>3. pointer \in Seq(Nodes \cup {Null}) /\ Len(pointer) = m
    BY <2>1, <2>2
  <2>4. id \in [1 .. m -> Poppers \cup {Null}]
    BY <2>1
  <2>5. slot = [t \in Threads |-> 0] /\ index = [t \in Threads |-> 1]
    BY DEF Hazard!Init
  <2> QED BY <1>1, <1>2, <2>2, <2>3, <2>4, <2>5 DEF HazardTable, Entries, Inside
<1>5. HazardNodes /\ HazardLists
  BY <1>2 DEF HazardNodes, HazardLists
<1>6. \A t \in Threads : ~Owns(t) /\ ~Follows(t) /\ pc[t] \notin {"reload", "cas", "scan", "sweep"}
  BY <1>1, <1>2 DEF Owns, Follows
<1>7. HazardPlaces
  BY <1>6, EmptyList DEF HazardPlaces
<1>8. HazardChain
  BY DEF HazardChain, InStack
<1>9. Protected
  BY <1>1, <1>6 DEF Protected
<1> QED BY <1>3, <1>4, <1>5, <1>7, <1>8, <1>9 DEF HazardInv, HazardTypes

LEMMA CountedBegins ==
  ASSUME Counted!Init
  PROVE  kind \in {"complete", "smart", "shared"} /\ CountedInv
  BY SameThreads, CallsAssumption DEF Counted!Init, CountedInv, Counted!TypeOK

-----------------------------------------------------------------------------
\* All four stacks
StacksInv ==
  /\ kind \in {"complete", "smart", "shared", "hazard"}
  /\ kind = "hazard" => HazardInv
  /\ kind # "hazard" => CountedInv

LEMMA StacksInvHolds == Spec => []StacksInv
<1>1. Init => StacksInv
  BY HazardBegins, CountedBegins DEF Init, StacksInv
<1>2. StacksInv /\ [Next]_vars => StacksInv'
  <2> SUFFICES ASSUME StacksInv, [Next]_vars PROVE StacksInv'
    OBVIOUS
  <2>1. ASSUME NEW t \in Threads, Thread(t) PROVE StacksInv'
    <3>1. CASE kind = "hazard"
      BY <2>1, <3>1, HazardStep DEF Thread, StacksInv
    <3>2. CASE kind # "hazard"
      <4>1. CountedInv' /\ Counted!Thread(t)
        BY <2>1, <3>2, CountedStep DEF Thread, StacksInv
      <4>2. kind' = kind
        BY <4>1 DEF Counted!Thread, Counted!Pusher, Counted!Popper, Counted!PushLoad,
           Counted!PushCas, Counted!PopLoad, Counted!PopCas, Counted!PopReturn
      <4> QED BY <3>2, <4>1, <4>2 DEF StacksInv
    <3> QED BY <3>1, <3>2
  <2>2. CASE UNCHANGED vars
    <3>1. UNCHANGED <<kind, head, next, mine, returned, calls, pc, data, alive, id, pointer,
                      retired,
                      slot, temp, index, swept>>
      BY <2>2 DEF vars, reclaim
    <3>2. CountedInv' <=> CountedInv
      BY <3>1 DEF CountedInv, Counted!TypeOK
    <3>3. HazardTypes' <=> HazardTypes
      BY <3>1 DEF HazardTypes, HazardCalls, HazardTable, HazardNodes, HazardLists, Entries
    <3>4. HazardPlaces' /\ HazardChain' /\ Protected' <=> HazardPlaces /\ HazardChain /\ Protected
      BY <3>1 DEF HazardPlaces, HazardChain, Protected, Owns, Follows, InStack
    <3> QED BY <3>1, <3>2, <3>3, <3>4 DEF StacksInv, HazardInv
  <2>3. CASE Join
    BY <2>2, <2>3 DEF Join, vars, reclaim, Counted!Join, Counted!vars, Hazard!Join,
        Hazard!vars,
       Hazard!nodes, Hazard!hazards, Hazard!locals
  <2> QED BY <2>1, <2>2, <2>3 DEF Next
<1> QED BY <1>1, <1>2, PTL DEF Spec

\* The types of all four stacks, and the shape of their threads' pointers.
THEOREM TypesHold == Spec => []TypeOK
<1>1. StacksInv => TypeOK
  <2>1. ASSUME HazardInv PROVE Hazard!TypeOK
    <3>1. DOMAIN pointer = Entries /\ pointer \in [Entries -> Nodes \cup {Null}]
      BY <2>1 DEF HazardInv, HazardTypes, HazardTable, Entries
    <3> QED BY <2>1, <3>1, SameThreads DEF Hazard!TypeOK, Hazard!HazardPointers, HazardInv,
          HazardTypes, HazardCalls, HazardTable, HazardNodes, HazardLists, Steps, Inside
  <2> QED BY <2>1 DEF StacksInv, TypeOK, CountedInv
<1> QED BY <1>1, StacksInvHolds, PTL

\* HazardPointerStack/main.cpp:140 and :101: with any number of threads and hazard
\* pointers, a node is deleted only when no other thread has seen head point to it
\* after its hazard pointer did.
THEOREM NeverInUseHolds == Spec => NeverInUse
<1>1. StacksInv /\ StacksInv' /\ [Next]_vars => [kind = "hazard" => Hazard!DeletesUnused]_vars
  <2> SUFFICES ASSUME StacksInv, StacksInv', [Next]_vars, kind = "hazard",
                      NEW n \in alive \ alive', NEW t \in Threads
               PROVE  ~Hazard!Trusts(t, n)' \/ UNCHANGED vars
    BY SameThreads DEF Hazard!DeletesUnused
  <2>1. CASE kind' = "hazard"
    <3>1. HazardPlaces' /\ Protected'
      BY <2>1 DEF StacksInv, HazardInv
    <3>2. (Owns(t) => mine[t] \in alive)' /\ (Follows(t) => mine[t] \in alive)'
      BY <3>1 DEF HazardPlaces, Protected
    <3> QED BY <3>2 DEF Hazard!Trusts, Owns, Follows
  <2>2. CASE kind' # "hazard"
    BY <2>2 DEF Next, Thread, Join, vars
  <2> QED BY <2>1, <2>2
<1> QED BY <1>1, StacksInvHolds, PTL DEF Spec, NeverInUse

-----------------------------------------------------------------------------
(***************************************************************************)
(* What is in the stack: the linked list from head on.                     *)
(***************************************************************************)
\* Induction, for a set of numbers
LEMMA Induction ==
  ASSUME NEW S, 0 \in S, \A n \in Nat : n \in S => n + 1 \in S
  PROVE  Nat \subseteq S
<1> DEFINE T == Nat \ S
           R == {r \in Nat \X Nat : r[1] < r[2]}
<1> SUFFICES ASSUME T # {} PROVE FALSE
  OBVIOUS
<1>1. IsWellFoundedOn(R, Nat)
  BY NatLessThanWellFounded DEF OpToRel
<1>2. PICK x \in T : \A y \in T : <<y, x>> \notin R
  <2> HIDE DEF R
  <2> QED BY <1>1, WFMin
<1>3. x - 1 \in T /\ x - 1 < x
  OBVIOUS
<1> QED BY <1>2, <1>3

\* A linked list is determined by its first element.
LEMMA ListAgrees ==
  ASSUME NEW S, Null \notin S, NEW first, NEW link,
         NEW a \in Seq(S), IsList(a, first, link), NEW b \in Seq(S), IsList(b, first, link),
         NEW i \in 1 .. Len(a)
  PROVE  i \in 1 .. Len(b) /\ a[i] = b[i]
<1> DEFINE Same == {k \in Nat : k + 1 \in 1 .. Len(a) => k + 1 \in 1 .. Len(b) /\ a[k + 1] = b[k + 1]}
<1>1. 0 \in Same
  BY DEF IsList
<1>2. ASSUME NEW k \in Nat, k \in Same PROVE k + 1 \in Same
  <2> SUFFICES ASSUME (k + 1) + 1 \in 1 .. Len(a)
               PROVE  (k + 1) + 1 \in 1 .. Len(b) /\ a[(k + 1) + 1] = b[(k + 1) + 1]
    OBVIOUS
  <2>1. /\ k + 1 \in 1 .. Len(a) - 1 /\ a[k + 1] = b[k + 1] /\ k + 1 \in 1 .. Len(b)
        /\ a # <<>> /\ b # <<>>
    BY <1>2
  <2>2. link[a[k + 1]] = a[(k + 1) + 1] /\ a[(k + 1) + 1] \in S
    BY <2>1 DEF IsList
  <2>3. k + 1 # Len(b)
    BY <2>1, <2>2 DEF IsList
  <2>4. k + 1 \in 1 .. Len(b) - 1
    BY <2>1, <2>3
  <2> QED BY <2>1, <2>2, <2>4 DEF IsList
<1> HIDE DEF Same
<1>3. i - 1 \in Same
  BY <1>1, <1>2, Induction
<1> QED BY <1>3 DEF Same

LEMMA ListIs ==
  ASSUME NEW S, IsFiniteSet(S), Null \notin S, NEW first, NEW link, DOMAIN link = S,
         NEW s \in Seq(S), Distinct(s), IsList(s, first, link)
  PROVE  List(first, link) = s
<1>1. Len(s) <= Cardinality(S) /\ Cardinality(S) \in Nat
  <2>1. s \in Injection(1 .. Len(s), S)
    BY LenProperties DEF Distinct, Injection, IsInjective
  <2>2. Cardinality(1 .. Len(s)) <= Cardinality(S)
    BY <2>1, FS_Injection
  <2>3. Len(s) \in Nat /\ Len(s) \in Int /\ 1 \in Int
    OBVIOUS
  <2>4. Cardinality(1 .. Len(s)) = IF 1 > Len(s) THEN 0 ELSE Len(s) - 1 + 1
    BY <2>3, FS_Interval
  <2> QED BY <2>2, <2>3, <2>4, FS_CardinalityType
<1>2. \A t \in SeqOf(S, Cardinality(S)) : t \in Seq(S)
  BY <1>1 DEF SeqOf
<1>3. s \in SeqOf(S, Cardinality(S))
  <2>1. Len(s) \in 0 .. Cardinality(S) /\ s \in [1 .. Len(s) -> S]
    BY <1>1
  <2> QED BY <2>1 DEF SeqOf
<1>4. ASSUME NEW t \in Seq(S), IsList(t, first, link) PROVE t = s
  <2>1. \A i \in 1 .. Len(s) : i \in 1 .. Len(t) /\ s[i] = t[i]
    BY <1>4, ListAgrees
  <2>2. \A i \in 1 .. Len(t) : i \in 1 .. Len(s)
    BY <1>4, ListAgrees
  <2>3. Len(s) = Len(t)
    BY <2>1, <2>2
  <2> QED BY <2>1, <2>3, SeqEqual
<1>5. \E t \in SeqOf(S, Cardinality(S)) : IsList(t, first, link)
  BY <1>3
<1>6. /\ List(first, link) \in SeqOf(S, Cardinality(S))
      /\ IsList(List(first, link), first, link)
  <2> DEFINE P(t) == IsList(t, first, link)
  <2> QED BY <1>5 DEF List
<1> QED BY <1>2, <1>4, <1>6

\* The list that the operators of a program's module name
LEMMA SameList ==
  ASSUME NEW first, NEW link
  PROVE  Counted!List(first, link) = List(first, link) /\ Hazard!List(first, link) = List(first, link)
<1>1. Counted!Cardinality(DOMAIN link) = Cardinality(DOMAIN link)
  BY Zenon DEF Counted!Cardinality, Cardinality
<1>2. Hazard!Cardinality(DOMAIN link) = Cardinality(DOMAIN link)
  BY Zenon DEF Hazard!Cardinality, Cardinality
<1>3. ASSUME NEW S, NEW n PROVE Counted!SeqOf(S, n) = SeqOf(S, n) /\ Hazard!SeqOf(S, n) = SeqOf(S, n)
  BY Zenon DEF Counted!SeqOf, Hazard!SeqOf, SeqOf
<1> QED BY <1>1, <1>2, <1>3, SMT
  DEF Counted!List, Counted!IsList, Hazard!List, Hazard!IsList, List, IsList

LEMMA ListPushed ==
  ASSUME NEW S, NEW first, NEW link, NEW s \in Seq(S), IsList(s, first, link),
         NEW x \in S, link[x] = first
  PROVE  IsList(<<x>> \o s, x, link)
<1> DEFINE q == <<x>> \o s
<1>1. /\ q \in Seq(S) /\ q # <<>> /\ Len(q) = Len(s) + 1 /\ q[1] = x /\ Len(s) \in Nat
      /\ \A i \in 1 .. Len(s) : q[i + 1] = s[i]
  OBVIOUS
<1>2. s = <<>> <=> Len(s) = 0
  OBVIOUS
<1> HIDE DEF q
<1>3. CASE s = <<>>
  BY <1>1, <1>2, <1>3 DEF IsList, q
<1>4. CASE s # <<>>
  <2>1. Len(s) \in 1 .. Len(s) /\ 1 \in 1 .. Len(s)
    BY <1>1, <1>2, <1>4
  <2>2. link[q[Len(q)]] = Null
    BY <1>1, <1>4, <2>1 DEF IsList
  <2>3. ASSUME NEW k \in 1 .. Len(q) - 1 PROVE link[q[k]] = q[k + 1]
    <3>1. CASE k = 1
      BY <1>1, <1>4, <2>1, <3>1 DEF IsList
    <3>2. CASE k # 1
      <4>1. k - 1 \in 1 .. Len(s) - 1 /\ k - 1 \in 1 .. Len(s) /\ k \in 1 .. Len(s) /\ (k - 1) + 1 = k
        BY <1>1, <3>2
      <4>2. q[k] = s[k - 1] /\ q[k + 1] = s[k]
        BY <1>1, <4>1
      <4>3. link[s[k - 1]] = s[k]
        BY <1>4, <4>1 DEF IsList
      <4> QED BY <4>2, <4>3
    <3> QED BY <3>1, <3>2
  <2> QED BY <1>1, <2>2, <2>3 DEF IsList, q
<1> QED BY <1>3, <1>4

LEMMA ListPopped ==
  ASSUME NEW S, NEW first, NEW link, NEW s \in Seq(S), IsList(s, first, link), s # <<>>
  PROVE  Head(s) = first /\ IsList(Tail(s), link[first], link)
<1> DEFINE q == Tail(s)
<1>1. /\ q \in Seq(S) /\ Len(q) = Len(s) - 1 /\ Head(s) = s[1] /\ Len(s) \in Nat \ {0}
      /\ \A i \in 1 .. Len(q) : q[i] = s[i + 1]
  OBVIOUS
<1> HIDE DEF q
<1>2. q = <<>> <=> Len(q) = 0
  BY <1>1
<1>3. first = s[1]
  BY DEF IsList
<1>4. CASE q = <<>>
  BY <1>1, <1>2, <1>3, <1>4 DEF IsList, q
<1>5. CASE q # <<>>
  <2>1. 1 \in 1 .. Len(q) /\ Len(q) \in 1 .. Len(q) /\ 1 \in 1 .. Len(s) - 1
    BY <1>1, <1>2, <1>3, <1>5
  <2>2. link[first] = q[1] /\ link[q[Len(q)]] = Null
    BY <1>1, <1>2, <1>3, <2>1 DEF IsList
  <2>3. \A k \in 1 .. Len(q) - 1 : link[q[k]] = q[k + 1]
    BY <1>1 DEF IsList
  <2> QED BY <1>1, <1>2, <1>3, <1>5, <2>2, <2>3 DEF IsList, q
<1> QED BY <1>1, <1>2, <1>3, <1>4, <1>5

\* Links outside a list do not matter to it.
LEMMA ListKept ==
  ASSUME NEW S, NEW first, NEW link, NEW other, NEW s \in Seq(S), IsList(s, first, link),
         \A x : In(s, x) => other[x] = link[x]
  PROVE  IsList(s, first, other)
  BY DEF IsList, In

\* A step of an abstract stack, or none: the values in it, and the values popped
StackStep(s, popped, r, popped2) ==
  \/ r = s /\ popped2 = popped
  \/ (\E v \in Value : r = <<v>> \o s) /\ popped2 = popped
  \/ /\ s # <<>> /\ Head(s) \notin popped
     /\ r = Tail(s) /\ popped2 = popped \cup {Head(s)}

\* The push of value v has returned, if c are the calls completed.
Done(v, c) == v[2] <= c[v[1]]

\* The stack of a counted program holds s: values pushed, and popped by nobody.
CountedHolds(s) ==
  /\ s \in Seq(Value) /\ Distinct(s) /\ IsList(s, head, next)
  /\ \A v \in Value : In(s, v) => Done(v, calls) /\ v \notin Counted!Popped
  /\ \A v \in Counted!Popped : v \in Value /\ Done(v, calls)
  /\ \A t \in Pushers : pc[t] = "cas" => mine[t] = <<t, calls[t] + 1>>

LEMMA ValuesFinite == IsFiniteSet(Value) /\ IsFiniteSet(Nodes) /\ Null \notin Value /\ Null \notin Nodes
<1>1. IsFiniteSet(1 .. Calls)
  BY CallsAssumption, FS_Interval
<1>2. IsFiniteSet(Pushers)
  BY StackThreadsAssumption
<1> QED BY <1>1, <1>2, FS_Product, NodesAssumption, NullAssumption DEF Value

LEMMA CountedReach ==
  ASSUME CountedInv, NEW s, CountedHolds(s)
  PROVE  Counted!Reach = s
<1>1. DOMAIN next = Value
  BY SameThreads DEF CountedInv, Counted!TypeOK
<1>2. List(head, next) = s
  BY <1>1, ValuesFinite, ListIs DEF CountedHolds
<1> QED BY <1>2, SameList DEF Counted!Reach

LEMMA CountedMoves ==
  ASSUME CountedInv, NEW s, CountedHolds(s), NEW t \in Threads, Counted!Thread(t)
  PROVE  \E r : CountedHolds(r)' /\ StackStep(s, Counted!Popped, r, Counted!Popped')
<1>1. /\ Threads = Pushers \cup Poppers /\ Pushers \cap Poppers = {} /\ Null \notin Value
      /\ \A v \in Value : v[1] \in Pushers /\ v[2] \in Nat
      /\ head \in Value \cup {Null} /\ next \in [Value -> Value \cup {Null}]
      /\ mine \in [Threads -> Value \cup {Null}] /\ calls \in [Threads -> 0 .. Calls]
      /\ pc \in [Threads -> {"load", "cas", "return", "done", "crashed"}]
      /\ \A u \in Threads : pc[u] \in {"cas", "return"} => mine[u] \in Value
  BY StackThreadsAssumption, ValuesFinite, CallsAssumption, SameThreads
  DEF Threads, Value, CountedInv, Counted!TypeOK
<1>2. /\ s \in Seq(Value) /\ Distinct(s) /\ IsList(s, head, next)
      /\ \A v \in Value : In(s, v) => Done(v, calls) /\ v \notin Counted!Popped
      /\ \A v \in Counted!Popped : v \in Value /\ Done(v, calls)
      /\ \A u \in Pushers : pc[u] = "cas" => mine[u] = <<u, calls[u] + 1>>
  BY DEF CountedHolds
<1> DEFINE Keeps(q) ==
      /\ q \in Seq(Value) /\ Distinct(q) /\ IsList(q, head', next')
      /\ \A v \in Value : In(q, v) => Done(v, calls') /\ v \notin Counted!Popped'
      /\ \A v \in Counted!Popped' : v \in Value /\ Done(v, calls')
      /\ \A u \in Pushers : pc'[u] = "cas" => mine'[u] = <<u, calls'[u] + 1>>
<1>3. ASSUME NEW q, Keeps(q) PROVE CountedHolds(q)'
  BY <1>3 DEF CountedHolds
<1> HIDE DEF Value, Threads
<1>4. CASE t \in Pushers /\ Counted!PushLoad(t)
  <2> DEFINE node == <<t, calls[t] + 1>>
  <2>1. /\ pc[t] = "load" /\ pc' = [pc EXCEPT ![t] = "cas"] /\ mine' = [mine EXCEPT ![t] = node]
        /\ next' = [next EXCEPT ![node] = head] /\ UNCHANGED <<head, returned, calls>>
    BY <1>4 DEF Counted!PushLoad, Counted!Goto
  <2>2. Counted!Popped' = Counted!Popped
    BY <1>1, <1>4, <2>1 DEF Counted!Popped
  <2>3. ~Done(node, calls)
    BY <1>1, <1>4 DEF Done
  <2>4. \A v : Done(v, calls') <=> Done(v, calls)
    BY <2>1 DEF Done
  <2>5. \A v \in Value : v # node => next'[v] = next[v]
    BY <1>1, <2>1
  <2> HIDE DEF node
  <2>6. \A v : In(s, v) => v \in Value /\ next'[v] = next[v]
    BY <1>2, <2>3, <2>5, ElementOfSeq DEF In
  <2>7. IsList(s, head', next')
    BY <1>2, <2>1, <2>6, ListKept
  <2>8. Keeps(s)
    BY <1>1, <1>2, <2>1, <2>2, <2>4, <2>7 DEF node
  <2> QED BY <1>3, <2>2, <2>8 DEF StackStep
<1>5. CASE t \in Pushers /\ Counted!PushCas(t)
  <2>1. /\ pc[t] = "cas" /\ mine[t] = <<t, calls[t] + 1>> /\ mine[t] \in Value
        /\ UNCHANGED <<mine, returned>>
    BY <1>1, <1>2, <1>5 DEF Counted!PushCas
  <2>2. ~Done(mine[t], calls)
    BY <1>1, <2>1 DEF Done
  <2>3. ~In(s, mine[t]) /\ mine[t] \notin Counted!Popped
    BY <1>2, <2>1, <2>2
  <2>4. CASE head = next[mine[t]]
    <3>1. head' = mine[t] /\ UNCHANGED next /\ Counted!Return(t)
      BY <1>5, <2>4 DEF Counted!PushCas
    <3>2. /\ calls'[t] = calls[t] + 1 /\ pc'[t] \in {"load", "done"}
          /\ \A u \in Threads : u # t => calls'[u] = calls[u] /\ pc'[u] = pc[u]
      BY <1>1, <1>5, <3>1 DEF Counted!Return, Counted!Goto
    <3>3. Counted!Popped' = Counted!Popped
      BY <1>1, <1>5, <2>1, <3>2 DEF Counted!Popped
    <3>4. \A v \in Value : Done(v, calls) \/ v = mine[t] => Done(v, calls')
      BY <1>1, <2>1, <3>2 DEF Done
    <3>5. /\ <<mine[t]>> \o s \in Seq(Value) /\ Distinct(<<mine[t]>> \o s)
          /\ \A v : In(<<mine[t]>> \o s, v) <=> v = mine[t] \/ In(s, v)
      BY <1>2, <2>1, <2>3, Prepended
    <3>6. IsList(<<mine[t]>> \o s, head', next')
      BY <1>2, <2>1, <2>4, <3>1, ListPushed
    <3>7. Keeps(<<mine[t]>> \o s)
      BY <1>1, <1>2, <2>1, <2>3, <3>2, <3>3, <3>4, <3>5, <3>6
    <3> QED BY <1>3, <2>1, <3>3, <3>7 DEF StackStep
  <2>5. CASE head # next[mine[t]]
    <3>1. next' = [next EXCEPT ![mine[t]] = head] /\ UNCHANGED <<head, calls, pc>>
      BY <1>5, <2>5 DEF Counted!PushCas
    <3>2. Counted!Popped' = Counted!Popped /\ \A v : Done(v, calls') <=> Done(v, calls)
      BY <2>1, <3>1 DEF Counted!Popped, Done
    <3>3. \A v : In(s, v) => v \in Value /\ next'[v] = next[v]
      BY <1>1, <1>2, <2>3, <3>1, ElementOfSeq DEF In
    <3>4. IsList(s, head', next')
      BY <1>2, <3>1, <3>3, ListKept
    <3>5. Keeps(s)
      BY <1>2, <2>1, <3>1, <3>2, <3>4
    <3> QED BY <1>3, <3>2, <3>5 DEF StackStep
  <2> QED BY <2>4, <2>5
<1>6. CASE t \in Poppers /\ Counted!Popper(t)
  <2>1. /\ UNCHANGED next /\ \A u \in Threads : u # t => /\ pc'[u] = pc[u] /\ mine'[u] = mine[u]
                                                        /\ calls'[u] = calls[u]
    BY <1>1, <1>6 DEF Counted!Popper, Counted!PopLoad, Counted!PopCas, Counted!PopReturn,
       Counted!Return, Counted!Goto
  <2>2. \A v \in Value : Done(v, calls') <=> Done(v, calls)
    BY <1>1, <1>6, <2>1 DEF Done
  <2>3. \A u \in Pushers : pc'[u] = "cas" => mine'[u] = <<u, calls'[u] + 1>>
    BY <1>1, <1>2, <1>6, <2>1
  <2>4. CASE UNCHANGED head /\ Counted!Popped' = Counted!Popped
    <3>1. Keeps(s)
      BY <1>2, <2>1, <2>2, <2>3, <2>4
    <3> QED BY <1>3, <2>4, <3>1 DEF StackStep
  <2>5. CASE pc[t] = "cas" /\ head = mine[t] /\ Counted!PopCas(t)
    <3>1. /\ head' = next[mine[t]] /\ pc'[t] = "return" /\ mine'[t] = mine[t] /\ UNCHANGED returned
      BY <1>1, <2>5 DEF Counted!PopCas, Counted!Goto
    <3>2. s # <<>> /\ mine[t] \in Value
      BY <1>1, <1>2, <2>5 DEF IsList
    <3>3. Head(s) = mine[t] /\ IsList(Tail(s), head', next')
      BY <1>2, <2>1, <2>5, <3>1, <3>2, ListPopped
    <3>4. /\ Tail(s) \in Seq(Value) /\ Distinct(Tail(s)) /\ In(s, mine[t])
          /\ \A v : In(Tail(s), v) <=> In(s, v) /\ v # mine[t]
      BY <1>2, <3>2, <3>3, TailOf
    <3>5. Counted!Popped' = Counted!Popped \cup {mine[t]}
      BY <1>1, <1>6, <2>1, <2>5, <3>1 DEF Counted!Popped
    <3>6. mine[t] \notin Counted!Popped /\ Done(mine[t], calls)
      BY <1>2, <3>2, <3>4
    <3>7. Keeps(Tail(s))
      BY <1>2, <2>2, <2>3, <3>2, <3>3, <3>4, <3>5, <3>6
    <3> QED BY <1>3, <3>2, <3>3, <3>5, <3>6, <3>7 DEF StackStep
  <2>6. \/ UNCHANGED head /\ Counted!Popped' = Counted!Popped
        \/ pc[t] = "cas" /\ head = mine[t] /\ Counted!PopCas(t)
    <3>1. CASE Counted!PopReturn(t)
      BY <1>1, <1>6, <2>1, <3>1 DEF Counted!PopReturn, Counted!Popped, Counted!Return, Counted!Goto
    <3>2. CASE Counted!PopLoad(t)
      BY <1>1, <1>6, <2>1, <3>2 DEF Counted!PopLoad, Counted!Popped, Counted!Goto
    <3>3. CASE Counted!PopCas(t) /\ head # mine[t]
      BY <1>1, <1>6, <2>1, <3>3 DEF Counted!PopCas, Counted!Popped, Counted!Return, Counted!Goto
    <3>4. CASE Counted!PopCas(t) /\ head = mine[t]
      BY <3>4 DEF Counted!PopCas
    <3> QED BY <1>6, <3>1, <3>2, <3>3, <3>4 DEF Counted!Popper
  <2> QED BY <2>4, <2>5, <2>6
<1> QED BY <1>4, <1>5, <1>6 DEF Counted!Thread, Counted!Pusher

\* The hazard-pointer stack has the nodes of s: those in no other place.  Their values
\* are all different, pushed, and popped by nobody.
HazardHolds(s) ==
  /\ s \in Seq(Nodes) /\ Distinct(s) /\ IsList(s, head, next)
  /\ \A n : In(s, n) <=> InStack(n)
  /\ \A n : InStack(n) => Done(data[n], calls) /\ data[n] \notin Hazard!Popped
  /\ \A n, m : InStack(n) /\ InStack(m) /\ data[n] = data[m] => n = m
  /\ \A v \in Hazard!Popped : v \in Value /\ Done(v, calls)
  /\ \A t \in Pushers : pc[t] = "cas" => data[mine[t]] = <<t, calls[t] + 1>>

\* The values of a list of nodes
ValuesOf(s, d) == [k \in DOMAIN s |-> d[s[k]]]

LEMMA ValuesOfList ==
  ASSUME NEW s \in Seq(Nodes), NEW d, \A i \in 1 .. Len(s) : d[s[i]] \in Value
  PROVE  /\ ValuesOf(s, d) \in Seq(Value) /\ Len(ValuesOf(s, d)) = Len(s)
         /\ \A i \in 1 .. Len(s) : ValuesOf(s, d)[i] = d[s[i]]
  BY DEF ValuesOf

LEMMA HazardReach ==
  ASSUME HazardInv, NEW s, HazardHolds(s)
  PROVE  Hazard!Chain = s /\ Hazard!Reach = ValuesOf(s, data)
<1>1. DOMAIN next = Nodes
  BY DEF HazardInv, HazardTypes, HazardNodes
<1>2. List(head, next) = s
  BY <1>1, ValuesFinite, ListIs DEF HazardHolds
<1>3. Hazard!Chain = s
  BY <1>2, SameList DEF Hazard!Chain
<1> QED BY <1>3 DEF Hazard!Reach, ValuesOf

\* Which values a step of t adds to the popped ones
LEMMA HazardPopped ==
  ASSUME HazardInv, NEW t \in Threads, Hazard!Thread(t)
  PROVE  IF t \in Poppers /\ pc[t] = "cas" /\ head = mine[t]
         THEN Hazard!Popped' = Hazard!Popped \cup {data[mine[t]]} ELSE Hazard!Popped' = Hazard!Popped
<1>1. /\ Threads = Pushers \cup Poppers /\ Pushers \cap Poppers = {}
      /\ mine \in [Threads -> Nodes \cup {Null}] /\ pc \in [Threads -> Steps]
      /\ data \in [Nodes -> Value \cup {Null}] /\ alive \subseteq Nodes
  BY StackThreadsAssumption DEF Threads, HazardInv, HazardTypes, HazardNodes, HazardCalls
<1>2. \A u \in Threads : u # t => pc'[u] = pc[u] /\ mine'[u] = mine[u]
  BY HazardOthers DEF HazardInv
<1>3. \A u \in Poppers : pc[u] \in {"clear", "data"} => mine[u] \in alive
  BY <1>1 DEF HazardInv, HazardPlaces, Owns
<1>4. CASE t \in Pushers
  <2>1. UNCHANGED returned /\ \A n \in alive : data'[n] = data[n]
    BY <1>1, <1>4 DEF Hazard!Thread, Hazard!Pusher, Hazard!PushLoad, Hazard!PushCas, Hazard!Set
  <2> QED BY <1>1, <1>2, <1>3, <1>4, <2>1 DEF Hazard!Popped
<1>5. CASE t \in Poppers
  <2>1. UNCHANGED data /\ Hazard!Popper(t)
    BY <1>1, <1>5 DEF Hazard!Thread, Hazard!Popper, Hazard!Claim, Hazard!ClaimOne, Hazard!PopLoad,
       Hazard!Publish, Hazard!Reload, Hazard!ReadNext, Hazard!PopCas, Hazard!Clear, Hazard!ReadData,
       Hazard!Scan, Hazard!Exchange, Hazard!Sweep, Hazard!SweepOne, Hazard!Exit, Hazard!nodes
  <2>2. CASE UNCHANGED returned /\ pc[t] \notin {"clear", "data"} /\ pc'[t] \notin {"clear", "data"}
    <3>1. ~ (pc[t] = "cas" /\ head = mine[t])
      BY <1>1, <2>1, <2>2 DEF Hazard!Popper, Hazard!Claim, Hazard!ClaimOne, Hazard!PopLoad,
       Hazard!Publish, Hazard!Reload, Hazard!ReadNext, Hazard!PopCas, Hazard!Clear, Hazard!ReadData,
       Hazard!Scan, Hazard!Exchange, Hazard!Sweep, Hazard!SweepOne, Hazard!Exit, Hazard!Goto
    <3> QED BY <1>1, <1>2, <1>5, <2>1, <2>2, <3>1 DEF Hazard!Popped
  <2>3. CASE Hazard!PopCas(t) /\ head = mine[t]
    <3>1. pc[t] = "cas" /\ UNCHANGED <<mine, returned>> /\ pc'[t] = "clear"
      BY <1>1, <2>3 DEF Hazard!PopCas, Hazard!Goto
    <3> QED BY <1>1, <1>2, <1>5, <2>1, <2>3, <3>1 DEF Hazard!Popped
  <2>4. CASE Hazard!Clear(t)
    <3>1. pc[t] = "clear" /\ UNCHANGED <<mine, returned>> /\ pc'[t] = "data"
      BY <1>1, <2>4 DEF Hazard!Clear, Hazard!Goto, Hazard!locals
    <3> QED BY <1>1, <1>2, <1>5, <2>1, <3>1 DEF Hazard!Popped
  <2>5. CASE Hazard!ReadData(t)
    <3>1. /\ pc[t] = "data" /\ UNCHANGED mine /\ pc'[t] = "scan"
          /\ returned' = returned \cup {data[mine[t]]}
      BY <1>1, <2>5 DEF Hazard!ReadData, Hazard!Goto
    <3> QED BY <1>1, <1>2, <1>5, <2>1, <3>1 DEF Hazard!Popped
  <2>6. \/ UNCHANGED returned /\ pc[t] \notin {"clear", "data"} /\ pc'[t] \notin {"clear", "data"}
        \/ Hazard!PopCas(t) /\ head = mine[t]
        \/ Hazard!Clear(t)
        \/ Hazard!ReadData(t)
    <3>1. Hazard!Return(t) => pc'[t] \notin {"clear", "data"}
      BY <1>1 DEF Hazard!Return, Hazard!Goto
    <3> QED BY <1>1, <2>1, <3>1 DEF Hazard!Popper, Hazard!Claim, Hazard!ClaimOne, Hazard!PopLoad,
       Hazard!Publish, Hazard!Reload, Hazard!ReadNext, Hazard!PopCas, Hazard!Goto,
       Hazard!Scan, Hazard!Exchange, Hazard!Sweep, Hazard!SweepOne, Hazard!Exit, Hazard!locals
  <2> QED BY <2>2, <2>3, <2>4, <2>5, <2>6
<1> QED BY <1>1, <1>4, <1>5

\* What a step does to the nodes' values and the calls of the threads that push
LEMMA HazardValues ==
  ASSUME HazardInv, NEW t \in Threads, Hazard!Thread(t), NEW s, HazardHolds(s)
  PROVE  /\ \A n \in alive : data'[n] = data[n]
         /\ \A v \in Value : Done(v, calls) => Done(v, calls')
         /\ \A u \in Pushers : pc'[u] = "cas" => data'[mine'[u]] = <<u, calls'[u] + 1>>
         /\ t \in Pushers /\ pc[t] = "cas" /\ head = next[mine[t]] => Done(data[mine[t]], calls')
<1>1. /\ Threads = Pushers \cup Poppers /\ Pushers \cap Poppers = {}
      /\ mine \in [Threads -> Nodes \cup {Null}] /\ pc \in [Threads -> Steps]
      /\ data \in [Nodes -> Value \cup {Null}] /\ alive \subseteq Nodes
      /\ calls \in [Threads -> 0 .. Calls] /\ \A v \in Value : v[1] \in Pushers /\ v[2] \in Nat
  BY StackThreadsAssumption, CallsAssumption DEF Threads, Value, HazardInv, HazardTypes, HazardNodes,
     HazardCalls
<1>2. \A u \in Threads : u # t => pc'[u] = pc[u] /\ mine'[u] = mine[u]
  BY HazardOthers DEF HazardInv
<1>3. \A u \in Pushers : pc[u] = "cas" => mine[u] \in alive /\ data[mine[u]] = <<u, calls[u] + 1>>
  BY <1>1 DEF HazardInv, HazardPlaces, Owns, HazardHolds
<1>4. CASE t \in Pushers /\ Hazard!PushLoad(t)
  <2>1. PICK n \in Nodes \ alive :
          mine' = [mine EXCEPT ![t] = n] /\ data' = [data EXCEPT ![n] = <<t, calls[t] + 1>>]
    BY <1>4 DEF Hazard!PushLoad, Hazard!Set
  <2>2. pc[t] = "load" /\ UNCHANGED calls
    BY <1>4 DEF Hazard!PushLoad
  <2>3. \A v : Done(v, calls') <=> Done(v, calls)
    BY <2>2 DEF Done
  <2> QED BY <1>1, <1>2, <1>3, <1>4, <2>1, <2>2, <2>3
<1>5. CASE t \in Pushers /\ Hazard!PushCas(t)
  <2>1. pc[t] = "cas" /\ UNCHANGED <<data, mine>>
    BY <1>5 DEF Hazard!PushCas
  <2>2. CASE head = next[mine[t]]
    <3>1. /\ calls' = [calls EXCEPT ![t] = calls[t] + 1] /\ Hazard!Return(t)
      BY <1>5, <2>2 DEF Hazard!PushCas, Hazard!Return, Hazard!Set
    <3>2. pc'[t] # "cas"
      BY <1>1, <3>1 DEF Hazard!Return, Hazard!Goto
    <3>3. \A v \in Value : Done(v, calls) => Done(v, calls')
      BY <1>1, <3>1 DEF Done
    <3>4. Done(<<t, calls[t] + 1>>, calls')
      BY <1>1, <3>1 DEF Done
    <3> QED BY <1>1, <1>2, <1>3, <1>5, <2>1, <3>1, <3>2, <3>3, <3>4
  <2>3. CASE head # next[mine[t]]
    <3>1. UNCHANGED <<calls, pc>>
      BY <1>5, <2>3 DEF Hazard!PushCas
    <3>2. \A v : Done(v, calls') <=> Done(v, calls)
      BY <3>1 DEF Done
    <3> QED BY <1>3, <2>1, <2>3, <3>1, <3>2
  <2> QED BY <2>2, <2>3
<1>6. CASE t \in Poppers /\ Hazard!Popper(t)
  <2>1. UNCHANGED data
    BY <1>6 DEF Hazard!Popper, Hazard!Claim, Hazard!ClaimOne, Hazard!PopLoad,
       Hazard!Publish, Hazard!Reload, Hazard!ReadNext, Hazard!PopCas, Hazard!Clear, Hazard!ReadData,
       Hazard!Scan, Hazard!Exchange, Hazard!Sweep, Hazard!SweepOne, Hazard!Exit, Hazard!nodes
  <2>2. calls' = calls \/ calls' = [calls EXCEPT ![t] = calls[t] + 1]
    BY <1>6 DEF Hazard!Popper, Hazard!Claim, Hazard!ClaimOne, Hazard!PopLoad,
       Hazard!Publish, Hazard!Reload, Hazard!ReadNext, Hazard!PopCas, Hazard!Clear, Hazard!ReadData,
       Hazard!Scan, Hazard!Exchange, Hazard!Sweep, Hazard!SweepOne, Hazard!Exit, Hazard!locals,
       Hazard!Return, Hazard!Set
  <2>3. \A u \in Pushers : calls'[u] = calls[u] /\ u # t
    BY <1>1, <1>6, <2>2
  <2>4. \A v \in Value : Done(v, calls') <=> Done(v, calls)
    BY <1>1, <2>3 DEF Done
  <2> QED BY <1>1, <1>2, <1>3, <1>6, <2>1, <2>3, <2>4
<1> QED BY <1>4, <1>5, <1>6 DEF Hazard!Thread, Hazard!Pusher

LEMMA HazardMoves ==
  ASSUME HazardInv, NEW s, HazardHolds(s), NEW t \in Threads, Hazard!Thread(t)
  PROVE  \E r : /\ HazardHolds(r)'
                /\ StackStep(ValuesOf(s, data), Hazard!Popped, ValuesOf(r, data'), Hazard!Popped')
<1>1. /\ s \in Seq(Nodes) /\ Distinct(s) /\ IsList(s, head, next)
      /\ \A n : In(s, n) <=> InStack(n)
      /\ \A n : InStack(n) => n \in alive /\ data[n] \in Value /\ data'[n] = data[n]
      /\ \A n : InStack(n) => Done(data[n], calls') /\ data[n] \notin Hazard!Popped
      /\ \A n, m : InStack(n) /\ InStack(m) /\ data[n] = data[m] => n = m
      /\ \A v \in Hazard!Popped : v \in Value /\ Done(v, calls')
      /\ \A u \in Pushers : pc'[u] = "cas" => data'[mine'[u]] = <<u, calls'[u] + 1>>
  BY HazardValues DEF HazardHolds, InStack, HazardInv, HazardPlaces
<1>2. /\ Threads = Pushers \cup Poppers /\ Pushers \cap Poppers = {}
      /\ mine \in [Threads -> Nodes \cup {Null}] /\ pc \in [Threads -> Steps] /\ Null \notin Nodes
      /\ calls \in [Threads -> 0 .. Calls] /\ alive \subseteq Nodes
  BY StackThreadsAssumption, NullAssumption
  DEF Threads, HazardInv, HazardTypes, HazardNodes, HazardCalls
<1> DEFINE Keeps(q) ==
      /\ q \in Seq(Nodes) /\ Distinct(q) /\ IsList(q, head', next')
      /\ \A n : In(q, n) <=> InStack(n)'
      /\ \A n : InStack(n)' => Done(data'[n], calls') /\ data'[n] \notin Hazard!Popped'
      /\ \A n, m : InStack(n)' /\ InStack(m)' /\ data'[n] = data'[m] => n = m
      /\ \A v \in Hazard!Popped' : v \in Value /\ Done(v, calls')
<1>3. ASSUME NEW q, Keeps(q) PROVE HazardHolds(q)'
  BY <1>1, <1>3 DEF HazardHolds
<1>4. CASE StackStays /\ Hazard!Popped' = Hazard!Popped
  <2>1. IsList(s, head', next')
    BY <1>1, <1>4, ListKept DEF StackStays
  <2>2. Keeps(s)
    BY <1>1, <1>4, <2>1 DEF StackStays
  <2>3. ValuesOf(s, data') = ValuesOf(s, data)
    BY <1>1 DEF ValuesOf, In
  <2> QED BY <1>3, <1>4, <2>2, <2>3 DEF StackStep
<1>5. CASE t \in Pushers /\ StackPushed(t)
  <2> DEFINE node == mine[t]
             r == <<node>> \o s
  <2>1. /\ node \in Nodes /\ head' = node /\ next[node] = head /\ UNCHANGED next /\ ~InStack(node)
        /\ \A n : InStack(n)' <=> InStack(n) \/ n = node
    BY <1>5 DEF StackPushed
  <2>2. /\ node \in alive /\ data[node] = <<t, calls[t] + 1>> /\ data[node] \in Value
        /\ data'[node] = data[node] /\ Done(data[node], calls') /\ ~Done(data[node], calls)
    <3>1. pc[t] = "cas" /\ head = next[mine[t]] /\ Owns(t)
      BY <1>2, <1>5 DEF StackPushed, Owns
    <3>2. node \in alive /\ data[node] \in Value /\ data[node] = <<t, calls[t] + 1>>
      BY <1>5, <3>1 DEF HazardInv, HazardPlaces, HazardHolds
    <3> QED BY <1>2, <1>5, <3>1, <3>2, HazardValues DEF Done
  <2>3. /\ data[node] \notin Hazard!Popped
        /\ \A n : InStack(n) => data[n] # data[node]
    BY <2>2 DEF HazardHolds
  <2>4. Hazard!Popped' = Hazard!Popped
    BY <1>2, <1>5, HazardPopped
  <2> HIDE DEF node
  <2>5. /\ r \in Seq(Nodes) /\ Distinct(r) /\ \A n : In(r, n) <=> n = node \/ In(s, n)
    BY <1>1, <2>1, Prepended
  <2>6. IsList(r, head', next')
    BY <1>1, <2>1, ListPushed
  <2> HIDE DEF r
  <2>7. Keeps(r)
    BY <1>1, <2>1, <2>2, <2>3, <2>4, <2>5, <2>6
  <2>8. ValuesOf(r, data') = <<data[node]>> \o ValuesOf(s, data)
    <3>1. /\ Len(r) = Len(s) + 1 /\ r[1] = node /\ Len(s) \in Nat /\ r \in Seq(Nodes)
          /\ \A i \in 1 .. Len(s) : r[i + 1] = s[i]
      BY <1>1, <2>1 DEF r
    <3>2. /\ \A i \in 1 .. Len(s) : s[i] \in Nodes /\ InStack(s[i])
      BY <1>1 DEF In
    <3> DEFINE a == ValuesOf(s, data)
               b == ValuesOf(r, data')
               c == <<data[node]>> \o a
    <3>3. /\ a \in Seq(Value) /\ Len(a) = Len(s) /\ \A i \in 1 .. Len(s) : a[i] = data[s[i]]
      BY <1>1, <3>2, ValuesOfList
    <3>4. /\ \A i \in 1 .. Len(r) : i = 1 \/ (i - 1 \in 1 .. Len(s) /\ r[i] = s[i - 1])
      BY <3>1
    <3>5. /\ \A i \in 1 .. Len(r) : data'[r[i]] = (IF i = 1 THEN data[node] ELSE a[i - 1]) /\ data'[r[i]] \in Value
      <4> HIDE DEF a
      <4>1. \A i \in 1 .. Len(s) : data'[s[i]] = a[i] /\ data'[s[i]] \in Value
        BY <1>1, <3>2, <3>3
      <4> QED BY <2>2, <3>1, <3>4, <4>1
    <3>6. /\ b \in Seq(Value) /\ Len(b) = Len(r) /\ \A i \in 1 .. Len(r) : b[i] = data'[r[i]]
      BY <3>1, <3>5, ValuesOfList
    <3> HIDE DEF a, b
    <3>7. /\ c \in Seq(Value) /\ Len(c) = Len(a) + 1 /\ c[1] = data[node]
          /\ \A i \in 1 .. Len(a) : c[i + 1] = a[i]
      BY <2>2, <3>3
    <3> HIDE DEF c
    <3>8. \A i \in 1 .. Len(b) : b[i] = c[i]
      <4> SUFFICES ASSUME NEW i \in 1 .. Len(b) PROVE b[i] = c[i]
        OBVIOUS
      <4>1. CASE i = 1
        BY <3>1, <3>5, <3>6, <3>7, <4>1
      <4>2. CASE i # 1
        <5>1. i - 1 \in 1 .. Len(a) /\ (i - 1) + 1 = i /\ i \in 1 .. Len(r)
          BY <3>1, <3>3, <3>6, <4>2
        <5> QED BY <3>5, <3>6, <3>7, <4>2, <5>1
      <4> QED BY <4>1, <4>2
    <3>9. Len(b) = Len(c)
      BY <3>1, <3>3, <3>6, <3>7
    <3> QED BY <3>6, <3>7, <3>8, <3>9, SeqEqual DEF a, b, c
  <2> QED BY <1>3, <2>2, <2>4, <2>7, <2>8 DEF StackStep
<1>6. CASE t \in Poppers /\ StackPopped(t)
  <2>1. /\ pc[t] = "cas" /\ head = mine[t] /\ head # Null /\ head' = next[head] /\ UNCHANGED next
        /\ \A n : InStack(n)' <=> InStack(n) /\ n # head
    BY <1>6 DEF StackPopped
  <2>2. Hazard!Popped' = Hazard!Popped \cup {data[head]}
    BY <1>6, <2>1, HazardPopped
  <2>3. s # <<>>
    BY <1>1, <2>1 DEF IsList
  <2>4. Head(s) = head /\ IsList(Tail(s), head', next')
    BY <1>1, <2>1, <2>3, ListPopped
  <2>5. /\ Tail(s) \in Seq(Nodes) /\ Distinct(Tail(s)) /\ In(s, head)
        /\ \A n : In(Tail(s), n) <=> In(s, n) /\ n # head
    BY <1>1, <2>3, <2>4, TailOf
  <2>6. Keeps(Tail(s))
    BY <1>1, <2>1, <2>2, <2>4, <2>5
  <2>7. /\ ValuesOf(s, data) # <<>> /\ Head(ValuesOf(s, data)) = data[head]
        /\ ValuesOf(Tail(s), data') = Tail(ValuesOf(s, data))
    <3> DEFINE a == ValuesOf(s, data)
               r == Tail(s)
               b == ValuesOf(r, data')
               c == Tail(a)
    <3>1. /\ Len(s) \in Nat \ {0} /\ Head(s) = s[1] /\ r \in Seq(Nodes) /\ Len(r) = Len(s) - 1
          /\ \A i \in 1 .. Len(r) : r[i] = s[i + 1] /\ i + 1 \in 1 .. Len(s)
      BY <1>1, <2>3
    <3>2. \A i \in 1 .. Len(s) : s[i] \in Nodes /\ InStack(s[i])
      BY <1>1 DEF In
    <3>3. /\ a \in Seq(Value) /\ Len(a) = Len(s) /\ \A i \in 1 .. Len(s) : a[i] = data[s[i]]
      BY <1>1, <3>2, ValuesOfList
    <3> HIDE DEF r
    <3>4. \A i \in 1 .. Len(r) : data'[r[i]] = a[i + 1] /\ data'[r[i]] \in Value
      BY <1>1, <3>1, <3>2, <3>3
    <3>5. /\ b \in Seq(Value) /\ Len(b) = Len(r) /\ \A i \in 1 .. Len(r) : b[i] = data'[r[i]]
      BY <3>1, <3>4, ValuesOfList
    <3> HIDE DEF a, b
    <3>6. a # <<>> /\ Head(a) = data[head]
      BY <2>4, <3>1, <3>3
    <3>7. /\ c \in Seq(Value) /\ Len(c) = Len(a) - 1 /\ \A i \in 1 .. Len(c) : c[i] = a[i + 1]
      BY <3>3, <3>6
    <3> HIDE DEF c
    <3>8. Len(b) = Len(c) /\ \A i \in 1 .. Len(b) : b[i] = c[i]
      BY <3>1, <3>3, <3>4, <3>5, <3>7
    <3>9. b = c
      BY <3>5, <3>7, <3>8, SeqEqual
    <3> QED BY <3>6, <3>9 DEF a, b, c, r
  <2>8. data[head] \notin Hazard!Popped
    BY <1>1, <2>5
  <2> QED BY <1>3, <2>2, <2>6, <2>7, <2>8 DEF StackStep
<1>7. \/ StackStays /\ Hazard!Popped' = Hazard!Popped
      \/ t \in Pushers /\ StackPushed(t)
      \/ t \in Poppers /\ StackPopped(t)
  <2>1. CASE t \in Pushers
    BY <1>2, <2>1, PushPlaces, HazardPopped DEF Hazard!Thread
  <2>2. CASE t \in Poppers
    <3>1. StackStays \/ StackPopped(t)
      BY <1>2, <2>2, PopPlaces, ScanPlaces, ExchangePlaces, SweepPlaces DEF Hazard!Thread, Hazard!Popper
    <3>2. CASE pc[t] = "cas" /\ head = mine[t]
      <4>1. pc'[t] = "clear" /\ UNCHANGED mine
        BY <1>2, <2>2, <3>2 DEF Hazard!Thread, Hazard!Popper, Hazard!Claim, Hazard!ClaimOne,
           Hazard!PopLoad, Hazard!Publish, Hazard!Reload, Hazard!ReadNext, Hazard!PopCas, Hazard!Clear,
           Hazard!ReadData, Hazard!Scan, Hazard!Exchange, Hazard!Sweep, Hazard!SweepOne, Hazard!Exit,
           Hazard!Goto
      <4>2. \A n : n = head => ~InStack(n)'
        <5>1. Owns(t)' /\ mine'[t] = head
          BY <2>2, <3>2, <4>1 DEF Owns
        <5> QED BY <5>1 DEF InStack
      <4>3. InStack(head)
        <5>1. mine[t] \in alive
          BY <1>2, <2>2, <3>2 DEF HazardInv, Protected, Follows
        <5> QED BY <1>2, <3>2, <5>1 DEF HazardInv, HazardChain
      <4> QED BY <2>2, <3>1, <4>2, <4>3 DEF StackStays
    <3>3. CASE ~ (pc[t] = "cas" /\ head = mine[t])
      BY <2>2, <3>1, <3>3, HazardPopped DEF StackPopped
    <3> QED BY <3>2, <3>3
  <2> QED BY <1>2, <2>1, <2>2
<1> QED BY <1>4, <1>5, <1>6, <1>7

-----------------------------------------------------------------------------
\* All four stacks hold a list.
StackHolds ==
  /\ kind = "hazard" => \E s : HazardHolds(s)
  /\ kind # "hazard" => \E s : CountedHolds(s)

\* The abstract stack's variables
Values == IF kind = "hazard" THEN Hazard!Reach ELSE Counted!Reach
Taken == IF kind = "hazard" THEN Hazard!Popped ELSE Counted!Popped

LEMMA StackBegins ==
  ASSUME Init
  PROVE  StackHolds /\ Values = <<>> /\ Taken = {}
<1> USE SameThreads
<1>1. /\ <<>> \in Seq(Nodes) /\ <<>> \in Seq(Value) /\ IsList(<<>>, Null, next)
      /\ Pushers \subseteq Threads /\ Poppers \subseteq Threads /\ Pushers \cap Poppers = {}
  BY StackThreadsAssumption DEF IsList, Threads
<1>2. CASE kind = "hazard" /\ Hazard!Init
  <2>1. /\ head = Null /\ alive = {} /\ retired = <<>> /\ returned = {}
        /\ \A t \in Threads : pc[t] = IF t \in Pushers THEN "load" ELSE "claim"
    BY <1>2 DEF Hazard!Init
  <2>2. Hazard!Popped = {}
    BY <1>1, <2>1 DEF Hazard!Popped
  <2>3. \A n : ~InStack(n)
    BY <2>1 DEF InStack
  <2>4. HazardHolds(<<>>)
    BY <1>1, <2>1, <2>2, <2>3, EmptyList DEF HazardHolds
  <2>5. Hazard!Reach = ValuesOf(<<>>, data)
    BY <1>2, <2>4, HazardBegins, HazardReach
  <2>6. ValuesOf(<<>>, data) = <<>>
    BY DEF ValuesOf
  <2> QED BY <1>2, <2>2, <2>4, <2>5, <2>6 DEF StackHolds, Values, Taken
<1>3. CASE Counted!Init
  <2>1. /\ head = Null /\ returned = {} /\ \A t \in Threads : pc[t] = "load"
        /\ kind # "hazard"
    BY <1>3 DEF Counted!Init
  <2>2. Counted!Popped = {}
    BY <1>1, <2>1 DEF Counted!Popped
  <2>3. CountedHolds(<<>>)
    BY <1>1, <2>1, <2>2, EmptyList DEF CountedHolds
  <2>4. Counted!Reach = <<>>
    BY <1>3, <2>3, CountedBegins, CountedReach
  <2> QED BY <2>1, <2>2, <2>3, <2>4 DEF StackHolds, Values, Taken
<1> QED BY <1>2, <1>3 DEF Init

LEMMA StackMoves ==
  ASSUME StacksInv, StacksInv', StackHolds, [Next]_vars
  PROVE  StackHolds' /\ StackStep(Values, Taken, Values', Taken')
<1>1. ASSUME NEW t \in Threads, Thread(t)
      PROVE  StackHolds' /\ StackStep(Values, Taken, Values', Taken')
  <2>1. CASE kind = "hazard"
    <3>1. /\ HazardInv /\ HazardInv' /\ Hazard!Thread(t) /\ kind' = "hazard"
      BY <1>1, <2>1 DEF Thread, StacksInv
    <3>2. PICK s : HazardHolds(s)
      BY <2>1 DEF StackHolds
    <3>3. PICK r : /\ HazardHolds(r)'
                   /\ StackStep(ValuesOf(s, data), Hazard!Popped, ValuesOf(r, data'), Hazard!Popped')
      BY <3>1, <3>2, HazardMoves
    <3>4. Hazard!Reach = ValuesOf(s, data)
      BY <3>1, <3>2, HazardReach
    <3>5. Hazard!Reach' = ValuesOf(r, data')
      <4>1. DOMAIN next' = Nodes
        BY <3>1 DEF HazardInv, HazardTypes, HazardNodes
      <4>2. List(head', next') = r
        BY <3>3, <4>1, ValuesFinite, ListIs DEF HazardHolds
      <4>3. Hazard!List(head', next') = r
        BY <4>2, SameList
      <4> QED BY <4>3 DEF Hazard!Reach, Hazard!Chain, ValuesOf
    <3> QED BY <2>1, <3>1, <3>3, <3>4, <3>5 DEF StackHolds, Values, Taken
  <2>2. CASE kind # "hazard"
    <3>1. CountedInv /\ Counted!Thread(t)
      BY <1>1, <2>2 DEF Thread, StacksInv
    <3>2. kind' = kind
      BY <3>1 DEF Counted!Thread, Counted!Pusher, Counted!Popper, Counted!PushLoad,
         Counted!PushCas, Counted!PopLoad, Counted!PopCas, Counted!PopReturn
    <3>3. CountedInv'
      BY <2>2, <3>2 DEF StacksInv
    <3>4. PICK s : CountedHolds(s)
      BY <2>2 DEF StackHolds
    <3>5. PICK r : CountedHolds(r)' /\ StackStep(s, Counted!Popped, r, Counted!Popped')
      BY <3>1, <3>4, CountedMoves
    <3>6. Counted!Reach = s
      BY <3>1, <3>4, CountedReach
    <3>7. Counted!Reach' = r
      <4>1. DOMAIN next' = Value
        BY <3>3, SameThreads DEF CountedInv, Counted!TypeOK
      <4>2. List(head', next') = r
        BY <3>5, <4>1, ValuesFinite, ListIs DEF CountedHolds
      <4>3. Counted!List(head', next') = r
        BY <4>2, SameList
      <4> QED BY <4>3 DEF Counted!Reach
    <3> QED BY <2>2, <3>2, <3>5, <3>6, <3>7 DEF StackHolds, Values, Taken
  <2> QED BY <2>1, <2>2
<1>2. CASE UNCHANGED vars
  <2>1. UNCHANGED <<kind, head, next, mine, returned, calls, pc, data, alive, retired, swept>>
    BY <1>2 DEF vars, reclaim
  <2>2. UNCHANGED <<Counted!Popped, Hazard!Popped>>
    BY <2>1 DEF Counted!Popped, Hazard!Popped
  <2>3. UNCHANGED <<Counted!Reach, Hazard!Reach>>
    BY <2>1 DEF Counted!Reach, Hazard!Reach, Hazard!Chain
  <2>4. \A n : InStack(n)' <=> InStack(n)
    BY <2>1 DEF InStack, Owns
  <2>5. \A s : CountedHolds(s)' <=> CountedHolds(s)
    BY <2>1, <2>2 DEF CountedHolds
  <2>6. \A s : HazardHolds(s)' <=> HazardHolds(s)
    BY <2>1, <2>2, <2>4 DEF HazardHolds
  <2> QED BY <2>1, <2>2, <2>3, <2>5, <2>6 DEF StackHolds, StackStep, Values, Taken
<1>3. CASE Join
  BY <1>2, <1>3 DEF Join, vars, reclaim, Counted!Join, Counted!vars, Hazard!Join, Hazard!vars,
     Hazard!nodes, Hazard!hazards, Hazard!locals
<1> QED BY <1>1, <1>2, <1>3 DEF Next

LEMMA StackAlways == Spec => [](StacksInv /\ StackHolds)
<1>1. Init => StackHolds
  BY StackBegins
<1>2. StacksInv /\ StacksInv' /\ StackHolds /\ [Next]_vars => StackHolds'
  BY StackMoves
<1> QED BY <1>1, <1>2, StacksInvHolds, PTL DEF Spec

\* push and pop of the four programs in LockFree/, for any number of threads, calls,
\* addresses and hazard pointers: a successful CAS pushes its value on the top of an
\* abstract stack or pops the value on the top of it, which nobody else pops, and
\* nothing else changes it, whatever addresses new hands out again.
THEOREM ImplementsStack == Spec => Implements
<1>1. Init => Abstract!Init
  BY StackBegins DEF Abstract!Init, Values, Taken
<1>2. StacksInv /\ StacksInv' /\ StackHolds /\ [Next]_vars => [Abstract!Next]_Abstract!vars
  <2> SUFFICES ASSUME StacksInv, StacksInv', StackHolds, [Next]_vars
               PROVE  [Abstract!Next]_Abstract!vars
    OBVIOUS
  <2>1. StackStep(Values, Taken, Values', Taken')
    BY StackMoves
  <2>2. (\E v \in Value : Abstract!Push(v)) \/ Abstract!Pop \/ UNCHANGED Abstract!vars
    <3> USE DEF Values, Taken, Abstract!Push, Abstract!Pop, Abstract!vars
    <3> QED BY <2>1 DEF StackStep
  <2> QED BY <2>2 DEF Abstract!Next
<1> QED BY <1>1, <1>2, StackAlways, PTL DEF Spec, Implements, Abstract!Spec

\* deleteUnusedNodes, for any number of threads: once all have ended, a node that was not
\* deleted is in the stack or retired, in one place.
THEOREM NoLeakHolds == Spec => []NoLeak
<1>1. StacksInv /\ StackHolds => NoLeak
  <2> SUFFICES ASSUME StacksInv, StackHolds, kind = "hazard", Hazard!Finished PROVE Hazard!Kept
    BY DEF NoLeak, Hazard!Kept
  <2>1. HazardInv
    BY DEF StacksInv
  <2>2. PICK s : HazardHolds(s)
    BY DEF StackHolds
  <2>3. Hazard!Chain = s /\ s \in Seq(Nodes) /\ Distinct(s) /\ \A n : In(s, n) <=> InStack(n)
    BY <2>1, <2>2, HazardReach DEF HazardHolds
  <2>4. retired \in Seq(Nodes) /\ Distinct(retired) /\ \A n : In(retired, n) => n \in alive
    BY <2>1 DEF HazardInv, HazardTypes, HazardLists, HazardPlaces
  <2>5. \A t \in Threads : ~Owns(t) /\ swept[t] = <<>>
    BY <2>1, SameThreads DEF Hazard!Finished, Owns, HazardInv, HazardTypes, HazardLists
  <2>6. \A n : n \in alive <=> In(s, n) \/ In(retired, n)
    BY <2>3, <2>4, <2>5, EmptyList DEF InStack
  <2>7. Hazard!Range(s) = {n \in Nodes : In(s, n)} /\ Hazard!Range(retired) = {n \in Nodes : In(retired, n)}
    BY <2>3, <2>4 DEF Hazard!Range, In
  <2>8. alive = Hazard!Range(s) \cup Hazard!Range(retired)
    BY <2>1, <2>6, <2>7 DEF HazardInv, HazardTypes, HazardNodes
  <2>9. Hazard!IsInjective(s \o retired)
    <3> DEFINE q == s \o retired
    <3>1. /\ q \in Seq(Nodes) /\ DOMAIN q = 1 .. Len(q) /\ Len(q) = Len(s) + Len(retired)
          /\ Len(s) \in Nat /\ Len(retired) \in Nat
          /\ \A i \in 1 .. Len(q) : q[i] = IF i <= Len(s) THEN s[i] ELSE retired[i - Len(s)]
      BY <2>3, <2>4
    <3> HIDE DEF q
    <3>2. \A n : ~ (In(s, n) /\ In(retired, n))
      BY <2>3 DEF InStack
    <3>3. ASSUME NEW i \in 1 .. Len(q), NEW j \in 1 .. Len(q), q[i] = q[j] PROVE i = j
      <4>1. CASE i <= Len(s) /\ j <= Len(s)
        BY <2>3, <3>1, <3>3, <4>1 DEF Distinct
      <4>2. CASE i > Len(s) /\ j > Len(s)
        <5>1. i - Len(s) \in 1 .. Len(retired) /\ j - Len(s) \in 1 .. Len(retired)
          BY <3>1, <4>2
        <5>2. retired[i - Len(s)] = retired[j - Len(s)]
          BY <3>1, <3>3, <4>2
        <5>3. i - Len(s) = j - Len(s)
          BY <2>4, <5>1, <5>2 DEF Distinct
        <5> QED BY <3>1, <5>3
      <4>3. CASE i <= Len(s) /\ j > Len(s)
        <5>1. In(s, q[i]) /\ In(retired, q[j])
          BY <3>1, <4>3 DEF In
        <5> QED BY <3>2, <3>3, <5>1
      <4>4. CASE i > Len(s) /\ j <= Len(s)
        <5>1. In(retired, q[i]) /\ In(s, q[j])
          BY <3>1, <4>4 DEF In
        <5> QED BY <3>2, <3>3, <5>1
      <4> QED BY <3>1, <4>1, <4>2, <4>3, <4>4
    <3> QED BY <3>1, <3>3 DEF Hazard!IsInjective, q
  <2> QED BY <2>3, <2>8, <2>9 DEF Hazard!Kept
<1> QED BY <1>1, StackAlways, PTL
=============================================================================
